--------------------------- MODULE DeviceQuarantine ---------------------------
(***************************************************************************)
(* The DNS quarantine of the security engine                               *)
(* (src/modules/security/mod.rs): an address the operator isolates is      *)
(* bound to the MAC the passive inventory shows for it, and is released    *)
(* when the inventory shows that the address belongs to somebody else.     *)
(* Each call holds the one lock of the inventory for all it does.          *)
(***************************************************************************)
EXTENDS Integers, FiniteSets

CONSTANTS
    Sources,             \* client addresses
    Loopback,            \* those of this machine; multicast and the like too
    Macs,                \* well-formed addresses, all zeros and all ones not
    MaxQuarantineEntries,  \* 256
    Inventories          \* refreshes of the inventory: what is seen, and which
                         \* addresses are this machine's and the gateways'

NoMac == "no MAC"
Ages == {"none", "fresh", "stale"}

Observations == [Sources -> Macs \union {NoMac}]

ASSUME DeviceAssumption ==
    /\ Loopback \subseteq Sources /\ IsFiniteSet(Sources)
    /\ NoMac \notin Macs
    /\ MaxQuarantineEntries \in Nat
    /\ Inventories \subseteq
         [seen : Observations, selves : SUBSET Sources, gates : SUBSET Sources]

VARIABLES
    entries,     \* the MAC each isolated address is bound to, or NoMac
    inventory,   \* the MAC last seen for each address, or NoMac
    selfIps, gateways,
    age          \* of the last observation; five minutes make it stale

deviceVars == <<entries, inventory, selfIps, gateways, age>>

Isolated == {s \in Sources : entries[s] # NoMac}

DevicesInit ==
    /\ entries = [s \in Sources |-> NoMac]
    /\ inventory = [s \in Sources |-> NoMac]
    /\ selfIps = {} /\ gateways = {}
    /\ age = "none"

\* owner_changed: only a MAC that was seen, and is another one, counts.
OwnerChanged(s, seen) == seen[s] # NoMac /\ seen[s] # entries[s]

\* (mutant) An address that has become the gateway's stays isolated.
UpdateOwnersOnly(seen, selves, gates) ==
    /\ inventory' = seen
    /\ selfIps' = selves /\ gateways' = gates
    /\ age' = "fresh"
    /\ entries' = [s \in Sources |->
         IF OwnerChanged(s, seen) \/ s \in selves THEN NoMac ELSE entries[s]]

\* (mutant) An address nobody has seen this time is released.
UpdateForgets(seen, selves, gates) ==
    /\ inventory' = seen
    /\ selfIps' = selves /\ gateways' = gates
    /\ age' = "fresh"
    /\ entries' = [s \in Sources |->
         IF seen[s] # entries[s] \/ s \in selves \union gates THEN NoMac ELSE entries[s]]

\* update_quarantine_inventory
UpdateInventory(seen, selves, gates) ==
    /\ inventory' = seen
    /\ selfIps' = selves /\ gateways' = gates
    /\ age' = "fresh"
    /\ entries' = [s \in Sources |->
         IF OwnerChanged(s, seen) \/ s \in selves \union gates THEN NoMac ELSE entries[s]]

\* quarantine_ip, when it accepts; a refusal changes nothing.
Accepts(s) ==
    /\ s \notin Loopback \union selfIps \union gateways
    /\ age = "fresh" /\ selfIps # {} /\ gateways # {}
    /\ inventory[s] # NoMac
    /\ s \in Isolated \/ Cardinality(Isolated) < MaxQuarantineEntries

QuarantineIp(s) ==
    /\ Accepts(s)
    /\ s \notin Isolated
    /\ entries' = [entries EXCEPT ![s] = inventory[s]]
    /\ UNCHANGED <<inventory, selfIps, gateways, age>>

UnquarantineIp(s) ==
    /\ s \in Isolated
    /\ entries' = [entries EXCEPT ![s] = NoMac]
    /\ UNCHANGED <<inventory, selfIps, gateways, age>>

InventoryAges ==
    /\ age = "fresh"
    /\ age' = "stale"
    /\ UNCHANGED <<entries, inventory, selfIps, gateways>>

DevicesNext ==
    \/ \E i \in Inventories : UpdateInventory(i.seen, i.selves, i.gates)
    \/ \E s \in Sources : QuarantineIp(s) \/ UnquarantineIp(s)
    \/ InventoryAges

DevicesSpec == DevicesInit /\ [][DevicesNext]_deviceVars

-----------------------------------------------------------------------------
\* Every variable keeps to the values the code can give it.
DevicesTypeOK ==
    /\ entries \in Observations
    /\ inventory \in Observations
    /\ selfIps \in SUBSET Sources
    /\ gateways \in SUBSET Sources
    /\ age \in Ages

\* Nobody isolates this machine or the gateway, whatever the network becomes
\* after the operator's click: an isolated address is neither, and the
\* inventory does not show it with another MAC than the one it is bound to.
\* There are never more entries than the cap.
QuarantineSafe ==
    /\ \A s \in Isolated :
         /\ s \notin Loopback \union selfIps \union gateways
         /\ inventory[s] \in {NoMac, entries[s]}
    /\ Cardinality(Isolated) <= MaxQuarantineEntries

\* A refresh of the inventory releases an address only on evidence: that it
\* is this machine's or a gateway's, or that another MAC answers for it.  An
\* address that is silent stays isolated, and an entry is never rebound.
ReleasedOnEvidence ==
    [][\A s \in Isolated :
         entries'[s] # entries[s] =>
            /\ entries'[s] = NoMac
            /\ \/ s \in selfIps' \union gateways'
               \/ inventory'[s] \notin {NoMac, entries[s]}
               \/ UnquarantineIp(s)]_deviceVars

=============================================================================
