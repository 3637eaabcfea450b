----------------------------- MODULE DnsOwnership -----------------------------
(***************************************************************************)
(* What the Master DNS Controller promises of the network adapters: it     *)
(* borrows their DNS setting.  An adapter is written only while the        *)
(* owner's setting is kept, what is kept is never replaced, and it is      *)
(* dropped only when the adapter has the owner's setting again.  Who keeps *)
(* it, in which file or in whose memory, and which call does what, is the  *)
(* business of DnsOverride, which implements this (DnsRefinement).         *)
(***************************************************************************)
CONSTANTS
    Adapters,    \* network adapters
    Choices,     \* settings an owner may have chosen
    Addresses,   \* what the program may write
    Nothing      \* no setting is kept

VARIABLES
    owner,   \* adapter -> the owner's setting
    dns,     \* adapter -> the setting it has
    kept     \* adapter -> the setting the program keeps for it

ownershipVars == <<owner, dns, kept>>

OwnershipInit ==
    /\ owner \in [Adapters -> Choices]
    /\ dns = owner
    /\ kept = [a \in Adapters |-> Nothing]

\* Backups are made, and dropped, of adapters that have the owner's setting.
Backup ==
    /\ UNCHANGED <<owner, dns>>
    /\ kept' \in [Adapters -> Choices \union {Nothing}]
    /\ \A a \in Adapters : kept'[a] # kept[a] =>
          /\ dns[a] = owner[a]
          /\ kept'[a] = Nothing \/ (kept[a] = Nothing /\ kept'[a] = owner[a])

\* The program's own address goes only where a setting is kept.
Overwrite(a) ==
    /\ kept[a] # Nothing
    /\ \E address \in Addresses : dns' = [dns EXCEPT ![a] = address]

GiveBack(a) ==
    /\ kept[a] # Nothing
    /\ dns' = [dns EXCEPT ![a] = kept[a]]

\* Another program puts an adapter back.
Revert(a) == dns' = [dns EXCEPT ![a] = owner[a]]

Write ==
    /\ UNCHANGED <<owner, kept>>
    /\ \E a \in Adapters : Overwrite(a) \/ GiveBack(a) \/ Revert(a)

OwnershipNext == Backup \/ Write

OwnershipSpec == OwnershipInit /\ [][OwnershipNext]_ownershipVars

=============================================================================
