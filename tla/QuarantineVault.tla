---------------------------- MODULE QuarantineVault ----------------------------
(***************************************************************************)
(* The file quarantine (src/modules/security/file_quarantine.rs): a file   *)
(* is sealed into a blob of the vault, its original is overwritten and     *)
(* removed, and an entry is added to index.json.  Restoring and deleting   *)
(* an entry go the other way.  The real-time guard, the antivirus tab and  *)
(* nobody else call it, each on a thread of its own, and there is no lock: *)
(* every call reads the whole index, changes its copy and writes it back.  *)
(*                                                                         *)
(* An entry is identified by the path it was taken from and a number; the  *)
(* code draws a time stamp and random bytes.  Sealing and unsealing are    *)
(* one step each: what they may end in is a whole blob or an error.        *)
(***************************************************************************)
EXTENDS Integers, FiniteSets

CONSTANTS
    Paths,        \* places a file may be taken from
    Contents,     \* what a file may hold
    Ids,          \* entries: a path and a number
    Drawn,        \* entries quarantine calls may draw in this instance
    Used,         \* paths at which there are files in this instance
    Callers,      \* threads that call the quarantine
    VaultFaults   \* what may go wrong in this instance

Missing == "missing"
Junk    == "junk"      \* overwritten bytes, or a write that stopped half way
Garbled == "garbled"   \* such a file, as a call has read it

\* What may go wrong:
\*   write   a write of a blob, of a restored file or of the index fails
\*   shred   overwriting or removing a file fails
\*   kill    the process is killed
VaultFaultKinds == {"write", "shred", "kill"}

PathOf(i) == i[1]
\* What a call may read, and seal.
Sealable == Contents \union {Garbled}
Files == Sealable \union {Missing, Junk}
VaultLabels == {"idle", "seal", "shred", "unlink", "list", "unseal", "putback",
                "discard", "burn", "ashes", "truncate", "save"}

ASSUME ContentsAssumption == Contents \cap {Missing, Junk, Garbled} = {}
ASSUME IdsAssumption == Ids \subseteq Paths \X Nat /\ Drawn \subseteq Ids /\ Used \subseteq Paths
ASSUME VaultFaultsAssumption == VaultFaults \subseteq VaultFaultKinds

VARIABLES
    place,    \* the file at each path
    aside,    \* its neighbour "restored_<name>"
    blob,     \* the vault's file of each entry
    index,    \* entries index.json lists; an unreadable index counts as empty
    issued,   \* ids given out so far
    hand,     \* the callers: where they are, and locals
    calm      \* no call has failed or been killed, and no two were ever
              \* between their read and their write of the index at once

vaultFiles == <<place, aside, blob>>
vaultVars == <<vaultFiles, index, issued, hand, calm>>

\* id: the entry in hand; data: contents read; list: index to be written.
Resting == [pc |-> "idle", id |-> <<Missing, 0>>, data |-> Missing, list |-> {}]
Hands ==
    [pc : VaultLabels, id : Ids \union {<<Missing, 0>>}, data : Files,
     list : SUBSET Ids]

VaultInit ==
    /\ place \in [Paths -> Contents \union {Missing}]
    /\ \A p \in Paths \ Used : place[p] = Missing
    /\ aside = [p \in Paths |-> Missing]
    /\ blob = [i \in Ids |-> Missing]
    /\ index = {}
    /\ issued = {}
    /\ hand = [u \in Callers |-> Resting]
    /\ calm = TRUE

Busy(u) == hand[u].pc # "idle"
InHand(u) == hand[u].id
Source(u) == PathOf(InHand(u))
Move(u, label) == hand' = [hand EXCEPT ![u].pc = label]
Return(u) == hand' = [hand EXCEPT ![u] = Resting]
Fail(u) == Return(u) /\ calm' = FALSE

\* From read_index to write_index.
HoldsIndex(u) ==
    hand[u].pc \in {"unseal", "putback", "discard", "burn", "ashes", "truncate", "save"}

\* calm after a call has read the index.
ReadsIndex(u) == calm' = (calm /\ \A w \in Callers \ {u} : ~HoldsIndex(w))

-----------------------------------------------------------------------------
(***************************************************************************)
(* quarantine_file                                                         *)
(***************************************************************************)

\* What a read finds: a file overwritten in part is neither whole nor lost.
ReadOf(p) == IF place[p] = Junk THEN Garbled ELSE place[p]

\* The checks, the read and the encryption: nothing has changed on disk yet.
\* Nobody is kept from a file that another call has begun to overwrite.
TakeFile(u, p) ==
    /\ ~Busy(u)
    /\ place[p] # Missing
    /\ \E i \in Drawn \ issued :
        /\ PathOf(i) = p
        /\ issued' = issued \union {i}
        /\ hand' = [hand EXCEPT ![u].pc = "seal", ![u].id = i,
                                ![u].data = ReadOf(p)]
    /\ UNCHANGED <<vaultFiles, index, calm>>

\* (mutant) A blob that could not be written does not stop the call.
SealBlobUnchecked(u) ==
    /\ hand[u].pc = "seal"
    /\ \/ blob' = [blob EXCEPT ![InHand(u)] = hand[u].data]
       \/ "write" \in VaultFaults /\ blob' = [blob EXCEPT ![InHand(u)] = Junk]
    /\ Move(u, "shred")
    /\ UNCHANGED <<place, aside, index, issued, calm>>

SealBlob(u) ==
    /\ hand[u].pc = "seal"
    /\ \/ /\ blob' = [blob EXCEPT ![InHand(u)] = hand[u].data]
          /\ Move(u, "shred")
          /\ UNCHANGED calm
       \/ /\ "write" \in VaultFaults
          /\ blob' = [blob EXCEPT ![InHand(u)] = Junk]
          /\ Fail(u)
    /\ UNCHANGED <<place, aside, index, issued>>

\* secure_delete of the original: three passes over it, then rename and
\* remove.  Another call, or the owner, may have removed it meanwhile.
ShredOriginal(u) ==
    /\ hand[u].pc = "shred"
    /\ \/ /\ place[Source(u)] # Missing
          /\ place' = [place EXCEPT ![Source(u)] = Junk]
          /\ Move(u, "unlink")
          /\ UNCHANGED calm
       \/ /\ place[Source(u)] = Missing \/ "shred" \in VaultFaults
          /\ UNCHANGED place
          /\ Fail(u)
    /\ UNCHANGED <<aside, blob, index, issued>>

UnlinkOriginal(u) ==
    /\ hand[u].pc = "unlink"
    /\ \/ /\ place[Source(u)] # Missing
          /\ place' = [place EXCEPT ![Source(u)] = Missing]
          /\ Move(u, "list")
          /\ UNCHANGED calm
       \/ /\ place[Source(u)] = Missing \/ "shred" \in VaultFaults
          /\ UNCHANGED place
          /\ Fail(u)
    /\ UNCHANGED <<aside, blob, index, issued>>

\* read_index and push.
ListEntry(u) ==
    /\ hand[u].pc = "list"
    /\ hand' = [hand EXCEPT ![u].pc = "truncate",
                            ![u].list = index \union {InHand(u)}]
    /\ ReadsIndex(u)
    /\ UNCHANGED <<vaultFiles, index, issued>>

\* write_index is not atomic: the file is truncated, then written.
Truncate(u) ==
    /\ hand[u].pc = "truncate"
    /\ index' = {}
    /\ Move(u, "save")
    /\ UNCHANGED <<vaultFiles, issued, calm>>

SaveIndex(u) ==
    /\ hand[u].pc = "save"
    /\ \/ index' = hand[u].list /\ Return(u) /\ UNCHANGED calm
       \/ "write" \in VaultFaults /\ UNCHANGED index /\ Fail(u)
    /\ UNCHANGED <<vaultFiles, issued>>

-----------------------------------------------------------------------------
(***************************************************************************)
(* restore and delete_entry.  The operator picks the entry from a list     *)
(* that may be out of date; an entry the index does not have is refused.   *)
(***************************************************************************)
PickEntry(u, i, label) ==
    /\ ~Busy(u)
    /\ i \in index
    /\ hand' = [hand EXCEPT ![u].pc = label, ![u].id = i,
                            ![u].list = index \ {i}]
    /\ ReadsIndex(u)
    /\ UNCHANGED <<vaultFiles, index, issued>>

RestoreEntry(u, i) == PickEntry(u, i, "unseal")
DeleteEntry(u, i)  == PickEntry(u, i, "burn")

\* Read and decrypt: only a whole blob passes.
Unseal(u) ==
    /\ hand[u].pc = "unseal"
    /\ IF blob[InHand(u)] \in Sealable
       THEN /\ hand' = [hand EXCEPT ![u].pc = "putback",
                                    ![u].data = blob[InHand(u)]]
            /\ UNCHANGED calm
       ELSE Fail(u)
    /\ UNCHANGED <<vaultFiles, index, issued>>

\* The file goes back to its place, or beside whatever is there now.
PutBack(u) ==
    /\ hand[u].pc = "putback"
    /\ \E got \in {hand[u].data} \union (IF "write" \in VaultFaults THEN {Junk} ELSE {}) :
        /\ IF place[Source(u)] = Missing
           THEN place' = [place EXCEPT ![Source(u)] = got] /\ UNCHANGED aside
           ELSE aside' = [aside EXCEPT ![Source(u)] = got] /\ UNCHANGED place
        /\ IF got = Junk THEN Fail(u) ELSE Move(u, "discard") /\ UNCHANGED calm
    /\ UNCHANGED <<blob, index, issued>>

\* (mutant) The blob outlives the entry that named it.
DiscardNothing(u) ==
    /\ hand[u].pc = "discard"
    /\ Move(u, "truncate")
    /\ UNCHANGED <<vaultFiles, index, issued, calm>>

\* A blob that cannot be removed is left behind without a word.
Discard(u) ==
    /\ hand[u].pc = "discard"
    /\ \/ blob' = [blob EXCEPT ![InHand(u)] = Missing] /\ UNCHANGED calm
       \/ "shred" \in VaultFaults /\ UNCHANGED blob /\ calm' = FALSE
    /\ Move(u, "truncate")
    /\ UNCHANGED <<place, aside, index, issued>>

\* secure_delete of the blob, when there is one.
BurnBlob(u) ==
    /\ hand[u].pc = "burn"
    /\ \/ /\ blob[InHand(u)] # Missing
          /\ blob' = [blob EXCEPT ![InHand(u)] = Junk]
          /\ Move(u, "ashes")
          /\ UNCHANGED calm
       \/ /\ blob[InHand(u)] = Missing
          /\ Move(u, "truncate")
          /\ UNCHANGED <<blob, calm>>
       \/ /\ "shred" \in VaultFaults
          /\ UNCHANGED blob
          /\ Fail(u)
    /\ UNCHANGED <<place, aside, index, issued>>

UnlinkBlob(u) ==
    /\ hand[u].pc = "ashes"
    /\ \/ /\ blob[InHand(u)] # Missing
          /\ blob' = [blob EXCEPT ![InHand(u)] = Missing]
          /\ Move(u, "truncate")
          /\ UNCHANGED calm
       \/ /\ blob[InHand(u)] = Missing \/ "shred" \in VaultFaults
          /\ UNCHANGED blob
          /\ Fail(u)
    /\ UNCHANGED <<place, aside, index, issued>>

-----------------------------------------------------------------------------
\* The owner saves a new file where none is, or changes the one that is there.
OwnerSaves(p, c) ==
    /\ place[p] # c
    /\ place' = [place EXCEPT ![p] = c]
    /\ UNCHANGED <<aside, blob, index, issued, hand, calm>>

VaultKilled ==
    /\ "kill" \in VaultFaults
    /\ hand' = [u \in Callers |-> Resting]
    /\ calm' = (calm /\ \A u \in Callers : ~Busy(u))
    /\ UNCHANGED <<vaultFiles, index, issued>>

VaultStep(u) ==
    \/ SealBlob(u) \/ ShredOriginal(u) \/ UnlinkOriginal(u) \/ ListEntry(u)
    \/ Truncate(u) \/ SaveIndex(u)
    \/ Unseal(u) \/ PutBack(u) \/ Discard(u)
    \/ BurnBlob(u) \/ UnlinkBlob(u)

VaultRequest(u) ==
    \/ \E p \in Paths : TakeFile(u, p)
    \/ \E i \in Ids : RestoreEntry(u, i)
    \/ \E i \in Ids : DeleteEntry(u, i)

VaultNext ==
    \/ \E u \in Callers : VaultRequest(u) \/ VaultStep(u)
    \/ \E p \in Used, c \in Contents : OwnerSaves(p, c)
    \/ VaultKilled

VaultSpec == VaultInit /\ [][VaultNext]_vaultVars

-----------------------------------------------------------------------------
\* Every variable keeps to the values the code can give it.
VaultTypeOK ==
    /\ place \in [Paths -> Files]
    /\ aside \in [Paths -> Files]
    /\ blob \in [Ids -> Files]
    /\ index \in SUBSET Ids
    /\ issued \in SUBSET Ids
    /\ hand \in [Callers -> Hands]
    /\ calm \in BOOLEAN

\* From the first overwritten byte of the original on, the vault holds a whole
\* copy of what the call read from it, whoever else restores, deletes or takes
\* files meanwhile: quarantine_file stops when the blob cannot be written, and
\* nobody can name the entry before it is listed.
SealedBeforeShred ==
    \A u \in Callers :
        hand[u].pc \in {"shred", "unlink", "list"} => blob[InHand(u)] = hand[u].data

\* The index at rest lists the blobs of the vault, neither more nor fewer, so
\* that everything taken can be restored and deleted, as long as no call fails
\* and no two are between their read and their write of index.json at once.
\* The seals and shreds of several calls may overlap in any other way.
IndexIsVault ==
    calm /\ (\A u \in Callers : ~Busy(u)) => index = {i \in Ids : blob[i] # Missing}

=============================================================================
