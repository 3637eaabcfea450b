----------------------------- MODULE StorageProofs -----------------------------
(***************************************************************************)
(* The safety theorems about what is kept on disk: of QuarantineVault, for *)
(* any paths, contents, callers and entries; of BlockStats, for any number *)
(* of threads, days, days in a week and blocks; of RealtimeGuard, for any  *)
(* paths, canaries and drives, with the step-by-step proof that it is a    *)
(* caller of the vault; of SettingsStore, for any rules, places and        *)
(* cloning threads; of QueryLog, for any loggers and entries; and whatever *)
(* fails or is killed.                                                     *)
(***************************************************************************)
EXTENDS RealtimeGuard, BlockStats, SettingsStore, QueryLog, FiniteSetTheorems, TLAPS

-----------------------------------------------------------------------------
\* The vault.
LEMMA RestingHand == Resting \in Hands
  BY DEF Resting, Hands, VaultLabels, Files

LEMMA WhatIsSealed ==
  /\ Contents \subseteq Sealable /\ Sealable \subseteq Files
  /\ Missing \notin Sealable /\ {Missing, Junk} \subseteq Files
  BY ContentsAssumption DEF Sealable, Files, Missing, Junk, Garbled

LEMMA ReadIsSealable ==
  ASSUME VaultTypeOK, NEW p \in Paths, place[p] # Missing
  PROVE  ReadOf(p) \in Sealable
  BY DEF VaultTypeOK, ReadOf, Files, Sealable

\* A thread that goes on keeps its locals; one that returns has none.
LEMMA HandMoves ==
  ASSUME VaultTypeOK, NEW u \in Callers, NEW label \in VaultLabels, Move(u, label)
  PROVE  /\ hand' \in [Callers -> Hands]
         /\ hand'[u] = [hand[u] EXCEPT !.pc = label]
         /\ \A w \in Callers \ {u} : hand'[w] = hand[w]
  BY DEF Move, VaultTypeOK, Hands

LEMMA HandReturns ==
  ASSUME VaultTypeOK, NEW u \in Callers, Return(u)
  PROVE  /\ hand' \in [Callers -> Hands]
         /\ hand'[u] = Resting
         /\ \A w \in Callers \ {u} : hand'[w] = hand[w]
  BY RestingHand DEF Return, VaultTypeOK

LEMMA HandFilled ==
  ASSUME NEW h \in Hands, NEW label \in VaultLabels, NEW i \in Ids, NEW c \in Files
  PROVE  [h EXCEPT !.pc = label, !.id = i, !.data = c] \in Hands
  BY DEF Hands

LEMMA HandTakes ==
  ASSUME VaultTypeOK, NEW u \in Callers, NEW p \in Paths, TakeFile(u, p)
  PROVE  \E i \in Drawn \ issued :
            /\ issued' = issued \union {i}
            /\ place[p] # Missing
            /\ hand' \in [Callers -> Hands]
            /\ hand'[u] = [hand[u] EXCEPT !.pc = "seal", !.id = i, !.data = ReadOf(p)]
            /\ \A w \in Callers \ {u} : hand'[w] = hand[w]
  <1>1. PICK i \in Drawn \ issued :
          /\ issued' = issued \union {i}
          /\ hand' = [hand EXCEPT ![u].pc = "seal", ![u].id = i, ![u].data = ReadOf(p)]
    BY DEF TakeFile
  <1>2. i \in Ids /\ place[p] # Missing
    BY IdsAssumption DEF TakeFile
  <1>3. hand' = [hand EXCEPT ![u] = [hand[u] EXCEPT !.pc = "seal", !.id = i, !.data = ReadOf(p)]]
    BY <1>1 DEF VaultTypeOK, Hands
  <1>4. [hand[u] EXCEPT !.pc = "seal", !.id = i, !.data = ReadOf(p)] \in Hands
    <2>1. hand[u] \in Hands /\ ReadOf(p) \in Files /\ "seal" \in VaultLabels
      BY <1>2, ReadIsSealable, WhatIsSealed DEF VaultTypeOK, VaultLabels
    <2> QED BY <1>2, <2>1, HandFilled
  <1> DEFINE taken == [hand[u] EXCEPT !.pc = "seal", !.id = i, !.data = ReadOf(p)]
  <1>5. /\ hand' \in [Callers -> Hands]
        /\ hand'[u] = taken
        /\ \A w \in Callers \ {u} : hand'[w] = hand[w]
    <2>1. taken \in Hands /\ hand' = [hand EXCEPT ![u] = taken]
      BY <1>3, <1>4
    <2> HIDE DEF taken
    <2> QED BY <2>1 DEF VaultTypeOK
  <1> QED BY <1>1, <1>2, <1>5

LEMMA HandLists ==
  ASSUME VaultTypeOK, NEW u \in Callers, ListEntry(u), InHand(u) \in Ids
  PROVE  /\ hand' \in [Callers -> Hands]
         /\ hand'[u] = [hand[u] EXCEPT !.pc = "truncate", !.list = index \union {InHand(u)}]
         /\ \A w \in Callers \ {u} : hand'[w] = hand[w]
  <1> DEFINE longer == index \union {InHand(u)}
  <1> DEFINE listed == [hand[u] EXCEPT !.pc = "truncate", !.list = longer]
  <1>1. longer \in SUBSET Ids
    BY DEF VaultTypeOK
  <1>2. hand' = [hand EXCEPT ![u].pc = "truncate", ![u].list = longer]
    BY DEF ListEntry
  <1>3. hand[u] \in Hands /\ "truncate" \in VaultLabels /\ hand \in [Callers -> Hands]
    BY DEF VaultTypeOK, VaultLabels
  <1> HIDE DEF longer
  <1>4. hand' = [hand EXCEPT ![u] = listed]
    BY <1>2, <1>3 DEF Hands
  <1>5. listed \in Hands
    BY <1>1, <1>3 DEF Hands
  <1>6. /\ hand' \in [Callers -> Hands]
        /\ hand'[u] = listed
        /\ \A w \in Callers \ {u} : hand'[w] = hand[w]
    <2> HIDE DEF listed
    <2> QED BY <1>3, <1>4, <1>5
  <1> QED BY <1>6 DEF longer

LEMMA HandPicks ==
  ASSUME VaultTypeOK, NEW u \in Callers, NEW i \in Ids, NEW label \in VaultLabels,
         PickEntry(u, i, label)
  PROVE  /\ hand' \in [Callers -> Hands]
         /\ hand'[u] = [hand[u] EXCEPT !.pc = label, !.id = i, !.list = index \ {i}]
         /\ \A w \in Callers \ {u} : hand'[w] = hand[w]
  <1>1. hand' = [hand EXCEPT ![u] = [hand[u] EXCEPT !.pc = label, !.id = i, !.list = index \ {i}]]
    BY DEF PickEntry, VaultTypeOK, Hands
  <1>2. [hand[u] EXCEPT !.pc = label, !.id = i, !.list = index \ {i}] \in Hands
    BY DEF VaultTypeOK, Hands
  <1> QED BY <1>1, <1>2 DEF VaultTypeOK

LEMMA HandUnseals ==
  ASSUME VaultTypeOK, NEW u \in Callers, Unseal(u), blob[InHand(u)] \in Sealable
  PROVE  /\ hand' \in [Callers -> Hands]
         /\ hand'[u] = [hand[u] EXCEPT !.pc = "putback", !.data = blob[InHand(u)]]
         /\ \A w \in Callers \ {u} : hand'[w] = hand[w]
  <1> DEFINE got == [hand[u] EXCEPT !.pc = "putback", !.data = blob[InHand(u)]]
  <1>1. hand' = [hand EXCEPT ![u] = got]
    BY DEF Unseal, VaultTypeOK, Hands
  <1>2. hand[u] \in Hands /\ blob[InHand(u)] \in Files /\ "putback" \in VaultLabels
    BY DEF VaultTypeOK, VaultLabels, Files
  <1>3. got \in Hands
    BY <1>2 DEF Hands
  <1> QED BY <1>1, <1>3 DEF VaultTypeOK

-----------------------------------------------------------------------------
(***************************************************************************)
(* Types                                                                   *)
(***************************************************************************)

\* A busy thread has an entry of the vault in hand.
BusyHasEntry == \A u \in Callers : Busy(u) => InHand(u) \in Ids

LEMMA StepHands ==
  ASSUME VaultTypeOK, BusyHasEntry, NEW u \in Callers, VaultStep(u)
  PROVE  /\ Busy(u)
         /\ hand' \in [Callers -> Hands]
         /\ hand'[u].pc # "idle" => hand'[u].id = hand[u].id
         /\ \A w \in Callers \ {u} : hand'[w] = hand[w]
  <1>1. hand[u] \in Hands
    BY DEF VaultTypeOK
  <1>2. ASSUME NEW label \in VaultLabels, Move(u, label), Busy(u)
        PROVE  /\ hand' \in [Callers -> Hands]
               /\ hand'[u].id = hand[u].id
               /\ \A w \in Callers \ {u} : hand'[w] = hand[w]
    <2>1. [hand[u] EXCEPT !.pc = label].id = hand[u].id
      BY <1>1 DEF Hands
    <2> QED BY <1>2, <2>1, HandMoves
  <1>3. ASSUME Return(u), Busy(u)
        PROVE  /\ hand' \in [Callers -> Hands]
               /\ hand'[u].pc = "idle"
               /\ \A w \in Callers \ {u} : hand'[w] = hand[w]
    BY <1>3, HandReturns DEF Resting
  <1>4. CASE ListEntry(u)
    <2>1. Busy(u) /\ InHand(u) \in Ids
      BY <1>4 DEF ListEntry, Busy, BusyHasEntry
    <2>2. [hand[u] EXCEPT !.pc = "truncate", !.list = index \union {InHand(u)}].id = hand[u].id
      BY <1>1 DEF Hands
    <2> QED BY <1>4, <2>1, <2>2, HandLists
  <1>5. CASE Unseal(u)
    <2>1. CASE blob[InHand(u)] \in Sealable
      <3>1. [hand[u] EXCEPT !.pc = "putback", !.data = blob[InHand(u)]].id = hand[u].id
        BY <1>1 DEF Hands
      <3> QED BY <1>5, <2>1, <3>1, HandUnseals DEF Unseal, Busy
    <2>2. CASE blob[InHand(u)] \notin Sealable
      BY <1>3, <1>5, <2>2 DEF Unseal, Fail, Busy
    <2> QED BY <2>1, <2>2
  <1>6. /\ Busy(u)
        /\ Return(u) \/ \E label \in VaultLabels : Move(u, label)
        \/ ListEntry(u) \/ Unseal(u)
    BY DEF VaultStep, SealBlob, ShredOriginal, UnlinkOriginal, Truncate, SaveIndex,
           PutBack, Discard, BurnBlob, UnlinkBlob, Fail, Busy, VaultLabels
  <1> QED BY <1>2, <1>3, <1>4, <1>5, <1>6

LEMMA VaultTypeStep ==
  ASSUME VaultTypeOK, BusyHasEntry, [VaultNext]_vaultVars
  PROVE  VaultTypeOK' /\ BusyHasEntry'
  <1> USE DEF VaultTypeOK, BusyHasEntry, Busy, InHand, vaultFiles
  <1>1. ASSUME NEW u \in Callers, NEW p \in Paths, TakeFile(u, p)
        PROVE  VaultTypeOK' /\ BusyHasEntry'
    <2>1. UNCHANGED <<vaultFiles, index, calm>>
      BY <1>1 DEF TakeFile
    <2>2. PICK i \in Drawn \ issued :
            /\ issued' = issued \union {i}
            /\ hand' \in [Callers -> Hands]
            /\ hand'[u] = [hand[u] EXCEPT !.pc = "seal", !.id = i, !.data = ReadOf(p)]
            /\ \A w \in Callers \ {u} : hand'[w] = hand[w]
      BY <1>1, HandTakes
    <2>3. i \in Ids /\ hand'[u].id = i
      BY <2>2, IdsAssumption DEF Hands
    <2> QED BY <2>1, <2>2, <2>3
  <1>2. ASSUME NEW u \in Callers, NEW i \in Ids, NEW label \in VaultLabels, PickEntry(u, i, label)
        PROVE  VaultTypeOK' /\ BusyHasEntry'
    <2>1. /\ hand' \in [Callers -> Hands]
          /\ hand'[u] = [hand[u] EXCEPT !.pc = label, !.id = i, !.list = index \ {i}]
          /\ \A w \in Callers \ {u} : hand'[w] = hand[w]
      BY <1>2, HandPicks
    <2>2. hand'[u].id = i
      BY <2>1 DEF Hands
    <2>3. UNCHANGED <<vaultFiles, index, issued>> /\ calm' \in BOOLEAN
      BY <1>2 DEF PickEntry, ReadsIndex
    <2> QED BY <2>1, <2>2, <2>3
  <1>3. ASSUME NEW u \in Callers, VaultStep(u)
        PROVE  VaultTypeOK' /\ BusyHasEntry'
    <2>1. hand' \in [Callers -> Hands] /\ BusyHasEntry'
      BY <1>3, StepHands
    <2>2. /\ hand[u].data \in Files /\ hand[u].list \subseteq Ids
          /\ Missing \in Files /\ Junk \in Files
      BY DEF Hands, Files
    <2>3. /\ place' \in [Paths -> Files] /\ aside' \in [Paths -> Files]
          /\ blob' \in [Ids -> Files] /\ index' \subseteq Ids /\ issued' = issued
          /\ calm' \in BOOLEAN
      BY <1>3, <2>2
      DEF VaultStep, SealBlob, ShredOriginal, UnlinkOriginal, ListEntry, Truncate,
          SaveIndex, Unseal, PutBack, Discard, BurnBlob, UnlinkBlob, Fail, ReadsIndex
    <2> QED BY <2>1, <2>3
  <1>4. ASSUME NEW p \in Used, NEW c \in Contents, OwnerSaves(p, c)
        PROVE  VaultTypeOK' /\ BusyHasEntry'
    BY <1>4, WhatIsSealed DEF OwnerSaves
  <1>5. CASE VaultKilled
    BY <1>5, RestingHand DEF VaultKilled, Resting
  <1>6. CASE UNCHANGED vaultVars
    BY <1>6 DEF vaultVars
  <1> QED
    BY <1>1, <1>2, <1>3, <1>4, <1>5, <1>6
    DEF VaultNext, VaultRequest, RestoreEntry, DeleteEntry, VaultLabels

LEMMA VaultTypeInit == VaultInit => VaultTypeOK /\ BusyHasEntry
  <1> SUFFICES ASSUME VaultInit PROVE VaultTypeOK /\ BusyHasEntry
    OBVIOUS
  <1>1. hand \in [Callers -> Hands]
    BY RestingHand DEF VaultInit
  <1>2. BusyHasEntry
    BY DEF VaultInit, BusyHasEntry, Busy, Resting
  <1>3. place \in [Paths -> Files] /\ aside \in [Paths -> Files] /\ blob \in [Ids -> Files]
    BY WhatIsSealed DEF VaultInit
  <1> QED BY <1>1, <1>2, <1>3 DEF VaultInit, VaultTypeOK

\* Every variable keeps its type.
THEOREM VaultTypeCorrect == VaultSpec => []VaultTypeOK
  BY VaultTypeInit, VaultTypeStep, PTL DEF VaultSpec

-----------------------------------------------------------------------------
(***************************************************************************)
(* The vault has a whole copy before the original is destroyed             *)
(***************************************************************************)
Taking(u) == hand[u].pc \in {"seal", "shred", "unlink", "list"}

\* An entry is given out once, and whoever takes the file is the only one who
\* knows of it until it is listed.
IdsIssued ==
    /\ index \subseteq issued
    /\ \A u \in Callers : hand[u].list \subseteq issued /\ (Busy(u) => InHand(u) \in issued)

OwnEntry ==
    \A u, w \in Callers : Taking(u) =>
        /\ InHand(u) \notin index \union hand[w].list
        /\ w # u /\ Busy(w) => InHand(w) # InHand(u)

SealInv == VaultTypeOK /\ BusyHasEntry /\ IdsIssued /\ OwnEntry /\ SealedBeforeShred

LEMMA MoveKeeps ==
  ASSUME VaultTypeOK, NEW u \in Callers, NEW label \in VaultLabels, Move(u, label)
  PROVE  /\ hand'[u].pc = label /\ hand'[u].id = hand[u].id
         /\ hand'[u].data = hand[u].data /\ hand'[u].list = hand[u].list
  <1>1. hand[u] \in Hands /\ hand'[u] = [hand[u] EXCEPT !.pc = label]
    BY HandMoves DEF VaultTypeOK
  <1> QED BY <1>1 DEF Hands

\* What a step of u does to the entries, apart from the contents of its blob.
Effects(u) ==
    /\ issued' = issued /\ Busy(u)
    /\ \A i \in Ids \ {InHand(u)} : blob'[i] = blob[i]
    /\ \A w \in Callers \ {u} : hand'[w] = hand[w]
    /\ index' \subseteq index \union hand[u].list
    /\ hand'[u].list \subseteq hand[u].list \union index \union {InHand(u)}
    /\ Busy(u)' => InHand(u)' = InHand(u)
    /\ Taking(u)' => Taking(u) /\ hand'[u].list = hand[u].list /\ index' = index

LEMMA StepEffects ==
  ASSUME VaultTypeOK, BusyHasEntry, NEW u \in Callers, VaultStep(u)
  PROVE  Effects(u)
  <1>1. Busy(u) /\ \A w \in Callers \ {u} : hand'[w] = hand[w]
    BY StepHands
  <1>2. hand[u] \in Hands /\ blob \in [Ids -> Files]
    BY DEF VaultTypeOK
  <1> USE DEF Effects, Taking, Busy, InHand, Fail, vaultFiles
  <1>3. /\ issued' = issued
        /\ \A i \in Ids \ {InHand(u)} : blob'[i] = blob[i]
        /\ index' \subseteq index \union hand[u].list
    BY <1>2
    DEF VaultStep, SealBlob, ShredOriginal, UnlinkOriginal, ListEntry, Truncate,
        SaveIndex, Unseal, PutBack, Discard, BurnBlob, UnlinkBlob
  <1>4. CASE Return(u)
    BY <1>1, <1>3, <1>4, HandReturns DEF Resting
  <1>5. ASSUME NEW label \in VaultLabels \ {"seal"}, Move(u, label),
               label \in {"shred", "unlink", "list"} => Taking(u) /\ index' = index
        PROVE  Effects(u)
    BY <1>1, <1>3, <1>5, MoveKeeps
  <1>6. CASE ListEntry(u)
    <2>1. hand'[u] = [hand[u] EXCEPT !.pc = "truncate", !.list = index \union {InHand(u)}]
      BY <1>1, <1>6, HandLists DEF BusyHasEntry
    <2>2. /\ hand'[u].pc = "truncate" /\ hand'[u].id = hand[u].id
          /\ hand'[u].list = index \union {InHand(u)}
      BY <1>2, <2>1 DEF Hands
    <2> QED BY <1>1, <1>3, <2>2
  <1>7. CASE Unseal(u) /\ blob[InHand(u)] \in Sealable
    <2>1. hand'[u] = [hand[u] EXCEPT !.pc = "putback", !.data = blob[InHand(u)]]
      BY <1>7, HandUnseals
    <2>2. hand'[u].pc = "putback" /\ hand'[u].id = hand[u].id /\ hand'[u].list = hand[u].list
      BY <1>2, <2>1 DEF Hands
    <2> QED BY <1>1, <1>3, <2>2
  <1>8. \/ Return(u) \/ ListEntry(u) \/ (Unseal(u) /\ blob[InHand(u)] \in Sealable)
        \/ \E label \in VaultLabels \ {"seal"} :
              /\ Move(u, label)
              /\ label \in {"shred", "unlink", "list"} => Taking(u) /\ index' = index
    BY DEF VaultStep, SealBlob, ShredOriginal, UnlinkOriginal, Truncate, SaveIndex,
           Unseal, PutBack, Discard, BurnBlob, UnlinkBlob, VaultLabels
  <1> QED BY <1>4, <1>5, <1>6, <1>7, <1>8

LEMMA SealedStep ==
  ASSUME VaultTypeOK, BusyHasEntry, SealedBeforeShred, NEW u \in Callers, VaultStep(u),
         hand'[u].pc \in {"shred", "unlink", "list"}
  PROVE  blob'[InHand(u)'] = hand'[u].data
  <1> USE DEF SealedBeforeShred, InHand, Busy, vaultFiles
  <1>1. hand[u].id \in Ids /\ blob \in [Ids -> Files]
    BY StepHands DEF VaultTypeOK, BusyHasEntry
  <1>2. CASE SealBlob(u)
    <2>1. ~Return(u)
      BY HandReturns DEF Resting
    <2>2. Move(u, "shred") /\ blob' = [blob EXCEPT ![InHand(u)] = hand[u].data]
      BY <1>2, <2>1 DEF SealBlob, Fail
    <2> QED BY <1>1, <2>2, MoveKeeps DEF VaultLabels
  <1>3. CASE ShredOriginal(u) \/ UnlinkOriginal(u)
    <2>1. ~Return(u)
      BY HandReturns DEF Resting
    <2>2. /\ Move(u, "unlink") \/ Move(u, "list")
          /\ blob' = blob /\ hand[u].pc \in {"shred", "unlink", "list"}
      BY <1>3, <2>1 DEF ShredOriginal, UnlinkOriginal, Fail
    <2> QED BY <2>2, MoveKeeps DEF VaultLabels
  <1>4. CASE ListEntry(u)
    <2>1. hand'[u] = [hand[u] EXCEPT !.pc = "truncate", !.list = index \union {InHand(u)}]
      BY <1>1, <1>4, HandLists
    <2> QED BY <2>1 DEF VaultTypeOK, Hands
  <1>5. CASE Unseal(u)
    <2>1. ~Return(u)
      BY HandReturns DEF Resting
    <2>2. blob[InHand(u)] \in Sealable
      BY <1>5, <2>1 DEF Unseal, Fail
    <2>3. hand'[u] = [hand[u] EXCEPT !.pc = "putback", !.data = blob[InHand(u)]]
      BY <1>5, <2>2, HandUnseals
    <2> QED BY <2>3 DEF VaultTypeOK, Hands
  <1>6. \/ SealBlob(u) \/ ShredOriginal(u) \/ UnlinkOriginal(u) \/ ListEntry(u) \/ Unseal(u)
        \/ Return(u)
        \/ \E label \in {"save", "discard", "truncate", "ashes"} : Move(u, label)
    BY DEF VaultStep, Truncate, SaveIndex, PutBack, Discard, BurnBlob, UnlinkBlob, Fail
  <1> QED
    BY <1>2, <1>3, <1>4, <1>5, <1>6, HandReturns, MoveKeeps DEF Resting, VaultLabels

LEMMA SealStep ==
  ASSUME SealInv, NEW u \in Callers, VaultStep(u)
  PROVE  IdsIssued' /\ OwnEntry' /\ SealedBeforeShred'
  <1>1. Effects(u) /\ InHand(u) \in Ids
    BY StepEffects DEF SealInv, Effects, BusyHasEntry
  <1>2. IdsIssued'
    BY <1>1 DEF SealInv, Effects, IdsIssued, Busy, InHand
  <1>3. OwnEntry'
    BY <1>1 DEF SealInv, Effects, OwnEntry, Taking, Busy, InHand
  <1>4. SealedBeforeShred'
    <2> SUFFICES ASSUME NEW w \in Callers, hand'[w].pc \in {"shred", "unlink", "list"}
                 PROVE  blob'[InHand(w)'] = hand'[w].data
      BY DEF SealedBeforeShred, InHand
    <2>1. CASE w = u
      BY <2>1, SealedStep DEF SealInv
    <2>2. CASE w # u
      <3>1. hand'[w] = hand[w] /\ Taking(w) /\ Busy(w)
        BY <1>1, <2>2 DEF Effects, Taking, Busy
      <3>2. InHand(w) \in Ids /\ InHand(w) # InHand(u)
        BY <1>1, <2>2, <3>1 DEF SealInv, OwnEntry, Effects, BusyHasEntry
      <3> QED BY <1>1, <3>1, <3>2 DEF SealInv, SealedBeforeShred, Effects, InHand
    <2> QED BY <2>1, <2>2
  <1> QED BY <1>2, <1>3, <1>4

LEMMA SealInit == VaultInit => SealInv
  BY VaultTypeInit
  DEF SealInv, VaultInit, IdsIssued, OwnEntry, SealedBeforeShred, Taking, Busy, Resting

LEMMA SealNext ==
  ASSUME SealInv, [VaultNext]_vaultVars
  PROVE  SealInv'
  <1> USE DEF IdsIssued, OwnEntry, SealedBeforeShred, Taking, Busy, InHand, vaultFiles
  <1> DEFINE Rest == IdsIssued' /\ OwnEntry' /\ SealedBeforeShred'
  <1> SUFFICES Rest
    BY VaultTypeStep DEF SealInv
  <1>1. ASSUME NEW u \in Callers, NEW p \in Paths, TakeFile(u, p) PROVE Rest
    <2>1. UNCHANGED <<vaultFiles, index>> /\ ~Busy(u)
      BY <1>1 DEF TakeFile
    <2>2. PICK i \in Drawn \ issued :
            /\ issued' = issued \union {i}
            /\ hand' \in [Callers -> Hands]
            /\ hand'[u] = [hand[u] EXCEPT !.pc = "seal", !.id = i, !.data = ReadOf(p)]
            /\ \A w \in Callers \ {u} : hand'[w] = hand[w]
      <3>1. VaultTypeOK
        BY DEF SealInv
      <3> HIDE DEF IdsIssued, OwnEntry, SealedBeforeShred, Rest
      <3>2. \E i \in Drawn \ issued :
              /\ issued' = issued \union {i}
              /\ place[p] # Missing
              /\ hand' \in [Callers -> Hands]
              /\ hand'[u] = [hand[u] EXCEPT !.pc = "seal", !.id = i, !.data = ReadOf(p)]
              /\ \A w \in Callers \ {u} : hand'[w] = hand[w]
        BY <1>1, <3>1, HandTakes
      <3> QED BY <3>2
    <2>3. hand[u] \in Hands
      BY DEF SealInv, VaultTypeOK
    <2>4. hand'[u].id = i /\ hand'[u].pc = "seal" /\ hand'[u].list = hand[u].list
      BY <2>2, <2>3 DEF Hands
    <2>9. issued' = issued \union {i} /\ \A w \in Callers \ {u} : hand'[w] = hand[w]
      BY <2>2
    <2>5. IdsIssued'
      BY <2>1, <2>9, <2>4 DEF SealInv
    <2>6. OwnEntry'
      <3> SUFFICES ASSUME NEW v \in Callers, NEW w \in Callers, Taking(v)'
                   PROVE  /\ hand'[v].id \notin index' \union hand'[w].list
                          /\ w # v /\ hand'[w].pc # "idle" => hand'[w].id # hand'[v].id
        OBVIOUS
      <3>1. hand'[w].list = hand[w].list /\ index' = index
        BY <2>1, <2>9, <2>4
      <3>2. CASE v = u
        BY <2>9, <2>4, <3>1, <3>2 DEF SealInv
      <3>3. CASE v # u
        <4>1. hand'[v] = hand[v] /\ Taking(v)
          BY <2>9, <3>3
        <4>2. hand[v].id \in issued
          BY <4>1 DEF SealInv
        <4> QED BY <2>9, <2>4, <3>1, <3>3, <4>1, <4>2 DEF SealInv
      <3> QED BY <3>2, <3>3
    <2>7. SealedBeforeShred'
      BY <2>1, <2>9, <2>4 DEF SealInv
    <2> QED BY <2>5, <2>6, <2>7
  <1>2. ASSUME NEW u \in Callers, NEW i \in Ids, NEW label \in {"unseal", "burn"},
               PickEntry(u, i, label)
        PROVE  Rest
    <2>1. /\ hand'[u] = [hand[u] EXCEPT !.pc = label, !.id = i, !.list = index \ {i}]
          /\ \A w \in Callers \ {u} : hand'[w] = hand[w]
      <3>1. VaultTypeOK /\ label \in VaultLabels
        BY DEF SealInv, VaultLabels
      <3> HIDE DEF IdsIssued, OwnEntry, SealedBeforeShred, Rest, Busy, InHand
      <3>2. /\ hand' \in [Callers -> Hands]
            /\ hand'[u] = [hand[u] EXCEPT !.pc = label, !.id = i, !.list = index \ {i}]
            /\ \A w \in Callers \ {u} : hand'[w] = hand[w]
        BY <1>2, <3>1, HandPicks
      <3> QED BY <3>2
    <2>2. hand[u] \in Hands
      BY DEF SealInv, VaultTypeOK
    <2>3. hand'[u].id = i /\ hand'[u].pc = label /\ hand'[u].list = index \ {i}
      BY <2>1, <2>2 DEF Hands
    <2>4. UNCHANGED <<blob, index, issued>> /\ i \in index /\ ~Busy(u)
      BY <1>2 DEF PickEntry
    <2>9. \A w \in Callers \ {u} : hand'[w] = hand[w]
      BY <2>1
    <2>5. IdsIssued'
      BY <2>9, <2>3, <2>4 DEF SealInv
    <2>6. OwnEntry'
      <3> SUFFICES ASSUME NEW v \in Callers, NEW w \in Callers, Taking(v)'
                   PROVE  /\ hand'[v].id \notin index' \union hand'[w].list
                          /\ w # v /\ hand'[w].pc # "idle" => hand'[w].id # hand'[v].id
        OBVIOUS
      <3>1. v # u /\ hand'[v] = hand[v] /\ Taking(v)
        BY <2>9, <2>3
      <3>2. CASE w = u
        BY <2>3, <2>4, <3>1, <3>2 DEF SealInv
      <3>3. CASE w # u
        BY <2>9, <2>4, <3>1, <3>3 DEF SealInv
      <3> QED BY <3>2, <3>3
    <2>7. SealedBeforeShred'
      BY <2>9, <2>3, <2>4 DEF SealInv
    <2> QED BY <2>5, <2>6, <2>7
  <1>3. ASSUME NEW u \in Callers, VaultStep(u) PROVE Rest
    BY <1>3, SealStep
  <1>4. ASSUME NEW p \in Used, NEW c \in Contents, OwnerSaves(p, c) PROVE Rest
    BY <1>4 DEF OwnerSaves, SealInv
  <1>5. CASE VaultKilled
    BY <1>5 DEF VaultKilled, Resting, SealInv
  <1>6. CASE UNCHANGED vaultVars
    BY <1>6 DEF vaultVars, SealInv
  <1> QED
    BY <1>1, <1>2, <1>3, <1>4, <1>5, <1>6
    DEF VaultNext, VaultRequest, RestoreEntry, DeleteEntry

\* From the first overwritten byte of an original on, its blob is whole,
\* whatever other calls, failures and kills come between.
THEOREM OriginalsAreSealed == VaultSpec => []SealedBeforeShred
  <1>1. SealInv => SealedBeforeShred
    BY DEF SealInv
  <1> QED BY <1>1, SealInit, SealNext, PTL DEF VaultSpec

-----------------------------------------------------------------------------
(***************************************************************************)
(* The index is the vault                                                  *)
(***************************************************************************)
Listing(u) == hand[u].pc \in {"shred", "unlink", "list"}

\* The vault holds i, and nobody has still to list it.
Owed(i) == blob[i] # Missing /\ \A u \in Callers : Listing(u) => InHand(u) # i

\* An entry nobody was given has no blob, and a call that takes a file has
\* read it.
FreshBlobs ==
    /\ \A i \in Ids \ issued : blob[i] = Missing
    /\ \A u \in Callers : hand[u].pc = "seal" => blob[InHand(u)] = Missing
    /\ \A u \in Callers : Taking(u) => hand[u].data \in Sealable

IndexIsOwed == \A i \in Ids : i \in index <=> Owed(i)

\* As long as all is calm one thread at most has the index in hand, and what
\* it has, or the file if nobody has it, is what the vault owes.
Ledger == calm =>
    /\ \A u, w \in Callers : HoldsIndex(u) /\ HoldsIndex(w) => u = w
    /\ (\A u \in Callers : ~HoldsIndex(u)) => IndexIsOwed
    /\ \A u \in Callers :
         /\ hand[u].pc \in {"unseal", "putback", "discard", "burn", "ashes"} =>
               IndexIsOwed /\ InHand(u) \in index /\ hand[u].list = index \ {InHand(u)}
         /\ hand[u].pc \in {"truncate", "save"} =>
               \A i \in Ids : i \in hand[u].list <=> Owed(i)

LedgerInv == SealInv /\ FreshBlobs /\ Ledger

\* A step of u matters to its own entry only.
LEMMA OwedStep ==
  ASSUME SealInv, NEW u \in Callers, VaultStep(u)
  PROVE  /\ \A i \in Ids \ {InHand(u)} : Owed(i)' <=> Owed(i)
         /\ Owed(InHand(u)) <=> blob[InHand(u)] # Missing /\ ~Listing(u)
         /\ hand'[u].id = hand[u].id =>
               (Owed(InHand(u))' <=> blob'[InHand(u)] # Missing /\ ~Listing(u)')
  <1>1. Effects(u) /\ InHand(u) \in Ids
    BY StepEffects DEF SealInv, Effects, BusyHasEntry
  <1>2. ASSUME NEW w \in Callers \ {u}, Listing(w) PROVE InHand(w) # InHand(u)
    BY <1>1, <1>2 DEF SealInv, OwnEntry, Effects, Listing, Taking
  <1>3. \A w \in Callers \ {u} : hand'[w] = hand[w]
    BY <1>1 DEF Effects
  <1>4. Listing(u)' => hand'[u].id = hand[u].id
    BY <1>1 DEF Effects, Listing, Busy, InHand
  <1>5. \A i \in Ids \ {InHand(u)} : Owed(i)' <=> Owed(i)
    BY <1>1, <1>3, <1>4 DEF Effects, Owed, Listing, InHand
  <1>6. Owed(InHand(u)) <=> blob[InHand(u)] # Missing /\ ~Listing(u)
    BY <1>2 DEF Owed
  <1>7. hand'[u].id = hand[u].id =>
           (Owed(InHand(u))' <=> blob'[InHand(u)] # Missing /\ ~Listing(u)')
    BY <1>2, <1>3 DEF Owed, Listing, InHand
  <1> QED BY <1>5, <1>6, <1>7

LEMMA FreshStep ==
  ASSUME SealInv, FreshBlobs, NEW u \in Callers, VaultStep(u)
  PROVE  FreshBlobs'
  <1>1. Effects(u) /\ InHand(u) \in Ids /\ InHand(u) \in issued
    BY StepEffects DEF SealInv, Effects, BusyHasEntry, IdsIssued
  <1>2. \A i \in Ids \ issued' : blob'[i] = Missing
    BY <1>1 DEF Effects, FreshBlobs
  <1>3. \A w \in Callers \ {u} : hand'[w] = hand[w]
    BY <1>1 DEF Effects
  <1>4. ASSUME NEW w \in Callers \ {u}, Taking(w)
        PROVE  InHand(w) \in Ids \ {InHand(u)}
    BY <1>1, <1>4 DEF SealInv, OwnEntry, BusyHasEntry, Effects, Taking, Busy
  <1>5. ASSUME Taking(u)' PROVE hand'[u].pc # "seal" /\ hand'[u].data \in Sealable
    <2>1. Taking(u)
      BY <1>1, <1>5 DEF Effects
    <2>2. ~Return(u)
      BY <1>5, HandReturns DEF SealInv, Resting, Taking
    <2>3. /\ ~ListEntry(u) /\ ~Unseal(u)
      <3>1. ~Unseal(u)
        BY <2>1 DEF Unseal, Taking
      <3>2. ASSUME ListEntry(u) PROVE FALSE
        <4>1. hand'[u] = [hand[u] EXCEPT !.pc = "truncate", !.list = index \union {InHand(u)}]
          BY <1>1, <3>2, HandLists DEF SealInv
        <4> QED BY <1>5, <4>1 DEF SealInv, VaultTypeOK, Hands, Taking
      <3> QED BY <3>1, <3>2
    <2>4. \E label \in VaultLabels \ {"seal"} : Move(u, label)
      BY <2>2, <2>3
      DEF VaultStep, SealBlob, ShredOriginal, UnlinkOriginal, Truncate, SaveIndex,
          PutBack, Discard, BurnBlob, UnlinkBlob, VaultLabels, Fail
    <2>5. hand'[u].pc # "seal" /\ hand'[u].data = hand[u].data
      BY <2>4, MoveKeeps DEF SealInv
    <2> QED BY <2>1, <2>5 DEF FreshBlobs
  <1> QED
    BY <1>1, <1>2, <1>3, <1>4, <1>5 DEF FreshBlobs, Effects, Taking, InHand

\* A calm step of u that neither is about the index nor changes what is owed:
\* the call goes on with the same entry and the same list.
LEMMA LedgerMove ==
  ASSUME LedgerInv, calm, NEW u \in Callers, VaultStep(u),
         NEW label \in VaultLabels, hand'[u].pc = label,
         hand'[u].id = hand[u].id, hand'[u].list = hand[u].list, index' = index,
         Owed(InHand(u))' <=> Owed(InHand(u)),
         \/ Taking(u) /\ label \in {"shred", "unlink", "list"}
         \/ /\ hand[u].pc \in {"unseal", "putback", "discard", "burn", "ashes"}
            /\ label \in {"putback", "discard", "ashes"}
  PROVE  Ledger'
  <1>1. /\ \A w \in Callers \ {u} : hand'[w] = hand[w]
        /\ \A i \in Ids : Owed(i)' <=> Owed(i)
    <2>1. /\ \A w \in Callers \ {u} : hand'[w] = hand[w]
          /\ \A i \in Ids \ {InHand(u)} : Owed(i)' <=> Owed(i)
      BY StepEffects, OwedStep DEF Effects, LedgerInv, SealInv
    <2>2. ASSUME NEW i \in Ids, i = InHand(u) PROVE Owed(i)' <=> Owed(i)
      BY <2>2 DEF Owed, InHand
    <2> QED BY <2>1, <2>2
  <1>2. IndexIsOwed' <=> IndexIsOwed
    BY <1>1 DEF IndexIsOwed
  <1>3. \A w \in Callers : HoldsIndex(w)' <=> HoldsIndex(w)
    BY <1>1 DEF HoldsIndex, Taking
  <1> USE DEF LedgerInv, Ledger, InHand
  <1>4. /\ \A v, w \in Callers : HoldsIndex(v)' /\ HoldsIndex(w)' => v = w
        /\ (\A w \in Callers : ~HoldsIndex(w)') => IndexIsOwed'
    BY <1>2, <1>3
  <1>5. ASSUME NEW w \in Callers
        PROVE  /\ hand'[w].pc \in {"unseal", "putback", "discard", "burn", "ashes"} =>
                     IndexIsOwed' /\ hand'[w].id \in index' /\ hand'[w].list = index' \ {hand'[w].id}
               /\ hand'[w].pc \in {"truncate", "save"} =>
                     \A i \in Ids : i \in hand'[w].list <=> Owed(i)'
    <2>1. CASE w = u
      BY <1>2, <2>1 DEF Taking
    <2>2. CASE w # u
      BY <1>1, <1>2, <2>2
    <2> QED BY <2>1, <2>2
  <1> QED BY <1>4, <1>5

\* A calm step of u after which it alone has the whole list in hand.
LEMMA LedgerWrites ==
  ASSUME NEW u \in Callers,
         \A w \in Callers \ {u} : ~HoldsIndex(w)',
         hand'[u].pc \in {"truncate", "save"},
         \A i \in Ids : i \in hand'[u].list <=> Owed(i)'
  PROVE  Ledger'
  <1>1. HoldsIndex(u)'
    BY DEF HoldsIndex
  <1> QED BY <1>1 DEF Ledger, HoldsIndex

LEMMA LedgerStep ==
  ASSUME LedgerInv, NEW u \in Callers, VaultStep(u)
  PROVE  Ledger'
  <1> SUFFICES ASSUME calm' PROVE Ledger'
    BY DEF Ledger
  <1>1. Effects(u) /\ InHand(u) \in Ids /\ hand[u] \in Hands /\ blob \in [Ids -> Files]
    BY StepEffects DEF LedgerInv, SealInv, Effects, BusyHasEntry, VaultTypeOK
  <1>2. calm
    BY DEF VaultStep, SealBlob, ShredOriginal, UnlinkOriginal, ListEntry, Truncate,
           SaveIndex, Unseal, PutBack, Discard, BurnBlob, UnlinkBlob, Fail, ReadsIndex
  <1>3. ASSUME NEW label \in VaultLabels, Move(u, label)
        PROVE  hand'[u].pc = label /\ hand'[u].id = hand[u].id /\ hand'[u].list = hand[u].list
    BY <1>3, MoveKeeps DEF LedgerInv, SealInv
  <1>4. /\ \A i \in Ids \ {InHand(u)} : Owed(i)' <=> Owed(i)
        /\ Owed(InHand(u)) <=> blob[InHand(u)] # Missing /\ ~Listing(u)
        /\ hand'[u].id = hand[u].id =>
              (Owed(InHand(u))' <=> blob'[InHand(u)] # Missing /\ ~Listing(u)')
    BY OwedStep DEF LedgerInv
  <1>same. ASSUME NEW i \in Ids, i = InHand(u), hand'[u].id = hand[u].id
         PROVE  Owed(i)' <=> Owed(InHand(u))'
    BY <1>same DEF Owed, InHand
  <1>5. \A w \in Callers \ {u} : hand'[w] = hand[w]
    BY <1>1 DEF Effects
  <1>6. HoldsIndex(u) => \A w \in Callers \ {u} : ~HoldsIndex(w) /\ ~HoldsIndex(w)'
    BY <1>2, <1>5 DEF LedgerInv, Ledger, HoldsIndex
  <1> USE DEF Fail
  <1>7. CASE SealBlob(u)
    <2>1. blob[InHand(u)] = Missing
      BY <1>7 DEF SealBlob, LedgerInv, FreshBlobs
    <2>2. Move(u, "shred") /\ index' = index
      BY <1>7 DEF SealBlob
    <2>3. hand'[u].pc = "shred" /\ hand'[u].id = hand[u].id /\ hand'[u].list = hand[u].list
      BY <1>3, <2>2 DEF VaultLabels
    <2>4. ~Owed(InHand(u)) /\ ~Owed(InHand(u))'
      BY <1>4, <2>1, <2>3 DEF Listing
    <2>5. Taking(u)
      BY <1>7 DEF SealBlob, Taking
    <2> QED BY <1>2, <2>2, <2>3, <2>4, <2>5, LedgerMove DEF VaultLabels
  <1>8. CASE ShredOriginal(u) \/ UnlinkOriginal(u)
    <2>1. PICK label \in {"unlink", "list"} : Move(u, label)
      BY <1>8 DEF ShredOriginal, UnlinkOriginal
    <2>2. index' = index /\ Taking(u) /\ Listing(u)
      BY <1>8 DEF ShredOriginal, UnlinkOriginal, Taking, Listing
    <2>3. hand'[u].pc = label /\ hand'[u].id = hand[u].id /\ hand'[u].list = hand[u].list
      BY <1>3, <2>1 DEF VaultLabels
    <2>4. ~Owed(InHand(u)) /\ ~Owed(InHand(u))'
      BY <1>4, <2>2, <2>3 DEF Listing
    <2> QED BY <1>2, <2>2, <2>3, <2>4, LedgerMove DEF VaultLabels
  <1>9. CASE ListEntry(u)
    <2>1. hand'[u] = [hand[u] EXCEPT !.pc = "truncate", !.list = index \union {InHand(u)}]
      BY <1>1, <1>9, HandLists DEF LedgerInv, SealInv
    <2>2. /\ hand'[u].pc = "truncate" /\ hand'[u].id = hand[u].id
          /\ hand'[u].list = index \union {InHand(u)}
      BY <1>1, <2>1 DEF Hands
    <2>3. Listing(u) /\ Taking(u) /\ ~HoldsIndex(u) /\ blob' = blob
      BY <1>9 DEF ListEntry, Listing, Taking, HoldsIndex, vaultFiles
    <2>4. \A w \in Callers \ {u} : ~HoldsIndex(w) /\ ~HoldsIndex(w)'
      BY <1>5, <1>9 DEF ListEntry, ReadsIndex, HoldsIndex
    <2>5. IndexIsOwed
      BY <1>2, <2>3, <2>4 DEF LedgerInv, Ledger
    <2>6. blob[InHand(u)] # Missing
      BY <2>3, WhatIsSealed
      DEF LedgerInv, SealInv, FreshBlobs, SealedBeforeShred, Listing, Taking
    <2>7. Owed(InHand(u))'
      BY <1>4, <2>2, <2>3, <2>6 DEF Listing
    <2>8. \A i \in Ids : i \in hand'[u].list <=> Owed(i)'
      <3>1. ASSUME NEW i \in Ids, i = InHand(u) PROVE i \in hand'[u].list /\ Owed(i)'
        BY <1>same, <2>2, <2>7, <3>1
      <3>2. ASSUME NEW i \in Ids \ {InHand(u)} PROVE i \in hand'[u].list <=> Owed(i)'
        BY <1>4, <2>2, <2>5, <3>2 DEF IndexIsOwed
      <3> QED BY <3>1, <3>2
    <2> QED BY <2>2, <2>4, <2>8, LedgerWrites
  <1>10. CASE Truncate(u)
    <2>1. Move(u, "save") /\ blob' = blob /\ hand[u].pc = "truncate"
      BY <1>10 DEF Truncate, vaultFiles
    <2>2. hand'[u].pc = "save" /\ hand'[u].id = hand[u].id /\ hand'[u].list = hand[u].list
      BY <1>3, <2>1 DEF VaultLabels
    <2>3. \A i \in Ids : Owed(i)' <=> Owed(i)
      <3>1. ASSUME NEW i \in Ids, i = InHand(u) PROVE Owed(i)' <=> Owed(i)
        BY <1>4, <1>same, <2>1, <2>2, <3>1 DEF Listing
      <3> QED BY <1>4, <3>1
    <2>4. \A i \in Ids : i \in hand'[u].list <=> Owed(i)'
      BY <1>2, <2>1, <2>2, <2>3 DEF LedgerInv, Ledger
    <2>5. HoldsIndex(u)
      BY <2>1 DEF HoldsIndex
    <2> QED BY <1>6, <2>2, <2>4, <2>5, LedgerWrites
  <1>11. CASE SaveIndex(u)
    <2>1. index' = hand[u].list /\ Return(u) /\ blob' = blob /\ hand[u].pc = "save"
      BY <1>11 DEF SaveIndex, vaultFiles
    <2>2. hand'[u].pc = "idle"
      BY <2>1, HandReturns DEF LedgerInv, SealInv, Resting
    <2>3. \A w \in Callers : ~HoldsIndex(w)'
      BY <1>6, <2>1, <2>2 DEF HoldsIndex
    <2>4. \A i \in Ids : Owed(i)' <=> Owed(i)
      BY <1>4, <1>5, <2>1, <2>2 DEF Owed, Listing, InHand
    <2>5. IndexIsOwed'
      BY <1>2, <2>1, <2>4 DEF LedgerInv, Ledger, IndexIsOwed
    <2> QED BY <2>3, <2>5 DEF Ledger, HoldsIndex
  <1>12. CASE Unseal(u)
    <2>1. blob[InHand(u)] \in Sealable /\ index' = index /\ blob' = blob /\ hand[u].pc = "unseal"
      BY <1>12 DEF Unseal, vaultFiles
    <2>2. hand'[u] = [hand[u] EXCEPT !.pc = "putback", !.data = blob[InHand(u)]]
      BY <1>12, <2>1, HandUnseals DEF LedgerInv, SealInv
    <2>3. hand'[u].pc = "putback" /\ hand'[u].id = hand[u].id /\ hand'[u].list = hand[u].list
      BY <1>1, <2>2 DEF Hands
    <2>4. Owed(InHand(u))' <=> Owed(InHand(u))
      BY <1>4, <2>1, <2>3 DEF Listing
    <2> QED BY <1>2, <2>1, <2>3, <2>4, LedgerMove DEF VaultLabels
  <1>13. CASE PutBack(u)
    <2>1. Move(u, "discard") /\ index' = index /\ blob' = blob /\ hand[u].pc = "putback"
      BY <1>13 DEF PutBack
    <2>2. hand'[u].pc = "discard" /\ hand'[u].id = hand[u].id /\ hand'[u].list = hand[u].list
      BY <1>3, <2>1 DEF VaultLabels
    <2>3. Owed(InHand(u))' <=> Owed(InHand(u))
      BY <1>4, <2>1, <2>2 DEF Listing
    <2> QED BY <1>2, <2>1, <2>2, <2>3, LedgerMove DEF VaultLabels
  \* The blob is gone, and so is the entry from the list in hand.
  <1>14. ASSUME blob' = [blob EXCEPT ![InHand(u)] = Missing], Move(u, "truncate"),
                hand[u].pc \in {"discard", "ashes"}
         PROVE  Ledger'
    <2>1. hand'[u].pc = "truncate" /\ hand'[u].id = hand[u].id /\ hand'[u].list = hand[u].list
      BY <1>3, <1>14 DEF VaultLabels
    <2>2. ~Owed(InHand(u))'
      BY <1>1, <1>4, <1>14, <2>1
    <2>3. IndexIsOwed /\ hand[u].list = index \ {InHand(u)}
      BY <1>2, <1>14 DEF LedgerInv, Ledger
    <2>4. \A i \in Ids : i \in hand'[u].list <=> Owed(i)'
      <3>1. ASSUME NEW i \in Ids, i = InHand(u) PROVE i \notin hand'[u].list /\ ~Owed(i)'
        BY <1>same, <2>1, <2>2, <2>3, <3>1
      <3>2. ASSUME NEW i \in Ids \ {InHand(u)} PROVE i \in hand'[u].list <=> Owed(i)'
        BY <1>4, <2>1, <2>3, <3>2 DEF IndexIsOwed
      <3> QED BY <3>1, <3>2
    <2>5. HoldsIndex(u)
      BY <1>14 DEF HoldsIndex
    <2> QED BY <1>6, <2>1, <2>4, <2>5, LedgerWrites
  <1>15. CASE Discard(u)
    BY <1>14, <1>15 DEF Discard
  <1>16. CASE BurnBlob(u)
    <2>1. hand[u].pc = "burn" /\ index' = index
      BY <1>16 DEF BurnBlob
    <2>2. blob[InHand(u)] # Missing
      BY <1>1, <1>2, <1>4, <2>1 DEF LedgerInv, Ledger, IndexIsOwed
    <2>3. blob' = [blob EXCEPT ![InHand(u)] = Junk] /\ Move(u, "ashes")
      BY <1>16, <2>2 DEF BurnBlob
    <2>4. hand'[u].pc = "ashes" /\ hand'[u].id = hand[u].id /\ hand'[u].list = hand[u].list
      BY <1>3, <2>3 DEF VaultLabels
    <2>5. blob'[InHand(u)] # Missing
      BY <1>1, <2>3 DEF Junk, Missing
    <2>6. Owed(InHand(u))' <=> Owed(InHand(u))
      BY <1>4, <2>1, <2>2, <2>4, <2>5 DEF Listing
    <2> QED BY <1>2, <2>1, <2>4, <2>6, LedgerMove DEF VaultLabels
  <1>17. CASE UnlinkBlob(u)
    BY <1>14, <1>17 DEF UnlinkBlob
  <1> QED
    BY <1>7, <1>8, <1>9, <1>10, <1>11, <1>12, <1>13, <1>15, <1>16, <1>17 DEF VaultStep

LEMMA LedgerInit == VaultInit => LedgerInv
  <1> SUFFICES ASSUME VaultInit PROVE LedgerInv
    OBVIOUS
  <1>1. \A u \in Callers : hand[u].pc = "idle"
    BY DEF VaultInit, Resting
  <1>2. \A i \in Ids : blob[i] = Missing /\ i \notin index
    BY DEF VaultInit
  <1>3. FreshBlobs
    BY <1>1, <1>2 DEF FreshBlobs, Taking
  <1>4. Ledger
    BY <1>1, <1>2 DEF Ledger, IndexIsOwed, Owed, HoldsIndex
  <1> QED BY <1>3, <1>4, SealInit DEF LedgerInv

LEMMA LedgerNext ==
  ASSUME LedgerInv, [VaultNext]_vaultVars
  PROVE  LedgerInv'
  <1> SUFFICES FreshBlobs' /\ Ledger'
    BY SealNext DEF LedgerInv
  <1>0. VaultTypeOK
    BY DEF LedgerInv, SealInv
  <1>1. ASSUME NEW u \in Callers, NEW p \in Paths, TakeFile(u, p)
        PROVE  FreshBlobs' /\ Ledger'
    <2>1. \E i \in Drawn \ issued :
            /\ issued' = issued \union {i}
            /\ place[p] # Missing
            /\ hand' \in [Callers -> Hands]
            /\ hand'[u] = [hand[u] EXCEPT !.pc = "seal", !.id = i, !.data = ReadOf(p)]
            /\ \A w \in Callers \ {u} : hand'[w] = hand[w]
      BY <1>0, <1>1, HandTakes
    <2>2. PICK i \in Drawn \ issued :
            /\ issued' = issued \union {i}
            /\ place[p] # Missing
            /\ hand'[u] = [hand[u] EXCEPT !.pc = "seal", !.id = i, !.data = ReadOf(p)]
            /\ \A w \in Callers \ {u} : hand'[w] = hand[w]
      BY <2>1
    <2>3. i \in Ids /\ hand[u] \in Hands
      BY <1>0, IdsAssumption DEF VaultTypeOK
    <2>4. hand'[u].pc = "seal" /\ hand'[u].id = i /\ hand'[u].data \in Sealable
      BY <1>0, <2>2, <2>3, ReadIsSealable DEF Hands
    <2>5. /\ \A w \in Callers \ {u} : hand'[w] = hand[w]
          /\ issued' = issued \union {i} /\ i \notin issued
          /\ blob' = blob /\ index' = index /\ calm' = calm /\ hand[u].pc = "idle"
      BY <1>1, <2>2 DEF TakeFile, Busy, vaultFiles
    <2>6. FreshBlobs'
      BY <2>3, <2>4, <2>5 DEF LedgerInv, FreshBlobs, Taking, InHand
    <2>7. \A j \in Ids : Owed(j)' <=> Owed(j)
      BY <2>4, <2>5 DEF Owed, Listing, InHand
    <2>8. \A w \in Callers : HoldsIndex(w)' <=> HoldsIndex(w)
      BY <2>4, <2>5 DEF HoldsIndex
    <2>9. Ledger'
      <3> SUFFICES ASSUME calm' PROVE Ledger'
        BY DEF Ledger
      <3>1. IndexIsOwed' <=> IndexIsOwed
        BY <2>5, <2>7 DEF IndexIsOwed
      <3> QED BY <2>4, <2>5, <2>7, <2>8, <3>1 DEF LedgerInv, Ledger, InHand
    <2> QED BY <2>6, <2>9
  <1>2. ASSUME NEW u \in Callers, NEW i \in Ids, NEW label \in {"unseal", "burn"},
               PickEntry(u, i, label)
        PROVE  FreshBlobs' /\ Ledger'
    <2>1. label \in VaultLabels /\ hand[u] \in Hands
      BY <1>0 DEF VaultLabels, VaultTypeOK
    <2>2. /\ hand' \in [Callers -> Hands]
          /\ hand'[u] = [hand[u] EXCEPT !.pc = label, !.id = i, !.list = index \ {i}]
          /\ \A w \in Callers \ {u} : hand'[w] = hand[w]
      BY <1>0, <1>2, <2>1, HandPicks
    <2>3. hand'[u].pc = label /\ hand'[u].id = i /\ hand'[u].list = index \ {i}
      BY <2>1, <2>2 DEF Hands
    <2>4. /\ \A w \in Callers \ {u} : hand'[w] = hand[w]
          /\ blob' = blob /\ index' = index /\ issued' = issued /\ i \in index
          /\ hand[u].pc = "idle"
          /\ calm' = (calm /\ \A w \in Callers \ {u} : ~HoldsIndex(w))
      BY <1>2, <2>2 DEF PickEntry, Busy, ReadsIndex, vaultFiles
    <2>5. FreshBlobs'
      BY <2>3, <2>4 DEF LedgerInv, FreshBlobs, Taking, InHand
    <2>6. \A j \in Ids : Owed(j)' <=> Owed(j)
      BY <2>3, <2>4 DEF Owed, Listing, InHand
    <2>7. Ledger'
      <3> SUFFICES ASSUME calm' PROVE Ledger'
        BY DEF Ledger
      <3>1. \A w \in Callers \ {u} : ~HoldsIndex(w) /\ ~HoldsIndex(w)'
        BY <2>4 DEF HoldsIndex
      <3>2. ~HoldsIndex(u) /\ HoldsIndex(u)'
        BY <2>3, <2>4 DEF HoldsIndex
      <3>3. IndexIsOwed'
        BY <2>4, <2>6, <3>1, <3>2 DEF LedgerInv, Ledger, IndexIsOwed
      <3> QED BY <2>3, <2>4, <3>1, <3>2, <3>3 DEF Ledger, HoldsIndex, InHand
    <2> QED BY <2>5, <2>7
  <1>3. ASSUME NEW u \in Callers, VaultStep(u)
        PROVE  FreshBlobs' /\ Ledger'
    BY <1>3, FreshStep, LedgerStep DEF LedgerInv
  <1>4. CASE (\E p \in Used, c \in Contents : OwnerSaves(p, c)) \/ UNCHANGED vaultVars
    <2>1. UNCHANGED <<aside, blob, index, issued, hand, calm>>
      BY <1>4 DEF OwnerSaves, vaultVars, vaultFiles
    <2> QED
      BY <2>1
      DEF LedgerInv, FreshBlobs, Ledger, IndexIsOwed, Owed, Listing, HoldsIndex, Taking, InHand
  <1>5. CASE VaultKilled
    <2>1. /\ \A u \in Callers : hand'[u].pc = "idle"
          /\ blob' = blob /\ index' = index /\ issued' = issued
          /\ calm' => calm /\ \A u \in Callers : hand[u].pc = "idle"
      BY <1>5 DEF VaultKilled, Resting, Busy, vaultFiles
    <2>2. FreshBlobs'
      BY <2>1 DEF LedgerInv, FreshBlobs, Taking
    <2>3. Ledger'
      <3> SUFFICES ASSUME calm' PROVE Ledger'
        BY DEF Ledger
      <3>1. \A i \in Ids : Owed(i)' <=> Owed(i)
        BY <2>1 DEF Owed, Listing
      <3>2. IndexIsOwed'
        BY <2>1, <3>1 DEF LedgerInv, Ledger, IndexIsOwed, HoldsIndex
      <3> QED BY <2>1, <3>2 DEF Ledger, HoldsIndex
    <2> QED BY <2>2, <2>3
  <1> QED
    BY <1>1, <1>2, <1>3, <1>4, <1>5
    DEF VaultNext, VaultRequest, RestoreEntry, DeleteEntry

\* While no call fails or is killed and no two have the index in hand at once,
\* the index at rest lists exactly the blobs of the vault.
THEOREM IndexListsVault == VaultSpec => []IndexIsVault
  <1>1. LedgerInv => IndexIsVault
    <2> SUFFICES ASSUME LedgerInv, calm, \A u \in Callers : ~Busy(u)
                 PROVE  index = {i \in Ids : blob[i] # Missing}
      BY DEF IndexIsVault
    <2>1. \A i \in Ids : Owed(i) <=> blob[i] # Missing
      BY DEF Owed, Listing, Busy
    <2>2. IndexIsOwed /\ index \subseteq Ids
      BY DEF LedgerInv, Ledger, HoldsIndex, Busy, SealInv, VaultTypeOK
    <2> QED BY <2>1, <2>2 DEF IndexIsOwed
  <1> QED BY <1>1, LedgerInit, LedgerNext, PTL DEF VaultSpec

-----------------------------------------------------------------------------
\* The steps a call of the quarantine still makes from each label, at most.
CallSteps ==
  [idle |-> 0, save |-> 1, truncate |-> 2, list |-> 3, unlink |-> 4, shred |-> 5, seal |-> 6,
   discard |-> 3, putback |-> 4, unseal |-> 5, ashes |-> 3, burn |-> 4]

\* A step of the call of u brings it nearer to its end.  Nothing else moves it:
\* it is begun when u rests, and a kill ends it.
CallAdvances(u) ==
  /\ VaultStep(u) => CallSteps[hand'[u].pc] < CallSteps[hand[u].pc]
  /\ ~VaultStep(u) => \/ hand'[u] = hand[u] \/ hand'[u] = Resting
                      \/ ~Busy(u) /\ hand'[u].pc \in {"seal", "unseal", "burn"}

LEMMA VaultStepAdvances ==
  ASSUME VaultTypeOK, BusyHasEntry, NEW u \in Callers, VaultStep(u)
  PROVE  CallSteps[hand'[u].pc] < CallSteps[hand[u].pc]
  <1>1. ASSUME NEW label \in VaultLabels, Move(u, label)
        PROVE  hand'[u].pc = label
    BY <1>1, MoveKeeps
  <1>2. Return(u) \/ Fail(u) => hand'[u].pc = "idle"
    BY HandReturns DEF Fail, Resting
  <1>3. CASE SealBlob(u) \/ ShredOriginal(u) \/ UnlinkOriginal(u)
    <2>1. \/ hand[u].pc = "seal" /\ hand'[u].pc \in {"shred", "idle"}
          \/ hand[u].pc = "shred" /\ hand'[u].pc \in {"unlink", "idle"}
          \/ hand[u].pc = "unlink" /\ hand'[u].pc \in {"list", "idle"}
      BY <1>1, <1>2, <1>3 DEF SealBlob, ShredOriginal, UnlinkOriginal, VaultLabels
    <2> QED BY <2>1 DEF CallSteps
  <1>4. CASE ListEntry(u)
    <2>1. hand[u].pc = "list" /\ Busy(u)
      BY <1>4 DEF ListEntry, Busy
    <2>2. hand'[u] = [hand[u] EXCEPT !.pc = "truncate", !.list = index \union {InHand(u)}]
      BY <1>4, <2>1, HandLists DEF BusyHasEntry
    <2>3. hand'[u].pc = "truncate"
      BY <2>2 DEF VaultTypeOK, Hands
    <2> QED BY <2>1, <2>3 DEF CallSteps
  <1>5. CASE Truncate(u) \/ SaveIndex(u)
    <2>1. \/ hand[u].pc = "truncate" /\ hand'[u].pc = "save"
          \/ hand[u].pc = "save" /\ hand'[u].pc = "idle"
      BY <1>1, <1>2, <1>5 DEF Truncate, SaveIndex, VaultLabels
    <2> QED BY <2>1 DEF CallSteps
  <1>6. CASE Unseal(u)
    <2>1. hand[u].pc = "unseal"
      BY <1>6 DEF Unseal
    <2>2. CASE blob[InHand(u)] \in Sealable
      <3>1. hand'[u] = [hand[u] EXCEPT !.pc = "putback", !.data = blob[InHand(u)]]
        BY <1>6, <2>2, HandUnseals
      <3>2. hand'[u].pc = "putback"
        BY <3>1 DEF VaultTypeOK, Hands
      <3> QED BY <2>1, <3>2 DEF CallSteps
    <2>3. CASE blob[InHand(u)] \notin Sealable
      <3>1. hand'[u].pc = "idle"
        BY <1>2, <1>6, <2>3 DEF Unseal
      <3> QED BY <2>1, <3>1 DEF CallSteps
    <2> QED BY <2>2, <2>3
  <1>7. CASE PutBack(u) \/ Discard(u)
    <2>1. \/ hand[u].pc = "putback" /\ hand'[u].pc \in {"discard", "idle"}
          \/ hand[u].pc = "discard" /\ hand'[u].pc = "truncate"
      BY <1>1, <1>2, <1>7 DEF PutBack, Discard, VaultLabels
    <2> QED BY <2>1 DEF CallSteps
  <1>8. CASE BurnBlob(u) \/ UnlinkBlob(u)
    <2>1. \/ hand[u].pc = "burn" /\ hand'[u].pc \in {"ashes", "truncate", "idle"}
          \/ hand[u].pc = "ashes" /\ hand'[u].pc \in {"truncate", "idle"}
      BY <1>1, <1>2, <1>8 DEF BurnBlob, UnlinkBlob, VaultLabels
    <2> QED BY <2>1 DEF CallSteps
  <1> QED BY <1>3, <1>4, <1>5, <1>6, <1>7, <1>8 DEF VaultStep

LEMMA PickLabels == {"unseal", "burn"} \subseteq VaultLabels
  BY DEF VaultLabels

LEMMA PickedHand ==
  ASSUME VaultTypeOK, NEW u \in Callers, NEW i \in Ids, NEW label \in VaultLabels,
         PickEntry(u, i, label)
  PROVE  /\ ~Busy(u) /\ hand'[u].pc = label
         /\ \A w \in Callers \ {u} : hand'[w] = hand[w]
  <1> DEFINE picked == [hand[u] EXCEPT !.pc = label, !.id = i, !.list = index \ {i}]
  <1>1. hand[u] \in Hands /\ hand \in [Callers -> Hands]
    BY DEF VaultTypeOK
  <1>2. hand' = [hand EXCEPT ![u] = picked] /\ picked.pc = label
    BY <1>1 DEF PickEntry, Hands
  <1> HIDE DEF picked
  <1>3. hand'[u] = picked /\ \A w \in Callers \ {u} : hand'[w] = hand[w]
    BY <1>1, <1>2
  <1> QED BY <1>2, <1>3 DEF PickEntry

LEMMA OthersLeaveCall ==
  ASSUME VaultTypeOK, BusyHasEntry, [VaultNext]_vaultVars, NEW u \in Callers, ~VaultStep(u)
  PROVE  \/ hand'[u] = hand[u] \/ hand'[u] = Resting
         \/ ~Busy(u) /\ hand'[u].pc \in {"seal", "unseal", "burn"}
  <1>1. ASSUME NEW w \in Callers, NEW p \in Paths, TakeFile(w, p)
        PROVE  hand'[u] = hand[u] \/ (~Busy(u) /\ hand'[u].pc = "seal")
    <2>1. PICK i \in Drawn \ issued :
            /\ hand'[w] = [hand[w] EXCEPT !.pc = "seal", !.id = i, !.data = ReadOf(p)]
            /\ \A v \in Callers \ {w} : hand'[v] = hand[v]
      BY <1>1, HandTakes
    <2>2. hand'[w].pc = "seal" /\ ~Busy(w)
      BY <1>1, <2>1 DEF TakeFile, VaultTypeOK, Hands
    <2> QED BY <2>1, <2>2
  <1>2. ASSUME NEW w \in Callers, NEW i \in Ids, NEW label \in {"unseal", "burn"},
               PickEntry(w, i, label)
        PROVE  hand'[u] = hand[u] \/ (~Busy(u) /\ hand'[u].pc = label)
    <2>1. label \in VaultLabels
      BY PickLabels
    <2>2. /\ ~Busy(w) /\ hand'[w].pc = label
          /\ \A v \in Callers \ {w} : hand'[v] = hand[v]
      BY <1>2, <2>1, PickedHand
    <2> QED BY <2>2
  <1>3. ASSUME NEW w \in Callers \ {u}, VaultStep(w)
        PROVE  hand'[u] = hand[u]
    BY <1>3, StepHands
  <1>4. CASE VaultKilled
    BY <1>4 DEF VaultKilled
  <1>5. ASSUME NEW p \in Used, NEW c \in Contents, OwnerSaves(p, c)
        PROVE  hand' = hand
    BY <1>5 DEF OwnerSaves
  <1>6. CASE UNCHANGED vaultVars
    BY <1>6 DEF vaultVars
  <1> QED BY <1>1, <1>2, <1>3, <1>4, <1>5, <1>6
          DEF VaultNext, VaultRequest, RestoreEntry, DeleteEntry

\* A call of the quarantine ends after six steps at most, whatever fails and
\* whoever calls it meanwhile: a call never waits for another one, and never
\* tries anything again (file_quarantine.rs).
THEOREM CallsEnd == VaultSpec => [][\A u \in Callers : CallAdvances(u)]_vaultVars
  <1>1. VaultTypeOK /\ BusyHasEntry /\ [VaultNext]_vaultVars => VaultTypeOK' /\ BusyHasEntry'
    BY VaultTypeStep
  <1>2. ASSUME VaultTypeOK, BusyHasEntry, [VaultNext]_vaultVars, NEW u \in Callers
        PROVE  CallAdvances(u)
    BY <1>2, VaultStepAdvances, OthersLeaveCall DEF CallAdvances
  <1>3. VaultTypeOK /\ BusyHasEntry /\ [VaultNext]_vaultVars
          => [\A u \in Callers : CallAdvances(u)]_vaultVars
    BY <1>2
  <1> QED BY <1>1, <1>3, VaultTypeInit, PTL DEF VaultSpec

-----------------------------------------------------------------------------
\* The statistics.
\* The key of a period never exceeds the day, and never goes back.
LEMMA KeyInCalendar ==
  ASSUME NEW p \in Periods, NEW day \in Calendar
  PROVE  Key(p, day) \in Calendar
  <1>1. DaysPerWeek \in Nat \ {0} /\ LastDay \in Nat
    BY StatsAssumption
  <1>2. day \div DaysPerWeek \in Nat /\ day \div DaysPerWeek <= day
    BY <1>1 DEF Calendar
  <1> QED BY <1>1, <1>2 DEF Key, Calendar

LEMMA KeyMonotonic ==
  ASSUME NEW p \in Periods, NEW a \in Calendar, NEW b \in Calendar, a <= b
  PROVE  Key(p, a) <= Key(p, b)
  <1>1. DaysPerWeek \in Nat \ {0} /\ LastDay \in Nat
    BY StatsAssumption
  <1>2. a \div DaysPerWeek <= b \div DaysPerWeek
    BY <1>1 DEF Calendar
  <1> QED BY <1>2 DEF Key

-----------------------------------------------------------------------------
(***************************************************************************)
(* Types                                                                   *)
(***************************************************************************)
CounterThreads == [pc : Counting, period : Periods, day : Calendar]
Flushes == [pc : Flushing, period : Periods, key : ByPeriod(Calendar), count : ByPeriod(Nat)]

LEMMA StartingValues ==
  /\ AtRest \in CounterThreads /\ Unflushed \in Flushes
  /\ Zero \in ByPeriod(Nat) /\ Zero \in ByPeriod(Calendar)
  <1>1. 0 \in Calendar
    BY StatsAssumption DEF Calendar
  <1> QED
    BY <1>1 DEF AtRest, CounterThreads, Counting, Periods, Unflushed, Flushes,
                Flushing, Zero, ByPeriod

LEMMA KeysInCalendar ==
  ASSUME NEW day \in Calendar
  PROVE  KeysOf(day) \in ByPeriod(Calendar) /\ \A p \in Periods : KeysOf(day)[p] = Key(p, day)
  BY KeyInCalendar DEF KeysOf, ByPeriod

LEMMA LoadedCounts ==
  ASSUME StatTypeOK, NEW keys
  PROVE  Loaded(statFile, keys) \in ByPeriod(Nat)
  BY DEF Loaded, StatTypeOK, ByPeriod

\* A thread that changes only itself.
LEMMA ThreadAt ==
  ASSUME StatTypeOK, NEW u \in Counters, NEW t \in CounterThreads,
         counter' = [counter EXCEPT ![u] = t]
  PROVE  /\ counter' \in [Counters -> CounterThreads] /\ counter'[u] = t
         /\ \A v \in Counters \ {u} : counter'[v] = counter[v]
  BY DEF StatTypeOK, CounterThreads

LEMMA ThreadGoes ==
  ASSUME StatTypeOK, NEW u \in Counters, NEW p \in Periods, NEW label \in Counting,
         NEW after \in Counting, StepTo(u, p, label, after)
  PROVE  /\ counter' \in [Counters -> CounterThreads]
         /\ counter'[u].pc \in {label, after} /\ counter'[u].day = counter[u].day
         /\ \A v \in Counters \ {u} : counter'[v] = counter[v]
  <1> DEFINE pc == IF p = "day" THEN label ELSE after
             period == IF p = "day" THEN "week" ELSE "day"
             t == [counter[u] EXCEPT !.pc = pc, !.period = period]
  <1>1. counter[u] \in CounterThreads
    BY DEF StatTypeOK, CounterThreads
  <1>2. pc \in Counting /\ period \in Periods /\ pc \in {label, after}
    BY DEF Periods
  <1>3. counter' = [counter EXCEPT ![u] = t]
    BY DEF StepTo, StatTypeOK
  <1> HIDE DEF pc, period
  <1>4. t \in CounterThreads /\ t.pc = pc /\ t.day = counter[u].day
    BY <1>1, <1>2 DEF CounterThreads
  <1> HIDE DEF t
  <1> QED BY <1>2, <1>3, <1>4, ThreadAt

\* What a step of each kind does to its thread, with the other threads as they
\* were.
LEMMA CounterStep ==
  ASSUME StatTypeOK, NEW u \in Counters, NEW p \in Periods,
         \/ StartCount(u) \/ Roll(u, p) \/ ResetCount(u, p) \/ AddBlock(u, p) \/ MarkDirty(u)
  PROVE  /\ counter' \in [Counters -> CounterThreads]
         /\ \A v \in Counters \ {u} : counter'[v] = counter[v]
         /\ counter'[u].day \in {counter[u].day, today, 0}
         /\ counter'[u].pc = "zero" =>
              /\ Roll(u, p) /\ current[p] # Key(p, counter[u].day)
              /\ counter'[u].period = p
  <1>1. counter[u] \in CounterThreads /\ today \in Calendar
    BY DEF StatTypeOK, CounterThreads
  <1>2. AfterRoll(u) \in {"add", "rest"}
    BY DEF AfterRoll
  <1>3. CASE StartCount(u)
    <2> DEFINE t == [pc |-> IF throttled THEN AfterRoll(u) ELSE "roll", period |-> "day",
                     day |-> today]
    <2>1. t \in CounterThreads /\ t.pc # "zero" /\ t.day = today
      BY <1>1, <1>2 DEF CounterThreads, Counting, Periods
    <2>2. counter' = [counter EXCEPT ![u] = t]
      BY <1>3 DEF StartCount
    <2> HIDE DEF t
    <2> QED BY <2>1, <2>2, ThreadAt
  <1>4. CASE Roll(u, p)
    <2>1. CASE current[p] = Key(p, counter[u].day)
      BY <1>2, <1>4, <2>1, ThreadGoes DEF Roll, Counting
    <2>2. CASE current[p] # Key(p, counter[u].day)
      <3> DEFINE t == [counter[u] EXCEPT !.pc = "zero"]
      <3>1. t \in CounterThreads /\ t.day = counter[u].day /\ t.period = p
        BY <1>1, <1>4 DEF CounterThreads, Counting, Roll
      <3>2. counter' = [counter EXCEPT ![u] = t]
        BY <1>4, <2>2 DEF Roll, StatTypeOK
      <3> HIDE DEF t
      <3> QED BY <1>4, <2>2, <3>1, <3>2, ThreadAt
    <2> QED BY <2>1, <2>2
  <1>5. CASE ResetCount(u, p)
    BY <1>2, <1>5, ThreadGoes DEF ResetCount, Counting
  <1>6. CASE AddBlock(u, p)
    BY <1>6, ThreadGoes DEF AddBlock, Counting
  <1>7. CASE MarkDirty(u)
    BY <1>7, StartingValues, ThreadAt DEF MarkDirty, AtRest
  <1> QED BY <1>3, <1>4, <1>5, <1>6, <1>7

\* What the flush does to its snapshot.
LEMMA FlushStep ==
  ASSUME StatTypeOK, NEW p \in Periods, ReadKey(p) \/ ReadCount(p)
  PROVE  /\ flusher' \in Flushes
         /\ flusher'.period = IF p = "day" THEN "week" ELSE "day"
         /\ ReadKey(p) =>
              /\ flusher'.key = [flusher.key EXCEPT ![p] = current[p]]
              /\ flusher'.pc = IF p = "day" THEN "key" ELSE "count"
         /\ ReadCount(p) =>
              /\ flusher'.key = flusher.key
              /\ flusher'.count = [flusher.count EXCEPT ![p] = count[p]]
              /\ flusher'.pc = IF p = "day" THEN "count" ELSE "store"
  <1>1. flusher \in Flushes /\ current[p] \in Calendar /\ count[p] \in Nat
    BY DEF StatTypeOK, Flushes, ByPeriod
  <1>2. CASE ReadKey(p)
    BY <1>1, <1>2 DEF ReadKey, Snapshots, Flushes, Flushing, Periods, ByPeriod, ReadCount
  <1>3. CASE ReadCount(p)
    BY <1>1, <1>3 DEF ReadCount, Snapshots, Flushes, Flushing, Periods, ByPeriod, ReadKey
  <1> QED BY <1>2, <1>3

LEMMA StatTypeStep ==
  ASSUME StatTypeOK, [StatNext]_statVars
  PROVE  StatTypeOK'
  <1>1. ASSUME NEW u \in Counters, NEW p \in Periods,
               \/ StartCount(u) \/ Roll(u, p) \/ ResetCount(u, p) \/ AddBlock(u, p) \/ MarkDirty(u)
        PROVE  StatTypeOK'
    <2>1. counter' \in [Counters -> [pc : Counting, period : Periods, day : Calendar]]
      BY <1>1, CounterStep DEF CounterThreads
    <2>2. current' \in ByPeriod(Calendar)
      <3>1. Key(p, counter[u].day) \in Calendar
        BY KeyInCalendar DEF StatTypeOK
      <3> QED
        BY <1>1, <3>1
        DEF StatTypeOK, ByPeriod, StartCount, Roll, ResetCount, AddBlock, MarkDirty
    <2>3. count' \in ByPeriod(Nat)
      BY <1>1 DEF StatTypeOK, ByPeriod, StartCount, Roll, ResetCount, AddBlock, MarkDirty
    <2>4. recorded' \in [Periods -> [Calendar -> Nat]]
      <3>1. Key(p, today) \in Calendar
        BY KeyInCalendar DEF StatTypeOK
      <3>2. CASE AddBlock(u, p)
        <4> DEFINE k == Key(p, today)
        <4>1. recorded[p] \in [Calendar -> Nat] /\ recorded[p][k] + 1 \in Nat
          BY <3>1 DEF StatTypeOK
        <4>2. recorded' = [recorded EXCEPT ![p] = [recorded[p] EXCEPT ![k] = recorded[p][k] + 1]]
          BY <3>2 DEF AddBlock
        <4>3. [recorded[p] EXCEPT ![k] = recorded[p][k] + 1] \in [Calendar -> Nat]
          BY <3>1, <4>1
        <4> QED BY <4>2, <4>3 DEF StatTypeOK
      <3>3. CASE ~AddBlock(u, p)
        BY <1>1, <3>3 DEF StatTypeOK, StartCount, Roll, ResetCount, MarkDirty
      <3> QED BY <3>2, <3>3
    <2>5. {dirty', throttled'} \subseteq BOOLEAN /\ UNCHANGED <<today, flusher, statFile>>
      BY <1>1 DEF StatTypeOK, StartCount, Roll, ResetCount, AddBlock, MarkDirty
    <2> QED BY <2>1, <2>2, <2>3, <2>4, <2>5 DEF StatTypeOK
  <1>2. CASE StartFlush
    BY <1>2 DEF StartFlush, StatTypeOK, Flushing
  <1>3. ASSUME NEW p \in Periods, ReadKey(p) \/ ReadCount(p) PROVE StatTypeOK'
    <2>1. flusher' \in Flushes
      BY <1>3, FlushStep
    <2> QED BY <1>3, <2>1 DEF ReadKey, ReadCount, StatTypeOK, Flushes
  <1>4. CASE Store
    <2>1. statFile' \in [key : ByPeriod(Calendar \union {-1}), count : ByPeriod(Nat)]
      BY <1>4 DEF Store, StatTypeOK, ByPeriod
    <2> QED BY <1>4, <2>1, StartingValues DEF Store, StatTypeOK, Flushes
  <1>5. CASE Midnight
    BY <1>5, StatsAssumption DEF Midnight, StatTypeOK, Calendar
  <1>6. CASE SecondPasses \/ UNCHANGED statVars
    BY <1>6 DEF SecondPasses, statVars, StatTypeOK
  <1>7. CASE StatRestart
    <2>1. current' \in ByPeriod(Calendar) /\ count' \in ByPeriod(Nat)
      BY <1>7, KeysInCalendar, LoadedCounts DEF StatRestart, StatTypeOK
    <2>2. counter' \in [Counters -> [pc : Counting, period : Periods, day : Calendar]]
      BY <1>7, StartingValues DEF StatRestart, CounterThreads
    <2> QED BY <1>7, <2>1, <2>2, StartingValues DEF StatRestart, StatTypeOK, Flushes
  <1>8. Periods # {}
    BY DEF Periods
  <1> QED BY <1>1, <1>2, <1>3, <1>4, <1>5, <1>6, <1>7, <1>8 DEF StatNext

LEMMA StatTypeInit == StatInit => StatTypeOK
  <1> SUFFICES ASSUME StatInit PROVE StatTypeOK
    OBVIOUS
  <1>1. 0 \in Calendar
    BY StatsAssumption DEF Calendar
  <1>2. current \in ByPeriod(Calendar)
    BY <1>1, KeysInCalendar DEF StatInit
  <1>3. statFile \in [key : ByPeriod(Calendar \union {-1}), count : ByPeriod(Nat)]
    BY DEF StatInit, NoFile, ByPeriod, Zero
  <1>4. counter \in [Counters -> [pc : Counting, period : Periods, day : Calendar]]
    BY StartingValues DEF StatInit, CounterThreads
  <1> QED BY <1>1, <1>2, <1>3, <1>4, StartingValues DEF StatInit, StatTypeOK, Flushes

\* Every variable keeps its type.
THEOREM StatsTypeCorrect == StatSpec => []StatTypeOK
  BY StatTypeInit, StatTypeStep, PTL DEF StatSpec

-----------------------------------------------------------------------------
(***************************************************************************)
(* A new period is never paired with the count of an old one               *)
(***************************************************************************)
\* What was blocked in the present period.
Real(p) == recorded[p][Key(p, today)]
IsPresent(p, key) == key = Key(p, today)

\* The flush has read the key of p but not its count; or both.
Keyed(p) ==
    \/ flusher.pc = "key" /\ flusher.period = "week" /\ p = "day"
    \/ flusher.pc = "count" /\ (flusher.period = "day" \/ p = "week")
Counted(p) ==
    \/ flusher.pc = "count" /\ flusher.period = "week" /\ p = "day"
    \/ flusher.pc = "store"

\* Nobody has read a date that has not come yet.
NoFuture ==
    /\ \A u \in Counters : counter[u].day <= today
    /\ \A p \in Periods :
         /\ current[p] <= Key(p, today)
         /\ flusher.key[p] <= Key(p, today)
         /\ statFile.key[p] <= Key(p, today)

\* A count under the present key is real, unless it is about to be reset; and
\* from when the flush has read that key it stays so, whoever rolls over.
CountsAreReal == \A p \in Periods :
    /\ IsPresent(p, current[p]) /\ ~Locked(p) => count[p] <= Real(p)
    /\ IsPresent(p, flusher.key[p]) =>
         /\ Keyed(p) => count[p] <= Real(p)
         /\ Counted(p) => flusher.count[p] <= Real(p)
    /\ IsPresent(p, statFile.key[p]) => statFile.count[p] <= Real(p)

\* Between two flushes nothing is left of the last.
FlushRests == flusher.pc = "rest" => flusher = Unflushed

StatInv == StatTypeOK /\ NoFuture /\ CountsAreReal /\ FlushRests

LEMMA FlushRestsStep ==
  ASSUME StatTypeOK, FlushRests, [StatNext]_statVars
  PROVE  FlushRests'
  <1>1. ASSUME NEW p \in Periods, ReadKey(p) \/ ReadCount(p) PROVE flusher'.pc # "rest"
    BY <1>1, FlushStep
  <1>2. StartFlush => flusher'.pc # "rest"
    BY DEF StartFlush, StatTypeOK
  <1> QED
    BY <1>1, <1>2
    DEF FlushRests, StatNext, StartCount, Roll, ResetCount, AddBlock, MarkDirty, Store,
        Midnight, SecondPasses, StatRestart, statVars

LEMMA Numbers ==
  ASSUME StatTypeOK, NEW p \in Periods
  PROVE  /\ count[p] \in Nat /\ flusher.count[p] \in Nat /\ statFile.count[p] \in Nat
         /\ current[p] \in Calendar /\ flusher.key[p] \in Calendar
         /\ statFile.key[p] \in Calendar \union {-1}
         /\ Real(p) \in Nat /\ Key(p, today) \in Calendar
  <1>1. Key(p, today) \in Calendar
    BY KeyInCalendar DEF StatTypeOK
  <1> QED BY <1>1 DEF StatTypeOK, ByPeriod, Real

\* The counting threads do not touch the flush and the file: it is enough that
\* real counts stay real.
LEMMA RealCountsStay ==
  ASSUME StatInv, StatTypeOK', UNCHANGED <<today, flusher, statFile>>,
         \A p \in Periods : Real(p) <= Real(p)',
         \A p \in Periods : count[p] <= Real(p) => count'[p] <= Real(p)',
         \A p \in Periods : IsPresent(p, current'[p]) /\ ~Locked(p)' => count'[p] <= Real(p)'
  PROVE  CountsAreReal'
  <1> SUFFICES ASSUME NEW p \in Periods
      PROVE /\ IsPresent(p, current[p])' /\ ~Locked(p)' => count'[p] <= Real(p)'
            /\ IsPresent(p, flusher.key[p])' =>
                 /\ Keyed(p)' => count'[p] <= Real(p)'
                 /\ Counted(p)' => flusher'.count[p] <= Real(p)'
            /\ IsPresent(p, statFile.key[p])' => statFile'.count[p] <= Real(p)'
    BY DEF CountsAreReal
  <1>1. /\ flusher.count[p] \in Nat /\ statFile.count[p] \in Nat /\ Real(p) \in Nat
        /\ Real(p)' \in Nat /\ Real(p) <= Real(p)'
    BY Numbers DEF StatInv, StatTypeOK, Real
  <1>2. (Keyed(p)' <=> Keyed(p)) /\ (Counted(p)' <=> Counted(p))
    BY DEF Keyed, Counted
  <1> QED BY <1>1, <1>2 DEF StatInv, CountsAreReal, IsPresent

LEMMA CountingStep ==
  ASSUME StatInv, StatTypeOK', NEW u \in Counters, NEW p \in Periods,
         \/ StartCount(u) \/ Roll(u, p) \/ ResetCount(u, p) \/ AddBlock(u, p) \/ MarkDirty(u)
  PROVE  NoFuture' /\ CountsAreReal'
  <1> USE DEF StatInv
  <1>1. /\ UNCHANGED <<today, flusher, statFile>>
        /\ \A v \in Counters \ {u} : counter'[v] = counter[v]
        /\ counter'[u].day \in {counter[u].day, today, 0}
        /\ counter'[u].pc = "zero" =>
              Roll(u, p) /\ current[p] # Key(p, counter[u].day) /\ counter'[u].period = p
    BY CounterStep DEF StartCount, Roll, ResetCount, AddBlock, MarkDirty
  <1>2. today \in Calendar /\ \A v \in Counters : counter[v].day \in Calendar
    BY DEF StatTypeOK
  <1>3. \A v \in Counters : counter'[v].day <= today
    BY <1>1, <1>2 DEF NoFuture, Calendar
  <1>4. \A q \in Periods : current'[q] <= Key(q, today)
    <2>1. Key(p, counter[u].day) <= Key(p, today)
      BY <1>2, KeyMonotonic DEF NoFuture
    <2> QED
      BY <2>1 DEF NoFuture, StartCount, Roll, ResetCount, AddBlock, MarkDirty, StatTypeOK, ByPeriod
  <1>5. NoFuture'
    BY <1>1, <1>3, <1>4 DEF NoFuture
  <1>6. \A q \in Periods : count[q] \in Nat /\ Real(q) \in Nat
    BY Numbers
  \* A period that was locked by another thread, or for another period, still is.
  <1>7. ASSUME NEW q \in Periods, Locked(q), q # p \/ ~CountsAt(u, "zero") PROVE Locked(q)'
    <2>1. PICK v \in Counters : counter[v].pc = "zero" /\ counter[v].period = q
      BY <1>7 DEF Locked
    <2>2. v # u
      BY <1>7, <2>1 DEF StartCount, Roll, ResetCount, AddBlock, MarkDirty, CountsAt
    <2> QED BY <1>1, <2>1, <2>2 DEF Locked
  <1>8. CASE ~ResetCount(u, p) /\ UNCHANGED <<current, count, recorded>>
    <2>1. ~CountsAt(u, "zero")
      BY <1>8 DEF StartCount, Roll, AddBlock, MarkDirty, CountsAt
    <2>2. \A q \in Periods : Real(q)' = Real(q)
      BY <1>1, <1>8 DEF Real
    <2>3. \A q \in Periods : IsPresent(q, current'[q]) /\ ~Locked(q)' => count'[q] <= Real(q)'
      BY <1>7, <1>8, <2>1, <2>2 DEF CountsAreReal
    <2> QED BY <1>1, <1>5, <1>6, <1>8, <2>2, <2>3, RealCountsStay
  <1>9. CASE Roll(u, p) /\ current[p] # Key(p, counter[u].day)
    <2>1. /\ UNCHANGED <<count, recorded>> /\ ~CountsAt(u, "zero")
          /\ \A q \in Periods \ {p} : current'[q] = current[q]
      BY <1>9 DEF Roll, CountsAt, StatTypeOK, ByPeriod
    <2>2. \A q \in Periods : Real(q)' = Real(q)
      BY <1>1, <2>1 DEF Real
    <2>3. Locked(p)'
      <3>1. counter' = [counter EXCEPT ![u].pc = "zero"] /\ counter[u].period = p
        BY <1>9 DEF Roll
      <3> QED BY <3>1 DEF Locked, StatTypeOK
    <2>4. ASSUME NEW q \in Periods, IsPresent(q, current'[q]), ~Locked(q)'
          PROVE  count'[q] <= Real(q)'
      <3>1. q # p
        BY <2>3, <2>4
      <3> QED BY <1>7, <2>1, <2>2, <2>4, <3>1 DEF CountsAreReal
    <2> QED BY <1>1, <1>5, <1>6, <2>1, <2>2, <2>4, RealCountsStay
  <1>10. CASE ResetCount(u, p)
    <2>1. /\ count'[p] = 0 /\ UNCHANGED <<current, recorded>>
          /\ \A q \in Periods \ {p} : count'[q] = count[q]
      BY <1>10 DEF ResetCount, StatTypeOK, ByPeriod
    <2>2. \A q \in Periods : Real(q)' = Real(q)
      BY <1>1, <2>1 DEF Real
    <2>3. \A q \in Periods : IsPresent(q, current'[q]) /\ ~Locked(q)' => count'[q] <= Real(q)'
      BY <1>6, <1>7, <2>1, <2>2 DEF CountsAreReal
    <2> QED BY <1>1, <1>5, <1>6, <2>1, <2>2, <2>3, RealCountsStay
  <1>11. CASE AddBlock(u, p)
    <2>1. /\ count'[p] = count[p] + 1 /\ UNCHANGED current /\ ~CountsAt(u, "zero")
          /\ \A q \in Periods \ {p} : count'[q] = count[q]
      BY <1>11 DEF AddBlock, CountsAt, StatTypeOK, ByPeriod
    <2>2. recorded'[p][Key(p, today)] = recorded[p][Key(p, today)] + 1
      <3>1. Key(p, today) \in Calendar
        BY Numbers
      <3> QED BY <1>11, <3>1 DEF AddBlock, StatTypeOK
    <2>3. \A q \in Periods \ {p} : recorded'[q] = recorded[q]
      BY <1>11 DEF AddBlock, StatTypeOK
    <2>4. Real(p)' = Real(p) + 1 /\ \A q \in Periods \ {p} : Real(q)' = Real(q)
      BY <1>1, <2>2, <2>3 DEF Real
    <2>5. \A q \in Periods : count[q] <= Real(q) => count'[q] <= Real(q)'
      BY <1>6, <2>1, <2>4
    <2>6. \A q \in Periods : IsPresent(q, current'[q]) /\ ~Locked(q)' => count'[q] <= Real(q)'
      BY <1>7, <2>1, <2>5 DEF CountsAreReal
    <2>7. \A q \in Periods : Real(q) <= Real(q)'
      BY <1>6, <2>4
    <2> QED BY <1>1, <1>5, <2>5, <2>6, <2>7, RealCountsStay
  <1> QED
    BY <1>8, <1>9, <1>10, <1>11 DEF StartCount, Roll, MarkDirty

LEMMA FlushingStep ==
  ASSUME StatInv, NEW p \in Periods, ReadKey(p) \/ ReadCount(p)
  PROVE  NoFuture' /\ CountsAreReal'
  <1> USE DEF StatInv
  <1>1. UNCHANGED <<today, current, count, counter, statFile, recorded>>
    BY DEF ReadKey, ReadCount
  <1>2. flusher' \in Flushes /\ flusher.key \in ByPeriod(Calendar) /\ flusher.count \in ByPeriod(Nat)
    BY FlushStep DEF StatTypeOK
  <1>3. flusher.period = p
    BY DEF ReadKey, ReadCount
  <1>4. ASSUME NEW q \in Periods PROVE Real(q)' = Real(q) /\ (Locked(q)' <=> Locked(q))
    BY <1>1 DEF Real, Locked
  <1>5. CASE ReadKey(p)
    <2>1. /\ flusher'.key = [flusher.key EXCEPT ![p] = current[p]]
          /\ flusher'.pc = IF p = "day" THEN "key" ELSE "count"
          /\ flusher'.period = IF p = "day" THEN "week" ELSE "day"
          /\ flusher.pc = "key" /\ ~Locked(p)
      BY <1>5, FlushStep DEF ReadKey
    <2>2. \A q \in Periods : flusher'.key[q] = IF q = p THEN current[p] ELSE flusher.key[q]
      BY <1>2, <2>1 DEF ByPeriod
    <2>3. NoFuture'
      BY <1>1, <2>2 DEF NoFuture
    <2>4. ASSUME NEW q \in Periods
          PROVE  ~Counted(q)' /\ (q # p /\ Keyed(q)' => Keyed(q))
      BY <1>3, <2>1 DEF Counted, Keyed, Periods
    <2>5. ASSUME NEW q \in Periods, IsPresent(q, flusher'.key[q]), Keyed(q)'
          PROVE  count[q] <= Real(q)
      <3>1. CASE q = p
        BY <2>1, <2>2, <2>5, <3>1 DEF CountsAreReal
      <3>2. CASE q # p
        BY <2>2, <2>4, <2>5, <3>2 DEF CountsAreReal
      <3> QED BY <3>1, <3>2
    <2> QED BY <1>1, <1>4, <2>3, <2>4, <2>5 DEF CountsAreReal, IsPresent
  <1>6. CASE ReadCount(p)
    <2>1. /\ flusher'.key = flusher.key
          /\ flusher'.count = [flusher.count EXCEPT ![p] = count[p]]
          /\ flusher'.pc = IF p = "day" THEN "count" ELSE "store"
          /\ flusher'.period = IF p = "day" THEN "week" ELSE "day"
          /\ flusher.pc = "count"
      BY <1>6, FlushStep DEF ReadCount
    <2>2. \A q \in Periods : flusher'.count[q] = IF q = p THEN count[p] ELSE flusher.count[q]
      BY <1>2, <2>1 DEF ByPeriod
    <2>3. NoFuture'
      BY <1>1, <2>1 DEF NoFuture
    <2>4. Keyed(p)
      BY <1>3, <2>1 DEF Keyed, Periods
    <2>5. ASSUME NEW q \in Periods
          PROVE  (Keyed(q)' => Keyed(q)) /\ (q # p /\ Counted(q)' => Counted(q))
      BY <1>3, <2>1 DEF Counted, Keyed, Periods
    <2>6. ASSUME NEW q \in Periods, IsPresent(q, flusher.key[q]), Counted(q)'
          PROVE  flusher'.count[q] <= Real(q)
      <3>1. CASE q = p
        BY <2>2, <2>4, <2>6, <3>1 DEF CountsAreReal
      <3>2. CASE q # p
        BY <2>2, <2>5, <2>6, <3>2 DEF CountsAreReal
      <3> QED BY <3>1, <3>2
    <2> QED BY <1>1, <1>4, <2>1, <2>3, <2>5, <2>6 DEF CountsAreReal, IsPresent
  <1> QED BY <1>5, <1>6

LEMMA StatStep ==
  ASSUME StatInv, [StatNext]_statVars
  PROVE  StatInv'
  <1> USE DEF StatInv
  <1>1. StatTypeOK'
    BY StatTypeStep
  <1> SUFFICES NoFuture' /\ CountsAreReal'
    BY <1>1, FlushRestsStep
  <1>2. ASSUME NEW u \in Counters, NEW p \in Periods,
               \/ StartCount(u) \/ Roll(u, p) \/ ResetCount(u, p) \/ AddBlock(u, p) \/ MarkDirty(u)
        PROVE  NoFuture' /\ CountsAreReal'
    BY <1>1, <1>2, CountingStep
  <1>3. ASSUME NEW p \in Periods, ReadKey(p) \/ ReadCount(p) PROVE NoFuture' /\ CountsAreReal'
    BY <1>3, FlushingStep
  <1>4. CASE StartFlush
    <2>1. /\ UNCHANGED <<today, current, count, counter, statFile, recorded>>
          /\ flusher'.key = flusher.key
      BY <1>4 DEF StartFlush, StatTypeOK
    <2>2. flusher'.pc = "key" /\ flusher'.period = "day"
      BY <1>4 DEF StartFlush, StatTypeOK, FlushRests, Unflushed
    <2>3. \A p \in Periods : ~Keyed(p)' /\ ~Counted(p)'
      BY <2>2 DEF Keyed, Counted
    <2>4. NoFuture'
      BY <2>1 DEF NoFuture
    <2>5. ASSUME NEW p \in Periods
          PROVE  /\ Real(p)' = Real(p) /\ (Locked(p)' <=> Locked(p))
                 /\ ~Keyed(p)' /\ ~Counted(p)'
      BY <2>1, <2>3 DEF Real, Locked
    <2> QED BY <2>1, <2>4, <2>5 DEF CountsAreReal, IsPresent
  <1>5. CASE Store
    <2>1. /\ UNCHANGED <<today, current, count, counter, recorded>>
          /\ flusher.pc = "store" /\ flusher' = Unflushed
          /\ statFile' \in {statFile, [key |-> flusher.key, count |-> flusher.count]}
      BY <1>5 DEF Store
    <2>2. \A p \in Periods : Unflushed.key[p] = 0 /\ 0 <= Key(p, today)
      BY Numbers DEF Unflushed, Zero, Calendar
    <2>3. NoFuture'
      BY <2>1, <2>2 DEF NoFuture
    <2>4. \A p \in Periods : ~Keyed(p)' /\ ~Counted(p)' /\ Counted(p)
      BY <2>1 DEF Keyed, Counted, Unflushed
    <2>5. \A p \in Periods : IsPresent(p, statFile'.key[p]) => statFile'.count[p] <= Real(p)
      BY <2>1, <2>4 DEF CountsAreReal
    <2>6. ASSUME NEW p \in Periods
          PROVE  /\ Real(p)' = Real(p) /\ (Locked(p)' <=> Locked(p))
                 /\ ~Keyed(p)' /\ ~Counted(p)'
      BY <2>1, <2>4 DEF Real, Locked
    <2> QED BY <2>1, <2>3, <2>5, <2>6 DEF CountsAreReal, IsPresent
  <1>6. CASE Midnight
    <2>1. /\ UNCHANGED <<current, count, counter, flusher, statFile, recorded>>
          /\ today \in Calendar /\ today' \in Calendar /\ today' = today + 1
      BY <1>6, StatTypeStep DEF Midnight, StatTypeOK
    <2>2. today \in Int /\ today <= today' /\ \A u \in Counters : counter[u].day \in Int
      BY <2>1 DEF StatTypeOK, Calendar
    <2>3. \A p \in Periods :
            Key(p, today) \in Int /\ Key(p, today') \in Int /\ Key(p, today) <= Key(p, today')
      BY <2>1, <2>2, KeyInCalendar, KeyMonotonic DEF Calendar
    <2>4. \A p \in Periods :
            current[p] \in Int /\ flusher.key[p] \in Int /\ statFile.key[p] \in Int
      BY Numbers DEF Calendar
    <2>5. NoFuture'
      BY <2>1, <2>2, <2>3, <2>4 DEF NoFuture
    \* In a new period nothing is about the present; in the same one nothing changes.
    <2>6. ASSUME NEW p \in Periods
          PROVE  /\ IsPresent(p, current[p])' => IsPresent(p, current[p]) /\ Real(p)' = Real(p)
                 /\ IsPresent(p, flusher.key[p])' =>
                      IsPresent(p, flusher.key[p]) /\ Real(p)' = Real(p)
                 /\ IsPresent(p, statFile.key[p])' =>
                      IsPresent(p, statFile.key[p]) /\ Real(p)' = Real(p)
      <3>1. CASE Key(p, today') = Key(p, today)
        BY <2>1, <3>1 DEF IsPresent, Real
      <3>2. CASE Key(p, today') # Key(p, today)
        BY <2>1, <2>3, <2>4, <3>2 DEF IsPresent, NoFuture
      <3> QED BY <3>1, <3>2
    <2>7. ASSUME NEW p \in Periods
          PROVE  (Locked(p)' <=> Locked(p)) /\ (Keyed(p)' <=> Keyed(p)) /\ (Counted(p)' <=> Counted(p))
      BY <2>1 DEF Locked, Keyed, Counted
    <2>8. CountsAreReal'
      <3> SUFFICES ASSUME NEW p \in Periods
          PROVE /\ IsPresent(p, current[p])' /\ ~Locked(p)' => count'[p] <= Real(p)'
                /\ IsPresent(p, flusher.key[p])' =>
                     /\ Keyed(p)' => count'[p] <= Real(p)'
                     /\ Counted(p)' => flusher'.count[p] <= Real(p)'
                /\ IsPresent(p, statFile.key[p])' => statFile'.count[p] <= Real(p)'
        BY DEF CountsAreReal
      <3> QED BY <2>1, <2>6, <2>7 DEF CountsAreReal
    <2> QED BY <2>5, <2>8
  <1>7. CASE SecondPasses \/ UNCHANGED statVars
    <2>1. UNCHANGED <<today, current, count, counter, flusher, statFile, recorded>>
      BY <1>7 DEF SecondPasses, statVars
    <2>2. NoFuture'
      BY <2>1 DEF NoFuture
    <2>3. ASSUME NEW p \in Periods
          PROVE  /\ Real(p)' = Real(p) /\ (Locked(p)' <=> Locked(p))
                 /\ (Keyed(p)' <=> Keyed(p)) /\ (Counted(p)' <=> Counted(p))
      BY <2>1 DEF Real, Locked, Keyed, Counted
    <2> QED BY <2>1, <2>2, <2>3 DEF CountsAreReal, IsPresent
  <1>8. CASE StatRestart
    <2>1. /\ UNCHANGED <<today, statFile, recorded>> /\ today \in Calendar
          /\ current' = KeysOf(today) /\ count' = Loaded(statFile, KeysOf(today))
          /\ flusher' = Unflushed
      BY <1>8 DEF StatRestart, StatTypeOK
    <2>2. \A u \in Counters : counter'[u].day = 0
      BY <1>8 DEF StatRestart, AtRest
    <2>3. \A p \in Periods : Unflushed.key[p] = 0 /\ 0 <= Key(p, today) /\ Key(p, today) \in Int
      BY Numbers DEF Unflushed, Zero, Calendar
    <2>4. \A p \in Periods : current'[p] = Key(p, today)
      BY <2>1, KeysInCalendar
    <2>5. NoFuture'
      BY <2>1, <2>2, <2>3, <2>4 DEF NoFuture, Calendar
    <2>6. \A p \in Periods : ~Keyed(p)' /\ ~Counted(p)'
      BY <2>1 DEF Keyed, Counted, Unflushed
    <2>7. \A p \in Periods : count'[p] <= Real(p)
      BY <2>1, KeysInCalendar, Numbers DEF Loaded, CountsAreReal, IsPresent
    <2>8. ASSUME NEW p \in Periods PROVE Real(p)' = Real(p) /\ ~Keyed(p)' /\ ~Counted(p)'
      BY <2>1, <2>6 DEF Real
    <2> QED BY <2>1, <2>5, <2>7, <2>8 DEF CountsAreReal, IsPresent
  <1>9. Periods # {}
    BY DEF Periods
  <1> QED
    BY <1>2, <1>3, <1>4, <1>5, <1>6, <1>7, <1>8, <1>9 DEF StatNext

\* What a restart would load is never more than what was blocked in the present
\* day and week, however flushes, late threads, midnight and kills are
\* interleaved.
THEOREM RestartLoadsNoMore == StatSpec => []LoadsNoMore
  <1>1. StatInit => StatInv
    <2> SUFFICES ASSUME StatInit PROVE StatInv
      OBVIOUS
    <2>1. StatTypeOK /\ today = 0 /\ today \in Calendar
      BY StatTypeInit, StatsAssumption DEF StatInit, Calendar
    <2>2. \A p \in Periods : Key(p, today) \in Int /\ 0 <= Key(p, today)
      BY <2>1, Numbers DEF Calendar
    <2>3. /\ \A p \in Periods : current[p] = Key(p, today)
          /\ \A p \in Periods : count[p] = 0 /\ flusher.key[p] = 0 /\ statFile.key[p] = -1
          /\ \A u \in Counters : counter[u].day = 0
      BY <2>1, KeysInCalendar DEF StatInit, Zero, Unflushed, NoFile, AtRest
    <2>4. NoFuture
      BY <2>1, <2>2, <2>3 DEF NoFuture
    <2>5. \A p \in Periods : ~Keyed(p) /\ ~Counted(p)
      BY DEF StatInit, Unflushed, Keyed, Counted
    <2>6. CountsAreReal
      BY <2>1, <2>2, <2>3, <2>5, Numbers DEF CountsAreReal, IsPresent
    <2> QED BY <2>1, <2>4, <2>6 DEF StatInv, FlushRests, StatInit
  <1>2. StatInv => LoadsNoMore
    <2> SUFFICES ASSUME StatInv, NEW p \in Periods
                 PROVE  Loaded(statFile, KeysOf(today))[p] <= Real(p)
      BY DEF LoadsNoMore, Real
    <2>1. Real(p) \in Nat /\ KeysOf(today)[p] = Key(p, today)
      BY Numbers, KeysInCalendar DEF StatInv, StatTypeOK
    <2> QED BY <2>1 DEF Loaded, StatInv, CountsAreReal, IsPresent
  <1> QED BY <1>1, <1>2, StatStep, PTL DEF StatSpec

-----------------------------------------------------------------------------
(***************************************************************************)
(* Nothing that was counted is forgotten                                   *)
(***************************************************************************)
\* A thread that has changed key or count of p and is still to mark it.
Pends(u, p) ==
    \/ counter[u].pc = "zero" /\ counter[u].period = p
    \/ counter[u].pc = "mark"
    \/ counter[u].pc = "add" /\ counter[u].period = "week" /\ p = "day"

\* What the flush has read of p, or the file has if there is no flush, is what
\* is counted.
Fits(p) ==
    /\ flusher.pc = "rest" => count[p] = Loaded(statFile, current)[p]
    /\ Keyed(p) \/ Counted(p) => flusher.key[p] = current[p]
    /\ Counted(p) => flusher.count[p] = count[p]

NothingForgotten ==
    ~dirty => \A p \in Periods : (\E u \in Counters : Pends(u, p)) \/ Fits(p)

LEMMA FitsStays ==
  ASSUME NEW p \in Periods, Fits(p), UNCHANGED <<flusher, statFile>>,
         current'[p] = current[p], count'[p] = count[p]
  PROVE  Fits(p)'
  <1>1. Loaded(statFile, current)'[p] = Loaded(statFile, current)[p]
    BY DEF Loaded
  <1>2. (Keyed(p)' <=> Keyed(p)) /\ (Counted(p)' <=> Counted(p))
    BY DEF Keyed, Counted
  <1> QED BY <1>1, <1>2 DEF Fits

LEMMA CountingForgetsNothing ==
  ASSUME StatTypeOK, NothingForgotten, NEW u \in Counters, NEW p \in Periods,
         \/ StartCount(u) \/ Roll(u, p) \/ ResetCount(u, p) \/ AddBlock(u, p) \/ MarkDirty(u)
  PROVE  NothingForgotten'
  <1> SUFFICES ASSUME ~dirty', NEW q \in Periods
               PROVE  (\E v \in Counters : Pends(v, q)') \/ Fits(q)'
    BY DEF NothingForgotten
  <1>1. StartCount(u) \/ Roll(u, p) \/ AddBlock(u, p)
    BY DEF ResetCount, MarkDirty
  <1>2. ~dirty /\ UNCHANGED <<flusher, statFile>>
    BY <1>1 DEF StartCount, Roll, AddBlock
  <1>3. \A v \in Counters \ {u} : counter'[v] = counter[v]
    BY CounterStep
  <1>4. counter[u] \in CounterThreads /\ AfterRoll(u) \in {"add", "rest"}
    BY DEF StatTypeOK, CounterThreads, AfterRoll
  <1>5. AddBlock(u, "week") => counter'[u].pc = "mark"
    BY <1>4 DEF AddBlock, StepTo, StatTypeOK, CounterThreads
  <1>6. AddBlock(u, "day") => counter'[u].pc = "add" /\ counter'[u].period = "week"
    BY <1>4 DEF AddBlock, StepTo, StatTypeOK, CounterThreads
  <1>7. CASE \E v \in Counters : Pends(v, q)
    <2>1. PICK v \in Counters : Pends(v, q)
      BY <1>7
    <2>2. CASE v # u
      BY <1>3, <2>1, <2>2 DEF Pends
    <2>3. CASE v = u
      <3>1. AddBlock(u, "week")
        BY <1>1, <2>1, <2>3 DEF Pends, StartCount, Roll, AddBlock, CountsAt, Periods
      <3> QED BY <1>5, <3>1 DEF Pends
    <2> QED BY <2>2, <2>3
  <1>8. CASE Fits(q)
    <2>1. CASE StartCount(u)
      BY <1>2, <1>8, <2>1, FitsStays DEF StartCount
    <2>2. CASE Roll(u, p) /\ (q # p \/ current[p] = Key(p, counter[u].day))
      <3>1. current'[q] = current[q] /\ count'[q] = count[q]
        BY <2>2 DEF Roll, StatTypeOK, ByPeriod
      <3> QED BY <1>2, <1>8, <3>1, FitsStays
    <2>3. CASE Roll(u, p) /\ q = p /\ current[p] # Key(p, counter[u].day)
      <3>1. counter'[u].pc = "zero" /\ counter'[u].period = p
        BY <2>3, <1>4 DEF Roll, StatTypeOK, CounterThreads
      <3> QED BY <2>3, <3>1 DEF Pends
    <2>4. CASE AddBlock(u, p) /\ (q = p \/ p = "week")
      BY <1>5, <1>6, <2>4 DEF Pends, Periods
    <2>5. CASE AddBlock(u, p) /\ q # p
      <3>1. current'[q] = current[q] /\ count'[q] = count[q]
        BY <2>5 DEF AddBlock, StatTypeOK, ByPeriod
      <3> QED BY <1>2, <1>8, <3>1, FitsStays
    <2> QED BY <1>1, <2>1, <2>2, <2>3, <2>4, <2>5
  <1> QED BY <1>2, <1>7, <1>8 DEF NothingForgotten

LEMMA FlushingForgetsNothing ==
  ASSUME StatTypeOK, FlushRests, NothingForgotten,
         \/ StartFlush \/ Store
         \/ \E p \in Periods : ReadKey(p) \/ ReadCount(p)
  PROVE  NothingForgotten'
  <1>1. CASE StartFlush
    <2>1. flusher'.pc = "key" /\ flusher'.period = "day"
      BY <1>1 DEF StartFlush, FlushRests, Unflushed
    <2>2. \A p \in Periods : Fits(p)'
      BY <2>1 DEF Fits, Keyed, Counted
    <2> QED BY <2>2 DEF NothingForgotten
  <1>2. ASSUME NEW p \in Periods, ReadKey(p) \/ ReadCount(p) PROVE NothingForgotten'
    <2> SUFFICES ASSUME ~dirty', NEW q \in Periods
                 PROVE  (\E v \in Counters : Pends(v, q)') \/ Fits(q)'
      BY DEF NothingForgotten
    <2>1. UNCHANGED <<counter, dirty, current, count>>
      BY <1>2 DEF ReadKey, ReadCount
    <2>2. CASE \E v \in Counters : Pends(v, q)
      BY <2>1, <2>2 DEF Pends
    <2>3. CASE Fits(q)
      <3>1. flusher \in Flushes /\ flusher'.pc # "rest"
        BY <1>2, FlushStep DEF StatTypeOK, Flushes
      <3>2. CASE ReadKey(p)
        <4>1. /\ flusher.pc = "key" /\ flusher.period = p
              /\ flusher'.key = [flusher.key EXCEPT ![p] = current[p]]
              /\ flusher'.period = IF p = "day" THEN "week" ELSE "day"
              /\ flusher'.pc = IF p = "day" THEN "key" ELSE "count"
          BY <3>2, FlushStep DEF ReadKey
        <4>2. flusher'.key[p] = current[p] /\ (q # p => flusher'.key[q] = flusher.key[q])
          BY <3>1, <4>1 DEF Flushes, ByPeriod
        <4>3. ~Counted(q)' /\ (Keyed(q)' => q = p \/ Keyed(q))
          BY <4>1 DEF Keyed, Counted, Periods
        <4> QED BY <2>1, <2>3, <3>1, <4>2, <4>3 DEF Fits
      <3>3. CASE ReadCount(p)
        <4>1. /\ flusher.pc = "count" /\ flusher.period = p
              /\ flusher'.key = flusher.key
              /\ flusher'.count = [flusher.count EXCEPT ![p] = count[p]]
              /\ flusher'.period = IF p = "day" THEN "week" ELSE "day"
              /\ flusher'.pc = IF p = "day" THEN "count" ELSE "store"
          BY <3>3, FlushStep DEF ReadCount
        <4>2. flusher'.count[p] = count[p] /\ (q # p => flusher'.count[q] = flusher.count[q])
          BY <3>1, <4>1 DEF Flushes, ByPeriod
        <4>3. Keyed(q) \/ Counted(q)
          BY <4>1 DEF Keyed, Counted, Periods
        <4>4. Counted(q)' => q = p \/ Counted(q)
          BY <4>1 DEF Keyed, Counted, Periods
        <4> QED BY <2>1, <2>3, <3>1, <4>1, <4>2, <4>3, <4>4 DEF Fits
      <3> QED BY <1>2, <3>2, <3>3
    <2> QED BY <2>1, <2>2, <2>3 DEF NothingForgotten
  <1>3. CASE Store
    <2> SUFFICES ASSUME ~dirty', NEW q \in Periods
                 PROVE  (\E v \in Counters : Pends(v, q)') \/ Fits(q)'
      BY DEF NothingForgotten
    <2>1. /\ statFile' = [key |-> flusher.key, count |-> flusher.count]
          /\ UNCHANGED <<counter, dirty, current, count>>
          /\ flusher' = Unflushed /\ flusher.pc = "store"
      BY <1>3 DEF Store
    <2>2. CASE \E v \in Counters : Pends(v, q)
      BY <2>1, <2>2 DEF Pends
    <2>3. CASE Fits(q)
      <3>1. flusher.key[q] = current[q] /\ flusher.count[q] = count[q]
        BY <2>1, <2>3 DEF Fits, Counted
      <3>2. Loaded(statFile, current)'[q] = count'[q]
        BY <2>1, <3>1 DEF Loaded
      <3>3. ~Keyed(q)' /\ ~Counted(q)'
        BY <2>1 DEF Unflushed, Keyed, Counted
      <3> QED BY <3>2, <3>3 DEF Fits
    <2> QED BY <2>1, <2>2, <2>3 DEF NothingForgotten
  <1> QED BY <1>1, <1>2, <1>3

LEMMA ForgetsNothing ==
  ASSUME StatTypeOK, FlushRests, NothingForgotten, [StatNext]_statVars
  PROVE  NothingForgotten'
  <1>1. ASSUME NEW u \in Counters, NEW p \in Periods,
               \/ StartCount(u) \/ Roll(u, p) \/ ResetCount(u, p) \/ AddBlock(u, p) \/ MarkDirty(u)
        PROVE  NothingForgotten'
    BY <1>1, CountingForgetsNothing
  <1>2. CASE StartFlush \/ Store \/ \E p \in Periods : ReadKey(p) \/ ReadCount(p)
    BY <1>2, FlushingForgetsNothing
  <1>3. CASE Midnight \/ SecondPasses \/ UNCHANGED statVars
    <2>1. UNCHANGED <<counter, dirty, current, count, flusher, statFile>>
      BY <1>3 DEF Midnight, SecondPasses, statVars
    <2>2. ASSUME NEW p \in Periods PROVE Fits(p) => Fits(p)'
      BY <2>1, FitsStays
    <2> QED BY <2>1, <2>2 DEF NothingForgotten, Pends
  <1>4. CASE StatRestart
    <2>1. current' = KeysOf(today) /\ statFile' = statFile /\ flusher' = Unflushed
          /\ count' = Loaded(statFile, KeysOf(today))
      BY <1>4 DEF StatRestart
    <2>2. \A p \in Periods : ~Keyed(p)' /\ ~Counted(p)'
      BY <2>1 DEF Unflushed, Keyed, Counted
    <2>3. \A p \in Periods : count'[p] = Loaded(statFile, current)'[p]
      BY <2>1
    <2> QED BY <2>2, <2>3 DEF NothingForgotten, Fits
  <1>5. Periods # {}
    BY DEF Periods
  <1> QED BY <1>1, <1>2, <1>3, <1>4, <1>5 DEF StatNext

\* A counter that is clean and at rest is the one on disk, whatever was counted
\* or rolled over while a flush ran, and whatever failed.
THEOREM NothingIsForgotten == StatSpec => []CleanIsStored
  <1>1. StatInit => FlushRests /\ NothingForgotten
    <2> SUFFICES ASSUME StatInit, NEW p \in Periods PROVE FlushRests /\ Fits(p)
      BY DEF NothingForgotten, Periods
    <2>1. ~Keyed(p) /\ ~Counted(p)
      BY DEF StatInit, Unflushed, Keyed, Counted
    <2>2. count[p] = 0 /\ Loaded(statFile, current)[p] = 0
      BY DEF StatInit, Zero, Loaded, NoFile
    <2> QED BY <2>1, <2>2 DEF Fits, FlushRests, StatInit
  <1>2. StatTypeOK /\ NothingForgotten => CleanIsStored
    <2> SUFFICES ASSUME StatTypeOK, NothingForgotten, ~dirty, flusher.pc = "rest",
                        \A u \in Counters : CountsAt(u, "rest")
                 PROVE  count = Loaded(statFile, current)
      BY DEF CleanIsStored
    <2>1. \A u \in Counters, p \in Periods : ~Pends(u, p)
      BY DEF Pends, CountsAt
    <2>2. \A p \in Periods : count[p] = Loaded(statFile, current)[p]
      BY <2>1 DEF NothingForgotten, Fits
    <2>3. count \in [Periods -> Nat] /\ Loaded(statFile, current) \in [Periods -> Nat]
      BY LoadedCounts DEF StatTypeOK, ByPeriod
    <2> HIDE DEF Loaded
    <2> QED BY <2>2, <2>3
  <1> QED
    BY <1>1, <1>2, FlushRestsStep, ForgetsNothing, StatsTypeCorrect, PTL DEF StatSpec

-----------------------------------------------------------------------------
\* The guard.  A file that is there and not too long is new to it, judged, passed
\* over, or to be inspected in this tick; and a tick begins and ends with nothing to inspect.
Noticed ==
  /\ \A p \in Paths : \/ place[p] \in Bulky \union {Missing}
                      \/ p \in unseen \union settled \union spared \union changed
  /\ worker \in {"none", "sleep", "scan"} => changed = {}
  /\ ~started => worker = "none"

\* Files that are rewritten or come back are new to it.
LEMMA RestampNotices ==
  ASSUME Noticed, Restamp, UNCHANGED <<changed, worker, started>>
  PROVE  Noticed'
  BY DEF Noticed, Restamp, Restamped

LEMMA FilesNoticed ==
  ASSUME Noticed, SameFiles \/ UNCHANGED <<place, unseen, settled, spared>>,
         UNCHANGED <<changed, started>>,
         \/ worker' = worker
         \/ /\ worker \notin {"none", "sleep", "scan"}
            /\ worker' \notin {"none", "sleep", "scan"}
         \/ started' /\ changed = {}
  PROVE  Noticed'
  BY DEF Noticed, SameFiles, stamps, vaultVars, vaultFiles

LEMMA GuardNotices ==
  ASSUME Noticed, GuardNext
  PROVE  Noticed'
  <1> USE DEF switches, tick, sentinel, lock
  <1>1. ASSUME NEW on \in BOOLEAN, SetEnabled(on) PROVE Noticed'
    <2>1. UNCHANGED place
      BY <1>1 DEF SetEnabled, SameFiles, vaultVars, vaultFiles
    <2> QED BY <1>1, <2>1 DEF SetEnabled, Noticed, SameFiles, stamps
  <1>2. CASE SetOption \/ ForceUnlock \/ Others
    BY <1>2, FilesNoticed DEF SetOption, ForceUnlock, Others
  <1>3. CASE Wake
    BY <1>3, FilesNoticed DEF Wake, Noticed
  <1>4. CASE ScanFolders
    BY <1>4 DEF ScanFolders, Noticed, vaultVars, vaultFiles
  <1>5. CASE CheckCanaries \/ CheckDrives
    BY <1>5, FilesNoticed DEF CheckCanaries, CheckDrives
  <1>6. CASE Sift
    <2>1. UNCHANGED <<place, unseen, settled, started>>
      BY <1>6 DEF Sift, vaultVars, vaultFiles
    <2>2. worker = "sift" /\ started
      BY <1>6 DEF Sift, Noticed
    <2>3. CASE changed' = {} /\ spared' = spared \union (changed \ unseen)
      BY <2>1, <2>2, <2>3 DEF Noticed
    <2>4. ASSUME NEW kept \in SUBSET changed, changed' = kept, worker' = "inspect",
                 spared' = spared \union ((changed \ kept) \ unseen)
          PROVE  Noticed'
      BY <2>1, <2>2, <2>4 DEF Noticed
    <2> QED BY <1>6, <2>3, <2>4 DEF Sift
  <1>7. ASSUME NEW p \in Paths, LeaveFile(p) \/ AnalysisFails(p) \/ InspectFile(p)
        PROVE  Noticed'
    <2>1. /\ worker = "inspect" /\ worker' \in {"inspect", "isolate"} /\ changed' = changed \ {p}
          /\ UNCHANGED <<place, unseen, started>>
      BY <1>7 DEF LeaveFile, AnalysisFails, InspectFile, TakeNext, vaultVars, vaultFiles
    <2>2. /\ settled \subseteq settled' /\ spared \subseteq spared'
          /\ place[p] \in Bulky \union {Missing} \/ p \in unseen \union settled' \union spared'
      BY <1>7 DEF LeaveFile, AnalysisFails, InspectFile
    <2> QED BY <2>1, <2>2 DEF Noticed
  <1>8. CASE Isolate
    <2>1. UNCHANGED <<place, unseen, settled, spared>>
      BY <1>8 DEF Isolate, TakeFile, stamps, vaultVars, vaultFiles
    <2> QED BY <1>8, <2>1, FilesNoticed DEF Isolate
  <1>9. CASE IsolateDone
    BY <1>9, FilesNoticed DEF IsolateDone
  <1>10. CASE TickDone
    <2>1. started
      BY <1>10 DEF TickDone, Noticed
    <2> QED BY <1>10, <2>1, FilesNoticed DEF TickDone, TickEnds
  <1>11. ASSUME NEW u \in Callers, Quarantines(u) PROVE Noticed'
    BY <1>11, RestampNotices DEF Quarantines
  <1>12. CASE OperatorActs
    BY <1>12, RestampNotices DEF OperatorActs
  <1>13. ASSUME NEW c \in Canaries, Tamper(c) PROVE Noticed'
    BY <1>13, FilesNoticed DEF Tamper
  <1>14. ASSUME NEW d \in Drives, PlugDrive(d) PROVE Noticed'
    BY <1>14, FilesNoticed DEF PlugDrive
  <1> QED
    BY <1>1, <1>2, <1>3, <1>4, <1>5, <1>6, <1>7, <1>8, <1>9, <1>10, <1>11, <1>12, <1>13, <1>14,
       GuardAssumption DEF GuardNext, WorkerStep

\* Between two ticks every file that is not too long has been judged as it is,
\* was passed over, or will be looked at, whatever the quarantine, the owner and the operator do to
\* files and switches while a tick runs.
THEOREM NothingIsMissed == GuardSpec => []NothingSlipsBy
  <1>1. GuardInit => Noticed
    BY DEF GuardInit, Noticed
  <1>2. Noticed /\ [GuardNext]_guardVars => Noticed'
    <2>1. Noticed /\ UNCHANGED guardVars => Noticed'
      BY DEF Noticed, guardVars, stamps, vaultVars, vaultFiles, switches, tick
    <2> QED BY <2>1, GuardNotices
  <1>3. Noticed => NothingSlipsBy
    BY DEF Noticed, NothingSlipsBy
  <1> QED BY <1>1, <1>2, <1>3, PTL DEF GuardSpec

\* What is remembered of a canary nobody touched is its hash.
CanariesFit ==
  /\ canary \in [Canaries -> Nat] /\ hash \in [Canaries -> Int]
  /\ \A c \in Canaries \ (touched \union planted) : hash[c] \in {Unknown, canary[c]}
  /\ tampered \subseteq touched \union planted

LEMMA AlarmSteps ==
  ASSUME CanariesFit, GuardNext
  PROVE  CanariesFit'
  <1> USE DEF switches, tick, sentinel, lock
  <1>1. ASSUME UNCHANGED <<canary, hash, touched, planted>>,
               tampered' = tampered \/ tampered' = {}
        PROVE  CanariesFit'
    BY <1>1 DEF CanariesFit
  <1>2. CASE CheckCanaries
    <2>1. {AppCanary} \union Canaries = Canaries
      BY GuardAssumption
    <2>2. \A c \in Watched : c \in Canaries
      BY <2>1 DEF Watched
    <2>3. /\ touched' \union planted' =
               {c \in touched : ~Plants(c)} \union planted \union {c \in Canaries : Plants(c)}
          /\ touched \union planted \subseteq touched' \union planted'
      BY <1>2, <2>2 DEF CheckCanaries, Plants
    <2>4. \A c \in tampered' : c \in touched \union planted
      BY <1>2, <2>2 DEF CheckCanaries, Differs, CanariesFit
    <2>5. \A c \in Canaries :
            /\ canary'[c] = IF Plants(c) THEN 1 ELSE canary[c]
            /\ hash'[c] = IF Plants(c) THEN RawBytes
                          ELSE IF c \in Watched /\ hash[c] = Unknown THEN canary[c] ELSE hash[c]
      BY <1>2 DEF CheckCanaries
    <2>6. canary' \in [Canaries -> Nat] /\ hash' \in [Canaries -> Int]
      <3>1. \A c \in Canaries : canary'[c] \in Nat /\ hash'[c] \in Int
        BY <2>5 DEF CanariesFit, RawBytes
      <3>2. /\ canary' = [c \in Canaries |-> canary'[c]]
            /\ hash' = [c \in Canaries |-> hash'[c]]
        BY <1>2 DEF CheckCanaries
      <3> QED BY <3>1, <3>2
    <2>7. \A c \in Canaries \ (touched' \union planted') : hash'[c] \in {Unknown, canary'[c]}
      BY <2>3, <2>5 DEF CanariesFit
    <2> QED BY <2>3, <2>4, <2>6, <2>7 DEF CanariesFit
  <1>3. ASSUME NEW c \in Canaries, Tamper(c) PROVE CanariesFit'
    <2>1. PICK v \in {Absent} \union (canary[c] + 1 .. CanaryForms) :
            canary' = [canary EXCEPT ![c] = v]
      BY <1>3 DEF Tamper
    <2>2. v \in Nat
      BY <2>1, GuardAssumption DEF CanariesFit, Absent
    <2>3. touched' = touched \union {c} /\ UNCHANGED <<hash, planted, tampered>>
      BY <1>3 DEF Tamper
    <2> QED BY <2>1, <2>2, <2>3 DEF CanariesFit
  <1>4. ASSUME ~CheckCanaries, \A c \in Canaries : ~Tamper(c) PROVE CanariesFit'
    <2>1. UNCHANGED <<canary, hash, touched, planted>>
          /\ (tampered' = tampered \/ tampered' = {})
      BY <1>4 DEF GuardNext, WorkerStep, SetEnabled, SetOption, ForceUnlock, Others, Wake,
           ScanFolders, CheckDrives, Sift, TickEnds, TakeNext, LeaveFile, AnalysisFails, InspectFile,
           Isolate, IsolateDone, TickDone, Quarantines, OperatorActs, PlugDrive
    <2> QED BY <1>1, <2>1
  <1> QED BY <1>2, <1>3, <1>4

\* No canary is reported that nobody touched and this process did not plant,
\* however canaries, folders and switches come and go.
THEOREM AlarmsAreReal == GuardSpec => []CanaryAlarmIsReal
  <1>1. GuardInit => CanariesFit
    BY DEF GuardInit, CanariesFit, Absent, Unknown
  <1>2. CanariesFit /\ [GuardNext]_guardVars => CanariesFit'
    <2>1. CanariesFit /\ UNCHANGED guardVars => CanariesFit'
      BY DEF CanariesFit, guardVars, sentinel, tick
    <2> QED BY <2>1, AlarmSteps
  <1>3. CanariesFit => CanaryAlarmIsReal
    BY DEF CanariesFit, CanaryAlarmIsReal
  <1> QED BY <1>1, <1>2, <1>3, PTL DEF GuardSpec

-----------------------------------------------------------------------------
(***************************************************************************)
(* The guard is a caller of the vault                                      *)
(***************************************************************************)
\* What GuardTypeOK says of the guard's own variables, in three parts.
SwitchesFit ==
  /\ switches \in BOOLEAN \X BOOLEAN \X BOOLEAN \X BOOLEAN \X BOOLEAN
  /\ lock \in BOOLEAN \X BOOLEAN \X BOOLEAN

WorkFits ==
  /\ worker \in GuardLabels
  /\ unseen \subseteq Paths /\ settled \subseteq Paths /\ spared \subseteq Paths
  /\ changed \subseteq Paths /\ suspect \subseteq Paths

SentinelFits ==
  /\ tampered \subseteq Canaries /\ touched \subseteq Canaries /\ planted \subseteq Canaries
  /\ canary \in [Canaries -> 0 .. CanaryForms]
  /\ hash \in [Canaries -> -1 .. CanaryForms]
  /\ drives \subseteq Drives /\ known \subseteq Drives
  /\ cooling \subseteq Incidents

LEMMA SwitchesStep ==
  ASSUME SwitchesFit, GuardNext
  PROVE  SwitchesFit'
  <1>1. /\ enabled \in BOOLEAN /\ autoQuarantine \in BOOLEAN /\ canaryAutolock \in BOOLEAN
        /\ canaryInFolders \in BOOLEAN /\ started \in BOOLEAN
        /\ lockActive \in BOOLEAN /\ netLock \in BOOLEAN /\ lockFailed \in BOOLEAN
    BY DEF SwitchesFit, switches, lock
  <1>2. CASE \E on \in BOOLEAN : SetEnabled(on)
    BY <1>1, <1>2 DEF SetEnabled, SwitchesFit, switches, lock
  <1>3. CASE SetOption
    BY <1>1, <1>3 DEF SetOption, SwitchesFit, switches, lock
  <1>4. CASE ForceUnlock
    BY <1>1, <1>4 DEF ForceUnlock, LockOutcomes, SwitchesFit, switches, lock
  <1>5. CASE Wake
    <2>1. UNCHANGED <<switches, lockFailed>> /\ lockActive' \in BOOLEAN /\ netLock' \in BOOLEAN
      BY <1>1, <1>5 DEF Wake, LockOutcomes
    <2> QED BY <1>1, <2>1 DEF SwitchesFit, switches, lock
  <1>6. CASE CheckCanaries
    <2>1. UNCHANGED <<switches, lockActive>>
      BY <1>6 DEF CheckCanaries
    <2>2. netLock' \in BOOLEAN
      BY <1>1, <1>6 DEF CheckCanaries, LockOutcomes
    <2>3. lockFailed' \in BOOLEAN
      BY <1>6, Zenon DEF CheckCanaries
    <2> QED BY <1>1, <2>1, <2>2, <2>3 DEF SwitchesFit, switches, lock
  <1>7. CASE Others
    BY <1>1, <1>7 DEF Others, SwitchesFit, switches, lock
  <1>8. CASE UNCHANGED <<switches, lock>>
    BY <1>8 DEF SwitchesFit
  <1>9. \/ \E on \in BOOLEAN : SetEnabled(on)
        \/ SetOption \/ ForceUnlock \/ Wake \/ CheckCanaries \/ Others
        \/ UNCHANGED <<switches, lock>>
    BY DEF GuardNext, WorkerStep, ScanFolders, CheckDrives, Sift, TakeNext, LeaveFile,
           AnalysisFails, InspectFile, Isolate, IsolateDone, TickDone, Quarantines, OperatorActs, Tamper, PlugDrive
  <1> QED BY <1>2, <1>3, <1>4, <1>5, <1>6, <1>7, <1>8, <1>9

LEMMA WorkStep ==
  ASSUME WorkFits, GuardNext
  PROVE  WorkFits'
  <1> USE DEF WorkFits, GuardLabels, tick
  <1>1. CASE ScanFolders
    BY <1>1 DEF ScanFolders
  <1>2. CASE Sift
    <2>1. UNCHANGED <<unseen, settled, suspect>>
      BY <1>2 DEF Sift
    <2>2. CASE /\ changed' = {} /\ spared' = spared \union (changed \ unseen)
               /\ worker' = "sleep"
      BY <2>1, <2>2
    <2>3. ASSUME NEW kept \in SUBSET changed, changed' = kept, worker' = "inspect",
                 spared' = spared \union ((changed \ kept) \ unseen)
          PROVE  WorkFits'
      BY <2>1, <2>3
    <2> QED BY <1>2, <2>2, <2>3 DEF Sift, TickEnds
  <1>3. ASSUME NEW p \in Paths, LeaveFile(p) \/ AnalysisFails(p) \/ InspectFile(p)
        PROVE  WorkFits'
    BY <1>3 DEF LeaveFile, AnalysisFails, InspectFile, TakeNext
  <1>4. CASE Restamp /\ UNCHANGED tick
    BY <1>4 DEF Restamp, Restamped
  <1>5. CASE /\ UNCHANGED <<unseen, settled, spared, changed>>
             /\ suspect' \in {suspect, {}} /\ worker' \in GuardLabels
    BY <1>5
  <1>6. \/ ScanFolders \/ Sift
        \/ \E p \in Paths : LeaveFile(p) \/ AnalysisFails(p) \/ InspectFile(p)
        \/ Restamp /\ UNCHANGED tick
        \/ /\ UNCHANGED <<unseen, settled, spared, changed>>
           /\ suspect' \in {suspect, {}} /\ worker' \in GuardLabels
    BY DEF GuardNext, WorkerStep, SetEnabled, SetOption, ForceUnlock, Others, Wake,
           CheckCanaries, CheckDrives, Isolate, IsolateDone, TickDone, TickEnds, Quarantines,
           OperatorActs, Tamper, PlugDrive, SameFiles, stamps
  <1> QED BY <1>1, <1>2, <1>3, <1>4, <1>5, <1>6

LEMMA SentinelStep ==
  ASSUME SentinelFits, GuardNext
  PROVE  SentinelFits'
  <1> USE DEF SentinelFits, sentinel
  <1>1. CASE CheckCanaries
    <2>1. Watched \subseteq Canaries
      BY GuardAssumption DEF Watched
    <2>2. tampered' \subseteq Canaries /\ touched' \subseteq Canaries /\ planted' \subseteq Canaries
      BY <1>1, <2>1 DEF CheckCanaries
    <2>3. /\ canary' = [c \in Canaries |-> IF Plants(c) THEN 1 ELSE canary[c]]
          /\ hash' = [c \in Canaries |->
                        IF Plants(c) THEN RawBytes
                        ELSE IF c \in Watched /\ hash[c] = Unknown THEN canary[c] ELSE hash[c]]
      BY <1>1 DEF CheckCanaries
    <2>4. 1 \in 0 .. CanaryForms /\ RawBytes \in -1 .. CanaryForms
          /\ 0 .. CanaryForms \subseteq -1 .. CanaryForms
      BY GuardAssumption DEF RawBytes
    <2>5. canary' \in [Canaries -> 0 .. CanaryForms] /\ hash' \in [Canaries -> -1 .. CanaryForms]
      BY <2>3, <2>4
    <2>6. cooling' \subseteq Incidents /\ UNCHANGED <<drives, known>>
      BY <1>1 DEF CheckCanaries, Emit, Incidents
    <2> QED BY <2>2, <2>5, <2>6
  <1>2. ASSUME NEW c \in Canaries, Tamper(c) PROVE SentinelFits'
    <2>1. PICK v \in {Absent} \union (canary[c] + 1 .. CanaryForms) :
            canary' = [canary EXCEPT ![c] = v]
      BY <1>2 DEF Tamper
    <2>2. v \in 0 .. CanaryForms
      BY <2>1, GuardAssumption DEF Absent
    <2>3. touched' = touched \union {c} /\ UNCHANGED <<hash, drives, known, planted, cooling>>
          /\ UNCHANGED tampered
      BY <1>2 DEF Tamper, tick
    <2> QED BY <2>1, <2>2, <2>3
  <1>3. CASE CheckDrives
    BY <1>3 DEF CheckDrives, Emit, Incidents
  <1>4. ASSUME NEW d \in Drives, PlugDrive(d) PROVE SentinelFits'
    BY <1>4 DEF PlugDrive, tick
  <1>5. CASE /\ UNCHANGED sentinel /\ tampered' \in {tampered, {}}
             /\ cooling' \subseteq cooling \union Incidents
    BY <1>5
  <1>6. ASSUME ~CheckCanaries, ~CheckDrives, \A c \in Canaries : ~Tamper(c),
               \A d \in Drives : ~PlugDrive(d)
        PROVE  /\ UNCHANGED sentinel /\ tampered' \in {tampered, {}}
               /\ cooling' \subseteq cooling \union Incidents
    BY <1>6 DEF GuardNext, WorkerStep, SetEnabled, SetOption, ForceUnlock, Others, Wake,
           ScanFolders, Sift, TickEnds, TakeNext, LeaveFile, AnalysisFails, InspectFile, Isolate,
           IsolateDone, TickDone, Quarantines, OperatorActs, Emit, Incidents, tick
  <1> QED BY <1>1, <1>2, <1>3, <1>4, <1>5, <1>6

GuardFits == SwitchesFit /\ WorkFits /\ SentinelFits

\* Every step of the guard, and of what is around it, is one that the callers of
\* the vault may take, or does not touch the vault.
LEMMA GuardStepIsVaultStep ==
  ASSUME WorkFits, [GuardNext]_guardVars
  PROVE  [VaultNext]_vaultVars
  <1>1. CASE Isolate
    <2>1. \/ \E p \in suspect : TakeFile(Guard, p)
          \/ UNCHANGED vaultVars
      BY <1>1 DEF Isolate
    <2>2. suspect \subseteq Paths /\ Guard \in Callers
      BY GuardAssumption DEF WorkFits
    <2>3. ASSUME NEW p \in suspect, TakeFile(Guard, p) PROVE VaultNext
      BY <2>2, <2>3 DEF VaultNext, VaultRequest
    <2> QED BY <2>1, <2>3
  <1>2. ASSUME NEW u \in Callers, Quarantines(u) PROVE VaultNext
    BY <1>2 DEF Quarantines, VaultNext
  <1>3. CASE OperatorActs
    BY <1>3 DEF OperatorActs, VaultNext
  <1>4. CASE UNCHANGED vaultVars
    BY <1>4
  <1>5. \/ Isolate \/ (\E u \in Callers : Quarantines(u)) \/ OperatorActs \/ UNCHANGED vaultVars
    BY GuardAssumption
    DEF GuardNext, WorkerStep, SetEnabled, SetOption, ForceUnlock, Others, Wake, ScanFolders,
        CheckCanaries, CheckDrives, Sift, TakeNext, LeaveFile, AnalysisFails, InspectFile, IsolateDone, TickDone, Tamper, PlugDrive,
        SameFiles, guardVars
  <1> QED BY <1>1, <1>2, <1>3, <1>4, <1>5

LEMMA GuardFitsStep ==
  ASSUME GuardFits, [GuardNext]_guardVars
  PROVE  GuardFits'
  <1>1. CASE GuardNext
    BY <1>1, SwitchesStep, WorkStep, SentinelStep DEF GuardFits
  <1>2. CASE UNCHANGED guardVars
    BY <1>2 DEF GuardFits, SwitchesFit, WorkFits, SentinelFits, guardVars, stamps, tick, sentinel
  <1> QED BY <1>1, <1>2

LEMMA GuardFitsInit == GuardInit => GuardFits
  <1> SUFFICES ASSUME GuardInit PROVE GuardFits
    OBVIOUS
  <1>1. SwitchesFit
    BY DEF GuardInit, SwitchesFit, switches, lock, InitialSwitch
  <1>2. WorkFits
    BY DEF GuardInit, WorkFits, GuardLabels
  <1>3. SentinelFits
    BY GuardAssumption DEF GuardInit, SentinelFits, Absent, Unknown
  <1> QED BY <1>1, <1>2, <1>3 DEF GuardFits

\* The guard is one of the callers of the quarantine, with the operator and the
\* owner of the files: whatever they do together is a behaviour of the vault, so
\* that what is proved of the vault holds beside the guard.
THEOREM GuardUsesVault == GuardSpec => VaultSpec
  <1>1. GuardInit => VaultInit
    BY DEF GuardInit
  <1>2. GuardFits /\ [GuardNext]_guardVars => [VaultNext]_vaultVars
    BY GuardStepIsVaultStep DEF GuardFits
  <1> QED BY <1>1, <1>2, GuardFitsInit, GuardFitsStep, PTL DEF GuardSpec, VaultSpec

\* Every variable of the guard and of the vault beside it keeps its type.
THEOREM GuardTypeCorrect == GuardSpec => []GuardTypeOK
  <1>1. VaultTypeOK /\ GuardFits => GuardTypeOK
    BY DEF GuardTypeOK, GuardFits, SwitchesFit, WorkFits, SentinelFits
  <1> QED
    BY <1>1, GuardFitsInit, GuardFitsStep, GuardUsesVault, VaultTypeCorrect, PTL DEF GuardSpec

\* What the guard isolates, it isolates as the operator does: the original is
\* destroyed only once the vault holds it, and at rest the index lists the vault.
THEOREM GuardIsolatesSafely == GuardSpec => [](SealedBeforeShred /\ IndexIsVault)
  BY GuardUsesVault, OriginalsAreSealed, IndexListsVault, PTL

-----------------------------------------------------------------------------
(***************************************************************************)
(* A tick of the guard ends                                                *)
(***************************************************************************)
\* Steps until the worker sleeps again, at most: those of a tick, and for each
\* file it has still to inspect nine, with the six of a call of the quarantine.
GuardCall == CallSteps[hand[Guard].pc]
TickSteps ==
  CASE worker = "scan"      -> 9 * Cardinality(Paths) + 5
    [] worker = "canaries"  -> 9 * Cardinality(changed) + 4
    [] worker = "drives"    -> 9 * Cardinality(changed) + 3
    [] worker = "sift"      -> 9 * Cardinality(changed) + 2
    [] worker = "inspect"   -> 9 * Cardinality(changed) + 1
    [] worker = "isolate"   -> 9 * Cardinality(changed) + 9
    [] worker = "isolating" -> 9 * Cardinality(changed) + 2 + GuardCall
    [] OTHER                -> 0

\* A step of the worker begins a tick or brings it nearer to its end; nothing
\* around the guard sets it back.
TickAdvances ==
  /\ WorkerStep => \/ worker = "sleep" /\ worker' = "scan"
                   \/ TickSteps' < TickSteps
  /\ ~WorkerStep => TickSteps' = TickSteps

\* The worker has a call of the quarantine on its hands only while it isolates.
CallFitsTick == Busy(Guard) => worker = "isolating"

LEMMA CallIsShort == \A label \in VaultLabels : CallSteps[label] \in 0 .. 6
  BY DEF CallSteps, VaultLabels

LEMMA ChangedCounts ==
  ASSUME WorkFits, VaultTypeOK, IsFiniteSet(Paths)
  PROVE  /\ IsFiniteSet(changed) /\ Cardinality(changed) \in Nat /\ Cardinality(Paths) \in Nat
         /\ Cardinality(changed) <= Cardinality(Paths) /\ GuardCall \in 0 .. 6
  <1>1. changed \subseteq Paths
    BY DEF WorkFits
  <1>2. hand[Guard].pc \in VaultLabels
    BY GuardAssumption DEF VaultTypeOK, Hands
  <1>3. GuardCall \in 0 .. 6
    BY <1>2, CallIsShort DEF GuardCall
  <1> QED BY <1>1, <1>3, FS_Subset, FS_CardinalityType

\* What the worker does with fewer files to inspect.
LEMMA FewerFiles ==
  ASSUME WorkFits, WorkFits', VaultTypeOK, VaultTypeOK', IsFiniteSet(Paths),
         changed' \subseteq changed,
         \/ worker = "canaries" /\ worker' = "drives"
         \/ worker = "drives" /\ worker' = "sift"
         \/ worker = "sift" /\ worker' = "inspect"
         \/ worker \in {"sift", "inspect"} /\ worker' = "sleep"
         \/ worker = "isolating" /\ worker' = "inspect"
         \/ worker = "isolate" /\ worker' = "isolating"
  PROVE  TickSteps' < TickSteps
  <1> DEFINE c == Cardinality(changed)
             d == Cardinality(changed)'
             r == GuardCall
             q == GuardCall'
  <1>1. c \in Nat /\ d \in Nat /\ d <= c /\ r \in 0 .. 6
    BY ChangedCounts, FS_Subset, FS_CardinalityType
  <1>3. q \in 0 .. 6
    BY CallIsShort, GuardAssumption DEF VaultTypeOK, Hands, GuardCall
  <1>2. \/ TickSteps = 9 * c + 4 /\ TickSteps' = 9 * d + 3
        \/ TickSteps = 9 * c + 3 /\ TickSteps' = 9 * d + 2
        \/ TickSteps = 9 * c + 2 /\ TickSteps' = 9 * d + 1
        \/ TickSteps \in {9 * c + 2, 9 * c + 1} /\ TickSteps' = 0
        \/ TickSteps = 9 * c + 2 + r /\ TickSteps' = 9 * d + 1
        \/ TickSteps = 9 * c + 9 /\ TickSteps' = 9 * d + 2 + q
    BY DEF TickSteps
  <1> HIDE DEF c, d, r, q
  <1> QED BY <1>1, <1>3, <1>2

LEMMA WorkerAdvances ==
  ASSUME WorkFits, WorkFits', VaultTypeOK, VaultTypeOK', BusyHasEntry, CallFitsTick,
         IsFiniteSet(Paths), WorkerStep
  PROVE  \/ worker = "sleep" /\ worker' = "scan"
         \/ TickSteps' < TickSteps
  <1> USE DEF tick
  <1>1. CASE Wake
    BY <1>1 DEF Wake
  <1>2. CASE ScanFolders
    <2>1. worker = "scan" /\ worker' = "canaries"
      BY <1>2 DEF ScanFolders
    <2>2. TickSteps = 9 * Cardinality(Paths) + 5 /\ TickSteps' = 9 * Cardinality(changed)' + 4
      BY <2>1 DEF TickSteps
    <2>3. /\ Cardinality(Paths) \in Nat /\ Cardinality(changed)' \in Nat
          /\ Cardinality(changed)' <= Cardinality(Paths)
      <3>1. changed' \subseteq Paths
        BY DEF WorkFits
      <3> QED BY <3>1, FS_Subset, FS_CardinalityType
    <2> HIDE DEF WorkFits
    <2> QED BY <2>2, <2>3
  <1>3. CASE CheckCanaries \/ CheckDrives
    BY <1>3, FewerFiles DEF CheckCanaries, CheckDrives
  <1>4. CASE Sift
    <2>1. /\ worker = "sift" /\ worker' \in {"sleep", "inspect"} /\ changed' \subseteq changed
      BY <1>4 DEF Sift, TickEnds
    <2> QED BY <2>1, FewerFiles
  <1>5. ASSUME NEW p \in Paths, LeaveFile(p) \/ AnalysisFails(p) \/ InspectFile(p)
        PROVE  TickSteps' < TickSteps
    <2>1. /\ worker = "inspect" /\ worker' \in {"inspect", "isolate"} /\ p \in changed
          /\ changed' = changed \ {p}
      BY <1>5 DEF LeaveFile, AnalysisFails, InspectFile, TakeNext
    <2> DEFINE c == Cardinality(changed)
               d == Cardinality(changed)'
    <2>2. c \in Nat /\ d \in Nat /\ d = c - 1
      <3>1. IsFiniteSet(changed)
        BY ChangedCounts
      <3>2. IsFiniteSet(changed \ {p}) /\ Cardinality(changed \ {p}) = Cardinality(changed) - 1
        BY <2>1, <3>1, FS_RemoveElement
      <3> QED BY <2>1, <3>1, <3>2, FS_CardinalityType
    <2>3. TickSteps = 9 * c + 1 /\ TickSteps' \in {9 * d + 1, 9 * d + 9}
      BY <2>1 DEF TickSteps
    <2> HIDE DEF c, d
    <2> QED BY <2>2, <2>3
  <1>6. CASE Isolate
    <2>1. worker = "isolate" /\ worker' = "isolating" /\ changed' = changed
      BY <1>6 DEF Isolate
    <2> QED BY <2>1, FewerFiles
  <1>7. CASE Quarantines(Guard)
    <2>1. VaultStep(Guard) /\ worker' = worker /\ changed' = changed
      BY <1>7 DEF Quarantines
    <2>2. Guard \in Callers
      BY GuardAssumption
    <2>3. worker = "isolating"
      BY <2>1, <2>2, StepHands DEF CallFitsTick
    <2> DEFINE c == Cardinality(changed)
               r == GuardCall
               q == GuardCall'
    <2>4. q < r
      <3>1. CallSteps[hand'[Guard].pc] < CallSteps[hand[Guard].pc]
        BY <2>1, <2>2, VaultStepAdvances
      <3> QED BY <3>1 DEF GuardCall
    <2>5. c \in Nat /\ r \in 0 .. 6
      BY ChangedCounts
    <2>7. q \in 0 .. 6
      BY CallIsShort, GuardAssumption DEF VaultTypeOK, Hands, GuardCall
    <2>6. TickSteps = 9 * c + 2 + r /\ TickSteps' = 9 * c + 2 + q
      BY <2>1, <2>3 DEF TickSteps
    <2> HIDE DEF c, r, q
    <2> QED BY <2>4, <2>5, <2>7, <2>6
  <1>8. CASE IsolateDone
    <2>1. worker = "isolating" /\ worker' = "inspect" /\ changed' = changed
      BY <1>8 DEF IsolateDone
    <2> QED BY <2>1, FewerFiles
  <1>9. CASE TickDone
    <2>1. worker = "inspect" /\ worker' = "sleep" /\ changed' = changed
      BY <1>9 DEF TickDone, TickEnds
    <2> QED BY <2>1, FewerFiles
  <1> QED BY <1>1, <1>2, <1>3, <1>4, <1>5, <1>6, <1>7, <1>8, <1>9 DEF WorkerStep

\* What others do leaves the tick and the call of the worker alone.
LEMMA TickLeftAlone ==
  ASSUME VaultTypeOK, BusyHasEntry, Noticed, [GuardNext]_guardVars, ~WorkerStep
  PROVE  /\ changed' = changed /\ hand'[Guard] = hand[Guard]
         /\ worker' = worker \/ (worker = "none" /\ worker' = "sleep")
  <1> USE DEF tick
  <1>0. Guard \in Callers
    BY GuardAssumption
  <1>1. ASSUME NEW on \in BOOLEAN, SetEnabled(on)
        PROVE  /\ changed' = changed /\ hand' = hand
               /\ worker' = worker \/ (worker = "none" /\ worker' = "sleep")
    BY <1>1 DEF SetEnabled, SameFiles, vaultVars, Noticed
  <1>2. CASE SetOption \/ ForceUnlock \/ Others
    BY <1>2 DEF SetOption, ForceUnlock, Others, SameFiles, vaultVars
  <1>3. ASSUME NEW w \in Callers \ {Guard}, Quarantines(w)
        PROVE  UNCHANGED tick /\ hand'[Guard] = hand[Guard]
    BY <1>0, <1>3, StepHands DEF Quarantines
  <1>4. CASE OperatorActs
    <2>1. ASSUME NEW w \in Callers \ {Guard}, VaultRequest(w)
          PROVE  hand'[Guard] = hand[Guard]
      <3>1. ASSUME NEW p \in Paths, TakeFile(w, p)
            PROVE  hand'[Guard] = hand[Guard]
        BY <1>0, <3>1, HandTakes
      <3>2. ASSUME NEW i \in Ids, NEW label \in {"unseal", "burn"}, PickEntry(w, i, label)
            PROVE  hand'[Guard] = hand[Guard]
        BY <1>0, <3>2, PickLabels, HandPicks
      <3> QED BY <2>1, <3>1, <3>2 DEF VaultRequest, RestoreEntry, DeleteEntry
    <2>2. ASSUME NEW p \in Used, NEW c \in Contents, OwnerSaves(p, c)
          PROVE  hand'[Guard] = hand[Guard]
      BY <2>2 DEF OwnerSaves
    <2>3. UNCHANGED tick
      BY <1>4 DEF OperatorActs
    <2> QED BY <1>4, <2>1, <2>2, <2>3 DEF OperatorActs
  <1>5. ASSUME NEW c \in Canaries, Tamper(c)
        PROVE  UNCHANGED tick /\ hand' = hand
    BY <1>5 DEF Tamper, SameFiles, vaultVars
  <1>6. ASSUME NEW d \in Drives, PlugDrive(d)
        PROVE  UNCHANGED tick /\ hand' = hand
    BY <1>6 DEF PlugDrive, SameFiles, vaultVars
  <1>7. CASE UNCHANGED guardVars
    BY <1>7 DEF guardVars, vaultVars
  <1> QED BY <1>1, <1>2, <1>3, <1>4, <1>5, <1>6, <1>7 DEF GuardNext

LEMMA CallFitsStep ==
  ASSUME WorkFits, VaultTypeOK, BusyHasEntry, Noticed, CallFitsTick, [GuardNext]_guardVars
  PROVE  CallFitsTick'
  <1> USE DEF CallFitsTick, Busy, tick
  <1>0. Guard \in Callers
    BY GuardAssumption
  <1>1. CASE ~WorkerStep
    BY <1>1, TickLeftAlone
  <1>2. CASE Isolate
    BY <1>2 DEF Isolate
  <1>3. CASE Quarantines(Guard)
    BY <1>0, <1>3, StepHands DEF Quarantines
  <1>4. CASE IsolateDone
    BY <1>4 DEF IsolateDone, SameFiles, vaultVars
  <1>5. CASE WorkerStep /\ ~Isolate /\ ~Quarantines(Guard) /\ ~IsolateDone
    <2>1. hand' = hand /\ worker # "isolating"
      BY <1>5 DEF WorkerStep, Wake, ScanFolders, CheckCanaries, CheckDrives, Sift, TakeNext,
                  LeaveFile, AnalysisFails, InspectFile, TickDone, SameFiles, vaultVars
    <2> QED BY <2>1
  <1> QED BY <1>1, <1>2, <1>3, <1>4, <1>5

\* A tick of the guard comes to its end, after five steps and nine for each
\* file at most, whatever the owner, the operator and other calls of the
\* quarantine do meanwhile; so the worker comes to its canaries again
\* (TamperLocks; realtime_guard.rs: one pass over what collect_dir_stamps
\* listed, and every call of quarantine_file returns).
THEOREM TicksEnd ==
  ASSUME IsFiniteSet(Paths)
  PROVE  GuardSpec => []CallFitsTick /\ [][TickAdvances]_guardVars
  <1> DEFINE Inv == GuardFits /\ VaultTypeOK /\ BusyHasEntry /\ Noticed /\ CallFitsTick
  <1>1. GuardInit => Inv
    <2> SUFFICES ASSUME GuardInit PROVE Inv
      OBVIOUS
    <2>1. VaultInit /\ hand = [u \in Callers |-> Resting]
      BY DEF GuardInit, VaultInit
    <2>2. CallFitsTick
      BY <2>1, GuardAssumption DEF CallFitsTick, Busy, Resting
    <2>3. Noticed
      BY DEF GuardInit, Noticed
    <2> QED BY <2>1, <2>2, <2>3, GuardFitsInit, VaultTypeInit
  <1>2. ASSUME Inv, [GuardNext]_guardVars
        PROVE  Inv' /\ TickAdvances
    <2>1. GuardFits' /\ VaultTypeOK' /\ BusyHasEntry'
      BY <1>2, GuardFitsStep, GuardStepIsVaultStep, VaultTypeStep DEF GuardFits
    <2>2. Noticed'
      <3>1. Noticed /\ UNCHANGED guardVars => Noticed'
        BY DEF Noticed, guardVars, stamps, vaultVars, vaultFiles, switches, tick
      <3> QED BY <1>2, <3>1, GuardNotices
    <2>3. CallFitsTick'
      BY <1>2, CallFitsStep DEF GuardFits
    <2>4. WorkerStep => \/ worker = "sleep" /\ worker' = "scan"
                        \/ TickSteps' < TickSteps
      BY <1>2, <2>1, WorkerAdvances DEF GuardFits
    <2>5. ~WorkerStep => TickSteps' = TickSteps
      BY <1>2, TickLeftAlone DEF TickSteps, GuardCall
    <2> QED BY <2>1, <2>2, <2>3, <2>4, <2>5 DEF TickAdvances
  <1>3. Inv /\ [GuardNext]_guardVars => Inv' /\ [TickAdvances]_guardVars
    BY <1>2
  <1>4. Inv => CallFitsTick
    OBVIOUS
  <1> HIDE DEF Inv
  <1> QED BY <1>1, <1>3, <1>4, PTL DEF GuardSpec

-----------------------------------------------------------------------------
\* The configuration.
\* The lock is held for a save of the configuration in memory.
LocksFit ==
  \A t \in SettingThreads : work[t].locked => t \in Writing /\ work[t].save = settings

\* The save of t is the only one on, of what is in memory, and its file is in
\* its place.
InOrder(t) ==
  /\ Writing = {t} /\ work[t].save = settings
  /\ Doing(t, "write") => work[t].at = "part"
  /\ Doing(t, "rename") => part = settings

Untouched(t) == work[t].locked /\ work[t].alone

SavesFit ==
  \A t \in Writing :
    /\ ~adrift \/ Untouched(t) => InOrder(t)
    /\ ~mixed => Writing = {t} /\ (Doing(t, "write") => work[t].at = "part")
                               /\ (Doing(t, "rename") => part # Cut)

TomlFits ==
  /\ toml = Cut => mixed
  /\ toml = Lacking => adrift
  /\ ~adrift /\ Writing = {} => toml = settings

\* A backup stays what it was while it is being imported.
Importing == LET w == work["window"] IN
  w.pc \in SaveSteps \union {"import"} /\ (w.pc = "import" \/ w.next = "import")
ImportFits == Importing => bundle \in Bundles

StoreInv == StoreTypeOK /\ LocksFit /\ SavesFit /\ TomlFits /\ ImportFits

LEMMA NoConfigs ==
  /\ Cut \notin Configs /\ Lacking \notin Configs /\ Cut # Lacking
  /\ Cut \notin Bundles /\ Lacking \notin Bundles
  <1>1. DOMAIN Cut = {"cut"} /\ DOMAIN Lacking = {"cut"} /\ Cut.cut /\ ~Lacking.cut
    BY DEF Cut, Lacking
  <1>2. \A c \in Configs : "place" \in DOMAIN c
    BY DEF Configs
  <1>3. \A b \in Bundles : "config" \in DOMAIN b
    BY DEF Bundles
  <1> QED BY <1>1, <1>2, <1>3

LEMMA DefaultsFit == Defaults \in Configs /\ Enforced(Defaults) \in Actings
  <1>1. (CHOOSE p \in Places : TRUE) \in Places
    BY StoreAssumption
  <1> QED BY <1>1 DEF Defaults, Configs, Enforced, Actings

LEMMA NoWorkFits ==
  NoWork \in Works /\ NoWork.pc = "rest" /\ ~NoWork.locked /\ NoWork.next = "rest"
  BY DefaultsFit DEF NoWork, Works, SaveSteps, Elsewhere, AfterSaves

LEMMA SaveFits ==
  ASSUME StoreTypeOK, NEW t \in SettingThreads, NEW c \in Configs,
         NEW locked \in BOOLEAN, NEW after \in AfterSaves
  PROVE  LET w == Saves(t, c, locked, after) IN
           /\ w \in Works /\ w.pc = "open" /\ w.save = c /\ w.locked = locked
           /\ w.alone = (Writing = {}) /\ w.next = after
  BY DefaultsFit DEF Saves, NoWork, Works, SaveSteps, Elsewhere, AfterSaves

\* A save begins.
LEMMA BeginKeeps ==
  ASSUME StoreInv, NEW t \in SettingThreads, NEW c \in Configs,
         NEW locked \in BOOLEAN, NEW after \in AfterSaves,
         t \notin Writing, Begin(t, c, locked, after),
         after = "import" => bundle \in Bundles,
         acting' \in Actings, changes' \in Nat, imported' \in BOOLEAN,
         UNCHANGED <<tomlFiles, bundle>>
  PROVE  StoreInv'
  <1> DEFINE w == Saves(t, c, locked, after)
  <1>1. /\ w \in Works /\ w.pc = "open" /\ w.save = c /\ w.locked = locked
        /\ w.alone = (Writing = {}) /\ w.next = after
    BY SaveFits DEF StoreInv
  <1> HIDE DEF w
  <1>2. /\ work' \in [SettingThreads -> Works] /\ work'[t] = w
        /\ \A u \in SettingThreads \ {t} : work'[u] = work[u]
    BY <1>1 DEF Begin, StoreInv, StoreTypeOK, w
  <1>3. StoreTypeOK'
    BY <1>2 DEF StoreInv, StoreTypeOK, Begin, tomlFiles
  <1>4. Writing' = Writing \union {t}
    BY <1>1, <1>2 DEF Writing, SaveSteps
  <1>5. LocksFit'
    BY <1>1, <1>2, <1>4 DEF LocksFit, Begin, ConfigLocked
  <1>6. SavesFit'
    <2>1. CASE Writing = {}
      BY <1>1, <1>2, <1>4, <2>1 DEF SavesFit, InOrder, Doing, Begin
    <2>2. CASE Writing # {}
      <3>1. mixed' /\ adrift'
        BY <2>2 DEF Begin
      <3>2. \A u \in SettingThreads : ~Untouched(u)'
        BY <1>1, <1>2, <2>2 DEF Untouched, Begin, ConfigLocked
      <3> QED BY <3>1, <3>2 DEF SavesFit, Writing
    <2> QED BY <2>1, <2>2
  <1>7. TomlFits'
    BY <1>4 DEF StoreInv, TomlFits, Begin, tomlFiles
  <1>8. ImportFits'
    BY <1>1, <1>2 DEF StoreInv, ImportFits, Importing, SettingThreads
  <1> QED BY <1>3, <1>5, <1>6, <1>7, <1>8 DEF StoreInv

\* The window does something else.
LEMMA ElsewhereKeeps ==
  ASSUME StoreInv, NEW w \in Works, w.pc \notin SaveSteps \union {"import"}, ~w.locked,
         "window" \notin Writing, work' = [work EXCEPT !["window"] = w],
         acting' \in Actings, bundle' \in Bundles \union {Cut, Lacking}, changes' \in Nat,
         UNCHANGED <<settings, tomlFiles, mixed, adrift, imported>>
  PROVE  StoreInv'
  <1>1. /\ work' \in [SettingThreads -> Works] /\ work'["window"] = w
        /\ \A u \in SettingThreads \ {"window"} : work'[u] = work[u]
    BY DEF StoreInv, StoreTypeOK, SettingThreads
  <1>2. StoreTypeOK'
    BY <1>1 DEF StoreInv, StoreTypeOK, tomlFiles
  <1>3. Writing' = Writing
    BY <1>1 DEF Writing
  <1>4. \A u \in Writing : work'[u] = work[u] /\ u \in SettingThreads
    BY <1>1 DEF Writing
  <1>5. LocksFit'
    BY <1>1, <1>3, <1>4 DEF StoreInv, LocksFit
  <1>6. SavesFit' /\ TomlFits'
    BY <1>3, <1>4 DEF StoreInv, SavesFit, TomlFits, InOrder, Untouched, Doing, tomlFiles
  <1>7. ImportFits'
    BY <1>1 DEF ImportFits, Importing
  <1> QED BY <1>2, <1>5, <1>6, <1>7 DEF StoreInv

LEMMA OpenKeeps ==
  ASSUME StoreInv, NEW t \in SettingThreads, OpenPart(t)
  PROVE  StoreInv'
  <1> DEFINE w == [work[t] EXCEPT !.pc = "write", !.at = "part"]
  <1>1. /\ work[t] \in Works /\ work' = [work EXCEPT ![t] = w]
        /\ w \in Works /\ w.pc = "write" /\ w.at = "part"
        /\ w.save = work[t].save /\ w.locked = work[t].locked /\ w.alone = work[t].alone
        /\ w.next = work[t].next
    BY DEF OpenPart, StoreInv, StoreTypeOK, Works, SaveSteps
  <1> HIDE DEF w
  <1>2. /\ work' \in [SettingThreads -> Works] /\ work'[t] = w
        /\ \A u \in SettingThreads \ {t} : work'[u] = work[u]
    BY <1>1 DEF StoreInv, StoreTypeOK
  <1>3. StoreTypeOK'
    BY <1>2 DEF StoreInv, StoreTypeOK, OpenPart
  <1>4. t \in Writing /\ Writing' = Writing
    BY <1>1, <1>2 DEF OpenPart, Writing, SaveSteps, Doing
  <1>5. LocksFit'
    BY <1>1, <1>2, <1>4 DEF StoreInv, LocksFit, OpenPart
  <1>6. SavesFit'
    BY <1>1, <1>2, <1>4 DEF StoreInv, SavesFit, InOrder, Untouched, Doing, OpenPart, Writing
  <1>7. TomlFits'
    BY <1>4 DEF StoreInv, TomlFits, OpenPart
  <1>8. ImportFits'
    BY <1>1, <1>2 DEF StoreInv, ImportFits, Importing, OpenPart, Doing, SaveSteps, SettingThreads
  <1> QED BY <1>3, <1>5, <1>6, <1>7, <1>8 DEF StoreInv

\* The save of t is over.
Left(w) == IF w.next = "rest" THEN NoWork
           ELSE [w EXCEPT !.pc = w.next, !.locked = FALSE, !.at = "none"]

LEMMA LeftFits ==
  ASSUME NEW w \in Works
  PROVE  /\ Left(w) \in Works /\ Left(w).pc \notin SaveSteps /\ ~Left(w).locked
         /\ Left(w).pc = "import" => w.next = "import"
         /\ \/ Left(w) = NoWork /\ w.next = "rest"
            \/ Left(w).pc = w.next /\ Left(w).save = w.save
  BY NoWorkFits DEF Left, Works, SaveSteps, AfterSaves, Elsewhere

\* One that failed.
LEMMA FailKeeps ==
  ASSUME StoreInv, NEW t \in Writing, EndSaving(t, FALSE, work),
         UNCHANGED <<settings, tomlFiles, acting, bundle, changes, mixed, imported>>
  PROVE  StoreInv'
  <1>1. t \in SettingThreads /\ work[t] \in Works
    BY DEF Writing, StoreInv, StoreTypeOK
  <1>2. work' = [work EXCEPT ![t] = Left(work[t])] /\ adrift'
    BY DEF EndSaving, Left
  <1>3. /\ work' \in [SettingThreads -> Works] /\ work'[t] = Left(work[t])
        /\ \A u \in SettingThreads \ {t} : work'[u] = work[u]
    BY <1>1, <1>2, LeftFits DEF StoreInv, StoreTypeOK
  <1>4. StoreTypeOK'
    BY <1>2, <1>3 DEF StoreInv, StoreTypeOK, tomlFiles
  <1>5. Writing' = Writing \ {t}
    BY <1>1, <1>3, LeftFits DEF Writing
  <1>6. LocksFit'
    BY <1>1, <1>3, <1>5, LeftFits DEF StoreInv, LocksFit
  <1>7. SavesFit'
    <2> SUFFICES ASSUME NEW u \in Writing'
                 PROVE  ~Untouched(u)' /\ mixed'
      BY <1>2 DEF SavesFit
    <2>1. u \in Writing /\ u # t /\ work'[u] = work[u]
      BY <1>3, <1>5 DEF Writing
    <2> QED BY <2>1 DEF StoreInv, SavesFit, Untouched, InOrder
  <1>8. TomlFits'
    BY <1>2 DEF StoreInv, TomlFits, tomlFiles
  <1>9. ImportFits'
    BY <1>1, <1>3, LeftFits DEF StoreInv, ImportFits, Importing, Writing, SettingThreads
  <1> QED BY <1>4, <1>6, <1>7, <1>8, <1>9 DEF StoreInv

LEMMA WriteKeeps ==
  ASSUME StoreInv, NEW t \in SettingThreads, WritePart(t)
  PROVE  StoreInv'
  <1>1. t \in Writing
    BY DEF WritePart, Doing, Writing, SaveSteps
  <1>2. CASE EndSaving(t, FALSE, work) /\ UNCHANGED tomlFiles
    BY <1>1, <1>2, FailKeeps DEF WritePart
  <1>3. ASSUME part' = IF work[t].at = "part" THEN work[t].save ELSE part,
               toml' = IF work[t].at = "toml" THEN work[t].save ELSE toml,
               work' = [work EXCEPT ![t].pc = "rename", ![t].at = "none"],
               adrift' = adrift
        PROVE  StoreInv'
    <2> DEFINE w == [work[t] EXCEPT !.pc = "rename", !.at = "none"]
    <2>1. /\ work[t] \in Works /\ work' = [work EXCEPT ![t] = w]
          /\ w \in Works /\ w.pc = "rename" /\ w.save = work[t].save
          /\ w.locked = work[t].locked /\ w.alone = work[t].alone
          /\ w.next = work[t].next
      BY <1>3 DEF StoreInv, StoreTypeOK, Works, SaveSteps
    <2> HIDE DEF w
    <2>2. /\ work' \in [SettingThreads -> Works] /\ work'[t] = w
          /\ \A u \in SettingThreads \ {t} : work'[u] = work[u]
      BY <2>1 DEF StoreInv, StoreTypeOK
    <2>3. work[t].save \in Configs /\ work[t].save # Cut /\ work[t].save # Lacking
      BY <2>1, NoConfigs DEF Works
    <2>4. StoreTypeOK'
      BY <1>3, <2>2, <2>3 DEF StoreInv, StoreTypeOK, WritePart
    <2>5. Writing' = Writing
      BY <1>1, <2>1, <2>2 DEF Writing, SaveSteps
    <2>6. LocksFit'
      BY <2>1, <2>2, <2>5 DEF StoreInv, LocksFit, WritePart
    <2>7. SavesFit'
      BY <1>1, <1>3, <2>1, <2>2, <2>3, <2>5
      DEF StoreInv, SavesFit, InOrder, Untouched, Doing, WritePart, Writing
    <2>8. TomlFits'
      BY <1>1, <1>3, <2>3, <2>5 DEF StoreInv, TomlFits, WritePart
    <2>9. ImportFits'
      BY <2>1, <2>2 DEF StoreInv, ImportFits, Importing, WritePart, Doing, SaveSteps
    <2> QED BY <2>4, <2>6, <2>7, <2>8, <2>9 DEF StoreInv
  <1> QED BY <1>2, <1>3 DEF WritePart

LEMMA RenameKeeps ==
  ASSUME StoreInv, NEW t \in SettingThreads, RenamePart(t)
  PROVE  StoreInv'
  <1> DEFINE shift(at) == CASE at = "part" -> "toml" [] at = "toml" -> "replaced" [] OTHER -> at
             moved == [w \in SettingThreads |-> [work[w] EXCEPT !.at = shift(@)]]
  <1>1. t \in Writing
    BY DEF RenamePart, Doing, Writing, SaveSteps
  <1>2. CASE EndSaving(t, FALSE, work) /\ UNCHANGED tomlFiles
    BY <1>1, <1>2, FailKeeps DEF RenamePart
  <1>3. ASSUME part # Lacking, toml' = part, part' = Lacking, EndSaving(t, TRUE, moved)
        PROVE  StoreInv'
    <2>1. \A u \in SettingThreads :
            /\ moved[u] \in Works /\ moved[u].pc = work[u].pc /\ moved[u].save = work[u].save
            /\ moved[u].locked = work[u].locked /\ moved[u].alone = work[u].alone
            /\ moved[u].next = work[u].next
      <3> SUFFICES ASSUME NEW u \in SettingThreads
                   PROVE /\ moved[u] \in Works /\ moved[u].pc = work[u].pc
                         /\ moved[u].save = work[u].save
                         /\ moved[u].locked = work[u].locked /\ moved[u].alone = work[u].alone
                         /\ moved[u].next = work[u].next
        OBVIOUS
      <3>1. work[u] \in Works
        BY DEF StoreInv, StoreTypeOK
      <3>2. shift(work[u].at) \in {"none", "part", "toml", "replaced"}
        BY <3>1 DEF Works
      <3> HIDE DEF shift
      <3>3. moved[u] = [work[u] EXCEPT !.at = shift(work[u].at)]
        BY <3>1 DEF Works
      <3> QED BY <3>1, <3>2, <3>3 DEF Works
    <2>2. /\ work' = [moved EXCEPT ![t] = Left(moved[t])]
          /\ adrift' = (adrift /\ ~Untouched(t))
      BY <1>3 DEF EndSaving, Left, Untouched
    <2>3. moved \in [SettingThreads -> Works]
      BY <2>1
    <2> HIDE DEF moved
    <2>4. /\ work' \in [SettingThreads -> Works] /\ work'[t] = Left(moved[t])
          /\ \A u \in SettingThreads \ {t} : work'[u] = moved[u]
      BY <2>1, <2>2, <2>3, LeftFits
    <2>5. StoreTypeOK'
      BY <1>3, <2>2, <2>4 DEF StoreInv, StoreTypeOK, RenamePart
    <2>6. Writing' = Writing \ {t}
      BY <2>1, <2>4, LeftFits DEF Writing
    <2>7. LocksFit'
      BY <2>1, <2>4, <2>6, LeftFits DEF StoreInv, LocksFit, RenamePart
    <2>8. SavesFit'
      <3> SUFFICES ASSUME NEW u \in Writing'
                   PROVE  adrift' /\ ~Untouched(u)' /\ mixed'
        BY DEF SavesFit
      <3>1. u \in Writing /\ u # t /\ u \in SettingThreads
        BY <2>6 DEF Writing
      <3>2. adrift /\ ~Untouched(u) /\ ~Untouched(t) /\ mixed
        BY <1>1, <3>1 DEF StoreInv, SavesFit, InOrder
      <3>3. Untouched(u)' = Untouched(u)
        BY <2>1, <2>4, <3>1 DEF Untouched
      <3> QED BY <2>2, <3>2, <3>3 DEF RenamePart
    <2>9. TomlFits'
      <3>1. toml' = Cut => mixed'
        BY <1>1, <1>3 DEF StoreInv, SavesFit, RenamePart
      <3>2. ASSUME ~adrift' PROVE toml' = settings'
        BY <1>1, <1>3, <2>2, <3>2 DEF StoreInv, SavesFit, InOrder, RenamePart
      <3> QED BY <1>3, <3>1, <3>2 DEF TomlFits
    <2>10. ImportFits'
      BY <1>1, <2>1, <2>4, LeftFits
      DEF StoreInv, ImportFits, Importing, Writing, RenamePart, SettingThreads
    <2> QED BY <2>5, <2>7, <2>8, <2>9, <2>10 DEF StoreInv
  <1> QED BY <1>2, <1>3 DEF RenamePart

LEMMA RestartKeeps ==
  ASSUME StoreInv, Restart
  PROVE  StoreInv'
  <1> DEFINE first == [NoWork EXCEPT !.pc = "open", !.locked = TRUE, !.alone = TRUE]
  <1>1. /\ settings' \in Configs /\ settings' \in {Defaults, toml}
        /\ acting' \in Actings /\ imported' = FALSE
        /\ UNCHANGED <<part, bundle, changes, mixed>>
    <2>1. toml \notin {Cut, Lacking} => toml \in Configs /\ Enforced(toml) \in Actings
      BY DEF StoreInv, StoreTypeOK, Enforced, Configs, Actings
    <2> QED BY <2>1, DefaultsFit DEF Restart, Load, Start
  <1>2. ASSUME Idling, adrift', toml' = toml \/ (toml = Cut /\ toml' = Lacking)
        PROVE  StoreInv'
    <2>1. work' \in [SettingThreads -> Works] /\ Writing' = {}
      BY <1>2, NoWorkFits DEF Idling, Writing, SaveSteps
    <2>2. StoreTypeOK'
      BY <1>1, <1>2, <2>1 DEF StoreInv, StoreTypeOK
    <2>3. LocksFit'
      BY <1>2, NoWorkFits DEF LocksFit, Idling
    <2>4. ImportFits'
      BY <1>2, NoWorkFits DEF ImportFits, Importing, Idling, SaveSteps, SettingThreads
    <2> QED BY <1>1, <1>2, <2>1, <2>2, <2>3, <2>4, NoConfigs DEF StoreInv, SavesFit, TomlFits
  <1>3. CASE toml \notin {Lacking, Cut} /\ Start(toml) /\ Idling /\ adrift' = FALSE /\ UNCHANGED toml
    <2>1. work' \in [SettingThreads -> Works] /\ Writing' = {}
      BY <1>3, NoWorkFits DEF Idling, Writing, SaveSteps
    <2>2. StoreTypeOK'
      BY <1>1, <1>3, <2>1 DEF StoreInv, StoreTypeOK
    <2>3. LocksFit'
      BY <1>3, NoWorkFits DEF LocksFit, Idling
    <2>4. ImportFits'
      BY <1>3, NoWorkFits DEF ImportFits, Importing, Idling, SaveSteps, SettingThreads
    <2> QED BY <1>1, <1>3, <2>1, <2>2, <2>3, <2>4, NoConfigs
            DEF StoreInv, SavesFit, TomlFits, Start
  <1>4. ASSUME toml = Lacking, Start(Defaults), UNCHANGED <<toml, adrift>>,
               work' = [t \in SettingThreads |-> IF t = "window" THEN first ELSE NoWork]
        PROVE  StoreInv'
    <2>1. first \in Works /\ first.pc = "open" /\ first.save = Defaults /\ first.next = "rest"
      BY DefaultsFit DEF NoWork, Works, SaveSteps, Elsewhere, AfterSaves
    <2> HIDE DEF first
    <2>2. "window" \in SettingThreads
      BY DEF SettingThreads
    <2>3. work' \in [SettingThreads -> Works] /\ Writing' = {"window"}
      BY <1>4, <2>1, <2>2, NoWorkFits DEF Writing, SaveSteps
    <2>4. StoreTypeOK'
      BY <1>1, <1>4, <2>3 DEF StoreInv, StoreTypeOK
    <2>5. LocksFit'
      BY <1>4, <2>1, <2>3, NoWorkFits DEF LocksFit, Start
    <2>6. SavesFit'
      BY <1>4, <2>1, <2>2, <2>3 DEF SavesFit, InOrder, Doing, Start
    <2>7. TomlFits'
      BY <1>1, <1>4, <2>3, NoConfigs DEF StoreInv, TomlFits
    <2>8. ImportFits'
      BY <1>4, <2>1, <2>2 DEF ImportFits, Importing
    <2> QED BY <2>4, <2>5, <2>6, <2>7, <2>8 DEF StoreInv
  <1> QED BY <1>2, <1>3, <1>4 DEF Restart, Load

LEMMA BeginsKeep ==
  ASSUME StoreInv,
         \/ \E on \in BOOLEAN : SetSwitch(on)
         \/ NoteGuard \/ StampUpdate \/ Import
         \/ \E p \in Places : Quit(p) \/ \E t \in Cloners : PersistPlace(t, p)
  PROVE  StoreInv'
  <1> USE DEF StoreInv
  <1>1. {"window", "task"} \union Cloners \subseteq SettingThreads
    BY DEF SettingThreads
  <1>2. \A t \in SettingThreads : work[t].pc \in {"rest", "note"} => t \notin Writing
    BY DEF Writing, SaveSteps
  <1>3. acting \in Actings /\ settings \in Configs /\ changes \in Nat /\ imported \in BOOLEAN
    BY DEF StoreTypeOK
  <1>4. /\ \A on \in BOOLEAN : [settings EXCEPT !.switch = on] \in Configs
        /\ [settings EXCEPT !.guard = acting.guard] \in Configs
        /\ [settings EXCEPT !.date = ~settings.date] \in Configs
        /\ \A p \in Places : [settings EXCEPT !.place = p] \in Configs
        /\ bundle \notin {Cut, Lacking} => bundle \in Bundles /\ bundle.config \in Configs
    BY <1>3 DEF Configs, Actings, Bundles, StoreTypeOK
  <1>5. {"rest", "enforce", "exit", "import"} \subseteq AfterSaves
    BY DEF AfterSaves
  <1>6. OneMore => changes' \in Nat
    BY <1>3 DEF OneMore
  <1> USE DEF Doing
  <1>7. ASSUME NEW on \in BOOLEAN, SetSwitch(on) PROVE StoreInv'
    BY <1>1, <1>2, <1>3, <1>4, <1>5, <1>6, <1>7, BeginKeeps DEF SetSwitch
  <1>8. CASE NoteGuard
    BY <1>1, <1>2, <1>3, <1>4, <1>5, <1>8, BeginKeeps DEF NoteGuard
  <1>9. CASE StampUpdate
    <2>1. Begin("task", [settings EXCEPT !.date = ~settings.date], TRUE, "rest")
      BY <1>9 DEF StampUpdate
    <2> QED BY <1>1, <1>2, <1>3, <1>4, <1>5, <1>6, <1>9, <2>1, BeginKeeps DEF StampUpdate
  <1>10. CASE Import
    BY <1>1, <1>2, <1>3, <1>4, <1>5, <1>6, <1>10, BeginKeeps DEF Import
  <1>11. ASSUME NEW p \in Places, Quit(p) PROVE StoreInv'
    BY <1>1, <1>2, <1>3, <1>4, <1>5, <1>6, <1>11, BeginKeeps DEF Quit
  <1>12. ASSUME NEW p \in Places, NEW t \in Cloners, PersistPlace(t, p) PROVE StoreInv'
    BY <1>1, <1>2, <1>3, <1>4, <1>5, <1>6, <1>12, BeginKeeps DEF PersistPlace
  <1> QED BY <1>7, <1>8, <1>9, <1>10, <1>11, <1>12

LEMMA ElsewhereSteps ==
  ASSUME StoreInv,
         \/ \E on \in BOOLEAN : SetGuard(on)
         \/ \E r \in Rules : ChangeRule(r)
         \/ StartExport \/ FinishExport \/ EnforceSwitch \/ EnforceImport
  PROVE  StoreInv'
  <1> DEFINE h == work["window"]
  <1>1. "window" \in SettingThreads
    BY DEF SettingThreads
  <1>2. h \in Works /\ acting \in Actings /\ settings \in Configs /\ changes \in Nat
        /\ bundle \in Bundles \union {Cut, Lacking}
    BY <1>1 DEF StoreInv, StoreTypeOK
  <1>3. h.pc \in Elsewhere => "window" \notin Writing /\ ~h.locked
    BY <1>1 DEF StoreInv, LocksFit, Writing, SaveSteps, Elsewhere, AfterSaves
  <1>4. OneMore => changes' \in Nat
    BY <1>2 DEF OneMore
  <1>5. \A pc \in {"note", "edit", "bundle"} : \A c \in Configs :
          LET w == [h EXCEPT !.pc = pc, !.save = c] IN
            w \in Works /\ w.pc \notin SaveSteps \union {"import"} /\ w.locked = h.locked
    BY <1>2 DEF Works, SaveSteps, Elsewhere
  <1>6. NoWork \in Works /\ NoWork.pc \notin SaveSteps \union {"import"} /\ ~NoWork.locked
    BY NoWorkFits DEF SaveSteps
  <1>7. ASSUME NEW on \in BOOLEAN, SetGuard(on) PROVE StoreInv'
    <2>1. h.pc \in Elsewhere
      BY <1>7 DEF SetGuard, Doing, Elsewhere, AfterSaves
    <2>2. work' = [work EXCEPT !["window"] = [h EXCEPT !.pc = "note"]]
      BY <1>7 DEF SetGuard
    <2>3. LET w == [h EXCEPT !.pc = "note"] IN
            w \in Works /\ w.pc \notin SaveSteps \union {"import"} /\ ~w.locked
      BY <1>2, <1>3, <2>1 DEF Works, SaveSteps, Elsewhere
    <2>4. acting' \in Actings
      BY <1>2, <1>7 DEF SetGuard, Actings
    <2>5. bundle' = bundle /\ changes' \in Nat
          /\ UNCHANGED <<settings, tomlFiles, mixed, adrift, imported>>
      BY <1>4, <1>7 DEF SetGuard
    <2> QED BY <1>2, <1>3, <2>1, <2>2, <2>3, <2>4, <2>5, ElsewhereKeeps
  <1>8. ASSUME NEW r \in Rules, ChangeRule(r) PROVE StoreInv'
    <2> DEFINE c == [settings EXCEPT !.rules = {r}]
               w == [h EXCEPT !.pc = "edit", !.save = c]
    <2>1. h.pc \in Elsewhere
      BY <1>8 DEF ChangeRule, Doing, Elsewhere, AfterSaves
    <2>2. work' = [work EXCEPT !["window"] = w]
      BY <1>8 DEF ChangeRule
    <2>3. c \in Configs
      BY <1>2 DEF Configs
    <2>4. w \in Works /\ w.pc \notin SaveSteps \union {"import"} /\ ~w.locked
      BY <1>3, <1>5, <2>1, <2>3
    <2>5. acting' \in Actings
      BY <1>2, <1>8 DEF ChangeRule, Actings
    <2>6. bundle' = bundle /\ changes' \in Nat
          /\ UNCHANGED <<settings, tomlFiles, mixed, adrift, imported>>
      BY <1>4, <1>8 DEF ChangeRule
    <2> HIDE DEF w
    <2> QED BY <1>2, <1>3, <2>1, <2>2, <2>4, <2>5, <2>6, ElsewhereKeeps
  <1>9. CASE StartExport
    <2> DEFINE w == [h EXCEPT !.pc = "bundle", !.save = settings]
    <2>1. h.pc \in Elsewhere
      BY <1>9 DEF StartExport, Doing, Elsewhere, AfterSaves
    <2>2. work' = [work EXCEPT !["window"] = w]
      BY <1>9 DEF StartExport
    <2>3. w \in Works /\ w.pc \notin SaveSteps \union {"import"} /\ ~w.locked
      BY <1>2, <1>3, <1>5, <2>1
    <2>4. bundle' = Cut /\ acting' = acting /\ changes' = changes
          /\ UNCHANGED <<settings, tomlFiles, mixed, adrift, imported>>
      BY <1>9 DEF StartExport
    <2> HIDE DEF w
    <2> QED BY <1>2, <1>3, <2>1, <2>2, <2>3, <2>4, ElsewhereKeeps
  <1>10. CASE FinishExport \/ EnforceSwitch \/ EnforceImport
    <2>1. h.pc \in Elsewhere
      BY <1>10 DEF FinishExport, EnforceSwitch, EnforceImport, Doing, Elsewhere, AfterSaves
    <2>2. work' = [work EXCEPT !["window"] = NoWork] /\ changes' = changes
          /\ UNCHANGED <<settings, tomlFiles, mixed, adrift, imported>>
      BY <1>10 DEF FinishExport, EnforceSwitch, EnforceImport
    <2>3. bundle' \in Bundles \union {Cut, Lacking}
      BY <1>2, <1>10 DEF FinishExport, EnforceSwitch, EnforceImport, Bundles, Works, Actings
    <2>4. acting' \in Actings
      BY <1>1, <1>2, <1>10 DEF StoreInv, ImportFits, Importing, Doing, FinishExport,
        EnforceSwitch, EnforceImport, Bundles, Works, Actings, Configs
    <2> QED BY <1>2, <1>3, <1>6, <2>1, <2>2, <2>3, <2>4, ElsewhereKeeps
  <1> QED BY <1>7, <1>8, <1>9, <1>10

LEMMA EditKeeps ==
  ASSUME StoreInv, EditRules
  PROVE  StoreInv'
  <1> DEFINE edited == work["window"].save.rules
  <1>1. "window" \in SettingThreads /\ "rest" \in AfterSaves
    BY DEF SettingThreads, AfterSaves
  <1>2. "window" \notin Writing
    BY DEF EditRules, Doing, Writing, SaveSteps
  <1>3. /\ acting \in Actings /\ settings \in Configs /\ changes \in Nat /\ imported \in BOOLEAN
        /\ edited \in SUBSET Rules /\ bundle \in Bundles \union {Cut, Lacking}
    BY <1>1 DEF StoreInv, StoreTypeOK, Works, Configs
  <1>4. UNCHANGED <<tomlFiles, acting, bundle, changes, imported>>
    BY DEF EditRules
  <1>5. CASE work' = [work EXCEPT !["window"] = NoWork] /\ UNCHANGED <<settings, mixed, adrift>>
    <2>1. NoWork \in Works /\ NoWork.pc \notin SaveSteps \union {"import"} /\ ~NoWork.locked
      BY NoWorkFits DEF SaveSteps
    <2> QED BY <1>2, <1>3, <1>4, <1>5, <2>1, ElsewhereKeeps
  <1>6. ASSUME NEW rules \in SUBSET Rules,
               Begin("window", [settings EXCEPT !.rules = rules], TRUE, "rest")
        PROVE  StoreInv'
    <2>1. [settings EXCEPT !.rules = rules] \in Configs
      BY <1>3 DEF Configs
    <2> QED BY <1>1, <1>2, <1>3, <1>4, <1>6, <2>1, BeginKeeps
  <1>7. settings.rules \union edited \in SUBSET Rules /\ settings.rules \ edited \in SUBSET Rules
    BY <1>3 DEF Configs
  <1> QED BY <1>5, <1>6, <1>7 DEF EditRules

LEMMA StoreStep ==
  ASSUME StoreInv, [StoreNext]_storeVars
  PROVE  StoreInv'
  <1>1. CASE UNCHANGED storeVars
    BY <1>1 DEF storeVars, tomlFiles, StoreInv, StoreTypeOK, LocksFit, SavesFit, TomlFits,
                ImportFits, Importing, InOrder, Untouched, Writing, Doing
  <1>2. CASE \E t \in SettingThreads : OpenPart(t) \/ WritePart(t) \/ RenamePart(t)
    BY <1>2, OpenKeeps, WriteKeeps, RenameKeeps
  <1>3. CASE EditRules \/ Restart
    BY <1>3, EditKeeps, RestartKeeps
  <1> QED BY <1>1, <1>2, <1>3, BeginsKeep, ElsewhereSteps DEF StoreNext

LEMMA StoreStart == StoreInit => StoreInv
  <1> SUFFICES ASSUME StoreInit PROVE StoreInv
    OBVIOUS
  <1>1. work \in [SettingThreads -> Works] /\ Writing = {}
    BY NoWorkFits DEF StoreInit, Writing, SaveSteps
  <1>2. StoreTypeOK
    BY <1>1, DefaultsFit DEF StoreInit, StoreTypeOK
  <1>3. LocksFit
    BY NoWorkFits DEF StoreInit, LocksFit
  <1>4. ImportFits
    BY NoWorkFits DEF StoreInit, ImportFits, Importing, SaveSteps, SettingThreads
  <1> QED BY <1>1, <1>2, <1>3, <1>4, DefaultsFit, NoConfigs
          DEF StoreInit, StoreInv, SavesFit, TomlFits

\* Every field of the configuration, of its files, of the backup and of the
\* threads that save it keeps to its values.
THEOREM StoreTypeCorrect == StoreSpec => []StoreTypeOK
  <1>1. StoreInv => StoreTypeOK
    BY DEF StoreInv
  <1> QED BY <1>1, StoreStart, StoreStep, PTL DEF StoreSpec

\* Whoever changes the configuration, and wherever the disk or a kill
\* interrupts its save, config.toml is whole and, once nothing is being saved,
\* the configuration in memory, unless saves made off the lock have overlapped
\* or one has failed.
THEOREM ChangesAreStored == StoreSpec => []SettingsAreStored
  <1>1. StoreInv => SettingsAreStored
    BY DEF StoreInv, TomlFits, SettingsAreStored
  <1> QED BY <1>1, StoreStart, StoreStep, PTL DEF StoreSpec

\* What is in force while the window is at rest, and how far it lags behind at
\* each step of a callback.
InForce ==
  /\ settings.rules \subseteq acting.rules
  /\ acting = Enforced(settings) \/ imported

WindowAt(label) == LET w == work["window"] IN
  w.pc = label \/ (w.pc \in SaveSteps /\ w.next = label)

\* acting and the configuration agree but for the switches named.
AgreeBut(fields) ==
  /\ settings.rules \subseteq acting.rules
  /\ imported \/ \A f \in {"switch", "guard", "rules"} \ fields : acting[f] = settings[f]

ForceFits == LET w == work["window"] IN
  /\ WindowAt("rest") => InForce
  /\ w.pc = "note" => AgreeBut({"guard"})
  /\ w.pc = "bundle" => InForce /\ w.save.rules \subseteq acting.rules
  /\ WindowAt("enforce") => AgreeBut({"switch"}) /\ settings.switch = w.save.switch
  /\ WindowAt("import") => imported /\ bundle \in Bundles /\ settings.rules = bundle.config.rules
  /\ bundle \in Bundles => bundle.config.rules \subseteq bundle.rules
  /\ w.pc = "edit" =>
       /\ settings.rules \ w.save.rules \subseteq acting.rules
       /\ \/ w.save.rules \subseteq acting.rules
          \/ w.save.rules \intersect acting.rules = {}
       /\ \/ imported
          \/ /\ acting.rules \ w.save.rules = settings.rules \ w.save.rules
             /\ acting.switch = settings.switch /\ acting.guard = settings.guard

\* The window rests, and nothing that counts for it changes.
LEMMA ForceSame ==
  ASSUME StoreInv, ForceFits, work'["window"] = work["window"],
         settings'.switch = settings.switch, settings'.guard = settings.guard,
         settings'.rules = settings.rules, UNCHANGED <<acting, bundle, imported>>
  PROVE  ForceFits'
  BY DEF ForceFits, WindowAt, InForce, AgreeBut, Enforced

\* A save of the window goes on or ends.
LEMMA ForceSaves ==
  ASSUME StoreInv, ForceFits, NEW w \in Works, work'["window"] = w,
         w.save = work["window"].save \/ w = NoWork,
         work["window"].pc \in SaveSteps,
         \/ w.pc \in SaveSteps /\ w.next = work["window"].next
         \/ w.pc = work["window"].next,
         UNCHANGED <<settings, acting, bundle, imported>>
  PROVE  ForceFits'
  <1>1. \A label \in AfterSaves : WindowAt(label)' => WindowAt(label)
    BY DEF WindowAt, Works, SaveSteps, AfterSaves, StoreInv, StoreTypeOK, SettingThreads
  <1>2. w.pc \in SaveSteps \union AfterSaves
    BY DEF Works, StoreInv, StoreTypeOK, SettingThreads
  <1>3. w = NoWork => w.pc = "rest"
    BY DEF NoWork
  <1>4. WindowAt("enforce")' => w.save = work["window"].save
    BY <1>3 DEF WindowAt, NoWork, SaveSteps
  <1> QED BY <1>1, <1>2, <1>4
          DEF ForceFits, InForce, AgreeBut, AfterSaves, SaveSteps

LEMMA OthersForce ==
  ASSUME StoreInv, ForceFits,
         \/ StampUpdate
         \/ \E p \in Places, t \in Cloners : PersistPlace(t, p)
  PROVE  ForceFits'
  <1>1. "window" \in SettingThreads /\ "window" # "task" /\ "window" \notin Cloners
    BY StoreAssumption DEF SettingThreads
  <1>2. settings \in Configs /\ work \in [SettingThreads -> Works]
    BY DEF StoreInv, StoreTypeOK
  <1>3. CASE StampUpdate
    <2>1. settings' = [settings EXCEPT !.date = ~settings.date]
          /\ work'["window"] = work["window"]
      BY <1>1, <1>2, <1>3 DEF StampUpdate, Begin
    <2> QED BY <1>2, <1>3, <2>1, ForceSame DEF StampUpdate, Configs
  <1>4. ASSUME NEW p \in Places, NEW t \in Cloners, PersistPlace(t, p) PROVE ForceFits'
    <2>1. settings' = [settings EXCEPT !.place = p] /\ work'["window"] = work["window"]
      BY <1>1, <1>2, <1>4 DEF PersistPlace, Begin
    <2> QED BY <1>2, <1>4, <2>1, ForceSame DEF PersistPlace, Configs
  <1> QED BY <1>3, <1>4

LEMMA FilesForce ==
  ASSUME StoreInv, ForceFits, NEW t \in SettingThreads,
         OpenPart(t) \/ WritePart(t) \/ RenamePart(t)
  PROVE  ForceFits'
  <1> DEFINE h == work["window"]
             shift(at) == CASE at = "part" -> "toml" [] at = "toml" -> "replaced" [] OTHER -> at
             moved == [w \in SettingThreads |-> [work[w] EXCEPT !.at = shift(@)]]
  <1>1. "window" \in SettingThreads /\ work \in [SettingThreads -> Works] /\ h \in Works
    BY DEF SettingThreads, StoreInv, StoreTypeOK
  <1>2. UNCHANGED <<settings, acting, bundle, imported>> /\ work[t].pc \in SaveSteps
    BY DEF OpenPart, WritePart, RenamePart, Doing, SaveSteps
  <1>3. work' \in [SettingThreads -> Works]
    BY OpenKeeps, WriteKeeps, RenameKeeps DEF StoreInv, StoreTypeOK
  <1>4. /\ moved["window"].pc = h.pc /\ moved["window"].next = h.next
        /\ moved["window"].save = h.save /\ moved["window"] \in Works
    <2>1. shift(h.at) \in {"none", "part", "toml", "replaced"}
      BY <1>1 DEF Works
    <2> HIDE DEF shift
    <2>2. moved["window"] = [h EXCEPT !.at = shift(h.at)]
      BY <1>1 DEF Works
    <2> QED BY <1>1, <2>1, <2>2 DEF Works
  <1>5. \/ work' = [work EXCEPT ![t].pc = "write", ![t].at = "part"]
        \/ work' = [work EXCEPT ![t].pc = "rename", ![t].at = "none"]
        \/ work' = [work EXCEPT ![t] = Left(work[t])]
        \/ work' = [moved EXCEPT ![t] = Left(moved[t])]
    BY DEF OpenPart, WritePart, RenamePart, EndSaving, Left
  <1> HIDE DEF moved
  <1>6. ASSUME NEW w \in {h, moved["window"]}
        PROVE  \/ Left(w) = NoWork /\ h.next = "rest"
               \/ Left(w).pc = h.next /\ Left(w).save = h.save
    BY <1>1, <1>4, LeftFits
  <1>7. CASE t = "window"
    <2>1. \/ work'["window"].pc \in SaveSteps /\ work'["window"].next = h.next
             /\ work'["window"].save = h.save
          \/ work'["window"] = Left(h) \/ work'["window"] = Left(moved["window"])
      <3>1. moved \in [SettingThreads -> {moved[u] : u \in SettingThreads}]
        BY DEF moved
      <3> QED BY <1>1, <1>5, <1>7, <3>1 DEF Works, SaveSteps
    <2>2. h.next \in AfterSaves /\ NoWork.pc = "rest"
      BY <1>1, NoWorkFits DEF Works
    <2>3. \/ work'["window"].pc \in SaveSteps /\ work'["window"].next = h.next
             /\ work'["window"].save = h.save
          \/ work'["window"] = NoWork /\ h.next = "rest"
          \/ work'["window"].pc = h.next /\ work'["window"].save = h.save
      BY <1>4, <1>6, <2>1, <2>2
    <2> QED BY <1>1, <1>2, <1>3, <1>7, <2>2, <2>3, ForceSaves
  <1>8. CASE t # "window"
    <2>1. /\ work'["window"].pc = h.pc /\ work'["window"].next = h.next
          /\ work'["window"].save = h.save
      <3>1. moved \in [SettingThreads -> {moved[u] : u \in SettingThreads}]
        BY DEF moved
      <3> QED BY <1>1, <1>4, <1>5, <1>8, <3>1
    <2> QED BY <1>2, <2>1 DEF ForceFits, WindowAt, InForce, AgreeBut, Enforced
  <1> QED BY <1>7, <1>8

LEMMA WindowForces ==
  ASSUME StoreInv, ForceFits,
         \/ \E on \in BOOLEAN : SetSwitch(on) \/ SetGuard(on)
         \/ NoteGuard \/ \E r \in Rules : ChangeRule(r)
         \/ \E p \in Places : Quit(p)
         \/ StartExport \/ FinishExport \/ Import \/ EnforceSwitch \/ EnforceImport
  PROVE  ForceFits'
  <1> DEFINE h == work["window"]
  <1>1. /\ "window" \in SettingThreads /\ work \in [SettingThreads -> Works] /\ h \in Works
        /\ settings \in Configs /\ acting \in Actings
        /\ bundle \in Bundles \union {Cut, Lacking}
    BY DEF SettingThreads, StoreInv, StoreTypeOK
  <1>2. Doing("window", "rest") => InForce
    BY DEF ForceFits, WindowAt, Doing
  <1>3. bundle \in Bundles => bundle.config.rules \subseteq bundle.rules
    BY DEF ForceFits
  <1>4. \A c \in Configs, locked \in BOOLEAN, after \in AfterSaves :
          Begin("window", c, locked, after) =>
            LET w == work'["window"] IN
              /\ settings' = c /\ w.pc = "open" /\ w.save = c /\ w.next = after
    <2> SUFFICES ASSUME NEW c \in Configs, NEW locked \in BOOLEAN, NEW after \in AfterSaves,
                        Begin("window", c, locked, after)
                 PROVE  LET w == work'["window"] IN
                          settings' = c /\ w.pc = "open" /\ w.save = c /\ w.next = after
      OBVIOUS
    <2>1. settings' = c /\ work'["window"] = Saves("window", c, locked, after)
      BY <1>1 DEF Begin
    <2> QED BY <1>1, <2>1, SaveFits DEF StoreInv
  <1>5. {"rest", "enforce", "exit", "import"} \subseteq AfterSaves
    BY DEF AfterSaves
  <1>6. ASSUME NEW on \in BOOLEAN, SetSwitch(on) PROVE ForceFits'
    <2>1. [settings EXCEPT !.switch = on] \in Configs
      BY <1>1 DEF Configs
    <2>2. /\ settings' = [settings EXCEPT !.switch = on] /\ work'["window"].pc = "open"
          /\ work'["window"].save = settings' /\ work'["window"].next = "enforce"
          /\ acting' = acting /\ bundle' = bundle /\ imported' = imported
      BY <1>4, <1>5, <1>6, <2>1 DEF SetSwitch
    <2>3. InForce
      BY <1>2, <1>6 DEF SetSwitch
    <2>4. AgreeBut({"switch"})'
      BY <1>1, <2>2, <2>3 DEF AgreeBut, InForce, Enforced, Configs
    <2> QED BY <1>3, <2>2, <2>4 DEF ForceFits, WindowAt, SaveSteps
  <1>7. ASSUME NEW on \in BOOLEAN, SetGuard(on) PROVE ForceFits'
    <2>1. /\ settings' = settings /\ acting' = [acting EXCEPT !.guard = on]
          /\ work'["window"].pc = "note" /\ bundle' = bundle /\ imported' = imported
      BY <1>1, <1>7 DEF SetGuard, Works
    <2>2. InForce
      BY <1>2, <1>7 DEF SetGuard
    <2>3. AgreeBut({"guard"})'
      BY <1>1, <2>1, <2>2 DEF AgreeBut, InForce, Enforced, Actings
    <2> QED BY <1>3, <2>1, <2>3 DEF ForceFits, WindowAt, SaveSteps
  <1>8. CASE NoteGuard
    <2>1. [settings EXCEPT !.guard = acting.guard] \in Configs
      BY <1>1 DEF Configs, Actings
    <2>2. /\ settings' = [settings EXCEPT !.guard = acting.guard] /\ work'["window"].pc = "open"
          /\ work'["window"].next = "rest"
          /\ acting' = acting /\ bundle' = bundle /\ imported' = imported
      BY <1>4, <1>5, <1>8, <2>1 DEF NoteGuard
    <2>3. AgreeBut({"guard"})
      BY <1>8 DEF NoteGuard, Doing, ForceFits
    <2>4. InForce'
      <3>1. settings'.rules = settings.rules /\ settings'.guard = acting.guard
            /\ settings'.switch = settings.switch
        BY <1>1, <2>2 DEF Configs
      <3>2. ~imported => acting.switch = settings.switch /\ acting.rules = settings.rules
        BY <2>3 DEF AgreeBut
      <3>3. acting = [switch |-> acting.switch, guard |-> acting.guard, rules |-> acting.rules]
        BY <1>1 DEF Actings
      <3> QED BY <2>2, <2>3, <3>1, <3>2, <3>3 DEF AgreeBut, InForce, Enforced
    <2> QED BY <1>3, <2>2, <2>4 DEF ForceFits, WindowAt, SaveSteps
  <1>9. ASSUME NEW r \in Rules, ChangeRule(r) PROVE ForceFits'
    <2>1. /\ settings' = settings /\ work'["window"].pc = "edit"
          /\ work'["window"].save = [settings EXCEPT !.rules = {r}]
          /\ bundle' = bundle /\ imported' = imported
      BY <1>1, <1>9 DEF ChangeRule, Works
    <2>2. work'["window"].save.rules = {r}
      BY <1>1, <2>1 DEF Configs
    <2>3. InForce
      BY <1>2, <1>9 DEF ChangeRule
    <2>4. /\ acting'.rules = acting.rules \union {r} \/ acting'.rules = acting.rules \ {r}
          /\ acting'.switch = acting.switch /\ acting'.guard = acting.guard
      BY <1>1, <1>9 DEF ChangeRule, Actings
    <2> QED BY <1>3, <2>1, <2>2, <2>3, <2>4 DEF ForceFits, WindowAt, SaveSteps, InForce, Enforced
  <1>10. ASSUME NEW p \in Places, Quit(p) PROVE ForceFits'
    <2>1. [settings EXCEPT !.place = p] \in Configs
      BY <1>1 DEF Configs
    <2>2. /\ work'["window"].pc = "open" /\ work'["window"].next = "exit"
          /\ acting' = acting /\ bundle' = bundle /\ imported' = imported
      BY <1>4, <1>5, <1>10, <2>1 DEF Quit
    <2> QED BY <1>3, <2>2 DEF ForceFits, WindowAt, SaveSteps
  <1>11. CASE StartExport
    <2>1. /\ settings' = settings /\ acting' = acting /\ imported' = imported /\ bundle' = Cut
          /\ work'["window"].pc = "bundle" /\ work'["window"].save = settings
      BY <1>1, <1>11 DEF StartExport, Works
    <2>2. InForce
      BY <1>2, <1>11 DEF StartExport
    <2> QED BY <2>1, <2>2, NoConfigs DEF ForceFits, WindowAt, SaveSteps, InForce, Enforced
  <1>12. CASE FinishExport
    <2>1. /\ settings' = settings /\ acting' = acting /\ imported' = imported
          /\ work'["window"] = NoWork /\ NoWork.pc = "rest" /\ NoWork.next = "rest"
          /\ bundle' = bundle \/ bundle' = [config |-> h.save, rules |-> acting.rules]
      BY <1>1, <1>12 DEF FinishExport, NoWork
    <2>2. InForce /\ h.save.rules \subseteq acting.rules
      BY <1>12 DEF FinishExport, Doing, ForceFits
    <2> QED BY <1>3, <2>1, <2>2 DEF ForceFits, WindowAt, SaveSteps, InForce, Enforced
  <1>13. CASE Import
    <2>1. bundle \in Bundles /\ bundle.config \in Configs
      BY <1>1, <1>13 DEF Import, Bundles
    <2>2. /\ settings' = bundle.config /\ work'["window"].pc = "open"
          /\ work'["window"].next = "import"
          /\ bundle' = bundle /\ imported'
      BY <1>4, <1>5, <1>13, <2>1 DEF Import
    <2> QED BY <1>3, <2>1, <2>2 DEF ForceFits, WindowAt, SaveSteps
  <1>14. CASE EnforceSwitch
    <2>1. /\ settings' = settings /\ imported' = imported /\ bundle' = bundle
          /\ work'["window"] = NoWork /\ NoWork.pc = "rest" /\ NoWork.next = "rest"
          /\ acting' = [acting EXCEPT !.switch = h.save.switch]
      BY <1>1, <1>14 DEF EnforceSwitch, NoWork
    <2>2. AgreeBut({"switch"}) /\ settings.switch = h.save.switch
      BY <1>14 DEF EnforceSwitch, Doing, ForceFits, WindowAt
    <2>3. /\ acting'.switch = settings.switch /\ acting'.guard = acting.guard
          /\ acting'.rules = acting.rules
          /\ acting' = [switch |-> acting'.switch, guard |-> acting'.guard, rules |-> acting'.rules]
      BY <1>1, <2>1, <2>2 DEF Actings
    <2>4. ~imported => acting.guard = settings.guard /\ acting.rules = settings.rules
      BY <2>2 DEF AgreeBut
    <2>5. InForce'
      BY <2>1, <2>2, <2>3, <2>4 DEF AgreeBut, InForce, Enforced
    <2> QED BY <1>3, <2>1, <2>5 DEF ForceFits, WindowAt, SaveSteps
  <1>15. CASE EnforceImport
    <2>1. /\ settings' = settings /\ imported' = imported /\ bundle' = bundle
          /\ work'["window"] = NoWork /\ NoWork.pc = "rest" /\ NoWork.next = "rest"
          /\ acting'.rules = acting.rules \union bundle.rules
      BY <1>1, <1>15 DEF EnforceImport, NoWork, Actings
    <2>2. imported /\ bundle \in Bundles /\ settings.rules = bundle.config.rules
      BY <1>15 DEF EnforceImport, Doing, ForceFits, WindowAt
    <2>3. InForce'
      BY <1>3, <2>1, <2>2 DEF InForce
    <2> QED BY <1>3, <2>1, <2>3 DEF ForceFits, WindowAt, SaveSteps
  <1> QED BY <1>6, <1>7, <1>8, <1>9, <1>10, <1>11, <1>12, <1>13, <1>14, <1>15

LEMMA EditForces ==
  ASSUME StoreInv, ForceFits, EditRules
  PROVE  ForceFits'
  <1> DEFINE h == work["window"]
             edited == h.save.rules
             rules == IF edited \subseteq acting.rules
                      THEN settings.rules \union edited ELSE settings.rules \ edited
  <1>1. /\ "window" \in SettingThreads /\ work \in [SettingThreads -> Works] /\ h \in Works
        /\ settings \in Configs /\ acting \in Actings /\ edited \in SUBSET Rules
    BY DEF SettingThreads, StoreInv, StoreTypeOK, Works, Configs
  <1>2. UNCHANGED <<acting, bundle, imported>>
    BY DEF EditRules
  <1>3. /\ settings.rules \ edited \subseteq acting.rules
        /\ edited \subseteq acting.rules \/ edited \intersect acting.rules = {}
        /\ \/ imported
           \/ /\ acting.rules \ edited = settings.rules \ edited
              /\ acting.switch = settings.switch /\ acting.guard = settings.guard
    BY DEF EditRules, Doing, ForceFits
  <1>4. rules \subseteq acting.rules /\ (imported \/ rules = acting.rules)
    BY <1>3
  <1>5. /\ settings'.rules = rules /\ settings'.switch = settings.switch
        /\ settings'.guard = settings.guard
        /\ work'["window"].pc \in {"rest", "open"} /\ work'["window"].next = "rest"
    <2>1. [settings EXCEPT !.rules = rules] \in Configs
      BY <1>1 DEF Configs
    <2>2. CASE edited \subseteq acting.rules /\ edited \subseteq settings.rules
      <3>1. settings' = settings /\ work'["window"] = NoWork /\ rules = settings.rules
        BY <1>1, <2>2 DEF EditRules
      <3> QED BY <3>1 DEF NoWork
    <2>3. CASE ~(edited \subseteq acting.rules /\ edited \subseteq settings.rules)
      <3>1. Begin("window", [settings EXCEPT !.rules = rules], TRUE, "rest")
        BY <2>3 DEF EditRules
      <3>2. /\ settings' = [settings EXCEPT !.rules = rules]
            /\ work'["window"].pc = "open" /\ work'["window"].next = "rest"
        BY <1>1, <3>1 DEF Begin, Saves, NoWork
      <3> QED BY <1>1, <3>2 DEF Configs
    <2> QED BY <2>2, <2>3
  <1>6. acting = [switch |-> acting.switch, guard |-> acting.guard, rules |-> acting.rules]
    BY <1>1 DEF Actings
  <1>7. InForce'
    <2> HIDE DEF rules, edited
    <2>1. CASE imported
      BY <1>2, <1>4, <1>5, <2>1 DEF InForce
    <2>2. CASE ~imported
      BY <1>2, <1>3, <1>4, <1>5, <1>6, <2>2 DEF InForce, Enforced
    <2> QED BY <2>1, <2>2
  <1> QED BY <1>2, <1>5, <1>7 DEF ForceFits, WindowAt, SaveSteps

\* Between two callbacks the engine and the blocker act on the configuration,
\* in whatever order it is changed, saved, exported, imported and loaded; after
\* an import all its rules are in force.
THEOREM SettingsAreObeyed == StoreSpec => []SettingsInForce
  <1>1. StoreInit => ForceFits
    <2> SUFFICES ASSUME StoreInit PROVE ForceFits
      OBVIOUS
    <2>1. work["window"].pc = "rest" /\ work["window"].next = "rest"
      BY NoWorkFits DEF StoreInit, SettingThreads
    <2>2. InForce
      BY DEF StoreInit, InForce, Enforced
    <2> QED BY <2>1, <2>2, NoConfigs DEF StoreInit, ForceFits, WindowAt, SaveSteps
  <1>2. ASSUME StoreInv, ForceFits, [StoreNext]_storeVars PROVE ForceFits'
    <2>1. CASE UNCHANGED storeVars
      BY <1>2, <2>1, ForceSame DEF storeVars
    <2>2. CASE \E t \in SettingThreads : OpenPart(t) \/ WritePart(t) \/ RenamePart(t)
      BY <1>2, <2>2, FilesForce
    <2>3. CASE Restart
      <3>1. /\ acting' = Enforced(settings') /\ bundle' = bundle
            /\ work'["window"].pc \in {"rest", "open"} /\ work'["window"].next = "rest"
        <4>1. /\ acting' = Enforced(settings') /\ bundle' = bundle
              /\ \/ work'["window"] = NoWork
                 \/ work'["window"] = [NoWork EXCEPT !.pc = "open", !.locked = TRUE, !.alone = TRUE]
          BY <2>3 DEF Restart, Load, Start, Idling, SettingThreads
        <4> QED BY <4>1, NoWorkFits DEF Works
      <3> QED BY <1>2, <3>1 DEF ForceFits, WindowAt, SaveSteps, InForce, Enforced
    <2>4. CASE StampUpdate \/ \E p \in Places, t \in Cloners : PersistPlace(t, p)
      BY <1>2, <2>4, OthersForce
    <2>5. CASE EditRules
      BY <1>2, <2>5, EditForces
    <2> QED BY <1>2, <2>1, <2>2, <2>3, <2>4, <2>5, WindowForces DEF StoreNext
  <1>3. ForceFits => SettingsInForce
    BY DEF ForceFits, WindowAt, InForce, SettingsInForce, Doing
  <1> QED BY <1>1, <1>2, <1>3, StoreStart, StoreStep, PTL DEF StoreSpec

-----------------------------------------------------------------------------
\* The log.
Logged == 1 .. next - 1
Lists == Seq(Logged)
DiskLists == Lists \union {Torn, Gone}
Jobs == [pc : LogLabels, data : Lists \union {Filtered(s) : s \in Seq(Nat)},
         clears : SUBSET Logged, at : {"none", "tmp", "file", "gone"}]

LogTypes ==
  /\ next \in Nat \ {0}
  /\ list \in Lists
  /\ {tmp, file} \subseteq DiskLists
  /\ job \in [Threads -> Jobs]
  /\ readers \in SUBSET Threads
  /\ cleared \in SUBSET Logged
  /\ crowded \in BOOLEAN

\* A thread that saves has what is listed in hand, and keeps it there; only a
\* thread that is about to write has a file open.
Late == {t \in Threads : job[t].pc \in {"write", "rename"}}
HandsFit ==
  /\ \A t \in Savers : t \in readers /\ job[t].data = list
  /\ \A t \in Threads : job[t].at \in {"tmp", "file"} => In(t, "write")

\* While somebody has opened dns_log.json.tmp, it and whatever has been moved
\* are torn or hold what is listed.
FilesFit ==
  \A t \in Late :
    /\ tmp \in {Torn, Gone, list}
    /\ tmp = Gone \/ job[t].at = "file" => file \in {Torn, list}

\* What was cleared is neither listed nor on disk; what is being cleared is
\* not listed.
ClearsFit ==
  /\ (SetOf(list) \union SetOf(Listed(file))) \intersect cleared = {}
  /\ \A t \in Threads : SetOf(list) \intersect job[t].clears = {}

\* A save that nobody disturbs.
AloneFits ==
  ~crowded =>
    /\ file # Torn
    /\ \A t \in Savers : Savers = {t}
    /\ \A t \in Threads :
         /\ In(t, "write") => job[t].at = "tmp"
         /\ In(t, "rename") => tmp # Torn

LogInv == LogTypes /\ HandsFit /\ FilesFit /\ ClearsFit /\ AloneFits

LEMMA SetOfFacts ==
  ASSUME NEW S, NEW s \in Seq(S), NEW n \in Nat
  PROVE  /\ Upto(s, n) \in Seq(S) /\ SetOf(Upto(s, n)) \subseteq SetOf(s)
         /\ SetOf(s) \subseteq S
  <1> DEFINE m == IF Len(s) < n THEN Len(s) ELSE n
  <1>1. m \in 0 .. Len(s)
    OBVIOUS
  <1>2. Upto(s, n) = SubSeq(s, 1, m)
    BY DEF Upto
  <1> HIDE DEF m
  <1>3. /\ SubSeq(s, 1, m) \in Seq(S) /\ Len(SubSeq(s, 1, m)) = m
        /\ \A i \in 1 .. m : SubSeq(s, 1, m)[i] = s[i]
    BY <1>1
  <1> QED BY <1>1, <1>2, <1>3 DEF SetOf

LEMMA SetOfPushed ==
  ASSUME NEW S, NEW s \in Seq(S), NEW e \in S
  PROVE  <<e>> \o s \in Seq(S) /\ SetOf(<<e>> \o s) \subseteq {e} \union SetOf(s)
  <1>1. /\ <<e>> \o s \in Seq(S) /\ Len(<<e>> \o s) = Len(s) + 1
        /\ \A i \in 1 .. Len(s) + 1 : (<<e>> \o s)[i] = IF i = 1 THEN e ELSE s[i - 1]
    OBVIOUS
  <1> QED BY <1>1 DEF SetOf

LEMMA NoLists ==
  ASSUME LogTypes
  PROVE  /\ Torn \notin Lists /\ Gone \notin Lists /\ Torn # Gone
         /\ <<>> \in Lists /\ SetOf(<<>>) = {}
  <1>1. \A s \in Lists : Len(s) = 1 => s[1] \in Nat
    <2> SUFFICES ASSUME NEW s \in Seq(Logged), Len(s) = 1 PROVE s[1] \in Nat
      BY DEF Lists
    <2>1. s[1] \in Logged
      OBVIOUS
    <2> QED BY <2>1 DEF Logged, LogTypes
  <1>2. Len(Torn) = 1 /\ Torn[1] = -1 /\ Len(Gone) = 1 /\ Gone[1] = -2
    BY DEF Torn, Gone
  <1> QED BY <1>1, <1>2 DEF SetOf, Lists

LEMMA ListedFits ==
  ASSUME LogTypes, NEW c \in DiskLists
  PROVE  /\ Listed(c) \in Lists /\ Listed(Torn) = <<>> /\ Listed(Gone) = <<>>
         /\ \A s \in Lists : Listed(s) = s
  BY NoLists DEF Listed, DiskLists

LEMMA NoJobFits == LogTypes => NoJob \in Jobs /\ NoJob.pc = "rest" /\ NoJob.clears = {}
                              /\ NoJob.at = "none"
  BY NoLists DEF NoJob, Jobs, LogLabels, Saving

\* A step of t outside of any save, that lists nothing new.
LEMMA AsideKeeps ==
  ASSUME LogInv, NEW t \in Threads, NEW w \in Jobs,
         job[t].pc \notin Saving, w.pc \notin Saving,
         SetOf(list) \intersect w.clears = {}, w.at \notin {"tmp", "file"},
         job' = [job EXCEPT ![t] = w],
         UNCHANGED <<list, next, readers, files, cleared, crowded>>
  PROVE  LogInv'
  <1>1. /\ job' \in [Threads -> Jobs] /\ job'[t] = w
        /\ \A u \in Threads \ {t} : job'[u] = job[u]
    BY DEF LogInv, LogTypes
  <1>2. /\ list' = list /\ next' = next /\ readers' = readers /\ tmp' = tmp /\ file' = file
        /\ cleared' = cleared /\ crowded' = crowded
    BY DEF files
  <1>3. Savers' = Savers /\ Late' = Late /\ t \notin Savers
    BY <1>1 DEF Savers, Late, Saving
  <1>4. LogTypes'
    BY <1>1, <1>2 DEF LogInv, LogTypes, DiskLists, Lists, Logged, Jobs
  <1>5. HandsFit' /\ FilesFit'
    <2>1. \A u \in Savers \union Late : u \in Threads \ {t} /\ job'[u] = job[u]
      BY <1>1, <1>3 DEF Savers, Late, Saving
    <2>2. \A u \in Threads : job'[u].at \in {"tmp", "file"} => In(u, "write")'
      BY <1>1 DEF LogInv, HandsFit, In
    <2> QED BY <1>2, <1>3, <2>1, <2>2 DEF LogInv, HandsFit, FilesFit
  <1>6. ClearsFit'
    BY <1>1, <1>2 DEF LogInv, ClearsFit
  <1>7. AloneFits'
    BY <1>1, <1>2, <1>3 DEF LogInv, AloneFits, In, Saving
  <1> QED BY <1>4, <1>5, <1>6, <1>7 DEF LogInv

\* One that changes the list, while nobody saves.
LEMMA ListingKeeps ==
  ASSUME LogInv, NEW t \in Threads, readers = {}, job[t].pc \notin Saving,
         next' \in Nat, next' >= next, list' \in Lists',
         SetOf(list') \intersect Logged \subseteq SetOf(list),
         NEW w \in Jobs', w.pc \notin Saving, SetOf(list') \intersect w.clears = {},
         w.at \notin {"tmp", "file"},
         job' = [job EXCEPT ![t] = w],
         UNCHANGED <<readers, files, cleared, crowded>>
  PROVE  LogInv'
  <1>1. Logged \subseteq Logged' /\ Lists \subseteq Lists' /\ DiskLists \subseteq DiskLists'
        /\ Jobs \subseteq Jobs'
    <2>1. Logged \subseteq Logged'
      BY DEF Logged, LogInv, LogTypes
    <2>2. Lists \subseteq Lists'
      BY <2>1 DEF Lists
    <2> QED BY <2>1, <2>2 DEF DiskLists, Jobs
  <1>2. /\ job' \in [Threads -> Jobs'] /\ job'[t] = w
        /\ \A u \in Threads \ {t} : job'[u] = job[u]
    BY <1>1 DEF LogInv, LogTypes
  <1>3. /\ readers' = readers /\ tmp' = tmp /\ file' = file
        /\ cleared' = cleared /\ crowded' = crowded
    BY DEF files
  <1>4. Savers = {} /\ Savers' = {} /\ Late' = {}
    BY <1>2 DEF Savers, Late, Saving, LogInv, HandsFit
  <1>5. LogTypes'
    BY <1>1, <1>2, <1>3 DEF LogInv, LogTypes
  <1>6. HandsFit' /\ FilesFit'
    BY <1>2, <1>4 DEF LogInv, HandsFit, FilesFit, In
  <1>7. ClearsFit'
    <2>1. Listed(file') = Listed(file)
      BY <1>3 DEF Listed
    <2>2. \A u \in Threads : job[u].clears \subseteq Logged
      BY DEF LogInv, LogTypes, Jobs
    <2>3. cleared \subseteq Logged
      BY DEF LogInv, LogTypes
    <2> QED BY <1>2, <1>3, <2>1, <2>2, <2>3 DEF LogInv, ClearsFit
  <1>8. AloneFits'
    BY <1>2, <1>3, <1>4 DEF LogInv, AloneFits, In, Savers, Saving
  <1> QED BY <1>5, <1>6, <1>7, <1>8 DEF LogInv

LEMMA PushKeeps ==
  ASSUME LogInv, NEW t \in Threads, PushEntry(t)
  PROVE  LogInv'
  <1> DEFINE w == [job[t] EXCEPT !.pc = "uncopy"]
  <1>1. job[t] \in Jobs /\ next \in Nat \ {0} /\ list \in Lists /\ next' = next + 1
    BY DEF LogInv, LogTypes, PushEntry
  <1>2. next \in Logged' /\ Logged' = Logged \union {next} /\ next \notin Logged
    BY <1>1 DEF Logged
  <1>3. list \in Lists'
    BY <1>1, <1>2 DEF Lists
  <1>4. /\ <<next>> \o list \in Lists'
        /\ SetOf(<<next>> \o list) \subseteq {next} \union SetOf(list)
    BY <1>2, <1>3, SetOfPushed DEF Lists
  <1>5. list' \in Lists' /\ SetOf(list') \subseteq {next} \union SetOf(list)
    BY <1>4, SetOfFacts, LogAssumption DEF PushEntry, Lists
  <1>6. SetOf(list') \intersect Logged \subseteq SetOf(list)
    BY <1>2, <1>5
  <1>7. w \in Jobs' /\ w.pc \notin Saving /\ w.clears = job[t].clears /\ w.clears \subseteq Logged
        /\ w.at = job[t].at
    BY <1>1, <1>2, <1>3 DEF Jobs, LogLabels, Saving, Lists
  <1>8. SetOf(list') \intersect w.clears = {}
    BY <1>6, <1>7 DEF LogInv, ClearsFit
  <1>11. w.at \notin {"tmp", "file"}
    BY <1>7 DEF LogInv, HandsFit, PushEntry, In
  <1>9. job' = [job EXCEPT ![t] = w] /\ UNCHANGED <<readers, files, cleared, crowded>>
    BY DEF PushEntry, Go, ghosts
  <1>10. readers = {} /\ job[t].pc \notin Saving /\ next' \in Nat /\ next' >= next
    BY <1>1 DEF PushEntry, In, Saving
  <1> HIDE DEF w
  <1> QED BY <1>5, <1>6, <1>7, <1>8, <1>9, <1>10, <1>11, ListingKeeps

LEMMA ClearKeeps ==
  ASSUME LogInv, ClearLogs
  PROVE  LogInv'
  <1> DEFINE w == [job["window"] EXCEPT !.pc = "uncopy", !.clears = 1 .. next - 1]
  <1>1. "window" \in Threads
    BY DEF Threads
  <1>2. job["window"] \in Jobs /\ next \in Nat \ {0} /\ next' = next /\ list' = <<>>
    BY <1>1 DEF LogInv, LogTypes, ClearLogs
  <1>3. Jobs' = Jobs /\ Lists' = Lists /\ <<>> \in Lists /\ SetOf(<<>>) = {}
    BY <1>2, NoLists DEF Jobs, Lists, Logged, LogInv
  <1>4. w \in Jobs' /\ w.pc \notin Saving /\ w.at = job["window"].at
    BY <1>2, <1>3 DEF Jobs, LogLabels, Saving, Logged
  <1>7. w.at \notin {"tmp", "file"}
    BY <1>1, <1>4 DEF LogInv, HandsFit, ClearLogs, In
  <1>5. job' = [job EXCEPT !["window"] = w] /\ UNCHANGED <<readers, files, cleared, crowded>>
    BY DEF ClearLogs, ghosts
  <1>6. readers = {} /\ job["window"].pc \notin Saving /\ next' \in Nat /\ next' >= next
    BY <1>2 DEF ClearLogs, In, Saving
  <1> HIDE DEF w
  <1> QED BY <1>1, <1>2, <1>3, <1>4, <1>5, <1>6, <1>7, ListingKeeps

LEMMA AsideSteps ==
  ASSUME LogInv,
         \/ ApplyFilter \/ SetCopy \/ LookAtVersion \/ ShowRows
         \/ \E t \in Threads : DropCopy(t) \/ Announce(t)
  PROVE  LogInv'
  <1>1. "window" \in Threads
    BY DEF Threads
  <1>2. \A t \in Threads :
          /\ job[t] \in Jobs /\ SetOf(list) \intersect job[t].clears = {}
          /\ job[t].pc \notin Saving => job[t].at \notin {"tmp", "file"}
    BY DEF LogInv, LogTypes, ClearsFit, HandsFit, In, Saving
  <1>3. \A t \in Threads : \A w \in Jobs :
          /\ job[t].pc \notin Saving /\ w.pc \notin Saving
          /\ w.clears \subseteq job[t].clears /\ w.at \in {job[t].at, "none"}
          /\ job' = [job EXCEPT ![t] = w]
          /\ UNCHANGED <<list, next, readers, files, cleared, crowded>>
          => LogInv'
    BY <1>2, AsideKeeps
  <1>4. \A t \in Threads : \A pc \in LogLabels \ Saving :
          LET w == [job[t] EXCEPT !.pc = pc] IN
            w \in Jobs /\ w.pc \notin Saving /\ w.clears = job[t].clears /\ w.at = job[t].at
    BY <1>2 DEF Jobs
  <1>5. {"rest", "uncopy", "announce", "wipe", "copy", "look"} \subseteq LogLabels \ Saving
    BY DEF LogLabels, Saving
  <1>6. \A t \in Threads, pc \in LogLabels \ Saving :
          /\ job[t].pc \notin Saving /\ Go(t, pc)
          /\ UNCHANGED <<list, next, readers, files, cleared, crowded>>
          => LogInv'
    <2> TAKE t \in Threads, pc \in LogLabels \ Saving
    <2> DEFINE w == [job[t] EXCEPT !.pc = pc]
    <2>1. w \in Jobs /\ w.pc \notin Saving /\ w.clears = job[t].clears /\ w.at = job[t].at
      BY <1>4
    <2>2. Go(t, pc) => job' = [job EXCEPT ![t] = w]
      BY DEF Go
    <2> HIDE DEF w
    <2> QED BY <1>3, <2>1, <2>2
  <1>7. CASE ApplyFilter
    <2> DEFINE w == [job["window"] EXCEPT !.pc = "copy",
                       !.data = Filtered(list)]
    <2>1. /\ w \in Jobs /\ w.pc \notin Saving /\ w.clears = job["window"].clears
          /\ w.at = job["window"].at
      <3>1. list \in Seq(Nat)
        BY DEF LogInv, LogTypes, Lists, Logged
      <3> QED BY <1>1, <1>2, <1>5, <3>1 DEF Jobs
    <2>2. job' = [job EXCEPT !["window"] = w]
      BY <1>7 DEF ApplyFilter
    <2>3. /\ job["window"].pc \notin Saving
          /\ UNCHANGED <<list, next, readers, files, cleared, crowded>>
      BY <1>7 DEF ApplyFilter, In, Saving, ghosts
    <2> HIDE DEF w
    <2> QED BY <1>1, <1>3, <2>1, <2>2, <2>3
  <1>8. CASE SetCopy \/ LookAtVersion \/ ShowRows
    <2>1. /\ job["window"].pc \notin Saving
          /\ Go("window", "announce") \/ Go("window", "look") \/ Go("window", "rest")
          /\ UNCHANGED <<list, next, readers, files, cleared, crowded>>
      BY <1>8 DEF SetCopy, LookAtVersion, ShowRows, In, Saving, ghosts
    <2> QED BY <1>1, <1>5, <1>6, <2>1
  <1>9. ASSUME NEW t \in Threads, DropCopy(t) PROVE LogInv'
    <2> DEFINE pc == IF job[t].at = "announced" THEN "rest" ELSE "announce"
               w == [job[t] EXCEPT !.pc = pc, !.at = "none"]
    <2>1. pc \in LogLabels \ Saving
      BY <1>5
    <2> HIDE DEF pc
    <2>2. w \in Jobs /\ w.pc \notin Saving /\ w.clears = job[t].clears /\ w.at = "none"
      BY <1>2, <2>1 DEF Jobs
    <2>3. job' = [job EXCEPT ![t] = w]
      BY <1>9 DEF DropCopy, pc
    <2>4. job[t].pc \notin Saving /\ UNCHANGED <<list, next, readers, files, cleared, crowded>>
      BY <1>9 DEF DropCopy, In, Saving, ghosts
    <2> HIDE DEF w
    <2> QED BY <1>3, <2>2, <2>3, <2>4
  <1>10. ASSUME NEW t \in Threads, Announce(t) PROVE LogInv'
    <2>1. job[t].pc \notin Saving /\ UNCHANGED <<list, next, readers, files, cleared, crowded>>
      BY <1>10 DEF Announce, In, Saving
    <2>2. CASE job' = [job EXCEPT ![t] = NoJob]
      <3>1. NoJob \in Jobs /\ NoJob.pc \notin Saving /\ NoJob.clears \subseteq job[t].clears
            /\ NoJob.at = "none"
        BY NoJobFits DEF LogInv, Saving
      <3> QED BY <1>3, <2>1, <2>2, <3>1
    <2>3. CASE Go(t, "wipe")
      BY <1>5, <1>6, <2>1, <2>3
    <2> QED BY <1>10, <2>2, <2>3 DEF Announce
  <1> QED BY <1>7, <1>8, <1>9, <1>10

\* A save begins; nothing is listed while it lasts.
LEMMA StartKeeps ==
  ASSUME LogInv, NEW t \in Threads, StartSave(t)
  PROVE  LogInv'
  <1> DEFINE w == [job[t] EXCEPT !.pc = "open", !.data = list]
  <1>1. /\ w \in Jobs /\ w.pc = "open" /\ w.data = list /\ w.clears = job[t].clears
        /\ w.at = job[t].at
        /\ job' = [job EXCEPT ![t] = w]
    BY DEF LogInv, LogTypes, Jobs, LogLabels, Saving, StartSave, BeginSave
  <1> HIDE DEF w
  <1>2. /\ job' \in [Threads -> Jobs] /\ job'[t] = w
        /\ \A u \in Threads \ {t} : job'[u] = job[u]
    BY <1>1 DEF LogInv, LogTypes
  <1>3. /\ list' = list /\ next' = next /\ readers' = readers \union {t} /\ tmp' = tmp
        /\ file' = file /\ cleared' = cleared /\ crowded' = (crowded \/ Savers # {})
        /\ t \notin Savers
    BY DEF StartSave, files, MaySave, In, Savers, Saving
  <1>4. Savers' = Savers \union {t} /\ Late' = Late
    BY <1>1, <1>2, <1>3 DEF Savers, Late, Saving
  <1>5. LogTypes'
    BY <1>2, <1>3 DEF LogInv, LogTypes, DiskLists, Lists, Logged, Jobs
  <1>6. HandsFit'
    BY <1>1, <1>2, <1>3, <1>4 DEF LogInv, HandsFit, Savers, In, StartSave, MaySave
  <1>7. FilesFit'
    BY <1>1, <1>2, <1>3, <1>4 DEF LogInv, FilesFit, Late
  <1>8. ClearsFit'
    BY <1>1, <1>2, <1>3 DEF LogInv, ClearsFit
  <1>9. AloneFits'
    BY <1>1, <1>2, <1>3, <1>4 DEF LogInv, AloneFits, In, Savers
  <1> QED BY <1>5, <1>6, <1>7, <1>8, <1>9 DEF LogInv

LEMMA OpenLogKeeps ==
  ASSUME LogInv, NEW t \in Threads, OpenTmp(t)
  PROVE  LogInv'
  <1> DEFINE w == [job[t] EXCEPT !.pc = "write", !.at = "tmp"]
  <1>1. /\ w \in Jobs /\ w.pc = "write" /\ w.at = "tmp" /\ w.data = job[t].data
        /\ w.clears = job[t].clears /\ job' = [job EXCEPT ![t] = w]
    BY DEF LogInv, LogTypes, Jobs, LogLabels, Saving, OpenTmp
  <1> HIDE DEF w
  <1>2. /\ job' \in [Threads -> Jobs] /\ job'[t] = w
        /\ \A u \in Threads \ {t} : job'[u] = job[u]
    BY <1>1 DEF LogInv, LogTypes
  <1>3. /\ list' = list /\ next' = next /\ readers' = readers /\ tmp' = Torn
        /\ file' = file /\ cleared' = cleared /\ crowded' = crowded /\ t \in Savers
    BY DEF OpenTmp, ghosts, In, Savers, Saving
  <1>4. Savers' = Savers /\ Late' = Late \union {t}
    BY <1>1, <1>2, <1>3 DEF Savers, Late, Saving
  <1>5. LogTypes'
    BY <1>2, <1>3 DEF LogInv, LogTypes, DiskLists, Lists, Logged, Jobs
  <1>6. HandsFit'
    BY <1>1, <1>2, <1>3, <1>4 DEF LogInv, HandsFit, Savers, In
  <1>7. FilesFit'
    BY <1>1, <1>2, <1>3, <1>4, NoLists DEF LogInv, FilesFit, Late
  <1>8. ClearsFit'
    BY <1>1, <1>2, <1>3 DEF LogInv, ClearsFit
  <1>9. AloneFits'
    BY <1>1, <1>2, <1>3, <1>4 DEF LogInv, AloneFits, In, Savers, Saving
  <1> QED BY <1>5, <1>6, <1>7, <1>8, <1>9 DEF LogInv

\* The save of t is over: the files, and who has them open, are as they were, or
\* dns_log.json.tmp has taken the place of dns_log.json.
LEMMA EndKeeps ==
  ASSUME LogInv, NEW t \in Savers, NEW done \in BOOLEAN, NEW jobs \in [Threads -> Jobs],
         EndSave(t, done, jobs),
         UNCHANGED <<list, next, crowded>>,
         \A u \in Threads : /\ jobs[u].pc = job[u].pc /\ jobs[u].data = job[u].data
                            /\ jobs[u].clears = job[u].clears
                            /\ jobs[u].at \in {"tmp", "file"} => job[u].at \in {"tmp", "file"},
         \/ jobs = job /\ UNCHANGED files
         \/ t \in Late /\ tmp # Gone /\ file' = tmp /\ tmp' = Gone /\ In(t, "rename"),
         done => file' \in {Torn, list}
  PROVE  LogInv'
  <1>1. t \in Threads /\ readers' = readers \ {t}
        /\ list' = list /\ next' = next /\ crowded' = crowded
        /\ cleared' = IF done THEN cleared \union job[t].clears ELSE cleared
    BY DEF EndSave, Savers
  <1>2. NoJob \in Jobs /\ NoJob.pc = "rest" /\ NoJob.clears = {} /\ NoJob.at = "none"
    BY NoJobFits DEF LogInv
  <1>3. /\ job' \in [Threads -> Jobs] /\ job'[t] = NoJob
        /\ \A u \in Threads \ {t} : job'[u] = jobs[u]
    BY <1>1, <1>2 DEF EndSave
  <1>4. Savers' = Savers \ {t} /\ Late' = Late \ {t}
    BY <1>1, <1>2, <1>3 DEF Savers, Late, Saving
  <1>5. list \in Lists /\ list # Torn /\ list # Gone /\ Torn # Gone
    BY NoLists DEF LogInv, LogTypes
  <1>6. {tmp', file'} \subseteq DiskLists
    BY DEF LogInv, LogTypes, files, DiskLists
  <1>7. LogTypes'
    <2>1. job[t].clears \subseteq Logged
      BY <1>1 DEF LogInv, LogTypes, Jobs
    <2>2. Lists' = Lists /\ Logged' = Logged /\ DiskLists' = DiskLists /\ Jobs' = Jobs
      BY <1>1 DEF Lists, Logged, DiskLists, Jobs
    <2> QED BY <1>1, <1>3, <1>6, <2>1, <2>2 DEF LogInv, LogTypes
  <1>8. HandsFit'
    BY <1>1, <1>2, <1>3, <1>4 DEF LogInv, HandsFit, Savers, In
  <1>9. FilesFit'
    <2> SUFFICES ASSUME NEW u \in Late \ {t}
                 PROVE  /\ tmp' \in {Torn, Gone, list}
                        /\ tmp' = Gone \/ job'[u].at = "file" => file' \in {Torn, list}
      BY <1>1, <1>4 DEF FilesFit
    <2>1. u \in Threads /\ job'[u] = jobs[u]
      BY <1>3 DEF Late
    <2> QED BY <2>1 DEF LogInv, FilesFit, files
  <1>10. ClearsFit'
    <2>1. \A c \in DiskLists : Listed(c)' = Listed(c)
      BY DEF Listed
    <2>2. Listed(list) = list /\ Listed(Torn) = <<>> /\ SetOf(<<>>) = {}
      BY <1>5, NoLists, ListedFits DEF LogInv, LogTypes, DiskLists
    <2>3. SetOf(Listed(file')) \subseteq SetOf(list) \union SetOf(Listed(file))
      BY <1>5, <2>2 DEF LogInv, FilesFit, files
    <2>4. done => SetOf(Listed(file')) \subseteq SetOf(list)
      BY <2>2
    <2>5. SetOf(list) \intersect job[t].clears = {}
      BY <1>1 DEF LogInv, ClearsFit
    <2>6. (SetOf(list) \union SetOf(Listed(file'))) \intersect cleared' = {}
      BY <1>1, <2>3, <2>4, <2>5 DEF LogInv, ClearsFit
    <2>7. \A u \in Threads : SetOf(list) \intersect job'[u].clears = {}
      BY <1>1, <1>2, <1>3 DEF LogInv, ClearsFit
    <2> QED BY <1>1, <2>6, <2>7 DEF ClearsFit
  <1>11. AloneFits'
    <2> SUFFICES ASSUME ~crowded
                 PROVE  /\ file' # Torn
                        /\ Savers' = {}
      <3>1. Savers' = {} => \A u \in Threads : ~In(u, "write")' /\ ~In(u, "rename")'
        BY DEF Savers, In, Saving
      <3> QED BY <1>1, <3>1 DEF AloneFits
    <2>1. Savers = {t} /\ file # Torn
      BY DEF LogInv, AloneFits
    <2>2. In(t, "rename") => tmp # Torn
      BY <1>1 DEF LogInv, AloneFits
    <2> QED BY <1>4, <2>1, <2>2 DEF files
  <1> QED BY <1>7, <1>8, <1>9, <1>10, <1>11 DEF LogInv

LEMMA WriteLogKeeps ==
  ASSUME LogInv, NEW t \in Threads, WriteTmp(t)
  PROVE  LogInv'
  <1>1. t \in Savers /\ t \in Late
    BY DEF WriteTmp, In, Savers, Late, Saving
  <1>2. CASE EndSave(t, FALSE, job) /\ UNCHANGED files
    <2>1. job \in [Threads -> Jobs] /\ UNCHANGED <<list, next, crowded>>
      BY DEF LogInv, LogTypes, WriteTmp
    <2> QED BY <1>1, <1>2, <2>1, EndKeeps
  <1>3. ASSUME tmp' = IF job[t].at = "tmp" THEN job[t].data ELSE tmp,
               file' = IF job[t].at = "file" THEN job[t].data ELSE file,
               job' = [job EXCEPT ![t].pc = "rename", ![t].at = "none"],
               UNCHANGED <<readers, cleared>>
        PROVE  LogInv'
    <2> DEFINE w == [job[t] EXCEPT !.pc = "rename", !.at = "none"]
    <2>1. /\ w \in Jobs /\ w.pc = "rename" /\ w.at = "none" /\ w.data = job[t].data
          /\ w.clears = job[t].clears /\ job' = [job EXCEPT ![t] = w]
      BY <1>3 DEF LogInv, LogTypes, Jobs, LogLabels, Saving
    <2> HIDE DEF w
    <2>2. /\ job' \in [Threads -> Jobs] /\ job'[t] = w
          /\ \A u \in Threads \ {t} : job'[u] = job[u]
      BY <2>1 DEF LogInv, LogTypes
    <2>3. /\ list' = list /\ next' = next /\ readers' = readers
          /\ cleared' = cleared /\ crowded' = crowded
      BY <1>3 DEF WriteTmp
    <2>4. Savers' = Savers /\ Late' = Late
      BY <1>1, <2>1, <2>2 DEF Savers, Late, Saving
    <2>5. job[t].data = list /\ list \in Lists /\ list # Torn /\ list # Gone /\ Torn # Gone
      BY <1>1, NoLists DEF LogInv, LogTypes, HandsFit
    <2>6. LogTypes'
      <3>1. {tmp', file'} \subseteq DiskLists
        BY <1>3, <2>5 DEF LogInv, LogTypes, DiskLists
      <3> QED BY <2>2, <2>3, <3>1 DEF LogInv, LogTypes, DiskLists, Lists, Logged, Jobs
    <2>7. HandsFit'
      BY <1>1, <2>1, <2>2, <2>3, <2>4 DEF LogInv, HandsFit, Savers, In
    <2>8. FilesFit'
      <3> SUFFICES ASSUME NEW u \in Late
                   PROVE  /\ tmp' \in {Torn, Gone, list}
                          /\ tmp' = Gone \/ job'[u].at = "file" => file' \in {Torn, list}
        BY <2>3, <2>4 DEF FilesFit
      <3>1. u \in Threads /\ (job'[u].at = "file" => job[u].at = "file")
        BY <2>1, <2>2 DEF Late
      <3> QED BY <1>1, <1>3, <2>5, <3>1 DEF LogInv, FilesFit
    <2>9. ClearsFit'
      <3>1. Listed(list) = list
        BY <2>5, ListedFits DEF LogInv, LogTypes, DiskLists
      <3>2. SetOf(Listed(file')) \subseteq SetOf(list) \union SetOf(Listed(file))
        BY <1>3, <2>5, <3>1
      <3>3. SetOf(list) \intersect cleared = {}
        BY DEF LogInv, ClearsFit
      <3>4. (SetOf(list) \union SetOf(Listed(file'))) \intersect cleared = {}
        BY <3>2, <3>3 DEF LogInv, ClearsFit
      <3>5. \A u \in Threads : job'[u].clears = job[u].clears
        BY <2>1, <2>2
      <3> QED BY <2>3, <3>4, <3>5 DEF LogInv, ClearsFit
    <2>10. AloneFits'
      <3> SUFFICES ASSUME ~crowded PROVE AloneFits'
        BY <2>3 DEF AloneFits
      <3>1. Savers = {t} /\ job[t].at = "tmp" /\ file # Torn
        BY <1>1 DEF LogInv, AloneFits, WriteTmp
      <3>2. tmp' = list /\ file' = file
        BY <1>3, <2>5, <3>1
      <3>3. \A u \in Threads : In(u, "write")' => FALSE
        BY <2>1, <2>2, <3>1 DEF In, Savers, Saving
      <3> QED BY <2>4, <2>5, <3>1, <3>2, <3>3 DEF AloneFits
    <2> QED BY <2>6, <2>7, <2>8, <2>9, <2>10 DEF LogInv
  <1> QED BY <1>2, <1>3 DEF WriteTmp

LEMMA RenameLogKeeps ==
  ASSUME LogInv, NEW t \in Threads, RenameTmp(t)
  PROVE  LogInv'
  <1> DEFINE shift(at) == CASE at = "tmp" -> "file" [] at = "file" -> "gone" [] OTHER -> at
             moved == [w \in Threads |-> [job[w] EXCEPT !.at = shift(@)]]
             open == {w \in Threads : job[w].at = "file"}
             over == tmp = Gone \/ open # {}
  <1>1. t \in Savers /\ t \in Late /\ In(t, "rename")
    BY DEF RenameTmp, In, Savers, Late, Saving
  <1>2. UNCHANGED <<list, next, crowded>>
    BY DEF RenameTmp
  <1>3. CASE tmp # Gone /\ file' = tmp /\ tmp' = Gone /\ EndSave(t, TRUE, moved)
    <2>1. \A u \in Threads :
            /\ moved[u] \in Jobs /\ moved[u].pc = job[u].pc /\ moved[u].data = job[u].data
            /\ moved[u].clears = job[u].clears
            /\ moved[u].at \in {"tmp", "file"} => job[u].at \in {"tmp", "file"}
      <3> SUFFICES ASSUME NEW u \in Threads
                   PROVE  /\ moved[u] \in Jobs /\ moved[u].pc = job[u].pc
                          /\ moved[u].data = job[u].data /\ moved[u].clears = job[u].clears
                          /\ moved[u].at \in {"tmp", "file"} => job[u].at \in {"tmp", "file"}
        OBVIOUS
      <3>1. job[u] \in Jobs
        BY DEF LogInv, LogTypes
      <3>2. /\ shift(job[u].at) \in {"none", "tmp", "file", "gone"}
            /\ shift(job[u].at) \in {"tmp", "file"} => job[u].at \in {"tmp", "file"}
        BY <3>1 DEF Jobs
      <3> HIDE DEF shift
      <3>3. moved[u] = [job[u] EXCEPT !.at = shift(job[u].at)]
        BY <3>1 DEF Jobs
      <3> QED BY <3>1, <3>2, <3>3 DEF Jobs
    <2>2. moved \in [Threads -> Jobs]
      BY <2>1
    <2>3. file' \in {Torn, list}
      BY <1>1, <1>3 DEF LogInv, FilesFit
    <2> HIDE DEF moved
    <2> QED BY <1>1, <1>2, <1>3, <2>1, <2>2, <2>3, EndKeeps
  <1>4. CASE EndSave(t, over, job) /\ UNCHANGED files
    <2>1. \A u \in open : u \in Late
      BY DEF LogInv, HandsFit, In, Late
    <2>2. over \in BOOLEAN /\ (over => file' \in {Torn, list})
      BY <1>1, <1>4, <2>1 DEF LogInv, FilesFit, files
    <2>3. job \in [Threads -> Jobs]
      BY DEF LogInv, LogTypes
    <2> HIDE DEF over
    <2> QED BY <1>1, <1>2, <1>4, <2>2, <2>3, EndKeeps
  <1> QED BY <1>3, <1>4 DEF RenameTmp

LEMMA LogRestartKeeps ==
  ASSUME LogInv, LogRestart
  PROVE  LogInv'
  <1>1. NoJob \in Jobs /\ NoJob.pc = "rest" /\ NoJob.clears = {} /\ NoJob.at = "none"
    BY NoJobFits DEF LogInv
  <1>2. /\ job' = [t \in Threads |-> NoJob] /\ readers' = {} /\ next' = next
        /\ tmp' = tmp /\ file' = file /\ cleared' = cleared /\ crowded' = crowded
        /\ list' = Upto(Listed(file), MaxLogs)
    BY DEF LogRestart, files
  <1>3. Listed(file) \in Lists
    BY ListedFits DEF LogInv, LogTypes
  <1>4. list' \in Lists /\ SetOf(list') \subseteq SetOf(Listed(file))
    BY <1>2, <1>3, SetOfFacts, LogAssumption DEF Lists
  <1>5. LogTypes'
    BY <1>1, <1>2, <1>4 DEF LogInv, LogTypes, DiskLists, Lists, Logged, Jobs
  <1>6. Savers' = {} /\ Late' = {}
    BY <1>1, <1>2 DEF Savers, Late, Saving
  <1>7. HandsFit' /\ FilesFit'
    BY <1>1, <1>2, <1>6 DEF HandsFit, FilesFit
  <1>8. ClearsFit'
    BY <1>1, <1>2, <1>4 DEF LogInv, ClearsFit
  <1>9. AloneFits'
    BY <1>1, <1>2, <1>6 DEF LogInv, AloneFits, In
  <1> QED BY <1>5, <1>7, <1>8, <1>9 DEF LogInv

LEMMA LogStep ==
  ASSUME LogInv, [LogNext]_logVars
  PROVE  LogInv'
  <1>1. CASE UNCHANGED <<list, next, readers, job, files, cleared, crowded>>
    BY <1>1 DEF files, LogInv, LogTypes, HandsFit, FilesFit, ClearsFit, AloneFits, Savers,
                Late, In, DiskLists, Lists, Logged, Jobs, Listed
  <1>2. LiftFilter => UNCHANGED <<list, next, readers, job, files, cleared, crowded>>
    BY DEF LiftFilter
  <1>3. UNCHANGED logVars => UNCHANGED <<list, next, readers, job, files, cleared, crowded>>
    BY DEF logVars, ghosts
  <1>4. CASE \E t \in Threads : StartSave(t) \/ OpenTmp(t) \/ WriteTmp(t) \/ RenameTmp(t)
    BY <1>4, StartKeeps, OpenLogKeeps, WriteLogKeeps, RenameLogKeeps
  <1>5. CASE \E t \in Loggers : PushEntry(t)
    BY <1>5, PushKeeps DEF Threads
  <1>6. CASE ClearLogs \/ LogRestart
    BY <1>6, ClearKeeps, LogRestartKeeps
  <1> QED BY <1>1, <1>2, <1>3, <1>4, <1>5, <1>6, AsideSteps DEF LogNext

LEMMA LogStart == LogInit => LogInv
  <1> SUFFICES ASSUME LogInit PROVE LogInv
    OBVIOUS
  <1>1. next = 1 /\ list = <<>> /\ tmp = Gone /\ file = Gone /\ cleared = {} /\ readers = {}
        /\ job = [t \in Threads |-> NoJob] /\ crowded = FALSE
    BY DEF LogInit
  <1>2. <<>> \in Lists /\ SetOf(<<>>) = {} /\ NoJob \in Jobs
    BY DEF Lists, SetOf, NoJob, Jobs, LogLabels, Saving
  <1>3. LogTypes
    <2>1. job \in [Threads -> Jobs]
      BY <1>1, <1>2
    <2>2. list \in Lists /\ {tmp, file} \subseteq DiskLists /\ next \in Nat \ {0}
      BY <1>1, <1>2 DEF DiskLists
    <2>3. readers \in SUBSET Threads /\ cleared \in SUBSET Logged /\ crowded \in BOOLEAN
      BY <1>1
    <2> QED BY <2>1, <2>2, <2>3 DEF LogTypes
  <1>4. Torn # Gone /\ Listed(Gone) = <<>>
    BY <1>3, NoLists DEF Listed
  <1>5. Savers = {} /\ Late = {}
    BY <1>1 DEF Savers, Late, Saving, NoJob
  <1>6. HandsFit /\ FilesFit
    BY <1>1, <1>5 DEF HandsFit, FilesFit, NoJob
  <1>7. ClearsFit
    BY <1>1, <1>2, <1>4 DEF ClearsFit, NoJob
  <1>8. AloneFits
    BY <1>1, <1>4, <1>5 DEF AloneFits, In, NoJob
  <1> QED BY <1>3, <1>6, <1>7, <1>8 DEF LogInv

\* Entries that were cleared stay away from list and file, for any number of
\* loggers and entries, even with overlapping saves, failures and kills; and a
\* kill finds a torn file only after saves have overlapped.
THEOREM ClearedStaysAway == LogSpec => []LogSurvives
  <1>1. LogInv => LogSurvives
    BY DEF LogInv, ClearsFit, AloneFits, LogSurvives
  <1> QED BY <1>1, LogStart, LogStep, PTL DEF LogSpec

\* Whatever the window does not show yet will be announced, unless it looks
\* right now.
Unannounced(t) == job[t].pc \in {"uncopy", "announce"}
Follows ==
  \/ behind \/ lifted \/ In("window", "look") \/ shown = Display
  \/ \E t \in Threads : Unannounced(t)

LEMMA FollowsOn ==
  ASSUME LogInv, Follows, LogNext
  PROVE  Follows'
  <1>1. "window" \in Threads
    BY DEF Threads
  <1>2. \A t \in Threads : job[t] \in Jobs
    BY DEF LogInv, LogTypes
  <1>3. ASSUME NEW t \in Threads, job'[t].pc \in {"uncopy", "announce"} PROVE Follows'
    BY <1>3 DEF Follows, Unannounced
  <1>4. ASSUME NEW t \in Threads, ~In(t, "look"), ~Unannounced(t),
               \A u \in Threads \ {t} : job'[u].pc = job[u].pc,
               UNCHANGED <<list, copy, behind, shown, lifted>>
        PROVE  Follows'
    BY <1>1, <1>4 DEF Follows, Unannounced, In, Display
  <1>5. ASSUME NEW t \in Threads, NEW jobs \in [Threads -> Jobs], NEW done,
               EndSave(t, done, jobs), \A u \in Threads : jobs[u].pc = job[u].pc
        PROVE  \A u \in Threads \ {t} : job'[u].pc = job[u].pc
    BY <1>5 DEF EndSave
  <1>6. ASSUME NEW t \in Loggers, PushEntry(t) PROVE Follows'
    <2>1. t \in Threads /\ job'[t].pc = "uncopy"
      BY <1>2, <1>6 DEF Threads, PushEntry, Go, Jobs, LogInv, LogTypes
    <2> QED BY <1>3, <2>1
  <1>7. CASE ApplyFilter
    <2>1. \A u \in Threads \ {"window"} : job'[u].pc = job[u].pc
      BY <1>7 DEF ApplyFilter, LogInv, LogTypes
    <2> QED BY <1>1, <1>4, <1>7, <2>1 DEF ApplyFilter, In, Unannounced, ghosts
  <1>8. CASE SetCopy \/ ClearLogs
    <2>1. job'["window"].pc \in {"uncopy", "announce"}
      BY <1>1, <1>2, <1>8 DEF SetCopy, ClearLogs, Go, Jobs, LogInv, LogTypes
    <2> QED BY <1>1, <1>3, <2>1
  <1>9. CASE LiftFilter \/ LogRestart
    BY <1>9 DEF LiftFilter, LogRestart, Follows
  <1>10. CASE LookAtVersion
    <2>1. job'["window"].pc = "look"
      BY <1>1, <1>2, <1>10 DEF LookAtVersion, Go, Jobs, LogInv, LogTypes
    <2> QED BY <2>1 DEF Follows, In
  <1>11. CASE ShowRows
    BY <1>11 DEF ShowRows, Follows, Display
  <1>12. ASSUME NEW t \in Threads, DropCopy(t) PROVE Follows'
    <2>1. job[t].at # "announced"
      BY <1>2 DEF Jobs
    <2>2. job'[t].pc = "announce"
      BY <1>2, <1>12, <2>1 DEF DropCopy, Jobs, LogInv, LogTypes
    <2> QED BY <1>3, <2>2
  <1>13. ASSUME NEW t \in Threads, Announce(t) PROVE Follows'
    BY <1>13 DEF Announce, Follows
  <1>14. ASSUME NEW t \in Threads, StartSave(t) \/ OpenTmp(t) PROVE Follows'
    <2>1. \A u \in Threads \ {t} : job'[u].pc = job[u].pc
      BY <1>14 DEF StartSave, BeginSave, OpenTmp, LogInv, LogTypes
    <2>2. ~In(t, "look") /\ ~Unannounced(t) /\ UNCHANGED <<list, copy, behind, shown, lifted>>
      BY <1>14 DEF StartSave, MaySave, OpenTmp, In, Unannounced, ghosts
    <2> QED BY <1>4, <2>1, <2>2
  <1>15. ASSUME NEW t \in Threads, WriteTmp(t) PROVE Follows'
    <2>1. \A u \in Threads \ {t} : job'[u].pc = job[u].pc
      BY <1>5, <1>15 DEF WriteTmp, LogInv, LogTypes
    <2>2. ~In(t, "look") /\ ~Unannounced(t) /\ UNCHANGED <<list, copy, behind, shown, lifted>>
      BY <1>15 DEF WriteTmp, In, Unannounced
    <2> QED BY <1>4, <2>1, <2>2
  <1>16. ASSUME NEW t \in Threads, RenameTmp(t) PROVE Follows'
    <2>1. \A u \in Threads \ {t} : job'[u].pc = job[u].pc
      <3> DEFINE shift(at) == CASE at = "tmp" -> "file" [] at = "file" -> "gone" [] OTHER -> at
                 moved == [w \in Threads |-> [job[w] EXCEPT !.at = shift(@)]]
      <3>1. \A u \in Threads : moved[u].pc = job[u].pc
        BY <1>2 DEF Jobs
      <3>2. EndSave(t, TRUE, moved) \/ \E done \in BOOLEAN : EndSave(t, done, job)
        BY <1>16 DEF RenameTmp
      <3>3. CASE EndSave(t, TRUE, moved)
        <4>1. \A u \in Threads \ {t} : job'[u] = moved[u]
          BY <3>3 DEF EndSave
        <4> QED BY <3>1, <4>1
      <3>4. CASE \E done \in BOOLEAN : EndSave(t, done, job)
        BY <1>5, <3>4 DEF LogInv, LogTypes
      <3> QED BY <3>2, <3>3, <3>4
    <2>2. ~In(t, "look") /\ ~Unannounced(t) /\ UNCHANGED <<list, copy, behind, shown, lifted>>
      BY <1>16 DEF RenameTmp, In, Unannounced
    <2> QED BY <1>4, <2>1, <2>2
  <1> QED BY <1>6, <1>7, <1>8, <1>9, <1>10, <1>11, <1>12, <1>13, <1>14, <1>15, <1>16 DEF LogNext

\* Once everybody is at rest and the version has been seen, the window shows what
\* get_logs returns, however entries, filters, clears and looks interleave,
\* unless a filter has been lifted.
THEOREM WindowShowsLog == LogSpec => []WindowFollows
  <1>1. LogInit => Follows
    BY DEF LogInit, Follows
  <1>2. LogInv /\ Follows /\ [LogNext]_logVars => Follows'
    <2>1. CASE UNCHANGED logVars
      BY <2>1 DEF logVars, ghosts, Follows, Unannounced, In, Display
    <2> QED BY <2>1, FollowsOn
  <1>3. Follows => WindowFollows
    <2> SUFFICES ASSUME Follows, \A t \in Threads : In(t, "rest"), ~behind
                 PROVE  shown = Display \/ lifted
      BY DEF WindowFollows
    <2>1. "window" \in Threads
      BY DEF Threads
    <2> QED BY <2>1 DEF Follows, In, Unannounced
  <1> QED BY <1>1, <1>2, <1>3, LogStart, LogStep, PTL DEF LogSpec

=============================================================================
