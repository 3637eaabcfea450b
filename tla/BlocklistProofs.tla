--------------------------- MODULE BlocklistProofs ---------------------------
(***************************************************************************)
(* The safety properties of Blocklist, for any domains and sources and any *)
(* number of refreshes and lookups, whatever fails.                        *)
(***************************************************************************)
EXTENDS Blocklist, SequenceTheorems, WellFoundedInduction, TLAPS

-----------------------------------------------------------------------------
(***************************************************************************)
(* The inductive invariant                                                 *)
(***************************************************************************)

\* Everything a source published so far, and what the program brings along.
Known == Builtin \union
             UNION {UNION {Body[u][v] : v \in 0 .. published[u]} : u \in Urls}

\* A refresh has no body that is not published yet.
GotPublished == \A r \in Refreshers : \A u \in Urls : rf[r].got[u] <= published[u]

\* What is built is the compaction of what was fetched.
BuildsTheRound ==
    \A r \in Refreshers : rf[r].pc \in {"create", "write", "rename"} =>
        rf[r].list = Compact(Gathered(rf[r].got))

ListsKnown ==
    /\ file \subseteq Known /\ store \subseteq Known
    /\ \A r \in Refreshers :
           rf[r].list \union rf[r].strange \union rf[r].header \subseteq Known

VerdictsKnown ==
    /\ \A d \in Domains : cache[d] = "blocked" => Covered(d, Known)
    /\ \A l \in Lookups : lk[l].pc = "remember" /\ lk[l].blocked =>
           Covered(lk[l].dom, Known)

\* Past the check of the exceptions none of those that hold covers the name.
ExceptionsHold ==
    \A l \in Lookups :
        /\ lk[l].pc = "allow" => lk[l].held \subseteq allowed
        /\ lk[l].pc \in {"deny", "cache", "self", "walk", "remember"}
               \/ (lk[l].pc = "done" /\ lk[l].blocked)
           => ~Covered(lk[l].dom, lk[l].held)

\* One refresh at a time: nobody else writes into its temporary file, or
\* replaces the file between reading its header and putting it in use.
AloneInFile ==
    /\ \A q, r \in Refreshers :
           rf[q].pc # "idle" /\ rf[r].pc # "idle" => q = r
    /\ \A r \in Refreshers :
           /\ rf[r].strange = {}
           /\ rf[r].pc \in {"swapIn", "swap"} =>
                  rf[r].header = file /\ file # NoFile
           /\ rf[r].pc = "rename" => file = NoFile

IndInv ==
    /\ TypeOK
    /\ GotPublished
    /\ BuildsTheRound
    /\ ListsKnown
    /\ VerdictsKnown
    /\ ExceptionsHold
    /\ overlap \/ AloneInFile
    /\ RulesWhole
    /\ StoreIsFile

-----------------------------------------------------------------------------
(***************************************************************************)
(* Suffixes and compaction                                                 *)
(***************************************************************************)
LEMMA SuffixesAreDomains ==
  ASSUME NEW d \in Domains
  PROVE  Suffixes(d) \subseteq Domains
  <1>1. Up[d] \in Seq(Domains)
    BY UpAssumption
  <1> QED
    BY <1>1, ElementOfSeq DEF Suffixes

\* The suffixes of a suffix are suffixes, and it has fewer of them.
LEMMA SuffixesShrink ==
  ASSUME NEW d \in Domains, NEW e \in Suffixes(d)
  PROVE  Suffixes(e) \subseteq Suffixes(d) /\ Len(Up[e]) < Len(Up[d])
  <1>1. PICK i \in DOMAIN Up[d] : e = Up[d][i]
    BY DEF Suffixes
  <1>2. Up[e] = SubSeq(Up[d], i + 1, Len(Up[d]))
    BY <1>1, UpAssumption
  <1>3. Up[d] \in Seq(Domains) /\ i \in 1 .. Len(Up[d]) /\ Len(Up[d]) \in Nat
    BY <1>1, UpAssumption
  <1>4. /\ Len(Up[e]) = Len(Up[d]) - i
        /\ DOMAIN Up[e] = 1 .. (Len(Up[d]) - i)
        /\ \A j \in 1 .. (Len(Up[d]) - i) : Up[e][j] = Up[d][i + j]
    <2> DEFINE s == Up[d]
               n == Len(s)
    <2> HIDE DEF s, n
    <2>1. \A k \in (i + 1) .. n : s[k] \in Domains
      BY <1>3, ElementOfSeq DEF s, n
    <2>2. i + 1 \in Int /\ n \in Nat /\ i \in 1 .. n
      BY <1>3 DEF s, n
    <2>3. /\ SubSeq(s, i + 1, n) \in Seq(Domains)
          /\ Len(SubSeq(s, i + 1, n)) = n - i
          /\ \A j \in 1 .. (n - i) : SubSeq(s, i + 1, n)[j] = s[i + j]
      <3>1. /\ SubSeq(s, i + 1, n) \in Seq(Domains)
            /\ Len(SubSeq(s, i + 1, n)) =
                   IF i + 1 <= n THEN n - (i + 1) + 1 ELSE 0
            /\ \A j \in 1 .. (n - (i + 1) + 1) :
                   SubSeq(s, i + 1, n)[j] = s[(i + 1) + j - 1]
        BY <2>1, <2>2, SubSeqProperties
      <3> QED
        BY <3>1, <2>2
    <2> QED
      BY <1>2, <2>3, LenProperties DEF s, n
  <1>5. ASSUME NEW x \in Suffixes(e) PROVE x \in Suffixes(d)
    <2>1. PICK j \in DOMAIN Up[e] : x = Up[e][j]
      BY DEF Suffixes
    <2>2. x = Up[d][i + j] /\ i + j \in 1 .. Len(Up[d])
      BY <2>1, <1>3, <1>4
    <2> QED
      BY <2>2, <1>3 DEF Suffixes
  <1> QED
    BY <1>3, <1>4, <1>5

\* Compaction keeps exactly the coverage: of the listed names that cover a
\* domain, the one with the fewest suffixes survives.
LEMMA CompactCovers ==
  ASSUME NEW list \in SUBSET Domains, NEW d \in Domains
  PROVE  Covered(d, Compact(list)) <=> Covered(d, list)
  <1>1. Covered(d, Compact(list)) => Covered(d, list)
    BY DEF Covered, Compact
  <1>2. ASSUME Covered(d, list) PROVE Covered(d, Compact(list))
    <2> DEFINE C == list \cap ({d} \union Suffixes(d))
               T == {Len(Up[e]) : e \in C}
    <2>1. C # {} /\ C \subseteq Domains
      BY <1>2, SuffixesAreDomains DEF Covered
    <2>2. T \subseteq Nat /\ T # {}
      <3>1. \A e \in Domains : Len(Up[e]) \in Nat
        BY UpAssumption, LenProperties
      <3> QED
        BY <2>1, <3>1
    <2>3. PICK n \in T : \A k \in T : ~ (<<k, n>> \in OpToRel(<, Nat))
      <3> HIDE DEF T
      <3> QED
        BY <2>2, NatLessThanWellFounded, WFMin
    <2>4. PICK e \in C : n = Len(Up[e])
      BY <2>3
    <2>5. ASSUME NEW x \in Suffixes(e) \cap list PROVE FALSE
      <3>1. x \in C
        BY <2>1, <2>4, <2>5, SuffixesShrink
      <3>2. Len(Up[x]) < Len(Up[e])
        BY <2>1, <2>4, <2>5, SuffixesShrink
      <3>3. Len(Up[x]) \in Nat /\ Len(Up[e]) \in Nat
        BY <2>1, <2>4, <3>1, UpAssumption
      <3>4. <<Len(Up[x]), n>> \in OpToRel(<, Nat)
        BY <2>4, <3>2, <3>3 DEF OpToRel
      <3> QED
        BY <2>3, <3>1, <3>4
    <2>6. e \in Compact(list)
      BY <2>4, <2>5 DEF Compact
    <2> QED
      BY <2>4, <2>6 DEF Covered
  <1> QED
    BY <1>1, <1>2

-----------------------------------------------------------------------------
(***************************************************************************)
(* Type correctness                                                        *)
(***************************************************************************)
LEMMA AsleepType == Asleep \in RefreshStates
  BY DEF Asleep, RefreshStates, RefreshLabels, Tags, NoTag, Versions, Lists

LEMMA RestingType == Resting \in LookupStates
  <1>1. (CHOOSE d \in Domains : TRUE) \in Domains
    BY BuiltinAssumption
  <1> QED
    BY <1>1 DEF Resting, LookupStates, LookupLabels, Lists

LEMMA GatheredType ==
  ASSUME NEW got \in [Urls -> Tags]
  PROVE  Gathered(got) \in Lists /\ Compact(Gathered(got)) \in Lists
  <1>1. \A u \in Urls : got[u] # NoTag => Body[u][got[u]] \subseteq Domains
    BY BodyAssumption DEF Tags, Lists
  <1>2. Gathered(got) \subseteq Domains
    BY <1>1, BuiltinAssumption DEF Gathered
  <1> QED
    BY <1>2 DEF Compact, Lists

LEMMA InitType == Init => TypeOK
  <1> SUFFICES ASSUME Init PROVE TypeOK
    OBVIOUS
  <1>1. published \in [Urls -> Versions]
    BY VersionAssumption DEF Init, Versions
  <1>2. published \in [Urls -> Tags]
    BY <1>1 DEF Tags
  <1>3. file \in Lists /\ store \in Lists
    BY <1>2, GatheredType DEF Init, NoFile, Lists
  <1>4. tags \in [Urls -> Tags] /\ tagFile \in [Urls -> Tags]
    BY VersionAssumption DEF Init, Tags, Versions
  <1>5. /\ rf \in [Refreshers -> RefreshStates]
        /\ \A r \in Refreshers : rf[r].pc = "idle"
    BY AsleepType DEF Init, Asleep
  <1>6. lk \in [Lookups -> LookupStates]
    BY RestingType DEF Init
  <1>7. cache \in [Domains -> {"unknown", "blocked", "clear"}]
    BY DEF Init, Blank
  <1> QED
    BY <1>1, <1>3, <1>4, <1>5, <1>6, <1>7 DEF Init, TypeOK

\* The state of one refresh changes.
LEMMA RefreshMoves ==
  ASSUME TypeOK, NEW r \in Refreshers, NEW s \in RefreshStates,
         rf' = [rf EXCEPT ![r] = s],
         s.pc \in {"create", "write", "rename"} => s.got \in [Urls -> Versions]
  PROVE  /\ rf' \in [Refreshers -> RefreshStates]
         /\ \A q \in Refreshers : rf'[q].pc \in {"create", "write", "rename"} =>
                rf'[q].got \in [Urls -> Versions]
  BY DEF TypeOK

\* Only its label, to one that does not build unless it builds already.
LEMMA GotoType ==
  ASSUME TypeOK, NEW r \in Refreshers, NEW label \in RefreshLabels,
         Goto(r, label),
         label \in {"create", "write", "rename"} =>
             rf[r].pc \in {"create", "write", "rename"}
  PROVE  /\ rf' \in [Refreshers -> RefreshStates]
         /\ \A q \in Refreshers : rf'[q].pc \in {"create", "write", "rename"} =>
                rf'[q].got \in [Urls -> Versions]
  <1> DEFINE s == [rf[r] EXCEPT !.pc = label]
  <1>1. s \in RefreshStates
    BY DEF TypeOK, RefreshStates
  <1>2. s.pc = label /\ s.got = rf[r].got
    BY DEF TypeOK, RefreshStates
  <1>3. rf' = [rf EXCEPT ![r] = s]
    BY DEF Goto, TypeOK
  <1>4. s.pc \in {"create", "write", "rename"} => s.got \in [Urls -> Versions]
    BY <1>2 DEF TypeOK
  <1> HIDE DEF s
  <1> QED
    BY <1>1, <1>3, <1>4, RefreshMoves

LEMMA SleepType ==
  ASSUME TypeOK, NEW r \in Refreshers, Sleep(r)
  PROVE  /\ rf' \in [Refreshers -> RefreshStates]
         /\ \A q \in Refreshers : rf'[q].pc \in {"create", "write", "rename"} =>
                rf'[q].got \in [Urls -> Versions]
  <1>1. Asleep.pc = "idle"
    BY DEF Asleep
  <1> QED
    BY <1>1, AsleepType, RefreshMoves DEF Sleep

LEMMA ReadHeaderType ==
  ASSUME TypeOK, NEW r \in Refreshers, NEW next \in {"swapIn", "swap"},
         ReadHeader(r, next)
  PROVE  TypeOK'
  <1> DEFINE s == [rf[r] EXCEPT !.pc = next, !.header = file]
  <1>1. s \in RefreshStates /\ s.pc = next
    BY DEF TypeOK, RefreshStates, RefreshLabels
  <1>2. rf' = [rf EXCEPT ![r] = s]
    BY DEF ReadHeader, TypeOK
  <1> HIDE DEF s
  <1> QED
    BY <1>1, <1>2, RefreshMoves
    DEF ReadHeader, TypeOK, etags, files, opened, rules

LEMMA FetchType ==
  ASSUME TypeOK, NEW r \in Refreshers, NEW u \in Urls, Fetch(r, u)
  PROVE  TypeOK'
  <1> DEFINE same == [rf[r] EXCEPT !.todo = @ \ {u}, !.same = @ \union {u}]
             got  == [rf[r].got EXCEPT ![u] = published[u]]
             body == [rf[r] EXCEPT !.todo = @ \ {u}, !.got = got]
             none == [rf[r] EXCEPT !.todo = @ \ {u}]
  <1>1. same \in RefreshStates /\ same.pc = "fetch"
    BY DEF Fetch, TypeOK, RefreshStates
  <1>2. body \in RefreshStates /\ body.pc = "fetch"
    <2>1. got \in [Urls -> Tags]
      BY DEF TypeOK, RefreshStates, Tags
    <2> HIDE DEF got
    <2> QED
      BY <2>1 DEF Fetch, TypeOK, RefreshStates
  <1>3. none \in RefreshStates /\ none.pc = "fetch"
    BY DEF Fetch, TypeOK, RefreshStates
  <1>4. \/ rf' = [rf EXCEPT ![r] = same]
        \/ rf' = [rf EXCEPT ![r] = body]
        \/ rf' = [rf EXCEPT ![r] = none]
    BY DEF Fetch, TypeOK
  <1> HIDE DEF same, body, none
  <1>5. /\ rf' \in [Refreshers -> RefreshStates]
        /\ \A q \in Refreshers : rf'[q].pc \in {"create", "write", "rename"} =>
               rf'[q].got \in [Urls -> Versions]
    BY <1>1, <1>2, <1>3, <1>4, RefreshMoves
  <1> QED
    BY <1>5 DEF Fetch, TypeOK, etags, files, opened, rules

LEMMA SaveTagsType ==
  ASSUME TypeOK, NEW r \in Refreshers, SaveTags(r)
  PROVE  tags' \in [Urls -> Tags] /\ tagFile' \in [Urls -> Tags]
  <1>1. NewTags(r) \in [Urls -> Tags]
    <2>1. \A u \in Urls : rf[r].asked[u] \in Tags /\ rf[r].got[u] \in Tags
      BY DEF TypeOK, RefreshStates
    <2>2. NoTag \in Tags
      BY DEF Tags
    <2> QED
      BY <2>1, <2>2 DEF NewTags
  <1> QED
    BY <1>1 DEF SaveTags, TypeOK

\* A round that is built has a body of every source.
LEMMA CompleteHasAll ==
  ASSUME TypeOK, NEW r \in Refreshers, EndComplete(r)
  PROVE  rf[r].got \in [Urls -> Versions]
  <1>1. rf[r].got \in [Urls -> Tags]
    BY DEF TypeOK, RefreshStates
  <1>2. \A u \in Urls : rf[r].got[u] # NoTag
    BY DEF EndComplete, Incomplete, Failed, Fetched
  <1> QED
    BY <1>1, <1>2 DEF Tags

LEMMA RoundType ==
  ASSUME TypeOK, NEW r \in Refreshers,
         EndUnchanged(r) \/ EndPartial(r) \/ EndComplete(r)
  PROVE  TypeOK'
  <1>1. CASE EndUnchanged(r) \/ EndPartial(r)
    <2>1. tags' \in [Urls -> Tags] /\ tagFile' \in [Urls -> Tags]
      BY <1>1, SaveTagsType DEF EndUnchanged, EndPartial, etags, TypeOK
    <2>2. Sleep(r)
      BY <1>1 DEF EndUnchanged, EndPartial
    <2> QED
      BY <1>1, <2>1, <2>2, SleepType
      DEF EndUnchanged, EndPartial, TypeOK, files, opened, rules
  <1>2. CASE EndComplete(r)
    <2> DEFINE list == Compact(Gathered(rf[r].got))
               s == [rf[r] EXCEPT !.pc = "create", !.list = list]
    <2>1. tags' \in [Urls -> Tags] /\ tagFile' \in [Urls -> Tags]
      BY <1>2, SaveTagsType DEF EndComplete
    <2>2. rf' = [rf EXCEPT ![r] = s]
      BY <1>2 DEF EndComplete, TypeOK
    <2>3. list \in Lists
      <3>1. rf[r].got \in [Urls -> Tags]
        BY DEF TypeOK, RefreshStates
      <3> QED
        BY <3>1, GatheredType
    <2> HIDE DEF list
    <2>4. s \in RefreshStates /\ s.got = rf[r].got
      BY <2>3 DEF TypeOK, RefreshStates, RefreshLabels
    <2> HIDE DEF s
    <2>5. /\ rf' \in [Refreshers -> RefreshStates]
          /\ \A q \in Refreshers : rf'[q].pc \in {"create", "write", "rename"} =>
                 rf'[q].got \in [Urls -> Versions]
      BY <1>2, <2>2, <2>4, CompleteHasAll, RefreshMoves
    <2> QED
      BY <1>2, <2>1, <2>5 DEF EndComplete, TypeOK, files, opened, rules
  <1> QED
    BY <1>1, <1>2

LEMMA CreateType ==
  ASSUME TypeOK, NEW r \in Refreshers, Create(r)
  PROVE  TypeOK'
  <1> DEFINE mine == UNION {rf[p].list : p \in Building(r)}
             new(q) == IF q = r
                       THEN [rf[r] EXCEPT !.pc = "write", !.strange = mine]
                       ELSE IF q \in Building(r)
                       THEN [rf[q] EXCEPT !.strange = @ \union rf[r].list]
                       ELSE rf[q]
  <1>1. mine \in Lists
    <2>1. \A p \in Building(r) : rf[p].list \subseteq Domains
      BY DEF TypeOK, RefreshStates, Lists, Building
    <2> QED
      BY <2>1 DEF Lists
  <1> HIDE DEF mine
  <1>2. \A q \in Refreshers : new(q) \in RefreshStates
    <2> TAKE q \in Refreshers
    <2>1. rf[q] \in RefreshStates /\ rf[r] \in RefreshStates
      BY DEF TypeOK
    <2>2. rf[q].strange \union rf[r].list \in Lists
      BY <2>1 DEF RefreshStates, Lists
    <2> QED
      BY <1>1, <2>1, <2>2 DEF RefreshStates, RefreshLabels
  <1>3. \A q \in Refreshers :
           /\ new(q).got = rf[q].got
           /\ q # r => new(q).pc = rf[q].pc
    BY DEF TypeOK, RefreshStates
  <1>4. rf' = [q \in Refreshers |-> new(q)]
    BY DEF Create, mine
  <1> HIDE DEF new
  <1>5. rf[r].pc = "create"
    BY DEF Create
  <1>6. rf' \in [Refreshers -> RefreshStates]
    BY <1>2, <1>4
  <1>7. \A q \in Refreshers : rf'[q].pc \in {"create", "write", "rename"} =>
            rf'[q].got \in [Urls -> Versions]
    BY <1>3, <1>4, <1>5 DEF TypeOK
  <1> QED
    BY <1>6, <1>7 DEF Create, TypeOK, etags, opened, rules

LEMMA RefreshType ==
  ASSUME TypeOK, NEW r \in Refreshers, RefreshStep(r)
  PROVE  TypeOK'
  <1> USE DEF etags, files, opened, rules
  <1>0. CASE ReloadFails(r) \/ OpenFails(r)
    <2> Goto(r, "ask") \/ Sleep(r) BY <1>0 DEF ReloadFails, OpenFails
    <2> unread' \in BOOLEAN
      BY <1>0, Zenon DEF ReloadFails, OpenFails, opened, TypeOK
    <2> QED BY <1>0, GotoType, SleepType
            DEF ReloadFails, OpenFails, TypeOK, RefreshLabels
  <1>1. CASE Refresh(r)
    <2> Goto(r, "reload") BY <1>1 DEF Refresh
    <2> QED BY <1>1, GotoType DEF Refresh, TypeOK, RefreshLabels
  <1>2. CASE Reload(r)
    BY <1>2, ReadHeaderType DEF Reload
  <1>3. CASE SwapIn(r)
    <2> Goto(r, "forget") BY <1>3 DEF SwapIn, UseHeader
    <2> store' \in Lists BY <1>3 DEF SwapIn, UseHeader, TypeOK, RefreshStates
    <2> QED BY <1>3, GotoType DEF SwapIn, UseHeader, TypeOK, RefreshLabels
  <1>4. CASE Forget(r)
    <2> Goto(r, "ask") BY <1>4 DEF Forget
    <2> QED BY <1>4, GotoType DEF Forget, Blank, TypeOK, RefreshLabels
  <1>5. CASE Ask(r)
    <2> DEFINE s == [rf[r] EXCEPT !.pc = "fetch", !.asked = tags, !.todo = Urls]
    <2>1. s \in RefreshStates /\ s.pc = "fetch"
      BY DEF TypeOK, RefreshStates, RefreshLabels
    <2>2. rf' = [rf EXCEPT ![r] = s]
      BY <1>5 DEF Ask, TypeOK
    <2> HIDE DEF s
    <2> QED BY <1>5, <2>1, <2>2, RefreshMoves DEF Ask, TypeOK
  <1>6. CASE \E u \in Urls : Fetch(r, u)
    BY <1>6, FetchType
  <1>7. CASE EndUnchanged(r) \/ EndPartial(r) \/ EndComplete(r)
    BY <1>7, RoundType
  <1>8. CASE Create(r)
    BY <1>8, CreateType
  <1>9. CASE BuildFails(r)
    <2> Sleep(r) BY <1>9 DEF BuildFails
    <2> QED BY <1>9, SleepType DEF BuildFails, TypeOK
  <1>10. CASE Replace(r)
    <2> Goto(r, "rename") BY <1>10 DEF Replace
    <2> rf[r].pc = "write" BY <1>10 DEF Replace
    <2> QED BY <1>10, GotoType
            DEF Replace, TypeOK, RefreshLabels, NoFile, Lists
  <1>11. CASE Rename(r)
    <2> Goto(r, "open") BY <1>11 DEF Rename
    <2> file' \in Lists
      BY <1>11 DEF Rename, TypeOK, RefreshStates, Lists
    <2> QED BY <1>11, GotoType DEF Rename, TypeOK, RefreshLabels
  <1>12. CASE Open(r)
    BY <1>12, ReadHeaderType DEF Open
  <1>13. CASE Swap(r)
    <2> Goto(r, "clean") BY <1>13 DEF Swap, UseHeader
    <2> store' \in Lists BY <1>13 DEF Swap, UseHeader, TypeOK, RefreshStates
    <2> QED BY <1>13, GotoType DEF Swap, UseHeader, TypeOK, RefreshLabels
  <1>14. CASE Clean(r)
    <2> Sleep(r) BY <1>14 DEF Clean
    <2> QED BY <1>14, SleepType DEF Clean, Blank, TypeOK
  <1> QED
    BY <1>0, <1>1, <1>2, <1>3, <1>4, <1>5, <1>6, <1>7, <1>8, <1>9, <1>10, <1>11,
       <1>12, <1>13, <1>14 DEF RefreshStep

\* The label, the verdict and the place of one lookup change.
LEMMA LookupMoves ==
  ASSUME TypeOK, NEW l \in Lookups, NEW s \in LookupStates,
         lk' = [lk EXCEPT ![l] = s]
  PROVE  lk' \in [Lookups -> LookupStates]
  BY DEF TypeOK

LEMMA AnswerType ==
  ASSUME TypeOK, NEW l \in Lookups, NEW label \in LookupLabels,
         NEW verdict \in BOOLEAN,
         lk' = [lk EXCEPT ![l].pc = label, ![l].blocked = verdict]
  PROVE  lk' \in [Lookups -> LookupStates]
  <1> DEFINE s == [lk[l] EXCEPT !.pc = label, !.blocked = verdict]
  <1>1. s \in LookupStates
    BY DEF TypeOK, LookupStates
  <1>2. lk' = [lk EXCEPT ![l] = s]
    BY DEF TypeOK
  <1> HIDE DEF s
  <1> QED
    BY <1>1, <1>2, LookupMoves

LEMMA LkGotoType ==
  ASSUME TypeOK, NEW l \in Lookups, NEW label \in LookupLabels, LkGoto(l, label)
  PROVE  lk' \in [Lookups -> LookupStates]
  <1> DEFINE s == [lk[l] EXCEPT !.pc = label]
  <1>1. s \in LookupStates
    BY DEF TypeOK, LookupStates
  <1>2. lk' = [lk EXCEPT ![l] = s]
    BY DEF TypeOK, LkGoto
  <1> HIDE DEF s
  <1> QED
    BY <1>1, <1>2, LookupMoves

LEMMA WalkType ==
  ASSUME TypeOK, NEW l \in Lookups, Walk(l)
  PROVE  TypeOK'
  <1> DEFINE e == Up[lk[l].dom][lk[l].at]
             next == [lk[l] EXCEPT !.at = @ + 1]
  <1>1. next \in LookupStates
    BY DEF TypeOK, LookupStates
  <1>2. Conclude(l, TRUE) \/ lk' = [lk EXCEPT ![l] = next]
    BY DEF Walk, TypeOK
  <1>3. lk' \in [Lookups -> LookupStates]
    BY <1>1, <1>2, LookupMoves, AnswerType DEF Conclude, LookupLabels
  <1>4. cache' \in [Domains -> {"unknown", "blocked", "clear"}]
    BY DEF Walk, Verdict, TypeOK
  <1> QED
    BY <1>3, <1>4 DEF Walk, TypeOK, etags, files, opened, rules

LEMMA LookupType ==
  ASSUME TypeOK, NEW l \in Lookups, LookupStep(l)
  PROVE  TypeOK'
  <1> USE DEF etags, files, opened, rules
  <1>1. ASSUME NEW d \in Domains, Query(l, d) PROVE TypeOK'
    <2> DEFINE s == [Resting EXCEPT !.pc = "allow", !.dom = d, !.held = allowed]
    <2>1. s \in LookupStates
      BY RestingType, EditableAssumption
      DEF TypeOK, LookupStates, LookupLabels, Lists
    <2>2. lk' = [lk EXCEPT ![l] = s]
      BY <1>1 DEF Query
    <2> HIDE DEF s
    <2> QED BY <1>1, <2>1, <2>2, LookupMoves DEF Query, TypeOK
  <1>2. CASE CheckAllowed(l)
    <2>1. Answer(l, FALSE) \/ LkGoto(l, "deny") BY <1>2 DEF CheckAllowed
    <2>2. lk' \in [Lookups -> LookupStates]
      BY <2>1, AnswerType, LkGotoType DEF Answer, LookupLabels
    <2> QED BY <1>2, <2>2 DEF CheckAllowed, TypeOK
  <1>3. CASE CheckDenied(l)
    <2>1. Answer(l, TRUE) \/ LkGoto(l, "cache") BY <1>3 DEF CheckDenied
    <2>2. lk' \in [Lookups -> LookupStates]
      BY <2>1, AnswerType, LkGotoType DEF Answer, LookupLabels
    <2> QED BY <1>3, <2>2 DEF CheckDenied, TypeOK
  <1>4. CASE CheckCache(l)
    <2>1. LkGoto(l, "self") \/ \E v \in BOOLEAN : Answer(l, v)
      BY <1>4 DEF CheckCache
    <2>2. lk' \in [Lookups -> LookupStates]
      BY <2>1, AnswerType, LkGotoType DEF Answer, LookupLabels
    <2> QED BY <1>4, <2>2 DEF CheckCache, TypeOK
  <1>5. CASE CheckSelf(l)
    <2>1. LkGoto(l, "walk") \/ \E v \in BOOLEAN : Conclude(l, v)
      BY <1>5 DEF CheckSelf
    <2>2. lk' \in [Lookups -> LookupStates]
      BY <2>1, AnswerType, LkGotoType DEF Conclude, LookupLabels
    <2> QED BY <1>5, <2>2 DEF CheckSelf, TypeOK
  <1>6. CASE Walk(l)
    BY <1>6, WalkType
  <1>7. CASE WalkEnds(l)
    <2>1. lk' \in [Lookups -> LookupStates]
      BY <1>7, AnswerType DEF WalkEnds, Conclude, LookupLabels
    <2> QED BY <1>7, <2>1 DEF WalkEnds, TypeOK
  <1>8. CASE Remember(l)
    <2>1. lk' \in [Lookups -> LookupStates]
      BY <1>8, LkGotoType DEF Remember, LookupLabels
    <2>2. cache' \in [Domains -> {"unknown", "blocked", "clear"}]
      BY <1>8 DEF Remember, Verdict, TypeOK
    <2> QED BY <1>8, <2>1, <2>2 DEF Remember, TypeOK
  <1>9. CASE Reply(l)
    BY <1>9, RestingType, LookupMoves DEF Reply, TypeOK
  <1> QED
    BY <1>1, <1>2, <1>3, <1>4, <1>5, <1>6, <1>7, <1>8, <1>9 DEF LookupStep

\* The operator, the sources, the cache's slots and the end of the process.
Outside ==
    \/ \E d \in Domains : Evict(d)
    \/ \E d \in Editable : AddDenied(d)
    \/ \E d \in Editable : RemoveDenied(d)
    \/ \E d \in Editable : AddAllowed(d)
    \/ \E d \in Editable : RemoveAllowed(d)
    \/ \E u \in Urls : Publish(u)
    \/ Restart

LEMMA OutsideType == TypeOK /\ Outside => TypeOK'
  <1> SUFFICES ASSUME TypeOK, Outside PROVE TypeOK'
    OBVIOUS
  <1> USE DEF etags, files, opened, rules
  <1>1. CASE \E d \in Domains : Evict(d)
    BY <1>1 DEF Evict, TypeOK
  <1>2. CASE \E d \in Editable : AddDenied(d)
    BY <1>2 DEF AddDenied, Blank, TypeOK
  <1>3. CASE \E d \in Editable : RemoveDenied(d)
    BY <1>3 DEF RemoveDenied, Blank, TypeOK
  <1>4. CASE \E d \in Editable : AddAllowed(d)
    BY <1>4 DEF AddAllowed, Blank, TypeOK
  <1>5. ASSUME NEW d \in Editable, RemoveAllowed(d) PROVE TypeOK'
    <2>1. \A l \in Lookups : [lk[l] EXCEPT !.held = @ \ {d}] \in LookupStates
      BY DEF TypeOK, LookupStates, Lists
    <2>2. lk' \in [Lookups -> LookupStates]
      BY <1>5, <2>1 DEF RemoveAllowed
    <2> QED BY <1>5, <2>2 DEF RemoveAllowed, Blank, TypeOK
  <1>6. ASSUME NEW u \in Urls, Publish(u) PROVE TypeOK'
    <2>1. published' \in [Urls -> Versions]
      BY <1>6, VersionAssumption DEF Publish, TypeOK, Versions
    <2> QED BY <1>6, <2>1 DEF Publish, TypeOK
  <1>7. CASE Restart
    <2>1. /\ rf' \in [Refreshers -> RefreshStates]
          /\ \A r \in Refreshers : rf'[r].pc = "idle"
      BY <1>7, AsleepType DEF Restart, Asleep
    <2>2. lk' \in [Lookups -> LookupStates]
      BY <1>7, RestingType DEF Restart
    <2>3. store' \in Lists
      BY <1>7 DEF Restart, TypeOK, NoFile, Lists
    <2>4. unread' \in BOOLEAN
      BY <1>7, Zenon DEF Restart
    <2> QED BY <1>7, <2>1, <2>2, <2>3, <2>4 DEF Restart, Blank, TypeOK
  <1> QED
    BY <1>1, <1>2, <1>3, <1>4, <1>5, <1>6, <1>7 DEF Outside

LEMMA NextType == TypeOK /\ [Next]_vars => TypeOK'
  <1>1. TypeOK /\ UNCHANGED vars => TypeOK'
    BY DEF TypeOK, vars, etags, files, opened, rules
  <1>2. TypeOK /\ Next => TypeOK'
    BY RefreshType, LookupType, OutsideType DEF Next, Outside
  <1> QED
    BY <1>1, <1>2

-----------------------------------------------------------------------------
(***************************************************************************)
(* What the steps of a refresh do to it                                    *)
(***************************************************************************)

\* All but the answer of a source, the end of a complete round and the first
\* write of the temporary file.
OtherRefreshStep(r) ==
    \/ Refresh(r) \/ Reload(r) \/ ReloadFails(r) \/ SwapIn(r) \/ Forget(r) \/ Ask(r)
    \/ EndUnchanged(r) \/ EndPartial(r) \/ BuildFails(r) \/ Replace(r)
    \/ Rename(r) \/ Open(r) \/ OpenFails(r) \/ Swap(r) \/ Clean(r)

\* It forgets everything, or keeps the round and may read a header.
KeepsRound(r) ==
    /\ published' = published
    /\ \A q \in Refreshers \ {r} : rf'[q] = rf[q]
    /\ \/ rf'[r] = Asleep
       \/ /\ rf'[r].got = rf[r].got
          /\ rf'[r].list = rf[r].list
          /\ rf'[r].strange = rf[r].strange
          /\ rf'[r].header \in {rf[r].header, file}
          /\ rf'[r].pc \in {"create", "write", "rename"} =>
                 rf[r].pc \in {"create", "write", "rename"}

LEMMA GotoKeeps ==
  ASSUME TypeOK, NEW r \in Refreshers, NEW label \in RefreshLabels,
         Goto(r, label), published' = published,
         label \in {"create", "write", "rename"} =>
             rf[r].pc \in {"create", "write", "rename"}
  PROVE  KeepsRound(r)
  BY DEF TypeOK, RefreshStates, Goto, KeepsRound

LEMMA SleepKeeps ==
  ASSUME TypeOK, NEW r \in Refreshers, Sleep(r), published' = published
  PROVE  KeepsRound(r)
  BY DEF TypeOK, Sleep, KeepsRound

LEMMA OtherStepsKeep ==
  ASSUME TypeOK, NEW r \in Refreshers, OtherRefreshStep(r)
  PROVE  KeepsRound(r)
  <1>1. CASE Refresh(r)
    BY <1>1, GotoKeeps DEF Refresh, RefreshLabels
  <1>2. CASE Reload(r) \/ Open(r)
    <2>1. /\ published' = published
          /\ \E next \in {"swapIn", "swap"} :
                 rf' = [rf EXCEPT ![r].pc = next, ![r].header = file]
      BY <1>2 DEF Reload, Open, ReadHeader
    <2>2. ASSUME NEW next \in {"swapIn", "swap"},
                 rf' = [rf EXCEPT ![r].pc = next, ![r].header = file]
          PROVE  KeepsRound(r)
      BY <2>1, <2>2 DEF TypeOK, RefreshStates, KeepsRound
    <2> QED
      BY <2>1, <2>2
  <1>3. CASE SwapIn(r) \/ Swap(r)
    BY <1>3, GotoKeeps DEF SwapIn, Swap, UseHeader, RefreshLabels
  <1>4. CASE Forget(r) \/ ReloadFails(r)
    BY <1>4, GotoKeeps DEF Forget, ReloadFails, RefreshLabels
  <1>5. CASE Ask(r)
    BY <1>5 DEF Ask, TypeOK, RefreshStates, KeepsRound
  <1>6. CASE \/ EndUnchanged(r) \/ EndPartial(r) \/ BuildFails(r)
             \/ OpenFails(r) \/ Clean(r)
    BY <1>6, SleepKeeps DEF EndUnchanged, EndPartial, BuildFails, OpenFails, Clean
  <1>7. CASE Replace(r) \/ Rename(r)
    BY <1>7, GotoKeeps DEF Replace, Rename, RefreshLabels
  <1> QED
    BY <1>1, <1>2, <1>3, <1>4, <1>5, <1>6, <1>7 DEF OtherRefreshStep

\* The first write of the temporary file marks every build that uses it.
LEMMA CreateMarks ==
  ASSUME TypeOK, NEW r \in Refreshers, Create(r)
  PROVE  /\ published' = published /\ file' = file /\ UNCHANGED opened
         /\ rf[r].pc = "create" /\ rf'[r].pc = "write"
         /\ \A q \in Refreshers :
                /\ rf'[q].got = rf[q].got
                /\ rf'[q].list = rf[q].list
                /\ rf'[q].header = rf[q].header
                /\ q # r => rf'[q].pc = rf[q].pc
         /\ rf'[r].strange = UNION {rf[p].list : p \in Building(r)}
         /\ \A q \in Building(r) :
                rf'[q].strange = rf[q].strange \union rf[r].list
         /\ \A q \in Refreshers \ (Building(r) \union {r}) :
                rf'[q].strange = rf[q].strange
  <1> DEFINE mine == UNION {rf[p].list : p \in Building(r)}
  <1> HIDE DEF mine
  <1>1. rf' = [q \in Refreshers |->
                 IF q = r THEN [rf[r] EXCEPT !.pc = "write", !.strange = mine]
                 ELSE IF q \in Building(r)
                 THEN [rf[q] EXCEPT !.strange = @ \union rf[r].list]
                 ELSE rf[q]]
    BY DEF Create, mine
  <1>2. \A q \in Refreshers : rf[q] \in RefreshStates
    BY DEF TypeOK
  <1>3. Building(r) \subseteq Refreshers /\ r \notin Building(r)
    BY DEF Building
  <1>4. rf'[r].strange = mine /\ rf'[r].pc = "write"
    BY <1>1, <1>2 DEF RefreshStates
  <1>5. \A q \in Building(r) : rf'[q].strange = rf[q].strange \union rf[r].list
    BY <1>1, <1>2, <1>3 DEF RefreshStates
  <1>6. \A q \in Refreshers \ (Building(r) \union {r}) :
            rf'[q].strange = rf[q].strange
    BY <1>1
  <1>7. \A q \in Refreshers :
            /\ rf'[q].got = rf[q].got
            /\ rf'[q].list = rf[q].list
            /\ rf'[q].header = rf[q].header
            /\ q # r => rf'[q].pc = rf[q].pc
    BY <1>1, <1>2 DEF RefreshStates
  <1> QED
    BY <1>4, <1>5, <1>6, <1>7 DEF Create, mine

LEMMA FetchAdds ==
  ASSUME TypeOK, NEW r \in Refreshers, NEW u \in Urls, Fetch(r, u)
  PROVE  /\ published' = published /\ file' = file /\ UNCHANGED opened
         /\ \A q \in Refreshers \ {r} : rf'[q] = rf[q]
         /\ rf[r].pc = "fetch" /\ rf'[r].pc = "fetch"
         /\ rf'[r].list = rf[r].list
         /\ rf'[r].strange = rf[r].strange
         /\ rf'[r].header = rf[r].header
         /\ rf'[r].got \in {rf[r].got, [rf[r].got EXCEPT ![u] = published[u]]}
  BY DEF TypeOK, RefreshStates, Fetch, files

LEMMA CompleteBuilds ==
  ASSUME TypeOK, NEW r \in Refreshers, EndComplete(r)
  PROVE  /\ published' = published /\ file' = file /\ UNCHANGED opened
         /\ \A q \in Refreshers \ {r} : rf'[q] = rf[q]
         /\ rf[r].pc = "fetch" /\ rf'[r].pc = "create"
         /\ rf'[r].got = rf[r].got
         /\ rf'[r].strange = rf[r].strange
         /\ rf'[r].header = rf[r].header
         /\ rf'[r].list = Compact(Gathered(rf[r].got))
  BY DEF TypeOK, RefreshStates, EndComplete, Joined, files

LEMMA RefreshCases ==
  ASSUME NEW r \in Refreshers, RefreshStep(r)
  PROVE  \/ OtherRefreshStep(r) \/ Create(r) \/ EndComplete(r)
         \/ \E u \in Urls : Fetch(r, u)
  BY DEF RefreshStep, OtherRefreshStep

-----------------------------------------------------------------------------
(***************************************************************************)
(* The rounds: what is fetched is published, what is built is the round    *)
(***************************************************************************)
LEMMA OthersKeepRefreshes ==
  ASSUME TypeOK, ~ \E r \in Refreshers : RefreshStep(r), [Next]_vars
  PROVE  /\ rf' = rf \/ rf' = [r \in Refreshers |-> Asleep]
         /\ \A u \in Urls : published'[u] >= published[u]
         /\ file' = file /\ overlap' = overlap
         /\ store' \in {store, file, NoFile}
         /\ unread' \/ (store' = store /\ rf' = rf /\ ~unread) \/ store' = file
  <1>1. CASE UNCHANGED vars
    BY <1>1 DEF vars, files, opened, TypeOK, Versions
  <1>2. ASSUME NEW l \in Lookups, LookupStep(l)
        PROVE  UNCHANGED <<rf, published, files, opened>>
    BY <1>2 DEF LookupStep, Query, CheckAllowed, CheckDenied, CheckCache,
                CheckSelf, Walk, WalkEnds, Remember, Reply
  <1>3. CASE Outside /\ ~Restart
    BY <1>3, VersionAssumption
    DEF Outside, Evict, AddDenied, RemoveDenied, AddAllowed, RemoveAllowed,
        Publish, TypeOK, Versions, files, opened
  <1>4. CASE Restart
    <2>1. store' = file \/ (store' = NoFile /\ (file = NoFile \/ unread'))
      BY <1>4, Zenon DEF Restart
    <2>2. /\ rf' = [r \in Refreshers |-> Asleep] /\ published' = published
          /\ file' = file /\ overlap' = overlap
      BY <1>4 DEF Restart
    <2> HIDE DEF NoFile
    <2> QED
      BY <2>1, <2>2 DEF TypeOK, Versions
  <1> QED
    BY <1>1, <1>2, <1>3, <1>4
    DEF Next, Outside, files, opened, TypeOK, Versions

LEMMA GotStep ==
  ASSUME TypeOK, GotPublished, [Next]_vars
  PROVE  GotPublished'
  <1>1. \A u \in Urls : Asleep.got[u] = -1 /\ published[u] \in Nat
    BY VersionAssumption DEF Asleep, NoTag, TypeOK, Versions
  <1>2. ASSUME NEW r \in Refreshers, RefreshStep(r) PROVE GotPublished'
    <2>1. CASE OtherRefreshStep(r)
      BY <1>1, <2>1, OtherStepsKeep DEF KeepsRound, GotPublished
    <2>2. CASE Create(r)
      BY <2>2, CreateMarks DEF GotPublished
    <2>3. CASE EndComplete(r)
      BY <2>3, CompleteBuilds DEF GotPublished
    <2>4. ASSUME NEW u \in Urls, Fetch(r, u) PROVE GotPublished'
      <3>1. rf[r].got \in [Urls -> Tags]
        BY DEF TypeOK, RefreshStates
      <3>2. \A w \in Urls : rf'[r].got[w] <= published[w]
        BY <1>1, <2>4, <3>1, FetchAdds DEF GotPublished
      <3> QED
        BY <2>4, <3>2, FetchAdds DEF GotPublished
    <2> QED
      BY <1>2, <2>1, <2>2, <2>3, <2>4, RefreshCases
  <1>3. CASE ~ \E r \in Refreshers : RefreshStep(r)
    <2>1. \A u \in Urls : published'[u] \in Int
      BY NextType DEF TypeOK, Versions
    <2>2. \A r \in Refreshers : \A u \in Urls : rf[r].got[u] \in Int
      BY VersionAssumption DEF TypeOK, RefreshStates, Tags, Versions, NoTag
    <2> QED
      BY <1>1, <1>3, <2>1, <2>2, OthersKeepRefreshes DEF GotPublished
  <1> QED
    BY <1>2, <1>3

LEMMA BuildStep ==
  ASSUME TypeOK, BuildsTheRound, [Next]_vars
  PROVE  BuildsTheRound'
  <1>1. Asleep.pc = "idle"
    BY DEF Asleep
  <1>2. ASSUME NEW r \in Refreshers, RefreshStep(r) PROVE BuildsTheRound'
    <2>1. CASE OtherRefreshStep(r)
      BY <1>1, <2>1, OtherStepsKeep DEF KeepsRound, BuildsTheRound
    <2>2. CASE Create(r)
      BY <2>2, CreateMarks DEF BuildsTheRound
    <2>3. CASE EndComplete(r)
      BY <2>3, CompleteBuilds DEF BuildsTheRound
    <2>4. ASSUME NEW u \in Urls, Fetch(r, u) PROVE BuildsTheRound'
      BY <2>4, FetchAdds DEF BuildsTheRound
    <2> QED
      BY <1>2, <2>1, <2>2, <2>3, <2>4, RefreshCases
  <1>3. CASE ~ \E r \in Refreshers : RefreshStep(r)
    BY <1>1, <1>3, OthersKeepRefreshes DEF BuildsTheRound
  <1> QED
    BY <1>2, <1>3

-----------------------------------------------------------------------------
(***************************************************************************)
(* Nothing but what was published reaches the file, the store or the cache *)
(***************************************************************************)
LEMMA KnownGrows ==
  ASSUME TypeOK, TypeOK', \A u \in Urls : published'[u] >= published[u]
  PROVE  Known \subseteq Known'
  <1>1. \A u \in Urls : 0 .. published[u] \subseteq 0 .. published'[u]
    BY DEF TypeOK, Versions
  <1> QED
    BY <1>1 DEF Known

LEMMA GatheredKnown ==
  ASSUME TypeOK, GotPublished, NEW r \in Refreshers
  PROVE  Compact(Gathered(rf[r].got)) \subseteq Known
  <1>1. ASSUME NEW u \in Urls, rf[r].got[u] # NoTag
        PROVE  rf[r].got[u] \in 0 .. published[u]
    BY <1>1, VersionAssumption
    DEF TypeOK, RefreshStates, Tags, Versions, GotPublished
  <1> QED
    BY <1>1 DEF Compact, Gathered, Known

LEMMA CoveredGrows ==
  ASSUME NEW d, NEW S, NEW T, S \subseteq T, Covered(d, S)
  PROVE  Covered(d, T)
  BY DEF Covered

LEMMA SuffixCovers ==
  ASSUME NEW d \in Domains, NEW e \in Suffixes(d), NEW S, Covered(e, S)
  PROVE  Covered(d, S)
  BY SuffixesShrink DEF Covered

\* What a step does to the file and to the header in use.
LEMMA FileAndStore ==
  ASSUME TypeOK, NEW r \in Refreshers, OtherRefreshStep(r)
  PROVE  /\ file' \in {file, NoFile}
               \/ (Rename(r) /\ file' \subseteq rf[r].list \union rf[r].strange)
         /\ store' \in {store, rf[r].header}
  BY DEF OtherRefreshStep, Refresh, Reload, ReloadFails, SwapIn, Forget, Ask,
         EndUnchanged, EndPartial, BuildFails, Replace, Rename, Open, OpenFails,
         Swap, Clean, ReadHeader, UseHeader, files, opened

LEMMA KnownStep ==
  ASSUME TypeOK, GotPublished, ListsKnown, [Next]_vars
  PROVE  ListsKnown'
  <1>1. Asleep.list = {} /\ Asleep.strange = {} /\ Asleep.header = {}
    BY DEF Asleep
  <1>2. ASSUME NEW r \in Refreshers, RefreshStep(r) PROVE ListsKnown'
    <2>1. CASE OtherRefreshStep(r)
      <3>1. Known' = Known
        BY <2>1, OtherStepsKeep DEF KeepsRound, Known
      <3>2. file' \subseteq Known /\ store' \subseteq Known
        BY <2>1, FileAndStore DEF ListsKnown, NoFile
      <3>3. \A q \in Refreshers :
                rf'[q].list \union rf'[q].strange \union rf'[q].header
                    \subseteq Known
        BY <1>1, <2>1, OtherStepsKeep DEF KeepsRound, ListsKnown
      <3> QED
        BY <3>1, <3>2, <3>3 DEF ListsKnown
    <2>2. CASE Create(r)
      <3>1. Known' = Known
        BY <2>2, CreateMarks DEF Known
      <3>2. ASSUME NEW q \in Refreshers
            PROVE  rf'[q].strange \subseteq Known
        <4>1. Building(r) \subseteq Refreshers
          BY DEF Building
        <4>2. CASE q = r
          BY <2>2, <4>1, <4>2, CreateMarks DEF ListsKnown
        <4>3. CASE q \in Building(r)
          BY <2>2, <4>3, CreateMarks DEF ListsKnown
        <4>4. CASE q \notin Building(r) /\ q # r
          BY <2>2, <4>4, CreateMarks DEF ListsKnown
        <4> QED
          BY <4>2, <4>3, <4>4
      <3>3. \A q \in Refreshers : rf'[q].list \union rf'[q].header \subseteq Known
        BY <2>2, CreateMarks DEF ListsKnown
      <3> QED
        BY <2>2, <3>1, <3>2, <3>3, CreateMarks DEF ListsKnown, opened
    <2>3. CASE EndComplete(r)
      <3>1. Known' = Known
        BY <2>3, CompleteBuilds DEF Known
      <3> QED
        BY <2>3, <3>1, CompleteBuilds, GatheredKnown DEF ListsKnown, opened
    <2>4. ASSUME NEW u \in Urls, Fetch(r, u) PROVE ListsKnown'
      <3>1. Known' = Known
        BY <2>4, FetchAdds DEF Known
      <3> QED
        BY <2>4, <3>1, FetchAdds DEF ListsKnown, opened
    <2> QED
      BY <1>2, <2>1, <2>2, <2>3, <2>4, RefreshCases
  <1>3. CASE ~ \E r \in Refreshers : RefreshStep(r)
    <2>1. Known \subseteq Known'
      BY <1>3, OthersKeepRefreshes, NextType, KnownGrows
    <2>2. file' = file /\ store' \in {store, file, {}}
      BY <1>3, OthersKeepRefreshes DEF NoFile
    <2>3. \A q \in Refreshers :
              rf'[q].list \union rf'[q].strange \union rf'[q].header \subseteq Known
      BY <1>1, <1>3, OthersKeepRefreshes DEF ListsKnown
    <2> QED
      BY <2>1, <2>2, <2>3 DEF ListsKnown
  <1> QED
    BY <1>2, <1>3

\* Steps of refreshes and of the world outside neither change a lookup, but
\* for the exceptions it may lose, nor put a verdict into the cache.
LEMMA LookupsLeftAlone ==
  ASSUME TypeOK, ~ \E l \in Lookups : LookupStep(l), [Next]_vars
  PROVE  /\ \A d \in Domains : cache'[d] \in {cache[d], "unknown"}
         /\ \/ lk' = [l \in Lookups |-> Resting]
            \/ /\ lk' = lk /\ allowed \subseteq allowed'
            \/ \E d \in Editable :
                  /\ lk' = [l \in Lookups |-> [lk[l] EXCEPT !.held = @ \ {d}]]
                  /\ allowed' = allowed \ {d}
  <1>1. CASE UNCHANGED vars
    BY <1>1 DEF vars, rules
  <1>2. ASSUME NEW r \in Refreshers, RefreshStep(r)
        PROVE  UNCHANGED <<lk, rules>> /\ cache' \in {cache, Blank}
    BY <1>2
    DEF RefreshStep, Refresh, Reload, ReloadFails, SwapIn, Forget, Ask, Fetch,
        EndUnchanged, EndPartial, EndComplete, Create, BuildFails, Replace,
        Rename, Open, OpenFails, Swap, Clean, ReadHeader, UseHeader
  <1>3. CASE Outside
    BY <1>3
    DEF Outside, Evict, AddDenied, RemoveDenied, AddAllowed, RemoveAllowed,
        Publish, Restart, Blank, rules, TypeOK
  <1> QED
    BY <1>1, <1>2, <1>3 DEF Next, Outside, rules, Blank

LEMMA VerdictStep ==
  ASSUME TypeOK, GotPublished, ListsKnown, VerdictsKnown, [Next]_vars
  PROVE  VerdictsKnown'
  <1>1. ASSUME NEW l \in Lookups, LookupStep(l) PROVE VerdictsKnown'
    <2>0. Known' = Known
      <3>1. published' = published
        BY <1>1 DEF LookupStep, Query, CheckAllowed, CheckDenied, CheckCache,
                    CheckSelf, Walk, WalkEnds, Remember, Reply
      <3> QED
        BY <3>1 DEF Known
    <2>1. lk[l].dom \in Domains /\ lk[l] \in LookupStates
      BY DEF TypeOK, LookupStates
    <2>2. ASSUME cache' = cache,
                 \A k \in Lookups \ {l} : lk'[k] = lk[k],
                 lk'[l].pc = "remember" /\ lk'[l].blocked =>
                     Covered(lk'[l].dom, Known)
          PROVE  VerdictsKnown'
      BY <2>0, <2>2 DEF VerdictsKnown
    <2>3. CASE \/ \E d \in Domains : Query(l, d)
               \/ CheckAllowed(l) \/ CheckDenied(l) \/ CheckCache(l) \/ Reply(l)
      <3>1. lk'[l].pc # "remember"
        <4>1. CASE \E d \in Domains : Query(l, d)
          BY <2>1, <4>1 DEF TypeOK, Query, Resting
        <4>2. CASE CheckAllowed(l) \/ CheckDenied(l) \/ CheckCache(l)
          <5>1. \/ \E v : lk' = [lk EXCEPT ![l].pc = "done", ![l].blocked = v]
                \/ \E p \in {"deny", "cache", "self"} :
                       lk' = [lk EXCEPT ![l].pc = p]
            BY <4>2 DEF CheckAllowed, CheckDenied, CheckCache, Answer, LkGoto
          <5> QED
            BY <2>1, <5>1 DEF TypeOK, LookupStates
        <4>3. CASE Reply(l)
          BY <4>3 DEF TypeOK, Reply, Resting
        <4> QED
          BY <2>3, <4>1, <4>2, <4>3
      <3>2. cache' = cache /\ \A k \in Lookups \ {l} : lk'[k] = lk[k]
        BY <2>3 DEF TypeOK, Query, CheckAllowed, CheckDenied,
                    CheckCache, Reply, Answer, LkGoto
      <3> QED
        BY <2>2, <3>1, <3>2
    <2>4. CASE CheckSelf(l)
      <3>1. /\ cache' = cache /\ \A k \in Lookups \ {l} : lk'[k] = lk[k]
            /\ lk'[l].dom = lk[l].dom
            /\ lk'[l].pc = "remember" /\ lk'[l].blocked => lk[l].dom \in file
        <4> DEFINE hit == TRUE \in Found(lk[l].dom)
        <4> HIDE DEF hit
        <4>1. /\ cache' = cache
              /\ \/ lk' = [lk EXCEPT ![l].pc = "remember", ![l].blocked = FALSE]
                 \/ /\ hit
                    /\ lk' = [lk EXCEPT ![l].pc = "remember", ![l].blocked = TRUE]
                 \/ lk' = [lk EXCEPT ![l].pc = "walk"]
          <5>1. \A found \in Found(lk[l].dom) : found \in BOOLEAN
            BY DEF Found
          <5> QED
            BY <2>4, <5>1 DEF CheckSelf, Conclude, LkGoto, hit
        <4>2. TRUE \in Found(lk[l].dom) => lk[l].dom \in file
          BY DEF Found
        <4>3. /\ \A k \in Lookups \ {l} : lk'[k] = lk[k]
              /\ lk'[l].dom = lk[l].dom
              /\ lk'[l].pc = "remember" /\ lk'[l].blocked => hit
          BY <2>1, <4>1 DEF TypeOK, LookupStates
        <4> QED
          BY <4>1, <4>2, <4>3 DEF hit
      <3> QED
        BY <2>2, <3>1 DEF ListsKnown, Covered
    <2>5. CASE WalkEnds(l)
      <3>1. /\ cache' = cache /\ \A k \in Lookups \ {l} : lk'[k] = lk[k]
            /\ ~lk'[l].blocked
        BY <2>1, <2>5 DEF TypeOK, LookupStates, WalkEnds, Conclude
      <3> QED
        BY <2>2, <3>1
    <2>6. CASE Walk(l)
      <3> DEFINE e == Up[lk[l].dom][lk[l].at]
      <3>1. e \in Suffixes(lk[l].dom)
        <4>1. Len(Up[lk[l].dom]) \in Nat
              /\ DOMAIN Up[lk[l].dom] = 1 .. Len(Up[lk[l].dom])
          BY <2>1, UpAssumption, LenProperties
        <4>2. lk[l].at \in 1 .. Len(Up[lk[l].dom])
          BY <2>1, <2>6, <4>1 DEF Walk, LookupStates
        <4> QED
          BY <4>1, <4>2 DEF Suffixes
      <3>2. e \in Domains
        BY <2>1, <3>1, SuffixesAreDomains
      <3>3. /\ \A k \in Lookups \ {l} : lk'[k] = lk[k]
            /\ lk'[l].dom = lk[l].dom
            /\ lk'[l].pc = "remember" => cache[e] = "blocked" \/ e \in file
            /\ \A d \in Domains : cache'[d] = "blocked" =>
                   cache[d] = "blocked" \/ (d = e /\ e \in file)
        <4> HIDE DEF e
        <4>1. lk[l].pc = "walk"
          BY <2>6 DEF Walk
        <4>2. \/ cache[e] = "blocked" /\ Conclude(l, TRUE) /\ cache' = cache
              \/ /\ lk' = [lk EXCEPT ![l].at = @ + 1]
                 /\ cache' = cache
              \/ \E found \in Found(e) :
                    /\ cache' = [cache EXCEPT ![e] = Verdict(found)]
                    /\ IF found THEN Conclude(l, TRUE)
                                ELSE lk' = [lk EXCEPT ![l].at = @ + 1]
          BY <2>6 DEF Walk, e
        <4>3. \A found \in Found(e) : found => e \in file
          BY DEF Found
        <4>4. \A k \in Lookups \ {l} : lk'[k] = lk[k]
          BY <4>2 DEF TypeOK, Conclude
        <4>5. lk'[l].dom = lk[l].dom
          BY <2>1, <4>2 DEF TypeOK, LookupStates, Conclude
        <4>6. lk'[l].pc = "remember" => cache[e] = "blocked" \/ e \in file
          <5>1. CASE lk' = [lk EXCEPT ![l].at = @ + 1]
            BY <2>1, <4>1, <5>1 DEF TypeOK, LookupStates
          <5> QED
            BY <4>2, <4>3, <5>1
        <4>7. \A d \in Domains : cache'[d] = "blocked" =>
                  cache[d] = "blocked" \/ (d = e /\ e \in file)
          BY <3>2, <4>2, <4>3 DEF TypeOK, Verdict
        <4> QED
          BY <4>4, <4>5, <4>6, <4>7
      <3>4. cache[e] = "blocked" \/ e \in file => Covered(e, Known)
        BY <3>2 DEF ListsKnown, VerdictsKnown, Covered
      <3>5. Covered(e, Known) => Covered(lk[l].dom, Known)
        BY <2>1, <3>1, SuffixCovers
      <3> HIDE DEF e
      <3> QED
        BY <2>0, <3>3, <3>4, <3>5 DEF VerdictsKnown
    <2>7. CASE Remember(l)
      <3>1. /\ \A k \in Lookups \ {l} : lk'[k] = lk[k]
            /\ lk'[l].pc = "done"
            /\ \A d \in Domains : cache'[d] = "blocked" =>
                   cache[d] = "blocked"
                       \/ (d = lk[l].dom /\ lk[l].pc = "remember" /\ lk[l].blocked)
        BY <2>1, <2>7
        DEF TypeOK, LookupStates, Remember, LkGoto, Verdict
      <3> QED
        BY <2>0, <3>1 DEF VerdictsKnown
    <2> QED
      BY <1>1, <2>3, <2>4, <2>5, <2>6, <2>7 DEF LookupStep
  <1>2. CASE ~ \E l \in Lookups : LookupStep(l)
    <2>1. Known \subseteq Known'
      <3>1. \A u \in Urls : published'[u] >= published[u]
        <4>1. CASE \E r \in Refreshers : RefreshStep(r)
          <5>1. published' = published
            BY <4>1, RefreshCases, OtherStepsKeep, CreateMarks, CompleteBuilds,
               FetchAdds DEF KeepsRound
          <5> QED
            BY <5>1 DEF TypeOK, Versions
        <4>2. CASE ~ \E r \in Refreshers : RefreshStep(r)
          BY <4>2, OthersKeepRefreshes
        <4> QED
          BY <4>1, <4>2
      <3> QED
        BY <3>1, NextType, KnownGrows
    <2>2. \A d \in Domains : cache'[d] = "blocked" => cache[d] = "blocked"
      BY <1>2, LookupsLeftAlone
    <2>3. \A l \in Lookups : lk'[l].pc = "remember" /\ lk'[l].blocked =>
              /\ lk[l].pc = "remember" /\ lk[l].blocked
              /\ lk'[l].dom = lk[l].dom
      BY <1>2, LookupsLeftAlone DEF TypeOK, LookupStates, Resting
    <2> QED
      BY <2>1, <2>2, <2>3, CoveredGrows DEF VerdictsKnown
  <1> QED
    BY <1>1, <1>2

-----------------------------------------------------------------------------
(***************************************************************************)
(* The operator's exceptions                                               *)
(***************************************************************************)
LEMMA ExceptionStep ==
  ASSUME TypeOK, ExceptionsHold, [Next]_vars
  PROVE  ExceptionsHold'
  <1>1. ASSUME NEW l \in Lookups, LookupStep(l) PROVE ExceptionsHold'
    <2>1. lk[l] \in LookupStates /\ lk \in [Lookups -> LookupStates]
      BY DEF TypeOK
    <2>2. allowed' = allowed /\ \A k \in Lookups \ {l} : lk'[k] = lk[k]
      BY <1>1, <2>1
      DEF LookupStep, Query, CheckAllowed, CheckDenied, CheckCache, CheckSelf,
          Walk, WalkEnds, Remember, Reply, Answer, Conclude, LkGoto, rules
    <2>3. /\ lk'[l].pc = "allow" => lk'[l].held \subseteq allowed
          /\ lk'[l].pc \in {"deny", "cache", "self", "walk", "remember"}
                 \/ (lk'[l].pc = "done" /\ lk'[l].blocked)
             => ~Covered(lk'[l].dom, lk'[l].held)
      <3>1. CASE \E d \in Domains : Query(l, d)
        BY <2>1, <3>1 DEF Query, Resting, LookupStates
      <3>2. CASE CheckAllowed(l)
        <4>1. lk[l].held \subseteq allowed
          BY <3>2 DEF CheckAllowed, ExceptionsHold
        <4>2. Covered(lk[l].dom, lk[l].held) => Covered(lk[l].dom, allowed)
          BY <4>1, CoveredGrows
        <4>3. /\ lk'[l].dom = lk[l].dom /\ lk'[l].held = lk[l].held
              /\ \/ lk'[l].pc = "done" /\ ~lk'[l].blocked
                 \/ lk'[l].pc = "deny" /\ ~Covered(lk[l].dom, allowed)
          BY <2>1, <3>2 DEF CheckAllowed, Answer, LkGoto, LookupStates
        <4> QED
          BY <4>2, <4>3
      <3>3. CASE \/ CheckDenied(l) \/ CheckCache(l) \/ CheckSelf(l) \/ Walk(l)
                 \/ WalkEnds(l) \/ Remember(l)
        <4>1. /\ lk[l].pc \in {"deny", "cache", "self", "walk", "remember"}
              /\ lk'[l].dom = lk[l].dom /\ lk'[l].held = lk[l].held
              /\ lk'[l].pc # "allow"
          BY <2>1, <3>3
          DEF CheckDenied, CheckCache, CheckSelf, Walk, WalkEnds, Remember,
              Answer, Conclude, LkGoto, LookupStates
        <4> QED
          BY <4>1 DEF ExceptionsHold
      <3>4. CASE Reply(l)
        BY <2>1, <3>4 DEF Reply, Resting
      <3> QED
        BY <1>1, <3>1, <3>2, <3>3, <3>4 DEF LookupStep
    <2> QED
      BY <2>2, <2>3 DEF ExceptionsHold
  <1>2. CASE ~ \E l \in Lookups : LookupStep(l)
    <2>1. CASE lk' = [l \in Lookups |-> Resting]
      BY <2>1 DEF ExceptionsHold, Resting
    <2>2. CASE lk' = lk /\ allowed \subseteq allowed'
      BY <2>2 DEF ExceptionsHold
    <2>3. ASSUME NEW d \in Editable,
                 lk' = [l \in Lookups |-> [lk[l] EXCEPT !.held = @ \ {d}]],
                 allowed' = allowed \ {d}
          PROVE  ExceptionsHold'
      <3>1. \A l \in Lookups :
                /\ lk'[l].pc = lk[l].pc /\ lk'[l].dom = lk[l].dom
                /\ lk'[l].blocked = lk[l].blocked
                /\ lk'[l].held = lk[l].held \ {d}
        BY <2>3 DEF TypeOK, LookupStates
      <3>2. \A l \in Lookups : ~Covered(lk[l].dom, lk[l].held) =>
                ~Covered(lk[l].dom, lk[l].held \ {d})
        BY CoveredGrows
      <3> QED
        BY <2>3, <3>1, <3>2 DEF ExceptionsHold
    <2> QED
      BY <1>2, <2>1, <2>2, <2>3, LookupsLeftAlone
  <1> QED
    BY <1>1, <1>2

-----------------------------------------------------------------------------
(***************************************************************************)
(* The file and the header in use, one refresh at a time                   *)
(***************************************************************************)
LEMMA OverlapLasts ==
  ASSUME overlap, [Next]_vars, TypeOK
  PROVE  overlap'
  <1>1. ASSUME NEW r \in Refreshers, RefreshStep(r) PROVE overlap'
    BY <1>1
    DEF RefreshStep, Refresh, Reload, ReloadFails, SwapIn, Forget, Ask, Fetch,
        EndUnchanged, EndPartial, EndComplete, Create, BuildFails, Replace,
        Rename, Open, OpenFails, Swap, Clean, ReadHeader, UseHeader, files
  <1> QED
    BY <1>1, OthersKeepRefreshes

\* While nothing has overlapped, the other refreshes sleep and stay asleep.
LEMMA OneMoves ==
  ASSUME TypeOK, AloneInFile, ~overlap', NEW r \in Refreshers, RefreshStep(r)
  PROVE  \A q \in Refreshers \ {r} : rf[q].pc = "idle" /\ rf'[q] = rf[q]
  <1>1. \A q \in Refreshers \ {r} : rf[q].pc = "idle"
    <2>1. CASE Refresh(r)
      BY <2>1 DEF Refresh
    <2>2. CASE ~Refresh(r)
      <3>1. rf[r].pc # "idle"
        BY <2>2
        DEF RefreshStep, Reload, ReloadFails, SwapIn, Forget, Ask, Fetch,
            EndUnchanged, EndPartial, EndComplete, Joined, Create, BuildFails,
            Replace, Rename, Open, OpenFails, Swap, Clean
      <3> QED
        BY <3>1 DEF AloneInFile
    <2> QED
      BY <2>1, <2>2
  <1>2. CASE Create(r)
    <2>1. \A q \in Refreshers : q \notin Building(r)
      BY <1>1 DEF Building
    <2> QED
      BY <1>1, <1>2, <2>1 DEF Create
  <1>3. CASE ~Create(r)
    BY <1>1, <1>3, RefreshCases, OtherStepsKeep, CompleteBuilds, FetchAdds
    DEF KeepsRound
  <1> QED
    BY <1>2, <1>3

\* What each step of the one refresh does to its label, to the file and to the
\* header in use.
FileFrame(r) ==
    \/ /\ file' = file /\ UNCHANGED opened
       /\ rf[r].pc \notin {"rename", "open", "swap"}
       /\ rf'[r].pc \notin {"swapIn", "swap", "rename"}
    \/ /\ file' = file /\ UNCHANGED opened /\ rf[r].pc \in {"reload", "open"}
       /\ rf'[r].pc \in {"swapIn", "swap"}
       /\ rf'[r].pc = "swapIn" => rf[r].pc = "reload"
       /\ rf'[r].header = file /\ file # NoFile
    \/ /\ file' = file /\ rf'[r].pc = "idle"
       /\ file = NoFile \/ unread'
    \/ /\ file' = file /\ store' = rf[r].header
       /\ rf[r].pc \in {"swapIn", "swap"}
       /\ rf'[r].pc \in {"forget", "clean"}
    \/ file' = NoFile /\ rf'[r].pc = "rename"
    \/ /\ rf[r].pc = "rename" /\ rf'[r].pc = "open"
       /\ rf[r].strange = {} => file' = rf[r].list

LEMMA OneStep ==
  ASSUME TypeOK, AloneInFile, NEW r \in Refreshers, RefreshStep(r)
  PROVE  FileFrame(r)
  <1>0. rf[r] \in RefreshStates /\ Asleep.pc = "idle"
    BY DEF TypeOK, Asleep
  <1>1. CASE Refresh(r) \/ ReloadFails(r) \/ Forget(r) \/ Ask(r)
             \/ EndUnchanged(r) \/ EndPartial(r) \/ Clean(r)
    BY <1>0, <1>1
    DEF TypeOK, RefreshStates, Refresh, ReloadFails, Forget, Ask, EndUnchanged,
        EndPartial, Clean, Joined, Goto, Sleep, files, FileFrame
  <1>2. CASE Reload(r) \/ Open(r)
    BY <1>0, <1>2
    DEF TypeOK, RefreshStates, Reload, Open, ReadHeader, files, FileFrame
  <1>10. CASE OpenFails(r)
    BY <1>0, <1>10 DEF TypeOK, OpenFails, Sleep, files, FileFrame
  <1>3. CASE SwapIn(r) \/ Swap(r)
    BY <1>0, <1>3
    DEF TypeOK, RefreshStates, SwapIn, Swap, UseHeader, Goto, files, FileFrame
  <1>4. CASE \E u \in Urls : Fetch(r, u)
    BY <1>4, FetchAdds DEF FileFrame
  <1>5. CASE EndComplete(r)
    BY <1>5, CompleteBuilds DEF FileFrame
  <1>6. CASE Create(r)
    BY <1>6, CreateMarks DEF FileFrame
  <1>7. CASE BuildFails(r)
    BY <1>0, <1>7 DEF TypeOK, BuildFails, Sleep, AloneInFile, FileFrame
  <1>8. CASE Replace(r)
    BY <1>0, <1>8 DEF TypeOK, RefreshStates, Replace, Goto, FileFrame
  <1>9. CASE Rename(r)
    BY <1>0, <1>9 DEF TypeOK, RefreshStates, Rename, Goto, FileFrame
  <1> QED
    BY <1>1, <1>2, <1>3, <1>4, <1>5, <1>6, <1>7, <1>8, <1>9, <1>10
    DEF RefreshStep

LEMMA AloneStep ==
  ASSUME TypeOK, AloneInFile, ~overlap', [Next]_vars
  PROVE  AloneInFile'
  <1>1. ASSUME NEW r \in Refreshers, RefreshStep(r) PROVE AloneInFile'
    <2>1. \A q \in Refreshers \ {r} : rf[q].pc = "idle" /\ rf'[q] = rf[q]
      BY <1>1, OneMoves
    <2>2. rf'[r].strange = {}
      <3>1. CASE Create(r)
        <4>1. Building(r) = {}
          BY <2>1 DEF Building
        <4> QED
          BY <3>1, <4>1, CreateMarks
      <3>2. CASE ~Create(r)
        <4>1. Asleep.strange = {}
          BY DEF Asleep
        <4> QED
          BY <1>1, <3>2, <4>1, RefreshCases, OtherStepsKeep, CompleteBuilds,
             FetchAdds DEF KeepsRound, AloneInFile
      <3> QED
        BY <3>1, <3>2
    <2>3. /\ rf'[r].pc \in {"swapIn", "swap"} =>
                 rf'[r].header = file' /\ file' # NoFile
          /\ rf'[r].pc = "rename" => file' = NoFile
      BY <1>1, OneStep DEF FileFrame
    <2> QED
      BY <2>1, <2>2, <2>3 DEF AloneInFile
  <1>2. CASE ~ \E r \in Refreshers : RefreshStep(r)
    BY <1>2, OthersKeepRefreshes DEF AloneInFile, Asleep
  <1> QED
    BY <1>1, <1>2

LEMMA WholeStep ==
  ASSUME TypeOK, GotPublished, BuildsTheRound, AloneInFile, ~overlap,
         RulesWhole, [Next]_vars
  PROVE  RulesWhole'
  <1> SUFFICES ASSUME ~overlap' PROVE RulesWhole'
    BY DEF RulesWhole
  <1>1. ASSUME NEW r \in Refreshers, RefreshStep(r) PROVE RulesWhole'
    <2>1. published' = published
      BY <1>1, RefreshCases, OtherStepsKeep, CreateMarks, CompleteBuilds,
         FetchAdds DEF KeepsRound
    <2>2. CASE file' = file \/ file' = NoFile
      BY <2>1, <2>2 DEF RulesWhole, WholeRound, Rounds
    <2>3. CASE rf[r].pc = "rename" /\ file' = rf[r].list
      <3>1. rf[r].got \in Rounds
        BY <2>3 DEF TypeOK, GotPublished, Rounds
      <3>2. file' = Compact(Gathered(rf[r].got))
        BY <2>3 DEF BuildsTheRound
      <3> QED
        BY <2>1, <3>1, <3>2 DEF RulesWhole, WholeRound, Rounds
    <2> QED
      BY <1>1, <2>2, <2>3, OneStep DEF FileFrame, AloneInFile
  <1>2. CASE ~ \E r \in Refreshers : RefreshStep(r)
    <2>1. file' = file /\ \A u \in Urls : published'[u] >= published[u]
      BY <1>2, OthersKeepRefreshes
    <2>2. WholeRound(file) => WholeRound(file)'
      <3>1. ASSUME WholeRound(file) PROVE \E got \in Rounds' : file = Compact(Gathered(got))
        <4>1. Rounds \subseteq Rounds'
          BY <2>1, NextType DEF Rounds, TypeOK, Versions
        <4> QED
          BY <3>1, <4>1 DEF WholeRound
      <3> QED
        BY <2>1, <3>1 DEF WholeRound
    <2> QED
      BY <2>1, <2>2 DEF RulesWhole
  <1> QED
    BY <1>1, <1>2

LEMMA StoreStep ==
  ASSUME TypeOK, AloneInFile, ~overlap, StoreIsFile, [Next]_vars
  PROVE  StoreIsFile'
  <1> SUFFICES ASSUME ~overlap', ~unread', file' # NoFile,
                      \A q \in Refreshers : rf'[q].pc \notin {"rename", "open", "swap"}
               PROVE  store' = file'
    BY DEF StoreIsFile
  <1>1. ASSUME NEW r \in Refreshers, RefreshStep(r) PROVE store' = file'
    <2>1. \A q \in Refreshers \ {r} : rf[q].pc = "idle"
      BY <1>1, OneMoves
    <2>2. FileFrame(r)
      BY <1>1, OneStep
    <2>3. CASE /\ file' = file /\ UNCHANGED opened
               /\ rf[r].pc \notin {"rename", "open", "swap"}
      BY <2>1, <2>3 DEF StoreIsFile, opened
    <2>4. CASE file' = file /\ store' = rf[r].header /\ rf[r].pc \in {"swapIn", "swap"}
      BY <2>4 DEF AloneInFile
    <2> QED
      BY <2>2, <2>3, <2>4 DEF FileFrame
  <1>2. CASE ~ \E r \in Refreshers : RefreshStep(r)
    <2>1. file' = file
      BY <1>2, OthersKeepRefreshes
    <2>2. (store' = store /\ rf' = rf /\ ~unread) \/ store' = file
      BY <1>2, OthersKeepRefreshes
    <2> QED
      BY <2>1, <2>2 DEF StoreIsFile
  <1> QED
    BY <1>1, <1>2

-----------------------------------------------------------------------------
(***************************************************************************)
(* The theorems                                                            *)
(***************************************************************************)
LEMMA InitInv == Init => IndInv
  <1> SUFFICES ASSUME Init PROVE IndInv
    OBVIOUS
  <1>1. TypeOK
    BY InitType
  <1>2. \A r \in Refreshers : rf[r] = Asleep
    BY DEF Init
  <1>3. \A u \in Urls : published[u] = 0
    BY DEF Init
  <1>4. GotPublished
    BY <1>2, <1>3 DEF GotPublished, Asleep, NoTag
  <1>5. BuildsTheRound /\ AloneInFile
    BY <1>2 DEF BuildsTheRound, AloneInFile, Asleep
  <1>6. published \in Rounds
    BY <1>1, <1>3 DEF Rounds, TypeOK
  <1>7. RulesWhole
    BY <1>6 DEF Init, RulesWhole, WholeRound
  <1>8. Compact(Gathered(published)) \subseteq Known
    <2>1. \A u \in Urls : published[u] \in 0 .. published[u]
      BY <1>3
    <2> QED
      BY <2>1 DEF Compact, Gathered, Known
  <1>9. ListsKnown
    BY <1>2, <1>8 DEF Init, ListsKnown, Asleep, NoFile
  <1>10. VerdictsKnown /\ ExceptionsHold
    BY DEF Init, VerdictsKnown, ExceptionsHold, Blank, Resting
  <1>11. StoreIsFile
    BY DEF Init, StoreIsFile
  <1> QED
    BY <1>1, <1>4, <1>5, <1>7, <1>9, <1>10, <1>11 DEF IndInv

LEMMA StepInv == IndInv /\ [Next]_vars => IndInv'
  <1> SUFFICES ASSUME IndInv, [Next]_vars PROVE IndInv'
    OBVIOUS
  <1> USE DEF IndInv
  <1>1. TypeOK' /\ GotPublished' /\ BuildsTheRound' /\ ListsKnown'
    BY NextType, GotStep, BuildStep, KnownStep
  <1>2. VerdictsKnown' /\ ExceptionsHold'
    BY VerdictStep, ExceptionStep
  <1>3. CASE overlap \/ overlap'
    <2>1. overlap'
      BY <1>3, OverlapLasts
    <2> QED
      BY <1>1, <1>2, <2>1 DEF RulesWhole, StoreIsFile
  <1>4. CASE ~overlap /\ ~overlap'
    BY <1>1, <1>2, <1>4, AloneStep, WholeStep, StoreStep
  <1> QED
    BY <1>3, <1>4

THEOREM BlocklistInvariant == Spec => []IndInv
  <1> QED
    BY InitInv, StepInv, PTL DEF Spec

\* Type correctness: whatever fails, and a build always has a body of every
\* source.
THEOREM BlocklistTypeCorrect == Spec => []TypeOK
  <1>1. IndInv => TypeOK
    BY DEF IndInv
  <1> QED
    BY <1>1, BlocklistInvariant, PTL

\* No refresh loses the rules of a source: as long as no two refreshes have
\* overlapped, blocklist.bin is the compaction of one published version of
\* every source.
THEOREM RefreshKeepsRules == Spec => []RulesWhole
  <1>1. IndInv => RulesWhole
    BY DEF IndInv
  <1> QED
    BY <1>1, BlocklistInvariant, PTL

\* Under the same condition the header in use is that of the file lookups read,
\* but for a file that could not be opened, and until one can.
THEOREM HeaderIsCurrent == Spec => []StoreIsFile
  <1>1. IndInv => StoreIsFile
    BY DEF IndInv
  <1> QED
    BY <1>1, BlocklistInvariant, PTL

\* compact_covered_domains loses no coverage, for names with any number of
\* labels and any lists.
THEOREM CompactionIsLossless == Spec => []CompactionKeepsCoverage
  <1>1. IndInv => CompactionKeepsCoverage
    <2> SUFFICES ASSUME IndInv, NEW r \in Refreshers,
                        rf[r].pc \in {"create", "write", "rename"},
                        NEW d \in Domains
                 PROVE  Covered(d, rf[r].list) <=> Covered(d, Gathered(rf[r].got))
      BY DEF CompactionKeepsCoverage
    <2>1. rf[r].got \in [Urls -> Tags]
      BY DEF IndInv, TypeOK, RefreshStates
    <2>2. Gathered(rf[r].got) \in SUBSET Domains
      BY <2>1, GatheredType DEF Lists
    <2>3. rf[r].list = Compact(Gathered(rf[r].got))
      BY DEF IndInv, BuildsTheRound
    <2> QED
      BY <2>2, <2>3, CompactCovers
  <1> QED
    BY <1>1, BlocklistInvariant, PTL

\* No rule of the operator ever gets into the cache of verdicts.
THEOREM CacheHasOnlyLists == Spec => []CacheFromListsOnly
  <1>1. IndInv => CacheFromListsOnly
    BY DEF IndInv, VerdictsKnown, CacheFromListsOnly, Known
  <1> QED
    BY <1>1, BlocklistInvariant, PTL

\* What the operator excepts is never blocked, however refreshes, edits of the
\* rules and other lookups cut in.
THEOREM ExceptionsPass == Spec => []AllowedPasses
  <1>1. IndInv => AllowedPasses
    BY DEF IndInv, ExceptionsHold, AllowedPasses
  <1> QED
    BY <1>1, BlocklistInvariant, PTL
=============================================================================
