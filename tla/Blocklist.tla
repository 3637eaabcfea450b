------------------------------ MODULE Blocklist ------------------------------
(***************************************************************************)
(* The blocklist of Shield Ghita and the verdict on a domain               *)
(* (src/modules/dns/mod.rs, src/modules/dns/disk_store.rs).                *)
(*                                                                         *)
(* Refreshes (load_blocklists, started at boot, every few hours and by the *)
(* operator, none excluding another) fetch the sources with conditional    *)
(* requests, build blocklist.bin beside the live file, replace it and open *)
(* it anew.  Lookups (should_block, one task per query) consult the        *)
(* operator's rules, the cache of verdicts and the file, while all that    *)
(* changes under them.                                                     *)
(*                                                                         *)
(* A source is a sequence of versions; its ETag is the version.  A domain  *)
(* is known by its parent suffixes.  The public suffixes, which no list    *)
(* may contain, are left out, and so is the one-time migration of the old  *)
(* text cache.                                                             *)
(***************************************************************************)
EXTENDS Integers, Sequences, FiniteSets

CONSTANTS
    Domains,     \* domain names
    Up,          \* the proper suffixes of each domain, the longest first
    Builtin,     \* domains the program always blocks
    Urls,        \* sources of the list
    MaxVersion,  \* how often a source may publish something new (bound)
    Body,        \* what each version of a source lists
    Tagged,      \* sources that send an ETag
    Editable,    \* domains the operator writes rules for (bound)
    Refreshers,  \* refreshes that may run at the same time
    Lookups,     \* queries that may be answered at the same time
    Faults       \* what may fail in this instance

Versions == 0 .. MaxVersion
NoTag    == -1
Tags     == Versions \union {NoTag}
Lists    == SUBSET Domains
NoFile   == {}

\* What may go wrong:
\*   fetch    a source does not answer, or answers with an error
\*   build    the temporary file cannot be written, or not renamed
\*   open     the file is there and cannot be opened, or its header is not right
\*   tagFile  the file of the ETags cannot be written
\*   crash    the process is killed
ListFaults == {"fetch", "build", "open", "tagFile", "crash"}

\* The suffixes of a suffix are the rest of the suffixes.
ASSUME UpAssumption ==
    /\ Up \in [Domains -> Seq(Domains)]
    /\ \A d \in Domains : \A i \in DOMAIN Up[d] :
           Up[Up[d][i]] = SubSeq(Up[d], i + 1, Len(Up[d]))
ASSUME BuiltinAssumption == Builtin \subseteq Domains /\ Builtin # {}
ASSUME EditableAssumption == Editable \subseteq Domains
ASSUME VersionAssumption == MaxVersion \in Nat
ASSUME BodyAssumption == Body \in [Urls -> [Versions -> Lists]]
ASSUME TaggedAssumption == Tagged \subseteq Urls
ASSUME ListFaultsAssumption == Faults \subseteq ListFaults

VARIABLES
    published,  \* version each source serves now
    tags,       \* etag_cache
    tagFile,    \* blocklist_etags.json
    file,       \* the domains in blocklist.bin
    store,      \* disk_store: the domains of the file its header was read from
    cache,      \* fast_cache
    denied,     \* custom_blocked
    allowed,    \* custom_allowed
    tmp,        \* the temporary file of the builds exists
    overlap,    \* two refreshes have overlapped (not in the code)
    unread,     \* the file in place could not be opened, when it was put there
                \* or found at the start, nor has it since (not in the code)
    rf,         \* the refreshes
    lk          \* the lookups

etags   == <<tags, tagFile>>
files   == <<file, tmp, overlap>>
opened  == <<store, unread>>
rules   == <<denied, allowed>>
vars    == <<published, etags, files, opened, cache, rules, rf, lk>>

-----------------------------------------------------------------------------
(***************************************************************************)
(* Domains and lists                                                       *)
(***************************************************************************)
Suffixes(d) == {Up[d][i] : i \in DOMAIN Up[d]}

\* match_domain_hierarchy: the domain or one of its suffixes is in the list.
Covered(d, list) == d \in list \/ Suffixes(d) \cap list # {}

\* (mutant) Of a domain and its suffix the domain is kept.
CompactWrongWay(list) ==
    {d \in list : \A e \in list : d \notin Suffixes(e)}

\* compact_covered_domains: a domain with a suffix in the list is dropped.
Compact(list) == {d \in list : Suffixes(d) \cap list = {}}

\* What the bodies of one round, a version of each source, list together.
Gathered(got) == Builtin \union UNION {Body[u][got[u]] : u \in {w \in Urls : got[w] # NoTag}}

-----------------------------------------------------------------------------
(***************************************************************************)
(* State                                                                   *)
(***************************************************************************)
RefreshLabels == {"idle", "reload", "swapIn", "forget", "ask", "fetch",
                  "create", "write", "rename", "open", "swap", "clean"}

\* asked: the ETags sent; todo: sources that have not answered; same: those
\* that answered "not modified"; got: the versions of the others' bodies;
\* list: what is built; strange: what another build wrote into its file;
\* header: the list whose header was read.
Asleep == [pc |-> "idle", asked |-> [u \in Urls |-> NoTag], todo |-> {},
           same |-> {}, got |-> [u \in Urls |-> NoTag], list |-> {},
           strange |-> {}, header |-> {}]

RefreshStates ==
    [pc : RefreshLabels, asked : [Urls -> Tags], todo : SUBSET Urls,
     same : SUBSET Urls, got : [Urls -> Tags], list : Lists, strange : Lists,
     header : Lists]

LookupLabels == {"idle", "allow", "deny", "cache", "self", "walk", "remember",
                 "done"}

\* at: the suffix to look at next; held: the operator's exceptions that have
\* held ever since the query arrived (not in the code, for AllowedPasses).
Resting == [pc |-> "idle", dom |-> CHOOSE d \in Domains : TRUE, at |-> 1,
            blocked |-> FALSE, held |-> {}]

LookupStates ==
    [pc : LookupLabels, dom : Domains, at : Nat \ {0}, blocked : BOOLEAN,
     held : Lists]

Blank == [d \in Domains |-> "unknown"]
Verdict(blocked) == IF blocked THEN "blocked" ELSE "clear"

\* A first start, or one that finds the list of what is published.
Init ==
    /\ published = [u \in Urls |-> 0]
    /\ \/ file = NoFile /\ tagFile = [u \in Urls |-> NoTag]
       \/ /\ file = Compact(Gathered(published))
          /\ tagFile = [u \in Urls |-> IF u \in Tagged THEN 0 ELSE NoTag]
    /\ tags = tagFile
    /\ store = file
    /\ cache = Blank
    /\ denied = {} /\ allowed = {}
    /\ tmp = FALSE /\ overlap = FALSE /\ unread = FALSE
    /\ rf = [r \in Refreshers |-> Asleep]
    /\ lk = [l \in Lookups |-> Resting]

\* Walks of the list hold disk_store for reading.
NobodyReads == \A l \in Lookups : lk[l].pc \notin {"self", "walk"}

\* DiskBlocklist::contains looks into the file that has the name now, with the
\* header of the file it opened: in another file it may miss the domain.
Found(d) == {d \in file} \union (IF store = file THEN {} ELSE {FALSE})

Goto(r, label) == rf' = [rf EXCEPT ![r].pc = label]
Sleep(r) == rf' = [rf EXCEPT ![r] = Asleep]

-----------------------------------------------------------------------------
(***************************************************************************)
(* load_blocklists                                                         *)
(***************************************************************************)
Refresh(r) ==
    /\ rf[r].pc = "idle"
    /\ Goto(r, "reload")
    /\ overlap' = (overlap \/ \E q \in Refreshers : rf[q].pc # "idle")
    /\ UNCHANGED <<published, etags, file, tmp, opened, cache, rules, lk>>

\* DiskBlocklist::open reads the header of the file, if there is one and it can
\* be opened.
ReadHeader(r, next) ==
    /\ file # NoFile
    /\ rf' = [rf EXCEPT ![r].pc = next, ![r].header = file]
    /\ UNCHANGED <<published, etags, files, opened, cache, rules, lk>>

CannotOpen == file = NoFile \/ "open" \in Faults

\* Later it is put in the place of the one in use.
UseHeader(r, next) ==
    /\ NobodyReads
    /\ store' = rf[r].header
    /\ unread' = FALSE
    /\ Goto(r, next)
    /\ UNCHANGED <<published, etags, files, cache, rules, lk>>

\* load_cache; the refresh goes on without it.
Reload(r) == rf[r].pc = "reload" /\ ReadHeader(r, "swapIn")

ReloadFails(r) ==
    /\ rf[r].pc = "reload"
    /\ CannotOpen
    /\ Goto(r, "ask")
    /\ UNCHANGED <<published, etags, files, opened, cache, rules, lk>>

SwapIn(r) == rf[r].pc = "swapIn" /\ UseHeader(r, "forget")

Forget(r) ==
    /\ rf[r].pc = "forget"
    /\ cache' = Blank
    /\ Goto(r, "ask")
    /\ UNCHANGED <<published, etags, files, opened, rules, lk>>

Ask(r) ==
    /\ rf[r].pc = "ask"
    /\ rf' = [rf EXCEPT ![r].pc = "fetch", ![r].asked = tags, ![r].todo = Urls]
    /\ UNCHANGED <<published, etags, files, opened, cache, rules, lk>>

\* One source answers: with "not modified", with a body, or not at all.
Fetch(r, u) ==
    /\ rf[r].pc = "fetch"
    /\ u \in rf[r].todo
    /\ \/ /\ rf[r].asked[u] = published[u]
          /\ rf' = [rf EXCEPT ![r].todo = @ \ {u}, ![r].same = @ \union {u}]
       \/ /\ rf[r].asked[u] # published[u]
          /\ rf' = [rf EXCEPT ![r].todo = @ \ {u}, ![r].got[u] = published[u]]
       \/ /\ "fetch" \in Faults
          /\ rf' = [rf EXCEPT ![r].todo = @ \ {u}]
    /\ UNCHANGED <<published, etags, files, opened, cache, rules, lk>>

Fetched(r) == {u \in Urls : rf[r].got[u] # NoTag}
Failed(r)  == Urls \ (Fetched(r) \union rf[r].same)
Joined(r)  == rf[r].pc = "fetch" /\ rf[r].todo = {}

\* The tags as this refresh found them, brought up to date; a source that
\* failed loses its own.
NewTags(r) ==
    [u \in Urls |->
        CASE u \in rf[r].same -> rf[r].asked[u]
          [] u \in Fetched(r) -> IF u \in Tagged THEN rf[r].got[u] ELSE NoTag
          [] OTHER            -> NoTag]

SaveTags(r) ==
    /\ tags' = NewTags(r)
    /\ \/ tagFile' = NewTags(r)
       \/ "tagFile" \in Faults /\ UNCHANGED tagFile

\* (mutant) A round in which some sources did not change counts as complete.
IncompleteIfFailed(r) == Failed(r) # {}

\* Only a round with a fresh body of every source is built.
Incomplete(r) == rf[r].same # {} \/ Failed(r) # {}

\* Nothing new at all; the tags are saved when nobody failed.
EndUnchanged(r) ==
    /\ Joined(r)
    /\ Fetched(r) = {}
    /\ IF Failed(r) = {} THEN SaveTags(r) ELSE UNCHANGED etags
    /\ Sleep(r)
    /\ UNCHANGED <<published, files, opened, cache, rules, lk>>

\* Some bodies are fresh: the bodies are dropped and the tags kept.
EndPartial(r) ==
    /\ Joined(r)
    /\ Fetched(r) # {}
    /\ Incomplete(r)
    /\ SaveTags(r)
    /\ Sleep(r)
    /\ UNCHANGED <<published, files, opened, cache, rules, lk>>

\* Every body is fresh: the tags are saved, then the list is built.
EndComplete(r) ==
    /\ Joined(r)
    /\ Fetched(r) # {}
    /\ ~Incomplete(r)
    /\ SaveTags(r)
    /\ rf' = [rf EXCEPT ![r].pc = "create", ![r].list = Compact(Gathered(rf[r].got))]
    /\ UNCHANGED <<published, files, opened, cache, rules, lk>>

-----------------------------------------------------------------------------
(***************************************************************************)
(* DiskBlocklist::build: the temporary file is named after the process, so *)
(* two builds write into the same one.                                     *)
(***************************************************************************)
Building(r) == {q \in Refreshers \ {r} : rf[q].pc \in {"write", "rename"}}

Create(r) ==
    /\ rf[r].pc = "create"
    /\ tmp' = TRUE
    /\ rf' = [q \in Refreshers |->
                IF q = r
                THEN [rf[r] EXCEPT !.pc = "write",
                                   !.strange = UNION {rf[p].list : p \in Building(r)}]
                ELSE IF q \in Building(r)
                THEN [rf[q] EXCEPT !.strange = @ \union rf[r].list]
                ELSE rf[q]]
    /\ UNCHANGED <<published, etags, file, overlap, opened, cache, rules, lk>>

\* A write, the removal of the live file or the renaming fails, or the temporary
\* file is gone; it is removed.  The live file may be gone by then.
BuildFails(r) ==
    /\ rf[r].pc \in {"write", "rename"}
    /\ ~tmp \/ "build" \in Faults
    /\ tmp' = FALSE
    /\ Sleep(r)
    /\ UNCHANGED <<published, etags, file, overlap, opened, cache, rules, lk>>

\* The file is complete: the live one is removed ...
Replace(r) ==
    /\ rf[r].pc = "write"
    /\ tmp
    /\ file' = NoFile
    /\ Goto(r, "rename")
    /\ UNCHANGED <<published, etags, tmp, overlap, opened, cache, rules, lk>>

\* ... and the new one takes its name.
Rename(r) ==
    /\ rf[r].pc = "rename"
    /\ tmp
    /\ tmp' = FALSE
    /\ file' \in IF rf[r].strange = {} THEN {rf[r].list}
                 ELSE SUBSET (rf[r].list \union rf[r].strange)
    /\ Goto(r, "open")
    /\ UNCHANGED <<published, etags, overlap, opened, cache, rules, lk>>

\* (mutant) The header of the list that was live before stays in use.
OpenNothing(r) ==
    /\ rf[r].pc = "open"
    /\ Goto(r, "clean")
    /\ UNCHANGED <<published, etags, files, opened, cache, rules, lk>>

Open(r) == rf[r].pc = "open" /\ ReadHeader(r, "swap")

\* The refresh reports success all the same; header and cache stay.
OpenFails(r) ==
    /\ rf[r].pc = "open"
    /\ CannotOpen
    /\ unread' = (unread \/ file # NoFile)
    /\ Sleep(r)
    /\ UNCHANGED <<published, etags, files, store, cache, rules, lk>>

Swap(r) == rf[r].pc = "swap" /\ UseHeader(r, "clean")

Clean(r) ==
    /\ rf[r].pc = "clean"
    /\ cache' = Blank
    /\ Sleep(r)
    /\ UNCHANGED <<published, etags, files, opened, rules, lk>>

-----------------------------------------------------------------------------
(***************************************************************************)
(* should_block and check_disk_hierarchy                                   *)
(***************************************************************************)
LkGoto(l, label) == lk' = [lk EXCEPT ![l].pc = label]
Answer(l, verdict) ==
    lk' = [lk EXCEPT ![l].pc = "done", ![l].blocked = verdict]
Conclude(l, verdict) ==
    lk' = [lk EXCEPT ![l].pc = "remember", ![l].blocked = verdict]

Query(l, d) ==
    /\ lk[l].pc = "idle"
    /\ lk' = [lk EXCEPT ![l] = [Resting EXCEPT !.pc = "allow", !.dom = d,
                                               !.held = allowed]]
    /\ UNCHANGED <<published, etags, files, opened, cache, rules, rf>>

\* (mutant) An exception holds for the very name only.
CheckAllowedExactly(l) ==
    /\ lk[l].pc = "allow"
    /\ IF lk[l].dom \in allowed THEN Answer(l, FALSE) ELSE LkGoto(l, "deny")
    /\ UNCHANGED <<published, etags, files, opened, cache, rules, rf>>

CheckAllowed(l) ==
    /\ lk[l].pc = "allow"
    /\ IF Covered(lk[l].dom, allowed) THEN Answer(l, FALSE) ELSE LkGoto(l, "deny")
    /\ UNCHANGED <<published, etags, files, opened, cache, rules, rf>>

\* (mutant) The verdict of the operator's rules is remembered too.
CheckDeniedAndRemember(l) ==
    /\ lk[l].pc = "deny"
    /\ IF Covered(lk[l].dom, denied \union Builtin)
       THEN Conclude(l, TRUE)
       ELSE LkGoto(l, "cache")
    /\ UNCHANGED <<published, etags, files, opened, cache, rules, rf>>

CheckDenied(l) ==
    /\ lk[l].pc = "deny"
    /\ IF Covered(lk[l].dom, denied \union Builtin)
       THEN Answer(l, TRUE)
       ELSE LkGoto(l, "cache")
    /\ UNCHANGED <<published, etags, files, opened, cache, rules, rf>>

CheckCache(l) ==
    /\ lk[l].pc = "cache"
    /\ IF cache[lk[l].dom] = "unknown"
       THEN LkGoto(l, "self")
       ELSE Answer(l, cache[lk[l].dom] = "blocked")
    /\ UNCHANGED <<published, etags, files, opened, cache, rules, rf>>

CheckSelf(l) ==
    /\ lk[l].pc = "self"
    /\ IF store = NoFile
       THEN Conclude(l, FALSE)
       ELSE \E found \in Found(lk[l].dom) :
                IF found THEN Conclude(l, TRUE) ELSE LkGoto(l, "walk")
    /\ UNCHANGED <<published, etags, files, opened, cache, rules, rf>>

\* The next suffix: a verdict of the cache is taken as it is, another suffix
\* is looked up alone and remembered under its own name.
Walk(l) ==
    /\ lk[l].pc = "walk"
    /\ lk[l].at <= Len(Up[lk[l].dom])
    /\ LET e == Up[lk[l].dom][lk[l].at]
           Next1 == lk' = [lk EXCEPT ![l].at = @ + 1]
       IN  \/ cache[e] = "blocked" /\ Conclude(l, TRUE) /\ UNCHANGED cache
           \/ cache[e] = "clear" /\ Next1 /\ UNCHANGED cache
           \/ /\ cache[e] = "unknown"
              /\ \E found \in Found(e) :
                    /\ cache' = [cache EXCEPT ![e] = Verdict(found)]
                    /\ IF found THEN Conclude(l, TRUE) ELSE Next1
    /\ UNCHANGED <<published, etags, files, opened, rules, rf>>

WalkEnds(l) ==
    /\ lk[l].pc = "walk"
    /\ lk[l].at > Len(Up[lk[l].dom])
    /\ Conclude(l, FALSE)
    /\ UNCHANGED <<published, etags, files, opened, cache, rules, rf>>

\* The lock on disk_store is gone; only now is the verdict remembered.
Remember(l) ==
    /\ lk[l].pc = "remember"
    /\ cache' = [cache EXCEPT ![lk[l].dom] = Verdict(lk[l].blocked)]
    /\ LkGoto(l, "done")
    /\ UNCHANGED <<published, etags, files, opened, rules, rf>>

Reply(l) ==
    /\ lk[l].pc = "done"
    /\ lk' = [lk EXCEPT ![l] = Resting]
    /\ UNCHANGED <<published, etags, files, opened, cache, rules, rf>>

\* The cache has one entry per slot: a name outside this instance takes it.
Evict(d) ==
    /\ cache[d] # "unknown"
    /\ cache' = [cache EXCEPT ![d] = "unknown"]
    /\ UNCHANGED <<published, etags, files, opened, rules, rf, lk>>

-----------------------------------------------------------------------------
(***************************************************************************)
(* The operator's own rules; every change clears the cache.                *)
(***************************************************************************)
AddDenied(d) ==
    /\ denied' = denied \union {d}
    /\ cache' = Blank
    /\ UNCHANGED <<published, etags, files, opened, allowed, rf, lk>>

RemoveDenied(d) ==
    /\ denied' = denied \ {d}
    /\ cache' = Blank
    /\ UNCHANGED <<published, etags, files, opened, allowed, rf, lk>>

AddAllowed(d) ==
    /\ allowed' = allowed \union {d}
    /\ cache' = Blank
    /\ UNCHANGED <<published, etags, files, opened, denied, rf, lk>>

RemoveAllowed(d) ==
    /\ allowed' = allowed \ {d}
    /\ cache' = Blank
    /\ lk' = [l \in Lookups |-> [lk[l] EXCEPT !.held = @ \ {d}]]
    /\ UNCHANGED <<published, etags, files, opened, denied, rf>>

-----------------------------------------------------------------------------
Publish(u) ==
    /\ published[u] < MaxVersion
    /\ published' = [published EXCEPT ![u] = @ + 1]
    /\ UNCHANGED <<etags, files, opened, cache, rules, rf, lk>>

\* The process is killed and starts again; DnsBlocker::new opens the file, if it
\* can, and reads the tags.  The next temporary file has another name.
Restart ==
    /\ "crash" \in Faults
    /\ tags' = tagFile
    /\ \/ store' = file /\ unread' = FALSE
       \/ "open" \in Faults /\ store' = NoFile /\ unread' = (file # NoFile)
    /\ cache' = Blank
    /\ tmp' = FALSE
    /\ rf' = [r \in Refreshers |-> Asleep]
    /\ lk' = [l \in Lookups |-> Resting]
    /\ UNCHANGED <<published, tagFile, file, overlap, rules>>

RefreshStep(r) ==
    \/ Refresh(r) \/ Reload(r) \/ ReloadFails(r) \/ SwapIn(r) \/ Forget(r) \/ Ask(r)
    \/ \E u \in Urls : Fetch(r, u)
    \/ EndUnchanged(r) \/ EndPartial(r) \/ EndComplete(r)
    \/ Create(r) \/ BuildFails(r) \/ Replace(r) \/ Rename(r)
    \/ Open(r) \/ OpenFails(r) \/ Swap(r) \/ Clean(r)

LookupStep(l) ==
    \/ \E d \in Domains : Query(l, d)
    \/ CheckAllowed(l) \/ CheckDenied(l) \/ CheckCache(l)
    \/ CheckSelf(l) \/ Walk(l) \/ WalkEnds(l) \/ Remember(l) \/ Reply(l)

Next ==
    \/ \E r \in Refreshers : RefreshStep(r)
    \/ \E l \in Lookups : LookupStep(l)
    \/ \E d \in Domains : Evict(d)
    \/ \E d \in Editable : AddDenied(d)
    \/ \E d \in Editable : RemoveDenied(d)
    \/ \E d \in Editable : AddAllowed(d)
    \/ \E d \in Editable : RemoveAllowed(d)
    \/ \E u \in Urls : Publish(u)
    \/ Restart

Spec == Init /\ [][Next]_vars

-----------------------------------------------------------------------------
(***************************************************************************)
(* Properties                                                              *)
(***************************************************************************)

\* Every variable keeps to the values the code can give it, and a refresh that
\* builds has a body of every source.
TypeOK ==
    /\ published \in [Urls -> Versions]
    /\ tags \in [Urls -> Tags]
    /\ tagFile \in [Urls -> Tags]
    /\ file \in Lists
    /\ store \in Lists
    /\ cache \in [Domains -> {"unknown", "blocked", "clear"}]
    /\ denied \in SUBSET Editable
    /\ allowed \in SUBSET Editable
    /\ tmp \in BOOLEAN
    /\ overlap \in BOOLEAN
    /\ unread \in BOOLEAN
    /\ rf \in [Refreshers -> RefreshStates]
    /\ \A r \in Refreshers : rf[r].pc \in {"create", "write", "rename"} =>
           rf[r].got \in [Urls -> Versions]
    /\ lk \in [Lookups -> LookupStates]

\* What the file may hold: a whole round, one published version of every
\* source together with the built-in domains.
Rounds == {got \in [Urls -> Versions] : \A u \in Urls : got[u] <= published[u]}
WholeRound(list) == \E got \in Rounds : list = Compact(Gathered(got))

\* A refresh never loses the rules of a source that failed or did not change:
\* what is in the file comes of every source, however rounds, failures and
\* kills follow each other.  Two refreshes at the same time may write into the
\* same temporary file, and are beyond this promise.
RulesWhole == overlap \/ file = NoFile \/ WholeRound(file)

\* The header in use is never that of a file that is not there any more, with
\* which lookups miss, except while a refresh is about to replace it: whatever
\* fails in between, and even after a file that could not be opened (unread), the
\* next one that is opened brings file and header together again.  Two refreshes
\* at the same time may swap their headers in the wrong order.
StoreIsFile ==
    /\ ~overlap
    /\ ~unread
    /\ \A r \in Refreshers : rf[r].pc \notin {"rename", "open", "swap"}
    /\ file # NoFile
    => store = file

\* Compaction before a build loses no coverage: what is built covers exactly
\* the domains that the gathered rules cover.
CompactionKeepsCoverage ==
    \A r \in Refreshers : rf[r].pc \in {"create", "write", "rename"} =>
        \A d \in Domains : Covered(d, rf[r].list) <=> Covered(d, Gathered(rf[r].got))

\* A cached verdict never comes from the operator's own rules, so that a rule
\* taken back has no after-effect: what the cache calls blocked is covered by
\* something a source published or the program brings along.
CacheFromListsOnly ==
    \A d \in Domains : cache[d] = "blocked" =>
        Covered(d, Builtin \union
                   UNION {UNION {Body[u][v] : v \in 0 .. published[u]} : u \in Urls})

\* A query the operator excepted, for as long as it was being answered, is
\* never blocked: neither by a list, nor by the cache, nor by the deny rules.
AllowedPasses ==
    \A l \in Lookups :
        lk[l].pc = "done" /\ lk[l].blocked => ~Covered(lk[l].dom, lk[l].held)

\* A stored ETag tells the source "I have this version": with no refresh under
\* way, the rules of that version are in force.
TagMeansLoaded ==
    (\A r \in Refreshers : rf[r].pc = "idle") =>
        \A u \in Urls : tags[u] # NoTag =>
            \A d \in Body[u][tags[u]] : Covered(d, file)

\* "Subdomains covered by a blocked parent suffix are dropped ... with zero
\* coverage loss": with nothing under way, a cached verdict is the list's.
CacheAgrees ==
    /\ \A r \in Refreshers : rf[r].pc = "idle"
    /\ \A l \in Lookups : lk[l].pc = "idle"
    => \A d \in Domains : cache[d] # "unknown" =>
           (cache[d] = "blocked" <=> Covered(d, store))

=============================================================================
