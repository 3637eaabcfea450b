----------------------------- MODULE MCBlocklist -----------------------------
(***************************************************************************)
(* Model values for the TLC runs of Blocklist: an ad domain, a name under  *)
(* it and a name under that one, and the domain of a built-in rule.        *)
(***************************************************************************)
EXTENDS Blocklist, TLC

CONSTANTS ads, sub, leaf, player, easylist, adaway, r1, r2

Names == {ads, sub, leaf, player}

Chain == (ads :> <<>>) @@ (sub :> <<ads>>) @@ (leaf :> <<sub, ads>>)
             @@ (player :> <<>>)

Players == {player}
Sources == {easylist, adaway}

\* The ad domain is listed from the second version of EasyList on; AdAway lists
\* the third name at first, and then nothing.
Bodies ==
    (easylist :> [v \in 0 .. 1 |-> IF v = 0 THEN {sub} ELSE {ads, sub}])
        @@ (adaway :> [v \in 0 .. 1 |-> IF v = 0 THEN {leaf} ELSE {}])

\* The ad domain is listed from the start.
AdBodies == [u \in Sources |-> [v \in 0 .. 1 |-> {ads, leaf}]]

NobodyAsks ==
    /\ lk = [l \in Lookups |-> Resting]
    /\ cache = Blank /\ denied = {} /\ allowed = {}

\* Of two refreshes the first is the one that started first.  What both do
\* together is followed until both have ended, with one source that publishes and
\* without lookups and rules, and so, without those, is what one refresh does
\* after a file that could not be opened.
Explored ==
    /\ rf[r2].pc # "idle" => overlap
    /\ overlap => /\ \E r \in Refreshers : rf[r].pc # "idle"
                  /\ tags = tagFile /\ \E u \in Sources : published[u] = 0
                  /\ NobodyAsks
    /\ unread => ~overlap /\ NobodyAsks
=============================================================================
