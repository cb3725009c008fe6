------------------------------ MODULE Heartbeat -----------------------------
(***************************************************************************)
(* The heartbeat (utils/fleetLicense.ts): every 20 minutes, and when the   *)
(* settings are saved or an update failed, it reports the logs written     *)
(* since a mark, and brings the signed licence; a poll brings the licence  *)
(* alone, every 45 seconds.  Nothing keeps two of them apart.              *)
(*                                                                         *)
(* Time is the number of logs written so far.  Abstracted: the logs of     *)
(* severity INFO and below, which are sampled, the 24 hours before the     *)
(* first mark, the rest of the report and the signatures; the commands and *)
(* messages that follow the mark; the knowledge sent upwards and the       *)
(* billing, whose add-on is no more.  What becomes of the knowledge that   *)
(* the answer brings is in KnowledgeDelivery.                              *)
(***************************************************************************)
EXTENDS Naturals

CONSTANTS
  Beat,           \* heartbeats that may run at the same time
  Poll,           \* polls that may run at the same time
  MaxLogs,        \* bound on the logs written
  MaxBeatTrouble  \* bound on crashes, lost answers and statements that throw

ASSUME HeartbeatAssumption ==
  /\ MaxLogs \in Nat /\ MaxBeatTrouble \in Nat
  /\ Beat \cap Poll = {} /\ "cache" \notin Beat \cup Poll

Asker == Beat \cup Poll
Holder == Asker \cup {"cache"}
Log == 1..MaxLogs
Licence == {"active", "suspended"}

VARIABLES
  fleet,     \* the licence at the fleet manager, "none" before it is connected
  licence,   \* the licence in the cache, "none" when it expired
  issued,    \* the order by issued_at of the answers in hand and in the cache, as pairs
  logs,      \* how many logs were written
  mark,      \* lastLogSync: the logs up to it are not reported again
  reported,  \* the logs the fleet manager has
  between,   \* ghost: the logs written between a heartbeat's collection and its mark
  asker,     \* [Asker -> AskerState]
  beatTroubles

beatVars == <<fleet, licence, issued, logs, mark, reported, between, asker, beatTroubles>>

AskerState ==
  [step : {"idle", "asking", "comparing", "caching", "marking"},
   sent : SUBSET Log, licence : Licence \cup {"none"}]

NoAsker == [step |-> "idle", sent |-> {}, licence |-> "none"]

\* Those who hold an answer.
Holds(x) ==
  \/ x \in Asker /\ asker[x].step \in {"comparing", "caching"}
  \/ x = "cache" /\ licence # "none"

Before(x, y) == <<x, y>> \in issued

IssuedInOrder ==
  /\ issued \subseteq Holder \X Holder
  /\ \A x, y \in Holder : Before(x, y) => Holds(x) /\ Holds(y) /\ ~Before(y, x)
  /\ \A x, y \in Holder : Holds(x) /\ Holds(y) /\ x # y => Before(x, y) \/ Before(y, x)
  /\ \A x, y, z \in Holder : Before(x, y) /\ Before(y, z) => Before(x, z)

HeartbeatTypeOK ==
  /\ fleet \in Licence \cup {"none"}
  /\ licence \in Licence \cup {"none"}
  /\ logs \in 0..MaxLogs /\ mark \in 0..logs
  /\ reported \subseteq 1..logs /\ between \subseteq 1..logs
  /\ asker \in [Asker -> AskerState]
  /\ beatTroubles \in 0..MaxBeatTrouble
  /\ IssuedInOrder

HeartbeatInit ==
  /\ fleet = "none" /\ licence = "none" /\ issued = {}
  /\ logs = 0 /\ mark = 0 /\ reported = {}
  /\ between = {}
  /\ asker = [a \in Asker |-> NoAsker]
  /\ beatTroubles = 0

BeatTrouble ==
  /\ beatTroubles < MaxBeatTrouble
  /\ beatTroubles' = beatTroubles + 1

Ends(a) == asker' = [asker EXCEPT ![a] = NoAsker]
Proceeds(a, step) == asker' = [asker EXCEPT ![a].step = step]

IssuedWithout(x) == {pair \in issued : pair[1] # x /\ pair[2] # x}

-----------------------------------------------------------------------------
(* What goes on around them *)

\* The heartbeat has collected, and may still set the mark.
Unmarked(h) == asker[h].step \in {"asking", "comparing", "caching", "marking"}

\* addDebugLog, of a WARN, an ERROR or a FATAL.
WriteLog ==
  /\ logs < MaxLogs
  /\ logs' = logs + 1
  /\ between' = IF \E h \in Beat : Unmarked(h) THEN between \cup {logs + 1} ELSE between
  /\ UNCHANGED <<fleet, licence, issued, mark, reported, asker, beatTroubles>>

\* External, but for the settings that connect the installation: the licence is granted,
\* suspended, restored.
Decide ==
  /\ fleet' \in Licence \ {fleet}
  /\ UNCHANGED <<licence, issued, logs, mark, reported, between, asker, beatTroubles>>

\* The cached licence is past its valid_until: nothing answered for a day.
Forget ==
  /\ licence # "none"
  /\ BeatTrouble
  /\ licence' = "none"
  /\ issued' = IssuedWithout("cache")
  /\ UNCHANGED <<fleet, logs, mark, reported, between, asker>>

\* The process dies; the database, the cache and the mark stay.
BeatCrash ==
  /\ BeatTrouble
  /\ asker' = [a \in Asker |-> NoAsker]
  /\ issued' = {}
  /\ UNCHANGED <<fleet, licence, logs, mark, reported, between>>

-----------------------------------------------------------------------------
(* One heartbeat, or one poll *)

\* Mutant of Collect: the mark is set as soon as the logs are read.
CollectAndMark(a) ==
  /\ fleet # "none" /\ asker[a].step = "idle"
  /\ asker' = [asker EXCEPT ![a].step = "asking",
                            ![a].sent = IF a \in Beat THEN mark + 1..logs ELSE {}]
  /\ mark' = IF a \in Beat THEN logs ELSE mark
  /\ UNCHANGED <<fleet, licence, issued, logs, reported, between, beatTroubles>>

\* collectRecentLogs, once the fleet manager is configured; the scans and the checks of
\* the services follow.
Collect(a) ==
  /\ fleet # "none" /\ asker[a].step = "idle"
  /\ asker' = [asker EXCEPT ![a].step = "asking",
                            ![a].sent = IF a \in Beat THEN mark + 1..logs ELSE {}]
  /\ UNCHANGED <<fleet, licence, issued, logs, mark, reported, between, beatTroubles>>

\* The fleet manager records the report and answers; or the answer, or the report too,
\* is lost, and the heartbeat is over.
Ask(a) ==
  /\ asker[a].step = "asking"
  /\ \/ /\ reported' = reported \cup asker[a].sent
        /\ issued' = issued \cup {<<x, a>> : x \in {y \in Holder : Holds(y)}}
        /\ asker' = [asker EXCEPT ![a] =
             [step |-> "comparing", sent |-> {}, licence |-> fleet]]
        /\ UNCHANGED beatTroubles
     \/ /\ BeatTrouble
        /\ reported' \in {reported, reported \cup asker[a].sent}
        /\ Ends(a)
        /\ UNCHANGED issued
  /\ UNCHANGED <<fleet, licence, logs, mark, between>>

\* Mutant of Newer: the comparison is the other way round.
NewerReversed(a) == licence = "none" \/ Before(a, "cache")

\* Nothing is cached, or the answer was issued after what is.
Newer(a) == licence = "none" \/ Before("cache", a)

\* verifyAndCacheLicensePayload, the read: what is not newer ends the heartbeat.
Compare(a) ==
  /\ asker[a].step = "comparing"
  /\ IF Newer(a) THEN Proceeds(a, "caching") /\ UNCHANGED issued
     ELSE Ends(a) /\ issued' = IssuedWithout(a)
  /\ UNCHANGED <<fleet, licence, logs, mark, reported, between, beatTroubles>>

\* The write, over whatever was cached meanwhile.
CacheIt(a) ==
  /\ asker[a].step = "caching"
  /\ licence' = asker[a].licence
  /\ LET others == Holder \ {a}
         Was(x) == IF x = "cache" THEN a ELSE x IN
     issued' = {pair \in others \X others : Before(Was(pair[1]), Was(pair[2]))}
  /\ IF a \in Beat
     THEN asker' = [asker EXCEPT ![a].step = "marking", ![a].licence = "none"]
     ELSE Ends(a)
  /\ UNCHANGED <<fleet, logs, mark, reported, between, beatTroubles>>

\* The mark is the time it is now.
SetMark(a) ==
  /\ asker[a].step = "marking"
  /\ mark' = logs
  /\ Ends(a)
  /\ UNCHANGED <<fleet, licence, issued, logs, reported, between, beatTroubles>>

-----------------------------------------------------------------------------

AskerStep(a) == Ask(a) \/ Compare(a) \/ CacheIt(a) \/ SetMark(a)

HeartbeatNext ==
  \/ WriteLog \/ Decide \/ Forget \/ BeatCrash
  \/ \E a \in Asker : Collect(a) \/ AskerStep(a)

HeartbeatSpec == HeartbeatInit /\ [][HeartbeatNext]_beatVars

\* What was started goes on (every call has a timeout), and the poll is repeated.
HeartbeatFairness ==
  /\ \A a \in Asker : WF_beatVars(AskerStep(a))
  /\ \A a \in Poll : WF_beatVars(Collect(a))

-----------------------------------------------------------------------------

\* The mark passes over no log the fleet manager does not have, whatever report or answer
\* was lost, refused or overtaken, but for those written while a heartbeat was on its way
\* (collectRecentLogs, lastLogSync).
UnreportedIsBetween == 1..mark \subseteq reported \cup between

\* A suspension or its end reaches the installation and stays, in whatever order the
\* answers of heartbeats and polls arrive (verifyAndCacheLicensePayload).
LicenceFollows ==
  \A s \in Licence : <>[](fleet = s) => <>[](licence = s)

=============================================================================
