------------------------------ MODULE Gonemaster ------------------------------
(***************************************************************************)
(* One run of check_gonemaster: run gonemaster for every zone that is to   *)
(* be checked, in the order of a Go map, and send Icinga the worst level   *)
(* it reports for the zone.                                                *)
(***************************************************************************)
EXTENDS MonitoringResult, SequencesExt

CONSTANTS
  GoneZones,   \* config.Zones: name -> template (the name starts with "_"),
               \*   enabled (dns_check_gonemaster), exclude
  Requests,    \* --zone: sets of names; {} if it is not given
  Reports      \* lists of test results gonemaster may print

Levels == <<"INFO", "NOTICE", "WARNING", "ERROR", "CRITICAL">>

VARIABLES
  pc,
  requested,   \* opts.Zones
  notifyNagios,\* config.NotifyNagios
  left,        \* zones the loop has still to visit
  checkErr,    \* an error to return
  failed,      \* history: zones gonemaster failed for
  printed,     \* history: the test results gonemaster has printed, per zone
  zone,        \* zonename, and ...
  test,        \* ... index of the next of its results to look at
  worst,       \* worstOrdinal, as a place in Levels; 0 if there is none
  reported,    \* return code sent, per zone
  exit         \* exit status of the process

loopVars == <<zone, test, worst>>
goneVars == <<requested, notifyNagios, left, checkErr, failed, printed, loopVars, reported>>
vars == <<pc, exit, goneVars>>

NoZones == [z \in {} |-> OK]

Init ==
  /\ requested \in Requests
  /\ notifyNagios \in BOOLEAN
  /\ pc = "start"
  /\ left = DOMAIN GoneZones
  /\ checkErr = FALSE /\ failed = {}
  /\ printed = NoZones /\ reported = NoZones
  /\ zone = "" /\ test = 1 /\ worst = 0
  /\ exit = Running

\* gonemaster is not installed, or a zone of the command line is not configured.
Refuse ==
  /\ pc = "start"
  /\ pc' = "exited" /\ exit' = Failure
  /\ UNCHANGED goneVars

Start ==
  /\ pc = "start"
  /\ requested \subseteq DOMAIN GoneZones
  /\ pc' = "zones"
  /\ UNCHANGED <<exit, goneVars>>

Wanted(z) ==
  /\ ~GoneZones[z].template
  /\ GoneZones[z].enabled
  /\ requested = {} \/ z \in requested

Visit(z) == pc = "zones" /\ z \in left /\ left' = left \ {z}

Skip(z) ==
  /\ Visit(z) /\ ~Wanted(z)
  /\ UNCHANGED <<pc, exit, requested, notifyNagios, checkErr, failed, printed, loopVars, reported>>

\* Mutant: the first failure ends the loop.
ZoneFailsAll(z) ==
  /\ pc = "zones" /\ z \in left /\ Wanted(z)
  /\ left' = {}
  /\ checkErr' = TRUE
  /\ failed' = failed \cup {z}
  /\ UNCHANGED <<pc, exit, requested, notifyNagios, printed, loopVars, reported>>

\* gonemaster fails, or prints what is not JSON: nothing is sent for the zone.
ZoneFails(z) ==
  /\ Visit(z) /\ Wanted(z)
  /\ checkErr' = TRUE
  /\ failed' = failed \cup {z}
  /\ UNCHANGED <<pc, exit, requested, notifyNagios, printed, loopVars, reported>>

\* It prints its test results.
ZonePrints(z, results) ==
  /\ Visit(z) /\ Wanted(z)
  /\ printed' = [y \in DOMAIN printed \cup {z} |-> IF y = z THEN results ELSE printed[y]]
  /\ pc' = "results"
  /\ zone' = z /\ test' = 1 /\ worst' = 0
  /\ UNCHANGED <<exit, requested, notifyNagios, checkErr, failed, reported>>

-----------------------------------------------------------------------------
(* The test results of a zone.                                              *)

\* A test is excluded by the name of its module, or of module and test case.
Excluded(z, result) ==
  GoneZones[z].exclude \cap {<<result.module>>, <<result.module, result.testcase>>} # {}

\* Of an unknown level it is 0.
Ordinal(level) == IF level \in ToSet(Levels) THEN CHOOSE i \in DOMAIN Levels : Levels[i] = level ELSE 0

Result == printed[zone][test]

\* Mutant: the level of the last test counts.
NextResultLasts ==
  /\ pc = "results" /\ test \in DOMAIN printed[zone]
  /\ worst' = IF Excluded(zone, Result) THEN worst ELSE Ordinal(Result.level)
  /\ test' = test + 1
  /\ UNCHANGED <<pc, exit, requested, notifyNagios, left, checkErr, failed, printed, zone, reported>>

NextResult ==
  /\ pc = "results" /\ test \in DOMAIN printed[zone]
  /\ worst' = IF ~Excluded(zone, Result) /\ Ordinal(Result.level) > worst
                THEN Ordinal(Result.level) ELSE worst
  /\ test' = test + 1
  /\ UNCHANGED <<pc, exit, requested, notifyNagios, left, checkErr, failed, printed, zone, reported>>

LevelToReturnCode(place) ==
  IF place > 3 THEN CRITICAL ELSE IF place = 3 THEN WARNING ELSE OK

\* With notify_nagios the first Notify panics, after it has sent.
Report ==
  /\ pc = "results" /\ test > Len(printed[zone])
  /\ reported' = [y \in DOMAIN reported \cup {zone} |->
                    IF y = zone THEN LevelToReturnCode(worst) ELSE reported[y]]
  /\ IF notifyNagios THEN pc' = "exited" /\ exit' = Panic ELSE pc' = "zones" /\ UNCHANGED exit
  /\ UNCHANGED <<requested, notifyNagios, left, checkErr, failed, printed, loopVars>>

Done ==
  /\ pc = "zones" /\ left = {}
  /\ pc' = "exited" /\ exit' = IF checkErr THEN Failure ELSE OK
  /\ UNCHANGED goneVars

Next ==
  \/ Refuse \/ Start
  \/ \E z \in left : Skip(z) \/ ZoneFails(z) \/ \E results \in Reports : ZonePrints(z, results)
  \/ NextResult \/ Report \/ Done

Spec == Init /\ [][Next]_vars

-----------------------------------------------------------------------------
\* With no zone configured there is nothing to see from left.
LoopDone == left = {} /\ DOMAIN GoneZones # {}

(***************************************************************************)
(* A zone gonemaster fails for does not keep the others from being         *)
(* checked: in the end every zone that is wanted has had a result sent or  *)
(* has failed, not both, and no other zone has; and the exit status says   *)
(* whether one failed.                                                     *)
(***************************************************************************)
EveryZoneHandled == pc = "exited" /\ LoopDone /\ exit # Panic =>
  /\ {z \in DOMAIN GoneZones : Wanted(z)} = failed \cup DOMAIN reported
  /\ failed \cap DOMAIN reported = {}
  /\ exit = Failure <=> failed # {}

Counted(z) == {Ordinal(printed[z][i].level) :
                 i \in {j \in DOMAIN printed[z] : ~Excluded(z, printed[z][j])}}

(***************************************************************************)
(* What is sent for a zone is CRITICAL if one of the tests that count is   *)
(* at level ERROR or CRITICAL, else WARNING if one is at that level, else  *)
(* OK, in whatever order the tests come.                                   *)
(***************************************************************************)
WorstLevelSent == \A z \in DOMAIN reported :
  /\ reported[z] = CRITICAL <=> Counted(z) \cap {4, 5} # {}
  /\ reported[z] # OK <=> Counted(z) \cap {3, 4, 5} # {}
=============================================================================
