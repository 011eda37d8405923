----------------------------- MODULE Propagation -----------------------------
(***************************************************************************)
(* The life of one DnsNode zone: its primary publishes new serials and     *)
(* sends NOTIFYs, its servers take the serials over in their own time, and *)
(* the daemon runs one check after the other.                              *)
(*                                                                         *)
(* CheckZone's inputs are closed here by the state of the servers, and by  *)
(* what DnsNode has collected from them, at different times.  The          *)
(* daemon of EventLoop is seen from this zone alone: the job of the zone,  *)
(* and where its check is.  The loop drops a NOTIFY while there is a job;  *)
(* the NOTIFY's own serial is not read, the check asks the primary.        *)
(*                                                                         *)
(* NOTIFYs arrive in any order and may be sent again, but are not lost:    *)
(* what is shown to go wrong goes wrong on a good network.                 *)
(***************************************************************************)
EXTENDS CheckZone

CONSTANT Failures  \* whether lookups and API calls may fail

ASSUME FailuresAssumption == Failures \in BOOLEAN

VARIABLES
  primary,   \* serial the primary serves
  served,    \* serial each server serves
  known,     \* serial DnsNode has collected from each server, which its API reports
  notifies,  \* NOTIFYs on their way, named by the serial they announce
  stage,     \* where the zone's check is; there is a job unless "idle"
  trigger,   \* history: the serial announced by the NOTIFY of this check, 0 without one
  measured   \* history: the last serial whose propagation got a verdict, 0 at first

envVars == <<primary, served, known, notifies>>
jobVars == <<stage, trigger, measured>>
vars == <<checkVars, envVars, jobVars>>

Init ==
  /\ CheckInit /\ dnsnode
  /\ primary = 1
  /\ served = [s \in Servers |-> 1] /\ known = served
  /\ notifies = {}
  /\ stage = "idle"
  /\ trigger = 0 /\ measured = 0

-----------------------------------------------------------------------------
(* The nameservers.                                                         *)

Publish ==
  /\ primary < MaxSerial
  /\ primary' = primary + 1
  /\ notifies' = notifies \cup {primary'}
  /\ UNCHANGED <<served, known, checkVars, jobVars>>

NotifyAgain ==
  /\ notifies' = notifies \cup {primary}
  /\ UNCHANGED <<primary, served, known, checkVars, jobVars>>

Transfer(s) ==
  /\ \E serial \in served[s] + 1 .. primary : served' = [served EXCEPT ![s] = serial]
  /\ UNCHANGED <<primary, known, notifies, checkVars, jobVars>>

\* DnsNode hears of the serial of one server, or of one of its distribution
\* primaries: what the API tells of another may be older.
Collect(s) ==
  /\ known' = [known EXCEPT ![s] = served[s]]
  /\ UNCHANGED <<primary, served, notifies, checkVars, jobVars>>

-----------------------------------------------------------------------------
(* The event loop and the worker pool.                                      *)

\* Mutant: a NOTIFY starts a check whether there is a job or not.
AcceptAlways(v) ==
  /\ v \in notifies
  /\ notifies' = notifies \ {v}
  /\ stage' = "accepted"
  /\ trigger' = v
  /\ UNCHANGED <<primary, served, known, measured, checkVars>>

Accept(v) ==
  /\ v \in notifies /\ stage = "idle"
  /\ notifies' = notifies \ {v}
  /\ stage' = "accepted"
  /\ trigger' = v
  /\ UNCHANGED <<primary, served, known, measured, checkVars>>

Drop(v) ==
  /\ v \in notifies /\ stage # "idle"
  /\ notifies' = notifies \ {v}
  /\ UNCHANGED <<primary, served, known, jobVars, checkVars>>

Enqueue ==
  /\ stage = "accepted"
  /\ stage' = "queued"
  /\ UNCHANGED <<envVars, trigger, measured, checkVars>>

\* A call of checkZone that starts at step first with the target t.
Call(first, t) ==
  /\ stage = "queued"
  /\ stage' = "checking"
  /\ pc' = first /\ target' = t
  /\ nsList' = {} /\ pending' = {}
  /\ ix' = 1
  /\ answers' = Empty /\ output' = {} /\ sites' = Empty
  /\ verdict' = NoVerdict
  /\ UNCHANGED <<dnsnode, check, envVars, trigger, measured>>

\* Mutant: the target of the zone's previous check is used again.
StartFromCache == IF target = QueryError THEN Call("soa", QueryError) ELSE Call("ns", target)

\* A worker calls checkZone, whose local variables are new.
Start == Call("soa", QueryError)

CheckStep ==
  /\ stage = "checking"
  /\ \/ SoaAnswer(primary)
     \/ NsAnswer(Servers)
     \/ ApiAnswer(known)
     \/ Failures /\ (LookupFails \/ ApiFails)
     \/ Proceed
  /\ UNCHANGED <<envVars, jobVars>>

\* MessageDone
Finish ==
  /\ stage = "checking" /\ pc = "done"
  /\ stage' = "idle"
  /\ trigger' = 0
  /\ measured' = IF verdict.given THEN target ELSE measured
  /\ UNCHANGED <<envVars, checkVars>>

Next ==
  \/ Publish \/ NotifyAgain \/ \E s \in Servers : Transfer(s) \/ Collect(s)
  \/ \E v \in Serials : Accept(v) \/ Drop(v)
  \/ Enqueue \/ Start \/ CheckStep \/ Finish

Spec == Init /\ [][Next]_vars

\* The daemon does not stop, as shown of EventLoop; the servers may.
Fairness ==
  /\ WF_vars(Enqueue \/ Start \/ CheckStep \/ Finish)
  /\ \A v \in Serials : WF_vars(Accept(v) \/ Drop(v))

FairSpec == Spec /\ Fairness

-----------------------------------------------------------------------------
TypeOK ==
  /\ CheckTypeOK /\ dnsnode
  /\ primary \in Serials
  /\ served \in [Servers -> 1 .. primary] /\ known \in [Servers -> 1 .. primary]
  /\ notifies \subseteq 1 .. primary
  /\ stage \in {"idle", "accepted", "queued", "checking"}
  /\ trigger \in 0 .. primary /\ measured \in 0 .. primary

\* A check never measures a serial older than the one whose NOTIFY started
\* it: the primary is asked after the NOTIFY, however long the check waited.
FreshTarget ==
  stage = "checking" /\ pc \notin {"soa", "lost"} => target >= trigger

(***************************************************************************)
(* OK means propagated: from then on every server has the target, or a     *)
(* newer serial, although the API tells what DnsNode has heard at one time *)
(* or another.  A daemon that is told to send OK for WARNING is not meant. *)
(***************************************************************************)
OkMeansPropagated ==
  verdict.given /\ verdict.code = OK /\ check.WARNING # OK =>
    \A s \in Servers : served[s] >= target

\* What CheckLifecycle sees of the zone.
LifecycleStage ==
  IF stage # "checking" THEN stage
  ELSE CASE pc = "done" -> "finished"
         [] pc = "lost" -> "lost"
         [] OTHER -> "running"

Zone == {"zone"}

Lifecycle == INSTANCE CheckLifecycle WITH
  Names <- Zone,
  FailingZones <- IF Failures THEN Zone ELSE {},
  stage <- [z \in Zone |-> LifecycleStage]

\* checkZone between its start and MessageDone, and the job around it, is the
\* lifecycle that EventLoop implements for every zone.
ImplementsLifecycle == Lifecycle!Spec

\* A lookup or an API call of the check failed, and nothing was reported.
Failed == stage = "checking" /\ (pc = "lost" \/ (pc = "done" /\ ~verdict.given))

\* A NOTIFY that starts a check gets its serial, or a newer one, measured,
\* unless the check fails.
AcceptedIsMeasured == \A v \in Serials :
  (stage = "accepted" /\ trigger = v) ~> (Failed \/ measured >= v)

(***************************************************************************)
(* "when one arrives, measures how long it takes for the new SOA serial to *)
(* propagate": every announced serial gets measured, or a newer one.       *)
(***************************************************************************)
EveryChangeMeasured == \A v \in Serials :
  v \in notifies ~> measured >= v
=============================================================================
