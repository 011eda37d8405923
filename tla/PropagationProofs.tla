--------------------------- MODULE PropagationProofs ---------------------------
(***************************************************************************)
(* Proofs about Propagation: for any number of servers, serials and tries, *)
(* a check measures no serial older than the one it was started for, its   *)
(* OK means that every server has the target, and the zone goes through    *)
(* the stages of CheckLifecycle.                                           *)
(***************************************************************************)
EXTENDS Propagation, CheckZoneProofs

\* The check is called between "soa" and the end of the job.
Called == stage # "checking" => pc \in {"soa", "done"}

\* The primary has been asked: its answer was not older than the NOTIFY, and
\* has not been withdrawn since.
TargetOfPrimary ==
  stage = "checking" /\ pc \notin {"soa", "lost"} => target \in trigger .. primary

\* The servers still have what they answered, or something newer.
AnswersOfServers == pc \in {"judge", "report"} \/ verdict.given =>
  /\ DOMAIN answers = Servers
  /\ \A s \in Servers : answers[s] \in 1 .. served[s]

\* What DnsNode has collected is not ahead of the servers.
KnownIsPast == \A s \in Servers : known[s] <= served[s]

PropInv == TypeOK /\ CheckInv /\ Called /\ TargetOfPrimary /\ AnswersOfServers /\ KnownIsPast

-----------------------------------------------------------------------------
LEMMA PropInitInv == Init => PropInv
<1> SUFFICES ASSUME Init PROVE PropInv
  OBVIOUS
<1> USE SerialAssumption DEF Init
<1>1. CheckInv /\ CheckTypeOK
  BY CheckInitInv DEF CheckInv
<1>2. pc = "soa" /\ ~verdict.given
  BY DEF CheckInit, NoVerdict
<1>3. TypeOK /\ KnownIsPast
  BY <1>1 DEF TypeOK, Serials, KnownIsPast
<1> QED
  BY <1>1, <1>2, <1>3 DEF PropInv, Called, TargetOfPrimary, AnswersOfServers

LEMMA CheckInitInvNext == CheckInit' => CheckInv'
BY CheckInitInv, PTL

\* A step that leaves the check alone.
LEMMA CheckStands == ASSUME CheckInv, UNCHANGED checkVars PROVE CheckInv' /\ CheckTypeOK'
BY CheckNextInv DEF CheckInv

\* The nameservers, and what DnsNode hears of them: serials only grow.
LEMMA ServerStepInv ==
  ASSUME PropInv, Publish \/ NotifyAgain \/ \E s \in Servers : Transfer(s) \/ Collect(s)
  PROVE  PropInv'
<1> USE SerialAssumption DEF PropInv
<1>1. UNCHANGED <<checkVars, jobVars>>
  BY DEF Publish, NotifyAgain, Transfer, Collect
<1>2. CheckInv' /\ CheckTypeOK'
  BY <1>1, CheckStands
<1>3. /\ primary' \in Serials /\ primary' >= primary /\ primary \in Nat
      /\ notifies' \subseteq 1 .. primary'
  <2>1. primary \in 1 .. MaxSerial /\ primary \in Nat /\ notifies \subseteq 1 .. primary
    BY DEF TypeOK, Serials
  <2>2. primary' \in {primary, primary + 1} /\ primary' \in 1 .. MaxSerial
    BY <2>1 DEF Publish, NotifyAgain, Transfer, Collect
  <2>3. notifies' \subseteq notifies \cup {primary'}
    BY DEF Publish, NotifyAgain, Transfer, Collect
  <2> QED
    BY <2>1, <2>2, <2>3 DEF Serials
<1>4. served' \in [Servers -> 1 .. primary'] /\ \A s \in Servers : served'[s] >= served[s]
  <2>1. CASE Publish \/ NotifyAgain \/ \E s \in Servers : Collect(s)
    BY <1>3, <2>1 DEF Publish, NotifyAgain, Collect, TypeOK
  <2>2. CASE \E s \in Servers : Transfer(s)
    <3>1. PICK s \in Servers : Transfer(s)
      BY <2>2
    <3>2. PICK serial \in served[s] + 1 .. primary : served' = [served EXCEPT ![s] = serial]
      BY <3>1 DEF Transfer
    <3>3. primary' = primary
      BY <3>1 DEF Transfer
    <3>4. served \in [Servers -> 1 .. primary]
      BY DEF TypeOK
    <3> QED
      BY <1>3, <3>2, <3>3, <3>4
  <2> QED
    BY <2>1, <2>2
<1>5. known' \in [Servers -> 1 .. primary'] /\ KnownIsPast'
  <2>1. known \in [Servers -> 1 .. primary] /\ served \in [Servers -> 1 .. primary]
    BY DEF TypeOK
  <2>2. \A s \in Servers : known'[s] \in {known[s], served[s]}
    <3>1. CASE \E s \in Servers : Collect(s)
      BY <2>1, <3>1 DEF Collect
    <3>2. CASE UNCHANGED known
      BY <2>1, <3>2
    <3> QED
      BY <3>1, <3>2 DEF Publish, NotifyAgain, Transfer
  <2>3. ASSUME NEW s \in Servers PROVE known'[s] <= served'[s]
    <3>1. known[s] <= served[s] /\ served[s] <= served'[s]
      BY <1>4 DEF KnownIsPast
    <3>2. known[s] \in Nat /\ served[s] \in Nat /\ served'[s] \in Nat
      BY <1>3, <1>4, <2>1 DEF Serials
    <3> QED
      BY <2>2, <3>1, <3>2
  <2>4. known' \in [Servers -> 1 .. primary']
    <3>1. 1 .. primary \subseteq 1 .. primary'
      BY <1>3 DEF Serials
    <3>2. known' \in [Servers -> 1 .. primary]
      BY <2>1 DEF Publish, NotifyAgain, Transfer, Collect
    <3> QED
      BY ONLY <3>1, <3>2
  <2> QED
    BY <2>3, <2>4 DEF KnownIsPast
<1>6. TypeOK'
  <2>1. \A n \in 0 .. primary : n \in 0 .. primary'
    BY <1>3 DEF Serials
  <2>2. trigger' \in 0 .. primary' /\ measured' \in 0 .. primary'
        /\ stage' \in {"idle", "accepted", "queued", "checking"} /\ dnsnode'
    BY <1>1, <2>1 DEF TypeOK, checkVars, jobVars
  <2> QED
    BY <1>2, <1>3, <1>4, <1>5, <2>2 DEF TypeOK
<1>7. TargetOfPrimary'
  BY <1>1, <1>3 DEF TypeOK, TargetOfPrimary, checkVars, jobVars
<1>8. AnswersOfServers'
  <2>1. \A s \in Servers : answers[s] \in 1 .. served[s] => answers[s] \in 1 .. served'[s]
    BY <1>4 DEF TypeOK
  <2> QED
    BY <1>1, <2>1 DEF AnswersOfServers, checkVars
<1> QED
  BY <1>1, <1>2, <1>5, <1>6, <1>7, <1>8 DEF Called, checkVars, jobVars

\* The event loop and the worker pool.
LEMMA JobStepInv ==
  ASSUME PropInv, (\E v \in Serials : Accept(v) \/ Drop(v)) \/ Enqueue \/ Finish
  PROVE  PropInv'
<1> USE SerialAssumption DEF PropInv
<1>1. UNCHANGED <<checkVars, primary, served, known>>
  BY DEF Accept, Drop, Enqueue, Finish, envVars
<1>2. CheckInv' /\ CheckTypeOK'
  BY <1>1, CheckStands
<1>3. /\ stage' # "checking" \/ UNCHANGED <<stage, trigger>>
      /\ stage' # "checking" => pc \in {"soa", "done"}
  BY DEF Accept, Drop, Enqueue, Finish, Called, jobVars
<1>4. TypeOK'
  <2>1. primary \in Nat /\ dnsnode
    BY DEF TypeOK, Serials
  <2>2. ASSUME NEW v \in Serials, Accept(v) \/ Drop(v) PROVE TypeOK'
    <3>1. v \in 1 .. primary /\ notifies' \subseteq 1 .. primary /\ UNCHANGED measured
          /\ trigger' \in {trigger, v} /\ stage' \in {stage, "accepted"}
      BY <2>2 DEF TypeOK, Accept, Drop, jobVars
    <3>2. trigger' \in 0 .. primary
      BY <2>1, <3>1 DEF TypeOK
    <3> QED
      BY <1>1, <1>2, <2>1, <3>1, <3>2 DEF TypeOK, checkVars
  <2>3. CASE Enqueue
    BY <1>1, <1>2, <2>1, <2>3 DEF TypeOK, Enqueue, envVars, checkVars
  <2>4. CASE Finish
    <3>1. target \in 0 .. primary
      BY <2>1, <2>4 DEF Finish, TargetOfPrimary, TypeOK
    <3> QED
      BY <1>1, <1>2, <2>1, <2>4, <3>1 DEF TypeOK, Finish, envVars, checkVars
  <2> QED
    BY <2>2, <2>3, <2>4
<1> QED
  BY <1>1, <1>2, <1>3, <1>4 DEF Called, TargetOfPrimary, AnswersOfServers, KnownIsPast, checkVars

LEMMA StartInv == ASSUME PropInv, Start PROVE PropInv'
<1> USE DEF PropInv
<1>1. CheckInit' /\ UNCHANGED <<dnsnode, check, envVars, trigger, measured>> /\ stage' = "checking"
  BY DEF Start, Call, CheckInit, CheckTypeOK, TypeOK
<1>2. CheckInv' /\ CheckTypeOK' /\ pc' = "soa" /\ ~verdict'.given
  BY <1>1, CheckInitInvNext DEF CheckInv, CheckInit, NoVerdict
<1>3. TypeOK'
  BY <1>1, <1>2 DEF TypeOK, envVars
<1> QED
  BY <1>1, <1>2, <1>3 DEF Called, TargetOfPrimary, AnswersOfServers, KnownIsPast, envVars

LEMMA CheckStepInv == ASSUME PropInv, CheckStep PROVE PropInv'
<1> USE SerialAssumption DEF PropInv
<1>1. /\ stage = "checking" /\ UNCHANGED <<stage, trigger, measured, primary, served, known, notifies>>
      /\ primary \in Serials /\ trigger \in 0 .. primary /\ known \in [Servers -> 1 .. primary]
      /\ served \in [Servers -> 1 .. primary] /\ dnsnode /\ primary \in Nat
  BY DEF CheckStep, envVars, jobVars, TypeOK, Serials
<1>2. known \in ServerAnswers
  <2>1. known \in [Servers -> Serials]
    BY <1>1 DEF Serials
  <2> QED
    BY <2>1 DEF ServerAnswers
<1>3. CheckNext
  BY <1>1, <1>2 DEF CheckStep, CheckNext, Ask
<1>4. CheckInv' /\ CheckTypeOK' /\ UNCHANGED dnsnode
  <2>1. CheckInv' /\ CheckTypeOK'
    BY <1>3, CheckNextInv DEF CheckInv
  <2>2. UNCHANGED dnsnode
    BY DEF CheckStep, SoaAnswer, NsAnswer, LookupFails, ApiAnswer, ApiFails, Proceed,
           StartQueries, EndQueries, AllRight, SleepAndRetry, Report
  <2> QED
    BY <2>1, <2>2
<1>5. TypeOK' /\ Called' /\ KnownIsPast'
  BY <1>1, <1>4 DEF TypeOK, Called, KnownIsPast
<1>6. pc # "query" /\ ~(dnsnode /\ StartQueries)
  BY <1>1 DEF CheckInv, Asked, StartQueries
<1>7. TargetOfPrimary'
  <2>1. CASE SoaAnswer(primary)
    BY <1>1, <2>1 DEF SoaAnswer, TargetOfPrimary
  <2>2. CASE LookupFails
    BY <2>2 DEF LookupFails, TargetOfPrimary
  <2>3. CASE NsAnswer(Servers) \/ ApiAnswer(known) \/ ApiFails \/ Proceed
    <3>1. pc \notin {"soa", "lost"} /\ UNCHANGED target
      BY <2>3 DEF NsAnswer, ApiAnswer, ApiFails, Proceed, StartQueries, EndQueries, AllRight,
                  SleepAndRetry, Report
    <3> QED
      BY <1>1, <3>1 DEF TargetOfPrimary
  <2> QED
    BY <2>1, <2>2, <2>3 DEF CheckStep
<1>8. AnswersOfServers'
  <2>1. CASE ApiAnswer(known)
    <3>1. DOMAIN answers' = Servers /\ answers' = known
      BY <1>1, <2>1 DEF ApiAnswer
    <3>2. ASSUME NEW s \in Servers PROVE known[s] \in 1 .. served[s]
      BY <1>1, <3>2 DEF KnownIsPast
    <3> QED
      BY <1>1, <3>1, <3>2 DEF AnswersOfServers
  <2>2. CASE SoaAnswer(primary) \/ NsAnswer(Servers) \/ LookupFails \/ ApiFails
    <3>1. UNCHANGED verdict /\ ~verdict.given /\ pc' \notin {"judge", "report"}
      BY <2>2 DEF SoaAnswer, NsAnswer, LookupFails, ApiFails, CheckInv, Reported
    <3> QED
      BY <3>1 DEF AnswersOfServers
  <2>3. CASE AllRight \/ SleepAndRetry \/ Report
    BY <1>1, <2>3 DEF AllRight, SleepAndRetry, Report, AnswersOfServers, CheckInv, Reported
  <2> QED
    BY <1>1, <1>6, <2>1, <2>2, <2>3 DEF CheckStep, Proceed, EndQueries
<1> QED
  BY <1>4, <1>5, <1>7, <1>8

LEMMA PropNextInv == PropInv /\ [Next]_vars => PropInv'
<1> SUFFICES ASSUME PropInv, [Next]_vars PROVE PropInv'
  OBVIOUS
<1>1. CASE UNCHANGED vars
  <2>1. CheckInv' /\ CheckTypeOK'
    BY <1>1, CheckStands DEF PropInv, vars
  <2> QED
    BY <1>1, <2>1 DEF vars, checkVars, envVars, jobVars, PropInv, TypeOK, Called,
                      TargetOfPrimary, AnswersOfServers, KnownIsPast
<1> QED
  BY <1>1, ServerStepInv, JobStepInv, StartInv, CheckStepInv DEF Next

-----------------------------------------------------------------------------
\* What the variables may hold; of the serials, none is ahead of the primary.
THEOREM TypeCorrect == Spec => []TypeOK
<1>1. PropInv => TypeOK
  BY DEF PropInv
<1> QED
  BY <1>1, PropInitInv, PropNextInv, PTL DEF Spec

\* A check never measures a serial older than the one whose NOTIFY started it:
\* handle_notify's serial is not used, checkZone asks the primary when it runs.
THEOREM TargetIsFresh == Spec => []FreshTarget
<1>1. PropInv => FreshTarget
  BY DEF PropInv, TypeOK, Serials, TargetOfPrimary, FreshTarget
<1> QED
  BY <1>1, PropInitInv, PropNextInv, PTL DEF Spec

\* When checkZone has told Icinga OK, and is not told to send that for WARNING,
\* every server has the serial it measured, or a newer one, and keeps it.
THEOREM OkIsPropagated == Spec => []OkMeansPropagated
<1>1. ASSUME PropInv, verdict.given, verdict.code = OK, check.WARNING # OK, NEW s \in Servers
      PROVE  served[s] >= target
  <2>1. output = {}
    BY <1>1 DEF PropInv, CheckInv, Reported
  <2>2. DOMAIN answers = Servers /\ answers[s] \in 1 .. served[s]
    BY <1>1 DEF PropInv, AnswersOfServers
  <2>3. answers[s] = target
    BY <1>1, <2>1, <2>2 DEF PropInv, CheckInv, OutputIsWrong
  <2>4. served[s] \in Nat
    BY <1>1 DEF PropInv, TypeOK, Serials
  <2> QED
    BY <2>2, <2>3, <2>4
<1>2. PropInv => OkMeansPropagated
  BY <1>1 DEF OkMeansPropagated
<1> QED
  BY <1>2, PropInitInv, PropNextInv, PTL DEF Spec

-----------------------------------------------------------------------------
(* The lifecycle of the zone.                                               *)

LEMMA OneStage ==
  ASSUME NEW from, NEW to, LifecycleStage = from, LifecycleStage' = to
  PROVE  Lifecycle!Move("zone", from, to)
BY DEF Lifecycle!Move, Zone

LEMMA PropStepRefines ==
  PropInv /\ [Next]_vars => [Lifecycle!Next]_([z \in Zone |-> LifecycleStage])
<1> DEFINE zoneStage == [z \in Zone |-> LifecycleStage]
<1> SUFFICES ASSUME PropInv, [Next]_vars PROVE Lifecycle!Next \/ UNCHANGED zoneStage
  OBVIOUS
<1>0. ASSUME UNCHANGED LifecycleStage PROVE UNCHANGED zoneStage
  BY <1>0
<1>a. ASSUME NEW from, NEW to, LifecycleStage = from, LifecycleStage' = to,
             \/ <<from, to>> \in {<<"idle", "accepted">>, <<"accepted", "queued">>,
                                  <<"queued", "running">>, <<"running", "finished">>,
                                  <<"finished", "idle">>}
             \/ <<from, to>> = <<"running", "lost">> /\ Failures
      PROVE  Lifecycle!Next
  <2>1. Lifecycle!Move("zone", from, to) /\ "zone" \in Zone
    BY <1>a, OneStage DEF Zone
  <2> QED
    BY <1>a, <2>1 DEF Lifecycle!Next, Lifecycle!Accept, Lifecycle!Enqueue, Lifecycle!Start,
                      Lifecycle!Finish, Lifecycle!Lose, Lifecycle!Clear
<1> HIDE DEF zoneStage
<1>1. CASE UNCHANGED <<stage, pc>>
  BY <1>0, <1>1 DEF LifecycleStage
<1>2. CASE \E v \in Serials : Accept(v)
  BY <1>a, <1>2 DEF Accept, LifecycleStage
<1>3. CASE Enqueue
  BY <1>a, <1>3 DEF Enqueue, LifecycleStage
<1>4. CASE Start
  BY <1>a, <1>4 DEF Start, Call, LifecycleStage
<1>5. CASE Finish
  BY <1>a, <1>5 DEF Finish, LifecycleStage
<1>6. CASE CheckStep
  <2>1. stage = "checking" /\ stage' = "checking"
    BY <1>6 DEF CheckStep, jobVars
  <2>2. pc \notin {"done", "lost"}
    BY <1>6 DEF CheckStep, SoaAnswer, NsAnswer, LookupFails, ApiAnswer, ApiFails, Proceed,
                StartQueries, EndQueries, AllRight, SleepAndRetry, Report
  <2>3. pc' = "lost" => Failures
    BY <1>6 DEF CheckStep, SoaAnswer, NsAnswer, ApiAnswer, Proceed, StartQueries, EndQueries,
                AllRight, SleepAndRetry, Report
  <2>4. CASE pc' = "lost"
    BY <1>a, <2>1, <2>2, <2>3, <2>4 DEF LifecycleStage
  <2>5. CASE pc' = "done"
    BY <1>a, <2>1, <2>2, <2>5 DEF LifecycleStage
  <2>6. CASE pc' \notin {"done", "lost"}
    BY <1>0, <2>1, <2>2, <2>6 DEF LifecycleStage
  <2> QED
    BY <2>4, <2>5, <2>6
<1>7. ASSUME Publish \/ NotifyAgain \/ (\E s \in Servers : Transfer(s) \/ Collect(s))
             \/ (\E v \in Serials : Drop(v)) \/ UNCHANGED vars
      PROVE  UNCHANGED <<stage, pc>>
  BY <1>7 DEF Publish, NotifyAgain, Transfer, Collect, Drop, vars, jobVars, checkVars
<1> QED
  BY <1>1, <1>2, <1>3, <1>4, <1>5, <1>6, <1>7 DEF Next

\* checkZone, from the NOTIFY that starts it to the event that ends its job,
\* goes through the stages of CheckLifecycle, which EventLoop implements for
\* every zone.
THEOREM ZoneLifecycleImplemented == Spec => ImplementsLifecycle
<1>1. Init => Lifecycle!Init
  BY DEF Init, Lifecycle!Init, LifecycleStage
<1>2. PropInv /\ [Next]_vars => [Lifecycle!Next]_([z \in Zone |-> LifecycleStage])
  BY PropStepRefines
<1> QED
  BY <1>1, <1>2, PropInitInv, PropNextInv, PTL DEF Spec, ImplementsLifecycle, Lifecycle!Spec
=============================================================================
