-------------------------- MODULE EventLoopRefinement --------------------------
(***************************************************************************)
(* EventLoop implements CheckLifecycle: seen from one zone, what channels, *)
(* goroutines and the map jobs do is one move of the stage of one check,   *)
(* or nothing.  That no job is lost follows from the abstract moves.       *)
(* Seen from its operators it implements SessionLifecycle.                 *)
(***************************************************************************)
EXTENDS EventLoopProofs

\* The refinement mapping.
stages == [n \in Names |-> Stage(n)]

-----------------------------------------------------------------------------
(* Stages.                                                                  *)

LEMMA StageIs ==
  ASSUME SingleFlight, NEW n \in Names
  PROVE  /\ n \notin jobs => Stage(n) = "idle"
         /\ Dispatching(n) => Stage(n) = "accepted"
         /\ Queued(n) => Stage(n) = "queued"
         /\ Running(n) => Stage(n) = "running"
         /\ Finished(n) => Stage(n) = "finished"
         /\ n \in jobs /\ ~InFlight(n) => Stage(n) = "lost"
BY DEF SingleFlight, OnePlace, Registered, InFlight, Stage

LEMMA NextStageIs ==
  ASSUME SingleFlight', NEW n \in Names
  PROVE  /\ n \notin jobs' => Stage(n)' = "idle"
         /\ Dispatching(n)' => Stage(n)' = "accepted"
         /\ Queued(n)' => Stage(n)' = "queued"
         /\ Running(n)' => Stage(n)' = "running"
         /\ Finished(n)' => Stage(n)' = "finished"
         /\ n \in jobs' /\ ~InFlight(n)' => Stage(n)' = "lost"
BY DEF SingleFlight, OnePlace, Registered, InFlight, Stage

\* A name whose place does not change stays in its stage.
LEMMA StageStays ==
  ASSUME NEW n \in Names,
         n \in jobs' <=> n \in jobs,
         Dispatching(n)' <=> Dispatching(n),
         Queued(n)' <=> Queued(n),
         Running(n)' <=> Running(n),
         Finished(n)' <=> Finished(n)
  PROVE  Stage(n)' = Stage(n)
BY DEF Stage

\* A step that changes the place of no name.
LEMMA NothingMoves ==
  ASSUME UNCHANGED <<chanWork, worker, jobs>>,
         loop.pc = "dispatch" \/ loop'.pc = "dispatch" => UNCHANGED loop,
         \A n \in Names : HasDone(chanEvent', n) <=> HasDone(chanEvent, n)
  PROVE  UNCHANGED stages
<1>1. ASSUME NEW n \in Names PROVE Stage(n)' = Stage(n)
  <2>1. /\ Dispatching(n)' <=> Dispatching(n)
        /\ Queued(n)' <=> Queued(n)
        /\ Running(n)' <=> Running(n)
        /\ Finished(n)' <=> Finished(n)
    BY DEF Dispatching, Queued, Running, Finished, HasDone
  <2> QED
    BY <2>1, StageStays
<1> QED
  BY <1>1 DEF stages

\* A step that changes the place of one name.
LEMMA OneMoves ==
  ASSUME NEW m \in Names, NEW from, NEW to,
         Stage(m) = from, Stage(m)' = to,
         \A n \in Names \ {m} :
           /\ n \in jobs' <=> n \in jobs
           /\ Dispatching(n)' <=> Dispatching(n)
           /\ Queued(n)' <=> Queued(n)
           /\ Running(n)' <=> Running(n)
           /\ Finished(n)' <=> Finished(n)
  PROVE  Lifecycle!Move(m, from, to)
<1>1. \A n \in Names \ {m} : Stage(n)' = Stage(n)
  BY StageStays
<1> QED
  BY <1>1 DEF Lifecycle!Move

-----------------------------------------------------------------------------
(* The "done" events of chanEvent after a send and a receive.               *)

LEMMA DoneAfterSend ==
  ASSUME NEW q \in Seq(Event), NEW e \in Event, NEW n \in Names
  PROVE  HasDone(Append(q, e), n) <=> HasDone(q, n) \/ e = DoneEvent(n)
<1>1. /\ DOMAIN Append(q, e) = DOMAIN q \cup {Len(q) + 1}
      /\ \A i \in DOMAIN q : Append(q, e)[i] = q[i]
      /\ Append(q, e)[Len(q) + 1] = e
  OBVIOUS
<1> QED
  BY <1>1 DEF HasDone

LEMMA DoneAfterReceive ==
  ASSUME NEW q \in Seq(Event), q # <<>>, NEW n \in Names
  PROVE  HasDone(q, n) <=> HasDone(Tail(q), n) \/ Head(q) = DoneEvent(n)
<1>1. \A i \in DOMAIN Tail(q) : i + 1 \in DOMAIN q /\ Tail(q)[i] = q[i + 1]
  OBVIOUS
<1>2. \A i \in DOMAIN q : i = 1 \/ (i - 1 \in DOMAIN Tail(q) /\ Tail(q)[i - 1] = q[i])
  OBVIOUS
<1>3. 1 \in DOMAIN q /\ q[1] = Head(q)
  OBVIOUS
<1> QED
  BY <1>1, <1>2, <1>3 DEF HasDone

-----------------------------------------------------------------------------
(* Every step of the daemon is a step of the lifecycle of one zone, or none.*)

LEMMA StepRefines ==
  TypeOK /\ SingleFlight /\ [Next]_vars => [Lifecycle!Next]_stages
<1> SUFFICES ASSUME TypeOK, SingleFlight, [Next]_vars PROVE Lifecycle!Next \/ UNCHANGED stages
  BY DEF stages
<1>0. /\ chanEvent \in Seq(Event) /\ chanWork \in Seq(Names)
      /\ SingleFlight'
  BY NextSingleFlight DEF TypeOK
\* Sending what is no "done", and receiving what is none.
<1>a. ASSUME NEW e \in Event, e.type # "done", SendEvent(e), UNCHANGED <<chanWork, worker, jobs>>,
             loop.pc = "dispatch" \/ loop'.pc = "dispatch" => UNCHANGED loop
      PROVE  UNCHANGED stages
  <2>1. \A n \in Names : e # DoneEvent(n)
    BY <1>a DEF DoneEvent
  <2> QED
    BY <1>0, <1>a, <2>1, DoneAfterSend, NothingMoves DEF SendEvent
<1>b. ASSUME NEW t, t # "done", Receive(t)
      PROVE  \A n \in Names : HasDone(chanEvent', n) <=> HasDone(chanEvent, n)
  <2>1. \A n \in Names : Head(chanEvent) # DoneEvent(n)
    BY <1>b DEF Receive, DoneEvent
  <2> QED
    BY <1>0, <1>b, <2>1, DoneAfterReceive DEF Receive
<1>1. ASSUME NEW h \in Handlers, NEW z \in NotifyZones, NotifyArrives(h, z)
      PROVE  UNCHANGED stages
  BY <1>1, NothingMoves DEF NotifyArrives
<1>2. ASSUME NEW h \in Handlers, NotifyQueued(h) PROVE UNCHANGED stages
  <2>1. NewEvent(handler[h].name) \in Event /\ NewEvent(handler[h].name).type # "done"
    BY <1>2, ConfigAssumption DEF TypeOK, NotifyQueued, HandlerState, NewEvent, Event
  <2> QED
    BY <1>2, <1>a, <2>1 DEF NotifyQueued
<1>3. ASSUME NEW s \in Sessions,
             \/ Connect(s) \/ Disconnect(s)
             \/ \E c \in Commands : Submit(s, c)
      PROVE  UNCHANGED stages
  BY <1>3, NothingMoves DEF Connect, Disconnect, Submit
<1>4. ASSUME NEW s \in Sessions, CommandQueued(s) PROVE UNCHANGED stages
  <2>1. /\ CliEvent(s, session[s].cmd) \in Event
        /\ CliEvent(s, session[s].cmd).type # "done"
    BY <1>4 DEF TypeOK, CommandQueued, SessionState, CliEvent, Event
  <2> QED
    BY <1>4, <1>a, <2>1 DEF CommandQueued
<1>5. ASSUME AcceptCheck PROVE \E m \in Names : Lifecycle!Accept(m)
  <2>0. PICK m \in Names : m = Head(chanEvent).name
    BY <1>5, ReceiveType DEF AcceptCheck, Event
  <2>1. /\ m \notin jobs /\ jobs' = jobs \cup {m}
        /\ loop = Receiving /\ loop' = [pc |-> "dispatch", name |-> m]
        /\ UNCHANGED <<chanWork, worker>>
    BY <1>5, <2>0 DEF AcceptCheck, Receive
  <2>2. \A n \in Names : HasDone(chanEvent', n) <=> HasDone(chanEvent, n)
    BY <1>5, <1>b DEF AcceptCheck
  <2>3. Stage(m) = "idle" /\ Stage(m)' = "accepted"
    BY <1>0, <2>1, StageIs, NextStageIs DEF Dispatching
  <2>4. ASSUME NEW n \in Names \ {m}
        PROVE  /\ n \in jobs' <=> n \in jobs
               /\ Dispatching(n)' <=> Dispatching(n)
               /\ Queued(n)' <=> Queued(n)
               /\ Running(n)' <=> Running(n)
               /\ Finished(n)' <=> Finished(n)
    BY <2>1, <2>2 DEF Receiving, Dispatching, Queued, Running, Finished, HasDone
  <2> QED
    BY <2>3, <2>4, OneMoves DEF Lifecycle!Accept
<1>6. ASSUME DropCheck PROVE UNCHANGED stages
  BY <1>6, <1>b, NothingMoves DEF DropCheck
<1>7. ASSUME Dispatch PROVE \E m \in Names : Lifecycle!Enqueue(m)
  <2>0. PICK m \in Names : m = loop.name
    BY <1>7 DEF TypeOK, Dispatch, LoopState
  <2>1. /\ Dispatching(m) /\ loop' = Receiving
        /\ chanWork' = Append(chanWork, m) /\ UNCHANGED <<chanEvent, worker, jobs>>
    BY <1>7, <2>0 DEF TypeOK, Dispatch, LoopState, Dispatching
  <2>2. \A n \in Names : Queued(n)' <=> Queued(n) \/ n = m
    <3>1. /\ DOMAIN chanWork' = DOMAIN chanWork \cup {Len(chanWork) + 1}
          /\ \A i \in DOMAIN chanWork : chanWork'[i] = chanWork[i]
          /\ chanWork'[Len(chanWork) + 1] = m
      BY <1>0, <2>1
    <3> QED
      BY <3>1 DEF Queued
  <2>3. Stage(m) = "accepted" /\ Stage(m)' = "queued"
    BY <1>0, <2>1, <2>2, StageIs, NextStageIs
  <2>4. ASSUME NEW n \in Names \ {m}
        PROVE  /\ n \in jobs' <=> n \in jobs
               /\ Dispatching(n)' <=> Dispatching(n)
               /\ Queued(n)' <=> Queued(n)
               /\ Running(n)' <=> Running(n)
               /\ Finished(n)' <=> Finished(n)
    BY <2>1, <2>2 DEF Receiving, Dispatching, Running, Finished
  <2> QED
    BY <2>3, <2>4, OneMoves DEF Lifecycle!Enqueue
<1>8. ASSUME FinishCheck PROVE \E m \in Names : Lifecycle!Clear(m)
  <2>0. PICK m \in Names : Head(chanEvent) = DoneEvent(m)
    <3>1. Head(chanEvent) \in Event /\ Head(chanEvent).type = "done"
      BY <1>8, ReceiveType DEF FinishCheck
    <3> QED
      BY <3>1 DEF Event, DoneEvent
  <2>1. /\ jobs' = jobs \ {m} /\ UNCHANGED <<chanWork, loop, worker>>
        /\ chanEvent # <<>> /\ chanEvent' = Tail(chanEvent)
    BY <1>8, <2>0 DEF FinishCheck, Receive, DoneEvent
  <2>2. \A n \in Names : HasDone(chanEvent, n) <=> HasDone(chanEvent', n) \/ n = m
    <3>1. \A n \in Names : Head(chanEvent) = DoneEvent(n) <=> n = m
      BY <2>0 DEF DoneEvent
    <3> QED
      BY <1>0, <2>1, <3>1, DoneAfterReceive
  <2>3. Stage(m) = "finished" /\ Stage(m)' = "idle"
    BY <1>0, <2>1, <2>2, StageIs, NextStageIs DEF Finished, HasDone
  <2>4. ASSUME NEW n \in Names \ {m}
        PROVE  /\ n \in jobs' <=> n \in jobs
               /\ Dispatching(n)' <=> Dispatching(n)
               /\ Queued(n)' <=> Queued(n)
               /\ Running(n)' <=> Running(n)
               /\ Finished(n)' <=> Finished(n)
    BY <2>1, <2>2 DEF Dispatching, Queued, Running, Finished, HasDone
  <2> QED
    BY <2>3, <2>4, OneMoves DEF Lifecycle!Clear
<1>9. ASSUME BeginCommand PROVE UNCHANGED stages
  <2>1. loop.pc # "dispatch" /\ loop'.pc # "dispatch"
    BY <1>9 DEF BeginCommand, Receive, Receiving
  <2> QED
    BY <1>9, <1>b, <2>1, NothingMoves DEF BeginCommand
<1>10. ASSUME NEW n \in Names, CommandSends(n) PROVE UNCHANGED stages
  <2>1. NewEvent(n) \in Event /\ NewEvent(n).type # "done"
    BY DEF NewEvent, Event
  <2>2. loop.pc # "dispatch" /\ loop'.pc # "dispatch"
    BY <1>10 DEF CommandSends, TypeOK, LoopState
  <2> QED
    BY <1>10, <1>a, <2>1, <2>2 DEF CommandSends
<1>11. ASSUME EndCommand PROVE UNCHANGED stages
  BY <1>11, NothingMoves DEF EndCommand, Receiving
<1>12. ASSUME NEW w \in Workers, TakeCheck(w) PROVE \E m \in Names : Lifecycle!Start(m)
  <2>0. PICK m \in Names : m = Head(chanWork) /\ chanWork # <<>>
    BY <1>12 DEF TypeOK, TakeCheck
  <2>1. /\ worker[w] = Idle /\ worker' = [worker EXCEPT ![w] = [pc |-> "lookup", name |-> m]]
        /\ chanWork' = Tail(chanWork) /\ UNCHANGED <<chanEvent, jobs, loop>>
    BY <1>12, <2>0 DEF TakeCheck, SetWorker
  <2>2. /\ worker'[w] # Idle /\ worker'[w].name = m
        /\ \A v \in Workers : v # w => worker'[v] = worker[v]
    BY <2>1 DEF TypeOK, Idle
  <2>3. \A n \in Names : Queued(n) <=> Queued(n)' \/ n = m
    <3>1. \A i \in DOMAIN chanWork' : i + 1 \in DOMAIN chanWork /\ chanWork'[i] = chanWork[i + 1]
      BY <1>0, <2>0, <2>1
    <3>2. \A i \in DOMAIN chanWork :
            i = 1 \/ (i - 1 \in DOMAIN chanWork' /\ chanWork'[i - 1] = chanWork[i])
      BY <1>0, <2>0, <2>1
    <3>3. 1 \in DOMAIN chanWork /\ chanWork[1] = m
      BY <1>0, <2>0
    <3> QED
      BY <3>1, <3>2, <3>3 DEF Queued
  <2>4. \A n \in Names : Running(n)' <=> Running(n) \/ n = m
    BY <2>1, <2>2 DEF Running
  <2>5. Stage(m) = "queued" /\ Stage(m)' = "running"
    BY <1>0, <2>3, <2>4, StageIs, NextStageIs
  <2>6. ASSUME NEW n \in Names \ {m}
        PROVE  /\ n \in jobs' <=> n \in jobs
               /\ Dispatching(n)' <=> Dispatching(n)
               /\ Queued(n)' <=> Queued(n)
               /\ Running(n)' <=> Running(n)
               /\ Finished(n)' <=> Finished(n)
    BY <2>1, <2>3, <2>4 DEF Dispatching, Finished
  <2> QED
    BY <2>5, <2>6, OneMoves DEF Lifecycle!Start
<1>13. ASSUME NEW w \in Workers, UnknownZone(w) \/ LookupSucceeds(w) \/ PollEnds(w)
       PROVE  UNCHANGED stages
  <2>1. /\ worker[w] # Idle /\ worker'[w] # Idle /\ worker'[w].name = worker[w].name
        /\ \A v \in Workers : v # w => worker'[v] = worker[v]
        /\ UNCHANGED <<chanEvent, chanWork, jobs, loop>>
    BY <1>13 DEF UnknownZone, LookupSucceeds, PollEnds, SetWorker, TypeOK, WorkerState, Idle
  <2>2. \A n \in Names : Running(n)' <=> Running(n)
    BY <2>1 DEF Running
  <2>3. \A n \in Names : Stage(n)' = Stage(n)
    BY <2>1, <2>2, StageStays DEF Dispatching, Queued, Finished
  <2> QED
    BY <2>3 DEF stages
<1>14. ASSUME NEW w \in Workers, LookupFails(w) PROVE \E m \in Names : Lifecycle!Lose(m)
  <2>0. PICK m \in Names : m = worker[w].name /\ m \in FailingZones
    BY <1>14, ConfigAssumption DEF LookupFails
  <2>1. /\ worker[w] # Idle /\ worker[w].name = m /\ worker'[w] = Idle
        /\ \A v \in Workers : v # w => worker'[v] = worker[v]
        /\ UNCHANGED <<chanEvent, chanWork, jobs, loop>>
    BY <1>14, <2>0 DEF LookupFails, SetWorker, TypeOK, Idle
  <2>2. Running(m) /\ m \in jobs /\ ~Dispatching(m) /\ ~Queued(m) /\ ~Finished(m)
    BY <2>1 DEF Running, SingleFlight, OnePlace, Registered, InFlight
  <2>3. ~Running(m)'
    BY <2>1 DEF Running, SingleFlight, NoTwin
  <2>4. Stage(m) = "running" /\ Stage(m)' = "lost"
    <3>1. m \in jobs' /\ ~InFlight(m)'
      BY <2>1, <2>2, <2>3 DEF InFlight, Dispatching, Queued, Finished
    <3> QED
      BY <1>0, <2>2, <3>1, StageIs, NextStageIs
  <2>5. ASSUME NEW n \in Names \ {m}
        PROVE  /\ n \in jobs' <=> n \in jobs
               /\ Dispatching(n)' <=> Dispatching(n)
               /\ Queued(n)' <=> Queued(n)
               /\ Running(n)' <=> Running(n)
               /\ Finished(n)' <=> Finished(n)
    BY <2>1 DEF Dispatching, Queued, Running, Finished
  <2> QED
    BY <2>0, <2>4, <2>5, OneMoves DEF Lifecycle!Lose
<1>15. ASSUME NEW w \in Workers, ReportDone(w) PROVE \E m \in Names : Lifecycle!Finish(m)
  <2>0. PICK m \in Names : m = worker[w].name
    BY <1>15 DEF ReportDone, TypeOK, WorkerState
  <2>1. /\ worker[w].name = m /\ worker[w] # Idle /\ worker'[w] = Idle
        /\ \A v \in Workers : v # w => worker'[v] = worker[v]
        /\ chanEvent' = Append(chanEvent, DoneEvent(m))
        /\ UNCHANGED <<chanWork, jobs, loop>>
    BY <1>15, <2>0 DEF ReportDone, SetWorker, SendEvent, TypeOK, Idle
  <2>2. \A n \in Names : HasDone(chanEvent', n) <=> HasDone(chanEvent, n) \/ n = m
    <3>1. DoneEvent(m) \in Event /\ \A n \in Names : DoneEvent(m) = DoneEvent(n) <=> n = m
      BY DEF DoneEvent, Event
    <3> QED
      BY <1>0, <2>1, <3>1, DoneAfterSend
  <2>3. Stage(m) = "running" /\ Stage(m)' = "finished"
    <3>1. Running(m) /\ Finished(m)'
      BY <2>1, <2>2 DEF Running, Finished, HasDone
    <3> QED
      BY <1>0, <3>1, StageIs, NextStageIs
  <2>4. ASSUME NEW n \in Names \ {m}
        PROVE  /\ n \in jobs' <=> n \in jobs
               /\ Dispatching(n)' <=> Dispatching(n)
               /\ Queued(n)' <=> Queued(n)
               /\ Running(n)' <=> Running(n)
               /\ Finished(n)' <=> Finished(n)
    BY <2>1, <2>2 DEF Dispatching, Queued, Running, Finished, HasDone
  <2> QED
    BY <2>3, <2>4, OneMoves DEF Lifecycle!Finish
<1>16. ASSUME UNCHANGED vars PROVE UNCHANGED stages
  BY <1>16, NothingMoves DEF vars
<1> QED
  BY <1>1, <1>2, <1>3, <1>4, <1>5, <1>6, <1>7, <1>8, <1>9, <1>10, <1>11, <1>12,
     <1>13, <1>14, <1>15, <1>16
     DEF Next, ReceiveStep, CommandStep, CheckStep, Lifecycle!Next

LEMMA InitRefines == Init => Lifecycle!Init
<1> SUFFICES ASSUME Init PROVE Lifecycle!Init
  OBVIOUS
<1>1. SingleFlight /\ jobs = {}
  BY InitSingleFlight DEF Init
<1>2. \A n \in Names : Stage(n) = "idle"
  BY <1>1, StageIs
<1> QED
  BY <1>2 DEF Lifecycle!Init

(***************************************************************************)
(* The event loop, the pool and both channels implement the lifecycle of   *)
(* every zone: one check after the other, each through the stages in their *)
(* order, for any number of zones, workers, handlers and sessions and any  *)
(* capacities.                                                             *)
(***************************************************************************)
THEOREM LifecycleImplemented == Spec => ImplementsLifecycle
<1>1. Spec => [](TypeOK /\ SingleFlight)
  BY TypeCorrect, ChecksAreSingleFlight, PTL
<1>2. TypeOK /\ SingleFlight /\ [Next]_vars => [Lifecycle!Next]_stages
  BY StepRefines
<1> QED
  BY <1>1, <1>2, InitRefines, PTL DEF Spec, ImplementsLifecycle, Lifecycle!Spec, stages

-----------------------------------------------------------------------------
(* Lost jobs, from the abstract moves.                                      *)

OnlyFailingLost == \A n \in Names : Stage(n) = "lost" => n \in FailingZones

LEMMA LostIsFailing == OnlyFailingLost /\ [Lifecycle!Next]_stages => OnlyFailingLost'
<1> SUFFICES ASSUME OnlyFailingLost, [Lifecycle!Next]_stages,
                    NEW n \in Names, Stage(n)' = "lost"
             PROVE  n \in FailingZones
  BY DEF OnlyFailingLost
<1>1. Stage(n) = "lost" \/ n \in FailingZones
  BY DEF stages, Lifecycle!Next, Lifecycle!Accept, Lifecycle!Enqueue, Lifecycle!Start,
     Lifecycle!Finish, Lifecycle!Lose, Lifecycle!Clear, Lifecycle!Move
<1> QED
  BY <1>1 DEF OnlyFailingLost

(***************************************************************************)
(* A job in the map of a zone whose lookups do not fail is never forgotten:*)
(* it is in the hand of the event loop, in chanWork, with a worker, or its *)
(* MessageDone is on its way.  A forgotten job would bar its zone for ever.*)
(***************************************************************************)
THEOREM JobsAreNotLost == Spec => []NoLostJob
<1>1. Init => TypeOK /\ SingleFlight /\ OnlyFailingLost
  BY InitType, InitSingleFlight DEF Init, OnlyFailingLost, Stage
<1>2. (TypeOK /\ SingleFlight /\ OnlyFailingLost) /\ [Next]_vars
        => (TypeOK /\ SingleFlight /\ OnlyFailingLost)'
  BY NextType, NextSingleFlight, StepRefines, LostIsFailing
<1>3. TypeOK /\ SingleFlight /\ OnlyFailingLost => NoLostJob
  BY StageIs DEF NoLostJob, OnlyFailingLost, TypeOK
<1> QED
  BY <1>1, <1>2, <1>3, PTL DEF Spec

-----------------------------------------------------------------------------
(* Sessions implement SessionLifecycle.                                     *)

LEMMA PromptMove ==
  ASSUME NEW s \in Sessions, NEW from, NEW to,
         SessionStage(s) = from, SessionStage(s)' = to,
         \A r \in Sessions \ {s} : SessionStage(r)' = SessionStage(r)
  PROVE  Prompts!Move(s, from, to)
<1> DEFINE st == [r \in Sessions |-> SessionStage(r)]
<1>1. st' = [st EXCEPT ![s] = to]
  OBVIOUS
<1> QED
  BY <1>1 DEF Prompts!Move

\* A step that neither begins nor ends a command, and leaves the sessions.
LEMMA PromptFrame ==
  ASSUME UNCHANGED session, \A s \in Sessions : Serving(s)' <=> Serving(s)
  PROVE  UNCHANGED [s \in Sessions |-> SessionStage(s)]
<1>1. ASSUME NEW s \in Sessions PROVE SessionStage(s)' = SessionStage(s)
  BY <1>1 DEF SessionStage
<1> QED
  BY <1>1

LEMMA NextPrompt ==
  TypeOK /\ PromptOwed /\ [Next]_vars =>
    Prompts!Next \/ UNCHANGED [s \in Sessions |-> SessionStage(s)]
<1> SUFFICES ASSUME TypeOK, PromptOwed, [Next]_vars
             PROVE  Prompts!Next \/ UNCHANGED [s \in Sessions |-> SessionStage(s)]
  OBVIOUS
<1> DEFINE Same == UNCHANGED [s \in Sessions |-> SessionStage(s)]
<1>0. /\ session \in [Sessions -> SessionState]
      /\ \A s \in Sessions : Serving(s) => session[s].pc = "waiting"
  BY DEF TypeOK, PromptOwed
<1>1. ASSUME NEW s \in Sessions, Connect(s) PROVE Prompts!Open(s)
  <2>1. /\ session[s].pc = "closed" /\ loop' = loop
        /\ session' = [session EXCEPT ![s] = [pc |-> "reading"]]
    BY <1>1 DEF Connect, SetSession
  <2>2. /\ SessionStage(s) = "none" /\ SessionStage(s)' = "prompt"
        /\ \A r \in Sessions \ {s} : SessionStage(r)' = SessionStage(r)
    BY <1>0, <2>1 DEF SessionStage, Serving
  <2> QED
    BY <2>2, PromptMove DEF Prompts!Open
<1>2. ASSUME NEW s \in Sessions, Disconnect(s) PROVE Prompts!Leave(s)
  <2>1. /\ session[s].pc = "reading" /\ loop' = loop
        /\ session' = [session EXCEPT ![s] = [pc |-> "closed"]]
    BY <1>2 DEF Disconnect, SetSession
  <2>2. /\ SessionStage(s) = "prompt" /\ SessionStage(s)' = "none"
        /\ \A r \in Sessions \ {s} : SessionStage(r)' = SessionStage(r)
    BY <1>0, <2>1 DEF SessionStage, Serving
  <2> QED
    BY <2>2, PromptMove DEF Prompts!Leave
<1>3. ASSUME NEW s \in Sessions, NEW c \in Commands, Submit(s, c) PROVE Prompts!Submit(s)
  <2>1. /\ session[s].pc = "reading" /\ loop' = loop
        /\ session' = [session EXCEPT ![s] = [pc |-> "sending", cmd |-> c]]
    BY <1>3 DEF Submit, SetSession
  <2>2. /\ SessionStage(s) = "prompt" /\ SessionStage(s)' = "queued"
        /\ \A r \in Sessions \ {s} : SessionStage(r)' = SessionStage(r)
    BY <1>0, <2>1 DEF SessionStage, Serving
  <2> QED
    BY <2>2, PromptMove DEF Prompts!Submit
<1>4. ASSUME NEW s \in Sessions, CommandQueued(s) PROVE Same
  <2>1. /\ session[s].pc = "sending" /\ loop' = loop
        /\ session' = [session EXCEPT ![s] = [pc |-> "waiting"]]
    BY <1>4 DEF CommandQueued, SetSession
  <2>2. ASSUME NEW r \in Sessions PROVE SessionStage(r)' = SessionStage(r)
    BY <1>0, <2>1 DEF SessionStage, Serving
  <2> QED
    BY <2>2
<1>5. ASSUME BeginCommand PROVE Prompts!Next
  <2>1. /\ chanEvent \in Seq(Event) /\ chanEvent # <<>> /\ Head(chanEvent).type = "cli"
        /\ Head(chanEvent) \in Event /\ loop = Receiving /\ session' = session
    BY <1>5, ReceiveType DEF BeginCommand, Receive, TypeOK
  <2>2. PICK s \in Sessions : s = Head(chanEvent).client
    BY <2>1 DEF Event
  <2>3. session[s].pc = "waiting"
    BY <2>1, <2>2, OwingTail, PromptOwedIs
  <2>4. loop'.pc = "cli" /\ loop'.client = s
    BY <1>5, <2>2 DEF BeginCommand
  <2>5. \A r \in Sessions : ~Serving(r) /\ (Serving(r)' <=> r = s)
    BY <2>1, <2>4 DEF Serving, Receiving
  <2>6. /\ SessionStage(s) = "queued" /\ SessionStage(s)' = "executing"
        /\ \A r \in Sessions \ {s} : SessionStage(r)' = SessionStage(r)
        /\ \A r \in Sessions : SessionStage(r) # "executing"
    BY <2>1, <2>3, <2>5 DEF SessionStage
  <2>7. Prompts!Execute(s)
    BY <2>6, PromptMove DEF Prompts!Execute
  <2> QED
    BY <2>7 DEF Prompts!Next
<1>6. ASSUME EndCommand PROVE Prompts!Next
  <2>1. PICK s \in Sessions : loop.client = s /\ loop.pc = "cli"
    BY <1>6 DEF EndCommand, TypeOK, LoopState
  <2>2. loop' = Receiving /\ session' = [session EXCEPT ![s] = [pc |-> "reading"]]
    BY <1>6, <2>1 DEF EndCommand, SetSession
  <2>3. \A r \in Sessions : ~Serving(r)' /\ (Serving(r) <=> r = s)
    BY <2>1, <2>2 DEF Serving, Receiving
  <2>4. /\ SessionStage(s) = "executing" /\ SessionStage(s)' = "prompt"
        /\ \A r \in Sessions \ {s} : SessionStage(r)' = SessionStage(r)
    BY <1>0, <2>2, <2>3 DEF SessionStage
  <2>5. Prompts!Done(s)
    BY <2>4, PromptMove DEF Prompts!Done
  <2> QED
    BY <2>5 DEF Prompts!Next
<1>7. ASSUME NEW h \in Handlers, NotifyQueued(h) \/ \E z \in NotifyZones : NotifyArrives(h, z)
      PROVE  Same
  BY <1>7, PromptFrame DEF NotifyQueued, NotifyArrives, Serving
<1>8. ASSUME AcceptCheck \/ DropCheck \/ FinishCheck PROVE Same
  BY <1>8, PromptFrame DEF AcceptCheck, DropCheck, FinishCheck, Receive, Receiving, Serving
<1>9. ASSUME Dispatch PROVE Same
  BY <1>9, PromptFrame DEF Dispatch, Receiving, Serving
<1>10. ASSUME NEW n \in Names, CommandSends(n) PROVE Same
  <2>1. loop'.pc = loop.pc /\ loop'.client = loop.client
    BY <1>10 DEF CommandSends, TypeOK, LoopState
  <2> QED
    BY <1>10, <2>1, PromptFrame DEF CommandSends, Serving
<1>11. ASSUME NEW w \in Workers, TakeCheck(w) \/ CheckStep(w) \/ ReportDone(w) PROVE Same
  <2>1. UNCHANGED <<loop, session>>
    BY <1>11 DEF TakeCheck, CheckStep, UnknownZone, LookupFails, LookupSucceeds, PollEnds,
       ReportDone
  <2> QED
    BY <2>1, PromptFrame DEF Serving
<1>12. CASE UNCHANGED vars
  BY <1>12, PromptFrame DEF vars, Serving
<1> QED
  BY <1>1, <1>2, <1>3, <1>4, <1>5, <1>6, <1>7, <1>8, <1>9, <1>10, <1>11, <1>12
     DEF Next, ReceiveStep, CommandStep, Prompts!Next

(***************************************************************************)
(* To its operators the daemon is SessionLifecycle: one command at a time, *)
(* the prompt after the command and only then, for any number of sessions  *)
(* and whatever NOTIFYs and workers put into chanEvent.                    *)
(***************************************************************************)
THEOREM SessionsImplemented == Spec => ImplementsSessions
<1>1. Init => Prompts!Init
  <2> SUFFICES ASSUME Init PROVE Prompts!Init
    OBVIOUS
  <2>1. ASSUME NEW s \in Sessions PROVE SessionStage(s) = "none"
    BY DEF Init, SessionStage, Serving, Receiving
  <2> QED
    BY <2>1 DEF Prompts!Init
<1>2. TypeOK /\ PromptOwed /\ [Next]_vars => [Prompts!Next]_([s \in Sessions |-> SessionStage(s)])
  BY NextPrompt
<1> QED
  BY <1>1, <1>2, TypeCorrect, PromptsAreOwed, PTL DEF Spec, ImplementsSessions, Prompts!Spec
=============================================================================
