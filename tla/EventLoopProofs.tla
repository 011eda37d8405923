-------------------------- MODULE EventLoopProofs --------------------------
(***************************************************************************)
(* Theorems about EventLoop, for every configuration, pool and capacity:   *)
(* its types, one check at a time of a zone, and who waits for what: every *)
(* session that waits has one command that will close its channel, and the *)
(* event loop and the workers do not wait for each other while the pool    *)
(* and its queue hold every name.                                          *)
(***************************************************************************)
EXTENDS EventLoop, FiniteSetTheorems, TLAPS

-----------------------------------------------------------------------------
(* Channels: a send appends, a receive takes the head.                      *)

LEMMA SendType ==
  ASSUME NEW e \in Event, TypeOK, SendEvent(e)
  PROVE  chanEvent' \in Seq(Event) /\ Len(chanEvent') <= EventCap
BY PoolAssumption DEF TypeOK, SendEvent, EventRoom

LEMMA ReceiveType ==
  ASSUME TypeOK, NEW t, Receive(t)
  PROVE  /\ chanEvent' \in Seq(Event) /\ Len(chanEvent') <= EventCap
         /\ Head(chanEvent) \in Event /\ Head(chanEvent).type = t
         /\ loop = Receiving
BY PoolAssumption DEF TypeOK, Receive

-----------------------------------------------------------------------------
(* Type correctness.                                                        *)

LEMMA InitType == Init => TypeOK
BY PoolAssumption DEF Init, TypeOK, LoopState, WorkerState, HandlerState,
   SessionState, Receiving, Idle

LEMMA NextType == TypeOK /\ [Next]_vars => TypeOK'
<1> SUFFICES ASSUME TypeOK, [Next]_vars PROVE TypeOK'
  OBVIOUS
<1> USE PoolAssumption, ConfigAssumption
<1>1. ASSUME NEW h \in Handlers, NEW z \in NotifyZones, NotifyArrives(h, z) PROVE TypeOK'
  BY <1>1 DEF TypeOK, NotifyArrives, HandlerState
<1>2. ASSUME NEW h \in Handlers, NotifyQueued(h) PROVE TypeOK'
  <2>1. NewEvent(handler[h].name) \in Event
    BY <1>2 DEF TypeOK, NotifyQueued, HandlerState, NewEvent, Event
  <2> QED
    BY <1>2, <2>1, SendType DEF TypeOK, NotifyQueued, HandlerState, Idle
<1>3. ASSUME NEW s \in Sessions, Connect(s) \/ Disconnect(s) PROVE TypeOK'
  <2>1. PICK st \in SessionState : session' = [session EXCEPT ![s] = st]
    BY <1>3 DEF Connect, Disconnect, SetSession, SessionState
  <2> QED
    BY <1>3, <2>1 DEF TypeOK, Connect, Disconnect
<1>4. ASSUME NEW s \in Sessions, NEW c \in Commands, Submit(s, c) PROVE TypeOK'
  BY <1>4 DEF TypeOK, Submit, SetSession, SessionState
<1>5. ASSUME NEW s \in Sessions, CommandQueued(s) PROVE TypeOK'
  <2>1. CliEvent(s, session[s].cmd) \in Event
    BY <1>5 DEF TypeOK, CommandQueued, SessionState, CliEvent, Event
  <2> QED
    BY <1>5, <2>1, SendType DEF TypeOK, CommandQueued, SetSession, SessionState
<1>6. ASSUME AcceptCheck PROVE TypeOK'
  <2>1. Head(chanEvent).name \in Names
    BY <1>6, ReceiveType DEF AcceptCheck, Event
  <2> QED
    BY <1>6, <2>1, ReceiveType DEF TypeOK, AcceptCheck, LoopState
<1>7. ASSUME DropCheck PROVE TypeOK'
  BY <1>7, ReceiveType DEF TypeOK, DropCheck
<1>8. ASSUME Dispatch PROVE TypeOK'
  <2>1. loop.name \in Names
    BY <1>8 DEF TypeOK, Dispatch, LoopState
  <2> QED
    BY <1>8, <2>1 DEF TypeOK, Dispatch, LoopState, Receiving, WorkRoom
<1>9. ASSUME FinishCheck PROVE TypeOK'
  BY <1>9, ReceiveType DEF TypeOK, FinishCheck
<1>10. ASSUME BeginCommand PROVE TypeOK'
  <2>1. Head(chanEvent).client \in Sessions /\ Head(chanEvent).cmd \in Commands
    BY <1>10, ReceiveType DEF BeginCommand, Event
  <2>2. Head(chanEvent).cmd \subseteq Names
    BY <2>1 DEF CheckName, CheckAll, OtherCommand
  <2> QED
    BY <1>10, <2>1, <2>2, ReceiveType DEF TypeOK, BeginCommand, LoopState
<1>11. ASSUME NEW n \in Names, CommandSends(n) PROVE TypeOK'
  <2>1. NewEvent(n) \in Event
    BY DEF NewEvent, Event
  <2> QED
    BY <1>11, <2>1, SendType DEF TypeOK, CommandSends, LoopState
<1>12. ASSUME EndCommand PROVE TypeOK'
  BY <1>12 DEF TypeOK, EndCommand, SetSession, LoopState, SessionState, Receiving
<1>13. ASSUME NEW w \in Workers, TakeCheck(w) PROVE TypeOK'
  <2>1. /\ Head(chanWork) \in Names /\ Tail(chanWork) \in Seq(Names)
        /\ Len(Tail(chanWork)) <= WorkCap
    BY <1>13 DEF TypeOK, TakeCheck
  <2> QED
    BY <1>13, <2>1 DEF TypeOK, TakeCheck, SetWorker, WorkerState
<1>14. ASSUME NEW w \in Workers, CheckStep(w) PROVE TypeOK'
  BY <1>14 DEF TypeOK, CheckStep, UnknownZone, LookupFails, LookupSucceeds, PollEnds,
     SetWorker, WorkerState, Idle
<1>15. ASSUME NEW w \in Workers, ReportDone(w) PROVE TypeOK'
  <2>1. DoneEvent(worker[w].name) \in Event
    BY <1>15 DEF TypeOK, ReportDone, WorkerState, DoneEvent, Event
  <2> QED
    BY <1>15, <2>1, SendType DEF TypeOK, ReportDone, SetWorker, WorkerState, Idle
<1>16. ASSUME UNCHANGED vars PROVE TypeOK'
  BY <1>16 DEF TypeOK, vars
<1> QED
  BY <1>1, <1>2, <1>3, <1>4, <1>5, <1>6, <1>7, <1>8, <1>9, <1>10, <1>11, <1>12,
     <1>13, <1>14, <1>15, <1>16 DEF Next, ReceiveStep, CommandStep

(***************************************************************************)
(* The channels never hold more than their capacity, and every event, job  *)
(* and goroutine state is one the code knows.                              *)
(***************************************************************************)
THEOREM TypeCorrect == Spec => []TypeOK
BY InitType, NextType, PTL DEF Spec

-----------------------------------------------------------------------------
(* "done" events in a queue of events: which there are, and that there are  *)
(* no two of the same name.                                                 *)

HasDone(q, n) == \E i \in DOMAIN q : q[i] = DoneEvent(n)
OneDone(q) == \A i, j \in DOMAIN q : q[i].type = "done" /\ q[i] = q[j] => i = j

LEMMA AppendOther ==
  ASSUME NEW q \in Seq(Event), NEW e \in Event, e.type # "done"
  PROVE  /\ \A n \in Names : HasDone(Append(q, e), n) => HasDone(q, n)
         /\ OneDone(q) => OneDone(Append(q, e))
<1>1. \A n \in Names : e # DoneEvent(n)
  BY DEF DoneEvent
<1>2. \A i \in DOMAIN Append(q, e) :
        (i \in DOMAIN q /\ Append(q, e)[i] = q[i]) \/ Append(q, e)[i] = e
  OBVIOUS
<1>3. \A n \in Names : HasDone(Append(q, e), n) => HasDone(q, n)
  BY <1>1, <1>2 DEF HasDone
<1>4. OneDone(q) => OneDone(Append(q, e))
  BY <1>2 DEF OneDone
<1> QED
  BY <1>3, <1>4

LEMMA AppendDone ==
  ASSUME NEW q \in Seq(Event), NEW m \in Names, ~HasDone(q, m)
  PROVE  /\ \A n \in Names : HasDone(Append(q, DoneEvent(m)), n) => HasDone(q, n) \/ n = m
         /\ OneDone(q) => OneDone(Append(q, DoneEvent(m)))
<1> DEFINE e == DoneEvent(m)
<1>1. e \in Event
  BY DEF DoneEvent, Event
<1>2. \A i \in DOMAIN Append(q, e) :
        \/ i \in DOMAIN q /\ Append(q, e)[i] = q[i]
        \/ i = Len(q) + 1 /\ Append(q, e)[i] = e
  BY <1>1
<1>3. \A n \in Names : e = DoneEvent(n) => n = m
  BY DEF DoneEvent
<1>4. \A i \in DOMAIN q : q[i] # e
  BY DEF HasDone
<1> HIDE DEF e
<1>5. \A n \in Names : HasDone(Append(q, e), n) => HasDone(q, n) \/ n = m
  BY <1>2, <1>3 DEF HasDone
<1>6. OneDone(q) => OneDone(Append(q, e))
  BY <1>2, <1>4 DEF OneDone
<1> QED
  BY <1>5, <1>6 DEF e

LEMMA TailDone ==
  ASSUME NEW q \in Seq(Event), q # <<>>
  PROVE  /\ \A n \in Names : HasDone(Tail(q), n) => HasDone(q, n)
         /\ OneDone(q) => OneDone(Tail(q))
         /\ \A n \in Names : OneDone(q) /\ Head(q) = DoneEvent(n) => ~HasDone(Tail(q), n)
<1>1. \A i \in DOMAIN Tail(q) : i + 1 \in DOMAIN q /\ Tail(q)[i] = q[i + 1] /\ i \in Nat \ {0}
  OBVIOUS
<1>2. \A n \in Names : HasDone(Tail(q), n) => HasDone(q, n)
  BY <1>1 DEF HasDone
<1>3. OneDone(q) => OneDone(Tail(q))
  <2> SUFFICES ASSUME OneDone(q), NEW i \in DOMAIN Tail(q), NEW j \in DOMAIN Tail(q),
                      Tail(q)[i].type = "done", Tail(q)[i] = Tail(q)[j]
               PROVE  i = j
    BY DEF OneDone
  <2>1. i + 1 = j + 1
    BY <1>1 DEF OneDone
  <2> QED
    BY <1>1, <2>1
<1>4. ASSUME NEW n \in Names, OneDone(q), Head(q) = DoneEvent(n), HasDone(Tail(q), n)
      PROVE  FALSE
  <2>1. PICK i \in DOMAIN Tail(q) : Tail(q)[i] = DoneEvent(n)
    BY <1>4 DEF HasDone
  <2>2. 1 \in DOMAIN q /\ q[1] = DoneEvent(n)
    BY <1>4
  <2>3. i + 1 \in DOMAIN q /\ q[i + 1] = DoneEvent(n) /\ q[1].type = "done" /\ i + 1 # 1
    BY <1>1, <2>1, <2>2 DEF DoneEvent
  <2> QED
    BY <1>4, <2>2, <2>3 DEF OneDone
<1> QED
  BY <1>2, <1>3, <1>4

-----------------------------------------------------------------------------
(* Single flight.                                                           *)

\* A step that moves no check and adds no "done" keeps the invariant.
LEMMA SingleFlightFrame ==
  ASSUME SingleFlight,
         UNCHANGED <<chanWork, worker, jobs>>,
         loop.pc = "dispatch" \/ loop'.pc = "dispatch" => UNCHANGED loop,
         \A n \in Names : HasDone(chanEvent', n) => HasDone(chanEvent, n),
         OneDone(chanEvent) => OneDone(chanEvent')
  PROVE  SingleFlight'
<1>1. \A n \in Names : /\ Dispatching(n)' => Dispatching(n)
                       /\ Queued(n)' => Queued(n)
                       /\ Running(n)' => Running(n)
                       /\ Finished(n)' => Finished(n)
  BY DEF Dispatching, Queued, Running, Finished, HasDone
<1>2. NoTwin'
  BY DEF SingleFlight, NoTwin, OneDone
<1> QED
  BY <1>1, <1>2 DEF SingleFlight, OnePlace, Registered, InFlight

LEMMA InitSingleFlight == Init => SingleFlight
BY DEF Init, SingleFlight, NoTwin, OnePlace, Registered, InFlight, Dispatching,
   Queued, Running, Finished, Receiving, Idle

LEMMA NextSingleFlight == TypeOK /\ SingleFlight /\ [Next]_vars => SingleFlight'
<1> SUFFICES ASSUME TypeOK, SingleFlight, [Next]_vars PROVE SingleFlight'
  OBVIOUS
<1>1. ASSUME NEW h \in Handlers, NEW z \in NotifyZones, NotifyArrives(h, z)
      PROVE  SingleFlight'
  BY <1>1, SingleFlightFrame DEF NotifyArrives
<1>2. ASSUME NEW h \in Handlers, NotifyQueued(h) PROVE SingleFlight'
  <2>1. NewEvent(handler[h].name) \in Event /\ NewEvent(handler[h].name).type # "done"
    BY <1>2, ConfigAssumption DEF TypeOK, NotifyQueued, HandlerState, NewEvent, Event
  <2> QED
    BY <1>2, <2>1, AppendOther, SingleFlightFrame DEF TypeOK, NotifyQueued, SendEvent
<1>3. ASSUME NEW s \in Sessions, Connect(s) \/ Disconnect(s) PROVE SingleFlight'
  BY <1>3, SingleFlightFrame DEF Connect, Disconnect
<1>4. ASSUME NEW s \in Sessions, NEW c \in Commands, Submit(s, c) PROVE SingleFlight'
  BY <1>4, SingleFlightFrame DEF Submit
<1>5. ASSUME NEW s \in Sessions, CommandQueued(s) PROVE SingleFlight'
  <2>1. /\ CliEvent(s, session[s].cmd) \in Event
        /\ CliEvent(s, session[s].cmd).type # "done"
    BY <1>5 DEF TypeOK, CommandQueued, SessionState, CliEvent, Event
  <2> QED
    BY <1>5, <2>1, AppendOther, SingleFlightFrame DEF TypeOK, CommandQueued, SendEvent
<1>6. ASSUME AcceptCheck PROVE SingleFlight'
  <2>0. PICK m \in Names : m = Head(chanEvent).name
    BY <1>6, ReceiveType DEF AcceptCheck, Event
  <2>1. m \notin jobs /\ jobs' = jobs \cup {m} /\ loop' = [pc |-> "dispatch", name |-> m]
    BY <1>6, <2>0 DEF AcceptCheck
  <2>2. /\ \A n \in Names : Finished(n)' => Finished(n)
        /\ OneDone(chanEvent)'
    BY <1>6, TailDone DEF AcceptCheck, Receive, TypeOK, SingleFlight, NoTwin, OneDone,
       Finished, HasDone
  <2>3. NoTwin'
    BY <1>6, <2>2 DEF AcceptCheck, SingleFlight, NoTwin, OneDone
  <2>4. \A n \in Names : /\ Dispatching(n)' => n = m
                         /\ Queued(n)' => Queued(n)
                         /\ Running(n)' => Running(n)
                         /\ ~Dispatching(n)
    BY <1>6, <2>1 DEF AcceptCheck, Receive, Receiving, Dispatching, Queued, Running
  <2>5. \A n \in Names : Queued(n) \/ Running(n) \/ Finished(n) => n # m
    BY <2>1 DEF SingleFlight, Registered, InFlight
  <2> QED
    BY <2>1, <2>2, <2>3, <2>4, <2>5 DEF SingleFlight, OnePlace, Registered, InFlight
<1>7. ASSUME DropCheck PROVE SingleFlight'
  BY <1>7, TailDone, SingleFlightFrame DEF DropCheck, Receive, TypeOK
<1>8. ASSUME Dispatch PROVE SingleFlight'
  <2>0. PICK m \in Names : m = loop.name
    BY <1>8 DEF TypeOK, Dispatch, LoopState
  <2>1. Dispatching(m) /\ chanWork' = Append(chanWork, m)
    BY <1>8, <2>0 DEF TypeOK, Dispatch, LoopState, Dispatching
  <2>2. \A i \in DOMAIN chanWork' :
          \/ i \in DOMAIN chanWork /\ chanWork'[i] = chanWork[i]
          \/ i = Len(chanWork) + 1 /\ chanWork'[i] = m
    BY <2>1 DEF TypeOK
  <2>3. ~Queued(m) /\ ~Running(m) /\ ~Finished(m)
    BY <2>1 DEF SingleFlight, OnePlace
  <2>4. NoTwin'
    <3>1. \A i, j \in DOMAIN chanWork' : chanWork'[i] = chanWork'[j] => i = j
      BY <2>2, <2>3 DEF SingleFlight, NoTwin, Queued
    <3> QED
      BY <1>8, <3>1 DEF Dispatch, SingleFlight, NoTwin
  <2>5. \A n \in Names : /\ ~Dispatching(n)'
                         /\ Queued(n)' => Queued(n) \/ n = m
                         /\ Running(n)' => Running(n)
                         /\ Finished(n)' => Finished(n)
    BY <1>8, <2>2 DEF Dispatch, Receiving, Dispatching, Queued, Running, Finished
  <2>6. jobs' = jobs /\ m \in jobs
    BY <1>8, <2>1 DEF Dispatch, SingleFlight, Registered, InFlight
  <2> QED
    BY <2>3, <2>4, <2>5, <2>6 DEF SingleFlight, OnePlace, Registered, InFlight
<1>9. ASSUME FinishCheck PROVE SingleFlight'
  <2>0. PICK m \in Names : Head(chanEvent) = DoneEvent(m)
    <3>1. Head(chanEvent) \in Event /\ Head(chanEvent).type = "done"
      BY <1>9, ReceiveType DEF FinishCheck
    <3> QED
      BY <3>1 DEF Event, DoneEvent
  <2>1. Finished(m)
    <3>1. 1 \in DOMAIN chanEvent /\ chanEvent[1] = Head(chanEvent)
      BY <1>9 DEF FinishCheck, Receive, TypeOK
    <3> QED
      BY <2>0, <3>1 DEF Finished
  <2>2. /\ \A n \in Names : Finished(n)' => Finished(n)
        /\ ~Finished(m)'
        /\ OneDone(chanEvent)'
    <3>1. chanEvent \in Seq(Event) /\ chanEvent # <<>> /\ chanEvent' = Tail(chanEvent)
      BY <1>9 DEF FinishCheck, Receive, TypeOK
    <3>2. OneDone(chanEvent)
      BY DEF SingleFlight, NoTwin, OneDone
    <3>3. /\ \A n \in Names : HasDone(chanEvent', n) => HasDone(chanEvent, n)
          /\ ~HasDone(chanEvent', m)
          /\ OneDone(chanEvent')
      BY <2>0, <3>1, <3>2, TailDone
    <3> QED
      BY <3>3 DEF Finished, HasDone, OneDone
  <2>3. NoTwin'
    BY <1>9, <2>2 DEF FinishCheck, SingleFlight, NoTwin, OneDone
  <2>4. \A n \in Names : /\ Dispatching(n)' <=> Dispatching(n)
                         /\ Queued(n)' <=> Queued(n)
                         /\ Running(n)' <=> Running(n)
    BY <1>9 DEF FinishCheck, Dispatching, Queued, Running
  <2>5. jobs' = jobs \ {m}
    BY <1>9, <2>0 DEF FinishCheck, DoneEvent
  <2>6. ~Dispatching(m) /\ ~Queued(m) /\ ~Running(m)
    BY <2>1 DEF SingleFlight, OnePlace
  <2> QED
    BY <2>2, <2>3, <2>4, <2>5, <2>6 DEF SingleFlight, OnePlace, Registered, InFlight
<1>10. ASSUME BeginCommand PROVE SingleFlight'
  BY <1>10, TailDone, SingleFlightFrame DEF BeginCommand, Receive, Receiving, TypeOK
<1>11. ASSUME NEW n \in Names, CommandSends(n) PROVE SingleFlight'
  <2>1. NewEvent(n) \in Event /\ NewEvent(n).type # "done"
    BY DEF NewEvent, Event
  <2>2. loop.pc # "dispatch" /\ loop'.pc # "dispatch"
    BY <1>11 DEF CommandSends, TypeOK, LoopState
  <2> QED
    BY <1>11, <2>1, <2>2, AppendOther, SingleFlightFrame DEF TypeOK, CommandSends, SendEvent
<1>12. ASSUME EndCommand PROVE SingleFlight'
  BY <1>12, SingleFlightFrame DEF EndCommand, Receiving
<1>13. ASSUME NEW w \in Workers, TakeCheck(w) PROVE SingleFlight'
  <2>0. PICK m \in Names : m = Head(chanWork)
    BY <1>13 DEF TypeOK, TakeCheck
  <2>1. /\ 1 \in DOMAIN chanWork /\ chanWork[1] = m
        /\ \A i \in DOMAIN chanWork' :
             i \in Nat \ {0} /\ i + 1 \in DOMAIN chanWork /\ chanWork'[i] = chanWork[i + 1]
    BY <1>13, <2>0 DEF TypeOK, TakeCheck
  <2>2. Queued(m) /\ ~Queued(m)'
    <3>1. \A i \in DOMAIN chanWork' : chanWork'[i] # m
      BY <2>1 DEF SingleFlight, NoTwin
    <3> QED
      BY <2>1, <3>1 DEF Queued
  <2>3. ~Dispatching(m) /\ ~Running(m) /\ ~Finished(m) /\ m \in jobs
    BY <2>1, <2>2 DEF SingleFlight, OnePlace, Registered, InFlight
  <2>4. worker' = [worker EXCEPT ![w] = [pc |-> "lookup", name |-> m]] /\ worker[w] = Idle
    BY <1>13, <2>0 DEF TakeCheck, SetWorker
  <2>5. /\ worker'[w] # Idle /\ worker'[w].name = m
        /\ \A v \in Workers : v # w => worker'[v] = worker[v]
    BY <2>4 DEF TypeOK, Idle
  <2>6. \A i, j \in DOMAIN chanWork' : chanWork'[i] = chanWork'[j] => i = j
    <3> SUFFICES ASSUME NEW i \in DOMAIN chanWork', NEW j \in DOMAIN chanWork',
                        chanWork'[i] = chanWork'[j]
                 PROVE  i = j
      OBVIOUS
    <3>1. i + 1 = j + 1
      BY <2>1 DEF SingleFlight, NoTwin
    <3> QED
      BY <2>1, <3>1
  <2>7. \A u, v \in Workers : worker'[u] # Idle /\ worker'[v] # Idle
                                /\ worker'[u].name = worker'[v].name => u = v
    BY <2>3, <2>5 DEF SingleFlight, NoTwin, Running
  <2>8. NoTwin'
    BY <1>13, <2>6, <2>7 DEF TakeCheck, SingleFlight, NoTwin
  <2>9. \A n \in Names : /\ Dispatching(n)' => Dispatching(n)
                         /\ Queued(n)' => Queued(n)
                         /\ Running(n)' => Running(n) \/ n = m
                         /\ Finished(n)' => Finished(n)
    BY <1>13, <2>1, <2>5 DEF TakeCheck, Dispatching, Queued, Running, Finished
  <2>10. jobs' = jobs
    BY <1>13 DEF TakeCheck
  <2> QED
    BY <2>2, <2>3, <2>8, <2>9, <2>10 DEF SingleFlight, OnePlace, Registered, InFlight
<1>14. ASSUME NEW w \in Workers, CheckStep(w) PROVE SingleFlight'
  <2>1. /\ worker[w] # Idle
        /\ worker'[w] = Idle \/ (worker'[w] # Idle /\ worker'[w].name = worker[w].name)
        /\ \A v \in Workers : v # w => worker'[v] = worker[v]
        /\ UNCHANGED <<chanEvent, chanWork, jobs, loop>>
    BY <1>14 DEF CheckStep, UnknownZone, LookupFails, LookupSucceeds, PollEnds, SetWorker,
       TypeOK, WorkerState, Idle
  <2>2. NoTwin'
    BY <2>1 DEF SingleFlight, NoTwin
  <2>3. \A n \in Names : /\ Dispatching(n)' => Dispatching(n)
                         /\ Queued(n)' => Queued(n)
                         /\ Running(n)' => Running(n)
                         /\ Finished(n)' => Finished(n)
    BY <2>1 DEF Dispatching, Queued, Running, Finished
  <2> QED
    BY <2>1, <2>2, <2>3 DEF SingleFlight, OnePlace, Registered, InFlight
<1>15. ASSUME NEW w \in Workers, ReportDone(w) PROVE SingleFlight'
  <2>0. PICK m \in Names : m = worker[w].name
    BY <1>15 DEF ReportDone, TypeOK, WorkerState
  <2>1. /\ worker[w].name = m /\ worker[w] # Idle /\ worker'[w] = Idle
        /\ \A v \in Workers : v # w => worker'[v] = worker[v]
        /\ chanEvent' = Append(chanEvent, DoneEvent(m))
        /\ UNCHANGED <<chanWork, jobs, loop>>
    BY <1>15, <2>0 DEF ReportDone, SetWorker, SendEvent, TypeOK, Idle
  <2>2. Running(m) /\ ~Running(m)'
    BY <2>1 DEF Running, SingleFlight, NoTwin
  <2>3. ~Dispatching(m) /\ ~Queued(m) /\ ~Finished(m) /\ m \in jobs
    BY <2>1, <2>2 DEF SingleFlight, OnePlace, Registered, InFlight
  <2>4. /\ OneDone(chanEvent)'
        /\ \A n \in Names : Finished(n)' => Finished(n) \/ n = m
    BY <2>1, <2>3, AppendDone DEF TypeOK, SingleFlight, NoTwin, OneDone, Finished, HasDone
  <2>5. NoTwin'
    BY <2>1, <2>4 DEF SingleFlight, NoTwin, OneDone
  <2>6. \A n \in Names : /\ Dispatching(n)' => Dispatching(n)
                         /\ Queued(n)' => Queued(n)
                         /\ Running(n)' => Running(n)
    BY <2>1 DEF Dispatching, Queued, Running
  <2> QED
    BY <2>1, <2>2, <2>3, <2>4, <2>5, <2>6 DEF SingleFlight, OnePlace, Registered, InFlight
<1>16. ASSUME UNCHANGED vars PROVE SingleFlight'
  BY <1>16, SingleFlightFrame DEF vars
<1> QED
  BY <1>1, <1>2, <1>3, <1>4, <1>5, <1>6, <1>7, <1>8, <1>9, <1>10, <1>11, <1>12,
     <1>13, <1>14, <1>15, <1>16 DEF Next, ReceiveStep, CommandStep

(***************************************************************************)
(* At most one check of a zone is under way and the map jobs knows it, for *)
(* any number of zones, workers, handlers and sessions and any capacities. *)
(***************************************************************************)
THEOREM ChecksAreSingleFlight == Spec => []SingleFlight
<1>1. Init => TypeOK /\ SingleFlight
  BY InitType, InitSingleFlight
<1>2. (TypeOK /\ SingleFlight) /\ [Next]_vars => (TypeOK /\ SingleFlight)'
  BY NextType, NextSingleFlight
<1> QED
  BY <1>1, <1>2, PTL DEF Spec

-----------------------------------------------------------------------------
(* Sessions that wait for a prompt.                                         *)

\* The commands of session s in a queue of events.
Owing(q, s) == {i \in DOMAIN q : q[i].type = "cli" /\ q[i].client = s}
OneOwing(q, s) == \A i, j \in Owing(q, s) : i = j

LEMMA OwingAppend ==
  ASSUME NEW q \in Seq(Event), NEW e \in Event, NEW s \in Sessions
  PROVE  /\ e.type = "cli" /\ e.client = s =>
              Owing(Append(q, e), s) = Owing(q, s) \cup {Len(q) + 1}
         /\ ~(e.type = "cli" /\ e.client = s) => Owing(Append(q, e), s) = Owing(q, s)
<1>1. /\ DOMAIN Append(q, e) = DOMAIN q \cup {Len(q) + 1}
      /\ \A i \in DOMAIN q : Append(q, e)[i] = q[i] /\ i # Len(q) + 1
      /\ Append(q, e)[Len(q) + 1] = e
  OBVIOUS
<1> QED
  BY <1>1 DEF Owing

LEMMA OwingTail ==
  ASSUME NEW q \in Seq(Event), q # <<>>, NEW s \in Sessions
  PROVE  /\ OneOwing(q, s) => OneOwing(Tail(q), s)
         /\ ~(Head(q).type = "cli" /\ Head(q).client = s) =>
              (Owing(Tail(q), s) = {} <=> Owing(q, s) = {})
         /\ Head(q).type = "cli" /\ Head(q).client = s =>
              /\ Owing(q, s) # {}
              /\ OneOwing(q, s) => Owing(Tail(q), s) = {}
<1>1. \A i \in Owing(Tail(q), s) : i \in Nat \ {0} /\ i + 1 \in Owing(q, s)
  BY DEF Owing
<1>2. \A i \in Owing(q, s) :
        /\ i \in Nat \ {0}
        /\ i # 1 => i - 1 \in Owing(Tail(q), s)
  BY DEF Owing
<1>3. 1 \in Owing(q, s) <=> Head(q).type = "cli" /\ Head(q).client = s
  BY DEF Owing
<1>4. ASSUME OneOwing(q, s), NEW i \in Owing(Tail(q), s), NEW j \in Owing(Tail(q), s)
      PROVE  i = j
  <2>1. i + 1 = j + 1
    BY <1>1, <1>4 DEF OneOwing
  <2> QED
    BY <1>1, <2>1
<1>5. ASSUME OneOwing(q, s), 1 \in Owing(q, s), NEW i \in Owing(Tail(q), s)
      PROVE  FALSE
  <2>1. i + 1 = 1
    BY <1>1, <1>5 DEF OneOwing
  <2> QED
    BY <1>1, <2>1
<1>6. 1 \notin Owing(q, s) => (Owing(Tail(q), s) = {} <=> Owing(q, s) = {})
  BY <1>1, <1>2
<1> QED
  BY <1>3, <1>4, <1>5, <1>6 DEF OneOwing

LEMMA PromptOwedIs ==
  PromptOwed <=> \A s \in Sessions :
    /\ OneOwing(chanEvent, s)
    /\ session[s].pc = "waiting" <=> (Owing(chanEvent, s) # {} \/ Serving(s))
    /\ Serving(s) => Owing(chanEvent, s) = {}
BY DEF PromptOwed, Owed, Owing, OneOwing

\* A step that takes no session into or out of its wait.
LEMMA PromptOwedFrame ==
  ASSUME PromptOwed,
         \A s \in Sessions :
           /\ session'[s].pc = "waiting" <=> session[s].pc = "waiting"
           /\ Serving(s)' <=> Serving(s)
           /\ Owing(chanEvent', s) = {} <=> Owing(chanEvent, s) = {}
           /\ OneOwing(chanEvent, s) => OneOwing(chanEvent', s)
  PROVE  PromptOwed'
BY DEF PromptOwed, Owed, Owing, OneOwing

LEMMA NextPromptOwed == TypeOK /\ PromptOwed /\ [Next]_vars => PromptOwed'
<1> SUFFICES ASSUME TypeOK, PromptOwed, [Next]_vars PROVE PromptOwed'
  OBVIOUS
<1>0. /\ chanEvent \in Seq(Event)
      /\ session \in [Sessions -> SessionState]
  BY DEF TypeOK
\* A send of something else than a command, and a receive of the like.
<1>a. ASSUME NEW e \in Event, e.type # "cli", SendEvent(e), UNCHANGED session,
             \A s \in Sessions : Serving(s)' <=> Serving(s)
      PROVE  PromptOwed'
  <2>1. \A s \in Sessions : Owing(chanEvent', s) = Owing(chanEvent, s)
    BY <1>a, <1>0, OwingAppend DEF SendEvent
  <2> QED
    BY <1>a, <2>1, PromptOwedFrame DEF OneOwing
<1>b. ASSUME NEW t, t # "cli", Receive(t), UNCHANGED session,
             \A s \in Sessions : Serving(s)' <=> Serving(s)
      PROVE  PromptOwed'
  <2>1. \A s \in Sessions : /\ Owing(chanEvent', s) = {} <=> Owing(chanEvent, s) = {}
                            /\ OneOwing(chanEvent, s) => OneOwing(chanEvent', s)
    BY <1>b, <1>0, OwingTail DEF Receive
  <2> QED
    BY <1>b, <2>1, PromptOwedFrame
<1>1. ASSUME NEW h \in Handlers, NEW z \in NotifyZones, NotifyArrives(h, z)
      PROVE  PromptOwed'
  BY <1>1, PromptOwedFrame DEF NotifyArrives, Serving
<1>2. ASSUME NEW h \in Handlers, NotifyQueued(h) PROVE PromptOwed'
  <2>1. NewEvent(handler[h].name) \in Event /\ NewEvent(handler[h].name).type # "cli"
    BY <1>2, ConfigAssumption DEF TypeOK, NotifyQueued, HandlerState, NewEvent, Event
  <2> QED
    BY <1>2, <1>a, <2>1 DEF NotifyQueued, Serving
<1>3. ASSUME NEW s \in Sessions,
             \/ Connect(s) \/ Disconnect(s)
             \/ \E c \in Commands : Submit(s, c)
      PROVE  PromptOwed'
  <2>1. /\ session[s].pc # "waiting" /\ session'[s].pc # "waiting"
        /\ \A r \in Sessions : r # s => session'[r] = session[r]
        /\ UNCHANGED <<chanEvent, loop>>
    BY <1>3, <1>0 DEF Connect, Disconnect, Submit, SetSession
  <2> QED
    BY <2>1, PromptOwedFrame DEF Serving
<1>4. ASSUME NEW s \in Sessions, CommandQueued(s) PROVE PromptOwed'
  <2>1. /\ session[s].pc = "sending" /\ session'[s].pc = "waiting"
        /\ \A r \in Sessions : r # s => session'[r] = session[r]
        /\ UNCHANGED loop
    BY <1>4, <1>0 DEF CommandQueued, SetSession
  <2>2. PICK e \in Event : /\ e.type = "cli" /\ e.client = s
                           /\ chanEvent' = Append(chanEvent, e)
    <3>1. CliEvent(s, session[s].cmd) \in Event
      BY <1>4, <1>0 DEF CommandQueued, SessionState, CliEvent, Event
    <3> QED
      BY <1>4, <3>1 DEF CommandQueued, SendEvent, CliEvent
  <2>3. Owing(chanEvent, s) = {} /\ ~Serving(s) /\ ~Serving(s)'
    BY <2>1, PromptOwedIs DEF Serving
  <2>4. Owing(chanEvent', s) = {Len(chanEvent) + 1}
    BY <1>0, <2>2, <2>3, OwingAppend
  <2>5. \A r \in Sessions : r # s => Owing(chanEvent', r) = Owing(chanEvent, r)
    BY <1>0, <2>2, OwingAppend
  <2>6. ASSUME NEW r \in Sessions
        PROVE  /\ OneOwing(chanEvent', r)
               /\ session'[r].pc = "waiting" <=> (Owing(chanEvent', r) # {} \/ Serving(r)')
               /\ Serving(r)' => Owing(chanEvent', r) = {}
    <3>1. CASE r = s
      BY <3>1, <2>1, <2>3, <2>4 DEF OneOwing
    <3>2. CASE r # s
      BY <3>2, <2>1, <2>5, PromptOwedIs DEF OneOwing, Serving
    <3> QED
      BY <3>1, <3>2
  <2> QED
    BY <2>6 DEF PromptOwed, Owed, Owing, OneOwing
<1>5. ASSUME AcceptCheck \/ DropCheck \/ FinishCheck PROVE PromptOwed'
  BY <1>5, <1>b DEF AcceptCheck, DropCheck, FinishCheck, Receive, Receiving, Serving
<1>6. ASSUME Dispatch PROVE PromptOwed'
  BY <1>6, PromptOwedFrame DEF Dispatch, Receiving, Serving
<1>7. ASSUME BeginCommand PROVE PromptOwed'
  <2>0. PICK s \in Sessions : s = Head(chanEvent).client
    BY <1>7, ReceiveType DEF BeginCommand, Event
  <2>1. /\ chanEvent # <<>> /\ chanEvent' = Tail(chanEvent)
        /\ Head(chanEvent).type = "cli" /\ Head(chanEvent).client = s
        /\ loop.pc = "receive" /\ loop'.pc = "cli" /\ loop'.client = s
        /\ UNCHANGED session
    BY <1>7, <2>0 DEF BeginCommand, Receive, Receiving
  <2>2. OneOwing(chanEvent, s) /\ session[s].pc = "waiting"
    BY <1>0, <2>1, OwingTail, PromptOwedIs
  <2>3. OneOwing(chanEvent', s) /\ Owing(chanEvent', s) = {}
    BY <1>0, <2>1, <2>2, OwingTail
  <2>4. \A r \in Sessions : r # s =>
          /\ Owing(chanEvent', r) = {} <=> Owing(chanEvent, r) = {}
          /\ OneOwing(chanEvent, r) => OneOwing(chanEvent', r)
    BY <1>0, <2>1, OwingTail
  <2>5. \A r \in Sessions : ~Serving(r) /\ (Serving(r)' <=> r = s)
    BY <2>1 DEF Serving
  <2>6. ASSUME NEW r \in Sessions
        PROVE  /\ OneOwing(chanEvent', r)
               /\ session'[r].pc = "waiting" <=> (Owing(chanEvent', r) # {} \/ Serving(r)')
               /\ Serving(r)' => Owing(chanEvent', r) = {}
    <3>1. CASE r = s
      BY <3>1, <2>1, <2>2, <2>3, <2>5
    <3>2. CASE r # s
      BY <3>2, <2>1, <2>4, <2>5, PromptOwedIs
    <3> QED
      BY <3>1, <3>2
  <2> QED
    BY <2>6 DEF PromptOwed, Owed, Owing, OneOwing
<1>8. ASSUME NEW n \in Names, CommandSends(n) PROVE PromptOwed'
  <2>1. NewEvent(n) \in Event /\ NewEvent(n).type # "cli"
    BY DEF NewEvent, Event
  <2>2. loop'.pc = loop.pc /\ loop'.client = loop.client
    BY <1>8 DEF CommandSends, TypeOK, LoopState
  <2> QED
    BY <1>8, <1>a, <2>1, <2>2 DEF CommandSends, Serving
<1>9. ASSUME EndCommand PROVE PromptOwed'
  <2>0. PICK s \in Sessions : s = loop.client
    BY <1>9 DEF EndCommand, TypeOK, LoopState
  <2>1. /\ loop.pc = "cli" /\ loop.client = s /\ loop'.pc = "receive"
        /\ session'[s].pc = "reading"
        /\ \A r \in Sessions : r # s => session'[r] = session[r]
        /\ UNCHANGED chanEvent
    BY <1>9, <1>0, <2>0 DEF EndCommand, SetSession, Receiving
  <2>2. \A r \in Sessions : ~Serving(r)' /\ (Serving(r) <=> r = s)
    BY <2>1 DEF Serving
  <2>3. ASSUME NEW r \in Sessions
        PROVE  /\ OneOwing(chanEvent', r)
               /\ session'[r].pc = "waiting" <=> (Owing(chanEvent', r) # {} \/ Serving(r)')
               /\ Serving(r)' => Owing(chanEvent', r) = {}
    BY <2>1, <2>2, PromptOwedIs
  <2> QED
    BY <2>3 DEF PromptOwed, Owed, Owing, OneOwing
<1>10. ASSUME NEW w \in Workers, TakeCheck(w) \/ CheckStep(w) PROVE PromptOwed'
  <2>1. UNCHANGED <<chanEvent, loop, session>>
    BY <1>10 DEF TakeCheck, CheckStep, UnknownZone, LookupFails, LookupSucceeds, PollEnds
  <2> QED
    BY <2>1, PromptOwedFrame DEF Serving
<1>11. ASSUME NEW w \in Workers, ReportDone(w) PROVE PromptOwed'
  <2>1. DoneEvent(worker[w].name) \in Event /\ DoneEvent(worker[w].name).type # "cli"
    BY <1>11 DEF TypeOK, ReportDone, WorkerState, DoneEvent, Event
  <2> QED
    BY <1>11, <1>a, <2>1 DEF ReportDone, Serving
<1>12. ASSUME UNCHANGED vars PROVE PromptOwed'
  BY <1>12, PromptOwedFrame DEF vars, Serving
<1> QED
  BY <1>1, <1>2, <1>3, <1>4, <1>5, <1>6, <1>7, <1>8, <1>9, <1>10, <1>11, <1>12
     DEF Next, ReceiveStep, CommandStep

(***************************************************************************)
(* A session waits exactly while one command of its is in chanEvent or     *)
(* executed by CLI(), for any number of sessions: the done channel it      *)
(* waits for will be closed, and is closed once.                           *)
(***************************************************************************)
THEOREM PromptsAreOwed == Spec => []PromptOwed
<1>1. Init => TypeOK /\ PromptOwed
  BY InitType DEF Init, PromptOwed, Owed, Serving, Receiving
<1>2. (TypeOK /\ PromptOwed) /\ [Next]_vars => (TypeOK /\ PromptOwed)'
  BY NextType, NextPromptOwed
<1> QED
  BY <1>1, <1>2, PTL DEF Spec

-----------------------------------------------------------------------------
(* Waiting in a circle takes more names than places.                        *)

\* A finite set that a function maps onto T, no two elements to the same, has
\* as many elements as T.
LEMMA OntoSize ==
  ASSUME NEW S, IsFiniteSet(S), NEW T, NEW f \in [S -> T],
         \A t \in T : \E x \in S : f[x] = t,
         \A x, y \in S : f[x] = f[y] => x = y
  PROVE  IsFiniteSet(T) /\ Cardinality(T) = Cardinality(S)
<1>1. f \in Surjection(S, T)
  BY DEF Surjection
<1>2. f \in Injection(S, T)
  BY DEF Injection, IsInjective
<1> QED
  BY <1>1, <1>2, FS_Surjection

LEMMA NoWait == TypeOK /\ SingleFlight => NoCircularWait
<1> SUFFICES ASSUME TypeOK, SingleFlight, PoolHoldsNames, CircularWait PROVE FALSE
  BY DEF NoCircularWait
<1> DEFINE queued == {chanWork[i] : i \in 1 .. WorkCap}
           nameOf == [w \in Workers |-> worker[w].name]
           running == {nameOf[w] : w \in Workers}
<1>0. /\ WorkCap \in Nat /\ IsFiniteSet(Workers) /\ IsFiniteSet(Names)
      /\ \A w \in Workers : worker[w].pc = "done" /\ worker[w] # Idle
  BY PoolAssumption, FiniteAssumption DEF CircularWait, Idle
<1>1. PICK m \in Names : Dispatching(m)
  BY DEF CircularWait, TypeOK, LoopState, Dispatching
<1>2. /\ DOMAIN chanWork = 1 .. WorkCap /\ chanWork = [i \in 1 .. WorkCap |-> chanWork[i]]
      /\ \A i \in 1 .. WorkCap : chanWork[i] \in Names
  BY <1>0 DEF CircularWait, WorkRoom, TypeOK
<1>3. \A w \in Workers : worker[w].name \in Names
  BY <1>0 DEF TypeOK, WorkerState, Idle
<1>4. IsFiniteSet(queued) /\ Cardinality(queued) = WorkCap
  <2>1. IsFiniteSet(1 .. WorkCap) /\ Cardinality(1 .. WorkCap) = WorkCap
    BY <1>0, FS_Interval
  <2>2. \A i, j \in 1 .. WorkCap : chanWork[i] = chanWork[j] => i = j
    BY <1>2 DEF SingleFlight, NoTwin
  <2>3. chanWork \in [1 .. WorkCap -> queued]
    BY <1>2
  <2>4. \A n \in queued : \E i \in 1 .. WorkCap : chanWork[i] = n
    OBVIOUS
  <2> HIDE DEF queued
  <2> QED
    BY <2>1, <2>2, <2>3, <2>4, OntoSize
<1>5. IsFiniteSet(running) /\ Cardinality(running) = Cardinality(Workers)
  <2>1. \A v, w \in Workers : nameOf[v] = nameOf[w] => v = w
    BY <1>0 DEF SingleFlight, NoTwin
  <2>2. nameOf \in [Workers -> running]
    OBVIOUS
  <2>3. \A n \in running : \E w \in Workers : nameOf[w] = n
    OBVIOUS
  <2> HIDE DEF running, nameOf
  <2> QED
    BY <1>0, <2>1, <2>2, <2>3, OntoSize
<1>6. queued \cap running = {} /\ queued \cup running \subseteq Names \ {m}
  <2>1. \A n \in queued : n \in Names /\ Queued(n)
    BY <1>2 DEF Queued
  <2>2. \A n \in running : n \in Names /\ Running(n)
    BY <1>0, <1>3 DEF Running
  <2> QED
    BY <1>1, <2>1, <2>2 DEF SingleFlight, OnePlace
<1>7. Cardinality(queued \cup running) = WorkCap + Cardinality(Workers)
  <2>1. Cardinality(queued \cup running)
          = Cardinality(queued) + Cardinality(running) - Cardinality(queued \cap running)
    BY <1>4, <1>5, FS_Union
  <2>2. Cardinality(queued \cap running) = 0
    BY <1>6, FS_EmptySet
  <2>3. Cardinality(Workers) \in Nat
    BY <1>0, FS_CardinalityType
  <2> HIDE DEF queued, running
  <2> QED
    BY <1>0, <1>4, <1>5, <2>1, <2>2, <2>3
<1>8. /\ IsFiniteSet(Names \ {m})
      /\ Cardinality(Names \ {m}) = Cardinality(Names) - 1
  BY <1>0, FS_RemoveElement
<1>9. Cardinality(queued \cup running) <= Cardinality(Names \ {m})
  BY <1>6, <1>8, FS_Subset
<1>10. Cardinality(Names) \in Nat /\ Cardinality(Workers) \in Nat
  BY <1>0, FS_CardinalityType
<1> HIDE DEF queued, running
<1> QED
  BY <1>0, <1>7, <1>8, <1>9, <1>10 DEF PoolHoldsNames

(***************************************************************************)
(* While there are no more names than workers and places in chanWork, the  *)
(* event loop never waits for room in chanWork with every worker waiting   *)
(* to send it MessageDone: each of them holds another name, because of     *)
(* SingleFlight, and the event loop one more.                              *)
(***************************************************************************)
THEOREM WaitIsNotCircular == Spec => []NoCircularWait
BY TypeCorrect, ChecksAreSingleFlight, NoWait, PTL
=============================================================================
