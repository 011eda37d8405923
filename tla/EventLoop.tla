------------------------------ MODULE EventLoop ------------------------------
(***************************************************************************)
(* The concurrency core of the check_dns_propagation daemon.               *)
(*                                                                         *)
(* DNS NOTIFY handlers, telnet sessions and zone-check workers all talk to *)
(* one event loop over the buffered channel chanEvent; the event loop is   *)
(* the only goroutine that touches the map jobs, and it hands accepted     *)
(* checks to the worker pool over the buffered channel chanWork.           *)
(*                                                                         *)
(* A Go send on a full buffered channel blocks the goroutine.  A handler,  *)
(* a session or a worker that is about to send is therefore a state of     *)
(* its own, and the send is an action guarded by room in the channel.      *)
(***************************************************************************)
EXTENDS Naturals, Sequences, FiniteSets

CONSTANTS
  Names,         \* zone names that can appear in an event, configured or typed
  Zones,         \* keys of config.Zones
  DnsNodeZones,  \* zones with dnsnode: true
  NotifyZones,   \* of these, the ones with dns_check_propagation: true
  FailingZones,  \* zones whose primary may fail to answer the SOA or NS query
  Workers,       \* the goroutines running worker()
  Handlers,      \* goroutines of the DNS server that can be inside a NOTIFY at once
  Sessions,      \* telnet connections
  Commands,      \* console commands the operators type; see CheckName below
  EventCap,      \* cap(chanEvent), 500 in the daemon
  WorkCap        \* cap(chanWork), 500 in the daemon

(***************************************************************************)
(* To the event loop a console command is the set of zone names for which  *)
(* it sends itself a MessageNew: one name for "check <name>", whatever was *)
(* typed; every DnsNode zone for "check all"; none for any other command.  *)
(***************************************************************************)
CheckName(n) == {n}
CheckAll == DnsNodeZones
OtherCommand == {}

ASSUME ConfigAssumption ==
  /\ Zones \subseteq Names
  /\ DnsNodeZones \subseteq Zones
  /\ NotifyZones \subseteq DnsNodeZones
  /\ FailingZones \subseteq Zones
  /\ Commands \subseteq {CheckAll, OtherCommand} \cup {CheckName(n) : n \in Names}

ASSUME FiniteAssumption == IsFiniteSet(Names) /\ IsFiniteSet(Workers)

\* main() raises MaxWorkers to 1, and both channels are made with a buffer.
ASSUME PoolAssumption ==
  /\ Workers # {}
  /\ EventCap \in Nat \ {0}
  /\ WorkCap \in Nat \ {0}

VARIABLES
  chanEvent,  \* events on their way to the event loop
  chanWork,   \* names of the accepted checks no worker has taken yet
  jobs,       \* keys of the map jobs
  loop,       \* what the event loop is doing
  worker,     \* what each worker is doing
  handler,    \* what each NOTIFY handler is doing
  session     \* what each telnet session is doing

vars == <<chanEvent, chanWork, jobs, loop, worker, handler, session>>

NewEvent(n) == [type |-> "new", name |-> n]
DoneEvent(n) == [type |-> "done", name |-> n]
CliEvent(s, c) == [type |-> "cli", client |-> s, cmd |-> c]

Event == [type : {"new", "done"}, name : Names]
           \cup [type : {"cli"}, client : Sessions, cmd : Commands]

LoopState == [pc : {"receive"}]
               \cup [pc : {"dispatch"}, name : Names]
               \cup [pc : {"cli"}, client : Sessions, todo : SUBSET Names]

WorkerState == [pc : {"idle"}] \cup [pc : {"lookup", "poll", "done"}, name : Names]

HandlerState == [pc : {"idle"}] \cup [pc : {"send"}, name : NotifyZones]

SessionState == [pc : {"closed", "reading", "waiting"}]
                  \cup [pc : {"sending"}, cmd : Commands]

Receiving == [pc |-> "receive"]
Idle == [pc |-> "idle"]

\* Room for one more send on a channel.
EventRoom == Len(chanEvent) < EventCap
WorkRoom == Len(chanWork) < WorkCap
\* Mutant: the channel has no limit.
SendEventUnbounded(e) == chanEvent' = Append(chanEvent, e)

\* A send that goes through; until it can, the sender is blocked.
SendEvent(e) == EventRoom /\ chanEvent' = Append(chanEvent, e)

Init ==
  /\ chanEvent = <<>>
  /\ chanWork = <<>>
  /\ jobs = {}
  /\ loop = Receiving
  /\ worker = [w \in Workers |-> Idle]
  /\ handler = [h \in Handlers |-> Idle]
  /\ session = [s \in Sessions |-> [pc |-> "closed"]]

-----------------------------------------------------------------------------
(* handleDNSRequest: a goroutine of the DNS server.                         *)

\* A question of a NOTIFY names a zone that is watched.  Any other request is
\* answered without touching the daemon's state; a NOTIFY with several
\* questions is a handler that comes back for the next one.
NotifyArrives(h, z) ==
  /\ handler[h] = Idle
  /\ z \in NotifyZones
  /\ handler' = [handler EXCEPT ![h] = [pc |-> "send", name |-> z]]
  /\ UNCHANGED <<chanEvent, chanWork, jobs, loop, worker, session>>

\* chanEvent <- MessageNew, then the reply to the sender of the NOTIFY.
NotifyQueued(h) ==
  /\ handler[h].pc = "send"
  /\ SendEvent(NewEvent(handler[h].name))
  /\ handler' = [handler EXCEPT ![h] = Idle]
  /\ UNCHANGED <<chanWork, jobs, loop, worker, session>>

-----------------------------------------------------------------------------
(* HandleTelnetClient: one goroutine per telnet connection.                 *)

SetSession(s, st) == session' = [session EXCEPT ![s] = st]

Connect(s) ==
  /\ session[s].pc = "closed"
  /\ SetSession(s, [pc |-> "reading"])
  /\ UNCHANGED <<chanEvent, chanWork, jobs, loop, worker, handler>>

\* ReadLine returned "quit", Ctrl-D or an error.  A session that is sending or
\* waiting does not read, so it does not notice that its peer went away.
Disconnect(s) ==
  /\ session[s].pc = "reading"
  /\ SetSession(s, [pc |-> "closed"])
  /\ UNCHANGED <<chanEvent, chanWork, jobs, loop, worker, handler>>

\* ReadLine returned a command line.
Submit(s, c) ==
  /\ session[s].pc = "reading"
  /\ c \in Commands
  /\ SetSession(s, [pc |-> "sending", cmd |-> c])
  /\ UNCHANGED <<chanEvent, chanWork, jobs, loop, worker, handler>>

\* chanEvent <- MessageCLI; the session then waits on its done channel.
CommandQueued(s) ==
  /\ session[s].pc = "sending"
  /\ SendEvent(CliEvent(s, session[s].cmd))
  /\ SetSession(s, [pc |-> "waiting"])
  /\ UNCHANGED <<chanWork, jobs, loop, worker, handler>>

-----------------------------------------------------------------------------
(* eventLoop: the one goroutine that receives from chanEvent.               *)

Receive(type) ==
  /\ loop = Receiving
  /\ chanEvent # <<>>
  /\ Head(chanEvent).type = type
  /\ chanEvent' = Tail(chanEvent)

\* Mutant: the map jobs is not consulted.
AcceptCheckUnguarded ==
  /\ Receive("new")
  /\ jobs' = jobs \cup {Head(chanEvent).name}
  /\ loop' = [pc |-> "dispatch", name |-> Head(chanEvent).name]
  /\ UNCHANGED <<chanWork, worker, handler, session>>

\* MessageNew for a zone that has no job: register it and go on to hand it over.
AcceptCheck ==
  /\ Receive("new")
  /\ Head(chanEvent).name \notin jobs
  /\ jobs' = jobs \cup {Head(chanEvent).name}
  /\ loop' = [pc |-> "dispatch", name |-> Head(chanEvent).name]
  /\ UNCHANGED <<chanWork, worker, handler, session>>

\* MessageNew for a zone whose check is registered: dropped with a warning.
DropCheck ==
  /\ Receive("new")
  /\ Head(chanEvent).name \in jobs
  /\ UNCHANGED <<chanWork, jobs, loop, worker, handler, session>>

\* Mutant: the send has a default branch that gives the check up.
DispatchOrDrop ==
  /\ loop.pc = "dispatch"
  /\ chanWork' = IF WorkRoom THEN Append(chanWork, loop.name) ELSE chanWork
  /\ loop' = Receiving
  /\ UNCHANGED <<chanEvent, jobs, worker, handler, session>>

\* chanWork <- Event{Name}
Dispatch ==
  /\ loop.pc = "dispatch"
  /\ WorkRoom
  /\ chanWork' = Append(chanWork, loop.name)
  /\ loop' = Receiving
  /\ UNCHANGED <<chanEvent, jobs, worker, handler, session>>

\* Mutant: the job stays in the map.
FinishCheckKeepsJob ==
  /\ Receive("done")
  /\ UNCHANGED <<chanWork, jobs, loop, worker, handler, session>>

\* MessageDone: the job is removed; a name that has none is only logged.
FinishCheck ==
  /\ Receive("done")
  /\ jobs' = jobs \ {Head(chanEvent).name}
  /\ UNCHANGED <<chanWork, loop, worker, handler, session>>

\* MessageCLI: CLI() runs on the event loop's own goroutine.
BeginCommand ==
  /\ Receive("cli")
  /\ loop' = [pc |-> "cli", client |-> Head(chanEvent).client,
                            todo |-> Head(chanEvent).cmd]
  /\ UNCHANGED <<chanWork, jobs, worker, handler, session>>

\* CLI() sends MessageNew on the channel only its own goroutine receives from.
\* "check all" ranges over a Go map, so the zones come in any order.
CommandSends(n) ==
  /\ loop.pc = "cli"
  /\ n \in loop.todo
  /\ SendEvent(NewEvent(n))
  /\ loop' = [loop EXCEPT !.todo = @ \ {n}]
  /\ UNCHANGED <<chanWork, jobs, worker, handler, session>>

\* Mutant: the done channel of the session is not closed.
EndCommandWithoutClose ==
  /\ loop.pc = "cli"
  /\ loop.todo = {}
  /\ loop' = Receiving
  /\ UNCHANGED <<chanEvent, chanWork, jobs, worker, handler, session>>

\* CLI() returned: close(event.Done) lets the session read its next line.
EndCommand ==
  /\ loop.pc = "cli"
  /\ loop.todo = {}
  /\ SetSession(loop.client, [pc |-> "reading"])
  /\ loop' = Receiving
  /\ UNCHANGED <<chanEvent, chanWork, jobs, worker, handler>>

-----------------------------------------------------------------------------
(* worker and checkZone: the bounded pool.                                  *)

SetWorker(w, st) == worker' = [worker EXCEPT ![w] = st]

TakeCheck(w) ==
  /\ worker[w] = Idle
  /\ chanWork # <<>>
  /\ SetWorker(w, [pc |-> "lookup", name |-> Head(chanWork)])
  /\ chanWork' = Tail(chanWork)
  /\ UNCHANGED <<chanEvent, jobs, loop, handler, session>>

\* Mutant: an unknown name is given up without telling the event loop.
UnknownZoneSilent(w) ==
  /\ worker[w].pc = "lookup"
  /\ worker[w].name \notin Zones
  /\ SetWorker(w, Idle)
  /\ UNCHANGED <<chanEvent, chanWork, jobs, loop, handler, session>>

\* The name is not in the configuration: an error event goes back.
UnknownZone(w) ==
  /\ worker[w].pc = "lookup"
  /\ worker[w].name \notin Zones
  /\ SetWorker(w, [worker[w] EXCEPT !.pc = "done"])
  /\ UNCHANGED <<chanEvent, chanWork, jobs, loop, handler, session>>

\* get_soa_serial or get_ns failed: checkZone returns and sends nothing.
LookupFails(w) ==
  /\ worker[w].pc = "lookup"
  /\ worker[w].name \in FailingZones
  /\ SetWorker(w, Idle)
  /\ UNCHANGED <<chanEvent, chanWork, jobs, loop, handler, session>>

LookupSucceeds(w) ==
  /\ worker[w].pc = "lookup"
  /\ worker[w].name \in Zones
  /\ SetWorker(w, [worker[w] EXCEPT !.pc = "poll"])
  /\ UNCHANGED <<chanEvent, chanWork, jobs, loop, handler, session>>

\* The polling ended, on a verdict that was notified or on a DnsNode API error.
PollEnds(w) ==
  /\ worker[w].pc = "poll"
  /\ SetWorker(w, [worker[w] EXCEPT !.pc = "done"])
  /\ UNCHANGED <<chanEvent, chanWork, jobs, loop, handler, session>>

\* chanEvent <- MessageDone, and the worker ranges on to its next event.
ReportDone(w) ==
  /\ worker[w].pc = "done"
  /\ SendEvent(DoneEvent(worker[w].name))
  /\ SetWorker(w, Idle)
  /\ UNCHANGED <<chanWork, jobs, loop, handler, session>>

-----------------------------------------------------------------------------
CheckStep(w) == UnknownZone(w) \/ LookupFails(w) \/ LookupSucceeds(w) \/ PollEnds(w)

ReceiveStep == AcceptCheck \/ DropCheck \/ FinishCheck \/ BeginCommand

CommandStep == EndCommand \/ \E n \in Names : CommandSends(n)

Next ==
  \/ \E h \in Handlers : NotifyQueued(h) \/ \E z \in NotifyZones : NotifyArrives(h, z)
  \/ \E s \in Sessions : \/ Connect(s) \/ Disconnect(s) \/ CommandQueued(s)
                         \/ \E c \in Commands : Submit(s, c)
  \/ ReceiveStep
  \/ Dispatch
  \/ CommandStep
  \/ \E w \in Workers : TakeCheck(w) \/ CheckStep(w) \/ ReportDone(w)

Spec == Init /\ [][Next]_vars

(***************************************************************************)
(* The Go scheduler runs every goroutine that can run, and goroutines that *)
(* wait to send on a channel are served in the order in which they came:   *)
(* strong fairness for the senders that compete for room in chanEvent.     *)
(* Weak fairness of CheckStep says that the lookups, the polling and the   *)
(* notification of a check return.  NOTIFYs, connections and commands need *)
(* never come.                                                             *)
(***************************************************************************)
Fairness ==
  /\ WF_vars(ReceiveStep)
  /\ WF_vars(Dispatch)
  /\ WF_vars(CommandStep)
  /\ \A w \in Workers : /\ WF_vars(TakeCheck(w))
                        /\ WF_vars(CheckStep(w))
                        /\ SF_vars(ReportDone(w))
  /\ \A h \in Handlers : SF_vars(NotifyQueued(h))
  /\ \A s \in Sessions : SF_vars(CommandQueued(s))

FairSpec == Spec /\ Fairness

-----------------------------------------------------------------------------
TypeOK ==
  /\ chanEvent \in Seq(Event) /\ Len(chanEvent) <= EventCap
  /\ chanWork \in Seq(Names) /\ Len(chanWork) <= WorkCap
  /\ jobs \subseteq Names
  /\ loop \in LoopState
  /\ worker \in [Workers -> WorkerState]
  /\ handler \in [Handlers -> HandlerState]
  /\ session \in [Sessions -> SessionState]

\* Where the check of a name can be between its acceptance and its removal.
Dispatching(n) == loop = [pc |-> "dispatch", name |-> n]
Queued(n) == \E i \in DOMAIN chanWork : chanWork[i] = n
Running(n) == \E w \in Workers : worker[w] # Idle /\ worker[w].name = n
Finished(n) == \E i \in DOMAIN chanEvent : chanEvent[i] = DoneEvent(n)

InFlight(n) == Dispatching(n) \/ Queued(n) \/ Running(n) \/ Finished(n)

\* A name is at no two places of the same kind ...
NoTwin ==
  /\ \A i, j \in DOMAIN chanWork : chanWork[i] = chanWork[j] => i = j
  /\ \A v, w \in Workers :
       worker[v] # Idle /\ worker[w] # Idle /\ worker[v].name = worker[w].name => v = w
  /\ \A i, j \in DOMAIN chanEvent :
       chanEvent[i].type = "done" /\ chanEvent[i] = chanEvent[j] => i = j

\* ... and at no two places of different kinds ...
OnePlace == \A n \in Names :
  /\ Dispatching(n) => ~Queued(n) /\ ~Running(n) /\ ~Finished(n)
  /\ Queued(n) => ~Running(n) /\ ~Finished(n)
  /\ Running(n) => ~Finished(n)

\* ... and wherever it is, the map jobs knows about it.
Registered == \A n \in Names : InFlight(n) => n \in jobs

(***************************************************************************)
(* At most one check of a zone is under way, wherever requests for it come *)
(* from and whatever the workers interleave: two concurrent checks of one  *)
(* zone would both report to the same Icinga service, and the "done" of    *)
(* the first would clear the job of the second.  In particular the branch  *)
(* that logs INTERNAL ERROR for an unexpected "done" is never taken.       *)
(***************************************************************************)
SingleFlight == NoTwin /\ OnePlace /\ Registered

\* The names of the checks a failed lookup lost are the only ones that may be
\* registered with nothing under way for them.
JobsTrackRunning == \A n \in jobs : InFlight(n)
NoLostJob == \A n \in jobs \ FailingZones : InFlight(n)

\* The places that will end the wait of session s by closing its channel.
Owed(s) == {i \in DOMAIN chanEvent : chanEvent[i].type = "cli" /\ chanEvent[i].client = s}
Serving(s) == loop.pc = "cli" /\ loop.client = s

(***************************************************************************)
(* A session waits exactly while one of its commands is queued or executed:*)
(* no session waits for a channel that nobody will close, and no channel   *)
(* is closed twice, which would be a panic of the event loop.              *)
(***************************************************************************)
PromptOwed == \A s \in Sessions :
  /\ \A i, j \in Owed(s) : i = j
  /\ session[s].pc = "waiting" <=> (Owed(s) # {} \/ Serving(s))
  /\ Serving(s) => Owed(s) = {}

(***************************************************************************)
(* The event loop waits for room in chanWork, every worker for room in     *)
(* chanEvent, which only the event loop can make: this cannot happen while *)
(* there are no more names than places for them in the pool and its queue. *)
(***************************************************************************)
CircularWait ==
  /\ loop.pc = "dispatch" /\ ~WorkRoom
  /\ \A w \in Workers : worker[w].pc = "done"

PoolHoldsNames == Cardinality(Names) <= WorkCap + Cardinality(Workers)

NoCircularWait == PoolHoldsNames => ~CircularWait

-----------------------------------------------------------------------------
\* Every accepted check comes to its end, so that its zone can be checked again.
JobFinishes == \A n \in Names : n \in jobs ~> n \notin jobs

\* Every command that was submitted gets its output and the next prompt.
PromptReturns ==
  \A s \in Sessions : session[s].pc \in {"sending", "waiting"} ~> session[s].pc = "reading"

\* Every NOTIFY is handed to the event loop and answered.
NotifyHandled == \A h \in Handlers : handler[h].pc = "send" ~> handler[h] = Idle

-----------------------------------------------------------------------------
\* What an observer of one zone sees of its check: see CheckLifecycle.
Stage(n) ==
  CASE n \notin jobs -> "idle"
    [] Dispatching(n) -> "accepted"
    [] Queued(n) -> "queued"
    [] Running(n) -> "running"
    [] Finished(n) -> "finished"
    [] OTHER -> "lost"

Lifecycle == INSTANCE CheckLifecycle WITH stage <- [n \in Names |-> Stage(n)]

\* The pool, its queue and the event loop together run the checks of every
\* zone one after the other, each through the stages of CheckLifecycle.
ImplementsLifecycle == Lifecycle!Spec

\* What an operator sees of a telnet session: see SessionLifecycle.  A command
\* that waits for room in chanEvent is on its way as well.
SessionStage(s) ==
  CASE Serving(s) -> "executing"
    [] ~Serving(s) /\ session[s].pc \in {"sending", "waiting"} -> "queued"
    [] ~Serving(s) /\ session[s].pc = "reading" -> "prompt"
    [] OTHER -> "none"

Prompts == INSTANCE SessionLifecycle WITH stage <- [s \in Sessions |-> SessionStage(s)]

(***************************************************************************)
(* Whatever NOTIFYs, checks and other sessions do, a session gets its next *)
(* prompt after its command has been executed and only then, commands are  *)
(* executed one at a time, and no session ends while it has one under way. *)
(***************************************************************************)
ImplementsSessions == Prompts!Spec
=============================================================================
