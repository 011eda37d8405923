---------------------------- MODULE TelnetClients ----------------------------
(***************************************************************************)
(* Telnet sessions and the log of check_dns_propagation.                   *)
(*                                                                         *)
(* Every log record of any goroutine is written to the telnet clients, one *)
(* after the other, while TelnetClientsMutex is held; a session takes the  *)
(* mutex to enter the map TelnetClients and to leave it.  The command      *)
(* "show clients" reads the map without the mutex.  A write to a client    *)
(* that does not read blocks the goroutine that writes.                    *)
(*                                                                         *)
(* The local console, a client inside the process, is here with the start  *)
(* of the daemon.  What else the event loop does is in EventLoop.          *)
(***************************************************************************)
EXTENDS Naturals, Sequences, FiniteSets

CONSTANTS
  Sessions,    \* places for telnet connections; a place is used again
  LocalConsole,\* the place of the connection of the local console
  Workers,     \* goroutines that only log: worker(), handleDNSRequest()
  Starts,      \* whether stdout is a terminal, and how far main is when the rest begins
  Commands     \* console commands the operators type

\* Commands that differ in what they do to clients and log; "status" stands for
\* those that only write, "generate" for those that log as well.
ShowClients == "show clients"
LogLevel == {"loglevel info", "loglevel error"}
Generate == "generate"

ASSUME CommandAssumption == Commands \subseteq {ShowClients, Generate, "status"} \cup LogLevel

Loop == "loop"      \* eventLoop()
Accept == "accept"  \* TelnetServer()
Main == "main"

Goroutines == Sessions \cup Workers \cup {Loop, Accept, Main}
Nobody == "nobody"

ASSUME GoroutineAssumption ==
  /\ LocalConsole \in Sessions
  /\ Sessions \cap (Workers \cup {Loop, Accept, Main, Nobody}) = {}
  /\ Workers \cap {Loop, Accept, Main, Nobody} = {}
  /\ Starts \subseteq [terminal : BOOLEAN, dns : {"starting", "serving"}]

VARIABLES
  mutex,     \* who holds TelnetClientsMutex
  clients,   \* the connections in TelnetClients ...
  level,     \* ... and the loglevel of each
  open,      \* connections accepted and not closed
  peer,      \* what the other end of a connection does
  session,   \* HandleTelnetClient, per connection
  log,       \* the log call each goroutine is in
  queue,     \* commands in chanEvent
  loop,      \* what the event loop does
  listener,  \* TelnetServer
  dns,       \* main: the DNS server
  console,   \* connectToTelnetServer
  raw,       \* the local terminal is in raw mode
  process    \* whether the process runs, or how it ended

daemon == <<listener, dns, console, raw, process>>
vars == <<mutex, clients, level, open, peer, session, log, queue, loop, daemon>>

SessionState ==
  {"none", "backlog", "accepted", "register", "registering", "greet", "reading", "waiting",
   "bye", "unregister", "unregistering", "close"}

INFO == 0
ERROR == 8
Level == {INFO, ERROR}

LogState == [pc : {"idle"}]
              \cup [pc : {"lock"}, level : Level]
              \cup [pc : {"next"}, level : Level, todo : SUBSET Sessions]
              \cup [pc : {"write"}, level : Level, todo : SUBSET Sessions, to : Sessions]

LoopState == [pc : {"receive"}]
               \cup [pc : {"reply", "done"}, client : Sessions]
               \cup [pc : {"show", "line"}, client : Sessions,
                     began : SUBSET Sessions, shown : SUBSET Sessions]

Idle == [pc |-> "idle"]
Receiving == [pc |-> "receive"]
Called(lvl) == [pc |-> "lock", level |-> lvl]

Init ==
  /\ mutex = Nobody
  /\ clients = {} /\ level = [s \in Sessions |-> INFO]
  /\ open = {} /\ peer = [s \in Sessions |-> "none"]
  /\ session = [s \in Sessions |-> "none"]
  /\ queue = <<>> /\ loop = Receiving
  /\ \E start \in Starts : /\ console = IF start.terminal THEN "dial" ELSE "none"
                          /\ dns = start.dns
  /\ listener = "starting"
  /\ log = [g \in Goroutines |->
              IF g = Main /\ dns = "starting" THEN Called(INFO) ELSE Idle]
  /\ raw = FALSE /\ process = "running"

Running == process = "running"

\* A goroutine goes on when its log call has returned.
Free(g) == Running /\ log[g] = Idle

SetSession(s, pc) == session' = [session EXCEPT ![s] = pc]
StartLog(g, lvl) == log' = [log EXCEPT ![g] = Called(lvl)]

\* conn.Write returns, with an error when the other end has gone or the
\* connection is closed; nobody looks at the error.
WriteReturns(s) == s \in open => peer[s] # "stalled"

Lock(g) == mutex = Nobody /\ mutex' = g
Unlock == mutex' = Nobody

-----------------------------------------------------------------------------
(* telnetLogHandler.Handle, called by any goroutine.                        *)

\* Mutant: the handler does not take the mutex.
LogLockUnguarded(g) ==
  /\ Running /\ log[g].pc = "lock"
  /\ mutex' = g
  /\ log' = [log EXCEPT ![g] = [pc |-> "next", level |-> @.level, todo |-> clients]]
  /\ UNCHANGED <<clients, level, open, peer, session, queue, loop, daemon>>

LogLock(g) ==
  /\ Running /\ log[g].pc = "lock"
  /\ Lock(g)
  /\ log' = [log EXCEPT ![g] = [pc |-> "next", level |-> @.level, todo |-> clients]]
  /\ UNCHANGED <<clients, level, open, peer, session, queue, loop, daemon>>

\* The next client, in the order of a Go map, gets the record if its level
\* allows; the level is read without regard to a command that sets it.
LogNext(g) ==
  /\ Running /\ log[g].pc = "next"
  /\ \E s \in log[g].todo :
       log' = [log EXCEPT ![g] =
                 IF @.level >= level[s]
                   THEN [pc |-> "write", level |-> @.level, todo |-> @.todo \ {s}, to |-> s]
                   ELSE [pc |-> "next", level |-> @.level, todo |-> @.todo \ {s}]]
  /\ UNCHANGED <<mutex, clients, level, open, peer, session, queue, loop, daemon>>

LogWrite(g) ==
  /\ Running /\ log[g].pc = "write"
  /\ WriteReturns(log[g].to)
  /\ log' = [log EXCEPT ![g] = [pc |-> "next", level |-> @.level, todo |-> @.todo]]
  /\ UNCHANGED <<mutex, clients, level, open, peer, session, queue, loop, daemon>>

\* Mutant: the mutex is not released.
LogUnlockNot(g) ==
  /\ Running /\ log[g].pc = "next" /\ log[g].todo = {}
  /\ log' = [log EXCEPT ![g] = Idle]
  /\ UNCHANGED <<mutex, clients, level, open, peer, session, queue, loop, daemon>>

LogUnlock(g) ==
  /\ Running /\ log[g].pc = "next" /\ log[g].todo = {}
  /\ Unlock
  /\ log' = [log EXCEPT ![g] = Idle]
  /\ UNCHANGED <<clients, level, open, peer, session, queue, loop, daemon>>

LogStep(g) == LogLock(g) \/ LogNext(g) \/ LogWrite(g) \/ LogUnlock(g)

WorkerLogs(w) ==
  /\ Free(w)
  /\ \E lvl \in Level : StartLog(w, lvl)
  /\ UNCHANGED <<mutex, clients, level, open, peer, session, queue, loop, daemon>>

-----------------------------------------------------------------------------
(* The other end of a connection.                                           *)

Connect(s) ==
  /\ Running /\ listener = "listening"
  /\ s # LocalConsole /\ session[s] = "none"
  /\ SetSession(s, "backlog")
  /\ peer' = [peer EXCEPT ![s] = "reads"]
  /\ UNCHANGED <<mutex, clients, level, open, log, queue, loop, daemon>>

\* It stops reading, until what the server sends fills the buffers; it goes on
\* reading; it goes away, which the local console does not do by itself.
PeerChanges(s) ==
  /\ Running /\ session[s] # "none"
  /\ \E to \in {"reads", "stalled", "gone"} :
       /\ peer[s] # to /\ peer[s] # "gone"
       /\ s = LocalConsole => to # "gone"
       /\ peer' = [peer EXCEPT ![s] = to]
  /\ UNCHANGED <<mutex, clients, level, open, session, log, queue, loop, daemon>>

-----------------------------------------------------------------------------
(* TelnetServer and HandleTelnetClient.                                     *)

TelnetListens ==
  /\ Free(Accept) /\ listener = "starting"
  /\ \/ listener' = "listening" /\ StartLog(Accept, INFO)
     \/ listener' = "failed" /\ StartLog(Accept, ERROR)
  /\ UNCHANGED <<mutex, clients, level, open, peer, session, queue, loop, dns, console, raw, process>>

\* The connection is accepted and logged ...
AcceptConnection(s) ==
  /\ Free(Accept) /\ session[s] = "backlog"
  /\ \A t \in Sessions : session[t] # "accepted"
  /\ SetSession(s, "accepted")
  /\ open' = open \cup {s}
  /\ StartLog(Accept, INFO)
  /\ UNCHANGED <<mutex, clients, level, peer, queue, loop, daemon>>

\* ... before its goroutine starts.
StartSession(s) ==
  /\ Free(Accept) /\ session[s] = "accepted"
  /\ SetSession(s, "register")
  /\ UNCHANGED <<mutex, clients, level, open, peer, log, queue, loop, daemon>>

\* The map is written while the mutex is held.
SessionLocks(s) ==
  /\ Free(s)
  /\ \/ session[s] = "register" /\ SetSession(s, "registering")
     \/ session[s] = "unregister" /\ SetSession(s, "unregistering")
  /\ Lock(s)
  /\ UNCHANGED <<clients, level, open, peer, log, queue, loop, daemon>>

Register(s) ==
  /\ Running /\ session[s] = "registering"
  /\ clients' = clients \cup {s}
  /\ level' = [level EXCEPT ![s] = INFO]
  /\ Unlock
  /\ SetSession(s, "greet")
  /\ UNCHANGED <<open, peer, log, queue, loop, daemon>>

\* Negotiation, the welcome and the first prompt.
Greet(s) ==
  /\ Running /\ session[s] = "greet"
  /\ WriteReturns(s)
  /\ SetSession(s, "reading")
  /\ UNCHANGED <<mutex, clients, level, open, peer, log, queue, loop, daemon>>

\* ReadLine returns a command; the editor has echoed it.
Submit(s, c) ==
  /\ Running /\ session[s] = "reading" /\ peer[s] = "reads"
  /\ queue' = Append(queue, [client |-> s, cmd |-> c])
  /\ SetSession(s, "waiting")
  /\ UNCHANGED <<mutex, clients, level, open, peer, log, loop, daemon>>

\* "quit" or Ctrl-D.
Quit(s) ==
  /\ Running /\ session[s] = "reading" /\ peer[s] = "reads"
  /\ StartLog(s, INFO)
  /\ SetSession(s, "bye")
  /\ UNCHANGED <<mutex, clients, level, open, peer, queue, loop, daemon>>

Bye(s) ==
  /\ Free(s) /\ session[s] = "bye"
  /\ WriteReturns(s)
  /\ SetSession(s, "unregister")
  /\ UNCHANGED <<mutex, clients, level, open, peer, log, queue, loop, daemon>>

\* ReadLine fails: the client has gone.
Disconnected(s) ==
  /\ Running /\ session[s] = "reading" /\ peer[s] = "gone"
  /\ StartLog(s, INFO)
  /\ SetSession(s, "unregister")
  /\ UNCHANGED <<mutex, clients, level, open, peer, queue, loop, daemon>>

\* Mutant: the connection is left in the map.
UnregisterNot(s) ==
  /\ Running /\ session[s] = "unregistering"
  /\ Unlock
  /\ SetSession(s, "close")
  /\ UNCHANGED <<clients, level, open, peer, log, queue, loop, daemon>>

Unregister(s) ==
  /\ Running /\ session[s] = "unregistering"
  /\ clients' = clients \ {s}
  /\ Unlock
  /\ SetSession(s, "close")
  /\ UNCHANGED <<level, open, peer, log, queue, loop, daemon>>

Close(s) ==
  /\ Running /\ session[s] = "close"
  /\ open' = open \ {s}
  /\ SetSession(s, "none")
  /\ peer' = [peer EXCEPT ![s] = "none"]
  /\ UNCHANGED <<mutex, clients, level, log, queue, loop, daemon>>

\* What a session does without being asked to.
SessionStep(s) ==
  \/ AcceptConnection(s) \/ StartSession(s) \/ SessionLocks(s) \/ Register(s) \/ Greet(s)
  \/ Bye(s) \/ Disconnected(s) \/ Unregister(s) \/ Close(s)

-----------------------------------------------------------------------------
(* CLI, on the event loop.                                                  *)

ReceiveCommand ==
  /\ Free(Loop) /\ loop = Receiving /\ queue # <<>>
  /\ queue' = Tail(queue)
  /\ LET s == Head(queue).client
         c == Head(queue).cmd
     IN  /\ loop' = IF c = ShowClients
                      THEN [pc |-> "show", client |-> s, began |-> clients, shown |-> {}]
                      ELSE [pc |-> "reply", client |-> s]
         /\ level' = IF c \in LogLevel
                       THEN [level EXCEPT ![s] = IF c = "loglevel info" THEN INFO ELSE ERROR]
                       ELSE level
         /\ IF c = Generate THEN \E lvl \in Level : StartLog(Loop, lvl) ELSE UNCHANGED log
  /\ UNCHANGED <<mutex, clients, open, peer, session, daemon>>

Reply ==
  /\ Free(Loop) /\ loop.pc = "reply"
  /\ WriteReturns(loop.client)
  /\ loop' = [loop EXCEPT !.pc = "done"]
  /\ UNCHANGED <<mutex, clients, level, open, peer, session, log, queue, daemon>>

\* One step of ranging over the map: a client that entered meanwhile may be
\* shown or not, one that left is not.
ShowNext ==
  /\ Running /\ loop.pc = "show"
  /\ \/ \E s \in clients \ loop.shown :
          loop' = [loop EXCEPT !.pc = "line", !.shown = @ \cup {s}]
     \/ /\ loop.began \cap clients \subseteq loop.shown
        /\ loop' = [pc |-> "done", client |-> loop.client]
  /\ UNCHANGED <<mutex, clients, level, open, peer, session, log, queue, daemon>>

\* The map is read while a session writes it: the Go runtime may notice, and
\* ends the process.
MapIsWritten == \E s \in Sessions : session[s] \in {"registering", "unregistering"}

ShowWhileWritten ==
  /\ Running /\ loop.pc = "show" /\ MapIsWritten
  /\ process' = "fatal error"
  /\ UNCHANGED <<mutex, clients, level, open, peer, session, log, queue, loop, listener, dns, console, raw>>

ShowLine ==
  /\ Running /\ loop.pc = "line"
  /\ WriteReturns(loop.client)
  /\ loop' = [loop EXCEPT !.pc = "show"]
  /\ UNCHANGED <<mutex, clients, level, open, peer, session, log, queue, daemon>>

\* Mutant: the channel is not closed.
CommandDoneWithoutClose ==
  /\ Running /\ loop.pc = "done"
  /\ loop' = Receiving
  /\ UNCHANGED <<mutex, clients, level, open, peer, session, log, queue, daemon>>

\* close(event.Done): the session of the command reads its next line.
CommandDone ==
  /\ Running /\ loop.pc = "done"
  /\ SetSession(loop.client, "reading")
  /\ loop' = Receiving
  /\ UNCHANGED <<mutex, clients, level, open, peer, log, queue, daemon>>

LoopStep == ReceiveCommand \/ Reply \/ ShowNext \/ ShowLine \/ CommandDone

-----------------------------------------------------------------------------
(* main and the local console.                                              *)

DnsStarts ==
  /\ Free(Main) /\ dns = "starting"
  /\ \/ dns' = "serving" /\ UNCHANGED log
     \/ dns' = "failed" /\ StartLog(Main, ERROR)
  /\ UNCHANGED <<mutex, clients, level, open, peer, session, queue, loop, listener, console, raw, process>>

MainExits ==
  /\ Free(Main) /\ dns = "failed"
  /\ process' = "exit 1"
  /\ UNCHANGED <<mutex, clients, level, open, peer, session, log, queue, loop, listener, dns, console, raw>>

\* net.Dial, and the terminal in raw mode if that works.
ConsoleDials ==
  /\ Running /\ console = "dial" /\ listener = "listening"
  /\ console' = "relay"
  /\ SetSession(LocalConsole, "backlog")
  /\ peer' = [peer EXCEPT ![LocalConsole] = "reads"]
  /\ raw' \in BOOLEAN
  /\ UNCHANGED <<mutex, clients, level, open, log, queue, loop, listener, dns, process>>

\* Nobody listens yet, or never will.
ConsoleRefused ==
  /\ Running /\ console = "dial" /\ listener # "listening"
  /\ console' = "ended"
  /\ UNCHANGED <<mutex, clients, level, open, peer, session, log, queue, loop, listener, dns, raw, process>>

\* Mutant: the terminal is not restored.
ConsoleEndsRaw ==
  /\ Running /\ console = "relay" /\ session[LocalConsole] = "none"
  /\ console' = "ended"
  /\ UNCHANGED <<mutex, clients, level, open, peer, session, log, queue, loop, listener, dns, raw, process>>

\* The server has closed the connection: the terminal is restored.
ConsoleEnds ==
  /\ Running /\ console = "relay" /\ session[LocalConsole] = "none"
  /\ console' = "ended"
  /\ raw' = FALSE
  /\ UNCHANGED <<mutex, clients, level, open, peer, session, log, queue, loop, listener, dns, process>>

\* Mutant: the goroutine of the console ends, and not the process.
ConsoleExitsAlone ==
  /\ Running /\ console = "ended"
  /\ console' = "none"
  /\ UNCHANGED <<mutex, clients, level, open, peer, session, log, queue, loop, listener, dns, raw, process>>

ConsoleExits ==
  /\ Running /\ console = "ended"
  /\ process' = "exit 0"
  /\ UNCHANGED <<mutex, clients, level, open, peer, session, log, queue, loop, listener, dns, console, raw>>

ConsoleStep == ConsoleDials \/ ConsoleRefused \/ ConsoleEnds \/ ConsoleExits

-----------------------------------------------------------------------------
Next ==
  \/ \E g \in Goroutines : LogStep(g)
  \/ \E w \in Workers : WorkerLogs(w)
  \/ \E s \in Sessions :
       Connect(s) \/ PeerChanges(s) \/ Quit(s) \/ SessionStep(s) \/ \E c \in Commands : Submit(s, c)
  \/ LoopStep \/ ShowWhileWritten
  \/ TelnetListens \/ DnsStarts \/ MainExits \/ ConsoleStep

\* The mutex is handed on in turn and connections are accepted in turn; a client
\* that reads now and then takes what is written.
Fairness ==
  /\ \A s \in Sessions : SF_vars(LogStep(s) \/ SessionStep(s))
  /\ \A g \in Workers \cup {Accept, Main} : SF_vars(LogStep(g))
  /\ SF_vars(LogStep(Loop) \/ LoopStep)
  /\ WF_vars(ConsoleStep)

Spec == Init /\ [][Next]_vars /\ Fairness

-----------------------------------------------------------------------------
TypeOK ==
  /\ mutex \in Goroutines \cup {Nobody}
  /\ clients \subseteq Sessions
  /\ level \in [Sessions -> Level]
  /\ open \subseteq Sessions
  /\ peer \in [Sessions -> {"none", "reads", "stalled", "gone"}]
  /\ session \in [Sessions -> SessionState]
  /\ log \in [Goroutines -> LogState]
  /\ queue \in Seq([client : Sessions, cmd : Commands])
  /\ loop \in LoopState
  /\ listener \in {"starting", "listening", "failed"}
  /\ dns \in {"starting", "serving", "failed"}
  /\ console \in {"none", "dial", "relay", "ended"}
  /\ raw \in BOOLEAN /\ (raw => console = "relay")
  /\ process \in {"running", "exit 0", "exit 1", "fatal error"}

\* What a goroutine does between Lock and Unlock.
InCritical(g) ==
  \/ log[g].pc \in {"next", "write"}
  \/ g \in Sessions /\ session[g] \in {"registering", "unregistering"}

(***************************************************************************)
(* Whoever is between Lock and Unlock holds the mutex, and is the only     *)
(* one: no log record is written while the map changes, and no two         *)
(* sessions change it at a time.                                           *)
(***************************************************************************)
MutexHeld == \A g \in Goroutines : InCritical(g) <=> mutex = g

(***************************************************************************)
(* Nothing is written to a connection that is closed, or not accepted yet: *)
(* a record goes to connections that are registered, and those are open    *)
(* as long as they are; the output of a command goes to a session that     *)
(* waits for it.                                                           *)
(***************************************************************************)
WritesReachOpen ==
  /\ clients \subseteq open
  /\ \A g \in Goroutines :
       /\ log[g].pc \in {"next", "write"} => log[g].todo \subseteq clients
       /\ log[g].pc = "write" => log[g].to \in clients
  /\ loop # Receiving => session[loop.client] = "waiting" /\ loop.client \in clients

\* What a session is at for its user.
Executing(s) == loop # Receiving /\ loop.client = s

Stage(s) ==
  CASE Executing(s) -> "executing"
    [] ~Executing(s) /\ session[s] = "waiting" -> "queued"
    [] ~Executing(s) /\ session[s] = "reading" -> "prompt"
    [] OTHER -> "none"

Lifecycle == INSTANCE SessionLifecycle WITH stage <- [s \in Sessions |-> Stage(s)]

(***************************************************************************)
(* Sessions go through the stages that SessionLifecycle allows: the prompt *)
(* comes back after the command and only then, whoever else logs, comes    *)
(* and goes meanwhile, and no two commands write at a time.                *)
(***************************************************************************)
ImplementsSessions == Lifecycle!Spec

Ended == ~Running
ClientsKeepReading == \A s \in Sessions : []<>(peer[s] # "stalled")

(***************************************************************************)
(* As long as no client stalls for ever every log call returns.            *)
(***************************************************************************)
LogReturns == ClientsKeepReading =>
  \A g \in Goroutines : []<>(log[g] = Idle \/ Ended)

(***************************************************************************)
(* ... and every command comes back to its session ...                     *)
(***************************************************************************)
CommandsReturn == ClientsKeepReading =>
  \A s \in Sessions : session[s] = "waiting" ~> (session[s] # "waiting" \/ Ended)

(***************************************************************************)
(* ... and a client that has gone is forgotten and its connection closed,  *)
(* wherever its session was.                                               *)
(***************************************************************************)
GoneAreClosed == ClientsKeepReading =>
  \A s \in Sessions : peer[s] = "gone" ~> (s \notin clients \cup open \/ Ended)

(***************************************************************************)
(* When the session of the local console is left, or never came to be, the *)
(* process ends "rather than leaving it running headless".                 *)
(***************************************************************************)
NeverHeadless == ClientsKeepReading =>
  (console = "ended" \/ session[LocalConsole] = "bye") ~> Ended

(***************************************************************************)
(* The console is for "inspecting/controlling" the daemon at runtime: to   *)
(* look at its clients does not end it.                                    *)
(***************************************************************************)
InspectingIsHarmless == process # "fatal error"
=============================================================================
