------------------------- MODULE TelnetClientsProofs -------------------------
(***************************************************************************)
(* Theorems about TelnetClients: the mutex excludes, nothing is written to *)
(* a connection that is closed, and sessions implement SessionLifecycle.   *)
(***************************************************************************)
EXTENDS TelnetClients, SequenceTheorems, TLAPS

\* Sessions log only on their way out, and write the map only when they do not.
LogsLeaving == \A s \in Sessions : log[s] # Idle => session[s] \in {"bye", "unregister"}

\* Where the code between Lock and Unlock has put the connection of a session.
Placed == \A s \in Sessions :
  /\ s \in clients <=>
       session[s] \in {"greet", "reading", "waiting", "bye", "unregister", "unregistering"}
  /\ s \in open <=> session[s] \notin {"none", "backlog"}
  /\ console = "dial" => session[LocalConsole] = "none"

\* A command that is queued or executed has a session that waits, and only one.
Waits ==
  /\ \A i \in DOMAIN queue : /\ session[queue[i].client] = "waiting"
                             /\ ~Executing(queue[i].client)
  /\ \A i, j \in DOMAIN queue : queue[i].client = queue[j].client => i = j
  /\ \A s \in Sessions : Executing(s) => session[s] = "waiting"

IInv == TypeOK /\ MutexHeld /\ WritesReachOpen /\ LogsLeaving /\ Placed /\ Waits

-----------------------------------------------------------------------------
(* Goroutines, calls and commands.                                         *)

LEMMA Distinct ==
  /\ Nobody \notin Goroutines /\ Sessions \subseteq Goroutines
  /\ Loop \in Goroutines /\ Loop \notin Sessions
BY GoroutineAssumption DEF Goroutines, Nobody, Loop, Accept, Main

LEMMA Calls == Idle.pc = "idle" /\ \A lvl \in Level : Called(lvl).pc = "lock"
BY DEF Idle, Called

LEMMA Received ==
  ASSUME TypeOK, ReceiveCommand
  PROVE  /\ 1 \in DOMAIN queue /\ queue[1].client \in Sessions
         /\ \A i \in DOMAIN queue' : i + 1 \in DOMAIN queue /\ queue'[i] = queue[i + 1]
         /\ \A i \in DOMAIN queue' : i \in Nat \ {0}
         /\ loop = Receiving /\ loop' # Receiving /\ loop'.client = queue[1].client
<1>1. /\ queue \in Seq([client : Sessions, cmd : Commands]) /\ queue # <<>>
      /\ queue' = Tail(queue) /\ loop = Receiving
  BY DEF ReceiveCommand, TypeOK
<1>2. /\ 1 \in DOMAIN queue /\ Head(queue) = queue[1]
      /\ \A i \in DOMAIN queue' : i + 1 \in DOMAIN queue /\ queue'[i] = queue[i + 1]
      /\ \A i \in DOMAIN queue' : i \in Nat \ {0}
  BY <1>1
<1>3. queue[1].client \in Sessions
  <2>1. Head(queue) \in [client : Sessions, cmd : Commands]
    BY <1>1, HeadTailProperties
  <2> QED
    BY <1>2, <2>1
<1>4. loop' # Receiving /\ loop'.client = Head(queue).client
  BY DEF ReceiveCommand, Receiving
<1> QED
  BY <1>1, <1>2, <1>3, <1>4

LEMMA AtWork ==
  ASSUME TypeOK, loop.pc # "receive"
  PROVE  loop # Receiving /\ loop.client \in Sessions
<1>1. loop # Receiving
  BY DEF Receiving
<1>2. \/ loop \in [pc : {"reply", "done"}, client : Sessions]
      \/ loop \in [pc : {"show", "line"}, client : Sessions,
                   began : SUBSET Sessions, shown : SUBSET Sessions]
  BY DEF TypeOK, LoopState
<1> QED
  BY <1>1, <1>2

LEMMA WaitsFrame ==
  ASSUME TypeOK, Waits, queue' = queue, loop' = loop,
         \A s \in Sessions : session[s] = "waiting" => session'[s] = "waiting"
  PROVE  Waits'
<1>1. ASSUME NEW i \in DOMAIN queue PROVE queue[i].client \in Sessions
  <2>1. queue \in Seq([client : Sessions, cmd : Commands])
    BY DEF TypeOK
  <2>2. queue[i] \in [client : Sessions, cmd : Commands]
    BY <2>1, LenProperties, ElementOfSeq
  <2> QED
    BY <2>2
<1> QED
  BY <1>1 DEF Waits, Executing

LEMMA Shown ==
  ASSUME TypeOK, ShowNext
  PROVE  loop # Receiving /\ loop' # Receiving /\ loop'.client = loop.client
<1>1. /\ loop = [pc |-> "show", client |-> loop.client, began |-> loop.began, shown |-> loop.shown]
      /\ loop # Receiving
  <2>1. loop = [pc |-> "show", client |-> loop.client, began |-> loop.began, shown |-> loop.shown]
    BY DEF ShowNext, TypeOK, LoopState
  <2> QED
    BY <2>1, AtWork DEF ShowNext
<1>2. CASE loop' = [pc |-> "done", client |-> loop.client]
  BY <1>1, <1>2 DEF Receiving
<1>3. CASE \E s \in clients \ loop.shown :
             loop' = [loop EXCEPT !.pc = "line", !.shown = @ \cup {s}]
  <2>1. PICK s \in clients \ loop.shown :
          loop' = [loop EXCEPT !.pc = "line", !.shown = @ \cup {s}]
    BY <1>3
  <2>2. loop' = [pc |-> "line", client |-> loop.client, began |-> loop.began,
                 shown |-> loop.shown \cup {s}]
    BY <1>1, <2>1
  <2> QED
    BY <1>1, <2>2 DEF Receiving
<1> QED
  BY <1>2, <1>3 DEF ShowNext

-----------------------------------------------------------------------------
(* Type correctness.                                                       *)

LEMMA NextType == TypeOK /\ [Next]_vars => TypeOK'
<1> SUFFICES ASSUME TypeOK, [Next]_vars PROVE TypeOK'
  OBVIOUS
<1>1. ASSUME NEW g \in Goroutines, LogLock(g) PROVE TypeOK'
  BY <1>1 DEF TypeOK, Running, LogState, LogLock, Lock, daemon
<1>2. ASSUME NEW g \in Goroutines, LogNext(g) PROVE TypeOK'
  <2>1. PICK s \in log[g].todo :
          log' = [log EXCEPT ![g] =
                    IF @.level >= level[s]
                      THEN [pc |-> "write", level |-> @.level, todo |-> @.todo \ {s}, to |-> s]
                      ELSE [pc |-> "next", level |-> @.level, todo |-> @.todo \ {s}]]
    BY <1>2 DEF LogNext
  <2>2. /\ log[g].todo \subseteq Sessions /\ log[g].level \in Level
        /\ log[g] = [pc |-> "next", level |-> log[g].level, todo |-> log[g].todo]
    BY <1>2 DEF LogNext, TypeOK, LogState
  <2>3. /\ [pc |-> "write", level |-> log[g].level, todo |-> log[g].todo \ {s}, to |-> s] \in LogState
        /\ [pc |-> "next", level |-> log[g].level, todo |-> log[g].todo \ {s}] \in LogState
    BY <2>1, <2>2 DEF LogState
  <2>4. CASE log[g].level >= level[s]
    <3>1. log' = [log EXCEPT ![g] =
                    [pc |-> "write", level |-> log[g].level, todo |-> log[g].todo \ {s}, to |-> s]]
      BY <2>1, <2>4
    <3>2. log' \in [Goroutines -> LogState]
      BY <2>3, <3>1 DEF TypeOK
    <3> QED
      BY <1>2, <3>2 DEF TypeOK, LogNext, daemon
  <2>5. CASE ~(log[g].level >= level[s])
    <3>1. log' = [log EXCEPT ![g] = [pc |-> "next", level |-> log[g].level, todo |-> log[g].todo \ {s}]]
      BY <2>1, <2>5
    <3>2. log' \in [Goroutines -> LogState]
      BY <2>3, <3>1 DEF TypeOK
    <3> QED
      BY <1>2, <3>2 DEF TypeOK, LogNext, daemon
  <2> QED
    BY <2>4, <2>5
<1>3. ASSUME NEW g \in Goroutines, LogWrite(g) PROVE TypeOK'
  BY <1>3 DEF TypeOK, Running, LogState, LogWrite, daemon
<1>4. ASSUME NEW g \in Goroutines, LogUnlock(g) PROVE TypeOK'
  BY <1>4 DEF TypeOK, Running, LogState, Idle, LogUnlock, Unlock, daemon
<1>5. ASSUME NEW w \in Workers, WorkerLogs(w) PROVE TypeOK'
  BY <1>5 DEF TypeOK, Running, Free, Goroutines, LogState, Called, WorkerLogs, StartLog,
     daemon
<1>6. ASSUME NEW s \in Sessions, Connect(s) PROVE TypeOK'
  BY <1>6 DEF TypeOK, Running, SessionState, Connect, SetSession, daemon
<1>7. ASSUME NEW s \in Sessions, PeerChanges(s) PROVE TypeOK'
  BY <1>7 DEF TypeOK, Running, PeerChanges, daemon
<1>8. ASSUME NEW s \in Sessions, Quit(s) PROVE TypeOK'
  BY <1>8 DEF TypeOK, Running, Goroutines, LogState, SessionState, Level, Called, Quit,
     StartLog, SetSession, daemon
<1>9. ASSUME NEW s \in Sessions, AcceptConnection(s) PROVE TypeOK'
  BY <1>9 DEF TypeOK, Running, Free, Goroutines, LogState, SessionState, Level, Called,
     AcceptConnection, StartLog, SetSession, daemon
<1>10. ASSUME NEW s \in Sessions, StartSession(s) PROVE TypeOK'
  BY <1>10 DEF TypeOK, Running, Free, SessionState, StartSession, SetSession, daemon
<1>11. ASSUME NEW s \in Sessions, SessionLocks(s) PROVE TypeOK'
  BY <1>11 DEF TypeOK, Running, Free, Goroutines, SessionState, SessionLocks, Lock,
     SetSession, daemon
<1>12. ASSUME NEW s \in Sessions, Register(s) PROVE TypeOK'
  BY <1>12 DEF TypeOK, Running, SessionState, Level, Register, Unlock, SetSession, daemon
<1>13. ASSUME NEW s \in Sessions, Greet(s) PROVE TypeOK'
  BY <1>13 DEF TypeOK, Running, SessionState, Greet, SetSession, daemon
<1>14. ASSUME NEW s \in Sessions, Bye(s) PROVE TypeOK'
  BY <1>14 DEF TypeOK, Running, Free, SessionState, Bye, SetSession, daemon
<1>15. ASSUME NEW s \in Sessions, Disconnected(s) PROVE TypeOK'
  BY <1>15 DEF TypeOK, LogState, SessionState, Level, Called, Disconnected, StartLog,
     SetSession, daemon
<1>16. ASSUME NEW s \in Sessions, Unregister(s) PROVE TypeOK'
  BY <1>16 DEF TypeOK, Running, SessionState, Unregister, Unlock, SetSession, daemon
<1>17. ASSUME NEW s \in Sessions, Close(s) PROVE TypeOK'
  BY <1>17 DEF TypeOK, Running, SessionState, Close, SetSession, daemon
<1>18. ASSUME NEW s \in Sessions, NEW c \in Commands, Submit(s, c) PROVE TypeOK'
  BY <1>18 DEF TypeOK, Running, SessionState, Submit, SetSession, daemon
<1>19. ASSUME ReceiveCommand PROVE TypeOK'
  <2> DEFINE s == Head(queue).client
             c == Head(queue).cmd
  <2>1. /\ s \in Sessions /\ c \in Commands
        /\ Tail(queue) \in Seq([client : Sessions, cmd : Commands])
    <3>1. queue \in Seq([client : Sessions, cmd : Commands]) /\ queue # <<>>
      BY <1>19 DEF ReceiveCommand, TypeOK
    <3>2. /\ Head(queue) \in [client : Sessions, cmd : Commands]
          /\ Tail(queue) \in Seq([client : Sessions, cmd : Commands])
      BY <3>1, HeadTailProperties
    <3> QED
      BY <3>2
  <2>2. loop' \in LoopState
    <3>1. loop' = IF c = ShowClients
                    THEN [pc |-> "show", client |-> s, began |-> clients, shown |-> {}]
                    ELSE [pc |-> "reply", client |-> s]
      BY <1>19 DEF ReceiveCommand
    <3> QED
      BY <2>1, <3>1 DEF TypeOK, LoopState
  <2>3. level' \in [Sessions -> Level]
    <3>1. level' = IF c \in LogLevel
                     THEN [level EXCEPT ![s] = IF c = "loglevel info" THEN INFO ELSE ERROR]
                     ELSE level
      BY <1>19 DEF ReceiveCommand
    <3> QED
      BY <2>1, <3>1 DEF TypeOK, Level
  <2>4. log' \in [Goroutines -> LogState]
    <3>1. \/ log' = log
          \/ \E lvl \in Level : log' = [log EXCEPT ![Loop] = Called(lvl)]
      BY <1>19 DEF ReceiveCommand, StartLog
    <3>2. \A lvl \in Level : Called(lvl) \in LogState
      BY DEF Called, LogState
    <3> QED
      BY <3>1, <3>2 DEF TypeOK
  <2> QED
    BY <1>19, <2>1, <2>2, <2>3, <2>4 DEF TypeOK, ReceiveCommand, daemon
<1>20. ASSUME Reply PROVE TypeOK'
  BY <1>20 DEF TypeOK, Running, Free, LoopState, Reply, daemon
<1>21. ASSUME ShowNext PROVE TypeOK'
  <2>1. loop' \in LoopState
    <3>1. /\ loop = [pc |-> "show", client |-> loop.client, began |-> loop.began, shown |-> loop.shown]
          /\ loop.client \in Sessions /\ loop.began \subseteq Sessions /\ loop.shown \subseteq Sessions
      BY <1>21 DEF ShowNext, TypeOK, LoopState
    <3>2. CASE loop' = [pc |-> "done", client |-> loop.client]
      BY <3>1, <3>2 DEF LoopState
    <3>3. ASSUME NEW s \in clients \ loop.shown,
                 loop' = [loop EXCEPT !.pc = "line", !.shown = @ \cup {s}]
          PROVE  loop' \in LoopState
      <4>1. loop' = [pc |-> "line", client |-> loop.client, began |-> loop.began,
                     shown |-> loop.shown \cup {s}]
        BY <3>1, <3>3
      <4>2. /\ s \in Sessions /\ loop.client \in Sessions /\ loop.began \subseteq Sessions
            /\ loop.shown \cup {s} \subseteq Sessions
        BY <3>1, <3>3 DEF TypeOK
      <4> QED
        BY <4>1, <4>2 DEF LoopState
    <3> QED
      BY <1>21, <3>2, <3>3 DEF ShowNext
  <2> QED
    BY <1>21, <2>1 DEF TypeOK, ShowNext, daemon
<1>22. ASSUME ShowLine PROVE TypeOK'
  BY <1>22 DEF TypeOK, Running, LoopState, ShowLine, daemon
<1>23. ASSUME CommandDone PROVE TypeOK'
  BY <1>23 DEF TypeOK, Running, LoopState, SessionState, Receiving, CommandDone,
     SetSession, daemon
<1>24. ASSUME ShowWhileWritten PROVE TypeOK'
  BY <1>24 DEF TypeOK, ShowWhileWritten
<1>25. ASSUME TelnetListens PROVE TypeOK'
  BY <1>25 DEF TypeOK, Running, Free, LogState, Level, Called, TelnetListens, StartLog
<1>26. ASSUME DnsStarts PROVE TypeOK'
  BY <1>26 DEF TypeOK, Running, Free, LogState, Level, Called, DnsStarts, StartLog
<1>27. ASSUME MainExits PROVE TypeOK'
  BY <1>27 DEF TypeOK, Running, Free, MainExits
<1>28. ASSUME ConsoleDials PROVE TypeOK'
  BY <1>28 DEF TypeOK, SessionState, ConsoleDials, SetSession
<1>29. ASSUME ConsoleRefused PROVE TypeOK'
  BY <1>29 DEF TypeOK, Running, ConsoleRefused
<1>30. ASSUME ConsoleEnds PROVE TypeOK'
  BY <1>30 DEF TypeOK, Running, ConsoleEnds
<1>31. ASSUME ConsoleExits PROVE TypeOK'
  BY <1>31 DEF TypeOK, ConsoleExits
<1>32. CASE UNCHANGED vars
  BY <1>32 DEF TypeOK, vars, daemon
<1> QED
  BY <1>1, <1>2, <1>3, <1>4, <1>5, <1>6, <1>7, <1>8, <1>9, <1>10, <1>11, <1>12, <1>13,
     <1>14, <1>15, <1>16, <1>17, <1>18, <1>19, <1>20, <1>21, <1>22, <1>23, <1>24, <1>25,
     <1>26, <1>27, <1>28, <1>29, <1>30, <1>31, <1>32 DEF Next, LogStep, SessionStep,
     LoopStep, ConsoleStep

-----------------------------------------------------------------------------
(* Who holds the mutex, and who logs.                                      *)

LEMMA NextMutex == TypeOK /\ MutexHeld /\ LogsLeaving /\ Placed /\ Waits /\ [Next]_vars => MutexHeld'
<1> SUFFICES ASSUME TypeOK, MutexHeld, LogsLeaving, Placed, Waits, [Next]_vars PROVE MutexHeld'
  OBVIOUS
<1>1. ASSUME NEW g \in Goroutines, LogLock(g) PROVE MutexHeld'
  <2> SUFFICES ASSUME NEW h \in Goroutines PROVE InCritical(h)' <=> mutex' = h
    BY DEF MutexHeld

  <2>1. /\ mutex = Nobody /\ mutex' = g /\ session' = session
        /\ log' = [log EXCEPT ![g] = [pc |-> "next", level |-> log[g].level, todo |-> clients]]
    BY <1>1 DEF LogLock, Lock
  <2>2. ~InCritical(h)
    BY <2>1, Distinct DEF MutexHeld
  <2>3. CASE h = g
    BY <2>1, <2>3 DEF TypeOK, InCritical
  <2>4. CASE h # g
    BY <2>1, <2>2, <2>4 DEF TypeOK, InCritical
  <2> QED
    BY <2>3, <2>4
<1>2. ASSUME NEW g \in Goroutines, LogNext(g) PROVE MutexHeld'
  BY <1>2 DEF TypeOK, MutexHeld, InCritical, Running, LogNext
<1>3. ASSUME NEW g \in Goroutines, LogWrite(g) PROVE MutexHeld'
  BY <1>3 DEF TypeOK, MutexHeld, InCritical, LogWrite
<1>4. ASSUME NEW g \in Goroutines, LogUnlock(g) PROVE MutexHeld'
  <2> SUFFICES ASSUME NEW h \in Goroutines PROVE InCritical(h)' <=> mutex' = h
    BY DEF MutexHeld

  <2>1. /\ log[g].pc = "next" /\ mutex' = Nobody /\ session' = session
        /\ log' = [log EXCEPT ![g] = Idle]
    BY <1>4 DEF LogUnlock, Unlock
  <2>2. mutex' # h /\ mutex = g
    BY <2>1, Distinct DEF MutexHeld, InCritical
  <2>3. CASE h = g
    BY <2>1, <2>2, <2>3, Calls DEF TypeOK, InCritical, LogsLeaving
  <2>4. CASE h # g
    BY <2>1, <2>2, <2>4 DEF TypeOK, MutexHeld, InCritical
  <2> QED
    BY <2>3, <2>4
<1>5. ASSUME NEW w \in Workers, WorkerLogs(w) PROVE MutexHeld'
  BY <1>5 DEF TypeOK, MutexHeld, InCritical, Running, Free, Idle, Called, WorkerLogs,
     StartLog
<1>6. ASSUME NEW s \in Sessions, Connect(s) PROVE MutexHeld'
  BY <1>6 DEF TypeOK, MutexHeld, InCritical, Connect, SetSession
<1>7. ASSUME NEW s \in Sessions, PeerChanges(s) PROVE MutexHeld'
  BY <1>7 DEF TypeOK, MutexHeld, InCritical, PeerChanges
<1>8. ASSUME NEW s \in Sessions, Quit(s) PROVE MutexHeld'
  BY <1>8 DEF TypeOK, MutexHeld, InCritical, LogsLeaving, Running, Idle, Called, Quit,
     StartLog, SetSession
<1>9. ASSUME NEW s \in Sessions, AcceptConnection(s) PROVE MutexHeld'
  BY <1>9 DEF TypeOK, MutexHeld, InCritical, Running, Free, Idle, Called, AcceptConnection,
     StartLog, SetSession
<1>10. ASSUME NEW s \in Sessions, StartSession(s) PROVE MutexHeld'
  BY <1>10 DEF TypeOK, MutexHeld, InCritical, StartSession, SetSession
<1>11. ASSUME NEW s \in Sessions, SessionLocks(s) PROVE MutexHeld'
  <2> SUFFICES ASSUME NEW h \in Goroutines PROVE InCritical(h)' <=> mutex' = h
    BY DEF MutexHeld

  <2>1. /\ mutex = Nobody /\ mutex' = s /\ log' = log /\ log[s] = Idle /\ s \in Goroutines
        /\ \E pc \in {"registering", "unregistering"} : session' = [session EXCEPT ![s] = pc]
    BY <1>11 DEF SessionLocks, Lock, SetSession, Free, Goroutines
  <2>2. ~InCritical(h)
    BY <2>1, Distinct DEF MutexHeld
  <2>3. CASE h = s
    BY <2>1, <2>3 DEF TypeOK, InCritical
  <2>4. CASE h # s
    BY <2>1, <2>2, <2>4 DEF TypeOK, InCritical
  <2> QED
    BY <2>3, <2>4
<1>12. ASSUME NEW s \in Sessions, Register(s) PROVE MutexHeld'
  <2> SUFFICES ASSUME NEW h \in Goroutines PROVE InCritical(h)' <=> mutex' = h
    BY DEF MutexHeld

  <2>1. /\ session[s] = "registering" /\ mutex' = Nobody /\ log' = log /\ s \in Goroutines
        /\ session' = [session EXCEPT ![s] = "greet"]
    BY <1>12 DEF Register, Unlock, SetSession, Goroutines
  <2>2. mutex' # h /\ mutex = s /\ log[s] = Idle
    BY <2>1, Distinct DEF MutexHeld, InCritical, LogsLeaving
  <2>3. CASE h = s
    BY <2>1, <2>2, <2>3, Calls DEF TypeOK, InCritical
  <2>4. CASE h # s
    BY <2>1, <2>2, <2>4 DEF TypeOK, MutexHeld, InCritical
  <2> QED
    BY <2>3, <2>4
<1>13. ASSUME NEW s \in Sessions, Greet(s) PROVE MutexHeld'
  BY <1>13 DEF TypeOK, MutexHeld, InCritical, Greet, SetSession
<1>14. ASSUME NEW s \in Sessions, Bye(s) PROVE MutexHeld'
  BY <1>14 DEF TypeOK, MutexHeld, InCritical, Bye, SetSession
<1>15. ASSUME NEW s \in Sessions, Disconnected(s) PROVE MutexHeld'
  BY <1>15 DEF TypeOK, MutexHeld, InCritical, LogsLeaving, Running, Idle, Called,
     Disconnected, StartLog, SetSession
<1>16. ASSUME NEW s \in Sessions, Unregister(s) PROVE MutexHeld'
  <2> SUFFICES ASSUME NEW h \in Goroutines PROVE InCritical(h)' <=> mutex' = h
    BY DEF MutexHeld

  <2>1. /\ session[s] = "unregistering" /\ mutex' = Nobody /\ log' = log /\ s \in Goroutines
        /\ session' = [session EXCEPT ![s] = "close"]
    BY <1>16 DEF Unregister, Unlock, SetSession, Goroutines
  <2>2. mutex' # h /\ mutex = s /\ log[s] = Idle
    BY <2>1, Distinct DEF MutexHeld, InCritical, LogsLeaving
  <2>3. CASE h = s
    BY <2>1, <2>2, <2>3, Calls DEF TypeOK, InCritical
  <2>4. CASE h # s
    BY <2>1, <2>2, <2>4 DEF TypeOK, MutexHeld, InCritical
  <2> QED
    BY <2>3, <2>4
<1>17. ASSUME NEW s \in Sessions, Close(s) PROVE MutexHeld'
  BY <1>17 DEF TypeOK, MutexHeld, InCritical, Close, SetSession
<1>18. ASSUME NEW s \in Sessions, NEW c \in Commands, Submit(s, c) PROVE MutexHeld'
  BY <1>18 DEF TypeOK, MutexHeld, InCritical, Submit, SetSession
<1>19. ASSUME ReceiveCommand PROVE MutexHeld'
  <2> SUFFICES ASSUME NEW h \in Goroutines PROVE InCritical(h)' <=> mutex' = h
    BY DEF MutexHeld

  <2>1. /\ mutex' = mutex /\ session' = session /\ log[Loop] = Idle
        /\ log' = log \/ \E lvl \in Level : log' = [log EXCEPT ![Loop] = Called(lvl)]
    BY <1>19 DEF ReceiveCommand, StartLog, Free
  <2>2. log'[h].pc \in {"next", "write"} <=> log[h].pc \in {"next", "write"}
    BY <2>1, Calls DEF TypeOK
  <2> QED
    BY <2>1, <2>2 DEF MutexHeld, InCritical
<1>20. ASSUME Reply PROVE MutexHeld'
  BY <1>20 DEF TypeOK, MutexHeld, InCritical, Reply
<1>21. ASSUME ShowNext PROVE MutexHeld'
  BY <1>21 DEF TypeOK, MutexHeld, InCritical, ShowNext
<1>22. ASSUME ShowLine PROVE MutexHeld'
  BY <1>22 DEF TypeOK, MutexHeld, InCritical, ShowLine
<1>23. ASSUME CommandDone PROVE MutexHeld'
  <2>1. loop.client \in Sessions /\ session[loop.client] = "waiting"
    BY <1>23, AtWork DEF CommandDone, Waits, Executing
  <2> QED
    BY <1>23, <2>1 DEF CommandDone, SetSession, TypeOK, MutexHeld, InCritical
<1>24. ASSUME ShowWhileWritten PROVE MutexHeld'
  BY <1>24 DEF TypeOK, MutexHeld, InCritical, ShowWhileWritten
<1>25. ASSUME TelnetListens PROVE MutexHeld'
  BY <1>25 DEF TypeOK, MutexHeld, InCritical, Running, Free, Idle, Called, TelnetListens,
     StartLog
<1>26. ASSUME DnsStarts PROVE MutexHeld'
  BY <1>26 DEF TypeOK, MutexHeld, InCritical, Running, Free, Idle, Called, DnsStarts,
     StartLog
<1>27. ASSUME MainExits PROVE MutexHeld'
  BY <1>27 DEF TypeOK, MutexHeld, InCritical, MainExits
<1>28. ASSUME ConsoleDials PROVE MutexHeld'
  BY <1>28 DEF TypeOK, MutexHeld, InCritical, Placed, ConsoleDials, SetSession
<1>29. ASSUME ConsoleRefused PROVE MutexHeld'
  BY <1>29 DEF TypeOK, MutexHeld, InCritical, ConsoleRefused
<1>30. ASSUME ConsoleEnds PROVE MutexHeld'
  BY <1>30 DEF TypeOK, MutexHeld, InCritical, ConsoleEnds
<1>31. ASSUME ConsoleExits PROVE MutexHeld'
  BY <1>31 DEF TypeOK, MutexHeld, InCritical, ConsoleExits
<1>32. CASE UNCHANGED vars
  BY <1>32 DEF TypeOK, MutexHeld, InCritical, vars
<1> QED
  BY <1>1, <1>2, <1>3, <1>4, <1>5, <1>6, <1>7, <1>8, <1>9, <1>10, <1>11, <1>12, <1>13,
     <1>14, <1>15, <1>16, <1>17, <1>18, <1>19, <1>20, <1>21, <1>22, <1>23, <1>24, <1>25,
     <1>26, <1>27, <1>28, <1>29, <1>30, <1>31, <1>32 DEF Next, LogStep, SessionStep,
     LoopStep, ConsoleStep

LEMMA NextLogs == TypeOK /\ MutexHeld /\ LogsLeaving /\ Placed /\ Waits /\ [Next]_vars => LogsLeaving'
<1> SUFFICES ASSUME TypeOK, MutexHeld, LogsLeaving, Placed, Waits, [Next]_vars PROVE LogsLeaving'
  OBVIOUS
<1>1. ASSUME NEW g \in Goroutines, LogLock(g) PROVE LogsLeaving'
  BY <1>1 DEF TypeOK, LogsLeaving, Running, Idle, LogLock
<1>2. ASSUME NEW g \in Goroutines, LogNext(g) PROVE LogsLeaving'
  BY <1>2 DEF TypeOK, LogsLeaving, Running, Idle, LogNext
<1>3. ASSUME NEW g \in Goroutines, LogWrite(g) PROVE LogsLeaving'
  BY <1>3 DEF TypeOK, LogsLeaving, Running, Idle, LogWrite
<1>4. ASSUME NEW g \in Goroutines, LogUnlock(g) PROVE LogsLeaving'
  BY <1>4 DEF TypeOK, LogsLeaving, Goroutines, LogUnlock
<1>5. ASSUME NEW w \in Workers, WorkerLogs(w) PROVE LogsLeaving'
  BY <1>5, GoroutineAssumption DEF TypeOK, LogsLeaving, Running, Free, WorkerLogs, StartLog
<1>6. ASSUME NEW s \in Sessions, Connect(s) PROVE LogsLeaving'
  BY <1>6 DEF TypeOK, LogsLeaving, Connect, SetSession
<1>7. ASSUME NEW s \in Sessions, PeerChanges(s) PROVE LogsLeaving'
  BY <1>7 DEF TypeOK, LogsLeaving, PeerChanges
<1>8. ASSUME NEW s \in Sessions, Quit(s) PROVE LogsLeaving'
  BY <1>8 DEF TypeOK, LogsLeaving, Goroutines, Quit, StartLog, SetSession
<1>9. ASSUME NEW s \in Sessions, AcceptConnection(s) PROVE LogsLeaving'
  BY <1>9, GoroutineAssumption DEF TypeOK, LogsLeaving, Goroutines, AcceptConnection,
     StartLog, SetSession
<1>10. ASSUME NEW s \in Sessions, StartSession(s) PROVE LogsLeaving'
  BY <1>10 DEF TypeOK, LogsLeaving, StartSession, SetSession
<1>11. ASSUME NEW s \in Sessions, SessionLocks(s) PROVE LogsLeaving'
  BY <1>11 DEF TypeOK, LogsLeaving, Free, SessionLocks, SetSession
<1>12. ASSUME NEW s \in Sessions, Register(s) PROVE LogsLeaving'
  BY <1>12 DEF TypeOK, LogsLeaving, Register, SetSession
<1>13. ASSUME NEW s \in Sessions, Greet(s) PROVE LogsLeaving'
  BY <1>13 DEF TypeOK, LogsLeaving, Greet, SetSession
<1>14. ASSUME NEW s \in Sessions, Bye(s) PROVE LogsLeaving'
  BY <1>14 DEF TypeOK, LogsLeaving, Bye, SetSession
<1>15. ASSUME NEW s \in Sessions, Disconnected(s) PROVE LogsLeaving'
  BY <1>15 DEF TypeOK, LogsLeaving, Goroutines, Disconnected, StartLog, SetSession
<1>16. ASSUME NEW s \in Sessions, Unregister(s) PROVE LogsLeaving'
  BY <1>16 DEF TypeOK, LogsLeaving, Unregister, SetSession
<1>17. ASSUME NEW s \in Sessions, Close(s) PROVE LogsLeaving'
  BY <1>17 DEF TypeOK, LogsLeaving, Close, SetSession
<1>18. ASSUME NEW s \in Sessions, NEW c \in Commands, Submit(s, c) PROVE LogsLeaving'
  BY <1>18 DEF TypeOK, LogsLeaving, Submit, SetSession
<1>19. ASSUME ReceiveCommand PROVE LogsLeaving'
  BY <1>19, GoroutineAssumption DEF TypeOK, InCritical, LogsLeaving, Executing, Goroutines,
     Receiving, Running, Free, Idle, Called, ReceiveCommand, StartLog, daemon
<1>20. ASSUME Reply PROVE LogsLeaving'
  BY <1>20 DEF TypeOK, LogsLeaving, Reply
<1>21. ASSUME ShowNext PROVE LogsLeaving'
  BY <1>21 DEF TypeOK, LogsLeaving, ShowNext
<1>22. ASSUME ShowLine PROVE LogsLeaving'
  BY <1>22 DEF TypeOK, LogsLeaving, ShowLine
<1>23. ASSUME CommandDone PROVE LogsLeaving'
  BY <1>23 DEF TypeOK, LogsLeaving, Waits, Executing, Receiving, Running, CommandDone,
     SetSession
<1>24. ASSUME ShowWhileWritten PROVE LogsLeaving'
  BY <1>24 DEF TypeOK, LogsLeaving, ShowWhileWritten
<1>25. ASSUME TelnetListens PROVE LogsLeaving'
  BY <1>25, GoroutineAssumption DEF TypeOK, LogsLeaving, Goroutines, Running, Free,
     TelnetListens, StartLog
<1>26. ASSUME DnsStarts PROVE LogsLeaving'
  BY <1>26, GoroutineAssumption DEF TypeOK, LogsLeaving, Goroutines, DnsStarts, StartLog
<1>27. ASSUME MainExits PROVE LogsLeaving'
  BY <1>27 DEF TypeOK, LogsLeaving, MainExits
<1>28. ASSUME ConsoleDials PROVE LogsLeaving'
  BY <1>28 DEF TypeOK, LogsLeaving, Placed, ConsoleDials, SetSession
<1>29. ASSUME ConsoleRefused PROVE LogsLeaving'
  BY <1>29 DEF TypeOK, LogsLeaving, ConsoleRefused
<1>30. ASSUME ConsoleEnds PROVE LogsLeaving'
  BY <1>30 DEF TypeOK, LogsLeaving, ConsoleEnds
<1>31. ASSUME ConsoleExits PROVE LogsLeaving'
  BY <1>31 DEF TypeOK, LogsLeaving, ConsoleExits
<1>32. CASE UNCHANGED vars
  BY <1>32 DEF TypeOK, LogsLeaving, vars
<1> QED
  BY <1>1, <1>2, <1>3, <1>4, <1>5, <1>6, <1>7, <1>8, <1>9, <1>10, <1>11, <1>12, <1>13,
     <1>14, <1>15, <1>16, <1>17, <1>18, <1>19, <1>20, <1>21, <1>22, <1>23, <1>24, <1>25,
     <1>26, <1>27, <1>28, <1>29, <1>30, <1>31, <1>32 DEF Next, LogStep, SessionStep,
     LoopStep, ConsoleStep

-----------------------------------------------------------------------------
(* Connections, commands and writes.                                       *)

LEMMA NextPlaced == TypeOK /\ MutexHeld /\ LogsLeaving /\ Placed /\ Waits /\ [Next]_vars => Placed'
<1> SUFFICES ASSUME TypeOK, MutexHeld, LogsLeaving, Placed, Waits, [Next]_vars PROVE Placed'
  OBVIOUS
<1>1. ASSUME NEW g \in Goroutines, LogLock(g) PROVE Placed'
  BY <1>1 DEF TypeOK, Placed, LogLock, daemon
<1>2. ASSUME NEW g \in Goroutines, LogNext(g) PROVE Placed'
  BY <1>2 DEF TypeOK, Placed, LogNext, daemon
<1>3. ASSUME NEW g \in Goroutines, LogWrite(g) PROVE Placed'
  BY <1>3 DEF TypeOK, Placed, LogWrite, daemon
<1>4. ASSUME NEW g \in Goroutines, LogUnlock(g) PROVE Placed'
  BY <1>4 DEF TypeOK, Placed, LogUnlock, daemon
<1>5. ASSUME NEW w \in Workers, WorkerLogs(w) PROVE Placed'
  BY <1>5 DEF TypeOK, Placed, WorkerLogs, daemon
<1>6. ASSUME NEW s \in Sessions, Connect(s) PROVE Placed'
  BY <1>6, GoroutineAssumption DEF TypeOK, Placed, Connect, SetSession, daemon
<1>7. ASSUME NEW s \in Sessions, PeerChanges(s) PROVE Placed'
  BY <1>7 DEF TypeOK, Placed, PeerChanges, daemon
<1>8. ASSUME NEW s \in Sessions, Quit(s) PROVE Placed'
  BY <1>8, GoroutineAssumption DEF TypeOK, Placed, Quit, SetSession, daemon
<1>9. ASSUME NEW s \in Sessions, AcceptConnection(s) PROVE Placed'
  BY <1>9, GoroutineAssumption DEF TypeOK, Placed, AcceptConnection, SetSession, daemon
<1>10. ASSUME NEW s \in Sessions, StartSession(s) PROVE Placed'
  BY <1>10, GoroutineAssumption DEF TypeOK, Placed, StartSession, SetSession, daemon
<1>11. ASSUME NEW s \in Sessions, SessionLocks(s) PROVE Placed'
  BY <1>11, GoroutineAssumption DEF TypeOK, Placed, Running, Free, SessionLocks,
     SetSession, daemon
<1>12. ASSUME NEW s \in Sessions, Register(s) PROVE Placed'
  BY <1>12, GoroutineAssumption DEF TypeOK, Placed, Register, SetSession, daemon
<1>13. ASSUME NEW s \in Sessions, Greet(s) PROVE Placed'
  BY <1>13, GoroutineAssumption DEF TypeOK, Placed, Greet, SetSession, daemon
<1>14. ASSUME NEW s \in Sessions, Bye(s) PROVE Placed'
  BY <1>14, GoroutineAssumption DEF TypeOK, Placed, Bye, SetSession, daemon
<1>15. ASSUME NEW s \in Sessions, Disconnected(s) PROVE Placed'
  BY <1>15, GoroutineAssumption DEF TypeOK, Placed, Disconnected, SetSession, daemon
<1>16. ASSUME NEW s \in Sessions, Unregister(s) PROVE Placed'
  BY <1>16, GoroutineAssumption DEF TypeOK, Placed, Unregister, SetSession, daemon
<1>17. ASSUME NEW s \in Sessions, Close(s) PROVE Placed'
  BY <1>17, GoroutineAssumption DEF TypeOK, Placed, Close, SetSession, daemon
<1>18. ASSUME NEW s \in Sessions, NEW c \in Commands, Submit(s, c) PROVE Placed'
  BY <1>18, GoroutineAssumption DEF TypeOK, Placed, Submit, SetSession, daemon
<1>19. ASSUME ReceiveCommand PROVE Placed'
  BY <1>19 DEF TypeOK, Placed, ReceiveCommand, daemon
<1>20. ASSUME Reply PROVE Placed'
  BY <1>20 DEF TypeOK, Placed, Reply, daemon
<1>21. ASSUME ShowNext PROVE Placed'
  BY <1>21 DEF TypeOK, Placed, ShowNext, daemon
<1>22. ASSUME ShowLine PROVE Placed'
  BY <1>22 DEF TypeOK, Placed, ShowLine, daemon
<1>23. ASSUME CommandDone PROVE Placed'
  BY <1>23 DEF TypeOK, Placed, Waits, Executing, Running, Receiving, CommandDone,
     SetSession, daemon
<1>24. ASSUME ShowWhileWritten PROVE Placed'
  BY <1>24 DEF TypeOK, Placed, ShowWhileWritten
<1>25. ASSUME TelnetListens PROVE Placed'
  BY <1>25 DEF TypeOK, Placed, TelnetListens
<1>26. ASSUME DnsStarts PROVE Placed'
  BY <1>26 DEF TypeOK, Placed, DnsStarts
<1>27. ASSUME MainExits PROVE Placed'
  BY <1>27 DEF TypeOK, Placed, MainExits
<1>28. ASSUME ConsoleDials PROVE Placed'
  BY <1>28 DEF TypeOK, Placed, ConsoleDials, SetSession
<1>29. ASSUME ConsoleRefused PROVE Placed'
  BY <1>29 DEF TypeOK, Placed, ConsoleRefused
<1>30. ASSUME ConsoleEnds PROVE Placed'
  BY <1>30 DEF TypeOK, Placed, ConsoleEnds
<1>31. ASSUME ConsoleExits PROVE Placed'
  BY <1>31 DEF TypeOK, Placed, ConsoleExits
<1>32. CASE UNCHANGED vars
  BY <1>32 DEF TypeOK, Placed, vars, daemon
<1> QED
  BY <1>1, <1>2, <1>3, <1>4, <1>5, <1>6, <1>7, <1>8, <1>9, <1>10, <1>11, <1>12, <1>13,
     <1>14, <1>15, <1>16, <1>17, <1>18, <1>19, <1>20, <1>21, <1>22, <1>23, <1>24, <1>25,
     <1>26, <1>27, <1>28, <1>29, <1>30, <1>31, <1>32 DEF Next, LogStep, SessionStep,
     LoopStep, ConsoleStep

LEMMA NextWaits == TypeOK /\ LogsLeaving /\ Placed /\ Waits /\ [Next]_vars => Waits'
<1> SUFFICES ASSUME TypeOK, LogsLeaving, Placed, Waits, [Next]_vars PROVE Waits'
  OBVIOUS
<1>1. ASSUME NEW g \in Goroutines, LogLock(g) PROVE Waits'
  BY <1>1 DEF TypeOK, Waits, Executing, LogLock
<1>2. ASSUME NEW g \in Goroutines, LogNext(g) PROVE Waits'
  BY <1>2 DEF TypeOK, Waits, Executing, LogNext
<1>3. ASSUME NEW g \in Goroutines, LogWrite(g) PROVE Waits'
  BY <1>3 DEF TypeOK, Waits, Executing, LogWrite
<1>4. ASSUME NEW g \in Goroutines, LogUnlock(g) PROVE Waits'
  BY <1>4 DEF TypeOK, Waits, Executing, LogUnlock
<1>5. ASSUME NEW w \in Workers, WorkerLogs(w) PROVE Waits'
  BY <1>5 DEF TypeOK, Waits, Executing, WorkerLogs
<1>6. ASSUME NEW s \in Sessions, Connect(s) PROVE Waits'
  BY <1>6 DEF TypeOK, Waits, Executing, Running, Connect, SetSession
<1>7. ASSUME NEW s \in Sessions, PeerChanges(s) PROVE Waits'
  BY <1>7 DEF TypeOK, Waits, Executing, PeerChanges
<1>8. ASSUME NEW s \in Sessions, Quit(s) PROVE Waits'
  BY <1>8 DEF TypeOK, Waits, Executing, Running, Quit, SetSession
<1>9. ASSUME NEW s \in Sessions, AcceptConnection(s) PROVE Waits'
  BY <1>9 DEF TypeOK, Waits, Executing, Running, Free, AcceptConnection, SetSession
<1>10. ASSUME NEW s \in Sessions, StartSession(s) PROVE Waits'
  BY <1>10 DEF TypeOK, Waits, Executing, Running, Free, StartSession, SetSession
<1>11. ASSUME NEW s \in Sessions, SessionLocks(s) PROVE Waits'
  BY <1>11, WaitsFrame DEF SessionLocks, SetSession, TypeOK
<1>12. ASSUME NEW s \in Sessions, Register(s) PROVE Waits'
  BY <1>12 DEF TypeOK, Waits, Executing, Running, Register, SetSession
<1>13. ASSUME NEW s \in Sessions, Greet(s) PROVE Waits'
  BY <1>13 DEF TypeOK, Waits, Executing, Running, Greet, SetSession
<1>14. ASSUME NEW s \in Sessions, Bye(s) PROVE Waits'
  BY <1>14 DEF TypeOK, Waits, Executing, Running, Free, Bye, SetSession
<1>15. ASSUME NEW s \in Sessions, Disconnected(s) PROVE Waits'
  BY <1>15 DEF TypeOK, Waits, Executing, Running, Disconnected, SetSession
<1>16. ASSUME NEW s \in Sessions, Unregister(s) PROVE Waits'
  BY <1>16 DEF TypeOK, Waits, Executing, Running, Unregister, SetSession
<1>17. ASSUME NEW s \in Sessions, Close(s) PROVE Waits'
  BY <1>17 DEF TypeOK, Waits, Executing, Running, Close, SetSession
<1>18. ASSUME NEW s \in Sessions, NEW c \in Commands, Submit(s, c) PROVE Waits'
  BY <1>18 DEF TypeOK, Waits, Executing, Running, Submit, SetSession
<1>19. ASSUME ReceiveCommand PROVE Waits'
  <2>1. session' = session
    BY <1>19 DEF ReceiveCommand
  <2>2. \A i \in DOMAIN queue' : queue'[i].client # queue[1].client
    BY <1>19, Received DEF Waits
  <2>3. \A i, j \in DOMAIN queue' : queue'[i].client = queue'[j].client => i = j
    BY <1>19, Received DEF Waits
  <2> QED
    BY <1>19, <2>1, <2>2, <2>3, Received DEF Waits, Executing
<1>20. ASSUME Reply PROVE Waits'
  BY <1>20 DEF TypeOK, Waits, Executing, Running, Free, Receiving, Reply
<1>21. ASSUME ShowNext PROVE Waits'
  BY <1>21, Shown DEF ShowNext, Waits, Executing
<1>22. ASSUME ShowLine PROVE Waits'
  BY <1>22 DEF TypeOK, Waits, Executing, Running, Receiving, ShowLine
<1>23. ASSUME CommandDone PROVE Waits'
  BY <1>23 DEF TypeOK, Waits, Executing, Running, Receiving, CommandDone, SetSession
<1>24. ASSUME ShowWhileWritten PROVE Waits'
  BY <1>24 DEF TypeOK, Waits, Executing, ShowWhileWritten
<1>25. ASSUME TelnetListens PROVE Waits'
  BY <1>25 DEF TypeOK, Waits, Executing, TelnetListens
<1>26. ASSUME DnsStarts PROVE Waits'
  BY <1>26 DEF TypeOK, Waits, Executing, DnsStarts
<1>27. ASSUME MainExits PROVE Waits'
  BY <1>27 DEF TypeOK, Waits, Executing, MainExits
<1>28. ASSUME ConsoleDials PROVE Waits'
  BY <1>28, WaitsFrame DEF TypeOK, Placed, ConsoleDials, SetSession
<1>29. ASSUME ConsoleRefused PROVE Waits'
  BY <1>29 DEF TypeOK, Waits, Executing, ConsoleRefused
<1>30. ASSUME ConsoleEnds PROVE Waits'
  BY <1>30 DEF TypeOK, Waits, Executing, ConsoleEnds
<1>31. ASSUME ConsoleExits PROVE Waits'
  BY <1>31 DEF TypeOK, Waits, Executing, ConsoleExits
<1>32. CASE UNCHANGED vars
  BY <1>32 DEF TypeOK, Waits, Executing, vars
<1> QED
  BY <1>1, <1>2, <1>3, <1>4, <1>5, <1>6, <1>7, <1>8, <1>9, <1>10, <1>11, <1>12, <1>13,
     <1>14, <1>15, <1>16, <1>17, <1>18, <1>19, <1>20, <1>21, <1>22, <1>23, <1>24, <1>25,
     <1>26, <1>27, <1>28, <1>29, <1>30, <1>31, <1>32 DEF Next, LogStep, SessionStep,
     LoopStep, ConsoleStep

LEMMA NextWrites == TypeOK /\ MutexHeld /\ LogsLeaving /\ Placed /\ Waits /\ WritesReachOpen /\ [Next]_vars => WritesReachOpen'
<1> SUFFICES ASSUME TypeOK, MutexHeld, LogsLeaving, Placed, Waits, WritesReachOpen, [Next]_vars PROVE WritesReachOpen'
  OBVIOUS
<1>1. ASSUME NEW g \in Goroutines, LogLock(g) PROVE WritesReachOpen'
  BY <1>1 DEF TypeOK, WritesReachOpen, Goroutines, LogLock
<1>2. ASSUME NEW g \in Goroutines, LogNext(g) PROVE WritesReachOpen'
  BY <1>2 DEF TypeOK, WritesReachOpen, Running, LogNext
<1>3. ASSUME NEW g \in Goroutines, LogWrite(g) PROVE WritesReachOpen'
  BY <1>3 DEF TypeOK, WritesReachOpen, Goroutines, LogWrite
<1>4. ASSUME NEW g \in Goroutines, LogUnlock(g) PROVE WritesReachOpen'
  BY <1>4 DEF TypeOK, WritesReachOpen, Goroutines, Idle, LogUnlock
<1>5. ASSUME NEW w \in Workers, WorkerLogs(w) PROVE WritesReachOpen'
  BY <1>5 DEF TypeOK, WritesReachOpen, Running, Free, Called, WorkerLogs, StartLog
<1>6. ASSUME NEW s \in Sessions, Connect(s) PROVE WritesReachOpen'
  BY <1>6 DEF TypeOK, WritesReachOpen, Running, Connect, SetSession
<1>7. ASSUME NEW s \in Sessions, PeerChanges(s) PROVE WritesReachOpen'
  BY <1>7 DEF TypeOK, WritesReachOpen, PeerChanges
<1>8. ASSUME NEW s \in Sessions, Quit(s) PROVE WritesReachOpen'
  BY <1>8 DEF TypeOK, WritesReachOpen, Called, Quit, StartLog, SetSession
<1>9. ASSUME NEW s \in Sessions, AcceptConnection(s) PROVE WritesReachOpen'
  BY <1>9 DEF TypeOK, WritesReachOpen, Goroutines, Running, Called, AcceptConnection,
     StartLog, SetSession
<1>10. ASSUME NEW s \in Sessions, StartSession(s) PROVE WritesReachOpen'
  BY <1>10 DEF TypeOK, WritesReachOpen, Running, StartSession, SetSession
<1>11. ASSUME NEW s \in Sessions, SessionLocks(s) PROVE WritesReachOpen'
  BY <1>11 DEF TypeOK, WritesReachOpen, Running, Free, SessionLocks, SetSession
<1>12. ASSUME NEW s \in Sessions, Register(s) PROVE WritesReachOpen'
  BY <1>12 DEF TypeOK, Placed, WritesReachOpen, Running, Register, SetSession
<1>13. ASSUME NEW s \in Sessions, Greet(s) PROVE WritesReachOpen'
  BY <1>13 DEF TypeOK, WritesReachOpen, Greet, SetSession
<1>14. ASSUME NEW s \in Sessions, Bye(s) PROVE WritesReachOpen'
  BY <1>14 DEF TypeOK, WritesReachOpen, Running, Bye, SetSession
<1>15. ASSUME NEW s \in Sessions, Disconnected(s) PROVE WritesReachOpen'
  BY <1>15 DEF TypeOK, WritesReachOpen, Called, Disconnected, StartLog, SetSession
<1>16. ASSUME NEW s \in Sessions, Unregister(s) PROVE WritesReachOpen'
  <2>1. /\ session[s] = "unregistering" /\ mutex = s /\ log' = log /\ loop' = loop /\ open' = open
        /\ clients' = clients \ {s} /\ session' = [session EXCEPT ![s] = "close"]
    BY <1>16 DEF Unregister, SetSession, MutexHeld, InCritical, Goroutines
  <2>2. \A g \in Goroutines : log[g].pc \notin {"next", "write"}
    <3>1. log[s] = Idle => log[s].pc \notin {"next", "write"}
      BY DEF Idle
    <3>2. log[s] = Idle
      BY <2>1 DEF LogsLeaving
    <3> QED
      BY <2>1, <3>1, <3>2 DEF MutexHeld, InCritical
  <2>3. loop # Receiving => loop.client # s
    BY <2>1 DEF WritesReachOpen
  <2> QED
    BY <2>1, <2>2, <2>3 DEF WritesReachOpen, TypeOK
<1>17. ASSUME NEW s \in Sessions, Close(s) PROVE WritesReachOpen'
  BY <1>17 DEF TypeOK, Placed, WritesReachOpen, Close, SetSession
<1>18. ASSUME NEW s \in Sessions, NEW c \in Commands, Submit(s, c) PROVE WritesReachOpen'
  BY <1>18 DEF TypeOK, WritesReachOpen, Submit, SetSession
<1>19. ASSUME ReceiveCommand PROVE WritesReachOpen'
  <2>1. /\ session' = session /\ clients' = clients /\ open' = open
        /\ log' = log \/ \E lvl \in Level : log' = [log EXCEPT ![Loop] = Called(lvl)]
    BY <1>19 DEF ReceiveCommand, StartLog
  <2>2. session[loop'.client] = "waiting" /\ loop'.client \in clients
    BY <1>19, Received DEF Waits, Placed
  <2>3. \A g \in Goroutines :
           log'[g].pc \in {"next", "write"} => log'[g] = log[g]
    BY <2>1, Calls DEF TypeOK
  <2> QED
    BY <2>1, <2>2, <2>3 DEF WritesReachOpen
<1>20. ASSUME Reply PROVE WritesReachOpen'
  BY <1>20 DEF TypeOK, WritesReachOpen, LoopState, Receiving, Reply
<1>21. ASSUME ShowNext PROVE WritesReachOpen'
  BY <1>21, Shown DEF ShowNext, WritesReachOpen
<1>22. ASSUME ShowLine PROVE WritesReachOpen'
  BY <1>22 DEF TypeOK, WritesReachOpen, LoopState, Receiving, ShowLine
<1>23. ASSUME CommandDone PROVE WritesReachOpen'
  BY <1>23 DEF TypeOK, WritesReachOpen, CommandDone
<1>24. ASSUME ShowWhileWritten PROVE WritesReachOpen'
  BY <1>24 DEF TypeOK, WritesReachOpen, ShowWhileWritten
<1>25. ASSUME TelnetListens PROVE WritesReachOpen'
  BY <1>25 DEF TypeOK, Placed, WritesReachOpen, Running, Free, Called, TelnetListens,
     StartLog
<1>26. ASSUME DnsStarts PROVE WritesReachOpen'
  BY <1>26 DEF TypeOK, Placed, WritesReachOpen, Running, Free, Called, DnsStarts, StartLog
<1>27. ASSUME MainExits PROVE WritesReachOpen'
  BY <1>27 DEF TypeOK, WritesReachOpen, MainExits
<1>28. ASSUME ConsoleDials PROVE WritesReachOpen'
  BY <1>28 DEF TypeOK, Placed, WritesReachOpen, ConsoleDials, SetSession
<1>29. ASSUME ConsoleRefused PROVE WritesReachOpen'
  BY <1>29 DEF TypeOK, WritesReachOpen, ConsoleRefused
<1>30. ASSUME ConsoleEnds PROVE WritesReachOpen'
  BY <1>30 DEF TypeOK, WritesReachOpen, ConsoleEnds
<1>31. ASSUME ConsoleExits PROVE WritesReachOpen'
  BY <1>31 DEF ConsoleExits, WritesReachOpen
<1>32. CASE UNCHANGED vars
  BY <1>32 DEF TypeOK, WritesReachOpen, vars
<1> QED
  BY <1>1, <1>2, <1>3, <1>4, <1>5, <1>6, <1>7, <1>8, <1>9, <1>10, <1>11, <1>12, <1>13,
     <1>14, <1>15, <1>16, <1>17, <1>18, <1>19, <1>20, <1>21, <1>22, <1>23, <1>24, <1>25,
     <1>26, <1>27, <1>28, <1>29, <1>30, <1>31, <1>32 DEF Next, LogStep, SessionStep,
     LoopStep, ConsoleStep

-----------------------------------------------------------------------------
(* The inductive invariant.                                                *)

LEMMA InitIInv == Init => IInv
<1> SUFFICES ASSUME Init PROVE IInv
  OBVIOUS
<1> USE DEF Init, Idle, Called, Receiving
<1>1. PICK start \in Starts : /\ console = IF start.terminal THEN "dial" ELSE "none"
                              /\ dns = start.dns
  OBVIOUS
<1>2. start \in [terminal : BOOLEAN, dns : {"starting", "serving"}]
  BY GoroutineAssumption
<1>3. log \in [Goroutines -> LogState] /\ \A g \in Goroutines : log[g].pc \in {"idle", "lock"}
  BY DEF LogState, Level
<1>4. TypeOK
  <2>1. console \in {"none", "dial"} /\ dns \in {"starting", "serving"} /\ raw = FALSE
    BY <1>1, <1>2
  <2>2. level \in [Sessions -> Level] /\ session \in [Sessions -> SessionState]
    BY DEF Level, SessionState
  <2>3. queue \in Seq([client : Sessions, cmd : Commands]) /\ loop \in LoopState
    BY DEF LoopState
  <2> QED
    BY <1>3, <2>1, <2>2, <2>3 DEF TypeOK
<1>5. MutexHeld
  BY <1>3, Distinct DEF MutexHeld, InCritical
<1>6. LogsLeaving
  BY GoroutineAssumption DEF LogsLeaving, Goroutines
<1>7. WritesReachOpen /\ Placed /\ Waits
  BY <1>3, GoroutineAssumption DEF WritesReachOpen, Placed, Waits, Executing
<1> QED
  BY <1>4, <1>5, <1>6, <1>7 DEF IInv

LEMMA Inductive == IInv /\ [Next]_vars => IInv'
BY NextType, NextMutex, NextLogs, NextPlaced, NextWaits, NextWrites DEF IInv

LEMMA Invariant == Spec => []IInv
BY InitIInv, Inductive, PTL DEF Spec

-----------------------------------------------------------------------------
(* Theorems.                                                                *)

\* Type correctness, and the terminal is raw only while the console relays.
THEOREM TypeCorrect == Spec => []TypeOK
BY Invariant, PTL DEF IInv

\* telnetLogHandler.Handle and HandleTelnetClient exclude each other: whoever is
\* between Lock and Unlock of TelnetClientsMutex holds it alone.
THEOREM MutexExcludes == Spec => []MutexHeld
BY Invariant, PTL DEF IInv

\* Log records and replies are written to connections that are open, although a
\* session closes its connection while others log.
THEOREM WritesAreToOpen == Spec => []WritesReachOpen
BY Invariant, PTL DEF IInv

-----------------------------------------------------------------------------
(* Sessions implement SessionLifecycle.                                    *)

\* A variable of the lifecycle for every session.
LEMMA StageMove ==
  ASSUME NEW s \in Sessions, NEW from, NEW to,
         Stage(s) = from, Stage(s)' = to,
         \A t \in Sessions \ {s} : Stage(t)' = Stage(t)
  PROVE  Lifecycle!Move(s, from, to)
<1> DEFINE st == [t \in Sessions |-> Stage(t)]
<1>1. st[s] = from
  OBVIOUS
<1>2. st' = [t \in Sessions |-> Stage(t)']
  OBVIOUS
<1>3. st' = [st EXCEPT ![s] = to]
  BY <1>2
<1> QED
  BY <1>3 DEF Lifecycle!Move

LEMMA StageStutter ==
  ASSUME \A t \in Sessions : Stage(t)' = Stage(t)
  PROVE  UNCHANGED [t \in Sessions |-> Stage(t)]
OBVIOUS

LEMMA InitStage == Init => Lifecycle!Init
<1> SUFFICES ASSUME Init PROVE Lifecycle!Init
  OBVIOUS
<1>1. ASSUME NEW s \in Sessions PROVE Stage(s) = "none"
  BY DEF Init, Stage, Executing
<1> QED
  BY <1>1 DEF Lifecycle!Init

LEMMA StageFrame ==
  ASSUME loop # Receiving <=> loop' # Receiving,
         loop # Receiving => loop'.client = loop.client,
         \A t \in Sessions : \/ session'[t] = session[t]
                             \/ {session[t], session'[t]} \cap {"waiting", "reading"} = {}
  PROVE  UNCHANGED [t \in Sessions |-> Stage(t)]
<1>1. ASSUME NEW t \in Sessions PROVE Stage(t)' = Stage(t)
  BY DEF Stage, Executing
<1> QED
  BY <1>1

LEMMA NextStage ==
  IInv /\ [Next]_vars =>
    Lifecycle!Next \/ UNCHANGED [t \in Sessions |-> Stage(t)]
<1> SUFFICES ASSUME IInv, [Next]_vars
    PROVE Lifecycle!Next \/ UNCHANGED [t \in Sessions |-> Stage(t)]
  OBVIOUS
<1> DEFINE Same == UNCHANGED [t \in Sessions |-> Stage(t)]
<1>1. /\ TypeOK /\ session \in [Sessions -> SessionState]
      /\ \A t \in Sessions : Executing(t) => session[t] = "waiting"
  BY DEF IInv, TypeOK, Waits
<1>2. ASSUME NEW s \in Sessions, Greet(s) PROVE Lifecycle!Open(s)
  <2>1. /\ session[s] = "greet" /\ loop' = loop /\ session' = [session EXCEPT ![s] = "reading"]
    BY <1>2 DEF Greet, SetSession
  <2>2. Stage(s) = "none" /\ Stage(s)' = "prompt" /\ \A t \in Sessions \ {s} : Stage(t)' = Stage(t)
    BY <1>1, <2>1 DEF Stage, Executing
  <2> QED
    BY <2>2, StageMove DEF Lifecycle!Open
<1>3. ASSUME NEW s \in Sessions, NEW c \in Commands, Submit(s, c) PROVE Lifecycle!Submit(s)
  <2>1. /\ session[s] = "reading" /\ loop' = loop /\ session' = [session EXCEPT ![s] = "waiting"]
    BY <1>3 DEF Submit, SetSession
  <2>2. Stage(s) = "prompt" /\ Stage(s)' = "queued" /\ \A t \in Sessions \ {s} : Stage(t)' = Stage(t)
    BY <1>1, <2>1 DEF Stage, Executing
  <2> QED
    BY <2>2, StageMove DEF Lifecycle!Submit
<1>4. ASSUME NEW s \in Sessions, Quit(s) PROVE Lifecycle!Leave(s)
  <2>1. /\ session[s] = "reading" /\ loop' = loop /\ session' = [session EXCEPT ![s] = "bye"]
    BY <1>4 DEF Quit, SetSession
  <2>2. Stage(s) = "prompt" /\ Stage(s)' = "none" /\ \A t \in Sessions \ {s} : Stage(t)' = Stage(t)
    BY <1>1, <2>1 DEF Stage, Executing
  <2> QED
    BY <2>2, StageMove DEF Lifecycle!Leave
<1>5. ASSUME NEW s \in Sessions, Disconnected(s) PROVE Lifecycle!Leave(s)
  <2>1. /\ session[s] = "reading" /\ loop' = loop /\ session' = [session EXCEPT ![s] = "unregister"]
    BY <1>5 DEF Disconnected, SetSession
  <2>2. Stage(s) = "prompt" /\ Stage(s)' = "none" /\ \A t \in Sessions \ {s} : Stage(t)' = Stage(t)
    BY <1>1, <2>1 DEF Stage, Executing
  <2> QED
    BY <2>2, StageMove DEF Lifecycle!Leave
<1>6. ASSUME ReceiveCommand PROVE Lifecycle!Next
  <2>1. PICK s \in Sessions : /\ session[s] = "waiting" /\ session' = session
                              /\ loop = Receiving /\ loop' # Receiving /\ loop'.client = s
    BY <1>6, Received DEF ReceiveCommand, IInv, Waits
  <2>2. /\ Stage(s) = "queued" /\ Stage(s)' = "executing"
        /\ \A t \in Sessions \ {s} : Stage(t)' = Stage(t)
    BY <2>1 DEF Stage, Executing
  <2>3. \A t \in Sessions : Stage(t) # "executing"
    BY <2>1 DEF Stage, Executing
  <2>4. Lifecycle!Execute(s)
    BY <2>1, <2>2, <2>3, StageMove DEF Lifecycle!Execute
  <2> QED
    BY <2>4 DEF Lifecycle!Next
<1>7. ASSUME CommandDone PROVE Lifecycle!Next
  <2>1. PICK s \in Sessions : /\ loop.client = s /\ loop # Receiving /\ loop' = Receiving
                              /\ session' = [session EXCEPT ![s] = "reading"]
    BY <1>7, <1>1, AtWork DEF CommandDone, SetSession
  <2>2. /\ Stage(s) = "executing" /\ Stage(s)' = "prompt"
        /\ \A t \in Sessions \ {s} : Stage(t)' = Stage(t)
    BY <1>1, <2>1 DEF Stage, Executing
  <2>3. Lifecycle!Done(s)
    BY <2>1, <2>2, StageMove DEF Lifecycle!Done
  <2> QED
    BY <2>3 DEF Lifecycle!Next
<1>8. ASSUME NEW g \in Goroutines, LogLock(g) PROVE Same
  BY <1>8, StageFrame DEF LogLock
<1>9. ASSUME NEW g \in Goroutines, LogNext(g) PROVE Same
  BY <1>9, StageFrame DEF LogNext
<1>10. ASSUME NEW g \in Goroutines, LogWrite(g) PROVE Same
  BY <1>10, StageFrame DEF LogWrite
<1>11. ASSUME NEW g \in Goroutines, LogUnlock(g) PROVE Same
  BY <1>11, StageFrame DEF LogUnlock
<1>12. ASSUME NEW w \in Workers, WorkerLogs(w) PROVE Same
  BY <1>12, StageFrame DEF WorkerLogs
<1>13. ASSUME NEW s \in Sessions, Connect(s) PROVE Same
  BY <1>13, StageFrame DEF Connect
<1>14. ASSUME NEW s \in Sessions, PeerChanges(s) PROVE Same
  BY <1>14, StageFrame DEF PeerChanges
<1>15. ASSUME NEW s \in Sessions, AcceptConnection(s) PROVE Same
  BY <1>15, StageFrame DEF AcceptConnection
<1>16. ASSUME NEW s \in Sessions, StartSession(s) PROVE Same
  BY <1>16, StageFrame DEF StartSession
<1>17. ASSUME NEW s \in Sessions, SessionLocks(s) PROVE Same
  BY <1>17, StageFrame DEF SessionLocks
<1>18. ASSUME NEW s \in Sessions, Register(s) PROVE Same
  BY <1>18, StageFrame DEF Register
<1>19. ASSUME NEW s \in Sessions, Bye(s) PROVE Same
  BY <1>19, StageFrame DEF Bye
<1>20. ASSUME NEW s \in Sessions, Unregister(s) PROVE Same
  BY <1>20, StageFrame DEF Unregister
<1>21. ASSUME NEW s \in Sessions, Close(s) PROVE Same
  BY <1>21, StageFrame DEF Close
<1>22. ASSUME Reply PROVE Same
  BY <1>22, AtWork, StageFrame DEF Reply, Receiving
<1>23. ASSUME ShowNext PROVE Same
  BY <1>23, <1>1, Shown, StageFrame DEF ShowNext
<1>24. ASSUME ShowLine PROVE Same
  BY <1>24, AtWork, StageFrame DEF ShowLine, Receiving
<1>25. ASSUME ShowWhileWritten PROVE Same
  BY <1>25, StageFrame DEF ShowWhileWritten
<1>26. ASSUME TelnetListens PROVE Same
  BY <1>26, StageFrame DEF TelnetListens
<1>27. ASSUME DnsStarts PROVE Same
  BY <1>27, StageFrame DEF DnsStarts
<1>28. ASSUME MainExits PROVE Same
  BY <1>28, StageFrame DEF MainExits
<1>29. ASSUME ConsoleDials PROVE Same
  BY <1>29, StageFrame DEF ConsoleDials, SetSession, IInv, Placed, TypeOK
<1>30. ASSUME ConsoleRefused PROVE Same
  BY <1>30, StageFrame DEF ConsoleRefused
<1>31. ASSUME ConsoleEnds PROVE Same
  BY <1>31, StageFrame DEF ConsoleEnds
<1>32. ASSUME ConsoleExits PROVE Same
  BY <1>32, StageFrame DEF ConsoleExits
<1>33. CASE UNCHANGED vars
  BY <1>33, StageFrame DEF vars
<1> QED
  BY <1>2, <1>3, <1>4, <1>5, <1>6, <1>7, <1>8, <1>9, <1>10, <1>11, <1>12, <1>13, <1>14,
     <1>15, <1>16, <1>17, <1>18, <1>19, <1>20, <1>21, <1>22, <1>23, <1>24, <1>25, <1>26,
     <1>27, <1>28, <1>29, <1>30, <1>31, <1>32, <1>33 DEF Next, LogStep, SessionStep,
     LoopStep, ConsoleStep, Lifecycle!Next

\* Sessions go through the stages of SessionLifecycle: one command at a time, the
\* prompt comes back after it and only then.
THEOREM SessionsImplemented == Spec => ImplementsSessions
<1>1. IInv /\ [Next]_vars => [Lifecycle!Next]_([s \in Sessions |-> Stage(s)])
  BY NextStage
<1> QED
  BY <1>1, Invariant, InitStage, PTL DEF Spec, ImplementsSessions, Lifecycle!Spec
=============================================================================
