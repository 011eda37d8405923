# A verification development for abmon

abmon is a collection of monitoring checks.  Most are programs that run once and
exit with a status; one, `check_dns_propagation`, is a daemon with an event loop,
a worker pool, a DNS server and a telnet console.  The daemon carries almost all of
the repository's hard behaviour, and most of this development is about it.

Paths are relative to the repository: `dns/` stands for `cmd/check_dns_propagation/`.

## 1. Inventory

| Component | State | Operations | Talks to | What is hard, and what makes it correct |
|---|---|---|---|---|
| Event loop, `dns/check_dns_propagation.go:466` | map `jobs`; channels `chanEvent`, `chanWork`, 500 places each | `MessageNew`, `MessageDone`, `MessageCLI` | everybody sends to it; it sends to the workers, and, running `CLI()`, to itself | blocking sends in a cycle; one check per zone; every job ends |
| Worker pool, `:287`, and `checkZone`, `:140` | locals of a check: serial, nameservers, `sites`, `output`, try | lookups, up to 75 tries, verdict | DNS, DnsNode API, Icinga, event loop | error paths that skip the last message; state that lives across tries; servers that change meanwhile |
| NOTIFY handler, `:446` | none | one event per watched question | DNS server, event loop | blocks when the event loop does; NOTIFYs repeated and reordered |
| Telnet sessions, `dns/telnet_server.go`, and the log handler, `:528` | map `TelnetClients` under a mutex; a done channel per command | connect, register, read a line, queue it, wait, unregister, close; a write per client and log record | event loop; everybody who logs writes to all of them | a prompt for every command and in order; a client that stops reading or goes away while others write; the map read without its mutex |
| Line editor, `dns/telnet_readline.go`, and `dns/telnet_crlf.go` | line, history, position in it | keys, escape sequences, telnet commands, completion | the client's screen, which it cannot see, and to which commands and the log write too | screen and line in step after any sequence of keys; completion that loses nothing |
| Local console, `dns/telnet_devclient.go` | terminal mode | dial, relay both ways, exit | telnet server; the whole process | starts before or after the server; no daemon without its console |
| Generated Icinga configuration, `dns/icinga_zones_conf.go`, `writeIcingaConfig` | temporary file, installed file, what Icinga has loaded | generate, compare, copy, reload | file system, systemctl | failures and crashes between steps; a decision by comparison |
| Status of a check, `internal/check.go` | `Status`, remapping | `NewResult`, `SetStatus`, `Exit`, `CheckWarnCritical` | every check | the order of the statuses |
| `check_ntp_peers` | peers, counters | list, stats, judge, exit | `ntpq`, `chronyc` | which of several exits is taken |
| `check_becs_dhcp_scope` | BECS session, results | login, calls, judge, write, send, exit | BECS, Icinga | one of many scopes fails; two kinds of status of one scope |
| `check_gonemaster` | error, worst level per zone | run, judge, send | `gonemaster`, Icinga | one of many zones fails |
| `check_imap_message_age` | channels `messages` and `done` | fetch in a goroutine, receive, judge | IMAP server | a fetch that breaks off |
| `check_file_status` | none | stat, open, read | a file another job writes | the file changes between the steps |
| `check_http_redirect`, `check_ldap_auth`, `check_radius_auth`, `check_rrsig_expiry` | none | prepare, ask, exit | one service each | exit decisions |
| Command line, `cmd/cmd_base.go`; configuration file, `internal/check.go:143` | none | resolve, load | kong, yaml | precedence of the sources of a value |

## 2. Modules

| Module | Models | Kind |
|---|---|---|
| `EventLoop` | event loop, workers, NOTIFY handlers, sessions and both channels | state machine |
| `CheckLifecycle` | what the daemon promises for the check of a zone | abstract specification, implemented by `EventLoop` and by `Propagation` |
| `CheckZone` | one call of `checkZone`, against any answers | state machine |
| `Propagation` | `CheckZone` with nameservers that have a state, what DnsNode knows of them, and the zone's job | composition |
| `IcingaConf` | both generators of configuration files | state machine with faults |
| `MonitoringResult` | statuses, remapping, thresholds | operators |
| `SessionLifecycle` | what it promises to a user of its console | abstract specification, implemented by `EventLoop` and by `TelnetClients` |
| `TelnetClients` | sessions, the log, the local console and the mutex between them | state machine |
| `Completion` | `cliComplete` | operators |
| `LineEditor` | the line editor, the client's relay and its screen | state machine |
| `NtpPeers`, `BecsScopes`, `Gonemaster`, `ImapMessageAge`, `FileStatus` | the check program of that name | state machines |
| `ServiceChecks` | the four checks that ask a service one question | state machine |
| `Checks` | `CheckZone`, the check programs and the generators, side by side | composition |
| `MCEventLoop`, `MCPropagation`, `MCTelnet`, `MCLineEditor`, `MCNtpPeers`, `MCChecks` | values of constants for TLC | model checking |
| `EventLoopProofs`, `EventLoopRefinement`, `TelnetClientsProofs`, `CheckZoneProofs`, `PropagationProofs`, `IcingaConfProofs`, `ChecksProofs`, `LineEditorProofs` | theorems | proofs |

### EventLoop

A Go send on a full channel blocks its goroutine.  Each goroutine therefore has a
state in which it is about to send (`handler` and `session` "send"/"sending",
`worker` "done", `loop` "dispatch", and "cli" with zones to do), and the send is an
action guarded by room in the channel (`SendEvent`, `WorkRoom`).  One action of the
event loop is one receive with the map operation that follows; `Dispatch` and
`CommandSends` are the sends inside `case MessageNew` and inside `CLI()`, where the
loop can block.

To the event loop a command is the set of names for which `CLI()` sends
`MessageNew`: one for `check <name>` (whatever was typed, a zone or not), all
DnsNode zones for `check all`, in the order of a Go map, which is any; none for the
rest.  Only zones with `dnsnode` and `dns_check_propagation` pass the NOTIFY
handler.  `checkZone` is reduced to its ways out: unknown zone, failed lookup
(no message), and the end of the polling; `CheckZone` has the rest.

`TypeOK` bounds both channels.  `SingleFlight` says that a name is at one place
only, of the loop's hand, `chanWork`, a worker, and a "done" on its way, and that
wherever it is it has a job.  `PromptOwed` says that a session waits exactly while
its command is queued or executed.  `ImplementsLifecycle` maps every zone to a stage
of `CheckLifecycle`, and `ImplementsSessions` every session to one of
`SessionLifecycle`.

### TelnetClients

The same sessions and event loop, seen from the side of the mutex.  Every goroutine
may be in a log call (`log`): it takes the mutex (`LogLock`), visits the clients in
any order (`LogNext`), writes (`LogWrite`) and releases it.  A session takes it twice,
to enter `TelnetClients` and to leave it (`SessionLocks`, then `Register` or
`Unregister`), and closes its connection after that.  A write returns when the other
end reads, has gone, or the connection is closed; it blocks while the other end is
"stalled" (`WriteReturns`).  The event loop executes one command at a time and writes
its output to the session that waits for it; `show clients` visits the map without
the mutex, and may then meet a session inside `Register` or `Unregister`
(`ShowWhileWritten`).  The local console is a client whose end is the end of the
process, and `raw` is its terminal's mode.

`MutexHeld` and `WritesReachOpen` are about who may be where at a time: no write to
the map while a record is written to its clients, and none to a closed connection.
`EventLoop` and `TelnetClients` overlap in the sessions' commands, and each shows that
it implements `SessionLifecycle`: the one with full channels and checks in the queue,
the other with logging and clients that come and go.

### CheckZone and Propagation

One action per answer of the network (`SoaAnswer`, `NsAnswer`, `ApiAnswer`, `Query`
and their failures) and per decision of the loop.  The nameservers of a zone not at
DnsNode are queried one after the other, with other things happening in between.
`output` keeps which servers the output of a try reports, `sites` the last try in
which a server was wrong, as in the code, and 4 times that is its response time.
A verdict that is not OK is `check.WARNING`, which is whatever the daemon's command
line makes of WARNING.

`Propagation` replaces the answers by servers that transfer the zone when they
like, and adds the job of the zone, NOTIFYs that arrive in any order and repeatedly,
and new serials during a check.  Its zone is hosted at DnsNode, since only such a
zone's NOTIFYs start a check, and the API does not ask the servers: it tells what
DnsNode has heard from each of them (`known`, `Collect`), from one a moment ago and
from another before the try began.  A server never goes back to an older serial.

### IcingaConf

A file holds the configuration of one version of the input, or is missing or torn.
`Copy` truncates the installed file and `Fill` completes it, as `CopyFile` does;
`Faults` chooses what may fail: creating, writing, comparing, copying, syncing (after
a complete copy), reloading, and a crash between any two steps.  The two generators
differ where the code does: what they do when comparing fails, whether they look at
the result of writing, whether the temporary file is removed.  Since the zones
generator does not look at its writes, its temporary file may be torn and nobody
notices (`TornUnnoticed`): such a file it installs and loads as any other, and what the
properties say of it is that the installed file is this temporary one, and not a torn
copy of it.  The history variable `missed` says that a fault came between the last
complete copy and its reload.

### LineEditor and Completion

One action per kind of input byte, and on the other side the client: `Relay`, which is
`relayConnToStdout`, and a terminal with a row and a cursor.  What the editor writes
goes byte by byte through `Receive`, which puts a CR before a `Bare` LF as
`crlfConn.Write` does.  `Complete` computes `CliComplete` over
small tables.  Output of commands and log records (`LogRecord`, at any time) get to
the same screen: `drawn` says that none has come since the line was drawn.  From an
escaped data byte 0xFF on, which is in the line and which the client takes for a
telnet command, the screen is not followed (`Lost`).

### The checks

Each module follows its program to an exit status.  `MonitoringResult` has what they
share: the order of the statuses, the statuses of the command line (`Remappings`), the
status 1 of an error that is returned and the status 2 of a panic.  Only -1 (`Running`)
says that the process is still there.

- `NtpPeers` takes the lines of the tools as parsed; `chronyc` gives any of them a jitter
  of its own in a second step; an error returned to `main` ends the process with 0.
- `BecsScopes` has the session of the client, the loop over the scopes with all its
  exits, and the loop that sends results.  What happens inside the writing of the
  configuration is in `IcingaConf`; here it has an outcome, of which one is a new file
  and an error, as a failed Sync leaves it.
- `Gonemaster` visits the zones in any order, and the test results of a zone one by
  one; `failed` and `printed` are history.
- `ImapMessageAge` has two processes and their channels.  That the fetch ends is the
  client library's timeout (`FetchEnds` is weakly fair), and it may break off at any
  point.  An item may come without its date: Go's zero time, which the code also takes
  for "none yet" (`Undated`).
- `FileStatus` has the check's three looks at a file that changes between them.
- `ServiceChecks` tells apart what the four checks tell apart.  `address` is whether what
  they are to connect to is an address at all, which only `check_http_redirect` looks at
  before it connects.

`Checks` has the two generators, too.  They are no check programs, and share nothing with
them but the program counter.

## 3. Runs

| Run | Expect | Shows |
|---|---|---|
| `dispatch_safety` | pass | `EventLoop` with all kinds of command and zone: one check per zone, no prompt forgotten, no circular wait, and the refinement of `CheckLifecycle` and of `SessionLifecycle` |
| `dispatch_liveness` | pass | jobs end, prompts return, NOTIFYs are answered; no deadlock |
| `jobs_leak` | violation | a failed lookup leaves its job behind |
| `propagation` | pass | a check measures a serial no older than its NOTIFY's, OK means propagated (unless WARNING is sent as OK), an accepted NOTIFY gets measured unless the check fails; again the lifecycle |
| `missed_notify` | violation | a NOTIFY during a check is lost |
| `telnet_safety` | pass | mutual exclusion, no write to a closed connection, and the refinement of `SessionLifecycle` |
| `telnet_liveness` | pass | if clients do not stall for ever: log calls and commands return, who has gone is forgotten, and the process ends with its console |
| `show_clients_race` | violation | `show clients` may end the process |
| `line_editor` | pass | the screen shows the line, completion is stable and loses nothing, the history has no blank and no repeated lines |
| `checks` | pass | `checkZone` and every check program: verdicts, exit statuses and what is sent say what was found; nothing waits for ever. The generators, under all faults: success means installed, and loaded unless `missed`; nothing but an installed file is loaded |
| `remapping` | violation | `--critical-as` and `--warning-as` do not reach the exits of `check_ntp_peers`, nor the results of `check_becs_dhcp_scope` and `check_gonemaster` |
| `ntp_grading` | violation | offset and jitter never show in the exit |

`checks` runs the programs side by side, as `Checks` composes them: a behaviour is one
run of one of them (of a generator: any number of runs), and each property is about the
programs it names.  They share the program counter, the exit status and the statuses of
the command line, and do not interact.

Three properties of `checks` are stated for command lines that change no status, or make
none of them OK: `ExitTellsReachability`, the part of `StatusesAgree` about what is sent,
and `NoFalseOk`.  Which status stands for which is what `RemappingApplies` is about, and
`remapping` shows that it is not so; with `--warning-as ok` a check says OK for what it
was told to, and `VerdictSound` says of `checkZone` for which servers.

Each violation contradicts a sentence of the repository, quoted under "findings" in
`PROJECT.json`.

**Bounds.**  Zones, workers, sessions and handlers are one to three: every property
is about one or two of them and whatever may come between.  Channels have one or two
places instead of 500, so that they are full in many states.  `dispatch_safety` and
`dispatch_liveness` have as many names as pool and queue hold (`PoolHoldsNames`); one
more makes the premise of `NoCircularWait` false and the circular wait possible.  That
boundary is at 600 names in a daemon with 100 workers.  `TelnetClients` has two
places for sessions, the local console's and another, which is used again; `MCTelnet`
has the daemon start with a console, and without one while the DNS server is starting
or failing.  The liveness run needs no worker, since event loop, `TelnetServer` and
sessions log as well.  `CheckZone` makes 2 or 3 tries instead of 75, enough for a
server to be wrong, right and wrong again.  Serials are 1 to 2 or 3.  For the
generators three versions tell the installed, the generated and the next input apart.
`LineEditor` has lines of four characters, of which one may be submitted, and a
history of two lines; the tables have commands with a common prefix, one that is a
prefix of another, and sub-commands.  The values of the check programs are on both
sides of each threshold and at it: lists of up to two peers, three scopes, four zones,
reports of up to two tests, folders of up to three messages with room for one in the
channel and with one, two or all of them undated, ages up to 4.  The command lines
leave the statuses as they are, make WARNING of CRITICAL, or OK of WARNING and WARNING of
UNKNOWN; `MCPropagation` has the first and one with OK for WARNING.  Symmetry is used in
`dispatch_safety` only, where no liveness is checked.

**Deadlock** is checked in `dispatch_liveness`, `propagation` and
`missed_notify`.  The other runs end where the program does (a check that has exited, a
process that has ended, a closed connection), or a wait is what they are about:
`dispatch_safety`, whose commands and channels make a blocked event loop possible, and
the telnet runs, where a client may stall for ever.  In `jobs_leak` the only zone is
lost, and everybody may wait.

**Fairness.**  The Go scheduler runs what can run: weak fairness for the event loop,
and per worker.  Goroutines that wait to send on one channel are served in the order
of their arrival: strong fairness per sender, since room in the channel comes and
goes.  Weak fairness of `CheckStep` in `EventLoop`, and of `CheckZone` as a whole,
assumes that a check's calls return: DNS queries have a timeout, but the HTTP clients
of the API and of `NotifyIcinga` (`internal/check.go:256`) have none, so this is
assumed and not shown.

In `TelnetClients` strong fairness stands for two things: a Go mutex hands itself to a
waiter that has starved for a millisecond, and a listener accepts in turn; and a
client that is not stalled for ever takes what is written to it, although it may pause
in between.  That no client stalls for ever is a premise of each property
(`ClientsKeepReading`), not an assumption of the specification: nothing in the code
sets a deadline, and without the premise one stalled client blocks everybody who logs.
NOTIFYs, commands, log records of workers, new serials, transfers and runs of a
generator need never happen.

## 4. Proofs

About `EventLoop`, for every number of zones, workers, handlers and sessions, every
configuration and every capacity:

- `TypeCorrect`: `Spec => []TypeOK`, from `InitType` and `NextType`, one step per
  action; `SendType` and `ReceiveType` say what a send and a receive do to
  `chanEvent`.
- `ChecksAreSingleFlight`: `Spec => []SingleFlight`.  The invariant the runs check is
  inductive together with `TypeOK`: `NoTwin` alone is not (a second acceptance would
  make a twin), nor is `Registered` alone (a "done" would remove the job of another
  check); `OnePlace` links them, because the "done" that is received is then the only
  place of its name.  `AppendDone`, `AppendOther` and `TailDone` say which names have
  a "done" in the channel after a send and a receive, and `SingleFlightFrame` disposes
  of the actions that move no check.
- `LifecycleImplemented` (`EventLoopRefinement`): `Spec => ImplementsLifecycle`.  By
  `SingleFlight` before and after a step a name is at one place at most, which is its
  stage (`StageIs`, `NextStageIs`).  `StepRefines` has one step per action: either no
  name moves (`NothingMoves`), or one does and the others stay (`OneMoves`).
- `JobsAreNotLost`: `Spec => []NoLostJob`.  A lost job is a name in the stage "lost",
  which is entered by `Lose` only, for failing zones: an argument about the six moves
  of `CheckLifecycle`, carried over by `StepRefines`.
- `PromptsAreOwed`: `Spec => []PromptOwed`, inductive together
  with `TypeOK`.  `OwingAppend` and `OwingTail` follow the commands of a session
  through `chanEvent`.
- `SessionsImplemented` (`EventLoopRefinement`): `Spec => ImplementsSessions`.  By `PromptOwed` a session that
  waits is the one of the command at hand or of one in the queue, which is its stage.
- `WaitIsNotCircular`: `Spec => []NoCircularWait`, from `TypeOK` and `SingleFlight`
  without a further induction: in a circular wait queue and workers hold `WorkCap` and
  `Cardinality(Workers)` different names (`OntoSize`), none of them the one the event
  loop holds.

Assumed: `ConfigAssumption`, `FiniteAssumption`, `PoolAssumption`, as `main` and the
configuration establish them.

`TelnetClientsProofs`, for every number of sessions and workers, from one invariant
`IInv` (`InitInv`, `NextInv` with one lemma per group of actions):

- `TypeCorrect`, `MutexExcludes`, `WritesAreToOpen`: `TypeOK`, `MutexHeld` and
  `WritesReachOpen` are not inductive by themselves.  `Placed` ties the stage of a
  session to the map and to its connection (registered exactly between its two
  critical sections, open until it closes); `Waits` ties a waiting session to one
  command, in the queue or at hand; `LogsLeaving` says that a session logs only when
  it leaves.  With `MutexHeld` a client that a record is about to be written to cannot
  unregister, since that takes the mutex the writer holds.
- `SessionsImplemented`: `Spec => ImplementsSessions`, by `Waits` before and after each
  step; the steps of log, mutex and console are stutters.

`CheckZoneProofs`, for every set of servers and number of serials and tries, whatever the
network answers, from one invariant `CheckInv`, with `CheckNextInv` put together from one
lemma per kind of step:

- `CheckTypeCorrect` and `VerdictIsSound`: `[](CheckTypeOK /\ SitesFollowOutput)` and
  `[]VerdictSound`, for any remapping.  A verdict is handed over long after the answers have come.  That the
  output still is about the answers of the last try is `OutputIsWrong`, kept by `Query`
  for the answers so far because no server is asked twice in a try (`Asked`), and that a
  wrong output and used-up tries are the same is `Tried`.
- `ResponseTimesAreMeasured`: `[]ResponseTimesMeasure`, from `WrongBefore`: no server is
  marked with a try that has not been made, and one is marked with the last try that was
  followed by a sleep.  That needs `SitesFollowOutput` when the check sleeps, and `MarkIs`,
  what `setSitePropagation` does to the map, when it asks.

`PropagationProofs`, for any number of servers and serials, with failures and without.
A step of the daemon's check is one of `CheckZone`, so that `CheckInv` is carried over;
`PropInv` adds what the environment does:

- `TypeCorrect` and `TargetIsFresh`: `[]TypeOK` and `[]FreshTarget`, from
  `TargetOfPrimary`, that the target lies between the serial of the NOTIFY and the
  primary's.  It holds because no NOTIFY is ahead of the primary and a job's check asks
  after the NOTIFY.
- `OkIsPropagated`: `[]OkMeansPropagated`, from `KnownIsPast`, that DnsNode knows of no
  serial a server does not have, `AnswersOfServers`, that all servers still have what was
  answered of them or something newer, and `OutputIsWrong`.  That the verdict for a wrong
  server is another than OK is its premise `check.WARNING # OK`.
- `ZoneLifecycleImplemented`: `Spec => ImplementsLifecycle`, by `PropStepRefines`; only
  with `Failures` may a check be lost.

`IcingaConfProofs`, for every set of versions and faults, from one invariant `IInv`:

- `InstalledOnSuccess`: `Spec => []InstalledWhenOk`.  It needs that the temporary file
  holds what the run generates, or what the zones generator wrote without noticing that it
  is torn (in `TypeOK`), and `CopiedBeforeReload`, that installed and temporary file are the
  same before the reload.
- `LoadedOnSuccess`: `Spec => []LoadedUnlessMissed`.  It needs `LoadedBeforeCopy`: at
  every step but the reload, what is installed and not torn is loaded, unless
  `missed`.  Only then may a comparison that finds no difference skip the reload.
- `ReloadsOnlyInstalled`: `Spec => ReloadsInstalled`, by `InvLoads`, and `TypeCorrect`:
  `[]TypeOK`, from the same invariant.

`ChecksProofs`, for lists of any length and any numbers in them: each program has an
inductive invariant, `Inv` is that of the program that runs, and a step of the
composition is one of that program (`NextInv`).  TLC has checked `Inv` on the run.

- `VerdictIsSound` and `TimesMeasure`: `CheckInv` again, carried over from
  `CheckZoneProofs` through the instance `ZoneP`.
- `ExitTells`: `[]ExitTellsReachability`, for statuses as they are.  `NtpInv` has the counter as the size of the set
  of peers seen that are up, which `FS_AddElement` carries from one peer to the next, and
  `NoneSelected`, that no peer seen is selected while `selectedPeer` is nil.  At the end
  `FS_Subset` tells all, some and none apart (`CountersTell`).
- `MeasuresNeverShow`: what `ntp_grading` finds, for every value.  The status that offset
  and jitter are judged into is UNKNOWN from the start and nothing is worse (`JudgedIs`).
- `AllOrNothingHolds` and `StatusesDoAgree`: `BecsInv`.  `Fetching` gives an order-preserving
  place among the scopes asked for to each result, so that the list holds all of them when
  nothing is left to do, although scopes may be named twice or excluded; `Sending` ties the
  loop that sends to the results; `WorstIsKept` has `overall` as the maximum of the remapped
  statuses, `SentAreGraded` what was sent as the unmapped ones, and `OneSession` ties
  the client's session to the one at BECS.  `BecsOkInv` is that OK takes
  all of them fetched and no torn file (`OkMeansFetched`).
- `EveryZoneReported`: `GoneInv`.  `Visited` says what has happened to each zone that is
  not `left`, `FailuresTold` that an error is remembered and returned, and `WorstSoFar`
  that the maximum is over the test results seen (`WorstIsWorst` at the end).
- `FolderIsJudged`: `ImapInv`.  `InOrder` says that what has been counted, what is in the
  channel and what has still to arrive are the folder, in order; `OldestReceived` says
  that `oldest` is the maximum over those of the first that come after the last undated one
  (`OldestSince`); `FetchTells` says that no error means that everything has
  arrived, and that the fetch is over before the channel is closed.
- `OkIsTrue`: `FileInv` with `YoungEnough`, which a step of the job keeps because a rewritten
  file is younger, `BecsOkInv`, and `ServiceInv`, that a check which asks is prepared.
- `ConfigInstalled`, `ConfigLoaded`, `ConfigLoads`: the generators' invariant, carried over
  from `IcingaConfProofs` through the instance `ConfP`.
- `TypesCorrect`: the types, of which the counters' are part of the above.

Assumed: `RemappingAssumption` (the command line's statuses are statuses),
`ZoneAssumption`, `PeersAssumption`, `ScopesAssumption`, `ReportsAssumption`,
`FoldersAssumption` and `TimeAssumption`, which say that the constants have the types
that the code's variables have.

`LineEditorProofs`, for any tables of words, and lines and histories of any length:

- The provers cannot use an induction theorem about a predicate.  `NatInSet` and
  `SeqInSet` are induction about a set instead, from `WFMin` and
  `NatLessThanWellFounded`: a set that has 0 and with `n` also `n + 1` has all numbers.
  `Written`, `Split` and `Spaced`, recursive functions of a length, get by it the
  equations that loops have: `WrittenBytes` and `WrittenAppend`, `SplitAppend`,
  `SpacedAppend`.
- `TextWritten`: a text overwrites the row from the cursor on, after whatever was written
  before.  With it `BackspaceWritten`, `LineEndWritten`, `OutputWritten`,
  `NegotiationWritten`, `GreetingWritten`, `LineSet` and `CandidatesListed` say what every
  write of the code makes of the screen.
- `ScreenIsInStep`: `Spec => []ScreenShowsLine`, and `TypesAreKept`: `[]TypeOK`, from
  `LineInv`, which TLC has checked on the run.  What is shown is not inductive: after a log
  record the cursor is somewhere before the end of the line, and `setLine` covers the old
  line only.  `Follows` says that the cursor is never behind the end and that only blanks
  are behind the cursor, which `LineSet` needs and every key keeps.
- `TabIsRight`: `[]TabCompletes`.  `SplitJoined` says that splitting what has been joined
  gives the same words again; `CommonPrefixIs` that the longest common prefix is one and
  that every other is a prefix of it.  With more than one candidate a second Tab therefore
  finds the same words before the last, and the same candidates.
- `HistoryStaysClean`: `[]HistoryClean`, inductive together with the types.

Assumed: `TablesAssumption` (commands and zones are words, and finitely many),
`BoundAssumption`, and `PrintableAssumption` (what a line holds is printed as it is).

Only model-checked: liveness, which is out of the prover's reach as ENABLED is:
`JobFinishes`, `PromptReturns`, `NotifyHandled`, `AcceptedIsMeasured`, `LogReturns`,
`CommandsReturn`, `GoneAreClosed`, `NeverHeadless` and `RunsEnd`.  All other properties
of the passing runs are proved.

## 5. Not modelled, and other differences

Not modelled: the text of outputs and configurations; the console's debug flags;
parsing of the tools' output, of credentials and of ranges beyond what the exit
decisions see; the precedence of configuration values (`ConfigLoader` lets an
environment variable win, and no flag has one); the DnsNode client, which is not in the
repository; TLS, HTTP, JSON-RPC and the ioctls of the terminal; characters of several
bytes (`Backspace` removes one byte and one column); `telnet_devclient_other.go`, a
build without terminal modes.

Differences between code and comments, and consequences of the code, that the modules
contain and no run of their own shows:

- `dns/check_dns_propagation.go:330`: `check all` sends every DnsNode zone to the
  channel only the event loop receives from; with more than 500 of them it blocks on
  itself for ever (`CommandSends`; `PromptReturns` holds for commands that send no more
  than there is room for).
- `dns/icinga_zones_conf.go:134`: killed between copy and reload, every later run finds
  the file unchanged and does not reload (`LoadedWhenOk`, which `LoadedUnlessMissed`
  restricts to what holds), although README.md:52 says that Icinga is reloaded "if the
  generated file changed".
- `dns/check_dns_propagation.go:538`: writes to clients have no deadline; one that
  stalls holds up whoever logs, the event loop included (`ClientsKeepReading`).
- `:581`: the local console may dial before anybody listens, and the process then ends
  (`ConsoleRefused`); README.md:48 says "connects to this console automatically".
- `:611`: when the DNS server fails to start the process ends at once, and the local
  terminal stays in raw mode (`MainExits`).
- `dns/telnet_readline.go:255`: "must be kept in sync" with `CLI()`, which also knows
  `generate`; and completion skips repeated spaces, between which `CLI()` finds an
  empty argument (`Split`).
- `dns/telnet_crlf.go:22`: a CR and an LF in two writes become CR CR LF (`Bare`).
- `cmd/check_becs_dhcp_scope/becs.go:137`, "called as deferred cleanup": every exit but
  a panic goes through `os.Exit`, so the BECS session is never closed (`ExitWith`).
- `cmd/check_becs_dhcp_scope/check_becs_dhcp_scope.go:112`: a scope without addresses
  makes the exit status CRITICAL, gets a service in the configuration and no result
  (`SendNothing`); a scope named twice on the command line is there twice.
- `internal/check.go:187`: `NotifyNagios` panics, after the first result has gone to
  Icinga (`Send`, `Report`).
- `cmd/check_gonemaster/check_gonemaster.go:121`: nothing is sent for a zone that
  fails, and Icinga keeps what it has (`ZoneFails`); `--exclude` is never read.
- `cmd/check_file_status/check_file_status.go:37`: the default limits are 48 hours for
  WARNING and 36 for CRITICAL, which is looked at first, so there is no WARNING.
- `cmd/check_rrsig_expiry/check_rrsig_expiry.go:85`: compares the names of two statuses
  where the message speaks of days (`ParametersMakeSense`); what it finds is printed,
  errors are logged, and the process ends with 0 (`Accepts`, `WhenSilent`).
- `cmd/cmd_base.go:43`: a check that cannot read its configuration exits with 1, which
  is WARNING to whom runs it (`Failure`).
- `dns/check_dns_propagation.go:139`, "Report errors to Icinga/Nagios": an error of
  the SOA, NS or API lookup is logged and not notified (`LookupFails`, `ApiFails`).
- `:178`, "check for 60 seconds": 75 tries with 4 seconds between them are five
  minutes (`MaxTries`, `Period`).
- `:495`: handing a check to the pool blocks the event loop when `chanWork` is full,
  and with more names than workers and places in `chanWork` both sides may wait for
  each other (`CircularWait`, outside the premise of `NoCircularWait`).
- `cmd/check_imap_message_age/check_imap_message_age.go:145` and `:153`:
  `oldest.IsZero()` stands for "none yet", so that an item without INTERNALDATE takes the
  place of the messages before it and gives it up to the next; if it is the last, the check
  says that there are no messages, and OK (`Receive`, `Graded`).
- `dns/check_dns_propagation.go:279`: with `--warning-as ok` the daemon sends OK for a zone
  whose servers have another serial, with the output that names them (`Report`); it is what
  the option says.
- `cmd/check_ldap_auth/check_ldap_auth.go:47` and
  `cmd/check_radius_auth/check_radius_auth.go:65`: a `--host` that is no LDAP URL and a port
  that is none end as CRITICAL, as a service that does not answer does, and not as UNKNOWN
  as other options that are no good do (`Prepared`, `WhenSilent`).
- `dns/icinga_zones_conf.go:92` and `:116`: results of writing the temporary file are not looked at; a
  torn one is installed and loaded (`WriteFails`, `TornUnnoticed`).
- `internal/util.go:127`: when Sync fails the installed file is complete, the run fails and
  does not reload, and later runs find the file unchanged, as after a crash before the
  reload (`SyncFails`).
- `cmd/check_ntp_peers/check_ntp_peers.go:385`: when the tool cannot be run or its
  output not be parsed, `main` prints the error and returns, and the exit status is 0,
  which is OK (`ToolFails`).
- `dns/telnet_readline.go:245`: an escaped 0xFF goes into the line and not to the
  screen (`LiteralFF`).

## 6. Plan

1. `FileCmp` chunk by chunk against equality of files.
2. Parsing of ranges, and the grading of an NTP peer by them.
