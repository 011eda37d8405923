------------------------------- MODULE NtpPeers -------------------------------
(***************************************************************************)
(* One run of check_ntp_peers: list the peers with ntpq or chronyc, judge  *)
(* them one by one, and exit with a status.                                *)
(*                                                                         *)
(* The lines of the tools are taken as parsed: per peer, whether the       *)
(* daemon has selected it, whether it is down, and its offset and jitter.  *)
(***************************************************************************)
EXTENDS MonitoringResult, Sequences, FiniteSets

CONSTANTS
  PeerLists,   \* lists the tool may print
  Jitters,     \* deviations chronyc sourcestats may print
  MaxOffset,   \* ranges, as records with start and end
  MaxJitter

VARIABLES
  pc,
  source,    \* --source
  check,     \* check.WARNING, check.CRITICAL, check.UNKNOWN
  peers,
  at,        \* index of the next peer to judge
  status,    \* check.Result.Status
  selected,  \* index of selectedPeer, 0 for nil
  up,        \* countPeersUp
  exit       \* exit status of the process

vars == <<pc, source, check, peers, at, status, selected, up, exit>>

Init ==
  /\ pc = "list"
  /\ source \in {"ntpq", "chronyc"}
  /\ check \in Remappings
  /\ peers = <<>> /\ at = 1
  /\ status = NewResult
  /\ selected = 0 /\ up = 0
  /\ exit = Running

ExitWith(code) == pc' = "exited" /\ exit' = code

-----------------------------------------------------------------------------
\* chronyc says with one character whether a peer is selected or down.
Parsable(list) ==
  source = "chronyc" => \A i \in DOMAIN list : ~(list[i].selected /\ list[i].down)

List ==
  /\ pc = "list"
  /\ peers' \in {list \in PeerLists : Parsable(list)}
  /\ pc' = IF source = "chronyc" THEN "stats" ELSE "judge"
  /\ UNCHANGED <<source, check, at, status, selected, up, exit>>

\* applyChronySourceStats: the jitter of the peers it names is replaced.
Stats ==
  /\ pc = "stats"
  /\ \E named \in SUBSET DOMAIN peers : \E jitter \in [named -> Jitters] :
       peers' = [i \in DOMAIN peers |->
                   IF i \in named THEN [peers[i] EXCEPT !.jitter = jitter[i]] ELSE peers[i]]
  /\ pc' = "judge"
  /\ UNCHANGED <<source, check, at, status, selected, up, exit>>

\* The tool could not be run, or its output not be parsed: main prints the
\* error and returns, which ends the process with 0.
ToolFails ==
  /\ pc \in {"list", "stats"}
  /\ ExitWith(0)
  /\ UNCHANGED <<source, check, peers, at, status, selected, up>>

Abs(x) == IF x < 0 THEN -x ELSE x

\* SetStatus is called for what is over the maximum only.
Judged(st, stat) == IF stat = OK THEN st ELSE SetStatus(st, stat)

Judge ==
  /\ pc = "judge" /\ at \in DOMAIN peers
  /\ LET peer == peers[at]
     IN  /\ selected' = IF peer.selected THEN at ELSE selected
         /\ IF peer.down
              THEN UNCHANGED <<up, status>>
              ELSE /\ up' = up + 1
                   /\ status' = Judged(
                        Judged(status, CheckWarnCritical(MaxOffset, Abs(peer.offset))),
                        CheckWarnCritical(MaxJitter, Abs(peer.jitter)))
  /\ at' = at + 1
  /\ UNCHANGED <<pc, source, check, peers, exit>>

\* Mutant: a peer that is down does not count as long as another is up.
FinalStatusTolerant ==
  IF selected = 0 \/ up < 1 THEN CRITICAL ELSE ExitStatus(status, -1)

\* What check.Exit is called with, in the order of the calls.
FinalStatus ==
  CASE selected = 0                       -> ExitStatus(status, CRITICAL)
    [] selected # 0 /\ up < 1             -> ExitStatus(status, CRITICAL)
    [] selected # 0 /\ up \in 1 .. Len(peers) - 1 -> ExitStatus(status, WARNING)
    [] OTHER                              -> ExitStatus(status, -1)

Exit ==
  /\ pc = "judge" /\ at > Len(peers)
  /\ ExitWith(FinalStatus)
  /\ UNCHANGED <<source, check, peers, at, status, selected, up>>

Next == List \/ Stats \/ ToolFails \/ Judge \/ Exit

Spec == Init /\ [][Next]_vars

-----------------------------------------------------------------------------
Down == {i \in DOMAIN peers : peers[i].down}
Selected == {i \in DOMAIN peers : peers[i].selected}

\* The counters of the loop say what they are named for.
TypeOK ==
  /\ pc \in {"list", "stats", "judge", "exited"}
  /\ at \in 1 .. Len(peers) + 1
  /\ status \in Status
  /\ selected \in Selected \cup {0}
  /\ up = Cardinality((1 .. at - 1) \ Down)
  /\ exit \in Status \cup {Running}

Judging == pc = "exited" /\ at > Len(peers) /\ peers # <<>>

(***************************************************************************)
(* The exit status tells how far the daemon can reach its peers: CRITICAL  *)
(* when it has selected none or all are down, WARNING when it has selected *)
(* one and only some are down.  That is for statuses as they are: what     *)
(* else the command line makes of them does not get into these exits.      *)
(***************************************************************************)
ExitTellsReachability == Judging /\ check = Unmapped =>
  /\ Selected = {} \/ Down = DOMAIN peers => exit = CRITICAL
  /\ Selected # {} /\ Down # {} /\ Down # DOMAIN peers => exit = WARNING

Exceeds(stat) == \E i \in DOMAIN peers \ Down :
  \/ CheckWarnCritical(MaxOffset, Abs(peers[i].offset)) >= stat
  \/ CheckWarnCritical(MaxJitter, Abs(peers[i].jitter)) >= stat

\* "Max offset in milliseconds before warning/critical": when all peers are up,
\* the status is what the worst offset or jitter calls for.
MeasuresAreGraded == Judging /\ Selected # {} /\ Down = {} =>
  /\ exit >= WARNING <=> Exceeds(WARNING)
  /\ exit >= CRITICAL <=> Exceeds(CRITICAL)

=============================================================================
