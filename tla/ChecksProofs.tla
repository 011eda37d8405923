----------------------------- MODULE ChecksProofs -----------------------------
(***************************************************************************)
(* Proofs about the checks: what a verdict or an exit status says is so,   *)
(* whatever the network, the tools and the services answer, in any number  *)
(* of servers, peers, scopes, zones and messages.                          *)
(*                                                                         *)
(* There is one inductive invariant per program, with the lemmas that its  *)
(* start and its steps keep it; Inv at the end is that of the program that *)
(* runs.  Those of checkZone and of the generators are proved in           *)
(* CheckZoneProofs and IcingaConfProofs.                                   *)
(***************************************************************************)
EXTENDS Checks, FiniteSetTheorems, TLAPS

-----------------------------------------------------------------------------
(***************************************************************************)
(* checkZone: CheckZoneProofs speaks of the same definitions as Zone under *)
(* names of its own.                                                       *)
(***************************************************************************)

ZoneP == INSTANCE CheckZoneProofs

LEMMA SameRemapping == Remappings \subseteq ZoneP!Remapping
BY RemappingAssumption DEF Remapping, ZoneP!Remapping, Status, ZoneP!Status, OK, ZoneP!OK,
                           UNKNOWN, ZoneP!UNKNOWN

LEMMA ZoneInitInv == Zone!CheckInit => ZoneP!CheckInv
<1>1. Zone!CheckInit => ZoneP!CheckInit
  BY DEF Zone!CheckInit, ZoneP!CheckInit, Zone!Empty, ZoneP!Empty, Zone!NoVerdict,
         ZoneP!NoVerdict, Zone!OK, ZoneP!OK, Zone!QueryError, ZoneP!QueryError
<1> QED
  BY <1>1, ZoneP!CheckInitInv, ZoneAssumption, SameRemapping

\* Marking the servers of an answer.
LEMMA SameMark ==
  ASSUME NEW asked, NEW wrong, Zone!Mark(asked, wrong)
  PROVE  ZoneP!Mark(asked, wrong)
BY DEF Zone!Mark, ZoneP!Mark, Zone!WrongAt, ZoneP!WrongAt, Zone!Known, ZoneP!Known,
       Zone!LastWrong, ZoneP!LastWrong

LEMMA SameAsk == Zone!Ask => ZoneP!Ask
<1> SUFFICES ASSUME Zone!Ask PROVE ZoneP!Ask
  OBVIOUS
<1>1. CASE \E serial \in Zone!Serials : Zone!SoaAnswer(serial)
  BY <1>1 DEF Zone!Serials, ZoneP!Serials, Zone!SoaAnswer, ZoneP!SoaAnswer, ZoneP!Ask
<1>2. CASE \E names \in SUBSET Servers : Zone!NsAnswer(names)
  BY <1>2 DEF Zone!NsAnswer, ZoneP!NsAnswer, ZoneP!Ask
<1>3. CASE Zone!LookupFails \/ Zone!ApiFails
  BY <1>3 DEF Zone!LookupFails, ZoneP!LookupFails, Zone!ApiFails, ZoneP!ApiFails, ZoneP!Ask
<1>4. CASE \E serialOf \in Zone!ServerAnswers : Zone!ApiAnswer(serialOf)
  <2>1. PICK serialOf \in Zone!ServerAnswers : Zone!ApiAnswer(serialOf)
    BY <1>4
  <2>2. ZoneP!ApiAnswer(serialOf)
    BY <2>1, SameMark DEF Zone!ApiAnswer, ZoneP!ApiAnswer
  <2>3. serialOf \in ZoneP!ServerAnswers
    BY DEF Zone!ServerAnswers, ZoneP!ServerAnswers, Zone!Serials, ZoneP!Serials
  <2> QED
    BY <2>2, <2>3 DEF ZoneP!Ask
<1>5. CASE \E s \in Servers : \E serial \in Zone!Serials \cup {Zone!QueryError} : Zone!Query(s, serial)
  <2>1. PICK s \in Servers : \E serial \in Zone!Serials \cup {Zone!QueryError} : Zone!Query(s, serial)
    BY <1>5
  <2>2. PICK serial \in Zone!Serials \cup {Zone!QueryError} : Zone!Query(s, serial)
    BY <2>1
  <2>3. ZoneP!Query(s, serial)
    BY <2>2, SameMark DEF Zone!Query, ZoneP!Query
  <2>4. serial \in ZoneP!Serials \cup {ZoneP!QueryError}
    BY DEF Zone!Serials, ZoneP!Serials, Zone!QueryError, ZoneP!QueryError
  <2> QED
    BY <2>3, <2>4 DEF ZoneP!Ask
<1> QED
  BY <1>1, <1>2, <1>3, <1>4, <1>5 DEF Zone!Ask

LEMMA SameProceed == Zone!Proceed => ZoneP!Proceed
BY DEF Zone!Proceed, ZoneP!Proceed, Zone!StartQueries, ZoneP!StartQueries, Zone!EndQueries,
       ZoneP!EndQueries, Zone!AllRight, ZoneP!AllRight, Zone!SleepAndRetry, ZoneP!SleepAndRetry,
       Zone!Report, ZoneP!Report, Zone!wrongSerial, ZoneP!wrongSerial, Zone!Empty, ZoneP!Empty,
       Zone!Period, ZoneP!Period, Zone!OK, ZoneP!OK

LEMMA ZoneNextInv ==
  ASSUME ZoneP!CheckInv, Zone!CheckNext \/ UNCHANGED Zone!checkVars
  PROVE  ZoneP!CheckInv'
<1>1. ZoneP!CheckNext \/ UNCHANGED ZoneP!checkVars
  BY SameAsk, SameProceed DEF Zone!CheckNext, ZoneP!CheckNext, Zone!checkVars, ZoneP!checkVars
<1> QED
  BY <1>1, ZoneP!CheckNextInv, ZoneAssumption, SameRemapping

LEMMA ZoneInvTypes == ZoneP!CheckInv => Zone!CheckTypeOK /\ Zone!SitesFollowOutput
BY DEF ZoneP!CheckInv, ZoneP!CheckTypeOK, Zone!CheckTypeOK, ZoneP!SitesFollowOutput,
       Zone!SitesFollowOutput, ZoneP!PartialMap, Zone!PartialMap, ZoneP!Serials, Zone!Serials,
       ZoneP!QueryError, Zone!QueryError, ZoneP!Status, Zone!Status, ZoneP!OK, Zone!OK,
       ZoneP!UNKNOWN, Zone!UNKNOWN

LEMMA ZoneInvSound == ZoneP!CheckInv => Zone!VerdictSound
BY ZoneP!InvImpliesSound, ZoneAssumption, SameRemapping
   DEF ZoneP!VerdictSound, Zone!VerdictSound, ZoneP!OK, Zone!OK

LEMMA ZoneInvMeasure == ZoneP!CheckInv => Zone!ResponseTimesMeasure
BY ZoneP!InvImpliesMeasure, ZoneAssumption, SameRemapping
   DEF ZoneP!ResponseTimesMeasure, Zone!ResponseTimesMeasure, ZoneP!Elapsed, Zone!Elapsed,
       ZoneP!Period, Zone!Period, ZoneP!Empty, Zone!Empty

-----------------------------------------------------------------------------
(***************************************************************************)
(* check_ntp_peers: the counters of the loop, for lists of any length.     *)
(***************************************************************************)

\* The peers that are counted are those before at that are up.
CountedPeers == (1 .. at - 1) \ Ntp!Down

\* Before the loop nothing has been counted or selected.
NotBegun == pc \in {"list", "stats"} =>
  /\ at = 1 /\ selected = 0 /\ up = 0
  /\ pc = "list" => peers = <<>>

\* None of the peers before at is selected when there is no selectedPeer.
NoneSelected == selected = 0 => Ntp!Selected \cap 1 .. at - 1 = {}

\* An exit after the loop is the one that the counters call for.
ExitIsFinal == Ntp!Judging => exit = Ntp!FinalStatus

NtpInv ==
  /\ peers \in Seq(Peer)
  /\ Ntp!TypeOK /\ NotBegun /\ NoneSelected /\ ExitIsFinal
  /\ status = Ntp!UNKNOWN

-----------------------------------------------------------------------------
\* NtpPeers' FiniteSets are the same.
LEMMA SameCardinality == ASSUME NEW S PROVE Ntp!Cardinality(S) = Cardinality(S)
BY DEF Cardinality, Ntp!Cardinality

\* A check starts out as UNKNOWN, and nothing is worse.
LEMMA JudgedIs ==
  ASSUME NEW range, NEW value
  PROVE  Ntp!Judged(Ntp!UNKNOWN, Ntp!CheckWarnCritical(range, value)) = Ntp!UNKNOWN
BY DEF Ntp!Judged, Ntp!CheckWarnCritical, Ntp!SetStatus, Ntp!OK, Ntp!WARNING, Ntp!CRITICAL, Ntp!UNKNOWN

LEMMA FinalIs == ASSUME Ntp!TypeOK, peers \in Seq(Peer) PROVE Ntp!FinalStatus \in Ntp!Status
BY DEF Ntp!TypeOK, Ntp!FinalStatus, Ntp!ExitStatus, Ntp!Status, Ntp!OK, Ntp!WARNING, Ntp!CRITICAL, Ntp!UNKNOWN

\* Sets of peers up to a place in the list are finite.
LEMMA UpToIsFinite == ASSUME NEW n \in Nat, NEW S PROVE IsFiniteSet((1 .. n) \ S)
<1>1. IsFiniteSet(1 .. n)
  BY FS_Interval
<1> QED
  BY <1>1, FS_Subset

-----------------------------------------------------------------------------
LEMMA NtpInitInv == Ntp!Init => NtpInv
<1> SUFFICES ASSUME Ntp!Init PROVE NtpInv
  OBVIOUS
<1>1. peers = <<>> /\ at = 1 /\ selected = 0 /\ up = 0 /\ pc = "list" /\ exit = Ntp!Running
  BY DEF Ntp!Init
<1>2. CountedPeers = {} /\ Cardinality({}) = 0 /\ Len(peers) = 0
  BY <1>1, FS_EmptySet DEF CountedPeers
<1>3. status = Ntp!UNKNOWN /\ status \in Ntp!Status
  BY DEF Ntp!Init, Ntp!NewResult, Ntp!Status, Ntp!OK, Ntp!UNKNOWN
<1> QED
  BY <1>1, <1>2, <1>3, SameCardinality DEF NtpInv, Ntp!TypeOK, CountedPeers, NotBegun, NoneSelected, ExitIsFinal, Ntp!Judging

\* What comes before the loop.
LEMMA NtpBeforeInv ==
  ASSUME NtpInv, Ntp!List \/ Ntp!Stats \/ Ntp!ToolFails
  PROVE  NtpInv'
<1>1. /\ at = 1 /\ selected = 0 /\ up = 0 /\ peers \in Seq(Peer)
      /\ UNCHANGED <<at, status, selected, up>>
  BY DEF NtpInv, NotBegun, Ntp!List, Ntp!Stats, Ntp!ToolFails, Ntp!ExitWith
<1>2. peers' \in Seq(Peer)
  <2>1. CASE Ntp!List
    BY <2>1, PeersAssumption DEF Ntp!List
  <2>2. CASE Ntp!Stats
    <3>1. PICK named \in SUBSET DOMAIN peers : \E jitter \in [named -> Jitters] :
            peers' = [i \in DOMAIN peers |->
                        IF i \in named THEN [peers[i] EXCEPT !.jitter = jitter[i]] ELSE peers[i]]
      BY <2>2 DEF Ntp!Stats
    <3>4. PICK jitter \in [named -> Jitters] :
            peers' = [i \in DOMAIN peers |->
                        IF i \in named THEN [peers[i] EXCEPT !.jitter = jitter[i]] ELSE peers[i]]
      BY <3>1
    <3>2. \A i \in 1 .. Len(peers) : peers'[i] \in Peer
      <4>1. \A i \in 1 .. Len(peers) : peers[i] \in Peer
        BY <1>1
      <4>2. ASSUME NEW p \in Peer, NEW j \in Jitters PROVE [p EXCEPT !.jitter = j] \in Peer
        BY PeersAssumption DEF Peer
      <4>3. \A i \in named : jitter[i] \in Jitters
        OBVIOUS
      <4> QED
        BY <1>1, <3>4, <4>1, <4>2, <4>3
    <3>3. peers' = [i \in 1 .. Len(peers) |-> peers'[i]] /\ Len(peers) \in Nat
      BY <1>1, <3>4
    <3> QED
      BY <3>2, <3>3
  <2>3. CASE Ntp!ToolFails
    BY <1>1, <2>3 DEF Ntp!ToolFails
  <2> QED
    BY <2>1, <2>2, <2>3
<1>3. CountedPeers' = {} /\ Cardinality({}) = 0 /\ Len(peers') \in Nat
  BY <1>1, <1>2, FS_EmptySet DEF CountedPeers
<1>4. /\ pc' \in {"list", "stats", "judge", "exited"}
      /\ pc' = "exited" => peers' = <<>> \/ at <= Len(peers')
      /\ pc' # "list"
      /\ exit' \in Ntp!Status \cup {Ntp!Running}
  <2>1. CASE Ntp!List \/ Ntp!Stats
    BY <2>1 DEF Ntp!List, Ntp!Stats, NtpInv, Ntp!TypeOK
  <2>2. CASE Ntp!ToolFails
    BY <1>1, <2>2 DEF Ntp!ToolFails, Ntp!ExitWith, Ntp!Status, Ntp!OK, Ntp!UNKNOWN
  <2> QED
    BY <2>1, <2>2
<1>5. Ntp!TypeOK'
  BY <1>1, <1>3, <1>4 DEF NtpInv, Ntp!TypeOK, CountedPeers
<1> QED
  BY <1>1, <1>2, <1>4, <1>5 DEF NtpInv, NotBegun, NoneSelected, ExitIsFinal, Ntp!Judging

LEMMA NtpJudgeInv == ASSUME NtpInv, Ntp!Judge PROVE NtpInv'
<1>1. /\ pc = "judge" /\ at \in 1 .. Len(peers) /\ at' = at + 1 /\ Len(peers) \in Nat
      /\ UNCHANGED <<pc, source, check, peers, exit>>
      /\ selected' = IF peers[at].selected THEN at ELSE selected
      /\ up' = IF peers[at].down THEN up ELSE up + 1
      /\ peers \in Seq(Peer)
  BY DEF Ntp!Judge, NtpInv
<1>2. status' = Ntp!UNKNOWN
  <2>1. CASE peers[at].down
    BY <2>1 DEF Ntp!Judge, NtpInv, Ntp!TypeOK
  <2>2. CASE ~peers[at].down
    BY <2>2, JudgedIs DEF Ntp!Judge, NtpInv, Ntp!TypeOK
  <2> QED
    BY <2>1, <2>2
<1>3. up' = Cardinality(CountedPeers')
  <2>1. up = Cardinality(CountedPeers) /\ IsFiniteSet(CountedPeers) /\ at \notin CountedPeers
    <3>1. at - 1 \in Nat /\ at \notin CountedPeers
      BY <1>1 DEF CountedPeers
    <3>2. IsFiniteSet(CountedPeers)
      BY <3>1, UpToIsFinite DEF CountedPeers
    <3> QED
      BY <3>1, <3>2, SameCardinality DEF NtpInv, Ntp!TypeOK, CountedPeers
  <2>2. CountedPeers' = IF peers[at].down THEN CountedPeers ELSE CountedPeers \cup {at}
    BY <1>1 DEF CountedPeers, Ntp!Down
  <2> QED
    BY <1>1, <2>1, <2>2, FS_AddElement
<1>4. selected' \in Ntp!Selected' \cup {0} /\ NoneSelected'
  BY <1>1 DEF NtpInv, Ntp!TypeOK, Ntp!Selected, NoneSelected
<1>5. Ntp!TypeOK'
  BY <1>1, <1>2, <1>3, <1>4, SameCardinality DEF NtpInv, Ntp!TypeOK, CountedPeers
<1> QED
  BY <1>1, <1>2, <1>4, <1>5 DEF NtpInv, NotBegun, ExitIsFinal, Ntp!Judging

LEMMA NtpExitInv == ASSUME NtpInv, Ntp!Exit PROVE NtpInv'
<1>1. /\ pc' = "exited" /\ exit' = Ntp!FinalStatus
      /\ UNCHANGED <<source, check, peers, at, status, selected, up>>
  BY DEF Ntp!Exit, Ntp!ExitWith
<1>2. Ntp!FinalStatus \in Ntp!Status /\ Ntp!FinalStatus' = Ntp!FinalStatus
  BY <1>1, FinalIs DEF NtpInv, Ntp!FinalStatus
<1>3. Ntp!TypeOK'
  BY <1>1, <1>2 DEF NtpInv, Ntp!TypeOK, Ntp!Down, Ntp!Selected
<1> QED
  BY <1>1, <1>2, <1>3 DEF NtpInv, NotBegun, NoneSelected, ExitIsFinal, Ntp!Selected

LEMMA NtpNextInv == ASSUME NtpInv, Ntp!Next \/ UNCHANGED Ntp!vars PROVE NtpInv'
<1>1. CASE UNCHANGED Ntp!vars
  BY <1>1 DEF Ntp!vars, NtpInv, Ntp!TypeOK, Ntp!Down, Ntp!Selected, NotBegun, NoneSelected, ExitIsFinal, Ntp!Judging,
              Ntp!FinalStatus
<1> QED
  BY <1>1, NtpBeforeInv, NtpJudgeInv, NtpExitInv DEF Ntp!Next

-----------------------------------------------------------------------------
\* What the counters say of the peers once all have been judged.
LEMMA CountersTell ==
  ASSUME NtpInv, Ntp!Judging
  PROVE  /\ exit = Ntp!FinalStatus /\ Len(peers) \in Nat
         /\ selected = 0 <=> Ntp!Selected = {}
         /\ up \in 0 .. Len(peers)
         /\ up = 0 <=> Ntp!Down = DOMAIN peers
         /\ up = Len(peers) <=> Ntp!Down = {}
<1>1. /\ exit = Ntp!FinalStatus /\ Len(peers) \in Nat /\ at = Len(peers) + 1
      /\ DOMAIN peers = 1 .. Len(peers)
  BY DEF NtpInv, ExitIsFinal, Ntp!TypeOK, Ntp!Judging
<1>2. Ntp!Down \subseteq DOMAIN peers /\ Ntp!Selected \subseteq DOMAIN peers
  BY DEF Ntp!Down, Ntp!Selected
<1>3. selected = 0 <=> Ntp!Selected = {}
  BY <1>1, <1>2 DEF NtpInv, NoneSelected, Ntp!TypeOK, Ntp!Selected
<1>4. /\ up = Cardinality(DOMAIN peers \ Ntp!Down) /\ IsFiniteSet(DOMAIN peers \ Ntp!Down)
      /\ IsFiniteSet(DOMAIN peers) /\ Cardinality(DOMAIN peers) = Len(peers)
  <2>1. at - 1 = Len(peers)
    BY <1>1
  <2>2. up = Cardinality(DOMAIN peers \ Ntp!Down)
    BY <1>1, <2>1, SameCardinality DEF NtpInv, Ntp!TypeOK
  <2>3. IsFiniteSet(DOMAIN peers \ Ntp!Down)
    BY <1>1, UpToIsFinite
  <2>4. IsFiniteSet(1 .. Len(peers)) /\ Cardinality(1 .. Len(peers)) = Len(peers)
    <3>1. 1 \in Int /\ Len(peers) \in Int
      BY <1>1
    <3>2. /\ IsFiniteSet(1 .. Len(peers))
          /\ Cardinality(1 .. Len(peers)) = IF 1 > Len(peers) THEN 0 ELSE Len(peers) - 1 + 1
      BY <3>1, FS_Interval
    <3> QED
      BY <1>1, <3>2
  <2> QED
    BY <1>1, <2>2, <2>3, <2>4
<1>5. /\ up \in 0 .. Len(peers)
      /\ up = 0 <=> Ntp!Down = DOMAIN peers
      /\ up = Len(peers) <=> Ntp!Down = {}
  <2>1. up \in Nat /\ up <= Len(peers)
    BY <1>1, <1>4, FS_CardinalityType, FS_Subset
  <2>2. up = 0 <=> DOMAIN peers \ Ntp!Down = {}
    BY <1>4, FS_EmptySet
  <2>3. up = Len(peers) => DOMAIN peers \ Ntp!Down = DOMAIN peers
    BY <1>4, FS_Subset
  <2>4. Ntp!Down = {} => DOMAIN peers \ Ntp!Down = DOMAIN peers
    OBVIOUS
  <2>5. Ntp!Down = {} => up = Len(peers)
    BY <1>4, <2>4
  <2>6. DOMAIN peers \ Ntp!Down = {} <=> Ntp!Down = DOMAIN peers
    BY <1>2
  <2>7. DOMAIN peers \ Ntp!Down = DOMAIN peers => Ntp!Down = {}
    BY <1>2
  <2>8. up \in 0 .. Len(peers)
    BY <1>1, <2>1
  <2>9. up = 0 <=> Ntp!Down = DOMAIN peers
    BY ONLY <2>2, <2>6, Zenon
  <2>10. up = Len(peers) <=> Ntp!Down = {}
    BY ONLY <2>3, <2>5, <2>7, Zenon
  <2> QED
    BY <2>8, <2>9, <2>10
<1> QED
  BY <1>1, <1>3, <1>5

LEMMA NtpInvTells == NtpInv => Ntp!ExitTellsReachability
<1> SUFFICES ASSUME NtpInv, Ntp!Judging PROVE Ntp!ExitTellsReachability
  BY DEF Ntp!ExitTellsReachability
<1>1. CASE Ntp!Selected = {} \/ Ntp!Down = DOMAIN peers
  BY <1>1, CountersTell
     DEF Ntp!ExitTellsReachability, Ntp!FinalStatus, Ntp!ExitStatus, Ntp!CRITICAL
<1>2. CASE Ntp!Selected # {} /\ Ntp!Down # {} /\ Ntp!Down # DOMAIN peers
  BY <1>2, CountersTell
     DEF Ntp!ExitTellsReachability, Ntp!FinalStatus, Ntp!ExitStatus, Ntp!WARNING
<1>3. CASE Ntp!Selected # {} /\ Ntp!Down = {} /\ Ntp!Down # DOMAIN peers
  BY <1>3 DEF Ntp!ExitTellsReachability
<1> QED
  BY <1>1, <1>2, <1>3

\* With all peers up and one selected the exit is the status that was set.
MeasuresDoNotShow ==
  Ntp!Judging /\ Ntp!Selected # {} /\ Ntp!Down = {} => exit = Ntp!UNKNOWN

LEMMA NtpInvHides == NtpInv => MeasuresDoNotShow
<1> SUFFICES ASSUME NtpInv, Ntp!Judging, Ntp!Selected # {}, Ntp!Down = {}
             PROVE  exit = Ntp!UNKNOWN
  BY DEF MeasuresDoNotShow
<1>1. up = Len(peers) /\ selected # 0 /\ Len(peers) \in Nat /\ Len(peers) > 0
  BY CountersTell DEF Ntp!Judging, NtpInv
<1> QED
  BY <1>1, CountersTell DEF Ntp!FinalStatus, Ntp!ExitStatus, NtpInv

(***************************************************************************)
(* check_becs_dhcp_scope: the results are those of the wanted scopes up to *)
(* where the loop is, and overall is the worst of them.                    *)
(***************************************************************************)

\* What a fetch yields.
Fetched == [name : STRING, free : {Becs!Free(p) : p \in Answers}, total : {Becs!Total(p) : p \in Answers}]
Sendable == [name : STRING, code : Becs!Status]

\* How many of the names asked for the first loop is past.
Past == Len(Becs!Asked) - Len(todo)

FetchedUpTo(n) ==
  \E place \in [DOMAIN results -> {w \in Becs!Wanted : w <= n}] :
    /\ \A i, j \in DOMAIN results : i < j => place[i] < place[j]
    /\ \A i \in DOMAIN results : results[i].name = Becs!Asked[place[i]]
    /\ \A w \in {v \in Becs!Wanted : v <= n} : \E i \in DOMAIN results : place[i] = w

\* The first loop, and what comes before it.
Fetching == pc \in {"client", "scopes"} =>
  /\ todo \in Seq(STRING) /\ Len(todo) <= Len(Becs!Asked)
  /\ \A i \in 1 .. Len(todo) : todo[i] = Becs!Asked[Past + i]
  /\ FetchedUpTo(Past)
  /\ installed = "unchanged" /\ sent = <<>>
  /\ pc = "client" => results = <<>>

\* The second loop, and what comes between the two and after.
Sending ==
  /\ pc \in {"config", "send", "exit"} => Becs!AllFetched
  /\ pc \in {"config", "send"} => todo \in Seq({results[j] : j \in DOMAIN results})
  /\ pc = "config" => todo = results
  /\ pc = "exit" => todo = <<>>

WorstIsKept ==
  /\ overall \in Becs!Codes(check.WARNING, check.CRITICAL) \cup {Becs!OK}
  /\ \A code \in Becs!Codes(check.WARNING, check.CRITICAL) : code <= overall

SentAreGraded == \A i \in DOMAIN sent : \E j \in DOMAIN results :
  /\ results[j].name = sent[i].name
  /\ sent[i].code = Becs!Grade(results[j].free, Becs!WARNING, Becs!CRITICAL)

\* Until Send panics there is a session at BECS exactly if the client has one.
OneSession == pc # "exited" \/ exit # Becs!Panic =>
  /\ sessionID = "none" => opened = 0 /\ results = <<>>
  /\ sessionID # "none" => opened = 1

BecsInv ==
  /\ Becs!TypeOK
  /\ results \in Seq(Fetched) /\ sent \in Seq(Sendable)
  /\ Fetching /\ Sending /\ WorstIsKept /\ SentAreGraded /\ OneSession
  /\ Becs!Finished => exit = overall
  /\ Becs!AllOrNothing

-----------------------------------------------------------------------------
LEMMA AskedIs == ASSUME scopeOpts \in ScopeOpts PROVE Becs!Asked \in Seq(STRING)
BY ScopesAssumption DEF Becs!Asked

LEMMA GradeIs ==
  ASSUME NEW f, check \in Remapping
  PROVE  /\ Becs!Grade(f, check.WARNING, check.CRITICAL) \in Becs!Status
         /\ Becs!Grade(f, Becs!WARNING, Becs!CRITICAL) \in Becs!Status
BY DEF Becs!Grade, Remapping, Status, Becs!Status, OK, UNKNOWN, Becs!OK, Becs!UNKNOWN,
       Becs!WARNING, Becs!CRITICAL

\* As long as results and command line stay as they are, so does what is said of them.
LEMMA ResultsStay ==
  ASSUME UNCHANGED <<check, scopeOpts, results>>
  PROVE  /\ Becs!Asked' = Becs!Asked
         /\ Becs!AllFetched' <=> Becs!AllFetched
         /\ \A n : FetchedUpTo(n)' <=> FetchedUpTo(n)
         /\ Becs!Codes(check.WARNING, check.CRITICAL)' = Becs!Codes(check.WARNING, check.CRITICAL)
<1>1. Becs!Asked' = Becs!Asked
  BY DEF Becs!Asked
<1>2. Becs!Wanted' = Becs!Wanted
  BY <1>1 DEF Becs!Wanted
<1>3. Becs!AllFetched' <=> Becs!AllFetched
  BY <1>1, <1>2 DEF Becs!AllFetched
<1>4. ASSUME NEW n PROVE FetchedUpTo(n)' <=> FetchedUpTo(n)
  BY <1>1, <1>2 DEF FetchedUpTo
<1>5. Becs!Codes(check.WARNING, check.CRITICAL)' = Becs!Codes(check.WARNING, check.CRITICAL)
  BY DEF Becs!Codes
<1> QED
  BY <1>1, <1>3, <1>4, <1>5

\* The next name is the one behind those the loop is past, and so are the rest.
LEMMA NextName ==
  ASSUME BecsInv, pc = "scopes", todo # <<>>, todo' = Tail(todo), UNCHANGED scopeOpts
  PROVE  /\ Past \in Nat /\ Past + 1 \in DOMAIN Becs!Asked
         /\ Becs!Name = Becs!Asked[Past + 1] /\ Becs!Name \in STRING
         /\ Past' = Past + 1
         /\ todo' \in Seq(STRING) /\ Len(todo') <= Len(Becs!Asked)
         /\ \A i \in 1 .. Len(todo') : todo'[i] = Becs!Asked[Past' + i]
<1>1. Becs!Asked \in Seq(STRING) /\ Becs!Asked' = Becs!Asked
  BY AskedIs DEF BecsInv, Becs!TypeOK, Becs!Asked
<1>2. /\ todo \in Seq(STRING) /\ Len(todo) <= Len(Becs!Asked)
      /\ \A i \in 1 .. Len(todo) : todo[i] = Becs!Asked[Past + i]
  BY DEF BecsInv, Fetching
<1>3. /\ Len(todo) \in Nat /\ Len(todo) > 0 /\ Len(Becs!Asked) \in Nat
      /\ DOMAIN Becs!Asked = 1 .. Len(Becs!Asked)
      /\ todo' \in Seq(STRING) /\ Len(todo') = Len(todo) - 1
      /\ Becs!Name = todo[1] /\ todo[1] \in STRING
      /\ \A i \in 1 .. Len(todo) - 1 : todo'[i] = todo[i + 1]
  BY <1>1, <1>2 DEF Becs!Name
<1>4. Past \in Nat /\ Past' = Past + 1 /\ Past + 1 \in DOMAIN Becs!Asked
  BY <1>1, <1>2, <1>3 DEF Past
<1>5. todo[1] = Becs!Asked[Past + 1]
  BY <1>2, <1>3
<1>6. ASSUME NEW i \in 1 .. Len(todo') PROVE todo'[i] = Becs!Asked[Past' + i]
  <2>1. i + 1 \in 1 .. Len(todo) /\ todo'[i] = todo[i + 1]
    BY <1>3
  <2>2. todo[i + 1] = Becs!Asked[Past + (i + 1)]
    BY <1>2, <2>1
  <2> QED
    BY <1>3, <1>4, <2>1, <2>2
<1> QED
  BY <1>2, <1>3, <1>4, <1>5, <1>6

-----------------------------------------------------------------------------
LEMMA BecsInitInv == Becs!Init => BecsInv
<1> SUFFICES ASSUME Becs!Init PROVE BecsInv
  OBVIOUS
<1>1. /\ check \in Remappings /\ scopeOpts \in ScopeOpts
      /\ pc = "client" /\ todo = Becs!Asked
      /\ sessionID = "none" /\ opened = 0 /\ results = <<>> /\ overall = Becs!OK
      /\ installed = "unchanged" /\ sent = <<>> /\ exit = Becs!Running
  BY DEF Becs!Init, Becs!Asked
<1>2. Becs!TypeOK
  BY <1>1 DEF Becs!TypeOK, Becs!Status, Becs!OK, Becs!UNKNOWN, Becs!Running
<1>3. todo \in Seq(STRING) /\ Past = 0 /\ DOMAIN results = {}
  BY <1>1, AskedIs DEF Past
<1>4. {w \in Becs!Wanted : w <= 0} = {}
  BY <1>1, <1>3 DEF Becs!Wanted
<1>5. FetchedUpTo(0)
  <2>1. [i \in DOMAIN results |-> 0] \in [DOMAIN results -> {w \in Becs!Wanted : w <= 0}]
    BY <1>3
  <2> QED
    BY <1>3, <1>4, <2>1 DEF FetchedUpTo
<1>6. Fetching
  BY <1>1, <1>3, <1>5 DEF Fetching
<1>7. Becs!Codes(check.WARNING, check.CRITICAL) = {}
  BY <1>3 DEF Becs!Codes
<1> QED
  BY <1>1, <1>2, <1>3, <1>6, <1>7
     DEF BecsInv, Sending, WorstIsKept, SentAreGraded, OneSession, Becs!Finished, Becs!AllOrNothing

\* No client, or a call that fails: the check exits and nothing has been done.
LEMMA BecsFailsInv ==
  ASSUME BecsInv, Becs!NewClient \/ Becs!Unknown \/ Becs!CallFails
  PROVE  BecsInv'
<1>1. /\ pc \in {"client", "scopes"}
      /\ pc = "scopes" => todo # <<>>
      /\ UNCHANGED <<check, scopeOpts, todo, sessionID, opened, results, overall, installed, sent>>
      /\ \/ pc = "client" /\ pc' = "scopes" /\ exit' = exit
         \/ pc' = "exited" /\ exit' = check.UNKNOWN
  BY DEF Becs!NewClient, Becs!Unknown, Becs!CallFails, Becs!Fetchable, Becs!AtScope, Becs!ExitWith,
         Becs!becsVars
<1>2. check.UNKNOWN \in Becs!Status
  BY RemappingAssumption DEF BecsInv, Becs!TypeOK, Remapping, Status, Becs!Status, OK, UNKNOWN,
                             Becs!OK, Becs!UNKNOWN
<1>3. Becs!TypeOK'
  BY <1>1, <1>2 DEF BecsInv, Becs!TypeOK, OneSession
<1>4. Past' = Past
  BY <1>1, ResultsStay DEF Past
<1>5. Fetching'
  BY <1>1, <1>4, ResultsStay DEF BecsInv, Fetching
<1>6. Becs!AllOrNothing' /\ (Becs!Finished' => FALSE)
  BY <1>1 DEF BecsInv, Fetching, Becs!AllOrNothing, Becs!Finished
<1>7. Sending' /\ WorstIsKept' /\ SentAreGraded' /\ OneSession'
  BY <1>1, ResultsStay DEF BecsInv, Sending, WorstIsKept, SentAreGraded, OneSession, Becs!Grade
<1> QED
  BY <1>1, <1>3, <1>5, <1>6, <1>7 DEF BecsInv

LEMMA BecsLoginInv == ASSUME BecsInv, Becs!Login PROVE BecsInv'
<1>1. /\ pc = "scopes" /\ sessionID = "none" /\ sessionID' = "session" /\ opened' = opened + 1
      /\ UNCHANGED <<pc, check, exit, scopeOpts, todo, results, overall, installed, sent>>
  BY DEF Becs!Login, Becs!Fetchable, Becs!AtScope
<1>2. opened' = 1
  BY <1>1 DEF BecsInv, OneSession
<1>3. Becs!TypeOK' /\ OneSession'
  BY <1>1, <1>2 DEF BecsInv, Becs!TypeOK, OneSession
<1>4. Fetching'
  BY <1>1, ResultsStay DEF BecsInv, Fetching, Past
<1>5. Becs!AllOrNothing'
  BY <1>1 DEF BecsInv, Fetching, Becs!AllOrNothing
<1>6. Sending' /\ WorstIsKept' /\ SentAreGraded'
  BY <1>1, ResultsStay DEF BecsInv, Sending, WorstIsKept, SentAreGraded, Becs!Grade
<1> QED
  BY <1>1, <1>3, <1>4, <1>5, <1>6 DEF BecsInv, Becs!Finished

\* A name that is excluded is not wanted.
LEMMA BecsExcludeInv == ASSUME BecsInv, Becs!Exclude PROVE BecsInv'
<1>1. /\ pc = "scopes" /\ todo # <<>> /\ Becs!Name \in scopeOpts.exclude /\ todo' = Tail(todo)
      /\ UNCHANGED <<pc, check, exit, scopeOpts, sessionID, opened, results, overall, installed, sent>>
  BY DEF Becs!Exclude, Becs!AtScope, Becs!Excluded
<1>2. /\ Past \in Nat /\ Becs!Name = Becs!Asked[Past + 1] /\ Past' = Past + 1
      /\ todo' \in Seq(STRING) /\ Len(todo') <= Len(Becs!Asked)
      /\ \A i \in 1 .. Len(todo') : todo'[i] = Becs!Asked[Past' + i]
  BY <1>1, NextName
<1>3. {w \in Becs!Wanted : w <= Past + 1} = {w \in Becs!Wanted : w <= Past}
  <2>1. DOMAIN Becs!Asked \subseteq Nat /\ Past + 1 \notin Becs!Wanted
    BY <1>1, <1>2, AskedIs DEF Becs!Wanted, BecsInv, Becs!TypeOK
  <2> QED
    BY <1>2, <2>1 DEF Becs!Wanted
<1>4. FetchedUpTo(Past + 1)
  BY <1>1, <1>3 DEF BecsInv, Fetching, FetchedUpTo
<1>5. Fetching'
  BY <1>1, <1>2, <1>4, ResultsStay DEF BecsInv, Fetching
<1>6. Becs!AllOrNothing'
  BY <1>1 DEF BecsInv, Fetching, Becs!AllOrNothing
<1>7. Sending' /\ WorstIsKept' /\ SentAreGraded' /\ OneSession'
  BY <1>1, ResultsStay DEF BecsInv, Sending, WorstIsKept, SentAreGraded, OneSession, Becs!Grade
<1> QED
  BY <1>1, <1>5, <1>6, <1>7 DEF BecsInv, Becs!TypeOK, Becs!Finished

LEMMA BecsFetchInv == ASSUME BecsInv, NEW prefixes \in Answers, Becs!Fetch(prefixes) PROVE BecsInv'
<1> DEFINE new == [name |-> Becs!Name, free |-> Becs!Free(prefixes), total |-> Becs!Total(prefixes)]
           grade == Becs!Grade(Becs!Free(prefixes), check.WARNING, check.CRITICAL)
<1>1. /\ pc = "scopes" /\ todo # <<>> /\ Becs!Name \notin scopeOpts.exclude /\ todo' = Tail(todo)
      /\ sessionID # "none" /\ results' = Append(results, new)
      /\ overall' = IF grade > overall THEN grade ELSE overall
      /\ UNCHANGED <<pc, check, exit, scopeOpts, sessionID, opened, installed, sent>>
  BY DEF Becs!Fetch, Becs!Fetchable, Becs!AtScope, Becs!Excluded
<1>2. /\ Past \in Nat /\ Past + 1 \in DOMAIN Becs!Asked
      /\ Becs!Name = Becs!Asked[Past + 1] /\ Becs!Name \in STRING /\ Past' = Past + 1
      /\ todo' \in Seq(STRING) /\ Len(todo') <= Len(Becs!Asked)
      /\ \A i \in 1 .. Len(todo') : todo'[i] = Becs!Asked[Past' + i]
  BY <1>1, NextName
<1>3. new \in Fetched /\ new.name = Becs!Name /\ new.free = Becs!Free(prefixes)
  BY <1>2 DEF Fetched
<1>4. grade \in Becs!Status /\ overall \in Becs!Status
  BY GradeIs, RemappingAssumption DEF BecsInv, Becs!TypeOK
<1> HIDE DEF new, grade
<1>5. /\ results' \in Seq(Fetched) /\ Len(results) \in Nat
      /\ DOMAIN results = 1 .. Len(results) /\ DOMAIN results' = 1 .. Len(results) + 1
      /\ \A i \in 1 .. Len(results) : results'[i] = results[i]
      /\ results'[Len(results) + 1] = new
  BY <1>1, <1>3 DEF BecsInv
<1>6. FetchedUpTo(Past)'
  <2>1. Becs!Asked' = Becs!Asked /\ Becs!Wanted' = Becs!Wanted /\ Past + 1 \in Becs!Wanted
    BY <1>1, <1>2 DEF Becs!Asked, Becs!Wanted
  <2>2. {w \in Becs!Wanted : w <= Past + 1} = {w \in Becs!Wanted : w <= Past} \cup {Past + 1}
    <3>1. \A w \in Becs!Wanted : w \in Nat
      BY AskedIs DEF Becs!Wanted, BecsInv, Becs!TypeOK
    <3> QED
      BY <1>2, <2>1, <3>1
  <2>3. PICK place \in [DOMAIN results -> {w \in Becs!Wanted : w <= Past}] :
          /\ \A i, j \in DOMAIN results : i < j => place[i] < place[j]
          /\ \A i \in DOMAIN results : results[i].name = Becs!Asked[place[i]]
          /\ \A w \in {v \in Becs!Wanted : v <= Past} : \E i \in DOMAIN results : place[i] = w
    BY <1>1 DEF BecsInv, Fetching, FetchedUpTo
  <2> DEFINE longer == [i \in DOMAIN results' |-> IF i = Len(results) + 1 THEN Past + 1 ELSE place[i]]
  <2>4. /\ longer[Len(results) + 1] = Past + 1
        /\ \A i \in DOMAIN results : i \in DOMAIN results' /\ longer[i] = place[i]
        /\ \A i \in DOMAIN results' : i \in DOMAIN results \/ i = Len(results) + 1
    BY <1>5
  <2>5. longer \in [DOMAIN results' -> {w \in Becs!Wanted : w <= Past + 1}]
    BY <2>2, <2>3, <2>4
  <2> HIDE DEF longer
  <2>6. \A i, j \in DOMAIN results' : i < j => longer[i] < longer[j]
    <3>1. \A i \in DOMAIN results : place[i] < Past + 1
      <4>1. \A w \in Becs!Wanted : w \in Nat
        BY AskedIs DEF Becs!Wanted, BecsInv, Becs!TypeOK
      <4> QED
        BY <1>2, <2>3, <4>1
    <3>2. TAKE i, j \in DOMAIN results'
    <3>3. HAVE i < j
    <3>4. i \in DOMAIN results
      BY <1>5, <3>3
    <3>5. CASE j \in DOMAIN results
      BY <2>3, <2>4, <3>3, <3>4, <3>5
    <3>6. CASE j = Len(results) + 1
      BY <2>4, <3>1, <3>4, <3>6
    <3> QED
      BY <2>4, <3>5, <3>6
  <2>7. \A i \in DOMAIN results' : results'[i].name = Becs!Asked[longer[i]]
    BY <1>2, <1>3, <1>5, <2>3, <2>4
  <2>8. \A w \in {v \in Becs!Wanted : v <= Past + 1} : \E i \in DOMAIN results' : longer[i] = w
    BY <1>5, <2>2, <2>3, <2>4
  <2> QED
    BY <1>2, <2>1, <2>5, <2>6, <2>7, <2>8 DEF FetchedUpTo
<1>7. Fetching'
  <2>1. Becs!Asked' = Becs!Asked
    BY <1>1 DEF Becs!Asked
  <2> QED
    BY <1>1, <1>2, <1>6, <2>1 DEF BecsInv, Fetching
<1>8. WorstIsKept'
  <2>1. Becs!Codes(check.WARNING, check.CRITICAL)'
          = Becs!Codes(check.WARNING, check.CRITICAL) \cup {grade}
    <3>1. \A i \in DOMAIN results : results'[i] = results[i] /\ i \in DOMAIN results'
      BY <1>5
    <3>2. results'[Len(results) + 1].free = Becs!Free(prefixes) /\ Len(results) + 1 \in DOMAIN results'
          /\ \A i \in DOMAIN results' : i \in DOMAIN results \/ i = Len(results) + 1
      BY <1>3, <1>5
    <3> QED
      BY <1>1, <3>1, <3>2 DEF Becs!Codes, Becs!Grade, grade
  <2>2. Becs!Codes(check.WARNING, check.CRITICAL) \subseteq Becs!Status
    BY GradeIs, RemappingAssumption DEF BecsInv, Becs!TypeOK, Becs!Codes
  <2>3. \A code \in Becs!Status : code \in Int
    BY DEF Becs!Status, Becs!OK, Becs!UNKNOWN
  <2> QED
    BY <1>1, <1>4, <2>1, <2>2, <2>3 DEF BecsInv, WorstIsKept
<1>9. Becs!TypeOK' /\ OneSession'
  BY <1>1, <1>4 DEF BecsInv, Becs!TypeOK, OneSession
<1>10. Becs!AllOrNothing' /\ SentAreGraded' /\ Sending'
  BY <1>1 DEF BecsInv, Fetching, Becs!AllOrNothing, SentAreGraded, Sending
<1> QED
  BY <1>1, <1>5, <1>7, <1>8, <1>9, <1>10 DEF BecsInv, Becs!Finished

-----------------------------------------------------------------------------
LEMMA BecsDoneInv == ASSUME BecsInv, Becs!ScopesDone PROVE BecsInv'
<1>1. /\ pc = "scopes" /\ todo = <<>> /\ pc' \in {"config", "send", "exit"}
      /\ pc' = "exit" <=> ~scopeOpts.icinga
      /\ todo' = IF scopeOpts.icinga THEN results ELSE <<>>
      /\ UNCHANGED <<check, exit, scopeOpts, sessionID, opened, results, overall, installed, sent>>
  BY DEF Becs!ScopesDone
<1>2. Becs!AllFetched
  <2>1. Past = Len(Becs!Asked)
    BY <1>1, AskedIs DEF Past, BecsInv, Becs!TypeOK
  <2>2. {w \in Becs!Wanted : w <= Past} = Becs!Wanted
    BY <2>1, AskedIs DEF Becs!Wanted, BecsInv, Becs!TypeOK
  <2> QED
    BY <1>1, <2>2 DEF BecsInv, Fetching, FetchedUpTo, Becs!AllFetched
<1>3. results \in Seq({results[j] : j \in DOMAIN results})
  BY DEF BecsInv
<1>4. Sending'
  BY <1>1, <1>2, <1>3, ResultsStay DEF Sending
<1>5. Becs!AllOrNothing' /\ WorstIsKept' /\ SentAreGraded' /\ OneSession' /\ Fetching'
  BY <1>1, ResultsStay DEF BecsInv, Fetching, Becs!AllOrNothing, WorstIsKept, SentAreGraded,
                           OneSession, Becs!Grade
<1> QED
  BY <1>1, <1>4, <1>5 DEF BecsInv, Becs!TypeOK, Becs!Finished

LEMMA BecsConfigInv == ASSUME BecsInv, Becs!WriteConfig PROVE BecsInv'
<1>1. /\ pc = "config" /\ installed' \in {"unchanged", "new", "torn"}
      /\ UNCHANGED <<check, scopeOpts, todo, sessionID, opened, results, overall, sent>>
      /\ \/ pc' = "send" /\ exit' = exit
         \/ pc' = "exited" /\ exit' = check.UNKNOWN
  BY DEF Becs!WriteConfig, Becs!ExitWith
<1>2. check.UNKNOWN \in Becs!Status
  BY RemappingAssumption DEF BecsInv, Becs!TypeOK, Remapping, Status, Becs!Status, OK, UNKNOWN,
                             Becs!OK, Becs!UNKNOWN
<1>3. Becs!AllFetched /\ todo = results
  BY <1>1 DEF BecsInv, Sending
<1>4. Becs!AllOrNothing' /\ Sending' /\ ~Becs!Finished'
  BY <1>1, <1>3, ResultsStay DEF BecsInv, Sending, Becs!AllOrNothing, Becs!Finished
<1>5. WorstIsKept' /\ SentAreGraded' /\ OneSession' /\ Fetching'
  BY <1>1, ResultsStay DEF BecsInv, Fetching, WorstIsKept, SentAreGraded, OneSession, Becs!Grade
<1>6. Becs!TypeOK'
  BY <1>1, <1>2 DEF BecsInv, Becs!TypeOK, OneSession
<1> QED
  BY <1>1, <1>4, <1>5, <1>6 DEF BecsInv

LEMMA BecsSendInv == ASSUME BecsInv, Becs!SendNothing \/ Becs!Send PROVE BecsInv'
<1>1. /\ pc = "send" /\ todo # <<>>
      /\ UNCHANGED <<check, scopeOpts, results, overall, installed>>
  BY DEF Becs!SendNothing, Becs!Send
<1>2. todo \in Seq({results[j] : j \in DOMAIN results}) /\ Becs!AllFetched
  BY <1>1 DEF BecsInv, Sending
<1>3. PICK j \in DOMAIN results : Head(todo) = results[j]
  BY <1>1, <1>2
<1>4. results[j].name \in STRING
  <2>1. results[j] \in Fetched
    BY DEF BecsInv
  <2> QED
    BY <2>1 DEF Fetched
<1> DEFINE new == [name |-> results[j].name,
                   code |-> Becs!Grade(results[j].free, Becs!WARNING, Becs!CRITICAL)]
<1>5. new \in Sendable
  BY <1>4, GradeIs, RemappingAssumption DEF Sendable, BecsInv, Becs!TypeOK
<1>6. /\ sent' = sent \/ sent' = Append(sent, new)
      /\ \/ /\ todo' = Tail(todo) /\ UNCHANGED <<pc, exit, sessionID, opened>>
         \/ /\ pc' = "exited" /\ exit' = Becs!Panic /\ sessionID' = "none" /\ todo' = todo
            /\ opened' \in {opened, opened - 1}
  BY <1>1, <1>3 DEF Becs!SendNothing, Becs!Send, Becs!ExitWith
<1>7. opened = 1 /\ sessionID # "none"
  <2>1. results # <<>> /\ pc # "exited"
    BY <1>1, <1>3
  <2> QED
    BY <2>1 DEF BecsInv, OneSession, Becs!TypeOK
<1> HIDE DEF new
<1>8. sent' \in Seq(Sendable) /\ SentAreGraded'
  <2>1. CASE sent' = sent
    BY <1>1, <2>1 DEF BecsInv, SentAreGraded, Becs!Grade
  <2>2. CASE sent' = Append(sent, new)
    <3>1. /\ sent' \in Seq(Sendable) /\ DOMAIN sent' = 1 .. Len(sent) + 1
          /\ DOMAIN sent = 1 .. Len(sent) /\ Len(sent) \in Nat
          /\ \A i \in 1 .. Len(sent) : sent'[i] = sent[i]
          /\ sent'[Len(sent) + 1] = new
      BY <1>5, <2>2 DEF BecsInv
    <3>2. ASSUME NEW i \in DOMAIN sent'
          PROVE  \E k \in DOMAIN results :
                   /\ results[k].name = sent'[i].name
                   /\ sent'[i].code = Becs!Grade(results[k].free, Becs!WARNING, Becs!CRITICAL)
      <4>1. CASE i \in DOMAIN sent
        BY <3>1, <4>1 DEF BecsInv, SentAreGraded
      <4>2. CASE i = Len(sent) + 1
        BY <3>1, <4>2 DEF new
      <4> QED
        BY <3>1, <4>1, <4>2
    <3> QED
      BY <1>1, <3>1, <3>2 DEF SentAreGraded, Becs!Grade
  <2> QED
    BY <1>6, <2>1, <2>2
<1>9. Sending'
  <2>1. Tail(todo) \in Seq({results[k] : k \in DOMAIN results})
    BY <1>1, <1>2
  <2> QED
    BY <1>1, <1>2, <1>6, <2>1, ResultsStay DEF Sending
<1>10. Becs!TypeOK' /\ OneSession'
  BY <1>1, <1>6, <1>7 DEF BecsInv, Becs!TypeOK, OneSession, Becs!Panic, Becs!Status, Becs!OK,
                          Becs!UNKNOWN
<1>11. WorstIsKept' /\ Fetching' /\ Becs!AllOrNothing' /\ ~Becs!Finished'
  BY <1>1, <1>2, <1>6, ResultsStay DEF BecsInv, WorstIsKept, Fetching, Becs!AllOrNothing, Becs!Finished
<1> QED
  BY <1>1, <1>8, <1>9, <1>10, <1>11 DEF BecsInv

LEMMA BecsExitInv == ASSUME BecsInv, Becs!Exit \/ UNCHANGED Becs!vars PROVE BecsInv'
<1>1. /\ UNCHANGED <<check, scopeOpts, todo, sessionID, opened, results, overall, installed, sent>>
      /\ \/ pc \in {"send", "exit"} /\ pc' = "exited" /\ exit' = overall
         \/ UNCHANGED <<pc, exit>>
  BY DEF Becs!Exit, Becs!ExitWith, Becs!becsVars, Becs!vars
<1>2. Becs!TypeOK' /\ OneSession'
  BY <1>1 DEF BecsInv, Becs!TypeOK, OneSession
<1>3. Past' = Past
  BY <1>1, ResultsStay DEF Past
<1>4. Fetching' /\ Sending' /\ WorstIsKept' /\ SentAreGraded' /\ Becs!AllOrNothing'
  BY <1>1, <1>3, ResultsStay DEF BecsInv, Fetching, Sending, WorstIsKept, SentAreGraded,
                                 Becs!AllOrNothing, Becs!Grade
<1> QED
  BY <1>1, <1>2, <1>4 DEF BecsInv, Becs!Finished

LEMMA BecsNextInv == ASSUME BecsInv, Becs!Next \/ UNCHANGED Becs!vars PROVE BecsInv'
BY BecsFailsInv, BecsLoginInv, BecsExcludeInv, BecsFetchInv, BecsDoneInv, BecsConfigInv,
   BecsSendInv, BecsExitInv
   DEF Becs!Next

\* Until it exits a check has no status, and has not given up on a file.
BecsOkInv ==
  /\ pc # "exited" => exit = Becs!Running /\ installed # "torn"
  /\ Becs!OkMeansFetched

LEMMA BecsInitOk == Becs!Init => BecsOkInv
BY DEF Becs!Init, BecsOkInv, Becs!OkMeansFetched, Becs!Running, Becs!OK

LEMMA BecsNextOk ==
  ASSUME BecsInv, BecsOkInv, Becs!Next \/ UNCHANGED Becs!vars
  PROVE  BecsOkInv'
<1> USE DEF Becs!OK, Becs!Running, Becs!Panic
<1>1. CASE Becs!NewClient \/ Becs!Unknown \/ Becs!CallFails
  BY <1>1 DEF Becs!NewClient, Becs!Unknown, Becs!CallFails, Becs!Fetchable, Becs!AtScope,
              Becs!ExitWith, Becs!becsVars, BecsOkInv, Becs!OkMeansFetched
<1>2. CASE Becs!Login \/ Becs!Exclude \/ Becs!ScopesDone \/ Becs!SendNothing
  BY <1>2 DEF Becs!Login, Becs!Exclude, Becs!ScopesDone, Becs!SendNothing, Becs!Fetchable,
              Becs!AtScope, BecsOkInv, Becs!OkMeansFetched
<1>3. CASE \E prefixes \in Answers : Becs!Fetch(prefixes)
  BY <1>3 DEF Becs!Fetch, Becs!Fetchable, Becs!AtScope, BecsOkInv, Becs!OkMeansFetched
<1>4. CASE Becs!WriteConfig
  BY <1>4 DEF Becs!WriteConfig, Becs!ExitWith, BecsOkInv, Becs!OkMeansFetched
<1>5. CASE Becs!Send
  BY <1>5 DEF Becs!Send, Becs!ExitWith, BecsOkInv, Becs!OkMeansFetched
<1>6. CASE Becs!Exit
  <2>1. /\ pc \in {"send", "exit"} /\ pc' = "exited"
        /\ UNCHANGED <<check, scopeOpts, results, installed>>
    BY <1>6 DEF Becs!Exit, Becs!ExitWith, Becs!becsVars
  <2>2. Becs!AllFetched
    BY <2>1 DEF BecsInv, Sending
  <2>3. Becs!AllFetched'
    BY <2>1, <2>2, ResultsStay
  <2> QED
    BY <2>1, <2>3 DEF BecsOkInv, Becs!OkMeansFetched
<1>7. CASE UNCHANGED Becs!vars
  <2>1. UNCHANGED <<pc, check, exit, scopeOpts, results, installed>>
    BY <1>7 DEF Becs!vars, Becs!becsVars
  <2>2. Becs!AllFetched' <=> Becs!AllFetched
    BY <2>1, ResultsStay
  <2> QED
    BY <2>1, <2>2 DEF BecsOkInv, Becs!OkMeansFetched
<1> QED
  BY <1>1, <1>2, <1>3, <1>4, <1>5, <1>6, <1>7 DEF Becs!Next

LEMMA BecsInvAgree == BecsInv => Becs!StatusesAgree
<1> SUFFICES ASSUME BecsInv PROVE Becs!StatusesAgree
  OBVIOUS
<1>1. ASSUME Becs!Finished
      PROVE  /\ exit \in Becs!Codes(check.WARNING, check.CRITICAL) \cup {Becs!OK}
             /\ \A code \in Becs!Codes(check.WARNING, check.CRITICAL) : code <= exit
  BY <1>1 DEF BecsInv, WorstIsKept
<1>2. ASSUME NEW i \in DOMAIN sent, check = Becs!Unmapped, Becs!Finished
      PROVE  sent[i].code <= exit
  <2>1. PICK j \in DOMAIN results :
          sent[i].code = Becs!Grade(results[j].free, Becs!WARNING, Becs!CRITICAL)
    BY DEF BecsInv, SentAreGraded
  <2>2. check.WARNING = Becs!WARNING /\ check.CRITICAL = Becs!CRITICAL
    BY <1>2 DEF Becs!Unmapped
  <2>3. sent[i].code \in Becs!Codes(check.WARNING, check.CRITICAL)
    BY <2>1, <2>2 DEF Becs!Codes
  <2> QED
    BY <1>1, <1>2, <2>3
<1> QED
  BY <1>1, <1>2 DEF Becs!StatusesAgree, BecsInv, SentAreGraded

-----------------------------------------------------------------------------
(***************************************************************************)
(* check_gonemaster: the zones visited are those that failed, those        *)
(* reported and the one in hand, and worst is the worst level so far.      *)
(***************************************************************************)

GoneTypes ==
  /\ pc \in {"start", "zones", "results", "exited"}
  /\ left \subseteq DOMAIN GoneZones /\ checkErr \in BOOLEAN
  /\ \A z \in DOMAIN printed : printed[z] \in Seq(TestResult)

\* The zone whose results the loop is looking at.
InHand == IF pc = "results" THEN {zone} ELSE {}

Visited ==
  /\ {z \in DOMAIN GoneZones \ left : Gone!Wanted(z)} = failed \cup DOMAIN reported \cup InHand
  /\ failed \cap DOMAIN reported = {} /\ InHand \cap (failed \cup DOMAIN reported) = {}
  /\ DOMAIN reported \cup InHand \subseteq DOMAIN printed

FailuresTold ==
  /\ checkErr <=> failed # {}
  /\ pc = "start" => left = DOMAIN GoneZones
  /\ pc = "exited" /\ Gone!LoopDone /\ exit # Gone!Panic =>
       exit = IF checkErr THEN Gone!Failure ELSE Gone!OK

Counts(z, i) == ~Gone!Excluded(z, printed[z][i])
Level(z, i) == Gone!Ordinal(printed[z][i].level)

WorstSoFar == pc = "results" =>
  /\ test \in 1 .. Len(printed[zone]) + 1
  /\ worst \in 0 .. 5
  /\ worst = 0 \/ \E i \in 1 .. test - 1 : Counts(zone, i) /\ Level(zone, i) = worst
  /\ \A i \in 1 .. test - 1 : Counts(zone, i) => Level(zone, i) <= worst

GoneInv ==
  /\ GoneTypes /\ Visited /\ FailuresTold /\ WorstSoFar
  /\ Gone!WorstLevelSent

LEMMA OrdinalIs == ASSUME NEW level PROVE Gone!Ordinal(level) \in 0 .. 5
<1>1. DOMAIN Gone!Levels = 1 .. 5
  BY DEF Gone!Levels
<1>2. CASE level \in Gone!ToSet(Gone!Levels)
  <2>1. \E i \in DOMAIN Gone!Levels : Gone!Levels[i] = level
    BY <1>2 DEF Gone!ToSet
  <2>2. Gone!Ordinal(level) \in DOMAIN Gone!Levels
    BY <1>2, <2>1 DEF Gone!Ordinal
  <2> QED
    BY <1>1, <2>2
<1>3. CASE level \notin Gone!ToSet(Gone!Levels)
  BY <1>3 DEF Gone!Ordinal
<1> QED
  BY <1>2, <1>3

LEMMA GoneInitInv == Gone!Init => GoneInv
<1> SUFFICES ASSUME Gone!Init PROVE GoneInv
  OBVIOUS
<1>1. /\ DOMAIN printed = {} /\ DOMAIN reported = {} /\ failed = {} /\ checkErr = FALSE
      /\ pc = "start" /\ left = DOMAIN GoneZones
  BY DEF Gone!Init, Gone!NoZones
<1> QED
  BY <1>1 DEF GoneInv, GoneTypes, Visited, InHand, FailuresTold, WorstSoFar, Gone!WorstLevelSent

\* What was sent of a zone does not change, nor what it was sent for.
LEMMA SentStays ==
  ASSUME Gone!WorstLevelSent, UNCHANGED <<printed, reported>>
  PROVE  Gone!WorstLevelSent'
<1>1. \A y : Gone!Counted(y)' = Gone!Counted(y)
  BY DEF Gone!Counted, Gone!Excluded
<1> QED
  BY <1>1 DEF Gone!WorstLevelSent

\* Before the loop, and the end of it.
LEMMA GoneEndsInv == ASSUME GoneInv, Gone!Refuse \/ Gone!Start \/ Gone!Done PROVE GoneInv'
<1>1. /\ UNCHANGED <<requested, left, checkErr, failed, printed, zone, test, worst, reported>>
      /\ pc \in {"start", "zones"} /\ pc' \in {"zones", "exited"}
  BY DEF Gone!Refuse, Gone!Start, Gone!Done, Gone!goneVars, Gone!loopVars
<1>2. FailuresTold'
  BY <1>1 DEF GoneInv, FailuresTold, Gone!Refuse, Gone!Start, Gone!Done, Gone!LoopDone
<1>3. Visited'
  BY <1>1 DEF GoneInv, Visited, InHand, Gone!Wanted
<1>4. Gone!WorstLevelSent'
  BY <1>1, SentStays DEF GoneInv
<1> QED
  BY <1>1, <1>2, <1>3, <1>4 DEF GoneInv, GoneTypes, WorstSoFar

\* A zone that is not wanted, or that gonemaster fails for.
LEMMA GoneSkipInv ==
  ASSUME GoneInv, NEW z \in left, Gone!Skip(z) \/ Gone!ZoneFails(z)
  PROVE  GoneInv'
<1>1. /\ pc = "zones" /\ left' = left \ {z}
      /\ UNCHANGED <<pc, exit, requested, printed, zone, test, worst, reported>>
      /\ IF Gone!Wanted(z) THEN checkErr' = TRUE /\ failed' = failed \cup {z}
                           ELSE UNCHANGED <<checkErr, failed>>
  BY DEF Gone!Skip, Gone!ZoneFails, Gone!Visit, Gone!loopVars
<1>2. Visited'
  <2>1. \A y \in DOMAIN GoneZones : Gone!Wanted(y)' = Gone!Wanted(y)
    BY <1>1 DEF Gone!Wanted
  <2>2. InHand = {} /\ InHand' = {} /\ z \in DOMAIN GoneZones
        /\ z \notin failed \cup DOMAIN reported
    BY <1>1 DEF GoneInv, GoneTypes, Visited, InHand
  <2>3. {y \in DOMAIN GoneZones \ left' : Gone!Wanted(y)}
          = {y \in DOMAIN GoneZones \ left : Gone!Wanted(y)}
              \cup (IF Gone!Wanted(z) THEN {z} ELSE {})
    BY <1>1, <2>2
  <2> QED
    BY <1>1, <2>1, <2>2, <2>3 DEF GoneInv, Visited
<1>3. FailuresTold'
  BY <1>1 DEF GoneInv, GoneTypes, FailuresTold
<1>4. Gone!WorstLevelSent'
  BY <1>1, SentStays DEF GoneInv
<1> QED
  BY <1>1, <1>2, <1>3, <1>4 DEF GoneInv, GoneTypes, WorstSoFar

LEMMA GonePrintsInv ==
  ASSUME GoneInv, NEW z \in left, NEW list \in Reports, Gone!ZonePrints(z, list)
  PROVE  GoneInv'
<1>1. /\ pc = "zones" /\ pc' = "results" /\ left' = left \ {z} /\ Gone!Wanted(z)
      /\ DOMAIN printed' = DOMAIN printed \cup {z} /\ printed'[z] = list
      /\ \A y \in DOMAIN printed \ {z} : printed'[y] = printed[y]
      /\ zone' = z /\ test' = 1 /\ worst' = 0
      /\ UNCHANGED <<exit, requested, checkErr, failed, reported>>
  BY DEF Gone!ZonePrints, Gone!Visit
<1>2. list \in Seq(TestResult)
  BY ReportsAssumption
<1>3. z \in DOMAIN GoneZones /\ z \notin failed \cup DOMAIN reported /\ InHand = {} /\ InHand' = {z}
  BY <1>1 DEF GoneInv, GoneTypes, Visited, InHand
<1>4. GoneTypes'
  BY <1>1, <1>2 DEF GoneInv, GoneTypes
<1>5. Visited'
  <2>1. \A y \in DOMAIN GoneZones : Gone!Wanted(y)' = Gone!Wanted(y)
    BY <1>1 DEF Gone!Wanted
  <2>2. {y \in DOMAIN GoneZones \ left' : Gone!Wanted(y)}
          = {y \in DOMAIN GoneZones \ left : Gone!Wanted(y)} \cup {z}
    BY <1>1, <1>3
  <2> QED
    BY <1>1, <1>3, <2>1, <2>2 DEF GoneInv, Visited
<1>6. WorstSoFar'
  BY <1>1, <1>2 DEF WorstSoFar
<1>7. Gone!WorstLevelSent'
  <2>1. \A y \in DOMAIN reported : printed'[y] = printed[y]
    BY <1>1, <1>3 DEF GoneInv, Visited
  <2>2. \A y \in DOMAIN reported : Gone!Counted(y)' = Gone!Counted(y)
    BY <2>1 DEF Gone!Counted, Gone!Excluded
  <2> QED
    BY <1>1, <2>2 DEF GoneInv, Gone!WorstLevelSent
<1> QED
  BY <1>1, <1>4, <1>5, <1>6, <1>7 DEF GoneInv, FailuresTold

LEMMA GoneNextResultInv == ASSUME GoneInv, Gone!NextResult PROVE GoneInv'
<1>1. /\ pc = "results" /\ test \in DOMAIN printed[zone] /\ test' = test + 1
      /\ worst' = IF Counts(zone, test) /\ Level(zone, test) > worst THEN Level(zone, test) ELSE worst
      /\ UNCHANGED <<pc, exit, requested, notifyNagios, left, checkErr, failed, printed, zone, reported>>
  BY DEF Gone!NextResult, Gone!Result, Counts, Level
<1>2. printed[zone] \in Seq(TestResult)
  BY <1>1 DEF GoneInv, GoneTypes, Visited, InHand
<1>3. test \in 1 .. Len(printed[zone]) /\ Len(printed[zone]) \in Nat
  BY <1>1, <1>2
<1>4. WorstSoFar'
  <2>1. worst \in 0 .. 5 /\ Level(zone, test) \in 0 .. 5
    BY <1>1, OrdinalIs DEF GoneInv, WorstSoFar, Level
  <2>2. \A i : Counts(zone, i)' = Counts(zone, i) /\ Level(zone, i)' = Level(zone, i)
    BY <1>1 DEF Counts, Level, Gone!Excluded
  <2>3. /\ worst = 0 \/ \E i \in 1 .. test - 1 : Counts(zone, i) /\ Level(zone, i) = worst
        /\ \A i \in 1 .. test - 1 : Counts(zone, i) => Level(zone, i) <= worst
    BY <1>1 DEF GoneInv, WorstSoFar
  <2>4. \A i \in 1 .. test : Level(zone, i) \in 0 .. 5
    BY OrdinalIs DEF Level
  <2>5. worst' = 0 \/ \E i \in 1 .. test : Counts(zone, i) /\ Level(zone, i) = worst'
    BY <1>1, <1>3, <2>3
  <2>6. \A i \in 1 .. test : Counts(zone, i) => Level(zone, i) <= worst'
    BY <1>1, <1>3, <2>1, <2>3, <2>4
  <2>7. test' - 1 = test /\ test' \in 1 .. Len(printed[zone]) + 1 /\ worst' \in 0 .. 5
    BY <1>1, <1>3, <2>1
  <2>8. /\ worst' = 0 \/ \E i \in 1 .. test' - 1 : Counts(zone, i)' /\ Level(zone, i)' = worst'
        /\ \A i \in 1 .. test' - 1 : Counts(zone, i)' => Level(zone, i)' <= worst'
    BY <2>2, <2>5, <2>6, <2>7
  <2> QED
    BY <1>1, <2>7, <2>8 DEF WorstSoFar
<1>5. Visited'
  BY <1>1 DEF GoneInv, Visited, InHand, Gone!Wanted
<1>6. Gone!WorstLevelSent'
  BY <1>1, SentStays DEF GoneInv
<1> QED
  BY <1>1, <1>4, <1>5, <1>6 DEF GoneInv, GoneTypes, FailuresTold

\* When all results have been looked at, worst says which levels are among them.
LEMMA WorstIsWorst ==
  ASSUME GoneInv, pc = "results", test > Len(printed[zone])
  PROVE  /\ worst > 3 <=> Gone!Counted(zone) \cap {4, 5} # {}
         /\ worst >= 3 <=> Gone!Counted(zone) \cap {3, 4, 5} # {}
         /\ worst \in 0 .. 5
<1>1. printed[zone] \in Seq(TestResult)
  BY DEF GoneInv, GoneTypes, Visited, InHand
<1>2. /\ DOMAIN printed[zone] = 1 .. test - 1
      /\ worst \in 0 .. 5
      /\ worst = 0 \/ \E i \in 1 .. test - 1 : Counts(zone, i) /\ Level(zone, i) = worst
      /\ \A i \in 1 .. test - 1 : Counts(zone, i) => Level(zone, i) <= worst
  BY <1>1 DEF GoneInv, WorstSoFar
<1>3. \A l : l \in Gone!Counted(zone) <=> \E i \in 1 .. test - 1 : Counts(zone, i) /\ Level(zone, i) = l
  BY <1>2 DEF Gone!Counted, Counts, Level
<1>4. \A l \in Gone!Counted(zone) : l \in 0 .. 5 /\ l <= worst
  BY <1>2, <1>3, OrdinalIs DEF Level
<1>5. worst > 0 => worst \in Gone!Counted(zone)
  BY <1>2, <1>3
<1> QED
  BY <1>2, <1>4, <1>5

LEMMA GoneReportInv == ASSUME GoneInv, Gone!Report PROVE GoneInv'
<1>1. /\ pc = "results" /\ test > Len(printed[zone])
      /\ DOMAIN reported' = DOMAIN reported \cup {zone}
      /\ reported'[zone] = Gone!LevelToReturnCode(worst)
      /\ \A y \in DOMAIN reported \ {zone} : reported'[y] = reported[y]
      /\ pc' = "zones" \/ (pc' = "exited" /\ exit' = Gone!Panic)
      /\ UNCHANGED <<requested, left, checkErr, failed, printed, zone, test, worst>>
  BY DEF Gone!Report, Gone!loopVars
<1>2. InHand = {zone} /\ InHand' = {} /\ zone \notin DOMAIN reported
  BY <1>1 DEF InHand, GoneInv, Visited
<1>3. Visited'
  BY <1>1, <1>2 DEF GoneInv, Visited, Gone!Wanted
<1>4. Gone!WorstLevelSent'
  <2>1. \A y : Gone!Counted(y)' = Gone!Counted(y)
    BY <1>1 DEF Gone!Counted, Gone!Excluded
  <2>2. /\ reported'[zone] = Gone!CRITICAL <=> Gone!Counted(zone) \cap {4, 5} # {}
        /\ reported'[zone] # Gone!OK <=> Gone!Counted(zone) \cap {3, 4, 5} # {}
    BY <1>1, WorstIsWorst DEF Gone!LevelToReturnCode, Gone!CRITICAL, Gone!WARNING, Gone!OK
  <2> QED
    BY <1>1, <1>2, <2>1, <2>2 DEF GoneInv, Gone!WorstLevelSent
<1>5. FailuresTold'
  BY <1>1 DEF GoneInv, FailuresTold, Gone!Panic
<1> QED
  BY <1>1, <1>3, <1>4, <1>5 DEF GoneInv, GoneTypes, WorstSoFar

LEMMA GoneNextInv == ASSUME GoneInv, Gone!Next \/ UNCHANGED Gone!vars PROVE GoneInv'
<1>1. CASE UNCHANGED Gone!vars
  <2>1. Gone!WorstLevelSent'
    BY <1>1, SentStays DEF Gone!vars, Gone!goneVars, GoneInv
  <2> QED
    BY <1>1, <2>1 DEF Gone!vars, Gone!goneVars, Gone!loopVars, GoneInv, GoneTypes, Visited, InHand,
                Gone!Wanted, FailuresTold, Gone!LoopDone, WorstSoFar, Counts, Level, Gone!Excluded
<1>2. CASE \E z \in left : \/ Gone!Skip(z) \/ Gone!ZoneFails(z)
                           \/ \E list \in Reports : Gone!ZonePrints(z, list)
  BY <1>2, GoneSkipInv, GonePrintsInv
<1>3. CASE Gone!NextResult \/ Gone!Report \/ Gone!Refuse \/ Gone!Start \/ Gone!Done
  BY <1>3, GoneNextResultInv, GoneReportInv, GoneEndsInv
<1> QED
  BY <1>1, <1>2, <1>3 DEF Gone!Next

LEMMA GoneInvHandled == GoneInv => Gone!EveryZoneHandled
<1> SUFFICES ASSUME GoneInv, pc = "exited", Gone!LoopDone, exit # Gone!Panic
             PROVE  /\ {z \in DOMAIN GoneZones : Gone!Wanted(z)} = failed \cup DOMAIN reported
                    /\ failed \cap DOMAIN reported = {}
                    /\ exit = Gone!Failure <=> failed # {}
  BY DEF Gone!EveryZoneHandled
<1>1. left = {} /\ InHand = {}
  BY DEF Gone!LoopDone, InHand
<1>2. exit = IF failed # {} THEN Gone!Failure ELSE Gone!OK
  BY DEF GoneInv, FailuresTold
<1> QED
  BY <1>1, <1>2 DEF GoneInv, Visited, Gone!Failure, Gone!OK

-----------------------------------------------------------------------------
(***************************************************************************)
(* check_imap_message_age: the folder is what has been received, what is   *)
(* in the channel and what has still to arrive, in this order.             *)
(***************************************************************************)

ImapTypes ==
  /\ folder \in Seq(Int) /\ messages \in Seq(Int) /\ arriving \in Seq(Int)
  /\ \A i \in 1 .. Len(folder) : folder[i] <= Undated
  /\ Undated \in Int /\ count \in Nat
  /\ pc \in {"login", "receive", "done", "exited"}
  /\ fetch \in {"none", "running", "ended", "delivered"}

InOrder ==
  /\ Len(folder) = count + Len(messages) + Len(arriving)
  /\ \A i \in 1 .. Len(messages) : messages[i] = folder[count + i]
  /\ \A i \in 1 .. Len(arriving) : arriving[i] = folder[count + Len(messages) + i]

\* The messages received since the last one without a date: none, or oldest is
\* the largest of their ages.
OldestSince(from) ==
  /\ from # 1 => folder[from - 1] = Undated
  /\ \A i \in from .. count : folder[i] # Undated /\ folder[i] <= oldest
  /\ \E i \in from .. count : folder[i] = oldest

OldestReceived ==
  \/ oldest = Undated /\ (count # 0 => folder[count] = Undated)
  \/ oldest # Undated /\ \E from \in 1 .. count : OldestSince(from)

\* The fetch delivers no error only if everything has arrived, and is over
\* before the channel is closed.
FetchTells ==
  /\ fetch \in {"ended", "delivered"} /\ ~fetchErr => arriving = <<>>
  /\ closed => fetch \in {"ended", "delivered"}
  /\ pc = "login" => fetch = "none"

Ranging ==
  /\ pc \in {"receive", "done"} => folder # <<>>
  /\ pc = "done" => messages = <<>> /\ closed

ImapInv ==
  /\ ImapTypes /\ InOrder /\ OldestReceived /\ FetchTells /\ Ranging
  /\ Imap!WholeFolderJudged

LEMMA JudgedStays ==
  ASSUME Imap!WholeFolderJudged, UNCHANGED <<pc, check, exit, folder>>
  PROVE  Imap!WholeFolderJudged'
<1>1. Imap!Dated' = Imap!Dated
  BY DEF Imap!Dated, Imap!LastUndated
<1> QED
  BY <1>1 DEF Imap!WholeFolderJudged, Imap!Judgement

\* A largest element is the maximum.
LEMMA MaxIs ==
  ASSUME NEW S, NEW m \in S, \A x \in S : x \in Int /\ x <= m
  PROVE  Imap!Max(S) = m
<1>1. \A y \in S : m >= y
  OBVIOUS
<1>2. Imap!Max(S) \in S /\ \A y \in S : Imap!Max(S) >= y
  BY <1>1 DEF Imap!Max
<1>3. Imap!Max(S) >= m /\ Imap!Max(S) <= m /\ m \in Int /\ Imap!Max(S) \in Int
  BY <1>2
<1> QED
  BY <1>3

LEMMA ImapInitInv == Imap!Init => ImapInv
<1> SUFFICES ASSUME Imap!Init PROVE ImapInv
  OBVIOUS
<1>1. /\ folder \in Seq(Int) /\ arriving = folder /\ messages = <<>> /\ count = 0
      /\ \A i \in 1 .. Len(folder) : folder[i] <= Undated
  <2>1. folder \in Seq({a \in Int : a <= Undated}) /\ arriving = folder /\ messages = <<>> /\ count = 0
    BY FoldersAssumption DEF Imap!Init
  <2>2. \A i \in 1 .. Len(folder) : folder[i] \in {a \in Int : a <= Undated}
    BY <2>1
  <2>3. Len(folder) \in Nat /\ folder = [i \in 1 .. Len(folder) |-> folder[i]]
    BY <2>1
  <2>4. folder \in [1 .. Len(folder) -> Int]
    BY <2>2, <2>3
  <2> QED
    BY <2>1, <2>2, <2>3, <2>4
<1>2. ImapTypes
  BY <1>1, FoldersAssumption DEF Imap!Init, ImapTypes
<1>3. InOrder
  BY <1>1 DEF InOrder
<1> QED
  BY <1>1, <1>2, <1>3 DEF Imap!Init, ImapInv, OldestReceived, FetchTells, Ranging,
                          Imap!WholeFolderJudged

\* No folder, or one without messages.
LEMMA ImapOpenInv == ASSUME ImapInv, Imap!NoFolder \/ Imap!Select PROVE ImapInv'
<1>1. /\ pc = "login"
      /\ UNCHANGED <<check, folder, arriving, messages, closed, fetchErr, oldest, count>>
  BY DEF Imap!NoFolder, Imap!Select, Imap!imapVars
<1>2. /\ pc' \in {"receive", "exited"}
      /\ fetch' \in {fetch, "running"} /\ ~closed
      /\ pc' = "receive" => folder # <<>>
      /\ pc' = "exited" => exit' = check.UNKNOWN \/ (folder = <<>> /\ exit' = Imap!OK)
  BY DEF Imap!NoFolder, Imap!Select, Imap!imapVars, Imap!ExitWith, ImapInv, FetchTells
<1>3. ImapTypes' /\ InOrder' /\ OldestReceived'
  BY <1>1, <1>2 DEF ImapInv, ImapTypes, InOrder, OldestReceived, OldestSince
<1>4. FetchTells' /\ Ranging'
  BY <1>1, <1>2 DEF ImapInv, FetchTells, Ranging
<1>5. ASSUME folder = <<>> PROVE Imap!Dated' = {}
  <2>1. folder' = <<>> /\ Len(folder') = 0 /\ DOMAIN folder' = {}
    BY <1>1, <1>5
  <2>2. {0} \cup {i \in DOMAIN folder' : folder'[i] = Undated} = {0}
    BY <2>1
  <2>3. Imap!Max({0}) = 0
    BY MaxIs
  <2>4. Imap!LastUndated' = 0
    BY <2>2, <2>3 DEF Imap!LastUndated
  <2>5. 0 + 1 .. 0 = {}
    OBVIOUS
  <2> QED
    BY <2>1, <2>4, <2>5 DEF Imap!Dated
<1> QED
  BY <1>1, <1>2, <1>3, <1>4, <1>5 DEF ImapInv, Imap!WholeFolderJudged

LEMMA ImapArrivesInv == ASSUME ImapInv, Imap!Arrives PROVE ImapInv'
<1>1. /\ pc # "exited" /\ arriving # <<>> /\ fetch = "running"
      /\ messages' = Append(messages, Head(arriving))
      /\ arriving' = Tail(arriving)
      /\ UNCHANGED <<pc, check, exit, folder, closed, fetch, fetchErr, oldest, count>>
  BY DEF Imap!Arrives, Imap!Fetching
<1>2. /\ arriving' \in Seq(Int) /\ messages' \in Seq(Int)
      /\ Len(messages') = Len(messages) + 1 /\ Len(arriving') = Len(arriving) - 1
      /\ Len(messages) \in Nat /\ Len(arriving) \in Nat /\ Len(arriving) > 0
      /\ \A i \in 1 .. Len(arriving) - 1 : arriving'[i] = arriving[i + 1]
      /\ \A i \in 1 .. Len(messages) : messages'[i] = messages[i]
      /\ messages'[Len(messages) + 1] = arriving[1]
  BY <1>1 DEF ImapInv, ImapTypes
<1>3. ImapTypes'
  BY <1>1, <1>2 DEF ImapInv, ImapTypes
<1>4. InOrder'
  <2>1. Len(folder) = count + Len(messages') + Len(arriving')
    BY <1>1, <1>2 DEF ImapInv, ImapTypes, InOrder
  <2>2. \A i \in 1 .. Len(messages') : messages'[i] = folder[count + i]
    <3>1. arriving[1] = folder[count + Len(messages) + 1]
      BY <1>2 DEF ImapInv, InOrder
    <3>2. ASSUME NEW i \in 1 .. Len(messages') PROVE messages'[i] = folder[count + i]
      <4>1. CASE i = Len(messages) + 1
        <5>1. count + i = count + Len(messages) + 1
          BY <1>2, <4>1 DEF ImapInv, ImapTypes
        <5> QED
          BY <1>2, <3>1, <4>1, <5>1
      <4>2. CASE i # Len(messages) + 1
        <5>1. i \in 1 .. Len(messages)
          BY <1>2, <4>2
        <5> QED
          BY <1>2, <5>1 DEF ImapInv, InOrder
      <4> QED
        BY <4>1, <4>2
    <3> QED
      BY <3>2
  <2>3. ASSUME NEW i \in 1 .. Len(arriving') PROVE arriving'[i] = folder[count + Len(messages') + i]
    <3>1. i + 1 \in 1 .. Len(arriving) /\ arriving'[i] = arriving[i + 1]
      BY <1>2
    <3>2. arriving[i + 1] = folder[count + Len(messages) + (i + 1)]
      BY <3>1 DEF ImapInv, InOrder
    <3> QED
      BY <1>2, <3>1, <3>2 DEF ImapInv, ImapTypes
  <2> QED
    BY <1>1, <2>1, <2>2, <2>3 DEF InOrder
<1>5. OldestReceived'
  BY <1>1 DEF ImapInv, OldestReceived, OldestSince
<1>6. Imap!WholeFolderJudged'
  BY <1>1, JudgedStays DEF ImapInv
<1> QED
  BY <1>1, <1>3, <1>4, <1>5, <1>6 DEF ImapInv, FetchTells, Ranging

LEMMA ImapFetchInv == ASSUME ImapInv, Imap!FetchEnds \/ Imap!Deliver PROVE ImapInv'
<1>1. /\ pc \notin {"login", "exited"}
      /\ UNCHANGED <<pc, check, exit, folder, arriving, messages, oldest, count>>
      /\ fetch' \in {"ended", "delivered"}
      /\ ~fetchErr' => arriving = <<>>
      /\ pc = "done" => closed'
  BY DEF Imap!FetchEnds, Imap!Deliver, Imap!Fetching, ImapInv, FetchTells, Ranging
<1>2. OldestReceived'
  BY <1>1 DEF ImapInv, OldestReceived, OldestSince
<1>3. Imap!WholeFolderJudged'
  BY <1>1, JudgedStays DEF ImapInv
<1> QED
  BY <1>1, <1>2, <1>3 DEF ImapInv, ImapTypes, InOrder, FetchTells, Ranging

LEMMA ImapReceiveInv == ASSUME ImapInv, Imap!Receive PROVE ImapInv'
<1>1. /\ pc = "receive" /\ messages # <<>>
      /\ messages' = Tail(messages) /\ count' = count + 1
      /\ oldest' = IF oldest = Undated \/ Head(messages) > oldest THEN Head(messages) ELSE oldest
      /\ UNCHANGED <<pc, check, exit, folder, arriving, closed, fetch, fetchErr>>
  BY DEF Imap!Receive
<1>2. /\ messages' \in Seq(Int) /\ Len(messages') = Len(messages) - 1
      /\ Len(messages) \in Nat /\ Len(messages) > 0 /\ Len(arriving) \in Nat
      /\ \A i \in 1 .. Len(messages) - 1 : messages'[i] = messages[i + 1]
      /\ Head(messages) = messages[1]
  BY <1>1 DEF ImapInv, ImapTypes
<1>3. Head(messages) = folder[count + 1] /\ count \in Nat /\ count + 1 \in 1 .. Len(folder)
  BY <1>2 DEF ImapInv, ImapTypes, InOrder
<1>4. ImapTypes'
  BY <1>1, <1>2 DEF ImapInv, ImapTypes
<1>5. InOrder'
  <2>1. Len(folder) = count' + Len(messages') + Len(arriving)
    BY <1>1, <1>2, <1>3 DEF ImapInv, InOrder
  <2>2. ASSUME NEW i \in 1 .. Len(messages') PROVE messages'[i] = folder[count' + i]
    <3>1. i \in 1 .. Len(messages) - 1 /\ i + 1 \in 1 .. Len(messages)
      BY <1>2
    <3>2. messages'[i] = messages[i + 1]
      BY <1>2, <3>1
    <3>3. messages[i + 1] = folder[count + (i + 1)]
      BY <3>1 DEF ImapInv, InOrder
    <3> QED
      BY <1>1, <1>3, <3>1, <3>2, <3>3
  <2>3. \A i \in 1 .. Len(arriving) : arriving[i] = folder[count' + Len(messages') + i]
    <3>1. count' + Len(messages') = count + Len(messages)
      BY <1>1, <1>2, <1>3
    <3> QED
      BY <3>1 DEF ImapInv, InOrder
  <2> QED
    BY <1>1, <2>1, <2>2, <2>3 DEF InOrder
<1>6. OldestReceived'
  <2>1. \A i \in 1 .. Len(folder) : folder[i] \in Int
    BY <1>3 DEF ImapInv, ImapTypes
  <2>2. /\ folder[count + 1] \in Int /\ count' = count + 1 /\ folder' = folder
        /\ \A i \in 1 .. count + 1 : folder[i] \in Int
    BY <1>1, <1>3, <2>1
  <2>3. CASE oldest = Undated
    <3>1. oldest' = folder[count + 1]
      BY <1>1, <1>3, <2>3
    <3>2. CASE folder[count + 1] = Undated
      BY <2>2, <3>1, <3>2 DEF OldestReceived
    <3>3. CASE folder[count + 1] # Undated
      <4>1. count # 0 => folder[count] = Undated
        BY <2>3 DEF ImapInv, OldestReceived
      <4>2. PICK from \in 1 .. count + 1 : from = count + 1
        BY <1>3
      <4>3. /\ from - 1 = count /\ from \in from .. count' /\ from \in 1 .. count'
            /\ \A i \in from .. count' : i = from
            /\ from # 1 => count # 0
        BY <1>3, <2>2, <4>2
      <4>4. OldestSince(from)'
        BY <2>2, <3>1, <3>3, <4>1, <4>2, <4>3 DEF OldestSince
      <4> QED
        BY <2>2, <3>1, <3>3, <4>3, <4>4 DEF OldestReceived, OldestSince
    <3> QED
      BY <3>2, <3>3
  <2>4. CASE oldest # Undated
    <3>1. PICK from \in 1 .. count : OldestSince(from)
      BY <2>4 DEF ImapInv, OldestReceived
    <3>2. /\ from \in 1 .. count' /\ count + 1 \in from .. count'
          /\ \A i \in from .. count' : i \in from .. count \/ i = count + 1
          /\ \A i \in from .. count : i \in from .. count' /\ i \in 1 .. count + 1
      BY <1>3, <2>2, <3>1
    <3>3. oldest \in Int
      BY <2>2, <3>1, <3>2 DEF OldestSince
    <3>4. CASE folder[count + 1] > oldest
      <4>1. oldest' = folder[count + 1]
        BY <1>1, <1>3, <3>4
      <4>2. CASE folder[count + 1] = Undated
        BY <2>2, <4>1, <4>2 DEF OldestReceived
      <4>3. CASE folder[count + 1] # Undated
        <5>1. \A i \in from .. count : folder[i] <= folder[count + 1]
          BY <2>2, <3>1, <3>2, <3>3, <3>4 DEF OldestSince
        <5>2. OldestSince(from)'
          BY <2>2, <3>1, <3>2, <4>1, <4>3, <5>1 DEF OldestSince
        <5> QED
          BY <3>2, <4>1, <4>3, <5>2 DEF OldestReceived, OldestSince
      <4> QED
        BY <4>2, <4>3
    <3>5. CASE ~(folder[count + 1] > oldest)
      <4>1. oldest' = oldest
        BY <1>1, <1>3, <2>4, <3>5
      <4>2. folder[count + 1] <= oldest
        BY <2>2, <3>3, <3>5
      <4>3. folder[count + 1] # Undated
        <5>1. oldest <= Undated /\ Undated \in Int
          <6>1. \A i \in from .. count : i \in 1 .. Len(folder)
            BY <1>3
          <6> QED
            BY <3>1, <6>1 DEF OldestSince, ImapInv, ImapTypes
        <5> QED
          BY <2>4, <3>3, <4>2, <5>1
      <4>4. OldestSince(from)'
        BY <2>2, <3>1, <3>2, <4>1, <4>2, <4>3 DEF OldestSince
      <4> QED
        BY <2>4, <3>2, <4>1, <4>4 DEF OldestReceived, OldestSince
    <3> QED
      BY <3>4, <3>5
  <2> QED
    BY <2>3, <2>4
<1> QED
  BY <1>1, <1>4, <1>5, <1>6 DEF ImapInv, FetchTells, Ranging, Imap!WholeFolderJudged

\* What is kept when all has been received is what the folder is judged by.
LEMMA OldestIsMax ==
  ASSUME ImapInv, count = Len(folder), count # 0
  PROVE  Imap!Graded = IF Imap!Dated = {} THEN Imap!OK ELSE Imap!Judgement(Imap!Max(Imap!Dated))
<1>1. /\ DOMAIN folder = 1 .. count /\ count \in Nat
      /\ \A i \in 1 .. count : folder[i] \in Int
  BY DEF ImapInv, ImapTypes
<1> DEFINE Places == {0} \cup {i \in DOMAIN folder : folder[i] = Undated}
<1>2. CASE oldest = Undated
  <2>1. folder[count] = Undated
    BY <1>2 DEF ImapInv, OldestReceived
  <2>2. count \in Places /\ \A x \in Places : x \in Int /\ x <= count
    BY <1>1, <2>1
  <2>3. Imap!LastUndated = count
    BY <2>2, MaxIs DEF Imap!LastUndated
  <2>4. count + 1 .. count = {}
    BY <1>1
  <2>5. Imap!Dated = {}
    BY <2>3, <2>4 DEF Imap!Dated
  <2> QED
    BY <1>2, <2>5 DEF Imap!Graded
<1>3. CASE oldest # Undated
  <2>1. PICK from \in 1 .. count : OldestSince(from)
    BY <1>3 DEF ImapInv, OldestReceived
  <2>2. from - 1 \in Places
    BY <1>1, <2>1 DEF OldestSince
  <2>3. ASSUME NEW x \in Places PROVE x \in Int /\ x <= from - 1
    <3>1. x \notin from .. count \/ x = 0
      BY <2>1 DEF OldestSince
    <3> QED
      BY <1>1, <3>1
  <2>4. Imap!Max(Places) = from - 1
    BY <2>2, <2>3, MaxIs
  <2>5. Imap!LastUndated + 1 = from
    BY <1>1, <2>4 DEF Imap!LastUndated
  <2>6. Imap!Dated = {folder[i] : i \in from .. count}
    BY <2>5 DEF Imap!Dated
  <2>7. oldest \in Imap!Dated /\ \A x \in Imap!Dated : x \in Int /\ x <= oldest
    <3>1. \A i \in from .. count : i \in 1 .. count
      BY <1>1
    <3> QED
      BY <1>1, <2>1, <2>6, <3>1 DEF OldestSince
  <2>8. Imap!Max(Imap!Dated) = oldest
    BY <2>7, MaxIs
  <2> QED
    BY <1>3, <2>7, <2>8 DEF Imap!Graded
<1> QED
  BY <1>2, <1>3

LEMMA ImapEndInv == ASSUME ImapInv, Imap!RangeEnds \/ Imap!Exit PROVE ImapInv'
<1>1. CASE Imap!RangeEnds
  <2>1. OldestReceived'
    BY <1>1 DEF Imap!RangeEnds, Imap!imapVars, ImapInv, OldestReceived, OldestSince
  <2> QED
    BY <1>1, <2>1 DEF Imap!RangeEnds, Imap!imapVars, ImapInv, ImapTypes, InOrder, FetchTells, Ranging,
                      Imap!WholeFolderJudged
<1>2. CASE Imap!Exit
  <2>1. /\ pc = "done" /\ fetch = "delivered" /\ pc' = "exited"
        /\ exit' = IF fetchErr THEN check.UNKNOWN ELSE Imap!Graded
        /\ UNCHANGED <<check, folder, arriving, messages, closed, fetch, fetchErr, oldest, count>>
    BY <1>2 DEF Imap!Exit, Imap!ExitWith, Imap!imapVars
  <2>2. messages = <<>> /\ folder # <<>> /\ (~fetchErr => arriving = <<>>)
    BY <2>1 DEF ImapInv, Ranging, FetchTells
  <2>3. ASSUME ~fetchErr
        PROVE  exit' = IF Imap!Dated = {} THEN Imap!OK ELSE Imap!Judgement(Imap!Max(Imap!Dated))
    <3>1. count = Len(folder) /\ count # 0
      BY <2>2, <2>3 DEF ImapInv, InOrder, ImapTypes
    <3> QED
      BY <2>1, <2>3, <3>1, OldestIsMax
  <2>4. Imap!Dated' = Imap!Dated
    BY <2>1 DEF Imap!Dated, Imap!LastUndated
  <2>5. Imap!WholeFolderJudged'
    BY <2>1, <2>3, <2>4 DEF Imap!WholeFolderJudged, Imap!Judgement
  <2>6. OldestReceived'
    BY <2>1 DEF ImapInv, OldestReceived, OldestSince
  <2> QED
    BY <2>1, <2>5, <2>6 DEF ImapInv, ImapTypes, InOrder, FetchTells, Ranging
<1> QED
  BY <1>1, <1>2

LEMMA ImapNextInv == ASSUME ImapInv, Imap!Next \/ UNCHANGED Imap!vars PROVE ImapInv'
<1>1. CASE UNCHANGED Imap!vars
  <2>1. Imap!WholeFolderJudged' /\ OldestReceived'
    BY <1>1, JudgedStays DEF Imap!vars, Imap!imapVars, ImapInv, OldestReceived, OldestSince
  <2> QED
    BY <1>1, <2>1 DEF Imap!vars, Imap!imapVars, ImapInv, ImapTypes, InOrder, FetchTells, Ranging
<1> QED
  BY <1>1, ImapOpenInv, ImapArrivesInv, ImapFetchInv, ImapReceiveInv, ImapEndInv DEF Imap!Next

-----------------------------------------------------------------------------
(***************************************************************************)
(* check_file_status: the file has been young enough since the check       *)
(* looked at its age, whatever the job does to it.                         *)
(***************************************************************************)

FileTypes ==
  /\ check \in Remapping
  /\ limits.warning \in Int /\ limits.critical \in Int
  /\ now \in Int /\ mtime \in Int /\ looked \in Int
  /\ line \in {File!Nothing, File!Blank} \cup Status
  /\ pc \in {"stat", "open", "exited"}
  /\ exit \in Status \cup {Running}

\* Neither the file nor the look at it is from the future.
NothingAhead == mtime <= now /\ looked <= now

\* Once the check has judged the age, nothing the job does makes the file older.
YoungEnough == pc = "open" =>
  looked - mtime <= limits.warning /\ looked - mtime <= limits.critical

FileInv ==
  /\ FileTypes /\ NothingAhead /\ YoungEnough
  /\ pc = "exited" <=> exit # Running
  /\ File!FreshStatus

LEMMA FileInitInv == File!Init => FileInv
<1> SUFFICES ASSUME File!Init PROVE FileInv
  OBVIOUS
<1> USE DEF File!Init, File!Running, Running, File!Status, Status, File!OK, OK, File!UNKNOWN, UNKNOWN
<1>1. limits.warning \in Int /\ limits.critical \in Int
  BY TimeAssumption
<1>2. now \in Int /\ now >= 0
  BY TimeAssumption
<1>3. FileTypes
  BY <1>1, <1>2, RemappingAssumption DEF FileTypes
<1> QED
  BY <1>2, <1>3 DEF FileInv, NothingAhead, YoungEnough, File!FreshStatus

\* Job and time go on only while the check runs.
LEMMA FileWorldInv == ASSUME FileInv, File!Job \/ File!Tick PROVE FileInv'
<1>1. /\ exit = Running /\ pc # "exited"
      /\ UNCHANGED <<pc, check, exit, limits, looked>>
      /\ now' \in Int /\ mtime' \in Int
      /\ mtime <= mtime' /\ mtime' <= now' /\ looked <= now'
      /\ line' \in {File!Nothing, File!Blank} \cup Status
  <2>1. CASE File!Job
    BY <2>1 DEF File!Job, FileInv, FileTypes, NothingAhead, File!Running, Running, File!Status,
                Status, File!OK, OK, File!UNKNOWN, UNKNOWN
  <2>2. CASE File!Tick
    BY <2>2 DEF File!Tick, FileInv, FileTypes, NothingAhead, File!Running, Running
  <2> QED
    BY <2>1, <2>2
<1>2. YoungEnough'
  BY <1>1 DEF FileInv, FileTypes, YoungEnough
<1> QED
  BY <1>1, <1>2 DEF FileInv, FileTypes, NothingAhead, File!FreshStatus, Running, File!OK

LEMMA FileStatInv == ASSUME FileInv, File!Stat PROVE FileInv'
<1> USE DEF Remapping, Status, OK, UNKNOWN, Running
<1>1. /\ pc = "stat" /\ looked' = now /\ UNCHANGED <<check, limits, now, line, mtime>>
      /\ exit = Running
  BY DEF File!Stat, FileInv
<1>2. CASE pc' = "open"
  <2>1. /\ line # File!Nothing /\ UNCHANGED exit
        /\ now - mtime <= limits.critical /\ now - mtime <= limits.warning
    BY <1>1, <1>2 DEF File!Stat, File!JudgeAge, File!ExitWith, FileInv, FileTypes
  <2> QED
    BY <1>1, <1>2, <2>1 DEF FileInv, FileTypes, NothingAhead, YoungEnough, File!FreshStatus, File!OK
<1>3. CASE pc' # "open"
  <2>1. pc' = "exited" /\ exit' \in {check.WARNING, check.CRITICAL, check.UNKNOWN}
    BY <1>1, <1>3 DEF File!Stat, File!JudgeAge, File!ExitWith
  <2> QED
    BY <1>1, <2>1 DEF FileInv, FileTypes, NothingAhead, YoungEnough, File!FreshStatus, File!OK
<1> QED
  BY <1>2, <1>3

LEMMA FileReadInv == ASSUME FileInv, File!Read PROVE FileInv'
<1> USE DEF Remapping, Status, OK, UNKNOWN, Running, File!OK
<1>1. /\ pc = "open" /\ pc' = "exited"
      /\ UNCHANGED <<check, limits, now, line, mtime, looked>>
      /\ exit' = check.UNKNOWN \/ (line \in Status /\ exit' = line)
  BY DEF File!Read, File!ExitWith, File!fileVars, FileInv, FileTypes
<1>2. exit' = OK /\ OK # check.UNKNOWN => line = OK
  BY <1>1
<1> QED
  BY <1>1, <1>2 DEF FileInv, FileTypes, NothingAhead, YoungEnough, File!FreshStatus

LEMMA FileNextInv == ASSUME FileInv, File!Next \/ UNCHANGED File!vars PROVE FileInv'
<1>1. CASE UNCHANGED File!vars
  BY <1>1 DEF File!vars, File!fileVars, FileInv, FileTypes, NothingAhead, YoungEnough,
              File!FreshStatus
<1> QED
  BY <1>1, FileWorldInv, FileStatInv, FileReadInv DEF File!Next

-----------------------------------------------------------------------------
(***************************************************************************)
(* The checks of a service.                                                *)
(***************************************************************************)

\* Before it exits a check has come as far as it is prepared for.
ServiceInv ==
  /\ pc \in {"start", "ask", "exited"} /\ probe \in Service!Probes
  /\ pc = "ask" => Service!Prepared
  /\ pc # "exited" => exit = Service!Running
  /\ Service!OkMeansAnswered

LEMMA ServiceInitInv == Service!Init => ServiceInv
BY DEF Service!Init, ServiceInv, Service!OkMeansAnswered, Service!OK, Service!Running

LEMMA ServiceNextInv ==
  ASSUME ServiceInv, Service!Next \/ UNCHANGED Service!vars
  PROVE  ServiceInv'
<1> USE DEF Service!OK, Service!UNKNOWN, Service!Failure, Service!Running
<1>1. CASE Service!NotStarted
  BY <1>1 DEF Service!NotStarted, Service!ExitWith, Service!serviceVars, ServiceInv,
              Service!OkMeansAnswered
<1>2. CASE Service!Prepare
  BY <1>2 DEF Service!Prepare, Service!Prepared, Service!ParametersMakeSense, Service!ExitWith,
              Service!serviceVars, ServiceInv, Service!OkMeansAnswered
<1>3. CASE Service!Ask
  <2>1. /\ pc = "ask" /\ pc' = "exited" /\ UNCHANGED <<check, probe, local, address, responds, answer>>
        /\ exit' = IF ~(address /\ responds) THEN Service!WhenSilent
                   ELSE IF Service!Accepts THEN Service!OK ELSE check.CRITICAL
    BY <1>3 DEF Service!Ask, Service!ExitWith, Service!serviceVars
  <2>2. local
    BY <2>1 DEF ServiceInv, Service!Prepared
  <2>3. ASSUME probe # "rrsig_expiry", Service!WhenSilent = Service!OK
        PROVE  Service!OK \in {check.WARNING, check.CRITICAL, check.UNKNOWN}
    BY <2>3 DEF Service!WhenSilent, Service!Probes, ServiceInv
  <2>4. Service!OkMeansAnswered'
    BY <2>1, <2>2, <2>3 DEF Service!OkMeansAnswered
  <2> QED
    BY <2>1, <2>4 DEF ServiceInv
<1>4. CASE UNCHANGED Service!vars
  BY <1>4 DEF Service!vars, Service!serviceVars, ServiceInv, Service!OkMeansAnswered,
              Service!Prepared, Service!ParametersMakeSense
<1> QED
  BY <1>1, <1>2, <1>3, <1>4 DEF Service!Next

-----------------------------------------------------------------------------
(***************************************************************************)
(* The generators of Icinga's configuration: IcingaConfProofs, as above.   *)
(***************************************************************************)

ConfP == INSTANCE IcingaConfProofs

LEMMA ConfInitInv == Icinga!Init => ConfP!IInv
<1>1. Icinga!Init => ConfP!Init
  BY DEF Icinga!Init, ConfP!Init, Icinga!Kinds, ConfP!Kinds, Icinga!Missing, ConfP!Missing
<1> QED
  BY <1>1, ConfP!InitInv

LEMMA SameConfStep ==
  Icinga!Next \/ UNCHANGED Icinga!vars => ConfP!Next \/ UNCHANGED ConfP!vars
<1> USE DEF Icinga!Fault, ConfP!Fault, Icinga!Return, ConfP!Return, Icinga!ReturnEarly,
            ConfP!ReturnEarly, Icinga!Missing, ConfP!Missing, Icinga!Torn, ConfP!Torn
<1>1. Icinga!RunStep => ConfP!RunStep
  BY DEF Icinga!RunStep, ConfP!RunStep, Icinga!Generate, ConfP!Generate, Icinga!CreateFails,
         ConfP!CreateFails, Icinga!WriteFails, ConfP!WriteFails, Icinga!Compare, ConfP!Compare,
         Icinga!CompareFails, ConfP!CompareFails, Icinga!Copy, ConfP!Copy, Icinga!Fill, ConfP!Fill,
         Icinga!CopyFails, ConfP!CopyFails, Icinga!SyncFails, ConfP!SyncFails, Icinga!Reload,
         ConfP!Reload, Icinga!ReloadFails, ConfP!ReloadFails
<1> QED
  BY <1>1 DEF Icinga!Next, ConfP!Next, Icinga!EditInput, ConfP!EditInput, Icinga!BeginRun,
              ConfP!BeginRun, Icinga!Crash, ConfP!Crash, Icinga!Ended, ConfP!Ended, Icinga!Steps,
              ConfP!Steps, Icinga!vars, ConfP!vars

LEMMA ConfNextInv ==
  ASSUME ConfP!IInv, Icinga!Next \/ UNCHANGED Icinga!vars
  PROVE  ConfP!IInv' /\ Icinga!LoadsInstalled
<1>1. [ConfP!Next]_ConfP!vars
  BY SameConfStep
<1>2. ConfP!IInv' /\ ConfP!LoadsInstalled
  BY <1>1, ConfP!NextInv, ConfP!InvLoads
<1> QED
  BY <1>2 DEF ConfP!LoadsInstalled, Icinga!LoadsInstalled, ConfP!TornUnnoticed,
              Icinga!TornUnnoticed, ConfP!Torn, Icinga!Torn

LEMMA ConfInvSays ==
  ASSUME ConfP!IInv
  PROVE  Icinga!TypeOK /\ Icinga!InstalledWhenOk /\ Icinga!LoadedUnlessMissed
<1> USE DEF ConfP!IInv, ConfP!Torn, Icinga!Torn, ConfP!Missing, Icinga!Missing, ConfP!TornUnnoticed,
            Icinga!TornUnnoticed
<1>1. Icinga!TypeOK
  BY DEF ConfP!TypeOK, Icinga!TypeOK, ConfP!Kinds, Icinga!Kinds, ConfP!Files, Icinga!Files,
         ConfP!Steps, Icinga!Steps, ConfP!Ended, Icinga!Ended, ConfP!Written, Icinga!Written,
         ConfP!Fault, Icinga!Fault
<1>2. Icinga!InstalledWhenOk
  BY DEF ConfP!InstalledWhenOk, Icinga!InstalledWhenOk
<1>3. Icinga!LoadedUnlessMissed
  BY DEF ConfP!LoadedBeforeCopy, Icinga!LoadedUnlessMissed
<1> QED
  BY <1>1, <1>2, <1>3

-----------------------------------------------------------------------------
(***************************************************************************)
(* The program that runs.                                                  *)
(***************************************************************************)

Programs == {"zone", "ntp", "becs", "gonemaster", "imap", "file", "service", "icinga"}

Inv ==
  /\ program \in Programs
  /\ program = "zone" => ZoneP!CheckInv
  /\ program = "ntp" => NtpInv
  /\ program = "becs" => BecsInv /\ BecsOkInv
  /\ program = "gonemaster" => GoneInv
  /\ program = "imap" => ImapInv
  /\ program = "file" => FileInv
  /\ program = "service" => ServiceInv
  /\ program = "icinga" => ConfP!IInv

LEMMA InitInv == Init => Inv
<1> SUFFICES ASSUME Init PROVE Inv
  OBVIOUS
<1>1. program \in Programs
  BY DEF Init, Programs
<1>2. program = "zone" => ZoneP!CheckInv
  BY ZoneInitInv DEF Init, ZoneInit
<1>3. program = "ntp" => NtpInv
  BY NtpInitInv DEF Init, NtpInit
<1>4. program = "becs" => BecsInv /\ BecsOkInv
  BY BecsInitInv, BecsInitOk DEF Init, BecsInit
<1>5. program = "gonemaster" => GoneInv
  BY GoneInitInv DEF Init, GoneInit
<1>6. program = "imap" => ImapInv
  BY ImapInitInv DEF Init, ImapInit
<1>7. program = "file" => FileInv
  BY FileInitInv DEF Init, FileInit
<1>8. program = "service" => ServiceInv
  BY ServiceInitInv DEF Init, ServiceInit
<1>9. program = "icinga" => ConfP!IInv
  BY ConfInitInv DEF Init, IcingaInit
<1> QED
  BY <1>1, <1>2, <1>3, <1>4, <1>5, <1>6, <1>7, <1>8, <1>9 DEF Inv

LEMMA ConfStep ==
  ASSUME program = "icinga", [Next]_vars
  PROVE  Icinga!Next \/ UNCHANGED Icinga!vars
BY DEF Next, ZoneStep, NtpStep, BecsStep, GoneStep, ImapStep, FileStep, ServiceStep, IcingaStep,
       vars, icingaOwn, Icinga!vars

\* Only the program that was chosen takes steps; a step of it is one of its module.
LEMMA NextInv == ASSUME Inv, [Next]_vars PROVE Inv'
<1>1. program \in Programs /\ program' = program
  BY DEF Inv, Next, ZoneStep, NtpStep, BecsStep, GoneStep, ImapStep, FileStep, ServiceStep,
         IcingaStep, vars
<1>2. program = "zone" => ZoneP!CheckInv'
  <2>1. SUFFICES ASSUME program = "zone" PROVE ZoneP!CheckInv'
    OBVIOUS
  <2>2. Zone!CheckNext \/ UNCHANGED Zone!checkVars
    BY <2>1 DEF Next, ZoneStep, NtpStep, BecsStep, GoneStep, ImapStep, FileStep, ServiceStep,
                IcingaStep, vars, zoneOwn, Zone!checkVars
  <2> QED
    BY <2>1, <2>2, ZoneNextInv DEF Inv
<1>3. program = "ntp" => NtpInv'
  <2>1. SUFFICES ASSUME program = "ntp" PROVE NtpInv'
    OBVIOUS
  <2>2. Ntp!Next \/ UNCHANGED Ntp!vars
    BY <2>1 DEF Next, ZoneStep, NtpStep, BecsStep, GoneStep, ImapStep, FileStep, ServiceStep,
                IcingaStep, vars, ntpOwn, Ntp!vars
  <2> QED
    BY <2>1, <2>2, NtpNextInv DEF Inv
<1>4. program = "becs" => BecsInv' /\ BecsOkInv'
  <2>1. SUFFICES ASSUME program = "becs" PROVE BecsInv' /\ BecsOkInv'
    OBVIOUS
  <2>2. Becs!Next \/ UNCHANGED Becs!vars
    BY <2>1 DEF Next, ZoneStep, NtpStep, BecsStep, GoneStep, ImapStep, FileStep, ServiceStep,
                IcingaStep, vars, becsOwn, Becs!vars, Becs!becsVars
  <2> QED
    BY <2>1, <2>2, BecsNextInv, BecsNextOk DEF Inv
<1>5. program = "gonemaster" => GoneInv'
  <2>1. SUFFICES ASSUME program = "gonemaster" PROVE GoneInv'
    OBVIOUS
  <2>2. Gone!Next \/ UNCHANGED Gone!vars
    BY <2>1 DEF Next, ZoneStep, NtpStep, BecsStep, GoneStep, ImapStep, FileStep, ServiceStep,
                IcingaStep, vars, goneOwn, Gone!vars, Gone!goneVars, Gone!loopVars
  <2> QED
    BY <2>1, <2>2, GoneNextInv DEF Inv
<1>6. program = "imap" => ImapInv'
  <2>1. SUFFICES ASSUME program = "imap" PROVE ImapInv'
    OBVIOUS
  <2>2. Imap!Next \/ UNCHANGED Imap!vars
    BY <2>1 DEF Next, ZoneStep, NtpStep, BecsStep, GoneStep, ImapStep, FileStep, ServiceStep,
                IcingaStep, vars, imapOwn, Imap!vars, Imap!imapVars
  <2> QED
    BY <2>1, <2>2, ImapNextInv DEF Inv
<1>7. program = "file" => FileInv'
  <2>1. SUFFICES ASSUME program = "file" PROVE FileInv'
    OBVIOUS
  <2>2. File!Next \/ UNCHANGED File!vars
    BY <2>1 DEF Next, ZoneStep, NtpStep, BecsStep, GoneStep, ImapStep, FileStep, ServiceStep,
                IcingaStep, vars, fileOwn, File!vars, File!fileVars
  <2> QED
    BY <2>1, <2>2, FileNextInv DEF Inv
<1>8. program = "service" => ServiceInv'
  <2>1. SUFFICES ASSUME program = "service" PROVE ServiceInv'
    OBVIOUS
  <2>2. Service!Next \/ UNCHANGED Service!vars
    BY <2>1 DEF Next, ZoneStep, NtpStep, BecsStep, GoneStep, ImapStep, FileStep, ServiceStep,
                IcingaStep, vars, serviceOwn, Service!vars, Service!serviceVars
  <2> QED
    BY <2>1, <2>2, ServiceNextInv DEF Inv
<1>9. program = "icinga" => ConfP!IInv'
  BY ConfStep, ConfNextInv DEF Inv
<1> QED
  BY <1>1, <1>2, <1>3, <1>4, <1>5, <1>6, <1>7, <1>8, <1>9 DEF Inv

LEMMA SpecInv == Spec => []Inv
<1>1. Init => Inv
  BY InitInv
<1>2. Inv /\ [Next]_vars => Inv'
  BY NextInv
<1> QED
  BY <1>1, <1>2, PTL DEF Spec

(* The variables of checkZone, check_ntp_peers, check_becs_dhcp_scope and    *)
(* the generators are of their types, and those that say the same in two     *)
(* ways agree: a try's output and the sites last wrong in it, the peers      *)
(* counted and those the loop has passed, the session at BECS and the        *)
(* client's, a temporary file and what its run generates.                    *)
THEOREM TypesCorrect == Spec => []TypeOK
<1>1. Inv => TypeOK
  BY ZoneInvTypes, ConfInvSays DEF Inv, TypeOK, NtpInv, BecsInv
<1> QED
  BY <1>1, SpecInv, PTL

(* checkZone: if every server that was asked in the last try answered the    *)
(* serial that was looked for, the verdict is OK; if one did not, that was   *)
(* the last of all tries and the verdict is what the command line makes of   *)
(* WARNING; and no nameserver was left out of a zone hosted elsewhere. For   *)
(* any servers, serials, statuses and number of tries.                       *)
THEOREM VerdictIsSound == Spec => []VerdictSound
<1>1. Inv => VerdictSound
  BY ZoneInvSound DEF Inv, VerdictSound
<1> QED
  BY <1>1, SpecInv, PTL

(* checkZone: no response time that goes with a verdict exceeds the time the *)
(* check has slept, and the largest of them, that of the server that was     *)
(* wrong last, is all of that time; a check that has not slept reports none. *)
THEOREM TimesMeasure == Spec => []ResponseTimesMeasure
<1>1. Inv => ResponseTimesMeasure
  BY ZoneInvMeasure DEF Inv, ResponseTimesMeasure
<1> QED
  BY <1>1, SpecInv, PTL

(* check_ntp_peers: once all peers have been judged, the exit status is      *)
(* CRITICAL when the daemon has selected none or all are down, and WARNING   *)
(* when it has selected one and only some are down; for lists of any length  *)
(* and statuses as they are (what the command line makes of them does not    *)
(* get into these exits: RemappingApplies is violated).                      *)
THEOREM ExitTells == Spec => []ExitTellsReachability
<1>1. Inv => ExitTellsReachability
  BY NtpInvTells DEF Inv, ExitTellsReachability
<1> QED
  BY <1>1, SpecInv, PTL

(* check_ntp_peers: with all peers up and one selected the exit status is    *)
(* UNKNOWN, the one a check starts with, whatever the offsets, jitters and   *)
(* ranges: SetStatus only ever raises a status.                              *)
THEOREM MeasuresNeverShow == Spec => [](program = "ntp" => MeasuresDoNotShow)
<1>1. Inv => (program = "ntp" => MeasuresDoNotShow)
  BY NtpInvHides DEF Inv
<1> QED
  BY <1>1, SpecInv, PTL

(* check_becs_dhcp_scope: Icinga's configuration is touched, and a result    *)
(* sent, only when all scopes asked for have been fetched, one by one and in *)
(* their order, whichever names the command line repeats or excludes.        *)
THEOREM AllOrNothingHolds == Spec => []AllOrNothing
<1>1. Inv => AllOrNothing
  BY DEF Inv, AllOrNothing, BecsInv
<1> QED
  BY <1>1, SpecInv, PTL

(* check_becs_dhcp_scope: the exit status is the worst of the scopes'        *)
(* statuses as the command line remaps them; with statuses as they are, each *)
(* result sent is what the free addresses of its scope call for, and none is *)
(* worse than the exit status.                                               *)
THEOREM StatusesDoAgree == Spec => []StatusesAgree
<1>1. Inv => StatusesAgree
  BY BecsInvAgree DEF Inv, StatusesAgree
<1> QED
  BY <1>1, SpecInv, PTL

(* check_gonemaster: when the loop has ended each zone that is wanted has    *)
(* been reported or has failed, and not both; the exit status says whether   *)
(* one failed; and what is sent of a zone is the worst level that counts     *)
(* among the results gonemaster printed, in whatever order zones and results *)
(* come.                                                                     *)
THEOREM EveryZoneReported == Spec => []ZonesReported
<1>1. Inv => ZonesReported
  BY GoneInvHandled DEF Inv, ZonesReported, GoneInv
<1> QED
  BY <1>1, SpecInv, PTL

(* check_imap_message_age: unless it exits as UNKNOWN, the check has judged  *)
(* the oldest of all messages that come after the last one without a date,   *)
(* or has found none, however the two goroutines and the channels between    *)
(* them interleave, and never a part of a folder whose fetch broke off.      *)
THEOREM FolderIsJudged == Spec => []WholeFolderJudged
<1>1. Inv => WholeFolderJudged
  BY DEF Inv, WholeFolderJudged, ImapInv
<1> QED
  BY <1>1, SpecInv, PTL

(* check_file_status passes OK on only if it stands in a file that was young *)
(* enough when the check looked, whatever the job does to the file           *)
(* meanwhile; check_becs_dhcp_scope says OK only if all scopes asked for     *)
(* were fetched and no file was torn; and the HTTP, LDAP and RADIUS checks   *)
(* only if the service has answered. For all inputs, answers and remappings  *)
(* that make no other status OK.                                             *)
THEOREM OkIsTrue == Spec => []NoFalseOk
<1>1. Inv => NoFalseOk
  BY DEF Inv, NoFalseOk, FileInv, BecsOkInv, ServiceInv
<1> QED
  BY <1>1, SpecInv, PTL

(* The generators: a run that reports success has left the installed file    *)
(* with what it generated, whatever failed or was killed before, or with     *)
(* what it wrote if that was torn and the zones generator did not notice.    *)
THEOREM ConfigInstalled == Spec => []InstalledWhenOk
<1>1. Inv => InstalledWhenOk
  BY ConfInvSays DEF Inv, InstalledWhenOk
<1> QED
  BY <1>1, SpecInv, PTL

(* The generators: after a run that reports success Icinga has loaded what   *)
(* is installed, unless a crash, a failed sync or a failed reload came after *)
(* the last complete copy, or the installed file is torn.                    *)
THEOREM ConfigLoaded == Spec => []LoadedUnlessMissed
<1>1. Inv => LoadedUnlessMissed
  BY ConfInvSays DEF Inv, LoadedUnlessMissed
<1> QED
  BY <1>1, SpecInv, PTL

(* The generators: Icinga is made to load nothing but the installed file,    *)
(* when it is the same as the temporary one and that is what the run         *)
(* generates, or was torn when the zones generator wrote it.                 *)
THEOREM ConfigLoads == Spec => ReloadsInstalled
<1>1. Inv /\ [Next]_vars => [program = "icinga" => Icinga!LoadsInstalled]_vars
  BY ConfStep, ConfNextInv DEF Inv
<1> QED
  BY <1>1, InitInv, NextInv, PTL DEF Spec, ReloadsInstalled
=============================================================================
