---------------------------- MODULE CheckZoneProofs ----------------------------
(***************************************************************************)
(* Proofs about CheckZone: whatever the network answers, what the verdict  *)
(* of checkZone says of the servers is so, and its response times measure  *)
(* the time until the last of them was right.                              *)
(***************************************************************************)
EXTENDS CheckZone, TLAPS

\* The output reports the servers that answered something else.
OutputIsWrong == output = {s \in DOMAIN answers : answers[s] # target}

\* Where a check is with its nameservers and tries.
Fresh == pc \in {"soa", "ns"} => ix = 1 /\ answers = Empty /\ sites = Empty /\ pending = {}

Asked ==
  /\ pc = "query" => /\ ~dnsnode
                     /\ pending \cap DOMAIN answers = {}
                     /\ pending \cup DOMAIN answers = nsList
  /\ ~dnsnode /\ (pc \in {"judge", "report"} \/ verdict.given) => DOMAIN answers = nsList

Tried ==
  /\ pc \in {"try", "query", "judge"} => ix <= MaxTries
  /\ pc = "report" \/ verdict.given => (output # {} <=> ix = MaxTries + 1)

\* No server was wrong in a try that has not been made, and one in the last
\* try that was followed by a sleep.
WrongBefore ==
  /\ \A s \in DOMAIN sites : sites[s] <= IF pc \in {"query", "judge"} THEN ix ELSE ix - 1
  /\ ix > 1 => \E s \in DOMAIN sites : sites[s] >= ix - 1

\* The verdict is the one of the last try.
Reported == verdict.given =>
  /\ pc = "done"
  /\ verdict.code = IF output # {} THEN check.WARNING ELSE OK
  /\ verdict.response =
       IF ix > 1 THEN [s \in DOMAIN sites |-> Period * sites[s]] ELSE Empty

CheckInv ==
  /\ CheckTypeOK /\ SitesFollowOutput
  /\ OutputIsWrong /\ Fresh /\ Asked /\ Tried /\ WrongBefore /\ Reported

-----------------------------------------------------------------------------
(* Maps of which the keys are servers.                                      *)

LEMMA PartialMapIs ==
  ASSUME NEW V, NEW m
  PROVE  m \in PartialMap(V) <=> m \in [DOMAIN m -> V] /\ DOMAIN m \subseteq Servers
<1>1. ASSUME m \in PartialMap(V)
      PROVE  m \in [DOMAIN m -> V] /\ DOMAIN m \subseteq Servers
  <2>1. PICK S \in SUBSET Servers : m \in [S -> V]
    BY <1>1 DEF PartialMap
  <2> QED
    BY <2>1
<1>2. ASSUME m \in [DOMAIN m -> V], DOMAIN m \subseteq Servers
      PROVE  m \in PartialMap(V)
  BY <1>2 DEF PartialMap
<1> QED
  BY <1>1, <1>2

LEMMA EmptyIs == ASSUME NEW V PROVE Empty \in PartialMap(V) /\ DOMAIN Empty = {}
<1>1. DOMAIN Empty = {} /\ Empty \in [{} -> V]
  BY DEF Empty
<1> QED
  BY <1>1, PartialMapIs

\* What setSitePropagation does to the map sites, for the servers asked, of
\* which some were wrong.
LEMMA MarkIs ==
  ASSUME NEW asked, NEW wrong, asked \subseteq Servers, wrong \subseteq asked,
         sites \in PartialMap(0 .. MaxTries), ix \in 1 .. MaxTries, Mark(asked, wrong)
  PROVE  /\ sites' \in PartialMap(0 .. MaxTries)
         /\ DOMAIN sites' = DOMAIN sites \cup asked
         /\ \A s \in DOMAIN sites' :
              sites'[s] = IF s \in wrong THEN ix ELSE IF s \in DOMAIN sites THEN sites[s] ELSE 0
<1> USE TriesAssumption
<1>1. sites \in [DOMAIN sites -> 0 .. MaxTries] /\ DOMAIN sites \subseteq Servers
  BY PartialMapIs
<1> DEFINE K == Known(sites, asked)
<1>2. /\ DOMAIN K = DOMAIN sites \cup asked
      /\ \A s \in DOMAIN K : K[s] = IF s \in DOMAIN sites THEN sites[s] ELSE 0
  BY DEF Known, LastWrong
<1>3. sites' = [k \in DOMAIN K \cup wrong |-> IF k \in wrong THEN ix ELSE LastWrong(K, k)]
  BY DEF Mark, WrongAt
<1> HIDE DEF K
<1>4. DOMAIN sites' = DOMAIN sites \cup asked
  BY <1>2, <1>3
<1>5. \A s \in DOMAIN sites' :
         sites'[s] = IF s \in wrong THEN ix ELSE IF s \in DOMAIN sites THEN sites[s] ELSE 0
  BY <1>2, <1>3, <1>4 DEF LastWrong
<1>6. sites' \in [DOMAIN sites' -> 0 .. MaxTries]
  <2>1. \A s \in DOMAIN sites' : sites'[s] \in 0 .. MaxTries
    BY <1>1, <1>5
  <2>2. sites' = [s \in DOMAIN sites' |-> sites'[s]]
    BY <1>3
  <2> QED
    BY <2>1, <2>2
<1> QED
  BY <1>1, <1>4, <1>5, <1>6, PartialMapIs

-----------------------------------------------------------------------------
\* What the command line makes of WARNING is a status.
LEMMA WarningIs ==
  ASSUME check \in Remappings
  PROVE  check.WARNING \in Status /\ OK \in Status
BY RemappingAssumption DEF Remapping, Status, OK, UNKNOWN

LEMMA CheckInitInv == CheckInit => CheckInv
<1> SUFFICES ASSUME CheckInit PROVE CheckInv
  OBVIOUS
<1> USE TriesAssumption, EmptyIs DEF CheckInit
<1>1. CheckTypeOK
  BY DEF CheckTypeOK, NoVerdict, Status, OK, UNKNOWN, QueryError
<1>2. verdict.given = FALSE
  BY DEF NoVerdict
<1>3. DOMAIN answers = {} /\ DOMAIN sites = {} /\ output = {} /\ pc = "soa" /\ ix = 1
  OBVIOUS
<1>4. SitesFollowOutput /\ OutputIsWrong /\ Fresh
  BY <1>3 DEF SitesFollowOutput, OutputIsWrong, Fresh
<1>5. Asked /\ Tried /\ WrongBefore /\ Reported
  BY <1>2, <1>3 DEF Asked, Tried, WrongBefore, Reported
<1> QED
  BY <1>1, <1>4, <1>5 DEF CheckInv

\* An answer of the primary, or its failure.
LEMMA LookupInv ==
  ASSUME CheckInv,
         \/ \E serial \in Serials : SoaAnswer(serial)
         \/ \E names \in SUBSET Servers : NsAnswer(names)
         \/ LookupFails
  PROVE  CheckInv'
<1> USE TriesAssumption, SerialAssumption DEF CheckInv
<1>1. /\ answers = Empty /\ DOMAIN answers = {} /\ ix = 1 /\ ~verdict.given /\ output = {}
      /\ pending = {}
  BY EmptyIs DEF SoaAnswer, NsAnswer, LookupFails, Fresh, Reported, OutputIsWrong
<1>2. CASE \E serial \in Serials : SoaAnswer(serial)
  BY <1>1, <1>2 DEF SoaAnswer, CheckTypeOK, SitesFollowOutput, OutputIsWrong, Fresh, Asked,
                     Tried, WrongBefore, Reported
<1>3. CASE \E names \in SUBSET Servers : NsAnswer(names)
  BY <1>1, <1>3 DEF NsAnswer, CheckTypeOK, SitesFollowOutput, OutputIsWrong, Fresh, Asked,
                     Tried, WrongBefore, Reported
<1>4. CASE LookupFails
  BY <1>1, <1>4 DEF LookupFails, CheckTypeOK, SitesFollowOutput, OutputIsWrong, Fresh, Asked,
                     Tried, WrongBefore, Reported
<1> QED
  BY <1>2, <1>3, <1>4

\* All servers answer at a time.
LEMMA ApiInv ==
  ASSUME CheckInv, NEW serialOf \in PartialMap(Serials), ApiAnswer(serialOf)
  PROVE  CheckInv'
<1> USE TriesAssumption, SerialAssumption DEF CheckInv
<1>1. serialOf \in [DOMAIN serialOf -> Serials] /\ DOMAIN serialOf \subseteq Servers
  BY PartialMapIs
<1>2. /\ pc = "try" /\ pc' = "judge" /\ dnsnode
      /\ answers' = serialOf
      /\ output' = {s \in DOMAIN serialOf : serialOf[s] # target}
      /\ Mark(DOMAIN serialOf, output')
      /\ UNCHANGED <<dnsnode, check, target, nsList, pending, ix, verdict>>
  BY DEF ApiAnswer
<1>3. ix \in 1 .. MaxTries /\ ~verdict.given
  BY <1>2 DEF Tried, Reported, CheckTypeOK
<1>4. /\ sites' \in PartialMap(0 .. MaxTries)
      /\ DOMAIN sites' = DOMAIN sites \cup DOMAIN serialOf
      /\ \A s \in DOMAIN sites' :
           sites'[s] = IF s \in output' THEN ix ELSE IF s \in DOMAIN sites THEN sites[s] ELSE 0
  <2>1. DOMAIN serialOf \subseteq Servers /\ output' \subseteq DOMAIN serialOf
    BY <1>1, <1>2
  <2>2. sites \in PartialMap(0 .. MaxTries) /\ ix \in 1 .. MaxTries
    BY <1>3 DEF CheckTypeOK
  <2>3. Mark(DOMAIN serialOf, output')
    BY <1>2
  <2> HIDE DEF CheckInv
  <2> QED
    BY ONLY <2>1, <2>2, <2>3, MarkIs
<1>5. sites \in [DOMAIN sites -> 0 .. MaxTries]
  BY PartialMapIs DEF CheckTypeOK
<1>6. \A s \in DOMAIN sites : sites[s] <= ix - 1 /\ s \in DOMAIN sites'
  BY <1>2, <1>4 DEF WrongBefore
<1>7. CheckTypeOK'
  <2>1. answers' \in PartialMap(Serials \cup {QueryError})
    BY <1>1, <1>2, PartialMapIs
  <2> QED
    BY <1>1, <1>2, <1>4, <2>1 DEF CheckTypeOK
<1>8. SitesFollowOutput'
  BY <1>2, <1>3, <1>4, <1>5, <1>6 DEF SitesFollowOutput
<1>9. WrongBefore'
  <2>1. \A s \in DOMAIN sites' : sites'[s] <= ix
    BY <1>3, <1>4, <1>5, <1>6
  <2>2. ASSUME ix > 1 PROVE \E s \in DOMAIN sites' : sites'[s] >= ix - 1
    <3>1. PICK s \in DOMAIN sites : sites[s] >= ix - 1
      BY <2>2 DEF WrongBefore
    <3> QED
      BY <1>3, <1>4, <1>6, <3>1
  <2> QED
    BY <1>2, <2>1, <2>2 DEF WrongBefore
<1> QED
  BY <1>2, <1>3, <1>7, <1>8, <1>9 DEF OutputIsWrong, Fresh, Asked, Tried, Reported

\* One nameserver answers, or fails to.
LEMMA QueryInv ==
  ASSUME CheckInv, NEW s \in Servers, NEW serial \in Serials \cup {QueryError}, Query(s, serial)
  PROVE  CheckInv'
<1> USE TriesAssumption, SerialAssumption DEF CheckInv
<1>1. /\ pc = "query" /\ s \in pending /\ pending' = pending \ {s}
      /\ answers' = [k \in DOMAIN answers \cup {s} |-> IF k = s THEN serial ELSE answers[k]]
      /\ output' = IF serial = target THEN output ELSE output \cup {s}
      /\ Mark({s}, output' \cap {s})
      /\ UNCHANGED <<dnsnode, check, pc, target, nsList, ix, verdict>>
  BY DEF Query
<1>2. ix \in 1 .. MaxTries /\ ~verdict.given /\ s \notin DOMAIN answers
  BY <1>1 DEF Tried, Reported, CheckTypeOK, Asked
<1>3. /\ sites' \in PartialMap(0 .. MaxTries)
      /\ DOMAIN sites' = DOMAIN sites \cup {s}
      /\ \A k \in DOMAIN sites' :
           sites'[k] = IF k \in output' \cap {s} THEN ix
                       ELSE IF k \in DOMAIN sites THEN sites[k] ELSE 0
  <2>1. {s} \subseteq Servers /\ output' \cap {s} \subseteq {s}
    OBVIOUS
  <2>2. sites \in PartialMap(0 .. MaxTries) /\ ix \in 1 .. MaxTries
    BY <1>2 DEF CheckTypeOK
  <2>3. Mark({s}, output' \cap {s})
    BY <1>1
  <2> HIDE DEF CheckInv
  <2> QED
    BY ONLY <2>1, <2>2, <2>3, MarkIs
<1>4. sites \in [DOMAIN sites -> 0 .. MaxTries]
  BY PartialMapIs DEF CheckTypeOK
<1>5. /\ \A k \in DOMAIN sites : sites[k] <= ix
      /\ output = {k \in DOMAIN sites : sites[k] = ix}
  BY <1>1 DEF WrongBefore, SitesFollowOutput
<1>6. CheckTypeOK'
  <2>1. answers \in [DOMAIN answers -> Serials \cup {QueryError}] /\ DOMAIN answers \subseteq Servers
    BY PartialMapIs DEF CheckTypeOK
  <2>2. /\ answers' \in [DOMAIN answers' -> Serials \cup {QueryError}]
        /\ DOMAIN answers' \subseteq Servers
    BY <1>1, <2>1
  <2>3. answers' \in PartialMap(Serials \cup {QueryError})
    BY <2>2, PartialMapIs
  <2> QED
    BY <1>1, <1>3, <2>3 DEF CheckTypeOK
<1>7. SitesFollowOutput'
  <2>1. output' = {k \in DOMAIN sites' : sites'[k] = ix}
    <3>1. CASE serial = target
      <4>1. output' = output
        BY <1>1, <3>1
      <4> QED
        BY <1>2, <1>3, <1>4, <1>5, <4>1
    <3>2. CASE serial # target
      <4>1. output' = output \cup {s} /\ s \in DOMAIN sites' /\ sites'[s] = ix
        BY <1>1, <1>3, <3>2
      <4> QED
        BY <1>2, <1>3, <1>4, <1>5, <4>1
    <3> QED
      BY <3>1, <3>2
  <2> QED
    BY <1>1, <2>1 DEF SitesFollowOutput
<1>8. WrongBefore'
  <2>1. \A k \in DOMAIN sites' : sites'[k] <= ix
    BY <1>2, <1>3, <1>4, <1>5
  <2>2. ASSUME ix > 1 PROVE \E k \in DOMAIN sites' : sites'[k] >= ix - 1
    <3>1. PICK k \in DOMAIN sites : sites[k] >= ix - 1
      BY <2>2 DEF WrongBefore
    <3> QED
      BY <1>2, <1>3, <3>1
  <2> QED
    BY <1>1, <2>1, <2>2 DEF WrongBefore
<1>9. OutputIsWrong'
  BY <1>1, <1>2 DEF OutputIsWrong
<1>10. Asked'
  BY <1>1, <1>2 DEF Asked
<1> QED
  BY <1>1, <1>2, <1>6, <1>7, <1>8, <1>9, <1>10 DEF Fresh, Tried, Reported

\* The decisions of the loop, and its end.
LEMMA ProceedInv ==
  ASSUME CheckInv, ApiFails \/ Proceed
  PROVE  CheckInv'
<1> USE TriesAssumption, SerialAssumption DEF CheckInv
<1>1. CASE ApiFails
  BY <1>1 DEF ApiFails, CheckTypeOK, SitesFollowOutput, OutputIsWrong, Fresh, Asked, Tried,
              WrongBefore, Reported
<1>2. CASE StartQueries
  <2>1. DOMAIN answers' = {} /\ answers' \in PartialMap(Serials \cup {QueryError})
    BY <1>2, EmptyIs DEF StartQueries
  <2>2. ~verdict.given /\ ix \in 1 .. MaxTries /\ \A s \in DOMAIN sites : sites[s] <= ix - 1
    BY <1>2 DEF StartQueries, Reported, Tried, CheckTypeOK, WrongBefore
  <2>3. sites \in [DOMAIN sites -> 0 .. MaxTries]
    BY PartialMapIs DEF CheckTypeOK
  <2>4. SitesFollowOutput'
    BY <1>2, <2>2, <2>3 DEF StartQueries, SitesFollowOutput
  <2>5. WrongBefore'
    BY <1>2, <2>2, <2>3 DEF StartQueries, WrongBefore
  <2> QED
    BY <1>2, <2>1, <2>2, <2>4, <2>5
       DEF StartQueries, CheckTypeOK, OutputIsWrong, Fresh, Asked, Tried, Reported
<1>3. CASE EndQueries
  BY <1>3 DEF EndQueries, CheckTypeOK, SitesFollowOutput, OutputIsWrong, Fresh, Asked, Tried,
              WrongBefore, Reported
<1>4. CASE AllRight
  <2>1. sites \in [DOMAIN sites -> 0 .. MaxTries]
    BY PartialMapIs DEF CheckTypeOK
  <2>2. \A s \in DOMAIN sites : sites[s] <= ix - 1
    BY <1>4, <2>1 DEF AllRight, wrongSerial, SitesFollowOutput, WrongBefore, CheckTypeOK
  <2>3. WrongBefore'
    BY <1>4, <2>2 DEF AllRight, WrongBefore
  <2> QED
    BY <1>4, <2>3 DEF AllRight, wrongSerial, CheckTypeOK, SitesFollowOutput, OutputIsWrong,
                      Fresh, Asked, Tried, Reported
<1>5. CASE SleepAndRetry
  <2>1. sites \in [DOMAIN sites -> 0 .. MaxTries]
    BY PartialMapIs DEF CheckTypeOK
  <2>2. ix \in 1 .. MaxTries /\ ix' = ix + 1 /\ pc' \in {"try", "report"} /\ ~verdict.given
    BY <1>5 DEF SleepAndRetry, Tried, CheckTypeOK, Reported
  <2>3. PICK s \in DOMAIN sites : sites[s] = ix
    BY <1>5 DEF SleepAndRetry, wrongSerial, SitesFollowOutput
  <2>4. WrongBefore'
    BY <1>5, <2>1, <2>2, <2>3 DEF SleepAndRetry, WrongBefore
  <2>5. Tried'
    BY <1>5, <2>2 DEF SleepAndRetry, Tried, wrongSerial
  <2> QED
    BY <1>5, <2>2, <2>4, <2>5 DEF SleepAndRetry, CheckTypeOK, SitesFollowOutput, OutputIsWrong,
                                Fresh, Asked, Reported
<1>6. CASE Report
  <2>1. verdict'.code \in Status /\ verdict'.given \in BOOLEAN
    BY <1>6, WarningIs DEF Report, CheckTypeOK
  <2> QED
    BY <1>6, <2>1 DEF Report, wrongSerial, CheckTypeOK, SitesFollowOutput, OutputIsWrong, Fresh,
                      Asked, Tried, WrongBefore, Reported
<1> QED
  BY <1>1, <1>2, <1>3, <1>4, <1>5, <1>6 DEF Proceed

LEMMA CheckNextInv == CheckInv /\ [CheckNext]_checkVars => CheckInv'
<1> SUFFICES ASSUME CheckInv, [CheckNext]_checkVars
             PROVE  CheckInv'
  OBVIOUS
<1>1. ASSUME Ask PROVE CheckInv'
  <2>1. ServerAnswers = PartialMap(Serials)
    BY DEF ServerAnswers, PartialMap
  <2> QED
    BY <1>1, <2>1, LookupInv, ApiInv, QueryInv, ProceedInv DEF Ask
<1>2. CASE UNCHANGED checkVars
  BY <1>2 DEF checkVars, CheckInv, CheckTypeOK, SitesFollowOutput, OutputIsWrong, Fresh, Asked,
              Tried, WrongBefore, Reported
<1> QED
  BY <1>1, <1>2, ProceedInv DEF CheckNext

-----------------------------------------------------------------------------
LEMMA InvImpliesSound == CheckInv => VerdictSound
<1> SUFFICES ASSUME CheckInv, verdict.given PROVE VerdictSound
  BY DEF VerdictSound
<1>1. verdict.code = IF output # {} THEN check.WARNING ELSE OK
  BY DEF CheckInv, Reported
<1>2. output # {} <=> ix = MaxTries + 1
  BY DEF CheckInv, Tried
<1>3. output = {s \in DOMAIN answers : answers[s] # target}
  BY DEF CheckInv, OutputIsWrong
<1>4. ~dnsnode => DOMAIN answers = nsList
  BY DEF CheckInv, Asked
<1>5. ix \in 1 .. MaxTries + 1 /\ MaxTries \in Nat
  BY TriesAssumption DEF CheckInv, CheckTypeOK
<1>6. (\A s \in DOMAIN answers : answers[s] = target) <=> output = {}
  BY <1>3
<1> QED
  BY <1>1, <1>2, <1>4, <1>5, <1>6 DEF VerdictSound

LEMMA InvImpliesMeasure == CheckInv => ResponseTimesMeasure
<1> SUFFICES ASSUME CheckInv, verdict.given PROVE ResponseTimesMeasure
  BY DEF ResponseTimesMeasure
<1> USE TriesAssumption DEF CheckInv
<1>1. /\ pc = "done" /\ ix \in 1 .. MaxTries + 1
      /\ verdict.response = IF ix > 1 THEN [s \in DOMAIN sites |-> Period * sites[s]] ELSE Empty
  BY DEF Reported, CheckTypeOK
<1>2. sites \in [DOMAIN sites -> 0 .. MaxTries]
  BY PartialMapIs DEF CheckTypeOK
<1>3. \A s \in DOMAIN sites : sites[s] <= ix - 1
  BY <1>1 DEF WrongBefore
<1>4. CASE ix > 1
  <2>1. PICK s \in DOMAIN sites : sites[s] >= ix - 1
    BY <1>4 DEF WrongBefore
  <2>2. verdict.response = [k \in DOMAIN sites |-> Period * sites[k]] /\ sites[s] = ix - 1
    BY <1>1, <1>2, <1>3, <1>4, <2>1
  <2> QED
    BY <1>1, <1>2, <1>3, <1>4, <2>2 DEF ResponseTimesMeasure, Elapsed, Period
<1>5. CASE ix = 1
  BY <1>1, <1>5, EmptyIs DEF ResponseTimesMeasure, Elapsed, Period
<1> QED
  BY <1>1, <1>4, <1>5

\* What the variables of a check may hold, and that within a try the map sites
\* and the output agree on who is wrong.
THEOREM CheckTypeCorrect == CheckSpec => [](CheckTypeOK /\ SitesFollowOutput)
  BY CheckInitInv, CheckNextInv, PTL DEF CheckSpec, CheckInv

\* The verdict that checkZone hands to Notify is the one of its last try: OK if
\* every server asked had the target, all nameservers having been asked, and what
\* the command line makes of WARNING if one had not and all tries are used up.
THEOREM VerdictIsSound == CheckSpec => []VerdictSound
<1>1. CheckInv => VerdictSound
  BY InvImpliesSound
<1> QED
  BY <1>1, CheckInitInv, CheckNextInv, PTL DEF CheckSpec

\* The response times that go with it reach as far as the check has slept, and
\* no further.
THEOREM ResponseTimesAreMeasured == CheckSpec => []ResponseTimesMeasure
<1>1. CheckInv => ResponseTimesMeasure
  BY InvImpliesMeasure
<1> QED
  BY <1>1, CheckInitInv, CheckNextInv, PTL DEF CheckSpec
=============================================================================
