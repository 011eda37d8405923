------------------------------ MODULE CheckZone ------------------------------
(***************************************************************************)
(* One run of checkZone, the function a worker executes for a zone: learn  *)
(* the target serial and the nameservers from the zone's primary, then ask *)
(* every server up to MaxTries times whether it has that serial, and       *)
(* report the verdict.                                                     *)
(*                                                                         *)
(* A zone hosted at DnsNode is polled with one API call per try, which     *)
(* answers for the distribution primaries and the sites; any other zone by *)
(* one SOA query per nameserver.  What the network answers is an input of  *)
(* the actions; Propagation replaces it by servers that have a state.      *)
(*                                                                         *)
(* Perf data other than the response times and the text of the output are  *)
(* left out: of the output, which servers it reports is kept.              *)
(***************************************************************************)
EXTENDS MonitoringResult, FiniteSets

CONSTANTS
  Servers,    \* keys of the map sites
  MaxTries,   \* 75 in the code
  MaxSerial   \* bound: the serials are 1 .. MaxSerial

ASSUME TriesAssumption == MaxTries \in Nat \ {0}
ASSUME SerialAssumption == MaxSerial \in Nat \ {0}

Serials == 1 .. MaxSerial
QueryError == 0     \* the serial get_soa_serial returns with an error
Period == 4         \* seconds slept after a try that found a wrong serial

VARIABLES
  dnsnode,  \* zone.DnsNode
  check,    \* check.WARNING, as the daemon's command line has it
  pc,
  target,   \* event.Serial
  nsList,   \* ns_list, as a set: the order of the answer does not matter
  pending,  \* nameservers this try has still to query
  ix,       \* number of the try
  answers,  \* serial each server has answered in this try
  output,   \* servers the output of this try reports
  sites,    \* server -> last try in which it was wrong, 0 if it never was
  verdict   \* what was handed to Notify

checkVars == <<dnsnode, check, pc, target, nsList, pending, ix, answers, output, sites, verdict>>

Empty == [s \in {} |-> 0]
NoVerdict == [code |-> OK, response |-> Empty, given |-> FALSE]

CheckInit ==
  /\ dnsnode \in BOOLEAN /\ check \in Remappings
  /\ pc = "soa" /\ target = QueryError
  /\ nsList = {} /\ pending = {}
  /\ ix = 1
  /\ answers = Empty /\ output = {} /\ sites = Empty
  /\ verdict = NoVerdict

wrongSerial == output # {}

LastWrong(m, k) == IF k \in DOMAIN m THEN m[k] ELSE 0

\* Mutant: a key that is there already starts from 0 again.
KnownAnew(m, keys) == [k \in DOMAIN m \cup keys |-> IF k \in keys THEN 0 ELSE m[k]]

\* setSitePropagation for a set of keys: with a negative value it only makes
\* sure that the key is there.
Known(m, keys) == [k \in DOMAIN m \cup keys |-> LastWrong(m, k)]
WrongAt(m, keys, try) == [k \in DOMAIN m \cup keys |-> IF k \in keys THEN try ELSE LastWrong(m, k)]

\* One server or all of them answered; the wrong ones are marked with the try.
Mark(asked, wrong) == sites' = WrongAt(Known(sites, asked), wrong, ix)

-----------------------------------------------------------------------------
(* Before the polling.                                                      *)

\* get_soa_serial(zone, primary)
SoaAnswer(serial) ==
  /\ pc = "soa"
  /\ target' = serial
  /\ pc' = "ns"
  /\ UNCHANGED <<dnsnode, check, nsList, pending, ix, answers, output, sites, verdict>>

\* get_ns(zone, primary): the answer may be empty.
NsAnswer(names) ==
  /\ pc = "ns"
  /\ nsList' = names
  /\ pc' = "try"
  /\ UNCHANGED <<dnsnode, check, target, pending, ix, answers, output, sites, verdict>>

\* Either of them failed: return without a verdict and without MessageDone.
LookupFails ==
  /\ pc \in {"soa", "ns"}
  /\ pc' = "lost"
  /\ UNCHANGED <<dnsnode, check, target, nsList, pending, ix, answers, output, sites, verdict>>

-----------------------------------------------------------------------------
(* One try.                                                                 *)

\* Mutant: only a newer serial counts as wrong.
ApiAnswerNewer(serialOf) ==
  /\ pc = "try" /\ dnsnode
  /\ answers' = serialOf
  /\ output' = {s \in DOMAIN serialOf : serialOf[s] > target}
  /\ Mark(DOMAIN serialOf, output')
  /\ pc' = "judge"
  /\ UNCHANGED <<dnsnode, check, target, nsList, pending, ix, verdict>>

\* dnsnodeClient.Status answered, for any set of servers it likes.
ApiAnswer(serialOf) ==
  /\ pc = "try" /\ dnsnode
  /\ answers' = serialOf
  /\ output' = {s \in DOMAIN serialOf : serialOf[s] # target}
  /\ Mark(DOMAIN serialOf, output')
  /\ pc' = "judge"
  /\ UNCHANGED <<dnsnode, check, target, nsList, pending, ix, verdict>>

\* dnsnodeClient.Status failed: MessageDone with an Error nobody reads.
ApiFails ==
  /\ pc = "try" /\ dnsnode
  /\ pc' = "done"
  /\ UNCHANGED <<dnsnode, check, target, nsList, pending, ix, answers, output, sites, verdict>>

\* Mutant: the output of the previous try is kept.
StartQueriesOldOutput ==
  /\ pc = "try" /\ ~dnsnode
  /\ pending' = nsList
  /\ answers' = Empty
  /\ pc' = "query"
  /\ UNCHANGED <<dnsnode, check, target, nsList, ix, output, sites, verdict>>

StartQueries ==
  /\ pc = "try" /\ ~dnsnode
  /\ pending' = nsList
  /\ answers' = Empty
  /\ output' = {}
  /\ pc' = "query"
  /\ UNCHANGED <<dnsnode, check, target, nsList, ix, sites, verdict>>

\* Mutant: an error breaks the loop over the nameservers.
QueryUntilError(s, serial) ==
  /\ pc = "query"
  /\ s \in pending
  /\ pending' = IF serial = QueryError THEN {} ELSE pending \ {s}
  /\ answers' = [k \in DOMAIN answers \cup {s} |-> IF k = s THEN serial ELSE answers[k]]
  /\ output' = IF serial = target THEN output ELSE output \cup {s}
  /\ Mark({s}, output' \cap {s})
  /\ UNCHANGED <<dnsnode, check, pc, target, nsList, ix, verdict>>

\* get_soa_serial(zone, nsHost); an error counts as a wrong serial.
Query(s, serial) ==
  /\ pc = "query"
  /\ s \in pending
  /\ pending' = pending \ {s}
  /\ answers' = [k \in DOMAIN answers \cup {s} |-> IF k = s THEN serial ELSE answers[k]]
  /\ output' = IF serial = target THEN output ELSE output \cup {s}
  /\ Mark({s}, output' \cap {s})
  /\ UNCHANGED <<dnsnode, check, pc, target, nsList, ix, verdict>>

EndQueries ==
  /\ pc = "query"
  /\ pending = {}
  /\ pc' = "judge"
  /\ UNCHANGED <<dnsnode, check, target, nsList, pending, ix, answers, output, sites, verdict>>

\* No server is wrong: break.
AllRight ==
  /\ pc = "judge"
  /\ ~wrongSerial
  /\ pc' = "report"
  /\ UNCHANGED <<dnsnode, check, target, nsList, pending, ix, answers, output, sites, verdict>>

\* Mutant: one try too many.
SleepAndRetryOnceMore ==
  /\ pc = "judge"
  /\ wrongSerial
  /\ ix' = ix + 1
  /\ pc' = IF ix <= MaxTries THEN "try" ELSE "report"
  /\ UNCHANGED <<dnsnode, check, target, nsList, pending, answers, output, sites, verdict>>

\* Mutant: the tries are not counted.
SleepAndRetryForever ==
  /\ pc = "judge"
  /\ wrongSerial
  /\ pc' = "try"
  /\ UNCHANGED <<dnsnode, check, target, nsList, pending, ix, answers, output, sites, verdict>>

\* Sleep, also after the last try, and go on while there are tries left.
SleepAndRetry ==
  /\ pc = "judge"
  /\ wrongSerial
  /\ ix' = ix + 1
  /\ pc' = IF ix < MaxTries THEN "try" ELSE "report"
  /\ UNCHANGED <<dnsnode, check, target, nsList, pending, answers, output, sites, verdict>>

-----------------------------------------------------------------------------
\* abmon.Notify(config, icingaStatus), then MessageDone.  Response times are
\* sent only when the first try was not yet right.
Report ==
  /\ pc = "report"
  /\ verdict' = [code     |-> IF wrongSerial THEN check.WARNING ELSE OK,
                 response |-> IF ix > 1 THEN [s \in DOMAIN sites |-> Period * sites[s]] ELSE Empty,
                 given    |-> TRUE]
  /\ pc' = "done"
  /\ UNCHANGED <<dnsnode, check, target, nsList, pending, ix, answers, output, sites>>

ServerAnswers == UNION {[S -> Serials] : S \in SUBSET Servers}

\* Steps that take what the network answers, and steps that do not.
Ask ==
  \/ \E serial \in Serials : SoaAnswer(serial)
  \/ \E names \in SUBSET Servers : NsAnswer(names)
  \/ LookupFails
  \/ \E serialOf \in ServerAnswers : ApiAnswer(serialOf)
  \/ ApiFails
  \/ \E s \in Servers : \E serial \in Serials \cup {QueryError} : Query(s, serial)

Proceed == StartQueries \/ EndQueries \/ AllRight \/ SleepAndRetry \/ Report

CheckNext == Ask \/ Proceed

\* Queries and API calls return, with an answer or with an error.
CheckSpec == CheckInit /\ [][CheckNext]_checkVars /\ WF_checkVars(CheckNext)

-----------------------------------------------------------------------------
PartialMap(values) == UNION {[S -> values] : S \in SUBSET Servers}

CheckTypeOK ==
  /\ dnsnode \in BOOLEAN /\ check \in Remappings
  /\ pc \in {"soa", "ns", "try", "query", "judge", "report", "done", "lost"}
  /\ target \in Serials \cup {QueryError}
  /\ nsList \subseteq Servers /\ pending \subseteq nsList
  /\ ix \in 1 .. MaxTries + 1
  /\ answers \in PartialMap(Serials \cup {QueryError})
  /\ output \subseteq Servers
  /\ sites \in PartialMap(0 .. MaxTries)
  /\ verdict.code \in Status /\ verdict.given \in BOOLEAN

(***************************************************************************)
(* The verdict is about the last try and no other: OK if every server that *)
(* was asked in it answered the target serial, and what the command line   *)
(* makes of WARNING (OK, too, with --warning-as ok) if one of them did not *)
(* and that was the last of all the tries.  A zone that is not hosted at   *)
(* DnsNode had all of its nameservers asked in that try, whichever of them *)
(* failed to answer.                                                       *)
(***************************************************************************)
VerdictSound == verdict.given =>
  LET propagated == \A s \in DOMAIN answers : answers[s] = target
  IN  /\ propagated => verdict.code = OK /\ ix <= MaxTries
      /\ ~propagated => verdict.code = check.WARNING /\ ix = MaxTries + 1
      /\ ~dnsnode => DOMAIN answers = nsList

Elapsed == Period * (ix - 1)   \* seconds slept so far

(***************************************************************************)
(* The response times that go with a verdict measure the propagation: none *)
(* exceeds the time the check has slept, and the largest, that of the last *)
(* server to have been wrong, is all of that time.  A check that slept not *)
(* at all sends none.                                                      *)
(***************************************************************************)
ResponseTimesMeasure == verdict.given =>
  /\ \A s \in DOMAIN verdict.response : verdict.response[s] <= Elapsed
  /\ IF Elapsed = 0 THEN verdict.response = Empty
                    ELSE \E s \in DOMAIN verdict.response : verdict.response[s] = Elapsed

\* Within a try, the servers whose entry in the map sites is this try are the
\* ones the output reports.
SitesFollowOutput ==
  pc \in {"query", "judge"} => output = {s \in DOMAIN sites : sites[s] = ix}

\* The check ends, whatever the network answers.
CheckEnds == pc \in {"soa", "ns"} ~> pc \in {"done", "lost"}
=============================================================================
