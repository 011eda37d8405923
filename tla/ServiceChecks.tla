---------------------------- MODULE ServiceChecks ----------------------------
(***************************************************************************)
(* One run of a check that asks a service one question and judges the      *)
(* answer: check_http_redirect, check_ldap_auth, check_radius_auth and     *)
(* check_rrsig_expiry.  They share how they start; what they need, which   *)
(* failure they call CRITICAL and which UNKNOWN, and what they make of the *)
(* answer is their own.                                                    *)
(***************************************************************************)
EXTENDS MonitoringResult

VARIABLES
  pc,
  check,    \* check.WARNING, check.CRITICAL, check.UNKNOWN
  probe,    \* which check this is
  local,    \* whether options, environment and configuration are as it needs them
  address,  \* whether what it was told to connect to is an address at all
  responds, \* whether the service does: in time, and in a way that is understood
  answer,   \* what it answers if it does
  exit      \* exit status of the process

serviceVars == <<probe, local, address, responds, answer>>
vars == <<pc, check, exit, serviceVars>>

Probes == {"http_redirect", "ldap_auth", "radius_auth", "rrsig_expiry"}

\* Answers, by what they tell the checks apart by.
Redirects == [code : {200, 301, 302, 307}, location : {"none", "expected", "other"}]
AnswersTo(p) ==
  CASE p = "http_redirect" -> Redirects
    [] p = "ldap_auth"     -> {"bound", "refused"}
    [] p = "radius_auth"   -> {"accept", "reject", "challenge"}
    [] p = "rrsig_expiry"  -> {"valid", "expiring", "expired"}

Init ==
  /\ check \in Remappings
  /\ probe \in Probes
  /\ local \in BOOLEAN /\ address \in BOOLEAN
  /\ responds \in BOOLEAN
  /\ answer \in AnswersTo(probe)
  /\ pc = "start"
  /\ exit = Running

ExitWith(code) == pc' = "exited" /\ exit' = code

-----------------------------------------------------------------------------
\* NewCheck fails: most checks return the error, one exits with a status.
NotStarted ==
  /\ pc = "start"
  /\ ExitWith(IF probe = "rrsig_expiry" THEN UNKNOWN ELSE Failure)
  /\ UNCHANGED <<check, serviceVars>>

\* The statuses in the order of their names.
Alphabetical == [s \in Status |->
  CASE s = CRITICAL -> 1 [] s = OK -> 2 [] s = UNKNOWN -> 3 [] s = WARNING -> 4]

\* check_rrsig_expiry compares the names of the statuses it was told to use,
\* where it means to compare the limits.
ParametersMakeSense ==
  probe = "rrsig_expiry" => Alphabetical[check.WARNING] > Alphabetical[check.CRITICAL]

\* Only check_http_redirect looks at the address before it connects.
Prepared == local /\ ParametersMakeSense /\ (probe = "http_redirect" => address)

Prepare ==
  /\ pc = "start"
  /\ IF Prepared
       THEN pc' = "ask" /\ UNCHANGED exit
       ELSE ExitWith(check.UNKNOWN)
  /\ UNCHANGED <<check, serviceVars>>

\* Mutant: the bind is not looked at.
WhenSilentBound ==
  CASE probe = "http_redirect" -> check.UNKNOWN
    [] probe = "radius_auth"   -> check.CRITICAL
    [] probe \in {"ldap_auth", "rrsig_expiry"} -> OK

\* A service that does not answer, or whose address is none: for LDAP and RADIUS
\* that is CRITICAL, too; for check_rrsig_expiry an error that is logged, and the
\* process ends with 0.
WhenSilent ==
  CASE probe = "http_redirect"                -> check.UNKNOWN
    [] probe \in {"ldap_auth", "radius_auth"} -> check.CRITICAL
    [] probe = "rrsig_expiry"                 -> OK

\* check_rrsig_expiry prints what it finds, and nothing else.
Accepts ==
  CASE probe = "http_redirect" -> answer.code \in {301, 302} /\ answer.location = "expected"
    [] probe = "ldap_auth"     -> answer = "bound"
    [] probe = "radius_auth"   -> answer = "accept"
    [] probe = "rrsig_expiry"  -> TRUE

Ask ==
  /\ pc = "ask"
  /\ ExitWith(IF ~(address /\ responds) THEN WhenSilent ELSE IF Accepts THEN OK ELSE check.CRITICAL)
  /\ UNCHANGED <<check, serviceVars>>

Next == NotStarted \/ Prepare \/ Ask

Spec == Init /\ [][Next]_vars

-----------------------------------------------------------------------------
(***************************************************************************)
(* OK is about an answer of the service: no check of one says so whose own *)
(* options, environment or address are no good, or that has not heard from *)
(* the service.  check_rrsig_expiry does, and is not among them.           *)
(***************************************************************************)
OkMeansAnswered ==
  exit = OK /\ OK \notin {check.WARNING, check.CRITICAL, check.UNKNOWN} /\ probe # "rrsig_expiry" =>
    local /\ address /\ responds
=============================================================================
