------------------------------ MODULE BecsScopes ------------------------------
(***************************************************************************)
(* One run of check_becs_dhcp_scope: ask BECS for the addresses of the     *)
(* DHCP scopes one by one, over a session that the first request opens,    *)
(* then write Icinga's configuration, send one passive result per scope    *)
(* and exit with a status.                                                 *)
(*                                                                         *)
(* HTTP and JSON are left out: a call returns, or fails in one of the many *)
(* ways that all end the check.                                            *)
(***************************************************************************)
EXTENDS MonitoringResult, SequencesExt

CONSTANTS
  DhcpScopes,  \* config.DhcpScopes: the names, sorted
  BadOids,     \* those whose oid is not a number
  ScopeOpts,   \* command lines
  Answers,     \* lists of prefixes BECS may report for a scope
  FreeWarning,
  FreeCritical

VARIABLES
  pc,
  check,      \* check.WARNING, check.CRITICAL, check.UNKNOWN
  scopeOpts,  \* opts: scopes, exclude, icinga, file; and notify_nagios
  todo,       \* what the loop has still to visit: names, then results
  sessionID,  \* of the client, or "none"
  opened,     \* history: sessions this process has opened at BECS, and not closed
  results,
  overall,
  installed,  \* what became of the configuration file
  sent,       \* passive results sent
  exit        \* exit status of the process

becsVars == <<scopeOpts, todo, sessionID, opened, results, overall, installed, sent>>
vars == <<pc, check, exit, becsVars>>

Init ==
  /\ check \in Remappings
  /\ scopeOpts \in ScopeOpts
  /\ pc = "client"
  /\ todo = IF scopeOpts.scopes = <<>> THEN DhcpScopes ELSE scopeOpts.scopes
  /\ sessionID = "none" /\ opened = 0
  /\ results = <<>> /\ overall = OK
  /\ installed = "unchanged" /\ sent = <<>>
  /\ exit = Running

\* os.Exit: the deferred Logout does not run.
ExitWith(code) == pc' = "exited" /\ exit' = code

-----------------------------------------------------------------------------
(* The scopes.                                                              *)

\* newBecsClient: url and username may be missing.
NewClient ==
  /\ pc = "client"
  /\ \/ pc' = "scopes" /\ UNCHANGED exit
     \/ ExitWith(check.UNKNOWN)
  /\ UNCHANGED <<check, becsVars>>

AtScope == pc = "scopes" /\ todo # <<>>
Name == Head(todo)
Excluded == Name \in scopeOpts.exclude

Exclude ==
  /\ AtScope /\ Excluded
  /\ todo' = Tail(todo)
  /\ UNCHANGED <<pc, check, exit, scopeOpts, sessionID, opened, results, overall, installed, sent>>

\* The scope is not in the configuration, or its oid is not a number.
Unknown ==
  /\ AtScope /\ ~Excluded
  /\ Name \notin ToSet(DhcpScopes) \ BadOids
  /\ ExitWith(check.UNKNOWN)
  /\ UNCHANGED <<check, becsVars>>

Fetchable == AtScope /\ ~Excluded /\ Name \in ToSet(DhcpScopes) \ BadOids

\* Mutant: the session that was opened is not remembered.
LoginForgotten ==
  /\ Fetchable /\ sessionID = "none"
  /\ opened' = opened + 1
  /\ UNCHANGED <<pc, check, exit, scopeOpts, todo, sessionID, results, overall, installed, sent>>

\* call() without a session.
Login ==
  /\ Fetchable /\ sessionID = "none"
  /\ sessionID' = "session"
  /\ opened' = opened + 1
  /\ UNCHANGED <<pc, check, exit, scopeOpts, todo, results, overall, installed, sent>>

\* Mutant: a scope that cannot be fetched is left out.
SkipScope ==
  /\ Fetchable
  /\ todo' = Tail(todo)
  /\ UNCHANGED <<pc, check, exit, scopeOpts, sessionID, opened, results, overall, installed, sent>>

\* sessionLogin or rdrGet fails.
CallFails ==
  /\ Fetchable
  /\ ExitWith(check.UNKNOWN)
  /\ UNCHANGED <<check, becsVars>>

\* The counts of a scope's prefixes, added up.
Free(prefixes) == FoldLeft(LAMBDA sum, p : sum + p.free, 0, prefixes)
Total(prefixes) == FoldLeft(LAMBDA sum, p : sum + p.free + p.assigned + p.excluded, 0, prefixes)

Grade(free, warning, critical) ==
  IF free < FreeCritical THEN critical ELSE IF free < FreeWarning THEN warning ELSE OK

\* Mutant: the last scope decides.
FetchLastDecides(prefixes) ==
  /\ Fetchable /\ sessionID # "none"
  /\ results' = Append(results, [name |-> Name, free |-> Free(prefixes), total |-> Total(prefixes)])
  /\ overall' = Grade(Free(prefixes), check.WARNING, check.CRITICAL)
  /\ todo' = Tail(todo)
  /\ UNCHANGED <<pc, check, exit, scopeOpts, sessionID, opened, installed, sent>>

Fetch(prefixes) ==
  /\ Fetchable /\ sessionID # "none"
  /\ results' = Append(results, [name |-> Name, free |-> Free(prefixes), total |-> Total(prefixes)])
  /\ LET status == Grade(Free(prefixes), check.WARNING, check.CRITICAL)
     IN  overall' = IF status > overall THEN status ELSE overall
  /\ todo' = Tail(todo)
  /\ UNCHANGED <<pc, check, exit, scopeOpts, sessionID, opened, installed, sent>>

-----------------------------------------------------------------------------
(* The results.                                                             *)

ScopesDone ==
  /\ pc = "scopes" /\ todo = <<>>
  /\ pc' = CASE scopeOpts.icinga /\ scopeOpts.file   -> "config"
             [] scopeOpts.icinga /\ ~scopeOpts.file  -> "send"
             [] OTHER                                -> "exit"
  /\ todo' = IF scopeOpts.icinga THEN results ELSE <<>>
  /\ UNCHANGED <<check, exit, scopeOpts, sessionID, opened, results, overall, installed, sent>>

\* writeIcingaConfig: nothing to do, or copied, or it fails, maybe while copying
\* or after it.
WriteConfig ==
  /\ pc = "config"
  /\ \/ installed' \in {"unchanged", "new"} /\ pc' = "send" /\ UNCHANGED exit
     \/ installed' \in {"unchanged", "torn", "new"} /\ ExitWith(check.UNKNOWN)
  /\ UNCHANGED <<check, scopeOpts, todo, sessionID, opened, results, overall, sent>>

\* sendIcingaResults leaves out a scope that has no prefix.
SendNothing ==
  /\ pc = "send" /\ todo # <<>> /\ Head(todo).total = 0
  /\ todo' = Tail(todo)
  /\ UNCHANGED <<pc, check, exit, scopeOpts, sessionID, opened, results, overall, installed, sent>>

\* Mutant: all addresses count, assigned ones, too.
SendOfTotal ==
  /\ pc = "send" /\ todo # <<>> /\ Head(todo).total # 0
  /\ sent' = Append(sent, [name |-> Head(todo).name,
                           code |-> Grade(Head(todo).total, WARNING, CRITICAL)])
  /\ todo' = Tail(todo)
  /\ UNCHANGED <<pc, check, exit, scopeOpts, sessionID, opened, results, overall, installed>>

\* Icinga is sent the status itself, whatever the command line makes of it.
\* With notify_nagios Notify panics, after it has sent; only then do the
\* deferred calls run, and log out.
Send ==
  /\ pc = "send" /\ todo # <<>> /\ Head(todo).total # 0
  /\ sent' = Append(sent, [name |-> Head(todo).name,
                           code |-> Grade(Head(todo).free, WARNING, CRITICAL)])
  /\ IF scopeOpts.nagios
       THEN /\ ExitWith(Panic)
            /\ sessionID' = "none"
            /\ opened' \in {opened, opened - 1}
            /\ UNCHANGED todo
       ELSE todo' = Tail(todo) /\ UNCHANGED <<pc, exit, sessionID, opened>>
  /\ UNCHANGED <<check, scopeOpts, results, overall, installed>>

Exit ==
  /\ pc \in {"send", "exit"} /\ todo = <<>>
  /\ ExitWith(overall)
  /\ UNCHANGED <<check, becsVars>>

Next ==
  \/ NewClient \/ Exclude \/ Unknown \/ Login \/ CallFails
  \/ \E prefixes \in Answers : Fetch(prefixes)
  \/ ScopesDone \/ WriteConfig \/ SendNothing \/ Send \/ Exit

Spec == Init /\ [][Next]_vars

-----------------------------------------------------------------------------
\* A process opens one session at most, and asks for no scope without one.
TypeOK ==
  /\ pc \in {"client", "scopes", "config", "send", "exit", "exited"}
  /\ check \in Remappings /\ scopeOpts \in ScopeOpts
  /\ sessionID \in {"none", "session"} /\ opened \in 0 .. 1
  /\ results # <<>> /\ exit # Panic => sessionID # "none" /\ opened = 1
  /\ overall \in Status
  /\ installed \in {"unchanged", "new", "torn"}
  /\ exit \in Status \cup {Running}

\* The scopes the command line asks for, by their places in its list.
Asked == IF scopeOpts.scopes = <<>> THEN DhcpScopes ELSE scopeOpts.scopes
Wanted == {i \in DOMAIN Asked : Asked[i] \notin scopeOpts.exclude}

\* The results are those of the wanted scopes, one for each and in their order.
AllFetched ==
  \E place \in [DOMAIN results -> Wanted] :
    /\ \A i, j \in DOMAIN results : i < j => place[i] < place[j]
    /\ \A i \in DOMAIN results : results[i].name = Asked[place[i]]
    /\ \A w \in Wanted : \E i \in DOMAIN results : place[i] = w

\* The last exit was reached: no other leaves the loops with nothing to do.
Finished == pc = "exited" /\ todo = <<>> /\ results # <<>>

(***************************************************************************)
(* All or nothing: Icinga's configuration is touched, and a result sent,   *)
(* only when every scope asked for has been fetched; one failing scope     *)
(* must not take the services of the others out of the file.               *)
(***************************************************************************)
AllOrNothing == installed # "unchanged" \/ sent # <<>> => AllFetched

Codes(warning, critical) == {Grade(results[i].free, warning, critical) : i \in DOMAIN results}

(***************************************************************************)
(* The exit status is the worst of what the command line makes of the      *)
(* scopes' statuses.  With statuses as they are, each result sent is the   *)
(* one the scope's free addresses call for, and none is worse than the     *)
(* exit status.                                                            *)
(***************************************************************************)
StatusesAgree ==
  /\ Finished => /\ exit \in Codes(check.WARNING, check.CRITICAL) \cup {OK}
                 /\ \A code \in Codes(check.WARNING, check.CRITICAL) : code <= exit
  /\ check = Unmapped => \A i \in DOMAIN sent :
       /\ \E j \in DOMAIN results : /\ results[j].name = sent[i].name
                                    /\ sent[i].code = Grade(results[j].free, WARNING, CRITICAL)
       /\ Finished => sent[i].code <= exit

(***************************************************************************)
(* OK is about all scopes asked for: a check that could not fetch one of   *)
(* them, or not write Icinga's configuration, does not say so.             *)
(***************************************************************************)
OkMeansFetched ==
  exit = OK /\ OK \notin {check.WARNING, check.CRITICAL, check.UNKNOWN} =>
    AllFetched /\ installed # "torn"
=============================================================================
