------------------------------ MODULE FileStatus ------------------------------
(***************************************************************************)
(* One run of check_file_status while the job whose status it reports may  *)
(* rewrite or remove the file: look at the file's age, then open it and    *)
(* take the status from its first line.                                    *)
(*                                                                         *)
(* The job is not part of the repository: it writes the file in whatever   *)
(* steps, and may be stopped in between.  Opening and reading the file is  *)
(* one step here.                                                          *)
(***************************************************************************)
EXTENDS MonitoringResult

CONSTANTS
  MaxTime,      \* bound: the time is 0 .. MaxTime, in the unit of the ages
  AgeWarnings,  \* values of --age_warning ...
  AgeCriticals  \* ... and of --age_critical

Nothing == -2   \* there is no file
Blank == -1     \* what its first line says is no status

VARIABLES
  pc,
  check,   \* check.WARNING, check.CRITICAL, check.UNKNOWN
  limits,  \* opts.AgeWarning, opts.AgeCritical
  now,
  line,    \* first line of the file
  mtime,   \* when the file was modified
  looked,  \* history: when the check looked at the file's age
  exit     \* exit status of the process

fileVars == <<limits, now, line, mtime, looked>>
vars == <<pc, check, exit, fileVars>>

Init ==
  /\ check \in Remappings
  /\ limits \in [warning : AgeWarnings, critical : AgeCriticals]
  /\ line \in {Nothing, Blank} \cup Status
  /\ mtime = 0 /\ now \in 0 .. MaxTime
  /\ pc = "stat"
  /\ looked = 0
  /\ exit = Running

-----------------------------------------------------------------------------
(* The job and the time, until the check has ended.                         *)

Job ==
  /\ exit = Running
  /\ line' \in {Nothing, Blank} \cup Status
  /\ mtime' = now
  /\ UNCHANGED <<pc, check, exit, limits, now, looked>>

Tick ==
  /\ exit = Running /\ now < MaxTime
  /\ now' = now + 1
  /\ UNCHANGED <<pc, check, exit, limits, line, mtime, looked>>

-----------------------------------------------------------------------------
ExitWith(code) == pc' = "exited" /\ exit' = code

\* Mutant: the critical limit is not looked at.
JudgeWarning(a) ==
  IF a > limits.warning THEN ExitWith(check.WARNING) ELSE pc' = "open" /\ UNCHANGED exit

JudgeAge(a) ==
  IF a > limits.critical THEN ExitWith(check.CRITICAL)
  ELSE IF a > limits.warning THEN ExitWith(check.WARNING)
  ELSE pc' = "open" /\ UNCHANGED exit

\* os.Stat: there may be no file, or it cannot be looked at.
Stat ==
  /\ pc = "stat"
  /\ looked' = now
  /\ ExitWith(check.UNKNOWN) \/ (line # Nothing /\ JudgeAge(now - mtime))
  /\ UNCHANGED <<check, limits, now, line, mtime>>

\* Mutant: a line that is no status counts as OK.
ReadBlankIsOk ==
  /\ pc = "open"
  /\ ExitWith(check.UNKNOWN) \/ (line # Nothing /\ ExitWith(IF line = Blank THEN OK ELSE line))
  /\ UNCHANGED <<check, fileVars>>

\* os.Open may fail; the status of the line is not remapped.
Read ==
  /\ pc = "open"
  /\ \/ ExitWith(check.UNKNOWN)
     \/ line # Nothing /\ ExitWith(IF line = Blank THEN check.UNKNOWN ELSE line)
  /\ UNCHANGED <<check, fileVars>>

Next == Job \/ Tick \/ Stat \/ Read

Spec == Init /\ [][Next]_vars

-----------------------------------------------------------------------------
(***************************************************************************)
(* A status is passed on only if it stands in the file, written no longer  *)
(* before the check looked than either limit allows, or since; a file that *)
(* is being rewritten, or goes away under the check, makes it UNKNOWN.     *)
(* With statuses as they are, OK means so.                                 *)
(***************************************************************************)
FreshStatus == exit = OK /\ OK \notin {check.WARNING, check.CRITICAL, check.UNKNOWN} =>
  /\ line = OK
  /\ looked - mtime <= limits.warning /\ looked - mtime <= limits.critical
=============================================================================
