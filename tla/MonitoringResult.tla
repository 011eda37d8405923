--------------------------- MODULE MonitoringResult ---------------------------
(***************************************************************************)
(* The status of a check as the shared package keeps it: NewResult,        *)
(* SetStatus and Exit of MonitoringResult and MonitoringCheck, the         *)
(* remapping of statuses by --warning-as, --critical-as and --unknown-as,  *)
(* and the thresholds of a range.                                          *)
(***************************************************************************)
EXTENDS Integers

CONSTANT Remappings  \* what the command line makes of the statuses

OK == 0
WARNING == 1
CRITICAL == 2
UNKNOWN == 3

Status == OK .. UNKNOWN

\* A check starts out as UNKNOWN ...
NewResult == UNKNOWN

\* ... its status is only ever raised ...
SetStatus(status, to) == IF to > status THEN to ELSE status

\* ... unless it exits with a status of its own; -1 keeps what was set.
ExitStatus(status, with) == IF with >= 0 THEN with ELSE status

\* The codes a check is to use instead of WARNING, CRITICAL and UNKNOWN.
Remapping == [WARNING : Status, CRITICAL : Status, UNKNOWN : Status]
Unmapped == [WARNING |-> WARNING, CRITICAL |-> CRITICAL, UNKNOWN |-> UNKNOWN]

ASSUME RemappingAssumption == Remappings \subseteq Remapping

\* Statuses a process has that does not end with an exit of the check: an error
\* that is returned, and a panic.
Failure == 1
Panic == 2
Running == -1

\* A range is warning:critical; a value beyond a threshold exceeds it.
CheckWarnCritical(range, value) ==
  IF value > range.end THEN CRITICAL ELSE IF value > range.start THEN WARNING ELSE OK
=============================================================================
