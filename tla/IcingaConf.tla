------------------------------ MODULE IcingaConf ------------------------------
(***************************************************************************)
(* How a generated configuration file gets into Icinga: the daemon's zones *)
(* file (generateIcingaZonesConf, at startup and on the console) and the   *)
(* DHCP scopes file of check_becs_dhcp_scope (writeIcingaConfig).  Both    *)
(* write a temporary file, compare it with the installed one and, if they  *)
(* differ, copy it over the installed one and reload Icinga.               *)
(*                                                                         *)
(* A file is missing, torn, or holds the configuration generated from one  *)
(* version of the input.  A step may fail, and the process may be killed   *)
(* between any two of them; the files stay as they are.  One run at a time *)
(* is modelled: the daemon generates from one goroutine, and a check is    *)
(* not started while it runs.                                              *)
(***************************************************************************)
EXTENDS Naturals

CONSTANTS
  Versions,  \* versions of the input: zones or scopes
  Faults     \* what may go wrong, of "crash", "create", "write", "compare", "copy",
             \* "sync" and "reload"

Missing == "missing"
Torn == "torn"
Kinds == {"zones", "scopes"}

VARIABLES
  kind,    \* which of the two generators this is
  input,   \* current version of the input
  want,    \* version this run generates the file from
  tmp,     \* the temporary file
  dest,    \* the installed file
  loaded,  \* what Icinga has loaded
  pc,      \* what the run does, or how the last one ended
  missed   \* history: a fault came between the last complete copy and its reload

vars == <<kind, input, want, tmp, dest, loaded, pc, missed>>

Ended == {"killed", "ok", "failed"}
Steps == {"generate", "compare", "copy", "fill", "reload"}
Files == Versions \cup {Missing, Torn}

Init ==
  /\ kind \in Kinds
  /\ input \in Versions
  /\ want = input
  /\ tmp = Missing /\ dest = Missing /\ loaded = Missing
  /\ pc = "killed"
  /\ missed = FALSE

Fault(f) == f \in Faults

\* Mutant: the temporary file stays.
ReturnOnly(result) == pc' = result /\ UNCHANGED tmp

\* writeIcingaConfig removes its temporary file when it returns.
Return(result) ==
  /\ pc' = result
  /\ tmp' = IF kind = "scopes" THEN Missing ELSE tmp

\* A return of writeIcingaConfig before the removal is deferred.
ReturnEarly(file) == pc' = "failed" /\ tmp' = file

-----------------------------------------------------------------------------
EditInput ==
  /\ \E v \in Versions \ {input} : input' = v
  /\ UNCHANGED <<kind, want, tmp, dest, loaded, pc, missed>>

\* A new process reads the input; "generate icinga-conf" on the console of a
\* daemon that has not been killed generates from what it read at its start.
BeginRun ==
  /\ pc \in Ended
  /\ \/ want' = input
     \/ kind = "zones" /\ pc # "killed" /\ want' = want
  /\ pc' = "generate"
  /\ UNCHANGED <<kind, input, tmp, dest, loaded, missed>>

Generate ==
  /\ pc = "generate"
  /\ tmp' = want
  /\ pc' = "compare"
  /\ UNCHANGED <<kind, input, want, dest, loaded, missed>>

CreateFails ==
  /\ pc = "generate" /\ Fault("create")
  /\ ReturnEarly(tmp)
  /\ UNCHANGED <<kind, input, want, dest, loaded, missed>>

\* os.WriteFile reports a failed write; the results of of.WriteString and
\* tmpl.Execute are not looked at or only logged.
WriteFails ==
  /\ pc = "generate" /\ Fault("write")
  /\ IF kind = "scopes" THEN ReturnEarly(Torn) ELSE tmp' = Torn /\ pc' = "compare"
  /\ UNCHANGED <<kind, input, want, dest, loaded, missed>>

\* FileCmp, and os.Stat before it: the same content ends the run.  Two torn
\* files may be the same or not.
Compare ==
  /\ pc = "compare"
  /\ \/ dest = tmp /\ Return("ok")
     \/ (dest # tmp \/ tmp = Torn) /\ pc' = "copy" /\ UNCHANGED tmp
  /\ UNCHANGED <<kind, input, want, dest, loaded, missed>>

\* An error of FileCmp ends a run for the scopes; the zones file is taken to be
\* different, and so is the scopes file if os.Stat fails.
CompareFails ==
  /\ pc = "compare" /\ Fault("compare")
  /\ \/ kind = "scopes" /\ dest # Missing /\ Return("failed")
     \/ pc' = "copy" /\ UNCHANGED tmp
  /\ UNCHANGED <<kind, input, want, dest, loaded, missed>>

\* CopyFile: os.Create truncates the installed file ...
Copy ==
  /\ pc = "copy"
  /\ dest' = Torn
  /\ pc' = "fill"
  /\ UNCHANGED <<kind, input, want, tmp, loaded, missed>>

\* ... and io.Copy and Sync fill it.
Fill ==
  /\ pc = "fill"
  /\ dest' = tmp
  /\ pc' = "reload"
  /\ UNCHANGED <<kind, input, want, tmp, loaded, missed>>

\* Mutant: the error of CopyFile is not returned.
CopyFailsUnnoticed ==
  /\ pc \in {"copy", "fill"} /\ Fault("copy")
  /\ pc' = "reload"
  /\ UNCHANGED <<kind, input, want, tmp, dest, loaded, missed>>

\* Mutant: Icinga is reloaded before the error is returned.
CopyFailsReloading ==
  /\ pc \in {"copy", "fill"} /\ Fault("copy")
  /\ loaded' = dest
  /\ Return("failed")
  /\ UNCHANGED <<kind, input, want, dest, missed>>

\* Opening, creating or copying failed.
CopyFails ==
  /\ pc \in {"copy", "fill"} /\ Fault("copy")
  /\ Return("failed")
  /\ UNCHANGED <<kind, input, want, dest, loaded, missed>>

\* The copy is complete and Sync failed: an error, and no reload.
SyncFails ==
  /\ pc = "fill" /\ Fault("sync")
  /\ dest' = tmp
  /\ Return("failed")
  /\ missed' = TRUE
  /\ UNCHANGED <<kind, input, want, loaded>>

\* Mutant: the reload is left out.
ReloadNever ==
  /\ pc = "reload"
  /\ Return("ok")
  /\ UNCHANGED <<kind, input, want, dest, loaded, missed>>

Reload ==
  /\ pc = "reload"
  /\ loaded' = dest
  /\ Return("ok")
  /\ missed' = FALSE
  /\ UNCHANGED <<kind, input, want, dest>>

\* systemctl failed: ReloadIcinga prints it and returns nothing.
ReloadFails ==
  /\ pc = "reload" /\ Fault("reload")
  /\ Return("ok")
  /\ missed' = TRUE
  /\ UNCHANGED <<kind, input, want, dest, loaded>>

\* The process is killed; a temporary file that is being written stays torn.
Crash ==
  /\ pc \in Steps /\ Fault("crash")
  /\ pc' = "killed"
  /\ tmp' \in IF pc = "generate" THEN {tmp, Torn} ELSE {tmp}
  /\ missed' = (missed \/ pc = "reload")
  /\ UNCHANGED <<kind, input, want, dest, loaded>>

RunStep ==
  \/ Generate \/ CreateFails \/ WriteFails
  \/ Compare \/ CompareFails
  \/ Copy \/ Fill \/ CopyFails \/ SyncFails
  \/ Reload \/ ReloadFails

Next == EditInput \/ BeginRun \/ RunStep \/ Crash

Spec == Init /\ [][Next]_vars

-----------------------------------------------------------------------------
Written == {"compare", "copy", "fill", "reload"}

\* The temporary file holds what the run generates, or a torn write nobody
\* noticed, and is gone when a run for the scopes has returned.
TypeOK ==
  /\ kind \in Kinds
  /\ input \in Versions /\ want \in Versions
  /\ tmp \in Files /\ dest \in Files /\ loaded \in Files
  /\ pc \in Steps \cup Ended /\ missed \in BOOLEAN
  /\ pc \in Written => tmp = want \/ (kind = "zones" /\ Fault("write") /\ tmp = Torn)
  /\ kind = "scopes" /\ pc = "ok" => tmp = Missing

\* What this run has written is torn, and nobody has noticed: the zones generator
\* does not look at the result of its writes, and leaves the temporary file.
TornUnnoticed == kind = "zones" /\ tmp = Torn

(***************************************************************************)
(* A run that reports success has left the installed file with what it     *)
(* generated, whatever earlier runs left behind when they failed or were   *)
(* killed, a torn file included; or, for the zones, with what it wrote     *)
(* into the temporary file if that was torn unnoticed.                     *)
(***************************************************************************)
InstalledWhenOk == pc = "ok" => dest = want \/ (TornUnnoticed /\ dest = tmp)

(***************************************************************************)
(* Icinga is only made to load a file that has been copied to its end:     *)
(* the installed one when it is the same as the temporary one, which holds *)
(* what this run generates or was torn unnoticed.  Nothing is loaded on    *)
(* the way out of a run that fails.                                        *)
(***************************************************************************)
LoadsInstalled == loaded' # loaded =>
  /\ pc = "reload" /\ pc' = "ok" /\ loaded' = dest
  /\ dest = tmp /\ (dest = want \/ TornUnnoticed)
ReloadsInstalled == [][LoadsInstalled]_vars

(***************************************************************************)
(* "reloads Icinga2 if the generated file changed": after a run that       *)
(* reports success, Icinga has loaded the installed file.                  *)
(***************************************************************************)
LoadedWhenOk == pc = "ok" => loaded = dest

(***************************************************************************)
(* What LoadedWhenOk takes: the last complete copy was not followed by a   *)
(* crash, a failed sync or a failed reload.  Copies that are torn, runs    *)
(* that are killed elsewhere and all other faults do no harm.  (A torn     *)
(* file may look like another torn one, and is then not loaded.)           *)
(***************************************************************************)
LoadedUnlessMissed == pc = "ok" /\ ~missed => loaded = dest \/ dest = Torn
=============================================================================
