--------------------------- MODULE IcingaConfProofs ---------------------------
(***************************************************************************)
(* Proofs about IcingaConf: whatever steps fail and wherever a run is      *)
(* killed, a run that reports success has installed what it generated, and *)
(* Icinga never loads anything else; the zones generator may take what is  *)
(* torn for what it generated.                                             *)
(***************************************************************************)
EXTENDS IcingaConf, TLAPS

\* Between the copy and the reload the installed file is the temporary one.
CopiedBeforeReload == pc = "reload" => dest = tmp

\* Unless a fault came in between, what is installed and not torn is loaded.
LoadedBeforeCopy == ~missed /\ pc # "reload" => loaded = dest \/ dest = Torn

IInv == TypeOK /\ CopiedBeforeReload /\ InstalledWhenOk /\ LoadedBeforeCopy

\* What a run may have in its files when it has generated.
Generated(file) == file = want \/ (kind = "zones" /\ Fault("write") /\ file = Torn)

LEMMA InitInv == Init => IInv
  BY DEF Init, IInv, TypeOK, CopiedBeforeReload, InstalledWhenOk, TornUnnoticed, LoadedBeforeCopy,
         Files, Ended, Steps, Written

\* A step of the run that fails, or that comes before the installed file is
\* compared with or filled from the temporary one.
LEMMA EarlyStep ==
  ASSUME IInv,
         \/ Generate \/ CreateFails \/ WriteFails \/ CompareFails
         \/ Copy \/ CopyFails \/ SyncFails
  PROVE  IInv'
<1> USE DEF IInv, TypeOK, CopiedBeforeReload, InstalledWhenOk, TornUnnoticed, LoadedBeforeCopy,
            Files, Ended, Steps, Written
<1>1. CASE Generate
  BY <1>1 DEF Generate
<1>2. CASE CreateFails
  BY <1>2 DEF CreateFails, ReturnEarly
<1>3. CASE WriteFails
  BY <1>3 DEF WriteFails, ReturnEarly, Kinds
<1>4. CASE CompareFails
  BY <1>4 DEF CompareFails, Return, Kinds
<1>5. CASE Copy
  BY <1>5 DEF Copy
<1>6. CASE CopyFails
  BY <1>6 DEF CopyFails, Return
<1>7. CASE SyncFails
  BY <1>7 DEF SyncFails, Return
<1> QED
  BY <1>1, <1>2, <1>3, <1>4, <1>5, <1>6, <1>7

\* The steps that establish CopiedBeforeReload and InstalledWhenOk.
LEMMA LateStep ==
  ASSUME IInv, Compare \/ Fill \/ Reload \/ ReloadFails
  PROVE  IInv'
<1> USE DEF IInv, TypeOK, CopiedBeforeReload, InstalledWhenOk, TornUnnoticed, LoadedBeforeCopy,
            Files, Ended, Steps, Written
<1>1. CASE Compare
  <2>1. pc = "compare" /\ Generated(tmp)
    BY <1>1 DEF Compare, Generated
  <2>2. CASE dest = tmp /\ Return("ok")
    BY <1>1, <2>1, <2>2 DEF Compare, Return, Generated
  <2>3. CASE pc' = "copy" /\ UNCHANGED tmp
    BY <1>1, <2>1, <2>3 DEF Compare, Generated
  <2> QED
    BY <1>1, <2>2, <2>3 DEF Compare
<1>2. CASE Fill
  BY <1>2 DEF Fill
<1>3. CASE Reload
  BY <1>3 DEF Reload, Return
<1>4. CASE ReloadFails
  BY <1>4 DEF ReloadFails, Return
<1> QED
  BY <1>1, <1>2, <1>3, <1>4

LEMMA NextInv == IInv /\ [Next]_vars => IInv'
<1> SUFFICES ASSUME IInv, [Next]_vars
             PROVE  IInv'
  OBVIOUS
<1>1. CASE EditInput
  BY <1>1 DEF EditInput, IInv, TypeOK, CopiedBeforeReload, InstalledWhenOk, TornUnnoticed, LoadedBeforeCopy
<1>2. CASE BeginRun
  BY <1>2 DEF BeginRun, IInv, TypeOK, CopiedBeforeReload, InstalledWhenOk, TornUnnoticed,
                LoadedBeforeCopy, Written, Steps, Ended
<1>3. CASE RunStep
  BY <1>3, EarlyStep, LateStep DEF RunStep
<1>4. CASE Crash
  BY <1>4 DEF Crash, IInv, TypeOK, CopiedBeforeReload, InstalledWhenOk, TornUnnoticed,
                LoadedBeforeCopy, Files, Ended, Written
<1>5. CASE UNCHANGED vars
  BY <1>5 DEF vars, IInv, TypeOK, CopiedBeforeReload, InstalledWhenOk, TornUnnoticed, LoadedBeforeCopy
<1> QED
  BY <1>1, <1>2, <1>3, <1>4, <1>5 DEF Next

\* What files, run and history may hold; a run that has written its temporary
\* file has what it generates there, or something torn if a failed write of the
\* daemon went unnoticed.
THEOREM TypeCorrect == Spec => []TypeOK
<1>1. IInv => TypeOK
  BY DEF IInv
<1> QED
  BY <1>1, InitInv, NextInv, PTL DEF Spec

\* A run that reports success has left the installed file with what it
\* generated, or with what it wrote into the temporary file if that was torn and
\* the zones generator did not notice: generateIcingaZonesConf and
\* writeIcingaConfig return nil only after a comparison that found the files the
\* same, or a complete copy.
THEOREM InstalledOnSuccess == Spec => []InstalledWhenOk
<1>1. IInv => InstalledWhenOk
  BY DEF IInv
<1> QED
  BY <1>1, InitInv, NextInv, PTL DEF Spec

\* After a run that reports success Icinga has loaded what is installed, unless
\* a crash, a failed sync or a failed reload came after the last complete copy:
\* the comparison of files then hides from later runs that a reload is due.
THEOREM LoadedOnSuccess == Spec => []LoadedUnlessMissed
<1>1. IInv => LoadedUnlessMissed
  BY DEF IInv, LoadedBeforeCopy, LoadedUnlessMissed
<1> QED
  BY <1>1, InitInv, NextInv, PTL DEF Spec

\* In every step that makes Icinga load something.
LEMMA InvLoads == IInv /\ [Next]_vars => LoadsInstalled
<1> SUFFICES ASSUME IInv, [Next]_vars, loaded' # loaded PROVE LoadsInstalled
  BY DEF LoadsInstalled
<1>1. Reload
  BY DEF Next, vars, EditInput, BeginRun, Crash, RunStep, Generate, CreateFails,
         WriteFails, Compare, CompareFails, Copy, Fill, CopyFails, SyncFails, ReloadFails
<1> QED
  BY <1>1 DEF Reload, Return, LoadsInstalled, IInv, TypeOK, CopiedBeforeReload, Written, TornUnnoticed

\* Icinga is made to load nothing but the installed file, when it is the same as
\* the temporary one and that is what the run generates, or a write of the zones
\* generator that was torn unnoticed: both generators call ReloadIcinga only
\* after CopyFile has returned nil.
THEOREM ReloadsOnlyInstalled == Spec => ReloadsInstalled
<1>1. IInv /\ [Next]_vars => [LoadsInstalled]_vars
  BY InvLoads
<1> QED
  BY <1>1, InitInv, NextInv, PTL DEF Spec, ReloadsInstalled
=============================================================================
