----------------------------- MODULE MCEventLoop -----------------------------
(* Values of the constants of EventLoop for TLC.                              *)
EXTENDS EventLoop, TLC

\* Every command an operator can type, and the ones that enqueue no check.
AllCommands == {CheckName(n) : n \in Names} \cup {CheckAll, OtherCommand}
PlainCommands == {OtherCommand}
CheckAllOnly == {CheckAll}

\* Workers are interchangeable, and so are sessions.  Used by the safety run only.
Symmetry == Permutations(Workers) \cup Permutations(Sessions)
=============================================================================
