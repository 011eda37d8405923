-------------------------- MODULE SessionLifecycle --------------------------
(***************************************************************************)
(* What the daemon promises the users of its console, without channels,    *)
(* locks and writes: a session that has submitted a command gets its next  *)
(* prompt when that command has been executed, and not before; commands    *)
(* are executed one at a time; and a session is left at its prompt only.   *)
(* EventLoop and TelnetClients implement it.                               *)
(***************************************************************************)
CONSTANT Sessions

VARIABLE stage  \* stage[s] is what the session s is at

Stages == {"none", "prompt", "queued", "executing"}

Init == stage = [s \in Sessions |-> "none"]

Move(s, from, to) ==
  /\ stage[s] = from
  /\ stage' = [stage EXCEPT ![s] = to]

Open(s) == Move(s, "none", "prompt")
Submit(s) == Move(s, "prompt", "queued")
Execute(s) == (\A t \in Sessions : stage[t] # "executing") /\ Move(s, "queued", "executing")
Done(s) == Move(s, "executing", "prompt")
Leave(s) == Move(s, "prompt", "none")

Next == \E s \in Sessions : Open(s) \/ Submit(s) \/ Execute(s) \/ Done(s) \/ Leave(s)

Spec == Init /\ [][Next]_stage
=============================================================================
