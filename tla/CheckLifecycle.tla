--------------------------- MODULE CheckLifecycle ---------------------------
(***************************************************************************)
(* What the daemon promises for the zone checks, without its channels and  *)
(* goroutines: the checks of one zone happen one after the other, and each *)
(* goes through the same stages.  EventLoop implements it.                 *)
(*                                                                         *)
(* A check whose first lookups fail is lost: its zone is never checked     *)
(* again.  That is what the code does, see JobsTrackRunning in EventLoop.  *)
(***************************************************************************)
CONSTANTS Names, FailingZones

VARIABLE stage  \* stage[n] is how far the check of n is

Stages == {"idle", "accepted", "queued", "running", "finished", "lost"}

Init == stage = [n \in Names |-> "idle"]

Move(n, from, to) ==
  /\ stage[n] = from
  /\ stage' = [stage EXCEPT ![n] = to]

Accept(n) == Move(n, "idle", "accepted")
Enqueue(n) == Move(n, "accepted", "queued")
Start(n) == Move(n, "queued", "running")
Finish(n) == Move(n, "running", "finished")
Lose(n) == n \in FailingZones /\ Move(n, "running", "lost")
Clear(n) == Move(n, "finished", "idle")

Next == \E n \in Names :
  Accept(n) \/ Enqueue(n) \/ Start(n) \/ Finish(n) \/ Lose(n) \/ Clear(n)

Spec == Init /\ [][Next]_stage
=============================================================================
