------------------------------- MODULE MCStrays -------------------------------
(* One stray, which both hands may hold at once: it is collected again      *)
(* while a hand is at work on it.  On one of the hands two goroutines meet. *)
EXTENDS Strays, TLC

CONSTANTS c1, f1, h1, h2

MCFidOf == c1 :> f1
MCSlots == (h1 :> {1, 2}) @@ (h2 :> {1})
\* One hand, for liveness.
MCSlotsOne == h1 :> {1, 2}
\* Nothing is claimed of what follows a race.
NotRaced == ~ raced
=============================================================================
