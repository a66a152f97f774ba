----------------------------- MODULE MCPhysicsTrial -----------------------------
(* PhysicsTrial for TLC: two cameras, so that a frame may be half there, a trial  *)
(* that is sound and some that each break one rule.                               *)
EXTENDS PhysicsTrial

CONSTANTS c1, c2

MCCams == {c1, c2}

Object(team, id) == [key |-> <<team, id>>, radius |-> 1, at |-> 3]
Sound == [dt |-> 1, trial |-> 1, seed |-> 0, complete |-> TRUE,
          objects |-> <<Object("yellow", 0), Object("blue", 0)>>]
MCRequests == {Sound, [Sound EXCEPT !.dt = 3], [Sound EXCEPT !.trial = 0], [Sound EXCEPT !.complete = FALSE],
               [Sound EXCEPT !.objects[2] = Object("yellow", 0)],
               [Sound EXCEPT !.objects[2] = Object("blue", 16)],
               [Sound EXCEPT !.objects[2].radius = 2],
               [Sound EXCEPT !.objects[1].at = 4]}
================================================================================
