--------------------------- MODULE MCEventHandler ---------------------------
(* Two cores and three triggers over four components: the timer's own      *)
(* trigger, started by its interrupt, and application triggers that share  *)
(* a component as destination, as dependency, and as dependency of both.   *)
EXTENDS EventHandler, TLC

CONSTANTS c1, c2, s1, s2, t1, t2, i1, ev, irq, shot,
          tick, app, helper, Timer, A, B, C

MCDestination == tick :> Timer @@ app :> A @@ helper :> B
MCDeps == tick :> {} @@ app :> {C} @@ helper :> {C}
MCPriority == tick :> 2 @@ app :> 2 @@ helper :> 1
MCAffinity == tick :> Global @@ app :> c2 @@ helper :> Global
MCInitSubscribers ==
    [e \in Event |-> IF e = irq THEN <<tick>> ELSE IF e = ev THEN <<app, helper>> ELSE <<>>]

Symmetry == Permutations({t1, t2}) \cup Permutations({s1, s2})
=============================================================================
