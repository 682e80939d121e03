---------------------------- MODULE MCScheduler -----------------------------
(* Two cores; two tasks that only differ in their arrival, an interrupt    *)
(* task with another component, and one that is bound to a core and needs  *)
(* both components.                                                        *)
EXTENDS Scheduler

CONSTANTS e1, e2, e3, e4, c1, c2

TaskPriority == (e1 :> 2) @@ (e2 :> 1) @@ (e3 :> 1) @@ (e4 :> 2)
TaskAffinity == (e1 :> All) @@ (e2 :> All) @@ (e3 :> All) @@ (e4 :> c1)
InterruptTasks == {e1}
TaskComponents == (e1 :> {"B"}) @@ (e2 :> {"A"}) @@ (e3 :> {"A"}) @@ (e4 :> {"A", "B"})
=============================================================================
