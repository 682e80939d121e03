-------------------------- MODULE MCCacheManagement --------------------------
(* Three components, the first of which has two parts, and a task with a    *)
(* dependency: as many ways as the tasks of two cores need, or one too few. *)
EXTENDS CacheManagement

MCStart == [A |-> 3, B |-> 8, C |-> 9]
MCEnd == [A |-> 8, B |-> 9, C |-> 10]
MCTasks == {<<"A">>, <<"C">>, <<"B", "C">>}
MCVariants == [backend : {"coloring", "lockdown", "cat"}, evictAfterUse : BOOLEAN]
=============================================================================
