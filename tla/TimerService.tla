---------------------------- MODULE TimerService ----------------------------
(***************************************************************************)
(* What the software timer promises for one kind of timer events: an event *)
(* that was requested and armed calls its client's trigger in the tick in  *)
(* which its time is over, neither earlier nor later, once or again and    *)
(* again.                                                                  *)
(***************************************************************************)
EXTENDS Naturals

CONSTANTS Event, Nil,
          Recurs  \* whether an event is armed again when it has fired

VARIABLES request,  \* calls that have an event but have not armed it yet
          client,   \* the trigger of an armed event
          left,     \* ticks until an armed event is due
          period,   \* the ticks for which it was armed, if it recurs
          calls     \* calls of triggers that have not ended

vars == <<request, client, left, period, calls>>

Init ==
    /\ request = [e \in Event |-> Nil]
    /\ client = [e \in Event |-> Nil]
    /\ left = [e \in Event |-> Nil]
    /\ period = [e \in Event |-> Nil]
    /\ \A e \in Event : \A t \in DOMAIN calls[e] : calls[e][t] = 0

Armed(e) == left[e] # Nil
Due(e) == left[e] = 0

Request(e) ==
    /\ ~Armed(e) /\ request[e] = Nil
    /\ request'[e] \in [trigger : DOMAIN calls[e], ticks : Nat \ {0}]
    /\ request' = [request EXCEPT ![e] = request'[e]]
    /\ UNCHANGED <<client, left, period, calls>>

Arm(e) ==
    /\ request[e] # Nil
    /\ request' = [request EXCEPT ![e] = Nil]
    /\ client' = [client EXCEPT ![e] = request[e].trigger]
    /\ left' = [left EXCEPT ![e] = request[e].ticks]
    /\ period' = [period EXCEPT ![e] = IF Recurs THEN request[e].ticks ELSE Nil]
    /\ UNCHANGED calls

Disarm(e) ==
    /\ client' = [client EXCEPT ![e] = Nil]
    /\ left' = [left EXCEPT ![e] = Nil]
    /\ period' = [period EXCEPT ![e] = Nil]

Cancel(e) ==
    /\ Armed(e) /\ ~Due(e)
    /\ Disarm(e)
    /\ UNCHANGED <<request, calls>>

Tick ==
    /\ \A e \in Event : ~Due(e)
    /\ left' = [e \in Event |-> IF Armed(e) THEN left[e] - 1 ELSE Nil]
    /\ UNCHANGED <<request, client, period, calls>>

(* The system may be out of tasks: then the call is dropped. *)
Fire(e) ==
    /\ Due(e)
    /\ \/ calls' = [calls EXCEPT ![e][client[e]] = @ + 1]
       \/ UNCHANGED calls
    /\ IF Recurs
       THEN left' = [left EXCEPT ![e] = period[e]] /\ UNCHANGED <<client, period>>
       ELSE Disarm(e)
    /\ UNCHANGED request

EndCall(e) ==
    /\ \E t \in DOMAIN calls[e] :
          calls[e][t] > 0 /\ calls' = [calls EXCEPT ![e][t] = @ - 1]
    /\ UNCHANGED <<request, client, left, period>>

Next ==
    \/ Tick
    \/ \E e \in Event : Request(e) \/ Arm(e) \/ Cancel(e) \/ Fire(e) \/ EndCall(e)

Spec == Init /\ [][Next]_vars
=============================================================================
