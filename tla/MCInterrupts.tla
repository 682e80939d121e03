---------------------------- MODULE MCInterrupts ----------------------------
(***************************************************************************)
(* The instance of Interrupts that is model-checked: two cores, and for    *)
(* every machine what may be typed on it.  The PC's pool of interrupt      *)
(* tasks is small enough to run out; the boards need at most two tasks for *)
(* each of their two lines.                                                *)
(***************************************************************************)
EXTENDS Interrupts

Scenario(keys, ticks) == [keys |-> keys, ticks |-> ticks]

Typed == {Scenario(<<"a", "enter">>, 1), Scenario(<<"b", "backspace">>, 0), Scenario(<<"c">>, 2), Scenario(<<"a", "b", "c">>, 0)}

\* a and enter; shift and a; caps lock and a; slash of the keypad.
ScanCodes == {Scenario(<<30, 28>>, 2), Scenario(<<42, 30, 28>>, 0), Scenario(<<58, 30>>, 1),
              Scenario(<<224, 53>>, 1)}

MCScript == [m \in ARM \cup AMD64 |-> IF m = "keyboard" THEN ScanCodes ELSE Typed]
MCInterruptPool == [m \in ARM \cup AMD64 |-> IF m \in ARM THEN 4 ELSE 2]
MCCommands == {<<"a">>}
=============================================================================
