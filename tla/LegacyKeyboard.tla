--------------------------- MODULE LegacyKeyboard ---------------------------
(***************************************************************************)
(* The decoder of the PS/2 keyboard driver                                 *)
(* (src/arch/x86/driver/LegacyKeyboard.cc).  The decoder's state is a      *)
(* record: "mods", the modifiers in force, "prefix", the prefix that was   *)
(* read last (0 for none), and "ascii", the character decoded last.        *)
(* The tables are given for the keys that a run presses: a letter, the     *)
(* enter key, backspace, the slash of the keypad and one of its digits.    *)
(***************************************************************************)
EXTENDS Integers

cReleaseBit == 128
ReplyACK == 250
cPrefixE0 == 224
cPrefixE1 == 225
cLeftShiftPressed == 42
cRightShiftPressed == 54
cLeftControlPressed == 29
cLeftAltPressed == 56
cCapsLockPressed == 58
cScrollLockPressed == 70

CodeBackspace == 14
CodeEnter == 28
CodeA == 30
CodeSlash == 53
CodeKeypad7 == 71

\* Where a table of the source holds 0 the key has no character.
cTabNormal(code) ==
    CASE code = CodeBackspace -> "backspace" [] code = CodeEnter -> "enter"
      [] code = CodeA -> "a" [] code = CodeSlash -> "-" [] OTHER -> "nul"
cTabShift(code) ==
    CASE code = CodeA -> "A" [] code = CodeSlash -> "_" [] OTHER -> "nul"
cTabAlt(code) == "nul"
cTabAscNum(code) == IF code = CodeKeypad7 THEN "7" ELSE "nul"

Idle == [mods |-> {}, prefix |-> 0, ascii |-> "nul"]

Set(key, modifier, pressed) ==
    [key EXCEPT !.mods = IF pressed THEN @ \cup {modifier} ELSE @ \ {modifier}]

Side(key, left, right) == IF key.prefix = cPrefixE0 THEN right ELSE left

\* The letters of the alphabet, which caps lock shifts.
Capital(code) == code \in 16 .. 26 \/ code \in 30 .. 40 \/ code \in 44 .. 50

decodeAscii(key, code) ==
    [key EXCEPT !.ascii =
        IF code = CodeSlash /\ key.prefix = cPrefixE0 THEN "/"
        ELSE IF "NUM_LOCK" \in key.mods /\ key.prefix = 0 /\ code \in 71 .. 83 THEN cTabAscNum(code)
        ELSE IF "ALT_RIGHT" \in key.mods THEN cTabAlt(code)
        ELSE IF "SHIFT" \in key.mods \/ ("CAPS_LOCK" \in key.mods /\ Capital(code)) THEN cTabShift(code)
        ELSE cTabNormal(code)]

\* What a press (pressed) or a release of a modifier key sets, and a lock key
\* when it is pressed.
Modified(key, code, pressed) ==
    CASE code \in {cLeftShiftPressed, cRightShiftPressed} -> Set(key, "SHIFT", pressed)
      [] code = cLeftControlPressed -> Set(key, Side(key, "CTRL_LEFT", "CTRL_RIGHT"), pressed)
      [] code = cLeftAltPressed -> Set(key, Side(key, "ALT_LEFT", "ALT_RIGHT"), pressed)
      [] code = cCapsLockPressed /\ pressed -> Set(key, "CAPS_LOCK", "CAPS_LOCK" \notin key.mods)
      [] code = cScrollLockPressed /\ pressed -> Set(key, "SCROLL_LOCK", "SCROLL_LOCK" \notin key.mods)
      [] OTHER -> key

Modifier == {cLeftShiftPressed, cRightShiftPressed, cLeftControlPressed, cLeftAltPressed,
             cCapsLockPressed, cScrollLockPressed}
Lock == {cCapsLockPressed, cScrollLockPressed}

\* The decoder's next state.  The code of a released key, which has
\* cReleaseBit set, is compared with the codes of pressed keys: no modifier is
\* ever released.
decodeKey(key, code) ==
    CASE code \in {cPrefixE0, cPrefixE1} -> [key EXCEPT !.prefix = code]
      [] code \notin {cPrefixE0, cPrefixE1} /\ code >= cReleaseBit ->
            [Modified(key, code, FALSE) EXCEPT !.prefix = 0]
      [] code \in Modifier -> Modified(key, code, TRUE)
      [] OTHER -> [decodeAscii(key, code) EXCEPT !.prefix = 0]

\* decodeKey returns TRUE: the code stands for a character.
IsKey(code) == code < cReleaseBit /\ code \notin Modifier
=============================================================================
