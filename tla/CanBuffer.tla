----------------------------- MODULE CanBuffer -----------------------------
(***************************************************************************)
(* The buffer through which applications and the CAN driver exchange       *)
(* messages: the writer is told the line it has written, hands that number *)
(* to an event, and the trigger of the event reads the line and frees it.  *)
(* There is one buffer for each direction.                                 *)
(***************************************************************************)
EXTENDS Integers

CONSTANTS LineCount,  \* cLineCount
          NoMessage   \* the content of a line never used

ASSUME LineCountAssumption == LineCount \in Nat \ {0, 1}

Line == 0 .. LineCount - 1

EmptyBuffer == [pos |-> 0, used |-> [l \in Line |-> FALSE],
                msg |-> [l \in Line |-> NoMessage]]

(* Lines in the order in which enterMsg looks at them. *)
Nth(buffer, k) == (buffer.pos + k) % LineCount

(* Faulty variant: mWritePosition is not advanced. *)
SameLine(buffer) == Nth(buffer, 0)

(* The line enterMsg reserves: the first unused one after mWritePosition,  *)
(* or mWritePosition itself when the others are all used.                  *)
LineFor(buffer) ==
    LET k == CHOOSE i \in 1 .. LineCount :
                 /\ i = LineCount \/ ~buffer.used[Nth(buffer, i)]
                 /\ \A j \in 1 .. i - 1 : buffer.used[Nth(buffer, j)]
    IN  Nth(buffer, k)

(* enterMsg for a message of at most 8 bytes. *)
EnterMsg(buffer, m) ==
    LET l == LineFor(buffer)
    IN  [pos |-> l, used |-> [buffer.used EXCEPT ![l] = TRUE],
         msg |-> [buffer.msg EXCEPT ![l] = m]]

(* enterMsg finds no line without a message that nobody has read. *)
Overwrites(buffer) == \A l \in Line : buffer.used[l]

(* readMsg returns -1 without a message for a line that is out of range or *)
(* not used.                                                               *)
Readable(buffer, line) == line \in Line /\ buffer.used[line]

FreeLine(buffer, line) == [buffer EXCEPT !.used[line] = FALSE]

============================================================================
