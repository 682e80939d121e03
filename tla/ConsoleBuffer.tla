---------------------------- MODULE ConsoleBuffer ----------------------------
(***************************************************************************)
(* The line buffer of the console (src/driver/ConsoleBuffer.cc): a ring of *)
(* lines, written by one task at a time, that wait for the task that       *)
(* prints them.  The buffer is a record:                                   *)
(*   used   mLineUsed, the lines that wait or are being written            *)
(*   text   mBuffer, the characters of every line                          *)
(*   pos    mWritePosition, the line that was started last                 *)
(*   len    mWriteLinePos, the characters written to it                    *)
(*   base   mBase, in which numbers are written until it is changed again  *)
(* A character is a string; End is the terminator.                         *)
(***************************************************************************)
EXTENDS Integers, SequencesExt

CONSTANTS
    LineCount,      \* cLineCount (20)
    LineLength      \* cLineLength (1024)

ASSUME ConsoleBufferAssumption ==
    LineCount \in Nat \ {0, 1} /\ LineLength \in Nat \ {0, 1}

Line == 0 .. LineCount - 1
End == "nul"

Empty == [used |-> {}, pos |-> 0, len |-> 0, base |-> 10,
          text |-> [l \in Line |-> [i \in 0 .. LineLength - 1 |-> End]]]

\* The search goes round the ring from behind the last line to the last line
\* itself, which is taken even if it still waits.
FreeLine(b) ==
    LET after == [i \in 1 .. LineCount |-> (b.pos + i) % LineCount]
        free  == SelectSeq(after, LAMBDA l : l \notin b.used \/ l = b.pos)
    IN  free[1]

Overwrites(b) == FreeLine(b) \in b.used

putc(b, c) ==
    IF b.len < LineLength - 1
    THEN [b EXCEPT !.text[b.pos][b.len] = c, !.len = @ + 1] ELSE b

Write(b, string) == FoldLeft(putc, b, string)

\* Faulty variant: the line is not marked.
startLineUnmarked(b) == [b EXCEPT !.pos = FreeLine(b), !.len = 0]

startLine(b) == [b EXCEPT !.used = @ \cup {FreeLine(b)}, !.pos = FreeLine(b), !.len = 0]

\* finishOutput: the line that was ended is b.pos.
endLine(b) == [b EXCEPT !.text[b.pos][b.len] = End]

freeLine(b, l) == [b EXCEPT !.used = @ \ {l}]

\* Up to the first terminator, which the last place always holds.
UpToEnd(text) ==
    SubSeq([i \in 1 .. LineLength |-> text[i - 1]], 1,
           (CHOOSE i \in 0 .. LineLength - 1 :
                text[i] = End /\ \A j \in 0 .. i - 1 : text[j] # End))

readLine(b, l) == IF l \in b.used THEN UpToEnd(b.text[l]) ELSE <<"WRONG LINE">>

setBase(b, base) == [b EXCEPT !.base = base]

(***************************************************************************)
(* Numbers: the greatest power of the base that fits is found first, then  *)
(* the digits are split off.                                               *)
(***************************************************************************)
Prefix(base) == IF base = 8 THEN <<"0">> ELSE IF base = 16 THEN <<"0", "x">> ELSE <<>>

\* The loop "for (div = 1; ival / div >= base; div *= base)".
Div(base, ival) ==
    LET grow[d \in Nat] == IF ival \div d >= base THEN grow[d * base] ELSE d IN grow[1]

Digit == << "0", "1", "2", "3", "4", "5", "6", "7", "8", "9", "a", "b", "c", "d", "e", "f" >>

Digits(base, ival) ==
    LET split[d \in Nat, n \in Nat] ==
            IF d = 0 THEN <<>> ELSE <<Digit[n \div d + 1]>> \o split[d \div base, n % d]
    IN  split[Div(base, ival), ival]

WriteUnsigned(b, ival) == Write(b, Prefix(b.base) \o Digits(b.base, ival))

WriteSigned(b, ival) ==
    IF ival < 0 THEN WriteUnsigned(putc(b, "-"), -ival) ELSE WriteUnsigned(b, ival)

\* The base is put back after an address.
WritePointer(b, ptr) == setBase(WriteUnsigned(setBase(b, 16), ptr), b.base)
=============================================================================
