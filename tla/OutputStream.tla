---------------------------- MODULE OutputStream ----------------------------
(***************************************************************************)
(* OutputStream: characters are collected in a buffer that is written to   *)
(* the device when it is full or a line ends; numbers are printed digit by *)
(* digit in the base that was chosen last.                                 *)
(***************************************************************************)
EXTENDS Integers, Sequences, SequencesExt

CONSTANT cBUFFER_SIZE

NewStream == [base |-> 10, buffer |-> <<>>, device |-> <<>>]

flush(s) == [s EXCEPT !.device = @ \o s.buffer, !.buffer = <<>>]

putc(s, c) ==
    LET put == [s EXCEPT !.buffer = Append(@, c)]
    IN  IF Len(put.buffer) = cBUFFER_SIZE \/ c = "\n" THEN flush(put) ELSE put

puts(s, string) == FoldLeft(putc, s, string)

Prefix(base) ==
    CASE base = 8  -> <<"0">>
      [] base = 16 -> <<"0", "x">>
      [] OTHER     -> <<>>

Digit == <<"0", "1", "2", "3", "4", "5", "6", "7", "8", "9", "a", "b", "c", "d", "e", "f">>

\* for (div = 1; ival / div >= mBase; div *= mBase), and then for (; div > 0;
\* div /= mBase): the powers of the base up to the number, the highest first.
Digits(base, ival) ==
    LET last == CHOOSE n \in 0 .. 31 :
                    /\ \A k \in 0 .. n - 1 : ival \div base ^ k >= base
                    /\ ival \div base ^ n < base
    IN  [i \in 1 .. last + 1 |-> Digit[((ival \div base ^ (last + 1 - i)) % base) + 1]]

PutUnsigned(s, ival) == puts(s, Prefix(s.base) \o Digits(s.base, ival))

PutSigned(s, ival) ==
    IF ival < 0 THEN PutUnsigned(putc(s, "-"), -ival) ELSE PutUnsigned(s, ival)

\* A pointer is printed in base 16; the base is as before afterwards.
PutPointer(s, ptr) ==
    [PutUnsigned([s EXCEPT !.base = 16], ptr) EXCEPT !.base = s.base]

endl(s) == putc(s, "\n")

\* bin, oct, dec and hex
SetBase(s, base) == [s EXCEPT !.base = base]
=============================================================================
