------------------------------ MODULE CANRate ------------------------------
(***************************************************************************)
(* The bit timing of the CAN controller MCP2515: configRate chooses the    *)
(* registers CNF1, CNF2 and CNF3 by the controller's clock and the speed   *)
(* of the bus.  BitRate is what the controller makes of them.              *)
(***************************************************************************)
EXTENDS Integers

(* The clocks in MHz (MCP_8MHZ, MCP_16MHZ, MCP_20MHZ) and the speeds       *)
(* CAN_5KBPS .. CAN_1000KBPS, named by their bits per second.              *)
Clocks == {8, 16, 20}
Speeds == {5000, 10000, 20000, 31250, 33333, 40000, 50000, 80000, 100000,
           125000, 200000, 250000, 500000, 1000000}

WrongParameter == "MCP2515_WRONG_PARAMETER"

(* The constants MCP_<clock>_<speed>_CFG1 .. CFG3 of MCP2515SPI.h. *)
MCP_8MHz == [s \in Speeds |->
    CASE s = 1000000 -> <<\h00, \h80, \h80>>
      [] s = 500000  -> <<\h00, \h90, \h82>>
      [] s = 250000  -> <<\h00, \hB1, \h85>>
      [] s = 200000  -> <<\h00, \hB4, \h86>>
      [] s = 125000  -> <<\h01, \hB1, \h85>>
      [] s = 100000  -> <<\h01, \hB4, \h86>>
      [] s = 80000   -> <<\h01, \hBF, \h87>>
      [] s = 50000   -> <<\h03, \hB4, \h86>>
      [] s = 40000   -> <<\h03, \hBF, \h87>>
      [] s = 33333   -> <<\h47, \hE2, \h85>>
      [] s = 31250   -> <<\h07, \hA4, \h84>>
      [] s = 20000   -> <<\h07, \hBF, \h87>>
      [] s = 10000   -> <<\h0F, \hBF, \h87>>
      [] s = 5000    -> <<\h1F, \hBF, \h87>>]

MCP_16MHz == [s \in Speeds |->
    CASE s = 1000000 -> <<\h00, \hD0, \h82>>
      [] s = 500000  -> <<\h00, \hF0, \h86>>
      [] s = 250000  -> <<\h41, \hF1, \h85>>
      [] s = 200000  -> <<\h01, \hFA, \h87>>
      [] s = 125000  -> <<\h03, \hF0, \h86>>
      [] s = 100000  -> <<\h03, \hFA, \h87>>
      [] s = 80000   -> <<\h03, \hFF, \h87>>
      [] s = 50000   -> <<\h07, \hFA, \h87>>
      [] s = 40000   -> <<\h07, \hFF, \h87>>
      [] s = 33333   -> <<\h4E, \hF1, \h85>>
      [] s = 20000   -> <<\h0F, \hFF, \h87>>
      [] s = 10000   -> <<\h1F, \hFF, \h87>>
      [] s = 5000    -> <<\h3F, \hFF, \h87>>
      [] OTHER       -> <<>>]

MCP_20MHz == [s \in Speeds |->
    CASE s = 1000000 -> <<\h00, \hD9, \h82>>
      [] s = 500000  -> <<\h00, \hFA, \h87>>
      [] s = 250000  -> <<\h41, \hFB, \h86>>
      [] s = 200000  -> <<\h01, \hFF, \h87>>
      [] s = 125000  -> <<\h03, \hFA, \h87>>
      [] s = 100000  -> <<\h04, \hFA, \h87>>
      [] s = 80000   -> <<\h04, \hFF, \h87>>
      [] s = 50000   -> <<\h09, \hFA, \h87>>
      [] s = 40000   -> <<\h09, \hFF, \h87>>
      [] OTHER       -> <<>>]

(* The cases of configRate by clock and speed; <<>> where there is none.   *)
(* At 16 MHz and 50 kBit/s cfg1 is not assigned: the value of the default  *)
(* configuration stays, which is the one for 5 kBit/s with 8 MHz.          *)
Cases8MHz == MCP_8MHz
Cases16MHz == [MCP_16MHz EXCEPT ![50000][1] = MCP_8MHz[5000][1]]
Cases20MHz == MCP_20MHz

(* Faulty variant: a table of another clock. *)
CasesConfused(clock) == IF clock = 20 THEN Cases16MHz ELSE Cases8MHz

CasesOf(clock) == CASE clock = 8 -> Cases8MHz [] clock = 16 -> Cases16MHz
                    [] clock = 20 -> Cases20MHz

(* Which registers configRate writes, or that it refuses. *)
ConfigRate(speed, clock) ==
    IF clock \in Clocks /\ speed \in Speeds /\ CasesOf(clock)[speed] # <<>>
    THEN CasesOf(clock)[speed] ELSE WrongParameter

(* What the controller does with them: a bit lasts 1 + PRSEG + PHSEG1 +    *)
(* PHSEG2 time quanta (each field plus one) of 2 * (BRP + 1) clock cycles. *)
Quanta(cnf) == 4 + (cnf[2] % 8) + ((cnf[2] \div 8) % 8) + (cnf[3] % 8)

BitRate(cnf, clock) ==
    (clock * 1000000) \div (2 * ((cnf[1] % 64) + 1) * Quanta(cnf))

============================================================================
