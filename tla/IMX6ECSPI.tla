----------------------------- MODULE IMX6ECSPI -----------------------------
(***************************************************************************)
(* The i.MX6's SPI controller and its driver, as operators on a record of  *)
(* the controller's registers and the driver's input buffer.  A transfer   *)
(* runs to its end inside writeOutputBuffer, so nobody sees it halfway:    *)
(* CON.XCH is clear and both FIFOs are empty between transfers.            *)
(***************************************************************************)
EXTENDS Integers, Sequences

SPI_MAX_CHANNEL_COUNT == 4
SPI_MAX_BURST_LENGTH == 4096
SPI_CLOCK_PREDIVIDER_MASK == 15
SPI_INPUT_BUFFER_SIZE == 32
TxFifoSize == 64        \* words the controller's TXFIFO takes

Channel == 0 .. SPI_MAX_CHANNEL_COUNT - 1

(* The controller after its reset.  The channel is kept as its set of bits *)
(* (0 is {}, 3 is {0, 1}), settings with a bit per channel as the set of   *)
(* channels whose bit is set.                                              *)
ResetSPI == [clock |-> FALSE, ports |-> FALSE, enabled |-> FALSE, channel |-> {},
             master |-> {}, burst |-> 0, preDivider |-> 0, phase |-> {},
             polarity |-> {}, dataIdle |-> {}, in |-> 0, readPtr |-> 0]

SPI == [clock : BOOLEAN, ports : BOOLEAN, enabled : BOOLEAN, channel : SUBSET {0, 1},
        master : SUBSET Channel, burst : 0 .. SPI_MAX_BURST_LENGTH - 1,
        preDivider : 0 .. SPI_CLOCK_PREDIVIDER_MASK, phase : SUBSET Channel,
        polarity : SUBSET Channel,
        dataIdle : SUBSET Channel, in : 0 .. SPI_INPUT_BUFFER_SIZE - 1,
        readPtr : 0 .. SPI_INPUT_BUFFER_SIZE - 1]

Bits(n) == {b \in {0, 1} : (n \div 2^b) % 2 = 1}

WithBit(set, channel, on) == IF on THEN set \cup {channel} ELSE set \ {channel}

(* The four pins (clock, both data lines, chip select) are given to it. *)
ConfigurePorts(spi) == [spi EXCEPT !.ports = TRUE]

(* The clock is switched on, the controller disabled and enabled again. *)
StartSPI(spi) == ConfigurePorts([spi EXCEPT !.clock = TRUE, !.enabled = TRUE])

(* The old channel's bits stay: 2 after 1 selects 3. *)
SelectChannel(spi, channel) ==
    IF channel \in Channel THEN [spi EXCEPT !.channel = @ \cup Bits(channel)] ELSE spi

SelectChannelMode(spi, channel, master) ==
    IF channel \in Channel THEN [spi EXCEPT !.master = WithBit(@, channel, master)] ELSE spi

SelectBurstLength(spi, length) ==
    IF length < SPI_MAX_BURST_LENGTH
    THEN [spi EXCEPT !.burst = (length - 1) % SPI_MAX_BURST_LENGTH] ELSE spi

SetClockPreDivider(spi, divider) ==
    IF divider <= SPI_CLOCK_PREDIVIDER_MASK
    THEN [spi EXCEPT !.preDivider = (divider - 1) % (SPI_CLOCK_PREDIVIDER_MASK + 1)] ELSE spi

SelectClockPhaseOperation(spi, channel, mode) ==
    IF channel \in Channel THEN [spi EXCEPT !.phase = WithBit(@, channel, mode)] ELSE spi

SelectClockPolarity(spi, channel, activeLow) ==
    IF channel \in Channel THEN [spi EXCEPT !.polarity = WithBit(@, channel, activeLow)] ELSE spi

SelectDataIdle(spi, channel, low) ==
    IF channel \in Channel THEN [spi EXCEPT !.dataIdle = WithBit(@, channel, low)] ELSE spi

(* Words of 32 bits that a transfer of so many bits takes. *)
Words(length) == (length + 31) \div 32

(* writeOutputBuffer: as many words come back as were sent, they are put   *)
(* into the input buffer from its start, and the read pointer is reset.    *)
WriteOutputBuffer(spi, length) ==
    LET n == IF Words(length) < TxFifoSize THEN Words(length) ELSE TxFifoSize
    IN  [SelectBurstLength(spi, length)
            EXCEPT !.in = n % SPI_INPUT_BUFFER_SIZE, !.readPtr = 0]

(* readInputBuffer takes the next word, past the last one too. *)
ReadInputBuffer(spi) == [spi EXCEPT !.readPtr = (@ + 1) % SPI_INPUT_BUFFER_SIZE]

============================================================================
