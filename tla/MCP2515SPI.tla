----------------------------- MODULE MCP2515SPI -----------------------------
(***************************************************************************)
(* The CAN driver between its controller, an MCP2515 behind the SPI bus,   *)
(* and the applications that send and receive.                             *)
(*                                                                         *)
(* A message that the controller accepts sets the receive flag of one of   *)
(* its two buffers.  The controller's interrupt pin falls, the GPIO        *)
(* interrupt makes the driver's trigger run (or, in the Autolab build, a   *)
(* periodic timer does), and the driver copies the message into a line of  *)
(* CanRXBuffer and emits the CANEvent registered for the message's ID.  To *)
(* send, an application writes a line of CanTXBuffer and emits an event to *)
(* which trigger_sendMessage is subscribed.                                *)
(*                                                                         *)
(* A step of the driver is the instructions to the controller during which *)
(* nothing that the controller does by itself can make a difference.  Two  *)
(* triggers with a component in common never run at the same time (the     *)
(* dispatcher's ComponentExclusive); receiving takes the driver and        *)
(* CanRXBuffer, sending the driver and CanTXBuffer, an application the     *)
(* buffers it uses.                                                        *)
(***************************************************************************)
EXTENDS CanBuffer, CANRate, IMX6ECSPI, FiniteSets, SequencesExt

CONSTANTS
    Message,     \* messages of other nodes of the bus
    Id,          \* their identifiers, 0 .. 2047
    Length,      \* their data length codes, 0 .. 15
    Traffic,     \* bound: which of them come (bus) and which messages the
                 \*   applications send meanwhile (send), each in this order
    TxMessage,   \* messages an application sends through CanTXBuffer
    MemMessage,  \* messages sent each from a struct of the application's
    Malformed,   \* those of MemMessage without data or with an ID above 0x7ff
    ReceiveID,   \* the ID of the receiving application (0xAB)
    Garbage,     \* what is left in a variable that nobody has written
    EventPool,   \* bound for cEventPoolSize: events still unregistered
    MaxTasks,    \* bound for cEventTaskPoolSize
    MaxPolls,    \* bound for the 50 polls of loadTxBuffer
    MaxMisreads  \* bound: status reads that fail

Nil == "nil"
RxBuffer == {0, 1}
TxBuffer == {0, 1, 2}

rxCurveID == 1          \* the identifiers of the Autolab's messages
rxGearID == 2
rxLeverID == 3

ASSUME CANAssumption ==
    /\ Id \in [Message -> 0 .. 2047]
    /\ Length \in [Message -> 0 .. 15]
    /\ ReceiveID \in 1 .. 2047
    /\ Malformed \subseteq MemMessage
    /\ EventPool \in Nat /\ MaxTasks \in Nat /\ MaxPolls \in Nat /\ MaxMisreads \in Nat

VARIABLES
    autolab,     \* built with CONFIG_AUTOLAB (fixed)
    bus,         \* messages still to come
    toSend,      \* messages still to be sent
    chip,        \* the controller's registers
    spi,         \* the SPI controller and its driver
    isr, masked, \* the GPIO's latched edge; its interrupt is disabled
    gpioTask,    \* the task of IMX6GPIO::trigger_Interrupt is ready
    startTask,   \* the task of trigger_start or trigger_startAutolab is ready
    canInitialised,
    subscribed,  \* trigger_interrupt is subscribed to EventCAN
    timer,       \* the periodic event mTimerEventCan is set
    registered,  \* mRegisteredEvents, by their IDs
    unregistered,\* the number of mUnregisteredEvents
    receiver,    \* how far CANSimpleReceiver's start has come
    useBuffer,
    drv,         \* the trigger the driver runs: where it is, its locals
    rxTasks,     \* ready tasks of trigger_interrupt or trigger_PeriodicTask
    receiveTasks,\* of the receiver's trigger, oldest first
    sendTasks,   \* of trigger_sendMessage and trigger_sendMessageFromMemory
    CanRXBuffer, CanTXBuffer,
    entered,     \* messages that applications have written to CanTXBuffer
    sent,        \* what the controller has sent, in order
    overrun,     \* history: the buffers in which a message was overwritten
    dropped,     \* history: messages entered that nobody will send
    faults,      \* history: what made loadTxBuffer fail ("busy", "parameter")
                 \*   or mistake a busy buffer for a free one ("misread")
    misreads     \* status reads that may still fail

busVars == <<autolab, bus, toSend>>
gpioVars == <<isr, masked, gpioTask>>
setupVars == <<startTask, canInitialised, subscribed, timer>>
eventVars == <<registered, unregistered, receiver>>
txVars == <<CanTXBuffer, entered, sendTasks>>
rxVars == <<CanRXBuffer, receiveTasks>>
histVars == <<overrun, dropped, faults>>
vars == <<busVars, chip, spi, gpioVars, setupVars, eventVars, useBuffer, drv, rxTasks,
          rxVars, txVars, sent, histVars, misreads>>

----------------------------------------------------------------------------
(* Tasks *)

NoTrigger == [pc |-> "idle", buf |-> 0, ev |-> 0, msg |-> Nil, data |-> Nil, polls |-> 0]

Tasks == rxTasks + Len(receiveTasks) + Len(sendTasks)

(* eventTriggered and callOSCTrigger take a task of the pool, or do        *)
(* nothing.                                                                *)
FreeTask == Tasks < MaxTasks

(* Arguments that are no line: enterMsg's -1, and a struct in memory. *)
NotEntered == -1
InMemory == -2

Task(arg, m) == [arg |-> arg, msg |-> m]

(* The components a trigger needs that is not the driver's are free. *)
RXBufferFree == drv.pc \in {"idle", "reset", "filters", "normal", "subscribe",
                            "poll", "header", "data", "rts"}
TXBufferFree == drv.pc \notin {"poll", "header", "data", "rts"}

At(pc) == drv.pc = pc
Goto(pc) == drv' = [drv EXCEPT !.pc = pc]

(* Instructions to the controller: their length in bits, with or without   *)
(* an answer.                                                              *)
Command(bits) == spi' = WriteOutputBuffer(spi, bits)
Query(bits) == spi' = ReadInputBuffer(WriteOutputBuffer(spi, bits))

----------------------------------------------------------------------------
(* The controller (external) *)

ResetChip == [mode |-> "configuration", full |-> [b \in RxBuffer |-> FALSE],
              rx |-> [b \in RxBuffer |-> Nil], inte |-> FALSE, cnf |-> <<0, 0, 0>>,
              filter |-> [f \in 0 .. 5 |-> 0], mask |-> [b \in RxBuffer |-> 0],
              txreq |-> [b \in TxBuffer |-> FALSE],
              tx |-> [b \in TxBuffer |-> [head |-> Garbage, data |-> Garbage]]]

Filters(b) == IF b = 0 THEN {0, 1} ELSE 2 .. 5

(* A mask is all bits (2047) or none. *)
Matches(b, m) == chip.mask[b] = 0 \/ \E f \in Filters(b) : chip.filter[f] = Id[m]

(* The buffer a message is for: buffer 0 goes first and does not roll over *)
(* into buffer 1 when it is full.                                          *)
BufferFor(m) == {b \in RxBuffer : Matches(b, m) /\ \A a \in 0 .. b - 1 : ~Matches(a, m)}

PinLow(c) == c.inte /\ \E b \in RxBuffer : c.full[b]

(* The GPIO latches a falling edge of the pin (configureInterrupts).       *)
FallingEdge(c, d) == ~PinLow(c) /\ PinLow(d)

(* A message comes: it is lost if its buffer still holds another one. *)
Arrive ==
    LET m == Head(bus)
        B == {b \in BufferFor(m) : ~chip.full[b] /\ chip.mode = "normal"}
    IN  /\ bus # <<>>
        /\ bus' = Tail(bus)
        /\ chip' = [chip EXCEPT !.full = [b \in RxBuffer |-> b \in B \/ @[b]],
                                !.rx = [b \in RxBuffer |-> IF b \in B THEN m ELSE @[b]]]
        /\ isr' = (isr \/ FallingEdge(chip, chip'))
        /\ UNCHANGED <<autolab, toSend, spi, masked, gpioTask, setupVars, eventVars, useBuffer,
                       drv, rxTasks, rxVars, txVars, sent, histVars, misreads>>

(* Of the buffers requested the one with the highest number is sent first. *)
Transmit ==
    \E b \in TxBuffer :
        /\ chip.txreq[b] /\ chip.mode = "normal"
        /\ \A a \in TxBuffer : a > b => ~chip.txreq[a]
        /\ chip' = [chip EXCEPT !.txreq[b] = FALSE]
        /\ sent' = Append(sent, chip.tx[b])
        /\ UNCHANGED <<busVars, spi, gpioVars, setupVars, eventVars, useBuffer, drv,
                       rxTasks, rxVars, txVars, histVars, misreads>>

(* The status instructions answer twice.  When the status changed between  *)
(* the two answers the driver takes MCP2515_CRC_FAIL, 4, for the status.   *)
Misread(failed) == /\ failed => misreads > 0
                   /\ misreads' = IF failed THEN misreads - 1 ELSE misreads

----------------------------------------------------------------------------
(* The GPIO interrupt *)

(* The second stage masks the line and readies IMX6GPIO's trigger. *)
GpioInterrupt ==
    /\ isr /\ ~masked
    /\ masked' = TRUE
    /\ gpioTask' = TRUE
    /\ UNCHANGED <<busVars, chip, spi, isr, setupVars, eventVars, useBuffer, drv, rxTasks,
                   rxVars, txVars, sent, histVars, misreads>>

(* handleInputInterrupt clears the edge, unmasks the line and emits        *)
(* EventCAN: to nobody before trigger_start has subscribed the driver.     *)
HandleInputInterrupt ==
    /\ gpioTask
    /\ gpioTask' = FALSE /\ isr' = FALSE /\ masked' = FALSE
    /\ rxTasks' = IF subscribed /\ FreeTask THEN rxTasks + 1 ELSE rxTasks
    /\ UNCHANGED <<busVars, chip, spi, setupVars, eventVars, useBuffer, drv, rxVars,
                   txVars, sent, histVars, misreads>>

(* The Autolab build's periodic event; one more while the last is not      *)
(* handled makes no difference and is left out.                            *)
TimerTick ==
    /\ timer /\ rxTasks = 0 /\ FreeTask
    /\ rxTasks' = 1
    /\ UNCHANGED <<busVars, chip, spi, gpioVars, setupVars, eventVars, useBuffer, drv,
                   rxVars, txVars, sent, histVars, misreads>>

(* triggerFunc_stop *)
Stop ==
    /\ timer /\ At("idle")
    /\ timer' = FALSE
    /\ UNCHANGED <<busVars, chip, spi, gpioVars, startTask, canInitialised, subscribed,
                   eventVars, useBuffer, drv, rxTasks, rxVars, txVars, sent, histVars,
                   misreads>>

----------------------------------------------------------------------------
(* trigger_start and trigger_startAutolab *)

(* resetController: the controller is reset and gets its bit rate. *)
StartReset ==
    /\ startTask /\ At("idle")
    /\ startTask' = FALSE
    /\ chip' = [ResetChip EXCEPT !.cnf = ConfigRate(500000, 8)]
    /\ Command(24)
    /\ Goto("filters")
    /\ UNCHANGED <<busVars, gpioVars, canInitialised, subscribed, timer, eventVars,
                   useBuffer, rxTasks, rxVars, txVars, sent, histVars, misreads>>

setFilter(c, filterid, filter) ==
    IF filterid > 5 \/ filter > 2047 THEN c ELSE [c EXCEPT !.filter[filterid] = filter]

setMask(c, maskid, mask) ==
    IF maskid > 1 \/ mask > 2047 THEN c ELSE [c EXCEPT !.mask[maskid] = mask]

Cleared(c, mask) ==
    setMask(setMask(FoldSet(LAMBDA f, d : setFilter(d, f, 0), c, 0 .. 5), 0, mask), 1, mask)

(* triggerFunc_start: filter 0 filters nothing, as no mask is set.         *)
FiltersOff(c) == [setFilter(Cleared(c, 0), 0, 2047) EXCEPT !.inte = TRUE]

(* triggerFunc_startAutolab, which enables no receive interrupts.          *)
AutolabFilters(c) ==
    setFilter(setFilter(setFilter(Cleared(c, 2047), 0, rxCurveID), 1, rxGearID), 4, rxLeverID)

StartFilters ==
    /\ At("filters")
    /\ chip' = IF autolab THEN AutolabFilters(chip) ELSE FiltersOff(chip)
    /\ Command(24)
    /\ Goto("normal")
    /\ UNCHANGED <<busVars, gpioVars, setupVars, eventVars, useBuffer, rxTasks, rxVars,
                   txVars, sent, histVars, misreads>>

(* setMode(MCP2515_NORMAL_MODE): from here on the controller receives. *)
StartNormal ==
    /\ At("normal")
    /\ chip' = [chip EXCEPT !.mode = "normal"]
    /\ Query(24)
    /\ canInitialised' = TRUE
    /\ timer' = autolab
    /\ Goto(IF autolab THEN "idle" ELSE "subscribe")
    /\ UNCHANGED <<busVars, gpioVars, startTask, subscribed, eventVars, useBuffer, rxTasks,
                   rxVars, txVars, sent, histVars, misreads>>

StartSubscribe ==
    /\ At("subscribe")
    /\ subscribed' = TRUE
    /\ Goto("idle")
    /\ UNCHANGED <<busVars, chip, spi, gpioVars, startTask, canInitialised, timer,
                   eventVars, useBuffer, rxTasks, rxVars, txVars, sent, histVars, misreads>>

----------------------------------------------------------------------------
(* trigger_interrupt and trigger_PeriodicTask: the same loop *)

RunReceive ==
    /\ At("idle") /\ rxTasks > 0
    /\ rxTasks' = rxTasks - 1
    /\ drv' = [NoTrigger EXCEPT !.pc = "status"]
    /\ UNCHANGED <<busVars, chip, spi, gpioVars, setupVars, eventVars, useBuffer, rxVars,
                   txVars, sent, histVars, misreads>>

(* rxStatus: the loop goes on while a buffer is full. *)
RxStatus ==
    /\ At("status")
    /\ Query(24)
    /\ \E failed \in BOOLEAN :
           /\ Misread(failed)
           /\ drv' = IF ~failed /\ \E b \in RxBuffer : chip.full[b]
                     THEN [drv EXCEPT !.pc = "id", !.buf = 0] ELSE NoTrigger
    /\ UNCHANGED <<busVars, chip, gpioVars, setupVars, eventVars, useBuffer, rxTasks,
                   rxVars, txVars, sent, histVars>>

AfterBuffer == [drv EXCEPT !.pc = IF drv.buf = 0 THEN "id" ELSE "status", !.buf = 1]

(* receivedMessageID returns 0 for no message, and for a message with ID 0 *)
(* as well, whose flag nobody clears.                                      *)
ReceivedMessageID ==
    /\ At("id")
    /\ Query(24)
    /\ \E failed \in BOOLEAN :
           /\ Misread(failed)
           /\ drv' = IF ~failed /\ chip.full[drv.buf] /\ Id[chip.rx[drv.buf]] # 0
                     THEN [drv EXCEPT !.pc = "event", !.ev = 1, !.msg = chip.rx[drv.buf]]
                     ELSE AfterBuffer
    /\ UNCHANGED <<busVars, chip, gpioVars, setupVars, eventVars, useBuffer, rxTasks,
                   rxVars, txVars, sent, histVars>>

(* Length codes for which receive reads a message and clears its flag. *)
Receivable(n) == n \in 1 .. 8

getRxDataLength(b) == Length[chip.rx[b]]

(* emitCANEvent looks for the next event registered for the ID and reads   *)
(* the controller's buffer for it: the message whose ID was read, or       *)
(* another one that came after the reading for an earlier event.  The      *)
(* length and the bytes are taken from one message.                        *)
EmitCANEvent ==
    /\ At("event")
    /\ IF drv.ev > Len(registered)
       THEN Goto("acknowledge") /\ UNCHANGED spi
       ELSE IF registered[drv.ev] = Id[drv.msg]
       THEN /\ drv' = [drv EXCEPT !.pc = IF Receivable(getRxDataLength(drv.buf))
                                         THEN "clear" ELSE "enter",
                                  !.data = chip.rx[drv.buf]]
            /\ Query(24)
       ELSE drv' = [drv EXCEPT !.ev = @ + 1] /\ UNCHANGED spi
    /\ UNCHANGED <<busVars, chip, gpioVars, setupVars, eventVars, useBuffer, rxTasks,
                   rxVars, txVars, sent, histVars, misreads>>

(* bitModify(MCP2515_REGISTER_CANINTF, 1 << b, 0) *)
FlagKept(b) == UNCHANGED chip
ClearFlag(b) == chip' = [chip EXCEPT !.full[b] = FALSE]

(* The end of receive. *)
ReceiveClearsFlag ==
    /\ At("clear")
    /\ ClearFlag(drv.buf)
    /\ Command(32)
    /\ Goto("enter")
    /\ UNCHANGED <<busVars, gpioVars, setupVars, eventVars, useBuffer, rxTasks, rxVars,
                   txVars, sent, histVars, misreads>>

(* enterMsg and eventTriggered.  A message of more than 8 bytes is not     *)
(* entered but announced as line -1, one of no bytes is entered empty.     *)
EnterReceived ==
    LET m == IF Receivable(Length[drv.data]) THEN drv.data ELSE Garbage
        toolong == Length[drv.data] > 8
        line == IF toolong THEN NotEntered ELSE LineFor(CanRXBuffer)
    IN  /\ At("enter")
        /\ CanRXBuffer' = IF toolong THEN CanRXBuffer ELSE EnterMsg(CanRXBuffer, m)
        /\ overrun' = IF ~toolong /\ Overwrites(CanRXBuffer) THEN overrun \cup {"RX"}
                      ELSE overrun
        /\ receiveTasks' = IF receiver = "subscribed" /\ FreeTask
                           THEN Append(receiveTasks, Task(line, m)) ELSE receiveTasks
        /\ drv' = [drv EXCEPT !.pc = "event", !.ev = @ + 1]
        /\ UNCHANGED <<busVars, chip, spi, gpioVars, setupVars, eventVars, useBuffer,
                       rxTasks, txVars, sent, dropped, faults, misreads>>

(* After emitCANEvent the loop clears the flag, again if receive has.      *)
Acknowledge ==
    /\ At("acknowledge")
    /\ ClearFlag(drv.buf)
    /\ Command(32)
    /\ drv' = AfterBuffer
    /\ UNCHANGED <<busVars, gpioVars, setupVars, eventVars, useBuffer, rxTasks, rxVars,
                   txVars, sent, histVars, misreads>>

----------------------------------------------------------------------------
(* trigger_sendMessage and trigger_sendMessageFromMemory *)

(* loadTxBuffer refuses a malformed message, and its caller does not look  *)
(* at the result MCP2515_WRONG_PARAMETER: it requests what the buffer      *)
(* holds from before.                                                      *)
LoadTxBuffer(m) == IF m \in Malformed THEN "rts" ELSE "poll"

(* The message is read from its line, which is freed, or from the struct   *)
(* that came with the call (InMemory); it is dropped if the driver is not  *)
(* initialised yet.                                                        *)
RunSend ==
    LET t == Head(sendTasks)
        fromMemory == t.arg = InMemory
        found == fromMemory \/ Readable(CanTXBuffer, t.arg)
        m == IF fromMemory THEN t.msg ELSE CanTXBuffer.msg[t.arg]
    IN  /\ At("idle") /\ sendTasks # <<>>
        /\ sendTasks' = Tail(sendTasks)
        /\ CanTXBuffer' = IF found /\ ~fromMemory THEN FreeLine(CanTXBuffer, t.arg)
                          ELSE CanTXBuffer
        /\ drv' = IF found /\ canInitialised
                  THEN [NoTrigger EXCEPT !.pc = LoadTxBuffer(m), !.msg = m] ELSE NoTrigger
        /\ dropped' = IF found /\ (~canInitialised \/ LoadTxBuffer(m) = "rts")
                      THEN dropped \cup {m} ELSE dropped
        /\ faults' = IF found /\ canInitialised /\ LoadTxBuffer(m) = "rts"
                     THEN faults \cup {"parameter"} ELSE faults
        /\ UNCHANGED <<busVars, chip, spi, gpioVars, setupVars, eventVars, useBuffer,
                       rxTasks, rxVars, entered, sent, overrun, misreads>>

(* The bit of readStatus that loadTxBuffer waits for; the first variant is *)
(* faulty.                                                                 *)
NotLookedAt(b) == FALSE
Requested(b) == chip.txreq[b]

(* loadTxBuffer waits for the buffer.  The error code 4 of readStatus      *)
(* reads as "buffer 0 is busy, buffers 1 and 2 are not".  The caller does  *)
(* not look at the result MCP2515_TX_BUFFER_BUSY and requests what the     *)
(* buffer holds from before.                                               *)
LoadTxBufferPolls ==
    /\ At("poll")
    /\ Query(24)
    /\ \E failed \in BOOLEAN :
           LET busy == IF failed THEN useBuffer = 0 ELSE Requested(useBuffer)
               giveUp == busy /\ drv.polls = MaxPolls
           IN  /\ Misread(failed)
               /\ drv' = [drv EXCEPT !.pc = IF giveUp THEN "rts"
                                            ELSE IF busy THEN "poll" ELSE "header",
                                     !.polls = IF busy /\ ~giveUp THEN @ + 1 ELSE 0]
               /\ dropped' = IF giveUp THEN dropped \cup {drv.msg} ELSE dropped
               /\ faults' = faults \cup (IF failed THEN {"misread"} ELSE {})
                                   \cup (IF giveUp THEN {"busy"} ELSE {})
    /\ UNCHANGED <<busVars, chip, gpioVars, setupVars, eventVars, useBuffer, rxTasks,
                   rxVars, txVars, sent, overrun>>

(* The identifier and the length are written, then the data. *)
LoadTxBufferHeader ==
    /\ At("header")
    /\ chip' = [chip EXCEPT !.tx[useBuffer].head = drv.msg]
    /\ Command(24)
    /\ Goto("data")
    /\ UNCHANGED <<busVars, gpioVars, setupVars, eventVars, useBuffer, rxTasks, rxVars,
                   txVars, sent, histVars, misreads>>

LoadTxBufferData ==
    /\ At("data")
    /\ chip' = [chip EXCEPT !.tx[useBuffer].data = drv.msg]
    /\ Command(24)
    /\ Goto("rts")
    /\ UNCHANGED <<busVars, gpioVars, setupVars, eventVars, useBuffer, rxTasks, rxVars,
                   txVars, sent, histVars, misreads>>

RequestToSend ==
    /\ At("rts")
    /\ chip' = [chip EXCEPT !.txreq[useBuffer] = TRUE]
    /\ useBuffer' = (useBuffer + 1) % 3
    /\ Command(8)
    /\ drv' = NoTrigger
    /\ UNCHANGED <<busVars, gpioVars, setupVars, eventVars, rxTasks, rxVars, txVars, sent,
                   histVars, misreads>>

----------------------------------------------------------------------------
(* Applications *)

CallOrDrop(free, t) ==
    /\ sendTasks' = IF free THEN Append(sendTasks, t) ELSE sendTasks
    /\ dropped' = IF free THEN dropped ELSE dropped \cup {t.msg}

(* A message is written to CanTXBuffer and messageReady emitted; without a *)
(* task it stays in its line, which nobody frees.                          *)
EnterToSend(m, tasks) ==
    /\ TXBufferFree
    /\ CanTXBuffer' = EnterMsg(CanTXBuffer, m)
    /\ overrun' = IF Overwrites(CanTXBuffer) THEN overrun \cup {"TX"} ELSE overrun
    /\ entered' = entered \cup {m}
    /\ CallOrDrop(tasks < MaxTasks, Task(LineFor(CanTXBuffer), m))

(* CANSimpleTalkerApplication::periodicSend *)
PeriodicSend ==
    /\ toSend # <<>> /\ Head(toSend) \in TxMessage
    /\ EnterToSend(Head(toSend), Tasks)
    /\ toSend' = Tail(toSend)
    /\ UNCHANGED <<autolab, bus, chip, spi, gpioVars, setupVars, eventVars, useBuffer, drv,
                   rxTasks, rxVars, sent, faults, misreads>>

(* SEND_CAN_MESSAGE_WITH_MEMORY *)
SendFromMemory ==
    /\ toSend # <<>> /\ Head(toSend) \in MemMessage
    /\ toSend' = Tail(toSend)
    /\ entered' = entered \cup {Head(toSend)}
    /\ CallOrDrop(FreeTask, Task(InMemory, Head(toSend)))
    /\ UNCHANGED <<autolab, bus, chip, spi, gpioVars, setupVars, eventVars, useBuffer, drv,
                   rxTasks, rxVars, CanTXBuffer, sent, overrun, faults, misreads>>

(* CANSimpleReceiver::start: activateCANEvent, then subscribeEvent.        *)
(* Bound: it activates the event before the first message comes.           *)
ActivateCANEvent ==
    /\ receiver = "off" /\ unregistered > 0
    /\ bus \in {t.bus : t \in Traffic}
    /\ receiver' = "registered"
    /\ unregistered' = unregistered - 1
    /\ registered' = Append(registered, ReceiveID)
    /\ UNCHANGED <<busVars, chip, spi, gpioVars, setupVars, useBuffer, drv, rxTasks, rxVars,
                   txVars, sent, histVars, misreads>>

SubscribeReceiver ==
    /\ receiver = "registered"
    /\ receiver' = "subscribed"
    /\ UNCHANGED <<busVars, chip, spi, gpioVars, setupVars, registered, unregistered,
                   useBuffer, drv, rxTasks, rxVars, txVars, sent, histVars, misreads>>

(* CANSimpleReceiver::receiveMessage reads the line and sends what it has  *)
(* read back, without a look at readMsg's result.                          *)
ReceiveMessage ==
    LET t == Head(receiveTasks)
        found == Readable(CanRXBuffer, t.arg)
        m == IF found THEN CanRXBuffer.msg[t.arg] ELSE Garbage
    IN  /\ receiveTasks # <<>> /\ RXBufferFree
        /\ receiveTasks' = Tail(receiveTasks)
        /\ CanRXBuffer' = IF found THEN FreeLine(CanRXBuffer, t.arg) ELSE CanRXBuffer
        /\ EnterToSend(m, Tasks)
        /\ UNCHANGED <<busVars, chip, spi, gpioVars, setupVars, eventVars, useBuffer, drv,
                       rxTasks, sent, faults, misreads>>

----------------------------------------------------------------------------

(* MCP2515SPI::MCP2515SPI sets the SPI up: channel 0 is a master in mode   *)
(* 0, 0 at a sixth of the reference clock.  trigger_start was called at    *)
(* boot, IMX6GPIO has been configured.                                     *)
ConstructedSPI ==
    LET started == SelectChannelMode(SelectChannel(StartSPI(ResetSPI), 0), 0, TRUE)
        clocked == SetClockPreDivider(started, 6)
    IN  SelectDataIdle(SelectClockPolarity(SelectClockPhaseOperation(clocked, 0, FALSE),
                                           0, FALSE), 0, FALSE)

Init ==
    /\ autolab \in BOOLEAN
    /\ \E t \in Traffic : bus = t.bus /\ toSend = t.send
    /\ chip = ResetChip
    /\ spi = ConstructedSPI
    /\ isr = FALSE /\ masked = FALSE /\ gpioTask = FALSE
    /\ startTask = TRUE /\ canInitialised = FALSE /\ subscribed = FALSE /\ timer = FALSE
    /\ registered = <<>> /\ unregistered = EventPool /\ receiver = "off"
    /\ useBuffer = 0
    /\ drv = NoTrigger
    /\ rxTasks = 0 /\ receiveTasks = <<>> /\ sendTasks = <<>>
    /\ CanRXBuffer = EmptyBuffer /\ CanTXBuffer = EmptyBuffer
    /\ entered = {} /\ sent = <<>>
    /\ overrun = {} /\ dropped = {} /\ faults = {}
    /\ misreads = MaxMisreads

Receiving == RunReceive \/ RxStatus \/ ReceivedMessageID \/ EmitCANEvent
             \/ ReceiveClearsFlag \/ EnterReceived \/ Acknowledge
Sending == RunSend \/ LoadTxBufferPolls \/ LoadTxBufferHeader \/ LoadTxBufferData
           \/ RequestToSend
Starting == StartReset \/ StartFilters \/ StartNormal \/ StartSubscribe
Applications == PeriodicSend \/ SendFromMemory \/ ActivateCANEvent \/ SubscribeReceiver
                \/ ReceiveMessage

Next == Arrive \/ Transmit \/ GpioInterrupt \/ HandleInputInterrupt \/ TimerTick \/ Stop
        \/ Starting \/ Receiving \/ Sending \/ Applications

(* A core runs a ready trigger, and a trigger to its end; the periodic     *)
(* timer ticks.                                                            *)
Fairness == /\ WF_vars(Receiving) /\ WF_vars(Sending) /\ WF_vars(Starting)
            /\ WF_vars(TimerTick) /\ WF_vars(ReceiveMessage)
            /\ WF_vars(GpioInterrupt) /\ WF_vars(HandleInputInterrupt)

Spec == Init /\ [][Next]_vars /\ Fairness

----------------------------------------------------------------------------
(* Properties *)

Value == Message \cup TxMessage \cup MemMessage \cup {Garbage}
TypeOK ==
    /\ bus \in Seq(Message)
    /\ spi \in SPI
    /\ chip.rx \in [RxBuffer -> Message \cup {Nil}]
    /\ chip.tx \in [TxBuffer -> [head : Value, data : Value]]
    /\ drv.pc \in {"idle", "filters", "normal", "subscribe", "status", "id", "event",
                   "clear", "enter", "acknowledge", "poll", "header", "data", "rts"}
    /\ Tasks \in 0 .. MaxTasks
    /\ CanRXBuffer.msg \in [Line -> Value \cup {NoMessage}]
    /\ CanTXBuffer.msg \in [Line -> Value \cup {NoMessage}]
    /\ useBuffer \in TxBuffer

(* Every waiting trigger finds its own message in the line it was told:    *)
(* lines are reused in another order than they are read, and the receiver, *)
(* the driver and a sender take turns on them.  It fails for a buffer only *)
(* after all its lines were in use at once.                                *)
LinesAgree ==
    /\ "RX" \notin overrun => \A i \in 1 .. Len(receiveTasks) :
           LET t == receiveTasks[i]
           IN  t.arg # NotEntered => Readable(CanRXBuffer, t.arg) /\ CanRXBuffer.msg[t.arg] = t.msg
    /\ "TX" \notin overrun => \A i \in 1 .. Len(sendTasks) :
           LET t == sendTasks[i]
           IN  t.arg # InMemory =>
                   Readable(CanTXBuffer, t.arg) /\ CanTXBuffer.msg[t.arg] = t.msg

(* In how many places a message to be sent is: with a task that will find  *)
(* it, with the driver, in a buffer to be transmitted, on the bus.  A line *)
(* that nobody was told of is none of them.                                *)
Places(m) ==
    LET whole == [head |-> m, data |-> m]
        Finds(t) == \/ t = Task(InMemory, m)
                    \/ Readable(CanTXBuffer, t.arg) /\ CanTXBuffer.msg[t.arg] = m
    IN  Cardinality({i \in 1 .. Len(sendTasks) : Finds(sendTasks[i])})
        + (IF \/ drv.pc \in {"poll", "header", "data"} /\ drv.msg = m
              \/ At("rts") /\ ~chip.txreq[useBuffer] /\ chip.tx[useBuffer] = whole
           THEN 1 ELSE 0)
        + Cardinality({b \in TxBuffer : chip.txreq[b] /\ chip.tx[b] = whole})
        + Cardinality({i \in 1 .. Len(sent) : sent[i] = whole})

(* Until a busy buffer was taken for a free one or a line overwritten, no  *)
(* message is forgotten or mixed with another one: only those go missing   *)
(* for which there was no task, or no initialised driver, or which         *)
(* loadTxBuffer did not load.  And no message is sent twice before         *)
(* loadTxBuffer has failed, after which an older message may be.           *)
SentAsEntered ==
    "misread" \notin faults /\ "TX" \notin overrun =>
        /\ \A m \in entered \ (dropped \cup {Garbage}) : Places(m) >= 1
        /\ \A i \in 1 .. Len(sent) : sent[i].head = sent[i].data
        /\ faults = {} => \A m \in entered \ {Garbage} :
                              Places(m) <= IF m \in dropped THEN 0 ELSE 1

(* The receive loop takes every message with an ID other than 0 out of the *)
(* controller while it is polled, whatever the length and the subscribers  *)
(* and however messages of both buffers alternate.                         *)
PolledDrains ==
    \A b \in RxBuffer :
        (timer /\ chip.full[b] /\ Id[chip.rx[b]] # 0) ~> (~chip.full[b] \/ ~timer)

(* configRate sets the bit rate it is asked for, within one percent, for   *)
(* every clock and speed it accepts but 50 kBit/s with 16 MHz, and the     *)
(* running controller has 500 kBit/s.                                      *)
RatesAsNamed ==
    /\ \A clock \in Clocks, speed \in Speeds :
           (<<clock, speed>> # <<16, 50000>> /\ ConfigRate(speed, clock) # WrongParameter) =>
               100 * (BitRate(ConfigRate(speed, clock), clock) - speed) \in -speed .. speed
    /\ canInitialised => BitRate(chip.cnf, 8) = 500000

(* A receive flag is only cleared for the message that was just read: no   *)
(* message for which an event is registered is lost in the driver.         *)
ClearedOnlyIfRead ==
    [][\A b \in RxBuffer : chip.full[b] /\ ~chip'.full[b] => chip.rx[b] = drv.msg]_vars

============================================================================
