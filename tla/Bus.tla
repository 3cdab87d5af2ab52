-------------------------------- MODULE Bus --------------------------------
(***************************************************************************)
(* Interrupt-driven transfers on top of the scheduler and the mutex: the   *)
(* I2C bus (drivers/i2c/{bus,atmega-bus}.c), the SPI bus (drivers/spi/     *)
(* {spi-core,atmega-bus}.c) and the receiver of the USART (drivers/usart/  *)
(* {usart-core,usart-atmega}.c).  A thread takes the lock of the bus,      *)
(* starts the hardware and waits in event_wait for its interrupt handler   *)
(* to post the end of the transfer; I2C and SPI wait with a timeout and    *)
(* start again.  The hardware is external: it answers each command with    *)
(* one of the states the data sheet allows.  What is sent is left out.     *)
(***************************************************************************)
EXTENDS Mutex

CONSTANTS
    xfer,       \* the queue of mtr_xfer_mutex, master_xfer_mutex, usart_rx_mtx
    Transfers,  \* I2C transfers: sequences of [rd, len]
    Lengths,    \* lengths of SPI messages and of reads from the USART
    BusTmo,     \* ATMEGA_I2C_TMO, ATMEGA_SPI_TMO
    BusRetries, \* bus->retries, master->retries
    FastBus     \* whether the hardware is done long before the timeout

ASSUME BusAssumption == xfer \in Queues \ {mutex} /\ BusTmo \in Nat \ {0} /\ FastBus \in BOOLEAN

\* What the drivers on the bus pass and the bus does not check: at least one
\* message, at least one byte to read, a byte or more on SPI and the USART.
ASSUME TransfersAssumption ==
    /\ Transfers \subseteq Seq([rd : BOOLEAN, len : Nat]) \ {<<>>}
    /\ \A msgs0 \in Transfers : \A i \in 1..Len(msgs0) : msgs0[i].rd => msgs0[i].len > 0
    /\ Lengths \subseteq Nat \ {0}

VARIABLES
    twi,       \* the I2C transfer: atmega_xfer_msgs and the variables beside it
    spi,       \* the SPI transfer: master_index, master_length
    rx,        \* usart_rx_idx, usart_rx_len
    xpc,       \* how far a thread is in a transfer
    tries,     \* retries of __i2c_transfer and __spi_xfer
    late,      \* whether the thread's last event_wait timed out
    finished   \* history: the interrupt handler has ended the transfer last started

busVars == <<twi, spi, rx, xpc, tries, late, finished>>

BusAt(t, label) == Running(t, "app") /\ xpc[t] = label
BusGoto(t, label) == xpc' = [xpc EXCEPT ![t] = label]

----------------------------------------------------------------------------
(* atmega_i2c_stc_irq.  twi.hw is what the hardware has been told to do. *)

Msg(e) == e.msgs[e.index + 1]
SetMsg(e, m) == [e EXCEPT !.msgs[e.index + 1] = m]

Ended(e, hw) == [e |-> [e EXCEPT !.hw = hw, !.busy = FALSE], done |-> TRUE]
GoesOn(e, hw) == [e |-> [e EXCEPT !.hw = hw], done |-> FALSE]

NextMessage_Past(e) ==
    IF e.index < e.num THEN GoesOn([e EXCEPT !.index = @ + 1], "start") ELSE Ended(e, "idle")

\* A message is over: a repeated start for the next one, or a stop.
NextMessage(e) ==
    IF e.index + 1 < e.num THEN GoesOn([e EXCEPT !.index = @ + 1], "start") ELSE Ended(e, "idle")

\* TW_START, TW_REP_START
TwiStarted(e) ==
    GoesOn([SetMsg(e, [Msg(e) EXCEPT !.idx = 0]) EXCEPT !.busy = TRUE], "addr")

\* TW_MT_SLA_ACK, TW_MT_DATA_ACK
TwiSent(e) ==
    IF Msg(e).idx < Msg(e).len THEN GoesOn(SetMsg(e, [Msg(e) EXCEPT !.idx = @ + 1]), "data")
    ELSE NextMessage([SetMsg(e, [Msg(e) EXCEPT !.len = 0]) EXCEPT !.error = IF e.index + 1 < e.num THEN @ ELSE "EOK"])

\* TW_MT_SLA_NACK, TW_MR_SLA_NACK
TwiRefused(e) ==
    Ended([SetMsg(e, [Msg(e) EXCEPT !.len = 0]) EXCEPT !.error = "EINVAL", !.num = 0], "idle")

\* TW_MT_DATA_NACK is no error, whatever is left to send
TwiDataRefused(e) == Ended([e EXCEPT !.error = "EOK"], "idle")

TwiLost_StaysBusy(e) == GoesOn(e, "idle")

\* TW_MT_ARB_LOST: TWSTA is the number of the bit, so no start is requested
TwiLost(e) == GoesOn([e EXCEPT !.busy = FALSE], "idle")

\* TW_MR_SLA_ACK: acknowledge all bytes but the last
TwiReceive(e) == GoesOn(e, IF Msg(e).idx + 1 < Msg(e).len THEN "read" ELSE "read_last")

\* TW_MR_DATA_ACK and TW_MR_DATA_NACK: the byte goes to the buffer
TwiReceived(e) == TwiReceive(SetMsg(e, [Msg(e) EXCEPT !.idx = @ + 1]))
TwiReceivedLast(e) ==
    NextMessage([SetMsg(e, [Msg(e) EXCEPT !.idx = @ + 1, !.len = 0])
                    EXCEPT !.error = IF e.index + 1 < e.num THEN @ ELSE "EOK"])

\* What the handler makes of each state the hardware may report
TwiOutcomes(e) ==
    CASE e.hw = "start" -> {TwiStarted(e), TwiLost(e)}
      [] e.hw = "addr" -> {TwiRefused(e), TwiLost(e), IF Msg(e).rd THEN TwiReceive(e) ELSE TwiSent(e)}
      [] e.hw = "data" -> {TwiSent(e), TwiDataRefused(e), TwiLost(e)}
      [] e.hw = "read" -> {TwiReceived(e)}
      [] e.hw = "read_last" -> {TwiReceivedLast(e), TwiLost(e)}
      [] OTHER -> {}

\* A handler that posts no event
QuietIrq ==
    /\ IrqsOn
    /\ irqExec' = FALSE
    /\ UNCHANGED <<rqVars, flags, evVars, tmrVars, deadVars, cpuState, isr, cnt, sc, scan, callVars>>

\* mutex_unlock_from_irq at the end of a transfer
PostEnd(done) ==
    \/ done /\ IrqNotify(xfer) /\ finished' = TRUE
    \/ ~done /\ QuietIrq /\ UNCHANGED finished

TwiIrq ==
    /\ \E o \in TwiOutcomes(twi) : twi' = o.e /\ PostEnd(o.done)
    /\ UNCHANGED <<spi, rx, xpc, tries, late>>

----------------------------------------------------------------------------
(* atmega_spi_stc_irq and usart_rx_irq *)

SpiIrq ==
    /\ spi.hw = "byte"
    /\ LET done == spi.index >= spi.length IN
       /\ spi' = [spi EXCEPT !.index = IF done THEN @ ELSE @ + 1, !.hw = IF done THEN "idle" ELSE @]
       /\ PostEnd(done)
    /\ UNCHANGED <<twi, rx, xpc, tries, late>>

\* The buffer and its length stay set when a read is over: usart_rx_irq goes
\* on writing to a buffer whose owner has left.
RxIrq ==
    /\ rx.len > 0 /\ rx.idx < rx.len
    /\ LET done == rx.idx + 1 >= rx.len IN
       /\ rx' = [rx EXCEPT !.idx = IF done THEN 0 ELSE @ + 1]
       /\ PostEnd(done)
    /\ UNCHANGED <<twi, spi, xpc, tries, late>>

----------------------------------------------------------------------------
(* The callers *)

\* i2c_bus_xfer, spi_transfer, usart_read and usart_getc: mutex_lock
BusLock(t) ==
    /\ xpc[t] = "out"
    /\ LockEnter(t)
    /\ BusGoto(t, "locked")
    /\ tries' = [tries EXCEPT ![t] = 0]
    /\ UNCHANGED <<twi, spi, rx, late, finished>>

Starts(t) ==
    /\ BusAt(t, "locked") \/ BusAt(t, "again")
    /\ mpc[t] = "held"
    /\ BusGoto(t, "started")
    /\ finished' = FALSE
    /\ UNCHANGED <<allVars, tries, late>>

\* atmega_i2c_xfer: spins while tw_if_busy.  A retry passes the same messages,
\* of which the handler may have set the length to 0.
I2cStart(t, msgs0) ==
    /\ Starts(t)
    /\ ~twi.busy
    /\ twi' = [twi EXCEPT !.index = 0, !.num = Len(msgs0), !.hw = "start",
                 !.msgs = IF xpc[t] = "again" THEN @
                          ELSE [i \in 1..Len(msgs0) |-> [rd |-> msgs0[i].rd, len |-> msgs0[i].len,
                                                        idx |-> 0, size |-> msgs0[i].len]]]
    /\ xpc[t] = "again" => Len(msgs0) = Len(twi.msgs)
    /\ UNCHANGED <<spi, rx>>

\* atmega_spi_xfer
SpiStart(t, len) ==
    /\ Starts(t)
    /\ xpc[t] = "again" => len = spi.length
    /\ spi' = [index |-> 1, length |-> len, hw |-> "byte"]
    /\ UNCHANGED <<twi, rx>>

\* atmega_usart_getc, atmega_usart_read
RxStart(t, len) ==
    /\ Starts(t)
    /\ rx' = [idx |-> 0, len |-> len]
    /\ UNCHANGED <<twi, spi>>

BusWait_Raw(t, ms) ==
    /\ BusAt(t, "started")
    /\ RawEventWait(t, xfer, ms)
    /\ BusGoto(t, "waiting")
    /\ UNCHANGED <<mVars, twi, spi, rx, tries, late, finished>>

\* mutex_wait, mutex_wait_tmo
BusWait(t, ms) ==
    /\ BusAt(t, "started")
    /\ EventWait(t, xfer, ms)
    /\ BusGoto(t, "waiting")
    /\ UNCHANGED <<mVars, twi, spi, rx, tries, late, finished>>

\* -EAGAIN: again, or give up when the retries or the time are used up
BusTimedOut(t) ==
    /\ BusAt(t, "waiting") /\ late[t]
    /\ tries' = [tries EXCEPT ![t] = @ + 1]
    /\ \/ tries[t] + 1 < BusRetries /\ BusGoto(t, "again")
       \/ BusGoto(t, "failed")
    /\ UNCHANGED <<allVars, twi, spi, rx, late, finished>>

\* the event came
BusDone(t) ==
    /\ BusAt(t, "waiting") /\ ~late[t]
    /\ BusGoto(t, "ok")
    /\ UNCHANGED <<allVars, twi, spi, rx, tries, late, finished>>

\* mutex_unlock
BusUnlock(t) ==
    /\ BusAt(t, "ok") \/ BusAt(t, "failed")
    /\ Unlock(t)
    /\ BusGoto(t, "unlocking")
    /\ UNCHANGED <<twi, spi, rx, tries, late, finished>>

\* The locals of the call end with it.
BusReturn(t) ==
    /\ BusAt(t, "unlocking") /\ mpc[t] = "out"
    /\ BusGoto(t, "out")
    /\ tries' = [tries EXCEPT ![t] = 0] /\ late' = [late EXCEPT ![t] = FALSE]
    /\ UNCHANGED <<allVars, twi, spi, rx, finished>>

\* raw_event_wait's return value: tp->timer is SIGNALED after a timeout
WaitReturns ==
    /\ late' = [t \in Threads |-> IF pc[t] # "app" /\ pc'[t] = "app" THEN tmr[t] = "SIGNALED" ELSE late[t]]
    /\ UNCHANGED <<twi, spi, rx, xpc, tries, finished>>

\* With FastBus no tick comes while the hardware is at work.
BusQuiet == twi.hw = "idle" /\ spi.hw = "idle"

BusBegin ==
    /\ twi = [msgs |-> <<>>, index |-> 0, num |-> 0, busy |-> FALSE, error |-> "EOK", hw |-> "idle"]
    /\ spi = [index |-> 0, length |-> 0, hw |-> "idle"]
    /\ rx = [idx |-> 0, len |-> 0]
    /\ xpc = [t \in Threads |-> "out"] /\ tries = [t \in Threads |-> 0]
    /\ late = [t \in Threads |-> FALSE] /\ finished = FALSE

BusContinue(t) == \/ BusTimedOut(t) \/ BusDone(t) \/ BusUnlock(t) \/ BusReturn(t)

I2cStep(t) == (\E msgs0 \in Transfers : I2cStart(t, msgs0)) \/ BusWait(t, BusTmo)
SpiStep(t) == (\E len \in Lengths : SpiStart(t, len)) \/ BusWait(t, BusTmo)
RxStep(t) == (\E len \in Lengths : RxStart(t, len)) \/ BusWait(t, 0)

----------------------------------------------------------------------------
(* Properties *)

\* The interrupt handlers stay inside what they were given: the messages of
\* the transfer and the buffer of each of them.
InsideBuffers ==
    /\ twi.msgs # <<>> => twi.index < Len(twi.msgs)
    /\ \A i \in 1..Len(twi.msgs) : twi.msgs[i].idx <= twi.msgs[i].size
    /\ spi.index <= spi.length

\* event_wait returns without an error only when the handler has ended the
\* transfer this thread started, though the queue is left SIGNALED by every
\* transfer before it.
OkMeansEnded ==
    \A t \in Threads : xpc[t] = "ok" => finished /\ BusQuiet

\* Whoever spins on tw_if_busy is waiting for an interrupt that will come.
BusyClears == twi.busy => twi.hw # "idle"
============================================================================
