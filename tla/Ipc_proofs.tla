----------------------------- MODULE Ipc_proofs -----------------------------
(***************************************************************************)
(* The interrupt handlers of the buses, for any number of threads, any     *)
(* transfer and any answer of the hardware: they stay inside the messages  *)
(* and buffers they were given, and the busy flag of the I2C bus is only   *)
(* set while an interrupt is still to come.                                *)
(*                                                                         *)
(* The services above the event queues, of the cooperative kernel and for  *)
(* any number of threads: no interrupt is left unserved (IrqInv), no       *)
(* reader of the message queue stays behind with a message in it (IpmInv)  *)
(* and the messages are a FIFO (FifoInv), no signal of the condition       *)
(* variable goes astray (CondInv), no unit of the semaphore lies idle with *)
(* a thread waiting (SemInv), and nobody takes the end of another transfer *)
(* for the end of its own (XferInv). All of them say where the events of   *)
(* an event queue can be, and rest on CoopInv of Sched_proofs.             *)
(***************************************************************************)
EXTENDS Ipc, Mutex_proofs

(* The I2C transfer *)

Parts == [rd : BOOLEAN, len : Nat, idx : Nat, size : Nat]

TwiType(e) ==
    e \in [msgs : Seq(Parts), index : Nat, num : Nat, busy : BOOLEAN, error : {"EOK", "EINVAL"},
           hw : {"idle", "start", "addr", "data", "read", "read_last"}]

\* len is what is left to do, 0 when it is done; size is the buffer
PartSound(m) == m.idx <= m.size /\ m.len <= m.size /\ (m.rd => m.size > 0)

\* What the handler relies on in each state of the hardware
HwSound(e) ==
    /\ e.busy => e.hw # "idle"
    /\ e.hw # "idle" => e.msgs # <<>> /\ e.num = Len(e.msgs)
    /\ e.hw = "addr" => Msg(e).idx = 0
    /\ e.hw = "read" => Msg(e).idx + 1 < Msg(e).len
    /\ e.hw = "read_last" => Msg(e).idx + 1 <= Msg(e).size

TwiSound(e) ==
    /\ TwiType(e)
    /\ \A i \in 1..Len(e.msgs) : PartSound(e.msgs[i])
    /\ e.msgs # <<>> => e.index < Len(e.msgs)
    /\ HwSound(e)

BusInv == TwiSound(twi) /\ spi \in [index : Nat, length : Nat, hw : {"idle", "byte"}] /\ spi.index <= spi.length

\* SetMsg changes the current message and nothing else.
MsgSet(e, m, f) ==
    /\ f \in [msgs : Seq(Parts), index : Nat, num : Nat, busy : BOOLEAN, error : {"EOK", "EINVAL"},
              hw : {"idle", "start", "addr", "data", "read", "read_last"}]
    /\ Len(f.msgs) = Len(e.msgs)
    /\ f.msgs[e.index + 1] = m
    /\ \A i \in 1..Len(e.msgs) : PartSound(f.msgs[i])
    /\ f.index = e.index /\ f.num = e.num /\ f.busy = e.busy /\ f.error = e.error /\ f.hw = e.hw

\* Writing the message in transfer back changes it alone.
LEMMA SetMsgSets ==
    ASSUME NEW e, TwiSound(e), e.msgs # <<>>, NEW m \in Parts, PartSound(m)
    PROVE  MsgSet(e, m, SetMsg(e, m))
<1> DEFINE s == [e.msgs EXCEPT ![e.index + 1] = m]
<1>1. SetMsg(e, m) = [e EXCEPT !.msgs = s]
  BY DEF SetMsg
<1>2. e.index \in Nat /\ e.index < Len(e.msgs) /\ e.msgs \in Seq(Parts) /\ Len(e.msgs) \in Nat
  BY DEF TwiSound, TwiType
<1>3. e.index + 1 \in 1..Len(e.msgs)
  BY <1>2
<1>4. s \in Seq(Parts) /\ Len(s) = Len(e.msgs) /\ s[e.index + 1] = m
  BY <1>2, <1>3
<1>5. \A i \in 1..Len(e.msgs) : PartSound(s[i])
  BY <1>2, <1>3 DEF TwiSound
<1> HIDE DEF s
<1>6. QED
  BY <1>1, <1>4, <1>5 DEF MsgSet, TwiSound, TwiType

\* The current message of a transfer under way
LEMMA MsgType ==
    ASSUME NEW e, TwiSound(e), e.msgs # <<>>
    PROVE  Msg(e) \in Parts /\ PartSound(Msg(e)) /\ e.index + 1 \in 1..Len(e.msgs)
BY DEF TwiSound, TwiType, Msg

\* The end of a message, after it was marked as done
LEMMA NextMessageSound ==
    ASSUME NEW f, TwiType(f), \A i \in 1..Len(f.msgs) : PartSound(f.msgs[i]),
           f.msgs # <<>>, f.index < Len(f.msgs), f.num = Len(f.msgs)
    PROVE  TwiSound(NextMessage(f).e)
<1>1. CASE f.index + 1 < f.num
  <2> DEFINE h == [f EXCEPT !.index = @ + 1]
             g == [h EXCEPT !.hw = "start"]
  <2>1. NextMessage(f).e = g
    BY <1>1 DEF NextMessage, GoesOn
  <2>0. h.msgs = f.msgs /\ h.index = f.index + 1 /\ h.num = f.num /\ h.busy = f.busy /\ TwiType(h)
    BY DEF TwiType
  <2> HIDE DEF h
  <2>2. g.msgs = f.msgs /\ g.index = f.index + 1 /\ g.num = f.num /\ g.busy = f.busy /\ g.hw = "start" /\ TwiType(g)
    BY <2>0 DEF TwiType
  <2> HIDE DEF g
  <2>3. QED
    BY <1>1, <2>1, <2>2 DEF TwiSound, HwSound
<1>2. CASE ~(f.index + 1 < f.num)
  <2> DEFINE g == [f EXCEPT !.hw = "idle", !.busy = FALSE]
  <2>1. NextMessage(f).e = g
    BY <1>2 DEF NextMessage, Ended, TwiType
  <2>2. g.msgs = f.msgs /\ g.index = f.index /\ g.num = f.num /\ g.busy = FALSE /\ g.hw = "idle" /\ TwiType(g)
    BY DEF TwiType
  <2> HIDE DEF g
  <2>3. QED
    BY <2>1, <2>2 DEF TwiSound, HwSound
<1>3. QED
  BY <1>1, <1>2

----------------------------------------------------------------------------
(* Each state the hardware may report *)

\* twi_stdint on TW_START and TW_REP_START keeps the transfer inside its buffers.
LEMMA TwiStartedSound ==
    ASSUME NEW e, TwiSound(e), e.hw = "start"
    PROVE  TwiSound(TwiStarted(e).e)
<1> DEFINE m == [Msg(e) EXCEPT !.idx = 0]
           f == SetMsg(e, m)
           g == [[f EXCEPT !.busy = TRUE] EXCEPT !.hw = "addr"]
<1>1. e.msgs # <<>> /\ e.num = Len(e.msgs) /\ e.index < Len(e.msgs)
  BY DEF TwiSound, HwSound
<1>2. Msg(e) \in Parts /\ PartSound(Msg(e)) /\ e.index + 1 \in 1..Len(e.msgs)
  BY <1>1, MsgType
<1>3. m \in Parts /\ PartSound(m) /\ m.idx = 0
  BY <1>2 DEF Parts, PartSound
<1>4. TwiStarted(e).e = g
  BY DEF TwiStarted, GoesOn
<1> HIDE DEF m
<1>5. MsgSet(e, m, f)
  BY <1>1, <1>3, SetMsgSets
<1> HIDE DEF f
<1>6. g.msgs = f.msgs /\ g.index = f.index /\ g.num = f.num /\ g.hw = "addr" /\ TwiType(g)
  BY <1>5 DEF TwiType, MsgSet
<1> HIDE DEF g
<1>7. Msg(g) = m
  BY <1>5, <1>6 DEF Msg, MsgSet
<1>8. g.msgs # <<>> /\ Len(g.msgs) = Len(e.msgs)
  BY <1>1, <1>2, <1>5, <1>6 DEF MsgSet
<1>9. QED
  BY <1>1, <1>3, <1>4, <1>5, <1>6, <1>7, <1>8 DEF TwiSound, HwSound, MsgSet

\* So does an acknowledged address or byte.
LEMMA TwiSentSound ==
    ASSUME NEW e, TwiSound(e), e.hw \in {"addr", "data"}
    PROVE  TwiSound(TwiSent(e).e)
<1>1. e.msgs # <<>> /\ e.num = Len(e.msgs) /\ e.index < Len(e.msgs)
  BY DEF TwiSound, HwSound
<1>2. Msg(e) \in Parts /\ PartSound(Msg(e)) /\ e.index + 1 \in 1..Len(e.msgs)
  BY <1>1, MsgType
<1>3. CASE Msg(e).idx < Msg(e).len
  <2> DEFINE m == [Msg(e) EXCEPT !.idx = @ + 1]
             f == SetMsg(e, m)
             g == [f EXCEPT !.hw = "data"]
  <2>1. m \in Parts /\ PartSound(m)
    BY <1>2, <1>3 DEF Parts, PartSound
  <2>2. TwiSent(e).e = g
    BY <1>3 DEF TwiSent, GoesOn
  <2> HIDE DEF m
  <2>3. MsgSet(e, m, f)
    BY <1>1, <2>1, SetMsgSets
  <2> HIDE DEF f
  <2>4. g.msgs = f.msgs /\ g.index = f.index /\ g.num = f.num /\ g.hw = "data" /\ TwiType(g)
    BY <2>3 DEF TwiType, MsgSet
  <2> HIDE DEF g
  <2>5. g.msgs # <<>> /\ Len(g.msgs) = Len(e.msgs)
    BY <1>1, <1>2, <2>3, <2>4 DEF MsgSet
  <2>6. QED
    BY <1>1, <2>2, <2>3, <2>4, <2>5 DEF TwiSound, HwSound, MsgSet
<1>4. CASE ~(Msg(e).idx < Msg(e).len)
  <2> DEFINE m == [Msg(e) EXCEPT !.len = 0]
             f == SetMsg(e, m)
             g == [f EXCEPT !.error = IF e.index + 1 < e.num THEN @ ELSE "EOK"]
  <2>1. m \in Parts /\ PartSound(m)
    BY <1>2 DEF Parts, PartSound
  <2>2. TwiSent(e) = NextMessage(g)
    BY <1>4 DEF TwiSent
  <2> HIDE DEF m
  <2>3. MsgSet(e, m, f)
    BY <1>1, <2>1, SetMsgSets
  <2> HIDE DEF f
  <2>4. g.msgs = f.msgs /\ g.index = f.index /\ g.num = f.num /\ TwiType(g)
    BY <2>3 DEF TwiType, MsgSet
  <2> HIDE DEF g
  <2>5. g.msgs # <<>> /\ Len(g.msgs) = Len(e.msgs)
    BY <1>1, <1>2, <2>3, <2>4 DEF MsgSet
  <2>6. TwiSound(NextMessage(g).e)
    BY <1>1, <2>3, <2>4, <2>5, NextMessageSound DEF MsgSet
  <2>7. QED
    BY <2>2, <2>6
<1>5. QED
  BY <1>3, <1>4

\* So does an address nobody acknowledges.
LEMMA TwiRefusedSound ==
    ASSUME NEW e, TwiSound(e), e.hw = "addr"
    PROVE  TwiSound(TwiRefused(e).e)
<1> DEFINE m == [Msg(e) EXCEPT !.len = 0]
           f == SetMsg(e, m)
           g == [[f EXCEPT !.error = "EINVAL", !.num = 0] EXCEPT !.hw = "idle", !.busy = FALSE]
<1>1. e.msgs # <<>> /\ e.num = Len(e.msgs) /\ e.index < Len(e.msgs)
  BY DEF TwiSound, HwSound
<1>2. Msg(e) \in Parts /\ PartSound(Msg(e)) /\ e.index + 1 \in 1..Len(e.msgs)
  BY <1>1, MsgType
<1>3. m \in Parts /\ PartSound(m)
  BY <1>2 DEF Parts, PartSound
<1>4. TwiRefused(e).e = g
  BY DEF TwiRefused, Ended
<1> HIDE DEF m
<1>5. MsgSet(e, m, f)
  BY <1>1, <1>3, SetMsgSets
<1> HIDE DEF f
<1>6. g.msgs = f.msgs /\ g.index = f.index /\ g.hw = "idle" /\ g.busy = FALSE /\ TwiType(g)
  BY <1>5 DEF TwiType, MsgSet
<1> HIDE DEF g
<1>7. g.msgs # <<>> /\ Len(g.msgs) = Len(e.msgs)
  BY <1>1, <1>2, <1>5, <1>6 DEF MsgSet
<1>8. QED
  BY <1>1, <1>4, <1>5, <1>6, <1>7 DEF TwiSound, HwSound, MsgSet

\* So does a byte that is refused.
LEMMA TwiDataRefusedSound ==
    ASSUME NEW e, TwiSound(e)
    PROVE  TwiSound(TwiDataRefused(e).e)
<1> DEFINE g == [[e EXCEPT !.error = "EOK"] EXCEPT !.hw = "idle", !.busy = FALSE]
<1>1. TwiDataRefused(e).e = g
  BY DEF TwiDataRefused, Ended
<1>2. g.msgs = e.msgs /\ g.index = e.index /\ g.hw = "idle" /\ g.busy = FALSE /\ TwiType(g)
  BY DEF TwiSound, TwiType
<1> HIDE DEF g
<1>3. QED
  BY <1>1, <1>2 DEF TwiSound, HwSound

\* So does the loss of the bus to another master.
LEMMA TwiLostSound ==
    ASSUME NEW e, TwiSound(e)
    PROVE  TwiSound(TwiLost(e).e)
<1> DEFINE g == [[e EXCEPT !.busy = FALSE] EXCEPT !.hw = "idle"]
<1>1. TwiLost(e).e = g
  BY DEF TwiLost, GoesOn
<1>2. g.msgs = e.msgs /\ g.index = e.index /\ g.hw = "idle" /\ g.busy = FALSE /\ TwiType(g)
  BY DEF TwiSound, TwiType
<1> HIDE DEF g
<1>3. QED
  BY <1>1, <1>2 DEF TwiSound, HwSound

\* TwiReceive, in a state in which at least one more byte fits the buffer
LEMMA TwiReceiveSound ==
    ASSUME NEW f, TwiType(f), \A i \in 1..Len(f.msgs) : PartSound(f.msgs[i]),
           f.msgs # <<>>, f.index < Len(f.msgs), f.num = Len(f.msgs),
           Msg(f) \in Parts, Msg(f).idx + 1 <= Msg(f).size
    PROVE  TwiSound(TwiReceive(f).e)
<1> DEFINE h == IF Msg(f).idx + 1 < Msg(f).len THEN "read" ELSE "read_last"
           g == [f EXCEPT !.hw = h]
<1>1. TwiReceive(f).e = g
  BY DEF TwiReceive, GoesOn
<1>2. h \in {"read", "read_last"} /\ (h = "read" => Msg(f).idx + 1 < Msg(f).len)
  OBVIOUS
<1> HIDE DEF h
<1>3. g.msgs = f.msgs /\ g.index = f.index /\ g.num = f.num /\ g.hw = h /\ TwiType(g)
  BY <1>2 DEF TwiType
<1> HIDE DEF g
<1>4. Msg(g) = Msg(f)
  BY <1>3 DEF Msg
<1>5. QED
  BY <1>1, <1>2, <1>3, <1>4 DEF TwiSound, HwSound

\* So does a byte received and acknowledged.
LEMMA TwiReceivedSound ==
    ASSUME NEW e, TwiSound(e), e.hw = "read"
    PROVE  TwiSound(TwiReceived(e).e)
<1> DEFINE m == [Msg(e) EXCEPT !.idx = @ + 1]
           f == SetMsg(e, m)
<1>1. e.msgs # <<>> /\ e.num = Len(e.msgs) /\ e.index < Len(e.msgs) /\ Msg(e).idx + 1 < Msg(e).len
  BY DEF TwiSound, HwSound
<1>2. Msg(e) \in Parts /\ PartSound(Msg(e)) /\ e.index + 1 \in 1..Len(e.msgs)
  BY <1>1, MsgType
<1>3. m \in Parts /\ PartSound(m) /\ m.idx + 1 <= m.size
  BY <1>1, <1>2 DEF Parts, PartSound
<1>4. TwiReceived(e) = TwiReceive(f)
  BY DEF TwiReceived
<1> HIDE DEF m
<1>5. MsgSet(e, m, f)
  BY <1>1, <1>3, SetMsgSets
<1> HIDE DEF f
<1>6. f.msgs # <<>> /\ Msg(f) = m
  BY <1>1, <1>2, <1>5 DEF MsgSet, Msg
<1>7. TwiSound(TwiReceive(f).e)
  BY <1>1, <1>3, <1>5, <1>6, TwiReceiveSound DEF MsgSet, TwiType
<1>8. QED
  BY <1>4, <1>7

\* So does the last byte of a read.
LEMMA TwiReceivedLastSound ==
    ASSUME NEW e, TwiSound(e), e.hw = "read_last"
    PROVE  TwiSound(TwiReceivedLast(e).e)
<1> DEFINE m == [Msg(e) EXCEPT !.idx = @ + 1, !.len = 0]
           f == SetMsg(e, m)
           g == [f EXCEPT !.error = IF e.index + 1 < e.num THEN @ ELSE "EOK"]
<1>1. e.msgs # <<>> /\ e.num = Len(e.msgs) /\ e.index < Len(e.msgs) /\ Msg(e).idx + 1 <= Msg(e).size
  BY DEF TwiSound, HwSound
<1>2. Msg(e) \in Parts /\ PartSound(Msg(e)) /\ e.index + 1 \in 1..Len(e.msgs)
  BY <1>1, MsgType
<1> DEFINE k == [Msg(e) EXCEPT !.idx = @ + 1]
<1>0. k \in Parts /\ k.idx = Msg(e).idx + 1 /\ k.size = Msg(e).size /\ k.rd = Msg(e).rd /\ m = [k EXCEPT !.len = 0]
  BY <1>2 DEF Parts
<1> HIDE DEF k
<1>a. m \in Parts /\ m.idx = k.idx /\ m.size = k.size /\ m.rd = k.rd /\ m.len = 0
  BY <1>0 DEF Parts
<1> HIDE DEF m
<1>3. m \in Parts /\ PartSound(m)
  BY <1>0, <1>1, <1>2, <1>a DEF Parts, PartSound
<1> USE DEF m
<1>4. TwiReceivedLast(e) = NextMessage(g)
  BY DEF TwiReceivedLast
<1> HIDE DEF m
<1>5. MsgSet(e, m, f)
  BY <1>1, <1>3, SetMsgSets
<1> HIDE DEF f
<1>6. g.msgs = f.msgs /\ g.index = f.index /\ g.num = f.num /\ TwiType(g)
  BY <1>5 DEF TwiType, MsgSet
<1> HIDE DEF g
<1>7. g.msgs # <<>> /\ Len(g.msgs) = Len(e.msgs)
  BY <1>1, <1>2, <1>5, <1>6 DEF MsgSet
<1>8. TwiSound(NextMessage(g).e)
  BY <1>1, <1>5, <1>6, <1>7, NextMessageSound DEF MsgSet
<1>9. QED
  BY <1>4, <1>8

\* The handler of the I2C interrupt keeps the transfer sound.
LEMMA TwiOutcomesSound ==
    ASSUME NEW e, TwiSound(e), NEW o \in TwiOutcomes(e)
    PROVE  TwiSound(o.e)
<1>1. CASE e.hw = "start"
  <2>1. o \in {TwiStarted(e), TwiLost(e)}
    BY <1>1 DEF TwiOutcomes
  <2>2. QED
    BY <1>1, <2>1, TwiStartedSound, TwiLostSound
<1>2. CASE e.hw = "addr"
  <2>1. o \in {TwiRefused(e), TwiLost(e), IF Msg(e).rd THEN TwiReceive(e) ELSE TwiSent(e)}
    BY <1>2 DEF TwiOutcomes
  <2>2. CASE o = TwiReceive(e) /\ Msg(e).rd
    <3>1. e.msgs # <<>> /\ e.num = Len(e.msgs) /\ e.index < Len(e.msgs) /\ Msg(e).idx = 0
      BY <1>2 DEF TwiSound, HwSound
    <3>2. Msg(e) \in Parts /\ PartSound(Msg(e))
      BY <3>1, MsgType
    <3>3. Msg(e).idx + 1 <= Msg(e).size
      BY <2>2, <3>1, <3>2 DEF Parts, PartSound
    <3>4. QED
      BY <2>2, <3>1, <3>2, <3>3, TwiReceiveSound DEF TwiSound
  <2>3. QED
    BY <1>2, <2>1, <2>2, TwiRefusedSound, TwiLostSound, TwiSentSound
<1>3. CASE e.hw = "data"
  <2>1. o \in {TwiSent(e), TwiDataRefused(e), TwiLost(e)}
    BY <1>3 DEF TwiOutcomes
  <2>2. QED
    BY <1>3, <2>1, TwiSentSound, TwiDataRefusedSound, TwiLostSound
<1>4. CASE e.hw = "read"
  <2>1. o = TwiReceived(e)
    BY <1>4 DEF TwiOutcomes
  <2>2. QED
    BY <1>4, <2>1, TwiReceivedSound
<1>5. CASE e.hw = "read_last"
  <2>1. o \in {TwiReceivedLast(e), TwiLost(e)}
    BY <1>5 DEF TwiOutcomes
  <2>2. QED
    BY <1>5, <2>1, TwiReceivedLastSound, TwiLostSound
<1>6. CASE e.hw = "idle"
  BY <1>6 DEF TwiOutcomes
<1>7. QED
  BY <1>1, <1>2, <1>3, <1>4, <1>5, <1>6 DEF TwiSound, TwiType

----------------------------------------------------------------------------
(* The steps of the system *)

busData == <<twi, spi>>

\* A transfer that is started begins at index 0 of buffers of its own length.
LEMMA I2cStartSound ==
    ASSUME BusInv, NEW t \in Threads, NEW msgs0 \in Transfers, I2cStart(t, msgs0)
    PROVE  BusInv'
<1> DEFINE s == [i \in 1..Len(msgs0) |-> [rd |-> msgs0[i].rd, len |-> msgs0[i].len, idx |-> 0, size |-> msgs0[i].len]]
           ms == IF xpc[t] = "again" THEN twi.msgs ELSE s
           g == [twi EXCEPT !.index = 0, !.num = Len(msgs0), !.hw = "start", !.msgs = ms]
<1> DEFINE R == [rd : BOOLEAN, len : Nat]
<1>1. msgs0 \in Seq(R) /\ msgs0 # <<>> /\ Len(msgs0) \in Nat /\ Len(msgs0) > 0
  BY TransfersAssumption
<1>2. \A i \in 1..Len(msgs0) : msgs0[i].rd \in BOOLEAN /\ msgs0[i].len \in Nat /\ (msgs0[i].rd => msgs0[i].len > 0)
  <2> TAKE i \in 1..Len(msgs0)
  <2> HIDE DEF R
  <2>1. msgs0[i] \in R
    BY <1>1
  <2> USE DEF R
  <2>2. msgs0[i].rd => msgs0[i].len > 0
    BY TransfersAssumption, Zenon
  <2>3. QED
    BY <2>1, <2>2
<1>3. s \in Seq(Parts) /\ Len(s) = Len(msgs0)
  BY <1>1, <1>2 DEF Parts
<1>4. \A i \in 1..Len(s) : PartSound(s[i])
  BY <1>1, <1>2, <1>3 DEF PartSound
<1> HIDE DEF s
<1>5. ms \in Seq(Parts) /\ Len(ms) = Len(msgs0) /\ \A i \in 1..Len(ms) : PartSound(ms[i])
  BY <1>3, <1>4 DEF I2cStart, BusInv, TwiSound, TwiType
<1>6. twi' = g /\ ~twi.busy /\ spi' = spi
  BY DEF I2cStart, s
<1> HIDE DEF ms
<1>7. g.msgs = ms /\ g.index = 0 /\ g.num = Len(ms) /\ g.hw = "start" /\ TwiType(g)
  BY <1>1, <1>5 DEF BusInv, TwiSound, TwiType
<1> HIDE DEF g
<1>8. TwiSound(g)
  BY <1>1, <1>5, <1>7 DEF TwiSound, HwSound
<1>9. QED
  BY <1>6, <1>8 DEF BusInv

\* So does an SPI transfer.
LEMMA SpiStartSound ==
    ASSUME BusInv, NEW t \in Threads, NEW len \in Lengths, SpiStart(t, len)
    PROVE  BusInv'
BY TransfersAssumption DEF SpiStart, BusInv

\* The TWI interrupt keeps the invariant, whatever the status register says.
LEMMA TwiIrqSound ==
    ASSUME BusInv, TwiIrq
    PROVE  BusInv'
BY TwiOutcomesSound DEF TwiIrq, BusInv

\* The SPI interrupt keeps the invariant.
LEMMA SpiIrqSound ==
    ASSUME BusInv, SpiIrq
    PROVE  BusInv'
<1>1. twi' = twi
  BY DEF SpiIrq
<1>2. spi' \in [index : Nat, length : Nat, hw : {"idle", "byte"}] /\ spi'.index <= spi'.length
  <2>1. CASE spi.index >= spi.length
    BY <2>1 DEF SpiIrq, BusInv
  <2>2. CASE ~(spi.index >= spi.length)
    <3>1. spi.index \in Nat /\ spi.length \in Nat /\ spi.index + 1 <= spi.length
      BY <2>2 DEF BusInv
    <3>2. spi' = [spi EXCEPT !.index = spi.index + 1, !.hw = spi.hw]
      BY <2>2 DEF SpiIrq
    <3> DEFINE r == [spi EXCEPT !.index = spi.index + 1]
    <3>a. spi \in [index : Nat, length : Nat, hw : {"idle", "byte"}] /\ spi.index + 1 \in Nat
      BY <3>1 DEF BusInv
    <3>b. r \in [index : Nat, length : Nat, hw : {"idle", "byte"}] /\ r.hw = spi.hw
      BY <3>a
    <3>c. spi' = [r EXCEPT !.hw = spi.hw]
      BY <3>2
    <3> HIDE DEF r
    <3>3. spi' \in [index : Nat, length : Nat, hw : {"idle", "byte"}]
      BY <3>b, <3>c
    <3>4. spi'.index = spi.index + 1 /\ spi'.length = spi.length
      BY <3>2 DEF BusInv
    <3>5. QED
      BY <3>1, <3>3, <3>4
  <2>3. QED
    BY <2>1, <2>2
<1>3. QED
  BY <1>1, <1>2 DEF BusInv

\* What a thread does on a bus
LEMMA BusStepSound ==
    ASSUME BusInv, NEW t \in Threads, BusStep(t)
    PROVE  BusInv'
<1>1. UNCHANGED busData => BusInv'
  BY DEF busData, BusInv
<1>2. CASE UNCHANGED busVars
  BY <1>1, <1>2 DEF busVars, busData
<1>3. CASE BusContinue(t) \/ BusLock(t)
  BY <1>1, <1>3 DEF BusContinue, BusLock, BusTimedOut, BusDone, BusUnlock, BusReturn, busData
<1>4. CASE \E ms \in {0, BusTmo} : BusWait(t, ms)
  BY <1>1, <1>4 DEF BusWait, busData
<1>5. CASE \E msgs0 \in Transfers : I2cStart(t, msgs0)
  BY <1>5, I2cStartSound
<1>6. CASE \E len \in Lengths : SpiStart(t, len)
  BY <1>6, SpiStartSound
<1>7. CASE \E len \in Lengths : RxStart(t, len)
  BY <1>1, <1>7 DEF RxStart, busData
<1>8. QED
  BY <1>2, <1>3, <1>4, <1>5, <1>6, <1>7 DEF BusStep, I2cStep, SpiStep, RxStep

\* No bus has a transfer at boot.
LEMMA BusInvInit ==
    ASSUME IpcInit
    PROVE  BusInv
BY DEF IpcInit, BusBegin, BusInv, TwiSound, TwiType, HwSound

\* Every step of the kernel and its services keeps the invariant.
LEMMA BusInvNext ==
    ASSUME BusInv, [IpcNext]_ipcVars
    PROVE  BusInv'
<1>1. UNCHANGED busData => BusInv'
  BY DEF busData, BusInv
<1>2. CASE UNCHANGED ipcVars
  BY <1>1, <1>2 DEF ipcVars, busVars, busData
<1>3. CASE Kernel /\ WaitReturns
  BY <1>1, <1>3 DEF WaitReturns, busData
<1>4. CASE UNCHANGED busVars
  BY <1>1, <1>4 DEF busVars, busData
<1>5. CASE BusIrq
  <2>1. CASE RxIrq
    BY <1>1, <2>1 DEF RxIrq, busData
  <2>2. QED
    BY <1>5, <2>1, TwiIrqSound, SpiIrqSound DEF BusIrq
<1>6. CASE \E t \in Threads : BusStep(t)
  BY <1>6, BusStepSound
<1>7. QED
  BY <1>2, <1>3, <1>4, <1>5, <1>6
  DEF IpcNext, CondStep, CondUse, SemStep, SemUse, IpmStep, IpmUse, Otherwise, ExternalIrq, IrqStep

\* The invariant of the buses holds in every reachable state.
LEMMA BusInvHolds == IpcSpec => []BusInv
<1>1. IpcInit => BusInv
  BY BusInvInit
<1>2. BusInv /\ [IpcNext]_ipcVars => BusInv'
  BY BusInvNext
<1>3. QED
  BY <1>1, <1>2, PTL DEF IpcSpec

----------------------------------------------------------------------------
(* Results *)

\* The handlers of the I2C and the SPI interrupt never step past the last
\* message nor write past the buffer of a message, whatever the hardware
\* answers, however often the threads retry after a timeout with messages
\* the handler has already shortened, and however many threads there are.
THEOREM BuffersKept == IpcSpec => []InsideBuffers
<1>1. BusInv => InsideBuffers
  BY DEF BusInv, TwiSound, PartSound, InsideBuffers
<1>2. QED
  BY <1>1, BusInvHolds, PTL

\* tw_if_busy, on which atmega_i2c_xfer spins, is set only while the hardware
\* still has an interrupt to raise.
THEOREM SpinEnds == IpcSpec => []BusyClears
<1>1. BusInv => BusyClears
  BY DEF BusInv, TwiSound, HwSound, BusyClears
<1>2. QED
  BY <1>1, BusInvHolds, PTL

----------------------------------------------------------------------------
(* The services as callers of the scheduler *)

\* What a thread asks of the scheduler, on the queues of Q
Acts(t, Q) ==
    \/ UNCHANGED vars
    \/ Yield(t) \/ \E u \in Threads \ {ithread} : ThreadCreate(t, u)
    \/ \E q \in Q : \/ EventNotify(t, q) \/ EventBroadcast(t, q)
                    \/ \E ms \in Nat : RawEventWait(t, q, ms) \/ EventWait(t, q, ms)
                    \/ /\ Running(t, "app") /\ sig' = sig \ {q}
                       /\ UNCHANGED <<rqVars, flags, wake, queue, ec, tmrVars, deadVars, irqVars, cnt, sc, scan, callVars>>

\* The queues of a service
CondQueues == {mutex, cond}
BusQueues == {mutex, xfer}

\* preempt_disable and preempt_enable do nothing without CONFIG_PREEMPT.
LEMMA CountsNothing ==
    ASSUME Cooperative, TypeOK, NEW t \in Threads
    PROVE  /\ PreemptDisable(t) <=> cnt' = cnt
           /\ PreemptEnableNoResched(t) <=> cnt' = cnt
           /\ \A c, f : PreemptEnable(t, c, f) <=> sc' = sc
<1>1. Step = 0 /\ cnt \in [Threads -> Int] /\ sc \in [Threads -> Phases]
  BY DEF Cooperative, Step, TypeOK
<1>2. QED
  BY <1>1 DEF PreemptDisable, PreemptEnableNoResched, PreemptEnable, Cooperative

\* mutex.c notifies the queue of the mutex and waits in it.
LEMMA MutexActs ==
    ASSUME Cooperative, TypeOK, NEW t \in Threads, LockEnter(t) \/ MContinue(t) \/ Unlock(t), NEW Q, mutex \in Q
    PROVE  Acts(t, Q)
<1>1. CASE LockEnter(t)
  BY <1>1, CountsNothing DEF LockEnter, SchedButCnt, vars, Acts
<1>2. CASE UnlockEnable(t)
  BY <1>2, CountsNothing DEF UnlockEnable, SchedButCnt, vars, Acts
<1>3. CASE LockPass(t) \/ LockTake(t) \/ Unlock(t) \/ UnlockOwner(t)
  BY <1>3 DEF LockPass, LockTake, Unlock, UnlockOwner, Acts
<1>4. CASE LockWait(t) \/ UnlockNotify(t)
  BY <1>4 DEF LockWait, UnlockNotify, Acts
<1>5. QED
  BY <1>1, <1>2, <1>3, <1>4 DEF MContinue

\* condition.c
LEMMA CondActs ==
    ASSUME Cooperative, TypeOK, NEW t \in Threads, CondStep(t) \/ CondUse(t)
    PROVE  Acts(t, CondQueues)
<1>1. mutex \in CondQueues /\ cond \in CondQueues
  BY DEF CondQueues
<1>2. CASE LockEnter(t) \/ MContinue(t) \/ Unlock(t)
  BY <1>1, <1>2, MutexActs
<1>3. CASE CondWait(t) \/ CondReturn(t)
  BY <1>3, CountsNothing DEF CondWait, CondReturn, SchedButCnt, vars, Acts
<1>4. CASE CondSignal(t) \/ CondBcast(t) \/ CondConsume(t)
  BY <1>1, <1>4 DEF CondSignal, CondBcast, CondConsume, Acts, allVars
<1>5. CASE \E ms \in Durations \cup {0} : CondEventWait(t, ms)
  BY <1>1, <1>5, TimeAssumption DEF CondEventWait, Acts
<1>6. QED
  BY <1>2, <1>3, <1>4, <1>5 DEF CondStep, CondUse, CondContinue, CondCall, CondUnlock, CondLock

\* semaphore.c
LEMMA SemActs ==
    ASSUME NEW t \in Threads, SemStep(t) \/ SemUse(t)
    PROVE  Acts(t, {sem})
BY DEF SemStep, SemUse, SemContinue, SemCall, SemInit, SemWait, SemTryWait, SemSignal, SemWaitStore, SemWaitBlock,
   SemWaitReturn, SemSignalStore, SemSignalNotify, SemSignalReturn, Calls, Acts

\* ipm.c
LEMMA IpmActs ==
    ASSUME NEW t \in Threads, IpmStep(t) \/ IpmUse(t)
    PROVE  Acts(t, {ipm})
BY DEF IpmStep, IpmUse, IpmContinue, IpmCall, IpmQueueInit, IpmPost, IpmPostSlot, IpmPostFill, IpmPostNotify, IpmTake,
   IpmGet, IpmGetEmpty, IpmGetWait, IpmGetAgain, IpmGetNotify, IpmNotified, IpmReset, Calls, Acts

\* the buses
LEMMA BusActs ==
    ASSUME Cooperative, TypeOK, NEW t \in Threads, BusStep(t)
    PROVE  Acts(t, BusQueues)
<1>1. mutex \in BusQueues /\ xfer \in BusQueues /\ BusTmo \in Nat
  BY BusAssumption DEF BusQueues
<1>2. CASE LockEnter(t) \/ MContinue(t) \/ Unlock(t)
  BY <1>1, <1>2, MutexActs
<1>3. CASE BusTimedOut(t) \/ BusDone(t) \/ BusReturn(t) \/ Starts(t)
  BY <1>3 DEF BusTimedOut, BusDone, BusReturn, Starts, allVars, Acts
<1>4. CASE BusWait(t, BusTmo) \/ BusWait(t, 0)
  BY <1>1, <1>4 DEF BusWait, Acts
<1>5. QED
  BY <1>2, <1>3, <1>4 DEF BusStep, BusContinue, BusUnlock, BusLock, I2cStep, SpiStep, RxStep, I2cStart, SpiStart, RxStart

\* and those who use none of them
LEMMA OtherActs ==
    ASSUME NEW t \in Threads, Otherwise(t), NEW Q
    PROVE  Acts(t, Q)
BY DEF Otherwise, Acts

\* Calls on other queues do nothing to this one.
LEMMA ActsElsewhere ==
    ASSUME CoopInv, NEW t \in Threads, NEW Q, Acts(t, Q), NEW q, q \notin Q
    PROVE  Elsewhere(q)
<1>1. pc \in [Threads -> Labels] /\ arg \in [Threads -> Args] /\ ~irqExec
  BY DEF CoopInv, TypeOK, ControlInv
<1>2. CASE UNCHANGED vars
  BY <1>2 DEF vars, evVars, callVars, Elsewhere
<1>3. CASE Yield(t) \/ \E u \in Threads : ThreadCreate(t, u)
  BY <1>1, <1>3 DEF Yield, ThreadCreate, Calls, Running, Goto, evVars, callVars, Elsewhere
<1>4. ASSUME NEW p \in Q, EventNotify(t, p) \/ EventBroadcast(t, p)
      PROVE  Elsewhere(q)
  BY <1>1, <1>4 DEF EventNotify, EventBroadcast, Calls, Running, Goto, evVars, callVars, Elsewhere
<1>5. ASSUME NEW p \in Q, NEW ms \in Nat, RawEventWait(t, p, ms)
      PROVE  Elsewhere(q)
  <2>1. UNCHANGED queue /\ pc[t] = "app" /\ \A u \in Threads \ {t} : pc'[u] = pc[u] /\ arg'[u] = arg[u]
    BY <1>1, <1>5 DEF RawEventWait, RawEventWaitCheck, Calls, Running, Goto, Return
  <2>2. pc'[t] \in {"ev_check", "ev_enqueue"} => arg'[t].q # q
    BY <1>1, <1>5 DEF RawEventWait, RawEventWaitCheck, Goto, Return, Args
  <2>3. QED
    BY <2>1, <2>2 DEF Elsewhere
<1>6. ASSUME NEW p \in Q, NEW ms \in Nat, EventWait(t, p, ms)
      PROVE  Elsewhere(q)
  <2>1. UNCHANGED queue /\ pc[t] = "app" /\ \A u \in Threads \ {t} : pc'[u] = pc[u] /\ arg'[u] = arg[u]
    BY <1>1, <1>6 DEF EventWait, ForgetSignal, Calls, Running, Goto
  <2>2. arg'[t].q # q
    BY <1>1, <1>6 DEF EventWait, ForgetSignal, Args
  <2>3. QED
    BY <2>1, <2>2 DEF Elsewhere
<1>7. CASE UNCHANGED <<rqVars, flags, wake, queue, ec, tmrVars, deadVars, irqVars, cnt, sc, scan, callVars>>
  BY <1>7 DEF callVars, Elsewhere
<1>8. QED
  BY <1>2, <1>3, <1>4, <1>5, <1>6, <1>7 DEF Acts

\* The scheduler's invariant holds whatever the services call.
LEMMA ActsCoop ==
    ASSUME Cooperative, CoopInv, NEW t \in Threads, NEW Q \in SUBSET Queues, Acts(t, Q)
    PROVE  CoopInv'
<1>1. TypeOK /\ \A q \in Q : q \in Queues /\ q \in QueueIds
  BY DEF CoopInv, QueueIds
<1>2. CASE UNCHANGED vars
  BY <1>2, CoopNext
<1>3. CASE Yield(t) \/ \E u \in Threads : ThreadCreate(t, u)
  BY <1>3, CallKeeps DEF Call
<1>4. ASSUME NEW q \in Q, EventNotify(t, q) \/ EventBroadcast(t, q)
      PROVE  CoopInv'
  BY <1>1, <1>4, CallKeeps DEF Call
<1>5. ASSUME NEW q \in Q, NEW ms \in Nat, RawEventWait(t, q, ms)
      PROVE  CoopInv'
  <2>1. TypeOK'
    BY <1>1, <1>5, RawEventWaitCheckType DEF RawEventWait
  <2>2. QED
    BY <1>1, <1>5, <2>1, RawEventWaitKeeps
<1>6. ASSUME NEW q \in Q, NEW ms \in Nat, EventWait(t, q, ms)
      PROVE  CoopInv'
  <2>1. TypeOK'
    BY <1>1, <1>6, ForgetSignalType DEF EventWait
  <2>2. QED
    BY <1>1, <1>6, <2>1, EventWaitKeeps
<1>7. ASSUME NEW q \in Q, Running(t, "app"), sig' = sig \ {q},
             UNCHANGED <<rqVars, flags, wake, queue, ec, tmrVars, deadVars, irqVars, cnt, sc, scan, callVars>>
      PROVE  CoopInv'
  <2>1. TypeOK'
    BY <1>1, <1>7 DEF TypeOK, rqVars, tmrVars, deadVars, irqVars, callVars
  <2>2. Calm(t)
    BY <1>7 DEF Calm, Settled, Running, Plain, rqVars, tmrVars, deadVars, irqVars, callVars, CoopInv, FlagsInv, Has
  <2>3. CallInv'
    BY <1>7 DEF CoopInv, CallInv, rqVars, callVars, Has
  <2>4. QED
    BY <2>1, <2>2, <2>3, CalmKeeps
<1>8. QED
  BY <1>2, <1>3, <1>4, <1>5, <1>6, <1>7 DEF Acts

\* A handler that posts nothing leaves everything as it was.
LEMMA QuietIrqSame ==
    ASSUME CoopInv, QuietIrq
    PROVE  UNCHANGED vars
<1>1. irqExec = FALSE
  BY DEF CoopInv, ControlInv, TypeOK
<1>2. QED
  BY <1>1 DEF QuietIrq, vars, irqVars

\* The interrupts of the buses notify one queue and keep the invariant.
LEMMA BusIrqCoop ==
    ASSUME Cooperative, CoopInv, BusIrq
    PROVE  CoopInv' /\ \A q : Elsewhere(q)
<1>1. IrqNotify(xfer) \/ QuietIrq
  BY DEF BusIrq, TwiIrq, SpiIrq, RxIrq, PostEnd
<1>2. xfer \in QueueIds
  BY BusAssumption DEF QueueIds
<1>3. CASE QuietIrq
  <2>1. UNCHANGED vars
    BY <1>3, QuietIrqSame
  <2>2. QED
    BY <2>1, CoopNext DEF vars, evVars, callVars, Elsewhere
<1>4. CASE IrqNotify(xfer)
  <2>1. TypeOK'
    BY <1>2, <1>4, IrqNotifyType DEF CoopInv
  <2>2. \A q : Elsewhere(q)
    BY <1>4 DEF IrqNotify, callVars, Elsewhere
  <2>3. QED
    BY <1>2, <1>4, <2>1, <2>2, IrqNotifyKeeps
<1>5. QED
  BY <1>1, <1>3, <1>4

----------------------------------------------------------------------------
(* The threaded interrupt *)

Created == sc[ithread] # "uncreated"

\* The thread of the interrupt only waits for it: it is never in a queue, never
\* sleeps and does not exit, and when it is not RUNNING it is in wait().
IrqInv ==
    /\ OnRq /\ \A t \in Threads : pc[t] \notin {"signal_add", "signal_on_rq"}
    /\ qpc \in [Threads -> {"out", "request", "loop", "wait", "handler"}]
    /\ \A t \in Threads \ {ithread} : qpc[t] \in {"out", "request"}
    /\ qpc[ithread] # "request" /\ (qpc[ithread] # "out" <=> Created)
    /\ irq.enabled \/ irq.pin \/ intf \/ (\E t \in Threads : qpc[t] = "request") => Created
    /\ pc[ithread] \in Waits \cup {"app"} /\ (pc[ithread] \in Waits => qpc[ithread] = "wait")
    /\ ~Has(ithread, "EXIT") /\ ~Has(ithread, "SLEEPING") /\ ~Has(ithread, "REMOTE_KILL")
    /\ Created /\ ~Has(ithread, "RUNNING") => qpc[ithread] = "wait"
    /\ came = "woken" => /\ qpc[ithread] = "wait" /\ pc[ithread] = "app"
                         /\ Has(ithread, "RUNNING") /\ ~Has(ithread, "WAITING")
    /\ qpc[ithread] = "wait" /\ pc[ithread] = "app" /\ Has(ithread, "RUNNING") => came = "woken"

\* Nobody is inside a service the application does not use.
UsesInv ==
    /\ uses # "irq" => ~Created
    /\ uses # "sem" => ~sready
    /\ ~sready => \A t \in Threads : spc[t] = "out"
    /\ uses # "ipm" => \A t \in Threads : ipc[t] = "out"

\* It is nowhere but on the run queue or in wait().
LEMMA IthreadPlace ==
    ASSUME CoopInv, IrqInv
    PROVE  /\ ithread \in Threads /\ ithread # Idle
           /\ ithread \notin ToSet(wake) /\ ~Armed(ithread)
           /\ Created /\ ~Has(ithread, "RUNNING") => Has(ithread, "WAITING")
<1>1. ithread \in Threads /\ ithread # Idle
  BY IthreadAssumption
<1>2. ithread \notin ToSet(wake)
  BY <1>1 DEF CoopInv, PlaceInv, IrqInv, Waits
<1>3. Created /\ ~Has(ithread, "RUNNING") => Has(ithread, "WAITING")
  BY <1>1, <1>2 DEF CoopInv, PlaceInv, IrqInv, Created
<1>4. ~Armed(ithread)
  BY <1>1, <1>2, <1>3 DEF CoopInv, PlaceInv, Created
<1>5. QED
  BY <1>1, <1>2, <1>3, <1>4

\* The kernel lets it go on in wait(), and no further.
LEMMA KernelIrq ==
    ASSUME Cooperative, CoopInv, IrqInv, Kernel, UNCHANGED irqThreadVars
    PROVE  IrqInv' /\ (Created' <=> Created)
<1>1. /\ ithread \in Threads /\ ithread # Idle
      /\ ithread \notin ToSet(wake) /\ ~Armed(ithread)
  BY IthreadPlace
<1>2. Spared(ithread)
  BY <1>1, ScheduleSpares, ContinueSpares DEF Kernel, IrqInv
<1>3. current \in Threads
  BY DEF CoopInv, TypeOK
<1>4. OnRq'
  BY <1>3, KernelOnRq DEF IrqInv
<1>5. \A t \in Threads : pc'[t] \notin {"signal_add", "signal_on_rq"}
  BY <1>3, KernelWaits DEF IrqInv, Waiters, Course, Turn, Aside
<1>6. Created' <=> Created
  BY <1>2 DEF Spared, Created
<1>7. QED
  BY <1>1, <1>2, <1>4, <1>5, <1>6 DEF IrqInv, Spared, Lasting, Waits, irqThreadVars, Created

\* A step of a thread that uses a service
LEMMA ServiceRuns ==
    ASSUME NEW t \in Threads, CondStep(t) \/ CondUse(t) \/ SemStep(t) \/ SemUse(t) \/ IpmStep(t) \/ IpmUse(t) \/ BusStep(t) \/ Otherwise(t)
    PROVE  Running(t, "app")
<1>1. ASSUME LockEnter(t) \/ MContinue(t) \/ Unlock(t)
      PROVE  Running(t, "app")
  BY <1>1 DEF LockEnter, MContinue, Unlock, LockPass, LockWait, LockTake, UnlockOwner, UnlockNotify, UnlockEnable, At, Calls
<1>2. CASE CondStep(t) \/ CondUse(t)
  BY <1>1, <1>2 DEF CondStep, CondUse, CondContinue, CondCall, CondUnlock, CondLock, CondReturn, CondEventWait, CondWait, CondSignal,
     CondBcast, CondConsume, CondAt, Calls
<1>3. CASE SemStep(t) \/ SemUse(t)
  BY <1>3 DEF SemStep, SemUse, SemContinue, SemCall, SemInit, SemWait, SemTryWait, SemSignal, SemWaitStore, SemWaitBlock,
     SemWaitReturn, SemSignalStore, SemSignalNotify, SemSignalReturn, SemAt, Calls
<1>4. CASE IpmStep(t) \/ IpmUse(t)
  BY <1>4 DEF IpmStep, IpmUse, IpmContinue, IpmCall, IpmQueueInit, IpmPost, IpmPostSlot, IpmPostFill, IpmPostNotify,
     IpmGet, IpmGetEmpty, IpmGetWait, IpmGetAgain, IpmGetNotify, IpmNotified, IpmReset, IpmAt, Calls
<1>5. CASE BusStep(t)
  BY <1>1, <1>5 DEF BusStep, BusContinue, BusUnlock, BusLock, I2cStep, SpiStep, RxStep, I2cStart, SpiStart, RxStart, Starts,
     BusTimedOut, BusDone, BusReturn, BusWait, BusAt
<1>6. CASE Otherwise(t)
  BY <1>6 DEF Otherwise, Yield, ThreadCreate, Calls
<1>7. QED
  BY <1>2, <1>3, <1>4, <1>5, <1>6

\* It is not the thread of the interrupt.
LEMMA ServiceThread ==
    ASSUME CoopInv, IrqInv, UsesInv, NEW t \in Threads,
           CondStep(t) \/ CondUse(t) \/ SemStep(t) \/ SemUse(t) \/ IpmStep(t) \/ IpmUse(t) \/ BusStep(t) \/ Otherwise(t)
    PROVE  t # ithread
<1>1. sc[t] = "none"
  BY ServiceRuns DEF Running
<1>2. CASE uses # "irq"
  BY <1>1, <1>2 DEF UsesInv, Created
<1>3. CASE uses = "irq"
  <2>1. \A u \in Threads : spc[u] = "out" /\ ipc[u] = "out"
    BY <1>3 DEF UsesInv
  <2>2. ~SemStep(t) /\ ~IpmStep(t)
    BY <2>1 DEF SemStep, SemContinue, SemWaitStore, SemWaitBlock, SemWaitReturn, SemSignalStore, SemSignalNotify, SemSignalReturn, SemAt,
       IpmStep, IpmContinue, IpmPostSlot, IpmPostFill, IpmPostNotify, IpmGetWait, IpmGetAgain, IpmGetNotify, IpmNotified, IpmAt
  <2>3. Otherwise(t)
    BY <1>3, <2>2 DEF CondStep, CondUse, SemUse, IpmUse, BusStep
  <2>4. QED
    BY <1>1, <2>3 DEF Otherwise, IrqInv, Created
<1>4. QED
  BY <1>2, <1>3

\* The other threads do nothing to it.
LEMMA ActsIrq ==
    ASSUME Cooperative, CoopInv, IrqInv, NEW t \in Threads, t # ithread, NEW Q, Acts(t, Q), UNCHANGED irqThreadVars
    PROVE  IrqInv' /\ (Created' <=> Created)
<1>1. /\ pc \in [Threads -> Labels] /\ sc \in [Threads -> Phases] /\ flags \in [Threads -> SUBSET Flags]
      /\ on_rq \in [Threads -> BOOLEAN] /\ current \in Threads /\ ~irqExec
  BY DEF CoopInv, TypeOK, ControlInv
<1> DEFINE Same == /\ current' = current /\ (\A v \in Threads : on_rq[v] => on_rq'[v])
                   /\ pc'[ithread] = pc[ithread] /\ (\A v \in Threads : pc'[v] \notin {"signal_add", "signal_on_rq"})
                   /\ flags'[ithread] = flags[ithread] /\ (Created' <=> Created)
<1>2. CASE UNCHANGED vars
  <2>1. Same
    BY <1>2 DEF vars, rqVars, callVars, IrqInv, Created
  <2>2. QED
    BY <1>1, <2>1 DEF IrqInv, irqThreadVars, OnRq, Has
<1>3. CASE ~UNCHANGED vars
  <2>1. t = current /\ ithread \in Threads
    BY <1>3, IthreadAssumption DEF Acts, Yield, ThreadCreate, EventNotify, EventBroadcast, RawEventWait, EventWait, Calls, Running
  <2>3. ASSUME NEW u \in Threads \ {ithread}, ThreadCreate(t, u)
        PROVE  Same
    <3>1. on_rq' = [on_rq EXCEPT ![u] = TRUE]
      BY <2>3 DEF ThreadCreate, RqAddThread
    <3>2. PICK p : sc' = [sc EXCEPT ![u] = "fresh", ![t] = p] /\ p # "uncreated"
      <4>1. sc[t] # "uncreated"
        BY <2>3 DEF ThreadCreate, Calls, Running
      <4>2. QED
        BY <2>3, <4>1 DEF ThreadCreate, Cooperative
    <3>3. QED
      BY <1>1, <2>1, <2>3, <3>1, <3>2 DEF ThreadCreate, Goto, IrqInv, Created
  <2>4. ASSUME NEW q \in Q, EventNotify(t, q) \/ EventBroadcast(t, q)
        PROVE  Same
    BY <1>1, <2>1, <2>4 DEF EventNotify, EventBroadcast, Goto, rqVars, IrqInv, Created
  <2>5. ASSUME NEW q \in Q, NEW ms \in Nat, RawEventWait(t, q, ms)
        PROVE  Same
    BY <1>1, <2>1, <2>5 DEF RawEventWait, RawEventWaitCheck, PreemptEnable, Cooperative, Goto, Return, rqVars, IrqInv, Created
  <2>6. ASSUME NEW q \in Q, NEW ms \in Nat, EventWait(t, q, ms)
        PROVE  Same
    BY <1>1, <2>1, <2>6 DEF EventWait, ForgetSignal, Goto, rqVars, IrqInv, Created
  <2>7. ASSUME UNCHANGED <<rqVars, flags, wake, queue, ec, tmrVars, deadVars, irqVars, cnt, sc, scan, callVars>>
        PROVE  Same
    BY <2>7 DEF rqVars, callVars, IrqInv, Created
  <2>8. CASE Yield(t)
    <3>1. Same
      BY <1>1, <2>1, <2>8 DEF Yield, CallSchedule, rqVars, callVars, IrqInv, Created, Calls, Running
    <3>2. QED
      BY <1>1, <3>1 DEF IrqInv, irqThreadVars, OnRq, Has
  <2>9. CASE ~Yield(t)
    <3>1. Same
      BY <1>3, <2>3, <2>4, <2>5, <2>6, <2>7, <2>9 DEF Acts
    <3>2. QED
      BY <1>1, <3>1 DEF IrqInv, irqThreadVars, OnRq, Has
  <2>10. QED
    BY <2>8, <2>9
<1>4. QED
  BY <1>2, <1>3

\* The tick and the other interrupts do nothing to it.
LEMMA InterruptIrq ==
    ASSUME Cooperative, CoopInv, IrqInv, UNCHANGED irqThreadVars, Interrupt \/ BusIrq \/ UNCHANGED vars
    PROVE  IrqInv' /\ (Created' <=> Created)
<1>1. UNCHANGED <<current, on_rq, flags, pc, sc>>
  <2>1. CASE BusIrq
    <3>1. IrqNotify(xfer) \/ QuietIrq
      BY <2>1 DEF BusIrq, TwiIrq, SpiIrq, RxIrq, PostEnd
    <3>2. CASE QuietIrq
      BY <3>2, QuietIrqSame DEF vars, rqVars, callVars
    <3>3. CASE IrqNotify(xfer)
      BY <3>3 DEF IrqNotify, Cooperative, rqVars, callVars
    <3>4. QED
      BY <3>1, <3>2, <3>3
  <2>2. ASSUME NEW q, IrqNotify(q)
        PROVE  UNCHANGED <<current, on_rq, flags, pc, sc>>
    BY <2>2 DEF IrqNotify, Cooperative, rqVars, callVars
  <2>3. ASSUME NEW expire \in BOOLEAN, Tick(expire)
        PROVE  UNCHANGED <<current, on_rq, flags, pc, sc>>
    <3>1. expire = FALSE /\ flags \in [Threads -> SUBSET Flags]
      BY <2>3 DEF Tick, Cooperative, CoopInv, TypeOK
    <3>2. flags' = flags /\ sc' = sc
      BY <2>3, <3>1 DEF Tick
    <3>3. QED
      BY <2>3, <3>2 DEF Tick, rqVars, callVars
  <2>4. QED
    BY <2>1, <2>2, <2>3 DEF Interrupt, vars, rqVars, callVars
<1>2. QED
  BY <1>1 DEF IrqInv, irqThreadVars, OnRq, Has, Created

\* An interrupt that finds the thread off the run queue finds it in wait().
LEMMA ExtIrqPlace ==
    ASSUME Cooperative, CoopInv, IrqInv, ExtIrq, ~on_rq[ithread]
    PROVE  /\ Created /\ ithread \in Threads \ {Idle} /\ ~Has(ithread, "RUNNING") /\ Has(ithread, "WAITING")
           /\ ithread # current /\ pc[ithread] = "app" /\ ithread \notin ToSet(runq)
           /\ ~Marked(ithread) /\ ~Added(ithread)
<1>1. Created /\ ithread \in Threads \ {Idle}
  BY IthreadAssumption DEF ExtIrq, IrqInv
<1>2. \A u : ~Marked(u) /\ ~Added(u)
  BY DEF CoopInv, TypeOK, IrqInv, Marked, Added
<1>3. ~Has(ithread, "RUNNING")
  BY <1>1, <1>2 DEF CoopInv, RunInv
<1>4. Has(ithread, "WAITING")
  BY <1>1, <1>3, IthreadPlace
<1>5. ithread # current
  BY <1>1 DEF IrqInv, OnRq
<1>6. pc[ithread] = "app"
  BY <1>1, <1>5 DEF CoopInv, ControlInv, IrqInv, Waits, Outside
<1>7. QED
  BY <1>1, <1>2, <1>3, <1>4, <1>5, <1>6 DEF CoopInv, RunInv

\* It puts the thread on the run queue, once.
LEMMA ExtIrqCoop ==
    ASSUME Cooperative, CoopInv, IrqInv, ExtIrq
    PROVE  CoopInv'
<1> DEFINE u == ithread
<1>1. UNCHANGED <<current, prio, wake, queue, sig, ec, timers, tmr, killq, freed, cpuState, cnt, scan, pc, arg, sc, isr>> /\ irqExec' = irqExec
  BY DEF ExtIrq, Cooperative, evVars, tmrVars, deadVars, callVars, CoopInv, ControlInv, TypeOK
<1>2. CASE on_rq[u]
  <2>1. UNCHANGED vars
    BY <1>1, <1>2 DEF ExtIrq, IrqThreadSignal, vars, rqVars, evVars, tmrVars, deadVars, irqVars, callVars
  <2>2. QED
    BY <2>1, CoopNext
<1>3. CASE ~on_rq[u]
  <2>1. /\ u \in Threads \ {Idle} /\ ~Has(u, "RUNNING") /\ Has(u, "WAITING") /\ Created
        /\ u # current /\ pc[u] = "app" /\ u \notin ToSet(runq) /\ ~Marked(u) /\ ~Added(u)
    BY <1>3, ExtIrqPlace
  <2>2. current \in Threads /\ flags \in [Threads -> SUBSET Flags] /\ on_rq \in [Threads -> BOOLEAN]
        /\ runq \in Seq(Threads) /\ num = Len(runq) /\ Once(runq) /\ TypeOK
    BY DEF CoopInv, TypeOK, RunInv
  <2>3. /\ flags'[u] = (flags[u] \cup {"RUNNING"}) \ {"WAITING"}
        /\ flags'[current] = flags[current] \cup {"PREEMPT_NEED_RESCHED"}
        /\ \A v \in Threads \ {u, current} : flags'[v] = flags[v]
        /\ flags' \in [Threads -> SUBSET Flags]
    BY <1>3, <2>1, <2>2 DEF ExtIrq, IrqThreadSignal, Flags
  <2>4. /\ Has(u, "RUNNING")' /\ ~Has(u, "WAITING")'
        /\ \A v \in Threads \ {u} : \A f \in Flags \ {"PREEMPT_NEED_RESCHED"} : Has(v, f)' <=> Has(v, f)
        /\ \A f \in Flags \ {"RUNNING", "WAITING"} : Has(u, f)' <=> Has(u, f)
    BY <2>1, <2>2, <2>3 DEF Has
  <2>5. Joined(runq, u, runq') /\ Len(runq') = Len(runq) + 1 /\ num' = num + 1 /\ on_rq' = [on_rq EXCEPT ![u] = TRUE]
    BY <1>3, <2>1, <2>2, RqInsertJoins DEF ExtIrq, IrqThreadSignal, RawRqAddThread
  <2>6. ToSet(runq)' = ToSet(runq) \cup {u} /\ Once(runq)' /\ num' = Len(runq)' /\ runq' \in Seq(Threads)
    <3>1. num + 1 = Len(runq) + 1 /\ runq' \in Seq(Threads)
      BY <1>3, <2>1, <2>2, RqInsertType DEF ExtIrq, IrqThreadSignal, RawRqAddThread
    <3>2. QED
      BY <2>1, <2>2, <2>5, <3>1 DEF Joined
  <2>7. \A v \in Threads : (Marked(v)' <=> Marked(v)) /\ (Added(v)' <=> Added(v))
    BY <1>1 DEF Marked, Added
  <2>8. u \notin ToSet(wake) /\ ~Armed(u) /\ ~Has(u, "EXIT") /\ sc[u] # "uncreated"
    BY <2>1, IthreadPlace DEF IrqInv, Created
  <2>9. TypeOK'
    <3>1. num' \in Int
      BY <2>6
    <3>2. QED
      BY <1>1, <2>2, <2>3, <2>5, <2>6, <3>1 DEF TypeOK
  <2>10. ControlInv'
    BY <1>1 DEF CoopInv, ControlInv
  <2>11. RunInv'
    BY <1>1, <2>1, <2>2, <2>4, <2>5, <2>6, <2>7 DEF CoopInv, RunInv, Flags
  <2>12. FlagsInv'
    <3>1. \A v \in Threads : sc[v] = "uncreated" => v # current /\ v # u
      BY <2>8 DEF CoopInv, ControlInv
    <3>2. sc[u] # "fresh" \/ Has(u, "RUNNING")
      BY <2>1 DEF CoopInv, FlagsInv
    <3>3. QED
      BY <1>1, <2>1, <2>2, <2>3, <2>4, <2>7, <2>8, <3>1, ThreadsAssumption DEF CoopInv, FlagsInv, Stopping, Dying, Waits, Flags
  <2>13. PlaceInv'
    BY <1>1, <2>1, <2>4, <2>8 DEF CoopInv, PlaceInv, Armed, Flags
  <2>14. TimerInv' /\ EventInv'
    BY <1>1 DEF CoopInv, TimerInv, EventInv, Armed, Sole
  <2>15. CallInv'
    BY <1>1, <2>1, <2>4, <2>8 DEF CoopInv, CallInv, TypeOK, Args, Flags, QueueIds
  <2>16. DeadInv'
    BY <1>1, <2>1, <2>4, <2>8 DEF CoopInv, DeadInv, Telling, Flags, Dying
  <2>17. QED
    BY <2>9, <2>10, <2>11, <2>12, <2>13, <2>14, <2>15, <2>16 DEF CoopInv
<1>4. QED
  BY <1>2, <1>3

\* And then it is woken.
LEMMA ExtIrqIrq ==
    ASSUME Cooperative, CoopInv, IrqInv, ExtIrq
    PROVE  IrqInv' /\ (Created' <=> Created)
<1>1. UNCHANGED <<current, pc, sc, irq, qpc>> /\ intf /\ ~intf'
  BY DEF ExtIrq, Cooperative, callVars
<1>2. ithread \in Threads /\ current \in Threads /\ flags \in [Threads -> SUBSET Flags] /\ on_rq \in [Threads -> BOOLEAN] /\ Created
  BY IthreadAssumption DEF CoopInv, TypeOK, IrqInv, ExtIrq
<1>3. CASE on_rq[ithread]
  <2>1. UNCHANGED <<flags, on_rq>> /\ (came' = came \/ (came' = "missed" /\ came = "no"))
    BY <1>3 DEF ExtIrq, IrqThreadSignal
  <2>2. QED
    BY <1>1, <2>1 DEF IrqInv, OnRq, Has, Created
<1>4. CASE ~on_rq[ithread]
  <2>1. /\ ~Has(ithread, "RUNNING") /\ ithread # current /\ pc[ithread] = "app"
    BY <1>4, ExtIrqPlace
  <2>2. flags'[ithread] = (flags[ithread] \cup {"RUNNING"}) \ {"WAITING"} /\ came' = "woken"
    BY <1>2, <1>4, <2>1 DEF ExtIrq, IrqThreadSignal
  <2>3. on_rq' = [on_rq EXCEPT ![ithread] = TRUE]
    BY <1>4 DEF ExtIrq, IrqThreadSignal, RawRqAddThread
  <2>4. QED
    BY <1>1, <1>2, <2>1, <2>2, <2>3 DEF IrqInv, OnRq, Has, Created, Waits
<1>5. QED
  BY <1>3, <1>4

\* A device's edge needs an interrupt that was requested.
LEMMA DeviceEdgeIrq ==
    ASSUME IrqInv, DeviceEdge
    PROVE  IrqInv' /\ (Created' <=> Created) /\ UNCHANGED vars
BY DEF DeviceEdge, IrqInv, OnRq, Has, Created, vars, rqVars, callVars

\* irq_request begins with a thread that nobody knows.
LEMMA IrqRequestIrq ==
    ASSUME Cooperative, CoopInv, IrqInv, NEW t \in Threads, IrqRequest(t)
    PROVE  IrqInv' /\ Created'
<1>1. ithread \in Threads /\ t = current /\ sc[t] = "none" /\ pc[t] = "app" /\ sc[ithread] = "uncreated" /\ t # ithread
  BY IthreadAssumption DEF IrqRequest, ThreadCreate, Calls, Running, QAt
<1>2. /\ pc \in [Threads -> Labels] /\ sc \in [Threads -> Phases] /\ flags \in [Threads -> SUBSET Flags]
      /\ on_rq \in [Threads -> BOOLEAN] /\ qpc \in [Threads -> {"out", "request", "loop", "wait", "handler"}]
  BY DEF CoopInv, TypeOK, IrqInv
<1>3. /\ pc' = [pc EXCEPT ![t] = "created"] /\ flags' = [flags EXCEPT ![ithread] = {"RUNNING"}]
      /\ on_rq' = [on_rq EXCEPT ![ithread] = TRUE] /\ current' = current /\ sc'[ithread] # "uncreated"
      /\ qpc' = [qpc EXCEPT ![t] = "request", ![ithread] = "loop"] /\ UNCHANGED <<irq, intf, came>>
  BY <1>1, <1>2 DEF IrqRequest, ThreadCreate, Goto, RqAddThread
<1>4. pc[ithread] = "app" /\ came # "woken"
  <2>1. flags[ithread] = {} /\ pc[ithread] = "app"
    BY <1>1 DEF CoopInv, FlagsInv, ControlInv
  <2>2. QED
    BY <2>1 DEF IrqInv, Has
<1>5. QED
  BY <1>1, <1>2, <1>3, <1>4 DEF IrqInv, OnRq, Has, Created, Waits

\* The thread goes around its loop; the one that made the request goes on.
LEMMA IrqStepIrq ==
    ASSUME Cooperative, CoopInv, IrqInv, NEW t \in Threads, IrqContinue(t) \/ IrqCall(t)
    PROVE  IrqInv' /\ (Created => Created')
<1>1. /\ pc \in [Threads -> Labels] /\ sc \in [Threads -> Phases] /\ flags \in [Threads -> SUBSET Flags]
      /\ on_rq \in [Threads -> BOOLEAN] /\ qpc \in [Threads -> {"out", "request", "loop", "wait", "handler"}]
      /\ ithread \in Threads
  BY IthreadAssumption DEF CoopInv, TypeOK, IrqInv
<1>2. UNCHANGED vars => UNCHANGED <<current, on_rq, flags, pc, sc>>
  BY DEF vars, rqVars, callVars
<1>3. ASSUME NEW dir, IrqRequested(t, dir)
      PROVE  IrqInv' /\ (Created => Created')
  <2>1. Created /\ t # ithread
    BY <1>3 DEF IrqRequested, QAt, IrqInv
  <2>2. QED
    BY <1>1, <1>2, <1>3, <2>1 DEF IrqRequested, QAt, QGoto, IrqInv, OnRq, Has, Created
<1>4. CASE IrqThreadWait(t)
  <2>1. t = ithread /\ t = current /\ sc[t] = "none" /\ pc[t] = "app"
    BY <1>4 DEF IrqThreadWait, QAt, Running, IrqInv
  <2>2. Created
    BY <2>1 DEF Created
  <2>3. /\ pc' = [pc EXCEPT ![t] = "wait_resched"] /\ flags' = [flags EXCEPT ![t] = @ \cup {"WAITING"}]
        /\ UNCHANGED <<current, on_rq, sc, irq, intf, came>> /\ qpc' = [qpc EXCEPT ![t] = "wait"] /\ qpc[t] = "loop"
    BY <1>4 DEF IrqThreadWait, Wait, Goto, QGoto, QAt, rqVars
  <2>4. QED
    BY <1>1, <2>1, <2>2, <2>3 DEF IrqInv, OnRq, Has, Created, Waits
<1>5. CASE IrqHandler(t) \/ IrqHandled(t)
  <2>1. t = ithread /\ t = current /\ sc[t] = "none" /\ pc[t] = "app" /\ qpc[t] \in {"wait", "handler"}
    BY <1>5 DEF IrqHandler, IrqHandled, QAt, Running, IrqInv
  <2>2. Has(t, "RUNNING") /\ Created
    BY <2>1, Awake DEF Stopping, Dying, Waits, Created
  <2>3. /\ UNCHANGED <<current, on_rq, flags, pc, sc, irq, intf>>
        /\ \/ qpc' = [qpc EXCEPT ![t] = "handler"] /\ came' = "no"
           \/ qpc' = [qpc EXCEPT ![t] = "loop"] /\ came' = came /\ qpc[t] = "handler"
    BY <1>2, <1>5 DEF IrqHandler, IrqHandled, QGoto, QAt
  <2>4. QED
    BY <1>1, <2>1, <2>2, <2>3 DEF IrqInv, OnRq, Has, Created, Waits
<1>6. CASE IrqAssignPin(t) \/ IrqSoftTrigger(t)
  BY <1>1, <1>2, <1>6 DEF IrqAssignPin, IrqSoftTrigger, IrqInv, OnRq, Has, Created
<1>7. CASE IrqRequest(t)
  BY <1>7, IrqRequestIrq
<1>8. QED
  BY <1>3, <1>4, <1>5, <1>6, <1>7 DEF IrqContinue, IrqCall

\* The scheduler's invariant holds through the calls on interrupts.
LEMMA IrqStepCoop ==
    ASSUME Cooperative, CoopInv, NEW t \in Threads, IrqContinue(t) \/ IrqCall(t)
    PROVE  CoopInv'
<1>1. Call(t) \/ UNCHANGED vars
  BY IthreadAssumption DEF IrqContinue, IrqCall, IrqRequested, IrqThreadWait, IrqHandler, IrqHandled, IrqRequest, IrqAssignPin, IrqSoftTrigger, Call
<1>2. QED
  BY <1>1, CallKeeps, CoopNext

\* What the services and the scheduler they use are like at every moment
KInv == CoopInv /\ IrqInv /\ UsesInv

\* Nobody begins with a service the application does not use.
LEMMA UsesNext ==
    ASSUME KInv, [IpcNext]_ipcVars, uses = "irq" \/ (Created' => Created)
    PROVE  UsesInv'
<1>1. uses' = uses
  BY DEF IpcNext, ipcVars
<1>2. Created' => uses = "irq"
  BY DEF KInv, UsesInv
<1>3. \/ UNCHANGED <<sready, spc, ipc>>
      \/ \E t \in Threads : SemStep(t) \/ SemUse(t) \/ IpmStep(t) \/ IpmUse(t)
  BY DEF IpcNext, ipcVars, semVars, ipmVars, WaitReturns, BusIrq, ExternalIrq, IrqStep, CondStep, CondUse, BusStep, Otherwise
<1>4. CASE UNCHANGED <<sready, spc, ipc>>
  BY <1>1, <1>2, <1>4 DEF KInv, UsesInv
<1>5. ASSUME NEW t \in Threads, SemStep(t) \/ SemUse(t)
      PROVE  UsesInv'
  <2>1. ipc' = ipc
    BY <1>5 DEF SemStep, SemUse, ipmVars
  <2>2. sready' /\ (sready \/ uses = "sem")
    <3>1. ASSUME SemContinue(t)
          PROVE  sready /\ sready' = sready
      <4>1. spc[t] # "out" /\ UNCHANGED sready
        BY <3>1 DEF SemContinue, SemWaitStore, SemWaitBlock, SemWaitReturn, SemSignalStore, SemSignalNotify, SemSignalReturn, SemAt
      <4>2. QED
        BY <4>1 DEF KInv, UsesInv
    <3>2. ASSUME SemCall(t)
          PROVE  sready'
      BY <3>2 DEF SemCall, SemInit, SemWait, SemTryWait, SemSignal, SemAt, KInv, UsesInv
    <3>3. QED
      BY <1>5, <3>1, <3>2 DEF SemStep, SemUse
  <2>3. QED
    BY <1>1, <1>2, <2>1, <2>2 DEF KInv, UsesInv
<1>6. ASSUME NEW t \in Threads, IpmStep(t) \/ IpmUse(t)
      PROVE  UsesInv'
  <2>1. UNCHANGED <<sready, spc>>
    BY <1>6 DEF IpmStep, IpmUse, semVars
  <2>2. uses = "ipm"
    <3>1. ASSUME IpmContinue(t)
          PROVE  ipc[t] # "out"
      BY <3>1 DEF IpmContinue, IpmPostSlot, IpmPostFill, IpmPostNotify, IpmGetWait, IpmGetAgain, IpmGetNotify, IpmNotified, IpmAt
    <3>2. QED
      BY <1>6, <3>1 DEF IpmStep, IpmUse, KInv, UsesInv
  <2>3. QED
    BY <1>1, <1>2, <2>1, <2>2 DEF KInv, UsesInv
<1>7. QED
  BY <1>3, <1>4, <1>5, <1>6

\* What a step of the application is: of the scheduler, of an interrupt, or of a
\* thread that makes calls on the queues of one service.
LEMMA IpcSteps ==
    ASSUME Cooperative, KInv, [IpcNext]_ipcVars
    PROVE  \/ (Kernel \/ Interrupt \/ BusIrq \/ UNCHANGED vars) /\ UNCHANGED irqThreadVars
           \/ \E t \in Threads, Q \in {CondQueues, {sem}, {ipm}, BusQueues, {}} :
                 t # ithread /\ Acts(t, Q) /\ UNCHANGED irqThreadVars
           \/ uses = "irq" /\ (DeviceEdge \/ ExtIrq)
           \/ uses = "irq" /\ \E t \in Threads : IrqContinue(t) \/ IrqCall(t)
<1>1. CASE UNCHANGED ipcVars
  BY <1>1 DEF ipcVars, allVars
<1>2. ASSUME NEW t \in Threads,
             CondStep(t) \/ CondUse(t) \/ SemStep(t) \/ SemUse(t) \/ IpmStep(t) \/ IpmUse(t) \/ BusStep(t) \/ Otherwise(t)
      PROVE  t # ithread /\ \E Q \in {CondQueues, {sem}, {ipm}, BusQueues, {}} : Acts(t, Q)
  <2>1. t # ithread /\ TypeOK
    BY <1>2, ServiceThread DEF KInv, CoopInv
  <2>2. QED
    BY <1>2, <2>1, CondActs, SemActs, IpmActs, BusActs, OtherActs
<1>3. QED
  BY <1>1, <1>2 DEF IpcNext, ExternalIrq, IrqStep

\* The queues of the services are queues.
LEMMA ServiceQueues ==
    \A Q \in {CondQueues, {sem}, {ipm}, BusQueues, {}} : Q \in SUBSET Queues
BY MutexAssumption, CondAssumption, SemAssumption, IpmAssumption, BusAssumption, QueuesAssumption DEF CondQueues, BusQueues

\* Every step keeps the invariant.
LEMMA KNext ==
    ASSUME Cooperative, KInv, [IpcNext]_ipcVars
    PROVE  KInv'
<1>1. CoopInv /\ IrqInv /\ UsesInv
  BY DEF KInv
<1>2. CASE (Kernel \/ Interrupt \/ BusIrq \/ UNCHANGED vars) /\ UNCHANGED irqThreadVars
  <2>1. CoopInv'
    BY <1>1, <1>2, BusIrqCoop, CoopNext DEF Next
  <2>2. IrqInv' /\ (Created' => Created)
    BY <1>1, <1>2, KernelIrq, InterruptIrq
  <2>3. QED
    BY <2>1, <2>2, UsesNext DEF KInv
<1>3. ASSUME NEW t \in Threads, NEW Q \in {CondQueues, {sem}, {ipm}, BusQueues, {}},
             t # ithread, Acts(t, Q), UNCHANGED irqThreadVars
      PROVE  KInv'
  <2>1. CoopInv'
    BY <1>1, <1>3, ServiceQueues, ActsCoop
  <2>2. IrqInv' /\ (Created' => Created)
    BY <1>1, <1>3, ActsIrq
  <2>3. QED
    BY <2>1, <2>2, UsesNext DEF KInv
<1>4. CASE uses = "irq" /\ (DeviceEdge \/ ExtIrq)
  <2>1. CoopInv' /\ IrqInv'
    BY <1>1, <1>4, DeviceEdgeIrq, ExtIrqCoop, ExtIrqIrq, CoopNext
  <2>2. QED
    BY <1>4, <2>1, UsesNext DEF KInv
<1>5. ASSUME uses = "irq", NEW t \in Threads, IrqContinue(t) \/ IrqCall(t)
      PROVE  KInv'
  <2>1. CoopInv' /\ IrqInv'
    BY <1>1, <1>5, IrqStepCoop, IrqStepIrq
  <2>2. QED
    BY <1>5, <2>1, UsesNext DEF KInv
<1>6. QED
  BY <1>2, <1>3, <1>4, <1>5, IpcSteps

\* It holds when the application begins.
LEMMA KInit == IpcInit => KInv
<1>1. SUFFICES ASSUME IpcInit PROVE KInv
  OBVIOUS
<1>2. ithread \in Threads \ {Idle, Main} /\ Init
  BY <1>1, IthreadAssumption DEF IpcInit, MInit
<1>3. sc[ithread] = "uncreated" /\ flags[ithread] = {} /\ pc[ithread] = "app" /\ ~Created
      /\ current = Idle /\ \A t \in Threads : pc[t] \in {"app", "idle"}
  <2>1. /\ current = Idle
        /\ \A t \in Threads : /\ sc[t] = IF t = Idle THEN "none" ELSE IF t = Main THEN "fresh" ELSE "uncreated"
                              /\ pc[t] = IF t = Idle THEN "idle" ELSE "app"
                              /\ flags[t] = IF t = Idle THEN {"RUNNING", "SYSTEM_STACK"}
                                            ELSE IF t = Main THEN {"RUNNING"} ELSE {}
    BY <1>2 DEF Init
  <2>2. QED
    BY <1>2, <2>1 DEF Created
<1>4. IrqInv
  <2>1. qpc = [t \in Threads |-> "out"] /\ came = "no" /\ ~irq.enabled /\ ~irq.pin /\ ~intf
    BY <1>1 DEF IpcInit, IrqBegin, NoIrq
  <2>2. \A t \in Threads : qpc[t] = "out"
    BY <2>1
  <2>3. \A f : ~Has(ithread, f)
    BY <1>3 DEF Has
  <2>4. QED
    BY <1>2, <1>3, <2>1, <2>2, <2>3 DEF IrqInv, OnRq, Waits
<1>5. UsesInv
  BY <1>1, <1>3 DEF IpcInit, SemBegin, IpmBegin, UsesInv
<1>6. QED
  BY <1>2, <1>4, <1>5, CoopInit DEF KInv

\* So it always holds.
LEMMA KAlways ==
    ASSUME Cooperative
    PROVE  IpcSpec => []KInv
BY KInit, KNext, PTL DEF IpcSpec

\* irq_thread_signal and irq_handle_fn of the cooperative kernel: an interrupt
\* that finds its thread off the run queue puts it there once, whatever else
\* the application and its other interrupts do, and the handler runs for no
\* other reason.
THEOREM IrqAlwaysServed ==
    ASSUME Cooperative
    PROVE  IpcSpec => []IrqServed
<1>1. ASSUME KInv
      PROVE  IrqServed
  <2>1. ithread \in Threads /\ runq \in Seq(Threads) /\ Once(runq) /\ CoopInv /\ IrqInv
    BY <1>1, IthreadAssumption DEF KInv, CoopInv, TypeOK, RunInv
  <2> DEFINE Spots == {i \in 1..Len(runq) : runq[i] = ithread}
  <2>2. CASE came = "woken"
    <3>1. Has(ithread, "RUNNING") /\ ~Marked(ithread)
      BY <2>1, <2>2 DEF IrqInv, CoopInv, TypeOK, Marked
    <3>2. ithread \in ToSet(runq) <=> ithread # current
      BY <2>1, <3>1 DEF CoopInv, RunInv
    <3>3. CASE ithread = current
      <4>1. Spots = {}
        BY <2>1, <3>2, <3>3 DEF ToSet
      <4>2. QED
        BY <2>2, <3>3, <4>1, FS_EmptySet DEF IrqServed
    <3>4. CASE ithread # current
      <4>1. PICK i \in 1..Len(runq) : runq[i] = ithread
        BY <3>2, <3>4 DEF ToSet
      <4>2. Spots = {i}
        BY <2>1, <4>1 DEF Once
      <4>3. Cardinality(Spots) = 1
        BY <4>2, FS_Singleton
      <4>4. QED
        BY <2>2, <3>4, <4>3 DEF IrqServed
    <3>5. QED
      BY <3>3, <3>4
  <2>3. CASE came # "woken"
    <3>1. ASSUME QAt(ithread, "wait")
          PROVE  FALSE
      <4>1. ithread = current /\ sc[ithread] = "none" /\ pc[ithread] = "app" /\ qpc[ithread] = "wait"
        BY <3>1 DEF QAt, Running
      <4>2. Has(ithread, "RUNNING")
        BY <2>1, <4>1, Awake DEF Stopping, Dying, Waits
      <4>3. QED
        BY <2>1, <2>3, <4>1, <4>2 DEF IrqInv
    <3>2. QED
      BY <2>3, <3>1 DEF IrqServed
  <2>4. QED
    BY <2>2, <2>3
<1>2. QED
  BY <1>1, KAlways, PTL

----------------------------------------------------------------------------
(* The steps of the application as one service sees them *)

CondDoes(t) == CondStep(t) \/ CondUse(t)
SemDoes(t) == SemStep(t) \/ SemUse(t)
IpmDoes(t) == IpmStep(t) \/ IpmUse(t)

\* Nobody uses a queue but the service whose it is.
LEMMA IpcTame ==
    ASSUME Cooperative, KInv, [IpcNext]_ipcVars, NEW q \in Queues
    PROVE  \/ Tame(q)
           \/ \E t \in Threads : \/ CondDoes(t) /\ q \in CondQueues
                                 \/ SemDoes(t) /\ q = sem
                                 \/ IpmDoes(t) /\ q = ipm
                                 \/ BusStep(t) /\ q \in BusQueues
<1>1. CoopInv /\ CoopInv' /\ TypeOK
  BY KNext DEF KInv, CoopInv
<1>2. CASE Kernel
  BY <1>1, <1>2, KernelTame
<1>3. CASE Interrupt
  BY <1>3, InterruptElsewhere, ElsewhereTame
<1>4. CASE BusIrq
  BY <1>1, <1>4, BusIrqCoop, ElsewhereTame
<1>5. ASSUME NEW t \in Threads, CondDoes(t), q \notin CondQueues
      PROVE  Tame(q)
  BY <1>1, <1>5, CondActs, ActsElsewhere, ElsewhereTame DEF CondDoes
<1>6. ASSUME NEW t \in Threads, SemDoes(t), q # sem
      PROVE  Tame(q)
  <2>1. Acts(t, {sem}) /\ q \notin {sem}
    BY <1>6, SemActs DEF SemDoes
  <2>2. QED
    BY <1>1, <2>1, ActsElsewhere, ElsewhereTame
<1>7. ASSUME NEW t \in Threads, IpmDoes(t), q # ipm
      PROVE  Tame(q)
  <2>1. Acts(t, {ipm}) /\ q \notin {ipm}
    BY <1>7, IpmActs DEF IpmDoes
  <2>2. QED
    BY <1>1, <2>1, ActsElsewhere, ElsewhereTame
<1>8. ASSUME NEW t \in Threads, BusStep(t), q \notin BusQueues
      PROVE  Tame(q)
  BY <1>1, <1>8, BusActs, ActsElsewhere, ElsewhereTame
<1>9. ASSUME NEW t \in Threads, Otherwise(t)
      PROVE  Tame(q)
  <2>1. Acts(t, {}) /\ q \notin {}
    BY <1>9, OtherActs
  <2>2. QED
    BY <1>1, <2>1, ActsElsewhere, ElsewhereTame
<1>10. CASE ExternalIrq
  <2>1. UNCHANGED <<queue, pc, arg>>
    BY <1>10 DEF ExternalIrq, DeviceEdge, ExtIrq, vars, evVars, callVars
  <2>2. QED
    BY <2>1, ElsewhereTame DEF Elsewhere
<1>11. ASSUME NEW t \in Threads, IrqStep(t)
       PROVE  Tame(q)
  <2>1. \/ UNCHANGED vars \/ Wait(t) \/ ThreadCreate(t, ithread)
    BY <1>11 DEF IrqStep, IrqContinue, IrqCall, IrqRequested, IrqThreadWait, IrqHandler, IrqHandled, IrqRequest, IrqAssignPin, IrqSoftTrigger
  <2>2. Elsewhere(q)
    BY <1>1, <2>1 DEF Elsewhere, vars, evVars, callVars, Wait, ThreadCreate, Calls, Running, Goto, TypeOK
  <2>3. QED
    BY <2>2, ElsewhereTame
<1>12. CASE UNCHANGED ipcVars
  BY <1>12, ElsewhereTame DEF ipcVars, allVars, vars, evVars, callVars, Elsewhere
<1>13. QED
  BY <1>2, <1>3, <1>4, <1>5, <1>6, <1>7, <1>8, <1>9, <1>10, <1>11, <1>12 DEF IpcNext, CondDoes, SemDoes, IpmDoes

\* An interrupt switches no thread and moves no call.
LEMMA IpcQuiet ==
    ASSUME Cooperative, CoopInv, Interrupt \/ BusIrq \/ ExternalIrq \/ UNCHANGED ipcVars
    PROVE  UNCHANGED <<current, sc, pc, arg>>
<1>1. ASSUME NEW q, IrqNotify(q)
      PROVE  UNCHANGED <<current, sc, pc, arg>>
  BY <1>1 DEF IrqNotify, Cooperative, rqVars, callVars
<1>2. ASSUME NEW expire \in BOOLEAN, Tick(expire)
      PROVE  UNCHANGED <<current, sc, pc, arg>>
  BY <1>2 DEF Tick, Cooperative, rqVars, callVars
<1>3. CASE QuietIrq
  BY <1>3, QuietIrqSame DEF vars, rqVars, callVars
<1>4. CASE ExternalIrq
  BY <1>4 DEF ExternalIrq, DeviceEdge, ExtIrq, Cooperative, vars, rqVars, callVars
<1>5. QED
  BY <1>1, <1>2, <1>3, <1>4 DEF Interrupt, BusIrq, TwiIrq, SpiIrq, RxIrq, PostEnd, ipcVars, allVars, vars, rqVars, callVars

\* Only a thread that runs makes a call.
LEMMA IpcRuns ==
    ASSUME NEW u \in Threads, CondDoes(u) \/ SemDoes(u) \/ IpmDoes(u) \/ BusStep(u) \/ Otherwise(u) \/ IrqStep(u)
    PROVE  Running(u, "app")
<1>1. IrqStep(u) => Running(u, "app")
  BY DEF IrqStep, IrqContinue, IrqCall, IrqRequested, IrqThreadWait, IrqHandler, IrqHandled, IrqRequest, IrqAssignPin, IrqSoftTrigger, QAt
<1>2. QED
  BY <1>1, ServiceRuns DEF CondDoes, SemDoes, IpmDoes

\* A thread that runs, and is not in the scheduler, goes on itself.
LEMMA IpcStays ==
    ASSUME Cooperative, KInv, [IpcNext]_ipcVars, NEW t \in Threads, Running(t, "app")
    PROVE  \/ Running(t, "app")'
           \/ CondDoes(t) \/ SemDoes(t) \/ IpmDoes(t) \/ BusStep(t) \/ Otherwise(t) \/ IrqStep(t)
<1>1. CoopInv
  BY DEF KInv
<1>2. CASE Kernel
  <2>1. ASSUME NEW u \in Threads, Schedule(u)
        PROVE  u = current /\ sc[u] # "none"
    BY <2>1 DEF Schedule, SleepTimeout, EventTimeout, ClockDone, SignalThread, KeepCurrent, SwitchContext,
       ScheduleTail, RemoteKillIf, RemoteKillBroadcast
  <2>2. ASSUME NEW u \in Threads, Continue(u)
        PROVE  u = current /\ pc[u] # "app"
    BY <2>2 DEF Continue, IdleLoop, ThreadCreated, WaitResched, WaitStop, SignalAdd, SignalOnRq,
       KillResched, KillStop, KillJoin, KillBroadcast, KillQueue, EvCheck, EvEnqueue, EvReturn, JoinWait,
       EventNotifyAct, EventBroadcastStep, EventBroadcastYield, Running
  <2>3. QED
    BY <1>2, <2>1, <2>2 DEF Kernel, Running
<1>3. CASE Interrupt \/ BusIrq \/ ExternalIrq \/ UNCHANGED ipcVars
  BY <1>1, <1>3, IpcQuiet DEF Running
<1>4. ASSUME NEW u \in Threads, CondDoes(u) \/ SemDoes(u) \/ IpmDoes(u) \/ BusStep(u) \/ Otherwise(u) \/ IrqStep(u)
      PROVE  u = t
  BY <1>4, IpcRuns DEF Running
<1>5. QED
  BY <1>2, <1>3, <1>4 DEF IpcNext, CondDoes, SemDoes, IpmDoes

\* Who waits in a queue, or is inside a call of the scheduler, does not run.
LEMMA OneRuns ==
    ASSUME CoopInv, NEW t \in Threads, Running(t, "app")
    PROVE  /\ \A q \in QueueIds : t \notin InQ(q)
           /\ \A u \in Threads : pc[u] \notin {"ev_check", "ev_enqueue", "notify", "broadcast"}
           /\ \A u \in Threads, l \in Labels : Running(u, l) => u = t /\ l = "app"
BY InsideRuns DEF Running

----------------------------------------------------------------------------
(* The message queue *)

IpmTypeOK ==
    /\ wr_idx \in 0..NumMsgs /\ rd_idx \in 0..wr_idx
    /\ ipc \in [Threads -> IpmLabels] /\ slot \in [Threads -> Nat]

\* Between its look at the indices and what it does then, no other thread gets
\* the processor.
IpmPlaces ==
    \A t \in Threads :
        /\ ipc[t] \in {"post_slot", "post_fill", "post_notify", "get_wait", "get_notify"} => Running(t, "app")
        /\ ipc[t] = "post_slot" => wr_idx < NumMsgs
        /\ ipc[t] = "post_fill" => slot[t] = wr_idx - 1 /\ rd_idx < wr_idx
        /\ ipc[t] = "get_wait" => rd_idx = wr_idx
        /\ Entering(t, ipm) => ipc[t] = "get_again" /\ rd_idx = wr_idx
        /\ t \in InQ(ipm) => ipc[t] = "get_again"

\* Who will wake a reader, or get the message itself
Attends(t) == ipc[t] \in {"post_fill", "post_notify", "get_notify", "get_again"} \/ Notifying(t, ipm)

\* A reader waits and there are messages: somebody outside the queue attends.
Attended == rd_idx < wr_idx /\ queue[ipm] # <<>> => \E t \in Threads : t \notin InQ(ipm) /\ Attends(t)

IpmInv == IpmTypeOK /\ IpmPlaces /\ Attended

\* A step of anybody else
LEMMA TameIpm ==
    ASSUME CoopInv, CoopInv', IpmInv, Tame(ipm), UNCHANGED ipmVars,
           \A t \in Threads : ipc[t] # "out" /\ Running(t, "app") => Running(t, "app")'
    PROVE  IpmInv'
<1>1. ipm \in QueueIds /\ queue \in [QueueIds -> Seq(Threads)] /\ queue' \in [QueueIds -> Seq(Threads)]
  BY IpmAssumption DEF CoopInv, TypeOK, QueueIds
<1>2. (queue[ipm] = <<>> <=> InQ(ipm) = {}) /\ (queue'[ipm] = <<>> <=> InQ(ipm)' = {}) /\ InQ(ipm)' \subseteq Threads
  BY <1>1, EmptyList DEF InQ
<1>3. UNCHANGED <<wr_idx, rd_idx, ipc, slot>>
  BY DEF ipmVars
<1>4. IpmTypeOK'
  BY <1>3 DEF IpmInv, IpmTypeOK
<1>5. IpmPlaces'
  BY <1>3 DEF IpmInv, IpmPlaces, Tame, Entering
<1>6. ASSUME rd_idx' < wr_idx', queue'[ipm] # <<>>
      PROVE  \E t \in Threads : t \notin InQ(ipm)' /\ Attends(t)'
  <2>1. rd_idx < wr_idx /\ rd_idx # wr_idx
    BY <1>3, <1>6 DEF IpmInv, IpmTypeOK
  <2>2. InQ(ipm)' \subseteq InQ(ipm)
    BY <1>2, <2>1 DEF Tame, IpmInv, IpmPlaces, Entering
  <2>3. queue[ipm] # <<>>
    BY <1>2, <1>6, <2>2
  <2>4. PICK t \in Threads : t \notin InQ(ipm) /\ Attends(t)
    BY <2>1, <2>3 DEF IpmInv, Attended
  <2>5. CASE Attends(t)'
    BY <2>2, <2>4, <2>5
  <2>6. CASE ~Attends(t)'
    <3>1. PICK w \in Threads : w \in InQ(ipm) /\ w \notin InQ(ipm)'
      BY <1>3, <2>3, <2>4, <2>6 DEF Tame, Attends
    <3>2. Attends(w)'
      BY <1>3, <3>1 DEF IpmInv, IpmPlaces, Attends
    <3>3. QED
      BY <3>1, <3>2
  <2>7. QED
    BY <2>5, <2>6
<1>7. QED
  BY <1>4, <1>5, <1>6 DEF IpmInv, Attended

\* A step of ipm.c that calls nobody
LEMMA InsideIpm ==
    ASSUME CoopInv, IpmInv, NEW t \in Threads, Running(t, "app"), UNCHANGED <<current, sc, pc, arg, queue>>,
           IpmTypeOK', NEW l, ipc' = [ipc EXCEPT ![t] = l], \A u \in Threads \ {t} : slot'[u] = slot[u],
           l = "post_slot" => wr_idx' < NumMsgs,
           l = "post_fill" => slot'[t] = wr_idx' - 1 /\ rd_idx' < wr_idx',
           l = "get_wait" => rd_idx' = wr_idx',
           rd_idx' < wr_idx' => \/ l \in {"post_fill", "post_notify", "get_notify"}
                                \/ UNCHANGED <<rd_idx, wr_idx>> /\ ~Attends(t)
    PROVE  IpmInv'
<1>1. ipm \in QueueIds
  BY IpmAssumption DEF QueueIds
<1>2. t \notin InQ(ipm) /\ InQ(ipm)' = InQ(ipm) /\ \A u \in Threads : ~Entering(u, ipm) /\ ~Entering(u, ipm)' /\ ~Notifying(u, ipm)
  BY <1>1, OneRuns DEF Entering, Notifying, InQ
<1>3. ipc'[t] = l /\ \A u \in Threads \ {t} : ipc'[u] = ipc[u]
  BY DEF IpmInv, IpmTypeOK
<1>4. Running(t, "app")' /\ \A u \in Threads \ {t} : ~Running(u, "app")
  BY DEF Running
<1>5. IpmPlaces'
  BY <1>2, <1>3, <1>4 DEF IpmInv, IpmPlaces
<1>6. Attended'
  <2>1. SUFFICES ASSUME rd_idx' < wr_idx', queue'[ipm] # <<>>
                 PROVE  \E u \in Threads : u \notin InQ(ipm)' /\ Attends(u)'
    BY DEF Attended
  <2>2. CASE l \in {"post_fill", "post_notify", "get_notify"}
    BY <1>2, <1>3, <2>2 DEF Attends
  <2>3. CASE UNCHANGED <<rd_idx, wr_idx>> /\ ~Attends(t)
    <3>1. PICK u \in Threads : u \notin InQ(ipm) /\ Attends(u)
      BY <2>1, <2>3 DEF IpmInv, Attended
    <3>2. u # t /\ Attends(u)'
      BY <1>2, <1>3, <2>3, <3>1 DEF Attends
    <3>3. QED
      BY <1>2, <3>1, <3>2
  <2>4. QED
    BY <2>1, <2>2, <2>3
<1>7. QED
  BY <1>5, <1>6 DEF IpmInv

\* A message is taken out of a queue that has one.
LEMMA IpmTakeKeeps ==
    ASSUME CoopInv, IpmInv, NEW t \in Threads, Running(t, "app"), ipc[t] \in {"out", "get_again"}, rd_idx < wr_idx, IpmTake(t)
    PROVE  IpmInv'
<1>1. rd_idx \in Nat /\ wr_idx \in Nat /\ NumMsgs \in Nat /\ wr_idx <= NumMsgs /\ wr_idx' = wr_idx /\ rd_idx' = rd_idx + 1
  BY IpmAssumption DEF IpmInv, IpmTypeOK, IpmTake
<1>2. UNCHANGED <<current, sc, pc, arg, queue, slot>>
  BY DEF IpmTake, vars, rqVars, callVars, evVars
<1>3. PICK l \in {"get_notify", "out"} : ipc' = [ipc EXCEPT ![t] = l] /\ (l = "out" => rd_idx + 1 = wr_idx)
  BY DEF IpmTake, IpmGoto
<1>4. IpmTypeOK'
  BY <1>1, <1>2, <1>3 DEF IpmInv, IpmTypeOK, IpmLabels
<1>5. rd_idx' < wr_idx' => l = "get_notify"
  BY <1>1, <1>3
<1>6. \A u \in Threads \ {t} : slot'[u] = slot[u]
  BY <1>2
<1>7. QED
  BY <1>2, <1>3, <1>4, <1>5, <1>6, InsideIpm

\* A thread calls event_notify for the queue.
LEMMA IpmNotifies ==
    ASSUME CoopInv, IpmInv, NEW t \in Threads, Running(t, "app"), EventNotify(t, ipm), ipc' = [ipc EXCEPT ![t] = "notifying"],
           UNCHANGED <<rd_idx, wr_idx, slot>>
    PROVE  IpmInv'
<1>1. ipm \in QueueIds /\ ~irqExec /\ pc \in [Threads -> Labels] /\ arg \in [Threads -> Args] /\ ipc \in [Threads -> IpmLabels]
  BY IpmAssumption DEF QueueIds, CoopInv, ControlInv, TypeOK, IpmInv, IpmTypeOK
<1>2. UNCHANGED queue /\ pc' = [pc EXCEPT ![t] = "notify"] /\ arg'[t].q = ipm
  <2>1. PICK h : pc' = [pc EXCEPT ![t] = "notify"] /\ arg' = [arg EXCEPT ![t].q = ipm, ![t].head = h]
    BY <1>1 DEF EventNotify, Goto
  <2>2. QED
    BY <1>1, <2>1 DEF Args, EventNotify
<1>3. t \notin InQ(ipm) /\ InQ(ipm)' = InQ(ipm) /\ \A u \in Threads : ~Entering(u, ipm) /\ ~Entering(u, ipm)'
  BY <1>1, <1>2, OneRuns DEF Entering, InQ
<1>4. Notifying(t, ipm)' /\ ipc'[t] = "notifying" /\ \A u \in Threads \ {t} : ipc'[u] = ipc[u] /\ ~Running(u, "app")
  BY <1>1, <1>2 DEF Notifying, Running
<1>5. IpmPlaces'
  BY <1>3, <1>4 DEF IpmInv, IpmPlaces
<1>6. Attended'
  BY <1>3, <1>4 DEF Attended, Attends
<1>7. IpmTypeOK'
  BY <1>1 DEF IpmInv, IpmTypeOK, IpmLabels
<1>8. QED
  BY <1>5, <1>6, <1>7 DEF IpmInv

\* A reader that found the queue empty waits, or takes a signal that was there.
LEMMA IpmGetWaitKeeps ==
    ASSUME CoopInv, IpmInv, NEW t \in Threads, IpmGetWait(t)
    PROVE  IpmInv'
<1>1. ipm \in QueueIds /\ pc \in [Threads -> Labels] /\ ipc \in [Threads -> IpmLabels]
  BY IpmAssumption DEF QueueIds, CoopInv, TypeOK, IpmInv, IpmTypeOK
<1>2. /\ Running(t, "app") /\ ipc[t] = "get_wait" /\ ipc' = [ipc EXCEPT ![t] = "get_again"]
      /\ UNCHANGED <<queue, rd_idx, wr_idx, slot>> /\ \A u \in Threads \ {t} : pc'[u] = pc[u]
  BY <1>1 DEF IpmGetWait, IpmAt, IpmGoto, RawEventWait, RawEventWaitCheck, Goto, Return
<1>3. rd_idx = wr_idx /\ ipc'[t] = "get_again" /\ \A u \in Threads \ {t} : ipc'[u] = ipc[u] /\ ~Running(u, "app")
  BY <1>1, <1>2 DEF IpmInv, IpmPlaces, Running
<1>4. t \notin InQ(ipm) /\ InQ(ipm)' = InQ(ipm) /\ \A u \in Threads \ {t} : ~Entering(u, ipm)'
  BY <1>1, <1>2, OneRuns DEF Entering, InQ
<1>5. IpmPlaces'
  BY <1>2, <1>3, <1>4 DEF IpmInv, IpmPlaces
<1>6. IpmTypeOK' /\ rd_idx' = wr_idx' /\ rd_idx' \in Nat
  BY <1>1, <1>2, <1>3 DEF IpmInv, IpmTypeOK, IpmLabels
<1>7. QED
  BY <1>5, <1>6 DEF IpmInv, Attended

\* The steps of ipm.c keep it.
LEMMA IpmKeeps ==
    ASSUME CoopInv, IpmInv, NEW t \in Threads, IpmContinue(t) \/ IpmCall(t)
    PROVE  IpmInv'
<1>1. /\ rd_idx \in Nat /\ wr_idx \in Nat /\ NumMsgs \in Nat /\ rd_idx <= wr_idx /\ wr_idx <= NumMsgs /\ NumMsgs < 256
      /\ ipc \in [Threads -> IpmLabels] /\ slot \in [Threads -> Nat]
  BY IpmAssumption DEF IpmInv, IpmTypeOK
<1>2. UNCHANGED vars => UNCHANGED <<current, sc, pc, arg, queue>>
  BY DEF vars, rqVars, callVars, evVars
<1>3. Running(t, "app") => \A u \in Threads : ~Notifying(u, ipm)
  BY OneRuns DEF Notifying
<1>4. CASE IpmPostSlot(t)
  <2>1. Running(t, "app") /\ wr_idx' = wr_idx + 1 /\ rd_idx' = rd_idx /\ slot' = [slot EXCEPT ![t] = wr_idx]
        /\ wr_idx < NumMsgs /\ ipc' = [ipc EXCEPT ![t] = "post_fill"]
    BY <1>1, <1>4 DEF IpmPostSlot, IpmAt, IpmGoto, IpmInv, IpmPlaces
  <2>2. IpmTypeOK'
    BY <1>1, <2>1 DEF IpmTypeOK, IpmLabels
  <2>3. slot'[t] = wr_idx' - 1 /\ rd_idx' < wr_idx' /\ \A u \in Threads \ {t} : slot'[u] = slot[u]
    BY <1>1, <2>1
  <2>4. QED
    BY <1>2, <1>4, <2>1, <2>2, <2>3, InsideIpm DEF IpmPostSlot
<1>5. ASSUME NEW m \in Messages, IpmPostFill(t, m)
      PROVE  IpmInv'
  <2>1. IpmTypeOK'
    BY <1>1, <1>5 DEF IpmPostFill, IpmGoto, IpmTypeOK, IpmInv, IpmLabels
  <2>2. QED
    BY <1>2, <1>5, <2>1, InsideIpm DEF IpmPostFill, IpmAt, IpmGoto
<1>6. CASE IpmPostNotify(t) \/ IpmGetNotify(t)
  BY <1>6, IpmNotifies DEF IpmPostNotify, IpmGetNotify, IpmAt, IpmGoto
<1>7. CASE IpmGetWait(t)
  BY <1>7, IpmGetWaitKeeps
<1>8. CASE IpmGetAgain(t)
  <2>1. CASE wr_idx = rd_idx
    <3>1. IpmTypeOK' /\ Running(t, "app") /\ ~(rd_idx' < wr_idx')
      BY <1>1, <1>8, <2>1 DEF IpmGetAgain, IpmAt, IpmGoto, IpmTypeOK, IpmInv, IpmLabels
    <3>2. QED
      BY <1>2, <1>8, <2>1, <3>1, InsideIpm DEF IpmGetAgain, IpmGoto
  <2>2. CASE wr_idx # rd_idx
    <3>1. rd_idx < wr_idx /\ Running(t, "app") /\ ipc[t] = "get_again" /\ IpmTake(t)
      BY <1>1, <1>8, <2>2 DEF IpmGetAgain, IpmAt
    <3>2. QED
      BY <3>1, IpmTakeKeeps
  <2>3. QED
    BY <2>1, <2>2
<1>9. CASE IpmNotified(t)
  <2>1. IpmTypeOK' /\ Running(t, "app") /\ ~Attends(t)
    BY <1>1, <1>3, <1>9 DEF IpmNotified, IpmAt, IpmGoto, IpmTypeOK, IpmInv, IpmLabels, Attends
  <2>2. QED
    BY <1>2, <1>9, <2>1, InsideIpm DEF IpmNotified, IpmGoto
<1>10. CASE IpmQueueInit(t) \/ IpmReset(t)
  <2>1. Running(t, "app") /\ UNCHANGED <<current, sc, pc, arg, queue, slot, ipc>> /\ ipc[t] = ipc[t]
        /\ (UNCHANGED <<rd_idx, wr_idx>> \/ (rd_idx' = 0 /\ wr_idx' = 0))
    BY <1>10 DEF IpmQueueInit, IpmReset, Calls, rqVars, callVars
  <2>2. IpmTypeOK'
    BY <1>1, <2>1 DEF IpmTypeOK, IpmInv
  <2>3. InQ(ipm)' = InQ(ipm) /\ \A u \in Threads : (Entering(u, ipm)' <=> Entering(u, ipm)) /\ (Notifying(u, ipm)' <=> Notifying(u, ipm))
    BY <2>1 DEF InQ, Entering, Notifying
  <2>4. UNCHANGED <<rd_idx, wr_idx>> \/ \A u \in Threads : ipc[u] = "out" \/ ~Running(u, "app")
    BY <1>10 DEF IpmQueueInit, IpmReset, Calls, Running
  <2>5. IpmPlaces'
    BY <2>1, <2>3, <2>4 DEF IpmPlaces, IpmInv, Running
  <2>6. Attended'
    BY <2>1, <2>3 DEF Attended, IpmInv, Attends
  <2>7. QED
    BY <2>2, <2>5, <2>6 DEF IpmInv
<1>11. CASE IpmPost(t)
  <2>1. IpmTypeOK' /\ Running(t, "app") /\ ~Attends(t) /\ wr_idx < NumMsgs
    BY <1>1, <1>3, <1>11 DEF IpmPost, Calls, IpmQueueIsFull, IpmGoto, IpmTypeOK, IpmInv, IpmLabels, Attends
  <2>2. QED
    BY <1>2, <1>11, <2>1, InsideIpm DEF IpmPost, IpmGoto
<1>12. CASE IpmGet(t)
  BY <1>12, IpmTakeKeeps DEF IpmGet, Calls
<1>13. CASE IpmGetEmpty(t)
  <2>1. IpmTypeOK' /\ Running(t, "app") /\ rd_idx = wr_idx
    BY <1>1, <1>13 DEF IpmGetEmpty, Calls, IpmGoto, IpmTypeOK, IpmInv, IpmLabels
  <2>2. rd_idx' = wr_idx' /\ ~(rd_idx' < wr_idx')
    BY <1>1, <1>13, <2>1 DEF IpmGetEmpty
  <2>3. QED
    BY <1>2, <1>13, <2>1, <2>2, InsideIpm DEF IpmGetEmpty, IpmGoto
<1>14. QED
  BY <1>4, <1>5, <1>6, <1>7, <1>8, <1>9, <1>10, <1>11, <1>12, <1>13 DEF IpmContinue, IpmCall

\* Who is inside ipm.c and runs makes no call of another service.
LEMMA IpmStays ==
    ASSUME Cooperative, KInv, [IpcNext]_ipcVars, NEW t \in Threads, ~IpmDoes(t), ipc[t] # "out", Running(t, "app")
    PROVE  Running(t, "app")'
<1>1. uses = "ipm" /\ ~sready /\ \A u \in Threads : spc[u] = "out"
  BY DEF KInv, UsesInv
<1>2. ~CondDoes(t) /\ ~BusStep(t) /\ ~Otherwise(t) /\ ~IrqStep(t)
  BY <1>1 DEF CondDoes, CondStep, CondUse, BusStep, Otherwise, IrqStep
<1>3. ~SemDoes(t)
  BY <1>1 DEF SemDoes, SemStep, SemUse, SemContinue, SemWaitStore, SemWaitBlock, SemWaitReturn, SemSignalStore, SemSignalNotify,
     SemSignalReturn, SemAt
<1>4. QED
  BY <1>2, <1>3, IpcStays

\* Every step keeps it.
LEMMA IpmNext ==
    ASSUME Cooperative, KInv, IpmInv, [IpcNext]_ipcVars
    PROVE  IpmInv'
<1>1. CoopInv /\ CoopInv'
  BY KNext DEF KInv
<1>2. CASE \E t \in Threads : IpmDoes(t)
  BY <1>1, <1>2, IpmKeeps DEF IpmDoes, IpmStep, IpmUse
<1>3. CASE ~\E t \in Threads : IpmDoes(t)
  <2>1. UNCHANGED ipmVars
    BY <1>3 DEF IpcNext, ipcVars, WaitReturns, BusIrq, ExternalIrq, IrqStep, CondStep, CondUse, SemStep, SemUse, BusStep, Otherwise, IpmDoes
  <2>2. Tame(ipm)
    <3>1. ipm \in Queues /\ ipm \notin CondQueues /\ ipm \notin BusQueues /\ ipm # sem
      BY IpmAssumption, OwnQueueAssumption DEF CondQueues, BusQueues
    <3>2. QED
      BY <1>3, <3>1, IpcTame
  <2>3. QED
    BY <1>1, <1>3, <2>1, <2>2, IpmStays, TameIpm
<1>4. QED
  BY <1>2, <1>3

\* It holds when the kernel starts.
LEMMA IpmBegins ==
    ASSUME IpcInit
    PROVE  IpmInv
<1>1. /\ queue = [q \in QueueIds |-> <<>>] /\ ipm \in QueueIds /\ \A t \in Threads : pc[t] \in {"app", "idle"}
      /\ wr_idx = 0 /\ rd_idx = 0 /\ ipc = [t \in Threads |-> "out"] /\ slot = [t \in Threads |-> 0]
  BY IpmAssumption DEF IpcInit, MInit, Init, IpmBegin, QueueIds
<1>2. queue[ipm] = <<>> /\ InQ(ipm) = {}
  BY <1>1 DEF InQ, ToSet
<1>3. IpmTypeOK
  BY <1>1, IpmAssumption DEF IpmTypeOK, IpmLabels
<1>4. \A t \in Threads : ipc[t] = "out" /\ ~Entering(t, ipm)
  BY <1>1 DEF Entering
<1>5. QED
  BY <1>2, <1>3, <1>4 DEF IpmInv, IpmPlaces, Attended

\* ipm.c of the cooperative kernel leaves no reader asleep beside a message that
\* nobody attends to, although its test for a full queue, the slot and the
\* notification are separate steps.
THEOREM NoReaderStranded ==
    ASSUME Cooperative
    PROVE  IpcSpec => []IpmNoStrandedReader
<1>1. IpcInit => IpmInv
  BY IpmBegins
<1>2. IpmInv => IpmNoStrandedReader
  BY DEF IpmInv, Attended, Attends, IpmNoStrandedReader, InQ, Notifying
<1>3. KInv /\ IpmInv /\ [IpcNext]_ipcVars => IpmInv'
  BY IpmNext
<1>4. QED
  BY <1>1, <1>2, <1>3, KAlways, PTL DEF IpcSpec

----------------------------------------------------------------------------
(* The message queue as a FIFO *)

\* The messages of s in the slots from r up to f
Ring(s, r, f) == [i \in 1..(f - r) |-> IF r + i <= NumMsgs THEN s[r + i - 1] ELSE NoMsg]

Stored == [0..(NumMsgs - 1) -> Messages \cup {NoMsg}]

FifoInv == IpmInv /\ msgs \in Stored

\* It is a sequence that begins with slot r.
LEMMA RingIs ==
    ASSUME NEW s \in Stored, NEW r \in Nat, NEW f \in Nat, r <= f, f <= NumMsgs
    PROVE  /\ Ring(s, r, f) \in Seq(Messages \cup {NoMsg}) /\ Len(Ring(s, r, f)) = f - r
           /\ \A i \in 1..(f - r) : Ring(s, r, f)[i] = s[r + i - 1]
<1>1. NumMsgs \in Nat /\ f - r \in Nat
  BY IpmAssumption
<1>2. Ring(s, r, f) = [i \in 1..(f - r) |-> s[r + i - 1]]
  <2>1. \A i \in 1..(f - r) : r + i <= NumMsgs
    BY <1>1
  <2>2. QED
    BY <2>1 DEF Ring
<1>3. \A i \in 1..(f - r) : s[r + i - 1] \in Messages \cup {NoMsg}
  BY <1>1 DEF Stored
<1>4. QED
  BY <1>1, <1>2, <1>3

\* A message that fills the first open slot comes last,
LEMMA RingAppend ==
    ASSUME NEW s \in Stored, NEW r \in Nat, NEW f \in Nat, r <= f, f < NumMsgs, NEW m \in Messages
    PROVE  Ring([s EXCEPT ![f] = m], r, f + 1) = Append(Ring(s, r, f), m) /\ Len(Ring(s, r, f)) < NumMsgs
<1>. DEFINE M == Messages \cup {NoMsg}
            a == Ring(s, r, f)
            n == [s EXCEPT ![f] = m]
            b == Ring(n, r, f + 1)
<1>1. NumMsgs \in Nat /\ f \in 0..(NumMsgs - 1) /\ f + 1 \in Nat /\ r <= f + 1 /\ f + 1 <= NumMsgs /\ m \in M
  BY IpmAssumption
<1>2. n \in Stored /\ n[f] = m /\ \A k \in 0..(NumMsgs - 1) : k # f => n[k] = s[k]
  <2>1. s \in [0..(NumMsgs - 1) -> M]
    BY DEF Stored
  <2>2. n \in [0..(NumMsgs - 1) -> M]
    BY <1>1, <2>1
  <2>3. n[f] = m /\ \A k \in 0..(NumMsgs - 1) : k # f => n[k] = s[k]
    BY <1>1, <2>1
  <2>4. QED
    BY <2>2, <2>3 DEF Stored
<1>3. a \in Seq(M) /\ Len(a) = f - r /\ \A i \in 1..(f - r) : a[i] = s[r + i - 1]
  BY <1>1, RingIs
<1>. HIDE DEF n
<1>4. b \in Seq(M) /\ Len(b) = f + 1 - r /\ \A i \in 1..(f + 1 - r) : b[i] = n[r + i - 1]
  <2>1. \A z \in Stored : /\ Ring(z, r, f + 1) \in Seq(M) /\ Len(Ring(z, r, f + 1)) = f + 1 - r
                         /\ \A i \in 1..(f + 1 - r) : Ring(z, r, f + 1)[i] = z[r + i - 1]
    BY <1>1, RingIs
  <2>2. QED
    BY <1>2, <2>1
<1>. HIDE DEF a, b
<1>5. /\ Append(a, m) \in Seq(M) /\ Len(Append(a, m)) = Len(a) + 1
      /\ Append(a, m)[Len(a) + 1] = m /\ \A k \in 1..Len(a) : Append(a, m)[k] = a[k]
  BY <1>1, <1>3, AppendProperties, LenProperties
<1>6. Len(b) = Len(Append(a, m)) /\ Len(a) < NumMsgs
  BY <1>1, <1>3, <1>4, <1>5
<1>7. ASSUME NEW i \in 1..Len(b)
      PROVE  b[i] = Append(a, m)[i]
  <2>1. i \in 1..(f + 1 - r) /\ b[i] = n[r + i - 1]
    BY <1>4
  <2>2. CASE i = f + 1 - r
    BY <1>2, <1>3, <1>5, <2>1, <2>2
  <2>3. CASE i # f + 1 - r
    <3>1. i \in 1..(f - r) /\ r + i - 1 \in 0..(NumMsgs - 1) /\ r + i - 1 # f
      BY <1>1, <2>1, <2>3
    <3>2. QED
      BY <1>2, <1>3, <1>5, <2>1, <3>1
  <2>4. QED
    BY <2>2, <2>3
<1>8. b = Append(a, m)
  BY <1>4, <1>5, <1>6, <1>7, SeqEqual
<1>9. QED
  BY <1>6, <1>8 DEF a, b, n

\* and the one that is read came first.
LEMMA RingTail ==
    ASSUME NEW s \in Stored, NEW r \in Nat, NEW f \in Nat, r < f, f <= NumMsgs
    PROVE  /\ Ring(s, r, f) # <<>> /\ Head(Ring(s, r, f)) = s[r]
           /\ Ring(s, r + 1, f) = Tail(Ring(s, r, f))
<1>. DEFINE M == Messages \cup {NoMsg}
            a == Ring(s, r, f)
            b == Ring(s, r + 1, f)
<1>1. r + 1 \in Nat /\ r + 1 <= f /\ r <= f
  OBVIOUS
<1>2. a \in Seq(M) /\ Len(a) = f - r /\ \A i \in 1..(f - r) : a[i] = s[r + i - 1]
  BY <1>1, RingIs
<1>3. b \in Seq(M) /\ Len(b) = f - (r + 1) /\ \A i \in 1..(f - (r + 1)) : b[i] = s[r + 1 + i - 1]
  BY <1>1, RingIs
<1>. HIDE DEF a, b
<1>4. a # <<>> /\ Head(a) = s[r]
  <2>1. 1 \in 1..(f - r) /\ r + 1 - 1 = r
    BY <1>1
  <2>2. a # <<>> /\ Head(a) = a[1]
    BY <1>1, <1>2, HeadTailProperties
  <2>3. QED
    BY <1>2, <2>1, <2>2
<1>5. Tail(a) \in Seq(M) /\ Len(Tail(a)) = Len(a) - 1 /\ \A i \in 1..Len(Tail(a)) : Tail(a)[i] = a[i + 1]
  BY <1>2, <1>4, HeadTailProperties
<1>6. Len(b) = Len(Tail(a))
  BY <1>1, <1>2, <1>3, <1>5
<1>7. \A i \in 1..Len(b) : b[i] = Tail(a)[i]
  BY <1>1, <1>2, <1>3, <1>5, <1>6
<1>8. b = Tail(a)
  BY <1>3, <1>5, <1>6, <1>7, SeqEqual
<1>9. QED
  BY <1>4, <1>8 DEF a, b

\* CHOOSE finds the least number of a set.
LEMMA LeastChosen ==
    ASSUME NEW S \in SUBSET Int, NEW o \in S, \A j \in S : o <= j
    PROVE  (CHOOSE i \in S : \A j \in S : i <= j) = o
<1>1. \A i \in S : (\A j \in S : i <= j) => i = o
  OBVIOUS
<1>2. QED
  BY <1>1

\* One slot at most is open, the last: whoever has it runs.
LEMMA FilledIs ==
    ASSUME CoopInv, IpmInv
    PROVE  /\ (\A t \in Threads : ipc[t] # "post_fill") => Filled = wr_idx
           /\ \A t \in Threads : ipc[t] = "post_fill" => Filled = wr_idx - 1 /\ rd_idx <= Filled /\ slot[t] = Filled
<1>. DEFINE S == {slot[t] : t \in {u \in Threads : ipc[u] = "post_fill"}} \cup {wr_idx}
<1>1. /\ wr_idx \in Nat /\ rd_idx \in Nat
      /\ \A t \in Threads : ipc[t] = "post_fill" => slot[t] = wr_idx - 1 /\ rd_idx < wr_idx
  BY IpmAssumption DEF IpmInv, IpmTypeOK, IpmPlaces
<1>2. Filled = CHOOSE i \in S : \A j \in S : i <= j
  BY DEF Filled
<1>3. CASE \A t \in Threads : ipc[t] # "post_fill"
  <2>1. S = {wr_idx}
    BY <1>3
  <2>2. S \in SUBSET Int /\ wr_idx \in S /\ \A j \in S : wr_idx <= j
    BY <1>1, <2>1
  <2>3. QED
    BY <1>2, <1>3, <2>2, LeastChosen
<1>4. ASSUME NEW t \in Threads, ipc[t] = "post_fill"
      PROVE  Filled = wr_idx - 1 /\ rd_idx <= Filled /\ slot[t] = Filled
  <2>1. S = {wr_idx - 1, wr_idx}
    BY <1>1, <1>4
  <2>2. S \in SUBSET Int /\ wr_idx - 1 \in S /\ \A j \in S : wr_idx - 1 <= j
    BY <1>1, <2>1
  <2>3. Filled = wr_idx - 1
    BY <1>2, <2>2, LeastChosen
  <2>4. QED
    BY <1>1, <1>4, <2>3
<1>5. QED
  BY <1>3, <1>4

\* The queue that a reader sees
LEMMA ContentIs ==
    IpmContent = Ring(msgs, rd_idx, Filled)
BY DEF IpmContent, Ring

\* Nothing that matters has changed.
LEMMA SameContent ==
    ASSUME UNCHANGED <<msgs, rd_idx>>, Filled' = Filled
    PROVE  UNCHANGED IpmContent
BY DEF IpmContent

\* What thread t does to the abstract queue, and that it does nothing else
FifoActs(t) ==
    /\ \A m \in Messages : IpmPostFill(t, m) => Fifo!Put(m)
    /\ IpmGets(t) => Fifo!Take
    /\ IpmReset(t) => Fifo!Clear
FifoDoes(t) == (\E m \in Messages : IpmPostFill(t, m)) \/ IpmGets(t) \/ IpmReset(t)

\* Each step of ipm.c puts a message at the end, hands out the first, clears the
\* queue, or leaves it as it is.
LEMMA FifoStep ==
    ASSUME CoopInv, FifoInv, CoopInv', IpmInv', NEW t \in Threads, IpmContinue(t) \/ IpmCall(t)
    PROVE  /\ FifoActs(t) /\ (FifoDoes(t) \/ UNCHANGED <<IpmContent, got>>)
           /\ msgs' \in Stored
<1>1. /\ NumMsgs \in Nat /\ rd_idx \in Nat /\ wr_idx \in Nat /\ rd_idx <= wr_idx /\ wr_idx <= NumMsgs /\ wr_idx' \in Nat
      /\ IpmInv /\ msgs \in Stored /\ ipc \in [Threads -> IpmLabels]
  BY IpmAssumption DEF FifoInv, IpmInv, IpmTypeOK
<1>2. Running(t, "app") => \A u \in Threads : ipc[u] = "post_fill" => u = t
  BY <1>1 DEF IpmInv, IpmPlaces, Running
<1>3. ASSUME \A u \in Threads : ipc'[u] # "post_fill"
      PROVE  Filled' = wr_idx'
  <2>. DEFINE S == {slot'[u] : u \in {v \in Threads : ipc'[v] = "post_fill"}} \cup {wr_idx'}
  <2>1. Filled' = CHOOSE i \in S : \A j \in S : i <= j
    BY DEF Filled
  <2>2. S = {wr_idx'}
    <3>1. {v \in Threads : ipc'[v] = "post_fill"} = {}
      BY <1>3
    <3>2. QED
      BY <3>1
  <2>3. S \in SUBSET Int /\ wr_idx' \in S /\ \A j \in S : wr_idx' <= j
    BY <1>1, <2>2
  <2>. HIDE DEF S
  <2>4. QED
    BY <2>1, <2>3, LeastChosen
<1>4. ASSUME NEW m \in Messages, IpmPostFill(t, m)
      PROVE  Fifo!Put(m) /\ msgs' \in Stored
  <2>1. ipc[t] = "post_fill" /\ Running(t, "app") /\ wr_idx' = wr_idx /\ rd_idx' = rd_idx /\ ipc' = [ipc EXCEPT ![t] = "post_notify"]
        /\ msgs' = [msgs EXCEPT ![slot[t]] = m] /\ got' = got
    BY <1>4 DEF IpmPostFill, IpmAt, IpmGoto
  <2>2. Filled = wr_idx - 1 /\ slot[t] = Filled /\ rd_idx <= Filled /\ Filled \in Nat /\ Filled < NumMsgs
    BY <1>1, <2>1, FilledIs
  <2>3. \A u \in Threads : ipc'[u] # "post_fill"
    BY <1>1, <1>2, <2>1
  <2>4. Filled' = Filled + 1
    BY <1>1, <1>3, <2>1, <2>2, <2>3
  <2>5. IpmContent' = Ring(msgs', rd_idx', Filled') /\ IpmContent = Ring(msgs, rd_idx, Filled)
    BY DEF IpmContent, Ring
  <2>6. IpmContent' = Ring([msgs EXCEPT ![Filled] = m], rd_idx, Filled + 1)
    BY <2>1, <2>2, <2>4, <2>5
  <2>7. IpmContent' = Append(IpmContent, m) /\ Len(IpmContent) < NumMsgs
    BY <1>1, <2>2, <2>5, <2>6, RingAppend
  <2>8. msgs' \in Stored
    <3>1. m \in Messages \cup {NoMsg} /\ msgs \in [0..(NumMsgs - 1) -> Messages \cup {NoMsg}]
      BY <1>1 DEF Stored
    <3>2. msgs' \in [0..(NumMsgs - 1) -> Messages \cup {NoMsg}]
      BY <2>1, <3>1
    <3>3. QED
      BY <3>2 DEF Stored
  <2>9. QED
    BY <2>1, <2>7, <2>8 DEF Fifo!Put
<1>5. ASSUME IpmTake(t), Running(t, "app"), ipc[t] # "post_fill", rd_idx < wr_idx
      PROVE  Fifo!Take /\ msgs' = msgs
  <2>1. PICK l \in {"get_notify", "out"} : ipc' = [ipc EXCEPT ![t] = l] /\ msgs' = msgs /\ wr_idx' = wr_idx /\ rd_idx' = rd_idx + 1
                                      /\ got' = msgs[rd_idx]
    BY <1>5 DEF IpmTake, IpmGoto
  <2>2. \A u \in Threads : ipc[u] # "post_fill" /\ ipc'[u] # "post_fill"
    BY <1>1, <1>2, <1>5, <2>1
  <2>3. Filled = wr_idx /\ Filled' = wr_idx
    BY <1>1, <1>3, <2>1, <2>2, FilledIs
  <2>4. IpmContent' = Ring(msgs', rd_idx', Filled') /\ IpmContent = Ring(msgs, rd_idx, Filled)
    BY DEF IpmContent, Ring
  <2>5. IpmContent' = Ring(msgs, rd_idx + 1, wr_idx) /\ IpmContent = Ring(msgs, rd_idx, wr_idx)
    BY <2>1, <2>3, <2>4
  <2>6. QED
    BY <1>1, <1>5, <2>1, <2>5, RingTail DEF Fifo!Take
<1>6. ASSUME IpmReset(t)
      PROVE  Fifo!Clear /\ msgs' = msgs
  <2>1. wr_idx' = 0 /\ rd_idx' = 0 /\ ipc' = ipc /\ msgs' = msgs /\ got' = got /\ Running(t, "app") /\ ipc[t] = "out"
    BY <1>6 DEF IpmReset, Calls
  <2>2. \A u \in Threads : ipc'[u] # "post_fill"
    BY <1>2, <2>1
  <2>3. Filled' = 0
    BY <1>3, <2>1, <2>2
  <2>4. IpmContent' = Ring(msgs', 0, 0)
    BY <2>1, <2>3 DEF IpmContent, Ring
  <2>5. Len(Ring(msgs, 0, 0)) = 0 /\ Ring(msgs, 0, 0) \in Seq(Messages \cup {NoMsg})
    BY <1>1, RingIs
  <2>6. IpmContent' = <<>>
    BY <2>1, <2>4, <2>5
  <2>7. QED
    BY <2>1, <2>6 DEF Fifo!Clear
<1>7. ASSUME IpmPostSlot(t)
      PROVE  UNCHANGED <<IpmContent, got, msgs>>
  <2>1. ipc[t] = "post_slot" /\ Running(t, "app") /\ wr_idx < NumMsgs /\ wr_idx' = wr_idx + 1 /\ slot' = [slot EXCEPT ![t] = wr_idx]
        /\ ipc' = [ipc EXCEPT ![t] = "post_fill"] /\ UNCHANGED <<msgs, rd_idx, got>> /\ slot \in [Threads -> Nat]
    BY <1>1, <1>7, IpmAssumption DEF IpmPostSlot, IpmAt, IpmGoto, IpmInv, IpmPlaces, IpmTypeOK
  <2>2. \A u \in Threads : ipc[u] # "post_fill" /\ (ipc'[u] = "post_fill" <=> u = t)
    BY <1>1, <1>2, <2>1
  <2>3. Filled = wr_idx
    BY <1>1, <2>2, FilledIs
  <2>4. Filled' = wr_idx
    <3>. DEFINE S == {slot[u] : u \in {v \in Threads : ipc[v] = "post_fill"}} \cup {wr_idx}
    <3>1. Filled' = CHOOSE i \in S' : \A j \in S' : i <= j
      BY DEF Filled
    <3>2. S' = {wr_idx, wr_idx + 1}
      BY <1>1, <2>1, <2>2
    <3>3. S' \in SUBSET Int /\ wr_idx \in S' /\ \A j \in S' : wr_idx <= j
      BY <1>1, <3>2
    <3>4. QED
      BY <3>1, <3>3, LeastChosen
  <2>5. QED
    BY <2>1, <2>3, <2>4, SameContent
<1>8. ASSUME UNCHANGED <<msgs, wr_idx, rd_idx, slot>>, ipc[t] # "post_fill", Running(t, "app"), ipc'[t] # "post_fill",
             \A u \in Threads \ {t} : ipc'[u] = ipc[u]
      PROVE  UNCHANGED IpmContent
  <2>1. \A u \in Threads : ipc[u] # "post_fill" /\ ipc'[u] # "post_fill"
    BY <1>2, <1>8
  <2>2. Filled = wr_idx /\ Filled' = wr_idx
    BY <1>1, <1>3, <1>8, <2>1, FilledIs
  <2>3. QED
    BY <1>8, <2>2, SameContent
<1>9. ASSUME \/ IpmPost(t) \/ IpmGetEmpty(t)
             \/ IpmPostNotify(t) \/ IpmGetWait(t) \/ IpmGetNotify(t) \/ IpmNotified(t)
             \/ (IpmGetAgain(t) /\ wr_idx = rd_idx)
      PROVE  UNCHANGED <<IpmContent, got, msgs>>
  <2>1. /\ UNCHANGED <<msgs, wr_idx, rd_idx, slot, got>> /\ Running(t, "app")
        /\ \E l \in {"post_slot", "get_wait", "notifying", "get_again", "out"} : ipc' = [ipc EXCEPT ![t] = l]
    BY <1>9 DEF IpmPost, IpmGetEmpty, IpmPostNotify, IpmGetWait, IpmGetNotify, IpmNotified, IpmGetAgain, IpmAt, IpmGoto, Calls
  <2>2. ipc[t] # "post_fill"
    BY <1>9 DEF IpmPost, IpmGetEmpty, IpmPostNotify, IpmGetWait, IpmGetNotify, IpmNotified, IpmGetAgain, IpmAt, Calls
  <2>3. ipc'[t] # "post_fill" /\ \A u \in Threads \ {t} : ipc'[u] = ipc[u]
    BY <1>1, <2>1, <2>2
  <2>4. UNCHANGED IpmContent
    BY <1>8, <2>1, <2>2, <2>3
  <2>5. QED
    BY <2>1, <2>4
<1>10. ASSUME IpmGets(t)
       PROVE  Fifo!Take /\ msgs' = msgs
  <2>1. IpmTake(t) /\ Running(t, "app") /\ ipc[t] # "post_fill" /\ rd_idx < wr_idx
    BY <1>1, <1>10 DEF IpmGets, IpmGet, IpmGetAgain, IpmAt, Calls
  <2>2. QED
    BY <1>5, <2>1
<1>11. ASSUME IpmQueueInit(t)
       PROVE  UNCHANGED <<IpmContent, got, msgs>>
  <2>1. UNCHANGED <<msgs, wr_idx, rd_idx, slot, ipc, got>>
    BY <1>11 DEF IpmQueueInit
  <2>2. QED
    BY <2>1, SameContent DEF Filled
<1>12. FifoActs(t)
  BY <1>4, <1>6, <1>10 DEF FifoActs
<1>13. \/ FifoDoes(t)
       \/ IpmPostSlot(t) \/ IpmPost(t) \/ IpmGetEmpty(t) \/ IpmPostNotify(t) \/ IpmGetWait(t) \/ IpmGetNotify(t)
       \/ IpmNotified(t) \/ (IpmGetAgain(t) /\ wr_idx = rd_idx) \/ IpmQueueInit(t)
  BY DEF IpmContinue, IpmCall, FifoDoes, IpmGets
<1>14. CASE FifoDoes(t)
  BY <1>1, <1>4, <1>6, <1>10, <1>12, <1>14 DEF FifoDoes
<1>15. CASE ~FifoDoes(t)
  BY <1>1, <1>7, <1>9, <1>11, <1>12, <1>13, <1>15
<1>16. QED
  BY <1>14, <1>15

\* Every step keeps it and is one of the abstract queue's.
LEMMA FifoNext ==
    ASSUME Cooperative, KInv, FifoInv, [IpcNext]_ipcVars
    PROVE  /\ FifoInv'
           /\ [Fifo!FifoNext]_(Fifo!fifoVars)
           /\ \/ UNCHANGED ipmVars
              \/ /\ \A t \in Threads : FifoActs(t)
                 /\ UNCHANGED <<IpmContent, got>> \/ \E t \in Threads : FifoDoes(t)
<1>1. CoopInv /\ CoopInv' /\ IpmInv' /\ msgs \in Stored
  BY KNext, IpmNext DEF KInv, FifoInv
<1>2. ASSUME NEW t \in Threads, IpmDoes(t)
      PROVE  /\ \A u \in Threads : FifoActs(u)
             /\ FifoDoes(t) \/ UNCHANGED <<IpmContent, got>>
             /\ msgs' \in Stored
  <2>1. IpmContinue(t) \/ IpmCall(t)
    BY <1>2 DEF IpmDoes, IpmStep, IpmUse
  <2>2. Running(t, "app")
    BY <1>2, IpcRuns
  <2>3. ASSUME NEW u \in Threads, u # t
        PROVE  FifoActs(u)
    BY <2>2, <2>3 DEF FifoActs, IpmPostFill, IpmGets, IpmGet, IpmGetAgain, IpmReset, IpmAt, Calls, Running
  <2>4. FifoActs(t) /\ (FifoDoes(t) \/ UNCHANGED <<IpmContent, got>>) /\ msgs' \in Stored
    BY <1>1, <2>1, FifoStep
  <2>5. QED
    BY <2>3, <2>4
<1>3. CASE ~\E t \in Threads : IpmDoes(t)
  <2>1. UNCHANGED ipmVars
    BY <1>3 DEF IpcNext, ipcVars, WaitReturns, BusIrq, ExternalIrq, IrqStep, CondStep, CondUse, SemStep, SemUse, BusStep, Otherwise, IpmDoes
  <2>2. UNCHANGED <<msgs, wr_idx, rd_idx, slot, ipc, got>>
    BY <2>1 DEF ipmVars
  <2>3. UNCHANGED IpmContent
    BY <2>2, SameContent DEF Filled
  <2>4. FifoInv'
    BY <1>1, <2>2 DEF FifoInv
  <2>5. QED
    BY <2>1, <2>2, <2>3, <2>4 DEF Fifo!fifoVars
<1>4. CASE \E t \in Threads : IpmDoes(t)
  <2>1. PICK t \in Threads : IpmDoes(t)
    BY <1>4
  <2>2. (\A u \in Threads : FifoActs(u)) /\ (FifoDoes(t) \/ UNCHANGED <<IpmContent, got>>) /\ msgs' \in Stored
    BY <1>2, <2>1
  <2>3. FifoInv'
    BY <1>1, <2>2 DEF FifoInv
  <2>4. CASE FifoDoes(t)
    <3>1. Fifo!FifoNext
      BY <2>2, <2>4 DEF FifoDoes, FifoActs, Fifo!FifoNext
    <3>2. QED
      BY <2>2, <2>3, <2>4, <3>1
  <2>5. CASE UNCHANGED <<IpmContent, got>>
    BY <2>2, <2>3, <2>5 DEF Fifo!fifoVars
  <2>6. QED
    BY <2>2, <2>4, <2>5
<1>5. QED
  BY <1>3, <1>4

\* ipm.c of the cooperative kernel implements the bounded queue of AbstractFifo:
\* what ipm_post_msg stores goes to the end, what ipm_get_msg copies out is the
\* first and leaves the queue with that, ipm_reset_queue alone drops messages, and
\* no other step changes the queue or hands anything out, although the test, the
\* slot and the message itself are separate steps and readers wait in between.
THEOREM FifoRefines ==
    ASSUME Cooperative
    PROVE  IpcSpec => ImplementsFifo
<1>1. ASSUME IpcInit
      PROVE  FifoInv /\ Fifo!FifoInit
  <2>1. IpmInv
    BY <1>1, IpmBegins
  <2>2. wr_idx = 0 /\ rd_idx = 0 /\ msgs \in Stored /\ \A t \in Threads : ipc[t] = "out"
    BY <1>1 DEF IpcInit, IpmBegin, Stored
  <2>3. Filled = 0
    <3>. DEFINE S == {slot[t] : t \in {u \in Threads : ipc[u] = "post_fill"}} \cup {wr_idx}
    <3>1. S = {0} /\ Filled = CHOOSE i \in S : \A j \in S : i <= j
      BY <2>2 DEF Filled
    <3>2. QED
      BY <3>1, LeastChosen
  <2>4. IpmContent = Ring(msgs, 0, 0)
    BY <2>2, <2>3, ContentIs
  <2>5. Len(Ring(msgs, 0, 0)) = 0 /\ Ring(msgs, 0, 0) \in Seq(Messages \cup {NoMsg})
    <3>1. 0 \in Nat /\ 0 <= 0 /\ 0 <= NumMsgs /\ msgs \in Stored
      BY <2>2, IpmAssumption
    <3>2. Len(Ring(msgs, 0, 0)) = 0 - 0 /\ Ring(msgs, 0, 0) \in Seq(Messages \cup {NoMsg})
      BY <3>1, RingIs
    <3>3. QED
      BY <3>2
  <2>6. QED
    BY <2>1, <2>2, <2>4, <2>5 DEF FifoInv, Fifo!FifoInit
<1>2. KInv /\ FifoInv /\ [IpcNext]_ipcVars =>
        /\ FifoInv'
        /\ [Fifo!FifoNext]_(Fifo!fifoVars)
        /\ [/\ \A t \in Threads, m \in Messages : IpmPostFill(t, m) => Fifo!Put(m)
            /\ \A t \in Threads : (IpmGets(t) => Fifo!Take) /\ (IpmReset(t) => Fifo!Clear)
            /\ \/ UNCHANGED <<IpmContent, got>>
               \/ \E t \in Threads :
                     (\E m \in Messages : IpmPostFill(t, m)) \/ IpmGets(t) \/ IpmReset(t)]_ipmVars
  BY FifoNext DEF FifoActs, FifoDoes
<1>3. QED
  BY <1>1, <1>2, KAlways, PTL DEF IpcSpec, ImplementsFifo, Fifo!FifoSpec

----------------------------------------------------------------------------
(* The condition variable *)

CondTypeOK == cpc \in [Threads -> CondLabels] /\ pred \in BOOLEAN

\* Who is inside condition_unlock holds the processor.
CondUnlocks ==
    \A t \in Threads :
        /\ cpc[t] = "unlock" => Running(t, "app")
        /\ cpc[t] = "unlocking" => /\ mpc[t] \notin {"lock_test", "lock_take"}
                                   /\ Running(t, "app") \/ Running(t, "notify")

\* From condition_wait's look at the predicate to its place in the queue no
\* other thread gets the processor, not even while it unlocks.
CondPlaces ==
    \A t \in Threads :
        /\ uses # "cond" => cpc[t] = "out"
        /\ cpc[t] = "unlock" => ~pred /\ Running(t, "app")
        /\ cpc[t] = "unlocking" => /\ ~pred /\ mpc[t] \notin {"lock_test", "lock_take"}
                                   /\ Running(t, "app") \/ Running(t, "notify")
        /\ Entering(t, cond) => cpc[t] = "waiting" /\ ~pred
        /\ t \in InQ(cond) => cpc[t] = "waiting"

\* Who will look at the predicate, or tell who waits
Minds(t) == cpc[t] \in {"waiting", "locking", "woken"} \/ Notifying(t, cond) \/ Broadcasting(t, cond)

\* The predicate is true and a thread waits: somebody outside the queue minds.
Minded == pred /\ queue[cond] # <<>> => \E t \in Threads : t \notin InQ(cond) /\ Minds(t)

CondInv == CondTypeOK /\ CondPlaces /\ Minded

\* A step that leaves the condition variable alone
LEMMA TameCond ==
    ASSUME CoopInv, CoopInv', CondInv, Tame(cond), UNCHANGED condVars, uses' = uses, CondUnlocks'
    PROVE  CondInv'
<1>1. cond \in QueueIds /\ queue \in [QueueIds -> Seq(Threads)] /\ queue' \in [QueueIds -> Seq(Threads)]
  BY CondAssumption DEF CoopInv, TypeOK, QueueIds
<1>2. (queue[cond] = <<>> <=> InQ(cond) = {}) /\ (queue'[cond] = <<>> <=> InQ(cond)' = {}) /\ InQ(cond)' \subseteq Threads
  BY <1>1, EmptyList DEF InQ
<1>3. UNCHANGED <<cpc, pred, uses>>
  BY DEF condVars
<1>4. CondTypeOK'
  BY <1>3 DEF CondInv, CondTypeOK
<1>5. CondPlaces'
  BY <1>3 DEF CondInv, CondPlaces, CondUnlocks, Tame, Entering
<1>6. ASSUME pred', queue'[cond] # <<>>
      PROVE  \E t \in Threads : t \notin InQ(cond)' /\ Minds(t)'
  <2>1. InQ(cond)' \subseteq InQ(cond)
    BY <1>2, <1>3, <1>6 DEF Tame, CondInv, CondPlaces, Entering
  <2>2. pred /\ queue[cond] # <<>>
    BY <1>2, <1>3, <1>6, <2>1
  <2>3. PICK t \in Threads : t \notin InQ(cond) /\ Minds(t)
    BY <2>2 DEF CondInv, Minded
  <2>4. CASE Minds(t)'
    BY <2>1, <2>3, <2>4
  <2>5. CASE ~Minds(t)'
    <3>1. PICK w \in Threads : w \in InQ(cond) /\ w \notin InQ(cond)'
      BY <1>3, <1>6, <2>2, <2>3, <2>5 DEF Tame, Minds
    <3>2. Minds(w)'
      BY <1>3, <3>1 DEF CondInv, CondPlaces, Minds
    <3>3. QED
      BY <3>1, <3>2
  <2>6. QED
    BY <2>4, <2>5
<1>7. QED
  BY <1>4, <1>5, <1>6 DEF CondInv, Minded

\* The mutex inside the condition variable
LEMMA CondMutex ==
    ASSUME Cooperative, CoopInv, CoopInv', mpc \in [Threads -> MLabels], CondInv, NEW t \in Threads, LockEnter(t) \/ MContinue(t) \/ Unlock(t),
           UNCHANGED <<condVars, uses>>, cpc[t] # "unlock",
           cpc[t] = "unlocking" => MContinue(t)
    PROVE  CondInv'
<1>1. Running(t, "app") /\ TypeOK /\ mpc \in [Threads -> MLabels] /\ sc \in [Threads -> Phases]
  BY DEF LockEnter, MContinue, Unlock, LockPass, LockWait, LockTake, UnlockOwner, UnlockNotify, UnlockEnable, At, Calls, CoopInv, TypeOK
<1>2. Tame(cond)
  <2>1. mutex \in {mutex} /\ cond \notin {mutex} /\ cond \in Queues
    BY CondAssumption
  <2>2. Acts(t, {mutex})
    BY <1>1, <2>1, MutexActs
  <2>3. QED
    BY <1>1, <2>1, <2>2, ActsElsewhere, ElsewhereTame
<1>3. \A u \in Threads \ {t} : cpc[u] \notin {"unlock", "unlocking"}
  BY <1>1 DEF CondInv, CondPlaces, Running
<1>4. ASSUME cpc[t] = "unlocking"
      PROVE  mpc'[t] \notin {"lock_test", "lock_take"} /\ (Running(t, "app")' \/ Running(t, "notify")')
  <2>1. mpc[t] \notin {"lock_test", "lock_take"}
    BY <1>4 DEF CondInv, CondPlaces
  <2>2. CASE UnlockOwner(t)
    BY <1>1, <2>2 DEF UnlockOwner, MGoto, vars, rqVars, callVars, Running
  <2>3. CASE UnlockNotify(t)
    <3>1. ~irqExec /\ pc \in [Threads -> Labels]
      BY <1>1 DEF CoopInv, ControlInv, TypeOK
    <3>2. QED
      BY <1>1, <2>3, <3>1 DEF UnlockNotify, MGoto, EventNotify, Goto, rqVars, Running
  <2>4. CASE UnlockEnable(t)
    <3>1. UNCHANGED <<current, pc, sc>>
      BY <1>1, <2>4, CountsNothing DEF UnlockEnable, SchedButCnt, rqVars, callVars
    <3>2. QED
      BY <1>1, <2>4, <3>1 DEF UnlockEnable, MGoto, Running
  <2>5. QED
    BY <1>4, <2>1, <2>2, <2>3, <2>4 DEF MContinue, LockPass, LockWait, LockTake, At
<1>5. CondUnlocks'
  BY <1>3, <1>4 DEF CondUnlocks, condVars
<1>6. QED
  BY <1>2, <1>5, TameCond

\* A step of condition.c or its user that leaves queues and calls alone
LEMMA InsideCond ==
    ASSUME CoopInv, CondInv, NEW t \in Threads, Running(t, "app"), UNCHANGED <<current, sc, pc, arg, queue, uses>>, uses = "cond",
           NEW l \in {"out", "unlock", "unlocking", "locking", "woken"}, cpc' = [cpc EXCEPT ![t] = l], pred' \in BOOLEAN,
           \A u \in Threads \ {t} : mpc'[u] = mpc[u],
           l = "unlocking" => mpc'[t] \notin {"lock_test", "lock_take"},
           pred' => pred /\ l \in {"locking", "woken"}
    PROVE  CondInv'
<1>1. cond \in QueueIds
  BY CondAssumption DEF QueueIds
<1>2. t \notin InQ(cond) /\ InQ(cond)' = InQ(cond)
      /\ \A u \in Threads : ~Entering(u, cond) /\ ~Entering(u, cond)'
  BY <1>1, OneRuns DEF Entering, InQ
<1>3. cpc'[t] = l /\ \A u \in Threads \ {t} : cpc'[u] = cpc[u]
  BY DEF CondInv, CondTypeOK
<1>4. Running(t, "app")' /\ \A u \in Threads \ {t}, lb \in {"app", "notify"} : ~Running(u, lb)
  BY DEF Running
<1>5. CondPlaces'
  BY <1>2, <1>3, <1>4 DEF CondInv, CondPlaces
<1>6. Minded'
  BY <1>2, <1>3 DEF Minded, Minds
<1>7. CondTypeOK'
  BY DEF CondInv, CondTypeOK, CondLabels
<1>8. QED
  BY <1>5, <1>6, <1>7 DEF CondInv

\* Pred becomes true, and the thread that makes it so calls condition_signal or
\* condition_bcast.
LEMMA CondTells ==
    ASSUME Cooperative, CoopInv, CondInv, NEW t \in Threads, CondSignal(t) \/ CondBcast(t), uses = "cond", uses' = uses
    PROVE  CondInv'
<1>1. cond \in QueueIds /\ ~irqExec /\ pc \in [Threads -> Labels] /\ arg \in [Threads -> Args]
  BY CondAssumption DEF QueueIds, CoopInv, ControlInv, TypeOK
<1>2. Running(t, "app") /\ cpc[t] = "out" /\ UNCHANGED <<cpc, queue>> /\ pred' = TRUE
  BY DEF CondSignal, CondBcast, CondAt, EventNotify, EventBroadcast, evVars
<1>3. PICK l \in {"notify", "broadcast"} : pc' = [pc EXCEPT ![t] = l] /\ arg'[t].q = cond
  <2>1. CASE CondSignal(t)
    <3>1. PICK h : pc' = [pc EXCEPT ![t] = "notify"] /\ arg' = [arg EXCEPT ![t].q = cond, ![t].head = h]
      BY <1>1, <2>1 DEF CondSignal, EventNotify, Goto
    <3>2. QED
      BY <1>1, <3>1 DEF Args
  <2>2. CASE CondBcast(t)
    BY <1>1, <2>2 DEF CondBcast, EventBroadcast, Goto, Args
  <2>3. QED
    BY <2>1, <2>2
<1>4. t \notin InQ(cond) /\ InQ(cond)' = InQ(cond) /\ \A u \in Threads : ~Entering(u, cond)'
  BY <1>1, <1>2, <1>3, OneRuns DEF Entering, InQ
<1>5. \A u \in Threads : cpc[u] \notin {"unlock", "unlocking"}
  BY <1>2 DEF CondInv, CondPlaces, Running
<1>6. Minds(t)'
  BY <1>1, <1>3 DEF Minds, Notifying, Broadcasting
<1>7. CondPlaces'
  BY <1>2, <1>4, <1>5 DEF CondInv, CondPlaces
<1>8. QED
  BY <1>2, <1>4, <1>6, <1>7 DEF CondInv, CondTypeOK, Minded

\* The steps of condition.c and of its users keep it.
LEMMA CondKeeps ==
    ASSUME Cooperative, CoopInv, CoopInv', mpc \in [Threads -> MLabels], CondInv, NEW t \in Threads, CondDoes(t), uses' = uses
    PROVE  CondInv'
<1>1. uses = "cond" /\ TypeOK /\ cpc \in [Threads -> CondLabels] /\ mpc \in [Threads -> MLabels] /\ pred \in BOOLEAN
  BY DEF CondDoes, CondStep, CondUse, CoopInv, CondInv, CondTypeOK
<1>2. UNCHANGED vars \/ UNCHANGED <<SchedButCnt, sc>> => UNCHANGED <<current, sc, pc, arg, queue>>
  BY DEF vars, SchedButCnt, rqVars, callVars, evVars
<1>3. CASE /\ UNCHANGED condVars
           /\ \/ cpc[t] \in {"out", "unlocking", "locking"} /\ MContinue(t)
              \/ cpc[t] = "out" /\ (LockEnter(t) \/ Unlock(t))
  BY <1>1, <1>3, CondMutex
<1>4. CASE CondUnlock(t)
  <2>1. mpc'[t] \notin {"lock_test", "lock_take"} /\ \A u \in Threads \ {t} : mpc'[u] = mpc[u]
    BY <1>1, <1>4 DEF CondUnlock, Unlock, MGoto
  <2>2. Running(t, "app") /\ ~pred
    BY <1>4 DEF CondUnlock, CondAt, CondInv, CondPlaces
  <2>3. QED
    BY <1>1, <1>2, <1>4, <2>1, <2>2, InsideCond DEF CondUnlock, CondGoto, Unlock
<1>5. CASE CondLock(t)
  <2>1. \A u \in Threads \ {t} : mpc'[u] = mpc[u]
    BY <1>1, <1>5 DEF CondLock, LockEnter, MGoto
  <2>2. Running(t, "app") /\ cpc' = [cpc EXCEPT ![t] = "locking"] /\ pred' = pred /\ UNCHANGED <<SchedButCnt, sc>>
    BY <1>5 DEF CondLock, CondAt, CondGoto, LockEnter
  <2>3. QED
    BY <1>1, <1>2, <2>1, <2>2, InsideCond
<1>6. CASE CondReturn(t)
  <2>1. sc' = sc
    BY <1>1, <1>6, CountsNothing DEF CondReturn
  <2>2. Running(t, "app") /\ cpc' = [cpc EXCEPT ![t] = "woken"] /\ pred' = pred /\ UNCHANGED <<SchedButCnt, sc>> /\ mpc' = mpc
    BY <1>6, <2>1 DEF CondReturn, CondAt, CondGoto, mVars
  <2>3. QED
    BY <1>1, <1>2, <2>2, InsideCond
<1>7. CASE CondWait(t)
  <2>1. Running(t, "app") /\ cpc' = [cpc EXCEPT ![t] = "unlock"] /\ pred' = pred /\ ~pred /\ UNCHANGED <<SchedButCnt, sc>> /\ mpc' = mpc
    BY <1>7 DEF CondWait, Calls, CondGoto, mVars
  <2>2. QED
    BY <1>1, <1>2, <2>1, InsideCond
<1>8. CASE CondConsume(t)
  <2>1. Running(t, "app") /\ cpc' = [cpc EXCEPT ![t] = "out"] /\ pred' = FALSE /\ UNCHANGED vars /\ mpc' = mpc
    BY <1>8 DEF CondConsume, CondAt, CondGoto, allVars, mVars
  <2>2. QED
    BY <1>1, <1>2, <2>1, InsideCond
<1>9. CASE CondSignal(t) \/ CondBcast(t)
  BY <1>1, <1>9, CondTells
<1>10. ASSUME NEW ms \in Durations \cup {0}, CondEventWait(t, ms)
       PROVE  CondInv'
  <2>1. /\ Running(t, "app") /\ ~pred /\ cpc' = [cpc EXCEPT ![t] = "waiting"] /\ UNCHANGED <<pred, queue, mpc>>
        /\ \A u \in Threads \ {t} : pc'[u] = pc[u]
    BY <1>1, <1>10 DEF CondEventWait, CondAt, CondGoto, EventWait, ForgetSignal, Goto, mVars, CondInv, CondPlaces, TypeOK
  <2>2. cond \in QueueIds
    BY CondAssumption DEF QueueIds
  <2>3. t \notin InQ(cond) /\ InQ(cond)' = InQ(cond) /\ \A u \in Threads \ {t} : ~Entering(u, cond)' /\ cpc'[u] = cpc[u] /\ cpc[u] \notin {"unlock", "unlocking"}
    BY <1>1, <2>1, <2>2, OneRuns DEF Entering, InQ, CondInv, CondPlaces, Running
  <2>4. CondPlaces'
    BY <1>1, <2>1, <2>3 DEF CondInv, CondPlaces
  <2>5. QED
    BY <1>1, <2>1, <2>4 DEF CondInv, CondTypeOK, CondLabels, Minded
<1>11. QED
  BY <1>3, <1>4, <1>5, <1>6, <1>7, <1>8, <1>9, <1>10 DEF CondDoes, CondStep, CondUse, CondContinue, CondCall

\* A thread about to act on a queue it notifies goes on to do so.
LEMMA NotifyStays ==
    ASSUME Cooperative, KInv, [IpcNext]_ipcVars, NEW t \in Threads, Running(t, "notify")
    PROVE  Running(t, "notify")' \/ Running(t, "app")'
<1>1. CoopInv
  BY DEF KInv
<1>2. CASE Kernel
  BY <1>1, <1>2, KernelWaits DEF Course, Turn, Running, Aside
<1>3. CASE Interrupt \/ BusIrq \/ ExternalIrq \/ UNCHANGED ipcVars
  BY <1>1, <1>3, IpcQuiet DEF Running
<1>4. ASSUME NEW u \in Threads, CondDoes(u) \/ SemDoes(u) \/ IpmDoes(u) \/ BusStep(u) \/ Otherwise(u) \/ IrqStep(u)
      PROVE  FALSE
  BY <1>4, IpcRuns DEF Running
<1>5. QED
  BY <1>2, <1>3, <1>4 DEF IpcNext, CondDoes, SemDoes, IpmDoes

\* Who is inside condition.c makes no other call.
LEMMA CondStays ==
    ASSUME Cooperative, KInv, CondInv, [IpcNext]_ipcVars, NEW t \in Threads, ~CondDoes(t), cpc[t] # "out", Running(t, "app")
    PROVE  Running(t, "app")'
<1>1. uses = "cond" /\ ~sready /\ \A u \in Threads : spc[u] = "out" /\ ipc[u] = "out"
  BY DEF KInv, UsesInv, CondInv, CondPlaces
<1>2. ~BusStep(t) /\ ~Otherwise(t) /\ ~IrqStep(t)
  BY <1>1 DEF BusStep, Otherwise, IrqStep
<1>3. ~SemDoes(t)
  BY <1>1 DEF SemDoes, SemStep, SemUse, SemContinue, SemWaitStore, SemWaitBlock, SemWaitReturn, SemSignalStore, SemSignalNotify,
     SemSignalReturn, SemAt
<1>4. ~IpmDoes(t)
  BY <1>1 DEF IpmDoes, IpmStep, IpmUse, IpmContinue, IpmPostSlot, IpmPostFill, IpmPostNotify, IpmGetWait, IpmGetAgain, IpmGetNotify,
     IpmNotified, IpmAt
<1>5. QED
  BY <1>2, <1>3, <1>4, IpcStays

MutexLabels == mpc \in [Threads -> MLabels]

\* The labels of the mutex, whoever uses it
LEMMA IpcMutexLabels ==
    ASSUME MutexLabels, [IpcNext]_ipcVars
    PROVE  MutexLabels'
<1>1. UNCHANGED mVars \/ \E t \in Threads : LockEnter(t) \/ MContinue(t) \/ Unlock(t)
  BY DEF IpcNext, ipcVars, allVars, BusIrq, ExternalIrq, IrqStep, CondStep, CondUse, CondContinue, CondCall, CondUnlock, CondLock,
     CondReturn, CondEventWait, CondWait, CondSignal, CondBcast, CondConsume, SemStep, SemUse, IpmStep, IpmUse, Otherwise,
     BusStep, BusContinue, BusLock, BusUnlock, BusReturn, I2cStep, SpiStep, RxStep, I2cStart, SpiStart, RxStart, Starts, BusTimedOut, BusDone, BusWait
<1>2. ASSUME NEW t \in Threads, LockEnter(t) \/ MContinue(t) \/ Unlock(t)
      PROVE  mpc' \in [Threads -> MLabels]
  BY <1>2 DEF MutexLabels, MLabels, LockEnter, MContinue, LockPass, LockWait, LockTake, Unlock, UnlockOwner, UnlockNotify, UnlockEnable, MGoto, mVars
<1>3. QED
  BY <1>1, <1>2 DEF mVars, MutexLabels

\* Every step keeps it.
LEMMA CondNext ==
    ASSUME Cooperative, KInv, MutexLabels, CondInv, [IpcNext]_ipcVars
    PROVE  CondInv'
<1>1. CoopInv /\ CoopInv' /\ uses' = uses
  BY KNext DEF KInv, IpcNext, ipcVars
<1>2. CASE \E t \in Threads : CondDoes(t)
  BY <1>1, <1>2, CondKeeps DEF MutexLabels
<1>3. CASE ~\E t \in Threads : CondDoes(t)
  <2>1. UNCHANGED condVars
    BY <1>3 DEF IpcNext, ipcVars, BusIrq, ExternalIrq, IrqStep, SemStep, SemUse, IpmStep, IpmUse, BusStep, Otherwise, CondDoes
  <2>2. Tame(cond)
    <3>1. cond \in Queues /\ cond \notin BusQueues /\ cond # sem /\ cond # ipm
      BY CondAssumption, OwnQueueAssumption DEF BusQueues
    <3>2. QED
      BY <1>3, <3>1, IpcTame
  <2>3. ASSUME NEW t \in Threads, cpc[t] = "unlocking"
        PROVE  mpc' = mpc
    <3>1. uses = "cond"
      BY <2>3 DEF CondInv, CondPlaces
    <3>2. QED
      BY <1>3, <3>1 DEF IpcNext, ipcVars, allVars, mVars, BusIrq, ExternalIrq, IrqStep, SemStep, SemUse, IpmStep, IpmUse, BusStep, Otherwise, CondDoes
  <2>4. \A t \in Threads : cpc[t] # "out" /\ Running(t, "app") => Running(t, "app")'
    BY <1>3, CondStays
  <2>5. \A t \in Threads : cpc[t] = "unlock" => Running(t, "app")'
    BY <2>4 DEF CondInv, CondPlaces
  <2>6. \A t \in Threads : cpc[t] = "unlocking" => /\ mpc'[t] \notin {"lock_test", "lock_take"}
                                                   /\ Running(t, "app")' \/ Running(t, "notify")'
    BY <2>3, <2>4, NotifyStays DEF CondInv, CondPlaces
  <2>7. QED
    <3>1. CondUnlocks'
      BY <2>1, <2>5, <2>6 DEF CondUnlocks, condVars, Running
    <3>2. QED
      BY <1>1, <2>1, <2>2, <3>1, TameCond
<1>4. QED
  BY <1>2, <1>3

\* condition_wait of the cooperative kernel misses no signal between its unlock
\* and its place in the queue, and none goes to a thread that will not look at
\* the predicate again.
THEOREM NoSignalLost ==
    ASSUME Cooperative
    PROVE  IpcSpec => []CondNoLostSignal
<1>1. IpcInit => CondInv /\ MutexLabels
  <2>1. SUFFICES ASSUME IpcInit PROVE CondInv /\ MutexLabels
    OBVIOUS
  <2>2. /\ queue = [q \in QueueIds |-> <<>>] /\ cond \in QueueIds /\ \A t \in Threads : pc[t] \in {"app", "idle"}
        /\ cpc = [t \in Threads |-> "out"] /\ pred = FALSE
        /\ count = 0 /\ owner = NULL /\ mpc = [t \in Threads |-> "out"]
    BY <2>1, CondAssumption DEF IpcInit, MInit, Init, CondBegin, QueueIds
  <2>3. queue[cond] = <<>> /\ InQ(cond) = {}
    BY <2>2 DEF InQ, ToSet
  <2>4. CondTypeOK /\ MutexLabels
    BY <2>2 DEF CondTypeOK, CondLabels, MutexLabels, MLabels
  <2>5. \A t \in Threads : cpc[t] = "out" /\ ~Entering(t, cond)
    BY <2>2 DEF Entering
  <2>6. QED
    BY <2>3, <2>4, <2>5 DEF CondInv, CondPlaces, Minded
<1>2. CondInv => CondNoLostSignal
  BY DEF CondInv, Minded, Minds, CondNoLostSignal, InQ, Notifying, Broadcasting
<1>3. KInv /\ MutexLabels /\ CondInv /\ [IpcNext]_ipcVars => CondInv'
  BY CondNext
<1>4. MutexLabels /\ [IpcNext]_ipcVars => MutexLabels'
  BY IpcMutexLabels
<1>5. QED
  BY <1>1, <1>2, <1>3, <1>4, KAlways, PTL DEF IpcSpec

----------------------------------------------------------------------------
(* The semaphore *)

SemTypeOK ==
    /\ value \in Int /\ sready \in BOOLEAN
    /\ sreg \in [Threads -> Int] /\ spc \in [Threads -> SemLabels]

\* Between the load of the counter and what follows its store no other thread
\* gets the processor.
SemCallers ==
    \A t \in Threads :
        /\ spc[t] \in {"wait_store", "wait_block", "signal_store", "signal_notify"} => Running(t, "app")
        /\ spc[t] = "signalled" => Running(t, "app") \/ (Running(t, "notify") /\ arg[t].q = sem)
        /\ spc[t] = "waiting" => pc[t] \in {"ev_enqueue", "ev_return", "app"}

SemPlaces ==
    \A t \in Threads :
        /\ spc[t] \in {"wait_store", "signal_store"} => sreg[t] = value
        /\ Entering(t, sem) => spc[t] = "waiting"
        /\ t \in InQ(sem) => spc[t] = "waiting"

\* Who has taken a unit off the counter, or off the units to come
Taken == {t \in Threads : spc[t] \in {"wait_block", "waiting", "held", "signal_store"}}

Counted == sready => value = SemValue - Cardinality(Taken)

\* Nobody waits, or is about to, unless all units are in use.
Waited == \E t \in Threads : t \in InQ(sem) \/ Entering(t, sem) \/ spc[t] = "wait_block"
Served == Waited => Cardinality(SemHolders) >= SemValue

SemInv == SemTypeOK /\ SemCallers /\ SemPlaces /\ Counted /\ Served

\* Counting sets of threads
LEMMA ThreadSets ==
    ASSUME NEW S \in SUBSET Threads, NEW T \in SUBSET Threads
    PROVE  /\ Cardinality(S) \in Nat /\ Cardinality(T) \in Nat
           /\ S \subseteq T => Cardinality(S) <= Cardinality(T)
           /\ S \subseteq T /\ S # T => Cardinality(S) < Cardinality(T)
           /\ \A x : x \notin S /\ T = S \cup {x} => Cardinality(T) = Cardinality(S) + 1
           /\ \A x, y : y \notin S /\ S \ {x} \subseteq T /\ y \in T => Cardinality(S) <= Cardinality(T)
<1>1. IsFiniteSet(S) /\ IsFiniteSet(T)
  BY SemAssumption, FS_Subset
<1>2. Cardinality(S) \in Nat /\ Cardinality(T) \in Nat
  BY <1>1, FS_CardinalityType
<1>3. S \subseteq T => Cardinality(S) <= Cardinality(T) /\ (S # T => Cardinality(S) # Cardinality(T))
  <2>1. ASSUME S \subseteq T
        PROVE  Cardinality(S) <= Cardinality(T) /\ (S # T => Cardinality(S) # Cardinality(T))
    BY <1>1, <2>1, FS_Subset
  <2>2. QED
    BY <2>1
<1>4. \A x : x \notin S /\ T = S \cup {x} => Cardinality(T) = Cardinality(S) + 1
  BY <1>1, FS_AddElement
<1>5. ASSUME NEW x, NEW y, y \notin S, S \ {x} \subseteq T, y \in T
      PROVE  Cardinality(S) <= Cardinality(T)
  <2>1. IsFiniteSet(S \ {x}) /\ (Cardinality(S \ {x}) = Cardinality(S) - 1 \/ Cardinality(S \ {x}) = Cardinality(S))
    BY <1>1, FS_RemoveElement
  <2>2. y \notin S \ {x} /\ (S \ {x}) \cup {y} \subseteq T
    BY <1>5
  <2>3. Cardinality((S \ {x}) \cup {y}) = Cardinality(S \ {x}) + 1
    BY <2>1, <2>2, FS_AddElement
  <2>4. Cardinality((S \ {x}) \cup {y}) <= Cardinality(T)
    BY <1>1, <2>2, FS_Subset
  <2>5. QED
    BY <1>2, <2>1, <2>3, <2>4
<1>6. QED
  BY <1>2, <1>3, <1>4, <1>5

\* A step that leaves the semaphore alone
LEMMA TameSem ==
    ASSUME CoopInv, CoopInv', SemInv, Tame(sem), UNCHANGED semVars, SemCallers',
           \A t \in Threads : spc[t] = "waiting" /\ pc'[t] = "ev_enqueue" => pc[t] = "ev_enqueue"
    PROVE  SemInv'
<1>1. sem \in QueueIds /\ queue[sem] \in Seq(Threads)
  BY SemAssumption DEF CoopInv, TypeOK, QueueIds
<1>2. UNCHANGED <<value, sready, sreg, spc>>
  BY DEF semVars
<1>3. SemTypeOK' /\ Counted'
  BY <1>2 DEF SemInv, SemTypeOK, Counted, Taken
<1>4. SemPlaces'
  BY <1>2 DEF SemInv, SemPlaces, Tame, Entering
<1>5. ASSUME Waited'
      PROVE  Cardinality(SemHolders') >= SemValue
  <2>1. Waited
    BY <1>2, <1>5 DEF Waited, Tame, Entering
  <2>2. Cardinality(SemHolders) >= SemValue /\ SemHolders \in SUBSET Threads /\ SemHolders' \in SUBSET Threads /\ SemValue \in Nat
    BY <2>1, SemAssumption DEF SemInv, Served, SemHolders
  <2>3. ASSUME NEW u \in SemHolders, u \notin SemHolders'
        PROVE  Running(u, "notify") /\ Notifying(u, sem) /\ ~Notifying(u, sem)'
    <3>1. spc[u] \notin {"held", "signal_store", "signal_notify"}
      BY <1>2, <2>3 DEF SemHolders
    <3>2. spc[u] # "waiting"
      BY <1>2, <2>3 DEF SemHolders, Tame, InQ
    <3>3. spc[u] = "signalled" /\ pc[u] = "notify" /\ pc'[u] # "notify"
      BY <1>2, <2>3, <3>1, <3>2 DEF SemHolders
    <3>4. QED
      BY <2>2, <2>3, <3>3 DEF SemInv, SemCallers, Notifying, Running
  <2>4. CASE SemHolders \subseteq SemHolders'
    BY <2>2, <2>4, ThreadSets
  <2>5. CASE ~(SemHolders \subseteq SemHolders')
    <3>1. PICK n \in SemHolders : n \notin SemHolders'
      BY <2>5
    <3>2. n \in Threads /\ Running(n, "notify") /\ Notifying(n, sem) /\ ~Notifying(n, sem)'
      BY <2>2, <2>3, <3>1
    <3>3. \A u \in Threads : Running(u, "notify") => u = n
      BY <3>2 DEF Running
    <3>4. SemHolders \ {n} \subseteq SemHolders'
      BY <2>2, <2>3, <3>3
    <3>5. \A u \in Threads : pc[u] \notin {"ev_check", "ev_enqueue"} /\ spc[u] # "wait_block"
      BY <3>2 DEF CoopInv, ControlInv, Outside, Running, SemInv, SemCallers
    <3>6. InQ(sem) # {} /\ queue[sem] # <<>>
      BY <1>1, <2>1, <3>5, EmptyList DEF Waited, Entering, InQ
    <3>7. PICK w \in Threads : w \in InQ(sem) /\ w \notin InQ(sem)'
      BY <3>2, <3>6 DEF Tame
    <3>8. spc[w] = "waiting" /\ pc'[w] # "ev_enqueue"
      BY <3>5, <3>7 DEF SemInv, SemPlaces
    <3>9. w \notin SemHolders /\ w \in SemHolders'
      BY <1>2, <3>7, <3>8 DEF SemHolders, InQ
    <3>10. QED
      <4>1. Cardinality(SemHolders) <= Cardinality(SemHolders')
        BY <2>2, <3>4, <3>9, ThreadSets
      <4>2. Cardinality(SemHolders) \in Nat /\ Cardinality(SemHolders') \in Nat
        BY <2>2, ThreadSets
      <4>3. QED
        BY <2>2, <4>1, <4>2
  <2>6. QED
    BY <2>4, <2>5
<1>6. QED
  BY <1>3, <1>4, <1>5 DEF SemInv, Served

\* A step of semaphore.c that calls nobody
LEMMA InsideSem ==
    ASSUME CoopInv, SemInv, NEW t \in Threads, Running(t, "app"), UNCHANGED <<current, sc, pc, arg, queue>>,
           SemTypeOK', NEW l \in SemLabels \ {"waiting"}, spc' = [spc EXCEPT ![t] = l],
           \A u \in Threads \ {t} : sreg'[u] = sreg[u],
           l \in {"wait_store", "signal_store"} => sreg'[t] = value', Counted', Served'
    PROVE  SemInv'
<1>1. sem \in QueueIds
  BY SemAssumption DEF QueueIds
<1>2. t \notin InQ(sem) /\ InQ(sem)' = InQ(sem) /\ \A u \in Threads : ~Entering(u, sem)'
  BY <1>1, OneRuns DEF Entering, InQ
<1>3. spc'[t] = l /\ \A u \in Threads \ {t} : spc'[u] = spc[u]
  BY DEF SemInv, SemTypeOK
<1>4. Running(t, "app")' /\ \A u \in Threads \ {t}, lb \in {"app", "notify"} : ~Running(u, lb)
  BY DEF Running
<1>5. SemCallers'
  BY <1>3, <1>4 DEF SemInv, SemCallers
<1>6. SemPlaces'
  BY <1>2, <1>3, <1>4 DEF SemInv, SemPlaces, SemCallers
<1>7. QED
  BY <1>5, <1>6 DEF SemInv

\* While a thread runs outside the scheduler, who holds a unit and who has taken one
LEMMA HoldersOutside ==
    ASSUME CoopInv, SemInv, NEW t \in Threads, Running(t, "app")
    PROVE  /\ Taken \in SUBSET Threads /\ SemHolders \in SUBSET Threads
           /\ \A u \in Threads : u \in SemHolders <=> \/ spc[u] \in {"held", "signal_store", "signal_notify"}
                                                      \/ spc[u] = "waiting" /\ u \notin InQ(sem)
           /\ \A u \in Threads : Entering(u, sem) => FALSE
           /\ t \notin InQ(sem)
           /\ \A u \in Threads \ {t} : spc[u] \notin {"wait_store", "wait_block", "signal_store", "signal_notify", "signalled"}
<1>1. sem \in QueueIds
  BY SemAssumption DEF QueueIds
<1>2. \A u \in Threads : pc[u] \notin {"ev_check", "ev_enqueue", "notify"}
  BY OneRuns
<1>3. \A u \in Threads \ {t}, lb \in {"app", "notify"} : ~Running(u, lb)
  BY DEF Running
<1>4. QED
  BY <1>1, <1>2, <1>3, OneRuns DEF Taken, SemHolders, InQ, Entering, SemInv, SemCallers

\* And after a step that calls nobody
LEMMA HoldersAfter ==
    ASSUME CoopInv, SemInv, NEW t \in Threads, Running(t, "app"), UNCHANGED <<current, sc, pc, arg, queue>>,
           NEW l \in SemLabels \ {"waiting"}, spc' = [spc EXCEPT ![t] = l]
    PROVE  /\ Taken' = (Taken \ {t}) \cup IF l \in {"wait_block", "held", "signal_store"} THEN {t} ELSE {}
           /\ SemHolders' = (SemHolders \ {t}) \cup IF l \in {"held", "signal_store", "signal_notify"} THEN {t} ELSE {}
           /\ Waited' <=> queue[sem] # <<>> \/ l = "wait_block"
           /\ queue[sem] # <<>> => Waited /\ InQ(sem) # {}
<1>1. /\ sem \in QueueIds /\ queue[sem] \in Seq(Threads) /\ pc[t] = "app"
      /\ \A u \in Threads : pc[u] \notin {"ev_check", "ev_enqueue", "notify"}
  BY SemAssumption, OneRuns DEF CoopInv, TypeOK, QueueIds, Running
<1>2. spc'[t] = l /\ \A u \in Threads \ {t} : spc'[u] = spc[u]
  BY DEF SemInv, SemTypeOK
<1>3. (queue[sem] = <<>> <=> InQ(sem) = {}) /\ InQ(sem) \subseteq Threads
  BY <1>1, EmptyList DEF InQ
<1>4. \A u \in Threads \ {t} : spc[u] # "wait_block"
  BY HoldersOutside
<1>5. Waited' <=> queue[sem] # <<>> \/ l = "wait_block"
  BY <1>1, <1>2, <1>3, <1>4 DEF Waited, InQ, Entering
<1>6. Taken' = (Taken \ {t}) \cup IF l \in {"wait_block", "held", "signal_store"} THEN {t} ELSE {}
  BY <1>2 DEF Taken
<1>7. SemHolders' = (SemHolders \ {t}) \cup IF l \in {"held", "signal_store", "signal_notify"} THEN {t} ELSE {}
  BY <1>1, <1>2 DEF SemHolders
<1>8. QED
  BY <1>3, <1>5, <1>6, <1>7 DEF Waited

\* Whoever goes on to "wait_store" or out of the code has no unit,
LEMMA HoldersLess ==
    ASSUME CoopInv, SemInv, NEW t \in Threads, Running(t, "app"), UNCHANGED <<current, sc, pc, arg, queue>>,
           NEW l \in SemLabels \ {"waiting"}, spc' = [spc EXCEPT ![t] = l], l \in {"wait_store", "out"}
    PROVE  Taken' = Taken \ {t} /\ SemHolders' = SemHolders \ {t} /\ (Waited' => Waited)
<1>1. l \notin {"wait_block", "held", "signal_store", "signal_notify"}
  OBVIOUS
<1>2. QED
  BY <1>1, HoldersAfter

\* and whoever has one and goes on to give it back has it still.
LEMMA HoldersKept ==
    ASSUME CoopInv, SemInv, NEW t \in Threads, Running(t, "app"), UNCHANGED <<current, sc, pc, arg, queue>>,
           NEW l \in SemLabels \ {"waiting"}, spc' = [spc EXCEPT ![t] = l], l \in {"held", "signal_store"}
    PROVE  Taken' = (Taken \ {t}) \cup {t} /\ SemHolders' = (SemHolders \ {t}) \cup {t} /\ (Waited' => Waited)
<1>1. l # "wait_block"
  OBVIOUS
<1>2. QED
  BY <1>1, HoldersAfter

\* sem_wait and its store of the counter
LEMMA SemWaits ==
    ASSUME CoopInv, SemInv, NEW t \in Threads, sready, SemWait(t) \/ SemWaitStore(t) \/ SemWaitReturn(t)
    PROVE  SemInv'
<1>1. UNCHANGED vars => UNCHANGED <<current, sc, pc, arg, queue>>
  BY DEF vars, rqVars, callVars, evVars
<1>2. Running(t, "app") /\ UNCHANGED <<current, sc, pc, arg, queue>> /\ sready' = sready
  BY <1>1 DEF SemWait, SemWaitStore, SemWaitReturn, Calls, SemAt
<1>3. /\ SemTypeOK /\ SemValue \in Nat /\ value = SemValue - Cardinality(Taken) /\ (Waited => Cardinality(SemHolders) >= SemValue)
      /\ Taken \in SUBSET Threads /\ SemHolders \in SUBSET Threads /\ Taken' \in SUBSET Threads /\ SemHolders' \in SUBSET Threads
  BY SemAssumption DEF SemInv, Counted, Served, Taken, SemHolders
<1>4. Cardinality(Taken) \in Nat /\ Cardinality(SemHolders) \in Nat
  BY <1>3, ThreadSets
<1>5. CASE SemWait(t)
  <2>1. /\ spc[t] = "out" /\ spc' = [spc EXCEPT ![t] = "wait_store"] /\ value' = value /\ sreg' = [sreg EXCEPT ![t] = value]
        /\ "wait_store" \in SemLabels \ {"waiting"}
    BY <1>5 DEF SemWait, SemGoto, SemLabels
  <2>2. Taken' = Taken \ {t} /\ SemHolders' = SemHolders \ {t} /\ (Waited' => Waited)
    <3>1. spc' = [spc EXCEPT ![t] = "wait_store"] /\ "wait_store" \in SemLabels \ {"waiting"} /\ "wait_store" \in {"wait_store", "out"}
      BY <2>1
    <3>2. QED
      BY <1>2, <3>1, HoldersLess
  <2>3. t \notin Taken /\ t \notin SemHolders
    BY <1>2, <2>1, HoldersOutside DEF Taken
  <2>4. Counted' /\ Served'
    <3>1. Taken' = Taken /\ SemHolders' = SemHolders
      BY <2>2, <2>3
    <3>2. QED
      BY <1>2, <1>3, <2>1, <2>2, <3>1 DEF Counted, Served
  <2>5. SemTypeOK' /\ sreg'[t] = value' /\ \A u \in Threads \ {t} : sreg'[u] = sreg[u]
    BY <1>2, <1>3, <2>1 DEF SemTypeOK
  <2>6. QED
    BY <1>2, <2>1, <2>4, <2>5, InsideSem
<1>6. CASE SemWaitStore(t)
  <2>1. spc[t] = "wait_store" /\ sreg[t] = value /\ value' = value - 1 /\ sreg' = sreg
    BY <1>6 DEF SemWaitStore, SemAt, SemInv, SemPlaces
  <2>2. PICK l \in {"wait_block", "held"} : spc' = [spc EXCEPT ![t] = l] /\ (l = "wait_block" => value - 1 < 0)
    BY <1>6, <2>1 DEF SemWaitStore, SemGoto
  <2>3. l \in SemLabels \ {"waiting"}
    BY DEF SemLabels
  <2>4. /\ Taken' = Taken \cup {t} /\ t \notin Taken /\ t \notin SemHolders
        /\ SemHolders \subseteq SemHolders' /\ (Waited' <=> queue[sem] # <<>> \/ l = "wait_block") /\ (queue[sem] # <<>> => Waited)
    BY <1>2, <2>1, <2>2, <2>3, HoldersAfter, HoldersOutside DEF Taken
  <2>5. Cardinality(Taken') = Cardinality(Taken) + 1 /\ Cardinality(SemHolders) <= Cardinality(SemHolders') /\ Cardinality(SemHolders') \in Nat
    BY <1>3, <2>4, ThreadSets
  <2>6. Counted'
    BY <1>2, <1>3, <1>4, <2>1, <2>5 DEF Counted
  <2>7. Served'
    <3>1. ASSUME queue[sem] = <<>>, l = "wait_block"
          PROVE  Cardinality(SemHolders) >= SemValue
      <4>1. \A u \in Threads : u \notin InQ(sem)
        <5>1. queue[sem] \in Seq(Threads)
          BY SemAssumption DEF CoopInv, TypeOK, QueueIds
        <5>2. QED
          BY <3>1, <5>1, EmptyList DEF InQ
      <4>2. Taken \subseteq SemHolders
        BY <1>2, <2>1, <4>1, HoldersOutside DEF Taken
      <4>3. Cardinality(Taken) <= Cardinality(SemHolders)
        BY <1>3, <4>2, ThreadSets
      <4>4. Cardinality(Taken) >= SemValue
        BY <1>3, <1>4, <2>2, <3>1
      <4>5. QED
        BY <1>3, <1>4, <4>3, <4>4
    <3>2. QED
      BY <1>3, <1>4, <2>4, <2>5, <3>1 DEF Served
  <2>8. SemTypeOK' /\ \A u \in Threads \ {t} : sreg'[u] = sreg[u]
    BY <1>2, <1>3, <2>1, <2>2, <2>3 DEF SemTypeOK
  <2>9. spc' = [spc EXCEPT ![t] = l] /\ (l \in {"wait_store", "signal_store"} => sreg'[t] = value')
    BY <2>2
  <2>10. Running(t, "app") /\ UNCHANGED <<current, sc, pc, arg, queue>>
    BY <1>2
  <2>11. QED
    BY <2>3, <2>6, <2>7, <2>8, <2>9, <2>10, InsideSem
<1>7. CASE SemWaitReturn(t)
  <2>1. spc[t] = "waiting" /\ spc' = [spc EXCEPT ![t] = "held"] /\ value' = value /\ sreg' = sreg /\ "held" \in SemLabels \ {"waiting"}
    BY <1>7 DEF SemWaitReturn, SemAt, SemGoto, SemLabels
  <2>2. t \in Taken /\ t \in SemHolders
    BY <1>2, <2>1, HoldersOutside DEF Taken
  <2>3. Taken' = Taken /\ SemHolders' = SemHolders /\ (Waited' => Waited)
    <3>1. Taken' = (Taken \ {t}) \cup {t} /\ SemHolders' = (SemHolders \ {t}) \cup {t} /\ (Waited' => Waited)
      <4>1. spc' = [spc EXCEPT ![t] = "held"] /\ "held" \in SemLabels \ {"waiting"} /\ "held" \in {"held", "signal_store"}
        BY <2>1
      <4>2. QED
        BY <1>2, <4>1, HoldersKept
    <3>2. QED
      BY <2>2, <3>1
  <2>4. Counted' /\ Served' /\ SemTypeOK'
    BY <1>2, <1>3, <2>1, <2>3 DEF Counted, Served, SemTypeOK
  <2>5. QED
    BY <1>2, <2>1, <2>4, InsideSem
<1>8. QED
  BY <1>5, <1>6, <1>7

\* sem_signal and its store of the counter
LEMMA SemSignals ==
    ASSUME CoopInv, SemInv, NEW t \in Threads, sready, SemSignal(t) \/ SemSignalStore(t) \/ SemSignalReturn(t)
    PROVE  SemInv'
<1>1. UNCHANGED vars => UNCHANGED <<current, sc, pc, arg, queue>>
  BY DEF vars, rqVars, callVars, evVars
<1>2. Running(t, "app") /\ UNCHANGED <<current, sc, pc, arg, queue>> /\ sready' = sready
  BY <1>1 DEF SemSignal, SemSignalStore, SemSignalReturn, SemAt
<1>3. /\ SemTypeOK /\ SemValue \in Nat /\ value = SemValue - Cardinality(Taken) /\ (Waited => Cardinality(SemHolders) >= SemValue)
      /\ Taken \in SUBSET Threads /\ SemHolders \in SUBSET Threads /\ Taken' \in SUBSET Threads /\ SemHolders' \in SUBSET Threads
  BY SemAssumption DEF SemInv, Counted, Served, Taken, SemHolders
<1>4. Cardinality(Taken) \in Nat /\ Cardinality(SemHolders) \in Nat
  BY <1>3, ThreadSets
<1>5. CASE SemSignal(t)
  <2>1. /\ spc[t] = "held" /\ spc' = [spc EXCEPT ![t] = "signal_store"] /\ value' = value /\ sreg' = [sreg EXCEPT ![t] = value]
        /\ "signal_store" \in SemLabels \ {"waiting"}
    BY <1>5 DEF SemSignal, SemAt, SemGoto, SemLabels
  <2>2. t \in Taken /\ t \in SemHolders
    BY <1>2, <2>1, HoldersOutside DEF Taken
  <2>3. Taken' = Taken /\ SemHolders' = SemHolders /\ (Waited' => Waited)
    <3>1. Taken' = (Taken \ {t}) \cup {t} /\ SemHolders' = (SemHolders \ {t}) \cup {t} /\ (Waited' => Waited)
      <4>1. spc' = [spc EXCEPT ![t] = "signal_store"] /\ "signal_store" \in SemLabels \ {"waiting"} /\ "signal_store" \in {"held", "signal_store"}
        BY <2>1
      <4>2. QED
        BY <1>2, <4>1, HoldersKept
    <3>2. QED
      BY <2>2, <3>1
  <2>4. Counted' /\ Served'
    BY <1>2, <1>3, <2>1, <2>3 DEF Counted, Served
  <2>5. SemTypeOK' /\ sreg'[t] = value' /\ \A u \in Threads \ {t} : sreg'[u] = sreg[u]
    BY <1>2, <1>3, <2>1 DEF SemTypeOK
  <2>6. QED
    BY <1>2, <2>1, <2>4, <2>5, InsideSem
<1>6. CASE SemSignalStore(t)
  <2>1. spc[t] = "signal_store" /\ sreg[t] = value /\ value' = value + 1 /\ sreg' = sreg
    BY <1>6 DEF SemSignalStore, SemAt, SemInv, SemPlaces
  <2>2. PICK l \in {"signal_notify", "out"} : spc' = [spc EXCEPT ![t] = l] /\ (l = "out" => value + 1 > 0)
    <3>1. spc' = [spc EXCEPT ![t] = IF value + 1 <= 0 THEN "signal_notify" ELSE "out"] /\ value \in Int
      BY <1>3, <1>6, <2>1 DEF SemSignalStore, SemGoto, SemTypeOK
    <3>2. CASE value + 1 <= 0
      BY <3>1, <3>2
    <3>3. CASE ~(value + 1 <= 0)
      <4>1. spc' = [spc EXCEPT ![t] = "out"] /\ value + 1 > 0
        BY <3>1, <3>3
      <4>2. QED
        BY <4>1
    <3>4. QED
      BY <3>2, <3>3
  <2>3. l \in SemLabels \ {"waiting"}
    BY DEF SemLabels
  <2>4. Taken' = Taken \ {t} /\ t \in Taken /\ t \in SemHolders
    BY <1>2, <2>1, <2>2, <2>3, HoldersAfter, HoldersOutside DEF Taken
  <2>5. Cardinality(Taken) = Cardinality(Taken') + 1 /\ Cardinality(Taken') \in Nat
    <3>1. t \notin Taken' /\ Taken = Taken' \cup {t}
      BY <2>4
    <3>2. QED
      BY <1>3, <3>1, ThreadSets
  <2>6. Counted'
    BY <1>2, <1>3, <1>4, <2>1, <2>5 DEF Counted
  <2>7. Served'
    <3>1. (Waited' <=> queue[sem] # <<>>) /\ (queue[sem] # <<>> => Waited /\ InQ(sem) # {})
      BY <1>2, <2>2, <2>3, HoldersAfter
    <3>2. CASE l = "signal_notify"
      <4>1. SemHolders' = (SemHolders \ {t}) \cup {t}
        BY <1>2, <2>2, <2>3, <3>2, HoldersAfter
      <4>2. SemHolders' = SemHolders
        BY <2>4, <4>1
      <4>3. QED
        BY <1>3, <3>1, <4>2 DEF Served
    <3>3. CASE l = "out" /\ queue[sem] # <<>>
      <4>1. SemHolders \subseteq Taken /\ \A u \in InQ(sem) : u \in Threads /\ u \in Taken /\ u \notin SemHolders
        <5>1. queue[sem] \in Seq(Threads)
          BY SemAssumption DEF CoopInv, TypeOK, QueueIds
        <5>2. \A u \in InQ(sem) : u \in Threads /\ spc[u] = "waiting"
          BY <5>1, EmptyList DEF InQ, SemInv, SemPlaces
        <5>3. QED
          BY <1>2, <1>3, <2>1, <5>2, HoldersOutside DEF Taken
      <4>2. SemHolders # Taken
        BY <3>1, <3>3, <4>1
      <4>3. Cardinality(SemHolders) < Cardinality(Taken)
        BY <1>3, <4>1, <4>2, ThreadSets
      <4>4. Cardinality(Taken) <= SemValue
        BY <1>3, <1>4, <2>2, <3>3
      <4>5. QED
        BY <1>3, <1>4, <3>1, <3>3, <4>3, <4>4
    <3>4. QED
      BY <3>1, <3>2, <3>3 DEF Served
  <2>8. SemTypeOK' /\ \A u \in Threads \ {t} : sreg'[u] = sreg[u]
    BY <1>2, <1>3, <2>1, <2>2, <2>3 DEF SemTypeOK
  <2>9. spc' = [spc EXCEPT ![t] = l] /\ (l \in {"wait_store", "signal_store"} => sreg'[t] = value')
    BY <2>2
  <2>10. Running(t, "app") /\ UNCHANGED <<current, sc, pc, arg, queue>>
    BY <1>2
  <2>11. QED
    BY <2>3, <2>6, <2>7, <2>8, <2>9, <2>10, InsideSem
<1>7. CASE SemSignalReturn(t)
  <2>1. spc[t] = "signalled" /\ spc' = [spc EXCEPT ![t] = "out"] /\ value' = value /\ sreg' = sreg /\ "out" \in SemLabels \ {"waiting"}
    BY <1>7 DEF SemSignalReturn, SemAt, SemGoto, SemLabels
  <2>2. Taken' = Taken \ {t} /\ SemHolders' = SemHolders \ {t} /\ (Waited' => Waited)
    <3>1. spc' = [spc EXCEPT ![t] = "out"] /\ "out" \in SemLabels \ {"waiting"} /\ "out" \in {"wait_store", "out"}
      BY <2>1
    <3>2. QED
      BY <1>2, <3>1, HoldersLess
  <2>3. t \notin Taken /\ t \notin SemHolders
    BY <1>2, <2>1, HoldersOutside DEF Taken
  <2>4. Counted' /\ Served' /\ SemTypeOK'
    <3>1. Taken' = Taken /\ SemHolders' = SemHolders
      BY <2>2, <2>3
    <3>2. QED
      BY <1>2, <1>3, <2>1, <2>2, <3>1 DEF Counted, Served, SemTypeOK
  <2>5. QED
    BY <1>2, <2>1, <2>4, InsideSem
<1>8. QED
  BY <1>5, <1>6, <1>7

\* sem_init comes before anybody waits.
LEMMA SemInits ==
    ASSUME CoopInv, SemInv, \A u \in Threads : spc[u] = "out", NEW t \in Threads, SemInit(t)
    PROVE  SemInv'
<1>1. /\ UNCHANGED <<queue, pc, arg, sreg, spc>> /\ value' = SemValue /\ sready' = TRUE /\ SemValue \in Nat
  BY SemAssumption DEF SemInit, rqVars, callVars
<1>2. Taken' = {} /\ Cardinality(Taken') = 0
  BY <1>1, FS_EmptySet DEF Taken
<1>3. SemTypeOK' /\ Counted'
  BY <1>1, <1>2 DEF SemInv, SemTypeOK, Counted
<1>4. SemPlaces' /\ SemCallers' /\ ~Waited'
  BY <1>1 DEF SemInv, SemPlaces, SemCallers, Waited, Entering, InQ
<1>5. QED
  BY <1>3, <1>4 DEF SemInv, Served

\* A thread that found no unit waits, or takes a signal that was there.
LEMMA SemBlocks ==
    ASSUME Cooperative, CoopInv, SemInv, NEW t \in Threads, SemWaitBlock(t)
    PROVE  SemInv'
<1>1. sem \in QueueIds /\ pc \in [Threads -> Labels] /\ spc \in [Threads -> SemLabels]
  BY SemAssumption DEF QueueIds, CoopInv, TypeOK, SemInv, SemTypeOK
<1>2. /\ Running(t, "app") /\ spc[t] = "wait_block" /\ spc' = [spc EXCEPT ![t] = "waiting"]
      /\ UNCHANGED <<queue, value, sready, sreg>>
      /\ pc'[t] \in {"app", "ev_enqueue"} /\ \A u \in Threads \ {t} : pc'[u] = pc[u] /\ arg'[u] = arg[u]
  BY <1>1 DEF SemWaitBlock, SemAt, SemGoto, RawEventWait, RawEventWaitCheck, Goto, Return, CoopInv, TypeOK
<1>3. spc'[t] = "waiting" /\ \A u \in Threads \ {t} : spc'[u] = spc[u]
  BY <1>1, <1>2
<1>4. /\ Taken \in SUBSET Threads /\ SemHolders \in SUBSET Threads /\ SemHolders' \in SUBSET Threads
      /\ \A u \in Threads : u \in SemHolders <=> \/ spc[u] \in {"held", "signal_store", "signal_notify"}
                                                 \/ spc[u] = "waiting" /\ u \notin InQ(sem)
      /\ \A u \in Threads : ~Entering(u, sem)
      /\ t \notin InQ(sem) /\ InQ(sem)' = InQ(sem)
      /\ \A u \in Threads \ {t} : spc[u] \notin {"wait_store", "wait_block", "signal_store", "signal_notify", "signalled"}
  BY <1>2, HoldersOutside DEF SemHolders, InQ
<1>5. SemTypeOK'
  BY <1>1, <1>2 DEF SemInv, SemTypeOK, SemLabels
<1>6. Counted'
  <2>1. Taken' = Taken
    BY <1>2, <1>3 DEF Taken
  <2>2. QED
    BY <1>2, <2>1 DEF SemInv, Counted
<1>7. SemCallers' /\ SemPlaces'
  BY <1>2, <1>3, <1>4 DEF SemInv, SemCallers, SemPlaces, Entering
<1>8. Served'
  <2>1. SemHolders \subseteq SemHolders'
    BY <1>2, <1>3, <1>4 DEF SemHolders, InQ, SemInv, SemCallers
  <2>2. Cardinality(SemHolders) >= SemValue
    BY <1>2 DEF SemInv, Served, Waited
  <2>3. /\ Cardinality(SemHolders) <= Cardinality(SemHolders')
        /\ Cardinality(SemHolders) \in Nat /\ Cardinality(SemHolders') \in Nat /\ SemValue \in Nat
    BY <1>4, <2>1, ThreadSets, SemAssumption
  <2>4. QED
    BY <2>2, <2>3 DEF Served
<1>9. QED
  BY <1>5, <1>6, <1>7, <1>8 DEF SemInv

\* A thread that gave a unit to somebody who waits calls event_notify.
LEMMA SemNotifies ==
    ASSUME CoopInv, SemInv, NEW t \in Threads, SemSignalNotify(t)
    PROVE  SemInv'
<1>1. sem \in QueueIds /\ ~irqExec /\ pc \in [Threads -> Labels] /\ arg \in [Threads -> Args] /\ spc \in [Threads -> SemLabels]
  BY SemAssumption DEF QueueIds, CoopInv, ControlInv, TypeOK, SemInv, SemTypeOK
<1>2. /\ Running(t, "app") /\ spc[t] = "signal_notify" /\ spc' = [spc EXCEPT ![t] = "signalled"]
      /\ UNCHANGED <<queue, current, sc, value, sready, sreg>> /\ pc' = [pc EXCEPT ![t] = "notify"] /\ arg'[t].q = sem
  <2>1. PICK h : pc' = [pc EXCEPT ![t] = "notify"] /\ arg' = [arg EXCEPT ![t].q = sem, ![t].head = h]
    BY <1>1 DEF SemSignalNotify, EventNotify, Goto
  <2>2. QED
    BY <1>1, <2>1 DEF Args, SemSignalNotify, SemAt, SemGoto, EventNotify, rqVars
<1>3. /\ pc'[t] = "notify" /\ spc'[t] = "signalled" /\ Running(t, "notify")'
      /\ \A u \in Threads \ {t} : pc'[u] = pc[u] /\ spc'[u] = spc[u]
  BY <1>1, <1>2 DEF Running
<1>4. /\ Taken \in SUBSET Threads /\ SemHolders \in SUBSET Threads
      /\ \A u \in Threads : u \in SemHolders <=> \/ spc[u] \in {"held", "signal_store", "signal_notify"}
                                                 \/ spc[u] = "waiting" /\ u \notin InQ(sem)
      /\ \A u \in Threads : pc[u] \notin {"ev_check", "ev_enqueue", "notify"}
      /\ t \notin InQ(sem) /\ InQ(sem)' = InQ(sem)
      /\ \A u \in Threads \ {t} : spc[u] \notin {"wait_store", "wait_block", "signal_store", "signal_notify", "signalled"}
  BY <1>2, HoldersOutside, OneRuns DEF InQ
<1>5. SemTypeOK'
  BY <1>1, <1>2 DEF SemInv, SemTypeOK, SemLabels
<1>6. Counted'
  <2>1. Taken' = Taken
    BY <1>2, <1>3 DEF Taken
  <2>2. QED
    BY <1>2, <2>1 DEF SemInv, Counted
<1>7. SemCallers' /\ SemPlaces'
  BY <1>2, <1>3, <1>4 DEF SemInv, SemCallers, SemPlaces, Entering
<1>8. Served'
  <2>1. SemHolders' = SemHolders
    BY <1>2, <1>3, <1>4 DEF SemHolders, InQ
  <2>2. Waited' => Waited
    BY <1>2, <1>3, <1>4 DEF Waited, Entering
  <2>3. QED
    BY <2>1, <2>2 DEF SemInv, Served
<1>9. QED
  BY <1>5, <1>6, <1>7, <1>8 DEF SemInv

\* The steps of semaphore.c keep it.
LEMMA SemKeeps ==
    ASSUME Cooperative, KInv, SemInv, NEW t \in Threads, SemDoes(t)
    PROVE  SemInv'
<1>1. CoopInv /\ (~sready => \A u \in Threads : spc[u] = "out")
  BY DEF KInv, UsesInv
<1>2. CASE SemInit(t)
  <2>1. \A u \in Threads : spc[u] = "out"
    BY <1>1, <1>2 DEF SemInit
  <2>2. QED
    BY <1>1, <1>2, <2>1, SemInits
<1>3. CASE SemWaitBlock(t)
  BY <1>1, <1>3, SemBlocks
<1>4. CASE SemSignalNotify(t)
  BY <1>1, <1>4, SemNotifies
<1>5. CASE SemWait(t) \/ SemTryWait(t) \/ SemWaitStore(t) \/ SemWaitReturn(t)
  <2>1. sready /\ (SemWait(t) \/ SemWaitStore(t) \/ SemWaitReturn(t))
    BY <1>1, <1>5 DEF SemTryWait, SemWait, SemWaitStore, SemWaitReturn, SemAt
  <2>2. QED
    BY <1>1, <2>1, SemWaits
<1>6. CASE SemSignal(t) \/ SemSignalStore(t) \/ SemSignalReturn(t)
  <2>1. sready
    BY <1>1, <1>6 DEF SemSignal, SemSignalStore, SemSignalReturn, SemAt
  <2>2. QED
    BY <1>1, <1>6, <2>1, SemSignals
<1>7. QED
  BY <1>2, <1>3, <1>4, <1>5, <1>6 DEF SemDoes, SemStep, SemUse, SemContinue, SemCall

\* While a thread is inside semaphore.c the steps of the others and of the
\* kernel take it only where the kernel lets it go.
LEMMA SemStays ==
    ASSUME Cooperative, KInv, SemInv, [IpcNext]_ipcVars, NEW t \in Threads, ~\E u \in Threads : SemDoes(u), spc[t] \notin {"out", "held"}
    PROVE  /\ Running(t, "app") => Running(t, "app")'
           /\ spc[t] = "waiting" => pc'[t] \in {"ev_enqueue", "ev_return", "app"} /\ (pc'[t] = "ev_enqueue" => pc[t] = "ev_enqueue")
           /\ Running(t, "notify") => Running(t, "app")' \/ (Running(t, "notify")' /\ arg'[t].q = arg[t].q)
<1>1. CoopInv /\ uses = "sem" /\ TypeOK
  BY DEF KInv, UsesInv, CoopInv
<1>2. \A u \in Threads : ipc[u] = "out" /\ ~CondDoes(u) /\ ~BusStep(u) /\ ~IrqStep(u) /\ ~(Otherwise(u) /\ u = t)
  BY <1>1 DEF CondDoes, CondStep, CondUse, BusStep, Otherwise, IrqStep, KInv, UsesInv
<1>3. \A u \in Threads : ~IpmDoes(u)
  BY <1>1, <1>2 DEF IpmDoes, IpmStep, IpmUse, IpmContinue, IpmPostSlot, IpmPostFill, IpmPostNotify, IpmGetWait, IpmGetAgain, IpmGetNotify,
     IpmNotified, IpmAt
<1>4. Running(t, "app") => Running(t, "app")'
  BY <1>2, <1>3, IpcStays
<1>5. CASE Kernel
  <2>1. spc[t] = "waiting" => pc[t] \in {"ev_enqueue", "ev_return", "app"}
    BY DEF SemInv, SemCallers
  <2>2. Waiters(current) /\ Course(current)
    BY <1>1, <1>5, KernelWaits
  <2>3. spc[t] = "waiting" => pc'[t] \in {"ev_enqueue", "ev_return", "app"} /\ (pc'[t] = "ev_enqueue" => pc[t] = "ev_enqueue")
    BY <2>1, <2>2 DEF Waiters, Course, Turn, Aside
  <2>4. Running(t, "notify") => Running(t, "app")' \/ (Running(t, "notify")' /\ arg'[t].q = arg[t].q)
    BY <2>2 DEF Course, Turn, Running, Aside
  <2>5. QED
    BY <1>4, <2>3, <2>4
<1>6. CASE Interrupt \/ BusIrq \/ ExternalIrq \/ UNCHANGED ipcVars
  BY <1>1, <1>4, <1>6, IpcQuiet DEF SemInv, SemCallers, Running
<1>7. ASSUME NEW u \in Threads, Otherwise(u), u # t
      PROVE  /\ pc'[t] = pc[t] /\ ~Running(t, "notify")
  <2>1. Running(u, "app")
    BY <1>7, IpcRuns
  <2>2. pc'[t] = pc[t]
    BY <1>1, <1>7 DEF Otherwise, Yield, ThreadCreate, Goto, callVars, TypeOK
  <2>3. QED
    BY <1>7, <2>1, <2>2 DEF Running
<1>8. CASE \E u \in Threads : Otherwise(u)
  BY <1>2, <1>4, <1>7, <1>8 DEF SemInv, SemCallers
<1>9. QED
  BY <1>2, <1>3, <1>5, <1>6, <1>8 DEF IpcNext, CondDoes, SemDoes, IpmDoes

\* Every step keeps it.
LEMMA SemNext ==
    ASSUME Cooperative, KInv, SemInv, [IpcNext]_ipcVars
    PROVE  SemInv'
<1>1. CoopInv /\ CoopInv'
  BY KNext DEF KInv
<1>2. CASE \E t \in Threads : SemDoes(t)
  BY <1>2, SemKeeps
<1>3. CASE ~\E t \in Threads : SemDoes(t)
  <2>1. UNCHANGED semVars
    BY <1>3 DEF IpcNext, ipcVars, BusIrq, ExternalIrq, IrqStep, CondStep, CondUse, IpmStep, IpmUse, BusStep, Otherwise, SemDoes
  <2>2. Tame(sem)
    <3>1. sem \in Queues /\ sem \notin CondQueues /\ sem \notin BusQueues /\ sem # ipm
      BY SemAssumption, OwnQueueAssumption DEF CondQueues, BusQueues
    <3>2. QED
      BY <1>3, <3>1, IpcTame
  <2>3. SemCallers'
    BY <1>3, <2>1, SemStays DEF SemInv, SemCallers, semVars
  <2>4. \A t \in Threads : spc[t] = "waiting" /\ pc'[t] = "ev_enqueue" => pc[t] = "ev_enqueue"
    BY <1>3, SemStays
  <2>5. QED
    BY <1>1, <2>1, <2>2, <2>3, <2>4, TameSem
<1>4. QED
  BY <1>2, <1>3

\* sem_wait and sem_signal of the cooperative kernel, for any number of threads
\* and any initial value: although the counter has no lock, no thread waits
\* while fewer threads than there are units have been let through.
THEOREM NoUnitIdle ==
    ASSUME Cooperative
    PROVE  IpcSpec => []SemNoIdleUnit
<1>1. IpcInit => SemInv
  <2>1. SUFFICES ASSUME IpcInit PROVE SemInv
    OBVIOUS
  <2>2. /\ queue = [q \in QueueIds |-> <<>>] /\ sem \in QueueIds /\ \A t \in Threads : pc[t] \in {"app", "idle"}
        /\ value = 0 /\ sready = FALSE /\ sreg = [t \in Threads |-> 0] /\ spc = [t \in Threads |-> "out"]
    BY <2>1, SemAssumption DEF IpcInit, MInit, Init, SemBegin, QueueIds
  <2>3. queue[sem] = <<>> /\ InQ(sem) = {}
    BY <2>2 DEF InQ, ToSet
  <2>4. SemTypeOK /\ Counted
    <3>1. sready \in BOOLEAN /\ Counted
      BY <2>2 DEF Counted
    <3>2. value \in Int /\ sreg \in [Threads -> Int] /\ spc \in [Threads -> SemLabels]
      BY <2>2 DEF SemLabels
    <3>3. QED
      BY <3>1, <3>2 DEF SemTypeOK
  <2>5. \A t \in Threads : spc[t] = "out" /\ ~Entering(t, sem)
    BY <2>2 DEF Entering
  <2>6. SemPlaces /\ SemCallers
    BY <2>3, <2>5 DEF SemPlaces, SemCallers
  <2>7. ~Waited
    BY <2>3, <2>5 DEF Waited
  <2>8. QED
    BY <2>4, <2>6, <2>7 DEF SemInv, Served
<1>2. KInv /\ SemInv => SemNoIdleUnit
  <2>1. SUFFICES ASSUME KInv, SemInv, queue[sem] # <<>> PROVE Cardinality(SemHolders) >= SemValue
    BY DEF SemNoIdleUnit
  <2>2. queue[sem] \in Seq(Threads)
    BY <2>1, SemAssumption DEF KInv, CoopInv, TypeOK, QueueIds
  <2>3. InQ(sem) # {} /\ InQ(sem) \subseteq Threads
    <3>1. (queue[sem] = <<>> <=> InQ(sem) = {}) /\ InQ(sem) \subseteq Threads
      BY <2>2, EmptyList DEF InQ
    <3>2. QED
      BY <2>1, <3>1
  <2>4. Waited
    BY <2>3 DEF Waited
  <2>5. QED
    BY <2>1, <2>4 DEF SemInv, Served
<1>3. KInv /\ SemInv /\ [IpcNext]_ipcVars => SemInv'
  BY SemNext
<1>4. QED
  BY <1>1, <1>2, <1>3, KAlways, PTL DEF IpcSpec

----------------------------------------------------------------------------
(* The end of a transfer *)

Buses == {"i2c", "spi", "usart"}
XferLabels == {"out", "locked", "started", "waiting", "again", "ok", "failed", "unlocking"}
Holding == {"started", "waiting", "again", "ok", "failed"}

XferTypeOK ==
    /\ xpc \in [Threads -> XferLabels] /\ late \in [Threads -> BOOLEAN] /\ finished \in BOOLEAN
    /\ MutexLabels

\* The hardware of a bus nobody uses is idle, and so is all of it when the
\* transfer that was started last has ended.
XferQuiet ==
    /\ uses # "i2c" => twi.hw = "idle"
    /\ uses # "spi" => spi.hw = "idle"
    /\ uses # "usart" => rx.len = 0
    /\ finished => BusQuiet

\* A thread has the mutex of the bus from before it starts a transfer until it
\* has seen how it ended, and has it once.
XferLocks ==
    \A t \in Threads :
        /\ xpc[t] = "out" => mpc[t] = "out"
        /\ xpc[t] = "locked" => mpc[t] \in {"lock_test", "lock_take", "held"}
        /\ xpc[t] \in Holding => mpc[t] = "held"
        /\ xpc[t] = "unlocking" => mpc[t] \in {"unlock_owner", "unlock_notify", "unlock_enable", "out"}
        /\ mpc[t] \in {"lock_take", "unlock_owner"} => Running(t, "app")
        /\ mpc[t] = "lock_take" => count = 0
        /\ mpc[t] = "held" => owner = t /\ count = 1
        /\ mpc[t] = "unlock_owner" => owner = t /\ count = 0
        /\ mpc[t] \in {"out", "lock_test", "unlock_notify", "unlock_enable"} => owner # t

\* What a thread that waits for the end is woken by, or finds when it comes to
\* wait: the end of its own transfer, or else a timeout.
XferWaits ==
    \A t \in Threads :
        /\ pc[t] # "broadcast" /\ (pc[t] = "notify" => arg[t].q = mutex)
        /\ Entering(t, xfer) \/ t \in InQ(xfer) => xpc[t] = "waiting"
        /\ t \in InQ(xfer) /\ ec[t] > 0 => finished
        /\ xpc[t] = "waiting" =>
              /\ pc[t] \in {"ev_check", "ev_enqueue", "ev_return", "app"}
              /\ pc[t] \in {"ev_check", "ev_enqueue"} => arg[t].q = xfer /\ (xfer \in sig => finished)
              /\ pc[t] = "ev_return" => t \in InQ(xfer) \/ finished \/ tmr[t] = "SIGNALED"
              /\ pc[t] = "app" => finished \/ late[t]
        /\ xpc[t] = "ok" => finished

XferInv ==
    /\ XferTypeOK /\ XferQuiet
    /\ uses \notin Buses => \A t \in Threads : xpc[t] = "out"
    /\ uses \in Buses => XferLocks /\ XferWaits

\* The handler of the I2C interrupt posts the end only when it has told the
\* hardware to stop.
LEMMA TwiEnds ==
    ASSUME NEW e, TwiSound(e), NEW o \in TwiOutcomes(e), o.done
    PROVE  o.e.hw = "idle" /\ e.hw # "idle"
<1>1. e.hw # "idle"
  BY DEF TwiOutcomes
<1>2. ASSUME NEW f, NextMessage(f).done
      PROVE  \E x : NextMessage(f) = Ended(x, "idle")
  BY <1>2 DEF NextMessage, GoesOn
<1>3. \E x : o = Ended(x, "idle")
  <2>1. o \in {TwiStarted(e), TwiLost(e), TwiReceive(e), TwiReceived(e)} => FALSE
    BY DEF TwiStarted, TwiLost, TwiReceive, TwiReceived, GoesOn
  <2>2. CASE o = TwiRefused(e) \/ o = TwiDataRefused(e)
    BY <2>2 DEF TwiRefused, TwiDataRefused
  <2>3. CASE o = TwiSent(e) \/ o = TwiReceivedLast(e)
    <3>1. (\E f : o = NextMessage(f)) \/ (\E f : o = GoesOn(f, "data"))
      BY <2>3 DEF TwiSent, TwiReceivedLast
    <3>2. \A f : ~GoesOn(f, "data").done
      BY DEF GoesOn
    <3>3. QED
      BY <1>2, <3>1, <3>2
  <2>4. o \in {TwiStarted(e), TwiLost(e), TwiReceive(e), TwiReceived(e), TwiRefused(e), TwiDataRefused(e), TwiSent(e), TwiReceivedLast(e)}
    BY DEF TwiOutcomes
  <2>5. QED
    BY <2>1, <2>2, <2>3, <2>4
<1>4. PICK x : o.e = [x EXCEPT !.hw = "idle", !.busy = FALSE]
  <2>1. PICK x : o = Ended(x, "idle")
    BY <1>3
  <2>2. Ended(x, "idle").e = [x EXCEPT !.hw = "idle", !.busy = FALSE]
    BY DEF Ended
  <2>3. QED
    BY <2>1, <2>2
<1>5. TwiType(o.e)
  BY TwiOutcomesSound DEF TwiSound
<1>6. QED
  BY <1>1, <1>4, <1>5 DEF TwiType

\* Nobody comes or goes, and nothing is posted: the waiters are where they were.
Unmoved == UNCHANGED <<current, sc, pc, arg, queue, tmr, uses, xpc, mpc, late, owner, count>>

\* What a step that moves nobody must say of the signals and the events
LEMMA UnmovedXfer ==
    ASSUME XferInv, Unmoved, finished \in BOOLEAN => finished' \in BOOLEAN, finished => finished', XferQuiet',
           ~finished' => (xfer \in sig' => xfer \in sig) /\ \A t \in InQ(xfer) : ec'[t] > 0 => ec[t] > 0
    PROVE  XferInv'
<1>1. XferTypeOK' /\ InQ(xfer)' = InQ(xfer)
  BY DEF XferInv, XferTypeOK, MutexLabels, Unmoved, InQ
<1>2. uses \notin Buses => \A t \in Threads : xpc'[t] = "out"
  BY DEF XferInv, Unmoved
<1>3. XferLocks => XferLocks'
  BY DEF XferLocks, Unmoved, Running
<1>4. XferWaits => XferWaits'
  BY <1>1 DEF XferWaits, Unmoved, Entering
<1>5. QED
  BY <1>1, <1>2, <1>3, <1>4 DEF XferInv, Unmoved

\* A service that is no bus leaves all of it alone.
LEMMA AbsentXfer ==
    ASSUME XferInv, uses \notin Buses, UNCHANGED <<twi, spi, rx, xpc, finished, uses>>, late' \in [Threads -> BOOLEAN], MutexLabels'
    PROVE  XferInv'
<1>1. XferTypeOK'
  BY DEF XferInv, XferTypeOK
<1>2. XferQuiet'
  BY DEF XferInv, XferQuiet, BusQuiet
<1>3. QED
  BY <1>1, <1>2 DEF XferInv

\* An interrupt that is not of the bus posts nothing to its queue.
LEMMA InterruptXfer ==
    ASSUME CoopInv, XferInv, Interrupt, UNCHANGED <<mVars, busVars, uses>>, UNCHANGED <<current, sc, pc, arg>>
    PROVE  XferInv'
<1>1. xfer \in QueueIds /\ xfer \in Queues
  BY BusAssumption DEF QueueIds
<1>2. XferQuiet' /\ UNCHANGED <<xpc, late, finished, mpc, owner, count>>
  BY DEF XferInv, XferQuiet, BusQuiet, busVars, mVars
<1>3. ASSUME NEW q \in IrqQueues, IrqNotify(q)
      PROVE  /\ UNCHANGED <<queue, tmr>> /\ (xfer \in sig' => xfer \in sig)
             /\ \A t \in InQ(xfer) : ec'[t] > 0 => ec[t] > 0
  <2>1. q \in QueueIds /\ q # xfer
    BY QueuesAssumption, OwnQueueAssumption DEF QueueIds
  <2>2. UNCHANGED <<queue, tmr>> /\ EventNotifyIrq(q)
    BY <1>3 DEF IrqNotify, tmrVars
  <2>3. xfer \in sig' => xfer \in sig
    BY <2>1, <2>2 DEF EventNotifyIrq
  <2>4. CASE queue[q] = <<>>
    BY <2>2, <2>3, <2>4 DEF EventNotifyIrq
  <2>5. CASE queue[q] # <<>>
    <3>1. PICK h \in Threads : h = queue[q][1] /\ arg[h].q = q
      BY <2>1, <2>5, HeadWaits
    <3>2. h \notin InQ(xfer)
      BY <1>1, <2>1, <3>1, InQueue
    <3>3. Head(queue[q]) = h
      BY <2>1, <2>5, <3>1 DEF CoopInv, TypeOK
    <3>4. ec' = [ec EXCEPT ![h] = @ + 1] /\ ec \in [Threads -> Nat] /\ InQ(xfer) \subseteq Threads
      BY <1>1, <2>2, <2>5, <3>3, InQueue DEF EventNotifyIrq, CoopInv, TypeOK
    <3>5. \A t \in InQ(xfer) : ec'[t] = ec[t]
      BY <3>2, <3>4
    <3>6. QED
      BY <2>2, <2>3, <3>5
  <2>6. QED
    BY <2>4, <2>5
<1>4. ASSUME NEW expire \in BOOLEAN, Tick(expire)
      PROVE  UNCHANGED <<queue, tmr, sig, ec>>
  BY <1>4 DEF Tick, evVars
<1>5. /\ UNCHANGED <<queue, tmr>> /\ (xfer \in sig' => xfer \in sig)
      /\ \A t \in InQ(xfer) : ec'[t] > 0 => ec[t] > 0
  BY <1>3, <1>4 DEF Interrupt
<1>6. Unmoved
  BY <1>2, <1>5 DEF Unmoved
<1>7. QED
  BY <1>2, <1>5, <1>6, UnmovedXfer

\* The interrupt of the bus posts the end of the transfer, or goes on with it.
LEMMA BusIrqXfer ==
    ASSUME CoopInv, BusInv, XferInv, BusIrq, uses' = uses, UNCHANGED <<current, sc, pc, arg>>
    PROVE  XferInv'
<1>1. UNCHANGED <<xpc, late, mpc, owner, count>> /\ \E b \in BOOLEAN : PostEnd(b)
  <2>1. CASE TwiIrq
    <3>1. PICK o \in TwiOutcomes(twi) : PostEnd(o.done)
      BY <2>1 DEF TwiIrq
    <3>2. PostEnd(TRUE) \/ PostEnd(FALSE)
      BY <3>1 DEF PostEnd
    <3>3. QED
      BY <2>1, <3>2 DEF TwiIrq, BusIrq, mVars
  <2>2. CASE SpiIrq \/ RxIrq
    <3>1. PostEnd(TRUE) \/ PostEnd(FALSE)
      BY <2>2 DEF PostEnd, SpiIrq, RxIrq
    <3>2. QED
      BY <2>2, <3>1 DEF SpiIrq, RxIrq, BusIrq, mVars
  <2>3. QED
    BY <2>1, <2>2 DEF BusIrq
<1>2. UNCHANGED <<queue, tmr>> /\ (finished' = TRUE \/ (UNCHANGED <<sig, ec, finished>>))
  BY <1>1 DEF PostEnd, QuietIrq, IrqNotify, evVars, tmrVars
<1>3. finished \in BOOLEAN /\ XferQuiet
  BY DEF XferInv, XferTypeOK
<1>4. XferQuiet'
  <2>1. CASE TwiIrq
    <3>1. PICK o \in TwiOutcomes(twi) : twi' = o.e /\ PostEnd(o.done)
      BY <2>1 DEF TwiIrq
    <3>2. twi.hw # "idle" /\ UNCHANGED <<spi, rx>>
      BY <2>1 DEF TwiIrq, TwiOutcomes
    <3>3. uses = "i2c" /\ ~finished
      BY <1>3, <3>2 DEF XferQuiet, BusQuiet
    <3>4. finished' => o.done
      BY <3>1, <3>3 DEF PostEnd
    <3>5. finished' => twi'.hw = "idle"
      BY <3>1, <3>4, TwiEnds DEF BusInv
    <3>6. QED
      BY <1>3, <3>2, <3>3, <3>5 DEF XferQuiet, BusQuiet
  <2>2. CASE SpiIrq
    <3>1. spi.hw = "byte" /\ UNCHANGED <<twi, rx>>
      BY <2>2 DEF SpiIrq
    <3>2. uses = "spi" /\ ~finished
      BY <1>3, <3>1 DEF XferQuiet, BusQuiet
    <3>3. finished' => spi'.hw = "idle"
      BY <2>2, <3>2 DEF SpiIrq, PostEnd, BusInv
    <3>4. QED
      BY <1>3, <3>1, <3>2, <3>3 DEF XferQuiet, BusQuiet
  <2>3. CASE RxIrq
    <3>1. UNCHANGED <<twi, spi>> /\ rx.len > 0
      BY <2>3 DEF RxIrq
    <3>2. uses = "usart"
      BY <1>3, <3>1 DEF XferQuiet
    <3>3. QED
      BY <1>3, <3>1, <3>2 DEF XferQuiet, BusQuiet
  <2>4. QED
    BY <2>1, <2>2, <2>3 DEF BusIrq
<1>5. Unmoved
  BY <1>1, <1>2 DEF Unmoved
<1>6. QED
  BY <1>2, <1>3, <1>4, <1>5, UnmovedXfer

\* A step of the kernel: who waited is woken by the end of the transfer or by
\* the timer, and finds the signal only when the transfer has ended.
LEMMA KernelXfer ==
    ASSUME Cooperative, CoopInv, CoopInv', XferInv, Kernel, WaitReturns, UNCHANGED <<mVars, uses>>
    PROVE  XferInv'
<1>1. xfer \in Queues /\ xfer \in QueueIds /\ xfer \notin Threads /\ mutex # xfer
  BY BusAssumption, QueuesAssumption DEF QueueIds
<1>2. Waiters(current) /\ Course(current) /\ Tame(xfer)
  BY <1>1, KernelWaits, KernelTame
<1>3. UNCHANGED <<twi, spi, rx, xpc, finished>> /\ late' \in [Threads -> BOOLEAN]
  <2>1. late \in [Threads -> BOOLEAN]
    BY DEF XferInv, XferTypeOK
  <2>2. \A t \in Threads : (IF pc[t] # "app" /\ pc'[t] = "app" THEN tmr[t] = "SIGNALED" ELSE late[t]) \in BOOLEAN
    BY <2>1
  <2>3. QED
    BY <2>2 DEF WaitReturns
<1>4. MutexLabels'
  BY DEF XferInv, XferTypeOK, MutexLabels, mVars
<1>5. CASE uses \notin Buses
  BY <1>3, <1>4, <1>5, AbsentXfer
<1>6. CASE uses \in Buses
  <2>1. XferLocks /\ XferWaits
    BY <1>6 DEF XferInv
  <2>2. XferLocks'
    <3>1. \A t \in Threads : mpc[t] \in {"lock_take", "unlock_owner"} => FALSE
      <4>1. SUFFICES ASSUME NEW t \in Threads, mpc[t] \in {"lock_take", "unlock_owner"} PROVE FALSE
        OBVIOUS
      <4>2. current = t /\ sc[current] = "none" /\ pc[current] = "app"
        BY <2>1, <4>1 DEF XferLocks, Running
      <4>3. QED
        BY <4>2, NoKernelStep DEF Kernel
    <3>2. QED
      BY <1>3, <2>1, <3>1 DEF XferLocks, mVars
  <2>3. \A t \in Threads : Entering(t, xfer)' \/ t \in InQ(xfer)' => xpc'[t] = "waiting"
    BY <1>2, <1>3, <2>1 DEF Tame, XferWaits, Entering
  <2>4. \A t \in Threads : t \in InQ(xfer)' /\ ec'[t] > 0 => finished'
    <3>1. SUFFICES ASSUME NEW t \in Threads, t \in InQ(xfer)', ec'[t] > 0 PROVE finished
      BY <1>3
    <3>2. HasEvents(xfer)'
      BY <3>1 DEF HasEvents
    <3>3. CASE HasEvents(xfer)
      <4>1. InQ(xfer) \subseteq Threads
        BY <1>1, InQueue
      <4>2. QED
        BY <2>1, <3>3, <4>1 DEF HasEvents, XferWaits
    <3>4. CASE xfer \in sig /\ \E u \in Threads : Running(u, "ev_enqueue") /\ arg[u].q = xfer
      BY <2>1, <3>4 DEF XferWaits, Entering, Running
    <3>5. QED
      BY <1>1, <3>2, <3>3, <3>4, KernelPosts
  <2>5. \A t \in Threads : pc'[t] # "broadcast" /\ (pc'[t] = "notify" => arg'[t].q = mutex)
    <3>1. ASSUME NEW t \in Threads, t # current
          PROVE  pc'[t] # "broadcast" /\ (pc'[t] = "notify" => arg'[t].q = mutex)
      BY <1>2, <2>1, <3>1 DEF Waiters, XferWaits
    <3>2. current \in Threads /\ pc[current] # "broadcast" /\ (pc[current] = "notify" => arg[current].q = mutex)
      BY <2>1 DEF XferWaits, CoopInv, TypeOK
    <3>3. pc'[current] # "broadcast" /\ (pc'[current] = "notify" => arg'[current].q = mutex)
      BY <1>2, <3>2 DEF Course, Turn, Aside
    <3>4. QED
      BY <3>1, <3>3
  <2>6. ASSUME NEW t \in Threads, xpc[t] = "waiting"
        PROVE  /\ pc'[t] \in {"ev_check", "ev_enqueue", "ev_return", "app"}
               /\ pc'[t] \in {"ev_check", "ev_enqueue"} => arg'[t].q = xfer /\ (xfer \in sig' => finished)
               /\ pc'[t] = "ev_return" => t \in InQ(xfer)' \/ finished \/ tmr'[t] = "SIGNALED"
               /\ pc'[t] = "app" => finished \/ late'[t]
    <3>1. /\ pc[t] \in {"ev_check", "ev_enqueue", "ev_return", "app"}
          /\ pc[t] \in {"ev_check", "ev_enqueue"} => arg[t].q = xfer /\ (xfer \in sig => finished)
          /\ pc[t] = "ev_return" => t \in InQ(xfer) \/ finished \/ tmr[t] = "SIGNALED"
          /\ pc[t] = "app" => finished \/ late[t]
      BY <2>1, <2>6 DEF XferWaits
    <3>2. late'[t] = IF pc[t] # "app" /\ pc'[t] = "app" THEN tmr[t] = "SIGNALED" ELSE late[t]
      BY DEF WaitReturns
    <3>3. CASE ~(t = current /\ sc[t] = "none")
      <4>1. pc'[t] = pc[t] /\ arg'[t] = arg[t]
        BY <1>2, <3>3 DEF Waiters, Course
      <4>2. pc[t] \notin {"ev_check", "ev_enqueue"}
        BY <3>3 DEF CoopInv, ControlInv, Outside
      <4>3. pc'[t] = "ev_return" => t \in InQ(xfer)' \/ finished \/ tmr'[t] = "SIGNALED"
        <5>1. CASE t \in InQ(xfer) /\ t \notin InQ(xfer)'
          <6>1. t \in ToSet(wake) /\ arg[t].q = xfer
            BY <1>1, <5>1, InQueue
          <6>2. t \notin ToSet(wake)'
            BY <1>1, <4>1, <5>1, <6>1 DEF CoopInv, EventInv, InQ
          <6>3. Reason(current, t)
            BY <1>2, <6>1, <6>2 DEF Waiters
          <6>4. arg[t].q # current
            BY <1>1, <6>1 DEF CoopInv, TypeOK
          <6>5. pc[current] = "notify" => arg[current].q # xfer
            BY <1>1, <2>1 DEF XferWaits, CoopInv, TypeOK
          <6>6. pc[current] # "broadcast"
            BY <2>1 DEF XferWaits, CoopInv, TypeOK
          <6>7. ec[t] > 0 \/ tmr'[t] = "SIGNALED"
            BY <6>1, <6>3, <6>4, <6>5, <6>6 DEF Reason
          <6>8. QED
            BY <2>1, <5>1, <6>7 DEF XferWaits
        <5>2. CASE t \notin InQ(xfer) /\ tmr[t] = "SIGNALED"
          <6>1. t \notin ToSet(wake)
            BY <5>2 DEF CoopInv, TimerInv
          <6>2. tmr'[t] = tmr[t]
            BY <1>2, <3>3, <6>1 DEF Waiters
          <6>3. QED
            BY <5>2, <6>2
        <5>3. QED
          BY <3>1, <4>1, <5>1, <5>2
      <4>4. QED
        BY <3>1, <3>2, <4>1, <4>2, <4>3
    <3>4. CASE t = current /\ sc[t] = "none"
      <4>1. CASE pc[t] = "ev_check"
        BY <1>2, <3>1, <3>4, <4>1 DEF Course, Turn, Aside
      <4>2. CASE pc[t] = "ev_enqueue"
        <5>1. pc'[t] = "ev_return" /\ arg'[t] = arg[t] /\ t \in ToSet(wake)'
          BY <1>2, <3>4, <4>2 DEF Course, Turn, Aside
        <5>2. t \in InQ(xfer)'
          BY <1>1, <3>1, <4>2, <5>1 DEF CoopInv, EventInv, InQ
        <5>3. QED
          BY <5>1, <5>2
      <4>3. CASE pc[t] = "ev_return"
        <5>1. pc'[t] = "app"
          BY <1>2, <3>4, <4>3 DEF Course, Turn, Aside
        <5>2. t \notin InQ(xfer)
          BY <1>1, <3>4, InQueue
        <5>3. QED
          BY <3>1, <3>2, <4>3, <5>1, <5>2
      <4>4. CASE pc[t] = "app"
        BY <1>2, <3>4, <4>4 DEF Course, Turn, Aside
      <4>5. QED
        BY <3>1, <4>1, <4>2, <4>3, <4>4
    <3>5. QED
      BY <3>3, <3>4
  <2>7. XferWaits'
    BY <1>3, <2>1, <2>3, <2>4, <2>5, <2>6 DEF XferWaits
  <2>8. XferTypeOK' /\ XferQuiet'
    BY <1>3, <1>4 DEF XferInv, XferTypeOK, XferQuiet, BusQuiet
  <2>9. QED
    BY <1>6, <2>2, <2>7, <2>8 DEF XferInv
<1>7. QED
  BY <1>5, <1>6

\* A call that takes t to no queue but that of the mutex
Light(t) ==
    /\ UNCHANGED <<queue, ec, tmr>>
    /\ \A u \in Threads \ {t} : pc'[u] = pc[u] /\ arg'[u] = arg[u]
    /\ pc'[t] # "broadcast" /\ (pc'[t] \in {"notify", "ev_check", "ev_enqueue"} => arg'[t].q = mutex)

\* What mutex.c and those who yield or create threads do is such a call.
LEMMA LightCalls ==
    ASSUME Cooperative, CoopInv, NEW t \in Threads,
           LockEnter(t) \/ MContinue(t) \/ Unlock(t) \/ Yield(t) \/ \E u \in Threads : ThreadCreate(t, u)
    PROVE  Light(t)
<1>1. pc \in [Threads -> Labels] /\ arg \in [Threads -> Args] /\ ~irqExec
  BY DEF CoopInv, TypeOK, ControlInv
<1>2. Running(t, "app")
  BY DEF LockEnter, MContinue, Unlock, LockPass, LockWait, LockTake, UnlockOwner, UnlockNotify, UnlockEnable, At, Calls, Yield, ThreadCreate
<1>3. CASE UNCHANGED <<queue, ec, tmr, pc, arg>>
  BY <1>2, <1>3 DEF Light, Running
<1>4. CASE LockWait(t)
  <2>1. RawEventWait(t, mutex, 0)
    BY <1>4 DEF LockWait
  <2>2. UNCHANGED <<queue, ec, tmr>> /\ RawEventWaitCheck(t, mutex, 0)
    BY <2>1 DEF RawEventWait, tmrVars
  <2>3. CASE mutex \in sig
    BY <1>1, <2>2, <2>3 DEF RawEventWaitCheck, Return, Light
  <2>4. CASE mutex \notin sig
    <3>1. pc' = [pc EXCEPT ![t] = "ev_enqueue"] /\ arg' = [arg EXCEPT ![t].q = mutex, ![t].ms = 0]
      BY <2>2, <2>4 DEF RawEventWaitCheck, Goto
    <3>2. arg'[t].q = mutex /\ \A u \in Threads \ {t} : arg'[u] = arg[u]
      BY <1>1, <3>1 DEF Args
    <3>3. QED
      BY <1>1, <2>2, <3>1, <3>2 DEF Light
  <2>5. QED
    BY <2>3, <2>4
<1>5. CASE UnlockNotify(t)
  <2>1. EventNotify(t, mutex)
    BY <1>5 DEF UnlockNotify
  <2>2. UNCHANGED <<queue, ec, tmr>>
    BY <1>1, <2>1 DEF EventNotify, evVars, tmrVars
  <2>3. PICK h : pc' = [pc EXCEPT ![t] = "notify"] /\ arg' = [arg EXCEPT ![t].q = mutex, ![t].head = h]
    BY <1>1, <2>1 DEF EventNotify, Goto
  <2>4. arg'[t].q = mutex /\ \A u \in Threads \ {t} : arg'[u] = arg[u]
    BY <1>1, <2>3 DEF Args
  <2>5. QED
    BY <1>1, <2>2, <2>3, <2>4 DEF Light
<1>6. CASE LockEnter(t) \/ Unlock(t) \/ LockPass(t) \/ LockTake(t) \/ UnlockOwner(t) \/ UnlockEnable(t)
  <2>1. UNCHANGED <<queue, ec, tmr, pc, arg>>
    BY <1>6 DEF LockEnter, Unlock, LockPass, LockTake, UnlockOwner, UnlockEnable, SchedButCnt, vars, evVars, tmrVars, callVars
  <2>2. QED
    BY <1>3, <2>1
<1>7. CASE Yield(t)
  BY <1>3, <1>7 DEF Yield, evVars, tmrVars, callVars
<1>8. ASSUME NEW u \in Threads, ThreadCreate(t, u)
      PROVE  Light(t)
  <2>1. UNCHANGED <<queue, ec, tmr>> /\ pc' = [pc EXCEPT ![t] = "created"] /\ arg' = [arg EXCEPT ![t].tp = u]
    BY <1>8 DEF ThreadCreate, evVars, tmrVars, Goto
  <2>2. QED
    BY <1>1, <2>1 DEF Light
<1>9. QED
  BY <1>4, <1>5, <1>6, <1>7, <1>8 DEF MContinue

\* t goes on to l with the transfer it has, or starts another one.
LEMMA RunningXfer ==
    ASSUME CoopInv, XferInv, uses \in Buses, uses' = uses, NEW t \in Threads, Running(t, "app"),
           UNCHANGED <<queue, ec, tmr>>, \A u \in Threads \ {t} : pc'[u] = pc[u] /\ arg'[u] = arg[u],
           late' \in [Threads -> BOOLEAN], \A u \in Threads \ {t} : late'[u] = late[u],
           NEW l \in XferLabels, xpc' = [xpc EXCEPT ![t] = l],
           pc'[t] # "broadcast" /\ (pc'[t] = "notify" => arg'[t].q = mutex),
           IF l = "waiting" THEN pc'[t] = "ev_check" /\ arg'[t].q = xfer /\ xfer \notin sig'
           ELSE pc'[t] \in {"ev_check", "ev_enqueue"} => arg'[t].q # xfer,
           l = "ok" => finished',
           \/ finished' = finished
           \/ finished' = FALSE /\ \A u \in Threads \ {t} : xpc[u] \notin {"waiting", "ok"},
           MutexLabels', XferQuiet', XferLocks'
    PROVE  XferInv'
<1>1. xfer \in QueueIds /\ xpc \in [Threads -> XferLabels] /\ XferWaits /\ finished \in BOOLEAN
  BY BusAssumption DEF QueueIds, XferInv, XferTypeOK
<1>2. /\ t \notin InQ(xfer) /\ InQ(xfer)' = InQ(xfer)
      /\ \A u \in Threads : pc[u] \notin {"ev_check", "ev_enqueue", "notify", "broadcast"}
  BY <1>1, OneRuns DEF InQ
<1>3. xpc'[t] = l /\ \A u \in Threads \ {t} : xpc'[u] = xpc[u]
  BY <1>1
<1>4. finished' \in BOOLEAN
  BY <1>1
<1>5. XferTypeOK'
  BY <1>1, <1>4 DEF XferTypeOK
<1>6. ASSUME NEW u \in Threads \ {t}
      PROVE  /\ pc'[u] # "broadcast" /\ (pc'[u] = "notify" => arg'[u].q = mutex)
             /\ Entering(u, xfer)' \/ u \in InQ(xfer)' => xpc'[u] = "waiting"
             /\ u \in InQ(xfer)' /\ ec'[u] > 0 => finished'
             /\ xpc'[u] = "waiting" =>
                   /\ pc'[u] \in {"ev_check", "ev_enqueue", "ev_return", "app"}
                   /\ pc'[u] \in {"ev_check", "ev_enqueue"} => arg'[u].q = xfer /\ (xfer \in sig' => finished')
                   /\ pc'[u] = "ev_return" => u \in InQ(xfer)' \/ finished' \/ tmr'[u] = "SIGNALED"
                   /\ pc'[u] = "app" => finished' \/ late'[u]
             /\ xpc'[u] = "ok" => finished'
  <2>1. pc'[u] = pc[u] /\ pc[u] \notin {"ev_check", "ev_enqueue", "notify", "broadcast"} /\ xpc'[u] = xpc[u]
    BY <1>2, <1>3
  <2>2. u \in InQ(xfer) => xpc[u] = "waiting"
    BY <1>1 DEF XferWaits
  <2>3. CASE finished' = finished
    BY <1>1, <1>2, <2>1, <2>2, <2>3 DEF XferWaits, Entering
  <2>4. CASE xpc[u] \notin {"waiting", "ok"}
    BY <1>2, <2>1, <2>2, <2>4 DEF Entering
  <2>5. QED
    BY <2>3, <2>4
<1>7. /\ Entering(t, xfer)' \/ t \in InQ(xfer)' => xpc'[t] = "waiting"
      /\ xpc'[t] = "waiting" => pc'[t] = "ev_check" /\ arg'[t].q = xfer /\ xfer \notin sig'
      /\ xpc'[t] = "ok" => finished'
      /\ t \notin InQ(xfer)'
  BY <1>2, <1>3 DEF Entering
<1>8. XferWaits'
  <2>1. SUFFICES ASSUME NEW u \in Threads
                 PROVE  /\ pc'[u] # "broadcast" /\ (pc'[u] = "notify" => arg'[u].q = mutex)
                        /\ Entering(u, xfer)' \/ u \in InQ(xfer)' => xpc'[u] = "waiting"
                        /\ u \in InQ(xfer)' /\ ec'[u] > 0 => finished'
                        /\ xpc'[u] = "waiting" =>
                              /\ pc'[u] \in {"ev_check", "ev_enqueue", "ev_return", "app"}
                              /\ pc'[u] \in {"ev_check", "ev_enqueue"} => arg'[u].q = xfer /\ (xfer \in sig' => finished')
                              /\ pc'[u] = "ev_return" => u \in InQ(xfer)' \/ finished' \/ tmr'[u] = "SIGNALED"
                              /\ pc'[u] = "app" => finished' \/ late'[u]
                        /\ xpc'[u] = "ok" => finished'
    BY DEF XferWaits
  <2>2. CASE u = t
    BY <1>7, <2>2
  <2>3. CASE u # t
    BY <1>6, <2>3
  <2>4. QED
    BY <2>2, <2>3
<1>9. QED
  BY <1>5, <1>8 DEF XferInv

\* The mutex of the bus, in the order in which a transfer uses it
LEMMA MutexXfer ==
    ASSUME Cooperative, CoopInv, XferLocks, XferTypeOK, NEW t \in Threads, NEW l, xpc' = [xpc EXCEPT ![t] = l],
           \/ LockEnter(t) /\ xpc[t] = "out" /\ l = "locked"
           \/ MContinue(t) /\ l = xpc[t]
           \/ Unlock(t) /\ xpc[t] \in {"ok", "failed"} /\ l = "unlocking"
    PROVE  XferLocks'
<1>1. mpc \in [Threads -> MLabels] /\ xpc \in [Threads -> XferLabels] /\ TypeOK /\ NULL \notin Threads
  BY MutexAssumption DEF XferTypeOK, MutexLabels, CoopInv
<1>2. Running(t, "app") /\ xpc'[t] = l /\ \A u \in Threads \ {t} : xpc'[u] = xpc[u]
  BY <1>1 DEF LockEnter, MContinue, Unlock, LockPass, LockWait, LockTake, UnlockOwner, UnlockNotify, UnlockEnable, At, Calls
<1>3. \A u \in Threads \ {t} : mpc[u] \notin {"lock_take", "unlock_owner"}
  BY <1>2 DEF XferLocks, Running
<1>4. UNCHANGED vars \/ UNCHANGED <<SchedButCnt, sc>> => Running(t, "app")'
  BY <1>2 DEF vars, SchedButCnt, rqVars, callVars, Running
<1>5. \A u \in Threads \ {t} : mpc'[u] = mpc[u]
  BY <1>1 DEF LockEnter, MContinue, Unlock, LockPass, LockWait, LockTake, UnlockOwner, UnlockNotify, UnlockEnable, MGoto, mVars
<1>6. CASE LockEnter(t)
  <2>1. xpc[t] = "out" /\ l = "locked"
    BY <1>6, <1>1 DEF XferLocks, XferLabels, MContinue, LockEnter, LockPass, LockWait, LockTake, UnlockOwner, UnlockNotify, UnlockEnable, At, Unlock
  <2>2. mpc[t] = "out" /\ owner # t
    BY <2>1 DEF XferLocks
  <2>3. mpc'[t] = "lock_test" /\ UNCHANGED <<count, owner>>
    BY <1>1, <1>6, <2>2 DEF LockEnter, MGoto
  <2>4. QED
    BY <1>2, <1>3, <1>5, <2>1, <2>2, <2>3 DEF XferLocks, Holding
<1>7. CASE Unlock(t)
  <2>1. mpc[t] = "held" /\ owner = t /\ count = 1 /\ xpc[t] \in {"ok", "failed"} /\ l = "unlocking"
    BY <1>7, <1>1 DEF XferLocks, XferLabels, MContinue, LockEnter, LockPass, LockWait, LockTake, UnlockOwner, UnlockNotify, UnlockEnable, At, Unlock
  <2>2. mpc'[t] = "unlock_owner" /\ owner' = owner /\ count' = 0 /\ UNCHANGED vars
    BY <1>1, <1>7, <2>1 DEF Unlock, MGoto
  <2>3. \A u \in Threads \ {t} : mpc[u] # "held"
    BY <2>1 DEF XferLocks
  <2>4. QED
    BY <1>2, <1>3, <1>4, <1>5, <2>1, <2>2, <2>3 DEF XferLocks, Holding
<1>8. CASE MContinue(t) /\ l = xpc[t]
  <2>1. CASE LockPass(t)
    <3>1. mpc[t] = "lock_test" /\ mpc'[t] = "lock_take" /\ count = 0 /\ UNCHANGED <<vars, count, owner>>
      BY <1>1, <2>1 DEF LockPass, MGoto, At
    <3>2. xpc[t] = "locked"
      BY <1>1, <3>1 DEF XferLocks, XferLabels, Holding
    <3>3. QED
      BY <1>2, <1>3, <1>4, <1>5, <1>8, <3>1, <3>2 DEF XferLocks, Holding
  <2>2. CASE LockWait(t)
    <3>1. UNCHANGED mVars /\ mpc[t] = "lock_test"
      BY <2>2 DEF LockWait, At
    <3>2. QED
      BY <1>2, <1>3, <1>8, <3>1 DEF XferLocks, Holding, mVars
  <2>3. CASE LockTake(t)
    <3>1. mpc[t] = "lock_take" /\ mpc'[t] = "held" /\ count' = count + 1 /\ owner' = t
      BY <1>1, <2>3 DEF LockTake, MGoto, At
    <3>2. xpc[t] = "locked" /\ count = 0
      BY <1>1, <3>1 DEF XferLocks, XferLabels, Holding
    <3>3. \A u \in Threads \ {t} : mpc[u] # "held"
      BY <3>2 DEF XferLocks
    <3>4. count' = 1
      BY <3>1, <3>2
    <3>5. QED
      BY <1>2, <1>3, <1>5, <1>8, <3>1, <3>2, <3>3, <3>4 DEF XferLocks, Holding
  <2>4. CASE UnlockOwner(t)
    <3>1. mpc[t] = "unlock_owner" /\ mpc'[t] = "unlock_notify" /\ count' = count /\ owner' = NULL
      BY <1>1, <2>4 DEF UnlockOwner, MGoto, At
    <3>2. xpc[t] = "unlocking" /\ count = 0 /\ owner = t
      BY <1>1, <3>1 DEF XferLocks, XferLabels, Holding
    <3>3. \A u \in Threads \ {t} : mpc[u] # "held"
      BY <3>2 DEF XferLocks
    <3>4. QED
      BY <1>1, <1>2, <1>3, <1>5, <1>8, <3>1, <3>2, <3>3 DEF XferLocks, Holding
  <2>5. CASE UnlockNotify(t) \/ UnlockEnable(t)
    <3>1. mpc[t] \in {"unlock_notify", "unlock_enable"} /\ UNCHANGED <<count, owner>>
      BY <2>5 DEF UnlockNotify, UnlockEnable, At
    <3>2. xpc[t] = "unlocking" /\ owner # t
      BY <1>1, <3>1 DEF XferLocks, XferLabels, Holding
    <3>3. mpc'[t] \in {"unlock_enable", "out"}
      BY <1>1, <2>5, <3>2 DEF UnlockNotify, UnlockEnable, MGoto
    <3>4. QED
      BY <1>2, <1>3, <1>5, <1>8, <3>1, <3>2, <3>3 DEF XferLocks, Holding
  <2>6. QED
    BY <1>8, <2>1, <2>2, <2>3, <2>4, <2>5 DEF MContinue
<1>9. QED
  BY <1>6, <1>7, <1>8

\* A thread that has the mutex keeps it, and so does one that has not.
LEMMA SameLocks ==
    ASSUME XferLocks, XferTypeOK, NEW t \in Threads, Running(t, "app"), UNCHANGED mVars, NEW l, xpc' = [xpc EXCEPT ![t] = l],
           (l \in Holding /\ mpc[t] = "held") \/ (l = "out" /\ mpc[t] = "out")
    PROVE  XferLocks'
<1>1. xpc'[t] = l /\ \A u \in Threads \ {t} : xpc'[u] = xpc[u]
  BY DEF XferTypeOK
<1>2. \A u \in Threads : mpc[u] \notin {"lock_take", "unlock_owner"}
  BY DEF XferLocks, Running
<1>3. QED
  BY <1>1, <1>2 DEF XferLocks, mVars, Holding

\* What a thread does on the bus, the mutex aside
LEMMA BusOwnXfer ==
    ASSUME CoopInv, XferInv, uses \in Buses, uses' = uses, MutexLabels', NEW t \in Threads,
           \/ BusTimedOut(t) \/ BusDone(t) \/ BusReturn(t)
           \/ uses = "i2c" /\ I2cStep(t)
           \/ uses = "spi" /\ SpiStep(t)
           \/ uses = "usart" /\ RxStep(t)
    PROVE  XferInv'
<1>1. /\ XferLocks /\ XferWaits /\ XferTypeOK /\ XferQuiet /\ xpc \in [Threads -> XferLabels]
      /\ late \in [Threads -> BOOLEAN] /\ finished \in BOOLEAN
  BY DEF XferInv, XferTypeOK
<1>2. Running(t, "app") /\ mutex # xfer
  BY BusAssumption DEF BusTimedOut, BusDone, BusReturn, I2cStep, SpiStep, RxStep, I2cStart, SpiStart, RxStart, Starts, BusWait, BusAt
<1>3. UNCHANGED allVars => UNCHANGED <<queue, ec, tmr, pc, arg>> /\ UNCHANGED mVars
  BY DEF allVars, vars, evVars, tmrVars, callVars
<1>4. CASE BusTimedOut(t)
  <2>1. PICK l \in {"again", "failed"} : xpc' = [xpc EXCEPT ![t] = l]
    BY <1>4 DEF BusTimedOut, BusGoto
  <2>2. xpc[t] = "waiting" /\ mpc[t] = "held" /\ UNCHANGED <<twi, spi, rx, late, finished>> /\ UNCHANGED allVars
    BY <1>1, <1>4 DEF BusTimedOut, BusAt, XferLocks, Holding
  <2>3. XferLocks' /\ XferQuiet'
    BY <1>1, <1>2, <1>3, <2>1, <2>2, SameLocks DEF Holding, XferQuiet, BusQuiet
  <2>4. l \in XferLabels /\ l # "waiting" /\ l # "ok"
    BY <2>1 DEF XferLabels
  <2>5. pc'[t] = "app" /\ UNCHANGED <<queue, ec, tmr, pc, arg>>
    BY <1>2, <1>3, <2>2 DEF Running
  <2>6. QED
    BY <1>1, <1>2, <2>1, <2>2, <2>3, <2>4, <2>5, RunningXfer
<1>5. CASE BusDone(t)
  <2>1. xpc' = [xpc EXCEPT ![t] = "ok"] /\ xpc[t] = "waiting" /\ ~late[t] /\ UNCHANGED <<twi, spi, rx, late, finished>> /\ UNCHANGED allVars
    BY <1>5 DEF BusDone, BusGoto, BusAt
  <2>2. mpc[t] = "held" /\ finished
    BY <1>1, <1>2, <2>1 DEF XferLocks, XferWaits, Holding, Running
  <2>3. XferLocks' /\ XferQuiet' /\ "ok" \in XferLabels
    BY <1>1, <1>2, <1>3, <2>1, <2>2, SameLocks DEF Holding, XferQuiet, BusQuiet, XferLabels
  <2>4. pc'[t] = "app" /\ UNCHANGED <<queue, ec, tmr, pc, arg>>
    BY <1>2, <1>3, <2>1 DEF Running
  <2>5. QED
    BY <1>1, <1>2, <2>1, <2>2, <2>3, <2>4, RunningXfer
<1>6. CASE BusReturn(t)
  <2>1. xpc' = [xpc EXCEPT ![t] = "out"] /\ mpc[t] = "out" /\ UNCHANGED <<twi, spi, rx, finished>> /\ UNCHANGED allVars
        /\ late' = [late EXCEPT ![t] = FALSE]
    BY <1>6 DEF BusReturn, BusGoto, BusAt
  <2>2. XferLocks' /\ XferQuiet' /\ "out" \in XferLabels
    BY <1>1, <1>2, <1>3, <2>1, SameLocks DEF XferQuiet, BusQuiet, XferLabels
  <2>3. pc'[t] = "app" /\ UNCHANGED <<queue, ec, tmr, pc, arg>>
    BY <1>2, <1>3, <2>1 DEF Running
  <2>4. late' \in [Threads -> BOOLEAN] /\ \A u \in Threads \ {t} : late'[u] = late[u]
    BY <1>1, <2>1
  <2>5. QED
    BY <1>1, <1>2, <2>1, <2>2, <2>3, <2>4, RunningXfer
<1>7. CASE Starts(t) /\ XferQuiet'
  <2>1. xpc' = [xpc EXCEPT ![t] = "started"] /\ mpc[t] = "held" /\ finished' = FALSE /\ late' = late /\ UNCHANGED allVars
    BY <1>7 DEF Starts, BusGoto
  <2>2. \A u \in Threads \ {t} : xpc[u] \notin {"waiting", "ok"}
    BY <1>1, <2>1 DEF XferLocks, Holding
  <2>3. XferLocks' /\ "started" \in XferLabels
    BY <1>1, <1>2, <1>3, <2>1, SameLocks DEF Holding, XferLabels
  <2>4. pc'[t] = "app" /\ UNCHANGED <<queue, ec, tmr, pc, arg>>
    BY <1>2, <1>3, <2>1 DEF Running
  <2>5. QED
    BY <1>1, <1>2, <1>7, <2>1, <2>2, <2>3, <2>4, RunningXfer
<1>8. ASSUME NEW ms, BusWait(t, ms)
      PROVE  XferInv'
  <2>1. /\ xpc[t] = "started" /\ ForgetSignal(t, xfer, ms) /\ xpc' = [xpc EXCEPT ![t] = "waiting"]
        /\ UNCHANGED mVars /\ UNCHANGED <<twi, spi, rx, late, finished>>
    BY <1>8 DEF BusWait, BusAt, BusGoto, EventWait
  <2>2. mpc[t] = "held"
    BY <1>1, <2>1 DEF XferLocks, Holding
  <2>3. XferLocks' /\ XferQuiet' /\ "waiting" \in XferLabels
    BY <1>1, <1>2, <2>1, <2>2, SameLocks DEF Holding, XferQuiet, BusQuiet, XferLabels
  <2>4. UNCHANGED <<queue, ec, tmr>> /\ xfer \notin sig' /\ pc' = [pc EXCEPT ![t] = "ev_check"] /\ arg' = [arg EXCEPT ![t].q = xfer, ![t].ms = ms]
    BY <2>1 DEF ForgetSignal, Goto, tmrVars
  <2>5. pc \in [Threads -> Labels] /\ arg \in [Threads -> Args]
    BY DEF CoopInv, TypeOK
  <2>6. pc'[t] = "ev_check" /\ arg'[t].q = xfer /\ \A u \in Threads \ {t} : pc'[u] = pc[u] /\ arg'[u] = arg[u]
    BY <2>4, <2>5 DEF Args
  <2>7. QED
    BY <1>1, <1>2, <2>1, <2>3, <2>4, <2>6, RunningXfer
<1>9. ASSUME NEW msgs0 \in Transfers, uses = "i2c", I2cStart(t, msgs0)
      PROVE  XferInv'
  <2>1. Starts(t) /\ UNCHANGED <<spi, rx>>
    BY <1>9 DEF I2cStart
  <2>2. XferQuiet'
    BY <1>1, <1>9, <2>1 DEF XferQuiet, Starts
  <2>3. QED
    BY <1>7, <2>1, <2>2
<1>10. ASSUME NEW len \in Lengths, uses = "spi", SpiStart(t, len)
      PROVE  XferInv'
  <2>1. Starts(t) /\ UNCHANGED <<twi, rx>>
    BY <1>10 DEF SpiStart
  <2>2. XferQuiet'
    BY <1>1, <1>10, <2>1 DEF XferQuiet, Starts
  <2>3. QED
    BY <1>7, <2>1, <2>2
<1>11. ASSUME NEW len \in Lengths, uses = "usart", RxStart(t, len)
      PROVE  XferInv'
  <2>1. Starts(t) /\ UNCHANGED <<twi, spi>>
    BY <1>11 DEF RxStart
  <2>2. XferQuiet'
    BY <1>1, <1>11, <2>1 DEF XferQuiet, Starts
  <2>3. QED
    BY <1>7, <2>1, <2>2
<1>12. QED
  BY <1>4, <1>5, <1>6, <1>8, <1>9, <1>10, <1>11 DEF I2cStep, SpiStep, RxStep

\* A step of mutex.c inside a transfer
LEMMA BusMutexXfer ==
    ASSUME Cooperative, CoopInv, XferInv, uses \in Buses, uses' = uses, MutexLabels', NEW t \in Threads,
           (MContinue(t) /\ UNCHANGED busVars) \/ BusLock(t) \/ BusUnlock(t)
    PROVE  XferInv'
<1>1. /\ XferLocks /\ XferWaits /\ XferTypeOK /\ XferQuiet /\ xpc \in [Threads -> XferLabels]
      /\ late \in [Threads -> BOOLEAN] /\ finished \in BOOLEAN
  BY DEF XferInv, XferTypeOK
<1>2. mutex # xfer
  BY BusAssumption
<1>3. UNCHANGED <<twi, spi, rx, late, finished>>
  BY DEF busVars, BusLock, BusUnlock
<1>4. XferQuiet'
  BY <1>1, <1>3 DEF XferQuiet, BusQuiet
<1>5. PICK l \in XferLabels \ {"waiting", "ok"} : xpc' = [xpc EXCEPT ![t] = l] /\
         \/ LockEnter(t) /\ xpc[t] = "out" /\ l = "locked"
         \/ MContinue(t) /\ l = xpc[t]
         \/ Unlock(t) /\ xpc[t] \in {"ok", "failed"} /\ l = "unlocking"
  <2>1. CASE MContinue(t) /\ UNCHANGED busVars
    <3>1. mpc[t] # "held"
      BY <2>1 DEF MContinue, LockPass, LockWait, LockTake, UnlockOwner, UnlockNotify, UnlockEnable, At
    <3>2. xpc[t] \in XferLabels \ {"waiting", "ok"}
      BY <1>1, <3>1 DEF XferLocks, Holding
    <3>3. xpc' = [xpc EXCEPT ![t] = xpc[t]]
      BY <1>1, <2>1 DEF busVars
    <3>4. QED
      BY <2>1, <3>2, <3>3
  <2>2. CASE BusLock(t)
    BY <2>2 DEF BusLock, BusGoto, XferLabels
  <2>3. CASE BusUnlock(t)
    BY <2>3 DEF BusUnlock, BusGoto, BusAt, XferLabels
  <2>4. QED
    BY <2>1, <2>2, <2>3
<1>6. XferLocks'
  BY <1>1, <1>5, MutexXfer
<1>7. Running(t, "app") /\ Light(t)
  <2>1. Running(t, "app")
    BY <1>5 DEF LockEnter, MContinue, Unlock, LockPass, LockWait, LockTake, UnlockOwner, UnlockNotify, UnlockEnable, At, Calls
  <2>2. QED
    BY <1>5, <2>1, LightCalls
<1>8. QED
  BY <1>1, <1>2, <1>3, <1>4, <1>5, <1>6, <1>7, RunningXfer DEF Light

\* A thread outside a transfer yields or creates another one.
LEMMA OtherXfer ==
    ASSUME Cooperative, CoopInv, XferInv, uses \in Buses, uses' = uses, MutexLabels', NEW t \in Threads, Otherwise(t)
    PROVE  XferInv'
<1>1. /\ XferLocks /\ XferWaits /\ XferTypeOK /\ XferQuiet /\ xpc \in [Threads -> XferLabels]
      /\ late \in [Threads -> BOOLEAN]
  BY DEF XferInv, XferTypeOK
<1>2. mutex # xfer
  BY BusAssumption
<1>3. UNCHANGED <<twi, spi, rx, late, finished, xpc>> /\ UNCHANGED mVars /\ xpc[t] = "out" /\ (Yield(t) \/ \E u \in Threads : ThreadCreate(t, u))
  BY DEF Otherwise, busVars
<1>4. Running(t, "app") /\ Light(t)
  BY <1>3, LightCalls DEF Yield, ThreadCreate, Calls
<1>5. mpc[t] = "out" /\ xpc' = [xpc EXCEPT ![t] = "out"] /\ "out" \in XferLabels
  BY <1>1, <1>3 DEF XferLocks, XferLabels
<1>6. XferLocks' /\ XferQuiet'
  BY <1>1, <1>3, <1>4, <1>5, SameLocks DEF XferQuiet, BusQuiet
<1>7. QED
  BY <1>1, <1>2, <1>3, <1>4, <1>5, <1>6, RunningXfer DEF Light

\* Every step keeps it.
LEMMA XferNext ==
    ASSUME Cooperative, KInv, BusInv, XferInv, [IpcNext]_ipcVars
    PROVE  XferInv'
<1>1. CoopInv /\ CoopInv' /\ MutexLabels' /\ uses' = uses /\ late \in [Threads -> BOOLEAN]
  BY KNext, IpcMutexLabels DEF KInv, IpcNext, ipcVars, XferInv, XferTypeOK
<1>2. CASE Kernel /\ WaitReturns /\ UNCHANGED mVars
  BY <1>1, <1>2, KernelXfer
<1>3. CASE Interrupt /\ UNCHANGED mVars /\ UNCHANGED busVars
  BY <1>1, <1>3, IpcQuiet, InterruptXfer
<1>4. CASE BusIrq
  BY <1>1, <1>4, IpcQuiet, BusIrqXfer
<1>5. ASSUME uses \notin Buses, UNCHANGED busVars
      PROVE  XferInv'
  BY <1>1, <1>5, AbsentXfer DEF busVars
<1>6. ASSUME NEW t \in Threads, CondDoes(t) \/ SemDoes(t) \/ IpmDoes(t) \/ IrqStep(t)
      PROVE  XferInv'
  <2>1. UNCHANGED busVars
    BY <1>6 DEF CondDoes, CondStep, CondUse, SemDoes, SemStep, SemUse, IpmDoes, IpmStep, IpmUse, IrqStep
  <2>2. CASE CondDoes(t) \/ IrqStep(t)
    <3>1. uses \notin Buses
      BY <2>2 DEF CondDoes, CondStep, CondUse, IrqStep, Buses
    <3>2. QED
      BY <1>5, <2>1, <3>1
  <2>3. CASE SemDoes(t)
    <3>1. uses = "sem"
      BY <2>3 DEF SemDoes, SemStep, SemUse, KInv, UsesInv, SemContinue, SemWaitStore, SemWaitBlock, SemWaitReturn, SemSignalStore, SemSignalNotify,
         SemSignalReturn, SemAt
    <3>2. QED
      BY <1>5, <2>1, <3>1 DEF Buses
  <2>4. CASE IpmDoes(t)
    <3>1. uses = "ipm"
      BY <2>4 DEF IpmDoes, IpmStep, IpmUse, KInv, UsesInv, IpmContinue, IpmPostSlot, IpmPostFill, IpmPostNotify, IpmGetWait, IpmGetAgain,
         IpmGetNotify, IpmNotified, IpmAt
    <3>2. QED
      BY <1>5, <2>1, <3>1 DEF Buses
  <2>5. QED
    BY <1>6, <2>2, <2>3, <2>4
<1>7. CASE ExternalIrq
  <2>1. uses \notin Buses /\ UNCHANGED busVars
    BY <1>7 DEF ExternalIrq, Buses
  <2>2. QED
    BY <1>5, <2>1
<1>8. ASSUME NEW t \in Threads, BusStep(t)
      PROVE  XferInv'
  <2>1. uses \in Buses
    BY <1>8 DEF BusStep, Buses
  <2>2. CASE (MContinue(t) /\ UNCHANGED busVars) \/ BusLock(t) \/ BusUnlock(t)
    BY <1>1, <2>1, <2>2, BusMutexXfer
  <2>3. CASE \/ BusTimedOut(t) \/ BusDone(t) \/ BusReturn(t)
             \/ uses = "i2c" /\ I2cStep(t)
             \/ uses = "spi" /\ SpiStep(t)
             \/ uses = "usart" /\ RxStep(t)
    BY <1>1, <2>1, <2>3, BusOwnXfer
  <2>4. BusContinue(t) <=> BusTimedOut(t) \/ BusDone(t) \/ BusUnlock(t) \/ BusReturn(t)
    BY DEF BusContinue
  <2>5. \/ MContinue(t) /\ UNCHANGED busVars
        \/ BusContinue(t) \/ BusLock(t)
        \/ uses = "i2c" /\ I2cStep(t)
        \/ uses = "spi" /\ SpiStep(t)
        \/ uses = "usart" /\ RxStep(t)
    BY <1>8 DEF BusStep
  <2>6. QED
    BY <2>2, <2>3, <2>4, <2>5, ZenonT(60)
<1>9. ASSUME NEW t \in Threads, Otherwise(t)
      PROVE  XferInv'
  <2>1. UNCHANGED busVars
    BY <1>9 DEF Otherwise
  <2>2. QED
    BY <1>1, <1>5, <1>9, <2>1, OtherXfer
<1>10. CASE UNCHANGED ipcVars
  <2>1. UNCHANGED vars /\ UNCHANGED mVars /\ UNCHANGED busVars
    BY <1>10 DEF ipcVars, allVars
  <2>2. Unmoved /\ UNCHANGED <<sig, ec, finished>>
    BY <1>1, <2>1 DEF Unmoved, vars, mVars, busVars, rqVars, evVars, tmrVars, callVars
  <2>3. XferQuiet'
    BY <1>1, <2>1 DEF XferInv, XferQuiet, BusQuiet, busVars
  <2>4. QED
    BY <2>2, <2>3, UnmovedXfer
<1>11. QED
  BY <1>2, <1>3, <1>4, <1>6, <1>7, <1>8, <1>9, <1>10 DEF IpcNext, CondDoes, SemDoes, IpmDoes

\* i2c_bus_xfer, spi_transfer and usart_read of the cooperative kernel take no
\* end of another transfer for the end of their own, although every transfer
\* leaves the queue SIGNALED or its waiter with an event, the wait may time out
\* while the hardware goes on, and other threads use the bus in between.
THEOREM OwnEndAwaited ==
    ASSUME Cooperative
    PROVE  IpcSpec => []OkMeansEnded
<1>1. IpcInit => XferInv
  <2>1. SUFFICES ASSUME IpcInit PROVE XferInv
    OBVIOUS
  <2>2. /\ queue = [q \in QueueIds |-> <<>>] /\ xfer \in QueueIds /\ \A t \in Threads : pc[t] \in {"app", "idle"}
        /\ owner = NULL /\ NULL \notin Threads /\ mpc = [t \in Threads |-> "out"]
        /\ xpc = [t \in Threads |-> "out"] /\ late = [t \in Threads |-> FALSE] /\ finished = FALSE
        /\ twi.hw = "idle" /\ spi.hw = "idle" /\ rx.len = 0
    BY <2>1, BusAssumption, MutexAssumption DEF IpcInit, MInit, Init, BusBegin, QueueIds
  <2>3. InQ(xfer) = {}
    BY <2>2 DEF InQ, ToSet
  <2>4. XferTypeOK
    BY <2>2 DEF XferTypeOK, XferLabels, MutexLabels, MLabels
  <2>5. \A t \in Threads : xpc[t] = "out" /\ mpc[t] = "out" /\ owner # t /\ ~Entering(t, xfer)
    BY <2>2 DEF Entering
  <2>6. XferLocks
    BY <2>5 DEF XferLocks, Holding
  <2>7. XferWaits
    BY <2>2, <2>3, <2>5 DEF XferWaits
  <2>8. XferQuiet
    BY <2>2 DEF XferQuiet, BusQuiet
  <2>9. QED
    BY <2>4, <2>5, <2>6, <2>7, <2>8 DEF XferInv
<1>2. XferInv => OkMeansEnded
  BY DEF XferInv, XferWaits, XferQuiet, OkMeansEnded
<1>3. KInv /\ BusInv /\ XferInv /\ [IpcNext]_ipcVars => XferInv'
  BY XferNext
<1>4. QED
  BY <1>1, <1>2, <1>3, KAlways, BusInvHolds, PTL DEF IpcSpec
=============================================================================
