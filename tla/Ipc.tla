-------------------------------- MODULE Ipc --------------------------------
(***************************************************************************)
(* An application on top of the scheduler that uses a condition variable   *)
(* (with its mutex), a semaphore, a message queue, a bus or a threaded     *)
(* interrupt.                                                              *)
(***************************************************************************)
EXTENDS Condition, Semaphore, Ipm, Bus, IrqThread

CONSTANT Services   \* the ones an application may choose from

ASSUME ServicesAssumption == Services \subseteq {"cond", "sem", "ipm", "i2c", "spi", "usart", "irq"}

\* Each service has a queue of its own; what notifies that of a bus is the end
\* of a transfer, and no other interrupt.
ASSUME OwnQueueAssumption ==
    /\ {sem, ipm} \cap {mutex, cond, xfer} = {} /\ sem # ipm /\ cond # xfer
    /\ xfer \notin IrqQueues

VARIABLE uses       \* the one it uses

ipcVars == <<allVars, condVars, semVars, ipmVars, busVars, irqThreadVars, uses>>

\* Calls that do not concern the service; a thread in the middle of something
\* does not make them, but one that holds a unit or the lock may yield.
Otherwise(t) ==
    /\ mpc[t] \in {"out", "held"} /\ cpc[t] = "out" /\ spc[t] \in {"out", "held"}
    /\ ipc[t] = "out" /\ xpc[t] = "out" /\ qpc[t] = "out"
    /\ Yield(t) \/ \E u \in Threads \ {ithread} : ThreadCreate(t, u)
    /\ UNCHANGED <<mVars, condVars, semVars, ipmVars, busVars>>

CondStep(t) ==
    /\ uses = "cond"
    /\ \/ cpc[t] \in {"out", "unlocking", "locking"} /\ MContinue(t) /\ UNCHANGED condVars
       \/ CondContinue(t)
    /\ UNCHANGED <<semVars, ipmVars, busVars>>

\* condition_lock, condition_unlock and the calls in between; a thread that
\* condition_wait gave the lock back to looks at pred before anything else.
CondUse(t) ==
    /\ uses = "cond"
    /\ \/ cpc[t] = "out" /\ mpc[t] = "out" /\ LockEnter(t) /\ UNCHANGED condVars
       \/ cpc[t] = "out" /\ Unlock(t) /\ UNCHANGED condVars
       \/ CondCall(t)
    /\ UNCHANGED <<semVars, ipmVars, busVars>>

SemStep(t) == SemContinue(t) /\ UNCHANGED <<mVars, condVars, ipmVars, busVars>>
SemUse(t) == uses = "sem" /\ SemCall(t) /\ UNCHANGED <<mVars, condVars, ipmVars, busVars>>
IpmStep(t) == IpmContinue(t) /\ UNCHANGED <<mVars, condVars, semVars, busVars>>
IpmUse(t) == uses = "ipm" /\ IpmCall(t) /\ UNCHANGED <<mVars, condVars, semVars, busVars>>

BusStep(t) ==
    /\ uses \in {"i2c", "spi", "usart"}
    /\ \/ MContinue(t) /\ UNCHANGED busVars
       \/ BusContinue(t) \/ BusLock(t)
       \/ uses = "i2c" /\ I2cStep(t)
       \/ uses = "spi" /\ SpiStep(t)
       \/ uses = "usart" /\ RxStep(t)
    /\ UNCHANGED <<condVars, semVars, ipmVars>>

IrqStep(t) ==
    /\ uses = "irq"
    /\ IrqContinue(t) \/ IrqCall(t)
    /\ UNCHANGED <<mVars, condVars, semVars, ipmVars, busVars>>

ExternalIrq ==
    /\ uses = "irq"
    /\ DeviceEdge \/ ExtIrq
    /\ UNCHANGED <<mVars, condVars, semVars, ipmVars, busVars>>

BusIrq == (TwiIrq \/ SpiIrq \/ RxIrq) /\ UNCHANGED <<mVars, condVars, semVars, ipmVars>>

IpcInit == MInit /\ CondBegin /\ SemBegin /\ IpmBegin /\ BusBegin /\ IrqBegin /\ uses \in Services

IpcNext ==
    /\ \/ /\ \/ Kernel /\ WaitReturns /\ UNCHANGED <<mVars, condVars, semVars, ipmVars>>
             \/ Interrupt /\ (FastBus => BusQuiet) /\ UNCHANGED <<mVars, condVars, semVars, ipmVars, busVars>>
             \/ BusIrq
             \/ \E t \in Threads : \/ CondStep(t) \/ SemStep(t) \/ IpmStep(t)
                                   \/ CondUse(t) \/ SemUse(t) \/ IpmUse(t) \/ BusStep(t)
                                   \/ Otherwise(t)
          /\ UNCHANGED irqThreadVars
       \/ ExternalIrq \/ \E t \in Threads : IrqStep(t)
    /\ UNCHANGED uses

IpcSpec == IpcInit /\ [][IpcNext]_ipcVars

----------------------------------------------------------------------------
(* Properties *)

\* i2c_bus_xfer: "@return Amount of messages transferred or an error code."
\* It returns the number of all messages if atmega_i2c_xfer returns -EOK.
AllTransferred ==
    \A t \in Threads : uses = "i2c" /\ xpc[t] = "ok" /\ twi.error = "EOK" =>
        \A i \in 1..Len(twi.msgs) : twi.msgs[i].len = 0
============================================================================
