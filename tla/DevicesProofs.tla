---------------------------- MODULE DevicesProofs ----------------------------
(***************************************************************************)
(* For every number of devices: no thread sleeps through its wake-up, and  *)
(* no service routine finds the queue of its device empty.  A lock is held *)
(* where the positions of the threads say so; from this the rest follows.  *)
(* Seen from the kernel, the threads and the locks implement IOService.    *)
(***************************************************************************)
EXTENDS Devices, TLAPS

\* The timer is not one of the devices.
LEMMA LineFacts ==
    /\ Timer \in Lines
    /\ \A d \in Devices : d \in Lines /\ d # Timer /\ d \in Int
    /\ \A l \in Lines : l # Timer => l \in Devices
BY DEF Lines, Devices, Timer

\* The indices of the loops over the devices stay in their range.
LEMMA IndexFacts ==
    /\ 1 \in 1 .. NumDevices + 1
    /\ \A d \in Devices : d + 1 \in 1 .. NumDevices + 1
BY DevicesAssumption DEF Devices

\* A wake-up moves a sleeping thread only.
LEMMA WakeFacts ==
    \A where : /\ where = "inactive" => Wake(where) = "active?"
               /\ where = "ready" => Wake(where) = "woken"
               /\ where \notin {"inactive", "ready"} => Wake(where) = where
BY DEF Wake

\* What every signal keeps: it moves a sleeping thread to where it is awake
\* and does not change whether the thread holds its lock.
LEMMA SignalFacts ==
    ASSUME Inv, NEW l \in Lines, Signal(l)
    PROVE  /\ thread' \in [Lines -> {"start", "active?", "inactive", "delay",
                                     "finished?", "ready", "woken"}]
           /\ \A m \in Lines : m # l => thread'[m] = thread[m]
           /\ thread'[l] \notin {"inactive", "ready"}
           /\ \A m \in Lines :
                 thread'[m] \in {"active?", "inactive", "delay", "finished?"}
                     <=> thread[m] \in {"active?", "inactive", "delay", "finished?"}
<1>1. thread \in [Lines -> {"start", "active?", "inactive", "delay", "finished?",
                            "ready", "woken"}]
  BY DEF Inv, TypeOK
<1>2. thread' = [thread EXCEPT ![l] = Wake(thread[l])]
  BY DEF Signal
<1>3. CASE thread[l] = "inactive"
  BY <1>1, <1>2, <1>3, WakeFacts
<1>4. CASE thread[l] = "ready"
  BY <1>1, <1>2, <1>4, WakeFacts
<1>5. CASE thread[l] \notin {"inactive", "ready"}
  BY <1>1, <1>2, <1>5, WakeFacts
<1> QED BY <1>3, <1>4, <1>5

LEMMA InitInv == Init => Inv
<1> SUFFICES ASSUME Init PROVE Inv
  OBVIOUS
<1>1. TypeOK
  <2>1. 0 \in 0 .. MaxRequests /\ 0 \in 0 .. MaxSpurious
    BY DevicesAssumption
  <2> QED BY <2>1, IndexFacts DEF Init, TypeOK
<1>2. LocksHeld
  BY LineFacts DEF Init, LocksHeld, Serving
<1>3. /\ ActivatedIsRequested /\ RequestedIsActivated
      /\ UpdatedIsNotReady /\ InterruptHasRequest
  BY DEF Init, ActivatedIsRequested, RequestedIsActivated, UpdatedIsNotReady,
         InterruptHasRequest
<1>4. NoLostWakeup
  BY LineFacts DEF Init, NoLostWakeup
<1> QED BY <1>1, <1>2, <1>3, <1>4 DEF Inv

(***************************************************************************)
(* The threads of the lines.                                               *)
(***************************************************************************)
LEMMA StartInv ==
    ASSUME Inv, NEW l \in Lines, Start(l)
    PROVE  Inv'
<1>1. TypeOK'
  BY DEF Inv, TypeOK, Start, kernel, queues
<1>2. LocksHeld'
  BY DEF Inv, TypeOK, LocksHeld, Start, kernel
<1>3. ActivatedIsRequested'
  BY DEF Inv, ActivatedIsRequested, Start, kernel, queues
<1>4. UpdatedIsNotReady'
  BY DEF Inv, UpdatedIsNotReady, Start, kernel, queues
<1>5. NoLostWakeup'
  BY DEF Inv, NoLostWakeup, Start, queues
<1>6. InterruptHasRequest'
  BY DEF Inv, InterruptHasRequest, Start, kernel, queues
<1>7. RequestedIsActivated'
  BY DEF Inv, RequestedIsActivated, Start, kernel, queues
<1> QED BY <1>1, <1>2, <1>3, <1>4, <1>5, <1>6, <1>7 DEF Inv

LEMMA DelayInv ==
    ASSUME Inv, NEW l \in Lines, Delay(l)
    PROVE  Inv'
<1>1. TypeOK'
  BY DEF Inv, TypeOK, Delay, kernel, queues
<1>2. LocksHeld'
  BY DEF Inv, LocksHeld, Delay, kernel
<1>3. ActivatedIsRequested'
  BY DEF Inv, ActivatedIsRequested, Delay, kernel, queues
<1>4. UpdatedIsNotReady'
  BY DEF Inv, UpdatedIsNotReady, Delay, kernel, queues
<1>5. NoLostWakeup'
  BY DEF Inv, NoLostWakeup, Delay, queues
<1>6. InterruptHasRequest'
  BY DEF Inv, InterruptHasRequest, Delay, kernel, queues
<1>7. RequestedIsActivated'
  BY DEF Inv, RequestedIsActivated, Delay, kernel, queues
<1> QED BY <1>1, <1>2, <1>3, <1>4, <1>5, <1>6, <1>7 DEF Inv

LEMMA WaitForServiceInv ==
    ASSUME Inv, NEW l \in Lines, WaitForService(l)
    PROVE  Inv'
<1>1. TypeOK'
  BY DEF Inv, TypeOK, WaitForService, kernel, queues
<1>2. LocksHeld'
  BY DEF Inv, TypeOK, LocksHeld, WaitForService, kernel
<1>3. ActivatedIsRequested'
  BY DEF Inv, ActivatedIsRequested, WaitForService, kernel, queues
<1>4. UpdatedIsNotReady'
  BY DEF Inv, UpdatedIsNotReady, LocksHeld, Serving, WaitForService, kernel, queues
<1>5. NoLostWakeup'
  BY DEF Inv, NoLostWakeup, WaitForService, queues
<1>6. InterruptHasRequest'
  BY DEF Inv, InterruptHasRequest, WaitForService, kernel, queues
<1>7. RequestedIsActivated'
  BY DEF Inv, RequestedIsActivated, WaitForService, kernel, queues
<1> QED BY <1>1, <1>2, <1>3, <1>4, <1>5, <1>6, <1>7 DEF Inv

LEMMA AcknowledgeInv ==
    ASSUME Inv, NEW l \in Lines, Acknowledge(l)
    PROVE  Inv'
<1>1. TypeOK'
  BY DEF Inv, TypeOK, Acknowledge, kernel, queues
<1>2. LocksHeld'
  BY DEF Inv, LocksHeld, Acknowledge, kernel
<1>3. ActivatedIsRequested'
  BY DEF Inv, ActivatedIsRequested, Acknowledge, kernel, queues
<1>4. UpdatedIsNotReady'
  BY DEF Inv, UpdatedIsNotReady, Acknowledge, kernel, queues
<1>5. NoLostWakeup'
  BY DEF Inv, NoLostWakeup, Acknowledge, queues
<1>6. InterruptHasRequest'
  BY DEF Inv, InterruptHasRequest, Acknowledge, kernel, queues
<1>7. RequestedIsActivated'
  BY DEF Inv, RequestedIsActivated, Acknowledge, kernel, queues
<1> QED BY <1>1, <1>2, <1>3, <1>4, <1>5, <1>6, <1>7 DEF Inv

LEMMA RelockInv ==
    ASSUME Inv, NEW l \in Lines, Relock(l)
    PROVE  Inv'
<1>1. TypeOK'
  BY DEF Inv, TypeOK, Relock, kernel, queues
<1>2. LocksHeld'
  BY DEF Inv, TypeOK, LocksHeld, Relock, kernel
<1>3. ActivatedIsRequested'
  BY DEF Inv, ActivatedIsRequested, Relock, kernel, queues
<1>4. UpdatedIsNotReady'
  BY DEF Inv, UpdatedIsNotReady, Relock, kernel, queues
<1>5. NoLostWakeup'
  BY DEF Inv, NoLostWakeup, Relock, queues
<1>6. InterruptHasRequest'
  BY DEF Inv, InterruptHasRequest, Relock, kernel, queues
<1>7. RequestedIsActivated'
  BY DEF Inv, RequestedIsActivated, Relock, kernel, queues
<1> QED BY <1>1, <1>2, <1>3, <1>4, <1>5, <1>6, <1>7 DEF Inv

LEMMA TestActivatedInv ==
    ASSUME Inv, NEW l \in Devices, TestActivated(l)
    PROVE  Inv'
<1>1. TypeOK'
  BY DEF Inv, TypeOK, TestActivated, kernel, queues
<1>2. LocksHeld'
  BY DEF Inv, LocksHeld, TestActivated, kernel
<1>3. ActivatedIsRequested'
  BY DEF Inv, ActivatedIsRequested, TestActivated, kernel, queues
<1>4. UpdatedIsNotReady'
  BY DEF Inv, UpdatedIsNotReady, TestActivated, kernel, queues
<1>5. NoLostWakeup'
  BY DEF Inv, NoLostWakeup, TestActivated, queues
<1>6. InterruptHasRequest'
  BY DEF Inv, InterruptHasRequest, TestActivated, kernel, queues
<1>7. RequestedIsActivated'
  BY DEF Inv, RequestedIsActivated, TestActivated, kernel, queues
<1> QED BY <1>1, <1>2, <1>3, <1>4, <1>5, <1>6, <1>7 DEF Inv

LEMMA SpuriousWakeupInv ==
    ASSUME Inv, NEW l \in Lines, SpuriousWakeup(l)
    PROVE  Inv'
<1>1. TypeOK'
  BY SignalFacts, DevicesAssumption DEF Inv, TypeOK, SpuriousWakeup, kernel, queues
<1>2. LocksHeld'
  BY SignalFacts DEF Inv, LocksHeld, SpuriousWakeup, kernel
<1>3. ActivatedIsRequested'
  BY DEF Inv, ActivatedIsRequested, SpuriousWakeup, kernel, queues
<1>4. UpdatedIsNotReady'
  BY LineFacts, SignalFacts
     DEF Inv, UpdatedIsNotReady, LocksHeld, Serving, SpuriousWakeup, kernel, queues
<1>5. NoLostWakeup'
  BY LineFacts, SignalFacts DEF Inv, NoLostWakeup, SpuriousWakeup, queues
<1>6. InterruptHasRequest'
  BY DEF Inv, InterruptHasRequest, SpuriousWakeup, kernel, queues
<1>7. RequestedIsActivated'
  BY DEF Inv, RequestedIsActivated, SpuriousWakeup, kernel, queues
<1> QED BY <1>1, <1>2, <1>3, <1>4, <1>5, <1>6, <1>7 DEF Inv

(***************************************************************************)
(* The OS thread.                                                          *)
(***************************************************************************)
LEMMA NoTimerInterruptInv ==
    ASSUME Inv, NoTimerInterrupt
    PROVE  Inv'
<1>1. TypeOK'
  BY DEF Inv, TypeOK, NoTimerInterrupt, queues, pthread, AfterTimer
<1>2. LocksHeld'
  BY DEF Inv, LocksHeld, Serving, NoTimerInterrupt, pthread, AfterTimer
<1>3. ActivatedIsRequested'
  BY DEF Inv, ActivatedIsRequested, NoTimerInterrupt, queues, AfterTimer
<1>4. UpdatedIsNotReady'
  BY DEF UpdatedIsNotReady, NoTimerInterrupt, AfterTimer
<1>5. NoLostWakeup'
  BY DEF Inv, NoLostWakeup, NoTimerInterrupt, queues, pthread, AfterTimer
<1>6. InterruptHasRequest'
  BY DEF Inv, InterruptHasRequest, NoTimerInterrupt, queues, AfterTimer
<1>7. RequestedIsActivated'
  BY DEF Inv, RequestedIsActivated, NoTimerInterrupt, queues, AfterTimer
<1> QED BY <1>1, <1>2, <1>3, <1>4, <1>5, <1>6, <1>7 DEF Inv

LEMMA TimerInterruptInv ==
    ASSUME Inv, TimerInterrupt
    PROVE  Inv'
<1>1. TypeOK'
  BY DEF Inv, TypeOK, TimerInterrupt, queues, AfterTimer
<1>2. LocksHeld'
  BY LineFacts DEF Inv, TypeOK, LocksHeld, Serving, TimerInterrupt, AfterTimer
<1>3. ActivatedIsRequested'
  BY DEF Inv, ActivatedIsRequested, TimerInterrupt, queues, AfterTimer
<1>4. UpdatedIsNotReady'
  BY DEF UpdatedIsNotReady, TimerInterrupt, AfterTimer
<1>5. NoLostWakeup'
  BY DEF Inv, NoLostWakeup, TimerInterrupt, queues, AfterTimer
<1>6. InterruptHasRequest'
  BY DEF Inv, InterruptHasRequest, TimerInterrupt, queues, AfterTimer
<1>7. RequestedIsActivated'
  BY DEF Inv, RequestedIsActivated, TimerInterrupt, queues
<1> QED BY <1>1, <1>2, <1>3, <1>4, <1>5, <1>6, <1>7 DEF Inv

LEMMA TimerReturnInv ==
    ASSUME Inv, TimerReturn
    PROVE  Inv'
<1>1. TypeOK'
  BY LineFacts, SignalFacts DEF Inv, TypeOK, TimerReturn, queues, AfterTimer
<1>2. LocksHeld'
  BY LineFacts, SignalFacts DEF Inv, TypeOK, LocksHeld, Serving, TimerReturn, AfterTimer
<1>3. ActivatedIsRequested'
  BY DEF Inv, ActivatedIsRequested, TimerReturn, queues, AfterTimer
<1>4. UpdatedIsNotReady'
  BY DEF UpdatedIsNotReady, TimerReturn, AfterTimer
<1>5. NoLostWakeup'
  BY LineFacts, SignalFacts DEF Inv, NoLostWakeup, TimerReturn, queues, AfterTimer
<1>6. InterruptHasRequest'
  BY DEF Inv, InterruptHasRequest, TimerReturn, queues, AfterTimer
<1>7. RequestedIsActivated'
  BY DEF Inv, RequestedIsActivated, TimerReturn, queues, AfterTimer
<1> QED BY <1>1, <1>2, <1>3, <1>4, <1>5, <1>6, <1>7 DEF Inv

LEMMA NoIOInterruptInv ==
    ASSUME Inv, NoIOInterrupt
    PROVE  Inv'
<1>1. TypeOK'
  BY IndexFacts DEF Inv, TypeOK, NoIOInterrupt, queues, pthread
<1>2. LocksHeld'
  BY DEF Inv, LocksHeld, Serving, NoIOInterrupt, pthread
<1>3. ActivatedIsRequested'
  BY DEF Inv, ActivatedIsRequested, NoIOInterrupt, queues
<1>4. UpdatedIsNotReady'
  BY DEF UpdatedIsNotReady, NoIOInterrupt
<1>5. NoLostWakeup'
  BY DEF Inv, NoLostWakeup, NoIOInterrupt, queues, pthread
<1>6. InterruptHasRequest'
  BY DEF InterruptHasRequest, NoIOInterrupt
<1>7. RequestedIsActivated'
  BY DEF Inv, RequestedIsActivated, NoIOInterrupt, queues
<1> QED BY <1>1, <1>2, <1>3, <1>4, <1>5, <1>6, <1>7 DEF Inv

LEMMA IOInterruptInv ==
    ASSUME Inv, IOInterrupt
    PROVE  Inv'
<1>1. TypeOK'
  BY DEF Inv, TypeOK, IOInterrupt, queues
<1>2. LocksHeld'
  BY LineFacts DEF Inv, TypeOK, LocksHeld, Serving, IOInterrupt
<1>3. ActivatedIsRequested'
  BY DEF Inv, ActivatedIsRequested, IOInterrupt, queues
<1>4. UpdatedIsNotReady'
  BY DEF UpdatedIsNotReady, IOInterrupt
<1>5. NoLostWakeup'
  BY DEF Inv, NoLostWakeup, IOInterrupt, queues
<1>6. InterruptHasRequest'
  BY DEF Inv, InterruptHasRequest, ActivatedIsRequested, IOInterrupt, queues
<1>7. RequestedIsActivated'
  BY DEF Inv, RequestedIsActivated, IOInterrupt, queues
<1> QED BY <1>1, <1>2, <1>3, <1>4, <1>5, <1>6, <1>7 DEF Inv

LEMMA ServeInv ==
    ASSUME Inv, Serve
    PROVE  Inv'
<1>0. dev \in Devices /\ requests[dev] \in 1 .. MaxRequests
  BY DEF Inv, TypeOK, InterruptHasRequest, LocksHeld, Serving, Serve
<1>1. TypeOK'
  <2>1. requests[dev] - 1 \in 0 .. MaxRequests
    BY <1>0, DevicesAssumption
  <2> QED BY <2>1, IndexFacts DEF Inv, TypeOK, Serve, pthread
<1>2. LocksHeld'
  BY DEF Inv, LocksHeld, Serving, Serve, pthread
<1>3. ActivatedIsRequested'
  BY DEF Inv, TypeOK, ActivatedIsRequested, Serve
<1>4. UpdatedIsNotReady'
  BY DEF Inv, TypeOK, UpdatedIsNotReady, Serve
<1>5. NoLostWakeup'
  BY DEF Inv, NoLostWakeup, Serve, pthread
<1>6. InterruptHasRequest'
  BY DEF InterruptHasRequest, Serve
<1>7. RequestedIsActivated'
  BY <1>0 DEF Inv, TypeOK, RequestedIsActivated, Serve
<1> QED BY <1>1, <1>2, <1>3, <1>4, <1>5, <1>6, <1>7 DEF Inv

LEMMA UpdateDeviceInv ==
    ASSUME Inv, UpdateDevice
    PROVE  Inv'
<1>1. TypeOK'
  BY LineFacts, SignalFacts, IndexFacts DEF Inv, TypeOK, UpdateDevice
<1>2. LocksHeld'
  BY LineFacts, SignalFacts DEF Inv, LocksHeld, UpdateDevice
<1>3. ActivatedIsRequested'
  BY DEF Inv, TypeOK, ActivatedIsRequested, UpdateDevice
<1>4. UpdatedIsNotReady'
  BY LineFacts, SignalFacts
     DEF Inv, TypeOK, UpdatedIsNotReady, LocksHeld, Serving, UpdateDevice
<1>5. NoLostWakeup'
  BY LineFacts, SignalFacts DEF Inv, TypeOK, NoLostWakeup, UpdateDevice
<1>6. InterruptHasRequest'
  BY DEF InterruptHasRequest, UpdateDevice
<1>7. RequestedIsActivated'
  BY DEF Inv, TypeOK, RequestedIsActivated, UpdateDevice
<1> QED BY <1>1, <1>2, <1>3, <1>4, <1>5, <1>6, <1>7 DEF Inv

LEMMA IOReturnInv ==
    ASSUME Inv, IOReturn
    PROVE  Inv'
<1>0. dev \in Devices /\ \A d \in Devices : upd > d
  BY DevicesAssumption DEF Inv, TypeOK, LocksHeld, Serving, IOReturn, Devices
<1>1. TypeOK'
  BY <1>0, IndexFacts DEF Inv, TypeOK, IOReturn, queues
<1>2. LocksHeld'
  BY LineFacts DEF Inv, TypeOK, LocksHeld, Serving, IOReturn
<1>3. ActivatedIsRequested'
  BY <1>0 DEF Inv, TypeOK, ActivatedIsRequested, IOReturn, queues
<1>4. UpdatedIsNotReady'
  BY DEF UpdatedIsNotReady, IOReturn
<1>5. NoLostWakeup'
  BY <1>0, LineFacts DEF Inv, NoLostWakeup, UpdatedIsNotReady, IOReturn, queues
<1>6. InterruptHasRequest'
  BY DEF InterruptHasRequest, IOReturn
<1>7. RequestedIsActivated'
  BY DEF Inv, RequestedIsActivated, IOReturn, queues
<1> QED BY <1>1, <1>2, <1>3, <1>4, <1>5, <1>6, <1>7 DEF Inv

LEMMA EndOfIterationInv ==
    ASSUME Inv, EndOfIteration
    PROVE  Inv'
<1>1. TypeOK'
  BY DevicesAssumption DEF Inv, TypeOK, EndOfIteration, queues, pthread
<1>2. LocksHeld'
  BY DEF Inv, LocksHeld, Serving, EndOfIteration, pthread
<1>3. ActivatedIsRequested'
  BY DEF Inv, ActivatedIsRequested, EndOfIteration, queues
<1>4. UpdatedIsNotReady'
  BY DEF UpdatedIsNotReady, EndOfIteration
<1>5. NoLostWakeup'
  BY DEF Inv, NoLostWakeup, EndOfIteration, queues, pthread
<1>6. InterruptHasRequest'
  BY DEF InterruptHasRequest, EndOfIteration
<1>7. RequestedIsActivated'
  BY DEF Inv, RequestedIsActivated, EndOfIteration, queues
<1> QED BY <1>1, <1>2, <1>3, <1>4, <1>5, <1>6, <1>7 DEF Inv

LEMMA RequestIOInv ==
    ASSUME Inv, NEW d \in Devices, RequestIO(d)
    PROVE  Inv'
<1>1. TypeOK'
  BY DevicesAssumption DEF Inv, TypeOK, RequestIO, pthread
<1>2. LocksHeld'
  BY DEF Inv, LocksHeld, Serving, RequestIO, pthread
<1>3. ActivatedIsRequested'
  BY DEF Inv, TypeOK, ActivatedIsRequested, RequestIO
<1>4. UpdatedIsNotReady'
  BY DEF UpdatedIsNotReady, RequestIO
<1>5. NoLostWakeup'
  BY DEF Inv, NoLostWakeup, RequestIO, pthread
<1>6. InterruptHasRequest'
  BY DEF InterruptHasRequest, RequestIO
<1>7. RequestedIsActivated'
  BY DEF Inv, TypeOK, RequestedIsActivated, RequestIO, Devices
<1> QED BY <1>1, <1>2, <1>3, <1>4, <1>5, <1>6, <1>7 DEF Inv

LEMMA NoRequestInv ==
    ASSUME Inv, NoRequest
    PROVE  Inv'
<1>1. TypeOK'
  BY DevicesAssumption DEF Inv, TypeOK, NoRequest, queues, pthread
<1>2. LocksHeld'
  BY DEF Inv, LocksHeld, Serving, NoRequest, pthread
<1>3. ActivatedIsRequested'
  BY DEF Inv, ActivatedIsRequested, NoRequest, queues
<1>4. UpdatedIsNotReady'
  BY DEF UpdatedIsNotReady, NoRequest
<1>5. NoLostWakeup'
  BY DEF Inv, NoLostWakeup, NoRequest, queues, pthread
<1>6. InterruptHasRequest'
  BY DEF InterruptHasRequest, NoRequest
<1>7. RequestedIsActivated'
  BY DEF Inv, RequestedIsActivated, NoRequest, queues
<1> QED BY <1>1, <1>2, <1>3, <1>4, <1>5, <1>6, <1>7 DEF Inv

LEMMA SynchronizationServiceInv ==
    ASSUME Inv, SynchronizationService
    PROVE  Inv'
<1>1. TypeOK'
  BY IndexFacts DEF Inv, TypeOK, SynchronizationService, queues, pthread
<1>2. LocksHeld'
  BY DEF Inv, LocksHeld, Serving, SynchronizationService, pthread
<1>3. ActivatedIsRequested'
  BY DEF Inv, ActivatedIsRequested, SynchronizationService, queues
<1>4. UpdatedIsNotReady'
  BY DEF UpdatedIsNotReady, SynchronizationService
<1>5. NoLostWakeup'
  BY DEF Inv, NoLostWakeup, SynchronizationService, queues, pthread
<1>6. InterruptHasRequest'
  BY DEF InterruptHasRequest, SynchronizationService
<1>7. RequestedIsActivated'
  BY DEF Inv, RequestedIsActivated, SynchronizationService, queues
<1> QED BY <1>1, <1>2, <1>3, <1>4, <1>5, <1>6, <1>7 DEF Inv

LEMMA ActivateInv ==
    ASSUME Inv, Activate
    PROVE  Inv'
<1>1. TypeOK'
  BY LineFacts, SignalFacts, IndexFacts DEF Inv, TypeOK, Activate
<1>2. LocksHeld'
  BY LineFacts, SignalFacts DEF Inv, LocksHeld, Activate
<1>3. ActivatedIsRequested'
  BY DEF Inv, TypeOK, ActivatedIsRequested, Activate
<1>4. UpdatedIsNotReady'
  BY DEF UpdatedIsNotReady, Activate
<1>5. NoLostWakeup'
  BY LineFacts, SignalFacts DEF Inv, TypeOK, NoLostWakeup, Activate
<1>6. InterruptHasRequest'
  BY DEF InterruptHasRequest, Activate
<1>7. RequestedIsActivated'
  <2> SUFFICES ASSUME NEW d \in Devices, requests[d] > 0, ~(upd + 1 <= d)
               PROVE  activated'[d]
    BY DEF RequestedIsActivated, Activate
  <2>1. CASE upd = d
    BY <2>1 DEF Inv, TypeOK, Activate
  <2>2. CASE upd # d
    <3>1. ~(upd <= d)
      BY <2>2, LineFacts DEF Inv, TypeOK
    <3>2. activated[d]
      BY <3>1 DEF Inv, RequestedIsActivated
    <3> QED BY <3>2 DEF Inv, TypeOK, Activate
  <2> QED BY <2>1, <2>2
<1> QED BY <1>1, <1>2, <1>3, <1>4, <1>5, <1>6, <1>7 DEF Inv

LEMMA TrapReturnInv ==
    ASSUME Inv, TrapReturn
    PROVE  Inv'
<1>1. TypeOK'
  BY IndexFacts DEF Inv, TypeOK, TrapReturn, queues, pthread
<1>2. LocksHeld'
  BY DEF Inv, LocksHeld, Serving, TrapReturn, pthread
<1>3. ActivatedIsRequested'
  BY DEF Inv, ActivatedIsRequested, TrapReturn, queues
<1>4. UpdatedIsNotReady'
  BY DEF UpdatedIsNotReady, TrapReturn
<1>5. NoLostWakeup'
  BY DEF Inv, NoLostWakeup, TrapReturn, queues, pthread
<1>6. InterruptHasRequest'
  BY DEF InterruptHasRequest, TrapReturn
<1>7. RequestedIsActivated'
  BY DevicesAssumption DEF Inv, TypeOK, RequestedIsActivated, TrapReturn, queues, Devices
<1> QED BY <1>1, <1>2, <1>3, <1>4, <1>5, <1>6, <1>7 DEF Inv

LEMMA StepInv == Inv /\ [Next]_vars => Inv'
<1> SUFFICES ASSUME Inv, [Next]_vars PROVE Inv'
  OBVIOUS
<1>1. ASSUME NEW l \in Lines, ThreadStep(l)
      PROVE  Inv'
  BY <1>1, StartInv, DelayInv, WaitForServiceInv, AcknowledgeInv, RelockInv, TestActivatedInv
     DEF ThreadStep
<1>2. CASE \E l \in Lines : SpuriousWakeup(l)
  BY <1>2, SpuriousWakeupInv
<1>3. CASE OSStep
  BY <1>3, NoTimerInterruptInv, TimerInterruptInv, TimerReturnInv, NoIOInterruptInv,
     IOInterruptInv, ServeInv, UpdateDeviceInv, IOReturnInv, EndOfIterationInv, RequestIOInv,
     NoRequestInv, SynchronizationServiceInv, ActivateInv, TrapReturnInv
     DEF OSStep
<1>4. CASE UNCHANGED vars
  BY <1>4 DEF vars, kernel, queues, pthread, Inv, TypeOK, LocksHeld, ActivatedIsRequested,
              RequestedIsActivated, UpdatedIsNotReady, NoLostWakeup, InterruptHasRequest
<1> QED BY <1>1, <1>2, <1>3, <1>4 DEF Next

\* The invariant holds in every reachable state, however many devices there
\* are and however often a thread wakes up for nothing.
THEOREM DevicesInvariance == Spec => []Inv
<1>1. Init => Inv
  BY InitInv
<1>2. Inv /\ [Next]_vars => Inv'
  BY StepInv
<1> QED BY <1>1, <1>2, PTL DEF Spec

\* A thread never sleeps through the activation of its device or the end of
\* the service it waits for.
THEOREM NoWakeupIsLost == Spec => []NoLostWakeup
<1>1. Inv => NoLostWakeup
  BY DEF Inv
<1> QED BY <1>1, DevicesInvariance, PTL

\* dispatcherIO never dequeues from an empty queue.
THEOREM NoEmptyService == Spec => []InterruptHasRequest
<1>1. Inv => InterruptHasRequest
  BY DEF Inv
<1> QED BY <1>1, DevicesInvariance, PTL

(***************************************************************************)
(* The refinement.  Only four actions matter to the service of the         *)
(* devices; the loops over the devices change nothing that it sees.        *)
(***************************************************************************)
OnOff(d) == CASE os = "update"   -> activated[d] /\ requests[d] > 0
              [] os = "activate" -> activated[d] \/ requests[d] > 0
              [] OTHER           -> activated[d]

InService == IF os \in {"nested_timer_check", "nested_pseudoISR", "serve"} THEN dev ELSE 0

\* A step of a thread touches neither the queues nor the switches nor the
\* device in service: it is a stutter of IOService.
LEMMA ThreadsAreQuiet ==
    ASSUME NEW l \in Lines, ThreadStep(l) \/ SpuriousWakeup(l)
    PROVE  UNCHANGED <<requests, [d \in Devices |-> OnOff(d)], InService>>
<1>1. UNCHANGED <<kernel, queues>>
  BY DEF ThreadStep, Start, TestActivated, Delay, WaitForService, Acknowledge, Relock,
         SpuriousWakeup
<1> QED BY <1>1 DEF kernel, queues, OnOff, InService

LEMMA UpdateIsQuiet ==
    ASSUME Inv, UpdateDevice
    PROVE  UNCHANGED <<requests, [d \in Devices |-> OnOff(d)], InService>>
<1>1. os = "update" /\ os' = "update" /\ dev' = dev /\ requests' = requests
  BY DEF UpdateDevice
<1>2. \A d \in Devices : (activated'[d] /\ requests[d] > 0) <=> (activated[d] /\ requests[d] > 0)
  BY DEF UpdateDevice, Inv, TypeOK
<1>3. activated' \in [Devices -> BOOLEAN]
  BY DEF UpdateDevice, Inv, TypeOK
<1>4. \A d \in Devices : OnOff(d)' = OnOff(d)
  BY <1>1, <1>2, <1>3 DEF OnOff
<1> QED BY <1>1, <1>4 DEF InService

LEMMA ActivateIsQuiet ==
    ASSUME Inv, Activate
    PROVE  UNCHANGED <<requests, [d \in Devices |-> OnOff(d)], InService>>
<1>1. os = "activate" /\ os' = "activate" /\ dev' = dev /\ requests' = requests
  BY DEF Activate
<1>2. \A d \in Devices : (activated'[d] \/ requests[d] > 0) <=> (activated[d] \/ requests[d] > 0)
  BY DEF Activate, Inv, TypeOK
<1>3. \A d \in Devices : OnOff(d)' = OnOff(d)
  BY <1>1, <1>2 DEF OnOff
<1> QED BY <1>1, <1>3 DEF InService

LEMMA ServeCompletes ==
    ASSUME Inv, Serve
    PROVE  \E d \in Devices : Service!Complete(d)
<1>1. dev \in Devices /\ requests[dev] > 0 /\ activated[dev]
  BY DEF Inv, LocksHeld, Serving, InterruptHasRequest, RequestedIsActivated, Serve
<1>2. /\ os = "serve" /\ os' = "update" /\ dev' = dev /\ activated' = activated
      /\ requests' = [requests EXCEPT ![dev] = @ - 1]
  BY DEF Serve
<1>3. /\ requests \in [Devices -> 0 .. MaxRequests] /\ activated \in [Devices -> BOOLEAN]
      /\ \A d \in Devices : activated[d] => requests[d] > 0
  BY <1>2 DEF Inv, TypeOK, ActivatedIsRequested
<1>4. \A d \in Devices : OnOff(d) = activated[d] /\ OnOff(d)' = (activated[d] /\ requests'[d] > 0)
  BY <1>2 DEF OnOff
<1>5. \A d \in Devices : OnOff(d)' = IF d = dev THEN requests[dev] > 1 ELSE OnOff(d)
  <2> SUFFICES ASSUME NEW d \in Devices
               PROVE  OnOff(d)' = IF d = dev THEN requests[dev] > 1 ELSE OnOff(d)
    OBVIOUS
  <2>1. CASE d = dev
    <3>1. requests'[d] > 0 <=> requests[dev] > 1
      BY <1>1, <1>2, <1>3, <2>1
    <3> QED BY <1>1, <1>4, <2>1, <3>1
  <2>2. CASE d # dev
    <3>1. requests'[d] = requests[d]
      BY <1>2, <1>3, <2>2
    <3>2. (activated[d] /\ requests[d] > 0) = activated[d]
      BY <1>3
    <3> QED BY <1>4, <2>2, <3>1, <3>2
  <2> QED BY <2>1, <2>2
<1>6. [d \in Devices |-> OnOff(d)]' = [[d \in Devices |-> OnOff(d)] EXCEPT ![dev] = requests[dev] > 1]
  BY <1>1, <1>5
<1>7. InService = dev /\ InService' = 0
  BY <1>2 DEF InService
<1>8. PICK d \in Devices : d = dev
  BY <1>1
<1>9. Service!Complete(d)
  BY <1>1, <1>2, <1>6, <1>7, <1>8 DEF OnOff, InService, Service!Complete
<1> QED BY <1>9

LEMMA RequestIsRequest ==
    ASSUME Inv, NEW d \in Devices, RequestIO(d)
    PROVE  Service!Request(d)
<1>1. /\ os = "IO_check" /\ os' = "activate" /\ dev' = dev /\ activated' = activated
      /\ requests' = [requests EXCEPT ![d] = @ + 1]
  BY DEF RequestIO
<1>2. /\ requests \in [Devices -> 0 .. MaxRequests] /\ activated \in [Devices -> BOOLEAN]
      /\ \A e \in Devices : activated[e] <=> requests[e] > 0
  BY <1>1 DEF Inv, TypeOK, ActivatedIsRequested, RequestedIsActivated
<1>3. \A e \in Devices : OnOff(e) = activated[e] /\ OnOff(e)' = (activated[e] \/ requests'[e] > 0)
  BY <1>1 DEF OnOff
<1>4. \A e \in Devices : OnOff(e)' = IF e = d THEN TRUE ELSE OnOff(e)
  <2>1. requests'[d] > 0
    BY <1>1, <1>2
  <2>2. \A e \in Devices : e # d => (activated[e] \/ requests'[e] > 0) = activated[e]
    BY <1>1, <1>2
  <2> QED BY <1>3, <2>1, <2>2
<1>5. [e \in Devices |-> OnOff(e)]' = [[e \in Devices |-> OnOff(e)] EXCEPT ![d] = TRUE]
  BY <1>4
<1>6. InService = 0 /\ InService' = 0
  BY <1>1 DEF InService
<1> QED BY <1>1, <1>5, <1>6 DEF OnOff, InService, Service!Request

LEMMA InterruptIsInterrupt ==
    ASSUME Inv, IOInterrupt
    PROVE  Service!Interrupt(dev) /\ dev \in Devices
<1>1. /\ os = "IO_check" /\ os' = "nested_timer_check" /\ dev' = dev
      /\ dev \in Devices /\ activated[dev] /\ UNCHANGED queues
  BY DEF IOInterrupt
<1>2. \A d \in Devices : OnOff(d) = activated[d] /\ OnOff(d)' = activated[d]
  BY <1>1 DEF OnOff, queues
<1>3. InService = 0 /\ InService' = dev
  BY <1>1 DEF InService
<1>4. [d \in Devices |-> OnOff(d)]' = [d \in Devices |-> OnOff(d)]
  BY <1>2
<1>5. [d \in Devices |-> OnOff(d)][dev]
  BY <1>1, <1>2
<1> QED BY <1>1, <1>3, <1>4, <1>5 DEF OnOff, InService, queues, Service!Interrupt

\* When a loop over the devices begins or ends, every device is on exactly if
\* it is requested, so the mapping changes nothing.
LEMMA OSOtherwiseQuiet ==
    ASSUME Inv,
           \/ NoTimerInterrupt \/ TimerInterrupt \/ TimerReturn \/ NoIOInterrupt
           \/ IOReturn \/ EndOfIteration \/ NoRequest \/ SynchronizationService
           \/ TrapReturn \/ UNCHANGED vars
    PROVE  UNCHANGED <<requests, [d \in Devices |-> OnOff(d)], InService>>
<1>1. CASE NoTimerInterrupt \/ TimerInterrupt \/ TimerReturn
  BY <1>1 DEF NoTimerInterrupt, TimerInterrupt, TimerReturn, AfterTimer, queues, OnOff, InService
<1>2. CASE NoIOInterrupt \/ EndOfIteration \/ SynchronizationService \/ UNCHANGED vars
  BY <1>2 DEF NoIOInterrupt, EndOfIteration, SynchronizationService, vars, kernel, queues,
              OnOff, InService
<1>3. CASE IOReturn
  <2>1. \A d \in Devices : activated[d] = (activated[d] /\ requests[d] > 0)
    <3>1. \A d \in Devices : ~(upd <= d)
      BY <1>3, DevicesAssumption DEF IOReturn, Inv, TypeOK, Devices
    <3> QED BY <3>1 DEF Inv, TypeOK, ActivatedIsRequested
  <2>2. os = "update" /\ os' = "IO_check" /\ UNCHANGED queues
    BY <1>3 DEF IOReturn
  <2> QED BY <2>1, <2>2 DEF queues, OnOff, InService
<1>4. CASE NoRequest
  <2>1. \A d \in Devices : activated[d] = (activated[d] \/ requests[d] > 0)
    BY <1>4 DEF NoRequest, Inv, TypeOK, RequestedIsActivated
  <2>2. os = "IO_check" /\ os' = "activate" /\ UNCHANGED queues
    BY <1>4 DEF NoRequest
  <2> QED BY <2>1, <2>2 DEF queues, OnOff, InService
<1>5. CASE TrapReturn
  <2>1. \A d \in Devices : activated[d] = (activated[d] \/ requests[d] > 0)
    BY <1>5, DevicesAssumption DEF TrapReturn, Inv, TypeOK, RequestedIsActivated, Devices
  <2>2. os = "activate" /\ os' = "timer_check" /\ UNCHANGED queues
    BY <1>5 DEF TrapReturn
  <2> QED BY <2>1, <2>2 DEF queues, OnOff, InService
<1> QED BY <1>1, <1>2, <1>3, <1>4, <1>5

\* The threads serve the devices as IOService promises: every interrupt is
\* that of a device that is on, and completes one of its requests.
THEOREM DevicesImplementService == Spec => ImplementsIOService
<1>1. Init => Service!Init
  BY DEF Init, Service!Init
<1>2. Inv /\ [Next]_vars => [Service!Next]_<<requests, [d \in Devices |-> OnOff(d)], InService>>
  <2> SUFFICES ASSUME Inv, [Next]_vars
               PROVE  [Service!Next]_<<requests, [d \in Devices |-> OnOff(d)], InService>>
    OBVIOUS
  <2>1. CASE \E l \in Lines : ThreadStep(l) \/ SpuriousWakeup(l)
    BY <2>1, ThreadsAreQuiet
  <2>2. CASE UpdateDevice \/ Activate
    BY <2>2, UpdateIsQuiet, ActivateIsQuiet
  <2>3. CASE Serve
    BY <2>3, ServeCompletes DEF Service!Next
  <2>4. CASE IOInterrupt
    BY <2>4, InterruptIsInterrupt DEF Service!Next
  <2>5. ASSUME NEW d \in Devices, RequestIO(d) PROVE Service!Next
    BY <2>5, RequestIsRequest DEF Service!Next
  <2> QED BY <2>1, <2>2, <2>3, <2>4, <2>5, OSOtherwiseQuiet DEF Next, OSStep
<1> QED BY <1>1, <1>2, DevicesInvariance, PTL
        DEF Spec, ImplementsIOService, Service!Spec, Service!ioVars, OnOff, InService
=============================================================================
