------------------------------- MODULE Devices -------------------------------
(***************************************************************************)
(* The threads: the OS thread, one thread per IO device and the timer      *)
(* thread, with the pthread mutexes and conditions between them.  A thread *)
(* holds the lock of its line except while it sleeps in pthread_cond_wait; *)
(* the OS thread takes a successful trylock for an interrupt.  Line 0 is   *)
(* the timer.  A section under an IO_n_active_lock is one step, for no     *)
(* thread looks at what it changes without the lock, except the OS thread  *)
(* at what only the OS thread changes.  The processes are counted.         *)
(***************************************************************************)
EXTENDS Integers

CONSTANTS NumDevices,
          MaxRequests,      \* a bound on the processes that queue for a device
          MaxSpurious       \* a bound on the spurious wake-ups

ASSUME DevicesAssumption ==
    NumDevices \in Nat /\ MaxRequests \in Nat /\ MaxSpurious \in Nat

Devices == 1 .. NumDevices
Timer   == 0
Lines   == {Timer} \union Devices

VARIABLES
    os,             \* where the OS thread is
    trap,           \* is pseudoTSR in progress?
    dev,            \* the device that IO_check looks at or serves
    upd,            \* the device whose activation is looked at
    requests,       \* length of IO_n_Processes
    activated,      \* IO_n_activated
    lock,           \* timer_lock, IO_n_lock: who holds it
    finished,       \* ISR_FINISHED, IOSR_n_finished
    thread,         \* where each thread of a line is
    spurious        \* the spurious wake-ups so far

kernel == <<os, trap, dev, upd>>
queues == <<requests, activated>>
pthread == <<lock, finished, thread, spurious>>
vars   == <<kernel, queues, pthread>>

Init ==
    /\ os = "timer_check" /\ trap = FALSE /\ dev = 1 /\ upd = 1
    /\ requests = [d \in Devices |-> 0]
    /\ activated = [d \in Devices |-> FALSE]
    /\ lock = [l \in Lines |-> "free"]
    /\ finished = [l \in Lines |-> FALSE]
    /\ thread = [l \in Lines |-> "start"]
    /\ spurious = 0

-----------------------------------------------------------------------------
(***************************************************************************)
(* The thread of a line.                                                   *)
(***************************************************************************)
Start(l) ==
    /\ thread[l] = "start"
    /\ lock[l] = "free"
    /\ lock' = [lock EXCEPT ![l] = "thread"]
    /\ thread' = [thread EXCEPT ![l] = IF l = Timer THEN "delay" ELSE "active?"]
    /\ UNCHANGED <<kernel, queues, finished, spurious>>

\* The device waits for its activation, with its lock held.
TestActivated(d) ==
    /\ thread[d] = "active?"
    /\ thread' = [thread EXCEPT ![d] = IF activated[d] THEN "delay" ELSE "inactive"]
    /\ UNCHANGED <<kernel, queues, lock, finished, spurious>>

Delay(l) ==
    /\ thread[l] = "delay"
    /\ thread' = [thread EXCEPT ![l] = "finished?"]
    /\ UNCHANGED <<kernel, queues, lock, finished, spurious>>

\* The wait for the service routine gives the lock up: the interrupt.
WaitForService(l) ==
    /\ thread[l] = "finished?"
    /\ ~finished[l]
    /\ thread' = [thread EXCEPT ![l] = "ready"]
    /\ lock' = [lock EXCEPT ![l] = "free"]
    /\ UNCHANGED <<kernel, queues, finished, spurious>>

Acknowledge_KeepsFlag(l) ==
    /\ thread[l] = "finished?"
    /\ finished[l]
    /\ thread' = [thread EXCEPT ![l] = IF l = Timer THEN "delay" ELSE "active?"]
    /\ UNCHANGED <<kernel, queues, lock, finished, spurious>>
Acknowledge(l) ==
    /\ thread[l] = "finished?"
    /\ finished[l]
    /\ finished' = [finished EXCEPT ![l] = FALSE]
    /\ thread' = [thread EXCEPT ![l] = IF l = Timer THEN "delay" ELSE "active?"]
    /\ UNCHANGED <<kernel, queues, lock, spurious>>

\* A thread that was woken from the wait for the service routine.
Relock(l) ==
    /\ thread[l] = "woken"
    /\ lock[l] = "free"
    /\ lock' = [lock EXCEPT ![l] = "thread"]
    /\ thread' = [thread EXCEPT ![l] = "finished?"]
    /\ UNCHANGED <<kernel, queues, finished, spurious>>

\* What a wake-up does to a sleeping thread, and to one that does not sleep.
Wake(where) == CASE where = "inactive" -> "active?"
                 [] where = "ready"    -> "woken"
                 [] OTHER              -> where
Signal(l) == thread' = [thread EXCEPT ![l] = Wake(@)]

SpuriousWakeup(l) ==
    /\ thread[l] \in {"inactive", "ready"}
    /\ spurious < MaxSpurious
    /\ spurious' = spurious + 1
    /\ Signal(l)
    /\ UNCHANGED <<kernel, queues, lock, finished>>

ThreadStep(l) ==
    \/ Start(l) \/ Delay(l) \/ WaitForService(l) \/ Acknowledge(l) \/ Relock(l)
    \/ l \in Devices /\ TestActivated(l)

-----------------------------------------------------------------------------
(***************************************************************************)
(* The OS thread.                                                          *)
(***************************************************************************)
\* timer_check is called in the main loop and in pseudoTSR, before IO_check,
\* and in IO_Interupt_Routine, before the scheduler.
AfterTimer == IF os \in {"timer_check", "pseudoISR"} THEN "IO_check" ELSE "serve"

NoTimerInterrupt ==
    /\ os \in {"timer_check", "nested_timer_check"}
    /\ lock[Timer] # "free"
    /\ os' = AfterTimer
    /\ UNCHANGED <<trap, dev, upd, queues, pthread>>

TimerInterrupt ==
    /\ os \in {"timer_check", "nested_timer_check"}
    /\ lock[Timer] = "free"
    /\ lock' = [lock EXCEPT ![Timer] = "os"]
    /\ os' = IF os = "timer_check" THEN "pseudoISR" ELSE "nested_pseudoISR"
    /\ UNCHANGED <<trap, dev, upd, queues, finished, thread, spurious>>

TimerReturn ==
    /\ os \in {"pseudoISR", "nested_pseudoISR"}
    /\ finished' = [finished EXCEPT ![Timer] = TRUE]
    /\ Signal(Timer)
    /\ lock' = [lock EXCEPT ![Timer] = "free"]
    /\ os' = AfterTimer
    /\ UNCHANGED <<trap, dev, upd, queues, spurious>>

NoIOInterrupt ==
    /\ os = "IO_check"
    /\ dev \in Devices
    /\ ~activated[dev] \/ lock[dev] # "free"
    /\ dev' = dev + 1
    /\ UNCHANGED <<os, trap, upd, queues, pthread>>

IOInterrupt ==
    /\ os = "IO_check"
    /\ dev \in Devices
    /\ activated[dev] /\ lock[dev] = "free"
    /\ lock' = [lock EXCEPT ![dev] = "os"]
    /\ os' = "nested_timer_check"
    /\ UNCHANGED <<trap, dev, upd, queues, finished, thread, spurious>>

\* The scheduler takes the head of the queue of the device.
Serve ==
    /\ os = "serve"
    /\ requests' = [requests EXCEPT ![dev] = @ - 1]
    /\ os' = "update" /\ upd' = 1
    /\ UNCHANGED <<trap, dev, activated, pthread>>

UpdateDevice_StaysOn ==
    /\ os = "update"
    /\ upd \in Devices
    /\ IF requests[upd] = 0 THEN UNCHANGED thread ELSE Signal(upd)
    /\ upd' = upd + 1
    /\ UNCHANGED <<os, trap, dev, requests, activated, lock, finished, spurious>>
UpdateDevice ==
    /\ os = "update"
    /\ upd \in Devices
    /\ IF requests[upd] = 0
       THEN activated' = [activated EXCEPT ![upd] = FALSE] /\ UNCHANGED thread
       ELSE Signal(upd) /\ UNCHANGED activated
    /\ upd' = upd + 1
    /\ UNCHANGED <<os, trap, dev, requests, lock, finished, spurious>>

\* The thread was signalled before the flag it waits for is set, but it
\* cannot look at the flag before the lock is released.
IOReturn ==
    /\ os = "update"
    /\ upd \notin Devices
    /\ finished' = [finished EXCEPT ![dev] = TRUE]
    /\ lock' = [lock EXCEPT ![dev] = "free"]
    /\ os' = "IO_check" /\ dev' = dev + 1
    /\ UNCHANGED <<trap, upd, queues, thread, spurious>>

\* The end of an iteration without a trap, and a trap.
EndOfIteration ==
    /\ os = "IO_check" /\ dev \notin Devices /\ ~trap
    /\ os' = "timer_check" /\ dev' = 1
    /\ trap' \in BOOLEAN
    /\ UNCHANGED <<upd, queues, pthread>>

\* The scheduler enqueues the process that requests IO.
RequestIO(d) ==
    /\ os = "IO_check" /\ dev \notin Devices /\ trap
    /\ requests[d] < MaxRequests
    /\ requests' = [requests EXCEPT ![d] = @ + 1]
    /\ os' = "activate" /\ upd' = 1
    /\ UNCHANGED <<trap, dev, activated, pthread>>

\* A termination.
NoRequest ==
    /\ os = "IO_check" /\ dev \notin Devices /\ trap
    /\ os' = "activate" /\ upd' = 1
    /\ UNCHANGED <<trap, dev, queues, pthread>>

\* The other service routines return without a look at the devices.
SynchronizationService ==
    /\ os = "IO_check" /\ dev \notin Devices /\ trap
    /\ os' = "timer_check" /\ dev' = 1 /\ trap' = FALSE
    /\ UNCHANGED <<upd, queues, pthread>>

Activate_WithoutSignal ==
    /\ os = "activate"
    /\ upd \in Devices
    /\ activated' = [activated EXCEPT ![upd] = @ \/ requests[upd] > 0]
    /\ upd' = upd + 1
    /\ UNCHANGED <<os, trap, dev, requests, pthread>>
Activate ==
    /\ os = "activate"
    /\ upd \in Devices
    /\ IF requests[upd] > 0
       THEN activated' = [activated EXCEPT ![upd] = TRUE] /\ Signal(upd)
       ELSE UNCHANGED <<activated, thread>>
    /\ upd' = upd + 1
    /\ UNCHANGED <<os, trap, dev, requests, lock, finished, spurious>>

TrapReturn ==
    /\ os = "activate"
    /\ upd \notin Devices
    /\ os' = "timer_check" /\ dev' = 1 /\ trap' = FALSE
    /\ UNCHANGED <<upd, queues, pthread>>

OSStep ==
    \/ NoTimerInterrupt \/ TimerInterrupt \/ TimerReturn
    \/ NoIOInterrupt \/ IOInterrupt \/ Serve \/ UpdateDevice \/ IOReturn
    \/ EndOfIteration \/ NoRequest \/ SynchronizationService
    \/ \E d \in Devices : RequestIO(d)
    \/ Activate \/ TrapReturn

Next == OSStep \/ \E l \in Lines : ThreadStep(l) \/ SpuriousWakeup(l)

Spec == Init /\ [][Next]_vars

\* No thread is stopped for ever by the operating system underneath; nothing
\* is assumed about which of two threads gets a lock.
FairSpec == Spec /\ WF_vars(OSStep) /\ \A l \in Lines : WF_vars(ThreadStep(l))

-----------------------------------------------------------------------------
TypeOK ==
    /\ os \in {"timer_check", "pseudoISR", "nested_timer_check", "nested_pseudoISR",
               "IO_check", "serve", "update", "activate"}
    /\ trap \in BOOLEAN
    /\ dev \in 1 .. NumDevices + 1 /\ upd \in 1 .. NumDevices + 1
    /\ requests \in [Devices -> 0 .. MaxRequests]
    /\ activated \in [Devices -> BOOLEAN]
    /\ lock \in [Lines -> {"free", "thread", "os"}]
    /\ finished \in [Lines -> BOOLEAN]
    /\ thread \in [Lines -> {"start", "active?", "inactive", "delay", "finished?",
                             "ready", "woken"}]
    /\ spurious \in 0 .. MaxSpurious

\* A thread never sleeps through what it waits for: one that waits for its
\* activation is not activated, and one that waits for a service that is
\* over is not needed.  (The service routine sets the flag after its signal,
\* and sends none when nobody queues any more.)
NoLostWakeup ==
    /\ \A d \in Devices :
          /\ thread[d] = "inactive" => ~activated[d]
          /\ thread[d] = "ready" /\ finished[d] => ~activated[d]
    /\ thread[Timer] = "ready" => ~finished[Timer]

\* The service routine of a device finds a process in its queue, although
\* other service routines run between the look at the activation and the
\* dequeue (dispatcherIO does not check).
InterruptHasRequest ==
    os \in {"nested_timer_check", "nested_pseudoISR", "serve"} => requests[dev] > 0

(***************************************************************************)
(* The threads keep what the kernel is promised: with the activations and  *)
(* signals device by device, and interrupts taken while a lock happens to  *)
(* be free, each request is completed by one interrupt of a device that is *)
(* on.  The loops over the devices end up at once where they are bound to. *)
(***************************************************************************)
Service == INSTANCE IOService WITH
    activated <- [d \in Devices |-> CASE os = "update"   -> activated[d] /\ requests[d] > 0
                                       [] os = "activate" -> activated[d] \/ requests[d] > 0
                                       [] OTHER           -> activated[d]],
    serving   <- IF os \in {"nested_timer_check", "nested_pseudoISR", "serve"} THEN dev ELSE 0
ImplementsIOService == Service!Spec

\* A process that queues for a device is served in the end, unless the thread
\* of the device is woken in vain for ever: each trap service routine signals
\* it, and while it looks at the flag the OS thread may miss the interrupt.
EveryRequestServed ==
    \A d \in Devices :
        \/ requests[d] > 0 ~> os = "serve" /\ dev = d
        \/ []<>(thread[d] = "woken" /\ ~finished[d])

\* Timer interrupts come for ever: the thread of the timer always gives its
\* lock up again.
TimerKeepsFiring == []<>(os \in {"pseudoISR", "nested_pseudoISR"})

\* "Sleep thread then unlock to signal IO 1 device is ready" (OS.c:337): an
\* interrupt of a running device comes only when its thread has seen the end
\* of the last one, and so has gone through its delay.
DelayBeforeInterrupt ==
    [][\A d \in Devices :
          lock[d] # "os" /\ lock'[d] = "os" /\ thread[d] # "start" => ~finished[d]]_vars

-----------------------------------------------------------------------------
(***************************************************************************)
(* The inductive invariant of DevicesProofs.                               *)
(***************************************************************************)
Serving == {"nested_timer_check", "nested_pseudoISR", "serve", "update"}

\* Who holds a lock is known from where the threads are.
LocksHeld ==
    /\ \A l \in Lines :
          lock[l] = "thread" <=> thread[l] \in {"active?", "inactive", "delay", "finished?"}
    /\ lock[Timer] = "os" <=> os \in {"pseudoISR", "nested_pseudoISR"}
    /\ \A d \in Devices : lock[d] = "os" <=> os \in Serving /\ dev = d
    /\ os \in Serving => dev \in Devices

\* Only in the middle of an update is a device on without a request.
ActivatedIsRequested ==
    \A d \in Devices :
        activated[d] => requests[d] > 0 \/ (os = "update" /\ dev = d /\ upd <= d)

\* Only in the middle of an activation is a device off that is requested.
RequestedIsActivated ==
    \A d \in Devices :
        requests[d] > 0 => activated[d] \/ (os = "activate" /\ upd <= d)

\* The update of the device that is served wakes its thread or switches it off.
UpdatedIsNotReady ==
    os = "update" /\ upd > dev => (thread[dev] = "ready" => ~activated[dev])

Inv == /\ TypeOK /\ LocksHeld /\ ActivatedIsRequested /\ RequestedIsActivated
       /\ UpdatedIsNotReady /\ NoLostWakeup /\ InterruptHasRequest
=============================================================================
