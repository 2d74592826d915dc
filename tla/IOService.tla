------------------------------ MODULE IOService ------------------------------
(***************************************************************************)
(* What the kernel and the device threads rely on each other for: a device *)
(* that is on interrupts, one device at a time; each interrupt completes   *)
(* one request; a device is on as long as processes queue for it.  Kernel  *)
(* and Devices both implement it, the one with the processes that queue,   *)
(* the other with the threads and the locks.                               *)
(***************************************************************************)
EXTENDS Integers

CONSTANT Devices

VARIABLES
    requests,   \* how many processes queue for each device
    activated,  \* is the device on?
    serving     \* the device whose interrupt is being serviced, or 0

ioVars == <<requests, activated, serving>>

Init == /\ requests = [d \in Devices |-> 0]
        /\ activated = [d \in Devices |-> FALSE]
        /\ serving = 0

Request(d) ==
    /\ serving = 0
    /\ requests' = [requests EXCEPT ![d] = @ + 1]
    /\ activated' = [activated EXCEPT ![d] = TRUE]
    /\ UNCHANGED serving

Interrupt(d) ==
    /\ serving = 0
    /\ activated[d]
    /\ serving' = d
    /\ UNCHANGED <<requests, activated>>

Complete(d) ==
    /\ serving = d
    /\ requests[d] > 0
    /\ requests' = [requests EXCEPT ![d] = @ - 1]
    /\ activated' = [activated EXCEPT ![d] = requests[d] > 1]
    /\ serving' = 0

Next == \E d \in Devices : Request(d) \/ Interrupt(d) \/ Complete(d)

Spec == Init /\ [][Next]_ioVars
=============================================================================
