------------------------------ MODULE MCKernel ------------------------------
(***************************************************************************)
(* Small instances of Kernel.  Programs keep the order of the calls in     *)
(* pcb.h and drop the instructions between them that request nothing.      *)
(***************************************************************************)
EXTENDS KernelLocks, TLC

CONSTANTS boot, idle, io1, io2, comp1, comp2, prod, cons, p1, p2

NoPairs == {}
OneCP   == {<<prod, cons>>}
OneRes  == {<<p1, p2>>}

\* One instruction per lap for Boot, two for the processes that terminate.
MCUserMaxPC == [p \in {boot} \union IOProcs \union CompProcs |-> IF p = boot THEN 0 ELSE 1]
MCTerminate == [p \in IOProcs \union CompProcs |-> 1]
\* io1 asks for device 1 at PC 1, every other IO process for device 2.
MCIOTrapAt  == [p \in IOProcs |-> 1 :> IF p = io1 THEN "IO_1_TRAP" ELSE "IO_2_TRAP"]
\* The compute processes run the same program.
CompSymmetry == Permutations({comp1, comp2})
=============================================================================
