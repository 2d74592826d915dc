------------------------------ MODULE OneSlot ------------------------------
(***************************************************************************)
(* What a consumer/producer pair promises: a buffer of one slot.  A value  *)
(* is produced only after the one before it was read, and each value is    *)
(* read once.  counter counts the values produced and reads those read,    *)
(* both modulo N; each pair of Pairs has its own slot.                     *)
(***************************************************************************)
EXTENDS Integers

CONSTANTS CPPairs, N

VARIABLES counter, reads

Init == /\ counter = [pair \in CPPairs |-> 0]
        /\ reads = [pair \in CPPairs |-> 0]

Produce(pair) == /\ counter[pair] = reads[pair]
                 /\ counter' = [counter EXCEPT ![pair] = (@ + 1) % N]
                 /\ UNCHANGED reads

Consume(pair) == /\ counter[pair] # reads[pair]
                 /\ reads' = [reads EXCEPT ![pair] = (@ + 1) % N]
                 /\ UNCHANGED counter

Next == \E pair \in CPPairs : Produce(pair) \/ Consume(pair)

Spec == Init /\ [][Next]_<<counter, reads>>
=============================================================================
