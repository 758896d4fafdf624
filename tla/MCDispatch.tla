------------------------------ MODULE MCDispatch ------------------------------
(* Instances of Dispatch for TLC. Every message has the same sender, so that  *)
(* all of them compete for one balance row.                                   *)
EXTENDS Dispatch, TLC

CONSTANT u1

MCUserOf == [m \in Messages |-> u1]

\* Relays of one priority, and workers, are interchangeable.
WorkerSymmetry == Permutations(Workers)
Symmetry == Permutations(Relays) \cup WorkerSymmetry
===============================================================================
