---------------------------- MODULE MCEventStream ----------------------------
(* TLC instances of EventStream. *)
EXTENDS EventStream, TLC

\* Threads, connections and operation names are interchangeable.
Symmetry == Permutations(Threads) \cup Permutations(Conns) \cup Permutations(Ops)

=============================================================================
