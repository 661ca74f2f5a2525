------------------------------- MODULE MCFleet -------------------------------
(* A small instance of Fleet.  A Pi's health lies on both sides of a limit.  *)
EXTENDS Fleet

MCSound == [camera |-> TRUE, synced |-> TRUE, offset |-> 50, free |-> 100]

MCHealths ==
    {MCSound,
     [MCSound EXCEPT !.camera = FALSE],
     [MCSound EXCEPT !.synced = FALSE],
     [MCSound EXCEPT !.offset = NoOffset],
     [MCSound EXCEPT !.offset = 51],
     [MCSound EXCEPT !.free = 99]}

\* For the run without a liveness property.
Symmetry == Permutations(Pis)

=============================================================================
