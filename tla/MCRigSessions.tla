---------------------------- MODULE MCRigSessions ----------------------------
(* Small instances of RigSessions.  The Pis and the request threads are      *)
(* model values; the bounds are in the configurations.                       *)
EXTENDS RigCustody, TLC

\* On-time Pis are interchangeable, and so are the request threads.  Used by
\* the runs that check no leads-to property and have no late Pi.
Symmetry == Permutations(Pis) \cup Permutations(Workers)

=============================================================================
