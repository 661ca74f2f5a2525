---------------------------- MODULE FrameCustody ----------------------------
(***************************************************************************)
(* What the rig promises about the frames, without saying how: a Pi keeps  *)
(* a whole frame until the session was released to be wiped, and a session *)
(* is released only while the share holds the same exposure.  Wiping the   *)
(* whole rig is the one release that asks for nothing.                     *)
(*                                                                         *)
(* There are no threads, messages or manifests here.  A file that is no    *)
(* whole JPEG is NoFrame.                                                  *)
(***************************************************************************)
CONSTANTS
    Pis,
    Sessions,
    AllSessions,    \* no session: stands for every session in a release
    Exposures,
    NoFrame         \* no exposure

VARIABLES
    onPi,       \* per Pi and session: the whole frame the Pi holds
    onShare,    \* per session and Pi: the whole frame the share holds
    released    \* the <<Pi, session>> that may be wiped

vars == <<onPi, onShare, released>>

Init ==
    /\ onPi = [p \in Pis |-> [s \in Sessions |-> NoFrame]]
    /\ onShare = [s \in Sessions |-> [p \in Pis |-> NoFrame]]
    /\ released = {}

\* A CAPTURE ends: with a frame, or with none.
Expose(p, s) ==
    /\ \E f \in Exposures \cup {NoFrame} : onPi' = [onPi EXCEPT ![p][s] = f]
    /\ UNCHANGED <<onShare, released>>

\* An UPLOAD ends: the share holds the Pi's frame, or half of it.
Push(p, s) ==
    /\ \E f \in {onPi[p][s], NoFrame} : onShare' = [onShare EXCEPT ![s][p] = f]
    /\ UNCHANGED <<onPi, released>>

Backed(p, s) == onPi[p][s] # NoFrame => onShare[s][p] = onPi[p][s]

\* The session may be wiped from these Pis.
Release(ps, s) ==
    /\ \A p \in ps : Backed(p, s)
    /\ released' = released \cup (ps \X {s})
    /\ UNCHANGED <<onPi, onShare>>

\* The operator may have every session wiped.
ReleaseAll(ps) ==
    /\ released' = released \cup (ps \X {AllSessions})
    /\ UNCHANGED <<onPi, onShare>>

\* What was released goes, or some of it, and the release with it unless
\* another is left.
Wipe(p) ==
    /\ \E s \in {x \in Sessions \cup {AllSessions} : <<p, x>> \in released},
          kept \in SUBSET Sessions :
         /\ onPi' = [onPi EXCEPT ![p] =
                [x \in Sessions |-> IF s \in {x, AllSessions} /\ x \notin kept
                                      THEN NoFrame ELSE @[x]]]
         /\ released' \in {released, released \ {<<p, s>>}}
    /\ UNCHANGED onShare

\* Frames of a session leave the share: deleted, pruned or corrupted.
Forget(s) ==
    /\ \E ps \in SUBSET Pis :
         onShare' = [onShare EXCEPT ![s] = [p \in Pis |-> IF p \in ps THEN NoFrame ELSE @[p]]]
    /\ UNCHANGED <<onPi, released>>

Next ==
    \/ \E p \in Pis, s \in Sessions : Expose(p, s) \/ Push(p, s)
    \/ \E ps \in SUBSET Pis : ReleaseAll(ps) \/ \E s \in Sessions : Release(ps, s)
    \/ \E p \in Pis : Wipe(p)
    \/ \E s \in Sessions : Forget(s)

Spec == Init /\ [][Next]_vars

=============================================================================
