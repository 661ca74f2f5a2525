----------------------------- MODULE RigCustody -----------------------------
(* The rig's requests, broadcasts and Pis implement FrameCustody: a whole    *)
(* frame is a shot, a release is a CLEAR on its way to a Pi.                 *)
EXTENDS RigSessions

Whole(f) == IF f \in {Absent, Damaged} THEN Absent ELSE f

OnPi == [p \in Pis |-> [s \in Sessions |-> Whole(file[p][s])]]

OnShare == [s \in Sessions |-> [p \in Pis |-> Whole(share[s][p])]]

\* The CLEARs a Pi has got and not yet carried out, whoever sent them and
\* whether or not anybody still waits.
Released ==
    {r \in Pis \X (Sessions \cup {AllSessions}) :
        \E c \in inbox[r[1]] : c.msg = "CLEAR" /\ c.sess = r[2]}

Frames == INSTANCE FrameCustody WITH
    Exposures <- 1 .. MaxShots, NoFrame <- Absent,
    onPi <- OnPi, onShare <- OnShare, released <- Released

\* The rig wipes a whole frame from a Pi only where the session was released
\* while the share held the same exposure, or with the whole rig: what the
\* verification before a CLEAR, the broadcast and the Pi's rmtree achieve
\* together (gui.py:1150-1192 and 1069-1077, picam_node.py:714-754).
Custody == Frames!Spec

=============================================================================
