----------------------------- MODULE MCPicamNode -----------------------------
(* A small instance of PicamNode: a CONFIGURE changes the exposure of the    *)
(* default, or its resolution.                                               *)
EXTENDS PicamNode

Full == [resolution |-> "full", exposure |-> "short"]
FullLong == [resolution |-> "full", exposure |-> "long"]
Half == [resolution |-> "half", exposure |-> "short"]

MCSettings == {FullLong, Half}

=============================================================================
