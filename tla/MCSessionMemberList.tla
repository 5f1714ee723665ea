------------------------- MODULE MCSessionMemberList -------------------------
(* Instances of SessionMemberList for TLC.                                 *)
EXTENDS SessionMemberList

CONSTANTS me, u1, c1

TwoUsers == {me, u1}
OneChannel == {c1}
=============================================================================
