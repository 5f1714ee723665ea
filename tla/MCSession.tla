------------------------------ MODULE MCSession ------------------------------
(* Instances of Session for TLC.                                           *)
EXTENDS Session, TLC

CONSTANTS a1, a2, r1, r2

TwoFronts == {a1, a2}
TwoRooms  == {r1, r2}
=============================================================================
