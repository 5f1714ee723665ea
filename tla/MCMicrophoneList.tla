-------------------------- MODULE MCMicrophoneList --------------------------
(* Instances of MicrophoneList for TLC.                                    *)
EXTENDS MicrophoneList, TLC

CONSTANTS u1, u2, u3, u4, g1

FourUsers == {u1, u2, u3, u4}
OneGuest == {g1}

Symmetry == Permutations(User)
=============================================================================
