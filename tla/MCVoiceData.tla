---------------------------- MODULE MCVoiceData -----------------------------
(* Instances of VoiceData for TLC: packets of two talks, more than SeqPage *)
(* apart.                                                                  *)
EXTENDS VoiceData

MCSeqs == 3 .. 6 \cup {12, 13}

MCLateness == {0, 60, 100}
=============================================================================
