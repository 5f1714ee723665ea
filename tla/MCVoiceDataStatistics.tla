------------------------ MODULE MCVoiceDataStatistics -----------------------
EXTENDS VoiceDataStatistics

\* One talk, longer than the ring, and a number far ahead.
MCSeqs == 1 .. 5 \cup {9}
=============================================================================
