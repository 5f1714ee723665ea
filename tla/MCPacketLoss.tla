---------------------------- MODULE MCPacketLoss ----------------------------
EXTENDS PacketLoss

\* A window of 128 packets of which all or four in five came, and one that is
\* too short to count.
MCSamples == {[total |-> 128, gets |-> n] : n \in {128, 102}} \cup {[total |-> 20, gets |-> 20]}
=============================================================================
