---------------------- MODULE MCFrontConnectionManager ----------------------
(* Instances of FrontConnectionManager for TLC.                            *)
EXTENDS FrontConnectionManager, TLC

CONSTANTS a1, a2, a3, a4

ThreeFronts == {a1, a2, a3}
FourFronts  == {a1, a2, a3, a4}

Symmetry == Permutations(Addr)

\* The state after two starts whose sockets all failed at once: both sockets of
\* sinfo_front_ are dead and stay so, which leaves the pool to be explored alone.
InfoIsDown == \A s \in DOMAIN info : info[s] = "dead"

InfoDown == /\ pool = EmptyPool
            /\ change = FALSE
            /\ backupTimer = TRUE
            /\ info = [s \in {"main", "vice"} |-> "dead"]

SpecInfoDown == InfoDown /\ [][Next]_vars

\* For liveness, where symmetry is not sound, the steps that are looked at: either
\* one front, with the two sockets, or all fronts, without them.
Narrow == ~ InfoIsDown => Cardinality(Members(pool')) <= 1
=============================================================================
