-------------------------- MODULE MCBridgedWriters --------------------------
(* A small instance of BridgedWriters for TLC.  No property tells topics,  *)
(* registrations, remote readers or threads apart: all four are symmetric. *)
EXTENDS BridgedWriters, TLC

CONSTANTS t1, t2, w1, w2, p1, p2, s1, s2

MCTopics  == {t1, t2}
MCWriters == {w1, w2}
MCRemotes == {p1, p2}
MCSenders == {s1, s2}

MCSymmetry == Permutations(MCTopics) \cup Permutations(MCWriters)
                \cup Permutations(MCRemotes) \cup Permutations(MCSenders)

=============================================================================
