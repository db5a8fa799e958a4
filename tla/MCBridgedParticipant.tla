------------------------ MODULE MCBridgedParticipant ------------------------
(* A small instance of BridgedParticipant for TLC.                         *)
EXTENDS BridgedParticipant

CONSTANTS t1, t2, d1, d2, r1, w1, p1, s1, a1

MCTopics    == {t1, t2}
MCDecoders  == {d1, d2}
MCReceivers == {r1}
MCWriters   == {w1}
MCRemotes   == {p1}
MCSenders   == {s1}
MCAttempts  == {a1}

=============================================================================
