----------------------- MODULE MCParticipantLifecycle -----------------------
(* Small instances of ParticipantLifecycle for TLC.                        *)
EXTENDS ParticipantLifecycle

CONSTANTS a1, a2, a3, e1, e2, r1, r2

MCAttempts  == {a1, a2, a3}
MCEndpoints == {e1, e2}
MCThreads   == {r1, r2}

=============================================================================
