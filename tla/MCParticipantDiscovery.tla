----------------------- MODULE MCParticipantDiscovery -----------------------
(* Small instances of ParticipantDiscovery for TLC.                        *)
EXTENDS ParticipantDiscovery

CONSTANTS k1, k2, v1, v2, discovered, removed

MCKeys   == {k1, k2}
MCValues == {v1, v2}
MCStatus == {discovered, removed}

=============================================================================
