-------------------------- MODULE MCTelemetryStore --------------------------
(* Small sets for the runs of TelemetryStore.                              *)
EXTENDS TelemetryStore

MCMetrics == {"v", "i"}
TwoIds    == {"a", "b"}
OneId     == {"a"}
TwoReaders == {"r1", "r2"}
OneReader == {"r1"}
TwoTimes == {1, 2}
OneTime == {1}
OneProfile == {"meter"}
=============================================================================
