------------------------- MODULE MCMeetingRuntime -------------------------
(* MeetingRuntime on small instances: a mode to speak in, one that keeps no *)
(* audio and one that is not always reachable; a text that wakes, sleeps    *)
(* and holds two facts, and one that only sleeps.                           *)
EXTENDS MeetingRuntime

MCRequested == {"mic_off", "standby", "error_recoverable"}
MCStandby   == {"standby"}

MCHint      == {"A", "B"}
MCSpoken    == {[facts |-> 2, phrases |-> {"activation", "deactivation"},
                 hint |-> "A"],
                [facts |-> 0, phrases |-> {"deactivation"}, hint |-> "B"]}
=============================================================================
