-------------------------- MODULE MCHunterSchedule --------------------------
\* The instance of HunterSchedule for TLC: an urgent and a WATCH state, whose
\* intervals keep the order of evaluation_interval_seconds on a smaller scale.
EXTENDS HunterSchedule

MCStates   == {"ARMED", "WATCH"}
MCInterval == [x \in MCStates |-> IF x = "ARMED" THEN 2 ELSE 3]

=============================================================================
