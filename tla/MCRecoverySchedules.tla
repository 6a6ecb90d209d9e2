------------------------- MODULE MCRecoverySchedules -------------------------
(* Two days of three ticks, with the night's work in the last, so that a     *)
(* delayed run slips past midnight; the local clock is set back by a tick.   *)
EXTENDS RecoverySchedules

MCOffset == [t \in 0 .. MaxTime |-> IF t >= 3 THEN -1 ELSE 0]
MCKinds ==
    [r \in Runs |->
        IF r = 1 THEN {<<"recent", FALSE>>, <<"plain", FALSE>>, <<"weekly", TRUE>>, <<"briefing", FALSE>>}
        ELSE {<<"recent", FALSE>>, <<"recent", TRUE>>, <<"nightly", FALSE>>,
              <<"continuous", FALSE>>, <<"weekly", FALSE>>}]
=============================================================================
