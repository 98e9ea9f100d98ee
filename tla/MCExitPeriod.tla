---------------------------- MODULE MCExitPeriod -----------------------------
(* ExitPeriod with periods of 2 to 8 blocks instead of 2^8 to 2^20.        *)
EXTENDS ExitPeriod

SmallPeriods == {2, 4, 8}

=============================================================================
