------------------------------ MODULE MCIntake ------------------------------
(* Arrays of two cells instead of four; every rate of the table and one    *)
(* that is not in it; sizes around each end of their range and around the  *)
(* smallest size of the fast rates.                                        *)
EXTENDS Intake

Rates == SamplingTable \cup {3}
Sizes == {0, 4, 8, 10, 12, 16, 20, 36, 40, 76, 80, 116, 120, 156, 160, 196, 200,
          396, 400, 796, 800, 1024, 1028}
=============================================================================
