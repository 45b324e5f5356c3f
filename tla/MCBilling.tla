----------------------------- MODULE MCBilling ------------------------------
(* Values of the constants of Billing for the model checker.               *)
EXTENDS Billing

CONSTANTS s1, s2

TwoSubs == {s1, s2}
=============================================================================
