---------------------------- MODULE MCAnalytics -----------------------------
(* Values of the constants of Analytics for the model checker, and the     *)
(* interchange of the listed threads.                                      *)
EXTENDS Analytics

Interchangeable == Permutations(Listed)
=============================================================================
