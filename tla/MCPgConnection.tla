--------------------------- MODULE MCPgConnection ---------------------------
(* Values of the constants of PgConnection for the model checker.          *)
EXTENDS PgConnection

CONSTANTS c1, c2, c3

ThreeCalls == {c1, c2, c3}
=============================================================================
