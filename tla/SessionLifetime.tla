-------------------------- MODULE SessionLifetime ---------------------------
(***************************************************************************)
(* What a session promises: a token is opened once, admits its user while  *)
(* it is open, and never admits anyone again once it was closed or has     *)
(* expired.                                                                *)
(***************************************************************************)
CONSTANT Tokens

VARIABLES
    valid,       \* tokens that admit their user
    spent        \* tokens that were valid and no longer are

Init ==
    /\ valid = {}
    /\ spent = {}

Open(t) ==
    /\ t \notin valid \cup spent
    /\ valid' = valid \cup {t}
    /\ UNCHANGED spent

Close(T) ==
    /\ T \subseteq valid
    /\ valid' = valid \ T
    /\ spent' = spent \cup T

Next ==
    \/ \E t \in Tokens : Open(t)
    \/ \E T \in SUBSET Tokens : Close(T)

Spec == Init /\ [][Next]_<<valid, spent>>
=============================================================================
