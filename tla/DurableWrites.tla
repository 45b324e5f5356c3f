--------------------------- MODULE DurableWrites ----------------------------
(***************************************************************************)
(* What a handler of the dashboard may rely on when a repository method    *)
(* returns to it: the write is durable, and nothing undoes it, whatever    *)
(* else the process does and however often it restarts.                    *)
(***************************************************************************)
CONSTANT Ops         \* repository calls that write

VARIABLES
    durable,         \* calls whose write is in the database for good
    acked            \* calls that returned normally

Init ==
    /\ durable = {}
    /\ acked = {}

\* A commit makes some writes durable; a call returns once its write is.
Persist ==
    /\ durable' \in SUBSET Ops
    /\ durable \subseteq durable'
    /\ acked' \in SUBSET durable'
    /\ acked \subseteq acked'

Next == Persist

Spec == Init /\ [][Next]_<<durable, acked>>
=============================================================================
