----------------------------- MODULE MCDataSync -----------------------------
(* Values of the constants of DataSync for the model checker: a healthy    *)
(* scraped source whose upstream changes once, and a second source that    *)
(* is not fetched at all, is rejected, or makes its adapter raise before   *)
(* or after the fetch.                                                     *)
EXTENDS DataSync

CONSTANTS good, other

TwoSources == {good, other}
Options == [s \in TwoSources |->
    IF s = good
    THEN {[kind |-> "html", defect |-> "none", every |-> NoInterval]}
    ELSE {[kind |-> "json_api", defect |-> "bad_timeout", every |-> 0],
          [kind |-> "html", defect |-> "bad_selector", every |-> 0],
          [kind |-> "html", defect |-> "no_selector", every |-> 0],
          [kind |-> "manual", defect |-> "none", every |-> 0]}]

\* An item with an id, one without, and one in which no field matched.
Pages == [s \in TwoSources |->
    IF s = good
    THEN <<<<[id |-> "k", v |-> 1], [id |-> NoId, v |-> 1]>>,
           <<[id |-> "k", v |-> 2], [id |-> NoId, v |-> 0]>>>>
    ELSE << <<[id |-> "j", v |-> 1]>> >>]
=============================================================================
