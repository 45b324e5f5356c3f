--------------------------- MODULE MCConversation ---------------------------
(* Values of the constants of Conversation for the model checker.          *)
EXTENDS Conversation

CONSTANTS b1, m1, m2

OneBuyer == {b1}
TwoMessages == {m1, m2}
SenderOne == [m \in {m1, m2} |-> b1]
Singles == {<<m1>>, <<m2>>}
NoneOrPair == {<<>>, <<m1, m2>>}

Off == [enabled |-> FALSE, auto_pause_hours |-> 0]
Warm == [enabled |-> TRUE, auto_pause_hours |-> 0]
Muting == [enabled |-> TRUE, auto_pause_hours |-> 1]
OnlyOff == {Off}
OnlyMuting == {Muting}
WarmOrMuting == {Warm, Muting}

ExtractFields == {"name", "turn_count"}
NoResults == {}
SomeResults ==
    {[updates |-> {"name", "turn_count"}, new_tasks |-> <<"call", "call">>, stage |-> NoStage],
     [updates |-> {}, new_tasks |-> <<>>, stage |-> "won"]}
=============================================================================
