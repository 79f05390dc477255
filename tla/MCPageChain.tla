---------------------------- MODULE MCPageChain ----------------------------
EXTENDS PageChain

CONSTANTS h1, h2, p1, p2

Opens(position, headings) ==
    [edit |-> "append_new_section", content |-> position, headings |-> headings,
     decision |-> "index_worthy", summary |-> TRUE, topics |-> 1, assets |-> 0]

Goes(position, headings) == [Opens(position, headings) EXCEPT !.edit = "replace_section"]

Skips == [Goes(p1, <<>>) EXCEPT
            !.decision = "non_index_worthy", !.summary = FALSE, !.topics = 0]

Keeps == [Goes(p1, <<>>) EXCEPT !.edit = "no_change", !.content = NoContent]

MCAnswers == {Opens(p1, <<h1>>), Goes(p2, <<h2, h1>>), Skips, Keeps}
=============================================================================
