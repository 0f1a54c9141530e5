------------------------------ MODULE MCStream ------------------------------
EXTENDS Stream

MCOpen == <<"<", "t">>
MCClose == <<"<", "/", "t">>

\* Texts put together from pieces that make up, split and break the tags.
Pieces == {MCOpen, MCClose, <<"<">>, <<"t">>}
Texts == {FlattenSeq(pieces) : pieces \in SeqOf(Pieces, 3)}
TextUnits(text) ==
    [i \in DOMAIN text |-> [kind |-> "text", symbol |-> text[i]]]
Reason(thought) == [kind |-> "reason", symbol |-> thought]
Part(call, part) == [kind |-> "call", call |-> call, part |-> part, of |-> 2]

Interleaved == <<Part(1, 1), Part(2, 1), Part(1, 2), Part(2, 2)>>
InOrder == <<Part(1, 1), Part(1, 2), Part(2, 1), Part(2, 2)>>
Hollow == <<[kind |-> "reason", symbol |-> None]>>
Leaking == <<"t", "a", "t", "}", "a", "t">> \* two calls, one of them cut off
Mixed == <<Reason("r")>> \o TextUnits(<<"t", "<", "t">>) \o InOrder

Made(format, units, finish, marked) ==
    [format |-> format, units |-> units, finish |-> finish, marked |-> marked]
CutAt(units, n) == SubSeq(units, 1, n)

MCReplies ==
    {Made("openai", TextUnits(text), "stop", TRUE) : text \in Texts} \cup
    {Made(format, TextUnits(<<"<", "t", "t">>), None, TRUE) :
       format \in {"openai", "json"}} \cup
    {Made("openai", Interleaved, finish, marked) :
       finish \in {None, "stop"}, marked \in BOOLEAN} \cup
    {Made(format, Mixed, "stop", FALSE) :
       format \in {"openai", "anthropic", "json"}} \cup
    {Made("openai", CutAt(Interleaved, n), "length", TRUE) : n \in 1 .. 3} \cup
    {Made(format, CutAt(Mixed, n), "length", TRUE) :
       format \in {"anthropic", "json"}, n \in {2, 5, 7}} \cup
    {Made(format, Hollow \o TextUnits(<<"<", "t", "t">>), "stop", TRUE) :
       format \in {"openai", "json"}} \cup
    {Made(format, TextUnits(Leaking), finish, TRUE) :
       format \in {"openai", "json"}, finish \in {"stop", "length"}} \cup
    {Made("openai", Hollow \o TextUnits(Leaking), "length", TRUE),
     Made("anthropic", TextUnits(Leaking) \o InOrder, "stop", TRUE)}

=============================================================================
