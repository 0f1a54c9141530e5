------------------------------- MODULE Stream -------------------------------
(***************************************************************************)
(* One assistant message on its way from the provider to the journal:      *)
(* ProviderClient::infer with its retry, the SSE and the JSON parsers, the *)
(* inline thinking parser and the corrective split of the whole text       *)
(* (crates/omp-inference), and the buffers that infer_assistant_turn of    *)
(* crates/omp-control fills, flushes and settles.                          *)
(*                                                                         *)
(* Abstractions.  Text is a sequence of symbols, and the tags are short    *)
(* sequences of them.  A reply has one family of tags: with <think> and    *)
(* <thought> in one reply the code prefers <think> wherever it stands.     *)
(* Blanks, which the code trims, are not among the symbols.  The arguments *)
(* of a call are its fragments in order.  Of the dialects of calls leaked  *)
(* into text there is the one that needs no end: a symbol begins a call,   *)
(* and its arguments go to the symbol that ends them or as far as the text *)
(* does.                                                                   *)
(***************************************************************************)
EXTENDS Naturals, SequencesExt

CONSTANTS Symbols,  \* of the text
          Thoughts, \* pieces of reasoning that has a field of its own
          Open,     \* the opening tag
          Close,    \* the closing tag
          Action,   \* what a call begins with in a text
          Brace,    \* what its arguments end with
          Replies,  \* what a provider may send
          None

\* A reply is what the provider sends: units of text, of reasoning that has a
\* field of its own (None: the field is empty), and fragments (part `of' how
\* many) of tool calls; then why it finished, and whether the end is marked
\* ([DONE], message_stop).
Unit == [kind : {"text"}, symbol : Symbols] \cup
        [kind : {"reason"}, symbol : Thoughts \cup {None}] \cup
        [kind : {"call"}, call : Nat, part : Nat, of : Nat]
Reply == [format : {"openai", "anthropic", "json"}, units : Seq(Unit),
          finish : {None, "stop", "length"}, marked : BOOLEAN]

\* Only the output limit cuts a reply within a call.
WholeReply(units) ==
    \A i \in DOMAIN units : units[i].kind = "call" =>
      \A part \in 1 .. units[i].of :
        [units[i] EXCEPT !.part = part] \in Range(units)

\* Both tags begin alike, and neither begins again within itself or the other.
ASSUME StreamAssumption ==
    /\ Replies \subseteq Reply
    /\ Symbols \cap Thoughts = {} /\ None \notin Thoughts
    /\ {Action, Brace} \subseteq Symbols /\ Action # Brace
    /\ \A r \in Replies : r.finish # "length" => WholeReply(r.units)
    /\ Open \in Seq(Symbols) /\ Close \in Seq(Symbols)
    /\ Len(Open) > 1 /\ Len(Close) > 1 /\ Open # Close
    /\ Head(Open) = Head(Close)
    /\ \A i \in 2 .. Len(Open) : Open[i] # Head(Open)
    /\ \A i \in 2 .. Len(Close) : Close[i] # Head(Open)

VARIABLES
    reply,    \* what the provider sends this time
    pc,       \* "Receive", "Settle" or "Done"
    attempt,  \* 1, or 2 once the request was repeated
    pos,      \* how many units have been received
    parser,   \* InlineThinkingParser: within a tag, and what it holds back
    acc,      \* what parse_sse_stream accumulates
    emitted,  \* whether a delta was told
    told,     \* history: the deltas told
    pending,  \* the deltas not yet in the journal
    element,  \* the assistant's element and its think child
    result    \* what infer returns

vars == <<reply, pc, attempt, pos, parser, acc, emitted, told, pending,
          element, result>>

\* A delta: one symbol of text or of thinking.
Delta == [think : BOOLEAN, symbol : Symbols \cup Thoughts]
ToolCall == [call : Nat \cup {None}, parts : Seq(Nat)]
Parser == [inside : BOOLEAN, buffer : Seq(Symbols)]
Accumulated == [text : Seq(Symbols), reasoned : {None} \cup Seq(Thoughts),
                calls : Seq(ToolCall),
                finish : {None, "stop", "length"}]
Result == [status : {"succeeded", "failed", "cancelled"}, text : Seq(Symbols),
           thinking : Seq(Symbols \cup Thoughts), calls : Seq(ToolCall),
           leaked : Seq(Seq(Symbols))]

\* Types of the variables.
TypeOK ==
    /\ reply \in Replies
    /\ pc \in {"Receive", "Settle", "Done"}
    /\ attempt \in {1, 2}
    /\ pos \in 0 .. Len(reply.units)
    /\ parser \in Parser
    /\ acc \in Accumulated
    /\ emitted \in BOOLEAN
    /\ told \in Seq(Delta) /\ pending \in Seq(Delta)
    /\ element \in [status : {"running", "succeeded", "failed", "cancelled"},
                    shown : Seq(Delta), text : Seq(Symbols)]
    /\ result \in Result \cup {None}

NewParser == [inside |-> FALSE, buffer |-> <<>>]
Nothing == [text |-> <<>>, reasoned |-> None, calls |-> <<>>, finish |-> None]

Deltas(text, think) ==
    [i \in DOMAIN text |-> [think |-> think, symbol |-> text[i]]]
OfKind(deltas, think) ==
    LET those == SelectSeq(deltas, LAMBDA d : d.think = think)
    IN  [i \in DOMAIN those |-> those[i].symbol]

-----------------------------------------------------------------------------
(* Tags. *)

\* str::find: where the tag begins, or 0.
Find(text, tag) ==
    LET at == {i \in 1 .. Len(text) : IsPrefix(tag, SubSeq(text, i, Len(text)))}
    IN  IF at = {} THEN 0 ELSE CHOOSE i \in at : \A j \in at : i <= j

\* Mutant: nothing is held back.
HeldNever(text, tag) == Len(text) + 1

\* Where a beginning of the tag ends the text; past its end if none does.
Held(text, tag) ==
    LET last == {i \in DOMAIN text :
                   /\ text[i] = Head(tag)
                   /\ \A j \in i + 1 .. Len(text) : text[j] # Head(tag)
                   /\ IsPrefix(SubSeq(text, i, Len(text)), tag)}
    IN  IF last = {} THEN Len(text) + 1 ELSE CHOOSE i \in last : TRUE

Tag(inside) == IF inside THEN Close ELSE Open

\* One round of InlineThinkingParser::feed: text up to the next tag, or all
\* that cannot be the beginning of one.
FeedOnce(state) ==
    LET buffer == state.buffer
        tag    == Tag(state.inside)
        found  == Find(buffer, tag)
        upto   == IF found > 0 THEN found ELSE Held(buffer, tag)
        past   == IF found > 0 THEN found + Len(tag) ELSE upto
    IN  [inside |-> IF found > 0 THEN ~state.inside ELSE state.inside,
         buffer |-> SubSeq(buffer, past, Len(buffer)),
         out    |-> state.out \o Deltas(SubSeq(buffer, 1, upto - 1), state.inside)]

\* feed: rounds until no tag is left.  There are fewer tags than symbols.
Feed(p, chunk) ==
    FoldLeft(LAMBDA state, i : FeedOnce(state),
             [inside |-> p.inside, buffer |-> p.buffer \o chunk, out |-> <<>>],
             p.buffer \o chunk)

Rest(p) == Deltas(p.buffer, p.inside)

\* corrective::normalize_thinking_tokens, on the whole text.
NormalizeOnce(state) ==
    LET rest  == state.rest
        open  == Find(rest, Open)
        inner == SubSeq(rest, open + Len(Open), Len(rest))
        close == Find(inner, Close)
        upto  == IF close = 0 THEN Len(inner) ELSE close - 1
        past  == IF close = 0 THEN Len(inner) + 1 ELSE close + Len(Close)
    IN  IF open = 0
        THEN [state EXCEPT !.content = @ \o rest, !.rest = <<>>]
        ELSE [content  |-> state.content \o SubSeq(rest, 1, open - 1),
              thinking |-> state.thinking \o SubSeq(inner, 1, upto),
              rest     |-> SubSeq(inner, past, Len(inner))]

Normalized(text) ==
    FoldLeft(LAMBDA state, i : NormalizeOnce(state),
             [content |-> <<>>, thinking |-> <<>>, rest |-> text], text)

\* repair::extract_leaked_tool_calls: the arguments of the calls a text spells.
\* What has no end is closed by repair_malformed_json.
LeakOnce(state, symbol) ==
    IF state.within
    THEN [args   |-> IF symbol = Brace THEN state.args
                     ELSE [state.args EXCEPT ![Len(state.args)] = Append(@, symbol)],
          within |-> symbol # Brace]
    ELSE IF symbol = Action
         THEN [args |-> Append(state.args, <<>>), within |-> TRUE]
         ELSE state

Leaked(text) ==
    FoldLeft(LeakOnce, [args |-> <<>>, within |-> FALSE], text).args

-----------------------------------------------------------------------------
Init ==
    /\ reply \in Replies
    /\ pc = "Receive" /\ attempt = 1 /\ pos = 0
    /\ parser = NewParser /\ acc = Nothing
    /\ emitted = FALSE /\ told = <<>> /\ pending = <<>>
    /\ element = [status |-> "running", shown |-> <<>>, text |-> <<>>]
    /\ result = None

Raise(status) ==
    /\ pc' = "Settle"
    /\ result' = [status |-> status, text |-> <<>>, thinking |-> <<>>,
                  calls |-> <<>>, leaked |-> <<>>]

\* The closure of infer_assistant_turn, for one delta after the other.  A flush
\* may fall due behind any of them; it is kept, or it is refused, and then what
\* was taken out of the buffers is gone.  A cancelled host takes none.
Flushed(deltas, due) ==
    IF due = 0 THEN element
    ELSE [element EXCEPT !.shown = @ \o pending \o SubSeq(deltas, 1, due)]

Told(deltas) ==
    /\ told' = told \o deltas
    /\ \E due \in 0 .. Len(deltas) :
         /\ element' = Flushed(deltas, due)
         /\ pending' = (IF due = 0 THEN pending ELSE <<>>)
                         \o SubSeq(deltas, due + 1, Len(deltas))

NotTold(deltas) ==
    \E n \in 0 .. Len(deltas) - 1 :
      \/ Raise("cancelled") /\ Told(SubSeq(deltas, 1, n))
      \/ /\ Raise("failed") /\ pending' = <<>>
         /\ \E due \in 0 .. n : element' = Flushed(deltas, due)
         /\ told' = told \o SubSeq(deltas, 1, n)

Tell(deltas) ==
    /\ emitted' = (emitted \/ deltas # <<>>)
    /\ \/ Told(deltas) /\ UNCHANGED <<pc, result>>
       \/ NotTold(deltas)

Receiving == pc = "Receive" /\ reply.format # "json"
Coming(n) == SubSeq(reply.units, pos + 1, pos + n)

\* A chunk of content, cut anywhere.
Content ==
    /\ Receiving
    /\ \E n \in 1 .. Len(reply.units) - pos :
         /\ \A i \in 1 .. n : Coming(n)[i].kind = "text"
         /\ \E chunk \in {[i \in 1 .. n |-> Coming(n)[i].symbol]} :
            \E fed \in {Feed(parser, chunk)} :
              /\ parser' = [inside |-> fed.inside, buffer |-> fed.buffer]
              /\ acc' = [acc EXCEPT !.text = @ \o chunk]
              /\ Tell(fed.out)
         /\ pos' = pos + n
    /\ UNCHANGED <<reply, attempt>>

\* What the fields of reasoning hold together: None, not <<>>, if there is none.
FieldText(units) == SelectSeq([i \in DOMAIN units |-> units[i].symbol],
                              LAMBDA thought : thought # None)
Thought(reasoned, units) ==
    IF units = <<>> THEN reasoned
    ELSE (IF reasoned = None THEN <<>> ELSE reasoned) \o FieldText(units)

\* A piece of reasoning in a field of its own; an empty one tells nothing.
Reasoning ==
    /\ Receiving /\ pos < Len(reply.units)
    /\ LET units == <<reply.units[pos + 1]>> IN
         /\ units[1].kind = "reason"
         /\ acc' = [acc EXCEPT !.reasoned = Thought(@, units)]
         /\ Tell(Deltas(FieldText(units), TRUE))
    /\ pos' = pos + 1
    /\ UNCHANGED <<reply, attempt, parser>>

\* process_anthropic_sse_event: a block begins a call, the last one takes what
\* follows.
AssembledLast(calls, unit) ==
    IF unit.part = 1
    THEN Append(calls, [call |-> unit.call, parts |-> <<unit.part>>])
    ELSE [calls EXCEPT ![Len(calls)].parts = Append(@, unit.part)]

\* process_openai_sse_chunk: a fragment belongs to the call its index names, and
\* calls that were passed over are there without a name.
Assembled(calls, unit) ==
    IF reply.format = "anthropic" THEN AssembledLast(calls, unit)
    ELSE LET Grown(i) == IF i <= Len(calls) THEN calls[i]
                         ELSE [call |-> None, parts |-> <<>>]
             size     == IF unit.call > Len(calls) THEN unit.call ELSE Len(calls)
         IN  [i \in 1 .. size |->
                IF i # unit.call THEN Grown(i)
                ELSE [call  |-> IF unit.part = 1 THEN unit.call ELSE Grown(i).call,
                      parts |-> Append(Grown(i).parts, unit.part)]]

Fragment ==
    /\ Receiving /\ pos < Len(reply.units)
    /\ reply.units[pos + 1].kind = "call"
    /\ acc' = [acc EXCEPT !.calls = Assembled(@, reply.units[pos + 1])]
    /\ pos' = pos + 1
    /\ UNCHANGED <<reply, pc, attempt, parser, emitted, told, pending, element,
                   result>>

FinishReason ==
    /\ Receiving /\ pos = Len(reply.units)
    /\ acc.finish = None /\ reply.finish # None
    /\ acc' = [acc EXCEPT !.finish = reply.finish]
    /\ UNCHANGED <<reply, pc, attempt, pos, parser, emitted, told, pending,
                   element, result>>

Again == /\ pos' = 0 /\ parser' = NewParser /\ acc' = Nothing
         /\ UNCHANGED <<reply, pc, emitted, told, pending, element, result>>

\* Mutants: whatever was told; without an end; not counted.
RetryAlways == pc = "Receive" /\ attempt = 1 /\ attempt' = 2 /\ Again

\* The stream stalls or the request does not get through: once more from the
\* start, if nothing was told.
Retry ==
    /\ pc = "Receive" /\ attempt = 1 /\ ~emitted
    /\ attempt' = 2 /\ Again

\* Any other failure on the way: status, limit, malformed data, provider error,
\* a second stall.
Fails ==
    /\ pc = "Receive"
    /\ Raise("failed")
    /\ UNCHANGED <<reply, attempt, pos, parser, acc, emitted, told, pending,
                   element>>

\* What infer makes of the accumulated reply: without any field of reasoning the
\* thinking is taken out of the text, and without any call of the wire those of
\* the text are made.
Said(text, reasoned) ==
    IF reasoned = None THEN Normalized(text)
    ELSE [content |-> text, thinking |-> reasoned]

Spelt(text, calls) == IF calls = <<>> THEN Leaked(text) ELSE <<>>

Kept(args, parsed) ==
    LET kept == SelectSeq([i \in DOMAIN args |-> i], LAMBDA i : i \in parsed)
    IN  [k \in DOMAIN kept |-> args[kept[k]]]

\* A call of the text that is beyond repair is not made (`parsed': the others);
\* one of the wire is an error, as are one that does not fit the tool's schema
\* and a text that repeats itself.
Conclude(text, reasoned, calls) ==
    \/ Raise("failed")
    \/ /\ pc' = "Settle"
       /\ \E said \in {Said(text, reasoned)} :
          \E spelt \in {Spelt(said.content, calls)} :
          \E parsed \in SUBSET DOMAIN spelt :
            result' = [status   |-> "succeeded",
                       text     |-> said.content,
                       thinking |-> said.thinking,
                       calls    |-> calls,
                       leaked   |-> Kept(spelt, parsed)]

\* Mutant: the output limit is no matter.
CutNever == FALSE

\* The end of parse_sse_stream: without a mark or a finish reason, or with calls
\* that the output limit cut, it is an error; else what the parser held back is
\* told as it stands.  `ended': [DONE] was read; else the connection closed.
Interrupted(ended) == ~ended /\ acc.finish = None
Cut == acc.calls # <<>> /\ acc.finish = "length"

EndOfStream ==
    /\ Receiving
    /\ \E ended \in {FALSE} \cup
           (IF pos = Len(reply.units) /\ acc.finish = reply.finish
            THEN {reply.marked} ELSE {}) :
         IF Interrupted(ended) \/ Cut
         THEN Raise("failed") /\ UNCHANGED <<parser, emitted, told, pending, element>>
         ELSE \E held \in {Rest(parser)} :
              /\ parser' = NewParser
              /\ emitted' = (emitted \/ held # <<>>)
              /\ \/ /\ Told(held)
                    /\ Conclude(acc.text, acc.reasoned, acc.calls)
                 \/ NotTold(held)
    /\ UNCHANGED <<reply, attempt, pos, acc>>

\* process_openai_json, process_anthropic_json: what the document says, with the
\* fragments of each call together.
ConcludeDocument ==
    LET Units(kind) == SelectSeq(reply.units, LAMBDA u : u.kind = kind)
        texts       == Units("text")
    IN  Conclude([i \in DOMAIN texts |-> texts[i].symbol],
                 Thought(None, Units("reason")),
                 FoldLeft(Assembled, <<>>, Units("call")))

\* parse_json_stream: the whole reply in one document, of which no delta is told.
Document ==
    /\ pc = "Receive" /\ reply.format = "json"
    /\ ConcludeDocument
    /\ UNCHANGED <<reply, attempt, pos, parser, acc, emitted, told, pending,
                   element>>

\* The rest is flushed and the element settled, with the text of the result if
\* it is another.  Either append may be refused: the error is returned and the
\* element is left as it is.
Settle ==
    /\ pc = "Settle" /\ pc' = "Done"
    /\ LET shown == element.shown \o pending IN
       \/ element' = [status |-> result.status, shown |-> shown,
                      text   |-> IF result.status = "succeeded" THEN result.text
                                 ELSE OfKind(shown, FALSE)]
       \/ element' = [element EXCEPT !.shown = shown]
       \/ pending # <<>> /\ UNCHANGED element
    /\ pending' = <<>>
    /\ UNCHANGED <<reply, attempt, pos, parser, acc, emitted, told, result>>

Done == pc = "Done" /\ UNCHANGED vars

Next ==
    \/ Content \/ Reasoning \/ Fragment \/ FinishReason \/ Retry \/ Fails
    \/ EndOfStream \/ Document \/ Settle \/ Done

\* The provider or the idle timeout gives the reader something to do.
Spec == Init /\ [][Next]_vars

-----------------------------------------------------------------------------
(* Properties. *)

\* While the reply comes in, what was told is what the text received in this
\* attempt means, however it was cut into chunks: nothing is lost, told twice or
\* told before it is clear whether it is a tag, and what the element shows
\* together with the buffers is exactly what was told, in order.
ToldOnce ==
    /\ TypeOK
    /\ pc = "Receive" =>
         LET whole == Feed(NewParser, acc.text).out IN
         /\ OfKind(told, FALSE) = OfKind(whole, FALSE)
         /\ SelectSeq(OfKind(told, TRUE), LAMBDA s : s \in Symbols)
              = OfKind(whole, TRUE)
         /\ SelectSeq(OfKind(told, TRUE), LAMBDA s : s \in Thoughts)
              = (IF acc.reasoned = None THEN <<>> ELSE acc.reasoned)
         /\ \A think \in BOOLEAN :
              OfKind(element.shown \o pending, think) = OfKind(told, think)

\* A streamed message is settled with the text that was streamed, unless a field
\* of reasoning came with it: the two ways of taking the thinking out agree.  With
\* such a field, even an empty one, the tags stay in the settled text, which is
\* then all that came.
SettledAsTold ==
    pc = "Done" /\ element.status = "succeeded" /\ reply.format # "json" =>
      IF acc.reasoned = None
      THEN /\ element.text = OfKind(told, FALSE)
           /\ result.thinking = OfKind(told, TRUE)
           /\ OfKind(element.shown, FALSE) = element.text
      ELSE element.text = acc.text /\ result.thinking = acc.reasoned

\* No tool is called with arguments of the wire that did not all arrive: a
\* streamed reply that succeeds has the calls the provider made and no other, each
\* with all its fragments in order.  Only where it made none are there calls read
\* out of the text; each has what the settled text says between where it begins
\* and where its arguments end, and one that has no end, which is the last, what
\* there is of it: an output limit may have cut it.
CallsWhole ==
    pc = "Done" /\ result.status = "succeeded" /\ reply.format # "json" =>
      LET made == {u \in Range(reply.units) : u.kind = "call"} IN
      /\ {[call |-> u.call, parts |-> [k \in 1 .. u.of |-> k]] : u \in made}
           = Range(result.calls)
      /\ result.leaked # <<>> => made = {}
      /\ \A k \in DOMAIN result.leaked :
           \E i \in DOMAIN result.text :
             LET args == result.leaked[k]
                 next == i + Len(args) + 1
             IN  /\ result.text[i] = Action
                 /\ SubSeq(result.text, i + 1, next - 1) = args
                 /\ \/ next \in DOMAIN result.text /\ result.text[next] = Brace
                    \/ next = Len(result.text) + 1 /\ k = Len(result.leaked)

=============================================================================
