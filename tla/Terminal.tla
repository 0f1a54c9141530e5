------------------------------ MODULE Terminal ------------------------------
(***************************************************************************)
(* What a user types, on its way to the message editor (crates/omp-cli):   *)
(* the bytes the terminal sends for a key, a paste or the mouse, the reads *)
(* that cut them anywhere, the parser that makes events of them (input.rs) *)
(* and the editor that takes the events (editor.rs, tui.rs).               *)
(*                                                                         *)
(* Assumptions.  The bytes of one key, paste or report of the mouse come   *)
(* without a pause: the parser has seen them all before it gives up on a   *)
(* sequence.  Behind the escape key, and behind the report of a released   *)
(* button, the user pauses until it has been taken.                        *)
(***************************************************************************)
EXTENDS Keys, Editor

CONSTANTS Tokens,   \* what can be typed: its bytes, the events it means, and
                    \* whether a pause follows it
          Earlier,  \* what has been submitted before
          MaxTokens,
          MaxAhead, \* the first tokens, which are typed in one go
          Widths    \* the widths at which the text is looked at

VARIABLES typed,    \* how many tokens have been typed
          wire,     \* the bytes sent and not yet read
          expected, \* what was typed and has not been heard
          cut,      \* history: a read has ended within what was sent
          paused,   \* the user waits for the parser
          parser,
          reading,  \* Parser::next has returned: Input::next reads
          editor,
          written   \* the text as the user has last changed it

vars == <<typed, wire, expected, cut, paused, parser, reading, editor, written>>

-----------------------------------------------------------------------------

Init ==
    /\ typed = 0 /\ wire = <<>> /\ expected = <<>> /\ cut = FALSE /\ paused = FALSE
    /\ parser = NewParser /\ reading = FALSE
    /\ editor = [NewEditor EXCEPT !.history = Earlier] /\ written = <<>>

Idle == wire = <<>> /\ parser.pending = <<>>

\* The user types, and the terminal sends the bytes.
Type(token) ==
    /\ typed < MaxTokens /\ (expected = <<>> \/ typed < MaxAhead)
    /\ paused => Idle
    /\ typed' = typed + 1
    /\ wire' = wire \o token.bytes
    /\ expected' = expected \o token.means
    /\ paused' = token.pause
    /\ UNCHANGED <<cut, parser, reading, editor, written>>

\* Input::next, from its recv_timeout to the next turn of the parser: the bytes
\* of a read, however the terminal's were cut, or none in time.
Read ==
    /\ reading
    /\ reading' = FALSE
    /\ \E n \in 0 .. Len(wire) :
         /\ wire' = SubSeq(wire, n + 1, Len(wire))
         /\ cut' = (cut \/ n \in 1 .. Len(wire) - 1)
         /\ parser' = Feed(parser, SubSeq(wire, 1, n))
    /\ UNCHANGED <<typed, expected, paused, editor, written>>

\* Time passes, but not while the bytes of a key are under way.
Tick ==
    /\ wire = <<>>
    /\ parser.since \in {"young", "old"}
    /\ parser' = [parser EXCEPT !.since = IF @ = "young" THEN "old" ELSE "stale"]
    /\ UNCHANGED <<typed, wire, expected, cut, paused, reading, editor, written>>

\* The loop of tui::run, as far as it is about the editor: a paste is inserted
\* or refused; Enter submits and Ctrl+C clears.
Recalls(key) == key.code \in {"Up", "Down"}
Takes(event) ==
    CASE event.kind = "paste" -> Insert(editor, event.text)
      [] event.kind = "mouse" -> editor
      [] event.kind = "key" /\ event.code = "Enter" /\ event.mods \cap {"Shift", "Alt"} = {} ->
           IF IsBlank(editor.text) THEN editor ELSE Submit(editor)
      [] event.kind = "key" /\ Ctrl(event, 99) -> Clear(editor)
      [] OTHER -> HandleKey(editor, event)

\* A turn of the parser's loop, and the event it returns if it does.
Parse ==
    /\ ~reading
    /\ \E turn \in {Turn(parser)} :
         /\ parser' = turn.parser
         /\ reading' = (turn.event = None /\ ~turn.more)
         /\ IF turn.event = None
            THEN UNCHANGED <<expected, editor, written>>
            ELSE /\ expected' = IF expected = <<>> THEN <<>> ELSE Tail(expected)
                 /\ editor' = Takes(turn.event)
                 /\ written' = IF editor'.text = editor.text
                                  \/ (turn.event.kind = "key" /\ Recalls(turn.event))
                               THEN written ELSE editor'.text
    /\ UNCHANGED <<typed, wire, cut, paused>>

Next == (\E token \in Tokens : Type(token)) \/ Read \/ Tick \/ Parse

Spec == Init /\ [][Next]_vars

-----------------------------------------------------------------------------

Texts == Seq(Nat)

\* The cursor lies in the text, which holds no control character and keeps to
\* the limits; a recalled entry is one of the history (Editor, input.rs).
TypeOK ==
    /\ typed \in 0 .. MaxTokens /\ {reading, paused, cut} \subseteq BOOLEAN
    /\ parser.since \in Ages \cup {None} /\ parser.alt \in BOOLEAN
    /\ editor.cursor \in 0 .. Len(editor.text)
    /\ editor.index \in 0 .. Len(editor.history)
    /\ Len(editor.text) <= BufferLimit /\ Len(editor.history) <= HistoryLimit
    /\ \A text \in {editor.text, editor.draft} \cup {editor.history[i] : i \in DOMAIN editor.history} :
         \A i \in DOMAIN text : text[i] \in Nat \ (Controls \ {NewLine})

\* However reads cut the bytes, the parser hears what was typed, in order and
\* nothing else: no byte of a paste becomes a key, above all no Enter, and once
\* all has been read nothing is left unheard (Parser::next).  Only Alt can be
\* lost, where a read cuts the bytes behind the escape byte that stands for it;
\* the key itself is heard.
AltLost(event, typedAs) ==
    /\ cut /\ typedAs.kind = "key" /\ "Alt" \in typedAs.mods
    /\ typedAs.code = "Char" => typedAs.char > 127
    /\ event = [typedAs EXCEPT !.mods = @ \ {"Alt"}]

HeardAsTyped ==
    /\ ~reading /\ Turn(parser).event # None =>
         /\ expected # <<>>
         /\ \/ Turn(parser).event = Head(expected)
            \/ AltLost(Turn(parser).event, Head(expected))
    /\ reading /\ Idle /\ parser.paste = None => expected = <<>>

\* Browsing the history never loses what the user has written: it is in the
\* editor, or kept as the draft (handle_up, handle_down, and every edit).
DraftKept ==
    IF editor.index = 0 THEN editor.text = written ELSE editor.draft = written

\* Where a position's character is shown, and where the cursor is: the two
\* computations agree.  At the end of a line the cursor is where a character
\* typed there would be (visual_lines, visual_cursor).
CellOf(text, width, i) ==
    LET rows == VisualRows(text, width)
        r    == CHOOSE n \in DOMAIN rows : rows[n].from <= i /\ i < rows[n].to
    IN  <<Columns(text, rows[r].from, i), r - 1>>

CursorShown ==
    /\ TypeOK
    /\ LET text == editor.text
           i    == editor.cursor
           typedHere == SubSeq(text, 1, i) \o <<97>> \o SubSeq(text, i + 1, Len(text))
       IN  IsBoundary(text, i) =>
             \A width \in Widths :
                VisualCursor(text, i, width) =
                  IF i = Len(text) \/ text[i + 1] = NewLine
                  THEN CellOf(typedHere, width, i) ELSE CellOf(text, width, i)

=============================================================================
