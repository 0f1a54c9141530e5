------------------------------- MODULE Editor -------------------------------
(***************************************************************************)
(* The message editor of the terminal user interface (crates/omp-cli,      *)
(* editor.rs): what each key makes of the text, of the cursor and of the   *)
(* history that is being recalled, and where text and cursor are shown     *)
(* when the text is wrapped.                                               *)
(*                                                                         *)
(* Abstractions.  A text is a sequence of characters, a character its code *)
(* point, and the cursor the number of characters in front of it.  A       *)
(* grapheme is a character and the combining marks behind it.  Limits are  *)
(* counted in characters.  The entry recalled is 0 while none is.          *)
(***************************************************************************)
EXTENDS Naturals, SequencesExt

CONSTANTS Wide,         \* the characters two columns wide
          Marks,        \* the combining marks, of no width
          BufferLimit,  \* MAX_BUFFER_BYTES
          HistoryLimit  \* MAX_HISTORY_ENTRIES

ASSUME EditorAssumption ==
    Wide \cap Marks = {} /\ BufferLimit \in Nat /\ HistoryLimit \in Nat \ {0}

Tabulator == 9
NewLine == 10
Return == 13
Escape == 27
Blank == 32
Spaces == {Tabulator, NewLine, Return, Blank}

Width(c) == IF c \in Marks THEN 0 ELSE IF c \in Wide THEN 2 ELSE 1
TextWidth(text) == FoldLeft(LAMBDA n, c : n + Width(c), 0, text)

NewEditor ==
    [text |-> <<>>, cursor |-> 0, history |-> <<>>, index |-> 0, draft |-> <<>>]

IsBlank(text) == \A i \in DOMAIN text : text[i] \in Spaces

-----------------------------------------------------------------------------
(* Sanitizing: a carriage return and the line feed behind it are one line    *)
(* feed, a tabulator four blanks; escape sequences and other controls go.    *)

NormalizeCharacter(text, c, before) ==
    CASE c = Return -> Append(text, NewLine)
      [] c = NewLine /\ before = Return -> text
      [] c = Tabulator -> text \o <<Blank, Blank, Blank, Blank>>
      [] OTHER -> Append(text, c)

Normalize(input) ==
    FoldLeftDomain(LAMBDA text, i :
                      NormalizeCharacter(text, input[i],
                                         IF i = 1 THEN 0 ELSE input[i - 1]),
                   <<>>, input)

Controls == (0 .. 31) \cup (127 .. 159)
BidiOverrides == (8234 .. 8238) \cup (8294 .. 8297)

\* sanitize_text: what is being skipped, and what has been kept.
Sanitize(input) ==
    LET Skip(s, mode) == [s EXCEPT !.mode = mode]
        Plain(s, c) ==
            IF c = Escape THEN Skip(s, "escape")
            ELSE [mode |-> "text",
                  text |-> IF c \in (Controls \ {NewLine}) \cup BidiOverrides
                           THEN s.text ELSE Append(s.text, c)]
        Next(s, c) ==
            CASE s.mode = "escape" ->
                   Skip(s, CASE c = 91 -> "csi"
                             [] c \in {80, 88, 93, 94, 95} -> "string"
                             [] OTHER -> "text")
              [] s.mode = "csi" -> IF c \in 64 .. 126 THEN Skip(s, "text") ELSE s
              [] s.mode = "string" ->
                   CASE c = 7 -> Skip(s, "text")
                     [] c = Escape -> Skip(s, "string_end")
                     [] OTHER -> s
              [] s.mode = "string_end" /\ c = 92 -> Skip(s, "text")
              [] OTHER -> Plain(s, c)
    IN  FoldLeft(Next, [mode |-> "text", text |-> <<>>], Normalize(input)).text

-----------------------------------------------------------------------------
(* Graphemes. *)

IsBoundary(text, i) ==
    i = 0 \/ i = Len(text) \/ text[i + 1] \notin Marks \/ text[i] = NewLine
Boundaries(text) == {i \in 0 .. Len(text) : IsBoundary(text, i)}

\* clamp_cursor and clamp_cursor_forward.
ClampBack(text, i) == Max({b \in Boundaries(text) : b <= i})
ClampForward(text, i) == Min({b \in Boundaries(text) : b >= i})

\* The boundary in front of one, and the one behind it.
Before(text, i) == Max({0} \cup {b \in Boundaries(text) : b < i})
Behind(text, i) == Min({Len(text)} \cup {b \in Boundaries(text) : b > i})

\* truncate_to_grapheme_budget.
Truncate(text) == SubSeq(text, 1, ClampBack(text, Min({Len(text), BufferLimit})))

\* Where the word in front of a position begins, and the one behind it ends.
WordStart(text, i) ==
    Max({0} \cup {w \in 1 .. i : /\ text[w] \in Spaces
                                 /\ \E j \in w + 1 .. i : text[j] \notin Spaces})
WordEnd(text, i) ==
    Min({Len(text)} \cup {w \in i .. Len(text) - 1 :
                            /\ text[w + 1] \in Spaces
                            /\ \E j \in i + 1 .. w : text[j] \notin Spaces})

LineStart(text, i) == Max({0} \cup {n \in 1 .. i : text[n] = NewLine})
LineEnd(text, i) ==
    Min({Len(text)} \cup {n \in i .. Len(text) - 1 : text[n + 1] = NewLine})

\* The graphemes between two positions, and where the n-th of them ends, or
\* the last when there are fewer.
GraphemesIn(text, from, to) ==
    Cardinality({b \in Boundaries(text) : from < b /\ b <= to})
ColumnAt(text, from, to, n) ==
    Max({b \in Boundaries(text) :
           from <= b /\ b <= to /\ GraphemesIn(text, from, b) <= n})

-----------------------------------------------------------------------------
(* Editing.  Every change of the text ends the recall of the history. *)

Clamped(e) == [e EXCEPT !.cursor = ClampBack(e.text, e.cursor)]

Clear(e) == [e EXCEPT !.text = <<>>, !.cursor = 0, !.index = 0, !.draft = <<>>]

\* insert: text that does not fit is refused as a whole.
Fits(e, input) ==
    LET text == Sanitize(input)
    IN  text # <<>> /\ Len(e.text) + Len(text) <= BufferLimit

Insert(e, input) ==
    LET new  == Sanitize(input)
        at   == ClampBack(e.text, e.cursor)
        text == SubSeq(e.text, 1, at) \o new \o SubSeq(e.text, at + 1, Len(e.text))
    IN  IF ~Fits(e, input) THEN e
        ELSE [e EXCEPT !.text = text, !.index = 0,
                       !.cursor = ClampForward(text, at + Len(new))]

\* submit: the text goes to the history, unless it is its last entry already.
Submit(e) ==
    LET cleared == Clear(e)
        kept    == IF Len(e.history) >= HistoryLimit THEN Tail(e.history) ELSE e.history
        known   == e.history # <<>> /\ Last(e.history) = e.text
    IN  IF known THEN cleared ELSE [cleared EXCEPT !.history = Append(kept, e.text)]

\* Cuts what is behind one position up to another.
Cut(e, from, to) ==
    IF from = to THEN e
    ELSE [e EXCEPT !.text = SubSeq(e.text, 1, from)
                            \o SubSeq(e.text, to + 1, Len(e.text)),
                   !.cursor = from, !.index = 0]

DeleteBackward(e) == Cut(e, Before(e.text, e.cursor), e.cursor)
DeleteForward(e) == Cut(e, e.cursor, Behind(e.text, e.cursor))
DeleteWord(e) == Cut(e, WordStart(e.text, e.cursor), e.cursor)

\* kill_to_line_start: at the start of a line, it joins the line before.
KillToLineStart(e) ==
    LET start == LineStart(e.text, e.cursor)
    IN  Cut(e, IF e.cursor = start /\ start > 0 THEN start - 1 ELSE start, e.cursor)

\* kill_to_line_end: at the end of a line, it joins the line behind.
KillToLineEnd(e) ==
    LET end == LineEnd(e.text, e.cursor)
    IN  Cut(e, e.cursor, IF e.cursor = end /\ end < Len(e.text) THEN end + 1 ELSE end)

-----------------------------------------------------------------------------
(* Up and down: within the text first, then through the history. *)

Recall(e, index) ==
    [e EXCEPT !.index = index, !.text = e.history[index],
              !.cursor = Len(e.history[index])]

\* Mutant: each older entry takes the place of the draft.
OlderEntrySaving(e) ==
    IF e.history = <<>> \/ e.index = 1 THEN e
    ELSE Recall([e EXCEPT !.draft = e.text],
                IF e.index = 0 THEN Len(e.history) ELSE e.index - 1)

OlderEntry(e) ==
    CASE e.history = <<>> \/ e.index = 1 -> e
      [] e.index = 0 -> Recall([e EXCEPT !.draft = e.text], Len(e.history))
      [] OTHER -> Recall(e, e.index - 1)

NewerEntry(e) ==
    CASE e.index = 0 -> e
      [] e.index \in 1 .. Len(e.history) - 1 -> Recall(e, e.index + 1)
      [] OTHER -> [e EXCEPT !.index = 0, !.text = e.draft,
                            !.cursor = Len(e.draft), !.draft = <<>>]

Up(e) ==
    LET start  == LineStart(e.text, e.cursor)
        column == GraphemesIn(e.text, start, e.cursor)
    IN  IF start = 0 THEN OlderEntry(e)
        ELSE [e EXCEPT !.cursor = ColumnAt(e.text, LineStart(e.text, start - 1),
                                           start - 1, column)]

Down(e) ==
    LET end    == LineEnd(e.text, e.cursor)
        column == GraphemesIn(e.text, LineStart(e.text, e.cursor), e.cursor)
    IN  IF end = Len(e.text) THEN NewerEntry(e)
        ELSE [e EXCEPT !.cursor = ColumnAt(e.text, end + 1,
                                           LineEnd(e.text, end + 1), column)]

-----------------------------------------------------------------------------
(* Keys.  A key has a code, the character it types and its modifiers. *)

Ctrl(key, c) == key.code = "Char" /\ key.char = c /\ "Control" \in key.mods
Types(key) == key.code = "Char" /\ ("Control" \notin key.mods \/ "Alt" \in key.mods)

\* handle_key.  A key it does not take changes nothing, or clamps the cursor.
HandleKey(editor, key) ==
    LET e       == Clamped(editor)
        i       == e.cursor
        MoveTo(p) == [e EXCEPT !.cursor = ClampBack(e.text, p)]
        byWord  == {"Control", "Alt"} \cap key.mods # {}
    IN  CASE key.code \in {"Enter", "Esc"} /\ (key.code = "Esc" \/ key.mods = {}) -> editor
          [] Ctrl(key, 106) \/ (key.code = "Enter" /\ "Shift" \in key.mods) ->
               Insert(editor, <<NewLine>>)
          [] Ctrl(key, 97) \/ key.code = "Home" -> MoveTo(LineStart(e.text, i))
          [] Ctrl(key, 101) \/ key.code = "End" -> MoveTo(LineEnd(e.text, i))
          [] Ctrl(key, 107) -> KillToLineEnd(e)
          [] Ctrl(key, 117) -> KillToLineStart(e)
          [] Ctrl(key, 119) -> DeleteWord(e)
          [] key.code = "Left" ->
               MoveTo(IF byWord THEN WordStart(e.text, i) ELSE Before(e.text, i))
          [] key.code = "Right" ->
               MoveTo(IF byWord THEN WordEnd(e.text, i) ELSE Behind(e.text, i))
          [] key.code = "Backspace" -> DeleteBackward(e)
          [] key.code = "Delete" -> DeleteForward(e)
          [] key.code = "Up" -> Up(e)
          [] key.code = "Down" -> Down(e)
          [] Types(key) -> Insert(editor, <<key.char>>)
          [] OTHER -> editor

-----------------------------------------------------------------------------
(* What is shown.  A row is the positions its characters lie between. *)

\* The graphemes of a text, each by the positions it lies between.
GraphemeAt(text, from) == [from |-> from, to |-> Behind(text, from)]
Graphemes(text) ==
    LET starts == SetToSortSeq(Boundaries(text) \ {Len(text)}, <)
    IN  [g \in DOMAIN starts |-> GraphemeAt(text, starts[g])]
Columns(text, from, to) == TextWidth(SubSeq(text, from + 1, to))

\* visual_lines: a last line that fills its row exactly is followed by a row.
VisualRows(text, width) ==
    LET Next(rows, g) ==
            LET row == Last(rows)
            IN  CASE text[g.from + 1] = NewLine ->
                       Append(rows, [from |-> g.to, to |-> g.to])
                  [] /\ text[g.from + 1] # NewLine
                     /\ Columns(text, row.from, g.to) > width
                     /\ Columns(text, row.from, row.to) > 0 -> Append(rows, g)
                  [] OTHER -> Append(Front(rows), [row EXCEPT !.to = g.to])
        rows == FoldLeft(Next, <<[from |-> 0, to |-> 0]>>, Graphemes(text))
    IN  IF Columns(text, Last(rows).from, Len(text)) = width
        THEN Append(rows, [from |-> Len(text), to |-> Len(text)]) ELSE rows

\* Mutant: at the end of a line that fills its row, behind the row.
VisualCursorBehind(text, cursor, width) ==
    LET rows == VisualRows(text, width)
        r    == Max({n \in DOMAIN rows : n = 1 \/ rows[n].from < cursor})
    IN  <<Columns(text, rows[r].from, cursor), r - 1>>

\* visual_cursor: at the end of a line that fills its row, the next row.
VisualCursor(text, cursor, width) ==
    LET Carried(s) == IF s.col >= width THEN <<0, s.row + 1>> ELSE <<s.col, s.row>>
        Wrapped(s, columns) ==
            IF s.col + columns > width /\ s.col > 0
            THEN [s EXCEPT !.col = 0, !.row = s.row + 1] ELSE s
        Next(s, g) ==
            LET columns == Columns(text, g.from, g.to)
                wrapped == Wrapped(s, columns)
            IN  CASE s.found # <<>> -> s
                  [] s.found = <<>> /\ text[g.from + 1] = NewLine ->
                       [s EXCEPT !.found = IF g.from = cursor THEN Carried(s) ELSE <<>>,
                                 !.col = 0, !.row = s.row + 1]
                  [] OTHER ->
                       [wrapped EXCEPT
                          !.found = IF g.from = cursor
                                    THEN <<wrapped.col, wrapped.row>> ELSE <<>>,
                          !.col = wrapped.col + columns]
        end == FoldLeft(Next, [col |-> 0, row |-> 0, found |-> <<>>], Graphemes(text))
    IN  IF end.found # <<>> THEN end.found ELSE Carried(end)

=============================================================================
