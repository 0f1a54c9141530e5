-------------------------------- MODULE Keys --------------------------------
(***************************************************************************)
(* The parser of terminal input (crates/omp-cli, input.rs): the bytes that *)
(* have been read, and what one turn of Parser::next's loop makes of them. *)
(*                                                                         *)
(* Abstractions.  A byte is its number.  Of the time since the parser met  *)
(* an escape byte it matters whether it is "young", "old" (longer than it  *)
(* waits for the rest of a sequence before it takes the byte for the       *)
(* escape key) or "stale" (longer than it waits for a sequence's end).     *)
(***************************************************************************)
EXTENDS Integers, SequencesExt

CONSTANTS PasteLimit,    \* the bytes of a paste that are kept
          SequenceLimit, \* the bytes of a sequence without an end
          None

Ages == {"young", "old", "stale"}
Modifiers == {"Shift", "Alt", "Control"}

Key(code, mods) == [kind |-> "key", code |-> code, char |-> 0, mods |-> mods]
Char(c, mods) == [kind |-> "key", code |-> "Char", char |-> c, mods |-> mods]
Paste(text) == [kind |-> "paste", text |-> text]
Mouse(code, mods) == [kind |-> "mouse", code |-> code, mods |-> mods]

-----------------------------------------------------------------------------
(* Sequences: ESC [ or ESC O, parameters, and a byte that ends them. *)

IsDigit(b) == b \in 48 .. 57
IsLetter(b) == b \in (65 .. 90) \cup (97 .. 122)

\* What lies between the separators.
Split(bytes, separator) ==
    FoldLeft(LAMBDA parts, b :
               IF b = separator THEN Append(parts, <<>>)
               ELSE Append(Front(parts), Append(Last(parts), b)),
             <<<<>>>>, bytes)

IsNumber(bytes) == bytes # <<>> /\ \A i \in DOMAIN bytes : IsDigit(bytes[i])
Number(bytes) == FoldLeft(LAMBDA n, b : 10 * n + b - 48, 0, bytes)

\* A parameter without a number is 1; what follows a colon is ignored.
Parameter(part) ==
    LET bytes == Split(part, 58)[1] IN IF IsNumber(bytes) THEN Number(bytes) ELSE 1
Parameters(body) ==
    LET parts == Split(body, 59) IN [i \in DOMAIN parts |-> Parameter(parts[i])]

HasBit(n, bit) == (n \div bit) % 2 = 1
KeyModifiers(n) ==
    {m \in Modifiers : HasBit(n, CASE m = "Shift" -> 1 [] m = "Alt" -> 2 [] OTHER -> 4)}
MouseModifiers(n) ==
    {m \in Modifiers : HasBit(n, CASE m = "Shift" -> 4 [] m = "Alt" -> 8 [] OTHER -> 16)}

Arrows == (65 :> "Up" @@ 66 :> "Down" @@ 67 :> "Right" @@ 68 :> "Left"
           @@ 72 :> "Home" @@ 70 :> "End" @@ 90 :> "BackTab")
Tildes == (1 :> "Home" @@ 7 :> "Home" @@ 3 :> "Delete" @@ 4 :> "End"
           @@ 8 :> "End" @@ 5 :> "PageUp" @@ 6 :> "PageDown")
Unicodes == (13 :> "Enter" @@ 27 :> "Esc" @@ 9 :> "Tab" @@ 127 :> "Backspace")

\* Of the mouse only the wheel is heard.
DecodeMouse(body) ==
    LET parts == Split(body, 59)
        wheel == Number(parts[1])
    IN  IF Len(parts) # 3 \/ (\E i \in DOMAIN parts : ~IsNumber(parts[i]))
           \/ ~HasBit(wheel, 64) THEN None
        ELSE Mouse(<<"ScrollUp", "ScrollDown", "ScrollLeft", "ScrollRight">>
                     [(wheel % 4) + 1], MouseModifiers(wheel))

DecodeKey(end, params) ==
    LET mods == KeyModifiers(IF Len(params) > 1 /\ params[2] > 0
                             THEN params[2] - 1 ELSE 0)
    IN  CASE end \in DOMAIN Arrows ->
               Key(Arrows[end], mods \cup IF end = 90 THEN {"Shift"} ELSE {})
          [] end = 126 /\ params[1] \in DOMAIN Tildes -> Key(Tildes[params[1]], mods)
          [] end = 117 /\ params[1] \in DOMAIN Unicodes -> Key(Unicodes[params[1]], mods)
          [] end = 117 /\ params[1] \notin DOMAIN Unicodes -> Char(params[1], mods)
          [] OTHER -> None

\* decode_sequence: the event, or None for a sequence that has no meaning.
Decode(sequence) ==
    LET Body(from) == SubSeq(sequence, from, Len(sequence) - 1)
    IN  IF sequence[2] = 91 /\ sequence[3] = 60 THEN DecodeMouse(Body(4))
        ELSE DecodeKey(Last(sequence), Parameters(Body(3)))

\* Where the sequence at the head of the bytes ends, or None.  The small m that
\* ends a report of the mouse must not be followed by a letter.
Ends(bytes, i) ==
    IF bytes[2] = 91 /\ Len(bytes) > 2 /\ bytes[3] = 60
    THEN \/ bytes[i] = 77
         \/ bytes[i] = 109 /\ ~(i < Len(bytes) /\ IsLetter(bytes[i + 1]))
    ELSE bytes[i] \in 64 .. 126

SequenceEnd(bytes) ==
    LET ends == {i \in 3 .. Len(bytes) : Ends(bytes, i)}
    IN  IF ends = {} THEN None ELSE Min(ends)

-----------------------------------------------------------------------------
(* Characters. *)

Needed(lead) ==
    CASE lead < 128 -> 1 [] lead \in 128 .. 223 -> 2
      [] lead \in 224 .. 239 -> 3 [] OTHER -> 4

LeadBits(lead) ==
    CASE lead < 128 -> lead [] lead \in 128 .. 223 -> lead % 32
      [] lead \in 224 .. 239 -> lead % 16 [] OTHER -> lead % 8

\* The character that the bytes are, or None.
Utf8(bytes) ==
    IF bytes[1] \in 128 .. 193 \/ \E i \in 2 .. Len(bytes) : bytes[i] \notin 128 .. 191
    THEN None
    ELSE FoldLeft(LAMBDA n, b : 64 * n + (b % 64), LeadBits(bytes[1]), Tail(bytes))

\* String::from_utf8_lossy: what is no character is replaced by one.
Lossy(bytes) ==
    LET Next(s, b) ==
            LET held == Append(s.held, b)
            IN  CASE Len(held) < Needed(held[1]) -> [s EXCEPT !.held = held]
                  [] OTHER -> [held |-> <<>>,
                               text |-> Append(s.text, IF Utf8(held) = None THEN 65533
                                                       ELSE Utf8(held))]
    IN  FoldLeft(Next, [held |-> <<>>, text |-> <<>>], bytes).text

\* The keys of single bytes.
ControlKey(b) ==
    CASE b = 13 -> Key("Enter", {})
      [] b = 10 -> Char(106, {"Control"})
      [] b = 9 -> Key("Tab", {})
      [] b \in {8, 127} -> Key("Backspace", {})
      [] b = 0 -> Char(32, {"Control"})
      [] b \in (1 .. 26) \ {8, 9, 10, 13} -> Char(96 + b, {"Control"})
      [] OTHER -> None

-----------------------------------------------------------------------------
(* The parser: the bytes it has not taken yet, the age of the escape byte it *)
(* has met, the paste it is in, and whether the key it looks for comes       *)
(* behind an escape byte.                                                    *)

NewParser == [pending |-> <<>>, since |-> None, paste |-> None, alt |-> FALSE]

Feed(p, bytes) == [p EXCEPT !.pending = @ \o bytes]

PasteStart == <<27, 91, 50, 48, 48, 126>>
PasteEnd == <<27, 91, 50, 48, 49, 126>>

\* What a turn of the loop comes to: the parser goes on, or next returns an
\* event or nothing.
GoesOn(p) == [parser |-> p, event |-> None, more |-> TRUE]
Waits(p) == [parser |-> [p EXCEPT !.alt = FALSE], event |-> None, more |-> FALSE]

\* Behind an escape byte, a key is the key with Alt and another event is lost.
Heard(p, event) ==
    [parser |-> [p EXCEPT !.alt = FALSE], more |-> FALSE,
     event  |-> CASE ~p.alt -> event
                  [] p.alt /\ event.kind = "key" -> [event EXCEPT !.mods = @ \cup {"Alt"}]
                  [] OTHER -> None]

Take(p, n) == [p EXCEPT !.pending = SubSeq(@, n + 1, Len(@))]

\* Mutant: a marker cut by a read is not waited for.
InPasteEager(p) ==
    CASE p.pending = <<>> -> Waits(p)
      [] p.pending # <<>> /\ IsPrefix(PasteEnd, p.pending) ->
           Heard([Take(p, Len(PasteEnd)) EXCEPT !.paste = None], Paste(Lossy(p.paste)))
      [] OTHER -> GoesOn([Take(p, 1) EXCEPT !.paste = Append(@, Head(p.pending))])

\* A paste ends with its end marker.  While the bytes read may be the marker's
\* beginning, the parser waits.
InPaste(p) ==
    LET marked == IsPrefix(SubSeq(p.pending, 1, Min({Len(p.pending), Len(PasteEnd)})),
                           PasteEnd)
    IN  CASE p.pending = <<>> \/ (marked /\ Len(p.pending) < Len(PasteEnd)) -> Waits(p)
          [] p.pending # <<>> /\ marked /\ Len(p.pending) >= Len(PasteEnd) ->
               Heard([Take(p, Len(PasteEnd)) EXCEPT !.paste = None], Paste(Lossy(p.paste)))
          [] OTHER ->
               GoesOn([Take(p, 1) EXCEPT
                         !.paste = IF Len(@) < PasteLimit
                                   THEN Append(@, Head(p.pending)) ELSE @])

\* A sequence without an end is given up when it is too long or too old.
InSequence(p) ==
    LET end      == SequenceEnd(p.pending)
        rest     == [Take(p, end) EXCEPT !.since = None]
        sequence == SubSeq(p.pending, 1, end)
    IN  CASE end = None ->
               Waits(IF Len(p.pending) > SequenceLimit \/ p.since = "stale"
                     THEN [p EXCEPT !.pending = <<>>, !.since = None] ELSE p)
          [] end # None /\ sequence = PasteStart -> GoesOn([rest EXCEPT !.paste = <<>>])
          [] OTHER -> IF Decode(sequence) = None THEN GoesOn(rest)
                      ELSE Heard(rest, Decode(sequence))

InEscape(q) ==
    LET p == [q EXCEPT !.since = IF q.since = None THEN "young" ELSE q.since]
        key == [Take(p, 1) EXCEPT !.since = None]
    IN  CASE Len(p.pending) = 1 /\ p.since = "young" -> Waits(p)
          [] Len(p.pending) = 1 /\ p.since # "young" -> Heard(key, Key("Esc", {}))
          [] Len(p.pending) > 1 /\ p.pending[2] \in {91, 79} -> InSequence(p)
          [] OTHER -> GoesOn([key EXCEPT !.alt = TRUE])

InText(q) ==
    LET p     == [q EXCEPT !.since = None]
        first == Head(p.pending)
        char  == Utf8(SubSeq(p.pending, 1, Needed(first)))
    IN  CASE ControlKey(first) # None -> Heard(Take(p, 1), ControlKey(first))
          [] ControlKey(first) = None /\ Len(p.pending) < Needed(first) -> Waits(p)
          [] OTHER -> IF char = None THEN GoesOn(Take(p, 1))
                      ELSE Heard(Take(p, Needed(first)), Char(char, {}))

\* One turn of the loop of Parser::next.
Turn(p) ==
    CASE p.paste # None -> InPaste(p)
      [] p.paste = None /\ p.pending = <<>> -> Waits(p)
      [] p.paste = None /\ p.pending # <<>> /\ Head(p.pending) = 27 -> InEscape(p)
      [] OTHER -> InText(p)

=============================================================================
