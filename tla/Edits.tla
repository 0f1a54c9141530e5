------------------------------- MODULE Edits -------------------------------
(***************************************************************************)
(* The hashline patch language of the Edit tool (crates/omp-tools,         *)
(* edit.rs): how a patch is parsed into sections, which section a request  *)
(* for a file is given, and what its operations make of the file's lines   *)
(* (handle_edit in host.rs).                                               *)
(*                                                                         *)
(* Abstractions.  A path is the sequence of its components, a file the     *)
(* sequence of its lines, and a blank line is the empty string.  A line of *)
(* a patch says what it is: how a header is spelled is left out.           *)
(***************************************************************************)
EXTENDS Naturals, SequencesExt

CONSTANTS Paths, \* of files and directories
          None

ASSUME EditsAssumption ==
    /\ \A p \in Paths : p \in Seq(STRING) \ {<<>>}
    /\ None \notin Paths

\* An operation, with the lines it is about and those it brings, or where a
\* file is moved.
OpNames == {"PutRange", "PutBlock", "InsertBefore", "InsertAfter", "CutRange",
            "CutBlock", "RemoveFile", "MoveFile"}
Op == {op \in [name : OpNames, first : Nat, last : Nat, body : Seq(STRING),
                to : Paths \cup {None}] :
         CASE op.name = "MoveFile"   -> op.to \in Paths
           [] op.name = "RemoveFile" -> TRUE
           [] OTHER                  -> 1 <= op.first /\ op.first <= op.last}
Section == [path : Paths, tag : Nat, ops : Seq(Op)]

\* A line of a patch.
PatchLine == [kind : {"section"}, path : Paths, tag : Nat]
             \cup [kind : {"op"}, op : Op]
             \cup [kind : {"body"}, text : STRING]
             \cup [kind : {"blank", "malformed", "other"}]

-----------------------------------------------------------------------------
(* Parsing.  A line begins a section, heads an operation, belongs to a body, *)
(* is blank, is malformed, or is any other and passed over.                  *)

FlushOp(s) ==
    [s EXCEPT !.op = None,
              !.section = IF s.op = None \/ s.section = None THEN s.section
                          ELSE [s.section EXCEPT !.ops = Append(@, s.op)]]

FlushSection(s) ==
    [s EXCEPT !.section = None,
              !.sections = IF s.section = None THEN @ ELSE Append(@, s.section)]

TakesBody(op) ==
    op # None /\ op.name \in {"PutRange", "PutBlock", "InsertBefore", "InsertAfter"}

ParseLine(s, line) ==
    LET flushed == FlushOp(s)
        failed  == [s EXCEPT !.ok = FALSE]
    IN  CASE line.kind = "section" ->
               [FlushSection(flushed) EXCEPT
                  !.section = [path |-> line.path, tag |-> line.tag, ops |-> <<>>]]
          [] line.kind = "body" ->
               IF TakesBody(s.op) THEN [s EXCEPT !.op.body = Append(@, line.text)]
               ELSE failed
          [] line.kind = "blank" -> flushed
          [] line.kind = "malformed" -> failed
          [] line.kind = "op" ->
               IF s.section = None THEN failed ELSE [flushed EXCEPT !.op = line.op]
          [] line.kind = "other" -> IF s.section = None THEN failed ELSE flushed

\* HashlineParser::parse: the sections, or None.
Parse(patch) ==
    LET start == [sections |-> <<>>, section |-> None, op |-> None, ok |-> TRUE]
        state[k \in 0 .. Len(patch)] ==
            IF k = 0 THEN start
            ELSE IF state[k - 1].ok THEN ParseLine(state[k - 1], patch[k])
            ELSE state[k - 1]
        parsed == FlushSection(FlushOp(state[Len(patch)]))
    IN  IF parsed.ok /\ parsed.sections # <<>> THEN parsed.sections ELSE None

\* section_targets_path: the same path, or one ends with the other.
Targets(section, path) ==
    IsSuffix(section.path, path) \/ IsSuffix(path, section.path)

\* The first of the patch's sections that targets the path.
SectionFor(sections, path) ==
    sections[CHOOSE i \in DOMAIN sections :
               /\ Targets(sections[i], path)
               /\ \A j \in 1 .. i - 1 : ~Targets(sections[j], path)]

-----------------------------------------------------------------------------
(* Operations on lines. *)

\* Vec::splice, from behind line `from' to line `to'.
Splice(lines, from, to, body) ==
    SubSeq(lines, 1, from) \o body \o SubSeq(lines, to + 1, Len(lines))

Least(a, b) == IF a <= b THEN a ELSE b

\* A block goes to the next blank line.
BlockEnd(lines, first) ==
    CHOOSE last \in first .. Len(lines) :
      /\ \A i \in first + 1 .. last : lines[i] # ""
      /\ last = Len(lines) \/ lines[last + 1] = ""

\* Where an operation has its place in a file of n lines.
InBounds(op, n) ==
    CASE op.name \in {"PutRange", "InsertBefore"} -> op.first <= n + 1
      [] op.name \in {"RemoveFile", "MoveFile"}   -> TRUE
      [] OTHER                                    -> op.first <= n

\* What the operations have made of the file so far: its lines, or its end.
Step(state, op) ==
    LET lines == state.lines
        n     == Len(lines)
        Rewritten(from, to) ==
          [state EXCEPT !.lines = Splice(lines, from, to, op.body)]
    IN  IF ~InBounds(op, n) THEN [state EXCEPT !.effect = "conflict"]
        ELSE
        CASE op.name \in {"PutRange", "CutRange"} ->
               Rewritten(op.first - 1, Least(op.last, n))
          [] op.name \in {"PutBlock", "CutBlock"} ->
               Rewritten(op.first - 1, BlockEnd(lines, op.first))
          [] op.name = "InsertBefore" -> Rewritten(op.first - 1, op.first - 1)
          [] op.name = "InsertAfter"  -> Rewritten(op.first, op.first)
          [] op.name = "RemoveFile"   -> [state EXCEPT !.effect = "remove"]
          [] op.name = "MoveFile"     -> [state EXCEPT !.effect = "move", !.to = op.to]

\* The loop of handle_edit, which a conflict, a removal or a move ends.
Edited(lines, ops) ==
    LET state[k \in 0 .. Len(ops)] ==
            IF k = 0 THEN [effect |-> "rewrite", lines |-> lines, to |-> None]
            ELSE IF state[k - 1].effect = "rewrite" THEN Step(state[k - 1], ops[k])
            ELSE state[k - 1]
    IN  state[Len(ops)]

=============================================================================
