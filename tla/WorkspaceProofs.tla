--------------------------- MODULE WorkspaceProofs ---------------------------
(***************************************************************************)
(* What the host does to the workspace, for every workspace, patch and     *)
(* evaluation.                                                             *)
(***************************************************************************)
EXTENDS Workspace, PickingProofs

-----------------------------------------------------------------------------
(* What is parsed of a patch. *)

\* What the parser has so far.
Parsed == [sections : Seq(Section), section : Section \cup {None},
           op : Op \cup {None}, ok : BOOLEAN]

\* The parser's parts keep to that.
LEMMA FlushTyped ==
    ASSUME NEW s \in Parsed
    PROVE  FlushOp(s) \in Parsed /\ FlushSection(s) \in Parsed
<1>1. /\ s.sections \in Seq(Section) /\ s.section \in Section \cup {None}
      /\ s.op \in Op \cup {None} /\ s.ok \in BOOLEAN
  BY DEF Parsed
<1>2. FlushOp(s) \in Parsed
  <2> DEFINE section == IF s.op = None \/ s.section = None THEN s.section
                        ELSE [s.section EXCEPT !.ops = Append(@, s.op)]
  <2>1. section \in Section \cup {None}
    <3>1. CASE s.op = None \/ s.section = None
      BY <1>1, <3>1
    <3>2. CASE ~(s.op = None \/ s.section = None)
      <4>1. s.op \in Op /\ s.section \in Section
        BY <1>1, <3>2
      <4>2. Append(s.section.ops, s.op) \in Seq(Op)
        BY <4>1 DEF Section
      <4> QED
        BY <3>2, <4>1, <4>2 DEF Section
    <3> QED
      BY <3>1, <3>2
  <2> HIDE DEF section
  <2>2. None \in Op \cup {None}
    OBVIOUS
  <2> QED
    BY <1>1, <2>1, <2>2 DEF FlushOp, Parsed, section
<1>3. FlushSection(s) \in Parsed
  <2> DEFINE sections == IF s.section = None THEN s.sections
                         ELSE Append(s.sections, s.section)
  <2>1. sections \in Seq(Section)
    <3>1. CASE s.section = None
      BY <1>1, <3>1
    <3>2. CASE s.section # None
      BY <1>1, <3>2
    <3> QED
      BY <3>1, <3>2
  <2> HIDE DEF sections
  <2>2. None \in Section \cup {None}
    OBVIOUS
  <2> QED
    BY <1>1, <2>1, <2>2 DEF FlushSection, Parsed, sections
<1> QED
  BY <1>2, <1>3

\* So does a line.
LEMMA ParseLineTyped ==
    ASSUME NEW s \in Parsed, NEW line \in PatchLine
    PROVE  ParseLine(s, line) \in Parsed
<1> DEFINE flushed == FlushOp(s)
           closed == FlushSection(flushed)
           failed == [s EXCEPT !.ok = FALSE]
           new == [path |-> line.path, tag |-> line.tag, ops |-> <<>>]
<1>1. flushed \in Parsed
  BY FlushTyped
<1> HIDE DEF flushed
<1>2. closed \in Parsed
  BY <1>1, FlushTyped
<1> HIDE DEF closed
<1>3. failed \in Parsed
  <2>1. FALSE \in BOOLEAN
    OBVIOUS
  <2> QED
    BY <2>1 DEF Parsed
<1> HIDE DEF failed
<1>4. CASE line.kind = "section"
  <2>1. line.path \in Paths /\ line.tag \in Nat
    BY <1>4 DEF PatchLine
  <2>2. <<>> \in Seq(Op)
    OBVIOUS
  <2>3. new \in Section \cup {None}
    BY <2>1, <2>2 DEF Section
  <2> HIDE DEF new
  <2>4. [closed EXCEPT !.section = new] \in Parsed
    BY <1>2, <2>3 DEF Parsed
  <2>5. ParseLine(s, line) = [closed EXCEPT !.section = new]
    BY <1>4 DEF ParseLine, closed, flushed, new
  <2> QED
    BY <2>4, <2>5
<1>5. CASE line.kind = "body"
  <2>1. line.text \in STRING
    BY <1>5 DEF PatchLine
  <2>2. CASE TakesBody(s.op)
    <3>1. s.op \in Op /\ s.op # None
      BY <2>2 DEF TakesBody, Parsed
    <3>2. Append(s.op.body, line.text) \in Seq(STRING)
      BY <2>1, <3>1 DEF Op
    <3> DEFINE body == Append(s.op.body, line.text)
               op == [s.op EXCEPT !.body = body]
    <3> HIDE DEF body
    <3>3. op \in Op
      <4>1. /\ op \in [name : OpNames, first : Nat, last : Nat, body : Seq(STRING),
                       to : Paths \cup {None}]
            /\ op.name = s.op.name /\ op.first = s.op.first /\ op.last = s.op.last
            /\ op.to = s.op.to
        BY <3>1, <3>2 DEF Op, body
      <4> HIDE DEF op
      <4> QED
        BY <3>1, <4>1 DEF Op
    <3> HIDE DEF op
    <3>4. [s EXCEPT !.op = op] \in Parsed
      BY <3>3 DEF Parsed
    <3>5. ParseLine(s, line) = [s EXCEPT !.op.body = Append(@, line.text)]
      BY <1>5, <2>2, Zenon DEF ParseLine
    <3>6. ParseLine(s, line) = [s EXCEPT !.op = op]
      BY <3>5 DEF op, body
    <3> QED
      BY <3>4, <3>6
  <2>3. CASE ~TakesBody(s.op)
    BY <1>3, <1>5, <2>3 DEF ParseLine, failed
  <2> QED
    BY <2>2, <2>3
<1>6. CASE line.kind = "op"
  <2>1. line.op \in Op \cup {None}
    BY <1>6 DEF PatchLine
  <2>2. [flushed EXCEPT !.op = line.op] \in Parsed
    BY <1>1, <2>1 DEF Parsed
  <2>3. ParseLine(s, line) \in {failed, [flushed EXCEPT !.op = line.op]}
    BY <1>6 DEF ParseLine, failed, flushed
  <2> QED
    BY <1>3, <2>2, <2>3
<1>7. CASE line.kind \in {"blank", "malformed", "other"}
  <2>1. ParseLine(s, line) \in {failed, flushed}
    BY <1>7 DEF ParseLine, failed, flushed
  <2> QED
    BY <1>1, <1>3, <2>1
<1> QED
  BY <1>4, <1>5, <1>6, <1>7 DEF PatchLine

\* A patch is parsed into sections.
LEMMA ParseTyped ==
    ASSUME NEW patch \in Seq(PatchLine)
    PROVE  Parse(patch) # None =>
             Parse(patch) \in Seq(Section) /\ Len(Parse(patch)) >= 1
<1> DEFINE n == Len(patch)
           start == [sections |-> <<>>, section |-> None, op |-> None, ok |-> TRUE]
           Go(s, k) == IF s.ok THEN ParseLine(s, patch[k]) ELSE s
           G == [x \in Parsed \X (1 .. n) |-> Go(x[1], x[2])]
           Solves(f) == f = [k \in 0 .. n |->
                               IF k = 0 THEN start
                               ELSE IF f[k - 1].ok
                                    THEN ParseLine(f[k - 1], patch[k])
                                    ELSE f[k - 1]]
<1>1. n \in Nat /\ DOMAIN patch = 1 .. n /\ \A k \in 1 .. n : patch[k] \in PatchLine
  BY LenProperties, ElementOfSeq
<1> HIDE DEF n
<1>2. start \in Parsed
  <2>1. /\ <<>> \in Seq(Section) /\ None \in Section \cup {None}
        /\ None \in Op \cup {None} /\ TRUE \in BOOLEAN
    OBVIOUS
  <2> QED
    BY <2>1 DEF Parsed
<1> HIDE DEF start
<1>3. \A s \in Parsed, k \in 1 .. n : Go(s, k) \in Parsed
  BY <1>1, ParseLineTyped
<1>4. Round(Parsed, n, G)
  <2> HIDE DEF Go
  <2>1. \A x \in Parsed \X (1 .. n) : x[1] \in Parsed /\ x[2] \in 1 .. n
    OBVIOUS
  <2> QED
    BY <1>3, <2>1 DEF Round
<1>5. PICK f : Rounds(Parsed, start, n, G, f)
  <2> HIDE DEF G
  <2> QED
    BY <1>1, <1>2, <1>4, RoundsExist
<1>6. \A k \in 1 .. n : f[k] = Go(f[k - 1], k)
  <2> TAKE k \in 1 .. n
  <2>1. k - 1 \in 0 .. n
    BY <1>1
  <2>2. f[k - 1] \in Parsed
    BY <1>5, <2>1 DEF Rounds
  <2>3. <<f[k - 1], k>> \in Parsed \X (1 .. n)
    BY <2>2
  <2> HIDE DEF Go
  <2> QED
    BY <1>5, <2>3 DEF Rounds
<1>7. Solves(f)
  <2> DEFINE h == [k \in 0 .. n |-> IF k = 0 THEN start
                                    ELSE IF f[k - 1].ok
                                         THEN ParseLine(f[k - 1], patch[k])
                                         ELSE f[k - 1]]
  <2>1. \A k \in 0 .. n : f[k] = h[k]
    <3> TAKE k \in 0 .. n
    <3>1. CASE k = 0
      BY <1>5, <3>1 DEF Rounds
    <3>2. CASE k # 0
      <4>1. k \in 1 .. n
        BY <1>1, <3>2
      <4> QED
        BY <1>6, <3>2, <4>1
    <3> QED
      BY <3>1, <3>2
  <2>2. f = h
    BY <1>5, <2>1 DEF Rounds
  <2> QED
    BY <2>2
<1> DEFINE g == CHOOSE g : Solves(g)
<1>8. Solves(g)
  <2> HIDE DEF Solves
  <2> QED
    BY <1>7
<1>9. \A k \in 0 .. n : g[k] \in Parsed
  <2>1. \A k \in 0 .. n : g[k] = IF k = 0 THEN start
                                 ELSE IF g[k - 1].ok
                                      THEN ParseLine(g[k - 1], patch[k])
                                      ELSE g[k - 1]
    <3> HIDE DEF g
    <3> QED
      BY <1>8, Zenon
  <2> HIDE DEF g
  <2>2. g[0] \in Parsed
    BY <1>1, <1>2, <2>1
  <2>3. \A k \in 1 .. n : g[k - 1] \in Parsed => g[k] \in Parsed
    <3> TAKE k \in 1 .. n
    <3>1. g[k] = Go(g[k - 1], k)
      BY <1>1, <2>1
    <3> HIDE DEF Go
    <3> QED
      BY <1>3, <3>1
  <2> QED
    BY <1>1, <2>2, <2>3, RoundsKeep
<1> DEFINE parsed == FlushSection(FlushOp(g[n]))
<1>10. Parse(patch) = IF parsed.ok /\ parsed.sections # <<>>
                      THEN parsed.sections ELSE None
  BY DEF Parse, n, start
<1> HIDE DEF g
<1>11. parsed \in Parsed
  <2>1. g[n] \in Parsed
    BY <1>1, <1>9
  <2> QED
    BY <2>1, FlushTyped
<1> HIDE DEF parsed
<1>12. parsed.sections \in Seq(Section)
  BY <1>11 DEF Parsed
<1> QED
  BY <1>10, <1>12, EmptySeq, LenProperties

-----------------------------------------------------------------------------
(* What operations make of a file. *)

\* What they have made of it so far.
Outcome == {s \in [effect : {"rewrite", "remove", "move", "conflict"},
                   lines : Seq(STRING), to : Paths \cup {None}] :
              s.effect = "move" => s.to \in Paths}

\* A block has an end.
LEMMA BlockEnds ==
    ASSUME NEW lines \in Seq(STRING), NEW first \in Nat, first <= Len(lines)
    PROVE  BlockEnd(lines, first) \in first .. Len(lines)
<1> DEFINE n == Len(lines)
           S == {i \in Nat : first <= i /\ (i = n \/ lines[i + 1] = "")}
           End(last) == /\ \A i \in first + 1 .. last : lines[i] # ""
                        /\ last = Len(lines) \/ lines[last + 1] = ""
<1>1. n \in Nat
  BY LenProperties
<1>2. S \in SUBSET Nat /\ n \in S
  BY <1>1
<1>3. PICK m \in Nat : m \in S /\ \A k \in S : m <= k
  <2> HIDE DEF S
  <2> QED
    BY <1>2, LeastNatural
<1>4. first <= m /\ m <= n
  <2>1. m <= n
    <3> HIDE DEF S, n
    <3> QED
      BY <1>2, <1>3
  <2> QED
    BY <1>3, <2>1
<1>5. m = n \/ lines[m + 1] = ""
  BY <1>3
<1> HIDE DEF n
<1>6. \A i \in first + 1 .. m : lines[i] # ""
  <2> TAKE i \in first + 1 .. m
  <2>1. i - 1 \in Nat /\ first <= i - 1 /\ (i - 1) + 1 = i /\ i - 1 < m
    BY <1>4
  <2>2. lines[i] = "" => i - 1 \in S
    BY <2>1
  <2>3. i - 1 \notin S
    <3> HIDE DEF S
    <3> QED
      BY <1>3, <2>1
  <2> QED
    BY <2>2, <2>3
<1>7. End(m)
  BY <1>6, <1>5 DEF n
<1>8. (CHOOSE last \in first .. Len(lines) : End(last)) \in first .. Len(lines)
  <2>1. m \in first .. Len(lines)
    BY <1>1, <1>4 DEF n
  <2> HIDE DEF End
  <2> QED
    BY <1>7, <2>1
<1> QED
  BY <1>8 DEF BlockEnd

\* What a splice leaves is lines.
LEMMA SpliceTyped ==
    ASSUME NEW lines \in Seq(STRING), NEW from \in Int, from <= Len(lines),
           NEW to \in Nat, NEW body \in Seq(STRING)
    PROVE  Splice(lines, from, to, body) \in Seq(STRING)
<1> DEFINE head == SubSeq(lines, 1, from)
           tail == SubSeq(lines, to + 1, Len(lines))
<1>1. Len(lines) \in Nat /\ DOMAIN lines = 1 .. Len(lines)
      /\ \A i \in 1 .. Len(lines) : lines[i] \in STRING
  BY LenProperties, ElementOfSeq
<1>2. head \in Seq(STRING)
  BY <1>1, SubSeqProperties
<1>3. tail \in Seq(STRING)
  BY <1>1, SubSeqProperties
<1> HIDE DEF head, tail
<1>4. head \o body \in Seq(STRING)
  BY <1>2, ConcatProperties
<1>5. (head \o body) \o tail \in Seq(STRING)
  BY <1>3, <1>4, ConcatProperties
<1> QED
  BY <1>5 DEF Splice, head, tail

\* An operation keeps to that.
LEMMA StepTyped ==
    ASSUME NEW s \in Outcome, s.effect = "rewrite", NEW op \in Op
    PROVE  Step(s, op) \in Outcome
<1> DEFINE n == Len(s.lines)
           Rewritten(from, to) ==
             [s EXCEPT !.lines = Splice(s.lines, from, to, op.body)]
<1>1. /\ s.lines \in Seq(STRING) /\ n \in Nat
      /\ op.first \in Nat /\ op.last \in Nat /\ op.body \in Seq(STRING)
      /\ op.to \in Paths \cup {None} /\ op.name \in OpNames
      /\ op.name = "MoveFile" => op.to \in Paths
  BY LenProperties DEF Outcome, Op
<1>2. \A from \in Int, to \in Nat : from <= n => Rewritten(from, to) \in Outcome
  <2> SUFFICES ASSUME NEW from \in Int, NEW to \in Nat, from <= n
               PROVE  Rewritten(from, to) \in Outcome
    OBVIOUS
  <2> DEFINE lines == Splice(s.lines, from, to, op.body)
  <2>1. lines \in Seq(STRING)
    BY <1>1, SpliceTyped
  <2> HIDE DEF lines
  <2>2. [s EXCEPT !.lines = lines] \in Outcome
    BY <2>1 DEF Outcome
  <2> QED
    BY <2>2 DEF lines
<1> HIDE DEF n, Rewritten
<1>3. CASE ~InBounds(op, n)
  <2>1. [s EXCEPT !.effect = "conflict"] \in Outcome
    BY DEF Outcome
  <2> QED
    BY <1>3, <2>1 DEF Step, n
<1>4. CASE InBounds(op, n)
  <2>1. CASE op.name \in {"PutRange", "CutRange"}
    <3>1. op.first - 1 \in Int /\ op.first - 1 <= n /\ Least(op.last, n) \in Nat
      BY <1>1, <1>4, <2>1 DEF InBounds, Least
    <3>2. Step(s, op) = Rewritten(op.first - 1, Least(op.last, n))
      BY <1>4, <2>1, Zenon DEF Step, n, Rewritten
    <3> QED
      BY <1>2, <3>1, <3>2
  <2>2. CASE op.name \in {"PutBlock", "CutBlock"}
    <3>1. op.first <= n
      BY <1>1, <1>4, <2>2 DEF InBounds
    <3>2. BlockEnd(s.lines, op.first) \in op.first .. n
      BY <1>1, <3>1, BlockEnds DEF n
    <3>3. /\ op.first - 1 \in Int /\ op.first - 1 <= n
          /\ BlockEnd(s.lines, op.first) \in Nat
      BY <1>1, <3>1, <3>2
    <3>4. Step(s, op) = Rewritten(op.first - 1, BlockEnd(s.lines, op.first))
      BY <1>4, <2>2 DEF Step, n, Rewritten
    <3> QED
      BY <1>2, <3>3, <3>4
  <2>3. CASE op.name = "InsertBefore"
    <3>1. op.first - 1 \in Nat /\ op.first - 1 <= n
      BY <1>1, <1>4, <2>3 DEF InBounds, Op
    <3>2. Step(s, op) = Rewritten(op.first - 1, op.first - 1)
      BY <1>4, <2>3 DEF Step, n, Rewritten
    <3> QED
      BY <1>2, <3>1, <3>2
  <2>4. CASE op.name = "InsertAfter"
    <3>1. op.first \in Nat /\ op.first <= n
      BY <1>1, <1>4, <2>4 DEF InBounds
    <3>2. Step(s, op) = Rewritten(op.first, op.first)
      BY <1>4, <2>4 DEF Step, n, Rewritten
    <3> QED
      BY <1>2, <3>1, <3>2
  <2>5. CASE op.name = "RemoveFile"
    <3>1. [s EXCEPT !.effect = "remove"] \in Outcome
      BY DEF Outcome
    <3>2. Step(s, op) = [s EXCEPT !.effect = "remove"]
      BY <1>4, <2>5 DEF Step, n
    <3> QED
      BY <3>1, <3>2
  <2>6. CASE op.name = "MoveFile"
    <3>1. [s EXCEPT !.effect = "move", !.to = op.to] \in Outcome
      BY <1>1, <2>6 DEF Outcome
    <3>2. Step(s, op) = [s EXCEPT !.effect = "move", !.to = op.to]
      BY <1>4, <2>6 DEF Step, n
    <3> QED
      BY <3>1, <3>2
  <2> QED
    BY <1>1, <2>1, <2>2, <2>3, <2>4, <2>5, <2>6 DEF OpNames
<1> QED
  BY <1>3, <1>4

\* So do several.
LEMMA EditedTyped ==
    ASSUME NEW lines \in Seq(STRING), NEW ops \in Seq(Op)
    PROVE  Edited(lines, ops) \in Outcome
<1> DEFINE n == Len(ops)
           start == [effect |-> "rewrite", lines |-> lines, to |-> None]
           Go(s, k) == IF s.effect = "rewrite" THEN Step(s, ops[k]) ELSE s
           G == [x \in Outcome \X (1 .. n) |-> Go(x[1], x[2])]
           Solves(f) == f = [k \in 0 .. n |->
                               IF k = 0 THEN start
                               ELSE IF f[k - 1].effect = "rewrite"
                                    THEN Step(f[k - 1], ops[k])
                                    ELSE f[k - 1]]
<1>1. n \in Nat /\ DOMAIN ops = 1 .. n /\ \A k \in 1 .. n : ops[k] \in Op
  BY LenProperties, ElementOfSeq
<1> HIDE DEF n
<1>2. start \in Outcome
  <2>1. None \in Paths \cup {None}
    OBVIOUS
  <2> QED
    BY <2>1 DEF Outcome
<1> HIDE DEF start
<1>3. \A s \in Outcome, k \in 1 .. n : Go(s, k) \in Outcome
  BY <1>1, StepTyped
<1>4. Round(Outcome, n, G)
  <2> HIDE DEF Go
  <2>1. \A x \in Outcome \X (1 .. n) : x[1] \in Outcome /\ x[2] \in 1 .. n
    OBVIOUS
  <2> QED
    BY <1>3, <2>1 DEF Round
<1>5. PICK f : Rounds(Outcome, start, n, G, f)
  <2> HIDE DEF G
  <2> QED
    BY <1>1, <1>2, <1>4, RoundsExist
<1>6. \A k \in 1 .. n : f[k] = Go(f[k - 1], k)
  <2> TAKE k \in 1 .. n
  <2>1. k - 1 \in 0 .. n
    BY <1>1
  <2>2. f[k - 1] \in Outcome
    BY <1>5, <2>1 DEF Rounds
  <2>3. <<f[k - 1], k>> \in Outcome \X (1 .. n)
    BY <2>2
  <2> HIDE DEF Go
  <2> QED
    BY <1>5, <2>3 DEF Rounds
<1>7. Solves(f)
  <2> DEFINE h == [k \in 0 .. n |-> IF k = 0 THEN start
                                    ELSE IF f[k - 1].effect = "rewrite"
                                         THEN Step(f[k - 1], ops[k])
                                         ELSE f[k - 1]]
  <2>1. \A k \in 0 .. n : f[k] = h[k]
    <3> TAKE k \in 0 .. n
    <3>1. CASE k = 0
      BY <1>5, <3>1 DEF Rounds
    <3>2. CASE k # 0
      <4>1. k \in 1 .. n
        BY <1>1, <3>2
      <4> QED
        BY <1>6, <3>2, <4>1
    <3> QED
      BY <3>1, <3>2
  <2>2. f = h
    BY <1>5, <2>1 DEF Rounds
  <2> QED
    BY <2>2
<1> DEFINE g == CHOOSE g : Solves(g)
<1>8. Solves(g)
  <2> HIDE DEF Solves
  <2> QED
    BY <1>7
<1>9. \A k \in 0 .. n : g[k] \in Outcome
  <2>1. \A k \in 0 .. n : g[k] = IF k = 0 THEN start
                                 ELSE IF g[k - 1].effect = "rewrite"
                                      THEN Step(g[k - 1], ops[k])
                                      ELSE g[k - 1]
    <3> HIDE DEF g
    <3> QED
      BY <1>8, Zenon
  <2> HIDE DEF g
  <2>2. g[0] \in Outcome
    BY <1>1, <1>2, <2>1
  <2>3. \A k \in 1 .. n : g[k - 1] \in Outcome => g[k] \in Outcome
    <3> TAKE k \in 1 .. n
    <3>1. g[k] = Go(g[k - 1], k)
      BY <1>1, <2>1
    <3> HIDE DEF Go
    <3> QED
      BY <1>3, <3>1
  <2> QED
    BY <1>1, <2>2, <2>3, RoundsKeep
<1>10. Edited(lines, ops) = g[n]
  BY DEF Edited, n, start
<1> HIDE DEF g
<1> QED
  BY <1>1, <1>9, <1>10

\* The section a file is given is one of the patch that targets it, if there is
\* one for it.
LEMMA SectionFound ==
    ASSUME NEW sections \in Seq(Section), NEW i \in 1 .. Len(sections)
    PROVE  /\ SectionFor(sections, sections[i].path) \in Section
           /\ SectionFor(sections, sections[i].path) \in Range(sections)
           /\ Targets(SectionFor(sections, sections[i].path), sections[i].path)
<1> DEFINE path == sections[i].path
           S == {k \in Nat : k \in 1 .. Len(sections) /\ Targets(sections[k], path)}
           First(k) == /\ Targets(sections[k], path)
                       /\ \A j \in 1 .. k - 1 : ~Targets(sections[j], path)
<1>1. /\ Len(sections) \in Nat /\ DOMAIN sections = 1 .. Len(sections)
      /\ \A k \in 1 .. Len(sections) : sections[k] \in Section
  BY LenProperties, ElementOfSeq
<1>2. path \in Seq(STRING)
  BY <1>1, EditsAssumption DEF Section
<1> HIDE DEF path
<1>3. Targets(sections[i], path)
  <2> DEFINE q == Reverse(path)
  <2>1. Len(q) <= Len(q)
    <3>1. Len(path) \in Nat
      BY <1>2, LenProperties
    <3>2. q \in Seq(STRING)
      BY <1>2, <3>1, LenProperties, ElementOfSeq, IsASeq DEF Reverse
    <3> QED
      BY <3>2, LenProperties
  <2> HIDE DEF q
  <2>2. IsPrefix(q, q)
    BY <2>1 DEF IsPrefix
  <2> QED
    BY <2>2 DEF Targets, IsSuffix, path, q
<1>4. S \in SUBSET Nat /\ i \in S
  BY <1>1, <1>3
<1>5. PICK m \in S : \A k \in S : m <= k
  <2> HIDE DEF S
  <2> QED
    BY <1>4, LeastNatural
<1>6. First(m) /\ m \in DOMAIN sections
  BY <1>1, <1>4, <1>5
<1> DEFINE c == CHOOSE k \in DOMAIN sections : First(k)
<1>7. c \in DOMAIN sections /\ First(c)
  <2> HIDE DEF First
  <2> QED
    BY <1>6
<1>8. SectionFor(sections, path) = sections[c]
  BY DEF SectionFor
<1> HIDE DEF c
<1>9. sections[c] \in Section /\ sections[c] \in Range(sections)
      /\ Targets(sections[c], path)
  BY <1>1, <1>7 DEF Range
<1> QED
  BY <1>8, <1>9 DEF path

-----------------------------------------------------------------------------
(* Trees. *)

\* The workspaces there can be.
Tree == {tree \in [Paths -> Content] : WellFormed(tree)}

\* A strict prefix, element by element.
LEMMA StrictPrefix ==
    ASSUME NEW S, NEW s \in Seq(S), NEW t \in Seq(S)
    PROVE  IsStrictPrefix(s, t) <=>
             Len(s) < Len(t) /\ \A i \in 1 .. Len(s) : s[i] = t[i]
<1> DEFINE m == Len(s)
           n == Len(t)
<1>1. /\ m \in Nat /\ n \in Nat /\ DOMAIN s = 1 .. m /\ DOMAIN t = 1 .. n
      /\ s = [i \in 1 .. m |-> s[i]] /\ t = [i \in 1 .. n |-> t[i]]
  BY LenProperties
<1> HIDE DEF m, n
<1>2. m <= n => (SubSeq(s, 1, m) = SubSeq(t, 1, m) <=> \A i \in 1 .. m : s[i] = t[i])
  <2> SUFFICES ASSUME m <= n
               PROVE  SubSeq(s, 1, m) = SubSeq(t, 1, m) <=>
                        \A i \in 1 .. m : s[i] = t[i]
    OBVIOUS
  <2>1. /\ SubSeq(s, 1, m) = [i \in 1 .. m |-> s[i]]
        /\ SubSeq(t, 1, m) = [i \in 1 .. m |-> t[i]]
    <3>1. m \in 0 .. m /\ m \in 0 .. n
      BY <1>1
    <3>2. SubSeq(s, 1, m) = Restrict(s, 1 .. m) /\ SubSeq(t, 1, m) = Restrict(t, 1 .. m)
      BY <3>1, SubSeqRestrict DEF m, n
    <3> QED
      BY <3>2 DEF Restrict
  <2> QED
    BY <2>1
<1>3. m = n /\ (\A i \in 1 .. m : s[i] = t[i]) => s = t
  BY <1>1
<1>4. s = t => m = n
  BY DEF m, n
<1>5. ASSUME IsStrictPrefix(s, t)
      PROVE  m < n /\ \A i \in 1 .. m : s[i] = t[i]
  <2>1. m <= n /\ SubSeq(s, 1, m) = SubSeq(t, 1, m) /\ s # t
    BY <1>5 DEF IsStrictPrefix, IsPrefix, m, n
  <2>2. \A i \in 1 .. m : s[i] = t[i]
    BY <1>2, <2>1
  <2>3. m # n
    BY <1>3, <2>1, <2>2
  <2>4. m \in Nat /\ n \in Nat
    BY <1>1
  <2>5. m < n
    BY <2>1, <2>3, <2>4
  <2> QED
    BY <2>2, <2>5
<1>6. ASSUME m < n, \A i \in 1 .. m : s[i] = t[i]
      PROVE  IsStrictPrefix(s, t)
  <2>1. m <= n /\ m # n
    BY <1>1, <1>6
  <2>2. SubSeq(s, 1, m) = SubSeq(t, 1, m) /\ s # t
    BY <1>2, <1>4, <1>6, <2>1
  <2> QED
    BY <2>1, <2>2 DEF IsStrictPrefix, IsPrefix, m, n
<1> QED
  BY <1>5, <1>6 DEF m, n

\* The ancestors of a path: those of one of them are too, and it is none.
LEMMA AncestorsOf ==
    ASSUME NEW p \in Paths
    PROVE  /\ Ancestors(p) \subseteq Paths /\ p \notin Ancestors(p)
           /\ \A q \in Ancestors(p) : Ancestors(q) \subseteq Ancestors(p)
<1>1. Ancestors(p) \subseteq Paths /\ p \notin Ancestors(p)
  BY DEF Ancestors, IsStrictPrefix
<1>2. ASSUME NEW q \in Ancestors(p), NEW r \in Ancestors(q)
      PROVE  r \in Ancestors(p)
  <2>1. /\ q \in Paths /\ r \in Paths
        /\ IsStrictPrefix(q, p) /\ IsStrictPrefix(r, q)
    BY <1>2 DEF Ancestors
  <2>2. p \in Seq(STRING) /\ q \in Seq(STRING) /\ r \in Seq(STRING)
    BY <2>1, EditsAssumption
  <2>3. Len(p) \in Nat /\ Len(q) \in Nat /\ Len(r) \in Nat
    BY <2>2, LenProperties
  <2>4. /\ Len(q) < Len(p) /\ \A i \in 1 .. Len(q) : q[i] = p[i]
        /\ Len(r) < Len(q) /\ \A i \in 1 .. Len(r) : r[i] = q[i]
    BY <2>1, <2>2, StrictPrefix
  <2>5. Len(r) < Len(p) /\ \A i \in 1 .. Len(r) : r[i] = p[i]
    BY <2>3, <2>4
  <2> QED
    BY <2>1, <2>2, <2>5, StrictPrefix DEF Ancestors
<1> QED
  BY <1>1, <1>2

\* What there is in a tree is below directories only.
LEMMA TreeAbove ==
    ASSUME NEW tree \in Tree, NEW p \in Paths, tree[p] # Absent,
           NEW q \in Ancestors(p)
    PROVE  tree[q] = Dir
BY DEF Tree, WellFormed

\* Directories with all above them can be made in a tree.
LEMMA MakeTree ==
    ASSUME NEW tree \in Tree, NEW dirs \in SUBSET Paths,
           \A q \in dirs : Ancestors(q) \subseteq dirs
    PROVE  /\ Make(tree, dirs) \in Tree
           /\ \A q \in Paths : Make(tree, dirs)[q] = IF q \in dirs THEN Dir ELSE tree[q]
<1> DEFINE made == Make(tree, dirs)
<1>1. /\ tree \in [Paths -> Content]
      /\ \A p \in Paths : tree[p] # Absent => \A q \in Ancestors(p) : tree[q] = Dir
  BY DEF Tree, WellFormed
<1>2. Dir \in Content
  BY DEF Content
<1>3. /\ made \in [Paths -> Content]
      /\ \A q \in Paths : made[q] = IF q \in dirs THEN Dir ELSE tree[q]
  BY <1>1, <1>2 DEF Make
<1> HIDE DEF made
<1>4. ASSUME NEW p \in Paths, made[p] # Absent, NEW q \in Ancestors(p)
      PROVE  made[q] = Dir
  <2>1. q \in Paths
    BY AncestorsOf
  <2>2. p \in dirs => q \in dirs
    OBVIOUS
  <2> QED
    BY <1>1, <1>3, <1>4, <2>1, <2>2
<1>5. made \in Tree
  BY <1>3, <1>4 DEF Tree, WellFormed
<1> QED
  BY <1>3, <1>5 DEF made

\* What has nothing below can be replaced, where everything above is a directory.
LEMMA SetTree ==
    ASSUME NEW tree \in Tree, NEW p \in Paths, NEW content \in Content,
           content # Absent => \A q \in Ancestors(p) : tree[q] = Dir,
           content = Dir \/ tree[p] # Dir \/ Below(tree, p) = {}
    PROVE  [tree EXCEPT ![p] = content] \in Tree
<1> DEFINE new == [tree EXCEPT ![p] = content]
<1>1. /\ tree \in [Paths -> Content]
      /\ \A r \in Paths : tree[r] # Absent => \A q \in Ancestors(r) : tree[q] = Dir
  BY DEF Tree, WellFormed
<1>2. /\ new \in [Paths -> Content]
      /\ \A q \in Paths : new[q] = IF q = p THEN content ELSE tree[q]
  BY <1>1
<1> HIDE DEF new
<1>3. ASSUME NEW r \in Paths, new[r] # Absent, NEW q \in Ancestors(r)
      PROVE  new[q] = Dir
  <2>1. q \in Paths /\ IsStrictPrefix(q, r) /\ p \notin Ancestors(p)
    BY AncestorsOf DEF Ancestors
  <2>2. CASE r = p
    BY <1>2, <1>3, <2>1, <2>2
  <2>3. CASE r # p
    <3>1. tree[r] # Absent /\ tree[q] = Dir
      BY <1>1, <1>2, <1>3, <2>3
    <3>2. q = p => content = Dir
      BY <2>1, <3>1 DEF Below
    <3> QED
      BY <1>2, <2>1, <3>1, <3>2
  <2> QED
    BY <2>2, <2>3
<1>4. new \in Tree
  BY <1>2, <1>3 DEF Tree, WellFormed
<1> QED
  BY <1>4 DEF new

\* Something removed, that has nothing below.
LEMMA RemovedTree ==
    ASSUME NEW tree \in Tree, NEW p \in Paths, tree[p] # Dir \/ Below(tree, p) = {}
    PROVE  /\ Removed(tree, p) \in Tree
           /\ \A q \in Paths : Removed(tree, p)[q] = IF q = p THEN Absent ELSE tree[q]
<1>1. Absent \in Content
  BY DEF Content
<1>2. Removed(tree, p) \in Tree
  BY <1>1, SetTree DEF Removed
<1> QED
  BY <1>2 DEF Removed, Tree

\* A file put where it can be.
LEMMA PutTree ==
    ASSUME NEW tree \in Tree, NEW p \in Paths, NEW content \in Content,
           CanPut(tree, p)
    PROVE  /\ Put(tree, p, content) \in Tree
           /\ \A q \in Paths : Put(tree, p, content)[q] =
                IF q = p THEN content
                ELSE IF q \in Ancestors(p) THEN Dir ELSE tree[q]
<1> DEFINE made == Make(tree, Ancestors(p))
<1>1. /\ Ancestors(p) \in SUBSET Paths /\ p \notin Ancestors(p)
      /\ \A q \in Ancestors(p) : Ancestors(q) \subseteq Ancestors(p)
  BY AncestorsOf
<1>2. /\ made \in Tree
      /\ \A q \in Paths : made[q] = IF q \in Ancestors(p) THEN Dir ELSE tree[q]
  BY <1>1, MakeTree
<1> HIDE DEF made
<1>3. made[p] # Dir
  BY <1>1, <1>2 DEF CanPut
<1>4. \A q \in Ancestors(p) : made[q] = Dir
  BY <1>1, <1>2
<1>5. [made EXCEPT ![p] = content] \in Tree
  BY <1>2, <1>3, <1>4, SetTree
<1>6. \A q \in Paths : [made EXCEPT ![p] = content][q] =
                         IF q = p THEN content ELSE made[q]
  BY <1>2 DEF Tree
<1> QED
  BY <1>1, <1>2, <1>5, <1>6 DEF Put, made

-----------------------------------------------------------------------------
(* The difference between a view's trees. *)

\* Entries, and what is to be done.
DiffEntry == [path : Paths, kind : {"modified", "deleted", "created", "renamed"},
              from : Paths \cup {None}]
DiffSet == [entries : Seq(DiffEntry), made : Seq(Paths), gone : Seq(Paths)]

\* What is yet to be done is of the difference between the view's two trees, and
\* no two entries are about one path.
EntryOK(view, e) ==
    /\ IF e.kind = "deleted" THEN e.path \in Deleted(view) /\ e.from = None
       ELSE e.path \in Created(view) \cup Modified(view)
    /\ e.from \in Deleted(view) \cup {None}

\* The same of all.
DiffOK(view, d) ==
    /\ \A p \in Range(d.made) : view.copy[p] = Dir
    /\ \A e \in Range(d.entries) : EntryOK(view, e)
    /\ \A i, j \in DOMAIN d.entries :
         i # j => Checked(d.entries[i]) \cap Checked(d.entries[j]) = {}
    /\ \A p \in Range(d.gone) : view.baseline[p] = Dir /\ view.copy[p] # Dir

\* The paths of the entries that are yet to be applied.
Todo(d) == UNION {Checked(e) : e \in Range(d.entries)}

\* The elements of a sequence.
LEMMA RangeOf ==
    ASSUME NEW S, NEW s \in Seq(S)
    PROVE  /\ DOMAIN s = 1 .. Len(s) /\ Len(s) \in Nat
           /\ Range(s) \in SUBSET S
           /\ \A x : x \in Range(s) <=> \E i \in DOMAIN s : x = s[i]
<1>1. DOMAIN s = 1 .. Len(s) /\ Len(s) \in Nat /\ \A i \in 1 .. Len(s) : s[i] \in S
  BY LenProperties, ElementOfSeq
<1>2. \A x : x \in Range(s) <=> \E i \in DOMAIN s : x = s[i]
  BY DEF Range
<1> QED
  BY <1>1, <1>2

\* The paths of a set, each once.
LEMMA InOrderOf ==
    ASSUME NEW set \in SUBSET Paths
    PROVE  /\ InOrder(set) \in Seq(Paths)
           /\ Range(InOrder(set)) = set
           /\ \A i, j \in DOMAIN InOrder(set) : i # j => InOrder(set)[i] # InOrder(set)[j]
<1> DEFINE kept == {i \in DOMAIN PathOrder : PathOrder[i] \in set}
           r == InOrder(set)
           n == Len(PathOrder)
<1>1. /\ PathOrder \in Seq(Paths) /\ Paths = Range(PathOrder)
      /\ \A i, j \in DOMAIN PathOrder : i # j => PathOrder[i] # PathOrder[j]
  BY WorkspaceAssumption
<1>2. /\ DOMAIN PathOrder = 1 .. n /\ n \in Nat
      /\ \A x : x \in Range(PathOrder) <=> \E i \in DOMAIN PathOrder : x = PathOrder[i]
  BY <1>1, RangeOf
<1>3. r = Picked(PathOrder, kept) /\ kept \in SUBSET DOMAIN PathOrder
  BY DEF InOrder
<1>4. \A i \in kept : i \in DOMAIN PathOrder /\ PathOrder[i] \in set
  OBVIOUS
<1>5. \A x \in set : \E i \in kept : PathOrder[i] = x
  BY <1>1, <1>2
<1> HIDE DEF kept, r, n
<1>6. r \in Seq(Paths) /\ OneByOne(PathOrder, kept, n, r)
  BY <1>1, <1>3, PickedInOrder DEF n
<1>7. /\ DOMAIN r = 1 .. Len(r) /\ Len(r) \in Nat
      /\ \A x : x \in Range(r) <=> \E j \in DOMAIN r : x = r[j]
  BY <1>6, RangeOf
<1>8. \A j \in DOMAIN r : \E p \in kept : r[j] = PathOrder[p]
  BY <1>6 DEF OneByOne
<1>9. \A p \in kept : \E j \in DOMAIN r : r[j] = PathOrder[p]
  <2>1. \A p \in kept : p <= n
    BY <1>2, <1>3
  <2> QED
    BY <1>6, <2>1 DEF OneByOne
<1>10. \A j, k \in DOMAIN r : j < k => r[j] # r[k]
  <2> TAKE j, k \in DOMAIN r
  <2> HAVE j < k
  <2>1. PICK p, q \in kept : p < q /\ r[j] = PathOrder[p] /\ r[k] = PathOrder[q]
    BY <1>6 DEF OneByOne
  <2>2. p # q /\ p \in DOMAIN PathOrder /\ q \in DOMAIN PathOrder
    BY <1>2, <1>4, <2>1
  <2> QED
    BY <1>1, <2>1, <2>2
<1>11. Range(r) = set
  <2>1. ASSUME NEW x \in Range(r)
        PROVE  x \in set
    <3>1. PICK j \in DOMAIN r : x = r[j]
      BY <1>7
    <3> QED
      BY <1>4, <1>8, <3>1
  <2>2. ASSUME NEW x \in set
        PROVE  x \in Range(r)
    <3>1. PICK p \in kept : PathOrder[p] = x
      BY <1>5
    <3>2. PICK j \in DOMAIN r : r[j] = PathOrder[p]
      BY <1>9
    <3> QED
      BY <1>7, <3>1, <3>2
  <2> QED
    BY <2>1, <2>2
<1>12. \A j, k \in DOMAIN r : j # k => r[j] # r[k]
  BY <1>7, <1>10
<1> QED
  BY <1>6, <1>11, <1>12 DEF r

\* Reverse changes the order only.
LEMMA ReverseOf ==
    ASSUME NEW S, NEW s \in Seq(S)
    PROVE  Reverse(s) \in Seq(S) /\ Range(Reverse(s)) = Range(s)
<1> DEFINE n == Len(s)
           r == Reverse(s)
<1>1. n \in Nat /\ DOMAIN s = 1 .. n /\ \A i \in 1 .. n : s[i] \in S
  BY LenProperties, ElementOfSeq
<1>2. r = [i \in 1 .. n |-> s[(n - i) + 1]]
  BY DEF Reverse
<1> HIDE DEF n, r
<1>3. \A i \in 1 .. n : (n - i) + 1 \in 1 .. n /\ (n - ((n - i) + 1)) + 1 = i
  BY <1>1
<1>4. DOMAIN r = 1 .. n /\ \A i \in 1 .. n : r[i] = s[(n - i) + 1]
  BY <1>2
<1>5. \A i \in 1 .. n : r[i] \in S
  BY <1>1, <1>3, <1>4
<1>6. r \in Seq(S)
  BY <1>1, <1>2, <1>5, IsASeq
<1>7. \A i \in 1 .. n : s[i] = r[(n - i) + 1]
  BY <1>3, <1>4
<1>8. Range(r) = Range(s)
  BY <1>1, <1>3, <1>4, <1>7 DEF Range
<1> QED
  BY <1>6, <1>8 DEF r

\* The sets a difference is made of.
LEMMA Kinds ==
    ASSUME NEW view
    PROVE  /\ Modified(view) \subseteq Paths /\ Created(view) \subseteq Paths
           /\ Deleted(view) \subseteq Paths
           /\ Modified(view) \cap Created(view) = {}
           /\ Modified(view) \cap Deleted(view) = {}
           /\ Created(view) \cap Deleted(view) = {}
BY DEF Modified, Created, Deleted, Files

\* What an entry is about.
LEMMA EntryOf ==
    ASSUME NEW view, NEW pairing \in Pairings(view),
           NEW p \in (Modified(view) \cup Created(view) \cup Deleted(view)) \ Range(pairing)
    PROVE  /\ Entry(view, pairing, p) \in DiffEntry
           /\ EntryOK(view, Entry(view, pairing, p))
           /\ p \in Checked(Entry(view, pairing, p))
           /\ \A q \in Checked(Entry(view, pairing, p)) :
                q = p \/ (p \in Created(view) /\ pairing[p] = q /\ q # None)
           /\ p \in Created(view) /\ pairing[p] # None =>
                pairing[p] \in Checked(Entry(view, pairing, p))
<1> DEFINE e == Entry(view, pairing, p)
<1>1. /\ p \in Paths /\ p # None
      /\ pairing \in [Created(view) -> Deleted(view) \cup {None}]
  BY EditsAssumption, Kinds DEF Pairings
<1>2. e.path = p /\ e.from = IF p \in Created(view) THEN pairing[p] ELSE None
  BY DEF Entry
<1>3. e.from \in Deleted(view) \cup {None} /\ e.from \in Paths \cup {None}
  <2>1. p \in Created(view) => pairing[p] \in Deleted(view) \cup {None}
    BY <1>1
  <2>2. None \in Deleted(view) \cup {None}
    OBVIOUS
  <2>3. e.from \in Deleted(view) \cup {None}
    BY <1>2, <2>1, <2>2
  <2> QED
    BY <2>3, Kinds
<1>4. /\ p \in Modified(view) => e.kind = "modified"
      /\ p \in Deleted(view) => e.kind = "deleted"
      /\ p \in Created(view) => e.kind \in {"created", "renamed"}
  <2>1. CASE p \in Modified(view)
    <3>1. p \notin Deleted(view) /\ p \notin Created(view)
      BY <2>1, Kinds
    <3> QED
      BY <2>1, <3>1 DEF Entry
  <2>2. CASE p \in Deleted(view)
    <3>1. p \notin Modified(view) /\ p \notin Created(view)
      BY <2>2, Kinds
    <3> QED
      BY <2>2, <3>1 DEF Entry
  <2>3. CASE p \in Created(view)
    <3>1. p \notin Modified(view) /\ p \notin Deleted(view)
      BY <2>3, Kinds
    <3> QED
      BY <2>3, <3>1 DEF Entry
  <2> QED
    BY <2>1, <2>2, <2>3
<1>5. e \in DiffEntry
  <2>1. e.kind \in {"modified", "deleted", "created", "renamed"}
    BY <1>4
  <2>2. e = [path |-> e.path, kind |-> e.kind, from |-> e.from]
    BY DEF Entry
  <2> HIDE DEF e
  <2> QED
    BY <1>1, <1>2, <1>3, <2>1, <2>2 DEF DiffEntry
<1> HIDE DEF e
<1>6. EntryOK(view, e)
  <2>1. CASE p \in Deleted(view)
    <3>1. p \notin Created(view)
      BY <2>1, Kinds
    <3> QED
      BY <1>2, <1>3, <1>4, <2>1, <3>1 DEF EntryOK
  <2>2. CASE p \notin Deleted(view)
    <3>1. p \in Modified(view) \cup Created(view)
      BY <2>2
    <3>2. e.kind # "deleted"
      BY <1>4, <3>1
    <3> QED
      BY <1>2, <1>3, <3>1, <3>2 DEF EntryOK
  <2> QED
    BY <2>1, <2>2
<1>7. Checked(e) = {p, e.from} \ {None}
  BY <1>2 DEF Checked
<1> QED
  BY <1>1, <1>2, <1>5, <1>6, <1>7 DEF e

\* What compute_diff makes of a view's trees.
LEMMA ComputedOf ==
    ASSUME NEW view, NEW pairing \in Pairings(view), NEW d, d = Computed(view, pairing)
    PROVE  /\ d \in DiffSet
           /\ DiffOK(view, d)
           /\ Todo(d) = Modified(view) \cup Created(view) \cup Deleted(view)
           /\ Range(d.made) = Directories(view.copy) \ Directories(view.baseline)
           /\ Range(d.gone) = Directories(view.baseline) \ Directories(view.copy)
<1> DEFINE all == Modified(view) \cup Created(view) \cup Deleted(view)
           paths == all \ Range(pairing)
           was == Directories(view.baseline)
           is == Directories(view.copy)
           order == InOrder(paths)
           entries == [i \in DOMAIN order |-> Entry(view, pairing, order[i])]
<1>1. /\ d.entries = entries /\ d.made = InOrder(is \ was)
      /\ d.gone = Reverse(InOrder(was \ is))
      /\ d = [entries |-> d.entries, made |-> d.made, gone |-> d.gone]
  BY DEF Computed
<1>2. /\ paths \in SUBSET Paths /\ was \in SUBSET Paths /\ is \in SUBSET Paths
  BY Kinds DEF Directories
<1>3. /\ order \in Seq(Paths) /\ Range(order) = paths
      /\ \A i, j \in DOMAIN order : i # j => order[i] # order[j]
  <2> HIDE DEF paths
  <2> QED
    BY <1>2, InOrderOf
<1> HIDE DEF order
<1>4. /\ DOMAIN order = 1 .. Len(order) /\ Len(order) \in Nat
      /\ \A x : x \in Range(order) <=> \E i \in DOMAIN order : x = order[i]
  BY <1>3, RangeOf
<1>5. \A i \in DOMAIN order : order[i] \in paths
  BY <1>3, <1>4
<1>6. DOMAIN entries = DOMAIN order
      /\ \A i \in DOMAIN order : entries[i] = Entry(view, pairing, order[i])
  OBVIOUS
<1>7. entries \in Seq(DiffEntry)
  <2>1. \A i \in DOMAIN order : entries[i] \in DiffEntry
    BY <1>5, <1>6, EntryOf
  <2> QED
    BY <1>4, <2>1, IsASeq
<1> HIDE DEF entries
<1>8. \A e : e \in Range(entries) <=> \E i \in DOMAIN order : e = entries[i]
  BY <1>6, <1>7, RangeOf
<1>9. /\ d.made \in Seq(Paths) /\ Range(d.made) = is \ was
  BY <1>1, <1>2, InOrderOf
<1>10. /\ d.gone \in Seq(Paths) /\ Range(d.gone) = was \ is
  <2>1. was \ is \in SUBSET Paths
    BY <1>2
  <2>2. InOrder(was \ is) \in Seq(Paths) /\ Range(InOrder(was \ is)) = was \ is
    <3> HIDE DEF was, is
    <3> QED
      BY <2>1, InOrderOf
  <2> QED
    BY <1>1, <2>2, ReverseOf
<1>11. d \in DiffSet
  BY <1>1, <1>7, <1>9, <1>10 DEF DiffSet
<1>12. /\ pairing \in [Created(view) -> Deleted(view) \cup {None}]
       /\ \A c, e \in Created(view) :
            c # e /\ pairing[c] # None => pairing[c] # pairing[e]
  BY DEF Pairings
<1>13. \A i \in DOMAIN order :
         /\ EntryOK(view, entries[i])
         /\ order[i] \in Checked(entries[i])
         /\ \A q \in Checked(entries[i]) :
              q = order[i] \/ (/\ order[i] \in Created(view)
                               /\ pairing[order[i]] = q /\ q # None)
         /\ order[i] \in Created(view) /\ pairing[order[i]] # None =>
              pairing[order[i]] \in Checked(entries[i])
  <2> TAKE i \in DOMAIN order
  <2> DEFINE p == order[i]
  <2>1. p \in paths /\ entries[i] = Entry(view, pairing, p)
    BY <1>5, <1>6
  <2> HIDE DEF p
  <2>2. /\ EntryOK(view, Entry(view, pairing, p))
        /\ p \in Checked(Entry(view, pairing, p))
        /\ \A q \in Checked(Entry(view, pairing, p)) :
             q = p \/ (p \in Created(view) /\ pairing[p] = q /\ q # None)
        /\ p \in Created(view) /\ pairing[p] # None =>
             pairing[p] \in Checked(Entry(view, pairing, p))
    BY <2>1, EntryOf
  <2> QED
    BY <2>1, <2>2 DEF p
<1>14. \A i, j \in DOMAIN order :
         i # j => Checked(entries[i]) \cap Checked(entries[j]) = {}
  <2> TAKE i, j \in DOMAIN order
  <2> HAVE i # j
  <2> SUFFICES ASSUME NEW q \in Checked(entries[i]), q \in Checked(entries[j])
               PROVE  FALSE
    OBVIOUS
  <2>1. order[i] # order[j] /\ order[i] \notin Range(pairing) /\ order[j] \notin Range(pairing)
    BY <1>3, <1>5
  <2>2. \A k \in DOMAIN order : order[k] \in Created(view) =>
          pairing[order[k]] \in Range(pairing)
    BY <1>12 DEF Range
  <2>3. /\ q = order[i] \/ (order[i] \in Created(view) /\ pairing[order[i]] = q /\ q # None)
        /\ q = order[j] \/ (order[j] \in Created(view) /\ pairing[order[j]] = q /\ q # None)
    BY <1>13
  <2> QED
    BY <1>12, <2>1, <2>2, <2>3
<1>15. DiffOK(view, d)
  <2>1. \A p \in Range(d.made) : view.copy[p] = Dir
    BY <1>9 DEF Directories
  <2>2. \A p \in Range(d.gone) : view.baseline[p] = Dir /\ view.copy[p] # Dir
    BY <1>10 DEF Directories
  <2>3. \A e \in Range(d.entries) : EntryOK(view, e)
    BY <1>1, <1>8, <1>13
  <2>4. \A i, j \in DOMAIN d.entries :
          i # j => Checked(d.entries[i]) \cap Checked(d.entries[j]) = {}
    BY <1>1, <1>6, <1>14
  <2> QED
    BY <2>1, <2>2, <2>3, <2>4 DEF DiffOK
<1>16. \A x : x \in Todo(d) <=> \E i \in DOMAIN order : x \in Checked(entries[i])
  BY <1>1, <1>8 DEF Todo
<1>17. ASSUME NEW x \in Todo(d)
       PROVE  x \in all
  <2>1. PICK i \in DOMAIN order : x \in Checked(entries[i])
    BY <1>16
  <2>2. x = order[i] \/ (order[i] \in Created(view) /\ pairing[order[i]] = x /\ x # None)
    BY <1>13, <2>1
  <2>3. order[i] \in all
    BY <1>5
  <2> QED
    BY <1>12, <2>2, <2>3
<1>18. ASSUME NEW x \in all
       PROVE  x \in Todo(d)
  <2>1. CASE x \notin Range(pairing)
    <3>1. PICK i \in DOMAIN order : x = order[i]
      BY <1>3, <1>4, <2>1
    <3> QED
      BY <1>13, <1>16, <3>1
  <2>2. CASE x \in Range(pairing)
    <3>1. PICK c \in Created(view) : x = pairing[c]
      BY <1>12, <2>2 DEF Range
    <3>2. x # None /\ c \in Paths
      BY Kinds, EditsAssumption
    <3>3. c \notin Range(pairing)
      <4>1. c # None /\ c \notin Deleted(view)
        BY <3>2, Kinds, EditsAssumption
      <4> QED
        BY <1>12, <4>1 DEF Range
    <3>4. PICK i \in DOMAIN order : c = order[i]
      BY <1>3, <1>4, <3>3
    <3> QED
      BY <1>13, <1>16, <3>1, <3>2, <3>4
  <2> QED
    BY <2>1, <2>2
<1>19. Todo(d) = all
  BY <1>17, <1>18
<1> QED
  BY <1>9, <1>10, <1>11, <1>15, <1>19

\* The first of a sequence and the others.
LEMMA HeadAndTail ==
    ASSUME NEW S, NEW s \in Seq(S), s # <<>>
    PROVE  /\ Head(s) \in S /\ Tail(s) \in Seq(S)
           /\ \A x : x \in Range(s) <=> x = Head(s) \/ x \in Range(Tail(s))
           /\ 1 \in DOMAIN s /\ Head(s) = s[1]
           /\ \A i \in DOMAIN Tail(s) : /\ i + 1 \in DOMAIN s /\ i + 1 # 1
                                        /\ Tail(s)[i] = s[i + 1]
<1>1. /\ DOMAIN s = 1 .. Len(s) /\ Len(s) \in Nat
      /\ \A x : x \in Range(s) <=> \E i \in DOMAIN s : x = s[i]
  BY RangeOf
<1>2. Len(s) # 0
  BY EmptySeq
<1>3. /\ Head(s) \in S /\ Tail(s) \in Seq(S) /\ Len(Tail(s)) = Len(s) - 1
      /\ \A i \in 1 .. Len(Tail(s)) : Tail(s)[i] = s[i + 1]
  BY HeadTailProperties
<1>4. Head(s) = s[1]
  OBVIOUS
<1> DEFINE t == Tail(s)
<1>5. t \in Seq(S)
  BY <1>3
<1>6. /\ DOMAIN t = 1 .. Len(t) /\ Len(t) = Len(s) - 1
      /\ \A x : x \in Range(t) <=> \E i \in DOMAIN t : x = t[i]
      /\ \A i \in 1 .. Len(t) : t[i] = s[i + 1]
  BY <1>3, <1>5, RangeOf
<1> HIDE DEF t
<1>7. 1 \in DOMAIN s /\ \A i \in DOMAIN t : i + 1 \in DOMAIN s /\ i + 1 # 1
  BY <1>1, <1>2, <1>6
<1>8. \A i \in DOMAIN s : i # 1 => i - 1 \in DOMAIN t /\ (i - 1) + 1 = i
  BY <1>1, <1>6
<1>9. ASSUME NEW x \in Range(s)
      PROVE  x = Head(s) \/ x \in Range(t)
  <2>1. PICK i \in DOMAIN s : x = s[i]
    BY <1>1
  <2>2. CASE i = 1
    BY <1>4, <2>1, <2>2
  <2>3. CASE i # 1
    <3>1. i - 1 \in DOMAIN t /\ (i - 1) + 1 = i
      BY <1>8, <2>3
    <3> DEFINE k == i - 1
    <3>2. k \in DOMAIN t /\ t[k] = s[k + 1] /\ k + 1 = i
      BY <1>6, <3>1
    <3> HIDE DEF k
    <3> QED
      BY <1>6, <2>1, <3>2
  <2> QED
    BY <2>2, <2>3
<1>10. ASSUME NEW x, x = Head(s) \/ x \in Range(t)
       PROVE  x \in Range(s)
  <2>1. CASE x = Head(s)
    BY <1>1, <1>4, <1>7, <2>1
  <2>2. CASE x \in Range(t)
    <3>1. PICK i \in DOMAIN t : x = t[i]
      BY <1>6, <2>2
    <3>2. i + 1 \in DOMAIN s /\ x = s[i + 1]
      BY <1>6, <1>7, <3>1
    <3> QED
      BY <1>1, <3>2
  <2> QED
    BY <1>10, <2>1, <2>2
<1>11. \A x : x \in Range(s) <=> x = Head(s) \/ x \in Range(t)
  BY <1>9, <1>10
<1>12. \A i \in DOMAIN t : t[i] = s[i + 1]
  BY <1>6
<1> QED
  BY <1>3, <1>4, <1>7, <1>11, <1>12 DEF t

\* One directory less to be made.
LEMMA LessMade ==
    ASSUME NEW view, NEW d \in DiffSet, DiffOK(view, d), d.made # <<>>,
           NEW c, c = [d EXCEPT !.made = Tail(@)]
    PROVE  /\ c \in DiffSet /\ DiffOK(view, c)
           /\ c.entries = d.entries /\ c.gone = d.gone /\ Todo(c) = Todo(d)
           /\ Head(d.made) \in Paths /\ view.copy[Head(d.made)] = Dir
           /\ Range(d.made) = Range(c.made) \cup {Head(d.made)}
<1>1. d.made \in Seq(Paths)
  BY DEF DiffSet
<1>2. /\ Head(d.made) \in Paths /\ Tail(d.made) \in Seq(Paths)
      /\ \A x : x \in Range(d.made) <=> x = Head(d.made) \/ x \in Range(Tail(d.made))
  BY <1>1, HeadAndTail
<1>3. /\ c \in DiffSet /\ c.made = Tail(d.made)
      /\ c.entries = d.entries /\ c.gone = d.gone
  BY <1>2 DEF DiffSet
<1>4. Range(d.made) = Range(c.made) \cup {Head(d.made)}
  BY <1>2, <1>3
<1> QED
  BY <1>2, <1>3, <1>4 DEF DiffOK, Todo

\* One directory less to be removed.
LEMMA LessGone ==
    ASSUME NEW view, NEW d \in DiffSet, DiffOK(view, d), d.gone # <<>>,
           NEW c, c = [d EXCEPT !.gone = Tail(@)]
    PROVE  /\ c \in DiffSet /\ DiffOK(view, c)
           /\ c.entries = d.entries /\ c.made = d.made /\ Todo(c) = Todo(d)
           /\ Head(d.gone) \in Paths
           /\ view.baseline[Head(d.gone)] = Dir /\ view.copy[Head(d.gone)] # Dir
           /\ Range(d.gone) = Range(c.gone) \cup {Head(d.gone)}
<1>1. d.gone \in Seq(Paths)
  BY DEF DiffSet
<1>2. /\ Head(d.gone) \in Paths /\ Tail(d.gone) \in Seq(Paths)
      /\ \A x : x \in Range(d.gone) <=> x = Head(d.gone) \/ x \in Range(Tail(d.gone))
  BY <1>1, HeadAndTail
<1>3. /\ c \in DiffSet /\ c.gone = Tail(d.gone)
      /\ c.entries = d.entries /\ c.made = d.made
  BY <1>2 DEF DiffSet
<1>4. Range(d.gone) = Range(c.gone) \cup {Head(d.gone)}
  BY <1>2, <1>3
<1> QED
  BY <1>2, <1>3, <1>4 DEF DiffOK, Todo

\* One entry less to be applied.
LEMMA LessEntries ==
    ASSUME NEW view, NEW d \in DiffSet, DiffOK(view, d), d.entries # <<>>,
           NEW c, c = [d EXCEPT !.entries = Tail(@)]
    PROVE  /\ c \in DiffSet /\ DiffOK(view, c)
           /\ c.made = d.made /\ c.gone = d.gone
           /\ Head(d.entries) \in DiffEntry /\ EntryOK(view, Head(d.entries))
           /\ Todo(d) = Checked(Head(d.entries)) \cup Todo(c)
           /\ Checked(Head(d.entries)) \cap Todo(c) = {}
<1> DEFINE s == d.entries
           t == Tail(s)
           h == Head(s)
<1>1. s \in Seq(DiffEntry)
  BY DEF DiffSet
<1>2. /\ h \in DiffEntry /\ t \in Seq(DiffEntry)
      /\ \A x : x \in Range(s) <=> x = h \/ x \in Range(t)
      /\ 1 \in DOMAIN s /\ h = s[1]
      /\ \A i \in DOMAIN t : /\ i + 1 \in DOMAIN s /\ i + 1 # 1
                             /\ t[i] = s[i + 1]
  BY <1>1, HeadAndTail
<1> HIDE DEF t, h
<1>3. /\ c \in DiffSet /\ c.entries = t
      /\ c.made = d.made /\ c.gone = d.gone
  BY <1>2 DEF DiffSet, t
<1> HIDE DEF s
<1>4. /\ \A e \in Range(s) : EntryOK(view, e)
      /\ \A i, j \in DOMAIN s : i # j => Checked(s[i]) \cap Checked(s[j]) = {}
  BY DEF DiffOK, s
<1>5. DOMAIN t = 1 .. Len(t) /\ \A x : x \in Range(t) <=> \E i \in DOMAIN t : x = t[i]
  BY <1>2, RangeOf
<1>6. \A i, j \in DOMAIN t : i # j => Checked(t[i]) \cap Checked(t[j]) = {}
  <2> TAKE i, j \in DOMAIN t
  <2> HAVE i # j
  <2>1. i + 1 # j + 1
    BY <1>5
  <2> DEFINE k == i + 1
             l == j + 1
  <2>2. k \in DOMAIN s /\ l \in DOMAIN s /\ t[i] = s[k] /\ t[j] = s[l]
    BY <1>2
  <2> HIDE DEF k, l
  <2> QED
    BY <1>4, <2>1, <2>2 DEF k, l
<1>7. DiffOK(view, c)
  <2>1. /\ \A p \in Range(d.made) : view.copy[p] = Dir
        /\ \A p \in Range(d.gone) : view.baseline[p] = Dir /\ view.copy[p] # Dir
    BY DEF DiffOK
  <2> QED
    BY <1>2, <1>3, <1>4, <1>6, <2>1 DEF DiffOK
<1>8. \A e \in Range(t) : Checked(h) \cap Checked(e) = {}
  <2> TAKE e \in Range(t)
  <2>1. PICK i \in DOMAIN t : e = t[i]
    BY <1>5
  <2> DEFINE k == i + 1
  <2>2. k \in DOMAIN s /\ k # 1 /\ e = s[k]
    BY <1>2, <2>1
  <2> HIDE DEF k
  <2> QED
    BY <1>2, <1>4, <2>2
<1>9. Todo(d) = Checked(h) \cup Todo(c) /\ Checked(h) \cap Todo(c) = {}
  <2>1. /\ \A x : x \in Todo(d) <=> \E e \in Range(s) : x \in Checked(e)
        /\ \A x : x \in Todo(c) <=> \E e \in Range(t) : x \in Checked(e)
    BY <1>3 DEF Todo, s
  <2>2. \A x : x \in Todo(d) <=> x \in Checked(h) \/ x \in Todo(c)
    BY <1>2, <2>1, Zenon
  <2>3. \A x : ~(x \in Checked(h) /\ x \in Todo(c))
    BY <1>8, <2>1
  <2> QED
    BY <2>2, <2>3
<1>10. EntryOK(view, h)
  BY <1>2, <1>4
<1> QED
  BY <1>2, <1>3, <1>7, <1>9, <1>10 DEF h, s

-----------------------------------------------------------------------------
(* What applying an entry does. *)

\* Where a renamed file was, nothing is left.
LEMMA SourceTree ==
    ASSUME base \in Tree, NEW e \in DiffEntry, e.from # None => base[e.from] # Dir
    PROVE  /\ SourceRemoved(e) \in Tree
           /\ \A q \in Paths : SourceRemoved(e)[q] =
                                 IF q = e.from THEN Absent ELSE base[q]
<1>1. e.from \in Paths \cup {None}
  BY DEF DiffEntry
<1>2. CASE e.from = None
  BY <1>2, EditsAssumption DEF SourceRemoved
<1>3. CASE e.from # None
  <2>1. e.from \in Paths
    BY <1>1, <1>3
  <2>2. /\ Removed(base, e.from) \in Tree
        /\ \A q \in Paths : Removed(base, e.from)[q] =
                              IF q = e.from THEN Absent ELSE base[q]
    BY <1>3, <2>1, RemovedTree
  <2> QED
    BY <1>3, <2>2 DEF SourceRemoved
<1> QED
  BY <1>2, <1>3

\* A file that comes: where it goes, what is above it, and where it was.
LEMMA PutEntry ==
    ASSUME base \in Tree, NEW e \in DiffEntry, e.kind # "deleted", CanApply(e),
           NEW content \in Content, NEW new,
           new = Put(SourceRemoved(e), e.path, content)
    PROVE  /\ new \in Tree
           /\ \A q \in Paths : new[q] = IF q = e.path THEN content
                                        ELSE IF q \in Ancestors(e.path) THEN Dir
                                        ELSE IF q = e.from THEN Absent
                                        ELSE base[q]
           /\ \A q \in Ancestors(e.path) : q = e.from \/ ~IsFile(base, q)
<1> DEFINE source == SourceRemoved(e)
<1>1. e.path \in Paths
  BY DEF DiffEntry
<1>2. (e.from # None => base[e.from] # Dir) /\ CanPut(source, e.path)
  BY DEF CanApply
<1>3. /\ source \in Tree
      /\ \A q \in Paths : source[q] = IF q = e.from THEN Absent ELSE base[q]
  BY <1>2, SourceTree
<1>4. new = Put(source, e.path, content)
  OBVIOUS
<1> HIDE DEF source
<1>5. /\ new \in Tree
      /\ \A q \in Paths : new[q] = IF q = e.path THEN content
                                   ELSE IF q \in Ancestors(e.path) THEN Dir
                                   ELSE source[q]
  BY <1>1, <1>2, <1>3, <1>4, PutTree
<1>6. \A q \in Ancestors(e.path) : q \in Paths /\ ~IsFile(source, q)
  BY <1>1, <1>2, AncestorsOf DEF CanPut, CanMake
<1>7. \A q \in Ancestors(e.path) : q = e.from \/ ~IsFile(base, q)
  BY <1>3, <1>6 DEF IsFile
<1> QED
  BY <1>3, <1>5, <1>7

\* A file that goes.
LEMMA RemoveEntry ==
    ASSUME base \in Tree, NEW e \in DiffEntry, e.kind = "deleted", CanApply(e)
    PROVE  /\ Applied(e) \in Tree
           /\ \A q \in Paths : Applied(e)[q] = IF q = e.path THEN Absent ELSE base[q]
<1>1. e.path \in Paths /\ base[e.path] # Dir
  BY DEF CanApply, DiffEntry
<1>2. /\ Removed(base, e.path) \in Tree
      /\ \A q \in Paths : Removed(base, e.path)[q] =
                            IF q = e.path THEN Absent ELSE base[q]
  BY <1>1, RemovedTree
<1> QED
  BY <1>2 DEF Applied

\* The paths of an entry.
LEMMA CheckedOf ==
    ASSUME NEW e \in DiffEntry
    PROVE  /\ e.path \in Checked(e) /\ e.path \in Paths
           /\ e.from # None => e.from \in Checked(e) /\ e.from \in Paths
           /\ \A q \in Checked(e) : q = e.path \/ (q = e.from /\ q # None)
BY EditsAssumption DEF DiffEntry, Checked

\* A merge that breaks off leaves a tree, and has changed no file but one of the
\* entry that was next.
LEMMA BrokenTree ==
    ASSUME base \in Tree, diff \in DiffSet, Broken,
           pc = "Apply" => DiffOK(session, diff)
    PROVE  /\ base' \in Tree
           /\ \A p \in Paths : IsFile(base, p) /\ base'[p] # base[p] =>
                /\ pc = "Apply" /\ p \in Todo(diff)
<1>1. CASE UNCHANGED base
  BY <1>1
<1>2. CASE Applying /\ diff.made = <<>> /\ diff.entries # <<>>
           /\ \E entry \in {Head(diff.entries)} :
                \/ /\ entry.from # None /\ base[entry.from] # Dir
                   /\ base' = SourceRemoved(entry)
                \/ /\ entry.kind # "deleted" /\ CanApply(entry)
                   /\ base' = Put(SourceRemoved(entry), entry.path, <<>>)
  <2> DEFINE e == Head(diff.entries)
             c == [diff EXCEPT !.entries = Tail(@)]
  <2>1. pc = "Apply" /\ DiffOK(session, diff)
    BY <1>2 DEF Applying
  <2>2. e \in DiffEntry /\ Checked(e) \subseteq Todo(diff)
    <3>1. c = [diff EXCEPT !.entries = Tail(@)]
      OBVIOUS
    <3> HIDE DEF c
    <3>2. /\ c \in DiffSet /\ e \in DiffEntry
          /\ Todo(diff) = Checked(e) \cup Todo(c)
      BY <1>2, <2>1, <3>1, LessEntries
    <3> QED
      BY <3>2
  <2>3. \/ /\ e.from # None /\ base[e.from] # Dir
           /\ base' = SourceRemoved(e)
        \/ /\ e.kind # "deleted" /\ CanApply(e)
           /\ base' = Put(SourceRemoved(e), e.path, <<>>)
    BY <1>2
  <2> HIDE DEF e
  <2>4. /\ e.path \in Checked(e)
        /\ e.from # None => e.from \in Checked(e)
    BY <2>2, CheckedOf
  <2>5. CASE e.from # None /\ base[e.from] # Dir /\ base' = SourceRemoved(e)
    <3>1. /\ SourceRemoved(e) \in Tree
          /\ \A q \in Paths : SourceRemoved(e)[q] =
                                IF q = e.from THEN Absent ELSE base[q]
      BY <2>2, <2>5, SourceTree
    <3> QED
      BY <2>1, <2>2, <2>4, <2>5, <3>1
  <2>6. CASE e.kind # "deleted" /\ CanApply(e)
             /\ base' = Put(SourceRemoved(e), e.path, <<>>)
    <3> DEFINE new == Put(SourceRemoved(e), e.path, <<>>)
    <3>1. <<>> \in Content
      BY DEF Content
    <3>2. /\ new \in Tree
          /\ \A q \in Paths : new[q] = IF q = e.path THEN <<>>
                                       ELSE IF q \in Ancestors(e.path) THEN Dir
                                       ELSE IF q = e.from THEN Absent
                                       ELSE base[q]
          /\ \A q \in Ancestors(e.path) : q = e.from \/ ~IsFile(base, q)
      BY <2>2, <2>6, <3>1, PutEntry
    <3>3. base' = new
      BY <2>6
    <3> HIDE DEF new
    <3>4. ASSUME NEW p \in Paths, IsFile(base, p), base'[p] # base[p]
          PROVE  p \in Checked(e)
      <4>1. p = e.path \/ p = e.from
        BY <3>2, <3>3, <3>4
      <4>2. p # None
        BY EditsAssumption
      <4> QED
        BY <2>4, <4>1, <4>2
    <3> QED
      BY <2>1, <2>2, <3>2, <3>3, <3>4
  <2> QED
    BY <2>3, <2>5, <2>6
<1> QED
  BY <1>1, <1>2 DEF Broken

-----------------------------------------------------------------------------
(* How far a merge is. *)

\* Where a merge is with a path that nobody else changes, by what the path was
\* and is in the view: the file there is not touched before its entry's turn
\* comes, and is as it should be after.
Merging(view, was, now, d, p) ==
    /\ p \in Todo(d) /\ (IsFile(now, p) \/ IsFile(view.baseline, p)) =>
         now[p] = view.baseline[p]
    /\ view.copy[p] # view.baseline[p] /\ IsFile(view.copy, p) =>
         p \in Todo(d) \/ now[p] = view.copy[p]
    /\ IsFile(view.baseline, p) /\ view.copy[p] = Absent =>
         p \in Todo(d) \/ now[p] = Absent
    /\ IsFile(view.baseline, p) /\ view.copy[p] = Dir =>
         p \in Todo(d) /\ p \in Range(d.made)
    /\ view.baseline[p] = Absent /\ view.copy[p] = Dir =>
         p \in Range(d.made) \/ now[p] = Dir
    /\ view.baseline[p] = Dir /\ view.copy[p] = Absent =>
         p \in Range(d.gone) \/ now[p] = Absent
    /\ view.baseline[p] = Dir /\ IsFile(view.copy, p) => p \in Range(d.gone)
    /\ view.copy[p] = view.baseline[p] =>
         now[p] = was[p] \/ (now[p] = Dir /\ view.copy[p] = Dir)

\* To begin with, when nothing is in conflict.
LEMMA MergingStart ==
    ASSUME NEW view, NEW now, NEW d, NEW p \in Paths,
           Todo(d) = Modified(view) \cup Created(view) \cup Deleted(view),
           Range(d.made) = Directories(view.copy) \ Directories(view.baseline),
           Range(d.gone) = Directories(view.baseline) \ Directories(view.copy),
           p \in Todo(d) => Scanned(now, p) = Scanned(view.baseline, p)
    PROVE  Merging(view, now, now, d, p)
<1> DEFINE b == view.baseline[p]
           c == view.copy[p]
           n == now[p]
<1>1. /\ IsFile(view.baseline, p) <=> b \notin {Absent, Dir}
      /\ IsFile(view.copy, p) <=> c \notin {Absent, Dir}
      /\ IsFile(now, p) <=> n \notin {Absent, Dir}
  BY DEF IsFile
<1>2. p \in Todo(d) <=> \/ IsFile(view.copy, p) /\ ~IsFile(view.baseline, p)
                        \/ IsFile(view.baseline, p) /\ ~IsFile(view.copy, p)
                        \/ IsFile(view.baseline, p) /\ IsFile(view.copy, p) /\ b # c
  BY DEF Modified, Created, Deleted, Files
<1>3. /\ p \in Range(d.made) <=> c = Dir /\ b # Dir
      /\ p \in Range(d.gone) <=> b = Dir /\ c # Dir
  BY DEF Directories
<1>4. p \in Todo(d) /\ (IsFile(now, p) \/ IsFile(view.baseline, p)) => n = b
  BY <1>1 DEF Scanned
<1>5. Absent # Dir
  BY WorkspaceAssumption
<1> QED
  BY <1>1, <1>2, <1>3, <1>4, <1>5 DEF Merging

\* A directory is made, with those above it.
LEMMA MergingMade ==
    ASSUME NEW view, NEW was, NEW now, NEW new, NEW d, NEW c, NEW p \in Paths, NEW dirs,
           NEW x \in dirs, Merging(view, was, now, d, p),
           Todo(c) = Todo(d), c.gone = d.gone,
           \A y : y \in Range(d.made) <=> y = x \/ y \in Range(c.made),
           p \in dirs => view.copy[p] = Dir /\ ~IsFile(now, p),
           new[p] = IF p \in dirs THEN Dir ELSE now[p]
    PROVE  Merging(view, was, new, c, p)
<1>1. Absent # Dir
  BY WorkspaceAssumption
<1>2. CASE p \notin dirs
  <2>1. new[p] = now[p] /\ (p \in Range(d.made) <=> p \in Range(c.made))
    BY <1>2
  <2>2. IsFile(new, p) <=> IsFile(now, p)
    BY <2>1 DEF IsFile
  <2> QED
    BY <2>1, <2>2 DEF Merging
<1>3. CASE p \in dirs
  <2>1. new[p] = Dir /\ view.copy[p] = Dir /\ ~IsFile(now, p) /\ ~IsFile(new, p)
    BY <1>3 DEF IsFile
  <2>2. ~IsFile(view.copy, p)
    BY <2>1 DEF IsFile
  <2>3. ~IsFile(view.baseline, p)
    <3> SUFFICES ASSUME IsFile(view.baseline, p)
                 PROVE  FALSE
      OBVIOUS
    <3>1. p \in Todo(d)
      BY <2>1 DEF Merging
    <3>2. now[p] = view.baseline[p]
      BY <3>1 DEF Merging
    <3> QED
      BY <2>1, <3>2 DEF IsFile
  <2> QED
    BY <1>1, <2>1, <2>2, <2>3 DEF Merging
<1> QED
  BY <1>2, <1>3

\* A file goes.
LEMMA MergingRemoved ==
    ASSUME NEW view, NEW was, NEW now, NEW new, NEW d, NEW c, NEW p \in Paths,
           NEW e \in DiffEntry, EntryOK(view, e), e.kind = "deleted",
           Merging(view, was, now, d, p), Range(d.made) = {},
           Todo(d) = Checked(e) \cup Todo(c), Checked(e) \cap Todo(c) = {},
           c.made = d.made, c.gone = d.gone,
           new[p] = IF p = e.path THEN Absent ELSE now[p]
    PROVE  Merging(view, was, new, c, p)
<1>1. Absent # Dir
  BY WorkspaceAssumption
<1>2. e.path \in Deleted(view) /\ e.from = None
  BY DEF EntryOK
<1>3. /\ e.path \in Checked(e)
      /\ \A q \in Checked(e) : q = e.path
  BY <1>2, CheckedOf
<1>4. CASE p = e.path
  <2>1. new[p] = Absent /\ p \notin Todo(c)
    BY <1>3, <1>4
  <2>2. IsFile(view.baseline, p) /\ ~IsFile(view.copy, p)
    BY <1>2, <1>4 DEF Deleted, Files
  <2>3. view.copy[p] # Dir
    BY <2>2 DEF Merging
  <2> QED
    BY <1>1, <2>1, <2>2, <2>3 DEF Merging, IsFile
<1>5. CASE p # e.path
  <2>1. new[p] = now[p] /\ (p \in Todo(d) <=> p \in Todo(c))
    BY <1>3, <1>5
  <2>2. IsFile(new, p) <=> IsFile(now, p)
    BY <2>1 DEF IsFile
  <2> QED
    BY <2>1, <2>2 DEF Merging
<1> QED
  BY <1>4, <1>5

\* A file comes.
LEMMA MergingPut ==
    ASSUME NEW view, view.copy \in Tree,
           NEW was, NEW now, NEW new, NEW d, NEW c, NEW p \in Paths,
           NEW e \in DiffEntry, EntryOK(view, e), e.kind # "deleted",
           Merging(view, was, now, d, p), Range(d.made) = {},
           Todo(d) = Checked(e) \cup Todo(c), Checked(e) \cap Todo(c) = {},
           c.made = d.made, c.gone = d.gone,
           p \in Ancestors(e.path) => p = e.from \/ ~IsFile(now, p),
           new[p] = IF p = e.path THEN view.copy[e.path]
                    ELSE IF p \in Ancestors(e.path) THEN Dir
                    ELSE IF p = e.from THEN Absent
                    ELSE now[p]
    PROVE  Merging(view, was, new, c, p)
<1>1. Absent # Dir /\ p # None
  BY WorkspaceAssumption, EditsAssumption
<1>2. /\ e.path \in Created(view) \cup Modified(view)
      /\ e.from # None => e.from \in Deleted(view)
  BY DEF EntryOK
<1>3. /\ e.path \in Checked(e) /\ e.path \in Paths
      /\ e.from # None => e.from \in Checked(e)
      /\ \A q \in Checked(e) : q = e.path \/ (q = e.from /\ q # None)
  BY CheckedOf
<1>4. IsFile(view.copy, e.path) /\ view.copy[e.path] # view.baseline[e.path]
  BY <1>2 DEF Created, Modified, Files, IsFile
<1>5. p \in Ancestors(e.path) => view.copy[p] = Dir
  <2>1. view.copy[e.path] # Absent
    BY <1>4 DEF IsFile
  <2> QED
    BY <1>3, <2>1, TreeAbove
<1>6. CASE p = e.path
  <2>1. new[p] = view.copy[p] /\ p \notin Todo(c)
    BY <1>3, <1>6
  <2>2. IsFile(view.copy, p) /\ view.copy[p] # view.baseline[p]
    BY <1>4, <1>6
  <2>3. view.copy[p] # Absent /\ view.copy[p] # Dir
    BY <2>2 DEF IsFile
  <2>4. view.baseline[p] = Dir => p \in Range(c.gone)
    BY <2>2 DEF Merging
  <2> QED
    BY <2>1, <2>2, <2>3, <2>4 DEF Merging
<1>7. CASE p # e.path /\ p = e.from
  <2>1. IsFile(view.baseline, p) /\ ~IsFile(view.copy, p)
    BY <1>1, <1>2, <1>7 DEF Deleted, Files
  <2>2. view.copy[p] # Dir
    BY <2>1 DEF Merging
  <2>3. new[p] = Absent /\ p \notin Todo(c)
    BY <1>1, <1>3, <1>5, <1>7, <2>2
  <2> QED
    BY <1>1, <2>1, <2>2, <2>3 DEF Merging, IsFile
<1>8. CASE p # e.path /\ p # e.from
  <2>1. p \in Todo(d) <=> p \in Todo(c)
    BY <1>3, <1>8
  <2>2. CASE p \notin Ancestors(e.path)
    <3>1. new[p] = now[p]
      BY <1>8, <2>2
    <3>2. IsFile(new, p) <=> IsFile(now, p)
      BY <3>1 DEF IsFile
    <3> QED
      BY <2>1, <3>1, <3>2 DEF Merging
  <2>3. CASE p \in Ancestors(e.path)
    <3>1. new[p] = Dir /\ view.copy[p] = Dir /\ ~IsFile(now, p)
      BY <1>5, <1>8, <2>3
    <3>2. ~IsFile(new, p) /\ ~IsFile(view.copy, p)
      BY <3>1 DEF IsFile
    <3>3. ~IsFile(view.baseline, p)
      BY <3>1 DEF Merging
    <3> QED
      BY <1>1, <3>1, <3>2, <3>3 DEF Merging
  <2> QED
    BY <2>2, <2>3
<1> QED
  BY <1>6, <1>7, <1>8

\* A directory goes.
LEMMA MergingGone ==
    ASSUME NEW view, NEW was, NEW now, NEW new, NEW d, NEW c, NEW p \in Paths, NEW x,
           Merging(view, was, now, d, p), Todo(d) = {}, Todo(c) = {},
           c.made = d.made, view.baseline[x] = Dir, view.copy[x] # Dir, ~IsFile(now, x),
           \A y : y \in Range(d.gone) <=> y = x \/ y \in Range(c.gone),
           new[p] = IF p = x THEN Absent ELSE now[p]
    PROVE  Merging(view, was, new, c, p)
<1>1. Absent # Dir
  BY WorkspaceAssumption
<1>2. CASE p # x
  <2>1. new[p] = now[p] /\ (p \in Range(d.gone) <=> p \in Range(c.gone))
    BY <1>2
  <2>2. IsFile(new, p) <=> IsFile(now, p)
    BY <2>1 DEF IsFile
  <2> QED
    BY <2>1, <2>2 DEF Merging
<1>3. CASE p = x
  <2>1. view.baseline[p] = Dir /\ view.copy[p] # Dir /\ ~IsFile(now, p) /\ new[p] = Absent
    BY <1>3
  <2>2. ~IsFile(view.copy, p)
    <3> SUFFICES ASSUME IsFile(view.copy, p)
                 PROVE  FALSE
      OBVIOUS
    <3>1. now[p] = view.copy[p]
      BY <2>1 DEF Merging
    <3> QED
      BY <2>1, <3>1 DEF IsFile
  <2>3. ~IsFile(view.baseline, p)
    BY <2>1 DEF IsFile
  <2> QED
    BY <1>1, <2>1, <2>2, <2>3 DEF Merging
<1> QED
  BY <1>2, <1>3

\* What is left when nothing is to be done.
LEMMA MergingDone ==
    ASSUME NEW view, view.baseline \in Tree, view.copy \in Tree,
           NEW was, NEW now, NEW d, NEW p \in Paths,
           Merging(view, was, now, d, p), d = NoDiff
    PROVE  IF view.copy[p] # view.baseline[p] THEN now[p] = view.copy[p]
           ELSE now[p] = was[p] \/ (now[p] = Dir /\ view.copy[p] = Dir)
<1>1. d.entries = <<>> /\ d.made = <<>> /\ d.gone = <<>>
  BY DEF NoDiff
<1>2. Todo(d) = {} /\ Range(d.made) = {} /\ Range(d.gone) = {}
  BY <1>1 DEF Todo, Range
<1> QED
  BY <1>2 DEF Merging, IsFile

-----------------------------------------------------------------------------
(* The invariant. *)

\* Views, and Edit calls.
ViewSet == [baseline : Tree \cup {None}, copy : Tree \cup {None},
            alive : BOOLEAN, known : BOOLEAN]
EditSet == [sections : Seq(Section), next : Nat \ {0},
            read : Seq(STRING) \cup {None}, section : Section \cup {None}]

\* The variables have their types.
Typed ==
    /\ base \in Tree
    /\ session \in ViewSet
    /\ pc \in {"Idle", "Scan", "Copy", "Run", "Merge", "Apply", "Edit"}
    /\ diff \in DiffSet
    /\ edit \in EditSet
    /\ before \in Tree \cup {None}
    /\ touched \in SUBSET Paths
    /\ calls \in 0 .. MaxCalls /\ changes \in 0 .. MaxChanges
    /\ faults \in 0 .. MaxFaults

\* There is a view when there is a session, and while it is merged what was
\* checked is remembered.
ViewInv ==
    /\ pc = "Copy" => session.baseline \in Tree
    /\ session.known \/ pc \in {"Run", "Merge", "Apply"} =>
         session.baseline \in Tree /\ session.copy \in Tree
    /\ pc = "Apply" => before \in Tree

\* A file that was read is the one the section names, or others changed it since.
EditInv ==
    pc = "Edit" =>
      /\ edit.next <= Len(edit.sections)
      /\ edit.read # None =>
           /\ edit.section \in Section
           /\ Edited(edit.read, edit.section.ops).effect # "conflict"
           /\ OneRevision(Current.path) => edit.section.tag = Current.tag
           /\ \/ Current.path \in touched
              \/ IsFile(base, Current.path) /\ Tag(base[Current.path]) = Current.tag

\* What is yet to be merged is of the view's difference.
DiffInv == pc = "Apply" => DiffOK(session, diff)

\* Every path that nobody else changes is as far as it should be.
MergeInv ==
    pc = "Apply" =>
      \A p \in Paths \ touched : Merging(session, before, base, diff, p)

\* All of it, and what the steps preserve.
IInv == Typed /\ ViewInv /\ EditInv /\ DiffInv /\ MergeInv

\* Nothing to do is a state of the right type.
LEMMA NothingTyped ==
    /\ NoView \in ViewSet /\ NoDiff \in DiffSet /\ NoEdit \in EditSet
    /\ NoView.known = FALSE
<1>1. NoView \in ViewSet /\ NoView.known = FALSE
  <2>1. None \in Tree \cup {None} /\ FALSE \in BOOLEAN
    OBVIOUS
  <2> QED
    BY <2>1 DEF NoView, ViewSet
<1>2. NoDiff \in DiffSet
  <2>1. <<>> \in Seq(DiffEntry) /\ <<>> \in Seq(Paths)
    OBVIOUS
  <2> QED
    BY <2>1 DEF NoDiff, DiffSet
<1>3. NoEdit \in EditSet
  <2>1. /\ <<>> \in Seq(Section) /\ 1 \in Nat \ {0}
        /\ None \in Seq(STRING) \cup {None} /\ None \in Section \cup {None}
    OBVIOUS
  <2> QED
    BY <2>1 DEF NoEdit, EditSet
<1> QED
  BY <1>1, <1>2, <1>3

\* An idle host has nothing to do.
LEMMA IdleInv ==
    ASSUME Idle
    PROVE  /\ pc' = "Idle" /\ diff' \in DiffSet /\ edit' \in EditSet
           /\ before' \in Tree \cup {None} /\ touched' \in SUBSET Paths
           /\ EditInv' /\ DiffInv' /\ MergeInv'
BY NothingTyped DEF Idle, EditInv, DiffInv, MergeInv

\* Bounded counters.
LEMMA Counted ==
    ASSUME Typed
    PROVE  /\ Called => calls' \in 0 .. MaxCalls
           /\ Fault => faults' \in 0 .. MaxFaults
BY WorkspaceAssumption DEF Typed, Called, Fault

\* Initially.
LEMMA InitInv == Init => IInv
<1> SUFFICES ASSUME Init
             PROVE  IInv
  OBVIOUS
<1>1. base \in Tree
  BY WorkspaceAssumption DEF Init, IsTree, Tree
<1>2. Typed
  BY <1>1, NothingTyped, WorkspaceAssumption DEF Init, Typed
<1>3. ViewInv
  BY NothingTyped DEF Init, ViewInv
<1> QED
  BY <1>2, <1>3 DEF Init, IInv, EditInv, DiffInv, MergeInv

\* Eval, up to its merge.
LEMMA StartEvalInv == ASSUME IInv, StartEval PROVE IInv'
<1>1. calls' \in 0 .. MaxCalls
  BY Counted DEF IInv, StartEval
<1>2. \/ pc' = "Run" /\ session' = session /\ session.known
      \/ pc' = "Scan" /\ session' = NoView
  BY DEF StartEval
<1>3. UNCHANGED <<base, diff, edit, before, touched, changes, faults>>
  BY DEF StartEval
<1>4. session' \in ViewSet
  BY <1>2, NothingTyped DEF IInv, Typed
<1>5. Typed'
  BY <1>1, <1>2, <1>3, <1>4 DEF IInv, Typed
<1>6. ViewInv'
  BY <1>2, NothingTyped DEF IInv, ViewInv
<1>7. EditInv' /\ DiffInv' /\ MergeInv'
  BY <1>2 DEF EditInv, DiffInv, MergeInv
<1> QED
  BY <1>5, <1>6, <1>7 DEF IInv

\* The baseline.
LEMMA ScanInv == ASSUME IInv, Scan PROVE IInv'
<1>1. /\ pc' = "Copy" /\ session' = [session EXCEPT !.baseline = base]
      /\ pc = "Scan"
      /\ UNCHANGED <<base, diff, edit, before, touched, calls, changes, faults>>
  BY DEF Scan
<1>2. base \in Tree /\ session \in ViewSet
  BY DEF IInv, Typed
<1>3. /\ session' \in ViewSet /\ session'.baseline \in Tree
      /\ session'.known = session.known /\ session'.copy = session.copy
  BY <1>1, <1>2 DEF ViewSet
<1>4. Typed'
  BY <1>1, <1>3 DEF IInv, Typed
<1>5. ViewInv'
  BY <1>1, <1>3 DEF IInv, ViewInv
<1>6. EditInv' /\ DiffInv' /\ MergeInv'
  BY <1>1 DEF EditInv, DiffInv, MergeInv
<1> QED
  BY <1>4, <1>5, <1>6 DEF IInv

\* The copy.
LEMMA CopyInv == ASSUME IInv, Copy PROVE IInv'
<1>1. /\ pc' = "Run" /\ pc = "Copy"
      /\ session' = [session EXCEPT !.copy = base, !.alive = TRUE, !.known = TRUE]
      /\ UNCHANGED <<base, diff, edit, before, touched, calls, changes, faults>>
  BY DEF Copy
<1>2. base \in Tree /\ session \in ViewSet /\ TRUE \in BOOLEAN
  BY DEF IInv, Typed
<1>3. /\ session' \in ViewSet /\ session'.copy \in Tree
      /\ session'.baseline = session.baseline
  BY <1>1, <1>2 DEF ViewSet
<1>4. Typed'
  BY <1>1, <1>3 DEF IInv, Typed
<1>5. ViewInv'
  BY <1>1, <1>3 DEF IInv, ViewInv
<1>6. EditInv' /\ DiffInv' /\ MergeInv'
  BY <1>1 DEF EditInv, DiffInv, MergeInv
<1> QED
  BY <1>4, <1>5, <1>6 DEF IInv

\* No session.
LEMMA NoSessionInv == ASSUME IInv, NoSession PROVE IInv'
<1>1. Idle /\ Fault /\ session' = NoView /\ UNCHANGED <<base, calls, changes>>
  BY DEF NoSession
<1>2. faults' \in 0 .. MaxFaults
  BY <1>1, Counted DEF IInv
<1>3. Typed'
  BY <1>1, <1>2, IdleInv, NothingTyped DEF IInv, Typed
<1>4. ViewInv'
  BY <1>1, IdleInv, NothingTyped DEF ViewInv
<1> QED
  BY <1>1, <1>3, <1>4, IdleInv DEF IInv

\* An evaluation.
LEMMA EvaluateInv == ASSUME IInv, Evaluate PROVE IInv'
<1>1. /\ pc' = "Merge" /\ pc = "Run"
      /\ UNCHANGED <<base, diff, edit, before, touched, calls, changes, faults>>
  BY DEF Evaluate
<1>2. PICK copy \in Results(session.copy), alive \in BOOLEAN :
        /\ IsTree(copy)
        /\ session' = [session EXCEPT !.copy = copy, !.alive = alive]
  BY DEF Evaluate
<1>3. copy \in Tree /\ session \in ViewSet
  BY <1>2 DEF IsTree, Tree, IInv, Typed
<1>4. /\ session' \in ViewSet /\ session'.copy \in Tree
      /\ session'.baseline = session.baseline
  BY <1>2, <1>3 DEF ViewSet
<1>5. Typed'
  BY <1>1, <1>4 DEF IInv, Typed
<1>6. ViewInv'
  BY <1>1, <1>4 DEF IInv, ViewInv
<1>7. EditInv' /\ DiffInv' /\ MergeInv'
  BY <1>1 DEF EditInv, DiffInv, MergeInv
<1> QED
  BY <1>5, <1>6, <1>7 DEF IInv

\* None.
LEMMA NotEvaluatedInv == ASSUME IInv, NotEvaluated PROVE IInv'
<1>1. /\ pc' = "Merge" /\ pc = "Run" /\ Fault
      /\ UNCHANGED <<base, session, diff, edit, before, touched, calls, changes>>
  BY DEF NotEvaluated
<1>2. faults' \in 0 .. MaxFaults
  BY <1>1, Counted DEF IInv
<1>3. Typed' /\ ViewInv'
  BY <1>1, <1>2 DEF IInv, Typed, ViewInv
<1>4. EditInv' /\ DiffInv' /\ MergeInv'
  BY <1>1 DEF EditInv, DiffInv, MergeInv
<1> QED
  BY <1>3, <1>4 DEF IInv

-----------------------------------------------------------------------------
(* The merge. *)

\* It is checked.
LEMMA CheckInv == ASSUME IInv, Check PROVE IInv'
<1>1. pc = "Merge" /\ UNCHANGED <<base, session, calls, changes, faults>>
  BY DEF Check
<1>2. PICK pairing \in Pairings(session) :
        \E computed \in {Computed(session, pairing)} :
          \/ Conflicts(computed.entries) /\ Idle
          \/ /\ ~Conflicts(computed.entries)
             /\ pc' = "Apply" /\ diff' = computed /\ UNCHANGED edit
             /\ before' = base /\ touched' = {}
  BY DEF Check
<1>3. session.baseline \in Tree /\ session.copy \in Tree /\ base \in Tree
  BY <1>1 DEF IInv, ViewInv, Typed
<1>4. CASE Idle
  <2>1. Typed'
    BY <1>1, <1>4, IdleInv DEF IInv, Typed
  <2>2. ViewInv'
    BY <1>1, <1>3, <1>4, IdleInv DEF ViewInv
  <2> QED
    BY <1>4, <2>1, <2>2, IdleInv DEF IInv
<1>5. CASE ~Idle
  <2> DEFINE d == Computed(session, pairing)
  <2>1. /\ ~Conflicts(d.entries)
        /\ pc' = "Apply" /\ diff' = d /\ UNCHANGED edit
        /\ before' = base /\ touched' = {}
    BY <1>2, <1>5
  <2>2. d = Computed(session, pairing)
    OBVIOUS
  <2> HIDE DEF d
  <2>3. /\ d \in DiffSet /\ DiffOK(session, d)
        /\ Todo(d) = Modified(session) \cup Created(session) \cup Deleted(session)
        /\ Range(d.made) = Directories(session.copy) \ Directories(session.baseline)
        /\ Range(d.gone) = Directories(session.baseline) \ Directories(session.copy)
    BY <2>2, ComputedOf
  <2>4. Typed'
    BY <1>1, <1>3, <2>1, <2>3 DEF IInv, Typed
  <2>5. ViewInv'
    BY <1>1, <1>3, <2>1 DEF ViewInv
  <2>6. EditInv' /\ DiffInv'
    BY <1>1, <2>1, <2>3 DEF EditInv, DiffInv
  <2>7. ASSUME NEW p \in Paths
        PROVE  Merging(session, base, base, d, p)
    <3>1. p \in Todo(d) => Scanned(base, p) = Scanned(session.baseline, p)
      BY <2>1 DEF Conflicts, Todo
    <3> QED
      BY <2>3, <3>1, MergingStart
  <2>8. MergeInv'
    BY <1>1, <2>1, <2>7 DEF MergeInv
  <2> QED
    BY <2>4, <2>5, <2>6, <2>8 DEF IInv
<1> QED
  BY <1>4, <1>5

\* A step of a merge keeps all files but those of the entries still to be applied.
Kept == \A p \in Paths : IsFile(base, p) /\ base'[p] # base[p] => p \in Todo(diff)

\* What the steps of a merge leave alone.
LEMMA MergeStep ==
    ASSUME IInv, pc = "Apply", pc' = "Apply", Unchanged, base' \in Tree,
           diff' \in DiffSet, DiffOK(session, diff'),
           \A p \in Paths \ touched :
             Merging(session, before, base, diff, p)
               => Merging(session, before, base', diff', p)
    PROVE  IInv'
<1>1. UNCHANGED <<session, edit, before, touched, calls, changes, faults>>
  BY DEF Unchanged
<1>2. Typed'
  BY <1>1 DEF IInv, Typed
<1>3. ViewInv' /\ EditInv' /\ DiffInv'
  BY <1>1 DEF IInv, ViewInv, EditInv, DiffInv
<1>4. MergeInv'
  BY <1>1 DEF IInv, MergeInv
<1> QED
  BY <1>2, <1>3, <1>4 DEF IInv

\* What a merge goes on from.
LEMMA MergeGoesOn ==
    ASSUME IInv, Applying
    PROVE  /\ pc = "Apply" /\ base \in Tree /\ diff \in DiffSet /\ DiffOK(session, diff)
           /\ session.baseline \in Tree /\ session.copy \in Tree
BY DEF IInv, Applying, Typed, ViewInv, DiffInv

\* A directory is made.
LEMMA MakeDirectoryInv == ASSUME IInv, MakeDirectory PROVE IInv' /\ Kept
<1> DEFINE x == Head(diff.made)
           dirs == Ancestors(x) \cup {x}
<1>1. /\ Applying /\ diff.made # <<>> /\ CanMake(base, dirs)
      /\ base' = Make(base, dirs)
      /\ diff' = [diff EXCEPT !.made = Tail(@)] /\ pc' = pc /\ Unchanged
  BY DEF MakeDirectory
<1>2. /\ pc = "Apply" /\ base \in Tree /\ diff \in DiffSet /\ DiffOK(session, diff)
      /\ session.baseline \in Tree /\ session.copy \in Tree
  BY <1>1, MergeGoesOn
<1>3. /\ diff' \in DiffSet /\ DiffOK(session, diff')
      /\ diff'.entries = diff.entries /\ diff'.gone = diff.gone
      /\ Todo(diff') = Todo(diff)
      /\ x \in Paths /\ session.copy[x] = Dir
      /\ \A y : y \in Range(diff.made) <=> y = x \/ y \in Range(diff'.made)
  <2> DEFINE c == diff'
  <2>1. /\ c = [diff EXCEPT !.made = Tail(@)]
        /\ diff.made # <<>> /\ diff \in DiffSet /\ DiffOK(session, diff)
    BY <1>1, <1>2
  <2> HIDE DEF c
  <2>2. /\ c \in DiffSet /\ DiffOK(session, c)
        /\ c.entries = diff.entries /\ c.gone = diff.gone
        /\ Todo(c) = Todo(diff)
        /\ x \in Paths /\ session.copy[x] = Dir
    BY <2>1, LessMade
  <2>3. Range(diff.made) = Range(c.made) \cup {x}
    BY <2>1, LessMade
  <2> QED
    BY <2>2, <2>3 DEF c
<1> HIDE DEF x
<1>4. /\ Ancestors(x) \subseteq Paths
      /\ \A q \in Ancestors(x) : Ancestors(q) \subseteq Ancestors(x)
  BY <1>3, AncestorsOf
<1>5. /\ dirs \in SUBSET Paths /\ x \in dirs
      /\ \A q \in dirs : Ancestors(q) \subseteq dirs
  BY <1>3, <1>4
<1>6. \A q \in dirs : session.copy[q] = Dir /\ ~IsFile(base, q)
  <2>1. Dir # Absent
    BY WorkspaceAssumption
  <2>2. \A q \in Ancestors(x) : session.copy[q] = Dir
    BY <1>2, <1>3, <2>1, TreeAbove
  <2> QED
    BY <1>1, <1>3, <2>2 DEF CanMake
<1> HIDE DEF dirs
<1>7. /\ base' \in Tree
      /\ \A q \in Paths : base'[q] = IF q \in dirs THEN Dir ELSE base[q]
  BY <1>1, <1>2, <1>5, MakeTree
<1>8. ASSUME NEW p \in Paths \ touched, Merging(session, before, base, diff, p)
      PROVE  Merging(session, before, base', diff', p)
  <2> DEFINE new == base'
             c == diff'
  <2>1. /\ Todo(c) = Todo(diff) /\ c.gone = diff.gone
        /\ \A y : y \in Range(diff.made) <=> y = x \/ y \in Range(c.made)
        /\ p \in dirs => session.copy[p] = Dir /\ ~IsFile(base, p)
        /\ new[p] = IF p \in dirs THEN Dir ELSE base[p]
    BY <1>3, <1>6, <1>7
  <2> HIDE DEF new, c
  <2>2. Merging(session, before, new, c, p)
    BY <1>5, <1>8, <2>1, MergingMade
  <2> QED
    BY <2>2 DEF new, c
<1>9. IInv'
  BY <1>1, <1>2, <1>3, <1>7, <1>8, MergeStep
<1>10. Kept
  BY <1>6, <1>7 DEF Kept
<1> QED
  BY <1>9, <1>10

\* An entry is applied.
LEMMA ApplyEntryInv == ASSUME IInv, ApplyEntry PROVE IInv' /\ Kept
<1> DEFINE e == Head(diff.entries)
<1>1. /\ Applying /\ diff.made = <<>> /\ diff.entries # <<>>
      /\ CanApply(e) /\ base' = Applied(e)
      /\ diff' = [diff EXCEPT !.entries = Tail(@)] /\ pc' = pc /\ Unchanged
  BY DEF ApplyEntry
<1>2. /\ pc = "Apply" /\ base \in Tree /\ diff \in DiffSet /\ DiffOK(session, diff)
      /\ session.baseline \in Tree /\ session.copy \in Tree
  BY <1>1, MergeGoesOn
<1>3. /\ diff' \in DiffSet /\ DiffOK(session, diff')
      /\ diff'.made = diff.made /\ diff'.gone = diff.gone
      /\ e \in DiffEntry /\ EntryOK(session, e)
      /\ Todo(diff) = Checked(e) \cup Todo(diff')
      /\ Checked(e) \cap Todo(diff') = {}
  <2> DEFINE c == diff'
  <2>1. /\ c = [diff EXCEPT !.entries = Tail(@)]
        /\ diff.entries # <<>> /\ diff \in DiffSet /\ DiffOK(session, diff)
    BY <1>1, <1>2
  <2> HIDE DEF c
  <2>2. /\ c \in DiffSet /\ DiffOK(session, c)
        /\ c.made = diff.made /\ c.gone = diff.gone
        /\ e \in DiffEntry /\ EntryOK(session, e)
        /\ Todo(diff) = Checked(e) \cup Todo(c)
        /\ Checked(e) \cap Todo(c) = {}
    BY <2>1, LessEntries, SMTT(30)
  <2> QED
    BY <2>2 DEF c
<1> HIDE DEF e
<1>4. Range(diff.made) = {}
  BY <1>1 DEF Range
<1>5. /\ e.path \in Checked(e) /\ e.path \in Paths
      /\ e.from # None => e.from \in Checked(e)
  BY <1>3, CheckedOf
<1>6. CASE e.kind = "deleted"
  <2>1. /\ base' \in Tree
        /\ \A q \in Paths : base'[q] = IF q = e.path THEN Absent ELSE base[q]
    BY <1>1, <1>2, <1>3, <1>6, RemoveEntry
  <2>2. ASSUME NEW p \in Paths \ touched, Merging(session, before, base, diff, p)
        PROVE  Merging(session, before, base', diff', p)
    <3> DEFINE new == base'
               c == diff'
    <3>1. /\ Todo(diff) = Checked(e) \cup Todo(c) /\ Checked(e) \cap Todo(c) = {}
          /\ c.made = diff.made /\ c.gone = diff.gone
          /\ new[p] = IF p = e.path THEN Absent ELSE base[p]
      BY <1>3, <2>1
    <3> HIDE DEF new, c
    <3>2. Merging(session, before, new, c, p)
      BY <1>3, <1>4, <1>6, <2>2, <3>1, MergingRemoved
    <3> QED
      BY <3>2 DEF new, c
  <2>3. IInv'
    BY <1>1, <1>2, <1>3, <2>1, <2>2, MergeStep
  <2>4. Kept
    BY <1>3, <1>5, <2>1 DEF Kept
  <2> QED
    BY <2>3, <2>4
<1>7. CASE e.kind # "deleted"
  <2> DEFINE content == session.copy[e.path]
  <2>1. content \in Content
    BY <1>2, <1>5 DEF Tree
  <2>2. base' = Put(SourceRemoved(e), e.path, content)
    BY <1>1, <1>7 DEF Applied
  <2> HIDE DEF content
  <2>3. /\ base' \in Tree
        /\ \A q \in Paths : base'[q] = IF q = e.path THEN content
                                       ELSE IF q \in Ancestors(e.path) THEN Dir
                                       ELSE IF q = e.from THEN Absent
                                       ELSE base[q]
        /\ \A q \in Ancestors(e.path) : q = e.from \/ ~IsFile(base, q)
    BY <1>1, <1>2, <1>3, <1>7, <2>1, <2>2, PutEntry
  <2>4. ASSUME NEW p \in Paths \ touched, Merging(session, before, base, diff, p)
        PROVE  Merging(session, before, base', diff', p)
    <3> DEFINE new == base'
               c == diff'
    <3>1. /\ Todo(diff) = Checked(e) \cup Todo(c) /\ Checked(e) \cap Todo(c) = {}
          /\ c.made = diff.made /\ c.gone = diff.gone
          /\ p \in Ancestors(e.path) => p = e.from \/ ~IsFile(base, p)
          /\ new[p] = IF p = e.path THEN session.copy[e.path]
                      ELSE IF p \in Ancestors(e.path) THEN Dir
                      ELSE IF p = e.from THEN Absent
                      ELSE base[p]
      BY <1>3, <2>3 DEF content
    <3> HIDE DEF new, c
    <3>2. Merging(session, before, new, c, p)
      BY <1>2, <1>3, <1>4, <1>7, <2>4, <3>1, MergingPut
    <3> QED
      BY <3>2 DEF new, c
  <2>5. IInv'
    BY <1>1, <1>2, <1>3, <2>3, <2>4, MergeStep
  <2>6. ASSUME NEW p \in Paths, IsFile(base, p), base'[p] # base[p]
        PROVE  p \in Todo(diff)
    <3>1. p = e.path \/ p = e.from
      BY <2>3, <2>6
    <3>2. p # None
      BY EditsAssumption
    <3> QED
      BY <1>3, <1>5, <3>1, <3>2
  <2>7. Kept
    BY <2>6 DEF Kept
  <2> QED
    BY <2>5, <2>7
<1> QED
  BY <1>6, <1>7

\* A directory is removed.
LEMMA RemoveDirectoryInv == ASSUME IInv, RemoveDirectory PROVE IInv' /\ Kept
<1> DEFINE x == Head(diff.gone)
<1>1. /\ Applying /\ diff.made = <<>> /\ diff.entries = <<>> /\ diff.gone # <<>>
      /\ CanRemoveDirectory(x) /\ base' = Removed(base, x)
      /\ diff' = [diff EXCEPT !.gone = Tail(@)] /\ pc' = pc /\ Unchanged
  BY DEF RemoveDirectory
<1>2. /\ pc = "Apply" /\ base \in Tree /\ diff \in DiffSet /\ DiffOK(session, diff)
      /\ session.baseline \in Tree /\ session.copy \in Tree
  BY <1>1, MergeGoesOn
<1>3. /\ diff' \in DiffSet /\ DiffOK(session, diff')
      /\ diff'.entries = diff.entries /\ diff'.made = diff.made
      /\ Todo(diff') = Todo(diff)
      /\ x \in Paths /\ session.baseline[x] = Dir /\ session.copy[x] # Dir
      /\ \A y : y \in Range(diff.gone) <=> y = x \/ y \in Range(diff'.gone)
  <2> DEFINE c == diff'
  <2>1. /\ c = [diff EXCEPT !.gone = Tail(@)]
        /\ diff.gone # <<>> /\ diff \in DiffSet /\ DiffOK(session, diff)
    BY <1>1, <1>2
  <2> HIDE DEF c
  <2>2. /\ c \in DiffSet /\ DiffOK(session, c)
        /\ c.entries = diff.entries /\ c.made = diff.made
        /\ Todo(c) = Todo(diff)
        /\ x \in Paths /\ session.baseline[x] = Dir /\ session.copy[x] # Dir
    BY <2>1, LessGone
  <2>3. Range(diff.gone) = Range(c.gone) \cup {x}
    BY <2>1, LessGone
  <2> QED
    BY <2>2, <2>3 DEF c
<1> HIDE DEF x
<1>4. Todo(diff) = {}
  BY <1>1 DEF Todo, Range
<1>5. ~IsFile(base, x) /\ (base[x] # Dir \/ Below(base, x) = {})
  BY <1>1, WorkspaceAssumption DEF CanRemoveDirectory, IsFile
<1>6. /\ base' \in Tree
      /\ \A q \in Paths : base'[q] = IF q = x THEN Absent ELSE base[q]
  BY <1>1, <1>2, <1>3, <1>5, RemovedTree
<1>7. ASSUME NEW p \in Paths \ touched, Merging(session, before, base, diff, p)
      PROVE  Merging(session, before, base', diff', p)
  <2> DEFINE new == base'
             c == diff'
  <2>1. /\ Todo(c) = {} /\ c.made = diff.made
        /\ \A y : y \in Range(diff.gone) <=> y = x \/ y \in Range(c.gone)
        /\ new[p] = IF p = x THEN Absent ELSE base[p]
    BY <1>3, <1>4, <1>6
  <2> HIDE DEF new, c
  <2>2. Merging(session, before, new, c, p)
    BY <1>3, <1>4, <1>5, <1>7, <2>1, MergingGone
  <2> QED
    BY <2>2 DEF new, c
<1>8. IInv'
  BY <1>1, <1>2, <1>3, <1>6, <1>7, MergeStep
<1>9. Kept
  BY <1>5, <1>6 DEF Kept
<1> QED
  BY <1>8, <1>9

\* A merge that fails.
LEMMA MergeFailsInv == ASSUME IInv, MergeFails PROVE IInv' /\ Kept
<1>1. /\ Applying /\ Broken /\ Idle /\ UNCHANGED <<session, calls, changes>>
      /\ faults' = faults \/ Fault
  BY DEF MergeFails
<1>2. /\ pc = "Apply" /\ base \in Tree /\ diff \in DiffSet /\ DiffOK(session, diff)
  BY <1>1, MergeGoesOn
<1>3. base' \in Tree /\ Kept
  BY <1>1, <1>2, BrokenTree DEF Kept
<1>4. faults' \in 0 .. MaxFaults
  BY <1>1, Counted DEF IInv, Typed
<1>5. Typed'
  BY <1>1, <1>3, <1>4, IdleInv DEF IInv, Typed
<1>6. ViewInv'
  BY <1>1, <1>2, IdleInv DEF IInv, ViewInv
<1> QED
  BY <1>1, <1>3, <1>5, <1>6, IdleInv DEF IInv

\* A merge that is done.
LEMMA MergeDoneInv == ASSUME IInv, MergeDone PROVE IInv' /\ Kept
<1>1. /\ pc = "Apply" /\ Idle
      /\ UNCHANGED <<base, session, calls, changes, faults>>
  BY DEF MergeDone, Applying
<1>2. Typed'
  BY <1>1, IdleInv DEF IInv, Typed
<1>3. ViewInv'
  BY <1>1, IdleInv DEF IInv, ViewInv
<1>4. Kept
  BY <1>1 DEF Kept
<1> QED
  BY <1>1, <1>2, <1>3, <1>4, IdleInv DEF IInv

-----------------------------------------------------------------------------
(* Edit and Write. *)

\* The section at hand is one of the patch.
LEMMA CurrentOf ==
    ASSUME IInv, pc = "Edit"
    PROVE  /\ edit \in EditSet /\ edit.sections \in Seq(Section)
           /\ edit.next \in 1 .. Len(edit.sections)
           /\ Current \in Section /\ Current.path \in Paths
<1>1. edit \in EditSet /\ edit.next <= Len(edit.sections)
  BY DEF IInv, Typed, EditInv
<1>2. edit.sections \in Seq(Section) /\ edit.next \in Nat \ {0}
  BY <1>1 DEF EditSet
<1>3. Len(edit.sections) \in Nat
  BY <1>2, LenProperties
<1>4. edit.next \in 1 .. Len(edit.sections)
  BY <1>1, <1>2, <1>3
<1>5. Current \in Section
  BY <1>2, <1>4, ElementOfSeq DEF Current
<1> QED
  BY <1>1, <1>2, <1>4, <1>5 DEF Section

\* On to the next section, or the end of the call.
LEMMA NextSectionInv ==
    ASSUME IInv, pc = "Edit", NextSection
    PROVE  /\ pc' \in {"Idle", "Edit"} /\ diff' \in DiffSet /\ edit' \in EditSet
           /\ before' \in Tree \cup {None} /\ touched' \in SUBSET Paths
           /\ EditInv' /\ DiffInv' /\ MergeInv'
<1>1. CASE Idle
  BY <1>1, IdleInv
<1>2. CASE ~Idle
  <2>1. /\ edit.next < Len(edit.sections)
        /\ edit' = [edit EXCEPT !.next = @ + 1, !.read = None, !.section = None]
        /\ touched' = {} /\ UNCHANGED <<pc, diff, before>>
    BY <1>2 DEF NextSection
  <2>2. /\ edit \in EditSet /\ edit.next \in Nat \ {0} /\ edit.sections \in Seq(Section)
    BY DEF IInv, Typed, EditSet
  <2> DEFINE n == edit.next + 1
  <2>3. n \in Nat \ {0} /\ n <= Len(edit.sections)
    <3>1. Len(edit.sections) \in Nat
      BY <2>2, LenProperties
    <3> QED
      BY <2>1, <2>2, <3>1
  <2>4. edit' = [edit EXCEPT !.next = n, !.read = None, !.section = None]
    BY <2>1
  <2> HIDE DEF n
  <2>5. None \in Seq(STRING) \cup {None} /\ None \in Section \cup {None}
    OBVIOUS
  <2>6. /\ edit' \in EditSet /\ edit'.next = n /\ edit'.read = None
        /\ edit'.sections = edit.sections
    BY <2>2, <2>3, <2>4, <2>5 DEF EditSet
  <2>7. EditInv'
    BY <2>3, <2>6 DEF EditInv
  <2>8. diff' \in DiffSet /\ before' \in Tree \cup {None}
    BY <2>1 DEF IInv, Typed
  <2> QED
    BY <2>1, <2>6, <2>7, <2>8 DEF DiffInv, MergeInv
<1> QED
  BY <1>1, <1>2

\* A patch is parsed.
LEMMA StartEditInv == ASSUME IInv, StartEdit PROVE IInv'
<1>1. /\ pc = "Idle" /\ calls' \in 0 .. MaxCalls
      /\ UNCHANGED <<base, session, diff, before, touched, changes, faults>>
  BY Counted DEF StartEdit, IInv
<1>2. PICK patch \in Patches :
        \E sections \in {Parse(patch)} :
          IF sections = None THEN UNCHANGED <<pc, edit>>
          ELSE /\ pc' = "Edit"
               /\ edit' = [NoEdit EXCEPT !.sections = sections]
  BY DEF StartEdit
<1> DEFINE sections == Parse(patch)
<1>3. sections # None => sections \in Seq(Section) /\ Len(sections) >= 1
  BY ParseTyped, WorkspaceAssumption
<1>4. IF sections = None THEN UNCHANGED <<pc, edit>>
      ELSE /\ pc' = "Edit"
           /\ edit' = [NoEdit EXCEPT !.sections = sections]
  BY <1>2
<1> HIDE DEF sections
<1>5. CASE sections = None
  BY <1>1, <1>4, <1>5 DEF IInv, Typed, ViewInv, EditInv, DiffInv, MergeInv
<1>6. CASE sections # None
  <2>1. /\ edit' \in EditSet /\ edit'.sections = sections
        /\ edit'.next = 1 /\ edit'.read = None
    <3>1. NoEdit \in EditSet /\ NoEdit.next = 1 /\ NoEdit.read = None
      BY NothingTyped DEF NoEdit
    <3> QED
      BY <1>3, <1>4, <1>6, <3>1 DEF EditSet
  <2>2. Typed' /\ ViewInv'
    BY <1>1, <1>4, <1>6, <2>1 DEF IInv, Typed, ViewInv
  <2>3. EditInv'
    BY <1>3, <1>6, <2>1, LenProperties DEF EditInv
  <2>4. DiffInv' /\ MergeInv'
    BY <1>4, <1>6 DEF DiffInv, MergeInv
  <2> QED
    BY <2>2, <2>3, <2>4 DEF IInv
<1> QED
  BY <1>5, <1>6

\* A file is read for a section.
LEMMA EditReadInv == ASSUME IInv, EditRead PROVE IInv'
<1> DEFINE path == Current.path
           section == SectionFor(edit.sections, path)
<1>1. /\ pc = "Edit" /\ edit.read = None
      /\ UNCHANGED <<base, session, calls, changes, faults>>
      /\ IF ~IsFile(base, path) THEN Idle
         ELSE IF ~Fresh(path, Current.tag)
                 \/ Edited(base[path], section.ops).effect = "conflict"
         THEN NextSection
         ELSE /\ edit' = [edit EXCEPT !.read = base[path], !.section = section]
              /\ touched' = {} /\ UNCHANGED <<pc, diff, before>>
  BY DEF EditRead
<1>2. /\ edit \in EditSet /\ edit.sections \in Seq(Section)
      /\ edit.next \in 1 .. Len(edit.sections)
      /\ Current \in Section /\ path \in Paths
  BY <1>1, CurrentOf
<1>3. /\ section \in Section
      /\ section \in Range(edit.sections) /\ Targets(section, path)
  BY <1>2, SectionFound DEF Current
<1> HIDE DEF section
<1>4. CASE Idle \/ NextSection
  <2>1. /\ pc' \in {"Idle", "Edit"} /\ diff' \in DiffSet /\ edit' \in EditSet
        /\ before' \in Tree \cup {None} /\ touched' \in SUBSET Paths
        /\ EditInv' /\ DiffInv' /\ MergeInv'
    BY <1>1, <1>4, IdleInv, NextSectionInv
  <2>2. Typed'
    BY <1>1, <2>1 DEF IInv, Typed
  <2>3. ViewInv'
    BY <1>1, <2>1 DEF IInv, ViewInv
  <2> QED
    BY <2>1, <2>2, <2>3 DEF IInv
<1>5. CASE ~(Idle \/ NextSection)
  <2>1. /\ IsFile(base, path) /\ Fresh(path, Current.tag)
        /\ Edited(base[path], section.ops).effect # "conflict"
        /\ edit' = [edit EXCEPT !.read = base[path], !.section = section]
        /\ touched' = {} /\ UNCHANGED <<pc, diff, before>>
    BY <1>1, <1>5
  <2>2. base[path] \in Seq(STRING)
    BY <1>2, <2>1 DEF IInv, Typed, Tree, Content, IsFile
  <2>3. /\ edit' \in EditSet /\ edit'.read = base[path] /\ edit'.section = section
        /\ edit'.sections = edit.sections /\ edit'.next = edit.next
    BY <1>2, <1>3, <2>1, <2>2 DEF EditSet
  <2>4. Current' = Current
    BY <2>3 DEF Current
  <2>5. Typed' /\ ViewInv' /\ DiffInv' /\ MergeInv'
    BY <1>1, <2>1, <2>3 DEF IInv, Typed, ViewInv, DiffInv, MergeInv
  <2>6. Tag(base[path]) = Current.tag
    BY <2>1 DEF Fresh
  <2>7. edit.next <= Len(edit.sections)
    BY <1>1 DEF IInv, EditInv
  <2>8. OneRevision(path)' => section.tag = Current.tag
    BY <1>3, <2>3, <2>4 DEF OneRevision
  <2>9. EditInv'
    BY <1>1, <1>3, <2>1, <2>3, <2>4, <2>6, <2>7, <2>8 DEF EditInv
  <2> QED
    BY <2>5, <2>9 DEF IInv
<1> QED
  BY <1>4, <1>5

\* What an edit makes of the workspace is a tree.
LEMMA FinishedTree ==
    ASSUME base \in Tree, NEW path \in Paths, NEW result \in Outcome,
           result.effect # "conflict", CanFinish(path, result)
    PROVE  Finished(path, result) \in Tree
<1>1. /\ result.effect \in {"rewrite", "remove", "move"}
      /\ result.lines \in Seq(STRING)
      /\ result.effect = "move" => result.to \in Paths
  BY DEF Outcome
<1>2. base \in [Paths -> Content]
  BY DEF Tree
<1>3. CASE result.effect = "rewrite"
  <2>1. WellFormed([base EXCEPT ![path] = result.lines])
    BY <1>3 DEF CanFinish
  <2>2. [base EXCEPT ![path] = result.lines] \in [Paths -> Content]
    BY <1>1, <1>2 DEF Content
  <2>3. Finished(path, result) = [base EXCEPT ![path] = result.lines]
    BY <1>3 DEF Finished
  <2> QED
    BY <2>1, <2>2, <2>3 DEF Tree
<1>4. CASE result.effect = "remove"
  <2>1. IsFile(base, path)
    BY <1>4 DEF CanFinish
  <2>2. Removed(base, path) \in Tree
    BY <2>1, RemovedTree DEF IsFile
  <2> QED
    BY <1>4, <2>2 DEF Finished
<1>5. CASE result.effect = "move"
  <2> DEFINE gone == Removed(base, path)
             content == base[path]
             to == result.to
  <2>1. IsFile(base, path) /\ CanPut(base, to) /\ to \in Paths
    BY <1>1, <1>5 DEF CanFinish
  <2>2. /\ gone \in Tree
        /\ \A q \in Paths : gone[q] = IF q = path THEN Absent ELSE base[q]
    BY <2>1, RemovedTree DEF IsFile
  <2>3. content \in Content
    BY <1>2
  <2>4. Finished(path, result) = Put(gone, to, content)
    BY <1>5 DEF Finished
  <2> HIDE DEF gone, content, to
  <2>5. CanPut(gone, to)
    <3>1. \A q \in Ancestors(to) : q \in Paths
      BY <2>1, AncestorsOf
    <3>2. Absent # Dir
      BY WorkspaceAssumption
    <3> QED
      BY <2>1, <2>2, <3>1, <3>2 DEF CanPut, CanMake, IsFile
  <2>6. Put(gone, to, content) \in Tree
    BY <2>1, <2>2, <2>3, <2>5, PutTree
  <2> QED
    BY <2>4, <2>6
<1> QED
  BY <1>1, <1>3, <1>4, <1>5

\* So is what one makes that fails.
LEMMA UnfinishedTree ==
    ASSUME base \in Tree, NEW result \in Outcome
    PROVE  Unfinished(result) \in Tree
<1>1. result.effect = "move" => result.to \in Paths
  BY DEF Outcome
<1>2. CASE result.effect = "move"
  <2> DEFINE to == result.to
             dirs == Ancestors(to)
  <2>1. to \in Paths
    BY <1>1, <1>2
  <2> HIDE DEF to
  <2>2. dirs \in SUBSET Paths /\ \A q \in dirs : Ancestors(q) \subseteq dirs
    BY <2>1, AncestorsOf
  <2> HIDE DEF dirs
  <2>3. Make(base, dirs) \in Tree
    BY <2>2, MakeTree
  <2> QED
    BY <2>3 DEF Unfinished, dirs, to
<1>3. CASE result.effect # "move"
  BY <1>3 DEF Unfinished
<1> QED
  BY <1>2, <1>3

\* A file is edited.
LEMMA EditWriteInv == ASSUME IInv, EditWrite PROVE IInv'
<1> DEFINE path == Current.path
           result == Edited(edit.read, edit.section.ops)
<1>1. /\ pc = "Edit" /\ edit.read # None
      /\ UNCHANGED <<session, calls, changes>>
      /\ \/ /\ CanFinish(path, result) /\ base' = Finished(path, result)
            /\ \/ NextSection /\ UNCHANGED faults
               \/ result.effect = "rewrite" /\ Idle /\ Fault
         \/ /\ CanFinish(path, result) => Fault
            /\ ~CanFinish(path, result) => UNCHANGED faults
            /\ base' = Unfinished(result) /\ Idle
  BY DEF EditWrite
<1>2. edit \in EditSet /\ path \in Paths /\ base \in Tree
  BY <1>1, CurrentOf DEF IInv, Typed
<1>3. edit.section \in Section /\ result.effect # "conflict"
  BY <1>1 DEF IInv, EditInv
<1>4. result \in Outcome
  <2>1. edit.read \in Seq(STRING) /\ edit.section.ops \in Seq(Op)
    BY <1>1, <1>2, <1>3 DEF EditSet, Section
  <2> QED
    BY <2>1, EditedTyped
<1> HIDE DEF result, path
<1>5. base' \in Tree
  <2>1. CanFinish(path, result) => Finished(path, result) \in Tree
    BY <1>2, <1>3, <1>4, FinishedTree
  <2>2. Unfinished(result) \in Tree
    BY <1>2, <1>4, UnfinishedTree
  <2> QED
    BY <1>1, <2>1, <2>2
<1>6. faults' \in 0 .. MaxFaults
  <2>1. Typed
    BY DEF IInv
  <2>2. faults' = faults \/ Fault
    BY <1>1
  <2> QED
    BY <2>1, <2>2, Counted DEF Typed
<1>7. Idle \/ NextSection
  BY <1>1
<1>8. /\ pc' \in {"Idle", "Edit"} /\ diff' \in DiffSet /\ edit' \in EditSet
      /\ before' \in Tree \cup {None} /\ touched' \in SUBSET Paths
      /\ EditInv' /\ DiffInv' /\ MergeInv'
  BY <1>1, <1>7, IdleInv, NextSectionInv
<1>9. Typed'
  BY <1>1, <1>5, <1>6, <1>8 DEF IInv, Typed
<1>10. ViewInv'
  BY <1>1, <1>8 DEF IInv, ViewInv
<1> QED
  BY <1>8, <1>9, <1>10 DEF IInv

\* A file is written.
LEMMA WriteInv == ASSUME IInv, Write PROVE IInv'
<1>1. /\ pc = "Idle" /\ calls' \in 0 .. MaxCalls
      /\ UNCHANGED <<session, pc, diff, edit, before, touched, changes, faults>>
  BY Counted DEF Write, IInv
<1>2. PICK write \in Writes :
        IF CanPut(base, write.path)
        THEN base' = Put(base, write.path, write.content)
        ELSE UNCHANGED base
  BY DEF Write
<1>3. base \in Tree /\ write.path \in Paths /\ write.content \in Content
  BY WorkspaceAssumption DEF IInv, Typed, Content
<1>4. base' \in Tree
  <2>1. CASE CanPut(base, write.path)
    BY <1>2, <1>3, <2>1, PutTree
  <2>2. CASE ~CanPut(base, write.path)
    BY <1>2, <1>3, <2>2
  <2> QED
    BY <2>1, <2>2
<1> QED
  BY <1>1, <1>4 DEF IInv, Typed, ViewInv, EditInv, DiffInv, MergeInv

-----------------------------------------------------------------------------
(* What goes on around. *)

\* What a path has become is all that matters of a changed workspace.
LEMMA MergingSame ==
    ASSUME NEW view, NEW was, NEW now, NEW new, NEW d, NEW p,
           Merging(view, was, now, d, p), new[p] = now[p]
    PROVE  Merging(view, was, new, d, p)
<1>1. IsFile(new, p) <=> IsFile(now, p)
  BY DEF IsFile
<1> QED
  BY <1>1 DEF Merging

\* Others change a path.
LEMMA ChangeInv == ASSUME IInv, Change PROVE IInv'
<1>1. /\ changes < MaxChanges /\ changes' = changes + 1
      /\ UNCHANGED <<session, pc, diff, edit, before, calls, faults>>
  BY DEF Change
<1>2. PICK p \in Paths, what \in Changes :
        /\ base' = [base EXCEPT ![p] = what]
        /\ WellFormed(base')
        /\ touched' = IF pc \in {"Apply", "Edit"} THEN touched \cup {p} ELSE touched
  BY DEF Change
<1>3. base \in Tree /\ what \in Content /\ touched \in SUBSET Paths
  BY WorkspaceAssumption DEF IInv, Typed
<1>4. /\ base' \in Tree
      /\ \A q \in Paths : q # p => base'[q] = base[q]
  BY <1>2, <1>3 DEF Tree
<1>5. touched' \in SUBSET Paths
  BY <1>2, <1>3
<1>6. changes' \in 0 .. MaxChanges
  BY <1>1, WorkspaceAssumption DEF IInv, Typed
<1>7. Typed'
  BY <1>1, <1>4, <1>5, <1>6 DEF IInv, Typed
<1>8. ViewInv' /\ DiffInv'
  BY <1>1 DEF IInv, ViewInv, DiffInv
<1>9. EditInv'
  <2> SUFFICES ASSUME pc = "Edit"
               PROVE  EditInv'
    BY <1>1 DEF EditInv
  <2> DEFINE q == Current.path
  <2>1. q \in Paths
    BY CurrentOf
  <2>2. Current' = Current
    BY <1>1 DEF Current
  <2>3. touched' = touched \cup {p}
    BY <1>2
  <2>4. edit.read # None =>
          q \in touched \/ (IsFile(base, q) /\ Tag(base[q]) = Current.tag)
    BY DEF IInv, EditInv
  <2>5. q \in touched \/ (IsFile(base, q) /\ Tag(base[q]) = Current.tag) =>
          q \in touched' \/ (IsFile(base', q) /\ Tag(base'[q]) = Current.tag)
    <3>1. CASE q = p
      BY <2>3, <3>1
    <3>2. CASE q # p
      <4>1. base'[q] = base[q]
        BY <1>4, <2>1, <3>2
      <4>2. IsFile(base', q) <=> IsFile(base, q)
        BY <4>1 DEF IsFile
      <4> QED
        BY <2>3, <4>1, <4>2
    <3> QED
      BY <3>1, <3>2
  <2> HIDE DEF q
  <2>6. edit.read # None =>
          q \in touched' \/ (IsFile(base', q) /\ Tag(base'[q]) = Current.tag)
    BY <2>4, <2>5
  <2>7. edit.read # None =>
          Current'.path \in touched' \/ (IsFile(base', Current'.path)
                                           /\ Tag(base'[Current'.path]) = Current'.tag)
    BY <2>2, <2>6 DEF q
  <2>8. /\ edit.next <= Len(edit.sections)
        /\ edit.read # None =>
             /\ edit.section \in Section
             /\ Edited(edit.read, edit.section.ops).effect # "conflict"
             /\ OneRevision(Current.path) => edit.section.tag = Current.tag
    BY DEF IInv, EditInv
  <2>9. OneRevision(Current.path)' = OneRevision(Current.path) /\ Current' = Current
    BY <1>1, <2>2 DEF OneRevision
  <2> QED
    BY <1>1, <2>7, <2>8, <2>9 DEF EditInv
<1>10. MergeInv'
  <2> SUFFICES ASSUME pc = "Apply", NEW q \in Paths \ touched'
               PROVE  Merging(session, before, base', diff, q)
    BY <1>1 DEF MergeInv
  <2>1. q \notin touched /\ q # p
    BY <1>2
  <2>2. Merging(session, before, base, diff, q)
    BY <2>1 DEF IInv, MergeInv
  <2>3. base'[q] = base[q]
    BY <1>4, <2>1
  <2> DEFINE new == base'
  <2>4. new[q] = base[q]
    BY <2>3
  <2> HIDE DEF new
  <2>5. Merging(session, before, new, diff, q)
    BY <2>2, <2>4, MergingSame
  <2> QED
    BY <2>5 DEF new
<1> QED
  BY <1>7, <1>8, <1>9, <1>10 DEF IInv

\* A fork.
LEMMA ForkInv == ASSUME IInv, Fork PROVE IInv'
<1>1. /\ pc = "Idle" /\ session' = NoView /\ Fault
      /\ UNCHANGED <<base, pc, diff, edit, before, touched, calls, changes>>
  BY DEF Fork
<1>2. faults' \in 0 .. MaxFaults
  BY <1>1, Counted DEF IInv
<1>3. Typed' /\ ViewInv'
  BY <1>1, <1>2, NothingTyped DEF IInv, Typed, ViewInv
<1>4. EditInv' /\ DiffInv' /\ MergeInv'
  BY <1>1 DEF EditInv, DiffInv, MergeInv
<1> QED
  BY <1>3, <1>4 DEF IInv

\* The host dies.
LEMMA CrashInv == ASSUME IInv, Crash PROVE IInv' /\ (pc = "Apply" => Kept)
<1>1. /\ Fault /\ Broken /\ Idle /\ session' = NoView
      /\ UNCHANGED <<calls, changes>>
  BY DEF Crash
<1>2. faults' \in 0 .. MaxFaults
  BY <1>1, Counted DEF IInv
<1>3. /\ base \in Tree /\ diff \in DiffSet
      /\ pc = "Apply" => DiffOK(session, diff)
  BY DEF IInv, Typed, DiffInv
<1>4. base' \in Tree /\ Kept
  BY <1>1, <1>3, BrokenTree DEF Kept
<1>5. Typed'
  BY <1>1, <1>2, <1>4, IdleInv, NothingTyped DEF IInv, Typed
<1>6. ViewInv'
  BY <1>1, IdleInv, NothingTyped DEF ViewInv
<1> QED
  BY <1>1, <1>4, <1>5, <1>6, IdleInv DEF IInv

\* Nothing happens.
LEMMA SameInv == ASSUME IInv, UNCHANGED vars PROVE IInv'
<1>1. UNCHANGED <<base, session, pc, diff, edit, before, touched, calls, changes, faults>>
  BY DEF vars
<1>2. Current' = Current
  BY <1>1 DEF Current
<1>3. OneRevision(Current.path)' = OneRevision(Current.path)
  BY <1>1, <1>2 DEF OneRevision
<1>4. EditInv'
  BY <1>1, <1>2, <1>3 DEF IInv, EditInv
<1> QED
  BY <1>1, <1>4 DEF IInv, Typed, ViewInv, DiffInv, MergeInv

\* Every step preserves the invariant.
LEMMA NextInv == ASSUME IInv, [Next]_vars PROVE IInv'
<1>1. CASE UNCHANGED vars
  BY <1>1, SameInv
<1>2. CASE StartEval \/ Scan \/ Copy \/ NoSession \/ Evaluate \/ NotEvaluated
  BY <1>2, StartEvalInv, ScanInv, CopyInv, NoSessionInv, EvaluateInv, NotEvaluatedInv
<1>3. CASE Check \/ MakeDirectory \/ ApplyEntry \/ RemoveDirectory \/ MergeFails \/ MergeDone
  BY <1>3, CheckInv, MakeDirectoryInv, ApplyEntryInv, RemoveDirectoryInv,
     MergeFailsInv, MergeDoneInv
<1>4. CASE StartEdit \/ EditRead \/ EditWrite \/ Write
  BY <1>4, StartEditInv, EditReadInv, EditWriteInv, WriteInv
<1>5. CASE Change \/ Fork \/ Crash
  BY <1>5, ChangeInv, ForkInv, CrashInv
<1>6. CASE Done
  BY <1>6, SameInv DEF Done
<1> QED
  BY <1>1, <1>2, <1>3, <1>4, <1>5, <1>6 DEF Next

-----------------------------------------------------------------------------
(* The theorems. *)

\* Where an entry is to be applied, the copy is not as the scan found the path.
LEMMA TodoDiffers ==
    ASSUME NEW view, NEW d, DiffOK(view, d), NEW p \in Todo(d)
    PROVE  view.copy[p] # view.baseline[p]
<1>1. PICK e \in Range(d.entries) : p \in Checked(e)
  BY DEF Todo
<1>2. EntryOK(view, e)
  BY DEF DiffOK
<1>3. p \in Created(view) \cup Modified(view) \cup Deleted(view)
  BY <1>1, <1>2 DEF EntryOK, Checked
<1> QED
  BY <1>3 DEF Created, Modified, Deleted, Files, IsFile

\* While a merge goes on, only its own steps, a change by others or the host's
\* end change anything.
LEMMA MergeKept ==
    ASSUME IInv, [Next]_vars, pc = "Apply", changes' = changes
    PROVE  \A p \in Paths : IsFile(base, p) /\ base'[p] # base[p] =>
             \/ p \in touched
             \/ base[p] = session.baseline[p] /\ session.copy[p] # session.baseline[p]
<1>1. Kept
  <2>1. CASE UNCHANGED vars
    BY <2>1 DEF Kept, vars
  <2>2. CASE MakeDirectory \/ ApplyEntry \/ RemoveDirectory \/ MergeFails \/ MergeDone
    BY <2>2, MakeDirectoryInv, ApplyEntryInv, RemoveDirectoryInv, MergeFailsInv,
       MergeDoneInv
  <2>3. CASE Crash
    BY <2>3, CrashInv
  <2>4. ~(StartEval \/ Scan \/ Copy \/ NoSession \/ Evaluate \/ NotEvaluated \/ Check)
    BY DEF StartEval, Scan, Copy, NoSession, Evaluate, NotEvaluated, Check
  <2>5. ~(StartEdit \/ EditRead \/ EditWrite \/ Write \/ Fork \/ Done)
    BY DEF StartEdit, EditRead, EditWrite, Write, Fork, Done
  <2>6. ~Change
    <3>1. changes \in Nat
      BY WorkspaceAssumption DEF IInv, Typed
    <3> QED
      BY <3>1 DEF Change
  <2> QED
    BY <2>1, <2>2, <2>3, <2>4, <2>5, <2>6 DEF Next
<1>2. ASSUME NEW p \in Paths, IsFile(base, p), base'[p] # base[p], p \notin touched
      PROVE  base[p] = session.baseline[p] /\ session.copy[p] # session.baseline[p]
  <2>1. p \in Todo(diff)
    BY <1>1, <1>2 DEF Kept
  <2>2. Merging(session, before, base, diff, p)
    BY <1>2 DEF IInv, MergeInv
  <2>3. session.copy[p] # session.baseline[p]
    BY <2>1, TodoDiffers DEF IInv, DiffInv
  <2> QED
    BY <1>2, <2>1, <2>2, <2>3 DEF Merging
<1> QED
  BY <1>2

\* A merge overwrites or removes a file only where the copy differs from what the
\* scan of the allocation found, and only while the file holds what the scan
\* found, unless others changed it after the check (WorkspaceView::apply_to_base),
\* whatever the evaluation did, whichever renames compute_diff found, and wherever
\* the merge breaks off.
THEOREM OthersKept == Spec => MergeKeepsOthers
<1>1. Init => IInv
  BY InitInv
<1>2. IInv /\ [Next]_vars => IInv'
  BY NextInv
<1>3. IInv /\ [Next]_vars =>
        [pc = "Apply" /\ changes' = changes =>
           \A p \in Paths : IsFile(base, p) /\ base'[p] # base[p] =>
             \/ p \in touched
             \/ base[p] = session.baseline[p] /\ session.copy[p] # session.baseline[p]]_vars
  BY MergeKept
<1> QED
  BY <1>1, <1>2, <1>3, PTL DEF Spec, MergeKeepsOthers

\* What an edit changes.
LEMMA EditKept ==
    ASSUME IInv, [Next]_vars, pc = "Edit", changes' = changes, base' # base
    PROVE  \/ Current.path \in touched
           \/ /\ IsFile(base, Current.path)
              /\ Tag(base[Current.path]) = Current.tag
              /\ OneRevision(Current.path) => edit.section.tag = Current.tag
<1>1. ~UNCHANGED vars
  BY DEF vars
<1>2. ~(StartEval \/ Scan \/ Copy \/ NoSession \/ Evaluate \/ NotEvaluated \/ Check)
  BY DEF StartEval, Scan, Copy, NoSession, Evaluate, NotEvaluated, Check
<1>3. ~(MakeDirectory \/ ApplyEntry \/ RemoveDirectory \/ MergeFails \/ MergeDone)
  BY DEF MakeDirectory, ApplyEntry, RemoveDirectory, MergeFails, MergeDone, Applying
<1>4. ~(StartEdit \/ EditRead \/ Write \/ Fork \/ Done)
  BY DEF StartEdit, EditRead, Write, Fork, Done
<1>5. ~Change
  <2>1. changes \in Nat
    BY WorkspaceAssumption DEF IInv, Typed
  <2> QED
    BY <2>1 DEF Change
<1>6. ~Crash
  BY DEF Crash, Broken, Applying
<1>7. EditWrite
  BY <1>1, <1>2, <1>3, <1>4, <1>5, <1>6 DEF Next
<1>8. edit.read # None
  BY <1>7 DEF EditWrite
<1> QED
  BY <1>8 DEF IInv, EditInv

\* What an edit replaces, removes or moves away has the tag of the section the
\* request was made for, and so does the section its operations come from unless
\* the patch names two revisions of the path (ToolHost::handle_edit); but for what
\* others changed after it was read.
THEOREM RevisionNamed == Spec => EditsNamedRevision
<1>1. Init => IInv
  BY InitInv
<1>2. IInv /\ [Next]_vars => IInv'
  BY NextInv
<1>3. IInv /\ [Next]_vars =>
        [pc = "Edit" /\ changes' = changes /\ base' # base =>
           \/ Current.path \in touched
           \/ /\ IsFile(base, Current.path)
              /\ Tag(base[Current.path]) = Current.tag
              /\ OneRevision(Current.path) => edit.section.tag = Current.tag]_vars
  BY EditKept
<1> QED
  BY <1>1, <1>2, <1>3, PTL DEF Spec, EditsNamedRevision

\* A merge that is done has brought over exactly what the copy differs in from the
\* scan of the allocation, and the workspace is a tree at every moment
\* (WorkspaceView::apply_to_base).
THEOREM Exactly == Spec => []MergedExactly
<1>1. Init => IInv
  BY InitInv
<1>2. IInv /\ [Next]_vars => IInv'
  BY NextInv
<1>3. IInv => MergedExactly
  <2> SUFFICES ASSUME IInv
               PROVE  MergedExactly
    OBVIOUS
  <2>1. TypeOK
    <3>1. \A tree \in Tree : IsTree(tree)
      BY DEF Tree, IsTree
    <3>2. IsTree(base)
      BY <3>1 DEF IInv, Typed
    <3>3. /\ session.alive \in BOOLEAN /\ session.known \in BOOLEAN
          /\ session.baseline \in Tree \cup {None} /\ session.copy \in Tree \cup {None}
          /\ before \in Tree \cup {None}
      BY DEF IInv, Typed, ViewSet
    <3>4. edit.sections \in Seq(Section)
      BY DEF IInv, Typed, EditSet
    <3>5. \A tree \in {session.baseline, session.copy, before} \ {None} : IsTree(tree)
      BY <3>1, <3>3
    <3> QED
      BY <3>2, <3>3, <3>4, <3>5 DEF TypeOK, IInv, Typed
  <2>2. ASSUME pc = "Apply", diff = NoDiff, NEW p \in Paths \ touched
        PROVE  IF session.copy[p] # session.baseline[p]
               THEN base[p] = session.copy[p]
               ELSE base[p] = before[p] \/ (base[p] = Dir /\ session.copy[p] = Dir)
    <3>1. Merging(session, before, base, diff, p)
      BY <2>2 DEF IInv, MergeInv
    <3>2. session.baseline \in Tree /\ session.copy \in Tree
      BY <2>2 DEF IInv, ViewInv
    <3> QED
      BY <2>2, <3>1, <3>2, MergingDone
  <2> QED
    BY <2>1, <2>2 DEF MergedExactly
<1> QED
  BY <1>1, <1>2, <1>3, PTL DEF Spec

=============================================================================
