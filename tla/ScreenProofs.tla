---------------------------- MODULE ScreenProofs ----------------------------
(***************************************************************************)
(* Proofs about what is on the screen.  Of Transcript: the ledger only     *)
(* grows, the scrollback is its end, and a frame says what it leaves out.  *)
(* Of Tui: what is drawn is what a key will act on, the interface's        *)
(* snapshot comes to the worker's journal, and one line at a time is       *)
(* answered.  They hold for any blocks, lines, heights and sizes of the    *)
(* ring, and for any texts, catalogs, sessions and channels.               *)
(***************************************************************************)
EXTENDS Transcript, Tui, PickingProofs, FiniteSetTheorems

-----------------------------------------------------------------------------
(* Sequences of sequences in a row. *)

\* g puts the sequences of s in a row one by one.
Joins(S, s, g) ==
    /\ g[0] = <<>>
    /\ \A k \in 1 .. Len(s) : g[k] = g[k - 1] \o s[k]
    /\ \A k \in 0 .. Len(s) : g[k] \in Seq(S)
    /\ FlattenSeq(s) = g[Len(s)]

\* What the recursion of FlattenSeq defines.
Flattening(s, n, f) ==
    f = [i \in 1 .. n |-> IF i = 1 THEN s[i] ELSE f[i - 1] \o s[i]]

\* Its steps.
LEMMA FlatteningStep ==
    ASSUME NEW s, NEW n \in Nat, NEW f, Flattening(s, n, f)
    PROVE  \A k \in 1 .. n : f[k] = IF k = 1 THEN s[k] ELSE f[k - 1] \o s[k]
BY Zenon DEF Flattening

\* The recursion has a solution, and FlattenSeq is where it ends.
LEMMA FlattenSteps ==
    ASSUME NEW S, NEW s \in Seq(Seq(S))
    PROVE  \E g : Joins(S, s, g)
<1> DEFINE n == Len(s)
           A == Seq(S)
           G == [x \in A \X (1 .. n) |-> x[1] \o s[x[2]]]
<1>1. n \in Nat /\ \A k \in 1 .. n : s[k] \in A
  BY LenProperties
<1>2. Round(A, n, G)
  <2>1. \A x \in A, k \in 1 .. n : x \o s[k] \in A
    <3> SUFFICES ASSUME NEW x \in A, NEW k \in 1 .. n
                 PROVE  x \o s[k] \in A
      OBVIOUS
    <3> DEFINE y == s[k]
    <3>1. y \in Seq(S)
      BY <1>1
    <3> HIDE DEF y
    <3> QED
      BY <3>1
  <2>2. \A x \in A \X (1 .. n) : x[1] \in A /\ x[2] \in 1 .. n
    OBVIOUS
  <2> HIDE DEF A, n
  <2> QED
    BY <2>1, <2>2 DEF Round
<1>3. <<>> \in A
  OBVIOUS
<1>4. PICK g : Rounds(A, <<>>, n, G, g)
  <2> HIDE DEF A, n, G
  <2> QED
    BY <1>1, <1>2, <1>3, RoundsExist
<1>5. /\ g[0] = <<>>
      /\ \A k \in 0 .. n : g[k] \in A
      /\ \A k \in 1 .. n : g[k] = g[k - 1] \o s[k]
  <2>1. g[0] = <<>> /\ g \in [0 .. n -> A] /\ \A k \in 1 .. n : g[k] = G[<<g[k - 1], k>>]
    BY <1>4 DEF Rounds
  <2> HIDE DEF A, n
  <2>2. \A k \in 1 .. n : k - 1 \in 0 .. n
    BY <1>1
  <2>3. \A k \in 1 .. n : <<g[k - 1], k>> \in A \X (1 .. n)
    BY <2>1, <2>2
  <2> QED
    BY <2>1, <2>3
<1> HIDE DEF n, G
<1>6. FlattenSeq(s) = g[n]
  <2>1. CASE n = 0
    <3>1. s = <<>>
      BY <2>1 DEF n
    <3>2. FlattenSeq(s) = s
      BY <2>1 DEF FlattenSeq, n
    <3> QED
      BY <1>5, <2>1, <3>1, <3>2
  <2>2. CASE n # 0
    <3> DEFINE h == [i \in 1 .. n |-> g[i]]
               f == CHOOSE f : Flattening(s, n, f)
    <3>1. Flattening(s, n, h)
      <4>1. \A i \in 1 .. n : g[i] = IF i = 1 THEN s[i] ELSE h[i - 1] \o s[i]
        <5> SUFFICES ASSUME NEW i \in 1 .. n
                     PROVE  g[i] = IF i = 1 THEN s[i] ELSE h[i - 1] \o s[i]
          OBVIOUS
        <5>1. CASE i = 1
          <6> DEFINE y == s[1]
          <6>1. y \in Seq(S)
            BY <1>1, <5>1
          <6>2. g[1] = <<>> \o y
            <7>1. 1 \in 1 .. n /\ 1 - 1 = 0
              BY <5>1
            <7>2. g[1] = g[1 - 1] \o s[1]
              BY <1>5, <7>1, Zenon
            <7> QED
              BY <1>5, <7>1, <7>2, Zenon
          <6> HIDE DEF y
          <6>3. g[1] = y
            BY <6>1, <6>2
          <6> QED
            BY <5>1, <6>3 DEF y
        <5>2. CASE i # 1
          <6>1. i - 1 \in 1 .. n
            BY <1>1, <5>2
          <6>2. h[i - 1] = g[i - 1]
            BY <6>1
          <6> HIDE DEF h
          <6> QED
            BY <1>5, <5>2, <6>2, Zenon
        <5> QED
          BY <5>1, <5>2
      <4> QED
        BY <4>1, Zenon DEF Flattening
    <3>2. Flattening(s, n, f)
      <4> HIDE DEF h
      <4> QED
        BY <3>1, Zenon
    <3>3. FlattenSeq(s) = f[n]
      BY <2>2, Zenon DEF FlattenSeq, Flattening, n
    <3> HIDE DEF f, h
    <3>4. \A k \in 1 .. n : f[k] = IF k = 1 THEN s[k] ELSE f[k - 1] \o s[k]
      BY <1>1, <3>2, FlatteningStep
    <3>5. \A k \in 1 .. n : h[k] = IF k = 1 THEN s[k] ELSE h[k - 1] \o s[k]
      BY <1>1, <3>1, FlatteningStep
    <3> DEFINE T == {k \in Nat : 1 <= k /\ k <= n => f[k] = h[k]}
    <3>6. T = Nat
      <4>1. 0 \in T
        OBVIOUS
      <4>2. ASSUME NEW i \in T
            PROVE  i + 1 \in T
        <5> SUFFICES ASSUME i + 1 <= n
                     PROVE  f[i + 1] = h[i + 1]
          OBVIOUS
        <5>1. i + 1 \in 1 .. n /\ (i + 1) - 1 = i
          BY <1>1
        <5>2. i + 1 # 1 => f[i] = h[i]
          BY <1>1
        <5>3. f[i + 1] = IF i + 1 = 1 THEN s[i + 1] ELSE f[(i + 1) - 1] \o s[i + 1]
          BY <3>4, <5>1, Zenon
        <5>4. h[i + 1] = IF i + 1 = 1 THEN s[i + 1] ELSE h[(i + 1) - 1] \o s[i + 1]
          BY <3>5, <5>1, Zenon
        <5>5. f[(i + 1) - 1] = f[i] /\ h[(i + 1) - 1] = h[i]
          BY <5>1, Zenon
        <5> QED
          BY <5>2, <5>3, <5>4, <5>5, Zenon
      <4>3. T \in SUBSET Nat
        OBVIOUS
      <4> HIDE DEF T
      <4> QED
        BY <4>1, <4>2, <4>3, NatInduct
    <3>7. f[n] = h[n]
      BY <1>1, <2>2, <3>6
    <3>8. h[n] = g[n]
      BY <1>1, <2>2 DEF h
    <3> QED
      BY <3>3, <3>7, <3>8
  <2> QED
    BY <2>1, <2>2
<1> QED
  BY <1>5, <1>6 DEF Joins, n

-----------------------------------------------------------------------------
(* Sequences in a row. *)

\* It does not matter which two are put together first.
Associative(S) ==
    \A s, t, u \in Seq(S) : (s \o t) \o u = s \o (t \o u)

\* That is so for every set.
LEMMA Associates ==
    ASSUME NEW S
    PROVE  Associative(S)
<1> SUFFICES ASSUME NEW s \in Seq(S), NEW t \in Seq(S), NEW u \in Seq(S)
             PROVE  (s \o t) \o u = s \o (t \o u)
  BY DEF Associative
<1> QED
  OBVIOUS

\* Two sequences in a row are a sequence of both's elements.
LEMMA RowType ==
    ASSUME NEW S, NEW s \in Seq(S), NEW t \in Seq(S)
    PROVE  s \o t \in Seq(S)
OBVIOUS

\* First those of the one, then those of the other.
LEMMA RowParts ==
    ASSUME NEW S, NEW s \in Seq(S), NEW t \in Seq(S)
    PROVE  /\ Len(s \o t) = Len(s) + Len(t)
           /\ \A k \in 1 .. Len(s) : (s \o t)[k] = s[k]
           /\ \A k \in 1 .. Len(t) : (s \o t)[Len(s) + k] = t[k]
OBVIOUS

\* What has the elements of one and then of the other is the two in a row.
LEMMA RowEqual ==
    ASSUME NEW S, NEW s \in Seq(S), NEW t \in Seq(S), NEW u \in Seq(S),
           Len(u) = Len(s) + Len(t),
           \A k \in 1 .. Len(s) : u[k] = s[k],
           \A k \in 1 .. Len(t) : u[Len(s) + k] = t[k]
    PROVE  u = s \o t
<1> DEFINE m == Len(s)
           n == Len(t)
           v == s \o t
<1>1. /\ m \in Nat /\ n \in Nat /\ v \in Seq(S) /\ Len(v) = m + n
      /\ \A k \in 1 .. m : v[k] = s[k]
      /\ \A k \in 1 .. n : v[m + k] = t[k]
  BY LenProperties
<1>2. /\ Len(u) = m + n
      /\ \A k \in 1 .. m : u[k] = s[k]
      /\ \A k \in 1 .. n : u[m + k] = t[k]
  OBVIOUS
<1> HIDE DEF m, n, v
<1>3. ASSUME NEW k \in 1 .. m + n
      PROVE  u[k] = v[k]
  <2>1. CASE k <= m
    <3>1. k \in 1 .. m
      BY <1>1, <2>1
    <3> QED
      BY <1>1, <1>2, <3>1
  <2>2. CASE ~(k <= m)
    <3>1. k - m \in 1 .. n /\ m + (k - m) = k
      BY <1>1, <2>2
    <3>2. u[m + (k - m)] = t[k - m] /\ v[m + (k - m)] = t[k - m]
      BY <1>1, <1>2, <3>1
    <3> QED
      BY <3>1, <3>2, Zenon
  <2> QED
    BY <2>1, <2>2, Zenon
<1>4. u = v
  BY <1>1, <1>2, <1>3, SeqEqual
<1> QED
  BY <1>4 DEF v

\* A sequence of elements with some property is one of elements.
LEMMA Narrow ==
    ASSUME NEW S, NEW T \in SUBSET S, NEW s \in Seq(T)
    PROVE  s \in Seq(S)
OBVIOUS

\* s is the end of t.
Ends(S, s, t) == \E p \in Seq(S) : t = p \o s

\* A sequence is its own end,
LEMMA EndsItself ==
    ASSUME NEW S, NEW s \in Seq(S)
    PROVE  Ends(S, s, s)
<1>1. <<>> \in Seq(S) /\ s = <<>> \o s
  OBVIOUS
<1> QED
  BY <1>1, Zenon DEF Ends

\* the end of an end is one,
LEMMA EndsEnd ==
    ASSUME NEW S, NEW s \in Seq(S), NEW t \in Seq(S), NEW u,
           Ends(S, s, t), Ends(S, t, u)
    PROVE  Ends(S, s, u)
<1>1. PICK p \in Seq(S) : t = p \o s
  BY DEF Ends
<1>2. PICK q \in Seq(S) : u = q \o t
  BY DEF Ends
<1>3. Associative(S)
  BY Associates
<1>4. u = (q \o p) \o s
  BY <1>1, <1>2, <1>3, Zenon DEF Associative
<1>5. q \o p \in Seq(S)
  BY RowType
<1> QED
  BY <1>4, <1>5, Zenon DEF Ends

\* and it stays one when both grow by the same.
LEMMA EndsGrow ==
    ASSUME NEW S, NEW s \in Seq(S), NEW t \in Seq(S), NEW u \in Seq(S),
           Ends(S, s, t)
    PROVE  Ends(S, s \o u, t \o u)
<1>1. PICK p \in Seq(S) : t = p \o s
  BY DEF Ends
<1>2. Associative(S)
  BY Associates
<1>3. t \o u = p \o (s \o u)
  BY <1>1, <1>2, Zenon DEF Associative
<1> QED
  BY <1>3, Zenon DEF Ends

\* It is what SequencesExt calls a suffix;
LEMMA EndsSuffix ==
    ASSUME NEW S, NEW s \in Seq(S), NEW t \in Seq(S), Ends(S, s, t)
    PROVE  IsSuffix(s, t)
<1>1. PICK p \in Seq(S) : t = p \o s
  BY DEF Ends
<1> DEFINE m == Len(p)
           n == Len(s)
           r == Reverse(s)
           q == Reverse(t)
<1>2. m \in Nat /\ n \in Nat /\ Len(t) = m + n
  BY <1>1, LenProperties
<1>3. \A i \in 1 .. n : t[m + i] = s[i]
  BY <1>1, <1>2
<1>4. /\ Len(r) = n /\ Len(q) = m + n
      /\ \A i \in 1 .. n : r[i] = s[(n - i) + 1]
      /\ \A i \in 1 .. (m + n) : q[i] = t[((m + n) - i) + 1]
  BY <1>2 DEF Reverse
<1>5. r \in Seq(S) /\ q \in Seq(S)
  <2>1. \A i \in 1 .. n : s[(n - i) + 1] \in S
    BY <1>2
  <2>2. \A i \in 1 .. (m + n) : t[((m + n) - i) + 1] \in S
    BY <1>2
  <2> QED
    BY <1>2, <2>1, <2>2 DEF Reverse
<1>6. \A i \in 1 .. n : r[i] = q[i]
  <2> SUFFICES ASSUME NEW i \in 1 .. n
               PROVE  r[i] = q[i]
    OBVIOUS
  <2>1. (n - i) + 1 \in 1 .. n /\ m + ((n - i) + 1) = ((m + n) - i) + 1
        /\ i \in 1 .. (m + n)
    BY <1>2
  <2> HIDE DEF m, n, r, q
  <2> QED
    BY ZenonT(30), <1>3, <1>4, <2>1
<1> HIDE DEF m, n, r, q
<1>7. SubSeq(r, 1, n) = SubSeq(q, 1, n)
  BY <1>2, <1>4, <1>5, <1>6
<1> QED
  BY <1>2, <1>4, <1>7 DEF IsSuffix, IsPrefix, r, q

\* and what grows has been a prefix.
LEMMA GrowsPrefix ==
    ASSUME NEW S, NEW s \in Seq(S), NEW t \in Seq(S)
    PROVE  IsPrefix(s, s \o t)
<1>1. Len(s) \in Nat /\ Len(t) \in Nat /\ Len(s \o t) = Len(s) + Len(t)
      /\ s \o t \in Seq(S)
  BY LenProperties
<1>2. \A i \in 1 .. Len(s) : (s \o t)[i] = s[i]
  OBVIOUS
<1> QED
  BY <1>1, <1>2 DEF IsPrefix

-----------------------------------------------------------------------------
(* Rows, and what they tell. *)

\* What a row tells.
Said == [block : Ids \cup {NoBlock}, at : Nat,
         text : Lines \cup {Blank, Hidden, Marker}]

\* How a row was written.
Sources == {"Append", "Retire", "Replay", "Resize", "FailedWrite"}

\* The rows of an epoch; one of no block shows no line of any.
RowOf(ep) ==
    {row \in Row : row.epoch = ep /\ (row.block = NoBlock => row.at = 0)}

\* What the rows between two positions of a block tell.
Told(b, from, to) ==
    [k \in 1 .. Monus(to + 1, from) |->
        [block |-> b.id, at |-> from + k - 1, text |-> b.snapshot[from + k - 1]]]

\* The text of rows: those that belong to a block.
TextOf(rows) ==
    Picked([k \in DOMAIN rows |-> Shown(rows[k])],
           {k \in DOMAIN rows : rows[k].block # NoBlock})

\* How much more one number is than another.
LEMMA MonusType ==
    ASSUME NEW a \in Nat, NEW b \in Int
    PROVE  /\ Monus(a, b) \in Nat
           /\ b <= a => Monus(a, b) = a - b
           /\ a <= b => Monus(a, b) = 0
           /\ 0 <= b => Monus(a, b) <= a
BY DEF Monus, Most

\* Positions of a block, all with lines.
Spans(b, from, to) ==
    /\ b \in Block
    /\ from \in Nat \ {0} /\ to \in Nat /\ to <= Len(b.snapshot)

\* There are as many.
LEMMA SpanType ==
    ASSUME NEW b, NEW from, NEW to, Spans(b, from, to)
    PROVE  Monus(to + 1, from) \in Nat
<1>1. to + 1 \in Nat /\ from \in Int
  BY DEF Spans
<1> DEFINE a == to + 1
<1>2. a \in Nat
  BY <1>1
<1> HIDE DEF a
<1>3. Monus(a, from) \in Nat
  BY <1>1, <1>2, MonusType
<1> QED
  BY <1>3 DEF a

\* The line at one of them.
LEMMA LineOf ==
    ASSUME NEW b, NEW from, NEW to, Spans(b, from, to)
    PROVE  /\ b.id \in Ids /\ b.id # NoBlock
           /\ \A k \in 1 .. Monus(to + 1, from) :
                from + k - 1 \in Nat /\ b.snapshot[from + k - 1] \in Lines
<1>1. b.id \in Ids /\ b.snapshot \in Seq(Lines) /\ Len(b.snapshot) \in Nat
  BY DEF Spans, Block
<1>2. ASSUME NEW k \in 1 .. Monus(to + 1, from)
      PROVE  from + k - 1 \in 1 .. Len(b.snapshot)
  <2>1. /\ from \in Nat /\ to \in Nat /\ from >= 1 /\ to <= Len(b.snapshot)
        /\ to + 1 \in Nat
    BY DEF Spans
  <2>2. CASE from <= to + 1
    <3>1. k \in Nat /\ 1 <= k /\ k <= (to + 1) - from
      BY <2>1, <2>2, MonusType
    <3> QED
      BY <1>1, <2>1, <3>1
  <2>3. CASE to + 1 <= from
    BY <2>1, <2>3, MonusType
  <2> QED
    BY <2>1, <2>2, <2>3
<1>3. \A k \in 1 .. Monus(to + 1, from) : from + k - 1 \in Nat
  BY <1>1, <1>2
<1> QED
  BY <1>1, <1>2, <1>3, TranscriptAssumption

\* What they tell.
LEMMA ToldType ==
    ASSUME NEW b, NEW from, NEW to, Spans(b, from, to)
    PROVE  Told(b, from, to) \in Seq(Said)
<1> DEFINE n == Monus(to + 1, from)
<1>1. n \in Nat
  BY SpanType
<1>2. \A k \in 1 .. n :
        [block |-> b.id, at |-> from + k - 1, text |-> b.snapshot[from + k - 1]]
          \in Said
  BY LineOf DEF Said
<1> HIDE DEF n
<1>3. [k \in 1 .. n |-> [block |-> b.id, at |-> from + k - 1,
                         text |-> b.snapshot[from + k - 1]]] \in Seq(Said)
  BY <1>1, <1>2
<1> QED
  BY <1>3 DEF Told, n

\* The rows between them are rows of the epoch that tell that.
LEMMA RowsTell ==
    ASSUME NEW b, NEW from, NEW to, Spans(b, from, to),
           NEW source \in Sources, NEW ep \in Nat
    PROVE  /\ Rows(b, from, to, source, ep) \in Seq(RowOf(ep))
           /\ TextOf(Rows(b, from, to, source, ep)) = Told(b, from, to)
<1> DEFINE n == Monus(to + 1, from)
           r == Rows(b, from, to, source, ep)
           told == Told(b, from, to)
<1>1. n \in Nat
  BY SpanType
<1>2. b.id # NoBlock /\ \A k \in 1 .. n :
        [block |-> b.id, at |-> from + k - 1, text |-> b.snapshot[from + k - 1],
         source |-> source, epoch |-> ep] \in RowOf(ep)
  BY LineOf DEF RowOf, Row, Sources
<1>3. DOMAIN r = 1 .. n /\ r \in Seq(RowOf(ep))
      /\ \A k \in 1 .. n :
           r[k] = [block |-> b.id, at |-> from + k - 1,
                   text |-> b.snapshot[from + k - 1], source |-> source, epoch |-> ep]
  <2> HIDE DEF n
  <2>1. r = [k \in 1 .. n |->
               [block |-> b.id, at |-> from + k - 1,
                text |-> b.snapshot[from + k - 1], source |-> source, epoch |-> ep]]
    BY DEF Rows, n
  <2> HIDE DEF r
  <2> QED
    BY <1>1, <1>2, <2>1
<1>4. told \in Seq(Said) /\ DOMAIN told = 1 .. n
  BY ToldType DEF Told
<1>5. [k \in DOMAIN r |-> Shown(r[k])] = told
  <2>1. \A k \in 1 .. n :
          Shown(r[k]) = [block |-> b.id, at |-> from + k - 1,
                         text |-> b.snapshot[from + k - 1]]
    BY <1>3 DEF Shown
  <2> HIDE DEF n, r
  <2> QED
    BY <1>3, <2>1 DEF Told, n
<1>6. {k \in DOMAIN r : r[k].block # NoBlock} = DOMAIN told
  BY <1>2, <1>3, <1>4
<1> HIDE DEF n, r, told
<1>7. TextOf(r) = told
  BY <1>4, <1>5, <1>6, PickedAll DEF TextOf
<1> QED
  BY <1>3, <1>7 DEF r, told

\* What is told up to a position, and from it on.
LEMMA ToldJoin ==
    ASSUME NEW b, NEW to, NEW e \in 0 .. to, Spans(b, 1, to)
    PROVE  /\ Told(b, 1, 0) = <<>>
           /\ Told(b, 1, e) \o Told(b, e + 1, to) = Told(b, 1, to)
<1>1. to \in Nat /\ e \in Nat /\ e <= to
  BY DEF Spans
<1>2. Spans(b, 1, e) /\ Spans(b, e + 1, to)
  BY <1>1 DEF Spans
<1>3. Monus(0 + 1, 1) = 0 /\ Monus(e + 1, 1) = e /\ Monus(to + 1, 1) = to
      /\ Monus(to + 1, e + 1) = to - e
  BY <1>1 DEF Monus, Most
<1> DEFINE s == Told(b, 1, e)
           t == Told(b, e + 1, to)
           u == Told(b, 1, to)
           line(k) == [block |-> b.id, at |-> k, text |-> b.snapshot[k]]
<1>4. s \in Seq(Said) /\ t \in Seq(Said) /\ u \in Seq(Said)
  <2>1. Spans(b, 1, to)
    OBVIOUS
  <2> QED
    BY <1>2, <2>1, ToldType
<1>5. /\ Len(s) = e /\ Len(t) = to - e /\ Len(u) = to
      /\ \A k \in 1 .. e : s[k] = line(k)
      /\ \A k \in 1 .. to - e : t[k] = line(e + k)
      /\ \A k \in 1 .. to : u[k] = line(k)
  <2>1. s = [k \in 1 .. e |-> line(k)] /\ u = [k \in 1 .. to |-> line(k)]
    <3>1. \A k \in Nat : 1 + k - 1 = k
      OBVIOUS
    <3> QED
      BY <1>1, <1>3, <3>1 DEF Told
  <2>2. t = [k \in 1 .. to - e |-> line(e + k)]
    <3>1. \A k \in Nat : (e + 1) + k - 1 = e + k
      BY <1>1
    <3> QED
      BY <1>1, <1>3, <3>1 DEF Told
  <2> HIDE DEF s, t, u, line
  <2> QED
    BY <1>1, <2>1, <2>2
<1>6. Told(b, 1, 0) = <<>>
  BY <1>3 DEF Told
<1>7. u = s \o t
  <2> HIDE DEF s, t, u, line
  <2>1. /\ Len(u) = Len(s) + Len(t)
        /\ \A k \in 1 .. Len(s) : u[k] = s[k]
        /\ \A k \in 1 .. Len(t) : u[Len(s) + k] = t[k]
    BY <1>1, <1>5
  <2> QED
    BY <1>4, <2>1, RowEqual
<1> QED
  BY <1>6, <1>7

\* What rows tell, one by one.
Telling(rows) == [k \in DOMAIN rows |-> Shown(rows[k])]

\* It is a sequence of the same length.
LEMMA TellingType ==
    ASSUME NEW rows \in Seq(Row)
    PROVE  /\ Telling(rows) \in Seq(Said) /\ Len(Telling(rows)) = Len(rows)
           /\ \A k \in 1 .. Len(rows) : Telling(rows)[k] = Shown(rows[k])
<1> DEFINE n == Len(rows)
<1>1. n \in Nat /\ DOMAIN rows = 1 .. n /\ \A k \in 1 .. n : rows[k] \in Row
  BY LenProperties
<1>2. \A row \in Row : Shown(row) \in Said
  BY DEF Row, Said, Shown
<1> HIDE DEF n
<1>3. [k \in 1 .. n |-> Shown(rows[k])] \in Seq(Said)
  BY <1>1, <1>2
<1> QED
  BY <1>1, <1>3 DEF Telling, n

\* Their text is what some of them tell,
LEMMA TextType ==
    ASSUME NEW rows \in Seq(Row)
    PROVE  TextOf(rows) \in Seq(Said)
<1> DEFINE kept == {k \in DOMAIN rows : rows[k].block # NoBlock}
<1>1. Telling(rows) \in Seq(Said) /\ kept \in SUBSET DOMAIN Telling(rows)
  BY TellingType DEF Telling
<1>2. TextOf(rows) = Picked(Telling(rows), kept)
  BY DEF TextOf, Telling
<1> HIDE DEF kept
<1> QED
  BY <1>1, <1>2, PickedInOrder

\* nothing when they belong to no block,
LEMMA TextNone ==
    ASSUME NEW rows \in Seq(Row), \A k \in DOMAIN rows : rows[k].block = NoBlock
    PROVE  TextOf(rows) = <<>>
<1>1. {k \in DOMAIN rows : rows[k].block # NoBlock} = {}
  OBVIOUS
<1>2. TextOf(rows) = Picked(Telling(rows), {})
  BY <1>1, Zenon DEF TextOf, Telling
<1>3. Telling(rows) \in Seq(Said)
  BY TellingType
<1> QED
  BY <1>2, <1>3, PickedNone

\* and the text of rows in a row is their texts in a row.
LEMMA TextJoin ==
    ASSUME NEW a \in Seq(Row), NEW b \in Seq(Row)
    PROVE  TextOf(a \o b) = TextOf(a) \o TextOf(b)
<1> DEFINE m == Len(a)
           n == Len(b)
           c == a \o b
           here == {k \in DOMAIN a : a[k].block # NoBlock}
           there == {k \in DOMAIN b : b[k].block # NoBlock}
           kept == {k \in DOMAIN c : c[k].block # NoBlock}
           s == Telling(a)
           t == Telling(b)
           u == Telling(c)
<1>1. /\ m \in Nat /\ n \in Nat /\ c \in Seq(Row) /\ Len(c) = m + n
      /\ DOMAIN a = 1 .. m /\ DOMAIN b = 1 .. n /\ DOMAIN c = 1 .. (m + n)
      /\ \A k \in 1 .. m : c[k] = a[k]
      /\ \A k \in 1 .. n : c[m + k] = b[k]
  BY LenProperties
<1>2. /\ s \in Seq(Said) /\ t \in Seq(Said) /\ u \in Seq(Said)
      /\ Len(s) = m /\ Len(t) = n /\ Len(u) = m + n
      /\ \A k \in 1 .. m : s[k] = Shown(a[k])
      /\ \A k \in 1 .. n : t[k] = Shown(b[k])
      /\ \A k \in 1 .. (m + n) : u[k] = Shown(c[k])
  <2> HIDE DEF c, s, t, u
  <2>1. s \in Seq(Said) /\ Len(s) = m /\ \A k \in 1 .. m : s[k] = Shown(a[k])
    BY TellingType DEF s
  <2>2. t \in Seq(Said) /\ Len(t) = n /\ \A k \in 1 .. n : t[k] = Shown(b[k])
    BY TellingType DEF t
  <2>3. u \in Seq(Said) /\ Len(u) = m + n
        /\ \A k \in 1 .. (m + n) : u[k] = Shown(c[k])
    BY <1>1, TellingType DEF u
  <2> QED
    BY <2>1, <2>2, <2>3
<1>3. TextOf(a) = Picked(s, here) /\ TextOf(b) = Picked(t, there) /\ TextOf(c) = Picked(u, kept)
  BY DEF TextOf, Telling
<1>4. here = kept \cap (1 .. m) /\ there = {k \in 1 .. n : m + k \in kept}
  <2> HIDE DEF m, n, c
  <2>1. \A k \in 1 .. n : m + k \in 1 .. (m + n)
    BY <1>1
  <2>2. \A k \in 1 .. m : k \in 1 .. (m + n)
    BY <1>1
  <2>3. here = kept \cap (1 .. m)
    BY <1>1, <2>2
  <2>4. there = {k \in 1 .. n : m + k \in kept}
    BY <1>1, <2>1
  <2> QED
    BY <2>3, <2>4
<1> HIDE DEF m, n, c, here, there, kept, s, t, u
<1>5. u = s \o t
  <2>1. /\ Len(u) = Len(s) + Len(t)
        /\ \A k \in 1 .. Len(s) : u[k] = s[k]
        /\ \A k \in 1 .. Len(t) : u[Len(s) + k] = t[k]
    BY <1>1, <1>2
  <2> QED
    BY <1>2, <2>1, RowEqual
<1>6. Parted(s, t, kept, here, there)
  BY <1>2, <1>4 DEF Parted
<1>7. Picked(s \o t, kept) = Picked(s, here) \o Picked(t, there)
  BY <1>2, <1>6, PickedBoth
<1> QED
  BY <1>3, <1>5, <1>7 DEF c

-----------------------------------------------------------------------------
(* The ring. *)

\* It keeps the end of the rows, and all of them while there is room.
LEMMA RingKeeps ==
    ASSUME NEW S, NEW rows \in Seq(S)
    PROVE  /\ Ring(rows) \in Seq(S) /\ Len(Ring(rows)) <= MaxRows
           /\ Len(Ring(rows)) < MaxRows => Ring(rows) = rows
           /\ Ends(S, Ring(rows), rows)
<1> DEFINE n == Len(rows)
           d == Monus(n, MaxRows)
           p == SubSeq(rows, 1, d)
           r == SubSeq(rows, d + 1, n)
<1>1. n \in Nat /\ MaxRows \in Nat /\ d \in Nat /\ d <= n
      /\ (MaxRows <= n => d = n - MaxRows) /\ (n <= MaxRows => d = 0)
  <2>1. n \in Nat /\ MaxRows \in Nat
    BY LenProperties, TranscriptAssumption
  <2>2. MaxRows \in Int
    BY <2>1
  <2> HIDE DEF n
  <2>3. /\ Monus(n, MaxRows) \in Nat
        /\ MaxRows <= n => Monus(n, MaxRows) = n - MaxRows
        /\ n <= MaxRows => Monus(n, MaxRows) = 0
        /\ 0 <= MaxRows => Monus(n, MaxRows) <= n
    BY <2>1, <2>2, MonusType
  <2> QED
    BY <2>1, <2>3
<1>2. \A k \in 1 .. n : rows[k] \in S
  BY LenProperties
<1>3. /\ p \in Seq(S) /\ Len(p) = d /\ \A k \in 1 .. d : p[k] = rows[k]
  <2> HIDE DEF n, d
  <2> QED
    BY <1>1, <1>2, SubSeqProperties DEF n
<1>4. r \in Seq(S) /\ Len(r) = n - d /\ \A k \in 1 .. n - d : r[k] = rows[d + k]
  <2> HIDE DEF n, d
  <2>1. Len(r) = n - d /\ \A k \in 1 .. n - d : r[k] = rows[d + k] /\ d + k \in 1 .. n
    BY <1>1
  <2>2. r \in Seq(S)
    BY <1>1, <1>2
  <2> QED
    BY <2>1, <2>2
<1>5. Len(r) <= MaxRows /\ (Len(r) < MaxRows => d = 0)
  <2> HIDE DEF n, d, r
  <2> QED
    BY <1>1, <1>4
<1>6. rows = p \o r
  <2> HIDE DEF p, r, d
  <2>1. /\ Len(rows) = Len(p) + Len(r)
        /\ \A k \in 1 .. Len(p) : rows[k] = p[k]
        /\ \A k \in 1 .. Len(r) : rows[Len(p) + k] = r[k]
    BY <1>1, <1>3, <1>4
  <2> QED
    BY <1>3, <1>4, <2>1, RowEqual
<1>7. d = 0 => r = rows
  <2> SUFFICES ASSUME d = 0
               PROVE  r = rows
    OBVIOUS
  <2> HIDE DEF p, r, d
  <2>1. p = <<>>
    BY <1>3
  <2> QED
    BY <1>4, <1>6, <2>1
<1>8. Ends(S, r, rows)
  <2> HIDE DEF p, r, d, n
  <2> QED
    BY <1>3, <1>6, Zenon DEF Ends
<1>9. Ring(rows) = r
  BY DEF Ring
<1> HIDE DEF r
<1> QED
  BY <1>1, <1>4, <1>5, <1>7, <1>8, <1>9

\* What a scrollback is to the ledger: its end, all of it while there is room.
History(sb, ledger) ==
    /\ Ends(Said, TextOf(sb), ledger)
    /\ Len(sb) < MaxRows => TextOf(sb) = ledger
    /\ Len(sb) <= MaxRows

\* It stays that when rows are pushed whose text the ledger grows by.
LEMMA Pushed ==
    ASSUME NEW sb \in Seq(Row), NEW more \in Seq(Row), NEW ledger \in Seq(Said),
           History(sb, ledger)
    PROVE  History(Ring(sb \o more), ledger \o TextOf(more))
<1> DEFINE rows == sb \o more
           ring == Ring(rows)
           s == TextOf(sb)
           t == TextOf(more)
           u == TextOf(ring)
<1>1. /\ rows \in Seq(Row) /\ Len(rows) = Len(sb) + Len(more)
      /\ Len(sb) \in Nat /\ Len(more) \in Nat
  BY LenProperties
<1> HIDE DEF rows
<1>2. /\ ring \in Seq(Row) /\ Len(ring) <= MaxRows
      /\ Len(ring) < MaxRows => ring = rows
      /\ Ends(Row, ring, rows)
  BY <1>1, RingKeeps
<1> HIDE DEF ring
<1>3. s \in Seq(Said) /\ t \in Seq(Said) /\ u \in Seq(Said)
  BY <1>2, TextType
<1>4. TextOf(rows) = s \o t
  BY TextJoin DEF rows
<1>5. Ends(Said, u, s \o t)
  <2>1. PICK p \in Seq(Row) : rows = p \o ring
    BY <1>2 DEF Ends
  <2>2. TextOf(p \o ring) = TextOf(p) \o TextOf(ring)
    BY <1>2, TextJoin
  <2>3. TextOf(p) \in Seq(Said)
    BY TextType
  <2>4. s \o t = TextOf(p) \o u
    BY <1>4, <2>1, <2>2
  <2> QED
    BY <2>3, <2>4, Zenon DEF Ends
<1> HIDE DEF s, t, u
<1>6. Ends(Said, s \o t, ledger \o t)
  <2>1. Ends(Said, s, ledger)
    BY DEF History, s
  <2> QED
    BY <1>3, <2>1, EndsGrow
<1>7. s \o t \in Seq(Said)
  BY <1>3, RowType
<1>8. Ends(Said, u, ledger \o t)
  BY <1>3, <1>5, <1>6, <1>7, EndsEnd
<1>9. Len(ring) < MaxRows => u = ledger \o t
  <2> SUFFICES ASSUME Len(ring) < MaxRows
               PROVE  u = ledger \o t
    OBVIOUS
  <2>1. ring = rows
    BY <1>2
  <2>2. Len(sb) < MaxRows
    BY <1>1, <2>1, TranscriptAssumption
  <2>3. s = ledger
    BY <2>2 DEF History, s
  <2>4. u = s \o t
    BY <1>4, <2>1 DEF u
  <2> QED
    BY <2>3, <2>4
<1> QED
  BY <1>2, <1>8, <1>9 DEF History, u, t, ring, rows

\* An empty one has the history of an empty ledger.
LEMMA EmptyHistory ==
    History(<<>>, <<>>)
<1>1. <<>> \in Seq(Row) /\ <<>> \in Seq(Said) /\ Len(<<>>) = 0
  OBVIOUS
<1>2. \A k \in DOMAIN <<>> : <<>>[k].block = NoBlock
  OBVIOUS
<1>3. TextOf(<<>>) = <<>>
  BY <1>1, <1>2, TextNone
<1>4. Ends(Said, <<>>, <<>>)
  BY <1>1, EndsItself
<1> QED
  BY <1>1, <1>3, <1>4, TranscriptAssumption DEF History

-----------------------------------------------------------------------------
(* FlattenSeq. *)

\* It makes a sequence,
LEMMA FlattenType ==
    ASSUME NEW S, NEW s \in Seq(Seq(S))
    PROVE  FlattenSeq(s) \in Seq(S)
<1>1. PICK g : Joins(S, s, g)
  BY FlattenSteps
<1>2. Len(s) \in 0 .. Len(s)
  BY LenProperties
<1> QED
  BY <1>1, <1>2 DEF Joins

\* nothing of nothing,
LEMMA FlattenEmpty ==
    ASSUME NEW S, NEW s \in Seq(Seq(S)), \A k \in 1 .. Len(s) : s[k] = <<>>
    PROVE  FlattenSeq(s) = <<>>
<1> DEFINE n == Len(s)
<1>1. PICK g : Joins(S, s, g)
  BY FlattenSteps
<1>2. n \in Nat
  BY LenProperties
<1>3. g[0] \in {<<>>}
  BY <1>1 DEF Joins
<1>4. ASSUME NEW k \in 1 .. n, g[k - 1] \in {<<>>}
      PROVE  g[k] \in {<<>>}
  <2>1. g[k] = g[k - 1] \o s[k]
    BY <1>1 DEF Joins
  <2>2. g[k] = <<>> \o <<>>
    BY <1>4, <2>1
  <2> QED
    BY <2>2
<1>5. \A k \in 0 .. n : g[k] \in {<<>>}
  <2> HIDE DEF n
  <2> QED
    BY <1>2, <1>3, <1>4, RoundsKeep
<1> QED
  BY <1>1, <1>2, <1>5 DEF Joins

\* and of two sequences in a row what it makes of each.
LEMMA FlattenBoth ==
    ASSUME NEW S, NEW s \in Seq(Seq(S)), NEW t \in Seq(Seq(S))
    PROVE  FlattenSeq(s \o t) = FlattenSeq(s) \o FlattenSeq(t)
<1> DEFINE m == Len(s)
           n == Len(t)
           u == s \o t
<1>1. /\ m \in Nat /\ n \in Nat /\ u \in Seq(Seq(S)) /\ Len(u) = m + n
      /\ \A k \in 1 .. m : u[k] = s[k]
      /\ \A k \in 1 .. n : u[m + k] = t[k] /\ t[k] \in Seq(S)
  BY LenProperties
<1>2. PICK f : Joins(S, u, f)
  BY <1>1, FlattenSteps
<1>3. PICK g : Joins(S, s, g)
  BY FlattenSteps
<1>4. PICK h : Joins(S, t, h)
  BY FlattenSteps
<1>5. /\ f[0] = <<>> /\ g[0] = <<>> /\ h[0] = <<>>
      /\ \A k \in 1 .. (m + n) : f[k] = f[k - 1] \o u[k]
      /\ \A k \in 1 .. m : g[k] = g[k - 1] \o s[k]
      /\ \A k \in 1 .. n : h[k] = h[k - 1] \o t[k]
      /\ \A k \in 0 .. m : g[k] \in Seq(S)
      /\ \A k \in 0 .. n : h[k] \in Seq(S)
      /\ FlattenSeq(u) = f[m + n] /\ FlattenSeq(s) = g[m] /\ FlattenSeq(t) = h[n]
  BY <1>1, <1>2, <1>3, <1>4 DEF Joins
<1> DEFINE p == g[m]
           T == {k \in Nat : k <= m => f[k] = g[k]}
           U == {k \in Nat : k <= n => f[m + k] = p \o h[k]}
<1> HIDE DEF m, n, u, p
<1>6. T = Nat
  <2>1. 0 \in T
    BY <1>5
  <2>2. ASSUME NEW i \in T
        PROVE  i + 1 \in T
    <3> SUFFICES ASSUME i + 1 <= m
                 PROVE  f[i + 1] = g[i + 1]
      OBVIOUS
    <3>1. /\ i + 1 \in 1 .. m /\ (i + 1) - 1 = i /\ f[i] = g[i]
          /\ i + 1 \in 1 .. (m + n)
      BY <1>1
    <3>2. s[i + 1] = u[i + 1]
      BY <1>1, <3>1
    <3>3. f[i + 1] = f[(i + 1) - 1] \o u[i + 1] /\ g[i + 1] = g[(i + 1) - 1] \o s[i + 1]
      BY <1>5, <3>1, Zenon
    <3> QED
      BY <3>1, <3>2, <3>3, Zenon
  <2>3. T \in SUBSET Nat
    OBVIOUS
  <2> HIDE DEF T
  <2> QED
    BY <2>1, <2>2, <2>3, NatInduct
<1>7. f[m] = p /\ p \in Seq(S)
  <2>1. m \in T
    <3> HIDE DEF T
    <3> QED
      BY <1>1, <1>6
  <2>2. m <= m /\ m \in 0 .. m
    BY <1>1
  <2> QED
    BY <1>5, <2>1, <2>2 DEF p
<1>8. Associative(S)
  BY Associates
<1>9. U = Nat
  <2>1. 0 \in U
    <3>1. f[m + 0] = p /\ h[0] = <<>> /\ p \o <<>> = p
      BY <1>1, <1>5, <1>7
    <3> QED
      BY <3>1
  <2>2. ASSUME NEW i \in U
        PROVE  i + 1 \in U
    <3> DEFINE x == h[i]
               e == t[i + 1]
    <3> SUFFICES ASSUME i + 1 <= n
                 PROVE  f[m + (i + 1)] = p \o h[i + 1]
      OBVIOUS
    <3>1. /\ i + 1 \in 1 .. n /\ (i + 1) - 1 = i /\ i \in 0 .. n
          /\ m + (i + 1) \in 1 .. (m + n) /\ (m + (i + 1)) - 1 = m + i
      BY <1>1
    <3>2. x \in Seq(S) /\ e \in Seq(S) /\ u[m + (i + 1)] = e
      BY <1>1, <1>5, <3>1
    <3>3. f[m + i] = p \o x
      BY <1>1, <3>1
    <3>4. /\ f[m + (i + 1)] = f[(m + (i + 1)) - 1] \o u[m + (i + 1)]
          /\ h[i + 1] = h[(i + 1) - 1] \o e
      BY <1>5, <3>1, Zenon
    <3>5. f[m + (i + 1)] = f[m + i] \o e /\ h[i + 1] = x \o e
      BY <3>1, <3>2, <3>4, Zenon
    <3> HIDE DEF x, e
    <3>6. (p \o x) \o e = p \o (x \o e)
      BY <1>7, <1>8, <3>2, Zenon DEF Associative
    <3> QED
      BY <3>3, <3>5, <3>6, Zenon
  <2>3. U \in SUBSET Nat
    OBVIOUS
  <2> HIDE DEF U
  <2> QED
    BY <2>1, <2>2, <2>3, NatInduct
<1>10. f[m + n] = p \o h[n]
  <2>1. n \in U
    <3> HIDE DEF U
    <3> QED
      BY <1>1, <1>9
  <2>2. n <= n
    BY <1>1
  <2> QED
    BY <2>1, <2>2
<1> QED
  BY <1>5, <1>10 DEF u, p

\* u is t with x in front of its first sequence.
Fronted(S, x, t, u) ==
    /\ Len(t) = Len(u) /\ Len(t) > 0
    /\ u[1] = x \o t[1]
    /\ \A k \in 2 .. Len(t) : u[k] = t[k]

\* That puts x in front of what FlattenSeq makes.
LEMMA FlattenFront ==
    ASSUME NEW S, NEW x \in Seq(S), NEW t \in Seq(Seq(S)), NEW u \in Seq(Seq(S)),
           Fronted(S, x, t, u)
    PROVE  FlattenSeq(u) = x \o FlattenSeq(t)
<1> DEFINE n == Len(t)
<1>1. /\ n \in Nat /\ n > 0 /\ Len(u) = n
      /\ \A k \in 1 .. n : t[k] \in Seq(S)
      /\ u[1] = x \o t[1] /\ \A k \in 2 .. n : u[k] = t[k]
  BY LenProperties DEF Fronted
<1>2. PICK f : Joins(S, u, f)
  BY FlattenSteps
<1>3. PICK h : Joins(S, t, h)
  BY FlattenSteps
<1>4. /\ f[0] = <<>> /\ h[0] = <<>>
      /\ \A k \in 1 .. n : f[k] = f[k - 1] \o u[k]
      /\ \A k \in 1 .. n : h[k] = h[k - 1] \o t[k]
      /\ \A k \in 0 .. n : h[k] \in Seq(S)
      /\ FlattenSeq(u) = f[n] /\ FlattenSeq(t) = h[n]
  BY <1>1, <1>2, <1>3 DEF Joins
<1> HIDE DEF n
<1>5. Associative(S)
  BY Associates
<1> DEFINE U == {k \in Nat : k + 1 <= n => f[k + 1] = x \o h[k + 1]}
<1>6. 0 \in U
  <2> DEFINE a == t[1]
             b == u[1]
  <2>1. 1 \in 1 .. n /\ 1 - 1 = 0
    BY <1>1
  <2>2. a \in Seq(S) /\ b = x \o a
    BY <1>1, <2>1
  <2>3. f[1] = f[1 - 1] \o b /\ h[1] = h[1 - 1] \o a
    BY <1>4, <2>1, Zenon
  <2>4. f[1] = <<>> \o b /\ h[1] = <<>> \o a
    BY <1>4, <2>1, <2>3, Zenon
  <2> HIDE DEF a, b
  <2>5. b \in Seq(S)
    BY <2>2, RowType
  <2>6. f[1] = b /\ h[1] = a
    BY <2>2, <2>4, <2>5
  <2>7. 0 + 1 = 1
    OBVIOUS
  <2>8. f[0 + 1] = x \o h[0 + 1]
    BY <2>2, <2>6, <2>7, Zenon
  <2> QED
    BY <2>8
<1>7. ASSUME NEW i \in U
      PROVE  i + 1 \in U
  <2> DEFINE j == i + 1
             a == h[j]
             e == t[j + 1]
  <2> SUFFICES ASSUME j + 1 <= n
               PROVE  f[j + 1] = x \o h[j + 1]
    OBVIOUS
  <2>1. /\ j + 1 \in 2 .. n /\ j + 1 \in 1 .. n /\ (j + 1) - 1 = j
        /\ j \in 0 .. n /\ f[j] = x \o a
    BY <1>1
  <2>2. a \in Seq(S) /\ e \in Seq(S) /\ u[j + 1] = e
    BY <1>1, <1>4, <2>1
  <2> HIDE DEF j
  <2>3. /\ f[j + 1] = f[(j + 1) - 1] \o e
        /\ h[j + 1] = h[(j + 1) - 1] \o e
    BY <1>4, <2>1, <2>2, Zenon
  <2>4. f[j + 1] = (x \o a) \o e /\ h[j + 1] = a \o e
    BY <2>1, <2>3, Zenon
  <2> HIDE DEF a, e
  <2>5. (x \o a) \o e = x \o (a \o e)
    BY <1>5, <2>2, Zenon DEF Associative
  <2> QED
    BY <2>4, <2>5, Zenon
<1>8. U = Nat
  <2>1. U \in SUBSET Nat
    OBVIOUS
  <2> HIDE DEF U
  <2> QED
    BY <1>6, <1>7, <2>1, NatInduct
<1>9. f[n] = x \o h[n]
  <2>1. n - 1 \in U
    <3> HIDE DEF U
    <3> QED
      BY <1>1, <1>8
  <2>2. (n - 1) + 1 = n /\ n <= n
    BY <1>1
  <2> QED
    BY <2>1, <2>2
<1> QED
  BY <1>4, <1>9

\* t says what the rows of s tell, sequence by sequence.
Tells(s, t) ==
    /\ s \in Seq(Seq(Row)) /\ t \in Seq(Seq(Said)) /\ Len(s) = Len(t)
    /\ \A k \in 1 .. Len(s) : t[k] = TextOf(s[k])

\* The text of rows in a row is their texts in a row.
LEMMA FlattenTells ==
    ASSUME NEW s, NEW t, Tells(s, t)
    PROVE  TextOf(FlattenSeq(s)) = FlattenSeq(t)
<1> DEFINE n == Len(s)
<1>1. /\ s \in Seq(Seq(Row)) /\ t \in Seq(Seq(Said)) /\ Len(t) = n /\ n \in Nat
      /\ \A k \in 1 .. n : s[k] \in Seq(Row) /\ t[k] = TextOf(s[k])
  BY LenProperties DEF Tells
<1>2. PICK f : Joins(Row, s, f)
  BY <1>1, FlattenSteps
<1>3. PICK h : Joins(Said, t, h)
  BY <1>1, FlattenSteps
<1>4. /\ f[0] = <<>> /\ h[0] = <<>>
      /\ \A k \in 1 .. n : f[k] = f[k - 1] \o s[k]
      /\ \A k \in 1 .. n : h[k] = h[k - 1] \o t[k]
      /\ \A k \in 0 .. n : f[k] \in Seq(Row)
      /\ FlattenSeq(s) = f[n] /\ FlattenSeq(t) = h[n]
  BY <1>1, <1>2, <1>3 DEF Joins
<1> HIDE DEF n
<1> DEFINE U == {k \in Nat : k <= n => TextOf(f[k]) = h[k]}
<1>5. 0 \in U
  <2>1. <<>> \in Seq(Row) /\ \A k \in DOMAIN <<>> : <<>>[k].block = NoBlock
    OBVIOUS
  <2>2. TextOf(<<>>) = <<>>
    BY <2>1, TextNone
  <2> QED
    BY <1>4, <2>2
<1>6. ASSUME NEW i \in U
      PROVE  i + 1 \in U
  <2> DEFINE a == f[i]
             b == s[i + 1]
  <2> SUFFICES ASSUME i + 1 <= n
               PROVE  TextOf(f[i + 1]) = h[i + 1]
    OBVIOUS
  <2>1. i + 1 \in 1 .. n /\ (i + 1) - 1 = i /\ i \in 0 .. n /\ TextOf(a) = h[i]
    BY <1>1
  <2>2. a \in Seq(Row) /\ b \in Seq(Row) /\ t[i + 1] = TextOf(b)
    BY <1>1, <1>4, <2>1
  <2>3. /\ f[i + 1] = f[(i + 1) - 1] \o b
        /\ h[i + 1] = h[(i + 1) - 1] \o t[i + 1]
    BY <1>4, <2>1, Zenon
  <2>4. f[i + 1] = a \o b /\ h[i + 1] = TextOf(a) \o TextOf(b)
    BY <2>1, <2>2, <2>3, Zenon
  <2> HIDE DEF a, b
  <2>5. TextOf(a \o b) = TextOf(a) \o TextOf(b)
    BY <2>2, TextJoin
  <2> QED
    BY <2>4, <2>5, Zenon
<1>7. U = Nat
  <2>1. U \in SUBSET Nat
    OBVIOUS
  <2> HIDE DEF U
  <2> QED
    BY <1>5, <1>6, <2>1, NatInduct
<1>8. TextOf(f[n]) = h[n]
  <2>1. n \in U
    <3> HIDE DEF U
    <3> QED
      BY <1>1, <1>7
  <2>2. n <= n
    BY <1>1
  <2> QED
    BY <2>1, <2>2
<1> QED
  BY <1>4, <1>8

-----------------------------------------------------------------------------
(* What the viewport shows. *)

\* A block asks for some rows,
LEMMA RequestedType ==
    ASSUME NEW b \in Block
    PROVE  Requested(b) \in Nat
<1> DEFINE n == Len(b.snapshot)
           e == b.emitted
           r == b.rendered
<1>1. n \in Nat /\ e \in Nat /\ e \in Int /\ r \in Nat
  BY DEF Block
<1>2. Monus(n, e) \in Nat
  <2> HIDE DEF n, e
  <2> QED
    BY <1>1, MonusType
<1> DEFINE d == Monus(n, e)
<1> HIDE DEF d
<1>3. d \in Nat
  BY <1>2 DEF d
<1>4. Requested(b) = IF IsPainted(b) THEN Most(r, d) ELSE 0
  BY DEF Requested, d
<1> HIDE DEF n, e, r
<1>5. Most(r, d) \in Nat
  BY <1>1, <1>3 DEF Most
<1> QED
  BY <1>4, <1>5

\* and so do the blocks from one on.
LEMMA RequestedFromType ==
    ASSUME NEW bs \in Seq(Block), NEW i \in 1 .. Len(bs) + 1
    PROVE  RequestedFrom(bs, i) \in Int
<1> DEFINE n == Len(bs)
           a == [k \in DOMAIN bs |-> Requested(bs[k])]
<1>1. n \in Nat /\ DOMAIN bs = 1 .. n /\ \A k \in 1 .. n : bs[k] \in Block
  BY LenProperties
<1>2. a \in Seq(Nat) /\ Len(a) = n
  <2>1. \A k \in 1 .. n : Requested(bs[k]) \in Nat
    BY <1>1, RequestedType
  <2> HIDE DEF n
  <2> QED
    BY <1>1, <2>1
<1>3. RequestedFrom(bs, i) = Sums(a)[n] - Sums(a)[i - 1]
  BY DEF RequestedFrom
<1> HIDE DEF a, n
<1>4. \A k \in 0 .. n : Sums(a)[k] \in Nat
  BY <1>2, SumsType
<1>5. n \in 0 .. n /\ i - 1 \in 0 .. n
  BY <1>1 DEF n
<1>6. Sums(a)[n] \in Nat /\ Sums(a)[i - 1] \in Nat
  BY <1>4, <1>5
<1> QED
  BY <1>3, <1>6

\* Two lists of blocks that differ in reservations and rendered rows only.
Alike(bs, cs) ==
    /\ Len(bs) = Len(cs)
    /\ \A i \in 1 .. Len(cs) :
         /\ bs[i].id = cs[i].id /\ bs[i].mode = cs[i].mode
         /\ bs[i].state = cs[i].state
         /\ bs[i].snapshot = cs[i].snapshot /\ bs[i].emitted = cs[i].emitted

\* Reserve makes reservations and changes nothing else.
LEMMA ReserveAlike ==
    ASSUME NEW bs \in Seq(Block), NEW sb, NEW h \in Nat
    PROVE  Reserve(bs, sb, h) \in Seq(Block) /\ Alike(Reserve(bs, sb, h), bs)
<1> DEFINE n == Len(bs)
           room == Monus(h, SummaryRows(bs, sb, h))
           amount(i) == Least(Requested(bs[i]), Monus(room, RequestedFrom(bs, i + 1)))
           r == [i \in DOMAIN bs |-> [bs[i] EXCEPT !.reserved = amount(i)]]
<1>1. n \in Nat /\ DOMAIN bs = 1 .. n /\ \A i \in 1 .. n : bs[i] \in Block
  BY LenProperties
<1>2. room \in Nat
  <2> DEFINE k == SummaryRows(bs, sb, h)
  <2>1. k \in Int
    BY DEF SummaryRows
  <2> HIDE DEF k
  <2>2. Monus(h, k) \in Nat
    BY <2>1, MonusType
  <2> QED
    BY <2>2 DEF k
<1>3. ASSUME NEW i \in 1 .. n
      PROVE  amount(i) \in Nat
  <2> DEFINE a == Requested(bs[i])
             f == RequestedFrom(bs, i + 1)
             b == Monus(room, f)
  <2>1. a \in Nat
    BY <1>1, RequestedType
  <2>2. f \in Int
    <3>1. i + 1 \in 1 .. Len(bs) + 1
      BY <1>1
    <3> QED
      BY <3>1, RequestedFromType
  <2> HIDE DEF a, f, room
  <2>3. b \in Nat
    BY <1>2, <2>2, MonusType
  <2> HIDE DEF b
  <2>4. Least(a, b) \in Nat
    BY <2>1, <2>3 DEF Least
  <2> QED
    BY <2>4 DEF a, b, f
<1>4. Reserve(bs, sb, h) = r
  BY DEF Reserve
<1> HIDE DEF amount, n
<1>5. \A i \in 1 .. n : [bs[i] EXCEPT !.reserved = amount(i)] \in Block
  <2> SUFFICES ASSUME NEW i \in 1 .. n
               PROVE  [bs[i] EXCEPT !.reserved = amount(i)] \in Block
    OBVIOUS
  <2>1. bs[i] \in Block /\ amount(i) \in Nat
    BY <1>1, <1>3
  <2> QED
    BY <2>1 DEF Block
<1>6. r \in Seq(Block) /\ Len(r) = n
  <2> DEFINE c(i) == [bs[i] EXCEPT !.reserved = amount(i)]
  <2>1. r = [i \in 1 .. n |-> c(i)] /\ \A i \in 1 .. n : c(i) \in Block
    BY <1>1, <1>5
  <2> HIDE DEF c, r
  <2> QED
    BY <1>1, <2>1
<1>7. \A i \in 1 .. n :
        /\ r[i].id = bs[i].id /\ r[i].mode = bs[i].mode /\ r[i].state = bs[i].state
        /\ r[i].snapshot = bs[i].snapshot /\ r[i].emitted = bs[i].emitted
  <2> SUFFICES ASSUME NEW i \in 1 .. n
               PROVE  /\ r[i].id = bs[i].id /\ r[i].mode = bs[i].mode
                      /\ r[i].state = bs[i].state
                      /\ r[i].snapshot = bs[i].snapshot
                      /\ r[i].emitted = bs[i].emitted
    OBVIOUS
  <2>1. bs[i] \in Block /\ r[i] = [bs[i] EXCEPT !.reserved = amount(i)]
    BY <1>1
  <2> QED
    BY <2>1 DEF Block
<1> HIDE DEF r
<1> QED
  BY <1>4, <1>6, <1>7 DEF Alike, n

\* Some of the last elements of a sequence are elements of it.
LEMMA LastOf ==
    ASSUME NEW S, NEW s \in Seq(S), NEW k \in Nat
    PROVE  SubSeq(s, k + 1, Len(s)) \in Seq(S)
<1>1. Len(s) \in Nat /\ \A i \in 1 .. Len(s) : s[i] \in S
  BY LenProperties
<1> QED
  BY <1>1

\* A synthetic row belongs to no block.
LEMMA SyntheticType ==
    ASSUME NEW ep \in Nat, NEW text \in {Hidden, Marker}
    PROVE  Synthetic(text, ep) \in RowOf(ep) /\ Synthetic(text, ep).block = NoBlock
BY DEF Synthetic, RowOf, Row

\* What is painted of a block.
LEMMA PaintedType ==
    ASSUME NEW b \in Block, NEW ep \in Nat
    PROVE  Painted(b, ep) \in Seq(RowOf(ep))
<1> DEFINE stable == IF b.mode = "AppendOnly" THEN b.emitted ELSE 0
           n == Len(b.snapshot)
           r == b.reserved
           start == Most(stable, Monus(n, r))
           painted == Rows(b, start + 1, n, "Append", ep)
           row == [block |-> b.id, at |-> 0, text |-> Blank,
                   source |-> "Append", epoch |-> ep]
           blank == [k \in 1 .. Monus(r, Len(painted)) |-> row]
<1>1. stable \in Nat /\ n \in Nat /\ r \in Nat /\ r \in Int
  BY DEF Block
<1>2. start \in Nat
  <2> HIDE DEF stable, n, r
  <2>1. Monus(n, r) \in Nat
    BY <1>1, MonusType
  <2> DEFINE d == Monus(n, r)
  <2> HIDE DEF d
  <2>2. Most(stable, d) \in Nat
    BY <1>1, <2>1 DEF Most, d
  <2> QED
    BY <2>2 DEF d
<1>3. painted \in Seq(RowOf(ep))
  <2> HIDE DEF start
  <2>1. Spans(b, start + 1, n)
    BY <1>1, <1>2 DEF Spans
  <2> HIDE DEF n
  <2>2. "Append" \in Sources
    BY DEF Sources
  <2> QED
    BY <2>1, <2>2, RowsTell
<1>4. Painted(b, ep) = IF r = 0 THEN <<>> ELSE painted \o blank
  BY DEF Painted
<1> HIDE DEF painted
<1>5. blank \in Seq(RowOf(ep))
  <2> DEFINE m == Len(painted)
             d == Monus(r, m)
  <2>1. m \in Nat /\ m \in Int
    BY <1>3, LenProperties
  <2>2. d \in Nat
    <3> HIDE DEF r, m
    <3> QED
      BY <1>1, <2>1, MonusType
  <2>3. row \in RowOf(ep)
    BY DEF RowOf, Row, Block
  <2> HIDE DEF d, row
  <2>4. [k \in 1 .. d |-> row] \in Seq(RowOf(ep))
    BY <2>2, <2>3
  <2> QED
    BY <2>4 DEF d
<1> HIDE DEF blank, r
<1>6. painted \o blank \in Seq(RowOf(ep))
  BY <1>3, <1>5, RowType
<1> QED
  BY <1>4, <1>6

\* All that is painted is of the epoch.
LEMMA PaintType ==
    ASSUME NEW bs \in Seq(Block), NEW ep \in Nat, NEW sb \in Seq(RowOf(ep)),
           NEW h \in Nat
    PROVE  Paint(bs, sb, h, ep) \in Seq(RowOf(ep))
<1> DEFINE A == Seq(RowOf(ep))
           summary == SummaryRows(bs, sb, h)
           room == Monus(h, summary)
           amounts == [k \in DOMAIN bs |-> bs[k].reserved]
           reserved == Sums(amounts)[Len(bs)]
           d == Monus(Len(sb), room - reserved)
           history == SubSeq(sb, d + 1, Len(sb))
           live == [i \in DOMAIN bs |-> Painted(bs[i], ep)]
           first == IF summary = 1 THEN <<Synthetic(Hidden, ep)>> ELSE <<>>
<1>1. Len(bs) \in Nat /\ DOMAIN bs = 1 .. Len(bs)
      /\ \A k \in 1 .. Len(bs) : bs[k] \in Block
  BY LenProperties
<1>2. reserved \in Nat
  <2>1. amounts \in Seq(Nat) /\ Len(amounts) = Len(bs)
    <3>1. \A k \in 1 .. Len(bs) : bs[k].reserved \in Nat
      BY <1>1 DEF Block
    <3> QED
      BY <1>1, <3>1
  <2> HIDE DEF amounts
  <2> QED
    BY <1>1, <2>1, SumsType
<1>3. room \in Nat
  <2>1. summary \in Int
    BY DEF SummaryRows
  <2> HIDE DEF summary
  <2> QED
    BY <2>1, MonusType
<1> HIDE DEF room, reserved
<1>4. d \in Nat
  <2> DEFINE c == room - reserved
             m == Len(sb)
  <2>1. c \in Int /\ m \in Nat
    BY <1>2, <1>3, LenProperties
  <2> HIDE DEF c, m
  <2>2. Monus(m, c) \in Nat
    BY <2>1, MonusType
  <2> QED
    BY <2>2 DEF c, m
<1> HIDE DEF d
<1>5. history \in A
  BY <1>4, LastOf
<1>6. FlattenSeq(live) \in A
  <2>1. live \in Seq(A)
    <3>1. \A k \in 1 .. Len(bs) : Painted(bs[k], ep) \in A
      BY <1>1, PaintedType
    <3> HIDE DEF A
    <3> QED
      BY <1>1, <3>1
  <2> HIDE DEF live
  <2> QED
    BY <2>1, FlattenType
<1>7. first \in A
  <2>1. Synthetic(Hidden, ep) \in RowOf(ep)
    BY SyntheticType
  <2> DEFINE e == Synthetic(Hidden, ep)
  <2> HIDE DEF e
  <2>2. e \in RowOf(ep)
    BY <2>1 DEF e
  <2>3. <<e>> \in A /\ <<>> \in A
    BY <2>2
  <2>4. first = <<e>> \/ first = <<>>
    BY DEF e
  <2> QED
    BY <2>3, <2>4
<1>8. Paint(bs, sb, h, ep) = IF h = 0 THEN <<>> ELSE first \o history \o FlattenSeq(live)
  BY DEF Paint, d, reserved, room
<1> HIDE DEF first, history, live
<1>9. (first \o history) \o FlattenSeq(live) \in A
  <2> DEFINE l == FlattenSeq(live)
             f == first \o history
  <2>1. f \in A
    BY <1>5, <1>7, RowType
  <2>2. l \in A
    BY <1>6
  <2> HIDE DEF l, f
  <2>3. f \o l \in A
    BY <2>1, <2>2, RowType
  <2> QED
    BY <2>3 DEF f, l
<1>10. <<>> \in A
  OBVIOUS
<1> QED
  BY <1>8, <1>9, <1>10

\* What a refresh leaves: the blocks as they were but for their reservations.
LEMMA Refreshed ==
    ASSUME NEW bs \in Seq(Block), NEW ep \in Nat, NEW sb \in Seq(RowOf(ep)),
           NEW h \in Nat, Refresh(bs, sb, h, ep)
    PROVE  /\ blocks' \in Seq(Block) /\ Alike(blocks', bs)
           /\ viewport' \in Seq(RowOf(ep))
<1> DEFINE cs == Reserve(bs, sb, h)
<1>1. cs \in Seq(Block) /\ Alike(cs, bs)
  BY ReserveAlike
<1>2. blocks' = cs /\ viewport' = Paint(cs, sb, h, ep)
  BY DEF Refresh
<1> HIDE DEF cs
<1>3. Paint(cs, sb, h, ep) \in Seq(RowOf(ep))
  BY <1>1, PaintType
<1> QED
  BY <1>1, <1>2, <1>3

-----------------------------------------------------------------------------
(* The ledger. *)

\* What the first n blocks tell, whole,
Past(bs, n) ==
    FlattenSeq([i \in 1 .. n |-> Told(bs[i], 1, Len(bs[i].snapshot))])

\* and what has been streamed of a block.
Part(bs, i) ==
    IF i \in DOMAIN bs THEN Told(bs[i], 1, bs[i].emitted) ELSE <<>>

\* What blocks tell of which the first n are committed.
Story(bs, n) == Past(bs, n) \o Part(bs, n + 1)

\* The blocks of the ledger are those before the frontier, as they were
\* committed; only the one at the frontier is streamed, and only while it is
\* painted.
Frontier(bs, cm) ==
    /\ Len(cm) <= Len(bs)
    /\ \A i \in 1 .. Len(bs) :
         /\ bs[i].emitted <= Len(bs[i].snapshot)
         /\ bs[i].state = "Committed" <=> i <= Len(cm)
         /\ i <= Len(cm) => bs[i].snapshot = cm[i]
         /\ bs[i].emitted > 0 =>
              /\ i = Len(cm) + 1
              /\ IsPainted(bs[i]) /\ bs[i].mode = "AppendOnly"

\* What the whole of each of the first blocks tells.
LEMMA WholeType ==
    ASSUME NEW bs \in Seq(Block), NEW i \in 1 .. Len(bs)
    PROVE  /\ Told(bs[i], 1, Len(bs[i].snapshot)) \in Seq(Said)
           /\ Spans(bs[i], 1, Len(bs[i].snapshot))
<1>1. Spans(bs[i], 1, Len(bs[i].snapshot))
  <2>1. bs[i] \in Block
    BY LenProperties
  <2>2. Len(bs[i].snapshot) \in Nat
    BY <2>1 DEF Block
  <2> QED
    BY <2>1, <2>2 DEF Spans
<1> QED
  BY <1>1, ToldType

\* What blocks tell is a sequence of what rows say.
LEMMA PastType ==
    ASSUME NEW bs \in Seq(Block), NEW n \in 0 .. Len(bs)
    PROVE  /\ [i \in 1 .. n |-> Told(bs[i], 1, Len(bs[i].snapshot))] \in Seq(Seq(Said))
           /\ Past(bs, n) \in Seq(Said)
<1> DEFINE A == Seq(Said)
           told(i) == Told(bs[i], 1, Len(bs[i].snapshot))
           s == [i \in 1 .. n |-> told(i)]
<1>1. n \in Nat /\ \A i \in 1 .. n : i \in 1 .. Len(bs)
  BY LenProperties
<1>2. \A i \in 1 .. n : told(i) \in A
  BY <1>1, WholeType
<1>3. s \in Seq(A)
  <2> HIDE DEF told, A
  <2> QED
    BY <1>1, <1>2
<1>4. Past(bs, n) = FlattenSeq(s)
  BY DEF Past
<1> HIDE DEF s
<1>5. FlattenSeq(s) \in Seq(Said)
  BY <1>3, FlattenType
<1> QED
  BY <1>3, <1>4, <1>5 DEF s

\* So is what is streamed.
LEMMA PartType ==
    ASSUME NEW bs \in Seq(Block), NEW cm \in Seq(Seq(Lines)), Frontier(bs, cm)
    PROVE  Part(bs, Len(cm) + 1) \in Seq(Said)
<1> DEFINE i == Len(cm) + 1
           b == bs[i]
<1>1. CASE i \in DOMAIN bs
  <2>1. i \in 1 .. Len(bs) /\ b \in Block
    BY <1>1, LenProperties
  <2>2. b.emitted <= Len(b.snapshot) /\ b.emitted \in Nat
    BY <2>1 DEF Frontier, Block
  <2>3. Spans(b, 1, b.emitted)
    BY <2>1, <2>2 DEF Spans
  <2> HIDE DEF i, b
  <2>4. Told(b, 1, b.emitted) \in Seq(Said)
    BY <2>3, ToldType
  <2> QED
    BY <1>1, <2>4 DEF Part, i, b
<1>2. CASE i \notin DOMAIN bs
  BY <1>2 DEF Part
<1> QED
  BY <1>1, <1>2

\* What the blocks tell.
LEMMA StoryType ==
    ASSUME NEW bs \in Seq(Block), NEW cm \in Seq(Seq(Lines)), Frontier(bs, cm)
    PROVE  Story(bs, Len(cm)) \in Seq(Said)
<1>1. Len(cm) \in 0 .. Len(bs)
  BY LenProperties DEF Frontier
<1>2. Past(bs, Len(cm)) \in Seq(Said)
  BY <1>1, PastType
<1>3. Part(bs, Len(cm) + 1) \in Seq(Said)
  BY PartType
<1> QED
  BY <1>2, <1>3, RowType DEF Story

\* Ledger, of any blocks.
LedgerFrom(bs, cm) ==
    LET b == bs[Len(cm) + 1]
        streaming == Len(cm) + 1 \in DOMAIN bs /\ IsPainted(b)
                     /\ b.mode = "AppendOnly"
        rows(i, n) == [k \in 1 .. n |->
                         [block |-> bs[i].id, at |-> k,
                          text |-> IF i < Len(cm) + 1 THEN cm[i][k]
                                   ELSE bs[i].snapshot[k]]]
    IN  FlattenSeq([i \in DOMAIN cm |-> rows(i, Len(cm[i]))])
        \o (IF streaming THEN rows(Len(cm) + 1, Least(b.emitted, Len(b.snapshot)))
            ELSE <<>>)

\* What is told from the first line on.
LEMMA ToldFirst ==
    ASSUME NEW b, NEW n \in Nat
    PROVE  Told(b, 1, n) = [k \in 1 .. n |-> [block |-> b.id, at |-> k,
                                              text |-> b.snapshot[k]]]
<1>1. Monus(n + 1, 1) = n
  BY DEF Monus, Most
<1>2. \A k \in 1 .. n : 1 + k - 1 = k
  OBVIOUS
<1> QED
  BY <1>1, <1>2 DEF Told

\* The ledger is what the blocks tell.
LEMMA LedgerIsStory ==
    ASSUME NEW bs \in Seq(Block), NEW cm \in Seq(Seq(Lines)), Frontier(bs, cm)
    PROVE  LedgerFrom(bs, cm) = Story(bs, Len(cm))
<1> DEFINE c == Len(cm)
           h == c + 1
           b == bs[h]
           streaming == h \in DOMAIN bs /\ IsPainted(b) /\ b.mode = "AppendOnly"
           rows(i, n) == [k \in 1 .. n |->
                            [block |-> bs[i].id, at |-> k,
                             text |-> IF i < h THEN cm[i][k]
                                      ELSE bs[i].snapshot[k]]]
           part == IF streaming THEN rows(h, Least(b.emitted, Len(b.snapshot)))
                   ELSE <<>>
<1>1. c \in Nat /\ DOMAIN cm = 1 .. c /\ c <= Len(bs) /\ Len(bs) \in Nat
      /\ DOMAIN bs = 1 .. Len(bs)
  BY LenProperties DEF Frontier
<1>2. ASSUME NEW i \in 1 .. c
      PROVE  rows(i, Len(cm[i])) = Told(bs[i], 1, Len(bs[i].snapshot))
  <2>1. i \in 1 .. Len(bs) /\ i < h /\ bs[i].snapshot = cm[i]
    BY <1>1 DEF Frontier
  <2>2. Len(bs[i].snapshot) \in Nat
    <3>1. bs[i] \in Block
      BY <2>1, LenProperties
    <3> QED
      BY <3>1 DEF Block
  <2> DEFINE n == Len(bs[i].snapshot)
  <2>3. rows(i, n) = [k \in 1 .. n |-> [block |-> bs[i].id, at |-> k,
                                        text |-> bs[i].snapshot[k]]]
    BY <2>1
  <2> HIDE DEF n, rows
  <2>4. n \in Nat
    BY <2>2 DEF n
  <2>5. rows(i, n) = Told(bs[i], 1, n)
    BY <2>3, <2>4, ToldFirst
  <2> QED
    BY <2>1, <2>5 DEF n
<1>3. part = Part(bs, h)
  <2>1. CASE h \in DOMAIN bs
    <3>1. h \in 1 .. Len(bs) /\ b \in Block
      BY <1>1, <2>1, LenProperties
    <3>2. /\ b.emitted \in Nat /\ Len(b.snapshot) \in Nat
          /\ b.emitted <= Len(b.snapshot)
          /\ b.emitted > 0 => IsPainted(b) /\ b.mode = "AppendOnly"
      BY SMTT(30), <3>1 DEF Frontier, Block
    <3>3. Told(b, 1, b.emitted) =
            [k \in 1 .. b.emitted |-> [block |-> b.id, at |-> k,
                                       text |-> b.snapshot[k]]]
      BY <3>2, ToldFirst
    <3>4. CASE streaming
      <4>1. Least(b.emitted, Len(b.snapshot)) = b.emitted /\ ~(h < h)
        BY <1>1, <3>2 DEF Least
      <4>2. part = rows(h, b.emitted)
        BY <3>4, <4>1
      <4>3. rows(h, b.emitted) = Told(b, 1, b.emitted)
        BY <3>3, <4>1
      <4> QED
        BY <2>1, <4>2, <4>3 DEF Part
    <3>5. CASE ~streaming
      <4>1. b.emitted = 0
        BY <2>1, <3>2, <3>5
      <4>2. Told(b, 1, 0) = <<>>
        BY <3>3, <4>1
      <4> QED
        BY <2>1, <3>5, <4>1, <4>2 DEF Part
    <3> QED
      BY <3>4, <3>5
  <2>2. CASE h \notin DOMAIN bs
    BY <2>2 DEF Part
  <2> QED
    BY <2>1, <2>2
<1>4. LedgerFrom(bs, cm) = FlattenSeq([i \in DOMAIN cm |-> rows(i, Len(cm[i]))]) \o part
  BY DEF LedgerFrom
<1> HIDE DEF rows, part, c
<1>5. [i \in DOMAIN cm |-> rows(i, Len(cm[i]))]
        = [i \in 1 .. c |-> Told(bs[i], 1, Len(bs[i].snapshot))]
  BY <1>1, <1>2
<1> QED
  BY <1>3, <1>4, <1>5 DEF Story, Past, c

\* A block tells the same as long as its lines are.
LEMMA ToldSame ==
    ASSUME NEW b, NEW d, NEW n \in Nat, b.id = d.id,
           \A k \in 1 .. n : b.snapshot[k] = d.snapshot[k]
    PROVE  Told(b, 1, n) = Told(d, 1, n)
<1>1. /\ Told(b, 1, n) = [k \in 1 .. n |-> [block |-> b.id, at |-> k,
                                            text |-> b.snapshot[k]]]
      /\ Told(d, 1, n) = [k \in 1 .. n |-> [block |-> d.id, at |-> k,
                                            text |-> d.snapshot[k]]]
  BY ToldFirst
<1> QED
  BY <1>1

\* So do some.
LEMMA PastSame ==
    ASSUME NEW bs, NEW cs, NEW n,
           \A i \in 1 .. n : bs[i].id = cs[i].id /\ bs[i].snapshot = cs[i].snapshot
    PROVE  Past(bs, n) = Past(cs, n)
<1>1. \A i \in 1 .. n : Told(bs[i], 1, Len(bs[i].snapshot))
                          = Told(cs[i], 1, Len(cs[i].snapshot))
  BY DEF Told
<1>2. [i \in 1 .. n |-> Told(bs[i], 1, Len(bs[i].snapshot))]
        = [i \in 1 .. n |-> Told(cs[i], 1, Len(cs[i].snapshot))]
  BY <1>1, Zenon
<1> QED
  BY <1>2 DEF Past

\* Nothing is streamed of a block without streamed lines, or of none.
LEMMA PartNone ==
    ASSUME NEW bs, NEW i, i \in DOMAIN bs => bs[i].emitted = 0
    PROVE  Part(bs, i) = <<>>
<1>1. Told(bs[i], 1, 0) = <<>>
  BY ToldFirst
<1> QED
  BY <1>1 DEF Part

\* cs are the blocks bs, and perhaps new ones, with what the ledger says of
\* them.
Keeps(bs, cs, cm) ==
    /\ Len(bs) <= Len(cs)
    /\ \A i \in 1 .. Len(bs) :
         /\ cs[i].id = bs[i].id /\ cs[i].mode = bs[i].mode
         /\ cs[i].emitted = bs[i].emitted
         /\ cs[i].emitted <= Len(cs[i].snapshot)
         /\ cs[i].state = "Committed" <=> bs[i].state = "Committed"
         /\ IsPainted(bs[i]) => IsPainted(cs[i])
         /\ i <= Len(cm) => cs[i].snapshot = bs[i].snapshot
         /\ \A k \in 1 .. bs[i].emitted : cs[i].snapshot[k] = bs[i].snapshot[k]
    /\ \A i \in Len(bs) + 1 .. Len(cs) : cs[i].emitted = 0 /\ cs[i].state = "Queued"

\* They tell the same.
LEMMA KeptStory ==
    ASSUME NEW bs \in Seq(Block), NEW cs \in Seq(Block),
           NEW cm \in Seq(Seq(Lines)), Frontier(bs, cm), Keeps(bs, cs, cm)
    PROVE  Frontier(cs, cm) /\ Story(cs, Len(cm)) = Story(bs, Len(cm))
<1> DEFINE c == Len(cm)
           m == Len(bs)
           n == Len(cs)
<1>1. /\ c \in Nat /\ m \in Nat /\ n \in Nat /\ c <= m /\ m <= n
      /\ DOMAIN bs = 1 .. m /\ DOMAIN cs = 1 .. n
  BY LenProperties DEF Frontier, Keeps
<1>2. ASSUME NEW i \in 1 .. n
      PROVE  /\ cs[i].emitted <= Len(cs[i].snapshot)
             /\ cs[i].state = "Committed" <=> i <= c
             /\ i <= c => cs[i].snapshot = cm[i]
             /\ cs[i].emitted > 0 =>
                  /\ i = c + 1
                  /\ IsPainted(cs[i]) /\ cs[i].mode = "AppendOnly"
  <2>1. CASE i <= m
    <3>1. i \in 1 .. m
      BY <1>1, <2>1
    <3> QED
      BY ZenonT(30), <1>1, <3>1 DEF Frontier, Keeps
  <2>2. CASE ~(i <= m)
    <3>1. i \in m + 1 .. n /\ ~(i <= c)
      BY <1>1, <2>2
    <3>2. cs[i].emitted = 0 /\ cs[i].state = "Queued"
      BY <3>1 DEF Keeps
    <3>3. cs[i] \in Block /\ Len(cs[i].snapshot) \in Nat
      <4>1. cs[i] \in Block
        BY LenProperties
      <4> QED
        BY <4>1 DEF Block
    <3>4. cs[i].emitted <= Len(cs[i].snapshot) /\ ~(cs[i].emitted > 0)
      BY <3>2, <3>3
    <3>5. cs[i].state # "Committed"
      BY <3>2
    <3> QED
      BY <3>1, <3>4, <3>5
  <2> QED
    BY <2>1, <2>2
<1>3. Frontier(cs, cm)
  BY <1>1, <1>2 DEF Frontier
<1>4. Past(cs, c) = Past(bs, c)
  <2>1. \A i \in 1 .. c : cs[i].id = bs[i].id /\ cs[i].snapshot = bs[i].snapshot
    BY <1>1 DEF Keeps
  <2> HIDE DEF c
  <2> QED
    BY <2>1, PastSame
<1>5. Part(cs, c + 1) = Part(bs, c + 1)
  <2> DEFINE i == c + 1
  <2>1. CASE i <= m
    <3>1. i \in 1 .. m /\ i \in DOMAIN bs /\ i \in DOMAIN cs
      BY <1>1, <2>1
    <3>2. /\ cs[i].id = bs[i].id /\ cs[i].emitted = bs[i].emitted
          /\ \A k \in 1 .. bs[i].emitted : cs[i].snapshot[k] = bs[i].snapshot[k]
      BY <3>1 DEF Keeps
    <3>3. bs[i].emitted \in Nat
      <4>1. bs[i] \in Block
        BY <3>1, LenProperties
      <4> QED
        BY <4>1 DEF Block
    <3> DEFINE b == bs[i]
               d == cs[i]
               e == bs[i].emitted
    <3>4. Told(d, 1, e) = Told(b, 1, e)
      <4> HIDE DEF i
      <4>1. d.id = b.id /\ \A k \in 1 .. e : d.snapshot[k] = b.snapshot[k]
        BY <3>2
      <4>2. e \in Nat
        BY <3>3
      <4> HIDE DEF b, d, e
      <4> QED
        BY <4>1, <4>2, ToldSame
    <3> QED
      BY <3>1, <3>2, <3>4 DEF Part
  <2>2. CASE ~(i <= m)
    <3>1. i \notin DOMAIN bs
      BY <1>1, <2>2
    <3>2. i \in DOMAIN cs => cs[i].emitted = 0
      <4> SUFFICES ASSUME i \in DOMAIN cs
                   PROVE  cs[i].emitted = 0
        OBVIOUS
      <4>1. i \in m + 1 .. n
        BY <1>1, <2>2
      <4> QED
        BY <4>1 DEF Keeps
    <3> HIDE DEF i
    <3>3. Part(bs, i) = <<>> /\ Part(cs, i) = <<>>
      BY <3>1, <3>2, PartNone
    <3> QED
      BY <3>3 DEF i
  <2> QED
    BY <2>1, <2>2
<1> QED
  BY <1>3, <1>4, <1>5 DEF Story

\* As do blocks with other reservations.
LEMMA AlikeKeeps ==
    ASSUME NEW bs \in Seq(Block), NEW cs \in Seq(Block),
           NEW cm \in Seq(Seq(Lines)), Frontier(bs, cm), Alike(cs, bs)
    PROVE  Frontier(cs, cm) /\ Story(cs, Len(cm)) = Story(bs, Len(cm))
<1>1. Len(bs) \in Nat /\ Len(cs) = Len(bs)
  BY LenProperties DEF Alike
<1>2. ASSUME NEW i \in 1 .. Len(bs)
      PROVE  /\ cs[i].id = bs[i].id /\ cs[i].mode = bs[i].mode
             /\ cs[i].emitted = bs[i].emitted
             /\ cs[i].emitted <= Len(cs[i].snapshot)
             /\ cs[i].state = "Committed" <=> bs[i].state = "Committed"
             /\ IsPainted(bs[i]) => IsPainted(cs[i])
             /\ i <= Len(cm) => cs[i].snapshot = bs[i].snapshot
             /\ \A k \in 1 .. bs[i].emitted : cs[i].snapshot[k] = bs[i].snapshot[k]
  BY DEF Alike, Frontier, IsPainted
<1>3. Keeps(bs, cs, cm)
  BY <1>1, <1>2 DEF Keeps
<1> QED
  BY <1>3, KeptStory

-----------------------------------------------------------------------------
(* Retirement and replay. *)

\* What is left to tell of the blocks from c + 1 to n.
Rest(bs, c, n) ==
    [k \in 1 .. n - c |-> LET b == bs[c + k] IN
                          Told(b, b.emitted + 1, Len(b.snapshot))]

\* All that they tell.
Wholes(bs, c, n) ==
    [k \in 1 .. n - c |-> Told(bs[c + k], 1, Len(bs[c + k].snapshot))]

\* The blocks that retire add what is left to tell of them.
LEMMA RestStory ==
    ASSUME NEW bs \in Seq(Block), NEW cm \in Seq(Seq(Lines)), Frontier(bs, cm),
           NEW n \in Len(cm) + 1 .. Len(bs)
    PROVE  /\ Rest(bs, Len(cm), n) \in Seq(Seq(Said))
           /\ Past(bs, n) = Story(bs, Len(cm)) \o FlattenSeq(Rest(bs, Len(cm), n))
<1> DEFINE c == Len(cm)
           m == n - c
           t == Rest(bs, c, n)
           u == Wholes(bs, c, n)
           s == [i \in 1 .. c |-> Told(bs[i], 1, Len(bs[i].snapshot))]
           v == [i \in 1 .. n |-> Told(bs[i], 1, Len(bs[i].snapshot))]
           part == Part(bs, c + 1)
<1>1. /\ c \in Nat /\ n \in Nat /\ m \in Nat /\ m > 0 /\ n <= Len(bs)
      /\ Len(bs) \in Nat /\ DOMAIN bs = 1 .. Len(bs)
      /\ \A k \in 1 .. m : c + k \in 1 .. Len(bs)
      /\ c \in 0 .. Len(bs) /\ n \in 0 .. Len(bs)
  BY LenProperties
<1>2. ASSUME NEW k \in 1 .. m
      PROVE  LET b == bs[c + k] IN
             /\ Told(b, 1, Len(b.snapshot)) \in Seq(Said)
             /\ Told(b, b.emitted + 1, Len(b.snapshot)) \in Seq(Said)
             /\ Told(b, 1, Len(b.snapshot))
                  = Told(b, 1, b.emitted) \o Told(b, b.emitted + 1, Len(b.snapshot))
             /\ k > 1 => b.emitted = 0
  <2> DEFINE i == c + k
             b == bs[i]
             e == b.emitted
             l == Len(b.snapshot)
  <2>1. i \in 1 .. Len(bs)
    BY <1>1
  <2>2. b \in Block /\ Told(b, 1, l) \in Seq(Said) /\ Spans(b, 1, l)
    <3> HIDE DEF i
    <3> QED
      BY <2>1, WholeType, LenProperties
  <2>3. e \in Nat /\ l \in Nat /\ e <= l /\ (e > 0 => i = c + 1)
    <3>1. e <= l /\ (e > 0 => i = c + 1)
      <4> HIDE DEF i
      <4> QED
        BY <2>1 DEF Frontier
    <3>2. b.snapshot \in Seq(Lines) /\ b.emitted \in Nat
      <4> HIDE DEF b
      <4> QED
        BY <2>2 DEF Block
    <3> HIDE DEF b
    <3> QED
      BY <3>1, <3>2
  <2>4. Spans(b, e + 1, l) /\ e \in 0 .. l
    BY <2>2, <2>3 DEF Spans
  <2>5. k > 1 => e = 0
    BY <1>1, <2>3
  <2> HIDE DEF b, e, l
  <2>6. Told(b, e + 1, l) \in Seq(Said)
    BY <2>4, ToldType
  <2>7. Told(b, 1, l) = Told(b, 1, e) \o Told(b, e + 1, l)
    BY <2>2, <2>4, ToldJoin
  <2> QED
    BY <2>2, <2>5, <2>6, <2>7 DEF b, e, l
<1> DEFINE A == Seq(Said)
<1>3. t \in Seq(A) /\ Len(t) = m /\ u \in Seq(A) /\ Len(u) = m
  <2> DEFINE x(k) == LET b == bs[c + k] IN Told(b, b.emitted + 1, Len(b.snapshot))
             y(k) == Told(bs[c + k], 1, Len(bs[c + k].snapshot))
  <2>1. \A k \in 1 .. m : x(k) \in A /\ y(k) \in A
    BY <1>2
  <2>2. t = [k \in 1 .. m |-> x(k)] /\ u = [k \in 1 .. m |-> y(k)]
    BY DEF Rest, Wholes
  <2> HIDE DEF x, y, t, u, m, A
  <2> QED
    BY <1>1, <2>1, <2>2
<1>4. part \in A
  BY PartType
<1>5. Fronted(Said, part, t, u)
  <2>1. u[1] = part \o t[1]
    <3>1. 1 \in 1 .. m /\ c + 1 \in DOMAIN bs
      BY <1>1
    <3>2. part = Told(bs[c + 1], 1, bs[c + 1].emitted)
      BY <3>1 DEF Part
    <3>3. u[1] = Told(bs[c + 1], 1, Len(bs[c + 1].snapshot))
          /\ t[1] = Told(bs[c + 1], bs[c + 1].emitted + 1, Len(bs[c + 1].snapshot))
      BY <3>1 DEF Rest, Wholes
    <3>4. Told(bs[c + 1], 1, Len(bs[c + 1].snapshot))
            = Told(bs[c + 1], 1, bs[c + 1].emitted)
              \o Told(bs[c + 1], bs[c + 1].emitted + 1, Len(bs[c + 1].snapshot))
      BY <1>2, <3>1
    <3> HIDE DEF t, u, part
    <3> QED
      BY <3>2, <3>3, <3>4, Zenon
  <2>2. ASSUME NEW k \in 2 .. m
        PROVE  u[k] = t[k]
    <3>1. k \in 1 .. m /\ k > 1
      BY <1>1
    <3>2. bs[c + k].emitted = 0
      BY <1>2, <3>1
    <3>3. u[k] = Told(bs[c + k], 1, Len(bs[c + k].snapshot))
          /\ t[k] = Told(bs[c + k], bs[c + k].emitted + 1, Len(bs[c + k].snapshot))
      BY <3>1 DEF Rest, Wholes
    <3>4. bs[c + k].emitted + 1 = 1
      BY <3>2
    <3> HIDE DEF t, u
    <3> QED
      BY <3>3, <3>4, Zenon
  <2> HIDE DEF t, u, part, m
  <2> QED
    BY <1>1, <1>3, <2>1, <2>2 DEF Fronted
<1>6. FlattenSeq(u) = part \o FlattenSeq(t)
  <2> HIDE DEF t, u, part
  <2> QED
    BY <1>3, <1>4, <1>5, FlattenFront
<1>7. s \in Seq(A) /\ v \in Seq(A)
  <2> HIDE DEF c
  <2> QED
    BY <1>1, PastType
<1>8. v = s \o u
  <2>1. Len(s) = c /\ Len(v) = n /\ Len(u) = m /\ n = c + m
    BY <1>1, <1>3
  <2>2. \A i \in 1 .. c : v[i] = s[i]
    BY <1>1
  <2>3. \A k \in 1 .. m : v[c + k] = u[k]
    <3>1. \A k \in 1 .. m : c + k \in 1 .. n
      BY <1>1
    <3> QED
      BY <3>1 DEF Wholes
  <2> HIDE DEF s, u, v, A, c, m, t
  <2>4. /\ Len(v) = Len(s) + Len(u)
        /\ \A k \in 1 .. Len(s) : v[k] = s[k]
        /\ \A k \in 1 .. Len(u) : v[Len(s) + k] = u[k]
    BY <2>1, <2>2, <2>3
  <2>5. s \in Seq(A) /\ u \in Seq(A) /\ v \in Seq(A)
    BY <1>3, <1>7
  <2> QED
    BY <2>4, <2>5, RowEqual
<1>9. Past(bs, n) = FlattenSeq(v) /\ Past(bs, c) = FlattenSeq(s)
  BY DEF Past
<1> HIDE DEF s, u, v, part, t, m, c, A
<1>10. FlattenSeq(v) = FlattenSeq(s) \o FlattenSeq(u)
  BY <1>3, <1>7, <1>8, FlattenBoth DEF A
<1>11. /\ FlattenSeq(s) \in Seq(Said) /\ part \in Seq(Said)
       /\ FlattenSeq(t) \in Seq(Said)
  BY <1>3, <1>4, <1>7, FlattenType DEF A
<1> DEFINE p == FlattenSeq(s)
           q == FlattenSeq(t)
<1> HIDE DEF p, q
<1>12. Past(bs, n) = p \o (part \o q)
  BY <1>6, <1>9, <1>10, Zenon DEF p, q
<1>13. p \o (part \o q) = (p \o part) \o q
  <2>1. p \in Seq(Said) /\ part \in Seq(Said) /\ q \in Seq(Said)
    BY <1>11 DEF p, q
  <2>2. Associative(Said)
    BY Associates
  <2> QED
    BY <2>1, <2>2, Zenon DEF Associative
<1>14. Story(bs, c) = p \o part
  BY <1>9 DEF Story, p, part
<1> QED
  BY <1>3, <1>12, <1>13, <1>14 DEF A, c, t, q

\* The rows that a retirement writes tell that.
LEMMA RestRows ==
    ASSUME NEW bs \in Seq(Block), NEW cm \in Seq(Seq(Lines)), Frontier(bs, cm),
           NEW n \in Len(cm) + 1 .. Len(bs), NEW ep \in Nat,
           NEW s, s = [k \in 1 .. n - Len(cm) |->
                          LET b == bs[Len(cm) + k] IN
                          Rows(b, b.emitted + 1, Len(b.snapshot), "Retire", ep)]
    PROVE  /\ FlattenSeq(s) \in Seq(RowOf(ep))
           /\ TextOf(FlattenSeq(s)) = FlattenSeq(Rest(bs, Len(cm), n))
<1> DEFINE c == Len(cm)
           m == n - c
           t == Rest(bs, c, n)
           A == Seq(RowOf(ep))
           x(k) == LET b == bs[c + k] IN
                   Rows(b, b.emitted + 1, Len(b.snapshot), "Retire", ep)
           y(k) == LET b == bs[c + k] IN
                   Told(b, b.emitted + 1, Len(b.snapshot))
<1>1. /\ c \in Nat /\ n \in Nat /\ m \in Nat /\ m > 0 /\ n <= Len(bs)
      /\ \A k \in 1 .. m : c + k \in 1 .. Len(bs)
  BY LenProperties
<1>2. ASSUME NEW k \in 1 .. m
      PROVE  x(k) \in A /\ TextOf(x(k)) = y(k)
  <2> DEFINE i == c + k
             b == bs[i]
             e == b.emitted
             l == Len(b.snapshot)
  <2>1. i \in 1 .. Len(bs)
    BY <1>1
  <2>2. b \in Block
    <3> HIDE DEF i
    <3> QED
      BY <2>1, LenProperties
  <2>3. e <= l
    <3> HIDE DEF i
    <3> QED
      BY <2>1 DEF Frontier
  <2>4. Spans(b, e + 1, l)
    <3>1. b.snapshot \in Seq(Lines) /\ b.emitted \in Nat
      <4> HIDE DEF b
      <4> QED
        BY <2>2 DEF Block
    <3> HIDE DEF b
    <3> QED
      BY <2>2, <3>1, SMTT(30) DEF Spans
  <2>5. "Retire" \in Sources
    BY DEF Sources
  <2> HIDE DEF b, e, l
  <2>6. /\ Rows(b, e + 1, l, "Retire", ep) \in Seq(RowOf(ep))
        /\ TextOf(Rows(b, e + 1, l, "Retire", ep)) = Told(b, e + 1, l)
    BY <2>4, <2>5, RowsTell
  <2> QED
    BY <2>6 DEF b, e, l
<1>3. s = [k \in 1 .. m |-> x(k)] /\ t = [k \in 1 .. m |-> y(k)]
  BY DEF Rest
<1>4. t \in Seq(Seq(Said))
  <2> HIDE DEF t
  <2> QED
    BY RestStory DEF t
<1> HIDE DEF x, y, t, m, A
<1>5. s \in Seq(A) /\ Len(s) = m
  <2>1. \A k \in 1 .. m : x(k) \in A
    BY <1>2
  <2>2. m \in Nat
    BY <1>1
  <2> DEFINE f == [k \in 1 .. m |-> x(k)]
  <2>3. f \in Seq(A) /\ Len(f) = m
    BY ONLY <2>1, <2>2
  <2> QED
    BY <1>3, <2>3, Zenon
<1>6. Len(t) = m /\ \A k \in 1 .. m : t[k] = TextOf(s[k])
  BY <1>1, <1>2, <1>3
<1>7. s \in Seq(Seq(Row))
  <2>1. A \in SUBSET Seq(Row)
    BY Narrow DEF A, RowOf
  <2> QED
    BY <1>5, <2>1, Narrow
<1>8. Tells(s, t)
  BY <1>4, <1>5, <1>6, <1>7 DEF Tells
<1>9. TextOf(FlattenSeq(s)) = FlattenSeq(t)
  BY <1>8, FlattenTells
<1>10. FlattenSeq(s) \in Seq(RowOf(ep))
  BY <1>5, FlattenType DEF A
<1> QED
  BY <1>9, <1>10 DEF t

\* A replay tells what the ledger does.
LEMMA ReplayStory ==
    ASSUME blocks \in Seq(Block), committed \in Seq(Seq(Lines)),
           Frontier(blocks, committed), NEW ep \in Nat
    PROVE  /\ Replayed(ep) \in Seq(RowOf(ep))
           /\ TextOf(Replayed(ep)) = Story(blocks, Len(committed))
<1> DEFINE c == Len(committed)
           h == c + 1
           n == Len(blocks)
           A == Seq(RowOf(ep))
           B == Seq(Said)
           part == Part(blocks, h)
           x(i) == LET b == blocks[i] IN
             CASE i < h -> Rows(b, 1, Len(b.snapshot), "Replay", ep)
               [] i = h /\ IsPainted(b) /\ b.mode = "AppendOnly" ->
                    Rows(b, 1, Least(b.emitted, Len(b.snapshot)), "Replay", ep)
               [] OTHER -> <<>>
           y(i) == IF i <= c THEN Told(blocks[i], 1, Len(blocks[i].snapshot))
                   ELSE IF i = h THEN part ELSE <<>>
           w == [i \in DOMAIN blocks |-> x(i)]
           t == [i \in 1 .. n |-> y(i)]
<1>1. c \in Nat /\ n \in Nat /\ c <= n /\ DOMAIN blocks = 1 .. n /\ c \in 0 .. n
      /\ "Replay" \in Sources
  BY LenProperties DEF Frontier, Sources
<1>2. part \in B
  BY PartType
<1>3. TextOf(<<>>) = <<>> /\ <<>> \in A /\ <<>> \in B
  <2>1. <<>> \in Seq(Row) /\ \A k \in DOMAIN <<>> : <<>>[k].block = NoBlock
    OBVIOUS
  <2>2. TextOf(<<>>) = <<>>
    BY <2>1, TextNone
  <2>3. <<>> \in A /\ <<>> \in B
    OBVIOUS
  <2> QED
    BY <2>2, <2>3
<1>4. ASSUME NEW i \in 1 .. n
      PROVE  x(i) \in A /\ y(i) \in B /\ TextOf(x(i)) = y(i)
  <2> DEFINE b == blocks[i]
             e == b.emitted
             l == Len(b.snapshot)
  <2>1. b \in Block
    BY LenProperties
  <2>2. e <= l /\ (e > 0 => i = h /\ IsPainted(b) /\ b.mode = "AppendOnly")
    BY DEF Frontier
  <2>3. e \in Nat /\ l \in Nat
    <3> HIDE DEF b
    <3> QED
      BY <2>1 DEF Block
  <2>4. Spans(b, 1, l) /\ Spans(b, 1, e)
    <3> HIDE DEF b, e
    <3> QED
      BY <2>1, <2>2, <2>3 DEF Spans, l
  <2>5. /\ Rows(b, 1, l, "Replay", ep) \in A /\ Told(b, 1, l) \in B
        /\ TextOf(Rows(b, 1, l, "Replay", ep)) = Told(b, 1, l)
        /\ Rows(b, 1, e, "Replay", ep) \in A /\ Told(b, 1, e) \in B
        /\ TextOf(Rows(b, 1, e, "Replay", ep)) = Told(b, 1, e)
    <3> HIDE DEF b, e, l
    <3> QED
      BY <1>1, <2>4, RowsTell, ToldType
  <2>6. CASE i <= c
    <3>1. i < h /\ ~(i = h)
      BY <1>1, <2>6
    <3>2. x(i) = Rows(b, 1, l, "Replay", ep) /\ y(i) = Told(b, 1, l)
      BY <2>6, <3>1
    <3> QED
      BY <2>5, <3>2
  <2>7. CASE i = h
    <3>1. ~(i < h) /\ ~(i <= c) /\ i \in DOMAIN blocks
      BY <1>1, <2>7
    <3>2. y(i) = Told(b, 1, e)
      BY <2>7, <3>1 DEF Part
    <3>3. Least(e, l) = e
      <4> HIDE DEF e, l
      <4> QED
        BY <2>2, <2>3 DEF Least
    <3>4. CASE IsPainted(b) /\ b.mode = "AppendOnly"
      <4>1. x(i) = Rows(b, 1, Least(e, l), "Replay", ep)
        BY <2>7, <3>1, <3>4
      <4> QED
        BY <2>5, <3>2, <3>3, <4>1
    <3>5. CASE ~(IsPainted(b) /\ b.mode = "AppendOnly")
      <4>1. x(i) = <<>>
        BY <3>1, <3>5
      <4>2. e = 0
        BY <2>2, <2>3, <3>5
      <4>3. Told(b, 1, e) = <<>>
        <5> HIDE DEF b, e, l
        <5> QED
          BY <2>4, <4>2, ToldFirst
      <4> QED
        BY <1>3, <3>2, <4>1, <4>3
    <3> QED
      BY <3>4, <3>5
  <2>8. CASE ~(i <= c) /\ ~(i = h)
    <3>1. ~(i < h)
      BY <1>1, <2>8
    <3>2. x(i) = <<>> /\ y(i) = <<>>
      BY <2>8, <3>1
    <3> QED
      BY <1>3, <3>2
  <2> QED
    BY <2>6, <2>7, <2>8
<1>5. Replayed(ep) = FlattenSeq(w)
  BY DEF Replayed, Head1
<1> DEFINE s == [i \in 1 .. c |-> Told(blocks[i], 1, Len(blocks[i].snapshot))]
           v == [k \in 1 .. n - c |-> IF k = 1 THEN part ELSE <<>>]
           o == [k \in 1 .. n - c |-> <<>>]
<1>6. Len(s) = c /\ \A i \in 1 .. c : s[i] = y(i)
  BY <1>1
<1>7. \A k \in 1 .. n - c : y(c + k) = IF k = 1 THEN part ELSE <<>>
  BY <1>1
<1>8. s \in Seq(B)
  BY <1>1, PastType
<1> HIDE DEF x, y, A, B, part, h
<1>9. n - c \in Nat
  BY <1>1
<1>10. w \in Seq(A) /\ Len(w) = n /\ t \in Seq(B) /\ Len(t) = n
       /\ \A i \in 1 .. n : w[i] = x(i) /\ t[i] = y(i)
  BY <1>1, <1>4
<1>11. /\ v \in Seq(B) /\ Len(v) = n - c /\ o \in Seq(B) /\ Len(o) = n - c
       /\ \A k \in 1 .. n - c : v[k] = (IF k = 1 THEN part ELSE <<>>) /\ o[k] = <<>>
  BY <1>2, <1>3, <1>9
<1> HIDE DEF w, t, s, v, o
<1>12. t = s \o v
  <2>1. \A i \in 1 .. c : i \in 1 .. n
    BY <1>1
  <2>2. \A k \in 1 .. n - c : c + k \in 1 .. n
    BY <1>1
  <2>3. Len(t) = Len(s) + Len(v)
    BY <1>1, <1>6, <1>10, <1>11
  <2>4. \A k \in 1 .. Len(s) : t[k] = s[k]
    BY <1>6, <1>10, <2>1
  <2>5. \A k \in 1 .. Len(v) : t[Len(s) + k] = v[k]
    <3> SUFFICES ASSUME NEW k \in 1 .. n - c
                 PROVE  t[c + k] = v[k]
      BY <1>6, <1>11
    <3>1. t[c + k] = y(c + k)
      BY <1>10, <2>2
    <3>2. y(c + k) = IF k = 1 THEN part ELSE <<>>
      BY <1>7
    <3>3. v[k] = IF k = 1 THEN part ELSE <<>>
      BY <1>11
    <3> QED
      BY <3>1, <3>2, <3>3, Zenon
  <2> QED
    BY <1>8, <1>10, <1>11, <2>3, <2>4, <2>5, RowEqual
<1>13. FlattenSeq(v) = part
  <2>1. FlattenSeq(o) = <<>>
    BY <1>11, FlattenEmpty DEF B
  <2>2. CASE n = c
    <3>1. \A k \in 1 .. Len(v) : v[k] = <<>>
      BY <1>1, <1>11, <2>2
    <3>2. FlattenSeq(v) = <<>>
      BY <1>11, <3>1, FlattenEmpty DEF B
    <3>3. h \notin DOMAIN blocks
      BY <1>1, <2>2 DEF h
    <3> QED
      BY <3>2, <3>3 DEF part, Part
  <2>3. CASE n # c
    <3>1. part \o <<>> = part /\ part \in Seq(Said)
      BY <1>2 DEF B
    <3>2. n - c > 0 /\ 1 \in 1 .. n - c
          /\ \A k \in 2 .. n - c : k # 1 /\ k \in 1 .. n - c
      BY <1>1, <2>3
    <3>3. v[1] = part /\ o[1] = <<>> /\ \A k \in 2 .. n - c : v[k] = o[k]
      BY <1>11, <3>2
    <3>4. Fronted(Said, part, o, v)
      BY <1>11, <3>1, <3>2, <3>3 DEF Fronted
    <3>5. FlattenSeq(v) = part \o FlattenSeq(o)
      BY <1>11, <3>1, <3>4, FlattenFront DEF B
    <3> QED
      BY <2>1, <3>1, <3>5
  <2> QED
    BY <2>2, <2>3
<1>14. FlattenSeq(t) = Story(blocks, c)
  <2>1. FlattenSeq(t) = FlattenSeq(s) \o FlattenSeq(v)
    BY <1>8, <1>11, <1>12, FlattenBoth DEF B
  <2>2. Past(blocks, c) = FlattenSeq(s)
    BY DEF Past, s
  <2> QED
    BY <1>13, <2>1, <2>2 DEF Story, part, h
<1>15. w \in Seq(Seq(Row))
  <2>1. A \in SUBSET Seq(Row)
    BY Narrow DEF A, RowOf
  <2> QED
    BY <1>10, <2>1, Narrow
<1>16. Tells(w, t)
  BY <1>4, <1>10, <1>15 DEF Tells, B
<1>17. TextOf(FlattenSeq(w)) = FlattenSeq(t)
  BY <1>16, FlattenTells
<1>18. FlattenSeq(w) \in Seq(RowOf(ep))
  BY <1>10, FlattenType DEF A
<1> QED
  BY <1>5, <1>14, <1>17, <1>18

-----------------------------------------------------------------------------
(* The inductive invariant. *)

\* The scrollback is the end of what the blocks tell.
HistoryInv == History(scrollback, Story(blocks, Len(committed)))

\* No row is of another epoch.
EpochInv == scrollback \in Seq(RowOf(epoch)) /\ viewport \in Seq(RowOf(epoch))

\* It holds in every state, and every step keeps it.
IInv == TypeOK /\ Frontier(blocks, committed) /\ HistoryInv /\ EpochInv

\* A step only adds to what is told.
Grown ==
    \E more \in Seq(Said) :
      Story(blocks', Len(committed')) = Story(blocks, Len(committed)) \o more

\* One that tells the same does.
LEMMA SameGrown ==
    ASSUME IInv, Story(blocks', Len(committed')) = Story(blocks, Len(committed))
    PROVE  Grown
<1> DEFINE old == Story(blocks, Len(committed))
<1>1. old \in Seq(Said)
  BY StoryType DEF IInv, TypeOK
<1> HIDE DEF old
<1>2. old = old \o <<>> /\ <<>> \in Seq(Said)
  BY <1>1
<1>3. Story(blocks', Len(committed')) = old
  BY DEF old
<1> QED
  BY <1>2, <1>3, Zenon DEF Grown, old

\* What a step leaves that it does not refresh.
SettingsTyped ==
    /\ height' \in Heights /\ target' \in Heights /\ epoch' \in Nat
    /\ gate' \in {"Idle", "Preparing", "FailedStop"}
    /\ forensic' \in Seq(Row) /\ resizes' \in Nat

\* Rows of an epoch are rows.
LEMMA EpochRows ==
    ASSUME NEW ep, NEW rows \in Seq(RowOf(ep))
    PROVE  rows \in Seq(Row)
<1>1. RowOf(ep) \in SUBSET Row
  BY DEF RowOf
<1> QED
  BY <1>1, Narrow

\* A step that ends with a refresh keeps the invariant.
LEMMA Repaints ==
    ASSUME NEW cs \in Seq(Block), NEW cm \in Seq(Seq(Lines)), Frontier(cs, cm),
           NEW sb \in Seq(RowOf(epoch')), History(sb, Story(cs, Len(cm))),
           Refresh(cs, sb, height', epoch'),
           scrollback' = sb, committed' = cm, SettingsTyped
    PROVE  IInv' /\ Story(blocks', Len(committed')) = Story(cs, Len(cm))
<1>1. height' \in Nat /\ epoch' \in Nat
  BY TranscriptAssumption DEF SettingsTyped
<1>2. /\ blocks' \in Seq(Block) /\ Alike(blocks', cs)
      /\ viewport' \in Seq(RowOf(epoch'))
  <2> DEFINE h == height'
             ep == epoch'
  <2>1. Refresh(cs, sb, h, ep) /\ h \in Nat /\ ep \in Nat /\ sb \in Seq(RowOf(ep))
    BY <1>1
  <2> HIDE DEF h, ep
  <2>2. /\ blocks' \in Seq(Block) /\ Alike(blocks', cs)
        /\ viewport' \in Seq(RowOf(ep))
    BY <2>1, Refreshed
  <2> QED
    BY <2>2 DEF ep
<1>3. Frontier(blocks', cm) /\ Story(blocks', Len(cm)) = Story(cs, Len(cm))
  <2> DEFINE bs == blocks'
  <2>1. bs \in Seq(Block) /\ Alike(bs, cs)
    BY <1>2
  <2> HIDE DEF bs
  <2>2. Frontier(bs, cm) /\ Story(bs, Len(cm)) = Story(cs, Len(cm))
    BY <2>1, AlikeKeeps
  <2> QED
    BY <2>2 DEF bs
<1>4. scrollback' \in Seq(Row) /\ viewport' \in Seq(Row)
  BY <1>2, EpochRows
<1>5. TypeOK'
  BY <1>2, <1>4 DEF TypeOK, SettingsTyped
<1>6. Frontier(blocks', committed') /\ HistoryInv'
  BY <1>3 DEF HistoryInv
<1>7. EpochInv'
  BY <1>2 DEF EpochInv
<1> QED
  BY <1>3, <1>5, <1>6, <1>7 DEF IInv

\* So does one that keeps what the ledger says of the blocks and the rows.
LEMMA Stays ==
    ASSUME IInv, blocks' \in Seq(Block), Keeps(blocks, blocks', committed),
           UNCHANGED <<committed, scrollback, epoch>>,
           viewport' = viewport \/ viewport' = <<>>, SettingsTyped
    PROVE  IInv' /\ Grown
<1>1. /\ TypeOK /\ Frontier(blocks, committed) /\ HistoryInv /\ EpochInv
      /\ blocks \in Seq(Block) /\ committed \in Seq(Seq(Lines))
  BY DEF IInv, TypeOK
<1>2. /\ Frontier(blocks', committed)
      /\ Story(blocks', Len(committed)) = Story(blocks, Len(committed))
  <2> DEFINE bs == blocks'
  <2>1. bs \in Seq(Block) /\ Keeps(blocks, bs, committed)
    OBVIOUS
  <2> HIDE DEF bs
  <2>2. /\ Frontier(bs, committed)
        /\ Story(bs, Len(committed)) = Story(blocks, Len(committed))
    BY <1>1, <2>1, KeptStory
  <2> QED
    BY <2>2 DEF bs
<1>3. <<>> \in Seq(RowOf(epoch)) /\ <<>> \in Seq(Row)
  OBVIOUS
<1>4. TypeOK'
  BY <1>1, <1>3 DEF TypeOK, SettingsTyped
<1>5. EpochInv'
  BY <1>1, <1>3 DEF EpochInv
<1>6. Frontier(blocks', committed') /\ HistoryInv'
  BY <1>1, <1>2 DEF HistoryInv
<1>7. Grown
  BY <1>2, SameGrown
<1> QED
  BY <1>4, <1>5, <1>6, <1>7 DEF IInv

\* A refresh of blocks that tell the same, with the rows as they are.
LEMMA StaysPainted ==
    ASSUME IInv, NEW cs \in Seq(Block), Keeps(blocks, cs, committed),
           UNCHANGED <<committed, scrollback, epoch>>,
           Refresh(cs, scrollback, height', epoch), SettingsTyped
    PROVE  IInv' /\ Grown
<1>1. /\ TypeOK /\ Frontier(blocks, committed) /\ HistoryInv /\ EpochInv
      /\ blocks \in Seq(Block) /\ committed \in Seq(Seq(Lines))
  BY DEF IInv, TypeOK
<1>2. Frontier(cs, committed) /\ Story(cs, Len(committed)) = Story(blocks, Len(committed))
  BY <1>1, KeptStory
<1>3. scrollback \in Seq(RowOf(epoch')) /\ History(scrollback, Story(cs, Len(committed)))
      /\ Refresh(cs, scrollback, height', epoch')
  BY <1>1, <1>2 DEF EpochInv, HistoryInv
<1>4. IInv' /\ Story(blocks', Len(committed')) = Story(cs, Len(committed))
  BY <1>1, <1>2, <1>3, Repaints
<1>5. Grown
  BY <1>2, <1>4, SameGrown
<1> QED
  BY <1>4, <1>5

\* A refresh of blocks that tell more, which the scrollback is given.
LEMMA TellsMore ==
    ASSUME IInv, NEW cs \in Seq(Block), NEW cm \in Seq(Seq(Lines)), Frontier(cs, cm),
           NEW more \in Seq(RowOf(epoch)),
           Story(cs, Len(cm)) = Story(blocks, Len(committed)) \o TextOf(more),
           scrollback' = Ring(scrollback \o more), committed' = cm, epoch' = epoch,
           Refresh(cs, Ring(scrollback \o more), height', epoch), SettingsTyped
    PROVE  IInv' /\ Grown
<1> DEFINE old == Story(blocks, Len(committed))
           sb == Ring(scrollback \o more)
           rows == scrollback \o more
<1>1. /\ TypeOK /\ HistoryInv /\ EpochInv /\ old \in Seq(Said)
      /\ scrollback \in Seq(Row) /\ scrollback \in Seq(RowOf(epoch))
  BY StoryType DEF IInv, TypeOK, EpochInv
<1>2. more \in Seq(Row)
  BY EpochRows
<1>3. TextOf(more) \in Seq(Said)
  BY <1>2, TextType
<1>4. History(sb, old \o TextOf(more))
  <2>1. History(scrollback, old)
    BY <1>1 DEF HistoryInv
  <2> HIDE DEF old
  <2> QED
    BY <1>1, <1>2, <2>1, Pushed
<1>5. sb \in Seq(RowOf(epoch))
  <2>1. rows \in Seq(RowOf(epoch))
    BY <1>1, RowType
  <2> HIDE DEF rows
  <2>2. Ring(rows) \in Seq(RowOf(epoch))
    BY <2>1, RingKeeps
  <2> QED
    BY <2>2 DEF rows
<1>6. /\ sb \in Seq(RowOf(epoch')) /\ History(sb, Story(cs, Len(cm)))
      /\ Refresh(cs, sb, height', epoch') /\ scrollback' = sb
  BY <1>4, <1>5
<1> HIDE DEF sb, old
<1>7. IInv' /\ Story(blocks', Len(committed')) = Story(cs, Len(cm))
  BY <1>6, Repaints
<1>8. Grown
  BY <1>3, <1>7, Zenon DEF Grown
<1> QED
  BY <1>7, <1>8

-----------------------------------------------------------------------------
(* Every step keeps it. *)

\* What the invariant says of the variables.
LEMMA Known ==
    ASSUME IInv
    PROVE  /\ blocks \in Seq(Block) /\ committed \in Seq(Seq(Lines))
           /\ Len(blocks) \in Nat /\ Len(committed) \in Nat
           /\ DOMAIN blocks = 1 .. Len(blocks)
           /\ Len(committed) <= Len(blocks) /\ Frontier(blocks, committed)
           /\ epoch \in Nat /\ height \in Heights /\ height \in Nat
           /\ scrollback \in Seq(RowOf(epoch))
           /\ History(scrollback, Story(blocks, Len(committed)))
BY LenProperties, TranscriptAssumption
   DEF IInv, TypeOK, HistoryInv, EpochInv, Frontier

\* A block in the place of another.
LEMMA Replaced ==
    ASSUME NEW S, NEW s \in Seq(S), NEW i \in 1 .. Len(s), NEW e \in S
    PROVE  /\ [s EXCEPT ![i] = e] \in Seq(S) /\ Len([s EXCEPT ![i] = e]) = Len(s)
           /\ [s EXCEPT ![i] = e][i] = e
           /\ \A k \in 1 .. Len(s) : k # i => [s EXCEPT ![i] = e][k] = s[k]
OBVIOUS

\* b may be in the place of the block at i.
Renews(i, b) ==
    /\ b.id = blocks[i].id /\ b.mode = blocks[i].mode
    /\ b.emitted = blocks[i].emitted /\ b.emitted <= Len(b.snapshot)
    /\ b.state = "Committed" <=> blocks[i].state = "Committed"
    /\ IsPainted(blocks[i]) => IsPainted(b)
    /\ i <= Len(committed) => b.snapshot = blocks[i].snapshot
    /\ \A k \in 1 .. blocks[i].emitted : b.snapshot[k] = blocks[i].snapshot[k]

\* Then the ledger is kept.
LEMMA OneKept ==
    ASSUME IInv, NEW i \in 1 .. Len(blocks), NEW b \in Block, Renews(i, b),
           NEW cs, cs = [blocks EXCEPT ![i] = b]
    PROVE  cs \in Seq(Block) /\ Keeps(blocks, cs, committed)
<1>1. /\ blocks \in Seq(Block) /\ Len(blocks) \in Nat
      /\ \A k \in 1 .. Len(blocks) : blocks[k].emitted <= Len(blocks[k].snapshot)
  BY Known DEF Frontier
<1>2. /\ cs \in Seq(Block) /\ Len(cs) = Len(blocks) /\ cs[i] = b
      /\ \A k \in 1 .. Len(blocks) : k # i => cs[k] = blocks[k]
  BY <1>1, Replaced
<1>3. ASSUME NEW k \in 1 .. Len(blocks)
      PROVE  /\ cs[k].id = blocks[k].id /\ cs[k].mode = blocks[k].mode
             /\ cs[k].emitted = blocks[k].emitted
             /\ cs[k].emitted <= Len(cs[k].snapshot)
             /\ cs[k].state = "Committed" <=> blocks[k].state = "Committed"
             /\ IsPainted(blocks[k]) => IsPainted(cs[k])
             /\ k <= Len(committed) => cs[k].snapshot = blocks[k].snapshot
             /\ \A j \in 1 .. blocks[k].emitted :
                  cs[k].snapshot[j] = blocks[k].snapshot[j]
  <2>1. CASE k = i
    BY <1>2, <2>1 DEF Renews
  <2>2. CASE k # i
    BY <1>1, <1>2, <2>2
  <2> QED
    BY <2>1, <2>2
<1>4. Keeps(blocks, cs, committed)
  <2>1. Len(blocks) <= Len(cs)
    BY <1>1, <1>2
  <2>2. \A k \in Len(blocks) + 1 .. Len(cs) : FALSE
    BY <1>1, <1>2
  <2> QED
    BY <1>3, <2>1, <2>2 DEF Keeps
<1> QED
  BY <1>2, <1>4

\* The blocks as they are keep it.
LEMMA AllKept ==
    ASSUME IInv
    PROVE  Keeps(blocks, blocks, committed)
BY Known DEF Keeps, Frontier

\* A block that is admitted tells nothing yet.
LEMMA AdmitInv ==
    ASSUME IInv, NEW id \in Ids, NEW mode \in Modes, Admit(id, mode)
    PROVE  IInv' /\ Grown
<1> DEFINE new == [id |-> id, mode |-> mode, state |-> "Queued", snapshot |-> <<>>,
                   emitted |-> 0, reserved |-> 0, rendered |-> 0]
           cs == Append(blocks, new)
<1>1. /\ blocks' = cs /\ UNCHANGED <<committed, scrollback, epoch>>
      /\ viewport' = viewport /\ SettingsTyped
  BY DEF Admit, IInv, TypeOK, SettingsTyped
<1>2. new \in Block /\ new.emitted = 0 /\ new.state = "Queued"
  <2>1. <<>> \in Seq(Lines)
    OBVIOUS
  <2> QED
    BY <2>1 DEF Block, Modes
<1> HIDE DEF new
<1>3. /\ cs \in Seq(Block) /\ Len(cs) = Len(blocks) + 1 /\ cs[Len(blocks) + 1] = new
      /\ \A k \in 1 .. Len(blocks) : cs[k] = blocks[k]
  <2>1. blocks \in Seq(Block) /\ Len(blocks) \in Nat
    BY Known
  <2> QED
    BY <1>2, <2>1
<1> HIDE DEF cs
<1>4. Keeps(blocks, cs, committed)
  <2>1. Len(blocks) <= Len(cs) /\ Len(blocks) \in Nat
    BY <1>3, Known
  <2>2. \A k \in Len(blocks) + 1 .. Len(cs) : cs[k].emitted = 0 /\ cs[k].state = "Queued"
    <3>1. \A k \in Len(blocks) + 1 .. Len(cs) : k = Len(blocks) + 1
      BY <1>3, <2>1
    <3> QED
      BY <1>2, <1>3, <3>1
  <2> QED
    BY <1>3, <2>1, <2>2, AllKept DEF Keeps
<1> QED
  BY <1>1, <1>3, <1>4, Stays

\* Activation and finalization change a state that the ledger does not tell
\* apart.
LEMMA StateInv ==
    ASSUME IInv, NEW i \in DOMAIN blocks, NEW state \in {"Active", "Finalized"},
           blocks[i].state # "Committed",
           blocks' = [blocks EXCEPT ![i].state = state],
           UNCHANGED <<committed, scrollback, viewport, height, epoch, gate, target,
                       forensic, resizes>>
    PROVE  IInv' /\ Grown
<1> DEFINE b == [blocks[i] EXCEPT !.state = state]
<1>1. i \in 1 .. Len(blocks) /\ blocks[i] \in Block
  BY Known, LenProperties
<1>2. /\ blocks' = [blocks EXCEPT ![i] = b] /\ viewport' = viewport
      /\ UNCHANGED <<committed, scrollback, epoch>> /\ SettingsTyped
  BY DEF IInv, TypeOK, SettingsTyped
<1>3. b \in Block /\ Renews(i, b)
  <2>1. b \in Block
    BY <1>1 DEF Block
  <2>2. /\ b.id = blocks[i].id /\ b.mode = blocks[i].mode
        /\ b.emitted = blocks[i].emitted /\ b.snapshot = blocks[i].snapshot
        /\ b.state = state
    BY <1>1 DEF Block
  <2>3. blocks[i].emitted <= Len(blocks[i].snapshot)
    BY <1>1, Known DEF Frontier
  <2> HIDE DEF b
  <2> QED
    BY <1>1, <2>1, <2>2, <2>3 DEF Renews, IsPainted
<1> HIDE DEF b
<1>4. blocks' \in Seq(Block) /\ Keeps(blocks, blocks', committed)
  BY <1>1, <1>2, <1>3, OneKept
<1> QED
  BY <1>2, <1>4, Stays

\* A snapshot is a sequence of lines.
LEMMA SnapshotType ==
    ASSUME NEW lines \in Snapshots
    PROVE  lines \in Seq(Lines) /\ Len(lines) \in Nat
BY TranscriptAssumption

\* The rows a block keeps when it shrinks.
LEMMA BridgeType ==
    ASSUME NEW a \in Nat, NEW b \in Nat
    PROVE  Bridge(a, b) \in Nat
BY DEF Bridge, Monus, Most

\* An update keeps the lines that have been streamed: only an append-only block
\* streams, and it takes no other update.
LEMMA UpdateInv ==
    ASSUME IInv, NEW i \in DOMAIN blocks, NEW lines \in Snapshots, Update(i, lines)
    PROVE  IInv' /\ Grown
<1> DEFINE old == blocks[i]
           r == Bridge(old.rendered, Monus(Len(lines), old.emitted))
           b == [old EXCEPT !.snapshot = lines, !.rendered = r]
           cs == [blocks EXCEPT ![i] = b]
<1>1. /\ i \in 1 .. Len(blocks) /\ old \in Block /\ lines \in Seq(Lines)
      /\ Len(lines) \in Nat
  BY Known, LenProperties, SnapshotType
<1>2. /\ old.state \in {"Queued", "Active"}
      /\ old.mode = "AppendOnly" => IsPrefix(old.snapshot, lines)
  BY DEF Update
<1>3. /\ Refresh(cs, scrollback, height', epoch)
      /\ UNCHANGED <<committed, scrollback, epoch>> /\ SettingsTyped
  <2>1. /\ Refresh([blocks EXCEPT ![i].snapshot = lines, ![i].rendered = r],
                   scrollback, height, epoch)
        /\ UNCHANGED <<committed, scrollback, height, epoch, gate, target,
                       forensic, resizes>>
    BY DEF Update
  <2>2. [blocks EXCEPT ![i].snapshot = lines, ![i].rendered = r] = cs
    <3> HIDE DEF r
    <3> QED
      BY <1>1, Known
  <2>3. SettingsTyped
    BY <2>1 DEF IInv, TypeOK, SettingsTyped
  <2> HIDE DEF cs, r
  <2> QED
    BY <2>1, <2>2, <2>3
<1>4. old.rendered \in Nat /\ old.emitted \in Nat /\ old.snapshot \in Seq(Lines)
      /\ Len(old.snapshot) \in Nat
  BY <1>1 DEF Block
<1>5. /\ old.emitted <= Len(old.snapshot)
      /\ old.state = "Committed" <=> i <= Len(committed)
      /\ old.emitted > 0 => old.mode = "AppendOnly"
  BY <1>1, Known DEF Frontier
<1> HIDE DEF old
<1>6. r \in Nat
  <2> DEFINE n == Len(lines)
             e == old.emitted
             d == Monus(n, e)
  <2>1. n \in Nat /\ e \in Int
    BY <1>1, <1>4
  <2> HIDE DEF n, e
  <2>2. d \in Nat
    BY <2>1, MonusType
  <2> HIDE DEF d
  <2>3. Bridge(old.rendered, d) \in Nat
    BY <1>4, <2>2, BridgeType
  <2> QED
    BY <2>3 DEF d, n, e
<1> HIDE DEF r
<1>7. b \in Block
  BY <1>1, <1>6 DEF Block
<1>8. /\ b.id = old.id /\ b.mode = old.mode /\ b.emitted = old.emitted
      /\ b.state = old.state /\ b.snapshot = lines
  BY <1>1 DEF Block
<1> HIDE DEF b
<1>9. old.emitted <= Len(lines) /\ \A k \in 1 .. old.emitted : lines[k] = old.snapshot[k]
  <2>1. CASE old.emitted = 0
    BY <1>1, <2>1
  <2>2. CASE old.emitted > 0
    <3> DEFINE n == Len(old.snapshot)
    <3>1. n <= Len(lines) /\ SubSeq(old.snapshot, 1, n) = SubSeq(lines, 1, n)
      BY <1>2, <1>5, <2>2 DEF IsPrefix
    <3>2. \A k \in 1 .. n : SubSeq(old.snapshot, 1, n)[k] = old.snapshot[k]
                            /\ SubSeq(lines, 1, n)[k] = lines[k]
      <4> HIDE DEF n
      <4>1. n \in Nat /\ n = Len(old.snapshot)
        BY <1>4 DEF n
      <4> QED
        BY <1>1, <1>4, <3>1, <4>1
    <3>3. old.emitted <= n
      BY <1>5
    <3>4. n \in Nat
      BY <1>4
    <3> HIDE DEF n
    <3>5. \A k \in 1 .. old.emitted : k \in 1 .. n
      BY <1>4, <3>3, <3>4
    <3>6. \A k \in 1 .. n : lines[k] = old.snapshot[k]
      BY <3>1, <3>2
    <3> QED
      BY <1>1, <1>4, <3>1, <3>3, <3>4, <3>5, <3>6
  <2> QED
    BY <1>4, <2>1, <2>2
<1>10. ~(i <= Len(committed))
  BY <1>2, <1>5
<1>11. Renews(i, b)
  BY <1>2, <1>8, <1>9, <1>10 DEF Renews, IsPainted, old
<1>12. cs \in Seq(Block) /\ Keeps(blocks, cs, committed)
  <2> HIDE DEF cs
  <2> QED
    BY <1>1, <1>7, <1>11, OneKept DEF cs
<1> HIDE DEF cs
<1> QED
  BY <1>3, <1>12, StaysPainted

\* What is streamed is what the scrollback is given.
LEMMA StreamInv ==
    ASSUME IInv, NEW i \in DOMAIN blocks, NEW stable \in Nat, Stream(i, stable)
    PROVE  IInv' /\ Grown
<1> DEFINE c == Len(committed)
           old == blocks[i]
           l == Len(old.snapshot)
           e == old.emitted
           p == Most(e, Least(stable, l))
           more == Rows(old, e + 1, p, "Append", epoch)
           sb == Ring(scrollback \o more)
           r == Least(old.rendered, Monus(l, p))
           b == [old EXCEPT !.emitted = p, !.rendered = r]
           cs == [blocks EXCEPT ![i] = b]
<1>1. /\ i \in 1 .. Len(blocks) /\ old \in Block /\ Len(blocks) \in Nat
      /\ c \in Nat /\ c <= Len(blocks)
  BY Known, LenProperties
<1>2. /\ e \in Nat /\ l \in Nat /\ e <= l /\ old.rendered \in Nat
      /\ old.snapshot \in Seq(Lines)
      /\ old.state = "Committed" <=> i <= c
  <2>1. e <= l /\ (old.state = "Committed" <=> i <= c)
    BY <1>1, Known DEF Frontier
  <2> HIDE DEF old
  <2> QED
    BY <1>1, <2>1 DEF Block
<1>3. i = c + 1 /\ IsPainted(old) /\ old.mode = "AppendOnly"
  BY DEF Stream, Head1
<1>4. p \in Nat /\ e <= p /\ p <= l
  <2> HIDE DEF e, l
  <2> QED
    BY <1>2 DEF Most, Least
<1>5. /\ scrollback' = sb /\ committed' = committed /\ epoch' = epoch
      /\ Refresh(cs, sb, height', epoch) /\ SettingsTyped
  <2>1. /\ scrollback' = sb
        /\ Refresh([blocks EXCEPT ![i].emitted = p, ![i].rendered = r],
                   sb, height, epoch)
        /\ UNCHANGED <<committed, height, epoch, gate, target, forensic, resizes>>
    BY DEF Stream
  <2>2. [blocks EXCEPT ![i].emitted = p, ![i].rendered = r] = cs
    <3> HIDE DEF p, r
    <3> QED
      BY <1>1, Known
  <2>3. SettingsTyped
    BY <2>1 DEF IInv, TypeOK, SettingsTyped
  <2> HIDE DEF cs, r, p, sb
  <2> QED
    BY <2>1, <2>2, <2>3
<1>6. r \in Nat
  <2>1. l \in Nat /\ p \in Int
    BY <1>2, <1>4
  <2> DEFINE d == Monus(l, p)
  <2> HIDE DEF l, p
  <2>2. d \in Nat
    BY <2>1, MonusType
  <2> HIDE DEF d
  <2>3. Least(old.rendered, d) \in Nat
    BY <1>2, <2>2 DEF Least
  <2> QED
    BY <2>3 DEF d
<1> HIDE DEF old, r, p
<1>7. b \in Block
  BY <1>1, <1>4, <1>6 DEF Block
<1>8. /\ b.id = old.id /\ b.mode = old.mode /\ b.emitted = p
      /\ b.state = old.state /\ b.snapshot = old.snapshot
  BY <1>1 DEF Block
<1> HIDE DEF b
<1>9. /\ cs \in Seq(Block) /\ Len(cs) = Len(blocks) /\ cs[i] = b
      /\ \A k \in 1 .. Len(blocks) : k # i => cs[k] = blocks[k]
  BY <1>1, <1>7, Known, Replaced
<1> HIDE DEF cs
<1>10. Frontier(cs, committed)
  <2>1. ASSUME NEW k \in 1 .. Len(blocks)
        PROVE  /\ cs[k].emitted <= Len(cs[k].snapshot)
               /\ cs[k].state = "Committed" <=> k <= Len(committed)
               /\ k <= Len(committed) => cs[k].snapshot = committed[k]
               /\ cs[k].emitted > 0 =>
                    /\ k = Len(committed) + 1
                    /\ IsPainted(cs[k]) /\ cs[k].mode = "AppendOnly"
    <3>1. CASE k = i
      <4>1. ~(i <= c)
        BY <1>1, <1>3
      <4>2. cs[k].emitted <= Len(cs[k].snapshot)
        BY <1>4, <1>8, <1>9, <3>1
      <4>3. IsPainted(cs[k])
        BY <1>3, <1>8, <1>9, <3>1 DEF IsPainted
      <4> QED
        BY <1>2, <1>3, <1>8, <1>9, <3>1, <4>1, <4>2, <4>3
    <3>2. CASE k # i
      BY <1>9, <3>2, Known DEF Frontier
    <3> QED
      BY <3>1, <3>2
  <2> QED
    BY <1>1, <1>9, <2>1 DEF Frontier
<1>11. Spans(old, 1, p) /\ Spans(old, e + 1, p) /\ e \in 0 .. p
  BY <1>1, <1>2, <1>4 DEF Spans
<1>12. more \in Seq(RowOf(epoch)) /\ TextOf(more) = Told(old, e + 1, p)
  <2>1. "Append" \in Sources /\ epoch \in Nat
    BY Known DEF Sources
  <2> HIDE DEF e
  <2> QED
    BY <1>11, <2>1, RowsTell
<1>13. Story(cs, c) = Story(blocks, c) \o TextOf(more)
  <2> DEFINE past == Past(blocks, c)
             told == Told(old, 1, e)
             rest == Told(old, e + 1, p)
  <2>1. Past(cs, c) = past
    <3>1. \A k \in 1 .. c : cs[k].id = blocks[k].id /\ cs[k].snapshot = blocks[k].snapshot
      <4>1. \A k \in 1 .. c : k \in 1 .. Len(blocks) /\ k # i
        BY <1>1, <1>3
      <4> QED
        BY <1>9, <4>1
    <3> HIDE DEF c
    <3> QED
      BY <3>1, PastSame
  <2>2. Part(blocks, c + 1) = told
    BY <1>1, <1>3 DEF Part, old
  <2>3. Part(cs, c + 1) = Told(old, 1, p)
    <3>1. i \in DOMAIN cs
      BY <1>1, <1>9
    <3>2. Part(cs, c + 1) = Told(b, 1, p)
      BY <1>3, <1>8, <1>9, <3>1 DEF Part
    <3>3. b.id = old.id /\ \A k \in 1 .. p : b.snapshot[k] = old.snapshot[k]
      BY <1>8
    <3>4. Told(b, 1, p) = Told(old, 1, p)
      BY <1>4, <3>3, ToldSame
    <3> QED
      BY <3>2, <3>4
  <2>4. Told(old, 1, p) = told \o rest
    <3> HIDE DEF e
    <3> QED
      BY <1>11, ToldJoin
  <2>5. past \in Seq(Said) /\ told \in Seq(Said) /\ rest \in Seq(Said)
    <3>1. c \in 0 .. Len(blocks) /\ blocks \in Seq(Block)
      BY <1>1, Known
    <3>2. past \in Seq(Said)
      <4> HIDE DEF c
      <4> QED
        BY <3>1, PastType
    <3>3. Spans(old, 1, e)
      BY <1>1, <1>2 DEF Spans
    <3> HIDE DEF e, past
    <3> QED
      BY <1>11, <3>2, <3>3, ToldType
  <2> HIDE DEF past, told, rest, more
  <2>6. past \o (told \o rest) = (past \o told) \o rest
    <3>1. Associative(Said)
      BY Associates
    <3> QED
      BY <2>5, <3>1, Zenon DEF Associative
  <2>7. Story(cs, c) = past \o (told \o rest)
    BY <2>1, <2>3, <2>4, Zenon DEF Story
  <2>8. Story(blocks, c) = past \o told
    BY <2>2, Zenon DEF Story, past
  <2> QED
    BY <1>12, <2>6, <2>7, <2>8, Zenon DEF rest
<1> HIDE DEF more
<1> QED
  BY <1>5, <1>9, <1>10, <1>12, <1>13, Known, TellsMore DEF sb, c

\* The blocks that retire tell the rest of their lines, which the scrollback is
\* given.
LEMMA CommitInv ==
    ASSUME IInv, NEW n \in Head1 .. Len(blocks), Commit(n)
    PROVE  IInv' /\ Grown
<1> DEFINE c == Len(committed)
           m == n - c
           done(b) == [b EXCEPT !.state = "Committed", !.emitted = 0]
           cs == [i \in DOMAIN blocks |-> IF i \in c + 1 .. n THEN done(blocks[i])
                                          ELSE blocks[i]]
           add == [k \in 1 .. m |-> blocks[c + k].snapshot]
           cm == committed \o add
           rows == [k \in 1 .. m |-> LET b == blocks[c + k] IN
                      Rows(b, b.emitted + 1, Len(b.snapshot), "Retire", epoch)]
           more == FlattenSeq(rows)
           L == Seq(Lines)
<1>1. /\ c \in Nat /\ n \in c + 1 .. Len(blocks) /\ m \in Nat /\ c + m = n
      /\ Len(blocks) \in Nat /\ DOMAIN blocks = 1 .. Len(blocks)
      /\ epoch \in Nat /\ n \in Nat
      /\ blocks \in Seq(Block) /\ committed \in Seq(L)
      /\ \A k \in 1 .. m : c + k \in 1 .. Len(blocks)
  BY Known DEF Head1
<1>2. \A i \in 1 .. Len(blocks) :
        /\ blocks[i] \in Block
        /\ blocks[i].snapshot \in L
        /\ blocks[i].emitted \in Nat /\ Len(blocks[i].snapshot) \in Nat
  <2>1. \A i \in 1 .. Len(blocks) : blocks[i] \in Block
    BY <1>1
  <2> QED
    BY <2>1 DEF Block
<1>3. /\ committed' = cm /\ scrollback' = Ring(scrollback \o more)
      /\ Refresh(cs, Ring(scrollback \o more), height', epoch)
      /\ epoch' = epoch /\ SettingsTyped
  <2>1. /\ committed' = cm /\ scrollback' = Ring(scrollback \o more)
        /\ Refresh(cs, Ring(scrollback \o more), height, epoch)
        /\ UNCHANGED <<height, epoch, gate, target, forensic, resizes>>
    BY DEF Commit, Head1
  <2>2. SettingsTyped
    BY <2>1 DEF IInv, TypeOK, SettingsTyped
  <2> HIDE DEF cm, cs, more
  <2> QED
    BY <2>1, <2>2
<1>4. cm \in Seq(L) /\ Len(cm) = n /\ (\A i \in 1 .. c : cm[i] = committed[i])
      /\ (\A k \in 1 .. m : cm[c + k] = blocks[c + k].snapshot)
  <2>1. \A k \in 1 .. m : blocks[c + k].snapshot \in L
    BY <1>1, <1>2
  <2> HIDE DEF L
  <2>2. add \in Seq(L) /\ Len(add) = m
        /\ \A k \in 1 .. m : add[k] = blocks[c + k].snapshot
    BY <1>1, <2>1
  <2> HIDE DEF add, m
  <2>3. /\ Len(cm) = Len(committed) + Len(add)
        /\ \A k \in 1 .. Len(committed) : cm[k] = committed[k]
        /\ \A k \in 1 .. Len(add) : cm[Len(committed) + k] = add[k]
        /\ cm \in Seq(L)
    <3>1. committed \in Seq(L) /\ add \in Seq(L)
      BY <1>1, <2>2
    <3> QED
      BY <3>1, RowParts, RowType
  <2> HIDE DEF cm
  <2> QED
    BY <1>1, <2>2, <2>3
<1>5. \A i \in 1 .. Len(blocks) :
        /\ done(blocks[i]) \in Block
        /\ done(blocks[i]).id = blocks[i].id
        /\ done(blocks[i]).snapshot = blocks[i].snapshot
        /\ done(blocks[i]).state = "Committed"
        /\ done(blocks[i]).emitted = 0
  <2> SUFFICES ASSUME NEW i \in 1 .. Len(blocks)
               PROVE  /\ done(blocks[i]) \in Block
                      /\ done(blocks[i]).id = blocks[i].id
                      /\ done(blocks[i]).snapshot = blocks[i].snapshot
                      /\ done(blocks[i]).state = "Committed"
                      /\ done(blocks[i]).emitted = 0
    OBVIOUS
  <2> DEFINE b == blocks[i]
  <2>1. b \in Block
    BY <1>2
  <2> HIDE DEF b
  <2>2. /\ done(b) \in Block /\ done(b).id = b.id /\ done(b).snapshot = b.snapshot
        /\ done(b).state = "Committed" /\ done(b).emitted = 0
    BY <2>1 DEF Block
  <2> QED
    BY <2>2 DEF b
<1> HIDE DEF done
<1>6. cs \in Seq(Block) /\ Len(cs) = Len(blocks) /\ DOMAIN cs = 1 .. Len(blocks)
      /\ \A i \in 1 .. Len(blocks) :
           cs[i] = IF i \in c + 1 .. n THEN done(blocks[i]) ELSE blocks[i]
  <2> DEFINE x(i) == IF i \in c + 1 .. n THEN done(blocks[i]) ELSE blocks[i]
  <2>1. \A i \in 1 .. Len(blocks) : x(i) \in Block
    BY <1>2, <1>5
  <2>2. cs = [i \in 1 .. Len(blocks) |-> x(i)] /\ Len(blocks) \in Nat
    BY <1>1
  <2>3. \A i \in 1 .. Len(blocks) :
          x(i) = IF i \in c + 1 .. n THEN done(blocks[i]) ELSE blocks[i]
    OBVIOUS
  <2> HIDE DEF x, cs
  <2>4. cs \in Seq(Block) /\ Len(cs) = Len(blocks) /\ DOMAIN cs = 1 .. Len(blocks)
        /\ \A i \in 1 .. Len(blocks) : cs[i] = x(i)
    BY <2>1, <2>2
  <2> QED
    BY <2>3, <2>4
<1> HIDE DEF cs, cm, L
<1>7. \A i \in 1 .. Len(blocks) :
        /\ blocks[i].emitted <= Len(blocks[i].snapshot)
        /\ blocks[i].state = "Committed" <=> i <= c
        /\ i <= c => blocks[i].snapshot = committed[i]
        /\ blocks[i].emitted > 0 => i = c + 1
  BY Known DEF Frontier
<1>8. \A i \in 1 .. Len(blocks) :
        /\ cs[i].id = blocks[i].id /\ cs[i].snapshot = blocks[i].snapshot
        /\ cs[i].emitted = 0
        /\ cs[i].state = "Committed" <=> i <= n
  <2> SUFFICES ASSUME NEW i \in 1 .. Len(blocks)
               PROVE  /\ cs[i].id = blocks[i].id
                      /\ cs[i].snapshot = blocks[i].snapshot
                      /\ cs[i].emitted = 0
                      /\ cs[i].state = "Committed" <=> i <= n
    OBVIOUS
  <2>1. CASE i \in c + 1 .. n
    <3>1. cs[i] = done(blocks[i]) /\ i <= n
      BY <1>6, <2>1
    <3> QED
      BY <1>5, <3>1
  <2>2. CASE i \notin c + 1 .. n
    <3>1. cs[i] = blocks[i]
      BY <1>6, <2>2
    <3>2. i # c + 1 /\ (i <= n <=> i <= c)
      BY <1>1, <2>2
    <3>3. blocks[i].emitted \in Nat /\ ~(blocks[i].emitted > 0)
      BY <1>2, <1>7, <3>2
    <3>4. blocks[i].emitted = 0
      BY <3>3
    <3> QED
      BY <1>7, <3>1, <3>2, <3>4
  <2> QED
    BY <2>1, <2>2
<1>9. Frontier(cs, cm)
  <2>1. ASSUME NEW i \in 1 .. Len(blocks), i <= n
        PROVE  cs[i].snapshot = cm[i]
    <3>1. CASE i <= c
      <4>1. i \in 1 .. c
        BY <1>1, <3>1
      <4> QED
        BY <1>4, <1>7, <1>8, <3>1, <4>1
    <3>2. CASE ~(i <= c)
      <4>1. i - c \in 1 .. m /\ c + (i - c) = i
        BY <1>1, <2>1, <3>2
      <4>2. cm[c + (i - c)] = blocks[c + (i - c)].snapshot
        BY <1>4, <4>1
      <4>3. cm[i] = blocks[i].snapshot
        BY <4>1, <4>2
      <4> QED
        BY <1>8, <4>3
    <3> QED
      BY <3>1, <3>2
  <2>2. ASSUME NEW i \in 1 .. Len(blocks)
        PROVE  cs[i].emitted <= Len(cs[i].snapshot) /\ ~(cs[i].emitted > 0)
    BY <1>2, <1>8
  <2>3. n <= Len(blocks)
    BY <1>1
  <2> QED
    BY <1>4, <1>6, <1>8, <2>1, <2>2, <2>3 DEF Frontier
<1>10. more \in Seq(RowOf(epoch)) /\ TextOf(more) = FlattenSeq(Rest(blocks, c, n))
  <2>1. /\ Frontier(blocks, committed) /\ committed \in Seq(Seq(Lines))
        /\ blocks \in Seq(Block) /\ epoch \in Nat
        /\ n \in Len(committed) + 1 .. Len(blocks)
    BY <1>1, Known
  <2>2. rows = [k \in 1 .. n - Len(committed) |->
                  LET b == blocks[Len(committed) + k] IN
                  Rows(b, b.emitted + 1, Len(b.snapshot), "Retire", epoch)]
    OBVIOUS
  <2> HIDE DEF rows
  <2>3. /\ FlattenSeq(rows) \in Seq(RowOf(epoch))
        /\ TextOf(FlattenSeq(rows)) = FlattenSeq(Rest(blocks, Len(committed), n))
    BY <2>1, <2>2, RestRows
  <2> QED
    BY <2>3
<1>11. Story(cs, Len(cm)) = Story(blocks, Len(committed)) \o TextOf(more)
  <2>1. Past(blocks, n) = Story(blocks, c) \o FlattenSeq(Rest(blocks, c, n))
    <3>1. Frontier(blocks, committed) /\ committed \in Seq(Seq(Lines))
      BY Known
    <3> QED
      BY <1>1, <3>1, RestStory
  <2>2. Past(cs, n) = Past(blocks, n)
    <3>1. \A i \in 1 .. n : i \in 1 .. Len(blocks)
      BY <1>1
    <3>2. \A i \in 1 .. n : cs[i].id = blocks[i].id /\ cs[i].snapshot = blocks[i].snapshot
      BY <1>8, <3>1
    <3> QED
      BY <3>2, PastSame
  <2>3. Part(cs, n + 1) = <<>>
    <3>1. n + 1 \in DOMAIN cs => cs[n + 1].emitted = 0
      BY <1>6, <1>8
    <3> QED
      BY <3>1, PartNone
  <2>4. Past(cs, n) \o <<>> = Past(cs, n)
    <3>1. n \in 0 .. Len(cs)
      BY <1>1, <1>6
    <3>2. Past(cs, n) \in Seq(Said)
      BY <1>6, <3>1, PastType
    <3> QED
      BY <3>2
  <2>5. Story(cs, n) = Past(cs, n)
    BY <2>3, <2>4 DEF Story
  <2> HIDE DEF more
  <2> QED
    BY <1>4, <1>10, <2>1, <2>2, <2>5
<1> HIDE DEF more, c
<1> QED
  BY <1>3, <1>4, <1>6, <1>9, <1>10, <1>11, TellsMore DEF L

\* One block retires.
LEMMA RetireInv ==
    ASSUME IInv, NEW i \in DOMAIN blocks, Retire(i)
    PROVE  IInv' /\ Grown
<1>1. i \in Head1 .. Len(blocks) /\ Commit(i)
  BY Known DEF Retire, Head1
<1> QED
  BY <1>1, CommitInv

\* All that can retire do.
LEMMA FlushInv ==
    ASSUME IInv, Flush
    PROVE  IInv' /\ Grown
<1>1. PICK n \in Head1 .. Len(blocks) : Commit(n)
  BY DEF Flush
<1> QED
  BY <1>1, CommitInv

\* A resize that keeps the rows.
LEMMA PreserveInv ==
    ASSUME IInv, NEW h \in Heights, Preserve(h)
    PROVE  IInv' /\ Grown
<1>1. /\ Refresh(blocks, scrollback, height', epoch)
      /\ UNCHANGED <<committed, scrollback, epoch>> /\ SettingsTyped
  BY DEF Preserve, IInv, TypeOK, SettingsTyped
<1>2. blocks \in Seq(Block) /\ Keeps(blocks, blocks, committed)
  BY Known, AllKept
<1> QED
  BY <1>1, <1>2, StaysPainted

\* The marker of a resize tells nothing.
LEMMA MarkInv ==
    ASSUME IInv, NEW h \in Heights, Mark(h)
    PROVE  IInv' /\ Grown
<1> DEFINE e == Synthetic(Marker, epoch)
           more == <<e>>
           sb == Ring(scrollback \o more)
<1>1. e \in RowOf(epoch) /\ e.block = NoBlock
  BY Known, SyntheticType
<1>2. Append(scrollback, e) = scrollback \o more
  <2> HIDE DEF e
  <2> QED
    BY <1>1, Known
<1>3. /\ scrollback' = sb /\ Refresh(blocks, sb, height', epoch)
      /\ epoch' = epoch /\ committed' = committed /\ SettingsTyped
  <2>1. /\ scrollback' = Ring(Append(scrollback, e))
        /\ Refresh(blocks, Ring(Append(scrollback, e)), height', epoch)
        /\ height' = h /\ target' = h /\ resizes' = resizes + 1
        /\ UNCHANGED <<committed, epoch, gate, forensic>>
    BY DEF Mark
  <2>2. SettingsTyped
    BY <2>1 DEF IInv, TypeOK, SettingsTyped
  <2> HIDE DEF e, more
  <2> QED
    BY <1>2, <2>1, <2>2
<1> HIDE DEF e
<1>4. more \in Seq(RowOf(epoch)) /\ DOMAIN more = {1} /\ more[1] = e
  BY <1>1
<1> HIDE DEF more
<1>5. TextOf(more) = <<>>
  <2>1. more \in Seq(Row)
    BY <1>4, EpochRows
  <2>2. \A k \in DOMAIN more : more[k].block = NoBlock
    BY <1>1, <1>4
  <2> QED
    BY <2>1, <2>2, TextNone
<1> DEFINE story == Story(blocks, Len(committed))
<1>6. story = story \o TextOf(more)
  <2>1. story \in Seq(Said)
    BY Known, StoryType
  <2> HIDE DEF story
  <2> QED
    BY <1>5, <2>1
<1>7. /\ blocks \in Seq(Block) /\ committed \in Seq(Seq(Lines))
      /\ Frontier(blocks, committed)
  BY Known
<1> QED
  BY <1>3, <1>4, <1>6, <1>7, TellsMore

\* A replay that is prepared has changed nothing yet.
LEMMA PrepareInv ==
    ASSUME IInv, NEW h \in Heights, Prepare(h)
    PROVE  IInv' /\ Grown
<1>1. /\ UNCHANGED <<committed, scrollback, epoch>> /\ viewport' = viewport
      /\ blocks' = blocks /\ SettingsTyped
  BY DEF Prepare, IInv, TypeOK, SettingsTyped
<1>2. blocks \in Seq(Block) /\ Keeps(blocks, blocks, committed)
  BY Known, AllKept
<1>3. blocks' \in Seq(Block) /\ Keeps(blocks, blocks', committed)
  BY <1>1, <1>2
<1> QED
  BY <1>1, <1>3, Stays

\* A replay fills an empty scrollback with all that the blocks tell.
LEMMA ReplayInv ==
    ASSUME IInv, NEW h \in Heights, Replay(h), target' \in Heights,
           resizes' \in Nat
    PROVE  IInv' /\ Grown
<1> DEFINE ep == epoch + 1
           rows == Replayed(ep)
           sb == Ring(rows)
           story == Story(blocks, Len(committed))
<1>1. /\ scrollback' = sb /\ Refresh(blocks, sb, height', epoch')
      /\ epoch' = ep /\ committed' = committed /\ SettingsTyped
  <2>1. /\ epoch' = ep /\ height' = h /\ scrollback' = sb /\ gate' = "Idle"
        /\ Refresh(blocks, sb, h, ep) /\ UNCHANGED <<committed, forensic>>
    BY DEF Replay
  <2>2. SettingsTyped
    BY <2>1 DEF IInv, TypeOK, SettingsTyped
  <2> HIDE DEF sb, ep
  <2> QED
    BY <2>1, <2>2
<1>2. /\ blocks \in Seq(Block) /\ committed \in Seq(Seq(Lines))
      /\ Frontier(blocks, committed) /\ ep \in Nat
  BY Known
<1> HIDE DEF ep
<1>3. rows \in Seq(RowOf(ep)) /\ TextOf(rows) = story
  BY <1>2, ReplayStory
<1> HIDE DEF rows
<1>4. rows \in Seq(Row)
  BY <1>3, EpochRows
<1>5. story \in Seq(Said)
  BY <1>2, StoryType
<1> HIDE DEF story
<1>6. History(sb, story)
  <2>1. <<>> \in Seq(Row) /\ <<>> \in Seq(Said) /\ <<>> \o rows = rows
        /\ <<>> \o story = story
    BY <1>4, <1>5
  <2> DEFINE none == <<>>
  <2>2. none \in Seq(Row) /\ none \in Seq(Said) /\ none \o rows = rows
        /\ none \o story = story /\ History(none, none)
    BY <2>1, EmptyHistory
  <2> HIDE DEF none
  <2>3. History(Ring(none \o rows), none \o TextOf(rows))
    BY <1>4, <2>2, Pushed
  <2> QED
    BY <1>3, <2>2, <2>3
<1>7. sb \in Seq(RowOf(ep))
  BY <1>3, RingKeeps
<1> HIDE DEF sb
<1>8. sb \in Seq(RowOf(epoch')) /\ History(sb, Story(blocks, Len(committed)))
  BY <1>1, <1>6, <1>7 DEF story
<1>9. IInv' /\ Story(blocks', Len(committed')) = Story(blocks, Len(committed))
  BY <1>1, <1>2, <1>8, Repaints
<1>10. Grown
  BY <1>9, SameGrown
<1> QED
  BY <1>9, <1>10

\* A prepared replay is executed.
LEMMA ExecuteInv ==
    ASSUME IInv, Execute
    PROVE  IInv' /\ Grown
<1>1. target \in Heights /\ Replay(target) /\ target' \in Heights /\ resizes' \in Nat
  BY DEF Execute, IInv, TypeOK
<1> QED
  BY <1>1, ReplayInv

\* Both steps of a replay in one.
LEMMA RebuildInv ==
    ASSUME IInv, NEW h \in Heights, Rebuild(h)
    PROVE  IInv' /\ Grown
<1>1. Replay(h) /\ target' \in Heights /\ resizes' \in Nat
  BY DEF Rebuild, IInv, TypeOK
<1> QED
  BY <1>1, ReplayInv

\* Painting again.
LEMMA RenderInv ==
    ASSUME IInv, Render
    PROVE  IInv' /\ Grown
<1>1. /\ Refresh(blocks, scrollback, height', epoch)
      /\ UNCHANGED <<committed, scrollback, epoch>> /\ SettingsTyped
  BY DEF Render, IInv, TypeOK, SettingsTyped
<1>2. blocks \in Seq(Block) /\ Keeps(blocks, blocks, committed)
  BY Known, AllKept
<1> QED
  BY <1>1, <1>2, StaysPainted

\* A failed write changes nothing that is told.
LEMMA WriteFailureInv ==
    ASSUME IInv, NEW accepted \in {0, Len(viewport)}, WriteFailure(accepted)
    PROVE  IInv' /\ Grown
<1> DEFINE row(k) == [viewport[k] EXCEPT !.source = "FailedWrite"]
           failed == [k \in 1 .. accepted |-> row(k)]
<1>1. forensic' \in Seq(Row)
  <2>1. viewport \in Seq(Row) /\ Len(viewport) \in Nat /\ forensic \in Seq(Row)
    BY LenProperties DEF IInv, TypeOK
  <2>2. accepted \in Nat /\ accepted <= Len(viewport)
    BY <2>1
  <2>3. \A k \in 1 .. accepted : row(k) \in Row
    <3> SUFFICES ASSUME NEW k \in 1 .. accepted
                 PROVE  row(k) \in Row
      OBVIOUS
    <3>1. viewport[k] \in Row
      BY <2>1, <2>2
    <3> QED
      BY <3>1 DEF Row
  <2> HIDE DEF row
  <2>4. failed \in Seq(Row)
    BY <2>2, <2>3
  <2>5. forensic' = forensic \o failed
    BY DEF WriteFailure, row
  <2> HIDE DEF failed
  <2>6. forensic \o failed \in Seq(Row)
    BY <2>1, <2>4, RowType
  <2> QED
    BY <2>5, <2>6
<1>2. /\ UNCHANGED <<committed, scrollback, epoch>> /\ viewport' = <<>>
      /\ blocks' = blocks /\ SettingsTyped
  BY <1>1 DEF WriteFailure, IInv, TypeOK, SettingsTyped
<1>3. blocks \in Seq(Block) /\ Keeps(blocks, blocks, committed)
  BY Known, AllKept
<1>4. blocks' \in Seq(Block) /\ Keeps(blocks, blocks', committed)
  BY <1>2, <1>3
<1> QED
  BY <1>2, <1>4, Stays

-----------------------------------------------------------------------------
(* Theorems. *)

\* Nothing is told at first.
LEMMA FirstInv ==
    ASSUME Init
    PROVE  IInv
<1>1. /\ blocks = <<>> /\ committed = <<>> /\ scrollback = <<>> /\ viewport = <<>>
      /\ <<>> \in Seq(Block) /\ <<>> \in Seq(Seq(Lines)) /\ <<>> \in Seq(Row)
      /\ <<>> \in Seq(RowOf(epoch)) /\ Len(<<>>) = 0 /\ <<>> \in Seq(Said)
      /\ forensic = <<>>
  BY DEF Init
<1>2. TypeOK
  BY <1>1 DEF Init, TypeOK
<1>3. Frontier(blocks, committed)
  BY <1>1 DEF Frontier
<1>4. EpochInv
  BY <1>1 DEF EpochInv
<1>5. HistoryInv
  <2>1. Past(<<>>, 0) = <<>>
    <3> DEFINE s == [i \in 1 .. 0 |-> Told(<<>>[i], 1, Len(<<>>[i].snapshot))]
    <3>1. s \in Seq(Seq(Said)) /\ Len(s) = 0
      OBVIOUS
    <3> HIDE DEF s
    <3>2. s \in Seq(Seq(Said)) /\ \A k \in 1 .. Len(s) : s[k] = <<>>
      BY <3>1
    <3>3. FlattenSeq(s) = <<>>
      BY <3>2, FlattenEmpty
    <3> QED
      BY <3>3 DEF Past, s
  <2>2. Part(<<>>, 0 + 1) = <<>>
    BY DEF Part
  <2>3. Story(<<>>, 0) = <<>>
    BY <2>1, <2>2, <1>1 DEF Story
  <2> QED
    BY <1>1, <2>3, EmptyHistory DEF HistoryInv
<1> QED
  BY <1>2, <1>3, <1>4, <1>5 DEF IInv

\* A step keeps the invariant and only adds to what is told.
LEMMA NextInv ==
    ASSUME IInv, Next
    PROVE  IInv' /\ Grown
<1>1. CASE AdmitSome
  BY <1>1, AdmitInv DEF AdmitSome
<1>2. CASE ActivateSome
  <2>1. PICK i \in DOMAIN blocks : Activate(i)
    BY <1>2 DEF ActivateSome
  <2>2. /\ blocks[i].state # "Committed"
        /\ blocks' = [blocks EXCEPT ![i].state = "Active"]
        /\ UNCHANGED <<committed, scrollback, viewport, height, epoch, gate, target,
                       forensic, resizes>>
    BY <2>1 DEF Activate
  <2> QED
    BY <2>2, StateInv
<1>3. CASE UpdateSome
  BY <1>3, UpdateInv DEF UpdateSome
<1>4. CASE StreamSome
  <2>1. PICK i \in DOMAIN blocks : \E n \in 0 .. Len(blocks[i].snapshot) : Stream(i, n)
    BY <1>4 DEF StreamSome
  <2>2. PICK n \in 0 .. Len(blocks[i].snapshot) : Stream(i, n)
    BY <2>1
  <2>3. Len(blocks[i].snapshot) \in Nat
    BY DEF IInv, TypeOK, Block
  <2>4. n \in Nat
    BY <2>3
  <2> QED
    BY <2>2, <2>4, StreamInv
<1>5. CASE FinalizeSome
  <2>1. PICK i \in DOMAIN blocks : Finalize(i)
    BY <1>5 DEF FinalizeSome
  <2>2. /\ blocks[i].state # "Committed"
        /\ blocks' = [blocks EXCEPT ![i].state = "Finalized"]
        /\ UNCHANGED <<committed, scrollback, viewport, height, epoch, gate, target,
                       forensic, resizes>>
    BY <2>1 DEF Finalize
  <2> QED
    BY <2>2, StateInv
<1>6. CASE RetireSome
  BY <1>6, RetireInv DEF RetireSome
<1>7. CASE Flush
  BY <1>7, FlushInv
<1>8. CASE ResizeSome
  BY <1>8, PreserveInv, MarkInv, RebuildInv DEF ResizeSome
<1>9. CASE PrepareSome
  BY <1>9, PrepareInv DEF PrepareSome
<1>10. CASE Execute
  BY <1>10, ExecuteInv
<1>11. CASE Render
  BY <1>11, RenderInv
<1>12. CASE FailSome
  BY <1>12, WriteFailureInv DEF FailSome
<1> QED
  BY <1>1, <1>2, <1>3, <1>4, <1>5, <1>6, <1>7, <1>8, <1>9, <1>10, <1>11, <1>12
     DEF Next

\* Nor does a step that changes nothing.
LEMMA StutterInv ==
    ASSUME IInv, UNCHANGED vars
    PROVE  IInv' /\ Grown
<1>1. UNCHANGED <<blocks, committed, scrollback, viewport, height, epoch, gate,
                  target, forensic, resizes>>
  BY DEF vars
<1>2. IInv'
  BY <1>1 DEF IInv, TypeOK, HistoryInv, EpochInv
<1>3. Grown
  BY <1>1, SameGrown
<1> QED
  BY <1>2, <1>3

\* The ledger of a state is what its blocks tell.
LEMMA Ledgers ==
    ASSUME IInv
    PROVE  Ledger = Story(blocks, Len(committed)) /\ Ledger \in Seq(Said)
<1>1. Ledger = LedgerFrom(blocks, committed)
  BY DEF Ledger, LedgerFrom, Head1
<1>2. LedgerFrom(blocks, committed) = Story(blocks, Len(committed))
  BY Known, LedgerIsStory
<1>3. Story(blocks, Len(committed)) \in Seq(Said)
  BY Known, StoryType
<1> QED
  BY <1>1, <1>2, <1>3

\* So it is in the next state.
LEMMA NextLedger ==
    ASSUME IInv'
    PROVE  Ledger' = Story(blocks', Len(committed'))
<1>1. Ledger' = LedgerFrom(blocks', committed')
  BY DEF Ledger, LedgerFrom, Head1
<1>2. /\ blocks' \in Seq(Block) /\ committed' \in Seq(Seq(Lines))
      /\ Frontier(blocks', committed')
  BY DEF IInv, TypeOK
<1> DEFINE bs == blocks'
           cm == committed'
<1>3. bs \in Seq(Block) /\ cm \in Seq(Seq(Lines)) /\ Frontier(bs, cm)
  BY <1>2
<1> HIDE DEF bs, cm
<1>4. LedgerFrom(bs, cm) = Story(bs, Len(cm))
  BY <1>3, LedgerIsStory
<1> QED
  BY <1>1, <1>4 DEF bs, cm

\* The invariant holds in every state.
THEOREM Invariance == Spec => []IInv
<1>1. Init => IInv
  BY FirstInv
<1>2. IInv /\ [Next]_vars => IInv'
  BY NextInv, StutterInv
<1> QED
  BY <1>1, <1>2, PTL DEF Spec

\* The variables have their types.
THEOREM TypeCorrect == Spec => []TypeOK
<1>1. IInv => TypeOK
  BY DEF IInv
<1> QED
  BY <1>1, Invariance, PTL

\* Streaming, retirement, eviction and rebuilding, in any order, leave the
\* scrollback the end of the ledger (ScrollbackIsLedger).
THEOREM HistoryTold == Spec => []ScrollbackIsLedger
<1>1. ASSUME IInv
      PROVE  ScrollbackIsLedger
  <2> DEFINE rows == [k \in DOMAIN scrollback |-> Shown(scrollback[k])]
             text == Picked(rows, {k \in DOMAIN rows : rows[k].block # NoBlock})
  <2>1. TypeOK
    BY <1>1 DEF IInv
  <2>2. text = TextOf(scrollback)
    <3>1. DOMAIN rows = DOMAIN scrollback
          /\ \A k \in DOMAIN scrollback : rows[k].block = scrollback[k].block
      BY DEF Shown
    <3>2. {k \in DOMAIN rows : rows[k].block # NoBlock}
            = {k \in DOMAIN scrollback : scrollback[k].block # NoBlock}
      BY <3>1
    <3> QED
      BY <3>2, Zenon DEF TextOf
  <2> HIDE DEF text
  <2>3. /\ Ends(Said, text, Ledger)
        /\ Len(scrollback) < MaxRows => text = Ledger
        /\ Len(scrollback) <= MaxRows
    BY <1>1, <2>2, Ledgers DEF IInv, HistoryInv, History
  <2>4. text \in Seq(Said) /\ Ledger \in Seq(Said)
    BY <1>1, <2>1, <2>2, Ledgers, TextType DEF TypeOK
  <2>5. IsSuffix(text, Ledger)
    BY <2>3, <2>4, EndsSuffix
  <2>6. \A seen \in {scrollback, viewport} : \A k \in DOMAIN seen : seen[k].epoch = epoch
    <3>1. scrollback \in Seq(RowOf(epoch)) /\ viewport \in Seq(RowOf(epoch))
      BY <1>1 DEF IInv, EpochInv
    <3>2. ASSUME NEW seen \in Seq(RowOf(epoch)), NEW k \in DOMAIN seen
          PROVE  seen[k].epoch = epoch
      <4>1. seen[k] \in RowOf(epoch)
        OBVIOUS
      <4> QED
        BY <4>1 DEF RowOf
    <3> QED
      BY <3>1, <3>2
  <2> QED
    BY <2>1, <2>3, <2>5, <2>6 DEF ScrollbackIsLedger, text
<1> QED
  BY <1>1, Invariance, PTL

\* No step takes a line out of the ledger or changes one (LedgerGrows).
THEOREM OnlyGrows == Spec => LedgerGrows
<1>1. ASSUME IInv, IInv', [Next]_vars
      PROVE  IsPrefix(Ledger, Ledger')
  <2>1. Grown
    BY <1>1, NextInv, StutterInv
  <2>2. PICK more \in Seq(Said) :
          Story(blocks', Len(committed')) = Story(blocks, Len(committed)) \o more
    BY <2>1 DEF Grown
  <2>3. Ledger = Story(blocks, Len(committed)) /\ Ledger \in Seq(Said)
    BY <1>1, Ledgers
  <2>4. Ledger' = Story(blocks', Len(committed'))
    BY <1>1, NextLedger
  <2> DEFINE old == Ledger
             new == Ledger'
  <2>5. old \in Seq(Said) /\ new = old \o more
    BY <2>2, <2>3, <2>4
  <2> HIDE DEF old, new
  <2>6. IsPrefix(old, new)
    BY <2>5, GrowsPrefix
  <2> QED
    BY <2>6 DEF old, new
<1>2. IInv /\ IInv' /\ [Next]_vars
        => [LET before == Ledger IN IsPrefix(before, Ledger')]_vars
  BY <1>1
<1> QED
  BY <1>2, Invariance, PTL DEF Spec, LedgerGrows

-----------------------------------------------------------------------------
(* Rows that show no line twice. *)

\* The lines that rows show or tell,
Keys(s) == {<<s[i].block, s[i].at>> : i \in {k \in DOMAIN s : s[k].at # 0}}

\* each of them once.
Once(s) ==
    \A i, j \in DOMAIN s :
      s[i].at # 0 /\ s[i].block = s[j].block /\ s[i].at = s[j].at => i = j

\* Rows in a row show what they show, and no line twice if they share none.
LEMMA JoinedKeys ==
    ASSUME NEW S, NEW s \in Seq(S), NEW t \in Seq(S)
    PROVE  Keys(s \o t) = Keys(s) \cup Keys(t)
<1> DEFINE m == Len(s)
           n == Len(t)
           u == s \o t
<1>1. /\ m \in Nat /\ n \in Nat /\ DOMAIN s = 1 .. m /\ DOMAIN t = 1 .. n
      /\ DOMAIN u = 1 .. (m + n)
      /\ \A k \in 1 .. m : u[k] = s[k] /\ k \in 1 .. (m + n)
      /\ \A k \in 1 .. n : u[m + k] = t[k] /\ m + k \in 1 .. (m + n)
  BY LenProperties
<1>2. \A k \in 1 .. (m + n) : k \in 1 .. m \/ \E j \in 1 .. n : k = m + j
  <2> HIDE DEF m, n
  <2>1. \A k \in 1 .. (m + n) : k \in 1 .. m \/ (k - m \in 1 .. n /\ k = m + (k - m))
    BY <1>1
  <2> QED
    BY <2>1
<1> HIDE DEF m, n, u
<1>3. Keys(u) \subseteq Keys(s) \cup Keys(t)
  <2> SUFFICES ASSUME NEW e \in Keys(u)
               PROVE  e \in Keys(s) \cup Keys(t)
    OBVIOUS
  <2>1. PICK k \in 1 .. (m + n) : u[k].at # 0 /\ e = <<u[k].block, u[k].at>>
    BY <1>1 DEF Keys
  <2>2. CASE k \in 1 .. m
    <3>1. s[k].at # 0 /\ e = <<s[k].block, s[k].at>>
      BY <1>1, <2>1, <2>2
    <3> QED
      BY <1>1, <2>2, <3>1 DEF Keys
  <2>3. CASE k \notin 1 .. m
    <3>1. PICK j \in 1 .. n : k = m + j
      BY <1>2, <2>3
    <3>2. t[j].at # 0 /\ e = <<t[j].block, t[j].at>>
      BY <1>1, <2>1, <3>1
    <3> QED
      BY <1>1, <3>2 DEF Keys
  <2> QED
    BY <2>2, <2>3
<1>4. Keys(s) \subseteq Keys(u)
  BY <1>1 DEF Keys
<1>5. Keys(t) \subseteq Keys(u)
  BY <1>1 DEF Keys
<1> QED
  BY <1>3, <1>4, <1>5 DEF u

LEMMA JoinedOnce ==
    ASSUME NEW S, NEW s \in Seq(S), NEW t \in Seq(S)
    PROVE  Once(s \o t) <=> Once(s) /\ Once(t) /\ Keys(s) \cap Keys(t) = {}
<1> DEFINE m == Len(s)
           n == Len(t)
           u == s \o t
<1>1. /\ m \in Nat /\ n \in Nat /\ DOMAIN s = 1 .. m /\ DOMAIN t = 1 .. n
      /\ DOMAIN u = 1 .. (m + n)
      /\ \A k \in 1 .. m : u[k] = s[k] /\ k \in 1 .. (m + n)
      /\ \A k \in 1 .. n : u[m + k] = t[k] /\ m + k \in 1 .. (m + n)
  BY LenProperties
<1>2. \A k \in 1 .. (m + n) : k \in 1 .. m \/ \E j \in 1 .. n : k = m + j
  <2> HIDE DEF m, n
  <2>1. \A k \in 1 .. (m + n) : k \in 1 .. m \/ (k - m \in 1 .. n /\ k = m + (k - m))
    BY <1>1
  <2> QED
    BY <2>1
<1>3. \A i \in 1 .. m, j \in 1 .. n : i # m + j
  BY <1>1
<1>4. \A i, j \in 1 .. n : m + i = m + j => i = j
  BY <1>1
<1> HIDE DEF m, n, u
<1>5. ASSUME Once(u)
      PROVE  Once(s) /\ Once(t) /\ Keys(s) \cap Keys(t) = {}
  <2>1. Once(s)
    <3> SUFFICES ASSUME NEW i \in 1 .. m, NEW j \in 1 .. m, s[i].at # 0,
                        s[i].block = s[j].block, s[i].at = s[j].at
                 PROVE  i = j
      BY <1>1 DEF Once
    <3>1. u[i] = s[i] /\ u[j] = s[j] /\ i \in DOMAIN u /\ j \in DOMAIN u
      BY <1>1
    <3> QED
      BY <1>5, <3>1, Zenon DEF Once
  <2>2. Once(t)
    <3> SUFFICES ASSUME NEW i \in 1 .. n, NEW j \in 1 .. n, t[i].at # 0,
                        t[i].block = t[j].block, t[i].at = t[j].at
                 PROVE  i = j
      BY <1>1 DEF Once
    <3>1. u[m + i] = t[i] /\ u[m + j] = t[j] /\ m + i \in DOMAIN u /\ m + j \in DOMAIN u
      BY <1>1
    <3>2. m + i = m + j
      BY <1>5, <3>1, Zenon DEF Once
    <3> QED
      BY <1>4, <3>2
  <2>3. \A i \in 1 .. m, j \in 1 .. n :
          ~(s[i].at # 0 /\ s[i].block = t[j].block /\ s[i].at = t[j].at)
    <3> SUFFICES ASSUME NEW i \in 1 .. m, NEW j \in 1 .. n, s[i].at # 0,
                        s[i].block = t[j].block, s[i].at = t[j].at
                 PROVE  FALSE
      OBVIOUS
    <3>1. u[i] = s[i] /\ u[m + j] = t[j] /\ i \in DOMAIN u /\ m + j \in DOMAIN u
      BY <1>1
    <3>2. i = m + j
      BY <1>5, <3>1, Zenon DEF Once
    <3> QED
      BY <1>3, <3>2
  <2>4. Keys(s) \cap Keys(t) = {}
    BY <1>1, <2>3 DEF Keys
  <2> QED
    BY <2>1, <2>2, <2>4
<1>6. ASSUME Once(s), Once(t), Keys(s) \cap Keys(t) = {}
      PROVE  Once(u)
  <2>1. \A i \in 1 .. m, j \in 1 .. n :
          ~(s[i].at # 0 /\ s[i].block = t[j].block /\ s[i].at = t[j].at)
    <3> SUFFICES ASSUME NEW i \in 1 .. m, NEW j \in 1 .. n, s[i].at # 0,
                        s[i].block = t[j].block, s[i].at = t[j].at
                 PROVE  FALSE
      OBVIOUS
    <3> DEFINE e == <<s[i].block, s[i].at>>
    <3>1. e \in Keys(s)
      BY <1>1 DEF Keys
    <3>2. t[j].at # 0 /\ e = <<t[j].block, t[j].at>>
      OBVIOUS
    <3>3. e \in Keys(t)
      BY <1>1, <3>2, Zenon DEF Keys
    <3> QED
      BY <1>6, <3>1, <3>3
  <2> SUFFICES ASSUME NEW i \in 1 .. (m + n), NEW j \in 1 .. (m + n), u[i].at # 0,
                      u[i].block = u[j].block, u[i].at = u[j].at
               PROVE  i = j
    BY <1>1 DEF Once
  <2>2. CASE i \in 1 .. m /\ j \in 1 .. m
    <3>1. u[i] = s[i] /\ u[j] = s[j] /\ i \in DOMAIN s /\ j \in DOMAIN s
      BY <1>1, <2>2
    <3> QED
      BY <1>6, <3>1, Zenon DEF Once
  <2>3. CASE i \in 1 .. m /\ j \notin 1 .. m
    <3>1. PICK b \in 1 .. n : j = m + b
      BY <1>2, <2>3
    <3>2. s[i].at # 0 /\ s[i].block = t[b].block /\ s[i].at = t[b].at
      BY <1>1, <2>3, <3>1
    <3> QED
      BY <2>1, <2>3, <3>2
  <2>4. CASE i \notin 1 .. m /\ j \in 1 .. m
    <3>1. PICK a \in 1 .. n : i = m + a
      BY <1>2, <2>4
    <3>2. s[j].at # 0 /\ s[j].block = t[a].block /\ s[j].at = t[a].at
      BY <1>1, <2>4, <3>1
    <3> QED
      BY <2>1, <2>4, <3>2
  <2>5. CASE i \notin 1 .. m /\ j \notin 1 .. m
    <3>1. PICK a \in 1 .. n : i = m + a
      BY <1>2, <2>5
    <3>2. PICK b \in 1 .. n : j = m + b
      BY <1>2, <2>5
    <3>3. t[a].at # 0 /\ t[a].block = t[b].block /\ t[a].at = t[b].at
      BY <1>1, <3>1, <3>2
    <3>4. a = b
      <4>1. a \in DOMAIN t /\ b \in DOMAIN t
        BY <1>1
      <4> QED
        BY <1>6, <3>3, <4>1, Zenon DEF Once
    <3> QED
      BY <3>1, <3>2, <3>4
  <2> QED
    BY <2>2, <2>3, <2>4, <2>5
<1> QED
  BY <1>5, <1>6 DEF u

\* The elements of two rows.
LEMMA JoinedElements ==
    ASSUME NEW S, NEW s \in Seq(S), NEW t \in Seq(S)
    PROVE  ToSet(s \o t) = ToSet(s) \cup ToSet(t)
<1> DEFINE m == Len(s)
           n == Len(t)
           u == s \o t
<1>1. /\ m \in Nat /\ n \in Nat /\ DOMAIN s = 1 .. m /\ DOMAIN t = 1 .. n
      /\ DOMAIN u = 1 .. (m + n)
      /\ \A k \in 1 .. m : u[k] = s[k] /\ k \in 1 .. (m + n)
      /\ \A k \in 1 .. n : u[m + k] = t[k] /\ m + k \in 1 .. (m + n)
  BY LenProperties
<1>2. \A k \in 1 .. (m + n) : k \in 1 .. m \/ (k - m \in 1 .. n /\ k = m + (k - m))
  <2> HIDE DEF m, n
  <2> QED
    BY <1>1
<1>3. \A k \in 1 .. (m + n) : k \in 1 .. m \/ \E j \in 1 .. n : k = m + j
  BY <1>2
<1> HIDE DEF m, n, u
<1> QED
  <2>1. ToSet(s) = {s[k] : k \in 1 .. m} /\ ToSet(t) = {t[k] : k \in 1 .. n}
        /\ ToSet(u) = {u[k] : k \in 1 .. (m + n)}
    BY <1>1 DEF ToSet
  <2>2. {u[k] : k \in 1 .. (m + n)} = {s[k] : k \in 1 .. m} \cup {t[k] : k \in 1 .. n}
    <3>1. \A k \in 1 .. (m + n) :
            (\E j \in 1 .. m : u[k] = s[j]) \/ (\E j \in 1 .. n : u[k] = t[j])
      BY <1>1, <1>3
    <3>2. \A k \in 1 .. m : \E j \in 1 .. (m + n) : u[j] = s[k]
      BY <1>1
    <3>3. \A k \in 1 .. n : \E j \in 1 .. (m + n) : u[j] = t[k]
      BY <1>1
    <3>4. {u[k] : k \in 1 .. (m + n)}
            \subseteq {s[k] : k \in 1 .. m} \cup {t[k] : k \in 1 .. n}
      BY <3>1
    <3>5. {s[k] : k \in 1 .. m} \subseteq {u[k] : k \in 1 .. (m + n)}
      BY <3>2
    <3>6. {t[k] : k \in 1 .. n} \subseteq {u[k] : k \in 1 .. (m + n)}
      BY <3>3
    <3> QED
      BY <3>4, <3>5, <3>6, Zenon
  <2> QED
    BY <2>1, <2>2 DEF u

\* Of sequences in a row: what lines there are,
LEMMA FlattenedKeys ==
    ASSUME NEW S, NEW s \in Seq(Seq(S))
    PROVE  /\ Keys(FlattenSeq(s)) = UNION {Keys(s[k]) : k \in 1 .. Len(s)}
           /\ ToSet(FlattenSeq(s)) = UNION {ToSet(s[k]) : k \in 1 .. Len(s)}
<1> DEFINE n == Len(s)
           Good(g, i) == /\ Keys(g[i]) = UNION {Keys(s[k]) : k \in 1 .. i}
                         /\ ToSet(g[i]) = UNION {ToSet(s[k]) : k \in 1 .. i}
<1>1. n \in Nat /\ \A k \in 1 .. n : s[k] \in Seq(S)
  BY LenProperties
<1>2. PICK g : Joins(S, s, g)
  BY FlattenSteps
<1>3. /\ g[0] = <<>> /\ FlattenSeq(s) = g[n]
      /\ \A k \in 1 .. n : g[k] = g[k - 1] \o s[k]
      /\ \A k \in 0 .. n : g[k] \in Seq(S)
  BY <1>2 DEF Joins
<1> HIDE DEF n
<1> DEFINE U == {i \in Nat : i <= n => Good(g, i)}
<1>4. 0 \in U
  <2>1. Keys(<<>>) = {} /\ ToSet(<<>>) = {}
    BY DEF Keys, ToSet
  <2>2. \A k \in 1 .. 0 : FALSE
    OBVIOUS
  <2> QED
    BY <1>3, <2>1, <2>2
<1>5. ASSUME NEW i \in U
      PROVE  i + 1 \in U
  <2> SUFFICES ASSUME i + 1 <= n
               PROVE  Good(g, i + 1)
    OBVIOUS
  <2> DEFINE a == g[i]
             b == s[i + 1]
             j == i + 1
  <2>1. /\ i + 1 \in 1 .. n /\ (i + 1) - 1 = i /\ i \in 0 .. n /\ Good(g, i)
        /\ 1 .. (i + 1) = (1 .. i) \cup {i + 1}
    BY <1>1
  <2>2. a \in Seq(S) /\ b \in Seq(S)
    BY <1>1, <1>3, <2>1
  <2>3. g[j] = g[j - 1] \o s[j]
    BY <1>3, <2>1, Zenon
  <2>4. g[j] = a \o b
    BY <2>1, <2>3
  <2>5. /\ Keys(a) = UNION {Keys(s[k]) : k \in 1 .. i}
        /\ ToSet(a) = UNION {ToSet(s[k]) : k \in 1 .. i}
    BY <2>1
  <2>6. 1 .. j = (1 .. i) \cup {j}
    BY <2>1
  <2>7. s[j] = b
    OBVIOUS
  <2> HIDE DEF a, b, j, n, U
  <2>8. Keys(a \o b) = Keys(a) \cup Keys(b) /\ ToSet(a \o b) = ToSet(a) \cup ToSet(b)
    BY <2>2, JoinedKeys, JoinedElements
  <2>9. /\ UNION {Keys(s[k]) : k \in 1 .. j} = Keys(a) \cup Keys(b)
        /\ UNION {ToSet(s[k]) : k \in 1 .. j} = ToSet(a) \cup ToSet(b)
    BY <2>5, <2>6, <2>7
  <2>10. Good(g, j)
    BY <2>4, <2>8, <2>9
  <2> QED
    BY <2>10 DEF j
<1>6. U = Nat
  <2>1. U \in SUBSET Nat
    OBVIOUS
  <2> HIDE DEF U
  <2> QED
    BY <1>4, <1>5, <2>1, NatInduct
<1>7. n \in U /\ n <= n
  <2>1. n <= n
    BY <1>1
  <2> HIDE DEF U
  <2> QED
    BY <1>1, <1>6, <2>1
<1>8. Good(g, n)
  BY <1>7
<1> QED
  BY <1>3, <1>8 DEF n

\* and that each of them is there once.
LEMMA FlattenedOnce ==
    ASSUME NEW S, NEW s \in Seq(Seq(S)), \A k \in 1 .. Len(s) : Once(s[k]),
           \A k, l \in 1 .. Len(s) : k # l => Keys(s[k]) \cap Keys(s[l]) = {}
    PROVE  Once(FlattenSeq(s))
<1> DEFINE n == Len(s)
           Good(g, i) == /\ Once(g[i])
                         /\ Keys(g[i]) = UNION {Keys(s[k]) : k \in 1 .. i}
<1>1. n \in Nat /\ \A k \in 1 .. n : s[k] \in Seq(S)
  BY LenProperties
<1>2. PICK g : Joins(S, s, g)
  BY FlattenSteps
<1>3. /\ g[0] = <<>> /\ FlattenSeq(s) = g[n]
      /\ \A k \in 1 .. n : g[k] = g[k - 1] \o s[k]
      /\ \A k \in 0 .. n : g[k] \in Seq(S)
  BY <1>2 DEF Joins
<1>10. \A k, l \in 1 .. n : k # l => Keys(s[k]) \cap Keys(s[l]) = {}
  OBVIOUS
<1>11. \A k \in 1 .. n : Once(s[k])
  OBVIOUS
<1> HIDE DEF n
<1> DEFINE U == {i \in Nat : i <= n => Good(g, i)}
<1>4. 0 \in U
  <2>1. Keys(<<>>) = {} /\ Once(<<>>)
    BY DEF Keys, Once
  <2>2. \A k \in 1 .. 0 : FALSE
    OBVIOUS
  <2> QED
    BY <1>3, <2>1, <2>2
<1>5. ASSUME NEW i \in U
      PROVE  i + 1 \in U
  <2> SUFFICES ASSUME i + 1 <= n
               PROVE  Good(g, i + 1)
    OBVIOUS
  <2> DEFINE a == g[i]
             b == s[i + 1]
             j == i + 1
  <2>1. /\ i + 1 \in 1 .. n /\ (i + 1) - 1 = i /\ i \in 0 .. n /\ Good(g, i)
        /\ 1 .. (i + 1) = (1 .. i) \cup {i + 1}
    BY <1>1
  <2>2. a \in Seq(S) /\ b \in Seq(S) /\ Once(a) /\ Once(b)
    BY <1>1, <1>3, <1>11, <2>1
  <2>3. g[j] = g[j - 1] \o s[j]
    BY <1>3, <2>1, Zenon
  <2>4. g[j] = a \o b
    BY <2>1, <2>3
  <2>5. Keys(a) = UNION {Keys(s[k]) : k \in 1 .. i}
    BY <2>1
  <2>6. 1 .. j = (1 .. i) \cup {j} /\ j \in 1 .. n
        /\ \A k \in 1 .. i : k # j /\ k \in 1 .. n
    BY <1>1, <2>1
  <2>7. s[j] = b
    OBVIOUS
  <2> HIDE DEF a, b, j, n, U
  <2>8. Keys(a) \cap Keys(b) = {}
    <3>1. \A k \in 1 .. i : Keys(s[k]) \cap Keys(b) = {}
      BY <1>10, <2>6, <2>7
    <3> QED
      BY <2>5, <3>1
  <2>9. Once(a \o b) /\ Keys(a \o b) = Keys(a) \cup Keys(b)
    BY <2>2, <2>8, JoinedKeys, JoinedOnce
  <2>10. UNION {Keys(s[k]) : k \in 1 .. j} = Keys(a) \cup Keys(b)
    BY <2>5, <2>6, <2>7
  <2>11. Good(g, j)
    BY <2>4, <2>9, <2>10
  <2> QED
    BY <2>11 DEF j
<1>6. U = Nat
  <2>1. U \in SUBSET Nat
    OBVIOUS
  <2> HIDE DEF U
  <2> QED
    BY <1>4, <1>5, <2>1, NatInduct
<1>7. n \in U /\ n <= n
  <2>1. n <= n
    BY <1>1
  <2> HIDE DEF U
  <2> QED
    BY <1>1, <1>6, <2>1
<1>8. Good(g, n)
  BY <1>7
<1> QED
  BY <1>3, <1>8

\* The text of rows has their lines,
LEMMA TextKeys ==
    ASSUME NEW ep, NEW rows \in Seq(RowOf(ep))
    PROVE  /\ Keys(TextOf(rows)) = Keys(rows)
           /\ \A e \in ToSet(TextOf(rows)) : \E row \in ToSet(rows) : e = Shown(row)
<1> DEFINE s == Telling(rows)
           kept == {k \in DOMAIN rows : rows[k].block # NoBlock}
           r == TextOf(rows)
<1>1. /\ DOMAIN rows = 1 .. Len(rows) /\ Len(rows) \in Nat
      /\ \A k \in 1 .. Len(rows) : rows[k].at # 0 => rows[k].block # NoBlock
  <2>1. \A k \in 1 .. Len(rows) : rows[k] \in RowOf(ep)
    BY LenProperties
  <2> QED
    BY <2>1, LenProperties DEF RowOf
<1>2. /\ s \in Seq(Said) /\ Len(s) = Len(rows)
      /\ \A k \in 1 .. Len(rows) : s[k] = Shown(rows[k])
  BY EpochRows, TellingType
<1>3. r = Picked(s, kept)
  BY DEF TextOf, Telling
<1>4. DOMAIN s = 1 .. Len(rows) /\ kept \in SUBSET DOMAIN s
  BY <1>1, <1>2, LenProperties
<1> HIDE DEF s, r
<1>5. r \in Seq(Said) /\ OneByOne(s, kept, Len(s), r)
  BY <1>2, <1>3, <1>4, PickedInOrder
<1>6. /\ \A j \in DOMAIN r : \E p \in kept : r[j] = s[p]
      /\ \A p \in kept : \E j \in DOMAIN r : r[j] = s[p]
  BY <1>1, <1>2, <1>5 DEF OneByOne
<1>7. \A k \in 1 .. Len(rows) : s[k].at = rows[k].at /\ s[k].block = rows[k].block
  <2>1. \A k \in 1 .. Len(rows) :
          Shown(rows[k]).at = rows[k].at /\ Shown(rows[k]).block = rows[k].block
    BY DEF Shown
  <2> QED
    BY <1>2, <2>1
<1> HIDE DEF kept
<1>8. \A p \in kept : p \in 1 .. Len(rows)
  BY <1>4
<1>9. Keys(r) \subseteq Keys(rows)
  <2> SUFFICES ASSUME NEW e \in Keys(r)
               PROVE  e \in Keys(rows)
    OBVIOUS
  <2>1. PICK j \in DOMAIN r : r[j].at # 0 /\ e = <<r[j].block, r[j].at>>
    BY DEF Keys
  <2>2. PICK p \in kept : r[j] = s[p]
    BY <1>6
  <2>3. p \in DOMAIN rows /\ rows[p].at # 0 /\ e = <<rows[p].block, rows[p].at>>
    BY <1>1, <1>7, <1>8, <2>1, <2>2
  <2> QED
    BY <2>3 DEF Keys
<1>10. Keys(rows) \subseteq Keys(r)
  <2> SUFFICES ASSUME NEW e \in Keys(rows)
               PROVE  e \in Keys(r)
    OBVIOUS
  <2>1. PICK p \in DOMAIN rows : rows[p].at # 0 /\ e = <<rows[p].block, rows[p].at>>
    BY DEF Keys
  <2>2. p \in kept
    BY <1>1, <2>1 DEF kept
  <2>3. PICK j \in DOMAIN r : r[j] = s[p]
    BY <1>6, <2>2
  <2>4. r[j].at # 0 /\ e = <<r[j].block, r[j].at>>
    BY <1>1, <1>7, <2>1, <2>3
  <2> QED
    BY <2>4 DEF Keys
<1>11. ASSUME NEW e \in ToSet(r)
       PROVE  \E row \in ToSet(rows) : e = Shown(row)
  <2>1. PICK j \in DOMAIN r : e = r[j]
    BY DEF ToSet
  <2>2. PICK p \in kept : r[j] = s[p]
    BY <1>6
  <2>3. p \in DOMAIN rows /\ e = Shown(rows[p])
    BY <1>1, <1>2, <1>8, <2>1, <2>2
  <2> QED
    BY <2>3 DEF ToSet
<1> QED
  BY <1>9, <1>10, <1>11 DEF r

\* and if it has none twice, neither have the rows.
LEMMA RowsOnce ==
    ASSUME NEW ep, NEW rows \in Seq(RowOf(ep)), Once(TextOf(rows))
    PROVE  Once(rows)
<1> DEFINE n == Len(rows)
<1>1. n \in Nat /\ DOMAIN rows = 1 .. n /\ rows \in Seq(Row)
  BY LenProperties, EpochRows
<1>2. ASSUME NEW i \in 1 .. n, NEW j \in 1 .. n, i < j, rows[i].at # 0,
             rows[i].block = rows[j].block, rows[i].at = rows[j].at
      PROVE  FALSE
  <2> DEFINE a == SubSeq(rows, 1, i)
             b == SubSeq(rows, i + 1, n)
             e == <<rows[i].block, rows[i].at>>
             R == RowOf(ep)
  <2> HIDE DEF R
  <2>0. rows \in Seq(R)
    BY DEF R
  <2>1. /\ a \in Seq(R) /\ Len(a) = i /\ \A k \in 1 .. i : a[k] = rows[k]
        /\ b \in Seq(R) /\ Len(b) = n - i
        /\ \A k \in 1 .. n - i : b[k] = rows[i + k]
    <3>1. a \in Seq(R) /\ Len(a) = i /\ \A k \in 1 .. i : a[k] = rows[k]
      BY <1>1, <2>0
    <3>2. b \in Seq(R)
      BY <1>1, <2>0, LastOf
    <3>3. Len(b) = n - i /\ \A k \in 1 .. n - i : b[k] = rows[i + k]
      <4>1. /\ n - (i + 1) + 1 = n - i /\ i + 1 \in 1 .. Len(rows) + 1
            /\ n \in i .. Len(rows) /\ (i + 1 <= n)
            /\ \A k \in 1 .. n - i : (i + 1) + k - 1 = i + k
        BY <1>1, <1>2
      <4> DEFINE m == i + 1
      <4>2. m \in 1 .. Len(rows) + 1 /\ n \in m - 1 .. Len(rows) /\ m <= n
        BY <4>1
      <4> HIDE DEF m, n
      <4>3. /\ Len(SubSeq(rows, m, n)) = n - m + 1
            /\ \A k \in 1 .. n - m + 1 : SubSeq(rows, m, n)[k] = rows[m + k - 1]
        BY <2>0, <4>2, SubSeqProperties
      <4> QED
        BY <4>1, <4>3 DEF m
    <3> QED
      BY <3>1, <3>2, <3>3
  <2>2. rows = a \o b
    <3> HIDE DEF a, b
    <3>1. Len(rows) = Len(a) + Len(b)
      BY <1>1, <2>1
    <3>2. \A k \in 1 .. Len(a) : rows[k] = a[k]
      BY <2>1
    <3>3. \A k \in 1 .. Len(b) : rows[Len(a) + k] = b[k]
      BY <2>1
    <3> HIDE DEF n
    <3> QED
      BY <2>0, <2>1, <3>1, <3>2, <3>3, RowEqual
  <2>3. e \in Keys(a)
    <3>1. i \in DOMAIN a /\ a[i] = rows[i]
      <4>1. DOMAIN a = 1 .. i /\ i \in 1 .. i
        <5>1. a \in Seq(R) /\ Len(a) = i
          BY <2>1
        <5> HIDE DEF a, n
        <5> QED
          BY <1>1, <5>1, LenProperties
      <4> HIDE DEF a
      <4> QED
        BY <2>1, <4>1
    <3> HIDE DEF a
    <3> QED
      BY <1>2, <3>1 DEF Keys
  <2>4. e \in Keys(b)
    <3>1. j - i \in DOMAIN b /\ b[j - i] = rows[j]
      <4>1. j - i \in 1 .. n - i /\ i + (j - i) = j
        BY <1>1, <1>2
      <4>2. DOMAIN b = 1 .. n - i
        BY <2>1, LenProperties
      <4> HIDE DEF b
      <4> QED
        BY <2>1, <4>1, <4>2
    <3>2. b[j - i].at # 0 /\ e = <<b[j - i].block, b[j - i].at>>
      BY <1>2, <3>1
    <3> DEFINE k == j - i
    <3> HIDE DEF k, b
    <3>3. k \in DOMAIN b /\ b[k].at # 0 /\ e = <<b[k].block, b[k].at>>
      BY <3>1, <3>2 DEF k
    <3> QED
      BY <3>3, Zenon DEF Keys
  <2> HIDE DEF a, b, e
  <2>5. TextOf(rows) = TextOf(a) \o TextOf(b)
    BY <2>1, <2>2, EpochRows, TextJoin DEF R
  <2>6. TextOf(a) \in Seq(Said) /\ TextOf(b) \in Seq(Said)
    BY <2>1, EpochRows, TextType DEF R
  <2>7. Keys(TextOf(a)) \cap Keys(TextOf(b)) = {}
    BY <2>5, <2>6, JoinedOnce
  <2>8. Keys(TextOf(a)) = Keys(a) /\ Keys(TextOf(b)) = Keys(b)
    BY <2>1, TextKeys DEF R
  <2> QED
    BY <2>3, <2>4, <2>7, <2>8
<1> QED
  <2> SUFFICES ASSUME NEW i \in 1 .. n, NEW j \in 1 .. n, rows[i].at # 0,
                      rows[i].block = rows[j].block, rows[i].at = rows[j].at, i # j
               PROVE  FALSE
    BY <1>1 DEF Once
  <2>1. i < j \/ j < i
    BY <1>1
  <2> QED
    BY <1>2, <2>1

\* No two blocks have one id.
Unlike(bs) == \A i, j \in 1 .. Len(bs) : bs[i].id = bs[j].id => i = j

\* What is told of the beginning of a block.
LEMMA ToldKeys ==
    ASSUME NEW b \in Block, NEW n \in Nat, n <= Len(b.snapshot)
    PROVE  /\ Once(Told(b, 1, n)) /\ Keys(Told(b, 1, n)) = {<<b.id, k>> : k \in 1 .. n}
           /\ Told(b, 1, n) \in Seq(Said)
<1>1. Told(b, 1, n) = [k \in 1 .. n |-> [block |-> b.id, at |-> k,
                                         text |-> b.snapshot[k]]]
  BY ToldFirst
<1> DEFINE s == Told(b, 1, n)
<1> HIDE DEF s
<1>2. DOMAIN s = 1 .. n /\ \A k \in 1 .. n : s[k].block = b.id /\ s[k].at = k
  BY <1>1 DEF s
<1>3. \A k \in 1 .. n : k # 0
  OBVIOUS
<1>4. Once(s)
  BY <1>2 DEF Once
<1>5. Keys(s) = {<<b.id, k>> : k \in 1 .. n}
  <2>1. {k \in DOMAIN s : s[k].at # 0} = 1 .. n
    BY <1>2, <1>3
  <2> QED
    BY <1>2, <2>1 DEF Keys
<1>6. s \in Seq(Said)
  <2>1. Spans(b, 1, n)
    BY DEF Spans
  <2> QED
    BY <2>1, ToldType DEF s
<1> QED
  BY <1>4, <1>5, <1>6 DEF s

\* The ledger has no line twice, and none that is still to be told.
LEMMA StoryOnce ==
    ASSUME NEW bs \in Seq(Block), NEW cm \in Seq(Seq(Lines)), Frontier(bs, cm), Unlike(bs)
    PROVE  /\ Once(Story(bs, Len(cm)))
           /\ \A i \in 1 .. Len(bs), k \in Nat :
                <<bs[i].id, k>> \in Keys(Story(bs, Len(cm)))
                  => i <= Len(cm) \/ k <= bs[i].emitted
<1> DEFINE c == Len(cm)
           told(i) == Told(bs[i], 1, Len(bs[i].snapshot))
           s == [i \in 1 .. c |-> told(i)]
           past == Past(bs, c)
           part == Part(bs, c + 1)
           lines(i, n) == {<<bs[i].id, k>> : k \in 1 .. n}
<1>1. /\ c \in Nat /\ c <= Len(bs) /\ Len(bs) \in Nat /\ DOMAIN bs = 1 .. Len(bs)
      /\ \A i \in 1 .. Len(bs) : bs[i] \in Block /\ bs[i].emitted <= Len(bs[i].snapshot)
  BY LenProperties DEF Frontier
<1>2. \A i \in 1 .. c : i \in 1 .. Len(bs)
  BY <1>1
<1>3. \A i \in 1 .. Len(bs) :
        Len(bs[i].snapshot) \in Nat /\ bs[i].emitted \in Nat
  BY <1>1 DEF Block
<1>4. \A i \in 1 .. c : Once(told(i)) /\ Keys(told(i)) = lines(i, Len(bs[i].snapshot))
                        /\ told(i) \in Seq(Said)
  <2> TAKE i \in 1 .. c
  <2> DEFINE b == bs[i]
  <2>1. b \in Block /\ Len(b.snapshot) \in Nat /\ Len(b.snapshot) <= Len(b.snapshot)
    BY <1>1, <1>2, <1>3
  <2> HIDE DEF b
  <2>2. /\ Once(Told(b, 1, Len(b.snapshot)))
        /\ Keys(Told(b, 1, Len(b.snapshot))) = {<<b.id, k>> : k \in 1 .. Len(b.snapshot)}
        /\ Told(b, 1, Len(b.snapshot)) \in Seq(Said)
    BY <2>1, ToldKeys
  <2> QED
    BY <2>2 DEF b
<1>5. s \in Seq(Seq(Said)) /\ past \in Seq(Said) /\ past = FlattenSeq(s)
  <2>1. c \in 0 .. Len(bs)
    BY <1>1
  <2> HIDE DEF c
  <2> QED
    BY <2>1, PastType DEF Past
<1>6. Len(s) = c /\ \A i \in 1 .. c : s[i] = told(i)
  BY <1>1
<1>7. \A i, j \in 1 .. Len(bs), m, n \in Nat : i # j => lines(i, m) \cap lines(j, n) = {}
  BY DEF Unlike
<1> HIDE DEF s, past, told, lines
<1>8. \A i, j \in 1 .. c : i # j => Keys(s[i]) \cap Keys(s[j]) = {}
  <2> SUFFICES ASSUME NEW i \in 1 .. c, NEW j \in 1 .. c, i # j
               PROVE  Keys(s[i]) \cap Keys(s[j]) = {}
    OBVIOUS
  <2>1. /\ Keys(s[i]) = lines(i, Len(bs[i].snapshot))
        /\ Keys(s[j]) = lines(j, Len(bs[j].snapshot))
    BY <1>4, <1>6
  <2>2. /\ i \in 1 .. Len(bs) /\ j \in 1 .. Len(bs)
        /\ Len(bs[i].snapshot) \in Nat /\ Len(bs[j].snapshot) \in Nat
    BY <1>2, <1>3
  <2> QED
    BY <1>7, <2>1, <2>2
<1>9. Once(past)
  <2>1. \A i \in 1 .. Len(s) : Once(s[i])
    BY <1>4, <1>6
  <2> QED
    BY <1>5, <1>6, <1>8, <2>1, FlattenedOnce
<1>10. Keys(past) = UNION {lines(i, Len(bs[i].snapshot)) : i \in 1 .. c}
  <2>1. Keys(past) = UNION {Keys(s[i]) : i \in 1 .. c}
    BY <1>5, <1>6, FlattenedKeys
  <2>2. \A i \in 1 .. c : Keys(s[i]) = lines(i, Len(bs[i].snapshot))
    BY <1>4, <1>6
  <2> QED
    BY <2>1, <2>2
<1>11. /\ Once(part) /\ part \in Seq(Said)
       /\ \/ c + 1 \in 1 .. Len(bs) /\ Keys(part) = lines(c + 1, bs[c + 1].emitted)
          \/ Keys(part) = {}
  <2>1. CASE c + 1 \in DOMAIN bs
    <3> DEFINE b == bs[c + 1]
    <3>1. b \in Block /\ b.emitted \in Nat /\ b.emitted <= Len(b.snapshot)
      BY <1>1, <1>3, <2>1
    <3>2. part = Told(b, 1, b.emitted)
      BY <2>1 DEF Part
    <3> HIDE DEF b, part
    <3>3. /\ Once(part) /\ part \in Seq(Said)
          /\ Keys(part) = {<<b.id, k>> : k \in 1 .. b.emitted}
      BY <3>1, <3>2, ToldKeys
    <3> QED
      BY <1>1, <2>1, <3>3 DEF b, lines
  <2>2. CASE c + 1 \notin DOMAIN bs
    <3>1. part = <<>>
      BY <2>2 DEF Part
    <3>2. Once(<<>>) /\ Keys(<<>>) = {} /\ <<>> \in Seq(Said)
      BY DEF Once, Keys
    <3> QED
      BY <3>1, <3>2
  <2> QED
    BY <2>1, <2>2
<1> HIDE DEF part
<1>12. Keys(past) \cap Keys(part) = {}
  <2>1. ASSUME c + 1 \in 1 .. Len(bs), NEW i \in 1 .. c
        PROVE  lines(i, Len(bs[i].snapshot)) \cap lines(c + 1, bs[c + 1].emitted) = {}
    <3>1. i \in 1 .. Len(bs) /\ i # c + 1
      BY <1>1
    <3> QED
      BY <1>3, <1>7, <2>1, <3>1
  <2> QED
    BY <1>10, <1>11, <2>1
<1>13. Story(bs, c) = past \o part
  BY DEF Story, past, part
<1>14. Once(Story(bs, c)) /\ Keys(Story(bs, c)) = Keys(past) \cup Keys(part)
  BY <1>5, <1>9, <1>11, <1>12, <1>13, JoinedOnce, JoinedKeys
<1>15. ASSUME NEW i \in 1 .. Len(bs), NEW k \in Nat, <<bs[i].id, k>> \in Keys(past) \cup Keys(part),
              ~(i <= c)
       PROVE  k <= bs[i].emitted
  <2>1. <<bs[i].id, k>> \notin Keys(past)
    <3>1. \A j \in 1 .. c : j \in 1 .. Len(bs) /\ j # i
      BY <1>1, <1>15
    <3>2. \A j \in 1 .. c, n \in Nat : <<bs[i].id, k>> \notin lines(j, n)
      BY <3>1 DEF lines, Unlike
    <3> QED
      BY <1>2, <1>3, <1>10, <3>2
  <2>2. c + 1 \in 1 .. Len(bs) /\ <<bs[i].id, k>> \in lines(c + 1, bs[c + 1].emitted)
    BY <1>11, <1>15, <2>1
  <2>3. i = c + 1 /\ k \in 1 .. bs[c + 1].emitted
    BY <2>2 DEF lines, Unlike
  <2> QED
    BY <1>3, <2>3
<1> QED
  BY <1>14, <1>15

-----------------------------------------------------------------------------
(* Reservations. *)

\* Sums of numbers grow.
LEMMA SumsGrow ==
    ASSUME NEW a \in Seq(Nat), NEW j \in 0 .. Len(a)
    PROVE  Sums(a)[j] <= Sums(a)[Len(a)]
<1> DEFINE n == Len(a)
           q == Sums(a)
           U == {k \in Nat : j <= k /\ k <= n => q[j] <= q[k]}
<1>1. /\ n \in Nat /\ j \in 0 .. n /\ j \in Nat
      /\ \A k \in 1 .. n : a[k] \in Nat /\ q[k] = q[k - 1] + a[k]
      /\ \A k \in 0 .. n : q[k] \in Nat
  BY SumsStep, LenProperties DEF SumsUp
<1> HIDE DEF n, q
<1>2. 0 \in U
  BY <1>1
<1>3. ASSUME NEW i \in U
      PROVE  i + 1 \in U
  <2> SUFFICES ASSUME j <= i + 1, i + 1 <= n
               PROVE  q[j] <= q[i + 1]
    OBVIOUS
  <2>1. CASE j = i + 1
    BY <1>1, <2>1
  <2>2. CASE j <= i
    <3>1. i + 1 \in 1 .. n /\ (i + 1) - 1 = i /\ i \in 0 .. n /\ q[j] <= q[i]
      BY <1>1, <2>2
    <3>2. q[i + 1] = q[i] + a[i + 1] /\ a[i + 1] \in Nat /\ q[i] \in Nat /\ q[j] \in Nat
      BY <1>1, <3>1
    <3> QED
      BY <3>1, <3>2
  <2>3. j = i + 1 \/ j <= i
    BY <1>1
  <2> QED
    BY <2>1, <2>2, <2>3
<1>4. U = Nat
  <2>1. U \in SUBSET Nat
    OBVIOUS
  <2> HIDE DEF U
  <2> QED
    BY <1>2, <1>3, <2>1, NatInduct
<1>5. j <= n /\ n <= n /\ n \in U
  <2>1. j <= n /\ n <= n /\ n \in Nat
    BY <1>1
  <2> HIDE DEF U
  <2> QED
    BY <1>4, <2>1
<1> QED
  BY <1>5 DEF n, q

\* What each block asks for, and those before it.
Asked(bs) == [k \in DOMAIN bs |-> Requested(bs[k])]

LEMMA AskedSums ==
    ASSUME NEW bs \in Seq(Block)
    PROVE  /\ Asked(bs) \in Seq(Nat) /\ Len(Asked(bs)) = Len(bs)
           /\ \A k \in 1 .. Len(bs) : Asked(bs)[k] = Requested(bs[k])
           /\ \A i \in 1 .. Len(bs) + 1 :
                /\ RequestedFrom(bs, i) = Sums(Asked(bs))[Len(bs)] - Sums(Asked(bs))[i - 1]
                /\ RequestedFrom(bs, i) \in Nat
<1> DEFINE n == Len(bs)
           a == Asked(bs)
<1>1. n \in Nat /\ DOMAIN bs = 1 .. n /\ \A k \in 1 .. n : bs[k] \in Block
  BY LenProperties
<1>2. \A k \in 1 .. n : Requested(bs[k]) \in Nat
  BY <1>1, RequestedType
<1>3. a = [k \in 1 .. n |-> Requested(bs[k])]
  BY <1>1 DEF Asked
<1> HIDE DEF a, n
<1>4. a \in Seq(Nat) /\ Len(a) = n /\ \A k \in 1 .. n : a[k] = Requested(bs[k])
  BY <1>1, <1>2, <1>3
<1>5. \A i \in 1 .. n + 1 : RequestedFrom(bs, i) = Sums(a)[n] - Sums(a)[i - 1]
  BY DEF RequestedFrom, Asked, a, n
<1>6. ASSUME NEW i \in 1 .. n + 1
      PROVE  RequestedFrom(bs, i) \in Nat
  <2>1. i - 1 \in 0 .. Len(a) /\ n \in 0 .. Len(a)
    BY <1>1, <1>4
  <2>2. Sums(a)[i - 1] <= Sums(a)[n] /\ Sums(a)[i - 1] \in Nat /\ Sums(a)[n] \in Nat
    BY <1>4, <2>1, SumsGrow, SumsType
  <2>3. RequestedFrom(bs, i) = Sums(a)[n] - Sums(a)[i - 1]
    BY <1>5
  <2> QED
    BY <2>2, <2>3
<1> QED
  BY <1>4, <1>5, <1>6 DEF a, n

\* The rows that are left for blocks and history.
Room(bs, sb, h) == Monus(h, SummaryRows(bs, sb, h))

LEMMA RoomType ==
    ASSUME NEW bs \in Seq(Block), NEW sb, NEW h \in Nat
    PROVE  /\ Room(bs, sb, h) \in Nat
           /\ SummaryRows(bs, sb, h) \in 0 .. 1
           /\ h > 0 => Room(bs, sb, h) > 0 /\ Room(bs, sb, h) + SummaryRows(bs, sb, h) = h
BY DEF Room, SummaryRows, Monus, Most

\* What Reserve makes of a block.
LEMMA Reservations ==
    ASSUME NEW bs \in Seq(Block), NEW sb, NEW h \in Nat
    PROVE  LET rs == Reserve(bs, sb, h)
               room == Room(bs, sb, h)
               share(i) == Least(Requested(bs[i]), Monus(room, RequestedFrom(bs, i + 1)))
           IN  /\ rs \in Seq(Block) /\ Len(rs) = Len(bs)
               /\ \A i \in 1 .. Len(bs) :
                    rs[i] = [bs[i] EXCEPT !.reserved = share(i)]
               /\ \A i \in 1 .. Len(bs) : Requested(rs[i]) = Requested(bs[i])
               /\ Asked(rs) = Asked(bs) /\ SummaryRows(rs, sb, h) = SummaryRows(bs, sb, h)
               /\ Sums([k \in DOMAIN rs |-> rs[k].reserved])[Len(rs)]
                    = Least(RequestedFrom(bs, 1), room)
<1> DEFINE n == Len(bs)
           rs == Reserve(bs, sb, h)
           room == Room(bs, sb, h)
           share(i) == Least(Requested(bs[i]), Monus(room, RequestedFrom(bs, i + 1)))
           a == Asked(bs)
           q == Sums(a)
           r == [k \in DOMAIN rs |-> rs[k].reserved]
           t == Sums(r)
<1>1. n \in Nat /\ DOMAIN bs = 1 .. n /\ \A i \in 1 .. n : bs[i] \in Block
  BY LenProperties
<1>2. rs \in Seq(Block) /\ Len(rs) = n /\ DOMAIN rs = 1 .. n
      /\ \A i \in 1 .. n : rs[i] \in Block
  <2>1. rs \in Seq(Block) /\ Len(rs) = n
    BY ReserveAlike DEF Alike
  <2> HIDE DEF rs
  <2> QED
    BY <2>1, LenProperties
<1>3. \A i \in 1 .. n : rs[i] = [bs[i] EXCEPT !.reserved = share(i)]
  BY <1>1 DEF Reserve, Room
<1> HIDE DEF rs
<1>4. \A i \in 1 .. n : /\ rs[i].reserved = share(i) /\ rs[i].state = bs[i].state
                        /\ rs[i].rendered = bs[i].rendered
                        /\ rs[i].snapshot = bs[i].snapshot /\ rs[i].emitted = bs[i].emitted
  <2> HIDE DEF share
  <2> QED
    BY <1>1, <1>3 DEF Block
<1>5. \A i \in 1 .. n : Requested(rs[i]) = Requested(bs[i])
  BY <1>4 DEF Requested, IsPainted
<1>6. Asked(rs) = Asked(bs)
  BY <1>1, <1>2, <1>5 DEF Asked
<1>7. SummaryRows(rs, sb, h) = SummaryRows(bs, sb, h)
  <2>1. RequestedFrom(rs, 1) = RequestedFrom(bs, 1)
    BY <1>2, <1>6 DEF RequestedFrom, Asked
  <2> QED
    BY <2>1 DEF SummaryRows
<1>8. /\ a \in Seq(Nat) /\ Len(a) = n /\ \A k \in 1 .. n : a[k] = Requested(bs[k])
      /\ \A i \in 1 .. n + 1 : RequestedFrom(bs, i) = q[n] - q[i - 1]
                               /\ RequestedFrom(bs, i) \in Nat
  BY AskedSums
<1>9. /\ q[0] = 0 /\ \A k \in 0 .. n : q[k] \in Nat
      /\ \A k \in 1 .. n : q[k] = q[k - 1] + a[k]
  <2> HIDE DEF a
  <2> QED
    BY <1>8, SumsStep DEF SumsUp
<1>10. room \in Nat
  BY RoomType
<1>11. r \in Seq(Nat) /\ Len(r) = n /\ \A k \in 1 .. n : r[k] = share(k)
  <2>1. \A k \in 1 .. n : rs[k].reserved \in Nat
    BY <1>2 DEF Block
  <2> HIDE DEF share, n
  <2> QED
    BY <1>1, <1>2, <1>4, <2>1
<1> HIDE DEF r
<1>12. /\ t[0] = 0 /\ \A k \in 0 .. n : t[k] \in Nat
       /\ \A k \in 1 .. n : t[k] = t[k - 1] + r[k]
  BY <1>11, SumsStep DEF SumsUp
<1> HIDE DEF a, q, t, room, n
<1> DEFINE Q == q[n]
           U == {k \in Nat : k <= n => t[k] = Least(Q, room) - Least(Q - q[k], room)}
<1>13. 0 \in U
  <2>1. Q \in Nat /\ q[0] = 0 /\ t[0] = 0
    BY <1>1, <1>9, <1>12
  <2> DEFINE lim == Q
             none == q[0]
             nil == t[0]
  <2>2. lim \in Nat /\ none = 0 /\ nil = 0
    BY <2>1
  <2> HIDE DEF lim, none, nil
  <2>3. nil = Least(lim, room) - Least(lim - none, room)
    BY <1>10, <2>2 DEF Least
  <2> QED
    BY <2>3 DEF lim, none, nil
<1>14. ASSUME NEW i \in U
       PROVE  i + 1 \in U
  <2> SUFFICES ASSUME i + 1 <= n
               PROVE  t[i + 1] = Least(Q, room) - Least(Q - q[i + 1], room)
    OBVIOUS
  <2>1. /\ i + 1 \in 1 .. n /\ (i + 1) - 1 = i /\ i \in 0 .. n /\ (i + 1) + 1 \in 1 .. n + 1
        /\ ((i + 1) + 1) - 1 = i + 1
    BY <1>1
  <2>2. t[i] = Least(Q, room) - Least(Q - q[i], room)
    BY <2>1
  <2>3. /\ t[i + 1] = t[i] + r[i + 1] /\ q[i + 1] = q[i] + a[i + 1]
        /\ r[i + 1] = Least(a[i + 1], Monus(room, Q - q[i + 1]))
        /\ Q - q[i + 1] \in Nat
    BY <1>8, <1>9, <1>11, <1>12, <2>1
  <2>4. a[i + 1] \in Nat /\ q[i] \in Nat /\ q[i + 1] \in Nat /\ t[i] \in Nat /\ Q \in Nat
    BY SMTT(30), <1>1, <1>8, <1>9, <1>12, <2>1
  <2> DEFINE j == i + 1
             d == Q - q[j]
             ai == a[j]
             qi == q[i]
             ti == t[i]
             tj == t[j]
             lim == Q
  <2>5. /\ d \in Nat /\ ai \in Nat /\ Q - qi = d + ai /\ tj = ti + Least(ai, Monus(room, d))
        /\ ti = Least(lim, room) - Least(d + ai, room) /\ lim \in Nat
    BY SMTT(30), <2>2, <2>3, <2>4
  <2>6. tj = Least(lim, room) - Least(d, room)
    <3> HIDE DEF d, ai, qi, ti, tj, lim, j
    <3> QED
      BY <1>10, <2>5 DEF Least, Monus, Most
  <2> QED
    BY <2>6
<1>15. U = Nat
  <2>1. U \in SUBSET Nat
    OBVIOUS
  <2> HIDE DEF U
  <2> QED
    BY <1>13, <1>14, <2>1, NatInduct
<1>16. t[n] = Least(Q, room) - Least(Q - Q, room)
  <2>1. n \in U /\ n <= n
    <3>1. n \in Nat /\ n <= n
      BY <1>1
    <3> HIDE DEF U
    <3> QED
      BY <1>15, <3>1
  <2> QED
    BY <2>1
<1>17. Q \in Nat /\ RequestedFrom(bs, 1) = Q
  BY <1>1, <1>8, <1>9
<1>18. t[n] = Least(RequestedFrom(bs, 1), room)
  <2> HIDE DEF Q
  <2> QED
    BY <1>10, <1>16, <1>17 DEF Least
<1>19. Sums([k \in DOMAIN rs |-> rs[k].reserved])[Len(rs)] = Least(RequestedFrom(bs, 1), room)
  BY <1>2, <1>18 DEF t, r
<1> HIDE DEF share
<1> QED
  BY <1>2, <1>3, <1>5, <1>6, <1>7, <1>19 DEF n, room, share, rs

-----------------------------------------------------------------------------
(* What is painted of a block. *)

\* The line of a block at a position.
LineAt(b, k) == [block |-> b.id, at |-> k, text |-> b.snapshot[k]]

\* As many rows as it has reserved, no line twice, none that was streamed, and
\* its last lines.
LEMMA PaintedTells ==
    ASSUME NEW b \in Block, NEW ep \in Nat, b.emitted <= Len(b.snapshot),
           b.emitted > 0 => b.mode = "AppendOnly"
    PROVE  /\ Len(Painted(b, ep)) = b.reserved
           /\ Once(Painted(b, ep))
           /\ Keys(Painted(b, ep)) \subseteq
                {<<b.id, k>> : k \in b.emitted + 1 .. Len(b.snapshot)}
           /\ \A k \in b.emitted + 1 .. Len(b.snapshot) :
                k + b.reserved > Len(b.snapshot) =>
                  \E row \in ToSet(Painted(b, ep)) : Shown(row) = LineAt(b, k)
<1> DEFINE stable == IF b.mode = "AppendOnly" THEN b.emitted ELSE 0
           n == Len(b.snapshot)
           r == b.reserved
           e == b.emitted
           start == Most(stable, Monus(n, r))
           painted == Rows(b, start + 1, n, "Append", ep)
           row == [block |-> b.id, at |-> 0, text |-> Blank,
                   source |-> "Append", epoch |-> ep]
           blank == [k \in 1 .. Monus(r, Len(painted)) |-> row]
           p == Painted(b, ep)
           R == RowOf(ep)
<1>1. stable = e /\ n \in Nat /\ r \in Nat /\ e \in Nat /\ e <= n
  BY DEF Block
<1>2. Painted(b, ep) = IF r = 0 THEN <<>> ELSE painted \o blank
  BY DEF Painted
<1>3. /\ start \in Nat /\ e <= start /\ start <= n /\ n <= start + r
      /\ \A k \in e + 1 .. n : k + r > n => k > start
  <2> HIDE DEF stable, n, r, e
  <2> QED
    BY <1>1 DEF Most, Monus
<1> HIDE DEF start
<1>4. painted \in Seq(R)
  <2>1. Spans(b, start + 1, n)
    BY <1>1, <1>3 DEF Spans
  <2> HIDE DEF n
  <2>2. "Append" \in Sources
    BY DEF Sources
  <2> QED
    BY <2>1, <2>2, RowsTell
<1> DEFINE m == n - start
<1>5. /\ m \in Nat /\ m <= r
      /\ painted = [k \in 1 .. m |->
            [block |-> b.id, at |-> (start + 1) + k - 1,
             text |-> b.snapshot[(start + 1) + k - 1],
             source |-> "Append", epoch |-> ep]]
  <2>1. m \in Nat /\ m <= r /\ Monus(n + 1, start + 1) = m
    <3> HIDE DEF stable, n, r, e
    <3> QED
      BY <1>1, <1>3 DEF Most, Monus
  <2> HIDE DEF m
  <2> QED
    BY <2>1 DEF Rows
<1>6. /\ DOMAIN painted = 1 .. m /\ Len(painted) = m
      /\ \A k \in 1 .. m : /\ painted[k].block = b.id /\ painted[k].at = start + k
                           /\ painted[k].text = b.snapshot[start + k]
  <2>1. \A k \in 1 .. m : (start + 1) + k - 1 = start + k
    BY <1>3, <1>5
  <2> DEFINE q == painted
  <2>2. q = [k \in 1 .. m |->
            [block |-> b.id, at |-> (start + 1) + k - 1,
             text |-> b.snapshot[(start + 1) + k - 1],
             source |-> "Append", epoch |-> ep]]
    BY <1>5
  <2> HIDE DEF q, m
  <2>3. /\ DOMAIN q = 1 .. m
        /\ \A k \in 1 .. m : /\ q[k].block = b.id /\ q[k].at = start + k
                             /\ q[k].text = b.snapshot[start + k]
    BY <2>1, <2>2
  <2>4. q \in Seq(R)
    BY <1>4 DEF q
  <2>5. m \in Nat
    BY <1>5
  <2>6. Len(q) = m
    BY <2>3, <2>4, <2>5
  <2> QED
    BY <2>3, <2>6 DEF q
<1> HIDE DEF painted
<1>7. blank = [k \in 1 .. r - m |-> row] /\ r - m \in Nat
  <2> HIDE DEF r, m, row
  <2> QED
    BY <1>1, <1>5, <1>6 DEF Monus, Most
<1>8. blank \in Seq(R) /\ Len(blank) = r - m /\ \A k \in DOMAIN blank : blank[k].at = 0
  <2>1. row \in R /\ row.at = 0
    BY DEF RowOf, Row, Block
  <2> DEFINE d == r - m
  <2>2. d \in Nat /\ blank = [k \in 1 .. d |-> row]
    BY <1>7
  <2> HIDE DEF d, row, blank, R
  <2> QED
    BY <2>1, <2>2 DEF d
<1> HIDE DEF blank
<1>9. CASE r = 0
  <2>1. p = <<>>
    BY <1>2, <1>9
  <2>2. Len(p) = r /\ Once(p) /\ Keys(p) = {}
    BY <1>9, <2>1 DEF Once, Keys
  <2>3. \A k \in e + 1 .. n : ~(k + r > n)
    BY <1>1, <1>9
  <2> QED
    BY <2>2, <2>3
<1>10. CASE r # 0
  <2>1. p = painted \o blank
    BY <1>2, <1>10
  <2>2. Len(p) = r
    <3> HIDE DEF R
    <3>1. Len(p) = Len(painted) + Len(blank)
      BY <1>4, <1>8, <2>1, RowParts, Zenon
    <3> QED
      BY <1>1, <1>5, <1>6, <1>8, <3>1
  <2>3. Once(painted)
    <3> SUFFICES ASSUME NEW i \in 1 .. m, NEW j \in 1 .. m, painted[i].at = painted[j].at
                 PROVE  i = j
      BY <1>6 DEF Once
    <3> QED
      BY <1>3, <1>5, <1>6
  <2>4. Keys(blank) = {} /\ Once(blank)
    BY <1>8 DEF Keys, Once
  <2>5. Keys(painted) \subseteq {<<b.id, k>> : k \in e + 1 .. n}
    <3> SUFFICES ASSUME NEW i \in 1 .. m
                 PROVE  <<painted[i].block, painted[i].at>> \in {<<b.id, k>> : k \in e + 1 .. n}
      BY <1>6 DEF Keys
    <3>1. start + i \in e + 1 .. n
      BY <1>1, <1>3, <1>5
    <3> QED
      BY <1>6, <3>1
  <2>6. Keys(p) = Keys(painted) \cup Keys(blank)
    BY <1>4, <1>8, <2>1, JoinedKeys
  <2>7. Once(p)
    BY <1>4, <1>8, <2>1, <2>3, <2>4, JoinedOnce
  <2>8. ASSUME NEW k \in e + 1 .. n, k + r > n
        PROVE  \E x \in ToSet(p) : Shown(x) = LineAt(b, k)
    <3> DEFINE i == k - start
    <3>1. i \in 1 .. m /\ start + i = k
      BY SMTT(30), <1>1, <1>3, <1>5, <2>8
    <3> HIDE DEF i, m
    <3>2. painted[i] \in ToSet(painted)
      BY <1>6, <3>1 DEF ToSet
    <3>3. ToSet(p) = ToSet(painted) \cup ToSet(blank)
      BY <1>4, <1>8, <2>1, JoinedElements
    <3>4. Shown(painted[i]) = LineAt(b, k)
      BY <1>6, <3>1 DEF Shown, LineAt
    <3> QED
      BY <3>2, <3>3, <3>4
  <2> QED
    BY <2>2, <2>4, <2>5, <2>6, <2>7, <2>8
<1> QED
  BY <1>9, <1>10

\* Sequences in a row are as long as they are together.
LEMMA FlattenedLength ==
    ASSUME NEW S, NEW s \in Seq(Seq(S)), NEW a \in Seq(Nat), Len(a) = Len(s),
           \A k \in 1 .. Len(s) : Len(s[k]) = a[k]
    PROVE  Len(FlattenSeq(s)) = Sums(a)[Len(s)]
<1> DEFINE n == Len(s)
           q == Sums(a)
<1>1. n \in Nat /\ \A k \in 1 .. n : s[k] \in Seq(S) /\ Len(s[k]) = a[k]
  BY LenProperties
<1>2. PICK g : Joins(S, s, g)
  BY FlattenSteps
<1>3. /\ g[0] = <<>> /\ FlattenSeq(s) = g[n]
      /\ \A k \in 1 .. n : g[k] = g[k - 1] \o s[k]
      /\ \A k \in 0 .. n : g[k] \in Seq(S)
  BY <1>2 DEF Joins
<1>4. q[0] = 0 /\ \A k \in 1 .. n : q[k] = q[k - 1] + a[k]
  BY SumsStep DEF SumsUp
<1> HIDE DEF n, q
<1> DEFINE U == {i \in Nat : i <= n => Len(g[i]) = q[i]}
<1>5. 0 \in U
  BY <1>3, <1>4
<1>6. ASSUME NEW i \in U
      PROVE  i + 1 \in U
  <2> SUFFICES ASSUME i + 1 <= n
               PROVE  Len(g[i + 1]) = q[i + 1]
    OBVIOUS
  <2> DEFINE x == g[i]
             y == s[i + 1]
             j == i + 1
  <2>1. j \in 1 .. n /\ j - 1 = i /\ i \in 0 .. n /\ Len(x) = q[i]
    BY <1>1
  <2>2. x \in Seq(S) /\ y \in Seq(S) /\ Len(y) = a[j]
    BY <1>1, <1>3, <2>1
  <2>3. g[j] = g[j - 1] \o s[j] /\ q[j] = q[j - 1] + a[j]
    BY <1>3, <1>4, <2>1
  <2>4. g[j] = x \o y /\ q[j] = Len(x) + Len(y)
    BY <2>1, <2>2, <2>3
  <2> HIDE DEF x, y, j, U
  <2>5. Len(x \o y) = Len(x) + Len(y)
    BY <2>2, RowParts
  <2>6. Len(g[j]) = q[j]
    BY <2>4, <2>5
  <2> QED
    BY <2>6 DEF j
<1>7. U = Nat
  <2>1. U \in SUBSET Nat
    OBVIOUS
  <2> HIDE DEF U
  <2> QED
    BY <1>5, <1>6, <2>1, NatInduct
<1>8. n \in U /\ n <= n
  <2>1. n <= n
    BY <1>1
  <2> HIDE DEF U
  <2> QED
    BY <1>1, <1>7, <2>1
<1> QED
  BY <1>3, <1>8 DEF n, q

-----------------------------------------------------------------------------
(* The frame. *)

\* What is painted of all the blocks.
Drawn(bs, ep) == FlattenSeq([i \in DOMAIN bs |-> Painted(bs[i], ep)])

\* Only a painted block has rows.
Reserves(bs) == \A i \in 1 .. Len(bs) : IsPainted(bs[i]) \/ bs[i].reserved = 0

\* They take up what is reserved, and show no line twice, none of the ledger,
\* and the last lines of each.
LEMMA DrawnTells ==
    ASSUME NEW bs \in Seq(Block), NEW cm \in Seq(Seq(Lines)), Frontier(bs, cm), Unlike(bs),
           Reserves(bs), NEW ep \in Nat
    PROVE  /\ Drawn(bs, ep) \in Seq(RowOf(ep))
           /\ Len(Drawn(bs, ep)) = Sums([k \in DOMAIN bs |-> bs[k].reserved])[Len(bs)]
           /\ Once(Drawn(bs, ep))
           /\ Keys(Drawn(bs, ep)) \cap Keys(Story(bs, Len(cm))) = {}
           /\ \A i \in 1 .. Len(bs) : \A k \in bs[i].emitted + 1 .. Len(bs[i].snapshot) :
                k + bs[i].reserved > Len(bs[i].snapshot) =>
                  \E row \in ToSet(Drawn(bs, ep)) : Shown(row) = LineAt(bs[i], k)
<1> DEFINE n == Len(bs)
           R == RowOf(ep)
           s == [i \in DOMAIN bs |-> Painted(bs[i], ep)]
           a == [k \in DOMAIN bs |-> bs[k].reserved]
           fresh(i) == {<<bs[i].id, k>> : k \in bs[i].emitted + 1 .. Len(bs[i].snapshot)}
<1>1. /\ n \in Nat /\ DOMAIN bs = 1 .. n
      /\ \A i \in 1 .. n : bs[i] \in Block
  BY LenProperties
<1>2. \A i \in 1 .. n : /\ bs[i].emitted <= Len(bs[i].snapshot)
                        /\ bs[i].emitted > 0 => bs[i].mode = "AppendOnly"
                        /\ i <= Len(cm) => bs[i].state = "Committed"
  BY DEF Frontier
<1>3. \A i \in 1 .. n :
        /\ Len(Painted(bs[i], ep)) = bs[i].reserved
        /\ Once(Painted(bs[i], ep))
        /\ Keys(Painted(bs[i], ep)) \subseteq fresh(i)
        /\ \A k \in bs[i].emitted + 1 .. Len(bs[i].snapshot) :
             k + bs[i].reserved > Len(bs[i].snapshot) =>
               \E row \in ToSet(Painted(bs[i], ep)) : Shown(row) = LineAt(bs[i], k)
        /\ Painted(bs[i], ep) \in Seq(R)
  <2> TAKE i \in 1 .. n
  <2> DEFINE b == bs[i]
  <2>1. b \in Block /\ b.emitted <= Len(b.snapshot) /\ (b.emitted > 0 => b.mode = "AppendOnly")
    BY <1>1, <1>2
  <2> HIDE DEF b
  <2>2. /\ Len(Painted(b, ep)) = b.reserved
        /\ Once(Painted(b, ep))
        /\ Keys(Painted(b, ep)) \subseteq
             {<<b.id, k>> : k \in b.emitted + 1 .. Len(b.snapshot)}
        /\ \A k \in b.emitted + 1 .. Len(b.snapshot) :
             k + b.reserved > Len(b.snapshot) =>
               \E row \in ToSet(Painted(b, ep)) : Shown(row) = LineAt(b, k)
    BY <2>1, PaintedTells
  <2>3. Painted(b, ep) \in Seq(R)
    BY <2>1, PaintedType
  <2> QED
    BY <2>2, <2>3 DEF b
<1>4. /\ s \in Seq(Seq(R)) /\ Len(s) = n
      /\ \A i \in 1 .. n : s[i] = Painted(bs[i], ep)
  <2> DEFINE p(i) == Painted(bs[i], ep)
             A == Seq(R)
  <2>1. s = [i \in 1 .. n |-> p(i)] /\ \A i \in 1 .. n : p(i) \in A
    BY <1>1, <1>3
  <2> HIDE DEF p, s, A
  <2>2. s \in Seq(A) /\ Len(s) = n /\ \A i \in 1 .. n : s[i] = p(i)
    BY <1>1, <2>1
  <2> QED
    BY <2>2 DEF p, A
<1>5. /\ a \in Seq(Nat) /\ Len(a) = n
      /\ \A i \in 1 .. n : a[i] = bs[i].reserved
  <2>1. \A i \in 1 .. n : bs[i].reserved \in Nat
    BY <1>1 DEF Block
  <2> HIDE DEF n
  <2> QED
    BY <1>1, <2>1
<1>6. Drawn(bs, ep) = FlattenSeq(s)
  BY DEF Drawn
<1> HIDE DEF s, a, R
<1>7. FlattenSeq(s) \in Seq(R)
  BY <1>4, FlattenType
<1>8. Len(FlattenSeq(s)) = Sums(a)[n]
  <2>1. \A i \in 1 .. Len(s) : Len(s[i]) = a[i]
    BY <1>3, <1>4, <1>5
  <2> HIDE DEF n
  <2>2. Len(FlattenSeq(s)) = Sums(a)[Len(s)]
    BY <1>4, <1>5, <2>1, FlattenedLength
  <2> QED
    BY <1>4, <2>2
<1> HIDE DEF n
<1>9. /\ Keys(FlattenSeq(s)) = UNION {Keys(s[k]) : k \in 1 .. n}
      /\ ToSet(FlattenSeq(s)) = UNION {ToSet(s[k]) : k \in 1 .. n}
  BY <1>4, FlattenedKeys
<1>10. Once(FlattenSeq(s))
  <2>1. \A k \in 1 .. Len(s) : Once(s[k])
    BY <1>3, <1>4
  <2>2. \A k, l \in 1 .. Len(s) : k # l => Keys(s[k]) \cap Keys(s[l]) = {}
    <3> SUFFICES ASSUME NEW k \in 1 .. n, NEW l \in 1 .. n, k # l
                 PROVE  Keys(s[k]) \cap Keys(s[l]) = {}
      BY <1>4
    <3>1. Keys(s[k]) \subseteq fresh(k) /\ Keys(s[l]) \subseteq fresh(l)
      BY <1>3, <1>4
    <3>2. fresh(k) \cap fresh(l) = {}
      <4>1. bs[k].id # bs[l].id
        BY DEF Unlike, n
      <4> QED
        BY <4>1
    <3> QED
      BY <3>1, <3>2
  <2> QED
    BY <1>4, <2>1, <2>2, FlattenedOnce
<1>11. \A i \in 1 .. n : Keys(s[i]) \cap Keys(Story(bs, Len(cm))) = {}
  <2> SUFFICES ASSUME NEW i \in 1 .. n, NEW e \in Keys(s[i]), e \in Keys(Story(bs, Len(cm)))
               PROVE  FALSE
    OBVIOUS
  <2>1. PICK k \in bs[i].emitted + 1 .. Len(bs[i].snapshot) : e = <<bs[i].id, k>>
    BY <1>3, <1>4
  <2>2. k \in Nat /\ k > bs[i].emitted /\ bs[i].emitted \in Nat
    <3>1. bs[i].emitted \in Nat
      BY <1>1 DEF Block
    <3> QED
      BY <3>1
  <2>3. i <= Len(cm) \/ k <= bs[i].emitted
    BY <2>1, <2>2, StoryOnce DEF n
  <2>4. bs[i].state = "Committed"
    BY <1>2, <2>2, <2>3
  <2>5. bs[i].reserved = 0
    BY <2>4 DEF Reserves, IsPainted, n
  <2>6. s[i] = <<>>
    BY <1>4, <2>5 DEF Painted
  <2> QED
    BY <2>6 DEF Keys
<1>12. Keys(FlattenSeq(s)) \cap Keys(Story(bs, Len(cm))) = {}
  BY <1>9, <1>11
<1>13. ASSUME NEW i \in 1 .. n, NEW k \in bs[i].emitted + 1 .. Len(bs[i].snapshot),
              k + bs[i].reserved > Len(bs[i].snapshot)
       PROVE  \E row \in ToSet(FlattenSeq(s)) : Shown(row) = LineAt(bs[i], k)
  <2>1. PICK row \in ToSet(s[i]) : Shown(row) = LineAt(bs[i], k)
    BY <1>3, <1>4, <1>13
  <2>2. row \in ToSet(FlattenSeq(s))
    BY <1>9
  <2> QED
    BY <2>1, <2>2
<1> QED
  BY <1>6, <1>7, <1>8, <1>10, <1>12, <1>13 DEF n, R, a

\* The last rows of a scrollback: as many, no line twice, and none that is not
\* of the ledger.
LEMMA HistoryTells ==
    ASSUME NEW ep, NEW sb \in Seq(RowOf(ep)), NEW ledger \in Seq(Said), Once(ledger),
           History(sb, ledger), NEW d \in Nat, d <= Len(sb)
    PROVE  LET h == SubSeq(sb, d + 1, Len(sb)) IN
           /\ h \in Seq(RowOf(ep)) /\ Len(h) = Len(sb) - d
           /\ d = 0 => h = sb
           /\ Once(h) /\ Keys(h) \subseteq Keys(ledger)
<1> DEFINE n == Len(sb)
           h == SubSeq(sb, d + 1, n)
           R == RowOf(ep)
<1>1. n \in Nat /\ DOMAIN sb = 1 .. n /\ \A i \in 1 .. n : sb[i] \in R
  BY LenProperties
<1>2. h \in Seq(R)
  BY LastOf
<1>3. Len(h) = n - d /\ DOMAIN h = 1 .. n - d /\ \A i \in 1 .. n - d : h[i] = sb[d + i] /\ d + i \in 1 .. n
  <2> HIDE DEF R, n
  <2>1. d + 1 \in 1 .. n + 1
    BY <1>1 DEF n
  <2> QED
    BY <1>1, <2>1
<1>4. ASSUME d = 0
      PROVE  h = sb
  <2> HIDE DEF R, h
  <2>1. Len(h) = Len(sb) /\ \A i \in 1 .. Len(sb) : h[i] = sb[i]
    BY <1>1, <1>3, <1>4
  <2> QED
    BY <1>2, <2>1, SeqEqual
<1>5. Once(sb) /\ Keys(sb) \subseteq Keys(ledger)
  <2>1. PICK p \in Seq(Said) : ledger = p \o TextOf(sb)
    BY DEF History, Ends
  <2>2. TextOf(sb) \in Seq(Said)
    BY EpochRows, TextType
  <2>3. Once(TextOf(sb)) /\ Keys(TextOf(sb)) \subseteq Keys(ledger)
    BY <2>1, <2>2, JoinedOnce, JoinedKeys
  <2>4. Keys(TextOf(sb)) = Keys(sb)
    BY TextKeys
  <2> QED
    BY <2>3, <2>4, RowsOnce
<1> HIDE DEF h, n
<1>6. Once(h)
  <2> SUFFICES ASSUME NEW i \in 1 .. n - d, NEW j \in 1 .. n - d, h[i].at # 0,
                      h[i].block = h[j].block, h[i].at = h[j].at
               PROVE  i = j
    BY <1>3 DEF Once
  <2>1. /\ d + i \in DOMAIN sb /\ d + j \in DOMAIN sb
        /\ h[i] = sb[d + i] /\ h[j] = sb[d + j]
    BY <1>1, <1>3
  <2>2. d + i = d + j
    BY <1>5, <2>1 DEF Once
  <2> QED
    BY <2>2
<1>7. Keys(h) \subseteq Keys(sb)
  <2> SUFFICES ASSUME NEW i \in 1 .. n - d, h[i].at # 0
               PROVE  <<h[i].block, h[i].at>> \in Keys(sb)
    BY <1>3 DEF Keys
  <2>1. d + i \in DOMAIN sb /\ h[i] = sb[d + i]
    BY <1>1, <1>3
  <2> QED
    BY <2>1 DEF Keys
<1> QED
  BY <1>2, <1>3, <1>4, <1>5, <1>6, <1>7 DEF h, n, R

\* The blocks with their reservations are such blocks.
LEMMA ReservedBlocks ==
    ASSUME NEW bs \in Seq(Block), NEW cm \in Seq(Seq(Lines)), Frontier(bs, cm), Unlike(bs),
           NEW sb, NEW h \in Nat
    PROVE  LET rs == Reserve(bs, sb, h) IN
           /\ rs \in Seq(Block) /\ Alike(rs, bs) /\ Frontier(rs, cm) /\ Unlike(rs) /\ Reserves(rs)
           /\ Story(rs, Len(cm)) = Story(bs, Len(cm))
<1> DEFINE rs == Reserve(bs, sb, h)
           room == Room(bs, sb, h)
           share(i) == Least(Requested(bs[i]), Monus(room, RequestedFrom(bs, i + 1)))
<1>1. rs \in Seq(Block) /\ Alike(rs, bs)
  BY ReserveAlike
<1>2. DOMAIN bs = 1 .. Len(bs) /\ Len(bs) \in Nat /\ \A i \in 1 .. Len(bs) : bs[i] \in Block
  BY LenProperties
<1>3. \A i \in 1 .. Len(bs) : rs[i] = [bs[i] EXCEPT !.reserved = share(i)]
  BY <1>2 DEF Reserve, Room
<1> HIDE DEF rs
<1>4. Frontier(rs, cm) /\ Story(rs, Len(cm)) = Story(bs, Len(cm))
  BY <1>1, AlikeKeeps
<1>5. Unlike(rs)
  BY <1>1 DEF Unlike, Alike
<1>6. ASSUME NEW i \in 1 .. Len(rs), ~IsPainted(rs[i])
      PROVE  rs[i].reserved = 0
  <2>1. i \in 1 .. Len(bs) /\ ~IsPainted(bs[i])
    BY <1>1, <1>6 DEF Alike, IsPainted
  <2>2. Requested(bs[i]) = 0
    BY <2>1 DEF Requested
  <2>3. room \in Nat
    BY RoomType
  <2>4. RequestedFrom(bs, i + 1) \in Nat
    <3>1. i + 1 \in 1 .. Len(bs) + 1
      BY <1>2, <2>1
    <3> QED
      BY <3>1, AskedSums
  <2> HIDE DEF room
  <2>5. share(i) = 0
    BY <2>2, <2>3, <2>4 DEF Least, Monus, Most
  <2>6. rs[i] = [bs[i] EXCEPT !.reserved = share(i)] /\ bs[i] \in Block
    BY <1>2, <1>3, <2>1
  <2> HIDE DEF share
  <2>7. rs[i].reserved = share(i)
    BY <2>6 DEF Block
  <2> QED
    BY <2>5, <2>7
<1>7. Reserves(rs)
  BY <1>6 DEF Reserves
<1> QED
  BY <1>1, <1>4, <1>5, <1>7 DEF rs

\* What is reserved: all that is asked for while there is no summary row, and a
\* row at least for a block whose newer ones leave one.
LEMMA Granted ==
    ASSUME NEW bs \in Seq(Block), NEW sb, Len(sb) \in Nat, NEW h \in Nat,
           NEW i \in 1 .. Len(bs), IsPainted(bs[i]), bs[i].emitted <= Len(bs[i].snapshot)
    PROVE  LET r == Reserve(bs, sb, h)[i].reserved
               n == Len(bs[i].snapshot)
               e == bs[i].emitted
           IN  /\ r \in Nat
               /\ e < n /\ RequestedFrom(bs, i + 1) < Spare(h) => r > 0
               /\ h > 1 /\ SummaryRows(bs, sb, h) = 0 => e + r >= n
<1> DEFINE b == bs[i]
           n == Len(b.snapshot)
           e == b.emitted
           room == Room(bs, sb, h)
           after == RequestedFrom(bs, i + 1)
           asked == Requested(b)
           share == Least(asked, Monus(room, after))
           all == RequestedFrom(bs, 1)
           sum == SummaryRows(bs, sb, h)
           r == Reserve(bs, sb, h)[i].reserved
<1>1. b \in Block /\ Len(bs) \in Nat
  BY LenProperties
<1>2. n \in Nat /\ e \in Nat /\ e <= n /\ b.rendered \in Nat
  BY SMTT(30), <1>1 DEF Block
<1>3. asked \in Nat /\ asked >= n - e
  <2>1. asked = Most(b.rendered, Monus(n, e))
    BY DEF Requested
  <2> DEFINE rendered == b.rendered
  <2>2. asked = Most(rendered, Monus(n, e)) /\ rendered \in Nat
    BY <1>2, <2>1
  <2> HIDE DEF asked, n, e, b, rendered
  <2> QED
    BY <1>2, <2>2 DEF Most, Monus
<1>4. /\ room \in Nat /\ sum \in 0 .. 1
      /\ h > 0 => room > 0 /\ room + sum = h
  BY RoomType
<1>5. after \in Nat /\ all \in Nat /\ after + asked <= all
  <2> DEFINE q == Sums(Asked(bs))
             m == Len(bs)
  <2>1. /\ Asked(bs) \in Seq(Nat) /\ Len(Asked(bs)) = m
        /\ Asked(bs)[i] = asked
        /\ \A k \in 1 .. m + 1 : /\ RequestedFrom(bs, k) = q[m] - q[k - 1]
                                 /\ RequestedFrom(bs, k) \in Nat
    BY AskedSums
  <2>2. \A k \in 1 .. m : q[k] = q[k - 1] + Asked(bs)[k]
    BY <2>1, SumsStep DEF SumsUp
  <2>3. \A k \in 0 .. m : q[k] \in Nat
    BY <2>1, SumsType
  <2>4. q[0] = 0
    BY <2>1, SumsStep DEF SumsUp
  <2> HIDE DEF q
  <2>5. /\ i \in 1 .. m /\ i + 1 \in 1 .. m + 1 /\ (i + 1) - 1 = i /\ 1 \in 1 .. m + 1 /\ 1 - 1 = 0
        /\ i - 1 \in 0 .. m /\ i \in 0 .. m /\ m \in 0 .. m /\ i \in Nat
    BY <1>1
  <2>6. /\ after = q[m] - q[i] /\ after \in Nat /\ all = q[m] - q[0] /\ all \in Nat
    BY <2>1, <2>5
  <2>7. q[i] = q[i - 1] + asked /\ q[i - 1] \in Nat /\ q[m] \in Nat /\ q[i] \in Nat
    BY <2>1, <2>2, <2>3, <2>5
  <2> DEFINE here == q[i]
             before == q[i - 1]
             last == q[m]
             first == q[0]
  <2>8. /\ asked \in Nat /\ first = 0 /\ after = last - here /\ all = last - first
        /\ here = before + asked /\ before \in Nat /\ last \in Nat /\ here \in Nat
    BY <1>3, <2>4, <2>6, <2>7
  <2> HIDE DEF asked, after, all, m, here, before, last, first
  <2>9. after + asked <= all
    BY <2>8
  <2> QED
    BY <2>6, <2>9
<1>6. r = share
  <2>1. Reserve(bs, sb, h)[i] = [b EXCEPT !.reserved = share]
    <3>1. i \in DOMAIN bs
      BY LenProperties
    <3> QED
      BY <3>1 DEF Reserve, Room
  <2> HIDE DEF share, b
  <2> QED
    BY <1>1, <2>1 DEF Block
<1>7. (h > 1 /\ sum = 0 => all + Len(sb) <= h) /\ (sum = 1 => h > 1)
  <2>1. sum = IF h > 1 /\ all + Len(sb) > h THEN 1 ELSE 0
    BY DEF SummaryRows
  <2> HIDE DEF all, sum
  <2> QED
    BY <1>5, <2>1
<1> HIDE DEF n, e, room, after, asked, all, sum, b, r
<1>8. r \in Nat
  BY <1>3, <1>4, <1>5, <1>6 DEF Least, Monus, Most
<1>9. e < n /\ after < Spare(h) => r > 0
  <2> SUFFICES ASSUME e < n, after < Spare(h)
               PROVE  r > 0
    OBVIOUS
  <2>1. h > 0
    BY <1>5 DEF Spare
  <2>2. after < room
    BY <1>4, <1>5, <1>7, <2>1 DEF Spare
  <2> QED
    BY <1>2, <1>3, <1>4, <1>5, <1>6, <2>2 DEF Least, Monus, Most
<1>10. h > 1 /\ sum = 0 => e + r >= n
  BY <1>2, <1>3, <1>4, <1>5, <1>6, <1>7 DEF Least, Monus, Most
<1> QED
  BY <1>8, <1>9, <1>10 DEF n, e, after, sum, b, r

\* What a frame of a screen of h rows shows.
ShowsAll(bs, ledger, frame, h) ==
    /\ Len(frame) <= h
    /\ Once(frame)
    /\ \A i \in 1 .. Len(bs) :
         /\ IsPainted(bs[i]) /\ bs[i].emitted < Len(bs[i].snapshot)
         /\ RequestedFrom(bs, i + 1) < Spare(h)
         => \E row \in ToSet(frame) : Shown(row) = LineAt(bs[i], Len(bs[i].snapshot))
    /\ h > 1 =>
         \/ \E row \in ToSet(frame) : row.text = Hidden
         \/ /\ \A e \in ToSet(ledger) : \E row \in ToSet(frame) : Shown(row) = e
            /\ \A i \in 1 .. Len(bs) : IsPainted(bs[i]) =>
                 \A k \in bs[i].emitted + 1 .. Len(bs[i].snapshot) :
                   \E row \in ToSet(frame) : Shown(row) = LineAt(bs[i], k)

\* The summary row, as much of the history as there is room for, and the blocks.
LEMMA FrameShows ==
    ASSUME NEW bs \in Seq(Block), NEW cm \in Seq(Seq(Lines)), Frontier(bs, cm), Unlike(bs),
           NEW ep \in Nat, NEW sb \in Seq(RowOf(ep)), NEW h \in Nat, h < MaxRows,
           History(sb, Story(bs, Len(cm)))
    PROVE  ShowsAll(bs, Story(bs, Len(cm)), Paint(Reserve(bs, sb, h), sb, h, ep), h)
<1> DEFINE R == RowOf(ep)
           rs == Reserve(bs, sb, h)
           ledger == Story(bs, Len(cm))
           sum == SummaryRows(bs, sb, h)
           room == Room(bs, sb, h)
           all == RequestedFrom(bs, 1)
           used == Least(all, room)
           d == Monus(Len(sb), room - used)
           first == IF sum = 1 THEN <<Synthetic(Hidden, ep)>> ELSE <<>>
           history == SubSeq(sb, d + 1, Len(sb))
           drawn == Drawn(rs, ep)
           frame == Paint(rs, sb, h, ep)
<1>1. /\ Len(bs) \in Nat /\ Len(sb) \in Nat /\ DOMAIN bs = 1 .. Len(bs)
      /\ \A i \in 1 .. Len(bs) : bs[i].emitted <= Len(bs[i].snapshot) /\ bs[i] \in Block
  BY LenProperties DEF Frontier
<1>2. /\ rs \in Seq(Block) /\ Alike(rs, bs) /\ Frontier(rs, cm) /\ Unlike(rs) /\ Reserves(rs)
      /\ Story(rs, Len(cm)) = ledger
  BY ReservedBlocks
<1>3. /\ SummaryRows(rs, sb, h) = sum
      /\ Sums([k \in DOMAIN rs |-> rs[k].reserved])[Len(rs)] = used
  BY Reservations
<1>4. /\ room \in Nat /\ sum \in 0 .. 1
      /\ h > 0 => room > 0 /\ room + sum = h
  BY RoomType
<1>5. all \in Nat
  BY <1>1, AskedSums
<1>6. frame = IF h = 0 THEN <<>> ELSE (first \o history) \o drawn
  <2>1. room = Monus(h, SummaryRows(rs, sb, h))
    BY <1>3 DEF Room
  <2> HIDE DEF rs, sum, room, used
  <2> QED
    BY <1>3, <2>1 DEF Paint, Drawn
<1> DEFINE l == Len(sb)
<1>7. /\ used \in Nat /\ used <= room /\ d \in Nat /\ d <= l /\ l - d <= room - used
      /\ h > 1 /\ sum = 0 => d = 0 /\ l <= h
  <2>1. sum = IF h > 1 /\ all + l > h THEN 1 ELSE 0
    BY DEF SummaryRows
  <2>2. l \in Nat
    BY <1>1
  <2> HIDE DEF sum, room, all, l
  <2>3. used \in Nat /\ used <= room
    BY <1>4, <1>5 DEF Least
  <2>4. d \in Nat /\ d <= l /\ l - d <= room - used
    <3> HIDE DEF used
    <3> QED
      BY <1>4, <2>2, <2>3 DEF Monus, Most, l
  <2>5. ASSUME h > 1, sum = 0
        PROVE  d = 0 /\ l <= h
    <3>1. all + l <= h /\ room = h
      BY <1>4, <1>5, <2>1, <2>2, <2>5
    <3>2. used = all
      BY <1>5, <2>2, <3>1 DEF Least
    <3> HIDE DEF used
    <3> QED
      BY <1>5, <2>2, <3>1, <3>2 DEF Monus, Most, l
  <2> QED
    BY <2>3, <2>4, <2>5
<1>8. ledger \in Seq(Said) /\ Once(ledger)
  BY StoryType, StoryOnce
<1>9. /\ drawn \in Seq(R) /\ Len(drawn) = used /\ Once(drawn)
      /\ Keys(drawn) \cap Keys(ledger) = {}
      /\ \A i \in 1 .. Len(rs) : \A k \in rs[i].emitted + 1 .. Len(rs[i].snapshot) :
           k + rs[i].reserved > Len(rs[i].snapshot) =>
             \E row \in ToSet(drawn) : Shown(row) = LineAt(rs[i], k)
  <2> HIDE DEF rs, used, ledger
  <2> QED
    BY <1>2, <1>3, DrawnTells
<1> HIDE DEF rs, sum, room, all, used, d, ledger, drawn
<1>10. /\ history \in Seq(R) /\ Len(history) = l - d /\ (d = 0 => history = sb)
       /\ Once(history) /\ Keys(history) \subseteq Keys(ledger)
  BY <1>7, <1>8, HistoryTells DEF ledger
<1>11. /\ first \in Seq(R) /\ Len(first) = sum /\ Keys(first) = {} /\ Once(first)
       /\ sum = 1 => \E row \in ToSet(first) : row.text = Hidden
  <2> DEFINE e == Synthetic(Hidden, ep)
  <2>1. e \in R /\ e.at = 0 /\ e.text = Hidden
    BY SyntheticType DEF Synthetic
  <2> HIDE DEF e, R
  <2>2. CASE sum = 1
    <3>1. first = <<e>>
      BY <2>2 DEF e
    <3> HIDE DEF first
    <3>2. first \in Seq(R) /\ Len(first) = 1 /\ DOMAIN first = {1} /\ first[1] = e
      BY <2>1, <3>1
    <3>3. Keys(first) = {} /\ Once(first) /\ e \in ToSet(first)
      BY <2>1, <3>2 DEF Keys, Once, ToSet
    <3> QED
      BY <2>1, <2>2, <3>2, <3>3
  <2>3. CASE sum = 0
    <3>1. first = <<>>
      BY <2>3
    <3> HIDE DEF first
    <3>2. first \in Seq(R) /\ Len(first) = 0 /\ DOMAIN first = {}
      BY <3>1
    <3> QED
      BY <2>3, <3>2 DEF Keys, Once
  <2>4. sum = 0 \/ sum = 1
    BY <1>4
  <2> HIDE DEF first, e
  <2> QED
    BY <2>2, <2>3, <2>4
<1> HIDE DEF first, history
<1> DEFINE top == first \o history
<1>12. /\ top \in Seq(R) /\ Len(top) = sum + (l - d)
       /\ Once(top) /\ Keys(top) \subseteq Keys(ledger)
       /\ ToSet(top) = ToSet(first) \cup ToSet(history)
  <2> HIDE DEF R
  <2>1. first \in Seq(R) /\ history \in Seq(R)
    BY <1>10, <1>11
  <2>2. top \in Seq(R)
    BY <2>1, RowType
  <2>3. Len(top) = sum + (l - d)
    BY <1>10, <1>11, <2>1, RowParts
  <2>4. Keys(top) = Keys(first) \cup Keys(history)
    BY <2>1, JoinedKeys
  <2>5. Once(top)
    BY <1>10, <1>11, <2>1, JoinedOnce
  <2>6. ToSet(top) = ToSet(first) \cup ToSet(history)
    BY <2>1, JoinedElements
  <2> QED
    BY <1>10, <1>11, <2>2, <2>3, <2>4, <2>5, <2>6
<1> HIDE DEF top, frame
<1>13. CASE h = 0
  <2>1. frame = <<>>
    BY <1>6, <1>13
  <2>2. Len(frame) = 0 /\ Once(frame)
    BY <2>1 DEF Once
  <2>3. ASSUME NEW i \in 1 .. Len(bs)
        PROVE  ~(RequestedFrom(bs, i + 1) < Spare(h))
    <3>1. i + 1 \in 1 .. Len(bs) + 1
      BY <1>1
    <3>2. RequestedFrom(bs, i + 1) \in Nat
      BY <3>1, AskedSums
    <3> QED
      BY <1>13, <3>2 DEF Spare
  <2> QED
    BY <1>13, <2>2, <2>3 DEF ShowsAll, frame, rs, ledger
<1>14. CASE h # 0
  <2> HIDE DEF R
  <2>1. frame = top \o drawn
    BY <1>6, <1>14 DEF top
  <2>2. Len(frame) = (sum + (l - d)) + used
    BY <1>9, <1>12, <2>1, RowParts
  <2>3. Len(frame) <= h
    <3> DEFINE len == Len(frame)
    <3>1. len = (sum + (l - d)) + used /\ l \in Nat
      BY <1>1, <2>2
    <3> HIDE DEF len, l
    <3> QED
      BY <1>4, <1>7, <1>14, <3>1 DEF len
  <2>4. Once(frame)
    <3>1. Keys(top) \cap Keys(drawn) = {}
      BY <1>9, <1>12
    <3> QED
      BY <1>9, <1>12, <2>1, <3>1, JoinedOnce
  <2>5. ToSet(frame) = (ToSet(first) \cup ToSet(history)) \cup ToSet(drawn)
    BY <1>9, <1>12, <2>1, JoinedElements
  <2>6. ASSUME NEW i \in 1 .. Len(bs), NEW k \in bs[i].emitted + 1 .. Len(bs[i].snapshot),
               k + rs[i].reserved > Len(bs[i].snapshot)
        PROVE  \E row \in ToSet(frame) : Shown(row) = LineAt(bs[i], k)
    <3>1. /\ i \in 1 .. Len(rs) /\ rs[i].emitted = bs[i].emitted
          /\ rs[i].snapshot = bs[i].snapshot /\ rs[i].id = bs[i].id
      BY <1>2 DEF Alike
    <3>2. \E row \in ToSet(drawn) : Shown(row) = LineAt(rs[i], k)
      BY <1>9, <2>6, <3>1
    <3>3. LineAt(rs[i], k) = LineAt(bs[i], k)
      BY <3>1 DEF LineAt
    <3> QED
      BY <2>5, <3>2, <3>3
  <2>7. ASSUME NEW i \in 1 .. Len(bs), IsPainted(bs[i])
        PROVE  /\ rs[i].reserved \in Nat
               /\ bs[i].emitted \in Nat /\ Len(bs[i].snapshot) \in Nat
               /\ bs[i].emitted < Len(bs[i].snapshot) /\ RequestedFrom(bs, i + 1) < Spare(h)
                    => rs[i].reserved > 0
               /\ h > 1 /\ sum = 0 => bs[i].emitted + rs[i].reserved >= Len(bs[i].snapshot)
    <3>1. bs[i].emitted <= Len(bs[i].snapshot) /\ bs[i] \in Block
      BY <1>1
    <3>2. bs[i].emitted \in Nat /\ Len(bs[i].snapshot) \in Nat
      BY <3>1 DEF Block
    <3>3. /\ rs[i].reserved \in Nat
          /\ bs[i].emitted < Len(bs[i].snapshot) /\ RequestedFrom(bs, i + 1) < Spare(h)
               => rs[i].reserved > 0
          /\ h > 1 /\ sum = 0 => bs[i].emitted + rs[i].reserved >= Len(bs[i].snapshot)
      BY <1>1, <2>7, <3>1, Granted DEF rs, sum
    <3> QED
      BY <3>2, <3>3
  <2>8. ASSUME NEW i \in 1 .. Len(bs), IsPainted(bs[i]), bs[i].emitted < Len(bs[i].snapshot),
               RequestedFrom(bs, i + 1) < Spare(h)
        PROVE  \E row \in ToSet(frame) : Shown(row) = LineAt(bs[i], Len(bs[i].snapshot))
    <3> DEFINE n == Len(bs[i].snapshot)
               e == bs[i].emitted
               r == rs[i].reserved
    <3>1. n \in Nat /\ e \in Nat /\ r \in Nat /\ r > 0 /\ e < n
      BY <2>7, <2>8
    <3>2. n \in e + 1 .. n /\ n + r > n
      <4> HIDE DEF n, e, r
      <4> QED
        BY <3>1
    <3> QED
      BY <2>6, <3>2
  <2>9. ASSUME h > 1, sum = 0
        PROVE  /\ \A x \in ToSet(ledger) : \E row \in ToSet(frame) : Shown(row) = x
               /\ \A i \in 1 .. Len(bs) : IsPainted(bs[i]) =>
                    \A k \in bs[i].emitted + 1 .. Len(bs[i].snapshot) :
                      \E row \in ToSet(frame) : Shown(row) = LineAt(bs[i], k)
    <3>1. history = sb /\ l <= h
      BY <1>7, <1>10, <2>9
    <3>2. TextOf(sb) = ledger
      <4>1. l < MaxRows
        BY <1>1, <3>1, TranscriptAssumption
      <4> QED
        BY <4>1 DEF History, ledger
    <3>3. \A x \in ToSet(ledger) : \E row \in ToSet(sb) : x = Shown(row)
      BY <3>2, TextKeys DEF R
    <3>4. ASSUME NEW i \in 1 .. Len(bs), IsPainted(bs[i]),
                 NEW k \in bs[i].emitted + 1 .. Len(bs[i].snapshot)
          PROVE  \E row \in ToSet(frame) : Shown(row) = LineAt(bs[i], k)
      <4> DEFINE n == Len(bs[i].snapshot)
                 e == bs[i].emitted
                 r == rs[i].reserved
      <4>1. n \in Nat /\ e \in Nat /\ r \in Nat /\ e + r >= n /\ k \in e + 1 .. n
        BY <2>7, <2>9, <3>4
      <4>2. k + r > n
        <5> HIDE DEF n, e, r
        <5> QED
          BY <4>1
      <4> QED
        BY <2>6, <4>2
    <3> QED
      BY <2>5, <3>1, <3>3, <3>4
  <2>10. sum = 1 => \E row \in ToSet(frame) : row.text = Hidden
    BY <1>11, <2>5
  <2>11. sum = 0 \/ sum = 1
    BY <1>4
  <2> QED
    BY <2>3, <2>4, <2>8, <2>9, <2>10, <2>11 DEF ShowsAll, frame, rs, ledger
<1> QED
  BY <1>13, <1>14

-----------------------------------------------------------------------------
(* No two blocks have one id. *)

\* Blocks with the ids of others stay apart as they do.
LEMMA StayUnlike ==
    ASSUME NEW bs \in Seq(Block), NEW cs \in Seq(Block), Unlike(bs), DOMAIN cs = DOMAIN bs,
           \A k \in DOMAIN bs : cs[k].id = bs[k].id
    PROVE  Unlike(cs)
<1>1. DOMAIN bs = 1 .. Len(bs) /\ DOMAIN cs = 1 .. Len(cs)
  BY LenProperties
<1> QED
  BY <1>1 DEF Unlike

\* Whatever is reserved for them, cs have the ids of the blocks.
Named(cs) ==
    /\ DOMAIN cs = DOMAIN blocks
    /\ \A k \in DOMAIN blocks : \A x : [cs[k] EXCEPT !.reserved = x].id = blocks[k].id

\* Then a refresh that leaves them does.
LEMMA RefreshUnlike ==
    ASSUME IInv, Unlike(blocks), blocks' \in Seq(Block),
           NEW cs, Named(cs), NEW sb, NEW h, NEW ep, Refresh(cs, sb, h, ep)
    PROVE  Unlike(blocks')
<1> DEFINE room == Monus(h, SummaryRows(cs, sb, h))
           share(k) == Least(Requested(cs[k]), Monus(room, RequestedFrom(cs, k + 1)))
           new == blocks'
<1>1. new = [k \in DOMAIN cs |-> [cs[k] EXCEPT !.reserved = share(k)]]
  BY DEF Refresh, Reserve
<1>2. new \in Seq(Block) /\ blocks \in Seq(Block)
  BY Known
<1> HIDE DEF share, new
<1>3. DOMAIN new = DOMAIN blocks /\ \A k \in DOMAIN blocks : new[k].id = blocks[k].id
  BY <1>1 DEF Named
<1>4. Unlike(new)
  BY <1>2, <1>3, StayUnlike
<1> QED
  BY <1>4 DEF new

\* The blocks themselves have.
LEMMA NamedBlocks ==
    ASSUME IInv
    PROVE  Named(blocks)
<1>1. \A b \in Block : \A x : [b EXCEPT !.reserved = x].id = b.id
  BY DEF Block
<1>2. \A k \in DOMAIN blocks : blocks[k] \in Block
  BY Known, LenProperties
<1> QED
  BY <1>1, <1>2 DEF Named

\* So do they when one of them has other lines,
LEMMA NamedUpdate ==
    ASSUME IInv, NEW i \in DOMAIN blocks, NEW lines, NEW r, NEW cs,
           cs = [blocks EXCEPT ![i].snapshot = lines, ![i].rendered = r]
    PROVE  Named(cs)
<1>1. \A b \in Block : \A x, y, z :
        /\ [b EXCEPT !.reserved = x].id = b.id
        /\ [[b EXCEPT !.snapshot = y, !.rendered = z] EXCEPT !.reserved = x].id = b.id
  BY DEF Block
<1>2. \A k \in DOMAIN blocks : blocks[k] \in Block
  BY Known, LenProperties
<1>3. /\ DOMAIN cs = DOMAIN blocks
      /\ \A k \in DOMAIN blocks :
           cs[k] = IF k = i THEN [blocks[i] EXCEPT !.snapshot = lines, !.rendered = r]
                   ELSE blocks[k]
  BY Known
<1> QED
  BY <1>1, <1>2, <1>3 DEF Named

\* when one of them has streamed,
LEMMA NamedStream ==
    ASSUME IInv, NEW i \in DOMAIN blocks, NEW n, NEW r, NEW cs,
           cs = [blocks EXCEPT ![i].emitted = n, ![i].rendered = r]
    PROVE  Named(cs)
<1>1. \A b \in Block : \A x, y, z :
        /\ [b EXCEPT !.reserved = x].id = b.id
        /\ [[b EXCEPT !.emitted = y, !.rendered = z] EXCEPT !.reserved = x].id = b.id
  BY DEF Block
<1>2. \A k \in DOMAIN blocks : blocks[k] \in Block
  BY Known, LenProperties
<1>3. /\ DOMAIN cs = DOMAIN blocks
      /\ \A k \in DOMAIN blocks :
           cs[k] = IF k = i THEN [blocks[i] EXCEPT !.emitted = n, !.rendered = r]
                   ELSE blocks[k]
  BY Known
<1> QED
  BY <1>1, <1>2, <1>3 DEF Named

\* and when some of them have retired.
LEMMA NamedCommit ==
    ASSUME IInv, NEW retiring, NEW cs,
           cs = [i \in DOMAIN blocks |->
                   IF i \in retiring
                   THEN [blocks[i] EXCEPT !.state = "Committed", !.emitted = 0]
                   ELSE blocks[i]]
    PROVE  Named(cs)
<1>1. \A b \in Block : \A x :
        /\ [b EXCEPT !.reserved = x].id = b.id
        /\ [[b EXCEPT !.state = "Committed", !.emitted = 0] EXCEPT !.reserved = x].id = b.id
  BY DEF Block
<1>2. \A k \in DOMAIN blocks : blocks[k] \in Block
  BY Known, LenProperties
<1> QED
  BY <1>1, <1>2 DEF Named

\* A block that is admitted has an id of its own.
LEMMA AdmitUnlike ==
    ASSUME IInv, Unlike(blocks), NEW id \in Ids, NEW mode \in Modes, Admit(id, mode)
    PROVE  Unlike(blocks')
<1> DEFINE new == [id |-> id, mode |-> mode, state |-> "Queued", snapshot |-> <<>>,
                   emitted |-> 0, reserved |-> 0, rendered |-> 0]
           cs == Append(blocks, new)
           n == Len(blocks)
<1>1. blocks' = cs /\ new.id = id /\ \A i \in 1 .. n : blocks[i].id # id
  BY Known DEF Admit
<1>2. blocks \in Seq(Block) /\ n \in Nat
  BY Known
<1> HIDE DEF new
<1>3. Len(cs) = n + 1 /\ cs[n + 1] = new /\ \A k \in 1 .. n : cs[k] = blocks[k]
  BY <1>2
<1> HIDE DEF cs
<1>4. \A i, j \in 1 .. n : blocks[i].id = blocks[j].id => i = j
  BY DEF Unlike
<1> HIDE DEF n
<1>5. \A i \in 1 .. n + 1 : i \in 1 .. n \/ i = n + 1
  BY <1>2
<1>6. \A i, j \in 1 .. n + 1 : cs[i].id = cs[j].id => i = j
  BY <1>1, <1>3, <1>4, <1>5
<1> QED
  BY <1>1, <1>3, <1>6 DEF Unlike

\* Another state is no other id.
LEMMA StateUnlike ==
    ASSUME IInv, Unlike(blocks), blocks' \in Seq(Block), NEW i \in DOMAIN blocks, NEW state,
           blocks' = [blocks EXCEPT ![i].state = state]
    PROVE  Unlike(blocks')
<1>1. \A b \in Block : [b EXCEPT !.state = state].id = b.id
  BY DEF Block
<1>2. blocks \in Seq(Block) /\ \A k \in DOMAIN blocks : blocks[k] \in Block
  BY Known, LenProperties
<1> DEFINE cs == blocks'
<1>3. cs \in Seq(Block) /\ cs = [blocks EXCEPT ![i].state = state]
  OBVIOUS
<1> HIDE DEF cs
<1>4. DOMAIN cs = DOMAIN blocks /\ \A k \in DOMAIN blocks : cs[k].id = blocks[k].id
  BY <1>1, <1>2, <1>3
<1>5. Unlike(cs)
  BY <1>2, <1>3, <1>4, StayUnlike
<1> QED
  BY <1>5 DEF cs

\* No step gives two blocks one id.
LEMMA NextUnlike ==
    ASSUME IInv, Unlike(blocks), [Next]_vars
    PROVE  Unlike(blocks')
<1>1. blocks' \in Seq(Block)
  BY NextInv, StutterInv DEF IInv, TypeOK
<1>2. CASE UNCHANGED blocks
  BY <1>2 DEF Unlike
<1>3. CASE AdmitSome
  BY <1>3, AdmitUnlike DEF AdmitSome
<1>4. CASE ActivateSome
  BY <1>1, <1>4, StateUnlike DEF ActivateSome, Activate
<1>5. CASE UpdateSome
  <2>1. PICK i \in DOMAIN blocks, lines \in Snapshots : Update(i, lines)
    BY <1>5 DEF UpdateSome
  <2> DEFINE r == Bridge(blocks[i].rendered, Monus(Len(lines), blocks[i].emitted))
             cs == [blocks EXCEPT ![i].snapshot = lines, ![i].rendered = r]
  <2>2. Refresh(cs, scrollback, height, epoch)
    BY <2>1 DEF Update
  <2> HIDE DEF r
  <2>3. Named(cs)
    BY NamedUpdate
  <2> HIDE DEF cs
  <2> QED
    BY <1>1, <2>2, <2>3, RefreshUnlike
<1>6. CASE StreamSome
  <2>1. PICK i \in DOMAIN blocks : \E n \in 0 .. Len(blocks[i].snapshot) : Stream(i, n)
    BY <1>6 DEF StreamSome
  <2>2. PICK n \in 0 .. Len(blocks[i].snapshot) : Stream(i, n)
    BY <2>1
  <2> DEFINE b == blocks[i]
             prefix == Most(b.emitted, Least(n, Len(b.snapshot)))
             r == Least(b.rendered, Monus(Len(b.snapshot), prefix))
             cs == [blocks EXCEPT ![i].emitted = prefix, ![i].rendered = r]
             sb == Ring(scrollback \o Rows(b, b.emitted + 1, prefix, "Append", epoch))
  <2>3. Refresh(cs, sb, height, epoch)
    BY <2>2 DEF Stream
  <2> HIDE DEF r, prefix, sb
  <2>4. Named(cs)
    BY NamedStream
  <2> HIDE DEF cs
  <2> QED
    BY <1>1, <2>3, <2>4, RefreshUnlike
<1>7. CASE FinalizeSome
  BY <1>1, <1>7, StateUnlike DEF FinalizeSome, Finalize
<1>8. ASSUME NEW n, Commit(n)
      PROVE  Unlike(blocks')
  <2> DEFINE retiring == Head1 .. n
             rows == FlattenSeq([k \in 1 .. n - Len(committed) |->
                        LET b == blocks[Len(committed) + k] IN
                        Rows(b, b.emitted + 1, Len(b.snapshot), "Retire", epoch)])
             sb == Ring(scrollback \o rows)
             cs == [i \in DOMAIN blocks |->
                      IF i \in retiring
                      THEN [blocks[i] EXCEPT !.state = "Committed", !.emitted = 0]
                      ELSE blocks[i]]
  <2>1. Refresh(cs, sb, height, epoch)
    BY <1>8 DEF Commit
  <2> HIDE DEF retiring, sb
  <2>2. Named(cs)
    BY NamedCommit
  <2> HIDE DEF cs
  <2> QED
    BY <1>1, <2>1, <2>2, RefreshUnlike
<1>9. CASE RetireSome
  BY <1>8, <1>9 DEF RetireSome, Retire
<1>10. CASE Flush
  BY <1>8, <1>10 DEF Flush
<1>11. ASSUME NEW sb, NEW h, NEW ep, Refresh(blocks, sb, h, ep)
       PROVE  Unlike(blocks')
  <2> DEFINE cs == blocks
  <2>1. Named(cs) /\ Refresh(cs, sb, h, ep)
    BY <1>11, NamedBlocks
  <2> HIDE DEF cs
  <2> QED
    BY <1>1, <2>1, RefreshUnlike
<1>12. CASE ResizeSome
  <2>1. PICK h \in Heights : Preserve(h) \/ Mark(h) \/ Rebuild(h)
    BY <1>12 DEF ResizeSome
  <2>2. \E sb, ep : Refresh(blocks, sb, h, ep)
    BY <2>1 DEF Preserve, Mark, Rebuild, Replay
  <2> QED
    BY <1>11, <2>2
<1>13. CASE Execute
  <2>1. \E sb, ep : Refresh(blocks, sb, target, ep)
    BY <1>13 DEF Execute, Replay
  <2> QED
    BY <1>11, <2>1
<1>14. CASE Render
  BY <1>11, <1>14 DEF Render
<1>15. CASE PrepareSome
  BY <1>2, <1>15 DEF PrepareSome, Prepare
<1>16. CASE FailSome
  BY <1>2, <1>16 DEF FailSome, WriteFailure
<1>17. CASE UNCHANGED vars
  BY <1>2, <1>17 DEF vars
<1> QED
  BY <1>3, <1>4, <1>5, <1>6, <1>7, <1>9, <1>10, <1>12, <1>13, <1>14, <1>15, <1>16, <1>17
     DEF Next

\* The frame that render_frame writes next fits the screen and shows no line
\* twice, not even one that was streamed; the last line of a block is in it if the
\* newer ones ask for fewer rows than there are, and on a screen of two rows or more every line of the
\* transcript is, or a row that says some are hidden (FrameTells).
THEOREM FramesTell == Spec => []FrameTells
<1>1. ASSUME IInv, Unlike(blocks)
      PROVE  FrameTells
  <2> DEFINE frame == Frame
             seen == {Shown(row) : row \in ToSet(frame)}
             ledger == Story(blocks, Len(committed))
  <2>1. ShowsAll(blocks, ledger, frame, height)
    <3>1. height < MaxRows
      BY <1>1, Known, TranscriptAssumption
    <3> QED
      BY <1>1, <3>1, Known, FrameShows DEF Frame
  <2>2. ledger = Ledger
    BY <1>1, Ledgers
  <2> HIDE DEF frame, ledger
  <2>3. Len(frame) <= height
    BY <2>1 DEF ShowsAll
  <2>4. LET lines == {i \in DOMAIN frame : frame[i].at # 0}
        IN  \A i, j \in lines :
              frame[i].block = frame[j].block /\ frame[i].at = frame[j].at => i = j
    BY <2>1 DEF ShowsAll, Once
  <2>5. ASSUME NEW i \in Followed
        PROVE  LET b == blocks[i] IN
               [block |-> b.id, at |-> Len(b.snapshot), text |-> Last(b.snapshot)] \in seen
    <3>1. /\ i \in 1 .. Len(blocks) /\ IsPainted(blocks[i])
          /\ blocks[i].emitted < Len(blocks[i].snapshot)
          /\ RequestedFrom(blocks, i + 1) < Spare(height)
      BY <1>1, Known DEF Followed
    <3>2. PICK row \in ToSet(frame) :
            Shown(row) = LineAt(blocks[i], Len(blocks[i].snapshot))
      BY <2>1, <3>1 DEF ShowsAll
    <3>3. LineAt(blocks[i], Len(blocks[i].snapshot))
            = [block |-> blocks[i].id, at |-> Len(blocks[i].snapshot),
               text |-> Last(blocks[i].snapshot)]
      BY DEF LineAt, Last
    <3> QED
      BY <3>2, <3>3
  <2>6. ASSUME height > 1
        PROVE  (\E row \in seen : row.text = Hidden) \/ ToSet(Ledger) \cup Live \subseteq seen
    <3>1. CASE \E row \in ToSet(frame) : row.text = Hidden
      <4>1. PICK row \in ToSet(frame) : row.text = Hidden
        BY <3>1
      <4>2. Shown(row) \in seen /\ Shown(row).text = Hidden
        BY <4>1 DEF Shown
      <4> QED
        BY <4>2
    <3>2. CASE /\ \A e \in ToSet(ledger) : \E row \in ToSet(frame) : Shown(row) = e
               /\ \A i \in 1 .. Len(blocks) : IsPainted(blocks[i]) =>
                    \A k \in blocks[i].emitted + 1 .. Len(blocks[i].snapshot) :
                      \E row \in ToSet(frame) : Shown(row) = LineAt(blocks[i], k)
      <4>1. ToSet(Ledger) \subseteq seen
        BY <2>2, <3>2
      <4>2. ASSUME NEW e \in Live
            PROVE  e \in seen
        <5>1. PICK i \in DOMAIN blocks :
                /\ IsPainted(blocks[i])
                /\ \E k \in blocks[i].emitted + 1 .. Len(blocks[i].snapshot) :
                     e = LineAt(blocks[i], k)
          BY <4>2 DEF Live, LineAt
        <5>2. i \in 1 .. Len(blocks)
          BY <1>1, Known
        <5>3. \E row \in ToSet(frame) : Shown(row) = e
          BY <3>2, <5>1, <5>2
        <5> QED
          BY <5>3
      <4> QED
        BY <4>1, <4>2
    <3> QED
      BY <2>1, <2>6, <3>1, <3>2 DEF ShowsAll
  <2> QED
    BY <2>3, <2>4, <2>5, <2>6 DEF FrameTells, frame
<1>2. Init => Unlike(blocks)
  BY DEF Init, Unlike
<1>3. IInv /\ Unlike(blocks) /\ [Next]_vars => Unlike(blocks)'
  BY NextUnlike DEF Unlike
<1> QED
  BY <1>1, <1>2, <1>3, Invariance, PTL DEF Spec

-----------------------------------------------------------------------------
(* The menu of the terminal is a sequence. *)

LEMMA Sequenced ==
    ASSUME NEW S, NEW s \in Seq(S)
    PROVE  /\ IsSequence(s) /\ Len(s) \in Nat /\ DOMAIN s = 1 .. Len(s)
           /\ s # <<>> => Len(s) > 0
<1> DEFINE T == {s[i] : i \in DOMAIN s}
<1>1. Len(s) \in Nat /\ DOMAIN s = 1 .. Len(s)
  BY LenProperties
<1>2. \A i \in 1 .. Len(s) : s[i] \in T
  BY <1>1
<1> HIDE DEF T
<1>3. s \in Seq(T)
  BY <1>1, <1>2, SeqDef
<1>4. s # <<>> => Len(s) # 0
  BY EmptySeq
<1> QED
  BY <1>1, <1>3, <1>4 DEF IsSequence, T

LEMMA Listed ==
    ASSUME NEW n \in Nat, NEW f, f = [i \in DOMAIN f |-> f[i]], DOMAIN f = 1 .. n
    PROVE  IsSequence(f)
<1> DEFINE T == {f[i] : i \in DOMAIN f}
<1>1. \A i \in 1 .. n : f[i] \in T
  OBVIOUS
<1> HIDE DEF T
<1>2. f \in Seq(T)
  <2>1. f \in [1 .. n -> T]
    BY <1>1
  <2> QED
    BY <2>1, SeqDef
<1> QED
  BY <1>2 DEF IsSequence, T

\* So are two sequences in a row, a selection, and many in a row.
LEMMA Joined ==
    ASSUME NEW s, IsSequence(s), NEW t, IsSequence(t)
    PROVE  IsSequence(s \o t)
<1> DEFINE S == {s[i] : i \in DOMAIN s}
           T == {t[i] : i \in DOMAIN t}
           U == S \cup T
<1>1. s \in Seq(S) /\ t \in Seq(T)
  BY DEF IsSequence
<1> HIDE DEF S, T
<1>2. s \in Seq(U) /\ t \in Seq(U)
  BY <1>1
<1> HIDE DEF U
<1>3. s \o t \in Seq(U)
  BY <1>2
<1> QED
  BY <1>3, Sequenced

LEMMA PickedSequence ==
    ASSUME NEW s, IsSequence(s), NEW kept \in SUBSET DOMAIN s
    PROVE  IsSequence(Picked(s, kept))
<1> DEFINE S == {s[i] : i \in DOMAIN s}
<1>1. s \in Seq(S)
  BY DEF IsSequence
<1> HIDE DEF S
<1>2. Picked(s, kept) \in Seq(S)
  BY <1>1, PickedInOrder
<1> QED
  BY <1>2, Sequenced

LEMMA Flattened ==
    ASSUME NEW s, IsSequence(s), \A k \in DOMAIN s : IsSequence(s[k])
    PROVE  IsSequence(FlattenSeq(s))
<1> DEFINE P(k) == {s[k][i] : i \in DOMAIN s[k]}
           S == UNION {P(k) : k \in DOMAIN s}
           R == {s[i] : i \in DOMAIN s}
<1>1. \A k \in DOMAIN s : s[k] \in Seq(P(k)) /\ P(k) \subseteq S
  BY DEF IsSequence
<1> HIDE DEF P, S
<1>2. \A k \in DOMAIN s : s[k] \in Seq(S)
  BY <1>1
<1>3. s \in Seq(R)
  BY DEF IsSequence
<1>4. R \subseteq Seq(S)
  BY <1>2
<1> HIDE DEF R
<1>5. s \in Seq(Seq(S))
  BY <1>3, <1>4
<1>6. FlattenSeq(s) \in Seq(S)
  BY <1>5, FlattenType
<1> QED
  BY <1>6, Sequenced

\* The completions of a text, for whatever a snapshot says.
LEMMA LevelsListed ==
    ASSUME NEW query, NEW facts, Readable(facts)
    PROVE  IsSequence(LevelCompletions(query, facts))
<1> DEFINE levels == facts.levels \o <<"auto", "off">>
           kept == {i \in DOMAIN levels : query = Empty \/ Has(levels[i], query)}
           hits == Picked(levels, kept)
           f == [i \in DOMAIN hits |-> Completion(Text("/effort", hits[i]), TRUE)]
<1>1. IsSequence(levels)
  <2>1. IsSequence(facts.levels)
    BY DEF Readable
  <2>2. <<"auto", "off">> \in Seq({"auto", "off"})
    OBVIOUS
  <2>3. IsSequence(<<"auto", "off">>)
    BY <2>2, Sequenced
  <2> QED
    BY <2>1, <2>3, Joined
<1>2. kept \in SUBSET DOMAIN levels
  OBVIOUS
<1> HIDE DEF levels, kept
<1>3. IsSequence(hits)
  BY <1>1, <1>2, PickedSequence
<1> HIDE DEF hits
<1>4. Len(hits) \in Nat /\ DOMAIN hits = 1 .. Len(hits)
  BY <1>3, Sequenced DEF IsSequence
<1>5. DOMAIN f = 1 .. Len(hits) /\ f = [i \in DOMAIN f |-> f[i]]
  BY <1>4
<1>6. LevelCompletions(query, facts) = f
  BY DEF LevelCompletions, hits, kept, levels
<1> HIDE DEF f
<1> QED
  BY <1>4, <1>5, <1>6, Listed

LEMMA ModelsListed ==
    ASSUME NEW query, NEW facts, Readable(facts)
    PROVE  IsSequence(ModelCompletions(query, facts))
<1> DEFINE Kept(models, provider) ==
             {i \in DOMAIN models : MatchesQuery(query, models[i], provider)}
           Hits(models, provider) == Picked(models, Kept(models, provider))
           Select0(hits) ==
             [i \in DOMAIN hits |-> Completion(Text("/provider select", hits[i]), TRUE)]
           Switch(hits, name) ==
             [i \in DOMAIN hits |-> Completion(Text("/provider use", <<name, hits[i]>>), TRUE)]
           passive == {i \in DOMAIN facts.records : ~facts.records[i].active}
           others == Picked(facts.records, passive)
           f == [i \in DOMAIN others |->
                   Switch(Hits(others[i].models, others[i].name), others[i].name)]
           own == Hits(facts.models, facts.provider)
<1>1. ASSUME NEW models, NEW provider, IsSequence(models)
      PROVE  IsSequence(Hits(models, provider))
  <2>1. Kept(models, provider) \in SUBSET DOMAIN models
    OBVIOUS
  <2> HIDE DEF Kept
  <2> QED
    BY <1>1, <2>1, PickedSequence
<1>2. ASSUME NEW hits, IsSequence(hits), NEW name
      PROVE  IsSequence(Select0(hits)) /\ IsSequence(Switch(hits, name))
  <2>1. Len(hits) \in Nat /\ DOMAIN hits = 1 .. Len(hits)
    BY <1>2, Sequenced DEF IsSequence
  <2> DEFINE a == Select0(hits)
             b == Switch(hits, name)
  <2>2. DOMAIN a = 1 .. Len(hits) /\ a = [i \in DOMAIN a |-> a[i]]
    BY <2>1
  <2>3. DOMAIN b = 1 .. Len(hits) /\ b = [i \in DOMAIN b |-> b[i]]
    BY <2>1
  <2> HIDE DEF a, b
  <2>4. IsSequence(a) /\ IsSequence(b)
    BY <2>1, <2>2, <2>3, Listed
  <2> QED
    BY <2>4 DEF a, b
<1>3. IsSequence(facts.models) /\ IsSequence(facts.records)
      /\ \A i \in DOMAIN facts.records : IsSequence(facts.records[i].models)
  BY DEF Readable
<1>4. passive \in SUBSET DOMAIN facts.records
  OBVIOUS
<1> HIDE DEF passive
<1>5. /\ IsSequence(others)
      /\ \A j \in DOMAIN others : \E p \in DOMAIN facts.records : others[j] = facts.records[p]
  <2> DEFINE R == {facts.records[i] : i \in DOMAIN facts.records}
  <2>1. facts.records \in Seq(R)
    BY <1>3 DEF IsSequence
  <2> HIDE DEF R
  <2>2. others \in Seq(R) /\ OneByOne(facts.records, passive, Len(facts.records), others)
    BY <1>4, <2>1, PickedInOrder
  <2>3. IsSequence(others)
    BY <2>2, Sequenced
  <2> HIDE DEF others
  <2> QED
    BY <1>4, <2>2, <2>3 DEF OneByOne
<1> HIDE DEF others
<1>6. \A j \in DOMAIN others : IsSequence(others[j].models)
  BY <1>3, <1>5
<1> HIDE DEF Hits, Select0, Switch
<1>7. \A j \in DOMAIN others :
        IsSequence(Switch(Hits(others[j].models, others[j].name), others[j].name))
  BY <1>1, <1>2, <1>6
<1>8. Len(others) \in Nat /\ DOMAIN others = 1 .. Len(others)
  BY <1>5, Sequenced DEF IsSequence
<1>9. DOMAIN f = 1 .. Len(others) /\ f = [i \in DOMAIN f |-> f[i]]
      /\ \A k \in DOMAIN f : IsSequence(f[k])
  BY <1>7, <1>8
<1> HIDE DEF f
<1>10. IsSequence(FlattenSeq(f))
  <2>1. IsSequence(f)
    BY <1>8, <1>9, Listed
  <2> QED
    BY <1>9, <2>1, Flattened
<1>11. IsSequence(Select0(own))
  BY <1>1, <1>2, <1>3
<1> HIDE DEF own
<1>12. ModelCompletions(query, facts) = Select0(own) \o FlattenSeq(f)
  BY DEF ModelCompletions, Select0, own, f, Hits, Kept, Switch, others, passive
<1> QED
  BY <1>10, <1>11, <1>12, Joined

LEMMA SnapshotListed ==
    ASSUME NEW facts, Readable(facts)
    PROVE  IsSequence(SnapshotCompletions(facts))
<1> DEFINE kept == {i \in DOMAIN Settings :
                      \A k \in DOMAIN facts.settings : facts.settings[k] # Settings[i]}
           named == facts.settings \o Picked(Settings, kept)
           a == [i \in DOMAIN facts.aliases |-> Completion(Text(facts.aliases[i], None), TRUE)]
           b == [i \in DOMAIN named |-> Completion(Text(named[i], Empty), FALSE)]
<1>1. IsSequence(facts.aliases) /\ IsSequence(facts.settings) /\ IsSequence(Settings)
  BY PaletteAssumption DEF Readable
<1>2. kept \in SUBSET DOMAIN Settings
  OBVIOUS
<1> HIDE DEF kept
<1>3. IsSequence(named)
  BY <1>1, <1>2, PickedSequence, Joined
<1> HIDE DEF named
<1>4. \A s : IsSequence(s) => Len(s) \in Nat /\ DOMAIN s = 1 .. Len(s)
  BY Sequenced DEF IsSequence
<1>5. DOMAIN a = 1 .. Len(facts.aliases) /\ a = [i \in DOMAIN a |-> a[i]]
  BY <1>1, <1>4
<1>6. DOMAIN b = 1 .. Len(named) /\ b = [i \in DOMAIN b |-> b[i]]
  BY <1>3, <1>4
<1>7. SnapshotCompletions(facts) = a \o b
  BY DEF SnapshotCompletions, kept, named
<1> HIDE DEF a, b
<1>8. IsSequence(a) /\ IsSequence(b)
  BY <1>1, <1>3, <1>4, <1>5, <1>6, Listed
<1> QED
  BY <1>7, <1>8, Joined

LEMMA CompletionsListed ==
    ASSUME NEW text, NEW facts, Readable(facts)
    PROVE  IsSequence(Completions(text, facts))
<1> DEFINE all == Roster \o SnapshotCompletions(facts)
           first == {i \in DOMAIN all :
                       text = all[i].insert \/ <<text, all[i].insert>> \in Begins}
           later == {i \in DOMAIN all \ first : <<text, all[i].insert>> \in Within}
           one == Completion(Text("/effort", Empty), TRUE)
<1>1. IsSequence(all)
  BY PaletteAssumption, SnapshotListed, Joined
<1>2. first \in SUBSET DOMAIN all /\ later \in SUBSET DOMAIN all
  OBVIOUS
<1> HIDE DEF all, first, later
<1>3. IsSequence(Picked(all, first)) /\ IsSequence(Picked(all, later))
  BY <1>1, <1>2, PickedSequence
<1>4. IsSequence(Picked(all, first) \o Picked(all, later))
  BY <1>3, Joined
<1>5. IsSequence(<<>>)
  <2>1. <<>> \in Seq({})
    OBVIOUS
  <2> QED
    BY <2>1, Sequenced
<1>6. IsSequence(<<one>>)
  <2> HIDE DEF one
  <2>1. <<one>> \in Seq({one})
    OBVIOUS
  <2> QED
    BY <2>1, Sequenced
<1>7. IsSequence(LevelCompletions(text.arg, facts)) /\ IsSequence(ModelCompletions(text.arg, facts))
  BY LevelsListed, ModelsListed
<1>8. \/ Completions(text, facts) \in {<<>>, <<one>>, LevelCompletions(text.arg, facts),
                                       ModelCompletions(text.arg, facts)}
      \/ Completions(text, facts) = Picked(all, first) \o Picked(all, later)
  BY DEF Completions, all, first, later
<1> HIDE DEF one
<1> QED
  BY <1>4, <1>5, <1>6, <1>7, <1>8

-----------------------------------------------------------------------------
(* The terminal: the inductive invariant. *)

Views == [session : Sessions, line : OffsetLines]
Events ==
    [kind : {"Snapshot", "SessionChanged"}, snapshot : Views]
      \cup [kind : {"Patch"}, base : Nat, offset : Nat]
      \cup [kind : {"Settled"}, ok : BOOLEAN]
      \cup [kind : {"Diagnostic"}]
WorkerPhases == {"starting", "idle", "working", "settling", "shutdown", "gone"}
UiPhases == {"poll", "key", "stopping", "ended"}
WorkerFields == {"phase", "session", "base", "orphans", "line", "steps", "ok", "polls"}
UiFields == {"pc", "draft", "dismissed", "selected", "menu", "panel", "busy", "ready",
             "pending", "armed", "dirty"}

\* The interface serves its user.
Serving == ui.pc \in {"poll", "key"}

WorkerInv ==
    /\ DOMAIN worker = WorkerFields
    /\ worker.phase \in WorkerPhases /\ worker.session \in Sessions /\ worker.base \in Nat
    /\ worker.ok \in BOOLEAN
    /\ handle \in Sessions /\ view \in Views

UiInv ==
    /\ DOMAIN ui = UiFields
    /\ ui.pc \in UiPhases /\ ui.busy \in BOOLEAN /\ ui.dirty \in BOOLEAN
    /\ ui.selected \in Nat
    /\ ui.pc # "key" => ui.menu = <<>>

\* A worker starts on an empty pipe, and fills it up to its capacity but for the
\* last answer.
PipeInv ==
    /\ pipe \in Seq(Events)
    /\ Len(pipe) <= Capacity + 1
    /\ Alive => Len(pipe) <= Capacity
    /\ worker.phase = "starting" => pipe = <<>>

\* Until the run ends no one asks for the shutdown.
RequestsInv ==
    /\ IsSequence(requests)
    /\ Serving => \A i \in 1 .. Len(requests) : requests[i] # ShutdownRequest

\* The line of a record ends in its offset, behind others of its journal.
EndsIn(line, k) == line \in Seq(1 .. k) /\ Len(line) \in 1 .. k /\ Last(line) = k
JournalsInv ==
    /\ journals \in [Sessions -> Seq(OffsetLines)]
    /\ \A s \in Sessions : Len(journals[s]) <= MaxRecords
    /\ \A s \in Sessions : \A k \in 1 .. Len(journals[s]) : EndsIn(journals[s][k], k)

\* The worker tells of records on the last one of its journal.
Speaking == worker.phase \notin {"starting", "gone"}
BaseInv == Speaking => worker.base = Offset(Now)

\* A snapshot shows a record of its session, or none.
Recorded(snap) ==
    /\ snap \in Views
    /\ \/ snap.line = <<>>
       \/ \E k \in 1 .. Len(journals[snap.session]) : snap.line = journals[snap.session][k]

\* What the interface will know after each of the events under way.
Course(f) ==
    /\ f[0] = view
    /\ \A k \in 1 .. Len(pipe) : f[k] = Learned(f[k - 1], pipe[k])
    /\ \A k \in 0 .. Len(pipe) : Recorded(f[k]) /\ f[k].session <= worker.session
    /\ \A k \in 1 .. Len(pipe) :
         pipe[k].kind = "Snapshot" => pipe[k].snapshot.session = f[k - 1].session
    /\ Alive => f[Len(pipe)].session = worker.session
    /\ Speaking => f[Len(pipe)] = HeadOf(worker.session)
ViewInv == Serving => view.session = handle /\ \E f : Course(f)

\* What is drawn is what is, until it gets dirty.
ShownInv ==
    /\ ui.pc = "key" =>
         /\ shown = Screen(ui) /\ ui.menu = Candidates
         /\ ui.selected <= MenuEnd(ui.menu) /\ ~ui.dirty
    /\ ui.pc = "poll" /\ ~ui.dirty =>
         /\ shown = Screen([ui EXCEPT !.menu = Candidates])
         /\ ui.selected <= MenuEnd(Candidates)

TuiInv ==
    /\ WorkerInv /\ UiInv /\ PipeInv /\ RequestsInv /\ JournalsInv /\ BaseInv
    /\ ViewInv /\ ShownInv /\ OneAtATime

\* What can be completed is a sequence, with a last position.
LEMMA CandidatesListed ==
    ASSUME view \in Views
    PROVE  /\ IsSequence(Candidates) /\ Len(Candidates) \in Nat
           /\ Candidates # <<>> => Len(Candidates) > 0
           /\ MenuEnd(Candidates) \in Nat
<1>1. IsSequence(<<>>)
  <2>1. <<>> \in Seq({})
    OBVIOUS
  <2> QED
    BY <2>1, Sequenced
<1>2. view.line \in OffsetLines
  BY DEF Views
<1>3. Readable(Facts(view.line))
  BY <1>2, TuiAssumption
<1>4. IsSequence(Candidates)
  BY <1>1, <1>3, CompletionsListed DEF Candidates
<1>5. Len(Candidates) \in Nat /\ (Candidates # <<>> => Len(Candidates) > 0)
  BY <1>4, Sequenced DEF IsSequence
<1> QED
  BY <1>4, <1>5 DEF MenuEnd

\* There is room for an event, and for a record.
LEMMA SomeRoom ==
    /\ Capacity \in Nat /\ 0 <= Capacity /\ 0 <= Capacity + 1
    /\ MaxRecords \in Nat /\ 0 <= MaxRecords /\ 1 <= MaxRecords
<1>1. Capacity \in Nat \ {0} /\ MaxRecords \in Nat \ {0}
  BY Zenon, TuiAssumption
<1> QED
  BY <1>1

-----------------------------------------------------------------------------
(* The journals of the terminal's sessions. *)

\* A line that ends in k is one of the bounded ones.
LEMMA LineBounded ==
    ASSUME NEW k \in Nat, k <= MaxRecords, NEW line, EndsIn(line, k)
    PROVE  line \in OffsetLines /\ Len(line) \in Nat /\ line # <<>> /\ Offset(line) = k
<1>1. /\ line \in Seq(1 .. k) /\ Len(line) \in 1 .. k /\ Last(line) = k
      /\ MaxRecords \in Nat
  BY TuiAssumption DEF EndsIn
<1>2. line \in [1 .. Len(line) -> 1 .. k]
  BY <1>1
<1>3. 1 .. k \subseteq 1 .. MaxRecords /\ Len(line) \in 0 .. MaxRecords
  BY <1>1
<1>4. line \in [1 .. Len(line) -> 1 .. MaxRecords]
  BY <1>2, <1>3
<1>5. line \in OffsetLines
  BY <1>3, <1>4 DEF OffsetLines
<1>6. line # <<>>
  BY <1>1
<1> QED
  BY <1>1, <1>5, <1>6 DEF Offset

\* The next record behind a line.
LEMMA LineGrows ==
    ASSUME NEW n \in Nat, NEW line,
           line = <<>> \/ \E k \in 1 .. n : EndsIn(line, k)
    PROVE  EndsIn(Append(line, n + 1), n + 1)
<1> DEFINE new == Append(line, n + 1)
<1>1. line \in Seq(1 .. (n + 1)) /\ Len(line) \in 0 .. n
  <2>1. CASE line = <<>>
    BY <2>1
  <2>2. CASE \E k \in 1 .. n : EndsIn(line, k)
    <3>1. PICK k \in 1 .. n : line \in Seq(1 .. k) /\ Len(line) \in 1 .. k
      BY <2>2 DEF EndsIn
    <3>2. 1 .. k \subseteq 1 .. (n + 1)
      OBVIOUS
    <3> QED
      BY <3>1, <3>2
  <2> QED
    BY <2>1, <2>2
<1>2. n + 1 \in 1 .. (n + 1)
  OBVIOUS
<1>3. new \in Seq(1 .. (n + 1)) /\ Len(new) = Len(line) + 1 /\ new[Len(line) + 1] = n + 1
  BY <1>1, <1>2, AppendProperties
<1> HIDE DEF new
<1>4. Last(new) = n + 1
  BY <1>1, <1>3 DEF Last
<1>5. EndsIn(new, n + 1)
  BY <1>1, <1>3, <1>4 DEF EndsIn
<1> QED
  BY <1>5 DEF new

\* What the journals hold.
LEMMA JournalLines ==
    ASSUME JournalsInv, NEW s \in Sessions
    PROVE  /\ journals[s] \in Seq(OffsetLines) /\ Len(journals[s]) \in Nat
           /\ Len(journals[s]) <= MaxRecords /\ MaxRecords \in Nat
           /\ \A k \in 1 .. Len(journals[s]) :
                /\ EndsIn(journals[s][k], k)
                /\ journals[s][k] \in OffsetLines /\ journals[s][k] # <<>>
                /\ Offset(journals[s][k]) = k
           /\ <<>> \in OffsetLines /\ Offset(<<>>) = 0
<1>1. journals[s] \in Seq(OffsetLines) /\ Len(journals[s]) <= MaxRecords
  BY DEF JournalsInv
<1>2. Len(journals[s]) \in Nat /\ MaxRecords \in Nat
  BY <1>1, LenProperties, TuiAssumption
<1>3. \A k \in 1 .. Len(journals[s]) :
        EndsIn(journals[s][k], k) /\ k \in Nat /\ k <= MaxRecords
  BY <1>1, <1>2 DEF JournalsInv
<1>4. <<>> \in OffsetLines
  <2>1. <<>> \in [1 .. 0 -> 1 .. MaxRecords] /\ 0 \in 0 .. MaxRecords
    BY <1>2
  <2> QED
    BY <2>1 DEF OffsetLines
<1>5. Offset(<<>>) = 0
  BY DEF Offset
<1> QED
  BY <1>1, <1>2, <1>3, <1>4, <1>5, LineBounded

\* The last record of a session, and those with its offset.
LEMMA HeadRecorded ==
    ASSUME JournalsInv, NEW s \in Sessions
    PROVE  /\ Recorded(HeadOf(s)) /\ HeadOf(s).session = s
           /\ Offset(HeadOf(s).line) = Len(journals[s])
           /\ \A line : Recorded(Snapshot(s, line)) /\ Offset(line) = Offset(HeadOf(s).line)
                          => line = HeadOf(s).line
<1> DEFINE n == Len(journals[s])
<1>1. /\ journals[s] \in Seq(OffsetLines) /\ n \in Nat
      /\ \A k \in 1 .. n : /\ journals[s][k] \in OffsetLines /\ journals[s][k] # <<>>
                           /\ Offset(journals[s][k]) = k
      /\ <<>> \in OffsetLines /\ Offset(<<>>) = 0
  BY JournalLines
<1>2. journals[s] = <<>> <=> n = 0
  BY <1>1, EmptySeq
<1>3. HeadOf(s) = Snapshot(s, IF n = 0 THEN <<>> ELSE journals[s][n])
  BY <1>2 DEF HeadOf, Last
<1>4. HeadOf(s).session = s /\ HeadOf(s).line = IF n = 0 THEN <<>> ELSE journals[s][n]
  BY <1>3 DEF Snapshot
<1>5. HeadOf(s) \in Views /\ Offset(HeadOf(s).line) = n
  BY <1>1, <1>3, <1>4 DEF Snapshot, Views
<1>6. Recorded(HeadOf(s))
  <2>1. n # 0 => n \in 1 .. n
    BY <1>1
  <2> QED
    BY <1>1, <1>4, <1>5, <2>1 DEF Recorded
<1>7. ASSUME NEW line, Recorded(Snapshot(s, line)), Offset(line) = n
      PROVE  line = HeadOf(s).line
  <2>1. line = <<>> \/ \E k \in 1 .. n : line = journals[s][k]
    BY <1>7 DEF Recorded, Snapshot
  <2> QED
    BY <1>1, <1>4, <1>7, <2>1
<1> QED
  BY <1>4, <1>5, <1>6, <1>7

\* A record more.
LEMMA JournalGrows ==
    ASSUME JournalsInv, NEW s \in Sessions, NEW line, Recorded(Snapshot(s, line)),
           Len(journals[s]) < MaxRecords, NEW new,
           new = Append(line, Len(journals[s]) + 1),
           journals' = [journals EXCEPT ![s] = Append(@, new)]
    PROVE  /\ JournalsInv'
           /\ new \in OffsetLines /\ Last(new) = Len(journals[s]) + 1 /\ Offset(new) = Last(new)
           /\ HeadOf(s)' = Snapshot(s, new)
           /\ \A t \in Sessions : t # s => HeadOf(t)' = HeadOf(t)
           /\ \A snap : Recorded(snap) => Recorded(snap)'
<1> DEFINE n == Len(journals[s])
<1>1. /\ journals[s] \in Seq(OffsetLines) /\ n \in Nat /\ n + 1 <= MaxRecords
      /\ \A k \in 1 .. n : EndsIn(journals[s][k], k)
      /\ journals \in [Sessions -> Seq(OffsetLines)] /\ MaxRecords \in Nat
  BY JournalLines DEF JournalsInv
<1>2. EndsIn(new, n + 1)
  <2>1. line = <<>> \/ \E k \in 1 .. n : line = journals[s][k]
    BY DEF Recorded, Snapshot
  <2>2. line = <<>> \/ \E k \in 1 .. n : EndsIn(line, k)
    BY <1>1, <2>1
  <2> QED
    BY <1>1, <2>2, LineGrows
<1>3. new \in OffsetLines /\ Offset(new) = n + 1 /\ Last(new) = n + 1
  <2>1. Last(new) = n + 1
    BY <1>2 DEF EndsIn
  <2>2. n + 1 \in Nat
    BY <1>1
  <2> HIDE DEF n
  <2> QED
    BY <1>1, <1>2, <2>1, <2>2, LineBounded
<1>4. journals'[s] = Append(journals[s], new) /\ \A t \in Sessions : t # s => journals'[t] = journals[t]
  BY <1>1
<1>5. /\ journals'[s] \in Seq(OffsetLines) /\ Len(journals'[s]) = n + 1
      /\ journals'[s][n + 1] = new
      /\ \A k \in 1 .. n : journals'[s][k] = journals[s][k]
  BY <1>1, <1>3, <1>4, AppendProperties
<1>6. journals' \in [Sessions -> Seq(OffsetLines)]
  <2>1. \A t \in Sessions : journals'[t] \in Seq(OffsetLines)
    BY <1>1, <1>4, <1>5
  <2> QED
    BY <1>1, <2>1
<1>7. JournalsInv'
  <2>1. \A t \in Sessions : Len(journals'[t]) <= MaxRecords
    BY <1>1, <1>4, <1>5 DEF JournalsInv
  <2>2. \A t \in Sessions : \A k \in 1 .. Len(journals'[t]) : EndsIn(journals'[t][k], k)
    <3>1. \A k \in 1 .. (n + 1) : k \in 1 .. n \/ k = n + 1
      BY <1>1
    <3> QED
      BY <1>1, <1>2, <1>4, <1>5, <3>1 DEF JournalsInv
  <2> QED
    BY <1>6, <2>1, <2>2 DEF JournalsInv
<1>8. HeadOf(s)' = Snapshot(s, new)
  <2>1. journals'[s] # <<>>
    BY <1>1, <1>5
  <2>2. Last(journals'[s]) = new
    BY <1>5 DEF Last
  <2> QED
    BY <2>1, <2>2 DEF HeadOf, Snapshot
<1>9. \A t \in Sessions : t # s => HeadOf(t)' = HeadOf(t)
  BY <1>4 DEF HeadOf, Snapshot
<1>10. ASSUME NEW snap, Recorded(snap)
       PROVE  Recorded(snap)'
  <2>1. snap \in Views /\ snap.session \in Sessions
    BY <1>10 DEF Recorded, Views
  <2>2. \A k \in 1 .. n : k \in 1 .. (n + 1)
    BY <1>1
  <2> QED
    BY <1>4, <1>5, <1>10, <2>1, <2>2 DEF Recorded
<1> QED
  BY <1>3, <1>7, <1>8, <1>9, <1>10

-----------------------------------------------------------------------------
(* How many answers are under way. *)

Answers(p) == {i \in DOMAIN p : p[i].kind = "Settled"}

\* One more, if it is an answer.
LEMMA AnswersGrow ==
    ASSUME NEW S, NEW p \in Seq(S), NEW e \in S
    PROVE  /\ IsFiniteSet(Answers(p)) /\ Cardinality(Answers(p)) \in Nat
           /\ Cardinality(Answers(Append(p, e))) =
                Cardinality(Answers(p)) + (IF e.kind = "Settled" THEN 1 ELSE 0)
<1> DEFINE n == Len(p)
           q == Append(p, e)
<1>1. n \in Nat /\ DOMAIN p = 1 .. n
  BY LenProperties
<1>2. DOMAIN q = 1 .. (n + 1) /\ q[n + 1] = e /\ \A i \in 1 .. n : q[i] = p[i]
  BY <1>1, AppendProperties
<1>3. IsFiniteSet(Answers(p)) /\ Cardinality(Answers(p)) \in Nat
  <2>1. IsFiniteSet(1 .. n)
    BY <1>1, FS_Interval
  <2>2. Answers(p) \in SUBSET (1 .. n)
    BY <1>1 DEF Answers
  <2> QED
    BY <2>1, <2>2, FS_Subset, FS_CardinalityType
<1> HIDE DEF q
<1>4. \A i \in 1 .. (n + 1) : i \in 1 .. n \/ i = n + 1
  BY <1>1
<1>5. n + 1 \notin Answers(p)
  BY <1>1 DEF Answers
<1>6. CASE e.kind = "Settled"
  <2>1. Answers(q) = Answers(p) \cup {n + 1}
    BY <1>1, <1>2, <1>4, <1>6 DEF Answers
  <2>2. Cardinality(Answers(p) \cup {n + 1}) = Cardinality(Answers(p)) + 1
    BY <1>3, <1>5, FS_AddElement
  <2> QED
    BY <1>3, <1>6, <2>1, <2>2 DEF q
<1>7. CASE e.kind # "Settled"
  <2>1. Answers(q) = Answers(p)
    BY <1>1, <1>2, <1>4, <1>7 DEF Answers
  <2> QED
    BY <1>3, <1>7, <2>1 DEF q
<1> QED
  BY <1>6, <1>7

\* One less, if it was one.
LEMMA AnswersTaken ==
    ASSUME NEW S, NEW p \in Seq(S), p # <<>>
    PROVE  /\ Cardinality(Answers(Tail(p))) \in Nat
           /\ Cardinality(Answers(p)) =
                Cardinality(Answers(Tail(p))) + (IF p[1].kind = "Settled" THEN 1 ELSE 0)
<1> DEFINE n == Len(p)
           q == Tail(p)
           f == [i \in Answers(q) |-> i + 1]
           T == Answers(p) \ {1}
<1>1. n \in Nat /\ n > 0 /\ DOMAIN p = 1 .. n
  BY LenProperties, EmptySeq
<1>2. q \in Seq(S) /\ DOMAIN q = 1 .. (n - 1) /\ \A i \in 1 .. (n - 1) : q[i] = p[i + 1]
  BY <1>1, HeadTailProperties
<1>3. IsFiniteSet(Answers(q)) /\ Cardinality(Answers(q)) \in Nat
      /\ IsFiniteSet(Answers(p)) /\ Cardinality(Answers(p)) \in Nat
  <2>1. IsFiniteSet(1 .. n) /\ IsFiniteSet(1 .. (n - 1))
    BY <1>1, FS_Interval
  <2>2. Answers(p) \in SUBSET (1 .. n) /\ Answers(q) \in SUBSET (1 .. (n - 1))
    BY <1>1, <1>2 DEF Answers
  <2> QED
    BY <2>1, <2>2, FS_Subset, FS_CardinalityType
<1> HIDE DEF q
<1>4. Answers(q) \subseteq 1 .. (n - 1)
  BY <1>2 DEF Answers
<1>5. \A i \in 1 .. (n - 1) : i \in Answers(q) <=> i + 1 \in Answers(p)
  <2>1. \A i \in 1 .. (n - 1) : i + 1 \in 1 .. n
    BY <1>1
  <2> QED
    BY <1>1, <1>2, <2>1 DEF Answers
<1>6. \A i \in Answers(q) : i + 1 \in T /\ f[i] = i + 1
  BY <1>1, <1>4, <1>5
<1>7. \A j \in T : j - 1 \in Answers(q) /\ f[j - 1] = j
  <2>1. \A j \in T : j \in 1 .. n /\ j # 1
    BY <1>1 DEF Answers
  <2>2. \A j \in T : j - 1 \in 1 .. (n - 1) /\ (j - 1) + 1 = j
    BY <1>1, <2>1
  <2>3. \A j \in T : j - 1 \in Answers(q)
    BY <1>5, <2>2
  <2> QED
    BY <1>6, <2>2, <2>3
<1> HIDE DEF T
<1>8. f \in [Answers(q) -> T]
  BY <1>6
<1>9. ExistsBijection(Answers(q), T)
  <2>0. DOMAIN f = Answers(q)
    OBVIOUS
  <2> HIDE DEF f
  <2>1. \A a, b \in Answers(q) : f[a] = f[b] => a = b
    BY <1>4, <1>6
  <2>2. \A t \in T : \E s \in Answers(q) : f[s] = t
    BY <1>7
  <2>3. f \in Bijection(Answers(q), T)
    BY <1>8, <2>1, <2>2 DEF Bijection, Injection, Surjection, IsInjective
  <2> QED
    BY <2>3 DEF ExistsBijection
<1>10. Cardinality(T) = Cardinality(Answers(q))
  BY <1>3, <1>9, FS_Bijection
<1>11. Cardinality(T) = IF 1 \in Answers(p) THEN Cardinality(Answers(p)) - 1
                        ELSE Cardinality(Answers(p))
  BY <1>3, FS_RemoveElement DEF T
<1>12. 1 \in Answers(p) <=> p[1].kind = "Settled"
  BY <1>1 DEF Answers
<1> QED
  BY <1>3, <1>10, <1>11, <1>12 DEF q

LEMMA NoAnswers == Cardinality(Answers(<<>>)) = 0
<1>1. Answers(<<>>) = {}
  BY DEF Answers
<1> QED
  BY <1>1, FS_EmptySet

-----------------------------------------------------------------------------
(* What the interface will know. *)

\* It will know what the events under way make of its snapshot.
LEMMA CourseEnds ==
    ASSUME PipeInv, NEW f, Course(f)
    PROVE  ReplayView(view) = f[Len(pipe)]
<1> DEFINE n == Len(pipe)
           Is(g) == g = [k \in 0 .. n |-> IF k = 0 THEN view ELSE Learned(g[k - 1], pipe[k])]
           h == [k \in 0 .. n |-> f[k]]
<1>1. n \in Nat
  BY LenProperties DEF PipeInv
<1>2. Is(h)
  <2>1. \A k \in 0 .. n : k # 0 => k - 1 \in 0 .. n /\ k \in 1 .. n
    BY <1>1
  <2>2. \A k \in 0 .. n : h[k] = IF k = 0 THEN view ELSE Learned(h[k - 1], pipe[k])
    BY <1>1, <2>1 DEF Course
  <2> QED
    BY <2>2, Zenon
<1>3. PICK g : g = (CHOOSE a : Is(a))
  OBVIOUS
<1>4. Is(g)
  BY <1>2, <1>3
<1>5. ReplayView(view) = g[n]
  BY <1>3 DEF ReplayView
<1>6. \A k \in 0 .. n : g[k] = IF k = 0 THEN view ELSE Learned(g[k - 1], pipe[k])
  BY <1>4, Zenon
<1> DEFINE U == {k \in Nat : k <= n => g[k] = f[k]}
<1> HIDE DEF Is, h
<1>7. 0 \in U
  BY <1>1, <1>6 DEF Course
<1>8. ASSUME NEW i \in U
      PROVE  i + 1 \in U
  <2> SUFFICES ASSUME i + 1 <= n
               PROVE  g[i + 1] = f[i + 1]
    OBVIOUS
  <2>1. i + 1 \in 1 .. n /\ i + 1 \in 0 .. n /\ i + 1 # 0 /\ (i + 1) - 1 = i /\ g[i] = f[i]
    BY <1>1
  <2> QED
    BY <1>6, <2>1 DEF Course
<1>9. U \in SUBSET Nat
  OBVIOUS
<1> HIDE DEF U
<1>10. U = Nat
  BY <1>7, <1>8, <1>9, NatInduct
<1> QED
  BY <1>1, <1>5, <1>10 DEF U

\* The journals keep what the interface may know: no record of the session the
\* worker has open, or of an earlier one, goes.
StillRecorded == \A snap : Recorded(snap) /\ snap.session <= worker.session => Recorded(snap)'

\* Nothing was told.
LEMMA CourseStays ==
    ASSUME NEW f, Course(f), StillRecorded, UNCHANGED <<pipe, view>>,
           worker'.session = worker.session, Alive' => Alive,
           Speaking' => HeadOf(worker.session)' = f[Len(pipe)]
    PROVE  Course(f)'
<1>1. \A k \in 0 .. Len(pipe) : Recorded(f[k])' /\ f[k].session <= worker'.session
  BY DEF Course, StillRecorded
<1> QED
  BY <1>1 DEF Course

\* An event more.
LEMMA CourseGrows ==
    ASSUME PipeInv, NEW f, Course(f), StillRecorded, NEW event \in Events, pipe' = Append(pipe, event),
           view' = view, worker.session \in Nat, worker'.session \in Nat,
           worker.session <= worker'.session,
           NEW new, new = Learned(f[Len(pipe)], event),
           Recorded(new)', new.session = worker'.session,
           event.kind = "Snapshot" => event.snapshot.session = f[Len(pipe)].session,
           Speaking' => HeadOf(worker.session)' = new
    PROVE  \E g : Course(g)'
<1> DEFINE n == Len(pipe)
<1>0. PICK g : g = [k \in 0 .. n + 1 |-> IF k = n + 1 THEN new ELSE f[k]]
  OBVIOUS
<1>1. n \in Nat /\ pipe \in Seq(Events)
  BY LenProperties DEF PipeInv
<1>2. /\ Len(pipe') = n + 1 /\ pipe'[n + 1] = event
      /\ \A k \in 1 .. n : pipe'[k] = pipe[k]
  BY <1>1, AppendProperties
<1>3. g[n + 1] = new /\ \A k \in 0 .. n : g[k] = f[k]
  BY <1>0, <1>1
<1>4. g[0] = view'
  BY <1>1, <1>3 DEF Course
<1>5. \A k \in 1 .. (n + 1) : g[k] = Learned(g[k - 1], pipe'[k])
  <2> SUFFICES ASSUME NEW k \in 1 .. (n + 1)
               PROVE  g[k] = Learned(g[k - 1], pipe'[k])
    OBVIOUS
  <2>1. CASE k = n + 1
    <3>1. k - 1 = n /\ n \in 0 .. n
      BY <1>1, <2>1
    <3> QED
      BY <1>2, <1>3, <2>1, <3>1
  <2>2. CASE k # n + 1
    <3>1. k \in 1 .. n /\ k \in 0 .. n /\ k - 1 \in 0 .. n
      BY <1>1, <2>2
    <3> QED
      BY <1>2, <1>3, <3>1 DEF Course
  <2> QED
    BY <2>1, <2>2
<1>6. \A k \in 0 .. (n + 1) : Recorded(g[k])' /\ g[k].session <= worker'.session
  <2> SUFFICES ASSUME NEW k \in 0 .. (n + 1)
               PROVE  Recorded(g[k])' /\ g[k].session <= worker'.session
    OBVIOUS
  <2>1. CASE k = n + 1
    BY <1>3, <2>1
  <2>2. CASE k # n + 1
    <3>1. k \in 0 .. n
      BY <1>1, <2>2
    <3>2. Recorded(f[k]) /\ f[k].session <= worker.session
      BY <3>1 DEF Course
    <3>3. Recorded(f[k])'
      BY <3>2 DEF StillRecorded
    <3>4. f[k].session \in Nat
      BY <3>2, TuiAssumption DEF Recorded, Views
    <3> QED
      BY <1>3, <3>1, <3>2, <3>3, <3>4
  <2> QED
    BY <2>1, <2>2
<1>7. \A k \in 1 .. (n + 1) :
        pipe'[k].kind = "Snapshot" => pipe'[k].snapshot.session = g[k - 1].session
  <2> SUFFICES ASSUME NEW k \in 1 .. (n + 1), pipe'[k].kind = "Snapshot"
               PROVE  pipe'[k].snapshot.session = g[k - 1].session
    OBVIOUS
  <2>1. CASE k = n + 1
    <3>1. k - 1 = n /\ n \in 0 .. n
      BY <1>1, <2>1
    <3> QED
      BY <1>2, <1>3, <2>1, <3>1
  <2>2. CASE k # n + 1
    <3>1. k \in 1 .. n /\ k - 1 \in 0 .. n
      BY <1>1, <2>2
    <3> QED
      BY <1>2, <1>3, <3>1 DEF Course
  <2> QED
    BY <2>1, <2>2
<1>8. Course(g)'
  BY <1>2, <1>3, <1>4, <1>5, <1>6, <1>7 DEF Course
<1> QED
  BY <1>8

\* An event that was polled.
LEMMA CourseTaken ==
    ASSUME PipeInv, pipe # <<>>, NEW f, Course(f), pipe' = Tail(pipe),
           view' = Learned(view, pipe[1]), journals' = journals,
           worker'.session = worker.session,
           Alive' => Alive, Speaking' => Speaking
    PROVE  \E g : Course(g)'
<1> DEFINE n == Len(pipe)
<1>0. PICK g : g = [k \in 0 .. n - 1 |-> f[k + 1]]
  OBVIOUS
<1>1. n \in Nat /\ n > 0 /\ pipe \in Seq(Events)
  BY LenProperties, EmptySeq DEF PipeInv
<1>2. Len(pipe') = n - 1 /\ \A k \in 1 .. (n - 1) : pipe'[k] = pipe[k + 1]
  BY <1>1, HeadTailProperties
<1>3. \A k \in 0 .. (n - 1) : g[k] = f[k + 1]
  BY <1>0
<1>4. g[0] = view'
  <2>1. 0 \in 0 .. (n - 1) /\ 1 \in 1 .. n /\ 0 + 1 = 1 /\ 1 - 1 = 0
    BY <1>1
  <2> QED
    BY <1>3, <2>1 DEF Course
<1>5. \A k \in 1 .. (n - 1) : /\ k \in 0 .. (n - 1) /\ k - 1 \in 0 .. (n - 1)
                              /\ k + 1 \in 1 .. n /\ (k + 1) - 1 = (k - 1) + 1
  BY <1>1
<1>6. \A k \in 1 .. (n - 1) : g[k] = Learned(g[k - 1], pipe'[k])
  BY <1>2, <1>3, <1>5 DEF Course
<1>7. \A k \in 0 .. (n - 1) : Recorded(g[k])' /\ g[k].session <= worker'.session
  <2>1. \A k \in 0 .. (n - 1) : k + 1 \in 0 .. n
    BY <1>1
  <2>2. \A k \in 0 .. (n - 1) : Recorded(g[k]) /\ g[k].session <= worker'.session
    BY <1>3, <2>1 DEF Course
  <2>3. \A k \in 0 .. (n - 1) : Recorded(g[k]) => Recorded(g[k])'
    BY DEF Recorded
  <2> QED
    BY <2>2, <2>3
<1>8. \A k \in 1 .. (n - 1) :
        pipe'[k].kind = "Snapshot" => pipe'[k].snapshot.session = g[k - 1].session
  BY <1>2, <1>3, <1>5 DEF Course
<1>9. g[n - 1] = f[n]
  <2>1. n - 1 \in 0 .. (n - 1) /\ (n - 1) + 1 = n
    BY <1>1
  <2> QED
    BY <1>3, <2>1
<1>10. Alive' => g[n - 1].session = worker'.session
  BY <1>9 DEF Course
<1>11. Speaking' => g[n - 1] = HeadOf(worker.session)'
  <2>1. HeadOf(worker.session)' = HeadOf(worker.session)
    BY DEF HeadOf, Snapshot
  <2>2. Speaking => f[n] = HeadOf(worker.session)
    BY DEF Course
  <2> QED
    BY <1>9, <2>1, <2>2
<1>12. Course(g)'
  BY <1>2, <1>4, <1>6, <1>7, <1>8, <1>10, <1>11 DEF Course
<1> QED
  BY <1>12

\* A new worker, on the session that is shown.
LEMMA CourseAnew ==
    ASSUME Recorded(view), journals' = journals, view' = view, pipe' = <<>>,
           worker'.session = view.session, worker'.phase = "starting",
           view.session \in Nat
    PROVE  \E g : Course(g)'
<1>0. PICK g : g = [k \in 0 .. 0 |-> view]
  OBVIOUS
<1>1. Len(pipe') = 0 /\ 1 .. 0 = {} /\ 0 .. 0 = {0}
  OBVIOUS
<1>2. g[0] = view
  BY <1>0
<1>3. Recorded(g[0])'
  BY <1>2 DEF Recorded
<1>4. ~Speaking'
  BY DEF Speaking
<1>5. Course(g)'
  BY <1>1, <1>2, <1>3, <1>4 DEF Course
<1> QED
  BY <1>5

-----------------------------------------------------------------------------
(* The steps of the worker. *)

\* It draws nothing.
LEMMA ScreenStays ==
    ASSUME UiInv, ShownInv, UNCHANGED <<ui, view, shown>>
    PROVE  UiInv' /\ ShownInv'
BY DEF UiInv, ShownInv, Screen, Candidates

\* It tells of what its session has come to.
LEMMA WorkerTells ==
    ASSUME TuiInv, UNCHANGED <<handle, ui, view, shown>>, Alive,
           Len(pipe) < Capacity \/ worker'.phase = "gone",
           NEW event \in Events, pipe' = Append(pipe, event), worker'.phase # "starting",
           StillRecorded, worker.session <= worker'.session, worker'.session \in Sessions,
           NEW new, Recorded(new)', new.session = worker'.session,
           \A f : Course(f) => new = Learned(f[Len(pipe)], event),
           event.kind = "Snapshot" => event.snapshot.session = worker.session,
           Speaking' => HeadOf(worker.session)' = new
    PROVE  PipeInv' /\ ViewInv' /\ UiInv' /\ ShownInv'
<1>1. UiInv' /\ ShownInv'
  <2>1. UiInv /\ ShownInv
    BY DEF TuiInv
  <2>2. UNCHANGED <<ui, view, shown>>
    OBVIOUS
  <2> QED
    BY <2>1, <2>2, ScreenStays
<1>2. worker.session \in Nat /\ worker'.session \in Nat /\ Capacity \in Nat
  BY TuiAssumption DEF TuiInv, WorkerInv
<1>3. PipeInv'
  <2>1. pipe \in Seq(Events) /\ Len(pipe) \in Nat /\ Len(pipe) <= Capacity
    BY LenProperties DEF TuiInv, PipeInv
  <2>2. pipe' \in Seq(Events) /\ Len(pipe') = Len(pipe) + 1
    BY <2>1, AppendProperties
  <2>3. Len(pipe') <= Capacity + 1 /\ (Len(pipe) < Capacity => Len(pipe') <= Capacity)
    BY <1>2, <2>1, <2>2
  <2> QED
    BY <2>2, <2>3 DEF PipeInv, Alive
<1>4. ViewInv'
  <2> SUFFICES ASSUME Serving
               PROVE  (view.session = handle /\ \E g : Course(g))'
    BY DEF ViewInv, Serving
  <2>1. view.session = handle
    BY DEF TuiInv, ViewInv
  <2>2. PICK f : Course(f)
    BY DEF TuiInv, ViewInv
  <2>3. f[Len(pipe)].session = worker.session
    BY <2>2 DEF Course
  <2>4. \E g : Course(g)'
    BY <1>2, <2>2, <2>3, CourseGrows DEF TuiInv
  <2> QED
    BY <2>1, <2>4
<1> QED
  BY <1>1, <1>3, <1>4

\* What the worker knows while it speaks.
LEMMA SpeaksOfHead ==
    ASSUME TuiInv
    PROVE  /\ worker.session \in Sessions /\ worker.session \in Nat
           /\ Recorded(HeadOf(worker.session)) /\ HeadOf(worker.session).session = worker.session
           /\ HeadOf(worker.session) # None
           /\ HeadOf(worker.session) = Snapshot(worker.session, Now)
           /\ Speaking => \A f : Course(f) => f[Len(pipe)] = HeadOf(worker.session)
<1>1. worker.session \in Sessions /\ worker.session \in Nat
  BY TuiAssumption DEF TuiInv, WorkerInv
<1>2. Recorded(HeadOf(worker.session)) /\ HeadOf(worker.session).session = worker.session
  BY <1>1, HeadRecorded DEF TuiInv
<1>3. HeadOf(worker.session) # None
  BY <1>2, TuiAssumption DEF Recorded, Views
<1>4. HeadOf(worker.session) = Snapshot(worker.session, Now)
  BY DEF HeadOf, Snapshot, Now
<1>5. Speaking => \A f : Course(f) => f[Len(pipe)] = HeadOf(worker.session)
  BY DEF Course
<1> QED
  BY <1>1, <1>2, <1>3, <1>4, <1>5

\* The last record is one in the next state, too.
LEMMA HeadRecordedNext ==
    ASSUME NEW s \in Sessions
    PROVE  JournalsInv' => Recorded(HeadOf(s))' /\ HeadOf(s)'.session = s
<1> DEFINE Heads == Recorded(HeadOf(s)) /\ HeadOf(s).session = s
<1>1. JournalsInv => Heads
  BY HeadRecorded
<1> HIDE DEF Heads
<1>2. JournalsInv' => Heads'
  BY <1>1, PTL
<1> QED
  BY <1>2 DEF Heads

\* What a patch makes of the line it fits.
LEMMA PatchLearned ==
    ASSUME NEW s, NEW line, Snapshot(s, line) # None, NEW offset
    PROVE  Learned(Snapshot(s, line), Patch(Offset(line), offset))
             = Snapshot(s, Append(line, offset))
<1>1. PICK event : event = Patch(Offset(line), offset)
  OBVIOUS
<1>2. event.kind = "Patch" /\ event.base = Offset(line) /\ event.offset = offset
  BY <1>1 DEF Patch
<1>3. Snapshot(s, line).line = line
  BY DEF Snapshot
<1>4. Learned(Snapshot(s, line), event)
        = [Snapshot(s, line) EXCEPT !.line = Append(line, offset)]
  BY <1>2, <1>3 DEF Learned
<1>5. [Snapshot(s, line) EXCEPT !.line = Append(line, offset)] = Snapshot(s, Append(line, offset))
  BY SMTT(30) DEF Snapshot
<1> QED
  BY <1>1, <1>4, <1>5

\* A record is told as a patch exactly if it stands behind the last one, and as a
\* snapshot otherwise: either way the interface comes to it.
LEMMA EventTells ==
    ASSUME TuiInv, Speaking, NEW line, Recorded(Snapshot(worker.session, line)),
           NEW new, new = Append(line, Len(journals[worker.session]) + 1), new \in OffsetLines,
           Last(new) \in Nat
    PROVE  /\ Event(Offset(line), new) \in Events
           /\ Event(Offset(line), new).kind # "Settled"
           /\ Learned(HeadOf(worker.session), Event(Offset(line), new))
                = Snapshot(worker.session, new)
           /\ Event(Offset(line), new).kind = "Snapshot" =>
                Event(Offset(line), new).snapshot.session = worker.session
<1>1. /\ worker.session \in Sessions /\ HeadOf(worker.session) # None
      /\ HeadOf(worker.session) = Snapshot(worker.session, Now)
      /\ HeadOf(worker.session).line = Now
  BY SpeaksOfHead DEF Now
<1>2. worker.base = Offset(Now) /\ worker.base \in Nat
  BY DEF TuiInv, BaseInv, WorkerInv
<1>3. CASE Offset(line) = worker.base
  <2>1. line = Now
    BY <1>1, <1>2, <1>3, HeadRecorded DEF TuiInv
  <2>2. Last(new) = Len(journals[worker.session]) + 1
    <3>1. IsSequence(line)
      <4>1. line \in OffsetLines
        BY DEF Recorded, Snapshot, Views
      <4>2. PICK k \in 0 .. MaxRecords : line \in [1 .. k -> 1 .. MaxRecords]
        BY <4>1 DEF OffsetLines
      <4>3. line \in Seq(1 .. MaxRecords)
        BY <4>2, SomeRoom, SeqDef
      <4> QED
        BY <4>3, Sequenced
    <3> DEFINE L == {line[i] : i \in DOMAIN line} \cup {Len(journals[worker.session]) + 1}
    <3>2. line \in Seq(L)
      BY <3>1 DEF IsSequence
    <3>3. Len(journals[worker.session]) + 1 \in L
      OBVIOUS
    <3> HIDE DEF L
    <3>4. Len(new) = Len(line) + 1 /\ new[Len(line) + 1] = Len(journals[worker.session]) + 1
      BY <3>2, <3>3, AppendProperties
    <3> QED
      BY <3>4 DEF Last
  <2>3. Event(Offset(line), new) = Patch(worker.base, Last(new))
    BY <1>3 DEF Event
  <2>4. Learned(HeadOf(worker.session), Patch(worker.base, Last(new)))
          = Snapshot(worker.session, Append(Now, Last(new)))
    BY <1>1, <1>2, PatchLearned
  <2>5. new = Append(Now, Last(new))
    BY <2>1, <2>2
  <2>6. Patch(worker.base, Last(new)) \in Events /\ Patch(worker.base, Last(new)).kind = "Patch"
    BY <1>2 DEF Patch, Events
  <2> QED
    BY <2>3, <2>4, <2>5, <2>6
<1>4. CASE Offset(line) # worker.base
  <2> DEFINE snap == Snapshot(worker.session, new)
  <2>1. Event(Offset(line), new) = SnapshotEvent(snap)
    BY <1>4 DEF Event
  <2>2. snap \in Views /\ snap.session = worker.session
    BY <1>1 DEF Views, Snapshot
  <2> HIDE DEF snap
  <2>3. /\ SnapshotEvent(snap) \in Events /\ SnapshotEvent(snap).kind = "Snapshot"
        /\ SnapshotEvent(snap).snapshot = snap
    BY <2>2 DEF SnapshotEvent, Events
  <2>4. Learned(HeadOf(worker.session), SnapshotEvent(snap)) = snap
    BY <1>1, <2>3 DEF Learned
  <2> QED
    BY <2>1, <2>2, <2>3, <2>4 DEF snap
<1> QED
  BY <1>3, <1>4

\* A record: but for what is to be answered, all goes on as before.
TuiParts ==
    /\ WorkerInv /\ UiInv /\ PipeInv /\ JournalsInv /\ BaseInv /\ ViewInv /\ ShownInv
Follows(next) ==
    /\ DOMAIN next = WorkerFields /\ next.phase \in {"idle", "working", "settling"}
    /\ next.session = worker.session /\ next.ok \in BOOLEAN
LEMMA RecordTold ==
    ASSUME TuiInv, Speaking, NEW line, Recorded(Snapshot(worker.session, line)),
           NEW next, Follows(next), Record(line, next), UNCHANGED <<handle, ui, view, shown>>
    PROVE  /\ TuiParts' /\ worker'.phase = next.phase
           /\ Cardinality(Answers(pipe)) = Cardinality(Answers(pipe'))
<1>1. /\ worker.session \in Sessions /\ worker.session \in Nat
      /\ HeadOf(worker.session) = Snapshot(worker.session, Now)
  BY SpeaksOfHead
<1>2. /\ journals[worker.session] \in Seq(OffsetLines) /\ Len(journals[worker.session]) \in Nat
      /\ MaxRecords \in Nat
  BY <1>1, JournalLines DEF TuiInv
<1>3. PICK new :
        /\ new = Append(line, Len(journals[worker.session]) + 1)
        /\ CanAppend /\ HasRoom
        /\ journals' = [journals EXCEPT ![worker.session] = Append(@, new)]
        /\ pipe' = Append(pipe, Event(Offset(line), new))
        /\ worker' = [next EXCEPT !.base = Last(new)]
  BY DEF Record
<1>4. /\ JournalsInv'
      /\ new \in OffsetLines /\ Last(new) = Len(journals[worker.session]) + 1
      /\ Offset(new) = Last(new)
      /\ HeadOf(worker.session)' = Snapshot(worker.session, new)
      /\ \A snap : Recorded(snap) => Recorded(snap)'
  <2>1. JournalsInv /\ Len(journals[worker.session]) < MaxRecords
    BY <1>3 DEF TuiInv, CanAppend
  <2>3. PICK s : s = worker.session
    OBVIOUS
  <2>4. /\ JournalsInv' /\ new \in OffsetLines /\ Last(new) = Len(journals[s]) + 1
        /\ Offset(new) = Last(new) /\ HeadOf(s)' = Snapshot(s, new)
        /\ \A snap : Recorded(snap) => Recorded(snap)'
    BY <1>1, <1>3, <2>1, <2>3, JournalGrows
  <2>5. worker'.session = s
    BY <1>3, <2>3 DEF Follows, WorkerFields
  <2>6. HeadOf(worker.session)' = HeadOf(s)'
    BY <2>5 DEF HeadOf
  <2> QED
    BY <2>3, <2>4, <2>6
<1>5. /\ DOMAIN worker' = WorkerFields /\ worker'.phase = next.phase
      /\ worker'.session = worker.session /\ worker'.ok = next.ok
      /\ worker'.base = Last(new)
  BY <1>3 DEF Follows, WorkerFields
<1>6. WorkerInv'
  <2>1. Last(new) \in Nat
    BY <1>2, <1>4
  <2>2. worker'.ok \in BOOLEAN
    BY <1>5 DEF Follows
  <2>3. worker'.phase \in WorkerPhases
    BY <1>5 DEF Follows, WorkerPhases
  <2>4. handle' \in Sessions /\ view' \in Views
    BY DEF TuiInv, WorkerInv
  <2> QED
    BY <1>1, <1>5, <2>1, <2>2, <2>3, <2>4 DEF WorkerInv
<1>7. BaseInv'
  <2>1. Now' = new
    BY <1>4, <1>5 DEF Now, Snapshot
  <2> QED
    BY <1>4, <1>5, <2>1 DEF BaseInv
<1>10. PICK event : event = Event(Offset(line), new)
  OBVIOUS
<1>8. /\ event \in Events /\ event.kind # "Settled"
      /\ Learned(HeadOf(worker.session), event) = Snapshot(worker.session, new)
      /\ event.kind = "Snapshot" => event.snapshot.session = worker.session
  <2>1. Last(new) \in Nat
    BY <1>2, <1>4
  <2>2. new \in OffsetLines /\ new = Append(line, Len(journals[worker.session]) + 1)
    BY <1>3, <1>4
  <2> QED
    BY <1>10, <2>1, <2>2, EventTells
<1>9. pipe' = Append(pipe, event) /\ Len(pipe) < Capacity
  BY <1>3, <1>10 DEF HasRoom
<1>11. PICK snap : snap = Snapshot(worker.session, new)
  OBVIOUS
<1>12. Recorded(snap)' /\ snap.session = worker'.session /\ HeadOf(worker.session)' = snap
  <2>1. HeadOf(worker.session)' = snap
    BY <1>4, <1>11
  <2>2. Recorded(HeadOf(worker.session))' /\ HeadOf(worker.session)'.session = worker'.session
    <3>1. PICK s : s = worker.session
      OBVIOUS
    <3>2. Recorded(HeadOf(s))' /\ HeadOf(s)'.session = s
      BY <1>1, <1>4, <3>1, HeadRecordedNext
    <3>3. worker'.session = s
      BY <1>5, <3>1
    <3> QED
      BY <3>2, <3>3 DEF HeadOf
  <2> QED
    BY <2>1, <2>2
<1>13. \A f : Course(f) => snap = Learned(f[Len(pipe)], event)
  BY <1>8, <1>11, SpeaksOfHead
<1>14. StillRecorded
  BY <1>4 DEF StillRecorded
<1>15. Alive /\ worker'.phase # "starting"
  BY <1>5 DEF Speaking, Alive, Follows
<1>18. worker.session <= worker'.session /\ worker'.session \in Sessions
  BY <1>1, <1>5
<1>19. Speaking' => HeadOf(worker.session)' = snap
  BY <1>12
<1>16. PipeInv' /\ ViewInv' /\ UiInv' /\ ShownInv'
  BY <1>8, <1>9, <1>18, <1>19, <1>12, <1>13, <1>14, <1>15, WorkerTells
<1>17. Cardinality(Answers(pipe')) = Cardinality(Answers(pipe))
  <2>1. pipe \in Seq(Events)
    BY DEF TuiInv, PipeInv
  <2>2. /\ Cardinality(Answers(pipe)) \in Nat
        /\ Cardinality(Answers(pipe')) = Cardinality(Answers(pipe)) + 0
    BY <1>8, <1>9, <2>1, AnswersGrow
  <2> QED
    BY <2>2
<1> QED
  BY <1>4, <1>5, <1>6, <1>7, <1>16, <1>17 DEF TuiParts

\* A worker that stays with its session, or is gone.
SameSession ==
    /\ DOMAIN worker' = WorkerFields /\ worker'.phase \in WorkerPhases \ {"starting"}
    /\ worker'.session = worker.session /\ worker'.base = worker.base
    /\ worker'.ok \in BOOLEAN
    /\ Speaking' => Speaking

LEMMA SameSessionKeeps ==
    ASSUME TuiInv, SameSession, UNCHANGED <<journals, handle, view>>
    PROVE  /\ WorkerInv' /\ JournalsInv' /\ BaseInv' /\ StillRecorded
           /\ HeadOf(worker.session)' = HeadOf(worker.session)
<1>1. WorkerInv'
  <2>1. worker'.ok \in BOOLEAN
    BY DEF SameSession
  <2> QED
    BY <2>1 DEF SameSession, TuiInv, WorkerInv
<1>2. JournalsInv'
  BY DEF TuiInv, JournalsInv
<1>3. HeadOf(worker.session)' = HeadOf(worker.session)
  BY DEF SameSession, HeadOf, Snapshot
<1>4. BaseInv'
  <2>1. Speaking => worker.base = Offset(Now)
    BY DEF TuiInv, BaseInv
  <2>2. Now' = Now
    BY <1>3 DEF Now
  <2> QED
    BY <2>1, <2>2 DEF BaseInv, SameSession
<1>5. StillRecorded
  BY DEF StillRecorded, Recorded
<1> QED
  BY <1>1, <1>2, <1>3, <1>4, <1>5

\* What says nothing of the journal changes nothing the interface will know.
LEMMA PlainTold ==
    ASSUME TuiInv, Speaking, SameSession, UNCHANGED <<journals, handle, ui, view, shown>>,
           NEW event \in Events, event.kind \in {"Settled", "Diagnostic"},
           pipe' = Append(pipe, event), Len(pipe) < Capacity \/ worker'.phase = "gone"
    PROVE  TuiParts'
<1>1. /\ WorkerInv' /\ JournalsInv' /\ BaseInv' /\ StillRecorded
      /\ HeadOf(worker.session)' = HeadOf(worker.session)
  BY SameSessionKeeps
<1>2. PICK new : new = HeadOf(worker.session)
  OBVIOUS
<1>3. /\ worker.session \in Sessions /\ worker.session \in Nat /\ worker'.session = worker.session
      /\ Recorded(new) /\ new.session = worker.session /\ new # None
      /\ \A f : Course(f) => f[Len(pipe)] = new
  BY <1>2, SpeaksOfHead DEF SameSession
<1>4. \A f : Course(f) => new = Learned(f[Len(pipe)], event)
  BY <1>3 DEF Learned
<1>5. Recorded(new)'
  BY <1>3 DEF Recorded
<1>6. /\ new.session = worker'.session /\ worker'.session \in Sessions
      /\ worker.session <= worker'.session
      /\ event.kind = "Snapshot" => event.snapshot.session = worker.session
      /\ Speaking' => HeadOf(worker.session)' = new
  BY <1>1, <1>2, <1>3
<1>7. Alive /\ worker'.phase # "starting"
  BY DEF Speaking, Alive, SameSession
<1>8. PipeInv' /\ ViewInv' /\ UiInv' /\ ShownInv'
  BY <1>1, <1>4, <1>5, <1>6, <1>7, WorkerTells
<1> QED
  BY <1>1, <1>8 DEF TuiParts

LEMMA NothingTold ==
    ASSUME TuiInv, Alive, SameSession, UNCHANGED <<journals, pipe, handle, ui, view, shown>>
    PROVE  TuiParts'
<1>1. /\ WorkerInv' /\ JournalsInv' /\ BaseInv' /\ StillRecorded
      /\ HeadOf(worker.session)' = HeadOf(worker.session)
  BY SameSessionKeeps
<1>2. UiInv' /\ ShownInv'
  <2>1. UiInv /\ ShownInv
    BY DEF TuiInv
  <2>2. UNCHANGED <<ui, view, shown>>
    OBVIOUS
  <2> QED
    BY <2>1, <2>2, ScreenStays
<1>3. PipeInv'
  BY DEF TuiInv, PipeInv, Alive, SameSession
<1>4. ViewInv'
  <2> SUFFICES ASSUME Serving
               PROVE  (view.session = handle /\ \E g : Course(g))'
    BY DEF ViewInv, Serving
  <2>1. view.session = handle
    BY DEF TuiInv, ViewInv
  <2>2. PICK f : Course(f)
    BY DEF TuiInv, ViewInv
  <2>3. Speaking' => HeadOf(worker.session)' = f[Len(pipe)]
    <3>1. Speaking => f[Len(pipe)] = HeadOf(worker.session)
      BY <2>2 DEF Course
    <3> QED
      BY <1>1, <3>1 DEF SameSession
  <2>4. worker'.session = worker.session
    BY DEF SameSession
  <2>5. Course(f)'
    BY <1>1, <2>2, <2>3, <2>4, CourseStays
  <2> QED
    BY <2>1, <2>5
<1> QED
  BY <1>1, <1>2, <1>3, <1>4 DEF TuiParts

\* What is to be answered.
UnderWay(phase) == IF phase \in {"working", "settling"} THEN 1 ELSE 0
LEMMA ToAnswer ==
    ASSUME TuiInv
    PROVE  /\ Outstanding = Len(requests) + UnderWay(worker.phase) + Cardinality(Answers(pipe))
           /\ Cardinality(Answers(pipe)) \in Nat /\ Len(requests) \in Nat
           /\ UnderWay(worker.phase) \in {0, 1}
           /\ IsSequence(requests) /\ pipe \in Seq(Events)
<1>1. pipe \in Seq(Events) /\ IsSequence(requests)
  BY DEF TuiInv, PipeInv, RequestsInv
<1>2. Len(requests) \in Nat
  BY <1>1, Sequenced DEF IsSequence
<1>3. Cardinality(Answers(pipe)) \in Nat
  <2>1. Diagnostic \in Events
    BY DEF Diagnostic, Events
  <2> QED
    BY <1>1, <2>1, AnswersGrow
<1> QED
  BY <1>1, <1>2, <1>3 DEF Outstanding, Answers, UnderWay

\* All goes on as before.
LEMMA AsMany ==
    ASSUME TuiInv, Alive, UNCHANGED <<requests, ui>>,
           UnderWay(worker'.phase) + Cardinality(Answers(pipe'))
             = UnderWay(worker.phase) + Cardinality(Answers(pipe)),
           Cardinality(Answers(pipe')) \in Nat
    PROVE  RequestsInv' /\ OneAtATime'
<1>1. RequestsInv'
  BY DEF TuiInv, RequestsInv, Serving
<1>2. Outstanding' = Outstanding
  <2>1. Outstanding' = Len(requests) + UnderWay(worker'.phase) + Cardinality(Answers(pipe'))
    BY DEF Outstanding, Answers, UnderWay
  <2>2. /\ Cardinality(Answers(pipe)) \in Nat /\ Cardinality(Answers(pipe')) \in Nat
        /\ Len(requests) \in Nat
        /\ UnderWay(worker.phase) \in {0, 1} /\ UnderWay(worker'.phase) \in {0, 1}
        /\ UnderWay(worker'.phase) + Cardinality(Answers(pipe'))
             = UnderWay(worker.phase) + Cardinality(Answers(pipe))
        /\ Outstanding = Len(requests) + UnderWay(worker.phase) + Cardinality(Answers(pipe))
    BY ToAnswer DEF UnderWay
  <2> DEFINE a == Cardinality(Answers(pipe))
             b == Cardinality(Answers(pipe'))
             c == UnderWay(worker.phase)
             d == UnderWay(worker'.phase)
             l == Len(requests)
  <2>3. /\ a \in Nat /\ b \in Nat /\ l \in Nat /\ c \in {0, 1} /\ d \in {0, 1} /\ d + b = c + a
        /\ Outstanding = l + c + a /\ Outstanding' = l + d + b
    BY <2>1, <2>2
  <2> HIDE DEF a, b, c, d, l
  <2> QED
    BY <2>3
<1>3. OneAtATime'
  BY <1>2 DEF TuiInv, OneAtATime, Alive
<1> QED
  BY <1>1, <1>3

LEMMA Whole ==
    ASSUME TuiParts', RequestsInv', OneAtATime'
    PROVE  TuiInv'
BY DEF TuiParts, TuiInv

LEMMA GoneCount ==
    ASSUME TuiInv, worker'.phase = "gone", UNCHANGED <<requests, ui>>
    PROVE  RequestsInv' /\ OneAtATime'
<1>1. RequestsInv'
  BY DEF TuiInv, RequestsInv, Serving
<1> QED
  BY <1>1 DEF OneAtATime, Alive

\* Records of a worker that is idle or at work.
LEMMA RecordStep ==
    ASSUME TuiInv, worker.phase \in {"idle", "working"},
           NEW line, Recorded(Snapshot(worker.session, line)),
           NEW next, Follows(next), UnderWay(next.phase) = UnderWay(worker.phase),
           Record(line, next), UNCHANGED <<requests, handle, ui, view, shown>>
    PROVE  TuiInv'
<1>1. Speaking /\ Alive
  BY DEF Speaking, Alive
<1>2. /\ TuiParts' /\ worker'.phase = next.phase
      /\ Cardinality(Answers(pipe)) = Cardinality(Answers(pipe'))
  BY <1>1, RecordTold
<1>3. RequestsInv' /\ OneAtATime'
  <2>1. Cardinality(Answers(pipe)) \in Nat
    BY ToAnswer
  <2> QED
    BY <1>1, <1>2, <2>1, AsMany
<1> QED
  BY <1>2, <1>3, Whole

\* The last record of the worker's session, and earlier ones.
LEMMA NowRecorded ==
    ASSUME TuiInv
    PROVE  Recorded(Snapshot(worker.session, Now))
BY SpeaksOfHead

LEMMA StartStep ==
    ASSUME TuiInv, Start
    PROVE  TuiInv'
<1>1. PICK line \in {Now, Append(Now, Len(journals[worker.session]) + 1)} :
         /\ line # Now => worker.orphans /\ CanAppend
         /\ journals' = IF line = Now THEN journals
                        ELSE [journals EXCEPT ![worker.session] = Append(@, line)]
         /\ pipe' = Append(pipe, SnapshotEvent(Snapshot(worker.session, line)))
         /\ worker' = [worker EXCEPT !.phase = "idle", !.base = Offset(line),
                                     !.orphans = FALSE]
  BY DEF Start
<1>2. PICK s : s = worker.session
  OBVIOUS
<1>3. s \in Sessions /\ s \in Nat /\ Recorded(Snapshot(s, Now)) /\ JournalsInv
      /\ HeadOf(s) = Snapshot(s, Now)
  BY <1>2, SpeaksOfHead DEF TuiInv
<1>4. /\ DOMAIN worker' = WorkerFields /\ worker'.phase = "idle" /\ worker'.session = s
      /\ worker'.base = Offset(line) /\ worker'.ok = worker.ok
  BY <1>1, <1>2 DEF TuiInv, WorkerInv, WorkerFields
<1>5. /\ JournalsInv' /\ HeadOf(s)' = Snapshot(s, line)
      /\ line \in OffsetLines /\ Offset(line) \in Nat
      /\ \A snap : Recorded(snap) => Recorded(snap)'
  <2>1. CASE line = Now
    <3>1. journals' = journals
      BY <1>1, <2>1
    <3>2. JournalsInv' /\ \A snap : Recorded(snap) => Recorded(snap)'
      BY <1>3, <3>1 DEF JournalsInv, Recorded
    <3>3. HeadOf(s)' = HeadOf(s)
      BY <3>1 DEF HeadOf, Snapshot
    <3>4. Now \in OffsetLines
      BY <1>3 DEF Recorded, Snapshot, Views
    <3>5. Offset(HeadOf(s).line) = Len(journals[s]) /\ HeadOf(s).line = Now
      BY <1>2, <1>3, HeadRecorded DEF Now
    <3>6. Len(journals[s]) \in Nat
      BY <1>3, JournalLines
    <3> QED
      BY <1>3, <2>1, <3>2, <3>3, <3>4, <3>5, <3>6
  <2>2. CASE line # Now
    <3>1. /\ line = Append(Now, Len(journals[s]) + 1) /\ Len(journals[s]) < MaxRecords
          /\ journals' = [journals EXCEPT ![s] = Append(@, line)]
      BY <1>1, <1>2, <2>2 DEF CanAppend
    <3>2. /\ JournalsInv' /\ HeadOf(s)' = Snapshot(s, line) /\ line \in OffsetLines
          /\ Last(line) = Len(journals[s]) + 1 /\ Offset(line) = Last(line)
          /\ \A snap : Recorded(snap) => Recorded(snap)'
      BY <1>3, <3>1, JournalGrows
    <3>3. Len(journals[s]) \in Nat
      BY <1>3, JournalLines
    <3> QED
      BY <3>2, <3>3
  <2> QED
    BY <2>1, <2>2
<1>6. WorkerInv'
  <2>1. worker'.ok \in BOOLEAN
    BY <1>4 DEF TuiInv, WorkerInv
  <2>2. handle' \in Sessions /\ view' \in Views
    BY DEF TuiInv, WorkerInv, Start
  <2> QED
    BY <1>3, <1>4, <1>5, <2>1, <2>2 DEF WorkerInv, WorkerPhases
<1>7. HeadOf(worker.session)' = HeadOf(s)'
  BY <1>4 DEF HeadOf
<1>8. BaseInv'
  <2>1. Now' = line
    BY <1>5, <1>7 DEF Now, Snapshot
  <2> QED
    BY <1>4, <2>1 DEF BaseInv
<1>9. PICK snap : snap = Snapshot(s, line)
  OBVIOUS
<1>10. PICK event : event = SnapshotEvent(snap)
  OBVIOUS
<1>11. /\ snap \in Views /\ snap.session = s
       /\ event \in Events /\ event.kind = "Snapshot" /\ event.snapshot = snap
  <2>1. snap \in Views /\ snap.session = s
    BY <1>3, <1>5, <1>9 DEF Snapshot, Views
  <2> QED
    BY <1>10, <2>1 DEF SnapshotEvent, Events
<1>12. Recorded(snap)'
  <2>1. Recorded(HeadOf(s))'
    BY <1>3, <1>5, HeadRecordedNext
  <2> QED
    BY <1>5, <1>9, <2>1
<1>13. \A f : Course(f) => snap = Learned(f[Len(pipe)], event)
  <2> SUFFICES ASSUME NEW f, Course(f)
               PROVE  snap = Learned(f[Len(pipe)], event)
    OBVIOUS
  <2>1. Len(pipe) \in 0 .. Len(pipe)
    BY ToAnswer, LenProperties
  <2>2. f[Len(pipe)] \in Views
    BY <2>1 DEF Course, Recorded
  <2>3. f[Len(pipe)] # None
    BY <2>2, TuiAssumption DEF Views
  <2> QED
    BY <1>11, <2>3 DEF Learned
<1>14. pipe' = Append(pipe, event) /\ Len(pipe) < Capacity
  BY <1>1, <1>2, <1>9, <1>10 DEF Start, HasRoom
<1>15. StillRecorded
  BY <1>5 DEF StillRecorded
<1>16. Alive /\ worker'.phase # "starting"
  BY <1>4 DEF Start, Alive
<1>17. /\ worker.session <= worker'.session /\ worker'.session \in Sessions
       /\ snap.session = worker'.session
       /\ event.kind = "Snapshot" => event.snapshot.session = worker.session
       /\ Speaking' => HeadOf(worker.session)' = snap
  BY <1>2, <1>3, <1>4, <1>5, <1>7, <1>9, <1>11
<1>18. UNCHANGED <<handle, ui, view, shown>>
  BY DEF Start
<1>19. PipeInv' /\ ViewInv' /\ UiInv' /\ ShownInv'
  BY <1>11, <1>12, <1>13, <1>14, <1>15, <1>16, <1>17, <1>18, WorkerTells
<1>20. RequestsInv' /\ OneAtATime'
  <2>1. pipe \in Seq(Events) /\ Cardinality(Answers(pipe)) \in Nat
    BY ToAnswer
  <2>2. Cardinality(Answers(pipe')) = Cardinality(Answers(pipe)) + 0
    BY <1>11, <1>14, <2>1, AnswersGrow
  <2>3. UnderWay(worker'.phase) = UnderWay(worker.phase)
    BY <1>4 DEF UnderWay, Start
  <2>4. UNCHANGED <<requests, ui>>
    BY DEF Start
  <2>5. Cardinality(Answers(pipe')) = Cardinality(Answers(pipe))
    BY <2>1, <2>2
  <2> QED
    BY <1>16, <2>1, <2>3, <2>4, <2>5, AsMany
<1> QED
  BY <1>5, <1>6, <1>8, <1>19, <1>20, Whole DEF TuiParts

LEMMA PollJobsStep ==
    ASSUME TuiInv, PollJobs
    PROVE  TuiInv'
<1>1. PICK next \in {[worker EXCEPT !.polls = @ - 1]} :
         \/ Record(Now, next)
         \/ /\ HasRoom
            /\ pipe' = Append(pipe, Diagnostic) /\ worker' = next
            /\ UNCHANGED journals
  BY DEF PollJobs
<1>2. /\ worker.phase = "idle" /\ UNCHANGED <<requests, handle, ui, view, shown>>
  BY DEF PollJobs
<1>3. /\ DOMAIN next = WorkerFields /\ next.phase = "idle"
      /\ next.session = worker.session /\ next.base = worker.base /\ next.ok = worker.ok
  BY <1>1, <1>2 DEF TuiInv, WorkerInv, WorkerFields
<1>4. next.ok \in BOOLEAN
  BY <1>3 DEF TuiInv, WorkerInv
<1>5. CASE Record(Now, next)
  <2>1. Follows(next)
    BY <1>3, <1>4 DEF Follows
  <2>2. UnderWay(next.phase) = UnderWay(worker.phase)
    BY <1>2, <1>3
  <2> QED
    BY <1>2, <1>5, <2>1, <2>2, NowRecorded, RecordStep
<1>6. CASE HasRoom /\ pipe' = Append(pipe, Diagnostic) /\ worker' = next /\ UNCHANGED journals
  <2>1. Speaking /\ Alive
    BY <1>2 DEF Speaking, Alive
  <2>2. SameSession
    BY <1>3, <1>4, <1>6, <2>1 DEF SameSession, WorkerPhases
  <2>3. Diagnostic \in Events /\ Diagnostic.kind = "Diagnostic"
    BY DEF Diagnostic, Events
  <2>4. Len(pipe) < Capacity
    BY <1>6 DEF HasRoom
  <2>5. TuiParts'
    BY <1>2, <1>6, <2>1, <2>2, <2>3, <2>4, PlainTold
  <2>6. pipe \in Seq(Events) /\ Cardinality(Answers(pipe)) \in Nat
    BY ToAnswer
  <2>7. Cardinality(Answers(pipe')) = Cardinality(Answers(pipe))
    <3>1. Cardinality(Answers(Append(pipe, Diagnostic))) = Cardinality(Answers(pipe)) + 0
      BY <2>3, <2>6, AnswersGrow
    <3> QED
      BY <1>6, <2>6, <3>1
  <2>8. UnderWay(worker'.phase) = UnderWay(worker.phase)
    BY <1>2, <1>3, <1>6
  <2>9. RequestsInv' /\ OneAtATime'
    BY <1>2, <2>1, <2>6, <2>7, <2>8, AsMany
  <2> QED
    BY <2>5, <2>9, Whole
<1> QED
  BY <1>1, <1>5, <1>6

LEMMA TakeLineStep ==
    ASSUME TuiInv, TakeLine
    PROVE  TuiInv'
<1>1. /\ worker.phase = "idle" /\ requests # <<>> /\ requests' = Tail(requests)
      /\ worker' = [worker EXCEPT !.phase = IF requests[1] = ShutdownRequest
                                            THEN "shutdown" ELSE "working",
                                  !.line = requests[1], !.steps = MaxSteps]
      /\ UNCHANGED <<journals, pipe, handle, ui, view, shown>>
  BY DEF TakeLine
<1>2. /\ DOMAIN worker' = WorkerFields
      /\ worker'.phase = IF requests[1] = ShutdownRequest THEN "shutdown" ELSE "working"
      /\ worker'.session = worker.session /\ worker'.base = worker.base
      /\ worker'.ok = worker.ok
  BY <1>1 DEF TuiInv, WorkerInv, WorkerFields
<1>3. worker'.ok \in BOOLEAN
  BY <1>2 DEF TuiInv, WorkerInv
<1>4. Speaking /\ Alive
  BY <1>1 DEF Speaking, Alive
<1>5. SameSession
  BY <1>2, <1>3, <1>4 DEF SameSession, WorkerPhases
<1>6. TuiParts'
  BY <1>1, <1>4, <1>5, NothingTold
<1> DEFINE L == {requests[i] : i \in DOMAIN requests}
           n == Len(requests)
<1>7. requests \in Seq(L)
  BY DEF TuiInv, RequestsInv, IsSequence
<1> HIDE DEF L
<1>8. n \in Nat /\ n > 0
  BY <1>1, <1>7, LenProperties, EmptySeq
<1>9. /\ requests' \in Seq(L) /\ Len(requests') = n - 1
      /\ \A i \in 1 .. (n - 1) : requests'[i] = requests[i + 1]
  BY <1>1, <1>7, <1>8, HeadTailProperties
<1>10. RequestsInv'
  <2>1. IsSequence(requests')
    BY <1>9, Sequenced
  <2>2. ASSUME Serving, NEW i \in 1 .. (n - 1)
        PROVE  requests'[i] # ShutdownRequest
    <3>1. i + 1 \in 1 .. n
      BY <1>8
    <3> QED
      BY <1>9, <2>2, <3>1 DEF TuiInv, RequestsInv
  <2> QED
    BY <1>1, <1>9, <2>1, <2>2 DEF RequestsInv, Serving
<1>11. OneAtATime'
  <2> SUFFICES ASSUME Serving
               PROVE  Outstanding' = IF ui.busy THEN 1 ELSE 0
    BY <1>1 DEF OneAtATime, Serving
  <2>1. Outstanding = IF ui.busy THEN 1 ELSE 0
    BY <1>4 DEF TuiInv, OneAtATime, Serving
  <2>2. requests[1] # ShutdownRequest
    <3>1. 1 \in 1 .. n
      BY <1>8
    <3> QED
      BY <3>1 DEF TuiInv, RequestsInv
  <2>3. UnderWay(worker.phase) = 0 /\ UnderWay(worker'.phase) = 1
    BY <1>1, <1>2, <2>2 DEF UnderWay
  <2>4. Outstanding' = Len(requests') + UnderWay(worker'.phase) + Cardinality(Answers(pipe'))
    BY DEF Outstanding, Answers, UnderWay
  <2>5. /\ Outstanding = n + 0 + Cardinality(Answers(pipe))
        /\ Cardinality(Answers(pipe)) \in Nat
    BY <2>3, ToAnswer
  <2>6. Outstanding' = (n - 1) + 1 + Cardinality(Answers(pipe))
    BY <1>1, <1>9, <2>3, <2>4
  <2>7. Outstanding' = Outstanding
    BY <1>8, <2>5, <2>6
  <2> QED
    BY <2>1, <2>7
<1> QED
  BY <1>6, <1>10, <1>11, Whole

LEMMA WorkStep ==
    ASSUME TuiInv, Work
    PROVE  TuiInv'
<1>1. PICK next : next = [worker EXCEPT !.steps = @ - 1]
  OBVIOUS
<1>2. worker.phase = "working" /\ Record(Now, next)
      /\ UNCHANGED <<requests, handle, ui, view, shown>>
  BY <1>1 DEF Work
<1>3. /\ DOMAIN next = WorkerFields /\ next.phase = worker.phase
      /\ next.session = worker.session /\ next.ok = worker.ok
  BY <1>1 DEF TuiInv, WorkerInv, WorkerFields
<1>4. next.ok \in BOOLEAN
  BY <1>3 DEF TuiInv, WorkerInv
<1>5. Follows(next)
  BY <1>2, <1>3, <1>4 DEF Follows
<1> QED
  BY <1>2, <1>3, <1>5, NowRecorded, RecordStep

\* What a line leaves to be answered.
LEMMA FinishedFollows ==
    ASSUME TuiInv, worker.phase = "working", NEW next,
           next = Finished \/ next = [Finished EXCEPT !.ok = FALSE]
    PROVE  /\ Follows(next) /\ UnderWay(next.phase) = UnderWay(worker.phase)
           /\ next.base = worker.base
<1>1. /\ DOMAIN next = WorkerFields /\ next.phase = "settling"
      /\ next.session = worker.session /\ next.base = worker.base
  BY DEF TuiInv, WorkerInv, WorkerFields, Finished
<1>2. next.ok \in BOOLEAN
  <2>1. next.ok = worker.ok \/ next.ok = FALSE
    BY DEF TuiInv, WorkerInv, WorkerFields, Finished
  <2>2. worker.ok \in BOOLEAN
    BY DEF TuiInv, WorkerInv
  <2> QED
    BY <2>1, <2>2
<1> QED
  BY <1>1, <1>2 DEF Follows, UnderWay

LEMMA ForkStep ==
    ASSUME TuiInv, Fork
    PROVE  TuiInv'
<1>1. PICK line \in {<<>>} \cup {journals[worker.session][i] : i \in DOMAIN journals[worker.session]} :
         Record(line, Finished)
  BY DEF Fork
<1>2. worker.phase = "working" /\ UNCHANGED <<requests, handle, ui, view, shown>>
  BY DEF Fork, Working
<1>3. PICK next : next = Finished
  OBVIOUS
<1>4. Follows(next) /\ UnderWay(next.phase) = UnderWay(worker.phase)
  BY <1>2, <1>3, FinishedFollows
<1>5. Recorded(Snapshot(worker.session, line))
  <2>1. worker.session \in Sessions
    BY SpeaksOfHead
  <2> DEFINE n == Len(journals[worker.session])
  <2>2. /\ DOMAIN journals[worker.session] = 1 .. n /\ <<>> \in OffsetLines
        /\ \A k \in 1 .. n : journals[worker.session][k] \in OffsetLines
    <3>1. journals[worker.session] \in Seq(OffsetLines)
      BY <2>1, JournalLines DEF TuiInv
    <3> QED
      BY <2>1, <3>1, JournalLines, LenProperties DEF TuiInv
  <2>3. line = <<>> \/ \E k \in 1 .. n : line = journals[worker.session][k]
    BY <1>1, <2>2
  <2>4. line \in OffsetLines
    BY <2>2, <2>3
  <2> QED
    BY <2>1, <2>3, <2>4 DEF Recorded, Snapshot, Views
<1> QED
  BY <1>1, <1>2, <1>3, <1>4, <1>5, RecordStep

LEMMA SucceedStep ==
    ASSUME TuiInv, Succeed
    PROVE  TuiInv'
<1>1. /\ worker.phase = "working" /\ worker' = Finished
      /\ UNCHANGED <<journals, requests, pipe, handle, ui, view, shown>>
  BY DEF Succeed
<1>2. Speaking /\ Alive
  BY <1>1 DEF Speaking, Alive
<1>3. PICK next : next = Finished
  OBVIOUS
<1>4. Follows(next) /\ UnderWay(next.phase) = UnderWay(worker.phase) /\ next.base = worker.base
  BY <1>1, <1>3, FinishedFollows
<1>5. SameSession
  BY <1>1, <1>2, <1>3, <1>4 DEF SameSession, Follows, WorkerPhases
<1>6. TuiParts'
  BY <1>1, <1>2, <1>5, NothingTold
<1>7. RequestsInv' /\ OneAtATime'
  BY <1>1, <1>2, <1>3, <1>4, AsMany, ToAnswer
<1> QED
  BY <1>6, <1>7, Whole

LEMMA FailStep ==
    ASSUME TuiInv, Fail
    PROVE  TuiInv'
<1>1. PICK next : next = [Finished EXCEPT !.ok = FALSE]
  OBVIOUS
<1>2. /\ worker.phase = "working" /\ UNCHANGED <<requests, handle, ui, view, shown>>
      /\ Record(Now, next) \/ (worker' = next /\ UNCHANGED <<journals, pipe>>)
  BY <1>1 DEF Fail
<1>3. Speaking /\ Alive
  BY <1>2 DEF Speaking, Alive
<1>4. Follows(next) /\ UnderWay(next.phase) = UnderWay(worker.phase) /\ next.base = worker.base
  BY <1>1, <1>2, FinishedFollows
<1>5. CASE Record(Now, next)
  BY <1>2, <1>4, <1>5, NowRecorded, RecordStep
<1>6. CASE worker' = next /\ UNCHANGED <<journals, pipe>>
  <2>1. SameSession
    BY <1>3, <1>4, <1>6 DEF SameSession, Follows, WorkerPhases
  <2>2. TuiParts'
    BY <1>2, <1>3, <1>6, <2>1, NothingTold
  <2>3. RequestsInv' /\ OneAtATime'
    BY <1>2, <1>3, <1>4, <1>6, AsMany, ToAnswer
  <2> QED
    BY <2>2, <2>3, Whole
<1> QED
  BY <1>2, <1>5, <1>6

LEMMA SettleStep ==
    ASSUME TuiInv, Settle
    PROVE  TuiInv'
<1>1. /\ worker.phase = "settling" /\ HasRoom
      /\ pipe' = Append(pipe, Settled(worker.ok))
      /\ worker' = [worker EXCEPT !.phase = "idle", !.line = None, !.ok = TRUE]
      /\ UNCHANGED <<journals, requests, handle, ui, view, shown>>
  BY DEF Settle
<1>2. /\ DOMAIN worker' = WorkerFields /\ worker'.phase = "idle"
      /\ worker'.session = worker.session /\ worker'.base = worker.base
      /\ worker'.ok = TRUE
  BY <1>1 DEF TuiInv, WorkerInv, WorkerFields
<1>3. Speaking /\ Alive
  BY <1>1 DEF Speaking, Alive
<1>4. SameSession
  BY <1>2, <1>3 DEF SameSession, WorkerPhases
<1>5. Settled(worker.ok) \in Events /\ Settled(worker.ok).kind = "Settled"
  BY DEF TuiInv, WorkerInv, Settled, Events
<1>6. Len(pipe) < Capacity
  BY <1>1 DEF HasRoom
<1>7. TuiParts'
  <2>1. PICK event : event = Settled(worker.ok)
    OBVIOUS
  <2> QED
    BY <1>1, <1>3, <1>4, <1>5, <1>6, <2>1, PlainTold
<1>8. pipe \in Seq(Events) /\ Cardinality(Answers(pipe)) \in Nat
  BY ToAnswer
<1>9. Cardinality(Answers(pipe')) = Cardinality(Answers(pipe)) + 1
  <2>1. PICK event : event = Settled(worker.ok)
    OBVIOUS
  <2>2. Cardinality(Answers(Append(pipe, event))) = Cardinality(Answers(pipe)) + 1
    BY <1>5, <1>8, <2>1, AnswersGrow
  <2> QED
    BY <1>1, <2>1, <2>2
<1>10. UnderWay(worker'.phase) = 0 /\ UnderWay(worker.phase) = 1
  BY <1>1, <1>2 DEF UnderWay
<1>11. RequestsInv' /\ OneAtATime'
  <2>1. UnderWay(worker'.phase) + Cardinality(Answers(pipe'))
          = UnderWay(worker.phase) + Cardinality(Answers(pipe))
    BY <1>8, <1>9, <1>10
  <2>2. Cardinality(Answers(pipe')) \in Nat
    BY <1>8, <1>9
  <2> QED
    BY <1>1, <1>3, <2>1, <2>2, AsMany
<1> QED
  BY <1>7, <1>11, Whole

LEMMA ShutdownStep ==
    ASSUME TuiInv, Shutdown
    PROVE  TuiInv'
<1>1. /\ worker.phase = "shutdown" /\ pipe' = Append(pipe, Settled(TRUE))
      /\ worker' = [worker EXCEPT !.phase = "gone"]
      /\ UNCHANGED <<journals, requests, handle, ui, view, shown>>
  BY DEF Shutdown
<1>2. /\ DOMAIN worker' = WorkerFields /\ worker'.phase = "gone"
      /\ worker'.session = worker.session /\ worker'.base = worker.base
      /\ worker'.ok = worker.ok
  BY <1>1 DEF TuiInv, WorkerInv, WorkerFields
<1>3. worker'.ok \in BOOLEAN
  BY <1>2 DEF TuiInv, WorkerInv
<1>4. Speaking
  BY <1>1 DEF Speaking
<1>5. SameSession
  BY <1>2, <1>3, <1>4 DEF SameSession, WorkerPhases
<1>6. TuiParts'
  <2>1. PICK event : event = Settled(TRUE)
    OBVIOUS
  <2>2. event \in Events /\ event.kind = "Settled"
    BY <2>1 DEF Settled, Events
  <2> QED
    BY <1>1, <1>2, <1>4, <1>5, <2>1, <2>2, PlainTold
<1> QED
  BY <1>1, <1>2, <1>6, GoneCount, Whole

LEMMA DieStep ==
    ASSUME TuiInv, Die
    PROVE  TuiInv'
<1>1. /\ Alive /\ worker' = [worker EXCEPT !.phase = "gone"]
      /\ UNCHANGED <<journals, requests, pipe, handle, ui, view, shown>>
  BY DEF Die
<1>2. /\ DOMAIN worker' = WorkerFields /\ worker'.phase = "gone"
      /\ worker'.session = worker.session /\ worker'.base = worker.base
      /\ worker'.ok = worker.ok
  BY <1>1 DEF TuiInv, WorkerInv, WorkerFields
<1>3. worker'.ok \in BOOLEAN
  BY <1>2 DEF TuiInv, WorkerInv
<1>4. SameSession
  BY <1>2, <1>3 DEF SameSession, WorkerPhases, Speaking
<1>5. TuiParts'
  BY <1>1, <1>4, NothingTold
<1> QED
  BY <1>1, <1>2, <1>5, GoneCount, Whole

\* The first record of a session ends in its offset.
LEMMA FirstLine == EndsIn(<<1>>, 1) /\ <<1>> \in OffsetLines /\ Offset(<<1>>) = 1
<1>1. <<1>> \in Seq(1 .. 1) /\ Len(<<1>>) = 1 /\ Last(<<1>>) = 1
  BY DEF Last
<1>2. EndsIn(<<1>>, 1)
  BY <1>1 DEF EndsIn
<1>3. PICK line : line = <<1>>
  OBVIOUS
<1>4. PICK k : k = 1
  OBVIOUS
<1>5. EndsIn(line, k) /\ k \in Nat /\ k <= MaxRecords
  BY <1>2, <1>3, <1>4, SomeRoom
<1>6. line \in OffsetLines /\ Offset(line) = k
  BY <1>5, LineBounded
<1> QED
  BY <1>2, <1>3, <1>4, <1>6

LEMMA CleanSessionStep ==
    ASSUME TuiInv, CleanSession
    PROVE  TuiInv'
<1>1. PICK s \in Sessions :
         /\ s = worker.session + 1
         /\ journals' = [journals EXCEPT ![s] = <<<<1>>>>]
         /\ pipe' = Append(pipe, SessionChanged(Snapshot(s, <<1>>)))
         /\ worker' = [worker EXCEPT !.session = s, !.base = 1,
                                     !.line = Text("initialize_provider", None)]
  BY DEF CleanSession
<1>2. /\ worker.phase = "working" /\ Len(pipe) < Capacity
      /\ UNCHANGED <<requests, handle, ui, view, shown>>
  BY DEF CleanSession, Working, HasRoom
<1>3. PICK line : line = <<1>>
  OBVIOUS
<1>4. EndsIn(line, 1) /\ line \in OffsetLines /\ Offset(line) = 1
  BY <1>3, FirstLine
<1>5. worker.session \in Sessions /\ worker.session \in Nat
  BY SpeaksOfHead
<1>6. /\ DOMAIN worker' = WorkerFields /\ worker'.phase = "working" /\ worker'.session = s
      /\ worker'.base = 1 /\ worker'.ok = worker.ok
  BY <1>1, <1>2 DEF TuiInv, WorkerInv, WorkerFields
<1>7. Alive /\ worker'.phase # "starting"
  BY <1>2, <1>6 DEF Alive
<1>8. WorkerInv'
  <2>1. worker'.ok \in BOOLEAN
    BY <1>6 DEF TuiInv, WorkerInv
  <2>2. handle' \in Sessions /\ view' \in Views
    BY <1>2 DEF TuiInv, WorkerInv
  <2> QED
    BY <1>6, <2>1, <2>2 DEF WorkerInv, WorkerPhases
<1>9. PICK journal : journal = <<line>>
  OBVIOUS
<1>10. /\ journal \in Seq(OffsetLines) /\ Len(journal) = 1 /\ journal[1] = line
       /\ journal # <<>> /\ Last(journal) = line
  BY <1>4, <1>9 DEF Last
<1>11. /\ journals \in [Sessions -> Seq(OffsetLines)]
       /\ journals' = [journals EXCEPT ![s] = journal]
  BY <1>1, <1>3, <1>9 DEF TuiInv, JournalsInv
<1>12. journals'[s] = journal /\ \A t \in Sessions : t # s => journals'[t] = journals[t]
  BY <1>11
<1>13. JournalsInv'
  <2>1. journals' \in [Sessions -> Seq(OffsetLines)]
    BY <1>10, <1>11
  <2>2. \A t \in Sessions : Len(journals'[t]) <= MaxRecords
    <3>1. MaxRecords \in Nat /\ 1 <= MaxRecords
      BY SomeRoom
    <3>2. \A t \in Sessions : Len(journals[t]) <= MaxRecords
      BY DEF TuiInv, JournalsInv
    <3> QED
      BY <1>10, <1>12, <3>1, <3>2
  <2>3. \A t \in Sessions : \A k \in 1 .. Len(journals'[t]) : EndsIn(journals'[t][k], k)
    <3>1. \A k \in 1 .. 1 : k = 1
      OBVIOUS
    <3> QED
      BY <1>4, <1>10, <1>12, <3>1 DEF TuiInv, JournalsInv
  <2> QED
    BY <2>1, <2>2, <2>3 DEF JournalsInv
<1>14. HeadOf(worker.session)' = Snapshot(s, line)
  BY <1>6, <1>10, <1>12 DEF HeadOf, Snapshot
<1>15. BaseInv'
  <2>1. Now' = line
    BY <1>14 DEF Now, Snapshot
  <2> QED
    BY <1>4, <1>6, <2>1 DEF BaseInv
<1>16. StillRecorded
  <2> SUFFICES ASSUME NEW snap, Recorded(snap), snap.session <= worker.session
               PROVE  Recorded(snap)'
    BY DEF StillRecorded
  <2>1. snap.session \in Sessions /\ snap.session \in Nat
    BY TuiAssumption DEF Recorded, Views
  <2>2. snap.session # s
    BY <1>1, <1>5, <2>1
  <2> QED
    BY <1>12, <2>1, <2>2 DEF Recorded
<1>17. PICK snap : snap = Snapshot(s, line)
  OBVIOUS
<1>18. PICK event : event = SessionChanged(snap)
  OBVIOUS
<1>19. /\ snap \in Views /\ snap.session = s
       /\ event \in Events /\ event.kind = "SessionChanged" /\ event.snapshot = snap
  <2>1. snap \in Views /\ snap.session = s
    BY <1>4, <1>17 DEF Snapshot, Views
  <2> QED
    BY <1>18, <2>1 DEF SessionChanged, Events
<1>20. Recorded(snap)'
  <2>1. Recorded(HeadOf(s))'
    BY <1>13, HeadRecordedNext
  <2>2. HeadOf(worker.session)' = HeadOf(s)'
    BY <1>6 DEF HeadOf
  <2> QED
    BY <1>14, <1>17, <2>1, <2>2
<1>21. \A f : Course(f) => snap = Learned(f[Len(pipe)], event)
  <2>1. Speaking
    BY <1>2 DEF Speaking
  <2> QED
    BY <1>19, <2>1, SpeaksOfHead DEF Learned
<1>22. pipe' = Append(pipe, event)
  BY <1>1, <1>3, <1>17, <1>18
<1>23. /\ worker.session <= worker'.session /\ worker'.session \in Sessions
       /\ snap.session = worker'.session
       /\ event.kind = "Snapshot" => event.snapshot.session = worker.session
       /\ Speaking' => HeadOf(worker.session)' = snap
  BY <1>1, <1>5, <1>6, <1>14, <1>17, <1>19
<1>24. PipeInv' /\ ViewInv' /\ UiInv' /\ ShownInv'
  BY <1>2, <1>7, <1>16, <1>19, <1>20, <1>21, <1>22, <1>23, WorkerTells
<1>25. RequestsInv' /\ OneAtATime'
  <2>1. pipe \in Seq(Events) /\ Cardinality(Answers(pipe)) \in Nat
    BY ToAnswer
  <2>2. Cardinality(Answers(pipe')) = Cardinality(Answers(pipe)) + 0
    BY <1>19, <1>22, <2>1, AnswersGrow
  <2>3. Cardinality(Answers(pipe')) = Cardinality(Answers(pipe))
    BY <2>1, <2>2
  <2>4. UnderWay(worker'.phase) = UnderWay(worker.phase)
    BY <1>2, <1>6
  <2> QED
    BY <1>2, <1>7, <2>1, <2>3, <2>4, AsMany
<1> QED
  BY <1>8, <1>13, <1>15, <1>24, <1>25, Whole DEF TuiParts

-----------------------------------------------------------------------------
(* What the interface's steps come to. *)

\* It has something new to draw, or is about to end.
UiLands ==
    /\ DOMAIN ui' = UiFields /\ ui'.pc \in {"poll", "stopping", "ended"}
    /\ ui'.busy \in BOOLEAN /\ ui'.dirty \in BOOLEAN
    /\ ui'.pc = "poll" => ui'.dirty
    /\ ui'.selected \in Nat /\ ui'.menu = <<>>
Shaped(u) ==
    /\ DOMAIN u = UiFields /\ u.pc = "poll"
    /\ u.busy \in BOOLEAN /\ u.dirty = TRUE
    /\ u.selected \in Nat /\ u.menu = <<>>

\* It goes on; it has sent a line; it ends with an error; it has stopped what is
\* under way; or it ends in order.
Calm(busy) == UiLands /\ ui'.pc = "poll" /\ ui'.busy = busy /\ UNCHANGED <<requests, worker>>
Sends(busy) ==
    /\ UiLands /\ ui'.pc = "poll" /\ ~busy /\ ui'.busy = TRUE /\ Alive
    /\ UNCHANGED worker /\ \E line : line # None /\ requests' = Append(requests, line)
Breaks ==
    /\ UiLands /\ ui'.pc = "ended"
    /\ worker' = [worker EXCEPT !.phase = "gone"] /\ UNCHANGED requests
Halts == UiLands /\ ui'.pc = "poll" /\ ui'.busy = FALSE /\ Interrupt
Leaves ==
    /\ UiLands /\ ui'.pc = "stopping"
    /\ \/ worker' = Restarted /\ requests' = <<ShutdownRequest>> /\ pipe' = <<>>
       \/ requests' = Append(requests, ShutdownRequest) /\ UNCHANGED <<worker, pipe>>

LEMMA Landed ==
    ASSUME UiLands
    PROVE  UiInv' /\ ShownInv'
<1>1. UiInv'
  <2>1. ui'.busy \in BOOLEAN
    BY DEF UiLands
  <2>2. ui'.dirty \in BOOLEAN
    BY DEF UiLands
  <2> QED
    BY <2>1, <2>2 DEF UiLands, UiInv, UiPhases
<1>2. ShownInv'
  BY DEF UiLands, ShownInv
<1> QED
  BY <1>1, <1>2

LEMMA ShapedLands ==
    ASSUME NEW u, Shaped(u), ui' = u
    PROVE  UiLands /\ ui'.pc = "poll" /\ ui'.busy = u.busy
<1>1. ui'.busy \in BOOLEAN
  BY DEF Shaped
<1>2. ui'.dirty = TRUE
  BY DEF Shaped
<1>3. ui'.dirty \in BOOLEAN
  BY <1>2
<1> QED
  BY <1>1, <1>2, <1>3 DEF Shaped, UiLands

LEMMA FailsBreaks ==
    ASSUME NEW u, DOMAIN u = UiFields, u.busy \in BOOLEAN, u.dirty \in BOOLEAN,
           u.selected \in Nat, u.menu = <<>>, Fails(u)
    PROVE  Breaks
<1>1. /\ DOMAIN ui' = UiFields /\ ui'.pc = "ended" /\ ui'.busy = u.busy /\ ui'.dirty = u.dirty
      /\ ui'.selected = u.selected /\ ui'.menu = u.menu
      /\ worker' = [worker EXCEPT !.phase = "gone"] /\ UNCHANGED requests
  BY DEF Fails, UiFields
<1>2. ui'.busy \in BOOLEAN
  BY <1>1
<1>3. ui'.dirty \in BOOLEAN
  BY <1>1
<1> QED
  BY <1>1, <1>2, <1>3 DEF Breaks, UiLands

LEMMA Delivers ==
    ASSUME NEW u, Shaped(u), NEW line, line # None => ~u.busy, Deliver(u, line)
    PROVE  Calm(u.busy) \/ Sends(u.busy) \/ Breaks
<1>1. CASE line = None
  <2>1. ui' = u /\ UNCHANGED <<requests, worker>>
    BY <1>1 DEF Deliver
  <2> QED
    BY <2>1, ShapedLands DEF Calm
<1>2. CASE line # None /\ Alive
  <2>1. ui' = [u EXCEPT !.busy = TRUE] /\ requests' = Append(requests, line) /\ UNCHANGED worker
    BY <1>2 DEF Deliver
  <2>2. PICK v : v = [u EXCEPT !.busy = TRUE]
    OBVIOUS
  <2>3. Shaped(v) /\ v.busy = TRUE
    BY <2>2 DEF Shaped, UiFields
  <2>4. UiLands /\ ui'.pc = "poll" /\ ui'.busy = v.busy
    BY <2>1, <2>2, <2>3, ShapedLands
  <2> QED
    BY <1>2, <2>1, <2>3, <2>4 DEF Sends
<1>3. CASE line # None /\ ~Alive
  <2>1. Fails(u)
    BY <1>3 DEF Deliver
  <2>2. u.busy \in BOOLEAN
    BY DEF Shaped
  <2>3. u.dirty \in BOOLEAN
    BY DEF Shaped
  <2> QED
    BY <2>1, <2>2, <2>3, FailsBreaks DEF Shaped
<1> QED
  BY <1>1, <1>2, <1>3

LEMMA DeliversPending ==
    ASSUME NEW u, Shaped(u), DeliverPending(u)
    PROVE  Calm(u.busy) \/ Sends(u.busy) \/ Breaks
<1>1. PICK v : v = [u EXCEPT !.pending = IF u.busy THEN @ ELSE None]
  OBVIOUS
<1>2. PICK line : line = IF u.busy THEN None ELSE u.pending
  OBVIOUS
<1>3. Deliver(v, line)
  BY <1>1, <1>2 DEF DeliverPending
<1>4. v.busy = u.busy /\ v.dirty = TRUE /\ v.pc = u.pc /\ v.selected = u.selected
      /\ v.menu = u.menu /\ DOMAIN v = UiFields
  BY <1>1 DEF Shaped, UiFields
<1>5. Shaped(v)
  <2>1. v.busy \in BOOLEAN
    BY <1>4 DEF Shaped
  <2> QED
    BY <1>4, <2>1 DEF Shaped
<1>6. line # None => ~v.busy
  BY <1>2, <1>4
<1>7. Calm(v.busy) \/ Sends(v.busy) \/ Breaks
  BY <1>3, <1>5, <1>6, Delivers
<1> QED
  BY <1>4, <1>7

\* A sequence grows.
LEMMA Lengthened ==
    ASSUME NEW s, IsSequence(s), NEW e
    PROVE  /\ IsSequence(Append(s, e)) /\ Len(Append(s, e)) = Len(s) + 1 /\ Len(s) \in Nat
           /\ Append(s, e)[Len(s) + 1] = e /\ \A i \in 1 .. Len(s) : Append(s, e)[i] = s[i]
<1> DEFINE S == {s[i] : i \in DOMAIN s} \cup {e}
<1>1. s \in Seq({s[i] : i \in DOMAIN s})
  BY DEF IsSequence
<1>2. s \in Seq(S) /\ e \in S
  BY <1>1
<1> HIDE DEF S
<1>3. /\ Append(s, e) \in Seq(S) /\ Len(Append(s, e)) = Len(s) + 1 /\ Len(s) \in Nat
      /\ Append(s, e)[Len(s) + 1] = e /\ \A i \in 1 .. Len(s) : Append(s, e)[i] = s[i]
  BY <1>2, AppendProperties, LenProperties
<1> QED
  BY <1>3, Sequenced

\* What is to be answered, when the interface has gone on or has sent a line.
LEMMA GoesOn ==
    ASSUME TuiInv, Serving, NEW b \in BOOLEAN, Calm(b) \/ Sends(b),
           Cardinality(Answers(pipe')) \in Nat,
           Alive => Len(requests) + UnderWay(worker.phase) + Cardinality(Answers(pipe'))
                      = IF b THEN 1 ELSE 0
    PROVE  RequestsInv' /\ OneAtATime'
<1>1. /\ worker' = worker /\ Len(requests) \in Nat /\ UnderWay(worker.phase) \in {0, 1}
      /\ IsSequence(requests) /\ \A i \in 1 .. Len(requests) : requests[i] # ShutdownRequest
      /\ Outstanding' = Len(requests') + UnderWay(worker.phase) + Cardinality(Answers(pipe'))
  <2>1. worker' = worker
    BY DEF Calm, Sends
  <2>2. Outstanding' = Len(requests') + UnderWay(worker'.phase) + Cardinality(Answers(pipe'))
    BY DEF Outstanding, Answers, UnderWay
  <2> QED
    BY <2>1, <2>2, ToAnswer DEF TuiInv, RequestsInv
<1>2. CASE Calm(b)
  <2>1. requests' = requests /\ ui'.busy = b
    BY <1>2 DEF Calm
  <2>2. RequestsInv'
    BY <1>1, <2>1 DEF RequestsInv
  <2>3. OneAtATime'
    BY <1>1, <2>1 DEF OneAtATime, Alive
  <2> QED
    BY <2>2, <2>3
<1>3. CASE Sends(b)
  <2>1. PICK line : line # None /\ requests' = Append(requests, line)
    BY <1>3 DEF Sends
  <2>2. /\ IsSequence(requests') /\ Len(requests') = Len(requests) + 1
        /\ requests'[Len(requests) + 1] = line
        /\ \A i \in 1 .. Len(requests) : requests'[i] = requests[i]
    BY <1>1, <2>1, Lengthened
  <2>3. RequestsInv'
    <3>1. \A i \in 1 .. (Len(requests) + 1) : i \in 1 .. Len(requests) \/ i = Len(requests) + 1
      BY <1>1
    <3> QED
      BY <1>1, <2>1, <2>2, <3>1 DEF RequestsInv, ShutdownRequest
  <2>4. OneAtATime'
    <3>1. Len(requests) + UnderWay(worker.phase) + Cardinality(Answers(pipe')) = 0
      BY <1>3 DEF Sends
    <3>2. Outstanding' = 1
      BY <1>1, <2>2, <3>1
    <3>3. ui'.busy
      BY <1>3 DEF Sends
    <3> QED
      BY <3>2, <3>3 DEF OneAtATime
  <2> QED
    BY <2>3, <2>4
<1> QED
  BY <1>2, <1>3

\* A worker as it was, or killed.
LEMMA GoneWorker ==
    ASSUME TuiInv, worker' = [worker EXCEPT !.phase = "gone"], journals' = journals,
           handle' \in Sessions, view' \in Views
    PROVE  WorkerInv' /\ JournalsInv' /\ BaseInv' /\ ~Alive'
<1>1. /\ DOMAIN worker' = WorkerFields /\ worker'.phase = "gone"
      /\ worker'.session = worker.session /\ worker'.base = worker.base
      /\ worker'.ok = worker.ok
  BY DEF TuiInv, WorkerInv, WorkerFields
<1>2. worker'.ok \in BOOLEAN
  BY <1>1 DEF TuiInv, WorkerInv
<1>3. WorkerInv'
  BY <1>1, <1>2 DEF TuiInv, WorkerInv, WorkerPhases
<1>4. JournalsInv'
  BY DEF TuiInv, JournalsInv
<1> QED
  BY <1>1, <1>3, <1>4 DEF BaseInv, Speaking, Alive

LEMMA BrokenStep ==
    ASSUME TuiInv, Breaks, journals' = journals, handle' \in Sessions, view' \in Views,
           pipe' \in Seq(Events), Len(pipe') <= Len(pipe), Len(pipe') \in Nat
    PROVE  TuiInv'
<1>1. /\ UiLands /\ ui'.pc = "ended" /\ requests' = requests
      /\ worker' = [worker EXCEPT !.phase = "gone"]
  BY DEF Breaks
<1>2. UiInv' /\ ShownInv'
  BY <1>1, Landed
<1>3. WorkerInv' /\ JournalsInv' /\ BaseInv' /\ ~Alive'
  BY <1>1, GoneWorker
<1>4. PipeInv'
  <2>1. Len(pipe') <= Capacity + 1
    <3>1. Len(pipe) \in Nat /\ Len(pipe) <= Capacity + 1 /\ Capacity \in Nat
      BY TuiAssumption, LenProperties DEF TuiInv, PipeInv
    <3> QED
      BY <3>1
  <2> QED
    BY <1>3, <2>1 DEF PipeInv, Alive
<1>5. ~Serving'
  BY <1>1 DEF Serving
<1>6. RequestsInv'
  BY <1>1, <1>5 DEF TuiInv, RequestsInv
<1>7. ViewInv' /\ OneAtATime'
  BY <1>3, <1>5 DEF ViewInv, OneAtATime, Alive
<1> QED
  BY <1>2, <1>3, <1>4, <1>6, <1>7 DEF TuiInv

\* What is known while the user is served.
LEMMA ServedView ==
    ASSUME TuiInv, Serving
    PROVE  /\ view.session = handle /\ handle \in Sessions /\ handle \in Nat
           /\ Recorded(view) /\ view \in Views
<1>1. view.session = handle /\ \E f : Course(f)
  BY DEF TuiInv, ViewInv
<1>2. PICK f : Course(f)
  BY <1>1
<1>3. Len(pipe) \in Nat
  BY LenProperties DEF TuiInv, PipeInv
<1>4. Recorded(f[0]) /\ f[0] = view
  BY <1>2, <1>3 DEF Course
<1> QED
  BY <1>1, <1>4, TuiAssumption DEF TuiInv, WorkerInv

-----------------------------------------------------------------------------
(* The steps of the interface. *)

LEMMA PollEventStep ==
    ASSUME TuiInv, PollEvent
    PROVE  TuiInv'
<1>1. PICK event : event = pipe[1]
  OBVIOUS
<1>2. /\ ui.pc = "poll" /\ pipe # <<>> /\ pipe' = Tail(pipe)
      /\ CASE event.kind \in {"Snapshot", "SessionChanged"} -> TakeSnapshot(event)
           [] event.kind = "Patch" -> TakePatch(event)
           [] event.kind = "Settled" -> TakeSettled(event)
           [] event.kind = "Diagnostic" -> /\ ui' = [ui EXCEPT !.dirty = TRUE]
                                           /\ UNCHANGED <<view, handle, requests, worker>>
      /\ UNCHANGED <<journals, shown, keys, deaths>>
  BY <1>1 DEF PollEvent
<1>3. Serving /\ ui.menu = <<>> /\ ui.busy \in BOOLEAN
  BY <1>2 DEF Serving, TuiInv, UiInv
<1>4. /\ DOMAIN ui = UiFields /\ ui.selected \in Nat /\ ui.pc = "poll" /\ ui.menu = <<>>
      /\ view.session = handle /\ handle \in Sessions
  BY <1>2, <1>3, ServedView DEF TuiInv, UiInv
<1>5. ui.dirty \in BOOLEAN
  BY DEF TuiInv, UiInv
<1>6. /\ pipe \in Seq(Events) /\ Len(pipe) \in Nat /\ Len(pipe) > 0 /\ event \in Events
      /\ pipe' \in Seq(Events) /\ Len(pipe') = Len(pipe) - 1
  <2>1. pipe \in Seq(Events) /\ Len(pipe) \in Nat /\ Len(pipe) > 0
    BY <1>2, LenProperties, EmptySeq DEF TuiInv, PipeInv
  <2>2. event \in Events
    BY <1>1, <2>1
  <2>3. pipe' \in Seq(Events) /\ Len(pipe') = Len(pipe) - 1
    BY <1>2, <2>1, HeadTailProperties
  <2> QED
    BY <2>1, <2>2, <2>3
<1>7. PICK f : Course(f)
  BY <1>3 DEF TuiInv, ViewInv
<1>8. /\ f[0] = view /\ view # None /\ view \in Views
      /\ f[1] = Learned(view, event) /\ f[1] \in Views /\ f[1] # None
      /\ event.kind = "Snapshot" => event.snapshot.session = view.session
  <2>1. 1 \in 1 .. Len(pipe) /\ 1 \in 0 .. Len(pipe) /\ 0 \in 0 .. Len(pipe) /\ 1 - 1 = 0
    BY <1>6
  <2>2. f[0] = view /\ Recorded(f[0]) /\ Recorded(f[1])
    BY <1>7, <2>1 DEF Course
  <2>3. f[1] = Learned(f[0], pipe[1])
        /\ (pipe[1].kind = "Snapshot" => pipe[1].snapshot.session = f[0].session)
    BY <1>7, <2>1 DEF Course
  <2>4. \A snap : Recorded(snap) => snap \in Views /\ snap # None
    BY TuiAssumption DEF Recorded, Views
  <2> QED
    BY <1>1, <2>2, <2>3, <2>4
<1>9. PICK b : b = IF event.kind = "Settled" THEN FALSE ELSE ui.busy
  OBVIOUS
<1>10. PICK dirtied : dirtied = [ui EXCEPT !.dirty = TRUE]
  OBVIOUS
<1>11. Shaped(dirtied) /\ dirtied.busy = ui.busy
  <2>1. /\ DOMAIN dirtied = UiFields /\ dirtied.pc = "poll" /\ dirtied.busy = ui.busy
        /\ dirtied.dirty = TRUE /\ dirtied.selected = ui.selected /\ dirtied.menu = <<>>
    BY <1>4, <1>10 DEF UiFields
  <2>2. dirtied.busy \in BOOLEAN
    BY <1>3, <2>1
  <2> QED
    BY <1>4, <2>1, <2>2 DEF Shaped
<1>12. ASSUME event.kind \in {"Snapshot", "SessionChanged"}
       PROVE  (Calm(b) \/ Sends(b) \/ Breaks) /\ view' = Learned(view, event) /\ handle' = view'.session
  <2>1. PICK u : u = IF event.snapshot.session = view.session THEN ui ELSE OtherSession(ui)
    OBVIOUS
  <2>2. PICK v : v = [u EXCEPT !.ready = TRUE, !.dirty = TRUE]
    OBVIOUS
  <2>3. /\ view' = event.snapshot
        /\ handle' = IF event.kind = "SessionChanged" THEN event.snapshot.session ELSE handle
        /\ DeliverPending(v)
    BY <1>2, <1>12, <2>1, <2>2 DEF TakeSnapshot
  <2>4. /\ DOMAIN u = UiFields /\ u.pc = "poll" /\ u.busy = ui.busy
        /\ u.selected \in Nat /\ u.menu = <<>>
    <3>1. PICK e : e = Emptied(ui)
      OBVIOUS
    <3>2. /\ DOMAIN e = UiFields /\ e.pc = "poll" /\ e.busy = ui.busy
          /\ e.selected \in Nat /\ e.menu = <<>>
      BY <1>4, <3>1 DEF Emptied, UiFields
    <3>3. u = ui \/ u = [e EXCEPT !.panel = FALSE, !.armed = FALSE]
      BY <2>1, <3>1 DEF OtherSession
    <3> QED
      BY <1>4, <3>2, <3>3 DEF UiFields
  <2>5. /\ DOMAIN v = UiFields /\ v.pc = "poll" /\ v.busy = ui.busy /\ v.dirty = TRUE
        /\ v.selected \in Nat /\ v.menu = <<>>
    BY <2>2, <2>4 DEF UiFields
  <2>6. Shaped(v)
    <3>1. v.busy \in BOOLEAN
      BY <1>3, <2>5
    <3> QED
      BY <2>5, <3>1 DEF Shaped
  <2>7. Calm(v.busy) \/ Sends(v.busy) \/ Breaks
    BY <2>3, <2>6, DeliversPending
  <2>8. v.busy = b
    BY <1>9, <1>12, <2>5
  <2>9. view' = Learned(view, event)
    BY <1>8, <1>12, <2>3 DEF Learned
  <2>10. handle' = view'.session
    BY <1>4, <1>8, <1>12, <2>3
  <2> QED
    BY <2>7, <2>8, <2>9, <2>10
<1>13. ASSUME event.kind = "Patch"
       PROVE  (Calm(b) \/ Sends(b) \/ Breaks) /\ view' = Learned(view, event) /\ handle' = view'.session
  <2>1. event.base = Offset(view.line)
    BY <1>8, <1>13 DEF Learned
  <2>2. /\ view' = [view EXCEPT !.line = Append(@, event.offset)]
        /\ ui' = dirtied /\ UNCHANGED <<requests, worker, handle>>
    BY <1>2, <1>10, <1>13, <2>1 DEF TakePatch
  <2>3. view' = Learned(view, event)
    BY <1>8, <1>13, <2>1, <2>2 DEF Learned
  <2>4. view'.session = view.session
    BY <1>8, <2>2 DEF Views
  <2>5. b = dirtied.busy
    BY <1>9, <1>11, <1>13
  <2>6. Calm(b)
    BY <1>11, <2>2, <2>5, ShapedLands DEF Calm
  <2> QED
    BY <1>4, <2>2, <2>3, <2>4, <2>6
<1>14. ASSUME event.kind = "Settled"
       PROVE  (Calm(b) \/ Sends(b) \/ Breaks) /\ view' = Learned(view, event) /\ handle' = view'.session
  <2>1. PICK v : v = [ui EXCEPT !.busy = FALSE, !.dirty = TRUE]
    OBVIOUS
  <2>2. Shaped(v) /\ v.busy = FALSE
    BY <1>4, <2>1 DEF Shaped, UiFields
  <2>3. TakeSettled(event)
    BY <1>2, <1>14
  <2>4. DeliverPending(v) \/ Deliver(v, None)
    BY <2>1, <2>3 DEF TakeSettled
  <2>5. Calm(v.busy) \/ Sends(v.busy) \/ Breaks
    BY <2>2, <2>4, Delivers, DeliversPending
  <2>6. b = v.busy
    BY <1>9, <1>14, <2>2
  <2>7. view' = view /\ handle' = handle
    BY <2>3 DEF TakeSettled
  <2>8. Learned(view, event) = view
    BY <1>8, <1>14 DEF Learned
  <2> QED
    BY <1>4, <2>5, <2>6, <2>7, <2>8
<1>15. ASSUME event.kind = "Diagnostic"
       PROVE  (Calm(b) \/ Sends(b) \/ Breaks) /\ view' = Learned(view, event) /\ handle' = view'.session
  <2>1. ui' = dirtied /\ UNCHANGED <<view, handle, requests, worker>>
    BY <1>2, <1>10, <1>15
  <2>2. b = dirtied.busy
    BY <1>9, <1>11, <1>15
  <2>3. Calm(b)
    BY <1>11, <2>1, <2>2, ShapedLands DEF Calm
  <2>4. Learned(view, event) = view
    BY <1>8, <1>15 DEF Learned
  <2> QED
    BY <1>4, <2>1, <2>3, <2>4
<1>16. event.kind \in {"Snapshot", "SessionChanged", "Patch", "Settled", "Diagnostic"}
  BY <1>6 DEF Events
<1>17. (Calm(b) \/ Sends(b) \/ Breaks) /\ view' = Learned(view, event) /\ handle' = view'.session
  BY <1>12, <1>13, <1>14, <1>15, <1>16
<1>18. view' \in Views /\ handle' \in Sessions
  BY <1>8, <1>17 DEF Views
<1>19. CASE Breaks
  BY <1>2, <1>6, <1>18, <1>19, BrokenStep
<1>20. CASE Calm(b) \/ Sends(b)
  <2>1. UiLands /\ worker' = worker
    BY <1>20 DEF Calm, Sends
  <2>2. UiInv' /\ ShownInv'
    BY <2>1, Landed
  <2>3. WorkerInv' /\ JournalsInv' /\ BaseInv'
    <3>1. WorkerInv'
      BY <1>18, <2>1 DEF TuiInv, WorkerInv
    <3>2. JournalsInv'
      BY <1>2 DEF TuiInv, JournalsInv
    <3>3. BaseInv'
      BY <1>2, <2>1 DEF TuiInv, BaseInv, Speaking, Now, HeadOf, Snapshot
    <3> QED
      BY <3>1, <3>2, <3>3
  <2>4. PipeInv'
    <3>1. /\ Len(pipe) <= Capacity + 1 /\ (Alive => Len(pipe) <= Capacity)
          /\ worker.phase # "starting" /\ Capacity \in Nat
      BY <1>2, TuiAssumption DEF TuiInv, PipeInv
    <3>2. Len(pipe') <= Capacity + 1 /\ (Alive => Len(pipe') <= Capacity)
      BY <1>6, <3>1
    <3> QED
      BY <1>6, <2>1, <3>1, <3>2 DEF PipeInv, Alive
  <2>5. ViewInv'
    <3>1. view' = Learned(view, pipe[1]) /\ journals' = journals
      BY <1>1, <1>2, <1>17
    <3>2. worker'.session = worker.session /\ (Alive' => Alive) /\ (Speaking' => Speaking)
      BY <2>1 DEF Alive, Speaking
    <3>3. \E g : Course(g)'
      BY <1>2, <1>7, <3>1, <3>2, CourseTaken DEF TuiInv
    <3> QED
      BY <1>17, <3>3 DEF ViewInv
  <2>6. b \in BOOLEAN
    BY <1>3, <1>9
  <2>7. /\ Cardinality(Answers(pipe')) \in Nat
        /\ Cardinality(Answers(pipe)) =
             Cardinality(Answers(pipe')) + (IF event.kind = "Settled" THEN 1 ELSE 0)
    BY <1>1, <1>2, <1>6, AnswersTaken
  <2>8. Alive => Len(requests) + UnderWay(worker.phase) + Cardinality(Answers(pipe'))
                   = IF b THEN 1 ELSE 0
    <3> SUFFICES ASSUME Alive
                 PROVE  Len(requests) + UnderWay(worker.phase) + Cardinality(Answers(pipe'))
                          = IF b THEN 1 ELSE 0
      OBVIOUS
    <3> DEFINE l == Len(requests)
               w == UnderWay(worker.phase)
               a == Cardinality(Answers(pipe))
               c == Cardinality(Answers(pipe'))
    <3>1. Outstanding = IF ui.busy THEN 1 ELSE 0
      BY <1>3 DEF TuiInv, OneAtATime, Serving
    <3>2. /\ Outstanding = l + w + a /\ l \in Nat /\ w \in {0, 1} /\ a \in Nat /\ c \in Nat
          /\ a = c + (IF event.kind = "Settled" THEN 1 ELSE 0)
      BY <2>7, ToAnswer
    <3> HIDE DEF l, w, a, c
    <3>3. CASE event.kind = "Settled"
      <4>1. b = FALSE
        BY <1>9, <3>3
      <4>2. a = c + 1 /\ l + w + a <= 1
        BY <3>1, <3>2, <3>3
      <4>3. l + w + c = 0
        BY <3>2, <4>2
      <4> QED
        BY <4>1, <4>3 DEF l, w, c
    <3>4. CASE event.kind # "Settled"
      <4>1. b = ui.busy
        BY <1>9, <3>4
      <4>2. a = c
        BY <3>2, <3>4
      <4> QED
        BY <3>1, <3>2, <4>1, <4>2 DEF l, w, c
    <3> QED
      BY <3>3, <3>4
  <2>9. RequestsInv' /\ OneAtATime'
    BY <1>3, <1>20, <2>6, <2>7, <2>8, GoesOn
  <2> QED
    BY <2>2, <2>3, <2>4, <2>5, <2>9 DEF TuiInv
<1> QED
  BY <1>17, <1>19, <1>20

\* Nothing is told or taken.
LEMMA NothingMoves ==
    ASSUME TuiInv, Serving, UNCHANGED <<journals, worker, pipe, handle, view>>
    PROVE  WorkerInv' /\ PipeInv' /\ JournalsInv' /\ BaseInv' /\ ViewInv'
<1>1. WorkerInv'
  BY DEF TuiInv, WorkerInv
<1>2. PipeInv' /\ JournalsInv'
  BY DEF TuiInv, PipeInv, JournalsInv, Alive
<1>3. BaseInv'
  BY DEF TuiInv, BaseInv, Speaking, Now, HeadOf, Snapshot
<1>4. ViewInv'
  <2>1. PICK f : Course(f)
    BY DEF TuiInv, ViewInv
  <2>2. StillRecorded
    BY DEF StillRecorded, Recorded
  <2>3. Speaking' => HeadOf(worker.session)' = f[Len(pipe)]
    <3>1. HeadOf(worker.session)' = HeadOf(worker.session)
      BY DEF HeadOf, Snapshot
    <3>2. Speaking => f[Len(pipe)] = HeadOf(worker.session)
      BY <2>1 DEF Course
    <3> QED
      BY <3>1, <3>2 DEF Speaking
  <2>4. UNCHANGED <<pipe, view>> /\ worker'.session = worker.session /\ (Alive' => Alive)
    BY DEF Alive
  <2>5. Course(f)'
    BY <2>1, <2>2, <2>3, <2>4, CourseStays
  <2>6. view'.session = handle'
    BY ServedView
  <2> QED
    BY <2>5, <2>6 DEF ViewInv
<1> QED
  BY <1>1, <1>2, <1>3, <1>4

\* Nor sent.
LEMMA NothingSent ==
    ASSUME TuiInv, Serving, UNCHANGED <<worker, requests, pipe>>, ui'.busy = ui.busy
    PROVE  RequestsInv' /\ OneAtATime'
<1>1. RequestsInv'
  BY DEF TuiInv, RequestsInv
<1>2. Outstanding' = Outstanding
  BY DEF Outstanding
<1> QED
  BY <1>1, <1>2 DEF TuiInv, OneAtATime, Serving, Alive

LEMMA PollEndStep ==
    ASSUME TuiInv, PollEnd
    PROVE  TuiInv'
<1>1. ui.pc = "poll" /\ Fails(ui) /\ UNCHANGED <<journals, pipe, handle, view>>
  BY DEF PollEnd
<1>2. DOMAIN ui = UiFields /\ ui.selected \in Nat /\ ui.menu = <<>>
  BY <1>1 DEF TuiInv, UiInv
<1>3. ui.busy \in BOOLEAN
  BY DEF TuiInv, UiInv
<1>4. ui.dirty \in BOOLEAN
  BY DEF TuiInv, UiInv
<1>5. Breaks
  BY <1>1, <1>2, <1>3, <1>4, FailsBreaks
<1>6. handle' \in Sessions /\ view' \in Views
  BY <1>1 DEF TuiInv, WorkerInv
<1>7. pipe' \in Seq(Events) /\ Len(pipe') <= Len(pipe) /\ Len(pipe') \in Nat
  BY <1>1, LenProperties DEF TuiInv, PipeInv
<1> QED
  BY <1>1, <1>5, <1>6, <1>7, BrokenStep

LEMMA StopEndStep ==
    ASSUME TuiInv, StopEnd
    PROVE  TuiInv'
<1>1. ui.pc = "stopping" /\ Fails(ui) /\ UNCHANGED <<journals, pipe, handle, view>>
  BY DEF StopEnd, Fails
<1>2. DOMAIN ui = UiFields /\ ui.selected \in Nat /\ ui.menu = <<>>
  BY <1>1 DEF TuiInv, UiInv
<1>3. ui.busy \in BOOLEAN
  BY DEF TuiInv, UiInv
<1>4. ui.dirty \in BOOLEAN
  BY DEF TuiInv, UiInv
<1>5. Breaks
  BY <1>1, <1>2, <1>3, <1>4, FailsBreaks
<1>6. handle' \in Sessions /\ view' \in Views
  BY <1>1 DEF TuiInv, WorkerInv
<1>7. pipe' \in Seq(Events) /\ Len(pipe') <= Len(pipe) /\ Len(pipe') \in Nat
  BY <1>1, LenProperties DEF TuiInv, PipeInv
<1> QED
  BY <1>1, <1>5, <1>6, <1>7, BrokenStep

LEMMA DrawStep ==
    ASSUME TuiInv, Draw
    PROVE  TuiInv'
<1>1. PICK menu : menu = Candidates
  OBVIOUS
<1>2. PICK end : end = MenuEnd(menu)
  OBVIOUS
<1>3. PICK u : u = [ui EXCEPT !.selected = IF @ <= end THEN @ ELSE end,
                              !.menu = menu, !.pc = "key", !.dirty = FALSE]
  OBVIOUS
<1>4. /\ ui.pc = "poll" /\ ui' = u /\ shown' = (IF ui.dirty THEN Screen(u) ELSE shown)
      /\ UNCHANGED <<journals, worker, requests, pipe, handle, view>>
  BY <1>1, <1>2, <1>3 DEF Draw
<1>5. DOMAIN ui = UiFields /\ ui.selected \in Nat /\ Serving /\ view \in Views
  BY <1>4 DEF TuiInv, UiInv, WorkerInv, Serving
<1>6. end \in Nat
  BY <1>1, <1>2, <1>5, CandidatesListed
<1>7. /\ DOMAIN ui' = UiFields /\ ui'.pc = "key" /\ ui'.busy = ui.busy /\ ui'.dirty = FALSE
      /\ ui'.menu = menu /\ ui'.draft = ui.draft /\ ui'.dismissed = ui.dismissed
      /\ ui'.panel = ui.panel
      /\ ui'.selected = (IF ui.selected <= end THEN ui.selected ELSE end)
  BY <1>3, <1>4, <1>5 DEF UiFields
<1>8. ui'.busy \in BOOLEAN
  BY <1>7 DEF TuiInv, UiInv
<1>9. ui'.selected \in Nat /\ ui'.selected <= end
  BY <1>5, <1>6, <1>7
<1>10. ui'.dirty \in BOOLEAN
  BY <1>7
<1>11. UiInv'
  BY <1>7, <1>8, <1>9, <1>10 DEF UiInv, UiPhases
<1>12. Candidates' = menu
  BY <1>1, <1>4, <1>7 DEF Candidates
<1>13. shown' = Screen(ui)'
  <2>1. Screen(ui)' = Screen(u)
    BY <1>4 DEF Screen
  <2>2. CASE ui.dirty
    BY <1>4, <2>1, <2>2
  <2>3. CASE ~ui.dirty
    <3>1. PICK v : v = [ui EXCEPT !.menu = menu]
      OBVIOUS
    <3>2. shown = Screen(v) /\ ui.selected <= end
      BY <1>1, <1>2, <1>4, <2>3, <3>1 DEF TuiInv, ShownInv
    <3>3. /\ v.draft = ui.draft /\ v.selected = ui.selected /\ v.dismissed = ui.dismissed
          /\ v.menu = menu /\ v.panel = ui.panel /\ v.busy = ui.busy
      BY <1>5, <3>1 DEF UiFields
    <3>4. Screen(u) = Screen(v)
      BY <1>4, <1>7, <3>2, <3>3 DEF Screen
    <3> QED
      BY <1>4, <2>1, <2>3, <3>2, <3>4
  <2> QED
    BY <2>2, <2>3
<1>14. ShownInv'
  <2>1. MenuEnd(ui.menu)' = end
    BY <1>2, <1>7 DEF MenuEnd
  <2> QED
    BY <1>7, <1>9, <1>12, <1>13, <2>1 DEF ShownInv
<1>15. WorkerInv' /\ PipeInv' /\ JournalsInv' /\ BaseInv' /\ ViewInv'
  BY <1>4, <1>5, NothingMoves
<1>16. RequestsInv' /\ OneAtATime'
  BY <1>4, <1>5, <1>7, NothingSent
<1> QED
  BY <1>11, <1>14, <1>15, <1>16 DEF TuiInv

LEMMA NoKeyStep ==
    ASSUME TuiInv, NoKey
    PROVE  TuiInv'
<1>1. /\ ui.pc = "key" /\ ui' = [ui EXCEPT !.pc = "poll", !.menu = <<>>]
      /\ UNCHANGED <<journals, worker, requests, pipe, handle, view, shown>>
  BY DEF NoKey
<1>2. DOMAIN ui = UiFields /\ ui.selected \in Nat /\ Serving
  BY <1>1 DEF TuiInv, UiInv, Serving
<1>3. /\ DOMAIN ui' = UiFields /\ ui'.pc = "poll" /\ ui'.busy = ui.busy /\ ui'.dirty = ui.dirty
      /\ ui'.menu = <<>> /\ ui'.draft = ui.draft /\ ui'.dismissed = ui.dismissed
      /\ ui'.panel = ui.panel /\ ui'.selected = ui.selected
  BY <1>1, <1>2 DEF UiFields
<1>4. ui'.busy \in BOOLEAN
  BY <1>3 DEF TuiInv, UiInv
<1>5. ui'.dirty \in BOOLEAN
  BY <1>3 DEF TuiInv, UiInv
<1>6. UiInv'
  BY <1>2, <1>3, <1>4, <1>5 DEF UiInv, UiPhases
<1>7. ShownInv'
  <2>1. PICK menu : menu = Candidates
    OBVIOUS
  <2>2. Candidates' = menu
    BY <1>1, <1>3, <2>1 DEF Candidates
  <2>3. shown = Screen(ui) /\ ui.menu = menu /\ ui.selected <= MenuEnd(menu)
    BY <1>1, <2>1 DEF TuiInv, ShownInv
  <2>4. PICK v : v = [ui' EXCEPT !.menu = menu]
    OBVIOUS
  <2>5. /\ v.draft = ui.draft /\ v.selected = ui.selected /\ v.dismissed = ui.dismissed
        /\ v.menu = menu /\ v.panel = ui.panel /\ v.busy = ui.busy
    BY <1>3, <2>4 DEF UiFields
  <2>6. Screen(v)' = shown'
    BY <1>1, <2>3, <2>5 DEF Screen
  <2>7. MenuEnd(menu)' = MenuEnd(menu)
    BY DEF MenuEnd
  <2> QED
    BY <1>3, <2>2, <2>3, <2>4, <2>6, <2>7 DEF ShownInv
<1>8. WorkerInv' /\ PipeInv' /\ JournalsInv' /\ BaseInv' /\ ViewInv'
  BY <1>1, <1>2, NothingMoves
<1>9. RequestsInv' /\ OneAtATime'
  BY <1>1, <1>2, <1>3, NothingSent
<1> QED
  BY <1>6, <1>7, <1>8, <1>9 DEF TuiInv

LEMMA DrainStep ==
    ASSUME TuiInv, Drain
    PROVE  TuiInv'
<1>1. /\ ui.pc = "stopping" /\ pipe # <<>> /\ pipe' = Tail(pipe)
      /\ UNCHANGED <<journals, worker, requests, handle, ui, view, shown>>
  BY DEF Drain
<1>2. ~Serving /\ ~Serving'
  BY <1>1 DEF Serving
<1>3. UiInv' /\ ShownInv'
  <2>1. UiInv /\ ShownInv
    BY DEF TuiInv
  <2>2. UNCHANGED <<ui, view, shown>>
    BY <1>1
  <2> QED
    BY <2>1, <2>2, ScreenStays
<1>4. WorkerInv' /\ JournalsInv' /\ BaseInv'
  <2>1. WorkerInv'
    BY <1>1 DEF TuiInv, WorkerInv
  <2>2. JournalsInv'
    BY <1>1 DEF TuiInv, JournalsInv
  <2>3. BaseInv'
    BY <1>1 DEF TuiInv, BaseInv, Speaking, Now, HeadOf, Snapshot
  <2> QED
    BY <2>1, <2>2, <2>3
<1>5. PipeInv'
  <2>1. pipe \in Seq(Events) /\ Len(pipe) \in Nat /\ Len(pipe) > 0
    BY <1>1, LenProperties, EmptySeq DEF TuiInv, PipeInv
  <2>2. pipe' \in Seq(Events) /\ Len(pipe') = Len(pipe) - 1
    BY <1>1, <2>1, HeadTailProperties
  <2>3. /\ Len(pipe) <= Capacity + 1 /\ (Alive => Len(pipe) <= Capacity)
        /\ worker.phase # "starting" /\ Capacity \in Nat
    BY <1>1, TuiAssumption DEF TuiInv, PipeInv
  <2>4. Len(pipe') <= Capacity + 1 /\ (Alive => Len(pipe') <= Capacity)
    BY <2>1, <2>2, <2>3
  <2> QED
    BY <1>1, <2>2, <2>3, <2>4 DEF PipeInv, Alive
<1>6. RequestsInv' /\ ViewInv' /\ OneAtATime'
  <2>1. RequestsInv'
    BY <1>1, <1>2 DEF TuiInv, RequestsInv
  <2> QED
    BY <1>2, <2>1 DEF ViewInv, OneAtATime, Serving
<1> QED
  BY <1>3, <1>4, <1>5, <1>6 DEF TuiInv

-----------------------------------------------------------------------------
(* Keys. *)

\* What any key may come to.
Outcome(busy) ==
    \/ (Calm(busy) \/ Sends(busy) \/ Breaks) /\ UNCHANGED pipe
    \/ Halts \/ Leaves

LEMMA Reshaped ==
    ASSUME NEW u, Shaped(u), NEW v, DOMAIN v = UiFields, v.pc = u.pc, v.dirty = u.dirty,
           v.menu = u.menu, v.selected \in Nat, v.busy \in BOOLEAN
    PROVE  Shaped(v)
BY DEF Shaped

LEMMA PressedShaped ==
    ASSUME TuiInv
    PROVE  /\ Shaped(Pressed) /\ Pressed.busy = ui.busy
           /\ DOMAIN Pressed = UiFields /\ Pressed.selected = ui.selected
<1>1. DOMAIN ui = UiFields /\ ui.selected \in Nat
  BY DEF TuiInv, UiInv
<1>2. /\ DOMAIN Pressed = UiFields /\ Pressed.pc = "poll" /\ Pressed.busy = ui.busy
      /\ Pressed.dirty = TRUE /\ Pressed.selected = ui.selected /\ Pressed.menu = <<>>
  BY <1>1 DEF Pressed, UiFields
<1>3. Pressed.busy \in BOOLEAN
  BY <1>2 DEF TuiInv, UiInv
<1> QED
  BY <1>1, <1>2, <1>3 DEF Shaped

\* A key that only changes what is on the screen.
LEMMA QuietKey ==
    ASSUME NEW u, Shaped(u), ui' = u, Quiet
    PROVE  Outcome(u.busy)
BY ShapedLands DEF Outcome, Calm, Quiet

LEMMA LeaveKey ==
    ASSUME NEW u, Shaped(u), Leave(u)
    PROVE  Leaves
<1>1. ui' = [u EXCEPT !.pc = "stopping"]
  BY DEF Leave
<1>2. /\ DOMAIN ui' = UiFields /\ ui'.pc = "stopping" /\ ui'.busy = u.busy
      /\ ui'.dirty = TRUE /\ ui'.selected \in Nat /\ ui'.menu = <<>>
  BY <1>1 DEF Shaped, UiFields
<1>3. ui'.busy \in BOOLEAN
  BY <1>2 DEF Shaped
<1>4. ui'.dirty \in BOOLEAN
  BY <1>2
<1>5. UiLands
  BY <1>2, <1>3, <1>4 DEF UiLands
<1>6. \/ worker' = Restarted /\ requests' = <<ShutdownRequest>> /\ pipe' = <<>>
      \/ requests' = Append(requests, ShutdownRequest) /\ UNCHANGED <<worker, pipe>>
  BY DEF Leave
<1> QED
  BY <1>2, <1>5, <1>6 DEF Leaves

LEMMA HaltKey ==
    ASSUME NEW u, Shaped(u), u.busy = FALSE, ui' = u, Interrupt
    PROVE  Halts
BY ShapedLands DEF Halts

\* A text is submitted.
LEMMA SubmittedOutcome ==
    ASSUME NEW u, Shaped(u), Submitted(u)
    PROVE  Outcome(u.busy)
<1>1. DOMAIN u = UiFields /\ u.selected \in Nat /\ u.pc = "poll" /\ u.dirty = TRUE /\ u.menu = <<>>
  BY DEF Shaped
<1>2. u.busy \in BOOLEAN
  BY DEF Shaped
<1>3. PICK stopping : stopping = [Stopped(Emptied(u)) EXCEPT !.pending = Text("/new", None)]
  OBVIOUS
<1>4. PICK model : model = [u EXCEPT !.draft = Text("/provider select", Empty),
                                     !.dismissed = FALSE, !.selected = 0]
  OBVIOUS
<1>5. PICK panel : panel = [u EXCEPT !.draft = None, !.panel = TRUE, !.dismissed = FALSE]
  OBVIOUS
<1>6. PICK emptied : emptied = Emptied(u)
  OBVIOUS
<1>7. PICK line : line = SentLine(u.draft)
  OBVIOUS
<1>8. \/ ui' = stopping /\ Interrupt
      \/ ui' = u /\ Quiet
      \/ Leave(u)
      \/ ui' = model /\ Quiet
      \/ ui' = panel /\ Quiet
      \/ ~u.busy /\ Deliver(emptied, line) /\ UNCHANGED pipe
  BY <1>3, <1>4, <1>5, <1>6, <1>7 DEF Submitted
<1>9. Shaped(emptied) /\ emptied.busy = u.busy /\ DOMAIN emptied = UiFields
  <2>1. /\ DOMAIN emptied = UiFields /\ emptied.pc = u.pc /\ emptied.dirty = u.dirty
        /\ emptied.menu = u.menu /\ emptied.selected = 0 /\ emptied.busy = u.busy
    BY <1>1, <1>6 DEF Emptied, UiFields
  <2> QED
    BY <1>2, <2>1, Reshaped
<1>10. CASE ui' = stopping /\ Interrupt
  <2>1. PICK s : s = [emptied EXCEPT !.busy = FALSE, !.ready = FALSE, !.pending = None]
    OBVIOUS
  <2>2. stopping = [s EXCEPT !.pending = Text("/new", None)]
    BY <1>3, <1>6, <2>1 DEF Stopped
  <2>3. /\ DOMAIN s = UiFields /\ s.pc = emptied.pc /\ s.dirty = emptied.dirty
        /\ s.menu = emptied.menu /\ s.selected = emptied.selected /\ s.busy = FALSE
    BY <1>9, <2>1 DEF UiFields
  <2>4. /\ DOMAIN stopping = UiFields /\ stopping.pc = emptied.pc
        /\ stopping.dirty = emptied.dirty /\ stopping.menu = emptied.menu
        /\ stopping.selected = emptied.selected /\ stopping.busy = FALSE
    BY <2>2, <2>3 DEF UiFields
  <2>5. emptied.selected \in Nat
    BY <1>9 DEF Shaped
  <2>6. Shaped(stopping)
    BY <1>9, <2>4, <2>5, Reshaped
  <2> QED
    BY <1>10, <2>4, <2>6, HaltKey DEF Outcome
<1>11. CASE ui' = u /\ Quiet
  BY <1>11, QuietKey
<1>12. CASE Leave(u)
  BY <1>12, LeaveKey DEF Outcome
<1>13. CASE ui' = model /\ Quiet
  <2>1. /\ DOMAIN model = UiFields /\ model.pc = u.pc /\ model.dirty = u.dirty
        /\ model.menu = u.menu /\ model.selected = 0 /\ model.busy = u.busy
    BY <1>1, <1>4 DEF UiFields
  <2>2. Shaped(model)
    BY <1>2, <2>1, Reshaped
  <2> QED
    BY <1>13, <2>1, <2>2, QuietKey
<1>14. CASE ui' = panel /\ Quiet
  <2>1. /\ DOMAIN panel = UiFields /\ panel.pc = u.pc /\ panel.dirty = u.dirty
        /\ panel.menu = u.menu /\ panel.selected = u.selected /\ panel.busy = u.busy
    BY <1>1, <1>5 DEF UiFields
  <2>2. Shaped(panel)
    BY <1>1, <1>2, <2>1, Reshaped
  <2> QED
    BY <1>14, <2>1, <2>2, QuietKey
<1>15. CASE ~u.busy /\ Deliver(emptied, line) /\ UNCHANGED pipe
  <2>1. line # None => ~emptied.busy
    BY <1>9, <1>15
  <2>2. Calm(emptied.busy) \/ Sends(emptied.busy) \/ Breaks
    BY <1>9, <1>15, <2>1, Delivers
  <2> QED
    BY <1>9, <1>15, <2>2 DEF Outcome
<1> QED
  BY <1>8, <1>10, <1>11, <1>12, <1>13, <1>14, <1>15

\* Choosing in the menu keeps to a position.
LEMMA SelectOutcome ==
    ASSUME TuiInv, Select
    PROVE  Outcome(ui.busy)
<1>1. ui.pc = "key" /\ ui.menu # <<>> /\ Quiet
  BY DEF Select, Press, Choosing
<1>2. PICK n \in {1, Len(ui.menu) - 1} :
        ui' = [Pressed EXCEPT !.selected = (@ + n) % Len(ui.menu)]
  BY DEF Select
<1>3. ui.selected \in Nat /\ view \in Views
  BY DEF TuiInv, UiInv, WorkerInv
<1>4. ui.menu = Candidates
  BY <1>1 DEF TuiInv, ShownInv
<1>5. Len(ui.menu) \in Nat /\ Len(ui.menu) > 0
  BY <1>1, <1>3, <1>4, CandidatesListed
<1>6. PICK k : k = (ui.selected + n) % Len(ui.menu)
  OBVIOUS
<1>7. k \in Nat
  <2>1. n \in Nat
    BY <1>5
  <2>2. PICK a : a = ui.selected + n
    OBVIOUS
  <2>3. PICK b : b = Len(ui.menu)
    OBVIOUS
  <2>4. a \in Nat /\ b \in Nat /\ b > 0
    BY <1>3, <1>5, <2>1, <2>2, <2>3
  <2>5. k = a % b
    BY <1>6, <2>2, <2>3, Zenon
  <2> QED
    BY <2>4, <2>5
<1>8. PICK u : u = [Pressed EXCEPT !.selected = k]
  OBVIOUS
<1>9. ui' = u
  BY <1>2, <1>6, <1>8, PressedShaped
<1>10. /\ DOMAIN u = UiFields /\ u.pc = Pressed.pc /\ u.dirty = Pressed.dirty
       /\ u.menu = Pressed.menu /\ u.selected = k /\ u.busy = ui.busy
  BY <1>8, PressedShaped DEF UiFields
<1>11. u.busy \in BOOLEAN
  BY <1>10 DEF TuiInv, UiInv
<1>12. Shaped(u)
  BY <1>7, <1>10, <1>11, PressedShaped, Reshaped
<1> QED
  BY <1>1, <1>9, <1>10, <1>12, QuietKey

\* Keys that change one or two fields, whatever these hold.
LEMMA KeyOutcome ==
    ASSUME TuiInv, AKey
    PROVE  Outcome(ui.busy) /\ KeyFrame /\ ui.pc = "key"
<1>1. DOMAIN Pressed = UiFields /\ Shaped(Pressed) /\ Pressed.busy = ui.busy
  BY PressedShaped
<1>2. ui.busy \in BOOLEAN
  BY DEF TuiInv, UiInv
<1>3. Pressed.selected \in Nat
  BY <1>1 DEF Shaped
<1>4. ASSUME NEW u, DOMAIN u = UiFields, u.pc = Pressed.pc, u.dirty = Pressed.dirty,
             u.menu = Pressed.menu, u.selected \in {0, Pressed.selected},
             u.busy = Pressed.busy, ui' = u, Quiet
      PROVE  Outcome(ui.busy)
  <2>1. u.busy \in BOOLEAN /\ u.selected \in Nat
    BY <1>1, <1>2, <1>3, <1>4
  <2>2. Shaped(u)
    BY <1>1, <1>4, <2>1, Reshaped
  <2>3. u.busy = ui.busy
    BY <1>1, <1>4
  <2> QED
    BY <1>4, <2>2, <2>3, QuietKey
<1>5. ASSUME NEW text, NEW pasted, Write(text, pasted)
      PROVE  Outcome(ui.busy) /\ KeyFrame /\ ui.pc = "key"
  <2>1. PICK u : u = [Pressed EXCEPT !.draft = text, !.dismissed = pasted, !.selected = 0]
    OBVIOUS
  <2>2. /\ DOMAIN u = UiFields /\ u.pc = Pressed.pc /\ u.dirty = Pressed.dirty
        /\ u.menu = Pressed.menu /\ u.selected = 0 /\ u.busy = Pressed.busy
    BY <1>1, <2>1 DEF UiFields
  <2>3. ui' = u /\ Quiet /\ KeyFrame /\ ui.pc = "key"
    BY <1>5, <2>1 DEF Write, Press
  <2> QED
    BY <1>4, <2>2, <2>3
<1>6. CASE Select
  BY <1>6, SelectOutcome DEF Select, Press
<1>7. CASE Complete
  <2>1. PICK draft : draft = ui.menu[ui.selected + 1].insert
    OBVIOUS
  <2>2. PICK u : u = [Pressed EXCEPT !.draft = draft, !.selected = 0]
    OBVIOUS
  <2>3. /\ DOMAIN u = UiFields /\ u.pc = Pressed.pc /\ u.dirty = Pressed.dirty
        /\ u.menu = Pressed.menu /\ u.selected = 0 /\ u.busy = Pressed.busy
    BY <1>1, <2>2 DEF UiFields
  <2>4. ui' = u /\ Quiet /\ KeyFrame /\ ui.pc = "key"
    BY <1>7, <2>1, <2>2 DEF Complete, Press
  <2> QED
    BY <1>4, <2>3, <2>4
<1>8. CASE ClosePanel
  <2>1. PICK u : u = [Pressed EXCEPT !.panel = FALSE]
    OBVIOUS
  <2>2. /\ DOMAIN u = UiFields /\ u.pc = Pressed.pc /\ u.dirty = Pressed.dirty
        /\ u.menu = Pressed.menu /\ u.selected = Pressed.selected /\ u.busy = Pressed.busy
    BY <1>1, <2>1 DEF UiFields
  <2>3. ui' = u /\ Quiet /\ KeyFrame /\ ui.pc = "key"
    BY <1>8, <2>1 DEF ClosePanel, Press
  <2> QED
    BY <1>4, <2>2, <2>3
<1>9. CASE StopWork
  <2>1. PICK u : u = [Pressed EXCEPT !.busy = FALSE, !.ready = FALSE, !.pending = None]
    OBVIOUS
  <2>2. ui' = u /\ Interrupt /\ KeyFrame /\ ui.pc = "key"
    BY <1>9, <2>1 DEF StopWork, Stopped, Press
  <2>3. /\ DOMAIN u = UiFields /\ u.pc = Pressed.pc /\ u.dirty = Pressed.dirty
        /\ u.menu = Pressed.menu /\ u.selected = Pressed.selected /\ u.busy = FALSE
    BY <1>1, <2>1 DEF UiFields
  <2>4. Shaped(u)
    BY <1>1, <1>3, <2>3, Reshaped
  <2> QED
    BY <2>2, <2>3, <2>4, HaltKey DEF Outcome
<1>10. CASE CloseMenu
  <2>1. PICK u : u = [Pressed EXCEPT !.dismissed = TRUE]
    OBVIOUS
  <2>2. /\ DOMAIN u = UiFields /\ u.pc = Pressed.pc /\ u.dirty = Pressed.dirty
        /\ u.menu = Pressed.menu /\ u.selected = Pressed.selected /\ u.busy = Pressed.busy
    BY <1>1, <2>1 DEF UiFields
  <2>3. ui' = u /\ Quiet /\ KeyFrame /\ ui.pc = "key"
    BY <1>10, <2>1 DEF CloseMenu, Press
  <2> QED
    BY <1>4, <2>2, <2>3
<1>11. CASE ClearDraft
  <2>1. PICK u : u = [Pressed EXCEPT !.draft = None, !.dismissed = FALSE, !.armed = TRUE]
    OBVIOUS
  <2>2. /\ DOMAIN u = UiFields /\ u.pc = Pressed.pc /\ u.dirty = Pressed.dirty
        /\ u.menu = Pressed.menu /\ u.selected = Pressed.selected /\ u.busy = Pressed.busy
    BY <1>1, <2>1 DEF UiFields
  <2>3. ui' = u /\ Quiet /\ KeyFrame /\ ui.pc = "key"
    BY <1>11, <2>1 DEF ClearDraft, Press
  <2> QED
    BY <1>4, <2>2, <2>3
<1>12. CASE Quit
  <2>1. PICK u : u = [Pressed EXCEPT !.armed = TRUE]
    OBVIOUS
  <2>2. /\ DOMAIN u = UiFields /\ u.pc = Pressed.pc /\ u.dirty = Pressed.dirty
        /\ u.menu = Pressed.menu /\ u.selected = Pressed.selected /\ u.busy = Pressed.busy
    BY <1>1, <2>1 DEF UiFields
  <2>3. KeyFrame /\ ui.pc = "key" /\ (Leave(Pressed) \/ (ui' = u /\ Quiet))
    BY <1>12, <2>1 DEF Quit, Press
  <2>4. CASE Leave(Pressed)
    BY <1>1, <2>3, <2>4, LeaveKey DEF Outcome
  <2>5. CASE ui' = u /\ Quiet
    BY <1>4, <2>2, <2>3, <2>5
  <2> QED
    BY <2>3, <2>4, <2>5
<1>13. CASE Enter
  <2>1. PICK choice : choice = ui.menu[ui.selected + 1]
    OBVIOUS
  <2>2. PICK u : u = [Pressed EXCEPT !.draft = choice.insert, !.selected = 0]
    OBVIOUS
  <2>3. /\ KeyFrame /\ ui.pc = "key"
        /\ Submitted(u) \/ (ui' = u /\ Quiet) \/ Submitted(Pressed)
    BY <1>13, <2>1, <2>2 DEF Enter, Press
  <2>4. /\ DOMAIN u = UiFields /\ u.pc = Pressed.pc /\ u.dirty = Pressed.dirty
        /\ u.menu = Pressed.menu /\ u.selected = 0 /\ u.busy = Pressed.busy
    BY <1>1, <2>2 DEF UiFields
  <2>5. CASE ui' = u /\ Quiet
    BY <1>4, <2>3, <2>4, <2>5
  <2>6. CASE Submitted(u)
    <3>1. u.busy \in BOOLEAN /\ u.selected \in Nat /\ u.busy = ui.busy
      BY <1>1, <1>2, <2>4
    <3>2. Shaped(u)
      BY <1>1, <2>4, <3>1, Reshaped
    <3>3. Outcome(u.busy)
      BY <2>6, <3>2, SubmittedOutcome
    <3> QED
      BY <2>3, <3>1, <3>3
  <2>7. CASE Submitted(Pressed)
    <3>1. PICK p : p = Pressed
      OBVIOUS
    <3>2. Shaped(p) /\ Submitted(p) /\ p.busy = ui.busy
      BY <1>1, <2>7, <3>1
    <3>3. Outcome(p.busy)
      BY <3>2, SubmittedOutcome
    <3> QED
      BY <2>3, <3>2, <3>3
  <2> QED
    BY <2>3, <2>5, <2>6, <2>7
<1> QED
  BY <1>5, <1>6, <1>7, <1>8, <1>9, <1>10, <1>11, <1>12, <1>13 DEF AKey

\* A worker anew, on the session that is shown.
LEMMA Anew ==
    ASSUME TuiInv, Serving, worker' = Restarted
    PROVE  /\ DOMAIN worker' = WorkerFields /\ worker'.phase = "starting"
           /\ worker'.session = handle /\ worker'.base = 0 /\ worker'.ok = TRUE
BY DEF Restarted, NewWorker, WorkerFields

LEMMA AKeyStep ==
    ASSUME TuiInv, AKey
    PROVE  TuiInv'
<1>1. Outcome(ui.busy) /\ UNCHANGED <<journals, handle, view>> /\ ui.pc = "key"
  BY KeyOutcome DEF KeyFrame
<1>2. Serving
  BY <1>1 DEF Serving
<1>3. /\ pipe \in Seq(Events) /\ Len(pipe) \in Nat /\ handle' \in Sessions /\ view' \in Views
      /\ IsSequence(requests)
  BY <1>1, ToAnswer, LenProperties DEF TuiInv, WorkerInv
<1>4. JournalsInv'
  BY <1>1 DEF TuiInv, JournalsInv
<1>5. CASE Breaks /\ UNCHANGED pipe
  BY <1>1, <1>3, <1>5, BrokenStep
<1>6. CASE (Calm(ui.busy) \/ Sends(ui.busy)) /\ UNCHANGED pipe
  <2>1. UiLands /\ worker' = worker
    BY <1>6 DEF Calm, Sends
  <2>2. UiInv' /\ ShownInv'
    BY <2>1, Landed
  <2>3. WorkerInv' /\ PipeInv' /\ JournalsInv' /\ BaseInv' /\ ViewInv'
    BY <1>1, <1>2, <1>6, <2>1, NothingMoves
  <2>4. ui.busy \in BOOLEAN
    BY DEF TuiInv, UiInv
  <2>5. Alive => Len(requests) + UnderWay(worker.phase) + Cardinality(Answers(pipe'))
                   = IF ui.busy THEN 1 ELSE 0
    <3>1. Alive => Outstanding = IF ui.busy THEN 1 ELSE 0
      BY <1>2 DEF TuiInv, OneAtATime, Serving
    <3> QED
      BY <1>6, <3>1, ToAnswer
  <2>6. Cardinality(Answers(pipe')) \in Nat
    BY <1>6, ToAnswer
  <2>7. RequestsInv' /\ OneAtATime'
    BY <1>2, <1>6, <2>4, <2>5, <2>6, GoesOn
  <2> QED
    BY <2>2, <2>3, <2>7 DEF TuiInv
<1>7. ASSUME worker' = Restarted, pipe' = <<>>
      PROVE  WorkerInv' /\ PipeInv' /\ BaseInv' /\ Alive'
  <2>1. /\ DOMAIN worker' = WorkerFields /\ worker'.phase = "starting"
        /\ worker'.session = handle /\ worker'.base = 0 /\ worker'.ok = TRUE
    BY <1>2, <1>7, Anew
  <2>2. WorkerInv'
    <3>1. worker'.ok \in BOOLEAN
      BY <2>1
    <3>2. handle \in Sessions
      BY DEF TuiInv, WorkerInv
    <3> QED
      BY <1>3, <2>1, <3>1, <3>2 DEF WorkerInv, WorkerPhases
  <2>3. PipeInv'
    <3>1. <<>> \in Seq(Events) /\ Len(<<>>) = 0
      OBVIOUS
    <3>2. Capacity \in Nat /\ 0 <= Capacity /\ 0 <= Capacity + 1
      BY SomeRoom
    <3> QED
      BY <1>7, <3>1, <3>2 DEF PipeInv
  <2>4. BaseInv' /\ Alive'
    BY <2>1 DEF BaseInv, Speaking, Alive
  <2> QED
    BY <2>2, <2>3, <2>4
<1>8. CASE Halts
  <2>1. UiLands /\ ui'.pc = "poll" /\ ui'.busy = FALSE
        /\ worker' = Restarted /\ requests' = <<>> /\ pipe' = <<>>
    BY <1>8 DEF Halts, Interrupt
  <2>2. UiInv' /\ ShownInv'
    BY <2>1, Landed
  <2>3. WorkerInv' /\ PipeInv' /\ BaseInv' /\ Alive'
    BY <1>7, <2>1
  <2>4. worker'.phase = "starting" /\ worker'.session = handle
    BY <1>2, <2>1, Anew
  <2>5. ViewInv'
    <3>1. Recorded(view) /\ view.session = handle /\ view.session \in Nat
      BY <1>2, ServedView
    <3>2. worker'.session = view.session /\ journals' = journals /\ view' = view
      BY <1>1, <2>4, <3>1
    <3>3. \E g : Course(g)'
      BY <2>1, <2>4, <3>1, <3>2, CourseAnew
    <3>4. view'.session = handle'
      BY <1>1, <3>1
    <3> QED
      BY <3>3, <3>4 DEF ViewInv
  <2>6. RequestsInv'
    <3>1. <<>> \in Seq({}) /\ Len(<<>>) = 0 /\ 1 .. 0 = {}
      OBVIOUS
    <3>2. IsSequence(<<>>)
      BY <3>1, Sequenced
    <3> QED
      BY <2>1, <3>1, <3>2 DEF RequestsInv
  <2>7. OneAtATime'
    <3>1. Outstanding' = Len(requests') + UnderWay(worker'.phase) + Cardinality(Answers(pipe'))
      BY DEF Outstanding, Answers, UnderWay
    <3>2. UnderWay(worker'.phase) = 0
      BY <2>4 DEF UnderWay
    <3>3. Len(<<>>) = 0
      OBVIOUS
    <3>4. Outstanding' = 0
      BY <2>1, <3>1, <3>2, <3>3, NoAnswers
    <3> QED
      BY <2>1, <3>4 DEF OneAtATime
  <2> QED
    BY <1>4, <2>2, <2>3, <2>5, <2>6, <2>7 DEF TuiInv
<1>9. CASE Leaves
  <2>1. UiLands /\ ui'.pc = "stopping"
    BY <1>9 DEF Leaves
  <2>2. UiInv' /\ ShownInv' /\ ~Serving'
    BY <2>1, Landed DEF Serving
  <2>3. ViewInv' /\ OneAtATime'
    BY <2>2 DEF ViewInv, OneAtATime, Serving
  <2>4. CASE worker' = Restarted /\ requests' = <<ShutdownRequest>> /\ pipe' = <<>>
    <3>1. WorkerInv' /\ PipeInv' /\ BaseInv'
      BY <1>7, <2>4
    <3>2. PICK r : r = ShutdownRequest
      OBVIOUS
    <3>3. <<r>> \in Seq({r})
      OBVIOUS
    <3>4. IsSequence(<<r>>)
      BY <3>3, Sequenced
    <3>5. RequestsInv'
      BY <2>2, <2>4, <3>2, <3>4 DEF RequestsInv
    <3> QED
      BY <1>4, <2>2, <2>3, <3>1, <3>5 DEF TuiInv
  <2>5. CASE requests' = Append(requests, ShutdownRequest) /\ UNCHANGED <<worker, pipe>>
    <3>1. WorkerInv' /\ PipeInv' /\ BaseInv'
      <4>1. UNCHANGED <<journals, worker, pipe, handle, view>>
        BY <1>1, <2>5
      <4> QED
        BY <1>2, <4>1, NothingMoves
    <3>2. IsSequence(requests')
      BY <1>3, <2>5, Lengthened
    <3>3. RequestsInv'
      BY <2>2, <3>2 DEF RequestsInv
    <3> QED
      BY <1>4, <2>2, <2>3, <3>1, <3>3 DEF TuiInv
  <2> QED
    BY <1>9, <2>4, <2>5 DEF Leaves
<1> QED
  BY <1>1, <1>5, <1>6, <1>8, <1>9 DEF Outcome

-----------------------------------------------------------------------------
(* The terminal's theorems. *)

LEMMA TuiInitInv ==
    ASSUME TuiInit
    PROVE  TuiInv
<1>1. PICK refresh \in BOOLEAN :
        /\ requests = IF refresh THEN <<Text("/provider refresh", None)>> ELSE <<>>
        /\ ui = [pc |-> "poll", draft |-> None, dismissed |-> FALSE, selected |-> 0,
                 menu |-> <<>>, panel |-> FALSE, busy |-> refresh, ready |-> FALSE,
                 pending |-> Initial, armed |-> FALSE, dirty |-> TRUE]
  BY DEF TuiInit
<1>2. /\ journals = [s \in Sessions |-> <<>>] /\ worker = NewWorker(1, FALSE, MaxPolls)
      /\ pipe = <<>> /\ handle = 1 /\ view = Snapshot(1, <<>>)
  BY DEF TuiInit
<1>3. <<>> \in OffsetLines
  <2>1. <<>> \in [1 .. 0 -> 1 .. MaxRecords] /\ 0 \in 0 .. MaxRecords
    BY SomeRoom
  <2> QED
    BY <2>1 DEF OffsetLines
<1>4. 1 \in Sessions /\ view \in Views /\ view.session = 1 /\ view.line = <<>>
  BY <1>2, <1>3, TuiAssumption DEF Snapshot, Views
<1>5. /\ DOMAIN worker = WorkerFields /\ worker.phase = "starting"
      /\ worker.session = 1 /\ worker.base = 0 /\ worker.ok = TRUE
  BY <1>2 DEF NewWorker, WorkerFields
<1>6. WorkerInv
  <2>1. worker.ok \in BOOLEAN
    BY <1>5
  <2>2. worker.base \in Nat
    BY <1>5
  <2>3. worker.session \in Sessions
    BY <1>4, <1>5, Zenon
  <2>4. handle \in Sessions
    BY <1>2, <1>4, Zenon
  <2> QED
    BY <1>4, <1>5, <2>1, <2>2, <2>3, <2>4 DEF WorkerInv, WorkerPhases
<1>7. /\ DOMAIN ui = UiFields /\ ui.pc = "poll" /\ ui.busy = refresh /\ ui.dirty = TRUE
      /\ ui.selected = 0 /\ ui.menu = <<>>
  BY <1>1 DEF UiFields
<1>8. UiInv
  <2>1. ui.busy \in BOOLEAN
    BY <1>7
  <2>2. ui.dirty \in BOOLEAN
    BY <1>7
  <2> QED
    BY <1>7, <2>1, <2>2 DEF UiInv, UiPhases
<1>9. ShownInv
  BY <1>7 DEF ShownInv
<1>10. PipeInv
  <2>1. <<>> \in Seq(Events) /\ Len(<<>>) = 0
    OBVIOUS
  <2>2. 0 <= Capacity /\ 0 <= Capacity + 1
    BY SomeRoom
  <2> QED
    BY <1>2, <2>1, <2>2 DEF PipeInv
<1>11. JournalsInv
  <2>1. \A s \in Sessions : journals[s] = <<>>
    BY <1>2
  <2>2. <<>> \in Seq(OffsetLines) /\ Len(<<>>) = 0 /\ 1 .. 0 = {}
    OBVIOUS
  <2>3. 0 <= MaxRecords
    BY SomeRoom
  <2>4. journals \in [Sessions -> Seq(OffsetLines)]
    BY <1>2, <2>2
  <2> QED
    BY <2>1, <2>2, <2>3, <2>4 DEF JournalsInv
<1>12. BaseInv
  BY <1>5 DEF BaseInv, Speaking
<1>13. ViewInv
  <2>1. Recorded(view)
    BY <1>4 DEF Recorded
  <2>2. PICK f : f = [k \in 0 .. 0 |-> view]
    OBVIOUS
  <2>3. f[0] = view /\ Len(pipe) = 0 /\ 1 .. 0 = {} /\ 0 .. 0 = {0}
    BY <1>2, <2>2
  <2>4. ~Speaking
    BY <1>5 DEF Speaking
  <2>5. Course(f)
    BY <1>4, <1>5, <2>1, <2>3, <2>4 DEF Course
  <2> QED
    BY <1>2, <1>4, <2>5 DEF ViewInv
<1>14. IsSequence(requests) /\ (\A i \in 1 .. Len(requests) : requests[i] # ShutdownRequest)
       /\ Len(requests) = IF refresh THEN 1 ELSE 0
  <2>1. CASE refresh = FALSE
    <3>1. <<>> \in Seq({}) /\ Len(<<>>) = 0 /\ 1 .. 0 = {}
      OBVIOUS
    <3>2. IsSequence(<<>>)
      BY <3>1, Sequenced
    <3> QED
      BY <1>1, <2>1, <3>1, <3>2
  <2>2. CASE refresh = TRUE
    <3>1. PICK r : r = Text("/provider refresh", None)
      OBVIOUS
    <3>2. r # None
      BY <3>1, TuiAssumption
    <3>3. <<r>> \in Seq({r}) /\ Len(<<r>>) = 1 /\ <<r>>[1] = r /\ \A i \in 1 .. 1 : i = 1
      OBVIOUS
    <3>4. IsSequence(<<r>>)
      BY <3>3, Sequenced
    <3>5. requests = <<r>>
      BY <1>1, <2>2, <3>1
    <3> QED
      BY <2>2, <3>2, <3>3, <3>4, <3>5 DEF ShutdownRequest
  <2> QED
    BY <2>1, <2>2
<1>15. RequestsInv
  BY <1>14 DEF RequestsInv
<1>16. OneAtATime
  <2>1. Outstanding = Len(requests) + UnderWay(worker.phase) + Cardinality(Answers(pipe))
    BY DEF Outstanding, Answers, UnderWay
  <2>2. UnderWay(worker.phase) = 0
    BY <1>5 DEF UnderWay
  <2>4. Cardinality(Answers(pipe)) = 0
    BY <1>2, NoAnswers
  <2>5. Len(requests) \in Nat
    BY <1>14
  <2>3. Outstanding = Len(requests)
    BY <2>1, <2>2, <2>4, <2>5
  <2> QED
    BY <1>7, <1>14, <2>3 DEF OneAtATime
<1> QED
  BY <1>6, <1>8, <1>9, <1>10, <1>11, <1>12, <1>13, <1>15, <1>16 DEF TuiInv

LEMMA TuiNextInv ==
    ASSUME TuiInv, [TuiNext]_tuiVars
    PROVE  TuiInv'
<1>1. CASE WorkerStep
  BY <1>1, StartStep, TakeLineStep, WorkStep, ForkStep, CleanSessionStep, SucceedStep,
     FailStep, SettleStep, ShutdownStep DEF WorkerStep
<1>2. CASE PollJobs
  BY <1>2, PollJobsStep
<1>3. CASE Die
  BY <1>3, DieStep
<1>4. CASE UiStep
  BY <1>4, PollEventStep, PollEndStep, NoKeyStep, DrainStep, StopEndStep DEF UiStep
<1>5. CASE Draw
  BY <1>5, DrawStep
<1>6. CASE AKey
  BY <1>6, AKeyStep
<1>7. CASE UNCHANGED tuiVars
  <2>1. UNCHANGED <<journals, worker, requests, pipe, handle, ui, view, shown>>
    BY <1>7 DEF tuiVars
  <2>2. UiInv' /\ ShownInv'
    <3>1. UiInv /\ ShownInv
      BY DEF TuiInv
    <3> QED
      BY <2>1, <3>1, ScreenStays
  <2>3. WorkerInv' /\ PipeInv' /\ RequestsInv' /\ JournalsInv'
    BY <2>1 DEF TuiInv, WorkerInv, PipeInv, RequestsInv, JournalsInv, Alive, Serving
  <2>4. BaseInv' /\ OneAtATime'
    BY <2>1 DEF TuiInv, BaseInv, Speaking, Now, HeadOf, Snapshot, OneAtATime, Alive, Outstanding
  <2>5. ViewInv'
    <3>1. CASE Serving
      BY <2>1, <3>1, NothingMoves
    <3>2. CASE ~Serving
      BY <2>1, <3>2 DEF ViewInv, Serving
    <3> QED
      BY <3>1, <3>2
  <2> QED
    BY <2>2, <2>3, <2>4, <2>5 DEF TuiInv
<1> QED
  BY <1>1, <1>2, <1>3, <1>4, <1>5, <1>6, <1>7 DEF TuiNext

\* The terminal's inductive invariant holds.
LEMMA TuiAlways == TuiSpec => []TuiInv
BY TuiInitInv, TuiNextInv, PTL DEF TuiSpec

\* What the user sees when a key is read is what the key will act on: for any
\* catalog, any texts and any sequence of keys and events (tui::run).
THEOREM ShownWhenKeyed == TuiSpec => []ShownIsTrue
<1>1. TuiInv => ShownIsTrue
  BY DEF TuiInv, ShownInv, ShownIsTrue
<1> QED
  BY <1>1, TuiAlways, PTL

\* The interface's snapshot, and what the worker has told, come to the journal
\* the worker has open, for any number of sessions, records and events under way
\* (observe_journal, Worker::interrupt, apply_patch).
THEOREM ViewFollowsWorker == TuiSpec => []ViewFollows
<1>1. TuiInv => ViewFollows
  <2> SUFFICES ASSUME TuiInv
               PROVE  ViewFollows
    OBVIOUS
  <2>1. TuiTypeOK
    <3>1. /\ worker.session \in Sessions /\ handle \in Sessions /\ view.session \in Sessions
          /\ worker.phase \in WorkerPhases
      BY DEF TuiInv, WorkerInv, Views
    <3>2. ui.pc \in UiPhases /\ Len(pipe) <= Capacity + 1
      BY DEF TuiInv, UiInv, PipeInv
    <3>3. ui.menu # <<>> => ui.selected < Len(ui.menu)
      <4> SUFFICES ASSUME ui.menu # <<>>
                   PROVE  ui.selected < Len(ui.menu)
        OBVIOUS
      <4>1. ui.pc = "key" /\ ui.selected \in Nat /\ view \in Views
        BY DEF TuiInv, UiInv, WorkerInv
      <4>2. ui.menu = Candidates /\ ui.selected <= MenuEnd(ui.menu)
        BY <4>1 DEF TuiInv, ShownInv
      <4>3. Len(ui.menu) \in Nat /\ Len(ui.menu) > 0
        BY <4>1, <4>2, CandidatesListed
      <4>4. MenuEnd(ui.menu) = Len(ui.menu) - 1
        BY DEF MenuEnd
      <4> QED
        BY <4>1, <4>2, <4>3, <4>4
    <3> QED
      BY <3>1, <3>2, <3>3 DEF TuiTypeOK, WorkerPhases, UiPhases
  <2>2. ASSUME Speaking, Serving
        PROVE  ReplayView(view) = HeadOf(worker.session)
    <3>1. PICK f : Course(f)
      BY <2>2 DEF TuiInv, ViewInv
    <3>2. f[Len(pipe)] = HeadOf(worker.session)
      BY <2>2, <3>1 DEF Course
    <3> QED
      BY <3>1, <3>2, CourseEnds DEF TuiInv
  <2> QED
    BY <2>1, <2>2 DEF ViewFollows, Speaking, Serving
<1> QED
  BY <1>1, TuiAlways, PTL

\* The interface is busy exactly while one line is to be answered, and no second
\* one is ever on its way (run, run_worker).
THEOREM OneLineAtATime == TuiSpec => []OneAtATime
<1>1. TuiInv => OneAtATime
  BY DEF TuiInv
<1> QED
  BY <1>1, TuiAlways, PTL

=============================================================================
