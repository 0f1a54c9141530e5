--------------------------- MODULE JobsProofs ---------------------------
(***************************************************************************)
(* Proofs about Jobs: no slot of the budget is lost and none is given away *)
(* twice, and a terminal record stays.  They hold for every set of jobs,   *)
(* every budget, every limit and every output.                             *)
(***************************************************************************)
EXTENDS Jobs, PickingProofs, FiniteSetTheorems, SequenceTheorems, TLAPS

-----------------------------------------------------------------------------
(* One poll of a job. *)

\* Why a job ends.
Reasons == {None, "Normal", "Timeout", "Limit", "ForcedKill", "Error"}

\* What a job is while it is polled.
PollValue == [rec : Record, proc : Process, handle : Handle, reason : Reasons]

\* It holds no more than n chunks.
Within(p, n) ==
    /\ p \in PollValue
    /\ p.handle.got + Len(p.proc.chan) <= n
    /\ p.handle.journaled <= p.handle.got
    /\ p.rec.text <= n

\* What a part of a poll may change of the record and the process.
Follows(p, q) ==
    /\ q.rec.status = p.rec.status \/ q.rec.status = "CancelRequested"
    /\ \/ q.proc.main = p.proc.main
       \/ /\ p.proc.main = "Alive"
          /\ q.proc.main = "NonZero"

\* Parts of a poll follow one another.
LEMMA FollowsTwice ==
    ASSUME NEW p, NEW q, NEW r, Follows(p, q), Follows(q, r)
    PROVE  Follows(p, r)
BY DEF Follows

\* A kill changes the exit code at most, and no pipe.
LEMMA KilledType ==
    ASSUME NEW p \in Process
    PROVE  /\ Killed(p) \in Process
           /\ Killed(p).chan = p.chan
           /\ Killed(p).open = p.open
           /\ Killed(p).main = IF p.main = "Alive" THEN "NonZero" ELSE p.main
BY DEF Killed, Process

\* A signalled record is a record, with the text it had.
LEMMA SignalledType ==
    ASSUME NEW r \in Record, NEW signal
    PROVE  /\ Signalled(r, signal) \in Record
           /\ Signalled(r, signal).status = "CancelRequested"
           /\ Signalled(r, signal).text = r.text
BY DEF Signalled, Record

\* The parts of a polled job.
LEMMA Parts ==
    ASSUME NEW p \in PollValue
    PROVE  /\ p.rec \in Record /\ p.proc \in Process /\ p.handle \in Handle
           /\ p.reason \in Reasons
           /\ p.proc.chan \in Seq({"data", "fail"})
           /\ p.proc.open \in BOOLEAN
           /\ p.handle.got \in Nat /\ p.handle.journaled \in Nat
           /\ p.rec.text \in Nat
BY DEF PollValue, Process, Handle, Record

\* When the job asks its process to stop, only the record changes.
LEMMA AskStep ==
    ASSUME NEW p \in PollValue, NEW why \in Reasons
    PROVE  /\ Ask(p, why) \in PollValue
           /\ Ask(p, why).proc = p.proc /\ Ask(p, why).handle = p.handle
           /\ Ask(p, why).rec.text = p.rec.text
           /\ Follows(p, Ask(p, why))
<1> DEFINE s == Signalled(p.rec, "stop")
           r == [s EXCEPT !.reason = why]
<1>1. s \in Record /\ s.status = "CancelRequested" /\ s.text = p.rec.text
  BY SignalledType, Parts
<1> HIDE DEF s
<1>2. r \in Record /\ r.status = s.status /\ r.text = s.text
  BY <1>1 DEF Record, Reasons
<1>3. Ask(p, why) = [p EXCEPT !.rec = r, !.reason = why]
  BY DEF Ask, s
<1> HIDE DEF r
<1> QED
  <2> DEFINE q == Ask(p, why)
  <2>1. /\ q \in PollValue /\ q.rec = r
        /\ q.proc = p.proc /\ q.handle = p.handle
    BY <1>2, <1>3 DEF PollValue
  <2> HIDE DEF q
  <2> QED
    BY <1>1, <1>2, <2>1 DEF Follows, q

\* One chunk is one more received, or a failure that kills.
LEMMA TakeStep ==
    ASSUME NEW p \in PollValue, NEW item \in {"data", "fail"}
    PROVE  /\ Take(p, item) \in PollValue
           /\ Take(p, item).proc.chan = p.proc.chan
           /\ Take(p, item).proc.open = p.proc.open
           /\ Take(p, item).handle.got \in {p.handle.got, p.handle.got + 1}
           /\ Take(p, item).handle.journaled = p.handle.journaled
           /\ Take(p, item).rec.text = p.rec.text
           /\ Follows(p, Take(p, item))
<1> DEFINE more == [p EXCEPT !.handle.got = p.handle.got + 1]
<1>1. CASE item = "fail"
  <2>1. Take(p, item) = [p EXCEPT !.reason = "Error", !.proc = Killed(p.proc)]
    BY <1>1 DEF Take
  <2> DEFINE k == Killed(p.proc)
  <2>2. /\ k \in Process /\ k.chan = p.proc.chan /\ k.open = p.proc.open
        /\ k.main = IF p.proc.main = "Alive" THEN "NonZero" ELSE p.proc.main
    BY KilledType, Parts
  <2> HIDE DEF k
  <2>3. Take(p, item) = [p EXCEPT !.reason = "Error", !.proc = k]
    BY <2>1 DEF k
  <2> QED
    <3> DEFINE q == Take(p, item)
    <3>1. "Error" \in Reasons
      BY DEF Reasons
    <3>2. q \in PollValue /\ q.rec = p.rec /\ q.proc = k /\ q.handle = p.handle
      BY <2>2, <2>3, <3>1 DEF PollValue
    <3> HIDE DEF q
    <3> QED
      BY <2>2, <3>2 DEF Follows, q
<1>2. /\ more \in PollValue /\ more.proc = p.proc /\ more.rec = p.rec
      /\ more.handle.got = p.handle.got + 1
      /\ more.handle.journaled = p.handle.journaled
      /\ Follows(p, more)
  <2> DEFINE h == [p.handle EXCEPT !.got = p.handle.got + 1]
  <2>1. h \in Handle /\ h.got = p.handle.got + 1
        /\ h.journaled = p.handle.journaled
    BY Parts DEF Handle
  <2>2. more = [p EXCEPT !.handle = h]
    OBVIOUS
  <2> HIDE DEF h
  <2>3. more \in PollValue /\ more.rec = p.rec /\ more.proc = p.proc
        /\ more.handle = h
    BY <2>1, <2>2 DEF PollValue
  <2> HIDE DEF more
  <2> QED
    BY <2>1, <2>3 DEF Follows
<1>3. CASE item # "fail"
  <2>1. \/ Take(p, item) = Ask(more, "Limit")
        \/ Take(p, item) = more
    BY <1>3 DEF Take
  <2> HIDE DEF more
  <2>2. /\ Ask(more, "Limit") \in PollValue
        /\ Ask(more, "Limit").proc = more.proc
        /\ Ask(more, "Limit").handle = more.handle
        /\ Ask(more, "Limit").rec.text = more.rec.text
        /\ Follows(more, Ask(more, "Limit"))
    BY <1>2, AskStep DEF Reasons
  <2>3. Follows(p, Ask(more, "Limit"))
    BY <1>2, <2>2, FollowsTwice
  <2> QED
    BY <1>2, <2>1, <2>2, <2>3
<1> QED
  BY <1>1, <1>3

\* What the loop over the channel made of p, chunk by chunk.
Loop(p, chan, n, f) ==
    f = [k \in 0 .. n |-> IF k = 0 THEN p ELSE Take(f[k - 1], chan[k])]

\* The loop of a poll is well defined.
LEMMA LoopExists ==
    ASSUME NEW p, NEW chan, NEW n \in Nat
    PROVE  \E f : Loop(p, chan, n, f)
<1> DEFINE S == {i \in Nat : \E f : Loop(p, chan, i, f)}
<1>1. 0 \in S
  <2> DEFINE f == [k \in 0 .. 0 |-> p]
  <2>1. \A k \in 0 .. 0 : k = 0
    OBVIOUS
  <2>2. f = [k \in 0 .. 0 |-> IF k = 0 THEN p ELSE Take(f[k - 1], chan[k])]
    BY <2>1
  <2> QED
    BY <2>2 DEF Loop
<1>2. ASSUME NEW i \in S
      PROVE  i + 1 \in S
  <2>1. PICK f : Loop(p, chan, i, f)
    OBVIOUS
  <2> DEFINE g == [k \in 0 .. i + 1 |->
                      IF k = i + 1 THEN Take(f[i], chan[k]) ELSE f[k]]
             h == [k \in 0 .. i + 1 |->
                      IF k = 0 THEN p ELSE Take(g[k - 1], chan[k])]
  <2>2. \A k \in 0 .. i : f[k] = IF k = 0 THEN p ELSE Take(f[k - 1], chan[k])
    BY <2>1, Zenon DEF Loop
  <2>3. \A k \in 0 .. i : g[k] = f[k]
    OBVIOUS
  <2>4. \A k \in 0 .. i + 1 : g[k] = h[k]
    <3> TAKE k \in 0 .. i + 1
    <3>1. CASE k = i + 1
      <4>1. k - 1 = i /\ k # 0 /\ i \in 0 .. i
        BY <3>1
      <4>2. g[i] = f[i] /\ g[k] = Take(f[i], chan[k])
        BY <2>3, <3>1, <4>1
      <4>3. h[k] = Take(g[k - 1], chan[k])
        BY <4>1
      <4> HIDE DEF g, h
      <4> QED
        BY <4>1, <4>2, <4>3
    <3>2. CASE k # i + 1
      <4>1. k \in 0 .. i /\ (k # 0 => k - 1 \in 0 .. i)
        BY <3>2
      <4>2. h[k] = IF k = 0 THEN p ELSE Take(g[k - 1], chan[k])
        OBVIOUS
      <4>3. g[k] = f[k] /\ (k # 0 => g[k - 1] = f[k - 1])
        BY <2>3, <4>1
      <4> HIDE DEF g, h
      <4> QED
        BY <2>2, <4>1, <4>2, <4>3
    <3> QED
      BY <3>1, <3>2
  <2>5. g = h
    BY <2>4
  <2> HIDE DEF g
  <2> QED
    BY <2>5 DEF Loop
<1>3. S = Nat
  <2>1. S \in SUBSET Nat
    OBVIOUS
  <2> HIDE DEF S
  <2> QED
    BY <1>1, <1>2, <2>1, NatInduct
<1> QED
  BY <1>3

\* What is left of p after n chunks.
Took(p, n, q) ==
    /\ q \in PollValue
    /\ q.proc.chan = p.proc.chan /\ q.proc.open = p.proc.open
    /\ q.handle.got <= p.handle.got + n
    /\ q.handle.got >= p.handle.got
    /\ q.handle.journaled = p.handle.journaled
    /\ q.rec.text = p.rec.text
    /\ Follows(p, q)

\* The loop receives at most a chunk for each turn.
LEMMA LoopStep ==
    ASSUME NEW p \in PollValue, NEW n \in Nat, n <= Len(p.proc.chan),
           NEW f, Loop(p, p.proc.chan, n, f)
    PROVE  Took(p, n, f[n])
<1> DEFINE chan == p.proc.chan
           S == {i \in Nat : i <= n => Took(p, i, f[i])}
<1>1. \A k \in 0 .. n : f[k] = IF k = 0 THEN p ELSE Take(f[k - 1], chan[k])
  BY Zenon DEF Loop
<1>2. 0 \in S
  <2>1. f[0] = p
    BY <1>1
  <2>2. Took(p, 0, p)
    BY Parts DEF Took, Follows
  <2> QED
    BY <2>1, <2>2
<1>3. ASSUME NEW i \in S
      PROVE  i + 1 \in S
  <2> SUFFICES ASSUME i + 1 <= n
               PROVE  Took(p, i + 1, f[i + 1])
    OBVIOUS
  <2>1. Took(p, i, f[i]) /\ i + 1 \in 0 .. n /\ i + 1 # 0 /\ (i + 1) - 1 = i
    OBVIOUS
  <2>2. f[i + 1] = Take(f[i], chan[i + 1])
    BY <1>1, <2>1
  <2>3. chan[i + 1] \in {"data", "fail"}
    <3>1. chan \in Seq({"data", "fail"}) /\ Len(chan) \in Nat
      BY Parts
    <3> HIDE DEF chan
    <3>2. i + 1 \in 1 .. Len(chan)
      BY <2>1, <3>1 DEF chan
    <3> QED
      BY <3>1, <3>2
  <2> DEFINE q == f[i]
             r == f[i + 1]
  <2>4. /\ r \in PollValue
        /\ r.proc.chan = q.proc.chan /\ r.proc.open = q.proc.open
        /\ r.handle.got \in {q.handle.got, q.handle.got + 1}
        /\ r.handle.journaled = q.handle.journaled
        /\ r.rec.text = q.rec.text
        /\ Follows(q, r)
    BY <2>1, <2>2, <2>3, TakeStep, SMTT(30) DEF Took
  <2>5. q.handle.got \in Nat /\ p.handle.got \in Nat
    BY <2>1, Parts DEF Took
  <2> HIDE DEF q, r
  <2>6. Took(p, i, q)
    BY <2>1 DEF q
  <2>7. Follows(p, r)
    BY <2>4, <2>6, FollowsTwice DEF Took
  <2>8. r.handle.got <= p.handle.got + (i + 1) /\ r.handle.got >= p.handle.got
    BY <2>4, <2>5, <2>6, SMTT(30) DEF Took
  <2>9. Took(p, i + 1, r)
    BY <2>4, <2>6, <2>7, <2>8 DEF Took
  <2> QED
    BY <2>9 DEF r
<1>4. S = Nat
  <2>1. S \in SUBSET Nat
    OBVIOUS
  <2> HIDE DEF S
  <2> QED
    BY <1>2, <1>3, <2>1, NatInduct
<1> QED
  BY <1>4

\* A poll moves chunks from the channel to what was received, and loses none.
LEMMA DrainStep ==
    ASSUME NEW N \in Nat, NEW p, Within(p, N)
    PROVE  Within(Drain(p), N) /\ Follows(p, Drain(p))
<1> DEFINE chan == p.proc.chan
           n == IF Len(chan) < DrainLimit THEN Len(chan) ELSE DrainLimit
           f == CHOOSE f : Loop(p, chan, n, f)
           q == f[n]
           c == SubSeq(chan, n + 1, Len(chan))
           eof == q.handle.eof \/ (n < DrainLimit /\ ~p.proc.open)
<1>1. /\ p \in PollValue /\ chan \in Seq({"data", "fail"}) /\ Len(chan) \in Nat
      /\ n \in Nat /\ n <= Len(chan)
      /\ p.handle.got \in Nat /\ p.rec.text \in Nat
  BY Parts, JobsAssumption DEF Within
<1>2. Loop(p, chan, n, f)
  <2> HIDE DEF n, chan
  <2> QED
    BY <1>1, LoopExists
<1>3. Drain(p) = [q EXCEPT !.proc.chan = c, !.handle.eof = eof]
  BY DEF Drain, Loop
<1>4. Took(p, n, q)
  <2> HIDE DEF n, f
  <2> QED
    BY <1>1, <1>2, LoopStep
<1>5. c \in Seq({"data", "fail"}) /\ Len(c) = Len(chan) - n
  <2> HIDE DEF chan, n
  <2> QED
    BY <1>1, SubSeqProperties
<1> HIDE DEF q, c
<1>6. q \in PollValue
  BY <1>4 DEF Took
<1>7. eof \in BOOLEAN
  OBVIOUS
<1> HIDE DEF eof
<1> DEFINE a == [q.proc EXCEPT !.chan = c]
           b == [q.handle EXCEPT !.eof = eof]
<1>8. a \in Process /\ a.chan = c /\ a.main = q.proc.main
  BY <1>5, <1>6, Parts DEF Process
<1>9. b \in Handle /\ b.got = q.handle.got /\ b.journaled = q.handle.journaled
  BY <1>6, <1>7, Parts DEF Handle
<1>10. Drain(p) = [q EXCEPT !.proc = a, !.handle = b]
  BY <1>3
<1> HIDE DEF a, b
<1> DEFINE r == Drain(p)
<1>11. /\ r \in PollValue /\ r.proc = a /\ r.handle = b /\ r.rec = q.rec
  BY <1>6, <1>8, <1>9, <1>10 DEF PollValue
<1> HIDE DEF r
<1>12. Follows(p, r)
  BY <1>4, <1>8, <1>11 DEF Took, Follows
<1>13. r.handle.got + Len(r.proc.chan) <= N
  <2>1. /\ r.handle.got <= p.handle.got + n
        /\ r.handle.got \in Nat
        /\ Len(r.proc.chan) = Len(chan) - n
        /\ p.handle.got + Len(chan) <= N
    BY <1>4, <1>5, <1>8, <1>9, <1>11, Parts DEF Took, Within
  <2> HIDE DEF n, chan
  <2> QED
    BY <1>1, <2>1
<1>14. r.handle.journaled <= r.handle.got /\ r.rec.text <= N
  <2>1. /\ r.handle.journaled = p.handle.journaled
        /\ r.handle.got >= p.handle.got
        /\ r.rec.text = p.rec.text
        /\ p.handle.journaled <= p.handle.got
        /\ p.rec.text <= N
    BY <1>4, <1>9, <1>11 DEF Took, Within
  <2>2. p.handle.journaled \in Nat /\ r.handle.got \in Nat
    BY <1>1, <1>11, Parts
  <2> QED
    BY <1>1, <2>1, <2>2
<1> QED
  BY <1>11, <1>12, <1>13, <1>14 DEF Within, r


\* A text that is written anew holds what was received.
LEMMA FlushStep ==
    ASSUME NEW N \in Nat, NEW p, NEW due, Within(p, N)
    PROVE  Within(Flush(p, due), N) /\ Follows(p, Flush(p, due))
<1> DEFINE q == Flush(p, due)
           rec == [p.rec EXCEPT !.text = p.handle.got, !.reason = p.reason]
           h == [p.handle EXCEPT !.journaled = p.handle.got]
<1>1. /\ p \in PollValue /\ p.handle.got \in Nat /\ p.rec \in Record
      /\ p.handle \in Handle /\ p.reason \in Reasons
      /\ Len(p.proc.chan) \in Nat
      /\ p.handle.got + Len(p.proc.chan) <= N
  BY Parts, LenProperties DEF Within
<1>2. /\ rec \in Record /\ rec.text = p.handle.got
      /\ rec.status = p.rec.status
  BY <1>1 DEF Record, Reasons
<1>3. /\ h \in Handle /\ h.got = p.handle.got /\ h.journaled = p.handle.got
  BY <1>1 DEF Handle
<1>4. q = p \/ q = [p EXCEPT !.rec = rec, !.handle = h]
  BY DEF Flush
<1> HIDE DEF rec, h
<1>5. CASE q = p
  BY <1>5 DEF Follows
<1>6. CASE q = [p EXCEPT !.rec = rec, !.handle = h]
  <2>1. q \in PollValue /\ q.rec = rec /\ q.proc = p.proc /\ q.handle = h
    BY <1>1, <1>2, <1>3, <1>6 DEF PollValue
  <2> HIDE DEF q
  <2>2. Follows(p, q)
    BY <1>2, <2>1 DEF Follows
  <2>3. p.handle.got <= N /\ p.handle.got <= p.handle.got
    BY <1>1
  <2>4. Within(q, N)
    BY <1>1, <1>2, <1>3, <2>1, <2>3 DEF Within
  <2> QED
    BY <2>2, <2>4 DEF q
<1> QED
  BY <1>4, <1>5, <1>6

\* The wall limit asks the process to stop.
LEMMA WallStep ==
    ASSUME NEW N \in Nat, NEW p, Within(p, N)
    PROVE  Within(Wall(p), N) /\ Follows(p, Wall(p))
<1>1. Wall(p) = p \/ Wall(p) = Ask(p, "Timeout")
  BY DEF Wall
<1>2. Follows(p, p)
  BY DEF Follows
<1> DEFINE q == Ask(p, "Timeout")
<1>3. /\ q \in PollValue /\ q.proc = p.proc /\ q.handle = p.handle
      /\ q.rec.text = p.rec.text /\ Follows(p, q)
  <2>1. "Timeout" \in Reasons /\ p \in PollValue
    BY DEF Reasons, Within
  <2> QED
    BY <2>1, AskStep
<1> HIDE DEF q
<1>4. Within(q, N)
  BY <1>3 DEF Within
<1> QED
  BY <1>1, <1>2, <1>3, <1>4 DEF q

\* The end of the grace period kills.
LEMMA GraceStep ==
    ASSUME NEW N \in Nat, NEW p, Within(p, N)
    PROVE  Within(Grace(p), N) /\ Follows(p, Grace(p))
<1> DEFINE q == Grace(p)
           k == Killed(p.proc)
           rec == [p.rec EXCEPT !.reason = "ForcedKill"]
<1>1. p \in PollValue /\ p.rec \in Record /\ "ForcedKill" \in Reasons
  BY Parts DEF Within, Reasons
<1>2. /\ k \in Process /\ k.chan = p.proc.chan
      /\ k.main = IF p.proc.main = "Alive" THEN "NonZero" ELSE p.proc.main
  BY <1>1, KilledType, Parts
<1>3. rec \in Record /\ rec.status = p.rec.status /\ rec.text = p.rec.text
  BY <1>1 DEF Record
<1>4. q = p \/ q = [p EXCEPT !.proc = k, !.reason = "ForcedKill", !.rec = rec]
  BY DEF Grace
<1> HIDE DEF k, rec
<1>5. CASE q = p
  BY <1>5 DEF Follows
<1>6. CASE q = [p EXCEPT !.proc = k, !.reason = "ForcedKill", !.rec = rec]
  <2>1. q \in PollValue /\ q.rec = rec /\ q.proc = k /\ q.handle = p.handle
    BY <1>1, <1>2, <1>3, <1>6 DEF PollValue
  <2> HIDE DEF q
  <2>2. Follows(p, q)
    BY <1>2, <1>3, <2>1 DEF Follows
  <2>3. Within(q, N)
    BY <1>2, <1>3, <2>1 DEF Within
  <2> QED
    BY <2>2, <2>3 DEF q
<1> QED
  BY <1>4, <1>5, <1>6

\* A job that has ended has a terminal record, and no process that runs.
LEMMA ConcludedStep ==
    ASSUME NEW N \in Nat, NEW p, Within(p, N)
    PROVE  /\ Within(Concluded(p), N)
           /\ Concluded(p).rec.status \in Terminals
           /\ \/ Concluded(p).proc.main = p.proc.main
              \/ /\ p.proc.main = "Alive"
                 /\ Concluded(p).proc.main = "NonZero"
<1> DEFINE q == Concluded(p)
           k == Killed(p.proc)
           status == IF p.rec.cancel THEN "Cancelled"
                     ELSE IF p.proc.main = "Zero" /\ p.reason = None
                          THEN "Succeeded" ELSE "Failed"
           reason == IF p.reason = None THEN "Normal" ELSE p.reason
           rec == [p.rec EXCEPT !.status = status, !.reason = reason]
<1>1. p \in PollValue /\ p.rec \in Record /\ p.reason \in Reasons
  BY Parts DEF Within
<1>2. /\ k \in Process /\ k.chan = p.proc.chan
      /\ k.main = IF p.proc.main = "Alive" THEN "NonZero" ELSE p.proc.main
  BY <1>1, KilledType, Parts
<1>3. status \in Terminals /\ reason \in Reasons
  BY <1>1 DEF Terminals, Reasons
<1>4. q = [p EXCEPT !.proc = k, !.rec = rec]
  BY DEF Concluded
<1> HIDE DEF status, reason
<1>5. rec \in Record /\ rec.status = status /\ rec.text = p.rec.text
  BY <1>1, <1>3 DEF Record, Reasons
<1> HIDE DEF k, rec
<1>6. q \in PollValue /\ q.rec = rec /\ q.proc = k /\ q.handle = p.handle
  BY <1>1, <1>2, <1>4, <1>5 DEF PollValue
<1> HIDE DEF q
<1>7. Within(q, N)
  BY <1>2, <1>5, <1>6 DEF Within
<1> QED
  BY <1>2, <1>3, <1>5, <1>6, <1>7 DEF q

\* The record r, the process q and the handle h of a job that writes n chunks.
Fits(r, q, h, n) ==
    /\ r \in Record /\ q \in Process /\ h \in Handle
    /\ h.got + Len(q.chan) <= n
    /\ h.journaled <= h.got
    /\ r.text <= n

\* What the poll of a job with the record r and the process q makes of it.
LEMMA PolledStep ==
    ASSUME NEW N \in Nat, NEW j, NEW r, NEW q, Fits(r, q, handle[j], N),
           NEW p \in Polled(j, r, q)
    PROVE  /\ Within(p, N)
           /\ p.rec.status = r.status \/ p.rec.status = "CancelRequested"
           /\ p.proc.main = q.main
                \/ (q.main = "Alive" /\ p.proc.main = "NonZero")
<1> DEFINE loaded == [rec |-> r, proc |-> q, handle |-> handle[j],
                      reason |-> r.reason]
<1>1. loaded \in PollValue /\ r.reason \in Reasons
  BY DEF PollValue, Reasons, Record, Fits
<1>2. Within(loaded, N)
  BY <1>1 DEF Within, Fits
<1>3. PICK due \in BOOLEAN : p = Grace(Wall(Flush(Drain(loaded), due)))
  BY DEF Polled
<1> HIDE DEF loaded
<1>4. Within(Drain(loaded), N) /\ Follows(loaded, Drain(loaded))
  BY <1>2, DrainStep
<1> DEFINE d == Drain(loaded)
           f == Flush(d, due)
           w == Wall(f)
<1>5. Within(f, N) /\ Follows(d, f)
  BY <1>4, FlushStep
<1>6. Within(w, N) /\ Follows(f, w)
  BY <1>5, WallStep
<1>7. Within(p, N) /\ Follows(w, p)
  BY <1>3, <1>6, GraceStep
<1> HIDE DEF d, f, w
<1>8. Follows(loaded, d)
  BY <1>4 DEF d
<1>9. Follows(loaded, p)
  BY <1>5, <1>6, <1>7, <1>8, FollowsTwice
<1> QED
  BY <1>7, <1>9 DEF Follows, loaded

-----------------------------------------------------------------------------
(* The inductive invariant. *)

\* The types of the jobs, and the chunks they hold.
Fit ==
    /\ dom \in [Jobs -> Record]
    /\ proc \in [Jobs -> Process]
    /\ handle \in [Jobs -> Handle]
    /\ other # None => other \in [Jobs -> Record]
    /\ \A j \in Jobs : Fits(dom[j], proc[j], handle[j], Chunks[j])
    /\ other # None => \A j \in Jobs : other[j].text <= Chunks[j]

\* Only a job that was started has a record, on any branch.
Started ==
    \A j \in Jobs :
        /\ Known(dom[j]) => proc[j].main # "New"
        /\ other # None => (Known(other[j]) => proc[j].main # "New")

\* What each mode of the host knows of the table and the records.
HostInv ==
    /\ table \subseteq Jobs
    /\ host \in Host
    /\ host.mode = "Polling" =>
           /\ host.left \cup host.done \subseteq table
           /\ \A j \in table \ (host.left \cup host.done) : Active(dom[j])
           /\ \A j \in host.done : ~Active(dom[j])
    /\ host.mode = "Settling" =>
           /\ host.left = {}
           /\ host.done \subseteq table
           /\ \A j \in table \ host.done : Active(dom[j])
           /\ \A j \in host.done : ~Active(dom[j])
    /\ host.mode = "Tool" => \A j \in table : Active(dom[j])
    /\ host.mode = "Waiting" =>
           \E j \in Jobs : host.left = {j} /\ Active(dom[j])

\* The jobs whose process runs.
Alive == {j \in Jobs : proc[j].main = "Alive"}

\* A process that runs has a handle.
Handles == \A j \in Alive : Handled(j)

\* The budget of processes.
Budgeted == Cardinality(Alive) <= MaxConcurrent

\* While no fork and no failure came between, an active record has a handle.
Slots ==
    (/\ host.mode # "Down"
     /\ faults.forks = 0 /\ faults.failures = 0
     /\ host.kind = "server" => faults.restarts = 0)
      => \A j \in Jobs : Active(dom[j]) => Handled(j)

\* The type of the counters of bounded events.
FaultsInv == faults \in [forks : Nat, failures : Nat, restarts : Nat]

\* The inductive invariant.
IInv ==
    /\ Fit /\ Started
    /\ HostInv
    /\ Handles /\ Budgeted /\ Slots
    /\ FaultsInv

\* It holds the types ...
LEMMA InvImpliesType == Fit /\ HostInv => TypeOK
BY DEF Fit, Fits, HostInv, TypeOK

\* ... and the property.
LEMMA InvImpliesSlots == IInv => SlotsKept
BY InvImpliesType DEF IInv, SlotsKept, Slots, Budgeted, Alive

-----------------------------------------------------------------------------
(* What the steps have in common. *)

\* One job changes.
OneJob(j, r, q, h) ==
    /\ dom' = [dom EXCEPT ![j] = r]
    /\ proc' = [proc EXCEPT ![j] = q]
    /\ handle' = [handle EXCEPT ![j] = h]

\* A job that did not start stays so, or gets no record.
Starts(j, r, q) ==
    q.main = "New" => proc[j].main = "New" /\ (Known(r) => Known(dom[j]))

\* The values after a step of one job.
LEMMA OneJobValues ==
    ASSUME Fit, NEW j \in Jobs, NEW r, NEW q, NEW h, OneJob(j, r, q, h)
    PROVE  /\ dom'[j] = r /\ proc'[j] = q /\ handle'[j] = h
           /\ \A i \in Jobs \ {j} :
                dom'[i] = dom[i] /\ proc'[i] = proc[i] /\ handle'[i] = handle[i]
BY DEF Fit, OneJob

\* A step of one job keeps the types and the chunks.
LEMMA OneJobFits ==
    ASSUME Fit, Started, NEW j \in Jobs, NEW r, NEW q, NEW h,
           OneJob(j, r, q, h), other' = other, Fits(r, q, h, Chunks[j]),
           Starts(j, r, q)
    PROVE  Fit' /\ Started'
<1>1. /\ dom' \in [Jobs -> Record]
      /\ proc' \in [Jobs -> Process]
      /\ handle' \in [Jobs -> Handle]
  BY DEF Fit, OneJob, Fits
<1>2. \A i \in Jobs : Fits(dom'[i], proc'[i], handle'[i], Chunks[i])
  BY OneJobValues DEF Fit
<1>3. Fit'
  BY <1>1, <1>2 DEF Fit
<1>4. Started'
  BY OneJobValues DEF Started, Starts
<1> QED
  BY <1>3, <1>4

\* A step that starts no process keeps the budget.
LEMMA FewerAlive ==
    ASSUME Budgeted, Alive' \subseteq Alive
    PROVE  Budgeted'
<1>1. IsFiniteSet(Alive)
  BY FS_Subset, JobsAssumption DEF Alive
<1>2. IsFiniteSet(Alive') /\ Cardinality(Alive') <= Cardinality(Alive)
  BY <1>1, FS_Subset
<1>3. Cardinality(Alive) \in Nat /\ Cardinality(Alive') \in Nat
  BY <1>1, <1>2, FS_CardinalityType
<1> QED
  BY <1>2, <1>3, JobsAssumption DEF Budgeted

\* The host is up, and stays what it is.
LEMMA SlotsStep ==
    ASSUME Slots, host.mode # "Down", faults' = faults,
           host'.kind = host.kind,
           \A i \in Jobs : Active(dom'[i]) =>
               Handled(i)' \/ (Active(dom[i]) /\ (Handled(i) => Handled(i)'))
    PROVE  Slots'
BY DEF Slots

\* A bounded event is counted ...
LEMMA CountedStep ==
    ASSUME FaultsInv, NEW fault \in {"forks", "failures", "restarts"},
           Counted(fault)
    PROVE  FaultsInv' /\ faults'[fault] # 0
BY DEF FaultsInv, Counted

\* ... and a failure ends the promise of slots.
LEMMA FailsStep ==
    ASSUME FaultsInv, Fails
    PROVE  FaultsInv' /\ Slots'
<1>1. FaultsInv' /\ faults'["failures"] # 0
  BY CountedStep DEF Fails
<1>2. faults'.failures # 0
  BY <1>1
<1> QED
  BY <1>1, <1>2 DEF Slots

\* What a mode of the host is made of.
LEMMA ModeType ==
    ASSUME host \in Host, 
           NEW m \in {"Idle", "Polling", "Settling", "Tool", "Waiting", "Exit",
                      "Down"},
           NEW then \in {"Idle", "Tool", "Shutdown"},
           NEW left \in SUBSET Jobs, NEW done \in SUBSET Jobs
    PROVE  /\ Mode(m, then, left, done) \in Host
           /\ Mode(m, then, left, done).kind = host.kind
           /\ Mode(m, then, left, done).mode = m
           /\ Mode(m, then, left, done).left = left
           /\ Mode(m, then, left, done).done = done
BY DEF Mode, Host

\* The host that is idle.
LEMMA IdleType ==
    ASSUME host \in Host
    PROVE  Idle \in Host /\ Idle.kind = host.kind /\ Idle.mode = "Idle"
BY ModeType DEF Idle

\* Where a poll_jobs call that is through leads.
LEMMA ThenType ==
    ASSUME host \in Host, NEW then \in {"Idle", "Tool", "Shutdown"},
           NEW jobs \in SUBSET Jobs
    PROVE  /\ Then(then, jobs) \in Host
           /\ Then(then, jobs).kind = host.kind
           /\ \/ Then(then, jobs).mode \in {"Idle", "Tool", "Exit"}
              \/ /\ Then(then, jobs).mode = "Polling"
                 /\ Then(then, jobs).left = jobs
                 /\ Then(then, jobs).done = {}
<1>1. CASE then = "Idle"
  BY <1>1, IdleType DEF Then
<1>2. CASE then = "Tool"
  BY <1>2, ModeType DEF Then
<1>3. CASE then = "Shutdown"
  <2>1. Then(then, jobs) = IF jobs = {} THEN Mode("Exit", "Idle", {}, {})
                           ELSE Mode("Polling", "Shutdown", jobs, {})
    BY <1>3 DEF Then
  <2> QED
    BY <2>1, ModeType
<1> QED
  BY <1>1, <1>2, <1>3

\* Where a poll_jobs call that failed leads.
LEMMA OtherwiseType ==
    ASSUME host \in Host, NEW then
    PROVE  /\ Otherwise(then) \in Host
           /\ Otherwise(then).kind = host.kind
           /\ Otherwise(then).mode \in {"Idle", "Exit"}
BY ModeType, IdleType DEF Otherwise

-----------------------------------------------------------------------------
(* The initial states, and the steps. *)

\* No job, no handle, no process.
LEMMA InitInv == Init => IInv
<1> SUFFICES ASSUME Init
             PROVE  IInv
  OBVIOUS
<1>1. Absent \in Record /\ Fresh \in Handle /\ ~Known(Absent) /\ Absent.text = 0
  BY DEF Absent, Fresh, Record, Handle, Known
<1>2. \A j \in Jobs : proc[j] \in Process /\ proc[j].main = "New"
                      /\ proc[j].chan = <<>> 
  BY DEF Init, Process
<1>3. Fresh.got = 0 /\ Fresh.journaled = 0
  BY DEF Fresh
<1>4. \A j \in Jobs : Chunks[j] \in Nat /\ Len(proc[j].chan) = 0
  BY <1>2, JobsAssumption
<1>5. dom = [j \in Jobs |-> Absent] /\ handle = [j \in Jobs |-> Fresh]
      /\ other = None /\ table = {} /\ host.mode = "Idle" /\ host \in Host
  BY DEF Init, Host
<1>6. \A j \in Jobs : Fits(dom[j], proc[j], handle[j], Chunks[j])
  BY <1>1, <1>2, <1>3, <1>4, <1>5 DEF Fits
<1>7. proc \in [Jobs -> Process]
  BY <1>2 DEF Init
<1>8. Fit
  BY <1>1, <1>5, <1>6, <1>7 DEF Fit
<1>9. Started
  BY <1>1, <1>5 DEF Started
<1>10. HostInv
  BY <1>5 DEF HostInv
<1>11. Alive = {}
  BY <1>2 DEF Alive
<1>12. Handles
  BY <1>11 DEF Handles
<1>13. Budgeted
  BY <1>11, FS_EmptySet, JobsAssumption DEF Budgeted
<1>14. Slots
  BY <1>1, <1>5 DEF Slots, Active
<1>15. FaultsInv
  BY DEF Init, FaultsInv
<1> QED
  BY <1>8, <1>9, <1>10, <1>12, <1>13, <1>14, <1>15 DEF IInv

\* One job changes, and no step of the host is over: its record stays active or
\* not, and its process does not start.
SameActivity(j, r, q) ==
    /\ Known(r) <=> Known(dom[j])
    /\ Active(r) <=> Active(dom[j])
    /\ \/ q.main = proc[j].main
       \/ proc[j].main = "Alive" /\ q.main \in {"Zero", "NonZero"}

\* A step of one job that the host's table does not notice keeps the invariant.
LEMMA SameHost ==
    ASSUME IInv, NEW j \in Jobs, NEW r, NEW q, NEW h,
           OneJob(j, r, q, h), Fits(r, q, h, Chunks[j]), SameActivity(j, r, q),
           UNCHANGED <<other, table, host, faults>>
    PROVE  IInv'
<1>1. Fit' /\ Started'
  BY OneJobFits DEF IInv, Starts, SameActivity
<1>2. /\ dom'[j] = r /\ proc'[j] = q
      /\ \A i \in Jobs \ {j} : dom'[i] = dom[i] /\ proc'[i] = proc[i]
  BY OneJobValues DEF IInv
<1>3. \A i \in Jobs : Active(dom'[i]) <=> Active(dom[i])
  BY <1>2 DEF SameActivity
<1>4. \A i \in Jobs : Handled(i)' <=> Handled(i)
  BY DEF Handled
<1>5. HostInv'
  <2>1. table \subseteq Jobs /\ HostInv
    BY DEF IInv, HostInv
  <2>2. host.mode \in {"Polling", "Settling"} => host.done \subseteq Jobs
    BY <2>1 DEF HostInv
  <2> QED
    BY <1>3, <2>1, <2>2 DEF HostInv
<1>6. Alive' \subseteq Alive
  BY <1>2 DEF Alive, SameActivity
<1>7. Handles' /\ Budgeted'
  BY <1>4, <1>6, FewerAlive DEF IInv, Handles, Alive
<1>8. Slots'
  BY <1>3, <1>4 DEF IInv, Slots
<1> QED
  BY <1>1, <1>5, <1>7, <1>8 DEF IInv, FaultsInv

\* What Fit says of one job.
LEMMA FitOf ==
    ASSUME Fit, NEW j \in Jobs
    PROVE  /\ Fits(dom[j], proc[j], handle[j], Chunks[j])
           /\ dom[j] \in Record /\ proc[j] \in Process /\ handle[j] \in Handle
           /\ proc[j].chan \in Seq({"data", "fail"})
           /\ Len(proc[j].chan) \in Nat
           /\ handle[j].got \in Nat /\ handle[j].journaled \in Nat
           /\ dom[j].text \in Nat /\ Chunks[j] \in Nat
<1>1. Fits(dom[j], proc[j], handle[j], Chunks[j])
  BY DEF Fit
<1>2. /\ dom[j] \in Record /\ proc[j] \in Process /\ handle[j] \in Handle
      /\ proc[j].chan \in Seq({"data", "fail"})
      /\ handle[j].got \in Nat /\ handle[j].journaled \in Nat
      /\ dom[j].text \in Nat
  BY <1>1 DEF Fits, Record, Process, Handle
<1> QED
  BY <1>1, <1>2, JobsAssumption

\* A value that stays, as a step of one job.
LEMMA SameFunctions ==
    ASSUME Fit, NEW j \in Jobs
    PROVE  /\ dom = [dom EXCEPT ![j] = dom[j]]
           /\ proc = [proc EXCEPT ![j] = proc[j]]
           /\ handle = [handle EXCEPT ![j] = handle[j]]
BY DEF Fit

\* A pipe reader hands over a chunk.
LEMMA WriteInv ==
    ASSUME IInv, NEW j \in Jobs, NEW item \in {"data", "fail"}, Write(j, item)
    PROVE  IInv'
<1> DEFINE c == Append(proc[j].chan, item)
           q == [proc[j] EXCEPT !.chan = c]
<1>1. Fit /\ handle[j].got + Len(proc[j].chan) < Chunks[j]
  BY DEF IInv, Write
<1>2. c \in Seq({"data", "fail"}) /\ Len(c) = Len(proc[j].chan) + 1
  BY <1>1, FitOf, AppendProperties
<1> HIDE DEF c
<1>3. q \in Process /\ q.main = proc[j].main /\ q.chan = c
  BY <1>1, <1>2, FitOf DEF Process
<1>4. OneJob(j, dom[j], q, handle[j])
  BY <1>1, SameFunctions DEF Write, OneJob, c
<1> HIDE DEF q
<1>5. handle[j].got + Len(q.chan) <= Chunks[j]
  BY <1>1, <1>2, <1>3, FitOf, SMTT(30)
<1>6. Fits(dom[j], q, handle[j], Chunks[j])
  BY <1>1, <1>3, <1>5, FitOf DEF Fits
<1> QED
  BY <1>3, <1>4, <1>6, SameHost DEF SameActivity, Write

\* The process exits.
LEMMA ExitInv ==
    ASSUME IInv, NEW j \in Jobs, NEW code \in {"Zero", "NonZero"}, Exit(j, code)
    PROVE  IInv'
<1> DEFINE q == [proc[j] EXCEPT !.main = code]
<1>1. Fit
  BY DEF IInv
<1>2. q \in Process /\ q.main = code /\ q.chan = proc[j].chan
  BY <1>1, FitOf DEF Process
<1>3. OneJob(j, dom[j], q, handle[j])
  BY <1>1, SameFunctions DEF Exit, OneJob
<1> HIDE DEF q
<1>4. Fits(dom[j], q, handle[j], Chunks[j])
  BY <1>1, <1>2, FitOf DEF Fits
<1> QED
  BY <1>2, <1>3, <1>4, SameHost DEF SameActivity, Exit

\* The pipes are closed.
LEMMA HangupInv ==
    ASSUME IInv, NEW j \in Jobs, Hangup(j)
    PROVE  IInv'
<1> DEFINE q == [proc[j] EXCEPT !.open = FALSE]
<1>1. Fit
  BY DEF IInv
<1>2. q \in Process /\ q.main = proc[j].main /\ q.chan = proc[j].chan
  <2>1. proc[j] \in Process /\ FALSE \in BOOLEAN
    BY <1>1, FitOf
  <2> QED
    BY <2>1 DEF Process
<1>3. OneJob(j, dom[j], q, handle[j])
  BY <1>1, SameFunctions DEF Hangup, OneJob
<1> HIDE DEF q
<1>4. Fits(dom[j], q, handle[j], Chunks[j])
  BY <1>1, <1>2, FitOf DEF Fits
<1> QED
  BY <1>2, <1>3, <1>4, SameHost DEF SameActivity, Hangup

\* Time passes.
LEMMA PassesInv ==
    ASSUME IInv, NEW j \in Jobs, WallPasses(j) \/ GracePasses(j)
    PROVE  IInv'
<1>1. PICK h \in Handle :
        /\ h.got = handle[j].got /\ h.journaled = handle[j].journaled
        /\ handle' = [handle EXCEPT ![j] = h]
  <2> DEFINE a == [handle[j] EXCEPT !.wall = TRUE]
             b == [handle[j] EXCEPT !.grace = TRUE]
  <2>1. handle[j] \in Handle
    BY FitOf DEF IInv
  <2>2. /\ a \in Handle /\ a.got = handle[j].got
        /\ a.journaled = handle[j].journaled
    BY <2>1 DEF Handle
  <2>3. /\ b \in Handle /\ b.got = handle[j].got
        /\ b.journaled = handle[j].journaled
    BY <2>1 DEF Handle
  <2>4. \/ handle' = [handle EXCEPT ![j] = a]
        \/ handle' = [handle EXCEPT ![j] = b]
    BY DEF WallPasses, GracePasses
  <2> HIDE DEF a, b
  <2> QED
    BY <2>2, <2>3, <2>4
<1>2. OneJob(j, dom[j], proc[j], h)
  BY <1>1, SameFunctions DEF IInv, OneJob, WallPasses, GracePasses
<1>3. Fits(dom[j], proc[j], h, Chunks[j])
  BY <1>1, FitOf DEF IInv, Fits
<1> QED
  BY <1>2, <1>3, SameHost DEF SameActivity, WallPasses, GracePasses

\* A user cancels.
LEMMA CancelInv ==
    ASSUME IInv, NEW j \in Jobs, Cancel(j)
    PROVE  IInv'
<1> DEFINE r == Signalled(dom[j], "stop")
<1>1. Fit /\ Active(dom[j])
  BY DEF IInv, Cancel
<1>2. r \in Record /\ r.status = "CancelRequested" /\ r.text = dom[j].text
  BY <1>1, FitOf, SignalledType
<1>3. OneJob(j, r, proc[j], handle[j])
  BY <1>1, SameFunctions DEF Cancel, OneJob
<1> HIDE DEF r
<1>4. Fits(r, proc[j], handle[j], Chunks[j])
  BY <1>1, <1>2, FitOf DEF Fits
<1>5. SameActivity(j, r, proc[j])
  BY <1>1, <1>2 DEF SameActivity, Active, Known, Terminal, Terminals
<1> QED
  BY <1>3, <1>4, <1>5, SameHost DEF Cancel

\* A user of the server asks for a signal.
LEMMA RequestInv ==
    ASSUME IInv, NEW j \in Jobs, NEW signal \in {"stop", "kill"},
           RequestSignal(j, signal)
    PROVE  IInv'
<1> DEFINE r == [dom[j] EXCEPT !.requested = signal]
<1>1. Fit
  BY DEF IInv
<1>2. r \in Record /\ r.status = dom[j].status /\ r.text = dom[j].text
  BY <1>1, FitOf DEF Record
<1>3. OneJob(j, r, proc[j], handle[j])
  BY <1>1, SameFunctions DEF RequestSignal, OneJob
<1> HIDE DEF r
<1>4. Fits(r, proc[j], handle[j], Chunks[j])
  BY <1>1, <1>2, FitOf DEF Fits
<1>5. SameActivity(j, r, proc[j])
  BY <1>2 DEF SameActivity, Active, Known, Terminal
<1> QED
  BY <1>3, <1>4, <1>5, SameHost DEF RequestSignal

\* The offset of a later fork is noted.
LEMMA BookmarkInv ==
    ASSUME IInv, Bookmark
    PROVE  IInv'
<1>1. /\ other' = dom
      /\ UNCHANGED <<dom, proc, handle, table, host, faults>>
  BY DEF Bookmark
<1>2. Fit'
  BY <1>1 DEF IInv, Fit, Fits
<1>3. Started'
  BY <1>1 DEF IInv, Started
<1>4. HostInv' /\ Alive' = Alive /\ \A j \in Jobs : Handled(j)' <=> Handled(j)
  BY <1>1 DEF IInv, HostInv, Alive, Handled
<1>5. Handles' /\ Budgeted'
  BY <1>4 DEF IInv, Handles, Budgeted, Alive
<1>6. Slots' /\ FaultsInv'
  BY <1>1, <1>4 DEF IInv, Slots, FaultsInv
<1> QED
  BY <1>2, <1>3, <1>4, <1>5, <1>6 DEF IInv

-----------------------------------------------------------------------------
(* The steps of poll_jobs. *)

\* The type of the host's fields.
LEMMA HostOf ==
    ASSUME HostInv
    PROVE  /\ host \in Host /\ table \in SUBSET Jobs
           /\ host.left \in SUBSET Jobs /\ host.done \in SUBSET Jobs
           /\ host.then \in {"Idle", "Tool", "Shutdown"}
BY DEF HostInv, Host

\* Only the host goes on, and no wait begins or ends.
LEMMA OnlyHost ==
    ASSUME IInv, UNCHANGED <<dom, other, proc, handle, table, faults>>,
           HostInv', host'.kind = host.kind,
           host.mode \notin {"Down", "Waiting"}
    PROVE  IInv'
<1>1. Fit' /\ Started' /\ FaultsInv'
  BY DEF IInv, Fit, Started, FaultsInv
<1>2. \A j \in Jobs : Handled(j) => Handled(j)'
  BY DEF Handled
<1>3. Alive' = Alive /\ Handles' /\ Budgeted'
  BY <1>2 DEF IInv, Handles, Budgeted, Alive
<1>4. Slots'
  BY <1>2 DEF IInv, Slots
<1> QED
  BY <1>1, <1>3, <1>4 DEF IInv

\* A poll_jobs call begins.
LEMMA BeginPollInv ==
    ASSUME IInv, NEW then \in {"Idle", "Tool"}, BeginPoll(then)
    PROVE  IInv'
<1>1. HostInv /\ host.mode = "Idle"
  BY DEF IInv, BeginPoll
<1>2. CASE table = {}
  <2>1. host' = Then(then, {})
    BY <1>2 DEF BeginPoll
  <2>2. /\ host' \in Host /\ host'.kind = host.kind
        /\ host'.mode \in {"Idle", "Tool", "Exit"}
             \/ (host'.mode = "Polling" /\ host'.left = {} /\ host'.done = {})
    BY <1>1, <2>1, ThenType, HostOf
  <2>3. HostInv'
    BY <1>1, <1>2, <2>2 DEF HostInv, BeginPoll
  <2> QED
    BY <1>1, <2>2, <2>3, OnlyHost DEF BeginPoll
<1>3. CASE table # {}
  <2>1. host' = Mode("Polling", then, table, {})
    BY <1>3 DEF BeginPoll
  <2>2. /\ host' \in Host /\ host'.kind = host.kind
        /\ host'.mode = "Polling" /\ host'.left = table /\ host'.done = {}
    BY <1>1, <2>1, ModeType, HostOf
  <2>3. HostInv'
    BY <1>1, <2>2 DEF HostInv, BeginPoll
  <2> QED
    BY <1>1, <2>2, <2>3, OnlyHost DEF BeginPoll
<1> QED
  BY <1>2, <1>3

\* The poll goes on behind the job j: active it is left, and not active it will
\* be settled.
LEMMA GoesOnStep ==
    ASSUME HostInv, host.mode = "Polling", NEW j \in host.left, NEW done,
           table' = table, GoesOn(j, done),
           \A i \in Jobs \ {j} : dom'[i] = dom[i],
           \/ Active(dom[j]) /\ Active(dom'[j]) /\ done = host.done
           \/ ~Active(dom'[j]) /\ done = host.done \cup {j}
    PROVE  /\ HostInv' /\ host'.kind = host.kind
           /\ \A i \in Jobs : Handled(i)' <=> Handled(i)
<1> DEFINE left == host.left \ {j}
<1>1. /\ left \in SUBSET Jobs /\ done \in SUBSET Jobs /\ table \in SUBSET Jobs
      /\ j \in table /\ left \cup done \subseteq table
  BY HostOf DEF HostInv
<1>2. /\ \A i \in table \ (left \cup done) : Active(dom'[i])
      /\ \A i \in done : ~Active(dom'[i])
  <2>1. j \notin host.done \/ ~Active(dom'[j])
    BY DEF HostInv
  <2>2. ASSUME NEW i \in table \ (left \cup done)
        PROVE  Active(dom'[i])
    <3>1. CASE i = j
      BY <3>1
    <3>2. CASE i # j
      <4>1. i \notin host.left /\ i \notin host.done
        BY <3>2
      <4> QED
        BY <1>1, <3>2, <4>1 DEF HostInv
    <3> QED
      BY <3>1, <3>2
  <2>3. ASSUME NEW i \in done
        PROVE  ~Active(dom'[i])
    <3>1. CASE i = j
      BY <2>1, <3>1
    <3>2. CASE i # j
      <4>1. i \in host.done
        BY <3>2
      <4> QED
        BY <1>1, <3>2, <4>1 DEF HostInv
    <3> QED
      BY <3>1, <3>2
  <2> QED
    BY <2>2, <2>3
<1>3. host' = IF left # {} THEN Mode("Polling", host.then, left, done)
              ELSE IF done # {} THEN Mode("Settling", host.then, {}, done)
              ELSE Then(host.then, table)
  BY DEF GoesOn
<1> HIDE DEF left
<1>4. /\ host' \in Host /\ host'.kind = host.kind
      /\ \/ /\ host'.mode = "Polling"
            /\ host'.left = left /\ host'.done = done
         \/ /\ host'.mode = "Settling"
            /\ left = {} /\ host'.left = {} /\ host'.done = done
         \/ /\ left = {} /\ done = {}
            /\ host'.mode \in {"Idle", "Tool", "Exit"}
         \/ /\ host'.mode = "Polling"
            /\ host'.left = table /\ host'.done = {}
  <2>1. CASE left # {}
    <3>1. host' = Mode("Polling", host.then, left, done)
      BY <1>3, <2>1
    <3> QED
      BY <1>1, <3>1, ModeType, HostOf
  <2>2. CASE left = {} /\ done # {}
    <3>1. host' = Mode("Settling", host.then, {}, done)
      BY <1>3, <2>2
    <3> QED
      BY <1>1, <2>2, <3>1, ModeType, HostOf
  <2>3. CASE left = {} /\ done = {}
    <3>1. host' = Then(host.then, table)
      BY <1>3, <2>3
    <3> QED
      BY <1>1, <2>3, <3>1, ThenType, HostOf
  <2> QED
    BY <2>1, <2>2, <2>3
<1>5. HostInv'
  BY <1>1, <1>2, <1>4 DEF HostInv
<1>6. \A i \in Jobs : Handled(i)' <=> Handled(i)
  BY <1>4 DEF Handled
<1> QED
  BY <1>4, <1>5, <1>6

\* A job that is not active is polled.
LEMMA PollThroughInv ==
    ASSUME IInv, NEW j \in Jobs, PollThrough(j)
    PROVE  IInv'
<1>1. HostInv /\ host.mode = "Polling" /\ j \in host.left /\ ~Active(dom[j])
      /\ GoesOn(j, host.done \cup {j}) /\ table' = table /\ dom' = dom
  BY DEF IInv, PollThrough
<1>2. HostInv' /\ host'.kind = host.kind
  BY <1>1, GoesOnStep
<1> QED
  BY <1>1, <1>2, OnlyHost DEF PollThrough

\* What the poll finds: the record, with a requested signal consumed, and the
\* process.
LEMMA ConsumedType ==
    ASSUME Fit, NEW j \in Jobs, Active(dom[j])
    PROVE  /\ Consumed(j) \in Record /\ Active(Consumed(j))
           /\ Consumed(j).text = dom[j].text
           /\ Struck(j) \in Process /\ Struck(j).chan = proc[j].chan
           /\ Struck(j).main = proc[j].main
                \/ (proc[j].main = "Alive" /\ Struck(j).main = "NonZero")
<1> DEFINE s == Signalled(dom[j], dom[j].requested)
           t == [s EXCEPT !.requested = None]
<1>1. dom[j] \in Record /\ proc[j] \in Process
  BY FitOf
<1>2. s \in Record /\ s.status = "CancelRequested" /\ s.text = dom[j].text
  BY <1>1, SignalledType
<1> HIDE DEF s
<1>3. t \in Record /\ t.status = "CancelRequested" /\ t.text = dom[j].text
  BY <1>2 DEF Record
<1>4. Consumed(j) = dom[j] \/ Consumed(j) = t
  BY DEF Consumed, s
<1> HIDE DEF t
<1>5. /\ Consumed(j) \in Record /\ Active(Consumed(j))
      /\ Consumed(j).text = dom[j].text
  BY <1>1, <1>3, <1>4 DEF Active, Known, Terminal, Terminals
<1>6. Struck(j) = proc[j] \/ Struck(j) = Killed(proc[j])
  BY DEF Struck
<1> QED
  BY <1>1, <1>5, <1>6, KilledType

\* What the poll of an active job leaves: an active record and a process that
\* did not start, or a terminal record and no process that runs.
Left(j, p) ==
    /\ Fits(p.rec, p.proc, p.handle, Chunks[j])
    /\ Known(p.rec)
    /\ \/ p.proc.main = proc[j].main
       \/ proc[j].main = "Alive" /\ p.proc.main = "NonZero"

\* An active job is active after its poll, or it is concluded.
LEMMA LeftActive ==
    ASSUME Fit, NEW j \in Jobs, Active(dom[j]), NEW r \in Record,
           NEW q \in Process, Active(r), r.text = dom[j].text,
           q.chan = proc[j].chan,
           \/ q.main = proc[j].main
           \/ proc[j].main = "Alive" /\ q.main = "NonZero",
           NEW p \in Polled(j, r, q)
    PROVE  /\ Left(j, p) /\ Active(p.rec)
           /\ Left(j, Concluded(p)) /\ ~Active(Concluded(p).rec)
<1>1. Chunks[j] \in Nat /\ Fits(r, q, handle[j], Chunks[j])
  BY FitOf DEF Fits
<1>2. /\ Within(p, Chunks[j])
      /\ p.rec.status = r.status \/ p.rec.status = "CancelRequested"
      /\ p.proc.main = q.main
           \/ (q.main = "Alive" /\ p.proc.main = "NonZero")
  BY <1>1, PolledStep
<1>3. Active(p.rec)
  BY <1>2 DEF Active, Known, Terminal, Terminals
<1>4. Left(j, p)
  BY <1>2, <1>3, Parts DEF Left, Fits, Within, Active
<1> DEFINE c == Concluded(p)
<1>5. /\ Within(c, Chunks[j]) /\ c.rec.status \in Terminals
      /\ c.proc.main = p.proc.main
           \/ (p.proc.main = "Alive" /\ c.proc.main = "NonZero")
  BY <1>1, <1>2, ConcludedStep
<1> HIDE DEF c
<1>6. ~Active(c.rec) /\ Known(c.rec)
  BY <1>5 DEF Active, Known, Terminal, Terminals
<1>7. Left(j, c)
  BY <1>2, <1>5, <1>6, Parts DEF Left, Fits, Within
<1> QED
  BY <1>3, <1>4, <1>6, <1>7 DEF c

\* A job is what a poll leaves.
LEMMA BecomesStep ==
    ASSUME IInv, NEW j \in Jobs, Active(dom[j]), NEW p, Left(j, p),
           Becomes(j, p), other' = other
    PROVE  /\ Fit' /\ Started'
           /\ dom'[j] = p.rec
           /\ \A i \in Jobs \ {j} : dom'[i] = dom[i]
           /\ Alive' \subseteq Alive
<1>1. OneJob(j, p.rec, p.proc, p.handle)
  BY DEF Becomes, OneJob
<1>2. Starts(j, p.rec, p.proc)
  BY DEF Starts, Left, Active
<1>3. Fit' /\ Started'
  BY <1>1, <1>2, OneJobFits DEF IInv, Left
<1>4. /\ dom'[j] = p.rec /\ proc'[j] = p.proc
      /\ \A i \in Jobs \ {j} : dom'[i] = dom[i] /\ proc'[i] = proc[i]
  BY <1>1, OneJobValues DEF IInv
<1>5. Alive' \subseteq Alive
  BY <1>4 DEF Alive, Left
<1> QED
  BY <1>3, <1>4, <1>5

\* An active job is polled.
LEMMA PollActiveInv ==
    ASSUME IInv, NEW j \in Jobs, PollActive(j)
    PROVE  IInv'
<1>1. /\ HostInv /\ Fit /\ host.mode = "Polling" /\ j \in host.left
      /\ Active(dom[j])
      /\ other' = other /\ table' = table /\ faults' = faults
  BY DEF IInv, PollActive
<1>2. PICK p \in Polled(j, Consumed(j), Struck(j)) :
        \/ Becomes(j, Concluded(p)) /\ GoesOn(j, host.done \cup {j})
        \/ Becomes(j, p) /\ GoesOn(j, host.done)
  BY DEF PollActive
<1>3. /\ Left(j, p) /\ Active(p.rec)
      /\ Left(j, Concluded(p)) /\ ~Active(Concluded(p).rec)
  BY <1>1, ConsumedType, LeftActive
<1>4. PICK q, done :
        /\ Left(j, q) /\ Becomes(j, q) /\ GoesOn(j, done)
        /\ \/ Active(q.rec) /\ done = host.done
           \/ ~Active(q.rec) /\ done = host.done \cup {j}
  BY <1>2, <1>3
<1>5. /\ Fit' /\ Started' /\ dom'[j] = q.rec
      /\ \A i \in Jobs \ {j} : dom'[i] = dom[i]
      /\ Alive' \subseteq Alive
  BY <1>1, <1>4, BecomesStep
<1>6. /\ HostInv' /\ host'.kind = host.kind
      /\ \A i \in Jobs : Handled(i)' <=> Handled(i)
  BY <1>1, <1>4, <1>5, GoesOnStep
<1>7. Handles' /\ Budgeted'
  BY <1>5, <1>6, FewerAlive DEF IInv, Handles, Alive
<1>8. Slots'
  <2>1. Slots /\ host.mode # "Down"
    BY <1>1 DEF IInv
  <2>2. ASSUME NEW i \in Jobs, Active(dom'[i])
        PROVE  Active(dom[i])
    BY <1>1, <1>5, <2>2
  <2> QED
    BY <1>1, <1>6, <2>1, <2>2, SlotsStep
<1>9. FaultsInv'
  BY <1>1 DEF IInv, FaultsInv
<1> QED
  BY <1>5, <1>6, <1>7, <1>8, <1>9 DEF IInv

\* What an active job wrote cannot be stored.
LEMMA PollFailsInv ==
    ASSUME IInv, NEW j \in Jobs, PollFails(j)
    PROVE  IInv'
<1>1. /\ HostInv /\ Fit /\ FaultsInv /\ Active(dom[j]) /\ Fails
      /\ host.mode = "Polling" /\ host' = Otherwise(host.then)
      /\ other' = other /\ table' = table
  BY DEF IInv, PollFails
<1>2. PICK p \in Polled(j, Consumed(j), Struck(j)) : Becomes(j, p)
  BY DEF PollFails
<1>3. Left(j, p)
  BY <1>1, ConsumedType, LeftActive
<1>4. Fit' /\ Started' /\ Alive' \subseteq Alive
  BY <1>1, <1>2, <1>3, BecomesStep
<1>5. host' \in Host /\ host'.mode \in {"Idle", "Exit"}
  BY <1>1, OtherwiseType, HostOf
<1>6. HostInv'
  BY <1>1, <1>5 DEF HostInv
<1>7. \A i \in Jobs : Handled(i) => Handled(i)'
  BY <1>1, <1>5 DEF Handled
<1>8. Handles' /\ Budgeted'
  BY <1>4, <1>7, FewerAlive DEF IInv, Handles, Alive
<1>9. FaultsInv' /\ Slots'
  BY <1>1, FailsStep
<1> QED
  BY <1>4, <1>6, <1>8, <1>9 DEF IInv

\* The handle of a job is dropped.
LEMMA GoneFits ==
    ASSUME NEW n \in Nat, NEW r \in Record, r.text <= n, NEW q \in Process
    PROVE  /\ Fits(r, Gone(q), Fresh, n)
           /\ Gone(q).main = IF q.main = "Alive" THEN "NonZero" ELSE q.main
<1> DEFINE k == Killed(q)
           g == [k EXCEPT !.open = FALSE, !.chan = <<>>]
<1>1. k \in Process
      /\ k.main = IF q.main = "Alive" THEN "NonZero" ELSE q.main
  BY KilledType
<1>2. Gone(q) = g
  BY DEF Gone
<1> HIDE DEF k
<1>3. <<>> \in Seq({"data", "fail"}) /\ Len(<<>>) = 0 /\ FALSE \in BOOLEAN
  OBVIOUS
<1>4. g \in Process /\ g.chan = <<>> /\ g.main = k.main
  BY <1>1, <1>3 DEF Process
<1> HIDE DEF g
<1>5. Fresh \in Handle /\ Fresh.got = 0 /\ Fresh.journaled = 0
  BY DEF Fresh, Handle
<1>6. Len(g.chan) = 0
  BY <1>3, <1>4
<1>7. Fits(r, g, Fresh, n)
  BY <1>4, <1>5, <1>6 DEF Fits
<1> QED
  BY <1>1, <1>2, <1>4, <1>7

\* A job whose handle is dropped, with the record r.
LEMMA DroppedStep ==
    ASSUME IInv, NEW j \in Jobs, NEW r \in Record, r.text <= Chunks[j],
           Known(r) <=> Known(dom[j]),
           OneJob(j, r, Gone(proc[j]), Fresh), other' = other
    PROVE  /\ Fit' /\ Started'
           /\ dom'[j] = r
           /\ \A i \in Jobs \ {j} : dom'[i] = dom[i]
           /\ Alive' \subseteq Alive \ {j}
<1> DEFINE q == Gone(proc[j])
<1>1. Fit /\ Started /\ proc[j] \in Process /\ Chunks[j] \in Nat
  BY FitOf DEF IInv
<1>2. /\ Fits(r, q, Fresh, Chunks[j])
      /\ q.main = IF proc[j].main = "Alive" THEN "NonZero" ELSE proc[j].main
  BY <1>1, GoneFits
<1> HIDE DEF q
<1>3. OneJob(j, r, q, Fresh)
  BY DEF q
<1>4. Starts(j, r, q)
  BY <1>2 DEF Starts
<1>5. Fit' /\ Started'
  BY <1>1, <1>2, <1>3, <1>4, OneJobFits
<1>6. /\ dom'[j] = r /\ proc'[j] = q
      /\ \A i \in Jobs \ {j} : dom'[i] = dom[i] /\ proc'[i] = proc[i]
  BY <1>1, <1>3, OneJobValues
<1>7. Alive' \subseteq Alive \ {j}
  BY <1>2, <1>6 DEF Alive
<1> QED
  BY <1>5, <1>6, <1>7

\* A finished job leaves the table; it was not active.
LEMMA SettleInv ==
    ASSUME IInv, NEW j \in Jobs, Settle(j)
    PROVE  IInv'
<1> DEFINE done == host.done \ {j}
           d == [dom[j] EXCEPT !.diff = TRUE]
           r == IF Known(dom[j]) THEN d ELSE dom[j]
<1>1. /\ HostInv /\ Fit /\ FaultsInv /\ Slots
      /\ host.mode = "Settling" /\ j \in host.done
      /\ table' = table \ {j} /\ other' = other /\ faults' = faults
      /\ host' = IF done = {} THEN Then(host.then, table')
                 ELSE [host EXCEPT !.done = done]
  BY DEF IInv, Settle
<1>2. dom[j] \in Record /\ dom[j].text <= Chunks[j]
  BY <1>1, FitOf DEF Fits
<1>3. d \in Record /\ d.status = dom[j].status /\ d.text = dom[j].text
  BY <1>2 DEF Record
<1>4. OneJob(j, r, Gone(proc[j]), Fresh)
  <2>1. dom' = [dom EXCEPT ![j] = r]
    BY <1>1, SameFunctions DEF Settle, Fit
  <2>2. /\ proc' = [proc EXCEPT ![j] = Gone(proc[j])]
        /\ handle' = [handle EXCEPT ![j] = Fresh]
    BY DEF Settle
  <2> QED
    BY <2>1, <2>2 DEF OneJob
<1> HIDE DEF d
<1>5. r \in Record /\ r.status = dom[j].status /\ r.text = dom[j].text
  BY <1>2, <1>3
<1> HIDE DEF r
<1>6. /\ Fit' /\ Started' /\ dom'[j] = r
      /\ \A i \in Jobs \ {j} : dom'[i] = dom[i]
      /\ Alive' \subseteq Alive \ {j}
  <2>1. r \in Record /\ r.text <= Chunks[j] /\ (Known(r) <=> Known(dom[j]))
    BY <1>2, <1>5 DEF Known
  <2> QED
    BY <1>1, <1>4, <2>1, DroppedStep
<1>7. \A i \in Jobs : Active(dom'[i]) <=> Active(dom[i])
  BY <1>5, <1>6 DEF Active, Known, Terminal
<1>8. /\ done \in SUBSET Jobs /\ table' \in SUBSET Jobs
      /\ done \subseteq table'
      /\ \A i \in table' \ done : Active(dom'[i])
      /\ \A i \in done : ~Active(dom'[i])
  BY <1>1, <1>7, HostOf DEF HostInv
<1> HIDE DEF done
<1>9. /\ host' \in Host /\ host'.kind = host.kind
      /\ \/ /\ host'.mode = "Settling"
            /\ host'.left = {} /\ host'.done = done
         \/ /\ done = {}
            /\ host'.mode \in {"Idle", "Tool", "Exit"}
         \/ /\ host'.mode = "Polling"
            /\ host'.left = table' /\ host'.done = {}
  <2>1. CASE done = {}
    <3>1. host' = Then(host.then, table')
      BY <1>1, <2>1
    <3>2. host \in Host /\ host.then \in {"Idle", "Tool", "Shutdown"}
      BY <1>1, HostOf
    <3> DEFINE t == table'
    <3>3. t \in SUBSET Jobs
      BY <1>8
    <3> HIDE DEF t
    <3>4. /\ Then(host.then, t) \in Host
          /\ Then(host.then, t).kind = host.kind
          /\ \/ Then(host.then, t).mode \in {"Idle", "Tool", "Exit"}
             \/ /\ Then(host.then, t).mode = "Polling"
                /\ Then(host.then, t).left = t
                /\ Then(host.then, t).done = {}
      BY <3>2, <3>3, ThenType
    <3> QED
      BY <2>1, <3>1, <3>4 DEF t
  <2>2. CASE done # {}
    <3>1. host' = [host EXCEPT !.done = done]
      BY <1>1, <2>2
    <3> QED
      BY <1>1, <1>8, <3>1 DEF HostInv, Host
  <2> QED
    BY <2>1, <2>2
<1>10. HostInv'
  BY <1>8, <1>9 DEF HostInv
<1>11. \A i \in Jobs \ {j} : Handled(i) => Handled(i)'
  BY <1>1 DEF Handled
<1>12. Handles' /\ Budgeted'
  BY <1>6, <1>11, FewerAlive DEF IInv, Handles, Alive
<1>13. Slots'
  <2>1. ~Active(dom'[j])
    BY <1>1, <1>7 DEF HostInv
  <2>2. host.mode # "Down"
    BY <1>1
  <2> QED
    BY <1>1, <1>7, <1>9, <1>11, <2>1, <2>2, SlotsStep
<1>14. FaultsInv'
  BY <1>1 DEF FaultsInv
<1> QED
  BY <1>6, <1>10, <1>12, <1>13, <1>14 DEF IInv

\* A finished job leaves the table, and the rest of the call is not made.
LEMMA SettleFailsInv ==
    ASSUME IInv, NEW j \in Jobs, SettleFails(j)
    PROVE  IInv'
<1>1. /\ HostInv /\ Fit /\ FaultsInv /\ Fails
      /\ host.mode = "Settling" /\ host' = Otherwise(host.then)
      /\ other' = other /\ table' = table \ {j} /\ dom' = dom
  BY DEF IInv, SettleFails
<1>2. dom[j] \in Record /\ dom[j].text <= Chunks[j]
  BY <1>1, FitOf DEF Fits
<1>3. OneJob(j, dom[j], Gone(proc[j]), Fresh)
  BY <1>1, SameFunctions DEF SettleFails, OneJob
<1>4. Fit' /\ Started' /\ Alive' \subseteq Alive \ {j}
  BY <1>1, <1>2, <1>3, DroppedStep
<1>5. host' \in Host /\ host'.mode \in {"Idle", "Exit"}
  BY <1>1, OtherwiseType, HostOf
<1>6. HostInv'
  BY <1>1, <1>5 DEF HostInv
<1>7. \A i \in Jobs \ {j} : Handled(i) => Handled(i)'
  BY <1>1 DEF Handled
<1>8. Handles' /\ Budgeted'
  BY <1>4, <1>7, FewerAlive DEF IInv, Handles, Alive
<1>9. FaultsInv' /\ Slots'
  BY <1>1, FailsStep
<1> QED
  BY <1>4, <1>6, <1>8, <1>9 DEF IInv

-----------------------------------------------------------------------------
(* The steps of the tools. *)

\* The budget counts the active records, and each process that runs has one:
\* there is room for another process when there is room for another record.
LEMMA SpawnInv ==
    ASSUME IInv, NEW j \in Jobs, NEW async \in BOOLEAN, Spawn(j, async)
    PROVE  IInv'
<1> DEFINE q == [proc[j] EXCEPT !.main = "Alive", !.open = TRUE]
           Busy == {i \in Jobs : Active(dom[i])}
<1>1. /\ HostInv /\ Fit /\ Started /\ FaultsInv /\ Slots
      /\ host.mode = "Tool" /\ proc[j].main = "New"
      /\ other' = other /\ faults' = faults /\ handle' = handle
      /\ \/ table' = table \cup {j} /\ host' = Idle
         \/ table' = table /\ host' = Mode("Waiting", "Idle", {j}, {})
  BY DEF IInv, Spawn, Minted
<1>2. /\ Running \in Record /\ Running.text = 0 /\ Active(Running)
      /\ ~Active(dom[j])
  BY <1>1 DEF Running, Absent, Record, Active, Known, Terminal, Terminals,
              Started
<1>3. q \in Process /\ q.main = "Alive" /\ q.chan = proc[j].chan
  <2>1. proc[j] \in Process /\ TRUE \in BOOLEAN
    BY <1>1, FitOf
  <2> QED
    BY <2>1 DEF Process
<1>4. OneJob(j, Running, q, handle[j])
  <2>1. proc' = [proc EXCEPT ![j] = q]
    BY DEF Spawn
  <2> QED
    BY <1>1, <2>1, SameFunctions DEF Spawn, OneJob
<1> HIDE DEF q
<1>5. Fits(Running, q, handle[j], Chunks[j])
  BY <1>1, <1>2, <1>3, FitOf DEF Fits
<1>6. Fit' /\ Started'
  BY <1>1, <1>3, <1>4, <1>5, OneJobFits DEF Starts
<1>7. /\ dom'[j] = Running /\ proc'[j] = q
      /\ \A i \in Jobs \ {j} : dom'[i] = dom[i] /\ proc'[i] = proc[i]
  BY <1>1, <1>4, OneJobValues
<1>8. /\ host' \in Host /\ host'.kind = host.kind
      /\ \/ host'.mode = "Idle" /\ table' = table \cup {j}
         \/ host'.mode = "Waiting" /\ host'.left = {j} /\ table' = table
  <2> DEFINE w == Mode("Waiting", "Idle", {j}, {})
  <2>1. host \in Host /\ {j} \in SUBSET Jobs /\ {} \in SUBSET Jobs
    BY <1>1, HostOf
  <2>2. /\ w \in Host /\ w.kind = host.kind /\ w.mode = "Waiting"
        /\ w.left = {j}
    BY <2>1, ModeType
  <2>3. Idle \in Host /\ Idle.kind = host.kind /\ Idle.mode = "Idle"
    BY <2>1, IdleType
  <2> HIDE DEF w
  <2>4. \/ table' = table \cup {j} /\ host' = Idle
        \/ table' = table /\ host' = w
    BY <1>1 DEF w
  <2> QED
    BY <2>2, <2>3, <2>4
<1>9. HostInv'
  BY <1>1, <1>2, <1>7, <1>8 DEF HostInv
<1>10. \A i \in Jobs : i = j \/ Handled(i) => Handled(i)'
  BY <1>1, <1>8 DEF Handled
<1>11. Alive' \subseteq Alive \cup {j}
  BY <1>7 DEF Alive
<1>12. Handles'
  BY <1>10, <1>11 DEF IInv, Handles, Alive
<1>13. Budgeted'
  <2>1. Alive \subseteq Busy
    BY <1>1 DEF IInv, Handles, Handled, HostInv, Alive
  <2>2. IsFiniteSet(Busy) /\ Cardinality(Busy) \in Nat
    BY FS_Subset, FS_CardinalityType, JobsAssumption
  <2>3. Cardinality(Busy) < MaxConcurrent
    BY DEF Spawn, Budget
  <2>4. j \notin Busy
    BY <1>2
  <2> HIDE DEF Busy
  <2>5. IsFiniteSet(Busy \cup {j})
        /\ Cardinality(Busy \cup {j}) = Cardinality(Busy) + 1
    BY <2>2, <2>4, FS_AddElement
  <2>6. Alive' \subseteq Busy \cup {j}
    BY <1>11, <2>1
  <2>7. /\ Cardinality(Alive') <= Cardinality(Busy \cup {j})
        /\ Cardinality(Alive') \in Nat
    BY <2>5, <2>6, FS_Subset, FS_CardinalityType
  <2> QED
    BY <2>2, <2>3, <2>5, <2>7, JobsAssumption DEF Budgeted
<1>14. Slots'
  BY <1>1, <1>7, <1>8, <1>10, SlotsStep
<1>15. FaultsInv'
  BY <1>1 DEF FaultsInv
<1> QED
  BY <1>6, <1>9, <1>12, <1>13, <1>14, <1>15 DEF IInv

\* The host comes back from a tool.
LEMMA BackIdle ==
    ASSUME HostInv, host' = Idle, table' \subseteq Jobs
    PROVE  HostInv' /\ host'.kind = host.kind /\ host'.mode = "Idle"
BY IdleType DEF HostInv

\* A process is not started; its job is over.
LEMMA SpawnFailsInv ==
    ASSUME IInv, NEW j \in Jobs, SpawnFails(j)
    PROVE  IInv'
<1> DEFINE q == [proc[j] EXCEPT !.main = "NonZero"]
           r == [Absent EXCEPT !.status = "Failed", !.reason = "Error"]
<1>1. /\ HostInv /\ Fit /\ Started /\ FaultsInv /\ Fails
      /\ host.mode = "Tool" /\ host' = Idle
      /\ other' = other /\ handle' = handle /\ table' = table
      /\ table \subseteq Jobs
  BY DEF IInv, SpawnFails, HostInv
<1>2. r \in Record /\ r.text = 0
  BY DEF Absent, Record, Terminals
<1>3. q \in Process /\ q.main = "NonZero" /\ q.chan = proc[j].chan
  BY <1>1, FitOf DEF Process
<1>4. OneJob(j, r, q, handle[j])
  BY <1>1, SameFunctions DEF SpawnFails, OneJob
<1> HIDE DEF q, r
<1>5. Fits(r, q, handle[j], Chunks[j])
  BY <1>1, <1>2, <1>3, FitOf DEF Fits
<1>6. Fit' /\ Started'
  BY <1>1, <1>3, <1>4, <1>5, OneJobFits DEF Starts
<1>7. Alive' \subseteq Alive
  BY <1>1, <1>3, <1>4, OneJobValues DEF Alive
<1>8. HostInv' /\ host'.mode = "Idle"
  BY <1>1, BackIdle
<1>9. \A i \in Jobs : Handled(i) => Handled(i)'
  BY <1>1 DEF Handled
<1>10. Handles' /\ Budgeted'
  BY <1>7, <1>9, FewerAlive DEF IInv, Handles, Alive
<1>11. FaultsInv' /\ Slots'
  BY <1>1, FailsStep
<1> QED
  BY <1>6, <1>8, <1>10, <1>11 DEF IInv

\* A tool that starts nothing ends.
LEMMA ToolEndsInv ==
    ASSUME IInv, ToolEnds
    PROVE  IInv'
<1>1. HostInv /\ table' = table /\ table \subseteq Jobs /\ host.mode = "Tool"
  BY DEF IInv, HostInv, ToolEnds
<1>2. HostInv' /\ host'.kind = host.kind
  BY <1>1, BackIdle DEF ToolEnds
<1> QED
  BY <1>1, <1>2, OnlyHost DEF ToolEnds

\* The tool that waited ends.
LEMMA WaitEnds ==
    ASSUME IInv, NEW j \in Jobs, host.mode = "Waiting", j \in host.left,
           host' = Idle, table' = table \/ table' = table \cup {j}
    PROVE  /\ HostInv' /\ host'.kind = host.kind
           /\ \A i \in Jobs \ {j} : Handled(i) => Handled(i)'
           /\ table' = table \cup {j} => Handled(j)'
<1>1. HostInv /\ table' \subseteq Jobs
  BY DEF IInv, HostInv
<1>2. HostInv' /\ host'.kind = host.kind
  BY <1>1, BackIdle
<1>3. \A i \in Jobs \ {j} : Handled(i) => i \in table
  <2>1. PICK k \in Jobs : host.left = {k}
    BY <1>1 DEF HostInv
  <2> QED
    BY <2>1 DEF Handled
<1>4. \A i \in Jobs : i \in table' => Handled(i)'
  BY DEF Handled
<1> QED
  BY <1>2, <1>3, <1>4

\* The job of a wait is active.
LEMMA WaitsFor ==
    ASSUME IInv, NEW j \in Jobs, host.mode = "Waiting", j \in host.left,
           NEW p \in Polled(j, dom[j], proc[j])
    PROVE  /\ Active(dom[j])
           /\ Left(j, p) /\ Active(p.rec)
           /\ Left(j, Concluded(p)) /\ ~Active(Concluded(p).rec)
<1>1. Fit /\ Active(dom[j]) /\ dom[j] \in Record /\ proc[j] \in Process
  BY FitOf DEF IInv, HostInv
<1> QED
  BY <1>1, LeftActive

\* The handle of the job that a tool waited for is dropped.
LEMMA WaitDrops ==
    ASSUME IInv, NEW j \in Jobs, host.mode = "Waiting", j \in host.left,
           NEW r \in Record, r.text <= Chunks[j], Known(r), Known(dom[j]),
           dom' = [dom EXCEPT ![j] = r], Released(j), host' = Idle,
           other' = other, table' = table
    PROVE  /\ Fit' /\ Started' /\ HostInv' /\ Handles' /\ Budgeted'
           /\ host'.kind = host.kind
           /\ dom'[j] = r /\ \A i \in Jobs \ {j} : dom'[i] = dom[i]
           /\ \A i \in Jobs \ {j} : Handled(i) => Handled(i)'
<1>1. OneJob(j, r, Gone(proc[j]), Fresh) /\ (Known(r) <=> Known(dom[j]))
  <2>1. /\ proc' = [proc EXCEPT ![j] = Gone(proc[j])]
        /\ handle' = [handle EXCEPT ![j] = Fresh]
    BY DEF Released
  <2> QED
    BY <2>1 DEF OneJob
<1>2. /\ Fit' /\ Started' /\ dom'[j] = r
      /\ \A i \in Jobs \ {j} : dom'[i] = dom[i]
      /\ Alive' \subseteq Alive \ {j}
  BY <1>1, DroppedStep
<1>3. /\ HostInv' /\ host'.kind = host.kind
      /\ \A i \in Jobs \ {j} : Handled(i) => Handled(i)'
  BY WaitEnds
<1>4. Handles' /\ Budgeted'
  BY <1>2, <1>3, FewerAlive DEF IInv, Handles, Alive
<1> QED
  BY <1>2, <1>3, <1>4

\* A turn of Job::wait.
LEMMA WaitPollInv ==
    ASSUME IInv, NEW j \in Jobs, WaitPoll(j)
    PROVE  IInv'
<1>1. /\ host.mode = "Waiting" /\ j \in host.left
      /\ other' = other /\ table' = table /\ faults' = faults
  BY DEF WaitPoll
<1>2. PICK p \in Polled(j, dom[j], proc[j]) :
        \/ /\ dom' = [dom EXCEPT ![j] =
                         [Concluded(p).rec EXCEPT !.diff = TRUE]]
           /\ Released(j) /\ host' = Idle
        \/ Becomes(j, p) /\ UNCHANGED host
  BY DEF WaitPoll
<1>3. /\ Active(dom[j]) /\ Left(j, p) /\ Active(p.rec)
      /\ Left(j, Concluded(p)) /\ ~Active(Concluded(p).rec)
  BY <1>1, WaitsFor
<1>4. CASE Becomes(j, p) /\ UNCHANGED host
  <2>1. OneJob(j, p.rec, p.proc, p.handle)
    BY <1>4 DEF Becomes, OneJob
  <2>2. SameActivity(j, p.rec, p.proc) /\ Fits(p.rec, p.proc, p.handle, Chunks[j])
    BY <1>3 DEF SameActivity, Left, Active
  <2> QED
    BY <1>1, <1>4, <2>1, <2>2, SameHost
<1>5. CASE /\ dom' = [dom EXCEPT ![j] =
                         [Concluded(p).rec EXCEPT !.diff = TRUE]]
           /\ Released(j) /\ host' = Idle
  <2> DEFINE c == Concluded(p).rec
             r == [c EXCEPT !.diff = TRUE]
  <2>1. c \in Record /\ Known(c) /\ ~Active(c) /\ c.text <= Chunks[j]
    BY <1>3 DEF Left, Fits
  <2> HIDE DEF c
  <2>2. r \in Record /\ r.status = c.status /\ r.text = c.text
    <3>1. TRUE \in BOOLEAN
      OBVIOUS
    <3> QED
      BY <2>1, <3>1 DEF Record
  <2>3. dom' = [dom EXCEPT ![j] = r]
    BY <1>5 DEF c
  <2> HIDE DEF r
  <2>4. /\ r \in Record /\ Known(r) /\ ~Active(r) /\ r.text <= Chunks[j]
        /\ Known(dom[j]) /\ Released(j) /\ host' = Idle
    BY <1>3, <1>5, <2>1, <2>2 DEF Known, Active, Terminal
  <2>5. /\ Fit' /\ Started' /\ HostInv' /\ Handles' /\ Budgeted'
        /\ host'.kind = host.kind
        /\ dom'[j] = r /\ \A i \in Jobs \ {j} : dom'[i] = dom[i]
        /\ \A i \in Jobs \ {j} : Handled(i) => Handled(i)'
    BY <1>1, <2>3, <2>4, WaitDrops
  <2>6. Slots'
    <3>1. Slots /\ host.mode # "Down"
      BY <1>1 DEF IInv
    <3> QED
      BY <1>1, <2>4, <2>5, <3>1, SlotsStep
  <2> QED
    BY <1>1, <2>5, <2>6 DEF IInv, FaultsInv
<1> QED
  BY <1>2, <1>4, <1>5

\* A wait fails, and its job's handle is dropped.
LEMMA WaitFailsInv ==
    ASSUME IInv, NEW j \in Jobs, NEW stored \in BOOLEAN, WaitFails(j, stored)
    PROVE  IInv'
<1>1. /\ host.mode = "Waiting" /\ j \in host.left
      /\ other' = other /\ table' = table
      /\ Fails /\ Released(j) /\ host' = Idle
  BY DEF WaitFails
<1>2. PICK p \in Polled(j, dom[j], proc[j]) :
        dom' = [dom EXCEPT ![j] = IF stored THEN Concluded(p).rec ELSE p.rec]
  BY DEF WaitFails
<1>3. /\ Active(dom[j]) /\ Left(j, p) /\ Left(j, Concluded(p))
  BY <1>1, WaitsFor
<1> DEFINE r == IF stored THEN Concluded(p).rec ELSE p.rec
<1>4. /\ r \in Record /\ r.text <= Chunks[j] /\ Known(r) /\ Known(dom[j])
      /\ dom' = [dom EXCEPT ![j] = r]
  BY <1>2, <1>3 DEF Left, Fits, Active
<1> HIDE DEF r
<1>5. Fit' /\ Started' /\ HostInv' /\ Handles' /\ Budgeted'
  BY <1>1, <1>4, WaitDrops
<1>6. FaultsInv' /\ Slots'
  BY <1>1, FailsStep DEF IInv
<1> QED
  BY <1>5, <1>6 DEF IInv

\* A wait is over before its job, which goes to the table.
LEMMA WaitExpiresInv ==
    ASSUME IInv, NEW j \in Jobs, WaitExpires(j)
    PROVE  IInv'
<1> DEFINE r == Signalled(dom[j], "kill")
           q == Killed(proc[j])
<1>1. /\ Fit /\ Started /\ HostInv /\ Slots /\ FaultsInv
      /\ host.mode = "Waiting" /\ j \in host.left
      /\ host' = Idle /\ table' = table \cup {j}
      /\ other' = other /\ faults' = faults
  BY DEF IInv, WaitExpires
<1>2. Active(dom[j])
  BY <1>1 DEF HostInv
<1>3. /\ r \in Record /\ r.status = "CancelRequested" /\ r.text = dom[j].text
      /\ q \in Process /\ q.chan = proc[j].chan
      /\ q.main = IF proc[j].main = "Alive" THEN "NonZero" ELSE proc[j].main
  BY <1>1, FitOf, SignalledType, KilledType
<1>4. OneJob(j, r, q, handle[j])
  BY <1>1, SameFunctions DEF WaitExpires, OneJob
<1> HIDE DEF r, q
<1>5. Fits(r, q, handle[j], Chunks[j])
  BY <1>1, <1>3, FitOf DEF Fits
<1>6. Starts(j, r, q)
  BY <1>2, <1>3 DEF Starts, Active
<1>7. Fit' /\ Started'
  BY <1>1, <1>4, <1>5, <1>6, OneJobFits
<1>8. /\ dom'[j] = r /\ proc'[j] = q
      /\ \A i \in Jobs \ {j} : dom'[i] = dom[i] /\ proc'[i] = proc[i]
  BY <1>1, <1>4, OneJobValues
<1>9. Alive' \subseteq Alive
  BY <1>3, <1>8 DEF Alive
<1>10. /\ HostInv' /\ host'.kind = host.kind
       /\ \A i \in Jobs : Handled(i) => Handled(i)'
  BY <1>1, WaitEnds
<1>11. Handles' /\ Budgeted'
  BY <1>9, <1>10, FewerAlive DEF IInv, Handles, Alive
<1>12. Slots'
  <2>1. \A i \in Jobs : Active(dom'[i]) => Active(dom[i])
    BY <1>2, <1>8
  <2>2. host.mode # "Down"
    BY <1>1
  <2> QED
    BY <1>1, <1>10, <2>1, <2>2, SlotsStep
<1> QED
  BY <1>1, <1>7, <1>10, <1>11, <1>12 DEF IInv, FaultsInv

-----------------------------------------------------------------------------
(* Branches and the life of the host. *)

\* The records are those of an earlier offset.
LEMMA ForkInv ==
    ASSUME IInv, Fork
    PROVE  IInv'
<1>1. /\ Fit /\ Started /\ HostInv /\ FaultsInv /\ Handles
      /\ host.mode = "Idle" /\ other # None /\ dom' = other /\ other' = None
      /\ Counted("forks")
      /\ proc' = proc /\ table' = table /\ host' = host
  BY DEF IInv, Fork
<1>2. handle' = [j \in Jobs |->
                   [handle[j] EXCEPT !.grace = @ /\ other[j].cancel]]
  BY DEF Fork
<1>3. ASSUME NEW j \in Jobs
      PROVE  /\ handle'[j] \in Handle /\ handle'[j].got = handle[j].got
             /\ handle'[j].journaled = handle[j].journaled
  <2> DEFINE grace == handle[j].grace /\ other[j].cancel
             h == [handle[j] EXCEPT !.grace = grace]
  <2>1. handle[j] \in Handle /\ grace \in BOOLEAN
    BY <1>1, FitOf
  <2>2. handle'[j] = h
    BY <1>2
  <2> HIDE DEF grace
  <2>3. h \in Handle /\ h.got = handle[j].got
        /\ h.journaled = handle[j].journaled
    BY <2>1 DEF Handle
  <2> HIDE DEF h
  <2> QED
    BY <2>2, <2>3
<1>4. handle' \in [Jobs -> Handle]
  <2>1. /\ DOMAIN handle' = Jobs
        /\ handle' = [j \in Jobs |-> handle'[j]]
    BY <1>2
  <2> QED
    BY <1>3, <2>1
<1>5. \A j \in Jobs : Fits(dom'[j], proc'[j], handle'[j], Chunks[j])
  BY <1>1, <1>3 DEF Fit, Fits
<1>6. Fit'
  BY <1>1, <1>4, <1>5 DEF Fit
<1>7. Started'
  BY <1>1 DEF Started
<1>8. HostInv'
  BY <1>1 DEF HostInv
<1>9. Alive' = Alive /\ \A j \in Jobs : Handled(j) => Handled(j)'
  BY <1>1 DEF Alive, Handled
<1>10. Handles' /\ Budgeted'
  BY <1>9 DEF IInv, Handles, Budgeted, Alive
<1>11. FaultsInv' /\ faults'["forks"] # 0
  BY <1>1, CountedStep
<1>12. Slots'
  <2>1. faults'.forks # 0
    BY <1>11
  <2> QED
    BY <2>1 DEF Slots
<1> QED
  BY <1>6, <1>7, <1>8, <1>10, <1>11, <1>12 DEF IInv

\* A shutdown kills the jobs of the table.
LEMMA BeginShutdownInv ==
    ASSUME IInv, BeginShutdown
    PROVE  IInv'
<1>1. /\ Fit /\ Started /\ HostInv /\ FaultsInv /\ Slots
      /\ host.mode = "Idle"
      /\ other' = other /\ handle' = handle /\ table' = table
      /\ faults' = faults
  BY DEF IInv, BeginShutdown
<1>2. PICK killed \in SUBSET {j \in table : Active(dom[j])} :
        /\ dom' = [j \in Jobs |-> IF j \in killed THEN Signalled(dom[j], "kill")
                                  ELSE dom[j]]
        /\ proc' = [j \in Jobs |-> IF j \in killed THEN Killed(proc[j])
                                   ELSE proc[j]]
        /\ host' = IF killed = table THEN Then("Shutdown", table)
                   ELSE Mode("Exit", "Idle", {}, {})
  BY DEF BeginShutdown
<1>3. ASSUME NEW j \in Jobs
      PROVE  /\ Fits(dom'[j], proc'[j], handle'[j], Chunks[j])
             /\ Active(dom'[j]) <=> Active(dom[j])
             /\ Known(dom'[j]) <=> Known(dom[j])
             /\ \/ proc'[j].main = proc[j].main
                \/ proc[j].main = "Alive" /\ proc'[j].main = "NonZero"
  <2>1. CASE j \in killed
    <3> DEFINE r == Signalled(dom[j], "kill")
               q == Killed(proc[j])
    <3>1. dom'[j] = r /\ proc'[j] = q /\ Active(dom[j])
      BY <1>2, <2>1
    <3>2. /\ r \in Record /\ r.status = "CancelRequested"
          /\ r.text = dom[j].text
          /\ q \in Process /\ q.chan = proc[j].chan
          /\ q.main = IF proc[j].main = "Alive" THEN "NonZero"
                      ELSE proc[j].main
      BY <1>1, FitOf, SignalledType, KilledType
    <3> HIDE DEF r, q
    <3>3. Fits(r, q, handle[j], Chunks[j])
      BY <1>1, <3>2, FitOf DEF Fits
    <3> QED
      BY <1>1, <3>1, <3>2, <3>3 DEF Active, Known, Terminal, Terminals
  <2>2. CASE j \notin killed
    BY <1>1, <1>2, <2>2, FitOf
  <2> QED
    BY <2>1, <2>2
<1>4. dom' \in [Jobs -> Record] /\ proc' \in [Jobs -> Process]
  BY <1>2, <1>3 DEF Fits
<1>5. Fit'
  BY <1>1, <1>3, <1>4 DEF Fit
<1>6. Started'
  BY <1>1, <1>3 DEF Started
<1>7. /\ host' \in Host /\ host'.kind = host.kind
      /\ \/ host'.mode \in {"Idle", "Tool", "Exit"} /\ table = {}
         \/ host'.mode = "Exit"
         \/ /\ host'.mode = "Polling"
            /\ host'.left = table /\ host'.done = {}
  <2>1. CASE killed = table
    <3>1. host' = Then("Shutdown", table)
      BY <1>2, <2>1
    <3>2. Then("Shutdown", table) = IF table = {}
                                    THEN Mode("Exit", "Idle", {}, {})
                                    ELSE Mode("Polling", "Shutdown", table, {})
      BY DEF Then
    <3> QED
      BY <1>1, <3>1, <3>2, ModeType, HostOf
  <2>2. CASE killed # table
    <3>1. host' = Mode("Exit", "Idle", {}, {})
      BY <1>2, <2>2
    <3> QED
      BY <1>1, <3>1, ModeType, HostOf
  <2> QED
    BY <2>1, <2>2
<1>8. HostInv'
  BY <1>1, <1>7 DEF HostInv
<1>9. \A i \in Jobs : Handled(i) => Handled(i)'
  BY <1>1 DEF Handled
<1>10. Alive' \subseteq Alive
  BY <1>3 DEF Alive
<1>11. Handles' /\ Budgeted'
  BY <1>9, <1>10, FewerAlive DEF IInv, Handles, Alive
<1>12. Slots'
  BY <1>1, <1>3, <1>7, <1>9, SlotsStep
<1> QED
  BY <1>1, <1>5, <1>6, <1>8, <1>11, <1>12 DEF IInv, FaultsInv

\* A host without active records leaves.
LEMMA DetachInv ==
    ASSUME IInv, Detach
    PROVE  IInv'
<1>1. /\ HostInv /\ table' = table /\ host.mode = "Idle"
      /\ host' = Mode("Exit", "Idle", {}, {})
  BY DEF IInv, Detach
<1>2. host' \in Host /\ host'.kind = host.kind /\ host'.mode = "Exit"
  BY <1>1, ModeType, HostOf
<1>3. HostInv'
  BY <1>1, <1>2 DEF HostInv
<1> QED
  BY <1>1, <1>2, <1>3, OnlyHost DEF Detach

\* The host is down: nothing runs.
LEMMA DiesInv ==
    ASSUME IInv, Dies
    PROVE  IInv'
<1>1. /\ Fit /\ Started /\ HostInv /\ FaultsInv
      /\ dom' = dom /\ other' = other /\ faults' = faults /\ table' = {}
      /\ host' = Mode("Down", "Idle", {}, {})
      /\ handle' = [j \in Jobs |-> Fresh]
      /\ proc' = [j \in Jobs |-> IF proc[j].main = "New" THEN proc[j]
                                 ELSE Gone(proc[j])]
  BY DEF IInv, Dies
<1>2. Fresh \in Handle /\ Fresh.got = 0 /\ Fresh.journaled = 0
  BY DEF Fresh, Handle
<1>3. ASSUME NEW j \in Jobs
      PROVE  /\ Fits(dom'[j], proc'[j], handle'[j], Chunks[j])
             /\ proc'[j].main # "Alive"
             /\ proc'[j].main = "New" => proc[j].main = "New"
  <2>1. handle'[j] = Fresh /\ dom'[j] = dom[j]
    BY <1>1
  <2>2. /\ Chunks[j] \in Nat /\ dom[j] \in Record /\ dom[j].text <= Chunks[j]
        /\ proc[j] \in Process /\ Len(proc[j].chan) \in Nat
        /\ handle[j].got + Len(proc[j].chan) <= Chunks[j]
        /\ handle[j].got \in Nat
    BY <1>1, FitOf DEF Fits
  <2>3. CASE proc[j].main = "New"
    <3>1. proc'[j] = proc[j]
      BY <1>1, <2>3
    <3>2. Fresh.got + Len(proc[j].chan) <= Chunks[j]
      BY <1>2, <2>2
    <3>3. Fits(dom[j], proc[j], Fresh, Chunks[j])
      BY <1>2, <2>2, <3>2 DEF Fits
    <3> QED
      BY <2>1, <2>3, <3>1, <3>3
  <2>4. CASE proc[j].main # "New"
    <3>1. proc'[j] = Gone(proc[j])
      BY <1>1, <2>4
    <3> QED
      BY <2>1, <2>2, <2>4, <3>1, GoneFits
  <2> QED
    BY <2>3, <2>4
<1>4. dom' \in [Jobs -> Record] /\ proc' \in [Jobs -> Process]
      /\ handle' \in [Jobs -> Handle]
  BY <1>1, <1>2, <1>3 DEF Fits, Fit
<1>5. Fit'
  BY <1>1, <1>3, <1>4 DEF Fit
<1>6. Started'
  BY <1>1, <1>3 DEF Started
<1>7. host' \in Host /\ host'.mode = "Down"
  BY <1>1, ModeType, HostOf
<1>8. HostInv'
  BY <1>1, <1>7 DEF HostInv
<1>9. Alive' = {}
  BY <1>3 DEF Alive
<1>10. Handles' /\ Budgeted'
  BY <1>9, FewerAlive DEF IInv, Handles
<1>11. Slots' /\ FaultsInv'
  BY <1>1, <1>7 DEF Slots, FaultsInv
<1> QED
  BY <1>5, <1>6, <1>8, <1>10, <1>11 DEF IInv

\* A session is opened again: the worker ends what the table no longer holds.
LEMMA RestartInv ==
    ASSUME IInv, NEW kind \in {"worker", "server"}, Restart(kind)
    PROVE  IInv'
<1>1. /\ Fit /\ Started /\ HostInv /\ FaultsInv
      /\ host.mode = "Down" /\ Counted("restarts")
      /\ host' = [host EXCEPT !.kind = kind, !.mode = "Idle"]
      /\ dom' = Reconciled(kind)
      /\ other' = other /\ proc' = proc /\ handle' = handle /\ table' = table
  BY DEF IInv, Restart
<1>2. ASSUME NEW j \in Jobs
      PROVE  /\ Fits(dom'[j], proc[j], handle[j], Chunks[j])
             /\ Known(dom'[j]) <=> Known(dom[j])
             /\ kind = "worker" => ~Active(dom'[j])
  <2> DEFINE c == [dom[j] EXCEPT !.status = "Cancelled"]
  <2>1. Fits(dom[j], proc[j], handle[j], Chunks[j]) /\ dom[j] \in Record
    BY <1>1, FitOf
  <2>2. c \in Record /\ c.status = "Cancelled" /\ c.text = dom[j].text
    BY <2>1 DEF Record, Terminals
  <2>3. \/ kind = "server" /\ dom'[j] = dom[j]
        \/ kind = "worker" /\ ~Active(dom[j]) /\ dom'[j] = dom[j]
        \/ kind = "worker" /\ Active(dom[j]) /\ dom'[j] = c
    BY <1>1 DEF Reconciled
  <2> HIDE DEF c
  <2>4. Fits(c, proc[j], handle[j], Chunks[j])
    BY <2>1, <2>2 DEF Fits
  <2> QED
    BY <2>1, <2>2, <2>3, <2>4 DEF Active, Known, Terminal, Terminals
<1>3. dom' \in [Jobs -> Record]
  <2>1. dom' = [j \in Jobs |-> dom'[j]]
    BY <1>1 DEF Reconciled, Fit
  <2> QED
    BY <1>2, <2>1 DEF Fits
<1>4. Fit'
  BY <1>1, <1>2, <1>3 DEF Fit
<1>5. Started'
  BY <1>1, <1>2 DEF Started
<1>6. host' \in Host /\ host'.mode = "Idle" /\ host'.kind = kind
  BY <1>1 DEF HostInv, Host
<1>7. HostInv'
  BY <1>1, <1>6 DEF HostInv
<1>8. Alive' = Alive /\ \A i \in Jobs : Handled(i) => Handled(i)'
  BY <1>1 DEF Alive, Handled
<1>9. Handles' /\ Budgeted'
  BY <1>8 DEF IInv, Handles, Budgeted, Alive
<1>10. FaultsInv' /\ faults'["restarts"] # 0
  BY <1>1, CountedStep
<1>11. Slots'
  <2>1. faults'.restarts # 0
    BY <1>10
  <2> QED
    BY <1>2, <1>6, <2>1 DEF Slots
<1> QED
  BY <1>4, <1>5, <1>7, <1>9, <1>10, <1>11 DEF IInv

-----------------------------------------------------------------------------
(* The theorems. *)

\* Every step keeps the invariant.
LEMMA NextInv == IInv /\ [Next]_vars => IInv'
<1> SUFFICES ASSUME IInv, [Next]_vars
             PROVE  IInv'
  OBVIOUS
<1>1. CASE UNCHANGED vars
  <2>1. UNCHANGED <<dom, other, proc, handle, table, host, faults>>
    BY <1>1 DEF vars
  <2>2. Fit' /\ Started' /\ HostInv' /\ FaultsInv'
    BY <2>1 DEF IInv, Fit, Fits, Started, HostInv, FaultsInv
  <2>3. Alive' = Alive /\ \A j \in Jobs : Handled(j)' <=> Handled(j)
    BY <2>1 DEF Alive, Handled
  <2>4. Handles' /\ Budgeted' /\ Slots'
    BY <2>1, <2>3 DEF IInv, Handles, Budgeted, Slots, Alive
  <2> QED
    BY <2>2, <2>4 DEF IInv
<1>2. CASE HostWork
  <2>1. CASE BeginPoll("Idle")
    BY <2>1, BeginPollInv
  <2>2. ASSUME NEW j \in Jobs, Poll(j)
        PROVE  IInv'
    BY <2>2, PollThroughInv, PollActiveInv, PollFailsInv, SettleInv,
       SettleFailsInv DEF Poll
  <2>3. ASSUME NEW j \in Jobs, Wait(j)
        PROVE  IInv'
    BY <2>3, WaitPollInv, WaitFailsInv, WaitExpiresInv DEF Wait
  <2>4. ASSUME NEW j \in Jobs,
               SpawnFails(j) \/ (\E async \in BOOLEAN : Spawn(j, async))
        PROVE  IInv'
    BY <2>4, SpawnFailsInv, SpawnInv
  <2>5. CASE ToolEnds
    BY <2>5, ToolEndsInv
  <2>6. CASE Leave
    BY <2>6, DiesInv DEF Leave
  <2> QED
    BY <1>2, <2>1, <2>2, <2>3, <2>4, <2>5, <2>6 DEF HostWork
<1>3. CASE UserStep
  <2>1. Reached \subseteq Jobs
    BY JobsAssumption
  <2> QED
    BY <1>3, <2>1, CancelInv, RequestInv, BookmarkInv, ForkInv, BeginPollInv,
       BeginShutdownInv, DetachInv DEF UserStep
<1>4. CASE Crash
  BY <1>4, DiesInv DEF Crash
<1>5. CASE \E kind \in {"worker", "server"} : Restart(kind)
  BY <1>5, RestartInv
<1>6. CASE \E j \in Jobs : ProcessStep(j) \/ WallPasses(j) \/ GracePasses(j)
  BY <1>6, WriteInv, ExitInv, HangupInv, PassesInv DEF ProcessStep
<1> QED
  BY <1>1, <1>2, <1>3, <1>4, <1>5, <1>6 DEF Next

\* No state of Spec is outside of it.
LEMMA InvAlways == Spec => []IInv
BY InitInv, NextInv, PTL DEF Spec

\* For any number of jobs, any budget and any output: no more processes run than
\* job_max_concurrency allows, and while no fork and no failure came between,
\* each active record has a handle.
THEOREM NoSlotLost == Spec => []SlotsKept
BY InvAlways, InvImpliesSlots, PTL

\* The records that are terminal stay what they are.
Stay ==
    \A j \in Jobs : Terminal(dom[j]) =>
        dom'[j].status = dom[j].status /\ dom'[j].reason = dom[j].reason

\* A record that is not terminal changes, or none does.
LEMMA OthersStay ==
    ASSUME Fit, NEW j \in Jobs, NEW r, dom' = [dom EXCEPT ![j] = r],
           \/ ~Terminal(dom[j])
           \/ r.status = dom[j].status /\ r.reason = dom[j].reason
    PROVE  Stay
BY DEF Fit, Stay

\* An active record is not terminal, and neither is one that does not exist.
LEMMA ActiveIsNotOver ==
    ASSUME NEW r, Active(r) \/ ~Known(r)
    PROVE  ~Terminal(r)
BY DEF Active, Known, Terminal, Terminals

\* The host's work concludes active records only.
LEMMA WorkStays ==
    ASSUME IInv, HostWork
    PROVE  Stay
<1>1. Fit /\ Started /\ HostInv
  BY DEF IInv
<1>2. CASE dom' = dom
  BY <1>2 DEF Stay
<1>3. ASSUME NEW j \in Jobs, PollActive(j) \/ PollFails(j)
      PROVE  Stay
  <2>1. Active(dom[j]) /\ \E r : dom' = [dom EXCEPT ![j] = r]
    BY <1>3 DEF PollActive, PollFails, Becomes
  <2> QED
    BY <1>1, <2>1, OthersStay, ActiveIsNotOver
<1>4. ASSUME NEW j \in Jobs, Settle(j)
      PROVE  Stay
  <2> DEFINE r == [dom[j] EXCEPT !.diff = TRUE]
  <2>1. dom' = dom \/ dom' = [dom EXCEPT ![j] = r]
    BY <1>4 DEF Settle
  <2>2. r.status = dom[j].status /\ r.reason = dom[j].reason
    <3>1. dom[j] \in Record
      BY <1>1, FitOf
    <3> QED
      BY <3>1 DEF Record
  <2> HIDE DEF r
  <2> QED
    BY <1>1, <1>2, <2>1, <2>2, OthersStay
<1>5. ASSUME NEW j \in Jobs,
             WaitPoll(j) \/ WaitExpires(j)
               \/ \E stored \in BOOLEAN : WaitFails(j, stored)
      PROVE  Stay
  <2>1. host.mode = "Waiting" /\ j \in host.left
    BY <1>5 DEF WaitPoll, WaitExpires, WaitFails
  <2>2. Active(dom[j])
    BY <1>1, <2>1 DEF HostInv
  <2>3. \E r : dom' = [dom EXCEPT ![j] = r]
    <3>1. CASE WaitPoll(j)
      BY <3>1 DEF WaitPoll, Becomes
    <3>2. CASE WaitExpires(j)
      BY <3>2 DEF WaitExpires
    <3>3. CASE \E stored \in BOOLEAN : WaitFails(j, stored)
      BY <3>3 DEF WaitFails
    <3> QED
      BY <1>5, <3>1, <3>2, <3>3
  <2> QED
    BY <1>1, <2>2, <2>3, OthersStay, ActiveIsNotOver
<1>6. ASSUME NEW j \in Jobs,
             SpawnFails(j) \/ (\E async \in BOOLEAN : Spawn(j, async))
      PROVE  Stay
  <2>1. proc[j].main = "New" /\ \E r : dom' = [dom EXCEPT ![j] = r]
    BY <1>6 DEF SpawnFails, Spawn, Minted
  <2>2. ~Known(dom[j])
    BY <1>1, <2>1 DEF Started
  <2> QED
    BY <1>1, <2>1, <2>2, OthersStay, ActiveIsNotOver
<1>7. \/ dom' = dom
      \/ \E j \in Jobs :
           \/ PollActive(j) \/ PollFails(j) \/ Settle(j)
           \/ WaitPoll(j) \/ WaitExpires(j)
           \/ \E stored \in BOOLEAN : WaitFails(j, stored)
           \/ SpawnFails(j) \/ (\E async \in BOOLEAN : Spawn(j, async))
  BY DEF HostWork, Poll, Wait, BeginPoll, PollThrough, SettleFails, ToolEnds,
         Leave, Dies
<1> QED
  BY <1>2, <1>3, <1>4, <1>5, <1>6, <1>7

\* Users signal active records only.
LEMMA UsersStay ==
    ASSUME IInv, UserStep, faults'.forks = faults.forks
    PROVE  Stay
<1>1. Fit /\ FaultsInv /\ Reached \subseteq Jobs
  BY JobsAssumption DEF IInv
<1>2. ASSUME NEW j \in Jobs, 
             Cancel(j) \/ \E signal \in {"stop", "kill"} :
                              RequestSignal(j, signal)
      PROVE  Stay
  <2>1. Active(dom[j]) /\ \E r : dom' = [dom EXCEPT ![j] = r]
    BY <1>2 DEF Cancel, RequestSignal
  <2> QED
    BY <1>1, <2>1, OthersStay, ActiveIsNotOver
<1>3. CASE Fork
  <2>1. faults' = [faults EXCEPT !["forks"] = @ + 1]
    BY <1>3 DEF Fork, Counted
  <2>2. faults'.forks = faults.forks + 1 /\ faults.forks \in Nat
    BY <1>1, <2>1 DEF FaultsInv
  <2> QED
    BY <2>2
<1>4. CASE BeginShutdown
  <2>1. PICK killed \in SUBSET {j \in table : Active(dom[j])} :
          dom' = [j \in Jobs |-> IF j \in killed THEN Signalled(dom[j], "kill")
                                 ELSE dom[j]]
    BY <1>4 DEF BeginShutdown
  <2>2. \A j \in killed : ~Terminal(dom[j])
    BY ActiveIsNotOver
  <2> QED
    BY <2>1, <2>2 DEF Stay
<1>5. CASE dom' = dom
  BY <1>5 DEF Stay
<1>6. \/ dom' = dom \/ Fork \/ BeginShutdown
      \/ \E j \in Reached :
           Cancel(j) \/ \E signal \in {"stop", "kill"} : RequestSignal(j, signal)
  BY DEF UserStep, Bookmark, BeginPoll, Detach
<1> QED
  BY <1>1, <1>2, <1>3, <1>4, <1>5, <1>6

\* reconcile_orphans touches active records only.
LEMMA RestartStays ==
    ASSUME IInv, NEW kind \in {"worker", "server"}, Restart(kind)
    PROVE  Stay
<1>1. dom' = Reconciled(kind)
  BY DEF Restart
<1>2. \A j \in Jobs : Active(dom[j]) \/ dom'[j] = dom[j]
  BY <1>1 DEF Reconciled, IInv, Fit
<1> QED
  BY <1>2, ActiveIsNotOver DEF Stay

\* For any number of jobs, and whatever comes between: what a terminal record
\* says of the end, no step but a fork changes.
THEOREM TerminalStays == Spec => TerminalSticks
<1>1. IInv /\ [Next]_vars =>
        (faults'.forks = faults.forks => Stay)
  <2> SUFFICES ASSUME IInv, [Next]_vars, faults'.forks = faults.forks
               PROVE  Stay
    OBVIOUS
  <2>1. CASE dom' = dom
    BY <2>1 DEF Stay
  <2>2. \/ HostWork \/ UserStep
        \/ \E kind \in {"worker", "server"} : Restart(kind)
        \/ dom' = dom
    BY DEF Next, vars, Crash, Dies, ProcessStep, Write, Exit, Hangup,
           WallPasses, GracePasses
  <2> QED
    BY <2>1, <2>2, WorkStays, UsersStay, RestartStays
<1>2. (faults'.forks = faults.forks => Stay) <=>
        (faults'.forks = faults.forks =>
          \A j \in Jobs : Terminal(dom[j]) =>
              /\ dom'[j].status = dom[j].status
              /\ dom'[j].reason = dom[j].reason)
  BY DEF Stay
<1> QED
  BY <1>1, <1>2, InvAlways, PTL DEF Spec, TerminalSticks
=============================================================================
