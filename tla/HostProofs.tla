--------------------------- MODULE HostProofs ---------------------------
(***************************************************************************)
(* Proofs about the session host.  Turns: what the snapshot shows as       *)
(* running has an owner, and a forced tool binds, for every stack of       *)
(* Directors and any number of tools, children, calls and turns.           *)
(* Compaction: nothing is lost, and a planned request fits, for every      *)
(* transcript, window and budget.  Console: a script is applied whole or   *)
(* not at all, an endpoint has one name, and a turn asks what the session  *)
(* says, for any scripts, catalogs and registry.                           *)
(***************************************************************************)
EXTENDS Turns, Compaction, Console, PickingProofs, SequenceTheorems,
        FiniteSetTheorems, TLAPS

-----------------------------------------------------------------------------
(* What Directors answer. *)

\* The ForceTool f is the Director d, after the attempts that followed.
Holds(f, d) ==
    /\ d.kind = "ForceTool"
    /\ d.id = f.id /\ d.tool = f.tool
    /\ d.attempts >= f.attempts

\* The ForceTool g gave up, as it was told to.
GaveUp(g) == g.kind = "ForceTool" /\ g.onfail = "Yield" /\ g.attempts >= g.max

\* The answer y of the Director d.
AnswerOf(d, seen, y) ==
    /\ y.director \in Director /\ y.director.id = d.id
    /\ d.kind = "ForceTool" /\ d.tool \notin seen =>
         y.says \notin {"Done", "Pass"} /\ Holds(d, y.director)
    /\ y.says = "Yield" => GaveUp(y.director)
    /\ y.says \in {"Done", "Pass", "Continue", "Fail", "Yield"}

\* A forced tool that was not called keeps its Director, and ends the walk.
LEMMA ForceAnswers ==
    ASSUME NEW d \in ForceTool, NEW seen
    PROVE  AnswerOf(d, seen, ForceYield(d, seen))
<1> DEFINE more == [d EXCEPT !.attempts = d.attempts + 1]
           says == CASE more.attempts < d.max -> "Continue"
                     [] more.attempts >= d.max /\ d.onfail = "Fail" -> "Fail"
                     [] OTHER -> "Yield"
           y == ForceYield(d, seen)
<1>1. /\ d.attempts \in Nat /\ d.max \in Nat /\ d.onfail \in {"Fail", "Yield"}
      /\ d.kind = "ForceTool"
  BY DEF ForceTool
<1>2. /\ more \in ForceTool /\ more.id = d.id /\ more.tool = d.tool
      /\ more.kind = "ForceTool" /\ more.onfail = d.onfail
      /\ more.max = d.max /\ more.attempts = d.attempts + 1
  BY DEF ForceTool
<1>3. y = IF d.tool \in seen THEN [says |-> "Done", director |-> d]
          ELSE [says |-> says, director |-> more]
  BY DEF ForceYield
<1> HIDE DEF more, y
<1>4. CASE d.tool \in seen
  BY <1>1, <1>3, <1>4 DEF AnswerOf, Director, y
<1>5. CASE d.tool \notin seen
  <2>1. y.says = says /\ y.director = more
    BY <1>3, <1>5
  <2>2. says \in {"Continue", "Fail", "Yield"}
    OBVIOUS
  <2>3. says = "Yield" => d.onfail = "Yield" /\ more.attempts >= d.max
    BY <1>1, <1>2
  <2> HIDE DEF says
  <2>4. Holds(d, more)
    BY <1>1, <1>2 DEF Holds
  <2>5. says = "Yield" => GaveUp(more)
    BY <1>2, <2>3 DEF GaveUp
  <2> QED
    BY <1>2, <2>1, <2>2, <2>4, <2>5 DEF AnswerOf, Director, y
<1> QED
  BY <1>4, <1>5

\* The other Directors never give up.
LEMMA TodoAnswers ==
    ASSUME NEW d \in TodoReminder, NEW seen, dom.todo \in BOOLEAN
    PROVE  AnswerOf(d, seen, TodoYield(d))
<1> DEFINE todos == d.todos \/ dom.todo
           kept == [d EXCEPT !.todos = todos]
           next == [kept EXCEPT !.reminded = TRUE]
           y == TodoYield(d)
<1>1. todos \in BOOLEAN /\ d.kind = "TodoReminder" /\ TRUE \in BOOLEAN
  BY DEF TodoReminder
<1> HIDE DEF todos
<1>2. kept \in TodoReminder /\ kept.id = d.id
  BY <1>1 DEF TodoReminder
<1> HIDE DEF kept
<1>3. next \in TodoReminder /\ next.id = d.id
  BY <1>1, <1>2 DEF TodoReminder
<1>4. y = IF ~kept.todos THEN [says |-> "Done", director |-> kept]
          ELSE [says |-> IF d.reminded THEN "Pass" ELSE "Continue",
                director |-> next]
  BY DEF TodoYield, kept, todos
<1> HIDE DEF next, y
<1>5. /\ y.says \in {"Done", "Pass", "Continue"}
      /\ y.director \in TodoReminder /\ y.director.id = d.id
  BY <1>2, <1>3, <1>4
<1> QED
  BY <1>1, <1>5 DEF AnswerOf, Director, y

\* PlanMode passes or goes on, and never ends well by itself.
LEMMA PlanAnswers ==
    ASSUME NEW d \in PlanMode, NEW seen, NEW answer \in BOOLEAN
    PROVE  AnswerOf(d, seen, PlanYield(d, seen, answer))
<1> DEFINE inspected == d.inspected \/ seen \cap PlanTools # {}
           answered == d.answered \/ answer
           now == [d EXCEPT !.inspected = inspected, !.answered = answered]
           y == PlanYield(d, seen, answer)
<1>1. inspected \in BOOLEAN /\ answered \in BOOLEAN /\ d.kind = "PlanMode"
  BY DEF PlanMode
<1>2. y = [says |-> IF now.inspected /\ now.answered THEN "Pass"
                    ELSE "Continue",
           director |-> now]
  BY DEF PlanYield
<1> HIDE DEF inspected, answered
<1>3. now \in PlanMode /\ now.id = d.id
  BY <1>1 DEF PlanMode
<1> HIDE DEF now, y
<1>4. /\ y.says \in {"Pass", "Continue"}
      /\ y.director \in PlanMode /\ y.director.id = d.id
  BY <1>2, <1>3
<1> QED
  BY <1>1, <1>4 DEF AnswerOf, Director, y

\* Every Director answers so.
LEMMA OnYieldAnswers ==
    ASSUME NEW d \in Director, NEW seen, NEW answer \in BOOLEAN,
           dom.todo \in BOOLEAN
    PROVE  AnswerOf(d, seen, OnYield(d, seen, answer))
<1>1. CASE d \in ForceTool
  <2>1. d.kind = "ForceTool"
    BY <1>1 DEF ForceTool
  <2> QED
    BY <1>1, <2>1, ForceAnswers DEF OnYield
<1>2. CASE d \in TodoReminder
  <2>1. d.kind = "TodoReminder"
    BY <1>2 DEF TodoReminder
  <2> QED
    BY <1>2, <2>1, TodoAnswers DEF OnYield
<1>3. CASE d \in PlanMode
  <2>1. d.kind = "PlanMode"
    BY <1>3 DEF PlanMode
  <2> QED
    BY <1>3, <2>1, PlanAnswers DEF OnYield
<1>4. CASE d \in GoalCompletion
  <2>1. d.kind = "GoalCompletion"
    BY <1>4 DEF GoalCompletion
  <2>2. OnYield(d, seen, answer) = GoalYield(d)
    BY <2>1 DEF OnYield
  <2> DEFINE y == GoalYield(d)
  <2>3. y.director = d /\ y.says \in {"Done", "Pass"}
    BY DEF GoalYield
  <2> HIDE DEF y
  <2> QED
    BY <2>1, <2>2, <2>3 DEF AnswerOf, y
<1> QED
  BY <1>1, <1>2, <1>3, <1>4 DEF Director

-----------------------------------------------------------------------------
(* The walk over the stack, and its trace in the journal. *)

\* `after' is what the walk makes of the Directors of s, and `kept' are the
\* positions that stay.
Walk(s, seen, after, kept) ==
    /\ after \in Seq(Director) /\ Len(after) = Len(s)
    /\ kept \subseteq DOMAIN s
    /\ \A p \in DOMAIN s :
         /\ after[p].id = s[p].id
         /\ s[p].kind = "ForceTool" /\ s[p].tool \notin seen =>
              p \in kept /\ Holds(s[p], after[p])

\* A walk that lets the model yield, past a ForceTool whose tool was not called,
\* met one further in that gave up.
LetsGo(s, seen, says, after, kept) ==
    says \notin {"Continue", "Fail"} =>
      \A p \in DOMAIN s :
        s[p].kind = "ForceTool" /\ s[p].tool \notin seen =>
          \E q \in kept : p <= q /\ GaveUp(after[q])

\* handle_yield is such a walk.
LEMMA WalkStep ==
    ASSUME stack \in Seq(Director), dom.todo \in BOOLEAN,
           NEW seen, NEW answer \in BOOLEAN
    PROVE  \E after, kept :
             /\ Walk(stack, seen, after, kept)
             /\ HandleYield(seen, answer).stack = Picked(after, kept)
             /\ LetsGo(stack, seen, HandleYield(seen, answer).says, after, kept)
<1> DEFINE n == Len(stack)
           answers == [i \in DOMAIN stack |-> OnYield(stack[i], seen, answer)]
           D == Deciders(answers)
           asked == Reached(answers)
           after == [i \in DOMAIN stack |->
                        IF i \in asked THEN answers[i].director ELSE stack[i]]
           popped == {i \in asked : answers[i].says = "Done"}
           kept == DOMAIN stack \ popped
           w == HandleYield(seen, answer)
<1>1. n \in Nat /\ DOMAIN stack = 1 .. n /\ \A i \in 1 .. n : stack[i] \in Director
  BY LenProperties
<1>2. \A i \in 1 .. n : AnswerOf(stack[i], seen, answers[i])
  BY <1>1, OnYieldAnswers
<1>3. /\ w.stack = Picked(after, kept)
      /\ w.says = IF D = {} THEN "Yield"
                  ELSE answers[CHOOSE i \in D : i \in asked].says
  BY DEF HandleYield
<1>4. DOMAIN answers = 1 .. n
  BY <1>1
<1> HIDE DEF answers, w
<1>5. D = {i \in 1 .. n : answers[i].says \notin {"Pass", "Done"}}
  BY <1>4 DEF Deciders
<1>6. asked = {i \in 1 .. n : \A j \in D : j <= i}
  BY <1>4 DEF Reached
<1> HIDE DEF D, asked
<1>7. \A i \in 1 .. n :
        after[i] = IF i \in asked THEN answers[i].director ELSE stack[i]
  BY <1>1
<1>8. \A i \in 1 .. n : i \in kept <=> ~(i \in asked /\ answers[i].says = "Done")
  BY <1>1
<1>9. after \in Seq(Director) /\ Len(after) = n
  <2>1. after \in [1 .. n -> Director]
    BY <1>1, <1>2, <1>6 DEF AnswerOf
  <2> HIDE DEF after
  <2> QED
    BY <1>1, <2>1
<1> HIDE DEF after
<1>10. kept \subseteq DOMAIN stack
  OBVIOUS
<1> HIDE DEF kept, n
<1>11. ASSUME NEW p \in DOMAIN stack
       PROVE  /\ after[p].id = stack[p].id
              /\ stack[p].kind = "ForceTool" /\ stack[p].tool \notin seen =>
                   p \in D /\ p \in kept /\ Holds(stack[p], after[p])
  <2>1. p \in 1 .. n /\ AnswerOf(stack[p], seen, answers[p]) /\ stack[p] \in Director
    BY <1>1, <1>2
  <2>2. after[p].id = stack[p].id
    BY <1>7, <2>1 DEF AnswerOf
  <2>3. ASSUME stack[p].kind = "ForceTool", stack[p].tool \notin seen
        PROVE  p \in D /\ p \in kept /\ Holds(stack[p], after[p])
    <3>1. answers[p].says \notin {"Pass", "Done"}
          /\ Holds(stack[p], answers[p].director)
      BY <2>1, <2>3 DEF AnswerOf
    <3>2. Holds(stack[p], stack[p])
      <4>1. stack[p].attempts \in Nat
        BY <2>1, <2>3 DEF Director, ForceTool, TodoReminder, PlanMode,
                          GoalCompletion
      <4> QED
        BY <2>3, <4>1 DEF Holds
    <3> QED
      BY <1>5, <1>7, <1>8, <2>1, <3>1, <3>2
  <2> QED
    BY <2>2, <2>3
<1>12. Walk(stack, seen, after, kept)
  BY <1>1, <1>9, <1>10, <1>11 DEF Walk, n
<1>13. LetsGo(stack, seen, w.says, after, kept)
  <2> SUFFICES ASSUME w.says \notin {"Continue", "Fail"},
                      NEW p \in DOMAIN stack,
                      stack[p].kind = "ForceTool", stack[p].tool \notin seen
               PROVE  \E q \in kept : p <= q /\ GaveUp(after[q])
    BY DEF LetsGo
  <2>1. p \in D
    BY <1>11
  <2>2. D \in SUBSET (1 .. n)
    BY <1>5
  <2>3. PICK m \in D : \A k \in D : k <= m
    BY <1>1, <2>1, <2>2, GreatestPosition
  <2>4. m \in asked /\ m \in 1 .. n
    BY <1>6, <2>2, <2>3
  <2> DEFINE q == CHOOSE i \in D : i \in asked
  <2>5. q \in D /\ q \in asked /\ q \in 1 .. n
    BY <2>2, <2>4
  <2>6. w.says = answers[q].says
    BY <1>3, <2>1
  <2> HIDE DEF q
  <2>7. answers[q].says = "Yield" /\ AnswerOf(stack[q], seen, answers[q])
    BY <1>2, <1>5, <2>5, <2>6 DEF AnswerOf
  <2>8. after[q] = answers[q].director /\ q \in kept
    BY <1>5, <1>7, <1>8, <2>5
  <2>9. GaveUp(after[q])
    BY <2>7, <2>8 DEF AnswerOf
  <2>10. p <= q
    BY <1>6, <2>1, <2>5
  <2> QED
    BY <2>8, <2>9, <2>10
<1> QED
  BY <1>3, <1>12, <1>13 DEF w

\* What a walk leaves has ids of its own.
LEMMA WalkDistinct ==
    ASSUME NEW s \in Seq(Director), Distinct(s), NEW seen, NEW after, NEW kept,
           Walk(s, seen, after, kept)
    PROVE  /\ Picked(after, kept) \in Seq(Director)
           /\ Distinct(Picked(after, kept))
           /\ OneByOne(after, kept, Len(s), Picked(after, kept))
           /\ DOMAIN after = DOMAIN s
<1> DEFINE n == Len(s)
           w == Picked(after, kept)
<1>1. /\ n \in Nat /\ DOMAIN s = 1 .. n /\ DOMAIN after = 1 .. n
      /\ after \in Seq(Director) /\ Len(after) = n
      /\ kept \in SUBSET (1 .. n)
  BY LenProperties DEF Walk
<1> HIDE DEF n, w
<1>2. w \in Seq(Director) /\ OneByOne(after, kept, n, w)
  BY <1>1, PickedInOrder DEF w
<1>3. DOMAIN w = 1 .. Len(w) /\ Len(w) \in Nat
  BY <1>2, LenProperties
<1>4. ASSUME NEW j \in DOMAIN w, NEW k \in DOMAIN w, j < k
      PROVE  w[j].id # w[k].id
  <2>1. PICK p \in kept, q \in kept :
          p < q /\ w[j] = after[p] /\ w[k] = after[q]
    BY <1>2, <1>4 DEF OneByOne
  <2>2. p # q /\ p \in DOMAIN s /\ q \in DOMAIN s
    BY <1>1, <2>1
  <2>3. after[p].id = s[p].id /\ after[q].id = s[q].id
    BY <2>2 DEF Walk
  <2> QED
    BY <2>1, <2>2, <2>3 DEF Distinct
<1>5. Distinct(w)
  <2> SUFFICES ASSUME NEW j \in DOMAIN w, NEW k \in DOMAIN w,
                      w[j].id = w[k].id
               PROVE  j = k
    BY DEF Distinct
  <2>1. ~(j < k) /\ ~(k < j)
    BY <1>4
  <2> QED
    BY <1>3, <2>1
<1> QED
  BY <1>1, <1>2, <1>5 DEF w, n

\* What was walked is what the snapshot had: then what is written to the
\* snapshot is what the walk left.
LEMMA SyncedStep ==
    ASSUME NEW s \in Seq(Director), Distinct(s), dom.directors = s,
           NEW seen, NEW after, NEW kept, Walk(s, seen, after, kept)
    PROVE  Synced(Picked(after, kept)) = Picked(after, kept)
<1> DEFINE n == Len(s)
           w == Picked(after, kept)
           Twins(d) == {e \in ToSet(w) : e.id = d.id}
           kept2 == {i \in DOMAIN s : Twins(s[i]) # {}}
           after2 == [i \in DOMAIN s |->
                         IF i \in kept2 THEN CHOOSE e \in Twins(s[i]) : TRUE
                         ELSE s[i]]
<1>1. /\ n \in Nat /\ DOMAIN s = 1 .. n /\ DOMAIN after = 1 .. n
      /\ after \in Seq(Director) /\ Len(after) = n
      /\ kept \in SUBSET (1 .. n)
      /\ \A i \in 1 .. n : after[i].id = s[i].id /\ after[i] \in Director
      /\ \A i \in 1 .. n : s[i] \in Director
  BY LenProperties DEF Walk
<1>2. w \in Seq(Director) /\ OneByOne(after, kept, n, w)
  BY WalkDistinct
<1>3. Synced(w) = Picked(after2, kept2)
  BY DEF Synced
<1> HIDE DEF n, w
<1>4. ToSet(w) = {after[p] : p \in kept}
  <2>1. ToSet(w) = {w[j] : j \in DOMAIN w}
    BY DEF ToSet
  <2>2. \A j \in DOMAIN w : \E p \in kept : w[j] = after[p]
    BY <1>2 DEF OneByOne
  <2>3. \A p \in kept : \E j \in DOMAIN w : w[j] = after[p]
    BY <1>1, <1>2 DEF OneByOne
  <2> QED
    BY <2>1, <2>2, <2>3
<1>5. ASSUME NEW i \in 1 .. n
      PROVE  Twins(s[i]) = IF i \in kept THEN {after[i]} ELSE {}
  <2>1. ASSUME NEW e \in Twins(s[i])
        PROVE  i \in kept /\ e = after[i]
    <3>1. PICK p \in kept : e = after[p] /\ e.id = s[i].id
      BY <1>4
    <3>2. p \in 1 .. n /\ after[p].id = s[p].id
      BY <1>1
    <3>3. p = i
      BY <1>1, <3>1, <3>2 DEF Distinct
    <3> QED
      BY <3>1, <3>3
  <2>2. i \in kept => after[i] \in Twins(s[i])
    BY <1>1, <1>4
  <2> HIDE DEF Twins
  <2> QED
    BY <2>1, <2>2
<1> HIDE DEF Twins
<1>6. kept2 = kept
  BY <1>1, <1>5
<1>7. \A i \in 1 .. n : after2[i] = IF i \in kept THEN after[i] ELSE s[i]
  <2> TAKE i \in 1 .. n
  <2>1. after2[i] = IF i \in kept2 THEN CHOOSE e \in Twins(s[i]) : TRUE
                    ELSE s[i]
    BY <1>1
  <2>2. i \in kept => (CHOOSE e \in Twins(s[i]) : TRUE) = after[i]
    BY <1>5
  <2> HIDE DEF after2, kept2
  <2> QED
    BY <1>6, <2>1, <2>2
<1>8. after2 \in Seq(Director) /\ Len(after2) = n
  <2>1. after2 = [i \in 1 .. n |-> after2[i]]
    BY <1>1
  <2> HIDE DEF after2
  <2>2. after2 \in [1 .. n -> Director]
    BY <1>1, <1>7, <2>1
  <2> QED
    BY <1>1, <2>2
<1> HIDE DEF after2, kept2
<1>9. \A p \in kept \cap DOMAIN after : after[p] = after2[p]
  BY <1>1, <1>7
<1>10. Picked(after, kept) = Picked(after2, kept)
  BY <1>1, <1>8, <1>9, PickedSame, SMTT(30)
<1> QED
  BY <1>3, <1>6, <1>10 DEF w

\* After a walk each ForceTool whose tool was not called is there, and when the
\* walk lets the model yield, one at its place or further in gave up.
LEMMA WalkKeeps ==
    ASSUME NEW s \in Seq(Director), Distinct(s), NEW seen, NEW says, NEW after,
           NEW kept, Walk(s, seen, after, kept),
           LetsGo(s, seen, says, after, kept),
           NEW p \in DOMAIN s, s[p].kind = "ForceTool", s[p].tool \notin seen
    PROVE  \E j \in DOMAIN Picked(after, kept) :
             /\ Holds(s[p], Picked(after, kept)[j])
             /\ says \notin {"Continue", "Fail"} =>
                  \E k \in DOMAIN Picked(after, kept) :
                    k >= j /\ GaveUp(Picked(after, kept)[k])
<1> DEFINE w == Picked(after, kept)
<1>1. /\ OneByOne(after, kept, Len(s), w) /\ w \in Seq(Director)
      /\ DOMAIN s = 1 .. Len(s) /\ Len(s) \in Nat
      /\ DOMAIN w = 1 .. Len(w) /\ Len(w) \in Nat
  BY WalkDistinct, LenProperties
<1> HIDE DEF w
<1>2. p \in kept /\ Holds(s[p], after[p]) /\ kept \subseteq DOMAIN s
  BY DEF Walk
<1>3. CASE says \in {"Continue", "Fail"}
  <2>1. PICK j \in DOMAIN w : w[j] = after[p]
    BY <1>1, <1>2 DEF OneByOne
  <2> QED
    BY <1>2, <1>3, <2>1 DEF w
<1>4. CASE says \notin {"Continue", "Fail"}
  <2>1. PICK q \in kept : p <= q /\ GaveUp(after[q])
    BY <1>4 DEF LetsGo
  <2>2. q <= Len(s)
    BY <1>1, <1>2
  <2>3. PICK j \in DOMAIN w, k \in DOMAIN w :
          j <= k /\ w[j] = after[p] /\ w[k] = after[q]
    BY <1>1, <1>2, <2>1, <2>2 DEF OneByOne
  <2>4. k >= j
    BY <1>1, <2>3
  <2> QED
    BY <1>2, <2>1, <2>3, <2>4 DEF w
<1> QED
  BY <1>3, <1>4

-----------------------------------------------------------------------------
(* The inductive invariant. *)

\* A turn is under way.
InTurn ==
    turn.pc \in {"Step", "Ask", "Stream", "Settle", "Tools", "Call", "Spawn",
                 "Called", "Yield", "Steer"}

\* The kinds of elements of the body.
Kinds == {"assistant", "call"}

\* No element of a turn that is to come, or still under way, is left behind.
LostInv ==
    /\ \A kind \in Kinds, n \in 0 .. MaxTurns :
         n > turn.n \/ (n = turn.n /\ InTurn) => <<kind, n>> \notin lost
    /\ past # None =>
         \A kind \in Kinds, n \in 0 .. MaxTurns :
           n > turn.n => <<kind, n>> \notin past.open

\* What the body shows as running is at work.
OpenInv == ~At("Down") => dom.open \ lost = AtWork

\* What an actor shows as running has a handle.
Owned ==
    /\ \A c \in Children :
         dom.actors[c] = "running" => c \in DOMAIN table \cup lost
    /\ \A c \in DOMAIN table :
         /\ dom.actors[c] \in {"running", "absent"}
         /\ past # None => past.actors[c] \in {"running", "absent"}

\* A process that is gone owns nothing.
ActorInv == ~At("Down") => Owned

\* What a turn did so far.
TurnInv ==
    /\ InTurn => stack = dom.directors /\ turn.result # "ok"
    /\ turn.executed \subseteq turn.invoked
    /\ turn.pc \in {"Tools", "Call", "Spawn", "Called"} => turn.calls # <<>>
    /\ turn.pc \in {"Call", "Spawn", "Called"} => Head(turn.calls) \in turn.invoked

\* The Directors of a snapshot have ids of their own.
IdsInv ==
    /\ Distinct(dom.directors)
    /\ past # None => Distinct(past.directors)

\* Each ForceTool whose tool was not called is kept; a turn that ended well found
\* one that gave up.
ForceInv ==
    \A i \in DOMAIN turn.begun :
        turn.begun[i].kind = "ForceTool" /\ turn.begun[i].tool \notin turn.invoked =>
          \E j \in DOMAIN dom.directors :
            /\ Holds(turn.begun[i], dom.directors[j])
            /\ turn.result = "ok" =>
                 \E k \in DOMAIN dom.directors : k >= j /\ GaveUp(dom.directors[k])

\* The inductive invariant.
IInv == TypeOK /\ LostInv /\ OpenInv /\ ActorInv /\ TurnInv /\ IdsInv /\ ForceInv

\* Hence what the snapshot shows as running has an owner,
LEMMA InvImpliesOwner == IInv => RunningHasOwner
BY DEF IInv, RunningHasOwner, OpenInv, ActorInv, Owned

\* and a forced tool binds.
LEMMA InvImpliesBinds == IInv => ForceBinds
<1> SUFFICES ASSUME IInv, turn.pc \in {"Idle", "Down"},
                    NEW i \in DOMAIN turn.begun,
                    turn.begun[i].kind = "ForceTool",
                    turn.begun[i].tool \notin turn.invoked
             PROVE  \E j \in DOMAIN dom.directors :
                      /\ dom.directors[j].id = turn.begun[i].id
                      /\ dom.directors[j].attempts >= turn.begun[i].attempts
                      /\ turn.result = "ok" =>
                           \E k \in j .. Len(dom.directors) :
                             GaveUp(dom.directors[k])
  BY DEF ForceBinds, GaveUp
<1>1. PICK j \in DOMAIN dom.directors :
        /\ Holds(turn.begun[i], dom.directors[j])
        /\ turn.result = "ok" =>
             \E k \in DOMAIN dom.directors : k >= j /\ GaveUp(dom.directors[k])
  BY DEF IInv, ForceInv
<1>2. /\ DOMAIN dom.directors = 1 .. Len(dom.directors)
      /\ Len(dom.directors) \in Nat
  <2>1. dom.directors \in Seq(Director)
    BY DEF IInv, TypeOK, Snapshot
  <2> QED
    BY <2>1, LenProperties
<1>3. turn.result = "ok" =>
        \E k \in j .. Len(dom.directors) : GaveUp(dom.directors[k])
  BY <1>1, <1>2
<1> QED
  BY <1>1, <1>3 DEF Holds

-----------------------------------------------------------------------------
(* What the steps have in common. *)

\* The parts of the types.
LEMMA Types ==
    ASSUME TypeOK
    PROVE  /\ dom \in Snapshot /\ dom.directors \in Seq(Director)
           /\ dom.open \subseteq Element /\ dom.todo \in BOOLEAN
           /\ DOMAIN dom.actors = Children
           /\ turn \in Turn /\ turn.n \in 0 .. MaxTurns
           /\ turn.calls \in Seq(Tools)
           /\ turn.begun \in Seq(Director)
           /\ MaxTurns \in Nat
           /\ Assistant \in Element /\ ToolCall \in Element
<1>1. turn.n \in 0 .. MaxTurns
  BY DEF TypeOK, Turn
<1>2. Assistant \in Element /\ ToolCall \in Element
  BY <1>1 DEF Assistant, ToolCall, Element
<1> QED
  BY <1>1, <1>2, TurnsAssumption DEF TypeOK, Snapshot, Turn

\* run_turn returns.
LEMMA EndedType ==
    ASSUME TypeOK, NEW result \in {None, "ok", "error"}
    PROVE  /\ Ended(turn, result) \in Turn
           /\ Ended(turn, result).n = turn.n
           /\ Ended(turn, result).pc = "Idle"
           /\ Ended(turn, result).result = result
           /\ Ended(turn, result).begun = turn.begun
           /\ Ended(turn, result).invoked = turn.invoked
           /\ Ended(turn, result).executed = {}
<1>1. turn \in Turn /\ 0 \in 0 .. MaxTurnSteps /\ 0 \in 0 .. MaxChildren
      /\ <<>> \in Seq(Tools)
  BY TurnsAssumption DEF TypeOK
<1> QED
  BY <1>1 DEF Ended, Turn

\* An append, or its refusal.
LEMMA AppendType ==
    ASSUME TypeOK, Appends \/ Refuses \/ (journal' = journal /\ Faulty)
                     \/ UNCHANGED <<journal, faults>>
    PROVE  journal' \in {"open", "failed"} /\ faults' \in 0 .. MaxFaults
BY TurnsAssumption DEF TypeOK, Appends, Refuses, Faulty

\* A step of a turn, which goes on or ends in an error.
Continues ==
    /\ turn' \in Turn /\ turn'.n = turn.n /\ turn'.begun = turn.begun
    /\ turn.invoked \subseteq turn'.invoked
    /\ turn'.executed \subseteq turn'.invoked
    /\ \/ turn'.pc = "Idle" /\ turn'.result = "error"
       \/ /\ InTurn' /\ turn'.result = turn.result
          /\ turn'.pc \in {"Tools", "Call", "Spawn", "Called"} =>
                turn'.calls # <<>>
          /\ turn'.pc \in {"Call", "Spawn", "Called"} =>
                Head(turn'.calls) \in turn'.invoked
    /\ dom'.directors = dom.directors
    /\ UNCHANGED <<stack, past>>

\* The Directors stay, and so does what is said of them.
LEMMA ForceSame ==
    ASSUME ForceInv, dom'.directors = dom.directors,
           turn'.begun = turn.begun, turn.invoked \subseteq turn'.invoked,
           turn'.result = turn.result \/ turn'.result # "ok"
    PROVE  ForceInv'
BY DEF ForceInv

\* What such a step keeps of the turn, the ids and the ForceTools.
LEMMA ContinuesStep ==
    ASSUME IInv, InTurn, Continues
    PROVE  TurnInv' /\ IdsInv' /\ ForceInv'
<1>1. TurnInv'
  BY DEF IInv, TurnInv, Continues, InTurn
<1>2. IdsInv'
  BY DEF IInv, IdsInv, Continues
<1>3. ForceInv'
  BY ForceSame DEF IInv, Continues
<1> QED
  BY <1>1, <1>2, <1>3

\* What a step of a turn leaves behind is an actor, or ends the turn.
LEMMA LostStep ==
    ASSUME IInv, turn'.n = turn.n, past' = past,
           \/ lost' \subseteq lost \cup Children /\ (InTurn' => InTurn)
           \/ ~InTurn' /\ lost' \subseteq lost \cup Children \cup {Assistant, ToolCall}
    PROVE  LostInv'
<1>1. \A kind \in Kinds, n \in 0 .. MaxTurns : <<kind, n>> \notin Children
  BY TurnsAssumption DEF Element, Kinds
<1>2. turn.n \in 0 .. MaxTurns /\ MaxTurns \in Nat
  BY Types DEF IInv
<1>3. \A kind \in Kinds, n \in 0 .. MaxTurns :
        n > turn.n => <<kind, n>> # Assistant /\ <<kind, n>> # ToolCall
  BY <1>2 DEF Assistant, ToolCall
<1>4. ASSUME NEW kind \in Kinds, NEW n \in 0 .. MaxTurns,
             n > turn'.n \/ (n = turn'.n /\ InTurn')
      PROVE  <<kind, n>> \notin lost'
  <2>1. CASE lost' \subseteq lost \cup Children /\ (InTurn' => InTurn)
    BY <1>1, <1>4, <2>1 DEF IInv, LostInv
  <2>2. CASE ~InTurn' /\ lost' \subseteq lost \cup Children \cup {Assistant, ToolCall}
    <3>1. n > turn.n
      BY <1>4, <2>2
    <3> QED
      BY <1>1, <1>3, <2>2, <3>1 DEF IInv, LostInv
  <2> QED
    BY <2>1, <2>2
<1> QED
  BY <1>4 DEF IInv, LostInv

\* The children stay what they are.
LEMMA OwnedSame ==
    ASSUME IInv, ~At("Down"), dom'.actors = dom.actors,
           DOMAIN table' = DOMAIN table, lost \subseteq lost', past' = past
    PROVE  ActorInv'
BY DEF IInv, ActorInv, Owned

\* Neither Assistant nor ToolCall of a turn under way was left behind.
LEMMA NotLost ==
    ASSUME IInv, InTurn
    PROVE  Assistant \notin lost /\ ToolCall \notin lost
<1>1. turn.n \in 0 .. MaxTurns
  BY Types DEF IInv
<1> QED
  BY <1>1 DEF IInv, LostInv, Assistant, ToolCall, Kinds

\* poll_children settles, and leaves to an error what it could not settle.
LEMMA PollStep ==
    ASSUME IInv, ~At("Down"), PollSettles \/ PollRefused, past' = past
    PROVE  /\ dom' \in Snapshot /\ dom'.directors = dom.directors
           /\ dom'.open = dom.open
           /\ lost \subseteq lost' /\ lost' \subseteq lost \cup Children
           /\ journal' \in {"open", "failed"} /\ faults' \in 0 .. MaxFaults
           /\ DOMAIN table' \subseteq Children
           /\ \A c \in DOMAIN table' : table'[c] \in Handle
           /\ Owned'
<1> DEFINE Gone(c) == [Asked(c) EXCEPT !.result = "gone"]
<1>1. /\ dom \in Snapshot /\ DOMAIN dom.actors = Children
      /\ DOMAIN table \subseteq Children
      /\ \A c \in DOMAIN table : table[c] \in Handle
      /\ Owned
  BY Types DEF IInv, TypeOK, ActorInv
<1>2. \A c \in DOMAIN table : Asked(c) \in Handle
  <2> TAKE c \in DOMAIN table
  <2> DEFINE cancel == table[c].cancel \/ c \in Forgotten
  <2>1. cancel \in BOOLEAN /\ table[c] \in Handle
    BY <1>1
  <2>2. Asked(c) = [table[c] EXCEPT !.cancel = cancel]
    BY DEF Asked
  <2> HIDE DEF cancel
  <2> QED
    BY <2>1, <2>2 DEF Handle
<1>3. \A c \in DOMAIN table : Gone(c) \in Handle
  BY <1>2 DEF Handle
<1>4. \A c \in Ready : Status(c) \in {"succeeded", "failed", "cancelled"}
  BY <1>1 DEF Ready, Status, Handle
<1>5. ASSUME NEW settled \in SUBSET Ready
      PROVE  /\ Settled(settled) \in Snapshot
             /\ Settled(settled).directors = dom.directors
             /\ Settled(settled).open = dom.open
             /\ \A c \in Children : Settled(settled).actors[c] =
                  IF c \in settled THEN Status(c) ELSE dom.actors[c]
  <2> DEFINE actors == [c \in Children |-> IF c \in settled THEN Status(c)
                                           ELSE dom.actors[c]]
  <2>1. actors \in [Children -> {"absent", "running", "succeeded", "failed",
                                 "cancelled"}]
    BY <1>1, <1>4 DEF Snapshot
  <2>2. Settled(settled) = [dom EXCEPT !.actors = actors]
    BY DEF Settled
  <2>3. \A c \in Children : actors[c] = IF c \in settled THEN Status(c)
                                        ELSE dom.actors[c]
    OBVIOUS
  <2> HIDE DEF actors
  <2> QED
    BY <1>1, <2>1, <2>2, <2>3 DEF Snapshot
<1>6. Forgotten = {c \in DOMAIN table : dom.actors[c] = "absent"}
      /\ Ready \subseteq DOMAIN table
  BY DEF Forgotten, Ready
<1>7. CASE PollSettles
  <2>1. /\ dom' = Settled(Ready \ Forgotten)
        /\ table' = [c \in DOMAIN table \ Ready |-> Asked(c)]
        /\ UNCHANGED <<journal, lost, faults>>
    BY <1>7 DEF PollSettles
  <2>2. /\ dom' \in Snapshot /\ dom'.directors = dom.directors
        /\ dom'.open = dom.open
        /\ \A c \in Children : dom'.actors[c] =
             IF c \in Ready \ Forgotten THEN Status(c) ELSE dom.actors[c]
    BY <1>5, <2>1
  <2>3. /\ DOMAIN table' = DOMAIN table \ Ready
        /\ \A c \in DOMAIN table' : table'[c] \in Handle
    BY <1>2, <2>1
  <2>4. Owned'
    BY <1>1, <1>4, <1>6, <2>1, <2>2, <2>3 DEF Owned
  <2>5. journal' \in {"open", "failed"} /\ faults' \in 0 .. MaxFaults
    BY <2>1 DEF IInv, TypeOK
  <2> QED
    BY <1>1, <2>1, <2>2, <2>3, <2>4, <2>5
<1>8. CASE PollRefused
  <2>0. PICK x \in Ready \ Forgotten : \E done \in SUBSET (Ready \ {x}) :
          /\ Refuses
          /\ dom' = Settled(done \ Forgotten)
          /\ table' = [c \in DOMAIN table \ (done \cup {x}) |->
                         IF c \in Ready THEN Gone(c) ELSE Asked(c)]
          /\ lost' = lost \cup {x}
    BY <1>8 DEF PollRefused
  <2>1. PICK done \in SUBSET (Ready \ {x}) :
          /\ Refuses
          /\ dom' = Settled(done \ Forgotten)
          /\ table' = [c \in DOMAIN table \ (done \cup {x}) |->
                         IF c \in Ready THEN Gone(c) ELSE Asked(c)]
          /\ lost' = lost \cup {x}
    BY <2>0
  <2>2. /\ dom' \in Snapshot /\ dom'.directors = dom.directors
        /\ dom'.open = dom.open
        /\ \A c \in Children : dom'.actors[c] =
             IF c \in done \ Forgotten THEN Status(c) ELSE dom.actors[c]
    BY <1>5, <2>1
  <2>3. /\ DOMAIN table' = DOMAIN table \ (done \cup {x})
        /\ \A c \in DOMAIN table' : table'[c] \in Handle
    BY <1>2, <1>3, <2>1
  <2>4. Owned'
    BY <1>1, <1>4, <1>6, <2>1, <2>2, <2>3 DEF Owned
  <2>5. journal' \in {"open", "failed"} /\ faults' \in 0 .. MaxFaults
    BY <2>1, AppendType DEF IInv
  <2>6. x \in Children
    BY <1>1, <1>6
  <2> QED
    BY <1>1, <2>1, <2>2, <2>3, <2>4, <2>5, <2>6
<1> QED
  BY <1>7, <1>8

\* The types of what a step of a turn may write besides.
Typed ==
    /\ dom \in Snapshot
    /\ journal \in {"open", "failed"} /\ faults \in 0 .. MaxFaults
    /\ DOMAIN table \subseteq Children
    /\ \A c \in DOMAIN table : table[c] \in Handle
    /\ lost \subseteq Element \cup Children

\* A step of a turn.
LEMMA TurnStep ==
    ASSUME IInv, InTurn, Continues, Typed', UNCHANGED <<cancelled, role>>,
           LostInv', OpenInv', ActorInv'
    PROVE  IInv'
<1>1. TurnInv' /\ IdsInv' /\ ForceInv'
  BY ContinuesStep
<1>2. TypeOK'
  BY DEF IInv, TypeOK, Typed, Continues
<1> QED
  BY <1>1, <1>2 DEF IInv

\* A turn that ends.
LEMMA EndsStep ==
    ASSUME IInv, InTurn, Ends("error"), dom'.directors = dom.directors,
           UNCHANGED <<stack, past>>
    PROVE  Continues /\ turn'.pc = "Idle" /\ turn'.n = turn.n /\ ~InTurn'
           /\ ~At("Down")' /\ AtWork' = {}
<1>1. /\ turn' = Ended(turn, "error")
      /\ turn' \in Turn /\ turn'.n = turn.n /\ turn'.pc = "Idle"
      /\ turn'.result = "error" /\ turn'.begun = turn.begun
      /\ turn'.invoked = turn.invoked /\ turn'.executed = {}
  BY EndedType DEF Ends, IInv
<1> QED
  BY <1>1 DEF Continues, InTurn, AtWork, At

\* What is at work stays at work.
LEMMA OpenSame ==
    ASSUME IInv, ~At("Down"), dom'.open = dom.open, lost \subseteq lost',
           lost' \subseteq lost \cup Children, AtWork' = AtWork
    PROVE  OpenInv'
<1>1. dom.open \cap Children = {}
  BY Types, TurnsAssumption DEF IInv
<1>2. dom.open \ lost' = dom.open \ lost
  BY <1>1
<1> QED
  BY <1>2 DEF IInv, OpenInv

\* What the invariant says of a turn under way.
LEMMA Under ==
    ASSUME IInv, InTurn
    PROVE  /\ TypeOK /\ Typed /\ ~At("Down")
           /\ turn \in Turn /\ turn.result # "ok"
           /\ turn.executed \subseteq turn.invoked
           /\ dom.open \ lost = AtWork
           /\ stack = dom.directors
           /\ Distinct(dom.directors)
           /\ Assistant \notin lost /\ ToolCall \notin lost
BY NotLost DEF IInv, InTurn, At, OpenInv, TurnInv, IdsInv, TypeOK, Typed

\* The head of the loop polls the children; what it cannot settle is left.
LEMMA StepInv ==
    ASSUME IInv, Step
    PROVE  IInv'
<1>1. InTurn /\ At("Step") /\ UNCHANGED <<stack, cancelled, role, past>>
  BY DEF Step, At, InTurn
<1>2. TypeOK /\ Typed /\ ~At("Down") /\ AtWork = {} /\ turn \in Turn
      /\ turn.executed \subseteq turn.invoked
  BY <1>1, Under DEF At, AtWork
<1>3. CASE Ends("error") /\ UNCHANGED <<dom, journal, table, lost, faults>>
  <2>1. Continues /\ turn'.n = turn.n /\ ~InTurn' /\ AtWork' = {}
    BY <1>1, <1>3, EndsStep
  <2>2. Typed' /\ LostInv' /\ OpenInv' /\ ActorInv'
    <3>1. Typed'
      BY <1>2, <1>3 DEF Typed
    <3>2. LostInv'
      BY <1>1, <1>3, <2>1, LostStep
    <3>3. OpenInv'
      BY <1>2, <1>3, <2>1, OpenSame
    <3>4. ActorInv'
      BY <1>1, <1>2, <1>3, OwnedSame
    <3> QED
      BY <3>1, <3>2, <3>3, <3>4
  <2> QED
    BY <1>1, <2>1, <2>2, TurnStep
<1>4. CASE /\ turn.step < MaxTurnSteps
           /\ PollSettles \/ PollRefused
           /\ \/ Ends("error")
              \/ turn' = [turn EXCEPT !.pc = "Ask", !.step = @ + 1]
  <2>1. /\ dom' \in Snapshot /\ dom'.directors = dom.directors
        /\ dom'.open = dom.open
        /\ lost \subseteq lost' /\ lost' \subseteq lost \cup Children
        /\ journal' \in {"open", "failed"} /\ faults' \in 0 .. MaxFaults
        /\ DOMAIN table' \subseteq Children
        /\ \A c \in DOMAIN table' : table'[c] \in Handle
        /\ Owned'
    BY <1>1, <1>2, <1>4, PollStep
  <2>2. /\ Continues /\ turn'.n = turn.n /\ AtWork' = {}
    <3>1. CASE Ends("error")
      BY <1>1, <2>1, <3>1, EndsStep
    <3>2. CASE turn' = [turn EXCEPT !.pc = "Ask", !.step = @ + 1]
      <4>1. turn.step \in Nat /\ turn.step + 1 \in 0 .. MaxTurnSteps
        BY <1>2, <1>4, TurnsAssumption DEF Turn
      <4>2. /\ turn' \in Turn /\ turn'.n = turn.n /\ turn'.pc = "Ask"
            /\ turn'.result = turn.result /\ turn'.begun = turn.begun
            /\ turn'.invoked = turn.invoked /\ turn'.executed = turn.executed
        BY <1>2, <3>2, <4>1 DEF Turn
      <4> QED
        BY <1>1, <1>2, <2>1, <4>2 DEF Continues, InTurn, AtWork
    <3> QED
      BY <1>4, <3>1, <3>2
  <2>3. Typed'
    BY <1>2, <2>1 DEF Typed
  <2>4. LostInv'
    BY <1>1, <2>1, <2>2, LostStep
  <2>5. OpenInv'
    BY <1>2, <2>1, <2>2, OpenSame
  <2>6. ActorInv'
    BY <2>1 DEF ActorInv
  <2> QED
    BY <1>1, <2>2, <2>3, <2>4, <2>5, <2>6, TurnStep
<1> QED
  BY <1>3, <1>4 DEF Step

\* The body of the snapshot is another one.
LEMMA DomOpen ==
    ASSUME dom \in Snapshot, NEW open \in SUBSET Element,
           dom' = [dom EXCEPT !.open = open]
    PROVE  /\ dom' \in Snapshot /\ dom'.open = open
           /\ dom'.directors = dom.directors /\ dom'.actors = dom.actors
BY DEF Snapshot

\* A step of a turn that leaves the table and the actors alone.
LEMMA BodyStep ==
    ASSUME IInv, InTurn, Continues, UNCHANGED <<cancelled, role, table>>,
           dom' \in Snapshot, dom'.actors = dom.actors,
           journal' \in {"open", "failed"}, faults' \in 0 .. MaxFaults,
           lost \subseteq lost',
           lost' = lost \/ (~InTurn' /\ lost' \subseteq lost \cup {Assistant, ToolCall}),
           dom'.open \ lost' = AtWork'
    PROVE  IInv'
<1>1. TypeOK /\ Typed /\ ~At("Down") /\ turn'.n = turn.n /\ past' = past
      /\ Assistant \in Element /\ ToolCall \in Element
  BY Under, Types DEF Continues
<1>2. Typed'
  BY <1>1 DEF Typed
<1>3. LostInv'
  BY <1>1, LostStep
<1>4. ActorInv'
  BY <1>1, OwnedSame
<1>5. OpenInv'
  BY DEF OpenInv
<1> QED
  BY <1>2, <1>3, <1>4, <1>5, TurnStep

\* The assistant's element is opened as the host starts to wait for it.
LEMMA AskInv ==
    ASSUME IInv, Ask
    PROVE  IInv'
<1>1. InTurn /\ At("Ask")
      /\ UNCHANGED <<stack, table, cancelled, role, lost, past>>
  BY DEF Ask, At, InTurn
<1>2. /\ TypeOK /\ dom \in Snapshot /\ turn \in Turn
      /\ turn.executed \subseteq turn.invoked
      /\ dom.open \ lost = {} /\ Assistant \notin lost
      /\ dom.open \subseteq Element /\ Assistant \in Element
      /\ journal \in {"open", "failed"} /\ faults \in 0 .. MaxFaults
  BY <1>1, Under, Types DEF At, AtWork, TypeOK
<1>3. CASE Ends("error") /\ dom' = dom
  <2>1. /\ Continues /\ ~InTurn' /\ AtWork' = {}
    BY <1>1, <1>3, EndsStep
  <2>2. journal' \in {"open", "failed"} /\ faults' \in 0 .. MaxFaults
    BY <1>1, <1>2, <1>3, AppendType DEF Ask
  <2> QED
    BY <1>1, <1>2, <1>3, <2>1, <2>2, BodyStep
<1>4. CASE /\ Appends /\ Goes("Stream")
           /\ dom' = [dom EXCEPT !.open = @ \cup {Assistant}]
  <2>1. /\ dom' \in Snapshot /\ dom'.open = dom.open \cup {Assistant}
        /\ dom'.directors = dom.directors /\ dom'.actors = dom.actors
    BY <1>2, <1>4, DomOpen
  <2>2. /\ turn' \in Turn /\ turn'.n = turn.n /\ turn'.pc = "Stream"
        /\ turn'.result = turn.result /\ turn'.begun = turn.begun
        /\ turn'.invoked = turn.invoked /\ turn'.executed = turn.executed
    BY <1>2, <1>4 DEF Goes, Turn
  <2>3. Continues
    BY <1>1, <1>2, <2>1, <2>2 DEF Continues, InTurn
  <2>4. AtWork' = {Assistant}
    BY <2>2 DEF AtWork, Assistant
  <2>5. dom'.open \ lost' = AtWork'
    BY <1>1, <1>2, <2>1, <2>4
  <2>6. journal' \in {"open", "failed"} /\ faults' \in 0 .. MaxFaults
    BY <1>2, <1>4 DEF Appends
  <2> QED
    BY <1>1, <2>1, <2>3, <2>5, <2>6, BodyStep
<1> QED
  BY <1>3, <1>4 DEF Ask

\* A reply ends: nothing but the turn changes.
LEMMA StreamEndsInv ==
    ASSUME IInv, StreamEnds
    PROVE  IInv'
<1>1. InTurn /\ At("Stream")
      /\ UNCHANGED <<dom, stack, table, cancelled, role, lost, past>>
  BY DEF StreamEnds, At, InTurn
<1>2. /\ TypeOK /\ dom \in Snapshot /\ turn \in Turn
      /\ turn.executed \subseteq turn.invoked
      /\ dom.open \ lost = {Assistant}
  BY <1>1, Under, Types DEF At, AtWork
<1>3. /\ turn' \in Turn /\ turn'.n = turn.n /\ turn'.pc = "Settle"
      /\ turn'.result = turn.result /\ turn'.begun = turn.begun
      /\ turn'.invoked = turn.invoked /\ turn'.executed = turn.executed
  <2>1. ASSUME NEW calls \in Replies,
               turn' = [turn EXCEPT !.pc = "Settle", !.calls = calls,
                                    !.outcome = "succeeded"]
        PROVE  /\ turn' \in Turn /\ turn'.n = turn.n /\ turn'.pc = "Settle"
               /\ turn'.result = turn.result /\ turn'.begun = turn.begun
               /\ turn'.invoked = turn.invoked
               /\ turn'.executed = turn.executed
    <3>1. calls \in Seq(Tools)
      BY TurnsAssumption
    <3> QED
      BY <1>2, <2>1, <3>1 DEF Turn
  <2>2. ASSUME NEW outcome \in {"failed", "cancelled"}, Raises(outcome)
        PROVE  /\ turn' \in Turn /\ turn'.n = turn.n /\ turn'.pc = "Settle"
               /\ turn'.result = turn.result /\ turn'.begun = turn.begun
               /\ turn'.invoked = turn.invoked
               /\ turn'.executed = turn.executed
    BY <1>2, <2>2 DEF Turn, Raises
  <2> QED
    BY <2>1, <2>2 DEF StreamEnds
<1>4. Continues
  BY <1>1, <1>2, <1>3 DEF Continues, InTurn
<1>5. AtWork' = {Assistant}
  BY <1>3 DEF AtWork, Assistant
<1>6. journal' \in {"open", "failed"} /\ faults' \in 0 .. MaxFaults
  BY <1>2, AppendType DEF StreamEnds
<1> QED
  BY <1>1, <1>2, <1>4, <1>5, <1>6, BodyStep

\* The assistant's element is settled, or left behind by a turn that ends.
LEMMA SettleInv ==
    ASSUME IInv, Settle
    PROVE  IInv'
<1>1. InTurn /\ At("Settle") /\ UNCHANGED <<stack, table, cancelled, role, past>>
  BY DEF Settle, At, InTurn
<1>2. /\ TypeOK /\ dom \in Snapshot /\ turn \in Turn
      /\ turn.executed \subseteq turn.invoked
      /\ dom.open \ lost = {Assistant}
      /\ dom.open \subseteq Element
      /\ Appends \/ Refuses
  BY <1>1, Under, Types DEF At, AtWork, Settle
<1>3. journal' \in {"open", "failed"} /\ faults' \in 0 .. MaxFaults
  BY <1>2, AppendType
<1>4. CASE /\ dom' = [dom EXCEPT !.open = @ \ {Assistant}]
           /\ lost' = lost
           /\ IF turn.outcome # "succeeded" THEN Ends("error")
              ELSE turn' = [turn EXCEPT !.outcome = None,
                              !.pc = IF turn.calls = <<>> THEN "Yield" ELSE "Tools"]
  <2>1. /\ dom' \in Snapshot /\ dom'.open = dom.open \ {Assistant}
        /\ dom'.directors = dom.directors /\ dom'.actors = dom.actors
    BY <1>2, <1>4, DomOpen
  <2>2. Continues /\ AtWork' = {}
    <3>1. CASE Ends("error")
      BY <1>1, <2>1, <3>1, EndsStep
    <3>2. CASE turn' = [turn EXCEPT !.outcome = None,
                          !.pc = IF turn.calls = <<>> THEN "Yield" ELSE "Tools"]
      <4>1. /\ turn' \in Turn /\ turn'.n = turn.n
            /\ turn'.pc = "Yield" \/ (turn'.pc = "Tools" /\ turn'.calls # <<>>)
            /\ turn'.result = turn.result /\ turn'.begun = turn.begun
            /\ turn'.invoked = turn.invoked /\ turn'.executed = turn.executed
        BY <1>2, <3>2 DEF Turn
      <4> QED
        BY <1>1, <1>2, <2>1, <4>1 DEF Continues, InTurn, AtWork
    <3> QED
      BY <1>4, <3>1, <3>2
  <2>3. dom'.open \ lost' = AtWork'
    BY <1>2, <1>4, <2>1, <2>2
  <2> QED
    BY <1>1, <1>3, <1>4, <2>1, <2>2, <2>3, BodyStep
<1>5. CASE Ends("error") /\ lost' = lost \cup {Assistant} /\ dom' = dom
  <2>1. Continues /\ ~InTurn' /\ AtWork' = {}
    BY <1>1, <1>5, EndsStep
  <2>2. dom'.open \ lost' = AtWork'
    BY <1>2, <1>5, <2>1
  <2> QED
    BY <1>1, <1>2, <1>3, <1>5, <2>1, <2>2, BodyStep
<1> QED
  BY <1>4, <1>5 DEF Settle

\* A call's element is opened as the call is made.
LEMMA InvokeInv ==
    ASSUME IInv, Invoke
    PROVE  IInv'
<1>1. InTurn /\ At("Tools")
      /\ UNCHANGED <<stack, table, cancelled, role, lost, past>>
  BY DEF Invoke, At, InTurn
<1>2. /\ TypeOK /\ dom \in Snapshot /\ turn \in Turn
      /\ turn.executed \subseteq turn.invoked
      /\ dom.open \ lost = {} /\ ToolCall \notin lost
      /\ dom.open \subseteq Element /\ ToolCall \in Element
      /\ journal \in {"open", "failed"} /\ faults \in 0 .. MaxFaults
      /\ Appends \/ Refuses
  BY <1>1, Under, Types DEF At, AtWork, TypeOK, Invoke
<1>3. journal' \in {"open", "failed"} /\ faults' \in 0 .. MaxFaults
  BY <1>2, AppendType
<1>4. CASE Ends("error") /\ dom' = dom
  <2>1. /\ Continues /\ ~InTurn' /\ AtWork' = {}
    BY <1>1, <1>4, EndsStep
  <2> QED
    BY <1>1, <1>2, <1>3, <1>4, <2>1, BodyStep
<1>5. CASE /\ dom' = [dom EXCEPT !.open = @ \cup {ToolCall}]
           /\ turn' = [turn EXCEPT !.pc = "Call",
                                   !.invoked = @ \cup {Current}]
  <2>1. /\ dom' \in Snapshot /\ dom'.open = dom.open \cup {ToolCall}
        /\ dom'.directors = dom.directors /\ dom'.actors = dom.actors
    <3> DEFINE open == dom.open \cup {ToolCall}
    <3>1. open \in SUBSET Element /\ dom' = [dom EXCEPT !.open = open]
      BY <1>2, <1>5
    <3> HIDE DEF open
    <3>2. dom' \in Snapshot /\ dom'.open = open
          /\ dom'.directors = dom.directors /\ dom'.actors = dom.actors
      BY <1>2, <3>1, DomOpen
    <3> QED
      BY <3>2 DEF open
  <2>2. turn.calls \in Seq(Tools) /\ turn.calls # <<>>
    BY <1>1, <1>2 DEF IInv, TurnInv, At, Turn
  <2>3. Current \in Tools
    BY <2>2 DEF Current
  <2>4. /\ turn' \in Turn /\ turn'.n = turn.n /\ turn'.pc = "Call"
        /\ turn'.result = turn.result /\ turn'.begun = turn.begun
        /\ turn'.invoked = turn.invoked \cup {Current}
        /\ turn'.executed = turn.executed /\ turn'.calls = turn.calls
    BY <1>2, <1>5, <2>3 DEF Turn
  <2>5. Continues
    BY <1>1, <1>2, <2>1, <2>2, <2>4 DEF Continues, InTurn, Current
  <2>6. AtWork' = {ToolCall}
    BY <2>4 DEF AtWork, ToolCall
  <2>7. dom'.open \ lost' = AtWork'
    BY <1>1, <1>2, <2>1, <2>6
  <2> QED
    BY <1>1, <1>3, <2>1, <2>5, <2>7, BodyStep
<1> QED
  BY <1>4, <1>5 DEF Invoke

\* The call was answered.
LEMMA AnswersStep ==
    ASSUME IInv, turn.pc \in {"Call", "Spawn"}, NEW outcome,
           outcome \in {"succeeded", "failed"}, Answers(outcome),
           dom'.directors = dom.directors, UNCHANGED <<stack, past>>
    PROVE  Continues /\ AtWork' = {ToolCall} /\ turn'.n = turn.n /\ InTurn'
<1>1. /\ InTurn /\ turn \in Turn /\ turn.executed \subseteq turn.invoked
      /\ turn.calls # <<>> /\ Head(turn.calls) \in turn.invoked
      /\ 0 \in 0 .. MaxChildren
  BY Under, TurnsAssumption DEF InTurn, IInv, TurnInv
<1>2. /\ turn' \in Turn /\ turn'.n = turn.n /\ turn'.pc = "Called"
      /\ turn'.result = turn.result /\ turn'.begun = turn.begun
      /\ turn'.invoked = turn.invoked /\ turn'.executed = turn.executed
      /\ turn'.calls = turn.calls
  BY <1>1 DEF Answers, Turn
<1> QED
  BY <1>1, <1>2 DEF Continues, InTurn, AtWork, ToolCall

\* A tool answers; it may have patched the todos.
LEMMA RunToolInv ==
    ASSUME IInv, RunTool
    PROVE  IInv'
<1>1. InTurn /\ At("Call") /\ turn.pc \in {"Call", "Spawn"}
      /\ UNCHANGED <<journal, stack, table, cancelled, role, lost, past, faults>>
  BY DEF RunTool, At, InTurn
<1>2. /\ TypeOK /\ dom \in Snapshot
      /\ dom.open \ lost = {ToolCall}
      /\ journal \in {"open", "failed"} /\ faults \in 0 .. MaxFaults
  BY <1>1, Under, Types DEF At, AtWork, TypeOK
<1>3. PICK todo \in BOOLEAN : dom' = [dom EXCEPT !.todo = todo]
  BY DEF RunTool
<1>4. /\ dom' \in Snapshot /\ dom'.open = dom.open
      /\ dom'.directors = dom.directors /\ dom'.actors = dom.actors
  BY <1>2, <1>3 DEF Snapshot
<1>5. Continues /\ AtWork' = {ToolCall}
  BY <1>1, <1>4, AnswersStep DEF RunTool
<1>6. dom'.open \ lost' = AtWork'
  BY <1>1, <1>2, <1>4, <1>5
<1> QED
  BY <1>1, <1>2, <1>4, <1>5, <1>6, BodyStep

\* An Agent call is answered, or begins its batch.
LEMMA RunAgentInv ==
    ASSUME IInv, RunAgent
    PROVE  IInv'
<1>1. InTurn /\ At("Call") /\ turn.pc \in {"Call", "Spawn"}
      /\ UNCHANGED <<dom, journal, stack, table, cancelled, role, lost, past,
                     faults>>
  BY DEF RunAgent, At, InTurn
<1>2. /\ TypeOK /\ dom \in Snapshot /\ turn \in Turn
      /\ dom.open \ lost = {ToolCall}
      /\ journal \in {"open", "failed"} /\ faults \in 0 .. MaxFaults
      /\ turn.executed \subseteq turn.invoked
      /\ turn.calls # <<>> /\ Head(turn.calls) \in turn.invoked
  BY <1>1, Under, Types DEF At, AtWork, TypeOK, IInv, TurnInv
<1>3. Continues /\ AtWork' = {ToolCall}
  <2>1. CASE Answers("failed")
    BY <1>1, <2>1, AnswersStep
  <2>2. ASSUME NEW n \in 1 .. MaxChildren,
               turn' = [turn EXCEPT !.pc = "Spawn", !.batch = n]
        PROVE  Continues /\ AtWork' = {ToolCall}
    <3>1. n \in 0 .. MaxChildren
      BY TurnsAssumption
    <3>2. /\ turn' \in Turn /\ turn'.n = turn.n /\ turn'.pc = "Spawn"
          /\ turn'.result = turn.result /\ turn'.begun = turn.begun
          /\ turn'.invoked = turn.invoked /\ turn'.executed = turn.executed
          /\ turn'.calls = turn.calls
      BY <1>2, <2>2, <3>1 DEF Turn
    <3> QED
      BY <1>1, <1>2, <3>2 DEF Continues, InTurn, AtWork, ToolCall
  <2> QED
    BY <2>1, <2>2 DEF RunAgent
<1>4. dom'.open \ lost' = AtWork'
  BY <1>1, <1>2, <1>3
<1> QED
  BY <1>1, <1>2, <1>3, <1>4, BodyStep

\* The batch is complete.
LEMMA SpawnedInv ==
    ASSUME IInv, Spawned
    PROVE  IInv'
<1>1. InTurn /\ At("Spawn") /\ turn.pc \in {"Call", "Spawn"}
      /\ UNCHANGED <<dom, journal, stack, table, cancelled, role, lost, past,
                     faults>>
  BY DEF Spawned, At, InTurn
<1>2. /\ TypeOK /\ dom \in Snapshot
      /\ dom.open \ lost = {ToolCall}
      /\ journal \in {"open", "failed"} /\ faults \in 0 .. MaxFaults
  BY <1>1, Under, Types DEF At, AtWork, TypeOK
<1>3. Continues /\ AtWork' = {ToolCall}
  BY <1>1, AnswersStep DEF Spawned
<1>4. dom'.open \ lost' = AtWork'
  BY <1>1, <1>2, <1>3
<1> QED
  BY <1>1, <1>2, <1>3, <1>4, BodyStep

\* The steering message is appended, or the turn ends.
LEMMA SteerInv ==
    ASSUME IInv, Steer
    PROVE  IInv'
<1>1. /\ InTurn /\ At("Steer")
      /\ UNCHANGED <<dom, stack, table, cancelled, role, lost, past>>
      /\ Appends \/ Refuses
  BY DEF Steer, At, InTurn
<1>2. /\ TypeOK /\ dom \in Snapshot /\ turn \in Turn
      /\ turn.executed \subseteq turn.invoked
      /\ dom.open \ lost = {}
  BY <1>1, Under, Types DEF At, AtWork
<1>3. journal' \in {"open", "failed"} /\ faults' \in 0 .. MaxFaults
  BY <1>1, <1>2, AppendType
<1>4. Continues /\ AtWork' = {}
  <2>1. CASE Ends("error")
    BY <1>1, <2>1, EndsStep
  <2>2. CASE Goes("Step")
    <3>1. /\ turn' \in Turn /\ turn'.n = turn.n /\ turn'.pc = "Step"
          /\ turn'.result = turn.result /\ turn'.begun = turn.begun
          /\ turn'.invoked = turn.invoked /\ turn'.executed = turn.executed
      BY <1>2, <2>2 DEF Goes, Turn
    <3> QED
      BY <1>1, <1>2, <3>1 DEF Continues, InTurn, AtWork
  <2> QED
    BY <2>1, <2>2 DEF Steer
<1>5. dom'.open \ lost' = AtWork'
  BY <1>1, <1>2, <1>4
<1> QED
  BY <1>1, <1>2, <1>3, <1>4, <1>5, BodyStep

\* A call that counts as executed was called; its element is settled, or left
\* behind by a turn that ends.
LEMMA SettleCallInv ==
    ASSUME IInv, SettleCall
    PROVE  IInv'
<1> DEFINE well == turn.outcome = "succeeded"
<1>1. /\ InTurn /\ At("Called")
      /\ UNCHANGED <<stack, table, cancelled, role, past>>
      /\ Appends \/ Refuses
  BY DEF SettleCall, At, InTurn
<1>2. /\ TypeOK /\ dom \in Snapshot /\ turn \in Turn
      /\ turn.executed \subseteq turn.invoked
      /\ dom.open \ lost = {ToolCall}
      /\ dom.open \subseteq Element
      /\ turn.calls \in Seq(Tools) /\ turn.calls # <<>>
      /\ Current \in turn.invoked
  BY <1>1, Under, Types DEF At, AtWork, IInv, TurnInv, Current
<1>3. journal' \in {"open", "failed"} /\ faults' \in 0 .. MaxFaults
  BY <1>1, <1>2, AppendType
<1>4. CASE Ends("error") /\ lost' = lost \cup {ToolCall} /\ dom' = dom
  <2>1. Continues /\ ~InTurn' /\ AtWork' = {}
    BY <1>1, <1>4, EndsStep
  <2>2. dom'.open \ lost' = AtWork'
    BY <1>2, <1>4, <2>1
  <2> QED
    BY <1>1, <1>2, <1>3, <1>4, <2>1, <2>2, BodyStep
<1>5. CASE /\ dom' = [dom EXCEPT !.open = @ \ {ToolCall},
                                 !.succeeded = @ \/ well]
           /\ \E counts \in {well, dom.succeeded \/ well} :
                turn' = [turn EXCEPT
                           !.pc = IF Tail(turn.calls) = <<>> THEN "Step"
                                  ELSE "Tools",
                           !.calls = Tail(turn.calls), !.outcome = None,
                           !.executed = IF counts THEN @ \cup {Current}
                                        ELSE @]
           /\ lost' = lost
  <2>1. PICK counts \in {well, dom.succeeded \/ well} :
               turn' = [turn EXCEPT
                           !.pc = IF Tail(turn.calls) = <<>> THEN "Step"
                                  ELSE "Tools",
                           !.calls = Tail(turn.calls), !.outcome = None,
                           !.executed = IF counts THEN @ \cup {Current}
                                        ELSE @]
    BY <1>5
  <2> DEFINE rest == Tail(turn.calls)
             executed == IF counts THEN turn.executed \cup {Current}
                         ELSE turn.executed
             pc == IF rest = <<>> THEN "Step" ELSE "Tools"
             succeeded == dom.succeeded \/ well
             open == dom.open \ {ToolCall}
  <2>2. rest \in Seq(Tools)
    BY <1>2
  <2>3. executed \subseteq turn.invoked /\ turn.invoked \subseteq Tools
        /\ executed \in SUBSET Tools
    BY <1>2 DEF Turn
  <2>4. turn' = [turn EXCEPT !.pc = pc, !.calls = rest, !.outcome = None,
                             !.executed = executed]
    BY <2>1
  <2>5. pc \in {"Step", "Tools"} /\ (pc = "Tools" => rest # <<>>)
    OBVIOUS
  <2>6. dom' = [dom EXCEPT !.open = open, !.succeeded = succeeded]
        /\ succeeded \in BOOLEAN /\ open \in SUBSET Element
        /\ open \ lost' = {}
    BY <1>2, <1>5 DEF Snapshot
  <2> HIDE DEF well, rest, executed, pc, succeeded, open
  <2>7. /\ turn' \in Turn /\ turn'.n = turn.n /\ turn'.pc = pc
        /\ turn'.result = turn.result /\ turn'.begun = turn.begun
        /\ turn'.invoked = turn.invoked /\ turn'.executed = executed
        /\ turn'.calls = rest
    BY <1>2, <2>2, <2>3, <2>4, <2>5 DEF Turn
  <2>8. /\ dom' \in Snapshot /\ dom'.open = open
        /\ dom'.directors = dom.directors /\ dom'.actors = dom.actors
    BY <1>2, <2>6 DEF Snapshot
  <2>9. Continues /\ AtWork' = {}
    BY <1>1, <2>3, <2>5, <2>7, <2>8 DEF Continues, InTurn, AtWork
  <2>10. dom'.open \ lost' = AtWork'
    BY <2>6, <2>8, <2>9
  <2> QED
    BY <1>1, <1>3, <1>5, <2>8, <2>9, <2>10, BodyStep
<1> QED
  BY <1>4, <1>5 DEF SettleCall

\* An actor is shown running as its handle is kept, or it is left behind.
LEMMA SpawnChildInv ==
    ASSUME IInv, SpawnChild
    PROVE  IInv'
<1>1. /\ InTurn /\ At("Spawn") /\ turn.pc \in {"Call", "Spawn"}
      /\ turn.batch > 0
      /\ UNCHANGED <<stack, cancelled, role, past>>
  BY DEF SpawnChild, At, InTurn
<1>2. /\ TypeOK /\ Typed /\ ~At("Down") /\ dom \in Snapshot /\ turn \in Turn
      /\ dom.open \ lost = {ToolCall} /\ AtWork = {ToolCall}
      /\ turn.executed \subseteq turn.invoked
      /\ turn.calls # <<>> /\ Head(turn.calls) \in turn.invoked
      /\ Owned
  BY <1>1, Under, Types DEF At, AtWork, IInv, TurnInv, ActorInv
<1>3. CASE Answers("failed") /\ UNCHANGED <<dom, table, lost>>
  <2>1. Continues /\ AtWork' = {ToolCall}
    BY <1>1, <1>3, AnswersStep
  <2>2. journal' \in {"open", "failed"} /\ faults' \in 0 .. MaxFaults
    <3>1. \/ Refuses \/ UNCHANGED <<journal, faults>>
          \/ (journal' = journal /\ Faulty)
      BY DEF SpawnChild, Appends
    <3> QED
      BY <1>2, <3>1, AppendType
  <2>3. dom'.open \ lost' = AtWork'
    BY <1>2, <1>3, <2>1
  <2> QED
    BY <1>1, <1>2, <1>3, <2>1, <2>2, <2>3, BodyStep
<1>4. ASSUME NEW c \in Children, Fresh(c),
             dom' = [dom EXCEPT !.actors[c] = "running"],
             \/ /\ Appends
                /\ table' = [x \in DOMAIN table \cup {c} |->
                               IF x = c THEN [cancel |-> FALSE, result |-> "none"]
                               ELSE table[x]]
                /\ turn' = [turn EXCEPT !.batch = @ - 1]
                /\ UNCHANGED lost
             \/ /\ journal = "open" /\ Faulty /\ Answers("failed")
                /\ lost' = lost \cup {c}
                /\ UNCHANGED <<journal, table>>
      PROVE  IInv'
  <2> DEFINE actors == [dom.actors EXCEPT ![c] = "running"]
  <2>1. actors \in [Children -> {"absent", "running", "succeeded", "failed",
                                 "cancelled"}]
    BY <1>2 DEF Snapshot
  <2>2. /\ actors[c] = "running"
        /\ \A x \in Children : x # c => actors[x] = dom.actors[x]
    BY <1>2 DEF Snapshot
  <2>3. dom' = [dom EXCEPT !.actors = actors]
    BY <1>4
  <2> HIDE DEF actors
  <2>4. /\ dom' \in Snapshot /\ dom'.directors = dom.directors
        /\ dom'.open = dom.open /\ dom'.actors = actors
    BY <1>2, <2>1, <2>3 DEF Snapshot
  <2>5. past # None => past.actors[c] = "absent"
    BY <1>4 DEF Fresh
  <2>6. CASE /\ Appends
             /\ table' = [x \in DOMAIN table \cup {c} |->
                            IF x = c THEN [cancel |-> FALSE, result |-> "none"]
                            ELSE table[x]]
             /\ turn' = [turn EXCEPT !.batch = @ - 1]
             /\ lost' = lost
    <3>1. turn.batch - 1 \in 0 .. MaxChildren
      BY <1>1, <1>2, TurnsAssumption DEF Turn
    <3>2. /\ turn' \in Turn /\ turn'.n = turn.n /\ turn'.pc = turn.pc
          /\ turn'.result = turn.result /\ turn'.begun = turn.begun
          /\ turn'.invoked = turn.invoked /\ turn'.executed = turn.executed
          /\ turn'.calls = turn.calls
      BY <1>2, <2>6, <3>1 DEF Turn
    <3>3. Continues /\ AtWork' = AtWork /\ InTurn'
      BY <1>1, <1>2, <2>4, <3>2 DEF Continues, InTurn, AtWork, ToolCall, Assistant
    <3>4. /\ DOMAIN table' = DOMAIN table \cup {c}
          /\ \A x \in DOMAIN table' : table'[x] =
               IF x = c THEN [cancel |-> FALSE, result |-> "none"]
               ELSE table[x]
      BY <2>6
    <3>5. \A x \in DOMAIN table' : table'[x] \in Handle
      <4>1. [cancel |-> FALSE, result |-> "none"] \in Handle
        BY DEF Handle
      <4> QED
        BY <1>2, <3>4, <4>1 DEF Typed
    <3>6. Typed'
      BY <1>2, <2>4, <2>6, <3>4, <3>5 DEF Typed, Appends
    <3>7. LostInv'
      BY <1>1, <2>6, <3>2, LostStep
    <3>8. OpenInv'
      BY <1>2, <2>4, <2>6, <3>3, OpenSame
    <3>9. Owned'
      <4>1. DOMAIN table \subseteq Children
        BY <1>2 DEF Typed
      <4> QED
        BY <1>1, <1>2, <2>2, <2>4, <2>5, <2>6, <3>4, <4>1 DEF Owned
    <3> QED
      BY <1>1, <3>3, <3>6, <3>7, <3>8, <3>9, TurnStep DEF ActorInv
  <2>7. CASE /\ journal = "open" /\ Faulty /\ Answers("failed")
             /\ lost' = lost \cup {c}
             /\ UNCHANGED <<journal, table>>
    <3>1. Continues /\ AtWork' = {ToolCall} /\ turn'.n = turn.n
      BY <1>1, <2>4, <2>7, AnswersStep
    <3>2. faults' \in 0 .. MaxFaults
      BY <1>2, <2>7, AppendType
    <3>3. Typed'
      BY <1>2, <2>4, <2>7, <3>2 DEF Typed
    <3>4. LostInv'
      BY <1>1, <2>7, <3>1, LostStep
    <3>5. OpenInv'
      BY <1>2, <2>4, <2>7, <3>1, OpenSame
    <3>6. c \notin DOMAIN table
      BY <1>4 DEF Fresh
    <3>7. Owned'
      <4>1. DOMAIN table \subseteq Children
        BY <1>2 DEF Typed
      <4> QED
        BY <1>1, <1>2, <2>2, <2>4, <2>7, <3>6, <4>1 DEF Owned
    <3> QED
      BY <1>1, <3>1, <3>3, <3>4, <3>5, <3>7, TurnStep DEF ActorInv
  <2> QED
    BY <1>4, <2>6, <2>7
<1> QED
  BY <1>3, <1>4 DEF SpawnChild

\* The walk's stack is written to the snapshot as it is, so that a ForceTool which
\* was there is there still, and the turn ends well only past one that gave up.
LEMMA YieldInv ==
    ASSUME IInv, Yield
    PROVE  IInv'
<1>1. /\ InTurn /\ At("Yield")
      /\ UNCHANGED <<table, cancelled, role, lost, past>>
  BY DEF Yield, At, InTurn
<1>2. /\ TypeOK /\ Typed /\ ~At("Down") /\ dom \in Snapshot /\ turn \in Turn
      /\ dom.open \ lost = {} /\ AtWork = {}
      /\ turn.executed \subseteq turn.invoked /\ turn.result # "ok"
      /\ stack = dom.directors /\ dom.directors \in Seq(Director)
      /\ Distinct(dom.directors)
      /\ dom.todo \in BOOLEAN /\ journal \in {"open", "failed"}
      /\ faults \in 0 .. MaxFaults
  BY <1>1, Under, Types DEF At, AtWork, TypeOK
<1> DEFINE seen == turn.executed
           had == dom.directors
<1>3. PICK answer \in BOOLEAN :
        LET walk == HandleYield(seen, answer)
            directors == Synced(walk.stack)
        IN  /\ stack' = walk.stack
            /\ \/ /\ directors = had \/ journal = "open"
                  /\ dom' = [dom EXCEPT !.directors = directors]
                  /\ CASE walk.says = "Continue" -> Goes("Steer")
                       [] walk.says = "Fail" -> Ends("error")
                       [] OTHER -> Ends("ok")
                  /\ UNCHANGED <<journal, faults>>
               \/ /\ directors # had /\ Refuses
                  /\ Ends("error") /\ UNCHANGED dom
  BY DEF Yield
<1> DEFINE says == HandleYield(seen, answer).says
<1>4. PICK after, kept :
        /\ Walk(had, seen, after, kept)
        /\ HandleYield(seen, answer).stack = Picked(after, kept)
        /\ LetsGo(had, seen, says, after, kept)
  BY <1>2, WalkStep
<1> DEFINE w == Picked(after, kept)
<1>5. w \in Seq(Director) /\ Distinct(w)
  BY <1>2, <1>4, WalkDistinct
<1>6. Synced(w) = w
  BY <1>2, <1>4, SyncedStep
<1>7. ASSUME NEW p \in DOMAIN had, had[p].kind = "ForceTool",
             had[p].tool \notin seen
      PROVE  \E j \in DOMAIN w :
               /\ Holds(had[p], w[j])
               /\ says \notin {"Continue", "Fail"} =>
                    \E k \in DOMAIN w : k >= j /\ GaveUp(w[k])
  <2> HIDE DEF says
  <2> QED
    BY <1>2, <1>4, <1>7, WalkKeeps
<1>8. /\ stack' = w
      /\ \/ /\ w = had \/ journal = "open"
            /\ dom' = [dom EXCEPT !.directors = w]
            /\ \/ says = "Continue" /\ Goes("Steer")
               \/ says = "Fail" /\ Ends("error")
               \/ says \notin {"Continue", "Fail"} /\ Ends("ok")
            /\ UNCHANGED <<journal, faults>>
         \/ Refuses /\ Ends("error") /\ UNCHANGED dom
  BY <1>3, <1>4, <1>6
<1> HIDE DEF says, w, had, seen
<1>9. CASE /\ dom' = [dom EXCEPT !.directors = w]
           /\ \/ says = "Continue" /\ Goes("Steer")
              \/ says = "Fail" /\ Ends("error")
              \/ says \notin {"Continue", "Fail"} /\ Ends("ok")
           /\ UNCHANGED <<journal, faults>>
  <2>1. /\ dom' \in Snapshot /\ dom'.directors = w
        /\ dom'.open = dom.open /\ dom'.actors = dom.actors
    BY <1>2, <1>5, <1>9 DEF Snapshot
  <2>2. /\ turn' \in Turn /\ turn'.n = turn.n /\ turn'.begun = turn.begun
        /\ turn'.invoked = turn.invoked
        /\ turn'.executed \subseteq turn'.invoked
        /\ turn'.pc \in {"Steer", "Idle"} /\ AtWork' = {}
        /\ turn'.result # "ok" \/ says \notin {"Continue", "Fail"}
        /\ InTurn' => turn'.result # "ok"
    <3>1. CASE says = "Continue" /\ Goes("Steer")
      <4>1. /\ turn' \in Turn /\ turn'.n = turn.n /\ turn'.pc = "Steer"
            /\ turn'.result = turn.result /\ turn'.begun = turn.begun
            /\ turn'.invoked = turn.invoked /\ turn'.executed = turn.executed
        BY <1>2, <3>1 DEF Goes, Turn
      <4> QED
        BY <1>2, <4>1 DEF AtWork
    <3>2. ASSUME NEW result \in {"error", "ok"}, Ends(result),
                 result = "ok" => says \notin {"Continue", "Fail"}
          PROVE  /\ turn' \in Turn /\ turn'.n = turn.n /\ turn'.begun = turn.begun
                 /\ turn'.invoked = turn.invoked
                 /\ turn'.executed \subseteq turn'.invoked
                 /\ turn'.pc \in {"Steer", "Idle"} /\ AtWork' = {}
                 /\ turn'.result # "ok" \/ says \notin {"Continue", "Fail"}
                 /\ InTurn' => turn'.result # "ok"
      <4>1. /\ turn' \in Turn /\ turn'.n = turn.n /\ turn'.pc = "Idle"
            /\ turn'.result = result /\ turn'.begun = turn.begun
            /\ turn'.invoked = turn.invoked /\ turn'.executed = {}
        BY <1>2, <3>2, EndedType DEF Ends
      <4> QED
        BY <3>2, <4>1 DEF AtWork, InTurn
    <3> QED
      BY <1>9, <3>1, <3>2
  <2>3. LostInv'
    BY <1>1, <2>2, LostStep
  <2>4. OpenInv'
    BY <1>1, <1>2, <2>1, <2>2 DEF OpenInv
  <2>5. ActorInv'
    BY <1>1, <1>2, <2>1, OwnedSame
  <2>6. TurnInv'
    BY <1>8, <2>1, <2>2 DEF TurnInv, InTurn
  <2>7. IdsInv'
    BY <1>1, <1>5, <2>1 DEF IInv, IdsInv
  <2>8. ForceInv'
    <3> SUFFICES ASSUME NEW i \in DOMAIN turn.begun,
                        turn.begun[i].kind = "ForceTool",
                        turn.begun[i].tool \notin turn.invoked
                 PROVE  \E j \in DOMAIN w :
                          /\ Holds(turn.begun[i], w[j])
                          /\ turn'.result = "ok" =>
                               \E k \in DOMAIN w : k >= j /\ GaveUp(w[k])
      BY <2>1, <2>2 DEF ForceInv
    <3>1. PICK p \in DOMAIN had : Holds(turn.begun[i], had[p])
      BY DEF IInv, ForceInv, had
    <3>2. had[p].kind = "ForceTool" /\ had[p].tool \notin seen
      BY <1>2, <3>1 DEF Holds, seen
    <3>3. PICK j \in DOMAIN w :
            /\ Holds(had[p], w[j])
            /\ says \notin {"Continue", "Fail"} =>
                 \E k \in DOMAIN w : k >= j /\ GaveUp(w[k])
      BY <1>7, <3>2
    <3>4. Holds(turn.begun[i], w[j])
      <4>1. /\ turn.begun[i] \in Director /\ had[p] \in Director
            /\ w[j] \in Director
        BY <1>2, <1>5, <3>1, Types, ElementOfSeq DEF had
      <4>2. \A d \in Director : d.kind = "ForceTool" => d.attempts \in Nat
        BY DEF Director, ForceTool, TodoReminder, PlanMode, GoalCompletion
      <4> QED
        BY <3>1, <3>3, <4>1, <4>2 DEF Holds
    <3> QED
      BY <2>2, <3>3, <3>4
  <2>9. TypeOK'
    BY <1>1, <1>2, <1>5, <1>8, <1>9, <2>1, <2>2 DEF TypeOK
  <2> QED
    BY <2>3, <2>4, <2>5, <2>6, <2>7, <2>8, <2>9 DEF IInv
<1>10. CASE Refuses /\ Ends("error") /\ UNCHANGED dom
  <2>1. /\ turn' \in Turn /\ turn'.n = turn.n /\ turn'.pc = "Idle"
        /\ turn'.result = "error" /\ turn'.begun = turn.begun
        /\ turn'.invoked = turn.invoked /\ turn'.executed = {}
    BY <1>2, <1>10, EndedType DEF Ends
  <2>2. AtWork' = {} /\ ~InTurn'
    BY <2>1 DEF AtWork, InTurn
  <2>3. LostInv'
    BY <1>1, <2>1, LostStep
  <2>4. OpenInv'
    BY <1>1, <1>2, <1>10, <2>2 DEF OpenInv
  <2>5. ActorInv'
    BY <1>1, <1>2, <1>10, OwnedSame
  <2>6. TurnInv'
    BY <2>1, <2>2 DEF TurnInv, InTurn
  <2>7. IdsInv'
    BY <1>1, <1>10 DEF IInv, IdsInv
  <2>8. ForceInv'
    BY <1>10, <2>1, ForceSame DEF IInv
  <2>9. TypeOK'
    <3>1. journal' \in {"open", "failed"} /\ faults' \in 0 .. MaxFaults
      BY <1>2, <1>10, AppendType
    <3> QED
      BY <1>1, <1>2, <1>5, <1>8, <1>10, <2>1, <3>1 DEF TypeOK
  <2> QED
    BY <2>3, <2>4, <2>5, <2>6, <2>7, <2>8, <2>9 DEF IInv
<1> QED
  BY <1>8, <1>9, <1>10

-----------------------------------------------------------------------------
(* The steps outside of a turn, and those of others. *)

\* The turn goes on as it was, or is not under way.
LEMMA CalmStep ==
    ASSUME IInv, turn'.begun = turn.begun, turn'.invoked = turn.invoked,
           turn'.executed \subseteq turn'.invoked,
           turn'.result = turn.result \/ turn'.result # "ok",
           \/ turn' = turn /\ UNCHANGED stack
           \/ turn'.pc \in {"Idle", "Exit", "Down"},
           dom'.directors = dom.directors
    PROVE  TurnInv' /\ ForceInv'
<1>1. ForceInv'
  BY ForceSame DEF IInv
<1>2. TurnInv'
  BY DEF IInv, TurnInv, InTurn
<1> QED
  BY <1>1, <1>2

\* A turn begins with the Directors of the snapshot, under a number that no
\* element left behind has.
LEMMA StartTurnInv ==
    ASSUME IInv, StartTurn
    PROVE  IInv'
<1>1. /\ At("Idle") /\ turn.n < MaxTurns /\ stack' = dom.directors
      /\ UNCHANGED <<dom, table, cancelled, role, lost, past>>
      /\ Appends \/ Refuses
  BY DEF StartTurn
<1>2. /\ TypeOK /\ dom \in Snapshot /\ turn \in Turn
      /\ dom.directors \in Seq(Director)
      /\ ~At("Down") /\ dom.open \ lost = {}
      /\ turn.n \in 0 .. MaxTurns /\ MaxTurns \in Nat
  BY <1>1, Types DEF IInv, OpenInv, AtWork, At
<1> DEFINE n == turn.n + 1
           begun == [turn EXCEPT !.n = n, !.pc = "Step", !.step = 0,
                                 !.executed = {}, !.invoked = {},
                                 !.result = None, !.begun = dom.directors]
<1>3. n \in 0 .. MaxTurns /\ 0 \in 0 .. MaxTurnSteps /\ 0 \in 0 .. MaxChildren
      /\ <<>> \in Seq(Tools)
  BY <1>1, <1>2, TurnsAssumption
<1>4. \/ Appends /\ turn' = begun
      \/ Refuses /\ turn' = Ended(begun, "error")
  BY DEF StartTurn
<1> HIDE DEF n
<1>5. /\ begun \in Turn /\ begun.n = n /\ begun.pc = "Step"
      /\ begun.executed = {} /\ begun.invoked = {} /\ begun.result = None
      /\ begun.begun = dom.directors
  BY <1>2, <1>3 DEF Turn
<1> HIDE DEF begun
<1>6. /\ turn' \in Turn /\ turn'.n = n /\ turn'.pc \in {"Step", "Idle"}
      /\ turn'.executed = {} /\ turn'.invoked = {} /\ turn'.result # "ok"
      /\ turn'.begun = dom.directors
  <2>1. CASE turn' = begun
    BY <1>5, <2>1, TurnsAssumption
  <2>2. CASE turn' = Ended(begun, "error")
    <3>1. /\ turn' \in Turn /\ turn'.n = n /\ turn'.pc = "Idle"
          /\ turn'.executed = {} /\ turn'.invoked = {}
          /\ turn'.result = "error" /\ turn'.begun = dom.directors
      BY <1>3, <1>5, <2>2 DEF Ended, Turn
    <3> QED
      BY <3>1
  <2> QED
    BY <1>4, <2>1, <2>2
<1>7. TypeOK'
  <2>1. journal' \in {"open", "failed"} /\ faults' \in 0 .. MaxFaults
    BY <1>1, <1>2, AppendType
  <2> QED
    BY <1>1, <1>2, <1>6, <2>1 DEF TypeOK
<1>8. LostInv'
  <2>1. \A k \in 0 .. MaxTurns : k > n \/ k = n => k > turn.n
    BY <1>2 DEF n
  <2>2. \A k \in 0 .. MaxTurns : k > n => k > turn.n
    BY <2>1
  <2>3. lost' = lost /\ past' = past /\ turn'.n = n
    BY <1>1, <1>6
  <2> QED
    BY <2>1, <2>2, <2>3 DEF IInv, LostInv
<1>9. OpenInv'
  BY <1>1, <1>2, <1>6 DEF OpenInv, AtWork
<1>10. ActorInv'
  BY <1>1, <1>2, OwnedSame
<1>11. TurnInv'
  BY <1>1, <1>6 DEF TurnInv
<1>12. IdsInv'
  BY <1>1 DEF IInv, IdsInv
<1>13. ForceInv'
  <2>1. \A d \in Director : d.kind = "ForceTool" => d.attempts \in Nat
    BY DEF Director, ForceTool, TodoReminder, PlanMode, GoalCompletion
  <2>2. \A i \in DOMAIN dom.directors :
          dom.directors[i].kind = "ForceTool" =>
            Holds(dom.directors[i], dom.directors[i])
    BY <1>2, <2>1, ElementOfSeq DEF Holds
  <2>3. dom' = dom
    BY <1>1
  <2> QED
    BY <1>6, <2>2, <2>3 DEF ForceInv
<1> QED
  BY <1>7, <1>8, <1>9, <1>10, <1>11, <1>12, <1>13 DEF IInv

\* The idle worker polls as a turn does.
LEMMA IdlePollInv ==
    ASSUME IInv, IdlePoll
    PROVE  IInv'
<1>1. /\ At("Idle")
      /\ PollSettles \/ PollRefused
      /\ UNCHANGED <<stack, turn, cancelled, role, past>>
  BY DEF IdlePoll
<1>2. TypeOK /\ ~At("Down") /\ AtWork' = AtWork
  BY <1>1 DEF IInv, At, AtWork, Assistant, ToolCall
<1>3. /\ dom' \in Snapshot /\ dom'.directors = dom.directors
      /\ dom'.open = dom.open
      /\ lost \subseteq lost' /\ lost' \subseteq lost \cup Children
      /\ journal' \in {"open", "failed"} /\ faults' \in 0 .. MaxFaults
      /\ DOMAIN table' \subseteq Children
      /\ \A c \in DOMAIN table' : table'[c] \in Handle
      /\ Owned'
  BY <1>1, <1>2, PollStep
<1>4. TypeOK'
  BY <1>1, <1>2, <1>3 DEF TypeOK
<1>5. LostInv'
  BY <1>1, <1>3, LostStep DEF InTurn
<1>6. OpenInv'
  BY <1>2, <1>3, OpenSame
<1>7. ActorInv'
  BY <1>3 DEF ActorInv
<1>8. TurnInv' /\ ForceInv'
  BY <1>1, <1>3, CalmStep DEF IInv, TurnInv
<1>9. IdsInv'
  BY <1>1, <1>3 DEF IInv, IdsInv
<1> QED
  BY <1>4, <1>5, <1>6, <1>7, <1>8, <1>9 DEF IInv

\* A Director more, innermost, under an id of its own.
LEMMA PushForceInv ==
    ASSUME IInv, PushForce
    PROVE  IInv'
<1>1. /\ At("Idle") /\ Appends
      /\ UNCHANGED <<stack, turn, table, cancelled, role, lost, past>>
  BY DEF PushForce
<1>2. /\ TypeOK /\ dom \in Snapshot /\ dom.directors \in Seq(Director)
      /\ ~At("Down") /\ dom.open \ lost = {}
      /\ turn.begun \in Seq(Director)
  BY <1>1, Types DEF IInv, OpenInv, AtWork, At
<1> DEFINE had == dom.directors
           m == Len(had)
<1>3. PICK force \in Forces :
        /\ \A d \in ToSet(had \o turn.begun) : d.id # force.id
        /\ dom' = [dom EXCEPT !.directors = Append(had, force)]
  BY DEF PushForce
<1> DEFINE has == Append(had, force)
<1>4. force \in Director
  BY TurnsAssumption DEF Director
<1>5. /\ m \in Nat /\ DOMAIN had = 1 .. m
      /\ has \in Seq(Director) /\ DOMAIN has = 1 .. m + 1
      /\ has[m + 1] = force
      /\ \A i \in 1 .. m : has[i] = had[i]
  BY <1>2, <1>4, AppendProperties, LenProperties
<1>6. \A i \in 1 .. m : had[i].id # force.id
  <2>1. ASSUME NEW i \in 1 .. m
        PROVE  had[i] \in ToSet(had \o turn.begun)
    <3> DEFINE all == had \o turn.begun
    <3>1. /\ had \in Seq(Director) /\ turn.begun \in Seq(Director)
          /\ Len(turn.begun) \in Nat /\ i \in 1 .. Len(had)
      BY <1>2, LenProperties
    <3> HIDE DEF had, m
    <3>2. /\ all \in Seq(Director) /\ Len(all) = Len(had) + Len(turn.begun)
          /\ all[i] = had[i]
      BY <3>1, ConcatProperties
    <3>4. DOMAIN all = 1 .. Len(all)
      BY <3>2, LenProperties
    <3> HIDE DEF all
    <3>3. i \in DOMAIN all
      BY <1>5, <3>1, <3>2, <3>4 DEF m
    <3> QED
      BY <3>2, <3>3 DEF ToSet, all
  <2> QED
    BY <1>3, <2>1
<1> HIDE DEF has, m
<1>7. /\ dom' \in Snapshot /\ dom'.directors = has /\ dom'.open = dom.open
      /\ dom'.actors = dom.actors
  BY <1>2, <1>3, <1>5 DEF Snapshot, has
<1>8. \A i \in DOMAIN had : i \in DOMAIN has /\ has[i] = had[i]
  BY <1>5
<1>9. TypeOK'
  BY <1>1, <1>2, <1>7 DEF TypeOK, Appends
<1>10. LostInv'
  BY <1>1 DEF IInv, LostInv, InTurn
<1>11. OpenInv'
  BY <1>1, <1>2, <1>7 DEF OpenInv, AtWork, At
<1>12. ActorInv'
  BY <1>1, <1>2, <1>7, OwnedSame
<1>13. TurnInv'
  BY <1>1 DEF IInv, TurnInv, InTurn, At
<1>14. IdsInv'
  <2>1. Distinct(has)
    <3>1. \A i \in 1 .. m + 1 : i = m + 1 \/ i \in 1 .. m
      BY <1>5
    <3>2. \A i, j \in 1 .. m : had[i].id = had[j].id => i = j
      BY <1>5 DEF IInv, IdsInv, Distinct
    <3> QED
      BY <1>5, <1>6, <3>1, <3>2 DEF Distinct
  <2> QED
    BY <1>1, <1>7, <2>1 DEF IInv, IdsInv
<1>15. ForceInv'
  <2> SUFFICES ASSUME NEW i \in DOMAIN turn.begun,
                      turn.begun[i].kind = "ForceTool",
                      turn.begun[i].tool \notin turn.invoked
               PROVE  \E j \in DOMAIN has :
                        /\ Holds(turn.begun[i], has[j])
                        /\ turn.result = "ok" =>
                             \E k \in DOMAIN has : k >= j /\ GaveUp(has[k])
    BY <1>1, <1>7 DEF ForceInv
  <2>1. PICK j \in DOMAIN had :
          /\ Holds(turn.begun[i], had[j])
          /\ turn.result = "ok" =>
               \E k \in DOMAIN had : k >= j /\ GaveUp(had[k])
    BY DEF IInv, ForceInv
  <2> QED
    BY <1>8, <2>1
<1> QED
  BY <1>9, <1>10, <1>11, <1>12, <1>13, <1>14, <1>15 DEF IInv

\* The handles change, and who is in the table does not.
LEMMA TableStep ==
    ASSUME IInv,
           UNCHANGED <<dom, journal, stack, turn, cancelled, role, lost, past>>,
           faults' \in 0 .. MaxFaults, DOMAIN table' = DOMAIN table,
           \A c \in DOMAIN table : table'[c] \in Handle
    PROVE  IInv'
<1>1. TypeOK'
  BY DEF IInv, TypeOK
<1>2. LostInv' /\ OpenInv' /\ TurnInv' /\ IdsInv' /\ ForceInv'
  BY DEF IInv, LostInv, OpenInv, TurnInv, IdsInv, ForceInv, InTurn, At, AtWork,
         Assistant, ToolCall
<1>3. ActorInv'
  BY DEF IInv, ActorInv, Owned, At
<1> QED
  BY <1>1, <1>2, <1>3 DEF IInv

\* /cancel of a child raises a flag.
LEMMA CancelChildInv ==
    ASSUME IInv, CancelChild
    PROVE  IInv'
<1>1. PICK c \in DOMAIN table : table' = [table EXCEPT ![c].cancel = TRUE]
  BY DEF CancelChild
<1>2. \A x \in DOMAIN table : table[x] \in Handle
  BY DEF IInv, TypeOK
<1> DEFINE h == [table[c] EXCEPT !.cancel = TRUE]
<1>3. h \in Handle
  <2>1. TRUE \in BOOLEAN /\ table[c] \in Handle
    BY <1>2
  <2> QED
    BY <2>1 DEF Handle
<1>4. table' = [table EXCEPT ![c] = h]
  BY <1>1
<1> HIDE DEF h
<1>5. /\ DOMAIN table' = DOMAIN table
      /\ \A x \in DOMAIN table : table'[x] \in Handle
  BY <1>2, <1>3, <1>4
<1>6. faults' \in 0 .. MaxFaults
  BY DEF CancelChild, IInv, TypeOK
<1> QED
  BY <1>5, <1>6, TableStep DEF CancelChild

\* A child's thread ends and its handle stays until the next poll.
LEMMA ChildEndsInv ==
    ASSUME IInv, NEW c \in Children, ChildEnds(c)
    PROVE  IInv'
<1>1. PICK result \in {"succeeded", "failed", "cancelled", "gone"} :
        /\ table' = [table EXCEPT ![c].result = result]
        /\ IF result = "gone" THEN Faulty ELSE UNCHANGED faults
  BY DEF ChildEnds
<1>2. /\ \A x \in DOMAIN table : table[x] \in Handle
      /\ c \in DOMAIN table
  BY DEF IInv, TypeOK, ChildEnds
<1> DEFINE h == [table[c] EXCEPT !.result = result]
<1>3. h \in Handle
  BY <1>2 DEF Handle
<1>4. table' = [table EXCEPT ![c] = h]
  BY <1>1
<1> HIDE DEF h
<1>5. /\ DOMAIN table' = DOMAIN table
      /\ \A x \in DOMAIN table : table'[x] \in Handle
  BY <1>2, <1>3, <1>4
<1>6. faults' \in 0 .. MaxFaults
  BY <1>1, TurnsAssumption DEF IInv, TypeOK, Faulty
<1> QED
  BY <1>5, <1>6, TableStep DEF ChildEnds

\* The parent raises the flag of a child host.
LEMMA CancelInv ==
    ASSUME IInv, Cancel
    PROVE  IInv'
<1>1. /\ UNCHANGED <<dom, journal, stack, turn, table, role, lost, past, faults>>
      /\ cancelled' = TRUE /\ role = "child" /\ TRUE \in BOOLEAN
  BY DEF Cancel
<1>2. TypeOK'
  BY <1>1 DEF IInv, TypeOK
<1>3. LostInv' /\ OpenInv' /\ TurnInv' /\ IdsInv' /\ ForceInv' /\ ActorInv'
  BY <1>1 DEF IInv, LostInv, OpenInv, TurnInv, IdsInv, ForceInv, ActorInv,
              Owned, InTurn, At, AtWork, Assistant, ToolCall
<1> QED
  BY <1>2, <1>3 DEF IInv

\* What is open at the offset is what was left behind or is at work.
LEMMA RememberInv ==
    ASSUME IInv, Remember
    PROVE  IInv'
<1>1. /\ UNCHANGED <<dom, journal, stack, turn, cancelled, table, role, lost>>
      /\ past' = dom /\ Faulty /\ turn.pc # "Down"
  BY TurnsAssumption DEF Remember
<1>2. TypeOK'
  <2>1. faults' \in 0 .. MaxFaults
    BY <1>1, TurnsAssumption DEF IInv, TypeOK, Faulty
  <2> QED
    BY <1>1, <2>1 DEF IInv, TypeOK
<1>3. LostInv'
  <2>1. turn.n \in 0 .. MaxTurns /\ MaxTurns \in Nat
    BY Types DEF IInv
  <2>2. dom.open \subseteq lost \cup {Assistant, ToolCall}
    BY <1>1 DEF IInv, OpenInv, At, AtWork
  <2>3. ASSUME NEW kind \in Kinds, NEW n \in 0 .. MaxTurns, n > turn.n
        PROVE  <<kind, n>> \notin dom.open
    <3>1. <<kind, n>> \notin lost
      BY <2>3 DEF IInv, LostInv
    <3>2. <<kind, n>> # Assistant /\ <<kind, n>> # ToolCall
      BY <2>1, <2>3 DEF Assistant, ToolCall
    <3> QED
      BY <2>2, <3>1, <3>2
  <2>4. turn' = turn /\ lost' = lost /\ past' = dom
    BY <1>1
  <2> QED
    BY <2>3, <2>4 DEF IInv, LostInv, InTurn
<1>4. OpenInv' /\ TurnInv' /\ ForceInv'
  BY <1>1 DEF IInv, OpenInv, TurnInv, ForceInv, InTurn, At, AtWork, Assistant,
              ToolCall
<1>5. IdsInv'
  BY <1>1 DEF IInv, IdsInv
<1>6. ActorInv'
  BY <1>1 DEF IInv, ActorInv, Owned, At
<1> QED
  BY <1>2, <1>3, <1>4, <1>5, <1>6 DEF IInv

\* What ran at the offset, with no handle now, is left behind.
LEMMA ForkInv ==
    ASSUME IInv, Fork
    PROVE  IInv'
<1> DEFINE left == {c \in Children \ DOMAIN table : past.actors[c] = "running"}
<1>1. /\ At("Idle") /\ past # None
      /\ dom' = past /\ lost' = past.open \cup left
      /\ turn' = [turn EXCEPT !.begun = <<>>, !.result = None]
      /\ past' = None
      /\ UNCHANGED <<journal, stack, table, cancelled, role, faults>>
  BY DEF Fork
<1>2. /\ past \in Snapshot /\ past.open \subseteq Element
      /\ ~At("Down") /\ TypeOK /\ turn \in Turn
  BY <1>1 DEF IInv, TypeOK, Snapshot, At
<1>3. /\ turn' \in Turn /\ turn'.n = turn.n /\ turn'.pc = "Idle"
      /\ turn'.begun = <<>>
      /\ turn'.executed = turn.executed /\ turn'.invoked = turn.invoked
  <2>1. <<>> \in Seq(Director)
    OBVIOUS
  <2> QED
    BY <1>1, <1>2, <2>1 DEF Turn, At
<1>4. TypeOK'
  BY <1>1, <1>2, <1>3 DEF TypeOK
<1>5. LostInv'
  <2>1. \A kind \in Kinds, n \in 0 .. MaxTurns : <<kind, n>> \notin left
    BY TurnsAssumption DEF Element, Kinds
  <2>2. \A kind \in Kinds, n \in 0 .. MaxTurns :
          n > turn.n => <<kind, n>> \notin past.open
    BY <1>1 DEF IInv, LostInv
  <2>3. \A kind \in Kinds, n \in 0 .. MaxTurns :
          n > turn.n => <<kind, n>> \notin lost'
    BY <1>1, <2>1, <2>2
  <2> QED
    BY <1>1, <1>3, <2>3 DEF LostInv, InTurn
<1>6. OpenInv'
  BY <1>1, <1>3 DEF OpenInv, AtWork
<1>7. ActorInv'
  BY <1>1, <1>2 DEF IInv, ActorInv, Owned
<1>8. TurnInv'
  BY <1>3 DEF IInv, TurnInv, InTurn
<1>9. IdsInv'
  BY <1>1 DEF IInv, IdsInv
<1>10. ForceInv'
  BY <1>3 DEF ForceInv
<1> QED
  BY <1>4, <1>5, <1>6, <1>7, <1>8, <1>9, <1>10 DEF IInv

\* Every handle is told to stop.
LEMMA ShutdownInv ==
    ASSUME IInv, Shutdown
    PROVE  IInv'
<1>1. /\ At("Idle") /\ Goes("Exit")
      /\ table' = [c \in DOMAIN table |-> [table[c] EXCEPT !.cancel = TRUE]]
      /\ UNCHANGED <<dom, journal, stack, cancelled, role, lost, past, faults>>
  BY DEF Shutdown
<1>2. TypeOK /\ turn \in Turn /\ ~At("Down")
  BY <1>1 DEF IInv, TypeOK, At
<1>3. /\ turn' \in Turn /\ turn'.n = turn.n /\ turn'.pc = "Exit"
      /\ turn'.begun = turn.begun /\ turn'.result = turn.result
      /\ turn'.executed = turn.executed /\ turn'.invoked = turn.invoked
  BY <1>1, <1>2 DEF Goes, Turn
<1>4. /\ DOMAIN table' = DOMAIN table
      /\ \A c \in DOMAIN table : table'[c] \in Handle
  <2>1. \A c \in DOMAIN table : [table[c] EXCEPT !.cancel = TRUE] \in Handle
    <3>1. TRUE \in BOOLEAN /\ \A c \in DOMAIN table : table[c] \in Handle
      BY <1>2 DEF TypeOK
    <3> QED
      BY <3>1 DEF Handle
  <2> QED
    BY <1>1, <2>1
<1>5. TypeOK'
  BY <1>1, <1>2, <1>3, <1>4 DEF TypeOK
<1>6. LostInv'
  BY <1>1, <1>3, LostStep DEF InTurn
<1>7. OpenInv'
  BY <1>1, <1>3 DEF IInv, OpenInv, AtWork, At
<1>8. ActorInv'
  BY <1>1, <1>2, <1>4, OwnedSame
<1>9. TurnInv' /\ ForceInv'
  BY <1>1, <1>3, CalmStep DEF IInv, TurnInv
<1>10. IdsInv'
  BY <1>1 DEF IInv, IdsInv
<1> QED
  BY <1>5, <1>6, <1>7, <1>8, <1>9, <1>10 DEF IInv

\* The shutdown polls; the process ends with the table empty, or by an error.
LEMMA ExitInv ==
    ASSUME IInv, Exit
    PROVE  IInv'
<1>1. /\ At("Exit")
      /\ PollSettles \/ PollRefused
      /\ Goes("Down") \/ UNCHANGED turn
      /\ UNCHANGED <<stack, cancelled, role, past>>
  BY DEF Exit
<1>2. TypeOK /\ turn \in Turn /\ ~At("Down")
  BY <1>1 DEF IInv, TypeOK, At
<1>3. /\ dom' \in Snapshot /\ dom'.directors = dom.directors
      /\ dom'.open = dom.open
      /\ lost \subseteq lost' /\ lost' \subseteq lost \cup Children
      /\ journal' \in {"open", "failed"} /\ faults' \in 0 .. MaxFaults
      /\ DOMAIN table' \subseteq Children
      /\ \A c \in DOMAIN table' : table'[c] \in Handle
      /\ Owned'
  BY <1>1, <1>2, PollStep
<1>4. /\ turn' \in Turn /\ turn'.n = turn.n /\ turn'.pc \in {"Exit", "Down"}
      /\ turn'.begun = turn.begun /\ turn'.result = turn.result
      /\ turn'.executed = turn.executed /\ turn'.invoked = turn.invoked
  BY <1>1, <1>2 DEF Goes, Turn, At
<1>5. TypeOK'
  BY <1>1, <1>2, <1>3, <1>4 DEF TypeOK
<1>6. LostInv'
  BY <1>1, <1>3, <1>4, LostStep DEF InTurn
<1>7. OpenInv'
  <2>1. AtWork' = {} /\ AtWork = {}
    BY <1>1, <1>4 DEF AtWork, At
  <2> QED
    BY <1>2, <1>3, <2>1, OpenSame
<1>8. ActorInv'
  BY <1>3 DEF ActorInv
<1>9. TurnInv' /\ ForceInv'
  BY <1>1, <1>3, <1>4, CalmStep DEF IInv, TurnInv
<1>10. IdsInv'
  BY <1>1, <1>3 DEF IInv, IdsInv
<1> QED
  BY <1>5, <1>6, <1>7, <1>8, <1>9, <1>10 DEF IInv

\* The process dies, with its threads.
LEMMA CrashInv ==
    ASSUME IInv, Crash
    PROVE  IInv'
<1> DEFINE result == IF At("Idle") THEN turn.result ELSE "error"
           ended == Ended(turn, result)
<1>1. /\ ~At("Down") /\ Faulty
      /\ turn' = [ended EXCEPT !.pc = "Down"]
      /\ table' = <<>>
      /\ UNCHANGED <<dom, journal, stack, cancelled, role, lost, past>>
  BY DEF Crash
<1>2. TypeOK /\ turn \in Turn
  BY DEF IInv, TypeOK
<1>3. result \in {None, "ok", "error"}
      /\ (result = turn.result \/ result # "ok")
  BY <1>2 DEF Turn
<1> HIDE DEF result
<1>4. /\ ended \in Turn /\ ended.n = turn.n /\ ended.result = result
      /\ ended.begun = turn.begun /\ ended.invoked = turn.invoked
      /\ ended.executed = {}
  BY <1>2, <1>3, EndedType
<1> HIDE DEF ended
<1>5. /\ turn' \in Turn /\ turn'.n = turn.n /\ turn'.pc = "Down"
      /\ turn'.result = result /\ turn'.begun = turn.begun
      /\ turn'.invoked = turn.invoked /\ turn'.executed = {}
  BY <1>1, <1>4 DEF Turn
<1>6. TypeOK'
  <2>1. faults' \in 0 .. MaxFaults
    BY <1>1, <1>2, TurnsAssumption DEF TypeOK, Faulty
  <2>2. DOMAIN table' = {}
    BY <1>1
  <2> QED
    BY <1>1, <1>2, <1>5, <2>1, <2>2 DEF TypeOK
<1>7. LostInv'
  BY <1>1, <1>5, LostStep DEF InTurn
<1>8. OpenInv' /\ ActorInv'
  BY <1>5 DEF OpenInv, ActorInv, At
<1>9. TurnInv' /\ ForceInv'
  BY <1>1, <1>3, <1>5, CalmStep
<1>10. IdsInv'
  BY <1>1 DEF IInv, IdsInv
<1> QED
  BY <1>6, <1>7, <1>8, <1>9, <1>10 DEF IInv

\* After a restart nothing is shown as running.
LEMMA RestartInv ==
    ASSUME IInv, Restart
    PROVE  IInv'
<1>1. /\ At("Down") /\ journal' = "open" /\ dom' = Reconciled
      /\ stack' = dom.directors /\ Goes("Idle") /\ table' = <<>> /\ lost' = {}
      /\ UNCHANGED <<faults, cancelled, role, past>>
  BY DEF Restart
<1>2. /\ TypeOK /\ turn \in Turn /\ dom \in Snapshot
      /\ dom.directors \in Seq(Director)
  BY Types DEF IInv
<1> DEFINE actors == [c \in Children |->
                        IF dom.actors[c] = "running" THEN "cancelled"
                        ELSE dom.actors[c]]
           open == {}
<1>3. dom' = [dom EXCEPT !.open = open, !.actors = actors]
  BY <1>1 DEF Reconciled
<1>4. /\ actors \in [Children -> {"absent", "running", "succeeded", "failed",
                                  "cancelled"}]
      /\ \A c \in Children : actors[c] # "running"
  BY <1>2 DEF Snapshot
<1>5. open \in SUBSET Element
  OBVIOUS
<1> HIDE DEF actors, open
<1>6. /\ dom' \in Snapshot /\ dom'.directors = dom.directors
      /\ dom'.open = open /\ dom'.actors = actors
  BY <1>2, <1>3, <1>4, <1>5 DEF Snapshot
<1>7. /\ turn' \in Turn /\ turn'.n = turn.n /\ turn'.pc = "Idle"
      /\ turn'.begun = turn.begun /\ turn'.result = turn.result
      /\ turn'.executed = turn.executed /\ turn'.invoked = turn.invoked
  BY <1>1, <1>2 DEF Goes, Turn
<1>8. DOMAIN table' = {}
  BY <1>1
<1>9. TypeOK'
  BY <1>1, <1>2, <1>6, <1>7, <1>8 DEF TypeOK
<1>10. LostInv'
  BY <1>1, <1>7 DEF IInv, LostInv, InTurn
<1>11. OpenInv'
  BY <1>6, <1>7 DEF OpenInv, AtWork, open
<1>12. ActorInv'
  BY <1>4, <1>6, <1>8 DEF ActorInv, Owned
<1>13. TurnInv' /\ ForceInv'
  BY <1>6, <1>7, CalmStep DEF IInv, TurnInv
<1>14. IdsInv'
  BY <1>1, <1>6 DEF IInv, IdsInv
<1> QED
  BY <1>9, <1>10, <1>11, <1>12, <1>13, <1>14 DEF IInv

-----------------------------------------------------------------------------
(* The theorems. *)

\* The invariant holds at first.
LEMMA InitInv == Init => IInv
<1> SUFFICES ASSUME Init
             PROVE  IInv
  OBVIOUS
<1>1. PICK directors \in DirectorStacks, todo \in BOOLEAN :
        /\ dom = [directors |-> directors, open |-> {},
                  succeeded |-> FALSE, todo |-> todo,
                  actors |-> [c \in Children |-> "absent"]]
        /\ stack = directors
  BY DEF Init
<1>2. /\ directors \in Seq(Director) /\ Distinct(directors)
      /\ FALSE \in BOOLEAN /\ {} \in SUBSET Element
  BY TurnsAssumption
<1>3. /\ [c \in Children |-> "absent"] \in
           [Children -> {"absent", "running", "succeeded", "failed",
                         "cancelled"}]
  OBVIOUS
<1>4. /\ dom \in Snapshot /\ dom.directors = directors /\ dom.open = {}
      /\ \A c \in Children : dom.actors[c] = "absent"
  BY <1>1, <1>2, <1>3 DEF Snapshot
<1>5. /\ turn \in Turn /\ turn.pc = "Idle" /\ turn.begun = <<>>
      /\ turn.executed = {} /\ turn.result = None
  <2>1. /\ 0 \in 0 .. MaxTurns /\ 0 \in 0 .. MaxTurnSteps /\ 0 \in 0 .. MaxChildren
        /\ <<>> \in Seq(Tools) /\ <<>> \in Seq(Director)
        /\ {} \in SUBSET Tools
    BY TurnsAssumption
  <2> QED
    BY <2>1 DEF Init, Turn
<1>6. /\ journal = "open" /\ DOMAIN table = {} /\ cancelled = FALSE
      /\ role \in {"worker", "child"} /\ lost = {} /\ past = None
      /\ faults = 0
  BY DEF Init
<1>7. TypeOK
  <2>1. 0 \in 0 .. MaxFaults
    BY TurnsAssumption
  <2>2. stack \in Seq(Director)
    BY <1>1, <1>2
  <2> QED
    BY <1>4, <1>5, <1>6, <2>1, <2>2 DEF TypeOK
<1>8. LostInv /\ OpenInv /\ ActorInv
  BY <1>4, <1>5, <1>6 DEF LostInv, OpenInv, ActorInv, Owned, AtWork
<1>9. TurnInv /\ IdsInv /\ ForceInv
  BY <1>2, <1>4, <1>5, <1>6 DEF TurnInv, IdsInv, ForceInv, InTurn
<1> QED
  BY <1>7, <1>8, <1>9 DEF IInv

\* Every step keeps it.
LEMMA NextInv == IInv /\ [Next]_vars => IInv'
<1> SUFFICES ASSUME IInv, [Next]_vars
             PROVE  IInv'
  OBVIOUS
<1>1. CASE UNCHANGED vars
  BY <1>1 DEF vars, IInv, TypeOK, LostInv, OpenInv, ActorInv, Owned, TurnInv,
              IdsInv, ForceInv, InTurn, At, AtWork, Assistant, ToolCall
<1>2. CASE StartTurn \/ Step \/ Ask \/ StreamEnds \/ Settle
  BY <1>2, StartTurnInv, StepInv, AskInv, StreamEndsInv, SettleInv
<1>3. CASE Invoke \/ RunTool \/ RunAgent \/ SpawnChild \/ Spawned \/ SettleCall
  BY <1>3, InvokeInv, RunToolInv, RunAgentInv, SpawnChildInv, SpawnedInv,
     SettleCallInv
<1>4. CASE Yield \/ Steer
  BY <1>4, YieldInv, SteerInv
<1>5. CASE IdlePoll \/ PushForce \/ CancelChild \/ Cancel \/ Remember \/ Fork
  BY <1>5, IdlePollInv, PushForceInv, CancelChildInv, CancelInv, RememberInv,
     ForkInv
<1>6. CASE Shutdown \/ Exit \/ Crash \/ Restart
  BY <1>6, ShutdownInv, ExitInv, CrashInv, RestartInv
<1>7. ASSUME NEW c \in Children, ChildEnds(c)
      PROVE  IInv'
  BY <1>7, ChildEndsInv
<1> QED
  BY <1>1, <1>2, <1>3, <1>4, <1>5, <1>6, <1>7 DEF Next

\* It holds always.
LEMMA InvAlways == Spec => []IInv
BY InitInv, NextInv, PTL DEF Spec

\* While the process lives, what the snapshot shows as running has an owner.
THEOREM OwnersKnown == Spec => []RunningHasOwner
<1>1. IInv => RunningHasOwner
  BY InvImpliesOwner
<1> QED
  BY <1>1, InvAlways, PTL

\* A ForceTool holds until its tool is called, or until one further in gives up.
THEOREM ForceHolds == Spec => []ForceBinds
<1>1. IInv => ForceBinds
  BY InvImpliesBinds
<1> QED
  BY <1>1, InvAlways, PTL

-----------------------------------------------------------------------------
(* Compaction: the graph of summaries. *)

\* The nodes no node condenses.
RootsOf(nodes) == {n \in DOMAIN nodes : \A p \in DOMAIN nodes : n \notin nodes[p].children}

\* Nodes condense nodes, everything is below one root only, and no element is
\* covered twice.
Within(nodes) == \A n \in DOMAIN nodes : nodes[n].children \subseteq DOMAIN nodes
OneRoot(nodes) ==
    \A n \in DOMAIN nodes : \E r \in RootsOf(nodes) :
      \A q \in RootsOf(nodes) : n \in Below(nodes, q) <=> q = r
Apart(nodes) ==
    \A m, n \in DOMAIN nodes : nodes[m].covered \cap nodes[n].covered # {} => m = n
Graph(nodes) == Within(nodes) /\ OneRoot(nodes) /\ Apart(nodes)

\* A walk visits its root, and the children of what it visits.
LEMMA BelowClosed ==
    ASSUME NEW nodes, Within(nodes), NEW root \in DOMAIN nodes
    PROVE  /\ root \in Below(nodes, root)
           /\ Below(nodes, root) \subseteq DOMAIN nodes
           /\ Closed(nodes, Below(nodes, root))
<1>1. root \in Below(nodes, root) /\ Below(nodes, root) \subseteq DOMAIN nodes
  BY DEF Below
<1>2. ASSUME NEW n \in Below(nodes, root), NEW c \in nodes[n].children
      PROVE  c \in Below(nodes, root)
  <2>1. n \in DOMAIN nodes /\ c \in DOMAIN nodes
    BY DEF Below, Within
  <2>2. ASSUME NEW S \in SUBSET DOMAIN nodes, root \in S, Closed(nodes, S)
        PROVE  c \in S
    <3>1. n \in S
      BY <2>2 DEF Below
    <3> QED
      BY <2>2, <3>1 DEF Closed
  <2> QED
    BY <2>1, <2>2 DEF Below
<1> QED
  BY <1>1, <1>2 DEF Closed

\* It visits no more than it has to.
LEMMA BelowLeast ==
    ASSUME NEW nodes, NEW root \in DOMAIN nodes, NEW S \in SUBSET DOMAIN nodes,
           root \in S, Closed(nodes, S)
    PROVE  Below(nodes, root) \subseteq S
BY DEF Below

\* Graphs with the same children have the same walks, roots and covers.
Likewise(nodes, others) ==
    /\ DOMAIN others = DOMAIN nodes
    /\ \A n \in DOMAIN nodes : /\ others[n].children = nodes[n].children
                               /\ others[n].covered = nodes[n].covered

LEMMA GraphLikewise ==
    ASSUME NEW nodes, NEW others, Graph(nodes), Likewise(nodes, others)
    PROVE  /\ Graph(others)
           /\ RootsOf(others) = RootsOf(nodes)
           /\ \A n \in DOMAIN nodes : Below(others, n) = Below(nodes, n)
<1>1. RootsOf(others) = RootsOf(nodes)
  BY DEF Likewise, RootsOf
<1>2. ASSUME NEW S \in SUBSET DOMAIN nodes
      PROVE  Closed(others, S) <=> Closed(nodes, S)
  BY DEF Closed, Likewise
<1>3. ASSUME NEW n \in DOMAIN nodes
      PROVE  Below(others, n) = Below(nodes, n)
  BY <1>2 DEF Below, Likewise
<1>4. Within(others) /\ Apart(others)
  BY DEF Within, Apart, Likewise, Graph
<1>5. OneRoot(others)
  <2>1. DOMAIN others = DOMAIN nodes /\ OneRoot(nodes) /\ RootsOf(nodes) \subseteq DOMAIN nodes
    BY DEF Likewise, Graph, RootsOf
  <2> QED
    BY <1>1, <1>3, <2>1 DEF OneRoot
<1> QED
  BY <1>1, <1>3, <1>4, <1>5 DEF Graph

\* A node is added that condenses some of the roots.
Added(nodes, node, more) ==
    /\ nodes \in Seq(Node) /\ node \in Node
    /\ more = Append(nodes, node)
    /\ node.children \subseteq RootsOf(nodes)

\* So that its place is new.
Longer(nodes, node, more, new) ==
    /\ more \in Seq(Node)
    /\ new = Len(nodes) + 1 /\ new \notin DOMAIN nodes
    /\ DOMAIN more = DOMAIN nodes \cup {new}
    /\ more[new] = node
    /\ \A n \in DOMAIN nodes : more[n] = nodes[n]

LEMMA AddedNodes ==
    ASSUME NEW nodes, NEW node, NEW more, Added(nodes, node, more)
    PROVE  Longer(nodes, node, more, Len(nodes) + 1)
<1>1. /\ nodes \in Seq(Node) /\ node \in Node /\ more = Append(nodes, node)
      /\ Len(nodes) \in Nat /\ DOMAIN nodes = 1 .. Len(nodes)
  BY DEF Added
<1>2. /\ more \in Seq(Node) /\ Len(more) = Len(nodes) + 1
      /\ DOMAIN more = 1 .. (Len(nodes) + 1)
      /\ more[Len(nodes) + 1] = node
      /\ \A n \in 1 .. Len(nodes) : more[n] = nodes[n]
  BY <1>1, AppendProperties
<1> QED
  BY <1>1, <1>2 DEF Longer

\* Walks from other nodes stay as they were; from the new one, they go to what
\* is below its children.
LEMMA AddedBelow ==
    ASSUME NEW nodes, NEW node, NEW more, Added(nodes, node, more), Within(nodes)
    PROVE  /\ Within(more)
           /\ \A n \in DOMAIN nodes : Below(more, n) = Below(nodes, n)
           /\ Below(more, Len(nodes) + 1) =
                {Len(nodes) + 1} \cup UNION {Below(nodes, c) : c \in node.children}
<1> DEFINE new == Len(nodes) + 1
<1>1. /\ new \notin DOMAIN nodes
      /\ DOMAIN more = DOMAIN nodes \cup {new}
      /\ more[new] = node
      /\ \A n \in DOMAIN nodes : more[n] = nodes[n]
  <2>1. Longer(nodes, node, more, Len(nodes) + 1)
    BY AddedNodes
  <2> QED
    BY <2>1 DEF Longer
<1> HIDE DEF new
<1>2. node.children \subseteq DOMAIN nodes
  BY DEF Added, RootsOf
<1>3. Within(more)
  BY <1>1, <1>2 DEF Within
<1>4. ASSUME NEW n \in DOMAIN nodes
      PROVE  Below(more, n) = Below(nodes, n)
  <2>1. Below(more, n) \subseteq Below(nodes, n)
    <3>1. Closed(more, Below(nodes, n))
      BY <1>1, BelowClosed DEF Closed
    <3>2. n \in Below(nodes, n) /\ Below(nodes, n) \in SUBSET DOMAIN more /\ n \in DOMAIN more
      BY <1>1, BelowClosed
    <3> QED
      BY <3>1, <3>2, BelowLeast
  <2>2. Below(nodes, n) \subseteq Below(more, n)
    <3> DEFINE S == Below(more, n) \cap DOMAIN nodes
    <3>1. n \in DOMAIN more
      BY <1>1
    <3>2. n \in Below(more, n) /\ Closed(more, Below(more, n))
      BY <1>3, <3>1, BelowClosed
    <3>3. S \in SUBSET DOMAIN nodes /\ n \in S
      BY <3>2
    <3>4. Closed(nodes, S)
      BY <1>1, <3>2 DEF Closed, Within
    <3> HIDE DEF S
    <3>5. Below(nodes, n) \subseteq S
      BY <3>3, <3>4, BelowLeast
    <3> QED
      BY <3>5 DEF S
  <2> QED
    BY <2>1, <2>2
<1>5. Below(more, new) = {new} \cup UNION {Below(nodes, c) : c \in node.children}
  <2> DEFINE T == {new} \cup UNION {Below(nodes, c) : c \in node.children}
  <2>1. new \in DOMAIN more
    BY <1>1
  <2>2. Below(more, new) \subseteq T
    <3>1. T \in SUBSET DOMAIN more /\ new \in T
      <4>1. \A c \in node.children : Below(nodes, c) \subseteq DOMAIN nodes
        BY <1>2, BelowClosed
      <4> QED
        BY <1>1, <4>1
    <3>2. ASSUME NEW n \in T, NEW c \in more[n].children
          PROVE  c \in T
      <4>1. CASE n = new
        <5>1. c \in node.children
          BY <1>1, <3>2, <4>1
        <5>2. c \in Below(nodes, c)
          BY <1>2, <5>1, BelowClosed
        <5> QED
          BY <5>1, <5>2
      <4>2. CASE n # new
        <5>1. PICK k \in node.children : n \in Below(nodes, k)
          BY <4>2
        <5>2. Closed(nodes, Below(nodes, k)) /\ n \in DOMAIN nodes
          BY <1>2, <5>1, BelowClosed
        <5>3. c \in Below(nodes, k)
          BY <1>1, <3>2, <5>1, <5>2 DEF Closed
        <5> QED
          BY <5>1, <5>3
      <4> QED
        BY <4>1, <4>2
    <3>3. Closed(more, T)
      BY <3>2 DEF Closed
    <3> HIDE DEF T
    <3> QED
      BY <2>1, <3>1, <3>3, BelowLeast
  <2>3. T \subseteq Below(more, new)
    <3>1. new \in Below(more, new) /\ Closed(more, Below(more, new))
          /\ Below(more, new) \subseteq DOMAIN more
      BY <1>3, <2>1, BelowClosed
    <3>2. ASSUME NEW c \in node.children
          PROVE  Below(nodes, c) \subseteq Below(more, new)
      <4>1. c \in DOMAIN nodes /\ c \in DOMAIN more
        BY <1>1, <1>2
      <4>2. c \in Below(more, new)
        BY <1>1, <3>1 DEF Closed
      <4>3. Below(more, c) \subseteq Below(more, new)
        BY <3>1, <4>1, <4>2, BelowLeast
      <4> QED
        BY <1>4, <4>1, <4>3
    <3> QED
      BY <3>1, <3>2
  <2> QED
    BY <2>2, <2>3
<1> QED
  BY <1>3, <1>4, <1>5 DEF new

\* The graph stays one.
LEMMA AddedGraph ==
    ASSUME NEW nodes, NEW node, NEW more, Added(nodes, node, more), Graph(nodes),
           \A n \in DOMAIN nodes : nodes[n].covered \cap node.covered = {}
    PROVE  Graph(more)
<1> DEFINE new == Len(nodes) + 1
<1>1. /\ new \notin DOMAIN nodes
      /\ DOMAIN more = DOMAIN nodes \cup {new}
      /\ more[new] = node
      /\ \A n \in DOMAIN nodes : more[n] = nodes[n]
  <2>1. Longer(nodes, node, more, Len(nodes) + 1)
    BY AddedNodes
  <2> QED
    BY <2>1 DEF Longer
<1>2. /\ Within(more)
      /\ \A n \in DOMAIN nodes : Below(more, n) = Below(nodes, n)
      /\ Below(more, new) = {new} \cup UNION {Below(nodes, c) : c \in node.children}
  BY AddedBelow DEF Graph
<1> HIDE DEF new
<1>3. node.children \subseteq RootsOf(nodes) /\ RootsOf(nodes) \subseteq DOMAIN nodes
  BY DEF Added, RootsOf
<1>4. RootsOf(more) = (RootsOf(nodes) \ node.children) \cup {new}
  <2>1. \A p \in DOMAIN more : new \notin more[p].children
    BY <1>1, <1>3 DEF Graph, Within
  <2>2. \A n \in DOMAIN nodes : n \in RootsOf(more) <=> n \in RootsOf(nodes) \ node.children
    BY <1>1 DEF RootsOf
  <2>3. new \in RootsOf(more) /\ RootsOf(more) \subseteq DOMAIN nodes \cup {new}
    BY <1>1, <2>1 DEF RootsOf
  <2> QED
    BY <1>3, <2>2, <2>3
<1>5. Apart(more)
  <2> SUFFICES ASSUME NEW m \in DOMAIN more, NEW n \in DOMAIN more,
                      more[m].covered \cap more[n].covered # {}
               PROVE  m = n
    BY DEF Apart
  <2> QED
    BY <1>1 DEF Apart, Graph
<1>6. ASSUME NEW n \in DOMAIN more
      PROVE  \E r \in RootsOf(more) : \A q \in RootsOf(more) : n \in Below(more, q) <=> q = r
  <2>1. CASE n = new
    <3>1. \A q \in RootsOf(nodes) : n \notin Below(nodes, q)
      BY <1>1, <1>3, <2>1, BelowClosed DEF Graph
    <3> QED
      BY <1>2, <1>3, <1>4, <2>1, <3>1
  <2>2. CASE n \in DOMAIN nodes
    <3>1. PICK r \in RootsOf(nodes) :
            \A q \in RootsOf(nodes) : n \in Below(nodes, q) <=> q = r
      BY <2>2 DEF Graph, OneRoot
    <3>2. CASE r \in node.children
      <4>1. n \in Below(more, new)
        BY <1>2, <3>1, <3>2
      <4>2. \A q \in RootsOf(nodes) \ node.children : n \notin Below(more, q)
        BY <1>2, <1>3, <3>1, <3>2
      <4> QED
        BY <1>4, <4>1, <4>2
    <3>3. CASE r \notin node.children
      <4>1. n \notin Below(more, new)
        BY <1>1, <1>2, <1>3, <2>2, <3>1, <3>3
      <4>2. \A q \in RootsOf(nodes) \ node.children : n \in Below(more, q) <=> q = r
        BY <1>2, <1>3, <3>1
      <4>3. r \in RootsOf(more)
        BY <1>4, <3>3
      <4> QED
        BY <1>1, <1>3, <1>4, <4>1, <4>2, <4>3
    <3> QED
      BY <3>2, <3>3
  <2> QED
    BY <1>1, <2>1, <2>2
<1> QED
  BY <1>2, <1>5, <1>6 DEF Graph, OneRoot

-----------------------------------------------------------------------------
(* Compaction: the turns of the transcript. *)

\* Among finitely many positions there is one that k of them, itself included,
\* do not precede.
LEMMA NthLast ==
    ASSUME NEW n \in Nat, NEW S \in SUBSET (1 .. n), NEW c \in Nat, c >= 1,
           c <= Cardinality(S)
    PROVE  \E i \in S : Cardinality({j \in S : j >= i}) = c
<1> DEFINE From(i) == {j \in S : j >= i}
           U == {k \in Nat : k >= 1 /\ k <= Cardinality(S) =>
                               \E i \in S : Cardinality(From(i)) = k}
<1>0. \A j \in S : j \in Int
  OBVIOUS
<1>1. IsFiniteSet(S) /\ Cardinality(S) \in Nat
  <2>1. IsFiniteSet(1 .. n)
    BY FS_Interval
  <2> QED
    BY <2>1, FS_Subset, FS_CardinalityType
<1>2. \A i : IsFiniteSet(From(i)) /\ Cardinality(From(i)) \in Nat
  <2>1. \A i : From(i) \in SUBSET S
    OBVIOUS
  <2> QED
    BY <1>1, <2>1, FS_Subset, FS_CardinalityType
<1>3. 0 \in U
  OBVIOUS
<1>4. ASSUME NEW k \in U
      PROVE  k + 1 \in U
  <2> SUFFICES ASSUME k + 1 <= Cardinality(S)
               PROVE  \E i \in S : Cardinality(From(i)) = k + 1
    OBVIOUS
  <2>1. CASE k = 0
    <3>1. S # {}
      BY <1>1, <2>1, FS_EmptySet
    <3>2. PICK m \in S : \A j \in S : j <= m
      BY <3>1, GreatestPosition
    <3>3. From(m) = {m}
      <4>1. m >= m /\ \A j \in S : j >= m => j = m
        BY <1>0, <3>2
      <4> QED
        BY <3>2, <4>1
    <3> QED
      BY <2>1, <3>2, <3>3, FS_Singleton
  <2>2. CASE k # 0
    <3>1. PICK i \in S : Cardinality(From(i)) = k
      BY <1>1, <2>2
    <3> DEFINE T == {j \in S : j < i}
    <3>2. T # {}
      <4> SUFFICES ASSUME T = {}
                   PROVE  FALSE
        OBVIOUS
      <4>1. \A j \in S : j >= i
        BY <1>0, <3>1
      <4>2. From(i) = S
        BY <4>1
      <4>3. k = Cardinality(S)
        BY <3>1, <4>2
      <4> QED
        BY <1>1, <4>3
    <3>3. PICK m \in T : \A j \in T : j <= m
      BY <3>2, GreatestPosition
    <3>4. From(m) = From(i) \cup {m} /\ m \notin From(i)
      <4>1. m \in S /\ m < i /\ \A j \in S : j < i => j <= m
        BY <3>3
      <4>2. \A j \in S : j >= m <=> (j >= i \/ j = m)
        BY <1>0, <3>1, <4>1
      <4>3. ~(m >= i)
        BY <1>0, <3>1, <4>1
      <4> QED
        BY <4>1, <4>2, <4>3
    <3>5. Cardinality(From(m)) = k + 1
      <4> HIDE DEF From, T
      <4> QED
        BY <1>2, <3>1, <3>4, FS_AddElement, ZenonT(30)
    <3> QED
      BY <3>3, <3>5
  <2> QED
    BY <2>1, <2>2
<1>5. U = Nat
  <2> HIDE DEF U
  <2> QED
    BY <1>3, <1>4, NatInduct DEF U
<1> QED
  BY <1>5

\* The turns that are not recent are completed.
LEMMA RecentIsFinal ==
    ASSUME body \in Seq(Entry)
    PROVE  RecentTurnBoundary \subseteq FinalTurnBoundary
<1> SUFFICES ASSUME NEW i \in RecentTurnBoundary
             PROVE  i \in FinalTurnBoundary
  OBVIOUS
<1> DEFINE kept == AtLeast(Keep, 1)
           first == {k \in UserTurns : Cardinality({j \in UserTurns : j >= k}) = kept}
<1>1. Keep \in Nat
  BY CostsAssumption
<1>2. kept \in Nat /\ kept >= 1
  BY <1>1 DEF AtLeast
<1>3. ~(Cardinality(UserTurns) <= kept) /\ i \in Visible /\ \A j \in first : i < j
  <2> HIDE DEF kept
  <2> QED
    BY DEF RecentTurnBoundary, kept
<1>4. Len(body) \in Nat /\ UserTurns \in SUBSET (1 .. Len(body))
  BY LenProperties DEF UserTurns
<1>5. Cardinality(UserTurns) \in Nat
  <2>1. IsFiniteSet(1 .. Len(body))
    BY <1>4, FS_Interval
  <2> QED
    BY <1>4, <2>1, FS_Subset, FS_CardinalityType
<1>6. \E k \in UserTurns : Cardinality({j \in UserTurns : j >= k}) = kept
  <2> HIDE DEF kept
  <2>1. kept <= Cardinality(UserTurns)
    BY <1>2, <1>3, <1>5
  <2> QED
    BY <1>2, <1>4, <2>1, NthLast
<1>7. PICK j \in UserTurns : j \in first
  BY <1>6
<1> HIDE DEF first, kept
<1>8. i < j
  BY <1>3, <1>7
<1> QED
  BY <1>3, <1>7, <1>8 DEF FinalTurnBoundary

\* What has been said stays, and what was completed is.
Continued ==
    /\ \A i \in DOMAIN body : i \in DOMAIN body'
    /\ \A i \in FinalTurnBoundary : i \in FinalTurnBoundary' /\ body'[i] = body[i]

LEMMA AddContinues ==
    ASSUME body \in Seq(Entry), NEW entry \in Entry, Add(entry)
    PROVE  body' \in Seq(Entry) /\ Continued
           /\ \A i \in DOMAIN body : body'[i] = body[i]
<1>1. body' = Append(body, entry)
  BY DEF Add
<1>2. /\ body' \in Seq(Entry) /\ Len(body) \in Nat
      /\ DOMAIN body = 1 .. Len(body) /\ DOMAIN body' = 1 .. (Len(body) + 1)
      /\ \A i \in 1 .. Len(body) : body'[i] = body[i]
  BY <1>1, AppendProperties, LenProperties
<1>3. \A i \in DOMAIN body : i \in DOMAIN body' /\ body'[i] = body[i]
  BY <1>2
<1>4. Visible \subseteq Visible' /\ UserTurns \subseteq UserTurns'
  BY <1>3 DEF Visible, UserTurns
<1>5. FinalTurnBoundary \subseteq FinalTurnBoundary' /\ FinalTurnBoundary \subseteq DOMAIN body
  BY <1>4 DEF FinalTurnBoundary, Visible
<1> QED
  BY <1>2, <1>3, <1>5 DEF Continued

LEMMA AnswerContinues ==
    ASSUME body \in Seq(Entry), NEW k, NEW text \in Texts, Answer(k, text)
    PROVE  body' \in Seq(Entry) /\ Continued
<1>1. /\ k \in DOMAIN body /\ k \notin FinalTurnBoundary
      /\ body[k].role = "tool_call"
      /\ body' = [body EXCEPT ![k].text = text, ![k].open = FALSE]
  BY DEF Answer
<1>2. text \in Nat
  BY CostsAssumption
<1>3. body[k] \in Entry
  BY <1>1, ElementOfSeq, LenProperties
<1>4. body' = [body EXCEPT ![k] = [body[k] EXCEPT !.text = text, !.open = FALSE]]
  BY <1>1
<1>5. [body[k] EXCEPT !.text = text, !.open = FALSE] \in Entry
  BY <1>2, <1>3 DEF Entry
<1>6. body' \in Seq(Entry)
  <2> DEFINE e == [body[k] EXCEPT !.text = text, !.open = FALSE]
  <2>1. e \in Entry /\ body' = [body EXCEPT ![k] = e] /\ k \in 1 .. Len(body)
    BY <1>1, <1>4, <1>5, LenProperties
  <2> HIDE DEF e
  <2> QED
    BY <2>1, ExceptSeq
<1>7. /\ DOMAIN body' = DOMAIN body
      /\ \A i \in DOMAIN body : body'[i].role = body[i].role
      /\ \A i \in DOMAIN body : i # k => body'[i] = body[i]
  <2>1. DOMAIN body' = DOMAIN body /\ \A i \in DOMAIN body : i # k => body'[i] = body[i]
    BY <1>4
  <2>2. body'[k].role = body[k].role
    BY <1>1, <1>3, <1>4 DEF Entry
  <2> QED
    BY <2>1, <2>2
<1>8. Visible' = Visible /\ UserTurns' = UserTurns
  <2>1. body'[k].role = "tool_call"
    BY <1>1, <1>7
  <2> QED
    BY <1>1, <1>7, <2>1 DEF Visible, UserTurns
<1>9. FinalTurnBoundary' = FinalTurnBoundary /\ FinalTurnBoundary \subseteq DOMAIN body
  BY <1>8 DEF FinalTurnBoundary, Visible
<1> QED
  BY <1>1, <1>6, <1>7, <1>9 DEF Continued

-----------------------------------------------------------------------------
(* Compaction: what requests cost. *)

\* What is reduced is no instruction, and arguments are those of calls.
ReducedInv ==
    /\ capped \in SUBSET DOMAIN body /\ omitted \in SUBSET DOMAIN body
    /\ \A i \in capped : body[i].role # "instructions"
    /\ \A i \in omitted : body[i].role = "tool_call"

\* A message costs what the planner reckons, but for the marker of omitted
\* arguments.
LEMMA MessageWithin ==
    ASSUME body \in Seq(Entry), ReducedInv, NEW i \in DOMAIN body
    PROVE  /\ EntryCost(i) \in Nat /\ MessageCost(i) \in Nat
           /\ MessageCost(i) <= EntryCost(i) + (IF i \in omitted THEN Marker ELSE 0)
<1> DEFINE e == body[i]
<1>1. e \in Entry
  BY ElementOfSeq, LenProperties
<1>2. /\ e.role \in Roles /\ e.args \in Nat /\ e.text \in Nat
      /\ CallCost \in Nat /\ Reduced \in Nat /\ Marker \in Nat
  BY <1>1, CostsAssumption DEF Entry
<1>3. i \in omitted => e.role = "tool_call"
  BY DEF ReducedInv
<1>4. i \in capped => e.role # "instructions"
  BY DEF ReducedInv
<1> DEFINE call == IF e.role = "tool_call" THEN CallCost ELSE 0
           less == IF i \in omitted THEN e.args ELSE 0
           short == IF i \in capped THEN AtLeast(e.text - Reduced, 0) ELSE 0
<1>5. EntryCost(i) = (((e.args + e.text) + call) - less) - short
  BY DEF EntryCost, Tokens
<1>6. ProjectText(i) \in Nat /\ short \in Nat /\ ProjectText(i) = e.text - short
  BY <1>2 DEF ProjectText, AtMost, AtLeast
<1>7. less \in Nat /\ less <= e.args /\ call \in Nat /\ short <= e.text
  BY <1>2, <1>6
<1>8. MessageCost(i) = IF e.role = "instructions" THEN e.text
                       ELSE IF e.role # "tool_call" THEN ProjectText(i)
                       ELSE (CallCost + (IF i \in omitted THEN Marker ELSE e.args))
                              + (IF e.open THEN 0 ELSE ProjectText(i))
  BY DEF MessageCost
<1> HIDE DEF e
<1>9. CASE e.role = "instructions"
  <2>1. short = 0 /\ less = 0 /\ call = 0 /\ MessageCost(i) = e.text /\ i \notin omitted
    BY <1>3, <1>4, <1>8, <1>9
  <2> HIDE DEF short, less, call
  <2> QED
    BY <1>2, <1>5, <2>1
<1>10. CASE e.role # "instructions" /\ e.role # "tool_call"
  <2>1. less = 0 /\ call = 0 /\ MessageCost(i) = ProjectText(i) /\ i \notin omitted
    BY <1>3, <1>8, <1>10
  <2> HIDE DEF short, less, call
  <2> QED
    BY <1>2, <1>5, <1>6, <1>7, <2>1
<1>11. CASE e.role = "tool_call"
  <2> DEFINE p == ProjectText(i)
             q == IF e.open THEN 0 ELSE p
             x == e.args
             y == e.text
  <2>1. call = CallCost /\ p \in Nat /\ q \in Nat /\ q <= p /\ p = y - short
        /\ x \in Nat /\ y \in Nat
    BY <1>2, <1>6, <1>11
  <2>2. EntryCost(i) = (((x + y) + call) - less) - short
    BY <1>5
  <2>3. CASE i \in omitted
    <3>1. less = x /\ MessageCost(i) = (CallCost + Marker) + q
      BY <1>8, <1>11, <2>3
    <3> HIDE DEF short, less, call, p, q, x, y
    <3>2. EntryCost(i) = CallCost + p
      BY <1>2, <1>6, <2>1, <2>2, <3>1
    <3> QED
      BY <1>2, <2>1, <2>3, <3>1, <3>2
  <2>4. CASE i \notin omitted
    <3>1. less = 0 /\ MessageCost(i) = (CallCost + x) + q
      BY <1>8, <1>11, <2>4
    <3> HIDE DEF short, less, call, p, q, x, y
    <3>2. EntryCost(i) = (CallCost + x) + p
      BY <1>2, <1>6, <2>1, <2>2, <3>1
    <3> QED
      BY <1>2, <2>1, <2>4, <3>1, <3>2
  <2> QED
    BY <2>3, <2>4
<1> QED
  BY <1>9, <1>10, <1>11

\* So does a request, but for the headers of its folds.
LEMMA RequestWithin ==
    ASSUME body \in Seq(Entry), dag \in Seq(Node), ReducedInv, Bounded
    PROVE  /\ ProjectedTokens \in Nat /\ RequestCost \in Nat
           /\ Uncounted \in Nat
           /\ RequestCost <= ProjectedTokens + Uncounted
<1> DEFINE n == Len(body)
           kept == Visible \ Covered
           a == [i \in DOMAIN body |-> IF i \in kept THEN MessageCost(i) ELSE 0]
           b == [i \in DOMAIN body |-> IF i \in kept THEN EntryCost(i) ELSE 0]
           c == [i \in DOMAIN dag |-> IF i \in Roots THEN FoldTokens(i) ELSE 0]
           d == [i \in DOMAIN dag |-> IF i \in Roots THEN FoldCost(i) ELSE 0]
           more == AtLeast(FoldHeader - NodeHeader, 0)
<1>1. n \in Nat /\ DOMAIN body = 1 .. n
  BY LenProperties
<1>2. \A i \in DOMAIN body :
        /\ EntryCost(i) \in Nat /\ MessageCost(i) \in Nat
        /\ MessageCost(i) <= EntryCost(i) + (IF i \in omitted THEN Marker ELSE 0)
  BY MessageWithin
<1>3. Marker \in Nat /\ Overhead \in Nat /\ NodeHeader \in Nat /\ FoldHeader \in Nat
  BY CostsAssumption
<1>4. /\ a \in Seq(Nat) /\ Len(a) = n
      /\ b \in Seq(Nat) /\ Len(b) = n
  <2> HIDE DEF n, kept
  <2>1. a \in [1 .. n -> Nat] /\ b \in [1 .. n -> Nat]
    BY <1>1, <1>2
  <2> HIDE DEF a, b
  <2>2. \A f \in [1 .. n -> Nat] : f \in Seq(Nat) /\ Len(f) = n
    <3>1. \A f \in [1 .. n -> Nat] : DOMAIN f = 1 .. n /\ \A k \in 1 .. n : f[k] \in Nat
      OBVIOUS
    <3> QED
      BY <1>1, <3>1
  <2> QED
    BY <2>1, <2>2
<1>5. Exceeds(a, b, omitted, Marker) /\ omitted \in SUBSET (1 .. Len(a))
  <2>1. \A k \in 1 .. n : a[k] <= b[k] + (IF k \in omitted THEN Marker ELSE 0)
    <3> HIDE DEF n, kept
    <3> QED
      BY <1>1, <1>2, <1>3
  <2>2. omitted \in SUBSET (1 .. n)
    BY <1>1 DEF ReducedInv
  <2> HIDE DEF a, b, n
  <2> QED
    BY <1>4, <2>1, <2>2 DEF Exceeds
<1>6. Cardinality(omitted) \in Nat
  <2>1. IsFiniteSet(1 .. n) /\ omitted \in SUBSET (1 .. n)
    BY <1>1, FS_Interval DEF ReducedInv
  <2> QED
    BY <2>1, FS_Subset, FS_CardinalityType
<1> DEFINE s == Sums(a)[n]
           t == Sums(b)[n]
           u == Sums(c)[Len(dag)]
           v == Sums(d)[Len(dag)]
           m == Marker * Cardinality(omitted)
           h == more * Cardinality(Roots)
<1>7. s \in Nat /\ t \in Nat /\ m \in Nat /\ s <= t + m
  <2> HIDE DEF a, b, n
  <2>1. Sums(a)[Len(a)] <= Sums(b)[Len(b)] + Marker * Cardinality(omitted)
    BY <1>3, <1>4, <1>5, SumsCompare
  <2>2. n \in 0 .. Len(a) /\ n \in 0 .. Len(b)
    BY <1>1, <1>4
  <2>3. s \in Nat /\ t \in Nat
    BY <1>4, <2>2, SumsType
  <2>4. m \in Nat
    BY <1>3, <1>6
  <2> QED
    BY <1>4, <2>1, <2>3, <2>4
<1>8. u \in Nat /\ v \in Nat /\ h \in Nat /\ v <= u + h
  <2>1. Len(dag) \in Nat /\ DOMAIN dag = 1 .. Len(dag) /\ \A k \in DOMAIN dag : dag[k] \in Node
    BY LenProperties, ElementOfSeq
  <2>2. more \in Nat /\ FoldHeader <= NodeHeader + more
    BY <1>3 DEF AtLeast
  <2> HIDE DEF more
  <2>3. \A k \in DOMAIN dag :
          /\ FoldTokens(k) \in Nat /\ FoldCost(k) \in Nat
          /\ FoldCost(k) <= FoldTokens(k) + more
    <3> SUFFICES ASSUME NEW k \in DOMAIN dag
                 PROVE  /\ FoldTokens(k) \in Nat /\ FoldCost(k) \in Nat
                        /\ FoldCost(k) <= FoldTokens(k) + more
      OBVIOUS
    <3> DEFINE text == dag[k].text
    <3>1. text \in Nat /\ FoldTokens(k) = text + NodeHeader /\ FoldCost(k) = text + FoldHeader
      BY <2>1 DEF FoldTokens, FoldCost, Node
    <3> HIDE DEF text
    <3> QED
      BY <1>3, <2>2, <3>1
  <2>4. Roots \in SUBSET (1 .. Len(dag)) /\ Cardinality(Roots) \in Nat
    <3>1. Roots \in SUBSET (1 .. Len(dag)) /\ IsFiniteSet(1 .. Len(dag))
      BY <2>1, FS_Interval DEF Roots
    <3> QED
      BY <3>1, FS_Subset, FS_CardinalityType
  <2>5. c \in [1 .. Len(dag) -> Nat] /\ d \in [1 .. Len(dag) -> Nat]
    BY <2>1, <2>3
  <2>6. \A k \in 1 .. Len(dag) : d[k] <= c[k] + (IF k \in Roots THEN more ELSE 0)
    BY <2>1, <2>2, <2>3
  <2> HIDE DEF c, d
  <2>7. \A f \in [1 .. Len(dag) -> Nat] : f \in Seq(Nat) /\ Len(f) = Len(dag)
    <3> DEFINE l == Len(dag)
    <3>1. l \in Nat
      BY <2>1
    <3> HIDE DEF l
    <3>2. \A f \in [1 .. l -> Nat] : f \in Seq(Nat) /\ Len(f) = l
      <4>1. \A f \in [1 .. l -> Nat] : DOMAIN f = 1 .. l /\ \A k \in 1 .. l : f[k] \in Nat
        OBVIOUS
      <4> QED
        BY <3>1, <4>1
    <3> QED
      BY <3>2 DEF l
  <2>8. c \in Seq(Nat) /\ Len(c) = Len(dag) /\ d \in Seq(Nat) /\ Len(d) = Len(dag)
    BY <2>5, <2>7
  <2>9. Sums(d)[Len(d)] <= Sums(c)[Len(c)] + more * Cardinality(Roots)
    <3>1. Exceeds(d, c, Roots, more)
      BY <2>6, <2>8 DEF Exceeds
    <3>2. Roots \in SUBSET (1 .. Len(d))
      BY <2>4, <2>8
    <3> QED
      BY <2>2, <2>8, <3>1, <3>2, SumsCompare
  <2>10. u \in Nat /\ v \in Nat
    BY <2>1, <2>8, SumsType
  <2>11. h \in Nat
    BY <2>2, <2>4
  <2> QED
    BY <2>8, <2>9, <2>10, <2>11
<1>9. ProjectedTokens = (Overhead + t) + u
  BY DEF ProjectedTokens, SumOver
<1>10. RequestCost = (Overhead + s) + v
  BY DEF RequestCost, SumOver, LeftOut, Folded
<1>11. Uncounted = m + h
  BY DEF Uncounted
<1> HIDE DEF s, t, u, v, m, h
<1> QED
  BY <1>3, <1>7, <1>8, <1>9, <1>10, <1>11


-----------------------------------------------------------------------------
(* Compaction: the inductive invariant. *)

\* Everything covered is of a completed turn.
CoveredInv == \A i \in Covered : i \in FinalTurnBoundary /\ Eligible(i)

\* How far the plan of a request has come: past reducing, the request is within
\* the window or nothing is left to reduce, and past capping, nothing to cap.
Spent == ProjectedTokens > Budget.hard => Reducible = {}
StageInv ==
    /\ stage \in {"elide", "condense", "reduce", "cap"} => Bounded /\ ~unreadable
    /\ stage = "cap" => Spent
    /\ (stage = "send" /\ Bounded /\ ~unreadable) =>
         (ProjectedTokens > Budget.hard => Reducible = {} /\ LongRoots = {})

CompactInv == CompactionTypeOK /\ Graph(dag) /\ CoveredInv /\ ReducedInv /\ StageInv

\* The sets of the planner as the transcript and the graph give them.
LEMMA CompactRanges ==
    ASSUME body \in Seq(Entry), dag \in Seq(Node)
    PROVE  /\ Len(body) \in Nat /\ DOMAIN body = 1 .. Len(body)
           /\ Len(dag) \in Nat /\ DOMAIN dag = 1 .. Len(dag)
           /\ \A i \in DOMAIN body : body[i] \in Entry
           /\ \A n \in DOMAIN dag : dag[n] \in Node
           /\ Roots = RootsOf(dag) /\ Roots \subseteq DOMAIN dag
           /\ Visible \subseteq DOMAIN body
           /\ FinalTurnBoundary \subseteq Visible
<1>1. /\ Len(body) \in Nat /\ DOMAIN body = 1 .. Len(body)
      /\ Len(dag) \in Nat /\ DOMAIN dag = 1 .. Len(dag)
  BY LenProperties
<1>2. \A i \in DOMAIN body : body[i] \in Entry
  BY ElementOfSeq, LenProperties
<1>3. \A n \in DOMAIN dag : dag[n] \in Node
  BY ElementOfSeq, LenProperties
<1>4. Roots = RootsOf(dag) /\ Roots \subseteq DOMAIN dag
  BY DEF Roots, RootsOf
<1>5. Visible \subseteq DOMAIN body /\ FinalTurnBoundary \subseteq Visible
  BY DEF Visible, FinalTurnBoundary
<1> QED
  BY <1>1, <1>2, <1>3, <1>4, <1>5

\* What the hard bound takes is of completed turns as well, and not covered.
LEMMA ElisionFinal ==
    ASSUME body \in Seq(Entry), NEW projected
    PROVE  \A i \in Elision(projected, SoftPass(projected)) :
             i \in FinalTurnBoundary /\ Eligible(i) /\ i \notin Covered
<1>1. SoftPass(projected) \subseteq {i \in RecentTurnBoundary \ Covered : Eligible(i)}
  BY DEF SoftPass
<1>2. RecentTurnBoundary \subseteq FinalTurnBoundary
  BY RecentIsFinal
<1>3. \A i \in SoftPass(projected) : i \in FinalTurnBoundary /\ Eligible(i) /\ i \notin Covered
  BY <1>1, <1>2
<1> DEFINE soft == SoftPass(projected)
<1> HIDE DEF soft
<1>4. Elision(projected, soft) \subseteq
        soft \cup {i \in FinalTurnBoundary : Eligible(i) /\ i \notin Covered}
  BY DEF Elision
<1> QED
  BY <1>3, <1>4 DEF soft

\* The text of an inventory costs tokens.
LEMMA InventoryType ==
    ASSUME NEW n \in Nat, NEW S \in SUBSET (1 .. n)
    PROVE  Inventory(Cardinality(S)) \in Nat
<1>1. Cardinality(S) \in Nat
  <2>1. IsFiniteSet(1 .. n)
    BY FS_Interval
  <2> QED
    BY <2>1, FS_Subset, FS_CardinalityType
<1> QED
  BY <1>1, CostsAssumption DEF Inventory

\* A node for what the plan leaves out.
LEMMA ElideGraph ==
    ASSUME CompactInv, Elide
    PROVE  dag' \in Seq(Node) /\ Graph(dag') /\ CoveredInv'
<1>1. body \in Seq(Entry) /\ dag \in Seq(Node) /\ Graph(dag) /\ CoveredInv
  BY DEF CompactInv, CompactionTypeOK
<1>2. PICK projected : CommitElision(Elision(projected, SoftPass(projected)))
  BY DEF Elide
<1> DEFINE chosen == Elision(projected, SoftPass(projected))
           node == [covered |-> chosen, children |-> {},
                    text |-> Inventory(Cardinality(chosen))]
<1>3. \A i \in chosen : i \in FinalTurnBoundary /\ Eligible(i) /\ i \notin Covered
  BY <1>1, ElisionFinal
<1>4. body' = body /\ dag' = IF chosen = {} THEN dag ELSE Append(dag, node)
  BY <1>2 DEF Elide, CommitElision
<1>5. FinalTurnBoundary' = FinalTurnBoundary /\ \A i : Eligible(i)' = Eligible(i)
  BY <1>4 DEF FinalTurnBoundary, Visible, UserTurns, Eligible, InFlight
<1> HIDE DEF chosen
<1>6. CASE chosen = {}
  <2>1. dag' = dag
    BY <1>4, <1>6
  <2>2. Covered' = Covered
    BY <2>1 DEF Covered
  <2> QED
    BY <1>1, <1>5, <2>1, <2>2 DEF CoveredInv
<1>7. CASE chosen # {}
  <2>1. dag' = Append(dag, node)
    BY <1>4, <1>7
  <2>2. chosen \in SUBSET (1 .. Len(body)) /\ Len(body) \in Nat
    BY <1>1, <1>3, CompactRanges
  <2>3. node \in Node
    <3>1. Inventory(Cardinality(chosen)) \in Nat
      BY <2>2, InventoryType
    <3>2. chosen \in SUBSET Nat
      BY <2>2
    <3> QED
      BY <3>1, <3>2 DEF Node
  <2> DEFINE new == node
  <2>4. new.children = {} /\ new.covered = chosen /\ new \in Node
    BY <2>3
  <2>5. dag' = Append(dag, new)
    BY <2>1
  <2> HIDE DEF new
  <2>6. Added(dag, new, dag')
    BY <1>1, <2>4, <2>5 DEF Added
  <2>7. \A n \in DOMAIN dag : dag[n].covered \cap new.covered = {}
    BY <1>3, <2>4 DEF Covered
  <2>8. Graph(dag')
    BY <1>1, <2>6, <2>7, AddedGraph
  <2>9. Longer(dag, new, dag', Len(dag) + 1)
    BY <2>6, AddedNodes
  <2>10. Covered' \subseteq Covered \cup chosen
    BY <2>4, <2>9 DEF Longer, Covered
  <2>11. CoveredInv'
    BY <1>1, <1>3, <1>5, <2>10 DEF CoveredInv
  <2> QED
    BY <2>8, <2>9, <2>11 DEF Longer
<1> QED
  BY <1>6, <1>7

\* A node above the first roots.
LEMMA CondenseGraph ==
    ASSUME CompactInv, Condense
    PROVE  dag' \in Seq(Node) /\ Graph(dag') /\ Covered' = Covered
<1>1. body \in Seq(Entry) /\ dag \in Seq(Node) /\ Graph(dag)
  BY DEF CompactInv, CompactionTypeOK
<1>2. CASE dag' = dag
  BY <1>1, <1>2 DEF Covered
<1>3. CASE dag' = Append(dag, CondensedNode)
  <2> DEFINE new == CondensedNode
             children == FoldSetOf(FanIn)
  <2>1. children \subseteq Roots
    BY DEF FoldSetOf
  <2>2. Roots = RootsOf(dag) /\ Roots \subseteq 1 .. Len(dag) /\ Len(dag) \in Nat
    BY <1>1, CompactRanges
  <2> HIDE DEF children
  <2>3. new = [covered |-> {}, children |-> children, text |-> Inventory(Cardinality(children))]
    BY DEF CondensedNode, children
  <2>4. Inventory(Cardinality(children)) \in Nat
    BY <2>1, <2>2, InventoryType
  <2>5. new \in Node /\ new.covered = {} /\ new.children = children
    <3>1. children \in SUBSET Nat
      BY <2>1, <2>2
    <3> HIDE DEF new
    <3> QED
      BY <2>3, <2>4, <3>1 DEF Node
  <2>6. dag' = Append(dag, new)
    BY <1>3
  <2> HIDE DEF new
  <2>7. Added(dag, new, dag')
    BY <1>1, <2>1, <2>2, <2>5, <2>6 DEF Added
  <2>8. Graph(dag')
    BY <1>1, <2>5, <2>7, AddedGraph
  <2>9. Longer(dag, new, dag', Len(dag) + 1)
    BY <2>7, AddedNodes
  <2>10. Covered' = Covered
    <3>1. \A i : i \in Covered' <=> i \in Covered
      BY <2>5, <2>9 DEF Longer, Covered
    <3> QED
      BY <3>1
  <2> QED
    BY <2>8, <2>9, <2>10 DEF Longer
<1> QED
  BY <1>2, <1>3 DEF Condense

\* A shorter text for one of the roots.
LEMMA CapRootsGraph ==
    ASSUME CompactInv, CapRoots
    PROVE  dag' \in Seq(Node) /\ Graph(dag') /\ Covered' = Covered
<1>1. body \in Seq(Entry) /\ dag \in Seq(Node) /\ Graph(dag)
  BY DEF CompactInv, CompactionTypeOK
<1>2. CASE dag' = dag
  BY <1>1, <1>2 DEF Covered
<1>3. CASE dag' # dag
  <2>1. PICK n : n = (CHOOSE k \in LongRoots : \A m \in LongRoots : k <= m)
    OBVIOUS
  <2>2. /\ dag' = [dag EXCEPT ![n].text = CapNodeText(@)]
        /\ LongRoots # {}
    BY <1>3, <2>1 DEF CapRoots
  <2>3. n \in LongRoots
    <3>1. LongRoots \in SUBSET Nat
      <4>1. Roots \subseteq 1 .. Len(dag) /\ Len(dag) \in Nat
        BY <1>1, CompactRanges
      <4>2. LongRoots \subseteq Roots
        BY DEF LongRoots
      <4> QED
        BY <4>1, <4>2
    <3>2. \E k \in LongRoots : \A m \in LongRoots : k <= m
      BY <2>2, <3>1, LeastNatural
    <3> QED
      BY <2>1, <3>2
  <2>4. n \in DOMAIN dag /\ dag[n] \in Node
    BY <1>1, <2>3, CompactRanges DEF LongRoots
  <2> DEFINE node == [dag[n] EXCEPT !.text = CapNodeText(dag[n].text)]
  <2>5. node \in Node /\ node.children = dag[n].children /\ node.covered = dag[n].covered
    <3>1. CapNodeText(dag[n].text) \in Nat
      BY <2>4, CostsAssumption DEF CapNodeText, AtMost, Node
    <3> QED
      BY <2>4, <3>1 DEF Node
  <2>6. dag' = [dag EXCEPT ![n] = node]
    BY <2>2, <2>4
  <2> HIDE DEF node
  <2>7. dag' \in Seq(Node)
    BY <1>1, <2>4, <2>5, <2>6, ExceptSeq
  <2>8. Likewise(dag, dag')
    BY <2>4, <2>5, <2>6 DEF Likewise
  <2>9. Graph(dag')
    BY <1>1, <2>8, GraphLikewise
  <2>10. Covered' = Covered
    <3>1. \A i : i \in Covered' <=> i \in Covered
      BY <2>8 DEF Likewise, Covered
    <3> QED
      BY <3>1
  <2> QED
    BY <2>7, <2>9, <2>10
<1> QED
  BY <1>2, <1>3

\* Finitely many positions in a total order have a first one.
LEMMA FirstInOrder ==
    ASSUME NEW n \in Nat, NEW S \in SUBSET (1 .. n), S # {}, NEW R,
           \A i, j \in S : <<i, j>> \in R \/ <<j, i>> \in R,
           \A i, j, k \in S : <<i, j>> \in R /\ <<j, k>> \in R => <<i, k>> \in R
    PROVE  \E m \in S : \A k \in S : <<m, k>> \in R
<1> DEFINE First(T) == \E m \in T : \A k \in T : <<m, k>> \in R
           U == {k \in Nat : \A T \in SUBSET S : T # {} /\ T \subseteq 1 .. k => First(T)}
<1>1. 0 \in U
  <2>1. 1 .. 0 = {}
    OBVIOUS
  <2>2. \A T \in SUBSET S : T \subseteq 1 .. 0 => T = {}
    BY <2>1
  <2> QED
    BY <2>2
<1>2. ASSUME NEW k \in U
      PROVE  k + 1 \in U
  <2> SUFFICES ASSUME NEW T \in SUBSET S, T # {}, T \subseteq 1 .. (k + 1)
               PROVE  First(T)
    OBVIOUS
  <2> DEFINE V == T \ {k + 1}
  <2>1. V \in SUBSET S /\ V \subseteq 1 .. k
    OBVIOUS
  <2>2. CASE V = {}
    <3>1. \A j \in T : j = k + 1
      BY <2>2
    <3> QED
      BY <3>1
  <2>3. CASE V # {}
    <3>1. PICK m \in V : \A j \in V : <<m, j>> \in R
      BY <2>1, <2>3
    <3>2. CASE k + 1 \in T
      BY <3>1, <3>2
    <3>3. CASE k + 1 \notin T
      BY <3>1, <3>3, SMTT(30)
    <3> QED
      BY <3>2, <3>3
  <2> QED
    BY <2>2, <2>3
<1>3. U = Nat
  <2> HIDE DEF U
  <2> QED
    BY <1>1, <1>2, NatInduct DEF U
<1> QED
  BY <1>3

\* Of what can be reduced there is a first.
LEMMA ReductionChosen ==
    ASSUME body \in Seq(Entry), Reducible # {}
    PROVE  (CHOOSE i \in Reducible : \A j \in Reducible : ReducedBefore(i, j)) \in Reducible
<1>1. Reducible \in SUBSET (1 .. Len(body)) /\ Len(body) \in Nat
  <2>1. Len(body) \in Nat /\ DOMAIN body = 1 .. Len(body)
    BY LenProperties
  <2>2. Reducible \subseteq DOMAIN body
    BY DEF Reducible, Visible
  <2> QED
    BY <2>1, <2>2
<1>2. \A i \in Reducible : NextReduction(i).saves \in Nat
  <2> SUFFICES ASSUME NEW i \in Reducible
               PROVE  NextReduction(i).saves \in Nat
    OBVIOUS
  <2>1. body[i] \in Entry
    BY <1>1, ElementOfSeq, LenProperties
  <2>2. body[i].args \in Nat /\ body[i].text \in Nat /\ Reduced \in Nat
    BY <2>1, CostsAssumption DEF Entry
  <2> QED
    BY <2>2 DEF NextReduction
<1>3. \A i : TruncationRank(i) \in Nat
  BY DEF TruncationRank
<1> DEFINE R == {p \in Reducible \X Reducible : ReducedBefore(p[1], p[2])}
           before(i, j) ==
             \/ TruncationRank(i) < TruncationRank(j)
             \/ /\ TruncationRank(i) = TruncationRank(j)
                /\ \/ NextReduction(i).saves > NextReduction(j).saves
                   \/ NextReduction(i).saves = NextReduction(j).saves /\ i <= j
<1>4. \A i, j : ReducedBefore(i, j) <=> before(i, j)
  BY DEF ReducedBefore
<1>5. \A i, j \in Reducible : <<i, j>> \in R <=> before(i, j)
  BY <1>4
<1>6. \A i \in Reducible : i \in Nat
  BY <1>1
<1>7. \A i, j \in Reducible : before(i, j) \/ before(j, i)
  BY <1>2, <1>3, <1>6
<1>8. \A i, j, k \in Reducible : before(i, j) /\ before(j, k) => before(i, k)
  BY <1>2, <1>3, <1>6
<1> HIDE DEF R, before
<1>9. \E m \in Reducible : \A k \in Reducible : <<m, k>> \in R
  BY <1>1, <1>5, <1>7, <1>8, FirstInOrder
<1>10. \E m \in Reducible : \A k \in Reducible : ReducedBefore(m, k)
  BY <1>4, <1>5, <1>9
<1> QED
  BY <1>10

\* One reduction more.
LEMMA ReduceReduces ==
    ASSUME body \in Seq(Entry), ReducedInv, Reduce
    PROVE  ReducedInv'
<1>1. body' = body
  BY DEF Reduce
<1>2. CASE capped' = capped /\ omitted' = omitted
  BY <1>1, <1>2 DEF ReducedInv
<1>3. CASE ~(capped' = capped /\ omitted' = omitted)
  <2>1. Reducible # {}
    BY <1>3 DEF Reduce
  <2>2. PICK i : i = (CHOOSE k \in Reducible : \A j \in Reducible : ReducedBefore(k, j))
    OBVIOUS
  <2>3. i \in Reducible
    BY <2>1, <2>2, ReductionChosen
  <2>4. \/ NextReduction(i).kind = "omit" /\ omitted' = omitted \cup {i} /\ capped' = capped
        \/ capped' = capped \cup {i} /\ omitted' = omitted
    BY <1>3, <2>1, <2>2 DEF Reduce
  <2>5. i \in DOMAIN body /\ body[i].role # "instructions"
    BY <2>3 DEF Reducible, Visible
  <2>6. NextReduction(i).kind = "omit" => body[i].role = "tool_call"
    BY DEF NextReduction
  <2> QED
    BY <1>1, <2>4, <2>5, <2>6 DEF ReducedInv
<1> QED
  BY <1>2, <1>3

-----------------------------------------------------------------------------
(* Compaction: what each step does to the transcript and to the graph. *)

\* The transcript grows, and calls of its last turn get their results.
LEMMA CompactTranscript ==
    ASSUME CompactionTypeOK, CompactionNext
    PROVE  /\ body' \in Seq(Entry) /\ Continued
           /\ \A i \in DOMAIN body : body'[i].role = body[i].role
<1>1. body \in Seq(Entry) /\ Texts \subseteq Nat
  BY CostsAssumption DEF CompactionTypeOK
<1>2. ASSUME NEW entry \in Entry, Add(entry)
      PROVE  /\ body' \in Seq(Entry) /\ Continued
             /\ \A i \in DOMAIN body : body'[i].role = body[i].role
  BY <1>1, <1>2, AddContinues
<1>3. ASSUME body' = body
      PROVE  /\ body' \in Seq(Entry) /\ Continued
             /\ \A i \in DOMAIN body : body'[i].role = body[i].role
  <2>1. FinalTurnBoundary' = FinalTurnBoundary
    BY <1>3 DEF FinalTurnBoundary, Visible, UserTurns
  <2> QED
    BY <1>1, <1>3, <2>1 DEF Continued
<1>4. \A r \in Roles, t \in Texts, p \in BOOLEAN : Text(r, t, p) \in Entry
  BY <1>1 DEF Text, Entry
<1>5. ASSUME NEW t \in Texts, NEW p \in BOOLEAN, Say(t, p)
      PROVE  \E entry \in Entry : Add(entry)
  BY <1>4, <1>5 DEF Say, Roles
<1>6. ASSUME NEW t \in Texts, Instruct(t)
      PROVE  \E entry \in Entry : Add(entry)
  BY <1>4, <1>6 DEF Instruct, Roles
<1>7. ASSUME NEW t \in Texts, Call(t)
      PROVE  \E entry \in Entry : Add(entry)
  <2>1. [role |-> "tool_call", args |-> t, text |-> 0, pinned |-> FALSE, open |-> TRUE] \in Entry
    BY <1>1 DEF Entry, Roles
  <2> QED
    BY <1>7, <2>1 DEF Call
<1>8. ASSUME NEW t \in Texts, NEW d \in BOOLEAN, Reply(t, d)
      PROVE  \E entry \in Entry : Add(entry)
  <2>1. [Text("assistant", t, FALSE) EXCEPT !.open = ~d] \in Entry
    BY <1>1 DEF Text, Entry, Roles
  <2> QED
    BY <1>8, <2>1 DEF Reply
<1>9. ASSUME NEW i \in DOMAIN body, NEW t \in Texts, Answer(i, t)
      PROVE  /\ body' \in Seq(Entry) /\ Continued
             /\ \A j \in DOMAIN body : body'[j].role = body[j].role
  <2>1. body' \in Seq(Entry) /\ Continued
    BY <1>1, <1>9, AnswerContinues
  <2>2. body[i] \in Entry
    BY <1>1, ElementOfSeq, LenProperties
  <2>3. body' = [body EXCEPT ![i].text = t, ![i].open = FALSE]
    BY <1>9 DEF Answer
  <2>4. \A j \in DOMAIN body : body'[j].role = body[j].role
    BY <2>2, <2>3 DEF Entry
  <2> QED
    BY <2>1, <2>4
<1>10. \/ \E entry \in Entry : Add(entry)
       \/ body' = body
       \/ \E i \in DOMAIN body, t \in Texts : Answer(i, t)
  <2>1. (\E w \in Windows : SwitchModel(w)) => body' = body
    BY DEF SwitchModel
  <2>2. ForeignNode \/ PlanCompaction \/ Elide \/ Condense \/ Reduce \/ CapRoots \/ Abort
          => body' = body
    BY DEF ForeignNode, PlanCompaction, Elide, Condense, Reduce, CapRoots, Abort
  <2> QED
    BY <1>5, <1>6, <1>7, <1>8, <2>1, <2>2 DEF CompactionNext
<1> QED
  BY <1>2, <1>3, <1>9, <1>10

\* The graph stays one, and what it covers stays completed.
LEMMA CompactGraph ==
    ASSUME CompactInv, CompactionNext
    PROVE  dag' \in Seq(Node) /\ Graph(dag') /\ CoveredInv'
<1>1. CompactionTypeOK /\ dag \in Seq(Node) /\ Graph(dag) /\ CoveredInv
  BY DEF CompactInv, CompactionTypeOK
<1>2. Continued
  BY <1>1, CompactTranscript
<1>3. ASSUME Covered' = Covered
      PROVE  CoveredInv'
  BY <1>1, <1>2, <1>3 DEF CoveredInv, Continued, Eligible, InFlight
<1>4. CASE Elide
  BY <1>4, ElideGraph
<1>5. CASE Condense
  BY <1>3, <1>5, CondenseGraph
<1>6. CASE CapRoots
  BY <1>3, <1>6, CapRootsGraph
<1>7. CASE dag' = dag
  <2>1. Covered' = Covered
    BY <1>7 DEF Covered
  <2> QED
    BY <1>1, <1>3, <1>7, <2>1
<1>8. Elide \/ Condense \/ CapRoots \/ dag' = dag
  <2>1. \A t \in Texts, p \in BOOLEAN : Say(t, p) => dag' = dag
    BY DEF Say, UnchangedPlan
  <2>2. \A t \in Texts : Instruct(t) \/ Call(t) => dag' = dag
    BY DEF Instruct, Call, UnchangedPlan
  <2>3. \A i \in DOMAIN body, t \in Texts : Answer(i, t) => dag' = dag
    BY DEF Answer, UnchangedPlan
  <2>4. \A w \in Windows : SwitchModel(w) => dag' = dag
    BY DEF SwitchModel
  <2>5. ForeignNode \/ PlanCompaction \/ Reduce \/ Abort => dag' = dag
    BY DEF ForeignNode, PlanCompaction, Reduce, Abort
  <2>6. \A t \in Texts, d \in BOOLEAN : Reply(t, d) => dag' = dag
    BY DEF Reply
  <2> QED
    BY <2>1, <2>2, <2>3, <2>4, <2>5, <2>6 DEF CompactionNext
<1> QED
  BY <1>4, <1>5, <1>6, <1>7, <1>8

\* What is reduced is of the transcript.
LEMMA CompactReduced ==
    ASSUME CompactInv, CompactionNext
    PROVE  ReducedInv'
<1>1. /\ CompactionTypeOK /\ body \in Seq(Entry) /\ ReducedInv
      /\ capped \in SUBSET DOMAIN body /\ omitted \in SUBSET DOMAIN body
  BY DEF CompactInv, CompactionTypeOK
<1>2. /\ \A i \in DOMAIN body : i \in DOMAIN body' /\ body'[i].role = body[i].role
  BY <1>1, CompactTranscript DEF Continued
<1>3. CASE Reduce
  BY <1>1, <1>3, ReduceReduces
<1>4. CASE capped' \subseteq capped /\ omitted' \subseteq omitted
  BY <1>1, <1>2, <1>4 DEF ReducedInv
<1>5. Reduce \/ (capped' \subseteq capped /\ omitted' \subseteq omitted)
  <2>1. \A t \in Texts, p \in BOOLEAN : Say(t, p) => capped' = capped /\ omitted' = omitted
    BY DEF Say, UnchangedPlan
  <2>2. \A t \in Texts : Instruct(t) \/ Call(t) => capped' = capped /\ omitted' = omitted
    BY DEF Instruct, Call, UnchangedPlan
  <2>3. \A i \in DOMAIN body, t \in Texts : Answer(i, t) => capped' = capped /\ omitted' = omitted
    BY DEF Answer, UnchangedPlan
  <2>4. \A w \in Windows : SwitchModel(w) => capped' = capped /\ omitted' = omitted
    BY DEF SwitchModel
  <2>5. ForeignNode \/ Elide \/ Condense \/ CapRoots => capped' = capped /\ omitted' = omitted
    BY DEF ForeignNode, Elide, Condense, CapRoots
  <2>6. PlanCompaction \/ Abort \/ (\E t \in Texts, d \in BOOLEAN : Reply(t, d))
          => capped' = {} /\ omitted' = {}
    BY DEF PlanCompaction, Abort, Reply
  <2> QED
    BY <2>1, <2>2, <2>3, <2>4, <2>5, <2>6 DEF CompactionNext
<1> QED
  BY <1>3, <1>4, <1>5

\* The stages come in their order.
LEMMA CompactStages ==
    ASSUME CompactInv, CompactionNext
    PROVE  StageInv' /\ stage' \in Stages
<1>1. StageInv /\ ReducedInv
  BY DEF CompactInv
<1>2. CASE stage' = "none"
  BY <1>2 DEF StageInv, Stages
<1>3. CASE PlanCompaction
  <2>1. /\ stage' = IF Bounded /\ ~unreadable THEN "elide" ELSE "send"
        /\ Bounded' = Bounded /\ unreadable' = unreadable
    BY <1>3 DEF PlanCompaction, Bounded
  <2> QED
    BY <2>1 DEF StageInv, Stages
<1>4. CASE Elide
  <2>1. /\ stage = "elide" /\ stage' = "condense"
        /\ Bounded' = Bounded /\ unreadable' = unreadable
    BY <1>4 DEF Elide, Bounded
  <2> QED
    BY <1>1, <2>1 DEF StageInv, Stages
<1>5. CASE Condense
  <2>1. /\ stage = "condense" /\ stage' \in {"condense", "reduce"}
        /\ Bounded' = Bounded /\ unreadable' = unreadable
    BY <1>5 DEF Condense, Bounded
  <2> QED
    BY <1>1, <2>1 DEF StageInv, Stages
<1>6. CASE Reduce
  <2>1. /\ stage = "reduce" /\ Bounded' = Bounded /\ unreadable' = unreadable
    BY <1>6 DEF Reduce, Bounded
  <2>2. CASE ProjectedTokens > Budget.hard /\ Reducible # {}
    <3>1. stage' = "reduce"
      BY <1>6, <2>1, <2>2 DEF Reduce
    <3> QED
      BY <1>1, <2>1, <3>1 DEF StageInv, Stages
  <2>3. CASE ~(ProjectedTokens > Budget.hard /\ Reducible # {})
    <3>1. /\ stage' = "cap"
          /\ UNCHANGED <<body, dag, window, capped, omitted>>
      BY <1>6, <2>3 DEF Reduce
    <3>2. Spent
      BY <2>3 DEF Spent
    <3>3. Spent'
      BY <3>1, <3>2 DEF Spent, ProjectedTokens, SumOver, Budget, Reducible, Visible, Covered, Roots,
                        EntryCost, Tokens, FoldTokens, NextReduction
    <3> QED
      BY <1>1, <2>1, <3>1, <3>3 DEF StageInv, Stages
  <2> QED
    BY <2>2, <2>3
<1>7. CASE CapRoots
  <2>1. /\ stage = "cap" /\ Bounded' = Bounded /\ unreadable' = unreadable
        /\ UNCHANGED <<body, window, capped, omitted>>
    BY <1>7 DEF CapRoots, Bounded
  <2>2. Spent
    BY <1>1, <2>1 DEF StageInv
  <2>3. CASE ProjectedTokens > Budget.hard /\ LongRoots # {}
    <3>1. stage' = "cap"
      BY <1>7, <2>1, <2>3 DEF CapRoots
    <3>2. Reducible = {}
      BY <2>2, <2>3 DEF Spent
    <3>3. Covered' = Covered
      BY <1>7, CapRootsGraph
    <3>4. Reducible' = Reducible
      BY <2>1, <3>3 DEF Reducible, Visible, NextReduction
    <3> QED
      BY <1>1, <2>1, <3>1, <3>2, <3>4 DEF StageInv, Stages, Spent
  <2>4. CASE ~(ProjectedTokens > Budget.hard /\ LongRoots # {})
    <3>1. stage' = "send" /\ dag' = dag
      BY <1>7, <2>4 DEF CapRoots
    <3> DEFINE fits == ProjectedTokens > Budget.hard => Reducible = {} /\ LongRoots = {}
    <3>2. fits
      BY <2>2, <2>4 DEF Spent
    <3>3. fits'
      BY <2>1, <3>1, <3>2 DEF ProjectedTokens, SumOver, Budget, Reducible, Visible, Covered, Roots,
                        EntryCost, Tokens, FoldTokens, NextReduction, LongRoots
    <3> QED
      BY <3>1, <3>3 DEF StageInv, Stages
  <2> QED
    BY <2>3, <2>4
<1>8. PlanCompaction \/ Elide \/ Condense \/ Reduce \/ CapRoots \/ stage' = "none"
  <2>1. \A t \in Texts, p \in BOOLEAN : Say(t, p) => stage' = "none"
    BY DEF Say, UnchangedPlan
  <2>2. \A t \in Texts : Instruct(t) \/ Call(t) => stage' = "none"
    BY DEF Instruct, Call, UnchangedPlan
  <2>3. \A i \in DOMAIN body, t \in Texts : Answer(i, t) => stage' = "none"
    BY DEF Answer, UnchangedPlan
  <2>4. \A w \in Windows : SwitchModel(w) => stage' = "none"
    BY DEF SwitchModel
  <2>5. ForeignNode \/ Abort => stage' = "none"
    BY DEF ForeignNode, Abort
  <2>6. \A t \in Texts, d \in BOOLEAN : Reply(t, d) => stage' = "none"
    BY DEF Reply
  <2> QED
    BY <2>1, <2>2, <2>3, <2>4, <2>5, <2>6 DEF CompactionNext
<1> QED
  BY <1>2, <1>3, <1>4, <1>5, <1>6, <1>7, <1>8

\* The rest of the types.
LEMMA CompactTypes ==
    ASSUME CompactInv, CompactionNext
    PROVE  CompactionTypeOK'
<1>1. /\ CompactionTypeOK /\ unreadable \in BOOLEAN /\ window \in Windows
      /\ switches \in 0 .. MaxSwitches /\ MaxSwitches \in Nat
  BY CostsAssumption DEF CompactInv, CompactionTypeOK
<1>2. body' \in Seq(Entry)
  BY <1>1, CompactTranscript
<1>3. dag' \in Seq(Node)
  BY CompactGraph
<1>4. capped' \in SUBSET DOMAIN body' /\ omitted' \in SUBSET DOMAIN body'
  BY CompactReduced DEF ReducedInv
<1>5. stage' \in Stages
  BY CompactStages
<1>6. ForeignNode => unreadable' = TRUE /\ window' = window /\ switches' = switches
  BY DEF ForeignNode
<1>7. ASSUME NEW w \in Windows, SwitchModel(w)
      PROVE  /\ unreadable' = unreadable
             /\ window' \in Windows /\ switches' \in 0 .. MaxSwitches
  BY <1>1, <1>7 DEF SwitchModel
<1>9. \/ ForeignNode \/ UNCHANGED <<unreadable, window, switches>>
      \/ \E w \in Windows : SwitchModel(w)
  <2>1. \A t \in Texts, p \in BOOLEAN : Say(t, p) => UNCHANGED <<unreadable, window, switches>>
    BY DEF Say, UnchangedPlan
  <2>2. \A t \in Texts : Instruct(t) \/ Call(t) => UNCHANGED <<unreadable, window, switches>>
    BY DEF Instruct, Call, UnchangedPlan
  <2>3. \A i \in DOMAIN body, t \in Texts :
          Answer(i, t) => UNCHANGED <<unreadable, window, switches>>
    BY DEF Answer, UnchangedPlan
  <2>4. PlanCompaction \/ Elide \/ Condense \/ Reduce \/ CapRoots \/ Abort
          => UNCHANGED <<unreadable, window, switches>>
    BY DEF PlanCompaction, Elide, Condense, Reduce, CapRoots, Abort
  <2>5. \A t \in Texts, d \in BOOLEAN : Reply(t, d) => UNCHANGED <<unreadable, window, switches>>
    BY DEF Reply
  <2> QED
    BY <2>1, <2>2, <2>3, <2>4, <2>5 DEF CompactionNext
<1>10. window' \in Windows /\ switches' \in 0 .. MaxSwitches
  BY <1>1, <1>6, <1>7, <1>9
<1>11. unreadable' = TRUE \/ unreadable' = unreadable
  BY <1>6, <1>7, <1>9
<1>12. unreadable' \in BOOLEAN
  BY <1>1, <1>11
<1> QED
  BY <1>2, <1>3, <1>4, <1>5, <1>10, <1>12 DEF CompactionTypeOK

LEMMA CompactSteps ==
    ASSUME CompactInv, [CompactionNext]_compactionVars
    PROVE  CompactInv'
<1>1. CASE CompactionNext
  BY <1>1, CompactTypes, CompactGraph, CompactReduced, CompactStages DEF CompactInv
<1>2. CASE UNCHANGED compactionVars
  <2>1. UNCHANGED <<body, dag, unreadable, window, switches, stage, capped, omitted>>
    BY <1>2 DEF compactionVars
  <2>2. CompactionTypeOK' /\ ReducedInv' /\ Graph(dag')
    BY <2>1 DEF CompactInv, CompactionTypeOK, ReducedInv
  <2>3. CoveredInv'
    BY <2>1 DEF CompactInv, CoveredInv, Covered, FinalTurnBoundary, Visible, UserTurns, Eligible,
                InFlight
  <2>4. StageInv'
    BY <2>1 DEF CompactInv, StageInv, Spent, ProjectedTokens, SumOver, Budget, Reducible, Visible,
                Covered, Roots, EntryCost, Tokens, FoldTokens, NextReduction, LongRoots, Bounded
  <2> QED
    BY <2>2, <2>3, <2>4 DEF CompactInv
<1> QED
  BY <1>1, <1>2

LEMMA CompactStarts ==
    ASSUME CompactionInit
    PROVE  CompactInv
<1>1. /\ body = <<>> /\ dag = <<>> /\ unreadable = FALSE /\ window \in Windows
      /\ switches = 0 /\ stage = "none" /\ capped = {} /\ omitted = {}
  BY DEF CompactionInit
<1>2. DOMAIN dag = {} /\ body \in Seq(Entry) /\ dag \in Seq(Node)
  BY <1>1
<1>3. CompactionTypeOK
  <2>1. unreadable \in BOOLEAN
    BY <1>1
  <2>2. switches \in 0 .. MaxSwitches /\ stage \in Stages
    BY <1>1, CostsAssumption DEF Stages
  <2>3. capped \in SUBSET DOMAIN body /\ omitted \in SUBSET DOMAIN body
    BY <1>1
  <2> QED
    BY <1>1, <1>2, <2>1, <2>2, <2>3 DEF CompactionTypeOK
<1>4. Graph(dag) /\ CoveredInv
  BY <1>2 DEF Graph, Within, OneRoot, Apart, CoveredInv, Covered
<1> QED
  BY <1>1, <1>3, <1>4 DEF CompactInv, ReducedInv, StageInv

-----------------------------------------------------------------------------
(* Compaction: what follows. *)

\* Every covered element is reached from exactly one root.
LEMMA OneFold ==
    ASSUME CompactInv
    PROVE  NothingLost
<1>1. CompactionTypeOK /\ dag \in Seq(Node) /\ Graph(dag) /\ CoveredInv
  BY DEF CompactInv, CompactionTypeOK
<1>2. Roots = RootsOf(dag) /\ Roots \subseteq DOMAIN dag
  BY DEF Roots, RootsOf
<1>3. \A r \in Roots : Below(dag, r) \subseteq DOMAIN dag
  BY DEF Below
<1> DEFINE folds(i) == {r \in Roots : i \in ExpandCovered(r)}
<1>4. ASSUME NEW i \in Covered
      PROVE  Cardinality(folds(i)) = 1
  <2>1. PICK n \in DOMAIN dag : i \in dag[n].covered
    BY DEF Covered
  <2>2. PICK r \in Roots : \A q \in Roots : n \in Below(dag, q) <=> q = r
    BY <1>1, <1>2 DEF Graph, OneRoot
  <2>3. ASSUME NEW q \in Roots
        PROVE  i \in ExpandCovered(q) <=> q = r
    <3>1. \A m \in DOMAIN dag : i \in dag[m].covered => m = n
      BY <1>1, <2>1 DEF Graph, Apart
    <3>2. i \in ExpandCovered(q) <=> n \in Below(dag, q)
      BY <1>3, <2>1, <3>1 DEF ExpandCovered
    <3> QED
      BY <2>2, <3>2
  <2>4. folds(i) = {r}
    BY <2>2, <2>3
  <2> QED
    BY <2>4, FS_Singleton
<1>5. ASSUME NEW i, i \notin Covered
      PROVE  Cardinality(folds(i)) = 0
  <2>1. folds(i) = {}
    BY <1>3, <1>5 DEF ExpandCovered, Covered
  <2> QED
    BY <2>1, FS_EmptySet
<1> HIDE DEF folds
<1>6. \A i \in Visible : Cardinality(folds(i)) = IF i \in Covered THEN 1 ELSE 0
  BY <1>4, <1>5
<1> QED
  BY <1>1, <1>6 DEF NothingLost, CoveredInv, folds

\* A request that was planned fits, or nothing was left to take.
LEMMA SentFits ==
    ASSUME CompactInv
    PROVE  FitsOrExhausted
<1> SUFFICES ASSUME stage = "send", Bounded, ~unreadable,
                    ~(Reducible = {} /\ LongRoots = {})
             PROVE  RequestCost <= Budget.hard + Uncounted
  BY DEF FitsOrExhausted
<1>1. ~(ProjectedTokens > Budget.hard)
  BY DEF CompactInv, StageInv
<1>2. body \in Seq(Entry) /\ dag \in Seq(Node) /\ ReducedInv /\ window \in Nat /\ Reserve \in Nat
  BY CostsAssumption DEF CompactInv, CompactionTypeOK
<1>3. Budget.hard \in Int
  BY <1>2 DEF Budget
<1> DEFINE m == Uncounted
<1>4. ProjectedTokens \in Nat /\ RequestCost \in Nat /\ m \in Nat
      /\ RequestCost <= ProjectedTokens + m
  BY <1>2, RequestWithin
<1> HIDE DEF m
<1>5. RequestCost <= Budget.hard + m
  BY <1>1, <1>3, <1>4
<1> QED
  BY <1>5 DEF m

\* Compaction loses nothing: what a request leaves out is of completed turns,
\* and exactly one of the folds that stand in it leads back to it
\* (compaction.rs, summary.rs), for every transcript, window and budget.
THEOREM CompactionLosesNothing == CompactionSpec => []NothingLost
<1>1. CompactionInit => CompactInv
  BY CompactStarts
<1>2. CompactInv /\ [CompactionNext]_compactionVars => CompactInv'
  BY CompactSteps
<1>3. CompactInv => NothingLost
  BY OneFold
<1> QED
  BY <1>1, <1>2, <1>3, PTL DEF CompactionSpec

\* A request that was planned fits into the window, but for the markers and the
\* excess of the headers of folds over their constant, or everything was reduced
\* and capped (CompactionPlanner in compaction.rs, derive_inference_request in
\* host.rs).
THEOREM RequestsFit == CompactionSpec => []FitsOrExhausted
<1>1. CompactionInit => CompactInv
  BY CompactStarts
<1>2. CompactInv /\ [CompactionNext]_compactionVars => CompactInv'
  BY CompactSteps
<1>3. CompactInv => FitsOrExhausted
  BY SentFits
<1> QED
  BY <1>1, <1>2, <1>3, PTL DEF CompactionSpec

-----------------------------------------------------------------------------
(* Console: types. *)

KnownModels == [id : Nat, limit : Nat, levels : SUBSET Nat]
Records == [endpoint : Endpoints, key : Keys \cup {Unset}, model : Nat,
            models : SUBSET KnownModels]
Registries == UNION {[known -> Records] : known \in SUBSET Names}
Metas == [endpoint : Endpoints, models : SUBSET KnownModels] \cup {Unset}

\* A session, in which a provider has one name, and a catalog or a failure.
AnySession == [set : Settings, bind : BOOLEAN, alias : Bodies \cup {Unset},
               registry : Registries, meta : Metas, failed : BOOLEAN, force : 0 .. 1]
Unshared(registry) ==
    \A m, n \in DOMAIN registry : registry[m].endpoint = registry[n].endpoint => m = n
GoodSessions ==
    {d \in AnySession : Unshared(d.registry) /\ (d.failed => d.meta = Unset)}

\* A client without an endpoint has no key and no catalog.
AnyClient == [endpoint : Endpoints \cup {Unset}, key : Keys \cup {Unset}, model : Nat,
              meta : Metas]
Clients == {c \in AnyClient : c.endpoint = Unset => c.key = Unset /\ c.meta = Unset}

\* A set of numbers has its least, and a set of positions its last.
LEMMA LeastIn ==
    ASSUME NEW S \in SUBSET Nat, S # {}
    PROVE  Min(S) \in S
<1>1. \E m \in S : \A k \in S : m <= k
  BY LeastNatural
<1>2. \E m \in S : \A k \in S : k >= m
  BY <1>1
<1> QED
  BY <1>1, <1>2 DEF Min

LEMMA LastIn ==
    ASSUME NEW n \in Nat, NEW S \in SUBSET (1 .. n), S # {}
    PROVE  Max(S) \in S
<1>1. \E m \in S : \A k \in S : k <= m
  BY GreatestPosition
<1>2. \E m \in S : \A k \in S : m >= k
  BY <1>1
<1> QED
  BY <1>1, <1>2 DEF Max

-----------------------------------------------------------------------------
(* Console: catalogs. *)

\* What is read of a catalog is models with their ids.
LEMMA PagedModels ==
    ASSUME NEW pages \in Catalogs
    PROVE  Paged(pages) \subseteq KnownModels
<1> DEFINE ends == {k \in 1 .. Len(pages) :
                      ~GoesOn(pages[k]) \/ (k > 1 /\ pages[k].models = <<>>)}
           size == Min(ends)
           empty == size > 1 /\ pages[size].models = <<>>
           places == UNION {{<<k, i>> : i \in DOMAIN pages[k].models} : k \in 1 .. size}
           model(p) == pages[p[1]].models[p[2]]
<1>1. Len(pages) \in Nat /\ DOMAIN pages = 1 .. Len(pages)
  BY ConsoleAssumption, LenProperties
<1>2. CASE ends = {} \/ \E k \in 1 .. size : ~Readable(pages[k])
  <2>1. Paged(pages) = {}
    BY <1>2 DEF Paged
  <2> QED
    BY <2>1
<1>3. CASE ends # {} /\ \A k \in 1 .. size : Readable(pages[k])
  <2>1. size \in 1 .. Len(pages)
    <3>1. ends \in SUBSET Nat /\ ends \subseteq 1 .. Len(pages)
      BY <1>1
    <3> HIDE DEF ends
    <3>2. Min(ends) \in ends
      BY <1>3, <3>1, LeastIn
    <3> QED
      BY <3>1, <3>2
  <2> HIDE DEF size
  <2>2. ASSUME NEW k \in 1 .. size, NEW i \in DOMAIN pages[k].models
        PROVE  pages[k].models[i] \in KnownModels
    <3>1. k \in DOMAIN pages
      BY <1>1, <2>1
    <3>2. pages[k].models[i] \in Entries
      BY <3>1, <2>2, ConsoleAssumption
    <3>3. pages[k].models[i].id # Unset
      BY <1>3, <2>2 DEF Readable, Usable
    <3> QED
      BY <3>2, <3>3 DEF Entries, KnownModels
  <2>3. \A p \in places : model(p) \in KnownModels
    BY <2>2
  <2>4. Paged(pages) = {} \/ Paged(pages) = {model(p) : p \in places}
    BY DEF Paged, size
  <2> HIDE DEF places, model
  <2> QED
    BY <2>3, <2>4
<1> QED
  BY <1>2, <1>3

\* What the registry says of a model.
LEMMA KnownTypes ==
    ASSUME NEW endpoint, NEW id
    PROVE  Known(endpoint, id).limit \in Nat /\ Known(endpoint, id).levels \in SUBSET Nat
<1> DEFINE these == {k \in DOMAIN Registry :
                       Registry[k].api = endpoint /\ id \in DOMAIN Registry[k].models}
<1>1. CASE these = {}
  BY <1>1 DEF Known
<1>2. CASE these # {}
  <2>1. Len(Registry) \in Nat /\ DOMAIN Registry = 1 .. Len(Registry)
    BY ConsoleAssumption, LenProperties
  <2>2. these \in SUBSET (1 .. Len(Registry))
    BY <2>1
  <2>3. Max(these) \in these
    <3> HIDE DEF these
    <3> QED
      BY <1>2, <2>1, <2>2, LastIn
  <2>4. Max(these) \in DOMAIN Registry /\ id \in DOMAIN Registry[Max(these)].models
    BY <2>3
  <2>5. Known(endpoint, id) = Registry[Max(these)].models[id]
    BY <1>2 DEF Known
  <2> HIDE DEF these
  <2> QED
    BY <2>4, <2>5, ConsoleAssumption
<1> QED
  BY <1>1, <1>2

LEMMA EnrichedModels ==
    ASSUME NEW endpoint, NEW models \in SUBSET KnownModels
    PROVE  Enriched(endpoint, models) \in SUBSET KnownModels
<1> DEFINE with(m) ==
             [m EXCEPT
                !.limit = IF @ = 0 THEN Known(endpoint, m.id).limit ELSE @,
                !.levels = IF @ = {} THEN Known(endpoint, m.id).levels ELSE @]
<1>1. ASSUME NEW m \in models
      PROVE  with(m) \in KnownModels
  <2>1. Known(endpoint, m.id).limit \in Nat /\ Known(endpoint, m.id).levels \in SUBSET Nat
    BY KnownTypes
  <2>2. m \in [id : Nat, limit : Nat, levels : SUBSET Nat]
    BY DEF KnownModels
  <2> QED
    BY <2>1, <2>2 DEF KnownModels
<1>2. Enriched(endpoint, models) = models \/ Enriched(endpoint, models) = {with(m) : m \in models}
  BY DEF Enriched
<1> HIDE DEF with
<1> QED
  BY <1>1, <1>2

Published == catalog \in [Endpoints \ Insecure -> Catalogs]

LEMMA FetchedModels ==
    ASSUME Published, NEW endpoint \in Endpoints
    PROVE  Fetched(endpoint) \in SUBSET KnownModels
<1>1. CASE endpoint \in Insecure
  BY <1>1 DEF Fetched
<1>2. CASE endpoint \notin Insecure
  <2>1. catalog[endpoint] \in Catalogs
    BY <1>2 DEF Published
  <2>2. Paged(catalog[endpoint]) \in SUBSET KnownModels
    BY <2>1, PagedModels
  <2> QED
    BY <1>2, <2>2, EnrichedModels DEF Fetched
<1> QED
  BY <1>1, <1>2

LEMMA ModelFound ==
    ASSUME NEW models \in SUBSET KnownModels, NEW id \in Nat
    PROVE  ModelOf(models, id) \in KnownModels
<1> DEFINE known == {model \in models : model.id = id}
<1>1. CASE known = {}
  <2>1. ModelOf(models, id) = [id |-> id, limit |-> 0, levels |-> {}]
    BY <1>1 DEF ModelOf
  <2> QED
    BY <2>1 DEF KnownModels
<1>2. CASE known # {}
  BY <1>2 DEF ModelOf
<1> QED
  BY <1>1, <1>2

-----------------------------------------------------------------------------
(* Console: clients. *)

LEMMA ClientFields ==
    ASSUME NEW set \in Settings
    PROVE  /\ ClientOf(set) \in Clients
           /\ ClientOf(set).endpoint = set.endpoint
           /\ ClientOf(set).key = IF set.endpoint = Unset THEN Unset ELSE set.key
           /\ ClientOf(set).model = set.model /\ ClientOf(set).meta = Unset
<1> DEFINE key == IF set.endpoint = Unset THEN Unset ELSE set.key
<1>1. /\ set.endpoint \in Endpoints \cup {Unset} /\ key \in Keys \cup {Unset}
      /\ set.model \in Nat
  BY DEF Settings
<1>2. ClientOf(set) = [Unconfigured EXCEPT !.endpoint = set.endpoint, !.model = set.model,
                                          !.key = key]
  BY DEF ClientOf
<1>3. key = IF set.endpoint = Unset THEN Unset ELSE set.key
  OBVIOUS
<1> HIDE DEF key
<1>4. Unconfigured \in AnyClient /\ Unconfigured.meta = Unset
  BY DEF Unconfigured, AnyClient, Metas
<1>5. ClientOf(set) \in AnyClient
  BY <1>1, <1>2, <1>4 DEF AnyClient
<1>6. /\ ClientOf(set).endpoint = set.endpoint /\ ClientOf(set).key = key
      /\ ClientOf(set).model = set.model /\ ClientOf(set).meta = Unset
  BY <1>1, <1>2, <1>4 DEF AnyClient
<1> QED
  BY <1>3, <1>5, <1>6 DEF Clients

LEMMA RefreshedClient ==
    ASSUME NEW set \in Settings, NEW old \in Clients
    PROVE  Refreshed(set, old) \in Clients
<1> DEFINE new == ClientOf(set)
<1>1. new \in Clients
  BY ClientFields
<1> HIDE DEF new
<1>2. ASSUME new.endpoint = old.endpoint
      PROVE  [new EXCEPT !.meta = old.meta] \in Clients
  BY <1>1, <1>2 DEF Clients, AnyClient
<1> QED
  BY <1>1, <1>2 DEF Refreshed, new

LEMMA SelectedClient ==
    ASSUME NEW new \in Clients, NEW models \in SUBSET KnownModels
    PROVE  /\ Selected(new, models) \in Clients
           /\ Selected(new, models).endpoint = new.endpoint
<1> DEFINE ids == {model.id : model \in models}
           chosen == IF \E model \in models : model.id = new.model THEN new.model
                     ELSE IF models = {} THEN new.model ELSE Min(ids)
<1>1. chosen \in Nat
  <2>1. new.model \in Nat
    BY DEF Clients, AnyClient
  <2>2. ids \in SUBSET Nat
    BY DEF KnownModels
  <2>3. ASSUME models # {}
        PROVE  Min(ids) \in Nat
    <3>1. ids # {}
      BY <2>3
    <3> HIDE DEF ids
    <3> QED
      BY <2>2, <3>1, LeastIn
  <2> HIDE DEF ids
  <2> QED
    BY <2>1, <2>3
<1>2. Selected(new, models) = [new EXCEPT !.model = chosen]
  BY DEF Selected
<1> HIDE DEF chosen
<1> QED
  BY <1>1, <1>2 DEF Clients, AnyClient

-----------------------------------------------------------------------------
(* Console: the providers of a session. *)

\* What can be said of a registry: of what records it consists, and that
\* no two are of one endpoint.
Registered(registry) == registry \in Registries /\ Unshared(registry)

LEMMA RegistryShape ==
    ASSUME NEW registry
    PROVE  registry \in Registries <=>
             /\ registry = [n \in DOMAIN registry |-> registry[n]]
             /\ DOMAIN registry \in SUBSET Names
             /\ \A n \in DOMAIN registry : registry[n] \in Records
BY DEF Registries

\* What is recorded takes the place of all that has its endpoint.
LEMMA RecordKept ==
    ASSUME NEW registry, Registered(registry), NEW name \in Names, NEW record \in Records,
           NEW models \in SUBSET KnownModels
    PROVE  Registered(Record(registry, name, record, models))
<1> DEFINE old == IF name \in DOMAIN registry THEN registry[name].models ELSE {}
           new == [record EXCEPT !.models = IF models = {} THEN old ELSE models]
           rest == DOMAIN registry \ Matching(registry, record.endpoint)
           result == [n \in {name} \cup rest |-> IF n = name THEN new ELSE registry[n]]
<1>1. /\ DOMAIN registry \in SUBSET Names
      /\ \A n \in DOMAIN registry : registry[n] \in Records
  BY RegistryShape DEF Registered
<1>2. old \in SUBSET KnownModels
  BY <1>1 DEF Records
<1> HIDE DEF old
<1>3. new \in Records /\ new.endpoint = record.endpoint
  BY <1>2 DEF Records
<1> HIDE DEF new
<1>4. \A n \in rest : n \in DOMAIN registry /\ registry[n].endpoint # record.endpoint
  BY DEF Matching
<1> HIDE DEF rest
<1>5. result = [n \in DOMAIN result |-> result[n]] /\ DOMAIN result = {name} \cup rest
  OBVIOUS
<1>6. \A n \in DOMAIN result : result[n] = IF n = name THEN new ELSE registry[n]
  OBVIOUS
<1>7. Record(registry, name, record, models) = result
  BY DEF Record, old, new, rest
<1> HIDE DEF result
<1>8. \A n \in DOMAIN result : result[n] \in Records
  BY <1>1, <1>3, <1>4, <1>5, <1>6
<1>9. DOMAIN result \in SUBSET Names
  BY <1>1, <1>4, <1>5
<1>10. result \in Registries
  BY <1>5, <1>8, <1>9, RegistryShape
<1>11. ASSUME NEW m \in DOMAIN result, NEW n \in DOMAIN result,
              result[m].endpoint = result[n].endpoint
       PROVE  m = n
  BY <1>3, <1>4, <1>5, <1>6, <1>11 DEF Registered, Unshared
<1> QED
  BY <1>7, <1>10, <1>11 DEF Registered, Unshared

\* A registry with some of its records, or with other catalogs in them.
LEMMA RegistryWithout ==
    ASSUME NEW registry, Registered(registry), NEW gone
    PROVE  Registered([n \in DOMAIN registry \ gone |-> registry[n]])
<1> DEFINE result == [n \in DOMAIN registry \ gone |-> registry[n]]
<1>1. /\ DOMAIN registry \in SUBSET Names
      /\ \A n \in DOMAIN registry : registry[n] \in Records
  BY RegistryShape DEF Registered
<1>2. result = [n \in DOMAIN result |-> result[n]] /\ DOMAIN result = DOMAIN registry \ gone
  OBVIOUS
<1>3. \A n \in DOMAIN result : n \in DOMAIN registry /\ result[n] = registry[n]
  OBVIOUS
<1> HIDE DEF result
<1>4. result \in Registries
  BY <1>1, <1>2, <1>3, RegistryShape
<1>5. Unshared(result)
  BY <1>3 DEF Registered, Unshared
<1>6. Registered(result)
  BY <1>4, <1>5 DEF Registered
<1> QED
  BY <1>6 DEF result

\* The session's own provider, under the name that it has or is given.
LEMMA ActiveKept ==
    ASSUME NEW registry, Registered(registry), NEW set \in Settings, NEW new \in Clients,
           NEW models \in SUBSET KnownModels
    PROVE  Registered(RecordActive(registry, set, new, models))
<1> DEFINE known == Matching(registry, new.endpoint)
           name == IF set.name # Unset THEN set.name ELSE HostOf[new.endpoint]
           record == [endpoint |-> new.endpoint, key |-> set.key, model |-> new.model,
                      models |-> {}]
<1>1. /\ DOMAIN registry \in SUBSET Names
      /\ \A n \in DOMAIN registry : registry[n] \in Records
  BY RegistryShape DEF Registered
<1>2. CASE new.endpoint = Unset
  BY <1>2 DEF RecordActive
<1>3. CASE new.endpoint # Unset /\ known = {}
  <2>1. name \in Names
    BY <1>3, ConsoleAssumption DEF Settings, Clients, AnyClient
  <2>2. record \in Records
    BY <1>3 DEF Settings, Clients, AnyClient, Records
  <2>3. RecordActive(registry, set, new, models) = Record(registry, name, record, models)
    BY <1>3 DEF RecordActive
  <2> HIDE DEF name, record
  <2> QED
    BY <2>1, <2>2, <2>3, RecordKept
<1>4. CASE new.endpoint # Unset /\ known # {}
  <2> DEFINE n == CHOOSE n \in known : TRUE
  <2>1. n \in known
    BY <1>4
  <2>2. n \in Names /\ registry[n] \in Records
    BY <1>1, <2>1 DEF Matching
  <2>3. RecordActive(registry, set, new, models) =
          IF models = {} THEN registry ELSE Record(registry, n, registry[n], models)
    BY <1>4 DEF RecordActive
  <2> HIDE DEF n
  <2> QED
    BY <2>2, <2>3, RecordKept
<1> QED
  BY <1>2, <1>3, <1>4

-----------------------------------------------------------------------------
(* Console: sessions. *)

\* A session with another registry is one, and says the same otherwise.
LEMMA OtherRegistry ==
    ASSUME NEW d \in GoodSessions, NEW registry, Registered(registry)
    PROVE  /\ [d EXCEPT !.registry = registry] \in GoodSessions
           /\ Own([d EXCEPT !.registry = registry]) = Own(d)
           /\ [d EXCEPT !.registry = registry].set = d.set
           /\ [d EXCEPT !.registry = registry].meta = d.meta
           /\ [d EXCEPT !.registry = registry].force = d.force
<1> DEFINE e == [d EXCEPT !.registry = registry]
<1>1. d \in AnySession /\ (d.failed => d.meta = Unset)
  BY DEF GoodSessions
<1>2. registry \in Registries /\ Unshared(registry)
  BY DEF Registered
<1>3. e \in AnySession /\ e.registry = registry
  BY <1>1, <1>2 DEF AnySession
<1>4. /\ e.set = d.set /\ e.meta = d.meta /\ e.failed = d.failed /\ e.bind = d.bind
      /\ e.alias = d.alias /\ e.force = d.force
  BY <1>1 DEF AnySession
<1> HIDE DEF e
<1>5. e \in GoodSessions
  BY <1>1, <1>2, <1>3, <1>4 DEF GoodSessions
<1>6. Own(e) = Own(d)
  BY <1>4 DEF Own
<1> QED
  BY <1>4, <1>5, <1>6 DEF e

\* What every session has.
LEMMA SessionParts ==
    ASSUME NEW d \in GoodSessions
    PROVE  /\ d.set \in Settings /\ Registered(d.registry) /\ d.meta \in Metas
           /\ DOMAIN d.registry \subseteq Names
           /\ \A n \in DOMAIN d.registry : d.registry[n] \in Records
<1>1. d.set \in Settings /\ d.registry \in Registries /\ d.meta \in Metas
  BY DEF GoodSessions, AnySession
<1>2. Registered(d.registry)
  BY <1>1 DEF GoodSessions, Registered
<1> QED
  BY <1>1, <1>2, RegistryShape

\* Catalogs that are fetched again.
LEMMA CatalogsKept ==
    ASSUME Published, NEW d \in GoodSessions, NEW onlyEmpty
    PROVE  /\ WithCatalogs(d, onlyEmpty) \in GoodSessions
           /\ Own(WithCatalogs(d, onlyEmpty)) = Own(d)
           /\ WithCatalogs(d, onlyEmpty).set = d.set
           /\ WithCatalogs(d, onlyEmpty).meta = d.meta
           /\ WithCatalogs(d, onlyEmpty).force = d.force
<1> DEFINE due(n) ==
             LET record == d.registry[n] IN
             /\ record.endpoint # d.set.endpoint
             /\ onlyEmpty => record.models = {}
             /\ Tried(record) # {}
           with(record) == [record EXCEPT !.models = Tried(record)]
           result == [n \in DOMAIN d.registry |->
                        IF due(n) THEN with(d.registry[n]) ELSE d.registry[n]]
<1>1. /\ Registered(d.registry) /\ DOMAIN d.registry \subseteq Names
      /\ \A n \in DOMAIN d.registry : d.registry[n] \in Records
  BY SessionParts
<1>2. ASSUME NEW n \in DOMAIN d.registry
      PROVE  result[n] \in Records /\ result[n].endpoint = d.registry[n].endpoint
  <2> DEFINE record == d.registry[n]
  <2>1. record \in Records
    BY <1>1, <1>2
  <2>2. ASSUME due(n)
        PROVE  with(record) \in Records /\ with(record).endpoint = record.endpoint
    <3>1. Tried(record) = {} \/ Tried(record) = Fetched(record.endpoint)
      BY DEF Tried
    <3>2. Tried(record) \in SUBSET KnownModels
      <4>1. record.endpoint \in Endpoints
        BY <2>1 DEF Records
      <4> QED
        BY <3>1, <4>1, FetchedModels
    <3> QED
      BY <2>1, <3>2 DEF Records
  <2>3. result[n] = IF due(n) THEN with(record) ELSE record
    BY <1>2
  <2> HIDE DEF due, with, record, result
  <2>4. result[n] \in Records /\ result[n].endpoint = record.endpoint
    BY <2>1, <2>2, <2>3
  <2> QED
    BY <2>4 DEF record
<1>3. result = [n \in DOMAIN result |-> result[n]] /\ DOMAIN result = DOMAIN d.registry
  OBVIOUS
<1>4. WithCatalogs(d, onlyEmpty) = [d EXCEPT !.registry = result]
  BY DEF WithCatalogs
<1> HIDE DEF result
<1>5. result \in Registries
  BY <1>1, <1>2, <1>3, RegistryShape
<1>6. Unshared(result)
  BY <1>1, <1>2, <1>3 DEF Registered, Unshared
<1> QED
  BY <1>4, <1>5, <1>6, OtherRegistry DEF Registered

-----------------------------------------------------------------------------
(* Console: outcomes. *)

\* What a command may come to: sessions, the last of which has what only
\* scripts change as given, and a client.
Comes(o, own) ==
    /\ o \in [doms : Seq(GoodSessions), client : Clients, ok : BOOLEAN]
    /\ o.doms # <<>>
    /\ Last(o.doms) \in GoodSessions /\ Own(Last(o.doms)) = own

LEMMA LastAppended ==
    ASSUME NEW S, NEW s \in Seq(S), NEW e \in S
    PROVE  /\ Append(s, e) \in Seq(S) /\ Append(s, e) # <<>> /\ Last(Append(s, e)) = e
<1>1. Append(s, e) \in Seq(S) /\ Len(Append(s, e)) = Len(s) + 1 /\ Len(s) \in Nat
  OBVIOUS
<1>2. Append(s, e)[Len(s) + 1] = e
  OBVIOUS
<1> QED
  BY <1>1, <1>2 DEF Last

LEMMA OneSession ==
    ASSUME NEW d \in GoodSessions, NEW new \in Clients, NEW ok \in BOOLEAN
    PROVE  Comes(Outcome(<<d>>, new, ok), Own(d)) /\ Last(Outcome(<<d>>, new, ok).doms) = d
<1>1. <<d>> \in Seq(GoodSessions) /\ <<d>> # <<>> /\ Last(<<d>>) = d
  BY DEF Last
<1> QED
  BY <1>1 DEF Comes, Outcome

LEMMA TwoSessions ==
    ASSUME NEW d \in GoodSessions, NEW e \in GoodSessions, NEW new \in Clients, NEW ok \in BOOLEAN
    PROVE  /\ Comes(Outcome(<<d, e>>, new, ok), Own(e))
           /\ Last(Outcome(<<d, e>>, new, ok).doms) = e
<1>1. <<d, e>> \in Seq(GoodSessions) /\ <<d, e>> # <<>> /\ Last(<<d, e>>) = e
  BY DEF Last
<1> QED
  BY <1>1 DEF Comes, Outcome

\* One more record.
LEMMA OneMore ==
    ASSUME NEW o, NEW own, Comes(o, own), NEW e \in GoodSessions
    PROVE  Comes([o EXCEPT !.doms = Append(@, e)], Own(e))
<1> DEFINE p == [o EXCEPT !.doms = Append(@, e)]
<1>1. Append(o.doms, e) \in Seq(GoodSessions) /\ Append(o.doms, e) # <<>> /\ Last(Append(o.doms, e)) = e
  BY LastAppended DEF Comes
<1>2. p \in [doms : Seq(GoodSessions), client : Clients, ok : BOOLEAN] /\ p.doms = Append(o.doms, e)
  BY <1>1 DEF Comes
<1> HIDE DEF p
<1>3. Comes(p, Own(e))
  BY <1>1, <1>2 DEF Comes
<1> QED
  BY <1>3 DEF p

\* A provider that is adopted, with its catalog or without.
LEMMA CommittedComes ==
    ASSUME NEW d \in GoodSessions, NEW new \in Clients, NEW key \in Keys \cup {Unset},
           NEW models \in SUBSET KnownModels, models # {} => new.endpoint # Unset
    PROVE  /\ Comes(Committed(d, new, key, models), Own(d))
           /\ Committed(d, new, key, models).ok = (models # {})
           /\ models # {} =>
                Last(Committed(d, new, key, models).doms).meta.models = models
<1> DEFINE model == ModelOf(models, new.model)
           meta == IF models = {} THEN Unset ELSE [endpoint |-> new.endpoint, models |-> models]
           set == [d.set EXCEPT !.endpoint = new.endpoint, !.key = key,
                     !.model = new.model, !.limit = model.limit,
                     !.levels = model.levels, !.thinking = 0]
           said == [d EXCEPT !.set = set, !.meta = meta, !.failed = models = {}]
           registry == RecordActive(said.registry, set, new, models)
           told == [said EXCEPT !.registry = registry]
           adopted == [new EXCEPT !.meta = meta]
<1>1. /\ d \in AnySession /\ d.set \in Settings /\ Registered(d.registry)
      /\ d.registry \in Registries /\ Unshared(d.registry)
  BY SessionParts DEF GoodSessions, Registered
<1>2. new \in AnyClient /\ new.endpoint \in Endpoints \cup {Unset} /\ new.model \in Nat
  BY DEF Clients, AnyClient
<1>3. model \in KnownModels
  BY <1>2, ModelFound
<1>4. meta \in Metas /\ (models = {} => meta = Unset)
  BY <1>2 DEF Metas
<1>5. models # {} => meta.models = models
  OBVIOUS
<1> HIDE DEF model, meta
<1>6. model.limit \in Nat /\ model.levels \in SUBSET Nat
  BY <1>3 DEF KnownModels
<1>7. /\ set \in Settings
      /\ set.plain = d.set.plain /\ set.name = d.set.name
  BY <1>1, <1>2, <1>6 DEF Settings
<1> HIDE DEF set
<1>8. /\ said \in AnySession /\ said.set = set /\ said.meta = meta
      /\ said.failed = (models = {}) /\ said.registry = d.registry
      /\ said.bind = d.bind /\ said.alias = d.alias /\ said.force = d.force
  BY <1>1, <1>4, <1>7 DEF AnySession
<1> HIDE DEF said
<1>9. said \in GoodSessions
  BY <1>1, <1>4, <1>8 DEF GoodSessions
<1>10. Own(said) = Own(d)
  BY <1>7, <1>8 DEF Own
<1>11. Registered(registry)
  BY <1>1, <1>7, <1>8, ActiveKept
<1> HIDE DEF registry
<1>12. /\ told \in GoodSessions /\ Own(told) = Own(d) /\ told.meta = meta
  BY <1>8, <1>9, <1>10, <1>11, OtherRegistry
<1>13. adopted \in Clients
  <2>1. adopted \in AnyClient /\ adopted.endpoint = new.endpoint /\ adopted.key = new.key
        /\ adopted.meta = meta
    BY <1>2, <1>4 DEF AnyClient
  <2> HIDE DEF adopted
  <2> QED
    BY <1>4, <2>1 DEF Clients
<1>14. Committed(d, new, key, models) = Outcome(<<said, told>>, adopted, models # {})
  BY DEF Committed, model, meta, set, said, registry, told, adopted
<1> HIDE DEF told, adopted
<1>15. /\ Comes(Outcome(<<said, told>>, adopted, models # {}), Own(told))
       /\ Last(Outcome(<<said, told>>, adopted, models # {}).doms) = told
  BY <1>9, <1>12, <1>13, TwoSessions
<1>16. Outcome(<<said, told>>, adopted, models # {}).ok = (models # {})
  BY DEF Outcome
<1> QED
  BY <1>5, <1>12, <1>14, <1>15, <1>16

\* Nothing is done.
LEMMA FailedComes ==
    ASSUME client \in Clients, NEW d \in GoodSessions
    PROVE  Comes(Fails(d), Own(d)) /\ Fails(d).ok = FALSE
<1>1. Fails(d).ok = FALSE
  BY DEF Fails, Outcome
<1>2. Comes(Outcome(<<d>>, client, FALSE), Own(d))
  BY OneSession
<1> QED
  BY <1>1, <1>2 DEF Fails

LEMMA AdoptedComes ==
    ASSUME Published, client \in Clients, NEW d \in GoodSessions, NEW new \in Clients,
           NEW key \in Keys \cup {Unset}, NEW explicit
    PROVE  /\ Comes(Adopted(d, new, key, explicit), Own(d))
           /\ Adopted(d, new, key, explicit).ok =>
                Last(Adopted(d, new, key, explicit).doms).meta.models \in SUBSET KnownModels
<1> DEFINE models == IF new.endpoint = Unset THEN {} ELSE Fetched(new.endpoint)
           chosen == Selected(new, models)
           done == Committed(d, chosen, key, models)
<1>1. models \in SUBSET KnownModels /\ (models # {} => new.endpoint # Unset)
  <2>1. new.endpoint \in Endpoints \cup {Unset}
    BY DEF Clients, AnyClient
  <2> QED
    BY <2>1, FetchedModels
<1>2. Adopted(d, new, key, explicit) = Fails(d) \/ Adopted(d, new, key, explicit) = done
  BY DEF Adopted
<1> HIDE DEF models
<1>3. chosen \in Clients /\ chosen.endpoint = new.endpoint
  BY <1>1, SelectedClient
<1> HIDE DEF chosen
<1>4. /\ Comes(done, Own(d)) /\ done.ok = (models # {})
      /\ models # {} => Last(done.doms).meta.models = models
  BY <1>1, <1>3, CommittedComes
<1> HIDE DEF done
<1> QED
  BY <1>1, <1>2, <1>4, FailedComes

\* A provider is initialized when the session starts, or is changed.
LEMMA InitializedComes ==
    ASSUME Published, NEW d \in GoodSessions
    PROVE  Comes(Initialized(d), Own(d))
<1> DEFINE new == ClientOf(d.set)
           models == Fetched(new.endpoint)
           chosen == Selected(new, models)
           done == Committed(d, chosen, d.set.key, models)
           all == WithCatalogs(Last(done.doms), TRUE)
           keyless == [new EXCEPT !.key = Unset]
           failed == Committed(d, keyless, d.set.key, {})
           idle == Outcome(<<WithCatalogs(d, TRUE)>>, new, TRUE)
           full == [done EXCEPT !.doms = Append(@, all)]
<1>1. d.set \in Settings /\ d.set.key \in Keys \cup {Unset}
  BY SessionParts DEF Settings
<1>2. new \in Clients
  BY <1>1, ClientFields
<1>3. /\ Wrong(d.set) \/ Missing(d.set) => Initialized(d) = failed
      /\ ~(Wrong(d.set) \/ Missing(d.set)) /\ new.endpoint = Unset => Initialized(d) = idle
      /\ ~(Wrong(d.set) \/ Missing(d.set)) /\ new.endpoint # Unset => Initialized(d) = full
  BY DEF Initialized
<1> HIDE DEF new
<1>4. CASE Wrong(d.set) \/ Missing(d.set)
  <2>1. keyless \in Clients
    BY <1>2 DEF Clients, AnyClient
  <2> HIDE DEF keyless
  <2>2. Comes(failed, Own(d))
    BY <1>1, <2>1, CommittedComes
  <2> QED
    BY <1>3, <1>4, <2>2
<1>5. CASE ~(Wrong(d.set) \/ Missing(d.set)) /\ new.endpoint = Unset
  <2>1. WithCatalogs(d, TRUE) \in GoodSessions /\ Own(WithCatalogs(d, TRUE)) = Own(d)
    BY CatalogsKept
  <2>2. Comes(idle, Own(WithCatalogs(d, TRUE)))
    BY <1>2, <2>1, OneSession
  <2> QED
    BY <1>3, <1>5, <2>1, <2>2
<1>6. CASE ~(Wrong(d.set) \/ Missing(d.set)) /\ new.endpoint # Unset
  <2>1. new.endpoint \in Endpoints
    BY <1>2, <1>6 DEF Clients, AnyClient
  <2>2. models \in SUBSET KnownModels
    BY <2>1, FetchedModels
  <2> HIDE DEF models
  <2>3. chosen \in Clients /\ chosen.endpoint # Unset
    BY <1>2, <1>6, <2>2, SelectedClient
  <2> HIDE DEF chosen
  <2>4. Comes(done, Own(d))
    BY <1>1, <2>2, <2>3, CommittedComes
  <2> HIDE DEF done
  <2>5. Last(done.doms) \in GoodSessions /\ Own(Last(done.doms)) = Own(d)
    BY <2>4 DEF Comes
  <2>6. all \in GoodSessions /\ Own(all) = Own(d)
    BY <2>5, CatalogsKept
  <2> HIDE DEF all
  <2>7. Comes(full, Own(all))
    BY <2>4, <2>6, OneMore
  <2> QED
    BY <1>3, <1>6, <2>6, <2>7
<1> QED
  BY <1>4, <1>5, <1>6

-----------------------------------------------------------------------------
(* Console: what scripts consist of. *)

\* Every statement that is written somewhere, what stands for an executed file,
\* and what sets the reasoning effort.
Written == UNION {ToSet(script) : script \in Scripts \cup Bodies \cup {Source}}
SetsThinking(level) == [verb |-> "set", name |-> "thinking", value |-> level]
Lines ==
    Written \cup {[s EXCEPT !.verb = "executed"] : s \in Written}
      \cup {SetsThinking(level) : level \in Nat}

LEMMA WrittenStated ==
    ASSUME NEW s \in Written
    PROVE  Stated(s)
<1>1. PICK script \in Scripts \cup Bodies \cup {Source} : s \in ToSet(script)
  BY DEF Written
<1>2. PICK k \in DOMAIN script : s = script[k]
  BY <1>1 DEF ToSet
<1>3. Parsed(script)
  BY ConsoleAssumption
<1> QED
  BY <1>2, <1>3 DEF Parsed

LEMMA LineStated ==
    ASSUME NEW s \in Lines
    PROVE  Stated(s)
<1>1. \A t \in Written : Stated(t)
  BY WrittenStated
<1>2. ASSUME NEW t \in Written, s = [t EXCEPT !.verb = "executed"]
      PROVE  Stated(s)
  <2>1. "verb" \in DOMAIN t
    BY <1>1 DEF Stated
  <2>2. "verb" \in DOMAIN s /\ s.verb = "executed"
    BY <1>2, <2>1
  <2> QED
    BY <2>2 DEF Stated
<1>3. ASSUME NEW level \in Nat, s = SetsThinking(level)
      PROVE  Stated(s)
  <2>1. /\ "verb" \in DOMAIN s /\ s.verb = "set" /\ s.name = "thinking" /\ s.value = level
    BY <1>3 DEF SetsThinking
  <2>2. "thinking" \in DOMAIN Values /\ Values["thinking"] = Nat
    BY DEF Values
  <2> QED
    BY <2>1, <2>2 DEF Stated
<1> QED
  BY <1>1, <1>2, <1>3 DEF Lines

\* A sequence is one of its elements.
LEMMA SequenceWithin ==
    ASSUME NEW S, NEW s, s \in Seq(ToSet(s)), ToSet(s) \subseteq S
    PROVE  s \in Seq(S) /\ Len(s) \in Nat /\ DOMAIN s = 1 .. Len(s)
<1>1. Len(s) \in Nat /\ DOMAIN s = 1 .. Len(s)
  BY LenProperties
<1>2. s \in [1 .. Len(s) -> ToSet(s)]
  BY LenProperties
<1>3. s \in [1 .. Len(s) -> S]
  BY <1>2
<1> QED
  BY <1>1, <1>3, SeqDef

LEMMA ScriptLines ==
    ASSUME NEW script \in Scripts \cup Bodies \cup {Source}
    PROVE  script \in Seq(Lines)
<1>1. ToSet(script) \subseteq Written /\ Written \subseteq Lines
  BY DEF Written, Lines
<1>2. script \in Seq(ToSet(script))
  BY ConsoleAssumption DEF Parsed
<1>3. ToSet(script) \subseteq Lines
  BY <1>1
<1> QED
  BY <1>2, <1>3, SequenceWithin

\* A setting that is set to what it may be.
LEMMA SettingSet ==
    ASSUME NEW set \in Settings, NEW name \in DOMAIN Values, NEW value \in Values[name]
    PROVE  /\ [set EXCEPT ![name] = value] \in Settings
           /\ name = "thinking" => /\ [set EXCEPT ![name] = value].plain = set.plain
                                   /\ [set EXCEPT ![name] = value].name = set.name
<1>1. name \in {"endpoint", "key", "model", "name", "limit", "levels", "thinking", "plain"}
  BY DEF Values
<1>2. CASE name = "endpoint"
  BY <1>2 DEF Settings, Values
<1>3. CASE name = "key"
  BY <1>3 DEF Settings, Values
<1>4. CASE name = "model"
  BY <1>4 DEF Settings, Values
<1>5. CASE name = "name"
  BY <1>5 DEF Settings, Values
<1>6. CASE name = "limit"
  BY <1>6 DEF Settings, Values
<1>7. CASE name = "levels"
  BY <1>7 DEF Settings, Values
<1>8. CASE name = "thinking"
  BY <1>8 DEF Settings, Values
<1>9. CASE name = "plain"
  BY <1>9 DEF Settings, Values
<1> QED
  BY <1>1, <1>2, <1>3, <1>4, <1>5, <1>6, <1>7, <1>8, <1>9

-----------------------------------------------------------------------------
(* Console: the execution of a script. *)

Steps == [statement : Lines, depth : Nat]
Runs == [todo : Seq(Steps), ok : BOOLEAN, effects : Seq(Lines), set : Settings,
         bind : BOOLEAN, alias : Bodies \cup {Unset}]

\* Without an effect that says so nothing is changed.
Writers == {"set", "bind", "unbind", "alias", "unalias"}
Quiet(run) == \A k \in DOMAIN run.effects : run.effects[k].verb \notin Writers
AsBefore(run, d) == run.set = d.set /\ run.bind = d.bind /\ run.alias = d.alias
RunsOf(d) == {run \in Runs : Quiet(run) => AsBefore(run, d)}

\* What holds of the beginning and is kept by each step holds at the end.
LEMMA RanWithin ==
    ASSUME NEW script, NEW d, NEW T, Begin(script, d) \in T,
           \A run \in T : Further(run) \in T
    PROVE  Ran(script, d) \in T
<1> DEFINE G == [p \in T \X (1 .. MaxSteps) |-> Further(p[1])]
           Is(f) == f = [n \in 0 .. MaxSteps |->
                           IF n = 0 THEN Begin(script, d) ELSE Further(f[n - 1])]
           g == CHOOSE f : Is(f)
<1>1. MaxSteps \in Nat
  BY ConsoleAssumption
<1>2. Round(T, MaxSteps, G)
  BY DEF Round
<1>3. PICK f : Rounds(T, Begin(script, d), MaxSteps, G, f)
  <2> HIDE DEF G
  <2> QED
    BY <1>1, <1>2, RoundsExist
<1>4. Is(f)
  <2>1. f \in [0 .. MaxSteps -> T]
    BY <1>3 DEF Rounds
  <2>2. \A n \in 0 .. MaxSteps : n # 0 => n \in 1 .. MaxSteps /\ n - 1 \in 0 .. MaxSteps
    BY <1>1
  <2>3. \A n \in 1 .. MaxSteps : f[n] = Further(f[n - 1])
    <3> TAKE n \in 1 .. MaxSteps
    <3>1. n - 1 \in 0 .. MaxSteps
      BY <1>1
    <3>2. <<f[n - 1], n>> \in T \X (1 .. MaxSteps)
      BY <2>1, <3>1
    <3>3. f[n] = G[<<f[n - 1], n>>]
      BY <1>3 DEF Rounds
    <3> QED
      BY <3>2, <3>3
  <2>4. f[0] = Begin(script, d)
    BY <1>3 DEF Rounds
  <2> HIDE DEF G
  <2>5. \A n \in 0 .. MaxSteps : f[n] = IF n = 0 THEN Begin(script, d) ELSE Further(f[n - 1])
    BY <2>2, <2>3, <2>4
  <2> QED
    BY <2>1, <2>5
<1>5. Is(g)
  <2> HIDE DEF Is
  <2> QED
    BY <1>4
<1>6. Ran(script, d) = g[MaxSteps]
  BY DEF Ran
<1>7. \A n \in 0 .. MaxSteps : g[n] = IF n = 0 THEN Begin(script, d) ELSE Further(g[n - 1])
  <2> HIDE DEF g
  <2> QED
    BY <1>5, Zenon
<1> HIDE DEF G, Is, g
<1>8. g[0] \in T
  BY <1>1, <1>7
<1>9. \A n \in 1 .. MaxSteps : g[n - 1] \in T => g[n] \in T
  <2> TAKE n \in 1 .. MaxSteps
  <2>1. n \in 0 .. MaxSteps /\ n # 0
    BY <1>1
  <2> QED
    BY <1>7, <2>1
<1>10. \A n \in 0 .. MaxSteps : g[n] \in T
  BY <1>1, <1>8, <1>9, RoundsKeep
<1>11. MaxSteps \in 0 .. MaxSteps
  BY <1>1
<1> QED
  BY <1>6, <1>10, <1>11

LEMMA StatementsSteps ==
    ASSUME NEW script \in Seq(Lines), NEW depth \in Nat
    PROVE  Statements(script, depth) \in Seq(Steps)
<1>1. Len(script) \in Nat /\ DOMAIN script = 1 .. Len(script)
  BY LenProperties
<1>2. \A k \in 1 .. Len(script) : script[k] \in Lines
  BY <1>1, ElementOfSeq
<1>3. Statements(script, depth) \in [1 .. Len(script) -> Steps]
  BY <1>1, <1>2 DEF Statements, Steps
<1> QED
  BY <1>1, <1>3, SeqDef

LEMMA BeginsRun ==
    ASSUME NEW script \in Seq(Lines), NEW d \in GoodSessions
    PROVE  Begin(script, d) \in RunsOf(d)
<1>1. Statements(script, 0) \in Seq(Steps)
  BY StatementsSteps
<1>2. d.set \in Settings /\ d.bind \in BOOLEAN /\ d.alias \in Bodies \cup {Unset}
  BY DEF GoodSessions, AnySession
<1>3. <<>> \in Seq(Lines)
  OBVIOUS
<1>4. Begin(script, d) \in Runs
  BY <1>1, <1>2, <1>3 DEF Begin, Runs
<1>5. AsBefore(Begin(script, d), d)
  BY DEF Begin, AsBefore
<1> QED
  BY <1>4, <1>5 DEF RunsOf

\* One statement.
LEMMA ExecutedRun ==
    ASSUME NEW d, NEW run \in RunsOf(d), run.todo # <<>>
    PROVE  Execute(run) \in RunsOf(d)
<1> DEFINE s == Head(run.todo).statement
           depth == Head(run.todo).depth
           rest == [run EXCEPT !.todo = Tail(@)]
           done == [rest EXCEPT !.effects = Append(@, s)]
           failed == [rest EXCEPT !.ok = FALSE]
           called == [rest EXCEPT !.todo = Statements(run.alias, depth) \o @]
           file == Append(Statements(Source, depth + 1),
                          [statement |-> [s EXCEPT !.verb = "executed"], depth |-> depth])
           executed == [rest EXCEPT !.todo = file \o @]
<1>1. /\ run \in Runs /\ run.todo \in Seq(Steps) /\ run.effects \in Seq(Lines)
      /\ run.set \in Settings /\ run.alias \in Bodies \cup {Unset}
      /\ Quiet(run) => AsBefore(run, d)
  BY DEF RunsOf, Runs
<1>2. Head(run.todo) \in Steps /\ Tail(run.todo) \in Seq(Steps)
  BY <1>1
<1>3. s \in Lines /\ depth \in Nat
  BY <1>2 DEF Steps
<1>4. Stated(s)
  BY <1>3, LineStated
<1> HIDE DEF s, depth
<1>5. rest \in RunsOf(d) /\ rest.effects = run.effects /\ rest.todo = Tail(run.todo)
      /\ rest.set = run.set /\ rest.alias = run.alias /\ rest.bind = run.bind
  <2>1. rest \in Runs /\ rest.effects = run.effects /\ rest.todo = Tail(run.todo)
        /\ rest.set = run.set /\ rest.alias = run.alias /\ rest.bind = run.bind
    BY <1>1, <1>2 DEF Runs
  <2> HIDE DEF rest
  <2> QED
    BY <1>1, <2>1 DEF RunsOf, Quiet, AsBefore
<1> HIDE DEF rest
<1>6. rest \in Runs /\ (Quiet(rest) => AsBefore(rest, d))
  BY <1>5 DEF RunsOf
<1>7. failed \in RunsOf(d)
  <2>1. failed \in Runs /\ failed.effects = rest.effects /\ failed.set = rest.set
        /\ failed.bind = rest.bind /\ failed.alias = rest.alias
    BY <1>6 DEF Runs
  <2> HIDE DEF failed
  <2> QED
    BY <1>6, <2>1 DEF RunsOf, Quiet, AsBefore
<1>8. /\ done \in Runs /\ done.effects = Append(run.effects, s)
      /\ done.set = rest.set /\ done.bind = rest.bind /\ done.alias = rest.alias
      /\ done.todo = rest.todo
  <2>1. Append(run.effects, s) \in Seq(Lines)
    BY <1>1, <1>3
  <2> QED
    BY <1>5, <1>6, <2>1 DEF Runs
<1> HIDE DEF failed, done
<1>9. \A k \in DOMAIN run.effects :
        k \in DOMAIN done.effects /\ done.effects[k] = run.effects[k]
  <2>1. DOMAIN run.effects = 1 .. Len(run.effects) /\ Len(run.effects) \in Nat
    BY <1>1, LenProperties
  <2> QED
    BY <1>1, <1>3, <1>8, <2>1
<1>10. \E k \in DOMAIN done.effects : done.effects[k] = s
  <2>1. Len(run.effects) + 1 \in DOMAIN Append(run.effects, s)
        /\ Append(run.effects, s)[Len(run.effects) + 1] = s
    BY <1>1, <1>3
  <2> QED
    BY <1>8, <2>1
<1>11. ASSUME NEW other \in Runs, other.effects = done.effects,
              s.verb \in Writers \/ AsBefore(other, done)
       PROVE  other \in RunsOf(d)
  <2>1. ASSUME Quiet(other)
        PROVE  AsBefore(other, d)
    <3>1. s.verb \notin Writers
      BY <1>10, <1>11, <2>1 DEF Quiet
    <3>2. Quiet(rest)
      BY <1>5, <1>9, <1>11, <2>1 DEF Quiet
    <3> QED
      BY <1>6, <1>8, <1>11, <3>1, <3>2 DEF AsBefore
  <2> QED
    BY <1>11, <2>1 DEF RunsOf
<1>12. CASE Bad(s)
  <2>1. Execute(run) = failed
    BY <1>12 DEF Execute, s, rest, failed, Bad, Verbs
  <2> QED
    BY <1>7, <2>1
<1>13. CASE s.verb = "call"
  <2>1. Execute(run) = failed \/ (run.alias \in Bodies /\ Execute(run) = called)
    BY <1>1, <1>13 DEF Execute, s, depth, rest, failed, Bad, Verbs
  <2>2. ASSUME run.alias \in Bodies
        PROVE  called \in RunsOf(d)
    <3>1. Statements(run.alias, depth) \in Seq(Steps)
      BY <1>3, <2>2, ScriptLines, StatementsSteps
    <3>2. Statements(run.alias, depth) \o rest.todo \in Seq(Steps)
      BY <1>2, <1>5, <3>1
    <3>3. called \in Runs /\ called.effects = rest.effects /\ called.set = rest.set
          /\ called.bind = rest.bind /\ called.alias = rest.alias
      BY <1>6, <3>2 DEF Runs
    <3> HIDE DEF called
    <3> QED
      BY <1>6, <3>3 DEF RunsOf, Quiet, AsBefore
  <2> QED
    BY <1>7, <2>1, <2>2
<1>14. CASE s.verb = "exec"
  <2>1. Execute(run) = failed \/ Execute(run) = executed
    BY <1>14 DEF Execute, s, depth, rest, failed, Bad, Verbs
  <2>2. executed \in RunsOf(d)
    <3>1. Statements(Source, depth + 1) \in Seq(Steps)
      BY <1>3, ScriptLines, StatementsSteps
    <3>2. [s EXCEPT !.verb = "executed"] \in Lines
      <4>1. CASE s \in Written
        BY <4>1 DEF Lines
      <4>2. CASE s \notin Written
        <5>1. (\E t \in Written : s = [t EXCEPT !.verb = "executed"])
              \/ \E level \in Nat : s = SetsThinking(level)
          BY <1>3, <4>2 DEF Lines
        <5>2. ASSUME NEW t \in Written, s = [t EXCEPT !.verb = "executed"]
              PROVE  FALSE
          <6>1. "verb" \in DOMAIN t
            BY <5>2, WrittenStated DEF Stated
          <6> QED
            BY <1>14, <5>2, <6>1
        <5>3. ASSUME NEW level \in Nat, s = SetsThinking(level)
              PROVE  FALSE
          BY <1>14, <5>3 DEF SetsThinking
        <5> QED
          BY <5>1, <5>2, <5>3
      <4> QED
        BY <4>1, <4>2
    <3>3. [statement |-> [s EXCEPT !.verb = "executed"], depth |-> depth] \in Steps
      BY <1>3, <3>2 DEF Steps
    <3>4. file \in Seq(Steps)
      BY <3>1, <3>3
    <3> HIDE DEF file
    <3>5. file \o rest.todo \in Seq(Steps)
      BY <1>2, <1>5, <3>4
    <3>6. executed \in Runs /\ executed.effects = rest.effects /\ executed.set = rest.set
          /\ executed.bind = rest.bind /\ executed.alias = rest.alias
      BY <1>6, <3>5 DEF Runs
    <3> HIDE DEF executed
    <3> QED
      BY <1>6, <3>6 DEF RunsOf, Quiet, AsBefore
  <2> QED
    BY <1>7, <2>1, <2>2
<1>15. CASE s.verb = "set"
  <2> DEFINE changed == [done EXCEPT !.set[s.name] = s.value]
  <2>1. Execute(run) = failed \/ Execute(run) = changed
    BY <1>15 DEF Execute, s, rest, done, failed, Bad, Verbs
  <2>2. [done.set EXCEPT ![s.name] = s.value] \in Settings
    BY <1>1, <1>4, <1>5, <1>8, <1>15, SettingSet DEF Stated
  <2>3. changed = [done EXCEPT !.set = [done.set EXCEPT ![s.name] = s.value]]
    OBVIOUS
  <2>4. changed \in Runs /\ changed.effects = done.effects
    BY <1>8, <2>2, <2>3 DEF Runs
  <2> HIDE DEF changed
  <2>5. changed \in RunsOf(d)
    BY <1>11, <1>15, <2>4 DEF Writers
  <2> QED
    BY <1>7, <2>1, <2>5
<1>16. CASE s.verb \in {"bind", "unbind"}
  <2>1. \E bound \in BOOLEAN : Execute(run) = [done EXCEPT !.bind = bound]
    BY <1>16 DEF Execute, s, rest, done, failed, Bad, Verbs
  <2>2. ASSUME NEW bound \in BOOLEAN
        PROVE  [done EXCEPT !.bind = bound] \in RunsOf(d)
    <3>1. [done EXCEPT !.bind = bound] \in Runs
          /\ [done EXCEPT !.bind = bound].effects = done.effects
      BY <1>8 DEF Runs
    <3> QED
      BY <1>11, <1>16, <3>1 DEF Writers
  <2> QED
    BY <2>1, <2>2
<1>17. CASE s.verb \in {"alias", "unalias"}
  <2>1. \E words \in Bodies \cup {Unset} : Execute(run) = [done EXCEPT !.alias = words]
    BY <1>4, <1>17 DEF Execute, s, rest, done, failed, Bad, Verbs, Stated
  <2>2. ASSUME NEW words \in Bodies \cup {Unset}
        PROVE  [done EXCEPT !.alias = words] \in RunsOf(d)
    <3>1. [done EXCEPT !.alias = words] \in Runs
          /\ [done EXCEPT !.alias = words].effects = done.effects
      BY <1>8 DEF Runs
    <3> QED
      BY <1>11, <1>17, <3>1 DEF Writers
  <2> QED
    BY <2>1, <2>2
<1>18. CASE ~Bad(s) /\ s.verb \notin {"call", "exec"} \cup Writers
  <2>1. Execute(run) = done
    BY <1>18 DEF Execute, s, rest, done, failed, Writers
  <2>2. done \in RunsOf(d)
    BY <1>8, <1>11 DEF AsBefore
  <2> QED
    BY <2>1, <2>2
<1> QED
  BY <1>12, <1>13, <1>14, <1>15, <1>16, <1>17, <1>18 DEF Writers

\* The whole of a script.
LEMMA RanRun ==
    ASSUME NEW script \in Seq(Lines), NEW d \in GoodSessions
    PROVE  Ran(script, d) \in RunsOf(d)
<1>1. \A run \in RunsOf(d) : Further(run) \in RunsOf(d)
  BY ExecutedRun DEF Further
<1> QED
  BY <1>1, BeginsRun, RanWithin

\* What sets the reasoning effort sets nothing else.
Thinks(d) ==
    {run \in RunsOf(d) :
       /\ \A k \in DOMAIN run.todo :
            run.todo[k].statement.verb = "set" /\ run.todo[k].statement.name = "thinking"
       /\ \A k \in DOMAIN run.effects : run.effects[k].verb = "set"
       /\ run.set.plain = d.set.plain /\ run.set.name = d.set.name
       /\ run.bind = d.bind /\ run.alias = d.alias}

LEMMA ThinksOn ==
    ASSUME NEW d, NEW run \in Thinks(d), run.todo # <<>>
    PROVE  Execute(run) \in Thinks(d)
<1> DEFINE s == Head(run.todo).statement
           rest == [run EXCEPT !.todo = Tail(@)]
           done == [rest EXCEPT !.effects = Append(@, s)]
           changed == [done EXCEPT !.set[s.name] = s.value]
<1>1. /\ run \in RunsOf(d) /\ run \in Runs
      /\ run.todo \in Seq(Steps) /\ run.effects \in Seq(Lines) /\ run.set \in Settings
  BY DEF Thinks, RunsOf, Runs
<1>2. 1 \in DOMAIN run.todo /\ Head(run.todo) = run.todo[1] /\ Head(run.todo) \in Steps
  BY <1>1
<1>3. s.verb = "set" /\ s.name = "thinking" /\ s \in Lines
  BY <1>2 DEF Thinks, Steps
<1>4. Execute(run) = changed
  BY <1>3 DEF Execute, Bad, Verbs, ReadOnly
<1>5. Execute(run) \in RunsOf(d)
  BY <1>1, ExecutedRun
<1>6. Stated(s)
  BY <1>3, LineStated
<1> HIDE DEF s
<1>7. /\ [run.set EXCEPT ![s.name] = s.value].plain = run.set.plain
      /\ [run.set EXCEPT ![s.name] = s.value].name = run.set.name
  BY <1>1, <1>3, <1>6, SettingSet DEF Stated
<1>8. /\ changed.todo = Tail(run.todo) /\ changed.effects = Append(run.effects, s)
      /\ changed.set = [run.set EXCEPT ![s.name] = s.value]
      /\ changed.bind = run.bind /\ changed.alias = run.alias
  BY <1>1 DEF Runs
<1> HIDE DEF changed
<1>9. \A k \in DOMAIN Tail(run.todo) :
        Tail(run.todo)[k].statement.verb = "set" /\ Tail(run.todo)[k].statement.name = "thinking"
  <2> TAKE k \in DOMAIN Tail(run.todo)
  <2>1. k + 1 \in DOMAIN run.todo /\ Tail(run.todo)[k] = run.todo[k + 1]
    BY <1>1
  <2> QED
    BY <2>1 DEF Thinks
<1>10. \A k \in DOMAIN Append(run.effects, s) : Append(run.effects, s)[k].verb = "set"
  <2> TAKE k \in DOMAIN Append(run.effects, s)
  <2>1. (k \in DOMAIN run.effects /\ Append(run.effects, s)[k] = run.effects[k])
        \/ Append(run.effects, s)[k] = s
    BY <1>1, <1>3
  <2> QED
    BY <1>3, <2>1 DEF Thinks
<1> QED
  BY <1>4, <1>5, <1>7, <1>8, <1>9, <1>10, ZenonT(30) DEF Thinks

LEMMA ThinkingRun ==
    ASSUME NEW level \in Nat, NEW d \in GoodSessions
    PROVE  Ran(<<SetsThinking(level)>>, d) \in Thinks(d)
<1> DEFINE script == <<SetsThinking(level)>>
<1>1. script \in Seq(Lines)
  BY DEF Lines
<1>2. Begin(script, d) \in RunsOf(d)
  BY <1>1, BeginsRun
<1>3. Begin(script, d).effects = <<>> /\ Begin(script, d).set = d.set
      /\ Begin(script, d).bind = d.bind /\ Begin(script, d).alias = d.alias
      /\ Begin(script, d).todo = Statements(script, 0)
  BY DEF Begin
<1>4. \A k \in DOMAIN Statements(script, 0) :
        /\ Statements(script, 0)[k].statement.verb = "set"
        /\ Statements(script, 0)[k].statement.name = "thinking"
  BY DEF Statements, SetsThinking
<1> HIDE DEF script
<1>5. Begin(script, d) \in Thinks(d)
  BY <1>2, <1>3, <1>4 DEF Thinks
<1>6. \A run \in Thinks(d) : Further(run) \in Thinks(d)
  BY ThinksOn DEF Further
<1>7. Ran(script, d) \in Thinks(d)
  BY <1>5, <1>6, RanWithin
<1> QED
  BY <1>7 DEF script

-----------------------------------------------------------------------------
(* Console: what commands come to. *)

LEMMA ConfiguredKept ==
    ASSUME NEW d \in GoodSessions, NEW action \in Lines
    PROVE  Configured(d, action) \in GoodSessions /\ Own(Configured(d, action)) = Own(d)
<1>1. Registered(d.registry)
  BY SessionParts
<1>2. Stated(action)
  BY LineStated
<1>3. CASE action.verb = "add"
  <2> DEFINE record == [endpoint |-> action.endpoint, key |-> action.key,
                        model |-> action.model, models |-> {}]
             registry == Record(d.registry, action.name, record, {})
  <2>1. record \in Records /\ action.name \in Names
    BY <1>2, <1>3 DEF Stated, Records
  <2>2. Configured(d, action) = [d EXCEPT !.registry = registry]
    BY <1>3 DEF Configured
  <2> HIDE DEF record
  <2>3. Registered(registry)
    BY <1>1, <2>1, RecordKept
  <2> HIDE DEF registry
  <2> QED
    BY <2>2, <2>3, OtherRegistry
<1>4. CASE action.verb = "remove"
  <2> DEFINE registry == [n \in DOMAIN d.registry \ {action.name} |-> d.registry[n]]
  <2>1. Configured(d, action) = [d EXCEPT !.registry = registry]
    BY <1>4 DEF Configured
  <2>2. Registered(registry)
    BY <1>1, RegistryWithout
  <2> HIDE DEF registry
  <2> QED
    BY <2>1, <2>2, OtherRegistry
<1>5. CASE action.verb \notin {"add", "remove"}
  BY <1>5 DEF Configured
<1> QED
  BY <1>3, <1>4, <1>5

LEMMA AllConfigured ==
    ASSUME NEW d \in GoodSessions, NEW actions \in Seq(Lines)
    PROVE  ConfiguredAll(d, actions) \in GoodSessions /\ Own(ConfiguredAll(d, actions)) = Own(d)
<1> DEFINE n == Len(actions)
           T == {e \in GoodSessions : Own(e) = Own(d)}
           G == [p \in T \X (1 .. n) |-> Configured(p[1], actions[p[2]])]
           Is(f) == f = [k \in 0 .. n |-> IF k = 0 THEN d ELSE Configured(f[k - 1], actions[k])]
           g == CHOOSE f : Is(f)
<1>1. n \in Nat /\ DOMAIN actions = 1 .. n /\ \A k \in 1 .. n : actions[k] \in Lines
  BY LenProperties, ElementOfSeq
<1>2. \A e \in T : \A k \in 1 .. n : Configured(e, actions[k]) \in T
  BY <1>1, ConfiguredKept
<1>3. d \in T
  OBVIOUS
<1>4. ConfiguredAll(d, actions) = g[n]
  BY DEF ConfiguredAll
<1> HIDE DEF n, T
<1>5. Round(T, n, G)
  BY <1>2 DEF Round
<1>6. PICK f : Rounds(T, d, n, G, f)
  <2> HIDE DEF G
  <2> QED
    BY <1>1, <1>3, <1>5, RoundsExist
<1>7. Is(f)
  <2>1. f \in [0 .. n -> T] /\ f[0] = d
    BY <1>6 DEF Rounds
  <2>2. \A k \in 0 .. n : k # 0 => k \in 1 .. n /\ k - 1 \in 0 .. n
    BY <1>1
  <2>3. \A k \in 1 .. n : f[k] = Configured(f[k - 1], actions[k])
    <3> TAKE k \in 1 .. n
    <3>1. k - 1 \in 0 .. n
      BY <1>1
    <3>2. <<f[k - 1], k>> \in T \X (1 .. n)
      BY <2>1, <3>1
    <3>3. f[k] = G[<<f[k - 1], k>>]
      BY <1>6 DEF Rounds
    <3> QED
      BY <3>2, <3>3
  <2> HIDE DEF G
  <2>4. \A k \in 0 .. n : f[k] = IF k = 0 THEN d ELSE Configured(f[k - 1], actions[k])
    BY <2>1, <2>2, <2>3
  <2> QED
    BY <2>1, <2>4
<1>8. Is(g)
  <2> HIDE DEF Is
  <2> QED
    BY <1>7
<1>9. \A k \in 0 .. n : g[k] = IF k = 0 THEN d ELSE Configured(g[k - 1], actions[k])
  <2> HIDE DEF g
  <2> QED
    BY <1>8, Zenon
<1> HIDE DEF G, Is, g
<1>10. g[0] \in T
  BY <1>1, <1>3, <1>9
<1>11. \A k \in 1 .. n : g[k - 1] \in T => g[k] \in T
  <2> TAKE k \in 1 .. n
  <2>1. k \in 0 .. n /\ k # 0
    BY <1>1
  <2> QED
    BY <1>2, <1>9, <2>1
<1>12. \A k \in 0 .. n : g[k] \in T
  BY <1>1, <1>10, <1>11, RoundsKeep
<1>13. n \in 0 .. n
  BY <1>1
<1>14. g[n] \in T
  BY <1>12, <1>13
<1> QED
  BY <1>4, <1>14 DEF T

\* Commands that ask a provider.
LEMMA ProvidedComes ==
    ASSUME Published, client \in Clients, NEW d \in GoodSessions, NEW action \in Lines,
           action.verb \in Remote \ {"show"}
    PROVE  Comes(Provided(d, action), Own(d))
<1> DEFINE asked == [d.set EXCEPT !.endpoint = action.endpoint, !.key = action.key,
                                  !.model = action.model]
           record == d.registry[action.name]
           used == [d.set EXCEPT !.endpoint = record.endpoint, !.key = record.key,
                                 !.model = record.model]
           choice == [ClientOf(d.set) EXCEPT !.model = action.model]
<1>1. /\ d.set \in Settings /\ Registered(d.registry) /\ DOMAIN d.registry \subseteq Names
      /\ \A n \in DOMAIN d.registry : d.registry[n] \in Records
  BY SessionParts
<1>2. Stated(action)
  BY LineStated
<1>3. Comes(Fails(d), Own(d))
  BY FailedComes
<1>4. CASE action.verb = "configure"
  <2>1. asked \in Settings /\ asked.key \in Keys \cup {Unset}
    BY <1>1, <1>2, <1>4 DEF Stated, Settings
  <2>2. Provided(d, action) = Fails(d)
        \/ Provided(d, action) = Adopted(d, ClientOf(asked), asked.key, asked.model # 0)
    BY <1>4 DEF Provided
  <2> HIDE DEF asked
  <2>3. Comes(Adopted(d, ClientOf(asked), asked.key, asked.model # 0), Own(d))
    BY <2>1, ClientFields, AdoptedComes
  <2> QED
    BY <1>3, <2>2, <2>3
<1>5. CASE action.verb = "select"
  <2>1. action.model \in Nat
    BY <1>2, <1>5 DEF Stated
  <2>2. ClientOf(d.set) \in Clients
    BY <1>1, ClientFields
  <2>3. choice \in Clients
    BY <2>1, <2>2 DEF Clients, AnyClient
  <2>4. Provided(d, action) = Fails(d)
        \/ Provided(d, action) = Adopted(d, choice, d.set.key, TRUE)
    BY <1>5 DEF Provided
  <2> HIDE DEF choice
  <2>5. d.set.key \in Keys \cup {Unset}
    BY <1>1 DEF Settings
  <2>6. Comes(Adopted(d, choice, d.set.key, TRUE), Own(d))
    BY <2>3, <2>5, AdoptedComes
  <2> QED
    BY <1>3, <2>4, <2>6
<1>6. CASE action.verb = "use"
  <2> DEFINE done == Adopted(d, ClientOf(used), used.key, used.model # 0)
             end == Last(done.doms)
             registry == Record(end.registry, action.name, record, end.meta.models)
             kept == [end EXCEPT !.registry = registry]
             full == [done EXCEPT !.doms = Append(@, kept)]
  <2>1. \/ Provided(d, action) = Fails(d)
        \/ action.name \in DOMAIN d.registry /\ ~done.ok /\ Provided(d, action) = done
        \/ action.name \in DOMAIN d.registry /\ done.ok /\ Provided(d, action) = full
    BY <1>6 DEF Provided
  <2>2. ASSUME action.name \in DOMAIN d.registry
        PROVE  Comes(done, Own(d)) /\ (done.ok => Comes(full, Own(d)))
    <3>1. record \in Records /\ action.name \in Names
      BY <1>1, <2>2
    <3> HIDE DEF record
    <3>2. used \in Settings /\ used.key \in Keys \cup {Unset}
      BY <1>1, <3>1 DEF Settings, Records
    <3> HIDE DEF used
    <3>3. /\ Comes(done, Own(d))
          /\ done.ok => end.meta.models \in SUBSET KnownModels
      BY <3>2, ClientFields, AdoptedComes
    <3> HIDE DEF done
    <3>4. end \in GoodSessions /\ Own(end) = Own(d)
      BY <3>3 DEF Comes
    <3> HIDE DEF end
    <3>5. ASSUME done.ok
          PROVE  Comes(full, Own(d))
      <4>1. Registered(registry)
        BY <3>1, <3>3, <3>4, <3>5, SessionParts, RecordKept
      <4> HIDE DEF registry
      <4>2. kept \in GoodSessions /\ Own(kept) = Own(d)
        BY <3>4, <4>1, OtherRegistry
      <4> HIDE DEF kept
      <4>3. Comes(full, Own(kept))
        BY <3>3, <4>2, OneMore
      <4> QED
        BY <4>2, <4>3
    <3> QED
      BY <3>3, <3>5
  <2> HIDE DEF full, done
  <2> QED
    BY <1>3, <2>1, <2>2
<1>7. CASE action.verb = "refresh"
  <2> DEFINE done == Initialized(d)
             all == WithCatalogs(Last(done.doms), FALSE)
             full == [done EXCEPT !.doms = Append(@, all)]
  <2>1. Provided(d, action) = done \/ Provided(d, action) = full
    BY <1>7 DEF Provided
  <2>2. Comes(done, Own(d))
    BY InitializedComes
  <2> HIDE DEF done
  <2>3. Last(done.doms) \in GoodSessions /\ Own(Last(done.doms)) = Own(d)
    BY <2>2 DEF Comes
  <2>4. all \in GoodSessions /\ Own(all) = Own(d)
    BY <2>3, CatalogsKept
  <2> HIDE DEF all
  <2>5. Comes(full, Own(all))
    BY <2>2, <2>4, OneMore
  <2> QED
    BY <2>1, <2>2, <2>4, <2>5
<1> QED
  BY <1>4, <1>5, <1>6, <1>7 DEF Remote

\* Records that come before those of an outcome.
LEMMA LastBehind ==
    ASSUME NEW S, NEW s \in Seq(S), NEW t \in Seq(S), t # <<>>
    PROVE  s \o t \in Seq(S) /\ s \o t # <<>> /\ Last(s \o t) = Last(t)
<1> DEFINE m == Len(s)
           n == Len(t)
<1>1. m \in Nat /\ n \in Nat \ {0}
  BY EmptySeq, LenProperties
<1>2. s \o t \in Seq(S) /\ Len(s \o t) = m + n
  BY ConcatProperties
<1>3. (s \o t)[m + n] = t[n]
  <2>1. m + n \in 1 .. m + n /\ ~(m + n <= m) /\ (m + n) - m = n
    BY <1>1
  <2>2. (s \o t)[m + n] = IF m + n <= m THEN s[m + n] ELSE t[(m + n) - m]
    BY <2>1, ConcatProperties
  <2> QED
    BY <2>1, <2>2
<1>4. s \o t # <<>>
  BY <1>1, <1>2, EmptySeq
<1> QED
  BY <1>2, <1>3, <1>4 DEF Last

LEMMA TwoBefore ==
    ASSUME NEW o, NEW own, Comes(o, own), NEW d \in GoodSessions, NEW e \in GoodSessions,
           NEW ok \in BOOLEAN
    PROVE  Comes([o EXCEPT !.doms = <<d, e>> \o @, !.ok = ok], own)
<1> DEFINE p == [o EXCEPT !.doms = <<d, e>> \o @, !.ok = ok]
           both == <<d, e>> \o o.doms
<1>1. /\ o \in [doms : Seq(GoodSessions), client : Clients, ok : BOOLEAN]
      /\ o.doms \in Seq(GoodSessions) /\ o.doms # <<>>
  BY DEF Comes
<1>2. <<d, e>> \in Seq(GoodSessions)
  OBVIOUS
<1>3. both \in Seq(GoodSessions) /\ both # <<>> /\ Last(both) = Last(o.doms)
  BY <1>1, <1>2, LastBehind
<1>4. p = [o EXCEPT !.doms = both, !.ok = ok]
  OBVIOUS
<1> HIDE DEF both, p
<1>5. p \in [doms : Seq(GoodSessions), client : Clients, ok : BOOLEAN] /\ p.doms = both
  BY <1>1, <1>3, <1>4
<1>6. Comes(p, own)
  BY <1>3, <1>5 DEF Comes
<1> QED
  BY <1>6 DEF p

\* What an outcome has to do with a script: it has all of it; or nothing, and
\* it failed.
Applies(o, d, run) ==
    Comes(o, Own(Patched(d, run))) \/ (Comes(o, Own(d)) /\ o.ok = FALSE)

LEMMA AppliedComes ==
    ASSUME Published, client \in Clients, NEW d \in GoodSessions, NEW run \in RunsOf(d)
    PROVE  Applies(Applied(d, run), d, run)
<1> DEFINE actions == Picked(run.effects, Having(run, Pure))
           added == ConfiguredAll(d, actions)
           patched == Patched(added, run)
           new == Refreshed(run.set, client)
           start == Initialized(patched)
           ok == start.ok \/ Missing(run.set)
           full == [start EXCEPT !.doms = <<added, patched>> \o @, !.ok = ok]
           quick == Outcome(<<added, patched>>, new, ~Wrong(run.set))
<1>1. run \in Runs /\ run.set \in Settings /\ run.effects \in Seq(Lines)
  BY DEF RunsOf, Runs
<1>2. actions \in Seq(Lines)
  BY <1>1, PickedInOrder DEF Having
<1>3. \/ Applied(d, run) = Fails(added) \/ Applied(d, run) = full \/ Applied(d, run) = quick
  BY DEF Applied
<1> HIDE DEF actions
<1>4. added \in GoodSessions /\ Own(added) = Own(d)
  BY <1>2, AllConfigured
<1> HIDE DEF added
<1>5. added.force = d.force /\ added.force \in 0 .. 1 /\ added \in AnySession
  BY <1>4 DEF Own, GoodSessions, AnySession
<1> DEFINE force == IF Has(run, {"force"}) THEN 1 ELSE added.force
<1>6. patched = [added EXCEPT !.set = run.set, !.bind = run.bind, !.alias = run.alias,
                              !.force = force]
  BY DEF Patched
<1>7. force \in 0 .. 1 /\ force = IF Has(run, {"force"}) THEN 1 ELSE d.force
  BY <1>5
<1> HIDE DEF force, patched
<1>8. /\ patched \in AnySession
      /\ patched.set = run.set /\ patched.bind = run.bind /\ patched.alias = run.alias
      /\ patched.force = force /\ patched.registry = added.registry
      /\ patched.meta = added.meta /\ patched.failed = added.failed
  BY <1>1, <1>5, <1>6, <1>7 DEF AnySession, Runs
<1>9. patched \in GoodSessions
  BY <1>4, <1>8 DEF GoodSessions
<1>10. Own(patched) = Own(Patched(d, run))
  <2>1. d \in AnySession
    BY DEF GoodSessions
  <2>2. /\ Patched(d, run).set = run.set /\ Patched(d, run).bind = run.bind
        /\ Patched(d, run).alias = run.alias /\ Patched(d, run).force = force
    BY <1>7, <2>1 DEF Patched, AnySession
  <2> QED
    BY <1>8, <2>2 DEF Own
<1>11. Comes(start, Own(patched))
  BY <1>9, InitializedComes
<1>12. ok \in BOOLEAN
  BY <1>11 DEF Comes, Missing
<1> HIDE DEF start, ok
<1>13. Comes(full, Own(patched))
  BY <1>4, <1>9, <1>11, <1>12, TwoBefore
<1>14. Comes(quick, Own(patched))
  <2>1. new \in Clients
    BY <1>1, RefreshedClient
  <2>2. (~Wrong(run.set)) \in BOOLEAN
    BY DEF Wrong
  <2> HIDE DEF new
  <2> QED
    BY <1>4, <1>9, <2>1, <2>2, TwoSessions
<1>15. Comes(Fails(added), Own(d)) /\ Fails(added).ok = FALSE
  BY <1>4, FailedComes
<1> HIDE DEF full, quick
<1> QED
  BY <1>3, <1>10, <1>13, <1>14, <1>15 DEF Applies

\* A command for the reasoning effort.
LEMMA TunedComes ==
    ASSUME Published, client \in Clients, NEW d \in GoodSessions, NEW level \in Nat
    PROVE  Comes(Tuned(d, level), Own(d))
<1> DEFINE run == Ran(<<SetsThinking(level)>>, d)
<1>1. Tuned(d, level) = Fails(d) \/ Tuned(d, level) = Applied(d, run)
  BY DEF Tuned, SetsThinking
<1>2. run \in Thinks(d)
  BY ThinkingRun
<1> HIDE DEF run
<1>3. Applies(Applied(d, run), d, run)
  BY <1>2, AppliedComes DEF Thinks
<1>4. Has(run, {"force"}) = FALSE
  BY <1>2 DEF Thinks, Has, Having
<1>5. d \in AnySession
  BY DEF GoodSessions
<1>6. Own(Patched(d, run)) = Own(d)
  <2>1. /\ Patched(d, run).set = run.set /\ Patched(d, run).bind = run.bind
        /\ Patched(d, run).alias = run.alias /\ Patched(d, run).force = d.force
    BY <1>4, <1>5 DEF Patched, AnySession
  <2> QED
    BY <1>2, <2>1 DEF Own, Thinks
<1> QED
  BY <1>1, <1>3, <1>6, FailedComes DEF Applies

\* What reaches outside of the session is alone, and writes nothing itself.
LEMMA AloneQuiet ==
    ASSUME NEW d \in GoodSessions, NEW run \in RunsOf(d), ~NotAlone(run),
           NEW verbs \in SUBSET External, Has(run, verbs)
    PROVE  /\ Head(run.effects) \in Lines /\ Head(run.effects).verb \in verbs
           /\ Own(Patched(d, run)) = Own(d)
<1>1. run.effects \in Seq(Lines)
  BY DEF RunsOf, Runs
<1>2. PICK k \in DOMAIN run.effects : run.effects[k].verb \in verbs
  BY DEF Has, Having
<1>3. Len(run.effects) = 1
  BY <1>2 DEF NotAlone, Has, Having
<1>4. DOMAIN run.effects = {1}
  BY <1>1, <1>3
<1>5. /\ Head(run.effects) = run.effects[1] /\ run.effects[1] \in Lines
      /\ run.effects[1].verb \in verbs
  BY <1>1, <1>2, <1>3, <1>4
<1>6. run.effects[1].verb \notin Writers \cup {"force"}
  BY <1>5 DEF External, Remote, Writers
<1>7. AsBefore(run, d) /\ Has(run, {"force"}) = FALSE
  BY <1>4, <1>6 DEF RunsOf, Quiet, Has, Having
<1>8. d \in AnySession
  BY DEF GoodSessions
<1>9. /\ Patched(d, run).set = d.set /\ Patched(d, run).bind = d.bind
      /\ Patched(d, run).alias = d.alias /\ Patched(d, run).force = d.force
  BY <1>7, <1>8 DEF Patched, AsBefore, AnySession
<1>10. Own(Patched(d, run)) = Own(d)
  BY <1>9 DEF Own
<1> QED
  BY <1>5, <1>10

\* A whole command.
Completes(o, d, run) ==
    \E own \in {Own(d), Own(Patched(d, run))} :
      /\ Comes(o, own)
      /\ ~run.ok => own = Own(d)
      /\ o.ok /\ ~Has(run, {"effort"}) => own = Own(Patched(d, run))

LEMMA CommandedComes ==
    ASSUME Published, client \in Clients, snapshot \in GoodSessions, NEW script \in Scripts,
           NEW run, run = Ran(script, snapshot)
    PROVE  Completes(Commanded(script), snapshot, run)
<1> DEFINE first == Head(run.effects)
<1>1. run \in RunsOf(snapshot)
  BY ScriptLines, RanRun
<1>2. run.effects \in Seq(Lines)
  BY <1>1 DEF RunsOf, Runs
<1>3. Comes(Fails(snapshot), Own(snapshot)) /\ Fails(snapshot).ok = FALSE
  BY FailedComes
<1>4. CASE Refused(run)
  <2>1. Commanded(script) = Fails(snapshot)
    BY <1>4 DEF Commanded
  <2> QED
    BY <1>3, <2>1 DEF Completes
<1>5. CASE ~Refused(run) /\ run.effects # <<>> /\ first.verb = "effort"
  <2>1. Commanded(script) = Tuned(snapshot, first.level)
    BY <1>5 DEF Commanded
  <2>2. first \in Lines /\ 1 \in DOMAIN run.effects /\ run.effects[1] = first
    BY <1>2, <1>5
  <2>3. first.level \in Nat
    BY <1>5, <2>2, LineStated DEF Stated
  <2>4. Has(run, {"effort"}) /\ run.ok
    BY <1>5, <2>2 DEF Has, Having, Refused
  <2>5. Comes(Tuned(snapshot, first.level), Own(snapshot))
    BY <2>3, TunedComes
  <2> QED
    BY <2>1, <2>4, <2>5 DEF Completes
<1>6. CASE ~Refused(run) /\ ~(run.effects # <<>> /\ first.verb = "effort")
           /\ Has(run, {"show"})
  <2>1. Commanded(script) = Outcome(<<snapshot>>, client, TRUE)
    BY <1>6 DEF Commanded
  <2>2. Own(Patched(snapshot, run)) = Own(snapshot)
    <3>1. {"show"} \in SUBSET External
      BY DEF External, Remote
    <3> QED
      BY <1>1, <1>6, <3>1, AloneQuiet DEF Refused
  <2>3. Comes(Outcome(<<snapshot>>, client, TRUE), Own(snapshot))
    BY OneSession
  <2> QED
    BY <2>1, <2>2, <2>3 DEF Completes
<1>7. CASE ~Refused(run) /\ ~(run.effects # <<>> /\ first.verb = "effort")
           /\ ~Has(run, {"show"}) /\ Has(run, Remote)
  <2>1. Commanded(script) = Provided(snapshot, first)
    BY <1>7 DEF Commanded
  <2>2. /\ first \in Lines /\ first.verb \in Remote
        /\ Own(Patched(snapshot, run)) = Own(snapshot)
    <3>1. Remote \in SUBSET External
      BY DEF External
    <3> QED
      BY <1>1, <1>7, <3>1, AloneQuiet DEF Refused
  <2>3. first.verb # "show"
    <3>1. 1 \in DOMAIN run.effects /\ run.effects[1] = first
      <4>1. DOMAIN run.effects # {}
        BY <1>7 DEF Has, Having
      <4> QED
        BY <1>2, <4>1
    <3> QED
      BY <1>7, <3>1 DEF Has, Having
  <2>4. Comes(Provided(snapshot, first), Own(snapshot))
    BY <2>2, <2>3, ProvidedComes
  <2> QED
    BY <2>1, <2>2, <2>4 DEF Completes
<1>8. CASE ~Refused(run) /\ ~(run.effects # <<>> /\ first.verb = "effort")
           /\ ~Has(run, {"show"}) /\ ~Has(run, Remote)
  <2>1. Commanded(script) = Applied(snapshot, run)
    BY <1>8 DEF Commanded
  <2>2. Applies(Applied(snapshot, run), snapshot, run)
    BY <1>1, AppliedComes
  <2>3. run.ok
    BY <1>8 DEF Refused
  <2> QED
    BY <2>1, <2>2, <2>3 DEF Applies, Completes
<1> QED
  BY <1>4, <1>5, <1>6, <1>7, <1>8

-----------------------------------------------------------------------------
(* Console: the inductive invariant. *)

ConsoleInv ==
    /\ snapshot \in GoodSessions /\ saved \in GoodSessions /\ settings \in Settings
    /\ client \in Clients /\ Published /\ present \subseteq Keys
    /\ last.script \in Scripts \cup {<<>>} /\ last.ok \in BOOLEAN
    /\ commands \in 0 .. MaxCommands
    /\ TurnFollows

LEMMA ConsoleStarts == ConsoleInit => ConsoleInv
<1> SUFFICES ASSUME ConsoleInit
             PROVE  ConsoleInv
  OBVIOUS
<1>1. Default \in Settings
  BY DEF Default, Settings
<1>2. <<>> \in Registries /\ Unshared(<<>>)
  <2>1. <<>> = [n \in {} |-> <<>>[n]] /\ DOMAIN <<>> = {}
    OBVIOUS
  <2> QED
    BY <2>1, RegistryShape DEF Unshared
<1>3. NewSession \in GoodSessions
  BY <1>1, <1>2 DEF NewSession, GoodSessions, AnySession, Metas
<1>4. Unconfigured \in Clients
  BY DEF Unconfigured, Clients, AnyClient, Metas
<1>5. 0 \in 0 .. MaxCommands
  BY ConsoleAssumption
<1> QED
  BY <1>1, <1>3, <1>4, <1>5 DEF ConsoleInit, ConsoleInv, Published, TurnFollows

\* What an outcome that is written leaves.
LEMMA WroteKept ==
    ASSUME NEW o, NEW own, Comes(o, own), saved \in GoodSessions, Wrote(o)
    PROVE  /\ snapshot' \in GoodSessions /\ saved' \in GoodSessions /\ client' \in Clients
           /\ Own(snapshot') = own
<1>1. /\ o \in [doms : Seq(GoodSessions), client : Clients, ok : BOOLEAN]
      /\ Last(o.doms) \in GoodSessions /\ Own(Last(o.doms)) = own
  BY DEF Comes
<1>2. \A i \in DOMAIN o.doms : o.doms[i] \in GoodSessions
  <2>1. o.doms \in Seq(GoodSessions)
    BY <1>1
  <2>2. DOMAIN o.doms = 1 .. Len(o.doms)
    BY <2>1, LenProperties
  <2> QED
    BY <2>1, <2>2, ElementOfSeq
<1>3. ToSet(o.doms) \subseteq GoodSessions
  BY <1>2 DEF ToSet
<1> QED
  BY <1>1, <1>3 DEF Wrote

LEMMA CommandKept ==
    ASSUME ConsoleInv, Command
    PROVE  ConsoleInv'
<1>1. PICK script \in Scripts :
        /\ Wrote(Commanded(script))
        /\ last' = [script |-> script, ok |-> Commanded(script).ok, nth |-> commands']
  BY DEF Command
<1>2. PICK own : Comes(Commanded(script), own)
  <2>1. Completes(Commanded(script), snapshot, Ran(script, snapshot))
    BY CommandedComes DEF ConsoleInv
  <2> QED
    BY <2>1 DEF Completes
<1>3. snapshot' \in GoodSessions /\ saved' \in GoodSessions /\ client' \in Clients
  BY <1>1, <1>2, WroteKept DEF ConsoleInv
<1>4. settings' \in Settings
  BY <1>3 DEF Command, GoodSessions, AnySession
<1>5. last'.script \in Scripts /\ last'.ok \in BOOLEAN
  <2>1. Commanded(script).ok \in BOOLEAN
    BY <1>2 DEF Comes
  <2> QED
    BY <1>1, <2>1
<1>6. commands' \in 0 .. MaxCommands
  BY ConsoleAssumption DEF Command, ConsoleInv
<1>7. TurnFollows'
  BY DEF Command, ConsoleInv, TurnFollows, world, Missing, Valid
<1> QED
  BY <1>3, <1>4, <1>5, <1>6, <1>7 DEF ConsoleInv, Command, world, Published

LEMMA RewindKept ==
    ASSUME ConsoleInv, Rewind
    PROVE  ConsoleInv'
<1>1. TurnFollows'
  BY DEF Rewind, ConsoleInv, TurnFollows, world, Missing, Valid
<1> QED
  BY <1>1 DEF ConsoleInv, Rewind, world, Published

LEMMA ChangeConVarKept ==
    ASSUME ConsoleInv, ChangeConVar
    PROVE  ConsoleInv'
<1>1. TurnFollows'
  BY DEF ChangeConVar, ConsoleInv, TurnFollows, world, Missing, Valid
<1>2. PICK set \in Settings : snapshot' = [snapshot EXCEPT !.set = set]
  <2> DEFINE old == snapshot.set
  <2>1. old \in Settings
    BY DEF ConsoleInv, GoodSessions, AnySession
  <2>2. ASSUME NEW e \in Endpoints, snapshot' = [snapshot EXCEPT !.set.endpoint = e]
        PROVE  \E set \in Settings : snapshot' = [snapshot EXCEPT !.set = set]
    <3>1. [old EXCEPT !.endpoint = e] \in Settings
      BY <2>1 DEF Settings
    <3> QED
      BY <2>2, <3>1
  <2>3. ASSUME NEW key \in Keys, snapshot' = [snapshot EXCEPT !.set.key = key]
        PROVE  \E set \in Settings : snapshot' = [snapshot EXCEPT !.set = set]
    <3>1. [old EXCEPT !.key = key] \in Settings
      BY <2>1 DEF Settings
    <3> QED
      BY <2>3, <3>1
  <2>4. ASSUME NEW model \in Models, snapshot' = [snapshot EXCEPT !.set.model = model]
        PROVE  \E set \in Settings : snapshot' = [snapshot EXCEPT !.set = set]
    <3>1. [old EXCEPT !.model = model] \in Settings
      BY <2>1, ConsoleAssumption DEF Settings
    <3> QED
      BY <2>4, <3>1
  <2> QED
    BY <2>2, <2>3, <2>4 DEF ChangeConVar
<1>3. snapshot' \in GoodSessions
  <2>1. snapshot \in AnySession /\ Unshared(snapshot.registry)
        /\ (snapshot.failed => snapshot.meta = Unset)
    BY DEF ConsoleInv, GoodSessions
  <2>2. /\ snapshot' \in AnySession /\ snapshot'.registry = snapshot.registry
        /\ snapshot'.failed = snapshot.failed /\ snapshot'.meta = snapshot.meta
    BY <1>2, <2>1 DEF AnySession
  <2> QED
    BY <2>1, <2>2 DEF GoodSessions
<1>4. commands' \in 0 .. MaxCommands
  BY ConsoleAssumption DEF ChangeConVar, ConsoleInv
<1> QED
  BY <1>1, <1>3, <1>4 DEF ConsoleInv, ChangeConVar, world, Published

LEMMA StartHostKept ==
    ASSUME ConsoleInv, StartHost
    PROVE  ConsoleInv'
<1>1. Comes(Initialized(snapshot), Own(snapshot)) /\ Wrote(Initialized(snapshot))
  BY InitializedComes DEF ConsoleInv, StartHost
<1>2. snapshot' \in GoodSessions /\ saved' \in GoodSessions /\ client' \in Clients
  BY <1>1, WroteKept DEF ConsoleInv
<1>3. settings' \in Settings
  BY <1>2 DEF StartHost, GoodSessions, AnySession
<1>4. TurnFollows'
  BY DEF StartHost, ConsoleInv, TurnFollows, world, Missing, Valid
<1> QED
  BY <1>2, <1>3, <1>4 DEF ConsoleInv, StartHost, world, Published

LEMMA PublishKept ==
    ASSUME ConsoleInv, Publish
    PROVE  ConsoleInv'
<1>1. TurnFollows'
  BY DEF Publish, ConsoleInv, TurnFollows, Missing, Valid
<1>2. Published'
  BY DEF Publish, ConsoleInv, Published
<1>3. commands' \in 0 .. MaxCommands
  BY ConsoleAssumption DEF Publish, ConsoleInv
<1> QED
  BY <1>1, <1>2, <1>3 DEF ConsoleInv, Publish

\* A turn asks with the client that the session's settings describe, and knows
\* what that endpoint published.
LEMMA RunTurnKept ==
    ASSUME ConsoleInv, RunTurn
    PROVE  ConsoleInv'
<1> DEFINE set == snapshot.set
           new == Refreshed(set, client)
<1>1. set \in Settings /\ snapshot.meta \in Metas /\ settings' = set
  BY DEF ConsoleInv, GoodSessions, AnySession, RunTurn, Hydrated
<1>2. new \in Clients
  BY <1>1, RefreshedClient DEF ConsoleInv
<1>3. ~Wrong(set) /\ ~Missing(set) =>
        /\ new.endpoint = set.endpoint /\ new.model = set.model
        /\ new.key = IF set.endpoint = Unset THEN Unset ELSE set.key
  <2> DEFINE c == ClientOf(set)
  <2>1. /\ c \in AnyClient /\ c.endpoint = set.endpoint /\ c.model = set.model
        /\ c.key = IF set.endpoint = Unset THEN Unset ELSE set.key
    BY <1>1, ClientFields DEF Clients
  <2>2. new = IF Wrong(set) \/ Missing(set) THEN client
              ELSE IF c.endpoint = client.endpoint /\ c.model = client.model
              THEN [c EXCEPT !.meta = client.meta]
              ELSE c
    BY DEF Refreshed
  <2> HIDE DEF c, new
  <2> QED
    BY <2>1, <2>2 DEF AnyClient
<1> HIDE DEF new
<1>4. /\ Restored(new) \in Clients
      /\ Restored(new).endpoint = new.endpoint /\ Restored(new).key = new.key
      /\ Restored(new).model = new.model
      /\ Restored(new).meta # Unset => Restored(new).meta.endpoint = new.endpoint
  <2> DEFINE meta == IF snapshot.meta # Unset /\ snapshot.meta.endpoint = new.endpoint
                     THEN snapshot.meta ELSE Unset
  <2>1. meta \in Metas /\ (meta # Unset => meta.endpoint = new.endpoint)
    BY <1>1 DEF Metas
  <2>2. meta # Unset => new.endpoint # Unset
    BY <1>1, ConsoleAssumption DEF Metas
  <2>3. Restored(new) = [new EXCEPT !.meta = meta]
    BY DEF Restored
  <2> HIDE DEF meta
  <2> QED
    BY <1>2, <2>1, <2>2, <2>3 DEF Clients, AnyClient
<1>5. client' = IF Wrong(set) THEN client ELSE Restored(new)
  BY <1>1 DEF RunTurn, new
<1>6. client' \in Clients
  BY <1>4, <1>5 DEF ConsoleInv
<1>7. TurnFollows'
  <2> SUFFICES ASSUME sent' # NoTurn
               PROVE  TurnFollows'
    BY DEF TurnFollows, NoTurn, Unconfigured, Default
  <2>1. ~Wrong(set) /\ client'.endpoint # Unset /\ sent' = [asked |-> client', of |-> set]
    BY <1>1 DEF RunTurn
  <2>2. sent'.asked = Restored(new) /\ sent'.of = set
    BY <1>5, <2>1
  <2>3. Missing(set)' = Missing(set)
    BY DEF RunTurn, world, Missing, Valid
  <2>4. new.endpoint # Unset
    BY <1>4, <1>5, <2>1
  <2>5. ASSUME ~Missing(set)
        PROVE  /\ sent'.asked.endpoint = set.endpoint /\ sent'.asked.key = set.key
               /\ sent'.asked.model = set.model
    <3>1. /\ new.endpoint = set.endpoint /\ new.model = set.model
          /\ new.key = IF set.endpoint = Unset THEN Unset ELSE set.key
      BY <1>3, <2>1, <2>5
    <3>2. new.key = set.key
      BY <2>4, <3>1
    <3> QED
      BY <1>4, <2>2, <3>1, <3>2
  <2>6. sent'.asked.meta # Unset => sent'.asked.meta.endpoint = sent'.asked.endpoint
    BY <1>4, <2>2
  <2>7. Missing(sent.of)' = Missing(set)
    BY <2>2 DEF RunTurn, world, Missing, Valid
  <2> QED
    BY <2>2, <2>5, <2>6, <2>7 DEF TurnFollows
<1> QED
  BY <1>1, <1>6, <1>7 DEF ConsoleInv, RunTurn, world, Published

LEMMA ConsoleSteps ==
    ASSUME ConsoleInv, [ConsoleNext]_consoleVars
    PROVE  ConsoleInv'
<1>1. CASE UNCHANGED consoleVars
  <2>1. TurnFollows'
    BY <1>1 DEF consoleVars, world, ConsoleInv, TurnFollows, Missing, Valid
  <2> QED
    BY <1>1, <2>1 DEF consoleVars, world, ConsoleInv, Published
<1>2. CASE ConsoleNext
  BY <1>2, CommandKept, RewindKept, ChangeConVarKept, StartHostKept, PublishKept,
     RunTurnKept DEF ConsoleNext
<1> QED
  BY <1>1, <1>2

LEMMA ConsoleInvAlways == ConsoleSpec => []ConsoleInv
  BY ConsoleStarts, ConsoleSteps, PTL DEF ConsoleSpec

\* At any offset of the session that can be gone back to, a provider is known by
\* one name (convar.rs, record_provider: `two records for one endpoint would
\* both look active'), for any scripts, catalogs and registry.
THEOREM OneNameEach == ConsoleSpec => []OneName
<1>1. ASSUME NEW d \in GoodSessions
      PROVE  SessionOK(d) /\ Unshared(d.registry)
  <2>1. DOMAIN d.registry \subseteq Names
    BY DEF GoodSessions, AnySession, Registries
  <2> QED
    BY <2>1 DEF GoodSessions, AnySession, SessionOK
<1>2. ASSUME ConsoleInv
      PROVE  ConsoleTypeOK
  <2>1. client.endpoint = Unset => client.key = Unset /\ client.meta = Unset
    BY <1>2 DEF ConsoleInv, Clients
  <2> QED
    BY <1>1, <1>2, <2>1 DEF ConsoleInv, Published, ConsoleTypeOK
<1>3. ConsoleInv => OneName
  BY <1>1, <1>2 DEF ConsoleInv, OneName, Unshared
<1> QED
  BY <1>3, ConsoleInvAlways, PTL

\* A turn asks the endpoint, the model and the key that the session's settings
\* name when it starts, whoever changed them, and it believes of a model only
\* what that endpoint published (host.rs, run_turn, restore_provider_metadata).
THEOREM TurnsFollow == ConsoleSpec => []TurnFollows
<1>1. ConsoleInv => TurnFollows
  BY DEF ConsoleInv
<1> QED
  BY <1>1, ConsoleInvAlways, PTL

\* A script has all of its settings, keys, aliases and directors, or none
\* (host.rs, execute_command), whatever aliases and files it goes through.
THEOREM WholeOrNothing == ConsoleSpec => AllOrNothing
<1> DEFINE run(script) == Ran(script, snapshot)
           all(script) == Own(Patched(snapshot, run(script)))
           Whole ==
             last' # last =>
               /\ Own(snapshot') \in {Own(snapshot), all(last'.script)}
               /\ ~run(last'.script).ok => Own(snapshot') = Own(snapshot)
               /\ last'.ok /\ ~Has(run(last'.script), {"effort"}) =>
                    Own(snapshot') = all(last'.script)
<1>1. ASSUME ConsoleInv, [ConsoleNext]_consoleVars, last' # last
      PROVE  Whole
  <2>1. Command
    BY <1>1 DEF ConsoleNext, consoleVars, Rewind, ChangeConVar, StartHost, Publish, RunTurn
  <2>2. PICK script \in Scripts :
          /\ Wrote(Commanded(script))
          /\ last' = [script |-> script, ok |-> Commanded(script).ok, nth |-> commands']
    BY <2>1 DEF Command
  <2>3. last'.script = script /\ last'.ok = Commanded(script).ok
    BY <2>2
  <2>4. Completes(Commanded(script), snapshot, run(script))
    BY <1>1, CommandedComes DEF ConsoleInv
  <2> HIDE DEF run
  <2>5. PICK own \in {Own(snapshot), all(script)} :
          /\ Comes(Commanded(script), own)
          /\ ~run(script).ok => own = Own(snapshot)
          /\ Commanded(script).ok /\ ~Has(run(script), {"effort"}) => own = all(script)
    BY <2>4 DEF Completes
  <2>6. Own(snapshot') = own
    BY <1>1, <2>2, <2>5, WroteKept DEF ConsoleInv
  <2> QED
    BY <2>3, <2>5, <2>6
<1>2. ConsoleInv /\ [ConsoleNext]_consoleVars => [Whole]_consoleVars
  BY <1>1
<1>3. ConsoleSpec => [][Whole]_consoleVars
  BY <1>2, ConsoleInvAlways, PTL DEF ConsoleSpec
<1> QED
  BY <1>3 DEF AllOrNothing

=============================================================================
