--------------------------- MODULE ReplicationProofs ---------------------------
(***************************************************************************)
(* Proofs about Replication: every command runs once, and no subscriber's  *)
(* copy has a gap it is not told of.  They hold for every set of actors,   *)
(* any grant of roles, every capacity of the queues and every bound.       *)
(***************************************************************************)
EXTENDS Replication, SequenceTheorems, TLAPS

-----------------------------------------------------------------------------
(* The inductive invariant. *)

\* A record of the journal.
LogRecord == [base : 0 .. MaxOffset, entry : Entry]

\* Only a fork, a rewind or a selection leaves the line.
LineInv ==
    \A o \in DOMAIN log : log[o].entry # "Branch" => log[o].base = o - 1

\* A command that runs has its receipt and has not run before.
CommandInv ==
    /\ seen = Receipts
    /\ running # None => running \in Receipts /\ executed[running] = 0
    /\ \A c \in Commands : executed[c] <= 1
    /\ \A c \in Commands : executed[c] > 0 => c \in Receipts

\* A copy is of some snapshot; a subscriber has one.
CopyInv ==
    /\ \A a \in Actors : replica[a] \in 0 .. Newest \cup {None}
    /\ \A a \in DOMAIN subs : replica[a] # None

\* The patches of a queue are in the order of the journal.
Ordered(q, newest) ==
    LET ms == q.messages IN
    \A j \in DOMAIN ms : IsPatch(ms[j]) =>
        /\ ms[j].offset <= newest
        /\ \A k \in DOMAIN ms :
              IsPatch(ms[k]) /\ j < k => ms[j].offset < ms[k].offset

\* A queue without a gap holds every record that its client lacks.
Covers(q, copy, newest, silent) ==
    \A o \in (copy + 1 .. newest) \ silent :
        \E k \in DOMAIN q.messages :
            IsPatch(q.messages[k]) /\ q.messages[k].offset = o

\* A subscriber that waits for no resync has what its copy lacks, or knows of
\* a record it was not told of.
QueueInv ==
    \A a \in DOMAIN subs :
        /\ Ordered(subs[a], Newest)
        /\ ~subs[a].resync =>
             IF a \in broken THEN \E o \in Silent : o > replica[a]
             ELSE Covers(subs[a], replica[a], Newest, Silent)

\* The inductive invariant.
IInv ==
    /\ TypeOK
    /\ LineInv
    /\ CommandInv
    /\ CopyInv
    /\ QueueDiscipline
    /\ QueueInv

-----------------------------------------------------------------------------
(* What the pushes do to a queue. *)

\* A batch of n patches, from an offset on, is queued whole, or the queue is
\* emptied for a resync, or it waits for one already.
Pushed(q, from, n, r) ==
    /\ r \in Queue
    /\ \/ q.resync /\ r = q
       \/ ~q.resync /\ r = [messages |-> <<>>, resync |-> TRUE]
       \/ /\ ~q.resync /\ ~r.resync
          /\ Len(r.messages) = Len(q.messages) + n
          /\ Len(r.messages) <= Capacity
          /\ \A k \in 1 .. Len(q.messages) : r.messages[k] = q.messages[k]
          /\ \A k \in 1 .. n :
                r.messages[Len(q.messages) + k] =
                    [kind |-> "Patch", offset |-> from + k]

\* SubscriberQueue::push of a batch that starts behind an offset.
LEMMA PushPatches ==
    ASSUME NEW q \in Queue, NEW from \in Nat, NEW n \in Nat,
           from + n <= MaxOffset,
           NEW o \in Seq(Nat), Len(o) = n, \A k \in 1 .. n : o[k] = from + k
    PROVE  Pushed(q, from, n, Push(q, o))
<1> DEFINE r == Push(q, o)
           p == [k \in DOMAIN o |-> [kind |-> "Patch", offset |-> o[k]]]
           M == PatchMessage \cup FrameMessage
<1>1. MaxOffset \in Nat /\ Capacity \in Nat
  BY ReplicationAssumption
<1>2. /\ o \in Seq(Nat) /\ Len(o) = n
      /\ \A k \in 1 .. n : o[k] = from + k
  OBVIOUS
<1>3. /\ p \in Seq(PatchMessage) /\ Len(p) = n
      /\ \A k \in 1 .. n : p[k] = [kind |-> "Patch", offset |-> from + k]
  <2>1. DOMAIN o = 1 .. n
    BY <1>2
  <2> QED
    BY <2>1, <1>1, <1>2 DEF PatchMessage
<1>4. p \in Seq(M)
  BY <1>3
<1>5. q.messages \in Seq(M) /\ q.resync \in BOOLEAN
  BY DEF Queue
<1>6. /\ q.messages \o p \in Seq(M)
      /\ Len(q.messages \o p) = Len(q.messages) + n
      /\ \A k \in 1 .. Len(q.messages) : (q.messages \o p)[k] = q.messages[k]
      /\ \A k \in 1 .. n : (q.messages \o p)[Len(q.messages) + k] = p[k]
  <2> HIDE DEF p, M
  <2>1. /\ q.messages \o p \in Seq(M)
        /\ Len(q.messages \o p) = Len(q.messages) + Len(p)
        /\ \A i \in 1 .. Len(q.messages) + Len(p) : (q.messages \o p)[i] =
              IF i <= Len(q.messages) THEN q.messages[i]
              ELSE p[i - Len(q.messages)]
    BY <1>4, <1>5, ConcatProperties
  <2>2. Len(q.messages) \in Nat /\ n \in Nat
    BY <1>1, <1>5
  <2>3. \A k \in 1 .. n :
            (q.messages \o p)[Len(q.messages) + k] = p[k]
    <3> TAKE k \in 1 .. n
    <3> DEFINE i == Len(q.messages) + k
    <3>1. i \in 1 .. Len(q.messages) + Len(p) /\ ~(i <= Len(q.messages))
          /\ i - Len(q.messages) = k
      BY <2>2, <1>3
    <3> HIDE DEF i
    <3>2. (q.messages \o p)[i] = p[i - Len(q.messages)]
      BY <2>1, <3>1
    <3> QED
      BY <3>1, <3>2 DEF i
  <2> QED
    BY <2>1, <2>2, <2>3, <1>3
<1>7. <<>> \in Seq(M)
  OBVIOUS
<1> SUFFICES Pushed(q, from, n, r)
  OBVIOUS
<1> QED
  <2> HIDE DEF p, M
  <2>1. CASE q.resync
    BY <2>1 DEF Push, Pushed
  <2>2. CASE ~q.resync /\ Len(q.messages) + Len(o) > Capacity
    BY <2>2, <1>7 DEF Push, Pushed, Queue, M
  <2>3. CASE ~q.resync /\ ~(Len(q.messages) + Len(o) > Capacity)
    <3>1. r = [q EXCEPT !.messages = q.messages \o p]
      BY <2>3 DEF Push, p
    <3>2. r \in Queue /\ r.messages = q.messages \o p
          /\ r.resync = q.resync
      BY <3>1, <1>6 DEF Queue, M
    <3> QED
      <4>1. Len(r.messages) = Len(q.messages) + n
            /\ Len(r.messages) <= Capacity
        <5>1. Len(q.messages) \in Nat /\ Len(o) = n /\ n \in Nat
          BY <1>1, <1>2, <1>5
        <5>2. Len(r.messages) = Len(q.messages) + n
          BY <3>2, <1>6
        <5>3. Len(q.messages) + n <= Capacity
          BY <5>1, <2>3, <1>1
        <5> QED
          BY <5>2, <5>3
      <4>2. \A k \in 1 .. Len(q.messages) : r.messages[k] = q.messages[k]
        BY <3>2, <1>6
      <4>3. \A k \in 1 .. n :
                r.messages[Len(q.messages) + k] =
                    [kind |-> "Patch", offset |-> from + k]
        BY <3>2, <1>6, <1>3
      <4>4. r \in Queue /\ ~q.resync /\ ~r.resync
        BY <3>2, <2>3
      <4> HIDE DEF r
      <4> QED
        BY <4>1, <4>2, <4>3, <4>4 DEF Pushed
  <2> QED
    BY <2>1, <2>2, <2>3

\* The last conjunct of QueueDiscipline for one queue.
Frames(q, newest) ==
    LET ms == q.messages IN
    \A i \in DOMAIN ms : ~IsPatch(ms[i]) =>
        /\ ms[i].frame = newest[ms[i].view]
        /\ \A j \in DOMAIN ms :
              ~IsPatch(ms[j]) /\ ms[j].view = ms[i].view => i = j

\* What a queue becomes when a frame is pushed; no patch is moved.
Framed(q, newest, r) ==
    /\ r \in Queue /\ r.resync = q.resync
    /\ Len(r.messages) <= Capacity
    /\ Frames(r, newest)
    /\ \A k \in DOMAIN q.messages : IsPatch(q.messages[k]) =>
          k \in DOMAIN r.messages /\ r.messages[k] = q.messages[k]
    /\ \A k \in DOMAIN r.messages : IsPatch(r.messages[k]) =>
          k \in DOMAIN q.messages /\ r.messages[k] = q.messages[k]

\* A frame takes the place of the one of its view, or the next one in the
\* queue, or is dropped; no patch is moved.
LEMMA PushOneFrame ==
    ASSUME NEW q \in Queue, NEW view \in Views, NEW f \in 1 .. MaxFrames,
           NEW pub \in [Views -> 0 .. MaxFrames], Frames(q, pub),
           Len(q.messages) <= Capacity,
           NEW r, r = PushFrame(q, view, f)
    PROVE  Framed(q, [pub EXCEPT ![view] = f], r)
<1> DEFINE ms == q.messages
           same == {k \in DOMAIN ms : ~IsPatch(ms[k]) /\ ms[k].view = view}
           new  == [kind |-> "Presentation", view |-> view, frame |-> f]
           pub2 == [pub EXCEPT ![view] = f]
           M == PatchMessage \cup FrameMessage
<1>1. /\ ms \in Seq(M) /\ q.resync \in BOOLEAN
      /\ \A k \in DOMAIN ms : IsPatch(ms[k]) => ms[k] \in PatchMessage
      /\ \A k \in DOMAIN ms : ~IsPatch(ms[k]) => ms[k] \in FrameMessage
  <2>1. ms \in Seq(M) /\ q.resync \in BOOLEAN
    BY DEF Queue
  <2>2. \A m \in M : IF IsPatch(m) THEN m \in PatchMessage ELSE m \in FrameMessage
    BY DEF IsPatch, PatchMessage, FrameMessage
  <2>3. \A k \in DOMAIN ms : ms[k] \in M
    BY <2>1
  <2> QED
    BY <2>1, <2>2, <2>3
<1>2. new \in FrameMessage /\ ~IsPatch(new) /\ new.view = view /\ new.frame = f
  BY DEF FrameMessage, IsPatch
<1>3. \A v \in Views : pub2[v] = IF v = view THEN f ELSE pub[v]
  OBVIOUS
<1>4. \A m \in FrameMessage : m.view \in Views
  BY DEF FrameMessage
<1>5. CASE same # {}
  <2>1. PICK k \in DOMAIN ms : same = {k} /\ ~IsPatch(ms[k]) /\ ms[k].view = view
    BY <1>5 DEF Frames
  <2>2. Max(same) = k
    BY <2>1, <1>1 DEF Max
  <2>3. r = [q EXCEPT !.messages = [ms EXCEPT ![k] = new]]
    BY <1>5, <2>2 DEF PushFrame
  <2>4. [ms EXCEPT ![k] = new] \in Seq(M) /\ Len([ms EXCEPT ![k] = new]) = Len(ms)
    BY <1>1, <1>2
  <2>5. r \in Queue /\ r.resync = q.resync /\ r.messages = [ms EXCEPT ![k] = new]
    BY <2>3, <2>4 DEF Queue
  <2>6. /\ DOMAIN r.messages = DOMAIN ms
        /\ \A i \in DOMAIN ms : r.messages[i] = IF i = k THEN new ELSE ms[i]
    BY <2>5
  <2>7. Frames(r, pub2)
    <3> HIDE DEF new, pub2
    <3> SUFFICES ASSUME NEW i \in DOMAIN ms, ~IsPatch(r.messages[i])
                 PROVE  /\ r.messages[i].frame = pub2[r.messages[i].view]
                        /\ \A j \in DOMAIN ms :
                              ~IsPatch(r.messages[j])
                              /\ r.messages[j].view = r.messages[i].view => i = j
      BY <2>6 DEF Frames
    <3>1. \A j \in DOMAIN ms \ {k} : ~IsPatch(ms[j]) => ms[j].view # view
      BY <2>1
    <3>2. CASE i = k
      BY <3>1, <3>2, <2>6, <1>2, <1>3
    <3>3. CASE i # k
      <4>1. r.messages[i] = ms[i] /\ ~IsPatch(ms[i])
        BY <2>6, <3>3
      <4>2. ms[i].view \in Views /\ ms[i].view # view
        BY <4>1, <3>1, <3>3, <2>6, <1>1, <1>4
      <4>3. ms[i].frame = pub[ms[i].view]
        BY <4>1 DEF Frames
      <4>4. \A j \in DOMAIN ms :
                ~IsPatch(ms[j]) /\ ms[j].view = ms[i].view => i = j
        BY <4>1 DEF Frames
      <4> QED
        BY <4>1, <4>2, <4>3, <4>4, <3>1, <3>3, <2>6, <1>2, <1>3
    <3> QED
      BY <3>2, <3>3
  <2> QED
    BY <2>1, <2>4, <2>5, <2>6, <2>7, <1>2 DEF Framed
<1>6. CASE same = {} /\ Len(ms) < Capacity
  <2>1. r = [q EXCEPT !.messages = Append(ms, new)]
    BY <1>6 DEF PushFrame
  <2>2. /\ Append(ms, new) \in Seq(M) /\ Len(Append(ms, new)) = Len(ms) + 1
        /\ \A i \in 1 .. Len(ms) : Append(ms, new)[i] = ms[i]
        /\ Append(ms, new)[Len(ms) + 1] = new
    BY <1>1, <1>2, AppendProperties
  <2>3. r \in Queue /\ r.resync = q.resync /\ r.messages = Append(ms, new)
    BY <2>1, <2>2 DEF Queue
  <2>4. /\ DOMAIN ms = 1 .. Len(ms) /\ DOMAIN r.messages = 1 .. Len(ms) + 1
        /\ Len(ms) \in Nat
        /\ \A i \in DOMAIN ms : r.messages[i] = ms[i]
        /\ r.messages[Len(ms) + 1] = new
    BY <1>1, <2>2, <2>3
  <2>5. Frames(r, pub2)
    <3> HIDE DEF new, pub2
    <3> SUFFICES ASSUME NEW i \in 1 .. Len(ms) + 1, ~IsPatch(r.messages[i])
                 PROVE  /\ r.messages[i].frame = pub2[r.messages[i].view]
                        /\ \A j \in 1 .. Len(ms) + 1 :
                              ~IsPatch(r.messages[j])
                              /\ r.messages[j].view = r.messages[i].view => i = j
      BY <2>4 DEF Frames
    <3>1. \A j \in DOMAIN ms : ~IsPatch(ms[j]) => ms[j].view # view
      BY <1>6
    <3>2. \A j \in 1 .. Len(ms) + 1 : j = Len(ms) + 1 \/ j \in DOMAIN ms
      BY <2>4
    <3>3. CASE i = Len(ms) + 1
      BY <3>1, <3>2, <3>3, <2>4, <1>2, <1>3
    <3>4. CASE i \in DOMAIN ms
      <4>1. r.messages[i] = ms[i] /\ ~IsPatch(ms[i])
        BY <2>4, <3>4
      <4>2. ms[i].view \in Views /\ ms[i].view # view
        BY <4>1, <3>1, <3>2, <3>4, <2>4, <1>1, <1>4
      <4>3. ms[i].frame = pub[ms[i].view]
        BY <4>1, <3>4 DEF Frames
      <4>4. \A j \in DOMAIN ms :
                ~IsPatch(ms[j]) /\ ms[j].view = ms[i].view => i = j
        BY <4>1, <3>4 DEF Frames
      <4> QED
        BY <4>1, <4>2, <4>3, <4>4, <3>1, <3>2, <3>4, <2>4, <1>2, <1>3
    <3> QED
      BY <3>2, <3>3, <3>4
  <2>6. Len(r.messages) <= Capacity
    BY <2>2, <2>3, <1>6, <1>1, ReplicationAssumption
  <2> QED
    BY <2>3, <2>4, <2>5, <2>6, <1>2 DEF Framed
<1>7. CASE same = {} /\ ~(Len(ms) < Capacity)
  <2>1. r = q
    BY <1>7 DEF PushFrame
  <2>2. \A j \in DOMAIN ms : ~IsPatch(ms[j]) => ms[j].view # view
    BY <1>7
  <2>3. Frames(q, pub2)
    BY <2>2, <1>1, <1>3, <1>4 DEF Frames
  <2> QED
    BY <2>1, <2>3 DEF Framed
<1> QED
  BY <1>5, <1>6, <1>7

-----------------------------------------------------------------------------
(* What the steps do to the journal and to the queues. *)

\* The journal grows by n records of one kind.
Records(n, entry) ==
    /\ log' \in Seq(LogRecord)
    /\ Len(log') = Newest + n /\ Len(log') <= MaxOffset
    /\ \A k \in 1 .. Newest : log'[k] = log[k]
    /\ \A k \in 1 .. n :
          /\ log'[Newest + k].entry = entry
          /\ entry # "Branch" => log'[Newest + k].base = Newest + k - 1

\* Records of which every subscriber is told.
Tells ==
    \E n \in Nat, entry \in Entry \ {"Branch", "Failed"} :
        /\ Records(n, entry)
        /\ subs' = Replicated(Newest, Newest + n)
        /\ UNCHANGED <<clients, published>>

\* Records of which no subscriber is told.
Hides ==
    \E n \in Nat, entry \in {"Branch", "Failed"} :
        /\ Records(n, entry)
        /\ UNCHANGED <<subs, clients, published>>

\* At most, subscribers leave.
Leaves ==
    /\ DOMAIN subs' \subseteq DOMAIN subs
    /\ \A a \in DOMAIN subs' : subs'[a] = subs[a]
    /\ UNCHANGED <<log, clients, published>>

\* append_on adds a chain of records.
LEMMA ExtendedLog ==
    ASSUME TypeOK, NEW n \in Nat, NEW entry \in Entry, Fits(n),
           log' = Extended(n, entry)
    PROVE  Records(n, entry)
<1> DEFINE new == [k \in 1 .. n |-> [base |-> Newest + k - 1, entry |-> entry]]
<1>1. /\ log \in Seq(LogRecord) /\ Newest \in Nat /\ MaxOffset \in Nat
      /\ Newest + n <= MaxOffset /\ Newest = Len(log)
  BY ReplicationAssumption DEF TypeOK, LogRecord, Newest, Fits
<1>2. /\ new \in Seq(LogRecord) /\ Len(new) = n
      /\ \A k \in 1 .. n : new[k] = [base |-> Newest + k - 1, entry |-> entry]
  BY <1>1 DEF LogRecord
<1>3. log' = log \o new
  BY DEF Extended
<1> HIDE DEF new
<1>4. /\ log' \in Seq(LogRecord) /\ Len(log') = Newest + n
      /\ \A i \in 1 .. Newest + n :
            log'[i] = IF i <= Newest THEN log[i] ELSE new[i - Newest]
  <2>1. /\ log \o new \in Seq(LogRecord)
        /\ Len(log \o new) = Len(log) + Len(new)
        /\ \A i \in 1 .. Len(log) + Len(new) :
              (log \o new)[i] = IF i <= Len(log) THEN log[i]
                                ELSE new[i - Len(log)]
    BY <1>1, <1>2, ConcatProperties
  <2> QED
    BY <2>1, <1>1, <1>2, <1>3
<1>5. \A k \in 1 .. n : log'[Newest + k] = new[k]
  <2> TAKE k \in 1 .. n
  <2>1. Newest + k \in 1 .. Newest + n /\ ~(Newest + k <= Newest)
        /\ (Newest + k) - Newest = k
    BY <1>1
  <2> QED
    BY <1>4, <2>1
<1>6. \A k \in 1 .. Newest : log'[k] = log[k]
  BY <1>1, <1>4
<1>7. \A k \in 1 .. n : log'[Newest + k].entry = entry
                       /\ log'[Newest + k].base = Newest + k - 1
  BY <1>2, <1>5
<1> QED
  BY <1>1, <1>4, <1>6, <1>7 DEF Records

\* A patch, receipt or attachment is told to the subscribers.
LEMMA SubmitTells ==
    ASSUME TypeOK, NEW entry \in Entry \ {"Branch", "Failed"}, Submit(entry),
           UNCHANGED <<clients, published>>
    PROVE  Tells /\ Records(1, entry)
BY ExtendedLog DEF Submit, Tells

\* A turn or tool call is told when it succeeds and hidden when it fails.
LEMMA WorkKinds ==
    ASSUME TypeOK, NEW n \in Nat, NEW ok \in BOOLEAN, Work(n, ok),
           UNCHANGED <<clients, published>>
    PROVE  /\ Tells \/ Hides
           /\ \E entry \in {"Work", "Failed"} : Records(n, entry)
<1>1. "Work" \in Entry /\ "Failed" \in Entry
  BY DEF Entry
<1>2. CASE ok
  BY <1>1, <1>2, ExtendedLog DEF Work, Tells
<1>3. CASE ~ok
  BY <1>1, <1>3, ExtendedLog DEF Work, Hides
<1> QED
  BY <1>2, <1>3

\* A fork, rewind or selection is hidden.
LEMMA BranchHides ==
    ASSUME TypeOK, NEW a \in Actors, NEW offset \in 0 .. Newest,
           Branch(a, offset)
    PROVE  Hides /\ Records(1, "Branch")
<1>1. [base |-> offset, entry |-> "Branch"] \in LogRecord
  BY ReplicationAssumption DEF TypeOK, LogRecord, Entry, Newest
<1>2. /\ log \in Seq(LogRecord) /\ Newest = Len(log) /\ Newest \in Nat
      /\ Newest + 1 <= MaxOffset
  BY DEF TypeOK, LogRecord, Newest, Branch, Fits
<1>3. Records(1, "Branch")
  <2>1. log' = Append(log, [base |-> offset, entry |-> "Branch"])
    BY DEF Branch
  <2>2. /\ log' \in Seq(LogRecord) /\ Len(log') = Newest + 1
        /\ \A k \in 1 .. Newest : log'[k] = log[k]
        /\ log'[Newest + 1] = [base |-> offset, entry |-> "Branch"]
    BY <1>1, <1>2, <2>1, AppendProperties
  <2> QED
    BY <1>2, <2>2 DEF Records
<1> QED
  BY <1>3 DEF Hides, Branch

\* The two requests that give a client a new copy.
Subscribes ==
    \E a \in Actors : \E last \in {None, replica[a]} :
        a \in Followers /\ Subscribe(a, last)
Resyncs == \E a \in Actors : Resync(a)

\* To journal, queues and copies every step is one of seven kinds.
LEMMA StepKinds ==
    ASSUME TypeOK, [Next]_vars
    PROVE  \/ Tells \/ Hides \/ Leaves
           \/ Subscribes \/ PollSome \/ Resyncs \/ PublishSome
<1> USE DEF clients, service
<1>1. CASE UNCHANGED vars
  BY <1>1 DEF vars, Leaves
<1>2. CASE \E a \in Actors : Handshake(a)
  <2>1. PICK a \in Actors : Handshake(a)
    BY <1>2
  <2>2. CASE UNCHANGED <<log, subs>>
    BY <2>1, <2>2 DEF Handshake, Leaves
  <2>3. CASE Submit(a)
    BY <2>1, <2>3, SubmitTells, ReplicationAssumption DEF Handshake, Entry
  <2> QED
    BY <2>1, <2>2, <2>3 DEF Handshake
<1>3. CASE \E a \in Actors : Disconnect(a) \/ \E b \in Actors : Detach(a, b)
  BY <1>3 DEF Disconnect, Detach, Without, Restrict, Leaves
<1>4. CASE Edits
  BY <1>4, SubmitTells, ReplicationAssumption
  DEF Edits, SubmitPatch, ChangeConvar, RegisterArtifact, Write, Entry
<1>5. CASE Works
  <2>1. PICK n \in 1 .. MaxBurst, ok \in BOOLEAN, a \in Actors :
            Turn(a, n, ok) \/ WriteWorkspace(a, n, ok)
    BY <1>5 DEF Works
  <2> QED
    BY <2>1, WorkKinds, ReplicationAssumption DEF Turn, WriteWorkspace
<1>6. CASE SubmitSome
  <2>1. PICK a \in Actors, c \in Commands : SubmitCommand(a, c)
    BY <1>6 DEF SubmitSome
  <2>2. c \in Entry \ {"Branch", "Failed"}
    BY ReplicationAssumption DEF Entry
  <2> QED
    BY <2>1, <2>2, SubmitTells DEF SubmitCommand
<1>7. CASE ExecuteSome
  <2>1. PICK n \in 0 .. MaxBurst, ok \in BOOLEAN : Execute(n, ok)
    BY <1>7 DEF ExecuteSome
  <2> QED
    BY <2>1, WorkKinds, ReplicationAssumption DEF Execute
<1>8. CASE BackgroundSome
  <2>1. PICK n \in 1 .. MaxBurst : Background(n)
    BY <1>8 DEF BackgroundSome
  <2> QED
    <3>1. n \in Nat /\ TRUE \in BOOLEAN
      BY ReplicationAssumption
    <3>2. Work(n, TRUE) /\ UNCHANGED <<clients, published>>
      BY <2>1 DEF Background
    <3> HIDE DEF clients
    <3> QED
      BY <3>1, <3>2, WorkKinds, Zenon
<1>9. CASE BranchSome
  BY <1>9, BranchHides DEF BranchSome
<1>10. CASE TerminateSome \/ Restart
  BY <1>10 DEF TerminateSome, Terminate, Restart, Leaves
<1>11. CASE \E a \in Actors : \/ Resync(a)
                              \/ \E last \in {None, replica[a]} :
                                    a \in Followers /\ Subscribe(a, last)
  BY <1>11 DEF Resyncs, Subscribes
<1> QED
  BY <1>1, <1>2, <1>3, <1>4, <1>5, <1>6, <1>7, <1>8, <1>9, <1>10, <1>11
  DEF Next, Session

-----------------------------------------------------------------------------
(* What is delivered: one lemma per kind of step. *)

\* The part of TypeOK that the delivery is about.
QueueType ==
    /\ log \in Seq(LogRecord) /\ Len(log) <= MaxOffset
    /\ \A a \in DOMAIN subs : subs[a] \in Queue /\ a \in Actors
    /\ published \in [Views -> 0 .. MaxFrames]
    /\ replica \in [Actors -> 0 .. MaxOffset \cup {None}]
    /\ broken \subseteq Actors

\* The part of the inductive invariant that the delivery is about.
Delivery ==
    /\ QueueType
    /\ LineInv
    /\ CopyInv
    /\ QueueDiscipline
    /\ QueueInv

\* The conditions on one queue.
Disciplined(q, newest) ==
    /\ Len(q.messages) <= Capacity
    /\ q.resync => \A k \in DOMAIN q.messages : ~IsPatch(q.messages[k])
    /\ Frames(q, newest)

\* What the queue of a client owes it.
Served(a, q, newest, silent) ==
    /\ Ordered(q, newest)
    /\ ~q.resync => IF a \in broken THEN \E o \in silent : o > replica[a]
                    ELSE Covers(q, replica[a], newest, silent)

\* Messages are patches or frames, with their fields.
LEMMA Messages ==
    ASSUME NEW q \in Queue
    PROVE  /\ q.messages \in Seq(PatchMessage \cup FrameMessage)
           /\ Len(q.messages) \in Nat
           /\ DOMAIN q.messages = 1 .. Len(q.messages)
           /\ q.resync \in BOOLEAN
           /\ \A k \in DOMAIN q.messages :
                 IF IsPatch(q.messages[k])
                 THEN q.messages[k].offset \in 1 .. MaxOffset
                 ELSE q.messages[k].view \in Views
<1>1. q.messages \in Seq(PatchMessage \cup FrameMessage) /\ q.resync \in BOOLEAN
  BY DEF Queue
<1>2. \A m \in PatchMessage \cup FrameMessage :
          IF IsPatch(m) THEN m.offset \in 1 .. MaxOffset ELSE m.view \in Views
  BY DEF IsPatch, PatchMessage, FrameMessage
<1> QED
  BY <1>1, <1>2

\* Old records stay, silent or not; the new ones are silent if they are hidden.
LEMMA NewRecords ==
    ASSUME QueueType, LineInv, NEW n \in Nat, NEW entry, Records(n, entry)
    PROVE  /\ log' \in Seq(LogRecord) /\ Len(log') <= MaxOffset
           /\ Newest \in Nat /\ Newest' = Newest + n
           /\ LineInv'
           /\ Silent \subseteq Silent'
           /\ \A o \in Silent' : o \in Silent \/ entry \in {"Branch", "Failed"}
           /\ entry \in {"Branch", "Failed"} =>
                 Newest + 1 .. Newest + n \subseteq Silent'
<1>1. /\ log \in Seq(LogRecord) /\ Newest = Len(log) /\ Newest \in Nat
      /\ log' \in Seq(LogRecord) /\ Len(log') <= MaxOffset
      /\ Newest' = Newest + n
      /\ DOMAIN log = 1 .. Newest /\ DOMAIN log' = 1 .. Newest + n
  BY DEF QueueType, Records, Newest
<1>2. \A k \in 1 .. Newest : log'[k] = log[k]
  BY DEF Records
<1>3. \A o \in Newest + 1 .. Newest + n :
          /\ log'[o].entry = entry
          /\ entry # "Branch" => log'[o].base = o - 1
  <2> TAKE o \in Newest + 1 .. Newest + n
  <2> DEFINE k == o - Newest
  <2>1. k \in 1 .. n /\ o = Newest + k
    BY <1>1
  <2>2. /\ log'[Newest + k].entry = entry
        /\ entry # "Branch" => log'[Newest + k].base = Newest + k - 1
    BY <2>1 DEF Records
  <2> QED
    BY <2>1, <2>2, <1>1
<1>4. \A o \in DOMAIN log' : o \in 1 .. Newest \/ o \in Newest + 1 .. Newest + n
  BY <1>1
<1>5. LineInv'
  BY <1>1, <1>2, <1>3, <1>4 DEF LineInv
<1> QED
  BY <1>1, <1>2, <1>3, <1>4, <1>5 DEF Silent

\* Who leaves takes its queue with it, and the others keep theirs.
LEMMA LeavesKeeps ==
    ASSUME Delivery, Leaves
    PROVE  Delivery'
<1>1. /\ UNCHANGED <<log, replica, broken, published>>
      /\ Newest' = Newest /\ Silent' = Silent
      /\ \A a \in DOMAIN subs' : a \in DOMAIN subs /\ subs'[a] = subs[a]
  BY DEF Leaves, clients, Newest, Silent
<1>2. QueueType' /\ LineInv' /\ CopyInv'
  BY <1>1 DEF Delivery, QueueType, LineInv, CopyInv
<1>3. QueueDiscipline'
  BY <1>1 DEF Delivery, QueueDiscipline
<1>4. QueueInv'
  BY <1>1 DEF Delivery, QueueInv
<1> QED
  BY <1>2, <1>3, <1>4 DEF Delivery

\* Hidden records are silent, so no queue owes them.
LEMMA HidesKeeps ==
    ASSUME Delivery, Hides
    PROVE  Delivery'
<1>1. PICK n \in Nat, entry \in {"Branch", "Failed"} : Records(n, entry)
  BY DEF Hides
<1>2. UNCHANGED <<subs, replica, broken, published>>
  BY DEF Hides, clients
<1>3. /\ log' \in Seq(LogRecord) /\ Len(log') <= MaxOffset
      /\ Newest \in Nat /\ Newest' = Newest + n /\ LineInv'
      /\ Silent \subseteq Silent'
      /\ Newest + 1 .. Newest + n \subseteq Silent'
  BY <1>1, NewRecords DEF Delivery
<1>4. QueueType' /\ CopyInv'
  BY <1>2, <1>3 DEF Delivery, QueueType, CopyInv
<1>5. QueueDiscipline'
  BY <1>2 DEF Delivery, QueueDiscipline
<1>6. ASSUME NEW a \in DOMAIN subs
      PROVE  Served(a, subs[a], Newest, Silent)'
  <2>1. subs[a] \in Queue /\ Served(a, subs[a], Newest, Silent)
        /\ replica[a] \in 0 .. Newest
    BY DEF Delivery, QueueType, CopyInv, QueueInv, Served
  <2>2. Ordered(subs[a], Newest')
    BY <2>1, <1>3, Messages DEF Served, Ordered
  <2>3. a \in broken /\ ~subs[a].resync => \E o \in Silent' : o > replica[a]
    BY <2>1, <1>3 DEF Served
  <2>4. a \notin broken /\ ~subs[a].resync =>
            Covers(subs[a], replica[a], Newest', Silent')
    <3>1. \A o \in (replica[a] + 1 .. Newest') \ Silent' :
              o \in (replica[a] + 1 .. Newest) \ Silent
      BY <2>1, <1>3
    <3> QED
      BY <3>1, <2>1 DEF Served, Covers
  <2> QED
    BY <2>2, <2>3, <2>4, <1>2 DEF Served
<1>7. QueueInv'
  BY <1>6, <1>2 DEF Served, QueueInv
<1> QED
  BY <1>3, <1>4, <1>5, <1>7 DEF Delivery

\* One queue when it and its client are told of new records.
LEMMA ToldQueue ==
    ASSUME Delivery, NEW n \in Nat, NEW entry \in Entry \ {"Branch", "Failed"},
           Records(n, entry), UNCHANGED <<replica, broken, published>>,
           NEW a \in DOMAIN subs,
           NEW r, r = Push(subs[a], Interval(Newest + 1, Newest + n))
    PROVE  /\ r \in Queue /\ Disciplined(r, published)
           /\ Served(a, r, Newest + n, Silent')
<1> DEFINE q == subs[a]
           old == q.messages
           ms == r.messages
<1>1. /\ Newest \in Nat /\ Newest' = Newest + n /\ Newest + n <= MaxOffset
      /\ Silent \subseteq Silent'
      /\ \A o \in Silent' : o \in Silent
  BY NewRecords DEF Delivery, Records
<1>2. /\ q \in Queue /\ Served(a, q, Newest, Silent) /\ Disciplined(q, published)
      /\ replica[a] \in 0 .. Newest
  BY DEF Delivery, QueueType, CopyInv, QueueInv, Served, QueueDiscipline,
     Disciplined, Frames
<1>3. Pushed(q, Newest, n, r)
  <2> DEFINE o == Interval(Newest + 1, Newest + n)
  <2>1. Newest + n <= MaxOffset /\ Newest \in Nat
    BY <1>1
  <2>2. /\ o \in Seq(Nat) /\ Len(o) = n
        /\ \A k \in 1 .. n : o[k] = Newest + k
    BY <2>1 DEF Interval
  <2>3. r = Push(q, o) /\ q \in Queue
    BY <1>2
  <2> HIDE DEF o, q
  <2> QED
    BY <2>1, <2>2, <2>3, PushPatches, Zenon
<1>4. CASE q.resync /\ r = q
  <2>1. Ordered(q, Newest + n)
    BY <1>1, <1>2, Messages DEF Served, Ordered
  <2> QED
    BY <1>1, <1>2, <1>3, <1>4, <2>1 DEF Served
<1>5. CASE ~q.resync /\ r = [messages |-> <<>>, resync |-> TRUE]
  BY <1>3, <1>5, ReplicationAssumption
  DEF Pushed, Disciplined, Frames, Served, Ordered
<1>6. CASE /\ ~q.resync /\ ~r.resync
           /\ Len(ms) = Len(old) + n
           /\ Len(ms) <= Capacity
           /\ \A k \in 1 .. Len(old) : ms[k] = old[k]
           /\ \A k \in 1 .. n :
                 ms[Len(old) + k] = [kind |-> "Patch", offset |-> Newest + k]
  <2>1. /\ Len(old) \in Nat /\ DOMAIN old = 1 .. Len(old)
        /\ DOMAIN ms = 1 .. Len(old) + n
        /\ \A k \in DOMAIN old : ms[k] = old[k]
        /\ \A k \in DOMAIN old : IsPatch(old[k]) => old[k].offset \in Nat
    <3>1. /\ Len(old) \in Nat /\ DOMAIN old = 1 .. Len(old)
          /\ DOMAIN ms = 1 .. Len(ms)
      BY <1>2, <1>3, Messages
    <3>2. \A k \in DOMAIN old : IsPatch(old[k]) => old[k].offset \in Nat
      BY <1>2, Messages, ReplicationAssumption
    <3> QED
      BY <3>1, <3>2, <1>6
  <2>2. \A k \in Len(old) + 1 .. Len(old) + n :
            IsPatch(ms[k]) /\ ms[k].offset = Newest + (k - Len(old))
    <3> TAKE k \in Len(old) + 1 .. Len(old) + n
    <3> DEFINE i == k - Len(old)
    <3>1. i \in 1 .. n /\ k = Len(old) + i
      BY <2>1, <1>1
    <3>2. ms[Len(old) + i] = [kind |-> "Patch", offset |-> Newest + i]
      BY <3>1, <1>6
    <3> QED
      BY <3>1, <3>2 DEF IsPatch
  <2>3. \A k \in DOMAIN ms :
            k \in DOMAIN old \/ k \in Len(old) + 1 .. Len(old) + n
    BY <2>1
  <2>4. Disciplined(r, published)
    <3>1. \A k \in DOMAIN ms : ~IsPatch(ms[k]) => k \in DOMAIN old
      BY <2>2, <2>3
    <3>2. \A i \in DOMAIN old : ~IsPatch(old[i]) =>
              /\ old[i].frame = published[old[i].view]
              /\ \A j \in DOMAIN old :
                    ~IsPatch(old[j]) /\ old[j].view = old[i].view => i = j
      BY <1>2 DEF Disciplined, Frames
    <3>3. Frames(r, published)
      BY <3>1, <3>2, <2>1 DEF Frames
    <3> QED
      BY <3>3, <1>6 DEF Disciplined
  <2>5. Ordered(r, Newest + n)
    <3> SUFFICES ASSUME NEW j \in DOMAIN ms, IsPatch(ms[j])
                 PROVE  /\ ms[j].offset <= Newest + n
                        /\ \A k \in DOMAIN ms :
                              IsPatch(ms[k]) /\ j < k =>
                                  ms[j].offset < ms[k].offset
      BY DEF Ordered
    <3>1. CASE j \in DOMAIN old
      <4>1. /\ ms[j] = old[j] /\ old[j].offset <= Newest
            /\ \A k \in DOMAIN old : IsPatch(old[k]) /\ j < k =>
                  old[j].offset < old[k].offset
        BY <3>1, <2>1, <1>2 DEF Served, Ordered
      <4>2. old[j].offset \in Nat /\ ms[j].offset <= Newest + n
        BY <4>1, <3>1, <2>1, <1>1
      <4>3. ASSUME NEW k \in Len(old) + 1 .. Len(old) + n
            PROVE  ms[j].offset < ms[k].offset
        <5>1. ms[k].offset = Newest + (k - Len(old))
          BY <4>3, <2>2
        <5>2. ms[j].offset \in Nat /\ ms[j].offset <= Newest
          BY <4>1, <4>2
        <5>3. k - Len(old) >= 1 /\ k - Len(old) \in Int
          BY <4>3, <2>1
        <5> HIDE DEF ms, old
        <5> QED
          BY <5>1, <5>2, <5>3, <1>1
      <4> QED
        BY <4>1, <4>2, <4>3, <2>1, <2>3
    <3>2. CASE j \in Len(old) + 1 .. Len(old) + n
      <4>1. ms[j].offset = Newest + (j - Len(old))
        BY <3>2, <2>2
      <4>2. \A k \in DOMAIN ms : j < k => k \in Len(old) + 1 .. Len(old) + n
        BY <3>2, <2>1
      <4>3. ASSUME NEW k \in DOMAIN ms, j < k
            PROVE  ms[j].offset < ms[k].offset
        <5>1. k \in Len(old) + 1 .. Len(old) + n
          BY <4>2, <4>3
        <5>2. ms[k].offset = Newest + (k - Len(old))
          BY <5>1, <2>2
        <5> QED
          BY <5>1, <5>2, <4>1, <4>3, <3>2, <2>1, <1>1, SMTT(30)
      <4>4. ms[j].offset <= Newest + n
        BY <4>1, <3>2, <2>1, <1>1
      <4> QED
        BY <4>3, <4>4
    <3> QED
      BY <3>1, <3>2, <2>3
  <2>6. a \notin broken => Covers(r, replica[a], Newest + n, Silent')
    <3> SUFFICES ASSUME a \notin broken,
                        NEW o \in (replica[a] + 1 .. Newest + n) \ Silent'
                 PROVE  \E k \in DOMAIN ms : IsPatch(ms[k]) /\ ms[k].offset = o
      BY DEF Covers
    <3>1. CASE o <= Newest
      <4>1. o \in (replica[a] + 1 .. Newest) \ Silent
        BY <3>1, <1>1, <1>2
      <4>2. PICK k \in DOMAIN old : IsPatch(old[k]) /\ old[k].offset = o
        BY <4>1, <1>2, <1>6 DEF Served, Covers
      <4>3. k \in DOMAIN ms
        BY <2>1, <1>1
      <4> QED
        BY <4>2, <4>3, <2>1
    <3>2. CASE ~(o <= Newest)
      <4> DEFINE k == Len(old) + (o - Newest)
      <4>1. k \in Len(old) + 1 .. Len(old) + n /\ k \in DOMAIN ms
            /\ Newest + (k - Len(old)) = o
        BY <3>2, <1>1, <1>2, <2>1, SMTT(30)
      <4> HIDE DEF k
      <4> QED
        BY <4>1, <2>2
    <3> QED
      BY <3>1, <3>2
  <2>7. a \in broken => \E o \in Silent' : o > replica[a]
    BY <1>1, <1>2, <1>6 DEF Served
  <2> QED
    BY <1>1, <1>3, <2>4, <2>5, <2>6, <2>7 DEF Served, Pushed
<1> QED
  BY <1>3, <1>4, <1>5, <1>6 DEF Pushed

\* Records that are told are queued, or the queue waits for a resync.
LEMMA TellsKeeps ==
    ASSUME Delivery, Tells
    PROVE  Delivery'
<1>1. PICK n \in Nat, entry \in Entry \ {"Branch", "Failed"} :
          Records(n, entry) /\ subs' = Replicated(Newest, Newest + n)
  BY DEF Tells
<1>2. UNCHANGED <<replica, broken, published>>
  BY DEF Tells, clients
<1>3. /\ DOMAIN subs' = DOMAIN subs
      /\ \A a \in DOMAIN subs :
            subs'[a] = Push(subs[a], Interval(Newest + 1, Newest + n))
  BY <1>1 DEF Replicated
<1>4. \A a \in DOMAIN subs :
          /\ subs'[a] \in Queue
          /\ Disciplined(subs'[a], published)
          /\ Served(a, subs'[a], Newest + n, Silent')
  BY <1>1, <1>2, <1>3, ToldQueue
<1>5. /\ log' \in Seq(LogRecord) /\ Len(log') <= MaxOffset
      /\ Newest \in Nat /\ Newest' = Newest + n /\ LineInv'
  BY <1>1, NewRecords DEF Delivery
<1>6. QueueType' /\ CopyInv'
  BY <1>2, <1>3, <1>4, <1>5 DEF Delivery, QueueType, CopyInv
<1>7. QueueDiscipline'
  BY <1>2, <1>3, <1>4 DEF QueueDiscipline, Disciplined, Frames
<1>8. QueueInv'
  BY <1>2, <1>3, <1>4, <1>5 DEF QueueInv, Served
<1> QED
  BY <1>5, <1>6, <1>7, <1>8 DEF Delivery

\* What holds of each subscriber, and what a step has to keep up for it.
LEMMA EachQueue ==
    ASSUME Delivery, NEW a \in DOMAIN subs
    PROVE  /\ a \in Actors /\ subs[a] \in Queue
           /\ Disciplined(subs[a], published)
           /\ Served(a, subs[a], Newest, Silent)
           /\ replica[a] \in 0 .. Newest
BY DEF Delivery, QueueType, CopyInv, QueueInv, Served, QueueDiscipline,
   Disciplined, Frames

\* A step between the server and one client keeps the others as they are.
OneClient(a) ==
    /\ UNCHANGED <<log, published>>
    /\ DOMAIN subs' \subseteq DOMAIN subs \cup {a}
    /\ \A b \in DOMAIN subs' \ {a} : subs'[b] = subs[b]
    /\ \A b \in Actors \ {a} : replica'[b] = replica[b]
    /\ \A b \in Actors \ {a} : b \in broken' <=> b \in broken

\* A step with one client has to be looked at for this client only.
LEMMA OneClientKeeps ==
    ASSUME Delivery, NEW a \in Actors, OneClient(a),
           replica' \in [Actors -> 0 .. MaxOffset \cup {None}],
           broken' \subseteq Actors,
           replica'[a] \in 0 .. Newest \cup {None},
           a \in DOMAIN subs' =>
               /\ subs'[a] \in Queue
               /\ Disciplined(subs'[a], published)
               /\ replica'[a] # None
               /\ Ordered(subs'[a], Newest)
               /\ ~subs'[a].resync =>
                    IF a \in broken' THEN \E o \in Silent : o > replica'[a]
                    ELSE Covers(subs'[a], replica'[a], Newest, Silent)
    PROVE  Delivery'
<1>1. Newest' = Newest /\ Silent' = Silent /\ UNCHANGED <<log, published>>
  BY DEF OneClient, Newest, Silent
<1>2. \A b \in DOMAIN subs' \ {a} :
          /\ b \in DOMAIN subs /\ b \in Actors /\ subs'[b] = subs[b]
          /\ replica'[b] = replica[b] /\ (b \in broken' <=> b \in broken)
  BY DEF OneClient, Delivery, QueueType
<1>3. QueueType' /\ LineInv' /\ CopyInv'
  BY <1>1, <1>2 DEF Delivery, QueueType, LineInv, CopyInv, OneClient
<1>4. QueueDiscipline'
  BY <1>1, <1>2 DEF Delivery, QueueDiscipline, Disciplined, Frames
<1>5. QueueInv'
  BY <1>1, <1>2 DEF Delivery, QueueInv
<1> QED
  BY <1>3, <1>4, <1>5 DEF Delivery

\* The resync request brings a copy that lacks nothing.
LEMMA ResyncKeeps ==
    ASSUME Delivery, NEW a \in Actors, Resync(a)
    PROVE  Delivery'
<1>1. /\ Newest \in Nat /\ Newest <= MaxOffset /\ MaxOffset \in Nat
      /\ replica \in [Actors -> 0 .. MaxOffset \cup {None}]
      /\ broken \subseteq Actors
      /\ None \notin Nat
  BY ReplicationAssumption DEF Delivery, QueueType, Newest
<1>2. /\ replica' = [replica EXCEPT ![a] = Newest]
      /\ broken' = broken \ {a} /\ subs' = subs
  BY DEF Resync
<1>3. OneClient(a)
  BY <1>1, <1>2 DEF OneClient, Resync
<1>4. /\ replica' \in [Actors -> 0 .. MaxOffset \cup {None}]
      /\ broken' \subseteq Actors
      /\ replica'[a] = Newest /\ a \notin broken'
  BY <1>1, <1>2
<1>5. ASSUME a \in DOMAIN subs'
      PROVE  /\ subs'[a] \in Queue
             /\ Disciplined(subs'[a], published)
             /\ Ordered(subs'[a], Newest)
  BY <1>2, <1>5, EachQueue DEF Served
<1>6. a \in DOMAIN subs' => Covers(subs'[a], Newest, Newest, Silent)
  BY <1>1 DEF Covers
<1> QED
  BY <1>1, <1>3, <1>4, <1>5, <1>6, OneClientKeeps

\* The first queue of a subscriber holds what its copy lacks.
LEMMA SubscribeKeeps ==
    ASSUME Delivery, NEW a \in Actors, NEW last \in {None, replica[a]},
           Subscribe(a, last)
    PROVE  Delivery'
<1> DEFINE fresh == last = None
           from  == IF fresh THEN Newest ELSE last
           q     == [messages |-> <<>>, resync |-> FALSE]
           o     == Interval(from + 1, Newest)
           r     == Push(q, o)
           n     == Newest - from
<1>1. /\ Newest \in Nat /\ Newest <= MaxOffset /\ MaxOffset \in Nat
      /\ replica \in [Actors -> 0 .. MaxOffset \cup {None}]
      /\ replica[a] \in 0 .. Newest \cup {None}
      /\ broken \subseteq Actors
      /\ None \notin Nat
  BY ReplicationAssumption DEF Delivery, QueueType, CopyInv, Newest
<1>2. /\ from \in 0 .. Newest /\ n \in Nat /\ from + n = Newest
      /\ replica' = IF fresh THEN [replica EXCEPT ![a] = Newest] ELSE replica
      /\ broken' = broken \ {a}
  BY <1>1 DEF Subscribe
<1>3. /\ replica' \in [Actors -> 0 .. MaxOffset \cup {None}]
      /\ broken' \subseteq Actors
      /\ replica'[a] = from /\ a \notin broken'
      /\ \A b \in Actors \ {a} : replica'[b] = replica[b]
  BY <1>1, <1>2
<1>4. /\ DOMAIN subs' = DOMAIN subs \cup {a}
      /\ \A b \in DOMAIN subs \ {a} : subs'[b] = subs[b]
      /\ subs'[a] = r
  <2>1. subs' = [b \in DOMAIN subs \cup {a} |->
                    IF b # a THEN subs[b] ELSE r]
    BY DEF Subscribe
  <2> QED
    BY <2>1
<1>5. OneClient(a)
  <2>1. UNCHANGED <<log, published>>
    BY DEF Subscribe
  <2> QED
    BY <2>1, <1>2, <1>3, <1>4 DEF OneClient
<1>6. Pushed(q, from, n, r)
  <2>1. q \in Queue
    BY DEF Queue
  <2>2. o \in Seq(Nat) /\ Len(o) = n /\ \A k \in 1 .. n : o[k] = from + k
    <3>1. from \in Nat /\ Newest \in Nat /\ n \in Nat
          /\ (Newest + 1) - (from + 1) = n
      BY <1>1, <1>2
    <3> HIDE DEF from, n
    <3>2. o = [k \in 1 .. n |-> from + 1 + k - 1]
      BY <3>1 DEF Interval
    <3> HIDE DEF o
    <3> QED
      BY <3>1, <3>2
  <2>3. from \in Nat /\ from + n <= MaxOffset
    BY <1>1, <1>2
  <2> HIDE DEF q, o, from, n
  <2> QED
    BY <1>2, <2>1, <2>2, <2>3, PushPatches, Zenon
<1>7. /\ r \in Queue
      /\ \/ r = [messages |-> <<>>, resync |-> TRUE]
         \/ /\ ~r.resync /\ Len(r.messages) = n /\ n <= Capacity
            /\ \A k \in 1 .. n : r.messages[k] =
                  [kind |-> "Patch", offset |-> from + k]
  <2> HIDE DEF o, from, n, r
  <2>1. q.messages = <<>> /\ ~q.resync /\ Len(q.messages) = 0
    OBVIOUS
  <2> QED
    BY <1>2, <1>6, <2>1 DEF Pushed
<1>8. Disciplined(r, published) /\ Ordered(r, Newest)
      /\ (~r.resync => Covers(r, from, Newest, Silent))
  <2> HIDE DEF r, from
  <2>1. CASE r = [messages |-> <<>>, resync |-> TRUE]
    BY <2>1, ReplicationAssumption DEF Disciplined, Frames, Ordered
  <2>2. CASE /\ ~r.resync /\ Len(r.messages) = n /\ n <= Capacity
             /\ \A k \in 1 .. n : r.messages[k] =
                   [kind |-> "Patch", offset |-> from + k]
    <3>1. DOMAIN r.messages = 1 .. n
      BY <1>7, <2>2, Messages
    <3>2. \A k \in 1 .. n : IsPatch(r.messages[k])
                            /\ r.messages[k].offset = from + k
      <4> TAKE k \in 1 .. n
      <4>1. r.messages[k] = [kind |-> "Patch", offset |-> from + k]
        BY <2>2
      <4> HIDE DEF n
      <4> QED
        BY <4>1 DEF IsPatch
    <3>3. Disciplined(r, published)
      BY <2>2, <3>1, <3>2 DEF Disciplined, Frames
    <3>4. Ordered(r, Newest)
      BY <1>1, <1>2, <3>1, <3>2 DEF Ordered
    <3>5. Covers(r, from, Newest, Silent)
      <4> SUFFICES ASSUME NEW x \in from + 1 .. Newest
                   PROVE  \E k \in 1 .. n : IsPatch(r.messages[k])
                                            /\ r.messages[k].offset = x
        BY <3>1 DEF Covers
      <4> DEFINE k == x - from
      <4>1. k \in 1 .. n /\ from + k = x
        BY <1>1, <1>2
      <4> HIDE DEF k
      <4> QED
        BY <4>1, <3>2
    <3> QED
      BY <3>3, <3>4, <3>5
  <2> QED
    BY <1>7, <2>1, <2>2
<1>9. from \in 0 .. Newest \cup {None} /\ from # None
  BY <1>1, <1>2
<1> HIDE DEF r, from
<1> QED
  BY <1>3, <1>4, <1>5, <1>7, <1>8, <1>9, OneClientKeeps

\* Without its first message a queue is as disciplined and as ordered, and the
\* others wait in it.
LEMMA TailQueue ==
    ASSUME NEW q \in Queue, q.messages # <<>>, ~q.resync,
           NEW pub, Disciplined(q, pub), NEW newest, Ordered(q, newest),
           NEW r, r = [q EXCEPT !.messages = Tail(@)]
    PROVE  /\ r \in Queue /\ ~r.resync
           /\ Disciplined(r, pub) /\ Ordered(r, newest)
           /\ \A k \in DOMAIN q.messages \ {1} :
                 \E i \in DOMAIN r.messages : r.messages[i] = q.messages[k]
<1> DEFINE ms == q.messages
           tail == Tail(ms)
           M == PatchMessage \cup FrameMessage
<1>1. ms \in Seq(M) /\ ms # <<>> /\ Len(ms) \in Nat /\ DOMAIN ms = 1 .. Len(ms)
  BY Messages
<1>2. /\ tail \in Seq(M) /\ Len(tail) = Len(ms) - 1
      /\ \A i \in 1 .. Len(tail) : tail[i] = ms[i + 1]
  BY <1>1, HeadTailProperties
<1>3. r \in Queue /\ r.messages = tail /\ ~r.resync
  BY <1>1, <1>2 DEF Queue
<1>4. /\ DOMAIN tail = 1 .. Len(ms) - 1 /\ Len(tail) \in Nat
      /\ \A i \in DOMAIN tail : i + 1 \in DOMAIN ms /\ tail[i] = ms[i + 1]
  BY <1>1, <1>2
<1> HIDE DEF ms, tail, M
<1>5. Disciplined(r, pub)
  <2>1. Len(ms) <= Capacity /\ Len(tail) <= Capacity
    BY <1>1, <1>2, ReplicationAssumption DEF Disciplined, ms
  <2>2. \A i \in DOMAIN ms : ~IsPatch(ms[i]) =>
            /\ ms[i].frame = pub[ms[i].view]
            /\ \A j \in DOMAIN ms :
                  ~IsPatch(ms[j]) /\ ms[j].view = ms[i].view => i = j
    BY DEF Disciplined, Frames, ms
  <2>3. ASSUME NEW i \in DOMAIN tail, ~IsPatch(tail[i])
        PROVE  tail[i].frame = pub[tail[i].view]
    BY <1>4, <2>2, <2>3
  <2>4. ASSUME NEW i \in DOMAIN tail, ~IsPatch(tail[i]),
               NEW j \in DOMAIN tail, ~IsPatch(tail[j]),
               tail[j].view = tail[i].view
        PROVE  i = j
    <3>1. i + 1 = j + 1
      BY <1>4, <2>2, <2>4
    <3> QED
      BY <3>1, <1>4, <1>1
  <2> QED
    <3>1. \A i \in DOMAIN tail : ~IsPatch(tail[i]) =>
              /\ tail[i].frame = pub[tail[i].view]
              /\ \A j \in DOMAIN tail :
                    ~IsPatch(tail[j]) /\ tail[j].view = tail[i].view => i = j
      BY <2>3, <2>4
    <3>2. Frames(r, pub)
      BY <1>3, <3>1, SMTT(30) DEF Frames
    <3> QED
      BY <1>3, <2>1, <3>2 DEF Disciplined
<1>6. Ordered(r, newest)
  <2>1. \A j \in DOMAIN ms : IsPatch(ms[j]) =>
            /\ ms[j].offset <= newest
            /\ \A k \in DOMAIN ms :
                  IsPatch(ms[k]) /\ j < k => ms[j].offset < ms[k].offset
    BY DEF Ordered, ms
  <2>2. \A j, k \in DOMAIN tail : j < k => j + 1 < k + 1
    BY <1>4, <1>1
  <2> QED
    BY <1>3, <1>4, <2>1, <2>2 DEF Ordered
<1>7. \A k \in DOMAIN ms \ {1} : k - 1 \in DOMAIN tail /\ tail[k - 1] = ms[k]
  <2> TAKE k \in DOMAIN ms \ {1}
  <2>1. k - 1 \in DOMAIN tail /\ (k - 1) + 1 = k
    BY <1>1, <1>4
  <2> QED
    BY <1>4, <2>1
<1> QED
  BY <1>3, <1>5, <1>6, <1>7 DEF ms

\* A patch that a copy cannot use follows a record no one was told of.
LEMMA PollKeeps ==
    ASSUME Delivery, NEW a \in DOMAIN subs, Poll(a)
    PROVE  Delivery'
<1> DEFINE q == subs[a]
           ms == q.messages
           x == ms[1].offset
<1>1. /\ log \in Seq(LogRecord) /\ DOMAIN log = 1 .. Newest
      /\ Newest \in Nat /\ Newest <= MaxOffset /\ MaxOffset \in Nat
      /\ replica \in [Actors -> 0 .. MaxOffset \cup {None}]
      /\ broken \subseteq Actors
      /\ None \notin Nat
  BY ReplicationAssumption DEF Delivery, QueueType, Newest
<1>2. /\ a \in Actors /\ q \in Queue /\ Disciplined(q, published)
      /\ Served(a, q, Newest, Silent) /\ Ordered(q, Newest)
      /\ replica[a] \in 0 .. Newest
  BY EachQueue DEF Served
<1>3. UNCHANGED <<log, published>>
  BY DEF Poll
<1>4. CASE q.resync
  <2>1. /\ subs' = [subs EXCEPT ![a].resync = FALSE]
        /\ replica' = [replica EXCEPT ![a] = Newest]
        /\ broken' = broken \ {a}
    BY <1>4 DEF Poll
  <2>2. OneClient(a)
    BY <1>1, <1>3, <2>1 DEF OneClient
  <2>3. /\ subs'[a] \in Queue /\ subs'[a].messages = ms /\ ~subs'[a].resync
    BY <1>2, <2>1 DEF Queue
  <2>4. Disciplined(subs'[a], published) /\ Ordered(subs'[a], Newest)
    BY <1>2, <2>3 DEF Disciplined, Frames, Ordered
  <2>5. /\ replica' \in [Actors -> 0 .. MaxOffset \cup {None}]
        /\ broken' \subseteq Actors
        /\ replica'[a] = Newest /\ a \notin broken'
    BY <1>1, <1>2, <2>1
  <2>6. Covers(subs'[a], Newest, Newest, Silent)
    BY <1>1 DEF Covers
  <2> QED
    BY <1>1, <1>2, <2>2, <2>3, <2>4, <2>5, <2>6, OneClientKeeps
<1>5. CASE ~q.resync
  <2>1. /\ ms # <<>>
        /\ subs' = [subs EXCEPT ![a].messages = Tail(@)]
        /\ IF IsPatch(ms[1]) THEN Receive(a, x) ELSE UNCHANGED clients
    BY <1>5 DEF Poll
  <2>2. subs'[a] = [q EXCEPT !.messages = Tail(@)]
    BY <2>1
  <2>3. /\ subs'[a] \in Queue /\ ~subs'[a].resync
        /\ Disciplined(subs'[a], published) /\ Ordered(subs'[a], Newest)
        /\ \A k \in DOMAIN ms \ {1} :
              \E i \in DOMAIN subs'[a].messages :
                  subs'[a].messages[i] = ms[k]
    BY <1>2, <1>5, <2>1, <2>2, TailQueue
  <2>4. /\ a \in broken => \E o \in Silent : o > replica[a]
        /\ a \notin broken => Covers(q, replica[a], Newest, Silent)
    BY <1>2, <1>5 DEF Served
  <2>5. SUFFICES /\ replica' \in [Actors -> 0 .. MaxOffset \cup {None}]
                 /\ broken' \subseteq Actors
                 /\ replica'[a] \in 0 .. Newest
                 /\ \A b \in Actors \ {a} : replica'[b] = replica[b]
                 /\ \A b \in Actors \ {a} : b \in broken' <=> b \in broken
                 /\ IF a \in broken' THEN \E o \in Silent : o > replica'[a]
                    ELSE Covers(subs'[a], replica'[a], Newest, Silent)
    <3>1. /\ DOMAIN subs' = DOMAIN subs
          /\ \A b \in DOMAIN subs \ {a} : subs'[b] = subs[b]
      BY <2>1
    <3>2. SUFFICES OneClient(a)
      BY <1>1, <1>2, <2>3, OneClientKeeps
    <3> QED
      BY <1>3, <3>1 DEF OneClient
  <2>6. CASE ~IsPatch(ms[1])
    <3>1. UNCHANGED <<replica, broken>>
      BY <2>1, <2>6 DEF clients
    <3>2. a \notin broken => Covers(subs'[a], replica[a], Newest, Silent)
      BY <2>3, <2>4, <2>6 DEF Covers
    <3> QED
      BY <1>1, <1>2, <2>4, <3>1, <3>2
  <2>7. CASE IsPatch(ms[1])
    <3>1. /\ 1 \in DOMAIN ms /\ x \in 1 .. Newest
          /\ \A k \in DOMAIN ms \ {1} :
                IsPatch(ms[k]) => x < ms[k].offset /\ ms[k].offset \in Nat
      <4>1. /\ DOMAIN ms = 1 .. Len(ms) /\ Len(ms) \in Nat /\ Len(ms) # 0
            /\ ms \in Seq(PatchMessage \cup FrameMessage)
        BY <1>2, <2>1, Messages, EmptySeq
      <4>2. 1 \in DOMAIN ms /\ \A k \in DOMAIN ms \ {1} : 1 < k
        BY <4>1
      <4>3. /\ x <= Newest /\ x \in 1 .. MaxOffset
            /\ \A k \in DOMAIN ms \ {1} : IsPatch(ms[k]) => x < ms[k].offset
        BY <1>2, <2>7, <4>2, Messages DEF Ordered
      <4>4. \A k \in DOMAIN ms : IsPatch(ms[k]) => ms[k].offset \in 1 .. MaxOffset
        BY <1>2, Messages
      <4> QED
        BY <1>1, <4>2, <4>3, <4>4
    <3>2. Receive(a, x)
      BY <2>1, <2>7
    <3>3. CASE a \in broken
      <4>1. UNCHANGED <<replica, broken>>
        BY <3>2, <3>3 DEF Receive, clients
      <4> QED
        BY <1>1, <1>2, <2>4, <3>3, <4>1
    <3>4. CASE a \notin broken /\ x <= replica[a]
      <4>1. UNCHANGED <<replica, broken>>
        BY <1>1, <1>2, <3>2, <3>4 DEF Receive, clients
      <4>2. Covers(subs'[a], replica[a], Newest, Silent)
        <5> SUFFICES ASSUME NEW o \in (replica[a] + 1 .. Newest) \ Silent
                     PROVE  \E i \in DOMAIN subs'[a].messages :
                               /\ IsPatch(subs'[a].messages[i])
                               /\ subs'[a].messages[i].offset = o
          BY DEF Covers
        <5>1. PICK k \in DOMAIN ms : IsPatch(ms[k]) /\ ms[k].offset = o
          BY <2>4, <3>4 DEF Covers
        <5>2. k # 1
          BY <5>1, <3>1, <3>4, <1>1, <1>2
        <5> QED
          BY <5>1, <5>2, <2>3
      <4> QED
        BY <1>1, <1>2, <3>4, <4>1, <4>2
    <3>5. CASE a \notin broken /\ ~(x <= replica[a]) /\ log[x].base = replica[a]
      <4>1. replica' = [replica EXCEPT ![a] = x] /\ broken' = broken
        BY <3>2, <3>5 DEF Receive
      <4>2. Covers(subs'[a], x, Newest, Silent)
        <5> SUFFICES ASSUME NEW o \in (x + 1 .. Newest) \ Silent
                     PROVE  \E i \in DOMAIN subs'[a].messages :
                               /\ IsPatch(subs'[a].messages[i])
                               /\ subs'[a].messages[i].offset = o
          BY DEF Covers
        <5>1. o \in (replica[a] + 1 .. Newest) \ Silent /\ o # x
          BY <1>1, <1>2, <3>1, <3>5
        <5>2. PICK k \in DOMAIN ms : IsPatch(ms[k]) /\ ms[k].offset = o
          BY <2>4, <3>5, <5>1 DEF Covers
        <5>3. k # 1
          BY <5>1, <5>2
        <5> QED
          BY <5>2, <5>3, <2>3
      <4>3. /\ replica' \in [Actors -> 0 .. MaxOffset \cup {None}]
            /\ replica'[a] = x /\ x \in 0 .. Newest
            /\ \A b \in Actors \ {a} : replica'[b] = replica[b]
        BY <1>1, <1>2, <3>1, <4>1
      <4> HIDE DEF x
      <4> QED
        BY <1>1, <1>2, <3>5, <4>1, <4>2, <4>3
    <3>6. CASE a \notin broken /\ ~(x <= replica[a]) /\ log[x].base # replica[a]
      <4>1. broken' = broken \cup {a} /\ replica' = replica
        BY <3>2, <3>6 DEF Receive
      <4>2. \E o \in Silent : o > replica[a]
        <5> DEFINE next == replica[a] + 1
        <5>1. next \in 1 .. Newest /\ next > replica[a] /\ next <= x
          BY <1>1, <1>2, <3>1, <3>6
        <5>2. CASE next \in Silent
          BY <5>1, <5>2
        <5>3. CASE next \notin Silent
          <6>1. PICK k \in DOMAIN ms : IsPatch(ms[k]) /\ ms[k].offset = next
            BY <2>4, <3>6, <5>1, <5>3 DEF Covers
          <6>2. k = 1
            BY <6>1, <5>1, <3>1, <1>1
          <6>3. x = next /\ x \in DOMAIN log /\ log[x].base # x - 1
            BY <6>1, <6>2, <5>1, <3>6, <1>1, <1>2
          <6>4. log[x].entry = "Branch"
            BY <6>3 DEF Delivery, LineInv
          <6> QED
            BY <6>3, <6>4, <5>3 DEF Silent
        <5> QED
          BY <5>2, <5>3
      <4> QED
        BY <1>1, <1>2, <4>1, <4>2
    <3> QED
      BY <3>3, <3>4, <3>5, <3>6
  <2> QED
    BY <2>6, <2>7
<1> QED
  BY <1>4, <1>5

\* A frame moves no patch.
LEMMA PublishKeeps ==
    ASSUME Delivery, NEW view \in Views, Publish(view)
    PROVE  Delivery'
<1> DEFINE f == published[view] + 1
<1>1. /\ f \in 1 .. MaxFrames
      /\ published \in [Views -> 0 .. MaxFrames]
      /\ published' = [published EXCEPT ![view] = f]
      /\ published' \in [Views -> 0 .. MaxFrames]
  BY ReplicationAssumption DEF Delivery, QueueType, Publish
<1>2. /\ DOMAIN subs' = DOMAIN subs
      /\ \A a \in DOMAIN subs : subs'[a] = PushFrame(subs[a], view, f)
  BY DEF Publish
<1>3. /\ UNCHANGED <<log, replica, broken>>
      /\ Newest' = Newest /\ Silent' = Silent
  BY DEF Publish, clients, Newest, Silent
<1> HIDE DEF f
<1>4. ASSUME NEW a \in DOMAIN subs
      PROVE  /\ subs'[a] \in Queue
             /\ Disciplined(subs'[a], published')
             /\ Ordered(subs'[a], Newest)
             /\ ~subs'[a].resync =>
                  IF a \in broken THEN \E o \in Silent : o > replica[a]
                  ELSE Covers(subs'[a], replica[a], Newest, Silent)
  <2> DEFINE q == subs[a]
             r == subs'[a]
  <2>1. /\ q \in Queue /\ Disciplined(q, published)
        /\ Served(a, q, Newest, Silent)
    BY EachQueue
  <2>2. Frames(q, published) /\ Len(q.messages) <= Capacity
        /\ r = PushFrame(q, view, f)
    BY <1>2, <2>1 DEF Disciplined
  <2> HIDE DEF q, r
  <2>3. /\ r \in Queue /\ r.resync = q.resync
        /\ Len(r.messages) <= Capacity
        /\ Frames(r, published')
        /\ \A k \in DOMAIN q.messages : IsPatch(q.messages[k]) =>
              k \in DOMAIN r.messages /\ r.messages[k] = q.messages[k]
        /\ \A k \in DOMAIN r.messages : IsPatch(r.messages[k]) =>
              k \in DOMAIN q.messages /\ r.messages[k] = q.messages[k]
    <3>1. /\ view \in Views /\ f \in 1 .. MaxFrames
          /\ published \in [Views -> 0 .. MaxFrames]
          /\ q \in Queue /\ Frames(q, published)
          /\ Len(q.messages) <= Capacity /\ r = PushFrame(q, view, f)
      BY <1>1, <2>1, <2>2
    <3>2. Framed(q, [published EXCEPT ![view] = f], r)
      BY <3>1, PushOneFrame, Zenon
    <3> QED
      BY <1>1, <3>2 DEF Framed
  <2>4. Disciplined(r, published')
    BY <2>1, <2>3 DEF Disciplined
  <2>5. Ordered(r, Newest)
    <3>1. \A j \in DOMAIN q.messages : IsPatch(q.messages[j]) =>
              /\ q.messages[j].offset <= Newest
              /\ \A k \in DOMAIN q.messages :
                    IsPatch(q.messages[k]) /\ j < k =>
                        q.messages[j].offset < q.messages[k].offset
      BY <2>1 DEF Served, Ordered
    <3> QED
      BY <2>3, <3>1 DEF Ordered
  <2>6. ASSUME ~r.resync, a \notin broken
        PROVE  Covers(r, replica[a], Newest, Silent)
    <3>1. Covers(q, replica[a], Newest, Silent)
      BY <2>1, <2>3, <2>6 DEF Served
    <3> QED
      BY <2>3, <3>1 DEF Covers
  <2>7. ~r.resync /\ a \in broken => \E o \in Silent : o > replica[a]
    BY <2>1, <2>3 DEF Served
  <2> QED
    BY <2>3, <2>4, <2>5, <2>6, <2>7 DEF r
<1>5. QueueType' /\ LineInv' /\ CopyInv'
  BY <1>1, <1>2, <1>3, <1>4 DEF Delivery, QueueType, LineInv, CopyInv
<1>6. QueueDiscipline'
  BY <1>2, <1>4 DEF QueueDiscipline, Disciplined, Frames
<1>7. QueueInv'
  BY <1>2, <1>3, <1>4 DEF QueueInv
<1> QED
  BY <1>5, <1>6, <1>7 DEF Delivery

-----------------------------------------------------------------------------
(* The commands. *)

\* The receipts that n records add.
LEMMA NewReceipts ==
    ASSUME TypeOK, NEW n \in Nat, NEW entry \in Entry, Records(n, entry)
    PROVE  /\ Receipts \subseteq Receipts'
           /\ Receipts' \subseteq Receipts \cup ({entry} \cap Commands)
           /\ n > 0 /\ entry \in Commands => entry \in Receipts'
<1>1. /\ Newest \in Nat /\ DOMAIN log = 1 .. Newest
      /\ DOMAIN log' = 1 .. Newest + n
      /\ \A o \in 1 .. Newest : log'[o].entry = log[o].entry
  BY DEF TypeOK, Records, Newest
<1>2. \A o \in Newest + 1 .. Newest + n : log'[o].entry = entry
  <2> TAKE o \in Newest + 1 .. Newest + n
  <2> DEFINE k == o - Newest
  <2>1. k \in 1 .. n /\ o = Newest + k
    BY <1>1
  <2>2. log'[Newest + k].entry = entry
    BY <2>1 DEF Records
  <2> QED
    BY <2>1, <2>2
<1>3. \A o \in DOMAIN log' : o \in 1 .. Newest \/ o \in Newest + 1 .. Newest + n
  BY <1>1
<1>4. DOMAIN log \subseteq DOMAIN log'
  BY <1>1
<1>5. n > 0 => Newest + 1 \in DOMAIN log' /\ log'[Newest + 1].entry = entry
  BY <1>1, <1>2
<1> QED
  BY <1>1, <1>2, <1>3, <1>4, <1>5 DEF Receipts

\* A step that runs no command and writes no receipt.
LEMMA NoCommandKeeps ==
    ASSUME CommandInv, UNCHANGED <<seen, executed, running>>, Receipts' = Receipts
    PROVE  CommandInv'
BY DEF CommandInv

\* The entries that are no receipts.
LEMMA PlainRecords ==
    ASSUME TypeOK, NEW n \in Nat, NEW entry \in Entry \ Commands,
           Records(n, entry)
    PROVE  Receipts' = Receipts
BY NewReceipts

\* Turns and tools write no receipt.
LEMMA PlainWork ==
    ASSUME TypeOK, NEW n \in Nat, NEW ok \in BOOLEAN, Work(n, ok),
           UNCHANGED <<clients, published>>
    PROVE  Receipts' = Receipts
<1>1. "Work" \in Entry \ Commands /\ "Failed" \in Entry \ Commands
  BY ReplicationAssumption DEF Entry
<1> QED
  BY <1>1, WorkKinds, PlainRecords

\* Ids seen, receipts and runs keep step, one case for each action.
LEMMA CommandKeeps ==
    ASSUME TypeOK, CommandInv, [Next]_vars
    PROVE  CommandInv'
<1> USE DEF clients, service
<1>0. /\ executed \in [Commands -> Nat] /\ seen \subseteq Commands
      /\ running \in Commands \cup {None} /\ None \notin Commands
      /\ Receipts \subseteq Commands
  BY ReplicationAssumption DEF TypeOK, Receipts
<1>1. CASE UNCHANGED <<log, seen, executed, running>>
  <2>1. Receipts' = Receipts
    BY <1>1 DEF Receipts
  <2> QED
    BY <1>1, <2>1, NoCommandKeeps
<1>2. ASSUME NEW a \in Actors, Handshake(a)
      PROVE  CommandInv'
  <2>1. CASE Submit(a)
    <3>1. a \in Entry \ Commands /\ a \in Entry \ {"Branch", "Failed"}
      BY ReplicationAssumption DEF Entry
    <3>2. Records(1, a)
      BY <1>2, <2>1, <3>1, SubmitTells DEF Handshake
    <3>3. Receipts' = Receipts
      BY <3>1, <3>2, PlainRecords
    <3> QED
      BY <1>2, <3>3, NoCommandKeeps DEF Handshake
  <2> QED
    BY <1>1, <1>2, <2>1 DEF Handshake
<1>3. CASE Edits
  <2>1. "Work" \in Entry \ Commands /\ "Work" \in Entry \ {"Branch", "Failed"}
    BY ReplicationAssumption DEF Entry
  <2>2. Submit("Work") /\ UNCHANGED <<clients, published, seen, executed, running>>
    BY <1>3 DEF Edits, SubmitPatch, ChangeConvar, RegisterArtifact, Write
  <2>3. Records(1, "Work")
    BY <2>1, <2>2, SubmitTells
  <2>4. Receipts' = Receipts
    BY <2>1, <2>3, PlainRecords
  <2> QED
    BY <2>2, <2>4, NoCommandKeeps
<1>4. CASE Works
  <2>1. PICK n \in 1 .. MaxBurst, ok \in BOOLEAN, a \in Actors :
            Turn(a, n, ok) \/ WriteWorkspace(a, n, ok)
    BY <1>4 DEF Works
  <2>2. Work(n, ok) /\ UNCHANGED <<clients, published, seen, executed, running>>
    BY <2>1 DEF Turn, WriteWorkspace
  <2>3. Receipts' = Receipts
    BY <2>2, PlainWork, ReplicationAssumption
  <2> QED
    BY <2>2, <2>3, NoCommandKeeps
<1>5. CASE SubmitSome
  <2>1. PICK a \in Actors, c \in Commands : SubmitCommand(a, c)
    BY <1>5 DEF SubmitSome
  <2>2. /\ Submit(c) /\ c \notin seen /\ running = None
        /\ seen' = seen \cup {c} /\ running' = c
        /\ executed' = executed /\ UNCHANGED <<clients, published>>
    BY <2>1 DEF SubmitCommand, Free
  <2>3. c \in Entry \ {"Branch", "Failed"} /\ c \in Entry
    BY ReplicationAssumption DEF Entry
  <2>4. Records(1, c)
    BY <2>2, <2>3, SubmitTells
  <2>5. Receipts' = Receipts \cup {c}
    BY <2>3, <2>4, NewReceipts
  <2> QED
    BY <1>0, <2>2, <2>5 DEF CommandInv
<1>6. CASE ExecuteSome
  <2>1. PICK n \in 0 .. MaxBurst, ok \in BOOLEAN : Execute(n, ok)
    BY <1>6 DEF ExecuteSome
  <2>2. /\ running # None /\ running' = None /\ seen' = seen
        /\ executed' = [executed EXCEPT ![running] = @ + 1]
        /\ Work(n, ok) /\ UNCHANGED <<clients, published>>
    BY <2>1 DEF Execute
  <2>3. Receipts' = Receipts
    BY <2>2, PlainWork, ReplicationAssumption
  <2>4. running \in Receipts /\ executed[running] = 0
    BY <2>2 DEF CommandInv
  <2>5. \A c \in Commands :
            executed'[c] = IF c = running THEN 1 ELSE executed[c]
    BY <1>0, <2>2, <2>4
  <2> QED
    BY <1>0, <2>2, <2>3, <2>4, <2>5 DEF CommandInv
<1>7. CASE BackgroundSome
  <2>1. PICK n \in 1 .. MaxBurst : Background(n)
    BY <1>7 DEF BackgroundSome
  <2>2. /\ n \in Nat /\ TRUE \in BOOLEAN /\ Work(n, TRUE)
        /\ UNCHANGED <<clients, published>>
        /\ UNCHANGED <<seen, executed, running>>
    <3>1. n \in Nat /\ TRUE \in BOOLEAN
      BY ReplicationAssumption
    <3> QED
      BY <2>1, <3>1 DEF Background
  <2>3. Receipts' = Receipts
    <3> HIDE DEF clients
    <3> QED
      BY <2>2, PlainWork, Zenon
  <2> QED
    BY <2>2, <2>3, NoCommandKeeps
<1>8. CASE BranchSome
  <2>1. PICK a \in Actors, offset \in 0 .. Newest : Branch(a, offset)
    BY <1>8 DEF BranchSome
  <2>2. "Branch" \in Entry \ Commands
    BY ReplicationAssumption DEF Entry
  <2>3. Receipts' = Receipts
    BY <2>1, <2>2, BranchHides, PlainRecords
  <2> QED
    BY <2>1, <2>3, NoCommandKeeps DEF Branch
<1>9. CASE Restart
  <2>1. /\ seen' = Receipts /\ running' = None
        /\ UNCHANGED <<log, executed>>
    BY <1>9 DEF Restart
  <2>2. Receipts' = Receipts
    BY <2>1 DEF Receipts
  <2> QED
    BY <2>1, <2>2 DEF CommandInv
<1>10. CASE \/ TerminateSome \/ PublishSome \/ PollSome
            \/ \E a \in Actors : \/ Disconnect(a) \/ Resync(a)
                                 \/ \E b \in Actors : Detach(a, b)
                                 \/ \E last \in {None, replica[a]} : Subscribe(a, last)
  BY <1>1, <1>10 DEF TerminateSome, Terminate, PublishSome, Publish, PollSome,
     Poll, Disconnect, Resync, Detach, Subscribe
<1>11. CASE UNCHANGED vars
  BY <1>1, <1>11 DEF vars
<1> QED
  BY <1>2, <1>3, <1>4, <1>5, <1>6, <1>7, <1>8, <1>9, <1>10, <1>11
  DEF Next, Session

-----------------------------------------------------------------------------
(* The invariant holds initially and is kept. *)

\* Every kind of step keeps the delivery.
LEMMA DeliveryKeeps ==
    ASSUME TypeOK, Delivery, [Next]_vars
    PROVE  Delivery'
<1>1. CASE Subscribes
  <2>1. PICK a \in Actors : \E last \in {None, replica[a]} : Subscribe(a, last)
    BY <1>1 DEF Subscribes
  <2> QED
    BY <2>1, SubscribeKeeps
<1>2. CASE PollSome
  BY <1>2, PollKeeps DEF PollSome
<1>3. CASE Resyncs
  BY <1>3, ResyncKeeps DEF Resyncs
<1>4. CASE PublishSome
  BY <1>4, PublishKeeps DEF PublishSome
<1> QED
  BY <1>1, <1>2, <1>3, <1>4, StepKinds, TellsKeeps, HidesKeeps, LeavesKeeps

\* The part of TypeOK that neither the delivery nor the commands settle.
ServiceType ==
    /\ executed \in [Commands -> Nat]
    /\ attached \subseteq Actors /\ connected \subseteq Actors
    /\ DOMAIN subs \subseteq attached
    /\ running \in Commands \cup {None}
    /\ terminated \in BOOLEAN

\* Every action keeps the types of the service's own state.
LEMMA ServiceKeeps ==
    ASSUME TypeOK, [Next]_vars
    PROVE  ServiceType'
<1> USE DEF clients, service, ServiceType
<1>0. ServiceType
  BY DEF TypeOK
<1>1. \A from, to : DOMAIN Replicated(from, to) = DOMAIN subs
  BY DEF Replicated
<1>2. \A entry : Submit(entry) => DOMAIN subs' = DOMAIN subs
  BY <1>1 DEF Submit
<1>3. \A n, ok : Work(n, ok) => DOMAIN subs' = DOMAIN subs
  BY <1>1 DEF Work
<1>4. CASE UNCHANGED vars
  BY <1>0, <1>4 DEF vars
<1>5. ASSUME NEW a \in Actors, Handshake(a)
      PROVE  ServiceType'
  <2>1. DOMAIN subs' = DOMAIN subs
    BY <1>2, <1>5 DEF Handshake
  <2> QED
    BY <1>0, <1>5, <2>1 DEF Handshake
<1>6. ASSUME NEW a \in Actors, NEW b \in Actors, Detach(a, b)
      PROVE  ServiceType'
  BY <1>0, <1>6 DEF Detach, Without, Restrict
<1>7. ASSUME NEW a \in Actors, Disconnect(a)
      PROVE  ServiceType'
  BY <1>0, <1>7 DEF Disconnect, Without, Restrict
<1>8. ASSUME NEW a \in Actors, NEW last, Subscribe(a, last)
      PROVE  ServiceType'
  BY <1>0, <1>8 DEF Subscribe, May
<1>9. ASSUME NEW a \in Actors, Resync(a)
      PROVE  ServiceType'
  BY <1>0, <1>9 DEF Resync
<1>10. CASE PollSome
  <2>1. DOMAIN subs' = DOMAIN subs
    BY <1>10 DEF PollSome, Poll
  <2> QED
    BY <1>0, <1>10, <2>1 DEF PollSome, Poll
<1>11. CASE Edits
  <2>1. DOMAIN subs' = DOMAIN subs
    BY <1>2, <1>11 DEF Edits, SubmitPatch, ChangeConvar, RegisterArtifact, Write
  <2> QED
    BY <1>0, <1>11, <2>1
    DEF Edits, SubmitPatch, ChangeConvar, RegisterArtifact, Write
<1>12. CASE Works
  <2>1. DOMAIN subs' = DOMAIN subs
    BY <1>3, <1>12 DEF Works, Turn, WriteWorkspace
  <2> QED
    BY <1>0, <1>12, <2>1 DEF Works, Turn, WriteWorkspace
<1>13. CASE SubmitSome
  <2>1. DOMAIN subs' = DOMAIN subs
    BY <1>2, <1>13 DEF SubmitSome, SubmitCommand
  <2> QED
    BY <1>0, <1>13, <2>1 DEF SubmitSome, SubmitCommand
<1>14. CASE ExecuteSome
  <2>1. DOMAIN subs' = DOMAIN subs
    BY <1>3, <1>14 DEF ExecuteSome, Execute
  <2> QED
    BY <1>0, <1>14, <2>1 DEF ExecuteSome, Execute
<1>15. CASE BackgroundSome
  <2>1. DOMAIN subs' = DOMAIN subs
    BY <1>3, <1>15 DEF BackgroundSome, Background
  <2> QED
    BY <1>0, <1>15, <2>1 DEF BackgroundSome, Background
<1>16. CASE BranchSome \/ TerminateSome
  BY <1>0, <1>16 DEF BranchSome, Branch, TerminateSome, Terminate
<1>17. CASE PublishSome
  BY <1>0, <1>17 DEF PublishSome, Publish
<1>18. CASE Restart
  <2>1. DOMAIN subs' = {}
    BY <1>18 DEF Restart
  <2> QED
    BY <1>0, <1>18, <2>1 DEF Restart
<1> QED
  BY <1>4, <1>5, <1>6, <1>7, <1>8, <1>9, <1>10, <1>11, <1>12, <1>13, <1>14,
     <1>15, <1>16, <1>17, <1>18
  DEF Next, Session

\* An empty journal without actors satisfies the invariant.
LEMMA Initially ==
    ASSUME Init
    PROVE  IInv
<1> USE ReplicationAssumption DEF Init
<1>1. TypeOK
  <2>1. /\ log \in Seq([base : 0 .. MaxOffset, entry : Entry])
        /\ Len(log) = 0 /\ DOMAIN subs = {}
    OBVIOUS
  <2>2. /\ executed \in [Commands -> Nat]
        /\ published \in [Views -> 0 .. MaxFrames]
        /\ replica \in [Actors -> 0 .. MaxOffset \cup {None}]
    OBVIOUS
  <2>3. /\ seen \subseteq Commands /\ attached \subseteq Actors
        /\ connected \subseteq Actors /\ broken \subseteq Actors
        /\ running \in Commands \cup {None} /\ terminated \in BOOLEAN
    OBVIOUS
  <2>4. 0 <= MaxOffset
    OBVIOUS
  <2> HIDE DEF Init
  <2> QED
    BY <2>1, <2>2, <2>3, <2>4 DEF TypeOK
<1>2. Receipts = {} /\ LineInv
  BY DEF Receipts, LineInv
<1>3. CommandInv
  BY <1>2 DEF CommandInv
<1>4. CopyInv /\ QueueDiscipline /\ QueueInv
  BY DEF CopyInv, QueueDiscipline, QueueInv
<1> QED
  BY <1>1, <1>2, <1>3, <1>4 DEF IInv

\* Every step keeps it.
LEMMA Inductive ==
    ASSUME IInv, [Next]_vars
    PROVE  IInv'
<1>1. Delivery
  BY DEF IInv, Delivery, QueueType, TypeOK, LogRecord
<1>2. Delivery' /\ CommandInv' /\ ServiceType'
  BY <1>1, DeliveryKeeps, CommandKeeps, ServiceKeeps DEF IInv
<1>3. seen' \subseteq Commands
  BY <1>2 DEF CommandInv, Receipts
<1>4. TypeOK'
  BY <1>2, <1>3 DEF TypeOK, Delivery, QueueType, ServiceType, LogRecord
<1> QED
  BY <1>2, <1>4 DEF IInv, Delivery

\* Spec holds no state outside the inductive invariant.
LEMMA Invariant == Spec => []IInv
BY Initially, Inductive, PTL DEF Spec

\* Every variable keeps its type: the journal is a chain of records of known
\* snapshots, and a queue is kept only for an actor that is attached.
THEOREM TypeCorrect == Spec => []TypeOK
<1>1. IInv => TypeOK
  BY DEF IInv
<1> QED
  BY <1>1, Invariant, PTL

\* A subscriber that waits for no resync has, with what is queued, the journal:
\* all it can miss is what no subscriber is told of.
THEOREM NoGap == Spec => []Contiguous
<1>1. ASSUME IInv
      PROVE  Contiguous
  <2>1. ASSUME NEW a \in DOMAIN subs, ~subs[a].resync
        PROVE  /\ Ordered(subs[a], Newest)
               /\ IF a \in broken THEN \E o \in Silent : o > replica[a]
                  ELSE Covers(subs[a], replica[a], Newest, Silent)
               /\ replica[a] \in 0 .. Newest
               /\ Newest \in Nat
    BY <1>1, <2>1 DEF IInv, QueueInv, CopyInv, TypeOK, Newest
  <2>2. ASSUME NEW a \in DOMAIN subs, ~subs[a].resync
        PROVE  \A j, k \in Pending(a) : j < k =>
                   subs[a].messages[j].offset < subs[a].messages[k].offset
    BY <2>1, <2>2 DEF Pending, Ordered
  <2>3. ASSUME NEW a \in DOMAIN subs, ~subs[a].resync, a \notin broken,
               NEW o \in (replica[a] + 1 .. Newest) \ Silent
        PROVE  \E k \in Pending(a) : subs[a].messages[k].offset = o
    <3>1. PICK k \in DOMAIN subs[a].messages :
              IsPatch(subs[a].messages[k]) /\ subs[a].messages[k].offset = o
      BY <2>1, <2>3 DEF Covers
    <3>2. o > replica[a]
      BY <2>1, <2>3
    <3> QED
      BY <3>1, <3>2 DEF Pending
  <2> QED
    BY <1>1, <2>1, <2>2, <2>3 DEF IInv, Contiguous
<1> QED
  BY <1>1, Invariant, PTL

\* No queue grows past its capacity, none holds a patch while it waits for a
\* resync, and of each view it has at most the newest frame.
THEOREM Bounded == Spec => []QueueDiscipline
<1>1. IInv => QueueDiscipline
  BY DEF IInv
<1> QED
  BY <1>1, Invariant, PTL

\* A command runs at most once, and the receipt of one that ran is in the
\* journal, whatever was sent again, rewound or restarted.
THEOREM RunsOnce == Spec => []CommandsOnce
<1>1. IInv => CommandsOnce
  BY DEF IInv, CommandInv, CommandsOnce
<1> QED
  BY <1>1, Invariant, PTL

=============================================================================
