--------------------------- MODULE JournalProofs ---------------------------
(***************************************************************************)
(* Proofs, for every set of elements and branches and every bound, of the  *)
(* invariants that MCJournal.cfg checks on a small instance, and of the    *)
(* refinement of AppendOnlyLog, through failed reads and their repairs.    *)
(***************************************************************************)
EXTENDS Journal, SequenceTheorems, TLAPS

-----------------------------------------------------------------------------
(* The tree of records.  Chain is the least parent-closed set above an      *)
(* offset; the lemmas give it the recursive equation of materialize.        *)

Tree(recs) ==
    /\ recs \in Seq(Record)
    /\ \A k \in DOMAIN recs : recs[k].parent < k

Agree(a, b) ==
    /\ Len(a) <= Len(b)
    /\ \A k \in 1 .. Len(a) : a[k] = b[k]

\* Nothing is above the root: materialize(0) applies no patch.
LEMMA ChainRoot ==
    ASSUME NEW recs \in Seq(Record)
    PROVE  Chain(recs, 0) = {}
<1>1. {} \in SUBSET DOMAIN recs /\ ParentClosed(recs, {})
  BY DEF ParentClosed
<1> QED
  BY <1>1 DEF Chain

\* A record is on its own chain, which holds the parents of its members.
LEMMA ChainClosed ==
    ASSUME NEW recs, Tree(recs), NEW o \in DOMAIN recs
    PROVE  /\ o \in Chain(recs, o)
           /\ \A p \in 0 .. Len(recs) : 
                  /\ Chain(recs, p) \subseteq DOMAIN recs
                  /\ ParentClosed(recs, Chain(recs, p))
<1>1. o # 0 /\ o \in Chain(recs, o)
  BY DEF Chain, Tree
<1>2. ASSUME NEW p \in 0 .. Len(recs)
      PROVE  /\ Chain(recs, p) \subseteq DOMAIN recs
             /\ ParentClosed(recs, Chain(recs, p))
  <2>1. Chain(recs, p) \subseteq DOMAIN recs
    BY DEF Chain
  <2>2. ASSUME NEW k \in Chain(recs, p), recs[k].parent # 0
        PROVE  recs[k].parent \in Chain(recs, p)
    <3>1. recs[k] \in Record /\ recs[k].parent < k /\ k \in 1 .. Len(recs)
      BY <2>1 DEF Tree
    <3>2. recs[k].parent \in DOMAIN recs
      BY <3>1, <2>2, SMTT(30) DEF Record, Tree
    <3>3. ASSUME NEW S \in SUBSET DOMAIN recs,
                 ParentClosed(recs, S), p # 0 => p \in S
          PROVE  recs[k].parent \in S
      BY <3>3, <2>2 DEF Chain, ParentClosed
    <3> QED
      BY <3>2, <3>3 DEF Chain
  <2> QED
    BY <2>1, <2>2 DEF ParentClosed
<1> QED
  BY <1>1, <1>2

\* A chain goes back in time only.
LEMMA ChainBelow ==
    ASSUME NEW recs, Tree(recs), NEW o \in 0 .. Len(recs)
    PROVE  Chain(recs, o) \subseteq 1 .. o
<1> DEFINE S == 1 .. o
<1>1. S \in SUBSET DOMAIN recs
  BY DEF Tree
<1>2. ParentClosed(recs, S)
  <2> SUFFICES ASSUME NEW k \in S, recs[k].parent # 0
               PROVE  recs[k].parent \in S
    BY DEF ParentClosed
  <2>1. recs[k] \in Record /\ recs[k].parent < k
    BY <1>1 DEF Tree
  <2> QED
    BY <2>1 DEF Record
<1>3. o # 0 => o \in S
  OBVIOUS
<1> QED
  BY <1>1, <1>2, <1>3 DEF Chain

\* materialize's step: a record and what its parent's chain holds.
LEMMA ChainStep ==
    ASSUME NEW recs, Tree(recs), NEW o \in DOMAIN recs
    PROVE  Chain(recs, o) = {o} \cup Chain(recs, recs[o].parent)
<1> DEFINE p == recs[o].parent
           T == {o} \cup Chain(recs, p)
<1>1. o \in 1 .. Len(recs) /\ p \in Nat /\ p < o
  <2>1. recs[o] \in Record /\ o \in 1 .. Len(recs)
    BY DEF Tree
  <2> QED
    BY <2>1 DEF Tree, Record
<1>2. p \in 0 .. Len(recs) /\ Len(recs) \in Nat
  BY <1>1 DEF Tree
<1>3. p # 0 => p \in Chain(recs, p)
  <2> SUFFICES ASSUME p # 0 PROVE p \in Chain(recs, p)
    OBVIOUS
  <2>1. p \in DOMAIN recs
    BY <1>1, <1>2 DEF Tree
  <2> QED
    BY <2>1, ChainClosed
<1>4. Chain(recs, p) \subseteq DOMAIN recs /\ ParentClosed(recs, Chain(recs, p))
  BY <1>2, ChainClosed
<1>5. T \in SUBSET DOMAIN recs /\ ParentClosed(recs, T) /\ o \in T
  BY <1>3, <1>4 DEF ParentClosed
<1>6. Chain(recs, o) \subseteq T
  BY <1>5 DEF Chain
<1>7. ASSUME NEW k \in T
      PROVE  k \in Chain(recs, o)
  <2>1. k \in DOMAIN recs
    BY <1>4
  <2>2. ASSUME NEW S \in SUBSET DOMAIN recs, ParentClosed(recs, S),
               o # 0 => o \in S
        PROVE  k \in S
    <3>1. o \in S
      BY <1>1, <2>2
    <3>2. p # 0 => p \in S
      BY <2>2, <3>1 DEF ParentClosed
    <3>3. CASE k = o
      BY <3>1, <3>3
    <3>4. CASE k \in Chain(recs, p)
      BY <3>2, <3>4, <2>2 DEF Chain
    <3> QED
      BY <3>3, <3>4
  <2> QED
    BY <2>1, <2>2 DEF Chain
<1> QED
  BY <1>6, <1>7

\* Records are never changed, so a chain is the same in a longer file.
LEMMA ChainAgree ==
    ASSUME NEW a, NEW b, Tree(a), Tree(b), Agree(a, b),
           NEW o \in 0 .. Len(a)
    PROVE  Chain(a, o) = Chain(b, o)
<1>0. Len(a) \in Nat /\ Len(b) \in Nat /\ o \in 0 .. Len(b)
      /\ DOMAIN a = 1 .. Len(a) /\ DOMAIN b = 1 .. Len(b)
  BY DEF Tree, Agree
<1>1. ASSUME NEW k \in Chain(a, o)
      PROVE  k \in Chain(b, o)
  <2>1. k \in DOMAIN b
    BY <1>0 DEF Chain, Agree
  <2>2. ASSUME NEW S \in SUBSET DOMAIN b, ParentClosed(b, S),
               o # 0 => o \in S
        PROVE  k \in S
    <3> DEFINE R == S \cap DOMAIN a
    <3>1. ASSUME NEW m \in R, a[m].parent # 0
          PROVE  a[m].parent \in R
      <4>1. m \in 1 .. Len(a) /\ a[m] = b[m] /\ a[m] \in Record
            /\ a[m].parent < m
        BY <1>0 DEF Agree, Tree
      <4>2. a[m].parent \in S
        BY <2>2, <3>1, <4>1 DEF ParentClosed
      <4>3. a[m].parent \in 1 .. Len(a)
        BY <1>0, <4>1, <3>1 DEF Record
      <4> QED
        BY <1>0, <4>2, <4>3
    <3>2. R \in SUBSET DOMAIN a /\ ParentClosed(a, R) /\ (o # 0 => o \in R)
      BY <1>0, <2>2, <3>1 DEF ParentClosed
    <3> QED
      BY <3>2 DEF Chain
  <2> QED
    BY <2>1, <2>2 DEF Chain
<1>2. ASSUME NEW k \in Chain(b, o)
      PROVE  k \in Chain(a, o)
  <2>1. k \in 1 .. o
    BY <1>0, ChainBelow
  <2>2. k \in DOMAIN a
    BY <1>0, <2>1
  <2>3. ASSUME NEW S \in SUBSET DOMAIN a, ParentClosed(a, S),
               o # 0 => o \in S
        PROVE  k \in S
    <3>1. S \in SUBSET DOMAIN b /\ ParentClosed(b, S)
      BY <1>0, <2>3 DEF Agree, ParentClosed
    <3> QED
      BY <3>1, <2>3 DEF Chain
  <2> QED
    BY <2>2, <2>3 DEF Chain
<1> QED
  BY <1>1, <1>2

-----------------------------------------------------------------------------
(* Snapshots. *)

\* Selecting a branch changes nothing else of a snapshot.
LEMMA SelectedBranch ==
    ASSUME NEW snap \in Snapshot, NEW b \in BranchNames
    PROVE  [snap EXCEPT !.branch = b] =
               [offset |-> snap.offset, branch |-> b, applied |-> snap.applied]
<1> DEFINE x == [snap EXCEPT !.branch = b]
           y == [offset |-> snap.offset, branch |-> b,
                 applied |-> snap.applied]
<1>1. x \in Snapshot /\ y \in Snapshot
  BY DEF Snapshot
<1>2. x.offset = y.offset /\ x.branch = y.branch /\ x.applied = y.applied
  BY DEF Snapshot
<1> QED
  BY <1>1, <1>2 DEF Snapshot

\* apply_patch turns snapshots into snapshots.
LEMMA AppliedType ==
    ASSUME NEW snap \in Snapshot, NEW rec \in Record
    PROVE  Applied(snap, rec) \in Snapshot
BY DEF Applied, Snapshot, Record

\* A snapshot rebuilt from a tree of records is a snapshot, at that offset.
LEMMA MaterializeType ==
    ASSUME NEW recs, Tree(recs), NEW o \in 0 .. Len(recs)
    PROVE  /\ Materialize(recs, o) \in Snapshot
           /\ Materialize(recs, o).offset = o
<1>1. Len(recs) \in Nat /\ DOMAIN recs = 1 .. Len(recs)
      /\ \A k \in DOMAIN recs : recs[k] \in Record
  BY DEF Tree
<1>2. {recs[k] : k \in Chain(recs, o)} \in SUBSET Record
  BY <1>1 DEF Chain
<1>3. (IF o = 0 THEN Main ELSE recs[o].branch) \in BranchNames
  <2>1. CASE o = 0
    BY <2>1 DEF BranchNames
  <2>2. CASE o # 0
    <3>1. recs[o] \in Record
      BY <1>1, <2>2
    <3> QED
      BY <2>2, <3>1 DEF Record
  <2> QED
    BY <2>1, <2>2
<1> QED
  BY <1>1, <1>2, <1>3 DEF Materialize, Snapshot

\* The empty document is what a replay of nothing gives.
LEMMA MaterializeRoot ==
    ASSUME NEW recs \in Seq(Record)
    PROVE  Materialize(recs, 0) = Empty
BY ChainRoot DEF Materialize, Empty

\* Appending records to the file changes no state rebuilt from it.
LEMMA MaterializeAgree ==
    ASSUME NEW a, NEW b, Tree(a), Tree(b), Agree(a, b),
           NEW o \in 0 .. Len(a)
    PROVE  Materialize(a, o) = Materialize(b, o)
<1>1. Chain(a, o) = Chain(b, o) /\ Chain(a, o) \subseteq 1 .. o
  BY ChainAgree, ChainBelow
<1>2. \A k \in 1 .. o : a[k] = b[k]
  BY DEF Agree, Tree
<1>3. {a[k] : k \in Chain(a, o)} = {b[k] : k \in Chain(b, o)}
  BY <1>1, <1>2
<1>4. o # 0 => a[o] = b[o]
  BY <1>2
<1> QED
  BY <1>3, <1>4 DEF Materialize

\* Replaying a record on its parent's state gives the record's state.
LEMMA MaterializeStep ==
    ASSUME NEW recs, Tree(recs), NEW o \in DOMAIN recs, recs[o].offset = o
    PROVE  Materialize(recs, o) =
               [offset  |-> o,
                branch  |-> recs[o].branch,
                applied |-> Materialize(recs, recs[o].parent).applied
                                \cup {recs[o]}]
<1>1. Chain(recs, o) = {o} \cup Chain(recs, recs[o].parent)
  BY ChainStep
<1>2. {recs[k] : k \in Chain(recs, o)} =
          {recs[k] : k \in Chain(recs, recs[o].parent)} \cup {recs[o]}
  BY <1>1
<1>3. o # 0
  BY DEF Tree
<1> QED
  BY <1>2, <1>3 DEF Materialize

-----------------------------------------------------------------------------
(* The inductive invariant. *)

\* The frames of a file that every open accepts: FilesReplay of any file.
Replays(d) ==
    /\ d \in Seq(Record)
    /\ \A i \in DOMAIN d :
          /\ ValidAt(d[i], i)
          /\ CanApply(Materialize(d, d[i].parent), d[i])

\* The parent of a record is the newest earlier record of its branch, if
\* there is one; from it BranchesAreLines is inductive.
ParentIsNewest(d, parent, branch, n) ==
    \A k \in DOMAIN d : k < n /\ d[k].branch = branch =>
        parent \in DOMAIN d /\ d[parent].branch = branch /\ k <= parent

Lines(d) ==
    /\ \A j \in DOMAIN d : ParentIsNewest(d, d[j].parent, d[j].branch, j)
    /\ \A i, j \in DOMAIN d :
          i < j /\ d[i].branch = d[j].branch => i \in Chain(d, j)

HeaderInv ==
    /\ header \in {"absent", "torn"} =>
           /\ disk = <<>>
           /\ ~damaged
           /\ mode \in {"closed", "creating"}
    /\ mode = "creating" => header = "torn"
    /\ header # "synced" => durable = 0 /\ acked = {}
    /\ durable <= Len(disk)

ModeInv ==
    /\ mode \in {"closed", "creating"} => records = <<>> /\ snapshot = Empty
    /\ failed => /\ mode = "open"
                 /\ durable <= Len(records)
                 /\ Len(disk) <= Len(records) + 1
    /\ recovery # "none" => mode \in {"open", "copied", "truncated"} /\ ~failed
    /\ mode \in {"copied", "truncated"} => recovery # "none"
    /\ mode \in {"open", "writing", "copied"} /\ ~failed /\ recovery # "unread" =>
           Len(disk) = Len(records)
    /\ mode = "copied" => Suffix \subseteq aside
    /\ mode = "truncated" => ~damaged /\ Len(disk) = Len(records)
    /\ mode \in {"open", "writing", "syncing"} /\ ~failed /\ recovery = "none" =>
           ~damaged
    /\ mode = "syncing" =>
           disk = Append(records, pending.rec) /\ durable <= Len(records)

\* A file that d is cut from: it replays, and has what a power loss leaves of d.
Whole(d, n, whole) ==
    /\ Replays(whole) /\ Lines(whole)
    /\ n <= Len(whole)
    /\ \A k \in 1 .. n : whole[k] = d[k]

CutInv == \A whole \in cut : Whole(disk, durable, whole)

\* What append_on, fork_at and select_branch keep between their guards and
\* their end.
PendingInv ==
    mode \in {"writing", "syncing"} =>
        LET rec == pending.rec IN
        /\ pending \in Pending
        /\ ValidAt(rec, NextOffset)
        /\ CanApply(Materialize(records, rec.parent), rec)
        /\ ParentIsNewest(records, rec.parent, rec.branch, NextOffset)
        /\ snapshot = Applied(Materialize(records, rec.parent), rec)
        /\ pending.old = Materialize(records, Len(records))
        /\ ~pending.branching => rec.parent = Len(records)

MemoryInv ==
    /\ Agree(records, disk)
    /\ mode \notin {"writing", "syncing"} =>
           snapshot = Materialize(records, Len(records))

IInv ==
    /\ TypeOK
    /\ HeaderInv
    /\ ModeInv
    /\ MemoryInv
    /\ PendingInv
    /\ Replays(disk)
    /\ Lines(disk)
    /\ CutInv
    /\ AckedDurable

-----------------------------------------------------------------------------
(* What the file's two invariants need. *)

LEMMA AgreeFacts ==
    /\ \A d \in Seq(Record) : Agree(<<>>, d) /\ Agree(d, d)
    /\ \A d \in Seq(Record), n \in Nat : n <= Len(d) =>
           /\ SubSeq(d, 1, n) \in Seq(Record)
           /\ Len(SubSeq(d, 1, n)) = n
           /\ Agree(SubSeq(d, 1, n), d)
    /\ \A d \in Seq(Record), r \in Record :
           /\ Append(d, r) \in Seq(Record)
           /\ Len(Append(d, r)) = Len(d) + 1
           /\ Append(d, r)[Len(d) + 1] = r
           /\ Agree(d, Append(d, r))
BY DEF Agree

\* A file that replays is a tree.
LEMMA ReplaysTree ==
    ASSUME NEW d, Replays(d)
    PROVE  Tree(d)
<1>1. ASSUME NEW k \in DOMAIN d
      PROVE  d[k].parent < k
  BY DEF Replays, ValidAt
<1> QED
  BY <1>1 DEF Tree, Replays

\* A file cut at a frame still replays, and its branches are still lines.
LEMMA CutReplays ==
    ASSUME NEW d, NEW e \in Seq(Record), Replays(d), Agree(e, d)
    PROVE  /\ Tree(e)
           /\ Replays(e)
           /\ Lines(d) => Lines(e)
<1>0. Tree(d) /\ d \in Seq(Record)
  BY ReplaysTree DEF Replays
<1>1. /\ DOMAIN e = 1 .. Len(e)
      /\ DOMAIN d = 1 .. Len(d)
      /\ DOMAIN e \subseteq DOMAIN d
      /\ \A k \in DOMAIN e : e[k] = d[k] /\ d[k] \in Record
  BY <1>0 DEF Agree
<1>2. Tree(e)
  BY <1>0, <1>1 DEF Tree
<1>3. Replays(e)
  <2>1. ASSUME NEW i \in DOMAIN e
        PROVE  /\ ValidAt(e[i], i)
               /\ CanApply(Materialize(e, e[i].parent), e[i])
    <3>1. e[i].parent < i /\ e[i].parent \in Nat
      BY <1>1, <1>2 DEF Tree, Record
    <3>2. Materialize(e, e[i].parent) = Materialize(d, e[i].parent)
      BY <1>0, <1>1, <1>2, <3>1, MaterializeAgree
    <3> QED
      BY <1>1, <3>2 DEF Replays
  <2> QED
    BY <2>1 DEF Replays
<1>4. ASSUME Lines(d)
      PROVE  Lines(e)
  <2>1. ASSUME NEW j \in DOMAIN e
        PROVE  ParentIsNewest(e, e[j].parent, e[j].branch, j)
    <3> SUFFICES ASSUME NEW k \in DOMAIN e, k < j, e[k].branch = e[j].branch
                 PROVE  /\ e[j].parent \in DOMAIN e
                        /\ e[e[j].parent].branch = e[j].branch
                        /\ k <= e[j].parent
      BY DEF ParentIsNewest
    <3>1. /\ d[j].parent \in DOMAIN d
          /\ d[d[j].parent].branch = d[j].branch
          /\ k <= d[j].parent
      BY <1>1, <1>4 DEF Lines, ParentIsNewest
    <3>2. e[j].parent < j
      BY <1>2 DEF Tree
    <3>3. e[j].parent \in DOMAIN e
      BY <1>1, <3>1, <3>2
    <3> QED
      BY <1>1, <3>1, <3>3
  <2>2. ASSUME NEW i \in DOMAIN e, NEW j \in DOMAIN e,
               i < j, e[i].branch = e[j].branch
        PROVE  i \in Chain(e, j)
    <3>1. i \in Chain(d, j)
      BY <1>1, <1>4, <2>2 DEF Lines
    <3>2. Chain(e, j) = Chain(d, j)
      BY <1>0, <1>1, <1>2, ChainAgree
    <3> QED
      BY <3>1, <3>2
  <2> QED
    BY <2>1, <2>2 DEF Lines
<1> QED
  BY <1>2, <1>3, <1>4

\* The frame an append writes replays too, and continues its branch.
LEMMA GrownReplays ==
    ASSUME NEW d, NEW rec \in Record, Replays(d), Lines(d),
           ValidAt(rec, Len(d) + 1),
           CanApply(Materialize(d, rec.parent), rec),
           ParentIsNewest(d, rec.parent, rec.branch, Len(d) + 1)
    PROVE  /\ Replays(Append(d, rec))
           /\ Lines(Append(d, rec))
           /\ Materialize(Append(d, rec), Len(d) + 1) =
                  [Applied(Materialize(d, rec.parent), rec) EXCEPT
                      !.branch = rec.branch]
<1> DEFINE e == Append(d, rec)
           n == Len(d) + 1
<1>0. Tree(d) /\ d \in Seq(Record) /\ Len(d) \in Nat
  BY ReplaysTree DEF Replays
<1>1. /\ e \in Seq(Record) /\ Len(e) = n /\ e[n] = rec /\ Agree(d, e)
      /\ DOMAIN e = 1 .. n /\ DOMAIN d = 1 .. Len(d)
      /\ \A k \in DOMAIN d : e[k] = d[k] /\ k \in DOMAIN e
  BY <1>0 DEF Agree
<1>2. rec.parent \in 0 .. Len(d) /\ rec.offset = n
  BY <1>0 DEF ValidAt, Record
<1>3. Tree(e)
  <2>1. ASSUME NEW k \in DOMAIN e
        PROVE  e[k].parent < k
    <3>1. CASE k \in DOMAIN d
      BY <1>0, <1>1, <3>1 DEF Tree
    <3>2. CASE k = n
      BY <1>0, <1>1, <1>2, <3>2
    <3> QED
      BY <1>0, <1>1, <3>1, <3>2
  <2> QED
    BY <1>1, <2>1 DEF Tree
<1>4. \A o \in 0 .. Len(d) : Materialize(e, o) = Materialize(d, o)
  BY <1>0, <1>1, <1>3, MaterializeAgree
<1>5. Replays(e)
  <2>1. ASSUME NEW i \in DOMAIN e
        PROVE  /\ ValidAt(e[i], i)
               /\ CanApply(Materialize(e, e[i].parent), e[i])
    <3>1. CASE i \in DOMAIN d
      <4>1. e[i].parent \in 0 .. Len(d)
        <5>1. d[i] \in Record /\ d[i].parent < i
          BY <1>0, <3>1 DEF Tree
        <5> QED
          BY <1>0, <1>1, <3>1, <5>1 DEF Record
      <4> QED
        BY <1>1, <1>4, <3>1, <4>1 DEF Replays
    <3>2. CASE i = n
      BY <1>1, <1>2, <1>4, <3>2
    <3> QED
      BY <1>0, <1>1, <3>1, <3>2
  <2> QED
    BY <1>1, <2>1 DEF Replays
<1>6. ASSUME NEW j \in DOMAIN e
      PROVE  ParentIsNewest(e, e[j].parent, e[j].branch, j)
  <2> SUFFICES ASSUME NEW k \in DOMAIN e, k < j, e[k].branch = e[j].branch
               PROVE  /\ e[j].parent \in DOMAIN e
                      /\ e[e[j].parent].branch = e[j].branch
                      /\ k <= e[j].parent
    BY DEF ParentIsNewest
  <2>0. k \in DOMAIN d
    BY <1>0, <1>1
  <2>1. CASE j \in DOMAIN d
    BY <1>1, <2>0, <2>1 DEF Lines, ParentIsNewest
  <2>2. CASE j = n
    BY <1>0, <1>1, <2>0, <2>2 DEF ParentIsNewest
  <2> QED
    BY <1>0, <1>1, <2>1, <2>2
<1>7. ASSUME NEW i \in DOMAIN e, NEW j \in DOMAIN e,
             i < j, e[i].branch = e[j].branch
      PROVE  i \in Chain(e, j)
  <2>0. i \in DOMAIN d
    BY <1>0, <1>1, <1>7
  <2>1. CASE j \in DOMAIN d
    <3>1. i \in Chain(d, j)
      BY <1>1, <1>7, <2>0, <2>1 DEF Lines
    <3> QED
      BY <1>0, <1>1, <1>3, <2>1, <3>1, ChainAgree
  <2>2. CASE j = n
    <3> DEFINE p == rec.parent
    <3>1. p \in DOMAIN d /\ d[p].branch = d[i].branch /\ i <= p
      BY <1>0, <1>1, <1>7, <2>0, <2>2 DEF ParentIsNewest
    <3>2. i \in Chain(d, p)
      <4>1. CASE i = p
        BY <1>0, <3>1, <4>1, ChainClosed
      <4>2. CASE i < p
        BY <2>0, <3>1, <4>2 DEF Lines
      <4> QED
        BY <1>0, <1>1, <2>0, <3>1, <4>1, <4>2
    <3>3. Chain(e, p) = Chain(d, p)
      BY <1>0, <1>1, <1>2, <1>3, ChainAgree
    <3>4. Chain(e, n) = {n} \cup Chain(e, p)
      <4>1. n \in DOMAIN e /\ e[n].parent = p
        BY <1>0, <1>1
      <4> HIDE DEF e, n
      <4> QED
        BY <1>3, <4>1, ChainStep
    <3> QED
      BY <2>2, <3>2, <3>3, <3>4
  <2> QED
    BY <1>0, <1>1, <2>1, <2>2
<1>8. Materialize(e, n) =
          [Applied(Materialize(d, rec.parent), rec) EXCEPT
              !.branch = rec.branch]
  <2>1. n \in DOMAIN e /\ e[n].offset = n /\ e[n] = rec
    BY <1>0, <1>1, <1>2
  <2>2. Materialize(e, rec.parent) = Materialize(d, rec.parent)
    BY <1>2, <1>4
  <2> HIDE DEF e, n
  <2>3. Materialize(e, n) =
            [offset |-> n, branch |-> e[n].branch,
             applied |-> Materialize(e, e[n].parent).applied \cup {e[n]}]
    BY <1>3, <2>1, MaterializeStep
  <2>4. Materialize(e, n) =
            [offset |-> rec.offset, branch |-> rec.branch,
             applied |-> Materialize(d, rec.parent).applied \cup {rec}]
    BY <1>2, <2>1, <2>2, <2>3
  <2>5. Materialize(d, rec.parent) \in Snapshot
    BY <1>0, <1>2, MaterializeType
  <2>6. Applied(Materialize(d, rec.parent), rec) \in Snapshot
    BY <2>5, AppliedType
  <2>7. rec.branch \in BranchNames
    BY DEF Record
  <2> DEFINE snap == Applied(Materialize(d, rec.parent), rec)
  <2>8. /\ snap.offset = rec.offset
        /\ snap.applied = Materialize(d, rec.parent).applied \cup {rec}
    BY DEF Applied
  <2> QED
    BY <2>4, <2>6, <2>7, <2>8, SelectedBranch
<1> QED
  BY <1>5, <1>6, <1>7, <1>8 DEF Lines

-----------------------------------------------------------------------------
(* The invariant is inductive: one lemma per kind of action. *)

LEMMA Initial == Init => IInv
<1> SUFFICES ASSUME Init PROVE IInv
  OBVIOUS
<1> USE DEF Init
<1>1. Empty \in Snapshot
  BY DEF Empty, Snapshot, BranchNames
<1>2. TypeOK
  <2>1. <<>> \in Seq(Record)
    OBVIOUS
  <2> QED
    BY <1>1, <2>1 DEF TypeOK, Modes
<1>3. Replays(disk) /\ Lines(disk)
  BY DEF Replays, Lines
<1>4. Agree(records, disk) /\ snapshot = Materialize(records, Len(records))
  <2>1. records \in Seq(Record) /\ Len(records) = 0
    OBVIOUS
  <2> QED
    BY <2>1, AgreeFacts, MaterializeRoot
<1> QED
  BY <1>2, <1>3, <1>4
  DEF IInv, HeaderInv, ModeInv, PendingInv, MemoryInv, CutInv, AckedDurable

\* What the invariant says of memory and file together.
LEMMA Facts ==
    ASSUME IInv
    PROVE  /\ Tree(disk) /\ Tree(records)
           /\ Replays(records) /\ Lines(records)
           /\ Len(records) \in Nat /\ Len(disk) \in Nat
           /\ Len(records) <= Len(disk)
           /\ Len(records) = Len(disk) => records = disk
           /\ Empty \in Snapshot
           /\ Agree(<<>>, disk)
           /\ <<>> \in Seq(Record)
           /\ Empty = Materialize(<<>>, Len(<<>>))
<1>1. /\ disk \in Seq(Record) /\ records \in Seq(Record)
      /\ Agree(records, disk) /\ Replays(disk) /\ Lines(disk)
  BY DEF IInv, TypeOK, MemoryInv
<1>2. Len(records) \in Nat /\ Len(disk) \in Nat /\ Len(records) <= Len(disk)
  BY <1>1 DEF Agree
<1>3. Len(records) = Len(disk) => records = disk
  BY <1>1 DEF Agree
<1>5. Empty \in Snapshot
  BY DEF Empty, Snapshot, BranchNames
<1>6. <<>> \in Seq(Record) /\ Len(<<>>) = 0
  OBVIOUS
<1>7. Empty = Materialize(<<>>, Len(<<>>)) /\ Agree(<<>>, disk)
  BY <1>1, <1>6, MaterializeRoot, AgreeFacts
<1>8. Tree(disk) /\ Tree(records) /\ Replays(records) /\ Lines(records)
  BY <1>1, ReplaysTree, CutReplays
<1> QED
  BY <1>1, <1>2, <1>3, <1>5, <1>6, <1>7, <1>8

\* Creating and opening the file, and closing the journal.
LEMMA OpeningStep ==
    ASSUME IInv, Create \/ Created \/ CreateFails \/ Open \/ Close
    PROVE  IInv'
<1> USE Facts DEF IInv
<1>1. CASE Create
  BY <1>1 DEF Create, TypeOK, Modes, file, memory, HeaderInv, ModeInv,
     MemoryInv, PendingInv, CutInv, AckedDurable
<1>2. CASE Created
  BY <1>2 DEF Created, TypeOK, Modes, file, memory, HeaderInv, ModeInv,
     MemoryInv, PendingInv, CutInv, AckedDurable
<1>3. CASE CreateFails
  BY <1>3 DEF CreateFails, Fault, TypeOK, Modes, file, memory, HeaderInv,
     ModeInv, MemoryInv, PendingInv, CutInv, AckedDurable
<1>4. CASE Open
  BY <1>4 DEF Open, TypeOK, Modes, file, memory, HeaderInv, ModeInv,
     MemoryInv, PendingInv, CutInv, AckedDurable
<1>5. CASE Close
  BY <1>5 DEF Close, Forget, TypeOK, Modes, file, memory, HeaderInv, ModeInv,
     MemoryInv, PendingInv, CutInv, AckedDurable
<1> QED
  BY <1>1, <1>2, <1>3, <1>4, <1>5

\* open's loop: the fast path and the rematerialization agree, and the loop
\* stops at unreadable bytes or at a read that fails.
LEMMA ReplayStep ==
    ASSUME IInv, ReplayRecord \/ ReplayEnds
    PROVE  IInv'
<1> USE Facts DEF IInv
<1> DEFINE n == Len(records)
<1>0. /\ n \in 0 .. Len(disk) /\ Materialize(records, n) \in Snapshot
      /\ Materialize(records, n).offset = n
  BY MaterializeType
<1>1. CASE ReplayRecord
  <2>1. PICK rec \in Replayable :
            /\ snapshot' = [Applied(ReplayBase(rec), rec) EXCEPT
                               !.branch = rec.branch]
            /\ records' = Append(records, rec)
    BY <1>1 DEF ReplayRecord
  <2>2. n + 1 \in DOMAIN disk /\ rec = disk[n + 1] /\ ValidAt(rec, n + 1)
    BY <2>1 DEF Replayable, NextOffset
  <2>3. rec \in Record /\ rec.parent \in 0 .. n /\ rec.branch \in BranchNames
    <3>1. rec \in Record /\ rec.parent < n + 1
      BY <1>0, <2>2 DEF Tree
    <3>2. rec.parent \in Nat /\ rec.branch \in BranchNames
      BY <3>1 DEF Record
    <3> QED
      BY <1>0, <3>1, <3>2
  <2>4. mode = "replaying" /\ snapshot = Materialize(records, n)
    BY <1>1 DEF ReplayRecord, MemoryInv
  <2>5. ReplayBase(rec) = Materialize(records, rec.parent)
    BY <1>0, <2>4 DEF ReplayBase
  <2>6. ReplayBase(rec) \in Snapshot /\ Applied(ReplayBase(rec), rec) \in Snapshot
    BY <2>3, <2>5, MaterializeType, AppliedType
  <2>7. snapshot' \in Snapshot
    BY <2>1, <2>3, <2>6 DEF Snapshot
  <2>8. /\ records' \in Seq(Record) /\ Len(records') = n + 1
        /\ Agree(records', disk)
    BY <1>0, <2>1, <2>2, <2>3 DEF Agree, MemoryInv, Tree
  <2>9. CanApply(Materialize(records, rec.parent), rec)
    BY <2>1, <2>5 DEF Replayable
  <2>10. ParentIsNewest(records, rec.parent, rec.branch, n + 1)
    <3> SUFFICES ASSUME NEW k \in DOMAIN records,
                        records[k].branch = rec.branch
                 PROVE  /\ rec.parent \in DOMAIN records
                        /\ records[rec.parent].branch = rec.branch
                        /\ k <= rec.parent
      BY DEF ParentIsNewest
    <3>1. k \in 1 .. n /\ k \in DOMAIN disk /\ disk[k] = records[k]
      BY <1>0 DEF Agree, MemoryInv, Tree
    <3>2. /\ rec.parent \in DOMAIN disk
          /\ disk[rec.parent].branch = rec.branch
          /\ k <= rec.parent
      BY <1>0, <2>2, <3>1 DEF Lines, ParentIsNewest
    <3>3. rec.parent \in 1 .. n
      BY <2>3, <3>1, <3>2
    <3> QED
      BY <3>2, <3>3 DEF Agree, MemoryInv, Tree
  <2>11. snapshot' = Materialize(records', Len(records'))
    BY <2>1, <2>2, <2>3, <2>5, <2>8, <2>9, <2>10, GrownReplays
  <2> QED
    BY <1>1, <2>4, <2>7, <2>8, <2>11
    DEF ReplayRecord, TypeOK, file, HeaderInv, ModeInv, MemoryInv,
        PendingInv, CutInv, AckedDurable
<1>2. CASE ReplayEnds
  <2>1. /\ mode = "replaying" /\ mode' = "open"
        /\ snapshot = Materialize(records, n)
        /\ recovery' \in {"none", "damaged", "unread"} /\ faults' \in Nat
    BY <1>2 DEF ReplayEnds, MemoryInv, Fault, TypeOK
  <2>2. CASE Replayable = {}
    <3> SUFFICES ASSUME n # Len(disk) PROVE FALSE
      <4>1. ASSUME n = Len(disk)
            PROVE  IInv'
        BY <1>2, <2>1, <4>1
        DEF ReplayEnds, Fault, TypeOK, Modes, file, HeaderInv, ModeInv,
            MemoryInv, PendingInv, CutInv, AckedDurable
      <4> QED
        BY <4>1
    <3>1. n + 1 \in DOMAIN disk
      BY <1>0 DEF Tree
    <3> DEFINE rec == disk[n + 1]
    <3>2. /\ ValidAt(rec, n + 1) /\ rec \in Record
          /\ CanApply(Materialize(disk, rec.parent), rec)
      BY <3>1 DEF Replays
    <3>3. rec.parent \in 0 .. n
      BY <1>0, <3>2 DEF ValidAt, Record
    <3>4. Materialize(disk, rec.parent) = Materialize(records, rec.parent)
      BY <3>3, MaterializeAgree DEF MemoryInv
    <3>5. ReplayBase(rec) = Materialize(records, rec.parent)
      BY <1>0, <2>1 DEF ReplayBase
    <3>6. rec \in Replayable
      BY <3>1, <3>2, <3>4, <3>5 DEF Replayable, NextOffset
    <3> QED
      BY <2>2, <3>6
  <2>3. CASE Fault /\ recovery' = "unread"
    BY <1>2, <2>1, <2>3
    DEF ReplayEnds, TypeOK, Modes, file, HeaderInv, ModeInv, MemoryInv,
        PendingInv, CutInv, AckedDurable
  <2> QED
    BY <1>2, <2>2, <2>3 DEF ReplayEnds
<1> QED
  BY <1>1, <1>2

\* The guards of append_on, fork_at and select_branch establish what the write
\* relies on.
LEMMA AppendStep ==
    ASSUME IInv, Append1 \/ Fork1 \/ Select1
    PROVE  IInv'
<1> USE Facts DEF IInv
<1> DEFINE n == Len(records)
<1>0. /\ n \in 0 .. n /\ Materialize(records, n) \in Snapshot
      /\ Materialize(records, n).offset = n
      /\ Materialize(records, n).branch =
             IF n = 0 THEN Main ELSE records[n].branch
  BY MaterializeType DEF Materialize
<1>1. ASSUME NEW o \in 0 .. n, NEW rec \in Record, NEW branching \in BOOLEAN,
             StartAppend(Materialize(records, o), rec, branching),
             rec.parent = o, rec.base = o,
             ParentIsNewest(records, o, rec.branch, n + 1),
             ~branching => o = n
      PROVE  IInv'
  <2>1. /\ mode = "open" /\ ~failed /\ recovery = "none"
        /\ rec.offset = n + 1
        /\ CanApply(Materialize(records, o), rec)
        /\ snapshot' = Applied(Materialize(records, o), rec)
        /\ pending' = [rec |-> rec, old |-> snapshot, branching |-> branching]
        /\ mode' = "writing"
        /\ UNCHANGED <<file, records, failed, recovery, acked, faults>>
    BY <1>1 DEF StartAppend, NextOffset
  <2>2. snapshot = Materialize(records, n) /\ n = Len(disk) /\ ~damaged
    BY <2>1 DEF MemoryInv, ModeInv
  <2>3. ValidAt(rec, n + 1)
    BY <1>0, <1>1, <2>1 DEF ValidAt
  <2>4. pending' \in Pending /\ snapshot' \in Snapshot
    <3>1. Materialize(records, o) \in Snapshot
      BY <1>1, MaterializeType
    <3>2. snapshot' \in Snapshot
      BY <2>1, <3>1, AppliedType
    <3>3. snapshot \in Snapshot
      BY DEF TypeOK
    <3> QED
      BY <2>1, <3>2, <3>3 DEF Pending
  <2>5. PendingInv'
    BY <1>1, <2>1, <2>2, <2>3, <2>4 DEF PendingInv, NextOffset
  <2> QED
    BY <2>1, <2>2, <2>4, <2>5
    DEF TypeOK, Modes, file, HeaderInv, ModeInv, MemoryInv, CutInv, AckedDurable
<1>2. ASSUME Append1
      PROVE  IInv'
  <2>1. PICK base \in 0 .. MaxOffset, result \in 1 .. MaxOffset,
             element \in Elements \cup {NoElement} :
                 AppendPatch(base, result, element)
    BY <1>2 DEF Append1
  <2> DEFINE rec == [offset |-> result, parent |-> snapshot.offset,
                     base |-> base, branch |-> snapshot.branch,
                     element |-> element]
  <2>2. StartAppend(snapshot, rec, FALSE)
    BY <2>1 DEF AppendPatch
  <2>3. snapshot = Materialize(records, n) /\ mode = "open"
    BY <2>2 DEF StartAppend, MemoryInv
  <2>4. base = n /\ snapshot.offset = n /\ snapshot.branch \in BranchNames
    BY <1>0, <2>2, <2>3 DEF StartAppend, CanApply, Snapshot
  <2>5. rec \in Record /\ rec.parent = n /\ rec.base = n
    BY <2>1, <2>4, JournalAssumption DEF Record
  <2>6. ParentIsNewest(records, n, rec.branch, n + 1)
    <3> SUFFICES ASSUME NEW k \in DOMAIN records,
                        records[k].branch = rec.branch
                 PROVE  /\ n \in DOMAIN records
                        /\ records[n].branch = rec.branch
                        /\ k <= n
      BY DEF ParentIsNewest
    <3>1. k \in 1 .. n /\ n \in DOMAIN records /\ n # 0
      BY DEF Tree
    <3> QED
      BY <1>0, <2>3, <3>1
  <2> HIDE DEF rec
  <2> QED
    BY <1>0, <1>1, <2>2, <2>3, <2>5, <2>6
<1>3. ASSUME Fork1
      PROVE  IInv'
  <2>1. PICK o \in 0 .. n, b \in Branches : ForkAt(o, b)
    BY <1>3 DEF Fork1
  <2> DEFINE rec == BranchRecord(o, b)
  <2>2. /\ StartAppend(Materialize(records, o), rec, TRUE)
        /\ \A i \in DOMAIN disk : disk[i].branch # b
    BY <2>1 DEF ForkAt
  <2>3. /\ rec \in Record /\ rec.parent = o /\ rec.base = o
        /\ rec.branch = b
    BY <2>1 DEF BranchRecord, Record, BranchNames, NextOffset
  <2>4. ParentIsNewest(records, o, b, n + 1)
    BY <2>2 DEF ParentIsNewest, MemoryInv, Agree, Tree
  <2> HIDE DEF rec
  <2> QED
    BY <1>1, <2>1, <2>2, <2>3, <2>4
<1>4. ASSUME Select1
      PROVE  IInv'
  <2>1. PICK o \in 0 .. n, b \in BranchNames : SelectBranch(o, b)
    BY <1>4 DEF Select1
  <2> DEFINE rec == BranchRecord(o, b)
  <2>2. /\ StartAppend(Materialize(records, o), rec, TRUE)
        /\ IsHead(records, b, o)
    BY <2>1 DEF SelectBranch
  <2>3. /\ rec \in Record /\ rec.parent = o /\ rec.base = o
        /\ rec.branch = b
    BY <2>1 DEF BranchRecord, Record, NextOffset
  <2>4. ParentIsNewest(records, o, b, n + 1)
    BY <2>2 DEF IsHead, OnBranch, ParentIsNewest
  <2> HIDE DEF rec
  <2> QED
    BY <1>1, <2>1, <2>2, <2>3, <2>4
<1> QED
  BY <1>2, <1>3, <1>4

\* From the write to the end of append_on, or to its failure.
LEMMA WriteStep ==
    ASSUME IInv, WriteFrame \/ Commit \/ WriteFails \/ SyncFails
    PROVE  IInv'
<1> USE Facts DEF IInv
<1> DEFINE n == Len(records)
           rec == pending.rec
<1>0. /\ mode \in {"writing", "syncing"} /\ ~failed /\ recovery = "none"
      /\ ~damaged
      /\ pending \in Pending
      /\ ValidAt(rec, n + 1)
      /\ CanApply(Materialize(records, rec.parent), rec)
      /\ ParentIsNewest(records, rec.parent, rec.branch, n + 1)
      /\ snapshot = Applied(Materialize(records, rec.parent), rec)
      /\ pending.old = Materialize(records, n)
      /\ ~pending.branching => rec.parent = n
  BY DEF WriteFrame, Commit, WriteFails, SyncFails, ModeInv, PendingInv,
     NextOffset
<1>1. /\ rec \in Record /\ rec.branch \in BranchNames /\ rec.offset = n + 1
      /\ pending.old \in Snapshot
  BY <1>0 DEF Pending, Record, ValidAt
<1> HIDE DEF rec
<1>2. /\ Append(records, rec) \in Seq(Record)
      /\ Len(Append(records, rec)) = n + 1
      /\ Append(records, rec)[n + 1] = rec
      /\ Agree(records, Append(records, rec))
      /\ Agree(Append(records, rec), Append(records, rec))
  BY <1>1, AgreeFacts DEF TypeOK
<1>3. /\ Replays(Append(records, rec)) /\ Lines(Append(records, rec))
      /\ Materialize(Append(records, rec), n + 1) =
             [snapshot EXCEPT !.branch = rec.branch]
  BY <1>0, <1>1, GrownReplays
<1>4. CASE WriteFrame
  <2>1. /\ mode = "writing" /\ n = Len(disk) /\ records = disk
        /\ disk' = Append(records, rec) /\ mode' = "syncing"
    BY <1>0, <1>4 DEF WriteFrame, ModeInv, rec
  <2>0. \A k \in 1 .. durable : disk'[k] = disk[k]
    <3>1. durable \in Nat /\ durable <= n
      BY <2>1 DEF TypeOK, HeaderInv
    <3> QED
      BY <1>2, <2>1, <3>1 DEF Agree
  <2>2. AckedDurable' /\ CutInv'
    <3>1. UNCHANGED <<acked, aside, durable, cut>>
      BY <1>4 DEF WriteFrame
    <3> QED
      BY <2>0, <3>1 DEF AckedDurable, CutInv, Whole
  <2>3. /\ TypeOK' /\ HeaderInv' /\ MemoryInv' /\ PendingInv'
    BY <1>2, <1>4, <2>1 DEF WriteFrame, TypeOK, Modes, memory, HeaderInv,
       MemoryInv, PendingInv, NextOffset
  <2>4. ModeInv'
    BY <1>0, <1>2, <1>4, <2>1 DEF WriteFrame, memory, ModeInv, HeaderInv, rec
  <2> QED
    BY <1>3, <2>1, <2>2, <2>3, <2>4
<1>5. CASE Commit
  <2>1. /\ mode = "syncing" /\ mode' = "open"
        /\ disk = Append(records, rec) /\ disk' = disk
        /\ records' = disk /\ durable' = n + 1 /\ header' = "synced"
        /\ acked' = acked \cup {rec} /\ aside' = aside /\ cut' = {}
        /\ snapshot' = [snapshot EXCEPT !.branch = rec.branch]
    BY <1>2, <1>5 DEF Commit, ModeInv, rec
  <2>2. snapshot' \in Snapshot
    BY <1>1, <2>1 DEF TypeOK, Snapshot
  <2>3. AckedDurable'
    <3> SUFFICES ASSUME NEW r \in acked \cup {rec}
                 PROVE  \/ r.offset \in 1 .. n + 1 /\ disk[r.offset] = r
                        \/ r \in aside
      BY <2>1 DEF AckedDurable
    <3>1. CASE r = rec
      BY <1>1, <1>2, <2>1, <3>1
    <3>2. CASE r \in acked
      <4>1. durable \in Nat /\ durable <= n + 1
        BY <1>2, <2>1 DEF HeaderInv, TypeOK
      <4>2. (r.offset \in 1 .. durable /\ disk[r.offset] = r) \/ r \in aside
        BY <3>2 DEF AckedDurable
      <4> QED
        BY <4>1, <4>2
    <3> QED
      BY <3>1, <3>2
  <2>4. TypeOK' /\ HeaderInv'
    <3>1. acked' \in SUBSET Record /\ durable' \in Nat /\ disk \in Seq(Record)
      BY <1>1, <2>1 DEF TypeOK
    <3>2. TypeOK'
      BY <1>5, <2>1, <2>2, <3>1 DEF Commit, TypeOK, Modes
    <3>3. HeaderInv'
      BY <1>2, <2>1 DEF HeaderInv
    <3> QED
      BY <3>2, <3>3
  <2>5. MemoryInv' /\ ModeInv' /\ PendingInv' /\ CutInv'
    BY <1>0, <1>2, <1>3, <1>5, <2>1
    DEF Commit, ModeInv, MemoryInv, PendingInv, CutInv
  <2> QED
    BY <1>3, <2>1, <2>3, <2>4, <2>5
<1>6. ASSUME Abandon, disk' = disk, records' = records, acked' = acked,
             durable' = durable, header' = header, recovery' = recovery,
             cut' = cut, aside' = aside,
             damaged' \in BOOLEAN, dirty' \in BOOLEAN, faults' \in Nat
      PROVE  IInv'
  <2>1. snapshot' = Materialize(records, n) /\ snapshot' \in Snapshot
    <3>1. n \in 0 .. n
      OBVIOUS
    <3>2. Materialize(records, n) \in Snapshot
      BY <3>1, MaterializeType
    <3> QED
      BY <1>0, <1>6, <3>2 DEF Abandon, rec
  <2>2. Len(disk) <= n + 1 /\ durable <= n
    BY <1>0, <1>2 DEF ModeInv, HeaderInv, rec
  <2>3. header \in {"cached", "synced"}
    BY <1>0 DEF HeaderInv, TypeOK
  <2> QED
    BY <1>0, <1>6, <2>1, <2>2, <2>3
    DEF Abandon, TypeOK, Modes, HeaderInv, ModeInv, MemoryInv, PendingInv,
        CutInv, AckedDurable
<1>7. CASE WriteFails
  <2>1. damaged' \in BOOLEAN
    BY <1>7, Zenon DEF WriteFails, TypeOK
  <2>2. dirty' \in BOOLEAN /\ faults' \in Nat
    BY <1>7 DEF WriteFails, Fault, TypeOK
  <2> QED
    BY <1>6, <1>7, <2>1, <2>2 DEF WriteFails
<1>8. CASE SyncFails
  BY <1>6, <1>8 DEF SyncFails, Fault, TypeOK, file
<1> QED
  BY <1>4, <1>5, <1>7, <1>8

\* A repair takes frames only from what a failed read left unread, and has set
\* them aside.
LEMMA RepairStep ==
    ASSUME IInv, RepairCopy \/ RepairTruncate \/ RepairDone \/ RepairFails
    PROVE  IInv'
<1> USE Facts DEF IInv
<1> DEFINE n == Len(records)
<1>1. CASE RepairCopy
  <2>1. /\ UNCHANGED <<header, disk, damaged, durable, dirty, cut, memory, acked,
                       faults>>
        /\ mode = "open" /\ mode' = "copied" /\ recovery # "none"
        /\ aside' = aside \cup Suffix /\ Suffix' = Suffix
    BY <1>1 DEF RepairCopy, memory, Suffix
  <2>2. \A i \in n + 1 .. Len(disk) : disk[i] \in Record
    BY DEF Tree
  <2>3. aside' \in SUBSET Record
    BY <2>1, <2>2 DEF TypeOK, Suffix
  <2> QED
    BY <2>1, <2>3 DEF TypeOK, Modes, memory, HeaderInv, ModeInv, MemoryInv,
       PendingInv, CutInv, AckedDurable
<1>2. CASE RepairTruncate
  <2>1. /\ mode = "copied" /\ recovery # "none" /\ ~failed
        /\ Suffix \subseteq aside /\ mode' = "truncated"
        /\ disk' = SubSeq(disk, 1, n) /\ damaged' = FALSE /\ dirty' = TRUE
        /\ durable' = IF durable < n THEN durable ELSE n
        /\ cut' = cut \cup {disk}
        /\ UNCHANGED <<header, aside, memory, acked, faults>>
    BY <1>2 DEF RepairTruncate, CutAt, ModeInv
  <2>2. /\ disk' \in Seq(Record) /\ Len(disk') = n /\ Agree(disk', disk)
        /\ \A k \in 1 .. n : disk'[k] = disk[k]
    <3>1. /\ disk' \in Seq(Record) /\ Len(disk') = n /\ Agree(disk', disk)
      BY <2>1, AgreeFacts DEF TypeOK
    <3> QED
      BY <3>1 DEF Agree
  <2>3. Replays(disk') /\ Lines(disk')
    BY <2>2, CutReplays
  <2>4. Agree(records, disk')
    BY <2>2 DEF Agree, MemoryInv
  <2>5. /\ durable' \in Nat /\ durable' <= durable /\ durable' <= n
        /\ durable \in Nat /\ durable <= Len(disk)
    BY <2>1 DEF TypeOK, HeaderInv
  <2>6. CutInv'
    <3> SUFFICES ASSUME NEW whole \in cut \cup {disk}
                 PROVE  Whole(disk', durable', whole)
      BY <2>1 DEF CutInv
    <3>1. Whole(disk, durable, whole)
      BY <2>5 DEF CutInv, Whole
    <3>2. \A k \in 1 .. durable' : k \in 1 .. durable /\ k \in 1 .. n
      BY <2>5
    <3>3. Len(whole) \in Nat
      BY <3>1 DEF Whole, Replays
    <3> QED
      BY <2>2, <2>5, <3>1, <3>2, <3>3 DEF Whole
  <2>7. AckedDurable'
    <3> SUFFICES ASSUME NEW r \in acked, r \notin aside
                 PROVE  r.offset \in 1 .. durable' /\ disk'[r.offset] = r
      BY <2>1 DEF AckedDurable
    <3>1. r.offset \in 1 .. durable /\ disk[r.offset] = r
      BY DEF AckedDurable
    <3>2. r.offset \in 1 .. n
      <4>1. ASSUME r.offset \notin 1 .. n
            PROVE  FALSE
        <5>1. r.offset \in n + 1 .. Len(disk)
          BY <2>5, <3>1, <4>1
        <5>2. r \in Suffix
          BY <3>1, <5>1 DEF Suffix
        <5> QED
          BY <2>1, <5>2
      <4> QED
        BY <4>1
    <3>3. r.offset \in 1 .. durable'
      BY <2>1, <2>5, <3>1, <3>2
    <3> QED
      BY <2>2, <3>1, <3>2, <3>3
  <2>8. TypeOK'
    <3>1. cut' \in SUBSET Seq(Record)
      BY <2>1 DEF TypeOK
    <3> QED
      BY <2>1, <2>2, <2>5, <3>1 DEF TypeOK, Modes, memory
  <2>9. HeaderInv' /\ ModeInv' /\ MemoryInv' /\ PendingInv'
    <3>1. header \in {"cached", "synced"}
      BY <2>1 DEF HeaderInv, TypeOK
    <3>2. header # "synced" => durable' = 0 /\ acked' = {}
      BY <2>1, <2>5 DEF HeaderInv
    <3>3. HeaderInv'
      BY <2>1, <2>2, <2>5, <3>1, <3>2 DEF HeaderInv
    <3>4. ModeInv'
      BY <2>1, <2>2 DEF ModeInv, memory
    <3>5. MemoryInv' /\ PendingInv'
      BY <2>1, <2>4 DEF MemoryInv, PendingInv, memory
    <3> QED
      BY <3>3, <3>4, <3>5
  <2> QED
    BY <2>3, <2>6, <2>7, <2>8, <2>9
<1>3. CASE RepairDone
  <2>1. /\ mode = "truncated" /\ mode' = "open" /\ Len(disk) = n /\ ~damaged
        /\ durable' = Len(disk) /\ header' = "synced" /\ cut' = {}
        /\ recovery' = "none" /\ failed' = FALSE /\ dirty' = FALSE
        /\ UNCHANGED <<disk, damaged, aside, records, snapshot, pending, acked,
                       faults>>
    BY <1>3 DEF RepairDone, Repaired, ModeInv
  <2>2. AckedDurable'
    <3>1. durable \in Nat /\ durable <= Len(disk)
      BY DEF HeaderInv, TypeOK
    <3> QED
      BY <2>1, <3>1 DEF AckedDurable
  <2> QED
    BY <2>1, <2>2
    DEF TypeOK, Modes, HeaderInv, ModeInv, MemoryInv, PendingInv, CutInv
<1>4. CASE RepairFails
  <2>1. /\ mode \in {"copied", "truncated"} /\ mode' = "open"
        /\ faults' \in Nat /\ UNCHANGED <<file, memory, acked>>
    BY <1>4 DEF RepairFails, Fault, TypeOK
  <2> QED
    BY <2>1 DEF TypeOK, Modes, file, memory, HeaderInv, ModeInv, MemoryInv,
       PendingInv, CutInv, AckedDurable
<1> QED
  BY <1>1, <1>2, <1>3, <1>4

\* A crash leaves a file that replays and holds what was acknowledged.
LEMMA CrashStep ==
    ASSUME IInv, ProcessDies \/ PowerLoss
    PROVE  IInv'
<1> USE Facts DEF IInv
<1>0. /\ mode' = "closed"
      /\ records' \in Seq(Record) /\ snapshot' \in Snapshot
      /\ failed' \in BOOLEAN
      /\ recovery' \in {"none", "damaged", "unread"}
      /\ pending' \in Pending \cup {NoPending}
      /\ acked' \in SUBSET Record
      /\ faults' \in Nat
  <2>1. mode' = "closed" /\ Forget /\ Fault /\ acked' = acked
    BY DEF ProcessDies, PowerLoss
  <2>2. records' \in Seq(Record) /\ snapshot' \in Snapshot
    BY <2>1 DEF Forget
  <2>3. failed' \in BOOLEAN /\ recovery' \in {"none", "damaged", "unread"}
    BY <2>1 DEF Forget
  <2>4. pending' \in Pending \cup {NoPending}
    BY <2>1 DEF Forget
  <2>5. acked' \in SUBSET Record
    BY <2>1 DEF TypeOK
  <2>6. faults' \in Nat
    BY <2>1 DEF Fault, TypeOK
  <2> QED
    BY <2>1, <2>2, <2>3, <2>4, <2>5, <2>6
<1>1. CASE ProcessDies
  <2>1. damaged' \in BOOLEAN
    BY <1>1, Zenon DEF ProcessDies, TypeOK
  <2>2. dirty' \in BOOLEAN
    BY <1>1, Zenon DEF ProcessDies, TypeOK
  <2>3. /\ header' \in {"absent", "torn", "cached", "synced"}
        /\ header' # "synced" => durable = 0
        /\ header' \in {"absent", "torn"} => disk = <<>> /\ ~damaged'
    BY <1>1 DEF ProcessDies, HeaderInv, TypeOK
  <2>4. TypeOK'
    BY <1>0, <1>1, <2>1, <2>2, <2>3 DEF ProcessDies, TypeOK, Modes
  <2>5. HeaderInv'
    BY <1>1, <2>3 DEF ProcessDies, HeaderInv
  <2>6. ModeInv' /\ MemoryInv' /\ PendingInv' /\ CutInv' /\ AckedDurable'
    BY <1>1
    DEF ProcessDies, Forget, ModeInv, MemoryInv, PendingInv, CutInv, AckedDurable
  <2> QED
    BY <1>1, <2>4, <2>5, <2>6 DEF ProcessDies
<1>2. CASE PowerLoss
  <2>1. ASSUME header # "synced", header' \in {"absent", "torn"},
               disk' = <<>>, durable' = 0, damaged' = FALSE
        PROVE  IInv'
    <3>1. Replays(<<>>) /\ Lines(<<>>) /\ Agree(<<>>, <<>>)
      BY DEF Replays, Lines, Agree
    <3>2. TypeOK' /\ HeaderInv'
      <4>1. dirty' \in BOOLEAN
        BY <1>2 DEF PowerLoss
      <4>2. TypeOK'
        BY <1>0, <1>2, <2>1, <4>1 DEF PowerLoss, TypeOK, Modes
      <4> QED
        BY <1>0, <1>2, <2>1, <4>2 DEF PowerLoss, HeaderInv
    <3>3. ModeInv' /\ MemoryInv' /\ PendingInv' /\ CutInv' /\ AckedDurable'
      BY <1>2, <2>1, <3>1
      DEF PowerLoss, Forget, HeaderInv, ModeInv, MemoryInv, PendingInv, CutInv,
          AckedDurable
    <3> QED
      BY <2>1, <3>1, <3>2, <3>3
  <2>2. ASSUME NEW whole \in cut \cup {disk}, NEW kept \in durable .. Len(whole),
               header' = "synced",
               disk' = SubSeq(whole, 1, kept), durable' = kept,
               damaged' \in BOOLEAN
        PROVE  IInv'
    <3>0. Whole(disk, durable, whole) /\ Len(whole) \in Nat /\ durable \in Nat
      <4>1. Whole(disk, durable, whole)
        BY DEF CutInv, HeaderInv, Whole
      <4> QED
        BY <4>1 DEF Whole, Replays, TypeOK
    <3>1. kept \in Nat /\ durable <= kept /\ kept <= Len(whole)
      BY <3>0
    <3>2. /\ disk' \in Seq(Record) /\ Len(disk') = kept /\ Agree(disk', whole)
          /\ Agree(<<>>, disk')
      BY <2>2, <3>0, <3>1, AgreeFacts DEF Whole, Replays
    <3>3. Replays(disk') /\ Lines(disk')
      BY <3>0, <3>2, CutReplays DEF Whole
    <3>4. AckedDurable'
      <4> SUFFICES ASSUME NEW r \in acked, r \notin aside
                   PROVE  r.offset \in 1 .. kept /\ disk'[r.offset] = r
        BY <1>2, <2>2 DEF PowerLoss, AckedDurable
      <4>1. r.offset \in 1 .. durable /\ disk[r.offset] = r
        BY DEF AckedDurable
      <4>2. r.offset \in 1 .. kept
        BY <3>0, <3>1, <4>1
      <4>3. whole[r.offset] = r
        BY <3>0, <4>1 DEF Whole
      <4> QED
        BY <3>2, <4>2, <4>3 DEF Agree
    <3>5. TypeOK' /\ HeaderInv'
      <4>1. dirty' \in BOOLEAN /\ cut' = {} /\ UNCHANGED <<aside, acked>>
        BY <1>2 DEF PowerLoss
      <4>2. TypeOK'
        BY <1>0, <2>2, <3>1, <3>2, <4>1 DEF TypeOK, Modes
      <4> QED
        BY <1>0, <2>2, <3>1, <3>2, <4>2 DEF HeaderInv
    <3>6. ModeInv' /\ MemoryInv' /\ PendingInv' /\ CutInv'
      BY <1>2, <3>2 DEF PowerLoss, Forget, ModeInv, MemoryInv, PendingInv, CutInv
    <3> QED
      BY <3>3, <3>4, <3>5, <3>6
  <2> QED
    BY <1>2, <2>1, <2>2 DEF PowerLoss
<1> QED
  BY <1>1, <1>2

LEMMA Inductive == IInv /\ [Next]_vars => IInv'
<1> SUFFICES ASSUME IInv, [Next]_vars PROVE IInv'
  OBVIOUS
<1>1. CASE UNCHANGED vars
  BY <1>1 DEF IInv, vars, file, memory, TypeOK, HeaderInv, ModeInv, MemoryInv,
     PendingInv, CutInv, AckedDurable, NextOffset, Suffix
<1>2. CASE Next
  BY <1>2, OpeningStep, ReplayStep, AppendStep, WriteStep, RepairStep,
     CrashStep DEF Next
<1> QED
  BY <1>1, <1>2

LEMMA Invariant == Spec => []IInv
<1>1. Init => IInv
  BY Initial
<1>2. IInv /\ [Next]_vars => IInv'
  BY Inductive
<1> QED
  BY <1>1, <1>2, PTL DEF Spec

-----------------------------------------------------------------------------
(* The theorems. *)

\* The state of the journal is well typed.
THEOREM TypeCorrect == Spec => []TypeOK
BY Invariant, PTL DEF IInv

\* No failure takes or moves a record whose append_patch, fork_at or
\* select_branch returned Ok, unless a repair follows a read that failed; and
\* then the record is in the copy of that repair.
THEOREM AckedDurableCorrect == Spec => []AckedDurable
BY Invariant, PTL DEF IInv

\* An open journal's memory is the beginning of the file, and the whole of it but
\* for one frame whose sync failed and for what a failed read left out; it accepts
\* appends only if the next frame lands behind readable ones.
THEOREM MemoryMatchesFileCorrect == Spec => []MemoryMatchesFile
<1>1. IInv => MemoryMatchesFile
  <2> SUFFICES ASSUME IInv, mode = "open"
               PROVE  /\ Len(records) <= Len(disk)
                      /\ records = SubSeq(disk, 1, Len(records))
                      /\ recovery # "unread" => Len(disk) <= Len(records) + 1
                      /\ Writable => Len(disk) = Len(records) /\ ~damaged
    BY DEF MemoryMatchesFile
  <2>1. /\ disk \in Seq(Record) /\ records \in Seq(Record)
        /\ Agree(records, disk) /\ Len(records) <= Len(disk)
    BY DEF IInv, TypeOK, MemoryInv, Agree
  <2>2. records = SubSeq(disk, 1, Len(records))
    BY <2>1, AgreeFacts DEF Agree
  <2>3. recovery # "unread" => Len(disk) <= Len(records) + 1
    BY <2>1 DEF IInv, ModeInv
  <2>4. Writable => Len(disk) = Len(records) /\ ~damaged
    BY DEF IInv, ModeInv, Writable
  <2> QED
    BY <2>1, <2>2, <2>3, <2>4
<1> QED
  BY <1>1, Invariant, PTL

\* The incremental snapshot is what materialize computes from the root.
THEOREM SnapshotIsReplayCorrect == Spec => []SnapshotIsReplay
<1>1. IInv => SnapshotIsReplay
  BY DEF IInv, MemoryInv, SnapshotIsReplay
<1> QED
  BY <1>1, Invariant, PTL

\* Whatever was written, open's validation and apply_patch accept it.
THEOREM FilesReplayCorrect == Spec => []FilesReplay
<1>1. IInv => FilesReplay
  BY DEF IInv, Replays, FilesReplay
<1> QED
  BY <1>1, Invariant, PTL

\* A branch never loses a record: its history is a line.
THEOREM BranchesAreLinesCorrect == Spec => []BranchesAreLines
<1>1. IInv => BranchesAreLines
  BY DEF IInv, Lines, BranchesAreLines
<1> QED
  BY <1>1, Invariant, PTL

\* A process that has opened the journal, and could read it, sees every
\* acknowledged record that no repair has set aside.
THEOREM AckedVisibleCorrect == Spec => []AckedVisible
<1>1. IInv => AckedVisible
  <2> SUFFICES ASSUME IInv, mode = "open", recovery # "unread", NEW r \in acked,
                      r \notin aside
               PROVE  r.offset \in DOMAIN records /\ records[r.offset] = r
    BY DEF AckedVisible
  <2>1. r.offset \in 1 .. durable /\ disk[r.offset] = r /\ durable \in Nat
    BY DEF IInv, AckedDurable, TypeOK
  <2>2. Len(records) \in Nat /\ durable <= Len(records)
    BY Facts DEF IInv, ModeInv, HeaderInv
  <2>3. r.offset \in 1 .. Len(records)
    BY <2>1, <2>2
  <2> QED
    BY <2>1, <2>3 DEF IInv, MemoryInv, Agree, TypeOK
<1> QED
  BY <1>1, Invariant, PTL

-----------------------------------------------------------------------------
(* The refinement of AppendOnlyLog. *)

abstractLog == SubSeq(disk, 1, durable)

LEMMA LogFacts ==
    ASSUME IInv
    PROVE  /\ durable \in Nat /\ durable <= Len(disk)
           /\ abstractLog \in Seq(Record) /\ Len(abstractLog) = durable
           /\ Agree(abstractLog, disk)
           /\ Tree(abstractLog) /\ Replays(abstractLog) /\ Lines(abstractLog)
<1>1. /\ durable \in Nat /\ durable <= Len(disk) /\ disk \in Seq(Record)
      /\ Replays(disk) /\ Lines(disk)
  BY DEF IInv, TypeOK, HeaderInv
<1>2. /\ abstractLog \in Seq(Record) /\ Len(abstractLog) = durable
      /\ Agree(abstractLog, disk)
  BY <1>1, AgreeFacts DEF abstractLog
<1> QED
  BY <1>1, <1>2, CutReplays

\* The frames of a file that replays, with branches that are lines, are the
\* entries the abstract log admits.
LEMMA WellFormedEntries ==
    ASSUME NEW d, Replays(d), Lines(d), NEW i \in DOMAIN d
    PROVE  Log!WellFormed(d, i)
<1> DEFINE e == d[i]
<1>0. Tree(d) /\ d \in Seq(Record) /\ i \in 1 .. Len(d) /\ Len(d) \in Nat
  BY ReplaysTree DEF Replays
<1>1. /\ e \in Record /\ e.offset = i /\ e.parent \in 0 .. i - 1
  <2>1. e \in Record /\ e.offset = i /\ e.parent < i
    BY <1>0 DEF Replays, ValidAt
  <2> QED
    BY <1>0, <2>1 DEF Record
<1>2. ASSUME NEW k \in 1 .. i - 1, d[k].branch = e.branch
      PROVE  e.parent # 0 /\ d[e.parent].branch = e.branch
  <2>1. k \in DOMAIN d /\ k < i
    BY <1>0
  <2>2. e.parent \in DOMAIN d /\ d[e.parent].branch = e.branch
    BY <1>2, <2>1 DEF Lines, ParentIsNewest
  <2> QED
    BY <1>0, <2>2
<1> QED
  BY <1>1, <1>2 DEF Log!WellFormed

\* Only the repair of a file read in part shortens the log.
LEMMA LogGrows ==
    ASSUME IInv, [Next]_vars, ~(RepairTruncate /\ Len(records) < durable)
    PROVE  /\ durable <= durable'
           /\ Agree(abstractLog, abstractLog')
           /\ \/ acked' = acked
              \/ /\ mode = "syncing" /\ durable < durable'
                 /\ acked' = acked \cup {abstractLog'[durable']}
<1>0. IInv'
  BY Inductive
<1> DEFINE n == Len(records)
<1>1. /\ durable \in Nat /\ durable <= Len(disk) /\ disk \in Seq(Record)
      /\ Len(disk) \in Nat /\ n \in Nat
      /\ Len(abstractLog) = durable /\ Agree(abstractLog, disk)
      /\ abstractLog \in Seq(Record)
  BY LogFacts, Facts DEF IInv, TypeOK
<1>2. /\ durable' \in Nat /\ durable' <= Len(disk') /\ disk' \in Seq(Record)
      /\ Len(abstractLog') = durable' /\ Agree(abstractLog', disk')
      /\ abstractLog' \in Seq(Record)
  <2>1. ASSUME IInv'
        PROVE  /\ durable' \in Nat /\ durable' <= Len(disk')
               /\ disk' \in Seq(Record)
               /\ Len(abstractLog') = durable' /\ Agree(abstractLog', disk')
               /\ abstractLog' \in Seq(Record)
    <3>1. /\ durable' \in Nat /\ durable' <= Len(disk') /\ disk' \in Seq(Record)
      BY <2>1 DEF IInv, TypeOK, HeaderInv
    <3> QED
      BY <3>1, AgreeFacts DEF abstractLog
  <2> QED
    BY <1>0, <2>1
<1>3. ASSUME durable <= durable',
             \A k \in 1 .. durable : disk'[k] = disk[k]
      PROVE  Agree(abstractLog, abstractLog')
  BY <1>1, <1>2, <1>3 DEF Agree
<1>4. CASE Commit
  <2>1. /\ mode = "syncing" /\ disk = Append(records, pending.rec)
        /\ durable <= n /\ durable' = Len(disk) /\ disk' = disk
        /\ acked' = acked \cup {pending.rec}
        /\ records \in Seq(Record) /\ pending.rec \in Record
    BY <1>4 DEF Commit, IInv, ModeInv, PendingInv, TypeOK, Pending
  <2>2. durable' = n + 1 /\ disk[n + 1] = pending.rec /\ n \in Nat
    BY <2>1
  <2>3. abstractLog'[durable'] = pending.rec
    BY <1>2, <2>1, <2>2 DEF Agree
  <2> QED
    BY <1>1, <1>3, <2>1, <2>2, <2>3
<1>5. CASE WriteFrame
  <2>1. /\ disk' \in {disk, Append(disk, pending.rec)}
        /\ durable' = durable /\ acked' = acked
    BY <1>5 DEF WriteFrame
  <2> QED
    BY <1>1, <1>3, <2>1
<1>6. CASE RepairTruncate
  <2>1. durable <= n
    BY <1>1, <1>6
  <2>2. n <= Len(disk)
    BY <1>1, <1>6 DEF RepairTruncate, CutAt, IInv, MemoryInv, Agree
  <2>3. disk' = SubSeq(disk, 1, n) /\ acked' = acked /\ durable' = durable
    BY <1>1, <1>6, <2>1 DEF RepairTruncate, CutAt
  <2>4. \A k \in 1 .. durable : disk'[k] = disk[k]
    BY <1>1, <2>1, <2>2, <2>3
  <2>5. durable <= durable'
    BY <1>1, <2>3
  <2>6. Agree(abstractLog, abstractLog')
    BY <1>3, <2>4, <2>5
  <2> QED
    BY <2>3, <2>5, <2>6
<1>7. CASE PowerLoss
  <2>1. acked' = acked
    BY <1>7 DEF PowerLoss
  <2>2. CASE header # "synced" /\ durable' = 0
    <3>1. durable = 0
      BY <2>2 DEF IInv, HeaderInv
    <3> QED
      BY <1>3, <2>1, <2>2, <3>1
  <2>3. ASSUME NEW whole \in cut \cup {disk}, NEW kept \in durable .. Len(whole),
               disk' = SubSeq(whole, 1, kept), durable' = kept
        PROVE  durable <= durable' /\ Agree(abstractLog, abstractLog')
    <3>1. /\ whole \in Seq(Record) /\ durable <= Len(whole)
          /\ \A k \in 1 .. durable : whole[k] = disk[k]
      BY <1>1, <2>3 DEF IInv, CutInv, Whole, Replays
    <3>2. kept \in Nat /\ kept <= Len(whole) /\ durable <= kept
      BY <1>1, <3>1
    <3>3. \A k \in 1 .. durable : disk'[k] = disk[k]
      BY <1>1, <2>3, <3>1, <3>2
    <3> QED
      BY <1>3, <2>3, <3>2, <3>3
  <2> QED
    BY <1>7, <2>1, <2>2, <2>3 DEF PowerLoss
<1>8. CASE RepairDone
  BY <1>1, <1>3, <1>8 DEF RepairDone, Repaired
<1>9. CASE UNCHANGED <<disk, durable, acked>>
  BY <1>1, <1>3, <1>9
<1>10. \/ Commit \/ WriteFrame \/ RepairTruncate \/ PowerLoss \/ RepairDone
       \/ UNCHANGED <<disk, durable, acked>>
  BY DEF Next, vars, file, memory, Create, Created, CreateFails, Open, Close,
     ReplayRecord, ReplayEnds, Append1, Fork1, Select1, AppendPatch, ForkAt,
     SelectBranch, StartAppend, WriteFails, SyncFails, RepairCopy,
     RepairFails, ProcessDies
<1> QED
  BY <1>4, <1>5, <1>6, <1>7, <1>8, <1>9, <1>10

\* What the repair takes from the log is what a failed read kept from this
\* process, and is in the copy made before.
LEMMA LogSetAside ==
    ASSUME IInv, RepairTruncate, Len(records) < durable
    PROVE  /\ recovery = "unread"
           /\ Len(records) \in 0 .. Len(abstractLog)
           /\ abstractLog' = SubSeq(abstractLog, 1, Len(records))
           /\ \A i \in Len(records) + 1 .. Len(abstractLog) :
                  abstractLog[i] \in aside
           /\ acked' = acked
<1> DEFINE n == Len(records)
<1>1. /\ durable \in Nat /\ durable <= Len(disk) /\ disk \in Seq(Record)
      /\ Len(disk) \in Nat /\ n \in Nat /\ n < durable
      /\ Len(abstractLog) = durable /\ Agree(abstractLog, disk)
      /\ abstractLog \in Seq(Record)
  BY LogFacts, Facts DEF IInv, TypeOK
<1>2. mode = "copied" /\ recovery = "unread" /\ Suffix \subseteq aside
  BY <1>1 DEF RepairTruncate, CutAt, IInv, ModeInv
<1>3. /\ disk' = SubSeq(disk, 1, n) /\ durable' = n /\ acked' = acked
  BY <1>1 DEF RepairTruncate, CutAt
<1>4. abstractLog' = SubSeq(abstractLog, 1, n)
  <2> DEFINE a == SubSeq(SubSeq(disk, 1, n), 1, n)
             b == SubSeq(SubSeq(disk, 1, durable), 1, n)
  <2>1. /\ a \in Seq(Record) /\ b \in Seq(Record)
        /\ Len(a) = n /\ Len(b) = n
    BY <1>1
  <2>2. \A i \in 1 .. n : a[i] = disk[i] /\ b[i] = disk[i]
    BY <1>1
  <2>3. a = b
    BY <2>1, <2>2, SeqEqual
  <2> QED
    BY <1>3, <2>3 DEF abstractLog
<1>5. ASSUME NEW i \in n + 1 .. durable
      PROVE  abstractLog[i] \in aside
  <2>1. i \in n + 1 .. Len(disk) /\ abstractLog[i] = disk[i]
    BY <1>1 DEF Agree
  <2> QED
    BY <1>2, <2>1 DEF Suffix
<1> QED
  BY <1>1, <1>2, <1>3, <1>4, <1>5

\* No step deletes a copy.
LEMMA AsideGrows ==
    ASSUME [Next]_vars
    PROVE  aside \subseteq aside'
<1>1. CASE RepairCopy
  BY <1>1 DEF RepairCopy
<1>2. CASE UNCHANGED aside
  BY <1>2
<1>3. RepairCopy \/ UNCHANGED aside
  BY DEF Next, vars, file, memory, Create, Created, CreateFails, Open, Close,
     ReplayRecord, ReplayEnds, Append1, Fork1, Select1, AppendPatch, ForkAt,
     SelectBranch, StartAppend, WriteFrame, Commit, WriteFails, SyncFails,
     RepairTruncate, CutAt, RepairDone, Repaired, RepairFails, ProcessDies,
     PowerLoss
<1> QED
  BY <1>1, <1>2, <1>3

\* append_on, open, repair_suffix and every failure, a read's included, together
\* implement the log their callers are promised: it loses nothing but to the
\* repair of a file read in part, and that sets aside what it takes.
THEOREM Refinement == Spec => ImplementsLog
<1>1. Init => Log!Init
  <2> SUFFICES ASSUME Init
               PROVE  /\ SubSeq(disk, 1, durable) = <<>> /\ acked = {}
                      /\ aside = {}
    BY DEF Log!Init
  <2> QED
    BY DEF Init
<1>2. IInv /\ [Next]_vars => [Log!Next]_<<abstractLog, acked, aside>>
  <2> SUFFICES ASSUME IInv, [Next]_vars
               PROVE  Log!Extend \/ Log!SetAside
    BY AsideGrows DEF Log!Next, abstractLog
  <2>0. IInv'
    BY Inductive
  <2>1. /\ abstractLog \in Seq(Record) /\ Len(abstractLog) = durable
        /\ durable \in Nat
    BY LogFacts
  <2>2. ASSUME IInv'
        PROVE  /\ abstractLog' \in Seq(Record) /\ Len(abstractLog') = durable'
               /\ durable' \in Nat
               /\ Replays(abstractLog') /\ Lines(abstractLog')
    <3>1. /\ durable' \in Nat /\ durable' <= Len(disk')
          /\ disk' \in Seq(Record) /\ Replays(disk') /\ Lines(disk')
      BY <2>2 DEF IInv, TypeOK, HeaderInv
    <3>2. /\ abstractLog' \in Seq(Record) /\ Len(abstractLog') = durable'
          /\ Agree(abstractLog', disk')
      BY <3>1, AgreeFacts DEF abstractLog
    <3> QED
      BY <3>1, <3>2, CutReplays
  <2>3. CASE RepairTruncate /\ Len(records) < durable
    <3>1. Log!SetAside
      BY <2>3, LogSetAside DEF Log!SetAside, abstractLog
    <3> QED
      BY <3>1
  <2>4. CASE ~(RepairTruncate /\ Len(records) < durable)
    <3>1. /\ Len(abstractLog) <= Len(abstractLog')
          /\ SubSeq(abstractLog', 1, Len(abstractLog)) = abstractLog
      BY <2>0, <2>1, <2>2, <2>4, LogGrows DEF Agree
    <3>2. \A i \in Len(abstractLog) + 1 .. Len(abstractLog') :
              Log!WellFormed(abstractLog', i)
      <4>1. \A i \in DOMAIN abstractLog' : Log!WellFormed(abstractLog', i)
        BY <2>0, <2>2, WellFormedEntries
      <4> QED
        BY <2>0, <2>1, <2>2, <4>1
    <3>3. \/ acked' = acked
          \/ /\ abstractLog' # abstractLog
             /\ acked' = acked \cup {abstractLog'[Len(abstractLog')]}
      BY <2>0, <2>1, <2>2, <2>4, LogGrows
    <3>4. Log!Extend
      BY <3>1, <3>2, <3>3 DEF Log!Extend, abstractLog
    <3> QED
      BY <3>4
  <2> QED
    BY <2>3, <2>4
<1>3. Init /\ [][Next]_vars => []IInv
  BY Invariant DEF Spec
<1> QED
  BY <1>1, <1>2, <1>3, PTL DEF Spec, ImplementsLog, Log!Spec, abstractLog

=============================================================================
