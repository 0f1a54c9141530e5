------------------------------ MODULE Journal ------------------------------
(***************************************************************************)
(* The session journal of crates/omp-state/src/journal.rs: one append-only *)
(* file of checksummed frames, a tree of records in memory, and the        *)
(* running snapshot.  One process writes it (the OS file lock), so what    *)
(* interleaves with its steps is failure: an I/O error, the death of the   *)
(* process (Worker::interrupt kills it at any instant) and the loss of     *)
(* power, each possible between any two steps of a call.                   *)
(*                                                                         *)
(* Abstractions.  A frame is a record or unreadable bytes; `disk' is the   *)
(* sequence of frames that read back whole from the start of the file and  *)
(* `damaged' says that unreadable bytes follow them.  What is there may    *)
(* still not be read: a read that fails, and works the next time, is an    *)
(* I/O error like the others.  A patch either creates one element or does  *)
(* nothing the other records can see, and a snapshot is the set of records *)
(* applied to reach it: the document is a function of that set, since a    *)
(* record always follows its parent.                                       *)
(***************************************************************************)
EXTENDS Naturals, Sequences, FiniteSets

CONSTANTS Elements,     \* ids of the elements that patches create
          NoElement,    \* a patch that creates none (or a freshly minted one)
          Branches,     \* names BranchId::mint can return
          Main,         \* the branch a session starts on
          NoPending,    \* no append is in progress
          MaxOffset,    \* bound: records per journal
          MaxAcked,     \* bound: records acknowledged per behaviour
          MaxFaults     \* bound: I/O errors and crashes per behaviour

ASSUME JournalAssumption ==
    /\ Main \notin Branches
    /\ NoElement \notin Elements
    /\ MaxOffset \in Nat /\ MaxAcked \in Nat
    /\ MaxFaults \in Nat

VARIABLES
    header,     \* the magic and header frame: "absent", "torn" (what is there
                \* does not read back), "cached" (whole, not synced), "synced"
    disk,       \* the frames that read back, in file order
    damaged,    \* unreadable bytes follow them
    durable,    \* how many of them a power loss cannot take
    dirty,      \* the file has changed since the last successful sync
    cut,        \* the frames of the file before each cut since that sync
    aside,      \* the frames in the synced copies that repairs leave
    mode,       \* where the process stands in create, open, append or repair
    records,    \* Journal.records, keyed by offset
    snapshot,   \* Journal.snapshot
    failed,     \* Journal.failed
    recovery,   \* Journal.recovery: "none", or what ended the replay, bytes that
                \* are "damaged" or were "unread" for an I/O error
    pending,    \* the append in progress
    acked,      \* history: the records whose append returned Ok
    faults      \* history: faults so far

file == <<header, disk, damaged, durable, dirty, cut, aside>>
memory == <<records, snapshot, failed, recovery, pending>>
vars == <<file, mode, memory, acked, faults>>

BranchNames == Branches \cup {Main}

Record == [offset : Nat, parent : Nat, base : Nat,
           branch : BranchNames, element : Elements \cup {NoElement}]

Snapshot == [offset : Nat, branch : BranchNames, applied : SUBSET Record]

Pending == [rec : Record, old : Snapshot, branching : BOOLEAN]

Modes == {"closed", "creating", "replaying", "open", "writing", "syncing",
          "copied", "truncated"}

TypeOK ==
    /\ header \in {"absent", "torn", "cached", "synced"}
    /\ disk \in Seq(Record)
    /\ damaged \in BOOLEAN
    /\ durable \in Nat
    /\ dirty \in BOOLEAN
    /\ cut \in SUBSET Seq(Record)
    /\ aside \in SUBSET Record
    /\ mode \in Modes
    /\ records \in Seq(Record)
    /\ snapshot \in Snapshot
    /\ failed \in BOOLEAN
    /\ recovery \in {"none", "damaged", "unread"}
    /\ pending \in Pending \cup {NoPending}
    /\ acked \in SUBSET Record
    /\ faults \in Nat

-----------------------------------------------------------------------------
(* Reading the tree of records. *)

Empty == [offset |-> 0, branch |-> Main, applied |-> {}]

ParentClosed(recs, S) ==
    \A k \in S : recs[k].parent # 0 => recs[k].parent \in S

\* The offsets on the path from the root to o: the least set that holds o and
\* the parent of each of its members.
Chain(recs, o) ==
    {k \in DOMAIN recs :
        \A S \in SUBSET DOMAIN recs :
            ParentClosed(recs, S) /\ (o # 0 => o \in S) => k \in S}

Materialize(recs, o) ==
    [offset  |-> o,
     branch  |-> IF o = 0 THEN Main ELSE recs[o].branch,
     applied |-> {recs[k] : k \in Chain(recs, o)}]

OnBranch(recs, b) == {k \in DOMAIN recs : recs[k].branch = b}

\* materialize_branch finds the newest record of the branch; "main" exists
\* before it has any.
IsHead(recs, b, o) ==
    \/ o \in OnBranch(recs, b) /\ \A k \in OnBranch(recs, b) : k <= o
    \/ o = 0 /\ b = Main /\ OnBranch(recs, b) = {}

\* apply_patch: the base must be the snapshot's offset, and an element id is
\* used once on a path.
CanApply(snap, rec) ==
    /\ rec.base = snap.offset
    /\ rec.element # NoElement =>
           \A r \in snap.applied : r.element # rec.element

Applied(snap, rec) ==
    [offset  |-> rec.offset,
     branch  |-> snap.branch,
     applied |-> snap.applied \cup {rec}]

\* validate_record, for the record read at offset n.
ValidAt(rec, n) ==
    /\ rec.offset = n
    /\ rec.parent < rec.offset
    /\ rec.base = rec.parent

NextOffset == Len(records) + 1

-----------------------------------------------------------------------------
Init ==
    /\ header = "absent"
    /\ disk = <<>>
    /\ damaged = FALSE
    /\ durable = 0
    /\ dirty = FALSE
    /\ cut = {}
    /\ aside = {}
    /\ mode = "closed"
    /\ records = <<>>
    /\ snapshot = Empty
    /\ failed = FALSE
    /\ recovery = "none"
    /\ pending = NoPending
    /\ acked = {}
    /\ faults = 0

Forget ==
    /\ records' = <<>>
    /\ snapshot' = Empty
    /\ failed' = FALSE
    /\ recovery' = "none"
    /\ pending' = NoPending

Fault == faults < MaxFaults /\ faults' = faults + 1

\* Journal::create makes the file (create_new), writes magic and header, and
\* syncs once.
Create ==
    /\ mode = "closed"
    /\ header = "absent"
    /\ header' = "torn"
    /\ dirty' = TRUE
    /\ mode' = "creating"
    /\ UNCHANGED <<disk, damaged, durable, cut, aside, memory, acked, faults>>

Created ==
    /\ mode = "creating"
    /\ header' = "synced"
    /\ dirty' = FALSE
    /\ mode' = "open"
    /\ UNCHANGED <<disk, damaged, durable, cut, aside, memory, acked, faults>>

CreateFails ==
    /\ mode = "creating"
    /\ Fault
    /\ header' \in {"torn", "cached"}
    /\ mode' = "closed"
    /\ UNCHANGED <<disk, damaged, durable, dirty, cut, aside, memory, acked>>

\* Journal::open refuses a file whose magic or header does not read back.
Open ==
    /\ mode = "closed"
    /\ header \in {"cached", "synced"}
    /\ mode' = "replaying"
    /\ UNCHANGED <<file, memory, acked, faults>>

\* Mutant of ReplayBase: open always takes the fast path, whatever the base.
ReplayBaseFast(rec) == [snapshot EXCEPT !.offset = rec.parent]

\* The state a record read at offset NextOffset applies to: the running
\* snapshot when the record is contiguous, its parent's state otherwise.
ReplayBase(rec) ==
    IF rec.parent = snapshot.offset
    THEN snapshot
    ELSE Materialize(records, rec.parent)

\* The next frame of the file, if it reads back, validates and applies.
Replayable ==
    {rec \in {disk[i] : i \in DOMAIN disk \cap {NextOffset}} :
        ValidAt(rec, NextOffset) /\ CanApply(ReplayBase(rec), rec)}

ReplayRecord ==
    /\ mode = "replaying"
    /\ \E rec \in Replayable :
          /\ snapshot' = [Applied(ReplayBase(rec), rec) EXCEPT
                             !.branch = rec.branch]
          /\ records' = Append(records, rec)
    /\ UNCHANGED <<file, mode, failed, recovery, pending, acked, faults>>

\* The end of the file, or the first frame that cannot be replayed: anything
\* after it is a damaged suffix.  An I/O error of a read is taken for one too,
\* wherever it happens and whatever is there.
ReplayEnds ==
    /\ mode = "replaying"
    /\ \/ /\ Replayable = {}
          /\ recovery' = IF damaged \/ Len(records) < Len(disk)
                         THEN "damaged" ELSE "none"
          /\ UNCHANGED faults
       \/ Fault /\ recovery' = "unread"
    /\ mode' = "open"
    /\ UNCHANGED <<file, records, snapshot, failed, pending, acked>>

-----------------------------------------------------------------------------
(* append_on, in the steps a failure can separate. *)

\* The guards, then apply_patch on `from': the running snapshot, or the one
\* that fork_at and select_branch swapped in for it.
StartAppend(from, rec, branching) ==
    /\ mode = "open"
    /\ ~failed
    /\ recovery = "none"
    /\ rec.offset = NextOffset
    /\ CanApply(from, rec)
    /\ snapshot' = Applied(from, rec)
    /\ pending' = [rec |-> rec, old |-> snapshot, branching |-> branching]
    /\ mode' = "writing"
    /\ UNCHANGED <<file, records, failed, recovery, acked, faults>>

AppendPatch(base, result, element) ==
    LET rec == [offset |-> result, parent |-> snapshot.offset, base |-> base,
                branch |-> snapshot.branch, element |-> element]
    IN  StartAppend(snapshot, rec, FALSE)

BranchRecord(o, b) ==
    [offset |-> NextOffset, parent |-> o, base |-> o, branch |-> b,
     element |-> NoElement]

\* fork_at and rewind_to: a minted branch whose first record hangs off o.
ForkAt(o, b) ==
    /\ \A i \in DOMAIN disk : disk[i].branch # b
    /\ StartAppend(Materialize(records, o), BranchRecord(o, b), TRUE)

\* select_branch: an empty patch on the newest record of b.
SelectBranch(o, b) ==
    /\ IsHead(records, b, o)
    /\ StartAppend(Materialize(records, o), BranchRecord(o, b), TRUE)

\* write_frame at the end of the file.  A frame behind unreadable bytes would
\* never be read back.
WriteFrame ==
    /\ mode = "writing"
    /\ disk' = IF damaged THEN disk ELSE Append(disk, pending.rec)
    /\ dirty' = TRUE
    /\ mode' = "syncing"
    /\ UNCHANGED <<header, damaged, durable, cut, aside, memory, acked, faults>>

\* The Ok branch: insert, select the branch, tell the observer, return.
Commit ==
    /\ mode = "syncing"
    /\ header' = "synced"
    /\ durable' = Len(disk)
    /\ dirty' = FALSE
    /\ cut' = {}
    /\ records' = Append(records, pending.rec)
    /\ snapshot' = [snapshot EXCEPT !.branch = pending.rec.branch]
    /\ pending' = NoPending
    /\ acked' = acked \cup {pending.rec}
    /\ mode' = "open"
    /\ UNCHANGED <<disk, damaged, aside, failed, recovery, faults>>

\* Mutant of Abandon: an I/O error does not poison the journal.
AbandonUnpoisoned ==
    /\ snapshot' = IF pending.branching
                   THEN pending.old
                   ELSE Materialize(records, pending.rec.parent)
    /\ UNCHANGED failed
    /\ pending' = NoPending
    /\ mode' = "open"

\* The Err branch of an I/O error: append_on rebuilds the previous snapshot
\* and poisons the journal, then fork_at and select_branch put back theirs.
Abandon ==
    /\ snapshot' = IF pending.branching
                   THEN pending.old
                   ELSE Materialize(records, pending.rec.parent)
    /\ failed' = TRUE
    /\ pending' = NoPending
    /\ mode' = "open"

WriteFails ==
    /\ mode = "writing"
    /\ Fault
    /\ damaged' \in {damaged, TRUE}
    /\ dirty' = TRUE
    /\ Abandon
    /\ UNCHANGED <<header, disk, durable, cut, aside, records, recovery, acked>>

SyncFails ==
    /\ mode = "syncing"
    /\ Fault
    /\ Abandon
    /\ UNCHANGED <<file, records, recovery, acked>>

-----------------------------------------------------------------------------
(* repair_suffix: copy and sync the suffix, cut it off, sync. *)

\* What of the file this process has not read.
Suffix == {disk[i] : i \in Len(records) + 1 .. Len(disk)}

RepairCopy ==
    /\ mode = "open"
    /\ recovery # "none"
    /\ aside' = aside \cup Suffix
    /\ mode' = "copied"
    /\ UNCHANGED <<header, disk, damaged, durable, dirty, cut, memory, acked,
                   faults>>

\* The file ends behind its first n frames.
CutAt(n) ==
    /\ mode = "copied"
    /\ disk' = SubSeq(disk, 1, n)
    /\ damaged' = FALSE
    /\ durable' = IF durable < n THEN durable ELSE n
    /\ dirty' = TRUE
    /\ cut' = cut \cup {disk}
    /\ mode' = "truncated"
    /\ UNCHANGED <<header, aside, memory, acked, faults>>

\* Mutant of RepairTruncate: the cut is one frame too early.
RepairTruncateShort == CutAt(Len(records) - 1)

RepairTruncate == CutAt(Len(records))

\* The file is synced and, or so it was meant, whole again.
Repaired ==
    /\ mode = "truncated"
    /\ header' = "synced"
    /\ durable' = Len(disk)
    /\ dirty' = FALSE
    /\ cut' = {}
    /\ failed' = FALSE
    /\ mode' = "open"
    /\ UNCHANGED <<disk, damaged, aside, records, snapshot, pending, acked, faults>>

\* Mutant of RepairDone: the diagnostic is kept after the repair.
RepairDoneKeepsRecovery == Repaired /\ UNCHANGED recovery

RepairDone == Repaired /\ recovery' = "none"

RepairFails ==
    /\ mode \in {"copied", "truncated"}
    /\ Fault
    /\ mode' = "open"
    /\ UNCHANGED <<file, memory, acked>>

-----------------------------------------------------------------------------
(* The end of a process, in order or not. *)

Close ==
    /\ mode = "open"
    /\ mode' = "closed"
    /\ Forget
    /\ UNCHANGED <<file, acked, faults>>

\* The process dies: the kernel keeps what it was given, which in the middle
\* of a write is part of a frame.
ProcessDies ==
    /\ mode # "closed"
    /\ Fault
    /\ header' \in IF mode = "creating" THEN {"torn", "cached"} ELSE {header}
    /\ damaged' \in IF mode = "writing" THEN {damaged, TRUE} ELSE {damaged}
    /\ dirty' = (dirty \/ mode = "writing")
    /\ mode' = "closed"
    /\ Forget
    /\ UNCHANGED <<disk, durable, cut, aside, acked>>

\* The power fails: of what was not synced any part may be missing, the file
\* itself if nothing ever was, and a cut may be undone.
PowerLoss ==
    /\ dirty
    /\ Fault
    /\ \/ /\ header # "synced"
          /\ header' \in {"absent", "torn"}
          /\ disk' = <<>>
          /\ durable' = 0
          /\ damaged' = FALSE
       \/ /\ header \in {"cached", "synced"}
          /\ header' = "synced"
          /\ \E whole \in cut \cup {disk} : \E kept \in durable .. Len(whole) :
                /\ disk' = SubSeq(whole, 1, kept)
                /\ durable' = kept
          /\ damaged' \in BOOLEAN
    /\ dirty' = FALSE
    /\ cut' = {}
    /\ mode' = "closed"
    /\ Forget
    /\ UNCHANGED <<aside, acked>>

-----------------------------------------------------------------------------
Room == NextOffset <= MaxOffset /\ Cardinality(acked) < MaxAcked

Append1 == /\ Room
           /\ \E base \in 0 .. MaxOffset, result \in 1 .. MaxOffset,
                 element \in Elements \cup {NoElement} :
                  AppendPatch(base, result, element)

Fork1 == /\ Room
         /\ \E o \in 0 .. Len(records), b \in Branches : ForkAt(o, b)

Select1 == /\ Room
           /\ \E o \in 0 .. Len(records), b \in BranchNames :
                  SelectBranch(o, b)

Next ==
    \/ Create \/ Created \/ CreateFails
    \/ Open \/ ReplayRecord \/ ReplayEnds
    \/ Append1 \/ Fork1 \/ Select1
    \/ WriteFrame \/ Commit \/ WriteFails \/ SyncFails
    \/ RepairCopy \/ RepairTruncate \/ RepairDone \/ RepairFails
    \/ Close \/ ProcessDies \/ PowerLoss

Spec == Init /\ [][Next]_vars

\* The session worker is restarted after it dies (Worker::interrupt), creates
\* the journal if there is no such file, opens it otherwise, and repairs it
\* before anything else (run_worker); a call once begun runs.  Other commands
\* may open the journal, look and close it any number of times in between,
\* hence the strong fairness of the repair.
FairSpec ==
    /\ Spec
    /\ WF_vars(Create \/ Created)
    /\ WF_vars(Open)
    /\ WF_vars(ReplayRecord \/ ReplayEnds)
    /\ SF_vars(RepairCopy)
    /\ WF_vars(RepairTruncate \/ RepairDone)

-----------------------------------------------------------------------------
Writable == mode = "open" /\ ~failed /\ recovery = "none"

\* A record whose append returned Ok (append_on line 334) is in the file for
\* good: no crash, power loss, failed append or repair of damage takes it or
\* moves it.  A repair after a read that failed may cut it off, but then it is in
\* the copy that the repair made and synced before.
AckedDurable ==
    \A r \in acked :
        \/ r.offset \in 1 .. durable /\ disk[r.offset] = r
        \/ r \in aside

\* While the journal is open, what memory holds is the beginning of what a reader
\* of the file would find, and all of it except for one frame written but refused
\* by the sync, and for what a failed read kept from it; and a journal that
\* accepts appends has nothing unread where the next frame goes.
MemoryMatchesFile ==
    mode = "open" =>
        /\ Len(records) <= Len(disk)
        /\ records = SubSeq(disk, 1, Len(records))
        /\ recovery # "unread" => Len(disk) <= Len(records) + 1
        /\ Writable => Len(disk) = Len(records) /\ ~damaged

\* The running snapshot is the one a replay of the newest record's ancestry
\* gives: after an append, a fork, a selection, a failed one of them, and an
\* open with its incremental fast path.
SnapshotIsReplay ==
    mode = "open" => snapshot = Materialize(records, Len(records))

\* Every frame that reads back would be accepted by the next open: no frame
\* this code wrote and can read is later taken for damage.
FilesReplay ==
    \A i \in DOMAIN disk :
        /\ ValidAt(disk[i], i)
        /\ CanApply(Materialize(disk, disk[i].parent), disk[i])

\* Each branch is one line of history: a record sees every earlier record of
\* its branch, so nothing done on a branch is lost by forking, selecting,
\* crashing or repairing.
BranchesAreLines ==
    \A i, j \in DOMAIN disk :
        i < j /\ disk[i].branch = disk[j].branch => i \in Chain(disk, j)

\* An open journal has every acknowledged record, but for those that a failed read
\* keeps from it now or that a repair has set aside since.
AckedVisible ==
    mode = "open" /\ recovery # "unread" =>
        \A r \in acked :
            \/ r.offset \in DOMAIN records /\ records[r.offset] = r
            \/ r \in aside

-----------------------------------------------------------------------------
(* What a caller is promised: see AppendOnlyLog.  The log is the part of the *)
(* file that no failure can take.                                            *)
Log == INSTANCE AppendOnlyLog
           WITH log <- SubSeq(disk, 1, durable), acked <- acked,
                aside <- aside, unread <- recovery = "unread"

\* The journal, its failures and its repairs implement the append-only log.
ImplementsLog == Log!Spec

-----------------------------------------------------------------------------
\* A session whose creation returned can be appended to again after any finite
\* number of crashes and errors.
Recovers == mode = "closed" /\ header = "synced" ~> Writable

=============================================================================
