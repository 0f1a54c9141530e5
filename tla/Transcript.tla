----------------------------- MODULE Transcript -----------------------------
(***************************************************************************)
(* TranscriptScheduler of crates/omp-render/src/transcript.rs: blocks of   *)
(* output live in a viewport, retire in order into a ledger (the logical   *)
(* history), and leave their rows in a bounded scrollback which a resize   *)
(* may rebuild from the blocks.                                            *)
(*                                                                         *)
(* Abstractions.  A line is a member of Lines; its width and what the      *)
(* viewport truncates are left out.  A row says which line of which block  *)
(* it shows.  A call that returns an error changes nothing, except         *)
(* execute_rebuild_replay, which has no error once it started.             *)
(***************************************************************************)
EXTENDS Naturals, SequencesExt, Picking

CONSTANTS Ids,          \* block ids
          Lines,        \* lines of text
          NoBlock,      \* the block of a synthetic row
          Blank,        \* the text of a padding row
          Hidden,       \* the text of the summary row
          Marker,       \* the text of a resize marker
          Snapshots,    \* what a block may be given to show
          Heights,      \* viewport heights the terminal takes
          MaxRows,      \* MAX_SCROLLBACK_ROWS
          LiveLimit,    \* admit_block's limit on uncommitted blocks
          MaxResizes    \* bound: resizes that rebuild or leave a marker

\* Every viewport is shorter than the ring: 10,000 rows.
ASSUME TranscriptAssumption ==
    /\ Heights \subseteq Nat /\ Snapshots \subseteq Seq(Lines)
    /\ MaxRows \in Nat /\ LiveLimit \in Nat
    /\ \A h \in Heights : h < MaxRows
    /\ NoBlock \notin Ids

VARIABLES
    blocks,     \* TranscriptScheduler.blocks, in admission order
    committed,  \* logical_history.committed_blocks
    scrollback, \* native_scrollback
    viewport,   \* native_viewport
    height,     \* viewport_height
    epoch,      \* display_epoch
    gate,       \* replay_gate: "Idle", "Preparing", "FailedStop"
    target,     \* the height a prepared replay will take, else the height
    forensic,   \* forensic_log
    resizes     \* how many resizes so far (bound)

vars == <<blocks, committed, scrollback, viewport, height, epoch, gate,
          target, forensic, resizes>>

Modes == {"Mutable", "AppendOnly"}

Block == [id : Ids, mode : Modes,
          state : {"Queued", "Active", "Finalized", "Committed"},
          snapshot : Seq(Lines), emitted : Nat, reserved : Nat,
          rendered : Nat]

\* `at' is the place of the line in its block, `text' what it shows.
Row == [block : Ids \cup {NoBlock}, at : Nat,
        text : Lines \cup {Blank, Hidden, Marker},
        source : {"Append", "Retire", "Replay", "Resize", "FailedWrite"},
        epoch : Nat]

\* Types of the variables.
TypeOK ==
    /\ blocks \in Seq(Block)
    /\ committed \in Seq(Seq(Lines))
    /\ scrollback \in Seq(Row)
    /\ viewport \in Seq(Row)
    /\ height \in Heights
    /\ epoch \in Nat
    /\ gate \in {"Idle", "Preparing", "FailedStop"}
    /\ target \in Heights
    /\ forensic \in Seq(Row)
    /\ resizes \in Nat

-----------------------------------------------------------------------------
Least(a, b) == IF a < b THEN a ELSE b
Most(a, b) == IF a < b THEN b ELSE a
Monus(a, b) == Most(a, b) - b

IsPainted(b) == b.state \in {"Active", "Finalized"}

\* commit_frontier counts the committed blocks; the head comes after them.
Head1 == Len(committed) + 1

Rows(b, from, to, source, ep) ==
    [k \in 1 .. Monus(to + 1, from) |->
        [block |-> b.id, at |-> from + k - 1, text |-> b.snapshot[from + k - 1],
         source |-> source, epoch |-> ep]]

\* NativeRow::summary.
Synthetic(text, ep) ==
    [block |-> NoBlock, at |-> 0, text |-> text, source |-> "Resize",
     epoch |-> ep]

\* push_scrollback, for as many rows: the oldest go past the ring bound.
Ring(rows) == SubSeq(rows, Monus(Len(rows), MaxRows) + 1, Len(rows))

\* The rows a painted block asks for: what it shows, or the height it shrinks
\* from.
Requested(b) ==
    IF IsPainted(b)
    THEN Most(b.rendered, Monus(Len(b.snapshot), b.emitted))
    ELSE 0

\* What the blocks from i on ask for.
RequestedFrom(bs, i) ==
    LET sum == Sums([k \in DOMAIN bs |-> Requested(bs[k])])
    IN  sum[Len(bs)] - sum[i - 1]

SummaryRows(bs, sb, h) ==
    IF h > 1 /\ RequestedFrom(bs, 1) + Len(sb) > h THEN 1 ELSE 0

\* Mutant: the summary row is not taken off the room.
ReserveWhole(bs, sb, h) ==
    [i \in DOMAIN bs |->
        [bs[i] EXCEPT !.reserved =
            Least(Requested(bs[i]), Monus(h, RequestedFrom(bs, i + 1)))]]

\* refresh_viewport's pass from the newest block back.
Reserve(bs, sb, h) ==
    LET room == Monus(h, SummaryRows(bs, sb, h)) IN
    [i \in DOMAIN bs |->
        [bs[i] EXCEPT !.reserved =
            Least(Requested(bs[i]), Monus(room, RequestedFrom(bs, i + 1)))]]

\* The rows of one block in its reservation: its last lines, then padding.
Painted(b, ep) ==
    LET stable == IF b.mode = "AppendOnly" THEN b.emitted ELSE 0
        start  == Most(stable, Monus(Len(b.snapshot), b.reserved))
        shown  == Rows(b, start + 1, Len(b.snapshot), "Append", ep)
    IN  IF b.reserved = 0 THEN <<>>
        ELSE shown \o [k \in 1 .. Monus(b.reserved, Len(shown)) |->
                          [block |-> b.id, at |-> 0, text |-> Blank,
                           source |-> "Append", epoch |-> ep]]

\* What refresh_viewport paints once the blocks have their reservations.
Paint(bs, sb, h, ep) ==
    LET summary  == SummaryRows(bs, sb, h)
        room     == Monus(h, summary)
        reserved == Sums([k \in DOMAIN bs |-> bs[k].reserved])[Len(bs)]
        history  == SubSeq(sb, Monus(Len(sb), room - reserved) + 1, Len(sb))
    IN  IF h = 0 THEN <<>>
        ELSE (IF summary = 1 THEN <<Synthetic(Hidden, ep)>> ELSE <<>>)
             \o history
             \o FlattenSeq([i \in DOMAIN bs |-> Painted(bs[i], ep)])

\* refresh_viewport, called at the end of an operation that leaves bs, sb, the
\* height h and the epoch ep.
Refresh(bs, sb, h, ep) ==
    LET reserved == Reserve(bs, sb, h) IN
    /\ blocks' = reserved
    /\ viewport' = Paint(reserved, sb, h, ep)

-----------------------------------------------------------------------------
Init ==
    /\ blocks = <<>>
    /\ committed = <<>>
    /\ scrollback = <<>>
    /\ viewport = <<>>
    /\ height \in Heights
    /\ target = height
    /\ epoch = 1
    /\ gate = "Idle"
    /\ forensic = <<>>
    /\ resizes = 0

\* check_operational: neither stopped nor in the middle of a replay.
Operational == gate = "Idle"

Admit(id, mode) ==
    /\ Operational
    /\ \A i \in DOMAIN blocks : blocks[i].id # id
    /\ Monus(Len(blocks), Len(committed)) < LiveLimit
    /\ blocks' = Append(blocks,
           [id |-> id, mode |-> mode, state |-> "Queued", snapshot |-> <<>>,
            emitted |-> 0, reserved |-> 0, rendered |-> 0])
    /\ UNCHANGED <<committed, scrollback, viewport, height, epoch, gate,
                   target, forensic, resizes>>

Activate(i) ==
    /\ Operational
    /\ blocks[i].state = "Queued"
    /\ blocks' = [blocks EXCEPT ![i].state = "Active"]
    /\ UNCHANGED <<committed, scrollback, viewport, height, epoch, gate,
                   target, forensic, resizes>>

\* The two-row bridge: a block that shrinks by more gives up two rows only.
Bridge(old, new) == IF old > new + 2 THEN Most(Monus(old, 2), new) ELSE new

\* Mutant: only the number of lines is compared.
UpdateLonger(i, lines) ==
    LET b == blocks[i] IN
    /\ Operational
    /\ b.state \in {"Queued", "Active"}
    /\ b.mode = "AppendOnly" => Len(b.snapshot) <= Len(lines)
    /\ Refresh([blocks EXCEPT
                  ![i].snapshot = lines,
                  ![i].rendered = Bridge(b.rendered,
                                         Monus(Len(lines), b.emitted))],
               scrollback, height, epoch)
    /\ UNCHANGED <<committed, scrollback, height, epoch, gate, target,
                   forensic, resizes>>

\* update_snapshot with apply_elastic_reservation, whose own reserved_rows the
\* refresh at its end replaces.
Update(i, lines) ==
    LET b == blocks[i] IN
    /\ Operational
    /\ b.state \in {"Queued", "Active"}
    /\ b.mode = "AppendOnly" => IsPrefix(b.snapshot, lines)
    /\ Refresh([blocks EXCEPT
                  ![i].snapshot = lines,
                  ![i].rendered = Bridge(b.rendered,
                                         Monus(Len(lines), b.emitted))],
               scrollback, height, epoch)
    /\ UNCHANGED <<committed, scrollback, height, epoch, gate, target,
                   forensic, resizes>>

\* stream_stable_prefix: rows of the head that will not change any more.
Stream(i, stable) ==
    LET b      == blocks[i]
        prefix == Most(b.emitted, Least(stable, Len(b.snapshot)))
        sb     == Ring(scrollback
                       \o Rows(b, b.emitted + 1, prefix, "Append", epoch))
    IN
    /\ Operational
    /\ i = Head1
    /\ IsPainted(b)
    /\ b.mode = "AppendOnly"
    /\ scrollback' = sb
    /\ Refresh([blocks EXCEPT
                  ![i].emitted = prefix,
                  ![i].rendered = Least(b.rendered,
                                        Monus(Len(b.snapshot), prefix))],
               sb, height, epoch)
    /\ UNCHANGED <<committed, height, epoch, gate, target, forensic, resizes>>

Finalize(i) ==
    /\ Operational
    /\ blocks[i].state = "Active"
    /\ blocks' = [blocks EXCEPT ![i].state = "Finalized"]
    /\ UNCHANGED <<committed, scrollback, viewport, height, epoch, gate,
                   target, forensic, resizes>>

\* Mutant: the streamed rows are written again.
CommitWhole(n) ==
    LET retiring == Head1 .. n
        rows     == FlattenSeq([k \in 1 .. n - Len(committed) |->
                        LET b == blocks[Len(committed) + k] IN
                        Rows(b, 1, Len(b.snapshot), "Retire", epoch)])
        sb       == Ring(scrollback \o rows)
    IN
    /\ \A i \in retiring : blocks[i].state = "Finalized"
    /\ committed' = committed \o [k \in 1 .. n - Len(committed) |->
                                     blocks[Len(committed) + k].snapshot]
    /\ scrollback' = sb
    /\ Refresh([i \in DOMAIN blocks |->
                   IF i \in retiring
                   THEN [blocks[i] EXCEPT !.state = "Committed", !.emitted = 0]
                   ELSE blocks[i]],
               sb, height, epoch)
    /\ UNCHANGED <<height, epoch, gate, target, forensic, resizes>>

\* The head and the blocks after it, up to n, go into the ledger: rows that
\* were not streamed follow into the scrollback.
Commit(n) ==
    LET retiring == Head1 .. n
        rows     == FlattenSeq([k \in 1 .. n - Len(committed) |->
                        LET b == blocks[Len(committed) + k] IN
                        Rows(b, b.emitted + 1, Len(b.snapshot), "Retire",
                             epoch)])
        sb       == Ring(scrollback \o rows)
    IN
    /\ \A i \in retiring : blocks[i].state = "Finalized"
    /\ committed' = committed \o [k \in 1 .. n - Len(committed) |->
                                     blocks[Len(committed) + k].snapshot]
    /\ scrollback' = sb
    /\ Refresh([i \in DOMAIN blocks |->
                   IF i \in retiring
                   THEN [blocks[i] EXCEPT !.state = "Committed", !.emitted = 0]
                   ELSE blocks[i]],
               sb, height, epoch)
    /\ UNCHANGED <<height, epoch, gate, target, forensic, resizes>>

\* retire_block takes the block at the frontier only.
Retire(i) ==
    /\ Operational
    /\ i = Head1
    /\ Commit(i)

\* flush retires until a block is not finalized.
Flush ==
    /\ Operational
    /\ \E n \in Head1 .. Len(blocks) :
          /\ n < Len(blocks) => blocks[n + 1].state # "Finalized"
          /\ Commit(n)

-----------------------------------------------------------------------------
(* Resizing. *)

Preserve(h) ==
    /\ Operational
    /\ height' = h
    /\ target' = h
    /\ Refresh(blocks, scrollback, h, epoch)
    /\ UNCHANGED <<committed, scrollback, epoch, gate, forensic, resizes>>

\* ResizePolicy::Append leaves a marker in the scrollback.
Mark(h) ==
    LET sb == Ring(Append(scrollback, Synthetic(Marker, epoch))) IN
    /\ Operational
    /\ resizes < MaxResizes
    /\ resizes' = resizes + 1
    /\ height' = h
    /\ target' = h
    /\ scrollback' = sb
    /\ Refresh(blocks, sb, h, epoch)
    /\ UNCHANGED <<committed, epoch, gate, forensic>>

\* prepare_rebuild_replay closes the gate to every other operation.
Prepare(h) ==
    /\ Operational
    /\ resizes < MaxResizes
    /\ resizes' = resizes + 1
    /\ gate' = "Preparing"
    /\ target' = h
    /\ UNCHANGED <<blocks, committed, scrollback, viewport, height, epoch,
                   forensic>>

\* What a replay writes: the committed blocks and the head's streamed lines.
Replayed(ep) ==
    FlattenSeq([i \in DOMAIN blocks |->
        LET b == blocks[i] IN
        CASE i < Head1 -> Rows(b, 1, Len(b.snapshot), "Replay", ep)
          [] i = Head1 /\ IsPainted(b) /\ b.mode = "AppendOnly" ->
                 Rows(b, 1, Least(b.emitted, Len(b.snapshot)), "Replay", ep)
          [] OTHER -> <<>>])

Replay(h) ==
    LET sb == Ring(Replayed(epoch + 1)) IN
    /\ epoch' = epoch + 1
    /\ height' = h
    /\ scrollback' = sb
    /\ gate' = "Idle"
    /\ Refresh(blocks, sb, h, epoch + 1)
    /\ UNCHANGED <<committed, forensic>>

\* execute_rebuild_replay.
Execute ==
    /\ gate = "Preparing"
    /\ Replay(target)
    /\ UNCHANGED <<target, resizes>>

\* resize with ResizePolicy::Rebuild: both steps in one call.
Rebuild(h) ==
    /\ Operational
    /\ resizes < MaxResizes
    /\ resizes' = resizes + 1
    /\ target' = h
    /\ Replay(h)

\* DebugSession::render_frame paints again before it writes to the terminal.
Render ==
    /\ Operational
    /\ Refresh(blocks, scrollback, height, epoch)
    /\ UNCHANGED <<committed, scrollback, height, epoch, gate, target,
                   forensic, resizes>>

\* handle_write_failure: the terminal took the first rows of the frame.
WriteFailure(accepted) ==
    /\ gate # "FailedStop"
    /\ gate' = "FailedStop"
    /\ forensic' = forensic \o
           [k \in 1 .. accepted |->
               [viewport[k] EXCEPT !.source = "FailedWrite"]]
    /\ viewport' = <<>>
    /\ UNCHANGED <<blocks, committed, scrollback, height, epoch, target,
                   resizes>>

-----------------------------------------------------------------------------
AdmitSome == \E id \in Ids, mode \in Modes : Admit(id, mode)
ActivateSome == \E i \in DOMAIN blocks : Activate(i)
UpdateSome == \E i \in DOMAIN blocks, lines \in Snapshots : Update(i, lines)
StreamSome == \E i \in DOMAIN blocks : \E n \in 0 .. Len(blocks[i].snapshot) : Stream(i, n)
FinalizeSome == \E i \in DOMAIN blocks : Finalize(i)
RetireSome == \E i \in DOMAIN blocks : Retire(i)
ResizeSome == \E h \in Heights : Preserve(h) \/ Mark(h) \/ Rebuild(h)
PrepareSome == \E h \in Heights : Prepare(h)
FailSome == \E n \in {0, Len(viewport)} : WriteFailure(n)

Next ==
    \/ AdmitSome \/ ActivateSome \/ UpdateSome \/ StreamSome
    \/ FinalizeSome \/ RetireSome \/ Flush
    \/ ResizeSome \/ PrepareSome \/ Execute
    \/ Render \/ FailSome

Spec == Init /\ [][Next]_vars

-----------------------------------------------------------------------------
(* Properties. *)

\* A row without how and when it was written.
Shown(row) == [block |-> row.block, at |-> row.at, text |-> row.text]

\* The ledger: the committed blocks and what the head has streamed.
Ledger ==
    LET b == blocks[Head1]
        streaming == Head1 \in DOMAIN blocks /\ IsPainted(b)
                     /\ b.mode = "AppendOnly"
        rows(i, n) == [k \in 1 .. n |->
                         [block |-> blocks[i].id, at |-> k,
                          text |-> IF i < Head1 THEN committed[i][k]
                                   ELSE blocks[i].snapshot[k]]]
    IN  FlattenSeq([i \in DOMAIN committed |-> rows(i, Len(committed[i]))])
        \o (IF streaming THEN rows(Head1, Least(b.emitted, Len(b.snapshot)))
            ELSE <<>>)

\* The scrollback is the newest part of the ledger, all of it while the ring
\* has room: streaming, retirement, eviction and rebuilding, in any order,
\* neither lose nor repeat nor alter a line; and no row of an older epoch is
\* left of a rebuild.
ScrollbackIsLedger ==
    /\ TypeOK
    /\ LET rows   == [k \in DOMAIN scrollback |-> Shown(scrollback[k])]
           text   == Picked(rows, {k \in DOMAIN rows : rows[k].block # NoBlock})
           ledger == Ledger
       IN  /\ IsSuffix(text, ledger)
           /\ Len(scrollback) < MaxRows => text = ledger
           /\ Len(scrollback) <= MaxRows
    /\ \A rows \in {scrollback, viewport} :
         \A k \in DOMAIN rows : rows[k].epoch = epoch

\* The frame render_frame writes next.
Frame == Paint(Reserve(blocks, scrollback, height), scrollback, height, epoch)

\* The lines of painted blocks that are not in the ledger yet.
Live ==
    UNION {LET b == blocks[i] IN
           {[block |-> b.id, at |-> k, text |-> b.snapshot[k]] :
               k \in b.emitted + 1 .. Len(b.snapshot)} :
           i \in {k \in DOMAIN blocks : IsPainted(blocks[k])}}

\* The rows there are beside the notice that some are hidden.
Spare(h) == IF h > 1 THEN h - 1 ELSE h

\* The blocks with lines to show for which the newer ones leave a row: what those
\* ask for may be the padding of one that has shrunk.
Followed ==
    {i \in DOMAIN blocks :
        /\ IsPainted(blocks[i])
        /\ blocks[i].emitted < Len(blocks[i].snapshot)
        /\ RequestedFrom(blocks, i + 1) < Spare(height)}

\* The frame fits the screen and shows no line twice: what was streamed is not
\* painted again with its block.  It follows the output: the last line of a block
\* is in it if the newer blocks ask for fewer rows than there are beside the
\* notice.  So the newest line is shown however little room there is, unless a
\* newer block that has shrunk keeps the rows for its padding.  And whoever looks
\* at a screen of at least two rows sees every line of the transcript, or a row
\* that says some are hidden.
FrameTells ==
    LET frame == Frame
        seen  == {Shown(row) : row \in ToSet(frame)}
        lines == {i \in DOMAIN frame : frame[i].at # 0}
    IN  /\ Len(frame) <= height
        /\ \A i, j \in lines :
              frame[i].block = frame[j].block /\ frame[i].at = frame[j].at => i = j
        /\ \A i \in Followed :
              LET b == blocks[i] IN
              [block |-> b.id, at |-> Len(b.snapshot), text |-> Last(b.snapshot)]
                  \in seen
        /\ height > 1 =>
              \/ \E row \in seen : row.text = Hidden
              \/ ToSet(Ledger) \cup Live \subseteq seen

\* No step takes a line out of the ledger or changes one, whatever it does to
\* the screen.
LedgerGrows ==
    [][LET before == Ledger IN IsPrefix(before, Ledger')]_vars

=============================================================================
