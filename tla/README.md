# OMP2, specified

This directory is a TLA+ development of OMP2, the Rust agent harness in
`src/`: modules that model its components, configurations that check them with
TLC on small instances, and proofs that TLAPS checks for every instance. Paths
below are relative to `src/crates/` unless they start with `src/`.

Contents: 1 the system; 2 the modules and how they correspond to the code;
3 what the runs check; 4 fairness; 5 what is proved; 6 where code and
documentation part; 7 what is not modelled; 8 the plan.

## 1. The system

OMP2 is about 52,000 lines of Rust in ten crates. They depend on each other in
one direction: omp-types, omp-state, omp-runtime with omp-inference,
omp-render, omp-python, omp-tools, omp-control, omp-server, omp-cli.

A *session* is a document (the DOM) that changes only by *patches*. Each patch
is a *record* in the session's journal, an append-only file; the document is
what replaying the records of a branch gives. Everything else either produces
patches (the model's turns, tools, jobs, settings), follows them (subscribers,
the terminal, the worker's parent), or runs outside and reports by patches
(processes, child sessions, Python extensions).

| Component | State | Operations | Hard about it |
|---|---|---|---|
| Journal, `omp-state/src/journal.rs` | file of checksummed frames; record tree, running snapshot, poison and recovery flags | create, open and replay, append, fork, rewind, select, repair, close | crashes and power losses between write and sync; a failed sync after a complete write; repair that is itself cut short; replay that mixes branches |
| Session DOM, `omp-state/src/dom.rs` | tree of elements with attributes, text, payload | apply a patch, undo, query | a patch of many operations is all or nothing; undo order |
| Transcript scheduler, `omp-render/src/transcript.rs` | blocks, logical history, scrollback ring, viewport, epoch, replay gate | admit, activate, update, stream, finalize, retire, flush, resize, two-phase rebuild, render | rows enter the scrollback by three routes and must do so once and in order; heights of 0, 1, 2; a terminal that fails in the middle |
| Server, `omp-server/src/{service,replication,role,transport}.rs` | actors and roles, subscribers with bounded queues, command receipts, approvals, connections | connect, attach, subscribe, poll, resync, edit, command, turn, branch, approve, publish, terminate, shut down | overflow, reconnection, retries of commands over crashes; connections, actors and roles that outlive each other; approvals across rewinds |
| Jobs, `omp-runtime/src/{job,stream,process}.rs` | record in the DOM; process, pipe readers, captured streams, limits | spawn, poll, signal, wait, drop | four reasons to stop race with the exit; throttled output; errors in the middle of a poll |
| Tool host, `omp-tools/src/host.rs` | table of jobs, dynamic tools, Python session | execute a tool, poll and settle jobs, cancel, shut down | one failure among several jobs; forks under running jobs |
| Edit language, `omp-tools/src/edit.rs` | none | parse, apply to lines | a revision named once for several operations |
| Workspace views, `omp-runtime/src/workspace.rs` | baseline, isolated copy, lease | allocate, diff, apply to base | the base changes between the check and the copy; the copy is not atomic |
| Artifact store, `omp-runtime/src/artifact.rs` | blobs by content, metadata, scopes | store, ingest, get | equal content stored twice at once; spool files of a crash |
| Session host, `omp-control/src/{host,agent_loop,director,children}.rs` | director stack, children, turn state | run a turn, execute tools, spawn and poll children | a stream that fails after part of it was journaled; directors that push each other; a batch of children that fails half way |
| Settings and commands, `omp-control/src/{convar,command,provider_config}.rs` | convars, aliases, staged transaction, registry of providers, client | set, expand, execute a script, configure a provider | a later statement fails after earlier ones took effect; recursive aliases; a client that outlives a rewind |
| Compaction, `omp-control/src/compaction.rs` | summary nodes in the document, budget | plan, condense, project | no entry may vanish without a fold that covers it; two counts of the same tokens |
| Inference, `omp-inference/src/` | request, stream parsers, catalogs | translate, stream, retry, repair | tags cut by chunks; a retry after something was delivered; a call cut by the output limit |
| Extensions, `omp-python/src/` | loaded extensions, outstanding requests | load, unload, reload, request | terminators that fail |
| Worker, `omp-cli/src/worker.rs` | child process that owns the journal; queue of its events | start and repair, reconcile, loop, interrupt | its death at any instant; orphans of the one before; events of the one before |
| Terminal interface, `omp-cli/src/{main,tui,view,editor,input}.rs` | bytes read, draft and history, menu, view of the worker's events | keys, drawing | escape sequences cut by reads; a view that changes under the user's hands |

How they interact. The journal is owned by one process, under an OS file lock:
the worker or the server. Within it the session host, the tool host and the
service call the journal directly, one at a time; the server serialises its
connections with one mutex. Followers are told of records by the journal's
observer (worker) or by `replicate` (server). Jobs and children run beside the
host, which polls them: the worker and the server about every 25 ms, a waiting
tool every 5 ms. A server request reaches a job only through the document
(`requested_signal`), which the next poll consumes. The interface is the
worker's parent: lines go down one pipe, events come up another, and the
interrupt kills the process and starts it again.

What makes each correct: the journal keeps what it acknowledged and replays to
what it showed; a record sees its branch and nothing else; the scrollback is
the history, each row once, in order; a screen fits and says what it hides; a
subscriber misses nothing it is not told it missed; a command runs at most
once; nobody stays attached without a connection and an approval counts once; a
job ends and its slot returns; nothing is shown as running that nobody works
on, and a turn ends; what is shown of a reply is what arrived, and no call is
made of half its arguments; a merge never overwrites what changed meanwhile;
settings change together or not at all, and the next turn uses them; what a
window cannot hold can be found again; what is typed is what is heard, and the
interface shows the journal. The list of hazards in PROJECT.json gives the line
where each is at stake and the properties that watch it.

## 2. The modules

Every `MC*` module only gives the constants of its module their values. The
comment at the head of a module lists its abstractions; here is where the code
is in it.

### Journal

`Journal` models `omp-state/src/journal.rs`. The file is the sequence `disk` of
frames that read back, a flag for unreadable bytes behind them, the number of
frames a power loss cannot take, what a power loss may bring back of the file
before it was cut (`cut`), and the state of the header. The memory is
`records`, `snapshot`, `failed` (the poison) and `recovery`. `mode` is the
place inside a call, so that a crash (`ProcessDies`), a power loss or an I/O
error can come between any two effects. An error that ends `open` itself leaves
what the death of the process there leaves. One in the middle of `replay` does
not end it: `replay` takes every error of `read_frame` for the end of what reads
back (`journal.rs:156`, `183`), so that the journal is opened with a beginning of
the file and repaired. `ReplayEnds` does so at any frame; `recovery` then says
`"unread"`, which the code does not tell from `"damaged"`.

| Code | Actions |
|---|---|
| `create` | `Create`, `Created`, `CreateFails` |
| `open`, `replay` | `Open`, then `ReplayRecord` per frame, `ReplayEnds` |
| `append_on` through `append_patch`, `append_branch_patch`, `fork_at`/`rewind_to`, `select_branch` | `Append1`, `Fork1`, `Select1` check and prepare; `WriteFrame`, `Commit`; `WriteFails`, `SyncFails` |
| `repair_suffix` | `RepairCopy`, `RepairTruncate`, `RepairDone`, `RepairFails` |
| drop; `Worker::interrupt` | `Close`; `ProcessDies`, `PowerLoss` |

`ReplayBase` is the choice between replay's fast path and `materialize`.
A patch adds one element, whose id must be new on its branch, or nothing that
other records see; a snapshot is the set of records applied. That is enough to
tell every replay from every other one and to make a record inapplicable on
the wrong branch. `aside` are the frames in the copies that repairs sync before
they cut.

`AppendOnlyLog` is what callers rely on: a log that grows, whose entries
hang off earlier ones and keep branches apart, and acknowledgements of its
newest entries; and of which nothing is taken but by `SetAside`, the repair of a
log that could not be read to its end, which leaves a beginning of it and only
takes what is in a copy. `ImplementsLog` maps it onto the file. A record may
enter the log without an acknowledgement: its append failed after the frame was
written. The proofs are in modules of their own (section 5).

The other modules take the journal as they find it behind that interface: a
log or a snapshot that an append extends, that refuses, or is poisoned. After a
restart it is complete: what they say about restarts is said of repairs of
damage, not of a repair after a failed read.

### Transcript

`Transcript` models every public operation of `TranscriptScheduler`: blocks
with their state, the lines streamed so far and the rows reserved for them, the
committed history, the scrollback ring, the viewport, the display epoch and
the replay gate. `prepare_rebuild_replay` and `execute_rebuild_replay` are two
actions with everything else in between; `FailSome` is a terminal that took
part of a frame. A line is a value; widths are left out. Each row carries the
block and the place of the line in it, so that order and multiplicity can be
stated.

### Replication

`Replication` models the server's session: attachment with roles, subscription
at an offset, the queue of a subscriber with coalesced presentation frames and
the overflow that replaces it by a resync, every operation that appends to the
journal (edits, convars, artifacts, workspace writes, commands, turns, the
background loop, branches), failing turns, termination and restart. A handler
holds the mutex of the server and is one action. A command is two, since its
receipt is durable before it runs. The clients are external: a copy is advanced
by a patch that continues it.

### Connections and Permissions

`Permissions` is the table of `role.rs`. `Connections` models `serve` and
`handle_connection`: the accept loop with its bound, a thread for each
connection, the actor and the role it was granted, who may detach whom, a
poisoned service, and the end of the service; and with them the approvals that
`request_approval` and `resolve_approval` journal and that
`authorize_host_read` of the tool host looks for. A handler is one step. Every
record says which element it is about and, if that is an approval, what it
leaves of it (`Approval`). `submit_patch` takes any patch that applies, so
`Change` may write, create, move or delete approvals and the elements of actors
(`Patch`); what it may leave of an approval is the constant `Patches`.

| Code | Actions |
|---|---|
| `serve` | `Accept`, `TurnAway`, `AcceptFails`, `PollJobs`, `Finish`, `Restart` |
| `handle_connection`, its guard's drop | `Handshake`, `Leave`, `Release` |
| requests | `Detach`, `Change`, `Branch`, `Shutdown`, `RequestApproval`, `ResolveApproval`, `Work` |

### Jobs

`Jobs` models the life of a supervised process across three components: `Job`
itself, the table of `ToolHost`, and the host (worker or server) around it.
The record of a job, `dom`, is part of the document: durable, and exchanged
for an older one by a fork. Its handle, `handle` with `proc`, dies with the
host or when the table drops it. One poll of a job is one step with several
outcomes (`Polled`: drain, flush, wall limit, grace period, in the code's
order); `poll_jobs` is one step per job, then one per settlement, so that
processes act in between and an error ends it in the middle.

| Code | Actions |
|---|---|
| pipe readers, operating system, time | `Write`, `Exit`, `Hangup`, `WallPasses`, `GracePasses` |
| `poll_jobs`, `Job::poll` | `BeginPoll`, `PollThrough`, `PollActive`, `PollFails` |
| `settle_workspace` | `Settle`, `SettleFails` |
| Bash tool: `Job::spawn`, `Job::wait` | `Spawn`, `SpawnFails`, `WaitPoll`, `WaitFails`, `WaitExpires`; other tools `ToolEnds` |
| `cancel_job`, `signal_job`, `shutdown_jobs` | `Cancel`, `RequestSignal`, `BeginShutdown` |
| `/fork`, `/detach`, start and end of the host | `Bookmark` (the offset a fork will name) and `Fork`, `Detach`, `Leave`, `Crash`, `Restart` |

The two hosts differ where the code does: the worker reports a failed poll and
goes on, the server's loop ends with it; the worker reconciles orphans when it
starts, the server does not; only the server takes requests for signals.
Output is counted in chunks and every chunk is counted as an event. A fork goes
to any state of the document the host's steps left behind, not to a record in
the middle of one poll, and does not return to the newer branch.

### Turns

`Turns` models `SessionHost::run_turn` with the stack of Directors, the
children of `Agent` calls, and the process around them. `turn.pc` is the place
in the turn; `dom` is what the snapshot says of elements, actors and
directors; `table` are the handles of children.

| Code | Actions |
|---|---|
| `run_turn`: hydration, the loop and its budget, the request | `StartTurn`, `Step`, `Ask` |
| `infer_assistant_turn` | `StreamEnds`, `Settle` |
| tool calls, their settling | `Invoke`, `RunTool`, `RunAgent`, `SettleCall` |
| `spawn_children`, `poll_children`, `ChildHandle::drop` | `SpawnChild`, `Spawned`, `PollSettles`, `Cancel`; a child's own end `ChildEnds` |
| `handle_yield`, each director's `on_yield` | `Yield` with `HandleYield`, `ForceYield`, `TodoYield`, `PlanYield`, `GoalYield` |
| `append_steering_message`, when a director says to go on | `Steer` |
| the worker: idle loop, `/force`, cancellation, `/fork`, shutdown, `reconcile_orphans` | `IdlePoll`, `PushForce`, `CancelChild`, `Remember` and `Fork`, `Shutdown`, `Exit`, `Crash`, `Restart` |

The same module is a child's host: it has one turn, and no console.

### Stream

`Stream` follows one assistant message from the provider to its element:
`ProviderClient::infer` with its retry, the parsers of the two streamed formats
and of a whole JSON document, `InlineThinkingParser` (`Feed`, `Held`, `Rest`),
the buffers and flushes of `infer_assistant_turn` (`Tell`, `Flushed`), the end
of the stream (`Cut`, `EndOfStream`), what `infer` makes of the reply
(`Conclude`: without a field of reasoning, an empty one included, the text is
`Normalized`; without a call of the wire, those that the text spells are
`Leaked`), and how the host settles it (`Settle`). A text is a sequence of
symbols of which the tags are made, so that chunks can cut a tag anywhere; a
call in it begins with one symbol, ends with another and has what is in between
as its arguments, or all that follows if it has no end.

### Edits and Workspace

`Edits` is the patch language of the Edit tool: `Parse` makes sections of
lines, `Edited` applies the operations of one to a file. `Workspace` is the
tree of files with the tools at work on it and others who change it at any
point. `handle_eval` is `StartEval`, `Scan`, `Copy`, `Evaluate`, and the merge
of `WorkspaceView::apply_to_base`: `Check` computes the difference (`Computed`,
with its renames) and the conflicts, then each entry is a step (`ApplyEntry`,
`RemoveDirectory`), any of which may fail. `handle_edit` and `handle_write` are
`StartEdit`, `EditRead`, `EditWrite` and `Write`; between reading and writing
others may act.

### Console

`Console` has what `execute_command` reaches: scripts of statements with
aliases and files (`Execute`, under its limits of depth and steps), the effects
they collect, the settings they stage and the one patch that commits them; the
registry of providers and its records, catalogs with pages and the limits they
carry, the client; and the ways in which settings change otherwise
(`ChangeConVar`, `Rewind`, `StartHost`, `Publish`). `RunTurn` is the moment of
truth: what the next request asks, of whom.

### Compaction

`Compaction` is `plan_compaction` with its stages (`Elide`, `Condense`,
`Reduce`, `CapRoots`), a step for each node they journal, the graph of
summaries, and the request that follows from it. What a fold leads back to is
the least set of nodes closed under children (`Below`), which is what
`expand_covered` visits. Costs are parameters, scaled so that four entries fill
a window.

### Keys, Editor, Terminal

`Keys` is `Parser::next`: bytes in, events out, with what time does to a
sequence that stays incomplete. `Editor` is the text with its cursor, history
and wrapping. `Terminal` has the user who types tokens, the reads that cut
their bytes anywhere, and the two in between. Its assumptions are stated at
its head.

### Palette and Tui

`Palette` is the menu: what a text may be completed to, kept in the order of
the lists it is made from. `Tui` is the loop of the interface (`PollEvent`,
`Draw`, `AKey`, stopping with `Drain`), the worker with its pipe of bounded
capacity (`Start`, `TakeLine`, `Work`, `Fork`, `CleanSession`, `Succeed`,
`Fail`, `Settle`, `Shutdown`), the journal's observer, interrupts and the
worker's death. The menu is worked out once in a round of the loop
(`tui.rs:241-252`) and the key of that round acts on it, so it is part of the
interface's state from `Draw` to the key. A line and the request to shut down
are different kinds of request (`worker.rs:50-54`): no text is taken for it.

## 3. What the runs check

The configurations give model values to names and numbers to bounds. `MC*`
modules define what a .cfg cannot write. A property that is an invariant has
the module's `TypeOK` as its first conjunct in one place per module.

| Run | Instance | States | Shows |
|---|---|---|---|
| journal_safety | 2 elements, 1 branch beside the main one, 3 records, 3 faults, fair | 916,086 | what was acknowledged stays, or is in a repair's copy (`AckedDurable`); the snapshot is the replay (`SnapshotIsReplay`); the log is implemented (`ImplementsLog`); a journal becomes writable again (`Recovers`) |
| transcript_safety | 2 blocks of up to 3 lines, ring of 4 rows, heights 0 to 3, 1 resize | 392,138 | the scrollback is the newest part of the ledger, without rows of an old epoch (`ScrollbackIsLedger`); the ledger only grows (`LedgerGrows`); frames fit, repeat no line, follow the output as far as newer blocks leave room, and say what they hide (`FrameTells`) |
| replication | an owner, and a reader that subscribes; queue of 2, 4 records, bursts of 2, a frame, a rewind, a failure, a crash, fair | 893,055 | no gap and no repetition without a resync, but for what nobody is told (`Contiguous`); a queue keeps its bound and its order, a frame is the newest of its view (`QueueDiscipline`); a command runs at most once, and every receipt is remembered (`CommandsOnce`); who polls catches up (`CatchesUp`) |
| jobs | 2 jobs, 1 slot, one of them writes and is signalled, limit of 1 event, 1 fault, fair | 822,954 | never more processes than slots, also after forks, and without faults every active record has a handle (`SlotsKept`); what a terminal record says stays (`TerminalSticks`); a job with a handle ends (`Settles`) |
| turns | 2 children, 2 tools, replies of up to 2 calls, 2 steps, a stack of 4 directors and one pushed, 1 fault, fair | 205,977 | what is shown as running has somebody at work on it (`RunningHasOwner`); a forced tool binds until it is called or gives up (`ForceBinds`); a turn ends (`TurnsEnd`); children are reaped (`ChildrenReaped`) |
| stream | about 110 replies of three formats, cut anywhere, stalls, errors, cancellation | 35,916 | what is told is what arrived, once (`ToldOnce`); a message is settled as it was streamed (`SettledAsTold`); calls of the wire are whole or not made, calls of the text are what it says (`CallsWhole`) |
| workspace | 3 paths, 2 calls, 2 changes by others, 1 fault | 948,019 | a merge brings over exactly what the copy differs in from the scan (`MergedExactly`) and overwrites a file only while it holds what was scanned (`MergeKeepsOthers`); an edit only touches the revision its request names (`EditsNamedRevision`) |
| connections | 2 connections of 1 actor in 2 roles, 1 approval of a client, 5 records, 1 of them a patch of an approval or the actor, 1 fault, fair | 578,817 | an attached actor has a connection of its role (`NoGhost`); an approval is resolved and used once, after it was asked for and given, counted anew when a patch wrote it (`OneShot`); a shutdown ends the service (`ShutdownEnds`) |
| console | 2 commands of 26 scripts, 3 gateways, 2 pages, rewinds, restarts | 216,992 | a script is applied whole or not at all (`AllOrNothing`); one endpoint has one name (`OneName`); a turn asks what the session says where it is (`TurnFollows`) |
| terminal | 4 of 23 tokens, read 2 ahead, widths 1 to 3, buffer of 4 | 379,857 | what is heard is what was typed, but for the Alt of a character that a read cut (`HeardAsTyped`); history gives the draft back (`DraftKept`); the cursor is drawn where it is (`CursorShown`) |
| tui | 2 sessions of 3 records, 3 keys, pipe of 2, a death, fair | 1,620,000 | Enter runs what is shown (`ShownIsTrue`); snapshot and events under way make the journal (`ViewFollows`); busy means exactly one line under way (`OneAtATime`); the interface comes to rest (`ComesToRest`) |
| compaction | 4 entries, short or long, 2 windows, fan-in of 2, 1 root, headers longer than counted | 126,596 | what is left out is reached from exactly one fold (`NothingLost`); a request fits, but for what the planner does not count, or nothing is left to reduce (`FitsOrExhausted`); a plan ends (`PlanEnds`) |

Why the bounds are enough.

- Journal: a torn append, a second crash in the middle of its repair and a
  third behind it need three faults; a record on a second branch that follows
  one on the first, and a name that both use, need three records. A failed read,
  the repair it leads to and power lost behind the cut are two faults. Records
  acknowledged are bounded over the whole behaviour (`MaxAcked`), since a repair
  makes room for others. The run has no symmetry, for the sake of `Recovers`.
  The proofs of section 5 remove the bounds altogether.
- Transcript: what matters are relations of two neighbouring blocks (head and
  follower), a ring that evicts part of a block, and heights that leave no
  room, room for the notice only, and room for both and more. `Snapshots` is what
  a block may be given: it grows to three lines, of which two are equal, or its
  only line changes. Where it loses them all it holds their rows for a while,
  which is what makes padding and the bridge of two rows. A second rebuild starts
  from the state the first one leaves, which is one the scheduler can also
  reach without it, but for the epoch.
- Replication: a burst longer than what the queue has room for, from any place
  in it; a receipt, a rewind to before it and the same command again, which
  with an actor's attachment are four records. A second subscriber
  (`Followers`) would have a queue of its own and nothing in common with the
  first but the log.
- Jobs: the second job tells whether the slot of the first is really free.
  With one slot two *active* records only come from a fork, so that two jobs
  running side by side are not explored; a poll that ends early between two
  running jobs is covered by its effects on one. One chunk reaches the event
  limit and the throttle.
- Turns: two steps are one that goes on and one that meets the budget; two
  children are one that runs while another is spawned, fails, ends or is
  refused. The stack has a director of every kind, among them a forced tool
  with one attempt left, and a second one that fails the turn is pushed on top
  of it. A second call of a reply is what is left when the first fails; that
  one spawns both children.
- Stream: three pieces make every way a tag can be opened, closed, broken and
  doubled, in which a symbol is the smallest chunk; two calls of two fragments
  are the least that can be mixed up. Fields of reasoning are absent, empty or
  not; a text spells two calls, of which the second has no end, alone, with an
  empty field of reasoning, and before calls of the wire.
- Workspace: a file, a directory with a file in it and a path that can be
  either; two changes are one before and one behind the check, or one that
  undoes the other, also around the copy. Two calls let one session see the
  workspace twice. Patches have two sections that target one file, under one path
  or two, with one tag and with two.
- Connections: what can go wrong with an id takes two connections that claim it,
  one after the other or one while the other still believes to be it, in one role
  or another. A second actor would be attached beside the first and share nothing
  with it but the log and the accept loop: it resolves what the first could, and
  that a request is not the host's is a choice of the first as well. Five records
  are the actor's own, an approval's request, resolution and use, and one of: a
  rewind, another note, a patch of the approval or of the actor, a second request
  or resolution. What a patch leaves of an approval is the host's request, marked
  and resolved or marked and pending, or nothing.
- Console: the scripts have each kind of statement once before and once behind
  one that fails or has an effect; a second command meets what the first left.
- Terminal: four tokens fill the buffer, and one more is refused; a paste is
  cut at any byte, its end marker included.
- Tui: three keys are a line, one that comes while it is under way, and an
  interrupt; the pipe is full with two messages and the worker's end.
- Compaction: the fourth entry is the one whose request does not fit, and two
  folds are the least that can be condensed.

Every bound is a constant named for what it limits (`MaxOffset`, `MaxFaults`,
`MaxBurst`, ...). Deadlock checking is off where a bound or a real end stops
the system; each .cfg says which. PROJECT.json lists, for every property,
a mutant of the code's model that violates it; mutants are the definitions marked
`Mutant` in front of the ones they replace.

## 4. Fairness

- Journal: the worker's parent starts it again, and it opens and repairs
  before anything else (`omp-cli/src/worker.rs:410-440`). Other commands open,
  look and close at any time, so that repair is enabled again and again rather
  than continuously: strong fairness for its first step, weak for the rest.
- Replication: a subscriber goes on polling; a command that holds the lock
  ends. Nothing is assumed of what clients ask for.
- Jobs: the host goes on (its loops have timeouts: `worker.rs:531`,
  `transport.rs:1395`, `host.rs:379`, `job.rs:707`), time passes, and the
  system closes the pipes of a killed process tree (the job object is
  terminated as a whole, `process.rs:511-540`). Neither the exit of a process
  nor the end of its output is assumed.
- Turns: the host's thread runs; a reply ends, since its bytes and its idle
  time are limited; a child host has its only turn and shuts down. That a
  child ends is assumed of the parent's model and is what `TurnsEnd` shows of
  the child's.
- Connections: the accept loop goes on, and a thread whose connection is over
  comes to its end. Nothing is assumed of clients: `serve` may return while a
  handler still waits for a request.
- Tui: both loops go on, and what the worker has under way ends, which Turns
  and the time limits of requests are about. Nothing is assumed of the user,
  and not even that the screen is drawn.
- Compaction: a plan is one call and runs on.
- Transcript, Stream, Workspace, Console and Terminal are checked for safety
  only.

## 5. What is proved

| Module | Theorems | Properties of runs |
|---|---|---|
| JournalProofs | `TypeCorrect`, `AckedDurableCorrect`, `MemoryMatchesFileCorrect`, `SnapshotIsReplayCorrect`, `FilesReplayCorrect`, `BranchesAreLinesCorrect`, `AckedVisibleCorrect`, `Refinement`, `ChainStep` | `AckedDurable`, `SnapshotIsReplay`, `ImplementsLog` |
| ScreenProofs, of Transcript | `Invariance`, `TypeCorrect`, `HistoryTold`, `OnlyGrows`, `FramesTell` | `ScrollbackIsLedger`, `LedgerGrows`, `FrameTells` |
| ScreenProofs, of Tui | `ShownWhenKeyed`, `ViewFollowsWorker`, `OneLineAtATime` | `ShownIsTrue`, `ViewFollows`, `OneAtATime` |
| ReplicationProofs | `TypeCorrect`, `NoGap`, `Bounded`, `RunsOnce` | `Contiguous`, `QueueDiscipline`, `CommandsOnce` |
| ConnectionsProofs | `NobodyHaunts`, `UsedOnce` | `NoGhost`, `OneShot` |
| JobsProofs | `NoSlotLost`, `TerminalStays` | `SlotsKept`, `TerminalSticks` |
| HostProofs, of Turns | `OwnersKnown`, `ForceHolds` | `RunningHasOwner`, `ForceBinds` |
| HostProofs, of Compaction | `CompactionLosesNothing`, `RequestsFit` | `NothingLost`, `FitsOrExhausted` |
| HostProofs, of Console | `OneNameEach`, `TurnsFollow`, `WholeOrNothing` | `OneName`, `TurnFollows`, `AllOrNothing` |
| WorkspaceProofs | `OthersKept`, `RevisionNamed`, `Exactly` | `MergeKeepsOthers`, `EditsNamedRevision`, `MergedExactly` |

Each holds for every value of the constants that the module's named assumption
admits, so without the bounds of section 3. The assumptions say what the values
are (numbers, sets of names that are distinct, well-formed trees) and in two
places what the code guarantees: ids that the host mints are not those that a
client sends (`ConnectionsAssumption`), and Directors of one stack have ids of
their own (`TurnsAssumption`). TLC evaluates the assumptions on every run.

The proofs of a component `C` are in `CProofs`, but for two modules that hold
the proofs of several: `HostProofs` of what the session host does (Turns,
Compaction and Console), `ScreenProofs` of what is on the screen (Transcript and
Tui). In each, all components but the first have their name in front of `Init`,
`Next`, `Spec`, `TypeOK` and `vars`, so that they can be extended together; they
have no variable in common and no theorem is about two of them.

None of these properties is inductive. Each proof has an `IInv` (`CompactInv`,
`ConsoleInv`, `TuiInv`) that implies it, shown to hold at first and to be kept by every
action, one lemma for an action or a group of them; TLC checks each of them on
the run's instance without an error.

### Journal

    IInv == TypeOK /\ HeaderInv /\ ModeInv /\ MemoryInv /\ PendingInv
            /\ Replays(disk) /\ Lines(disk) /\ CutInv /\ AckedDurable

`HeaderInv` ties the header to what can follow it; `ModeInv` says what each
place inside a call implies for flags and pending append (for instance: only
an unpoisoned journal without a recovery writes, and a repair that is about to cut
has what it cuts in a copy); `MemoryInv` says that the
records in memory are a prefix of the file, and `ModeInv` how far the file may be
ahead, if no read failed; `CutInv` says of each file that a power loss may bring
back that it too replays and has what cannot be lost;
`PendingInv` that a pending record continues the memory it was made from.
These carry the two statements about the file alone: `Replays(disk)`, each
frame passes the validation and the application of a later open, and
`Lines(disk)`, each record's ancestry holds every earlier record of its
branch. `GrownReplays` and `CutReplays` reduce the file's part to one frame
more or some fewer.

The ancestry of a record is recursive in the code (`materialize` follows
parents). The module defines it without recursion, as the least set of offsets
that holds the record and the parent of each member; `ChainStep` proves that
this set satisfies the code's recursion, and `MaterializeStep` carries that
over to snapshots. `Refinement` is step by step: each action is a step of
`AppendOnlyLog` or leaves what it maps to alone. All but one let the log grow
(`LogGrows`); the cut of a repair that has read less than cannot be lost is
`SetAside` (`LogSetAside`), and then a read had failed.

### Transcript

    IInv == TypeOK /\ Frontier(blocks, committed) /\ HistoryInv /\ EpochInv

`Frontier` says what the scheduler's three lists have to do with each other:
the committed blocks are exactly those before the frontier, with the lines they
were committed with; only the block at the frontier has streamed lines, no more
than it has, and only while it is painted and append-only. That is why an update
may replace any other block's lines, and must keep those already streamed. From
it follows that the ledger is `Story`: what the blocks before the frontier tell
whole (`Past`), then what the one at the frontier has told so far (`Part`);
`LedgerIsStory` proves the two equal.

`HistoryInv` is the property in these terms: the text of the scrollback is the
end of the story, and all of it while the ring is not full. Each action either
leaves the story as it was (`Keeps`: admit, activate, updates, resize, render),
or pushes rows whose text is what the story grows by (`Pushed`), for each of the
three routes into the scrollback: streaming, retirement, which tells only what
was not streamed (`RestStory`), and the replay of a rebuild, which empties the
ring and tells the story from its beginning (`ReplayStory`). `EpochInv` keeps
rows of an earlier width out. `LedgerGrows` follows from the same lemmas.

`FrameTells` is about the frame that would be painted in any state, and needs
besides that no two blocks have one id (`Unlike`), which `Admit` sees to and
every other step keeps (`NextUnlike`). Its first half is arithmetic:
`Reservations` shows by induction over the blocks that what the pass from the
newest block back gives away is the lesser of what all ask for and the room, so
that summary row, history and blocks fill no more than the screen; `Granted`
that a block gets a row if the newer ones, with their padding, ask for less than
the room, and that without a summary row each gets all it asks for. The second
half is about which line a row shows (`Keys`): the ledger has each line once
(`StoryOnce`), so the history has, which is part of its end; what a block paints
lies beyond what it has streamed (`PaintedTells`), so the two share none
(`DrawnTells`). And where nothing is hidden the screen holds the whole
scrollback, which is then shorter than the ring, since every screen is, and so
is the whole ledger: here the assumption that heights are less than `MaxRows` is
needed.

### Replication

    IInv == TypeOK /\ LineInv /\ CommandInv /\ CopyInv /\ QueueDiscipline /\ QueueInv

`Contiguous` speaks of the newest record only; `QueueInv` says that it holds of
any queue that waits for no resync (`Covers`: what the copy lacks is in the
queue, in the order of offsets, up to the newest record) and that offsets in
the queue are in order even of one that waits. `LineInv` (only branches leave
the line) gives that a patch in order continues the copy. `CommandInv` says of
a command between its two steps that its receipt is written and that it has
not run; a rewind drops neither, since receipts are counted over the whole log.
The lemmas about `Push` (`Pushed`: a batch is queued whole, or empties the
queue for a resync, or meets one) are what the actions of every kind of record
share.

### Connections

    IInv == ServiceInv /\ JournalInv /\ FaultsInv

`NoGhost` needs, beside the connection that an attached actor has, that the
live connections are finitely many and counted by `active`, since it is the
service's end that clears them. `OneShot` speaks of the newest record's line;
a rewind makes any other record's line the newest, so `JournalInv` says of the
line behind *every* offset that it is `Orderly`, and the step adds one record
to one line. In an orderly line each record fits what is before it (`Fits`): a
request is about nothing yet, a resolution follows a pending approval, a use one
that is marked as approved; a patch leaves what it likes. A minted id is the
offset of its request, so it is new.

### Jobs

    IInv == Fit /\ Started /\ HostInv /\ Handles /\ Budgeted /\ Slots /\ FaultsInv

`Fit` is the type of each job's record, process and handle, with what bounds
its output (no more than the process writes); `Started` that what has a process
was spawned. `HostInv` says at each place of the host which jobs of the table
are still active: before a tool runs, all of them, since `poll_jobs` and the
settlement behind it came first; `Budgeted` counts what lives; `Handles` and
`Slots` are the two halves of the property: a living process without an active
record is in the table, and an active record has a handle. A poll of a job is
a chain of operators (drain, flush, wall limit, grace); one lemma for each says
what it may change, and `TerminalSticks` follows from the same lemmas.

### Turns

    IInv == TypeOK /\ LostInv /\ OpenInv /\ ActorInv /\ TurnInv /\ IdsInv /\ ForceInv

`OpenInv` and `ActorInv` are the property; `LostInv` adds that nothing of a
turn to come was given up, `TurnInv` that the stack is the document's while a
turn runs. `ForceInv` strengthens `ForceBinds` to every place in a turn. Its
core is about `HandleYield`: of the Directors asked, one that holds a tool not
yet called does not pass and is not done, so that it decides itself or one
further in did; and the walk, popping those that are done, and the journal's
copy of the stack keep everybody else in order. `IdsInv` makes `Synced`, which
finds Directors by id, agree with the walk.

### Compaction

    CompactInv == CompactionTypeOK /\ Graph(dag) /\ CoveredInv /\ ReducedInv /\ StageInv

`NothingLost` is about walks from the folds that stand in a request, which are
the roots of the graph of summaries. `Graph` says of the graph alone what makes
the walks right: children are nodes (`Within`), each node is reached from
exactly one root (`OneRoot`), and no two nodes cover the same entry (`Apart`).
A plan changes the graph in two ways: it covers entries that were visible with
a new node, or puts a new node above some of the roots. For the second, what is
below the new node is itself and what was below the roots it was given, and
below any other root nothing changes; both follow from `Below` being the least
closed set. `CoveredInv` says that what is covered stays eligible: of a turn
that is over, and no instruction. Entries are only added behind it, so that a turn that is over
stays over.

`FitsOrExhausted` compares what was planned with what is sent. `ReducedInv`
gives for each message that it costs no more than reckoned, but for the marker
of omitted arguments (`MessageWithin`), and `Sums` carries this over to the
request (`RequestWithin`): it is longer than planned by at most one marker for
each call whose arguments were omitted, and by what the header of each fold
(`FoldHeader`, which is what is sent) takes more than the planner's constant
(`NodeHeader`). `StageInv` has for each stage what the
stages before it achieved: past reducing, the plan is within the window or
nothing is left to reduce; at the end, nothing to cap either.

### Console

    ConsoleInv == good sessions /\ a good client /\ types /\ TurnFollows

A session is good (`GoodSessions`) if its values have their types, each of its
endpoints has one name, and it does not say both that the catalog is known and
that it could not be fetched; a client is good (`Clients`) if one without an
endpoint has neither key nor catalog. It is not enough that the snapshot is
good when a command ends: a command writes up to four records, a crash or a
rewind may leave the session at any of them, and `OneName` is about these too.
So the lemmas speak of outcomes. `Comes(o, own)` says that every session an
outcome writes is good, that its client is, and that the last session has `own`
as what only a script changes. It is shown of each way a command can end
(`FailedComes`, `CommittedComes`, `AdoptedComes`, `InitializedComes`,
`ProvidedComes`, `AppliedComes`, `TunedComes`), of which one is built on the
other as in the code, and then of the command (`CommandedComes`).

`AllOrNothing` needs to know what a script did to the copies it worked on.
`RunsOf(d)`, which every statement keeps (`ExecutedRun`), says that as long as
no statement was executed that writes, the copies are what they were in `d`;
a command that reaches outside is the only one of its script (`AloneQuiet`), so
that for it, all and nothing are the same. The script of `effort` sets nothing
else (`ThinkingRun`). `TurnFollows` follows from `Refreshed` and `Restored`
alone, if the client before was good.

The assumption on the constants says that statements, pages and the registry
are well typed, as the parsers of the code make them; an entry of a catalog may
lack its id, a script may be of any length and words, and what it calls may call
itself.

### Workspace

    IInv == Typed /\ ViewInv /\ EditInv /\ DiffInv /\ MergeInv

`DiffInv`: what is yet to be merged is part of the difference of the view, each
entry as `Computed` made it. `MergeInv` says of each path that nobody else
touched which of the stages of the merge it is in (`Merging`): not begun and as
the check found it, source of a rename already removed, copied, or a directory
around something copied. At the end there is nothing left to do and this is
`MergedExactly`; at the check it follows from the baseline agreeing with the
workspace wherever the view changed, and that is also what
`MergeKeepsOthers` needs. What the view changed is what its copy differs in from
the baseline, which is scanned before the copy is made: neither property can say
more of the evaluation than the code knows (section 6). `EditInv` says of a file
that was read that it had the tag of the section at hand, that its operations are
those of the first section that targets it, and that they apply. The proof covers the parser
and the application of operations as far as types and the effects go.

### Tui

    TuiInv == WorkerInv /\ UiInv /\ PipeInv /\ RequestsInv /\ JournalsInv
              /\ BaseInv /\ ViewInv /\ ShownInv /\ OneAtATime

`ViewFollows` says where the interface arrives once it has read everything
under way. That is not enough for a step: an interrupt empties the pipe, a
snapshot takes effect only at its place in it, and `/new` changes the session
in between. So `ViewInv` says what the interface will know after *each* of the
events under way (`Course`): a snapshot of a record of some session, or of
none; sessions in order and never past the worker's; changed only by a
`SessionChanged`; and at the end the newest record of the journal the worker
has open. An event put into the pipe makes the course longer by one
(`BaseInv`: the observer's base is that newest record, so that a patch fits),
an event taken from it drops its first place, and with the pipe emptied the
interface's own snapshot is left, whose session is the one the handle restarts
on. `JournalsInv` says that a line ends in its own record's offset; patches
name only the offset of what they continue.

`ShownInv` adds to `ShownIsTrue` what holds in the round before: as long as
nothing is dirty, what is on the screen is what another drawing would show.
Every event and every key sets dirty, or changes nothing that is drawn.

Keys come in many kinds, and Enter alone in a dozen. The proof first shows of
each that it ends in one of five ways (`Outcome`): nothing is sent (`Calm`), a
line is sent by an interface that was not busy (`Sends`), the worker turns out
to be gone (`Breaks`), work is stopped and the worker restarted (`Halts`), or
the interface leaves (`Leaves`); and then of each of the five that it keeps the
invariant. `OneAtATime` is itself part of it: what is on its way to the worker,
under way and answered are counted over three variables, and each step moves a
line from one to the next.

Of what completions read, `TuiAssumption` only asks that lists are sequences;
of the texts, that none is the value that stands for no text.

### How the proofs are made

Where the code walks a list (`Picked`, `Ancestry`, `taken` of Jobs, `state` of
Edits, `Sums` of Picking, `ReplayView` of Tui), the module defines a recursive
function on positions, and the proofs use induction over natural numbers stated
for sets (`NatInduct` of `PickingProofs`): a set that holds 0 and is closed
under successors holds every number. The prover's own induction rule takes an
operator and cannot be used. `PickingProofs` has what several proofs need of
`Picked`: the elements at some positions of a sequence, in their order, and
nothing else. `FlattenSeq`, whose definition in the library is recursive in the
same way, is followed position by position (`FlattenBoth`, `FlattenFront`): the
concatenation of a list of pieces is associative, and rows made piece by piece
tell what the pieces tell.

The proofs changed the models where these could not be reasoned about:
`Patch` lines and operations have types (`PatchLine`, `Op`), a `SelectSeq` with
a condition on the element became `Picked` with its positions, and the guards
of two `CASE`s in `Edits` and one in `Workspace`, which overlapped so that the
value was not determined, exclude each other now. TLC takes the first one
that is true, which is the code's order; the prover may not. In `Tui` the
request to shut down used to be a text: the step of the worker that takes a
line could not be proved, since with the right set of texts a user's line is
taken for a shutdown, which the code excludes by its type. It is a value of its
own now. The menu was computed anew by the key, which agreed with what was
drawn only because nothing changes the view in between; it is kept from the
drawing on, as in the code. `Console` took the last entry of the registry and
the pages of a catalog by folds and `SelectSeq`, and goes by positions now; the
types of what a script says were nowhere stated, and are an assumption.

### Model-checked only

Everything about liveness (`Recovers`, `CatchesUp`, `Settles`, `TurnsEnd`,
`ChildrenReaped`, `ShutdownEnds`, `ComesToRest`, `PlanEnds`), which needs
fairness and ENABLED and is out of the proof system's reach; what folds over
sequences compute for every input (the stream's parser, the editor's wrapping,
the keys' bytes), which needs induction over data: `ToldOnce`, `SettledAsTold`
and `CallsWhole` of Stream, `HeardAsTyped`, `DraftKept` and `CursorShown` of
Terminal.

## 6. Where code and documentation part

Noticed while modelling. The models do what the code does, and the properties
of section 3 are stated so as to hold of it; where a property makes an
exception, its comment says so.

Journal, transcript, server, jobs:

- A crash inside `Journal::create` leaves a file that can be neither opened,
  repaired nor created again (`journal.rs:98-142`), although
  `src/README.md:99-101` says that a torn suffix can be truncated. `create`
  does not sync the directory.
- A read that fails while the journal is replayed is taken for damage
  (`journal.rs:183`), and the worker (`worker.rs:436-438`) and `doctor --repair`
  (`main.rs:1002`) cut the file there, valid and acknowledged records included,
  although `src/README.md:99-101` says that a repair truncates "back to the last
  valid record". The records are in the copy `repair_suffix` syncs first, which
  is what `AckedDurable` and `AppendOnlyLog` say of this case; nothing reads
  that copy again, and its directory is not synced.
- The scrollback ring drops rows within an epoch (`transcript.rs:298-308`),
  which `src/spec/README:61` excludes. A page of a projection fails as a whole
  when more than 128 elements follow a running one (`debug.rs:96`, against
  `debug.rs:51-54`).
- `fork_session`, `rewind_session` and `select_branch` do not replicate
  (`service.rs:975`): a subscriber that took all its messages keeps the old
  branch until the next announcement, contrary to the test at
  `service.rs:1761`. A failed turn or tool does not either
  (`transport.rs:754`). These are the silent records of `Contiguous` and
  `CatchesUp`.
- A turn that waits for the lock while the owner terminates the session runs
  afterwards (`transport.rs:736`); `service.rs:1021` says no mutating action
  is accepted.
- A connection whose actor was detached stays authenticated with its role, and
  acts with the role of whoever attached the id later; when it closes it
  detaches them (`transport.rs:1243`). A failed `poll_jobs` ends
  `serve` without shutting down the dispatcher. An answer longer than a frame
  closes the connection. A denied read waits for approval for ever.
- A patch may write the elements that other requests are about, approvals among
  them (`service.rs:394-420`): what it leaves of an approval counts for the
  resolution and the read that come next, whoever asked for what. `OneShot` counts
  anew behind such a patch.
- The terminal transition of `Job::poll` does not write what the throttle held
  back (`job.rs:535-543`, `684`), so that the Bash tool answers without the
  last output of a command that ends within 100 ms of an earlier write. A read
  error of a pipe is forgotten unless the same poll writes a transition
  (`job.rs:511`); the grace kill overwrites the reason Timeout or Limit
  (`job.rs:613`); `kill` of a process that has just exited with 0 records 0,
  against its comment (`process.rs:509-537`).

Turns and replies:

- A ForceTool whose attempts are exhausted makes every later turn fail, since
  it stays in the snapshot. Calls leaked into text get the ids
  `call_leaked_1`, ... anew in each reply (`repair.rs:354-478`), so that a call
  that failed can count as executed (`host.rs:246-263`). A fork into the middle
  of a call leaves it running; an element whose settling is refused (a frame
  has 1 MiB, a reply may have 10) stays running until a restart. A refused
  patch makes a completed child "failed".
- A reasoning field together with inline tags settles with the tags in the
  text though it was streamed without them, and so does an empty field
  (`provider.rs:914`, `2248-2251`). A reply without calls of the wire is searched
  for calls spelt out in its text (`provider.rs:937-944`), whatever it finished
  with: one that the output limit cut is closed (`repair.rs:378-407`) and runs with
  the beginning of its arguments. `SettledAsTold` and `CallsWhole` except these.
  Finish reasons other than `length`
  and `max_tokens` let cut arguments through; in a reply that is one JSON
  document `length` is not looked at (`provider.rs:2130-2204`) and
  `repair_malformed_json` closes what was cut, so that a truncated call runs:
  `CallsWhole` is about streamed replies only.

Workspace:

- After an evaluation that changes a file the baseline of the session's view
  is not renewed (`omp-tools/src/host.rs:2132-2140`, `workspace.rs:646-657`):
  every later evaluation fails with `workspace_conflict` although nobody else
  changed anything. So it does after a merge that failed half way.
- `src/README.md:246` calls multi-file edits "a single atomic patch"; sections
  are applied one by one (`edit.rs:385-394`), so the second of two sections of
  one file is stale. What a request is checked with is its own tag, and what it
  runs are the operations of the first section that targets the path
  (`host.rs:1427`), whose tag is not looked at: where a patch names two
  revisions of a file, operations of the stale one run under the tag of the
  other, although by `src/README.md:230-231` the tag "identifies the revision
  the patch was authored against". `EditsNamedRevision` excepts such patches. A
  move overwrites its destination without a check, drops the operations before
  it, and is not journalled. Line numbers of an operation apply to the text the
  ones before it made. The tag has 16 bits.
- The baseline of a view is scanned before the copy is made (`workspace.rs:375`,
  `445`): a change that others make in between, and undo later, is in the copy and
  not in the baseline, and the merge writes it again, as if the evaluation had made
  it. `MergeKeepsOthers` and `MergedExactly` speak of the copy against the baseline
  for that reason.
- Between the check and the copy others can be overwritten, which
  `MergeKeepsOthers` excepts; a copy of a file is not atomic; a file that became
  a directory, or the reverse, always fails to merge. `write_file` whose append
  is refused reports an error although the file changed. Direct Bash jobs share
  `.omp-shell-state` and `.omp-shell-cwd` (`host.rs:220-295`). The artifact
  store renames without a sync and takes a blob that exists for a whole one
  (`artifact.rs:314-420`).

Console:

- `effort` as the first statement drops the effects of every other one, and
  elsewhere it is ignored (`host.rs:570-576`); `AllOrNothing` excepts it.
  `provider add` and `remove` are journaled before the settings' patch, so that
  a later failure leaves them, although the comment says atomic.
- A provider added again with another endpoint keeps the old catalog, which is
  never fetched at start-up, contrary to "Its catalog is fetched at startup".
  `refresh_provider` without a key answers Ok and keeps the old client: the
  next turn goes to the previous endpoint. `change_convar` bypasses read-only
  flags and validators. Whether a .cfg is trusted is decided against the
  process's directory, and it is loaded from the workspace's.

Compaction:

- The marker that stands for omitted arguments is sent but not counted
  (`compaction.rs:485-500`), and the header of a fold is 83 characters with an
  id and two numbers beside (`compaction.rs:506-513`), at least 31 tokens, but
  counts 24: contrary to "Every reduction the planner decides is also one the
  projection realizes" (`compaction.rs:36-37`) a plan can stop above the bound
  with more to reduce; `FitsOrExhausted` allows for both. A line of an inventory
  can be longer than the constant called conservative, so that the second stage
  may not run although the request is too long. Folds are in the order of their
  nodes' creation, so that after condensing the oldest content comes last,
  contrary to "oldest node first". Without a window everything is sent unfolded.

Terminal interface:

- Typing while `/new` is under way is answered with "Your draft is preserved"
  (`tui.rs:463`), and then reset (`tui.rs:197`). A recalled line that begins
  with `/` opens the menu, and Up and Down no longer browse. Editing a recalled
  line and pressing Up overwrites the draft. A snapshot longer than a frame
  makes the worker exit and the interface with it.
- A paste whose first bytes come more than 35 ms apart is taken for the escape
  key and text. Alt with a character of several bytes loses the Alt where a read
  cuts the character (`input.rs:198-204`, `232-234`), and so does Alt with a key
  that sends a sequence; `HeardAsTyped` excepts this. The end of a full line and
  the start of the next share a cell. A report of a released button that is
  followed in the same read by a letter loses the letter. A paste over 65,537
  bytes is cut silently and then refused.

## 7. What is not modelled

- Text: layout, wrapping of output, escape filtering, wire formats, wording of
  prompts and summaries. No property here is about it.
- The operating system's sandbox, TLS, authentication tokens, rate limits.
- The document beyond what a property tells apart: each module has the part
  its component reads and writes. A patch of several operations with its undo
  is left (`dom.rs:540`), and so are the debug projection and the console
  without a terminal (`main.rs`).
- The artifact store and what a file system makes of unsynced files and
  directories; the model's power loss keeps the file, and the copies of repairs.
- A failed read of the journal in the modules above it: they find all of it after
  a restart.
- Standard input and byte bounds in Jobs; dynamic tools, resources and the
  shared shell state in the tool host; links and permissions in Workspace.
- The extension manager, the repair of JSON but for what closes a call that was
  cut, and the tables of models and of compatibility.

PROJECT.json lists every component with its status.

## 8. The plan

Done: the journal with its proofs; transcript; replication and connections;
jobs; turns, stream, console and compaction of the session host; edits and
workspace; the terminal, the menu and the interface with its worker.

Proved: the safety of Journal with its refinement, Transcript, Replication,
Connections, Jobs, Turns, Compaction, Console, Workspace and Tui.

A proof worth having next: that the log of `Replication` implements
`AppendOnlyLog`.

Modules left: the document's patches with undo against a reference that copies
the snapshot; the artifact store; the extension manager.
