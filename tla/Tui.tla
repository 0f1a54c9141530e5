-------------------------------- MODULE Tui --------------------------------
(***************************************************************************)
(* The terminal user interface and the process that hosts its session      *)
(* (crates/omp-cli, tui.rs and worker.rs): the interface's loop of polling *)
(* events, drawing and taking one key; the handle that starts, kills and   *)
(* stops the worker; and the worker, which owns the journal, tells of      *)
(* every record and answers every line with one Settled.                   *)
(*                                                                         *)
(* Abstractions.  What keys make of the text is Terminal's: here the user  *)
(* writes a whole text.  A record is the line of journal offsets it ends.  *)
(* Records are written by turns and commands and by jobs in between;       *)
(* what a turn does is Turns'.  A pipe and the queue its reader fills are  *)
(* one queue.  Notices are left out, and so are jobs, whose presence makes *)
(* /detach and /new fail.                                                  *)
(***************************************************************************)
EXTENDS Palette, FiniteSets, TLC

CONSTANTS Texts,     \* what the user may write
          Initial,   \* the message given with the command line, or None
          Facts(_),  \* what completions read of a line of offsets
          Capacity,  \* events a worker can have on their way
          Sessions,  \* 1 .. how many there can be
          MaxRecords, \* of one session
          MaxKeys,
          MaxSteps,  \* records a line may bring
          MaxPolls,  \* and jobs between lines
          MaxDeaths  \* workers that end by themselves

\* Lines of offsets, and what completions read of one.
OffsetLines == UNION {[1 .. n -> 1 .. MaxRecords] : n \in 0 .. MaxRecords}
Readable(facts) ==
    /\ \A s \in {facts.levels, facts.models, facts.aliases, facts.settings, facts.records} :
         IsSequence(s)
    /\ \A i \in DOMAIN facts.records : IsSequence(facts.records[i].models)

ASSUME TuiAssumption ==
    /\ Capacity \in Nat \ {0} /\ MaxRecords \in Nat \ {0}
    /\ Sessions \subseteq Nat /\ 1 \in Sessions
    /\ None \notin Texts \cup {Text("/provider refresh", None)}
    /\ None \notin [session : Sessions, line : OffsetLines]
    /\ \A line \in OffsetLines : Readable(Facts(line))

VARIABLES journals, \* per session: the lines of its records
          worker,   \* the worker process
          requests, \* from the interface to the worker
          pipe,     \* and back
          handle,   \* the interface's Worker: the journal it restarts on
          ui,       \* the interface
          view,     \* its snapshot
          shown,    \* what was drawn last
          keys, deaths

tuiVars == <<journals, worker, requests, pipe, handle, ui, view, shown, keys, deaths>>

-----------------------------------------------------------------------------
(* The worker (run_worker). *)

Snapshot(session, line) == [session |-> session, line |-> line]
Offset(line) == IF line = <<>> THEN 0 ELSE Last(line)
HeadOf(session) ==
    Snapshot(session, IF journals[session] = <<>> THEN <<>> ELSE Last(journals[session]))

Alive == worker.phase # "gone"
HasRoom == Len(pipe) < Capacity

SnapshotEvent(snap) == [kind |-> "Snapshot", snapshot |-> snap]
SessionChanged(snap) == [kind |-> "SessionChanged", snapshot |-> snap]
Patch(base, offset) == [kind |-> "Patch", base |-> base, offset |-> offset]
Settled(ok) == [kind |-> "Settled", ok |-> ok]
Diagnostic == [kind |-> "Diagnostic"]

\* A request that is no line.
ShutdownRequest == None

\* Mutant: every record is told as a patch.
EventPatch(base, line) == Patch(base, Last(line))

\* observe_journal: a record on the last one told is told as a patch, any other
\* as a snapshot.
Event(base, line) ==
    IF base = worker.base THEN Patch(base, Last(line))
    ELSE SnapshotEvent(Snapshot(worker.session, line))

CanAppend == Len(journals[worker.session]) < MaxRecords

\* A record behind a line of offsets, durable before it is told.
Record(line, next) ==
    \E new \in {Append(line, Len(journals[worker.session]) + 1)} :
      /\ CanAppend /\ HasRoom
      /\ journals' = [journals EXCEPT ![worker.session] = Append(@, new)]
      /\ pipe' = Append(pipe, Event(Offset(line), new))
      /\ worker' = [next EXCEPT !.base = Last(new)]

Now == HeadOf(worker.session).line

\* A worker that was killed at work leaves calls and jobs that its successor
\* settles, before the first snapshot and the observer (reconcile_orphans).
Start ==
    /\ worker.phase = "starting" /\ HasRoom
    /\ \E line \in {Now, Append(Now, Len(journals[worker.session]) + 1)} :
         /\ line # Now => worker.orphans /\ CanAppend
         /\ journals' = IF line = Now THEN journals
                        ELSE [journals EXCEPT ![worker.session] = Append(@, line)]
         /\ pipe' = Append(pipe, SnapshotEvent(Snapshot(worker.session, line)))
         /\ worker' = [worker EXCEPT !.phase = "idle", !.base = Offset(line),
                                     !.orphans = FALSE]
    /\ UNCHANGED <<requests, handle, ui, view, shown, keys, deaths>>

\* Between lines, jobs and children are polled: what they bring is a record, or
\* could not be recorded and is reported (report_poll_failure).
PollJobs ==
    /\ worker.phase = "idle" /\ worker.polls > 0
    /\ \E next \in {[worker EXCEPT !.polls = @ - 1]} :
         \/ Record(Now, next)
         \/ /\ HasRoom
            /\ pipe' = Append(pipe, Diagnostic) /\ worker' = next
            /\ UNCHANGED journals
    /\ UNCHANGED <<requests, handle, ui, view, shown, keys, deaths>>

TakeLine ==
    /\ worker.phase = "idle" /\ requests # <<>>
    /\ requests' = Tail(requests)
    /\ worker' = [worker EXCEPT !.phase = IF requests[1] = ShutdownRequest
                                          THEN "shutdown" ELSE "working",
                                !.line = requests[1], !.steps = MaxSteps]
    /\ UNCHANGED <<journals, pipe, handle, ui, view, shown, keys, deaths>>

Working(word) == worker.phase = "working" /\ worker.line.word = word
Finished == [worker EXCEPT !.phase = "settling"]

\* A turn or a command, and what initialize_provider brings a new session.
Work ==
    /\ worker.phase = "working" /\ worker.steps > 0
    /\ worker.line.word \notin {"/fork", "/new"}
    /\ Record(Now, [worker EXCEPT !.steps = @ - 1])
    /\ UNCHANGED <<requests, handle, ui, view, shown, keys, deaths>>

\* /fork: a record behind an earlier one.
Fork ==
    /\ Working("/fork")
    /\ \E line \in {<<>>} \cup {journals[worker.session][i] : i \in DOMAIN journals[worker.session]} :
         Record(line, Finished)
    /\ UNCHANGED <<requests, handle, ui, view, shown, keys, deaths>>

\* /new: another journal, with the settings of the old one.
CleanSession ==
    /\ Working("/new") /\ HasRoom
    /\ \E s \in Sessions :
         /\ s = worker.session + 1
         /\ journals' = [journals EXCEPT ![s] = <<<<1>>>>]
         /\ pipe' = Append(pipe, SessionChanged(Snapshot(s, <<1>>)))
         /\ worker' = [worker EXCEPT !.session = s, !.base = 1,
                                     !.line = Text("initialize_provider", None)]
    /\ UNCHANGED <<requests, handle, ui, view, shown, keys, deaths>>

Succeed ==
    /\ worker.phase = "working" /\ worker.line.word \notin {"/fork", "/new"}
    /\ worker' = Finished
    /\ UNCHANGED <<journals, requests, pipe, handle, ui, view, shown, keys, deaths>>

\* Mutant: a failure that could be recorded needs no answer.
FailUnanswered ==
    /\ worker.phase = "working"
    /\ IF CanAppend THEN Record(Now, [worker EXCEPT !.phase = "idle", !.line = None])
       ELSE worker' = [Finished EXCEPT !.ok = FALSE] /\ UNCHANGED <<journals, pipe>>
    /\ UNCHANGED <<requests, handle, ui, view, shown, keys, deaths>>

\* A failure is recorded if the journal takes it, and answered.
Fail ==
    /\ worker.phase = "working"
    /\ IF CanAppend THEN Record(Now, [Finished EXCEPT !.ok = FALSE])
       ELSE worker' = [Finished EXCEPT !.ok = FALSE] /\ UNCHANGED <<journals, pipe>>
    /\ UNCHANGED <<requests, handle, ui, view, shown, keys, deaths>>

Settle ==
    /\ worker.phase = "settling" /\ HasRoom
    /\ pipe' = Append(pipe, Settled(worker.ok))
    /\ worker' = [worker EXCEPT !.phase = "idle", !.line = None, !.ok = TRUE]
    /\ UNCHANGED <<journals, requests, handle, ui, view, shown, keys, deaths>>

Shutdown ==
    /\ worker.phase = "shutdown"
    /\ pipe' = Append(pipe, Settled(TRUE))
    /\ worker' = [worker EXCEPT !.phase = "gone"]
    /\ UNCHANGED <<journals, requests, handle, ui, view, shown, keys, deaths>>

\* The worker ends: a frame too large for the wire, a panic, a kill from outside.
Die ==
    /\ Alive /\ deaths < MaxDeaths
    /\ deaths' = deaths + 1
    /\ worker' = [worker EXCEPT !.phase = "gone"]
    /\ UNCHANGED <<journals, requests, pipe, handle, ui, view, shown, keys>>

-----------------------------------------------------------------------------
(* The handle (Worker) and the loop of tui::run. *)

Screen(u) ==
    [view |-> view, draft |-> u.draft, selected |-> u.selected,
     dismissed |-> u.dismissed, menu |-> u.menu, panel |-> u.panel, busy |-> u.busy]

\* Another worker, on the journal the handle knows of: what the old one had not
\* told is dropped with its pipes (Worker::interrupt).
NewWorker(session, orphans, polls) ==
    [phase |-> "starting", session |-> session, base |-> 0, orphans |-> orphans,
     line |-> None, steps |-> 0, ok |-> TRUE, polls |-> polls]
Restarted ==
    NewWorker(handle, handle = worker.session
                      /\ (worker.orphans \/ worker.phase = "working"), worker.polls)

Interrupt ==
    worker' = Restarted /\ requests' = <<>> /\ pipe' = <<>>

\* The run ends with an error, and drops the worker.
Fails(u) ==
    /\ ui' = [u EXCEPT !.pc = "ended"]
    /\ worker' = [worker EXCEPT !.phase = "gone"]
    /\ UNCHANGED requests

\* Submits a line, unless it is None.
Deliver(u, line) ==
    CASE line = None -> ui' = u /\ UNCHANGED <<requests, worker>>
      [] line # None /\ Alive -> /\ ui' = [u EXCEPT !.busy = TRUE]
                                 /\ requests' = Append(requests, line)
                                 /\ UNCHANGED worker
      [] OTHER -> Fails(u)

\* The pending message goes out when nothing else is under way.
DeliverPending(u) ==
    Deliver([u EXCEPT !.pending = IF u.busy THEN @ ELSE None],
            IF u.busy THEN None ELSE u.pending)

Emptied(u) ==
    [u EXCEPT !.draft = None, !.dismissed = FALSE, !.selected = 0]
OtherSession(u) == [Emptied(u) EXCEPT !.panel = FALSE, !.armed = FALSE]

\* Mutant: a snapshot is taken for the end of what is under way.
TakeSnapshotSettling(event) ==
    LET u == IF event.snapshot.session = view.session THEN ui ELSE OtherSession(ui)
    IN  /\ view' = event.snapshot
        /\ handle' = IF event.kind = "SessionChanged" THEN event.snapshot.session ELSE handle
        /\ DeliverPending([u EXCEPT !.ready = TRUE, !.busy = FALSE, !.dirty = TRUE])

TakeSnapshot(event) ==
    LET u == IF event.snapshot.session = view.session THEN ui ELSE OtherSession(ui)
    IN  /\ view' = event.snapshot
        /\ handle' = IF event.kind = "SessionChanged" THEN event.snapshot.session ELSE handle
        /\ DeliverPending([u EXCEPT !.ready = TRUE, !.dirty = TRUE])

\* Mutant: a patch does not make the screen dirty.
TakePatchQuietly(event) ==
    /\ IF event.base = Offset(view.line)
       THEN /\ view' = [view EXCEPT !.line = Append(@, event.offset)]
            /\ UNCHANGED <<ui, requests, worker>>
       ELSE Fails(ui) /\ UNCHANGED view
    /\ UNCHANGED handle

\* apply_patch: a patch whose base is not the view's offset ends the run.
TakePatch(event) ==
    /\ IF event.base = Offset(view.line)
       THEN /\ view' = [view EXCEPT !.line = Append(@, event.offset)]
            /\ ui' = [ui EXCEPT !.dirty = TRUE]
            /\ UNCHANGED <<requests, worker>>
       ELSE Fails(ui) /\ UNCHANGED view
    /\ UNCHANGED handle

TakeSettled(event) ==
    /\ IF event.ok THEN DeliverPending([ui EXCEPT !.busy = FALSE, !.dirty = TRUE])
       ELSE Deliver([ui EXCEPT !.busy = FALSE, !.dirty = TRUE], None)
    /\ UNCHANGED <<view, handle>>

PollEvent ==
    /\ ui.pc = "poll" /\ pipe # <<>>
    /\ pipe' = Tail(pipe)
    /\ \E event \in {pipe[1]} :
         CASE event.kind \in {"Snapshot", "SessionChanged"} -> TakeSnapshot(event)
           [] event.kind = "Patch" -> TakePatch(event)
           [] event.kind = "Settled" -> TakeSettled(event)
           [] event.kind = "Diagnostic" -> /\ ui' = [ui EXCEPT !.dirty = TRUE]
                                           /\ UNCHANGED <<view, handle, requests, worker>>
    /\ UNCHANGED <<journals, shown, keys, deaths>>

\* The worker has ended, and all it has told has been taken.
PollEnd ==
    /\ ui.pc = "poll" /\ pipe = <<>> /\ ~Alive
    /\ Fails(ui)
    /\ UNCHANGED <<journals, pipe, handle, view, shown, keys, deaths>>

Candidates ==
    IF ui.dismissed \/ ui.draft = None THEN <<>>
    ELSE Completions(ui.draft, Facts(view.line))
MenuEnd(menu) == IF menu = <<>> THEN 0 ELSE Len(menu) - 1

\* The menu is worked out anew in each round, and drawn if anything changed.
Draw ==
    /\ ui.pc = "poll" /\ pipe = <<>> /\ Alive
    /\ \E menu \in {Candidates} :
         \E u \in {[ui EXCEPT !.selected = IF @ <= MenuEnd(menu) THEN @ ELSE MenuEnd(menu),
                              !.menu = menu, !.pc = "key", !.dirty = FALSE]} :
           /\ ui' = u
           /\ shown' = IF ui.dirty THEN Screen(u) ELSE shown
    /\ UNCHANGED <<journals, worker, requests, pipe, handle, view, keys, deaths>>

MenuOpen ==
    /\ ~ui.dismissed /\ ui.draft # None /\ IsCommand(ui.draft)
    /\ ui.menu # <<>> \/ ui.draft.arg = None \/ ui.draft.word = "/provider select"
Choosing == MenuOpen /\ ui.menu # <<>>

NoKey ==
    /\ ui.pc = "key" /\ ui' = [ui EXCEPT !.pc = "poll", !.menu = <<>>]
    /\ UNCHANGED <<journals, worker, requests, pipe, handle, view, shown, keys, deaths>>

-----------------------------------------------------------------------------
(* Keys. *)

Press == ui.pc = "key" /\ keys < MaxKeys /\ keys' = keys + 1
Pressed == [ui EXCEPT !.pc = "poll", !.menu = <<>>, !.dirty = TRUE]
Quiet == UNCHANGED <<worker, requests, pipe>>
KeyFrame == UNCHANGED <<journals, handle, view, shown, deaths>>

\* Typing, deleting and recalling open the menu again; a paste closes it.
Write(text, pasted) ==
    /\ Press /\ ~ui.panel /\ ui.draft # text
    /\ ui' = [Pressed EXCEPT !.draft = text, !.dismissed = pasted, !.selected = 0]
    /\ Quiet /\ KeyFrame

Select ==
    /\ Press /\ ~ui.panel /\ Choosing
    /\ \E n \in {1, Len(ui.menu) - 1} :
         ui' = [Pressed EXCEPT !.selected = (@ + n) % Len(ui.menu)]
    /\ Quiet /\ KeyFrame

Complete ==
    /\ Press /\ ~ui.panel /\ Choosing
    /\ ui' = [Pressed EXCEPT !.draft = ui.menu[ui.selected + 1].insert, !.selected = 0]
    /\ Quiet /\ KeyFrame

ClosePanel ==
    /\ Press /\ ui.panel
    /\ ui' = [Pressed EXCEPT !.panel = FALSE]
    /\ Quiet /\ KeyFrame

\* Esc, and Ctrl+C, stop what is under way.
Stopped(u) == [u EXCEPT !.busy = FALSE, !.ready = FALSE, !.pending = None]
StopWork ==
    /\ Press /\ ~ui.panel /\ ui.busy
    /\ ui' = Stopped(Pressed) /\ Interrupt
    /\ KeyFrame

CloseMenu ==
    /\ Press /\ ~ui.panel /\ MenuOpen
    /\ ui' = [Pressed EXCEPT !.dismissed = TRUE]
    /\ Quiet /\ KeyFrame

ClearDraft ==
    /\ Press /\ ~ui.panel /\ ~ui.busy /\ ui.draft # None
    /\ ui' = [Pressed EXCEPT !.draft = None, !.dismissed = FALSE, !.armed = TRUE]
    /\ Quiet /\ KeyFrame

\* The run ends in order: work is stopped, and the worker is asked to end.
Leave(u) ==
    /\ ui' = [u EXCEPT !.pc = "stopping"]
    /\ IF u.busy THEN worker' = Restarted /\ requests' = <<ShutdownRequest>> /\ pipe' = <<>>
       ELSE requests' = Append(requests, ShutdownRequest) /\ UNCHANGED <<worker, pipe>>

\* Ctrl+C on an empty line, twice within two seconds, and Ctrl+D.
Quit ==
    /\ Press /\ ~ui.panel /\ ui.draft = None
    /\ \/ Leave(Pressed)
       \/ /\ ~ui.busy /\ ~ui.armed
          /\ ui' = [Pressed EXCEPT !.armed = TRUE] /\ Quiet
    /\ KeyFrame

LocalPanels == {"/help", "/settings", "/status", "/inspect", "/actors", "/jobs"}

\* What the host is sent.
SentLine(text) ==
    IF text = Text("/thinking", None) THEN Text("/toggle", "cl_showthinking") ELSE text

Submitted(u) ==
    LET text == u.draft
        bare == text.arg \in {None, Empty}
    IN  CASE bare /\ text.word = "/new" ->
               /\ ui' = [Stopped(Emptied(u)) EXCEPT !.pending = Text("/new", None)]
               /\ Interrupt
          [] bare /\ text.word \in {"/exit", "/detach"} ->
               IF text.word = "/detach" /\ u.busy THEN ui' = u /\ Quiet ELSE Leave(u)
          [] bare /\ text.word = "/model" ->
               /\ ui' = [u EXCEPT !.draft = Text("/provider select", Empty),
                                  !.dismissed = FALSE, !.selected = 0]
               /\ Quiet
          [] bare /\ text.word \in LocalPanels ->
               /\ ui' = [u EXCEPT !.draft = None, !.panel = TRUE, !.dismissed = FALSE]
               /\ Quiet
          [] OTHER ->
               IF u.busy \/ ~u.ready THEN ui' = u /\ Quiet
               ELSE Deliver(Emptied(u), SentLine(text)) /\ UNCHANGED pipe

Enter ==
    /\ Press /\ ~ui.panel /\ ui.draft # None
    /\ IF Choosing
       THEN \E choice \in {ui.menu[ui.selected + 1]} :
              \E u \in {[Pressed EXCEPT !.draft = choice.insert, !.selected = 0]} :
                IF choice.execute THEN Submitted(u) ELSE ui' = u /\ Quiet
       ELSE Submitted(Pressed)
    /\ KeyFrame

AKey ==
    \/ \E text \in Texts \cup {None}, pasted \in BOOLEAN :
         (pasted => text # None) /\ Write(text, pasted)
    \/ Select \/ Complete \/ ClosePanel \/ StopWork \/ CloseMenu \/ ClearDraft
    \/ Quit \/ Enter

-----------------------------------------------------------------------------
(* The end (Worker::stop): what the worker still tells is dropped. *)

Drain ==
    /\ ui.pc = "stopping" /\ pipe # <<>>
    /\ pipe' = Tail(pipe)
    /\ UNCHANGED <<journals, worker, requests, handle, ui, view, shown, keys, deaths>>

\* The worker has ended, or three seconds have passed and it is killed.
StopEnd ==
    /\ ui.pc = "stopping"
    /\ ui' = [ui EXCEPT !.pc = "ended"]
    /\ worker' = [worker EXCEPT !.phase = "gone"]
    /\ UNCHANGED <<journals, requests, pipe, handle, view, shown, keys, deaths>>

-----------------------------------------------------------------------------

\* With an initial message, the catalog is refreshed first.
TuiInit ==
    /\ journals = [s \in Sessions |-> <<>>]
    /\ worker = NewWorker(1, FALSE, MaxPolls)
    /\ pipe = <<>> /\ handle = 1
    /\ \E refresh \in BOOLEAN :
         /\ requests = IF refresh THEN <<Text("/provider refresh", None)>> ELSE <<>>
         /\ ui = [pc |-> "poll", draft |-> None, dismissed |-> FALSE, selected |-> 0,
                  menu |-> <<>>, panel |-> FALSE, busy |-> refresh, ready |-> FALSE,
                  pending |-> Initial, armed |-> FALSE, dirty |-> TRUE]
    /\ view = Snapshot(1, <<>>)
    /\ shown = Screen(ui)
    /\ keys = 0 /\ deaths = 0

WorkerStep ==
    Start \/ TakeLine \/ Work \/ Fork \/ CleanSession \/ Succeed \/ Fail \/ Settle \/ Shutdown
UiStep == PollEvent \/ PollEnd \/ NoKey \/ Drain \/ StopEnd

TuiNext == WorkerStep \/ PollJobs \/ Die \/ UiStep \/ Draw \/ AKey

TuiSpec == TuiInit /\ [][TuiNext]_tuiVars

\* Both loops go on as long as there is something to do: turns and commands end,
\* which Turns and the time limits of requests are about.  That the screen is
\* drawn is not needed.
FairSpec == TuiSpec /\ WF_tuiVars(WorkerStep) /\ WF_tuiVars(UiStep)

-----------------------------------------------------------------------------

\* The interface has drawn, when it waits for a key, what it will act on: the
\* menu's entry that Enter runs is the one shown (dirty in tui::run).
ShownIsTrue == ui.pc = "key" => shown = Screen(ui)

\* Types of the variables; the queue keeps to its capacity, and a selection to
\* the menu (editor.rs, tui.rs, worker.rs).
TuiTypeOK ==
    /\ worker.session \in Sessions /\ handle \in Sessions /\ view.session \in Sessions
    /\ worker.phase \in {"starting", "idle", "working", "settling", "shutdown", "gone"}
    /\ ui.pc \in {"poll", "key", "stopping", "ended"}
    /\ Len(pipe) <= Capacity + 1
    /\ ui.menu # <<>> => ui.selected < Len(ui.menu)

\* What an event makes of a snapshot; None if a patch does not fit.
Learned(snap, event) ==
    CASE snap = None -> None
      [] snap # None /\ event.kind \in {"Snapshot", "SessionChanged"} -> event.snapshot
      [] snap # None /\ event.kind = "Patch" ->
           IF event.base # Offset(snap.line) THEN None
           ELSE [snap EXCEPT !.line = Append(@, event.offset)]
      [] OTHER -> snap

\* And all events under way, one after the other.
ReplayView(snap) ==
    LET after[k \in 0 .. Len(pipe)] ==
            IF k = 0 THEN snap ELSE Learned(after[k - 1], pipe[k])
    IN  after[Len(pipe)]

\* However lines fork the journal or change the session, and whenever work is
\* stopped, the interface's snapshot and the events under way come to the
\* journal the worker has open (observe_journal, Worker::interrupt).
ViewFollows ==
    /\ TuiTypeOK
    /\ worker.phase \notin {"starting", "gone"} /\ ui.pc \in {"poll", "key"} =>
         ReplayView(view) = HeadOf(worker.session)

\* The interface is busy if and only if exactly one line is on its way to the
\* worker, under way, or answered and not yet polled (run, run_worker).
Outstanding ==
    Len(requests) + (IF worker.phase \in {"working", "settling"} THEN 1 ELSE 0)
      + Cardinality({i \in DOMAIN pipe : pipe[i].kind = "Settled"})
OneAtATime ==
    Alive /\ ui.pc \in {"poll", "key"} => Outstanding = (IF ui.busy THEN 1 ELSE 0)

\* Every line is answered and every restarted worker speaks: at last the
\* interface has ended, or waits for the user with its view up to date.
ComesToRest ==
    <>[](ui.pc = "ended" \/ (ui.ready /\ ~ui.busy /\ view = HeadOf(worker.session)))

=============================================================================
