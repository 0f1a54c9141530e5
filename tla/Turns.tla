------------------------------- MODULE Turns -------------------------------
(***************************************************************************)
(* The session host of crates/omp-control: SessionHost::run_turn with its  *)
(* Directors (director.rs, agent_loop.rs), the children an Agent call      *)
(* starts (children.rs), and the worker process around them                *)
(* (crates/omp-cli/src/worker.rs) that restarts, forks and shuts down.     *)
(*                                                                         *)
(* Abstractions.  Settled elements are forgotten, but for whether a call   *)
(* succeeded.  What the model says and what a tool or a child answers is a *)
(* free choice.  An append is kept, or refused without harm (validation,   *)
(* frame limit), or refused for good (an I/O error poisons the journal).   *)
(* Jobs are in Jobs.tla, the journal in Journal.tla.                       *)
(***************************************************************************)
EXTENDS Picking, FiniteSets, SequencesExt

CONSTANTS Tools,          \* tool names; "Agent" spawns children
          PlanTools,      \* calls that read, write or edit the plan file
          Children,       \* ids of child hosts
          None,           \* no value
          DirectorStacks, \* the Directors a session can start with
          Forces,         \* the ForceTool Directors /force can push
          MaxTurnSteps,   \* SessionHost.max_turn_steps
          MaxChildren,    \* job_max_concurrency
          Replies,        \* tool calls that a reply may have
          MaxTurns,       \* bound: turns
          MaxFaults,      \* bound: refused appends, crashes, forks, ...
          ForkPoints      \* bound: where the turn is at an offset /fork names

VARIABLES
    dom,       \* what the turns need of the session's snapshot
    journal,   \* "open", or "failed" once it is poisoned
    stack,     \* SessionHost.director_stack, outermost first
    turn,      \* the running or the last turn
    table,     \* SessionHost.children
    cancelled, \* the cancellation flag of a host that is itself a child
    role,      \* "worker", or "child" for the host of an Agent task
    lost,      \* what stays running in the snapshot with nobody at work
    past,      \* an earlier snapshot that /fork can return to, or None
    faults     \* how many faults so far

vars == <<dom, journal, stack, turn, table, cancelled, role, lost, past,
          faults>>

ForceTool == [kind : {"ForceTool"}, id : Nat, tool : Tools, max : Nat,
              onfail : {"Fail", "Yield"}, attempts : Nat]
TodoReminder == [kind : {"TodoReminder"}, id : Nat, todos : BOOLEAN,
                 reminded : BOOLEAN]
\* `answered': a plan was proposed or the user was asked.
PlanMode == [kind : {"PlanMode"}, id : Nat, inspected : BOOLEAN,
             answered : BOOLEAN]
GoalCompletion == [kind : {"GoalCompletion"}, id : Nat, completed : BOOLEAN]
Director == ForceTool \cup TodoReminder \cup PlanMode \cup GoalCompletion

Element == {"assistant", "call"} \X (0 .. MaxTurns)

\* Ids of directors, elements and children are minted.
Distinct(directors) ==
    \A i, j \in DOMAIN directors : directors[i].id = directors[j].id => i = j

ASSUME TurnsAssumption ==
    /\ PlanTools \subseteq Tools
    /\ MaxTurnSteps \in Nat /\ MaxChildren \in Nat
    /\ Replies \subseteq Seq(Tools)
    /\ MaxTurns \in Nat /\ MaxFaults \in Nat
    /\ "Down" \notin ForkPoints
    /\ \A stacked \in DirectorStacks : stacked \in Seq(Director) /\ Distinct(stacked)
    /\ Forces \subseteq ForceTool
    /\ Element \cap Children = {} /\ None # "ok"

\* `open': the elements of the body whose status is running; `succeeded':
\* some tool call has.
Snapshot == [directors : Seq(Director), open : SUBSET Element,
             succeeded : BOOLEAN, todo : BOOLEAN,
             actors : [Children -> {"absent", "running", "succeeded", "failed",
                                    "cancelled"}]]

\* `begun' and `invoked' are read by properties only: the Directors at the
\* beginning and the tools the model called.
Turn == [n : 0 .. MaxTurns,
         pc : {"Idle", "Step", "Ask", "Stream", "Settle", "Tools", "Call",
               "Spawn", "Called", "Yield", "Steer", "Exit", "Down"},
         step : 0 .. MaxTurnSteps, calls : Seq(Tools), executed : SUBSET Tools,
         outcome : {None, "succeeded", "failed", "cancelled"},
         batch : 0 .. MaxChildren, result : {None, "ok", "error"},
         begun : Seq(Director), invoked : SUBSET Tools]

Handle == [cancel : BOOLEAN,
           result : {"none", "succeeded", "failed", "cancelled", "gone"}]

\* Types of the variables.
TypeOK ==
    /\ dom \in Snapshot
    /\ journal \in {"open", "failed"}
    /\ stack \in Seq(Director)
    /\ turn \in Turn
    /\ DOMAIN table \subseteq Children
    /\ \A c \in DOMAIN table : table[c] \in Handle
    /\ cancelled \in BOOLEAN /\ role \in {"worker", "child"}
    /\ cancelled => role = "child"
    /\ lost \subseteq Element \cup Children
    /\ past \in Snapshot \cup {None}
    /\ faults \in 0 .. MaxFaults

-----------------------------------------------------------------------------
Assistant == <<"assistant", turn.n>>
ToolCall == <<"call", turn.n>>

Faulty == faults < MaxFaults /\ faults' = faults + 1

\* Journal::append_patch.
Appends == journal = "open" /\ UNCHANGED <<journal, faults>>
Refuses ==
    \/ journal = "failed" /\ UNCHANGED <<journal, faults>>
    \/ journal = "open" /\ Faulty /\ journal' \in {"open", "failed"}

At(pc) == turn.pc = pc
Goes(pc) == turn' = [turn EXCEPT !.pc = pc]

\* run_turn returns.
Ended(t, result) ==
    [t EXCEPT !.pc = "Idle", !.result = result, !.step = 0, !.calls = <<>>,
              !.executed = {}, !.outcome = None, !.batch = 0]
Ends(result) == turn' = Ended(turn, result)

Init ==
    /\ \E directors \in DirectorStacks, todo \in BOOLEAN :
         /\ dom = [directors |-> directors, open |-> {},
                   succeeded |-> FALSE, todo |-> todo,
                   actors |-> [c \in Children |-> "absent"]]
         /\ stack = directors
    /\ journal = "open"
    /\ turn = [n |-> 0, pc |-> "Idle", step |-> 0, calls |-> <<>>,
               executed |-> {}, outcome |-> None, batch |-> 0,
               result |-> None, begun |-> <<>>, invoked |-> {}]
    /\ table = <<>>
    /\ cancelled = FALSE /\ role \in {"worker", "child"}
    /\ lost = {} /\ past = None /\ faults = 0

-----------------------------------------------------------------------------
(* Directors. *)

\* ForceTool::on_yield, where `seen' are the tools executed in this turn.
ForceYield(d, seen) ==
    IF d.tool \in seen THEN [says |-> "Done", director |-> d]
    ELSE LET more == [d EXCEPT !.attempts = @ + 1] IN
         [says |-> CASE more.attempts < d.max -> "Continue"
                     [] more.attempts >= d.max /\ d.onfail = "Fail" -> "Fail"
                     [] OTHER -> "Yield",
          director |-> more]

\* TodoReminderDirector::on_yield: the live list, or the one it kept.
TodoYield(d) ==
    LET kept == [d EXCEPT !.todos = @ \/ dom.todo] IN
    IF ~kept.todos THEN [says |-> "Done", director |-> kept]
    ELSE [says |-> IF d.reminded THEN "Pass" ELSE "Continue",
          director |-> [kept EXCEPT !.reminded = TRUE]]

\* PlanModeDirector::on_yield; `answer': the text proposes a plan or asks.
PlanYield(d, seen, answer) ==
    LET now == [d EXCEPT !.inspected = @ \/ seen \cap PlanTools # {},
                         !.answered = @ \/ answer]
    IN  [says |-> IF now.inspected /\ now.answered THEN "Pass" ELSE "Continue",
         director |-> now]

\* GoalCompletionDirector::on_yield.
GoalYield(d) ==
    [says |-> IF d.completed THEN "Done" ELSE "Pass", director |-> d]

OnYield(d, seen, answer) ==
    CASE d.kind = "ForceTool" -> ForceYield(d, seen)
      [] d.kind = "TodoReminder" -> TodoYield(d)
      [] d.kind = "PlanMode" -> PlanYield(d, seen, answer)
      [] OTHER -> GoalYield(d)

\* The positions of the Directors whose answer ends the walk.
Deciders(answers) ==
    {i \in DOMAIN answers : answers[i].says \notin {"Pass", "Done"}}

\* Mutant: outermost first.
ReachedOutward(answers) ==
    {i \in DOMAIN answers : \A j \in Deciders(answers) : i <= j}

\* Innermost first, until one decides.
Reached(answers) ==
    {i \in DOMAIN answers : \A j \in Deciders(answers) : j <= i}

\* DirectorStack::handle_yield; those that are done are popped on the way.
HandleYield(seen, answer) ==
    LET answers == [i \in DOMAIN stack |-> OnYield(stack[i], seen, answer)]
        asked   == Reached(answers)
        after   == [i \in DOMAIN stack |->
                       IF i \in asked THEN answers[i].director ELSE stack[i]]
        popped  == {i \in asked : answers[i].says = "Done"}
    IN  [stack |-> Picked(after, DOMAIN stack \ popped),
         says  |-> IF Deciders(answers) = {} THEN "Yield"
                   ELSE answers[CHOOSE i \in Deciders(answers) : i \in asked].says]

\* sync_directors_to_journal: payloads are replaced, the rest is deleted.
Synced(directors) ==
    LET had      == dom.directors
        Twins(d) == {e \in ToSet(directors) : e.id = d.id}
        kept     == {i \in DOMAIN had : Twins(had[i]) # {}}
        after    == [i \in DOMAIN had |->
                        IF i \in kept THEN CHOOSE e \in Twins(had[i]) : TRUE
                        ELSE had[i]]
    IN  Picked(after, kept)

\* The forced tool of a request is the innermost one: each prepare_inference
\* overwrites the choice of those around it.
Forced == SelectSeq(stack, LAMBDA d : d.kind = "ForceTool")

\* ToolForcePolicy::prepare_request refuses.
Exhausted ==
    /\ Forced # <<>>
    /\ Last(Forced).attempts >= Last(Forced).max

-----------------------------------------------------------------------------
(* Children: SessionHost::poll_children. *)

Ready == {c \in DOMAIN table : table[c].result # "none"}
Forgotten == {c \in DOMAIN table : dom.actors[c] = "absent"}
Status(c) == IF table[c].result = "gone" THEN "failed" ELSE table[c].result
Settled(settled) ==
    [dom EXCEPT !.actors =
        [c \in Children |-> IF c \in settled THEN Status(c) ELSE @[c]]]

\* Every child is asked; a forgotten one is told to stop.
Asked(c) ==
    [table[c] EXCEPT !.cancel = @ \/ c \in Forgotten]

PollSettles ==
    /\ Ready \subseteq Forgotten \/ journal = "open"
    /\ dom' = Settled(Ready \ Forgotten)
    /\ table' = [c \in DOMAIN table \ Ready |-> Asked(c)]
    /\ UNCHANGED <<journal, lost, faults>>

\* One settling is refused: that child is out of the table already, and those
\* behind it have had their results taken from the channel.
PollRefused ==
    \E x \in Ready \ Forgotten : \E done \in SUBSET (Ready \ {x}) :
        /\ done \subseteq Forgotten \/ journal = "open"
        /\ Refuses
        /\ dom' = Settled(done \ Forgotten)
        /\ table' = [c \in DOMAIN table \ (done \cup {x}) |->
                       IF c \in Ready THEN [Asked(c) EXCEPT !.result = "gone"]
                       ELSE Asked(c)]
        /\ lost' = lost \cup {x}

\* The thread of a child ends: run_turn, shutdown, then one message; or it
\* panics.
ChildEnds(c) ==
    /\ c \in DOMAIN table /\ table[c].result = "none"
    /\ \E result \in {"succeeded", "failed", "cancelled", "gone"} :
         /\ result = "cancelled" => table[c].cancel
         /\ IF result = "gone" THEN Faulty ELSE UNCHANGED faults
         /\ table' = [table EXCEPT ![c].result = result]
    /\ UNCHANGED <<dom, journal, stack, turn, cancelled, role, lost, past>>

-----------------------------------------------------------------------------
(* SessionHost::run_turn. *)

\* The Directors are those of the snapshot; then the message is appended.
StartTurn ==
    /\ At("Idle") /\ turn.n < MaxTurns /\ (role = "child" => turn.n = 0)
    /\ stack' = dom.directors
    /\ LET begun == [turn EXCEPT !.n = @ + 1, !.pc = "Step", !.step = 0,
                                 !.executed = {}, !.invoked = {},
                                 !.result = None, !.begun = dom.directors]
       IN  \/ Appends /\ turn' = begun
           \/ Refuses /\ turn' = Ended(begun, "error")
    /\ UNCHANGED <<dom, table, cancelled, role, lost, past>>

\* Mutant: a step that only called tools is free.
StepFree ==
    /\ At("Step")
    /\ PollSettles
    /\ Goes("Ask")
    /\ UNCHANGED <<stack, cancelled, role, past>>

\* The head of the loop.
Step ==
    /\ At("Step")
    /\ \/ /\ turn.step = MaxTurnSteps
          /\ Ends("error")
          /\ UNCHANGED <<dom, journal, table, lost, faults>>
       \/ /\ turn.step < MaxTurnSteps
          /\ PollRefused /\ Ends("error")
       \/ /\ turn.step < MaxTurnSteps
          /\ PollSettles
          /\ IF cancelled THEN Ends("error")
             ELSE turn' = [turn EXCEPT !.pc = "Ask", !.step = @ + 1]
    /\ UNCHANGED <<stack, cancelled, role, past>>

\* The request is made (it may not fit), and the assistant's element opened.
Ask ==
    /\ At("Ask")
    /\ \/ Ends("error") /\ UNCHANGED <<dom, journal, faults>>
       \/ ~Exhausted /\ Refuses /\ Ends("error") /\ UNCHANGED dom
       \/ /\ ~Exhausted /\ Appends /\ Goes("Stream")
          /\ dom' = [dom EXCEPT !.open = @ \cup {Assistant}]
    /\ UNCHANGED <<stack, table, cancelled, role, lost, past>>

-----------------------------------------------------------------------------
(* infer_assistant_turn; what is streamed meanwhile is in Stream.tla. *)

Raises(outcome) ==
    turn' = [turn EXCEPT !.pc = "Settle", !.outcome = outcome]

\* ProviderClient::infer returns a message with its calls, or an error: of the
\* wire, of the reply, or because the host was cancelled as a delta came; or a
\* flush of the deltas is refused.
StreamEnds ==
    /\ At("Stream")
    /\ \/ /\ \/ \E calls \in Replies :
                  turn' = [turn EXCEPT !.pc = "Settle", !.calls = calls,
                                       !.outcome = "succeeded"]
             \/ Raises("failed")
             \/ cancelled /\ Raises("cancelled")
          /\ UNCHANGED <<journal, faults>>
       \/ Refuses /\ Raises("failed")
    /\ UNCHANGED <<dom, stack, table, cancelled, role, lost, past>>

\* The rest is flushed and the element settled.
Settle ==
    /\ At("Settle")
    /\ \/ /\ Appends
          /\ dom' = [dom EXCEPT !.open = @ \ {Assistant}]
          /\ IF turn.outcome # "succeeded" THEN Ends("error")
             ELSE turn' = [turn EXCEPT !.outcome = None,
                             !.pc = IF turn.calls = <<>> THEN "Yield" ELSE "Tools"]
          /\ UNCHANGED lost
       \/ /\ Refuses /\ Ends("error")
          /\ lost' = lost \cup {Assistant}
          /\ UNCHANGED dom
    /\ UNCHANGED <<stack, table, cancelled, role, past>>

-----------------------------------------------------------------------------
(* SessionHost::execute_tool_inner. *)

Current == Head(turn.calls)

Invoke ==
    /\ At("Tools")
    /\ \/ /\ Appends
          /\ dom' = [dom EXCEPT !.open = @ \cup {ToolCall}]
          /\ turn' = [turn EXCEPT !.pc = "Call", !.invoked = @ \cup {Current}]
       \/ Refuses /\ Ends("error") /\ UNCHANGED dom
    /\ UNCHANGED <<stack, table, cancelled, role, lost, past>>

Answers(outcome) ==
    turn' = [turn EXCEPT !.pc = "Called", !.outcome = outcome, !.batch = 0]

\* ToolHost::execute_tool.  Code that runs in a tool may patch the todos.
RunTool ==
    /\ At("Call") /\ Current # "Agent"
    /\ \E outcome \in {"succeeded", "failed"} : Answers(outcome)
    /\ \E todo \in BOOLEAN : dom' = [dom EXCEPT !.todo = todo]
    /\ UNCHANGED <<journal, stack, table, cancelled, role, lost, past,
                   faults>>

\* spawn_children: bad input or too many, or a batch is begun.
RunAgent ==
    /\ At("Call") /\ Current = "Agent"
    /\ \/ Answers("failed")
       \/ \E n \in 1 .. MaxChildren :
            /\ n + Cardinality(DOMAIN table) <= MaxChildren
            /\ turn' = [turn EXCEPT !.pc = "Spawn", !.batch = n]
    /\ UNCHANGED <<dom, journal, stack, table, cancelled, role, lost, past,
                   faults>>

Fresh(c) ==
    /\ c \notin DOMAIN table /\ c \notin lost /\ dom.actors[c] = "absent"
    /\ past # None => past.actors[c] = "absent"

\* One task of the batch: its workspace, journal and host are prepared, the
\* actor appended and the thread started.  Each may fail, and the children
\* before it run on.
SpawnChild ==
    /\ At("Spawn") /\ turn.batch > 0
    /\ \/ Answers("failed") /\ UNCHANGED <<dom, journal, table, lost, faults>>
       \/ Refuses /\ Answers("failed") /\ UNCHANGED <<dom, table, lost>>
       \/ \E c \in Children :
            /\ Fresh(c)
            /\ dom' = [dom EXCEPT !.actors[c] = "running"]
            /\ \/ /\ Appends
                  /\ table' = [x \in DOMAIN table \cup {c} |->
                                 IF x = c THEN [cancel |-> FALSE, result |-> "none"]
                                 ELSE table[x]]
                  /\ turn' = [turn EXCEPT !.batch = @ - 1]
                  /\ UNCHANGED lost
               \/ /\ journal = "open" /\ Faulty /\ Answers("failed")
                  /\ lost' = lost \cup {c}
                  /\ UNCHANGED <<journal, table>>
    /\ UNCHANGED <<stack, cancelled, role, past>>

Spawned ==
    /\ At("Spawn") /\ turn.batch = 0
    /\ Answers("succeeded")
    /\ UNCHANGED <<dom, journal, stack, table, cancelled, role, lost, past,
                   faults>>

\* The call's element is settled.  The call counts as executed when some
\* element of its id has succeeded: itself, or an earlier one of the same id,
\* since ids are the provider's to choose.
SettleCall ==
    /\ At("Called")
    /\ LET rest == Tail(turn.calls)
           well == turn.outcome = "succeeded"
       IN  \/ /\ Appends
              /\ dom' = [dom EXCEPT !.open = @ \ {ToolCall},
                                    !.succeeded = @ \/ well]
              /\ \E counts \in {well, dom.succeeded \/ well} :
                   turn' = [turn EXCEPT
                              !.pc = IF rest = <<>> THEN "Step" ELSE "Tools",
                              !.calls = rest, !.outcome = None,
                              !.executed = IF counts THEN @ \cup {Current} ELSE @]
              /\ UNCHANGED lost
           \/ /\ Refuses /\ Ends("error")
              /\ lost' = lost \cup {ToolCall}
              /\ UNCHANGED dom
    /\ UNCHANGED <<stack, table, cancelled, role, past>>

-----------------------------------------------------------------------------
(* The model wants to yield. *)

Yield ==
    /\ At("Yield")
    /\ \E answer \in BOOLEAN : \E walk \in {HandleYield(turn.executed, answer)} :
         \E directors \in {Synced(walk.stack)} :
         /\ stack' = walk.stack
         /\ \/ /\ directors = dom.directors \/ journal = "open"
               /\ dom' = [dom EXCEPT !.directors = directors]
               /\ CASE walk.says = "Continue" -> Goes("Steer")
                    [] walk.says = "Fail" -> Ends("error")
                    [] OTHER -> Ends("ok")
               /\ UNCHANGED <<journal, faults>>
            \/ /\ directors # dom.directors /\ Refuses
               /\ Ends("error") /\ UNCHANGED dom
    /\ UNCHANGED <<table, cancelled, role, lost, past>>

\* append_steering_message.
Steer ==
    /\ At("Steer")
    /\ \/ Appends /\ Goes("Step")
       \/ Refuses /\ Ends("error")
    /\ UNCHANGED <<dom, stack, table, cancelled, role, lost, past>>

-----------------------------------------------------------------------------
(* Between turns: the loop of run_worker, and the thread of a child. *)

\* Mutant: an idle worker does not poll.
IdleSleep == At("Idle") /\ FALSE /\ UNCHANGED vars

\* The worker polls its children while nothing is asked of it; an error is only
\* reported.
IdlePoll ==
    /\ At("Idle") /\ role = "worker"
    /\ PollSettles \/ PollRefused
    /\ <<dom, table>>' # <<dom, table>>
    /\ UNCHANGED <<stack, turn, cancelled, role, past>>

\* /force: the Director is appended under an id of its own.  (Behind the last
\* turn it would change nothing more.)
PushForce ==
    /\ At("Idle") /\ role = "worker" /\ turn.n < MaxTurns
    /\ \E force \in Forces :
         /\ \A d \in ToSet(dom.directors \o turn.begun) : d.id # force.id
         /\ dom' = [dom EXCEPT !.directors = Append(@, force)]
    /\ Appends
    /\ UNCHANGED <<stack, turn, table, cancelled, role, lost, past>>

\* /cancel of a child raises its flag.
CancelChild ==
    /\ At("Idle") /\ role = "worker"
    /\ \E c \in DOMAIN table :
         /\ ~table[c].cancel
         /\ table' = [table EXCEPT ![c].cancel = TRUE]
    /\ UNCHANGED <<dom, journal, stack, turn, cancelled, role, lost, past,
                   faults>>

\* The parent of a child host raises its flag.
Cancel ==
    /\ role = "child" /\ ~cancelled
    /\ cancelled' = TRUE
    /\ UNCHANGED <<dom, journal, stack, turn, table, role, lost, past,
                   faults>>

\* The offset that a later /fork names.
Remember ==
    /\ turn.pc \in ForkPoints /\ role = "worker" /\ past = None /\ Faulty
    /\ past' = dom
    /\ UNCHANGED <<dom, journal, stack, turn, table, cancelled, role, lost>>

\* /fork <offset>: Journal::fork_at takes the snapshot back; the host keeps its
\* children, and what ran at that offset runs on in the snapshot only.
Fork ==
    /\ At("Idle") /\ role = "worker" /\ past # None /\ journal = "open"
    /\ dom' = past
    /\ lost' = past.open \cup
               {c \in Children \ DOMAIN table : past.actors[c] = "running"}
    /\ turn' = [turn EXCEPT !.begun = <<>>, !.result = None]
    /\ past' = None
    /\ UNCHANGED <<journal, stack, table, cancelled, role, faults>>

\* SessionHost::shutdown: of a worker when it is told to, of a child when its
\* turn is over.
Shutdown ==
    /\ At("Idle") /\ (role = "child" => turn.n > 0)
    /\ Goes("Exit")
    /\ table' = [c \in DOMAIN table |-> [table[c] EXCEPT !.cancel = TRUE]]
    /\ UNCHANGED <<dom, journal, stack, cancelled, role, lost, past, faults>>

\* shutdown polls until the table is empty; an error ends it.  What still runs
\* dies with the process, or is told to stop as its handle is dropped.
Exit ==
    /\ At("Exit")
    /\ \/ /\ PollSettles
          /\ \/ DOMAIN table' = {} /\ Goes("Down")
             \/ /\ DOMAIN table' # {} /\ <<dom, table>>' # <<dom, table>>
                /\ UNCHANGED turn
       \/ PollRefused /\ Goes("Down")
    /\ UNCHANGED <<stack, cancelled, role, past>>

\* The process of the worker dies, and its threads with it.
Crash ==
    /\ role = "worker" /\ ~At("Down") /\ Faulty
    /\ turn' = [Ended(turn, IF At("Idle") THEN turn.result ELSE "error")
                  EXCEPT !.pc = "Down"]
    /\ table' = <<>>
    /\ UNCHANGED <<dom, journal, stack, cancelled, role, lost, past>>

\* Mutant: the assistants are forgotten.
ReconciledTools ==
    [dom EXCEPT !.open = {e \in @ : e[1] = "assistant"},
                !.actors = [c \in Children |->
                   IF @[c] = "running" THEN "cancelled" ELSE @[c]]]

\* reconcile_orphans: what runs in the snapshot was cancelled by the restart.
Reconciled ==
    [dom EXCEPT !.open = {},
                !.actors = [c \in Children |->
                   IF @[c] = "running" THEN "cancelled" ELSE @[c]]]

\* run_worker again, on the same journal.
Restart ==
    /\ role = "worker" /\ At("Down")
    /\ journal' = "open" /\ UNCHANGED faults
    /\ dom' = Reconciled
    /\ stack' = dom.directors
    /\ Goes("Idle")
    /\ table' = <<>> /\ lost' = {}
    /\ UNCHANGED <<cancelled, role, past>>

-----------------------------------------------------------------------------
Host ==
    \/ Step \/ Ask \/ StreamEnds \/ Settle \/ Invoke \/ RunTool \/ RunAgent
    \/ SpawnChild \/ Spawned \/ SettleCall \/ Yield \/ Steer \/ IdlePoll \/ Exit

Next ==
    \/ StartTurn \/ Step \/ Ask
    \/ StreamEnds \/ Settle
    \/ Invoke \/ RunTool \/ RunAgent \/ SpawnChild \/ Spawned \/ SettleCall
    \/ Yield \/ Steer
    \/ IdlePoll \/ PushForce \/ CancelChild \/ Cancel \/ Remember \/ Fork
    \/ Shutdown \/ Exit \/ Crash \/ Restart
    \/ \E c \in Children : ChildEnds(c)

\* The host's thread runs; a reply ends (max_response_bytes, the idle timeout);
\* a child host, which runs this same code, ends its only turn.
Fairness ==
    /\ WF_vars(Host)
    /\ WF_vars(role = "child" /\ Shutdown)
    /\ \A c \in Children : WF_vars(ChildEnds(c))

Spec == Init /\ [][Next]_vars /\ Fairness

-----------------------------------------------------------------------------
(* Properties. *)

AtWork ==
    IF turn.pc \in {"Stream", "Settle"} THEN {Assistant}
    ELSE IF turn.pc \in {"Call", "Spawn", "Called"} THEN {ToolCall} ELSE {}

\* While the process lives, what the snapshot shows as running has somebody at
\* work on it: the host on the one element of its turn, a thread on each actor
\* whose handle the host keeps; and an actor that ended has none.  Only what a
\* refused append or a fork left behind is excepted, until the next restart.
RunningHasOwner ==
    /\ TypeOK
    /\ ~At("Down") =>
         /\ dom.open \ lost = AtWork
         /\ \A c \in Children :
              /\ dom.actors[c] = "running" => c \in DOMAIN table \cup lost
              /\ c \in DOMAIN table => dom.actors[c] \in {"running", "absent"}

\* A ForceTool holds until its tool is called: it is still in the snapshot after
\* the turn, whatever ended it, with the attempts it had; and a turn that ended
\* well without the tool did so by a ForceTool, itself or one further in, that
\* gave up as it was told to.
ForceBinds ==
    turn.pc \in {"Idle", "Down"} =>
      \A i \in DOMAIN turn.begun :
        LET f == turn.begun[i] IN
        f.kind = "ForceTool" /\ f.tool \notin turn.invoked =>
          \E j \in DOMAIN dom.directors :
            /\ dom.directors[j].id = f.id
            /\ dom.directors[j].attempts >= f.attempts
            /\ turn.result = "ok" =>
                 \E k \in j .. Len(dom.directors) :
                   LET g == dom.directors[k] IN
                   g.kind = "ForceTool" /\ g.onfail = "Yield" /\ g.attempts >= g.max

\* A turn ends: the step budget, the forced tools' attempts and the bounded
\* reply leave no way to go on for ever; and so does a shutdown.
TurnsEnd == turn.pc \notin {"Idle", "Down"} ~> turn.pc \in {"Idle", "Down"}

\* A child that ended is taken out of the table, if the process lives on: by the
\* next step of the turn, by the idle worker or by the shutdown.
ChildrenReaped ==
    \A c \in Children :
      (c \in DOMAIN table /\ table[c].result # "none")
        ~> (c \notin DOMAIN table \/ At("Down"))

=============================================================================
