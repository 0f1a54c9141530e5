---------------------------- MODULE Replication ----------------------------
(***************************************************************************)
(* ServerSessionService of crates/omp-server (service.rs, replication.rs,  *)
(* role.rs), driven by the connections of transport.rs: actors attach to   *)
(* one session, change its journal, and subscribers follow the journal     *)
(* through bounded queues.                                                 *)
(*                                                                         *)
(* Abstractions.  The journal is the log that module Journal implements: a *)
(* record is the snapshot it builds on and what it enters; the session's   *)
(* snapshot is named by its offset, as each record makes one.  A client    *)
(* keeps the offset of its own copy, applies a patch that continues it and *)
(* skips one it already has; clients are not part of the repository.       *)
(* Every handler holds the state mutex, so it is one action; only a        *)
(* command is two, because its receipt is durable before it runs.          *)
(***************************************************************************)
EXTENDS Permissions, Naturals, FiniteSets, SequencesExt

CONSTANTS Actors,
          Roles,        \* the role each actor is granted
          Commands,     \* command ids
          Views,        \* presentation views
          None,         \* no copy; no command running
          Capacity,     \* SubscriberQueue.capacity
          Followers,    \* bound: the actors that subscribe
          MaxOffset,    \* bound: length of the journal
          MaxBurst,     \* bound: records of one turn
          MaxFrames,    \* bound: presentation frames published
          MaxRewinds,   \* bound: forks, rewinds and selections
          MaxFailures,  \* bound: turns and commands that fail half way
          MaxCrashes    \* bound: restarts of the server

ASSUME ReplicationAssumption ==
    /\ Capacity \in Nat \ {0}
    /\ Followers \subseteq Actors
    /\ MaxOffset \in Nat /\ MaxBurst \in Nat /\ MaxFrames \in Nat
    /\ None \notin Nat /\ None \notin Commands
    /\ Commands \cap Actors = {}
    /\ (Commands \cup Actors) \cap {"Work", "Branch", "Failed"} = {}

VARIABLES
    log,        \* the journal's records; the last one is the snapshot
    seen,       \* seen_command_ids
    executed,   \* how often each command was run
    attached,   \* ServerSessionService.actors
    connected,  \* authenticated connections, one for an actor
    subs,       \* ServerSessionService.subscribers: at most one for an actor
    running,    \* a command whose receipt is written and which runs now
    terminated, \* ServerSessionService.terminated
    published,  \* the newest frame of each view
    replica,    \* offset of each client's copy, or None
    broken,     \* clients whose copy a patch did not continue
    faults      \* how many of each bounded event so far

service == <<seen, executed, attached, connected, running, terminated>>
clients == <<replica, broken>>
vars == <<log, service, subs, published, clients, faults>>

\* get_actor and check_permission.
May(a, permission) == a \in attached /\ permission \in Permission(Roles[a])

Entry == Actors \cup Commands \cup {"Work", "Branch", "Failed"}

PatchMessage == [kind : {"Patch"}, offset : 1 .. MaxOffset]
FrameMessage == [kind : {"Presentation"}, view : Views, frame : 1 .. MaxFrames]
Queue == [messages : Seq(PatchMessage \cup FrameMessage), resync : BOOLEAN]

\* Types of the variables.
TypeOK ==
    /\ log \in Seq([base : 0 .. MaxOffset, entry : Entry])
    /\ Len(log) <= MaxOffset
    /\ seen \subseteq Commands
    /\ executed \in [Commands -> Nat]
    /\ attached \subseteq Actors
    /\ connected \subseteq Actors
    /\ DOMAIN subs \subseteq attached
    /\ \A a \in DOMAIN subs : subs[a] \in Queue
    /\ running \in Commands \cup {None}
    /\ terminated \in BOOLEAN
    /\ published \in [Views -> 0 .. MaxFrames]
    /\ replica \in [Actors -> 0 .. MaxOffset \cup {None}]
    /\ broken \subseteq Actors

-----------------------------------------------------------------------------
\* current_offset.
Newest == Len(log)

\* The records the snapshot at an offset is built from.
Ancestry ==
    LET up[o \in 0 .. Len(log)] ==
            IF o = 0 THEN {} ELSE up[log[o].base] \cup {o}
    IN  up

Recorded(a) == \E o \in Ancestry[Newest] : log[o].entry = a

IsPatch(message) == message.kind = "Patch"

\* Mutant: patches queue again behind the gap.
PushBehindGap(q, offsets) ==
    IF Len(q.messages) + Len(offsets) > Capacity
    THEN [messages |-> <<>>, resync |-> TRUE]
    ELSE [q EXCEPT !.messages = @ \o
             [k \in DOMAIN offsets |->
                 [kind |-> "Patch", offset |-> offsets[k]]]]

\* SubscriberQueue::push of patches, one after the other.
Push(q, offsets) ==
    IF q.resync THEN q
    ELSE IF Len(q.messages) + Len(offsets) > Capacity
         THEN [messages |-> <<>>, resync |-> TRUE]
         ELSE [q EXCEPT !.messages = @ \o
                   [k \in DOMAIN offsets |->
                       [kind |-> "Patch", offset |-> offsets[k]]]]

\* SubscriberQueue::push of a frame: the queued frame of the view is replaced.
PushFrame(q, view, frame) ==
    LET same == {k \in DOMAIN q.messages :
                    ~IsPatch(q.messages[k]) /\ q.messages[k].view = view}
        new  == [kind |-> "Presentation", view |-> view, frame |-> frame]
    IN  IF same # {} THEN [q EXCEPT !.messages[Max(same)] = new]
        ELSE IF Len(q.messages) < Capacity
             THEN [q EXCEPT !.messages = Append(@, new)]
             ELSE q

Interval(lo, hi) == [k \in 1 .. (hi + 1) - lo |-> lo + k - 1]

\* replicate: every record after an offset goes to every subscriber.
Replicated(from, to) ==
    [a \in DOMAIN subs |-> Push(subs[a], Interval(from + 1, to))]

\* n records on top of the snapshot.
Extended(n, entry) ==
    log \o [k \in 1 .. n |-> [base |-> Newest + k - 1, entry |-> entry]]

Fits(n) == Newest + n <= MaxOffset

\* submit_patch_internal.
Submit(entry) ==
    /\ Fits(1)
    /\ log' = Extended(1, entry)
    /\ subs' = Replicated(Newest, Newest + 1)

Free == running = None

-----------------------------------------------------------------------------
Init ==
    /\ log = <<>>
    /\ seen = {}
    /\ executed = [c \in Commands |-> 0]
    /\ attached = {}
    /\ connected = {}
    /\ subs = <<>>
    /\ running = None
    /\ terminated = FALSE
    /\ published = [v \in Views |-> 0]
    /\ replica = [a \in Actors |-> None]
    /\ broken = {}
    /\ faults = [rewinds |-> 0, failures |-> 0, crashes |-> 0]

\* handshake with attach_actor: the actor is entered once on a branch.
Handshake(a) ==
    /\ Free
    /\ a \notin connected /\ a \notin attached
    /\ IF Recorded(a) \/ terminated THEN UNCHANGED <<log, subs>> ELSE Submit(a)
    /\ connected' = connected \cup {a}
    /\ attached' = attached \cup {a}
    /\ UNCHANGED <<seen, executed, running, terminated, published, clients,
                   faults>>

Without(a) == Restrict(subs, DOMAIN subs \ {a})

\* detach_actor; the connection of the target stays.
Detach(a, target) ==
    /\ Free
    /\ a \in connected
    /\ a = target \/ May(a, "ManageSession")
    /\ attached' = attached \ {target}
    /\ subs' = Without(target)
    /\ UNCHANGED <<log, seen, executed, connected, running, terminated,
                   published, clients, faults>>

\* The connection ends, with whatever it had not sent yet.
Disconnect(a) ==
    /\ Free
    /\ a \in connected
    /\ connected' = connected \ {a}
    /\ attached' = attached \ {a}
    /\ subs' = Without(a)
    /\ UNCHANGED <<log, seen, executed, running, terminated, published,
                   clients, faults>>

\* Mutant: the records after the one that follows are sent.
SubscribeLate(a, last) ==
    LET queue(from) == Push([messages |-> <<>>, resync |-> FALSE],
                            Interval(from + 2, Newest))
        fresh == last = None
    IN
    /\ Free
    /\ a \in connected
    /\ May(a, "SubscribePatches")
    /\ subs' = [b \in DOMAIN subs \cup {a} |->
                   IF b # a THEN subs[b]
                   ELSE queue(IF fresh THEN Newest ELSE last)]
    /\ replica' = IF fresh THEN [replica EXCEPT ![a] = Newest] ELSE replica
    /\ broken' = broken \ {a}
    /\ UNCHANGED <<log, service, published, faults>>

\* subscribe, with the offset of the client's copy or with none: missing
\* patches are queued, or the response brings the snapshot.
Subscribe(a, last) ==
    LET queue(from) == Push([messages |-> <<>>, resync |-> FALSE],
                            Interval(from + 1, Newest))
        fresh == last = None
    IN
    /\ Free
    /\ a \in connected
    /\ May(a, "SubscribePatches")
    /\ subs' = [b \in DOMAIN subs \cup {a} |->
                   IF b # a THEN subs[b]
                   ELSE queue(IF fresh THEN Newest ELSE last)]
    /\ replica' = IF fresh THEN [replica EXCEPT ![a] = Newest] ELSE replica
    /\ broken' = broken \ {a}
    /\ UNCHANGED <<log, service, published, faults>>

\* What a client does with a patch: it skips what its copy has, applies what
\* continues it, and otherwise has lost the line.
Receive(a, offset) ==
    LET continues == log[offset].base = replica[a]
        known     == replica[a] # None /\ offset <= replica[a]
    IN  IF known \/ a \in broken THEN UNCHANGED clients
        ELSE IF continues
        THEN replica' = [replica EXCEPT ![a] = offset] /\ UNCHANGED broken
        ELSE broken' = broken \cup {a} /\ UNCHANGED replica

\* Mutant: who waits for a resync is told nothing.
PollSilent(a) ==
    LET q == subs[a] IN
    /\ Free
    /\ a \in connected
    /\ ~q.resync
    /\ q.messages # <<>>
    /\ subs' = [subs EXCEPT ![a].messages = Tail(@)]
    /\ IF IsPatch(q.messages[1])
       THEN Receive(a, q.messages[1].offset)
       ELSE UNCHANGED clients
    /\ UNCHANGED <<log, service, published, faults>>

\* poll_subscriber: a pending resync comes before what is queued.
Poll(a) ==
    LET q == subs[a] IN
    /\ Free
    /\ a \in connected
    /\ IF q.resync
       THEN /\ subs' = [subs EXCEPT ![a].resync = FALSE]
            /\ replica' = [replica EXCEPT ![a] = Newest]
            /\ broken' = broken \ {a}
       ELSE /\ q.messages # <<>>
            /\ subs' = [subs EXCEPT ![a].messages = Tail(@)]
            /\ IF IsPatch(q.messages[1])
               THEN Receive(a, q.messages[1].offset)
               ELSE UNCHANGED clients
    /\ UNCHANGED <<log, service, published, faults>>

\* The resync request: the snapshot, whatever the queue holds.
Resync(a) ==
    /\ Free
    /\ a \in connected
    /\ May(a, "ReadSnapshot")
    /\ replica' = [replica EXCEPT ![a] = Newest]
    /\ broken' = broken \ {a}
    /\ UNCHANGED <<log, service, subs, published, faults>>

-----------------------------------------------------------------------------
(* Writes. *)

\* submit_patch on top of the snapshot (another base is stale), change_convar,
\* register_artifact.
Write(a, permission) ==
    /\ Free
    /\ ~terminated
    /\ a \in connected
    /\ May(a, permission)
    /\ Submit("Work")
    /\ UNCHANGED <<service, published, clients, faults>>

SubmitPatch(a) == Write(a, "SubmitPatch")
ChangeConvar(a) == Write(a, "ChangeConVar")
RegisterArtifact(a) == Write(a, "WriteWorkspace")

\* n records enter the journal; the subscribers hear of them unless the call
\* returns an error.
Work(n, ok) ==
    /\ Fits(n)
    /\ log' = Extended(n, IF ok THEN "Work" ELSE "Failed")
    /\ IF ok
       THEN subs' = Replicated(Newest, Newest + n) /\ UNCHANGED faults
       ELSE /\ faults.failures < MaxFailures
            /\ faults' = [faults EXCEPT !.failures = @ + 1]
            /\ UNCHANGED subs

\* run_turn and execute_tool: the connection's role is checked, nothing else.
Turn(a, n, ok) ==
    /\ Free
    /\ a \in connected
    /\ "SubmitCommand" \in Permission(Roles[a])
    /\ Work(n, ok)
    /\ UNCHANGED <<service, published, clients>>

\* write_workspace runs a tool, too.
WriteWorkspace(a, n, ok) ==
    /\ Free
    /\ ~terminated
    /\ a \in connected
    /\ May(a, "WriteWorkspace")
    /\ Work(n, ok)
    /\ UNCHANGED <<service, published, clients>>

\* Mutant: the id is only kept for commands on the branch.
SubmitForgetful(a, c) ==
    /\ Free
    /\ ~terminated
    /\ a \in connected
    /\ May(a, "SubmitCommand")
    /\ ~Recorded(c)
    /\ Submit(c)
    /\ seen' = seen \cup {c}
    /\ running' = c
    /\ UNCHANGED <<executed, attached, connected, terminated, published,
                   clients, faults>>

\* submit_command: the receipt is written and replicated, then the id is seen.
SubmitCommand(a, c) ==
    /\ Free
    /\ ~terminated
    /\ a \in connected
    /\ May(a, "SubmitCommand")
    /\ c \notin seen
    /\ Submit(c)
    /\ seen' = seen \cup {c}
    /\ running' = c
    /\ UNCHANGED <<executed, attached, connected, terminated, published,
                   clients, faults>>

\* transport's execute_command, under the same lock.
Execute(n, ok) ==
    /\ running # None
    /\ executed' = [executed EXCEPT ![running] = @ + 1]
    /\ running' = None
    /\ Work(n, ok)
    /\ UNCHANGED <<seen, attached, connected, terminated, published, clients>>

\* serve's loop: poll_jobs and poll_children, then replicate.
Background(n) ==
    /\ Free
    /\ Work(n, TRUE)
    /\ UNCHANGED <<service, published, clients>>

\* fork_session, rewind_session and select_branch: a record on an older
\* snapshot, of which the subscribers hear nothing.
Branch(a, offset) ==
    /\ Free
    /\ ~terminated
    /\ a \in connected
    /\ May(a, "ManageSession")
    /\ faults.rewinds < MaxRewinds
    /\ faults' = [faults EXCEPT !.rewinds = @ + 1]
    /\ Fits(1)
    /\ log' = Append(log, [base |-> offset, entry |-> "Branch"])
    /\ UNCHANGED <<service, subs, published, clients>>

\* publish_presentation.
Publish(view) ==
    /\ Free
    /\ published[view] < MaxFrames
    /\ published' = [published EXCEPT ![view] = @ + 1]
    /\ subs' = [a \in DOMAIN subs |->
                   PushFrame(subs[a], view, published[view] + 1)]
    /\ UNCHANGED <<log, service, clients, faults>>

Terminate(a) ==
    /\ Free
    /\ a \in connected
    /\ Roles[a] = "Controller"
    /\ May(a, "ManageSession")
    /\ terminated' = TRUE
    /\ UNCHANGED <<log, seen, executed, attached, connected, running, subs,
                   published, clients, faults>>

\* Receipts in the journal, on whatever branch.
Receipts == {log[o].entry : o \in DOMAIN log} \cap Commands

\* The process ends, in the middle of a command or not, and a new one opens
\* the journal (ServerSessionService::new).
Restart ==
    /\ faults.crashes < MaxCrashes
    /\ faults' = [faults EXCEPT !.crashes = @ + 1]
    /\ seen' = Receipts
    /\ attached' = {}
    /\ connected' = {}
    /\ subs' = <<>>
    /\ running' = None
    /\ terminated' = FALSE
    /\ UNCHANGED <<log, executed, published, clients>>

-----------------------------------------------------------------------------
Session ==
    \E a \in Actors :
        \/ Handshake(a) \/ Disconnect(a) \/ Resync(a)
        \/ \E b \in Actors : Detach(a, b)
        \/ \E last \in {None, replica[a]} : a \in Followers /\ Subscribe(a, last)

PollSome == \E a \in DOMAIN subs : Poll(a)

Edits ==
    \E a \in Actors :
        SubmitPatch(a) \/ ChangeConvar(a) \/ RegisterArtifact(a)

Works ==
    \E n \in 1 .. MaxBurst, ok \in BOOLEAN :
        \E a \in Actors : Turn(a, n, ok) \/ WriteWorkspace(a, n, ok)

SubmitSome == \E a \in Actors, c \in Commands : SubmitCommand(a, c)
ExecuteSome == \E n \in 0 .. MaxBurst, ok \in BOOLEAN : Execute(n, ok)
BackgroundSome == \E n \in 1 .. MaxBurst : Background(n)
BranchSome == \E a \in Actors, offset \in 0 .. Newest : Branch(a, offset)
PublishSome == \E view \in Views : Publish(view)
TerminateSome == \E a \in Actors : Terminate(a)

Next ==
    \/ Session \/ PollSome \/ Edits \/ Works \/ SubmitSome \/ ExecuteSome
    \/ BackgroundSome \/ BranchSome \/ PublishSome \/ TerminateSome
    \/ Restart

Spec == Init /\ [][Next]_vars

\* Every subscriber keeps polling while it is connected, and a command that
\* runs comes to its end.
FairSpec ==
    /\ Spec
    /\ \A a \in Actors : WF_vars(a \in DOMAIN subs /\ Poll(a))
    /\ WF_vars(ExecuteSome)

-----------------------------------------------------------------------------
(* Properties. *)

\* Where in its queue the patches wait that a subscriber's copy does not have.
Pending(a) ==
    LET ms == subs[a].messages
    IN  {k \in DOMAIN ms : IsPatch(ms[k]) /\ ms[k].offset > replica[a]}

\* The records that no subscriber is told of as they enter the journal.
Silent == {o \in DOMAIN log : log[o].entry \in {"Branch", "Failed"}}

\* A subscriber that is not waiting for a resync has, with what is queued for
\* it, the journal: overflow, catch-up after a reconnection, a resync on
\* request, turns of any length and restarts leave no gap and repeat nothing.
\* What a fork, rewind, selection or failed call entered is all it can miss, and
\* its copy loses the line only behind such a record.
Contiguous ==
    /\ TypeOK
    /\ \A a \in DOMAIN subs : ~subs[a].resync =>
           LET ms == subs[a].messages IN
           /\ \A j, k \in Pending(a) : j < k => ms[j].offset < ms[k].offset
           /\ IF a \in broken
              THEN \E o \in Silent : o > replica[a]
              ELSE \A o \in (replica[a] + 1 .. Newest) \ Silent :
                       \E k \in Pending(a) : ms[k].offset = o

\* The queue keeps to its capacity, and after an overflow no patch waits in it
\* before the resync ("No post-gap patch may escape before resync").  Frames
\* coalesce: a view has at most one in a queue, and it is the newest.
QueueDiscipline ==
    \A a \in DOMAIN subs :
        LET ms == subs[a].messages IN
        /\ Len(ms) <= Capacity
        /\ subs[a].resync => \A k \in DOMAIN ms : ~IsPatch(ms[k])
        /\ \A i \in DOMAIN ms : ~IsPatch(ms[i]) =>
             /\ ms[i].frame = published[ms[i].view]
             /\ \A j \in DOMAIN ms :
                   ~IsPatch(ms[j]) /\ ms[j].view = ms[i].view => i = j

\* No command runs twice: not when a client sends it again, not after a rewind
\* to before its receipt, not after a restart.  One that ran left its receipt in
\* the journal, where the next process finds it.
CommandsOnce ==
    /\ \A c \in Commands : executed[c] <= 1
    /\ \A c \in Commands : executed[c] > 0 => c \in Receipts
    /\ seen = Receipts

\* A subscriber that stays ends up with the session's snapshot once writes
\* stop, however often its queue overflowed; what it may miss for ever is what
\* no one was told of.
CatchesUp ==
    \A a \in Actors :
        a \in DOMAIN subs ~> (a \in DOMAIN subs =>
                                 \/ a \in broken
                                 \/ replica[a] + 1 .. Newest \subseteq Silent)

=============================================================================
