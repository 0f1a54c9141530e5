---------------------------- MODULE Connections ----------------------------
(***************************************************************************)
(* The TCP service of omp-server: the accept loop and the connection       *)
(* threads of transport.rs, the attached actors and the approvals of       *)
(* ServerSessionService (service.rs), and the one-shot approval that the   *)
(* tool host (omp-tools, host.rs) asks for before it reads a remote        *)
(* resource with credentials.                                              *)
(*                                                                         *)
(* Abstractions.  Queues and commands are in module Replication, the       *)
(* journal's file is in module Journal: here it is a log of records, each  *)
(* with the record it builds on.  Requests that only read change nothing   *)
(* and are left out, as are those that are malformed; an answer that does  *)
(* not get through, or is longer than a frame, ends the connection, which  *)
(* may end at any time anyway.  There is one remote resource.  A handler   *)
(* has the state mutex, so it is one step, even if it is a whole turn.     *)
(***************************************************************************)
EXTENDS Permissions, Naturals, FiniteSets, SequencesExt, Functions

CONSTANTS Connections,    \* sockets of clients
          Actors, Owner,  \* actor ids; the one the tool host acts as
          Offered,        \* the roles that clients have tokens for and ask for
          Ids,            \* that clients give to requests for approval
          MaxConnections, \* MAX_CONCURRENT_CONNECTIONS
          None,
          MaxOffset,      \* bound: length of the journal
          Patches,        \* approvals as patches of clients leave them
          MaxNotes,       \* bound: its records that are not about approvals
          MaxPatches,     \* bound: its records of patches that are
          MaxFaults       \* bound: failed writes of the journal and restarts

\* An approval: whether it is the host's own request for the remote resource, its
\* status ("approved" and "denied" are told apart by the other attribute), and
\* whether it is marked as approved.
Approval == [host : BOOLEAN, status : {"pending", "resolved", "consumed"},
             approved : BOOLEAN]

ASSUME ConnectionsAssumption ==
    /\ Owner \in Actors /\ Offered \subseteq RoleNames
    /\ None \notin RoleNames /\ None \notin Actors
    /\ Ids \cap Nat = {}  \* no client guesses an id that the host mints
    /\ (Ids \cup Nat) \cap (Actors \cup {None}) = {}
    /\ Patches \subseteq Approval
    /\ MaxConnections \in Nat /\ MaxOffset \in Nat /\ MaxNotes \in Nat
    /\ MaxPatches \in Nat /\ MaxFaults \in Nat

VARIABLES
    server,     \* the accept loop
    active,     \* active_connections
    conns,      \* connection threads, and whom each has authenticated
    actors,     \* ServerSessionService.actors, with their roles
    terminated, \* ServerSessionService.terminated
    log,        \* the journal
    poisoned,   \* the journal refuses everything
    faults

session == <<actors, terminated>>
journal == <<log, poisoned, faults>>
vars == <<server, active, conns, session, journal>>

Closed == [phase |-> "Closed", actor |-> None, role |-> None]
Open == [Closed EXCEPT !.phase = "Open"]
Live == {c \in Connections : conns[c].phase # "Closed"}

Init ==
    /\ server \in [mode : {"Serving"}, once : BOOLEAN, waiting : {FALSE},
                   shutdown : {FALSE}]
    /\ active = 0
    /\ conns = [c \in Connections |-> Closed]
    /\ actors = <<>> /\ terminated = FALSE
    /\ log = <<>> /\ poisoned = FALSE /\ faults = 0

-----------------------------------------------------------------------------
(* The journal. *)

Newest == Len(log)

\* The records that the snapshot at each offset is built from.
Ancestry ==
    LET up[o \in 0 .. Newest] == IF o = 0 THEN {} ELSE up[log[o].base] \cup {o}
    IN  up

Line == Ancestry[Newest]

On(what) == {o \in Line : log[o].what = what}

\* A record: the element it is about, and the approval as it leaves it.
Entry(what, of, now) == [base |-> Newest, what |-> what, of |-> of, now |-> now]

\* What the approvals do not depend on.
Note == Entry("note", None, None)

Room(entry) ==
    /\ Newest < MaxOffset
    /\ entry.what = "note" =>
         Cardinality({o \in 1 .. Newest : log[o].what = "note"}) < MaxNotes
    /\ entry.what \in {"patch", "gone"} =>
         Cardinality({o \in 1 .. Newest : log[o].what \in {"patch", "gone"}}) < MaxPatches

Enter(entry) ==
    /\ Room(entry) /\ ~poisoned
    /\ log' = Append(log, entry)
    /\ UNCHANGED <<poisoned, faults>>

\* The journal could not be written, and takes nothing more.
Refused ==
    /\ IF poisoned THEN UNCHANGED <<poisoned, faults>>
       ELSE faults < MaxFaults /\ poisoned' = TRUE /\ faults' = faults + 1
    /\ UNCHANGED log

-----------------------------------------------------------------------------
(* The accept loop. *)

Polling == server.mode = "Serving" /\ ~server.shutdown /\ ~server.waiting

\* `Once' the loop waits for its first connection to end.
Accept(c) ==
    /\ Polling /\ conns[c] = Closed /\ active < MaxConnections
    /\ active' = active + 1
    /\ conns' = [conns EXCEPT ![c] = Open]
    /\ server' = [server EXCEPT !.waiting = server.once]
    /\ UNCHANGED <<session, journal>>

\* A client too many is counted, told so, and no more.
TurnAway ==
    /\ Polling /\ active = MaxConnections
    /\ UNCHANGED vars

\* serve returns and the process ends, and with it the connections' threads.
Exit ==
    /\ server' = [server EXCEPT !.mode = "Down"]
    /\ active' = 0 /\ conns' = [c \in Connections |-> Closed]
    /\ UNCHANGED session

\* An error of the listener ends the service there and then.
AcceptFails ==
    /\ Polling /\ faults < MaxFaults /\ faults' = faults + 1
    /\ Exit /\ UNCHANGED <<log, poisoned>>

\* poll_jobs and poll_children, if the lock is free: what a job or a child does
\* is journaled.  So does an error here.
PollJobs ==
    /\ Polling
    /\ \/ Enter(Note) /\ UNCHANGED <<server, active, conns, session>>
       \/ Refused /\ Exit

\* Mutant: the service waits for its connections to end.
FinishLast ==
    /\ server.mode = "Serving"
    /\ (server.shutdown \/ server.waiting) /\ active = 0
    /\ Exit
    /\ \/ Enter(Note)
       \/ ~Room(Note) /\ UNCHANGED journal
       \/ Refused

\* The loop ends, and shuts the host down: its jobs' ends are journaled.
Finish ==
    /\ server.mode = "Serving"
    /\ IF server.waiting THEN active = 0 ELSE server.shutdown
    /\ Exit
    /\ \/ Enter(Note)
       \/ ~Room(Note) /\ UNCHANGED journal
       \/ Refused

\* ServerSessionService::new on the same journal, which is repaired.
Restart ==
    /\ server.mode = "Down" /\ faults < MaxFaults
    /\ server' = [server EXCEPT !.mode = "Serving", !.waiting = FALSE,
                                !.shutdown = FALSE]
    /\ actors' = <<>> /\ terminated' = FALSE
    /\ poisoned' = FALSE /\ faults' = faults + 1
    /\ UNCHANGED <<active, conns, log>>

-----------------------------------------------------------------------------
(* A connection. *)

\* AuthConfig::validate: the owner's token is good for any role.
Valid(token, role) == token # None /\ (token = "Controller" \/ token = role)

\* The actor's element, and that a patch has deleted it: its id is used up.
Used(a) == \E o \in On("actor") : log[o].of = a
Recorded(a) == Used(a) /\ ~\E o \in On("gone") : log[o].of = a

\* It is journaled, unless it is there or the session ended.
Attach(a) ==
    IF terminated \/ Recorded(a) THEN UNCHANGED journal
    ELSE ~Used(a) /\ Enter(Entry("actor", a, None))

Alive == server.mode # "Down"

Handshake(c) ==
    /\ Alive /\ ~server.shutdown /\ conns[c] = Open
    /\ \E a \in Actors, role \in Offered, token \in Offered \cup {None} :
         /\ Valid(token, role) /\ a \notin DOMAIN actors
         /\ \/ /\ Attach(a)
               /\ actors' = [b \in DOMAIN actors \cup {a} |->
                                IF b = a THEN role ELSE actors[b]]
               /\ conns' = [conns EXCEPT ![c] =
                              [phase |-> "Ready", actor |-> a, role |-> role]]
            \/ /\ ~terminated /\ ~Used(a)
               /\ Refused /\ UNCHANGED <<actors, conns>>
    /\ UNCHANGED <<server, active, terminated>>

\* Mutant: a connection that ends leaves its actor attached.
LeaveAttached(c) ==
    /\ Alive /\ conns[c].phase \in {"Open", "Ready"}
    /\ conns' = [conns EXCEPT ![c] = [Closed EXCEPT !.phase = "Left"]]
    /\ UNCHANGED <<server, active, actors, terminated, journal>>

\* The client is gone, too slow, or sends what is no frame; or the service is
\* about to end.  The actor is detached, whoever attached it.
Leave(c) ==
    /\ Alive /\ conns[c].phase \in {"Open", "Ready"}
    /\ conns' = [conns EXCEPT ![c] = [Closed EXCEPT !.phase = "Left"]]
    /\ actors' = Restrict(actors, DOMAIN actors \ {conns[c].actor})
    /\ UNCHANGED <<server, active, terminated, journal>>

\* ConnectionGuard.
Release(c) ==
    /\ Alive /\ conns[c].phase = "Left"
    /\ conns' = [conns EXCEPT ![c] = Closed]
    /\ active' = active - 1
    /\ UNCHANGED <<server, session, journal>>

-----------------------------------------------------------------------------
(* Requests.  The service asks for the role the actor is attached with, the *)
(* transport for the role the connection was granted.                       *)

Ready(c) == Alive /\ ~server.shutdown /\ conns[c].phase = "Ready"
May(c, permission) ==
    /\ conns[c].actor \in DOMAIN actors
    /\ permission \in Permission(actors[conns[c].actor])
Granted(c, permission) == permission \in Permission(conns[c].role)

Same == UNCHANGED <<server, active, conns, session>>

Detach(c) ==
    /\ Ready(c)
    /\ \E a \in Actors :
         /\ a # conns[c].actor => May(c, "ManageSession")
         /\ actors' = Restrict(actors, DOMAIN actors \ {a})
    /\ UNCHANGED <<server, active, conns, terminated, journal>>

About(id) == {o \in Line : log[o].of = id}

\* The approvals of the snapshot, each by the newest record about it.
Standing ==
    {o \in Line : log[o].now # None /\ \A p \in About(log[o].of) : p <= o}

\* Whoever may submit patches may write any element: mark an approval, take it
\* out of its container or put one there, and delete or create an actor's.
Patch ==
    \/ \E id \in Ids \cup {log[o].of : o \in Standing}, now \in Patches \cup {None} :
         /\ About(id) = {} => now # None
         /\ Enter(Entry("patch", id, now))
    \/ \E a \in Actors :
         \/ Recorded(a) /\ Enter(Entry("gone", a, None))
         \/ ~Used(a) /\ Enter(Entry("actor", a, None))

\* submit_patch, submit_command, change_convar, signal_job, register_artifact
\* and write_workspace.
Change(c) ==
    /\ Ready(c) /\ ~terminated
    /\ \/ /\ \E permission \in {"SubmitPatch", "SubmitCommand", "ChangeConVar",
                                "SignalJob", "WriteWorkspace"} : May(c, permission)
          /\ Enter(Note) \/ Refused
       \/ May(c, "SubmitPatch") /\ Patch
    /\ Same

\* fork_session, rewind_session and select_branch: any record of any branch
\* may be the next to build on.
Branch(c) ==
    /\ Ready(c) /\ ~terminated /\ May(c, "ManageSession")
    /\ \/ \E o \in 0 .. Newest :
            Enter([Note EXCEPT !.base = o])
       \/ Refused
    /\ Same

\* terminate_session, and the flag that every loop reads.
Shutdown(c) ==
    /\ Ready(c) /\ Granted(c, "ManageSession") /\ May(c, "ManageSession")
    /\ terminated' = TRUE
    /\ server' = [server EXCEPT !.shutdown = TRUE]
    /\ conns' = [conns EXCEPT ![c] = [Closed EXCEPT !.phase = "Left"]]
    /\ actors' = Restrict(actors, DOMAIN actors \ {conns[c].actor})
    /\ UNCHANGED <<active, journal>>

-----------------------------------------------------------------------------
(* Approvals.  A request is named by the client or, with an id of its own,  *)
(* by the tool host.                                                        *)

Asked(host) == [host |-> host, status |-> "pending", approved |-> FALSE]

RequestApproval(c) ==
    /\ Ready(c) /\ ~terminated /\ May(c, "SubmitCommand")
    /\ \E id \in Ids, remote \in BOOLEAN :
         /\ About(id) = {}
         /\ \/ Enter(Entry("request", id, Asked(remote /\ conns[c].actor = Owner)))
            \/ Refused
    /\ Same

\* Mutant: also what is consumed is resolved again.
Unresolved(approval) == approval.status # "resolved"
Pending(approval) == approval.status = "pending"

ResolveApproval(c) ==
    /\ Ready(c) /\ ~terminated /\ May(c, "Approve")
    /\ \E o \in Standing, decision \in BOOLEAN :
         /\ Pending(log[o].now)
         /\ \/ Enter(Entry("resolve", log[o].of,
                          [log[o].now EXCEPT !.status = "resolved",
                                             !.approved = decision]))
            \/ Refused
    /\ Same

\* The first request for the resource that has not been used up: where patches
\* have put elements among the others it may be any.
Prior ==
    LET requests == {o \in Standing : log[o].now.host /\ log[o].now.status # "consumed"}
        Before(o, p) == \E q \in About(log[o].of) : \A r \in About(log[p].of) : q <= r
    IN  {o \in requests : On("patch") # {} \/ \A p \in requests : Before(o, p)}

\* authorize_host_read: an approval is used up before the resource is read; if
\* there is none, it is asked for; if it is pending or denied, that is all.
Read ==
    \/ \E o \in Prior :
         /\ log[o].now.approved
         /\ \/ Enter(Entry("consume", log[o].of, [log[o].now EXCEPT !.status = "consumed"]))
            \/ Refused
    \/ \E o \in Prior : ~log[o].now.approved /\ UNCHANGED journal
    \/ /\ Prior = {}
       /\ Enter(Entry("request", Newest + 1, Asked(TRUE))) \/ Refused

\* run_turn and execute_tool, which the transport lets pass.
Work(c) ==
    /\ Ready(c) /\ Granted(c, "SubmitCommand")
    /\ Read \/ Enter(Note) \/ Refused
    /\ Same

-----------------------------------------------------------------------------
Next ==
    \/ TurnAway \/ AcceptFails \/ PollJobs \/ Finish \/ Restart
    \/ \E c \in Connections :
         \/ Accept(c) \/ Handshake(c) \/ Leave(c) \/ Release(c)
         \/ Detach(c) \/ Change(c) \/ Branch(c) \/ Shutdown(c)
         \/ RequestApproval(c) \/ ResolveApproval(c) \/ Work(c)

Spec == Init /\ [][Next]_vars

\* The loop runs on, and a thread that left goes on to its end.
Fairness ==
    /\ WF_vars(Finish)
    /\ \A c \in Connections : WF_vars(Release(c))
FairSpec == Spec /\ Fairness

-----------------------------------------------------------------------------
(* Properties. *)

\* Types of the variables; the count of connections is the connections'.
TypeOK ==
    /\ server \in [mode : {"Serving", "Down"}, once : BOOLEAN,
                   waiting : BOOLEAN, shutdown : BOOLEAN]
    /\ active = Cardinality(Live) /\ active <= MaxConnections
    /\ \A c \in Connections :
         /\ conns[c].phase \in {"Closed", "Open", "Ready", "Left"}
         /\ conns[c].actor \in Actors \cup {None}
         /\ conns[c].role \in Offered \cup {None}
    /\ DOMAIN actors \subseteq Actors /\ Range(actors) \subseteq Offered
    /\ terminated \in BOOLEAN
    /\ Newest <= MaxOffset /\ \A o \in 1 .. Newest : log[o].base \in 0 .. o - 1
    /\ poisoned \in BOOLEAN /\ faults \in 0 .. MaxFaults

\* Nobody stays attached whose connection has ended: an attached actor, and so
\* its queue, has a connection that was granted its role, and so its id can be
\* attached again once the connection ends.
NoGhost ==
    /\ TypeOK
    /\ server.mode # "Down" =>
         \A a \in DOMAIN actors : \E c \in Connections :
           conns[c] = [phase |-> "Ready", actor |-> a, role |-> actors[a]]

\* On a branch an approval is resolved once and used once, and used only after the
\* host asked for it and it was allowed; counted anew when a client's patch wrote
\* the approval, which may mark it as it likes.
OneShot ==
    \A o \in On("resolve") \cup On("consume") :
      LET before == {p \in About(log[o].of) : p < o}
          since  == {p \in before : \A q \in before : log[q].what = "patch" => q <= p}
      IN  /\ \A p \in since : log[p].what # log[o].what
          /\ log[o].what = "consume" =>
               \E q, r \in since :
                 /\ q <= r
                 /\ log[q].what \in {"request", "patch"} /\ log[q].now.host
                 /\ log[r].what \in {"resolve", "patch"} /\ log[r].now.approved

\* A shutdown that is accepted ends the service, whatever its clients do.
ShutdownEnds == server.shutdown ~> server.mode = "Down"

=============================================================================
