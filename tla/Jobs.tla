-------------------------------- MODULE Jobs --------------------------------
(***************************************************************************)
(* Supervised processes: Job of crates/omp-runtime/src/job.rs, the table   *)
(* of ToolHost (crates/omp-tools/src/host.rs) that polls and settles them, *)
(* and the host process that starts, stops and restarts around them.       *)
(*                                                                         *)
(* A job is two things.  Its record is in the session's snapshot `dom':    *)
(* durable, replayed, and exchanged for an older one by a fork.  Its       *)
(* handle is in the host: the process, the channel its two pipe readers    *)
(* fill, and what was received.                                            *)
(*                                                                         *)
(* Abstractions.  Output is counted in chunks.  Time passes in two steps,  *)
(* the wall limit and the grace period; whether the interval between two   *)
(* flushes is over is a free choice.  Processes act between any two steps  *)
(* of the host; one poll of a job is one step, because all it reads of the *)
(* process can only grow.  Job ids are minted: no order of the table is    *)
(* assumed.                                                                *)
(***************************************************************************)
EXTENDS Naturals, FiniteSets, SequencesExt

CONSTANTS Jobs,          \* job ids
          None,          \* no value
          MaxConcurrent, \* job_max_concurrency
          DrainLimit,    \* chunks one poll takes: 8
          EventLimit,    \* LimitPolicy.max_events
          Chunks,        \* bound: what the pipes of each job carry
          Reached,       \* bound: the jobs that users signal
          MaxFaults      \* bound: forks, failed stores and restarts, together

ASSUME JobsAssumption ==
    /\ Jobs \subseteq Nat /\ IsFiniteSet(Jobs) /\ Reached \subseteq Jobs
    /\ MaxConcurrent \in Nat /\ EventLimit \in Nat
    /\ DrainLimit \in Nat \ {0}
    /\ Chunks \in [Jobs -> Nat] /\ MaxFaults \in Nat

VARIABLES
    dom,    \* the record of each job in the snapshot
    other,  \* the snapshot of another branch, or None
    proc,   \* the process tree and pipes of each job
    handle, \* what each Job struct holds besides
    table,  \* ToolHost.jobs
    host,   \* what the host does
    faults  \* how many of each bounded event so far

vars == <<dom, other, proc, handle, table, host, faults>>

Terminals == {"Succeeded", "Failed", "Cancelled"}

\* `requested' is the attribute requested_signal; `diff' says that
\* workspace_diff is set.
Record == [status : Terminals \cup {"Absent", "Running", "CancelRequested"},
           cancel : BOOLEAN,
           reason : {None, "Normal", "Timeout", "Limit", "ForcedKill", "Error"},
           text : Nat,
           requested : {None, "stop", "kill"},
           diff : BOOLEAN]

\* "fail" is a read error of a pipe.
Process == [main : {"New", "Alive", "Zero", "NonZero"},
            killed : BOOLEAN, open : BOOLEAN, chan : Seq({"data", "fail"})]

Handle == [got : Nat, journaled : Nat,
           eof : BOOLEAN, wall : BOOLEAN, grace : BOOLEAN]

\* A session is hosted by the worker of omp-cli or by the server.
Host == [kind : {"worker", "server"},
         mode : {"Idle", "Polling", "Settling", "Tool", "Waiting", "Exit",
                 "Down"},
         then : {"Idle", "Tool", "Shutdown"},
         left : SUBSET Jobs, done : SUBSET Jobs]

(* Types of the variables.  What was received and what is still in the channel *)
(* was written, and no more is journaled than was received.                  *)
TypeOK ==
    /\ dom \in [Jobs -> Record]
    /\ other \in [Jobs -> Record] \cup {None}
    /\ proc \in [Jobs -> Process]
    /\ handle \in [Jobs -> Handle]
    /\ table \subseteq Jobs
    /\ host \in Host
    /\ host.mode \in {"Polling", "Settling"} =>
           host.left \cup host.done \subseteq table
    /\ \A j \in Jobs :
         /\ handle[j].got + Len(proc[j].chan) <= Chunks[j]
         /\ handle[j].journaled <= handle[j].got
         /\ dom[j].text <= Chunks[j]
         /\ other # None => other[j].text <= Chunks[j]

-----------------------------------------------------------------------------
Absent == [status |-> "Absent", cancel |-> FALSE, reason |-> None, text |-> 0,
           requested |-> None, diff |-> FALSE]

Fresh == [got |-> 0, journaled |-> 0, eof |-> FALSE, wall |-> FALSE,
          grace |-> FALSE]

Known(r) == r.status # "Absent"
Terminal(r) == r.status \in Terminals
Active(r) == Known(r) /\ ~Terminal(r)

Mode(m, then, left, done) ==
    [host EXCEPT !.mode = m, !.then = then, !.left = left, !.done = done]

Idle == Mode("Idle", "Idle", {}, {})

\* RestrictedProcess::kill: an exit code that is there already stays.
Killed(p) ==
    [p EXCEPT !.main = IF @ = "Alive" THEN "NonZero" ELSE @, !.killed = TRUE]

\* What is left of the process of a dropped handle.
Gone(p) == [Killed(p) EXCEPT !.open = FALSE, !.chan = <<>>]

\* Job::signal of an active job.
Signalled(r, signal) ==
    [r EXCEPT !.cancel = TRUE, !.status = "CancelRequested",
              !.reason = IF signal = "kill" THEN "ForcedKill" ELSE @]

Handled(j) == j \in table \/ (host.mode = "Waiting" /\ j \in host.left)

-----------------------------------------------------------------------------
(* Job::poll.  A value p of the operators below is the job while it is     *)
(* polled: its record, its process, its handle, and the reason in the      *)
(* `state' that poll loads first and writes back with each transition.     *)

\* The job itself asks its process to stop: the record is read again.
Ask(p, why) ==
    [p EXCEPT !.rec = [Signalled(@, "stop") EXCEPT !.reason = why],
              !.reason = why]

Take(p, item) ==
    IF item = "fail"
    THEN [p EXCEPT !.reason = "Error", !.proc = Killed(@)]
    ELSE LET more == [p EXCEPT !.handle.got = @ + 1] IN
         IF more.handle.got > EventLimit /\ ~p.rec.cancel
         THEN Ask(more, "Limit")
         ELSE more

\* The loop over the channel; it notices that both readers ended only after
\* the last chunk.
Drain(p) ==
    LET chan == p.proc.chan
        n    == IF Len(chan) < DrainLimit THEN Len(chan) ELSE DrainLimit
        taken[k \in 0 .. n] ==
            IF k = 0 THEN p ELSE Take(taken[k - 1], chan[k])
    IN  [taken[n] EXCEPT
            !.proc.chan = SubSeq(chan, n + 1, Len(chan)),
            !.handle.eof = @ \/ (n < DrainLimit /\ ~p.proc.open)]

\* The text is written when it is the first or when it is due.
Flush(p, due) ==
    LET h == p.handle IN
    IF h.got # h.journaled /\ (h.journaled = 0 \/ due)
    THEN [p EXCEPT !.rec.text = h.got, !.rec.reason = p.reason,
                   !.handle.journaled = h.got]
    ELSE p

Wall(p) == IF p.handle.wall /\ ~p.rec.cancel THEN Ask(p, "Timeout") ELSE p

\* Mutant: the process is asked once more.
GraceAsks(p) ==
    IF p.rec.cancel /\ p.handle.grace /\ p.reason # "ForcedKill"
    THEN [p EXCEPT !.reason = "ForcedKill", !.rec.reason = "ForcedKill"]
    ELSE p

Grace(p) ==
    IF p.rec.cancel /\ p.handle.grace /\ p.reason # "ForcedKill"
    THEN [p EXCEPT !.proc = Killed(@), !.reason = "ForcedKill",
                   !.rec.reason = "ForcedKill"]
    ELSE p

Finished(p) == p.proc.main \in {"Zero", "NonZero"} /\ p.handle.eof

\* The terminal transition; the process and the lease are dropped.
Concluded(p) ==
    [p EXCEPT
        !.rec.status = IF p.rec.cancel THEN "Cancelled"
                       ELSE IF p.proc.main = "Zero" /\ p.reason = None
                            THEN "Succeeded" ELSE "Failed",
        !.rec.reason = IF p.reason = None THEN "Normal" ELSE p.reason,
        !.proc = Killed(@)]

\* What a job with the record r and the process q can be when the poll looks at
\* the exit code.
Polled(j, r, q) ==
    LET loaded  == [rec |-> r, proc |-> q, handle |-> handle[j],
                    reason |-> r.reason]
        flushed == {Flush(p, due) : p \in {Drain(loaded)}, due \in BOOLEAN}
    IN  {Grace(p) : p \in {Wall(p) : p \in flushed}}

Becomes(j, p) ==
    /\ dom' = [dom EXCEPT ![j] = p.rec]
    /\ proc' = [proc EXCEPT ![j] = p.proc]
    /\ handle' = [handle EXCEPT ![j] = p.handle]

Counted(fault) ==
    /\ faults.forks + faults.failures + faults.restarts < MaxFaults
    /\ faults' = [faults EXCEPT ![fault] = @ + 1]

\* A store or file operation fails.
Fails == Counted("failures")

-----------------------------------------------------------------------------
Init ==
    /\ dom = [j \in Jobs |-> Absent]
    /\ other = None
    /\ proc = [j \in Jobs |-> [main |-> "New", killed |-> FALSE,
                               open |-> FALSE, chan |-> <<>>]]
    /\ handle = [j \in Jobs |-> Fresh]
    /\ table = {}
    /\ host \in [kind : {"worker", "server"}, mode : {"Idle"},
                 then : {"Idle"}, left : {{}}, done : {{}}]
    /\ faults = [forks |-> 0, failures |-> 0, restarts |-> 0]

(* The process. *)

\* A pipe reader hands over a chunk, or its error.
Write(j, item) ==
    /\ proc[j].open
    /\ handle[j].got + Len(proc[j].chan) < Chunks[j]
    /\ proc' = [proc EXCEPT ![j].chan = Append(@, item)]
    /\ UNCHANGED <<dom, other, handle, table, host, faults>>

Exit(j, code) ==
    /\ proc[j].main = "Alive"
    /\ proc' = [proc EXCEPT ![j].main = code]
    /\ UNCHANGED <<dom, other, handle, table, host, faults>>

\* Both readers are at their end: whoever held the pipes closed them.
Hangup(j) ==
    /\ proc[j].open
    /\ proc' = [proc EXCEPT ![j].open = FALSE]
    /\ UNCHANGED <<dom, other, handle, table, host, faults>>

WallPasses(j) ==
    /\ Handled(j)
    /\ ~handle[j].wall
    /\ handle' = [handle EXCEPT ![j].wall = TRUE]
    /\ UNCHANGED <<dom, other, proc, table, host, faults>>

GracePasses(j) ==
    /\ Handled(j)
    /\ dom[j].cancel
    /\ ~handle[j].grace
    /\ handle' = [handle EXCEPT ![j].grace = TRUE]
    /\ UNCHANGED <<dom, other, proc, table, host, faults>>

-----------------------------------------------------------------------------
(* ToolHost::poll_jobs: first each job of the table, then the finished.     *)

\* Where the host goes on when a poll_jobs call is through.
Then(then, jobs) ==
    CASE then = "Idle" -> Idle
      [] then = "Tool" -> Mode("Tool", "Idle", {}, {})
      [] OTHER -> IF jobs = {} THEN Mode("Exit", "Idle", {}, {})
                  ELSE Mode("Polling", "Shutdown", jobs, {})

\* ... and when it returns an error: a shutdown is over, and so is the server
\* whose loop had polled; the worker reports it and polls again.
Otherwise(then) ==
    IF then = "Shutdown" \/ (then = "Idle" /\ host.kind = "server")
    THEN Mode("Exit", "Idle", {}, {})
    ELSE Idle

\* The worker's loop polls, and so does execute_tool before it runs a tool.
BeginPoll(then) ==
    /\ host.mode = "Idle"
    /\ host' = IF table = {} THEN Then(then, {})
               ELSE Mode("Polling", then, table, {})
    /\ UNCHANGED <<dom, other, proc, handle, table, faults>>

\* The job was polled; the next one is.
GoesOn(j, done) ==
    LET left == host.left \ {j}
    IN  host' = IF left # {} THEN Mode("Polling", host.then, left, done)
                ELSE IF done # {} THEN Mode("Settling", host.then, {}, done)
                ELSE Then(host.then, table)

\* Mutant: only a terminal record is through.
PollThroughTerminal(j) ==
    /\ host.mode = "Polling"
    /\ j \in host.left
    /\ ~Active(dom[j])
    /\ GoesOn(j, IF Known(dom[j]) THEN host.done \cup {j} ELSE host.done)
    /\ UNCHANGED <<dom, other, proc, handle, table, faults>>

\* The record is not in the snapshot, or it is terminal already because an
\* earlier poll_jobs did not come to its end.
PollThrough(j) ==
    /\ host.mode = "Polling"
    /\ j \in host.left
    /\ ~Active(dom[j])
    /\ GoesOn(j, host.done \cup {j})
    /\ UNCHANGED <<dom, other, proc, handle, table, faults>>

\* The record and the process once a requested signal is consumed.
Consumed(j) ==
    LET r == dom[j] IN
    IF r.requested = None THEN r
    ELSE [Signalled(r, r.requested) EXCEPT !.requested = None]

Struck(j) == IF dom[j].requested = "kill" THEN Killed(proc[j]) ELSE proc[j]

PollActive(j) ==
    /\ host.mode = "Polling"
    /\ j \in host.left
    /\ Active(dom[j])
    /\ \E p \in Polled(j, Consumed(j), Struck(j)) :
         IF Finished(p)
         THEN Becomes(j, Concluded(p)) /\ GoesOn(j, host.done \cup {j})
         ELSE Becomes(j, p) /\ GoesOn(j, host.done)
    /\ UNCHANGED <<other, table, faults>>

\* The artifacts cannot be stored: poll_jobs ends there.
PollFails(j) ==
    /\ host.mode = "Polling"
    /\ j \in host.left
    /\ Active(dom[j])
    /\ Fails
    /\ \E p \in Polled(j, Consumed(j), Struck(j)) : Finished(p) /\ Becomes(j, p)
    /\ host' = Otherwise(host.then)
    /\ UNCHANGED <<other, table>>

\* settle_workspace, behind the removal from the table; the record of a job of
\* another branch gets no diff.
Settle(j) ==
    LET done == host.done \ {j} IN
    /\ host.mode = "Settling"
    /\ j \in host.done
    /\ table' = table \ {j}
    /\ dom' = IF Known(dom[j]) THEN [dom EXCEPT ![j].diff = TRUE] ELSE dom
    /\ proc' = [proc EXCEPT ![j] = Gone(@)]
    /\ handle' = [handle EXCEPT ![j] = Fresh]
    /\ host' = IF done = {} THEN Then(host.then, table')
               ELSE [host EXCEPT !.done = done]
    /\ UNCHANGED <<other, faults>>

SettleFails(j) ==
    /\ host.mode = "Settling"
    /\ j \in host.done
    /\ Known(dom[j])
    /\ Fails
    /\ table' = table \ {j}
    /\ proc' = [proc EXCEPT ![j] = Gone(@)]
    /\ handle' = [handle EXCEPT ![j] = Fresh]
    /\ host' = Otherwise(host.then)
    /\ UNCHANGED <<dom, other>>

-----------------------------------------------------------------------------
(* Tools, of which one starts a process.                                    *)

Budget == Cardinality({j \in Jobs : Active(dom[j])}) < MaxConcurrent

\* Job ids are minted.
Minted(j) ==
    /\ proc[j].main = "New"
    /\ \A i \in Jobs : i < j => proc[i].main # "New"

Running == [Absent EXCEPT !.status = "Running"]

\* Job::spawn by the Bash tool, which keeps an asynchronous job in the table and
\* waits for another one.
Spawn(j, async) ==
    /\ host.mode = "Tool"
    /\ Minted(j)
    /\ Budget
    /\ dom' = [dom EXCEPT ![j] = Running]
    /\ proc' = [proc EXCEPT ![j].main = "Alive", ![j].open = TRUE]
    /\ IF async
       THEN table' = table \cup {j} /\ host' = Idle
       ELSE table' = table /\ host' = Mode("Waiting", "Idle", {j}, {})
    /\ UNCHANGED <<other, handle, faults>>

SpawnFails(j) ==
    /\ host.mode = "Tool"
    /\ Minted(j)
    /\ Budget
    /\ Fails
    /\ dom' = [dom EXCEPT ![j] = [Absent EXCEPT !.status = "Failed",
                                               !.reason = "Error"]]
    /\ proc' = [proc EXCEPT ![j].main = "NonZero"]
    /\ host' = Idle
    /\ UNCHANGED <<other, handle, table>>

\* Another tool, or a refusal.
ToolEnds ==
    /\ host.mode = "Tool"
    /\ host' = Idle
    /\ UNCHANGED <<dom, other, proc, handle, table, faults>>

Released(j) ==
    /\ proc' = [proc EXCEPT ![j] = Gone(@)]
    /\ handle' = [handle EXCEPT ![j] = Fresh]

\* One turn of Job::wait; it settles what has finished.
WaitPoll(j) ==
    /\ host.mode = "Waiting"
    /\ j \in host.left
    /\ \E p \in Polled(j, dom[j], proc[j]) :
         IF Finished(p)
         THEN /\ dom' = [dom EXCEPT ![j] =
                            [Concluded(p).rec EXCEPT !.diff = TRUE]]
              /\ Released(j)
              /\ host' = Idle
         ELSE Becomes(j, p) /\ UNCHANGED host
    /\ UNCHANGED <<other, table, faults>>

\* The artifacts are not stored, or what has finished is not settled: the tool
\* fails, and drops the job.
WaitFails(j, stored) ==
    /\ host.mode = "Waiting"
    /\ j \in host.left
    /\ Fails
    /\ \E p \in Polled(j, dom[j], proc[j]) :
         /\ Finished(p)
         /\ dom' = [dom EXCEPT ![j] = IF stored THEN Concluded(p).rec
                                     ELSE p.rec]
    /\ Released(j)
    /\ host' = Idle
    /\ UNCHANGED <<other, table>>

\* The wait is longer than both periods: it kills what has not ended, and leaves
\* it to the table.
WaitExpires(j) ==
    /\ host.mode = "Waiting"
    /\ j \in host.left
    /\ handle[j].wall /\ handle[j].grace
    /\ dom' = [dom EXCEPT ![j] = Signalled(@, "kill")]
    /\ proc' = [proc EXCEPT ![j] = Killed(@)]
    /\ table' = table \cup {j}
    /\ host' = Idle
    /\ UNCHANGED <<other, handle, faults>>

-----------------------------------------------------------------------------
(* Signals, branches and the life of the host.                              *)

\* ToolHost::cancel_job.
Cancel(j) ==
    /\ host.mode = "Idle"
    /\ j \in table
    /\ Active(dom[j])
    /\ dom' = [dom EXCEPT ![j] = Signalled(@, "stop")]
    /\ UNCHANGED <<other, proc, handle, table, host, faults>>

\* SessionService::signal_job only writes the request.
RequestSignal(j, signal) ==
    /\ host.kind = "server"
    /\ host.mode = "Idle"
    /\ Active(dom[j])
    /\ dom' = [dom EXCEPT ![j].requested = signal]
    /\ UNCHANGED <<other, proc, handle, table, host, faults>>

\* The offset that a later fork will name.
Bookmark ==
    /\ other = None
    /\ faults.forks + faults.failures + faults.restarts < MaxFaults
    /\ other' = dom
    /\ UNCHANGED <<dom, proc, handle, table, host, faults>>

\* The snapshot is that of an earlier offset.  The cancellation it holds is
\* the older one.
Fork ==
    /\ host.mode = "Idle"
    /\ other # None
    /\ dom' = other
    /\ other' = None
    /\ handle' = [j \in Jobs |->
           [handle[j] EXCEPT !.grace = @ /\ other[j].cancel]]
    /\ Counted("forks")
    /\ UNCHANGED <<proc, table, host>>

\* ToolHost::shutdown_jobs kills each job of the table and polls until none is
\* left; a job that cannot be signalled ends it, with some killed.
BeginShutdown ==
    /\ host.mode = "Idle"
    /\ \E killed \in SUBSET {j \in table : Active(dom[j])} :
         LET all == killed = table IN
         /\ all \/ (\E j \in table : ~Active(dom[j]))
         /\ dom' = [j \in Jobs |-> IF j \in killed THEN Signalled(dom[j], "kill")
                                   ELSE dom[j]]
         /\ proc' = [j \in Jobs |-> IF j \in killed THEN Killed(proc[j])
                                    ELSE proc[j]]
         /\ host' = IF all THEN Then("Shutdown", table)
                    ELSE Mode("Exit", "Idle", {}, {})
    /\ UNCHANGED <<other, handle, table, faults>>

\* Refused while a record is active.
Detach ==
    /\ host.kind = "worker"
    /\ host.mode = "Idle"
    /\ \A j \in Jobs : ~Active(dom[j])
    /\ host' = Mode("Exit", "Idle", {}, {})
    /\ UNCHANGED <<dom, other, proc, handle, table, faults>>

\* The processes do not outlive their host: it held their job object.
Dies ==
    /\ proc' = [j \in Jobs |-> IF proc[j].main = "New" THEN proc[j]
                               ELSE Gone(proc[j])]
    /\ handle' = [j \in Jobs |-> Fresh]
    /\ table' = {}
    /\ host' = Mode("Down", "Idle", {}, {})
    /\ UNCHANGED <<dom, other, faults>>

Leave == host.mode = "Exit" /\ Dies

Crash == host.mode \notin {"Exit", "Down"} /\ Dies

\* Mutant: each record is an orphan's.
ReconcileAll(kind) ==
    IF kind = "server" THEN dom
    ELSE [j \in Jobs |-> IF Known(dom[j])
                         THEN [dom[j] EXCEPT !.status = "Cancelled"]
                         ELSE dom[j]]

\* reconcile_orphans; the server has no such step.
Reconciled(kind) ==
    IF kind = "server" THEN dom
    ELSE [j \in Jobs |-> IF Active(dom[j])
                         THEN [dom[j] EXCEPT !.status = "Cancelled"]
                         ELSE dom[j]]

\* The session is opened again.
Restart(kind) ==
    /\ host.mode = "Down"
    /\ Counted("restarts")
    /\ host' = [host EXCEPT !.kind = kind, !.mode = "Idle"]
    /\ dom' = Reconciled(kind)
    /\ UNCHANGED <<other, proc, handle, table>>

-----------------------------------------------------------------------------
Poll(j) ==
    \/ PollThrough(j)
    \/ PollActive(j)
    \/ PollFails(j)
    \/ Settle(j)
    \/ SettleFails(j)

Wait(j) ==
    \/ WaitPoll(j)
    \/ \E stored \in BOOLEAN : WaitFails(j, stored)
    \/ WaitExpires(j)

ProcessStep(j) ==
    \/ \E item \in {"data", "fail"} : Write(j, item)
    \/ \E code \in {"Zero", "NonZero"} : Exit(j, code)
    \/ Hangup(j)

UserStep ==
    \/ \E j \in Reached : Cancel(j)
    \/ \E j \in Reached, signal \in {"stop", "kill"} : RequestSignal(j, signal)
    \/ Bookmark
    \/ Fork
    \/ BeginPoll("Tool")
    \/ BeginShutdown
    \/ Detach

\* What the host does without being asked.
HostWork ==
    \/ BeginPoll("Idle")
    \/ \E j \in Jobs : Poll(j) \/ Wait(j)
    \/ \E j \in Jobs : SpawnFails(j) \/ (\E async \in BOOLEAN : Spawn(j, async))
    \/ ToolEnds
    \/ Leave

Next ==
    \/ HostWork
    \/ UserStep
    \/ Crash
    \/ \E kind \in {"worker", "server"} : Restart(kind)
    \/ \E j \in Jobs : ProcessStep(j) \/ WallPasses(j) \/ GracePasses(j)

Spec == Init /\ [][Next]_vars

\* The host goes on: its loop polls every 25 ms, a tool's wait and a shutdown
\* every 5 ms.  Time passes.  The system closes the pipes of a killed tree.
Fairness ==
    /\ WF_vars(HostWork)
    /\ \A j \in Jobs : /\ WF_vars(WallPasses(j))
                       /\ WF_vars(GracePasses(j))
                       /\ WF_vars(proc[j].killed /\ Hangup(j))

FairSpec == Spec /\ Fairness

(* The host never runs more processes than job_max_concurrency, and no slot  *)
(* of that budget is lost: a record that is not terminal has a handle that   *)
(* will end it - with the worker always, with a server until it is restarted *)
(* - as long as no fork and no failure comes between.                        *)
SlotsKept ==
    /\ TypeOK
    /\ Cardinality({j \in Jobs : proc[j].main = "Alive"}) <= MaxConcurrent
    /\ (/\ host.mode # "Down"
        /\ faults.forks = 0 /\ faults.failures = 0
        /\ host.kind = "server" => faults.restarts = 0)
         => \A j \in Jobs : Active(dom[j]) => Handled(j)

(* What a terminal record says of the end stays, whoever signals, settles or *)
(* restarts later; only another branch says something else.                  *)
TerminalSticks ==
    [][faults'.forks = faults.forks =>
          \A j \in Jobs : Terminal(dom[j]) =>
              /\ dom'[j].status = dom[j].status
              /\ dom'[j].reason = dom[j].reason]_vars

(* A job that has a handle ends, or loses the handle: a process that neither *)
(* exits nor closes its pipes meets the wall limit and then the kill.  Asked *)
(* of the jobs that users signal.                                            *)
Settles ==
    \A j \in Reached :
        Active(dom[j]) /\ Handled(j) ~> ~(Active(dom[j]) /\ Handled(j))

=============================================================================
