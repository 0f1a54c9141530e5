----------------------------- MODULE Workspace -----------------------------
(***************************************************************************)
(* The workspace, and what the host does to it: the Eval tool, whose       *)
(* Python worker has a copy of the workspace that is merged back after     *)
(* each evaluation (WorkspaceView of crates/omp-runtime, PythonSession of  *)
(* crates/omp-python), and the Edit and Write tools (crates/omp-tools).    *)
(* Meanwhile anybody may change the workspace: its user, a background job  *)
(* of the Bash tool, which works in it directly, or a tool the evaluation  *)
(* itself calls.  An isolated job has a view too, which is merged once, as *)
(* that of a session of one evaluation is.                                 *)
(*                                                                         *)
(* Abstractions.  A tree says of each path what is there.  A scan or a     *)
(* copy of a whole tree is one step, and changes fall between them; the    *)
(* copy of one file is one step.  There are no links, and none of the      *)
(* directories that scans pass over (.git, node_modules and their like).   *)
(* What one evaluation makes of its copy is any tree of the set `Results'. *)
(***************************************************************************)
EXTENDS Edits, Picking, FiniteSets

CONSTANTS PathOrder,  \* all paths in their order
          Absent, Dir,
          Trees,      \* workspaces there may be to begin with
          Changes,    \* what others write to a path
          Results(_), \* what an evaluation makes of a tree
          Patches,    \* that the Edit tool may be called with
          Writes,     \* that the Write tool may be called with
          Tag(_),     \* the first two bytes of a file's digest
          MaxCalls, MaxChanges, MaxFaults

VARIABLES
    base,    \* the workspace
    session, \* the Python session: its view, its worker
    pc,      \* where the host is in handle_eval, handle_edit or handle_write
    diff,    \* what apply_to_base has yet to do
    edit,    \* the sections of an Edit call, and what was read for one of them
    before,  \* history: the workspace when the merge checked it
    touched, \* history: paths changed by others since the host looked
    calls, changes, faults

vars == <<base, session, pc, diff, edit, before, touched, calls, changes, faults>>

-----------------------------------------------------------------------------
(* Trees. *)

IsFile(tree, p) == tree[p] \notin {Absent, Dir}
Files(tree) == {p \in Paths : IsFile(tree, p)}
Directories(tree) == {p \in Paths : tree[p] = Dir}
Ancestors(p) == {q \in Paths : IsStrictPrefix(q, p)}
Below(tree, p) == {q \in Paths : IsStrictPrefix(p, q) /\ tree[q] # Absent}

WellFormed(tree) ==
    \A p \in Paths : tree[p] # Absent => \A q \in Ancestors(p) : tree[q] = Dir

\* fs::create_dir_all, for the directories given.
CanMake(tree, dirs) == \A q \in dirs : ~IsFile(tree, q)
Make(tree, dirs) == [q \in Paths |-> IF q \in dirs THEN Dir ELSE tree[q]]

\* create_dir_all for the parent, and the file there.
CanPut(tree, p) == CanMake(tree, Ancestors(p)) /\ tree[p] # Dir
Put(tree, p, content) == [Make(tree, Ancestors(p)) EXCEPT ![p] = content]

Removed(tree, p) == [tree EXCEPT ![p] = Absent]

\* What a scan says of a path: it records files.
Scanned(tree, p) == IF IsFile(tree, p) THEN tree[p] ELSE Absent

InOrder(set) ==
    Picked(PathOrder, {i \in DOMAIN PathOrder : PathOrder[i] \in set})

-----------------------------------------------------------------------------
(* What is given. *)

Content == {Absent, Dir} \cup Seq(STRING)
IsTree(tree) == tree \in [Paths -> Content] /\ WellFormed(tree)

ASSUME WorkspaceAssumption ==
    /\ PathOrder \in Seq(Paths) /\ Paths = Range(PathOrder)
    /\ \A i, j \in DOMAIN PathOrder : i # j => PathOrder[i] # PathOrder[j]
    /\ \A p \in Paths : Len(p) > 1 => Front(p) \in Paths
    /\ Absent # Dir
    /\ \A tree \in Trees : IsTree(tree)
    /\ \A what \in Changes : what \in Content
    /\ \A patch \in Patches : patch \in Seq(PatchLine)
    /\ \A write \in Writes : write.path \in Paths /\ write.content \in Seq(STRING)
    /\ MaxCalls \in Nat /\ MaxChanges \in Nat /\ MaxFaults \in Nat

-----------------------------------------------------------------------------
(* compute_diff. *)

Deleted(view) == Files(view.baseline) \ Files(view.copy)
Created(view) == Files(view.copy) \ Files(view.baseline)
Modified(view) == {p \in Files(view.copy) \cap Files(view.baseline) :
                     view.copy[p] # view.baseline[p]}

\* A deleted and a created file of one content are a rename.  Both come in the
\* order of a hash map, each pairs with the first that is left.
Alike(view, d, c) == view.baseline[d] = view.copy[c]
Pairings(view) ==
    {pairing \in [Created(view) -> Deleted(view) \cup {None}] :
       /\ \A c \in DOMAIN pairing : pairing[c] # None => Alike(view, pairing[c], c)
       /\ \A c, e \in DOMAIN pairing :
            c # e /\ pairing[c] # None => pairing[c] # pairing[e]
       /\ \A c \in DOMAIN pairing, d \in Deleted(view) :
            pairing[c] = None /\ Alike(view, d, c) => d \in Range(pairing)}

\* The entry of a path: what is copied there, what is removed.
Entry(view, pairing, p) ==
    [path |-> p,
     kind |-> CASE p \in Modified(view) -> "modified"
                [] p \in Deleted(view)  -> "deleted"
                [] p \in Created(view)  ->
                     IF pairing[p] = None THEN "created" ELSE "renamed",
     from |-> IF p \in Created(view) THEN pairing[p] ELSE None]

NoDiff == [entries |-> <<>>, made |-> <<>>, gone |-> <<>>]

Computed(view, pairing) ==
    LET paths == (Modified(view) \cup Created(view) \cup Deleted(view)) \ Range(pairing)
        was   == Directories(view.baseline)
        is    == Directories(view.copy)
        order == InOrder(paths)
    IN  [entries |-> [i \in DOMAIN order |-> Entry(view, pairing, order[i])],
         made    |-> InOrder(is \ was),
         gone    |-> Reverse(InOrder(was \ is))]

-----------------------------------------------------------------------------
NoView == [baseline |-> None, copy |-> None, alive |-> FALSE, known |-> FALSE]
NoEdit == [sections |-> <<>>, next |-> 1, read |-> None, section |-> None]

Init ==
    /\ base \in Trees
    /\ session = NoView /\ pc = "Idle"
    /\ diff = NoDiff /\ edit = NoEdit
    /\ before = None /\ touched = {}
    /\ calls = 0 /\ changes = 0 /\ faults = 0

Idle == /\ pc' = "Idle" /\ diff' = NoDiff /\ edit' = NoEdit
        /\ before' = None /\ touched' = {}

Called == calls < MaxCalls /\ calls' = calls + 1
Fault == faults < MaxFaults /\ faults' = faults + 1

-----------------------------------------------------------------------------
(* Eval. *)

\* handle_eval: the session is kept if it is on the branch and is not to be
\* reset; else it is closed, which terminates its worker and journals it.
StartEval ==
    /\ pc = "Idle" /\ Called
    /\ \E reset \in BOOLEAN :
         IF session.known /\ ~reset
         THEN pc' = "Run" /\ UNCHANGED session
         ELSE pc' = "Scan" /\ session' = NoView
    /\ UNCHANGED <<base, diff, edit, before, touched, changes, faults>>

\* WorkspaceView::allocate: the baseline first,
Scan ==
    /\ pc = "Scan" /\ pc' = "Copy"
    /\ session' = [session EXCEPT !.baseline = base]
    /\ UNCHANGED <<base, diff, edit, before, touched, calls, changes, faults>>

\* then the copy; PythonSession::spawn starts the worker.
Copy ==
    /\ pc = "Copy" /\ pc' = "Run"
    /\ session' = [session EXCEPT !.copy = base, !.alive = TRUE, !.known = TRUE]
    /\ UNCHANGED <<base, diff, edit, before, touched, calls, changes, faults>>

\* The old session's end or the new one's begin is refused by the journal, the
\* copy fails or the worker does not start: there is no session.
NoSession ==
    /\ pc \in {"Scan", "Copy"} /\ Fault /\ Idle
    /\ session' = NoView
    /\ UNCHANGED <<base, calls, changes>>

\* eval_with_host: the worker, started again if it is not alive, evaluates, and
\* answers; or it is terminated, late or gone.  Neither makes a difference to
\* what follows.
Evaluate ==
    /\ pc = "Run" /\ pc' = "Merge"
    /\ \E copy \in Results(session.copy), alive \in BOOLEAN :
         /\ IsTree(copy)
         /\ session' = [session EXCEPT !.copy = copy, !.alive = alive]
    /\ UNCHANGED <<base, diff, edit, before, touched, calls, changes, faults>>

\* The worker does not start again: its copy is merged as it is.
NotEvaluated ==
    /\ pc = "Run" /\ ~session.alive /\ Fault
    /\ pc' = "Merge"
    /\ UNCHANGED <<base, session, diff, edit, before, touched, calls, changes>>

\* Mutant: a rename is checked where it goes, and not where it comes from.
CheckedTarget(entry) == {entry.path}

Checked(entry) == {entry.path, entry.from} \ {None}

\* apply_to_base: no path it is about to change may have changed in the parent.
Conflicts(entries) ==
    \E entry \in Range(entries) : \E p \in Checked(entry) :
      Scanned(base, p) # Scanned(session.baseline, p)

Check ==
    /\ pc = "Merge"
    /\ \E pairing \in Pairings(session) :
       \E computed \in {Computed(session, pairing)} :
         \/ Conflicts(computed.entries) /\ Idle
         \/ /\ ~Conflicts(computed.entries)
            /\ pc' = "Apply" /\ diff' = computed /\ UNCHANGED edit
            /\ before' = base /\ touched' = {}
    /\ UNCHANGED <<base, session, calls, changes, faults>>

Applying == pc = "Apply"
Unchanged == UNCHANGED <<session, edit, before, touched, calls, changes, faults>>

\* The directories first,
MakeDirectory ==
    /\ Applying /\ diff.made # <<>>
    /\ LET dirs == Ancestors(Head(diff.made)) \cup {Head(diff.made)} IN
         /\ CanMake(base, dirs)
         /\ base' = Make(base, dirs)
    /\ diff' = [diff EXCEPT !.made = Tail(@)]
    /\ UNCHANGED pc /\ Unchanged

\* Mutant: where a renamed file was it stays.
SourceStays(entry) == base

\* A rename removes the file where it was before it copies it where it goes.
SourceRemoved(entry) ==
    IF entry.from # None THEN Removed(base, entry.from) ELSE base

\* then the entries, one after the other,
CanApply(entry) ==
    IF entry.kind = "deleted" THEN base[entry.path] # Dir
    ELSE /\ entry.from # None => base[entry.from] # Dir
         /\ CanPut(SourceRemoved(entry), entry.path)

Applied(entry) ==
    IF entry.kind = "deleted" THEN Removed(base, entry.path)
    ELSE Put(SourceRemoved(entry), entry.path, session.copy[entry.path])

ApplyEntry ==
    /\ Applying /\ diff.made = <<>> /\ diff.entries # <<>>
    /\ CanApply(Head(diff.entries))
    /\ base' = Applied(Head(diff.entries))
    /\ diff' = [diff EXCEPT !.entries = Tail(@)]
    /\ UNCHANGED pc /\ Unchanged

\* then the directories that are gone, those within others first.
CanRemoveDirectory(p) ==
    base[p] = Absent \/ (base[p] = Dir /\ Below(base, p) = {})

RemoveDirectory ==
    /\ Applying /\ diff.made = <<>> /\ diff.entries = <<>> /\ diff.gone # <<>>
    /\ CanRemoveDirectory(Head(diff.gone))
    /\ base' = Removed(base, Head(diff.gone))
    /\ diff' = [diff EXCEPT !.gone = Tail(@)]
    /\ UNCHANGED pc /\ Unchanged

\* What stands in the way of the next step.
Stuck ==
    IF diff.made # <<>>
    THEN ~CanMake(base, Ancestors(Head(diff.made)) \cup {Head(diff.made)})
    ELSE IF diff.entries # <<>> THEN ~CanApply(Head(diff.entries))
    ELSE diff.gone # <<>> /\ ~CanRemoveDirectory(Head(diff.gone))

\* Where the disk refuses a step, or the host dies in the middle of it: of a
\* rename the removal may be done, and of a copied file only the beginning.
Broken ==
    \/ UNCHANGED base
    \/ /\ Applying /\ diff.made = <<>> /\ diff.entries # <<>>
       /\ \E entry \in {Head(diff.entries)} :
            \/ /\ entry.from # None /\ base[entry.from] # Dir
               /\ base' = SourceRemoved(entry)
            \/ /\ entry.kind # "deleted" /\ CanApply(entry)
               /\ base' = Put(SourceRemoved(entry), entry.path, <<>>)

MergeFails ==
    /\ Applying /\ diff # NoDiff
    /\ \/ Stuck /\ UNCHANGED faults
       \/ Fault
    /\ Broken /\ Idle
    /\ UNCHANGED <<session, calls, changes>>

MergeDone ==
    /\ Applying /\ diff = NoDiff /\ Idle
    /\ UNCHANGED <<base, session, calls, changes, faults>>

-----------------------------------------------------------------------------
(* Edit and Write. *)

\* EditExecutor::execute: one request for each section of the patch.
StartEdit ==
    /\ pc = "Idle" /\ Called
    /\ \E patch \in Patches :
       \E sections \in {Parse(patch)} :
         IF sections = None THEN UNCHANGED <<pc, edit>>
         ELSE /\ pc' = "Edit"
              /\ edit' = [NoEdit EXCEPT !.sections = sections]
    /\ UNCHANGED <<base, session, diff, before, touched, changes, faults>>

Current == edit.sections[edit.next]

NextSection ==
    IF edit.next < Len(edit.sections)
    THEN /\ edit' = [edit EXCEPT !.next = @ + 1, !.read = None, !.section = None]
         /\ touched' = {} /\ UNCHANGED <<pc, diff, before>>
    ELSE Idle

\* Mutant: any revision will do.
FreshAlways(path, tag) == TRUE

\* The file has the tag the section names.
Fresh(path, tag) == Tag(base[path]) = tag

\* handle_edit reads the file.  If there is none the call ends; if the tag is
\* another, or a line is out of bounds, this section is left out.
EditRead ==
    /\ pc = "Edit" /\ edit.read = None
    /\ \E path \in {Current.path} :
         IF ~IsFile(base, path) THEN Idle
         ELSE \E section \in {SectionFor(edit.sections, path)} :
              IF ~Fresh(path, Current.tag)
                 \/ Edited(base[path], section.ops).effect = "conflict"
              THEN NextSection
              ELSE /\ edit' = [edit EXCEPT !.read = base[path], !.section = section]
                   /\ touched' = {} /\ UNCHANGED <<pc, diff, before>>
    /\ UNCHANGED <<base, session, calls, changes, faults>>

\* Then it writes another file and renames it, removes the file or moves it
\* away, whatever is where it goes.
CanFinish(path, result) ==
    CASE result.effect = "rewrite" ->
           WellFormed([base EXCEPT ![path] = result.lines]) /\ base[path] # Dir
      [] result.effect = "remove"  -> IsFile(base, path)
      [] result.effect = "move"    -> IsFile(base, path) /\ CanPut(base, result.to)

Finished(path, result) ==
    CASE result.effect = "rewrite" -> [base EXCEPT ![path] = result.lines]
      [] result.effect = "remove"  -> Removed(base, path)
      [] result.effect = "move"    ->
           Put(Removed(base, path), result.to, base[path])

\* For a move the directories are made even if it then fails.
Unfinished(result) ==
    IF result.effect = "move" /\ CanMake(base, Ancestors(result.to))
    THEN Make(base, Ancestors(result.to)) ELSE base

\* An edit that cannot be finished, or that the journal refuses, ends the call.
EditWrite ==
    /\ pc = "Edit" /\ edit.read # None
    /\ \E path \in {Current.path} :
       \E result \in {Edited(edit.read, edit.section.ops)} :
         \/ /\ CanFinish(path, result) /\ base' = Finished(path, result)
            /\ \/ NextSection /\ UNCHANGED faults
               \/ result.effect = "rewrite" /\ Idle /\ Fault
         \/ /\ CanFinish(path, result) => Fault
            /\ ~CanFinish(path, result) => UNCHANGED faults
            /\ base' = Unfinished(result) /\ Idle
    /\ UNCHANGED <<session, calls, changes>>

\* handle_write: the directories above are made, and the file is renamed there.
Write ==
    /\ pc = "Idle" /\ Called
    /\ \E write \in Writes :
         IF CanPut(base, write.path)
         THEN base' = Put(base, write.path, write.content)
         ELSE UNCHANGED base
    /\ UNCHANGED <<session, pc, diff, edit, before, touched, changes, faults>>

-----------------------------------------------------------------------------
(* What goes on around. *)

\* Anybody writes a file, removes one, makes a directory or removes an empty one.
Change ==
    /\ changes < MaxChanges /\ changes' = changes + 1
    /\ \E p \in Paths, what \in Changes :
         /\ what # base[p]
         /\ what # Absent => base[p] = Absent \/ Dir \notin {what, base[p]}
         /\ base[p] = Dir => Below(base, p) = {}
         /\ ~(pc = "Edit" /\ p = Current.path /\ what = Dir)
         /\ base' = [base EXCEPT ![p] = what]
         /\ WellFormed(base')
         /\ touched' = IF pc \in {"Apply", "Edit"} THEN touched \cup {p} ELSE touched
    /\ UNCHANGED <<session, pc, diff, edit, before, calls, faults>>

\* A fork to before the session: the next evaluation will not find it.
Fork ==
    /\ pc = "Idle" /\ session.known /\ Fault
    /\ session' = NoView
    /\ UNCHANGED <<base, pc, diff, edit, before, touched, calls, changes>>

\* The host dies.
Crash ==
    /\ pc # "Idle" /\ Fault
    /\ Broken /\ Idle /\ session' = NoView
    /\ UNCHANGED <<calls, changes>>

Done == pc = "Idle" /\ calls = MaxCalls /\ UNCHANGED vars

Next ==
    \/ StartEval \/ Scan \/ Copy \/ NoSession \/ Evaluate \/ NotEvaluated
    \/ Check \/ MakeDirectory \/ ApplyEntry \/ RemoveDirectory \/ MergeFails
    \/ MergeDone \/ StartEdit \/ EditRead \/ EditWrite \/ Write
    \/ Change \/ Fork \/ Crash \/ Done

Spec == Init /\ [][Next]_vars

-----------------------------------------------------------------------------
(* Properties. *)

\* Types of the variables; what is stored is a tree.
TypeOK ==
    /\ IsTree(base)
    /\ session.alive \in BOOLEAN /\ session.known \in BOOLEAN
    /\ \A tree \in {session.baseline, session.copy, before} \ {None} : IsTree(tree)
    /\ pc \in {"Idle", "Scan", "Copy", "Run", "Merge", "Apply", "Edit"}
    /\ edit.sections \in Seq(Section)
    /\ touched \subseteq Paths
    /\ calls \in 0 .. MaxCalls /\ changes \in 0 .. MaxChanges
    /\ faults \in 0 .. MaxFaults

\* A merge overwrites or removes a file only while it holds what the scan of the
\* allocation found there, and only where the copy holds something else, unless
\* the file changed after the merge checked it.  What others did and undid before
\* the check it cannot tell from nothing: if the copy was taken in between, what
\* it holds of theirs counts as the evaluation's work.
MergeKeepsOthers ==
    [][pc = "Apply" /\ changes' = changes =>
         \A p \in Paths : IsFile(base, p) /\ base'[p] # base[p] =>
           \/ p \in touched
           \/ base[p] = session.baseline[p] /\ session.copy[p] # session.baseline[p]]_vars

\* A merge that is done has brought over all that the copy differs in from what
\* the scan found and nothing else but directories around it, except where others
\* changed a path after the check.
MergedExactly ==
    /\ TypeOK
    /\ pc = "Apply" /\ diff = NoDiff =>
         \A p \in Paths \ touched :
           IF session.copy[p] # session.baseline[p]
           THEN base[p] = session.copy[p]
           ELSE base[p] = before[p] \/ (base[p] = Dir /\ session.copy[p] = Dir)

\* The sections of the patch that target the path name no revision but that of
\* the section at hand.
OneRevision(path) ==
    \A section \in Range(edit.sections) :
      Targets(section, path) => section.tag = Current.tag

\* What an edit replaces, removes or moves away has the tag of the section the
\* request was made for, unless somebody changed it after the host read it.  The
\* operations are those of the first section that targets the path; they were
\* written for that tag too, unless the patch names two revisions of the path.
EditsNamedRevision ==
    [][pc = "Edit" /\ changes' = changes /\ base' # base =>
         \/ Current.path \in touched
         \/ /\ IsFile(base, Current.path)
            /\ Tag(base[Current.path]) = Current.tag
            /\ OneRevision(Current.path) => edit.section.tag = Current.tag]_vars

=============================================================================
