--------------------------- MODULE AppendOnlyLog ---------------------------
(***************************************************************************)
(* What the journal promises its callers, whatever fails: a log of records *)
(* that only grows, where each record names an earlier one as its parent   *)
(* and a branch keeps its own line, and in which every record the journal  *)
(* has acknowledged has its place.  A record may enter the log without an  *)
(* acknowledgement (the caller was told of an error after the frame had    *)
(* been written), and then stays in it like any other.                     *)
(*                                                                         *)
(* One thing takes records from the log: a repair of a file that could not *)
(* be read to its end.  It sets them aside first, and leaves a beginning   *)
(* of the log.                                                             *)
(***************************************************************************)
EXTENDS Naturals, Sequences

CONSTANTS Main          \* the branch that has no first record

VARIABLES
    log, acked,
    aside,              \* the records that are kept elsewhere
    unread              \* whether a read of the log has failed

\* Entry i of the sequence hangs off an earlier entry; if that entry is on
\* another branch, either i opens its branch (or returns to the root of
\* "main"), so nothing earlier is on it.
WellFormed(seq, i) ==
    LET e == seq[i] IN
    /\ e.offset = i
    /\ e.parent \in 0 .. i - 1
    /\ IF e.parent = 0
       THEN \A k \in 1 .. i - 1 : seq[k].branch # e.branch
       ELSE seq[e.parent].branch # e.branch =>
                \A k \in 1 .. i - 1 : seq[k].branch # e.branch

Init == log = <<>> /\ acked = {} /\ aside = {}

\* Records become permanent; the newest of them may be acknowledged.
Extend ==
    /\ Len(log) <= Len(log')
    /\ SubSeq(log', 1, Len(log)) = log
    /\ \A i \in Len(log) + 1 .. Len(log') : WellFormed(log', i)
    /\ \/ acked' = acked
       \/ log' # log /\ acked' = acked \cup {log'[Len(log')]}

\* A repair after a failed read: the records behind the n-th are elsewhere.
SetAside ==
    /\ unread
    /\ \E n \in 0 .. Len(log) :
          /\ log' = SubSeq(log, 1, n)
          /\ \A i \in n + 1 .. Len(log) : log[i] \in aside
    /\ acked' = acked

\* What is set aside stays there.
Next == (Extend \/ SetAside) /\ aside \subseteq aside'

Spec == Init /\ [][Next]_<<log, acked, aside>>

=============================================================================
