------------------------------- MODULE MCJobs -------------------------------
(* Bounds for TLC: two jobs, the first of which writes.                     *)
EXTENDS Jobs

CONSTANT MaxOutput

TwoJobs == {1, 2}
FirstWrites == [j \in Jobs |-> IF j = 1 THEN MaxOutput ELSE 0]

=============================================================================
