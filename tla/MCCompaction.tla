---------------------------- MODULE MCCompaction ----------------------------
(* A transcript of a few elements against windows that it fills at once.    *)
EXTENDS Compaction

=============================================================================
