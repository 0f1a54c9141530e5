---------------------------- MODULE MCTranscript ----------------------------
(* Bounds for TLC.                                                          *)
EXTENDS Transcript

CONSTANTS x, y

\* A block grows to three lines, of which two are equal, or changes its only one.
MCSnapshots == {<<>>, <<x>>, <<y>>, <<x, y>>, <<x, y, x>>}

IdSymmetry == Permutations(Ids)

=============================================================================
