\* A session of two evaluations, or other calls, with two changes by others.
SPECIFICATION Spec
CONSTANTS
    None = None
    Absent = Absent
    Dir = Dir
    Paths <- MCPaths
    PathOrder <- MCPathOrder
    Trees <- MCTrees
    Changes <- MCChanges
    Results <- MCResults
    Patches <- MCPatches
    Writes <- MCWrites
    Tag <- MCTag
    MaxCalls = 2
    MaxChanges = 2
    MaxFaults = 1
INVARIANTS
    MergedExactly
PROPERTIES
    MergeKeepsOthers
    EditsNamedRevision
