---------------------------- MODULE MCWorkspace ----------------------------
EXTENDS Workspace

D == <<"d">>
DX == <<"d", "x">>
X == <<"x">>
MCPathOrder == <<D, DX, X>>
MCPaths == {D, DX, X}

A == <<"a">>
B == <<"b">>

Made(d, dx, x) ==
    [p \in MCPaths |-> CASE p = D -> d [] p = DX -> dx [] p = X -> x]
MCTrees == {Made(Dir, A, Absent), Made(Dir, Absent, B), Made(Dir, A, A)}
MCChanges == {A, B, Absent, Dir}

\* Whatever an evaluation may do with two paths.
MCResults(copy) ==
    {tree \in [MCPaths -> {A, B, Absent, Dir}] :
       WellFormed(tree) /\ Cardinality({p \in MCPaths : tree[p] # copy[p]}) <= 2}

\* The tag is the file's first line.
MCTag(lines) == IF lines = <<>> THEN 0 ELSE IF lines[1] = "a" THEN 1 ELSE 2

SectionLine(path, tag) == [kind |-> "section", path |-> path, tag |-> tag]
OpLine(name, first, last) ==
    [kind |-> "op", op |-> [name |-> name, first |-> first, last |-> last,
                            body |-> <<>>, to |-> None]]
MoveLine(to) ==
    [kind |-> "op", op |-> [name |-> "MoveFile", first |-> 0, last |-> 0,
                            body |-> <<>>, to |-> to]]
Body(text) == [kind |-> "body", text |-> text]
Blank == [kind |-> "blank"]
Other == [kind |-> "other"]
Malformed == [kind |-> "malformed"]

\* Every operation, every way a patch is malformed or in conflict, and sections
\* that name two revisions of a path, with one spelling of it and with two.
MCPatches ==
    {<<SectionLine(X, 1), OpLine("PutRange", 1, 3), Body("b"), Blank,
       OpLine("InsertAfter", 1, 1), Body(""), Body("a")>>,
     <<SectionLine(DX, 1), OpLine("PutBlock", 1, 1), Body("a"), Body("b"),
       OpLine("InsertBefore", 2, 2), Body(""), OpLine("CutBlock", 3, 3)>>,
     <<SectionLine(X, 2), Other, OpLine("CutRange", 2, 2), OpLine("CutRange", 2, 2)>>,
     <<SectionLine(DX, 1), MoveLine(X), SectionLine(X, 1), OpLine("RemoveFile", 0, 0)>>,
     <<SectionLine(X, 1), MoveLine(DX)>>,
     <<SectionLine(X, 1), OpLine("RemoveFile", 0, 0),
       SectionLine(X, 2), OpLine("CutRange", 1, 1)>>,
     <<SectionLine(X, 2), OpLine("InsertBefore", 1, 1), Body("b"),
       SectionLine(DX, 1), OpLine("CutRange", 1, 1)>>,
     <<SectionLine(X, 1), OpLine("RemoveFile", 0, 0), Body("a")>>,
     <<SectionLine(X, 1), Malformed>>,
     <<Blank, OpLine("RemoveFile", 0, 0)>>,
     <<Blank>>}
MCWrites == {[path |-> DX, content |-> B], [path |-> X, content |-> A]}

=============================================================================
