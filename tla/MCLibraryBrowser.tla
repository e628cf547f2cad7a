-------------------------- MODULE MCLibraryBrowser --------------------------
EXTENDS LibraryBrowser, TLC

CONSTANTS r1, r2, a, b, upper

MCRoots == {r1, r2}
MCNames == {a, b}
MCNameRank == (a :> 1) @@ (b :> 2)
MCPresent == {<<r1, a>>, <<r1, b>>, <<r2, a>>}
\* Every file and folder, and a second spelling of one file.
MCPaths == (MCRoots \X MCNames) \cup MCRoots \cup {upper}
MCPathKey == [p \in MCPaths |-> IF p = upper THEN <<r1, a>> ELSE p]
MCEarlier == {[shown |-> None, indexed |-> r1], [shown |-> r1, indexed |-> None],
              [shown |-> r1, indexed |-> r1]}

Session(scan, view, edit, change) ==
    [scan |-> scan, view |-> view, edit |-> edit, change |-> change]
MCSessions == {Session(2, 0, 0, 0), Session(1, 1, 0, 0), Session(1, 0, 0, 1),
               Session(1, 0, 1, 0), Session(0, 0, 3, 0)}
=============================================================================
