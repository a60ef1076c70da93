------------------------------- MODULE MCDir -------------------------------
EXTENDS Dir
Rel(s) == [abs |-> FALSE, elems |-> s]
MCPaths == {[abs |-> TRUE, elems |-> <<>>], Rel(<<"a">>), Rel(<<"a", "b">>), Rel(<<"a", "..">>), Rel(<<"..", "b">>)}
MCNewPaths == {Rel(<<"..", "b">>)}
MCOps == [p1 |-> {"mkdir", "mknod", "chdir", "link", "unlink"},
          p2 |-> {"mkdir", "creat", "open", "unlink"}]
=============================================================================
