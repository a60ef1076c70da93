------------------------------- MODULE MCDev -------------------------------
EXTENDS Dev
\* Two readers; one reader and all of the line editing; two writers; a writer
\* beside echoes; two sleepers; a reader and a writer that may be killed.
Readers == [calls |-> [p1 |-> {"read"}, p2 |-> {"read"}], keys |-> {"x", "D"}, kill |-> {}, n |-> {2}]
Editor == [calls |-> [p1 |-> {"read"}, p2 |-> {}], keys |-> {"x", "nl", "D", "U", "H"}, kill |-> {}, n |-> {1, 2}]
Writers == [calls |-> [p1 |-> {"write"}, p2 |-> {"write"}], keys |-> {}, kill |-> {}, n |-> {1, 2}]
Echoes == [calls |-> [p1 |-> {"write"}, p2 |-> {}], keys |-> {"x", "H"}, kill |-> {}, n |-> {1}]
Sleepers == [calls |-> [p1 |-> {"sleep"}, p2 |-> {"sleep"}], keys |-> {}, kill |-> {"p1"}, n |-> {1, 2}]
Victims == [calls |-> [p1 |-> {"read"}, p2 |-> {"write"}], keys |-> {}, kill |-> {"p1", "p2"}, n |-> {2}]
MCWorkloads == {Readers, Editor, Writers, Echoes, Sleepers, Victims}
=============================================================================
