------------------------ MODULE MCPortAllocatorLoop ------------------------
(* Three requests; ranges of one to three ports, one of them invalid.      *)
EXTENDS PortAllocatorLoop

\* The key order is not the UID order, and 2 and 3 share a name: the sort's
\* tie-break decides between them.
MCNameOf == [u \in {1, 2, 3} |-> IF u = 1 THEN 2 ELSE 1]

\* The largest int32 is 3 here: two of the ranges end there.
MCPortRanges == {[start |-> 1, end |-> 2], [start |-> 1, end |-> 3],
                 [start |-> 2, end |-> 3], [start |-> 2, end |-> 2],
                 [start |-> 2, end |-> 1]}

=============================================================================
