------------------------- MODULE MCRequestScheduler -------------------------
\* RequestScheduler for TLC: two handles of one file, and one of another.
EXTENDS RequestScheduler

CONSTANTS c1, c2, h1, h2, h3, Nothing

MCFileOf == [h \in Handles |-> IF h = h3 THEN "g" ELSE "f"]

Seg(st, size) == [st |-> st, size |-> size]

\* Writes: two segments with a hole between them, and one that touches the
\* first and partly overlaps the second.  Reads: one strictly inside the other.
MCWrites == {<<Seg(0, 1), Seg(4, 0), Seg(2, 2)>>, <<Seg(1, 2)>>}
MCReads == {<<Seg(0, 3)>>, <<Seg(1, 1)>>}
=============================================================================
