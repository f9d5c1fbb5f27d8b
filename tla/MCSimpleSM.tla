----------------------------- MODULE MCSimpleSM -----------------------------
(* Two slots, two threads of the pool and two callbacks at a time.          *)
EXTENDS SimpleSM

CONSTANTS sl1, sl2, w1, w2, c1, c2
=============================================================================
