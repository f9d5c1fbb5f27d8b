---------------------------- MODULE MCThreadPool ----------------------------
(* Two submitters, two units of work and one thread for each priority, and  *)
(* a restart, which creates the threads a second time.                      *)
EXTENDS ThreadPool

CONSTANTS s1, s2, h1, h2, l1, l2, t1, t2, t3, t4
=============================================================================
