------------------------------ MODULE MCSched ------------------------------
(* Model-checking instance of Sched: four threads, and objects for all of  *)
(* them or, when spawns fail, for fewer.                                   *)
EXTENDS Sched

CONSTANTS t1, t2, t3, t4

MCThreads    == {t1, t2, t3, t4}
MCStaleBytes == {0, 1}
MCMaxObjects == 22
=============================================================================
