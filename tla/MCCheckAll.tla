----------------------------- MODULE MCCheckAll -----------------------------
(* CheckAll on a small instance: the parallel driver with as many threads   *)
(* as declarations less one and, for a configuration of one thread, the     *)
(* serial driver.                                                           *)
EXTENDS CheckAll

\* The configuration of the same file with one thread.
One == INSTANCE CheckAll WITH NumThreads <- 1

\* Either configuration; it decides nothing but the choice of the driver.
MCMain == Main \/ One!ChooseDriver

MCSpec == /\ Init
          /\ [][MCMain \/ (\E t \in Threads : Worker(t)) \/ Done]_vars
          /\ WF_vars(MCMain) /\ \A t \in Threads : WF_vars(Worker(t))
=============================================================================
