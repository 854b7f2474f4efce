---------------------------- MODULE MCTaskQueue -----------------------------
(* Model-checking instance of TaskQueue: two producers that submit twice   *)
(* each over two task objects, so that the pool runs dry and objects are   *)
(* used again.                                                             *)
EXTENDS TaskQueue, TLC

ThreadsAndSlots == Permutations(Producers) \cup Permutations(Slots)
=============================================================================
