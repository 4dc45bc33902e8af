---------------------------- MODULE MCTaskResume ----------------------------
(***************************************************************************)
(* A small instance of TaskResume.  Two requests are enough for a claim to *)
(* be raced, two turns for a task to wait again.  Two tasks in a store of  *)
(* one make every registration drop a record, the older one: it may be the *)
(* claimed one or, when its time stamp was drawn early, the new one.       *)
(***************************************************************************)
EXTENDS TaskResume

CONSTANTS t1, t2, r1, r2
=============================================================================
