---------------------------- MODULE MCTaskClock ----------------------------
(* Instances of TaskClock for TLC. *)
EXTENDS TaskAttendance, TLC

\* The pages' objects are interchangeable, and so are the handlers.
Interchangeable == Permutations(Objs) \cup Permutations(Jobs)
=============================================================================
