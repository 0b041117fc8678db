--------------------------- MODULE MCManualClock ---------------------------
(* Instances of ManualClock for TLC, and what a comment of the code says. *)
EXTENDS ManualTimeSheet, TLC

\* The handlers are interchangeable.
Interchangeable == Permutations(Jobs)

\* _saveClockInTime says it will "save to server and save the id"
\* (task_manual_view.dart): when no handler is at work, a stored clock-in has
\* its id.  The page that is left between the two writes takes the id with it.
TimeHasId == Idle /\ prefTime # NoTime => prefId # NoRecord
=============================================================================
