---------------------------- MODULE TaskAttendance ----------------------------
(* Clocking as TaskClock models it implements Attendance: a page's TaskModel  *)
(* object is a copy, and what was counted, or refused by Firestore, was told. *)
EXTENDS TaskClock

Copy == [o \in {p \in Objs : obj[p].use # "free"} |-> obj[o].rec]
Told ==
       {m \in {"late"} : \E j \in Jobs : j \in late \/ <<j, "late">> \in lost}
  \cup {m \in {"early"} : \E j \in Jobs : j \in early \/ <<j, "early">> \in lost}

Abstract == INSTANCE Attendance WITH Holders <- Objs, copy <- Copy, told <- Told

\* Whatever is tapped, dismissed, answered late, refused or killed, the task's
\* document changes only as Attendance lets it: by the roster, by acceptance, or
\* by a whole copy that the time server stamped, out only after in, and with
\* its late or early mark told to the report before it is sent.
KeepsAttendance == Abstract!Spec
=============================================================================
