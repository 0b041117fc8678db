------------------------------ MODULE Attendance ------------------------------
(****************************************************************************)
(* What clocking in and out promises of one task, without the screens, the  *)
(* handlers and their awaits: the document changes by the roster, by an     *)
(* acceptance, or by a copy of it that was taken whole, stamped with the    *)
(* server's time and sent whole.  A copy is stamped out only after it was   *)
(* stamped in, and a late or an early mark is sent only after it was told   *)
(* to the organisation's report.  TaskClock implements this.                *)
(****************************************************************************)
EXTENDS Integers

CONSTANTS
  Holders, \* places that may hold a copy
  Finish,  \* finish_date of the task, a number
  Starts,  \* start_date values the roster may give it
  NoTime   \* not clocked yet: no number

VARIABLES
  now,  \* the server's time
  doc,  \* the document
  copy, \* copy[h]: the copy that h holds, for those that hold one
  told  \* marks the report was told of

vars == <<now, doc, copy, told>>

----------------------------------------------------------------------------
Compare(sched, t) ==
  CASE sched < t -> "late" [] sched = t -> "same" [] OTHER -> "early"

StampedIn(r)  == [r EXCEPT !.status = "start", !.at = now, !.inS = Compare(r.start, now)]
StampedOut(r) == [r EXCEPT !.status = "done", !.fin = now, !.outS = Compare(r.finish, now)]

Marks(r) ==      {m \in {"late"} : r.inS = m}
            \cup {m \in {"early"} : r.outS = m}

Fresh(st, s) == [status |-> st, start |-> s, finish |-> Finish, at |-> NoTime,
                 fin |-> NoTime, inS |-> "none", outS |-> "none"]

Nothing == [h \in {} |-> doc]

Init ==
  /\ now = 0 /\ told = {}
  /\ doc \in {Fresh(st, s) : st \in {"new", "confirm"}, s \in Starts}
  /\ copy = Nothing

----------------------------------------------------------------------------
Tick == now' = now + 1 /\ UNCHANGED <<doc, copy, told>>

\* The roster leaves a task alone that was clocked into.
Reschedule ==
  /\ doc.at = NoTime
  /\ \E s \in Starts : doc' = [doc EXCEPT !.start = s]
  /\ UNCHANGED <<now, copy, told>>

Delete ==
  /\ doc.status \in {"new", "confirm"}
  /\ doc' = [doc EXCEPT !.status = "deleted"]
  /\ UNCHANGED <<now, copy, told>>

Accept ==
  /\ doc' = [doc EXCEPT !.status = "confirm"]
  /\ UNCHANGED <<now, copy, told>>

Take(h) ==
  /\ h \notin DOMAIN copy
  /\ copy' = [k \in DOMAIN copy \cup {h} |-> IF k = h THEN doc ELSE copy[k]]
  /\ UNCHANGED <<now, doc, told>>

\* A stamp that is due to the report is told first, whether it counts it or not;
\* one that is not may be sent at once.
Stamp(h, r) ==
  /\ copy' = [copy EXCEPT ![h] = r]
  /\ \/ told' = told \cup Marks(r) /\ UNCHANGED doc
     \/ Marks(r) \subseteq told /\ doc' = r /\ UNCHANGED told
  /\ UNCHANGED now

StampIn(h)  == h \in DOMAIN copy /\ Stamp(h, StampedIn(copy[h]))
StampOut(h) ==
  /\ h \in DOMAIN copy /\ copy[h].at # NoTime
  /\ Stamp(h, StampedOut(copy[h]))

Send(h) ==
  /\ h \in DOMAIN copy /\ Marks(copy[h]) \subseteq told
  /\ doc' = copy[h]
  /\ UNCHANGED <<now, copy, told>>

ForgetAll ==
  /\ copy' = Nothing
  /\ UNCHANGED <<now, doc, told>>

Next ==
  \/ Tick \/ Reschedule \/ Delete \/ Accept \/ ForgetAll
  \/ \E h \in Holders : Take(h) \/ StampIn(h) \/ StampOut(h) \/ Send(h)

Spec == Init /\ [][Next]_vars
=============================================================================
