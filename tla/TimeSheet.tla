------------------------------ MODULE TimeSheet ------------------------------
(****************************************************************************)
(* What the manual time clock promises of an employee's attendance records, *)
(* without the page, its sheets, its handlers and their awaits: an entry    *)
(* comes once, with its clock-in, which is never changed; a clock-out is a  *)
(* slip on which the entry noted by then and the time are written together; *)
(* and a slip that arrives fills in the clock-out of that entry and nothing *)
(* else.  Slips may be lost, and may arrive in any order.  ManualClock      *)
(* implements this.                                                         *)
(****************************************************************************)
EXTENDS Integers

CONSTANTS
  Ids,      \* names of entries, and of those who clock
  NoRecord, \* no entry is noted
  NoTime    \* not clocked out: no number

VARIABLES
  now,    \* the phone's clock
  sheet,  \* sheet[i]: the entry i, for those that there are
  noted,  \* the entry that the phone has noted
  slips   \* slips[h]: the clock-out that h is sending, for those who do

vars == <<now, sheet, noted, slips>>

----------------------------------------------------------------------------
Empty == [i \in {} |-> NoTime]

Init == now = 0 /\ sheet = Empty /\ noted = NoRecord /\ slips = Empty

Tick == now' = now + 1 /\ UNCHANGED <<sheet, noted, slips>>

\* A clock-in may reach the sheet later than its time.
Enter(i) ==
  /\ i \notin DOMAIN sheet
  /\ \E t \in 0 .. now :
       sheet' = [k \in DOMAIN sheet \cup {i} |->
                   IF k = i THEN [in |-> t, out |-> NoTime] ELSE sheet[k]]
  /\ UNCHANGED <<now, noted, slips>>

Note(i) ==
  /\ i \in DOMAIN sheet
  /\ noted' = i
  /\ UNCHANGED <<now, sheet, slips>>

Forget == noted' = NoRecord /\ UNCHANGED <<now, sheet, slips>>

Write(h) ==
  /\ h \notin DOMAIN slips /\ noted \in DOMAIN sheet
  /\ slips' = [k \in DOMAIN slips \cup {h} |->
                 IF k = h THEN [id |-> noted, t |-> now] ELSE slips[k]]
  /\ UNCHANGED <<now, sheet, noted>>

Without(hs) == [k \in DOMAIN slips \ hs |-> slips[k]]

HandIn(h) ==
  /\ h \in DOMAIN slips
  /\ sheet' = [sheet EXCEPT ![slips[h].id].out = slips[h].t]
  /\ slips' = Without({h})
  /\ UNCHANGED <<now, noted>>

Tear(hs) == slips' = Without(hs) /\ UNCHANGED <<now, sheet, noted>>

Next ==
  \/ Tick \/ Forget
  \/ \E i \in Ids : Enter(i) \/ Note(i) \/ Write(i) \/ HandIn(i)
  \/ \E hs \in SUBSET Ids : Tear(hs)

Spec == Init /\ [][Next]_vars
=============================================================================
