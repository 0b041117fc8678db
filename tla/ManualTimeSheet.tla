--------------------------- MODULE ManualTimeSheet ---------------------------
(* The manual clock as ManualClock models it implements TimeSheet: the entries *)
(* are Appwrite's records, the noted one is the preference clockInId, and a    *)
(* slip is a handler whose clock-out is on its way.                            *)
EXTENDS ManualClock

Entries == [r \in {j \in Jobs : rec[j].made} |-> [in |-> rec[r].in, out |-> rec[r].out]]
Slips == [h \in {j \in Jobs : job[j].pc = "update"} |-> [id |-> job[h].id, t |-> job[h].t]]

Abstract == INSTANCE TimeSheet WITH Ids <- Jobs, sheet <- Entries, noted <- prefId,
                                    slips <- Slips

\* Whatever is tapped twice, left, killed, refused or answered without an answer,
\* the records change only as TimeSheet lets them: a clock-in is never rewritten
\* or lost, and a clock-out puts the time at which the stored id was read into
\* that very record, however late it arrives and whatever the preferences name
\* by then.
KeepsTimeSheet == Abstract!Spec
=============================================================================
