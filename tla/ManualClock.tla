----------------------------- MODULE ManualClock -----------------------------
(****************************************************************************)
(* The manual time clock: TaskManualView with its confirmation sheet, the   *)
(* provider behind it, the attendance records in Appwrite and the two       *)
(* preferences that survive the app, clockInTime and clockInId.             *)
(*                                                                          *)
(* A handler is the onConfirm of one tap on the sheet's Confirm button,     *)
(* from the tap on, cut at its awaits.  It belongs to the page (the State   *)
(* object) it was started from, and the page may be left meanwhile: no      *)
(* overlay covers it.  A record is named by the handler that created it.    *)
(* Preferences change in memory when a write is issued; the answers of the  *)
(* platform may come in any order.                                          *)
(****************************************************************************)
EXTENDS Integers, FiniteSets

CONSTANTS
  Jobs,      \* handlers (each is used once)
  NoRecord,  \* the preference clockInId is not set
  MaxTime,   \* bound of the clock
  AtOnce,    \* bound on handlers in flight at a time
  MaxLost,   \* bound on the answers that are lost after their effect
  MaxLeaves  \* bound on the times the page is left or the app is killed

ASSUME IdAssumption == NoRecord \notin Jobs
ASSUME BoundsAssumption ==
  /\ MaxTime \in Nat /\ AtOnce \in Nat \ {0}
  /\ MaxLost \in Nat /\ MaxLeaves \in Nat

VARIABLES
  now,       \* the phone's clock
  rec,       \* rec[j]: the record handler j created in Appwrite
  prefTime,  \* the preference clockInTime ...
  prefId,    \* ... and the preference clockInId
  open,      \* the page is on the screen
  pageTime,  \* its _clockInTime
  loading,   \* the provider's isLoading: the page is a spinner
  opens,     \* fetches of the history that pages began when they were opened
  sheet,     \* the confirmation sheet on the screen, by its action
  job,       \* job[j]: a handler
  lost,      \* answers lost so far
  leaves,    \* times the page was left or the app killed so far
  disturbed  \* a handler met another one, a closed page, a kill or a lost answer

prefs == <<prefTime, prefId>>
page  == <<open, pageTime, sheet>>
vars  == <<now, rec, prefs, page, loading, opens, job, lost, leaves, disturbed>>

----------------------------------------------------------------------------
NoTime == -1
Times  == Nat \cup {NoTime}
Ids    == Jobs \cup {NoRecord}
Acts   == {"in", "out"}
Pcs    == {"idle", "area", "upload", "create", "created", "saved", "named",
           "update", "updated", "fetch", "removed", "cleared", "refused",
           "done", "dead"}
Record  == [made: BOOLEAN, in: Times, out: Times]
\* under: the sheet that was tapped is still up; alive: its page is mounted.
Handler == [pc: Pcs, act: Acts, id: Ids, t: Times, under: BOOLEAN, alive: BOOLEAN]

Init ==
  /\ now = 0
  /\ rec = [j \in Jobs |-> [made |-> FALSE, in |-> NoTime, out |-> NoTime]]
  /\ prefTime = NoTime /\ prefId = NoRecord
  /\ open = FALSE /\ pageTime = NoTime /\ loading = FALSE /\ opens = 0
  /\ sheet = "none"
  /\ job = [j \in Jobs |-> [pc |-> "idle", act |-> "in", id |-> NoRecord,
                            t |-> NoTime, under |-> FALSE, alive |-> FALSE]]
  /\ lost = 0 /\ leaves = 0 /\ disturbed = FALSE

----------------------------------------------------------------------------
(* The page and its sheet.                                                  *)

Active(j) == job[j].pc \notin {"idle", "done", "dead"}
Idle      == \A j \in Jobs : ~Active(j)
Room      == Cardinality({j \in Jobs : Active(j)}) < AtOnce

\* The phone's own clock, by which both times of a record are taken; it is
\* assumed not to be put back.
Tick ==
  /\ now < MaxTime /\ now' = now + 1
  /\ UNCHANGED <<rec, prefs, page, loading, opens, job, lost, leaves, disturbed>>

\* The tab is entered: an empty page that fetches the history.
OpenPage ==
  /\ ~open /\ opens <= MaxLeaves
  /\ open' = TRUE /\ pageTime' = NoTime
  /\ loading' = TRUE /\ opens' = opens + 1
  /\ UNCHANGED <<now, rec, prefs, sheet, job, lost, leaves, disturbed>>

\* A mutant: a fetch that nobody began ends.
OpenFetchedUnasked ==
  /\ open
  /\ opens' = opens - 1 /\ loading' = FALSE
  /\ UNCHANGED <<now, rec, prefs, page, job, lost, leaves, disturbed>>

\* fetchTaskData ends, well or not: one flag for all of them.
OpenFetched ==
  /\ opens > 0
  /\ opens' = opens - 1 /\ loading' = FALSE
  /\ UNCHANGED <<now, rec, prefs, page, job, lost, leaves, disturbed>>

\* updateState, when the page is opened and when what it depends on changes.
UpdateState ==
  /\ open
  /\ pageTime' = prefTime
  /\ UNCHANGED <<now, rec, prefs, open, sheet, loading, opens, job, lost, leaves, disturbed>>

\* The page is disposed; its handlers go on without it.
Orphaned(jobs) == [j \in Jobs |-> [jobs[j] EXCEPT !.alive = FALSE, !.under = FALSE]]

\* Another tab is opened: nothing but a sheet keeps the user from it.
LeavePage ==
  /\ open /\ sheet = "none" /\ leaves < MaxLeaves
  /\ open' = FALSE /\ pageTime' = NoTime
  /\ job' = Orphaned(job)
  /\ leaves' = leaves + 1
  /\ disturbed' = (disturbed \/ ~Idle)
  /\ UNCHANGED <<now, rec, prefs, loading, opens, sheet, lost>>

\* The app is killed: records and preferences stay.
Crash ==
  /\ leaves < MaxLeaves
  /\ open' = FALSE /\ pageTime' = NoTime /\ sheet' = "none"
  /\ loading' = FALSE /\ opens' = 0
  /\ job' = [j \in Jobs |-> IF Active(j) THEN [Orphaned(job)[j] EXCEPT !.pc = "dead"]
                            ELSE Orphaned(job)[j]]
  /\ leaves' = leaves + 1
  /\ disturbed' = (disturbed \/ ~Idle)
  /\ UNCHANGED <<now, rec, prefs, lost>>

\* The clock-in button is always there, the clock-out button by _clockInTime.
OpenSheet(a) ==
  /\ open /\ ~loading /\ sheet = "none"
  /\ a = "out" => pageTime # NoTime
  /\ sheet' = a
  /\ UNCHANGED <<now, rec, prefs, open, pageTime, loading, opens, job, lost, leaves, disturbed>>

SheetGone(jobs) == [j \in Jobs |-> [jobs[j] EXCEPT !.under = FALSE]]

\* Cancel, drag or back.
Dismiss ==
  /\ sheet # "none"
  /\ sheet' = "none" /\ job' = SheetGone(job)
  /\ UNCHANGED <<now, rec, prefs, open, pageTime, loading, opens, lost, leaves, disturbed>>

\* Confirm, with a position and a photo; the button stays enabled while the
\* name of the area is asked for.
TapConfirm(j) ==
  /\ job[j].pc = "idle" /\ Room /\ sheet # "none"
  /\ job' = [job EXCEPT ![j] = [pc |-> "area", act |-> sheet, id |-> NoRecord,
                                t |-> NoTime, under |-> TRUE, alive |-> TRUE]]
  /\ disturbed' = (disturbed \/ ~Idle)
  /\ UNCHANGED <<now, rec, prefs, page, loading, opens, lost, leaves>>

----------------------------------------------------------------------------
(* The handlers, cut at their awaits.                                       *)

Goto(j, pc) == job' = [job EXCEPT ![j].pc = pc]
\* setState, a dialog or a provider lookup on a page that is gone throws.
OnPage(j, pc) == Goto(j, IF job[j].alive THEN pc ELSE "dead")

\* getAreaName answers: the sheet is popped and onConfirm starts.  If the sheet
\* was popped before, its context is dead, or, while it still moves out, the pop
\* takes what is below: another sheet or the page itself.
AreaNamed(j) ==
  /\ job[j].pc = "area"
  /\ LET started == [job EXCEPT ![j].pc = "upload"] IN
     \/ /\ job[j].under
        /\ sheet' = "none" /\ job' = SheetGone(started)
        /\ UNCHANGED <<open, pageTime, disturbed>>
     \/ /\ ~job[j].under
        /\ Goto(j, "dead")
        /\ UNCHANGED <<page, disturbed>>
     \/ /\ ~job[j].under /\ sheet # "none"
        /\ sheet' = "none" /\ job' = SheetGone(started)
        /\ UNCHANGED <<open, pageTime, disturbed>>
     \/ /\ ~job[j].under /\ sheet = "none" /\ open
        /\ open' = FALSE /\ pageTime' = NoTime
        /\ job' = Orphaned(started)
        /\ disturbed' = TRUE
        /\ UNCHANGED sheet
  /\ UNCHANGED <<now, rec, prefs, loading, opens, lost, leaves>>

\* A mutant: a clock-out sends the stored clockInTime, which it reads as well.
UploadedStoredTime(j) ==
  /\ job[j].pc = "upload"
  /\ \/ /\ job[j].act = "in"
        /\ job' = [job EXCEPT ![j].pc = IF job[j].alive THEN "create" ELSE "dead",
                              ![j].t = now]
     \/ /\ job[j].act = "out"
        /\ job' = [job EXCEPT ![j].pc = IF job[j].alive /\ prefId # NoRecord
                                        THEN "update" ELSE "dead",
                              ![j].t = prefTime, ![j].id = prefId]
  /\ UNCHANGED <<now, rec, prefs, page, loading, opens, lost, leaves, disturbed>>

\* The photos are uploaded, or their failures swallowed: a clock-in takes the
\* time and sends a record, a clock-out takes the stored id as well.
Uploaded(j) ==
  /\ job[j].pc = "upload"
  /\ \/ /\ job[j].act = "in"
        /\ job' = [job EXCEPT ![j].pc = IF job[j].alive THEN "create" ELSE "dead",
                              ![j].t = now]
     \/ /\ job[j].act = "out"
        /\ job' = [job EXCEPT ![j].pc = IF job[j].alive /\ prefId # NoRecord
                                        THEN "update" ELSE "dead",
                              ![j].t = now, ![j].id = prefId]
  /\ UNCHANGED <<now, rec, prefs, page, loading, opens, lost, leaves, disturbed>>

LoseAnswer == lost < MaxLost /\ lost' = lost + 1 /\ disturbed' = TRUE

\* Appwrite: the request is refused, done, or done without an answer.
Served(j, request, answered) ==
  \/ Goto(j, "refused") /\ UNCHANGED <<rec, lost, disturbed>>
  \/ rec' = request /\ Goto(j, answered) /\ UNCHANGED <<lost, disturbed>>
  \/ rec' = request /\ Goto(j, "refused") /\ LoseAnswer

CreateServed(j) ==
  /\ job[j].pc = "create"
  /\ Served(j, [rec EXCEPT ![j] = [made |-> TRUE, in |-> job[j].t, out |-> NoTime]],
            "created")
  /\ UNCHANGED <<now, prefs, page, loading, opens, leaves>>

\* A mutant: the clock-out sends the whole record, with the stored clockInTime.
UpdateServedWhole(j) ==
  /\ job[j].pc = "update"
  /\ Served(j, [rec EXCEPT ![job[j].id] = [made |-> TRUE, in |-> prefTime, out |-> job[j].t]],
            "updated")
  /\ UNCHANGED <<now, prefs, page, loading, opens, leaves>>

UpdateServed(j) ==
  /\ job[j].pc = "update"
  /\ Served(j, [rec EXCEPT ![job[j].id].out = job[j].t], "updated")
  /\ UNCHANGED <<now, prefs, page, loading, opens, leaves>>

\* A null answer: only a dialog.
Refused(j) ==
  /\ job[j].pc = "refused" /\ OnPage(j, "done")
  /\ UNCHANGED <<now, rec, prefs, page, loading, opens, lost, leaves, disturbed>>

\* The new record's time is stored ...
SaveTime(j) ==
  /\ job[j].pc = "created"
  /\ prefTime' = job[j].t /\ Goto(j, "saved")
  /\ UNCHANGED <<now, rec, prefId, page, loading, opens, lost, leaves, disturbed>>

\* A mutant: an id that is stored already is kept.
SaveIdOnce(j) ==
  /\ job[j].pc = "saved" /\ OnPage(j, "named")
  /\ pageTime' = IF job[j].alive THEN job[j].t ELSE pageTime
  /\ prefId' = IF job[j].alive /\ prefId = NoRecord THEN j ELSE prefId
  /\ UNCHANGED <<now, rec, prefTime, open, sheet, loading, opens, lost, leaves, disturbed>>

\* ... and shown, and only then its id is stored ...
SaveId(j) ==
  /\ job[j].pc = "saved" /\ OnPage(j, "named")
  /\ pageTime' = IF job[j].alive THEN job[j].t ELSE pageTime
  /\ prefId' = IF job[j].alive THEN j ELSE prefId
  /\ UNCHANGED <<now, rec, prefTime, open, sheet, loading, opens, lost, leaves, disturbed>>

\* ... and the user is told.
ClockedIn(j) ==
  /\ job[j].pc = "named" /\ OnPage(j, "done")
  /\ UNCHANGED <<now, rec, prefs, page, loading, opens, lost, leaves, disturbed>>

\* An accepted clock-out fetches the history, under a spinner ...
FetchHistory(j) ==
  /\ job[j].pc = "updated"
  /\ loading' = TRUE /\ Goto(j, "fetch")
  /\ UNCHANGED <<now, rec, prefs, page, opens, lost, leaves, disturbed>>

\* ... and clears the preferences, whatever they hold by then ...
RemoveTime(j) ==
  /\ job[j].pc = "fetch"
  /\ loading' = FALSE /\ prefTime' = NoTime /\ Goto(j, "removed")
  /\ UNCHANGED <<now, rec, prefId, page, opens, lost, leaves, disturbed>>

RemoveId(j) ==
  /\ job[j].pc = "removed"
  /\ prefId' = NoRecord /\ Goto(j, "cleared")
  /\ UNCHANGED <<now, rec, prefTime, page, loading, opens, lost, leaves, disturbed>>

\* ... and the page.
ClockedOut(j) ==
  /\ job[j].pc = "cleared" /\ OnPage(j, "done")
  /\ pageTime' = IF job[j].alive THEN NoTime ELSE pageTime
  /\ UNCHANGED <<now, rec, prefs, open, sheet, loading, opens, lost, leaves, disturbed>>

Reply(j) ==
  \/ AreaNamed(j) \/ Uploaded(j) \/ CreateServed(j) \/ UpdateServed(j) \/ Refused(j)
  \/ SaveTime(j) \/ SaveId(j) \/ ClockedIn(j)
  \/ FetchHistory(j) \/ RemoveTime(j) \/ RemoveId(j) \/ ClockedOut(j)

Next ==
  \/ Tick \/ OpenPage \/ OpenFetched \/ UpdateState \/ LeavePage \/ Crash \/ Dismiss
  \/ \E a \in Acts : OpenSheet(a)
  \/ \E j \in Jobs : TapConfirm(j) \/ Reply(j)

Spec == Init /\ [][Next]_vars

----------------------------------------------------------------------------
(* Properties.                                                              *)

\* Every variable keeps its type.
TypeOK ==
  /\ now \in Nat /\ rec \in [Jobs -> Record]
  /\ prefTime \in Times /\ prefId \in Ids
  /\ open \in BOOLEAN /\ pageTime \in Times /\ loading \in BOOLEAN /\ opens \in Nat
  /\ sheet \in Acts \cup {"none"} /\ job \in [Jobs -> Handler]
  /\ lost \in Nat /\ leaves \in Nat /\ disturbed \in BOOLEAN

\* A record is clocked out only after it was clocked in, at a time not before
\* it: a clock-out sends its own time under whatever id the preferences hold
\* when the photos are up, and overlapping clock-ins, pages left and kills
\* never make that the id of a record that is not there or is younger.
OutAfterIn ==
  \A r \in Jobs : rec[r].out # NoTime => rec[r].made /\ rec[r].in <= rec[r].out

\* Why it stays so: an id is known only once its record was made.
IdsAreMade ==
  /\ prefId # NoRecord => rec[prefId].made
  /\ \A j \in Jobs : job[j].pc \in {"created", "saved"} => rec[j].made
  /\ \A j \in Jobs : job[j].pc = "update" => job[j].id # NoRecord
                                             /\ rec[job[j].id].made
                                             /\ rec[job[j].id].in <= job[j].t
TimesPassed ==
  /\ \A r \in Jobs : rec[r].made => rec[r].in <= now
  /\ \A j \in Jobs : job[j].t <= now
\* A handler that has yet to send its record has made none.
NotYetMade ==
  \A j \in Jobs : job[j].pc \in {"idle", "area", "upload", "create"} => ~rec[j].made

\* The time of a clock-in is taken before its record is sent.
TimesTaken ==
  \A j \in Jobs : /\ job[j].pc = "create" => job[j].t # NoTime
                  /\ rec[j].made => rec[j].in # NoTime

\* The two preferences are set together, name one record by its own time, which
\* is not clocked out, and the page shows nothing else.
Books ==
  /\ prefTime = NoTime <=> prefId = NoRecord
  /\ prefId # NoRecord => /\ rec[prefId].made /\ rec[prefId].in = prefTime
                          /\ rec[prefId].out = NoTime
  /\ pageTime \in {NoTime, prefTime}

\* Why they match between two uses: one handler at a time, on its own page,
\* leaves the books alone but for the few steps in which it writes them.
Alone ==
  /\ \A i, j \in Jobs : Active(i) /\ Active(j) => i = j
  /\ \A j \in Jobs : Active(j) => job[j].alive
Writing == {"saved", "updated", "fetch", "removed", "cleared"}
Phase(j) ==
  /\ job[j].pc \in {"created", "saved"} =>
       rec[j] = [made |-> TRUE, in |-> job[j].t, out |-> NoTime] /\ job[j].t # NoTime
  /\ job[j].pc = "create" => job[j].t # NoTime
  /\ job[j].pc = "saved" => prefTime = job[j].t
  /\ job[j].pc = "update" => job[j].id = prefId
  /\ job[j].pc \in {"removed", "cleared"} => prefTime = NoTime
  /\ job[j].pc = "cleared" => prefId = NoRecord
BooksInHand ==
  ~disturbed => /\ Alone
                /\ \A j \in Jobs : Phase(j)
                /\ (\A j \in Jobs : job[j].pc \notin Writing) => Books

\* Used one tap at a time, on an open page, with every answer received, the
\* clock keeps its books: a stored clock-in is the open record the next
\* clock-out will finish.  Neither a refused request, a retry, a second clock-in
\* nor leaving the page between two uses breaks this.
BooksMatch == ~disturbed /\ Idle => Books
=============================================================================
