------------------------------ MODULE TaskClock ------------------------------
(****************************************************************************)
(* Clocking in and out of a scheduled task: TodayTaskController, the two    *)
(* pages that call it (TodayTaskView, TasksDetailView) and the documents    *)
(* they write: one task, its newsfeeds and the organisation's status report.*)
(*                                                                          *)
(* Dart runs one handler at a time and lets another one in only at an       *)
(* await, so a handler is a job that is cut at its awaits.  A job works on  *)
(* the TaskModel object that its page captured, and the object is shared by *)
(* all the jobs confirmed from that page.                                   *)
(*                                                                          *)
(* A Firestore write takes effect when it is issued and is answered later:  *)
(* the SDK applies it to its own view at once and sends the writes of one   *)
(* phone in the order they were issued.  It may be rejected.                *)
(****************************************************************************)
EXTENDS Integers, Sequences, FiniteSets

CONSTANTS
  Objs,        \* TaskModel objects a page may capture
  Jobs,        \* handler activations (each is used once)
  FirstStatus, \* statuses the roster may create the task with
  Starts,      \* start_date values the roster may give the task
  Finish,      \* finish_date of the task
  MaxTime,     \* bound of the clock
  Hour,        \* ticks in an hour
  Day,         \* ticks in a day
  BeforeOut,   \* settings.before_clock_out_hour
  AtOnce,      \* bound on confirmed handlers in flight at a time
  MaxTaps,     \* bound on sheets one page is opening at a time, per button
  MaxCrashes,  \* bound on the times the app is killed
  MaxRejects,  \* bound on the writes Firestore rejects
  AndroidBack  \* the phone has a back button, which pops dialogs

ASSUME TimesAssumption ==
  /\ MaxTime \in Nat /\ Finish \in Nat /\ Starts \subseteq Nat
  /\ Hour \in Nat \ {0} /\ Day \in Nat \ {0} /\ BeforeOut \in Nat
ASSUME RosterAssumption == FirstStatus \subseteq {"new", "confirm"}
ASSUME BoundsAssumption ==
  /\ AtOnce \in Nat \ {0} /\ MaxTaps \in Nat \ {0} /\ MaxCrashes \in Nat /\ MaxRejects \in Nat
  /\ AndroidBack \in BOOLEAN

VARIABLES
  now,       \* server time (NTP)
  shown,     \* con.now: the time the today page decides with
  doc,       \* the task document
  obj,       \* obj[o]: a captured TaskModel, the page that holds it, and the
             \* sheets it is opening: before and after the position came
  job,       \* job[j]: a confirm or accept handler
  tab,       \* the tab below all routes
  routes,    \* the navigator's stack above the tabs, last on top
  busy,      \* con.onClockInOrClockOutPress
  crashes,   \* times the app was killed
  wrote,     \* jobs whose task update was accepted
  late,      \* jobs that increased the report's late_start ...
  early,     \* ... its early_finish ...
  completed, \* ... and its completed counter
  lost,      \* <<job, write>> pairs: the writes that were rejected
  feeds,     \* jobs whose newsfeed was created
  notified   \* accept jobs whose notification to the controller was created

ledger == <<wrote, late, early, completed, lost, feeds, notified>>
screen == <<tab, routes>>
vars == <<now, shown, doc, obj, job, screen, busy, crashes, ledger>>

----------------------------------------------------------------------------
NoTime == -1
Times  == Nat \cup {NoTime}

Status == {"new", "confirm", "start", "done", "deleted"}
Clock  == {"none", "late", "same", "early"}
Acts   == {"in", "out"}
Writes == {"update", "late", "early", "completed", "feed", "notification"}

Record == [status: Status, start: Nat, finish: Nat, at: Times, fin: Times,
           inS: Clock, outS: Clock]

\* DateTime.compareTo of a scheduled time and the server's time.
Compare(sched, t) ==
  CASE sched < t -> "late" [] sched = t -> "same" [] OTHER -> "early"

Route ==      [k: {"detail"}, o: Objs]
         \cup [k: {"sheet"}, o: Objs, act: Acts]
         \cup [k: {"ask"}, j: Jobs]
         \cup [k: {"overlay"}]
Overlay      == [k |-> "overlay"]
Detail(o)    == [k |-> "detail", o |-> o]
Sheet(o, a)  == [k |-> "sheet", o |-> o, act |-> a]
Ask(j)       == [k |-> "ask", j |-> j]

In(r, s)  == \E i \in DOMAIN s : s[i] = r
OnTop(r)  == routes # <<>> /\ routes[Len(routes)] = r
Push(r)   == Append(routes, r)
\* Navigator.pop: whatever is on top goes.
Pop(s)    == IF s = <<>> THEN s ELSE SubSeq(s, 1, Len(s) - 1)
PopN(s, n) == IF n = 2 THEN Pop(Pop(s))
              ELSE IF n = 3 THEN Pop(Pop(Pop(s))) ELSE Pop(Pop(Pop(Pop(s))))

Page    == [use: {"free", "live", "gone"}, page: {"today", "detail"},
            opening: [Acts -> Nat], timing: [Acts -> Nat], rec: Record]
Pcs     == {"idle", "locate", "ask", "ntp", "user", "count", "write",
            "completed", "feed", "notify", "done", "dead"}
Handler == [pc: Pcs, act: Acts \cup {"accept"}, o: Objs, inside: BOOLEAN,
            ok: BOOLEAN]

----------------------------------------------------------------------------
FirstRecord(st, s) ==
  [status |-> st, start |-> s, finish |-> Finish, at |-> NoTime,
   fin |-> NoTime, inS |-> "none", outS |-> "none"]
NoTaps    == [a \in Acts |-> 0]
FreeObj   == [use |-> "free", page |-> "today", opening |-> NoTaps,
              timing |-> NoTaps, rec |-> FirstRecord("new", 0)]
IdleJobOn(o) == [pc |-> "idle", act |-> "in", o |-> o, inside |-> TRUE,
                 ok |-> FALSE]

Init ==
  /\ now = 0 /\ shown = 0
  /\ doc \in {FirstRecord(st, s) : st \in FirstStatus, s \in Starts}
  /\ obj = [o \in Objs |-> FreeObj]
  /\ \E o \in Objs : job = [j \in Jobs |-> IdleJobOn(o)]
  /\ tab = "today" /\ routes = <<>> /\ busy = FALSE /\ crashes = 0
  /\ wrote = {} /\ late = {} /\ early = {} /\ completed = {}
  /\ lost = {} /\ feeds = {} /\ notified = {}

----------------------------------------------------------------------------
(* The surroundings: time, the roster's administrator, the phone.           *)

Tick ==
  /\ now < MaxTime
  /\ now' = now + 1
  /\ UNCHANGED <<shown, doc, obj, job, screen, busy, crashes, ledger>>

\* loadTimeServer, called when the connectivity changes.
LoadTimeServer ==
  /\ shown # now
  /\ shown' = now
  /\ UNCHANGED <<now, doc, obj, job, screen, busy, crashes, ledger>>

\* The roster may move a task nobody has clocked into.
AdminReschedules ==
  /\ doc.at = NoTime
  /\ \E s \in Starts \ {doc.start} : doc' = [doc EXCEPT !.start = s]
  /\ UNCHANGED <<now, shown, obj, job, screen, busy, crashes, ledger>>

AdminDeletes ==
  /\ doc.status \in {"new", "confirm"}
  /\ doc' = [doc EXCEPT !.status = "deleted"]
  /\ UNCHANGED <<now, shown, obj, job, screen, busy, crashes, ledger>>

\* The app is killed: jobs, objects and routes are gone, documents are not.
Crash ==
  /\ crashes < MaxCrashes
  /\ crashes' = crashes + 1
  /\ obj' = [o \in Objs |-> FreeObj]
  /\ job' = [j \in Jobs |-> IF job[j].pc = "idle" THEN job[j]
                            ELSE [job[j] EXCEPT !.pc = "dead", !.inside = TRUE,
                                                !.ok = FALSE]]
  /\ tab' = "today" /\ routes' = <<>> /\ busy' = FALSE
  /\ shown' = now
  /\ UNCHANGED <<now, doc, ledger>>

----------------------------------------------------------------------------
(* Pages and buttons.                                                       *)

Capture(o, page, opening) ==
  obj' = [obj EXCEPT ![o] = [use |-> "live", page |-> page,
                             opening |-> opening, timing |-> NoTaps,
                             rec |-> doc]]

\* A page that is off the stack (or a tab that was left) has a dead context.
Mounted(o) ==
  \/ obj[o].page = "today" /\ obj[o].use = "live"
  \/ obj[o].page = "detail" /\ In(Detail(o), routes)

DayOf(t) == t \div Day
Trunc(d) == IF d >= 0 THEN d \div Hour ELSE -((-d) \div Hour)

\* The task the today page shows, by the time it last loaded.
IsTodays(r) ==
  \/ DayOf(r.finish) = DayOf(shown) /\ r.status = "start"
  \/ DayOf(r.start) = DayOf(shown)
ClockOutOffered(r) ==
  Trunc((r.finish - BeforeOut * Hour) - shown) <= BeforeOut

\* The button of the today page; only the clock-out tap raises the flag.
TapToday(o) ==
  /\ tab = "today" /\ routes = <<>> /\ ~busy
  /\ obj[o].use = "free" /\ IsTodays(doc)
  /\ \/ /\ doc.status = "confirm"
        /\ Capture(o, "today", [NoTaps EXCEPT !["in"] = 1])
        /\ UNCHANGED busy
     \/ /\ doc.status = "start" /\ ClockOutOffered(doc)
        /\ Capture(o, "today", [NoTaps EXCEPT !["out"] = 1])
        /\ busy' = TRUE
  /\ UNCHANGED <<now, shown, doc, job, screen, crashes, ledger>>

\* A second clock-in tap before the page is built anew: the same object.
TapTodayAgain(o) ==
  /\ tab = "today" /\ routes = <<>> /\ ~busy
  /\ obj[o].page = "today" /\ obj[o].use = "live"
  /\ doc.status = "confirm" /\ obj[o].rec = doc
  /\ obj[o].opening["in"] \in 1 .. MaxTaps - 1 /\ obj[o].timing["in"] = 0
  /\ obj' = [obj EXCEPT ![o].opening["in"] = @ + 1]
  /\ UNCHANGED <<now, shown, doc, job, screen, busy, crashes, ledger>>

\* A card of the calendar opens the detail page on its TaskModel.
OpenDetail(o) ==
  /\ tab = "calendar" /\ routes = <<>>
  /\ obj[o].use = "free" /\ doc.status # "deleted"
  /\ Capture(o, "detail", NoTaps)
  /\ routes' = Push(Detail(o))
  /\ UNCHANGED <<now, shown, doc, job, tab, busy, crashes, ledger>>

\* The detail page's button goes by its own copy, whatever the document says;
\* the page is taken to be rebuilt when a handler changes the copy.
TapDetail(o) ==
  /\ OnTop(Detail(o))
  /\ \E a \in Acts :
       /\ \/ a = "in" /\ obj[o].rec.status = "confirm"
             /\ DayOf(obj[o].rec.start) = DayOf(now)
          \/ a = "out" /\ obj[o].rec.status = "start"
       /\ obj[o].opening[a] + obj[o].timing[a] < MaxTaps
       /\ obj' = [obj EXCEPT ![o].opening[a] = @ + 1]
  /\ UNCHANGED <<now, shown, doc, job, screen, busy, crashes, ledger>>

\* The geofences and a position came: the flag falls, and the time is asked for
\* to be shown on the sheet.
Positioned(o, a) ==
  /\ obj[o].opening[a] > 0
  /\ obj' = [obj EXCEPT ![o].opening[a] = @ - 1, ![o].timing[a] = @ + 1]
  /\ busy' = FALSE
  /\ UNCHANGED <<now, shown, doc, job, screen, crashes, ledger>>

\* No geofence list, or no position: a toast or an exception; the flag stays.
NotPositioned(o, a) ==
  /\ obj[o].opening[a] > 0
  /\ obj' = [obj EXCEPT ![o].opening[a] = @ - 1]
  /\ UNCHANGED <<now, shown, doc, job, screen, busy, crashes, ledger>>

\* A mutant: a sheet opens that no tap asked for.
SheetOpensUnasked(o, a) ==
  /\ obj[o].use # "free"
  /\ obj' = [obj EXCEPT ![o].timing[a] = @ - 1]
  /\ routes' = IF Mounted(o) THEN Push(Sheet(o, a)) ELSE routes
  /\ UNCHANGED <<now, shown, doc, job, tab, busy, crashes, ledger>>

\* The time came: the sheet opens over whatever is on the screen by then.
SheetOpens(o, a) ==
  /\ obj[o].timing[a] > 0
  /\ obj' = [obj EXCEPT ![o].timing[a] = @ - 1]
  /\ routes' = IF Mounted(o) THEN Push(Sheet(o, a)) ELSE routes
  /\ UNCHANGED <<now, shown, doc, job, tab, busy, crashes, ledger>>

\* NTP.now() throws: no sheet.
SheetFails(o, a) ==
  /\ obj[o].timing[a] > 0
  /\ obj' = [obj EXCEPT ![o].timing[a] = @ - 1]
  /\ UNCHANGED <<now, shown, doc, job, screen, busy, crashes, ledger>>

\* The user drags a sheet down, cancels a dialog, goes back.
Dismiss ==
  /\ routes # <<>>
  /\ OnTop(Overlay) => AndroidBack
  /\ routes' = Pop(routes)
  /\ UNCHANGED <<now, shown, doc, obj, job, tab, busy, crashes, ledger>>

\* Leaving the today tab disposes its page; coming back builds it anew.
SwitchTab ==
  /\ routes = <<>>
  /\ \/ /\ tab = "today" /\ tab' = "calendar"
        /\ obj' = [o \in Objs |-> IF obj[o].page = "today" /\ obj[o].use = "live"
                                  THEN [obj[o] EXCEPT !.use = "gone"] ELSE obj[o]]
        /\ UNCHANGED busy
     \/ /\ tab = "calendar" /\ tab' = "today"
        /\ busy' = FALSE
        /\ UNCHANGED obj
  /\ UNCHANGED <<now, shown, doc, job, routes, crashes, ledger>>

----------------------------------------------------------------------------
(* The confirm handlers, cut at their awaits.                               *)

At(j, pc)  == job[j].pc = pc
Goto(j, pc) == job' = [job EXCEPT ![j].pc = pc]
End(j, pc)  == job' = [job EXCEPT ![j].pc = pc, ![j].inside = TRUE, ![j].ok = FALSE]
Model(j)   == obj[job[j].o].rec
Context(j) == Mounted(job[j].o)

\* A mutant: a clock handler sends only the fields it filled in.
StoredClockOnly(j, rec) ==
  IF job[j].act = "accept" THEN [doc EXCEPT !.status = "confirm"]
  ELSE [doc EXCEPT !.status = rec.status, !.at = rec.at, !.inS = rec.inS,
                   !.fin = rec.fin, !.outS = rec.outS]

\* The document an accepted update leaves: a clock handler sends the whole
\* object, an accept only the status.
Stored(j, rec) == IF job[j].act = "accept" THEN [doc EXCEPT !.status = "confirm"]
                  ELSE rec

Rejected(j, write) ==
  /\ Cardinality(lost) < MaxRejects
  /\ lost' = lost \cup {<<j, write>>}

\* Issues updateTaskStatusByTaskId: accepted, or answered 'F'.
Update(j, rec) ==
  \/ /\ doc' = Stored(j, rec)
     /\ wrote' = wrote \cup {j}
     /\ job' = [job EXCEPT ![j].pc = "write", ![j].ok = TRUE]
     /\ UNCHANGED lost
  \/ /\ Rejected(j, "update")
     /\ job' = [job EXCEPT ![j].pc = "write", ![j].ok = FALSE]
     /\ UNCHANGED <<doc, wrote>>

InFlight(k) == job[k].pc \notin {"idle", "ask", "done", "dead"}
Room == Cardinality({k \in Jobs : InFlight(k)}) < AtOnce

\* The sheet's Confirm button stays enabled: it may be tapped again.
TapConfirm(j) ==
  /\ At(j, "idle") /\ Room
  /\ \E o \in Objs, a \in Acts :
       /\ OnTop(Sheet(o, a))
       /\ job' = [job EXCEPT ![j] = [pc |-> "locate", act |-> a, o |-> o,
                                    inside |-> TRUE, ok |-> FALSE]]
  /\ UNCHANGED <<now, shown, doc, obj, screen, busy, crashes, ledger>>

\* clockInProcess and clockOutProcess begin by covering the screen; with the
\* page gone that throws.
Process(j, inside) ==
  /\ job' = [job EXCEPT ![j].pc = IF Context(j) THEN "ntp" ELSE "dead",
                        ![j].inside = inside]
  /\ routes' = IF Context(j) THEN Push(Overlay) ELSE routes

\* The position and confirmInGeofencingArea: inside an area ...
LocatedInside(j) ==
  /\ At(j, "locate")
  /\ Process(j, TRUE)
  /\ UNCHANGED <<now, shown, doc, obj, tab, busy, crashes, ledger>>

\* ... outside, when the user is asked first ...
LocatedOutside(j) ==
  /\ At(j, "locate")
  /\ Goto(j, IF Context(j) THEN "ask" ELSE "dead")
  /\ routes' = IF Context(j) THEN Push(Ask(j)) ELSE routes
  /\ UNCHANGED <<now, shown, doc, obj, tab, busy, crashes, ledger>>

\* ... or no position or no answer: a toast or an exception.
NotLocated(j) ==
  /\ At(j, "locate")
  /\ End(j, "dead")
  /\ UNCHANGED <<now, shown, doc, obj, screen, busy, crashes, ledger>>

TapAskConfirm(j) ==
  /\ At(j, "ask") /\ OnTop(Ask(j)) /\ Room
  /\ Process(j, FALSE)
  /\ UNCHANGED <<now, shown, doc, obj, tab, busy, crashes, ledger>>

\* A dialog whose Confirm was tapped before and that came to the top again
\* (the overlay was popped from over it) starts the process once more.
TapAskAgain(j) ==
  /\ At(j, "idle") /\ Room
  /\ \E k \in Jobs \ {j} :
       /\ OnTop(Ask(k)) /\ ~At(k, "ask")
       /\ job' = [job EXCEPT ![j] =
                    [pc |-> IF Context(k) THEN "ntp" ELSE "dead", act |-> job[k].act,
                     o |-> job[k].o, inside |-> FALSE, ok |-> FALSE]]
       /\ routes' = IF Context(k) THEN Push(Overlay) ELSE routes
  /\ UNCHANGED <<now, shown, doc, obj, tab, busy, crashes, ledger>>

\* The fields the time server's answer fills in.
ClockedIn(r) ==
  [r EXCEPT !.status = "start", !.at = now, !.inS = Compare(r.start, now)]
ClockedOut(r) ==
  [r EXCEPT !.status = "done", !.fin = now, !.outS = Compare(r.finish, now)]

\* A report counter is increased by FieldValue.increment; an error is swallowed.
Increase(j, counter, name) ==
  \/ counter' = counter \cup {j} /\ UNCHANGED lost
  \/ Rejected(j, name) /\ UNCHANGED counter

\* A mutant: the clock-in is sent without counting a late start.
ClockInUncounted(j) ==
  /\ At(j, "ntp") /\ job[j].act = "in"
  /\ obj' = [obj EXCEPT ![job[j].o].rec = ClockedIn(Model(j))]
  /\ Update(j, ClockedIn(Model(j)))
  /\ UNCHANGED <<now, shown, screen, busy, crashes, late, early, completed,
                 feeds, notified>>

ClockInTime(j) ==
  /\ At(j, "ntp") /\ job[j].act = "in"
  /\ LET r == ClockedIn(Model(j)) IN
     /\ obj' = [obj EXCEPT ![job[j].o].rec = r]
     /\ \/ /\ r.inS = "late"
           /\ Increase(j, late, "late")
           /\ Goto(j, "count")
           /\ UNCHANGED <<doc, wrote>>
        \/ /\ r.inS # "late"
           /\ Update(j, r)
           /\ UNCHANGED late
  /\ UNCHANGED <<now, shown, screen, busy, crashes, early, completed, feeds,
                 notified>>

ClockOutTime(j) ==
  /\ At(j, "ntp") /\ job[j].act = "out"
  /\ LET r == ClockedOut(Model(j)) IN
     /\ obj' = [obj EXCEPT ![job[j].o].rec = r]
     /\ \/ /\ r.outS = "early"
           /\ Increase(j, early, "early")
           /\ Goto(j, "count")
           /\ UNCHANGED <<doc, wrote>>
        \/ /\ r.outS # "early"
           /\ Update(j, r)
           /\ UNCHANGED early
  /\ UNCHANGED <<now, shown, screen, busy, crashes, late, completed, feeds,
                 notified>>

\* NTP.now() throws: the job ends there and the overlay stays.
NoTimeServer(j) ==
  /\ At(j, "ntp")
  /\ End(j, "dead")
  /\ UNCHANGED <<now, shown, doc, obj, screen, busy, crashes, ledger>>

\* The counter is answered: the object, as it is by now, is sent.
Counted(j) ==
  /\ At(j, "count")
  /\ Update(j, Model(j))
  /\ UNCHANGED <<now, shown, obj, screen, busy, crashes, late, early,
                 completed, feeds, notified>>

\* A mutant: the counter waits for the page, which may be gone.
CountCompletedOnPage(j) ==
  /\ At(j, "write") /\ job[j].ok /\ job[j].act = "out" /\ Context(j)
  /\ Increase(j, completed, "completed")
  /\ Goto(j, "completed")
  /\ UNCHANGED <<now, shown, doc, obj, screen, busy, crashes, wrote, late,
                 early, feeds, notified>>

\* The accepted update is followed by the completed counter (clock-out) ...
CountCompleted(j) ==
  /\ At(j, "write") /\ job[j].ok /\ job[j].act = "out"
  /\ Increase(j, completed, "completed")
  /\ Goto(j, "completed")
  /\ UNCHANGED <<now, shown, doc, obj, screen, busy, crashes, wrote, late,
                 early, feeds, notified>>

\* A mutant: the newsfeed goes out without a look at the update's answer.
PostFeedAnyway(j) ==
  /\ At(j, "completed") \/ (At(j, "write") /\ job[j].act # "out")
  /\ Increase(j, feeds, "feed")
  /\ Goto(j, "feed")
  /\ UNCHANGED <<now, shown, doc, obj, screen, busy, crashes, wrote, late,
                 early, completed, notified>>

\* ... and by a newsfeed.
PostFeed(j) ==
  /\ \/ At(j, "completed")
     \/ At(j, "write") /\ job[j].ok /\ job[j].act # "out"
  /\ Increase(j, feeds, "feed")
  /\ Goto(j, "feed")
  /\ UNCHANGED <<now, shown, doc, obj, screen, busy, crashes, wrote, late,
                 early, completed, notified>>

\* A mutant: the dialog is forgotten.
PopsNoDialog(j) ==
  2 + (IF job[j].ok /\ obj[job[j].o].page = "detail" THEN 1 ELSE 0)

\* The tail of the handler pops the overlay, the dialog if there was one, the
\* sheet and, after a success, the detail page; a dead context throws.
Pops(j) == 2 + (IF job[j].inside THEN 0 ELSE 1)
             + (IF job[j].ok /\ obj[job[j].o].page = "detail" THEN 1 ELSE 0)

\* A mutant: the tail runs after any answer of the update.
CloseOnAnswer(j) ==
  /\ job[j].act \in Acts
  /\ At(j, "feed") \/ At(j, "write")
  /\ End(j, IF Context(j) THEN "done" ELSE "dead")
  /\ routes' = IF Context(j) THEN PopN(routes, Pops(j)) ELSE routes
  /\ UNCHANGED <<now, shown, doc, obj, tab, busy, crashes, ledger>>

Close(j) ==
  /\ job[j].act \in Acts
  /\ At(j, "feed") \/ (At(j, "write") /\ ~job[j].ok)
  /\ End(j, IF Context(j) THEN "done" ELSE "dead")
  /\ routes' = IF Context(j) THEN PopN(routes, Pops(j)) ELSE routes
  /\ UNCHANGED <<now, shown, doc, obj, tab, busy, crashes, ledger>>

----------------------------------------------------------------------------
(* Accepting a new task: onAcceptPressed.                                   *)

\* The overlay, then the user's profile if it is not loaded, then the update.
TapAccept(j) ==
  /\ At(j, "idle") /\ Room
  /\ \E o \in Objs :
       /\ OnTop(Detail(o)) /\ obj[o].rec.status = "new"
       /\ job' = [job EXCEPT ![j] = [pc |-> "user", act |-> "accept", o |-> o,
                                    inside |-> TRUE, ok |-> FALSE]]
  /\ routes' = Push(Overlay)
  /\ UNCHANGED <<now, shown, doc, obj, tab, busy, crashes, ledger>>

UserLoaded(j) ==
  /\ At(j, "user")
  /\ Update(j, Model(j))
  /\ UNCHANGED <<now, shown, obj, screen, busy, crashes, late, early,
                 completed, feeds, notified>>

\* The controller of the roster is told.
Notify(j) ==
  /\ At(j, "feed") /\ job[j].act = "accept"
  /\ Increase(j, notified, "notification")
  /\ Goto(j, "notify")
  /\ UNCHANGED <<now, shown, doc, obj, screen, busy, crashes, wrote, late,
                 early, completed, feeds>>

\* After that the page closes; after an 'F' nothing happens: the overlay stays.
CloseAccept(j) ==
  /\ job[j].act = "accept"
  /\ \/ At(j, "notify") /\ Context(j)
        /\ routes' = PopN(routes, 2) /\ End(j, "done")
     \/ At(j, "notify") /\ ~Context(j)
        /\ End(j, "dead") /\ UNCHANGED routes
     \/ At(j, "write") /\ ~job[j].ok
        /\ End(j, "dead") /\ UNCHANGED routes
  /\ UNCHANGED <<now, shown, doc, obj, tab, busy, crashes, ledger>>

----------------------------------------------------------------------------
Reply(j) ==
  \/ LocatedInside(j) \/ LocatedOutside(j) \/ NotLocated(j)
  \/ ClockInTime(j) \/ ClockOutTime(j) \/ NoTimeServer(j) \/ Counted(j)
  \/ CountCompleted(j) \/ PostFeed(j) \/ Close(j)
  \/ UserLoaded(j) \/ Notify(j) \/ CloseAccept(j)

Tap(j) == TapConfirm(j) \/ TapAskConfirm(j) \/ TapAskAgain(j) \/ TapAccept(j)

Next ==
  \/ Tick \/ LoadTimeServer \/ AdminReschedules \/ AdminDeletes \/ Crash
  \/ Dismiss \/ SwitchTab
  \/ \E o \in Objs : TapToday(o) \/ TapTodayAgain(o) \/ OpenDetail(o) \/ TapDetail(o)
  \/ \E o \in Objs, a \in Acts : \/ Positioned(o, a) \/ NotPositioned(o, a)
                                 \/ SheetOpens(o, a) \/ SheetFails(o, a)
  \/ \E j \in Jobs : Tap(j) \/ Reply(j)

Spec == Init /\ [][Next]_vars

\* Every call is answered or fails, and Dart runs the rest of the handler;
\* nothing obliges the user, the roster or the clock.
FairSpec == Spec /\ \A j \in Jobs : WF_vars(Reply(j))

----------------------------------------------------------------------------
(* Properties.                                                              *)

\* Every variable keeps its type: what the handlers of TodayTaskController and
\* TasksDetailController may leave in memory and in Firestore.
TypeOK ==
  /\ now \in Nat /\ shown \in Nat
  /\ doc \in Record
  /\ obj \in [Objs -> Page] /\ job \in [Jobs -> Handler]
  /\ tab \in {"today", "calendar"} /\ routes \in Seq(Route)
  /\ busy \in BOOLEAN /\ crashes \in Nat
  /\ wrote \subseteq Jobs /\ late \subseteq Jobs /\ early \subseteq Jobs
  /\ completed \subseteq Jobs /\ lost \subseteq Jobs \X Writes /\ feeds \subseteq Jobs
  /\ notified \subseteq Jobs

\* What must be true of an attendance record on its own, at time t.
Coherent(r, t) ==
  /\ r.at # NoTime => r.at <= t /\ r.inS = Compare(r.start, r.at)
  /\ r.fin # NoTime => r.fin <= t /\ r.outS = Compare(r.finish, r.fin)
  /\ r.status = "start" => r.at # NoTime
  /\ r.status = "done" => r.at # NoTime /\ r.fin # NoTime /\ r.at <= r.fin

\* The stored task is always a coherent record: it is done only with a start
\* and a finish in that order, and its late/same/early marks are those of its
\* own times and schedule.  No double confirmation, stale copy, rejected write,
\* rescheduling or crash makes clockInProcess and clockOutProcess, which send
\* the whole of a shared object, store a mixture.
RecordCoherent == Coherent(doc, now)

\* Why it stays so.  Every object is coherent too, and whatever still leads to
\* a clock-out of object o (a sheet being opened, a sheet, a handler) keeps o
\* from being captured anew and was started from a record with a start time.
Ready(o, a) == obj[o].use # "free" /\ (a = "out" => obj[o].rec.at # NoTime)
PagesCoherent == \A o \in Objs : Coherent(obj[o].rec, now)
Coming(o, a) == obj[o].opening[a] > 0 \/ obj[o].timing[a] > 0
OpeningsReady == \A o \in Objs, a \in Acts : Coming(o, a) => Ready(o, a)
RoutesReady ==
  \A o \in Objs : /\ In(Detail(o), routes) => obj[o].use # "free"
                  /\ \A a \in Acts : In(Sheet(o, a), routes) => Ready(o, a)
AsksReady ==
  \A j \in Jobs : In(Ask(j), routes)
                   => job[j].pc # "idle" /\ Ready(job[j].o, job[j].act)
Active(j) == job[j].pc \notin {"idle", "done", "dead"}
HandlersReady == \A j \in Jobs : Active(j) => Ready(job[j].o, job[j].act)
Readiness == /\ PagesCoherent /\ OpeningsReady /\ RoutesReady /\ AsksReady
             /\ HandlersReady

\* A newsfeed, a completed count or a notification comes only from a handler
\* whose own task update was accepted, and only a clock-out counts as completed.
EffectsAreEarned ==
  /\ feeds \cup completed \cup notified \subseteq wrote
  /\ \A j \in completed : job[j].act = "out"
  /\ \A j \in feeds : job[j].act = "out" => j \in completed \/ <<j, "completed">> \in lost

\* Why it stays so: what the program counter of a handler says was accepted.
Progress ==
  \A j \in Jobs :
    /\ j \in wrote => job[j].pc # "idle"
    /\ job[j].pc = "write" /\ job[j].ok => j \in wrote
    /\ job[j].pc \in {"completed", "feed", "notify"} => j \in wrote
    /\ job[j].pc = "completed"
         => job[j].act = "out" /\ (j \in completed \/ <<j, "completed">> \in lost)

\* A mark of record r was counted, or the counter rejected it.
Reported(r) ==
  /\ r.inS = "late" => \E j \in Jobs : j \in late \/ <<j, "late">> \in lost
  /\ r.outS = "early" => \E j \in Jobs : j \in early \/ <<j, "early">> \in lost

\* A late start or an early finish that is on record was reported to the
\* counters, unless that very write was rejected: the counter goes first.
LatenessIsReported == Reported(doc)

\* Why it stays so: a page never holds a mark that was not reported.
PagesReported == \A o \in Objs : Reported(obj[o].rec)

\* The stack as a finished handler should leave it when nothing came between
\* its own routes: below its sheet, and below the detail page after a success.
Own(j) == IF job[j].inside THEN <<Overlay>> ELSE <<Ask(j), Overlay>>
OwnSuffixFrom(j, i) ==
  SubSeq(routes, i, Len(routes)) = <<Sheet(job[j].o, job[j].act)>> \o Own(j)
LeftBelow(j, i) ==
  IF job[j].ok /\ obj[job[j].o].page = "detail" THEN i - 2 ELSE i - 1

\* A handler that ends takes away exactly what it put on the screen, in every
\* combination of page, area and outcome: the pops of clockInProcess and
\* clockOutProcess, of LoadingOverlay.hide and of the confirm handlers match.
PopsMatchPushes ==
  [][\A j \in Jobs, i \in DOMAIN routes :
       /\ job[j].act \in Acts /\ job[j].pc # "done" /\ job'[j].pc = "done"
       /\ OwnSuffixFrom(j, i)
       => routes' = SubSeq(routes, 1, LeftBelow(j, i))]_vars

\* Everything that has to follow an accepted write of job j has been tried.
Tried(j, counter, name) == j \in counter \/ <<j, name>> \in lost
FollowedUp(j) ==
  /\ Tried(j, feeds, "feed")
  /\ job[j].act = "out" => Tried(j, completed, "completed")
  /\ job[j].act = "accept" => Tried(j, notified, "notification")

\* A handler that ended while the app lived owes nothing: it never returns, on
\* whatever page and answers, between its accepted task update and the newsfeed,
\* the completed counter and the notification that follow it.
NothingIsOwed == \A j \in wrote : crashes = 0 /\ ~Active(j) => FollowedUp(j)

\* Why it stays so: what a handler has tried by the await it is at.
OwedBy(j) ==
  j \in wrote /\ crashes = 0 =>
    \/ job[j].pc = "write" /\ job[j].ok
    \/ job[j].pc = "completed" /\ job[j].act = "out" /\ Tried(j, completed, "completed")
    \/ /\ job[j].pc = "feed" /\ Tried(j, feeds, "feed")
       /\ job[j].act = "out" => Tried(j, completed, "completed")
    \/ job[j].pc \in {"notify", "done", "dead"} /\ FollowedUp(j)

\* Unless the app is killed, an accepted write is followed by its newsfeed, by
\* the completed counter and by the notification, even if the page is closed
\* meanwhile: none of these calls needs the page.
AcceptedIsFollowedUp ==
  \A j \in Jobs : j \in wrote ~> (FollowedUp(j) \/ crashes > 0)
=============================================================================
