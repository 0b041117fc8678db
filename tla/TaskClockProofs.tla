--------------------------- MODULE TaskClockProofs ---------------------------
(****************************************************************************)
(* Proofs about TaskClock, for any number of pages, handlers and taps.      *)
(****************************************************************************)
EXTENDS TaskClock, TLAPS

----------------------------------------------------------------------------
(* Types.                                                                   *)

LEMMA CompareType ==
  ASSUME NEW s \in Int, NEW t \in Int
  PROVE  Compare(s, t) \in Clock
<1>1. CASE s < t
  BY <1>1 DEF Compare, Clock
<1>2. CASE s = t
  BY <1>2 DEF Compare, Clock
<1>3. CASE ~(s < t) /\ s # t
  BY <1>3 DEF Compare, Clock
<1> QED
  BY <1>1, <1>2, <1>3

\* Assigning one field leaves a record, a page or a handler in its type.
LEMMA RecordFieldType ==
  ASSUME NEW r \in Record, NEW st \in Status, NEW s \in Nat
  PROVE  [r EXCEPT !.status = st] \in Record /\ [r EXCEPT !.start = s] \in Record
BY DEF Record

LEMMA PageFieldType ==
  ASSUME NEW p \in Page, NEW r \in Record, NEW a \in Acts, NEW n \in Nat
  PROVE  /\ [p EXCEPT !.rec = r] \in Page
         /\ [p EXCEPT !.use = "gone"] \in Page
         /\ [p EXCEPT !.opening[a] = n] \in Page
         /\ p.opening[a] \in Nat
BY DEF Page

LEMMA PagesFieldType ==
  ASSUME NEW f \in [Objs -> Page], NEW o \in Objs, NEW r \in Record,
         NEW a \in Acts, NEW n \in Nat
  PROVE  /\ [f EXCEPT ![o].rec = r] \in [Objs -> Page]
         /\ [f EXCEPT ![o].opening[a] = n] \in [Objs -> Page]
BY PageFieldType

LEMMA OpeningType ==
  ASSUME NEW f \in [Objs -> Page], NEW o \in Objs, NEW a \in Acts
  PROVE  /\ [f EXCEPT ![o].opening[a] = @ + 1] \in [Objs -> Page]
         /\ f[o].opening[a] > 0
              => [f EXCEPT ![o].opening[a] = @ - 1] \in [Objs -> Page]
         /\ f[o].timing[a] > 0
              => [f EXCEPT ![o].timing[a] = @ - 1] \in [Objs -> Page]
         /\ [f EXCEPT ![o].timing[a] = @ + 1] \in [Objs -> Page]
<1>1. /\ f[o].opening[a] \in Nat /\ f[o].opening \in [Acts -> Nat] /\ f[o] \in Page
      /\ f[o].timing[a] \in Nat /\ f[o].timing \in [Acts -> Nat]
  BY DEF Page
<1>2. ASSUME NEW n \in Nat
      PROVE  /\ [f EXCEPT ![o].opening[a] = n] \in [Objs -> Page]
             /\ [f EXCEPT ![o].timing[a] = n] \in [Objs -> Page]
  BY <1>1 DEF Page
<1>3. f[o].opening[a] + 1 \in Nat /\ f[o].timing[a] + 1 \in Nat
  BY <1>1
<1>4. /\ f[o].opening[a] > 0 => f[o].opening[a] - 1 \in Nat
      /\ f[o].timing[a] > 0 => f[o].timing[a] - 1 \in Nat
  BY <1>1
<1>5. /\ [f EXCEPT ![o].opening[a] = f[o].opening[a] + 1] \in [Objs -> Page]
      /\ [f EXCEPT ![o].timing[a] = f[o].timing[a] + 1] \in [Objs -> Page]
  BY <1>2, <1>3
<1>6. /\ f[o].opening[a] > 0
           => [f EXCEPT ![o].opening[a] = f[o].opening[a] - 1] \in [Objs -> Page]
      /\ f[o].timing[a] > 0
           => [f EXCEPT ![o].timing[a] = f[o].timing[a] - 1] \in [Objs -> Page]
  BY <1>2, <1>4
<1> QED
  BY <1>5, <1>6

LEMMA PopType ==
  ASSUME NEW s \in Seq(Route)
  PROVE  Pop(s) \in Seq(Route)
BY DEF Pop

LEMMA PopNType ==
  ASSUME NEW s \in Seq(Route), NEW n
  PROVE  PopN(s, n) \in Seq(Route)
BY PopType DEF PopN

LEMMA RouteTypes ==
  /\ Overlay \in Route
  /\ \A o \in Objs : Detail(o) \in Route
  /\ \A o \in Objs, a \in Acts : Sheet(o, a) \in Route
  /\ \A j \in Jobs : Ask(j) \in Route
BY DEF Overlay, Detail, Sheet, Ask, Route

LEMMA PushType ==
  ASSUME NEW r \in Route, routes \in Seq(Route)
  PROVE  Push(r) \in Seq(Route)
BY DEF Push

LEMMA FirstRecordType ==
  ASSUME NEW st \in Status, NEW s \in Nat
  PROVE  FirstRecord(st, s) \in Record
BY TimesAssumption DEF FirstRecord, Record, Times, Clock

LEMMA FreeObjType ==
  FreeObj \in Page
BY FirstRecordType DEF FreeObj, NoTaps, Status, Page

LEMMA ClockedType ==
  ASSUME TypeOK, NEW r \in Record
  PROVE  ClockedIn(r) \in Record /\ ClockedOut(r) \in Record
<1>1. /\ now \in Nat /\ r.start \in Nat /\ r.finish \in Nat
  BY DEF TypeOK, Record
<1>2. Compare(r.start, now) \in Clock /\ Compare(r.finish, now) \in Clock
  BY <1>1, CompareType
<1> QED
  BY <1>1, <1>2 DEF ClockedIn, ClockedOut, Record, Status, Times

LEMMA InitTypeOK == Init => TypeOK
<1> SUFFICES ASSUME Init PROVE TypeOK
  OBVIOUS
<1>1. doc \in Record
  BY FirstRecordType, TimesAssumption, RosterAssumption DEF Init, Status
<1>2. obj \in [Objs -> Page]
  BY FreeObjType DEF Init
<1>3. job \in [Jobs -> Handler]
  BY DEF Init, IdleJobOn, Pcs, Acts, Handler
<1>4. routes \in Seq(Route)
  BY DEF Init
<1> QED
  BY <1>1, <1>2, <1>3, <1>4 DEF Init, TypeOK

\* What Update may do to the types.
LEMMA UpdateType ==
  ASSUME TypeOK, NEW j \in Jobs, NEW r \in Record, Update(j, r)
  PROVE  /\ doc' \in Record
         /\ wrote' \subseteq Jobs
         /\ lost' \subseteq Jobs \X Writes
         /\ job' \in [Jobs -> Handler]
<1>1. Stored(j, r) \in Record
  BY RecordFieldType DEF TypeOK, Stored, Status
<1>2. job' \in [Jobs -> Handler]
  <2>1. job \in [Jobs -> Handler]
    BY DEF TypeOK
  <2>2. PICK b \in BOOLEAN : job' = [job EXCEPT ![j].pc = "write", ![j].ok = b]
    BY DEF Update
  <2> QED
    BY <2>1, <2>2 DEF Handler, Pcs
<1> QED
  BY <1>1, <1>2 DEF TypeOK, Update, Rejected, Writes

LEMMA GotoType ==
  ASSUME TypeOK, NEW j \in Jobs, NEW pc \in Pcs, Goto(j, pc) \/ End(j, pc)
  PROVE  job' \in [Jobs -> Handler]
<1>1. job \in [Jobs -> Handler]
  BY DEF TypeOK
<1> QED
  BY <1>1 DEF Goto, End, Handler

LEMMA ModelType ==
  ASSUME TypeOK, NEW j \in Jobs
  PROVE  job[j].o \in Objs /\ Model(j) \in Record
BY DEF TypeOK, Model, Handler, Page

LEMMA SetRecType ==
  ASSUME TypeOK, NEW j \in Jobs, NEW r \in Record,
         obj' = [obj EXCEPT ![job[j].o].rec = r]
  PROVE  obj' \in [Objs -> Page]
<1>1. job[j].o \in Objs /\ "in" \in Acts /\ 0 \in Nat
  BY ModelType DEF Acts
<1> QED
  BY <1>1, PagesFieldType DEF TypeOK

LEMMA ProcessType ==
  ASSUME TypeOK, NEW j \in Jobs, NEW b \in BOOLEAN, Process(j, b)
  PROVE  /\ job' \in [Jobs -> Handler]
         /\ routes' \in Seq(Route)
<1>1. job' \in [Jobs -> Handler]
  <2>1. job \in [Jobs -> Handler]
    BY DEF TypeOK
  <2>2. PICK pc \in Pcs : job' = [job EXCEPT ![j].pc = pc, ![j].inside = b]
    BY DEF Process, Pcs
  <2> QED
    BY <2>1, <2>2 DEF Handler
<1>2. routes' \in Seq(Route)
  BY PushType, RouteTypes DEF TypeOK, Process
<1> QED
  BY <1>1, <1>2

\* The steps between a tap of a page's button and its sheet.
SheetStep(o, a) == \/ Positioned(o, a) \/ NotPositioned(o, a)
                   \/ SheetOpens(o, a) \/ SheetFails(o, a)

\* The steps of the surroundings and of the pages.
LEMMA PageStepsType ==
  ASSUME TypeOK
  PROVE  /\ Tick \/ LoadTimeServer \/ AdminReschedules \/ AdminDeletes => TypeOK'
         /\ Crash => TypeOK'
         /\ Dismiss \/ SwitchTab => TypeOK'
         /\ \A o \in Objs : TapToday(o) => TypeOK'
         /\ \A o \in Objs : OpenDetail(o) => TypeOK'
         /\ \A o \in Objs : TapDetail(o) \/ TapTodayAgain(o) => TypeOK'
         /\ \A o \in Objs, a \in Acts : SheetStep(o, a) => TypeOK'
<1>1. Tick \/ LoadTimeServer \/ AdminReschedules \/ AdminDeletes => TypeOK'
  <2>1. Tick \/ LoadTimeServer => TypeOK'
    BY DEF TypeOK, Tick, LoadTimeServer, ledger, screen
  <2>2. AdminReschedules \/ AdminDeletes => doc' \in Record
    BY RecordFieldType, TimesAssumption
       DEF TypeOK, AdminReschedules, AdminDeletes, Status
  <2>3. AdminReschedules \/ AdminDeletes => TypeOK'
    BY <2>2 DEF TypeOK, AdminReschedules, AdminDeletes, ledger, screen
  <2> QED
    BY <2>1, <2>3
<1>2. Crash => TypeOK'
  <2> SUFFICES ASSUME Crash PROVE TypeOK'
    OBVIOUS
  <2>1. obj' \in [Objs -> Page]
    BY FreeObjType DEF Crash
  <2>2. ASSUME NEW h \in Handler
        PROVE  [h EXCEPT !.pc = "dead", !.inside = TRUE, !.ok = FALSE] \in Handler
    BY DEF Handler, Pcs
  <2>3. job' \in [Jobs -> Handler]
    <3>1. job \in [Jobs -> Handler]
      BY DEF TypeOK
    <3>2. job' = [j \in Jobs |-> IF job[j].pc = "idle" THEN job[j]
                                ELSE [job[j] EXCEPT !.pc = "dead", !.inside = TRUE,
                                                    !.ok = FALSE]]
      BY DEF Crash
    <3> QED
      BY <2>2, <3>1, <3>2
  <2>4. /\ routes' = <<>> /\ tab' = "today" /\ busy' = FALSE
        /\ crashes' = crashes + 1 /\ shown' = now
        /\ UNCHANGED <<now, doc, ledger>>
    BY DEF Crash
  <2>5. routes' \in Seq(Route)
    BY <2>4
  <2>6. crashes \in Nat /\ crashes' = crashes + 1
    BY <2>4 DEF TypeOK
  <2>7. now' \in Nat /\ shown' \in Nat /\ doc' \in Record
    BY <2>4 DEF TypeOK
  <2>8. crashes' \in Nat
    BY <2>6
  <2>9. tab' \in {"today", "calendar"} /\ busy' \in BOOLEAN
    BY <2>4
  <2>10. UNCHANGED <<wrote, late, early, completed, lost, feeds, notified>>
    BY <2>4 DEF ledger
  <2> QED
    BY <2>1, <2>3, <2>5, <2>7, <2>8, <2>9, <2>10 DEF TypeOK
<1>3. Dismiss \/ SwitchTab => TypeOK'
  <2>1. Dismiss => TypeOK'
    BY PopType DEF TypeOK, Dismiss, ledger
  <2>2. SwitchTab => obj' \in [Objs -> Page]
    <3>1. ASSUME NEW p \in Page PROVE [p EXCEPT !.use = "gone"] \in Page
      BY DEF Page
    <3> QED
      BY <3>1 DEF TypeOK, SwitchTab
  <2>3. SwitchTab => TypeOK'
    BY <2>2 DEF TypeOK, SwitchTab, ledger
  <2> QED
    BY <2>1, <2>3
<1>4. ASSUME NEW o \in Objs, TapToday(o) PROVE TypeOK'
  <2>1. PICK a \in Acts : Capture(o, "today", [NoTaps EXCEPT ![a] = 1])
    BY <1>4 DEF TapToday, Acts
  <2>2. [NoTaps EXCEPT ![a] = 1] \in [Acts -> Nat]
    BY DEF NoTaps
  <2>3. obj' \in [Objs -> Page]
    <3>1. obj \in [Objs -> Page] /\ doc \in Record /\ NoTaps \in [Acts -> Nat]
      BY DEF TypeOK, NoTaps
    <3> QED
      BY <2>1, <2>2, <3>1 DEF Capture, Page
  <2> QED
    BY <1>4, <2>3 DEF TypeOK, TapToday, ledger, screen
<1>5. ASSUME NEW o \in Objs, OpenDetail(o) PROVE TypeOK'
  <2>1. obj' \in [Objs -> Page]
    BY <1>5 DEF TypeOK, OpenDetail, Capture, NoTaps, Page
  <2>2. routes' \in Seq(Route)
    BY <1>5, PushType, RouteTypes DEF TypeOK, OpenDetail
  <2> QED
    BY <1>5, <2>1, <2>2 DEF TypeOK, OpenDetail, ledger
<1>6. ASSUME NEW o \in Objs, TapDetail(o) \/ TapTodayAgain(o) PROVE TypeOK'
  <2>1. PICK a \in Acts : obj' = [obj EXCEPT ![o].opening[a] = @ + 1]
    BY <1>6 DEF TapDetail, TapTodayAgain, Acts
  <2>2. obj' \in [Objs -> Page]
    BY <2>1, OpeningType DEF TypeOK
  <2> QED
    BY <1>6, <2>2 DEF TypeOK, TapDetail, TapTodayAgain, ledger, screen
<1>7. ASSUME NEW o \in Objs, NEW a \in Acts, SheetStep(o, a) PROVE TypeOK'
  <2>1. routes' \in Seq(Route)
    BY <1>7, PushType, RouteTypes
       DEF TypeOK, SheetStep, Positioned, NotPositioned, SheetOpens, SheetFails, screen
  <2>2. obj' \in [Objs -> Page]
    <3>0. obj \in [Objs -> Page]
      BY DEF TypeOK
    <3>1. CASE Positioned(o, a)
      <4> DEFINE f == [obj EXCEPT ![o].opening[a] = @ - 1]
      <4>1. f \in [Objs -> Page]
        BY <3>0, <3>1, OpeningType DEF Positioned
      <4>2. [f EXCEPT ![o].timing[a] = @ + 1] \in [Objs -> Page]
        BY <4>1, OpeningType
      <4>3. obj' = [f EXCEPT ![o].timing[a] = @ + 1]
        BY <3>1 DEF Positioned
      <4> QED
        BY <4>2, <4>3
    <3>2. CASE NotPositioned(o, a)
      BY <3>0, <3>2, OpeningType DEF NotPositioned
    <3>3. CASE SheetOpens(o, a) \/ SheetFails(o, a)
      <4>1. obj[o].timing[a] > 0 /\ obj' = [obj EXCEPT ![o].timing[a] = @ - 1]
        BY <3>3 DEF SheetOpens, SheetFails
      <4> QED
        BY <3>0, <4>1, OpeningType
    <3> QED
      BY <1>7, <3>1, <3>2, <3>3 DEF SheetStep
  <2> QED
    BY <1>7, <2>1, <2>2
       DEF TypeOK, SheetStep, Positioned, NotPositioned, SheetOpens, SheetFails, ledger,
           screen
<1> QED
  BY <1>1, <1>2, <1>3, <1>4, <1>5, <1>6, <1>7

\* The steps of a handler.
LEMMA JobStepsType ==
  ASSUME TypeOK, NEW j \in Jobs, Tap(j) \/ Reply(j)
  PROVE  TypeOK'
<1>1. CASE TapConfirm(j)
  BY <1>1 DEF TypeOK, TapConfirm, Pcs, Handler, ledger, screen
<1>2. CASE TapAskConfirm(j)
  BY <1>2, ProcessType DEF TypeOK, TapAskConfirm, ledger
<1>3. CASE TapAccept(j)
  <2>1. routes' \in Seq(Route)
    BY <1>3, PushType, RouteTypes DEF TypeOK, TapAccept
  <2> QED
    BY <1>3, <2>1 DEF TypeOK, TapAccept, Pcs, Handler, ledger
<1>4. CASE LocatedInside(j)
  BY <1>4, ProcessType DEF TypeOK, LocatedInside, ledger
<1>5. CASE LocatedOutside(j)
  <2>1. routes' \in Seq(Route)
    BY <1>5, PushType, RouteTypes DEF TypeOK, LocatedOutside
  <2>2. job' \in [Jobs -> Handler]
    BY <1>5, GotoType DEF LocatedOutside, Pcs
  <2> QED
    BY <1>5, <2>1, <2>2 DEF TypeOK, LocatedOutside, ledger
<1>6. CASE NotLocated(j) \/ NoTimeServer(j)
  <2>1. End(j, "dead") /\ "dead" \in Pcs
    BY <1>6 DEF NotLocated, NoTimeServer, Pcs
  <2> QED
    BY <1>6, <2>1, GotoType DEF TypeOK, NotLocated, NoTimeServer, ledger, screen
<1>7. CASE ClockInTime(j)
  <2> DEFINE r == ClockedIn(Model(j))
  <2>1. r \in Record
    BY ModelType, ClockedType
  <2>2. /\ obj' = [obj EXCEPT ![job[j].o].rec = r]
        /\ \/ Increase(j, late, "late") /\ Goto(j, "count")
              /\ UNCHANGED <<doc, wrote>>
           \/ Update(j, r) /\ UNCHANGED late
        /\ UNCHANGED <<now, shown, screen, busy, crashes, early, completed,
                       feeds, notified>>
    BY <1>7 DEF ClockInTime
  <2>3. obj' \in [Objs -> Page]
    BY <2>1, <2>2, SetRecType
  <2>4. CASE Increase(j, late, "late") /\ Goto(j, "count") /\ UNCHANGED <<doc, wrote>>
    BY <2>2, <2>3, <2>4, GotoType
       DEF TypeOK, Increase, Rejected, Writes, Pcs, screen
  <2>5. CASE Update(j, r) /\ UNCHANGED late
    BY <2>1, <2>2, <2>3, <2>5, UpdateType DEF TypeOK, screen
  <2> QED
    BY <2>2, <2>4, <2>5
<1>8. CASE ClockOutTime(j)
  <2> DEFINE r == ClockedOut(Model(j))
  <2>1. r \in Record
    BY ModelType, ClockedType
  <2>2. /\ obj' = [obj EXCEPT ![job[j].o].rec = r]
        /\ \/ Increase(j, early, "early") /\ Goto(j, "count")
              /\ UNCHANGED <<doc, wrote>>
           \/ Update(j, r) /\ UNCHANGED early
        /\ UNCHANGED <<now, shown, screen, busy, crashes, late, completed,
                       feeds, notified>>
    BY <1>8 DEF ClockOutTime
  <2>3. obj' \in [Objs -> Page]
    BY <2>1, <2>2, SetRecType
  <2>4. CASE Increase(j, early, "early") /\ Goto(j, "count") /\ UNCHANGED <<doc, wrote>>
    BY <2>2, <2>3, <2>4, GotoType
       DEF TypeOK, Increase, Rejected, Writes, Pcs, screen
  <2>5. CASE Update(j, r) /\ UNCHANGED early
    BY <2>1, <2>2, <2>3, <2>5, UpdateType DEF TypeOK, screen
  <2> QED
    BY <2>2, <2>4, <2>5
<1>9. CASE Counted(j) \/ UserLoaded(j)
  BY <1>9, ModelType, UpdateType DEF TypeOK, Counted, UserLoaded, screen
<1>10. CASE CountCompleted(j)
  BY <1>10, GotoType
     DEF TypeOK, CountCompleted, Increase, Rejected, Writes, Pcs, screen
<1>11. CASE PostFeed(j)
  BY <1>11, GotoType
     DEF TypeOK, PostFeed, Increase, Rejected, Writes, Pcs, screen
<1>12. CASE Notify(j)
  BY <1>12, GotoType
     DEF TypeOK, Notify, Increase, Rejected, Writes, Pcs, screen
<1>13. CASE Close(j)
  <2>1. routes' \in Seq(Route)
    BY <1>13, PopNType DEF TypeOK, Close
  <2>2. job' \in [Jobs -> Handler]
    BY <1>13, GotoType DEF Close, Pcs
  <2> QED
    BY <1>13, <2>1, <2>2 DEF TypeOK, Close, ledger
<1>14. CASE CloseAccept(j)
  <2>1. routes' \in Seq(Route)
    BY <1>14, PopNType DEF TypeOK, CloseAccept
  <2>2. job' \in [Jobs -> Handler]
    BY <1>14, GotoType DEF CloseAccept, Pcs
  <2> QED
    BY <1>14, <2>1, <2>2 DEF TypeOK, CloseAccept, ledger
<1>15. CASE TapAskAgain(j)
  <2>1. PICK k \in Jobs :
          /\ job' = [job EXCEPT ![j] =
                       [pc |-> IF Context(k) THEN "ntp" ELSE "dead", act |-> job[k].act,
                        o |-> job[k].o, inside |-> FALSE, ok |-> FALSE]]
          /\ routes' = IF Context(k) THEN Push(Overlay) ELSE routes
    BY <1>15 DEF TapAskAgain
  <2>2. routes' \in Seq(Route)
    BY <2>1, PushType, RouteTypes DEF TypeOK
  <2>3. job' \in [Jobs -> Handler]
    BY <2>1 DEF TypeOK, Handler, Pcs
  <2> QED
    BY <1>15, <2>2, <2>3 DEF TypeOK, TapAskAgain, ledger
<1> QED
  BY <1>1, <1>2, <1>3, <1>4, <1>5, <1>6, <1>7, <1>8, <1>9, <1>10, <1>11, <1>12,
     <1>13, <1>14, <1>15 DEF Tap, Reply

LEMMA NextTypeOK == TypeOK /\ [Next]_vars => TypeOK'
<1> SUFFICES ASSUME TypeOK, [Next]_vars PROVE TypeOK'
  OBVIOUS
<1>1. CASE UNCHANGED vars
  BY <1>1 DEF TypeOK, vars, ledger, screen
<1>2. CASE Next
  BY <1>2, PageStepsType, JobStepsType DEF Next, SheetStep
<1> QED
  BY <1>1, <1>2

\* The variables of TaskClock always have their types.
THEOREM TypeCorrect == Spec => []TypeOK
BY InitTypeOK, NextTypeOK, PTL DEF Spec
----------------------------------------------------------------------------
(* The record is coherent.                                                  *)

\* Coherence of a record, as a fact about its fields.
LEMMA CoherentLater ==
  ASSUME NEW r \in Record, NEW t \in Nat, NEW u \in Nat, Coherent(r, t), t <= u
  PROVE  Coherent(r, u)
BY DEF Coherent, Record, Times, NoTime

LEMMA CoherentNew ==
  ASSUME NEW st \in {"new", "confirm"}, NEW s \in Nat, NEW t \in Nat
  PROVE  Coherent(FirstRecord(st, s), t)
BY DEF Coherent, FirstRecord

LEMMA CoherentRoster ==
  ASSUME NEW r \in Record, NEW t \in Nat, Coherent(r, t), NEW s \in Nat
  PROVE  /\ Coherent([r EXCEPT !.status = "confirm"], t)
         /\ Coherent([r EXCEPT !.status = "deleted"], t)
         /\ r.at = NoTime => Coherent([r EXCEPT !.start = s], t)
BY DEF Coherent, Record

LEMMA CoherentClocked ==
  ASSUME TypeOK, NEW r \in Record, Coherent(r, now)
  PROVE  /\ Coherent(ClockedIn(r), now)
         /\ r.at # NoTime => Coherent(ClockedOut(r), now)
         /\ ClockedIn(r).at # NoTime
         /\ ClockedOut(r).at = r.at
<1>1. now \in Nat /\ now <= now /\ now # NoTime
  BY DEF TypeOK, NoTime
<1>2. /\ ClockedIn(r).status = "start" /\ ClockedIn(r).at = now
      /\ ClockedIn(r).inS = Compare(r.start, now) /\ ClockedIn(r).start = r.start
      /\ ClockedIn(r).finish = r.finish /\ ClockedIn(r).fin = r.fin
      /\ ClockedIn(r).outS = r.outS
  BY DEF ClockedIn, Record
<1>3. /\ ClockedOut(r).status = "done" /\ ClockedOut(r).fin = now
      /\ ClockedOut(r).outS = Compare(r.finish, now) /\ ClockedOut(r).start = r.start
      /\ ClockedOut(r).finish = r.finish /\ ClockedOut(r).at = r.at
      /\ ClockedOut(r).inS = r.inS
  BY DEF ClockedOut, Record
<1>4. Coherent(ClockedIn(r), now)
  BY <1>1, <1>2 DEF Coherent
<1>5. r.at # NoTime => Coherent(ClockedOut(r), now)
  BY <1>1, <1>3 DEF Coherent
<1> QED
  BY <1>1, <1>2, <1>3, <1>4, <1>5

\* What is on the stack after a push or some pops.
LEMMA EmptyIn == \A q : ~In(q, <<>>)
BY DEF In

LEMMA PushIn ==
  ASSUME routes \in Seq(Route), NEW r \in Route, NEW q, In(q, Push(r))
  PROVE  In(q, routes) \/ q = r
BY DEF In, Push

LEMMA PopIn ==
  ASSUME NEW s \in Seq(Route), NEW q, In(q, Pop(s))
  PROVE  In(q, s)
BY DEF In, Pop

LEMMA PopNIn ==
  ASSUME NEW s \in Seq(Route), NEW n, NEW q, In(q, PopN(s, n))
  PROVE  In(q, s)
<1>1. Pop(s) \in Seq(Route) /\ Pop(Pop(s)) \in Seq(Route)
      /\ Pop(Pop(Pop(s))) \in Seq(Route)
  BY PopType
<1> QED
  BY <1>1, PopIn DEF PopN

LEMMA AsksDiffer ==
  ASSUME NEW j, NEW k, Ask(j) = Ask(k)
  PROVE  j = k
BY DEF Ask

LEMMA RoutesDiffer ==
  ASSUME NEW o, NEW o2, NEW a, NEW a2, NEW j
  PROVE  /\ Detail(o) # Overlay /\ Sheet(o, a) # Overlay
         /\ Detail(o) # Ask(j) /\ Sheet(o, a) # Ask(j)
         /\ Detail(o) # Sheet(o2, a)
         /\ Detail(o) = Detail(o2) => o = o2
         /\ Sheet(o, a) = Sheet(o2, a2) => o = o2 /\ a = a2
         /\ Ask(j) # Overlay
BY DEF Detail, Sheet, Overlay, Ask

\* Objects keep what a clock-out needs of them while the app lives.
Keeps == \A o \in Objs :
  /\ obj[o].use # "free" => obj'[o].use # "free"
  /\ obj[o].use # "free" /\ obj[o].rec.at # NoTime => obj'[o].rec.at # NoTime

LEMMA KeepsReady ==
  ASSUME Keeps, NEW o \in Objs, NEW a, Ready(o, a)
  PROVE  Ready(o, a)'
BY DEF Keeps, Ready

\* A handler stays the handler it is, and is not used again.
Steady ==
  \A k \in Jobs : job[k].pc # "idle" => /\ job'[k].pc # "idle"
                                        /\ job'[k].o = job[k].o
                                        /\ job'[k].act = job[k].act

\* A question on the screen belongs to a handler that was ready to go on.
LEMMA AsksStayReady ==
  ASSUME TypeOK, AsksReady, Keeps, Steady,
         \A k \in Jobs : In(Ask(k), routes')
           => \/ In(Ask(k), routes)
              \/ job[k].pc # "idle" /\ Ready(job[k].o, job[k].act)
  PROVE  AsksReady'
<1> SUFFICES ASSUME NEW k \in Jobs, In(Ask(k), routes')
             PROVE  job'[k].pc # "idle" /\ Ready(job[k].o, job[k].act)'
  BY DEF AsksReady
<1>1. job[k].pc # "idle" /\ Ready(job[k].o, job[k].act) /\ job[k].o \in Objs
  BY ModelType DEF AsksReady
<1>2. job'[k].pc # "idle" /\ job'[k].o = job[k].o /\ job'[k].act = job[k].act
  BY <1>1 DEF Steady
<1>3. /\ obj'[job[k].o].use # "free"
      /\ job[k].act = "out" => obj'[job[k].o].rec.at # NoTime
  BY <1>1 DEF Ready, Keeps
<1> QED
  BY <1>2, <1>3 DEF Ready

\* No other handler is started.
NoNewHandler ==
  \A k \in Jobs : Active(k)' => /\ Active(k) /\ job'[k].o = job[k].o
                                /\ job'[k].act = job[k].act

\* A step that adds nothing that leads to a clock-out leaves all of it ready.
LEMMA NothingNewIsReady ==
  ASSUME TypeOK, TypeOK', Readiness, Keeps, NoNewHandler,
         \A o \in Objs, a \in Acts : Coming(o, a)' => Coming(o, a),
         \A o \in Objs : In(Detail(o), routes') => In(Detail(o), routes),
         \A o \in Objs, a \in Acts :
           In(Sheet(o, a), routes') => In(Sheet(o, a), routes)
  PROVE  OpeningsReady' /\ RoutesReady' /\ HandlersReady'
<1>1. OpeningsReady'
  BY KeepsReady DEF Readiness, OpeningsReady
<1>2. RoutesReady'
  BY KeepsReady DEF Readiness, RoutesReady, Keeps
<1>3. HandlersReady'
  <2> SUFFICES ASSUME NEW k \in Jobs, Active(k)'
               PROVE  Ready(job[k].o, job[k].act)'
    BY DEF HandlersReady
  <2>1. /\ job[k].o \in Objs /\ Active(k)
        /\ job'[k].o = job[k].o /\ job'[k].act = job[k].act
    BY ModelType DEF NoNewHandler
  <2>2. Ready(job[k].o, job[k].act)
    BY <2>1 DEF Readiness, HandlersReady
  <2>3. /\ obj'[job[k].o].use # "free"
        /\ job[k].act = "out" => obj'[job[k].o].rec.at # NoTime
    BY <2>1, <2>2 DEF Ready, Keeps
  <2> QED
    BY <2>1, <2>3 DEF Ready
<1> QED
  BY <1>1, <1>2, <1>3

LEMMA HandlerGoesOn ==
  ASSUME TypeOK, NEW j \in Jobs, Active(j), NEW pc, pc # "idle", NEW b, NEW r,
         Goto(j, pc) \/ End(j, pc) \/ Process(j, b) \/ Update(j, r)
  PROVE  NoNewHandler /\ Steady
<1>1. job \in [Jobs -> Handler]
  BY DEF TypeOK
<1>2. CASE Goto(j, pc)
  BY <1>1, <1>2 DEF Goto, NoNewHandler, Steady, Active, Handler
<1>3. CASE End(j, pc)
  BY <1>1, <1>3 DEF End, NoNewHandler, Steady, Active, Handler
<1>4. CASE Process(j, b)
  BY <1>1, <1>4 DEF Process, NoNewHandler, Steady, Active, Handler
<1>5. CASE Update(j, r)
  BY <1>1, <1>5 DEF Update, NoNewHandler, Steady, Active, Handler
<1> QED
  BY <1>2, <1>3, <1>4, <1>5

\* A handler that is started on an object that is ready for it.
LEMMA NewHandlerReady ==
  ASSUME TypeOK, HandlersReady, UNCHANGED obj, NEW j \in Jobs, job[j].pc = "idle",
         NEW h, Ready(h.o, h.act), job' = [job EXCEPT ![j] = h]
  PROVE  HandlersReady' /\ Steady
<1>1. job'[j] = h /\ \A k \in Jobs : k # j => job'[k] = job[k]
  BY DEF TypeOK
<1>2. Steady
  BY <1>1 DEF Steady
<1>3. ASSUME NEW k \in Jobs, Active(k)' PROVE Ready(job[k].o, job[k].act)'
  <2>1. CASE k = j
    BY <1>1, <2>1 DEF Ready
  <2>2. CASE k # j
    <3>1. job'[k] = job[k] /\ Active(k)
      BY <1>1, <1>3, <2>2 DEF Active
    <3> QED
      BY <3>1 DEF HandlersReady, Ready
  <2> QED
    BY <2>1, <2>2
<1> QED
  BY <1>2, <1>3 DEF HandlersReady

\* Steps that touch neither the objects nor the document.
LEMMA SameRecordsCoherent ==
  ASSUME TypeOK, TypeOK', RecordCoherent, PagesCoherent, UNCHANGED <<obj, doc>>,
         now <= now'
  PROVE  RecordCoherent' /\ PagesCoherent' /\ Keeps
<1>1. now \in Nat /\ now' \in Nat /\ doc \in Record
  BY DEF TypeOK
<1>2. RecordCoherent'
  BY <1>1, CoherentLater DEF RecordCoherent
<1>3. \A o \in Objs : obj[o].rec \in Record
  BY DEF TypeOK, Page
<1>4. PagesCoherent'
  BY <1>1, <1>3, CoherentLater DEF PagesCoherent
<1> QED
  BY <1>2, <1>4 DEF Keeps

\* An update leaves a coherent document when it sends a coherent object.
LEMMA UpdateCoherent ==
  ASSUME TypeOK, RecordCoherent, NEW j \in Jobs, NEW r \in Record,
         Coherent(r, now), Update(j, r), UNCHANGED now
  PROVE  RecordCoherent'
<1>1. Coherent([doc EXCEPT !.status = "confirm"], now)
  BY CoherentRoster, TimesAssumption DEF TypeOK, RecordCoherent
<1>2. doc' \in {doc, r, [doc EXCEPT !.status = "confirm"]}
  BY DEF Update, Stored
<1> QED
  BY <1>1, <1>2 DEF RecordCoherent

\* A time filled into one object.
LEMMA SetRecCoherent ==
  ASSUME TypeOK, PagesCoherent, NEW o \in Objs, NEW r \in Record,
         Coherent(r, now), obj[o].rec.at # NoTime => r.at # NoTime,
         obj' = [obj EXCEPT ![o].rec = r], UNCHANGED now
  PROVE  /\ PagesCoherent' /\ Keeps
         /\ \A p \in Objs, a \in Acts : Coming(p, a)' => Coming(p, a)
<1>1. /\ \A p \in Objs : /\ obj'[p].use = obj[p].use
                         /\ obj'[p].opening = obj[p].opening
                         /\ obj'[p].timing = obj[p].timing
      /\ \A p \in Objs : obj'[p].rec = IF p = o THEN r ELSE obj[p].rec
  BY DEF TypeOK, Page
<1>2. PagesCoherent'
  BY <1>1 DEF PagesCoherent
<1> QED
  BY <1>1, <1>2 DEF Keeps, Coming

\* A step of a handler that only moves on and pushes no sheet and no page.
LEMMA HandlerStepReady ==
  ASSUME TypeOK, TypeOK', Readiness, NoNewHandler, Steady, Keeps, RecordCoherent',
         PagesCoherent', \A o \in Objs, a \in Acts : Coming(o, a)' => Coming(o, a),
         \A o \in Objs : In(Detail(o), routes') => In(Detail(o), routes),
         \A o \in Objs, a \in Acts :
           In(Sheet(o, a), routes') => In(Sheet(o, a), routes),
         \A k \in Jobs : In(Ask(k), routes') => In(Ask(k), routes) \/ Active(k)
  PROVE  RecordCoherent' /\ Readiness'
<1>1. OpeningsReady' /\ RoutesReady' /\ HandlersReady'
  BY NothingNewIsReady
<1>2. \A k \in Jobs : Active(k) => job[k].pc # "idle" /\ Ready(job[k].o, job[k].act)
  BY DEF Readiness, HandlersReady, Active
<1>3. AsksReady'
  BY <1>2, AsksStayReady DEF Readiness
<1> QED
  BY <1>1, <1>3 DEF Readiness

LEMMA DialogHidesNothing ==
  ASSUME TypeOK, NEW r \in {Overlay} \cup {Ask(j) : j \in Jobs}, routes' = Push(r)
  PROVE  /\ \A o \in Objs : In(Detail(o), routes') => In(Detail(o), routes)
         /\ \A o \in Objs, a \in Acts :
              In(Sheet(o, a), routes') => In(Sheet(o, a), routes)
         /\ \A k \in Jobs : In(Ask(k), routes') => In(Ask(k), routes) \/ r = Ask(k)
<1>1. r \in Route /\ routes \in Seq(Route)
  BY RouteTypes DEF TypeOK
<1>2. /\ \A o \in Objs : Detail(o) # r
      /\ \A o \in Objs, a \in Acts : Sheet(o, a) # r
  BY RoutesDiffer
<1>3. \A q : In(q, routes') => In(q, routes) \/ q = r
  BY <1>1, PushIn
<1> QED
  BY <1>2, <1>3

\* A handler that is started leaves everything ready if its object was.
LEMMA StartReady ==
  ASSUME TypeOK, TypeOK', RecordCoherent, Readiness, UNCHANGED <<obj, doc, now>>,
         routes' = routes \/ routes' = Push(Overlay),
         NEW j \in Jobs, job[j].pc = "idle",
         NEW h, Ready(h.o, h.act), job' = [job EXCEPT ![j] = h]
  PROVE  RecordCoherent' /\ Readiness'
<1>1. now \in Nat /\ now <= now'
  BY DEF TypeOK
<1>2. RecordCoherent' /\ PagesCoherent' /\ Keeps
  BY <1>1, SameRecordsCoherent DEF Readiness
<1>3. HandlersReady' /\ Steady
  BY NewHandlerReady DEF Readiness
<1>4. OpeningsReady'
  BY DEF Readiness, OpeningsReady, Ready, Coming
<1>5. /\ \A o \in Objs : In(Detail(o), routes') => In(Detail(o), routes)
      /\ \A o \in Objs, a \in Acts :
           In(Sheet(o, a), routes') => In(Sheet(o, a), routes)
      /\ \A k \in Jobs : In(Ask(k), routes') => In(Ask(k), routes)
  <2>1. CASE routes' = routes
    BY <2>1
  <2>2. CASE routes' = Push(Overlay)
    BY <2>2, DialogHidesNothing, RoutesDiffer
  <2> QED
    BY <2>1, <2>2
<1>6. RoutesReady'
  BY <1>5 DEF Readiness, RoutesReady, Ready
<1>7. AsksReady'
  BY <1>2, <1>3, <1>5, AsksStayReady DEF Readiness
<1> QED
  BY <1>2, <1>3, <1>4, <1>6, <1>7 DEF Readiness

LEMMA JobStepsReady ==
  ASSUME TypeOK, TypeOK', RecordCoherent, Readiness, NEW j \in Jobs,
         Tap(j) \/ Reply(j)
  PROVE  RecordCoherent' /\ Readiness'
<1>0. now \in Nat /\ PagesCoherent /\ routes \in Seq(Route) /\ job \in [Jobs -> Handler]
  BY DEF TypeOK, Readiness
<1>1. CASE TapConfirm(j)
  <2>1. PICK o \in Objs, a \in Acts :
          /\ OnTop(Sheet(o, a))
          /\ job' = [job EXCEPT ![j] = [pc |-> "locate", act |-> a, o |-> o,
                                       inside |-> TRUE, ok |-> FALSE]]
    BY <1>1 DEF TapConfirm
  <2>2. UNCHANGED <<obj, doc, routes, now>> /\ job[j].pc = "idle"
    BY <1>1 DEF TapConfirm, screen, At
  <2>3. In(Sheet(o, a), routes)
    BY <1>0, <2>1 DEF OnTop, In
  <2>4. Ready(o, a)
    BY <2>3 DEF Readiness, RoutesReady
  <2> QED
    BY <2>1, <2>2, <2>4, StartReady
<1>2. CASE TapAccept(j)
  <2>1. PICK o \in Objs :
          /\ OnTop(Detail(o))
          /\ job' = [job EXCEPT ![j] = [pc |-> "user", act |-> "accept", o |-> o,
                                       inside |-> TRUE, ok |-> FALSE]]
    BY <1>2 DEF TapAccept
  <2>2. UNCHANGED <<obj, doc, now>> /\ routes' = Push(Overlay) /\ job[j].pc = "idle"
    BY <1>2 DEF TapAccept, At
  <2>3. In(Detail(o), routes)
    BY <1>0, <2>1 DEF OnTop, In
  <2>4. Ready(o, "accept")
    BY <2>3 DEF Readiness, RoutesReady, Ready
  <2> QED
    BY <2>1, <2>2, <2>4, StartReady
<1>11. CASE TapAskAgain(j)
  <2>1. PICK k \in Jobs :
          /\ OnTop(Ask(k))
          /\ job' = [job EXCEPT ![j] =
                       [pc |-> IF Context(k) THEN "ntp" ELSE "dead", act |-> job[k].act,
                        o |-> job[k].o, inside |-> FALSE, ok |-> FALSE]]
    BY <1>11 DEF TapAskAgain
  <2>2. /\ UNCHANGED <<obj, doc, now>> /\ job[j].pc = "idle"
        /\ routes' = routes \/ routes' = Push(Overlay)
    BY <1>11 DEF TapAskAgain, At
  <2>3. In(Ask(k), routes)
    BY <1>0, <2>1 DEF OnTop, In
  <2>4. Ready(job[k].o, job[k].act)
    BY <2>3 DEF Readiness, AsksReady
  <2> QED
    BY <2>1, <2>2, <2>4, StartReady
<1>3. ASSUME UNCHANGED <<obj, doc, now>>, NoNewHandler, Steady,
             \/ routes' = routes
             \/ routes' = Push(Overlay)
             \/ routes' = Push(Ask(j)) /\ Active(j)
             \/ \E n \in Nat : routes' = PopN(routes, n)
      PROVE  RecordCoherent' /\ Readiness'
  <2>1. RecordCoherent' /\ PagesCoherent' /\ Keeps
    BY <1>0, <1>3, SameRecordsCoherent
  <2>2. /\ \A o \in Objs : In(Detail(o), routes') => In(Detail(o), routes)
        /\ \A o \in Objs, a \in Acts :
             In(Sheet(o, a), routes') => In(Sheet(o, a), routes)
        /\ \A k \in Jobs : In(Ask(k), routes') => In(Ask(k), routes) \/ Active(k)
    <3>1. CASE routes' = routes
      BY <3>1
    <3>2. CASE routes' = Push(Overlay)
      BY <3>2, DialogHidesNothing, RoutesDiffer
    <3>3. CASE routes' = Push(Ask(j)) /\ Active(j)
      BY <3>3, DialogHidesNothing, AsksDiffer
    <3>4. CASE \E n \in Nat : routes' = PopN(routes, n)
      BY <1>0, <3>4, PopNIn
    <3> QED
      BY <1>3, <3>1, <3>2, <3>3, <3>4
  <2>3. \A o \in Objs, a \in Acts : Coming(o, a)' => Coming(o, a)
    BY <1>3 DEF Coming
  <2> QED
    BY <1>3, <2>1, <2>2, <2>3, HandlerStepReady
<1>4. CASE TapAskConfirm(j) \/ LocatedInside(j)
  <2>1. /\ UNCHANGED <<obj, doc, now>> /\ Active(j)
        /\ \E b \in BOOLEAN : Process(j, b)
    BY <1>4 DEF TapAskConfirm, LocatedInside, At, Active
  <2>2. NoNewHandler /\ Steady
    BY <2>1, HandlerGoesOn
  <2> QED
    BY <2>1, <2>2, <1>3 DEF Process
<1>5. CASE LocatedOutside(j)
  <2>1. /\ UNCHANGED <<obj, doc, now>> /\ Active(j)
        /\ \E pc : pc # "idle" /\ Goto(j, pc)
        /\ routes' = routes \/ routes' = Push(Ask(j))
    BY <1>5 DEF LocatedOutside, At, Active
  <2>2. NoNewHandler /\ Steady
    BY <2>1, HandlerGoesOn
  <2> QED
    BY <2>1, <2>2, <1>3
<1>6. CASE NotLocated(j) \/ NoTimeServer(j)
  <2>1. UNCHANGED <<obj, doc, now, routes>> /\ Active(j) /\ End(j, "dead")
    BY <1>6 DEF NotLocated, NoTimeServer, At, Active, screen
  <2> QED
    BY <2>1, <1>3, HandlerGoesOn
<1>7. CASE CountCompleted(j) \/ PostFeed(j) \/ Notify(j)
  <2>1. /\ UNCHANGED <<obj, doc, now, routes>> /\ Active(j)
        /\ \E pc : pc # "idle" /\ Goto(j, pc)
    BY <1>7 DEF CountCompleted, PostFeed, Notify, At, Active, screen
  <2> QED
    BY <2>1, <1>3, HandlerGoesOn
<1>8. CASE Close(j) \/ CloseAccept(j)
  <2>1. /\ UNCHANGED <<obj, doc, now>> /\ Active(j)
        /\ \E pc : pc # "idle" /\ End(j, pc)
    BY <1>8 DEF Close, CloseAccept, At, Active
  <2>2. Pops(j) \in Nat /\ 2 \in Nat
    BY DEF Pops
  <2>3. routes' = routes \/ \E n \in Nat : routes' = PopN(routes, n)
    BY <1>8, <2>2 DEF Close, CloseAccept
  <2> QED
    BY <2>1, <2>3, <1>3, HandlerGoesOn
<1>9. CASE Counted(j) \/ UserLoaded(j)
  <2>1. /\ UNCHANGED <<obj, now, routes>> /\ Active(j) /\ Update(j, Model(j))
    BY <1>9 DEF Counted, UserLoaded, At, Active, screen
  <2>2. Model(j) \in Record /\ Coherent(Model(j), now)
    BY <1>0, ModelType DEF PagesCoherent, Model
  <2>3. RecordCoherent' /\ NoNewHandler /\ Steady
    BY <2>1, <2>2, UpdateCoherent, HandlerGoesOn
  <2>4. /\ PagesCoherent' /\ Keeps
        /\ \A o \in Objs, a \in Acts : Coming(o, a)' => Coming(o, a)
    BY <1>0, <2>1 DEF PagesCoherent, Keeps, Coming
  <2> QED
    BY <2>1, <2>3, <2>4, HandlerStepReady
<1>10. CASE ClockInTime(j) \/ ClockOutTime(j)
  <2>1. Model(j) \in Record /\ Coherent(Model(j), now) /\ job[j].o \in Objs
    BY <1>0, ModelType DEF PagesCoherent, Model
  <2>2. /\ UNCHANGED <<now, routes>> /\ Active(j)
        /\ job[j].act = "out" => Model(j).at # NoTime
    BY <1>10 DEF ClockInTime, ClockOutTime, At, Active, Readiness, HandlersReady,
                 Ready, Model, screen
  <2>3. PICK r \in Record :
          /\ Coherent(r, now) /\ r.at # NoTime
          /\ obj' = [obj EXCEPT ![job[j].o].rec = r]
          /\ Update(j, r) \/ (Goto(j, "count") /\ UNCHANGED doc)
    <3>1. CASE ClockInTime(j)
      BY <2>1, <3>1, ClockedType, CoherentClocked DEF ClockInTime
    <3>2. CASE ClockOutTime(j)
      <4>1. ClockedOut(Model(j)).at # NoTime
        BY <2>1, <2>2, <3>2, CoherentClocked DEF ClockOutTime
      <4>2. ClockedOut(Model(j)) \in Record /\ Coherent(ClockedOut(Model(j)), now)
        BY <2>1, <2>2, <3>2, ClockedType, CoherentClocked DEF ClockOutTime
      <4> QED
        BY <3>2, <4>1, <4>2 DEF ClockOutTime
    <3> QED
      BY <1>10, <3>1, <3>2
  <2>4. /\ PagesCoherent' /\ Keeps
        /\ \A p \in Objs, a \in Acts : Coming(p, a)' => Coming(p, a)
    BY <1>0, <2>1, <2>2, <2>3, SetRecCoherent
  <2>5. RecordCoherent'
    BY <2>2, <2>3, UpdateCoherent DEF RecordCoherent
  <2>6. NoNewHandler /\ Steady
    <3>1. "count" # "idle"
      OBVIOUS
    <3>2. CASE Update(j, r)
      BY <2>2, <3>1, <3>2, HandlerGoesOn
    <3>3. CASE Goto(j, "count")
      BY <2>2, <3>1, <3>3, HandlerGoesOn
    <3> QED
      BY <2>3, <3>2, <3>3
  <2> QED
    BY <2>2, <2>4, <2>5, <2>6, HandlerStepReady
<1> QED
  BY <1>1, <1>2, <1>4, <1>5, <1>6, <1>7, <1>8, <1>9, <1>10, <1>11 DEF Tap, Reply

\* A page captures the document: its object was free, so nothing led to it.
LEMMA CaptureReady ==
  ASSUME TypeOK, RecordCoherent, Readiness, NEW o \in Objs, NEW page,
         NEW opening \in [Acts -> Nat], Capture(o, page, opening),
         obj[o].use = "free", UNCHANGED now
  PROVE  /\ PagesCoherent' /\ Keeps
         /\ \A p \in Objs : obj'[p] = IF p = o
                                 THEN [use |-> "live", page |-> page,
                                       opening |-> opening, timing |-> NoTaps, rec |-> doc]
                                 ELSE obj[p]
<1>1. \A p \in Objs : obj'[p] = IF p = o
                                THEN [use |-> "live", page |-> page,
                                      opening |-> opening, timing |-> NoTaps, rec |-> doc]
                                ELSE obj[p]
  BY DEF TypeOK, Capture
<1>2. PagesCoherent'
  BY <1>1 DEF Readiness, PagesCoherent, RecordCoherent
<1> QED
  BY <1>1, <1>2 DEF Keeps

LEMMA PageStepsReady ==
  ASSUME TypeOK, TypeOK', RecordCoherent, Readiness
  PROVE  /\ Tick \/ LoadTimeServer \/ Dismiss => RecordCoherent' /\ Readiness'
         /\ AdminReschedules \/ AdminDeletes => RecordCoherent' /\ Readiness'
         /\ Crash => RecordCoherent' /\ Readiness'
         /\ SwitchTab => RecordCoherent' /\ Readiness'
         /\ \A o \in Objs : TapToday(o) => RecordCoherent' /\ Readiness'
         /\ \A o \in Objs : OpenDetail(o) => RecordCoherent' /\ Readiness'
         /\ \A o \in Objs : TapDetail(o) \/ TapTodayAgain(o)
                            => RecordCoherent' /\ Readiness'
         /\ \A o \in Objs, a \in Acts : SheetStep(o, a) => RecordCoherent' /\ Readiness'
<1>0. /\ now \in Nat /\ shown \in Nat /\ routes \in Seq(Route) /\ doc \in Record
      /\ obj \in [Objs -> Page] /\ job \in [Jobs -> Handler]
      /\ PagesCoherent /\ OpeningsReady /\ RoutesReady /\ AsksReady
      /\ HandlersReady
  BY DEF TypeOK, Readiness
<1>1. Tick \/ LoadTimeServer \/ Dismiss => RecordCoherent' /\ Readiness'
  <2> SUFFICES ASSUME Tick \/ LoadTimeServer \/ Dismiss
               PROVE  RecordCoherent' /\ Readiness'
    OBVIOUS
  <2>1. UNCHANGED <<obj, doc, job>> /\ now <= now'
    BY <1>0 DEF Tick, LoadTimeServer, Dismiss
  <2>2. RecordCoherent' /\ PagesCoherent' /\ Keeps
    BY <1>0, <2>1, SameRecordsCoherent
  <2>3. routes' = routes \/ routes' = Pop(routes)
    BY DEF Tick, LoadTimeServer, Dismiss, screen
  <2>4. NoNewHandler /\ Steady
    BY <2>1 DEF NoNewHandler, Steady, Active
  <2>5. \A o \in Objs, a \in Acts : Coming(o, a)' => Coming(o, a)
    BY <2>1 DEF Coming
  <2>6. \A q : In(q, routes') => In(q, routes)
    BY <1>0, <2>3, PopIn
  <2> QED
    BY <2>2, <2>4, <2>5, <2>6, HandlerStepReady
<1>2. AdminReschedules \/ AdminDeletes => RecordCoherent' /\ Readiness'
  <2> SUFFICES ASSUME AdminReschedules \/ AdminDeletes
               PROVE  RecordCoherent' /\ Readiness'
    OBVIOUS
  <2>1. UNCHANGED <<now, obj, job, routes>>
    BY DEF AdminReschedules, AdminDeletes, screen
  <2>2. RecordCoherent'
    <3>1. CASE AdminReschedules
      <4>1. PICK s \in Nat : doc' = [doc EXCEPT !.start = s] /\ doc.at = NoTime
        BY <3>1, TimesAssumption DEF AdminReschedules
      <4> QED
        BY <1>0, <2>1, <4>1, CoherentRoster DEF RecordCoherent
    <3>2. CASE AdminDeletes
      <4>1. doc' = [doc EXCEPT !.status = "deleted"] /\ 0 \in Nat
        BY <3>2 DEF AdminDeletes
      <4> QED
        BY <1>0, <2>1, <4>1, CoherentRoster DEF RecordCoherent
    <3> QED
      BY <3>1, <3>2
  <2> QED
    BY <1>0, <2>1, <2>2 DEF Readiness, PagesCoherent, OpeningsReady, RoutesReady,
                            AsksReady, HandlersReady, Ready, Active, Coming
<1>3. Crash => RecordCoherent' /\ Readiness'
  <2> SUFFICES ASSUME Crash PROVE RecordCoherent' /\ Readiness'
    OBVIOUS
  <2>1. /\ UNCHANGED <<now, doc>> /\ routes' = <<>>
        /\ \A o \in Objs : obj'[o] = FreeObj
        /\ \A j \in Jobs : job'[j] = IF job[j].pc = "idle" THEN job[j]
                              ELSE [job[j] EXCEPT !.pc = "dead", !.inside = TRUE,
                                                  !.ok = FALSE]
    BY DEF Crash
  <2>2. RecordCoherent'
    BY <2>1 DEF RecordCoherent
  <2>3. PagesCoherent'
    <3>1. Coherent(FirstRecord("new", 0), now)
      BY <1>0, CoherentNew
    <3>2. FreeObj.rec = FirstRecord("new", 0)
      BY DEF FreeObj
    <3>3. \A o \in Objs : obj'[o].rec = FirstRecord("new", 0) /\ now' = now
      BY <2>1, <3>2
    <3> QED
      BY <3>1, <3>3 DEF PagesCoherent
  <2>4. OpeningsReady'
    <3>1. \A a \in Acts : FreeObj.opening[a] = 0 /\ FreeObj.timing[a] = 0
      BY DEF FreeObj, NoTaps
    <3>2. \A o \in Objs, a \in Acts : obj'[o].opening[a] = 0 /\ obj'[o].timing[a] = 0
      BY <2>1, <3>1
    <3> QED
      BY <3>2 DEF OpeningsReady, Coming
  <2>5. RoutesReady' /\ AsksReady'
    BY <2>1, EmptyIn DEF RoutesReady, AsksReady
  <2>6. \A j \in Jobs : job'[j].pc \in {"idle", "dead"}
    BY <1>0, <2>1 DEF Handler
  <2>7. HandlersReady'
    BY <2>6 DEF HandlersReady, Active
  <2> QED
    BY <2>2, <2>3, <2>4, <2>5, <2>7 DEF Readiness
<1>4. SwitchTab => RecordCoherent' /\ Readiness'
  <2> SUFFICES ASSUME SwitchTab PROVE RecordCoherent' /\ Readiness'
    OBVIOUS
  <2>1. UNCHANGED <<now, doc, job, routes>>
    BY DEF SwitchTab
  <2>2. \A o \in Objs : /\ obj'[o].rec = obj[o].rec
                        /\ obj'[o].opening = obj[o].opening
                        /\ obj'[o].timing = obj[o].timing
                        /\ obj'[o].use \in {obj[o].use, "gone"}
    BY <1>0 DEF SwitchTab, Page
  <2>3. RecordCoherent' /\ PagesCoherent' /\ Keeps
    BY <1>0, <2>1, <2>2 DEF RecordCoherent, PagesCoherent, Keeps
  <2>4. NoNewHandler /\ Steady
    BY <2>1 DEF NoNewHandler, Steady, Active
  <2>5. \A o \in Objs, a \in Acts : Coming(o, a)' => Coming(o, a)
    BY <2>2 DEF Coming
  <2> QED
    BY <2>1, <2>3, <2>4, <2>5, HandlerStepReady
<1>5. ASSUME NEW o \in Objs, TapToday(o) PROVE RecordCoherent' /\ Readiness'
  <2>1. /\ UNCHANGED <<now, doc, job, routes>> /\ obj[o].use = "free"
    BY <1>5 DEF TapToday, screen
  <2>2. PICK a \in Acts : /\ Capture(o, "today", [NoTaps EXCEPT ![a] = 1])
                          /\ a = "out" => doc.at # NoTime
    BY <1>5 DEF TapToday, Acts, RecordCoherent, Coherent
  <2> DEFINE opening == [NoTaps EXCEPT ![a] = 1]
  <2>3. opening \in [Acts -> Nat] /\ \A b \in Acts : opening[b] > 0 => b = a
    BY DEF NoTaps
  <2> HIDE DEF opening
  <2>4. /\ PagesCoherent' /\ Keeps
        /\ \A p \in Objs : obj'[p] = IF p = o
                              THEN [use |-> "live", page |-> "today",
                                    opening |-> opening, timing |-> NoTaps, rec |-> doc]
                              ELSE obj[p]
    <3>1. Capture(o, "today", opening)
      BY <2>2 DEF opening
    <3> QED
      BY <2>1, <2>3, <3>1, CaptureReady
  <2>5. OpeningsReady'
    <3> SUFFICES ASSUME NEW p \in Objs, NEW b \in Acts, Coming(p, b)'
                 PROVE  Ready(p, b)'
      BY DEF OpeningsReady
    <3>1. CASE p = o
      <4>1. b = a /\ obj'[p].use = "live" /\ obj'[p].rec = doc
        BY <2>3, <2>4, <3>1 DEF Coming, NoTaps
      <4> QED
        BY <2>2, <4>1 DEF Ready
    <3>2. CASE p # o
      BY <1>0, <2>4, <3>2 DEF OpeningsReady, Ready, Coming
    <3> QED
      BY <3>1, <3>2
  <2>6. RoutesReady'
    BY <1>0, <2>1, <2>4, KeepsReady DEF RoutesReady, Keeps
  <2>7. HandlersReady'
    <3> SUFFICES ASSUME NEW k \in Jobs, Active(k)'
                 PROVE  Ready(job[k].o, job[k].act)'
      BY DEF HandlersReady
    <3>1. job'[k] = job[k] /\ Ready(job[k].o, job[k].act) /\ job[k].o # o
          /\ job[k].o \in Objs
      BY <1>0, <2>1, ModelType DEF HandlersReady, Active, Ready
    <3>2. obj'[job[k].o] = obj[job[k].o]
      BY <2>4, <3>1
    <3> QED
      BY <3>1, <3>2 DEF Ready
  <2>8. RecordCoherent'
    BY <2>1 DEF RecordCoherent
  <2>9. AsksReady'
    BY <1>0, <2>1, <2>4, AsksStayReady DEF Steady
  <2> QED
    BY <2>4, <2>5, <2>6, <2>7, <2>8, <2>9 DEF Readiness
<1>6. ASSUME NEW o \in Objs, OpenDetail(o) PROVE RecordCoherent' /\ Readiness'
  <2>1. /\ UNCHANGED <<now, doc, job>> /\ obj[o].use = "free"
        /\ routes' = Push(Detail(o)) /\ Capture(o, "detail", NoTaps)
    BY <1>6 DEF OpenDetail
  <2>2. NoTaps \in [Acts -> Nat]
    BY DEF NoTaps
  <2>3. /\ PagesCoherent' /\ Keeps
        /\ \A p \in Objs : obj'[p] = IF p = o
                              THEN [use |-> "live", page |-> "detail",
                                    opening |-> NoTaps, timing |-> NoTaps, rec |-> doc]
                              ELSE obj[p]
    BY <2>1, <2>2, CaptureReady
  <2>4. OpeningsReady'
    BY <1>0, <2>3 DEF OpeningsReady, Ready, Coming, NoTaps
  <2>5. RoutesReady'
    <3> SUFFICES ASSUME NEW p \in Objs
                 PROVE  /\ In(Detail(p), routes') => obj'[p].use # "free"
                        /\ \A a \in Acts : In(Sheet(p, a), routes') => Ready(p, a)'
      BY DEF RoutesReady
    <3>1. In(Detail(p), routes') => In(Detail(p), routes) \/ p = o
      BY <1>0, <2>1, PushIn, RouteTypes, RoutesDiffer
    <3>2. \A a \in Acts : In(Sheet(p, a), routes') => In(Sheet(p, a), routes)
      BY <1>0, <2>1, PushIn, RouteTypes, RoutesDiffer
    <3> QED
      BY <1>0, <2>3, <3>1, <3>2, KeepsReady DEF RoutesReady, Keeps
  <2>6. HandlersReady'
    <3> SUFFICES ASSUME NEW k \in Jobs, Active(k)'
                 PROVE  Ready(job[k].o, job[k].act)'
      BY DEF HandlersReady
    <3>1. job'[k] = job[k] /\ Ready(job[k].o, job[k].act) /\ job[k].o # o
          /\ job[k].o \in Objs
      BY <1>0, <2>1, ModelType DEF HandlersReady, Active, Ready
    <3>2. obj'[job[k].o] = obj[job[k].o]
      BY <2>3, <3>1
    <3> QED
      BY <3>1, <3>2 DEF Ready
  <2>7. RecordCoherent'
    BY <2>1 DEF RecordCoherent
  <2>8. AsksReady'
    <3>1. \A k \in Jobs : In(Ask(k), routes') => In(Ask(k), routes)
      BY <1>0, <2>1, PushIn, RouteTypes, RoutesDiffer
    <3> QED
      BY <1>0, <2>1, <2>3, <3>1, AsksStayReady DEF Steady
  <2> QED
    BY <2>3, <2>4, <2>5, <2>6, <2>7, <2>8 DEF Readiness
<1>7. ASSUME NEW o \in Objs, TapDetail(o) \/ TapTodayAgain(o)
      PROVE  RecordCoherent' /\ Readiness'
  <2>1. UNCHANGED <<now, doc, job, routes>>
    BY <1>7 DEF TapDetail, TapTodayAgain, screen
  <2>2. PICK a \in Acts : /\ obj' = [obj EXCEPT ![o].opening[a] = @ + 1]
                          /\ a = "out" => obj[o].rec.status = "start"
    BY <1>7 DEF TapDetail, TapTodayAgain, Acts
  <2>3. /\ \A p \in Objs : obj'[p].rec = obj[p].rec /\ obj'[p].use = obj[p].use
        /\ \A p \in Objs, b \in Acts :
             p # o \/ b # a => obj'[p].opening[b] = obj[p].opening[b]
        /\ \A p \in Objs : obj'[p].timing = obj[p].timing
    <3>1. \A p \in Objs : p # o => obj'[p] = obj[p]
      BY <1>0, <2>2
    <3>2. /\ obj'[o].rec = obj[o].rec /\ obj'[o].use = obj[o].use
          /\ \A b \in Acts : b # a => obj'[o].opening[b] = obj[o].opening[b]
          /\ obj'[o].timing = obj[o].timing
      BY <1>0, <2>2 DEF Page
    <3> QED
      BY <3>1, <3>2
  <2>4. Ready(o, a)
    <3>1. obj[o].use # "free"
      <4>1. TapDetail(o) => In(Detail(o), routes)
        BY <1>0 DEF TapDetail, OnTop, In
      <4> QED
        BY <1>0, <1>7, <4>1 DEF RoutesReady, TapTodayAgain
    <3>2. obj[o].rec.status = "start" => obj[o].rec.at # NoTime
      BY <1>0 DEF PagesCoherent, Coherent
    <3> QED
      BY <2>2, <3>1, <3>2 DEF Ready
  <2>5. RecordCoherent' /\ PagesCoherent'
    BY <1>0, <2>1, <2>3 DEF RecordCoherent, PagesCoherent
  <2>6. OpeningsReady'
    BY <1>0, <2>3, <2>4 DEF OpeningsReady, Ready, Coming
  <2>7. RoutesReady'
    BY <1>0, <2>1, <2>3 DEF RoutesReady, Ready
  <2>8. HandlersReady'
    BY <1>0, <2>1, <2>3, ModelType DEF HandlersReady, Ready, Active
  <2>9. AsksReady'
    BY <1>0, <2>1, <2>3, ModelType DEF AsksReady, Ready
  <2> QED
    BY <2>5, <2>6, <2>7, <2>8, <2>9 DEF Readiness
<1>8. ASSUME NEW o \in Objs, NEW a \in Acts, SheetStep(o, a)
      PROVE  RecordCoherent' /\ Readiness'
  <2>1. /\ UNCHANGED <<now, doc, job>> /\ Coming(o, a)
        /\ routes' = routes \/ routes' = Push(Sheet(o, a))
    BY <1>8 DEF SheetStep, Positioned, NotPositioned, SheetOpens, SheetFails, Coming, screen
  <2>2. /\ \A p \in Objs : obj'[p].rec = obj[p].rec /\ obj'[p].use = obj[p].use
        /\ \A p \in Objs, b \in Acts : Coming(p, b)' => Coming(p, b)
    <3>1. \A p \in Objs : p # o => obj'[p] = obj[p]
      BY <1>0, <1>8
         DEF SheetStep, Positioned, NotPositioned, SheetOpens, SheetFails
    <3>2. /\ obj'[o].rec = obj[o].rec /\ obj'[o].use = obj[o].use
          /\ \A b \in Acts : b # a => /\ obj'[o].opening[b] = obj[o].opening[b]
                                      /\ obj'[o].timing[b] = obj[o].timing[b]
      <4>1. \/ \E n : obj' = [obj EXCEPT ![o].opening[a] = n]
            \/ \E n : obj' = [obj EXCEPT ![o].timing[a] = n]
            \/ \E n, m : obj' = [obj EXCEPT ![o].opening[a] = n, ![o].timing[a] = m]
        BY <1>8 DEF SheetStep, Positioned, NotPositioned, SheetOpens, SheetFails
      <4>2. obj[o] \in Page
        BY <1>0
      <4>3. CASE \E n : obj' = [obj EXCEPT ![o].opening[a] = n]
        BY <1>0, <4>2, <4>3 DEF Page
      <4>4. CASE \E n : obj' = [obj EXCEPT ![o].timing[a] = n]
        BY <1>0, <4>2, <4>4 DEF Page
      <4>5. CASE \E n, m : obj' = [obj EXCEPT ![o].opening[a] = n, ![o].timing[a] = m]
        BY <1>0, <4>2, <4>5 DEF Page
      <4> QED
        BY <4>1, <4>3, <4>4, <4>5
    <3> QED
      BY <2>1, <3>1, <3>2 DEF Coming
  <2>3. Ready(o, a)
    BY <1>0, <2>1 DEF OpeningsReady
  <2>4. RecordCoherent' /\ PagesCoherent'
    BY <1>0, <2>1, <2>2 DEF RecordCoherent, PagesCoherent
  <2>5. OpeningsReady'
    BY <1>0, <2>2 DEF OpeningsReady, Ready
  <2>6. RoutesReady'
    <3>1. Sheet(o, a) \in Route
      BY RouteTypes
    <3>2. \A p \in Objs : In(Detail(p), routes') => In(Detail(p), routes)
      BY <1>0, <2>1, <3>1, PushIn, RoutesDiffer
    <3>3. \A p \in Objs, b \in Acts :
            In(Sheet(p, b), routes') => In(Sheet(p, b), routes) \/ (p = o /\ b = a)
      BY <1>0, <2>1, <3>1, PushIn, RoutesDiffer
    <3> QED
      BY <1>0, <2>2, <2>3, <3>2, <3>3 DEF RoutesReady, Ready
  <2>7. HandlersReady'
    BY <1>0, <2>1, <2>2, ModelType DEF HandlersReady, Ready, Active
  <2>8. AsksReady'
    <3>1. Sheet(o, a) \in Route /\ \A k \in Jobs : Ask(k) # Sheet(o, a)
      BY RouteTypes, RoutesDiffer
    <3>2. \A k \in Jobs : In(Ask(k), routes') => In(Ask(k), routes)
      BY <1>0, <2>1, <3>1, PushIn
    <3> QED
      BY <1>0, <2>1, <2>2, <3>2, ModelType DEF AsksReady, Ready
  <2> QED
    BY <2>4, <2>5, <2>6, <2>7, <2>8 DEF Readiness
<1> QED
  BY <1>1, <1>2, <1>3, <1>4, <1>5, <1>6, <1>7, <1>8

LEMMA InitReady == Init => RecordCoherent /\ Readiness
<1> SUFFICES ASSUME Init PROVE RecordCoherent /\ Readiness
  OBVIOUS
<1>1. RecordCoherent
  BY CoherentNew, TimesAssumption, RosterAssumption DEF Init, RecordCoherent
<1>2. PagesCoherent
  <2>1. Coherent(FirstRecord("new", 0), now)
    BY CoherentNew DEF Init
  <2> QED
    BY <2>1 DEF Init, PagesCoherent, FreeObj
<1>3. OpeningsReady
  <2>1. \A a \in Acts : FreeObj.opening[a] = 0 /\ FreeObj.timing[a] = 0
    BY DEF FreeObj, NoTaps
  <2> QED
    BY <2>1 DEF Init, OpeningsReady, Coming
<1>4. RoutesReady /\ AsksReady
  BY EmptyIn DEF Init, RoutesReady, AsksReady
<1>5. HandlersReady
  BY DEF Init, HandlersReady, Active, IdleJobOn
<1> QED
  BY <1>1, <1>2, <1>3, <1>4, <1>5 DEF Readiness

LEMMA NextReady ==
  TypeOK /\ TypeOK' /\ RecordCoherent /\ Readiness /\ [Next]_vars
    => RecordCoherent' /\ Readiness'
<1> SUFFICES ASSUME TypeOK, TypeOK', RecordCoherent, Readiness, [Next]_vars
             PROVE  RecordCoherent' /\ Readiness'
  OBVIOUS
<1>1. CASE UNCHANGED vars
  <2>1. UNCHANGED <<now, doc, obj, job, routes>>
    BY <1>1 DEF vars, screen
  <2> QED
    BY <2>1 DEF RecordCoherent, Readiness, PagesCoherent, OpeningsReady,
                RoutesReady, AsksReady, HandlersReady, Ready, Active, Coming
<1>2. CASE Next
  BY <1>2, PageStepsReady, JobStepsReady DEF Next, SheetStep
<1> QED
  BY <1>1, <1>2

\* The stored task is coherent whatever handlers, taps, crashes and rejected
\* writes there are: clockInProcess and clockOutProcess never store a mixture.
THEOREM RecordStaysCoherent == Spec => []RecordCoherent
BY InitReady, NextReady, InitTypeOK, NextTypeOK, PTL DEF Spec

----------------------------------------------------------------------------
(* Effects are earned.                                                      *)

\* The two invariants, handler by handler.
EarnedBy(k) ==
  /\ k \in feeds \cup completed \cup notified => k \in wrote
  /\ k \in completed => job[k].act = "out"
  /\ k \in feeds /\ job[k].act = "out"
       => k \in completed \/ <<k, "completed">> \in lost
  /\ k \in wrote => job[k].pc # "idle"
  /\ job[k].pc = "write" /\ job[k].ok => k \in wrote
  /\ job[k].pc \in {"completed", "feed", "notify"} => k \in wrote
  /\ job[k].pc = "completed"
       => job[k].act = "out" /\ (k \in completed \/ <<k, "completed">> \in lost)
Earned == \A k \in Jobs : EarnedBy(k)

LEMMA EarnedIsThat == TypeOK => (Earned <=> EffectsAreEarned /\ Progress)
<1> SUFFICES ASSUME TypeOK PROVE Earned <=> EffectsAreEarned /\ Progress
  OBVIOUS
<1>1. feeds \subseteq Jobs /\ completed \subseteq Jobs /\ notified \subseteq Jobs
  BY DEF TypeOK
<1>2. Earned => EffectsAreEarned
  BY <1>1 DEF Earned, EarnedBy, EffectsAreEarned
<1>3. Earned => Progress
  BY DEF Earned, EarnedBy, Progress
<1>4. EffectsAreEarned /\ Progress => Earned
  BY <1>1 DEF Earned, EarnedBy, EffectsAreEarned, Progress
<1> QED
  BY <1>2, <1>3, <1>4

LEMMA InitEarned == Init => Earned
BY DEF Init, Earned, EarnedBy, IdleJobOn

\* No other handler than j moves, and only j's entries are added.
Others(j) ==
  \A k \in Jobs \ {j} :
    /\ job'[k] = job[k]
    /\ k \in wrote' <=> k \in wrote
    /\ k \in completed' <=> k \in completed
    /\ k \in feeds' <=> k \in feeds
    /\ k \in notified' <=> k \in notified
    /\ <<k, "completed">> \in lost => <<k, "completed">> \in lost'

LEMMA EarnedByOthers ==
  ASSUME Earned, NEW j \in Jobs, Others(j), EarnedBy(j)'
  PROVE  Earned'
<1>1. ASSUME NEW k \in Jobs, k # j PROVE EarnedBy(k)'
  BY <1>1 DEF Earned, EarnedBy, Others
<1> QED
  BY <1>1 DEF Earned

\* Moves that leave the ledger alone and stay before the update or end.
LEMMA QuietMoveEarned ==
  ASSUME TypeOK, Earned, NEW j \in Jobs, UNCHANGED ledger,
         \A k \in Jobs \ {j} : job'[k] = job[k],
         job'[j].pc \notin {"idle", "write", "completed", "feed", "notify"},
         job[j].pc # "idle" => job'[j].act = job[j].act
  PROVE  Earned'
<1>1. UNCHANGED <<wrote, completed, lost, feeds, notified>>
  BY DEF ledger
<1>2. Others(j)
  BY <1>1 DEF Others
<1>3. EarnedBy(j)
  BY DEF Earned
<1>4. EarnedBy(j)'
  BY <1>1, <1>3 DEF EarnedBy
<1> QED
  BY <1>2, <1>4, EarnedByOthers

LEMMA UpdateEarned ==
  ASSUME TypeOK, Earned, NEW j \in Jobs, NEW r, Update(j, r),
         job[j].pc \in {"ntp", "count", "user"},
         UNCHANGED <<completed, feeds, notified>>
  PROVE  Earned'
<1>1. EarnedBy(j) /\ job[j] \in Handler
  BY DEF Earned, TypeOK
<1>2. PICK b \in BOOLEAN :
        /\ job' = [job EXCEPT ![j].pc = "write", ![j].ok = b]
        /\ wrote' = IF b THEN wrote \cup {j} ELSE wrote
        /\ lost \subseteq lost'
  BY DEF Update, Rejected
<1>3. /\ \A k \in Jobs \ {j} : job'[k] = job[k]
      /\ job'[j].pc = "write" /\ job'[j].ok = b /\ job'[j].act = job[j].act
  BY <1>1, <1>2 DEF TypeOK, Handler
<1>4. Others(j)
  BY <1>2, <1>3 DEF Others
<1>5. EarnedBy(j)'
  BY <1>1, <1>2, <1>3 DEF EarnedBy
<1> QED
  BY <1>4, <1>5, EarnedByOthers

LEMMA PageStepsEarned ==
  ASSUME TypeOK, Earned
  PROVE  /\ UNCHANGED <<job, ledger>> => Earned'
         /\ Crash => Earned'
<1>1. UNCHANGED <<job, ledger>> => Earned'
  BY DEF Earned, EarnedBy, ledger
<1>2. ASSUME Crash PROVE Earned'
  <2>1. UNCHANGED <<wrote, completed, lost, feeds, notified>>
    BY <1>2 DEF Crash, ledger
  <2>2. \A k \in Jobs :
          \/ job[k].pc = "idle" /\ job'[k] = job[k]
          \/ /\ job[k].pc # "idle" /\ job'[k].pc = "dead"
             /\ job'[k].act = job[k].act
    <3>1. \A h \in Handler :
             /\ [h EXCEPT !.pc = "dead", !.inside = TRUE, !.ok = FALSE].pc = "dead"
             /\ [h EXCEPT !.pc = "dead", !.inside = TRUE, !.ok = FALSE].act = h.act
      BY DEF Handler
    <3>2. \A k \in Jobs : job'[k] = IF job[k].pc = "idle" THEN job[k]
                             ELSE [job[k] EXCEPT !.pc = "dead", !.inside = TRUE,
                                                 !.ok = FALSE]
      BY <1>2 DEF Crash
    <3>3. \A k \in Jobs : job[k] \in Handler
      BY DEF TypeOK
    <3>4. ASSUME NEW k \in Jobs, job[k].pc # "idle"
          PROVE  job'[k].pc = "dead" /\ job'[k].act = job[k].act
      BY <3>1, <3>2, <3>3, <3>4
    <3> QED
      BY <3>2, <3>4
  <2> QED
    BY <2>1, <2>2 DEF Earned, EarnedBy
<1> QED
  BY <1>1, <1>2

LEMMA JobStepsEarned ==
  ASSUME TypeOK, Earned, NEW j \in Jobs, Tap(j) \/ Reply(j)
  PROVE  Earned'
<1>0. job \in [Jobs -> Handler] /\ job[j] \in Handler /\ EarnedBy(j)
  BY DEF TypeOK, Earned
<1>1. CASE TapConfirm(j) \/ TapAccept(j)
  <2>1. /\ UNCHANGED ledger /\ job[j].pc = "idle"
        /\ \A k \in Jobs \ {j} : job'[k] = job[k]
        /\ job'[j].pc \in {"locate", "user"}
    BY <1>0, <1>1 DEF TapConfirm, TapAccept, At
  <2> QED
    BY <2>1, QuietMoveEarned
<1>2. CASE TapAskConfirm(j) \/ LocatedInside(j)
  <2>1. /\ UNCHANGED ledger
        /\ \A k \in Jobs \ {j} : job'[k] = job[k]
        /\ job'[j].pc \in {"ntp", "dead"} /\ job'[j].act = job[j].act
    BY <1>0, <1>2 DEF TapAskConfirm, LocatedInside, Process, Handler
  <2> QED
    BY <2>1, QuietMoveEarned
<1>3. CASE LocatedOutside(j) \/ NotLocated(j) \/ NoTimeServer(j)
  <2>1. /\ UNCHANGED ledger
        /\ \A k \in Jobs \ {j} : job'[k] = job[k]
        /\ job'[j].pc \in {"ask", "dead"} /\ job'[j].act = job[j].act
    BY <1>0, <1>3 DEF LocatedOutside, NotLocated, NoTimeServer, Goto, End, Handler
  <2> QED
    BY <2>1, QuietMoveEarned
<1>4. CASE Close(j) \/ CloseAccept(j)
  <2>1. /\ UNCHANGED ledger
        /\ \A k \in Jobs \ {j} : job'[k] = job[k]
        /\ job'[j].pc \in {"done", "dead"} /\ job'[j].act = job[j].act
    BY <1>0, <1>4 DEF Close, CloseAccept, End, Handler
  <2> QED
    BY <2>1, QuietMoveEarned
<1>5. CASE Counted(j) \/ UserLoaded(j)
  BY <1>5, UpdateEarned DEF Counted, UserLoaded, At
<1>6. CASE ClockInTime(j) \/ ClockOutTime(j)
  <2>1. /\ job[j].pc = "ntp" /\ UNCHANGED <<completed, feeds, notified>>
        /\ \/ \E r : Update(j, r)
           \/ /\ Goto(j, "count") /\ UNCHANGED wrote
              /\ \E c \in {"late", "early"} : lost' = lost \/ Rejected(j, c)
    BY <1>6 DEF ClockInTime, ClockOutTime, At, Increase
  <2>2. CASE \E r : Update(j, r)
    BY <2>1, <2>2, UpdateEarned
  <2>3. CASE /\ Goto(j, "count") /\ UNCHANGED wrote /\ lost \subseteq lost'
    <3>1. /\ \A k \in Jobs \ {j} : job'[k] = job[k]
          /\ job'[j].pc = "count" /\ job'[j].act = job[j].act
      BY <1>0, <2>3 DEF Goto, Handler
    <3>2. Others(j) /\ EarnedBy(j)'
      BY <1>0, <2>1, <2>3, <3>1 DEF Others, EarnedBy
    <3> QED
      BY <3>2, EarnedByOthers
  <2> QED
    BY <2>1, <2>2, <2>3 DEF Rejected
<1>7. CASE CountCompleted(j)
  <2>1. /\ \A k \in Jobs \ {j} : job'[k] = job[k]
        /\ job'[j].pc = "completed" /\ job'[j].act = "out" /\ job[j].act = "out"
        /\ job[j].pc = "write" /\ job[j].ok
        /\ UNCHANGED <<wrote, feeds, notified>>
    BY <1>0, <1>7 DEF CountCompleted, At, Goto, Handler
  <2>2. \/ completed' = completed \cup {j} /\ lost' = lost
        \/ completed' = completed /\ lost' = lost \cup {<<j, "completed">>}
    BY <1>7 DEF CountCompleted, Increase, Rejected
  <2>3. Others(j) /\ EarnedBy(j)'
    BY <1>0, <2>1, <2>2 DEF Others, EarnedBy
  <2> QED
    BY <2>3, EarnedByOthers
<1>8. CASE PostFeed(j)
  <2>1. /\ \A k \in Jobs \ {j} : job'[k] = job[k]
        /\ job'[j].pc = "feed" /\ job'[j].act = job[j].act
        /\ job[j].pc = "completed" \/ (job[j].pc = "write" /\ job[j].ok
                                       /\ job[j].act # "out")
        /\ UNCHANGED <<wrote, completed, notified>>
    BY <1>0, <1>8 DEF PostFeed, At, Goto, Handler
  <2>2. /\ feeds' = feeds \cup {j} \/ feeds' = feeds
        /\ lost \subseteq lost'
    BY <1>8 DEF PostFeed, Increase, Rejected
  <2>3. Others(j) /\ EarnedBy(j)'
    BY <1>0, <2>1, <2>2 DEF Others, EarnedBy
  <2> QED
    BY <2>3, EarnedByOthers
<1>9. CASE Notify(j)
  <2>1. /\ \A k \in Jobs \ {j} : job'[k] = job[k]
        /\ job'[j].pc = "notify" /\ job'[j].act = job[j].act
        /\ job[j].pc = "feed"
        /\ UNCHANGED <<wrote, completed, feeds>>
    BY <1>0, <1>9 DEF Notify, At, Goto, Handler
  <2>2. /\ notified' = notified \cup {j} \/ notified' = notified
        /\ lost \subseteq lost'
    BY <1>9 DEF Notify, Increase, Rejected
  <2>3. Others(j) /\ EarnedBy(j)'
    BY <1>0, <2>1, <2>2 DEF Others, EarnedBy
  <2> QED
    BY <2>3, EarnedByOthers
<1>10. CASE TapAskAgain(j)
  <2>1. /\ UNCHANGED ledger /\ job[j].pc = "idle"
        /\ \A k \in Jobs \ {j} : job'[k] = job[k]
        /\ job'[j].pc \in {"ntp", "dead"}
    BY <1>0, <1>10 DEF TapAskAgain, At
  <2> QED
    BY <2>1, QuietMoveEarned
<1> QED
  BY <1>1, <1>2, <1>3, <1>4, <1>5, <1>6, <1>7, <1>8, <1>9, <1>10 DEF Tap, Reply

LEMMA NextEarned == TypeOK /\ Earned /\ [Next]_vars => Earned'
<1> SUFFICES ASSUME TypeOK, Earned, [Next]_vars PROVE Earned'
  OBVIOUS
<1>1. CASE UNCHANGED vars
  BY <1>1, PageStepsEarned DEF vars
<1>2. CASE Next
  <2>1. CASE \E j \in Jobs : Tap(j) \/ Reply(j)
    BY <2>1, JobStepsEarned
  <2>2. CASE Crash
    BY <2>2, PageStepsEarned
  <2>3. CASE Tick \/ LoadTimeServer \/ AdminReschedules \/ AdminDeletes
             \/ Dismiss \/ SwitchTab
    BY <2>3, PageStepsEarned
       DEF Tick, LoadTimeServer, AdminReschedules, AdminDeletes, Dismiss, SwitchTab
  <2>4. CASE \E o \in Objs : TapToday(o) \/ TapTodayAgain(o) \/ OpenDetail(o)
                            \/ TapDetail(o)
    BY <2>4, PageStepsEarned DEF TapToday, TapTodayAgain, OpenDetail, TapDetail
  <2>5. CASE \E o \in Objs, a \in Acts : SheetStep(o, a)
    BY <2>5, PageStepsEarned
       DEF SheetStep, Positioned, NotPositioned, SheetOpens, SheetFails
  <2> QED
    BY <1>2, <2>1, <2>2, <2>3, <2>4, <2>5 DEF Next, SheetStep
<1> QED
  BY <1>1, <1>2

\* Newsfeeds, completed counts and notifications come only from handlers whose
\* own task update was accepted, however the handlers interleave.
THEOREM EffectsStayEarned == Spec => []EffectsAreEarned
<1>1. Spec => []TypeOK
  BY TypeCorrect
<1>2. Spec => []Earned
  BY InitEarned, NextEarned, InitTypeOK, NextTypeOK, PTL DEF Spec
<1> QED
  BY <1>1, <1>2, EarnedIsThat, PTL

----------------------------------------------------------------------------
(* Lateness is reported.                                                    *)

\* The counters and the rejections only grow.
LedgerGrows == late \subseteq late' /\ early \subseteq early' /\ lost \subseteq lost'

LEMMA ReportedStays ==
  ASSUME LedgerGrows, NEW r, Reported(r)
  PROVE  Reported(r)'
BY DEF LedgerGrows, Reported

LEMMA InitReported == Init => LatenessIsReported /\ PagesReported
BY DEF Init, LatenessIsReported, PagesReported, Reported, FirstRecord, FreeObj

\* A step after which the document and the objects hold only old records.
LEMMA OldRecordsReported ==
  ASSUME LatenessIsReported, PagesReported, LedgerGrows,
         /\ doc'.inS = doc.inS /\ doc'.outS = doc.outS
         /\ \A o \in Objs : obj'[o].rec \in {obj[o].rec, doc, FreeObj.rec}
  PROVE  LatenessIsReported' /\ PagesReported'
<1>1. Reported(doc) /\ Reported(FreeObj.rec) /\ \A o \in Objs : Reported(obj[o].rec)
  BY DEF LatenessIsReported, PagesReported, Reported, FreeObj, FirstRecord
<1>2. LatenessIsReported'
  BY <1>1 DEF LatenessIsReported, Reported, LedgerGrows
<1>3. PagesReported'
  BY <1>1 DEF PagesReported, Reported, LedgerGrows
<1> QED
  BY <1>2, <1>3

LEMMA UpdateReported ==
  ASSUME TypeOK, LatenessIsReported, NEW j \in Jobs, NEW r \in Record,
         Reported(r), Update(j, r), UNCHANGED <<late, early>>
  PROVE  LatenessIsReported' /\ LedgerGrows
<1>1. LedgerGrows
  BY DEF LedgerGrows, Update, Rejected
<1>2. \/ doc'.inS = doc.inS /\ doc'.outS = doc.outS
      \/ doc' = r
  BY DEF Update, Stored, TypeOK, Record
<1> QED
  BY <1>1, <1>2 DEF LatenessIsReported, Reported, LedgerGrows

LEMMA PageStepsReported ==
  ASSUME TypeOK, LatenessIsReported, PagesReported,
         \/ Tick \/ LoadTimeServer \/ AdminReschedules \/ AdminDeletes \/ Crash
         \/ Dismiss \/ SwitchTab
         \/ \E o \in Objs : TapToday(o) \/ TapTodayAgain(o) \/ OpenDetail(o)
                           \/ TapDetail(o)
         \/ \E o \in Objs, a \in Acts : SheetStep(o, a)
  PROVE  LatenessIsReported' /\ PagesReported'
<1>0. obj \in [Objs -> Page] /\ doc \in Record
  BY DEF TypeOK
<1>1. UNCHANGED ledger
  BY DEF Tick, LoadTimeServer, AdminReschedules, AdminDeletes, Crash, Dismiss,
         SwitchTab, TapToday, TapTodayAgain, OpenDetail, TapDetail, SheetStep, Positioned,
         NotPositioned, SheetOpens, SheetFails
<1>2. LedgerGrows
  BY <1>1 DEF ledger, LedgerGrows
<1>3. doc'.inS = doc.inS /\ doc'.outS = doc.outS
  <2>1. \/ UNCHANGED doc
        \/ \E s : doc' = [doc EXCEPT !.start = s]
        \/ doc' = [doc EXCEPT !.status = "deleted"]
    BY DEF Tick, LoadTimeServer, AdminReschedules, AdminDeletes, Crash, Dismiss,
           SwitchTab, TapToday, TapTodayAgain, OpenDetail, TapDetail, SheetStep, Positioned,
         NotPositioned, SheetOpens, SheetFails
  <2> QED
    BY <1>0, <2>1 DEF Record
<1>4. \A o \in Objs : obj'[o].rec \in {obj[o].rec, doc, FreeObj.rec}
  <2>1. CASE Crash
    BY <2>1 DEF Crash
  <2>2. CASE \E p \in Objs : \E page, opening : Capture(p, page, opening)
    BY <1>0, <2>2 DEF Capture
  <2>3. CASE SwitchTab
    BY <1>0, <2>3 DEF SwitchTab, Page
  <2>4. CASE \E p \in Objs, a \in Acts : \E n :
               \/ obj' = [obj EXCEPT ![p].opening[a] = n]
               \/ obj' = [obj EXCEPT ![p].timing[a] = n]
               \/ \E m : obj' = [obj EXCEPT ![p].opening[a] = n, ![p].timing[a] = m]
    BY <1>0, <2>4 DEF Page
  <2>5. CASE UNCHANGED obj
    BY <2>5
  <2>6. CASE Tick \/ LoadTimeServer \/ AdminReschedules \/ AdminDeletes \/ Dismiss
    BY <2>5, <2>6 DEF Tick, LoadTimeServer, AdminReschedules, AdminDeletes, Dismiss
  <2>7. CASE \E o \in Objs : TapToday(o) \/ OpenDetail(o)
    BY <2>2, <2>7 DEF TapToday, OpenDetail
  <2>8. CASE \E o \in Objs : TapTodayAgain(o) \/ TapDetail(o)
    <3>1. \E p \in Objs, a \in Acts : \E n : obj' = [obj EXCEPT ![p].opening[a] = n]
      BY <2>8 DEF TapTodayAgain, TapDetail, Acts
    <3> QED
      BY <2>4, <3>1
  <2>9. CASE \E o \in Objs, a \in Acts : SheetStep(o, a)
    <3>1. PICK p \in Objs, a \in Acts : SheetStep(p, a)
      BY <2>9
    <3>2. \E n : \/ obj' = [obj EXCEPT ![p].opening[a] = n]
                 \/ obj' = [obj EXCEPT ![p].timing[a] = n]
                 \/ \E m : obj' = [obj EXCEPT ![p].opening[a] = n, ![p].timing[a] = m]
      BY <3>1 DEF SheetStep, Positioned, NotPositioned, SheetOpens, SheetFails
    <3> QED
      BY <2>4, <3>2
  <2> QED
    BY <2>1, <2>3, <2>6, <2>7, <2>8, <2>9
<1> QED
  BY <1>2, <1>3, <1>4, OldRecordsReported

LEMMA JobStepsReported ==
  ASSUME TypeOK, LatenessIsReported, PagesReported, NEW j \in Jobs,
         Tap(j) \/ Reply(j)
  PROVE  LatenessIsReported' /\ PagesReported'
<1>0. /\ obj \in [Objs -> Page] /\ Model(j) \in Record /\ job[j].o \in Objs
      /\ Reported(Model(j))
  BY ModelType DEF TypeOK, PagesReported, Model
<1>1. CASE UNCHANGED <<doc, obj, late, early>> /\ lost \subseteq lost'
  BY <1>1, OldRecordsReported DEF LedgerGrows
<1>2. CASE Counted(j) \/ UserLoaded(j)
  <2>1. Update(j, Model(j)) /\ UNCHANGED <<obj, late, early>>
    BY <1>2 DEF Counted, UserLoaded
  <2>2. LatenessIsReported' /\ LedgerGrows
    BY <1>0, <2>1, UpdateReported
  <2> QED
    BY <2>1, <2>2 DEF PagesReported, Reported, LedgerGrows
<1>3. CASE ClockInTime(j)
  <2>1. PICK r \in Record : r = ClockedIn(Model(j)) /\ r.outS = Model(j).outS
    BY <1>0, ClockedType DEF ClockedIn, Record
  <2>2. /\ obj' = [obj EXCEPT ![job[j].o].rec = r]
        /\ \/ /\ r.inS = "late" /\ Increase(j, late, "late")
              /\ UNCHANGED <<doc, early>>
           \/ r.inS # "late" /\ Update(j, r) /\ UNCHANGED <<late, early>>
    BY <1>3, <2>1 DEF ClockInTime
  <2>3. LatenessIsReported' /\ LedgerGrows /\ Reported(r)'
    <3>1. CASE r.inS = "late" /\ Increase(j, late, "late") /\ UNCHANGED <<doc, early>>
      <4>1. LedgerGrows /\ (j \in late' \/ <<j, "late">> \in lost')
        BY <3>1 DEF Increase, Rejected, LedgerGrows
      <4>2. Reported(r)'
        BY <1>0, <2>1, <4>1 DEF Reported, LedgerGrows
      <4> QED
        BY <3>1, <4>1, <4>2 DEF LatenessIsReported, Reported, LedgerGrows
    <3>2. CASE r.inS # "late" /\ Update(j, r) /\ UNCHANGED <<late, early>>
      <4>1. Reported(r)
        BY <1>0, <2>1, <3>2 DEF Reported
      <4>2. LatenessIsReported' /\ LedgerGrows
        BY <2>1, <3>2, <4>1, UpdateReported
      <4> QED
        BY <4>1, <4>2 DEF Reported, LedgerGrows
    <3> QED
      BY <2>2, <3>1, <3>2
  <2>4. \A o \in Objs : obj'[o].rec = IF o = job[j].o THEN r ELSE obj[o].rec
    BY <1>0, <2>2 DEF Page
  <2> QED
    BY <2>3, <2>4 DEF PagesReported, Reported, LedgerGrows
<1>4. CASE ClockOutTime(j)
  <2>1. PICK r \in Record : r = ClockedOut(Model(j)) /\ r.inS = Model(j).inS
    BY <1>0, ClockedType DEF ClockedOut, Record
  <2>2. /\ obj' = [obj EXCEPT ![job[j].o].rec = r]
        /\ \/ /\ r.outS = "early" /\ Increase(j, early, "early")
              /\ UNCHANGED <<doc, late>>
           \/ r.outS # "early" /\ Update(j, r) /\ UNCHANGED <<late, early>>
    BY <1>4, <2>1 DEF ClockOutTime
  <2>3. LatenessIsReported' /\ LedgerGrows /\ Reported(r)'
    <3>1. CASE r.outS = "early" /\ Increase(j, early, "early") /\ UNCHANGED <<doc, late>>
      <4>1. LedgerGrows /\ (j \in early' \/ <<j, "early">> \in lost')
        BY <3>1 DEF Increase, Rejected, LedgerGrows
      <4>2. Reported(r)'
        BY <1>0, <2>1, <4>1 DEF Reported, LedgerGrows
      <4> QED
        BY <3>1, <4>1, <4>2 DEF LatenessIsReported, Reported, LedgerGrows
    <3>2. CASE r.outS # "early" /\ Update(j, r) /\ UNCHANGED <<late, early>>
      <4>1. Reported(r)
        BY <1>0, <2>1, <3>2 DEF Reported
      <4>2. LatenessIsReported' /\ LedgerGrows
        BY <2>1, <3>2, <4>1, UpdateReported
      <4> QED
        BY <4>1, <4>2 DEF Reported, LedgerGrows
    <3> QED
      BY <2>2, <3>1, <3>2
  <2>4. \A o \in Objs : obj'[o].rec = IF o = job[j].o THEN r ELSE obj[o].rec
    BY <1>0, <2>2 DEF Page
  <2> QED
    BY <2>3, <2>4 DEF PagesReported, Reported, LedgerGrows
<1>5. CASE Tap(j) \/ LocatedInside(j) \/ LocatedOutside(j) \/ NotLocated(j)
           \/ NoTimeServer(j) \/ Close(j) \/ CloseAccept(j)
  <2>1. UNCHANGED <<doc, obj, ledger>>
    BY <1>5 DEF Tap, TapConfirm, TapAskConfirm, TapAskAgain, TapAccept, LocatedInside,
                LocatedOutside, NotLocated, NoTimeServer, Close, CloseAccept
  <2> QED
    BY <2>1, <1>1 DEF ledger
<1>6. CASE CountCompleted(j) \/ PostFeed(j) \/ Notify(j)
  BY <1>6, <1>1 DEF CountCompleted, PostFeed, Notify, Increase, Rejected
<1> QED
  BY <1>2, <1>3, <1>4, <1>5, <1>6 DEF Reply

LEMMA NextReported ==
  TypeOK /\ LatenessIsReported /\ PagesReported /\ [Next]_vars
    => LatenessIsReported' /\ PagesReported'
<1> SUFFICES ASSUME TypeOK, LatenessIsReported, PagesReported, [Next]_vars
             PROVE  LatenessIsReported' /\ PagesReported'
  OBVIOUS
<1>1. CASE UNCHANGED vars
  <2>1. UNCHANGED <<doc, obj, late, early, lost>>
    BY <1>1 DEF vars, ledger
  <2> QED
    BY <2>1, OldRecordsReported DEF LedgerGrows
<1>2. CASE Next
  BY <1>2, PageStepsReported, JobStepsReported DEF Next, SheetStep
<1> QED
  BY <1>1, <1>2

\* A late start or an early finish on record was counted, or its counter was
\* rejected: no stale object carries a mark past the report.
THEOREM LatenessStaysReported == Spec => []LatenessIsReported
<1>1. Spec => [](LatenessIsReported /\ PagesReported)
  BY InitReported, NextReported, InitTypeOK, NextTypeOK, PTL DEF Spec
<1> QED
  BY <1>1, PTL

----------------------------------------------------------------------------
(* The pops match the pushes.                                               *)

\* Popping a stack cut to its first n routes leaves its first n - 1, and none
\* if it was empty.
LEMMA PopCuts ==
  ASSUME NEW s \in Seq(Route), NEW n \in Int, n <= Len(s)
  PROVE  Pop(SubSeq(s, 1, n)) = SubSeq(s, 1, n - 1)
<1>1. CASE n >= 1
  <2>1. SubSeq(s, 1, n) \in Seq(Route) /\ Len(SubSeq(s, 1, n)) = n
    BY <1>1
  <2>2. SubSeq(s, 1, n) # <<>>
    BY <1>1, <2>1
  <2>3. Pop(SubSeq(s, 1, n)) = SubSeq(SubSeq(s, 1, n), 1, n - 1)
    BY <2>1, <2>2 DEF Pop
  <2>4. SubSeq(SubSeq(s, 1, n), 1, n - 1) = SubSeq(s, 1, n - 1)
    BY <1>1, <2>1
  <2> QED
    BY <2>3, <2>4
<1>2. CASE n <= 0
  <2>1. SubSeq(s, 1, n) = <<>> /\ SubSeq(s, 1, n - 1) = <<>>
    BY <1>2
  <2> QED
    BY <2>1 DEF Pop
<1> QED
  BY <1>1, <1>2

LEMMA PopNCuts ==
  ASSUME NEW s \in Seq(Route), NEW n \in {2, 3, 4}
  PROVE  PopN(s, n) = SubSeq(s, 1, Len(s) - n)
<1> DEFINE l == Len(s)
<1>1. l \in Nat /\ SubSeq(s, 1, l) = s
  OBVIOUS
<1>2. Pop(s) = SubSeq(s, 1, l - 1)
  <2>1. l \in Int /\ l <= Len(s)
    BY <1>1
  <2>2. Pop(SubSeq(s, 1, l)) = SubSeq(s, 1, l - 1)
    BY <2>1, PopCuts
  <2> QED
    BY <1>1, <2>2
<1>3. Pop(Pop(s)) = SubSeq(s, 1, l - 2)
  <2>1. l - 1 \in Int /\ l - 1 <= Len(s) /\ (l - 1) - 1 = l - 2
    BY <1>1
  <2> QED
    BY <1>2, <2>1, PopCuts
<1>4. Pop(Pop(Pop(s))) = SubSeq(s, 1, l - 3)
  <2>1. l - 2 \in Int /\ l - 2 <= Len(s) /\ (l - 2) - 1 = l - 3
    BY <1>1
  <2> QED
    BY <1>3, <2>1, PopCuts
<1>5. Pop(Pop(Pop(Pop(s)))) = SubSeq(s, 1, l - 4)
  <2>1. l - 3 \in Int /\ l - 3 <= Len(s) /\ (l - 3) - 1 = l - 4
    BY <1>1
  <2> QED
    BY <1>4, <2>1, PopCuts
<1> QED
  BY <1>3, <1>4, <1>5 DEF PopN

\* A handler's step moves no other handler.
LEMMA OneHandlerMoves ==
  ASSUME TypeOK, NEW k \in Jobs, Tap(k) \/ Reply(k), NEW j \in Jobs, j # k
  PROVE  job'[j] = job[j]
<1>0. job \in [Jobs -> Handler]
  BY DEF TypeOK
<1>1. CASE Tap(k)
  BY <1>0, <1>1 DEF Tap, TapConfirm, TapAskConfirm, TapAskAgain, TapAccept, Process
<1>2. CASE LocatedInside(k) \/ LocatedOutside(k) \/ NotLocated(k) \/ NoTimeServer(k)
           \/ Close(k) \/ CloseAccept(k)
  BY <1>0, <1>2 DEF LocatedInside, LocatedOutside, NotLocated, NoTimeServer, Close,
                    CloseAccept, Process, Goto, End
<1>3. CASE ClockInTime(k) \/ ClockOutTime(k) \/ Counted(k) \/ UserLoaded(k)
  <2>1. \/ \E r : Update(k, r)
        \/ Goto(k, "count")
    BY <1>3 DEF ClockInTime, ClockOutTime, Counted, UserLoaded
  <2> QED
    BY <1>0, <2>1 DEF Update, Goto
<1>4. CASE CountCompleted(k) \/ PostFeed(k) \/ Notify(k)
  BY <1>0, <1>4 DEF CountCompleted, PostFeed, Notify, Goto
<1> QED
  BY <1>1, <1>2, <1>3, <1>4 DEF Reply

\* Only the tail of a confirm handler takes it to its end.
LEMMA DoneByClose ==
  ASSUME TypeOK, [Next]_vars, NEW j \in Jobs, job[j].act \in Acts,
         job[j].pc # "done", job'[j].pc = "done"
  PROVE  Close(j)
<1>0. job \in [Jobs -> Handler] /\ job[j] \in Handler
  BY DEF TypeOK
<1>1. job'[j] # job[j]
  OBVIOUS
<1>2. ~Crash
  <2> SUFFICES ASSUME Crash PROVE FALSE
    OBVIOUS
  <2>1. job'[j] = IF job[j].pc = "idle" THEN job[j]
                  ELSE [job[j] EXCEPT !.pc = "dead", !.inside = TRUE, !.ok = FALSE]
    BY DEF Crash
  <2> QED
    BY <1>0, <1>1, <2>1 DEF Handler
<1>3. Tap(j) \/ Reply(j)
  <2>1. CASE \E k \in Jobs : Tap(k) \/ Reply(k)
    BY <1>1, <2>1, OneHandlerMoves
  <2>2. CASE UNCHANGED job
    BY <1>1, <2>2
  <2>3. CASE \/ Tick \/ LoadTimeServer \/ AdminReschedules \/ AdminDeletes
             \/ Dismiss \/ SwitchTab
    BY <2>2, <2>3 DEF Tick, LoadTimeServer, AdminReschedules, AdminDeletes, Dismiss,
                      SwitchTab
  <2>4. CASE \E o \in Objs : TapToday(o) \/ TapTodayAgain(o) \/ OpenDetail(o)
                            \/ TapDetail(o)
    BY <2>2, <2>4 DEF TapToday, TapTodayAgain, OpenDetail, TapDetail
  <2>5. CASE \E o \in Objs, a \in Acts : SheetStep(o, a)
    BY <2>2, <2>5 DEF SheetStep, Positioned, NotPositioned, SheetOpens, SheetFails
  <2> QED
    BY <1>2, <2>1, <2>2, <2>3, <2>4, <2>5 DEF Next, SheetStep, vars
<1>4. ~Tap(j)
  BY <1>0 DEF Tap, TapConfirm, TapAskConfirm, TapAskAgain, TapAccept, Process, Handler
<1>5. ~(LocatedInside(j) \/ LocatedOutside(j) \/ NotLocated(j) \/ NoTimeServer(j))
  BY <1>0 DEF LocatedInside, LocatedOutside, NotLocated, NoTimeServer, Process, Goto,
              End, Handler
<1>6. ~(ClockInTime(j) \/ ClockOutTime(j) \/ Counted(j) \/ UserLoaded(j))
  <2>1. ASSUME ClockInTime(j) \/ ClockOutTime(j) \/ Counted(j) \/ UserLoaded(j)
        PROVE  (\E r : Update(j, r)) \/ Goto(j, "count")
    BY <2>1 DEF ClockInTime, ClockOutTime, Counted, UserLoaded
  <2> QED
    BY <1>0, <2>1 DEF Update, Goto, Handler
<1>7. ~(CountCompleted(j) \/ PostFeed(j) \/ Notify(j))
  BY <1>0 DEF CountCompleted, PostFeed, Notify, Goto, Handler
<1>8. ~CloseAccept(j)
  BY DEF CloseAccept, Acts
<1> QED
  BY <1>3, <1>4, <1>5, <1>6, <1>7, <1>8 DEF Reply

\* How many routes the handler's own suffix has.
LEMMA OwnSuffixLength ==
  ASSUME TypeOK, NEW j \in Jobs, NEW i \in DOMAIN routes, OwnSuffixFrom(j, i)
  PROVE  Len(routes) = i + (IF job[j].inside THEN 1 ELSE 2)
<1>1. routes \in Seq(Route) /\ i \in 1 .. Len(routes) /\ Len(routes) \in Nat
  BY DEF TypeOK
<1>2. Len(SubSeq(routes, i, Len(routes))) = Len(routes) - i + 1
  BY <1>1
<1>3. CASE job[j].inside
  <2>1. SubSeq(routes, i, Len(routes)) = <<Sheet(job[j].o, job[j].act)>> \o <<Overlay>>
    BY <1>3 DEF OwnSuffixFrom, Own
  <2>2. Len(SubSeq(routes, i, Len(routes))) = 2
    BY <2>1
  <2> QED
    BY <1>1, <1>2, <1>3, <2>2
<1>4. CASE ~job[j].inside
  <2>1. SubSeq(routes, i, Len(routes))
          = <<Sheet(job[j].o, job[j].act)>> \o <<Ask(j), Overlay>>
    BY <1>4 DEF OwnSuffixFrom, Own
  <2>2. Len(SubSeq(routes, i, Len(routes))) = 3
    BY <2>1
  <2> QED
    BY <1>1, <1>2, <1>4, <2>2
<1> QED
  BY <1>3, <1>4

\* A handler that ends takes away exactly the sheet, the dialog, the overlay and
\* the page that are its own, for any stack below them.
THEOREM PopsDoMatchPushes == Spec => PopsMatchPushes
<1>1. Spec => []TypeOK
  BY TypeCorrect
<1>2. ASSUME TypeOK, [Next]_vars
      PROVE  \A j \in Jobs, i \in DOMAIN routes :
               /\ job[j].act \in Acts /\ job[j].pc # "done" /\ job'[j].pc = "done"
               /\ OwnSuffixFrom(j, i)
               => routes' = SubSeq(routes, 1, LeftBelow(j, i))
  <2> SUFFICES ASSUME NEW j \in Jobs, NEW i \in DOMAIN routes,
                      job[j].act \in Acts, job[j].pc # "done", job'[j].pc = "done",
                      OwnSuffixFrom(j, i)
               PROVE  routes' = SubSeq(routes, 1, LeftBelow(j, i))
    OBVIOUS
  <2>0. /\ routes \in Seq(Route) /\ i \in Nat /\ Len(routes) \in Nat
        /\ job \in [Jobs -> Handler] /\ job[j] \in Handler
    BY <1>2 DEF TypeOK
  <2>1. Close(j)
    BY <1>2, DoneByClose
  <2>2. Context(j)
    <3>1. job'[j].pc = IF Context(j) THEN "done" ELSE "dead"
      BY <2>0, <2>1 DEF Close, End, Handler
    <3> QED
      BY <3>1
  <2>3. routes' = PopN(routes, Pops(j))
    BY <2>1, <2>2 DEF Close
  <2>4. Len(routes) = i + (IF job[j].inside THEN 1 ELSE 2)
    BY <1>2, OwnSuffixLength
  <2>5. Pops(j) \in {2, 3, 4} /\ Len(routes) - Pops(j) = LeftBelow(j, i)
    BY <2>0, <2>4 DEF Pops, LeftBelow
  <2> QED
    BY <2>0, <2>3, <2>5, PopNCuts
<1>3. TypeOK /\ [Next]_vars
        => [\A j \in Jobs, i \in DOMAIN routes :
              /\ job[j].act \in Acts /\ job[j].pc # "done" /\ job'[j].pc = "done"
              /\ OwnSuffixFrom(j, i)
              => routes' = SubSeq(routes, 1, LeftBelow(j, i))]_vars
  BY <1>2
<1> QED
  BY <1>1, <1>3, PTL DEF Spec, PopsMatchPushes

----------------------------------------------------------------------------
(* Nothing is owed.                                                         *)

Owed == \A k \in Jobs : OwedBy(k)

LEMMA OwedIsEnough == TypeOK /\ Owed => NothingIsOwed
<1> SUFFICES ASSUME TypeOK, Owed, NEW j \in wrote, crashes = 0, ~Active(j)
             PROVE  FollowedUp(j)
  BY DEF NothingIsOwed
<1>1. j \in Jobs /\ OwedBy(j)
  BY DEF TypeOK, Owed
<1> QED
  BY <1>1 DEF OwedBy, Active

LEMMA InitOwed == Init => Owed
BY DEF Init, Owed, OwedBy

\* What a handler has tried stays tried.
TriedGrows ==
  /\ completed \subseteq completed' /\ lost \subseteq lost'
  /\ feeds \subseteq feeds' /\ notified \subseteq notified'

LEMMA SameHandlerOwes ==
  ASSUME NEW k \in Jobs, OwedBy(k), job'[k] = job[k], k \in wrote' => k \in wrote,
         crashes' = 0 => crashes = 0, TriedGrows
  PROVE  OwedBy(k)'
BY DEF OwedBy, TriedGrows, FollowedUp, Tried

\* A step of handler j, after which j owes nothing, leaves no handler owing.
LEMMA OwedByOthers ==
  ASSUME TypeOK, Owed, NEW j \in Jobs, Tap(j) \/ Reply(j),
         wrote' \subseteq wrote \cup {j}, TriedGrows, OwedBy(j)'
  PROVE  Owed'
<1>1. UNCHANGED crashes
  BY DEF Tap, TapConfirm, TapAskConfirm, TapAskAgain, TapAccept, Reply, LocatedInside,
         LocatedOutside, NotLocated, ClockInTime, ClockOutTime, NoTimeServer, Counted,
         CountCompleted, PostFeed, Close, UserLoaded, Notify, CloseAccept
<1>2. ASSUME NEW k \in Jobs, k # j PROVE OwedBy(k)'
  <2>1. job'[k] = job[k]
    BY <1>2, OneHandlerMoves
  <2> QED
    BY <1>1, <1>2, <2>1, SameHandlerOwes DEF Owed
<1> QED
  BY <1>2 DEF Owed

\* The update's answer: accepted, the handler goes on from there; rejected, it
\* is as before among those whose update was not accepted.
LEMMA UpdateOwed ==
  ASSUME TypeOK, Owed, NEW j \in Jobs, Reply(j), NEW r, Update(j, r),
         job[j].pc \in {"ntp", "count", "user"}, UNCHANGED <<crashes, completed, feeds, notified>>
  PROVE  Owed'
<1>0. job \in [Jobs -> Handler] /\ job[j] \in Handler /\ OwedBy(j)
  BY DEF TypeOK, Owed
<1>1. crashes = 0 => j \notin wrote
  BY <1>0 DEF OwedBy
<1>2. /\ wrote' \subseteq wrote \cup {j} /\ TriedGrows
      /\ OwedBy(j)'
  <2>1. CASE wrote' = wrote \cup {j} /\ UNCHANGED lost
             /\ job' = [job EXCEPT ![j].pc = "write", ![j].ok = TRUE]
    <3>1. job'[j].pc = "write" /\ job'[j].ok
      BY <1>0, <2>1 DEF Handler
    <3> QED
      BY <2>1, <3>1 DEF TriedGrows, OwedBy
  <2>2. CASE wrote' = wrote /\ lost \subseteq lost'
    BY <1>1, <2>2 DEF TriedGrows, OwedBy
  <2> QED
    BY <2>1, <2>2 DEF Update, Rejected
<1> QED
  BY <1>2, OwedByOthers

LEMMA JobStepsOwed ==
  ASSUME TypeOK, Owed, NEW j \in Jobs, Tap(j) \/ Reply(j)
  PROVE  Owed'
<1>0. job \in [Jobs -> Handler] /\ job[j] \in Handler /\ OwedBy(j) /\ crashes \in Nat
  BY DEF TypeOK, Owed
<1>1. ASSUME UNCHANGED ledger, OwedBy(j)' PROVE Owed'
  BY <1>1, OwedByOthers DEF ledger, TriedGrows
<1>2. CASE Tap(j) \/ LocatedInside(j) \/ LocatedOutside(j) \/ NotLocated(j)
           \/ NoTimeServer(j)
  <2>1. UNCHANGED <<ledger, crashes>> /\ job[j].pc \in {"idle", "ask", "locate", "ntp"}
    BY <1>2 DEF Tap, TapConfirm, TapAskConfirm, TapAskAgain, TapAccept, LocatedInside,
                LocatedOutside, NotLocated, NoTimeServer, At
  <2>2. OwedBy(j)'
    BY <1>0, <2>1 DEF OwedBy, ledger
  <2> QED
    BY <1>1, <2>1, <2>2
<1>3. CASE ClockInTime(j) \/ ClockOutTime(j)
  <2>1. /\ job[j].pc = "ntp" /\ UNCHANGED <<crashes, completed, feeds, notified>>
        /\ \/ \E r : Update(j, r)
           \/ /\ Goto(j, "count") /\ UNCHANGED wrote
              /\ \E c \in {"late", "early"} : lost' = lost \/ Rejected(j, c)
    BY <1>3 DEF ClockInTime, ClockOutTime, At, Increase
  <2>2. CASE \E r : Update(j, r)
    BY <1>3, <2>1, <2>2, UpdateOwed DEF Reply
  <2>3. CASE UNCHANGED wrote /\ lost \subseteq lost'
    <3>1. OwedBy(j)' /\ TriedGrows
      BY <1>0, <2>1, <2>3 DEF OwedBy, TriedGrows
    <3> QED
      BY <2>3, <3>1, OwedByOthers
  <2> QED
    BY <2>1, <2>2, <2>3 DEF Rejected
<1>4. CASE Counted(j) \/ UserLoaded(j)
  BY <1>4, UpdateOwed DEF Reply, Counted, UserLoaded, At
<1>5. CASE CountCompleted(j)
  <2>1. /\ job'[j].pc = "completed" /\ job'[j].act = "out"
        /\ j \in completed' \/ <<j, "completed">> \in lost'
        /\ UNCHANGED wrote /\ TriedGrows
    BY <1>0, <1>5
       DEF CountCompleted, At, Goto, Handler, Increase, Rejected, TriedGrows
  <2>2. OwedBy(j)'
    BY <2>1 DEF OwedBy, Tried
  <2> QED
    BY <2>1, <2>2, OwedByOthers
<1>6. CASE PostFeed(j)
  <2>1. /\ job'[j].pc = "feed" /\ job'[j].act = job[j].act
        /\ j \in feeds' \/ <<j, "feed">> \in lost'
        /\ \/ job[j].pc = "completed"
           \/ job[j].pc = "write" /\ job[j].act # "out"
        /\ UNCHANGED <<crashes, wrote>> /\ TriedGrows
    BY <1>0, <1>6 DEF PostFeed, At, Goto, Handler, Increase, Rejected, TriedGrows
  <2>2. OwedBy(j)'
    BY <1>0, <2>1 DEF OwedBy, Tried, TriedGrows
  <2> QED
    BY <2>1, <2>2, OwedByOthers
<1>7. CASE Notify(j)
  <2>1. /\ job[j].pc = "feed" /\ job'[j].pc = "notify"
        /\ job[j].act = "accept" /\ job'[j].act = "accept"
        /\ j \in notified' \/ <<j, "notification">> \in lost'
        /\ UNCHANGED <<crashes, wrote>> /\ TriedGrows
    BY <1>0, <1>7 DEF Notify, At, Goto, Handler, Increase, Rejected, TriedGrows
  <2>2. OwedBy(j)'
    BY <1>0, <2>1 DEF OwedBy, FollowedUp, Tried, TriedGrows
  <2> QED
    BY <2>1, <2>2, OwedByOthers
<1>8. CASE Close(j) \/ CloseAccept(j)
  <2>1. /\ job'[j].pc \in {"done", "dead"} /\ job'[j].act = job[j].act
        /\ UNCHANGED <<crashes, ledger>>
        /\ \/ job[j].pc = "feed" /\ job[j].act \in Acts
           \/ job[j].pc = "notify"
           \/ job[j].pc = "write" /\ ~job[j].ok
    BY <1>0, <1>8 DEF Close, CloseAccept, At, End, Handler
  <2>2. OwedBy(j)'
    BY <1>0, <2>1 DEF OwedBy, FollowedUp, Tried, ledger, Acts
  <2> QED
    BY <1>1, <2>1, <2>2
<1> QED
  BY <1>2, <1>3, <1>4, <1>5, <1>6, <1>7, <1>8 DEF Reply

LEMMA NextOwed == TypeOK /\ Owed /\ [Next]_vars => Owed'
<1> SUFFICES ASSUME TypeOK, Owed, [Next]_vars PROVE Owed'
  OBVIOUS
<1>1. CASE UNCHANGED <<job, ledger, crashes>>
  <2>1. TriedGrows /\ UNCHANGED <<job, wrote, crashes>>
    BY <1>1 DEF TriedGrows, ledger
  <2> QED
    BY <2>1, SameHandlerOwes DEF Owed
<1>2. CASE Crash
  <2>1. crashes \in Nat /\ crashes' = crashes + 1
    BY <1>2 DEF Crash, TypeOK
  <2>2. crashes' # 0
    BY <2>1
  <2> QED
    BY <2>2 DEF Owed, OwedBy
<1>3. CASE \E j \in Jobs : Tap(j) \/ Reply(j)
  BY <1>3, JobStepsOwed
<1>4. CASE \/ Tick \/ LoadTimeServer \/ AdminReschedules \/ AdminDeletes
           \/ Dismiss \/ SwitchTab
  BY <1>1, <1>4 DEF Tick, LoadTimeServer, AdminReschedules, AdminDeletes, Dismiss,
                    SwitchTab
<1>5. CASE \E o \in Objs : TapToday(o) \/ TapTodayAgain(o) \/ OpenDetail(o)
                          \/ TapDetail(o)
  BY <1>1, <1>5 DEF TapToday, TapTodayAgain, OpenDetail, TapDetail
<1>6. CASE \E o \in Objs, a \in Acts : SheetStep(o, a)
  BY <1>1, <1>6 DEF SheetStep, Positioned, NotPositioned, SheetOpens, SheetFails
<1> QED
  BY <1>1, <1>2, <1>3, <1>4, <1>5, <1>6 DEF Next, SheetStep, vars

\* No handler ends between its accepted update and what has to follow it,
\* whatever page was closed meanwhile and whichever writes were rejected.
THEOREM NothingStaysOwed == Spec => []NothingIsOwed
<1>1. Spec => []TypeOK
  BY TypeCorrect
<1>2. Spec => []Owed
  BY InitOwed, NextOwed, InitTypeOK, NextTypeOK, PTL DEF Spec
<1> QED
  BY <1>1, <1>2, OwedIsEnough, PTL
=============================================================================
