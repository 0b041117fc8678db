------------------------ MODULE TaskAttendanceProofs ------------------------
(****************************************************************************)
(* Proof that TaskClock implements Attendance, for any number of pages,     *)
(* handlers and taps, on the invariants that TaskClockProofs establishes.   *)
(****************************************************************************)
EXTENDS TaskAttendance, TaskClockProofs

----------------------------------------------------------------------------
(* What leaves the abstract state alone.                                    *)

LEMMA CopyStays ==
  ASSUME \A o \in Objs : /\ obj'[o].rec = obj[o].rec
                         /\ obj'[o].use = "free" <=> obj[o].use = "free"
  PROVE  Copy' = Copy
BY DEF Copy

LEMMA ToldStays ==
  ASSUME UNCHANGED <<late, early>>,
         \/ UNCHANGED lost
         \/ \E j \in Jobs, w \in Writes \ {"late", "early"} : lost' = lost \cup {<<j, w>>}
  PROVE  Told' = Told
<1>1. \A j \in Jobs : /\ <<j, "late">> \in lost' <=> <<j, "late">> \in lost
                      /\ <<j, "early">> \in lost' <=> <<j, "early">> \in lost
  OBVIOUS
<1> QED
  BY <1>1 DEF Told

\* A counter that was tried was told.
LEMMA ToldOf ==
  ASSUME NEW r, Reported(r)
  PROVE  Abstract!Marks(r) \subseteq Told
BY DEF Reported, Abstract!Marks, Told

\* A rejected update leaves everything; an accepted one is an acceptance or
\* sends the copy.
LEMMA UpdateSends ==
  ASSUME TypeOK, NEW j \in Jobs, Update(j, Model(j)), Reported(Model(j)),
         obj[job[j].o].use # "free", UNCHANGED <<now, obj, late, early>>
  PROVE  [Abstract!Next]_(Abstract!vars)
<1>1. Copy' = Copy
  BY CopyStays
<1>2. Told' = Told
  BY ToldStays DEF Update, Rejected, Writes
<1>3. CASE UNCHANGED doc
  BY <1>1, <1>2, <1>3 DEF Abstract!vars
<1>4. CASE doc' = Stored(j, Model(j)) /\ job[j].act = "accept"
  <2>1. Abstract!Accept
    BY <1>1, <1>2, <1>4 DEF Stored, Abstract!Accept
  <2> QED
    BY <2>1 DEF Abstract!Next
<1>5. CASE doc' = Stored(j, Model(j)) /\ job[j].act # "accept"
  <2>1. job[j].o \in DOMAIN Copy /\ Copy[job[j].o] = Model(j) /\ job[j].o \in Objs
    BY DEF TypeOK, Handler, Copy, Model
  <2>2. Abstract!Send(job[j].o)
    BY <1>1, <1>2, <1>5, <2>1, ToldOf DEF Stored, Abstract!Send
  <2> QED
    BY <2>1, <2>2 DEF Abstract!Next
<1> QED
  BY <1>3, <1>4, <1>5 DEF Update

----------------------------------------------------------------------------
(* The surroundings and the pages.                                          *)

LEMMA TakeRefines ==
  ASSUME TypeOK, NEW o \in Objs, NEW page, NEW opening,
         Capture(o, page, opening), obj[o].use = "free",
         UNCHANGED <<now, doc, ledger>>
  PROVE  Abstract!Take(o)
<1>1. \A p \in Objs : /\ obj'[p].rec = IF p = o THEN doc ELSE obj[p].rec
                      /\ obj'[p].use # "free" <=> p = o \/ obj[p].use # "free"
  BY DEF Capture, TypeOK
<1>2. o \notin DOMAIN Copy
  BY DEF Copy
<1>3. Copy' = [k \in DOMAIN Copy \cup {o} |-> IF k = o THEN doc ELSE Copy[k]]
  BY <1>1 DEF Copy
<1>4. Told' = Told
  BY ToldStays DEF ledger
<1> QED
  BY <1>2, <1>3, <1>4 DEF Abstract!Take

LEMMA PageStepsRefine ==
  ASSUME TypeOK,
         \/ Tick \/ LoadTimeServer \/ AdminReschedules \/ AdminDeletes \/ Crash
         \/ Dismiss \/ SwitchTab
         \/ \E o \in Objs : TapToday(o) \/ TapTodayAgain(o) \/ OpenDetail(o)
                           \/ TapDetail(o)
         \/ \E o \in Objs, a \in Acts : SheetStep(o, a)
  PROVE  [Abstract!Next]_(Abstract!vars)
<1>0. obj \in [Objs -> Page] /\ doc \in Record
  BY DEF TypeOK
<1>1. CASE Tick
  <2>1. Copy' = Copy /\ Told' = Told
    BY <1>1, CopyStays, ToldStays DEF Tick, ledger
  <2>2. Abstract!Tick
    BY <1>1, <2>1 DEF Tick, Abstract!Tick
  <2> QED
    BY <2>2 DEF Abstract!Next
<1>2. CASE AdminReschedules \/ AdminDeletes
  <2>1. Copy' = Copy /\ Told' = Told
    BY <1>2, CopyStays, ToldStays DEF AdminReschedules, AdminDeletes, ledger
  <2>2. Abstract!Reschedule \/ Abstract!Delete
    BY <1>2, <2>1 DEF AdminReschedules, AdminDeletes, Abstract!Reschedule,
                      Abstract!Delete
  <2> QED
    BY <2>2 DEF Abstract!Next
<1>3. CASE Crash
  <2>1. Copy' = Abstract!Nothing
    BY <1>3 DEF Crash, Copy, FreeObj, Abstract!Nothing
  <2>2. Told' = Told
    BY <1>3, ToldStays DEF Crash, ledger
  <2>3. Abstract!ForgetAll
    BY <1>3, <2>1, <2>2 DEF Crash, Abstract!ForgetAll
  <2> QED
    BY <2>3 DEF Abstract!Next
<1>4. CASE \E o \in Objs : TapToday(o) \/ OpenDetail(o)
  <2>1. PICK o \in Objs : TapToday(o) \/ OpenDetail(o)
    BY <1>4
  <2>2. \E page, opening : Capture(o, page, opening)
    BY <2>1 DEF TapToday, OpenDetail
  <2>3. obj[o].use = "free" /\ UNCHANGED <<now, doc, ledger>>
    BY <2>1 DEF TapToday, OpenDetail
  <2>4. Abstract!Take(o)
    BY <2>2, <2>3, TakeRefines
  <2> QED
    BY <2>4 DEF Abstract!Next
<1>5. ASSUME UNCHANGED <<now, doc, ledger>>,
             \A o \in Objs : /\ obj'[o].rec = obj[o].rec
                             /\ obj'[o].use = "free" <=> obj[o].use = "free"
      PROVE  UNCHANGED Abstract!vars
  BY <1>5, CopyStays, ToldStays DEF ledger, Abstract!vars
<1>6. CASE LoadTimeServer \/ Dismiss \/ SwitchTab
  <2>1. UNCHANGED <<now, doc, ledger>>
    BY <1>6 DEF LoadTimeServer, Dismiss, SwitchTab
  <2>2. \A o \in Objs : /\ obj'[o].rec = obj[o].rec
                        /\ obj'[o].use = "free" <=> obj[o].use = "free"
    BY <1>0, <1>6 DEF LoadTimeServer, Dismiss, SwitchTab, Page
  <2> QED
    BY <2>1, <2>2, <1>5
<1>7. ASSUME UNCHANGED <<now, doc, ledger>>,
             \E p \in Objs, a \in Acts : \E n :
               \/ obj' = [obj EXCEPT ![p].opening[a] = n]
               \/ obj' = [obj EXCEPT ![p].timing[a] = n]
               \/ \E m : obj' = [obj EXCEPT ![p].opening[a] = n, ![p].timing[a] = m]
      PROVE  UNCHANGED Abstract!vars
  <2>1. PICK p \in Objs, a \in Acts : \E n :
          \/ obj' = [obj EXCEPT ![p].opening[a] = n]
          \/ obj' = [obj EXCEPT ![p].timing[a] = n]
          \/ \E m : obj' = [obj EXCEPT ![p].opening[a] = n, ![p].timing[a] = m]
    BY <1>7
  <2>2. \E q : obj' = [obj EXCEPT ![p] = q]
               /\ q.rec = obj[p].rec /\ q.use = obj[p].use
    <3>1. obj[p] \in Page /\ p \in Objs
      BY <1>0
    <3>2. CASE \E n : obj' = [obj EXCEPT ![p].opening[a] = n]
      <4>1. PICK n : obj' = [obj EXCEPT ![p].opening[a] = n]
        BY <3>2
      <4>2. obj' = [obj EXCEPT ![p] = [obj[p] EXCEPT !.opening[a] = n]]
        BY <4>1
      <4>3. /\ [obj[p] EXCEPT !.opening[a] = n].rec = obj[p].rec
            /\ [obj[p] EXCEPT !.opening[a] = n].use = obj[p].use
        BY <3>1 DEF Page
      <4> QED
        BY <4>2, <4>3
    <3>3. CASE \E n : obj' = [obj EXCEPT ![p].timing[a] = n]
      <4>1. PICK n : obj' = [obj EXCEPT ![p].timing[a] = n]
        BY <3>3
      <4>2. obj' = [obj EXCEPT ![p] = [obj[p] EXCEPT !.timing[a] = n]]
        BY <4>1
      <4>3. /\ [obj[p] EXCEPT !.timing[a] = n].rec = obj[p].rec
            /\ [obj[p] EXCEPT !.timing[a] = n].use = obj[p].use
        BY <3>1 DEF Page
      <4> QED
        BY <4>2, <4>3
    <3>4. CASE \E n, m : obj' = [obj EXCEPT ![p].opening[a] = n, ![p].timing[a] = m]
      <4>1. PICK n, m : obj' = [obj EXCEPT ![p].opening[a] = n, ![p].timing[a] = m]
        BY <3>4
      <4>2. obj' = [obj EXCEPT ![p] = [obj[p] EXCEPT !.opening[a] = n, !.timing[a] = m]]
        BY <1>0, <3>1, <4>1
      <4>3. /\ [obj[p] EXCEPT !.opening[a] = n, !.timing[a] = m].rec = obj[p].rec
            /\ [obj[p] EXCEPT !.opening[a] = n, !.timing[a] = m].use = obj[p].use
        BY <3>1 DEF Page
      <4> QED
        BY <4>2, <4>3
    <3> QED
      BY <2>1, <3>2, <3>3, <3>4
  <2>3. \A o \in Objs : /\ obj'[o].rec = obj[o].rec
                        /\ obj'[o].use = "free" <=> obj[o].use = "free"
    BY <1>0, <2>2
  <2> QED
    BY <1>7, <2>3, <1>5
<1>8. CASE \E o \in Objs : TapTodayAgain(o) \/ TapDetail(o)
  <2>1. UNCHANGED <<now, doc, ledger>>
    BY <1>8 DEF TapTodayAgain, TapDetail
  <2>2. \E p \in Objs, a \in Acts : \E n : obj' = [obj EXCEPT ![p].opening[a] = n]
    BY <1>8 DEF TapTodayAgain, TapDetail, Acts
  <2> QED
    BY <2>1, <2>2, <1>7
<1>9. CASE \E o \in Objs, a \in Acts : SheetStep(o, a)
  <2>1. PICK p \in Objs, a \in Acts : SheetStep(p, a)
    BY <1>9
  <2>2. UNCHANGED <<now, doc, ledger>>
    BY <2>1 DEF SheetStep, Positioned, NotPositioned, SheetOpens, SheetFails
  <2>3. \E n : \/ obj' = [obj EXCEPT ![p].opening[a] = n]
               \/ obj' = [obj EXCEPT ![p].timing[a] = n]
               \/ \E m : obj' = [obj EXCEPT ![p].opening[a] = n, ![p].timing[a] = m]
    BY <2>1 DEF SheetStep, Positioned, NotPositioned, SheetOpens, SheetFails
  <2> QED
    BY <2>2, <2>3, <1>7
<1> QED
  BY <1>1, <1>2, <1>3, <1>4, <1>6, <1>8, <1>9

----------------------------------------------------------------------------
(* The handlers.                                                            *)

\* A handler's stamp of its object, sent at once or told first.
LEMMA StampRefines ==
  ASSUME TypeOK, NEW j \in Jobs, NEW r \in Record, job[j].act \in Acts,
         obj[job[j].o].use # "free",
         obj' = [obj EXCEPT ![job[j].o].rec = r], UNCHANGED now,
         \/ /\ UNCHANGED doc /\ Told' = Told \cup Abstract!Marks(r)
         \/ /\ Reported(r) /\ Update(j, r) /\ UNCHANGED <<late, early>>
  PROVE  Abstract!Stamp(job[j].o, r)
<1>1. job[j].o \in DOMAIN Copy /\ job[j].o \in Objs
  BY DEF TypeOK, Handler, Copy
<1>2. \A o \in Objs : /\ obj'[o].rec = IF o = job[j].o THEN r ELSE obj[o].rec
                      /\ obj'[o].use = obj[o].use
  BY <1>1 DEF TypeOK, Page
<1>3. Copy' = [Copy EXCEPT ![job[j].o] = r]
  BY <1>1, <1>2 DEF Copy
<1>4. CASE UNCHANGED doc /\ Told' = Told \cup Abstract!Marks(r)
  BY <1>3, <1>4 DEF Abstract!Stamp
<1>5. CASE Reported(r) /\ Update(j, r) /\ UNCHANGED <<late, early>>
  <2>1. Told' = Told
    BY <1>5, ToldStays DEF Update, Rejected, Writes
  <2>2. Abstract!Marks(r) \subseteq Told
    BY <1>5, ToldOf
  <2>3. UNCHANGED doc \/ doc' = r
    BY <1>5 DEF Update, Stored, Acts
  <2> QED
    BY <1>3, <2>1, <2>2, <2>3 DEF Abstract!Stamp
<1> QED
  BY <1>4, <1>5

LEMMA JobStepsRefine ==
  ASSUME TypeOK, Readiness, PagesReported, NEW j \in Jobs, Tap(j) \/ Reply(j)
  PROVE  [Abstract!Next]_(Abstract!vars)
<1>0. /\ obj \in [Objs -> Page] /\ Model(j) \in Record /\ job[j].o \in Objs
      /\ Reported(Model(j))
  BY ModelType DEF TypeOK, PagesReported, Model
<1>1. /\ Active(j) => obj[job[j].o].use # "free"
      /\ Active(j) /\ job[j].act = "out" => Model(j).at # NoTime
  BY DEF Readiness, HandlersReady, Ready, Model
<1>2. CASE Counted(j) \/ UserLoaded(j)
  <2>1. Update(j, Model(j)) /\ UNCHANGED <<now, obj, late, early>> /\ Active(j)
    BY <1>2 DEF Counted, UserLoaded, At, Active
  <2> QED
    BY <1>0, <1>1, <2>1, UpdateSends
<1>3. CASE ClockInTime(j)
  <2>1. PICK r \in Record : r = ClockedIn(Model(j)) /\ r.outS = Model(j).outS
    BY <1>0, ClockedType DEF ClockedIn, Record
  <2>2. /\ obj' = [obj EXCEPT ![job[j].o].rec = r] /\ UNCHANGED now
        /\ Active(j) /\ job[j].act \in Acts
        /\ \/ /\ r.inS = "late" /\ Increase(j, late, "late")
              /\ UNCHANGED <<doc, early>>
           \/ r.inS # "late" /\ Update(j, r) /\ UNCHANGED <<late, early>>
    BY <1>3, <2>1 DEF ClockInTime, At, Active, Acts
  <2>3. \/ UNCHANGED doc /\ Told' = Told \cup Abstract!Marks(r)
        \/ Reported(r) /\ Update(j, r) /\ UNCHANGED <<late, early>>
    <3>1. CASE r.inS = "late" /\ Increase(j, late, "late") /\ UNCHANGED <<doc, early>>
      <4>1. /\ \E k \in Jobs : k \in late' \/ <<k, "late">> \in lost'
            /\ \A k \in Jobs : <<k, "early">> \in lost' <=> <<k, "early">> \in lost
        BY <3>1 DEF Increase, Rejected
      <4>2. r.outS = "early" => "early" \in Told
        BY <1>0, <2>1 DEF Reported, Told
      <4> QED
        BY <3>1, <4>1, <4>2 DEF Told, Abstract!Marks
    <3>2. CASE r.inS # "late" /\ Update(j, r) /\ UNCHANGED <<late, early>>
      BY <1>0, <2>1, <3>2 DEF Reported
    <3> QED
      BY <2>2, <3>1, <3>2
  <2>4. Abstract!Stamp(job[j].o, r)
    BY <1>1, <2>2, <2>3, StampRefines
  <2>5. job[j].o \in DOMAIN Copy /\ Copy[job[j].o] = Model(j)
    BY <1>0, <1>1, <2>2 DEF Copy, Model
  <2>6. r = Abstract!StampedIn(Copy[job[j].o])
    BY <2>1, <2>5 DEF ClockedIn, Abstract!StampedIn, Compare, Abstract!Compare
  <2>7. Abstract!StampIn(job[j].o)
    BY <2>4, <2>5, <2>6 DEF Abstract!StampIn
  <2> QED
    BY <1>0, <2>7 DEF Abstract!Next
<1>4. CASE ClockOutTime(j)
  <2>1. PICK r \in Record : r = ClockedOut(Model(j)) /\ r.inS = Model(j).inS
    BY <1>0, ClockedType DEF ClockedOut, Record
  <2>2. /\ obj' = [obj EXCEPT ![job[j].o].rec = r] /\ UNCHANGED now
        /\ Active(j) /\ job[j].act = "out"
        /\ \/ /\ r.outS = "early" /\ Increase(j, early, "early")
              /\ UNCHANGED <<doc, late>>
           \/ r.outS # "early" /\ Update(j, r) /\ UNCHANGED <<late, early>>
    BY <1>4, <2>1 DEF ClockOutTime, At, Active
  <2>3. \/ UNCHANGED doc /\ Told' = Told \cup Abstract!Marks(r)
        \/ Reported(r) /\ Update(j, r) /\ UNCHANGED <<late, early>>
    <3>1. CASE r.outS = "early" /\ Increase(j, early, "early") /\ UNCHANGED <<doc, late>>
      <4>1. /\ \E k \in Jobs : k \in early' \/ <<k, "early">> \in lost'
            /\ \A k \in Jobs : <<k, "late">> \in lost' <=> <<k, "late">> \in lost
        BY <3>1 DEF Increase, Rejected
      <4>2. r.inS = "late" => "late" \in Told
        BY <1>0, <2>1 DEF Reported, Told
      <4> QED
        BY <3>1, <4>1, <4>2 DEF Told, Abstract!Marks
    <3>2. CASE r.outS # "early" /\ Update(j, r) /\ UNCHANGED <<late, early>>
      BY <1>0, <2>1, <3>2 DEF Reported
    <3> QED
      BY <2>2, <3>1, <3>2
  <2>4. Abstract!Stamp(job[j].o, r)
    BY <1>1, <2>2, <2>3, StampRefines DEF Acts
  <2>5. job[j].o \in DOMAIN Copy /\ Copy[job[j].o] = Model(j)
    BY <1>0, <1>1, <2>2 DEF Copy, Model
  <2>6. r = Abstract!StampedOut(Copy[job[j].o])
    BY <2>1, <2>5 DEF ClockedOut, Abstract!StampedOut, Compare, Abstract!Compare
  <2>7. Abstract!StampOut(job[j].o)
    BY <1>1, <2>2, <2>4, <2>5, <2>6 DEF Abstract!StampOut
  <2> QED
    BY <1>0, <2>7 DEF Abstract!Next
<1>5. ASSUME UNCHANGED <<now, doc, obj>>, Told' = Told
      PROVE  UNCHANGED Abstract!vars
  BY <1>5, CopyStays DEF Abstract!vars
<1>6. CASE Tap(j) \/ LocatedInside(j) \/ LocatedOutside(j) \/ NotLocated(j)
           \/ NoTimeServer(j) \/ Close(j) \/ CloseAccept(j)
  <2>1. UNCHANGED <<now, doc, obj, ledger>>
    BY <1>6 DEF Tap, TapConfirm, TapAskConfirm, TapAskAgain, TapAccept, LocatedInside,
                LocatedOutside, NotLocated, NoTimeServer, Close, CloseAccept
  <2> QED
    BY <2>1, <1>5, ToldStays DEF ledger
<1>7. CASE CountCompleted(j) \/ PostFeed(j) \/ Notify(j)
  <2>1. /\ UNCHANGED <<now, doc, obj, late, early>>
        /\ \/ UNCHANGED lost
           \/ \E w \in Writes \ {"late", "early"} : lost' = lost \cup {<<j, w>>}
    BY <1>7 DEF CountCompleted, PostFeed, Notify, Increase, Rejected, Writes
  <2> QED
    BY <2>1, <1>5, ToldStays
<1> QED
  BY <1>2, <1>3, <1>4, <1>6, <1>7 DEF Reply

----------------------------------------------------------------------------
LEMMA InitRefines == Init => Abstract!Init
<1> SUFFICES ASSUME Init PROVE Abstract!Init
  OBVIOUS
<1>1. Copy = Abstract!Nothing
  BY DEF Init, Copy, FreeObj, Abstract!Nothing
<1>2. Told = {}
  BY DEF Init, Told
<1>3. doc \in {Abstract!Fresh(st, s) : st \in {"new", "confirm"}, s \in Starts}
  BY RosterAssumption DEF Init, FirstRecord, Abstract!Fresh
<1> QED
  BY <1>1, <1>2, <1>3 DEF Init, Abstract!Init

LEMMA NextRefines ==
  TypeOK /\ Readiness /\ PagesReported /\ [Next]_vars
    => [Abstract!Next]_(Abstract!vars)
<1> SUFFICES ASSUME TypeOK, Readiness, PagesReported, [Next]_vars
             PROVE  [Abstract!Next]_(Abstract!vars)
  OBVIOUS
<1>1. CASE UNCHANGED vars
  <2>1. UNCHANGED <<now, doc, obj, late, early, lost>>
    BY <1>1 DEF vars, ledger
  <2>2. Copy' = Copy /\ Told' = Told
    BY <2>1, CopyStays, ToldStays
  <2> QED
    BY <2>1, <2>2 DEF Abstract!vars
<1>2. CASE Next
  BY <1>2, PageStepsRefine, JobStepsRefine DEF Next, SheetStep
<1> QED
  BY <1>1, <1>2

\* Whatever pages, handlers, taps, refusals and crashes there are, the task's
\* document changes only as Attendance lets it: every step of TaskClock is one
\* of its steps or leaves its state alone.
THEOREM AttendanceIsKept == Spec => KeepsAttendance
<1>1. Spec => [](RecordCoherent /\ Readiness)
  BY InitReady, NextReady, InitTypeOK, NextTypeOK, PTL DEF Spec
<1>2. Spec => [](LatenessIsReported /\ PagesReported)
  BY InitReported, NextReported, InitTypeOK, NextTypeOK, PTL DEF Spec
<1> QED
  BY <1>1, <1>2, InitRefines, NextRefines, TypeCorrect, PTL
     DEF Spec, KeepsAttendance, Abstract!Spec
=============================================================================
