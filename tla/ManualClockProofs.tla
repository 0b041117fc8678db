------------------------- MODULE ManualClockProofs -------------------------
(****************************************************************************)
(* Theorems about ManualClock, for any number of handlers, lost answers,    *)
(* pages left and kills.                                                    *)
(****************************************************************************)
EXTENDS ManualTimeSheet, TLAPS

(* Types. ------------------------------------------------------------------*)

\* A handler that goes on, takes a time or an id, stays a handler.
LEMMA GotoStays ==
  ASSUME job \in [Jobs -> Handler], NEW j \in Jobs, NEW pc \in Pcs
  PROVE  [job EXCEPT ![j].pc = pc] \in [Jobs -> Handler]
  BY DEF Handler

LEMMA TimeStays ==
  ASSUME job \in [Jobs -> Handler], NEW j \in Jobs, NEW pc \in Pcs, NEW t \in Times
  PROVE  [job EXCEPT ![j].pc = pc, ![j].t = t] \in [Jobs -> Handler]
  BY DEF Handler

LEMMA IdStays ==
  ASSUME job \in [Jobs -> Handler], NEW j \in Jobs, NEW pc \in Pcs, NEW t \in Times,
         NEW i \in Ids
  PROVE  [job EXCEPT ![j].pc = pc, ![j].t = t, ![j].id = i] \in [Jobs -> Handler]
  BY DEF Handler

\* Handlers whose sheet or page has gone are handlers.
LEMMA GoneStays ==
  ASSUME NEW jobs \in [Jobs -> Handler]
  PROVE  SheetGone(jobs) \in [Jobs -> Handler] /\ Orphaned(jobs) \in [Jobs -> Handler]
  BY DEF Handler, SheetGone, Orphaned

\* Every step of the manual clock keeps the type of every variable.
LEMMA TypeKept ==
  ASSUME TypeOK, [Next]_vars
  PROVE  TypeOK'
<1> USE IdAssumption, BoundsAssumption
<1> USE DEF TypeOK, Times, Ids, Acts
<1>1. CASE Tick
  BY <1>1 DEF Tick, prefs, page
<1>2. CASE OpenPage
  BY <1>2 DEF OpenPage, prefs
<1>3. CASE OpenFetched
  <2>1. opens' \in Nat
    BY <1>3 DEF OpenFetched
  <2>2. QED
    BY <1>3, <2>1 DEF OpenFetched, prefs, page
<1>4. CASE UpdateState
  BY <1>4 DEF UpdateState, prefs
<1>5. CASE LeavePage
  <2>1. job' \in [Jobs -> Handler]
    BY <1>5, GoneStays DEF LeavePage
  <2>2. leaves' \in Nat
    BY <1>5 DEF LeavePage
  <2>3. disturbed' \in BOOLEAN
    BY <1>5 DEF LeavePage
  <2>4. UNCHANGED <<now, rec, prefTime, prefId, loading, opens, sheet, lost>>
    BY <1>5 DEF LeavePage, prefs
  <2>5. open' \in BOOLEAN /\ pageTime' \in Times
    BY <1>5 DEF LeavePage
  <2>6. QED
    BY <2>1, <2>2, <2>3, <2>4, <2>5
<1>6. CASE Crash
  <2>1. Orphaned(job) \in [Jobs -> Handler]
    BY GoneStays
  <2>2. job' \in [Jobs -> Handler]
    <3>1. job' = [j \in Jobs |-> IF Active(j) THEN [Orphaned(job)[j] EXCEPT !.pc = "dead"]
                                 ELSE Orphaned(job)[j]]
      BY <1>6 DEF Crash
    <3>2. \A h \in Handler : [h EXCEPT !.pc = "dead"] \in Handler
      BY DEF Handler, Pcs
    <3>3. QED
      BY <2>1, <3>1, <3>2
  <2>3. leaves' \in Nat /\ opens' \in Nat
    BY <1>6 DEF Crash
  <2>4. disturbed' \in BOOLEAN
    BY <1>6 DEF Crash
  <2>5. open' \in BOOLEAN /\ loading' \in BOOLEAN /\ pageTime' \in Times /\ sheet' = "none"
    BY <1>6 DEF Crash
  <2>6. UNCHANGED <<now, rec, prefTime, prefId, lost>>
    BY <1>6 DEF Crash, prefs
  <2>7. QED
    BY <2>2, <2>3, <2>4, <2>5, <2>6
<1>7. CASE Dismiss
  <2>1. job' \in [Jobs -> Handler]
    BY <1>7, GoneStays DEF Dismiss
  <2>2. QED
    BY <1>7, <2>1 DEF Dismiss, prefs
<1>8. ASSUME NEW a \in Acts, OpenSheet(a)
      PROVE  TypeOK'
  BY <1>8 DEF OpenSheet, prefs
<1>9. ASSUME NEW j \in Jobs, TapConfirm(j)
      PROVE  TypeOK'
  <2>1. job' \in [Jobs -> Handler]
    <3>1. sheet \in Acts
      BY <1>9 DEF TapConfirm
    <3>2. [pc |-> "area", act |-> sheet, id |-> NoRecord, t |-> NoTime,
           under |-> TRUE, alive |-> TRUE] \in Handler
      BY <3>1 DEF Handler, Pcs
    <3>3. QED
      BY <1>9, <3>2 DEF TapConfirm
  <2>2. disturbed' \in BOOLEAN
    BY <1>9 DEF TapConfirm
  <2>3. UNCHANGED <<now, rec, prefTime, prefId, open, pageTime, sheet, loading, opens, lost, leaves>>
    BY <1>9 DEF TapConfirm, prefs, page
  <2>4. QED
    BY <2>1, <2>2, <2>3
<1>10. ASSUME NEW j \in Jobs, AreaNamed(j)
       PROVE  TypeOK'
  <2> DEFINE started == [job EXCEPT ![j].pc = "upload"]
  <2>1. /\ started \in [Jobs -> Handler]
        /\ [job EXCEPT ![j].pc = "dead"] \in [Jobs -> Handler]
    BY GotoStays DEF Pcs
  <2>2. SheetGone(started) \in [Jobs -> Handler] /\ Orphaned(started) \in [Jobs -> Handler]
    BY <2>1, GoneStays
  <2> HIDE DEF started
  <2>3. /\ UNCHANGED <<now, rec, prefTime, prefId, loading, opens, lost, leaves>>
        /\ sheet' = sheet \/ sheet' = "none"
        /\ \/ UNCHANGED <<open, pageTime>>
           \/ open' = FALSE /\ pageTime' = NoTime
        /\ disturbed' = disturbed \/ disturbed' = TRUE
        /\ \/ job' = SheetGone(started)
           \/ job' = Orphaned(started)
           \/ job' = [job EXCEPT ![j].pc = "dead"]
    BY <1>10 DEF AreaNamed, Goto, started, prefs, page
  <2>4. QED
    BY <2>1, <2>2, <2>3
<1>11. ASSUME NEW j \in Jobs, Uploaded(j)
       PROVE  TypeOK'
  <2>1. now \in Times /\ {"create", "update", "dead"} \subseteq Pcs
    BY DEF Pcs
  <2>2. job' \in [Jobs -> Handler]
    <3>1. CASE job[j].act = "in"
      <4>1. PICK pc \in Pcs : job' = [job EXCEPT ![j].pc = pc, ![j].t = now]
        BY <1>11, <2>1, <3>1 DEF Uploaded
      <4>2. [job EXCEPT ![j].pc = pc, ![j].t = now] \in [Jobs -> Handler]
        BY <2>1, TimeStays
      <4>3. QED
        BY <4>1, <4>2
    <3>2. CASE job[j].act = "out"
      <4>1. PICK pc \in Pcs : job' = [job EXCEPT ![j].pc = pc, ![j].t = now, ![j].id = prefId]
        BY <1>11, <2>1, <3>2 DEF Uploaded
      <4>2. [job EXCEPT ![j].pc = pc, ![j].t = now, ![j].id = prefId] \in [Jobs -> Handler]
        BY <2>1, IdStays
      <4>3. QED
        BY <4>1, <4>2
    <3>3. QED
      BY <1>11, <3>1, <3>2 DEF Uploaded
  <2>3. QED
    BY <1>11, <2>2 DEF Uploaded, prefs, page
<1>12. ASSUME NEW j \in Jobs, CreateServed(j) \/ UpdateServed(j)
       PROVE  TypeOK'
  <2>1. job' \in [Jobs -> Handler]
    <3>1. \E pc \in Pcs : job' = [job EXCEPT ![j].pc = pc]
      BY <1>12 DEF CreateServed, UpdateServed, Served, Goto, Pcs
    <3>2. QED
      BY <3>1, GotoStays
  <2>2. rec' \in [Jobs -> Record]
    <3>1. \/ rec' = rec
          \/ rec' = [rec EXCEPT ![j] = [made |-> TRUE, in |-> job[j].t, out |-> NoTime]]
          \/ rec' = [rec EXCEPT ![job[j].id].out = job[j].t]
      BY <1>12 DEF CreateServed, UpdateServed, Served
    <3>2. job[j].t \in Times
      BY DEF Handler
    <3>3. CASE rec' = [rec EXCEPT ![j] = [made |-> TRUE, in |-> job[j].t, out |-> NoTime]]
      BY <3>2, <3>3 DEF Record
    <3>4. CASE rec' = [rec EXCEPT ![job[j].id].out = job[j].t]
      BY <3>2, <3>4 DEF Record
    <3>5. QED
      BY <3>1, <3>3, <3>4
  <2>3. lost' \in Nat
    BY <1>12 DEF CreateServed, UpdateServed, Served, LoseAnswer
  <2>4. disturbed' \in BOOLEAN
    BY <1>12 DEF CreateServed, UpdateServed, Served, LoseAnswer
  <2>5. UNCHANGED <<now, prefTime, prefId, open, pageTime, sheet, loading, opens, leaves>>
    BY <1>12 DEF CreateServed, UpdateServed, prefs, page
  <2>6. QED
    BY <2>1, <2>2, <2>3, <2>4, <2>5
<1>13. ASSUME NEW j \in Jobs, \/ Refused(j) \/ SaveTime(j) \/ SaveId(j) \/ ClockedIn(j)
                              \/ FetchHistory(j) \/ RemoveTime(j) \/ RemoveId(j)
                              \/ ClockedOut(j)
       PROVE  TypeOK'
  <2>1. job' \in [Jobs -> Handler]
    <3>1. \E pc \in Pcs : job' = [job EXCEPT ![j].pc = pc]
      BY <1>13 DEF Refused, SaveTime, SaveId, ClockedIn, FetchHistory,
         RemoveTime, RemoveId, ClockedOut, OnPage, Goto, Pcs
    <3>2. QED
      BY <3>1, GotoStays
  <2>2. prefTime' \in Times /\ prefId' \in Ids /\ pageTime' \in Times
    <3>1. job[j].t \in Times
      BY DEF Handler
    <3>2. QED
      BY <1>13, <3>1 DEF Refused, SaveTime, SaveId, ClockedIn, FetchHistory,
         RemoveTime, RemoveId, ClockedOut, prefs, page
  <2>3. loading' \in BOOLEAN
    BY <1>13 DEF Refused, SaveTime, SaveId, ClockedIn, FetchHistory,
       RemoveTime, RemoveId, ClockedOut
  <2>4. UNCHANGED <<now, rec, open, sheet, opens, lost, leaves, disturbed>>
    BY <1>13 DEF Refused, SaveTime, SaveId, ClockedIn, FetchHistory,
       RemoveTime, RemoveId, ClockedOut, page
  <2>5. QED
    BY <2>1, <2>2, <2>3, <2>4
<1>14. CASE UNCHANGED vars
  BY <1>14 DEF vars, prefs, page
<1> QED
  BY <1>1, <1>2, <1>3, <1>4, <1>5, <1>6, <1>7, <1>8, <1>9, <1>10, <1>11, <1>12,
     <1>13, <1>14 DEF Next, Reply

\* The initial state is well typed.
LEMMA TypeInit == Init => TypeOK
<1> SUFFICES ASSUME Init PROVE TypeOK
  OBVIOUS
<1>1. rec \in [Jobs -> Record]
  BY DEF Init, Record, Times
<1>2. job \in [Jobs -> Handler]
  BY DEF Init, Handler, Pcs, Acts, Times, Ids
<1>3. now \in Nat /\ opens \in Nat /\ lost \in Nat /\ leaves \in Nat
  BY DEF Init
<1>4. prefTime \in Times /\ prefId \in Ids /\ pageTime \in Times
  BY DEF Init, Times, Ids
<1>5. open \in BOOLEAN /\ loading \in BOOLEAN /\ disturbed \in BOOLEAN
  BY DEF Init
<1> QED
  BY <1>1, <1>2, <1>3, <1>4, <1>5 DEF Init, TypeOK

\* Every variable of the manual clock keeps its type: what the handlers of
\* TaskManualView may leave in the preferences, on the page and in Appwrite.
THEOREM ManualTypeCorrect == Spec => []TypeOK
<1>1. Init => TypeOK
  BY TypeInit
<1>2. TypeOK /\ [Next]_vars => TypeOK'
  BY TypeKept
<1> QED
  BY <1>1, <1>2, PTL DEF Spec

(* Clock-outs follow clock-ins. --------------------------------------------*)

Unsent    == {"idle", "area", "upload", "create"}
IdsInv    == OutAfterIn /\ IdsAreMade /\ TimesPassed /\ NotYetMade /\ TimesTaken

\* Handlers go on without taking a time, an id or a record.
CalmJobs ==
  \A j \in Jobs :
    /\ job'[j].t = job[j].t \/ job'[j].t = NoTime
    /\ job'[j].pc \in Unsent => job[j].pc \in Unsent
    /\ job'[j].pc \in {"created", "saved"} => job[j].pc \in {"created", "saved"}
    /\ job'[j].pc = "update" => /\ job[j].pc = "update"
                                /\ job'[j].id = job[j].id /\ job'[j].t = job[j].t
    /\ job'[j].pc = "create" => job[j].pc = "create" /\ job'[j].t = job[j].t

\* A step that makes no record, stores no id and lets the handlers go on
\* keeps the invariant.
LEMMA CalmStep ==
  ASSUME TypeOK, IdsInv, CalmJobs,
         rec' = rec, prefId' \in {prefId, NoRecord}, now' \in Nat, now' >= now
  PROVE  IdsInv'
<1>1. OutAfterIn'
  BY DEF IdsInv, OutAfterIn
<1>2. IdsAreMade'
  BY DEF IdsInv, IdsAreMade, CalmJobs
<1>3. TimesPassed'
  <2>1. \A r \in Jobs : rec'[r].made => rec'[r].in <= now'
    BY DEF IdsInv, TimesPassed, TypeOK, Record, Times, NoTime
  <2>2. \A j \in Jobs : job'[j].t <= now'
    BY DEF IdsInv, TimesPassed, TypeOK, Handler, Times, NoTime, CalmJobs
  <2>3. QED
    BY <2>1, <2>2 DEF TimesPassed
<1>4. NotYetMade'
  BY DEF IdsInv, NotYetMade, CalmJobs, Unsent
<1>5. TimesTaken'
  BY DEF IdsInv, TimesTaken, CalmJobs
<1> QED
  BY <1>1, <1>2, <1>3, <1>4, <1>5 DEF IdsInv

\* The photos are up: the id that is taken names a record made by now.
LEMMA UploadedStep ==
  ASSUME TypeOK, IdsInv, NEW j \in Jobs, Uploaded(j)
  PROVE  IdsInv'
<1>1. /\ rec' = rec /\ prefId' = prefId /\ now' = now
      /\ job[j].pc = "upload"
      /\ \A i \in Jobs \ {j} : job'[i] = job[i]
      /\ job'[j].t = now
      /\ job'[j].pc \in {"create", "update", "dead"}
      /\ job'[j].pc = "update" => job'[j].id = prefId /\ prefId # NoRecord
  BY DEF Uploaded, prefs, TypeOK, Handler
<1>2. OutAfterIn' /\ NotYetMade' /\ TimesTaken'
  BY <1>1 DEF IdsInv, OutAfterIn, NotYetMade, TimesTaken, TypeOK, NoTime
<1>3. TimesPassed'
  BY <1>1 DEF IdsInv, TimesPassed, TypeOK
<1>4. IdsAreMade'
  <2>1. prefId' # NoRecord => rec'[prefId'].made
    BY <1>1 DEF IdsInv, IdsAreMade
  <2>2. ASSUME NEW i \in Jobs
        PROVE  /\ job'[i].pc \in {"created", "saved"} => rec'[i].made
               /\ job'[i].pc = "update" => /\ job'[i].id # NoRecord
                                           /\ rec'[job'[i].id].made
                                           /\ rec'[job'[i].id].in <= job'[i].t
    <3>1. CASE i = j
      <4>1. prefId # NoRecord => rec[prefId].made /\ rec[prefId].in <= now
        BY DEF IdsInv, IdsAreMade, TimesPassed, TypeOK, Ids
      <4>2. QED
        BY <1>1, <3>1, <4>1
    <3>2. CASE i # j
      BY <1>1, <3>2 DEF IdsInv, IdsAreMade
    <3>3. QED
      BY <3>1, <3>2
  <2>3. QED
    BY <2>1, <2>2 DEF IdsAreMade
<1> QED
  BY <1>2, <1>3, <1>4 DEF IdsInv

\* A record is made: it was not there before, so no stored or taken id names it.
LEMMA CreateServedStep ==
  ASSUME TypeOK, IdsInv, NEW j \in Jobs, CreateServed(j)
  PROVE  IdsInv'
<1>1. /\ prefId' = prefId /\ now' = now /\ job[j].pc = "create"
      /\ \A i \in Jobs \ {j} : job'[i] = job[i]
      /\ job'[j].pc \in {"created", "refused"} /\ job'[j].t = job[j].t
  BY DEF CreateServed, Served, Goto, LoseAnswer, prefs, TypeOK, Handler
<1>2. /\ \A r \in Jobs \ {j} : rec'[r] = rec[r]
      /\ \/ rec'[j] = rec[j] /\ job'[j].pc = "refused"
         \/ rec'[j] = [made |-> TRUE, in |-> job[j].t, out |-> NoTime]
  BY DEF CreateServed, Served, Goto, TypeOK, Handler, Record
<1>3. ~rec[j].made
  BY <1>1 DEF IdsInv, NotYetMade
<1>4. OutAfterIn'
  BY <1>2 DEF IdsInv, OutAfterIn
<1>5. TimesPassed'
  BY <1>1, <1>2 DEF IdsInv, TimesPassed
<1>6. NotYetMade' /\ TimesTaken'
  BY <1>1, <1>2 DEF IdsInv, NotYetMade, TimesTaken
<1>7. IdsAreMade'
  <2>1. prefId' # NoRecord => rec'[prefId'].made
    BY <1>1, <1>2, <1>3 DEF IdsInv, IdsAreMade, TypeOK, Ids
  <2>2. ASSUME NEW i \in Jobs
        PROVE  /\ job'[i].pc \in {"created", "saved"} => rec'[i].made
               /\ job'[i].pc = "update" => /\ job'[i].id # NoRecord
                                           /\ rec'[job'[i].id].made
                                           /\ rec'[job'[i].id].in <= job'[i].t
    <3>1. CASE i = j
      BY <1>1, <1>2, <3>1
    <3>2. CASE i # j
      <4>1. job[i].id \in Ids
        BY DEF TypeOK, Handler
      <4>2. job[i].pc = "update" => job[i].id \in Jobs \ {j}
        BY <1>3, <4>1 DEF IdsInv, IdsAreMade, Ids
      <4>3. QED
        BY <1>1, <1>2, <3>2, <4>2 DEF IdsInv, IdsAreMade
    <3>3. QED
      BY <3>1, <3>2
  <2>3. QED
    BY <2>1, <2>2 DEF IdsAreMade
<1> QED
  BY <1>4, <1>5, <1>6, <1>7 DEF IdsInv

\* A clock-out is stored: only the out time of a made record changes.
LEMMA UpdateServedStep ==
  ASSUME TypeOK, IdsInv, NEW j \in Jobs, UpdateServed(j)
  PROVE  IdsInv'
<1>1. /\ prefId' = prefId /\ now' = now /\ job[j].pc = "update"
      /\ \A i \in Jobs \ {j} : job'[i] = job[i]
      /\ job'[j].pc \in {"updated", "refused"} /\ job'[j].t = job[j].t
  BY DEF UpdateServed, Served, Goto, LoseAnswer, prefs, TypeOK, Handler
<1>2. /\ job[j].id \in Jobs /\ rec[job[j].id].made
      /\ rec[job[j].id].in <= job[j].t
  BY <1>1 DEF IdsInv, IdsAreMade, TypeOK, Handler, Ids
<1>3. \A r \in Jobs : /\ rec'[r].made = rec[r].made /\ rec'[r].in = rec[r].in
                      /\ \/ rec'[r].out = rec[r].out
                         \/ r = job[j].id /\ rec'[r].out = job[j].t
  BY <1>2 DEF UpdateServed, Served, TypeOK, Record
<1>4. OutAfterIn'
  BY <1>2, <1>3 DEF IdsInv, OutAfterIn
<1>5. TimesPassed'
  BY <1>1, <1>3 DEF IdsInv, TimesPassed
<1>6. NotYetMade' /\ TimesTaken'
  BY <1>1, <1>3 DEF IdsInv, NotYetMade, TimesTaken
<1>7. IdsAreMade'
  <2>1. prefId' # NoRecord => rec'[prefId'].made
    BY <1>1, <1>3 DEF IdsInv, IdsAreMade, TypeOK, Ids
  <2>2. ASSUME NEW i \in Jobs
        PROVE  /\ job'[i].pc \in {"created", "saved"} => rec'[i].made
               /\ job'[i].pc = "update" => /\ job'[i].id # NoRecord
                                           /\ rec'[job'[i].id].made
                                           /\ rec'[job'[i].id].in <= job'[i].t
    <3>1. CASE i = j
      BY <1>1, <3>1
    <3>2. CASE i # j
      <4>1. job[i].id \in Jobs \cup {NoRecord}
        BY DEF TypeOK, Handler, Ids
      <4>2. QED
        BY <1>1, <1>3, <3>2, <4>1 DEF IdsInv, IdsAreMade
    <3>3. QED
      BY <3>1, <3>2
  <2>3. QED
    BY <2>1, <2>2 DEF IdsAreMade
<1> QED
  BY <1>4, <1>5, <1>6, <1>7 DEF IdsInv

\* An id is stored: it is that of the handler's own record, which was made.
LEMMA SaveIdStep ==
  ASSUME TypeOK, IdsInv, NEW j \in Jobs, SaveId(j)
  PROVE  IdsInv'
<1>1. /\ rec' = rec /\ now' = now /\ prefId' \in {prefId, j} /\ job[j].pc = "saved"
      /\ \A i \in Jobs \ {j} : job'[i] = job[i]
      /\ job'[j].pc \in {"named", "dead"} /\ job'[j].t = job[j].t
  BY DEF SaveId, OnPage, Goto, TypeOK, Handler
<1>2. rec[j].made
  BY <1>1 DEF IdsInv, IdsAreMade
<1>3. OutAfterIn' /\ NotYetMade' /\ TimesTaken'
  BY <1>1 DEF IdsInv, OutAfterIn, NotYetMade, TimesTaken
<1>4. TimesPassed'
  BY <1>1 DEF IdsInv, TimesPassed
<1>5. IdsAreMade'
  BY <1>1, <1>2 DEF IdsInv, IdsAreMade
<1> QED
  BY <1>3, <1>4, <1>5 DEF IdsInv

\* A handler whose sheet or page has gone is where it was.
LEMMA GoneKeeps ==
  ASSUME NEW jobs \in [Jobs -> Handler], NEW i \in Jobs
  PROVE  /\ SheetGone(jobs)[i].pc = jobs[i].pc /\ Orphaned(jobs)[i].pc = jobs[i].pc
         /\ SheetGone(jobs)[i].t = jobs[i].t /\ Orphaned(jobs)[i].t = jobs[i].t
         /\ SheetGone(jobs)[i].id = jobs[i].id /\ Orphaned(jobs)[i].id = jobs[i].id
         /\ SheetGone(jobs)[i] \in Handler /\ Orphaned(jobs)[i] \in Handler
  BY DEF SheetGone, Orphaned, Handler

\* The steps that take no time or id, make no record and store or forget no id.
CalmAction ==
  \/ OpenPage \/ OpenFetched \/ UpdateState \/ (\E a \in Acts : OpenSheet(a))
  \/ LeavePage \/ Crash \/ Dismiss
  \/ \E j \in Jobs : \/ TapConfirm(j) \/ AreaNamed(j) \/ Refused(j) \/ SaveTime(j)
                     \/ ClockedIn(j) \/ FetchHistory(j) \/ RemoveTime(j) \/ ClockedOut(j)

LEMMA CalmActions ==
  ASSUME TypeOK, CalmAction
  PROVE  CalmJobs /\ UNCHANGED <<now, rec, prefId>>
<1>1. CASE OpenPage \/ OpenFetched \/ UpdateState \/ (\E a \in Acts : OpenSheet(a))
  <2>1. UNCHANGED <<now, rec, prefId, job>>
    BY <1>1 DEF OpenPage, OpenFetched, UpdateState, OpenSheet, prefs
  <2>2. QED
    BY <2>1 DEF CalmJobs
<1>2. CASE LeavePage \/ Crash \/ Dismiss
  <2>1. UNCHANGED <<now, rec, prefId>>
    BY <1>2 DEF LeavePage, Crash, Dismiss, prefs
  <2>2. \A j \in Jobs : /\ job'[j].t = job[j].t /\ job'[j].id = job[j].id
                        /\ job'[j].pc \in {job[j].pc, "dead"}
    <3>1. job \in [Jobs -> Handler]
      BY DEF TypeOK
    <3>2. CASE LeavePage \/ Dismiss
      BY <3>1, <3>2, GoneKeeps DEF LeavePage, Dismiss
    <3>3. CASE Crash
      <4>1. job' = [i \in Jobs |-> IF Active(i) THEN [Orphaned(job)[i] EXCEPT !.pc = "dead"]
                                   ELSE Orphaned(job)[i]]
        BY <3>3 DEF Crash
      <4>2. \A h \in Handler : LET d == [h EXCEPT !.pc = "dead"] IN
              d.pc = "dead" /\ d.t = h.t /\ d.id = h.id
        BY DEF Handler
      <4>3. QED
        BY <3>1, <4>1, <4>2, GoneKeeps
    <3>4. QED
      BY <1>2, <3>2, <3>3
  <2>3. CalmJobs
    BY <2>2 DEF CalmJobs, Unsent
  <2>4. QED
    BY <2>1, <2>3
<1>3. ASSUME NEW j \in Jobs, TapConfirm(j)
      PROVE  CalmJobs /\ UNCHANGED <<now, rec, prefId>>
  <2>1. /\ UNCHANGED <<now, rec, prefId>> /\ job[j].pc = "idle"
        /\ \A i \in Jobs \ {j} : job'[i] = job[i]
        /\ job'[j].pc = "area" /\ job'[j].t = NoTime
    BY <1>3 DEF TapConfirm, prefs, TypeOK
  <2>2. QED
    BY <2>1 DEF CalmJobs, Unsent
<1>4. ASSUME NEW j \in Jobs, AreaNamed(j)
      PROVE  CalmJobs /\ UNCHANGED <<now, rec, prefId>>
  <2>1. UNCHANGED <<now, rec, prefId>>
    BY <1>4 DEF AreaNamed, prefs
  <2>2. \A i \in Jobs : /\ job'[i].t = job[i].t /\ job'[i].id = job[i].id
                        /\ \/ job'[i].pc = job[i].pc
                           \/ job[i].pc = "area" /\ job'[i].pc \in {"upload", "dead"}
    <3> DEFINE started == [job EXCEPT ![j].pc = "upload"]
    <3>1. job \in [Jobs -> Handler] /\ job[j].pc = "area"
      BY <1>4 DEF TypeOK, AreaNamed
    <3>2. started \in [Jobs -> Handler]
      BY <3>1, GotoStays DEF Pcs
    <3>3. \A i \in Jobs : /\ started[i].t = job[i].t /\ started[i].id = job[i].id
                          /\ started[i].pc = IF i = j THEN "upload" ELSE job[i].pc
      BY <3>1 DEF Handler
    <3> HIDE DEF started
    <3>4. \/ job' = SheetGone(started) \/ job' = Orphaned(started)
          \/ job' = [job EXCEPT ![j].pc = "dead"]
      BY <1>4 DEF AreaNamed, Goto, started
    <3>5. CASE job' = SheetGone(started) \/ job' = Orphaned(started)
      BY <3>1, <3>2, <3>3, <3>5, GoneKeeps
    <3>6. CASE job' = [job EXCEPT ![j].pc = "dead"]
      BY <3>1, <3>6 DEF Handler
    <3>7. QED
      BY <3>4, <3>5, <3>6
  <2>3. CalmJobs
    BY <2>2 DEF CalmJobs, Unsent
  <2>4. QED
    BY <2>1, <2>3
<1>5. ASSUME NEW j \in Jobs, \/ Refused(j) \/ SaveTime(j) \/ ClockedIn(j) \/ FetchHistory(j)
                             \/ RemoveTime(j) \/ ClockedOut(j)
      PROVE  CalmJobs /\ UNCHANGED <<now, rec, prefId>>
  <2>1. UNCHANGED <<now, rec, prefId>>
    BY <1>5 DEF Refused, SaveTime, ClockedIn, FetchHistory, RemoveTime, ClockedOut, prefs
  <2>2. \E pc \in {"done", "dead", "saved", "fetch", "removed"} :
          /\ pc = "saved" => job[j].pc = "created"
          /\ job' = [job EXCEPT ![j].pc = pc]
    BY <1>5 DEF Refused, SaveTime, ClockedIn, FetchHistory, RemoveTime, ClockedOut, OnPage,
       Goto
  <2>3. QED
    BY <2>1, <2>2 DEF CalmJobs, Unsent, TypeOK, Handler
<1> QED
  BY <1>1, <1>2, <1>3, <1>4, <1>5 DEF CalmAction

LEMMA NextSplits ==
  [Next]_vars <=> \/ UNCHANGED vars \/ Tick \/ CalmAction
                  \/ \E j \in Jobs : \/ RemoveId(j) \/ Uploaded(j) \/ CreateServed(j)
                                     \/ UpdateServed(j) \/ SaveId(j)
  BY DEF Next, Reply, CalmAction

\* Every step keeps the invariant.
LEMMA IdsInvKept ==
  ASSUME TypeOK, IdsInv, [Next]_vars
  PROVE  IdsInv'
<1>1. CASE Tick \/ UNCHANGED vars
  BY <1>1, CalmStep DEF Tick, TypeOK, CalmJobs, prefs, vars
<1>2. CASE CalmAction
  BY <1>2, CalmActions, CalmStep DEF TypeOK
<1>3. ASSUME NEW j \in Jobs, RemoveId(j)
      PROVE  IdsInv'
  <2>1. UNCHANGED <<now, rec>> /\ prefId' = NoRecord /\ job' = [job EXCEPT ![j].pc = "cleared"]
    BY <1>3 DEF RemoveId, Goto
  <2>2. CalmJobs
    BY <2>1 DEF CalmJobs, Unsent, TypeOK, Handler
  <2>3. QED
    BY <2>1, <2>2, CalmStep DEF TypeOK
<1> QED
  BY <1>1, <1>2, <1>3, NextSplits, UploadedStep, CreateServedStep, UpdateServedStep, SaveIdStep

\* Nothing is stored, taken or made at first.
LEMMA IdsInvInit == Init => IdsInv
  BY IdAssumption DEF Init, IdsInv, OutAfterIn, IdsAreMade, TimesPassed, NotYetMade, TimesTaken,
                      NoTime

\* A record is clocked out only after it was clocked in, at a time not before
\* it, whatever id _clockOut finds in the preferences.
THEOREM OutsFollowIns == Spec => []OutAfterIn
<1>1. Init => TypeOK /\ IdsInv
  BY TypeInit, IdsInvInit
<1>2. TypeOK /\ IdsInv /\ [Next]_vars => (TypeOK /\ IdsInv)'
  BY TypeKept, IdsInvKept
<1>3. TypeOK /\ IdsInv => OutAfterIn
  BY DEF IdsInv
<1> QED
  BY <1>1, <1>2, <1>3, PTL DEF Spec

(* The books match. --------------------------------------------------------*)

\* An undisturbed handler is alone and on its page, and unless it is writing
\* the books, they match.
LEMMA HandlerAlone ==
  ASSUME BooksInHand, ~disturbed, NEW j \in Jobs, Active(j)
  PROVE  /\ job[j].alive /\ Phase(j)
         /\ \A i \in Jobs \ {j} : ~Active(i)
         /\ job[j].pc \notin Writing => Books
<1>1. \A i \in Jobs \ {j} : ~Active(i)
  BY DEF BooksInHand, Alone
<1>2. \A i \in Jobs \ {j} : job[i].pc \notin Writing
  BY <1>1 DEF Active, Writing
<1> QED
  BY <1>1, <1>2 DEF BooksInHand, Alone

\* It is enough to look at the handler that takes the step.
LEMMA HandlerStep ==
  ASSUME BooksInHand, NEW j \in Jobs, Active(j), disturbed => disturbed',
         \A i \in Jobs : /\ job'[i].alive = job[i].alive
                         /\ i # j => job'[i].pc = job[i].pc,
         ~disturbed' => Phase(j)' /\ (job'[j].pc \notin Writing => Books')
  PROVE  BooksInHand'
<1> SUFFICES ASSUME ~disturbed'
             PROVE  Alone' /\ (\A i \in Jobs : Phase(i)')
                    /\ ((\A i \in Jobs : job'[i].pc \notin Writing) => Books')
  BY DEF BooksInHand
<1>1. ~disturbed
  OBVIOUS
<1>2. job[j].alive /\ \A i \in Jobs \ {j} : ~Active(i)
  BY <1>1, HandlerAlone
<1>3. \A i \in Jobs \ {j} : job'[i].pc \in {"idle", "done", "dead"}
  BY <1>2 DEF Active
<1>4. Alone'
  BY <1>2, <1>3 DEF Alone, Active
<1>5. \A i \in Jobs \ {j} : Phase(i)'
  BY <1>3 DEF Phase
<1> QED
  BY <1>4, <1>5

\* A page or clock step leaves the handlers' places alone; between two uses the
\* page may be opened, updated from the preferences, or closed.
LEMMA PageStep ==
  ASSUME BooksInHand, disturbed => disturbed',
         UNCHANGED <<rec, prefTime, prefId>>,
         pageTime' \in {pageTime, prefTime, NoTime},
         \A j \in Jobs : /\ job'[j].pc = job[j].pc /\ job'[j].t = job[j].t
                         /\ job'[j].id = job[j].id
                         /\ Active(j) => job'[j].alive = job[j].alive \/ disturbed'
  PROVE  BooksInHand'
<1> SUFFICES ASSUME ~disturbed'
             PROVE  Alone' /\ (\A j \in Jobs : Phase(j)')
                    /\ ((\A j \in Jobs : job'[j].pc \notin Writing) => Books')
  BY DEF BooksInHand
<1>1. Alone /\ (\A j \in Jobs : Phase(j))
      /\ ((\A j \in Jobs : job[j].pc \notin Writing) => Books)
  BY DEF BooksInHand
<1>2. Alone'
  BY <1>1 DEF Alone, Active
<1>3. \A j \in Jobs : Phase(j)'
  BY <1>1 DEF Phase
<1>4. (\A j \in Jobs : job'[j].pc \notin Writing) => Books'
  BY <1>1 DEF Books
<1> QED
  BY <1>2, <1>3, <1>4

\* A kill or a page that is left between two uses changes nothing the books say.
LEMMA LeaveStep ==
  ASSUME TypeOK, BooksInHand, LeavePage \/ Crash
  PROVE  BooksInHand'
<1>1. CASE ~Idle
  <2>1. disturbed'
    BY <1>1 DEF LeavePage, Crash
  <2>2. QED
    BY <2>1 DEF BooksInHand
<1>2. CASE Idle
  <2>1. \A j \in Jobs : ~Active(j)
    BY <1>2 DEF Idle
  <2>2. job \in [Jobs -> Handler]
    BY DEF TypeOK
  <2>3. job' = Orphaned(job)
    <3>1. CASE LeavePage
      BY <3>1 DEF LeavePage
    <3>2. CASE Crash
      BY <2>1, <3>2 DEF Crash, Orphaned
    <3>3. QED
      BY <3>1, <3>2
  <2>4. \A j \in Jobs : /\ job'[j].pc = job[j].pc /\ job'[j].t = job[j].t
                        /\ job'[j].id = job[j].id
    BY <2>2, <2>3, GoneKeeps
  <2>5. /\ UNCHANGED <<rec, prefTime, prefId>> /\ pageTime' = NoTime
        /\ disturbed => disturbed'
    BY DEF LeavePage, Crash, prefs
  <2>6. QED
    BY <2>1, <2>4, <2>5, PageStep
<1> QED
  BY <1>1, <1>2

\* A tap while another handler is at work is a disturbance; otherwise the books
\* match and stay as they are.
LEMMA TapStep ==
  ASSUME TypeOK, BooksInHand, NEW j \in Jobs, TapConfirm(j)
  PROVE  BooksInHand'
<1>1. CASE ~Idle
  <2>1. disturbed'
    BY <1>1 DEF TapConfirm
  <2>2. QED
    BY <2>1 DEF BooksInHand
<1>2. CASE Idle
  <2>1. \A i \in Jobs : ~Active(i)
    BY <1>2 DEF Idle
  <2>2. /\ job'[j].pc = "area" /\ job'[j].alive
        /\ \A i \in Jobs \ {j} : job'[i].pc \in {"idle", "done", "dead"}
    BY <2>1 DEF TapConfirm, Active, TypeOK
  <2>3. Alone' /\ \A i \in Jobs : Phase(i)'
    BY <2>2 DEF Alone, Active, Phase
  <2>4. ~disturbed => Books
    BY <2>1 DEF BooksInHand, Active, Writing
  <2>5. UNCHANGED <<rec, prefTime, prefId, pageTime>> /\ disturbed' = (disturbed \/ ~Idle)
    BY DEF TapConfirm, prefs, page
  <2>6. ~disturbed' => Books'
    BY <2>4, <2>5 DEF Books
  <2>7. QED
    BY <2>3, <2>6 DEF BooksInHand
<1> QED
  BY <1>1, <1>2

\* The sheet goes; only a pop that takes the page is a disturbance.
LEMMA AreaStep ==
  ASSUME TypeOK, BooksInHand, NEW j \in Jobs, AreaNamed(j)
  PROVE  BooksInHand'
<1> DEFINE started == [job EXCEPT ![j].pc = "upload"]
<1>1. job \in [Jobs -> Handler] /\ job[j].pc = "area"
  BY DEF TypeOK, AreaNamed
<1>2. started \in [Jobs -> Handler]
  BY <1>1, GotoStays DEF Pcs
<1>3. \A i \in Jobs : /\ started[i].alive = job[i].alive
                      /\ started[i].pc = IF i = j THEN "upload" ELSE job[i].pc
  BY <1>1 DEF Handler
<1> HIDE DEF started
<1>4. CASE disturbed'
  BY <1>4 DEF BooksInHand
<1>5. CASE ~disturbed'
  <2>1. /\ UNCHANGED <<rec, prefTime, prefId, pageTime>> /\ disturbed' = disturbed
        /\ \/ job' = SheetGone(started)
           \/ job' = [job EXCEPT ![j].pc = "dead"]
    BY <1>5 DEF AreaNamed, Goto, started, prefs, page
  <2>2. /\ job'[j].pc \in {"upload", "dead"}
        /\ \A i \in Jobs : /\ job'[i].alive = job[i].alive
                           /\ i # j => job'[i].pc = job[i].pc
    <3>1. \A i \in Jobs : /\ SheetGone(started)[i].pc = started[i].pc
                          /\ SheetGone(started)[i].alive = started[i].alive
      BY <1>2 DEF SheetGone, Handler
    <3>2. CASE job' = SheetGone(started)
      BY <1>3, <3>1, <3>2
    <3>3. CASE job' = [job EXCEPT ![j].pc = "dead"]
      BY <1>1, <3>3 DEF Handler
    <3>4. QED
      BY <2>1, <3>2, <3>3
  <2>3. Active(j) /\ job[j].pc \notin Writing
    BY <1>1 DEF Active, Writing
  <2>4. Books
    BY <1>5, <2>1, <2>3, HandlerAlone
  <2>5. Phase(j)' /\ Books'
    BY <2>1, <2>2, <2>4 DEF Phase, Books
  <2>6. disturbed => disturbed'
    BY <2>1
  <2>7. \A i \in Jobs : /\ job'[i].alive = job[i].alive
                        /\ i # j => job'[i].pc = job[i].pc
    BY <2>2
  <2>8. QED
    BY <2>3, <2>5, <2>6, <2>7, HandlerStep
<1> QED
  BY <1>4, <1>5

\* The stored id that a clock-out takes is the one the books hold.
LEMMA UploadStep ==
  ASSUME TypeOK, BooksInHand, NEW j \in Jobs, Uploaded(j)
  PROVE  BooksInHand'
<1>1. /\ job[j].pc = "upload" /\ UNCHANGED <<rec, prefTime, prefId, pageTime, disturbed>>
      /\ job'[j].pc \in {"create", "update", "dead"} /\ job'[j].t = now
      /\ job'[j].pc = "update" => job'[j].id = prefId
      /\ \A i \in Jobs : /\ job'[i].alive = job[i].alive
                         /\ i # j => job'[i].pc = job[i].pc
  BY DEF Uploaded, prefs, page, TypeOK, Handler
<1>2. now # NoTime
  BY DEF TypeOK, NoTime
<1>3. Active(j) /\ job[j].pc \notin Writing
  BY <1>1 DEF Active, Writing
<1>4. ~disturbed => Books
  BY <1>3, HandlerAlone
<1>5. ~disturbed' => Phase(j)' /\ Books'
  BY <1>1, <1>2, <1>4 DEF Phase, Books
<1>6. disturbed => disturbed'
  BY <1>1
<1>7. \A i \in Jobs : /\ job'[i].alive = job[i].alive
                      /\ i # j => job'[i].pc = job[i].pc
  BY <1>1
<1> QED
  BY <1>3, <1>5, <1>6, <1>7, HandlerStep

\* A new record is not the stored one.
LEMMA CreateStep ==
  ASSUME TypeOK, IdsInv, BooksInHand, NEW j \in Jobs, CreateServed(j)
  PROVE  BooksInHand'
<1> SUFFICES ASSUME ~disturbed'
             PROVE  BooksInHand'
  BY DEF BooksInHand
<1>1. /\ job[j].pc = "create" /\ UNCHANGED <<prefTime, prefId, pageTime, disturbed>>
      /\ job'[j].t = job[j].t
      /\ \A i \in Jobs : /\ job'[i].alive = job[i].alive
                         /\ i # j => job'[i].pc = job[i].pc
      /\ \/ job'[j].pc = "refused" /\ rec' = rec
         \/ /\ job'[j].pc = "created"
            /\ rec' = [rec EXCEPT ![j] = [made |-> TRUE, in |-> job[j].t, out |-> NoTime]]
  BY DEF CreateServed, Served, Goto, LoseAnswer, prefs, page, TypeOK, Handler
<1>2. Active(j) /\ job[j].pc \notin Writing
  BY <1>1 DEF Active, Writing
<1>3. Phase(j) /\ Books
  BY <1>1, <1>2, HandlerAlone
<1>4. ~rec[j].made /\ prefId \in Ids /\ rec \in [Jobs -> Record]
  BY <1>1 DEF IdsInv, NotYetMade, TypeOK
<1>5. Phase(j)'
  BY <1>1, <1>3, <1>4 DEF Phase
<1>6. prefId # NoRecord => rec'[prefId] = rec[prefId]
  BY <1>1, <1>3, <1>4 DEF Books, Ids
<1>7. Books'
  BY <1>1, <1>3, <1>6 DEF Books
<1>8. disturbed => disturbed'
  BY <1>1
<1>9. \A i \in Jobs : /\ job'[i].alive = job[i].alive
                      /\ i # j => job'[i].pc = job[i].pc
  BY <1>1
<1> QED
  BY <1>2, <1>5, <1>7, <1>8, <1>9, HandlerStep

\* A refused clock-out leaves the books, an accepted one has them to clear.
LEMMA UpdateStep ==
  ASSUME TypeOK, BooksInHand, NEW j \in Jobs, UpdateServed(j)
  PROVE  BooksInHand'
<1> SUFFICES ASSUME ~disturbed'
             PROVE  BooksInHand'
  BY DEF BooksInHand
<1>1. /\ job[j].pc = "update" /\ UNCHANGED <<prefTime, prefId, pageTime, disturbed>>
      /\ \A i \in Jobs : /\ job'[i].alive = job[i].alive
                         /\ i # j => job'[i].pc = job[i].pc
      /\ \/ job'[j].pc = "refused" /\ rec' = rec
         \/ job'[j].pc = "updated"
  BY DEF UpdateServed, Served, Goto, LoseAnswer, prefs, page, TypeOK, Handler
<1>2. Active(j) /\ job[j].pc \notin Writing
  BY <1>1 DEF Active, Writing
<1>3. Books
  BY <1>1, <1>2, HandlerAlone
<1>4. Phase(j)'
  BY <1>1 DEF Phase
<1>5. job'[j].pc \notin Writing => Books'
  BY <1>1, <1>3 DEF Books, Writing
<1>6. disturbed => disturbed'
  BY <1>1
<1>7. \A i \in Jobs : /\ job'[i].alive = job[i].alive
                      /\ i # j => job'[i].pc = job[i].pc
  BY <1>1
<1> QED
  BY <1>2, <1>4, <1>5, <1>6, <1>7, HandlerStep

\* The answers that write nothing: a refusal, the last dialog, the history.
LEMMA DialogStep ==
  ASSUME TypeOK, BooksInHand, NEW j \in Jobs,
         Refused(j) \/ ClockedIn(j) \/ FetchHistory(j)
  PROVE  BooksInHand'
<1>1. /\ job[j].pc \in {"refused", "named", "updated"}
      /\ UNCHANGED <<rec, prefTime, prefId, pageTime, disturbed>>
      /\ \E pc \in {"done", "dead", "fetch"} :
           /\ job[j].pc = "updated" => pc = "fetch"
           /\ job' = [job EXCEPT ![j].pc = pc]
  BY DEF Refused, ClockedIn, FetchHistory, OnPage, Goto, prefs, page
<1>2. \A i \in Jobs : /\ job'[i].alive = job[i].alive
                      /\ i # j => job'[i].pc = job[i].pc
  BY <1>1 DEF TypeOK, Handler
<1>3. Active(j) /\ Phase(j)'
  BY <1>1 DEF Active, Phase, TypeOK, Handler
<1>4. ~disturbed => (job'[j].pc \notin Writing => Books)
  BY <1>1, <1>3, HandlerAlone DEF Writing
<1>5. ~disturbed' => (job'[j].pc \notin Writing => Books')
  BY <1>1, <1>4 DEF Books
<1> QED
  BY <1>1, <1>2, <1>3, <1>5, HandlerStep

\* The books are written: the time, then the id and the page.
LEMMA SaveStep ==
  ASSUME TypeOK, BooksInHand, NEW j \in Jobs, SaveTime(j) \/ SaveId(j)
  PROVE  BooksInHand'
<1>1. Active(j)
  BY DEF SaveTime, SaveId, Active
<1>2. /\ UNCHANGED <<rec, disturbed>> /\ job'[j].t = job[j].t
      /\ \A i \in Jobs : /\ job'[i].alive = job[i].alive
                         /\ i # j => job'[i].pc = job[i].pc
  BY DEF SaveTime, SaveId, OnPage, Goto, TypeOK, Handler
<1>3. ASSUME ~disturbed
      PROVE  Phase(j)' /\ (job'[j].pc \notin Writing => Books')
  <2>1. Phase(j) /\ job[j].alive
    BY <1>1, <1>3, HandlerAlone
  <2>2. CASE SaveTime(j)
    <3>1. job'[j].pc = "saved" /\ job[j].pc = "created" /\ prefTime' = job[j].t
      BY <2>2 DEF SaveTime, Goto, TypeOK
    <3>2. QED
      BY <1>2, <2>1, <3>1 DEF Phase, Writing
  <2>3. CASE SaveId(j)
    <3>1. /\ job'[j].pc = "named" /\ job[j].pc = "saved" /\ prefTime' = prefTime
          /\ prefId' = j /\ pageTime' = job[j].t
      BY <2>1, <2>3 DEF SaveId, OnPage, Goto, TypeOK
    <3>2. QED
      BY <1>2, <2>1, <3>1, IdAssumption DEF Phase, Books
  <2>4. QED
    BY <2>2, <2>3
<1>4. /\ disturbed => disturbed'
      /\ ~disturbed' => Phase(j)' /\ (job'[j].pc \notin Writing => Books')
  BY <1>2, <1>3
<1>5. \A i \in Jobs : /\ job'[i].alive = job[i].alive
                      /\ i # j => job'[i].pc = job[i].pc
  BY <1>2
<1> QED
  BY <1>1, <1>4, <1>5, HandlerStep

\* The books are cleared: the time, then the id, then the page.
LEMMA ClearStep ==
  ASSUME TypeOK, BooksInHand, NEW j \in Jobs,
         RemoveTime(j) \/ RemoveId(j) \/ ClockedOut(j)
  PROVE  BooksInHand'
<1>1. Active(j)
  BY DEF RemoveTime, RemoveId, ClockedOut, Active
<1>2. /\ UNCHANGED <<rec, disturbed>>
      /\ \A i \in Jobs : /\ job'[i].alive = job[i].alive
                         /\ i # j => job'[i].pc = job[i].pc
  BY DEF RemoveTime, RemoveId, ClockedOut, OnPage, Goto, TypeOK, Handler
<1>3. ASSUME ~disturbed
      PROVE  Phase(j)' /\ (job'[j].pc \notin Writing => Books')
  <2>1. Phase(j) /\ job[j].alive
    BY <1>1, <1>3, HandlerAlone
  <2>2. CASE RemoveTime(j)
    <3>1. job'[j].pc = "removed" /\ prefTime' = NoTime
      BY <2>2 DEF RemoveTime, Goto, TypeOK
    <3>2. QED
      BY <3>1 DEF Phase, Writing
  <2>3. CASE RemoveId(j)
    <3>1. /\ job[j].pc = "removed" /\ job'[j].pc = "cleared"
          /\ prefTime' = prefTime /\ prefId' = NoRecord
      BY <2>3 DEF RemoveId, Goto, TypeOK
    <3>2. QED
      BY <2>1, <3>1 DEF Phase, Writing
  <2>4. CASE ClockedOut(j)
    <3>1. /\ job[j].pc = "cleared" /\ job'[j].pc = "done" /\ pageTime' = NoTime
          /\ prefTime' = prefTime /\ prefId' = prefId
      BY <2>1, <2>4 DEF ClockedOut, OnPage, Goto, TypeOK, prefs
    <3>2. QED
      BY <2>1, <3>1 DEF Phase, Books
  <2>5. QED
    BY <2>2, <2>3, <2>4
<1>4. /\ disturbed => disturbed'
      /\ ~disturbed' => Phase(j)' /\ (job'[j].pc \notin Writing => Books')
  BY <1>2, <1>3
<1>5. \A i \in Jobs : /\ job'[i].alive = job[i].alive
                      /\ i # j => job'[i].pc = job[i].pc
  BY <1>2
<1> QED
  BY <1>1, <1>4, <1>5, HandlerStep

\* Every step keeps the books in hand.
LEMMA BooksKept ==
  ASSUME TypeOK, IdsInv, BooksInHand, [Next]_vars
  PROVE  BooksInHand'
<1>1. CASE Tick \/ OpenPage \/ OpenFetched \/ UpdateState \/ UNCHANGED vars
           \/ (\E a \in Acts : OpenSheet(a))
  <2>1. /\ UNCHANGED <<rec, prefTime, prefId, job, disturbed>>
        /\ pageTime' \in {pageTime, prefTime, NoTime}
    BY <1>1 DEF Tick, OpenPage, OpenFetched, UpdateState, OpenSheet, vars, prefs, page
  <2>2. QED
    BY <2>1, PageStep
<1>2. CASE Dismiss
  <2>1. /\ UNCHANGED <<rec, prefTime, prefId, pageTime, disturbed>> /\ job' = SheetGone(job)
    BY <1>2 DEF Dismiss, prefs
  <2>2. \A j \in Jobs : /\ job'[j].pc = job[j].pc /\ job'[j].t = job[j].t
                        /\ job'[j].id = job[j].id /\ job'[j].alive = job[j].alive
    BY <2>1 DEF SheetGone, TypeOK, Handler
  <2>3. QED
    BY <2>1, <2>2, PageStep
<1> QED
  BY <1>1, <1>2, LeaveStep, TapStep, AreaStep, UploadStep, CreateStep, UpdateStep,
     DialogStep, SaveStep, ClearStep DEF Next, Reply

\* At first nothing is stored and nobody is at work.
LEMMA BooksInit == Init => BooksInHand
  BY DEF Init, BooksInHand, Alone, Active, Phase, Books

\* Used one tap at a time, on an open page and with every answer received, the
\* manual clock's preferences name the open record the next clock-out finishes.
THEOREM BooksStayMatched == Spec => []BooksMatch
<1>1. Init => TypeOK /\ IdsInv /\ BooksInHand
  BY TypeInit, IdsInvInit, BooksInit
<1>2. TypeOK /\ IdsInv /\ BooksInHand /\ [Next]_vars => (TypeOK /\ IdsInv /\ BooksInHand)'
  BY TypeKept, IdsInvKept, BooksKept
<1>3. BooksInHand => BooksMatch
  BY DEF BooksInHand, BooksMatch, Idle, Active, Writing
<1> QED
  BY <1>1, <1>2, <1>3, PTL DEF Spec

(* The time sheet is kept. -------------------------------------------------*)

LEMMA EntriesStay == rec' = rec => Entries' = Entries
  BY DEF Entries

\* Handlers go on sending the clock-outs they were sending, or give up some.
LEMMA SlipsTorn ==
  ASSUME CalmJobs
  PROVE  \E hs \in SUBSET Jobs : Slips' = Abstract!Without(hs)
<1> DEFINE hs == {j \in Jobs : job'[j].pc # "update"}
<1>1. \A j \in Jobs : job'[j].pc = "update" => /\ job[j].pc = "update"
                                              /\ job'[j].id = job[j].id
                                              /\ job'[j].t = job[j].t
  BY DEF CalmJobs
<1>2. {j \in Jobs : job'[j].pc = "update"} = {j \in Jobs : job[j].pc = "update"} \ hs
  BY <1>1
<1>3. Slips' = Abstract!Without(hs)
  BY <1>1, <1>2 DEF Slips, Abstract!Without
<1> QED
  BY <1>3

LEMMA CalmRefines ==
  ASSUME CalmJobs, UNCHANGED <<now, rec, prefId>>
  PROVE  Abstract!Next
<1>1. PICK hs \in SUBSET Jobs : Slips' = Abstract!Without(hs)
  BY SlipsTorn
<1>2. Abstract!Tear(hs)
  BY <1>1, EntriesStay DEF Abstract!Tear
<1> QED
  BY <1>2 DEF Abstract!Next

\* A handler that neither was nor is sending a clock-out.
LEMMA SlipsStay ==
  ASSUME NEW j \in Jobs, job[j].pc # "update", job'[j].pc # "update",
         \A i \in Jobs \ {j} : job'[i] = job[i]
  PROVE  Slips' = Slips
<1>1. \A i \in Jobs : /\ job'[i].pc = "update" <=> job[i].pc = "update"
                      /\ job[i].pc = "update" => job'[i] = job[i]
  OBVIOUS
<1>2. {i \in Jobs : job'[i].pc = "update"} = {i \in Jobs : job[i].pc = "update"}
  BY <1>1
<1> QED
  BY <1>1, <1>2 DEF Slips

LEMMA UploadedRefines ==
  ASSUME TypeOK, IdsInv, NEW j \in Jobs, Uploaded(j)
  PROVE  [Abstract!Next]_(Abstract!vars)
<1>1. /\ UNCHANGED <<now, rec, prefId>> /\ job[j].pc = "upload"
      /\ \A i \in Jobs \ {j} : job'[i] = job[i]
      /\ \/ job'[j].pc # "update"
         \/ /\ job'[j].pc = "update" /\ prefId # NoRecord
            /\ job'[j].id = prefId /\ job'[j].t = now
  BY DEF Uploaded, prefs, TypeOK, Handler
<1>2. CASE job'[j].pc # "update"
  BY <1>1, <1>2, EntriesStay, SlipsStay DEF Abstract!vars
<1>3. CASE job'[j].pc = "update"
  <2>1. {i \in Jobs : job'[i].pc = "update"} = {i \in Jobs : job[i].pc = "update"} \cup {j}
    BY <1>1, <1>3
  <2>2. Slips' = [k \in {i \in Jobs : job[i].pc = "update"} \cup {j} |->
                    IF k = j THEN [id |-> prefId, t |-> now] ELSE Slips[k]]
    BY <1>1, <1>3, <2>1 DEF Slips
  <2>3. DOMAIN Slips = {i \in Jobs : job[i].pc = "update"} /\ j \notin DOMAIN Slips
    BY <1>1 DEF Slips
  <2>4. prefId \in DOMAIN Entries
    BY <1>1, <1>3 DEF Entries, IdsInv, IdsAreMade, TypeOK, Ids
  <2>5. Abstract!Write(j)
    BY <1>1, <2>2, <2>3, <2>4, EntriesStay DEF Abstract!Write
  <2>6. QED
    BY <2>5 DEF Abstract!Next
<1> QED
  BY <1>2, <1>3

LEMMA CreateRefines ==
  ASSUME TypeOK, IdsInv, NEW j \in Jobs, CreateServed(j)
  PROVE  [Abstract!Next]_(Abstract!vars)
<1>1. /\ UNCHANGED <<now, prefId>> /\ job[j].pc = "create"
      /\ \A i \in Jobs \ {j} : job'[i] = job[i]
      /\ job'[j].pc \in {"created", "refused"}
      /\ \/ rec' = rec
         \/ rec' = [rec EXCEPT ![j] = [made |-> TRUE, in |-> job[j].t, out |-> NoTime]]
  BY DEF CreateServed, Served, Goto, LoseAnswer, prefs, TypeOK, Handler
<1>2. Slips' = Slips
  BY <1>1, SlipsStay
<1>3. CASE rec' = rec
  BY <1>1, <1>2, <1>3, EntriesStay DEF Abstract!vars
<1>4. CASE rec' = [rec EXCEPT ![j] = [made |-> TRUE, in |-> job[j].t, out |-> NoTime]]
  <2>1. /\ \A r \in Jobs : rec'[r] = IF r = j THEN [made |-> TRUE, in |-> job[j].t, out |-> NoTime]
                                     ELSE rec[r]
        /\ ~rec[j].made
    BY <1>1, <1>4 DEF TypeOK, IdsInv, NotYetMade
  <2>2. {r \in Jobs : rec'[r].made} = {r \in Jobs : rec[r].made} \cup {j}
    BY <2>1
  <2>3. DOMAIN Entries = {r \in Jobs : rec[r].made} /\ j \notin DOMAIN Entries
    BY <2>1 DEF Entries
  <2>4. Entries' = [k \in DOMAIN Entries \cup {j} |->
                      IF k = j THEN [in |-> job[j].t, out |-> NoTime] ELSE Entries[k]]
    BY <2>1, <2>2, <2>3 DEF Entries
  <2>5. job[j].t \in 0 .. now
    BY <1>1 DEF IdsInv, TimesTaken, TimesPassed, TypeOK, Handler, Times, NoTime
  <2>6. Abstract!Enter(j)
    BY <1>1, <1>2, <2>3, <2>4, <2>5 DEF Abstract!Enter
  <2>7. QED
    BY <2>6 DEF Abstract!Next
<1> QED
  BY <1>1, <1>3, <1>4

LEMMA UpdateRefines ==
  ASSUME TypeOK, IdsInv, NEW j \in Jobs, UpdateServed(j)
  PROVE  [Abstract!Next]_(Abstract!vars)
<1>1. /\ UNCHANGED <<now, prefId>> /\ job[j].pc = "update"
      /\ \A i \in Jobs \ {j} : job'[i] = job[i]
      /\ job'[j].pc \in {"updated", "refused"}
      /\ rec' = rec \/ rec' = [rec EXCEPT ![job[j].id].out = job[j].t]
  BY DEF UpdateServed, Served, Goto, LoseAnswer, prefs, TypeOK, Handler
<1>2. DOMAIN Slips = {i \in Jobs : job[i].pc = "update"} /\ j \in DOMAIN Slips
      /\ Slips[j] = [id |-> job[j].id, t |-> job[j].t]
  BY <1>1 DEF Slips
<1>3. Slips' = Abstract!Without({j})
  <2>1. {i \in Jobs : job'[i].pc = "update"} = {i \in Jobs : job[i].pc = "update"} \ {j}
    BY <1>1
  <2>2. QED
    BY <1>1, <1>2, <2>1 DEF Slips, Abstract!Without
<1>4. CASE rec' = rec
  <2>1. Abstract!Tear({j})
    BY <1>1, <1>3, <1>4, EntriesStay DEF Abstract!Tear
  <2>2. QED
    BY <2>1 DEF Abstract!Next
<1>5. CASE rec' = [rec EXCEPT ![job[j].id].out = job[j].t]
  <2>1. job[j].id \in Jobs /\ rec[job[j].id].made
    BY <1>1 DEF IdsInv, IdsAreMade, TypeOK, Handler, Ids
  <2>2. \A r \in Jobs : /\ rec'[r].made = rec[r].made /\ rec'[r].in = rec[r].in
                        /\ rec'[r].out = IF r = job[j].id THEN job[j].t ELSE rec[r].out
    BY <1>5, <2>1 DEF TypeOK, Record
  <2>3. {r \in Jobs : rec'[r].made} = {r \in Jobs : rec[r].made}
    BY <2>2
  <2>4. Entries' = [r \in {k \in Jobs : rec[k].made} |->
                      [in |-> rec[r].in,
                       out |-> IF r = job[j].id THEN job[j].t ELSE rec[r].out]]
    BY <2>2, <2>3 DEF Entries
  <2>5. Entries' = [Entries EXCEPT ![Slips[j].id].out = Slips[j].t]
    <3> DEFINE made == {k \in Jobs : rec[k].made}
    <3>1. Entries = [r \in made |-> [in |-> rec[r].in, out |-> rec[r].out]]
      BY DEF Entries
    <3>2. \A a, b, c : [[in |-> a, out |-> b] EXCEPT !.out = c] = [in |-> a, out |-> c]
      OBVIOUS
    <3>3. [Entries EXCEPT ![job[j].id].out = job[j].t]
            = [r \in made |-> IF r = job[j].id THEN [Entries[r] EXCEPT !.out = job[j].t]
                              ELSE Entries[r]]
      BY <2>1, <3>1
    <3>4. \A r \in made : Entries'[r] = IF r = job[j].id THEN [Entries[r] EXCEPT !.out = job[j].t]
                                        ELSE Entries[r]
      BY <2>4, <3>1, <3>2
    <3>5. Entries' = [r \in made |-> IF r = job[j].id THEN [Entries[r] EXCEPT !.out = job[j].t]
                                     ELSE Entries[r]]
      BY <2>4, <3>4
    <3> QED
      BY <1>2, <3>3, <3>5
  <2>6. Abstract!HandIn(j)
    BY <1>1, <1>2, <1>3, <2>5 DEF Abstract!HandIn
  <2>7. QED
    BY <2>6 DEF Abstract!Next
<1> QED
  BY <1>1, <1>4, <1>5

LEMMA IdRefines ==
  ASSUME TypeOK, IdsInv, NEW j \in Jobs, SaveId(j) \/ RemoveId(j)
  PROVE  [Abstract!Next]_(Abstract!vars)
<1>1. /\ UNCHANGED <<now, rec>> /\ job[j].pc \in {"saved", "removed"}
      /\ \A i \in Jobs \ {j} : job'[i] = job[i]
      /\ job'[j].pc \in {"named", "dead", "cleared"}
      /\ \/ prefId' \in {prefId, NoRecord}
         \/ job[j].pc = "saved" /\ prefId' = j
  BY DEF SaveId, RemoveId, OnPage, Goto, TypeOK, Handler
<1>2. Slips' = Slips /\ Entries' = Entries
  BY <1>1, SlipsStay, EntriesStay
<1>3. CASE prefId' = prefId
  BY <1>1, <1>2, <1>3 DEF Abstract!vars
<1>4. CASE prefId' = NoRecord
  <2>1. Abstract!Forget
    BY <1>1, <1>2, <1>4 DEF Abstract!Forget
  <2>2. QED
    BY <2>1 DEF Abstract!Next
<1>5. CASE job[j].pc = "saved" /\ prefId' = j
  <2>1. j \in DOMAIN Entries
    BY <1>5 DEF Entries, IdsInv, IdsAreMade
  <2>2. Abstract!Note(j)
    BY <1>1, <1>2, <1>5, <2>1 DEF Abstract!Note
  <2>3. QED
    BY <2>2 DEF Abstract!Next
<1> QED
  BY <1>1, <1>3, <1>4, <1>5

LEMMA SheetNext ==
  TypeOK /\ IdsInv /\ [Next]_vars => [Abstract!Next]_(Abstract!vars)
<1> SUFFICES ASSUME TypeOK, IdsInv, [Next]_vars
             PROVE  [Abstract!Next]_(Abstract!vars)
  OBVIOUS
<1>1. CASE UNCHANGED vars
  <2>1. UNCHANGED <<now, rec, prefId, job>>
    BY <1>1 DEF vars, prefs
  <2>2. QED
    BY <2>1 DEF Abstract!vars, Entries, Slips
<1>2. CASE Tick
  <2>1. now' = now + 1 /\ UNCHANGED <<rec, prefId, job>>
    BY <1>2 DEF Tick, prefs
  <2>2. Abstract!Tick
    BY <2>1 DEF Abstract!Tick, Entries, Slips
  <2>3. QED
    BY <2>2 DEF Abstract!Next
<1>3. CASE CalmAction
  BY <1>3, CalmActions, CalmRefines
<1> QED
  BY <1>1, <1>2, <1>3, NextSplits, UploadedRefines, CreateRefines, UpdateRefines, IdRefines

LEMMA SheetInit == Init => Abstract!Init
<1> SUFFICES ASSUME Init PROVE Abstract!Init
  OBVIOUS
<1>1. Entries = Abstract!Empty /\ Slips = Abstract!Empty
  BY DEF Init, Entries, Slips, Abstract!Empty
<1> QED
  BY <1>1 DEF Init, Abstract!Init

\* The manual clock keeps the time sheet, for any handlers, lost answers, pages
\* left and kills: every step is one of TimeSheet's or leaves its state alone.
THEOREM SheetIsKept == Spec => KeepsTimeSheet
<1>1. Init => TypeOK /\ IdsInv
  BY TypeInit, IdsInvInit
<1>2. TypeOK /\ IdsInv /\ [Next]_vars => (TypeOK /\ IdsInv)'
  BY TypeKept, IdsInvKept
<1> QED
  BY <1>1, <1>2, SheetInit, SheetNext, PTL DEF Spec, KeepsTimeSheet, Abstract!Spec
===============================================================================
