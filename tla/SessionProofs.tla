--------------------------- MODULE SessionProofs ---------------------------
(****************************************************************************)
(* Theorems about Session, for any number of employees, sign-ins, sign-outs,*)
(* launches and changes made elsewhere.                                     *)
(****************************************************************************)
EXTENDS Session, TLAPS

(* Types: the pages, the sign-ins and the rest. ----------------------------*)

PagesTyped ==
  /\ page \in {"login", "tabs", "pushed"} /\ front \in Pages
  /\ tab \in [Pages -> TabsPage]
  /\ \A p \in Pages : tab[p].up <=> tab[p].viewer # Unset
  /\ NewsIsTheViewers

JobsTyped == job \in [Jobs -> SignIn] /\ JobsHaveEmployees /\ SavedIsSet

RestTyped ==
  /\ acct \in [Emps -> Account]
  /\ counted \subseteq Emps /\ admitted \subseteq Emps
  /\ auth \in BOOLEAN /\ userId \in Users /\ tracking \in BOOLEAN
  /\ login \in BOOLEAN /\ tracker \in Users
  /\ kills \in Nat /\ changes \in Nat

Typed == PagesTyped /\ JobsTyped /\ RestTyped

\* No page is a page, and so is what a page that is gone leaves behind.
LEMMA NoPageTyped == NoPage \in TabsPage
  BY DEF NoPage, TabsPage, Users

LEMMA ClosedTyped ==
  ASSUME Typed, NEW p \in Pages
  PROVE  /\ Closed(p) \in TabsPage /\ ~Closed(p).up /\ ~Closed(p).news
         /\ Closed(p).viewer = Unset
  BY NoPageTyped DEF Closed, NoPage, TabsPage, Typed, PagesTyped

\* A page opened for a user hears of that user.
LEMMA OpenedTyped ==
  ASSUME NEW u \in Users
  PROVE  /\ Opened(u) \in TabsPage /\ Opened(u).up /\ Opened(u).viewer = u
         /\ Opened(u).news <=> u \in Emps
<1>0. (u \in Emps) \in BOOLEAN
  OBVIOUS
<1>1. PICK b \in BOOLEAN : b = (u \in Emps)
  BY <1>0, Zenon
<1>2. Opened(u) = [NoPage EXCEPT !.up = TRUE, !.viewer = u, !.news = b]
  BY <1>1, Zenon DEF Opened
<1> DEFINE t == [NoPage EXCEPT !.up = TRUE, !.viewer = u, !.news = b]
<1>3. t \in TabsPage
  BY <1>1 DEF TabsPage, NoPage
<1>4. t.up /\ t.viewer = u /\ t.news = b
  BY DEF NoPage
<1> HIDE DEF t
<1>5. Opened(u) = t
  BY <1>2, Zenon DEF t
<1> QED
  BY <1>1, <1>3, <1>4, <1>5, Zenon

\* Pages that keep their user and hear no new thing stay well typed.
LEMMA PagesStay ==
  ASSUME Typed, page' \in {"login", "tabs", "pushed"}, front' = front,
         page' # "login" => page # "login",
         tab' \in [Pages -> TabsPage],
         \A p \in Pages : /\ tab'[p].up = tab[p].up /\ tab'[p].viewer = tab[p].viewer
                          /\ tab'[p].news => tab[p].viewer \in Emps
  PROVE  PagesTyped'
  BY DEF Typed, PagesTyped, NewsIsTheViewers

\* What a change of e's document does to the pages.
LEMMA Raised ==
  ASSUME Typed, NEW e \in Emps, Raise(e)
  PROVE  /\ tab' \in [Pages -> TabsPage]
         /\ \A p \in Pages :
              /\ tab[p].viewer # e => tab'[p] = tab[p]
              /\ tab[p].viewer = e => /\ tab'[p].news /\ tab'[p].viewer = tab[p].viewer
                                      /\ tab'[p].up = tab[p].up
<1> DEFINE t(p) == [tab[p] EXCEPT !.news = TRUE]
<1>1. \A p \in Pages : /\ t(p) \in TabsPage /\ t(p).news
                       /\ t(p).viewer = tab[p].viewer /\ t(p).up = tab[p].up
  BY DEF Typed, PagesTyped, TabsPage
<1>2. \A p \in Pages : tab[p] \in TabsPage
  BY DEF Typed, PagesTyped
<1>3. tab' = [p \in Pages |-> IF tab[p].viewer = e THEN t(p) ELSE tab[p]]
  BY DEF Raise
<1> HIDE DEF t
<1> QED
  BY <1>1, <1>2, <1>3

LEMMA RaiseTyped ==
  ASSUME Typed, NEW e \in Emps, Raise(e), UNCHANGED <<page, front>>
  PROVE  PagesTyped'
<1>1. \A p \in Pages : /\ tab'[p].up = tab[p].up /\ tab'[p].viewer = tab[p].viewer
                       /\ tab'[p].news => tab[p].viewer \in Emps
  BY Raised DEF Typed, PagesTyped, NewsIsTheViewers
<1>2. tab' \in [Pages -> TabsPage]
  BY Raised
<1>3. page \in {"login", "tabs", "pushed"}
  BY DEF Typed, PagesTyped
<1> QED
  BY <1>1, <1>2, <1>3, PagesStay

\* A step of one page.
LEMMA OnePage ==
  ASSUME Typed, NEW p \in Pages, NEW t \in TabsPage, tab' = [tab EXCEPT ![p] = t],
         t.up = tab[p].up, t.viewer = tab[p].viewer, t.news => tab[p].news,
         UNCHANGED <<page, front>>
  PROVE  PagesTyped'
<1>1. tab' \in [Pages -> TabsPage]
  BY DEF Typed, PagesTyped
<1>2. \A q \in Pages : tab'[q] = IF q = p THEN t ELSE tab[q]
  BY DEF Typed, PagesTyped
<1>3. \A q \in Pages : /\ tab'[q].up = tab[q].up /\ tab'[q].viewer = tab[q].viewer
                       /\ tab'[q].news => tab[q].viewer \in Emps
  BY <1>2 DEF Typed, PagesTyped, NewsIsTheViewers
<1> QED
  BY <1>1, <1>3, PagesStay DEF Typed, PagesTyped

\* The steps of a page: what becomes of it, and that the other pages stay.
LEMMA Stepped ==
  ASSUME Typed, NEW p \in Pages,
         \/ Deliver(p) \/ \E s \in tab[p].checking : Checked(p, s)
         \/ SignedOut(p) \/ StaleSignedOut(p) \/ (SignOutPressed /\ p = front)
  PROVE  \E t \in TabsPage : /\ tab' = [tab EXCEPT ![p] = t]
                             /\ t.up = tab[p].up /\ t.viewer = tab[p].viewer
                             /\ t.news => tab[p].news
<1> DEFINE old == tab[p]
           Stays(t) == /\ t \in TabsPage /\ t.up = old.up /\ t.viewer = old.viewer
                       /\ t.news => old.news
<1>a. old \in TabsPage /\ tab \in [Pages -> TabsPage]
  BY DEF Typed, PagesTyped
<1>b. ASSUME NEW t, Stays(t), tab' = [tab EXCEPT ![p] = t]
      PROVE  \E u \in TabsPage : /\ tab' = [tab EXCEPT ![p] = u]
                                 /\ u.up = tab[p].up /\ u.viewer = tab[p].viewer
                                 /\ u.news => tab[p].news
  BY <1>b
<1>1. CASE Deliver(p)
  <2>1. acct[old.viewer] \in Account
    BY <1>1 DEF Deliver, Typed, PagesTyped, NewsIsTheViewers, RestTyped
  <2>2. PICK c \in SUBSET Account :
          c = IF Passes(acct[old.viewer]) THEN old.checking
              ELSE old.checking \cup {acct[old.viewer]}
    BY <1>a, <2>1 DEF TabsPage
  <2> DEFINE t == [old EXCEPT !.news = FALSE, !.missed = FALSE, !.checking = c]
  <2>3. tab' = [tab EXCEPT ![p] = t]
    BY <1>1, <1>a, <2>2 DEF Deliver
  <2>4. Stays(t)
    BY <1>a DEF TabsPage
  <2>5. QED
    BY <1>b, <2>3, <2>4
<1>2. ASSUME NEW s \in old.checking, Checked(p, s)
      PROVE  \E t : Stays(t) /\ tab' = [tab EXCEPT ![p] = t]
  <2>0. PICK c \in SUBSET Account : c = old.checking \ {s}
    BY <1>a DEF TabsPage
  <2>1. PICK n \in Nat : n = old.asked + 1
    BY <1>a DEF TabsPage
  <2> DEFINE out    == [old EXCEPT !.checking = c, !.asked = n]
             failed == [old EXCEPT !.checking = c, !.missed = TRUE]
  <2>a. Stays(out)
    BY <1>a DEF TabsPage
  <2>b. Stays(failed)
    BY <1>a DEF TabsPage
  <2>2. CASE tab' = [tab EXCEPT ![p].checking = @ \ {s}, ![p].asked = @ + 1]
    <3>1. tab' = [tab EXCEPT ![p] = out]
      BY <2>0, <2>1, <2>2, <1>a
    <3> HIDE DEF out, failed, Stays
    <3>2. QED
      BY <2>a, <3>1
  <2>3. CASE tab' = [tab EXCEPT ![p].checking = @ \ {s}, ![p].missed = TRUE]
    <3>1. tab' = [tab EXCEPT ![p] = failed]
      BY <2>0, <2>3, <1>a
    <3> HIDE DEF out, failed, Stays
    <3>2. QED
      BY <2>b, <3>1
  <2>4. QED
    BY <1>2, <2>2, <2>3 DEF Checked
<1>3. CASE SignedOut(p)
  <2> DEFINE t == [old EXCEPT !.asked = @ - 1, !.waiting = @ + 1]
  <2>1. tab' = [tab EXCEPT ![p] = t]
    BY <1>3, <1>a DEF SignedOut
  <2>2. Stays(t)
    BY <1>3, <1>a DEF TabsPage, SignedOut
  <2>3. QED
    BY <1>b, <2>1, <2>2
<1>4. CASE StaleSignedOut(p)
  <2> DEFINE t == [old EXCEPT !.asked = @ - 1]
  <2>1. tab' = [tab EXCEPT ![p] = t]
    BY <1>4, <1>a DEF StaleSignedOut
  <2>2. Stays(t)
    BY <1>4, <1>a DEF TabsPage, StaleSignedOut
  <2>3. QED
    BY <1>b, <2>1, <2>2
<1>5. CASE SignOutPressed /\ p = front
  <2> DEFINE t == [old EXCEPT !.asked = @ + 1]
  <2>1. tab' = [tab EXCEPT ![p] = t]
    BY <1>5, <1>a DEF SignOutPressed
  <2>2. Stays(t)
    BY <1>a DEF TabsPage
  <2>3. QED
    BY <1>b, <2>1, <2>2
<1> HIDE DEF Stays
<1>6. CASE \E s \in tab[p].checking : Checked(p, s)
  BY <1>2, <1>6, <1>b
<1> QED
  BY <1>1, <1>3, <1>4, <1>5, <1>6

LEMMA SteppedTyped ==
  ASSUME Typed, NEW p \in Pages,
         \/ Deliver(p) \/ \E s \in tab[p].checking : Checked(p, s)
         \/ SignedOut(p) \/ StaleSignedOut(p) \/ (SignOutPressed /\ p = front)
  PROVE  PagesTyped'
<1>1. UNCHANGED <<page, front>>
  BY DEF Deliver, Checked, SignedOut, StaleSignedOut, SignOutPressed
<1> QED
  BY <1>1, Stepped, OnePage

\* The login page takes the place of the page on top.
LEMMA LeaveTyped ==
  ASSUME Typed, NEW p \in Pages, Leave(p)
  PROVE  PagesTyped'
<1> DEFINE less == [tab[p] EXCEPT !.waiting = @ - 1]
<1>1. PICK keep \in SUBSET Pages :
        tab' = [q \in Pages |-> IF q \notin keep THEN Closed(q)
                               ELSE IF q = p THEN less ELSE tab[q]]
  BY DEF Leave
<1>2. tab[p] \in TabsPage /\ tab[p].waiting > 0
  BY DEF Leave, Typed, PagesTyped
<1>3. /\ less \in TabsPage /\ less.up = tab[p].up /\ less.viewer = tab[p].viewer
      /\ less.news = tab[p].news
  BY <1>2 DEF TabsPage
<1> HIDE DEF less
<1>4. \A q \in Pages :
        /\ tab'[q] \in TabsPage
        /\ tab'[q].up <=> tab'[q].viewer # Unset
        /\ tab'[q].news => tab'[q].viewer \in Emps
  <2>1. ASSUME NEW q \in Pages
        PROVE  \/ /\ tab'[q].up = tab[q].up /\ tab'[q].viewer = tab[q].viewer
                  /\ tab'[q].news = tab[q].news /\ tab'[q] \in TabsPage
               \/ tab'[q] = Closed(q)
    BY <1>1, <1>3 DEF Typed, PagesTyped
  <2>2. QED
    BY <2>1, ClosedTyped DEF Typed, PagesTyped, NewsIsTheViewers
<1>5. tab' \in [Pages -> TabsPage]
  BY <1>1, <1>4
<1>6. page' = "login" /\ front' \in Pages
  BY DEF Leave, Pages
<1> QED
  BY <1>4, <1>5, <1>6 DEF PagesTyped, NewsIsTheViewers

\* The tabs are opened by a sign-in ...
LEMMA EnterTyped ==
  ASSUME Typed, NEW j \in Jobs, Enter(j)
  PROVE  PagesTyped'
<1>1. CASE UNCHANGED <<page, front, tab>>
  BY <1>1 DEF Typed, PagesTyped, NewsIsTheViewers
<1>2. CASE job[j].alive
  <2>1. PICK keep \in SUBSET Pages :
          tab' = [p \in Pages |-> IF p = j THEN Opened(userId)
                                 ELSE IF p \in keep THEN tab[p] ELSE Closed(p)]
    BY <1>2 DEF Enter
  <2>2. userId \in Users /\ userId # Unset
    BY DEF Enter, At, Typed, RestTyped, JobsTyped, SavedIsSet
  <2>3. j \in Pages /\ page' = "tabs" /\ front' = j
    BY <1>2 DEF Enter, Pages
  <2>4. \A p \in Pages : tab'[p] \in {Opened(userId), tab[p], Closed(p)}
    BY <2>1
  <2>5. tab'[j] = Opened(userId)
    BY <2>1, <2>3
  <2>6. \A p \in Pages :
          /\ tab'[p] \in TabsPage
          /\ tab'[p].up <=> tab'[p].viewer # Unset
          /\ tab'[p].news => tab'[p].viewer \in Emps
    BY <2>2, <2>4, OpenedTyped, ClosedTyped DEF Typed, PagesTyped, NewsIsTheViewers
  <2>7. tab' \in [Pages -> TabsPage]
    BY <2>1, <2>6
  <2>8. tab'[j].up
    BY <2>2, <2>5, OpenedTyped
  <2>9. QED
    BY <2>3, <2>6, <2>7, <2>8 DEF PagesTyped, NewsIsTheViewers
<1> QED
  BY <1>1, <1>2 DEF Enter, tabs

\* ... or by a launch.
LEMMA RelaunchTyped ==
  ASSUME Typed, Relaunch
  PROVE  PagesTyped'
<1>1. Launched \in Pages /\ front' = Launched
  BY DEF Relaunch, Pages
<1>2. CASE LetIn /\ page' = "tabs"
           /\ tab' = [p \in Pages |-> IF p = Launched THEN Opened(userId) ELSE NoPage]
  <2>1. userId \in Users /\ userId # Unset
    BY <1>2 DEF LetIn, Typed, RestTyped
  <2>2. \A p \in Pages : tab'[p] \in {Opened(userId), NoPage}
    BY <1>2
  <2>3. tab'[Launched] = Opened(userId)
    BY <1>1, <1>2
  <2>4. ~NoPage.up /\ ~NoPage.news /\ NoPage.viewer = Unset
    BY DEF NoPage
  <2>5. \A p \in Pages :
          /\ tab'[p] \in TabsPage
          /\ tab'[p].up <=> tab'[p].viewer # Unset
          /\ tab'[p].news => tab'[p].viewer \in Emps
    BY <2>1, <2>2, <2>4, NoPageTyped, OpenedTyped
  <2>6. tab' \in [Pages -> TabsPage]
    BY <1>2, <2>5
  <2>7. tab'[Launched].up
    BY <2>1, <2>3, OpenedTyped
  <2>8. QED
    BY <1>1, <1>2, <2>5, <2>6, <2>7 DEF PagesTyped, NewsIsTheViewers
<1>3. CASE page' = "login" /\ tab' = [p \in Pages |-> NoPage]
  BY <1>1, <1>3, NoPageTyped DEF PagesTyped, NewsIsTheViewers, NoPage
<1> QED
  BY <1>2, <1>3 DEF Relaunch

LEMMA PagesKept ==
  ASSUME Typed, [Next]_vars
  PROVE  PagesTyped'
<1> USE DEF tabs
<1>1. ASSUME NEW e \in Emps, PortalChanges(e) \/ OtherSignsUp(e) \/ OtherFieldWritten(e)
      PROVE  PagesTyped'
  BY <1>1, RaiseTyped DEF PortalChanges, OtherSignsUp, OtherFieldWritten
<1>2. ASSUME NEW j \in Jobs, SignInStep(j)
      PROVE  PagesTyped'
  <2>1. CASE SendAccount(j)
    <3>1. job[j].emp \in Emps
      BY <2>1 DEF SendAccount, At, Typed, JobsTyped, JobsHaveEmployees, InFlight
    <3>2. UNCHANGED <<page, front>> /\ (Raise(job[j].emp) \/ UNCHANGED tab)
      BY <2>1 DEF SendAccount
    <3>3. QED
      BY <3>1, <3>2, RaiseTyped DEF Typed, PagesTyped, NewsIsTheViewers
  <2>2. CASE Enter(j)
    BY <2>2, EnterTyped
  <2>3. CASE UNCHANGED <<page, front, tab>>
    BY <2>3 DEF Typed, PagesTyped, NewsIsTheViewers
  <2>4. QED
    BY <1>2, <2>1, <2>2, <2>3 DEF SignInStep, Verified, CountDevice, SaveUser,
       SaveTracking, OtpPageGone
<1>3. ASSUME NEW p \in Pages, TabsStep(p)
      PROVE  PagesTyped'
  BY <1>3, SteppedTyped, LeaveTyped DEF TabsStep
<1>4. CASE SignOutPressed
  <2>1. front \in Pages
    BY DEF Typed, PagesTyped
  <2>2. QED
    BY <1>4, <2>1, SteppedTyped
<1>5. CASE OpenPage \/ BackToTabs
  BY <1>5 DEF OpenPage, BackToTabs, Typed, PagesTyped, NewsIsTheViewers
<1>6. CASE StorePosition
  BY <1>6, RaiseTyped DEF StorePosition
<1>7. CASE Relaunch
  BY <1>7, RelaunchTyped
<1>8. CASE UNCHANGED <<page, front, tab>>
  BY <1>8 DEF Typed, PagesTyped, NewsIsTheViewers
<1>9. CASE \/ ToggleTracking \/ UNCHANGED vars
           \/ \E j \in Jobs, e \in Emps : LookUp(j, e) \/ SignInPressed(j, e)
           \/ \E j, k \in Jobs : SubmitAgain(j, k)
  BY <1>8, <1>9 DEF ToggleTracking, LookUp, SignInPressed, SubmitAgain, vars
<1> QED
  BY <1>1, <1>2, <1>3, <1>4, <1>5, <1>6, <1>7, <1>9 DEF Next

\* The end of a sign-in, and of its page.
LEMMA OverTyped == Over \in SignIn /\ Over.pc = "over"
  BY DEF Over, SignIn, Pcs, Users

LEMMA PageGoneTyped ==
  ASSUME Typed, NEW k \in Jobs
  PROVE  /\ PageGone(k) \in SignIn
         /\ \/ PageGone(k) = Over
            \/ /\ PageGone(k).emp = job[k].emp /\ PageGone(k).kind = job[k].kind
               /\ PageGone(k).pc = job[k].pc
<1>1. job[k] \in SignIn
  BY DEF Typed, JobsTyped
<1>2. [job[k] EXCEPT !.alive = FALSE] \in SignIn
  BY <1>1 DEF SignIn
<1>3. /\ [job[k] EXCEPT !.alive = FALSE].emp = job[k].emp
      /\ [job[k] EXCEPT !.alive = FALSE].kind = job[k].kind
      /\ [job[k] EXCEPT !.alive = FALSE].pc = job[k].pc
  BY <1>1 DEF SignIn
<1> QED
  BY <1>2, <1>3, OverTyped DEF PageGone

\* Sign-ins that stay where they are, with their employees, or end.
Ending ==
  \A k \in Jobs :
    \/ job'[k].emp = job[k].emp /\ job'[k].kind = job[k].kind /\ job'[k].pc = job[k].pc
    \/ job'[k] = Over

LEMMA EndingTyped ==
  ASSUME Typed, job' \in [Jobs -> SignIn], Ending, userId # Unset => userId' # Unset
  PROVE  JobsTyped'
<1>1. \A k \in Jobs : job'[k].pc = "over" \/ (job'[k].emp = job[k].emp /\ job'[k].pc = job[k].pc)
  BY OverTyped DEF Ending
<1> QED
  BY <1>1 DEF Typed, JobsTyped, JobsHaveEmployees, SavedIsSet, InFlight

\* A sign-in goes on to pc.
LEMMA GoingTyped ==
  ASSUME Typed, NEW j \in Jobs, NEW pc \in Pcs, InFlight(j),
         job' = [job EXCEPT ![j].pc = pc], userId # Unset => userId' # Unset,
         pc \in {"saved", "tracked"} => userId' # Unset
  PROVE  JobsTyped'
<1>1. job' \in [Jobs -> SignIn]
  BY DEF Typed, JobsTyped, SignIn
<1>2. \A k \in Jobs : job'[k].emp = job[k].emp /\ (k # j => job'[k].pc = job[k].pc)
  BY DEF Typed, JobsTyped, SignIn
<1>3. job'[j].pc = pc
  BY DEF Typed, JobsTyped, SignIn
<1> QED
  BY <1>1, <1>2, <1>3 DEF Typed, JobsTyped, JobsHaveEmployees, SavedIsSet, InFlight

\* A sign-in begins.
LEMMA BeginningTyped ==
  ASSUME Typed, NEW j \in Jobs, NEW r \in SignIn, job' = [job EXCEPT ![j] = r],
         r.emp \in Emps, r.pc \in {"otp", "device"}, UNCHANGED userId
  PROVE  JobsTyped'
<1>1. job' \in [Jobs -> SignIn] /\ \A k \in Jobs : job'[k] = IF k = j THEN r ELSE job[k]
  BY DEF Typed, JobsTyped
<1> QED
  BY <1>1 DEF Typed, JobsTyped, JobsHaveEmployees, SavedIsSet, InFlight

\* Which record it begins with.
LEMMA Begun ==
  ASSUME Typed, NEW j \in Jobs,
         \/ \E e \in Emps : LookUp(j, e) \/ SignInPressed(j, e)
         \/ \E k \in Jobs : SubmitAgain(j, k)
  PROVE  /\ At(j, "idle") /\ UNCHANGED <<userId, tracker, tab, counted>>
         /\ admitted \subseteq admitted'
         /\ \E r \in SignIn :
              /\ job' = [job EXCEPT ![j] = r] /\ r.emp \in Emps
              /\ \/ r.pc = "otp" /\ (r.kind = "login" => r.emp \in admitted')
                 \/ /\ r.pc = "device"
                    /\ \E k \in Jobs : /\ InFlight(k) /\ r.emp = job[k].emp
                                       /\ r.kind = job[k].kind
<1> USE DEF cloud, prefs, tabs
<1>1. At(j, "idle") /\ UNCHANGED <<userId, tracker, tab, counted>> /\ admitted \subseteq admitted'
  BY DEF LookUp, SignInPressed, Begin, SubmitAgain
<1>2. ASSUME NEW e \in Emps, LookUp(j, e) \/ SignInPressed(j, e)
      PROVE  \E r \in SignIn :
               /\ job' = [job EXCEPT ![j] = r] /\ r.emp \in Emps
               /\ r.pc = "otp" /\ (r.kind = "login" => r.emp \in admitted')
  <2> DEFINE r(kind) == [kind |-> kind, pc |-> "otp", emp |-> e, alive |-> TRUE]
  <2>1. CASE LookUp(j, e)
    <3>1. r("register") \in SignIn
      BY DEF SignIn, Pcs, Users
    <3>2. QED
      BY <2>1, <3>1 DEF LookUp, Begin
  <2>2. CASE SignInPressed(j, e)
    <3>1. r("login") \in SignIn
      BY DEF SignIn, Pcs, Users
    <3>2. QED
      BY <2>2, <3>1 DEF SignInPressed, Begin
  <2>3. QED
    BY <1>2, <2>1, <2>2
<1>3. ASSUME NEW k \in Jobs, SubmitAgain(j, k)
      PROVE  \E r \in SignIn :
               /\ job' = [job EXCEPT ![j] = r] /\ r.emp \in Emps /\ r.pc = "device"
               /\ InFlight(k) /\ r.emp = job[k].emp /\ r.kind = job[k].kind
  <2> DEFINE r == [job[k] EXCEPT !.pc = "device"]
  <2>1. job[k] \in SignIn /\ InFlight(k) /\ job[k].emp \in Emps
    BY <1>3 DEF SubmitAgain, Typed, JobsTyped, JobsHaveEmployees
  <2>2. r \in SignIn /\ r.pc = "device" /\ r.emp = job[k].emp /\ r.kind = job[k].kind
    BY <2>1 DEF SignIn, Pcs
  <2>3. job' = [job EXCEPT ![j] = r]
    BY <1>3 DEF SubmitAgain
  <2> HIDE DEF r
  <2>4. QED
    BY <2>1, <2>2, <2>3
<1> QED
  BY <1>1, <1>2, <1>3

LEMMA JobsKept ==
  ASSUME Typed, [Next]_vars
  PROVE  JobsTyped'
<1> USE DEF prefs
<1>1. CASE UNCHANGED <<job, userId>>
  BY <1>1 DEF Typed, JobsTyped, JobsHaveEmployees, SavedIsSet, InFlight
<1>2. ASSUME NEW j \in Jobs, SignInStep(j)
      PROVE  JobsTyped'
  <2> USE DEF At, Goto, Pcs
  <2>1. CASE \/ Verified(j) \/ CountDevice(j) \/ SaveTracking(j)
             \/ SendAccount(j) /\ job' = [job EXCEPT ![j].pc = "account"]
    <3>1. PICK pc \in Pcs : /\ job' = [job EXCEPT ![j].pc = pc] /\ InFlight(j)
                            /\ pc \in {"saved", "tracked"} => job[j].pc = "saved"
      BY <2>1 DEF Verified, CountDevice, SaveTracking, SendAccount, InFlight
    <3>2. UNCHANGED userId
      BY <2>1 DEF Verified, CountDevice, SaveTracking, SendAccount
    <3>3. QED
      BY <3>1, <3>2, GoingTyped DEF Typed, JobsTyped, SavedIsSet
  <2>2. CASE SaveUser(j)
    <3>1. InFlight(j) /\ job[j].emp \in Emps
      BY <2>2 DEF SaveUser, InFlight, Typed, JobsTyped, JobsHaveEmployees
    <3>2. userId' # Unset
      BY <2>2, <3>1, NamesAssumption DEF SaveUser
    <3>3. QED
      BY <2>2, <3>1, <3>2, GoingTyped DEF SaveUser
  <2>3. CASE SendAccount(j) /\ job' # [job EXCEPT ![j].pc = "account"]
    <3>1. CASE job[j].alive
      <4>1. job' = [job EXCEPT ![j].pc = "otp"]
        BY <2>3, <3>1 DEF SendAccount, Typed, JobsTyped
      <4>2. InFlight(j)
        BY <2>3 DEF SendAccount, InFlight
      <4>3. QED
        BY <2>3, <4>1, <4>2, GoingTyped DEF SendAccount
    <3>2. CASE ~job[j].alive
      <4>1. job' = [job EXCEPT ![j] = Over] /\ UNCHANGED userId
        BY <2>3, <3>2 DEF SendAccount
      <4>2. QED
        BY <4>1, OverTyped, EndingTyped DEF Ending, Typed, JobsTyped
    <3>3. QED
      BY <3>1, <3>2
  <2>4. CASE Enter(j) \/ OtpPageGone(j)
    <3>1. \/ job' = [job EXCEPT ![j] = Over]
          \/ job' = [k \in Jobs |-> IF k = j THEN Over ELSE PageGone(k)]
          \/ job' = [k \in Jobs |-> PageGone(k)]
      BY <2>4 DEF Enter, OtpPageGone
    <3>2. job' \in [Jobs -> SignIn] /\ Ending
      BY <3>1, OverTyped, PageGoneTyped DEF Ending, Typed, JobsTyped
    <3>3. UNCHANGED userId
      BY <2>4 DEF Enter, OtpPageGone
    <3>4. QED
      BY <3>2, <3>3, EndingTyped
  <2>5. QED
    BY <1>2, <2>1, <2>2, <2>3, <2>4 DEF SignInStep
<1>3. ASSUME NEW j \in Jobs,
             \/ \E e \in Emps : LookUp(j, e) \/ SignInPressed(j, e)
             \/ \E k \in Jobs : SubmitAgain(j, k)
      PROVE  JobsTyped'
  BY <1>3, Begun, BeginningTyped
<1>4. ASSUME NEW p \in Pages, Leave(p)
      PROVE  JobsTyped'
  <2>1. job' \in [Jobs -> SignIn] /\ Ending
    BY <1>4, PageGoneTyped DEF Leave, Ending
  <2>2. QED
    BY <1>4, <2>1, EndingTyped, NamesAssumption DEF Leave
<1>5. CASE Relaunch
  <2>1. job' \in [Jobs -> SignIn] /\ Ending
    BY <1>5, OverTyped DEF Relaunch, Ending, Typed, JobsTyped
  <2>2. QED
    BY <1>5, <2>1, EndingTyped DEF Relaunch
<1>6. CASE \/ \E e \in Emps : PortalChanges(e) \/ OtherSignsUp(e) \/ OtherFieldWritten(e)
           \/ \E p \in Pages : TabsStep(p) /\ ~Leave(p)
           \/ SignOutPressed \/ OpenPage \/ BackToTabs \/ ToggleTracking
           \/ StorePosition \/ UNCHANGED vars
  BY <1>1, <1>6 DEF PortalChanges, OtherSignsUp, OtherFieldWritten, TabsStep, Deliver,
     Checked, SignedOut, StaleSignedOut, SignOutPressed, OpenPage, BackToTabs,
     ToggleTracking, StorePosition, vars
<1> QED
  BY <1>2, <1>3, <1>4, <1>5, <1>6 DEF Next

LEMMA RestKept ==
  ASSUME Typed, [Next]_vars
  PROVE  RestTyped'
<1> USE DEF cloud, prefs, bounds, Typed, RestTyped
<1>1. ASSUME NEW e \in Emps, PortalChanges(e)
      PROVE  RestTyped'
  <2>1. PICK a \in {acct[e].active, FALSE}, d \in {acct[e].device, "none"} :
          acct' = [acct EXCEPT ![e] = [active |-> a, device |-> d]]
    BY <1>1 DEF PortalChanges
  <2>2. acct[e].active \in BOOLEAN /\ acct[e].device \in {"none", "here", "other"}
    BY DEF Account
  <2>3. a \in BOOLEAN
    BY <2>2, Zenon
  <2>4. d \in {"none", "here", "other"}
    BY <2>2
  <2>5. [active |-> a, device |-> d] \in Account
    BY <2>3, <2>4, Zenon DEF Account
  <2>6. QED
    BY <1>1, <2>1, <2>5 DEF PortalChanges
<1>2. ASSUME NEW e \in Emps, OtherSignsUp(e) \/ OtherFieldWritten(e)
      PROVE  RestTyped'
  <2>1. [active |-> TRUE, device |-> "other"] \in Account
    BY DEF Account
  <2>2. CASE OtherSignsUp(e)
    <3>1. acct' \in [Emps -> Account]
      BY <2>1, <2>2 DEF OtherSignsUp
    <3>2. QED
      BY <2>2, <3>1 DEF OtherSignsUp
  <2>3. CASE OtherFieldWritten(e)
    BY <2>3 DEF OtherFieldWritten
  <2>4. QED
    BY <1>2, <2>2, <2>3
<1>3. ASSUME NEW j \in Jobs, SignInStep(j)
      PROVE  RestTyped'
  <2> USE DEF At, tabs
  <2>1. InFlight(j) => job[j].emp \in Emps
    BY DEF JobsTyped, JobsHaveEmployees
  <2>2. CASE SendAccount(j)
    <3>1. Here \in Account
      BY DEF Here, Account
    <3>2. QED
      BY <2>1, <2>2, <3>1 DEF SendAccount, InFlight
  <2>3. CASE CountDevice(j)
    BY <2>1, <2>3 DEF CountDevice, InFlight
  <2>4. CASE SaveUser(j)
    BY <2>1, <2>4 DEF SaveUser, InFlight, Users
  <2>5. CASE Verified(j) \/ SaveTracking(j) \/ OtpPageGone(j)
    BY <2>5 DEF Verified, SaveTracking, OtpPageGone
  <2>6. CASE Enter(j)
    BY <2>6 DEF Enter
  <2>7. QED
    BY <1>3, <2>2, <2>3, <2>4, <2>5, <2>6 DEF SignInStep
<1>4. ASSUME NEW j \in Jobs, NEW e \in Emps, LookUp(j, e) \/ SignInPressed(j, e)
      PROVE  RestTyped'
  BY <1>4 DEF LookUp, SignInPressed, tabs
<1>5. ASSUME NEW j \in Jobs, NEW k \in Jobs, SubmitAgain(j, k)
      PROVE  RestTyped'
  BY <1>5 DEF SubmitAgain, tabs
<1>6. ASSUME NEW p \in Pages, TabsStep(p)
      PROVE  RestTyped'
  <2>1. CASE SignedOut(p) \/ StaleSignedOut(p)
    <3>1. auth' \in BOOLEAN
      BY <2>1, Zenon DEF SignedOut, StaleSignedOut
    <3>2. QED
      BY <2>1, <3>1 DEF SignedOut, StaleSignedOut
  <2>2. CASE Leave(p)
    BY <2>2 DEF Leave, Users
  <2>3. CASE Deliver(p) \/ \E s \in tab[p].checking : Checked(p, s)
    BY <2>3 DEF Deliver, Checked
  <2>4. QED
    BY <1>6, <2>1, <2>2, <2>3 DEF TabsStep
<1>7. CASE Relaunch
  <2>1. tracker' \in Users
    <3>1. tracker' = userId \/ tracker' = Unset
      BY <1>7, Zenon DEF Relaunch
    <3>2. QED
      BY <3>1 DEF Users
  <2>2. login' \in BOOLEAN
    BY <1>7, Zenon DEF Relaunch
  <2>3. kills' \in Nat /\ UNCHANGED <<cloud, auth, prefs, changes>>
    BY <1>7 DEF Relaunch
  <2>4. QED
    BY <2>1, <2>2, <2>3
<1>8. CASE \/ SignOutPressed \/ OpenPage \/ BackToTabs \/ StorePosition \/ UNCHANGED vars
  BY <1>8 DEF SignOutPressed, OpenPage, BackToTabs, StorePosition, vars, tabs
<1>9. CASE ToggleTracking
  BY <1>9 DEF ToggleTracking, tabs
<1> QED
  BY <1>1, <1>2, <1>3, <1>4, <1>5, <1>6, <1>7, <1>8, <1>9 DEF Next

LEMMA TypedKept ==
  ASSUME Typed, [Next]_vars
  PROVE  Typed'
  BY PagesKept, JobsKept, RestKept DEF Typed

LEMMA TypedInit == Init => Typed
<1> SUFFICES ASSUME Init PROVE Typed
  OBVIOUS
<1>1. JobsTyped
  <2>1. job \in [Jobs -> SignIn] /\ \A j \in Jobs : job[j].pc = "idle"
    BY DEF Init, SignIn, Pcs, Users
  <2>2. QED
    BY <2>1 DEF JobsTyped, JobsHaveEmployees, SavedIsSet, InFlight
<1>2. PagesTyped
  <2>1. front \in Pages /\ page = "login" /\ tab = [p \in Pages |-> NoPage]
    BY DEF Init, Pages
  <2>2. QED
    BY <2>1, NoPageTyped DEF PagesTyped, NewsIsTheViewers, NoPage
<1>3. RestTyped
  BY DEF Init, RestTyped, Account, Users
<1> QED
  BY <1>1, <1>2, <1>3 DEF Typed

\* Every variable of the session keeps its type, and tabs are mounted only for
\* a user id that was stored.
THEOREM SessionTypeCorrect == Spec => []TypeOK
<1>1. Typed => TypeOK
  BY DEF Typed, PagesTyped, JobsTyped, RestTyped, TypeOK
<1> QED
  BY <1>1, TypedInit, TypedKept, PTL DEF Spec

(* Nobody is let in who was not admitted. ----------------------------------*)

Admission == SessionsAreAdmitted /\ JobsAreAdmitted

\* Whom a page listens for: for whom it did, for the stored user, or for nobody.
LEMMA ViewersKept ==
  ASSUME Typed, [Next]_vars
  PROVE  \A p \in Pages : tab'[p].viewer \in {tab[p].viewer, userId, Unset}
<1> DEFINE Kept == \A p \in Pages : tab'[p].viewer \in {tab[p].viewer, userId, Unset}
<1> USE DEF tabs
<1>a. userId \in Users /\ tab \in [Pages -> TabsPage]
  BY DEF Typed, RestTyped, PagesTyped
<1>b. ASSUME NEW e \in Emps, Raise(e)
      PROVE  Kept
  BY <1>b, Raised
<1>1. CASE \E e \in Emps : PortalChanges(e) \/ OtherSignsUp(e) \/ OtherFieldWritten(e)
  BY <1>1, <1>b DEF PortalChanges, OtherSignsUp, OtherFieldWritten
<1>2. CASE StorePosition
  BY <1>2, <1>b DEF StorePosition
<1>3. ASSUME NEW j \in Jobs, SendAccount(j)
      PROVE  Kept
  <2>1. job[j].emp \in Emps
    BY <1>3 DEF SendAccount, At, Typed, JobsTyped, JobsHaveEmployees, InFlight
  <2>2. Raise(job[j].emp) \/ UNCHANGED tab
    BY <1>3 DEF SendAccount
  <2>3. QED
    BY <2>1, <2>2, <1>b
<1>4. ASSUME NEW j \in Jobs, Enter(j)
      PROVE  Kept
  <2>1. CASE UNCHANGED tab
    BY <2>1
  <2>2. ASSUME NEW keep \in SUBSET Pages,
               tab' = [p \in Pages |-> IF p = j THEN Opened(userId)
                                      ELSE IF p \in keep THEN tab[p] ELSE Closed(p)]
        PROVE  Kept
    <3>1. \A p \in Pages : tab'[p] \in {Opened(userId), tab[p], Closed(p)}
      BY <2>2
    <3>2. QED
      BY <3>1, <1>a, OpenedTyped, ClosedTyped
  <2>3. QED
    BY <1>4, <2>1, <2>2 DEF Enter
<1>5. ASSUME NEW p \in Pages, TabsStep(p) \/ (SignOutPressed /\ p = front)
      PROVE  Kept
  <2>1. CASE Leave(p)
    <3> DEFINE less == [tab[p] EXCEPT !.waiting = @ - 1]
    <3>1. less.viewer = tab[p].viewer
      BY <1>a DEF TabsPage
    <3>2. \A q \in Pages : tab'[q] \in {Closed(q), tab[q]} \/ (q = p /\ tab'[q] = less)
      BY <2>1 DEF Leave
    <3> HIDE DEF less
    <3>3. QED
      BY <3>1, <3>2, ClosedTyped
  <2>2. CASE ~Leave(p)
    <3>1. PICK t \in TabsPage : tab' = [tab EXCEPT ![p] = t] /\ t.viewer = tab[p].viewer
      BY <1>5, <2>2, Stepped DEF TabsStep
    <3>2. QED
      BY <3>1, <1>a
  <2>3. QED
    BY <2>1, <2>2
<1>6. CASE SignOutPressed
  BY <1>5, <1>6 DEF Typed, PagesTyped
<1>7. CASE Relaunch
  <2>1. \A p \in Pages : tab'[p] \in {Opened(userId), NoPage}
    BY <1>7 DEF Relaunch
  <2>2. QED
    BY <2>1, <1>a, OpenedTyped DEF NoPage
<1>8. CASE \/ \E j \in Jobs, e \in Emps : LookUp(j, e) \/ SignInPressed(j, e)
           \/ \E j, k \in Jobs : SubmitAgain(j, k)
           \/ \E j \in Jobs : \/ Verified(j) \/ CountDevice(j) \/ SaveUser(j)
                              \/ SaveTracking(j) \/ OtpPageGone(j)
           \/ OpenPage \/ BackToTabs \/ ToggleTracking \/ UNCHANGED vars
  BY <1>8 DEF LookUp, SignInPressed, SubmitAgain, Verified, CountDevice, SaveUser,
     SaveTracking, OtpPageGone, OpenPage, BackToTabs, ToggleTracking, vars
<1> QED
  BY <1>1, <1>2, <1>3, <1>4, <1>5, <1>6, <1>7, <1>8 DEF Next, SignInStep

\* The sign-ins past their check stay admitted while they stay where they are.
LEMMA EndingAdmits ==
  ASSUME JobsAreAdmitted, Ending, admitted \subseteq admitted'
  PROVE  JobsAreAdmitted'
<1>1. \A k \in Jobs : PastCheck(k)' => PastCheck(k) /\ job'[k].emp = job[k].emp
  BY DEF Ending, PastCheck, InFlight, Over
<1> QED
  BY <1>1 DEF JobsAreAdmitted

\* One that goes on from where it was past its check stays admitted.
LEMMA GoingAdmits ==
  ASSUME Typed, JobsAreAdmitted, NEW j \in Jobs, NEW pc \in Pcs,
         job' = [job EXCEPT ![j].pc = pc], admitted \subseteq admitted',
         \/ PastCheck(j)
         \/ InFlight(j) /\ pc \in {"otp", "device"}
         \/ job[j].emp \in admitted'
  PROVE  JobsAreAdmitted'
<1>1. job'[j].pc = pc /\ job'[j].emp = job[j].emp /\ job'[j].kind = job[j].kind
  BY DEF Typed, JobsTyped, SignIn
<1>2. \A k \in Jobs : k # j => job'[k] = job[k]
  BY DEF Typed, JobsTyped
<1>3. \A k \in Jobs : PastCheck(k)' => PastCheck(k) \/ (k = j /\ job[j].emp \in admitted')
  BY <1>1, <1>2 DEF PastCheck, InFlight
<1> QED
  BY <1>1, <1>2, <1>3 DEF JobsAreAdmitted

LEMMA JobsAdmittedKept ==
  ASSUME Typed, JobsAreAdmitted, [Next]_vars
  PROVE  admitted \subseteq admitted' /\ JobsAreAdmitted'
<1> USE DEF cloud
<1>1. CASE UNCHANGED <<job, admitted>>
  BY <1>1 DEF JobsAreAdmitted, PastCheck, InFlight
<1>2. ASSUME NEW j \in Jobs, SignInStep(j)
      PROVE  admitted \subseteq admitted' /\ JobsAreAdmitted'
  <2> USE DEF At, Goto, Pcs
  <2>1. CASE Verified(j)
    <3>1. InFlight(j) /\ job' = [job EXCEPT ![j].pc = "device"] /\ UNCHANGED admitted
      BY <2>1 DEF Verified, InFlight
    <3>2. QED
      BY <3>1, GoingAdmits
  <2>2. CASE CountDevice(j) \/ SaveUser(j) \/ SaveTracking(j)
    <3>1. PICK pc \in Pcs : job' = [job EXCEPT ![j].pc = pc]
      BY <2>2 DEF CountDevice, SaveUser, SaveTracking
    <3>2. PastCheck(j) /\ UNCHANGED admitted
      BY <2>2 DEF CountDevice, SaveUser, SaveTracking, PastCheck, InFlight
    <3>3. QED
      BY <3>1, <3>2, GoingAdmits
  <2>3. CASE SendAccount(j) /\ job' = [job EXCEPT ![j].pc = "account"]
             /\ admitted' = admitted \cup {job[j].emp}
    BY <2>3, GoingAdmits
  <2>4. CASE SendAccount(j) /\ UNCHANGED admitted
             /\ job' = [job EXCEPT ![j] = IF job[j].alive THEN [@ EXCEPT !.pc = "otp"] ELSE Over]
    <3>1. CASE job[j].alive
      <4>1. job' = [job EXCEPT ![j].pc = "otp"]
        BY <2>4, <3>1 DEF Typed, JobsTyped
      <4>2. InFlight(j)
        BY <2>4 DEF SendAccount, InFlight
      <4>3. QED
        BY <2>4, <4>1, <4>2, GoingAdmits
    <3>2. CASE ~job[j].alive
      <4>1. job' = [job EXCEPT ![j] = Over]
        BY <2>4, <3>2
      <4>2. QED
        BY <2>4, <4>1, EndingAdmits DEF Ending, Typed, JobsTyped
    <3>3. QED
      BY <3>1, <3>2
  <2>5. CASE Enter(j) \/ OtpPageGone(j)
    <3>1. \/ job' = [job EXCEPT ![j] = Over]
          \/ job' = [k \in Jobs |-> IF k = j THEN Over ELSE PageGone(k)]
          \/ job' = [k \in Jobs |-> PageGone(k)]
      BY <2>5 DEF Enter, OtpPageGone
    <3>2. Ending
      BY <3>1, PageGoneTyped DEF Ending, Typed, JobsTyped
    <3>3. UNCHANGED admitted
      BY <2>5 DEF Enter, OtpPageGone
    <3>4. QED
      BY <3>2, <3>3, EndingAdmits
  <2>6. QED
    BY <1>2, <2>1, <2>2, <2>3, <2>4, <2>5 DEF SignInStep, SendAccount
<1>3. ASSUME NEW j \in Jobs,
             \/ \E e \in Emps : LookUp(j, e) \/ SignInPressed(j, e)
             \/ \E k \in Jobs : SubmitAgain(j, k)
      PROVE  admitted \subseteq admitted' /\ JobsAreAdmitted'
  <2>1. admitted \subseteq admitted'
    BY <1>3, Begun
  <2>2. PICK r \in SignIn :
          /\ job' = [job EXCEPT ![j] = r]
          /\ \/ r.pc = "otp" /\ (r.kind = "login" => r.emp \in admitted')
             \/ /\ r.pc = "device"
                /\ \E k \in Jobs : InFlight(k) /\ r.emp = job[k].emp /\ r.kind = job[k].kind
    BY <1>3, Begun
  <2>3. \A k \in Jobs : job'[k] = IF k = j THEN r ELSE job[k]
    BY <2>2 DEF Typed, JobsTyped
  <2>4. PastCheck(j)' => r.emp \in admitted'
    BY <2>1, <2>2, <2>3 DEF PastCheck, InFlight, JobsAreAdmitted
  <2>5. \A k \in Jobs : k # j /\ PastCheck(k)' => PastCheck(k)
    BY <2>3 DEF PastCheck, InFlight
  <2>6. QED
    BY <2>1, <2>3, <2>4, <2>5 DEF JobsAreAdmitted
<1>4. ASSUME NEW p \in Pages, Leave(p)
      PROVE  admitted \subseteq admitted' /\ JobsAreAdmitted'
  <2>1. Ending /\ UNCHANGED admitted
    BY <1>4, PageGoneTyped DEF Leave, Ending
  <2>2. QED
    BY <2>1, EndingAdmits
<1>5. CASE Relaunch
  <2>1. Ending /\ UNCHANGED admitted
    BY <1>5 DEF Relaunch, Ending
  <2>2. QED
    BY <2>1, EndingAdmits
<1>6. CASE \/ \E e \in Emps : PortalChanges(e) \/ OtherSignsUp(e) \/ OtherFieldWritten(e)
           \/ \E p \in Pages : TabsStep(p) /\ ~Leave(p)
           \/ SignOutPressed \/ OpenPage \/ BackToTabs \/ ToggleTracking
           \/ StorePosition \/ UNCHANGED vars
  BY <1>1, <1>6 DEF PortalChanges, OtherSignsUp, OtherFieldWritten, TabsStep, Deliver,
     Checked, SignedOut, StaleSignedOut, SignOutPressed, OpenPage, BackToTabs,
     ToggleTracking, StorePosition, vars
<1> QED
  BY <1>2, <1>3, <1>4, <1>5, <1>6 DEF Next

\* What is stored and counted, and whose position: admitted employees', or nobody's.
LEMMA StoredKept ==
  ASSUME Typed, Admission, [Next]_vars
  PROVE  {userId', tracker'} \cap Emps \subseteq admitted' /\ counted' \subseteq admitted'
<1> USE DEF cloud, prefs, Admission, SessionsAreAdmitted
<1>0. admitted \subseteq admitted'
  BY JobsAdmittedKept
<1>1. CASE UNCHANGED <<userId, tracker, counted>>
  BY <1>0, <1>1
<1>2. ASSUME NEW j \in Jobs, SaveUser(j)
      PROVE  {userId', tracker'} \cap Emps \subseteq admitted' /\ counted' \subseteq admitted'
  <2>1. job[j].emp \in admitted
    BY <1>2 DEF SaveUser, At, JobsAreAdmitted, PastCheck, InFlight
  <2>2. QED
    BY <1>0, <1>2, <2>1 DEF SaveUser
<1>3. ASSUME NEW j \in Jobs, CountDevice(j)
      PROVE  {userId', tracker'} \cap Emps \subseteq admitted' /\ counted' \subseteq admitted'
  <2>1. job[j].emp \in admitted
    BY <1>3 DEF CountDevice, At, JobsAreAdmitted, PastCheck
  <2>2. QED
    BY <1>0, <1>3, <2>1 DEF CountDevice
<1>4. ASSUME NEW p \in Pages, Leave(p)
      PROVE  {userId', tracker'} \cap Emps \subseteq admitted' /\ counted' \subseteq admitted'
  BY <1>4, NamesAssumption DEF Leave
<1>5. CASE Relaunch
  <2>1. tracker' \in {userId, Unset} /\ UNCHANGED <<userId, counted, admitted>>
    BY <1>5 DEF Relaunch
  <2>2. QED
    BY <2>1, NamesAssumption
<1>6. CASE \/ \E e \in Emps : PortalChanges(e) \/ OtherSignsUp(e) \/ OtherFieldWritten(e)
           \/ \E j \in Jobs : \/ Verified(j) \/ SendAccount(j) \/ SaveTracking(j)
                              \/ Enter(j) \/ OtpPageGone(j)
           \/ \E j \in Jobs, e \in Emps : LookUp(j, e) \/ SignInPressed(j, e)
           \/ \E j, k \in Jobs : SubmitAgain(j, k)
           \/ \E p \in Pages : TabsStep(p) /\ ~Leave(p)
           \/ SignOutPressed \/ OpenPage \/ BackToTabs \/ ToggleTracking
           \/ StorePosition \/ UNCHANGED vars
  BY <1>1, <1>6 DEF PortalChanges, OtherSignsUp, OtherFieldWritten, Verified,
     SendAccount, SaveTracking, Enter, OtpPageGone, LookUp, SignInPressed,
     SubmitAgain, TabsStep, Deliver, Checked, SignedOut, StaleSignedOut,
     SignOutPressed, OpenPage, BackToTabs, ToggleTracking, StorePosition, vars
<1> QED
  BY <1>2, <1>3, <1>4, <1>5, <1>6 DEF Next, SignInStep

LEMMA AdmissionKept ==
  ASSUME Typed, Admission, [Next]_vars
  PROVE  Admission'
<1>1. admitted \subseteq admitted' /\ JobsAreAdmitted'
  BY JobsAdmittedKept DEF Admission
<1>2. \A p \in Pages : tab'[p].viewer \in Emps => tab'[p].viewer \in admitted
  BY ViewersKept, NamesAssumption DEF Admission, SessionsAreAdmitted
<1> QED
  BY <1>1, <1>2, StoredKept DEF Admission, SessionsAreAdmitted

\* No tabs are mounted for, no preference names, no position is stored for and no
\* device is counted of anybody but employees this phone activated or whose
\* login it admitted, whatever becomes of the sign-ins.
THEOREM SessionsStayAdmitted == Spec => []SessionsAreAdmitted
<1>1. Init => Admission
  <2> SUFFICES ASSUME Init PROVE Admission
    OBVIOUS
  <2>1. SessionsAreAdmitted
    BY NamesAssumption DEF Init, NoPage, SessionsAreAdmitted
  <2>2. JobsAreAdmitted
    BY DEF Init, JobsAreAdmitted, PastCheck, InFlight
  <2>3. QED
    BY <2>1, <2>2 DEF Admission
<1>2. Admission => SessionsAreAdmitted
  BY DEF Admission
<1>3. Typed /\ Admission /\ [Next]_vars => (Typed /\ Admission)'
  BY TypedKept, AdmissionKept
<1> QED
  BY <1>1, <1>2, <1>3, TypedInit, PTL DEF Spec

(* Tabs of an account not bound to the phone are on their way out. ---------*)

\* A change of e's document is news to the tabs shown for e.
LEMMA RaiseKeeps ==
  ASSUME Typed, UnboundIsLeaving, NEW e \in Emps, Raise(e), UNCHANGED <<page, front>>,
         \A u \in Emps \ {e} : acct'[u] = acct[u]
  PROVE  UnboundIsLeaving'
<1>1. front \in Pages
  BY DEF Typed, PagesTyped
<1>2. CASE tab[front].viewer = e
  <2>1. tab'[front].news
    BY <1>1, <1>2, Raised
  <2>2. QED
    BY <2>1 DEF UnboundIsLeaving
<1>3. CASE tab[front].viewer # e
  <2>1. tab'[front] = tab[front]
    BY <1>1, <1>3, Raised
  <2>2. QED
    BY <1>3, <2>1 DEF UnboundIsLeaving, Unbound
<1> QED
  BY <1>2, <1>3

\* Steps that leave the account and the tabs' page alone.
LEMMA QuietKeeps ==
  ASSUME UnboundIsLeaving, UNCHANGED <<acct, front>>, tab'[front] = tab[front],
         page' # "login" => page # "login"
  PROVE  UnboundIsLeaving'
  BY DEF UnboundIsLeaving, Unbound

\* Tabs that are opened await the first snapshot.
LEMMA OpenKeeps ==
  ASSUME Typed, tab'[front'] = Opened(userId)
  PROVE  UnboundIsLeaving'
<1>1. userId \in Users
  BY DEF Typed, RestTyped
<1>2. tab'[front'].viewer \in Emps => tab'[front'].news
  BY <1>1, OpenedTyped
<1> QED
  BY <1>2 DEF UnboundIsLeaving, Unbound

\* A snapshot is delivered, checked, answered by a sign-out or by a failure.
LEMMA TabsKeep ==
  ASSUME Typed, UnboundIsLeaving, NEW p \in Pages,
         TabsStep(p) \/ (SignOutPressed /\ p = front)
  PROVE  UnboundIsLeaving'
<1> DEFINE t == tab'[front]
<1>0. /\ front \in Pages /\ tab \in [Pages -> TabsPage] /\ tab[p] \in TabsPage
      /\ page # "login" => tab[front].up
  BY DEF Typed, PagesTyped, NewsIsTheViewers
<1>1. CASE Leave(p)
  BY <1>1 DEF Leave, UnboundIsLeaving, Unbound
<1>2. CASE ~Leave(p)
  <2>0. UNCHANGED <<acct, page, front>>
    BY <1>2 DEF TabsStep, Deliver, Checked, SignedOut, StaleSignedOut, SignOutPressed,
       cloud
  <2>1. PICK n \in TabsPage : tab' = [tab EXCEPT ![p] = n] /\ n.viewer = tab[p].viewer
    BY <1>2, Stepped DEF TabsStep
  <2>2. CASE p # front
    BY <1>0, <2>0, <2>1, <2>2, QuietKeeps
  <2>3. CASE p = front
    <3>1. ASSUME Unbound'
          PROVE  Unbound
      BY <1>0, <2>0, <2>1, <2>3, <3>1 DEF Unbound
    <3>2. CASE Deliver(p)
      <4>1. ~Unbound => UnboundIsLeaving'
        BY <3>1 DEF UnboundIsLeaving
      <4>2. ASSUME Unbound
            PROVE  t.checking # {}
        <5>1. ~Passes(acct[tab[p].viewer])
          BY <2>3, <4>2 DEF Unbound
        <5>2. t.checking = tab[p].checking \cup {acct[tab[p].viewer]}
          BY <1>0, <2>3, <3>2, <5>1 DEF Deliver, TabsPage
        <5>3. QED
          BY <5>2
      <4>3. QED
        BY <2>0, <4>1, <4>2 DEF UnboundIsLeaving
    <3>3. CASE \E s \in tab[p].checking : Checked(p, s)
      <4>1. (t.asked = tab[p].asked + 1 /\ t.waiting = tab[p].waiting) \/ t.missed
        BY <1>0, <2>3, <3>3 DEF Checked, TabsPage
      <4>2. t.asked + t.waiting > 0 \/ t.missed
        BY <1>0, <4>1 DEF TabsPage
      <4>3. QED
        BY <2>0, <4>2 DEF UnboundIsLeaving
    <3>4. CASE SignedOut(p)
      <4>1. t.asked = tab[p].asked - 1 /\ t.waiting = tab[p].waiting + 1 /\ tab[p].asked > 0
        BY <1>0, <2>3, <3>4 DEF SignedOut, TabsPage
      <4>2. t.asked + t.waiting > 0
        BY <1>0, <4>1 DEF TabsPage
      <4>3. QED
        BY <2>0, <4>2 DEF UnboundIsLeaving
    <3>5. CASE StaleSignedOut(p)
      <4>1. page = "login"
        BY <1>0, <2>3, <3>5 DEF StaleSignedOut
      <4>2. QED
        BY <2>0, <4>1 DEF UnboundIsLeaving, Unbound
    <3>6. CASE SignOutPressed
      <4>1. t.asked = tab[p].asked + 1 /\ t.waiting = tab[p].waiting
        BY <1>0, <2>3, <3>6 DEF SignOutPressed, TabsPage
      <4>2. t.asked + t.waiting > 0
        BY <1>0, <4>1 DEF TabsPage
      <4>3. QED
        BY <2>0, <4>2 DEF UnboundIsLeaving
    <3>7. QED
      BY <1>2, <3>2, <3>3, <3>4, <3>5, <3>6 DEF TabsStep
  <2>4. QED
    BY <2>2, <2>3
<1> QED
  BY <1>1, <1>2

LEMMA UnboundKept ==
  ASSUME Typed, UnboundIsLeaving, [Next]_vars
  PROVE  UnboundIsLeaving'
<1> USE DEF tabs, cloud
<1>0. front \in Pages /\ acct \in [Emps -> Account]
  BY DEF Typed, PagesTyped, RestTyped
<1>1. ASSUME NEW e \in Emps, PortalChanges(e) \/ OtherSignsUp(e) \/ OtherFieldWritten(e)
      PROVE  UnboundIsLeaving'
  <2>1. Raise(e) /\ UNCHANGED <<page, front>> /\ \A u \in Emps \ {e} : acct'[u] = acct[u]
    BY <1>0, <1>1 DEF PortalChanges, OtherSignsUp, OtherFieldWritten
  <2>2. QED
    BY <2>1, RaiseKeeps
<1>2. ASSUME NEW j \in Jobs, SendAccount(j)
      PROVE  UnboundIsLeaving'
  <2>1. job[j].emp \in Emps
    BY <1>2 DEF SendAccount, At, Typed, JobsTyped, JobsHaveEmployees, InFlight
  <2>2. CASE UNCHANGED <<acct, tab>>
    BY <1>2, <2>2, QuietKeeps DEF SendAccount
  <2>3. CASE Raise(job[j].emp) /\ acct' = [acct EXCEPT ![job[j].emp] = Here]
    BY <1>0, <1>2, <2>1, <2>3, RaiseKeeps DEF SendAccount
  <2>4. QED
    BY <1>2, <2>2, <2>3 DEF SendAccount
<1>3. ASSUME NEW j \in Jobs, Enter(j)
      PROVE  UnboundIsLeaving'
  <2>1. CASE UNCHANGED tabs
    BY <1>3, <2>1, QuietKeeps DEF Enter
  <2>2. CASE job[j].alive
    <3>1. front' = j /\ j \in Pages /\ tab'[j] = Opened(userId)
      BY <1>3, <2>2 DEF Enter, Pages
    <3>2. QED
      BY <3>1, OpenKeeps
  <2>3. QED
    BY <1>3, <2>1, <2>2 DEF Enter
<1>4. CASE StorePosition
  BY <1>4, RaiseKeeps DEF StorePosition
<1>5. CASE (\E p \in Pages : TabsStep(p)) \/ SignOutPressed
  BY <1>0, <1>5, TabsKeep
<1>6. CASE Relaunch
  <2>1. CASE page' = "login"
    BY <2>1 DEF UnboundIsLeaving, Unbound
  <2>2. CASE page' # "login"
    <3>1. front' = Launched /\ Launched \in Pages /\ tab'[Launched] = Opened(userId)
      BY <1>6, <2>2 DEF Relaunch, Pages
    <3>2. QED
      BY <3>1, OpenKeeps
  <2>3. QED
    BY <2>1, <2>2
<1>7. CASE UNCHANGED <<acct, front, tab>> /\ (page' # "login" => page # "login")
  BY <1>7, QuietKeeps
<1>8. CASE \/ \E j \in Jobs, e \in Emps : LookUp(j, e) \/ SignInPressed(j, e)
           \/ \E j, k \in Jobs : SubmitAgain(j, k)
           \/ \E j \in Jobs : \/ Verified(j) \/ CountDevice(j) \/ SaveUser(j)
                              \/ SaveTracking(j) \/ OtpPageGone(j)
           \/ OpenPage \/ BackToTabs \/ ToggleTracking \/ UNCHANGED vars
  BY <1>7, <1>8 DEF LookUp, SignInPressed, SubmitAgain, Verified, CountDevice, SaveUser,
     SaveTracking, OtpPageGone, OpenPage, BackToTabs, ToggleTracking, vars
<1> QED
  BY <1>1, <1>2, <1>3, <1>4, <1>5, <1>6, <1>8 DEF Next, SignInStep

\* The tabs shown for an employee whose account is no longer active on this phone
\* are on their way out, unless the check of the account itself failed.
THEOREM UnboundStaysLeaving == Spec => []UnboundIsLeaving
<1>1. Init => UnboundIsLeaving
  BY DEF Init, UnboundIsLeaving, Unbound
<1>2. Typed /\ UnboundIsLeaving /\ [Next]_vars => (Typed /\ UnboundIsLeaving)'
  BY TypedKept, UnboundKept
<1> QED
  BY <1>1, <1>2, TypedInit, PTL DEF Spec
=============================================================================
