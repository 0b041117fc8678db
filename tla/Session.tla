------------------------------- MODULE Session -------------------------------
(****************************************************************************)
(* Who is signed in on a phone: the accounts in Firestore, the sign-up and  *)
(* login that follow a verified code (RegisterStep2Controller), what the    *)
(* app keeps of them (the Firebase user, preferences, AppService), the      *)
(* check of the employee's document behind the tabs (TasksRootView), the    *)
(* sign-out (MyAccountController) and the launch of the app with its        *)
(* background tracking (main.dart).                                         *)
(*                                                                          *)
(* A sign-in is a job cut at its awaits.  A sign-out replaces the page on   *)
(* top only, so a tabs' page may stay mounted below the login page or below *)
(* the tabs of the next user; what waits on a page that is gone fails on its*)
(* dead context.  Loading overlays are left out, so the user may act while  *)
(* one is up, as the back button of Android allows.                         *)
(****************************************************************************)
EXTENDS Integers, FiniteSets

CONSTANTS
  Emps,       \* employees, by staff id
  Jobs,       \* sign-ins (each is used once)
  Unset,      \* the preference userId was never written
  Blank,      \* the empty string a sign-out writes there
  Launched,   \* the tabs' page of a launch (that of a sign-in has its name)
  MaxKills,   \* bound on the times the app is killed and launched again
  MaxChanges, \* bound on the changes to accounts made elsewhere
  MaxOuts     \* bound on the sign-outs of one page under way at a time

ASSUME NamesAssumption ==
  Unset \notin Emps /\ Blank \notin Emps /\ Unset # Blank /\ Launched \notin Jobs
ASSUME BoundsAssumption == MaxKills \in Nat /\ MaxChanges \in Nat /\ MaxOuts \in Nat \ {0}

VARIABLES
  acct,     \* acct[e]: isActivated and deviceID of the employee's document
  counted,  \* employees for whom a device was added to the organisation's count
  admitted, \* employees this phone activated or whose login it admitted
  auth,     \* Firebase has a current user
  userId,   \* the preference userId ...
  tracking, \* ... and the preference tracking
  login,    \* AppService.loginState
  page,     \* on top: the login page, tabs, or a page pushed above them
  front,    \* the tabs' page on top of the other tabs, unless it is the login page
  tab,      \* tab[p]: a tabs' page and what is under way on it
  job,      \* job[j]: a sign-in
  tracker,  \* whose position this launch of the app stores
  kills,    \* launches after the first
  changes   \* changes made elsewhere

cloud  == <<acct, counted, admitted>>
prefs  == <<userId, tracking>>
tabs   == <<login, page, front, tab>>
bounds == <<kills, changes>>
vars   == <<cloud, auth, prefs, tabs, job, tracker, bounds>>

----------------------------------------------------------------------------
Users   == Emps \cup {Unset, Blank}
Account == [active: BOOLEAN, device: {"none", "here", "other"}]
Here    == [active |-> TRUE, device |-> "here"]
Pcs     == {"idle", "otp", "device", "account", "counted", "saved", "tracked",
            "over"}
SignIn  == [kind: {"register", "login"}, pc: Pcs, emp: Users, alive: BOOLEAN]
Over    == [kind |-> "login", pc |-> "over", emp |-> Unset, alive |-> FALSE]

Pages   == Jobs \cup {Launched}
TabsPage ==
  [up: BOOLEAN,               \* it is mounted: its context is alive
   viewer: Users,             \* the user id whose document it listens for
   news: BOOLEAN,             \* a snapshot of it is to be delivered
   checking: SUBSET Account,  \* snapshots delivered, not yet checked, that do not pass
   missed: BOOLEAN,           \* a check that should have signed out ended in the catch
   asked: Nat, waiting: Nat]  \* its sign-outs before and after Firebase's
NoPage == [up |-> FALSE, viewer |-> Unset, news |-> FALSE, checking |-> {},
           missed |-> FALSE, asked |-> 0, waiting |-> 0]

Init ==
  /\ acct = [e \in Emps |-> [active |-> FALSE, device |-> "none"]]
  /\ counted = {} /\ admitted = {}
  /\ auth = FALSE /\ userId = Unset /\ tracking = FALSE
  /\ login = FALSE /\ page = "login" /\ front = Launched
  /\ tab = [p \in Pages |-> NoPage]
  /\ job = [j \in Jobs |-> [kind |-> "login", pc |-> "idle", emp |-> Unset,
                            alive |-> FALSE]]
  /\ tracker = Unset /\ kills = 0 /\ changes = 0

----------------------------------------------------------------------------
(* The documents.                                                           *)

\* A change of e's document reaches every page that listens for e, also one
\* that another page covers.
Raise(e) ==
  tab' = [p \in Pages |-> IF tab[p].viewer = e THEN [tab[p] EXCEPT !.news = TRUE]
                          ELSE tab[p]]

\* The portal deactivates an account or takes its device away.
PortalChanges(e) ==
  /\ changes < MaxChanges /\ changes' = changes + 1
  /\ \E a \in {acct[e].active, FALSE}, d \in {acct[e].device, "none"} :
       /\ acct[e] # [active |-> a, device |-> d]
       /\ acct' = [acct EXCEPT ![e] = [active |-> a, device |-> d]]
  /\ Raise(e)
  /\ UNCHANGED <<counted, admitted, auth, prefs, login, page, front, job, tracker, kills>>

\* Another phone, which looked the employee up before the account was active
\* or after it was deactivated, signs up.
OtherSignsUp(e) ==
  /\ changes < MaxChanges /\ changes' = changes + 1
  /\ acct[e].device # "other" \/ ~acct[e].active
  /\ acct' = [acct EXCEPT ![e] = [active |-> TRUE, device |-> "other"]]
  /\ Raise(e)
  /\ UNCHANGED <<counted, admitted, auth, prefs, login, page, front, job, tracker, kills>>

\* Some other field is written: the token of the phone, a profile, a schedule.
OtherFieldWritten(e) ==
  /\ \E p \in Pages : tab[p].viewer = e
  /\ Raise(e)
  /\ UNCHANGED <<cloud, auth, prefs, login, page, front, job, tracker, bounds>>

----------------------------------------------------------------------------
(* Signing in.                                                              *)

At(j, pc)   == job[j].pc = pc
Unused      == CHOOSE j \in Jobs : At(j, "idle")  \* which name it has says nothing
Goto(j, pc) == job' = [job EXCEPT ![j].pc = pc]
InFlight(j) == job[j].pc \notin {"idle", "over"}

\* The page of the code is gone: what was sent goes on, nothing is submitted.
PageGone(k) == IF At(k, "otp") THEN Over ELSE [job[k] EXCEPT !.alive = FALSE]

\* One form at a time: the controllers are singletons whose fields a second
\* form would share.
Begin(j, kind, e) ==
  /\ page = "login" /\ At(j, "idle") /\ j = Unused /\ \A k \in Jobs : ~InFlight(k)
  /\ job' = [job EXCEPT ![j] = [kind |-> kind, pc |-> "otp", emp |-> e, alive |-> TRUE]]

\* The form of step 1 found an employee who is not activated yet.
LookUp(j, e) ==
  /\ Begin(j, "register", e) /\ ~acct[e].active
  /\ UNCHANGED <<cloud, auth, prefs, tabs, tracker, bounds>>

\* onSignInPressed admits an active account of this device, or of none.
SignInPressed(j, e) ==
  /\ Begin(j, "login", e) /\ acct[e].active /\ acct[e].device \in {"here", "none"}
  /\ admitted' = admitted \cup {e}
  /\ UNCHANGED <<acct, counted, auth, prefs, tabs, tracker, bounds>>

\* The code was right: Firebase has a user.
Verified(j) ==
  /\ At(j, "otp") /\ job[j].alive /\ Goto(j, "device")
  /\ auth' = TRUE
  /\ UNCHANGED <<cloud, prefs, tabs, tracker, bounds>>

\* Submit is tapped once more while the first one waits.
SubmitAgain(j, k) ==
  /\ At(j, "idle") /\ j = Unused /\ InFlight(k) /\ ~At(k, "otp") /\ job[k].alive
  /\ job' = [job EXCEPT ![j] = [job[k] EXCEPT !.pc = "device"]]
  /\ auth' = TRUE
  /\ UNCHANGED <<cloud, prefs, tabs, tracker, bounds>>

\* createUserAccount sends the document as it was looked up, with this device;
\* if that fails the user is told so and may submit the code again.
SendAccount(j) ==
  /\ At(j, "device") /\ job[j].kind = "register"
  /\ \/ /\ acct' = [acct EXCEPT ![job[j].emp] = Here]
        /\ admitted' = admitted \cup {job[j].emp}
        /\ Goto(j, "account") /\ Raise(job[j].emp)
     \/ /\ job' = [job EXCEPT ![j] = IF job[j].alive THEN [@ EXCEPT !.pc = "otp"] ELSE Over]
        /\ UNCHANGED <<acct, admitted, tab>>
  /\ UNCHANGED <<counted, auth, prefs, login, page, front, tracker, bounds>>

\* The count's error is swallowed.
CountDevice(j) ==
  /\ At(j, "account") /\ Goto(j, "counted")
  /\ counted' \in {counted, counted \cup {job[j].emp}}
  /\ UNCHANGED <<acct, admitted, auth, prefs, tabs, tracker, bounds>>

\* A mutant: a sign-up does not wait for its account.
SaveUserAtOnce(j) ==
  /\ At(j, "counted") \/ At(j, "device")
  /\ userId' = job[j].emp /\ Goto(j, "saved")
  /\ UNCHANGED <<cloud, auth, tracking, tabs, tracker, bounds>>

\* The preferences, one await each; userId and tracking are those that matter.
SaveUser(j) ==
  /\ At(j, "counted") \/ (At(j, "device") /\ job[j].kind = "login")
  /\ userId' = job[j].emp /\ Goto(j, "saved")
  /\ UNCHANGED <<cloud, auth, tracking, tabs, tracker, bounds>>

SaveTracking(j) ==
  /\ At(j, "saved") /\ Goto(j, "tracked")
  /\ tracking' = TRUE
  /\ UNCHANGED <<cloud, auth, userId, tabs, tracker, bounds>>

\* A page that is gone: only what Firebase was asked goes on.
Closed(p) == [NoPage EXCEPT !.asked = tab[p].asked]

\* TasksRootView begins to listen for the stored user; Firestore answers with
\* a first snapshot.
Opened(u) == [NoPage EXCEPT !.up = TRUE, !.viewer = u, !.news = (u \in Emps)]

\* loginState, the tabs in place of the page on top; on a page that is gone
\* this throws.  Whether a change of loginState makes the router rebuild its
\* pages decides which tabs covered by the login page stay mounted.
Enter(j) ==
  /\ At(j, "tracked")
  /\ \/ /\ job[j].alive
        /\ login' = TRUE /\ page' = "tabs" /\ front' = j
        /\ \E keep \in SUBSET Pages :
             tab' = [p \in Pages |-> IF p = j THEN Opened(userId)
                                    ELSE IF p \in keep THEN tab[p] ELSE Closed(p)]
        /\ job' = [k \in Jobs |-> IF k = j THEN Over ELSE PageGone(k)]
     \/ /\ ~job[j].alive
        /\ job' = [job EXCEPT ![j] = Over]
        /\ UNCHANGED tabs
  /\ UNCHANGED <<cloud, auth, prefs, tracker, bounds>>

\* The user goes back, or a late answer to a request for another code replaces
\* the page under the job.
OtpPageGone(j) ==
  /\ InFlight(j) /\ job[j].alive
  /\ job' = [k \in Jobs |-> PageGone(k)]
  /\ UNCHANGED <<cloud, auth, prefs, tabs, tracker, bounds>>

----------------------------------------------------------------------------
(* The tabs: the check of the employee's document, and signing out.         *)

Passes(s) == s.active /\ s.device = "here"
RoomToLeave(p) == tab[p].asked + tab[p].waiting < MaxOuts

\* A snapshot reaches the page, which asks for the device to check it.  One that
\* will pass is forgotten: its check does nothing, or ends in a toast.
Deliver(p) ==
  /\ tab[p].news
  /\ LET s == acct[tab[p].viewer]
     IN  tab' = [tab EXCEPT ![p].news = FALSE, ![p].missed = FALSE,
                            ![p].checking = IF Passes(s) THEN @ ELSE @ \cup {s}]
  /\ UNCHANGED <<cloud, auth, prefs, login, page, front, job, tracker, bounds>>

\* A mutant: only the activation is looked at.
CheckedActivation(p, s) ==
  /\ s \in tab[p].checking
  /\ \/ s.active /\ tab' = [tab EXCEPT ![p].checking = @ \ {s}]
     \/ /\ ~s.active /\ RoomToLeave(p)
        /\ tab' = [tab EXCEPT ![p].checking = @ \ {s}, ![p].asked = @ + 1]
     \/ tab' = [tab EXCEPT ![p].checking = @ \ {s}, ![p].missed = TRUE]
  /\ UNCHANGED <<cloud, auth, prefs, login, page, front, job, tracker, bounds>>

\* The rest of _handleEmployeeUpdates, for a snapshot that does not pass: it
\* starts a sign-out of its own; or the device could not be asked for, or the
\* document has no isActivated, and the catch ends the check with a toast.
Checked(p, s) ==
  /\ s \in tab[p].checking
  /\ \/ /\ RoomToLeave(p)
        /\ tab' = [tab EXCEPT ![p].checking = @ \ {s}, ![p].asked = @ + 1]
     \/ tab' = [tab EXCEPT ![p].checking = @ \ {s}, ![p].missed = TRUE]
  /\ UNCHANGED <<cloud, auth, prefs, login, page, front, job, tracker, bounds>>

SignOutPressed ==
  /\ page = "tabs" /\ RoomToLeave(front)
  /\ tab' = [tab EXCEPT ![front].asked = @ + 1]
  /\ UNCHANGED <<cloud, auth, prefs, login, page, front, job, tracker, bounds>>

\* A mutant: an error of Firebase's sign-out is thrown on.
SignedOutOrThrown(p) ==
  /\ tab[p].up /\ tab[p].asked > 0
  /\ \/ auth' = FALSE /\ tab' = [tab EXCEPT ![p].asked = @ - 1, ![p].waiting = @ + 1]
     \/ auth' = auth /\ tab' = [tab EXCEPT ![p].asked = @ - 1]
  /\ UNCHANGED <<cloud, prefs, login, page, front, job, tracker, bounds>>

\* Firebase signs out, or fails, which is swallowed; then three seconds pass.
SignedOut(p) ==
  /\ tab[p].up /\ tab[p].asked > 0
  /\ tab' = [tab EXCEPT ![p].asked = @ - 1, ![p].waiting = @ + 1]
  /\ auth' \in {auth, FALSE}
  /\ UNCHANGED <<cloud, prefs, login, page, front, job, tracker, bounds>>

\* The same for a page that is gone: nothing follows.
StaleSignedOut(p) ==
  /\ ~tab[p].up /\ tab[p].asked > 0
  /\ tab' = [tab EXCEPT ![p].asked = @ - 1]
  /\ auth' \in {auth, FALSE}
  /\ UNCHANGED <<cloud, prefs, login, page, front, job, tracker, bounds>>

\* After the delay everything is cleared, and the login page takes the place of
\* the page on top: of the tabs, of a page pushed above them, or of the form
\* of the next sign-in.  Which pages below that stay mounted depends on the
\* router and on whether the overlay to be hidden was still there to be popped.
Leave(p) ==
  /\ tab[p].waiting > 0
  /\ login' = FALSE /\ userId' = Blank /\ tracking' = FALSE
  /\ page' = "login" /\ front' = Launched
  /\ \E keep \in SUBSET Pages :
       /\ page = "tabs" => front \notin keep
       /\ tab' = [q \in Pages |->
                    IF q \notin keep THEN Closed(q)
                    ELSE IF q = p THEN [tab[q] EXCEPT !.waiting = @ - 1] ELSE tab[q]]
  /\ job' = [k \in Jobs |-> PageGone(k)]
  /\ UNCHANGED <<cloud, auth, tracker, bounds>>

\* A task's detail, the notifications, a QR code or the settings are pushed
\* above the tabs ...
OpenPage ==
  /\ page = "tabs" /\ page' = "pushed"
  /\ UNCHANGED <<cloud, auth, prefs, login, front, tab, job, tracker, bounds>>

\* ... and popped.
BackToTabs ==
  /\ page = "pushed" /\ page' = "tabs"
  /\ UNCHANGED <<cloud, auth, prefs, login, front, tab, job, tracker, bounds>>

\* The switch on the settings' page: it is read at the next launch.
ToggleTracking ==
  /\ page = "pushed" /\ tracking' = ~tracking
  /\ UNCHANGED <<cloud, auth, userId, tabs, job, tracker, bounds>>

\* The position stream of this launch stores a position in the document of the
\* user it was started for.
StorePosition ==
  /\ tracker \in Emps
  /\ Raise(tracker)
  /\ UNCHANGED <<cloud, auth, prefs, login, page, front, job, tracker, bounds>>

----------------------------------------------------------------------------
\* A mutant: whoever Firebase remembers is let in.
LetInByFirebase == auth

\* The user that Firebase and the preferences remember is let in.
LetIn == auth /\ userId # Unset

\* The app is killed, and everything in it with it, and launched: main starts
\* the tracking and lets the user in, or shows the login page.
Relaunch ==
  /\ kills < MaxKills /\ kills' = kills + 1
  /\ job' = [j \in Jobs |-> IF At(j, "idle") THEN job[j] ELSE Over]
  /\ tracker' = IF tracking THEN userId ELSE Unset
  /\ front' = Launched
  /\ \/ /\ LetIn
        /\ login' = TRUE /\ page' = "tabs"
        /\ tab' = [p \in Pages |-> IF p = Launched THEN Opened(userId) ELSE NoPage]
     \/ /\ ~LetIn
        /\ login' = FALSE /\ page' = "login"
        /\ tab' = [p \in Pages |-> NoPage]
  /\ UNCHANGED <<cloud, auth, prefs, changes>>

SignInStep(j) ==
  \/ Verified(j) \/ SendAccount(j) \/ CountDevice(j) \/ SaveUser(j)
  \/ SaveTracking(j) \/ Enter(j) \/ OtpPageGone(j)

TabsStep(p) ==
  \/ Deliver(p) \/ (\E s \in tab[p].checking : Checked(p, s))
  \/ SignedOut(p) \/ StaleSignedOut(p) \/ Leave(p)

Next ==
  \/ \E e \in Emps : PortalChanges(e) \/ OtherSignsUp(e) \/ OtherFieldWritten(e)
  \/ \E j \in Jobs : SignInStep(j)
  \/ \E j \in Jobs, e \in Emps : LookUp(j, e) \/ SignInPressed(j, e)
  \/ \E j, k \in Jobs : SubmitAgain(j, k)
  \/ \E p \in Pages : TabsStep(p)
  \/ SignOutPressed \/ OpenPage \/ BackToTabs \/ ToggleTracking
  \/ StorePosition \/ Relaunch

Spec == Init /\ [][Next]_vars

\* Firestore delivers, the device is told or is not, Firebase signs out or
\* fails, the delay ends; nothing obliges the user or the portal.
FairSpec ==
  /\ Spec
  /\ \A p \in Pages : /\ WF_vars(Deliver(p)) /\ WF_vars(Leave(p))
                      /\ WF_vars(SignedOut(p)) /\ WF_vars(StaleSignedOut(p))
                      /\ \A s \in Account : WF_vars(Checked(p, s))

----------------------------------------------------------------------------
(* Properties.                                                              *)

\* Every variable keeps its type, and tabs are mounted for a user id that was
\* stored: a launch between the accepted code and the preferences, when Firebase
\* remembers a user and the phone none, lets nobody in.
TypeOK ==
  /\ acct \in [Emps -> Account]
  /\ counted \subseteq Emps /\ admitted \subseteq Emps
  /\ auth \in BOOLEAN /\ userId \in Users /\ tracking \in BOOLEAN
  /\ login \in BOOLEAN /\ page \in {"login", "tabs", "pushed"} /\ front \in Pages
  /\ tab \in [Pages -> TabsPage]
  /\ \A p \in Pages : tab[p].up <=> tab[p].viewer # Unset
  /\ job \in [Jobs -> SignIn]
  /\ tracker \in Users
  /\ kills \in Nat /\ changes \in Nat

\* No tabs are ever mounted for, and the preferences never name anybody whom this
\* phone did not activate itself or whose login it did not admit, whatever
\* sign-ups are refused, submitted twice, left in the middle or killed: the
\* preferences come after createUserAccount's answer, and so does the count of
\* the organisation's devices.
SessionsAreAdmitted ==
  /\ \A p \in Pages : tab[p].viewer \in Emps => tab[p].viewer \in admitted
  /\ {userId, tracker} \cap Emps \subseteq admitted
  /\ counted \subseteq admitted

\* A sign-in under way is some employee's.
JobsHaveEmployees == \A j \in Jobs : InFlight(j) => job[j].emp \in Emps

\* One that stored its user leaves some user id there, whatever is signed out.
SavedIsSet == \A j \in Jobs : job[j].pc \in {"saved", "tracked"} => userId # Unset

\* News is of the employee a page listens for, and the tabs shown are mounted.
NewsIsTheViewers ==
  /\ \A p \in Pages : tab[p].news => tab[p].viewer \in Emps
  /\ page # "login" => tab[front].up

\* Why it stays so: a sign-in that got past its check is for an admitted one.
PastCheck(j) ==
  \/ job[j].kind = "login" /\ InFlight(j)
  \/ job[j].pc \in {"account", "counted", "saved", "tracked"}
JobsAreAdmitted ==
  \A j \in Jobs : PastCheck(j) => job[j].emp \in admitted

\* The tabs are shown, maybe below a page pushed above them, for an employee
\* whose account is no longer active on this phone.
Unbound ==
  page # "login" /\ tab[front].viewer \in Emps /\ ~Passes(acct[tab[front].viewer])

\* Whenever that is so the page is on its way out: the news of it is still to
\* come, is being checked, or a sign-out runs; or else the check itself failed,
\* which the code answers with a toast.  Nothing but such a failure loses it:
\* no order of snapshots, checks that answer late, changes back and forth,
\* sign-ups of another phone, sign-outs of this or of a covered page, launches.
UnboundIsLeaving ==
  Unbound => LET t == tab[front]
             IN  t.news \/ t.checking # {} \/ t.asked + t.waiting > 0
                 \/ t.missed

\* And it gets out: once Firestore, the device and Firebase have answered the
\* login page is on top, or the account has been bound to the phone again, even
\* if Firebase's sign-out fails and whatever page covers the tabs; unless a
\* check of the document failed, after which nothing is tried again until the
\* document changes.
UnboundLeaves == Unbound ~> ~Unbound \/ tab[front].missed
=============================================================================
