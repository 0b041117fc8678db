# TLA+ models of the attendance app

The repository is a Flutter app for field employees: it shows them their
scheduled tasks, lets them clock in and out of a task inside or outside a
geofence, keeps a separate manual time clock, and registers phones by SMS code.
This directory holds TLA+ models of its logic, the TLC runs that check them and
theorems that TLAPS checks. Paths below are relative to `src/lib/`.

## The system

Dart runs one handler at a time, to its next `await`. What can interleave is
therefore: the continuations of handlers after their awaits (HTTP, NTP,
position, Firestore, Appwrite, preferences), the taps and gestures of the user
between them, the changes another writer makes to the same documents, and the
operating system, which may kill the app at any point.

| component | source | state | operations | what makes it correct |
|---|---|---|---|---|
| task clocking | `app/tasks/today_task/` | captured `TaskModel` objects, `onClockInOrClockOutPress`, `now`, the navigator's routes | clock-in and clock-out buttons, confirmation sheet, outside-area dialog, `clockInProcess`, `clockOutProcess` | the stored record is coherent; marks are counted; effects follow accepted updates and nothing else; the pops match the pushes |
| task detail and acceptance | `app/tasks/tasks_detail/`, `task_calendar_view.dart` | the page's own copy of the task | `onAcceptPressed`, buttons by the copy's status | the newsfeed and the notification follow the acceptance |
| task documents | `service/task_service.dart`, `task_status_report_service.dart`, `new_feeds_service.dart`, `notification_service.dart` | Firestore documents | whole-object update, increments, creates, each of which swallows its error into an `'F'` | an `'F'` changes nothing |
| manual clocking | `app/tasks/task_manual/`, `service/appwrite_service.dart` | Appwrite records, preferences `clockInTime` and `clockInId`, the page's copy | clock-in, clock-out, confirmation sheet | preferences and page point at the open record |
| geofencing | `service/RESTAPI/geofencing_service.dart` | shared lists of areas | list of fences, "in which area am I" | the areas stored are those of the confirming call |
| calendar and requests | `app/tasks/task_calendar/` | the day's cards, each with a `dismiss` flag | swipe a request away, confirm, cancel | a card goes only for a task whose deletion was confirmed; the screen is not left covered |
| notifications | `app/alert/notification/` | a paged list and its flags, the page's own list | first page, more, refresh, open | no duplicates or gaps; the end is the end; nothing spins for ever |
| registration and login | `app/authentication/`, `service/user_service.dart` | OTP state, employee document, device counter | staff id, SMS by Firebase or ThaiBulkSMS, sign-up, login | a session only for an employee this phone activated or admitted |
| session and routing | `app/app_service.dart`, `router/`, `main.dart`, `app/my_account/`, `tasks_root_view.dart` | login state, preferences, employee stream | start, redirect, check of each snapshot, sign-out, tracking | tabs of an account that is no longer this phone's go, unless the check itself fails; nothing is done for a former user |
| settings, QR, models, widgets, theme | rest of `app/`, `models/`, `widget/`, `assets/` | preferences, layout | toggles, parsing | not modelled: no state of interest |

Interactions: the today page, the detail page and the calendar share one
controller object (a static singleton) and one root navigator, on which the
confirmation sheet, the dialogs, the loading overlay and the detail page are
stacked; they share the task documents through Firestore streams, but a page
that was opened keeps the object it was given. An administration portal outside
this repository creates, moves and deletes tasks and requests, and activates
employees. The session decides whose tabs, tasks and positions they are; every
page reads the user's id once, when it is opened.

Hard behaviours: overlapping handlers on one object; whole-object writes from
stale copies; counters and announcements around a write that may fail; pops by
count on a shared stack; contexts that die while a handler waits; lists
replaced under a query; flags that a framework keeps by place; sign-outs that
overlap; and kills between two writes. `PROJECT.json` lists them at their lines.

## Modules

### TaskClock

One task, its newsfeeds and its report; the pages that captured it; the
handlers the user confirmed.

| model | code |
|---|---|
| `doc` | the task's document: status, schedule, clock-in and clock-out time, late / same / early marks |
| `obj[o]` | a `TaskModel` captured by a page; `opening` and `timing` are the confirmation sheets that page is waiting to open (before and after the position is known; the sheet asks for the time before it is shown) |
| `job[j]` | one activation of `onClockInConfirmPressed`, `onClockOutConfirmPressed` or `onAcceptPressed`; `pc` is the await it waits at |
| `routes`, `tab` | the navigator above the tabs and the tab below |
| `busy`, `shown` | `onClockInOrClockOutPress` and `con.now` |
| `wrote`, `late`, `early`, `completed`, `feeds`, `notified`, `lost` | which activation's writes Firestore took and which it rejected |

A job goes `locate` → (`ask`) → `ntp` → (`count`) → `write` → (`completed`) →
`feed` → `done`; an acceptance goes `user` → `write` → `feed` → `notify` →
`done`. `dead` is a job that ended by an exception, a toast or a kill. Each
action is the code from one await to the next, with all its assignments. The
actions `Tick`, `AdminReschedules`, `AdminDeletes` and `Crash` are the
surroundings.

Abstractions: a position, an area name, a comment and a name carry no
information for the properties; `Located...` only says inside or outside. A
Firestore write takes effect when issued (the SDK's own view shows it at once and
the phone's writes keep their order), and its answer comes later; when it is
rejected the service returns `'F'`. Popping an empty stack leaves it empty. One
phone is modelled: tasks belong to one employee and accounts to one device. The
today page rebuilds with the document; rebuilds for a change of connectivity
alone, which would make a second tap capture another copy, are left out. The
detail page's button goes by the copy's status at the tap, not at the page's last
build, so a retry from a page that was not rebuilt after its copy changed is left
out. The
status report is one document, whatever the month. The comment
sheet's fields, maps and permission dialogs are left out, as is the skip
dialog, which nothing in the code opens.

### Attendance, TaskAttendance

`Attendance` says what clocking promises of one task's document, with no
screens, handlers or awaits: besides the roster and an acceptance, the document
changes only to a *copy* of it that was taken whole, stamped with the server's
time (out only after in) and sent whole, and a late or early mark is sent only
after it was *told* to the organisation's report. It does not promise more than
the code does: a copy may be old, so a finished task may become a started one
again (run `task_clock_done`), and being told is not being counted, for Firestore
may refuse the count.

`TaskAttendance` maps TaskClock to it: the copies are the pages' `TaskModel`
objects, and the marks told are those that were counted or whose count was
refused. `KeepsAttendance` is the abstract specification under that mapping.

### TaskClockProofs, TaskAttendanceProofs

The theorems about TaskClock and the refinement; see below.

### ManualClock

The manual tab (`TaskManualView`), its confirmation sheet, the provider and
Appwrite service behind it, and the two preferences that outlive the app.

| model | code |
|---|---|
| `rec[j]` | the Appwrite record created by handler `j`; the handler's name stands for the id Appwrite gives |
| `prefTime`, `prefId` | preferences `clockInTime` and `clockInId` |
| `open`, `pageTime` | the `State` object of the page and its `_clockInTime` |
| `loading`, `opens` | the provider's one `isLoading` flag and the history fetches still under way |
| `sheet` | `ConfirmationSheetWithMap`, by the action it confirms |
| `job[j]` | one tap on Confirm; `under`: the sheet it was tapped on is still up; `alive`: its page is mounted |
| `disturbed` | history variable: a handler met another handler, a closed page, a kill or a lost answer |

A clock-in goes `area` → `upload` → `create` → `created` → `saved` → `named` →
`done`; a clock-out goes `area` → `upload` → `update` → `updated` → `fetch` →
`removed` → `cleared` → `done`. `refused` is a null answer, which only opens a
dialog; `dead` is an exception (a `setState` or a context of a page that is gone,
a null id) or a kill.

Abstractions: one user on the phone, and a phone clock (`DateTime.now()`,
`task_manual_view.dart:123` and `:187`) that nobody puts back; `OutAfterIn` rests
on that. A preference
is written when the write is issued, which is when the plugin's cache changes,
and the next step may come at any time after it. Photos, areas and the contents
of the history carry nothing for the properties, and neither does the dialog at
the end, so the model does not show that a refused clock-out is reported with the
text of a successful one (`task_manual_view.dart:216`). A page that was
popped may be opened again.

### TimeSheet, ManualTimeSheet

`TimeSheet` says what the manual clock promises of the records, without page,
sheets, handlers or awaits: an *entry* comes once, with its clock-in, which is
never changed; a clock-out is a *slip*, on which the entry *noted* by then and the
time are written together; a slip that arrives fills in the clock-out of that
entry and nothing else; slips may be torn, and may arrive in any order. It does
not promise more than the code does: an entry may be forgotten and never clocked
out, or clocked out twice.

`ManualTimeSheet` maps ManualClock to it: the entries are the Appwrite records
that were made, the noted one is `clockInId`, and a slip is a handler whose
update is on its way. `KeepsTimeSheet` is the abstract specification under that
mapping. A handler that is refused, or dies while it waits, tears its slip.

### ManualClockProofs, MCManualClock

The theorems about ManualClock and the refinement; TLC's instance.

### Session

Who is signed in: from an employee that was looked up to the stored session, the
tabs with the check of the employee's document behind them, the sign-out, and
the launch with its position stream.

| model | code |
|---|---|
| `acct[e]` | the employee's document: `isActivated`, `device_id` (none, this phone, another) |
| `auth`, `userId`, `tracking`, `login` | Firebase's current user, two preferences, `AppService.loginState` |
| `page`, `front` | what is on top: the login page, tabs, or a page pushed above them; and which tabs' page is shown |
| `tab[p]` | a `_TasksRootViewState`, named for the sign-in (or the launch) that opened it: `up` (mounted), `viewer` (the id its listener was opened for), `news` and `checking` (a snapshot on its way to `_handleEmployeeUpdates`; those waiting for the device's id), `missed` (a check ended in the `catch`), `asked` and `waiting` (its `onSignOutPressed` before and after Firebase's answer) |
| `job[j]` | one run of `processEmployeeSignUp` or `processEmployeeLogin`: `otp` → `device` → (`account` → `counted`) → `saved` → `tracked` → `over` |
| `tracker` | the id this launch's position stream was started for |
| `admitted` | history: who was activated here or let past the login's check |

A sign-out ends with `pushReplacementNamed`, which replaces the page on top and no
other (`my_account_controller.dart:339`). When a detail, the notifications, a QR
code or the settings lie above the tabs, the tabs stay mounted under the login
page, with their listener and their sign-outs, and may be there still under the
tabs of the next user. `Leave` and `Enter` therefore let any set of the covered
pages stay (which ones do is the router's affair: go_router may rebuild its pages
when `loginState` changes, and the overlay hidden just before may have been popped
already); the page on top goes always. A covered page is checked like the one that
is shown, and its sign-out replaces whatever is on top. A page that is gone fails
on its dead context; only what it asked of Firebase still happens.

`Checked` keeps the `catch` of `_handleEmployeeUpdates`: when the device's id is not
told, or `isActivated!` meets an absent field, the snapshot is spent on a toast and
nothing is tried again until the document changes. `missed` records that, and the
two properties about leaving except it and nothing else.

Abstractions: one form at a time (the controllers are singletons), but its code
may be submitted twice. Firestore coalesces snapshots: one may be on its way. A
snapshot that will pass its check is forgotten when it is delivered. A sign-in that
ended is forgotten too, and the next one takes some unused name (`Unused`), which
makes fewer states and loses none that differ by more than names. An
`isActivated` that is absent counts as not active. A redirect that opens the tabs a
second time is left out.
Username, organisation and the biometric flag are stored between `userId` and
`tracking` and change nothing else. The device id read at sign-up is this phone's.
Loading overlays are left out; the user may act while one is shown, which is more
than the code allows on a phone without a back button. How codes are sent, the
race of two look-ups, the test accounts and the deletion of an employee's
document (its empty snapshot is ignored, `tasks_root_view.dart:92`) are left out.

### NotificationList

`NotificationController` with the page over it. Its list and its flags are shared
by all queries; a refresh and a new page replace the list object while a query
of the former may be under way.

| model | code |
|---|---|
| `db` | the user's notifications, by date |
| `list`, `requesting`, `finished` | `_notifications`, `_isRequesting`, `_isFinish` |
| `view`, `same`, `loading` | the page's `notifications`, whether it is the controller's list object, `isLoading` |
| `call[c]` | a query: the first, a refresh's, or one more page `after` a notification; `mine`: its page is open; `fresh`: the list it was asked for is still the list |
| `mixed` | history: the list was answered by a query that was asked for another one, or by a page that is gone |

A query is served at one moment, with what Firestore then holds, and its answer
is handled at another. `startAfterDocument` is modelled by the date, which no two
notifications of the model share. What is stated of the shown list leaves out
lists that are `mixed`: the code has no defence there. Opening a notification is
left out.

### RequestCards

The calendar's request cards of one day and the dialog that deletes one.
Flutter keeps a `TaskDismissWidget`'s state by the card's place, because the
cards have no key, and the `Dismissible` inside it by the task's id; so a card
that moves up is shown by the state, and the `dismiss` flag, of the one before.

| model | code |
|---|---|
| `docs`, `shown` | the requests in Firestore, the cards in the column |
| `flag[i]` | `dismiss` of the state at place `i`, with the task whose Confirm set it |
| `swept[i]` | the `Dismissible` at place `i` was swiped away |
| `dialog`, `routes` | the dialog (its place and task; whether its state and Dismissible still live) and what lies above the tabs |
| `call[c]` | one tap on Confirm: sent, deleted or refused |
| `refused` | history: a deletion confirmed at a place was refused and not cancelled since |

Abstractions: only requests are in the list, and one day; choosing another day or
the arrival of the server's time rebuilds all cards. The dialog's task is the one
it was built with, and a day has finitely many requests. `Navigator.pop` on the
tabs does nothing in the model, where the second pop of
`task_dismiss_widget.dart:124-128` would act on the tabs' own page: what comes of
that is not shown, and no property here speaks of it. The form
that creates requests cannot be opened (its button is commented out,
`task_calendar_view.dart:322`), so requests are there from the start.

### SessionProofs, NotificationListProofs, RequestCardsProofs, and the MC modules

The theorems about Session, NotificationList and RequestCards. `MCTaskClock` (with the
symmetry of interchangeable pages and jobs), `MCManualClock`, `MCSession`, `MCNotificationList` and
`MCRequestCards` are TLC's instances; `MCTaskClockClaims`, `MCManualClock`,
`MCSession` and `MCRequestCards` hold the sentences of the repository's texts
that the code does not live up to.

## Runs

`Hour = 1` tick, so hours and their truncation are visible at small times.

| run | question | bounds that matter |
|---|---|---|
| `task_clock_race` | can overlapping handlers, stale objects, rescheduling and a failed write store a mixed record, a mark nobody counted, or an announcement of what was refused? (`RecordCoherent`, `LatenessIsReported`, `EffectsAreEarned`; `TypeOK`: openings, timings and sheets balance) | two pages, two jobs both in flight, two clock values and two schedules (late, same and early all occur), one rejected write |
| `task_clock_shift` | over new → confirm → start → done, does each handler take its own routes off, and is each change of the document one that `Attendance` allows? (`PopsMatchPushes`, `KeepsAttendance`) | two pages and three jobs, one at a time, one kill, one rejected write |
| `task_clock_follow_up` | do the counter, the newsfeed and the notification follow each accepted update, and does a handler ever end owing one? (`AcceptedIsFollowedUp`, `NothingIsOwed`) | two taps per button, the back button may take the overlay and then the page from under a running handler, one rejected write, one kill (a killed handler owes nothing) |
| `task_clock_done` | "This task is already done." (`assets/i18n/en.json:200`): violated by a second, slow clock-in | three jobs, two in flight |
| `task_clock_early_in` | "setting hour for clock-in" (`README.md:3`): violated, the setting is never read | a task two hours ahead, setting one hour |
| `manual_clock` | do overlapping clock-ins, pages left, kills and lost answers keep each record in order, and do the preferences name the open record when handlers are not disturbed? is each change of the records one that `TimeSheet` allows? (`TypeOK`, `OutAfterIn`, `BooksMatch`, `KeepsTimeSheet`) | three handlers (in, out and in again, or two ins and an out), two in flight, one lost answer, the page left or the app killed once |
| `manual_clock_id` | "save to server and save the id" (`task_manual_view.dart:120`): violated when the page is left between the two preferences | two handlers, one at a time, no lost answer |
| `session` | is there a session only for whom this phone activated or admitted, and do the tabs of an account that is no longer this phone's go, whatever is pushed above them or left below, unless the check throws? (`TypeOK`, `SessionsAreAdmitted`, `UnboundIsLeaving`, `UnboundLeaves`) | two employees, two sign-ins (a code submitted twice, or one user after the other over a page that stayed), three tabs' pages (one of each sign-in and one of a launch), one change made elsewhere, one kill and launch, one sign-out of each page at a time |
| `session_tracking` | "only when you're on duty" (`assets/i18n/en.json:317`): violated: the stream of a launch outlives the sign-out, or is started by a launch during it (the shortest trace) | one employee, one sign-in, one launch |
| `notification_list` | what may the page show when queries, refreshes, closings and arrivals interleave? does an indicator outlive its query? (`ShownIsAWindow`, `FinishedIsComplete`, `SpinningIsAwaited`, `SpinningEnds`) | three notifications, pages of one, two queries at a time: a first, a second and an empty last page, and a refresh in the middle of each |
| `request_cards` | where may a card be swept away, and does the overlay go? (`TypeOK`, `SweptWasConfirmed`, `OverlayIsAwaited`, `OverlayGoes`) | two requests (one before the other), two deletions in flight, two refusals, the back button |
| `request_cards_swept` | "Item deleted" (`task_dismiss_widget.dart:201`): violated by the card after a deleted one | two requests, one deletion, nothing refused |

Two jobs suffice for the races: a record is changed by one handler between two
awaits of another, and a third only repeats one of the two roles. `Starts`,
`Finish` and `MaxTime` let a start be before, at and after the clock. In
`session` a change made elsewhere is one of the two that matter (the account loses
this phone, or is bound to another), the kill can fall at every await, and sign-outs
overlap on different pages, a kept one's with the shown one's. In
`notification_list` pages of one notification make three of them a list with a
beginning, a middle and an end; larger pages only add elements inside. A job is
used once and the user may stop, so runs allow a state without successor
(`CHECK_DEADLOCK FALSE`).

Fairness (the `FairSpec` of each module) is weak fairness of what is bound to
come, and of nothing that users, administrators or the clock do:

- TaskClock: each job's next step. Each awaited call is answered or fails and
  Dart then runs the continuation; HTTP, NTP and position have such an end, and
  Firestore answers when the phone is online (offline, its write futures wait for
  the network, so the results are about phones that come online again).
- Session: a snapshot is delivered, the device's id is told or asking for it
  fails, Firebase's sign-out answers or fails, and the delay after it ends.
  `UnboundLeaves` assumes success of none: its second alternative is the check
  that failed.
- NotificationList: each query is answered or fails and its handler runs.
- RequestCards: each deletion is answered and its handler runs.

## Proofs

The theorems hold for any number of pages, jobs, employees, taps, kills, rejected
writes and lost answers and any schedule; they assume only the named assumptions
of the modules (times and bounds are natural numbers, an hour and a day are not
empty, "no record" is not a record, the unset and the blank user id are not
employees, a day's requests are finitely many).

| theorem | invariant it needs |
|---|---|
| `TypeCorrect`: `Spec => []TypeOK` | inductive as it is |
| `RecordStaysCoherent`: `Spec => []RecordCoherent` | `Readiness`: every captured object is coherent too, and whatever still leads to a clock-out of an object (a sheet that is opening, on the stack, a dialog or a job) keeps the object from being captured anew and was started from a record with a start time. Without it a clock-out might be sent from an object that never had one. |
| `EffectsStayEarned`: `Spec => []EffectsAreEarned` | `Progress`: which program counters imply an accepted update and, on a clock-out, a tried counter |
| `LatenessStaysReported`: `Spec => []LatenessIsReported` | `PagesReported`: no object holds a mark that was not counted, so no later write of a stale object can store one; and jobs past the counter |
| `PopsDoMatchPushes`: `Spec => PopsMatchPushes` | the types. Only one handler moves in a step (`OneHandlerMoves`) and only `Close` ends it as `done` (`DoneByClose`); the number it pops is the number of its own routes (`OwnSuffixLength`), and popping that many of any stack leaves what lay below them (`PopCuts`, `PopNCuts`). |
| `NothingStaysOwed`: `Spec => []NothingIsOwed` | `OwedBy`: at each await after an accepted update, what has been tried by then; an acceptance that is announced has its newsfeed, and a clock-out at its newsfeed has its counter |
| `ManualTypeCorrect`: `Spec => []TypeOK` | inductive as it is |
| `OutsFollowIns`: `Spec => []OutAfterIn` | `IdsInv`, of which `IdsAreMade` (an id in the preferences or in a handler names a record that is there), `TimesPassed` (nothing bears a time to come) and `NotYetMade` (a handler that has yet to send its record has none, so sending it overwrites no clock-out), `TimesTaken` (a record that is made or being sent has a clock-in). It holds with every interleaving, kill and lost answer. |
| `BooksStayMatched`: `Spec => []BooksMatch` | `BooksInHand`: undisturbed, one handler is at work on its own page (`Alone`), between two writes it knows what it has stored (`Phase`), and outside those few steps preferences, page and record agree (`Books`) |
| `SheetIsKept`: `Spec => KeepsTimeSheet` | the same `IdsInv`: a record that is sent is new and its time has passed, an id that is stored or read is a record's. `CreateServed` is then `Enter`, `SaveId` is `Note`, `RemoveId` is `Forget`, `Uploaded` of a clock-out is `Write`, `UpdateServed` is `HandIn` or `Tear`, a kill tears the slips it meets, and every other action changes nothing of the sheet. |
| `AttendanceIsKept`: `Spec => KeepsAttendance` | the same `Readiness` and `PagesReported`: a sheet's Confirm finds its object captured, a clock-out's object has been clocked in, and an object that is sent holds no mark that was not told. Each action of TaskClock is then a step of `Attendance` or none. |
| `SessionTypeCorrect`: `Spec => []TypeOK` | `Typed`: with `JobsHaveEmployees` (a sign-in under way is an employee's), `NewsIsTheViewers` (news is of an employee, and the tabs shown are mounted) and `SavedIsSet` (after `SaveUser` some user id is stored, whatever is signed out, so no tabs are opened for none) |
| `SessionsStayAdmitted`: `Spec => []SessionsAreAdmitted` | `JobsAreAdmitted`: a sign-in past its check, and one that was counted, is for an admitted employee; a page's viewer is the one it had, the stored user or nobody (`ViewersKept`) |
| `UnboundStaysLeaving`: `Spec => []UnboundIsLeaving` | inductive with the types: each change of the viewer's account raises news, each delivery takes the account as it is, a check that does not pass starts a sign-out or is a failed one, a sign-out is lost only with its page, and the tabs shown are mounted |
| `ListTypeCorrect`: `Spec => []TypeOK` | inductive as it is |
| `ShownStaysAWindow`: `Spec => []ShownIsAWindow` and `FinishedStaysComplete`: `Spec => []FinishedIsComplete` | `Inv`: the controller's list is a gapless part (`ListIsAWindow`, `ListIsComplete`) and what the page shows of it is the list (`ViewIsTheList`); an answer under way is a gapless part that goes on where it was asked (`AnswersAreWindows`), and stays one when notifications are deleted or, being later than all (`NothingToCome`), arrive; one first query or refresh is awaited at a time (`OneListAtATime`), and the one query that continues the list does so at its end (`OnePageAtATime`). Without the last two an answer could be appended twice or to another end. |
| `SpinningStaysAwaited`: `Spec => []SpinningIsAwaited` | inductive with the types: what raises a flag sends a query; opening the page lowers `_isRequesting` and sends the first query, of its own, which lowers `isLoading` when it is answered; and the answer to a further page lowers `_isRequesting` on an open page, whoever asked for it |
| `CardsTypeCorrect`: `Spec => []TypeOK` | `Inv`, below: the dialog's place is a card's. It rests on lemmas about `InOrder`: the cards of a finite set of requests are that set, in order, each once. |
| `SweptStaysConfirmed`: `Spec => []SweptWasConfirmed` and `OverlayStaysAwaited`: `Spec => []OverlayIsAwaited` | `Inv`: each raised flag is of a deletion that is done, on its way or refused (`FlagsAreOfCalls`), a swept card has one (`SweptHasFlag`), and one dialog lies at the bottom with at most one overlay on it, its state still at an unswept place while it is held (`DialogIsHeld`). Without the last a cancelled or late answer could lower the flag under a swept card, or a pop could miss the overlay. |

Only model-checked: the liveness properties `AcceptedIsFollowedUp`, `UnboundLeaves`,
`SpinningEnds` and `OverlayGoes`, which the prover cannot reach. The safety half
of each is proved: what has ended owes nothing (`NothingIsOwed`), and what is
still to come is on its way (`UnboundIsLeaving`, `SpinningIsAwaited`,
`OverlayIsAwaited`); that it arrives is the fairness assumed above. Every other
property of a passing run has a theorem. The violation runs are counterexamples
and need no proof.

## What is left

Done: TaskClock and ManualClock with their abstract specifications, Session,
NotificationList, RequestCards, and theorems about all of them. An abstract
specification of the session (who is signed in on this phone, without forms and
snapshots) with its refinement would be the next one worth stating.

## Not modelled

- Geofencing (`service/RESTAPI/geofencing_service.dart`): overlapping calls mix
  the names of areas in a shared list. The names are stored and shown, and decide
  nothing; the models see the one outcome that counts, inside, outside or failed.
- The report's month and the countdown texts. A property of the month would
  repeat the line that computes it; the hours of the clock-out window are a guard
  of `TapToday`, and no text of the repository says which hours are meant.
- How a code is sent: Firebase, ThaiBulkSMS after its failure, the resend timer.
  The providers decide which code is right; `Session` starts where one was.
- The manual clock of a second user on the same phone: the preferences survive the
  sign-out and the code does not look whose they are.
- Opening a notification, and the text a user is shown after a refused manual
  clock-out (the one of a successful one, `task_manual_view.dart:216`).
- Creating a request: its form is unreachable.
- The offline dialogs: `connectivityResult == ConnectivityResult.none` compares a
  list with a value, so they are never shown (`task_dismiss_widget.dart:214`,
  `login_controller.dart:95`).
- Layout, parsing, localisation, theme, the settings' other toggles, the QR
  scanner's stubs, the platform runners and vendored code.
