----------------------------- MODULE RequestCards -----------------------------
(****************************************************************************)
(* The calendar's cards of task requests, and deleting one: a card is swiped*)
(* away if confirmDismiss answers true, which is what the card's `dismiss`  *)
(* says when the dialog has closed (TaskDismissWidget).                     *)
(*                                                                          *)
(* Flutter keeps a card's state by its place in the column, for the card has*)
(* no key; the Dismissible within it has the task's id for one.  When cards *)
(* before it go, a card is shown by the state of its predecessor and by a   *)
(* new Dismissible.                                                         *)
(*                                                                          *)
(* Requests come from elsewhere: the button of the form that creates them   *)
(* is commented out.  A task is the place its start gives it in the list.   *)
(****************************************************************************)
EXTENDS Integers, Sequences, FiniteSets, SequencesExt

CONSTANTS
  Tasks,       \* the day's requests, numbered by their start
  Calls,       \* deletions that may be on their way at a time
  MaxRefusals, \* bound on the refusals not cancelled since
  AndroidBack  \* the phone has a back button, which pops the overlay too

ASSUME TasksAssumption == Tasks \subseteq Nat \ {0} /\ IsFiniteSet(Tasks)
ASSUME BoundsAssumption == MaxRefusals \in Nat /\ AndroidBack \in BOOLEAN

VARIABLES
  docs,    \* the requests that exist
  shown,   \* the requests the column shows, in order
  flag,    \* flag[i]: the task whose Confirm left dismiss = true in the i-th
           \* state; Nobody if it is false
  swept,   \* swept[i]: the i-th Dismissible was swiped away
  dialog,  \* the dialog's place and task; its state and Dismissible still live
  routes,  \* what lies above the tabs, last on top
  call,    \* call[c]: a deletion
  refused  \* <<place, task>>: Firestore refused a deletion confirmed there,
           \* and no dialog there was cancelled since

cards == <<shown, flag, swept>>
vars  == <<docs, cards, dialog, routes, call, refused>>

----------------------------------------------------------------------------
Nobody   == 0
Route    == {"dialog", "overlay"}
Dialog   == [at: Nat, task: Tasks \cup {Nobody}, held: BOOLEAN, kept: BOOLEAN]
NoDialog == [at |-> 0, task |-> Nobody, held |-> FALSE, kept |-> FALSE]
Deletion == [pc: {"free", "sent", "deleted", "refused"}, task: Tasks \cup {Nobody},
             at: Nat, live: BOOLEAN]
NoCall   == [pc |-> "free", task |-> Nobody, at |-> 0, live |-> FALSE]

Pending  == {call[c].task : c \in {d \in Calls : call[d].pc = "sent"}}
\* The column is ordered by the requests' start.
InOrder(S) ==
  CHOOSE s \in [1 .. Cardinality(S) -> S] : \A i, j \in DOMAIN s : i < j => s[i] < s[j]
\* What this phone sees of Firestore: its own deletions are done at once.
Local == InOrder(docs \ Pending)
OnTop(r) == routes # <<>> /\ Last(routes) = r

Init ==
  /\ docs \in SUBSET Tasks
  /\ shown = InOrder(docs)
  /\ flag = [i \in DOMAIN shown |-> Nobody]
  /\ swept = [i \in DOMAIN shown |-> FALSE]
  /\ dialog = NoDialog /\ routes = <<>>
  /\ call = [c \in Calls |-> NoCall] /\ refused = {}

----------------------------------------------------------------------------
(* Firestore and the column.                                                *)

PortalDeletes ==
  /\ \E t \in docs : docs' = docs \ {t}
  /\ UNCHANGED <<cards, dialog, routes, call, refused>>

\* The dialog's state goes with its place, its Dismissible with its card.
Moved(s, all) ==
  [dialog EXCEPT !.held = @ /\ all /\ dialog.at \in DOMAIN s,
                 !.kept = @ /\ all /\ dialog.at \in DOMAIN s
                            /\ s[dialog.at] = shown[dialog.at]]

\* A mutant: the states are not counted anew.
SnapshotUncounted ==
  /\ shown # Local
  /\ shown' = Local
  /\ swept' = [i \in DOMAIN Local |-> /\ i \in DOMAIN shown /\ Local[i] = shown[i]
                                      /\ swept[i]]
  /\ dialog' = Moved(Local, TRUE)
  /\ UNCHANGED <<docs, flag, routes, call, refused>>

\* A snapshot: the states stay where they are.
Snapshot ==
  /\ shown # Local
  /\ shown' = Local
  /\ flag'  = [i \in DOMAIN Local |-> IF i \in DOMAIN shown THEN flag[i] ELSE Nobody]
  /\ swept' = [i \in DOMAIN Local |-> /\ i \in DOMAIN shown /\ Local[i] = shown[i]
                                      /\ swept[i]]
  /\ dialog' = Moved(Local, TRUE)
  /\ UNCHANGED <<docs, routes, call, refused>>

\* The calendar is built anew (another day, the server's time): it listens to
\* another stream, waits for it, and makes every card afresh.
Rebuild ==
  /\ shown' = Local
  /\ flag'  = [i \in DOMAIN Local |-> Nobody]
  /\ swept' = [i \in DOMAIN Local |-> FALSE]
  /\ dialog' = Moved(Local, FALSE)
  /\ UNCHANGED <<docs, routes, call, refused>>

----------------------------------------------------------------------------
(* The user.                                                                *)

Swipe(i) ==
  /\ routes = <<>> /\ ~swept[i]
  /\ routes' = <<"dialog">>
  /\ dialog' = [at |-> i, task |-> shown[i], held |-> TRUE, kept |-> TRUE]
  /\ UNCHANGED <<docs, cards, call, refused>>

\* Who says true when the dialog is confirmed or cancelled by `who`.
Says(who) == IF dialog.held THEN [flag EXCEPT ![dialog.at] = who] ELSE flag

Confirm(c) ==
  /\ OnTop("dialog") /\ call[c].pc = "free"
  /\ flag' = Says(dialog.task)
  /\ routes' = Append(routes, "overlay")
  /\ call' = [call EXCEPT ![c] = [pc |-> "sent", task |-> dialog.task,
                                    at |-> dialog.at, live |-> TRUE]]
  /\ UNCHANGED <<docs, shown, swept, dialog, refused>>

\* Only the dialog lies at the bottom: without it there is none.
\* confirmDismiss then answers with the flag, if there is a card to sweep.
DialogGone(says) ==
  /\ dialog' = NoDialog
  /\ flag' = says
  /\ swept' = IF dialog.kept THEN [swept EXCEPT ![dialog.at] = says[dialog.at] # Nobody]
              ELSE swept

Forgiven == IF dialog.held THEN {r \in refused : r[1] # dialog.at} ELSE refused

\* A mutant: Cancel leaves the flag.
CancelFlagKept ==
  /\ OnTop("dialog") /\ routes' = <<>>
  /\ DialogGone(flag) /\ refused' = Forgiven
  /\ call' = [c \in Calls |-> [call[c] EXCEPT !.live = FALSE]]
  /\ UNCHANGED <<docs, shown>>

Cancel ==
  /\ OnTop("dialog") /\ routes' = <<>>
  /\ DialogGone(Says(Nobody)) /\ refused' = Forgiven
  /\ call' = [c \in Calls |-> [call[c] EXCEPT !.live = FALSE]]
  /\ UNCHANGED <<docs, shown>>

\* A tap beside the dialog, or back, decides nothing.
TapOutside ==
  /\ OnTop("dialog") /\ routes' = <<>>
  /\ DialogGone(flag)
  /\ call' = [c \in Calls |-> [call[c] EXCEPT !.live = FALSE]]
  /\ UNCHANGED <<docs, shown, refused>>

BackFromOverlay ==
  /\ AndroidBack /\ OnTop("overlay") /\ routes' = Front(routes)
  /\ UNCHANGED <<docs, cards, dialog, call, refused>>

----------------------------------------------------------------------------
(* The answers.                                                             *)

Serve(c) ==
  /\ call[c].pc = "sent"
  /\ \/ /\ docs' = docs \ {call[c].task}
        /\ call' = [call EXCEPT ![c].pc = "deleted"] /\ UNCHANGED refused
     \/ /\ refused' = refused \cup {<<call[c].at, call[c].task>>}
        /\ Cardinality(refused') <= MaxRefusals
        /\ call' = [call EXCEPT ![c].pc = "refused"] /\ UNCHANGED docs
  /\ UNCHANGED <<cards, dialog, routes>>

\* A mutant: a refusal leaves the overlay.
PopsOnSuccess(c) == IF call[c].pc = "deleted" THEN 2 ELSE 0

\* A deletion pops the dialog; either way the overlay is hidden by another pop.
\* The tabs below stay.
Pops(c) == IF call[c].pc = "deleted" THEN 2 ELSE 1

\* On a dialog that is gone the handler throws.
Answered(c) ==
  /\ call[c].pc \in {"deleted", "refused"}
  /\ \/ /\ ~call[c].live
        /\ call' = [call EXCEPT ![c] = NoCall]
        /\ UNCHANGED <<flag, swept, dialog, routes>>
     \/ /\ call[c].live /\ Pops(c) < Len(routes)
        /\ routes' = SubSeq(routes, 1, Len(routes) - Pops(c))
        /\ call' = [call EXCEPT ![c] = NoCall]
        /\ UNCHANGED <<flag, swept, dialog>>
     \/ /\ call[c].live /\ Pops(c) >= Len(routes)
        /\ routes' = <<>> /\ DialogGone(flag)
        /\ call' = [d \in Calls |-> IF d = c THEN NoCall
                                    ELSE [call[d] EXCEPT !.live = FALSE]]
  /\ UNCHANGED <<docs, shown, refused>>

Next ==
  \/ PortalDeletes \/ Snapshot \/ Rebuild
  \/ (\E i \in DOMAIN shown : Swipe(i)) \/ Cancel \/ TapOutside \/ BackFromOverlay
  \/ \E c \in Calls : Confirm(c) \/ Serve(c) \/ Answered(c)

Spec == Init /\ [][Next]_vars

\* Firestore answers and Dart runs the rest of the handler.
FairSpec == Spec /\ \A c \in Calls : WF_vars(Serve(c) \/ Answered(c))

----------------------------------------------------------------------------
(* Properties.                                                              *)

\* Every variable keeps its type.
TypeOK ==
  /\ docs \subseteq Tasks /\ shown \in Seq(Tasks)
  /\ flag \in [DOMAIN shown -> Tasks \cup {Nobody}]
  /\ swept \in [DOMAIN shown -> BOOLEAN]
  /\ dialog \in Dialog /\ routes \in Seq(Route)
  /\ call \in [Calls -> Deletion] /\ refused \subseteq Nat \X Tasks

\* A card is swept away only at a place where a deletion was confirmed whose task
\* is gone, is being deleted, or which Firestore refused and the user did not
\* cancel after that.  No cancelled dialog, late answer, popped overlay or moving
\* list sweeps one otherwise, though it may be another card than the confirmed one.
Done(i) == \/ flag[i] \notin docs \/ flag[i] \in Pending
           \/ <<i, flag[i]>> \in refused
SweptWasConfirmed == \A i \in DOMAIN shown : swept[i] => flag[i] # Nobody /\ Done(i)

\* Why it stays so.  Each flag is of such a deletion, and a card is swept with one.
FlagsAreOfCalls ==
  \A i \in DOMAIN shown : flag[i] # Nobody =>
    \/ flag[i] \notin docs
    \/ \E c \in Calls : call[c].pc = "sent" /\ call[c].task = flag[i] /\ call[c].at = i
    \/ <<i, flag[i]>> \in refused
SweptHasFlag == \A i \in DOMAIN shown : swept[i] => flag[i] # Nobody

\* There is one dialog at the bottom and one overlay on it.  The dialog knows its
\* task; its state is still at its place, where nothing is swept meanwhile; and
\* its Dismissible goes before its state does.
Routes == {<<>>, <<"dialog">>, <<"dialog", "overlay">>}
DialogIsHeld ==
  /\ routes \in Routes
  /\ routes = <<>> => dialog = NoDialog /\ \A c \in Calls : ~call[c].live
  /\ routes # <<>> => dialog.task \in Tasks
  /\ dialog.kept => dialog.held
  /\ dialog.held => dialog.at \in DOMAIN shown /\ ~swept[dialog.at]
CallsHaveTasks == \A c \in Calls : call[c].pc # "free" => call[c].task \in Tasks

\* The screen is covered only while a deletion is on its way whose answer will
\* uncover it: neither a refusal, nor an overlay popped by the back button and
\* shown again, nor two answers in either order leave one that nothing hides.
Covered == "overlay" \in ToSet(routes)
OverlayIsAwaited ==
  Covered => \E c \in Calls : call[c].pc # "free" /\ call[c].live

\* Once everything is answered the screen is usable: a deletion's overlay goes,
\* whether it is done or refused and whatever was popped meanwhile.
OverlayGoes == Covered ~> ~Covered
=============================================================================
