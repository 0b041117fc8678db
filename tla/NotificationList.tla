--------------------------- MODULE NotificationList ---------------------------
(****************************************************************************)
(* The list of notifications: NotificationController, which pages through   *)
(* Firestore, and the page that shows what it found (NotificationView).     *)
(*                                                                          *)
(* The controller outlives its page.  Its list, and its two flags, are read *)
(* and written after each await, by when the list may be another object: a  *)
(* refresh and the next opening of the page start a new one.  The page keeps*)
(* a list of its own, which is the controller's object or a former one.     *)
(*                                                                          *)
(* A notification is its date: later ones are greater.                      *)
(****************************************************************************)
EXTENDS Integers, Sequences

CONSTANTS
  Calls,   \* queries that may be on their way at a time
  MaxDate, \* bound on the notifications that are ever created
  First,   \* limit of the first query (10 in the code)
  More     \* limit of each further one (5 in the code)

ASSUME LimitsAssumption == MaxDate \in Nat /\ First \in Nat \ {0} /\ More \in Nat \ {0}

VARIABLES
  db,         \* the notifications of the user that exist
  newest,     \* the latest date so far
  list,       \* _notifications
  requesting, \* _isRequesting
  finished,   \* _isFinish
  page,       \* the page is open
  loading,    \* its isLoading
  view,       \* its notifications ...
  same,       \* ... which are the same object as _notifications
  call,       \* call[c]: a query
  mixed       \* since the list was begun an answer reached it that was asked
              \* for another list or by a page that is gone

store == <<db, newest>>
flags == <<requesting, finished>>
vars  == <<store, list, flags, page, loading, view, same, call, mixed>>

----------------------------------------------------------------------------
Dates == 1 .. MaxDate
Query == [pc: {"free", "sent", "served", "failed"}, kind: {"first", "refresh", "more"},
          mine: BOOLEAN, fresh: BOOLEAN, after: Nat, docs: Seq(Dates)]
NoCall == [pc |-> "free", kind |-> "first", mine |-> FALSE, fresh |-> FALSE,
           after |-> 0, docs |-> <<>>]
\* A query of the open page, on the list as it is.
Asked(kind, after) == [pc |-> "sent", kind |-> kind, mine |-> TRUE, fresh |-> TRUE,
                       after |-> after, docs |-> <<>>]

Items(s) == {s[i] : i \in DOMAIN s}
Last(s)  == s[Len(s)]
Descending(s) == \A i, j \in DOMAIN s : i < j => s[i] > s[j]
Lists(n) == UNION {[1 .. k -> Dates] : k \in 0 .. n}

\* What a query ordered by descending date answers: all there is up to its
\* limit, the latest first.
Answers(from, limit) ==
  {s \in Lists(limit) :
     /\ Descending(s) /\ Items(s) \subseteq from
     /\ \A n \in from \ Items(s) : Len(s) = limit /\ \A m \in Items(s) : m > n}

\* The others were asked for another list than the one that begins.
Outdated(c) == [k \in Calls |-> IF k = c THEN call[k] ELSE [call[k] EXCEPT !.fresh = FALSE]]
Answered(c) == call[c].pc \in {"served", "failed"}
Served(c)   == call[c].pc = "served"

Init ==
  /\ newest \in 0 .. MaxDate /\ db = 1 .. newest
  /\ list = <<>> /\ requesting = FALSE /\ finished = FALSE
  /\ page = FALSE /\ loading = TRUE /\ view = <<>> /\ same = FALSE
  /\ call = [c \in Calls |-> NoCall] /\ mixed = FALSE

----------------------------------------------------------------------------
(* Firestore.                                                               *)

Arrive ==
  /\ newest < MaxDate
  /\ newest' = newest + 1 /\ db' = db \cup {newest'}
  /\ UNCHANGED <<list, flags, page, loading, view, same, call, mixed>>

Vanish ==
  /\ \E n \in db : db' = db \ {n}
  /\ UNCHANGED <<newest, list, flags, page, loading, view, same, call, mixed>>

Reachable(c) == IF call[c].kind = "more" THEN {n \in db : n < call[c].after} ELSE db
Limit(c)     == IF call[c].kind = "more" THEN More ELSE First

Serve(c) ==
  /\ call[c].pc = "sent"
  /\ \/ \E s \in Answers(Reachable(c), Limit(c)) :
          call' = [call EXCEPT ![c].pc = "served", ![c].docs = s]
     \/ call' = [call EXCEPT ![c].pc = "failed"]
  /\ UNCHANGED <<store, list, flags, page, loading, view, same, mixed>>

----------------------------------------------------------------------------
(* The user.                                                                *)

\* A new page: initState begins a list and asks for it.
Open(c) ==
  /\ ~page /\ call[c].pc = "free"
  /\ page' = TRUE /\ loading' = TRUE /\ view' = <<>> /\ same' = FALSE
  /\ list' = <<>> /\ requesting' = FALSE /\ finished' = FALSE /\ mixed' = FALSE
  /\ call' = [Outdated(c) EXCEPT ![c] = Asked("first", 0)]
  /\ UNCHANGED store

Close ==
  /\ page /\ page' = FALSE
  /\ call' = [c \in Calls |-> [call[c] EXCEPT !.mine = FALSE]]
  /\ UNCHANGED <<store, list, flags, loading, view, same, mixed>>

\* Only a list that is shown, and not empty, can be pulled or scrolled.
Scrollable == page /\ ~loading /\ view # <<>>
Waits(c)   == call[c].pc # "free" /\ call[c].mine /\ call[c].kind # "more"
Refreshing == \E c \in Calls : Waits(c)

\* A mutant: the list stays finished.
RefreshFlagKept(c) ==
  /\ Scrollable /\ ~Refreshing /\ call[c].pc = "free"
  /\ list' = <<>> /\ same' = FALSE /\ requesting' = FALSE /\ mixed' = FALSE
  /\ call' = [Outdated(c) EXCEPT ![c] = Asked("refresh", 0)]
  /\ UNCHANGED <<store, finished, page, loading, view>>

\* _onRefresh: the list and the flags are reset before the query is awaited.
\* The indicator does not start while one is running.
Refresh(c) ==
  /\ Scrollable /\ ~Refreshing /\ call[c].pc = "free"
  /\ list' = <<>> /\ same' = FALSE
  /\ requesting' = FALSE /\ finished' = FALSE /\ mixed' = FALSE
  /\ call' = [Outdated(c) EXCEPT ![c] = Asked("refresh", 0)]
  /\ UNCHANGED <<store, page, loading, view>>

\* A mutant: the end is reached once more while a page is awaited.
LoadMoreUnguarded(c) ==
  /\ Scrollable /\ ~finished /\ list # <<>> /\ call[c].pc = "free"
  /\ requesting' = TRUE
  /\ call' = [call EXCEPT ![c] = Asked("more", Last(list))]
  /\ UNCHANGED <<store, list, finished, page, loading, view, same, mixed>>

\* _loadMoreData at the end of the list: the next page is asked for ...
LoadMore(c) ==
  /\ Scrollable /\ ~requesting /\ ~finished /\ list # <<>> /\ call[c].pc = "free"
  /\ requesting' = TRUE
  /\ call' = [call EXCEPT ![c] = Asked("more", Last(list))]
  /\ UNCHANGED <<store, list, finished, page, loading, view, same, mixed>>

\* ... but during a refresh the controller has no list yet: the page shows that.
LoadNone ==
  /\ Scrollable /\ ~requesting /\ ~finished /\ list = <<>>
  /\ view' = <<>> /\ same' = TRUE
  /\ UNCHANGED <<store, list, flags, page, loading, call, mixed>>

----------------------------------------------------------------------------
(* The answers.                                                             *)

\* The list is replaced; the page that asked for it shows it.  An error is an
\* empty list for the page and none for the controller.
FirstAnswered(c) ==
  /\ Answered(c) /\ call[c].kind = "first"
  /\ call' = [IF Served(c) THEN Outdated(c) ELSE call EXCEPT ![c] = NoCall]
  /\ list' = IF Served(c) THEN call[c].docs ELSE list
  /\ \/ /\ call[c].mine
        /\ view' = call[c].docs /\ same' = Served(c) /\ loading' = FALSE
        /\ UNCHANGED mixed
     \/ /\ ~call[c].mine
        /\ same' = (same /\ ~Served(c)) /\ mixed' = (mixed \/ Served(c))
        /\ UNCHANGED <<view, loading>>
  /\ UNCHANGED <<store, flags, page>>

\* After a refresh the list is asked for again if it is empty.
RefreshAnswered(c) ==
  /\ Answered(c) /\ call[c].kind = "refresh"
  /\ list' = IF Served(c) THEN call[c].docs ELSE list
  /\ call' = [IF Served(c) THEN Outdated(c) ELSE call EXCEPT
                ![c] = IF list' = <<>> THEN [Asked("first", 0) EXCEPT !.mine = call[c].mine]
                       ELSE NoCall]
  /\ \/ /\ call[c].mine /\ list' # <<>>
        /\ view' = list' /\ same' = TRUE
     \/ /\ ~(call[c].mine /\ list' # <<>>)
        /\ same' = (same /\ ~Served(c)) /\ UNCHANGED view
  /\ mixed' = (mixed \/ (Served(c) /\ ~call[c].mine))
  /\ UNCHANGED <<store, flags, page, loading>>

\* A mutant: an error leaves the flag.
MoreAnsweredFlagKept(c) ==
  /\ Answered(c) /\ call[c].kind = "more"
  /\ call' = [call EXCEPT ![c] = NoCall]
  /\ list' = list \o call[c].docs
  /\ requesting' = (requesting /\ ~(page /\ Served(c)))
  /\ finished' = (finished \/ (page /\ Served(c) /\ call[c].docs = <<>>))
  /\ view' = IF same \/ call[c].mine THEN list' ELSE view
  /\ same' = (same \/ call[c].mine)
  /\ mixed' = (mixed \/ ~call[c].fresh)
  /\ UNCHANGED <<store, page, loading>>

\* The next page is appended to whatever the list is by now, which changes what
\* the open page shows if that is the same object.  Without a page setState
\* does nothing: the flags stay.
MoreAnswered(c) ==
  /\ Answered(c) /\ call[c].kind = "more"
  /\ call' = [call EXCEPT ![c] = NoCall]
  /\ list' = list \o call[c].docs
  /\ requesting' = (requesting /\ ~page)
  /\ finished' = (finished \/ (page /\ Served(c) /\ call[c].docs = <<>>))
  /\ view' = IF same \/ call[c].mine THEN list' ELSE view
  /\ same' = (same \/ call[c].mine)
  /\ mixed' = (mixed \/ ~call[c].fresh)
  /\ UNCHANGED <<store, page, loading>>

Answer(c) == Serve(c) \/ FirstAnswered(c) \/ RefreshAnswered(c) \/ MoreAnswered(c)

Next ==
  \/ Arrive \/ Vanish \/ Close \/ LoadNone
  \/ \E c \in Calls : Open(c) \/ Refresh(c) \/ LoadMore(c) \/ Answer(c)

Spec == Init /\ [][Next]_vars

\* Every query is answered or fails, and Dart runs the rest of its handler.
FairSpec == Spec /\ \A c \in Calls : WF_vars(Answer(c))

----------------------------------------------------------------------------
(* Properties.                                                              *)

\* Every variable keeps its type.
TypeOK ==
  /\ newest \in 0 .. MaxDate /\ db \subseteq 1 .. newest
  /\ list \in Seq(Dates) /\ view \in Seq(Dates)
  /\ requesting \in BOOLEAN /\ finished \in BOOLEAN
  /\ page \in BOOLEAN /\ loading \in BOOLEAN /\ same \in BOOLEAN
  /\ call \in [Calls -> Query] /\ mixed \in BOOLEAN

\* No notification twice, none out of order, and none of those there are missing
\* in between.
Window(all, s) ==
  /\ Descending(s)
  /\ \A n \in all : s # <<>> /\ Last(s) <= n /\ n <= s[1] => n \in Items(s)

\* The controller's list as the page shows it.
Shown == page /\ same /\ ~mixed

\* What the page shows is a gapless part of the notifications that exist,
\* whatever arrives or vanishes between its queries and whichever of them fail,
\* unless an answer came to a list it was not asked for: isRequesting lets one
\* query through at a time, which continues exactly at the end of the list.
ShownIsAWindow == Shown => Window(db, view)

\* And when the page stops asking for more there is nothing more: a refresh
\* forgets that the former list was complete.
FinishedIsComplete ==
  Shown /\ finished /\ view # <<>> => \A n \in db : n >= Last(view)

\* Why both hold.  The list itself is such a part, and what is shown is the list.
ListIsAWindow == ~mixed => Window(db, list)
ViewIsTheList == same => view = list

\* Nothing names a notification to come.
NothingToCome ==
  /\ Items(list) \subseteq 1 .. newest
  /\ \A c \in Calls : call[c].after <= newest /\ Items(call[c].docs) \subseteq 1 .. newest

\* s goes on after the date `after`.
Follows(all, s, after) ==
  /\ \A n \in Items(s) : n < after
  /\ \A n \in all : n < after => s # <<>> /\ (Last(s) <= n => n \in Items(s))

\* What Firestore answered is a gapless part as well, from where it was asked.
AnswersAreWindows ==
  \A c \in Calls :
    /\ Window(db, call[c].docs)
    /\ ~Served(c) => call[c].docs = <<>>
    /\ Served(c) /\ call[c].kind = "more" => Follows(db, call[c].docs, call[c].after)

\* The open page waits for one first query or refresh at a time, during which
\* its list is empty and nothing continues it.
Continues(c) == call[c].pc # "free" /\ call[c].kind = "more" /\ call[c].fresh
OneListAtATime ==
  /\ \A c \in Calls : call[c].pc # "free" /\ call[c].mine => page
  /\ \A c, d \in Calls : Waits(c) /\ Waits(d) => c = d
  /\ \A c \in Calls : ~mixed /\ Waits(c) => /\ list = <<>> /\ ~finished
                                           /\ \A d \in Calls : ~Continues(d)

\* One query continues the list, at its end.
OnePageAtATime ==
  \A c \in Calls : ~mixed /\ Continues(c) =>
    /\ requesting /\ list # <<>> /\ call[c].after = Last(list)
    /\ \A d \in Calls : Continues(d) => d = c

\* A list is finished when there is nothing more.
ListIsComplete ==
  ~mixed /\ finished /\ list # <<>> => \A n \in db : n >= Last(list)

\* An indicator of the open page always stands for a query that is on its way: no
\* answer to a former page, no refresh and no error leaves isLoading, or
\* _isRequesting, which outlives the page, raised with nobody to lower it.
AwaitedMore  == \E c \in Calls : call[c].pc # "free" /\ call[c].kind = "more"
AwaitedFirst == \E c \in Calls : Waits(c) /\ call[c].kind = "first"
SpinningIsAwaited == page => /\ requesting => AwaitedMore
                             /\ loading => AwaitedFirst

\* A page never spins for ever: the first query and each further one ends its
\* indicator whether it is answered or fails.
Spinning == page /\ (loading \/ requesting)
SpinningEnds == Spinning ~> ~Spinning
=============================================================================
