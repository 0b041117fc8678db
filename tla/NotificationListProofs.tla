------------------------ MODULE NotificationListProofs ------------------------
(****************************************************************************)
(* Theorems about NotificationList, for any number of notifications, limits *)
(* and queries at a time.                                                   *)
(****************************************************************************)
EXTENDS NotificationList, TLAPS

(* Sequences of dates. ------------------------------------------------------*)

\* The last of a list is one of it.
LEMMA LastIsOne ==
  ASSUME NEW s \in Seq(Dates), s # <<>>
  PROVE  Last(s) \in Dates /\ Last(s) \in Items(s) /\ Len(s) \in DOMAIN s
<1>1. Len(s) \in DOMAIN s
  OBVIOUS
<1> QED
  BY <1>1 DEF Last, Items

\* The items of a list are dates, which are numbers.
LEMMA DatesAreNumbers == Dates \subseteq Nat
  BY DEF Dates

LEMMA ItemsAreDates ==
  ASSUME NEW s \in Seq(Dates)
  PROVE  /\ \A i \in DOMAIN s : s[i] \in Dates /\ s[i] \in Nat
         /\ Items(s) \subseteq Dates
<1>1. \A i \in DOMAIN s : s[i] \in Dates
  OBVIOUS
<1> QED
  BY <1>1, DatesAreNumbers DEF Items

\* What is in a list is not before the last of a descending one.
LEMMA LastIsLeast ==
  ASSUME NEW s \in Seq(Dates), s # <<>>, Descending(s)
  PROVE  \A n \in Items(s) : Last(s) <= n /\ n <= s[1]
<1>1. \A i \in DOMAIN s : s[i] \in Nat /\ 1 <= i /\ i <= Len(s) /\ i \in Nat
  BY ItemsAreDates
<1>2. 1 \in DOMAIN s /\ Len(s) \in DOMAIN s
  OBVIOUS
<1>3. \A i \in DOMAIN s : s[Len(s)] <= s[i] /\ s[i] <= s[1]
  BY <1>1, <1>2 DEF Descending
<1> QED
  BY <1>3 DEF Last, Items

\* An answer is a list of dates.
LEMMA AnswersAreLists ==
  ASSUME NEW n \in Nat, NEW s \in Lists(n)
  PROVE  s \in Seq(Dates)
  BY DEF Lists

\* A list with another one after it.
LEMMA Appended ==
  ASSUME NEW s \in Seq(Dates), NEW t \in Seq(Dates)
  PROVE  /\ s \o t \in Seq(Dates)
         /\ Items(s \o t) = Items(s) \cup Items(t)
         /\ t = <<>> => s \o t = s
         /\ t # <<>> => s \o t # <<>> /\ Last(s \o t) = Last(t)
         /\ s # <<>> => s \o t # <<>> /\ (s \o t)[1] = s[1]
<1>1. s \o t \in Seq(Dates) /\ Len(s \o t) = Len(s) + Len(t)
  OBVIOUS
<1>2. \A i \in DOMAIN s : i \in DOMAIN (s \o t) /\ (s \o t)[i] = s[i]
  OBVIOUS
<1>3. \A i \in DOMAIN t : Len(s) + i \in DOMAIN (s \o t) /\ (s \o t)[Len(s) + i] = t[i]
  OBVIOUS
<1>4. \A i \in DOMAIN (s \o t) : i \in DOMAIN s \/ i - Len(s) \in DOMAIN t
  OBVIOUS
<1>5. \A i \in DOMAIN (s \o t) : \/ i \in DOMAIN s /\ (s \o t)[i] = s[i]
                                 \/ i - Len(s) \in DOMAIN t /\ (s \o t)[i] = t[i - Len(s)]
  OBVIOUS
<1>6. Items(s \o t) = Items(s) \cup Items(t)
  <2>1. Items(s \o t) \subseteq Items(s) \cup Items(t)
    BY <1>5 DEF Items
  <2>2. Items(s) \subseteq Items(s \o t)
    BY <1>2 DEF Items
  <2>3. Items(t) \subseteq Items(s \o t)
    BY <1>3 DEF Items
  <2> QED
    BY <2>1, <2>2, <2>3
<1>7. t # <<>> => s \o t # <<>> /\ Last(s \o t) = Last(t)
  BY <1>1, <1>3 DEF Last
<1>8. s # <<>> => s \o t # <<>> /\ (s \o t)[1] = s[1]
  BY <1>1, <1>2
<1> QED
  BY <1>1, <1>6, <1>7, <1>8

\* A gapless list that another one follows is a gapless list with it.
LEMMA WindowGrows ==
  ASSUME NEW s \in Seq(Dates), NEW t \in Seq(Dates), NEW all \in SUBSET Nat,
         s # <<>>, Window(all, s), Window(all, t), Follows(all, t, Last(s))
  PROVE  Window(all, s \o t)
<1> DEFINE u == s \o t
<1>1. \A i \in DOMAIN s, j \in DOMAIN t : s[i] > t[j]
  <2> TAKE i \in DOMAIN s, j \in DOMAIN t
  <2>1. Last(s) <= s[i] /\ t[j] < Last(s)
    BY LastIsLeast DEF Window, Follows, Items
  <2>2. Last(s) \in Nat /\ s[i] \in Nat /\ t[j] \in Nat
    BY LastIsOne, ItemsAreDates, DatesAreNumbers
  <2> QED
    BY <2>1, <2>2
<1>2. \A i, j \in DOMAIN u : i < j => u[i] > u[j]
  <2> SUFFICES ASSUME NEW i \in DOMAIN u, NEW j \in DOMAIN u, i < j
               PROVE  u[i] > u[j]
    OBVIOUS
  <2>1. \A k \in DOMAIN u : \/ k \in DOMAIN s /\ u[k] = s[k]
                            \/ k - Len(s) \in DOMAIN t /\ u[k] = t[k - Len(s)] /\ k > Len(s)
    OBVIOUS
  <2>2. i \in Nat /\ j \in Nat /\ Len(s) \in Nat /\ \A k \in DOMAIN s : k <= Len(s)
    OBVIOUS
  <2>3. CASE j \in DOMAIN s /\ u[j] = s[j]
    BY <2>1, <2>2, <2>3 DEF Window, Descending
  <2>4. CASE j - Len(s) \in DOMAIN t /\ u[j] = t[j - Len(s)]
    BY <1>1, <2>1, <2>2, <2>4 DEF Window, Descending
  <2> QED
    BY <2>1, <2>3, <2>4
<1>3. ASSUME NEW n \in all, Last(u) <= n, n <= u[1]
      PROVE  n \in Items(u)
  <2>1. Items(u) = Items(s) \cup Items(t) /\ u[1] = s[1]
    BY Appended
  <2>2. n \in Nat /\ Last(s) \in Nat /\ (t # <<>> => Last(t) \in Nat)
    BY LastIsOne, DatesAreNumbers
  <2>3. CASE Last(s) <= n
    BY <1>3, <2>1, <2>3 DEF Window
  <2>4. CASE n < Last(s)
    <3>1. t # <<>> /\ (Last(t) <= n => n \in Items(t))
      BY <2>4 DEF Follows
    <3> QED
      BY <1>3, <2>1, <3>1, Appended
  <2> QED
    BY <2>2, <2>3, <2>4
<1> QED
  BY <1>2, <1>3 DEF Window, Descending

\* The empty list is gapless.
LEMMA EmptyIsAWindow ==
  ASSUME NEW all
  PROVE  Window(all, <<>>) /\ Items(<<>>) = {} /\ <<>> \in Seq(Dates)
  BY DEF Window, Descending, Items

(* Types. ------------------------------------------------------------------*)

\* A list that begins makes the others' queries outdated, and no more.
LEMMA OutdatedIs ==
  ASSUME TypeOK, NEW c \in Calls
  PROVE  /\ Outdated(c) \in [Calls -> Query]
         /\ Outdated(c)[c] = call[c]
         /\ \A k \in Calls : /\ Outdated(c)[k].pc = call[k].pc
                             /\ Outdated(c)[k].kind = call[k].kind
                             /\ Outdated(c)[k].mine = call[k].mine
                             /\ Outdated(c)[k].after = call[k].after
                             /\ Outdated(c)[k].docs = call[k].docs
                             /\ k # c => ~Outdated(c)[k].fresh
  BY DEF Outdated, TypeOK, Query

\* A new query is one.
LEMMA AskedIs ==
  ASSUME NEW kind \in {"first", "refresh", "more"}, NEW after \in Nat
  PROVE  Asked(kind, after) \in Query /\ NoCall \in Query
  BY EmptyIsAWindow DEF Asked, NoCall, Query

\* A query that is answered, or whose page is gone, is one.
LEMMA QueryStays ==
  ASSUME NEW q \in Query
  PROVE  /\ \A m \in BOOLEAN : [q EXCEPT !.mine = m] \in Query
         /\ [q EXCEPT !.pc = "failed"] \in Query
         /\ \A s \in Seq(Dates) : [q EXCEPT !.pc = "served", !.docs = s] \in Query
  BY DEF Query

\* Firestore and the user keep the types.
LEMMA UserTyped ==
  ASSUME TypeOK, Arrive \/ Vanish \/ Close \/ LoadNone
                 \/ \E c \in Calls : Open(c) \/ Refresh(c) \/ LoadMore(c)
  PROVE  TypeOK'
<1>1. CASE Arrive
  BY <1>1, LimitsAssumption DEF TypeOK, Arrive, flags
<1>2. CASE Vanish
  BY <1>2 DEF TypeOK, Vanish, flags
<1>3. CASE Close
  BY <1>3 DEF TypeOK, Close, Query, store, flags
<1>4. CASE LoadNone
  BY <1>4, EmptyIsAWindow DEF TypeOK, LoadNone, store, flags
<1>5. ASSUME NEW c \in Calls, Open(c)
      PROVE  TypeOK'
  <2>1. call' \in [Calls -> Query]
    BY <1>5, OutdatedIs, AskedIs DEF Open
  <2> QED
    BY <1>5, <2>1, EmptyIsAWindow DEF TypeOK, Open, store
<1>6. ASSUME NEW c \in Calls, Refresh(c)
      PROVE  TypeOK'
  <2>1. call' \in [Calls -> Query]
    BY <1>6, OutdatedIs, AskedIs DEF Refresh
  <2> QED
    BY <1>6, <2>1, EmptyIsAWindow DEF TypeOK, Refresh, store
<1>7. ASSUME NEW c \in Calls, LoadMore(c)
      PROVE  TypeOK'
  <2>1. Last(list) \in Nat
    BY <1>7, LastIsOne, DatesAreNumbers DEF LoadMore, TypeOK
  <2>2. call' \in [Calls -> Query]
    BY <1>7, <2>1, AskedIs DEF LoadMore, TypeOK
  <2> QED
    BY <1>7, <2>2 DEF TypeOK, LoadMore, store
<1> QED
  BY <1>1, <1>2, <1>3, <1>4, <1>5, <1>6, <1>7

\* So do the answers.
LEMMA AnswerTyped ==
  ASSUME TypeOK, NEW c \in Calls, Answer(c)
  PROVE  TypeOK'
<1>1. CASE Serve(c)
  <2>1. \A s \in Answers(Reachable(c), Limit(c)) : s \in Seq(Dates)
    BY AnswersAreLists, LimitsAssumption DEF Answers, Limit
  <2>2. call' \in [Calls -> Query]
    <3>1. ASSUME NEW s \in Answers(Reachable(c), Limit(c)),
                 call' = [call EXCEPT ![c].pc = "served", ![c].docs = s]
          PROVE  call' \in [Calls -> Query]
      <4>1. call' = [call EXCEPT ![c] = [call[c] EXCEPT !.pc = "served", !.docs = s]]
        BY <3>1 DEF TypeOK
      <4> QED
        BY <2>1, <4>1, QueryStays DEF TypeOK
    <3>2. CASE call' = [call EXCEPT ![c].pc = "failed"]
      BY <3>2, QueryStays DEF TypeOK
    <3> QED
      BY <1>1, <3>1, <3>2 DEF Serve
  <2> QED
    BY <1>1, <2>2 DEF Serve, TypeOK, store, flags
<1>2. CASE FirstAnswered(c)
  <2>1. call' \in [Calls -> Query]
    BY <1>2, OutdatedIs, AskedIs DEF FirstAnswered, TypeOK
  <2>2. call[c].docs \in Seq(Dates)
    BY DEF TypeOK, Query
  <2> QED
    BY <1>2, <2>1, <2>2 DEF FirstAnswered, TypeOK, Served, store, flags
<1>3. CASE RefreshAnswered(c)
  <2>1. call[c].docs \in Seq(Dates) /\ call[c].mine \in BOOLEAN
    BY DEF TypeOK, Query
  <2>2. [Asked("first", 0) EXCEPT !.mine = call[c].mine] \in Query
    BY <2>1, AskedIs, QueryStays
  <2>3. call' \in [Calls -> Query]
    BY <1>3, <2>2, OutdatedIs, AskedIs DEF RefreshAnswered, TypeOK
  <2>4. list' \in Seq(Dates)
    BY <1>3, <2>1 DEF RefreshAnswered, TypeOK
  <2> QED
    BY <1>3, <2>1, <2>3, <2>4 DEF RefreshAnswered, TypeOK, Served, store, flags
<1>4. CASE MoreAnswered(c)
  <2>1. call[c].docs \in Seq(Dates) /\ call[c].mine \in BOOLEAN /\ call[c].fresh \in BOOLEAN
    BY DEF TypeOK, Query
  <2>2. call' \in [Calls -> Query]
    BY <1>4, AskedIs DEF MoreAnswered, TypeOK
  <2>3. list' \in Seq(Dates)
    BY <1>4, <2>1, Appended DEF MoreAnswered, TypeOK
  <2> QED
    BY <1>4, <2>1, <2>2, <2>3 DEF MoreAnswered, TypeOK, Served, store
<1> QED
  BY <1>1, <1>2, <1>3, <1>4 DEF Answer

LEMMA TypeKept == TypeOK /\ [Next]_vars => TypeOK'
<1> SUFFICES ASSUME TypeOK, [Next]_vars
             PROVE  TypeOK'
  OBVIOUS
<1>1. CASE UNCHANGED vars
  BY <1>1 DEF vars, store, flags, TypeOK
<1> QED
  BY <1>1, UserTyped, AnswerTyped DEF Next

LEMMA TypeInit == Init => TypeOK
  BY LimitsAssumption, AskedIs, EmptyIsAWindow DEF Init, TypeOK

\* Every variable keeps its type, for any limits, notifications and queries.
THEOREM ListTypeCorrect == Spec => []TypeOK
  BY TypeInit, TypeKept, PTL DEF Spec

(* What is shown. ----------------------------------------------------------*)

Inv ==
  /\ TypeOK /\ ListIsAWindow /\ ViewIsTheList /\ NothingToCome
  /\ AnswersAreWindows /\ OneListAtATime /\ OnePageAtATime /\ ListIsComplete

\* A new notification is later than all of a list.
LEMMA NewIsLater ==
  ASSUME NEW s \in Seq(Dates), NEW N \in Nat, NEW all \in SUBSET (1 .. N),
         Items(s) \subseteq 1 .. N
  PROVE  /\ Window(all, s) => Window(all \cup {N + 1}, s)
         /\ \A a \in 0 .. N : Follows(all, s, a) => Follows(all \cup {N + 1}, s, a)
<1>1. s # <<>> => s[1] \in 1 .. N
  BY DEF Items
<1> QED
  BY <1>1 DEF Window, Follows

\* A notification that vanishes leaves no gap.
LEMMA FewerKeep ==
  ASSUME NEW s, NEW all, NEW some \in SUBSET all
  PROVE  /\ Window(all, s) => Window(some, s)
         /\ \A a : Follows(all, s, a) => Follows(some, s, a)
  BY DEF Window, Follows

\* Notifications come and go.
LEMMA StoreKeeps ==
  ASSUME Inv, Arrive \/ Vanish
  PROVE  Inv'
<1>1. TypeOK'
  BY UserTyped DEF Inv
<1>2. UNCHANGED <<list, requesting, finished, page, view, same, call, mixed>>
  BY DEF Arrive, Vanish, flags
<1>3. newest' \in Nat /\ newest <= newest' /\ newest \in Nat
  BY DEF Inv, TypeOK, Arrive, Vanish
<1>4. \A s \in Seq(Dates) : Items(s) \subseteq 1 .. newest =>
        /\ Window(db, s) => Window(db', s)
        /\ \A a \in 0 .. newest : Follows(db, s, a) => Follows(db', s, a)
  <2>1. CASE Arrive
    BY <1>3, <2>1, NewIsLater DEF Arrive, Inv, TypeOK
  <2>2. CASE Vanish
    <3>1. db' \subseteq db
      BY <2>2 DEF Vanish
    <3> QED
      BY <3>1, FewerKeep
  <2> QED
    BY <2>1, <2>2
<1>5. ListIsAWindow'
  BY <1>2, <1>4 DEF Inv, TypeOK, ListIsAWindow, NothingToCome
<1>6. ViewIsTheList' /\ OneListAtATime' /\ OnePageAtATime'
  BY <1>2 DEF Inv, ViewIsTheList, OneListAtATime, OnePageAtATime, Waits, Continues
<1>7. NothingToCome'
  BY <1>2, <1>3 DEF Inv, TypeOK, Query, NothingToCome
<1>8. AnswersAreWindows'
  BY <1>2, <1>4 DEF Inv, TypeOK, Query, NothingToCome, AnswersAreWindows, Served
<1>9. ListIsComplete'
  <2>1. list # <<>> => Last(list) \in 1 .. newest
    BY LastIsOne DEF Inv, TypeOK, NothingToCome
  <2>2. \A n \in db' : n \in db \/ n = newest + 1
    BY DEF Arrive, Vanish
  <2> QED
    BY <1>2, <1>3, <2>1, <2>2 DEF Inv, ListIsComplete
<1> QED
  BY <1>1, <1>5, <1>6, <1>7, <1>8, <1>9 DEF Inv

\* A list begins, with a query of the open page, which had none of the kind.
LEMMA ListBegins ==
  ASSUME Inv, TypeOK', NEW c \in Calls, NEW kind \in {"first", "refresh"},
         call[c].pc = "free", \A k \in Calls : ~Waits(k),
         call' = [Outdated(c) EXCEPT ![c] = Asked(kind, 0)],
         list' = <<>>, finished' = FALSE, same' = FALSE, mixed' = FALSE, page' = TRUE,
         UNCHANGED store
  PROVE  Inv'
<1>1. \A k \in Calls : k # c => /\ call'[k].pc = call[k].pc /\ call'[k].kind = call[k].kind
                                /\ call'[k].mine = call[k].mine
                                /\ call'[k].after = call[k].after
                                /\ call'[k].docs = call[k].docs /\ ~call'[k].fresh
  BY OutdatedIs DEF Inv
<1>2. call'[c] = Asked(kind, 0)
  BY OutdatedIs DEF Inv
<1>3. ListIsAWindow' /\ ViewIsTheList' /\ ListIsComplete'
  BY EmptyIsAWindow DEF ListIsAWindow, ViewIsTheList, ListIsComplete
<1>4. NothingToCome'
  <2>1. call'[c].docs = <<>> /\ call'[c].after = 0 /\ Items(<<>>) = {}
    BY <1>2, EmptyIsAWindow DEF Asked
  <2>2. newest' = newest /\ newest \in Nat
    BY DEF store, Inv, TypeOK
  <2>3. \A k \in Calls : k # c => /\ call'[k].after <= newest'
                                  /\ Items(call'[k].docs) \subseteq 1 .. newest'
    BY <1>1, <2>2 DEF Inv, NothingToCome
  <2> QED
    BY <2>1, <2>2, <2>3 DEF NothingToCome
<1>5. AnswersAreWindows'
  BY <1>1, <1>2, EmptyIsAWindow DEF Inv, AnswersAreWindows, Served, Asked, store
<1>6. \A k \in Calls : ~Continues(k)'
  BY <1>1, <1>2 DEF Continues, Asked
<1>7. \A k \in Calls : Waits(k)' => k = c
  BY <1>1, <1>2 DEF Waits
<1>8. OneListAtATime' /\ OnePageAtATime'
  BY <1>6, <1>7 DEF OneListAtATime, OnePageAtATime
<1> QED
  BY <1>3, <1>4, <1>5, <1>8 DEF Inv

\* The user opens, closes, pulls and scrolls the page.
LEMMA UserKeeps ==
  ASSUME Inv, Close \/ LoadNone \/ \E c \in Calls : Open(c) \/ Refresh(c) \/ LoadMore(c)
  PROVE  Inv'
<1>1. TypeOK'
  BY UserTyped DEF Inv
<1>2. CASE Close
  <2>1. UNCHANGED <<db, newest, list, requesting, finished, view, same, mixed>>
    BY <1>2 DEF Close, store, flags
  <2>2. \A k \in Calls : /\ call'[k].pc = call[k].pc /\ call'[k].kind = call[k].kind
                         /\ call'[k].fresh = call[k].fresh /\ ~call'[k].mine
                         /\ call'[k].after = call[k].after /\ call'[k].docs = call[k].docs
    BY <1>2 DEF Close, Inv, TypeOK, Query
  <2>3. ListIsAWindow' /\ ViewIsTheList' /\ ListIsComplete'
    BY <2>1 DEF Inv, ListIsAWindow, ViewIsTheList, ListIsComplete
  <2>4. NothingToCome' /\ AnswersAreWindows'
    BY <2>1, <2>2 DEF Inv, NothingToCome, AnswersAreWindows, Served
  <2>5. OneListAtATime'
    BY <2>2 DEF OneListAtATime, Waits
  <2>6. OnePageAtATime'
    BY <2>1, <2>2 DEF Inv, OnePageAtATime, Continues
  <2> QED
    BY <1>1, <2>3, <2>4, <2>5, <2>6 DEF Inv
<1>3. CASE LoadNone
  BY <1>1, <1>3 DEF LoadNone, store, flags, Inv, ListIsAWindow, ViewIsTheList, ListIsComplete,
     NothingToCome, AnswersAreWindows, Served, OneListAtATime, OnePageAtATime, Waits, Continues
<1>4. ASSUME NEW c \in Calls, Open(c)
      PROVE  Inv'
  <2>1. \A k \in Calls : ~Waits(k)
    BY <1>4 DEF Open, Inv, OneListAtATime, Waits
  <2> QED
    BY <1>1, <1>4, <2>1, ListBegins DEF Open
<1>5. ASSUME NEW c \in Calls, Refresh(c)
      PROVE  Inv'
  <2>1. \A k \in Calls : ~Waits(k)
    BY <1>5 DEF Refresh, Refreshing
  <2> QED
    BY <1>1, <1>5, <2>1, ListBegins DEF Refresh, Scrollable, Inv, TypeOK
<1>6. ASSUME NEW c \in Calls, LoadMore(c)
      PROVE  Inv'
  <2>1. UNCHANGED <<db, newest, list, finished, page, view, same, mixed>> /\ list # <<>> /\ page
    BY <1>6 DEF LoadMore, store, Scrollable
  <2>2. \A k \in Calls : k # c => call'[k] = call[k]
    BY <1>6 DEF LoadMore, Inv, TypeOK
  <2>3. call'[c] = Asked("more", Last(list)) /\ ~requesting /\ requesting'
    BY <1>6 DEF LoadMore, Inv, TypeOK
  <2>4. Last(list) \in 1 .. newest
    BY <2>1, LastIsOne DEF Inv, TypeOK, NothingToCome
  <2>5. ListIsAWindow' /\ ViewIsTheList' /\ ListIsComplete'
    BY <2>1 DEF Inv, ListIsAWindow, ViewIsTheList, ListIsComplete
  <2>6. NothingToCome'
    <3>1. call'[c].docs = <<>> /\ call'[c].after = Last(list) /\ Items(<<>>) = {}
      BY <2>3, EmptyIsAWindow DEF Asked
    <3>2. newest \in Nat /\ Last(list) <= newest
      BY <2>4 DEF Inv, TypeOK
    <3> QED
      BY <2>1, <2>2, <3>1, <3>2 DEF Inv, NothingToCome
  <2>7. AnswersAreWindows'
    BY <2>1, <2>2, <2>3, EmptyIsAWindow DEF Inv, AnswersAreWindows, Served, Asked
  <2>8. \A k \in Calls : /\ Waits(k)' => k # c /\ Waits(k)
                         /\ Continues(k)' => k = c \/ Continues(k)
    BY <2>2, <2>3 DEF Waits, Continues, Asked
  <2>9. ~mixed => \A k \in Calls : ~Waits(k) /\ ~Continues(k)
    BY <2>1, <2>3 DEF Inv, OneListAtATime, OnePageAtATime
  <2>10. OneListAtATime'
    BY <2>1, <2>2, <2>3, <2>8, <2>9 DEF Inv, OneListAtATime
  <2>11. OnePageAtATime'
    BY <2>1, <2>3, <2>8, <2>9 DEF OnePageAtATime, Asked
  <2> QED
    BY <1>1, <2>5, <2>6, <2>7, <2>10, <2>11 DEF Inv
<1> QED
  BY <1>2, <1>3, <1>4, <1>5, <1>6

\* What Firestore answers is a gapless part of what there is, from where it was
\* asked.
LEMMA AnswerIs ==
  ASSUME Inv, NEW c \in Calls, NEW s \in Answers(Reachable(c), Limit(c))
  PROVE  /\ s \in Seq(Dates) /\ Items(s) \subseteq 1 .. newest /\ Window(db, s)
         /\ call[c].kind = "more" => Follows(db, s, call[c].after)
<1>1. s \in Seq(Dates)
  BY AnswersAreLists, LimitsAssumption DEF Answers, Limit
<1>2. db \subseteq 1 .. newest /\ newest \in Nat /\ call[c].after \in Nat
  BY DEF Inv, TypeOK, Query
<1>3. /\ Descending(s) /\ Items(s) \subseteq Reachable(c)
      /\ \A n \in Reachable(c) \ Items(s) :
           Len(s) = Limit(c) /\ \A m \in Items(s) : m > n
  BY DEF Answers
<1>4. Reachable(c) \subseteq db /\ Limit(c) # 0
  BY LimitsAssumption DEF Reachable, Limit
<1>5. s # <<>> => Last(s) \in Items(s) /\ s[1] \in Items(s)
  BY <1>1, LastIsOne DEF Items
<1>6. Window(db, s)
  <2> SUFFICES ASSUME NEW n \in db, s # <<>>, Last(s) <= n, n <= s[1], n \notin Items(s)
               PROVE  FALSE
    BY <1>3 DEF Window
  <2>1. Last(s) \in Nat /\ s[1] \in Nat /\ n \in Nat
    <3>1. db \subseteq Nat
      BY <1>2
    <3> QED
      BY <1>3, <1>4, <1>5, <3>1
  <2>2. n \notin Reachable(c)
    BY <1>3, <1>5, <2>1
  <2>3. call[c].kind = "more" /\ call[c].after <= n
    BY <1>2, <2>1, <2>2 DEF Reachable
  <2>4. s[1] < call[c].after
    BY <1>3, <1>5, <2>3 DEF Reachable
  <2> QED
    BY <1>2, <2>1, <2>3, <2>4
<1>7. ASSUME call[c].kind = "more"
      PROVE  Follows(db, s, call[c].after)
  <2>1. \A n \in Items(s) : n < call[c].after
    BY <1>3, <1>7 DEF Reachable
  <2>2. ASSUME NEW n \in db, n < call[c].after
        PROVE  s # <<>> /\ (Last(s) <= n => n \in Items(s))
    <3>1. n \in Reachable(c)
      BY <1>7, <2>2 DEF Reachable
    <3>2. CASE n \in Items(s)
      BY <3>2, EmptyIsAWindow
    <3>3. CASE n \notin Items(s)
      <4>1. Len(s) # 0 /\ \A m \in Items(s) : m > n
        BY <1>3, <1>4, <3>1, <3>3
      <4>2. s # <<>> /\ Last(s) > n
        BY <1>1, <1>5, <4>1
      <4>3. Last(s) \in Nat /\ n \in Nat
        BY <1>2, <1>3, <1>4, <1>5, <4>2
      <4> QED
        BY <4>2, <4>3
    <3> QED
      BY <3>2, <3>3
  <2> QED
    BY <2>1, <2>2 DEF Follows
<1> QED
  BY <1>1, <1>2, <1>3, <1>4, <1>6, <1>7

LEMMA ServeKeeps ==
  ASSUME Inv, NEW c \in Calls, Serve(c)
  PROVE  Inv'
<1>1. TypeOK'
  BY AnswerTyped DEF Answer, Inv
<1>2. UNCHANGED <<db, newest, list, requesting, finished, page, view, same, mixed>>
  BY DEF Serve, store, flags
<1>3. /\ \A k \in Calls : k # c => call'[k] = call[k]
      /\ call'[c].kind = call[c].kind /\ call'[c].mine = call[c].mine
      /\ call'[c].fresh = call[c].fresh /\ call'[c].after = call[c].after
      /\ call[c].pc # "free" /\ call'[c].pc # "free"
  BY DEF Serve, Inv, TypeOK, Query
<1>4. \/ call'[c].pc = "served" /\ call'[c].docs \in Answers(Reachable(c), Limit(c))
      \/ call'[c].pc = "failed" /\ call'[c].docs = <<>>
  <2>1. call[c].docs = <<>>
    BY DEF Serve, Inv, AnswersAreWindows, Served
  <2> QED
    BY <2>1 DEF Serve, Inv, TypeOK, Query
<1>5. ListIsAWindow' /\ ViewIsTheList' /\ ListIsComplete'
  BY <1>2 DEF Inv, ListIsAWindow, ViewIsTheList, ListIsComplete
<1>6. /\ Items(call'[c].docs) \subseteq 1 .. newest /\ Window(db, call'[c].docs)
      /\ call'[c].pc = "served" /\ call[c].kind = "more"
           => Follows(db, call'[c].docs, call[c].after)
  BY <1>4, AnswerIs, EmptyIsAWindow
<1>7. NothingToCome'
  BY <1>2, <1>3, <1>6 DEF Inv, NothingToCome
<1>8. AnswersAreWindows'
  BY <1>2, <1>3, <1>4, <1>6 DEF Inv, AnswersAreWindows, Served
<1>9. \A k \in Calls : (Waits(k)' <=> Waits(k)) /\ (Continues(k)' <=> Continues(k))
  BY <1>3 DEF Waits, Continues
<1>10. OneListAtATime' /\ OnePageAtATime'
  BY <1>2, <1>3, <1>9 DEF Inv, OneListAtATime, OnePageAtATime
<1> QED
  BY <1>1, <1>5, <1>7, <1>8, <1>10 DEF Inv

\* A first query or a refresh gives way to q: what is left of the others.
LEMMA ListAnswered ==
  ASSUME Inv, NEW c \in Calls, NEW q, q.docs = <<>>, q.after = 0, q.pc # "served",
         call' = [IF Served(c) THEN Outdated(c) ELSE call EXCEPT ![c] = q],
         list' = IF Served(c) THEN call[c].docs ELSE list, UNCHANGED store
  PROVE  /\ call'[c] = q
         /\ \A k \in Calls : k # c =>
              /\ call'[k].pc = call[k].pc /\ call'[k].kind = call[k].kind
              /\ call'[k].mine = call[k].mine
              /\ call'[k].fresh => call[k].fresh /\ ~Served(c)
              /\ call'[k].after = call[k].after
         /\ NothingToCome' /\ AnswersAreWindows'
         /\ Served(c) => Window(db, list')
<1>1. call'[c] = q
  BY OutdatedIs DEF Inv, TypeOK
<1>2. \A k \in Calls : k # c => /\ call'[k].pc = call[k].pc /\ call'[k].kind = call[k].kind
                                /\ call'[k].mine = call[k].mine
                                /\ call'[k].fresh => call[k].fresh /\ ~Served(c)
                                /\ call'[k].after = call[k].after
                                /\ call'[k].docs = call[k].docs
  <2>1. CASE Served(c)
    BY <2>1, OutdatedIs DEF Inv, TypeOK
  <2>2. CASE ~Served(c)
    BY <2>2 DEF Inv, TypeOK
  <2> QED
    BY <2>1, <2>2
<1>3. NothingToCome'
  <2>1. newest' = newest /\ newest \in Nat /\ Items(<<>>) = {}
    BY EmptyIsAWindow DEF store, Inv, TypeOK
  <2>2. Items(list') \subseteq 1 .. newest
    BY DEF Inv, NothingToCome
  <2> QED
    BY <1>1, <1>2, <2>1, <2>2 DEF Inv, NothingToCome
<1>4. AnswersAreWindows'
  BY <1>1, <1>2, EmptyIsAWindow DEF Inv, AnswersAreWindows, Served, store
<1> QED
  BY <1>1, <1>2, <1>3, <1>4 DEF Inv, AnswersAreWindows

LEMMA FirstKeeps ==
  ASSUME Inv, NEW c \in Calls, FirstAnswered(c)
  PROVE  Inv'
<1>1. TypeOK'
  BY AnswerTyped DEF Answer, Inv
<1>2. /\ UNCHANGED <<db, newest, requesting, finished, page>>
      /\ list' = IF Served(c) THEN call[c].docs ELSE list
      /\ call[c].pc # "free" /\ call[c].kind = "first"
  BY DEF FirstAnswered, store, flags, Answered
<1>3. /\ call'[c] = NoCall
      /\ \A k \in Calls : k # c =>
           /\ call'[k].pc = call[k].pc /\ call'[k].kind = call[k].kind
           /\ call'[k].mine = call[k].mine
           /\ call'[k].fresh => call[k].fresh /\ ~Served(c)
           /\ call'[k].after = call[k].after
      /\ NothingToCome' /\ AnswersAreWindows'
      /\ Served(c) => Window(db, list')
  <2>1. NoCall.docs = <<>> /\ NoCall.after = 0 /\ NoCall.pc # "served"
    BY DEF NoCall
  <2>2. call' = [IF Served(c) THEN Outdated(c) ELSE call EXCEPT ![c] = NoCall]
    BY DEF FirstAnswered
  <2> QED
    BY <1>2, <2>1, <2>2, ListAnswered DEF store
<1>4. /\ mixed' = (mixed \/ (Served(c) /\ ~call[c].mine))
      /\ call[c].mine => Waits(c)
      /\ same' => view' = list' \/ (same /\ view' = view /\ list' = list)
  BY <1>2 DEF FirstAnswered, Waits, Inv, TypeOK, Query
<1>5. ListIsAWindow' /\ ViewIsTheList'
  BY <1>2, <1>3, <1>4 DEF Inv, ListIsAWindow, ViewIsTheList
<1>6. \A k \in Calls : /\ Waits(k)' => k # c /\ Waits(k)
                       /\ Continues(k)' => Continues(k) /\ ~Served(c)
  BY <1>2, <1>3 DEF Waits, Continues, NoCall
<1>7. OneListAtATime'
  <2>1. \A k \in Calls : call'[k].pc # "free" /\ call'[k].mine => page'
    BY <1>2, <1>3 DEF Inv, OneListAtATime, NoCall
  <2>2. \A k, l \in Calls : Waits(k)' /\ Waits(l)' => k = l
    BY <1>6 DEF Inv, OneListAtATime
  <2>3. ASSUME NEW k \in Calls, ~mixed', Waits(k)'
        PROVE  list' = <<>> /\ ~finished' /\ \A d \in Calls : ~Continues(d)'
    <3>1. ~Served(c)
      BY <1>4, <1>6, <2>3 DEF Inv, OneListAtATime
    <3> QED
      BY <1>2, <1>4, <1>6, <2>3, <3>1 DEF Inv, OneListAtATime
  <2> QED
    BY <2>1, <2>2, <2>3 DEF OneListAtATime
<1>8. OnePageAtATime'
  BY <1>2, <1>3, <1>4, <1>6 DEF Inv, OnePageAtATime, Continues, NoCall
<1>9. ListIsComplete'
  BY <1>2, <1>4 DEF Inv, OneListAtATime, ListIsComplete
<1> QED
  BY <1>1, <1>3, <1>5, <1>7, <1>8, <1>9 DEF Inv

LEMMA RefreshKeeps ==
  ASSUME Inv, NEW c \in Calls, RefreshAnswered(c)
  PROVE  Inv'
<1> DEFINE q == IF list' = <<>> THEN [Asked("first", 0) EXCEPT !.mine = call[c].mine]
                ELSE NoCall
<1>1. TypeOK'
  BY AnswerTyped DEF Answer, Inv
<1>2. /\ UNCHANGED <<db, newest, requesting, finished, page>>
      /\ list' = IF Served(c) THEN call[c].docs ELSE list
      /\ call[c].pc # "free" /\ call[c].kind = "refresh"
  BY DEF RefreshAnswered, store, flags, Answered
<1>3. /\ q.docs = <<>> /\ q.after = 0 /\ q.pc # "served"
      /\ q.kind = "first" /\ (q.mine => call[c].mine /\ list' = <<>>)
  BY DEF Asked, NoCall
<1>4. call' = [IF Served(c) THEN Outdated(c) ELSE call EXCEPT ![c] = q]
  BY DEF RefreshAnswered
<1> HIDE DEF q
<1>5. /\ call'[c] = q
      /\ \A k \in Calls : k # c =>
           /\ call'[k].pc = call[k].pc /\ call'[k].kind = call[k].kind
           /\ call'[k].mine = call[k].mine
           /\ call'[k].fresh => call[k].fresh /\ ~Served(c)
           /\ call'[k].after = call[k].after
      /\ NothingToCome' /\ AnswersAreWindows'
      /\ Served(c) => Window(db, list')
  BY <1>2, <1>3, <1>4, ListAnswered DEF store
<1>6. /\ mixed' = (mixed \/ (Served(c) /\ ~call[c].mine))
      /\ call[c].mine => Waits(c)
      /\ same' => view' = list' \/ (same /\ view' = view /\ list' = list)
  BY <1>2 DEF RefreshAnswered, Waits
<1>7. ListIsAWindow' /\ ViewIsTheList'
  BY <1>2, <1>5, <1>6 DEF Inv, ListIsAWindow, ViewIsTheList
<1>8. \A k \in Calls : /\ Waits(k)' => Waits(k)
                       /\ Waits(c)' => list' = <<>> /\ call[c].mine
                       /\ Continues(k)' => k # c /\ Continues(k) /\ ~Served(c)
  BY <1>2, <1>3, <1>5 DEF Waits, Continues
<1>9. OneListAtATime'
  <2>1. \A k \in Calls : call'[k].pc # "free" /\ call'[k].mine => page'
    BY <1>2, <1>3, <1>5 DEF Inv, OneListAtATime
  <2>2. \A k, l \in Calls : Waits(k)' /\ Waits(l)' => k = l
    BY <1>8 DEF Inv, OneListAtATime
  <2>3. ASSUME NEW k \in Calls, ~mixed', Waits(k)'
        PROVE  list' = <<>> /\ ~finished' /\ \A d \in Calls : ~Continues(d)'
    <3>1. list = <<>> /\ ~finished /\ \A d \in Calls : ~Continues(d)
      BY <1>6, <1>8, <2>3 DEF Inv, OneListAtATime
    <3>2. k = c \/ ~Served(c)
      BY <1>6, <1>8, <2>3 DEF Inv, OneListAtATime
    <3> QED
      BY <1>2, <1>8, <2>3, <3>1, <3>2
  <2> QED
    BY <2>1, <2>2, <2>3 DEF OneListAtATime
<1>10. OnePageAtATime'
  BY <1>2, <1>5, <1>6, <1>8 DEF Inv, OnePageAtATime
<1>11. ListIsComplete'
  BY <1>2, <1>6 DEF Inv, OneListAtATime, ListIsComplete
<1> QED
  BY <1>1, <1>5, <1>7, <1>9, <1>10, <1>11 DEF Inv

LEMMA MoreKeeps ==
  ASSUME Inv, NEW c \in Calls, MoreAnswered(c)
  PROVE  Inv'
<1> DEFINE t == call[c].docs
<1>1. TypeOK'
  BY AnswerTyped DEF Answer, Inv
<1>2. /\ UNCHANGED <<db, newest, page>>
      /\ list' = list \o t /\ mixed' = (mixed \/ ~call[c].fresh)
      /\ call[c].pc # "free" /\ call[c].kind = "more"
      /\ finished' = (finished \/ (page /\ Served(c) /\ t = <<>>))
      /\ same' => view' = list'
  BY DEF MoreAnswered, store, Answered, Inv, ViewIsTheList
<1>3. call'[c] = NoCall /\ \A k \in Calls : k # c => call'[k] = call[k]
  BY DEF MoreAnswered, Inv, TypeOK
<1>4. /\ t \in Seq(Dates) /\ list \in Seq(Dates) /\ db \in SUBSET Nat
      /\ Window(db, t) /\ (~Served(c) => t = <<>>)
      /\ Served(c) => Follows(db, t, call[c].after)
  BY <1>2 DEF Inv, TypeOK, Query, AnswersAreWindows
<1> HIDE DEF t
<1>5. ~mixed' => /\ ~mixed /\ Continues(c) /\ list # <<>> /\ call[c].after = Last(list)
                 /\ \A d \in Calls : Continues(d) => d = c
                 /\ Window(db, list)
  BY <1>2 DEF Continues, Inv, OnePageAtATime, ListIsAWindow
<1>6. ListIsAWindow' /\ ViewIsTheList'
  <2>1. ASSUME ~mixed'
        PROVE  Window(db, list \o t)
    <3>1. CASE Served(c)
      BY <1>4, <1>5, <2>1, <3>1, WindowGrows
    <3>2. CASE t = <<>>
      BY <1>4, <1>5, <2>1, <3>2, Appended
    <3> QED
      BY <1>4, <3>1, <3>2
  <2> QED
    BY <1>2, <2>1 DEF ListIsAWindow, ViewIsTheList
<1>7. NothingToCome'
  <2>1. Items(t) \subseteq 1 .. newest
    BY DEF Inv, NothingToCome, t
  <2>2. Items(list') \subseteq 1 .. newest
    BY <1>2, <1>4, <2>1, Appended DEF Inv, NothingToCome
  <2>3. NoCall.after = 0 /\ Items(NoCall.docs) = {} /\ newest \in Nat
    BY EmptyIsAWindow DEF NoCall, Inv, TypeOK
  <2> QED
    BY <1>2, <1>3, <2>2, <2>3 DEF Inv, NothingToCome
<1>8. AnswersAreWindows'
  BY <1>2, <1>3, EmptyIsAWindow DEF Inv, AnswersAreWindows, Served, NoCall
<1>9. \A k \in Calls : /\ Waits(k)' => Waits(k)
                       /\ Continues(k)' => k # c /\ Continues(k)
  BY <1>3 DEF Waits, Continues, NoCall
<1>10. OneListAtATime'
  BY <1>2, <1>3, <1>5, <1>9 DEF Inv, OneListAtATime, NoCall
<1>11. OnePageAtATime'
  BY <1>5, <1>9 DEF OnePageAtATime
<1>12. ListIsComplete'
  <2> SUFFICES ASSUME ~mixed', finished', NEW n \in db
               PROVE  n >= Last(list')
    BY <1>2 DEF ListIsComplete
  <2>1. Last(list) \in Nat /\ n \in Nat /\ (t # <<>> => Last(t) \in Nat /\ Last(t) \in Items(t))
    BY <1>4, <1>5, LastIsOne, DatesAreNumbers
  <2>2. CASE t = <<>>
    <3>1. list' = list
      BY <1>2, <1>4, <2>2, Appended
    <3>2. CASE finished
      BY <1>5, <3>1, <3>2 DEF Inv, ListIsComplete
    <3>3. CASE Served(c)
      BY <1>4, <1>5, <2>1, <2>2, <3>1, <3>3 DEF Follows
    <3> QED
      BY <1>2, <3>2, <3>3
  <2>3. CASE t # <<>>
    <3>1. n >= Last(list)
      BY <1>2, <1>5, <2>3 DEF Inv, ListIsComplete
    <3>2. Last(list') = Last(t) /\ Last(t) < Last(list)
      BY <1>2, <1>4, <1>5, <2>1, <2>3, Appended DEF Follows
    <3> QED
      BY <2>1, <2>3, <3>1, <3>2
  <2> QED
    BY <2>2, <2>3
<1> QED
  BY <1>1, <1>6, <1>7, <1>8, <1>10, <1>11, <1>12 DEF Inv

LEMMA InvKept == Inv /\ [Next]_vars => Inv'
<1> SUFFICES ASSUME Inv, [Next]_vars
             PROVE  Inv'
  OBVIOUS
<1>1. CASE UNCHANGED vars
  BY <1>1 DEF vars, store, flags, Inv, TypeOK, ListIsAWindow, ViewIsTheList, ListIsComplete,
     NothingToCome, AnswersAreWindows, Served, OneListAtATime, OnePageAtATime, Waits, Continues
<1> QED
  BY <1>1, StoreKeeps, UserKeeps, ServeKeeps, FirstKeeps, RefreshKeeps, MoreKeeps
     DEF Next, Answer

LEMMA InvInit == Init => Inv
<1> SUFFICES ASSUME Init
             PROVE  Inv
  OBVIOUS
<1>1. /\ newest \in Nat /\ list = <<>> /\ view = <<>> /\ ~same /\ ~finished
      /\ \A c \in Calls : call[c] = NoCall
  BY LimitsAssumption DEF Init
<1>2. NoCall.docs = <<>> /\ NoCall.after = 0 /\ NoCall.pc = "free"
  BY DEF NoCall
<1>3. ListIsAWindow /\ ViewIsTheList /\ ListIsComplete /\ NothingToCome
  BY <1>1, <1>2, EmptyIsAWindow DEF ListIsAWindow, ViewIsTheList, ListIsComplete, NothingToCome
<1>4. AnswersAreWindows /\ OneListAtATime /\ OnePageAtATime
  BY <1>1, <1>2, EmptyIsAWindow
     DEF AnswersAreWindows, Served, OneListAtATime, OnePageAtATime, Waits, Continues
<1> QED
  BY <1>3, <1>4, TypeInit DEF Inv

\* What the open page shows of an unmixed list is a gapless part of the
\* notifications that exist, for any limits, arrivals, failures and refreshes.
THEOREM ShownStaysAWindow == Spec => []ShownIsAWindow
<1>1. Inv => ShownIsAWindow
  BY DEF Inv, ListIsAWindow, ViewIsTheList, ShownIsAWindow, Shown
<1> QED
  BY <1>1, InvInit, InvKept, PTL DEF Spec

\* When the page stops asking for more there is nothing more.
THEOREM FinishedStaysComplete == Spec => []FinishedIsComplete
<1>1. Inv => FinishedIsComplete
  BY DEF Inv, ListIsComplete, ViewIsTheList, FinishedIsComplete, Shown
<1> QED
  BY <1>1, InvInit, InvKept, PTL DEF Spec

(* What spins. -------------------------------------------------------------*)

LEMMA SpinningInit == Init => SpinningIsAwaited
  BY DEF Init, SpinningIsAwaited

\* Nothing that is awaited goes, and no indicator rises, by a step that keeps the
\* kinds of the queries.
LEMMA SpinningStays ==
  ASSUME SpinningIsAwaited, page' => page, requesting' => requesting, loading' => loading,
         \A k \in Calls : call[k].pc # "free" =>
           /\ call'[k].pc # "free" /\ call'[k].kind = call[k].kind
           /\ page' => call'[k].mine = call[k].mine
  PROVE  SpinningIsAwaited'
  BY DEF SpinningIsAwaited, AwaitedMore, AwaitedFirst, Waits

LEMMA SpinningByUser ==
  ASSUME TypeOK, SpinningIsAwaited,
         Arrive \/ Vanish \/ Close \/ LoadNone
         \/ \E c \in Calls : Open(c) \/ Refresh(c) \/ LoadMore(c)
  PROVE  SpinningIsAwaited'
<1>1. CASE Arrive \/ Vanish \/ LoadNone
  BY <1>1, SpinningStays DEF Arrive, Vanish, LoadNone, flags
<1>2. CASE Close
  BY <1>2 DEF Close, SpinningIsAwaited
<1>3. ASSUME NEW c \in Calls, Open(c) PROVE SpinningIsAwaited'
  <2>1. call'[c] = Asked("first", 0) /\ ~requesting'
    BY <1>3, OutdatedIs DEF Open
  <2>2. Waits(c)' /\ call'[c].kind = "first"
    BY <2>1 DEF Waits, Asked
  <2> QED
    BY <2>1, <2>2 DEF SpinningIsAwaited, AwaitedFirst
<1>4. ASSUME NEW c \in Calls, Refresh(c) PROVE SpinningIsAwaited'
  BY <1>4 DEF Refresh, Scrollable, SpinningIsAwaited
<1>5. ASSUME NEW c \in Calls, LoadMore(c) PROVE SpinningIsAwaited'
  <2>1. call'[c] = Asked("more", Last(list)) /\ ~loading'
    BY <1>5 DEF LoadMore, Scrollable, TypeOK
  <2>2. call'[c].pc # "free" /\ call'[c].kind = "more"
    BY <2>1 DEF Asked
  <2> QED
    BY <2>1, <2>2 DEF SpinningIsAwaited, AwaitedMore
<1> QED
  BY <1>1, <1>2, <1>3, <1>4, <1>5

\* What the answer to a first query or a refresh leaves of the others.
LEMMA OthersStay ==
  ASSUME TypeOK, NEW c \in Calls, NEW q,
         call' = [IF Served(c) THEN Outdated(c) ELSE call EXCEPT ![c] = q]
  PROVE  /\ call'[c] = q
         /\ \A k \in Calls : k # c => /\ call'[k].pc = call[k].pc
                                      /\ call'[k].kind = call[k].kind
                                      /\ call'[k].mine = call[k].mine
<1>1. CASE Served(c)
  BY <1>1, OutdatedIs
<1>2. CASE ~Served(c)
  BY <1>2 DEF TypeOK
<1> QED
  BY <1>1, <1>2

LEMMA SpinningByAnswer ==
  ASSUME TypeOK, SpinningIsAwaited, NEW c \in Calls, Answer(c)
  PROVE  SpinningIsAwaited'
<1>1. CASE Serve(c)
  <2>0. /\ \A k \in Calls : k # c => call'[k] = call[k]
        /\ call'[c].kind = call[c].kind /\ call'[c].mine = call[c].mine
        /\ call'[c].pc # "free"
    BY <1>1 DEF Serve, TypeOK, Query
  <2>1. \A k \in Calls : call[k].pc # "free" =>
          /\ call'[k].pc # "free" /\ call'[k].kind = call[k].kind
          /\ call'[k].mine = call[k].mine
    BY <2>0
  <2> QED
    BY <1>1, <2>1, SpinningStays DEF Serve, flags
<1>2. CASE FirstAnswered(c)
  <2>1. /\ UNCHANGED <<page, requesting>> /\ call[c].kind = "first"
        /\ \/ call[c].mine /\ ~loading'
           \/ ~call[c].mine /\ UNCHANGED loading
    BY <1>2 DEF FirstAnswered, flags
  <2>2. \A k \in Calls : k # c => /\ call'[k].pc = call[k].pc
                                  /\ call'[k].kind = call[k].kind
                                  /\ call'[k].mine = call[k].mine
    BY <1>2, OthersStay DEF FirstAnswered
  <2> QED
    BY <2>1, <2>2 DEF SpinningIsAwaited, AwaitedMore, AwaitedFirst, Waits
<1>3. CASE RefreshAnswered(c)
  <2>1. UNCHANGED <<page, requesting, loading>> /\ call[c].kind = "refresh"
    BY <1>3 DEF RefreshAnswered, flags
  <2>2. \A k \in Calls : k # c => /\ call'[k].pc = call[k].pc
                                  /\ call'[k].kind = call[k].kind
                                  /\ call'[k].mine = call[k].mine
    BY <1>3, OthersStay DEF RefreshAnswered
  <2> QED
    BY <2>1, <2>2 DEF SpinningIsAwaited, AwaitedMore, AwaitedFirst, Waits
<1>4. CASE MoreAnswered(c)
  <2>1. /\ UNCHANGED <<page, loading>> /\ call[c].kind = "more"
        /\ requesting' = (requesting /\ ~page)
        /\ \A k \in Calls : k # c => call'[k] = call[k]
    BY <1>4 DEF MoreAnswered, TypeOK
  <2> QED
    BY <2>1 DEF SpinningIsAwaited, AwaitedFirst, Waits
<1> QED
  BY <1>1, <1>2, <1>3, <1>4 DEF Answer

LEMMA SpinningKept == TypeOK /\ SpinningIsAwaited /\ [Next]_vars => SpinningIsAwaited'
<1> SUFFICES ASSUME TypeOK, SpinningIsAwaited, [Next]_vars
             PROVE  SpinningIsAwaited'
  OBVIOUS
<1>1. CASE UNCHANGED vars
  BY <1>1, SpinningStays DEF vars, flags
<1> QED
  BY <1>1, SpinningByUser, SpinningByAnswer DEF Next

\* Whatever pages were opened and closed, and whichever queries failed, an
\* indicator of the open page stands for a query whose answer ends it.
THEOREM SpinningStaysAwaited == Spec => []SpinningIsAwaited
<1>1. Spec => []TypeOK
  BY ListTypeCorrect
<1> QED
  BY <1>1, SpinningInit, SpinningKept, PTL DEF Spec
===============================================================================
