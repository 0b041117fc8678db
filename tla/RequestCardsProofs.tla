-------------------------- MODULE RequestCardsProofs --------------------------
(****************************************************************************)
(* Theorems about RequestCards, for any requests, deletions under way and   *)
(* refusals, with and without a back button.                                *)
(****************************************************************************)
EXTENDS RequestCards, FiniteSetTheorems, TLAPS

(* The order of the column. -------------------------------------------------*)

\* The place of x among S, counted from the first.
Rank(S, x) == Cardinality({y \in S : y <= x})

\* A later start has a higher place.
LEMMA RankGrows ==
  ASSUME NEW S \in SUBSET Nat, IsFiniteSet(S), NEW x \in S, NEW y \in S, x < y
  PROVE  Rank(S, x) < Rank(S, y)
<1> DEFINE A == {z \in S : z <= x}
           B == {z \in S : z <= y}
<1>1. A \in SUBSET B /\ B \in SUBSET S /\ y \in B /\ y \notin A
  <2>1. x \in Nat /\ y \in Nat /\ \A z \in S : z \in Nat
    OBVIOUS
  <2>2. /\ \A z \in S : z <= x => z <= y
        /\ y <= y /\ ~(y <= x)
    BY <2>1
  <2> QED
    BY <2>2
<1>2. IsFiniteSet(B)
  BY <1>1, FS_Subset
<1>3. IsFiniteSet(A) /\ Cardinality(A) <= Cardinality(B) /\ A # B
  BY <1>1, <1>2, FS_Subset
<1>4. Cardinality(A) # Cardinality(B)
  BY <1>1, <1>2, <1>3, FS_Subset
<1>5. Cardinality(A) \in Nat /\ Cardinality(B) \in Nat
  BY <1>2, <1>3, FS_CardinalityType
<1> QED
  BY <1>3, <1>4, <1>5 DEF Rank

\* The places are those from one to the number of requests.
LEMMA RankIsAPlace ==
  ASSUME NEW S \in SUBSET Nat, IsFiniteSet(S), NEW x \in S
  PROVE  Rank(S, x) \in 1 .. Cardinality(S)
<1> DEFINE A == {z \in S : z <= x}
<1>1. A \in SUBSET S /\ x \in A
  OBVIOUS
<1>2. IsFiniteSet(A) /\ Cardinality(A) <= Cardinality(S)
  BY <1>1, FS_Subset
<1>3. Cardinality(A) \in Nat /\ Cardinality(S) \in Nat
  BY <1>2, FS_CardinalityType
<1>4. Cardinality(A) # 0
  BY <1>1, <1>2, FS_EmptySet
<1> QED
  BY <1>2, <1>3, <1>4 DEF Rank

\* Each place is taken.
LEMMA EachPlaceIsTaken ==
  ASSUME NEW S \in SUBSET Nat, IsFiniteSet(S), NEW i \in 1 .. Cardinality(S)
  PROVE  \E x \in S : Rank(S, x) = i
<1> DEFINE n == Cardinality(S)
           f == [x \in S |-> Rank(S, x)]
<1>1. n \in Nat
  BY FS_CardinalityType
<1>2. f \in [S -> 1 .. n]
  BY RankIsAPlace
<1>3. \A x, y \in S : f[x] = f[y] => x = y
  <2> SUFFICES ASSUME NEW x \in S, NEW y \in S, x # y
               PROVE  Rank(S, x) # Rank(S, y)
    OBVIOUS
  <2>1. x \in Nat /\ y \in Nat
    OBVIOUS
  <2>2. Rank(S, x) \in Int /\ Rank(S, y) \in Int
    BY RankIsAPlace, <1>1
  <2>3. CASE x < y
    BY <2>2, <2>3, RankGrows
  <2>4. CASE y < x
    BY <2>2, <2>4, RankGrows
  <2> QED
    BY <2>1, <2>3, <2>4
<1>4. f \in Injection(S, 1 .. n)
  BY <1>2, <1>3 DEF Injection, IsInjective
<1>5. IsFiniteSet(1 .. n) /\ Cardinality(1 .. n) = n
  BY <1>1, FS_Interval
<1>6. f \in Surjection(S, 1 .. n)
  BY <1>4, <1>5, FS_Injection
<1> QED
  BY <1>6 DEF Surjection

\* So the requests have an order, and InOrder is it.
LEMMA InOrderIs ==
  ASSUME NEW S \in SUBSET Nat, IsFiniteSet(S)
  PROVE  /\ InOrder(S) \in [1 .. Cardinality(S) -> S]
         /\ \A i, j \in DOMAIN InOrder(S) : i < j => InOrder(S)[i] < InOrder(S)[j]
<1> DEFINE n == Cardinality(S)
           s == [i \in 1 .. n |-> CHOOSE x \in S : Rank(S, x) = i]
<1>0. n \in Nat
  BY FS_CardinalityType
<1>1. \A i \in 1 .. n : s[i] \in S /\ Rank(S, s[i]) = i
  BY EachPlaceIsTaken
<1>2. s \in [1 .. n -> S]
  BY <1>1
<1>3. ASSUME NEW i \in 1 .. n, NEW j \in 1 .. n, i < j
      PROVE  s[i] < s[j]
  <2> DEFINE a == s[i]
             b == s[j]
  <2>1. a \in S /\ b \in S /\ Rank(S, a) = i /\ Rank(S, b) = j
    BY <1>1
  <2> HIDE DEF a, b
  <2>2. ~(b < a)
    BY <2>1, <1>3, <1>0, RankGrows
  <2>3. a # b
    BY <2>1, <1>3, <1>0
  <2>4. a < b
    BY <2>1, <2>2, <2>3
  <2> QED
    BY <2>4 DEF a, b
<1> HIDE DEF s
<1>4. \E t \in [1 .. n -> S] : \A i, j \in DOMAIN t : i < j => t[i] < t[j]
  BY <1>2, <1>3
<1> QED
  BY <1>4 DEF InOrder

\* A list given by its places is a sequence.
LEMMA PlacesMakeASequence ==
  ASSUME NEW T, NEW n \in Nat, NEW s \in [1 .. n -> T]
  PROVE  s \in Seq(T)
  OBVIOUS

\* What the column shows after a snapshot are requests.
LEMMA LocalIsAColumn ==
  ASSUME docs \subseteq Tasks
  PROVE  /\ Local \in Seq(Tasks)
         /\ \A i \in DOMAIN Local : Local[i] \in Tasks
<1> DEFINE S == docs \ Pending
<1>1. S \in SUBSET Nat /\ S \subseteq Tasks /\ IsFiniteSet(S)
  BY TasksAssumption, FS_Subset
<1>2. Cardinality(S) \in Nat
  BY <1>1, FS_CardinalityType
<1>3. Local \in [1 .. Cardinality(S) -> S]
  BY <1>1, InOrderIs DEF Local
<1>4. Local \in [1 .. Cardinality(S) -> Tasks]
  BY <1>1, <1>3
<1> QED
  BY <1>2, <1>4, PlacesMakeASequence

(* What lies above the tabs. ------------------------------------------------*)

\* There are three cases.
LEMMA RoutesAre ==
  ASSUME routes \in Routes
  PROVE  /\ OnTop("dialog") <=> routes = <<"dialog">>
         /\ OnTop("overlay") <=> routes = <<"dialog", "overlay">>
         /\ Covered <=> routes = <<"dialog", "overlay">>
         /\ routes \in Seq(Route)
<1>1. CASE routes = <<>>
  BY <1>1 DEF OnTop, Covered, ToSet, Last, Route
<1>2. CASE routes = <<"dialog">>
  BY <1>2 DEF OnTop, Covered, ToSet, Last, Route
<1>3. CASE routes = <<"dialog", "overlay">>
  <2>1. 2 \in DOMAIN routes /\ routes[2] = "overlay" /\ Len(routes) = 2
    BY <1>3
  <2> QED
    BY <1>3, <2>1 DEF OnTop, Covered, ToSet, Last, Route
<1> QED
  BY <1>1, <1>2, <1>3 DEF Routes

\* The overlay lies on the dialog, and goes first.
LEMMA Popped ==
  /\ Append(<<"dialog">>, "overlay") = <<"dialog", "overlay">>
  /\ Front(<<"dialog", "overlay">>) = <<"dialog">>
  /\ SubSeq(<<"dialog", "overlay">>, 1, 2 - 1) = <<"dialog">>
  /\ Len(<<"dialog", "overlay">>) = 2 /\ Len(<<"dialog">>) = 1
  /\ Len(<<>>) = 0
<1> DEFINE two == <<"dialog", "overlay">>
           one == <<"dialog">>
<1>1. /\ two \in Seq(Route) /\ Len(two) = 2 /\ two[1] = "dialog" /\ two[2] = "overlay"
      /\ one \in Seq(Route) /\ Len(one) = 1 /\ one[1] = "dialog"
      /\ Len(<<>>) = 0
  BY DEF Route
<1>2. Append(one, "overlay") = two
  <2>1. /\ Append(one, "overlay") \in Seq(Route) /\ Len(Append(one, "overlay")) = 2
        /\ Append(one, "overlay")[1] = "dialog" /\ Append(one, "overlay")[2] = "overlay"
    BY <1>1 DEF Route
  <2> HIDE DEF one, two
  <2> DEFINE s == Append(one, "overlay")
  <2>2. s \in Seq(Route) /\ Len(s) = Len(two) /\ \A i \in 1 .. Len(two) : s[i] = two[i]
    BY <1>1, <2>1
  <2> HIDE DEF s
  <2>3. s = two
    BY <1>1, <2>2
  <2> QED
    BY <2>3 DEF s
<1> HIDE DEF one, two
<1>3. /\ SubSeq(two, 1, 1) \in Seq(Route) /\ Len(SubSeq(two, 1, 1)) = 1
      /\ SubSeq(two, 1, 1)[1] = two[1]
  BY <1>1
<1>4. SubSeq(two, 1, 1) = one
  BY <1>1, <1>3
<1>5. Front(two) = one /\ SubSeq(two, 1, 2 - 1) = one
  BY <1>1, <1>4 DEF Front
<1> QED
  BY <1>1, <1>2, <1>5 DEF one, two

(* The invariant. -----------------------------------------------------------*)

Inv == /\ TypeOK /\ FlagsAreOfCalls /\ SweptHasFlag /\ DialogIsHeld
       /\ CallsHaveTasks /\ OverlayIsAwaited

\* It says what was to be said of swept cards.
LEMMA InvIsEnough == Inv => SweptWasConfirmed
<1> SUFFICES ASSUME Inv, NEW i \in DOMAIN shown, swept[i]
             PROVE  flag[i] # Nobody /\ Done(i)
  BY DEF SweptWasConfirmed
<1>1. flag[i] # Nobody
  BY DEF Inv, SweptHasFlag
<1>2. \/ flag[i] \notin docs
      \/ \E c \in Calls : call[c].pc = "sent" /\ call[c].task = flag[i] /\ call[c].at = i
      \/ <<i, flag[i]>> \in refused
  BY <1>1 DEF Inv, FlagsAreOfCalls
<1> QED
  BY <1>1, <1>2 DEF Done, Pending

\* At first nothing is flagged, swept or shown above the tabs.
LEMMA InvInit == Init => Inv
<1> SUFFICES ASSUME Init PROVE Inv
  OBVIOUS
<1>1. docs \subseteq Tasks /\ docs \in SUBSET Nat /\ IsFiniteSet(docs)
  BY TasksAssumption, FS_Subset DEF Init
<1>2. shown \in Seq(Tasks)
  <2>1. Cardinality(docs) \in Nat
    BY <1>1, FS_CardinalityType
  <2>2. shown \in [1 .. Cardinality(docs) -> docs]
    BY <1>1, InOrderIs DEF Init
  <2>3. shown \in [1 .. Cardinality(docs) -> Tasks]
    BY <1>1, <2>2
  <2> QED
    BY <2>1, <2>3, PlacesMakeASequence
<1>3. NoDialog \in Dialog /\ NoCall \in Deletion /\ routes \in Routes
  BY DEF NoDialog, Dialog, NoCall, Deletion, Init, Routes
<1>4. TypeOK
  BY <1>1, <1>2, <1>3, RoutesAre DEF Init, TypeOK
<1>5. FlagsAreOfCalls /\ SweptHasFlag /\ CallsHaveTasks
  BY DEF Init, FlagsAreOfCalls, SweptHasFlag, CallsHaveTasks, NoCall
<1>6. DialogIsHeld
  BY <1>3 DEF Init, DialogIsHeld, NoDialog, NoCall
<1>7. OverlayIsAwaited
  BY <1>3, RoutesAre DEF Init, OverlayIsAwaited
<1> QED
  BY <1>4, <1>5, <1>6, <1>7 DEF Inv

\* A request deleted elsewhere only makes a flag's task go.
LEMMA PortalDeletesKeeps == Inv /\ PortalDeletes => Inv'
<1> SUFFICES ASSUME Inv, PortalDeletes PROVE Inv'
  OBVIOUS
<1>1. docs' \subseteq docs
  BY DEF PortalDeletes
<1>2. UNCHANGED <<shown, flag, swept, dialog, routes, call, refused>>
  BY DEF PortalDeletes, cards
<1>3. TypeOK'
  BY <1>1, <1>2 DEF Inv, TypeOK
<1>4. FlagsAreOfCalls'
  BY <1>1, <1>2 DEF Inv, FlagsAreOfCalls
<1>5. SweptHasFlag' /\ DialogIsHeld' /\ CallsHaveTasks' /\ OverlayIsAwaited'
  BY <1>2 DEF Inv, SweptHasFlag, DialogIsHeld, CallsHaveTasks, OverlayIsAwaited, Covered
<1> QED
  BY <1>3, <1>4, <1>5 DEF Inv

\* A dialog that is about nothing.
LEMMA NoDialogIs ==
  /\ NoDialog \in Dialog
  /\ \A d \in Dialog : d.at = 0 /\ d.task = Nobody /\ ~d.held /\ ~d.kept => d = NoDialog
  BY DEF NoDialog, Dialog

\* A dialog over a column that changes keeps its state at most while its place
\* is there, and its Dismissible while its card is.
LEMMA MovedIs ==
  ASSUME TypeOK, NEW s, NEW all \in BOOLEAN
  PROVE  /\ Moved(s, all) \in Dialog
         /\ Moved(s, all).at = dialog.at /\ Moved(s, all).task = dialog.task
         /\ Moved(s, all).held => dialog.held /\ all /\ dialog.at \in DOMAIN s
         /\ Moved(s, all).kept => /\ dialog.kept /\ all /\ dialog.at \in DOMAIN s
                                  /\ s[dialog.at] = shown[dialog.at]
         /\ (dialog.kept => dialog.held) => (Moved(s, all).kept => Moved(s, all).held)
         /\ dialog = NoDialog => Moved(s, all) = NoDialog
<1>1. /\ Moved(s, all) \in Dialog
      /\ Moved(s, all).at = dialog.at /\ Moved(s, all).task = dialog.task
      /\ Moved(s, all).held => dialog.held /\ all /\ dialog.at \in DOMAIN s
      /\ Moved(s, all).kept => /\ dialog.kept /\ all /\ dialog.at \in DOMAIN s
                               /\ s[dialog.at] = shown[dialog.at]
      /\ (dialog.kept => dialog.held) => (Moved(s, all).kept => Moved(s, all).held)
  BY DEF TypeOK, Dialog, Moved
<1>2. ASSUME dialog = NoDialog
      PROVE  Moved(s, all) = NoDialog
  <2>1. ~dialog.held /\ ~dialog.kept /\ dialog.at = 0 /\ dialog.task = Nobody
    BY <1>2 DEF NoDialog
  <2> QED
    BY <1>1, <2>1, NoDialogIs
<1> QED
  BY <1>1, <1>2

\* The column is replaced; no place gets a flag, and none is swept that was not
\* swept and flagged before.
LEMMA ColumnKeeps ==
  ASSUME Inv, shown' = Local, NEW all \in BOOLEAN,
         flag' \in [DOMAIN Local -> Tasks \cup {Nobody}], swept' \in [DOMAIN Local -> BOOLEAN],
         \A i \in DOMAIN Local : flag'[i] # Nobody => i \in DOMAIN shown /\ flag'[i] = flag[i],
         \A i \in DOMAIN Local : swept'[i] => /\ i \in DOMAIN shown /\ swept[i]
                                              /\ flag'[i] = flag[i],
         dialog' = Moved(Local, all), UNCHANGED <<docs, routes, call, refused>>
  PROVE  Inv'
<1>1. TypeOK /\ DialogIsHeld /\ Local \in Seq(Tasks)
  BY LocalIsAColumn DEF Inv, TypeOK
<1>2. TypeOK'
  BY <1>1, MovedIs DEF TypeOK
<1>3. FlagsAreOfCalls'
  BY DEF Inv, FlagsAreOfCalls
<1>4. SweptHasFlag'
  BY DEF Inv, SweptHasFlag
<1>5. DialogIsHeld'
  <2>1. routes = <<>> => dialog' = NoDialog
    BY <1>1, MovedIs DEF DialogIsHeld
  <2> QED
    BY <1>1, <2>1, MovedIs DEF DialogIsHeld
<1>6. CallsHaveTasks' /\ OverlayIsAwaited'
  BY DEF Inv, CallsHaveTasks, OverlayIsAwaited, Covered
<1> QED
  BY <1>2, <1>3, <1>4, <1>5, <1>6 DEF Inv

\* A snapshot leaves the states at their places ...
LEMMA SnapshotKeeps == Inv /\ Snapshot => Inv'
<1> SUFFICES ASSUME Inv, Snapshot PROVE Inv'
  OBVIOUS
<1>1. \A i \in DOMAIN shown : flag[i] \in Tasks \cup {Nobody} /\ swept[i] \in BOOLEAN
  BY DEF Inv, TypeOK
<1>2. /\ flag' \in [DOMAIN Local -> Tasks \cup {Nobody}] /\ swept' \in [DOMAIN Local -> BOOLEAN]
      /\ \A i \in DOMAIN Local : flag'[i] # Nobody => i \in DOMAIN shown /\ flag'[i] = flag[i]
      /\ \A i \in DOMAIN Local : swept'[i] => /\ i \in DOMAIN shown /\ swept[i]
                                              /\ flag'[i] = flag[i]
  BY <1>1 DEF Snapshot
<1> QED
  BY <1>2, ColumnKeeps DEF Snapshot

\* ... and a calendar built anew has new ones.
LEMMA RebuildKeeps == Inv /\ Rebuild => Inv'
<1> SUFFICES ASSUME Inv, Rebuild PROVE Inv'
  OBVIOUS
<1>1. /\ flag' \in [DOMAIN Local -> Tasks \cup {Nobody}] /\ swept' \in [DOMAIN Local -> BOOLEAN]
      /\ \A i \in DOMAIN Local : flag'[i] = Nobody /\ ~swept'[i]
  BY DEF Rebuild
<1> QED
  BY <1>1, ColumnKeeps DEF Rebuild

(* The user. ----------------------------------------------------------------*)

\* A swipe opens the dialog for a card that is there and not swept.
LEMMA SwipeKeeps == Inv /\ (\E i \in DOMAIN shown : Swipe(i)) => Inv'
<1> SUFFICES ASSUME Inv, NEW i \in DOMAIN shown, Swipe(i) PROVE Inv'
  OBVIOUS
<1>1. /\ routes' = <<"dialog">>
      /\ dialog' = [at |-> i, task |-> shown[i], held |-> TRUE, kept |-> TRUE]
      /\ UNCHANGED <<docs, shown, flag, swept, call, refused>> /\ ~swept[i]
  BY DEF Swipe, cards
<1>2. i \in Nat /\ shown[i] \in Tasks /\ routes' \in Routes /\ routes' \in Seq(Route)
  BY <1>1 DEF Inv, TypeOK, Routes, Route
<1>3. dialog' \in Dialog
  BY <1>1, <1>2 DEF Dialog
<1>4. TypeOK'
  BY <1>1, <1>2, <1>3 DEF Inv, TypeOK
<1>5. FlagsAreOfCalls' /\ SweptHasFlag' /\ CallsHaveTasks'
  BY <1>1 DEF Inv, FlagsAreOfCalls, SweptHasFlag, CallsHaveTasks
<1>6. DialogIsHeld'
  BY <1>1, <1>2 DEF DialogIsHeld
<1>7. ~Covered'
  <2>1. routes'[1] = "dialog" /\ DOMAIN routes' = {1}
    BY <1>1
  <2> QED
    BY <2>1 DEF Covered, ToSet
<1> QED
  BY <1>4, <1>5, <1>6, <1>7 DEF Inv, OverlayIsAwaited

\* Who confirms or cancels writes the flag of the dialog's state only.
LEMMA SaysIs ==
  ASSUME Inv, NEW who \in Tasks \cup {Nobody}
  PROVE  /\ Says(who) \in [DOMAIN shown -> Tasks \cup {Nobody}]
         /\ \A i \in DOMAIN shown :
              Says(who)[i] = IF dialog.held /\ i = dialog.at THEN who ELSE flag[i]
         /\ dialog.held => dialog.at \in DOMAIN shown
  BY DEF Inv, TypeOK, DialogIsHeld, Says

\* Confirm sends the deletion that its flag is of.
LEMMA ConfirmKeeps == ASSUME NEW c \in Calls PROVE Inv /\ Confirm(c) => Inv'
<1> SUFFICES ASSUME Inv, Confirm(c) PROVE Inv'
  OBVIOUS
<1>1. /\ flag' = Says(dialog.task) /\ routes' = Append(routes, "overlay")
      /\ call' = [call EXCEPT ![c] = [pc |-> "sent", task |-> dialog.task,
                                    at |-> dialog.at, live |-> TRUE]]
      /\ UNCHANGED <<docs, shown, swept, dialog, refused>>
      /\ OnTop("dialog") /\ call[c].pc = "free"
  BY DEF Confirm
<1>2. routes = <<"dialog">> /\ routes' = <<"dialog", "overlay">>
  BY <1>1, RoutesAre, Popped DEF Inv, DialogIsHeld
<1>3. routes' \in Routes /\ routes' \in Seq(Route)
  BY <1>2 DEF Routes, Route
<1>4. dialog.task \in Tasks /\ dialog.task # Nobody /\ dialog.at \in Nat
  BY <1>2, TasksAssumption DEF Inv, TypeOK, Dialog, DialogIsHeld, Nobody
<1>5. /\ call'[c].pc = "sent" /\ call'[c].task = dialog.task
      /\ call'[c].at = dialog.at /\ call'[c].live
      /\ \A d \in Calls \ {c} : call'[d] = call[d]
  BY <1>1 DEF Inv, TypeOK
<1>6. TypeOK'
  <2>1. call' \in [Calls -> Deletion]
    BY <1>1, <1>4 DEF Inv, TypeOK, Deletion
  <2> QED
    BY <1>1, <1>3, <1>4, <2>1, SaysIs DEF Inv, TypeOK
<1>7. FlagsAreOfCalls'
  <2> SUFFICES ASSUME NEW i \in DOMAIN shown, flag'[i] # Nobody
               PROVE  \/ flag'[i] \notin docs
                      \/ \E d \in Calls : /\ call'[d].pc = "sent" /\ call'[d].task = flag'[i]
                                          /\ call'[d].at = i
                      \/ <<i, flag'[i]>> \in refused
    BY <1>1 DEF FlagsAreOfCalls
  <2>1. CASE dialog.held /\ i = dialog.at
    BY <1>1, <1>4, <1>5, <2>1, SaysIs
  <2>2. CASE ~(dialog.held /\ i = dialog.at)
    <3>1. flag'[i] = flag[i]
      BY <1>1, <1>4, <2>2, SaysIs
    <3> QED
      BY <1>1, <1>5, <3>1 DEF Inv, FlagsAreOfCalls
  <2> QED
    BY <2>1, <2>2
<1>8. SweptHasFlag'
  BY <1>1, <1>4, SaysIs DEF Inv, SweptHasFlag, DialogIsHeld
<1>9. DialogIsHeld' /\ CallsHaveTasks'
  BY <1>1, <1>2, <1>3, <1>4, <1>5 DEF Inv, DialogIsHeld, CallsHaveTasks
<1>10. OverlayIsAwaited'
  BY <1>5 DEF OverlayIsAwaited
<1> QED
  BY <1>6, <1>7, <1>8, <1>9, <1>10 DEF Inv

\* What confirmDismiss does when the dialog goes, by a cancellation (which
\* takes its flag back), a tap beside it or an answer (which leave the flags).
LEMMA DialogGoneKeeps ==
  ASSUME Inv, routes' = <<>>, NEW says \in [DOMAIN shown -> Tasks \cup {Nobody}],
         DialogGone(says),
         \A i \in DOMAIN shown : \/ says[i] = flag[i]
                                 \/ says[i] = Nobody /\ dialog.held /\ i = dialog.at,
         refused' \subseteq refused,
         \A i \in DOMAIN shown :
           says[i] # Nobody /\ <<i, says[i]>> \in refused => <<i, says[i]>> \in refused',
         call' \in [Calls -> Deletion],
         \A d \in Calls : /\ call[d].pc = "sent" =>
                               /\ call'[d].pc = "sent" /\ call'[d].task = call[d].task
                               /\ call'[d].at = call[d].at
                          /\ call'[d].pc # "free" => call'[d].task \in Tasks
                          /\ ~call'[d].live,
         UNCHANGED <<docs, shown>>
  PROVE  Inv'
<1>1. /\ dialog' = NoDialog /\ flag' = says
      /\ swept' = IF dialog.kept THEN [swept EXCEPT ![dialog.at] = says[dialog.at] # Nobody]
                  ELSE swept
  BY DEF DialogGone
<1>2. /\ routes' \in Routes /\ routes' \in Seq(Route)
      /\ NoDialog \in Dialog /\ ~NoDialog.held /\ ~NoDialog.kept
  BY NoDialogIs DEF Routes, NoDialog
<1>3. dialog.kept => dialog.held
  BY DEF Inv, DialogIsHeld
<1>4. /\ swept' \in [DOMAIN shown -> BOOLEAN]
      /\ \A i \in DOMAIN shown : swept'[i] =>
           \/ says[i] # Nobody
           \/ swept[i] /\ ~(dialog.held /\ i = dialog.at)
  <2>1. swept \in [DOMAIN shown -> BOOLEAN] /\ (dialog.held => ~swept[dialog.at])
    BY DEF Inv, TypeOK, DialogIsHeld
  <2>2. CASE dialog.kept
    BY <1>1, <1>3, <2>1, <2>2
  <2>3. CASE ~dialog.kept
    BY <1>1, <2>1, <2>3
  <2> QED
    BY <2>2, <2>3
<1>5. TypeOK'
  BY <1>1, <1>2, <1>4 DEF Inv, TypeOK
<1>6. FlagsAreOfCalls'
  <2> SUFFICES ASSUME NEW i \in DOMAIN shown, says[i] # Nobody
               PROVE  \/ says[i] \notin docs
                      \/ \E d \in Calls : /\ call'[d].pc = "sent" /\ call'[d].task = says[i]
                                          /\ call'[d].at = i
                      \/ <<i, says[i]>> \in refused'
    BY <1>1 DEF FlagsAreOfCalls
  <2>1. says[i] = flag[i]
    OBVIOUS
  <2> QED
    BY <2>1 DEF Inv, FlagsAreOfCalls
<1>7. SweptHasFlag'
  <2> SUFFICES ASSUME NEW i \in DOMAIN shown, swept'[i]
               PROVE  says[i] # Nobody
    BY <1>1 DEF SweptHasFlag
  <2>1. CASE swept[i] /\ ~(dialog.held /\ i = dialog.at)
    BY <2>1 DEF Inv, SweptHasFlag
  <2> QED
    BY <1>4, <2>1
<1>8. DialogIsHeld' /\ CallsHaveTasks'
  BY <1>1, <1>2 DEF DialogIsHeld, CallsHaveTasks
<1>9. OverlayIsAwaited'
  BY DEF OverlayIsAwaited, Covered, ToSet
<1> QED
  BY <1>5, <1>6, <1>7, <1>8, <1>9 DEF Inv

\* The dialog's deletions are answered to nobody from then on.
LEMMA CallsGoOn ==
  ASSUME Inv, call' = [c \in Calls |-> [call[c] EXCEPT !.live = FALSE]]
  PROVE  /\ call' \in [Calls -> Deletion]
         /\ \A d \in Calls : /\ call'[d].pc = call[d].pc /\ call'[d].task = call[d].task
                             /\ call'[d].at = call[d].at /\ ~call'[d].live
                             /\ call'[d].pc # "free" => call'[d].task \in Tasks
<1>1. /\ call' \in [Calls -> Deletion]
      /\ \A d \in Calls : /\ call'[d].pc = call[d].pc /\ call'[d].task = call[d].task
                          /\ call'[d].at = call[d].at /\ ~call'[d].live
  BY DEF Inv, TypeOK, Deletion
<1> QED
  BY <1>1 DEF Inv, CallsHaveTasks

LEMMA CancelKeeps == Inv /\ Cancel => Inv'
<1> SUFFICES ASSUME Inv, Cancel PROVE Inv'
  OBVIOUS
<1> DEFINE says == Says(Nobody)
<1>1. /\ says \in [DOMAIN shown -> Tasks \cup {Nobody}]
      /\ \A i \in DOMAIN shown : says[i] = IF dialog.held /\ i = dialog.at
                                           THEN Nobody ELSE flag[i]
  BY SaysIs
<1>2. /\ routes' = <<>> /\ DialogGone(says) /\ UNCHANGED <<docs, shown>>
      /\ refused' = Forgiven /\ call' = [c \in Calls |-> [call[c] EXCEPT !.live = FALSE]]
  BY DEF Cancel
<1> HIDE DEF says
<1>3. /\ refused' \subseteq refused
      /\ \A i \in DOMAIN shown :
           says[i] # Nobody /\ <<i, says[i]>> \in refused => <<i, says[i]>> \in refused'
  BY <1>1, <1>2 DEF Forgiven
<1> QED
  BY <1>1, <1>2, <1>3, CallsGoOn, DialogGoneKeeps

LEMMA TapOutsideKeeps == Inv /\ TapOutside => Inv'
<1> SUFFICES ASSUME Inv, TapOutside PROVE Inv'
  OBVIOUS
<1>1. flag \in [DOMAIN shown -> Tasks \cup {Nobody}]
  BY DEF Inv, TypeOK
<1>2. /\ routes' = <<>> /\ DialogGone(flag) /\ UNCHANGED <<docs, shown, refused>>
      /\ call' = [c \in Calls |-> [call[c] EXCEPT !.live = FALSE]]
  BY DEF TapOutside
<1> QED
  BY <1>1, <1>2, CallsGoOn, DialogGoneKeeps

\* The back button uncovers the dialog.
LEMMA BackKeeps == Inv /\ BackFromOverlay => Inv'
<1> SUFFICES ASSUME Inv, BackFromOverlay PROVE Inv'
  OBVIOUS
<1>1. OnTop("overlay") /\ routes' = Front(routes)
      /\ UNCHANGED <<docs, shown, flag, swept, dialog, call, refused>>
  BY DEF BackFromOverlay, cards
<1>2. routes = <<"dialog", "overlay">> /\ routes' = <<"dialog">>
  BY <1>1, RoutesAre, Popped DEF Inv, DialogIsHeld
<1>3. routes' \in Routes /\ routes' \in Seq(Route) /\ ~Covered'
  BY <1>2 DEF Routes, Route, Covered, ToSet
<1>4. routes # <<>> /\ routes' # <<>>
  BY <1>2
<1>5. TypeOK' /\ FlagsAreOfCalls' /\ SweptHasFlag' /\ CallsHaveTasks'
  BY <1>1, <1>3 DEF Inv, TypeOK, FlagsAreOfCalls, SweptHasFlag, CallsHaveTasks
<1>6. DialogIsHeld'
  BY <1>1, <1>3, <1>4 DEF Inv, DialogIsHeld
<1> QED
  BY <1>3, <1>5, <1>6 DEF Inv, OverlayIsAwaited

(* The answers. -------------------------------------------------------------*)

\* A deletion done makes its task go, one refused is remembered: either way the
\* flag that was of the deletion is accounted for.
LEMMA ServeKeeps == ASSUME NEW c \in Calls PROVE Inv /\ Serve(c) => Inv'
<1> SUFFICES ASSUME Inv, Serve(c) PROVE Inv'
  OBVIOUS
<1>1. call[c].pc = "sent" /\ UNCHANGED <<shown, flag, swept, dialog, routes>>
  BY DEF Serve, cards
<1>2. call[c] \in Deletion /\ call[c].task \in Tasks /\ call[c].at \in Nat
  BY <1>1 DEF Inv, TypeOK, Deletion, CallsHaveTasks
<1>3. PICK pc \in {"deleted", "refused"} : call' = [call EXCEPT ![c].pc = pc]
  BY DEF Serve
<1>4. /\ call' \in [Calls -> Deletion] /\ call'[c].pc \in {"deleted", "refused"}
      /\ \A d \in Calls : /\ call'[d].task = call[d].task /\ call'[d].at = call[d].at
                          /\ call'[d].live = call[d].live
                          /\ d # c => call'[d] = call[d]
  <2>1. [call[c] EXCEPT !.pc = pc] \in Deletion
    BY <1>2 DEF Deletion
  <2>2. call \in [Calls -> Deletion]
    BY DEF Inv, TypeOK
  <2> QED
    BY <1>2, <1>3, <2>1, <2>2 DEF Deletion
<1>5. /\ docs' \subseteq docs /\ refused \subseteq refused'
      /\ refused' \subseteq refused \cup {<<call[c].at, call[c].task>>}
      /\ call[c].task \notin docs' \/ <<call[c].at, call[c].task>> \in refused'
  BY DEF Serve
<1>6. TypeOK'
  BY <1>1, <1>2, <1>4, <1>5 DEF Inv, TypeOK
<1>7. FlagsAreOfCalls'
  <2> SUFFICES ASSUME NEW i \in DOMAIN shown, flag[i] # Nobody
               PROVE  \/ flag[i] \notin docs'
                      \/ \E d \in Calls : /\ call'[d].pc = "sent" /\ call'[d].task = flag[i]
                                          /\ call'[d].at = i
                      \/ <<i, flag[i]>> \in refused'
    BY <1>1 DEF FlagsAreOfCalls
  <2>1. CASE flag[i] \notin docs \/ <<i, flag[i]>> \in refused
    BY <1>5, <2>1
  <2>2. ASSUME NEW d \in Calls,
               call[d].pc = "sent" /\ call[d].task = flag[i] /\ call[d].at = i
        PROVE  \/ flag[i] \notin docs'
               \/ call'[d].pc = "sent" /\ call'[d].task = flag[i] /\ call'[d].at = i
               \/ <<i, flag[i]>> \in refused'
    <3>1. CASE d = c
      BY <1>5, <2>2, <3>1
    <3>2. CASE d # c
      BY <1>4, <2>2, <3>2
    <3> QED
      BY <3>1, <3>2
  <2> QED
    BY <2>1, <2>2 DEF Inv, FlagsAreOfCalls
<1>8. SweptHasFlag' /\ DialogIsHeld' /\ CallsHaveTasks'
  <2>1. \A d \in Calls : call'[d].pc # "free" => call'[d].task \in Tasks
    BY <1>2, <1>4 DEF Inv, CallsHaveTasks
  <2> QED
    BY <1>1, <1>4, <2>1 DEF Inv, SweptHasFlag, DialogIsHeld, CallsHaveTasks
<1>9. OverlayIsAwaited'
  <2>1. \A d \in Calls : call[d].pc # "free" /\ call[d].live
                         => call'[d].pc # "free" /\ call'[d].live
    BY <1>4
  <2> QED
    BY <1>1, <2>1 DEF Inv, OverlayIsAwaited, Covered
<1> QED
  BY <1>6, <1>7, <1>8, <1>9 DEF Inv

\* An answered deletion is over; no flag rests on it.
LEMMA CallIsOver ==
  ASSUME Inv, NEW c \in Calls, call[c].pc \in {"deleted", "refused"},
         call' = [call EXCEPT ![c] = NoCall]
  PROVE  /\ call' \in [Calls -> Deletion]
         /\ call'[c].pc = "free" /\ ~call'[c].live
         /\ \A d \in Calls : d # c => call'[d] = call[d]
         /\ CallsHaveTasks'
<1>1. NoCall \in Deletion /\ NoCall.pc = "free" /\ ~NoCall.live
  BY DEF NoCall, Deletion
<1>2. /\ call' \in [Calls -> Deletion] /\ call'[c] = NoCall
      /\ \A d \in Calls : d # c => call'[d] = call[d]
  BY <1>1 DEF Inv, TypeOK
<1> QED
  BY <1>1, <1>2 DEF Inv, CallsHaveTasks

LEMMA AnsweredKeeps == ASSUME NEW c \in Calls PROVE Inv /\ Answered(c) => Inv'
<1> SUFFICES ASSUME Inv, Answered(c) PROVE Inv'
  OBVIOUS
<1>0. call[c].pc \in {"deleted", "refused"} /\ UNCHANGED <<docs, shown, refused>>
      /\ Pops(c) \in {1, 2}
  BY DEF Answered, Pops
<1>1. CASE /\ call' = [call EXCEPT ![c] = NoCall] /\ UNCHANGED <<flag, swept, dialog>>
           /\ \/ ~call[c].live /\ UNCHANGED routes
              \/ /\ call[c].live /\ Pops(c) < Len(routes)
                 /\ routes' = SubSeq(routes, 1, Len(routes) - Pops(c))
  <2>1. /\ call' \in [Calls -> Deletion] /\ call'[c].pc = "free" /\ ~call'[c].live
        /\ \A d \in Calls : d # c => call'[d] = call[d]
        /\ CallsHaveTasks'
    BY <1>0, <1>1, CallIsOver
  <2>2. \/ ~call[c].live /\ routes' = routes
        \/ routes # <<>> /\ routes' = <<"dialog">>
    <3>1. CASE routes = <<>>
      BY <1>0, <1>1, <3>1, Popped
    <3>2. CASE routes = <<"dialog">>
      BY <1>0, <1>1, <3>2, Popped
    <3>3. CASE routes = <<"dialog", "overlay">>
      <4>1. routes # <<>> /\ Len(routes) = 2
        BY <3>3, Popped
      <4>2. CASE call[c].live
        <5>1. Pops(c) = 1
          BY <1>0, <1>1, <4>1, <4>2
        <5>2. routes' = SubSeq(<<"dialog", "overlay">>, 1, 2 - 1)
          BY <1>1, <3>3, <4>1, <4>2, <5>1
        <5> QED
          BY <4>1, <5>2, Popped
      <4> QED
        BY <1>1, <4>2
    <3> QED
      BY <3>1, <3>2, <3>3 DEF Inv, DialogIsHeld, Routes
  <2>3. /\ <<"dialog">> \in Routes /\ <<"dialog">> \in Seq(Route) /\ <<"dialog">> # <<>>
        /\ "overlay" \notin ToSet(<<"dialog">>)
    BY DEF Routes, Route, ToSet
  <2>4. TypeOK'
    BY <1>0, <1>1, <2>1, <2>2, <2>3 DEF Inv, TypeOK
  <2>5. FlagsAreOfCalls' /\ SweptHasFlag'
    <3>1. \A d \in Calls : call[d].pc = "sent" => call'[d] = call[d]
      BY <1>0, <2>1
    <3> QED
      BY <1>0, <1>1, <3>1 DEF Inv, FlagsAreOfCalls, SweptHasFlag
  <2>6. DialogIsHeld'
    <3>1. \A d \in Calls : call'[d].live => call[d].live
      BY <2>1
    <3> QED
      BY <1>0, <1>1, <2>2, <2>3, <3>1 DEF Inv, DialogIsHeld
  <2>7. OverlayIsAwaited'
    <3>1. CASE ~call[c].live /\ routes' = routes
      <4>1. \A d \in Calls : call[d].live => call'[d] = call[d]
        BY <2>1, <3>1
      <4> QED
        BY <3>1, <4>1 DEF Inv, OverlayIsAwaited, Covered
    <3>2. CASE routes' = <<"dialog">>
      BY <2>3, <3>2 DEF OverlayIsAwaited, Covered
    <3> QED
      BY <2>2, <3>1, <3>2
  <2> QED
    BY <2>1, <2>4, <2>5, <2>6, <2>7 DEF Inv
<1>2. CASE /\ routes' = <<>> /\ DialogGone(flag)
           /\ call' = [d \in Calls |-> IF d = c THEN NoCall
                                       ELSE [call[d] EXCEPT !.live = FALSE]]
  <2>1. NoCall \in Deletion /\ NoCall.pc = "free" /\ ~NoCall.live
    BY DEF NoCall, Deletion
  <2>2. /\ call' \in [Calls -> Deletion] /\ call'[c] = NoCall
        /\ \A d \in Calls : d # c => /\ call'[d].pc = call[d].pc /\ ~call'[d].live
                                     /\ call'[d].task = call[d].task
                                     /\ call'[d].at = call[d].at
    BY <1>2, <2>1 DEF Inv, TypeOK, Deletion
  <2>3. \A d \in Calls : /\ call[d].pc = "sent" =>
                              /\ call'[d].pc = "sent" /\ call'[d].task = call[d].task
                              /\ call'[d].at = call[d].at
                         /\ call'[d].pc # "free" => call'[d].task \in Tasks
                         /\ ~call'[d].live
    BY <1>0, <2>1, <2>2 DEF Inv, CallsHaveTasks
  <2>4. flag \in [DOMAIN shown -> Tasks \cup {Nobody}]
    BY DEF Inv, TypeOK
  <2> QED
    BY <1>0, <1>2, <2>2, <2>3, <2>4, DialogGoneKeeps
<1> QED
  BY <1>1, <1>2 DEF Answered

(* The theorems. ------------------------------------------------------------*)

LEMMA InvKept == Inv /\ [Next]_vars => Inv'
<1> SUFFICES ASSUME Inv, [Next]_vars PROVE Inv'
  OBVIOUS
<1>1. CASE PortalDeletes \/ Snapshot \/ Rebuild
  BY <1>1, PortalDeletesKeeps, SnapshotKeeps, RebuildKeeps
<1>2. CASE (\E i \in DOMAIN shown : Swipe(i)) \/ Cancel \/ TapOutside \/ BackFromOverlay
  BY <1>2, SwipeKeeps, CancelKeeps, TapOutsideKeeps, BackKeeps
<1>3. CASE \E c \in Calls : Confirm(c) \/ Serve(c) \/ Answered(c)
  BY <1>3, ConfirmKeeps, ServeKeeps, AnsweredKeeps
<1>4. CASE UNCHANGED vars
  BY <1>4 DEF vars, cards, Inv, TypeOK, FlagsAreOfCalls, SweptHasFlag, DialogIsHeld,
     CallsHaveTasks, OverlayIsAwaited, Covered
<1> QED
  BY <1>1, <1>2, <1>3, <1>4 DEF Next

\* Every variable keeps its type: a state for each card that is shown, in the
\* order of the requests, whatever snapshots, refusals and rebuilds come.
THEOREM CardsTypeCorrect == Spec => []TypeOK
<1>1. Inv => TypeOK
  BY DEF Inv
<1> QED
  BY <1>1, InvInit, InvKept, PTL DEF Spec

\* A card is swept away only at a place where a deletion was confirmed that is
\* done, on its way, or refused and not cancelled since.
THEOREM SweptStaysConfirmed == Spec => []SweptWasConfirmed
  BY InvIsEnough, InvInit, InvKept, PTL DEF Spec

\* The overlay is on the screen only while an answer is on its way that will
\* take it off.
THEOREM OverlayStaysAwaited == Spec => []OverlayIsAwaited
<1>1. Inv => OverlayIsAwaited
  BY DEF Inv
<1> QED
  BY <1>1, InvInit, InvKept, PTL DEF Spec

===============================================================================
