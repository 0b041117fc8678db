---------------------------- MODULE MCRequestCards ----------------------------
(* Instances of RequestCards for TLC, and what the code says of a swept card. *)
EXTENDS RequestCards

\* onDismissed of a card swiped away says "Item deleted".  A card that was moved
\* to the place of a deleted one is swept away by a tap beside its dialog.
SweptIsDeleted ==
  \A i \in DOMAIN shown : swept[i] => shown[i] \notin docs \ Pending
=============================================================================
