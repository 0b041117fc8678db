----------------------------- MODULE MCSession -----------------------------
(* Instances of Session for TLC, and what the app's texts say of tracking. *)
EXTENDS Session

\* "only when you're on duty" (en.json): nobody's position is stored who is
\* not signed in on the phone.
TrackedOnDuty == tracker \in Emps => page # "login" /\ tab[front].viewer = tracker
=============================================================================
