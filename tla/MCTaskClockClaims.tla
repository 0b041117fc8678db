------------------------- MODULE MCTaskClockClaims -------------------------
(* What the repository's texts say of clocking in and out, for TLC. *)
EXTENDS TaskClock

CONSTANT BeforeIn  \* settings.before_clock_in_hour, which no handler reads

\* The detail page tells the user of a Done task, instead of a button, that
\* "This task is already done." (done_task): nothing takes Done away again.
\* A second tap of the sheet's Confirm, answered after the clock-out, does.
DoneIsFinal == [][doc.status = "done" => doc'.status = "done"]_vars

\* The release notes promise a "setting hour for clock-in / clock-out from
\* admin configuration": no clock-in earlier than so many hours before the
\* start.  The clock-in handlers and buttons look at the day only.
ClockInHourHolds == doc.at # NoTime => doc.at >= doc.start - BeforeIn * Hour
=============================================================================
