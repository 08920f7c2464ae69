------------------------------- MODULE Timer -------------------------------
(***************************************************************************)
(* The timers of util/timer.h, as functions on a timer record.             *)
(*                                                                         *)
(*   is_running   Timer::is_running_                                       *)
(*   armed        the GLib source that source_id_ names is in the main     *)
(*                loop                                                     *)
(*   leaked       sources still in the main loop whose id was overwritten  *)
(*                by a later Start: nothing can remove them any more       *)
(*                                                                         *)
(* An id that names a source GLib has already removed counts as not armed: *)
(* removing it again only logs a GLib warning.                             *)
(***************************************************************************)
EXTENDS Naturals

TimerType == [is_running : BOOLEAN, armed : BOOLEAN, leaked : Nat]

NewTimer == [is_running |-> FALSE, armed |-> FALSE, leaked |-> 0]

\* Timer::Start adds a source and overwrites source_id_, whether or not the
\* source it named is still in the main loop.
Start(t) ==
  [is_running |-> TRUE,
   armed      |-> TRUE,
   leaked     |-> IF t.armed THEN t.leaked + 1 ELSE t.leaked]

\* Timer::Stop removes the source source_id_ names, and only that one.
Stop(t) == [t EXCEPT !.is_running = FALSE, !.armed = FALSE]

\* The destructor of BaseTimer, and every caller that asks IsRunning first.
StopIfRunning(t) == IF t.is_running THEN Stop(t) ELSE t

\* A one-shot source fires: HandleCallback clears is_running_ before it calls
\* the receiver, whichever source it was, and GLib drops the source that fired.
CanFire(t) == t.armed \/ t.leaked > 0

\* Mutant of Fired: any source that fires is taken for one that was lost.
FiredLosesCount(t) == [t EXCEPT !.is_running = FALSE, !.leaked = @ - 1]

Fired(t) ==
  IF t.leaked > 0
    THEN [t EXCEPT !.is_running = FALSE, !.leaked = @ - 1]
    ELSE [t EXCEPT !.is_running = FALSE, !.armed = FALSE]

=============================================================================
