---------------------------- MODULE MCLaunchArgs ----------------------------
(* Launches the MC modules choose their LaunchArgs from. *)
EXTENDS DocumentedClaims

Plain ==
  [keep_alive |-> FALSE, hidden |-> FALSE, preload |-> "none",
   background_run |-> FALSE, handles_relaunch |-> FALSE,
   use_prerendering |-> FALSE, window_type |-> "card"]

KeptAlive == [Plain EXCEPT !.keep_alive = TRUE, !.handles_relaunch = TRUE]

Hidden == [Plain EXCEPT !.hidden = TRUE]

Preloaded == [Plain EXCEPT !.preload = "full", !.use_prerendering = TRUE]

KeptAlivePreloaded == [KeptAlive EXCEPT !.preload = "partial"]

Background == [Plain EXCEPT !.background_run = TRUE]

Overlay == [Plain EXCEPT !.window_type = "overlay", !.background_run = TRUE]

=============================================================================
