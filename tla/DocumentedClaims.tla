-------------------------- MODULE DocumentedClaims --------------------------
(***************************************************************************)
(* What comments, log messages and declarations of the source say of it,   *)
(* and its code does not do. Each is checked by a run that finds it        *)
(* violated.                                                               *)
(***************************************************************************)
EXTENDS WebAppManager

\* WebAppBase::Relaunch says that a relaunch which has not been executed waits
\* until the page is loaded: it is forgotten only once the page has taken it,
\* as an event after its first frame or by navigating.
PendingRelaunchIsKept ==
  [][\A x \in Apps :
       apps[x].in_progress_relaunch /\ ~apps[x]'.in_progress_relaunch
         => \/ apps[x]'.page.has_been_shown
            \/ apps[x]'.page.request = "app"]_vars

\* SuspendWebPageMedia returns at once from a page that is_paused_ says is
\* "Already paused": the media of such a page are stopped.
PausedMediaAreStopped ==
  AllLive(LAMBDA a : a.page.is_paused => a.page.media_suspended)

=============================================================================
