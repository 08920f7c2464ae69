------------------------------- MODULE WebApp -------------------------------
(***************************************************************************)
(* WebAppBase and WebAppWayland: an app, its window and its page, as       *)
(* functions on an app record. The methods that reach the registry of apps *)
(* (CloseAppInternal, CloseWebApp) are actions of WebAppManager.           *)
(*                                                                         *)
(* host_state is the window state the compositor reports; NATIVE_WINDOW_   *)
(* MAXIMIZED is treated as fullscreen everywhere in the source and is not  *)
(* kept apart. in_progress_relaunch tells whether the two strings that     *)
(* back up a relaunch hold one. The window's title, keys, cursor, focus    *)
(* and regions are left out.                                               *)
(***************************************************************************)
EXTENDS WebPage

CONSTANTS
  AppIds,      \* application ids
  Instances    \* instance ids the application manager hands out

ASSUME NamesAssumption == AppIds # {} /\ Instances # {}

\* kNonePreload; the two states that suspend the page's media (semi-full and
\* partial); the two that only mark it (full and minimal).
PreloadStates == {"none", "partial", "full"}

\* What the arguments of a relaunch ask for: an event in the page, a navigation
\* (a service worker's openWindow, a hosted app's deep link), or nothing at all
\* because they carry "preload" or "launchedHidden".
RelaunchKinds == {"event", "navigate", "ignore"}

\* The ones that reach the page.
PageRelaunchKinds == {"event", "navigate"}

HostStates == {"default", "fullscreen", "minimized"}

WindowTypes == {"card", "overlay"}

\* What a launch fixes of an app: its description and its arguments.
LaunchType ==
  [keep_alive : BOOLEAN, hidden : BOOLEAN, preload : PreloadStates,
   background_run : BOOLEAN, handles_relaunch : BOOLEAN,
   use_prerendering : BOOLEAN, window_type : WindowTypes]

Statuses == {"none", "live", "freed"}

WebAppType ==
  [status : Statuses, app_id : AppIds, instance_id : Instances,
   window_type : WindowTypes, handles_relaunch : BOOLEAN,
   use_prerendering : BOOLEAN,
   keep_alive : BOOLEAN, force_close : BOOLEAN, hidden_window : BOOLEAN,
   added_to_window_mgr : BOOLEAN, crashed : BOOLEAN, need_reload : BOOLEAN,
   preload_state : PreloadStates, close_page_requested : BOOLEAN,
   in_progress_relaunch : BOOLEAN,
   did_activate_stage : BOOLEAN, host_state : HostStates,
   page : WebPageType]

-----------------------------------------------------------------------------
(* Showing and hiding.                                                     *)

IsActivated(a) == a.host_state \in {"default", "fullscreen"}

IsMinimized(a) == a.host_state = "minimized"

IsNormal(a) == a.host_state = "default"

WithPage(a, p) == [a EXCEPT !.page = p]

SetVisibilityState(a, v) == [a EXCEPT !.page.visibility = v]

ReloadDefaultPage(a) == WithPage(a, LoadUrl(a.page, "app"))

\* A page whose renderer crashed in the background is loaded again.
RecoverFromCrash(a) ==
  IF a.crashed THEN [ReloadDefaultPage(a) EXCEPT !.crashed = FALSE] ELSE a

OnStageActivated(a) ==
  LET b == RecoverFromCrash(a)
  IN  SetVisibilityState(WithPage(b, ResumeWebPageAll(b.page)), "visible")

OnStageDeactivated(a) ==
  LET paused == SetVisibilityState(WithPage(a, SuspendWebPageMedia(a.page)),
                                   "hidden")
  IN  [WithPage(paused, SuspendWebPageAll(paused.page))
         EXCEPT !.hidden_window = TRUE, !.did_activate_stage = FALSE]

ShowWindow(a) ==
  IF a.preload_state # "none"
    THEN a
    ELSE [OnStageActivated([a EXCEPT !.hidden_window = FALSE])
            EXCEPT !.added_to_window_mgr = TRUE]

\* webOSSystem.hide() hides only an app that is kept alive.
Hide(a, forced) ==
  IF a.keep_alive \/ forced THEN OnStageDeactivated(a) ELSE a

\* HideWindow returns false, and does nothing, on the load error page.
CanHideWindow(a) == ~a.page.is_load_error_page_finish

HideWindow(a) ==
  IF CanHideWindow(a)
    THEN [Hide(a, TRUE) EXCEPT !.added_to_window_mgr = FALSE]
    ELSE a

\* SetWindowHostState is a request to the compositor, which answers with a
\* WindowStateChange event of its own.
Raise(a) ==
  LET b == IF \/ a.window_type = "overlay"
              \/ a.keep_alive /\ ~IsMinimized(a)
             THEN OnStageActivated(a)
             ELSE a
  IN  IF IsMinimized(a)
        THEN SetVisibilityState(WithPage(b, ResumeWebPageAll(b.page)),
                                "visible")
        ELSE b

StateAboutToMinimize(a) ==
  SetVisibilityState(WithPage(a, SuspendWebPageMedia(a.page)), "hidden")

\* The window has already changed its state when StateChanged runs.
StateChanged(a, new_state) ==
  LET b == [a EXCEPT !.host_state = new_state]
  IN  IF b.page.is_closing
        THEN b
        ELSE IF new_state = "minimized"
               THEN OnStageDeactivated(b)
               ELSE OnStageActivated(b)

FirstFrameVisuallyCommitted(a) ==
  IF a.hidden_window \/ a.preload_state # "none"
    THEN a
    ELSE ShowWindow([a EXCEPT !.did_activate_stage =
                                 @ /\ ~a.use_prerendering])

\* Mutant of DidSwapPageCompositorFrame: the first frame of any app shows it.
SwappedFrameShows(a) ==
  IF a.did_activate_stage
    THEN a
    ELSE [OnStageActivated(a) EXCEPT !.did_activate_stage = TRUE]

DidSwapPageCompositorFrame(a) ==
  IF a.did_activate_stage \/ a.hidden_window \/ a.preload_state # "none"
    THEN a
    ELSE [OnStageActivated(a) EXCEPT !.did_activate_stage = TRUE]

-----------------------------------------------------------------------------
(* Launching and relaunching.                                              *)

\* SetPreloadState: "launchedHidden" alone makes a partial preload.
PreloadState(args) ==
  IF args.preload = "none" /\ args.hidden THEN "partial" ELSE args.preload

\* OnLaunchUrl: the properties, Attach, SetPreloadState and the first Load.
NewWebApp(app_id, instance_id, args, need_reload) ==
  LET state == PreloadState(args)
      page  == [NewPage(args.background_run /\ args.window_type = "card")
                  EXCEPT !.is_preload = (state # "none")]
  IN  [status |-> "live", app_id |-> app_id, instance_id |-> instance_id,
       window_type |-> args.window_type,
       handles_relaunch |-> args.handles_relaunch,
       use_prerendering |-> args.use_prerendering,
       keep_alive |-> args.keep_alive, force_close |-> FALSE,
       hidden_window |-> (state # "none"),
       added_to_window_mgr |-> FALSE, crashed |-> FALSE,
       need_reload |-> need_reload, preload_state |-> state,
       close_page_requested |-> FALSE, in_progress_relaunch |-> FALSE,
       did_activate_stage |-> FALSE, host_state |-> "default",
       page |-> LoadUrl(IF state = "partial" THEN SuspendWebPageMedia(page)
                                             ELSE page, "app")]

ClearPreloadState(a) ==
  [a EXCEPT !.preload_state = "none",
            !.page = [IF a.preload_state = "partial" THEN ResumeWebPageMedia(@)
                                                     ELSE @
                        EXCEPT !.is_preload = FALSE]]

\* The part of WebAppBase::Relaunch that brings a hidden window back.
Unhide(a) ==
  LET b == ClearPreloadState([a EXCEPT !.hidden_window = FALSE])
      c == [b EXCEPT !.added_to_window_mgr =
                        @ /\ ~(b.keep_alive /\ ~b.page.progress)]
  IN  IF c.added_to_window_mgr \/ (c.page.progress /\ c.page.has_been_shown)
        THEN ShowWindow(c)
        ELSE c

\* WebPageBase::Relaunch returns false until the page was first shown, except
\* for a relaunch that navigates.
PageRelaunches(p, kind) == kind = "navigate" \/ p.has_been_shown

\* Mutant of PageRelaunch: a relaunch event resumes nothing.
PageRelaunchLeavesSuspended(p, kind) ==
  IF kind = "navigate" THEN LoadUrl(p, "app") ELSE p

PageRelaunch(p, kind) ==
  LET q == ResumeWebPagePaintingAndJSExecution(p)
  IN  IF kind = "navigate" THEN LoadUrl(q, "app") ELSE q

\* A relaunch the page cannot take yet is backed up.
Relaunch(a, kind) ==
  LET b == RecoverFromCrash(IF a.hidden_window THEN Unhide(a) ELSE a)
      c == WithPage(b, PageRelaunch(b.page, kind))
  IN  IF ~PageRelaunches(b.page, kind)
        THEN [c EXCEPT !.in_progress_relaunch = TRUE]
        ELSE IF c.handles_relaunch THEN c ELSE Raise(c)

\* What the arguments ask for is decided anew: by now a hosted app may have
\* come to a page that takes a deep link.
DoPendingRelaunch(a, kind) ==
  IF a.in_progress_relaunch
    THEN [Relaunch(a, kind) EXCEPT !.in_progress_relaunch = FALSE]
    ELSE a

\* WebAppWayland::WebPageLoadFinished.
WebPageLoadFinished(a, kind) ==
  IF a.hidden_window
    THEN a
    ELSE IF a.need_reload
           THEN [a EXCEPT !.page = LoadUrl(@, @.url), !.need_reload = FALSE]
           ELSE DoPendingRelaunch(a, kind)

\* WebPageBlink::LoadFinished of a page that is not being unloaded.
LoadFinished(a, kind) ==
  LET b == WebPageLoadFinished(WithPage(a, Committed(a.page)), kind)
  IN  WithPage(b, SuspendAtLoad(b.page))

-----------------------------------------------------------------------------
(* Closing.                                                                *)

\* CloseAppInternal's part in the app, when ignore_clean_resource is false.
Closing(a) ==
  LET b == OnStageDeactivated([a EXCEPT !.page.is_closing = TRUE])
  IN  WithPage(b, IF b.page.has_close_callback
                    THEN ExecuteCloseCallback(b.page)
                    ELSE CleanResources(b.page))

\* delete app
Deleted(a) == [a EXCEPT !.status = "freed", !.page = Destroyed(@)]

=============================================================================
