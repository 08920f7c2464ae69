------------------------------ MODULE WebPage ------------------------------
(***************************************************************************)
(* WebPageBase and WebPageBlink: one web page of an app, with its web view.*)
(* Every method is a function from the page before the call to the page    *)
(* after it; a method that calls another applies its function.             *)
(*                                                                         *)
(* The fields that no member of the source names are the view's, which the *)
(* engine owns (external):                                                 *)
(*   progress         the load progress is 100                             *)
(*   request          the page LoadUrl asked for and the engine has not    *)
(*                    started on, or "none"                                *)
(*   loading          the navigation in progress, or "none"                *)
(*   url              the committed page, or "none"                        *)
(*   dom_suspended    the DOM and its JavaScript are stopped               *)
(*   media_suspended  the media of the page are stopped                    *)
(*   visibility       the page's visibility state                          *)
(*   script_pending   _onCloseWithNotify_ was sent and has not answered    *)
(***************************************************************************)
EXTENDS Timer

\* A url is known by the page it shows: the app's own, the load error page of
\* WAM_ERROR_PAGE, or the about:blank that unloads a closing page.
Urls == {"app", "error", "blank"}

MaybeUrl == Urls \cup {"none"}

Visibilities == {"launching", "visible", "hidden"}

WebPageType ==
  [is_closing : BOOLEAN, cleaning_resources : BOOLEAN, is_preload : BOOLEAN,
   enable_background_run : BOOLEAN, is_suspended : BOOLEAN,
   suspend_at_load : BOOLEAN, is_paused : BOOLEAN, has_been_shown : BOOLEAN,
   has_close_callback : BOOLEAN, is_load_error_page_finish : BOOLEAN,
   dom_suspend_timer : TimerType, close_callback_timer : TimerType,
   net_error_reload_timer : BOOLEAN,
   progress : BOOLEAN, request : MaybeUrl, loading : MaybeUrl, url : MaybeUrl,
   dom_suspended : BOOLEAN, media_suspended : BOOLEAN,
   visibility : Visibilities, script_pending : BOOLEAN]

\* A page as OnLaunchUrl creates it and DoAttach leaves it.
NewPage(background_run) ==
  [is_closing |-> FALSE, cleaning_resources |-> FALSE, is_preload |-> FALSE,
   enable_background_run |-> background_run, is_suspended |-> FALSE,
   suspend_at_load |-> FALSE, is_paused |-> FALSE, has_been_shown |-> FALSE,
   has_close_callback |-> FALSE, is_load_error_page_finish |-> FALSE,
   dom_suspend_timer |-> NewTimer, close_callback_timer |-> NewTimer,
   net_error_reload_timer |-> FALSE,
   progress |-> FALSE, request |-> "none", loading |-> "none", url |-> "none",
   dom_suspended |-> FALSE, media_suspended |-> FALSE,
   visibility |-> "launching", script_pending |-> FALSE]

-----------------------------------------------------------------------------
(* Suspending and resuming.                                                *)

SuspendWebPageMedia(p) ==
  IF p.is_paused \/ p.enable_background_run
    THEN p
    ELSE [p EXCEPT !.media_suspended = TRUE, !.is_paused = TRUE]

\* Mutant of ResumeWebPageMedia: the view is not told.
ResumeMediaInPageOnly(p) == [p EXCEPT !.is_paused = FALSE]

ResumeWebPageMedia(p) ==
  IF p.is_paused
    THEN [p EXCEPT !.media_suspended = FALSE, !.is_paused = FALSE]
    ELSE p

\* Suspending the DOM waits for dom_suspend_timer_, except in a closing page,
\* which must go on running to unload.
SuspendWebPageAll(p) ==
  IF p.is_suspended \/ p.enable_background_run
    THEN p
    ELSE LET q == SuspendWebPageMedia(p)
         IN  IF q.is_closing
               THEN q
               ELSE [q EXCEPT !.is_suspended = TRUE,
                              !.dom_suspend_timer = Start(@)]

SuspendWebPagePaintingAndJSExecution(p) ==
  LET q          == [p EXCEPT !.dom_suspend_timer = StopIfRunning(@)]
      is_loading == ~q.has_been_shown /\ ~q.progress
  IN  IF q.enable_background_run \/ ~q.is_suspended
        THEN q
        ELSE IF is_loading
               THEN [q EXCEPT !.suspend_at_load = TRUE]
               ELSE [q EXCEPT !.dom_suspended = TRUE]

\* Mutant of ResumeWebPagePaintingAndJSExecution: the DOM is not resumed.
ResumeLeavesDom(p) ==
  [p EXCEPT !.suspend_at_load = FALSE, !.is_suspended = FALSE,
            !.dom_suspend_timer = IF p.is_suspended THEN StopIfRunning(@) ELSE @]

\* A running dom_suspend_timer_ means that the DOM was not suspended yet.
ResumeWebPagePaintingAndJSExecution(p) ==
  LET q == [p EXCEPT !.suspend_at_load = FALSE]
  IN  IF ~q.is_suspended
        THEN q
        ELSE IF q.dom_suspend_timer.is_running
               THEN [q EXCEPT !.dom_suspend_timer = Stop(@),
                              !.is_suspended = FALSE]
               ELSE [q EXCEPT !.dom_suspended = FALSE,
                              !.is_suspended = FALSE]

ResumeWebPageAll(p) ==
  ResumeWebPageMedia(ResumeWebPagePaintingAndJSExecution(p))

\* The callback of dom_suspend_timer_.
DomSuspendTimerFired(p) ==
  SuspendWebPagePaintingAndJSExecution(
    [p EXCEPT !.dom_suspend_timer = Fired(@)])

-----------------------------------------------------------------------------
(* Loading.                                                                *)

LoadUrl(p, url) == [p EXCEPT !.request = url]

\* The document whose script can run.
ScriptRuns(p) ==
  /\ ~p.dom_suspended
  /\ {p.url, p.loading} \cap {"app", "error"} # {}

\* The policy of the app or a missing file may keep the error page away.
LoadErrorPage(p, shown) == IF shown THEN LoadUrl(p, "error") ELSE p

\* DidStartNavigation of the engine, for the main frame.
HandleLoadStarted(p) ==
  [p EXCEPT !.has_close_callback = FALSE, !.suspend_at_load = TRUE]

DidStartNavigation(p, url) ==
  [HandleLoadStarted(p) EXCEPT !.loading = url, !.request = "none",
                               !.progress = FALSE, !.script_pending = FALSE]

\* Mutant of UpdateIsLoadErrorPageFinish: the timer is never stopped.
ReloadTimerKeepsRunning(p) ==
  LET is_error == p.url = "error"
  IN  [p EXCEPT !.is_load_error_page_finish = is_error,
                !.net_error_reload_timer = @ \/ is_error]

\* net_error_reload_timer_ runs while the load error page is shown.
UpdateIsLoadErrorPageFinish(p) ==
  LET is_error == p.url = "error"
  IN  [p EXCEPT !.is_load_error_page_finish = is_error,
                !.net_error_reload_timer =
                   IF is_error THEN TRUE
                   ELSE @ /\ ~p.is_load_error_page_finish]

\* HandleLoadFinished after its observers have run.
SuspendAtLoad(p) ==
  UpdateIsLoadErrorPageFinish(
    IF p.suspend_at_load THEN SuspendWebPagePaintingAndJSExecution(p) ELSE p)

\* The engine commits and finishes the navigation in progress.
Committed(p) ==
  [p EXCEPT !.url = p.loading, !.loading = "none", !.progress = TRUE]

ReloadFailedUrl(p) == LoadUrl(p, "app")

-----------------------------------------------------------------------------
(* Closing and crashing.                                                   *)

\* about:blank takes the place of whatever is loading.
CleanResources(p) ==
  [LoadUrl(p, "blank") EXCEPT !.cleaning_resources = TRUE, !.loading = "none"]

\* Mutant of ExecuteCloseCallback: nothing bounds the wait for the callback.
ExecuteWithoutTimeout(p) == [p EXCEPT !.script_pending = TRUE]

\* The timer starts again even when it is running.
ExecuteCloseCallback(p) ==
  [p EXCEPT !.script_pending = TRUE, !.close_callback_timer = Start(@)]

\* Init of RecreateWebView: a new view, with the engine's part of the page as it
\* was at the start.
NewView(p) ==
  [p EXCEPT !.progress = FALSE, !.request = "none", !.loading = "none",
            !.url = "none", !.dom_suspended = FALSE, !.media_suspended = FALSE,
            !.script_pending = FALSE]

\* Mutant of RecreateWebView: the page still counts as suspended.
RecreatedStaysSuspended(p) == [NewView(p) EXCEPT !.visibility = "launching"]

\* is_suspended_ is cleared, but no timer is stopped and is_paused_ stays.
\* Attaching the view makes it visible unless it is set to launching.
RecreateWebView(p) ==
  [NewView(p) EXCEPT !.is_suspended = FALSE,
                     !.visibility = IF p.is_suspended THEN "visible"
                                                      ELSE "launching"]

\* The destructor stops each timer that IsRunning says is running; a source
\* that is still in the main loop is all that is left of the page.
Destroyed(p) ==
  [NewPage(FALSE) EXCEPT
     !.dom_suspend_timer = StopIfRunning(p.dom_suspend_timer),
     !.close_callback_timer = StopIfRunning(p.close_callback_timer)]

=============================================================================
