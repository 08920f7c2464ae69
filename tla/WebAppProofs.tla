---------------------------- MODULE WebAppProofs ----------------------------
(***************************************************************************)
(* What the methods of an app leave alone. Showing, hiding, relaunching and*)
(* loading keep its identity, its status and its keepAlive, and never bring*)
(* its page nearer to its end; Closing sets the page on its way, once.     *)
(* What they keep true: a suspended page is under a hidden window, and a   *)
(* preloaded app is out of sight.                                          *)
(***************************************************************************)
EXTENDS WebApp, WebPageProofs

\* b is the app a with the same identity, on the same side of its close.
SameApp(a, b) ==
  /\ b \in WebAppType
  /\ b.status = a.status
  /\ b.app_id = a.app_id
  /\ b.instance_id = a.instance_id
  /\ b.keep_alive = a.keep_alive
  /\ SameClosing(a.page, b.page)

LEMMA PageOfApp ==
  ASSUME NEW a \in WebAppType
  PROVE  a.page \in WebPageType
  BY DEF WebAppType

LEMMA SameAppReflexive ==
  ASSUME NEW a \in WebAppType
  PROVE  SameApp(a, a)
  BY PageOfApp, SameClosingReflexive DEF SameApp

LEMMA SameAppTransitive ==
  ASSUME NEW a, NEW b, NEW c, SameApp(a, b), SameApp(b, c)
  PROVE  SameApp(a, c)
  BY SameClosingTransitive DEF SameApp

LEMMA SameWithPage ==
  ASSUME NEW a \in WebAppType, NEW p, SameClosing(a.page, p)
  PROVE  SameApp(a, WithPage(a, p))
<1>1. p \in WebPageType
  BY DEF SameClosing
<1>2. WithPage(a, p) \in WebAppType
  BY <1>1, Zenon DEF WebAppType, WithPage
<1>3. QED
  BY <1>2 DEF SameApp, WebAppType, WithPage

\* The window's flags are set without touching the page.
LEMMA SameWithFlags ==
  ASSUME NEW a \in WebAppType, NEW b \in BOOLEAN
  PROVE  /\ SameApp(a, [a EXCEPT !.hidden_window = b])
         /\ SameApp(a, [a EXCEPT !.added_to_window_mgr = b])
         /\ SameApp(a, [a EXCEPT !.did_activate_stage = b])
         /\ SameApp(a, [a EXCEPT !.crashed = b])
         /\ SameApp(a, [a EXCEPT !.in_progress_relaunch = b])
         /\ SameApp(a, [a EXCEPT !.need_reload = b])
         /\ SameApp(a, [a EXCEPT !.close_page_requested = b])
         /\ SameApp(a, [a EXCEPT !.force_close = b])
<1>1. SameClosing(a.page, a.page)
  BY PageOfApp, SameClosingReflexive
<1>2. /\ [a EXCEPT !.hidden_window = b] \in WebAppType
      /\ [a EXCEPT !.added_to_window_mgr = b] \in WebAppType
      /\ [a EXCEPT !.did_activate_stage = b] \in WebAppType
      /\ [a EXCEPT !.crashed = b] \in WebAppType
  BY Zenon DEF WebAppType
<1>3. /\ [a EXCEPT !.in_progress_relaunch = b] \in WebAppType
      /\ [a EXCEPT !.need_reload = b] \in WebAppType
      /\ [a EXCEPT !.close_page_requested = b] \in WebAppType
      /\ [a EXCEPT !.force_close = b] \in WebAppType
  BY Zenon DEF WebAppType
<1>4. /\ SameApp(a, [a EXCEPT !.hidden_window = b])
      /\ SameApp(a, [a EXCEPT !.added_to_window_mgr = b])
      /\ SameApp(a, [a EXCEPT !.did_activate_stage = b])
      /\ SameApp(a, [a EXCEPT !.crashed = b])
  BY <1>1, <1>2 DEF SameApp, WebAppType
<1>5. /\ SameApp(a, [a EXCEPT !.in_progress_relaunch = b])
      /\ SameApp(a, [a EXCEPT !.need_reload = b])
      /\ SameApp(a, [a EXCEPT !.close_page_requested = b])
      /\ SameApp(a, [a EXCEPT !.force_close = b])
  BY <1>1, <1>3 DEF SameApp, WebAppType
<1>6. QED
  BY <1>4, <1>5

-----------------------------------------------------------------------------
(* Showing and hiding.                                                     *)

LEMMA SetVisibility ==
  ASSUME NEW a \in WebAppType, NEW v \in Visibilities
  PROVE  SameApp(a, SetVisibilityState(a, v))
<1> DEFINE p == [a.page EXCEPT !.visibility = v]
<1>1. p \in WebPageType
  BY PageOfApp, Zenon DEF WebPageType
<1>2. SameClosing(a.page, p)
  BY <1>1, PageOfApp DEF SameClosing, WebPageType
<1>3. SetVisibilityState(a, v) = WithPage(a, p)
  BY DEF SetVisibilityState, WithPage
<1>4. QED
  BY <1>2, <1>3, SameWithPage

LEMMA Recover ==
  ASSUME NEW a \in WebAppType
  PROVE  SameApp(a, RecoverFromCrash(a))
<1> DEFINE b == ReloadDefaultPage(a)
<1>1. SameClosing(a.page, LoadUrl(a.page, "app"))
  BY PageOfApp, Load DEF MaybeUrl, Urls
<1>2. SameApp(a, b)
  BY <1>1, SameWithPage DEF ReloadDefaultPage
<1>3. b \in WebAppType
  BY <1>2 DEF SameApp
<1> HIDE DEF b
<1>4. SameApp(b, [b EXCEPT !.crashed = FALSE])
  BY <1>3, SameWithFlags
<1>5. QED
  BY <1>2, <1>4, SameAppTransitive, SameAppReflexive DEF RecoverFromCrash, b

\* A page operation that keeps a page on its side of the close, and then the
\* visibility.
LEMMA SameThenVisible ==
  ASSUME NEW a \in WebAppType, NEW p, SameClosing(a.page, p),
         NEW v \in Visibilities
  PROVE  SameApp(a, SetVisibilityState(WithPage(a, p), v))
<1> DEFINE b == WithPage(a, p)
<1>1. SameApp(a, b)
  BY SameWithPage
<1>2. b \in WebAppType
  BY <1>1 DEF SameApp
<1> HIDE DEF b
<1>3. SameApp(b, SetVisibilityState(b, v))
  BY <1>2, SetVisibility
<1>4. QED
  BY <1>1, <1>3, SameAppTransitive DEF b

LEMMA StageActivated ==
  ASSUME NEW a \in WebAppType
  PROVE  SameApp(a, OnStageActivated(a))
<1> DEFINE b == RecoverFromCrash(a)
<1>1. SameApp(a, b)
  BY Recover
<1>2. b \in WebAppType
  BY <1>1 DEF SameApp
<1> HIDE DEF b
<1>3. SameClosing(b.page, ResumeWebPageAll(b.page))
  BY <1>2, PageOfApp, ResumeAll
<1>4. SameApp(b, SetVisibilityState(WithPage(b, ResumeWebPageAll(b.page)),
                                    "visible"))
  BY <1>2, <1>3, SameThenVisible DEF Visibilities
<1>5. QED
  BY <1>1, <1>4, SameAppTransitive DEF OnStageActivated, b

LEMMA StageDeactivated ==
  ASSUME NEW a \in WebAppType
  PROVE  SameApp(a, OnStageDeactivated(a))
<1> DEFINE b == SetVisibilityState(WithPage(a, SuspendWebPageMedia(a.page)),
                                   "hidden")
           c == WithPage(b, SuspendWebPageAll(b.page))
           d == [c EXCEPT !.hidden_window = TRUE]
<1>1. SameApp(a, b)
  BY PageOfApp, SuspendMedia, SameThenVisible DEF Visibilities
<1>2. b \in WebAppType
  BY <1>1 DEF SameApp
<1> HIDE DEF b
<1>3. SameApp(b, c)
  BY <1>2, PageOfApp, SuspendAll, SameWithPage
<1>4. c \in WebAppType
  BY <1>3 DEF SameApp
<1> HIDE DEF c
<1>5. SameApp(c, d)
  BY <1>4, SameWithFlags
<1>6. SameApp(d, [d EXCEPT !.did_activate_stage = FALSE])
  BY <1>5, SameWithFlags DEF SameApp
<1>7. OnStageDeactivated(a) = [d EXCEPT !.did_activate_stage = FALSE]
  BY DEF OnStageDeactivated, b, c
<1>8. QED
  BY <1>1, <1>3, <1>5, <1>6, <1>7, SameAppTransitive

LEMMA Show ==
  ASSUME NEW a \in WebAppType
  PROVE  SameApp(a, ShowWindow(a))
<1> DEFINE b == [a EXCEPT !.hidden_window = FALSE]
           c == OnStageActivated(b)
           d == [c EXCEPT !.added_to_window_mgr = TRUE]
<1>1. SameApp(a, b)
  BY SameWithFlags
<1>2. SameApp(b, c)
  BY <1>1, StageActivated DEF SameApp
<1>3. SameApp(a, c)
  BY <1>1, <1>2, SameAppTransitive
<1> HIDE DEF c
<1>4. SameApp(c, d)
  BY <1>3, SameWithFlags DEF SameApp
<1>5. SameApp(a, d)
  BY <1>3, <1>4, SameAppTransitive
<1>6. QED
  BY <1>5, SameAppReflexive DEF ShowWindow, c

LEMMA HideSame ==
  ASSUME NEW a \in WebAppType, NEW forced \in BOOLEAN
  PROVE  SameApp(a, Hide(a, forced))
  BY StageDeactivated, SameAppReflexive DEF Hide

LEMMA HideWindowSame ==
  ASSUME NEW a \in WebAppType
  PROVE  SameApp(a, HideWindow(a))
<1> DEFINE b == Hide(a, TRUE)
<1>1. SameApp(a, b)
  BY HideSame
<1>2. b \in WebAppType
  BY <1>1 DEF SameApp
<1> HIDE DEF b
<1>3. SameApp(b, [b EXCEPT !.added_to_window_mgr = FALSE])
  BY <1>2, SameWithFlags
<1>4. QED
  BY <1>1, <1>3, SameAppTransitive, SameAppReflexive DEF HideWindow, b

LEMMA RaiseSame ==
  ASSUME NEW a \in WebAppType
  PROVE  SameApp(a, Raise(a))
<1> DEFINE b == IF a.window_type = "overlay" \/ (a.keep_alive /\ ~IsMinimized(a))
                  THEN OnStageActivated(a) ELSE a
<1>1. SameApp(a, b)
  BY StageActivated, SameAppReflexive
<1>2. b \in WebAppType
  BY <1>1 DEF SameApp
<1>3. Raise(a) = IF IsMinimized(a)
                   THEN SetVisibilityState(WithPage(b, ResumeWebPageAll(b.page)),
                                           "visible")
                   ELSE b
  BY DEF Raise
<1> HIDE DEF b
<1>4. SameApp(b, SetVisibilityState(WithPage(b, ResumeWebPageAll(b.page)),
                                    "visible"))
  BY <1>2, PageOfApp, ResumeAll, SameThenVisible DEF Visibilities
<1>5. QED
  BY <1>1, <1>3, <1>4, SameAppTransitive

LEMMA AboutToMinimize ==
  ASSUME NEW a \in WebAppType
  PROVE  SameApp(a, StateAboutToMinimize(a))
  BY PageOfApp, SuspendMedia, SameThenVisible
     DEF StateAboutToMinimize, Visibilities

LEMMA StateChangedSame ==
  ASSUME NEW a \in WebAppType, NEW new_state \in HostStates
  PROVE  SameApp(a, StateChanged(a, new_state))
<1> DEFINE b == [a EXCEPT !.host_state = new_state]
<1>1. b \in WebAppType
  BY Zenon DEF WebAppType
<1>2. SameClosing(a.page, a.page)
  BY PageOfApp, SameClosingReflexive
<1>3. SameApp(a, b)
  BY <1>1, <1>2 DEF SameApp, WebAppType
<1> HIDE DEF b
<1>4. SameApp(b, OnStageDeactivated(b)) /\ SameApp(b, OnStageActivated(b))
  BY <1>1, StageDeactivated, StageActivated
<1>5. QED
  BY <1>3, <1>4, SameAppTransitive DEF StateChanged, b

LEMMA FirstFrame ==
  ASSUME NEW a \in WebAppType
  PROVE  SameApp(a, FirstFrameVisuallyCommitted(a))
<1> DEFINE s == a.did_activate_stage /\ ~a.use_prerendering
           b == [a EXCEPT !.did_activate_stage = s]
<1>1. s \in BOOLEAN
  BY DEF WebAppType
<1>2. FirstFrameVisuallyCommitted(a)
        = IF a.hidden_window \/ a.preload_state # "none" THEN a ELSE ShowWindow(b)
  BY DEF FirstFrameVisuallyCommitted
<1> HIDE DEF s
<1>3. SameApp(a, b)
  BY <1>1, SameWithFlags
<1>4. SameApp(b, ShowWindow(b))
  BY <1>3, Show DEF SameApp
<1>5. QED
  BY <1>2, <1>3, <1>4, SameAppTransitive, SameAppReflexive

LEMMA SwapFrame ==
  ASSUME NEW a \in WebAppType
  PROVE  SameApp(a, DidSwapPageCompositorFrame(a))
<1> DEFINE b == OnStageActivated(a)
<1>1. SameApp(a, b)
  BY StageActivated
<1>2. b \in WebAppType
  BY <1>1 DEF SameApp
<1> HIDE DEF b
<1>3. SameApp(b, [b EXCEPT !.did_activate_stage = TRUE])
  BY <1>2, SameWithFlags
<1>4. QED
  BY <1>1, <1>3, SameAppTransitive, SameAppReflexive
     DEF DidSwapPageCompositorFrame, b

-----------------------------------------------------------------------------
(* Launching and relaunching.                                              *)

\* A page that no close has reached.
Untouched(p) ==
  /\ p \in WebPageType
  /\ ~p.is_closing
  /\ ~p.cleaning_resources
  /\ ~p.script_pending
  /\ p.close_callback_timer = NewTimer

LEMMA UntouchedStays ==
  ASSUME NEW p, NEW q, Untouched(p), SameClosing(p, q)
  PROVE  Untouched(q)
  BY DEF Untouched, SameClosing, WebPageType

\* A launched app is live, and no close has reached it.
LEMMA NewWebAppType ==
  ASSUME NEW app_id \in AppIds, NEW i \in Instances, NEW args \in LaunchType,
         NEW need_reload \in BOOLEAN
  PROVE  /\ NewWebApp(app_id, i, args, need_reload) \in WebAppType
         /\ NewWebApp(app_id, i, args, need_reload).status = "live"
         /\ NewWebApp(app_id, i, args, need_reload).app_id = app_id
         /\ NewWebApp(app_id, i, args, need_reload).instance_id = i
         /\ Untouched(NewWebApp(app_id, i, args, need_reload).page)
<1> DEFINE bg    == args.background_run /\ args.window_type = "card"
           state == PreloadState(args)
           fresh == NewPage(bg)
           pre   == state # "none"
           page  == [fresh EXCEPT !.is_preload = pre]
           media == IF state = "partial" THEN SuspendWebPageMedia(page) ELSE page
           new   == NewWebApp(app_id, i, args, need_reload)
<1>1. bg \in BOOLEAN /\ pre \in BOOLEAN /\ state \in PreloadStates
  BY DEF LaunchType, PreloadState, PreloadStates
<1>2. Untouched(fresh)
  BY <1>1, NewPageType DEF Untouched
<1> HIDE DEF fresh, pre
<1>3. page \in WebPageType
  BY <1>1, <1>2, Zenon DEF WebPageType, Untouched
<1>4. Untouched(page)
  BY <1>2, <1>3 DEF Untouched, WebPageType
<1> HIDE DEF page
<1>5. Untouched(media)
  BY <1>4, SuspendMedia, UntouchedStays DEF Untouched
<1> HIDE DEF media
<1>6. Untouched(LoadUrl(media, "app"))
  BY <1>5, Load, UntouchedStays DEF Untouched, MaybeUrl, Urls
<1>7. new = [status |-> "live", app_id |-> app_id, instance_id |-> i,
             window_type |-> args.window_type,
             handles_relaunch |-> args.handles_relaunch,
             use_prerendering |-> args.use_prerendering,
             keep_alive |-> args.keep_alive, force_close |-> FALSE,
             hidden_window |-> pre,
             added_to_window_mgr |-> FALSE, crashed |-> FALSE,
             need_reload |-> need_reload, preload_state |-> state,
             close_page_requested |-> FALSE, in_progress_relaunch |-> FALSE,
             did_activate_stage |-> FALSE, host_state |-> "default",
             page |-> LoadUrl(media, "app")]
  BY DEF NewWebApp, fresh, pre, page, media
<1>8. /\ args.window_type \in WindowTypes
      /\ args.handles_relaunch \in BOOLEAN
      /\ args.use_prerendering \in BOOLEAN
      /\ args.keep_alive \in BOOLEAN
  BY DEF LaunchType
<1>9. /\ LoadUrl(media, "app") \in WebPageType
      /\ "live" \in Statuses
      /\ "default" \in HostStates
  BY <1>6 DEF Untouched, Statuses, HostStates
<1> HIDE DEF new, state
<1>10. new \in WebAppType
  BY <1>1, <1>7, <1>8, <1>9 DEF WebAppType
<1>11. /\ new.status = "live" /\ new.app_id = app_id /\ new.instance_id = i
       /\ new.page = LoadUrl(media, "app")
  BY <1>7
<1>12. QED
  BY <1>6, <1>10, <1>11 DEF new

LEMMA ClearPreload ==
  ASSUME NEW a \in WebAppType
  PROVE  SameApp(a, ClearPreloadState(a))
<1> DEFINE p == IF a.preload_state = "partial" THEN ResumeWebPageMedia(a.page)
                                               ELSE a.page
           q == [p EXCEPT !.is_preload = FALSE]
           b == [a EXCEPT !.preload_state = "none", !.page = q]
<1>1. SameClosing(a.page, p)
  BY PageOfApp, ResumeMedia, SameClosingReflexive
<1>2. p \in WebPageType
  BY <1>1 DEF SameClosing
<1>3. ClearPreloadState(a) = b
  BY DEF ClearPreloadState
<1> HIDE DEF p
<1>4. q \in WebPageType
  BY <1>2, Zenon DEF WebPageType
<1>5. SameClosing(p, q)
  BY <1>2, <1>4 DEF SameClosing, WebPageType
<1>6. SameClosing(a.page, q)
  BY <1>1, <1>5, SameClosingTransitive
<1> HIDE DEF q
<1>7. "none" \in PreloadStates
  BY DEF PreloadStates
<1>8. b \in WebAppType
  BY <1>4, <1>7, Zenon DEF WebAppType
<1>9. SameApp(a, b)
  BY <1>6, <1>8 DEF SameApp, WebAppType
<1>10. QED
  BY <1>3, <1>9

LEMMA UnhideSame ==
  ASSUME NEW a \in WebAppType
  PROVE  SameApp(a, Unhide(a))
<1> DEFINE h == [a EXCEPT !.hidden_window = FALSE]
           b == ClearPreloadState(h)
           w == b.added_to_window_mgr /\ ~(b.keep_alive /\ ~b.page.progress)
           c == [b EXCEPT !.added_to_window_mgr = w]
<1>1. SameApp(a, h)
  BY SameWithFlags
<1>2. SameApp(h, b)
  BY <1>1, ClearPreload DEF SameApp
<1>3. Unhide(a) = IF c.added_to_window_mgr \/ (c.page.progress /\ c.page.has_been_shown)
                    THEN ShowWindow(c) ELSE c
  BY DEF Unhide
<1>4. b \in WebAppType
  BY <1>2 DEF SameApp
<1> HIDE DEF b
<1>5. w \in BOOLEAN
  BY <1>4 DEF WebAppType
<1> HIDE DEF w
<1>6. SameApp(b, c)
  BY <1>4, <1>5, SameWithFlags
<1>7. SameApp(c, ShowWindow(c))
  BY <1>6, Show DEF SameApp
<1>8. SameApp(a, c)
  BY <1>1, <1>2, <1>6, SameAppTransitive
<1> HIDE DEF c
<1>9. QED
  BY <1>3, <1>7, <1>8, SameAppTransitive

LEMMA PageRelaunchSame ==
  ASSUME NEW p \in WebPageType, NEW kind \in RelaunchKinds
  PROVE  SameClosing(p, PageRelaunch(p, kind))
<1> DEFINE q == ResumeWebPagePaintingAndJSExecution(p)
<1>1. SameClosing(p, q)
  BY ResumePainting
<1>2. SameClosing(q, LoadUrl(q, "app"))
  BY <1>1, Load DEF SameClosing, MaybeUrl, Urls
<1>3. QED
  BY <1>1, <1>2, SameClosingTransitive DEF PageRelaunch

LEMMA RelaunchSame ==
  ASSUME NEW a \in WebAppType, NEW kind \in RelaunchKinds
  PROVE  SameApp(a, Relaunch(a, kind))
<1> DEFINE u == IF a.hidden_window THEN Unhide(a) ELSE a
           b == RecoverFromCrash(u)
           c == WithPage(b, PageRelaunch(b.page, kind))
           d == [c EXCEPT !.in_progress_relaunch = TRUE]
<1>1. SameApp(a, u)
  BY UnhideSame, SameAppReflexive
<1>2. SameApp(u, b)
  BY <1>1, Recover DEF SameApp
<1>3. SameApp(a, b) /\ b \in WebAppType
  BY <1>1, <1>2, SameAppTransitive DEF SameApp
<1> HIDE DEF b
<1>4. SameApp(b, c)
  BY <1>3, PageOfApp, PageRelaunchSame, SameWithPage
<1>5. SameApp(a, c) /\ c \in WebAppType
  BY <1>3, <1>4, SameAppTransitive DEF SameApp
<1>6. Relaunch(a, kind) = IF ~PageRelaunches(b.page, kind) THEN d
                          ELSE IF c.handles_relaunch THEN c ELSE Raise(c)
  BY DEF Relaunch, b
<1> HIDE DEF c
<1>7. SameApp(c, d) /\ SameApp(c, Raise(c))
  BY <1>5, SameWithFlags, RaiseSame
<1> HIDE DEF d
<1>8. QED
  BY <1>5, <1>6, <1>7, SameAppTransitive

LEMMA PendingRelaunch ==
  ASSUME NEW a \in WebAppType, NEW kind \in PageRelaunchKinds
  PROVE  SameApp(a, DoPendingRelaunch(a, kind))
<1> DEFINE b == Relaunch(a, kind)
<1>1. SameApp(a, b)
  BY RelaunchSame DEF RelaunchKinds, PageRelaunchKinds
<1>2. b \in WebAppType
  BY <1>1 DEF SameApp
<1> HIDE DEF b
<1>3. SameApp(b, [b EXCEPT !.in_progress_relaunch = FALSE])
  BY <1>2, SameWithFlags
<1>4. QED
  BY <1>1, <1>3, SameAppTransitive, SameAppReflexive DEF DoPendingRelaunch, b

LEMMA AppLoadFinished ==
  ASSUME NEW a \in WebAppType, NEW kind \in PageRelaunchKinds
  PROVE  SameApp(a, WebPageLoadFinished(a, kind))
<1> DEFINE p == LoadUrl(a.page, a.page.url)
           b == [a EXCEPT !.page = p, !.need_reload = FALSE]
<1>1. a.page.url \in MaybeUrl
  BY PageOfApp DEF WebPageType
<1>2. SameClosing(a.page, p)
  BY <1>1, PageOfApp, Load
<1>3. p \in WebPageType
  BY <1>2 DEF SameClosing
<1>4. WebPageLoadFinished(a, kind) = IF a.hidden_window THEN a
                               ELSE IF a.need_reload THEN b
                               ELSE DoPendingRelaunch(a, kind)
  BY DEF WebPageLoadFinished
<1> HIDE DEF p
<1>5. b \in WebAppType
  BY <1>3, Zenon DEF WebAppType
<1>6. SameApp(a, b)
  BY <1>2, <1>5 DEF SameApp, WebAppType
<1>7. QED
  BY <1>4, <1>6, PendingRelaunch, SameAppReflexive

LEMMA LoadFinishedSame ==
  ASSUME NEW a \in WebAppType, NEW kind \in PageRelaunchKinds
  PROVE  SameApp(a, LoadFinished(a, kind))
<1> DEFINE c == WithPage(a, Committed(a.page))
           b == WebPageLoadFinished(c, kind)
<1>1. SameApp(a, c)
  BY PageOfApp, CommittedSame, SameWithPage
<1>2. SameApp(c, b)
  BY <1>1, AppLoadFinished DEF SameApp
<1>3. SameApp(a, b) /\ b \in WebAppType
  BY <1>1, <1>2, SameAppTransitive DEF SameApp
<1>4. LoadFinished(a, kind) = WithPage(b, SuspendAtLoad(b.page))
  BY DEF LoadFinished
<1> HIDE DEF b
<1>5. SameApp(b, WithPage(b, SuspendAtLoad(b.page)))
  BY <1>3, PageOfApp, SuspendAtLoadSame, SameWithPage
<1>6. QED
  BY <1>3, <1>4, <1>5, SameAppTransitive

-----------------------------------------------------------------------------
(* Closing.                                                                *)

\* An app that begins to close, or closes again, keeps its identity.
LEMMA ClosingType ==
  ASSUME NEW a \in WebAppType
  PROVE  /\ Closing(a) \in WebAppType
         /\ Closing(a).status = a.status
         /\ Closing(a).app_id = a.app_id
         /\ Closing(a).instance_id = a.instance_id
         /\ Closing(a).keep_alive = a.keep_alive
         /\ Closing(a).page.is_closing
<1> DEFINE c == [a EXCEPT !.page.is_closing = TRUE]
           b == OnStageDeactivated(c)
           p == IF b.page.has_close_callback THEN ExecuteCloseCallback(b.page)
                                             ELSE CleanResources(b.page)
<1>1. [a.page EXCEPT !.is_closing = TRUE] \in WebPageType
  BY PageOfApp, Zenon DEF WebPageType
<1>2. c \in WebAppType
  BY <1>1, Zenon DEF WebAppType
<1>3. /\ c.status = a.status /\ c.app_id = a.app_id
      /\ c.instance_id = a.instance_id /\ c.keep_alive = a.keep_alive
      /\ c.page.is_closing
  BY <1>1, PageOfApp DEF WebAppType, WebPageType
<1> HIDE DEF c
<1>4. SameApp(c, b)
  BY <1>2, StageDeactivated
<1>5. b \in WebAppType /\ b.page.is_closing
  BY <1>3, <1>4 DEF SameApp, SameClosing
<1>6. Closing(a) = WithPage(b, p)
  BY DEF Closing, c
<1> HIDE DEF b
<1>7. p \in WebPageType /\ p.is_closing = b.page.is_closing
  BY <1>5, PageOfApp, ExecuteCloseCallbackType, CleanResourcesType
<1> HIDE DEF p
<1>8. WithPage(b, p) \in WebAppType
  BY <1>5, <1>7, Zenon DEF WebAppType, WithPage
<1>9. /\ WithPage(b, p).status = b.status
      /\ WithPage(b, p).app_id = b.app_id
      /\ WithPage(b, p).instance_id = b.instance_id
      /\ WithPage(b, p).keep_alive = b.keep_alive
      /\ WithPage(b, p).page = p
  BY <1>5 DEF WithPage, WebAppType
<1>10. QED
  BY <1>3, <1>4, <1>5, <1>6, <1>7, <1>8, <1>9 DEF SameApp

LEMMA DeletedType ==
  ASSUME NEW a \in WebAppType
  PROVE  /\ Deleted(a) \in WebAppType
         /\ Deleted(a).status = "freed"
         /\ Deleted(a).instance_id = a.instance_id
         /\ Deleted(a).keep_alive = a.keep_alive
<1>1. Destroyed(a.page) \in WebPageType /\ "freed" \in Statuses
  BY PageOfApp, DestroyedType DEF Statuses
<1>2. Deleted(a) \in WebAppType
  BY <1>1, Zenon DEF WebAppType, Deleted
<1>3. QED
  BY <1>2 DEF WebAppType, Deleted

-----------------------------------------------------------------------------
(* What an app knows of its page: what is suspended is hidden, and what is *)
(* preloaded has not been seen.                                            *)

\* The page and its app agree that it is preloaded, and nothing shows it then.
PreloadHides(a) ==
  /\ a.page.is_preload <=> a.preload_state # "none"
  /\ a.page.is_preload => /\ a.hidden_window
                          /\ ~a.added_to_window_mgr
                          /\ ~a.did_activate_stage

\* What holds of an app also in the middle of a relaunch, when its window is no
\* longer hidden and its page not yet resumed.
AppCoherent(a) == Coherent(a.page) /\ PreloadHides(a)

SuspendedUnderHidden(a) == a.page.is_suspended => a.hidden_window

AppInv(a) ==
  /\ AppCoherent(a)
  /\ SuspendedUnderHidden(a)

\* b has the flags of a that say whether its window is seen.
SameWindow(a, b) ==
  /\ b.preload_state = a.preload_state
  /\ b.hidden_window = a.hidden_window
  /\ b.added_to_window_mgr = a.added_to_window_mgr
  /\ b.did_activate_stage = a.did_activate_stage

LEMMA SameWindowTransitive ==
  ASSUME NEW a, NEW b, NEW c, SameWindow(a, b), SameWindow(b, c)
  PROVE  SameWindow(a, c)
  BY DEF SameWindow

\* b is the app a, not brought into sight unless its preload has ended.
InDark(a, b) ==
  b.preload_state # "none" =>
    /\ a.preload_state # "none"
    /\ b.page.visibility = "visible" => a.page.visibility = "visible"

LEMMA InDarkTransitive ==
  ASSUME NEW a, NEW b, NEW c, InDark(a, b), InDark(b, c)
  PROVE  InDark(a, c)
  BY DEF InDark

\* b is the app a under the same window, no more suspended than a.
Calmer(a, b) == SameWindow(a, b) /\ NoMoreSuspended(a.page, b.page)

LEMMA CalmerReflexive ==
  ASSUME NEW a
  PROVE  Calmer(a, a)
  BY NoMoreSuspendedReflexive DEF Calmer, SameWindow

LEMMA CalmerTransitive ==
  ASSUME NEW a, NEW b, NEW c, Calmer(a, b), Calmer(b, c)
  PROVE  Calmer(a, c)
  BY SameWindowTransitive, NoMoreSuspendedTransitive DEF Calmer

LEMMA CalmerKeeps ==
  ASSUME NEW a, NEW b, Calmer(a, b)
  PROVE  /\ AppCoherent(a) => AppCoherent(b)
         /\ AppInv(a) => AppInv(b)
         /\ InDark(a, b)
  BY DEF Calmer, SameWindow, NoMoreSuspended, AppCoherent, AppInv,
         PreloadHides, SuspendedUnderHidden, InDark

\* An app whose page is not suspended needs no hidden window.
LEMMA AwakeInv ==
  ASSUME NEW a, AppCoherent(a), ~a.page.is_suspended
  PROVE  AppInv(a)
  BY DEF AppInv, SuspendedUnderHidden

LEMMA WithPageWindow ==
  ASSUME NEW a \in WebAppType, NEW p
  PROVE  SameWindow(a, WithPage(a, p)) /\ WithPage(a, p).page = p
  BY DEF SameWindow, WithPage, WebAppType

LEMMA CalmerWithPage ==
  ASSUME NEW a \in WebAppType, NEW p, NoMoreSuspended(a.page, p)
  PROVE  Calmer(a, WithPage(a, p))
  BY WithPageWindow DEF Calmer

\* The flags of an app that neither the window nor the page depends on.
LEMMA CalmerWithFlags ==
  ASSUME NEW a \in WebAppType, NEW b
  PROVE  /\ Calmer(a, [a EXCEPT !.crashed = b])
         /\ Calmer(a, [a EXCEPT !.in_progress_relaunch = b])
         /\ Calmer(a, [a EXCEPT !.need_reload = b])
         /\ Calmer(a, [a EXCEPT !.close_page_requested = b])
         /\ Calmer(a, [a EXCEPT !.force_close = b])
         /\ Calmer(a, [a EXCEPT !.keep_alive = b])
         /\ Calmer(a, [a EXCEPT !.host_state = b])
<1>1. NoMoreSuspended(a.page, a.page)
  BY NoMoreSuspendedReflexive
<1>2. /\ SameWindow(a, [a EXCEPT !.crashed = b])
      /\ SameWindow(a, [a EXCEPT !.in_progress_relaunch = b])
      /\ SameWindow(a, [a EXCEPT !.need_reload = b])
      /\ SameWindow(a, [a EXCEPT !.close_page_requested = b])
      /\ SameWindow(a, [a EXCEPT !.force_close = b])
      /\ SameWindow(a, [a EXCEPT !.keep_alive = b])
      /\ SameWindow(a, [a EXCEPT !.host_state = b])
  BY DEF SameWindow, WebAppType
<1>3. /\ [a EXCEPT !.crashed = b].page = a.page
      /\ [a EXCEPT !.in_progress_relaunch = b].page = a.page
      /\ [a EXCEPT !.need_reload = b].page = a.page
      /\ [a EXCEPT !.close_page_requested = b].page = a.page
      /\ [a EXCEPT !.force_close = b].page = a.page
      /\ [a EXCEPT !.keep_alive = b].page = a.page
      /\ [a EXCEPT !.host_state = b].page = a.page
  BY DEF WebAppType
<1>4. QED
  BY <1>1, <1>2, <1>3 DEF Calmer

\* Suspending the media of a page that is taken out of sight.
LEMMA HideMediaCalm ==
  ASSUME NEW a \in WebAppType
  PROVE  LET b == SetVisibilityState(WithPage(a, SuspendWebPageMedia(a.page)),
                                     "hidden")
         IN  Calmer(a, b) /\ b \in WebAppType /\ b.page.visibility = "hidden"
<1> DEFINE q == SuspendWebPageMedia(a.page)
           p == [q EXCEPT !.visibility = "hidden"]
           m == WithPage(a, q)
           b == SetVisibilityState(m, "hidden")
<1>1. q \in WebPageType /\ NoMoreSuspended(a.page, p)
  BY PageOfApp, SuspendMediaKnown, SuspendMedia DEF SameClosing
<1> HIDE DEF q
<1>2. m \in WebAppType /\ m.page = q
  BY <1>1, Zenon DEF WebAppType, WithPage
<1>3. b \in WebAppType
  BY <1>2, SetVisibility DEF SameApp, Visibilities
<1>4. b = WithPage(a, p) /\ p.visibility = "hidden"
  BY <1>1, <1>2 DEF WebAppType, WebPageType, WithPage, SetVisibilityState
<1>5. Calmer(a, WithPage(a, p)) /\ WithPage(a, p).page = p
  BY <1>1, CalmerWithPage, WithPageWindow
<1> HIDE DEF b, p
<1>6. Calmer(a, b) /\ b \in WebAppType /\ b.page.visibility = "hidden"
  BY <1>3, <1>4, <1>5
<1>7. QED
  BY <1>6 DEF b, m, q

LEMMA ReloadCalm ==
  ASSUME NEW a \in WebAppType
  PROVE  Calmer(a, ReloadDefaultPage(a))
  BY PageOfApp, LoadKnown, SameKnowledgeSuspends, CalmerWithPage
     DEF ReloadDefaultPage

LEMMA RecoverCalm ==
  ASSUME NEW a \in WebAppType
  PROVE  Calmer(a, RecoverFromCrash(a))
<1> DEFINE b == ReloadDefaultPage(a)
<1>1. Calmer(a, b)
  BY ReloadCalm
<1>2. b \in WebAppType
  BY PageOfApp, Load, SameWithPage DEF ReloadDefaultPage, SameApp, MaybeUrl, Urls
<1>3. RecoverFromCrash(a) = IF a.crashed THEN [b EXCEPT !.crashed = FALSE] ELSE a
  BY DEF RecoverFromCrash
<1> HIDE DEF b
<1>4. Calmer(b, [b EXCEPT !.crashed = FALSE])
  BY <1>2, CalmerWithFlags
<1>5. QED
  BY <1>1, <1>3, <1>4, CalmerTransitive, CalmerReflexive

\* Resuming the page of an app and telling the view that it is visible.
LEMMA ResumeShown ==
  ASSUME NEW a \in WebAppType
  PROVE  LET b == SetVisibilityState(WithPage(a, ResumeWebPageAll(a.page)),
                                     "visible")
         IN  /\ AppCoherent(a) => AppInv(b)
             /\ SameWindow(a, b)
<1> DEFINE p == ResumeWebPageAll(a.page)
           c == WithPage(a, p)
           b == SetVisibilityState(c, "visible")
<1>1. /\ p \in WebPageType
      /\ Coherent(a.page) => Coherent(p) /\ ~p.media_suspended
      /\ ~p.is_suspended /\ p.is_preload = a.page.is_preload
  BY PageOfApp, ResumeAllKnown, ResumeAll DEF SameClosing
<1>2. c \in WebAppType
  BY PageOfApp, ResumeAll, SameWithPage DEF SameApp
<1> HIDE DEF p
<1>3. SameWindow(a, c) /\ c.page = p
  BY WithPageWindow
<1> HIDE DEF c
<1> DEFINE q == [p EXCEPT !.visibility = "visible"]
<1>4. SameWindow(c, b) /\ b.page = q
  BY <1>2, <1>3 DEF SetVisibilityState, SameWindow, WebAppType
<1>5. /\ ~q.is_suspended /\ q.is_preload = a.page.is_preload
      /\ Coherent(a.page) => Coherent(q)
  BY <1>1 DEF WebPageType, Coherent, DomKnown, SuspensionDue, ForegroundOnly,
     MediaKnown, VisibleRuns, ReloadTimerAgrees
<1> HIDE DEF b, q
<1>6. SameWindow(a, b)
  BY <1>3, <1>4, SameWindowTransitive
<1>7. AppCoherent(a) => AppInv(b)
  <2>1. AppCoherent(a) => AppCoherent(b)
    BY <1>4, <1>5, <1>6 DEF AppCoherent, PreloadHides, SameWindow
  <2>2. QED
    BY <1>4, <1>5, <2>1, AwakeInv
<1>8. QED
  BY <1>6, <1>7 DEF b, c, p

LEMMA StageActivatedInv ==
  ASSUME NEW a \in WebAppType
  PROVE  /\ AppCoherent(a) => AppInv(OnStageActivated(a))
         /\ SameWindow(a, OnStageActivated(a))
<1> DEFINE b == RecoverFromCrash(a)
<1>1. b \in WebAppType /\ Calmer(a, b)
  BY Recover, RecoverCalm DEF SameApp
<1>2. OnStageActivated(a)
        = SetVisibilityState(WithPage(b, ResumeWebPageAll(b.page)), "visible")
  BY DEF OnStageActivated
<1> HIDE DEF b
<1>3. QED
  BY <1>1, <1>2, ResumeShown, CalmerKeeps, SameWindowTransitive DEF Calmer

\* Suspending marks the window hidden in the same step.
LEMMA StageDeactivatedInv ==
  ASSUME NEW a \in WebAppType, AppInv(a)
  PROVE  AppInv(OnStageDeactivated(a)) /\ InDark(a, OnStageDeactivated(a))
<1> DEFINE m == WithPage(a, SuspendWebPageMedia(a.page))
           b == SetVisibilityState(m, "hidden")
           p == SuspendWebPageAll(b.page)
           c == WithPage(b, p)
           d == [c EXCEPT !.hidden_window = TRUE, !.did_activate_stage = FALSE]
<1>2. Calmer(a, b) /\ b \in WebAppType /\ b.page.visibility = "hidden"
  BY HideMediaCalm
<1>3. AppInv(b)
  BY <1>2, CalmerKeeps
<1> HIDE DEF b
<1>4. /\ Coherent(p) /\ p.is_preload = b.page.is_preload
      /\ p.visibility = "hidden"
  BY <1>2, <1>3, PageOfApp, SuspendAllKnown DEF AppInv, AppCoherent
<1>5. c \in WebAppType
  BY <1>2, PageOfApp, SuspendAll, SameWithPage DEF SameApp
<1> HIDE DEF p
<1>6. SameWindow(b, c) /\ c.page = p
  BY <1>2, WithPageWindow
<1>7. OnStageDeactivated(a) = d
  BY DEF OnStageDeactivated, b, c, p, m
<1> HIDE DEF c
<1>8. /\ d.page = p /\ d.preload_state = b.preload_state
      /\ d.hidden_window /\ ~d.did_activate_stage
      /\ d.added_to_window_mgr = b.added_to_window_mgr
  BY <1>5, <1>6 DEF WebAppType, SameWindow
<1>9. AppInv(d)
  BY <1>3, <1>4, <1>8
     DEF AppInv, AppCoherent, PreloadHides, SuspendedUnderHidden
<1>10. InDark(a, d)
  BY <1>2, <1>4, <1>8 DEF Calmer, SameWindow, InDark
<1>11. QED
  BY <1>7, <1>9, <1>10

\* ShowWindow shows an app that is not preloaded, and resumes it.
LEMMA ShowInv ==
  ASSUME NEW a \in WebAppType
  PROVE  /\ AppCoherent(a) => AppCoherent(ShowWindow(a))
         /\ AppInv(a) => AppInv(ShowWindow(a))
         /\ AppCoherent(a) => ShowWindow(a).preload_state = a.preload_state
<1> DEFINE b == [a EXCEPT !.hidden_window = FALSE]
           c == OnStageActivated(b)
           d == [c EXCEPT !.added_to_window_mgr = TRUE]
<1>1. CASE a.preload_state # "none"
  BY <1>1 DEF ShowWindow
<1>2. CASE a.preload_state = "none" /\ AppCoherent(a)
  <2>1. ShowWindow(a) = d
    BY <1>2 DEF ShowWindow
  <2>2. b \in WebAppType /\ b.preload_state = "none"
    <3>1. b \in WebAppType
      BY Zenon DEF WebAppType
    <3>2. QED
      BY <1>2, <3>1 DEF WebAppType
  <2>3. AppCoherent(b)
    BY <1>2 DEF AppCoherent, PreloadHides, WebAppType
  <2> HIDE DEF b
  <2>4. AppInv(c) /\ SameWindow(b, c) /\ c \in WebAppType
    BY <2>2, <2>3, StageActivatedInv, StageActivated DEF SameApp
  <2> HIDE DEF c
  <2>5. d.page = c.page /\ d.hidden_window = c.hidden_window /\ d.preload_state = "none"
    BY <2>2, <2>4 DEF WebAppType, SameWindow
  <2>6. AppInv(d)
    BY <2>2, <2>4, <2>5
       DEF AppInv, AppCoherent, PreloadHides, SuspendedUnderHidden, SameWindow
  <2>7. QED
    BY <1>2, <2>1, <2>5, <2>6 DEF AppInv
<1>3. QED
  BY <1>1, <1>2 DEF AppInv

LEMMA HideInv ==
  ASSUME NEW a \in WebAppType, NEW forced, AppInv(a)
  PROVE  AppInv(Hide(a, forced)) /\ InDark(a, Hide(a, forced))
  BY StageDeactivatedInv, CalmerReflexive, CalmerKeeps DEF Hide

LEMMA HideWindowInv ==
  ASSUME NEW a \in WebAppType, AppInv(a)
  PROVE  AppInv(HideWindow(a)) /\ InDark(a, HideWindow(a))
<1> DEFINE b == Hide(a, TRUE)
           c == [b EXCEPT !.added_to_window_mgr = FALSE]
<1>1. AppInv(b) /\ InDark(a, b) /\ b \in WebAppType
  BY HideInv, HideSame DEF SameApp
<1>2. HideWindow(a) = IF CanHideWindow(a) THEN c ELSE a
  BY DEF HideWindow
<1> HIDE DEF b
<1>3. /\ c.page = b.page /\ c.preload_state = b.preload_state
      /\ c.hidden_window = b.hidden_window
      /\ c.did_activate_stage = b.did_activate_stage
      /\ ~c.added_to_window_mgr
  BY <1>1 DEF WebAppType
<1>4. AppInv(c) /\ InDark(a, c)
  BY <1>1, <1>3
     DEF AppInv, AppCoherent, PreloadHides, SuspendedUnderHidden, InDark
<1>5. QED
  BY <1>2, <1>4, CalmerReflexive, CalmerKeeps

LEMMA RaiseInv ==
  ASSUME NEW a \in WebAppType, AppInv(a)
  PROVE  AppInv(Raise(a)) /\ Raise(a).preload_state = a.preload_state
<1> DEFINE b == IF a.window_type = "overlay" \/ (a.keep_alive /\ ~IsMinimized(a))
                  THEN OnStageActivated(a) ELSE a
           c == SetVisibilityState(WithPage(b, ResumeWebPageAll(b.page)), "visible")
<1>1. AppInv(b) /\ b.preload_state = a.preload_state
  BY StageActivatedInv DEF AppInv, SameWindow
<1>2. b \in WebAppType
  BY StageActivated DEF SameApp
<1>3. Raise(a) = IF IsMinimized(a) THEN c ELSE b
  BY DEF Raise
<1> HIDE DEF b
<1>4. AppInv(c) /\ c.preload_state = a.preload_state
  BY <1>1, <1>2, ResumeShown DEF AppInv, SameWindow
<1>5. QED
  BY <1>1, <1>3, <1>4

LEMMA AboutToMinimizeInv ==
  ASSUME NEW a \in WebAppType, AppInv(a)
  PROVE  AppInv(StateAboutToMinimize(a)) /\ InDark(a, StateAboutToMinimize(a))
  BY HideMediaCalm, CalmerKeeps DEF StateAboutToMinimize

LEMMA StateChangedInv ==
  ASSUME NEW a \in WebAppType, NEW new_state \in HostStates, AppInv(a)
  PROVE  AppInv(StateChanged(a, new_state))
<1> DEFINE b == [a EXCEPT !.host_state = new_state]
<1>1. b \in WebAppType
  BY Zenon DEF WebAppType
<1>2. AppInv(b)
  BY CalmerWithFlags, CalmerKeeps
<1> HIDE DEF b
<1>3. QED
  BY <1>1, <1>2, StageActivatedInv, StageDeactivatedInv DEF StateChanged, b, AppInv

\* Neither the first frame nor a later one shows an app that is preloaded.
LEMMA FirstFrameInv ==
  ASSUME NEW a \in WebAppType, AppInv(a)
  PROVE  /\ AppInv(FirstFrameVisuallyCommitted(a))
         /\ InDark(a, FirstFrameVisuallyCommitted(a))
<1> DEFINE s == a.did_activate_stage /\ ~a.use_prerendering
           b == [a EXCEPT !.did_activate_stage = s]
<1>1. CASE a.hidden_window \/ a.preload_state # "none"
  BY <1>1, CalmerReflexive, CalmerKeeps DEF FirstFrameVisuallyCommitted
<1>2. CASE ~(a.hidden_window \/ a.preload_state # "none")
  <2>1. FirstFrameVisuallyCommitted(a) = ShowWindow(b)
    BY <1>2 DEF FirstFrameVisuallyCommitted
  <2>2. s \in BOOLEAN
    BY DEF WebAppType
  <2> HIDE DEF s
  <2>3. b \in WebAppType
    BY <2>2, SameWithFlags DEF SameApp
  <2>4. /\ b.page = a.page /\ b.preload_state = a.preload_state
        /\ b.hidden_window = a.hidden_window
    BY DEF WebAppType
  <2>5. AppInv(b)
    BY <1>2, <2>4 DEF AppInv, AppCoherent, PreloadHides, SuspendedUnderHidden
  <2>6. ShowWindow(b).preload_state = "none"
    BY <1>2, <2>3, <2>4, <2>5, ShowInv DEF AppInv
  <2>7. QED
    BY <2>1, <2>3, <2>5, <2>6, ShowInv DEF InDark
<1>3. QED
  BY <1>1, <1>2

LEMMA SwapFrameInv ==
  ASSUME NEW a \in WebAppType, AppInv(a)
  PROVE  /\ AppInv(DidSwapPageCompositorFrame(a))
         /\ InDark(a, DidSwapPageCompositorFrame(a))
<1> DEFINE b == OnStageActivated(a)
           c == [b EXCEPT !.did_activate_stage = TRUE]
<1>1. CASE a.did_activate_stage \/ a.hidden_window \/ a.preload_state # "none"
  BY <1>1, CalmerReflexive, CalmerKeeps DEF DidSwapPageCompositorFrame
<1>2. CASE ~(a.did_activate_stage \/ a.hidden_window \/ a.preload_state # "none")
  <2>1. DidSwapPageCompositorFrame(a) = c
    BY <1>2 DEF DidSwapPageCompositorFrame
  <2>2. b \in WebAppType /\ AppInv(b) /\ b.preload_state = "none"
    BY <1>2, StageActivated, StageActivatedInv DEF SameApp, AppInv, SameWindow
  <2> HIDE DEF b
  <2>3. /\ c.page = b.page /\ c.preload_state = b.preload_state
        /\ c.hidden_window = b.hidden_window
    BY <2>2 DEF WebAppType
  <2>4. AppInv(c) /\ InDark(a, c)
    BY <2>2, <2>3
       DEF AppInv, AppCoherent, PreloadHides, SuspendedUnderHidden, InDark
  <2>5. QED
    BY <2>1, <2>4
<1>3. QED
  BY <1>1, <1>2

\* A relaunch ends a preload: page and app forget it together.
LEMMA ClearPreloadCoherent ==
  ASSUME NEW a \in WebAppType, Coherent(a.page)
  PROVE  AppCoherent(ClearPreloadState(a))
<1> DEFINE p == IF a.preload_state = "partial" THEN ResumeWebPageMedia(a.page)
                                               ELSE a.page
           q == [p EXCEPT !.is_preload = FALSE]
           b == [a EXCEPT !.preload_state = "none", !.page = q]
<1>1. p \in WebPageType /\ Coherent(p)
  BY PageOfApp, ResumeMedia, ResumeMediaKnown DEF SameClosing
<1>2. ClearPreloadState(a) = b
  BY DEF ClearPreloadState
<1> HIDE DEF p
<1>3. Coherent(q) /\ ~q.is_preload
  BY <1>1 DEF WebPageType, Coherent, DomKnown, SuspensionDue, ForegroundOnly,
     MediaKnown, VisibleRuns, ReloadTimerAgrees
<1> HIDE DEF q
<1>4. b.page = q /\ b.preload_state = "none"
  BY DEF WebAppType
<1>5. QED
  BY <1>2, <1>3, <1>4 DEF AppCoherent, PreloadHides

LEMMA UnhideCoherent ==
  ASSUME NEW a \in WebAppType, Coherent(a.page)
  PROVE  AppCoherent(Unhide(a)) /\ Unhide(a).preload_state = "none"
<1> DEFINE h == [a EXCEPT !.hidden_window = FALSE]
           b == ClearPreloadState(h)
           w == b.added_to_window_mgr /\ ~(b.keep_alive /\ ~b.page.progress)
           c == [b EXCEPT !.added_to_window_mgr = w]
<1>1. h \in WebAppType /\ h.page = a.page
  <2>1. h \in WebAppType
    BY Zenon DEF WebAppType
  <2>2. QED
    BY <2>1 DEF WebAppType
<1> HIDE DEF h
<1>2. b \in WebAppType /\ AppCoherent(b)
  BY <1>1, ClearPreload, ClearPreloadCoherent DEF SameApp
<1>3. b.preload_state = "none"
  BY <1>1 DEF ClearPreloadState, WebAppType
<1>4. Unhide(a) = IF c.added_to_window_mgr \/ (c.page.progress /\ c.page.has_been_shown)
                    THEN ShowWindow(c) ELSE c
  BY DEF Unhide, h
<1> HIDE DEF b
<1>5. w \in BOOLEAN
  BY <1>2 DEF WebAppType
<1> HIDE DEF w
<1>6. c \in WebAppType /\ c.page = b.page /\ c.preload_state = "none"
  <2>1. c \in WebAppType
    BY <1>2, <1>5, Zenon DEF WebAppType
  <2>2. QED
    BY <1>2, <1>3, <2>1 DEF WebAppType
<1>7. AppCoherent(c)
  BY <1>2, <1>3, <1>6 DEF AppCoherent, PreloadHides
<1> HIDE DEF c
<1>8. QED
  BY <1>4, <1>6, <1>7, ShowInv

\* The relaunch resumes the page itself: the page is not suspended when its
\* window has just stopped being hidden.
LEMMA PageRelaunchAwake ==
  ASSUME NEW p \in WebPageType, NEW kind \in RelaunchKinds
  PROVE  /\ NoMoreSuspended(p, PageRelaunch(p, kind))
         /\ ~PageRelaunch(p, kind).is_suspended
<1> DEFINE q == ResumeWebPagePaintingAndJSExecution(p)
           r == LoadUrl(q, "app")
<1>1. q \in WebPageType /\ NoMoreSuspended(p, q) /\ ~q.is_suspended
  BY ResumePainting, ResumePaintingKnown DEF SameClosing
<1>2. PageRelaunch(p, kind) = IF kind = "navigate" THEN r ELSE q
  BY DEF PageRelaunch
<1> HIDE DEF q
<1>3. NoMoreSuspended(q, r) /\ ~r.is_suspended
  BY <1>1, LoadKnown, SameKnowledgeSuspends DEF SameKnowledge
<1>4. QED
  BY <1>1, <1>2, <1>3, NoMoreSuspendedTransitive

LEMMA RelaunchInv ==
  ASSUME NEW a \in WebAppType, NEW kind \in RelaunchKinds, AppInv(a)
  PROVE  AppInv(Relaunch(a, kind)) /\ Relaunch(a, kind).preload_state = "none"
<1> DEFINE u == IF a.hidden_window THEN Unhide(a) ELSE a
           b == RecoverFromCrash(u)
           p == PageRelaunch(b.page, kind)
           c == WithPage(b, p)
           d == [c EXCEPT !.in_progress_relaunch = TRUE]
<1>1. u \in WebAppType /\ AppCoherent(u) /\ u.preload_state = "none"
  <2>1. CASE a.hidden_window
    BY <2>1, UnhideSame, UnhideCoherent DEF SameApp, AppInv, AppCoherent
  <2>2. CASE ~a.hidden_window
    BY <2>2 DEF AppInv, AppCoherent, PreloadHides
  <2>3. QED
    BY <2>1, <2>2
<1> HIDE DEF u
<1>2. b \in WebAppType /\ AppCoherent(b) /\ b.preload_state = "none"
  BY <1>1, Recover, RecoverCalm, CalmerKeeps DEF SameApp, Calmer, SameWindow
<1>3. Relaunch(a, kind) = IF ~PageRelaunches(b.page, kind) THEN d
                          ELSE IF c.handles_relaunch THEN c ELSE Raise(c)
  BY DEF Relaunch, b, u
<1> HIDE DEF b
<1>4. NoMoreSuspended(b.page, p) /\ ~p.is_suspended
  BY <1>2, PageOfApp, PageRelaunchAwake
<1>5. c \in WebAppType
  BY <1>2, PageOfApp, PageRelaunchSame, SameWithPage DEF SameApp
<1> HIDE DEF p
<1>6. Calmer(b, c) /\ c.page = p
  BY <1>2, <1>4, CalmerWithPage, WithPageWindow
<1> HIDE DEF c
<1>7. AppInv(c) /\ c.preload_state = "none"
  BY <1>2, <1>4, <1>6, CalmerKeeps, AwakeInv DEF Calmer, SameWindow
<1>8. AppInv(d) /\ d.preload_state = "none"
  BY <1>5, <1>7, CalmerWithFlags, CalmerKeeps DEF Calmer, SameWindow
<1>9. AppInv(Raise(c)) /\ Raise(c).preload_state = "none"
  BY <1>5, <1>7, RaiseInv
<1>10. QED
  BY <1>3, <1>7, <1>8, <1>9

LEMMA PendingRelaunchInv ==
  ASSUME NEW a \in WebAppType, AppInv(a), NEW kind \in PageRelaunchKinds
  PROVE  /\ AppInv(DoPendingRelaunch(a, kind))
         /\ InDark(a, DoPendingRelaunch(a, kind))
<1> DEFINE b == Relaunch(a, kind)
<1>1. b \in WebAppType /\ AppInv(b) /\ b.preload_state = "none"
  BY RelaunchSame, RelaunchInv DEF RelaunchKinds, PageRelaunchKinds, SameApp
<1>2. DoPendingRelaunch(a, kind) = IF a.in_progress_relaunch
                               THEN [b EXCEPT !.in_progress_relaunch = FALSE]
                               ELSE a
  BY DEF DoPendingRelaunch
<1> HIDE DEF b
<1> DEFINE c == [b EXCEPT !.in_progress_relaunch = FALSE]
<1>3. AppInv(c) /\ c.preload_state = "none"
  BY <1>1, CalmerWithFlags, CalmerKeeps DEF Calmer, SameWindow
<1> HIDE DEF c
<1>4. QED
  BY <1>2, <1>3, CalmerReflexive, CalmerKeeps DEF c, InDark

\* A load that finishes shows nothing that is hidden.
LEMMA AppLoadFinishedInv ==
  ASSUME NEW a \in WebAppType, AppInv(a), NEW kind \in PageRelaunchKinds
  PROVE  /\ AppInv(WebPageLoadFinished(a, kind))
         /\ InDark(a, WebPageLoadFinished(a, kind))
<1> DEFINE p == LoadUrl(a.page, a.page.url)
           w == WithPage(a, p)
           b == [w EXCEPT !.need_reload = FALSE]
<1>1. a.page.url \in MaybeUrl
  BY PageOfApp DEF WebPageType
<1>2. w \in WebAppType /\ Calmer(a, w)
  BY <1>1, PageOfApp, Load, LoadKnown, SameKnowledgeSuspends, CalmerWithPage,
     SameWithPage DEF SameApp
<1>3. WebPageLoadFinished(a, kind) = IF a.hidden_window THEN a
                               ELSE IF a.need_reload THEN b
                               ELSE DoPendingRelaunch(a, kind)
  BY DEF WebPageLoadFinished, WithPage
<1> HIDE DEF w
<1>4. AppInv(b) /\ InDark(a, b)
  BY <1>2, CalmerWithFlags, CalmerTransitive, CalmerKeeps
<1>5. QED
  BY <1>3, <1>4, PendingRelaunchInv, CalmerReflexive, CalmerKeeps

\* A suspension that was put off until the load finishes is made good.
LEMMA LoadFinishedInv ==
  ASSUME NEW a \in WebAppType, AppInv(a), NEW kind \in PageRelaunchKinds
  PROVE  AppInv(LoadFinished(a, kind)) /\ InDark(a, LoadFinished(a, kind))
<1> DEFINE c == WithPage(a, Committed(a.page))
           b == WebPageLoadFinished(c, kind)
           d == WithPage(b, SuspendAtLoad(b.page))
<1>1. c \in WebAppType /\ AppInv(c) /\ InDark(a, c)
  BY PageOfApp, CommittedSame, CommittedKnown, SameKnowledgeSuspends,
     CalmerWithPage, CalmerKeeps, SameWithPage DEF SameApp
<1> HIDE DEF c
<1>2. b \in WebAppType /\ AppInv(b) /\ InDark(c, b)
  BY <1>1, AppLoadFinished, AppLoadFinishedInv DEF SameApp
<1>3. LoadFinished(a, kind) = d
  BY DEF LoadFinished, b, c
<1> HIDE DEF b
<1>4. NoMoreSuspended(b.page, SuspendAtLoad(b.page))
  BY <1>2, PageOfApp, SuspendAtLoadKnown
<1>5. AppInv(d) /\ InDark(b, d)
  BY <1>2, <1>4, CalmerWithPage, CalmerKeeps
<1>6. QED
  BY <1>1, <1>2, <1>3, <1>5, InDarkTransitive

\* A preloaded app is launched hidden, with its media suspended or not.
LEMMA NewWebAppInv ==
  ASSUME NEW app_id \in AppIds, NEW i \in Instances, NEW args \in LaunchType,
         NEW need_reload \in BOOLEAN
  PROVE  AppInv(NewWebApp(app_id, i, args, need_reload))
<1> DEFINE bg    == args.background_run /\ args.window_type = "card"
           state == PreloadState(args)
           fresh == NewPage(bg)
           pre   == state # "none"
           page  == [fresh EXCEPT !.is_preload = pre]
           media == IF state = "partial" THEN SuspendWebPageMedia(page) ELSE page
           last  == LoadUrl(media, "app")
           new   == NewWebApp(app_id, i, args, need_reload)
<1>1. bg \in BOOLEAN /\ pre \in BOOLEAN
  BY DEF LaunchType
<1>2. /\ fresh \in WebPageType /\ Coherent(fresh) /\ ~fresh.is_suspended
      /\ fresh.visibility = "launching"
  BY <1>1, NewPageType, NewPageCoherent DEF NewPage
<1> HIDE DEF fresh, pre
<1>3. page \in WebPageType
  BY <1>1, <1>2, Zenon DEF WebPageType
<1>4. /\ Coherent(page) /\ ~page.is_suspended /\ page.is_preload = pre
      /\ page.visibility = "launching"
  BY <1>2 DEF WebPageType, Coherent, DomKnown, SuspensionDue, ForegroundOnly,
     MediaKnown, VisibleRuns, ReloadTimerAgrees
<1> HIDE DEF page
<1>5. /\ media \in WebPageType /\ Coherent(media)
      /\ ~media.is_suspended /\ media.is_preload = pre
  BY <1>3, <1>4, SuspendMedia, SuspendMediaKnown DEF SameClosing, NoMoreSuspended
<1> HIDE DEF media
<1>6. Coherent(last) /\ ~last.is_suspended /\ last.is_preload = pre
  BY <1>5, LoadKnown, SameKnowledgeSuspends DEF NoMoreSuspended
<1>7. /\ new.page = last
      /\ new.preload_state = state
      /\ new.hidden_window = pre
      /\ ~new.added_to_window_mgr
      /\ ~new.did_activate_stage
  BY DEF NewWebApp, fresh, pre, page, media
<1> HIDE DEF new, last
<1>8. AppCoherent(new)
  BY <1>6, <1>7 DEF AppCoherent, PreloadHides, pre
<1>9. QED
  BY <1>6, <1>7, <1>8, AwakeInv DEF new

\* An app that closes is hidden and suspended, and its page on its way to its
\* end.
LEMMA ClosingInv ==
  ASSUME NEW a \in WebAppType, AppInv(a)
  PROVE  /\ AppInv(Closing(a)) /\ Progressing(Closing(a).page)
         /\ InDark(a, Closing(a))
<1> DEFINE q == [a.page EXCEPT !.is_closing = TRUE]
           c == WithPage(a, q)
           b == OnStageDeactivated(c)
           p == IF b.page.has_close_callback THEN ExecuteCloseCallback(b.page)
                                             ELSE CleanResources(b.page)
           d == WithPage(b, p)
<1>1. q \in WebPageType
  BY PageOfApp, Zenon DEF WebPageType
<1>2. SameKnowledge(a.page, q)
  BY PageOfApp DEF WebPageType, SameKnowledge
<1> HIDE DEF q
<1>3. c \in WebAppType
  BY <1>1, Zenon DEF WebAppType, WithPage
<1>4. AppInv(c) /\ InDark(a, c)
  BY <1>2, SameKnowledgeSuspends, CalmerWithPage, CalmerKeeps
<1>5. Closing(a) = d
  BY DEF Closing, WithPage, q
<1> HIDE DEF c
<1>6. b \in WebAppType /\ AppInv(b) /\ InDark(c, b)
  BY <1>3, <1>4, StageDeactivated, StageDeactivatedInv DEF SameApp
<1> HIDE DEF b
<1>7. SameKnowledge(b.page, p) /\ Progressing(p)
  BY <1>6, PageOfApp, CleanResourcesKnown, ExecuteCloseCallbackKnown
<1> HIDE DEF p
<1>8. AppInv(d) /\ d.page = p /\ InDark(b, d)
  BY <1>6, <1>7, SameKnowledgeSuspends, CalmerWithPage, CalmerKeeps, WithPageWindow
<1>9. QED
  BY <1>4, <1>5, <1>6, <1>7, <1>8, InDarkTransitive

=============================================================================
