--------------------------- MODULE WebAppManager ---------------------------
(***************************************************************************)
(* The registry of apps of WebAppManager, with every app it holds, and the *)
(* events that reach them: calls of the application manager over the Luna  *)
(* bus, events of the compositor, callbacks of the web engine, commands of *)
(* the page's webOSSystem object, and timers. All of them run to           *)
(* completion, one after the other, on the UI thread's main loop: each is  *)
(* one action.                                                             *)
(***************************************************************************)
EXTENDS WebApp, FiniteSets

CONSTANTS
  Apps,        \* the app objects the process allocates; the bound on launches
  LaunchArgs,  \* the descriptions and arguments apps are launched with
  NoApp,       \* no app object
  MaxCrashes,  \* bound: crashes counted for one app id
  MaxLeaked    \* bound: sources one timer loses track of

ASSUME LaunchArgsAssumption == LaunchArgs \subseteq LaunchType
ASSUME NoAppAssumption == NoApp \notin Apps
ASSUME BoundsAssumption == MaxCrashes \in Nat /\ MaxLeaked \in Nat

VARIABLES
  apps,                  \* the state of every app object
  app_list_,             \* the running apps
  app_page_map_,         \* the apps whose page is in the map of pages
  closing_app_list_,     \* instance id -> closing app
  last_crashed_app_ids_, \* app id -> crashes in the foreground
  app_version_,          \* the app ids whose version is recorded
  posted                 \* instances in the last list sent to subscribers

registry == <<app_list_, app_page_map_, closing_app_list_,
              last_crashed_app_ids_, app_version_, posted>>

vars == <<apps, registry>>

\* The bound object of a slot no launch has used yet.
NoWebApp(app_id, instance_id) ==
  [NewWebApp(app_id, instance_id,
             [keep_alive |-> FALSE, hidden |-> FALSE, preload |-> "none",
              background_run |-> FALSE, handles_relaunch |-> FALSE,
              use_prerendering |-> FALSE, window_type |-> "card"], FALSE)
     EXCEPT !.status = "none"]

TypeOK ==
  /\ apps \in [Apps -> WebAppType]
  /\ app_list_ \subseteq Apps
  /\ app_page_map_ \subseteq Apps
  /\ closing_app_list_ \in [Instances -> Apps \cup {NoApp}]
  /\ last_crashed_app_ids_ \in [AppIds -> Nat]
  /\ app_version_ \subseteq AppIds
  /\ posted \subseteq Instances

Init ==
  /\ apps = [x \in Apps |-> NoWebApp(CHOOSE i \in AppIds : TRUE,
                                     CHOOSE i \in Instances : TRUE)]
  /\ app_list_ = {}
  /\ app_page_map_ = {}
  /\ closing_app_list_ = [i \in Instances |-> NoApp]
  /\ last_crashed_app_ids_ = [i \in AppIds |-> 0]
  /\ app_version_ = {}
  /\ posted = {}

-----------------------------------------------------------------------------
(* The registry.                                                           *)

\* FindAppByInstanceId looks through the running apps.
Finds(x, instance_id) ==
  x \in app_list_ /\ apps[x].instance_id = instance_id

IsRunningApp(instance_id) == \E x \in app_list_ : Finds(x, instance_id)

InstancesOf(list) == {apps[x].instance_id : x \in list}

\* An event changes app x and nothing of the registry.
Update(x, a) ==
  /\ apps' = [apps EXCEPT ![x] = a]
  /\ UNCHANGED registry

\* The page of an app enters and leaves the map of pages.
WebPageAdded(x) == app_page_map_' = app_page_map_ \cup {x}
WebPageRemoved(closed) == app_page_map_' = app_page_map_ \ closed

\* Mutants of Unlist: the page stays in the map; the list is posted before the
\* apps leave it; the crash counters are not reset.
UnlistKeepsPages(closed) ==
  /\ app_list_' = app_list_ \ closed
  /\ posted' = InstancesOf(app_list_')
  /\ last_crashed_app_ids_' = [i \in AppIds |-> 0]
  /\ UNCHANGED <<app_page_map_, app_version_>>

UnlistPostsFirst(closed) ==
  /\ app_list_' = app_list_ \ closed
  /\ WebPageRemoved(closed)
  /\ posted' = InstancesOf(app_list_)
  /\ last_crashed_app_ids_' = [i \in AppIds |-> 0]
  /\ UNCHANGED app_version_

UnlistKeepsCounts(closed) ==
  /\ app_list_' = app_list_ \ closed
  /\ WebPageRemoved(closed)
  /\ posted' = InstancesOf(app_list_')
  /\ UNCHANGED <<last_crashed_app_ids_, app_version_>>

\* The apps of closed leave the registry: AppDeleted, WebPageRemoved,
\* PostRunningAppList and the reset of the crash counters, in this order.
Unlist(closed) ==
  /\ app_list_' = app_list_ \ closed
  /\ WebPageRemoved(closed)
  /\ posted' = InstancesOf(app_list_')
  /\ last_crashed_app_ids_' = [i \in AppIds |-> 0]
  /\ UNCHANGED app_version_

\* closing_app_list_.emplace keeps the entry that is there.
Emplace(list, closed) ==
  [i \in Instances |->
     IF list[i] = NoApp /\ \E x \in closed : apps[x].instance_id = i
       THEN CHOOSE x \in closed : apps[x].instance_id = i
       ELSE list[i]]

\* Mutants of OnlyHides: that HideWindow may hide nothing is not looked at; an
\* app that is hidden already cannot be hidden.
KeptAliveOnlyHides(a) == a.keep_alive

OnlyHidesOnce(a) == a.keep_alive /\ CanHideWindow(a) /\ ~a.hidden_window

\* CloseAppInternal hides an app that is kept alive, and closes any other one;
\* that the app is already closing makes no difference.
OnlyHides(a) == a.keep_alive /\ CanHideWindow(a)

CloseAppInternal(x, a) ==
  IF OnlyHides(a)
    THEN Update(x, HideWindow(a))
    ELSE /\ apps' = [apps EXCEPT ![x] = Closing(a)]
         /\ closing_app_list_' = Emplace(closing_app_list_, {x})
         /\ Unlist({x})

\* CloseAppInternal with ignore_clean_resource.
CloseAppNow(x, a) ==
  IF OnlyHides(a)
    THEN Update(x, HideWindow(a))
    ELSE /\ apps' = [apps EXCEPT ![x] =
                       Deleted(OnStageDeactivated(
                                 [a EXCEPT !.page.is_closing = TRUE]))]
         /\ UNCHANGED closing_app_list_
         /\ Unlist({x})

Forced(a) == [a EXCEPT !.keep_alive = FALSE]

ForceCloseAppInternal(x, a) == CloseAppInternal(x, Forced(a))

\* RemoveClosingAppList, which CloseWebApp calls with the id of the app: an
\* entry goes away only if some instance id happens to be that app id.
RemoveClosingAppList(id) ==
  [i \in Instances |-> IF i = id THEN NoApp ELSE closing_app_list_[i]]

CloseWebApp(x, a) ==
  /\ apps' = [apps EXCEPT ![x] = Deleted(a)]
  /\ app_list_' = app_list_ \ {x}
  /\ closing_app_list_' = RemoveClosingAppList(a.app_id)
  /\ UNCHANGED <<app_page_map_, last_crashed_app_ids_, app_version_, posted>>

-----------------------------------------------------------------------------
(* Calls of the application manager.                                       *)

\* Launch of an instance that is not running. The version of the description
\* is compared with the one of the last launch of the same app id.
OnLaunchUrl(x, app_id, instance_id, args, updated) ==
  /\ apps[x].status = "none"
  /\ ~IsRunningApp(instance_id)
  /\ apps' = [apps EXCEPT ![x] =
                NewWebApp(app_id, instance_id, args,
                          updated /\ app_id \in app_version_)]
  /\ WebPageAdded(x)
  /\ app_list_' = app_list_ \cup {x}
  /\ app_version_' = app_version_ \cup {app_id}
  /\ UNCHANGED <<closing_app_list_, last_crashed_app_ids_, posted>>

\* Launch of a running instance, for whichever app id: that it is another one
\* is only logged.
OnRelaunchApp(app_id, instance_id, kind) ==
  \E x \in app_list_ :
    /\ app_id \in AppIds
    /\ Finds(x, instance_id)
    /\ LET a == [apps[x] EXCEPT !.close_page_requested = @ /\ ~apps[x].keep_alive]
       IN  Update(x, IF kind = "ignore" THEN a ELSE Relaunch(a, kind))

OnKillApp(app_id, instance_id, force) ==
  \E x \in app_list_ :
    /\ Finds(x, instance_id)
    /\ apps[x].app_id = app_id
    /\ IF force THEN ForceCloseAppInternal(x, apps[x])
                ELSE CloseAppInternal(x, apps[x])

OnPauseApp(instance_id) ==
  \E x \in app_list_ :
    /\ Finds(x, instance_id)
    /\ Update(x, HideWindow(apps[x]))

\* Every app, or the apps of one process: any of them may share it.
CloseAllApps(running_apps) ==
  /\ running_apps # {}
  /\ apps' = [x \in Apps |-> IF x \in running_apps THEN Closing(Forced(apps[x]))
                                                   ELSE apps[x]]
  /\ closing_app_list_' = Emplace(closing_app_list_, running_apps)
  /\ Unlist(running_apps)

\* The memory manager is about to kill the app's process: a hidden app that is
\* kept alive closes now, any other one when the compositor closes it.
SetForceCloseApp(instance_id) ==
  \E x \in app_list_ :
    /\ Finds(x, instance_id)
    /\ IF apps[x].keep_alive /\ apps[x].hidden_window
         THEN ForceCloseAppInternal(x, apps[x])
         ELSE Update(x, [apps[x] EXCEPT !.force_close = TRUE])

\* The pages that show the load error page load the failed url again.
UpdateNetworkStatus ==
  /\ apps' = [x \in Apps |->
                IF x \in app_page_map_ /\ apps[x].page.is_load_error_page_finish
                  THEN WithPage(apps[x], ReloadFailedUrl(apps[x].page))
                  ELSE apps[x]]
  /\ UNCHANGED registry

-----------------------------------------------------------------------------
(* Events of the compositor, which reach closing apps too.                 *)

Live(x) == apps[x].status = "live"

DoClose(x) ==
  /\ Live(x)
  /\ IF apps[x].force_close THEN ForceCloseAppInternal(x, apps[x])
                            ELSE CloseAppInternal(x, apps[x])

WindowStateAboutToChange(x) ==
  Live(x) /\ Update(x, StateAboutToMinimize(apps[x]))

WindowStateChange(x, new_state) ==
  Live(x) /\ Update(x, StateChanged(apps[x], new_state))

-----------------------------------------------------------------------------
(* Commands of the page's script.                                          *)

Script(x) == Live(x) /\ ScriptRuns(apps[x].page)

Activate(x) ==
  /\ Script(x)
  /\ apps[x].handles_relaunch
  /\ Update(x, Raise(apps[x]))

\* GoBackground closes an overlay; it only asks the compositor to minimize
\* another window.
Deactivate(x) ==
  /\ Script(x)
  /\ apps[x].window_type = "overlay"
  /\ DoClose(x)

HideCommand(x) == Script(x) /\ Update(x, Hide(apps[x], FALSE))

SetKeepAlive(x, keep) ==
  Script(x) /\ Update(x, [apps[x] EXCEPT !.keep_alive = keep])

SetHasOnCloseCallback(x, has) ==
  Script(x) /\ Update(x, [apps[x] EXCEPT !.page.has_close_callback = has])

DidRunCloseCallback(x) ==
  /\ Script(x)
  /\ apps[x].page.script_pending
  /\ CloseWebApp(x, [apps[x] EXCEPT !.page.close_callback_timer = Stop(@)])

\* window.close() asks the application manager to close the app, once.
WebPageClosePageRequested(x) ==
  /\ Script(x)
  /\ ~apps[x].page.is_closing
  /\ Update(x, [apps[x] EXCEPT !.close_page_requested = TRUE])

-----------------------------------------------------------------------------
(* Callbacks of the web engine.                                            *)

\* The engine starts on the url that was asked for; with none, the script may
\* navigate to another page of the app.
NavigationStarts(x, url) ==
  LET p == apps[x].page
  IN  /\ Live(x)
      /\ \/ url # "none" /\ url = p.request
         \/ /\ url = "app" /\ p.request = "none" /\ p.loading = "none"
            /\ ScriptRuns(p)
      /\ Update(x, WithPage(apps[x], DidStartNavigation(p, url)))

SubframeNavigationStarts(x) ==
  Script(x) /\ Update(x, WithPage(apps[x], HandleLoadStarted(apps[x].page)))

LoadProgressChanged(x) ==
  /\ Live(x)
  /\ apps[x].page.loading # "none"
  /\ Update(x, [apps[x] EXCEPT !.page.progress = TRUE])

PageLoadFinished(x) ==
  /\ Live(x)
  /\ apps[x].page.loading # "none"
  /\ IF apps[x].page.cleaning_resources
       THEN CloseWebApp(x, WithPage(apps[x], Committed(apps[x].page)))
       ELSE \E kind \in PageRelaunchKinds :
              Update(x, LoadFinished(apps[x], kind))

\* HandleLoadFailed or, when the network changed, the url of the view again:
\* the one that failed, unless another one was asked for since.
AfterLoadFailed(p, network_changed, shown) ==
  IF network_changed
    THEN LoadUrl(p, IF p.request = "none" THEN "app" ELSE p.request)
    ELSE LoadErrorPage(p, shown /\ ~p.is_preload)

\* An app that is still preloaded is closed first, and hidden if it is kept
\* alive. about:blank needs no network.
LoadFailed(x, network_changed, shown) ==
  LET a         == [apps[x] EXCEPT !.page.loading = "none"]
      preloaded == a.preload_state # "none"
      closes    == preloaded /\ ~OnlyHides(a)
      b         == IF closes THEN Closing(a)
                   ELSE IF preloaded THEN HideWindow(a) ELSE a
  IN  /\ Live(x)
      /\ apps[x].page.loading \in {"app"} \cup (IF network_changed THEN {}
                                               ELSE {"error"})
      /\ apps' = [apps EXCEPT ![x] =
                    WithPage(b, AfterLoadFailed(b.page, network_changed, shown))]
      /\ IF closes
           THEN /\ closing_app_list_' = Emplace(closing_app_list_, {x})
                /\ Unlist({x})
           ELSE UNCHANGED registry

\* The view paints for the first time since it was told to watch for it.
LoadVisuallyCommitted(x) ==
  /\ Script(x)
  /\ Update(x, FirstFrameVisuallyCommitted(
                 [apps[x] EXCEPT !.page.has_been_shown = TRUE]))

DidSwapCompositorFrame(x) ==
  Script(x) /\ Update(x, DidSwapPageCompositorFrame(apps[x]))

\* A renderer starts for the url that was asked for: PostWebProcessCreated.
RenderProcessCreated(x) ==
  /\ Live(x)
  /\ apps[x].page.request # "none"
  /\ posted' = InstancesOf(app_list_)
  /\ UNCHANGED <<apps, app_list_, app_page_map_, closing_app_list_,
                 last_crashed_app_ids_, app_version_>>

-----------------------------------------------------------------------------
(* A renderer that crashes.                                                *)

kContinuousReloadingLimit == 3

\* Mutant of ReloadingLimit: the same for every window.
ReloadingLimitOfAny(a) == kContinuousReloadingLimit

ReloadingLimit(a) ==
  IF IsNormal(a) THEN kContinuousReloadingLimit - 1
                 ELSE kContinuousReloadingLimit

\* ProcessCrashed finds the app by its instance id, which is its own.
ProcessCrashed(x, a) ==
  LET count == last_crashed_app_ids_[a.app_id] + 1
      closes == count >= ReloadingLimit(a)
  IN  IF IsMinimized(a)
        THEN Update(x, [a EXCEPT !.crashed = TRUE])
        ELSE IF closes /\ ~OnlyHides(a)
          THEN CloseAppNow(x, a)
          ELSE /\ apps' = [apps EXCEPT ![x] = IF closes THEN HideWindow(a)
                                              ELSE ReloadDefaultPage(a)]
               /\ last_crashed_app_ids_' =
                    [last_crashed_app_ids_ EXCEPT ![a.app_id] = count]
               /\ UNCHANGED <<app_list_, app_page_map_, closing_app_list_,
                              app_version_, posted>>

\* Mutant of RenderProcessCrashed: a closing app is left as it is.
CrashedWhileClosingIsIgnored(x) ==
  LET p == apps[x].page
  IN  /\ Live(x)
      /\ {p.url, p.loading} # {"none"}
      /\ IF p.is_closing
           THEN Update(x, [apps[x] EXCEPT
                             !.page.close_callback_timer = StopIfRunning(@)])
           ELSE ProcessCrashed(x, WithPage(apps[x], RecreateWebView(p)))

RenderProcessCrashed(x) ==
  LET p == apps[x].page
  IN  /\ Live(x)
      /\ {p.url, p.loading} # {"none"}
      /\ IF p.is_closing
           THEN CloseWebApp(x, [apps[x] EXCEPT
                                  !.page.close_callback_timer = StopIfRunning(@)])
           ELSE /\ x \in app_list_
                /\ ProcessCrashed(x, WithPage(apps[x], RecreateWebView(p)))

-----------------------------------------------------------------------------
(* Timers.                                                                 *)

DomSuspendTimerFires(x) ==
  /\ Live(x)
  /\ CanFire(apps[x].page.dom_suspend_timer)
  /\ Update(x, WithPage(apps[x], DomSuspendTimerFired(apps[x].page)))

TimeoutCloseCallback(x) ==
  /\ Live(x)
  /\ CanFire(apps[x].page.close_callback_timer)
  /\ CloseWebApp(x, [apps[x] EXCEPT
                       !.page.close_callback_timer = Stop(Fired(@))])

NetErrorReloadTimerFires(x) ==
  /\ Live(x)
  /\ apps[x].page.net_error_reload_timer
  /\ Update(x, WithPage(apps[x], ReloadFailedUrl(apps[x].page)))

-----------------------------------------------------------------------------
(* The whole system. Its counters are bounded.                             *)

WithinBounds ==
  /\ \A x \in Apps :
       /\ apps[x].page.dom_suspend_timer.leaked <= MaxLeaked
       /\ apps[x].page.close_callback_timer.leaked <= MaxLeaked
  /\ \A i \in AppIds : last_crashed_app_ids_[i] <= MaxCrashes

ManagerNext ==
  \/ \E x \in Apps, app_id \in AppIds, i \in Instances, args \in LaunchArgs,
        updated \in BOOLEAN : OnLaunchUrl(x, app_id, i, args, updated)
  \/ \E app_id \in AppIds, i \in Instances, kind \in RelaunchKinds :
        OnRelaunchApp(app_id, i, kind)
  \/ \E app_id \in AppIds, i \in Instances, force \in BOOLEAN :
        OnKillApp(app_id, i, force)
  \/ \E i \in Instances : OnPauseApp(i) \/ SetForceCloseApp(i)
  \/ \E running_apps \in SUBSET app_list_ : CloseAllApps(running_apps)
  \/ UpdateNetworkStatus

WindowNext(x) ==
  \/ DoClose(x)
  \/ WindowStateAboutToChange(x)
  \/ \E new_state \in HostStates : WindowStateChange(x, new_state)

ScriptNext(x) ==
  \/ Activate(x)
  \/ Deactivate(x)
  \/ HideCommand(x)
  \/ \E keep \in BOOLEAN : SetKeepAlive(x, keep)
  \/ \E has \in BOOLEAN : SetHasOnCloseCallback(x, has)
  \/ DidRunCloseCallback(x)
  \/ WebPageClosePageRequested(x)

EngineNext(x) ==
  \/ \E url \in Urls : NavigationStarts(x, url)
  \/ SubframeNavigationStarts(x)
  \/ LoadProgressChanged(x)
  \/ PageLoadFinished(x)
  \/ \E network_changed, shown \in BOOLEAN :
        LoadFailed(x, network_changed, shown)
  \/ LoadVisuallyCommitted(x)
  \/ DidSwapCompositorFrame(x)
  \/ RenderProcessCreated(x)
  \/ RenderProcessCrashed(x)

TimerNext(x) ==
  \/ DomSuspendTimerFires(x)
  \/ TimeoutCloseCallback(x)
  \/ NetErrorReloadTimerFires(x)

Next ==
  /\ \/ ManagerNext
     \/ \E x \in Apps :
          WindowNext(x) \/ ScriptNext(x) \/ EngineNext(x) \/ TimerNext(x)
  /\ WithinBounds'

\* The main loop runs a source whose time has come.
Fairness == \A x \in Apps : WF_vars(TimeoutCloseCallback(x))

Spec == Init /\ [][Next]_vars

FairSpec == Spec /\ Fairness

-----------------------------------------------------------------------------
(* Invariants of the registry.                                             *)

\* The registry never holds an app that is closing or freed, nor misses one
\* that is neither: the two lists CloseAppInternal and CloseWebApp take an app
\* out of agree, so no lookup by instance id returns a dying app and no page of
\* app_page_map_ is dangling when UpdateNetworkStatus walks it.
RegistryCoherent ==
  /\ app_list_ = {x \in Apps : Live(x) /\ ~apps[x].page.is_closing}
  /\ app_page_map_ = app_list_

\* Two running apps never share an instance id, whatever closes and relaunches
\* overlap: FindAppByInstanceId, which returns the first match, returns the one.
InstanceUnique ==
  \A x, y \in app_list_ : apps[x].instance_id = apps[y].instance_id => x = y

\* listRunningApps subscribers are never left with an app that is gone: every
\* close posts the list after the app has left it.
PostedAreRunning == posted \subseteq InstancesOf(app_list_)

\* A crash is held against an app only while an app of that id runs: a close
\* starts the count of foreground crashes over, so that a new launch gets all
\* of its reloads.
CrashCountsOfRunningApps ==
  \A i \in AppIds :
    last_crashed_app_ids_[i] > 0 => \E x \in app_list_ : apps[x].app_id = i

-----------------------------------------------------------------------------
(* Invariants of an app.                                                   *)

AllLive(P(_)) == \A x \in Apps : Live(x) => P(apps[x])

\* A page is suspended only under a window that is marked hidden: every path
\* that clears hidden_window_ (show, relaunch) resumes the page in the same step.
SuspendedIsHidden == AllLive(LAMBDA a : a.page.is_suspended => a.hidden_window)

\* The engine's DOM is stopped only while the page knows that it is suspended,
\* and not while the timer that would cancel the suspension still runs, so that
\* ResumeWebPagePaintingAndJSExecution always takes the branch that resumes it.
DomSuspendedIsSuspended ==
  AllLive(LAMBDA a : a.page.dom_suspended =>
            a.page.is_suspended /\ ~a.page.dom_suspend_timer.is_running)

\* A suspended page whose DOM still runs is never forgotten: its timer is going
\* to fire, or the page will suspend it when a load finishes next, through
\* whatever loads, crashes and resumes come between. That a load is under way
\* is not said.
NoForgottenSuspend ==
  AllLive(LAMBDA a : a.page.is_suspended =>
            \/ a.page.dom_suspended
            \/ a.page.suspend_at_load
            \/ a.page.dom_suspend_timer.is_running)

\* A page the user may see runs: neither its DOM nor its media are stopped and
\* WAM does not take it for suspended. And media the engine has stopped are
\* known to be, so that the resume which makes the page visible restarts them,
\* over recreated views, preloads and half-finished minimizing.
VisiblePagesRun ==
  AllLive(LAMBDA a :
    /\ a.page.visibility = "visible" =>
         /\ ~a.page.is_suspended
         /\ ~a.page.dom_suspended
         /\ ~a.page.media_suspended
    /\ a.page.media_suspended => a.page.is_paused)

\* The page reloads the failed url on a timer exactly while it shows the load
\* error page, across reloads, crashes and closes.
ReloadTimerWhileErrorPage ==
  AllLive(LAMBDA a : a.page.net_error_reload_timer <=>
                       a.page.is_load_error_page_finish)

\* A closing app is unloading its page or has the close callback's timeout
\* ahead of it: a close callback that never answers cannot keep the app alive,
\* and the source that will end it is never removed without ending it.
ClosingMakesProgress ==
  AllLive(LAMBDA a : a.page.is_closing =>
            \/ a.page.cleaning_resources
            \/ a.page.close_callback_timer.armed)

-----------------------------------------------------------------------------
(* Action properties.                                                      *)

\* An app that is kept alive leaves the running apps only when something takes
\* its keepAlive away first (a forced close, closeAllApps) or while it shows the
\* load error page: neither a kill, the compositor's close, the memory manager,
\* a failed preload nor a crashing renderer closes it.
KeepAliveSurvives ==
  [][\A x \in app_list_ \ app_list_' :
       ~apps[x]'.keep_alive \/ apps[x].page.is_load_error_page_finish]_vars

\* A preloaded app that is out of sight comes into sight, as long as nothing
\* relaunches it, only if the compositor gives its window another state, its
\* own script activates it, or its view is made anew after a crash: no first
\* or swapped frame, no load that finishes or fails, no relaunch that was
\* waiting for one, no hiding, closing or timer shows it.
PreloadShownByHostOnly ==
  [][\A x \in Apps :
       /\ Live(x) /\ Live(x)'
       /\ apps[x].preload_state # "none" /\ apps[x]'.preload_state # "none"
       /\ apps[x].page.visibility # "visible"
       /\ apps[x]'.page.visibility = "visible"
       => \/ \E new_state \in HostStates : WindowStateChange(x, new_state)
          \/ Activate(x)
          \/ RenderProcessCrashed(x)]_vars

\* A crash in the foreground that loads the page again is one of at most two of
\* its app id since an app was last closed, and the only one if the window is
\* not fullscreen, whichever instances crashed and whatever came in between.
CrashLimit ==
  [][\A x \in app_list_ :
       RenderProcessCrashed(x) /\ apps[x]'.page.request = "app"
       => /\ last_crashed_app_ids_'[apps[x].app_id] < kContinuousReloadingLimit
          /\ IsNormal(apps[x]) => last_crashed_app_ids_'[apps[x].app_id] = 1]_vars

-----------------------------------------------------------------------------
(* Liveness.                                                               *)

\* An app whose close callback was executed ends, whether the callback
\* answers, never answers, or the app is closed a second time: it is freed or
\* goes on to unload its page.
CloseCallbackEnds ==
  \A x \in Apps :
    Live(x) /\ apps[x].page.is_closing
      ~> ~Live(x) \/ apps[x].page.cleaning_resources

-----------------------------------------------------------------------------
(* Refinement.                                                             *)

Life(x) ==
  IF ~Live(x) THEN IF apps[x].status = "none" THEN "none" ELSE "gone"
              ELSE IF x \in app_list_ THEN "running" ELSE "closing"

Lifecycle == INSTANCE AppLifecycle WITH
  life     <- [x \in Apps |-> Life(x)],
  instance <- [x \in Apps |-> apps[x].instance_id],
  reported <- posted

\* The registry and its apps, with everything that reaches them, keep the
\* promise of AppLifecycle: whatever closes, crashes, timeouts and relaunches
\* overlap, no app object comes back to life, runs beside another one of its
\* instance, or stops without the subscribers of listRunningApps being told.
ImplementsLifecycle == Lifecycle!LifeSpec

=============================================================================
