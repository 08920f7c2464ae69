------------------------ MODULE WebAppManagerProofs ------------------------
(***************************************************************************)
(* Every step of the system is of one of four kinds, seen from the         *)
(* registry: it leaves every app where it is, starts one, takes some out   *)
(* of the running apps, or frees one that was closing. The invariants of   *)
(* the registry, what keepAlive protects and the refinement of             *)
(* AppLifecycle follow from the kinds alone. A second inductive invariant  *)
(* is about each app by itself, what it knows of its page and of its       *)
(* close; what is suspended, preloaded or closing follows from it.         *)
(***************************************************************************)
EXTENDS WebAppManager, WebAppProofs

-----------------------------------------------------------------------------
(* The inductive invariant.                                                *)

\* Something is under way that frees the app when it comes to its end.
Ending(p) ==
  p.cleaning_resources \/ p.script_pending \/ CanFire(p.close_callback_timer)

\* Only a closing app unloads its page or waits for its close callback. An app
\* is freed by the end of one of these and taken out of app_list_ but not out
\* of app_page_map_: RegistryCoherent is not inductive without this.
OnlyClosingEnds ==
  \A x \in Apps : Live(x) /\ Ending(apps[x].page) => apps[x].page.is_closing

IInv ==
  /\ TypeOK
  /\ RegistryCoherent
  /\ InstanceUnique
  /\ PostedAreRunning
  /\ CrashCountsOfRunningApps
  /\ OnlyClosingEnds

-----------------------------------------------------------------------------
(* The kinds of steps.                                                     *)

\* b is the app a, no further on its way to its end.
SameFate(a, b) ==
  /\ b \in WebAppType
  /\ b.status = a.status
  /\ b.app_id = a.app_id
  /\ b.instance_id = a.instance_id
  /\ b.page.is_closing = a.page.is_closing
  /\ Ending(b.page) => Ending(a.page)

\* The rest of the registry, of which a step only has to keep the type.
RestTyped ==
  /\ closing_app_list_' \in [Instances -> Apps \cup {NoApp}]
  /\ last_crashed_app_ids_' \in [AppIds -> Nat]
  /\ app_version_' \subseteq AppIds

\* No app starts, stops or ends; a crash may be counted against a running one
\* and the list of running apps may be sent.
Stays ==
  /\ RestTyped
  /\ apps' \in [Apps -> WebAppType]
  /\ \A y \in Apps : SameFate(apps[y], apps'[y])
  /\ app_list_' = app_list_
  /\ app_page_map_' = app_page_map_
  /\ posted' = posted \/ posted' = InstancesOf(app_list_)
  /\ \A i \in AppIds : \/ last_crashed_app_ids_'[i] = last_crashed_app_ids_[i]
                       \/ \E y \in app_list_ : apps[y].app_id = i

Starts(x) ==
  /\ RestTyped
  /\ x \in Apps
  /\ apps[x].status = "none"
  /\ \A y \in app_list_ : apps[y].instance_id # apps'[x].instance_id
  /\ apps' \in [Apps -> WebAppType]
  /\ \A y \in Apps \ {x} : apps'[y] = apps[y]
  /\ apps'[x].status = "live"
  /\ ~apps'[x].page.is_closing
  /\ ~Ending(apps'[x].page)
  /\ app_list_' = app_list_ \cup {x}
  /\ app_page_map_' = app_page_map_ \cup {x}
  /\ UNCHANGED <<posted, last_crashed_app_ids_>>

\* The apps of closed leave the running apps, or one that is closing is closed
\* again; they are freed or go on to clean up.
Stops(closed, status) ==
  /\ RestTyped
  /\ closed # {}
  /\ closed \subseteq Apps
  /\ status \in {"live", "freed"}
  /\ \/ closed \subseteq app_list_
     \/ closed \cap app_list_ = {} /\ status = "live"
  /\ apps' \in [Apps -> WebAppType]
  /\ \A y \in Apps \ closed : apps'[y] = apps[y]
  /\ \A y \in closed :
       /\ Live(y)
       /\ apps'[y].status = status
       /\ apps'[y].instance_id = apps[y].instance_id
       /\ status = "live" => apps'[y].page.is_closing
       /\ ~apps'[y].keep_alive \/ apps[y].page.is_load_error_page_finish
  /\ app_list_' = app_list_ \ closed
  /\ app_page_map_' = app_page_map_ \ closed
  /\ posted' = InstancesOf(app_list_')
  /\ last_crashed_app_ids_' = [i \in AppIds |-> 0]

Ends(x) ==
  /\ RestTyped
  /\ x \in Apps
  /\ Live(x)
  /\ apps[x].page.is_closing
  /\ apps' \in [Apps -> WebAppType]
  /\ \A y \in Apps \ {x} : apps'[y] = apps[y]
  /\ apps'[x].status = "freed"
  /\ apps'[x].instance_id = apps[x].instance_id
  /\ app_list_' = app_list_ \ {x}
  /\ UNCHANGED <<app_page_map_, posted, last_crashed_app_ids_>>

OneKind ==
  \/ Stays
  \/ \E x \in Apps : Starts(x) \/ Ends(x)
  \/ \E closed \in SUBSET Apps, status \in {"live", "freed"} :
        Stops(closed, status)

-----------------------------------------------------------------------------
(* The kinds preserve the invariant.                                       *)

\* A slot no launch has used.
LEMMA NoWebAppType ==
  ASSUME NEW id \in AppIds, NEW inst \in Instances
  PROVE  NoWebApp(id, inst) \in WebAppType /\ NoWebApp(id, inst).status = "none"
<1> DEFINE args  == [keep_alive |-> FALSE, hidden |-> FALSE, preload |-> "none",
                     background_run |-> FALSE, handles_relaunch |-> FALSE,
                     use_prerendering |-> FALSE, window_type |-> "card"]
           new   == NewWebApp(id, inst, args, FALSE)
           empty == NoWebApp(id, inst)
<1>1. args \in LaunchType
  BY DEF LaunchType, PreloadStates, WindowTypes
<1>2. empty = [new EXCEPT !.status = "none"]
  BY DEF NoWebApp
<1> HIDE DEF args, empty
<1>3. new \in WebAppType
  BY <1>1, NewWebAppType
<1> HIDE DEF new
<1>4. "none" \in Statuses
  BY DEF Statuses
<1>5. empty \in WebAppType
  BY <1>2, <1>3, <1>4, Zenon DEF WebAppType
<1>6. empty.status = "none"
  BY <1>2, <1>3 DEF WebAppType
<1>7. QED
  BY <1>5, <1>6 DEF empty

LEMMA InitApps ==
  ASSUME Init
  PROVE  apps \in [Apps -> WebAppType] /\ \A x \in Apps : apps[x].status = "none"
<1> DEFINE id    == CHOOSE i \in AppIds : TRUE
           inst  == CHOOSE i \in Instances : TRUE
<1>1. id \in AppIds /\ inst \in Instances
  BY NamesAssumption
<1>2. apps = [x \in Apps |-> NoWebApp(id, inst)]
  BY DEF Init
<1> HIDE DEF id, inst
<1>3. QED
  BY <1>1, <1>2, NoWebAppType

LEMMA InitIInv == Init => IInv
<1> SUFFICES ASSUME Init PROVE IInv
  OBVIOUS
<1>1. TypeOK
  BY InitApps DEF Init, TypeOK
<1>2. \A x \in Apps : ~Live(x)
  BY InitApps DEF Live
<1>3. app_list_ = {} /\ app_page_map_ = {} /\ posted = {}
  BY DEF Init
<1>4. RegistryCoherent
  BY <1>2, <1>3 DEF RegistryCoherent
<1>5. InstanceUnique /\ PostedAreRunning
  BY <1>3 DEF InstanceUnique, PostedAreRunning
<1>6. CrashCountsOfRunningApps
  BY DEF Init, CrashCountsOfRunningApps
<1>7. OnlyClosingEnds
  BY <1>2 DEF OnlyClosingEnds
<1>8. QED
  BY <1>1, <1>4, <1>5, <1>6, <1>7 DEF IInv

LEMMA StaysKeeps == IInv /\ Stays => IInv'
<1> SUFFICES ASSUME IInv, Stays PROVE IInv'
  OBVIOUS
<1> USE DEF IInv
<1>1. \A x \in Apps : Live(x)' <=> Live(x)
  BY DEF Stays, SameFate, Live
<1>2. app_list_ \subseteq Apps
  BY DEF TypeOK
<1>3. TypeOK'
  <2>1. InstancesOf(app_list_) \subseteq Instances
    BY <1>2 DEF TypeOK, InstancesOf, WebAppType
  <2>2. QED
    BY <2>1 DEF TypeOK, Stays, RestTyped
<1>4. RegistryCoherent'
  <2>1. \A x \in Apps : apps'[x].page.is_closing = apps[x].page.is_closing
    BY DEF Stays, SameFate
  <2>2. QED
    BY <1>1, <2>1 DEF Stays, RegistryCoherent
<1>5. InstanceUnique'
  BY <1>2 DEF Stays, SameFate, InstanceUnique
<1>6. PostedAreRunning'
  BY <1>2 DEF Stays, SameFate, PostedAreRunning, InstancesOf
<1>7. CrashCountsOfRunningApps'
  BY <1>2 DEF Stays, SameFate, CrashCountsOfRunningApps
<1>8. OnlyClosingEnds'
  BY <1>1 DEF Stays, SameFate, OnlyClosingEnds
<1>9. QED
  BY <1>3, <1>4, <1>5, <1>6, <1>7, <1>8

LEMMA StartsKeeps ==
  ASSUME NEW x \in Apps, IInv, Starts(x)
  PROVE  IInv'
<1> USE DEF IInv
<1>1. x \notin app_list_ /\ app_list_ \subseteq Apps
  BY DEF Starts, RegistryCoherent, Live
<1>2. \A y \in app_list_ : apps'[y] = apps[y]
  BY <1>1 DEF Starts
<1>3. TypeOK'
  BY DEF Starts, TypeOK, RestTyped
<1>4. RegistryCoherent'
  <2>1. Live(x)' /\ ~apps'[x].page.is_closing
    BY DEF Starts, Live
  <2>2. \A y \in Apps \ {x} : /\ Live(y)' <=> Live(y)
                              /\ apps'[y].page.is_closing = apps[y].page.is_closing
    BY DEF Starts, Live
  <2>3. app_list_' = {y \in Apps : Live(y)' /\ ~apps'[y].page.is_closing}
    BY <1>1, <2>1, <2>2 DEF Starts, RegistryCoherent
  <2>4. QED
    BY <2>3 DEF Starts, RegistryCoherent
<1>5. InstanceUnique'
  BY <1>1, <1>2 DEF Starts, InstanceUnique
<1>6. PostedAreRunning'
  BY <1>2 DEF Starts, PostedAreRunning, InstancesOf
<1>7. CrashCountsOfRunningApps'
  BY <1>2 DEF Starts, CrashCountsOfRunningApps
<1>8. OnlyClosingEnds'
  BY DEF Starts, OnlyClosingEnds, Live
<1>9. QED
  BY <1>3, <1>4, <1>5, <1>6, <1>7, <1>8

LEMMA StopsKeeps ==
  ASSUME NEW closed \in SUBSET Apps, NEW status \in {"live", "freed"},
         IInv, Stops(closed, status)
  PROVE  IInv'
<1> USE DEF IInv
<1>1. app_list_ \subseteq Apps
  BY DEF TypeOK
<1>2. \A y \in app_list_' : y \in app_list_ /\ y \notin closed /\ apps'[y] = apps[y]
  BY <1>1 DEF Stops
<1>3. TypeOK'
  <2>1. posted' \subseteq Instances
    BY <1>1, <1>2 DEF Stops, TypeOK, InstancesOf, WebAppType
  <2>2. QED
    BY <2>1 DEF Stops, TypeOK, RestTyped
<1>4. RegistryCoherent'
  <2>1. \A y \in closed : ~(Live(y)' /\ ~apps'[y].page.is_closing)
    BY DEF Stops, Live
  <2>2. \A y \in Apps \ closed :
          /\ Live(y)' <=> Live(y)
          /\ apps'[y].page.is_closing = apps[y].page.is_closing
    BY DEF Stops, Live
  <2>3. app_list_' = {y \in Apps : Live(y)' /\ ~apps'[y].page.is_closing}
    BY <2>1, <2>2 DEF Stops, RegistryCoherent
  <2>4. QED
    BY <2>3 DEF Stops, RegistryCoherent
<1>5. InstanceUnique'
  BY <1>2 DEF InstanceUnique
<1>6. PostedAreRunning'
  BY <1>2 DEF Stops, PostedAreRunning, InstancesOf
<1>7. CrashCountsOfRunningApps'
  BY DEF Stops, CrashCountsOfRunningApps
<1>8. OnlyClosingEnds'
  BY DEF Stops, OnlyClosingEnds, Live
<1>9. QED
  BY <1>3, <1>4, <1>5, <1>6, <1>7, <1>8

LEMMA EndsKeeps ==
  ASSUME NEW x \in Apps, IInv, Ends(x)
  PROVE  IInv'
<1> USE DEF IInv
<1>1. x \notin app_list_ /\ app_list_ \subseteq Apps /\ app_list_' = app_list_
  BY DEF Ends, RegistryCoherent
<1>2. \A y \in app_list_ : apps'[y] = apps[y]
  BY <1>1 DEF Ends
<1>3. TypeOK'
  BY <1>1 DEF Ends, TypeOK, RestTyped
<1>4. RegistryCoherent'
  <2>1. ~Live(x)'
    BY DEF Ends, Live
  <2>2. \A y \in Apps \ {x} : /\ Live(y)' <=> Live(y)
                              /\ apps'[y].page.is_closing = apps[y].page.is_closing
    BY DEF Ends, Live
  <2>3. app_list_' = {y \in Apps : Live(y)' /\ ~apps'[y].page.is_closing}
    BY <1>1, <2>1, <2>2 DEF RegistryCoherent
  <2>4. QED
    BY <1>1, <2>3 DEF Ends, RegistryCoherent
<1>5. InstanceUnique'
  BY <1>1, <1>2 DEF InstanceUnique
<1>6. PostedAreRunning'
  BY <1>1, <1>2 DEF Ends, PostedAreRunning, InstancesOf
<1>7. CrashCountsOfRunningApps'
  BY <1>1, <1>2 DEF Ends, CrashCountsOfRunningApps
<1>8. OnlyClosingEnds'
  BY DEF Ends, OnlyClosingEnds, Live
<1>9. QED
  BY <1>3, <1>4, <1>5, <1>6, <1>7, <1>8

LEMMA OneKindKeeps == IInv /\ OneKind => IInv'
  BY StaysKeeps, StartsKeeps, StopsKeeps, EndsKeeps DEF OneKind

-----------------------------------------------------------------------------
(* What the events do to one app.                                          *)

LEMMA TypedApp ==
  ASSUME TypeOK, NEW x \in Apps
  PROVE  apps[x] \in WebAppType /\ apps[x].page \in WebPageType
  BY PageOfApp DEF TypeOK

LEMMA SameAppFate ==
  ASSUME NEW a, NEW b, SameApp(a, b)
  PROVE  SameFate(a, b)
  BY DEF SameApp, SameClosing, SameFate, Ending

LEMMA SameFateTransitive ==
  ASSUME NEW a, NEW b, NEW c, SameFate(a, b), SameFate(b, c)
  PROVE  SameFate(a, c)
  BY DEF SameFate

LEMMA SameFateReflexive ==
  ASSUME NEW a \in WebAppType
  PROVE  SameFate(a, a)
  BY DEF SameFate

\* keepAlive is no part of an app's fate.
LEMMA SetKeepAliveFate ==
  ASSUME NEW a \in WebAppType, NEW b \in BOOLEAN
  PROVE  SameFate(a, [a EXCEPT !.keep_alive = b])
<1>1. [a EXCEPT !.keep_alive = b] \in WebAppType
  BY Zenon DEF WebAppType
<1>2. QED
  BY <1>1 DEF SameFate, WebAppType

\* What the script and the engine set in a page leaves its fate alone.
LEMMA PageFlagsFate ==
  ASSUME NEW a \in WebAppType, NEW b \in BOOLEAN
  PROVE  /\ SameApp(a, [a EXCEPT !.page.has_close_callback = b])
         /\ SameApp(a, [a EXCEPT !.page.has_been_shown = b])
         /\ SameApp(a, [a EXCEPT !.page.progress = b])
         /\ SameApp(a, [a EXCEPT !.page.loading = "none"])
<1> DEFINE p == [a.page EXCEPT !.has_close_callback = b]
           q == [a.page EXCEPT !.has_been_shown = b]
           r == [a.page EXCEPT !.progress = b]
           s == [a.page EXCEPT !.loading = "none"]
<1>1. a.page \in WebPageType /\ "none" \in MaybeUrl
  BY PageOfApp DEF MaybeUrl
<1>2. p \in WebPageType /\ q \in WebPageType /\ r \in WebPageType /\ s \in WebPageType
  BY <1>1, Zenon DEF WebPageType
<1>3. /\ SameClosing(a.page, p) /\ SameClosing(a.page, q)
      /\ SameClosing(a.page, r) /\ SameClosing(a.page, s)
  BY <1>1, <1>2 DEF SameClosing, WebPageType
<1>4. /\ [a EXCEPT !.page.has_close_callback = b] = WithPage(a, p)
      /\ [a EXCEPT !.page.has_been_shown = b] = WithPage(a, q)
      /\ [a EXCEPT !.page.progress = b] = WithPage(a, r)
      /\ [a EXCEPT !.page.loading = "none"] = WithPage(a, s)
  BY DEF WithPage
<1> HIDE DEF p, q, r, s
<1>5. QED
  BY <1>3, <1>4, SameWithPage

LEMMA UpdateStays ==
  ASSUME TypeOK, NEW x \in Apps, NEW a, SameFate(apps[x], a), Update(x, a)
  PROVE  Stays
<1>1. apps' \in [Apps -> WebAppType]
  BY DEF TypeOK, Update, SameFate
<1>2. \A y \in Apps : SameFate(apps[y], apps'[y])
  BY SameFateReflexive DEF TypeOK, Update
<1>3. QED
  BY <1>1, <1>2 DEF Update, registry, Stays, RestTyped, TypeOK

\* The common case: an event whose effect keeps the app the same.
LEMMA UpdateSame ==
  ASSUME TypeOK, NEW x \in Apps, NEW a, SameApp(apps[x], a), Update(x, a)
  PROVE  OneKind
  BY UpdateStays, SameAppFate DEF OneKind

LEMMA EmplaceTyped ==
  ASSUME TypeOK, NEW closed \in SUBSET Apps
  PROVE  Emplace(closing_app_list_, closed) \in [Instances -> Apps \cup {NoApp}]
  BY DEF TypeOK, Emplace

LEMMA CloseAppInternalKind ==
  ASSUME IInv, NEW x \in Apps, Live(x), NEW a, SameFate(apps[x], a),
         a.page.is_load_error_page_finish = apps[x].page.is_load_error_page_finish,
         CloseAppInternal(x, a)
  PROVE  OneKind
<1>1. TypeOK /\ a \in WebAppType
  BY DEF IInv, SameFate
<1>2. CASE OnlyHides(a)
  <2>1. SameFate(apps[x], HideWindow(a))
    BY <1>1, HideWindowSame, SameAppFate, SameFateTransitive
  <2>2. Update(x, HideWindow(a))
    BY <1>2 DEF CloseAppInternal
  <2>3. QED
    BY <1>1, <2>1, <2>2, UpdateStays DEF OneKind
<1>3. CASE ~OnlyHides(a)
  <2>1. /\ apps' = [apps EXCEPT ![x] = Closing(a)]
        /\ closing_app_list_' = Emplace(closing_app_list_, {x})
        /\ Unlist({x})
    BY <1>3 DEF CloseAppInternal
  <2>2. /\ Closing(a) \in WebAppType
        /\ Closing(a).status = "live"
        /\ Closing(a).instance_id = apps[x].instance_id
        /\ Closing(a).keep_alive = a.keep_alive
        /\ Closing(a).page.is_closing
    BY <1>1, ClosingType DEF SameFate, Live
  <2>3. ~a.keep_alive \/ apps[x].page.is_load_error_page_finish
    BY <1>3 DEF OnlyHides, CanHideWindow
  <2>4. apps' \in [Apps -> WebAppType] /\ apps'[x] = Closing(a)
    BY <1>1, <2>1, <2>2 DEF TypeOK
  <2>5. \A y \in Apps \ {x} : apps'[y] = apps[y]
    BY <1>1, <2>1 DEF TypeOK
  <2>6. RestTyped
    BY <1>1, <2>1, EmplaceTyped DEF RestTyped, TypeOK, Unlist, WebPageRemoved
  <2>7. Stops({x}, "live")
    BY <2>1, <2>2, <2>3, <2>4, <2>5, <2>6 DEF Stops, Unlist, WebPageRemoved
  <2>8. QED
    BY <2>7 DEF OneKind
<1>4. QED
  BY <1>2, <1>3

LEMMA ForceCloseKind ==
  ASSUME IInv, NEW x \in Apps, Live(x), ForceCloseAppInternal(x, apps[x])
  PROVE  OneKind
<1>1. apps[x] \in WebAppType
  BY TypedApp DEF IInv
<1>2. SameFate(apps[x], Forced(apps[x]))
  BY <1>1, SetKeepAliveFate DEF Forced
<1>3. Forced(apps[x]).page = apps[x].page
  BY <1>1 DEF Forced, WebAppType
<1>4. QED
  BY <1>2, <1>3, CloseAppInternalKind DEF ForceCloseAppInternal

LEMMA CloseKind ==
  ASSUME IInv, NEW x \in Apps, Live(x), CloseAppInternal(x, apps[x])
  PROVE  OneKind
  BY TypedApp, SameFateReflexive, CloseAppInternalKind DEF IInv

LEMMA CloseWebAppKind ==
  ASSUME IInv, NEW x \in Apps, Live(x), apps[x].page.is_closing,
         NEW a \in WebAppType, a.instance_id = apps[x].instance_id,
         CloseWebApp(x, a)
  PROVE  OneKind
<1>1. /\ Deleted(a) \in WebAppType
      /\ Deleted(a).status = "freed"
      /\ Deleted(a).instance_id = apps[x].instance_id
  BY DeletedType
<1>2. TypeOK
  BY DEF IInv
<1>3. apps' \in [Apps -> WebAppType] /\ apps'[x] = Deleted(a)
  BY <1>1, <1>2 DEF TypeOK, CloseWebApp
<1>4. \A y \in Apps \ {x} : apps'[y] = apps[y]
  BY <1>2 DEF TypeOK, CloseWebApp
<1>5. RestTyped
  BY <1>2 DEF RestTyped, TypeOK, CloseWebApp, RemoveClosingAppList
<1>6. Ends(x)
  BY <1>1, <1>3, <1>4, <1>5 DEF Ends, CloseWebApp
<1>7. QED
  BY <1>6 DEF OneKind

\* The running apps are live.
LEMMA ListedIsLive ==
  ASSUME IInv, NEW x \in app_list_
  PROVE  x \in Apps /\ Live(x) /\ apps[x] \in WebAppType
  BY DEF IInv, RegistryCoherent, TypeOK

LEMMA EndingIsClosing ==
  ASSUME IInv, NEW x \in Apps, Live(x), Ending(apps[x].page)
  PROVE  apps[x].page.is_closing
  BY DEF IInv, OnlyClosingEnds

-----------------------------------------------------------------------------
(* Calls of the application manager.                                       *)

LEMMA LaunchKind ==
  ASSUME IInv, NEW x \in Apps, NEW app_id \in AppIds, NEW i \in Instances,
         NEW args \in LaunchArgs, NEW updated \in BOOLEAN,
         OnLaunchUrl(x, app_id, i, args, updated)
  PROVE  OneKind
<1> DEFINE reload == updated /\ app_id \in app_version_
           new    == NewWebApp(app_id, i, args, reload)
<1>1. TypeOK
  BY DEF IInv
<1>2. /\ new \in WebAppType /\ new.status = "live" /\ new.instance_id = i
      /\ Untouched(new.page)
  <2>1. args \in LaunchType
    BY LaunchArgsAssumption
  <2>2. reload \in BOOLEAN
    OBVIOUS
  <2> HIDE DEF reload
  <2>3. QED
    BY ONLY <2>1, <2>2, NewWebAppType, app_id \in AppIds, i \in Instances
<1>3. /\ apps' = [apps EXCEPT ![x] = new]
      /\ apps[x].status = "none"
      /\ app_list_' = app_list_ \cup {x}
      /\ app_page_map_' = app_page_map_ \cup {x}
      /\ app_version_' = app_version_ \cup {app_id}
      /\ UNCHANGED <<closing_app_list_, last_crashed_app_ids_, posted>>
  BY DEF OnLaunchUrl, WebPageAdded
<1>4. \A y \in app_list_ : apps[y].instance_id # i
  BY DEF OnLaunchUrl, WebPageAdded, IsRunningApp, Finds
<1> HIDE DEF new
<1>5. apps'[x] = new /\ apps' \in [Apps -> WebAppType]
  BY <1>1, <1>2, <1>3 DEF TypeOK
<1>6. \A y \in Apps \ {x} : apps'[y] = apps[y]
  BY <1>1, <1>3 DEF TypeOK
<1>7. ~new.page.is_closing /\ ~Ending(new.page)
  BY <1>2 DEF Untouched, Ending, CanFire, NewTimer
<1>8. RestTyped
  BY <1>1, <1>3 DEF RestTyped, TypeOK
<1>9. Starts(x)
  BY <1>2, <1>3, <1>4, <1>5, <1>6, <1>7, <1>8 DEF Starts
<1>10. QED
  BY <1>9 DEF OneKind

LEMMA RelaunchKind ==
  ASSUME IInv, NEW app_id \in AppIds, NEW i \in Instances,
         NEW kind \in RelaunchKinds, OnRelaunchApp(app_id, i, kind)
  PROVE  OneKind
<1>1. PICK x \in app_list_ :
        LET a == [apps[x] EXCEPT !.close_page_requested = @ /\ ~apps[x].keep_alive]
        IN  Update(x, IF kind = "ignore" THEN a ELSE Relaunch(a, kind))
  BY DEF OnRelaunchApp
<1> DEFINE r == apps[x].close_page_requested /\ ~apps[x].keep_alive
           a == [apps[x] EXCEPT !.close_page_requested = r]
<1>2. x \in Apps /\ apps[x] \in WebAppType
  BY ListedIsLive
<1>3. r \in BOOLEAN
  BY <1>2 DEF WebAppType
<1>4. Update(x, IF kind = "ignore" THEN a ELSE Relaunch(a, kind))
  BY <1>1
<1> HIDE DEF r
<1>5. SameApp(apps[x], a)
  BY <1>2, <1>3, SameWithFlags
<1> HIDE DEF a
<1>6. SameApp(a, Relaunch(a, kind))
  BY <1>5, RelaunchSame DEF SameApp
<1>7. SameApp(apps[x], IF kind = "ignore" THEN a ELSE Relaunch(a, kind))
  BY <1>5, <1>6, SameAppTransitive
<1>8. QED
  BY <1>2, <1>4, <1>7, UpdateSame DEF IInv

LEMMA KillKind ==
  ASSUME IInv, NEW app_id \in AppIds, NEW i \in Instances,
         NEW force \in BOOLEAN, OnKillApp(app_id, i, force)
  PROVE  OneKind
<1>1. PICK x \in app_list_ : IF force THEN ForceCloseAppInternal(x, apps[x])
                                      ELSE CloseAppInternal(x, apps[x])
  BY DEF OnKillApp
<1>2. x \in Apps /\ Live(x)
  BY ListedIsLive
<1>3. QED
  BY <1>1, <1>2, ForceCloseKind, CloseKind

LEMMA PauseKind ==
  ASSUME IInv, NEW i \in Instances, OnPauseApp(i)
  PROVE  OneKind
<1>1. PICK x \in app_list_ : Update(x, HideWindow(apps[x]))
  BY DEF OnPauseApp
<1>2. x \in Apps /\ apps[x] \in WebAppType
  BY ListedIsLive
<1>3. QED
  BY <1>1, <1>2, HideWindowSame, UpdateSame DEF IInv

LEMMA SetForceCloseKind ==
  ASSUME IInv, NEW i \in Instances, SetForceCloseApp(i)
  PROVE  OneKind
<1>1. PICK x \in app_list_ :
        IF apps[x].keep_alive /\ apps[x].hidden_window
          THEN ForceCloseAppInternal(x, apps[x])
          ELSE Update(x, [apps[x] EXCEPT !.force_close = TRUE])
  BY DEF SetForceCloseApp
<1>2. x \in Apps /\ Live(x) /\ apps[x] \in WebAppType
  BY ListedIsLive
<1>3. SameApp(apps[x], [apps[x] EXCEPT !.force_close = TRUE])
  BY <1>2, SameWithFlags
<1>4. QED
  BY <1>1, <1>2, <1>3, ForceCloseKind, UpdateSame DEF IInv

LEMMA CloseAllKind ==
  ASSUME IInv, NEW running_apps \in SUBSET app_list_, CloseAllApps(running_apps)
  PROVE  OneKind
<1>1. TypeOK /\ running_apps \subseteq Apps
  BY DEF IInv, TypeOK
<1>2. \A y \in running_apps : Live(y) /\ apps[y] \in WebAppType
  BY ListedIsLive
<1>3. ASSUME NEW y \in running_apps
      PROVE  /\ Forced(apps[y]) \in WebAppType
             /\ Forced(apps[y]).status = apps[y].status
             /\ Forced(apps[y]).instance_id = apps[y].instance_id
             /\ Forced(apps[y]).keep_alive = FALSE
  <2>1. SameFate(apps[y], Forced(apps[y]))
    BY <1>2, SetKeepAliveFate DEF Forced
  <2>2. Forced(apps[y]).keep_alive = FALSE
    BY <1>2 DEF Forced, WebAppType
  <2>3. QED
    BY <2>1, <2>2 DEF SameFate
<1>4. \A y \in running_apps :
        /\ Closing(Forced(apps[y])) \in WebAppType
        /\ Closing(Forced(apps[y])).status = "live"
        /\ Closing(Forced(apps[y])).instance_id = apps[y].instance_id
        /\ Closing(Forced(apps[y])).keep_alive = FALSE
        /\ Closing(Forced(apps[y])).page.is_closing
  BY <1>2, <1>3, ClosingType DEF Live
<1>5. apps' = [y \in Apps |-> IF y \in running_apps THEN Closing(Forced(apps[y]))
                                                    ELSE apps[y]]
  BY DEF CloseAllApps
<1>6. apps' \in [Apps -> WebAppType]
  BY <1>1, <1>4, <1>5 DEF TypeOK
<1>7. \A y \in Apps \ running_apps : apps'[y] = apps[y]
  BY <1>5
<1>8. \A y \in running_apps : apps'[y] = Closing(Forced(apps[y]))
  BY <1>1, <1>5
<1>9. RestTyped
  BY <1>1, EmplaceTyped DEF RestTyped, TypeOK, CloseAllApps, Unlist, WebPageRemoved
<1>10. Stops(running_apps, "live")
  BY <1>1, <1>2, <1>4, <1>6, <1>7, <1>8, <1>9
     DEF Stops, CloseAllApps, Unlist, WebPageRemoved
<1>11. QED
  BY <1>1, <1>10 DEF OneKind

LEMMA NetworkKind ==
  ASSUME IInv, UpdateNetworkStatus
  PROVE  OneKind
<1>1. TypeOK
  BY DEF IInv
<1>2. \A y \in Apps : SameFate(apps[y], WithPage(apps[y], ReloadFailedUrl(apps[y].page)))
  BY <1>1, TypedApp, Load, SameWithPage, SameAppFate
     DEF ReloadFailedUrl, MaybeUrl, Urls
<1>3. \A y \in Apps : SameFate(apps[y], apps'[y])
  BY <1>1, <1>2, TypedApp, SameFateReflexive DEF UpdateNetworkStatus
<1>4. apps' \in [Apps -> WebAppType]
  BY <1>3 DEF UpdateNetworkStatus, SameFate
<1>5. Stays
  BY <1>1, <1>3, <1>4
     DEF UpdateNetworkStatus, registry, Stays, RestTyped, TypeOK
<1>6. QED
  BY <1>5 DEF OneKind

LEMMA ManagerKind == IInv /\ ManagerNext => OneKind
  BY LaunchKind, RelaunchKind, KillKind, PauseKind, SetForceCloseKind,
     CloseAllKind, NetworkKind DEF ManagerNext

-----------------------------------------------------------------------------
(* Events of the compositor and commands of the script.                    *)

LEMMA DoCloseKind ==
  ASSUME IInv, NEW x \in Apps, DoClose(x)
  PROVE  OneKind
  BY ForceCloseKind, CloseKind DEF DoClose

LEMMA WindowKind ==
  ASSUME IInv, NEW x \in Apps, WindowNext(x)
  PROVE  OneKind
<1>1. TypeOK /\ apps[x] \in WebAppType
  BY TypedApp DEF IInv
<1>2. CASE WindowStateAboutToChange(x)
  BY <1>1, <1>2, AboutToMinimize, UpdateSame DEF WindowStateAboutToChange
<1>3. ASSUME NEW new_state \in HostStates, WindowStateChange(x, new_state)
      PROVE  OneKind
  BY <1>1, <1>3, StateChangedSame, UpdateSame DEF WindowStateChange
<1>4. QED
  BY <1>2, <1>3, DoCloseKind DEF WindowNext

LEMMA ScriptKind ==
  ASSUME IInv, NEW x \in Apps, ScriptNext(x)
  PROVE  OneKind
<1>1. TypeOK /\ apps[x] \in WebAppType
  BY TypedApp DEF IInv
<1>2. CASE Activate(x)
  BY <1>1, <1>2, RaiseSame, UpdateSame DEF Activate
<1>3. CASE Deactivate(x)
  BY <1>3, DoCloseKind DEF Deactivate
<1>4. CASE HideCommand(x)
  BY <1>1, <1>4, HideSame, UpdateSame DEF HideCommand
<1>5. ASSUME NEW keep \in BOOLEAN, SetKeepAlive(x, keep)
      PROVE  OneKind
  BY <1>1, <1>5, SetKeepAliveFate, UpdateStays DEF SetKeepAlive, OneKind
<1>6. ASSUME NEW has \in BOOLEAN, SetHasOnCloseCallback(x, has)
      PROVE  OneKind
  BY <1>1, <1>6, PageFlagsFate, UpdateSame DEF SetHasOnCloseCallback
<1>7. CASE DidRunCloseCallback(x)
  <2> DEFINE p == [apps[x].page EXCEPT !.close_callback_timer = Stop(@)]
             a == [apps[x] EXCEPT !.page = p]
  <2>1. Live(x) /\ apps[x].page.is_closing
    BY <1>7, EndingIsClosing DEF DidRunCloseCallback, Script, Ending
  <2>2. Stop(apps[x].page.close_callback_timer) \in TimerType
    BY <1>1, PageOfApp, TimerTypes DEF WebPageType
  <2>3. p \in WebPageType
    BY <1>1, <2>2, PageOfApp, Zenon DEF WebPageType
  <2>4. [apps[x] EXCEPT !.page.close_callback_timer = Stop(@)] = a
    OBVIOUS
  <2> HIDE DEF p
  <2>5. a \in WebAppType
    BY <1>1, <2>3, Zenon DEF WebAppType
  <2>6. a.instance_id = apps[x].instance_id
    BY <1>1 DEF WebAppType
  <2>7. CloseWebApp(x, a)
    BY <1>7, <2>4 DEF DidRunCloseCallback
  <2>8. QED
    BY <2>1, <2>5, <2>6, <2>7, CloseWebAppKind
<1>8. CASE WebPageClosePageRequested(x)
  BY <1>1, <1>8, SameWithFlags, UpdateSame DEF WebPageClosePageRequested
<1>9. QED
  BY <1>2, <1>3, <1>4, <1>5, <1>6, <1>7, <1>8 DEF ScriptNext

-----------------------------------------------------------------------------
(* Callbacks of the web engine.                                            *)

\* A page whose close callback's timer is set to t, in the app that is freed.
LEMMA TimerEdit ==
  ASSUME NEW a \in WebAppType, NEW t \in TimerType
  PROVE  /\ [a EXCEPT !.page.close_callback_timer = t] \in WebAppType
         /\ [a EXCEPT !.page.close_callback_timer = t].instance_id = a.instance_id
<1> DEFINE p == [a.page EXCEPT !.close_callback_timer = t]
<1>1. p \in WebPageType
  BY PageOfApp, Zenon DEF WebPageType
<1>2. [a EXCEPT !.page.close_callback_timer = t] = [a EXCEPT !.page = p]
  OBVIOUS
<1> HIDE DEF p
<1>3. [a EXCEPT !.page = p] \in WebAppType
  BY <1>1, Zenon DEF WebAppType
<1>4. QED
  BY <1>2, <1>3 DEF WebAppType

LEMMA NavigationKind ==
  ASSUME IInv, NEW x \in Apps, NEW url \in Urls, NavigationStarts(x, url)
  PROVE  OneKind
<1>1. TypeOK /\ apps[x] \in WebAppType /\ apps[x].page \in WebPageType
  BY TypedApp DEF IInv
<1>2. Update(x, WithPage(apps[x], DidStartNavigation(apps[x].page, url)))
  BY DEF NavigationStarts
<1>3. QED
  BY <1>1, <1>2, StartNavigation, SameWithPage, UpdateSame

LEMMA PageLoadFinishedKind ==
  ASSUME IInv, NEW x \in Apps, PageLoadFinished(x)
  PROVE  OneKind
<1>1. TypeOK /\ Live(x) /\ apps[x] \in WebAppType /\ apps[x].page \in WebPageType
  BY TypedApp DEF IInv, PageLoadFinished
<1>2. CASE apps[x].page.cleaning_resources
  <2>1. apps[x].page.is_closing
    BY <1>1, <1>2, EndingIsClosing DEF Ending
  <2>2. SameApp(apps[x], WithPage(apps[x], Committed(apps[x].page)))
    BY <1>1, CommittedSame, SameWithPage
  <2>3. CloseWebApp(x, WithPage(apps[x], Committed(apps[x].page)))
    BY <1>2 DEF PageLoadFinished
  <2>4. QED
    BY <1>1, <2>1, <2>2, <2>3, CloseWebAppKind DEF SameApp
<1>3. CASE ~apps[x].page.cleaning_resources
  <2>1. PICK kind \in PageRelaunchKinds : Update(x, LoadFinished(apps[x], kind))
    BY <1>3 DEF PageLoadFinished
  <2>2. QED
    BY <1>1, <2>1, LoadFinishedSame, UpdateSame
<1>4. QED
  BY <1>2, <1>3

LEMMA AfterLoadFailedSame ==
  ASSUME NEW p \in WebPageType, NEW changed \in BOOLEAN, NEW shown \in BOOLEAN
  PROVE  SameClosing(p, AfterLoadFailed(p, changed, shown))
<1>1. p.request \in MaybeUrl /\ "app" \in MaybeUrl /\ p.is_preload \in BOOLEAN
  BY DEF WebPageType, MaybeUrl, Urls
<1>2. QED
  BY <1>1, Load, ErrorPage DEF AfterLoadFailed

LEMMA LoadFailedKind ==
  ASSUME IInv, NEW x \in Apps, NEW changed \in BOOLEAN, NEW shown \in BOOLEAN,
         LoadFailed(x, changed, shown)
  PROVE  OneKind
<1> DEFINE a         == [apps[x] EXCEPT !.page.loading = "none"]
           preloaded == a.preload_state # "none"
           closes    == preloaded /\ ~OnlyHides(a)
           b         == IF closes THEN Closing(a)
                        ELSE IF preloaded THEN HideWindow(a) ELSE a
           c         == WithPage(b, AfterLoadFailed(b.page, changed, shown))
<1>1. /\ TypeOK /\ Live(x)
      /\ apps[x] \in WebAppType /\ apps[x].page \in WebPageType
  BY TypedApp DEF IInv, LoadFailed
<1>2. apps' = [apps EXCEPT ![x] = c]
  BY DEF LoadFailed
<1>3. IF closes
        THEN /\ closing_app_list_' = Emplace(closing_app_list_, {x})
             /\ Unlist({x})
        ELSE UNCHANGED registry
  BY DEF LoadFailed
<1>4. SameApp(apps[x], a)
  BY <1>1, PageFlagsFate
<1>5. a.page.is_load_error_page_finish = apps[x].page.is_load_error_page_finish
  BY <1>1 DEF WebAppType, WebPageType
<1>6. closes => ~a.keep_alive \/ apps[x].page.is_load_error_page_finish
  BY <1>5 DEF OnlyHides, CanHideWindow
<1>7. a \in WebAppType
  BY <1>4 DEF SameApp
<1> HIDE DEF a
<1>8. CASE closes
  <2>1. b = Closing(a)
    BY <1>8
  <2>2. /\ b \in WebAppType /\ b.status = "live"
        /\ b.instance_id = apps[x].instance_id
        /\ b.keep_alive = a.keep_alive /\ b.page.is_closing
    BY <1>1, <1>4, <1>7, <2>1, ClosingType DEF SameApp, Live
  <2> HIDE DEF b, closes
  <2>3. SameApp(b, c)
    BY <2>2, PageOfApp, AfterLoadFailedSame, SameWithPage
  <2> HIDE DEF c
  <2>4. /\ c \in WebAppType /\ c.status = "live"
        /\ c.instance_id = apps[x].instance_id
        /\ c.keep_alive = a.keep_alive /\ c.page.is_closing
    BY <2>2, <2>3 DEF SameApp, SameClosing
  <2>5. apps' \in [Apps -> WebAppType] /\ apps'[x] = c
    BY <1>1, <1>2, <2>4 DEF TypeOK
  <2>6. \A y \in Apps \ {x} : apps'[y] = apps[y]
    BY <1>1, <1>2 DEF TypeOK
  <2>7. RestTyped
    BY <1>1, <1>3, <1>8, EmplaceTyped DEF RestTyped, TypeOK, Unlist, WebPageRemoved
  <2>8. Stops({x}, "live")
    BY <1>1, <1>3, <1>6, <1>8, <2>4, <2>5, <2>6, <2>7
       DEF Stops, Unlist, WebPageRemoved
  <2>9. QED
    BY <2>8 DEF OneKind
<1>9. CASE ~closes
  <2>1. SameApp(a, b)
    BY <1>7, <1>9, HideWindowSame, SameAppReflexive
  <2>2. b \in WebAppType
    BY <2>1 DEF SameApp
  <2>3. Update(x, c)
    BY <1>2, <1>3, <1>9 DEF Update
  <2> HIDE DEF b
  <2>4. SameApp(b, c)
    BY <2>2, PageOfApp, AfterLoadFailedSame, SameWithPage
  <2>5. SameApp(apps[x], c)
    BY <1>4, <2>1, <2>4, SameAppTransitive
  <2>6. QED
    BY <1>1, <2>3, <2>5, UpdateSame
<1>10. QED
  BY <1>8, <1>9

LEMMA VisuallyCommittedKind ==
  ASSUME IInv, NEW x \in Apps, LoadVisuallyCommitted(x)
  PROVE  OneKind
<1> DEFINE a == [apps[x] EXCEPT !.page.has_been_shown = TRUE]
<1>1. TypeOK /\ apps[x] \in WebAppType
  BY TypedApp DEF IInv
<1>2. SameApp(apps[x], a)
  BY <1>1, PageFlagsFate
<1>3. Update(x, FirstFrameVisuallyCommitted(a))
  BY DEF LoadVisuallyCommitted
<1> HIDE DEF a
<1>4. SameApp(a, FirstFrameVisuallyCommitted(a))
  BY <1>2, FirstFrame DEF SameApp
<1>5. QED
  BY <1>1, <1>2, <1>3, <1>4, SameAppTransitive, UpdateSame

LEMMA ProcessCreatedKind ==
  ASSUME IInv, NEW x \in Apps, RenderProcessCreated(x)
  PROVE  OneKind
<1>1. TypeOK
  BY DEF IInv
<1>2. \A y \in Apps : SameFate(apps[y], apps'[y])
  BY <1>1, TypedApp, SameFateReflexive DEF RenderProcessCreated
<1>3. Stays
  BY <1>1, <1>2 DEF RenderProcessCreated, Stays, RestTyped, TypeOK
<1>4. QED
  BY <1>3 DEF OneKind

LEMMA CloseAppNowKind ==
  ASSUME IInv, NEW x \in app_list_, NEW a, SameApp(apps[x], a),
         a.page.is_load_error_page_finish = apps[x].page.is_load_error_page_finish,
         ~OnlyHides(a), CloseAppNow(x, a)
  PROVE  OneKind
<1> DEFINE c == [a EXCEPT !.page.is_closing = TRUE]
           d == OnStageDeactivated(c)
<1>1. TypeOK /\ x \in Apps /\ Live(x) /\ apps[x] \in WebAppType
  BY ListedIsLive DEF IInv
<1>2. a \in WebAppType /\ a.instance_id = apps[x].instance_id
  BY DEF SameApp
<1>3. [a.page EXCEPT !.is_closing = TRUE] \in WebPageType
  BY <1>2, PageOfApp, Zenon DEF WebPageType
<1>4. c \in WebAppType
  BY <1>2, <1>3, Zenon DEF WebAppType
<1>5. c.instance_id = a.instance_id /\ c.keep_alive = a.keep_alive
  BY <1>2 DEF WebAppType
<1>6. apps' = [apps EXCEPT ![x] = Deleted(d)] /\ UNCHANGED closing_app_list_ /\ Unlist({x})
  BY DEF CloseAppNow
<1> HIDE DEF c
<1>7. SameApp(c, d)
  BY <1>4, StageDeactivated
<1> HIDE DEF d
<1>8. /\ Deleted(d) \in WebAppType
      /\ Deleted(d).status = "freed"
      /\ Deleted(d).instance_id = apps[x].instance_id
      /\ Deleted(d).keep_alive = a.keep_alive
  BY <1>2, <1>5, <1>7, DeletedType DEF SameApp
<1>9. ~a.keep_alive \/ apps[x].page.is_load_error_page_finish
  BY DEF OnlyHides, CanHideWindow
<1>10. apps' \in [Apps -> WebAppType] /\ apps'[x] = Deleted(d)
  BY <1>1, <1>6, <1>8 DEF TypeOK
<1>11. \A y \in Apps \ {x} : apps'[y] = apps[y]
  BY <1>1, <1>6 DEF TypeOK
<1>12. RestTyped
  BY <1>1, <1>6 DEF RestTyped, TypeOK, Unlist, WebPageRemoved
<1>13. Stops({x}, "freed")
  BY <1>1, <1>6, <1>8, <1>9, <1>10, <1>11, <1>12 DEF Stops, Unlist, WebPageRemoved
<1>14. QED
  BY <1>1, <1>13 DEF OneKind

LEMMA ProcessCrashedKind ==
  ASSUME IInv, NEW x \in app_list_, NEW a, SameApp(apps[x], a),
         a.page.is_load_error_page_finish = apps[x].page.is_load_error_page_finish,
         ProcessCrashed(x, a)
  PROVE  OneKind
<1> DEFINE count  == last_crashed_app_ids_[a.app_id] + 1
           closes == count >= ReloadingLimit(a)
           b      == IF closes THEN HideWindow(a) ELSE ReloadDefaultPage(a)
<1>1. TypeOK /\ x \in Apps /\ Live(x) /\ a \in WebAppType
  BY ListedIsLive DEF IInv, SameApp
<1>2. CASE IsMinimized(a)
  <2>1. SameApp(apps[x], [a EXCEPT !.crashed = TRUE])
    BY <1>1, SameWithFlags, SameAppTransitive
  <2>2. Update(x, [a EXCEPT !.crashed = TRUE])
    BY <1>2 DEF ProcessCrashed
  <2>3. QED
    BY <1>1, <2>1, <2>2, UpdateSame
<1>3. CASE ~IsMinimized(a) /\ closes /\ ~OnlyHides(a)
  <2>1. CloseAppNow(x, a)
    BY <1>3 DEF ProcessCrashed
  <2>2. QED
    BY <1>3, <2>1, CloseAppNowKind
<1>4. CASE ~IsMinimized(a) /\ ~(closes /\ ~OnlyHides(a))
  <2>1. /\ apps' = [apps EXCEPT ![x] = b]
        /\ last_crashed_app_ids_' = [last_crashed_app_ids_ EXCEPT ![a.app_id] = count]
        /\ UNCHANGED <<app_list_, app_page_map_, closing_app_list_,
                       app_version_, posted>>
    BY <1>4 DEF ProcessCrashed
  <2>2. SameApp(a, HideWindow(a))
    BY <1>1, HideWindowSame
  <2>3. SameApp(a, ReloadDefaultPage(a))
    BY <1>1, PageOfApp, Load, SameWithPage DEF ReloadDefaultPage, MaybeUrl, Urls
  <2>4. SameFate(apps[x], b)
    BY <2>2, <2>3, SameAppTransitive, SameAppFate
  <2>5. a.app_id = apps[x].app_id /\ a.app_id \in AppIds
    BY <1>1 DEF SameApp, WebAppType
  <2>6. count \in Nat
    BY <1>1, <2>5 DEF TypeOK
  <2> HIDE DEF b, count
  <2>7. apps' \in [Apps -> WebAppType] /\ \A y \in Apps : SameFate(apps[y], apps'[y])
    BY <1>1, <2>1, <2>4, SameFateReflexive DEF TypeOK, SameFate
  <2>8. \A i \in AppIds : \/ last_crashed_app_ids_'[i] = last_crashed_app_ids_[i]
                          \/ \E y \in app_list_ : apps[y].app_id = i
    BY <1>1, <2>1, <2>5 DEF TypeOK
  <2>9. RestTyped
    BY <1>1, <2>1, <2>5, <2>6 DEF RestTyped, TypeOK
  <2>10. Stays
    BY <2>1, <2>7, <2>8, <2>9 DEF Stays
  <2>11. QED
    BY <2>10 DEF OneKind
<1>5. QED
  BY <1>2, <1>3, <1>4

LEMMA RenderProcessCrashedKind ==
  ASSUME IInv, NEW x \in Apps, RenderProcessCrashed(x)
  PROVE  OneKind
<1> DEFINE t == StopIfRunning(apps[x].page.close_callback_timer)
           a == [apps[x] EXCEPT !.page.close_callback_timer = t]
           v == RecreateWebView(apps[x].page)
           w == WithPage(apps[x], v)
<1>1. /\ TypeOK /\ Live(x)
      /\ apps[x] \in WebAppType /\ apps[x].page \in WebPageType
  BY TypedApp DEF IInv, RenderProcessCrashed
<1>2. CASE apps[x].page.is_closing
  <2>1. t \in TimerType
    BY <1>1, TimerTypes DEF WebPageType
  <2>2. CloseWebApp(x, a)
    BY <1>2 DEF RenderProcessCrashed
  <2> HIDE DEF t
  <2>3. a \in WebAppType /\ a.instance_id = apps[x].instance_id
    BY <1>1, <2>1, TimerEdit
  <2>4. QED
    BY <1>1, <1>2, <2>2, <2>3, CloseWebAppKind
<1>3. CASE ~apps[x].page.is_closing
  <2>1. x \in app_list_ /\ ProcessCrashed(x, w)
    BY <1>3 DEF RenderProcessCrashed
  <2>2. SameApp(apps[x], w)
    BY <1>1, Recreate, SameWithPage
  <2>3. v.is_load_error_page_finish = apps[x].page.is_load_error_page_finish
    BY <1>1 DEF RecreateWebView, NewView, WebPageType
  <2> HIDE DEF v
  <2>4. w.page = v
    BY <1>1 DEF WithPage, WebAppType
  <2>5. QED
    BY <2>1, <2>2, <2>3, <2>4, ProcessCrashedKind
<1>4. QED
  BY <1>2, <1>3

LEMMA EngineKind ==
  ASSUME IInv, NEW x \in Apps, EngineNext(x)
  PROVE  OneKind
<1>1. TypeOK /\ apps[x] \in WebAppType /\ apps[x].page \in WebPageType
  BY TypedApp DEF IInv
<1>2. CASE SubframeNavigationStarts(x)
  BY <1>1, <1>2, LoadStarted, SameWithPage, UpdateSame DEF SubframeNavigationStarts
<1>3. CASE LoadProgressChanged(x)
  BY <1>1, <1>3, PageFlagsFate, UpdateSame DEF LoadProgressChanged
<1>4. CASE DidSwapCompositorFrame(x)
  BY <1>1, <1>4, SwapFrame, UpdateSame DEF DidSwapCompositorFrame
<1>5. QED
  BY <1>2, <1>3, <1>4, NavigationKind, PageLoadFinishedKind, LoadFailedKind,
     VisuallyCommittedKind, ProcessCreatedKind, RenderProcessCrashedKind
     DEF EngineNext

LEMMA TimerKind ==
  ASSUME IInv, NEW x \in Apps, TimerNext(x)
  PROVE  OneKind
<1>1. TypeOK /\ apps[x] \in WebAppType /\ apps[x].page \in WebPageType
  BY TypedApp DEF IInv
<1>2. CASE DomSuspendTimerFires(x)
  BY <1>1, <1>2, DomSuspendFired, SameWithPage, UpdateSame DEF DomSuspendTimerFires
<1>3. CASE TimeoutCloseCallback(x)
  <2> DEFINE t == Stop(Fired(apps[x].page.close_callback_timer))
             a == [apps[x] EXCEPT !.page.close_callback_timer = t]
  <2>1. Live(x) /\ CanFire(apps[x].page.close_callback_timer)
    BY <1>3 DEF TimeoutCloseCallback
  <2>2. apps[x].page.is_closing
    BY <2>1, EndingIsClosing DEF Ending
  <2>3. t \in TimerType
    BY <1>1, <2>1, TimerTypes DEF WebPageType
  <2>4. CloseWebApp(x, a)
    BY <1>3 DEF TimeoutCloseCallback
  <2> HIDE DEF t
  <2>5. a \in WebAppType /\ a.instance_id = apps[x].instance_id
    BY <1>1, <2>3, TimerEdit
  <2>6. QED
    BY <2>1, <2>2, <2>4, <2>5, CloseWebAppKind
<1>4. CASE NetErrorReloadTimerFires(x)
  BY <1>1, <1>4, Load, SameWithPage, UpdateSame
     DEF NetErrorReloadTimerFires, ReloadFailedUrl, MaybeUrl, Urls
<1>5. QED
  BY <1>2, <1>3, <1>4 DEF TimerNext

\* The heart of the argument: no event of the system is of another kind.
LEMMA EveryStepIsOneKind == IInv /\ [Next]_vars => OneKind
<1>1. ASSUME IInv, UNCHANGED vars
      PROVE  OneKind
  <2>1. TypeOK
    BY <1>1 DEF IInv
  <2>2. \A y \in Apps : SameFate(apps[y], apps'[y])
    BY <1>1, <2>1, TypedApp, SameFateReflexive DEF vars
  <2>3. Stays
    BY <1>1, <2>1, <2>2 DEF vars, registry, Stays, RestTyped, TypeOK
  <2>4. QED
    BY <2>3 DEF OneKind
<1>2. QED
  BY <1>1, ManagerKind, WindowKind, ScriptKind, EngineKind, TimerKind DEF Next

-----------------------------------------------------------------------------
(* The theorems.                                                           *)

\* The registry, and every app and page in it, keep their types and agree with
\* each other in every state of the system.
THEOREM Invariance == Spec => []IInv
<1>1. Init => IInv
  BY InitIInv
<1>2. IInv /\ [Next]_vars => IInv'
  BY EveryStepIsOneKind, OneKindKeeps
<1>3. QED
  BY <1>1, <1>2, PTL DEF Spec

THEOREM TypeCorrectness == Spec => []TypeOK
<1>1. IInv => TypeOK
  BY DEF IInv
<1>2. QED
  BY <1>1, Invariance, PTL

\* Neither app_list_ nor app_page_map_ ever holds an app that is closing or
\* freed, or misses one that runs, whatever crashes, timeouts, kills and
\* relaunches overlap.
THEOREM RegistryStaysCoherent == Spec => []RegistryCoherent
<1>1. IInv => RegistryCoherent
  BY DEF IInv
<1>2. QED
  BY <1>1, Invariance, PTL

\* FindAppByInstanceId never has two running apps to choose from.
THEOREM InstancesStayUnique == Spec => []InstanceUnique
<1>1. IInv => InstanceUnique
  BY DEF IInv
<1>2. QED
  BY <1>1, Invariance, PTL

\* Subscribers of listRunningApps are never left with an app that has stopped.
THEOREM PostedListIsRunning == Spec => []PostedAreRunning
<1>1. IInv => PostedAreRunning
  BY DEF IInv
<1>2. QED
  BY <1>1, Invariance, PTL

\* Crashes are held only against ids of running apps.
THEOREM CrashCountsAreCurrent == Spec => []CrashCountsOfRunningApps
<1>1. IInv => CrashCountsOfRunningApps
  BY DEF IInv
<1>2. QED
  BY <1>1, Invariance, PTL

\* An app that is kept alive stops running only by force or on the error page.
THEOREM KeptAliveSurvives == Spec => KeepAliveSurvives
<1> DEFINE A == \A x \in app_list_ \ app_list_' :
                  ~apps[x]'.keep_alive \/ apps[x].page.is_load_error_page_finish
<1>1. ASSUME IInv, OneKind
      PROVE  A
  <2>1. CASE Stays
    BY <2>1 DEF Stays
  <2>2. ASSUME NEW x \in Apps, Starts(x)
        PROVE  A
    BY <2>2 DEF Starts
  <2>3. ASSUME NEW x \in Apps, Ends(x)
        PROVE  A
    BY <1>1, <2>3 DEF Ends, IInv, RegistryCoherent
  <2>4. ASSUME NEW closed, NEW status, Stops(closed, status)
        PROVE  A
    BY <2>4 DEF Stops
  <2>5. QED
    BY <1>1, <2>1, <2>2, <2>3, <2>4 DEF OneKind
<1>2. IInv /\ [Next]_vars => A
  BY <1>1, EveryStepIsOneKind
<1> HIDE DEF A
<1>3. Spec => [][A]_vars
  BY <1>2, Invariance, PTL DEF Spec
<1>4. QED
  BY <1>3 DEF KeepAliveSurvives, A

-----------------------------------------------------------------------------
(* The refinement.                                                         *)

\* The steps of the abstract specification are those of the kinds: closing an
\* app that is closing reports the same list, and so does a renderer that
\* starts.
LEMMA RunningIsListed ==
  ASSUME IInv
  PROVE  Lifecycle!Running([x \in Apps |-> Life(x)]) = app_list_
  BY DEF IInv, TypeOK, RegistryCoherent, Lifecycle!Running, Life, Live

LEMMA LifeOfKind ==
  ASSUME IInv, OneKind
  PROVE  [Lifecycle!LifeNext]_(Lifecycle!lifeVars)
<1> DEFINE life     == [y \in Apps |-> Life(y)]
           instance == [y \in Apps |-> apps[y].instance_id]
<1>1. IInv'
  BY OneKindKeeps
<1>2. app_list_ \subseteq Apps
  BY DEF IInv, TypeOK
<1>3. Lifecycle!Running(life) = app_list_
  BY RunningIsListed
<1>4. Lifecycle!Running(life') = app_list_'
  BY <1>1 DEF IInv, TypeOK, RegistryCoherent, Lifecycle!Running, Life, Live
<1>5. CASE Stays
  <2>1. life' = life
    BY <1>5 DEF Stays, SameFate, Life, Live
  <2>2. instance' = instance
    BY <1>5 DEF Stays, SameFate
  <2>3. InstancesOf(app_list_) = {instance[y] : y \in app_list_}
    BY <1>2 DEF InstancesOf
  <2>4. posted' = posted \/ Lifecycle!ReportAgain
    BY <1>3, <1>5, <2>1, <2>2, <2>3
       DEF Stays, Lifecycle!ReportAgain, Lifecycle!Report
  <2>5. QED
    BY <2>1, <2>2, <2>4 DEF Lifecycle!LifeNext, Lifecycle!lifeVars
<1>6. ASSUME NEW x \in Apps, Starts(x)
      PROVE  Lifecycle!LifeNext
  <2>1. PICK i \in Instances : apps'[x].instance_id = i
    BY <1>6 DEF Starts, WebAppType
  <2>2. life' = [life EXCEPT ![x] = "running"]
    BY <1>2, <1>6 DEF Starts, Life, Live
  <2>3. instance' = [instance EXCEPT ![x] = i]
    BY <1>6, <2>1 DEF Starts
  <2>4. life[x] = "none"
    BY <1>6 DEF Starts, Life, Live
  <2>5. \A y \in Lifecycle!Running(life) : instance[y] # i
    BY <1>2, <1>3, <1>6, <2>1 DEF Starts
  <2>6. Lifecycle!StartApp(x, i)
    BY <1>6, <2>2, <2>3, <2>4, <2>5 DEF Starts, Lifecycle!StartApp
  <2>7. QED
    BY <2>6 DEF Lifecycle!LifeNext
<1>7. ASSUME NEW x \in Apps, Ends(x)
      PROVE  Lifecycle!LifeNext
  <2>1. x \notin app_list_ /\ app_list_' = app_list_
    BY <1>7 DEF Ends, IInv, RegistryCoherent
  <2>2. life[x] = "closing"
    BY <1>7, <2>1 DEF Ends, Life
  <2>3. life' = [life EXCEPT ![x] = "gone"]
    BY <1>7, <2>1 DEF Ends, Life, Live
  <2>4. instance' = instance
    BY <1>7 DEF Ends
  <2>5. Lifecycle!EndApp(x)
    BY <1>7, <2>2, <2>3, <2>4 DEF Ends, Lifecycle!EndApp
  <2>6. QED
    BY <2>5 DEF Lifecycle!LifeNext
<1>8. ASSUME NEW closed \in SUBSET Apps, NEW status \in {"live", "freed"},
             Stops(closed, status)
      PROVE  Lifecycle!LifeNext
  <2> DEFINE to == IF status = "live" THEN "closing" ELSE "gone"
  <2>1. instance' = instance
    BY <1>8 DEF Stops
  <2>2. posted' = {instance[y] : y \in Lifecycle!Running(life')}
    BY <1>2, <1>4, <1>8 DEF Stops, InstancesOf
  <2>3. CASE closed \subseteq app_list_
    <3>1. life' = [y \in Apps |-> IF y \in closed THEN to ELSE life[y]]
      BY <1>2, <1>8, <2>3 DEF Stops, Life, Live
    <3>2. closed # {} /\ closed \subseteq Lifecycle!Running(life)
      BY <1>3, <1>8, <2>3 DEF Stops
    <3>3. Lifecycle!StopApps(closed, to)
      BY <2>1, <2>2, <3>1, <3>2 DEF Lifecycle!StopApps, Lifecycle!Report
    <3>4. QED
      BY <3>3 DEF Lifecycle!LifeNext
  <2>4. CASE closed \cap app_list_ = {} /\ status = "live"
    <3>1. app_list_' = app_list_
      BY <1>8, <2>4 DEF Stops
    <3>2. life' = life
      BY <1>8, <2>4, <3>1 DEF Stops, Life, Live
    <3>3. Lifecycle!ReportAgain
      BY <2>1, <2>2, <3>2 DEF Lifecycle!ReportAgain, Lifecycle!Report
    <3>4. QED
      BY <3>3 DEF Lifecycle!LifeNext
  <2>5. QED
    BY <1>8, <2>3, <2>4 DEF Stops
<1>9. QED
  BY <1>5, <1>6, <1>7, <1>8 DEF OneKind

\* The manager implements its abstract specification: an app object runs once,
\* alone with its instance id, and whenever one stops its subscribers are told.
THEOREM Refinement == Spec => ImplementsLifecycle
<1>1. Init => Lifecycle!LifeInit
  <2> SUFFICES ASSUME Init PROVE Lifecycle!LifeInit
    OBVIOUS
  <2>1. TypeOK
    BY InitIInv DEF IInv
  <2>2. \A x \in Apps : ~Live(x) /\ apps[x].status = "none"
    BY InitApps DEF Live
  <2>3. [x \in Apps |-> Life(x)] = [x \in Apps |-> "none"]
    BY <2>2 DEF Life
  <2>4. [x \in Apps |-> apps[x].instance_id] \in [Apps -> Instances]
    BY <2>1 DEF TypeOK, WebAppType
  <2>5. posted = {}
    BY DEF Init
  <2>6. QED
    BY <2>3, <2>4, <2>5 DEF Lifecycle!LifeInit
<1>2. IInv /\ [Next]_vars => [Lifecycle!LifeNext]_(Lifecycle!lifeVars)
  BY EveryStepIsOneKind, LifeOfKind
<1>3. QED
  BY <1>1, <1>2, Invariance, PTL DEF Spec, ImplementsLifecycle, Lifecycle!LifeSpec

-----------------------------------------------------------------------------
(* What every live app knows of its page: the second inductive invariant.  *)

\* A live app agrees with its page on what is suspended, hidden and preloaded,
\* and if it is closing, something is left that ends it.
Sound(a) == AppInv(a) /\ Progressing(a.page)

AppsSound == \A x \in Apps : Live(x) => Sound(apps[x])

LEMMA SoundSame ==
  ASSUME NEW a, NEW b, SameApp(a, b), Sound(a), AppInv(b)
  PROVE  Sound(b)
  BY SameClosingProgresses DEF SameApp, Sound

LEMMA SoundCalmer ==
  ASSUME NEW a, NEW b, SameApp(a, b), Calmer(a, b), Sound(a)
  PROVE  Sound(b)
  BY CalmerKeeps, SoundSame DEF Sound

\* An event of one app has to keep only that one sound, and only if it lives on.
LEMMA OneAppSound ==
  ASSUME TypeOK, AppsSound, NEW x \in Apps, NEW a,
         a.status = "live" => Sound(a),
         apps' = [apps EXCEPT ![x] = a]
  PROVE  AppsSound'
  BY DEF TypeOK, AppsSound, Live

LEMMA UpdateSound ==
  ASSUME TypeOK, AppsSound, NEW x \in Apps, NEW a,
         a.status = "live" => Sound(a), Update(x, a)
  PROVE  AppsSound'
  BY OneAppSound DEF Update

LEMMA LiveIsSound ==
  ASSUME TypeOK, AppsSound, NEW x \in Apps, Live(x)
  PROVE  apps[x] \in WebAppType /\ apps[x].page \in WebPageType /\ Sound(apps[x])
  BY TypedApp DEF AppsSound

\* An event that only gives a live app another page, which knows as much.
LEMMA NewPageSound ==
  ASSUME TypeOK, AppsSound, NEW x \in Apps, Live(x), NEW p,
         SameClosing(apps[x].page, p), NoMoreSuspended(apps[x].page, p),
         Update(x, WithPage(apps[x], p))
  PROVE  AppsSound'
<1>1. apps[x] \in WebAppType /\ Sound(apps[x])
  BY LiveIsSound
<1>2. Sound(WithPage(apps[x], p))
  BY <1>1, SameWithPage, CalmerWithPage, SoundCalmer
<1>3. QED
  BY <1>2, UpdateSound

\* Hiding and closing.
LEMMA HideWindowSound ==
  ASSUME NEW a \in WebAppType, Sound(a)
  PROVE  Sound(HideWindow(a))
  BY HideWindowSame, HideWindowInv, SoundSame DEF Sound

LEMMA ClosingSound ==
  ASSUME NEW a \in WebAppType, Sound(a)
  PROVE  Sound(Closing(a))
  BY ClosingInv DEF Sound

LEMMA ForcedSound ==
  ASSUME NEW a \in WebAppType, Sound(a)
  PROVE  Forced(a) \in WebAppType /\ Sound(Forced(a))
<1> DEFINE b == Forced(a)
<1>1. b \in WebAppType
  BY Zenon DEF WebAppType, Forced
<1>2. b.page = a.page
  BY DEF Forced, WebAppType
<1>3. AppInv(b)
  BY CalmerWithFlags, CalmerKeeps DEF Forced, Sound
<1>4. QED
  BY <1>1, <1>2, <1>3 DEF Sound

LEMMA CloseInternalSound ==
  ASSUME TypeOK, AppsSound, NEW x \in Apps, NEW a \in WebAppType, Sound(a),
         CloseAppInternal(x, a)
  PROVE  AppsSound'
<1>1. CASE OnlyHides(a)
  BY <1>1, HideWindowSound, UpdateSound DEF CloseAppInternal
<1>2. CASE ~OnlyHides(a)
  BY <1>2, ClosingSound, OneAppSound DEF CloseAppInternal
<1>3. QED
  BY <1>1, <1>2

LEMMA CloseSound ==
  ASSUME TypeOK, AppsSound, NEW x \in Apps, Live(x), CloseAppInternal(x, apps[x])
  PROVE  AppsSound'
  BY LiveIsSound, CloseInternalSound

LEMMA ForceCloseSound ==
  ASSUME TypeOK, AppsSound, NEW x \in Apps, Live(x),
         ForceCloseAppInternal(x, apps[x])
  PROVE  AppsSound'
  BY LiveIsSound, ForcedSound, CloseInternalSound DEF ForceCloseAppInternal

\* A freed app is sound as nothing is claimed of it.
LEMMA CloseWebAppSound ==
  ASSUME TypeOK, AppsSound, NEW x \in Apps, NEW a \in WebAppType, CloseWebApp(x, a)
  PROVE  AppsSound'
<1>1. Deleted(a).status # "live"
  BY DeletedType
<1>2. QED
  BY <1>1, OneAppSound DEF CloseWebApp

\* A new app is not closing, and its page knows what its arguments ask for.
LEMMA LaunchSound ==
  ASSUME TypeOK, AppsSound, NEW x \in Apps, NEW app_id \in AppIds,
         NEW i \in Instances, NEW args \in LaunchArgs, NEW updated \in BOOLEAN,
         OnLaunchUrl(x, app_id, i, args, updated)
  PROVE  AppsSound'
<1> DEFINE reload == updated /\ app_id \in app_version_
           new    == NewWebApp(app_id, i, args, reload)
<1>1. apps' = [apps EXCEPT ![x] = new]
  BY DEF OnLaunchUrl
<1>2. args \in LaunchType
  BY LaunchArgsAssumption
<1>3. reload \in BOOLEAN
  OBVIOUS
<1> HIDE DEF reload
<1>4. AppInv(new) /\ Untouched(new.page)
  BY ONLY <1>2, <1>3, NewWebAppType, NewWebAppInv, app_id \in AppIds, i \in Instances
<1> HIDE DEF new
<1>5. Sound(new)
  BY <1>4 DEF Untouched, Sound, Progressing
<1>6. QED
  BY <1>1, <1>5, OneAppSound

LEMMA RelaunchSound ==
  ASSUME IInv, AppsSound, NEW app_id \in AppIds, NEW i \in Instances,
         NEW kind \in RelaunchKinds, OnRelaunchApp(app_id, i, kind)
  PROVE  AppsSound'
<1>1. PICK x \in app_list_ :
        LET a == [apps[x] EXCEPT !.close_page_requested = @ /\ ~apps[x].keep_alive]
        IN  Update(x, IF kind = "ignore" THEN a ELSE Relaunch(a, kind))
  BY DEF OnRelaunchApp
<1> DEFINE r == apps[x].close_page_requested /\ ~apps[x].keep_alive
           a == [apps[x] EXCEPT !.close_page_requested = r]
<1>2. /\ TypeOK /\ x \in Apps
      /\ apps[x] \in WebAppType /\ Sound(apps[x])
  BY ListedIsLive, LiveIsSound DEF IInv
<1>3. r \in BOOLEAN
  BY <1>2 DEF WebAppType
<1>4. Update(x, IF kind = "ignore" THEN a ELSE Relaunch(a, kind))
  BY <1>1
<1> HIDE DEF r
<1>5. SameApp(apps[x], a) /\ Calmer(apps[x], a)
  BY <1>2, <1>3, SameWithFlags, CalmerWithFlags
<1> HIDE DEF a
<1>6. a \in WebAppType /\ Sound(a)
  BY <1>2, <1>5, SoundCalmer DEF SameApp
<1>7. Sound(Relaunch(a, kind))
  BY <1>6, RelaunchSame, RelaunchInv, SoundSame DEF Sound
<1>8. QED
  BY <1>2, <1>4, <1>6, <1>7, UpdateSound

LEMMA KillSound ==
  ASSUME IInv, AppsSound, NEW app_id \in AppIds, NEW i \in Instances,
         NEW force \in BOOLEAN, OnKillApp(app_id, i, force)
  PROVE  AppsSound'
<1>1. PICK x \in app_list_ : IF force THEN ForceCloseAppInternal(x, apps[x])
                                      ELSE CloseAppInternal(x, apps[x])
  BY DEF OnKillApp
<1>2. TypeOK /\ x \in Apps /\ Live(x)
  BY ListedIsLive DEF IInv
<1>3. QED
  BY <1>1, <1>2, ForceCloseSound, CloseSound

LEMMA PauseSound ==
  ASSUME IInv, AppsSound, NEW i \in Instances, OnPauseApp(i)
  PROVE  AppsSound'
<1>1. PICK x \in app_list_ : Update(x, HideWindow(apps[x]))
  BY DEF OnPauseApp
<1>2. TypeOK /\ x \in Apps /\ apps[x] \in WebAppType /\ Sound(apps[x])
  BY ListedIsLive, LiveIsSound DEF IInv
<1>3. QED
  BY <1>1, <1>2, HideWindowSound, UpdateSound

LEMMA SetForceCloseSound ==
  ASSUME IInv, AppsSound, NEW i \in Instances, SetForceCloseApp(i)
  PROVE  AppsSound'
<1>1. PICK x \in app_list_ :
        IF apps[x].keep_alive /\ apps[x].hidden_window
          THEN ForceCloseAppInternal(x, apps[x])
          ELSE Update(x, [apps[x] EXCEPT !.force_close = TRUE])
  BY DEF SetForceCloseApp
<1>2. /\ TypeOK /\ x \in Apps /\ Live(x)
      /\ apps[x] \in WebAppType /\ Sound(apps[x])
  BY ListedIsLive, LiveIsSound DEF IInv
<1>3. Sound([apps[x] EXCEPT !.force_close = TRUE])
  BY <1>2, SameWithFlags, CalmerWithFlags, SoundCalmer
<1>4. QED
  BY <1>1, <1>2, <1>3, ForceCloseSound, UpdateSound

LEMMA CloseAllSound ==
  ASSUME IInv, AppsSound, NEW running_apps \in SUBSET app_list_,
         CloseAllApps(running_apps)
  PROVE  AppsSound'
<1>1. TypeOK /\ running_apps \subseteq Apps
  BY DEF IInv, TypeOK
<1>2. \A y \in running_apps : apps[y] \in WebAppType /\ Sound(apps[y])
  BY <1>1, ListedIsLive, LiveIsSound
<1>3. \A y \in running_apps : Sound(Closing(Forced(apps[y])))
  BY <1>2, ForcedSound, ClosingSound
<1>4. apps' = [y \in Apps |-> IF y \in running_apps THEN Closing(Forced(apps[y]))
                                                    ELSE apps[y]]
  BY DEF CloseAllApps
<1>5. QED
  BY <1>3, <1>4 DEF AppsSound, Live

\* Reloading the failed url leaves what the page knows alone.
LEMMA ReloadFailedKnown ==
  ASSUME NEW p \in WebPageType
  PROVE  /\ SameClosing(p, ReloadFailedUrl(p))
         /\ NoMoreSuspended(p, ReloadFailedUrl(p))
  BY Load, LoadKnown, SameKnowledgeSuspends DEF ReloadFailedUrl, MaybeUrl, Urls

LEMMA NetworkSound ==
  ASSUME IInv, AppsSound, UpdateNetworkStatus
  PROVE  AppsSound'
<1>1. TypeOK
  BY DEF IInv
<1>2. ASSUME NEW y \in Apps, Live(y)
      PROVE  Sound(WithPage(apps[y], ReloadFailedUrl(apps[y].page)))
  <2> DEFINE p == ReloadFailedUrl(apps[y].page)
  <2>1. /\ apps[y] \in WebAppType /\ apps[y].page \in WebPageType
        /\ Sound(apps[y])
    BY <1>1, <1>2, LiveIsSound
  <2>2. SameClosing(apps[y].page, p) /\ NoMoreSuspended(apps[y].page, p)
    BY <2>1, ReloadFailedKnown
  <2> HIDE DEF p
  <2>3. SameApp(apps[y], WithPage(apps[y], p)) /\ Calmer(apps[y], WithPage(apps[y], p))
    BY <2>1, <2>2, SameWithPage, CalmerWithPage
  <2>4. QED
    BY <2>1, <2>3, SoundCalmer DEF p
<1>3. \A y \in Apps : WithPage(apps[y], ReloadFailedUrl(apps[y].page)).status
                        = apps[y].status
  BY <1>1 DEF TypeOK, WithPage, WebAppType
<1>4. apps' = [y \in Apps |->
                 IF y \in app_page_map_ /\ apps[y].page.is_load_error_page_finish
                   THEN WithPage(apps[y], ReloadFailedUrl(apps[y].page))
                   ELSE apps[y]]
  BY DEF UpdateNetworkStatus
<1>5. QED
  BY <1>2, <1>3, <1>4 DEF AppsSound, Live

LEMMA ManagerSound == IInv /\ AppsSound /\ ManagerNext => AppsSound'
  BY LaunchSound, RelaunchSound, KillSound, PauseSound, SetForceCloseSound,
     CloseAllSound, NetworkSound DEF ManagerNext, IInv

\* Events of the compositor and commands of the script.
LEMMA DoCloseSound ==
  ASSUME TypeOK, AppsSound, NEW x \in Apps, DoClose(x)
  PROVE  AppsSound'
  BY ForceCloseSound, CloseSound DEF DoClose

LEMMA WindowSound ==
  ASSUME IInv, AppsSound, NEW x \in Apps, WindowNext(x)
  PROVE  AppsSound'
<1>1. TypeOK
  BY DEF IInv
<1>2. CASE WindowStateAboutToChange(x)
  <2>1. apps[x] \in WebAppType /\ Sound(apps[x])
    BY <1>1, <1>2, LiveIsSound DEF WindowStateAboutToChange
  <2>2. Sound(StateAboutToMinimize(apps[x]))
    BY <2>1, AboutToMinimize, AboutToMinimizeInv, SoundSame DEF Sound
  <2>3. QED
    BY <1>1, <1>2, <2>2, UpdateSound DEF WindowStateAboutToChange
<1>3. ASSUME NEW new_state \in HostStates, WindowStateChange(x, new_state)
      PROVE  AppsSound'
  <2>1. apps[x] \in WebAppType /\ Sound(apps[x])
    BY <1>1, <1>3, LiveIsSound DEF WindowStateChange
  <2>2. Sound(StateChanged(apps[x], new_state))
    BY <2>1, StateChangedSame, StateChangedInv, SoundSame DEF Sound
  <2>3. QED
    BY <1>1, <1>3, <2>2, UpdateSound DEF WindowStateChange
<1>4. QED
  BY <1>1, <1>2, <1>3, DoCloseSound DEF WindowNext

\* What the script and the engine set in a page leaves what it knows alone.
LEMMA PageFlagsKnown ==
  ASSUME NEW a \in WebAppType, NEW b
  PROVE  /\ Calmer(a, [a EXCEPT !.page.has_close_callback = b])
         /\ Calmer(a, [a EXCEPT !.page.has_been_shown = b])
         /\ Calmer(a, [a EXCEPT !.page.progress = b])
         /\ Calmer(a, [a EXCEPT !.page.loading = "none"])
<1> DEFINE p == [a.page EXCEPT !.has_close_callback = b]
           q == [a.page EXCEPT !.has_been_shown = b]
           r == [a.page EXCEPT !.progress = b]
           s == [a.page EXCEPT !.loading = "none"]
<1>1. /\ SameKnowledge(a.page, p) /\ SameKnowledge(a.page, q)
      /\ SameKnowledge(a.page, r) /\ SameKnowledge(a.page, s)
  BY PageOfApp DEF SameKnowledge, WebPageType
<1>2. /\ [a EXCEPT !.page.has_close_callback = b] = WithPage(a, p)
      /\ [a EXCEPT !.page.has_been_shown = b] = WithPage(a, q)
      /\ [a EXCEPT !.page.progress = b] = WithPage(a, r)
      /\ [a EXCEPT !.page.loading = "none"] = WithPage(a, s)
  BY DEF WithPage
<1> HIDE DEF p, q, r, s
<1>3. QED
  BY <1>1, <1>2, SameKnowledgeSuspends, CalmerWithPage

LEMMA SetKeepAliveSound ==
  ASSUME NEW a \in WebAppType, Sound(a), NEW keep \in BOOLEAN
  PROVE  Sound([a EXCEPT !.keep_alive = keep])
<1> DEFINE b == [a EXCEPT !.keep_alive = keep]
<1>1. b.page = a.page
  BY DEF WebAppType
<1>2. AppInv(b)
  BY CalmerWithFlags, CalmerKeeps DEF Sound
<1>3. QED
  BY <1>1, <1>2 DEF Sound

LEMMA ScriptSound ==
  ASSUME IInv, AppsSound, NEW x \in Apps, ScriptNext(x)
  PROVE  AppsSound'
<1>1. TypeOK
  BY DEF IInv
<1>2. Live(x)
  BY DEF ScriptNext, Activate, Deactivate, HideCommand, SetKeepAlive,
         SetHasOnCloseCallback, DidRunCloseCallback, WebPageClosePageRequested,
         Script
<1>3. /\ apps[x] \in WebAppType /\ apps[x].page \in WebPageType
      /\ Sound(apps[x])
  BY <1>1, <1>2, LiveIsSound
<1>4. CASE Activate(x)
  <2>1. Sound(Raise(apps[x]))
    BY <1>3, RaiseSame, RaiseInv, SoundSame DEF Sound
  <2>2. QED
    BY <1>1, <1>4, <2>1, UpdateSound DEF Activate
<1>5. CASE Deactivate(x)
  BY <1>1, <1>5, DoCloseSound DEF Deactivate
<1>6. CASE HideCommand(x)
  <2>1. Sound(Hide(apps[x], FALSE))
    BY <1>3, HideSame, HideInv, SoundSame DEF Sound
  <2>2. QED
    BY <1>1, <1>6, <2>1, UpdateSound DEF HideCommand
<1>7. ASSUME NEW keep \in BOOLEAN, SetKeepAlive(x, keep)
      PROVE  AppsSound'
  BY <1>1, <1>3, <1>7, SetKeepAliveSound, UpdateSound DEF SetKeepAlive
<1>8. ASSUME NEW has \in BOOLEAN, SetHasOnCloseCallback(x, has)
      PROVE  AppsSound'
  BY <1>1, <1>3, <1>8, PageFlagsFate, PageFlagsKnown, SoundCalmer, UpdateSound
     DEF SetHasOnCloseCallback
<1>9. CASE DidRunCloseCallback(x)
  <2> DEFINE t == Stop(apps[x].page.close_callback_timer)
             a == [apps[x] EXCEPT !.page.close_callback_timer = t]
  <2>1. t \in TimerType
    BY <1>3, TimerTypes DEF WebPageType
  <2>2. CloseWebApp(x, a)
    BY <1>9 DEF DidRunCloseCallback
  <2> HIDE DEF t
  <2>3. a \in WebAppType
    BY <1>3, <2>1, TimerEdit
  <2>4. QED
    BY <1>1, <2>2, <2>3, CloseWebAppSound
<1>10. CASE WebPageClosePageRequested(x)
  BY <1>1, <1>3, <1>10, SameWithFlags, CalmerWithFlags, SoundCalmer, UpdateSound
     DEF WebPageClosePageRequested
<1>11. QED
  BY <1>4, <1>5, <1>6, <1>7, <1>8, <1>9, <1>10 DEF ScriptNext

\* Callbacks of the web engine.
LEMMA PageLoadFinishedSound ==
  ASSUME IInv, AppsSound, NEW x \in Apps, PageLoadFinished(x)
  PROVE  AppsSound'
<1>1. /\ TypeOK /\ apps[x] \in WebAppType /\ apps[x].page \in WebPageType
      /\ Sound(apps[x])
  BY LiveIsSound DEF IInv, PageLoadFinished
<1>2. CASE apps[x].page.cleaning_resources
  <2>1. WithPage(apps[x], Committed(apps[x].page)) \in WebAppType
    BY <1>1, CommittedSame, SameWithPage DEF SameApp
  <2>2. CloseWebApp(x, WithPage(apps[x], Committed(apps[x].page)))
    BY <1>2 DEF PageLoadFinished
  <2>3. QED
    BY <1>1, <2>1, <2>2, CloseWebAppSound
<1>3. CASE ~apps[x].page.cleaning_resources
  <2>1. PICK kind \in PageRelaunchKinds : Update(x, LoadFinished(apps[x], kind))
    BY <1>3 DEF PageLoadFinished
  <2>2. Sound(LoadFinished(apps[x], kind))
    BY <1>1, LoadFinishedSame, LoadFinishedInv, SoundSame DEF Sound
  <2>3. QED
    BY <1>1, <2>1, <2>2, UpdateSound
<1>4. QED
  BY <1>2, <1>3

LEMMA AfterLoadFailedKnown ==
  ASSUME NEW p \in WebPageType, NEW changed, NEW shown
  PROVE  SameKnowledge(p, AfterLoadFailed(p, changed, shown))
  BY LoadKnown, ErrorPageKnown DEF AfterLoadFailed

\* Whether a failed load closes the app, hides it or neither, the app is sound
\* before the load that replaces it.
LEMMA LoadFailedSound ==
  ASSUME IInv, AppsSound, NEW x \in Apps, NEW changed \in BOOLEAN,
         NEW shown \in BOOLEAN, LoadFailed(x, changed, shown)
  PROVE  AppsSound'
<1> DEFINE a         == [apps[x] EXCEPT !.page.loading = "none"]
           preloaded == a.preload_state # "none"
           closes    == preloaded /\ ~OnlyHides(a)
           b         == IF closes THEN Closing(a)
                        ELSE IF preloaded THEN HideWindow(a) ELSE a
           p         == AfterLoadFailed(b.page, changed, shown)
<1>1. TypeOK /\ apps[x] \in WebAppType /\ Sound(apps[x])
  BY LiveIsSound DEF IInv, LoadFailed
<1>2. apps' = [apps EXCEPT ![x] = WithPage(b, p)]
  BY DEF LoadFailed
<1>3. a \in WebAppType /\ Sound(a)
  BY <1>1, PageFlagsFate, PageFlagsKnown, SoundCalmer DEF SameApp
<1> HIDE DEF a
<1>4. b \in WebAppType /\ Sound(b)
  <2>1. Closing(a) \in WebAppType /\ Sound(Closing(a))
    BY <1>3, ClosingType, ClosingSound
  <2>2. HideWindow(a) \in WebAppType /\ Sound(HideWindow(a))
    BY <1>3, HideWindowSame, HideWindowSound DEF SameApp
  <2> HIDE DEF preloaded, closes
  <2>3. QED
    BY <1>3, <2>1, <2>2
<1> HIDE DEF b
<1>5. SameClosing(b.page, p) /\ NoMoreSuspended(b.page, p)
  BY <1>4, PageOfApp, AfterLoadFailedSame, AfterLoadFailedKnown, SameKnowledgeSuspends
<1> HIDE DEF p
<1>6. Sound(WithPage(b, p))
  BY <1>4, <1>5, SameWithPage, CalmerWithPage, SoundCalmer
<1>7. QED
  BY <1>1, <1>2, <1>6, OneAppSound

LEMMA VisuallyCommittedSound ==
  ASSUME IInv, AppsSound, NEW x \in Apps, LoadVisuallyCommitted(x)
  PROVE  AppsSound'
<1> DEFINE a == [apps[x] EXCEPT !.page.has_been_shown = TRUE]
<1>1. TypeOK /\ apps[x] \in WebAppType /\ Sound(apps[x])
  BY LiveIsSound DEF IInv, LoadVisuallyCommitted, Script
<1>2. a \in WebAppType /\ Sound(a)
  BY <1>1, PageFlagsFate, PageFlagsKnown, SoundCalmer DEF SameApp
<1>3. Update(x, FirstFrameVisuallyCommitted(a))
  BY DEF LoadVisuallyCommitted
<1> HIDE DEF a
<1>4. Sound(FirstFrameVisuallyCommitted(a))
  BY <1>2, FirstFrame, FirstFrameInv, SoundSame DEF Sound
<1>5. QED
  BY <1>1, <1>3, <1>4, UpdateSound

\* A crash frees the app, hides it, marks it or loads its page again.
LEMMA ProcessCrashedSound ==
  ASSUME TypeOK, AppsSound, NEW x \in Apps, NEW a \in WebAppType, Sound(a),
         ProcessCrashed(x, a)
  PROVE  AppsSound'
<1> DEFINE closes == last_crashed_app_ids_[a.app_id] + 1 >= ReloadingLimit(a)
           b      == IF closes THEN HideWindow(a) ELSE ReloadDefaultPage(a)
<1>1. CASE IsMinimized(a)
  <2>1. Sound([a EXCEPT !.crashed = TRUE])
    BY SameWithFlags, CalmerWithFlags, SoundCalmer
  <2>2. QED
    BY <1>1, <2>1, UpdateSound DEF ProcessCrashed
<1>2. CASE ~IsMinimized(a) /\ closes /\ ~OnlyHides(a)
  <2> DEFINE c == [a EXCEPT !.page.is_closing = TRUE]
             d == OnStageDeactivated(c)
  <2>1. [a.page EXCEPT !.is_closing = TRUE] \in WebPageType
    BY PageOfApp, Zenon DEF WebPageType
  <2>2. c \in WebAppType
    BY <2>1, Zenon DEF WebAppType
  <2>3. apps' = [apps EXCEPT ![x] = Deleted(d)]
    BY <1>2 DEF ProcessCrashed, CloseAppNow
  <2> HIDE DEF c
  <2>4. d \in WebAppType
    BY <2>2, StageDeactivated DEF SameApp
  <2> HIDE DEF d
  <2>5. Deleted(d).status # "live"
    BY <2>4, DeletedType
  <2>6. QED
    BY <2>3, <2>5, OneAppSound
<1>3. CASE ~IsMinimized(a) /\ ~(closes /\ ~OnlyHides(a))
  <2>1. apps' = [apps EXCEPT ![x] = b]
    BY <1>3 DEF ProcessCrashed
  <2>2. Sound(ReloadDefaultPage(a))
    <3>1. SameApp(a, ReloadDefaultPage(a))
      BY PageOfApp, Load, SameWithPage DEF ReloadDefaultPage, MaybeUrl, Urls
    <3>2. QED
      BY <3>1, ReloadCalm, SoundCalmer
  <2>3. Sound(b)
    BY <2>2, HideWindowSound
  <2> HIDE DEF b
  <2>4. QED
    BY <2>1, <2>3, OneAppSound
<1>4. QED
  BY <1>1, <1>2, <1>3

LEMMA RenderProcessCrashedSound ==
  ASSUME IInv, AppsSound, NEW x \in Apps, RenderProcessCrashed(x)
  PROVE  AppsSound'
<1> DEFINE t == StopIfRunning(apps[x].page.close_callback_timer)
           a == [apps[x] EXCEPT !.page.close_callback_timer = t]
           v == RecreateWebView(apps[x].page)
<1>1. /\ TypeOK /\ apps[x] \in WebAppType /\ apps[x].page \in WebPageType
      /\ Sound(apps[x])
  BY LiveIsSound DEF IInv, RenderProcessCrashed
<1>2. CASE apps[x].page.is_closing
  <2>1. t \in TimerType
    BY <1>1, TimerTypes DEF WebPageType
  <2>2. CloseWebApp(x, a)
    BY <1>2 DEF RenderProcessCrashed
  <2> HIDE DEF t
  <2>3. a \in WebAppType
    BY <1>1, <2>1, TimerEdit
  <2>4. QED
    BY <1>1, <2>2, <2>3, CloseWebAppSound
<1>3. CASE ~apps[x].page.is_closing
  <2>1. ProcessCrashed(x, WithPage(apps[x], v))
    BY <1>3 DEF RenderProcessCrashed
  <2>2. /\ SameClosing(apps[x].page, v) /\ Coherent(v)
        /\ ~v.is_suspended /\ v.is_preload = apps[x].page.is_preload
    BY <1>1, Recreate, RecreateKnown DEF Sound, AppInv, AppCoherent
  <2> HIDE DEF v
  <2> DEFINE b == WithPage(apps[x], v)
  <2>3. SameApp(apps[x], b) /\ SameWindow(apps[x], b) /\ b.page = v
    BY <1>1, <2>2, SameWithPage, WithPageWindow
  <2> HIDE DEF b
  <2>4. AppInv(b)
    BY <1>1, <2>2, <2>3, AwakeInv
       DEF Sound, AppInv, AppCoherent, PreloadHides, SameWindow
  <2>5. Sound(b) /\ b \in WebAppType
    BY <1>1, <2>3, <2>4, SoundSame DEF SameApp
  <2>6. QED
    BY <1>1, <2>1, <2>5, ProcessCrashedSound DEF b
<1>4. QED
  BY <1>2, <1>3

LEMMA EngineSound ==
  ASSUME IInv, AppsSound, NEW x \in Apps, EngineNext(x)
  PROVE  AppsSound'
<1>1. TypeOK
  BY DEF IInv
<1>2. ASSUME NEW url \in Urls, NavigationStarts(x, url)
      PROVE  AppsSound'
  <2>1. Live(x) /\ Update(x, WithPage(apps[x], DidStartNavigation(apps[x].page, url)))
    BY <1>2 DEF NavigationStarts
  <2>2. QED
    BY <1>1, <2>1, LiveIsSound, StartNavigation, StartNavigationKnown,
       SameKnowledgeSuspends, NewPageSound
<1>3. CASE SubframeNavigationStarts(x)
  <2>1. Live(x) /\ Update(x, WithPage(apps[x], HandleLoadStarted(apps[x].page)))
    BY <1>3 DEF SubframeNavigationStarts, Script
  <2>2. QED
    BY <1>1, <2>1, LiveIsSound, LoadStarted, LoadStartedKnown,
       SameKnowledgeSuspends, NewPageSound
<1>4. CASE LoadProgressChanged(x)
  BY <1>1, <1>4, LiveIsSound, PageFlagsFate, PageFlagsKnown, SoundCalmer, UpdateSound
     DEF LoadProgressChanged
<1>5. CASE DidSwapCompositorFrame(x)
  <2>1. apps[x] \in WebAppType /\ Sound(apps[x])
    BY <1>1, <1>5, LiveIsSound DEF DidSwapCompositorFrame, Script
  <2>2. Sound(DidSwapPageCompositorFrame(apps[x]))
    BY <2>1, SwapFrame, SwapFrameInv, SoundSame DEF Sound
  <2>3. QED
    BY <1>1, <1>5, <2>2, UpdateSound DEF DidSwapCompositorFrame
<1>6. CASE RenderProcessCreated(x)
  BY <1>6 DEF RenderProcessCreated, AppsSound, Live
<1>7. QED
  BY <1>2, <1>3, <1>4, <1>5, <1>6, PageLoadFinishedSound, LoadFailedSound,
     VisuallyCommittedSound, RenderProcessCrashedSound DEF EngineNext

\* Timers.
LEMMA TimerSound ==
  ASSUME IInv, AppsSound, NEW x \in Apps, TimerNext(x)
  PROVE  AppsSound'
<1>1. TypeOK
  BY DEF IInv
<1>2. Live(x) /\ apps[x] \in WebAppType /\ apps[x].page \in WebPageType
  BY <1>1, LiveIsSound
     DEF TimerNext, DomSuspendTimerFires, TimeoutCloseCallback,
         NetErrorReloadTimerFires
<1>3. CASE DomSuspendTimerFires(x)
  <2>1. /\ CanFire(apps[x].page.dom_suspend_timer)
        /\ Update(x, WithPage(apps[x], DomSuspendTimerFired(apps[x].page)))
    BY <1>3 DEF DomSuspendTimerFires
  <2>2. Coherent(apps[x].page)
    BY <1>1, <1>2, LiveIsSound DEF Sound, AppInv, AppCoherent
  <2>3. QED
    BY <1>1, <1>2, <2>1, <2>2, DomSuspendFired, DomSuspendFiredKnown, NewPageSound
<1>4. CASE TimeoutCloseCallback(x)
  <2> DEFINE t == Stop(Fired(apps[x].page.close_callback_timer))
             a == [apps[x] EXCEPT !.page.close_callback_timer = t]
  <2>1. t \in TimerType
    BY <1>2, <1>4, TimerTypes DEF TimeoutCloseCallback, WebPageType
  <2>2. CloseWebApp(x, a)
    BY <1>4 DEF TimeoutCloseCallback
  <2> HIDE DEF t
  <2>3. a \in WebAppType
    BY <1>2, <2>1, TimerEdit
  <2>4. QED
    BY <1>1, <2>2, <2>3, CloseWebAppSound
<1>5. CASE NetErrorReloadTimerFires(x)
  <2>1. Update(x, WithPage(apps[x], ReloadFailedUrl(apps[x].page)))
    BY <1>5 DEF NetErrorReloadTimerFires
  <2>2. QED
    BY <1>1, <1>2, <2>1, ReloadFailedKnown, NewPageSound
<1>6. QED
  BY <1>3, <1>4, <1>5 DEF TimerNext

\* Every event keeps every live app sound.
LEMMA EveryStepKeepsSound == IInv /\ AppsSound /\ [Next]_vars => AppsSound'
<1>1. UNCHANGED vars /\ AppsSound => AppsSound'
  BY DEF vars, AppsSound, Live
<1>2. QED
  BY <1>1, ManagerSound, WindowSound, ScriptSound, EngineSound, TimerSound DEF Next

\* Every live app agrees with its page, in every state of the system.
THEOREM AppsStaySound == Spec => []AppsSound
<1>1. Init => AppsSound
  BY InitApps DEF AppsSound, Live
<1>2. IInv /\ AppsSound /\ [Next]_vars => AppsSound'
  BY EveryStepKeepsSound
<1>3. QED
  BY <1>1, <1>2, Invariance, PTL DEF Spec

\* No window is shown over a page that is suspended, in whatever order shows,
\* hides, relaunches, minimizations and loads come.
THEOREM SuspendedPagesAreHidden == Spec => []SuspendedIsHidden
<1>1. AppsSound => SuspendedIsHidden
  BY DEF AppsSound, SuspendedIsHidden, AllLive, Sound, AppInv, SuspendedUnderHidden
<1>2. QED
  BY <1>1, AppsStaySound, PTL

\* A resume never takes a page whose DOM is stopped for one that still runs.
THEOREM StoppedDomIsKnown == Spec => []DomSuspendedIsSuspended
<1>1. AppsSound => DomSuspendedIsSuspended
  BY DEF AppsSound, DomSuspendedIsSuspended, AllLive, Sound, AppInv, AppCoherent,
         Coherent, DomKnown
<1>2. QED
  BY <1>1, AppsStaySound, PTL

\* A suspension whose DOM still runs is stopped by its timer or at the end of
\* whichever load finishes next.
THEOREM SuspensionIsNeverForgotten == Spec => []NoForgottenSuspend
<1>1. AppsSound => NoForgottenSuspend
  BY DEF AppsSound, NoForgottenSuspend, AllLive, Sound, AppInv, AppCoherent,
         Coherent, SuspensionDue
<1>2. QED
  BY <1>1, AppsStaySound, PTL

\* What is visible runs, its DOM and its media, and media that are stopped are
\* known to be: every way into sight goes through a resume, or a new view.
THEOREM WhatIsVisibleRuns == Spec => []VisiblePagesRun
<1>1. AppsSound => VisiblePagesRun
  BY DEF AppsSound, VisiblePagesRun, AllLive, Sound, AppInv, AppCoherent,
         Coherent, DomKnown, MediaKnown, VisibleRuns
<1>2. QED
  BY <1>1, AppsStaySound, PTL

\* The reload timer runs for as long as the load error page is shown, and no
\* longer.
THEOREM ReloadTimerFollowsErrorPage == Spec => []ReloadTimerWhileErrorPage
<1>1. AppsSound => ReloadTimerWhileErrorPage
  BY DEF AppsSound, ReloadTimerWhileErrorPage, AllLive, Sound, AppInv, AppCoherent,
         Coherent, ReloadTimerAgrees
<1>2. QED
  BY <1>1, AppsStaySound, PTL

\* A closing app always has something left that ends it.
THEOREM ClosingAlwaysProgresses == Spec => []ClosingMakesProgress
<1>1. AppsSound => ClosingMakesProgress
  BY DEF AppsSound, ClosingMakesProgress, AllLive, Sound, Progressing
<1>2. QED
  BY <1>1, AppsStaySound, PTL

-----------------------------------------------------------------------------
(* What brings a preloaded app into sight.                                 *)

Unseen(x) == Live(x) /\ Live(x)' => InDark(apps[x], apps[x]')

NoneSeen == \A x \in Apps : Unseen(x)

LEMMA InDarkReflexive ==
  ASSUME NEW a
  PROVE  InDark(a, a)
  BY CalmerReflexive, CalmerKeeps

\* An event of one app brings no other one into sight.
LEMMA OthersUnseen ==
  ASSUME TypeOK, NEW x \in Apps, NEW a, apps' = [apps EXCEPT ![x] = a],
         NEW y \in Apps \ {x}
  PROVE  Unseen(y)
<1>1. apps'[y] = apps[y]
  BY DEF TypeOK
<1>2. QED
  BY <1>1, InDarkReflexive DEF Unseen

LEMMA OneUnseen ==
  ASSUME TypeOK, NEW x \in Apps, NEW a, apps' = [apps EXCEPT ![x] = a],
         Live(x) /\ a.status = "live" => InDark(apps[x], a)
  PROVE  NoneSeen
<1>1. apps'[x] = a
  BY DEF TypeOK
<1>2. Unseen(x)
  BY <1>1 DEF Unseen, Live
<1>3. QED
  BY <1>2, OthersUnseen DEF NoneSeen

LEMMA UpdateUnseen ==
  ASSUME TypeOK, NEW x \in Apps, NEW a, Update(x, a), InDark(apps[x], a)
  PROVE  NoneSeen
  BY OneUnseen DEF Update

LEMMA UpdateCalm ==
  ASSUME TypeOK, NEW x \in Apps, NEW a, Update(x, a), Calmer(apps[x], a)
  PROVE  NoneSeen
  BY UpdateUnseen, CalmerKeeps

LEMMA NewPageUnseen ==
  ASSUME TypeOK, NEW x \in Apps, NEW p, NoMoreSuspended(apps[x].page, p),
         Update(x, WithPage(apps[x], p))
  PROVE  NoneSeen
<1>1. apps[x] \in WebAppType
  BY TypedApp
<1>2. QED
  BY <1>1, CalmerWithPage, UpdateCalm

\* A freed app is not seen.
LEMMA CloseWebAppUnseen ==
  ASSUME TypeOK, NEW x \in Apps, NEW a \in WebAppType, CloseWebApp(x, a)
  PROVE  NoneSeen
<1>1. Deleted(a).status # "live"
  BY DeletedType
<1>2. QED
  BY <1>1, OneUnseen DEF CloseWebApp

\* Hiding and closing take an app out of sight.
LEMMA CloseInternalUnseen ==
  ASSUME TypeOK, NEW x \in Apps, NEW a \in WebAppType, AppInv(a),
         InDark(apps[x], a), CloseAppInternal(x, a)
  PROVE  NoneSeen
<1>1. InDark(apps[x], HideWindow(a)) /\ InDark(apps[x], Closing(a))
  BY HideWindowInv, ClosingInv, InDarkTransitive
<1>2. CASE OnlyHides(a)
  BY <1>1, <1>2, UpdateUnseen DEF CloseAppInternal
<1>3. CASE ~OnlyHides(a)
  BY <1>1, <1>3, OneUnseen DEF CloseAppInternal
<1>4. QED
  BY <1>2, <1>3

LEMMA ForcedUnseen ==
  ASSUME NEW a \in WebAppType, Sound(a)
  PROVE  InDark(a, Forced(a)) /\ InDark(a, Closing(Forced(a)))
<1>1. InDark(a, Forced(a))
  BY CalmerWithFlags, CalmerKeeps DEF Forced
<1>2. Forced(a) \in WebAppType /\ AppInv(Forced(a))
  BY ForcedSound DEF Sound
<1>3. QED
  BY <1>1, <1>2, ClosingInv, InDarkTransitive

LEMMA CloseUnseen ==
  ASSUME TypeOK, AppsSound, NEW x \in Apps, Live(x), CloseAppInternal(x, apps[x])
  PROVE  NoneSeen
  BY LiveIsSound, InDarkReflexive, CloseInternalUnseen DEF Sound

LEMMA ForceCloseUnseen ==
  ASSUME TypeOK, AppsSound, NEW x \in Apps, Live(x),
         ForceCloseAppInternal(x, apps[x])
  PROVE  NoneSeen
  BY LiveIsSound, ForcedSound, ForcedUnseen, CloseInternalUnseen
     DEF ForceCloseAppInternal, Sound

\* A relaunch shows the app it reaches, whose preload is over.
LEMMA RelaunchUnseen ==
  ASSUME IInv, AppsSound, NEW app_id \in AppIds, NEW i \in Instances,
         NEW kind \in RelaunchKinds, OnRelaunchApp(app_id, i, kind)
  PROVE  NoneSeen
<1>1. PICK x \in app_list_ :
        LET a == [apps[x] EXCEPT !.close_page_requested = @ /\ ~apps[x].keep_alive]
        IN  Update(x, IF kind = "ignore" THEN a ELSE Relaunch(a, kind))
  BY DEF OnRelaunchApp
<1> DEFINE r == apps[x].close_page_requested /\ ~apps[x].keep_alive
           a == [apps[x] EXCEPT !.close_page_requested = r]
<1>2. TypeOK /\ x \in Apps /\ apps[x] \in WebAppType /\ Sound(apps[x])
  BY ListedIsLive, LiveIsSound DEF IInv
<1>3. r \in BOOLEAN
  BY <1>2 DEF WebAppType
<1>4. Update(x, IF kind = "ignore" THEN a ELSE Relaunch(a, kind))
  BY <1>1
<1> HIDE DEF r
<1>5. SameApp(apps[x], a) /\ Calmer(apps[x], a)
  BY <1>2, <1>3, SameWithFlags, CalmerWithFlags
<1> HIDE DEF a
<1>6. a \in WebAppType /\ AppInv(a)
  BY <1>2, <1>5, CalmerKeeps DEF SameApp, Sound
<1>7. InDark(apps[x], Relaunch(a, kind))
  BY <1>6, RelaunchInv DEF InDark
<1>8. QED
  BY <1>2, <1>4, <1>5, <1>7, CalmerKeeps, UpdateUnseen

LEMMA KillUnseen ==
  ASSUME IInv, AppsSound, NEW app_id \in AppIds, NEW i \in Instances,
         NEW force \in BOOLEAN, OnKillApp(app_id, i, force)
  PROVE  NoneSeen
<1>1. PICK x \in app_list_ : IF force THEN ForceCloseAppInternal(x, apps[x])
                                      ELSE CloseAppInternal(x, apps[x])
  BY DEF OnKillApp
<1>2. TypeOK /\ x \in Apps /\ Live(x)
  BY ListedIsLive DEF IInv
<1>3. QED
  BY <1>1, <1>2, ForceCloseUnseen, CloseUnseen

LEMMA PauseUnseen ==
  ASSUME IInv, AppsSound, NEW i \in Instances, OnPauseApp(i)
  PROVE  NoneSeen
<1>1. PICK x \in app_list_ : Update(x, HideWindow(apps[x]))
  BY DEF OnPauseApp
<1>2. TypeOK /\ x \in Apps /\ apps[x] \in WebAppType /\ AppInv(apps[x])
  BY ListedIsLive, LiveIsSound DEF IInv, Sound
<1>3. QED
  BY <1>1, <1>2, HideWindowInv, UpdateUnseen

LEMMA SetForceCloseUnseen ==
  ASSUME IInv, AppsSound, NEW i \in Instances, SetForceCloseApp(i)
  PROVE  NoneSeen
<1>1. PICK x \in app_list_ :
        IF apps[x].keep_alive /\ apps[x].hidden_window
          THEN ForceCloseAppInternal(x, apps[x])
          ELSE Update(x, [apps[x] EXCEPT !.force_close = TRUE])
  BY DEF SetForceCloseApp
<1>2. TypeOK /\ x \in Apps /\ Live(x) /\ apps[x] \in WebAppType
  BY ListedIsLive, LiveIsSound DEF IInv
<1>3. QED
  BY <1>1, <1>2, CalmerWithFlags, ForceCloseUnseen, UpdateCalm

LEMMA CloseAllUnseen ==
  ASSUME IInv, AppsSound, NEW running_apps \in SUBSET app_list_,
         CloseAllApps(running_apps)
  PROVE  NoneSeen
<1>1. TypeOK /\ running_apps \subseteq Apps
  BY DEF IInv, TypeOK
<1>2. \A y \in running_apps : apps[y] \in WebAppType /\ Sound(apps[y])
  BY <1>1, ListedIsLive, LiveIsSound
<1>3. \A y \in running_apps : InDark(apps[y], Closing(Forced(apps[y])))
  BY <1>2, ForcedUnseen
<1>4. apps' = [y \in Apps |-> IF y \in running_apps THEN Closing(Forced(apps[y]))
                                                    ELSE apps[y]]
  BY DEF CloseAllApps
<1>5. QED
  BY <1>3, <1>4, InDarkReflexive DEF NoneSeen, Unseen

LEMMA NetworkUnseen ==
  ASSUME IInv, UpdateNetworkStatus
  PROVE  NoneSeen
<1>1. ASSUME NEW y \in Apps
      PROVE  InDark(apps[y], WithPage(apps[y], ReloadFailedUrl(apps[y].page)))
  <2>1. apps[y] \in WebAppType /\ apps[y].page \in WebPageType
    BY TypedApp DEF IInv
  <2>2. NoMoreSuspended(apps[y].page, ReloadFailedUrl(apps[y].page))
    BY <2>1, ReloadFailedKnown
  <2>3. QED
    BY <2>1, <2>2, CalmerWithPage, CalmerKeeps
<1>2. apps' = [y \in Apps |->
                 IF y \in app_page_map_ /\ apps[y].page.is_load_error_page_finish
                   THEN WithPage(apps[y], ReloadFailedUrl(apps[y].page))
                   ELSE apps[y]]
  BY DEF UpdateNetworkStatus
<1>3. QED
  BY <1>1, <1>2, InDarkReflexive DEF NoneSeen, Unseen

LEMMA LaunchUnseen ==
  ASSUME IInv, NEW x \in Apps, NEW app_id \in AppIds,
         NEW i \in Instances, NEW args \in LaunchArgs, NEW updated \in BOOLEAN,
         OnLaunchUrl(x, app_id, i, args, updated)
  PROVE  NoneSeen
<1>1. PICK new : apps' = [apps EXCEPT ![x] = new]
  BY DEF OnLaunchUrl
<1>2. ~Live(x)
  BY DEF OnLaunchUrl, Live
<1>3. QED
  BY <1>1, <1>2, OneUnseen DEF IInv

LEMMA ManagerUnseen == IInv /\ AppsSound /\ ManagerNext => NoneSeen
  BY LaunchUnseen, RelaunchUnseen, KillUnseen, PauseUnseen, SetForceCloseUnseen,
     CloseAllUnseen, NetworkUnseen DEF ManagerNext

\* The events that may show an app.
Shows(x) ==
  \/ \E new_state \in HostStates : WindowStateChange(x, new_state)
  \/ Activate(x)
  \/ RenderProcessCrashed(x)

SeenOnlyIfShown == \A x \in Apps : Unseen(x) \/ Shows(x)

LEMMA NoneIsLess == NoneSeen => SeenOnlyIfShown
  BY DEF NoneSeen, SeenOnlyIfShown

\* Each of them changes no other app.
LEMMA ShowsOne ==
  ASSUME TypeOK, NEW x \in Apps, Shows(x)
  PROVE  SeenOnlyIfShown
<1>1. \E a : apps' = [apps EXCEPT ![x] = a]
  BY DEF Shows, WindowStateChange, Activate, RenderProcessCrashed, Update,
         CloseWebApp, ProcessCrashed, CloseAppNow
<1>2. QED
  BY <1>1, OthersUnseen DEF SeenOnlyIfShown

LEMMA DoCloseUnseen ==
  ASSUME TypeOK, AppsSound, NEW x \in Apps, DoClose(x)
  PROVE  NoneSeen
  BY ForceCloseUnseen, CloseUnseen DEF DoClose

LEMMA WindowSeen ==
  ASSUME TypeOK, AppsSound, NEW x \in Apps, WindowNext(x)
  PROVE  SeenOnlyIfShown
<1>1. CASE DoClose(x)
  BY <1>1, DoCloseUnseen DEF NoneSeen, SeenOnlyIfShown
<1>2. CASE WindowStateAboutToChange(x)
  <2>1. apps[x] \in WebAppType /\ AppInv(apps[x])
    BY <1>2, LiveIsSound DEF WindowStateAboutToChange, Sound
  <2>2. NoneSeen
    BY <1>2, <2>1, AboutToMinimizeInv, UpdateUnseen DEF WindowStateAboutToChange
  <2>3. QED
    BY <2>2 DEF NoneSeen, SeenOnlyIfShown
<1>3. CASE \E new_state \in HostStates : WindowStateChange(x, new_state)
  BY <1>3, ShowsOne DEF Shows
<1>4. QED
  BY <1>1, <1>2, <1>3 DEF WindowNext

LEMMA ScriptSeen ==
  ASSUME TypeOK, AppsSound, NEW x \in Apps, ScriptNext(x)
  PROVE  SeenOnlyIfShown
<1>1. Live(x)
  BY DEF ScriptNext, Activate, Deactivate, HideCommand, SetKeepAlive,
         SetHasOnCloseCallback, DidRunCloseCallback, WebPageClosePageRequested,
         Script
<1>2. /\ apps[x] \in WebAppType /\ apps[x].page \in WebPageType
      /\ AppInv(apps[x])
  BY <1>1, LiveIsSound DEF Sound
<1>3. CASE Deactivate(x)
  BY <1>3, DoCloseUnseen, NoneIsLess DEF Deactivate
<1>4. CASE HideCommand(x)
  BY <1>2, <1>4, HideInv, UpdateUnseen, NoneIsLess DEF HideCommand
<1>5. CASE \E keep \in BOOLEAN : SetKeepAlive(x, keep)
  BY <1>2, <1>5, CalmerWithFlags, UpdateCalm, NoneIsLess DEF SetKeepAlive
<1>6. CASE \E has \in BOOLEAN : SetHasOnCloseCallback(x, has)
  BY <1>2, <1>6, PageFlagsKnown, UpdateCalm, NoneIsLess DEF SetHasOnCloseCallback
<1>7. CASE DidRunCloseCallback(x)
  <2> DEFINE t == Stop(apps[x].page.close_callback_timer)
             a == [apps[x] EXCEPT !.page.close_callback_timer = t]
  <2>1. t \in TimerType
    BY <1>2, TimerTypes DEF WebPageType
  <2>2. CloseWebApp(x, a)
    BY <1>7 DEF DidRunCloseCallback
  <2> HIDE DEF t
  <2>3. a \in WebAppType
    BY <1>2, <2>1, TimerEdit
  <2>4. QED
    BY <2>2, <2>3, CloseWebAppUnseen, NoneIsLess
<1>8. CASE WebPageClosePageRequested(x)
  BY <1>2, <1>8, CalmerWithFlags, UpdateCalm, NoneIsLess DEF WebPageClosePageRequested
<1>9. CASE Activate(x)
  BY <1>9, ShowsOne DEF Shows
<1>10. QED
  BY <1>3, <1>4, <1>5, <1>6, <1>7, <1>8, <1>9
     DEF ScriptNext, NoneSeen, SeenOnlyIfShown

\* No load shows a preloaded app, whether it finishes, with a relaunch waiting
\* for it or not, or fails.
LEMMA LoadFinishedUnseen ==
  ASSUME TypeOK, AppsSound, NEW x \in Apps, PageLoadFinished(x)
  PROVE  NoneSeen
<1>1. /\ apps[x] \in WebAppType /\ apps[x].page \in WebPageType
      /\ AppInv(apps[x])
  BY LiveIsSound DEF PageLoadFinished, Sound
<1>2. CASE apps[x].page.cleaning_resources
  <2>1. WithPage(apps[x], Committed(apps[x].page)) \in WebAppType
    BY <1>1, CommittedSame, SameWithPage DEF SameApp
  <2>2. CloseWebApp(x, WithPage(apps[x], Committed(apps[x].page)))
    BY <1>2 DEF PageLoadFinished
  <2>3. QED
    BY <2>1, <2>2, CloseWebAppUnseen
<1>3. CASE ~apps[x].page.cleaning_resources
  <2>1. PICK kind \in PageRelaunchKinds : Update(x, LoadFinished(apps[x], kind))
    BY <1>3 DEF PageLoadFinished
  <2>2. QED
    BY <1>1, <2>1, LoadFinishedInv, UpdateUnseen
<1>4. QED
  BY <1>2, <1>3

LEMMA LoadFailedUnseen ==
  ASSUME TypeOK, AppsSound, NEW x \in Apps, NEW changed \in BOOLEAN,
         NEW shown \in BOOLEAN, LoadFailed(x, changed, shown)
  PROVE  NoneSeen
<1> DEFINE a         == [apps[x] EXCEPT !.page.loading = "none"]
           preloaded == a.preload_state # "none"
           closes    == preloaded /\ ~OnlyHides(a)
           b         == IF closes THEN Closing(a)
                        ELSE IF preloaded THEN HideWindow(a) ELSE a
           p         == AfterLoadFailed(b.page, changed, shown)
<1>1. apps[x] \in WebAppType /\ Sound(apps[x])
  BY LiveIsSound DEF LoadFailed
<1>2. apps' = [apps EXCEPT ![x] = WithPage(b, p)]
  BY DEF LoadFailed
<1>3. a \in WebAppType /\ AppInv(a) /\ InDark(apps[x], a)
  BY <1>1, PageFlagsFate, PageFlagsKnown, CalmerKeeps DEF SameApp, Sound
<1> HIDE DEF a
<1>4. b \in WebAppType /\ InDark(apps[x], b)
  <2>1. Closing(a) \in WebAppType /\ InDark(a, Closing(a))
    BY <1>3, ClosingType, ClosingInv
  <2>2. HideWindow(a) \in WebAppType /\ InDark(a, HideWindow(a))
    BY <1>3, HideWindowSame, HideWindowInv DEF SameApp
  <2> HIDE DEF preloaded, closes
  <2>3. QED
    BY <1>3, <2>1, <2>2, InDarkTransitive
<1> HIDE DEF b
<1>5. NoMoreSuspended(b.page, p)
  BY <1>4, PageOfApp, AfterLoadFailedKnown, SameKnowledgeSuspends
<1> HIDE DEF p
<1>6. InDark(apps[x], WithPage(b, p))
  BY <1>4, <1>5, CalmerWithPage, CalmerKeeps, InDarkTransitive
<1>7. QED
  BY <1>2, <1>6, OneUnseen

\* Nor does any frame.
LEMMA VisuallyCommittedUnseen ==
  ASSUME TypeOK, AppsSound, NEW x \in Apps, LoadVisuallyCommitted(x)
  PROVE  NoneSeen
<1> DEFINE a == [apps[x] EXCEPT !.page.has_been_shown = TRUE]
<1>1. apps[x] \in WebAppType /\ AppInv(apps[x])
  BY LiveIsSound DEF LoadVisuallyCommitted, Script, Sound
<1>2. a \in WebAppType /\ AppInv(a) /\ InDark(apps[x], a)
  BY <1>1, PageFlagsFate, PageFlagsKnown, CalmerKeeps DEF SameApp
<1>3. Update(x, FirstFrameVisuallyCommitted(a))
  BY DEF LoadVisuallyCommitted
<1> HIDE DEF a
<1>4. InDark(apps[x], FirstFrameVisuallyCommitted(a))
  BY <1>2, FirstFrameInv, InDarkTransitive
<1>5. QED
  BY <1>3, <1>4, UpdateUnseen

LEMMA EngineSeen ==
  ASSUME TypeOK, AppsSound, NEW x \in Apps, EngineNext(x)
  PROVE  SeenOnlyIfShown
<1>1. CASE \E url \in Urls : NavigationStarts(x, url)
  <2>1. PICK url \in Urls :
          Update(x, WithPage(apps[x], DidStartNavigation(apps[x].page, url)))
    BY <1>1 DEF NavigationStarts
  <2>2. QED
    BY <2>1, TypedApp, StartNavigationKnown, SameKnowledgeSuspends, NewPageUnseen, NoneIsLess
<1>2. CASE SubframeNavigationStarts(x)
  BY <1>2, TypedApp, LoadStartedKnown, SameKnowledgeSuspends, NewPageUnseen, NoneIsLess
     DEF SubframeNavigationStarts
<1>3. CASE LoadProgressChanged(x)
  BY <1>3, TypedApp, PageFlagsKnown, UpdateCalm, NoneIsLess DEF LoadProgressChanged
<1>4. CASE DidSwapCompositorFrame(x)
  <2>1. apps[x] \in WebAppType /\ AppInv(apps[x])
    BY <1>4, LiveIsSound DEF DidSwapCompositorFrame, Script, Sound
  <2>2. QED
    BY <1>4, <2>1, SwapFrameInv, UpdateUnseen, NoneIsLess DEF DidSwapCompositorFrame
<1>5. CASE RenderProcessCreated(x)
  BY <1>5, InDarkReflexive, NoneIsLess DEF RenderProcessCreated, NoneSeen, Unseen
<1>6. CASE RenderProcessCrashed(x)
  BY <1>6, ShowsOne DEF Shows
<1>7. QED
  BY <1>1, <1>2, <1>3, <1>4, <1>5, <1>6, LoadFinishedUnseen, LoadFailedUnseen,
     VisuallyCommittedUnseen DEF EngineNext, NoneSeen, SeenOnlyIfShown

LEMMA TimerUnseen ==
  ASSUME TypeOK, AppsSound, NEW x \in Apps, TimerNext(x)
  PROVE  NoneSeen
<1>1. apps[x] \in WebAppType /\ apps[x].page \in WebPageType
  BY TypedApp
<1>2. CASE DomSuspendTimerFires(x)
  <2>1. /\ CanFire(apps[x].page.dom_suspend_timer) /\ Live(x)
        /\ Update(x, WithPage(apps[x], DomSuspendTimerFired(apps[x].page)))
    BY <1>2 DEF DomSuspendTimerFires
  <2>2. Coherent(apps[x].page)
    BY <2>1, LiveIsSound DEF Sound, AppInv, AppCoherent
  <2>3. QED
    BY <1>1, <2>1, <2>2, DomSuspendFiredKnown, NewPageUnseen
<1>3. CASE TimeoutCloseCallback(x)
  <2> DEFINE t == Stop(Fired(apps[x].page.close_callback_timer))
             a == [apps[x] EXCEPT !.page.close_callback_timer = t]
  <2>1. t \in TimerType
    BY <1>1, <1>3, TimerTypes DEF TimeoutCloseCallback, WebPageType
  <2>2. CloseWebApp(x, a)
    BY <1>3 DEF TimeoutCloseCallback
  <2> HIDE DEF t
  <2>3. a \in WebAppType
    BY <1>1, <2>1, TimerEdit
  <2>4. QED
    BY <2>2, <2>3, CloseWebAppUnseen
<1>4. CASE NetErrorReloadTimerFires(x)
  BY <1>1, <1>4, ReloadFailedKnown, NewPageUnseen DEF NetErrorReloadTimerFires
<1>5. QED
  BY <1>2, <1>3, <1>4 DEF TimerNext

LEMMA EveryStepIsSeen == IInv /\ AppsSound /\ [Next]_vars => SeenOnlyIfShown
<1> SUFFICES ASSUME IInv, AppsSound, [Next]_vars
             PROVE  SeenOnlyIfShown
  OBVIOUS
<1>1. TypeOK
  BY DEF IInv
<1>2. CASE UNCHANGED vars
  BY <1>2, InDarkReflexive DEF vars, SeenOnlyIfShown, Unseen
<1>3. CASE ManagerNext
  BY <1>3, ManagerUnseen DEF NoneSeen, SeenOnlyIfShown
<1>4. ASSUME NEW x \in Apps,
             WindowNext(x) \/ ScriptNext(x) \/ EngineNext(x) \/ TimerNext(x)
      PROVE  SeenOnlyIfShown
  BY <1>1, <1>4, WindowSeen, ScriptSeen, EngineSeen, TimerUnseen
     DEF NoneSeen, SeenOnlyIfShown
<1>5. QED
  BY <1>2, <1>3, <1>4 DEF Next

\* As long as no relaunch ends its preload, a preloaded app that is out of sight
\* is shown by the compositor, by its own script or by a new view, and by
\* nothing else: not by frames, loads, pending relaunches, closes or timers.
THEOREM PreloadedIsShownByHostOnly == Spec => PreloadShownByHostOnly
<1>1. SeenOnlyIfShown =>
        \A x \in Apps :
          /\ Live(x) /\ Live(x)'
          /\ apps[x].preload_state # "none" /\ apps[x]'.preload_state # "none"
          /\ apps[x].page.visibility # "visible"
          /\ apps[x]'.page.visibility = "visible"
          => \/ \E new_state \in HostStates : WindowStateChange(x, new_state)
             \/ Activate(x)
             \/ RenderProcessCrashed(x)
  BY DEF SeenOnlyIfShown, Shows, Unseen, InDark
<1>2. IInv /\ AppsSound /\ [Next]_vars =>
        [\A x \in Apps :
           /\ Live(x) /\ Live(x)'
           /\ apps[x].preload_state # "none" /\ apps[x]'.preload_state # "none"
           /\ apps[x].page.visibility # "visible"
           /\ apps[x]'.page.visibility = "visible"
           => \/ \E new_state \in HostStates : WindowStateChange(x, new_state)
              \/ Activate(x)
              \/ RenderProcessCrashed(x)]_vars
  BY <1>1, EveryStepIsSeen
<1>3. QED
  BY <1>2, Invariance, AppsStaySound, PTL DEF Spec, PreloadShownByHostOnly

-----------------------------------------------------------------------------
(* The limit of reloads after a crash.                                     *)

LEMMA SuspendMediaLoadsNothing ==
  ASSUME NEW p \in WebPageType
  PROVE  SuspendWebPageMedia(p).request = p.request
  BY DEF SuspendWebPageMedia, WebPageType

\* Hiding a window asks its page for no load.
LEMMA HidingLoadsNothing ==
  ASSUME NEW a \in WebAppType
  PROVE  HideWindow(a).page.request = a.page.request
<1> DEFINE m == SuspendWebPageMedia(a.page)
           q == [m EXCEPT !.visibility = "hidden"]
           r == SuspendWebPageAll(q)
<1>1. m \in WebPageType /\ m.request = a.page.request
  BY PageOfApp, SuspendMedia, SuspendMediaLoadsNothing DEF SameClosing
<1> HIDE DEF m
<1>2. q.request = m.request /\ q \in WebPageType
  <2>1. "hidden" \in Visibilities
    BY DEF Visibilities
  <2>2. q \in WebPageType
    BY <1>1, <2>1, Zenon DEF WebPageType
  <2>3. QED
    BY <1>1, <2>2 DEF WebPageType
<1> HIDE DEF q
<1>3. r.request = q.request
  <2>1. SuspendWebPageMedia(q).request = q.request /\ SuspendWebPageMedia(q) \in WebPageType
    BY <1>2, SuspendMedia, SuspendMediaLoadsNothing DEF SameClosing
  <2>2. QED
    BY <2>1 DEF SuspendWebPageAll, WebPageType
<1> HIDE DEF r
<1>4. OnStageDeactivated(a).page = r
  BY DEF OnStageDeactivated, SetVisibilityState, WithPage, WebAppType, m, q, r
<1>5. HideWindow(a).page = IF CanHideWindow(a) THEN r ELSE a.page
  BY <1>4, StageDeactivated DEF HideWindow, Hide, WebAppType, SameApp
<1>6. QED
  BY <1>1, <1>2, <1>3, <1>5

LEMMA DeletedLoadsNothing ==
  ASSUME NEW a \in WebAppType
  PROVE  Deleted(a).page.request = "none"
  BY DEF Deleted, Destroyed, NewPage, WebAppType

\* A crash that asks for the page of the app once more was counted, below the
\* limit of its window; any other one closes, hides or marks the app.
LEMMA ReloadIsCounted ==
  ASSUME TypeOK, NEW x \in Apps, NEW a \in WebAppType,
         a.page.request = "none", ProcessCrashed(x, a),
         apps'[x].page.request = "app"
  PROVE  /\ last_crashed_app_ids_[a.app_id] + 1 < ReloadingLimit(a)
         /\ last_crashed_app_ids_'[a.app_id] = last_crashed_app_ids_[a.app_id] + 1
<1> DEFINE count  == last_crashed_app_ids_[a.app_id] + 1
           closes == count >= ReloadingLimit(a)
<1>1. apps \in [Apps -> WebAppType] /\ a.app_id \in AppIds /\ count \in Nat
  BY DEF TypeOK, WebAppType
<1>2. CASE IsMinimized(a)
  <2>1. apps'[x] = [a EXCEPT !.crashed = TRUE]
    BY <1>1, <1>2 DEF ProcessCrashed, Update
  <2>2. apps'[x].page = a.page
    BY <2>1 DEF WebAppType
  <2>3. QED
    BY <2>2
<1>3. CASE ~IsMinimized(a) /\ closes /\ ~OnlyHides(a)
  <2> DEFINE c == [a EXCEPT !.page.is_closing = TRUE]
             d == OnStageDeactivated(c)
  <2>1. [a.page EXCEPT !.is_closing = TRUE] \in WebPageType
    BY PageOfApp, Zenon DEF WebPageType
  <2>2. c \in WebAppType
    BY <2>1, Zenon DEF WebAppType
  <2>3. apps'[x] = Deleted(d)
    BY <1>1, <1>3 DEF ProcessCrashed, CloseAppNow
  <2> HIDE DEF c
  <2>4. d \in WebAppType
    BY <2>2, StageDeactivated DEF SameApp
  <2> HIDE DEF d
  <2>5. apps'[x].page.request = "none"
    BY <2>3, <2>4, DeletedLoadsNothing
  <2>6. QED
    BY <2>5
<1>4. CASE ~IsMinimized(a) /\ closes /\ OnlyHides(a)
  <2>1. apps'[x] = HideWindow(a)
    BY <1>1, <1>4 DEF ProcessCrashed
  <2>2. QED
    BY <2>1, HidingLoadsNothing
<1>5. CASE ~IsMinimized(a) /\ ~closes
  <2>1. last_crashed_app_ids_' = [last_crashed_app_ids_ EXCEPT ![a.app_id] = count]
    BY <1>5 DEF ProcessCrashed
  <2>2. last_crashed_app_ids_'[a.app_id] = count
    BY <1>1, <2>1 DEF TypeOK
  <2>3. ReloadingLimit(a) \in Nat
    BY DEF ReloadingLimit, kContinuousReloadingLimit
  <2>4. count < ReloadingLimit(a)
    BY <1>1, <1>5, <2>3
  <2>5. QED
    BY <2>2, <2>4
<1>6. QED
  BY <1>2, <1>3, <1>4, <1>5

\* A page is loaded again after at most two crashes of its app id in a row, and
\* after one if its window is not fullscreen.
THEOREM CrashesAreLimited == Spec => CrashLimit
<1> DEFINE A == \A x \in app_list_ :
                  RenderProcessCrashed(x) /\ apps[x]'.page.request = "app"
                  => /\ last_crashed_app_ids_'[apps[x].app_id] < kContinuousReloadingLimit
                     /\ IsNormal(apps[x]) => last_crashed_app_ids_'[apps[x].app_id] = 1
<1>1. ASSUME IInv, [Next]_vars
      PROVE  A
  <2> SUFFICES ASSUME NEW x \in app_list_, RenderProcessCrashed(x),
                      apps[x]'.page.request = "app"
               PROVE  /\ last_crashed_app_ids_'[apps[x].app_id] < kContinuousReloadingLimit
                      /\ IsNormal(apps[x]) => last_crashed_app_ids_'[apps[x].app_id] = 1
    OBVIOUS
  <2> DEFINE v == RecreateWebView(apps[x].page)
             w == WithPage(apps[x], v)
  <2>1. /\ TypeOK /\ x \in Apps /\ apps[x] \in WebAppType
        /\ apps[x].page \in WebPageType /\ ~apps[x].page.is_closing
    BY <1>1, ListedIsLive, TypedApp DEF IInv, RegistryCoherent
  <2>2. ProcessCrashed(x, w)
    BY <2>1 DEF RenderProcessCrashed
  <2>3. v \in WebPageType /\ v.request = "none"
    <3>1. v \in WebPageType
      BY <2>1, Recreate DEF SameClosing
    <3>2. v.request = "none"
      BY <2>1 DEF RecreateWebView, NewView, WebPageType
    <3>3. QED
      BY <3>1, <3>2
  <2> HIDE DEF v
  <2>4. /\ w.page = v /\ w.app_id = apps[x].app_id
        /\ w.host_state = apps[x].host_state
    BY <2>1 DEF WithPage, WebAppType
  <2>5. w \in WebAppType
    BY <2>1, <2>3, Zenon DEF WithPage, WebAppType
  <2> HIDE DEF w
  <2>6. /\ last_crashed_app_ids_[w.app_id] + 1 < ReloadingLimit(w)
        /\ last_crashed_app_ids_'[w.app_id] = last_crashed_app_ids_[w.app_id] + 1
    BY <2>1, <2>2, <2>3, <2>4, <2>5, ReloadIsCounted
  <2>7. last_crashed_app_ids_[w.app_id] \in Nat
    BY <2>1, <2>5 DEF TypeOK, WebAppType
  <2>8. QED
    BY <2>4, <2>6, <2>7 DEF ReloadingLimit, kContinuousReloadingLimit, IsNormal
<1>2. IInv /\ [Next]_vars => A
  BY <1>1
<1> HIDE DEF A
<1>3. Spec => [][A]_vars
  BY <1>2, Invariance, PTL DEF Spec
<1>4. QED
  BY <1>3 DEF CrashLimit, A

=============================================================================
