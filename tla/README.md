# WebAppManager in TLA+

WebAppManager (WAM) is the webOS process that runs web apps: it launches them
for the system application manager (SAM), gives each one a window and a web
page, and suspends, resumes, relaunches and closes them. This directory models
its control logic in TLA+, checks it with TLC on small instances and proves its
most important safety properties with TLAPS for every instance. Paths below are
relative to the repository.

## The system

| Component | State it keeps | Reached by |
|---|---|---|
| `WebAppManagerServiceLuna` (`src/webos`) | connections to other services, subscribers of listRunningApps | Luna bus calls: launchApp, killApp, pauseApp, closeAllApps, listRunningApps, clearBrowsingData, ... |
| `NotificationServiceLuna` (`src/webos`) | the alert of each notification, the contexts of its calls | notifications of the pages; answers of the notification service |
| `WebAppManager` (`src/core`) | `app_list_`, `app_page_map_`, `closing_app_list_`, `last_crashed_app_ids_`, `app_version_`, `device_info_`, `is_accessibility_enabled_` | the service; apps that close or crash |
| `WebAppFactoryManagerImpl`, `PluginLoader` | `interfaces_`, `plugins_` | each launch, once for the app and once for its page |
| `ApplicationDescription` | the members of an appinfo.json | a launch |
| `WebAppBase` / `WebAppWayland` | `keep_alive_`, `hidden_window_`, `preload_state_`, `crashed_`, pending relaunch, focus, input region, ... | the manager; the window; the page |
| `WebAppWaylandWindow` | the compositor's window state, the last mouse event, the key mask | compositor events: state, close, focus, mouse, keyboard panel |
| `WebPageBase` / `WebPageBlink` | `is_suspended_`, `suspend_at_load_`, `is_paused_`, `is_closing_`, `cleaning_resources_`, the failed url, the trust level, timers | the app; engine callbacks; `webOSSystem` commands |
| Settings service, connection manager (external) | language, country, audio guidance, network status; their subscribers | server status messages and answers to subscriptions |
| `Timer` (`src/util`) | `is_running_`, the GLib source id | the GLib main loop |
| Web engine (external) | url, load, DOM, media, visibility | calls of `WebPageBlink` |

Everything runs on one thread, the GLib/UI main loop. Nothing is preempted, so
one callback is one action; what makes the code hard is that the callbacks come
in any order. A compositor event, an engine callback, a timer and a call of SAM
may each reach an app that is loading, suspended, preloaded, crashed, closing
or about to be deleted, and most handlers only look at one or two flags.

The hazards we found in the code, each at its line, are listed in
`PROJECT.json`. The main ones: a closing app stays reachable from lists and
timers; a close callback that is executed twice or never answers; a relaunch that
comes while a page loads, is suspended or has crashed; a view that is recreated
while the flags and timers of the old one stay; crash counters keyed by app id
and shared by instances; a DOM that is suspended when it has to run; an error
page, a reload timer and the network status that each load the failed url; a
mouse button or a keyboard region that stays when its window lost the focus; a
plugin looked up twice in one launch.

## Modules

| Module | Models | Form |
|---|---|---|
| `Timer` | `util/timer.{h,cc}` | functions on a timer record |
| `WebPage` | `WebPageBase`, `WebPageBlink` and, marked external, what the engine does | functions on a page record |
| `WebApp` | `WebAppBase`, `WebAppWayland` | functions on an app record, which holds its page |
| `WebAppManager` | the registry and every event that reaches it or an app | the state machine: `Init`, `Next`, `Spec`, the properties |
| `LunaService` | the methods of `WebAppManagerServiceLuna`, their checks and replies, over `WebAppManager` | state machine that extends the manager's |
| `AppLifecycle` | what SAM is promised: an app object runs once, one per instance, and the list is posted whenever one stops | abstract state machine |
| `SystemServices` | subscriptions of `WebAppManagerServiceLuna` to the settings service and the connection manager, and the way of a setting to `DeviceInfo` and to the views | state machine and properties |
| `ApplicationDescription` | `application_description.cc`, the window group and the sizes that follow from it | operators on a JSON value |
| `ErrorPages` | one app's loads: deep links, failures, the error page and its trust level, reloads | state machine that extends `ApplicationDescription` |
| `WindowInput` | focus, mouse, cursor, input region, virtual keyboard and keys of one window | state machine and properties |
| `WebAppFactory` | `WebAppFactoryManagerImpl`, `PluginLoader` | state machine and properties |
| `NotificationService` | `NotificationServiceLuna`, and of `PalmServiceBase` the start of a service and its callouts | state machine |
| `DocumentedClaims` | what comments and declarations claim of the manager and its code does not do | properties only |
| `MC*` | scenarios: parts of `Next` on small instances; constants | |
| `*Proofs` | lemmas and theorems | |

`WebAppManager` extends `WebApp`, which extends `WebPage`, which extends
`Timer`. A method of the source is a function from the record before the call
to the record after it; a method that calls others composes their functions, so
an action is a whole handler, with everything it calls. `apps` is the heap of
app objects; a record's `status` tells whether the object is allocated.
`WebAppManager!Life` maps an app object to `AppLifecycle`, and
`ImplementsLifecycle` says that the manager implements it.

`LunaService` composes the bus with the manager: a call is refused, or does one
of the manager's actions, and the same step writes `reply`, the answer. `told` is
what each subscriber of listRunningApps received last; it follows the manager's
`posted`. Everything that happens to the manager without a call is an `Event`.

`SystemServices` is a state machine of its own. It shares with `WebAppManager`
only which apps run and when a renderer crashes, and of a page it keeps just what
the settings reach. Services and bus are external: `statuses` and `answers` are
the messages on their way to WAM, one queue for each service and subscription, so
that messages of two queues arrive in any order. `SystemServiceConnectCallback`
and `NetworkConnectionStatusCallback` are one action, `ServerStatusCallback`;
`SubscriptionsFor` says what each of them subscribes to. A view's
`accept_languages`, `audio_guidance` and `use_accessibility` are what the engine
was told, `locale` and `country` are the copies of the page's script.

`ErrorPages`, `WindowInput`, `WebAppFactory` and `NotificationService` are state
machines of their own too, each with the part of an app's state its question
needs. `WebAppManager` has one error page and no trust level, no description and
no keys; `ErrorPages` has one app that is never hidden or closed by the user but
whose urls, retries and languages are told apart. Where both name a field of the
source (`is_load_error_page_finish_`, the reload timer), both take it from the
same lines.

### Abstractions

* A url is one of the app's page, the error page and about:blank.
* A relaunch is an event, a navigation, or one that only carries "preload" or
  "launchedHidden" and does nothing. One that was backed up is decided anew when
  the page has loaded, so that `DoPendingRelaunch` takes either of the first two.
* The four preload strings are kept by what they do to the page: "partial" and
  "semi-full" suspend its media, "full" and "minimal" do not.
* `NATIVE_WINDOW_MAXIMIZED` is treated like fullscreen by every function and is
  the same value.
* `WebPageBlink::ShouldStopJSOnSuspend` is taken to be true, which is the
  default of the engine build; with false a suspended page only stops painting.
* `closing_app_list_` keeps the entry of an app that is freed, as the code does:
  an entry is made under the instance id and erased under the app id
  (`web_app_base.cc:458`). Nothing follows the pointer that stays.
* App ids are not empty: the system application manager has no other.
* In a request to `LunaService`, `Bad` is a field the method refuses for its type,
  `Empty` an id that is the empty string. killApp and webProcessCreated read a
  missing id as `Empty`; launchApp and pauseApp ask for theirs, so that a missing one
  is `Bad`. launchApp lets only objects through as description and parameters, so that
  the two returns of `WebAppManager::Launch` that set no error code
  (`web_app_manager.cc:666` and `677-681`) are never taken and not modelled.
* setInspectorEnable is the one of `WebAppManagerServiceLunaImpl`, which answers with
  success and does nothing; builds without `ENABLE_API_SET_INSPECTOR_ENABLE` do not
  register it.
* `ErrorPages`: the configured error page is a local file. An app's policy is
  the default one or `event`; what an app with `event` is told is left out.
  A crash in the background, `GetIdentifier` and the flag of the engine's own
  net error helper decide nothing in it. A document that finishes loading is
  taken for the one whose url the view has. The engine has a url for a load that is
  tried again after a change of the network.
* A JSON value is a record of its type and content; jsoncpp is external, with
  the conversions that throw. Texts are told apart only where the code looks
  into them. `vendorExtension` and `deeplinkingParams` are passed on as they are.
  A layer of a window group that is no object throws only when the window is set up;
  as that is part of the launch, `Throws` has it with the others.
* `WindowInput`: the page is in the engine, which keeps its focus and button;
  both change only by calls of WAM. Regions are the position of their one
  rectangle's top. The compositor may show a keyboard over another one, hide one that
  is not shown and send a height of zero: the handler looks at the height alone.
* An answer of a service is what WAM reads of it. One that lacks what its
  callback asks for ("country" for all options) is the same as an empty one.
* The settings that WAM handles alike are one: `LocalCountry` stands for
  `SmartServiceCountry` and `ScreenRotation` too.
* The engine: it starts a navigation that was requested, or that the script of a
  running page asks for; a navigation finishes, fails or is replaced; a stopped DOM
  runs no script; a renderer may crash whenever a view has a page or loads one.

### Mutants

Operators that are called a mutant in their comment are not part of the model.
Each is a plausible mistake in the definition next to it, and shows that the
property it is paired with in `PROJECT.json` notices it.

## Runs

`Next` as a whole has more states, even with one app, than a run of a few
minutes visits, so that each run takes the part of it that its question is
about; every action is in one of them, and the proofs are about all of `Next`.

| Run | Question | Instance |
|---|---|---|
| `show_hide` | Do app, page, engine and window agree on what is hidden, paused and suspended, does what is visible run, and what brings a preloaded app into sight, for every kind of launch and every order of show, hide, minimize, relaunch, load, crash and timer? | one app, every launch |
| `close` | Does a close end, with and without a close callback, repeated, over failed loads and crashes? Does only what takes keepAlive away end a kept app? Does the error page's timer run when it should? | one app; fairness |
| `crash_loop` | Does the limit on reloads hold for apps that share a crash counter? Is the registry coherent when apps are closed and launched again while the old one is there, and does it implement `AppLifecycle`? | two app objects, two ids, two instances |
| `system_services` | Do views have the settings that WAM holds, and does WAM hold those of the services, when services crash and restart, values change and apps come, go and crash? Do the values arrive in the end? | one app; one service at a time; fairness |
| `web_app_factory` | Are an app and its page made by one plugin that serves its type and stays loaded, whatever is installed or removed, with plugins loaded at once or on demand? | three plugins of any key, two apps, one change of the directory |
| `luna_service` | Is a success true on every path? Do subscribers know what runs? Does clearBrowsingData remove all it is asked for or nothing? Does a relaunch that is answered with success reach the app, whether it is preloaded, paused, crashed or at the error page, and leave no page suspended? | two scenarios, one for each of two ids: two app objects, two instances, one subscriber; one instance with three kinds of launch |
| `window_input` | Do page, app, window and compositor agree on focus, mouse button, input region and keys? | one window, keyboards of two heights, one region, the back key |
| `error_pages` | Is a description usable, the error page the one for the language, the trust level the app's again, and the app never left blank nor at the error page for good? | one app of seven descriptions, four languages, three display sizes, with and without error pages; fairness |

The runs that expect a violation state what the source says of itself:

| Run | What the source says | What happens |
|---|---|---|
| `paused_media` | the media of a page that is paused are "Already paused" | the new view of a page that crashed plays, and `is_paused_` stays: the next suspension stops nothing (`web_page_blink.cc:456`) |
| `lost_relaunch` | a relaunch waits till the page is loaded | it is cleared when the page is loaded and not yet shown (`web_app_base.cc:254`) |
| `previous_alert` | "Close the previous notification with the same tag, if possible" | an alert is closed only after a toast, which is never there: it stays, and its id is overwritten (`notification_service_luna.cc:133`) |
| `error_page_trust` | the error page is set to the trust level `trusted` | one that follows an error page gets the app's level (`web_page_blink.cc:1223`) |

### Bounds

* `Apps` bounds the launches. Two objects allow an instance to be launched
  again while its first app is closing. An app touches another one only
  through the registry, its instance id and the crash counter of its app id,
  so two objects meet each of these.
* `MaxCrashes` = 3 is above the limit after which an app is not reloaded
  (`kContinuousReloadingLimit` = 3, 2 for a window that is not fullscreen). In
  `show_hide` it is 2, so that a page recovers, and then is hidden or closed.
* `MaxLeaked` bounds the timer sources that are lost. One is enough to meet a
  timer that fires while another one of the same page is armed.
* `system_services`: `MaxChanges` = 2 and `MaxStops` = 1: a value changes before
  and after its service crashes, or twice in a row while an answer is on its way.
  The two services share no message and no variable but the views, so that
  `MCSystemServices` runs one at a time; the proofs are about both. One app is
  enough, as apps do not touch each other's views.
* `web_app_factory`: three plugins are one for the type, one whose key contains
  it and the default, in every order and state, and any two of one key.
  `MaxChanges` = 1 lets a plugin be installed, broken, replaced or removed between two
  launches; a handle that is kept does not see the file any more, so that a
  second change tells nothing new of it.
* `luna_service`: the id that is launched first selects the scenario. In `ClosingNext`
  no renderer crashes, as crashes are in `crash_loop`. A client that
  subscribes differs from another one only in when it does. The calls that reach no
  app, and those that are refused for their parameters, are made before the first
  launch; every method is called with good parameters and with each that it refuses;
  arrays of clearBrowsingData have up to two entries, one before a bad one. In
  `RelaunchNext` there is one crash (`MaxCrashes` = 1), as a second one only repeats
  it, and no close but that of a preloaded app that fails to load, after which it is
  not launched again: the first scenario has these.
* `window_input`: the keyboard's heights are `{1, 2}`, as a keyboard that comes over
  another one of a different height needs two, and the region asked for is at `0`.
  `MaxShift` = 2 bounds how far keyboards that do not come in pairs may move it;
  without a bound they move it for ever. Of the keys with a property it has one, and the masks a key of the
  table and a name that is none. The proofs are about all.
* `error_pages`: one crash and one relaunch meet every load that is under way, and
  one more of each only repeats it; failures, retries, reloads and changes of the
  network are not bounded. The languages have a script, a region, both or none,
  and `ErrorPageIsNearest` asks of every subset of the directories. The display sizes
  have equal and unequal ratios.
* `previous_alert`: `MaxCalls` = 3 with as many alerts.

The runs that check no deadlock stop when every object of `Apps` is freed, as
the bound on launches requires, or, in `luna_service` and `error_pages`, when WAM has
refused the description or closed an app that could not be preloaded.

### Fairness

In `close`, only the timeout of the close callback is fair: GLib's main loop dispatches a
source whose time has come. Nothing is assumed of the engine, of scripts or of
the compositor. `CloseCallbackEnds` needs no more. That about:blank finishes
loading, and so that an app whose page is being unloaded is freed, is not a
promise of this code, which has no timeout for it.

In `system_services`, the callbacks of WAM are fair: the main loop dispatches
every message that has arrived on the bus. Services need not start, nor change
a value, and a service that has stopped may stay so: `SettingsArrive` speaks of
those that run.

In `error_pages`, the engine takes each load to its end and WAM's main loop runs
the reload timer. Weak fairness is enough for the start of a navigation, the end
of a load and the timer. The answer to a load has strong fairness, since the timer
repeats and takes the place of the load it began itself: a load gets its
answer, a document or a failure, before the next try infinitely often,
as the timer waits a minute (`kReloadTimeoutMs`).
The network need not come back: `RecoversFromErrorPage` speaks of an app whose
network stays.

## Proofs

`WebAppManagerProofs` proves for every set of ids, instances, objects and
launch arguments, and every bound:

* `TypeCorrectness`: `Spec => []TypeOK`
* `RegistryStaysCoherent`, `InstancesStayUnique`, `PostedListIsRunning`,
  `CrashCountsAreCurrent`: the safety invariants of the registry
* `KeptAliveSurvives`: the action property `KeepAliveSurvives`
* `Refinement`: `Spec` implements `AppLifecycle`

They rest on `Invariance`: `IInv` is the conjunction of these invariants with
`OnlyClosingEnds`, which says that only a closing page cleans its resources, has
a close callback's timer running or lost, or a script that may answer it. It is
what makes the others inductive: without it, the end of a load or a timeout could
delete an app that is in the registry. `TypeOK` alone does not tell, since
both callbacks look at the page and not at `is_closing_`.

The argument is in two layers. `WebPageProofs` and `WebAppProofs` show of each
function what type it returns and which fields it leaves alone. For the state machine,
every action is shown to be of one of four kinds: `Stays` (no app comes or
goes), `Starts(x)` (a launch), `Stops(closed, status)` (apps leave the registry, closing
or freed) or `Ends(x)` (a closing app is freed). `OneKindKeeps` proves that each
kind keeps `IInv`; the theorems need only the four kinds and not the thirty
actions.

Of each app by itself it proves, for the same constants:

* `SuspendedPagesAreHidden`, `StoppedDomIsKnown`, `SuspensionIsNeverForgotten`,
  `WhatIsVisibleRuns`: what is suspended is hidden, known to be, and resumed
  by a resume, and what is visible runs, in any order of shows, hides, relaunches,
  loads and crashes
* `ReloadTimerFollowsErrorPage`, `ClosingAlwaysProgresses`
* `PreloadedIsShownByHostOnly` and `CrashesAreLimited`: the action properties
  `PreloadShownByHostOnly` and `CrashLimit`

The invariants rest on `AppsStaySound`, a second inductive invariant beside `IInv`:
every live app is `Sound`. `Sound` is `AppInv`, what app and page know of each other, and
`Progressing`: a closing page unloads or has armed the timer of its close
callback. Three parts of `AppInv` are no property of a run:

* `ForegroundOnly`: a page that may run in the background is never suspended. Its
  DOM timer would stop nothing, and `SuspensionDue`, that a suspension is done or
  still comes, would not survive the timer.
* `PreloadHides`: app and page agree that there is a preload, and while there is one the
  window is marked hidden and its stage was not activated, so that neither a first nor a
  swapped frame shows it.
* `SuspendedUnderHidden` is `SuspendedIsHidden` of one app. It stands apart from
  `AppCoherent` because a relaunch breaks it for a while: `Unhide` clears
  `hidden_window_` before the page is resumed. The functions in between keep
  `AppCoherent`, the whole handler both.

`VisiblePagesRun` is the part `VisibleRuns`, `DomKnown` and `MediaKnown` of `Coherent`: every way to
a visible page goes through a resume or a new view, and a resume restarts media only if
it knows that they are stopped.

`PreloadShownByHostOnly` is about steps: every function of `WebPage` and `WebApp` but
those of the three events it names is `InDark`, that is, it ends the preload or makes no
page visible that was not (`SeenOnlyIfShown`). The compositor's events do show a preloaded app whose window is
given another state: `OnStageActivated` asks neither for the preload nor for
`hidden_window_`. The property leaves that to the compositor and excludes everything else.

`NoForgottenSuspend` (`SuspensionDue` here) takes `suspend_at_load` for a suspension
that still comes. Whether a load is under way is the engine's knowledge and is not
part of it.

`CrashLimit` needs no new invariant: `IInv` has the crash counters, and the proof
shows (`ReloadIsCounted`) that a crash which loads the page again has been counted first.

`SystemServicesProofs` proves for every set of apps, languages and countries and
every number of changes and crashes `TypeCorrectness`, `ViewsHaveSettings` and
`SettledSettingsAreCurrent`. `SettledIsCurrent` speaks of the states in which no
message is on its way; what makes it inductive is `MessagesAreCurrent`: the last
status of a service tells whether it runs, the last answer to a subscription is the
current value, and a running service of which WAM has received the last status
has all of WAM's subscriptions. `LastOfAppend` and `LastOfTail` are the two facts
on queues this needs.

`LunaServiceProofs` proves `ServiceDrivesManager`, that `LunaSpec` implements
`Spec`: a call of the bus is a step of the manager or a stutter, so that all
theorems on the manager hold of it behind its service. With the manager's invariant
it proves `SubscribersStayCurrent`, `SuccessIsTrue` and `RelaunchesAreTaken`.
The first needs only which of the four kinds a step is of; the others
follow every successful call through the functions of `WebApp`: a relaunch first
unhides the window, recovers a crashed page and resumes it, and each of these leaves
the window unhidden (`RelaunchTakes`).
`ServiceKeepsAppsSound` carries `AppsSound` over to the service, `LunaTypeCorrectness` is
its type. `ClearsAllOrNothingAlways` rests on `MaskOfRequest`: a
request with a code of its own removes nothing, and one without has at least one type,
each of which stands for data there is.

`WebAppFactoryProofs` proves the type and the five properties of the run for any
plugins, keys and directory. `IInv` is `TypeOK`, `Sound(manager)`, which says that every
recorded factory is created and under its own key, and `AppOK` of every app, which says that
a live app's plugin is created, made its page too, and why it was taken. Two facts carry the steps:
loading keeps what was created (`Extends`), and the second look-up finds the factory of
the first (`SecondLookUp`).

`WindowInputProofs` proves the type and the four properties of the run for any
heights, regions, keys and masks. `HeldInv` strengthens `HeldButtonsAreReleased`: the
button the page has seen pressed is the window's last mouse event, so that a lost
focus can generate its release. `RegionInv` strengthens `RegionFollowsKeyboard`: it
says where the region is while a keyboard is shown. Keyboards that do not come in
pairs shift the region; the invariant says nothing of it then, and again only after the
script has asked for a region anew.

`ErrorPagesProofs` proves the five invariants of `error_pages` for any
descriptions, languages, directories and displays, and any number of crashes and
relaunches:

* `ErrorPageTypes`: an unknown trust level never gets past `CheckTrustLevel`
* `TrustAlwaysReturns`, from `TrustInv`: the page's level is the app's own or the one of
  an error page, a load that has not ended has a document, and once a load of the app's
  own document has ended the two levels agree. `TrustReturns` alone says nothing of
  the document on its way, and its answer could break it.
* `AppsAreNeverBlank`, from `TrustInv` and `FailedInv`: whatever asks for the error
  page, shows it or tries again has a url that failed. Without it a reload timer
  could load nothing.
* `ErrorPageIsAlwaysNearest`: a property of the search itself, for every tag and set
  of directories. The places `GetErrorPagePaths` names are those of the tag's language,
  script and region (`PathsOfPieces`), each serves the tag and none that comes
  later is for more subtags (`Serves...`), so the first that is there
  is nearest (`ListFindsNearest`).
* `DescriptionsAreUsable`: a property of `FromJsonString`, for every value that is
  an object. Scales are a quotient of positive numbers (`RatioIsPositive`), and a
  member of a wrong type is read like a missing one (`DescriptionsAlike`).

The assumptions on constants are named in the modules that declare them. Most say that
ids differ, that launch arguments are ones a caller can form, or that a bound is a natural number;
the others:

* `DirectoriesAssumption`: a directory is that of the error page itself or one that
  begins with `resources` and ends in `html`; the search asks for no other;
* `DisplaysAssumption`: a display has a positive size, the screen as the device
  names it included;
* `JsonsAssumption`: a JSON object has members and no other content;
* `SizesAssumption`: a text that is parsed as a size gives two integers, of any
  sign.

Only model-checked:

* `CloseCallbackEnds`, `SettingsArrive` and `RecoversFromErrorPage`: TLAPS proves
  neither liveness under fairness nor `ENABLED`;
* the four runs that expect a violation, which are counterexamples.

## Not modelled

`PROJECT.json` lists every component with what is left out of it. In short:

* planned: the thresholds of the memory manager, apps installed and removed, and
  the foreground app, which the service receives and passes on;
* the processes of the engine that getWebProcessSize asks for;
* code that nothing calls: `ConfigureWindow`, `CreateToast`;
* the answer to a notification whose context another answer has erased: the code
  reads a freed context then, and what that gives is not modelled;
* the measurement of launch times, the remaining window properties, and the calls
  passed on to the compositor (opacity, location hint, group focus);
* the web engine and its preferences and fonts, and the pass-through calls of
  `web_view_impl.cc`, which decide nothing here;
* logging and tracing; the text of the error pages; start-up; the permission
  prompt, which is forwarded to the engine; removal from an `ObserverList` during a
  notification.

## Plan

Done: `WebAppManager` and its parts, `SystemServices`, `LunaService`,
`NotificationService`, `WebAppFactory`, `WindowInput`, `ApplicationDescription`
with `ErrorPages`. Left, in this order:

1. The memory manager: its level, the apps it names and the engine's notice of it.
2. Apps installed and removed, and the foreground app, which the service passes on.
