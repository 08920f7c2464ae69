--------------------------- MODULE SystemServices ---------------------------
(***************************************************************************)
(* The services WebAppManagerServiceLuna subscribes to, and the way of a   *)
(* system setting from the service that keeps it to the web views of the   *)
(* running apps.                                                           *)
(*                                                                         *)
(* A service tells WAM on its server status when it starts and stops. WAM  *)
(* then subscribes, and gets the current value at once and the new one     *)
(* after every change. Messages of one subscription arrive in order, those *)
(* of two subscriptions in any order.                                      *)
(***************************************************************************)
EXTENDS Naturals, Sequences

CONSTANTS
  Apps,                    \* the apps that may run
  SupportsAudioGuidance,   \* those whose appinfo.json has supportsAudioGuidance
  Languages, Countries,
  MaxChanges,              \* bound on the changes of a setting
  MaxStops                 \* bound on the crashes of a service

ASSUME ConstantsAssumption ==
  /\ SupportsAudioGuidance \subseteq Apps
  /\ Languages # {} /\ "none" \notin Languages
  /\ Countries # {} /\ "none" \notin Countries
  /\ MaxChanges \in Nat /\ MaxStops \in Nat

VARIABLES
  up,           \* the services that run
  published,    \* the values the services hold
  clients,      \* the subscriptions the services know of
  statuses,     \* server status messages on their way to WAM
  answers,      \* answers to subscriptions on their way to WAM
  changes, stops,
  system_language, local_country,   \* two entries of device_info_
  is_accessibility_enabled_,
  network_connected,                \* of webos::Runtime
  app_list_,
  views                             \* what the page and the view of an app keep

service_vars == <<up, published, clients, statuses, answers, changes, stops>>
device_vars == <<system_language, local_country, is_accessibility_enabled_,
                 network_connected>>
vars == <<service_vars, device_vars, app_list_, views>>

Services == {"settings", "connection"}

ServerStatuses == {"connected", "disconnected"}

Subscriptions == {"locale", "option", "network"}

ServiceOf(s) == IF s = "network" THEN "connection" ELSE "settings"

(***************************************************************************)
(* An answer is as much of it as WAM reads. One without "country" is, to   *)
(* GetSystemOptionCallback, the same as an empty one; so is, to            *)
(* NetworkStatus, an error and a status without internet.                  *)
(***************************************************************************)
MaybeLanguage == Languages \cup {"none"}

MaybeCountry == Countries \cup {"none"}

Option == [country : MaybeCountry, guidance : BOOLEAN]

AnswerType ==
  [locale |-> MaybeLanguage, option |-> Option, network |-> BOOLEAN]

NoAnswer ==
  [locale |-> "none", option |-> [country |-> "none", guidance |-> FALSE],
   network |-> FALSE]

Published ==
  [language : Languages, country : Countries, guidance : BOOLEAN,
   online : BOOLEAN,
   named : BOOLEAN]   \* the last answer on options named the country

Answer(p) ==
  [locale  |-> p.language,
   option  |-> [country |-> p.country, guidance |-> p.guidance],
   network |-> p.online]

\* initialized: the script has taken its copy of locale and country.
View ==
  [accept_languages : MaybeLanguage, audio_guidance : BOOLEAN,
   use_accessibility : BOOLEAN, initialized : BOOLEAN,
   locale : MaybeLanguage, country : MaybeCountry,
   is_load_error_page_start : BOOLEAN, is_load_error_page_finish : BOOLEAN,
   loads : {"app", "error"}]

\* Only LoadErrorPage loads the error page.
ErrorPageIsKnown(v) ==
  v.loads = "error" \/ v.is_load_error_page_finish => v.is_load_error_page_start

TypeOK ==
  /\ up \subseteq Services
  /\ published \in Published
  /\ clients \subseteq Subscriptions
  /\ statuses \in [Services -> Seq(ServerStatuses)]
  /\ answers = [s \in Subscriptions |-> answers[s]]
  /\ \A s \in Subscriptions : answers[s] \in Seq(AnswerType[s])
  /\ changes \in Nat /\ stops \in Nat
  /\ system_language \in MaybeLanguage
  /\ local_country \in MaybeCountry
  /\ is_accessibility_enabled_ \in BOOLEAN
  /\ network_connected \in BOOLEAN
  /\ app_list_ \subseteq Apps
  /\ views \in [Apps -> View]
  /\ \A x \in Apps : ErrorPageIsKnown(views[x])

-----------------------------------------------------------------------------
(* Pages and their views.                                                  *)

\* Mutant of InitView: the view is told nothing of audio guidance.
InitWithoutGuidance(v) ==
  [v EXCEPT !.accept_languages = system_language,
            !.audio_guidance = FALSE,
            !.use_accessibility = FALSE,
            !.loads = "app"]

\* Init of WebPageBlink, for what a view is told of the settings.
InitView(v) ==
  [v EXCEPT !.accept_languages = system_language,
            !.audio_guidance = is_accessibility_enabled_,
            !.use_accessibility = FALSE,
            !.loads = "app"]

NewPage ==
  [accept_languages |-> "none", audio_guidance |-> FALSE,
   use_accessibility |-> FALSE, initialized |-> FALSE,
   locale |-> "none", country |-> "none",
   is_load_error_page_start |-> FALSE, is_load_error_page_finish |-> FALSE,
   loads |-> "app"]

\* An uninitialized script is told nothing: UpdateExtensionData returns.
SetPreferredLanguages(v, language) ==
  [v EXCEPT !.accept_languages = language,
            !.locale = IF v.initialized THEN language ELSE @]

HandleDeviceInfoChanged(v, country) ==
  [v EXCEPT !.country = IF v.initialized THEN country ELSE @]

SetUseAccessibility(x, v, enabled) ==
  [v EXCEPT !.use_accessibility =
     enabled /\ (x \in SupportsAudioGuidance \/ v.is_load_error_page_start)]

SetAudioGuidanceOn(v, on) == [v EXCEPT !.audio_guidance = on]

ReloadFailed(v) ==
  IF v.is_load_error_page_finish THEN [v EXCEPT !.loads = "app"] ELSE v

\* SetDeviceInfo and SetAccessibilityEnabled do nothing for the same value.
SetOptions(x, v, o) ==
  LET w == IF o.country = local_country THEN v
                                        ELSE HandleDeviceInfoChanged(v, o.country)
  IN  IF o.guidance = is_accessibility_enabled_
        THEN w
        ELSE SetUseAccessibility(x, SetAudioGuidanceOn(w, o.guidance), o.guidance)

\* Each running app is told, and changes its view to f[its name].
TellApps(f) == views' = [x \in Apps |-> IF x \in app_list_ THEN f[x] ELSE views[x]]

-----------------------------------------------------------------------------
(* Init.                                                                   *)

\* DeviceInfoImpl::Initialize reads language and country from a file, which has
\* both or is not used. DidConnect has asked for the status of both services.
Init ==
  /\ up \in SUBSET Services
  /\ published \in {p \in Published : p.named}
  /\ clients = {}
  /\ statuses = [v \in Services |-> <<IF v \in up THEN "connected" ELSE "disconnected">>]
  /\ answers = [s \in Subscriptions |-> <<>>]
  /\ changes = 0 /\ stops = 0
  /\ \/ system_language = "none" /\ local_country = "none"
     \/ system_language \in Languages /\ local_country \in Countries
  /\ is_accessibility_enabled_ = FALSE
  /\ network_connected = FALSE
  /\ app_list_ = {}
  /\ views = [x \in Apps |-> NewPage]

-----------------------------------------------------------------------------
(* The services and the bus (external).                                    *)

ServiceStarts(v) ==
  /\ v \notin up
  /\ up' = up \cup {v}
  /\ statuses' = [statuses EXCEPT ![v] = Append(@, "connected")]
  /\ UNCHANGED <<published, clients, answers, changes, stops>>
  /\ UNCHANGED <<device_vars, app_list_, views>>

\* Whoever waits for an answer of the service is told that there is none.
ServiceStops(v) ==
  /\ v \in up
  /\ stops < MaxStops
  /\ up' = up \ {v}
  /\ statuses' = [statuses EXCEPT ![v] = Append(@, "disconnected")]
  /\ clients' = {s \in clients : ServiceOf(s) # v}
  /\ answers' = [s \in Subscriptions |->
                   IF s \in clients /\ ServiceOf(s) = v
                     THEN Append(answers[s], NoAnswer[s])
                     ELSE answers[s]]
  /\ stops' = stops + 1
  /\ UNCHANGED <<published, changes>>
  /\ UNCHANGED <<device_vars, app_list_, views>>

\* The value p of subscription s; its subscribers are sent the answer a.
Publish(s, p, a) ==
  /\ ServiceOf(s) \in up
  /\ changes < MaxChanges
  /\ p # published
  /\ published' = p
  /\ answers' = IF s \in clients
                  THEN [answers EXCEPT ![s] = Append(@, a)]
                  ELSE answers
  /\ changes' = changes + 1
  /\ UNCHANGED <<up, clients, statuses, stops>>
  /\ UNCHANGED <<device_vars, app_list_, views>>

ChangeLanguage(language) ==
  Publish("locale", [published EXCEPT !.language = language], language)

\* The answer after a change of the options names all of them, or only those
\* that changed.
ChangeOption(country, guidance) ==
  LET p == [published EXCEPT !.country = country, !.guidance = guidance,
                             !.named = TRUE]
      all == Answer(p)["option"]
  IN  \/ Publish("option", p, all)
      \/ /\ country = published.country
         /\ Publish("option", [p EXCEPT !.named = FALSE],
                    [all EXCEPT !.country = "none"])

ChangeNetwork(online) ==
  Publish("network", [published EXCEPT !.online = online], online)

-----------------------------------------------------------------------------
(* WebAppManagerServiceLuna.                                               *)

\* A call that subscribes to each of subs: the current value is the answer, or
\* none if the service does not run.
Subscribe(subs) ==
  LET served == {s \in subs : ServiceOf(s) \in up}
  IN  /\ clients' = clients \cup served
      /\ answers' = [s \in Subscriptions |->
                       IF s \in served
                         THEN Append(answers[s], Answer(published)[s])
                         ELSE IF s \in subs THEN Append(answers[s], NoAnswer[s])
                                            ELSE answers[s]]
      /\ published' = [published EXCEPT !.named = @ \/ "option" \in served]

\* Mutant of SubscriptionsFor: the locale is only asked for while it is unknown.
SubscribeToUnknown(v, status) ==
  IF v = "settings"
    THEN IF status = "connected" /\ system_language = "none"
           THEN {"locale", "option"} ELSE {"option"}
    ELSE IF status = "connected" THEN {"network"} ELSE {}

\* The options are asked for whatever the status says.
SubscriptionsFor(v, status) ==
  IF v = "settings"
    THEN IF status = "connected" THEN {"locale", "option"} ELSE {"option"}
    ELSE IF status = "connected" THEN {"network"} ELSE {}

\* SystemServiceConnectCallback and NetworkConnectionStatusCallback.
ServerStatusCallback(v) ==
  /\ statuses[v] # <<>>
  /\ statuses' = [statuses EXCEPT ![v] = Tail(@)]
  /\ Subscribe(SubscriptionsFor(v, Head(statuses[v])))
  /\ UNCHANGED <<up, changes, stops>>
  /\ UNCHANGED <<device_vars, app_list_, views>>

\* The next answer to s is a.
Receive(s, a) ==
  /\ answers[s] # <<>>
  /\ a = Head(answers[s])
  /\ answers' = [answers EXCEPT ![s] = Tail(@)]
  /\ UNCHANGED <<up, published, clients, statuses, changes, stops, app_list_>>

SetSystemLanguage(language) ==
  /\ system_language' = language
  /\ TellApps([x \in Apps |-> SetPreferredLanguages(views[x], language)])

GetSystemLocalePreferencesCallback ==
  \E language \in MaybeLanguage :
    /\ Receive("locale", language)
    /\ IF language \in {"none", system_language}
         THEN UNCHANGED <<system_language, views>>
         ELSE SetSystemLanguage(language)
    /\ UNCHANGED <<local_country, is_accessibility_enabled_, network_connected>>

GetSystemOptionCallback ==
  \E o \in Option :
    /\ Receive("option", o)
    /\ IF o.country = "none"
         THEN UNCHANGED <<local_country, is_accessibility_enabled_, views>>
         ELSE /\ local_country' = o.country
              /\ is_accessibility_enabled_' = o.guidance
              /\ TellApps([x \in Apps |-> SetOptions(x, views[x], o)])
    /\ UNCHANGED <<system_language, network_connected>>

\* Mutant of UpdateNetworkStatus: an error is not a status.
IgnoreOffline(online) ==
  /\ network_connected' = (network_connected \/ online)
  /\ IF online THEN TellApps([x \in Apps |-> ReloadFailed(views[x])]) ELSE UNCHANGED views

UpdateNetworkStatus(online) ==
  /\ network_connected' = online
  /\ IF online THEN TellApps([x \in Apps |-> ReloadFailed(views[x])]) ELSE UNCHANGED views

GetNetworkConnectionStatusCallback ==
  \E online \in BOOLEAN :
    /\ Receive("network", online)
    /\ UpdateNetworkStatus(online)
    /\ UNCHANGED <<system_language, local_country, is_accessibility_enabled_>>

-----------------------------------------------------------------------------
(* Apps.                                                                   *)

UpdateView(x, v) ==
  /\ x \in app_list_
  /\ views' = [views EXCEPT ![x] = v]
  /\ UNCHANGED <<service_vars, device_vars, app_list_>>

OnLaunchUrl(x) ==
  /\ x \notin app_list_
  /\ app_list_' = app_list_ \cup {x}
  /\ views' = [views EXCEPT ![x] = InitView(NewPage)]
  /\ UNCHANGED <<service_vars, device_vars>>

\* Nothing is told to an app that is closing.
CloseAppInternal(x) ==
  /\ x \in app_list_
  /\ app_list_' = app_list_ \ {x}
  /\ views' = [views EXCEPT ![x] = NewPage]
  /\ UNCHANGED <<service_vars, device_vars>>

\* The "initialize" command of the page's script.
Initialize(x) ==
  UpdateView(x, [views[x] EXCEPT !.initialized = TRUE,
                                 !.locale = system_language,
                                 !.country = local_country])

RenderProcessCrashed(x) ==
  UpdateView(x, InitView([views[x] EXCEPT !.initialized = FALSE]))

\* Mutant of LoadErrorPage: the flag is only set once the page is loaded.
LoadErrorPageUnmarked(x) == UpdateView(x, [views[x] EXCEPT !.loads = "error"])

LoadErrorPage(x) ==
  UpdateView(x, [views[x] EXCEPT !.is_load_error_page_start = TRUE,
                                 !.loads = "error"])

LoadFinished(x) ==
  UpdateView(x, [views[x] EXCEPT !.is_load_error_page_finish =
                                    views[x].loads = "error"])

\* The script or the user leaves the error page.
LeaveErrorPage(x) == UpdateView(x, [views[x] EXCEPT !.loads = "app"])

ShowWindow(x) ==
  UpdateView(x, SetUseAccessibility(x, views[x], is_accessibility_enabled_))

-----------------------------------------------------------------------------

ServiceNext ==
  \/ \E v \in Services : ServiceStarts(v) \/ ServiceStops(v)
  \/ \E language \in Languages : ChangeLanguage(language)
  \/ \E country \in Countries, guidance \in BOOLEAN :
       ChangeOption(country, guidance)
  \/ \E online \in BOOLEAN : ChangeNetwork(online)

CallbackNext ==
  \/ \E v \in Services : ServerStatusCallback(v)
  \/ GetSystemLocalePreferencesCallback
  \/ GetSystemOptionCallback
  \/ GetNetworkConnectionStatusCallback

AppNext ==
  \E x \in Apps :
    \/ OnLaunchUrl(x)
    \/ CloseAppInternal(x)
    \/ Initialize(x)
    \/ RenderProcessCrashed(x)
    \/ LoadErrorPage(x)
    \/ LoadFinished(x)
    \/ LeaveErrorPage(x)
    \/ ShowWindow(x)

Next == ServiceNext \/ CallbackNext \/ AppNext

Spec == Init /\ [][Next]_vars

\* The main loop dispatches every message that has arrived.
Fairness ==
  /\ \A v \in Services : WF_vars(ServerStatusCallback(v))
  /\ WF_vars(GetSystemLocalePreferencesCallback)
  /\ WF_vars(GetSystemOptionCallback)
  /\ WF_vars(GetNetworkConnectionStatusCallback)

FairSpec == Spec /\ Fairness

-----------------------------------------------------------------------------
(* Properties.                                                             *)

\* Every running app's view has the language and the audio guidance that WAM
\* holds, and its script, once it has initialized, the locale and the country:
\* however changes, launches and crashes of a renderer interleave.
ViewsFollowSettings ==
  \A x \in app_list_ :
    /\ views[x].accept_languages = system_language
    /\ views[x].audio_guidance = is_accessibility_enabled_
    /\ views[x].initialized => /\ views[x].locale = system_language
                               /\ views[x].country = local_country

\* Every answer to s has been received, and WAM knows that its service runs.
Settled(s) ==
  /\ ServiceOf(s) \in up
  /\ statuses[ServiceOf(s)] = <<>>
  /\ answers[s] = <<>>

HasLanguage == system_language = published.language

HasOption ==
  published.named => /\ local_country = published.country
                     /\ is_accessibility_enabled_ = published.guidance

HasNetwork == network_connected = published.online

\* "The right value will be notified again when service is restarted": when no
\* message is on its way and a service runs, WAM holds its values, whatever
\* crashes and changes came before. (The options: if the last answer named the
\* country, without which GetSystemOptionCallback takes nothing from it.)
SettledIsCurrent ==
  /\ Settled("locale") => HasLanguage
  /\ Settled("option") => HasOption
  /\ Settled("network") => HasNetwork

\* Once the services have stopped changing, the values of those that run reach
\* WAM for good.
SettingsArrive ==
  /\ <>[]("settings" \in up => HasLanguage /\ HasOption)
  /\ <>[]("connection" \in up => HasNetwork)

=============================================================================
