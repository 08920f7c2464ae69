-------------------------- MODULE MCSystemServices --------------------------
(***************************************************************************)
(* One app and one service at a time: the settings with launches and       *)
(* crashes of the renderer, or the connection with error pages. The two    *)
(* share no message and no variable but the views.                         *)
(***************************************************************************)
EXTENDS SystemServices

VARIABLE service

\* The languages and the countries are symmetric: the services start with one.
InitialSettings == CHOOSE p \in Published : p.named /\ ~p.online /\ ~p.guidance

MCInit ==
  /\ Init
  /\ service \in Services
  /\ up \subseteq {service}
  /\ IF service = "settings"
       THEN \E guidance \in BOOLEAN :
              published = [InitialSettings EXCEPT !.guidance = guidance]
       ELSE /\ \E online \in BOOLEAN :
                 published = [InitialSettings EXCEPT !.online = online]
            /\ system_language = "none"

\* A message of the service that does not run is received first.
OtherMessages ==
  \/ \E v \in Services \ {service} : statuses[v] # <<>>
  \/ \E s \in Subscriptions : ServiceOf(s) # service /\ answers[s] # <<>>

ReceiveOther ==
  \/ \E v \in Services \ {service} : ServerStatusCallback(v)
  \/ service # "settings" /\ GetSystemOptionCallback

SettingsNext ==
  \/ ServiceStarts("settings")
  \/ ServiceStops("settings")
  \/ \E language \in Languages : ChangeLanguage(language)
  \/ \E country \in Countries, guidance \in BOOLEAN : ChangeOption(country, guidance)
  \/ ServerStatusCallback("settings")
  \/ GetSystemLocalePreferencesCallback
  \/ GetSystemOptionCallback
  \/ \E x \in Apps : \/ OnLaunchUrl(x)
                     \/ CloseAppInternal(x)
                     \/ Initialize(x)
                     \/ RenderProcessCrashed(x)

ConnectionNext ==
  \/ ServiceStarts("connection")
  \/ ServiceStops("connection")
  \/ \E online \in BOOLEAN : ChangeNetwork(online)
  \/ ServerStatusCallback("connection")
  \/ GetNetworkConnectionStatusCallback
  \/ AppNext

MCNext ==
  /\ UNCHANGED service
  /\ IF OtherMessages THEN ReceiveOther
                      ELSE \/ service = "settings" /\ SettingsNext
                           \/ service = "connection" /\ ConnectionNext

MCSpec == MCInit /\ [][MCNext]_<<vars, service>> /\ Fairness

=============================================================================
