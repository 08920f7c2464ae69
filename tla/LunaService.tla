----------------------------- MODULE LunaService -----------------------------
(***************************************************************************)
(* WebAppManagerServiceLuna over WebAppManager: the methods other services *)
(* call on the Luna bus, with the checks of their parameters, what they do *)
(* to the apps and what they answer, and the subscribers of                *)
(* listRunningApps.                                                        *)
(*                                                                         *)
(* A request is what its method reads. A field the method refuses is Bad:  *)
(* one of another type and, in launchApp and pauseApp, which ask for their *)
(* fields, one that is missing; killApp and webProcessCreated read a       *)
(* missing id as the empty string, Empty. reply is the answer the step has *)
(* sent, or NoReply when it has answered no call.                          *)
(***************************************************************************)
EXTENDS WebAppManager, Sequences

CONSTANTS
  Subscribers,     \* the clients that may subscribe to listRunningApps
  Bad,             \* a field a method refuses
  Empty,           \* the empty string, the id of no app and of no instance
  LaunchRequests,  \* the requests of launchApp
  ClearRequests    \* the requests of clearBrowsingData

VARIABLES
  reply,   \* the answer to the call this step has handled
  told     \* subscribed client -> the instances it was told of last

lunaVars == <<vars, reply, told>>

-----------------------------------------------------------------------------
(* Requests and replies.                                                   *)

\* Error codes: "none" when the reply has no such key.
ErrorCodes ==
  {"none", "MissParam", "UnsupportedType", "NoRunningApp",
   "EmptyArray", "InvalidValue", "UnknownData", "NotifyMissingParameter",
   "NotifyUnsupportedType", "InvalidParam"}

Methods ==
  {"none", "launchApp", "killApp", "pauseApp", "closeAllApps", "logControl",
   "setInspectorEnable", "listRunningApps", "clearBrowsingData",
   "fireNotificationEvent", "webProcessCreated"}

\* What a client may ask clearBrowsingData for, and what each stands for in the
\* engine's storage.
DataKinds == {"cache", "cookies", "webrtc_identity", "localstorage"}

DataTypes == {"all", "cache", "cookies", "localstorage"}

\* An app id is Bad when appDesc is no object or its id no string, an instance id
\* when it is no string or has nothing in it but breaks of lines and pages.
\* args is what the description and the parameters ask for together;
\* other_preload, that "preload" is a string that names no preload state;
\* served, that WebAppFactory has an app for the window type and the sub type;
\* updated, that the version is not the one of the last launch of the app id.
LaunchRequestType ==
  [app_id : AppIds \cup {Bad}, instance_id : Instances \cup {Bad},
   optional_ok : BOOLEAN, args : LaunchArgs, other_preload : BOOLEAN,
   opens_window : BOOLEAN, served : BOOLEAN, updated : BOOLEAN]

\* "types" is absent, an array, or something else.
ClearRequestType ==
  [types : {"absent", "array", "other"}, array : Seq(DataTypes \cup {"unknown", Bad})]

ASSUME RequestsAssumption ==
  /\ LaunchRequests \subseteq LaunchRequestType
  /\ ClearRequests \subseteq ClearRequestType
ASSUME BadAssumption ==
  /\ Bad \notin AppIds \cup Instances \cup DataTypes \cup {"unknown"}
  /\ Empty \notin AppIds \cup Instances \cup {Bad}

NoReply ==
  [method |-> "none", returnValue |-> TRUE, errorCode |-> "none",
   app_id |-> Bad, instance_id |-> Bad, removed |-> {}]

Success(method, app_id, instance_id) ==
  [NoReply EXCEPT !.method = method, !.app_id = app_id,
                  !.instance_id = instance_id]

Failure(method, code) ==
  [NoReply EXCEPT !.method = method, !.returnValue = FALSE, !.errorCode = code]

LunaTypeOK ==
  /\ TypeOK
  /\ reply \in [method : Methods, returnValue : BOOLEAN, errorCode : ErrorCodes,
                app_id : AppIds \cup {Bad}, instance_id : Instances \cup {Bad},
                removed : SUBSET DataKinds]
  /\ DOMAIN told \subseteq Subscribers
  /\ told \in [DOMAIN told -> SUBSET Instances]

LunaInit ==
  /\ Init
  /\ reply = NoReply
  /\ told = [s \in {} |-> {}]

\* A list was posted: it differs from the last one, or an app has left the
\* running ones. Every subscriber receives it.
PostRunningAppList ==
  told' = [s \in DOMAIN told |->
             IF posted' # posted \/ ~(app_list_ \subseteq app_list_')
               THEN posted'
               ELSE told[s]]

Answers(r) == reply' = r /\ PostRunningAppList

\* A refused call.
Refuses(method, code) ==
  /\ reply' = Failure(method, code)
  /\ UNCHANGED <<vars, told>>

-----------------------------------------------------------------------------
(* launchApp.                                                              *)

AcceptsLaunch(r) == r.app_id # Bad /\ r.instance_id # Bad /\ r.optional_ok

\* Any "preload" string makes a relaunch one that is ignored.
KindOfRelaunch(r) ==
  CASE r.args.preload # "none" \/ r.other_preload \/ r.args.hidden -> "ignore"
    [] OTHER -> IF r.opens_window THEN "navigate" ELSE "event"

\* OnRelaunchApp gives up on an instance it does not find, and the caller is
\* answered all the same.
RelaunchRunning(r) ==
  IF \E x \in app_list_ : Finds(x, r.instance_id)
    THEN OnRelaunchApp(r.app_id, r.instance_id, KindOfRelaunch(r))
    ELSE UNCHANGED vars

\* A description that is an object is one FromJsonString reads, and the
\* parameters, which the method has put the instance id in, are an object: the
\* two returns of Launch that set no error code are never taken.
launchApp(r) ==
  IF ~AcceptsLaunch(r) THEN Refuses("launchApp", "MissParam")
  ELSE IF IsRunningApp(r.instance_id)
    THEN /\ RelaunchRunning(r)
         /\ Answers(Success("launchApp", r.app_id, r.instance_id))
  ELSE IF ~r.served THEN Refuses("launchApp", "UnsupportedType")
  ELSE /\ \E x \in Apps :
            OnLaunchUrl(x, r.app_id, r.instance_id, r.args, r.updated)
       /\ Answers(Success("launchApp", r.app_id, r.instance_id))

-----------------------------------------------------------------------------
(* The other methods that reach apps.                                      *)

Runs(app_id, instance_id) ==
  \E x \in app_list_ : Finds(x, instance_id) /\ apps[x].app_id = app_id

\* An empty reason, or the memory manager's, forces the close.
killApp(app_id, instance_id, forced) ==
  IF Bad \in {app_id, instance_id}
    THEN Refuses("killApp", "InvalidParam")
  ELSE IF ~Runs(app_id, instance_id) THEN Refuses("killApp", "NoRunningApp")
  ELSE /\ OnKillApp(app_id, instance_id, forced)
       /\ Answers(Success("killApp", app_id, instance_id))

\* The answer is the same whether HideWindow hid the window or not.
pauseApp(instance_id) ==
  IF instance_id = Bad THEN Refuses("pauseApp", "InvalidParam")
  ELSE IF ~IsRunningApp(instance_id) THEN Refuses("pauseApp", "NoRunningApp")
  ELSE /\ OnPauseApp(instance_id)
       /\ Answers(Success("pauseApp", Bad, instance_id))

closeAllApps ==
  /\ IF app_list_ = {} THEN UNCHANGED vars ELSE CloseAllApps(app_list_)
  /\ Answers(Success("closeAllApps", Bad, Bad))

\* Mutant of listRunningApps: the client is not told what runs now; it
\* waits for the next list.
SubscribedToPosts(s) ==
  /\ reply' = Success("listRunningApps", Bad, Bad)
  /\ told' = [c \in DOMAIN told \cup {s} |-> IF c = s THEN {} ELSE told[c]]
  /\ UNCHANGED vars

\* A call that subscribes; the answer is the first list.
listRunningApps(s) ==
  /\ reply' = Success("listRunningApps", Bad, Bad)
  /\ told' = [c \in DOMAIN told \cup {s} |->
               IF c = s THEN InstancesOf(app_list_) ELSE told[c]]
  /\ UNCHANGED vars

\* A renderer runs for a page that has started on a url.
HasProcess(x) == {apps[x].page.url, apps[x].page.loading} # {"none"}

\* Ids of another type are read as empty ones.
webProcessCreated(app_id, instance_id, subscribed) ==
  /\ reply' =
       IF app_id \in {Bad, Empty}
         THEN IF subscribed THEN Success("webProcessCreated", Bad, Bad)
                            ELSE Failure("webProcessCreated", "InvalidParam")
         ELSE IF \E x \in app_list_ : /\ Finds(x, instance_id)
                                      /\ apps[x].app_id = app_id
                                      /\ HasProcess(x)
                THEN Success("webProcessCreated", app_id, instance_id)
                ELSE Failure("webProcessCreated", "none")
  /\ UNCHANGED <<vars, told>>

-----------------------------------------------------------------------------
(* The methods that reach no app.                                          *)

\* Mutant of MaskForBrowsingDataType: each type is a kind of its own.
TypeIsKind(type) == IF type = "unknown" THEN {} ELSE {type}

MaskForBrowsingDataType(type) ==
  CASE type = "all"     -> DataKinds
    [] type = "cookies" -> {"cookies", "webrtc_identity"}
    [] type = "unknown" -> {}
    [] OTHER            -> {type}

\* The places of an array at which its reading ends with an error.
Invalid(array) == {i \in DOMAIN array : array[i] \in {"unknown", Bad}}

\* The first of them.
FirstInvalid(array) ==
  CHOOSE i \in Invalid(array) : \A j \in Invalid(array) : i <= j

\* What is read up to there.
Mask(array) ==
  UNION {MaskForBrowsingDataType(array[i]) :
           i \in {k \in DOMAIN array : \A j \in Invalid(array) : k < j}}

ClearMask(r) ==
  CASE r.types = "absent" -> MaskForBrowsingDataType("all")
    [] r.types = "array"  -> Mask(r.array)
    [] r.types = "other"  -> {}

ClearCode(r) ==
  CASE r.types = "absent" -> "none"
    [] r.types = "other"  -> "InvalidValue"
    [] r.types = "array"  ->
         IF r.array = <<>> THEN "EmptyArray"
         ELSE IF Invalid(r.array) = {} THEN "none"
         ELSE IF r.array[FirstInvalid(r.array)] = Bad THEN "InvalidValue"
         ELSE "UnknownData"

\* Mutant of Cleared: what was read before the error is removed.
ClearedAsRead(ok, mask) == mask

Cleared(ok, mask) == IF ok THEN mask ELSE {}

clearBrowsingData(r) ==
  LET ok == ClearCode(r) = "none"
  IN  /\ reply' = [NoReply EXCEPT !.method = "clearBrowsingData",
                                  !.returnValue = ok,
                                  !.errorCode = ClearCode(r),
                                  !.removed = Cleared(ok, ClearMask(r))]
      /\ UNCHANGED <<vars, told>>

\* Clicking and closing a notification reach the engine alike.
fireNotificationEvent(complete, type) ==
  IF ~complete THEN Refuses("fireNotificationEvent", "NotifyMissingParameter")
  ELSE IF type \notin {"notificationclick", "notificationclose"}
    THEN Refuses("fireNotificationEvent", "NotifyUnsupportedType")
    ELSE /\ reply' = Success("fireNotificationEvent", Bad, Bad)
         /\ UNCHANGED <<vars, told>>

logControl(complete) ==
  IF ~complete THEN Refuses("logControl", "InvalidParam")
  ELSE /\ reply' = Success("logControl", Bad, Bad)
       /\ UNCHANGED <<vars, told>>

\* The base class refuses; WebAppManagerServiceLunaImpl, which runs, answers
\* with success and does nothing. The method is registered only in builds with
\* ENABLE_API_SET_INSPECTOR_ENABLE.
setInspectorEnable ==
  /\ reply' = Success("setInspectorEnable", Bad, Bad)
  /\ UNCHANGED <<vars, told>>

-----------------------------------------------------------------------------
(* Everything else that happens to WebAppManager.                          *)

\* The memory manager names the app it is about to kill; its id is not
\* compared with the one of the instance.
GetCloseAppIdCallback(app_id, instance_id) ==
  /\ app_id # Empty
  /\ instance_id \notin {Bad, Empty}
  /\ SetForceCloseApp(instance_id)

EventNext ==
  \/ \E app_id \in AppIds \cup {Empty}, i \in Instances \cup {Bad, Empty} :
       GetCloseAppIdCallback(app_id, i)
  \/ UpdateNetworkStatus
  \/ \E x \in Apps :
       WindowNext(x) \/ ScriptNext(x) \/ EngineNext(x) \/ TimerNext(x)

Event(next) == next /\ Answers(NoReply)

AppCallNext ==
  \/ \E r \in LaunchRequests : launchApp(r)
  \/ \E app_id \in AppIds \cup {Bad, Empty}, i \in Instances \cup {Bad, Empty} :
       \/ \E forced \in BOOLEAN : killApp(app_id, i, forced)
       \/ \E subscribed \in BOOLEAN : webProcessCreated(app_id, i, subscribed)
  \/ \E i \in Instances \cup {Bad, Empty} : pauseApp(i)
  \/ closeAllApps
  \/ \E s \in Subscribers : listRunningApps(s)

OtherCallNext ==
  \/ \E r \in ClearRequests : clearBrowsingData(r)
  \/ \E complete \in BOOLEAN, type \in {"notificationclick", "other"} :
       fireNotificationEvent(complete, type)
  \/ \E complete \in BOOLEAN : logControl(complete)
  \/ setInspectorEnable

LunaNext == (AppCallNext \/ OtherCallNext \/ Event(EventNext)) /\ WithinBounds'

LunaSpec == LunaInit /\ [][LunaNext]_lunaVars

-----------------------------------------------------------------------------
(* Properties.                                                             *)

\* A call that is answered with success has done what it says, over relaunches,
\* closing apps of the same instance, apps kept alive and load error pages: a
\* launched instance runs; a killed one is gone, or is kept alive and hidden; a
\* paused one is hidden, or shows the load error page; after closeAllApps no app
\* runs. The success of setInspectorEnable promises nothing, for it does nothing.
AnswersHold ==
  reply.returnValue =>
    /\ reply.method = "launchApp" => IsRunningApp(reply.instance_id)
    /\ reply.method = "killApp" =>
         \A x \in Apps : Finds(x, reply.instance_id) =>
                           apps[x].keep_alive /\ apps[x].hidden_window
    /\ reply.method = "pauseApp" =>
         \A x \in Apps : Finds(x, reply.instance_id) =>
           apps[x].hidden_window \/ apps[x].page.is_load_error_page_finish
    /\ reply.method = "closeAllApps" => app_list_ = {}

\* A relaunch that is answered with success is one the app takes, whatever it was
\* doing (paused before its first frame, preloaded, crashed in the background,
\* on the load error page): its window is no longer hidden, its page is not left
\* suspended, and the relaunch is with the page, navigated to, or backed up for
\* the end of the load. Only a relaunch with preload arguments may do nothing.
RelaunchIsTaken ==
  [][reply'.method = "launchApp" => \A r \in LaunchRequests :
       /\ reply' = Success("launchApp", r.app_id, r.instance_id)
       /\ IsRunningApp(r.instance_id)
       /\ KindOfRelaunch(r) # "ignore"
       /\ launchApp(r)
       => \E x \in Apps :
            /\ Finds(x, r.instance_id)'
            /\ ~apps'[x].hidden_window
            /\ ~apps'[x].page.is_suspended
            /\ \/ apps'[x].in_progress_relaunch
               \/ apps'[x].page.has_been_shown
               \/ apps'[x].page.request = "app"]_lunaVars

\* clearBrowsingData removes something exactly if it answers with success: an
\* array with one bad type removes nothing of the types before it.
ClearsAllOrNothing ==
  reply.method = "clearBrowsingData" =>
    (reply.returnValue <=> reply.removed # {})

\* Whenever a client subscribes, it knows each instance of the last posted list
\* and no instance that has stopped: its first answer and the lists it is posted
\* leave no gap in between.
SubscribersAreCurrent ==
  \A s \in DOMAIN told :
    posted \subseteq told[s] /\ told[s] \subseteq InstancesOf(app_list_)

=============================================================================
