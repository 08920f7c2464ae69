------------------------- MODULE LunaServiceProofs --------------------------
(***************************************************************************)
(* The Luna service is WebAppManager driven by calls: every call it takes  *)
(* is a step of the manager, or none. The invariants of the manager hold   *)
(* behind the service, and with them what its replies and its subscribers  *)
(* are told and what clearBrowsingData removes, for any requests, clients, *)
(* apps and instances.                                                     *)
(***************************************************************************)
EXTENDS LunaService, WebAppManagerProofs

-----------------------------------------------------------------------------
(* A step of the service is a step of the manager.                         *)

LEMMA LaunchStep ==
  ASSUME NEW r \in LaunchRequests, launchApp(r)
  PROVE  ManagerNext \/ UNCHANGED vars
<1>1. CASE ~AcceptsLaunch(r)
  BY <1>1 DEF launchApp, Refuses
<1>2. CASE AcceptsLaunch(r)
  <2>1. /\ r.app_id \in AppIds
        /\ r.instance_id \in Instances
        /\ r.args \in LaunchArgs
        /\ r.updated \in BOOLEAN
    BY <1>2, RequestsAssumption DEF AcceptsLaunch, LaunchRequestType
  <2>2. KindOfRelaunch(r) \in RelaunchKinds
    BY DEF KindOfRelaunch, RelaunchKinds
  <2>3. CASE IsRunningApp(r.instance_id)
    <3>1. RelaunchRunning(r)
      BY <1>2, <2>3 DEF launchApp
    <3>2. QED
      BY <2>1, <2>2, <3>1 DEF RelaunchRunning, ManagerNext
  <2>4. CASE ~IsRunningApp(r.instance_id)
    <3>1. CASE ~r.served
      BY <1>2, <2>4, <3>1 DEF launchApp, Refuses
    <3>2. CASE r.served
      <4>1. \E x \in Apps :
              OnLaunchUrl(x, r.app_id, r.instance_id, r.args, r.updated)
        BY <1>2, <2>4, <3>2 DEF launchApp
      <4>2. QED
        BY <2>1, <4>1 DEF ManagerNext
    <3>3. QED
      BY <3>1, <3>2
  <2>5. QED
    BY <2>3, <2>4
<1>3. QED
  BY <1>1, <1>2

\* Whatever a call names, the app it finds has ids of an app.
LEMMA RunningIds ==
  ASSUME TypeOK
  PROVE  /\ \A id, i : Runs(id, i) => id \in AppIds /\ i \in Instances
         /\ \A i : IsRunningApp(i) => i \in Instances
BY DEF TypeOK, WebAppType, Runs, IsRunningApp, Finds

LEMMA AppCallStep ==
  ASSUME TypeOK, AppCallNext
  PROVE  ManagerNext \/ UNCHANGED vars
<1>1. ASSUME NEW id \in AppIds \cup {Bad, Empty},
             NEW i \in Instances \cup {Bad, Empty}, NEW forced \in BOOLEAN,
             killApp(id, i, forced)
      PROVE  ManagerNext \/ UNCHANGED vars
  <2>1. \/ UNCHANGED vars
        \/ Runs(id, i) /\ OnKillApp(id, i, forced)
    BY <1>1, Zenon DEF killApp, Refuses
  <2>2. QED
    BY <2>1, RunningIds DEF ManagerNext
<1>2. ASSUME NEW i \in Instances \cup {Bad, Empty}, pauseApp(i)
      PROVE  ManagerNext \/ UNCHANGED vars
  <2>1. \/ UNCHANGED vars
        \/ IsRunningApp(i) /\ OnPauseApp(i)
    BY <1>2, Zenon DEF pauseApp, Refuses
  <2>2. QED
    BY <2>1, RunningIds DEF ManagerNext
<1>3. ASSUME closeAllApps
      PROVE  ManagerNext \/ UNCHANGED vars
  <2>1. app_list_ \in SUBSET app_list_
    OBVIOUS
  <2>2. QED
    BY <1>3, <2>1 DEF closeAllApps, ManagerNext
<1>4. ASSUME NEW s \in Subscribers, listRunningApps(s)
      PROVE  UNCHANGED vars
  BY <1>4 DEF listRunningApps
<1>5. ASSUME NEW id \in AppIds \cup {Bad, Empty},
             NEW i \in Instances \cup {Bad, Empty}, NEW subscribed \in BOOLEAN,
             webProcessCreated(id, i, subscribed)
      PROVE  UNCHANGED vars
  BY <1>5 DEF webProcessCreated
<1>6. QED
  BY <1>1, <1>2, <1>3, <1>4, <1>5, LaunchStep DEF AppCallNext

LEMMA OtherCallStep ==
  ASSUME OtherCallNext
  PROVE  UNCHANGED <<vars, told>>
BY DEF OtherCallNext, clearBrowsingData, fireNotificationEvent, logControl,
       setInspectorEnable, Refuses

LEMMA EventStep ==
  ASSUME EventNext
  PROVE  \/ ManagerNext
         \/ \E x \in Apps :
              WindowNext(x) \/ ScriptNext(x) \/ EngineNext(x) \/ TimerNext(x)
BY DEF EventNext, GetCloseAppIdCallback, ManagerNext

LEMMA ServiceStep ==
  ASSUME TypeOK, [LunaNext]_lunaVars
  PROVE  [Next]_vars
<1>1. ASSUME AppCallNext, WithinBounds'
      PROVE  [Next]_vars
  BY <1>1, AppCallStep DEF Next
<1>2. ASSUME OtherCallNext
      PROVE  [Next]_vars
  BY <1>2, OtherCallStep
<1>3. ASSUME Event(EventNext), WithinBounds'
      PROVE  [Next]_vars
  BY <1>3, EventStep DEF Next, Event
<1>4. ASSUME UNCHANGED lunaVars
      PROVE  [Next]_vars
  BY <1>4 DEF lunaVars
<1>5. QED
  BY <1>1, <1>2, <1>3, <1>4 DEF LunaNext

LEMMA KindOfStep == IInv /\ [LunaNext]_lunaVars => OneKind
BY ServiceStep, EveryStepIsOneKind DEF IInv

\* The invariant of the manager is one of the service.
LEMMA ServiceInvariance == LunaSpec => []IInv
<1>1. LunaInit => IInv
  BY InitIInv DEF LunaInit
<1>2. IInv /\ [LunaNext]_lunaVars => IInv'
  BY KindOfStep, OneKindKeeps
<1>3. QED
  BY <1>1, <1>2, PTL DEF LunaSpec

\* The manager behind the Luna service behaves as WebAppManager specifies.
THEOREM ServiceDrivesManager == LunaSpec => Spec
<1>1. LunaInit => Init
  BY DEF LunaInit
<1>2. IInv /\ [LunaNext]_lunaVars => [Next]_vars
  BY ServiceStep DEF IInv
<1>3. QED
  BY <1>1, <1>2, ServiceInvariance, PTL DEF LunaSpec, Spec

\* So does what every live app knows of its page.
THEOREM ServiceKeepsAppsSound == LunaSpec => []AppsSound
BY ServiceDrivesManager, AppsStaySound, PTL

-----------------------------------------------------------------------------
(* The subscribers.                                                        *)

LEMMA InstancesAreKept ==
  ASSUME IInv, OneKind, NEW y \in app_list_
  PROVE  apps'[y].instance_id = apps[y].instance_id
<1>1. y \in Apps /\ apps[y].status = "live"
  BY DEF IInv, TypeOK, RegistryCoherent, Live
<1>2. CASE Stays
  BY <1>1, <1>2 DEF Stays, SameFate
<1>3. ASSUME NEW x \in Apps, Starts(x)
      PROVE  apps'[y].instance_id = apps[y].instance_id
  BY <1>1, <1>3 DEF Starts
<1>4. ASSUME NEW x \in Apps, Ends(x)
      PROVE  apps'[y].instance_id = apps[y].instance_id
  BY <1>1, <1>4 DEF Ends
<1>5. ASSUME NEW closed \in SUBSET Apps, NEW status \in {"live", "freed"},
             Stops(closed, status)
      PROVE  apps'[y].instance_id = apps[y].instance_id
  BY <1>1, <1>5 DEF Stops
<1>6. QED
  BY <1>2, <1>3, <1>4, <1>5 DEF OneKind

\* A list that is posted is current, and one that is not needs no post.
LEMMA PostKeeps ==
  ASSUME IInv, IInv', OneKind, SubscribersAreCurrent, PostRunningAppList
  PROVE  SubscribersAreCurrent'
<1>1. DOMAIN told' = DOMAIN told
  BY DEF PostRunningAppList
<1>2. SUFFICES ASSUME NEW s \in DOMAIN told
               PROVE  /\ posted' \subseteq told'[s]
                      /\ told'[s] \subseteq InstancesOf(app_list_)'
  BY <1>1 DEF SubscribersAreCurrent
<1>3. posted' \subseteq InstancesOf(app_list_)'
  BY DEF IInv, PostedAreRunning
<1>4. CASE told'[s] = posted'
  BY <1>3, <1>4
<1>5. CASE /\ told'[s] = told[s]
           /\ posted' = posted
           /\ app_list_ \subseteq app_list_'
  <2>1. posted \subseteq told[s] /\ told[s] \subseteq InstancesOf(app_list_)
    BY DEF SubscribersAreCurrent
  <2>2. \A y \in app_list_ : apps'[y].instance_id = apps[y].instance_id
    BY InstancesAreKept
  <2>3. InstancesOf(app_list_) \subseteq InstancesOf(app_list_)'
    BY <1>5, <2>2 DEF InstancesOf
  <2>4. QED
    BY <1>5, <2>1, <2>3
<1>6. QED
  BY <1>4, <1>5 DEF PostRunningAppList

LEMMA SubscribeKeeps ==
  ASSUME IInv, SubscribersAreCurrent, NEW c \in Subscribers, listRunningApps(c)
  PROVE  SubscribersAreCurrent'
<1>1. /\ DOMAIN told' = DOMAIN told \cup {c}
      /\ \A s \in DOMAIN told \cup {c} :
           told'[s] = IF s = c THEN InstancesOf(app_list_) ELSE told[s]
  BY DEF listRunningApps
<1>2. posted \subseteq InstancesOf(app_list_)
  BY DEF IInv, PostedAreRunning
<1>3. posted' = posted /\ InstancesOf(app_list_)' = InstancesOf(app_list_)
  BY DEF listRunningApps, vars, registry, InstancesOf
<1>4. ASSUME NEW s \in DOMAIN told'
      PROVE  posted' \subseteq told'[s] /\ told'[s] \subseteq InstancesOf(app_list_)'
  <2>1. CASE s = c
    BY <1>1, <1>2, <1>3, <2>1
  <2>2. CASE s # c
    BY <1>1, <1>3, <1>4, <2>2 DEF SubscribersAreCurrent
  <2>3. QED
    BY <2>1, <2>2
<1>5. QED
  BY <1>4 DEF SubscribersAreCurrent

LEMMA QuietKeeps ==
  ASSUME SubscribersAreCurrent, UNCHANGED <<vars, told>>
  PROVE  SubscribersAreCurrent'
BY DEF SubscribersAreCurrent, InstancesOf, vars, registry

\* Whoever is told of the running apps receives a list that is posted or, when
\* it subscribes, one of its own.
LEMMA ToldReplies ==
  ASSUME AppCallNext \/ OtherCallNext \/ Event(EventNext)
  PROVE  \/ PostRunningAppList
         \/ UNCHANGED <<vars, told>>
         \/ \E s \in Subscribers : listRunningApps(s)
<1>1. ASSUME NEW r \in LaunchRequests, launchApp(r)
      PROVE  PostRunningAppList \/ UNCHANGED <<vars, told>>
  BY <1>1 DEF launchApp, Refuses, Answers
<1>2. ASSUME NEW id, NEW i, NEW forced, killApp(id, i, forced)
      PROVE  PostRunningAppList \/ UNCHANGED <<vars, told>>
  BY <1>2, Zenon DEF killApp, Refuses, Answers
<1>3. ASSUME NEW i, pauseApp(i)
      PROVE  PostRunningAppList \/ UNCHANGED <<vars, told>>
  BY <1>3, Zenon DEF pauseApp, Refuses, Answers
<1>4. closeAllApps => PostRunningAppList
  BY Zenon DEF closeAllApps, Answers
<1>5. ASSUME NEW id, NEW i, NEW subscribed, webProcessCreated(id, i, subscribed)
      PROVE  UNCHANGED <<vars, told>>
  BY <1>5, Zenon DEF webProcessCreated
<1>6. OtherCallNext => UNCHANGED <<vars, told>>
  BY OtherCallStep
<1>7. Event(EventNext) => PostRunningAppList
  BY DEF Event, Answers
<1>8. QED
  BY <1>1, <1>2, <1>3, <1>4, <1>5, <1>6, <1>7 DEF AppCallNext

\* A client of listRunningApps knows each instance of the last posted list and
\* none that has stopped, whenever it subscribed.
THEOREM SubscribersStayCurrent == LunaSpec => []SubscribersAreCurrent
<1>1. LunaInit => SubscribersAreCurrent
  BY DEF LunaInit, SubscribersAreCurrent
<1>2. IInv /\ IInv' /\ SubscribersAreCurrent /\ [LunaNext]_lunaVars
      => SubscribersAreCurrent'
  <2> SUFFICES ASSUME IInv, IInv', SubscribersAreCurrent, [LunaNext]_lunaVars
               PROVE  SubscribersAreCurrent'
    OBVIOUS
  <2>1. OneKind
    BY KindOfStep
  <2>2. PostRunningAppList => SubscribersAreCurrent'
    BY <2>1, PostKeeps
  <2>3. UNCHANGED <<vars, told>> => SubscribersAreCurrent'
    BY QuietKeeps
  <2>4. ASSUME NEW s \in Subscribers, listRunningApps(s)
        PROVE  SubscribersAreCurrent'
    BY <2>4, SubscribeKeeps
  <2>5. QED
    BY <2>2, <2>3, <2>4, ToldReplies DEF LunaNext, lunaVars
<1>3. QED
  BY <1>1, <1>2, ServiceInvariance, PTL DEF LunaSpec

-----------------------------------------------------------------------------
(* The replies.                                                            *)

\* What the methods but clearBrowsingData answer with success and with failure.
Confirmation(r) ==
  \E method \in Methods \ {"none", "clearBrowsingData"},
     id \in AppIds \cup {Bad}, i \in Instances \cup {Bad} :
    r = Success(method, id, i)

Refusal(r) ==
  \E method \in Methods \ {"none", "clearBrowsingData"},
     code \in ErrorCodes :
    r = Failure(method, code)

LEMMA RefusesRefusal ==
  ASSUME NEW method \in Methods \ {"none", "clearBrowsingData"},
         NEW code \in ErrorCodes, Refuses(method, code)
  PROVE  Refusal(reply')
BY Zenon DEF Refuses, Refusal

LEMMA AnswersConfirmation ==
  ASSUME NEW method \in Methods \ {"none", "clearBrowsingData"},
         NEW id \in AppIds \cup {Bad}, NEW i \in Instances \cup {Bad},
         reply' = Success(method, id, i)
  PROVE  Confirmation(reply')
BY Zenon DEF Confirmation

LEMMA LaunchReplies ==
  ASSUME NEW r \in LaunchRequests, launchApp(r)
  PROVE  Confirmation(reply') \/ Refusal(reply')
<1>1. /\ "launchApp" \in Methods \ {"none", "clearBrowsingData"}
      /\ {"MissParam", "UnsupportedType"} \subseteq ErrorCodes
  BY DEF Methods, ErrorCodes
<1>2. r.app_id \in AppIds \cup {Bad} /\ r.instance_id \in Instances \cup {Bad}
  BY RequestsAssumption DEF LaunchRequestType
<1>3. CASE ~AcceptsLaunch(r)
  <2>1. Refuses("launchApp", "MissParam")
    BY <1>3, Zenon DEF launchApp
  <2>2. QED
    BY <1>1, <2>1, RefusesRefusal
<1>4. CASE AcceptsLaunch(r)
  <2>1. \/ reply' = Success("launchApp", r.app_id, r.instance_id)
        \/ Refuses("launchApp", "UnsupportedType")
    BY <1>4, Zenon DEF launchApp, Answers
  <2>2. QED
    BY <1>1, <1>2, <2>1, RefusesRefusal, AnswersConfirmation
<1>5. QED
  BY <1>3, <1>4

LEMMA AppCallReplies ==
  ASSUME TypeOK, AppCallNext
  PROVE  Confirmation(reply') \/ Refusal(reply')
<1> DEFINE confirming == Methods \ {"none", "clearBrowsingData"}
<1>1. {"killApp", "pauseApp", "closeAllApps", "listRunningApps",
       "webProcessCreated"} \subseteq confirming
  BY DEF Methods
<1>2. {"none", "InvalidParam", "NoRunningApp"} \subseteq ErrorCodes
  BY DEF ErrorCodes
<1>3. ASSUME NEW id, NEW i, NEW forced, killApp(id, i, forced)
      PROVE  Confirmation(reply') \/ Refusal(reply')
  <2>1. \/ Runs(id, i) /\ reply' = Success("killApp", id, i)
        \/ Refuses("killApp", "InvalidParam")
        \/ Refuses("killApp", "NoRunningApp")
    BY <1>3, Zenon DEF killApp, Answers
  <2>2. QED
    BY <1>1, <1>2, <2>1, RunningIds, RefusesRefusal, AnswersConfirmation
<1>4. ASSUME NEW i, pauseApp(i)
      PROVE  Confirmation(reply') \/ Refusal(reply')
  <2>1. \/ IsRunningApp(i) /\ reply' = Success("pauseApp", Bad, i)
        \/ Refuses("pauseApp", "InvalidParam")
        \/ Refuses("pauseApp", "NoRunningApp")
    BY <1>4, Zenon DEF pauseApp, Answers
  <2>2. QED
    BY <1>1, <1>2, <2>1, RunningIds, RefusesRefusal, AnswersConfirmation
<1>5. ASSUME closeAllApps
      PROVE  Confirmation(reply')
  BY <1>1, <1>5, AnswersConfirmation DEF closeAllApps, Answers
<1>6. ASSUME NEW s, listRunningApps(s)
      PROVE  Confirmation(reply')
  BY <1>1, <1>6, AnswersConfirmation DEF listRunningApps
<1>7. ASSUME NEW id, NEW i, NEW subscribed, webProcessCreated(id, i, subscribed)
      PROVE  Confirmation(reply') \/ Refusal(reply')
  <2>1. \/ Runs(id, i) /\ reply' = Success("webProcessCreated", id, i)
        \/ reply' = Success("webProcessCreated", Bad, Bad)
        \/ reply' = Failure("webProcessCreated", "InvalidParam")
        \/ reply' = Failure("webProcessCreated", "none")
    BY <1>7, Zenon DEF webProcessCreated, Runs
  <2>2. QED
    BY <1>1, <1>2, <2>1, RunningIds, AnswersConfirmation DEF Refusal
<1>8. QED
  BY <1>3, <1>4, <1>5, <1>6, <1>7, LaunchReplies DEF AppCallNext

LEMMA OtherCallReplies ==
  ASSUME OtherCallNext
  PROVE  \/ Confirmation(reply') \/ Refusal(reply')
         \/ \E r \in ClearRequests : clearBrowsingData(r)
<1>1. {"fireNotificationEvent", "logControl", "setInspectorEnable"}
        \subseteq Methods \ {"none", "clearBrowsingData"}
  BY DEF Methods
<1>2. {"none", "NotifyMissingParameter", "NotifyUnsupportedType", "InvalidParam"}
        \subseteq ErrorCodes
  BY DEF ErrorCodes
<1>3. ASSUME NEW complete, NEW type, fireNotificationEvent(complete, type)
      PROVE  Confirmation(reply') \/ Refusal(reply')
  <2>1. \/ reply' = Success("fireNotificationEvent", Bad, Bad)
        \/ Refuses("fireNotificationEvent", "NotifyMissingParameter")
        \/ Refuses("fireNotificationEvent", "NotifyUnsupportedType")
    BY <1>3, Zenon DEF fireNotificationEvent
  <2>2. QED
    BY <1>1, <1>2, <2>1, RefusesRefusal, AnswersConfirmation
<1>4. ASSUME NEW complete, logControl(complete)
      PROVE  Confirmation(reply') \/ Refusal(reply')
  <2>1. \/ reply' = Success("logControl", Bad, Bad)
        \/ Refuses("logControl", "InvalidParam")
    BY <1>4, Zenon DEF logControl
  <2>2. QED
    BY <1>1, <1>2, <2>1, RefusesRefusal, AnswersConfirmation
<1>5. setInspectorEnable => Confirmation(reply')
  BY <1>1, AnswersConfirmation DEF setInspectorEnable
<1>6. QED
  BY <1>3, <1>4, <1>5 DEF OtherCallNext

\* All there is in the way of replies.
LEMMA EveryReply ==
  ASSUME TypeOK, [LunaNext]_lunaVars
  PROVE  \/ reply' = reply \/ reply' = NoReply
         \/ Confirmation(reply') \/ Refusal(reply')
         \/ \E r \in ClearRequests : clearBrowsingData(r)
<1>1. Event(EventNext) => reply' = NoReply
  BY DEF Event, Answers
<1>2. UNCHANGED lunaVars => reply' = reply
  BY DEF lunaVars
<1>3. QED
  BY <1>1, <1>2, AppCallReplies, OtherCallReplies DEF LunaNext

LEMMA ClearCodes ==
  ASSUME NEW r \in ClearRequests
  PROVE  ClearCode(r) \in {"none", "InvalidValue", "EmptyArray", "UnknownData"}
<1>1. r.types \in {"absent", "array", "other"}
  BY RequestsAssumption DEF ClearRequestType
<1>2. QED
  BY <1>1 DEF ClearCode

-----------------------------------------------------------------------------
(* What clearBrowsingData removes.                                         *)

LEMMA MaskOfType ==
  ASSUME NEW type \in DataTypes \cup {"unknown"}
  PROVE  /\ MaskForBrowsingDataType(type) \subseteq DataKinds
         /\ type # "unknown" => MaskForBrowsingDataType(type) # {}
BY DEF DataTypes, DataKinds, MaskForBrowsingDataType

\* Up to the first entry it refuses, an array asks for kinds the engine stores,
\* and with no such entry for at least one of them.
LEMMA MaskOfArray ==
  ASSUME NEW array \in Seq(DataTypes \cup {"unknown", Bad})
  PROVE  /\ Mask(array) \subseteq DataKinds
         /\ array # <<>> /\ Invalid(array) = {} => Mask(array) # {}
<1> DEFINE read == {k \in DOMAIN array : \A j \in Invalid(array) : k < j}
<1>1. DOMAIN array \subseteq Nat
  OBVIOUS
<1>2. ASSUME NEW i \in read
      PROVE  array[i] \in DataTypes
  <2>1. i \in DOMAIN array /\ i \notin Invalid(array)
    BY <1>1
  <2>2. array[i] \in DataTypes \cup {"unknown", Bad}
    BY <2>1
  <2>3. QED
    BY <2>1, <2>2 DEF Invalid
<1>3. Mask(array) = UNION {MaskForBrowsingDataType(array[i]) : i \in read}
  BY DEF Mask
<1>4. Mask(array) \subseteq DataKinds
  BY <1>2, <1>3, MaskOfType
<1>5. ASSUME array # <<>>, Invalid(array) = {}
      PROVE  Mask(array) # {}
  <2>1. 1 \in read
    BY <1>5
  <2>2. MaskForBrowsingDataType(array[1]) # {}
    <3>1. array[1] \in DataTypes /\ "unknown" \notin DataTypes
      BY <1>2, <2>1 DEF DataTypes
    <3>2. QED
      BY <3>1, MaskOfType
  <2>3. MaskForBrowsingDataType(array[1]) \subseteq Mask(array)
    BY <1>3, <2>1
  <2>4. QED
    BY <2>2, <2>3
<1>6. QED
  BY <1>4, <1>5

LEMMA MaskOfRequest ==
  ASSUME NEW r \in ClearRequests
  PROVE  /\ ClearMask(r) \subseteq DataKinds
         /\ ClearCode(r) = "none" => ClearMask(r) # {}
<1>1. /\ r.types \in {"absent", "array", "other"}
      /\ r.array \in Seq(DataTypes \cup {"unknown", Bad})
  BY RequestsAssumption DEF ClearRequestType
<1>2. CASE r.types = "absent"
  BY <1>2, MaskOfType DEF ClearMask, DataTypes
<1>3. CASE r.types = "array"
  <2>1. ClearMask(r) = Mask(r.array)
    BY <1>3 DEF ClearMask
  <2>2. ClearCode(r) = "none" => r.array # <<>> /\ Invalid(r.array) = {}
    BY <1>3 DEF ClearCode
  <2>3. QED
    BY <1>1, <2>1, <2>2, MaskOfArray
<1>4. CASE r.types = "other"
  BY <1>4 DEF ClearMask, ClearCode
<1>5. QED
  BY <1>1, <1>2, <1>3, <1>4

LEMMA ClearReply ==
  ASSUME NEW r \in ClearRequests, clearBrowsingData(r)
  PROVE  /\ reply'.method = "clearBrowsingData"
         /\ reply'.returnValue = (ClearCode(r) = "none")
         /\ reply'.removed = IF ClearCode(r) = "none" THEN ClearMask(r) ELSE {}
BY DEF clearBrowsingData, NoReply, Cleared

\* clearBrowsingData answers with success exactly if it has removed something,
\* for an array of types of any length and in any order.
THEOREM ClearsAllOrNothingAlways == LunaSpec => []ClearsAllOrNothing
<1>1. LunaInit => ClearsAllOrNothing
  BY DEF LunaInit, NoReply, ClearsAllOrNothing
<1>2. TypeOK /\ ClearsAllOrNothing /\ [LunaNext]_lunaVars => ClearsAllOrNothing'
  <2> SUFFICES ASSUME TypeOK, ClearsAllOrNothing, [LunaNext]_lunaVars
               PROVE  ClearsAllOrNothing'
    OBVIOUS
  <2>1. CASE Confirmation(reply') \/ Refusal(reply') \/ reply' = NoReply
    <3>1. \A method, id, i : Success(method, id, i).method = method
      BY DEF Success, NoReply
    <3>2. \A method, code : Failure(method, code).method = method
      BY DEF Failure, NoReply
    <3>3. NoReply.method = "none"
      BY DEF NoReply
    <3>4. reply'.method # "clearBrowsingData"
      BY <2>1, <3>1, <3>2, <3>3 DEF Confirmation, Refusal
    <3>5. QED
      BY <3>4 DEF ClearsAllOrNothing
  <2>2. CASE reply' = reply
    BY <2>2 DEF ClearsAllOrNothing
  <2>3. ASSUME NEW r \in ClearRequests, clearBrowsingData(r)
        PROVE  ClearsAllOrNothing'
    BY <2>3, ClearReply, MaskOfRequest DEF ClearsAllOrNothing
  <2>4. QED
    BY <2>1, <2>2, <2>3, EveryReply
<1>3. IInv => TypeOK
  BY DEF IInv
<1>4. QED
  BY <1>1, <1>2, <1>3, ServiceInvariance, PTL DEF LunaSpec

-----------------------------------------------------------------------------
(* The types of what clients receive.                                      *)

ReplyType ==
  [method : Methods, returnValue : BOOLEAN, errorCode : ErrorCodes,
   app_id : AppIds \cup {Bad}, instance_id : Instances \cup {Bad},
   removed : SUBSET DataKinds]

ToldType ==
  /\ DOMAIN told \subseteq Subscribers
  /\ told \in [DOMAIN told -> SUBSET Instances]

LEMMA ReplyTypes ==
  /\ NoReply \in ReplyType
  /\ \A r : Confirmation(r) \/ Refusal(r) => r \in ReplyType
<1>1. /\ NoReply = [method |-> "none", returnValue |-> TRUE, errorCode |-> "none",
                    app_id |-> Bad, instance_id |-> Bad, removed |-> {}]
      /\ "none" \in Methods /\ "none" \in ErrorCodes
  BY DEF NoReply, Methods, ErrorCodes
<1>2. NoReply \in ReplyType
  BY <1>1 DEF ReplyType
<1>3. ASSUME NEW method \in Methods, NEW id \in AppIds \cup {Bad},
             NEW i \in Instances \cup {Bad}
      PROVE  Success(method, id, i) \in ReplyType
  BY <1>2, <1>3, Zenon DEF Success, ReplyType
<1>4. ASSUME NEW method \in Methods, NEW code \in ErrorCodes
      PROVE  Failure(method, code) \in ReplyType
  <2>1. FALSE \in BOOLEAN
    OBVIOUS
  <2>2. QED
    BY <1>2, <1>4, <2>1, Zenon DEF Failure, ReplyType
<1>5. QED
  BY <1>2, <1>3, <1>4 DEF Confirmation, Refusal

LEMMA ClearReplyType ==
  ASSUME NEW r \in ClearRequests, clearBrowsingData(r)
  PROVE  reply' \in ReplyType
<1> DEFINE ok      == ClearCode(r) = "none"
           removed == Cleared(ok, ClearMask(r))
<1>1. "clearBrowsingData" \in Methods /\ ClearCode(r) \in ErrorCodes
  BY ClearCodes DEF Methods, ErrorCodes
<1>2. removed \in SUBSET DataKinds /\ ok \in BOOLEAN
  BY MaskOfRequest DEF Cleared
<1>3. NoReply \in ReplyType
  BY ReplyTypes
<1>4. reply' = [NoReply EXCEPT !.method = "clearBrowsingData",
                               !.returnValue = ok,
                               !.errorCode = ClearCode(r),
                               !.removed = removed]
  BY DEF clearBrowsingData
<1> HIDE DEF ok, removed
<1>5. QED
  BY <1>1, <1>2, <1>3, <1>4, Zenon DEF ReplyType

LEMMA ToldKeepsType ==
  ASSUME TypeOK, TypeOK', ToldType, [LunaNext]_lunaVars
  PROVE  ToldType'
<1>1. CASE PostRunningAppList
  BY <1>1 DEF TypeOK, ToldType, PostRunningAppList
<1>2. CASE UNCHANGED <<vars, told>>
  BY <1>2 DEF ToldType
<1>3. ASSUME NEW s \in Subscribers, listRunningApps(s)
      PROVE  ToldType'
  <2>1. InstancesOf(app_list_) \in SUBSET Instances
    BY DEF TypeOK, InstancesOf, WebAppType
  <2>2. told' = [c \in DOMAIN told \cup {s} |->
                   IF c = s THEN InstancesOf(app_list_) ELSE told[c]]
    BY <1>3 DEF listRunningApps
  <2>3. QED
    BY <2>1, <2>2 DEF ToldType
<1>4. QED
  BY <1>1, <1>2, <1>3, ToldReplies DEF LunaNext, lunaVars

\* Replies and lists are what the bus can carry; the apps behind them keep
\* their types.
THEOREM LunaTypeCorrectness == LunaSpec => []LunaTypeOK
<1>1. LunaInit => reply \in ReplyType /\ ToldType
  BY ReplyTypes DEF LunaInit, ToldType
<1>2. ASSUME IInv, IInv', reply \in ReplyType, ToldType, [LunaNext]_lunaVars
      PROVE  (reply \in ReplyType /\ ToldType)'
  <2>1. reply' \in ReplyType
    BY <1>2, EveryReply, ReplyTypes, ClearReplyType DEF IInv
  <2>2. ToldType'
    BY <1>2, ToldKeepsType DEF IInv
  <2>3. QED
    BY <2>1, <2>2
<1>3. LunaSpec => [](reply \in ReplyType /\ ToldType)
  BY <1>1, <1>2, ServiceInvariance, PTL DEF LunaSpec
<1>4. IInv /\ reply \in ReplyType /\ ToldType => LunaTypeOK
  BY DEF IInv, LunaTypeOK, ReplyType, ToldType
<1>5. QED
  BY <1>3, <1>4, ServiceInvariance, PTL

-----------------------------------------------------------------------------
(* What an answer promises.                                                *)

LEMMA ReplyFields ==
  /\ \A method, id, i : /\ Success(method, id, i).method = method
                        /\ Success(method, id, i).instance_id = i
  /\ \A method, code : Failure(method, code).returnValue = FALSE
  /\ NoReply.method = "none"
BY DEF Failure, Success, NoReply

LEMMA RefusalHolds ==
  ASSUME NEW method, NEW code, reply' = Failure(method, code)
  PROVE  AnswersHold'
<1>1. reply'.returnValue = FALSE
  BY ReplyFields
<1>2. QED
  BY <1>1, Zenon DEF AnswersHold

\* A reply of a method that promises nothing about the apps.
LEMMA OtherReplyHolds ==
  ASSUME reply'.method \notin {"launchApp", "killApp", "pauseApp",
                             "closeAllApps"}
  PROVE  AnswersHold'
BY DEF AnswersHold

\* The instances that are listed stay listed with the apps.
LEMMA RelaunchedRuns ==
  ASSUME IInv, OneKind, NEW i, IsRunningApp(i), app_list_' = app_list_
  PROVE  IsRunningApp(i)'
BY InstancesAreKept DEF IsRunningApp, Finds

LEMMA LaunchedRuns ==
  ASSUME IInv, NEW x \in Apps, NEW id \in AppIds, NEW i \in Instances,
         NEW args \in LaunchArgs, NEW updated \in BOOLEAN,
         OnLaunchUrl(x, id, i, args, updated)
  PROVE  IsRunningApp(i)'
<1>1. apps'[x] = NewWebApp(id, i, args, updated /\ id \in app_version_)
  BY DEF OnLaunchUrl, WebPageAdded, IInv, TypeOK
<1>2. apps'[x].instance_id = i
  BY <1>1 DEF NewWebApp
<1>3. x \in app_list_'
  BY DEF OnLaunchUrl, WebPageAdded
<1>4. QED
  BY <1>2, <1>3 DEF IsRunningApp, Finds

LEMMA LaunchHolds ==
  ASSUME IInv, OneKind, NEW r \in LaunchRequests, launchApp(r)
  PROVE  AnswersHold'
<1>1. CASE \E code : Refuses("launchApp", code)
  BY <1>1, RefusalHolds, Zenon DEF Refuses
<1>2. CASE /\ AcceptsLaunch(r)
           /\ reply' = Success("launchApp", r.app_id, r.instance_id)
           /\ \/ /\ IsRunningApp(r.instance_id)
                 /\ RelaunchRunning(r)
              \/ \E x \in Apps :
                   OnLaunchUrl(x, r.app_id, r.instance_id, r.args, r.updated)
  <2>1. /\ r.app_id \in AppIds
        /\ r.instance_id \in Instances
        /\ r.args \in LaunchArgs
        /\ r.updated \in BOOLEAN
    BY <1>2, RequestsAssumption DEF AcceptsLaunch, LaunchRequestType
  <2>2. reply'.method = "launchApp" /\ reply'.instance_id = r.instance_id
    BY <1>2, ReplyFields
  <2>3. ASSUME IsRunningApp(r.instance_id), RelaunchRunning(r)
        PROVE  IsRunningApp(r.instance_id)'
    <3>1. app_list_' = app_list_
      BY <2>3 DEF RelaunchRunning, OnRelaunchApp, Update, vars, registry
    <3>2. QED
      BY <2>3, <3>1, RelaunchedRuns
  <2>4. IsRunningApp(r.instance_id)'
    BY <1>2, <2>1, <2>3, LaunchedRuns
  <2>5. QED
    BY <2>2, <2>4 DEF AnswersHold
<1>3. QED
  <2>1. CASE ~AcceptsLaunch(r)
    BY <1>1, <2>1, Zenon DEF launchApp
  <2>2. CASE AcceptsLaunch(r)
    BY <1>1, <1>2, <2>2, Zenon DEF launchApp, Answers
  <2>3. QED
    BY <2>1, <2>2

LEMMA HideWindowHides ==
  ASSUME NEW a \in WebAppType, OnlyHides(a)
  PROVE  /\ HideWindow(a).keep_alive
         /\ HideWindow(a).hidden_window
<1>1. HideWindow(a) = [OnStageDeactivated(a) EXCEPT !.added_to_window_mgr = FALSE]
  BY DEF OnlyHides, HideWindow, CanHideWindow, Hide
<1>2. /\ OnStageDeactivated(a).keep_alive = a.keep_alive
      /\ OnStageDeactivated(a).hidden_window = TRUE
      /\ OnStageDeactivated(a) \in WebAppType
  BY StageDeactivated DEF SameApp, OnStageDeactivated, WithPage,
     SetVisibilityState, WebAppType
<1>3. QED
  BY <1>1, <1>2 DEF OnlyHides, WebAppType

\* An app that CloseAppInternal took is no longer listed, or only hidden.
LEMMA ClosedOrHidden ==
  ASSUME IInv, OneKind, NEW x \in app_list_, NEW a \in WebAppType,
         CloseAppInternal(x, a), NEW i, apps[x].instance_id = i,
         NEW y \in Apps, Finds(y, i)'
  PROVE  apps'[y].keep_alive /\ apps'[y].hidden_window
<1>1. y \in app_list_' /\ apps'[y].instance_id = i
  BY DEF Finds
<1>2. app_list_' \subseteq app_list_
  BY DEF CloseAppInternal, Update, registry, Unlist, WebPageRemoved
<1>3. apps[y].instance_id = apps[x].instance_id
  BY <1>1, <1>2, InstancesAreKept
<1>4. y = x
  BY <1>1, <1>2, <1>3 DEF IInv, InstanceUnique
<1>5. OnlyHides(a)
  BY <1>1, <1>4 DEF CloseAppInternal, Unlist, WebPageRemoved
<1>6. apps'[x] = HideWindow(a)
  BY <1>4, <1>5 DEF CloseAppInternal, Update, IInv, TypeOK
<1>7. QED
  BY <1>4, <1>5, <1>6, HideWindowHides

LEMMA KillHolds ==
  ASSUME IInv, OneKind, NEW id, NEW i, NEW forced, killApp(id, i, forced)
  PROVE  AnswersHold'
<1>1. CASE \E code : Refuses("killApp", code)
  BY <1>1, RefusalHolds, Zenon DEF Refuses
<1>2. CASE /\ reply' = Success("killApp", id, i)
           /\ OnKillApp(id, i, forced)
  <2>1. PICK x \in app_list_ :
          /\ apps[x].instance_id = i
          /\ IF forced THEN CloseAppInternal(x, Forced(apps[x]))
                       ELSE CloseAppInternal(x, apps[x])
    BY <1>2 DEF OnKillApp, Finds, ForceCloseAppInternal
  <2>2. x \in Apps /\ apps[x] \in WebAppType
    BY DEF IInv, TypeOK
  <2>3. Forced(apps[x]) \in WebAppType
    BY <2>2 DEF Forced, WebAppType
  <2>4. \A y \in Apps : Finds(y, i)' =>
                          apps'[y].keep_alive /\ apps'[y].hidden_window
    BY <2>1, <2>2, <2>3, ClosedOrHidden
  <2>5. reply'.method = "killApp" /\ reply'.instance_id = i
    BY <1>2, ReplyFields
  <2>6. QED
    BY <2>4, <2>5 DEF AnswersHold
<1>3. QED
  BY <1>1, <1>2, Zenon DEF killApp, Answers

LEMMA HiddenUnlessError ==
  ASSUME NEW a \in WebAppType
  PROVE  \/ HideWindow(a).hidden_window
         \/ HideWindow(a).page.is_load_error_page_finish
<1>1. CASE a.page.is_load_error_page_finish
  BY <1>1 DEF HideWindow, CanHideWindow
<1>2. CASE ~a.page.is_load_error_page_finish
  <2>1. HideWindow(a) = [OnStageDeactivated(a) EXCEPT !.added_to_window_mgr = FALSE]
    BY <1>2 DEF HideWindow, CanHideWindow, Hide
  <2>2. /\ OnStageDeactivated(a).hidden_window = TRUE
        /\ OnStageDeactivated(a) \in WebAppType
    BY StageDeactivated DEF SameApp, OnStageDeactivated, WithPage,
       SetVisibilityState, WebAppType
  <2>3. QED
    BY <2>1, <2>2 DEF WebAppType
<1>3. QED
  BY <1>1, <1>2

LEMMA PauseHolds ==
  ASSUME IInv, OneKind, NEW i, pauseApp(i)
  PROVE  AnswersHold'
<1>1. CASE \E code : Refuses("pauseApp", code)
  BY <1>1, RefusalHolds, Zenon DEF Refuses
<1>2. CASE /\ reply' = Success("pauseApp", Bad, i)
           /\ OnPauseApp(i)
  <2>1. PICK x \in app_list_ : apps[x].instance_id = i /\ Update(x, HideWindow(apps[x]))
    BY <1>2 DEF OnPauseApp, Finds
  <2>2. x \in Apps /\ apps[x] \in WebAppType
    BY DEF IInv, TypeOK
  <2>3. apps'[x] = HideWindow(apps[x]) /\ app_list_' = app_list_
    BY <2>1, <2>2 DEF Update, registry, IInv, TypeOK
  <2>4. ASSUME NEW y \in Apps, Finds(y, i)'
        PROVE  apps'[y].hidden_window \/ apps'[y].page.is_load_error_page_finish
    <3>1. y \in app_list_ /\ apps'[y].instance_id = i
      BY <2>3, <2>4 DEF Finds
    <3>2. apps[y].instance_id = apps[x].instance_id
      BY <2>1, <2>3, <3>1, InstancesAreKept
    <3>3. y = x
      BY <3>1, <3>2 DEF IInv, InstanceUnique
    <3>4. QED
      BY <2>2, <2>3, <3>3, HiddenUnlessError
  <2>5. reply'.method = "pauseApp" /\ reply'.instance_id = i
    BY <1>2, ReplyFields
  <2>6. QED
    BY <2>4, <2>5 DEF AnswersHold
<1>3. QED
  BY <1>1, <1>2, Zenon DEF pauseApp, Answers

LEMMA CloseAllHolds ==
  ASSUME closeAllApps
  PROVE  AnswersHold'
<1>1. app_list_' = {}
  BY DEF closeAllApps, CloseAllApps, Unlist, WebPageRemoved, vars, registry
<1>2. reply'.method = "closeAllApps"
  BY ReplyFields DEF closeAllApps, Answers
<1>3. QED
  BY <1>1, <1>2 DEF AnswersHold

\* A call answered with success has done what it says: a launched instance
\* runs, a killed one is gone or hidden, a paused one hidden unless it shows the
\* error page, after closeAllApps no app runs.
THEOREM SuccessIsTrue == LunaSpec => []AnswersHold
<1>1. LunaInit => AnswersHold
  BY ReplyFields DEF LunaInit, AnswersHold
<1>2. IInv /\ AnswersHold /\ [LunaNext]_lunaVars => AnswersHold'
  <2> SUFFICES ASSUME IInv, AnswersHold, [LunaNext]_lunaVars
               PROVE  AnswersHold'
    OBVIOUS
  <2>1. OneKind
    BY KindOfStep
  <2>2. ASSUME NEW i, pauseApp(i)
        PROVE  AnswersHold'
    BY <2>1, <2>2, PauseHolds
  <2>3. ASSUME NEW s, listRunningApps(s)
        PROVE  AnswersHold'
    BY <2>3, ReplyFields, OtherReplyHolds DEF listRunningApps
  <2>4. ASSUME NEW id, NEW i, NEW subscribed, webProcessCreated(id, i, subscribed)
        PROVE  AnswersHold'
    <3>1. CASE \E j, k : reply' = Success("webProcessCreated", j, k)
      BY <3>1, ReplyFields, OtherReplyHolds
    <3>2. CASE \E code : reply' = Failure("webProcessCreated", code)
      BY <3>2, RefusalHolds
    <3>3. QED
      BY <2>4, <3>1, <3>2, Zenon DEF webProcessCreated
  <2>5. ASSUME OtherCallNext
        PROVE  AnswersHold'
    <3>1. ASSUME NEW r \in ClearRequests, clearBrowsingData(r)
          PROVE  reply'.method = "clearBrowsingData"
      BY <3>1 DEF clearBrowsingData, NoReply
    <3>2. ASSUME NEW complete, NEW type, fireNotificationEvent(complete, type)
          PROVE  \/ reply' = Success("fireNotificationEvent", Bad, Bad)
                 \/ \E code : reply' = Failure("fireNotificationEvent", code)
      BY <3>2, Zenon DEF fireNotificationEvent, Refuses
    <3>3. ASSUME NEW complete, logControl(complete)
          PROVE  \/ reply' = Success("logControl", Bad, Bad)
                 \/ \E code : reply' = Failure("logControl", code)
      BY <3>3, Zenon DEF logControl, Refuses
    <3>4. setInspectorEnable => reply' = Success("setInspectorEnable", Bad, Bad)
      BY Zenon DEF setInspectorEnable
    <3>5. QED
      BY <2>5, <3>1, <3>2, <3>3, <3>4, ReplyFields, RefusalHolds, OtherReplyHolds
         DEF OtherCallNext
  <2>6. ASSUME Event(EventNext)
        PROVE  AnswersHold'
    BY <2>6, ReplyFields, OtherReplyHolds DEF Event, Answers
  <2>7. ASSUME UNCHANGED lunaVars
        PROVE  AnswersHold'
    BY <2>7 DEF lunaVars, vars, registry, AnswersHold, IsRunningApp, Finds
  <2>8. QED
    BY <2>1, <2>2, <2>3, <2>4, <2>5, <2>6, <2>7, LaunchHolds, KillHolds,
       CloseAllHolds DEF LunaNext, AppCallNext
<1>3. QED
  BY <1>1, <1>2, ServiceInvariance, PTL DEF LunaSpec

-----------------------------------------------------------------------------
(* What a relaunch does.                                                   *)

\* The window is no longer hidden, and the relaunch has gone somewhere.
Taken(a) ==
  /\ ~a.hidden_window
  /\ \/ a.in_progress_relaunch
     \/ a.page.has_been_shown
     \/ a.page.request = "app"

\* Resuming a page stops nothing it was asked to load.
LEMMA ResumeKeepsRequest ==
  ASSUME NEW p \in WebPageType
  PROVE  /\ ResumeWebPagePaintingAndJSExecution(p).has_been_shown = p.has_been_shown
         /\ ResumeWebPagePaintingAndJSExecution(p).request = p.request
         /\ ResumeWebPageAll(p).has_been_shown = p.has_been_shown
         /\ ResumeWebPageAll(p).request = p.request
<1> DEFINE q == ResumeWebPagePaintingAndJSExecution(p)
<1>1. q.has_been_shown = p.has_been_shown /\ q.request = p.request
  BY DEF ResumeWebPagePaintingAndJSExecution, WebPageType
<1>2. q \in WebPageType
  BY ResumePainting DEF SameClosing
<1>3. ResumeWebPageAll(p) = ResumeWebPageMedia(q)
  BY DEF ResumeWebPageAll
<1> HIDE DEF q
<1>4. /\ ResumeWebPageMedia(q).has_been_shown = q.has_been_shown
      /\ ResumeWebPageMedia(q).request = q.request
  BY <1>2 DEF ResumeWebPageMedia, WebPageType
<1>5. QED
  BY <1>1, <1>3, <1>4 DEF q

LEMMA RecoverTakes ==
  ASSUME NEW a \in WebAppType
  PROVE  /\ RecoverFromCrash(a).hidden_window = a.hidden_window
         /\ Taken(a) => Taken(RecoverFromCrash(a))
<1>1. /\ LoadUrl(a.page, "app").request = "app"
      /\ RecoverFromCrash(a) =
           IF a.crashed
             THEN [[a EXCEPT !.page = LoadUrl(a.page, "app")] EXCEPT !.crashed = FALSE]
             ELSE a
  BY PageOfApp DEF LoadUrl, WebPageType, RecoverFromCrash, ReloadDefaultPage, WithPage
<1>2. QED
  BY <1>1 DEF Taken, WebAppType

\* An app that is brought into sight keeps what it has taken.
LEMMA ResumeVisibleTakes ==
  ASSUME NEW a \in WebAppType
  PROVE  LET b == SetVisibilityState(WithPage(a, ResumeWebPageAll(a.page)), "visible")
         IN  /\ b.hidden_window = a.hidden_window
             /\ Taken(a) => Taken(b)
<1> DEFINE p == ResumeWebPageAll(a.page)
           q == [p EXCEPT !.visibility = "visible"]
<1>1. p \in WebPageType
  BY PageOfApp, ResumeAll DEF SameClosing
<1>2. p.has_been_shown = a.page.has_been_shown /\ p.request = a.page.request
  BY PageOfApp, ResumeKeepsRequest
<1> HIDE DEF p
<1>3. q.has_been_shown = a.page.has_been_shown /\ q.request = a.page.request
  BY <1>1, <1>2 DEF WebPageType
<1>4. SetVisibilityState(WithPage(a, p), "visible") = [a EXCEPT !.page = q]
  BY DEF SetVisibilityState, WithPage, WebAppType
<1> HIDE DEF q
<1>5. QED
  BY <1>3, <1>4 DEF p, Taken, WebAppType

LEMMA StageActivatedTakes ==
  ASSUME NEW a \in WebAppType
  PROVE  /\ OnStageActivated(a).hidden_window = a.hidden_window
         /\ Taken(a) => Taken(OnStageActivated(a))
BY Recover, RecoverTakes, ResumeVisibleTakes DEF OnStageActivated, SameApp

LEMMA RaiseTakes ==
  ASSUME NEW a \in WebAppType, Taken(a)
  PROVE  Taken(Raise(a))
<1> DEFINE b == IF a.window_type = "overlay" \/ (a.keep_alive /\ ~IsMinimized(a))
                  THEN OnStageActivated(a) ELSE a
<1>1. b \in WebAppType /\ Taken(b)
  BY StageActivated, StageActivatedTakes DEF SameApp
<1>2. Raise(a) = IF IsMinimized(a)
                   THEN SetVisibilityState(WithPage(b, ResumeWebPageAll(b.page)),
                                           "visible")
                   ELSE b
  BY DEF Raise
<1> HIDE DEF b
<1>3. QED
  BY <1>1, <1>2, ResumeVisibleTakes

LEMMA UnhiddenWindow ==
  ASSUME NEW a \in WebAppType
  PROVE  LET b == [a EXCEPT !.hidden_window = FALSE]
         IN  b \in WebAppType /\ ~b.hidden_window
<1>1. [a EXCEPT !.hidden_window = FALSE] \in WebAppType
  BY SameWithFlags DEF SameApp
<1>2. ~[a EXCEPT !.hidden_window = FALSE].hidden_window
  BY DEF WebAppType
<1>3. QED
  BY <1>1, <1>2

LEMMA UnhideUnhides ==
  ASSUME NEW a \in WebAppType
  PROVE  ~Unhide(a).hidden_window
<1> DEFINE h == [a EXCEPT !.hidden_window = FALSE]
           b == ClearPreloadState(h)
           w == b.added_to_window_mgr /\ ~(b.keep_alive /\ ~b.page.progress)
           c == [b EXCEPT !.added_to_window_mgr = w]
<1>1. h \in WebAppType /\ ~h.hidden_window
  BY UnhiddenWindow
<1>2. b \in WebAppType
  BY <1>1, ClearPreload DEF SameApp
<1>3. ~b.hidden_window
  BY <1>1 DEF ClearPreloadState, WebAppType
<1>4. Unhide(a) = IF c.added_to_window_mgr \/ (c.page.progress /\ c.page.has_been_shown)
                    THEN ShowWindow(c) ELSE c
  BY DEF Unhide
<1> HIDE DEF b
<1>5. w \in BOOLEAN
  BY <1>2 DEF WebAppType
<1> HIDE DEF w
<1>6. c \in WebAppType /\ ~c.hidden_window
  <2>1. c \in WebAppType
    BY <1>2, <1>5, SameWithFlags DEF SameApp
  <2>2. c.hidden_window = b.hidden_window
    BY <1>2 DEF WebAppType
  <2>3. QED
    BY <1>3, <2>1, <2>2
<1> HIDE DEF c
<1> DEFINE d == [c EXCEPT !.hidden_window = FALSE]
           e == OnStageActivated(d)
<1>7. d \in WebAppType /\ ~d.hidden_window
  BY <1>6, UnhiddenWindow
<1> HIDE DEF d
<1>8. e \in WebAppType /\ ~e.hidden_window
  BY <1>7, StageActivated, StageActivatedTakes DEF SameApp
<1>9. ShowWindow(c) = IF c.preload_state # "none" THEN c
                      ELSE [e EXCEPT !.added_to_window_mgr = TRUE]
  BY DEF ShowWindow, d, e
<1> HIDE DEF e
<1>10. ~ShowWindow(c).hidden_window
  BY <1>6, <1>8, <1>9 DEF WebAppType
<1>11. QED
  BY <1>4, <1>6, <1>10

\* The page takes the relaunch, navigates to it, or it is backed up.
LEMMA RelaunchTakes ==
  ASSUME NEW a \in WebAppType, NEW kind \in PageRelaunchKinds
  PROVE  Taken(Relaunch(a, kind))
<1> DEFINE u == IF a.hidden_window THEN Unhide(a) ELSE a
           b == RecoverFromCrash(u)
           p == PageRelaunch(b.page, kind)
           c == WithPage(b, p)
           d == [c EXCEPT !.in_progress_relaunch = TRUE]
<1>1. u \in WebAppType /\ ~u.hidden_window
  BY UnhideSame, UnhideUnhides DEF SameApp
<1>2. Relaunch(a, kind) = IF ~PageRelaunches(b.page, kind) THEN d
                          ELSE IF c.handles_relaunch THEN c ELSE Raise(c)
  BY DEF Relaunch, b, u
<1> HIDE DEF u
<1>3. b \in WebAppType /\ ~b.hidden_window
  BY <1>1, Recover, RecoverTakes DEF SameApp
<1> HIDE DEF b
<1>4. p \in WebPageType
  BY <1>3, PageOfApp, PageRelaunchSame
     DEF SameClosing, RelaunchKinds, PageRelaunchKinds
<1>5. IF kind = "navigate" THEN p.request = "app"
                           ELSE p.has_been_shown = b.page.has_been_shown
  <2> DEFINE q == ResumeWebPagePaintingAndJSExecution(b.page)
  <2>1. q \in WebPageType /\ q.has_been_shown = b.page.has_been_shown
    BY <1>3, PageOfApp, ResumePainting, ResumeKeepsRequest DEF SameClosing
  <2>2. p = IF kind = "navigate" THEN LoadUrl(q, "app") ELSE q
    BY DEF PageRelaunch
  <2> HIDE DEF q
  <2>3. LoadUrl(q, "app").request = "app"
    BY <2>1 DEF LoadUrl, WebPageType
  <2>4. QED
    BY <2>1, <2>2, <2>3
<1> HIDE DEF p
<1>6. c.page = p /\ ~c.hidden_window
  BY <1>3 DEF WithPage, WebAppType
<1>7. c \in WebAppType
  BY <1>3, <1>4, Zenon DEF WithPage, WebAppType
<1> HIDE DEF c
<1>8. PageRelaunches(b.page, kind) => Taken(c)
  BY <1>5, <1>6 DEF PageRelaunches, Taken
<1>9. Taken(d)
  BY <1>6, <1>7 DEF Taken, WebAppType
<1>10. QED
  BY <1>2, <1>7, <1>8, <1>9, RaiseTakes

\* A relaunch that is answered with success brings the app out of hiding with its
\* page awake, and is with the page, navigated to or backed up: for any requests,
\* and whatever the app was doing.
THEOREM RelaunchesAreTaken == LunaSpec => RelaunchIsTaken
<1>1. ASSUME IInv, IInv', AppsSound', NEW r \in LaunchRequests, launchApp(r),
             reply' = Success("launchApp", r.app_id, r.instance_id),
             IsRunningApp(r.instance_id), KindOfRelaunch(r) # "ignore"
      PROVE  \E x \in Apps : Finds(x, r.instance_id)' /\ Taken(apps'[x])
                             /\ ~apps'[x].page.is_suspended
  <2> DEFINE kind == KindOfRelaunch(r)
  <2>1. kind \in PageRelaunchKinds
    BY <1>1 DEF KindOfRelaunch, PageRelaunchKinds
  <2>2. AcceptsLaunch(r)
    <3>1. reply'.returnValue
      BY <1>1 DEF Success, NoReply
    <3>2. QED
      BY <1>1, <3>1, ReplyFields, Zenon DEF launchApp, Refuses
  <2>3. RelaunchRunning(r)
    BY <1>1, <2>2, Zenon DEF launchApp
  <2>4. OnRelaunchApp(r.app_id, r.instance_id, kind)
    BY <1>1, <2>3, Zenon DEF RelaunchRunning, IsRunningApp
  <2> HIDE DEF kind
  <2>5. PICK x \in app_list_ :
          /\ Finds(x, r.instance_id)
          /\ LET a == [apps[x] EXCEPT !.close_page_requested =
                                        @ /\ ~apps[x].keep_alive]
             IN  Update(x, IF kind = "ignore" THEN a ELSE Relaunch(a, kind))
    BY <2>4 DEF OnRelaunchApp
  <2> DEFINE c == apps[x].close_page_requested /\ ~apps[x].keep_alive
             a == [apps[x] EXCEPT !.close_page_requested = c]
  <2>6. /\ x \in Apps /\ apps[x] \in WebAppType /\ apps \in [Apps -> WebAppType]
        /\ Live(x)
    BY <1>1, <2>5, ListedIsLive DEF IInv, TypeOK
  <2>7. Update(x, Relaunch(a, kind))
    BY <2>1, <2>5 DEF PageRelaunchKinds
  <2>8. a \in WebAppType
    <3>1. c \in BOOLEAN
      BY <2>6 DEF WebAppType
    <3>2. QED
      BY <2>6, <3>1, SameWithFlags DEF SameApp
  <2>9. a.instance_id = r.instance_id /\ a.status = "live"
    BY <2>5, <2>6 DEF Finds, Live, WebAppType
  <2> HIDE DEF a
  <2>10. apps'[x] = Relaunch(a, kind) /\ app_list_' = app_list_
    BY <2>6, <2>7 DEF Update, registry
  <2>11. SameApp(a, apps'[x]) /\ Taken(apps'[x])
    BY <2>1, <2>8, <2>10, RelaunchSame, RelaunchTakes
       DEF RelaunchKinds, PageRelaunchKinds
  <2>12. Finds(x, r.instance_id)' /\ Live(x)'
    BY <2>5, <2>9, <2>10, <2>11 DEF Finds, Live, SameApp
  <2>13. ~apps'[x].page.is_suspended
    BY <1>1, <2>6, <2>11, <2>12
       DEF AppsSound, Sound, AppInv, SuspendedUnderHidden, Taken
  <2>14. QED
    BY <2>6, <2>11, <2>12, <2>13
<1>2. IInv /\ IInv' /\ AppsSound' /\ [LunaNext]_lunaVars
      => [reply'.method = "launchApp" => \A r \in LaunchRequests :
            /\ reply' = Success("launchApp", r.app_id, r.instance_id)
            /\ IsRunningApp(r.instance_id)
            /\ KindOfRelaunch(r) # "ignore"
            /\ launchApp(r)
            => \E x \in Apps :
                 /\ Finds(x, r.instance_id)'
                 /\ ~apps'[x].hidden_window
                 /\ ~apps'[x].page.is_suspended
                 /\ \/ apps'[x].in_progress_relaunch
                    \/ apps'[x].page.has_been_shown
                    \/ apps'[x].page.request = "app"]_lunaVars
  BY <1>1 DEF Taken
<1>3. QED
  BY <1>2, ServiceInvariance, ServiceKeepsAppsSound, PTL DEF LunaSpec, RelaunchIsTaken

=============================================================================
