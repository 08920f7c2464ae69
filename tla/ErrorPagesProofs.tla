-------------------------- MODULE ErrorPagesProofs --------------------------
(***************************************************************************)
(* Proofs about ErrorPages, for any descriptions, languages, directories   *)
(* and displays, and any number of crashes and relaunches. Two inductive   *)
(* invariants beside the types: TrustInv knows what became of the trust    *)
(* level while a document is on its way, FailedInv that whatever asks for  *)
(* the error page, or tries again, has a url that failed. What is said of  *)
(* a description and of the search for the error page is proved of the     *)
(* operators themselves.                                                   *)
(***************************************************************************)
EXTENDS ErrorPages, SequenceTheorems, TLAPS

-----------------------------------------------------------------------------
(* Types.                                                                  *)

\* An unknown trust level counts as the default one.
LEMMA TrustLevelType ==
  ASSUME NEW json, NEW disk
  PROVE  FromJsonString(json, disk).trust_level \in TrustLevels
BY DEF FromJsonString, trust_level_, CheckTrustLevel, TrustLevels

\* The page an app is launched with is a file, a page on the web, or none.
LEMMA DefaultKindType ==
  ASSUME NEW json, NEW disk
  PROVE  DefaultKind(FromJsonString(json, disk)) \in {"local", "site", "none"}
BY DEF FromJsonString, EntryScheme, DefaultKind

LEMMA UrlsOfView ==
  ASSUME NEW v \in ViewType
  PROVE  GetUrl(v) \subseteq Urls
BY DEF GetUrl, ViewType, Urls

LEMMA LoadUrlType ==
  ASSUME NEW v \in ViewType, NEW url \in Urls
  PROVE  LoadUrl(v, url) \in ViewType
BY DEF LoadUrl, ViewType, Urls

LEMMA LoadErrorPageType ==
  ASSUME NEW v \in ViewType, NEW w \in LoadErrorPage(v)
  PROVE  w \in {v, LoadUrl(v, "error")}
BY DEF LoadErrorPage

LEMMA HandleLoadFailedType ==
  ASSUME NEW v \in ViewType, NEW code, NEW w \in HandleLoadFailed(v, code)
  PROVE  w \in {v, LoadUrl(v, "error")}
BY LoadErrorPageType DEF HandleLoadFailed

LEMMA TrustLevelAfterType ==
  ASSUME app \in AppType, page \in PageType, NEW is_error
  PROVE  TrustLevelAfter(is_error) \in TrustLevels
BY DEF TrustLevelAfter, AppType, PageType, TrustLevels

LEMMA InitTypes == Init => TypeOK
<1> SUFFICES ASSUME Init
             PROVE  TypeOK
  OBVIOUS
<1>1. desc \in DescType
  BY DEF Init, DescType
<1>2. app \in AppType
  BY DEF Init, AppType, TrustLevels
<1>3. host \in HostType
  <2>1. {0} \subseteq 0 .. MaxCrashes /\ {0} \subseteq 0 .. MaxRelaunches
    BY BoundsAssumption
  <2>2. {FALSE} \subseteq BOOLEAN
    OBVIOUS
  <2> QED
    BY <2>1, <2>2, Zenon DEF Init, HostType
<1>4. page \in PageType
  BY DEF Init, NewPage, PageType, Policies, TrustLevels, Urls
<1>5. view \in ViewType
  BY DEF Init, NewView, ViewType, TrustLevels, Urls
<1> QED
  BY <1>1, <1>2, <1>3, <1>4, <1>5 DEF TypeOK

LEMMA LaunchTypes == TypeOK /\ Launch => TypeOK'
<1> SUFFICES ASSUME TypeOK, Launch
             PROVE  TypeOK'
  OBVIOUS
<1>1. desc' \in DescType /\ host' \in HostType
  BY DEF TypeOK, Launch, DescType
<1>2. CASE desc.json.is # "object" \/ Throws(desc.json)
  <2>1. app' \in AppType
    BY <1>2 DEF TypeOK, Launch, AppType
  <2> QED
    BY <1>1, <1>2, <2>1 DEF TypeOK, Launch
<1>3. CASE ~(desc.json.is # "object" \/ Throws(desc.json))
  <2> DEFINE d == FromJsonString(desc.json, desc.disk)
  <2>1. PICK params \in Params, preload \in BOOLEAN :
          LET default == IF params = "openwindow" THEN "target" ELSE DefaultKind(d)
          IN  /\ app' = [status |-> "running", trust_level |-> d.trust_level,
                         handles_deeplinking |-> d.texts["deeplinkingParams"] # "",
                         default_url_ |-> default]
              /\ page' = [page EXCEPT !.trust_level_ = d.trust_level,
                                      !.is_preload_ = preload]
              /\ view' = Load(view, params, default)
    BY <1>3 DEF Launch
  <2>2. d.trust_level \in TrustLevels
    BY TrustLevelType
  <2>3. DefaultKind(d) \in {"local", "site", "none"}
    BY DefaultKindType
  <2> HIDE DEF d
  <2>4. app' \in AppType
    BY <2>1, <2>2, <2>3 DEF AppType
  <2>5. page' \in PageType
    BY <2>1, <2>2 DEF TypeOK, PageType
  <2>6. view' \in ViewType
    BY <2>1, <2>3, LoadUrlType DEF TypeOK, Load, Urls
  <2> QED
    BY <1>1, <2>4, <2>5, <2>6 DEF TypeOK
<1> QED
  BY <1>2, <1>3

LEMMA RelaunchTypes == TypeOK /\ Relaunch => TypeOK'
<1> SUFFICES ASSUME TypeOK, Relaunch
             PROVE  TypeOK'
  OBVIOUS
<1>1. host' \in HostType
  BY BoundsAssumption DEF TypeOK, Relaunch, HostType
<1>2. page' \in PageType
  BY DEF TypeOK, Relaunch, PageType
<1>3. view' \in {view, LoadUrl(view, "target"), LoadUrl(view, app.default_url_)}
  BY DEF Relaunch
<1>4. app.default_url_ \in Urls
  BY DEF TypeOK, AppType, Urls
<1>5. view' \in ViewType
  BY <1>3, <1>4, LoadUrlType DEF TypeOK, Urls
<1> QED
  BY <1>1, <1>2, <1>5 DEF TypeOK, Relaunch

\* What a failed load does to the view: nothing more is under way than the error
\* page or a load that is tried again.
LEMMA FailedView ==
  ASSUME TypeOK, NEW code, LoadFailed(code)
  PROVE  \/ /\ code = "network changed" /\ UNCHANGED page
            /\ \E url \in GetUrl(view) : view' = LoadUrl(view, url)
         \/ /\ code # "network changed"
            /\ page' = [page EXCEPT !.load_failed_url_ = view.loading]
            /\ view' \in {[view EXCEPT !.loading = "none"],
                          LoadUrl([view EXCEPT !.loading = "none"], "error")}
<1>1. [view EXCEPT !.loading = "none"] \in ViewType
  BY DEF TypeOK, ViewType, Urls
<1> QED
  BY <1>1, HandleLoadFailedType DEF LoadFailed, Reloaded

LEMMA LoadFailedTypes ==
  ASSUME TypeOK, NEW code, LoadFailed(code)
  PROVE  desc' \in DescType /\ app' \in AppType /\ page' \in PageType
           /\ view' \in ViewType
<1>1. desc' \in DescType
  BY DEF TypeOK, LoadFailed
<1>2. app' \in AppType
  <2>1. PICK status \in WebPageLoadFailed : app' = [app EXCEPT !.status = status]
    BY DEF LoadFailed
  <2>2. status \in {"running", "closed"}
    BY DEF WebPageLoadFailed
  <2> QED
    BY <2>1, <2>2 DEF TypeOK, AppType
<1>3. [view EXCEPT !.loading = "none"] \in ViewType
  BY DEF TypeOK, ViewType, Urls
<1>4. page' \in PageType
  <2>1. view.loading \in Urls
    BY DEF TypeOK, ViewType
  <2> QED
    BY <2>1, FailedView DEF TypeOK, PageType
<1>5. view' \in ViewType
  BY <1>3, FailedView, UrlsOfView, LoadUrlType DEF TypeOK, Urls
<1> QED
  BY <1>1, <1>2, <1>4, <1>5

LEMMA LoadFailsTypes == TypeOK /\ LoadFails => TypeOK'
<1> SUFFICES ASSUME TypeOK, LoadFails
             PROVE  TypeOK'
  OBVIOUS
<1>1. host' \in HostType
  BY DEF TypeOK, LoadFails, HostType
<1>2. \E code : LoadFailed(code)
  BY DEF LoadFails
<1> QED
  BY <1>1, <1>2, LoadFailedTypes DEF TypeOK

LEMMA LoadFinishedTypes == TypeOK /\ LoadFinished => TypeOK'
<1> SUFFICES ASSUME TypeOK, LoadFinished
             PROVE  TypeOK'
  OBVIOUS
<1> DEFINE is_error == view.url = "error"
<1> DEFINE trust == TrustLevelAfter(is_error)
<1>1. trust \in TrustLevels
  BY TrustLevelAfterType DEF TypeOK
<1>2. /\ page' = [UpdateIsLoadErrorPageFinish(page, is_error)
                    EXCEPT !.trust_level_ = trust]
      /\ view' = [UpdateExtensionData(view, trust) EXCEPT !.unfinished = FALSE]
      /\ UNCHANGED <<desc, app, host>>
  BY DEF LoadFinished
<1>3. is_error \in BOOLEAN
  OBVIOUS
<1> HIDE DEF trust, is_error
<1>4. page' \in PageType
  <2>1. page.net_error_reload_timer_ \in BOOLEAN
        /\ page.is_load_error_page_finish_ \in BOOLEAN
    BY DEF TypeOK, PageType
  <2>2. (is_error \/ (page.net_error_reload_timer_
                       /\ ~page.is_load_error_page_finish_)) \in BOOLEAN
    OBVIOUS
  <2> QED
    BY <1>1, <1>2, <1>3, <2>2, Zenon
    DEF TypeOK, PageType, UpdateIsLoadErrorPageFinish
<1>5. view' \in ViewType
  BY <1>1, <1>2 DEF TypeOK, ViewType, UpdateExtensionData
<1> QED
  BY <1>2, <1>4, <1>5 DEF TypeOK

\* The steps that change the view alone, or the host.
LEMMA OtherTypes ==
  TypeOK /\ (\/ StartNavigation \/ ScriptNavigates \/ Commit \/ ReloadTimerFires
             \/ NetworkChanges \/ UpdateNetworkStatus \/ SetLoadErrorPolicy
             \/ RenderProcessCrashed) => TypeOK'
<1> SUFFICES ASSUME TypeOK
             PROVE  (\/ StartNavigation \/ ScriptNavigates \/ Commit
                     \/ ReloadTimerFires \/ NetworkChanges \/ UpdateNetworkStatus
                     \/ SetLoadErrorPolicy \/ RenderProcessCrashed) => TypeOK'
  OBVIOUS
<1>1. CASE StartNavigation
  BY <1>1 DEF TypeOK, StartNavigation, ViewType, Urls
<1>2. CASE ScriptNavigates
  BY <1>2 DEF TypeOK, ScriptNavigates, ViewType, Urls
<1>3. CASE Commit
  BY <1>3 DEF TypeOK, Commit, ViewType, PageType, Urls
<1>4. page.load_failed_url_ \in Urls /\ app.default_url_ \in Urls
  BY DEF TypeOK, PageType, AppType, Urls
<1>5. CASE ReloadTimerFires
  BY <1>4, <1>5, LoadUrlType DEF TypeOK, ReloadTimerFires
<1>6. CASE NetworkChanges
  BY <1>6 DEF TypeOK, NetworkChanges, HostType
<1>7. CASE UpdateNetworkStatus
  <2>1. host' \in HostType
    BY <1>7 DEF TypeOK, UpdateNetworkStatus, HostType
  <2>2. view' \in ViewType
    BY <1>4, <1>7, LoadUrlType DEF TypeOK, UpdateNetworkStatus
  <2> QED
    BY <1>7, <2>1, <2>2 DEF TypeOK, UpdateNetworkStatus
<1>8. CASE SetLoadErrorPolicy
  BY <1>8 DEF TypeOK, SetLoadErrorPolicy, PageType
<1>9. CASE RenderProcessCrashed
  <2>1. host' \in HostType
    BY <1>9, BoundsAssumption DEF TypeOK, RenderProcessCrashed, HostType
  <2>2. page' \in PageType
    BY <1>9 DEF TypeOK, RenderProcessCrashed, PageType, AppType
  <2>3. NewView \in ViewType
    BY DEF NewView, ViewType, TrustLevels, Urls
  <2>4. view' \in ViewType
    BY <1>4, <1>9, <2>3, LoadUrlType DEF RenderProcessCrashed
  <2> QED
    BY <1>9, <2>1, <2>2, <2>4 DEF TypeOK, RenderProcessCrashed
<1> QED
  BY <1>1, <1>2, <1>3, <1>5, <1>6, <1>7, <1>8, <1>9

LEMMA StepTypes == TypeOK /\ [Next]_vars => TypeOK'
<1> SUFFICES ASSUME TypeOK, [Next]_vars
             PROVE  TypeOK'
  OBVIOUS
<1>1. CASE Next
  BY <1>1, LaunchTypes, RelaunchTypes, LoadFailsTypes, LoadFinishedTypes, OtherTypes
  DEF Next
<1>2. CASE UNCHANGED vars
  BY <1>2 DEF vars, TypeOK
<1> QED
  BY <1>1, <1>2

\* Each variable has its type, for any description, trusted or not.
THEOREM ErrorPageTypes == Spec => []TypeOK
BY InitTypes, StepTypes, PTL DEF Spec

-----------------------------------------------------------------------------
(* The trust level while a document is on its way. It is the app's or the   *)
(* error page's; a document that is committed but not loaded may have that  *)
(* of the one before, and takes its own when it is loaded, which reaches    *)
(* its webOSSystem object because a committed one is initialized.           *)

TrustAgrees ==
  /\ page.trust_level_ = app.trust_level
  /\ view.extension = app.trust_level

TrustInv ==
  /\ app.status = "none" => view = NewView
  /\ Running => page.trust_level_ \in {app.trust_level, "trusted"}
  /\ view.unfinished => view.initialized_ /\ view.url # "none"
  /\ (Running /\ ~view.unfinished /\ OwnDocument) => TrustAgrees

\* A step that changes neither the app nor the document, and no trust level.
SameDocument ==
  /\ app'.status = "none" => UNCHANGED view /\ app.status = "none"
  /\ app'.status = "running" => app.status = "running"
  /\ app'.trust_level = app.trust_level
  /\ page'.trust_level_ = page.trust_level_
  /\ view'.url = view.url /\ view'.unfinished = view.unfinished
  /\ view'.initialized_ = view.initialized_ /\ view'.extension = view.extension

LEMMA SameDocumentTrust == TrustInv /\ SameDocument => TrustInv'
BY DEF TrustInv, TrustAgrees, SameDocument, Running, OwnDocument

\* What a load that is asked for leaves alone.
LEMMA LoadUrlKeeps ==
  ASSUME NEW v \in ViewType, NEW url
  PROVE  LET w == LoadUrl(v, url)
         IN  /\ w.url = v.url /\ w.unfinished = v.unfinished
             /\ w.initialized_ = v.initialized_ /\ w.extension = v.extension
             /\ w.request = url /\ w.loading = "none"
BY DEF LoadUrl, ViewType

\* A load that failed leaves the document as it was.
LEMMA LoadFailsSame == TypeOK /\ LoadFails => SameDocument
<1> SUFFICES ASSUME TypeOK, LoadFails
             PROVE  SameDocument
  OBVIOUS
<1>1. PICK code : LoadFailed(code)
  BY DEF LoadFails
<1>2. app'.status \in {"running", "closed"} /\ app'.trust_level = app.trust_level
  BY <1>1 DEF TypeOK, LoadFailed, WebPageLoadFailed, AppType
<1>3. page'.trust_level_ = page.trust_level_
  BY <1>1, FailedView DEF TypeOK, PageType
<1>4. [view EXCEPT !.loading = "none"] \in ViewType
  BY DEF TypeOK, ViewType, Urls
<1>5. /\ view'.url = view.url /\ view'.unfinished = view.unfinished
      /\ view'.initialized_ = view.initialized_
      /\ view'.extension = view.extension
  <2>1. CASE \E url \in GetUrl(view) : view' = LoadUrl(view, url)
    BY <2>1, LoadUrlKeeps DEF TypeOK
  <2>2. CASE view' \in {[view EXCEPT !.loading = "none"],
                        LoadUrl([view EXCEPT !.loading = "none"], "error")}
    BY <2>2, <1>4, LoadUrlKeeps DEF TypeOK, ViewType
  <2> QED
    BY <1>1, <2>1, <2>2, FailedView
<1> QED
  BY <1>2, <1>3, <1>5, LoadFailsTypes DEF SameDocument, LoadFails, Running

\* So do the steps that only ask for a load or begin one, and what is heard of
\* the network.
LEMMA OthersSame ==
  TypeOK /\ (\/ Relaunch \/ StartNavigation \/ ScriptNavigates \/ ReloadTimerFires
             \/ NetworkChanges \/ UpdateNetworkStatus \/ SetLoadErrorPolicy)
    => SameDocument
<1> SUFFICES ASSUME TypeOK
             PROVE  (\/ Relaunch \/ StartNavigation \/ ScriptNavigates
                     \/ ReloadTimerFires \/ NetworkChanges \/ UpdateNetworkStatus
                     \/ SetLoadErrorPolicy) => SameDocument
  OBVIOUS
<1>1. CASE Relaunch
  <2>1. view' \in {view, LoadUrl(view, "target"), LoadUrl(view, app.default_url_)}
    BY <1>1 DEF Relaunch
  <2>2. page'.trust_level_ = page.trust_level_
    BY <1>1 DEF Relaunch, TypeOK, PageType
  <2>3. /\ view'.url = view.url /\ view'.unfinished = view.unfinished
        /\ view'.initialized_ = view.initialized_
        /\ view'.extension = view.extension
    BY <2>1, LoadUrlKeeps DEF TypeOK
  <2> QED
    BY <1>1, <2>2, <2>3 DEF SameDocument, Relaunch, Running
<1>2. CASE StartNavigation
  BY <1>2 DEF SameDocument, StartNavigation, Running, TypeOK, ViewType
<1>3. CASE ScriptNavigates
  BY <1>3 DEF SameDocument, ScriptNavigates, Running, TypeOK, ViewType
<1>4. CASE ReloadTimerFires
  BY <1>4, LoadUrlKeeps DEF SameDocument, ReloadTimerFires, Running, TypeOK
<1>5. CASE NetworkChanges
  BY <1>5 DEF SameDocument, NetworkChanges, Running
<1>6. CASE UpdateNetworkStatus
  BY <1>6, LoadUrlKeeps DEF SameDocument, UpdateNetworkStatus, Running, TypeOK
<1>7. CASE SetLoadErrorPolicy
  BY <1>7 DEF SameDocument, SetLoadErrorPolicy, Running, TypeOK, PageType
<1> QED
  BY <1>1, <1>2, <1>3, <1>4, <1>5, <1>6, <1>7

\* The app is launched with its own trust level, and has no document yet.
LEMMA LaunchTrust == TypeOK /\ TrustInv /\ Launch => TrustInv'
<1> SUFFICES ASSUME TypeOK, TrustInv, Launch
             PROVE  TrustInv'
  OBVIOUS
<1>1. view = NewView
  BY DEF TrustInv, Launch
<1>2. CASE desc.json.is # "object" \/ Throws(desc.json)
  BY <1>1, <1>2 DEF Launch, TrustInv, TypeOK, AppType, NewView, Running
<1>3. CASE ~(desc.json.is # "object" \/ Throws(desc.json))
  <2> DEFINE d == FromJsonString(desc.json, desc.disk)
  <2> DEFINE trust == d.trust_level
  <2>1. PICK params \in Params, preload \in BOOLEAN :
          LET default == IF params = "openwindow" THEN "target" ELSE DefaultKind(d)
          IN  /\ app' = [status |-> "running", trust_level |-> trust,
                         handles_deeplinking |-> d.texts["deeplinkingParams"] # "",
                         default_url_ |-> default]
              /\ page' = [page EXCEPT !.trust_level_ = trust,
                                      !.is_preload_ = preload]
              /\ view' = Load(view, params, default)
    BY <1>3 DEF Launch
  <2> HIDE DEF d, trust
  <2>2. page'.trust_level_ = trust
    BY <2>1 DEF TypeOK, PageType
  <2>3. PICK url : view' = LoadUrl(view, url)
    BY <2>1 DEF Load
  <2>4. view'.url = "none" /\ ~view'.unfinished
    BY <1>1, <2>3, LoadUrlKeeps DEF TypeOK, NewView
  <2> QED
    BY <2>1, <2>2, <2>4 DEF TrustInv, Running, OwnDocument
<1> QED
  BY <1>2, <1>3

\* The new document is initialized, though maybe with the trust level of the one
\* before.
LEMMA CommitTrust == TypeOK /\ TrustInv /\ Commit => TrustInv'
BY DEF TypeOK, ViewType, TrustInv, Commit, Running, IsLocalFile, Scheme

\* Once a document of the app is loaded, page and document have the app's level.
LEMMA LoadFinishedTrust == TypeOK /\ TrustInv /\ LoadFinished => TrustInv'
<1> SUFFICES ASSUME TypeOK, TrustInv, LoadFinished
             PROVE  TrustInv'
  OBVIOUS
<1> DEFINE trust == TrustLevelAfter(view.url = "error")
<1>1. /\ page'.trust_level_ = trust
      /\ app' = app /\ view'.url = view.url /\ ~view'.unfinished
      /\ view.initialized_ => view'.extension = trust
  BY DEF LoadFinished, UpdateIsLoadErrorPageFinish, UpdateExtensionData, TypeOK,
         PageType, ViewType
<1>2. Running /\ view.initialized_
  BY DEF TrustInv, LoadFinished
<1>3. page.trust_level_ \in {app.trust_level, "trusted"}
  BY <1>2 DEF TrustInv
<1>4. trust \in {app.trust_level, "trusted"}
  BY <1>3 DEF TrustLevelAfter
<1>5. view.url # "error" => trust = app.trust_level
  BY <1>3 DEF TrustLevelAfter
<1> HIDE DEF trust
<1> QED
  BY <1>1, <1>2, <1>4, <1>5 DEF TrustInv, TrustAgrees, Running, OwnDocument

\* The page of a new renderer process has the properties it had at first.
LEMMA CrashTrust == TypeOK /\ TrustInv /\ RenderProcessCrashed => TrustInv'
<1> SUFFICES ASSUME TypeOK, TrustInv, RenderProcessCrashed
             PROVE  TrustInv'
  OBVIOUS
<1>1. NewView \in ViewType
  BY DEF NewView, ViewType, TrustLevels, Urls
<1>2. view'.url = "none" /\ ~view'.unfinished
  BY <1>1, LoadUrlKeeps DEF RenderProcessCrashed, NewView
<1>3. page'.trust_level_ = app.trust_level /\ app' = app /\ Running
  BY DEF RenderProcessCrashed, TypeOK, PageType
<1> QED
  BY <1>2, <1>3 DEF TrustInv, Running, OwnDocument

LEMMA StepTrust == TypeOK /\ TrustInv /\ [Next]_vars => TrustInv'
<1> SUFFICES ASSUME TypeOK, TrustInv, [Next]_vars
             PROVE  TrustInv'
  OBVIOUS
<1>1. CASE Next
  BY <1>1, LaunchTrust, CommitTrust, LoadFinishedTrust, CrashTrust,
     LoadFailsSame, OthersSame, SameDocumentTrust DEF Next
<1>2. CASE UNCHANGED vars
  BY <1>2 DEF vars, TrustInv, TrustAgrees, Running, OwnDocument
<1> QED
  BY <1>1, <1>2

\* The trust of the error page ends with it: a page of the app that is loaded has
\* the app's own trust level, in WAM and in its webOSSystem object, however many
\* error pages, reloads and crashes came before.
THEOREM TrustAlwaysReturns == Spec => []TrustReturns
<1>1. Init => TrustInv
  BY DEF Init, TrustInv, NewView, Running
<1>2. TrustInv => TrustReturns
  BY DEF TrustInv, TrustAgrees, TrustReturns, Quiet
<1> QED
  BY <1>1, <1>2, InitTypes, StepTypes, StepTrust, PTL DEF Spec

-----------------------------------------------------------------------------
(* What failed is known. Whoever shows the error page, asks for it or would *)
(* try again has a url that failed: a retry never asks for no url, which    *)
(* would end the load that is under way and begin none.                     *)

FailedInv ==
  (\/ "error" \in {view.request, view.loading, view.url}
   \/ page.net_error_reload_timer_ \/ page.is_load_error_page_finish_)
    => page.load_failed_url_ # "none"

\* A step that leaves the page's record of failures alone, and asks for no error
\* page but one that is there.
NoNewFailure ==
  /\ page'.load_failed_url_ = page.load_failed_url_
  /\ page'.net_error_reload_timer_ = page.net_error_reload_timer_
  /\ page'.is_load_error_page_finish_ = page.is_load_error_page_finish_
  /\ "error" \in {view'.request, view'.loading, view'.url} =>
       \/ "error" \in {view.request, view.loading, view.url}
       \/ page.load_failed_url_ # "none"

LEMMA NoNewFailureFailed == FailedInv /\ NoNewFailure => FailedInv'
BY DEF FailedInv, NoNewFailure

\* The app is launched with a page of its own or a deep link, never with the
\* error page.
LEMMA LaunchNoFailure == TypeOK /\ TrustInv /\ Launch => NoNewFailure
<1> SUFFICES ASSUME TypeOK, TrustInv, Launch
             PROVE  NoNewFailure
  OBVIOUS
<1>1. view = NewView
  BY DEF TrustInv, Launch
<1>2. CASE desc.json.is # "object" \/ Throws(desc.json)
  BY <1>2 DEF Launch, NoNewFailure
<1>3. CASE ~(desc.json.is # "object" \/ Throws(desc.json))
  <2> DEFINE d == FromJsonString(desc.json, desc.disk)
  <2> DEFINE trust == d.trust_level
  <2>1. PICK params \in Params, preload \in BOOLEAN :
          /\ page' = [page EXCEPT !.trust_level_ = trust, !.is_preload_ = preload]
          /\ view' = Load(view, params,
                          IF params = "openwindow" THEN "target" ELSE DefaultKind(d))
    BY <1>3 DEF Launch
  <2>2. DefaultKind(d) \in {"local", "site", "none"}
    BY DefaultKindType
  <2> HIDE DEF d, trust
  <2>3. PICK url \in {"target", "local", "site", "none"} : view' = LoadUrl(view, url)
    BY <2>1, <2>2 DEF Load
  <2>4. "error" \notin {view'.request, view'.loading, view'.url}
    BY <1>1, <2>3, LoadUrlKeeps DEF TypeOK, NewView
  <2>5. /\ page'.load_failed_url_ = page.load_failed_url_
        /\ page'.net_error_reload_timer_ = page.net_error_reload_timer_
        /\ page'.is_load_error_page_finish_ = page.is_load_error_page_finish_
    BY <2>1 DEF TypeOK, PageType
  <2> QED
    BY <2>4, <2>5 DEF NoNewFailure
<1> QED
  BY <1>2, <1>3

\* The error page is asked for when the url that failed is recorded.
LEMMA LoadFailsFailed == TypeOK /\ FailedInv /\ LoadFails => FailedInv'
<1> SUFFICES ASSUME TypeOK, FailedInv, LoadFails
             PROVE  FailedInv'
  OBVIOUS
<1>1. PICK code : LoadFailed(code) /\ view.loading # "none"
  BY DEF LoadFails, Scheme
<1>2. CASE /\ UNCHANGED page
           /\ \E url \in GetUrl(view) : view' = LoadUrl(view, url)
  <2>1. PICK url \in GetUrl(view) : view' = LoadUrl(view, url)
    BY <1>2
  <2>2. url = "error" => "error" \in {view.request, view.loading, view.url}
    BY DEF GetUrl
  <2>3. view'.url = view.url /\ view'.request = url /\ view'.loading = "none"
    BY <2>1, LoadUrlKeeps DEF TypeOK
  <2> QED
    BY <1>2, <2>2, <2>3 DEF FailedInv
<1>3. CASE page' = [page EXCEPT !.load_failed_url_ = view.loading]
  <2>1. page'.load_failed_url_ = view.loading
    BY <1>3 DEF TypeOK, PageType
  <2> QED
    BY <1>1, <2>1 DEF FailedInv
<1> QED
  BY <1>1, <1>2, <1>3, FailedView

\* The reload timer is started by an error page, which has been asked for.
LEMMA LoadFinishedFailed == TypeOK /\ FailedInv /\ LoadFinished => FailedInv'
BY DEF TypeOK, PageType, ViewType, FailedInv, LoadFinished,
       UpdateIsLoadErrorPageFinish, UpdateExtensionData

LEMMA OthersNoFailure ==
  TypeOK /\ (\/ Relaunch \/ StartNavigation \/ ScriptNavigates \/ Commit
             \/ NetworkChanges \/ SetLoadErrorPolicy \/ RenderProcessCrashed)
    => NoNewFailure
<1> SUFFICES ASSUME TypeOK
             PROVE  (\/ Relaunch \/ StartNavigation \/ ScriptNavigates \/ Commit
                     \/ NetworkChanges \/ SetLoadErrorPolicy
                     \/ RenderProcessCrashed) => NoNewFailure
  OBVIOUS
<1>1. app.default_url_ # "error"
  BY DEF TypeOK, AppType
<1>2. CASE Relaunch
  <2>1. view' \in {view, LoadUrl(view, "target"), LoadUrl(view, app.default_url_)}
    BY <1>2 DEF Relaunch
  <2>2. "error" \in {view'.request, view'.loading, view'.url} =>
          "error" \in {view.request, view.loading, view.url}
    BY <1>1, <2>1, LoadUrlKeeps DEF TypeOK
  <2> QED
    BY <1>2, <2>2 DEF Relaunch, NoNewFailure, TypeOK, PageType
<1>3. CASE StartNavigation
  BY <1>3 DEF StartNavigation, NoNewFailure, TypeOK, ViewType
<1>4. CASE ScriptNavigates
  BY <1>4 DEF ScriptNavigates, NoNewFailure, OwnDocument, TypeOK, ViewType
<1>5. CASE Commit
  BY <1>5 DEF Commit, NoNewFailure, TypeOK, ViewType
<1>6. CASE NetworkChanges
  BY <1>6 DEF NetworkChanges, NoNewFailure
<1>7. CASE SetLoadErrorPolicy
  BY <1>7 DEF SetLoadErrorPolicy, NoNewFailure, TypeOK, PageType
<1>8. CASE RenderProcessCrashed
  <2>1. NewView \in ViewType
    BY DEF NewView, ViewType, TrustLevels, Urls
  <2>2. "error" \notin {view'.request, view'.loading, view'.url}
    BY <1>1, <1>8, <2>1, LoadUrlKeeps DEF RenderProcessCrashed, NewView
  <2> QED
    BY <1>8, <2>2 DEF RenderProcessCrashed, NoNewFailure, TypeOK, PageType
<1> QED
  BY <1>2, <1>3, <1>4, <1>5, <1>6, <1>7, <1>8

\* A retry asks for what failed, which may be the error page itself.
LEMMA RetriesNoFailure ==
  TypeOK /\ FailedInv /\ (ReloadTimerFires \/ UpdateNetworkStatus) => NoNewFailure
<1> SUFFICES ASSUME TypeOK, FailedInv
             PROVE  ReloadTimerFires \/ UpdateNetworkStatus => NoNewFailure
  OBVIOUS
<1>1. CASE ReloadTimerFires
  BY <1>1, LoadUrlKeeps DEF ReloadTimerFires, NoNewFailure, FailedInv, TypeOK
<1>2. CASE UpdateNetworkStatus
  BY <1>2, LoadUrlKeeps DEF UpdateNetworkStatus, NoNewFailure, FailedInv, TypeOK
<1> QED
  BY <1>1, <1>2

LEMMA StepFailed == TypeOK /\ TrustInv /\ FailedInv /\ [Next]_vars => FailedInv'
<1> SUFFICES ASSUME TypeOK, TrustInv, FailedInv, [Next]_vars
             PROVE  FailedInv'
  OBVIOUS
<1>1. CASE Next
  BY <1>1, LaunchNoFailure, LoadFailsFailed, LoadFinishedFailed, OthersNoFailure,
     RetriesNoFailure, NoNewFailureFailed DEF Next
<1>2. CASE UNCHANGED vars
  BY <1>2 DEF vars, FailedInv
<1> QED
  BY <1>1, <1>2

-----------------------------------------------------------------------------
(* No app without a document.                                              *)

\* No document, and none on its way: what NeverBlank excludes but for the excuses.
Blank == Running /\ Quiet /\ view.url = "none" /\ app.default_url_ # "none"

Excused ==
  \/ page.load_error_policy_ = "event"
  \/ page.load_failed_url_ = "mail"
  \/ \E tag \in Tags : Found(tag, host.files) = {}

\* A load that fails for an app that shows nothing yet ends at the error page.
LEMMA LoadFailsBlank == TypeOK /\ LoadFails /\ Blank' => Excused'
<1> SUFFICES ASSUME TypeOK, LoadFails, Blank'
             PROVE  Excused'
  OBVIOUS
<1>1. host'.files = host.files
  BY DEF LoadFails, TypeOK, HostType
<1>2. PICK code :
        /\ LoadFailed(code) /\ view.loading # "none"
        /\ code = "no content" => view.loading = "mail"
  <2>1. view.loading \in Urls
    BY DEF TypeOK, ViewType
  <2>2. PICK code : /\ LoadFailed(code)
                    /\ code = "no content" => Scheme(view.loading) = "mailto"
                    /\ Scheme(view.loading) \in {"mailto", "https"}
    BY DEF LoadFails
  <2>3. /\ Scheme(view.loading) = "mailto" => view.loading = "mail"
        /\ Scheme(view.loading) \in {"mailto", "https"} => view.loading # "none"
    BY <2>1 DEF Scheme, Urls
  <2> QED
    BY <2>2, <2>3
<1>3. app'.status = "running" /\ view'.request = "none" /\ view'.url = "none"
  BY DEF Blank, Running, Quiet
<1> DEFINE failed == [view EXCEPT !.loading = "none"]
<1>4. failed \in ViewType /\ failed.url = view.url
  BY DEF TypeOK, ViewType, Urls
<1>5. CASE code = "network changed"
  <2>1. PICK url \in GetUrl(view) : view' = LoadUrl(view, url)
    BY <1>2, <1>5, FailedView
  <2>2. url # "none"
    <3> DEFINE urls == {view.url, view.request, view.loading} \ {"none"}
    <3>1. view.loading \in urls
      BY <1>2
    <3>2. GetUrl(view) = urls
      BY <3>1 DEF GetUrl
    <3> QED
      BY <3>2
  <2> QED
    BY <1>3, <2>1, <2>2, LoadUrlKeeps DEF TypeOK
<1>6. CASE code # "network changed"
  <2>1. /\ page' = [page EXCEPT !.load_failed_url_ = view.loading]
        /\ view' \in HandleLoadFailed(failed, code)
    BY <1>2, <1>6 DEF LoadFailed
  <2>2. /\ page'.load_error_policy_ = page.load_error_policy_
        /\ page'.load_failed_url_ = view.loading
    BY <2>1 DEF TypeOK, PageType
  <2>3. view' \in {failed, LoadUrl(failed, "error")}
    BY <1>4, <2>1, HandleLoadFailedType
  <2> HIDE DEF failed
  <2>4. view' = failed /\ view.url = "none"
    BY <1>3, <1>4, <2>3, LoadUrlKeeps
  <2>5. ~page.is_preload_
    BY <1>2, <1>3, <2>4
    DEF LoadFailed, WebPageLoadFailed, OwnDocument, TypeOK, AppType
  <2>6. CASE code = "no content"
    BY <1>2, <2>2, <2>6 DEF Excused
  <2>7. CASE code # "no content"
    <3>1. view' \in LoadErrorPage(failed)
      BY <2>1, <2>5, <2>7 DEF HandleLoadFailed
    <3>2. failed # LoadUrl(failed, "error")
      BY <1>3, <1>4, <2>4, LoadUrlKeeps
    <3> QED
      BY <1>1, <2>2, <2>4, <3>1, <3>2 DEF LoadErrorPage, Excused
  <2> QED
    BY <2>6, <2>7
<1> QED
  BY <1>5, <1>6

\* A launch, a relaunch and a crash: what is asked for is a url.
LEMMA LaunchesBlank ==
  TypeOK /\ (Launch \/ RenderProcessCrashed) => ~Blank'
<1> SUFFICES ASSUME TypeOK
             PROVE  Launch \/ RenderProcessCrashed => ~Blank'
  OBVIOUS
<1>1. CASE Launch
  <2>1. CASE desc.json.is # "object" \/ Throws(desc.json)
    BY <1>1, <2>1 DEF Launch, Blank, Running, TypeOK, AppType
  <2>2. CASE ~(desc.json.is # "object" \/ Throws(desc.json))
    <3> DEFINE d == FromJsonString(desc.json, desc.disk)
    <3> DEFINE default(params) ==
          IF params = "openwindow" THEN "target" ELSE DefaultKind(d)
    <3>1. PICK params \in Params :
            /\ app' = [status |-> "running", trust_level |-> d.trust_level,
                       handles_deeplinking |-> d.texts["deeplinkingParams"] # "",
                       default_url_ |-> default(params)]
            /\ view' = Load(view, params, default(params))
      BY <1>1, <2>2 DEF Launch
    <3> HIDE DEF d, default
    <3>2. app'.default_url_ = default(params)
      BY <3>1
    <3>3. PICK url \in {"target", default(params)} : view' = LoadUrl(view, url)
      BY <3>1 DEF Load
    <3> QED
      BY <3>2, <3>3, LoadUrlKeeps DEF TypeOK, Blank, Quiet
  <2> QED
    BY <2>1, <2>2
<1>2. CASE RenderProcessCrashed
  <2>1. NewView \in ViewType
    BY DEF NewView, ViewType, TrustLevels, Urls
  <2> QED
    BY <1>2, <2>1, LoadUrlKeeps DEF RenderProcessCrashed, Blank, Quiet
<1> QED
  BY <1>1, <1>2

\* The course of a load, and a retry: a document is there, or on its way.
LEMMA LoadsBlank ==
  TypeOK /\ TrustInv /\ FailedInv
    /\ (StartNavigation \/ ScriptNavigates \/ Commit \/ LoadFinished
          \/ ReloadTimerFires \/ SetLoadErrorPolicy) => ~Blank'
<1> SUFFICES ASSUME TypeOK, TrustInv, FailedInv
             PROVE  StartNavigation \/ ScriptNavigates \/ Commit \/ LoadFinished
                      \/ ReloadTimerFires \/ SetLoadErrorPolicy => ~Blank'
  OBVIOUS
<1>1. CASE StartNavigation
  BY <1>1 DEF StartNavigation, Blank, Quiet, TypeOK, ViewType
<1>2. CASE ScriptNavigates
  BY <1>2 DEF ScriptNavigates, OwnDocument, Blank, TypeOK, ViewType
<1>3. CASE Commit
  BY <1>3 DEF Commit, IsLocalFile, Scheme, Blank, TypeOK, ViewType
<1>4. CASE LoadFinished
  BY <1>4 DEF LoadFinished, TrustInv, Blank, TypeOK, ViewType, UpdateExtensionData
<1>5. CASE ReloadTimerFires
  BY <1>5, LoadUrlKeeps DEF ReloadTimerFires, FailedInv, Blank, Quiet, TypeOK
<1>6. CASE SetLoadErrorPolicy
  BY <1>6 DEF SetLoadErrorPolicy, OwnDocument, Blank
<1> QED
  BY <1>1, <1>2, <1>3, <1>4, <1>5, <1>6

\* The steps that may leave an app as blank as it was, with the same excuse.
LEMMA OthersBlank ==
  TypeOK /\ FailedInv /\ Blank'
    /\ (Relaunch \/ NetworkChanges \/ UpdateNetworkStatus)
    => Blank /\ (Excused => Excused')
<1> SUFFICES ASSUME TypeOK, FailedInv, Blank'
             PROVE  Relaunch \/ NetworkChanges \/ UpdateNetworkStatus
                      => Blank /\ (Excused => Excused')
  OBVIOUS
<1>1. CASE Relaunch
  <2>1. \/ view' = view
        \/ \E url \in {"target", app.default_url_} : view' = LoadUrl(view, url)
    BY <1>1 DEF Relaunch
  <2>2. app' = app
    BY <1>1 DEF Relaunch
  <2>3. view' = view
    BY <2>1, <2>2, LoadUrlKeeps DEF TypeOK, Blank, Quiet
  <2>4. /\ page'.load_error_policy_ = page.load_error_policy_
        /\ page'.load_failed_url_ = page.load_failed_url_
        /\ host'.files = host.files
    BY <1>1 DEF Relaunch, TypeOK, PageType, HostType
  <2> QED
    BY <2>2, <2>3, <2>4 DEF Blank, Running, Quiet, Excused
<1>2. CASE NetworkChanges
  BY <1>2 DEF NetworkChanges, Blank, Running, Quiet, Excused, TypeOK, HostType
<1>3. CASE UpdateNetworkStatus
  <2>1. view' = view
    BY <1>3, LoadUrlKeeps DEF UpdateNetworkStatus, FailedInv, TypeOK, Blank, Quiet
  <2> QED
    BY <1>3, <2>1 DEF UpdateNetworkStatus, Blank, Running, Quiet, Excused, TypeOK,
                      HostType
<1> QED
  BY <1>1, <1>2, <1>3

LEMMA StepBlank ==
  TypeOK /\ TrustInv /\ FailedInv /\ NeverBlank /\ [Next]_vars => NeverBlank'
<1> SUFFICES ASSUME TypeOK, TrustInv, FailedInv, NeverBlank, [Next]_vars, Blank'
             PROVE  Excused'
  BY DEF NeverBlank, Blank, Excused
<1>1. CASE Next
  <2>1. CASE LoadFails
    BY <2>1, LoadFailsBlank
  <2>2. CASE Relaunch \/ NetworkChanges \/ UpdateNetworkStatus
    BY <2>2, OthersBlank DEF NeverBlank, Blank, Excused
  <2> QED
    BY <1>1, <2>1, <2>2, LaunchesBlank, LoadsBlank DEF Next
<1>2. CASE UNCHANGED vars
  BY <1>2 DEF vars, NeverBlank, Blank, Excused, Running, Quiet
<1> QED
  BY <1>1, <1>2

\* An app is not left without a document: a first load that fails, one that a
\* change of the network ended and the reload after a crash end at a page or at
\* the error page, if there is one and the app did not ask to be told instead.
THEOREM AppsAreNeverBlank == Spec => []NeverBlank
<1>1. Init => TrustInv /\ FailedInv /\ NeverBlank
  BY DEF Init, TrustInv, FailedInv, NeverBlank, NewView, NewPage, Running
<1> QED
  BY <1>1, InitTypes, StepTypes, StepTrust, StepFailed, StepBlank, PTL DEF Spec

-----------------------------------------------------------------------------
(* The search for the error page. A directory of the search is the one of   *)
(* the error page or the html of some subtags below it.                     *)

Html(subtags) == <<"resources">> \o subtags \o <<"html">>

Names == {"resources", "html"} \cup Languages \cup Scripts \cup Regions

\* Sequences of one and of two elements.
LEMMA ShortSequences ==
  ASSUME NEW S, NEW s \in Seq(S)
  PROVE  /\ Len(s) = 0 <=> s = <<>>
         /\ Len(s) = 1 => s = <<s[1]>>
         /\ Len(s) = 2 => s = <<s[1], s[2]>>
<1>1. Len(s) = 0 <=> s = <<>>
  OBVIOUS
<1>2. \A i \in 1 .. Len(s) : s[i] \in S
  OBVIOUS
<1>3. ASSUME Len(s) = 1
      PROVE  s = <<s[1]>>
  <2> DEFINE t == <<s[1]>>
  <2>1. s[1] \in S
    BY <1>2, <1>3
  <2>2. t \in Seq(S) /\ Len(t) = 1 /\ t[1] = s[1]
    BY <2>1
  <2> HIDE DEF t
  <2>3. s = t
    BY <1>3, <2>2, SeqEqual
  <2> QED
    BY <2>3 DEF t
<1>4. ASSUME Len(s) = 2
      PROVE  s = <<s[1], s[2]>>
  <2> DEFINE t == <<s[1], s[2]>>
  <2>1. s[1] \in S /\ s[2] \in S
    BY <1>2, <1>4
  <2>2. t \in Seq(S) /\ Len(t) = 2 /\ t[1] = s[1] /\ t[2] = s[2]
    BY <2>1
  <2> HIDE DEF t
  <2>3. s = t
    BY <1>4, <2>2, SeqEqual
  <2> QED
    BY <2>3 DEF t
<1> QED
  BY <1>1, <1>3, <1>4

LEMMA HtmlElements ==
  ASSUME NEW s \in Seq(Names)
  PROVE  /\ Html(s) \in Seq(Names)
         /\ Len(Html(s)) = Len(s) + 2
         /\ Html(s)[1] = "resources" /\ Html(s)[Len(s) + 2] = "html"
         /\ \A i \in 1 .. Len(s) : Html(s)[i + 1] = s[i]
<1> DEFINE first == <<"resources">> \o s
<1>1. <<"resources">> \in Seq(Names) /\ <<"html">> \in Seq(Names)
  BY DEF Names
<1>2. /\ first \in Seq(Names) /\ Len(first) = Len(s) + 1
      /\ first[1] = "resources"
      /\ \A i \in 1 .. Len(s) : first[i + 1] = s[i]
  BY <1>1, ConcatProperties
<1>3. Html(s) = first \o <<"html">>
  BY DEF Html
<1> HIDE DEF first
<1> QED
  BY <1>1, <1>2, <1>3, ConcatProperties

LEMMA SubtagsOfHtml ==
  ASSUME NEW s \in Seq(Names)
  PROVE  Subtags(Html(s)) = s
<1> DEFINE h == Html(s)
<1>1. /\ h \in Seq(Names) /\ Len(h) = Len(s) + 2
      /\ \A i \in 1 .. Len(s) : h[i + 1] = s[i]
  BY HtmlElements
<1> HIDE DEF h
<1>2. CASE Len(s) = 0
  BY <1>1, <1>2, ShortSequences DEF Subtags, h
<1>3. CASE Len(s) > 0
  <2>1. Subtags(h) = SubSeq(h, 2, Len(h) - 1)
    BY <1>1, <1>3 DEF Subtags
  <2>2. \A i \in 2 .. Len(h) - 1 : h[i] \in Names
    BY <1>1
  <2>3. /\ Subtags(h) \in Seq(Names) /\ Len(Subtags(h)) = Len(s)
        /\ \A i \in 1 .. Len(s) : Subtags(h)[i] = h[i + 1]
    BY <1>1, <1>3, <2>1, <2>2, SubSeqProperties
  <2> QED
    BY <1>1, <2>3, SeqEqual DEF h
<1> QED
  BY <1>2, <1>3

\* Each directory but the first is the html of its subtags.
LEMMA DirectoryIsHtml ==
  ASSUME NEW d \in UNION FileSets, d # <<>>
  PROVE  Subtags(d) \in Seq(Names) /\ d = Html(Subtags(d))
<1>1. /\ d \in Seq(Names) /\ Len(d) > 1
      /\ d[1] = "resources" /\ d[Len(d)] = "html"
  BY DirectoriesAssumption DEF Names
<1> DEFINE s == Subtags(d)
<1>2. /\ s \in Seq(Names) /\ Len(s) = Len(d) - 2
      /\ \A i \in 1 .. Len(s) : s[i] = d[i + 1]
  <2>1. CASE Len(d) > 2
    <3>1. \A i \in 2 .. Len(d) - 1 : d[i] \in Names
      BY <1>1
    <3> QED
      BY <1>1, <2>1, <3>1, SubSeqProperties DEF Subtags
  <2>2. CASE Len(d) = 2
    <3>1. s = <<>>
      BY <2>2 DEF Subtags
    <3> HIDE DEF s
    <3>2. s \in Seq(Names) /\ Len(s) = 0
      BY <3>1
    <3> QED
      BY <2>2, <3>2
  <2>3. Len(d) > 2 \/ Len(d) = 2
    BY <1>1
  <2> QED
    BY <2>1, <2>2, <2>3, Zenon
<1> HIDE DEF s
<1>3. /\ Html(s) \in Seq(Names) /\ Len(Html(s)) = Len(d)
      /\ Html(s)[1] = d[1] /\ Html(s)[Len(d)] = d[Len(d)]
      /\ \A i \in 1 .. Len(s) : Html(s)[i + 1] = d[i + 1]
  <2>1. /\ Html(s) \in Seq(Names) /\ Len(Html(s)) = Len(s) + 2
        /\ Html(s)[1] = "resources" /\ Html(s)[Len(s) + 2] = "html"
        /\ \A i \in 1 .. Len(s) : Html(s)[i + 1] = s[i]
    BY <1>2, HtmlElements
  <2>2. Len(s) + 2 = Len(d)
    BY <1>1, <1>2
  <2> QED
    BY <1>1, <1>2, <2>1, <2>2
<1>4. \A i \in 1 .. Len(d) : Html(s)[i] = d[i]
  <2> TAKE i \in 1 .. Len(d)
  <2>1. CASE i = 1 \/ i = Len(d)
    BY <1>3, <2>1
  <2>2. CASE i - 1 \in 1 .. Len(s)
    <3>1. Html(s)[(i - 1) + 1] = d[(i - 1) + 1]
      BY <1>3, <2>2
    <3>2. (i - 1) + 1 = i
      OBVIOUS
    <3> QED
      BY <3>1, <3>2
  <2> QED
    BY <1>1, <1>2, <2>1, <2>2
<1> QED
  BY <1>1, <1>2, <1>3, <1>4, SeqEqual DEF s

\* The least of some places among the first five.
LEMMA LeastPlace ==
  ASSUME NEW places \in SUBSET (1 .. 5), places # {}
  PROVE  \E k \in places : \A j \in places : k <= j
<1>1. CASE 1 \in places
  BY <1>1
<1>2. CASE 1 \notin places /\ 2 \in places
  BY <1>2
<1>3. CASE 1 \notin places /\ 2 \notin places /\ 3 \in places
  BY <1>3
<1>4. CASE 1 \notin places /\ 2 \notin places /\ 3 \notin places /\ 4 \in places
  BY <1>4
<1>5. CASE /\ 1 \notin places /\ 2 \notin places
           /\ 3 \notin places /\ 4 \notin places
  <2>1. \A j \in places : j \in 1 .. 5 /\ j \notin {1, 2, 3, 4}
    BY <1>5
  <2>2. \A j \in places : j = 5
    BY <2>1
  <2>3. PICK k \in places : TRUE
    OBVIOUS
  <2> QED
    BY <2>2, <2>3
<1> QED
  BY <1>1, <1>2, <1>3, <1>4, <1>5

\* What the search should find: nothing if nothing serves the tag, and else a page
\* for as many subtags as any that does.
Nearest(tag, files) ==
  LET serving == {d \in files : Serves(d, tag)}
  IN  /\ Found(tag, files) = {} <=> serving = {}
      /\ \A d \in Found(tag, files), e \in serving :
           Len(Subtags(d)) >= Len(Subtags(e))

\* A search through the pages that serve a tag, those for more subtags first,
\* finds one that is for the most.
LEMMA SearchFindsNearest ==
  ASSUME NEW tag, NEW files,
         DOMAIN GetErrorPagePaths(tag) \subseteq 1 .. 5,
         \A d \in files : Serves(d, tag) <=>
           \E i \in DOMAIN GetErrorPagePaths(tag) : d = GetErrorPagePaths(tag)[i],
         \A i, j \in DOMAIN GetErrorPagePaths(tag) : i <= j =>
           Len(Subtags(GetErrorPagePaths(tag)[i]))
             >= Len(Subtags(GetErrorPagePaths(tag)[j]))
  PROVE  Nearest(tag, files)
<1> DEFINE paths == GetErrorPagePaths(tag)
<1> DEFINE exist == {i \in DOMAIN paths : paths[i] \in files}
<1> DEFINE least == {k \in exist : \A j \in exist : k <= j}
<1> DEFINE serving == {d \in files : Serves(d, tag)}
<1>1. Found(tag, files) = {paths[i] : i \in least}
  BY DEF Found
<1>2. exist \subseteq DOMAIN paths /\ exist \subseteq 1 .. 5
  OBVIOUS
<1>3. exist # {} => least # {}
  BY <1>2, LeastPlace
<1>4. serving = {paths[i] : i \in exist}
  OBVIOUS
<1>5. least \subseteq exist
  OBVIOUS
<1>6. \A i \in least, j \in exist : Len(Subtags(paths[i])) >= Len(Subtags(paths[j]))
  BY <1>2
<1> HIDE DEF paths, exist, least, serving
<1>7. Found(tag, files) = {} <=> serving = {}
  <2>1. Found(tag, files) = {} <=> least = {}
    BY <1>1
  <2>2. serving = {} <=> exist = {}
    BY <1>4
  <2>3. exist = {} => least = {}
    BY <1>5
  <2> QED
    BY <1>3, <2>1, <2>2, <2>3
<1>8. \A d \in Found(tag, files), e \in serving : Len(Subtags(d)) >= Len(Subtags(e))
  BY <1>1, <1>4, <1>6
<1> QED
  BY <1>7, <1>8 DEF serving, Nearest

\* What a concatenation is, by its elements; and those of a few short sequences.
LEMMA IsConcat ==
  ASSUME NEW S, NEW s \in Seq(S), NEW t \in Seq(S), NEW u \in Seq(S),
         Len(u) = Len(s) + Len(t),
         \A i \in 1 .. Len(s) : u[i] = s[i],
         \A i \in 1 .. Len(t) : u[Len(s) + i] = t[i]
  PROVE  s \o t = u
<1>1. /\ s \o t \in Seq(S) /\ Len(s \o t) = Len(u)
      /\ \A i \in 1 .. Len(u) : (s \o t)[i] =
           IF i <= Len(s) THEN s[i] ELSE t[i - Len(s)]
  BY ConcatProperties
<1>2. \A i \in 1 .. Len(u) : (s \o t)[i] = u[i]
  <2> TAKE i \in 1 .. Len(u)
  <2>1. CASE i <= Len(s)
    BY <1>1, <2>1
  <2>2. CASE i > Len(s)
    <3>1. i - Len(s) \in 1 .. Len(t) /\ Len(s) + (i - Len(s)) = i
      BY <2>2
    <3>2. u[Len(s) + (i - Len(s))] = t[i - Len(s)]
      BY <3>1
    <3> QED
      BY <1>1, <2>2, <3>1, <3>2
  <2> QED
    BY <2>1, <2>2
<1> QED
  BY <1>1, <1>2, SeqEqual

LEMMA ConcatOfNone ==
  ASSUME NEW a
  PROVE  <<>> \o <<a>> = <<a>> /\ <<a>> \o <<>> = <<a>>
<1>1. <<a>> \in Seq({a})
  OBVIOUS
<1> QED
  BY <1>1, ConcatEmptySeq

LEMMA OneAndOne ==
  ASSUME NEW a, NEW b
  PROVE  <<a>> \o <<b>> = <<a, b>>
<1> DEFINE S == {a, b}
<1> DEFINE s == <<a>>
<1> DEFINE t == <<b>>
<1> DEFINE u == <<a, b>>
<1>1. s \in Seq(S) /\ t \in Seq(S) /\ u \in Seq(S)
  OBVIOUS
<1>2. Len(u) = Len(s) + Len(t)
  OBVIOUS
<1>3. \A i \in 1 .. Len(s) : u[i] = s[i]
  OBVIOUS
<1>4. \A i \in 1 .. Len(t) : u[Len(s) + i] = t[i]
  OBVIOUS
<1> HIDE DEF S, s, t, u
<1>5. s \o t = u
  BY <1>1, <1>2, <1>3, <1>4, IsConcat, Zenon
<1> QED
  BY <1>5 DEF s, t, u

LEMMA OneAndTwo ==
  ASSUME NEW a, NEW b, NEW c
  PROVE  <<a>> \o <<b, c>> = <<a, b, c>>
<1> DEFINE S == {a, b, c}
<1> DEFINE s == <<a>>
<1> DEFINE t == <<b, c>>
<1> DEFINE u == <<a, b, c>>
<1>1. s \in Seq(S) /\ t \in Seq(S) /\ u \in Seq(S)
  OBVIOUS
<1>2. Len(u) = Len(s) + Len(t)
  OBVIOUS
<1>3. \A i \in 1 .. Len(s) : u[i] = s[i]
  OBVIOUS
<1>4. \A i \in 1 .. Len(t) : u[Len(s) + i] = t[i]
  OBVIOUS
<1> HIDE DEF S, s, t, u
<1>5. s \o t = u
  BY <1>1, <1>2, <1>3, <1>4, IsConcat, Zenon
<1> QED
  BY <1>5 DEF s, t, u

LEMMA TwoAndOne ==
  ASSUME NEW a, NEW b, NEW c
  PROVE  <<a, b>> \o <<c>> = <<a, b, c>>
<1> DEFINE S == {a, b, c}
<1> DEFINE s == <<a, b>>
<1> DEFINE t == <<c>>
<1> DEFINE u == <<a, b, c>>
<1>1. s \in Seq(S) /\ t \in Seq(S) /\ u \in Seq(S)
  OBVIOUS
<1>2. Len(u) = Len(s) + Len(t)
  OBVIOUS
<1>3. \A i \in 1 .. Len(s) : u[i] = s[i]
  OBVIOUS
<1>4. \A i \in 1 .. Len(t) : u[Len(s) + i] = t[i]
  OBVIOUS
<1> HIDE DEF S, s, t, u
<1>5. s \o t = u
  BY <1>1, <1>2, <1>3, <1>4, IsConcat, Zenon
<1> QED
  BY <1>5 DEF s, t, u

LEMMA TwoAndTwo ==
  ASSUME NEW a, NEW b, NEW c, NEW d
  PROVE  <<a, b>> \o <<c, d>> = <<a, b, c, d>>
<1> DEFINE S == {a, b, c, d}
<1> DEFINE s == <<a, b>>
<1> DEFINE t == <<c, d>>
<1> DEFINE u == <<a, b, c, d>>
<1>1. s \in Seq(S) /\ t \in Seq(S) /\ u \in Seq(S)
  OBVIOUS
<1>2. Len(u) = Len(s) + Len(t)
  OBVIOUS
<1>3. \A i \in 1 .. Len(s) : u[i] = s[i]
  OBVIOUS
<1>4. \A i \in 1 .. Len(t) : u[Len(s) + i] = t[i]
  OBVIOUS
<1> HIDE DEF S, s, t, u
<1>5. s \o t = u
  BY <1>1, <1>2, <1>3, <1>4, IsConcat, Zenon
<1> QED
  BY <1>5 DEF s, t, u

LEMMA ThreeAndTwo ==
  ASSUME NEW a, NEW b, NEW c, NEW d, NEW e
  PROVE  <<a, b, c>> \o <<d, e>> = <<a, b, c, d, e>>
<1> DEFINE S == {a, b, c, d, e}
<1> DEFINE s == <<a, b, c>>
<1> DEFINE t == <<d, e>>
<1> DEFINE u == <<a, b, c, d, e>>
<1>1. s \in Seq(S) /\ t \in Seq(S) /\ u \in Seq(S)
  OBVIOUS
<1>2. Len(u) = Len(s) + Len(t)
  OBVIOUS
<1>3. \A i \in 1 .. Len(s) : u[i] = s[i]
  OBVIOUS
<1>4. \A i \in 1 .. Len(t) : u[Len(s) + i] = t[i]
  OBVIOUS
<1> HIDE DEF S, s, t, u
<1>5. s \o t = u
  BY <1>1, <1>2, <1>3, <1>4, IsConcat, Zenon
<1> QED
  BY <1>5 DEF s, t, u

\* Those that make up a tag, and the places of a search.
LEMMA TagOfTwo ==
  ASSUME NEW a, NEW b
  PROVE  /\ <<a>> \o <<>> \o <<>> = <<a>>
         /\ <<a>> \o <<>> \o <<b>> = <<a, b>>
         /\ <<a>> \o <<b>> \o <<>> = <<a, b>>
<1>1. <<a, b>> \in Seq({a, b})
  OBVIOUS
<1>2. <<a, b>> \o <<>> = <<a, b>>
  BY <1>1, ConcatEmptySeq
<1> QED
  BY <1>2, ConcatOfNone, OneAndOne, Zenon

LEMMA TagOfThree ==
  ASSUME NEW a, NEW b, NEW c
  PROVE  <<a>> \o <<b>> \o <<c>> = <<a, b, c>>
<1>1. <<a>> \o <<b>> = <<a, b>>
  BY OneAndOne
<1>2. <<a, b>> \o <<c>> = <<a, b, c>>
  BY TwoAndOne
<1> QED
  BY <1>1, <1>2, Zenon

LEMMA PlacesOfOne ==
  ASSUME NEW a, NEW b, NEW c
  PROVE  (<<>> \o <<>> \o <<a>>) \o <<b, c>> = <<a, b, c>>
<1>1. <<>> \o <<>> = <<>>
  OBVIOUS
<1> QED
  BY <1>1, ConcatOfNone, OneAndTwo, Zenon

LEMMA PlacesOfTwo ==
  ASSUME NEW a, NEW b, NEW c, NEW d
  PROVE  /\ (<<>> \o <<a>> \o <<b>>) \o <<c, d>> = <<a, b, c, d>>
         /\ (<<a>> \o <<>> \o <<b>>) \o <<c, d>> = <<a, b, c, d>>
<1>1. <<a>> \o <<b>> = <<a, b>>
  BY OneAndOne
<1>2. <<a, b>> \o <<c, d>> = <<a, b, c, d>>
  BY TwoAndTwo, Zenon
<1>3. <<>> \o <<a>> = <<a>> /\ <<a>> \o <<>> = <<a>>
  BY ConcatOfNone
<1> QED
  BY <1>1, <1>2, <1>3, Zenon

LEMMA PlacesOfThree ==
  ASSUME NEW a, NEW b, NEW c, NEW d, NEW e
  PROVE  (<<a>> \o <<b>> \o <<c>>) \o <<d, e>> = <<a, b, c, d, e>>
<1>1. <<a, b, c>> \o <<d, e>> = <<a, b, c, d, e>>
  BY ThreeAndTwo, Zenon
<1>2. <<a>> \o <<b>> \o <<c>> = <<a, b, c>>
  BY TagOfThree, Zenon
<1> QED
  BY <1>1, <1>2, Zenon

\* The places of a search: without pieces, for a language alone, with one more
\* subtag, with script and region. The one for the script alone is never asked for
\* if there is a region.
LEMMA PathsOfNone ==
  ASSUME NEW tag, FromString(tag) = {}
  PROVE  GetErrorPagePaths(tag) = <<Html(<<>>), <<>>>>
BY DEF GetErrorPagePaths, Html

PlacesOf(tag, l) ==
  \/ /\ tag = <<l>>
     /\ GetErrorPagePaths(tag) = <<Html(<<l>>), Html(<<>>), <<>>>>
  \/ \E x \in Scripts \cup Regions :
       /\ tag = <<l, x>>
       /\ GetErrorPagePaths(tag) =
            <<Html(<<l, x>>), Html(<<l>>), Html(<<>>), <<>>>>
  \/ \E x \in Scripts, y \in Regions :
       /\ tag = <<l, x, y>>
       /\ GetErrorPagePaths(tag) =
            <<Html(<<l, x, y>>), Html(<<l, y>>), Html(<<l>>), Html(<<>>), <<>>>>

LEMMA PathsOfPieces ==
  ASSUME NEW tag, FromString(tag) # {}
  PROVE  \E l \in Languages : PlacesOf(tag, l)
<1> DEFINE p == CHOOSE p \in FromString(tag) : TRUE
<1> DEFINE l == p.language
<1>1. p \in FromString(tag)
  OBVIOUS
<1>2. /\ l \in Languages
      /\ p.script # "" => p.script \in Scripts
      /\ p.region # "" => p.region \in Regions
      /\ tag = <<l>> \o (IF p.script = "" THEN <<>> ELSE <<p.script>>)
                     \o (IF p.region = "" THEN <<>> ELSE <<p.region>>)
  BY <1>1 DEF FromString
<1>3. GetErrorPagePaths(tag) =
        ((IF p.script # "" THEN <<Html(tag)>> ELSE <<>>)
           \o (IF p.region # "" THEN <<Html(<<l, p.region>>)>> ELSE <<>>)
           \o <<Html(<<l>>)>>) \o <<Html(<<>>), <<>>>>
  BY DEF GetErrorPagePaths, Html
<1> HIDE DEF p, l
<1>4. CASE p.script = "" /\ p.region = ""
  <2>1. tag = <<l>>
    <3>1. tag = <<l>> \o <<>> \o <<>>
      BY <1>2, <1>4, Zenon
    <3> QED
      BY <3>1, TagOfTwo, Zenon
  <2>2. GetErrorPagePaths(tag) = <<Html(<<l>>), Html(<<>>), <<>>>>
    <3>1. GetErrorPagePaths(tag) =
            (<<>> \o <<>> \o <<Html(<<l>>)>>) \o <<Html(<<>>), <<>>>>
      BY <1>3, <1>4, Zenon
    <3> QED
      BY <3>1, PlacesOfOne, Zenon
  <2> QED
    BY <1>2, <2>1, <2>2 DEF PlacesOf
<1>5. CASE p.script = "" /\ p.region # ""
  <2>1. tag = <<l, p.region>>
    <3>1. tag = <<l>> \o <<>> \o <<p.region>>
      BY <1>2, <1>5, Zenon
    <3> QED
      BY <3>1, TagOfTwo, Zenon
  <2>2. GetErrorPagePaths(tag) =
          <<Html(<<l, p.region>>), Html(<<l>>), Html(<<>>), <<>>>>
    <3>1. GetErrorPagePaths(tag) =
            (<<>> \o <<Html(<<l, p.region>>)>> \o <<Html(<<l>>)>>)
              \o <<Html(<<>>), <<>>>>
      BY <1>3, <1>5, Zenon
    <3> QED
      BY <3>1, PlacesOfTwo, Zenon
  <2> QED
    BY <1>2, <1>5, <2>1, <2>2 DEF PlacesOf
<1>6. CASE p.script # "" /\ p.region = ""
  <2>1. tag = <<l, p.script>>
    <3>1. tag = <<l>> \o <<p.script>> \o <<>>
      BY <1>2, <1>6, Zenon
    <3> QED
      BY <3>1, TagOfTwo, Zenon
  <2>2. GetErrorPagePaths(tag) =
          <<Html(<<l, p.script>>), Html(<<l>>), Html(<<>>), <<>>>>
    <3>1. GetErrorPagePaths(tag) =
            (<<Html(tag)>> \o <<>> \o <<Html(<<l>>)>>) \o <<Html(<<>>), <<>>>>
      BY <1>3, <1>6, Zenon
    <3> QED
      BY <2>1, <3>1, PlacesOfTwo, Zenon
  <2> QED
    BY <1>2, <1>6, <2>1, <2>2 DEF PlacesOf
<1>7. CASE p.script # "" /\ p.region # ""
  <2>1. tag = <<l, p.script, p.region>>
    <3>1. tag = <<l>> \o <<p.script>> \o <<p.region>>
      BY <1>2, <1>7, Zenon
    <3> QED
      BY <3>1, TagOfThree, Zenon
  <2>2. GetErrorPagePaths(tag) =
          <<Html(<<l, p.script, p.region>>), Html(<<l, p.region>>), Html(<<l>>),
            Html(<<>>), <<>>>>
    <3>1. GetErrorPagePaths(tag) =
            (<<Html(tag)>> \o <<Html(<<l, p.region>>)>> \o <<Html(<<l>>)>>)
              \o <<Html(<<>>), <<>>>>
      BY <1>3, <1>7, Zenon
    <3> QED
      BY <2>1, <3>1, PlacesOfThree, Zenon
  <2> QED
    BY <1>2, <1>7, <2>1, <2>2 DEF PlacesOf
<1> QED
  BY <1>4, <1>5, <1>6, <1>7

\* The same by subtags: a search through the pages for a list of them, of which
\* those for more come first and the last is for none, and then through the
\* directory of the error page itself.
LEMMA ListFindsNearest ==
  ASSUME NEW tag, NEW files \in SUBSET UNION FileSets,
         NEW n \in 1 .. 4, NEW list, \A i \in 1 .. n : list[i] \in Seq(Names),
         \A i, j \in 1 .. n : i <= j => Len(list[i]) >= Len(list[j]),
         DOMAIN GetErrorPagePaths(tag) = 1 .. n + 1,
         \A i \in 1 .. n : GetErrorPagePaths(tag)[i] = Html(list[i]),
         GetErrorPagePaths(tag)[n + 1] = <<>>,
         \A d \in files : d # <<>> =>
           (Serves(d, tag) <=> \E i \in 1 .. n : Subtags(d) = list[i])
  PROVE  Nearest(tag, files)
<1> DEFINE paths == GetErrorPagePaths(tag)
<1>1. DOMAIN paths = 1 .. n + 1 /\ DOMAIN paths \subseteq 1 .. 5
  OBVIOUS
<1>2. \A i \in 1 .. n : paths[i] = Html(list[i]) /\ Subtags(paths[i]) = list[i]
  BY SubtagsOfHtml
<1>3. paths[n + 1] = <<>>
  OBVIOUS
<1>4. \A i \in 1 .. n + 1 : i \in 1 .. n \/ i = n + 1
  OBVIOUS
<1>5. \A i \in 1 .. n : i \in 1 .. n + 1
  OBVIOUS
<1>6. n + 1 \in 1 .. n + 1
  OBVIOUS
<1>7. Subtags(<<>>) = <<>> /\ Len(<<>>) = 0
  BY DEF Subtags
<1> HIDE DEF paths
<1>8. \A d \in files : Serves(d, tag) <=> \E i \in DOMAIN paths : d = paths[i]
  <2> TAKE d \in files
  <2>1. CASE d = <<>>
    <3>1. Serves(d, tag)
      BY <2>1 DEF Serves
    <3> QED
      BY <1>1, <1>3, <1>6, <2>1, <3>1
  <2>2. CASE d # <<>>
    <3>1. Subtags(d) \in Seq(Names) /\ d = Html(Subtags(d))
      BY <2>2, DirectoryIsHtml
    <3>2. ASSUME Serves(d, tag)
          PROVE  \E i \in DOMAIN paths : d = paths[i]
      <4>1. PICK i \in 1 .. n : Subtags(d) = list[i]
        BY <2>2, <3>2
      <4> QED
        BY <1>1, <1>2, <1>5, <3>1, <4>1
    <3>3. ASSUME NEW i \in DOMAIN paths, d = paths[i]
          PROVE  Serves(d, tag)
      <4>1. i \in 1 .. n
        BY <1>1, <1>3, <1>4, <2>2, <3>3
      <4>2. Subtags(d) = list[i]
        BY <1>2, <3>3, <4>1
      <4> QED
        BY <2>2, <4>1, <4>2
    <3> QED
      BY <3>2, <3>3
  <2> QED
    BY <2>1, <2>2
<1>9. \A i, j \in DOMAIN paths : i <= j =>
        Len(Subtags(paths[i])) >= Len(Subtags(paths[j]))
  <2> SUFFICES ASSUME NEW i \in 1 .. n + 1, NEW j \in 1 .. n + 1, i <= j
               PROVE  Len(Subtags(paths[i])) >= Len(Subtags(paths[j]))
    BY <1>1
  <2>1. CASE j \in 1 .. n
    <3>1. i \in 1 .. n
      BY <2>1
    <3>2. Len(list[i]) >= Len(list[j])
      BY <2>1, <3>1
    <3> QED
      BY <1>2, <2>1, <3>1, <3>2
  <2>2. CASE i \in 1 .. n /\ j = n + 1
    <3>1. Subtags(paths[i]) \in Seq(Names)
      BY <1>2, <2>2
    <3> QED
      BY <1>3, <1>7, <2>2, <3>1
  <2>3. CASE i = n + 1 /\ j = n + 1
    BY <1>3, <1>7, <2>3
  <2> QED
    BY <1>4, <2>1, <2>2, <2>3
<1> QED
  BY <1>1, <1>8, <1>9, SearchFindsNearest DEF paths

\* The subtags a page may be for if it serves a tag, one lemma for each form of a
\* tag.
LEMMA ServesNone ==
  ASSUME NEW tag, FromString(tag) = {}, NEW d \in UNION FileSets, d # <<>>
  PROVE  Serves(d, tag) <=> Subtags(d) = <<>>
BY DEF Serves

LEMMA ServesOne ==
  ASSUME NEW l, NEW tag, tag = <<l>>, FromString(tag) # {},
         NEW d \in UNION FileSets, d # <<>>
  PROVE  Serves(d, tag) <=> Subtags(d) \in {<<l>>, <<>>}
<1> DEFINE s == Subtags(d)
<1>1. s \in Seq(Names)
  BY DirectoryIsHtml
<1>2. Len(tag) = 1 /\ tag[1] = l
  OBVIOUS
<1>3. Len(s) = 1 => s = <<s[1]>>
  BY <1>1, ShortSequences
<1>4. s = tag => s[1] = tag[1]
  OBVIOUS
<1>5. s = <<l>> => Len(s) = 1
  OBVIOUS
<1>6. Serves(d, tag) <=> s = <<>> \/ (s[1] = tag[1] /\ (s = tag \/ Len(s) = 1))
  BY <1>2 DEF Serves
<1> HIDE DEF s
<1>7. Serves(d, tag) <=> s \in {<<l>>, <<>>}
  BY <1>2, <1>3, <1>4, <1>5, <1>6
<1> QED
  BY <1>7 DEF s

LEMMA ServesTwo ==
  ASSUME NEW l, NEW x, NEW tag, tag = <<l, x>>, FromString(tag) # {},
         NEW d \in UNION FileSets, d # <<>>
  PROVE  Serves(d, tag) <=> Subtags(d) \in {<<l, x>>, <<l>>, <<>>}
<1> DEFINE s == Subtags(d)
<1>1. s \in Seq(Names)
  BY DirectoryIsHtml
<1>2. Len(tag) = 2 /\ tag[1] = l
  OBVIOUS
<1>3. Len(s) = 1 => s = <<s[1]>>
  BY <1>1, ShortSequences
<1>4. s = <<l>> => Len(s) = 1 /\ s[1] = l
  OBVIOUS
<1>5. Serves(d, tag) <=> s = <<>> \/ (s[1] = tag[1] /\ (s = tag \/ Len(s) = 1))
  BY <1>2 DEF Serves
<1> HIDE DEF s
<1>6. Serves(d, tag) <=> s \in {<<l, x>>, <<l>>, <<>>}
  <2>1. Serves(d, tag) => s \in {<<l, x>>, <<l>>, <<>>}
    BY <1>2, <1>3, <1>5
  <2>2. s \in {<<l, x>>, <<l>>, <<>>} => Serves(d, tag)
    BY <1>2, <1>4, <1>5
  <2> QED
    BY <2>1, <2>2
<1> QED
  BY <1>6 DEF s

LEMMA ServesThree ==
  ASSUME NEW l, NEW x, NEW y, NEW tag, tag = <<l, x, y>>, FromString(tag) # {},
         NEW d \in UNION FileSets, d # <<>>
  PROVE  Serves(d, tag) <=> Subtags(d) \in {<<l, x, y>>, <<l, y>>, <<l>>, <<>>}
<1> DEFINE s == Subtags(d)
<1>1. s \in Seq(Names)
  BY DirectoryIsHtml
<1>2. Len(tag) = 3 /\ tag[1] = l /\ tag[3] = y
  OBVIOUS
<1>3. /\ Len(s) = 1 => s = <<s[1]>>
      /\ Len(s) = 2 => s = <<s[1], s[2]>>
  BY <1>1, ShortSequences
<1>4. /\ s = <<l>> => Len(s) = 1 /\ s[1] = l
      /\ s = <<l, y>> => Len(s) = 2 /\ s[1] = l /\ s[2] = y
  OBVIOUS
<1>5. Serves(d, tag) <=>
        s = <<>> \/ (/\ s[1] = tag[1]
                     /\ \/ s = tag \/ Len(s) = 1
                        \/ Len(s) = 2 /\ s[2] = tag[3])
  BY <1>2 DEF Serves
<1> HIDE DEF s
<1>6. Serves(d, tag) <=> s \in {<<l, x, y>>, <<l, y>>, <<l>>, <<>>}
  <2>1. Serves(d, tag) => s \in {<<l, x, y>>, <<l, y>>, <<l>>, <<>>}
    BY <1>2, <1>3, <1>5
  <2>2. s \in {<<l, x, y>>, <<l, y>>, <<l>>, <<>>} => Serves(d, tag)
    BY <1>2, <1>4, <1>5
  <2> QED
    BY <2>1, <2>2
<1> QED
  BY <1>6 DEF s

\* The places of a search in each of the four cases.
LEMMA NearestOfNone ==
  ASSUME NEW tag, FromString(tag) = {}, NEW files \in SUBSET UNION FileSets
  PROVE  Nearest(tag, files)
<1> DEFINE list == <<<<>>>>
<1>1. \A i \in 1 .. 1 : list[i] \in Seq(Names)
  <2>1. \A i \in 1 .. 1 : list[i] = <<>>
    OBVIOUS
  <2>2. <<>> \in Seq(Names)
    OBVIOUS
  <2> QED
    BY <2>1, <2>2
<1>2. /\ DOMAIN GetErrorPagePaths(tag) = 1 .. 1 + 1
      /\ \A i \in 1 .. 1 : GetErrorPagePaths(tag)[i] = Html(list[i])
      /\ GetErrorPagePaths(tag)[1 + 1] = <<>>
  BY PathsOfNone
<1>3. \A i, j \in 1 .. 1 : i <= j => Len(list[i]) >= Len(list[j])
  OBVIOUS
<1>4. \A d \in files : d # <<>> =>
        (Serves(d, tag) <=> \E i \in 1 .. 1 : Subtags(d) = list[i])
  BY ServesNone
<1>5. 1 \in 1 .. 4
  OBVIOUS
<1> HIDE DEF list
<1> QED
  BY <1>1, <1>2, <1>3, <1>4, <1>5, ListFindsNearest

LEMMA NearestOfOne ==
  ASSUME NEW l \in Languages,
         NEW tag, tag = <<l>>, FromString(tag) # {},
         GetErrorPagePaths(tag) =
           <<Html(<<l>>), Html(<<>>), <<>>>>,
         NEW files \in SUBSET UNION FileSets
  PROVE  Nearest(tag, files)
<1> DEFINE list == <<<<l>>, <<>>>>
<1>1. \A i \in 1 .. 2 : list[i] \in Seq(Names)
  <2>1. <<l>> \in Seq(Names) /\ <<>> \in Seq(Names)
    BY DEF Names
  <2>2. \A i \in 1 .. 2 : list[i] \in {<<l>>, <<>>}
    OBVIOUS
  <2> HIDE DEF list
  <2> QED
    BY <2>1, <2>2
<1>2. /\ DOMAIN GetErrorPagePaths(tag) = 1 .. 2 + 1
      /\ \A i \in 1 .. 2 : GetErrorPagePaths(tag)[i] = Html(list[i])
      /\ GetErrorPagePaths(tag)[2 + 1] = <<>>
  OBVIOUS
<1>3. \A i, j \in 1 .. 2 : i <= j => Len(list[i]) >= Len(list[j])
  OBVIOUS
<1>4. \A d \in files : d # <<>> =>
        (Serves(d, tag) <=> \E i \in 1 .. 2 : Subtags(d) = list[i])
  <2> SUFFICES ASSUME NEW d \in files, d # <<>>
               PROVE  Serves(d, tag) <=> \E i \in 1 .. 2 : Subtags(d) = list[i]
    OBVIOUS
  <2>1. Serves(d, tag) <=> Subtags(d) \in {<<l>>, <<>>}
    BY ServesOne
  <2>2. \A s : s \in {<<l>>, <<>>} <=> \E i \in 1 .. 2 : s = list[i]
    OBVIOUS
  <2> QED
    BY <2>1, <2>2
<1>5. 2 \in 1 .. 4
  OBVIOUS
<1> HIDE DEF list
<1> QED
  BY <1>1, <1>2, <1>3, <1>4, <1>5, ListFindsNearest

LEMMA NearestOfTwo ==
  ASSUME NEW l \in Languages, NEW x \in Scripts \cup Regions,
         NEW tag, tag = <<l, x>>, FromString(tag) # {},
         GetErrorPagePaths(tag) =
           <<Html(<<l, x>>), Html(<<l>>), Html(<<>>), <<>>>>,
         NEW files \in SUBSET UNION FileSets
  PROVE  Nearest(tag, files)
<1> DEFINE list == <<<<l, x>>, <<l>>, <<>>>>
<1>1. \A i \in 1 .. 3 : list[i] \in Seq(Names)
  <2>1. <<l, x>> \in Seq(Names) /\ <<l>> \in Seq(Names) /\ <<>> \in Seq(Names)
    BY DEF Names
  <2>2. \A i \in 1 .. 3 : list[i] \in {<<l, x>>, <<l>>, <<>>}
    OBVIOUS
  <2> HIDE DEF list
  <2> QED
    BY <2>1, <2>2
<1>2. /\ DOMAIN GetErrorPagePaths(tag) = 1 .. 3 + 1
      /\ \A i \in 1 .. 3 : GetErrorPagePaths(tag)[i] = Html(list[i])
      /\ GetErrorPagePaths(tag)[3 + 1] = <<>>
  OBVIOUS
<1>3. \A i, j \in 1 .. 3 : i <= j => Len(list[i]) >= Len(list[j])
  OBVIOUS
<1>4. \A d \in files : d # <<>> =>
        (Serves(d, tag) <=> \E i \in 1 .. 3 : Subtags(d) = list[i])
  <2> SUFFICES ASSUME NEW d \in files, d # <<>>
               PROVE  Serves(d, tag) <=> \E i \in 1 .. 3 : Subtags(d) = list[i]
    OBVIOUS
  <2>1. Serves(d, tag) <=> Subtags(d) \in {<<l, x>>, <<l>>, <<>>}
    BY ServesTwo
  <2>2. \A s : s \in {<<l, x>>, <<l>>, <<>>} <=> \E i \in 1 .. 3 : s = list[i]
    OBVIOUS
  <2> QED
    BY <2>1, <2>2
<1>5. 3 \in 1 .. 4
  OBVIOUS
<1> HIDE DEF list
<1> QED
  BY <1>1, <1>2, <1>3, <1>4, <1>5, ListFindsNearest

LEMMA NearestOfThree ==
  ASSUME NEW l \in Languages, NEW x \in Scripts, NEW y \in Regions,
         NEW tag, tag = <<l, x, y>>, FromString(tag) # {},
         GetErrorPagePaths(tag) =
           <<Html(<<l, x, y>>), Html(<<l, y>>), Html(<<l>>), Html(<<>>), <<>>>>,
         NEW files \in SUBSET UNION FileSets
  PROVE  Nearest(tag, files)
<1> DEFINE list == <<<<l, x, y>>, <<l, y>>, <<l>>, <<>>>>
<1>1. \A i \in 1 .. 4 : list[i] \in Seq(Names)
  <2>1. /\ <<l, x, y>> \in Seq(Names) /\ <<l, y>> \in Seq(Names)
        /\ <<l>> \in Seq(Names) /\ <<>> \in Seq(Names)
    BY DEF Names
  <2>2. \A i \in 1 .. 4 : list[i] \in {<<l, x, y>>, <<l, y>>, <<l>>, <<>>}
    OBVIOUS
  <2> HIDE DEF list
  <2> QED
    BY <2>1, <2>2
<1>2. /\ DOMAIN GetErrorPagePaths(tag) = 1 .. 4 + 1
      /\ \A i \in 1 .. 4 : GetErrorPagePaths(tag)[i] = Html(list[i])
      /\ GetErrorPagePaths(tag)[4 + 1] = <<>>
  OBVIOUS
<1>3. \A i, j \in 1 .. 4 : i <= j => Len(list[i]) >= Len(list[j])
  OBVIOUS
<1>4. \A d \in files : d # <<>> =>
        (Serves(d, tag) <=> \E i \in 1 .. 4 : Subtags(d) = list[i])
  <2> SUFFICES ASSUME NEW d \in files, d # <<>>
               PROVE  Serves(d, tag) <=> \E i \in 1 .. 4 : Subtags(d) = list[i]
    OBVIOUS
  <2>1. Serves(d, tag) <=> Subtags(d) \in {<<l, x, y>>, <<l, y>>, <<l>>, <<>>}
    BY ServesThree
  <2>2. \A s : s \in {<<l, x, y>>, <<l, y>>, <<l>>, <<>>}
                <=> \E i \in 1 .. 4 : s = list[i]
    OBVIOUS
  <2> QED
    BY <2>1, <2>2
<1>5. 4 \in 1 .. 4
  OBVIOUS
<1> HIDE DEF list
<1> QED
  BY <1>1, <1>2, <1>3, <1>4, <1>5, ListFindsNearest

\* The error page a failed load shows is the one for the most of the language
\* that the system has: of the pages that serve it none is for more subtags, and
\* there is one if there is any. For every tag, whatever its form, and every set
\* of directories.
THEOREM ErrorPageIsAlwaysNearest == Spec => []ErrorPageIsNearest
<1>1. ASSUME NEW tag, NEW files \in SUBSET UNION FileSets
      PROVE  Nearest(tag, files)
  <2>1. CASE FromString(tag) = {}
    BY <2>1, NearestOfNone
  <2>2. CASE FromString(tag) # {}
    <3>1. PICK l \in Languages : PlacesOf(tag, l)
      BY <2>2, PathsOfPieces
    <3>2. CASE /\ tag = <<l>>
               /\ GetErrorPagePaths(tag) = <<Html(<<l>>), Html(<<>>), <<>>>>
      BY <2>2, <3>2, NearestOfOne, Zenon
    <3>3. ASSUME NEW x \in Scripts \cup Regions, tag = <<l, x>>,
                 GetErrorPagePaths(tag) =
                   <<Html(<<l, x>>), Html(<<l>>), Html(<<>>), <<>>>>
          PROVE  Nearest(tag, files)
      BY <2>2, <3>3, NearestOfTwo, Zenon
    <3>4. ASSUME NEW x \in Scripts, NEW y \in Regions, tag = <<l, x, y>>,
                 GetErrorPagePaths(tag) =
                   <<Html(<<l, x, y>>), Html(<<l, y>>), Html(<<l>>), Html(<<>>),
                     <<>>>>
          PROVE  Nearest(tag, files)
      BY <2>2, <3>4, NearestOfThree, Zenon
    <3> QED
      BY <3>1, <3>2, <3>3, <3>4, Zenon DEF PlacesOf
  <2> QED
    BY <2>1, <2>2
<1>2. ErrorPageIsNearest
  BY <1>1 DEF ErrorPageIsNearest, Nearest
<1> QED
  BY <1>2, PTL

-----------------------------------------------------------------------------
(* The sizes of a description.                                             *)

\* Both sizes of a resolution are positive, or there is none.
LEMMA OverrideIsPositive ==
  ASSUME NEW json, NEW disk, FromJsonString(json, disk).override # <<>>
  PROVE  \E size \in Int \X Int :
           /\ FromJsonString(json, disk).override = <<size>>
           /\ size[1] > 0 /\ size[2] > 0
<1>1. FromJsonString(json, disk).override = override_(json)
  BY DEF FromJsonString
<1> DEFINE text == IsText(Member(json, "resolution"))
<1>2. text \in DOMAIN Sizes /\ \A n \in {1, 2} : Sizes[text][n] > 0
        /\ override_(json) = <<Sizes[text]>>
  BY <1>1 DEF override_
<1> HIDE DEF text
<1>3. Sizes[text] \in Int \X Int
  BY <1>2, SizesAssumption
<1>4. Sizes[text][1] > 0 /\ Sizes[text][2] > 0
  BY <1>2
<1> QED
  BY <1>1, <1>2, <1>3, <1>4

\* The smaller of two ratios is one of them.
LEMMA SmallerIsOne ==
  ASSUME NEW p, NEW q
  PROVE  Smaller(p, q) \in {p, q}
BY Zenon DEF Smaller

\* The ratio is positive on a device whose sizes are: whatever the description
\* leaves to the screen is there.
LEMMA RatioIsPositive ==
  ASSUME NEW d, NEW device,
         NEW ui, device.display = <<ui>>, ui[1] > 0, ui[2] > 0,
         device.hardware # <<>> =>
           \E s : device.hardware = <<s>> /\ s[1] > 0 /\ s[2] > 0,
         d.override # <<>> => \E s : d.override = <<s>> /\ s[1] > 0 /\ s[2] > 0
  PROVE  IsPositive(DevicePixelRatio(device, d))
<1> DEFINE size == IF d.override = <<>> THEN ui ELSE d.override[1]
<1> DEFINE screen == IF device.hardware = <<>> THEN ui ELSE device.hardware[1]
<1>1. CurrentUiSize(device) = ui
  BY DEF CurrentUiSize
<1>2. DevicePixelRatio(device, d) =
        IF 0 \in ToSet(size) THEN <<1, 1>>
        ELSE Smaller(<<screen[1], size[1]>>, <<screen[2], size[2]>>)
  BY <1>1 DEF DevicePixelRatio
<1>3. size[1] > 0 /\ size[2] > 0
  OBVIOUS
<1>4. screen[1] > 0 /\ screen[2] > 0
  OBVIOUS
<1> HIDE DEF size, screen
<1>5. IsPositive(<<1, 1>>)
  BY DEF IsPositive
<1>6. /\ IsPositive(<<screen[1], size[1]>>)
      /\ IsPositive(<<screen[2], size[2]>>)
  BY <1>3, <1>4 DEF IsPositive
<1> QED
  BY <1>2, <1>5, <1>6, SmallerIsOne, Zenon

\* The three scales of a window that is larger or smaller than the page.
LEMMA ScalesArePositive ==
  ASSUME NEW d, NEW display, display[1] > 0, display[2] > 0,
         d.override # <<>> => \E s : d.override = <<s>> /\ s[1] > 0 /\ s[2] > 0
  PROVE  \A scale \in ToSet(ContentsScale(d, display)) : IsPositive(scale)
<1>1. CASE d.override = <<>> \/ d.flags["transparent"]
  <2>1. ContentsScale(d, display) = <<>>
    BY <1>1 DEF ContentsScale
  <2> QED
    BY <2>1 DEF ToSet
<1>2. CASE d.override # <<>> /\ ~d.flags["transparent"]
  <2>1. PICK s : d.override = <<s>> /\ s[1] > 0 /\ s[2] > 0
    BY <1>2
  <2> DEFINE across == <<display[1], s[1]>>
  <2> DEFINE down == <<display[2], s[2]>>
  <2>2. ContentsScale(d, display) = <<across, down, Smaller(across, down)>>
    BY <1>2, <2>1 DEF ContentsScale
  <2>3. IsPositive(across) /\ IsPositive(down)
    BY <2>1 DEF IsPositive
  <2> HIDE DEF across, down
  <2>4. IsPositive(Smaller(across, down))
    BY <2>3, SmallerIsOne, Zenon
  <2>5. ToSet(<<across, down, Smaller(across, down)>>)
          = {across, down, Smaller(across, down)}
    BY DEF ToSet
  <2> QED
    BY <2>2, <2>3, <2>4, <2>5, Zenon
<1> QED
  BY <1>1, <1>2

\* The page can be scaled, also when another app is launched before it asks.
LEMMA DescriptionCanBeScaled ==
  ASSUME NEW json, NEW disk
  PROVE  CanBeScaled(FromJsonString(json, disk))
<1> DEFINE d == FromJsonString(json, disk)
<1>1. d.override # <<>> => \E s : d.override = <<s>> /\ s[1] > 0 /\ s[2] > 0
  BY OverrideIsPositive
<1> HIDE DEF d
<1> SUFFICES ASSUME NEW display \in Displays, NEW other \in Displays,
                    NEW hardware \in {<<>>} \cup {<<s>> : s \in Displays}
             PROVE  LET new  == [display |-> <<>>, hardware |-> hardware]
                        own  == InitWindow(new, d, display)
                        then == SetDisplaySize(own, other)
                    IN  /\ \A scale \in ToSet(ContentsScale(d, display)) :
                             IsPositive(scale)
                        /\ \A device \in {own, then} :
                             IsPositive(DevicePixelRatio(device, d))
  BY DEF CanBeScaled, d
<1>2. /\ display[1] > 0 /\ display[2] > 0
      /\ other[1] > 0 /\ other[2] > 0
      /\ hardware # <<>> => \E s : hardware = <<s>> /\ s[1] > 0 /\ s[2] > 0
  BY DisplaysAssumption
<1> DEFINE own == InitWindow([display |-> <<>>, hardware |-> hardware], d, display)
<1> DEFINE ui == IF d.override = <<>> THEN display ELSE d.override[1]
<1>3. own = [display |-> <<ui>>, hardware |-> hardware]
  BY DEF InitWindow, SetDisplaySize
<1>4. SetDisplaySize(own, other) = [display |-> <<other>>, hardware |-> hardware]
  BY <1>3 DEF SetDisplaySize
<1>5. ui[1] > 0 /\ ui[2] > 0
  BY <1>1, <1>2
<1> HIDE DEF own, ui
<1>6. own.display = <<ui>> /\ own.hardware = hardware
  BY <1>3
<1>7. IsPositive(DevicePixelRatio(own, d))
  BY <1>1, <1>2, <1>5, <1>6, RatioIsPositive
<1> DEFINE then == SetDisplaySize(own, other)
<1>8. then.display = <<other>> /\ then.hardware = hardware
  BY <1>4
<1> HIDE DEF then
<1>9. IsPositive(DevicePixelRatio(then, d))
  BY <1>1, <1>2, <1>8, RatioIsPositive
<1>10. \A scale \in ToSet(ContentsScale(d, display)) : IsPositive(scale)
  BY <1>1, <1>2, ScalesArePositive
<1> QED
  BY <1>7, <1>9, <1>10 DEF own, then

-----------------------------------------------------------------------------
(* Members of a wrong type. Two descriptions that differ in one optional    *)
(* member, which neither has of the type it should have, say the same.      *)

\* The json without a member.
Without(json, key) ==
  [json EXCEPT !.object =
     [k \in DOMAIN json.object \ {key} |-> json.object[k]]]

LEMMA WithoutMember ==
  ASSUME NEW j \in Jsons, j.json.is = "object", NEW key
  PROVE  /\ \A k : k # key => Member(Without(j.json, key), k) = Member(j.json, k)
         /\ Member(Without(j.json, key), key) = Null
<1> DEFINE json == j.json
<1> DEFINE rest == [k \in DOMAIN json.object \ {key} |-> json.object[k]]
<1>1. DOMAIN json = {"is", "object"}
  BY JsonsAssumption
<1>2. Without(json, key).object = rest
  BY <1>1 DEF Without
<1> HIDE DEF json
<1> QED
  BY <1>2 DEF Member, json

\* a and b differ at most in the member key, which neither has of the type.
Alike(a, b, key, type) ==
  /\ \A k : k # key => Member(a, k) = Member(b, k)
  /\ Member(a, key).is # type /\ Member(b, key).is # type

\* The members that are optional, with the type they should have.
Optional(key, type) ==
  \/ type = "bool" /\ key \in DOMAIN LenientBools
  \/ type = "text" /\ key \in LenientTexts \cup
       {"resolution", "v8SnapshotFile", "thirdPartyCookiesPolicy"}
  \/ type = "list" /\ key \in {"keyFilterTable", "webAppPermissions",
                               "supportedEnyoBundleVersions"}
  \/ type = "object" /\ key \in {"accessibility", "class", "windowGroup"}

OptionalBools ==
  {"enableKeyboard", "usePrerendering", "disallowScrollingInMainFrame",
   "useNativeScroll", "useUnlimitedMediaPolicy", "useVideoDecodeAccelerator"}

LEMMA DomainOfLenientBools == DOMAIN LenientBools = OptionalBools
BY DEF LenientBools, OptionalBools

\* No member is both optional and strict, or a number.
LEMMA OptionalIsNotStrict ==
  ASSUME NEW key, NEW type, Optional(key, type)
  PROVE  /\ key \notin StrictBools /\ key \notin StrictTexts
         /\ key \notin {"splashDismissTimeout", "networkStableTimeout",
                        "delayMsForLaunchOptimization", "suspendDOMTime"}
<1>1. key \in OptionalBools \cup LenientTexts \cup
        {"resolution", "v8SnapshotFile", "thirdPartyCookiesPolicy",
         "keyFilterTable", "webAppPermissions", "supportedEnyoBundleVersions",
         "accessibility", "class", "windowGroup"}
  BY DomainOfLenientBools DEF Optional
<1> QED
  BY <1>1 DEF OptionalBools, LenientTexts, StrictBools, StrictTexts

LEMMA FlagsAlike ==
  ASSUME NEW a, NEW b, NEW key, NEW type, Optional(key, type), Alike(a, b, key, type)
  PROVE  Flags(a) = Flags(b)
<1>1. \A k \in StrictBools : AsBool(Member(a, k)) = AsBool(Member(b, k))
  BY OptionalIsNotStrict DEF Alike
<1>2. ASSUME NEW k \in DOMAIN LenientBools
      PROVE  IsBool(Member(a, k), LenientBools[k])
               = IsBool(Member(b, k), LenientBools[k])
  <2>1. CASE k # key
    BY <2>1 DEF Alike
  <2>2. CASE k = key
    <3>1. type = "bool"
      BY <1>2, <2>2, DomainOfLenientBools DEF Optional, OptionalBools, LenientTexts
    <3> QED
      BY <2>2, <3>1 DEF Alike, IsBool
  <2> QED
    BY <2>1, <2>2
<1>3. [k \in StrictBools |-> AsBool(Member(a, k))]
        = [k \in StrictBools |-> AsBool(Member(b, k))]
  BY <1>1
<1>4. [k \in DOMAIN LenientBools |-> IsBool(Member(a, k), LenientBools[k])]
        = [k \in DOMAIN LenientBools |-> IsBool(Member(b, k), LenientBools[k])]
  BY <1>2
<1> QED
  BY <1>3, <1>4, Zenon DEF Flags

LEMMA TextsAlike ==
  ASSUME NEW a, NEW b, NEW key, NEW type, Optional(key, type), Alike(a, b, key, type)
  PROVE  Texts(a) = Texts(b)
<1>1. \A k \in StrictTexts : AsText(Member(a, k)) = AsText(Member(b, k))
  BY OptionalIsNotStrict DEF Alike
<1>2. ASSUME NEW k \in LenientTexts
      PROVE  IsText(Member(a, k)) = IsText(Member(b, k))
  <2>1. CASE k # key
    BY <2>1 DEF Alike
  <2>2. CASE k = key
    <3>1. type = "text"
      BY <1>2, <2>2, DomainOfLenientBools DEF Optional, OptionalBools, LenientTexts
    <3> QED
      BY <2>2, <3>1 DEF Alike, IsText
  <2> QED
    BY <2>1, <2>2
<1>3. [k \in StrictTexts |-> AsText(Member(a, k))]
        = [k \in StrictTexts |-> AsText(Member(b, k))]
  BY <1>1
<1>4. [k \in LenientTexts |-> IsText(Member(a, k))]
        = [k \in LenientTexts |-> IsText(Member(b, k))]
  BY <1>2
<1> QED
  BY <1>3, <1>4, Zenon DEF Texts

\* A member with a name of its own: both have the same, or neither has one of the
\* type that counts.
LEMMA TextAlike ==
  ASSUME NEW a, NEW b, NEW key, NEW type, Optional(key, type), Alike(a, b, key, type),
         NEW k \in {"resolution", "v8SnapshotFile", "thirdPartyCookiesPolicy"}
  PROVE  IsText(Member(a, k)) = IsText(Member(b, k))
<1>1. CASE k # key
  BY <1>1 DEF Alike
<1>2. CASE k = key
  <2>1. type = "text"
    BY <1>2, DomainOfLenientBools DEF Optional, OptionalBools
  <2> QED
    BY <1>2, <2>1 DEF Alike, IsText
<1> QED
  BY <1>1, <1>2

LEMMA ListAlike ==
  ASSUME NEW a, NEW b, NEW key, NEW type, Optional(key, type), Alike(a, b, key, type),
         NEW k \in {"keyFilterTable", "webAppPermissions",
                    "supportedEnyoBundleVersions"}
  PROVE  \/ Member(a, k) = Member(b, k)
         \/ Member(a, k).is # "list" /\ Member(b, k).is # "list"
<1>1. CASE k # key
  BY <1>1 DEF Alike
<1>2. CASE k = key
  <2>1. type = "list"
    BY <1>2, DomainOfLenientBools DEF Optional, OptionalBools, LenientTexts
  <2> QED
    BY <1>2, <2>1 DEF Alike
<1> QED
  BY <1>1, <1>2

LEMMA ObjectAlike ==
  ASSUME NEW a, NEW b, NEW key, NEW type, Optional(key, type), Alike(a, b, key, type),
         NEW k \in {"accessibility", "class", "windowGroup"}
  PROVE  \/ Member(a, k) = Member(b, k)
         \/ Member(a, k).is # "object" /\ Member(b, k).is # "object"
<1>1. CASE k # key
  BY <1>1 DEF Alike
<1>2. CASE k = key
  <2>1. type = "object"
    BY <1>2, DomainOfLenientBools DEF Optional, OptionalBools, LenientTexts
  <2> QED
    BY <1>2, <2>1 DEF Alike
<1> QED
  BY <1>1, <1>2

\* The window group is read of one member.
LEMMA WindowGroupAlike ==
  ASSUME NEW a, NEW b, NEW key, NEW type, Optional(key, type), Alike(a, b, key, type)
  PROVE  SetupWindowGroup(a) = SetupWindowGroup(b)
<1>1. \/ Member(a, "windowGroup") = Member(b, "windowGroup")
      \/ /\ Member(a, "windowGroup").is # "object"
         /\ Member(b, "windowGroup").is # "object"
  BY ObjectAlike
<1>2. \A inner : Inner(a, "windowGroup", inner) = Inner(b, "windowGroup", inner)
  BY <1>1 DEF Inner
<1>3. \A role, inner : Role(a, role, inner) = Role(b, role, inner)
  BY <1>1 DEF Role
<1>4. WindowGroupInfo(a) = WindowGroupInfo(b)
  BY <1>2, Zenon DEF WindowGroupInfo
<1>5. WindowOwnerInfo(a) = WindowOwnerInfo(b)
  BY <1>3, Zenon DEF WindowOwnerInfo
<1>6. WindowClientInfo(a) = WindowClientInfo(b)
  BY <1>3, Zenon DEF WindowClientInfo
<1> QED
  BY <1>4, <1>5, <1>6, Zenon DEF SetupWindowGroup

\* The fields that are read of the members a description must have, or of those
\* that are numbers.
LEMMA StrictAlike ==
  ASSUME NEW a, NEW b, NEW key, NEW type, Optional(key, type), Alike(a, b, key, type),
         NEW disk
  PROVE  /\ trust_level_(a) = trust_level_(b)
         /\ sub_type_(a) = sub_type_(b)
         /\ splash_dismiss_timeout_ms_(a) = splash_dismiss_timeout_ms_(b)
         /\ network_stable_timeout_(a) = network_stable_timeout_(b)
         /\ delay_ms_for_launch_optimization_(a) = delay_ms_for_launch_optimization_(b)
         /\ custom_suspend_dom_time_(a) = custom_suspend_dom_time_(b)
         /\ OnDisk(a, "icon", disk) = OnDisk(b, "icon", disk)
         /\ EntryScheme(a, disk) = EntryScheme(b, disk)
<1>1. /\ Member(a, "trustLevel") = Member(b, "trustLevel")
      /\ Member(a, "subType") = Member(b, "subType")
      /\ Member(a, "folderPath") = Member(b, "folderPath")
      /\ Member(a, "icon") = Member(b, "icon")
      /\ Member(a, "main") = Member(b, "main")
  BY OptionalIsNotStrict DEF Alike, StrictTexts
<1>2. /\ Member(a, "splashDismissTimeout") = Member(b, "splashDismissTimeout")
      /\ Member(a, "networkStableTimeout") = Member(b, "networkStableTimeout")
      /\ Member(a, "delayMsForLaunchOptimization")
           = Member(b, "delayMsForLaunchOptimization")
      /\ Member(a, "suspendDOMTime") = Member(b, "suspendDOMTime")
  BY OptionalIsNotStrict DEF Alike
<1>3. trust_level_(a) = trust_level_(b) /\ sub_type_(a) = sub_type_(b)
  BY <1>1, Zenon DEF trust_level_, sub_type_
<1>4. /\ splash_dismiss_timeout_ms_(a) = splash_dismiss_timeout_ms_(b)
      /\ network_stable_timeout_(a) = network_stable_timeout_(b)
  BY <1>2 DEF splash_dismiss_timeout_ms_, network_stable_timeout_
<1>5. /\ delay_ms_for_launch_optimization_(a) = delay_ms_for_launch_optimization_(b)
      /\ custom_suspend_dom_time_(a) = custom_suspend_dom_time_(b)
  BY <1>2, Zenon DEF delay_ms_for_launch_optimization_, custom_suspend_dom_time_
<1>6. /\ OnDisk(a, "icon", disk) = OnDisk(b, "icon", disk)
      /\ OnDisk(a, "main", disk) = OnDisk(b, "main", disk)
  BY <1>1, Zenon DEF OnDisk
<1>7. EntryScheme(a, disk) = EntryScheme(b, disk)
  BY <1>1, <1>6, Zenon DEF EntryScheme
<1> QED
  BY <1>3, <1>4, <1>5, <1>6, <1>7

\* The fields that are read of one optional member.
LEMMA OptionalAlike ==
  ASSUME NEW a, NEW b, NEW key, NEW type, Optional(key, type), Alike(a, b, key, type)
  PROVE  /\ supports_audio_guidance_(a) = supports_audio_guidance_(b)
         /\ window_class_value_(a) = window_class_value_(b)
         /\ override_(a) = override_(b)
         /\ key_filter_table_(a) = key_filter_table_(b)
         /\ v8_snapshot_path_(a) = v8_snapshot_path_(b)
         /\ third_party_cookies_policy_(a) = third_party_cookies_policy_(b)
         /\ supported_enyo_bundle_versions_(a) = supported_enyo_bundle_versions_(b)
         /\ web_app_permissions_(a) = web_app_permissions_(b)
<1>1. \A k \in {"accessibility", "class"} : \A inner :
        Inner(a, k, inner) = Inner(b, k, inner)
  BY ObjectAlike DEF Inner
<1>2. /\ supports_audio_guidance_(a) = supports_audio_guidance_(b)
      /\ window_class_value_(a) = window_class_value_(b)
  BY <1>1 DEF supports_audio_guidance_, window_class_value_
<1>3. /\ IsText(Member(a, "resolution")) = IsText(Member(b, "resolution"))
      /\ IsText(Member(a, "v8SnapshotFile")) = IsText(Member(b, "v8SnapshotFile"))
      /\ IsText(Member(a, "thirdPartyCookiesPolicy"))
           = IsText(Member(b, "thirdPartyCookiesPolicy"))
  BY TextAlike
<1>4. Member(a, "folderPath") = Member(b, "folderPath")
  BY OptionalIsNotStrict DEF Alike, StrictTexts
<1>5. override_(a) = override_(b)
  BY <1>3, Zenon DEF override_
<1>6. v8_snapshot_path_(a) = v8_snapshot_path_(b)
  BY <1>3, <1>4, Zenon DEF v8_snapshot_path_
<1>7. third_party_cookies_policy_(a) = third_party_cookies_policy_(b)
  BY <1>3, Zenon DEF third_party_cookies_policy_
<1>8. key_filter_table_(a) = key_filter_table_(b)
  <2>1. \/ Member(a, "keyFilterTable") = Member(b, "keyFilterTable")
        \/ /\ Member(a, "keyFilterTable").is # "list"
           /\ Member(b, "keyFilterTable").is # "list"
    BY ListAlike
  <2> QED
    BY <2>1, Zenon DEF key_filter_table_
<1>9. supported_enyo_bundle_versions_(a) = supported_enyo_bundle_versions_(b)
  <2>1. \/ Member(a, "supportedEnyoBundleVersions")
             = Member(b, "supportedEnyoBundleVersions")
        \/ /\ Member(a, "supportedEnyoBundleVersions").is # "list"
           /\ Member(b, "supportedEnyoBundleVersions").is # "list"
    BY ListAlike
  <2> QED
    BY <2>1, Zenon DEF supported_enyo_bundle_versions_
<1>10. web_app_permissions_(a) = web_app_permissions_(b)
  <2>1. \/ Member(a, "webAppPermissions") = Member(b, "webAppPermissions")
        \/ /\ Member(a, "webAppPermissions").is # "list"
           /\ Member(b, "webAppPermissions").is # "list"
    BY ListAlike
  <2> QED
    BY <2>1, Zenon DEF web_app_permissions_
<1> QED
  BY <1>2, <1>5, <1>6, <1>7, <1>8, <1>9, <1>10

\* So the descriptions are the same.
LEMMA DescriptionsAlike ==
  ASSUME NEW a, NEW b, NEW key, NEW type, Optional(key, type), Alike(a, b, key, type),
         NEW disk
  PROVE  FromJsonString(a, disk) = FromJsonString(b, disk)
BY FlagsAlike, TextsAlike, WindowGroupAlike, StrictAlike, OptionalAlike
DEF FromJsonString

LEMMA WrongTypeNeverMatters ==
  ASSUME NEW j \in Jsons, j.json.is = "object", NEW key, NEW type, Optional(key, type)
  PROVE  WrongTypeIsAbsent(j.json, j.disk, key, type)
<1> SUFFICES ASSUME Member(j.json, key).is # type
             PROVE  FromJsonString(Without(j.json, key), j.disk)
                      = FromJsonString(j.json, j.disk)
  BY DEF WrongTypeIsAbsent, Without
<1>1. Null.is # type
  BY DEF Null, Optional
<1>2. Alike(Without(j.json, key), j.json, key, type)
  BY <1>1, WithoutMember DEF Alike
<1> QED
  BY <1>2, DescriptionsAlike

\* A description that WAM accepts can be used as it is, whatever was wrong with
\* the json: optional members of a wrong type do no harm, the delay of the launch
\* is none or positive, and the page and its window can be scaled, also when
\* another app is launched before the page asks.
THEOREM DescriptionsAreUsable == Spec => []DescriptionsUsable
<1>1. TypeOK => DescriptionsUsable
  <2> SUFFICES ASSUME desc \in Jsons, desc.json.is = "object"
               PROVE  LET d == FromJsonString(desc.json, desc.disk)
                      IN  /\ CanBeScaled(d)
                          /\ \A n \in ToSet(d.delay_ms_for_launch_optimization) : n > 0
                          /\ \A key, type : Optional(key, type) =>
                               WrongTypeIsAbsent(desc.json, desc.disk, key, type)
    BY DEF TypeOK, DescType, DescriptionsUsable, Optional
  <2>1. CanBeScaled(FromJsonString(desc.json, desc.disk))
    BY DescriptionCanBeScaled
  <2>2. \A n \in ToSet(FromJsonString(desc.json, desc.disk)
                         .delay_ms_for_launch_optimization) : n > 0
    BY DEF FromJsonString, delay_ms_for_launch_optimization_, ToSet
  <2> QED
    BY <2>1, <2>2, WrongTypeNeverMatters
<1> QED
  BY <1>1, InitTypes, StepTypes, PTL DEF Spec

=============================================================================
