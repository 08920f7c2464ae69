----------------------------- MODULE ErrorPages -----------------------------
(***************************************************************************)
(* The loads of one app: WAM reads its description, loads the page it      *)
(* describes or the target of a deep link, and when a load fails shows the *)
(* error page of the system's language. The error page has the rights of   *)
(* WAM's own pages; the app has its own again when it is back. The engine, *)
(* the network and the renderer process do as they please.                 *)
(***************************************************************************)
EXTENDS ApplicationDescription

CONSTANTS
  Jsons,         \* the descriptions: an appinfo.json and the files in its folder
  Languages,     \* the subtags of a language tag
  Scripts,
  Regions,
  Tags,          \* the languages the system may have, as sequences of subtags
  Displays,      \* the sizes a display may have
  FileSets,      \* the directories that may hold an error page
  MaxCrashes,    \* the renderer's crashes: at the third one WAM closes the app
  MaxRelaunches  \* the times the app is launched again

\* The directories are those the search may ask for.
ASSUME DirectoriesAssumption ==
  \A d \in UNION FileSets :
    /\ d \in Seq({"resources", "html"} \cup Languages \cup Scripts \cup Regions)
    /\ d = <<>> \/ (Len(d) > 1 /\ d[1] = "resources" /\ d[Len(d)] = "html")
ASSUME DisplaysAssumption ==
  \A s \in Displays : s \in Int \X Int /\ s[1] > 0 /\ s[2] > 0
ASSUME JsonsAssumption ==
  \A j \in Jsons : j.json.is = "object" => DOMAIN j.json = {"is", "object"}
ASSUME BoundsAssumption == MaxCrashes \in Nat /\ MaxRelaunches \in Nat

VARIABLES
  desc,  \* the description, until the app is launched
  app,   \* what the page needs of it; WebAppWayland, as far as it is preloaded
  host,  \* the network, and what WAM was told of it; the error pages there are
  page,  \* WebPageBlink
  view   \* its WebView, with the webOSSystem object of the document

vars == <<desc, app, host, page, view>>

-----------------------------------------------------------------------------
(* Urls. local and error are files, error any one that has the file name   *)
(* of the error page, in its directory or below; target is what a deep     *)
(* link asks for; mail is a link no browser follows.                       *)

Urls == {"none", "local", "site", "target", "mail", "error"}

Scheme(url) ==
  CASE url \in {"local", "error"} -> "file"
    [] url \in {"site", "target"} -> "https"
    [] url = "mail" -> "mailto"
    [] url = "none" -> ""

IsLocalFile(url) == Scheme(url) = "file"

\* The subtags of a language tag: language, script and region, the last two if
\* they are there. A tag that has none of these forms has no pieces.
FromString(tag) ==
  {p \in [language : Languages, script : Scripts \cup {""},
          region : Regions \cup {""}] :
     tag = <<p.language>> \o (IF p.script = "" THEN <<>> ELSE <<p.script>>)
                          \o (IF p.region = "" THEN <<>> ELSE <<p.region>>)}

\* Mutant of GetErrorPagePaths: a script hides the pages of the region alone.
PathsOfScriptOrRegion(tag) ==
  LET Html(subtags) == <<"resources">> \o subtags \o <<"html">>
      common == <<Html(<<>>), <<>>>>
      Localized(p) == <<Html(tag), Html(<<p.language>>)>>
  IN  IF FromString(tag) = {} THEN common
      ELSE Localized(CHOOSE p \in FromString(tag) : TRUE) \o common

\* The directories, below the one of the error page, in the order of the search.
GetErrorPagePaths(tag) ==
  LET Html(subtags) == <<"resources">> \o subtags \o <<"html">>
      common == <<Html(<<>>), <<>>>>
      Localized(p) ==
        (IF p.script # "" THEN <<Html(tag)>> ELSE <<>>)
        \o (IF p.region # "" THEN <<Html(<<p.language, p.region>>)>> ELSE <<>>)
        \o <<Html(<<p.language>>)>>
  IN  IF FromString(tag) = {} THEN common
      ELSE Localized(CHOOSE p \in FromString(tag) : TRUE) \o common

\* What the search finds, in a language, of the directories that have the page:
\* one, or none.
Found(tag, files) ==
  LET paths == GetErrorPagePaths(tag)
      exist == {i \in DOMAIN paths : paths[i] \in files}
  IN  {paths[i] : i \in {k \in exist : \A j \in exist : k <= j}}

-----------------------------------------------------------------------------
TrustLevels == {"default", "trusted"}
\* Any policy but event is as the default one for what WAM does.
Policies == {"default", "event"}

DescType == Jsons \cup {<<>>}

AppType ==
  [status : {"none", "refused", "aborted", "running", "closed"},
   trust_level : TrustLevels, handles_deeplinking : BOOLEAN,
   default_url_ : {"none", "local", "site", "target"}]

HostType ==
  [reachable : BOOLEAN, told : BOOLEAN, changed : BOOLEAN,
   crashes : 0 .. MaxCrashes, relaunches : 0 .. MaxRelaunches,
   files : FileSets]

PageType ==
  [load_error_policy_ : Policies, is_preload_ : BOOLEAN,
   is_load_error_page_finish_ : BOOLEAN, load_failed_url_ : Urls,
   trust_level_ : TrustLevels, net_error_reload_timer_ : BOOLEAN]

ViewType ==
  [request : Urls, loading : Urls, url : Urls, unfinished : BOOLEAN,
   initialized_ : BOOLEAN, extension : TrustLevels]

NewPage ==
  [load_error_policy_ |-> "default", is_preload_ |-> FALSE,
   is_load_error_page_finish_ |-> FALSE, load_failed_url_ |-> "none",
   trust_level_ |-> "default", net_error_reload_timer_ |-> FALSE]

\* request: asked for, not yet begun; loading: begun; url: the document shown,
\* unfinished until it is loaded; extension: the trust level its webOSSystem
\* object was told.
NewView ==
  [request |-> "none", loading |-> "none", url |-> "none", unfinished |-> FALSE,
   initialized_ |-> FALSE, extension |-> "default"]

Init ==
  /\ desc \in Jsons
  /\ app = [status |-> "none", trust_level |-> "default",
            handles_deeplinking |-> FALSE, default_url_ |-> "none"]
  /\ host \in [reachable : BOOLEAN, told : {FALSE}, changed : {FALSE},
               crashes : {0}, relaunches : {0}, files : FileSets]
  /\ page = NewPage
  /\ view = NewView

-----------------------------------------------------------------------------
(* The engine: a new load takes the place of one that has not got a        *)
(* document yet. A url that is none is no url, and nothing is loaded.      *)

LoadUrl(v, url) == [v EXCEPT !.request = url, !.loading = "none"]

\* GetUrl may already be the url of the load under way.
GetUrl(v) ==
  LET urls == {v.url, v.request, v.loading} \ {"none"}
  IN  IF urls = {} THEN {"none"} ELSE urls

Running == app.status = "running"
Quiet == view.request = "none" /\ view.loading = "none" /\ ~view.unfinished

\* The document is the app's own; only such a one has scripts that do more than
\* show an error.
OwnDocument == view.url \in {"local", "site", "target"}

-----------------------------------------------------------------------------
(* Launch and relaunch. What a launch asks for: a url of the service       *)
(* worker, a deep link of one of three kinds, or neither.                  *)

Params == {"plain", "openwindow", "platform", "app", "default"}

DefaultKind(d) ==
  CASE d.entry_scheme = "file" -> "local"
    [] d.entry_scheme = "https" -> "site"
    [] d.entry_scheme = "" -> "none"

\* The first load: a deep link that the platform handles, or the default page.
Load(v, params, default) ==
  LoadUrl(v, IF params = "platform" THEN "target" ELSE default)

Launch ==
  /\ app.status = "none"
  /\ desc' = <<>>
  /\ UNCHANGED host
  /\ IF desc.json.is # "object" \/ Throws(desc.json)
       THEN /\ app' = [app EXCEPT !.status =
                         IF desc.json.is # "object" THEN "refused" ELSE "aborted"]
            /\ UNCHANGED <<page, view>>
       ELSE \E params \in Params, preload \in BOOLEAN :
         LET d == FromJsonString(desc.json, desc.disk)
             default == IF params = "openwindow" THEN "target" ELSE DefaultKind(d)
         IN  /\ app' = [status |-> "running", trust_level |-> d.trust_level,
                        handles_deeplinking |-> d.texts["deeplinkingParams"] # "",
                        default_url_ |-> default]
             /\ page' = [page EXCEPT !.trust_level_ = d.trust_level,
                                     !.is_preload_ = preload]
             /\ view' = Load(view, params, default)

\* DoHostedWebAppRelaunch: a deep link of an app that is a file which has gone
\* on to the web, and does not handle deep links itself.
IsHostedWebApp(url) ==
  Scheme(url) # "file" /\ Scheme(app.default_url_) = "file"
    /\ ~app.handles_deeplinking

Relaunch ==
  /\ Running
  /\ host.relaunches < MaxRelaunches
  /\ host' = [host EXCEPT !.relaunches = @ + 1]
  /\ page' = [page EXCEPT !.is_preload_ = FALSE]
  /\ \E params \in Params, url \in GetUrl(view) :
       view' = CASE params = "openwindow" -> LoadUrl(view, "target")
                 [] params = "platform" /\ IsHostedWebApp(url) ->
                      LoadUrl(view, "target")
                 [] params = "default" /\ IsHostedWebApp(url) ->
                      LoadUrl(view, app.default_url_)
                 [] OTHER -> view
  /\ UNCHANGED <<desc, app>>

-----------------------------------------------------------------------------
(* The course of a load.                                                   *)

StartNavigation ==
  /\ Running /\ view.request # "none"
  /\ view' = [view EXCEPT !.loading = view.request, !.request = "none"]
  /\ UNCHANGED <<desc, app, host, page>>

ScriptNavigates ==
  /\ Running /\ OwnDocument /\ view.request = "none" /\ view.loading = "none"
  /\ \E kind \in {"site", "mail", view.url} :
       view' = [view EXCEPT !.loading = kind]
  /\ UNCHANGED <<desc, app, host, page>>

\* The new document's webOSSystem object is initialized with the trust level.
Commit ==
  /\ Running
  /\ \/ IsLocalFile(view.loading)
     \/ Scheme(view.loading) = "https" /\ host.reachable
  /\ view' = [view EXCEPT !.url = view.loading, !.loading = "none",
                          !.unfinished = TRUE, !.initialized_ = TRUE,
                          !.extension = page.trust_level_]
  /\ UNCHANGED <<desc, app, host, page>>

\* UpdateExtensionData reaches an object that is initialized.
UpdateExtensionData(v, trust) ==
  [v EXCEPT !.extension = IF v.initialized_ THEN trust ELSE @]

\* Mutant of UpdateIsLoadErrorPageFinish: the failed url is not reloaded.
WithoutReloadTimer(p, is_error) ==
  [p EXCEPT !.is_load_error_page_finish_ = is_error]

\* The reload timer is started when an error page is loaded, and stopped when it
\* is left.
UpdateIsLoadErrorPageFinish(p, is_error) ==
  [p EXCEPT !.is_load_error_page_finish_ = is_error,
            !.net_error_reload_timer_ =
              is_error \/ (@ /\ ~p.is_load_error_page_finish_)]

\* Mutant of TrustLevelAfter: only an error page changes the trust level.
TrustedOnce(is_error) == IF is_error THEN "trusted" ELSE page.trust_level_

\* The trust level once a document is loaded. One that is trusted already, and
\* one of the same sort as the document before, get the level of the app.
TrustLevelAfter(is_error) ==
  IF page.trust_level_ # "trusted" /\ page.is_load_error_page_finish_ # is_error
    THEN IF is_error THEN "trusted" ELSE page.trust_level_
    ELSE app.trust_level

LoadFinished ==
  /\ Running /\ view.unfinished
  /\ LET is_error == view.url = "error"
         trust    == TrustLevelAfter(is_error)
     IN  /\ page' = [UpdateIsLoadErrorPageFinish(page, is_error)
                       EXCEPT !.trust_level_ = trust]
         /\ view' = [UpdateExtensionData(view, trust) EXCEPT !.unfinished = FALSE]
  /\ UNCHANGED <<desc, app, host>>

\* The app may have a policy of its own, and the system no error page in the
\* language it has now.
LoadErrorPage(v) ==
  IF page.load_error_policy_ = "event" THEN {v}
  ELSE {IF Found(tag, host.files) = {} THEN v ELSE LoadUrl(v, "error") :
          tag \in Tags}

HandleLoadFailed(v, code) ==
  IF page.is_preload_ \/ code = "no content" THEN {v} ELSE LoadErrorPage(v)

\* Mutant of Reloaded: a load that the change of the network ended is not tried
\* again.
NotReloaded(v) == {[v EXCEPT !.loading = "none"]}

\* A load that a change of the network ended is tried again.
Reloaded(v) == {LoadUrl(v, url) : url \in GetUrl(v)}

\* A load that fails closes a preloaded app, unless its script keeps it alive.
WebPageLoadFailed ==
  IF page.is_preload_ THEN {"closed"} \cup (IF OwnDocument THEN {"running"} ELSE {})
                      ELSE {"running"}

LoadFailed(code) ==
  /\ \E status \in WebPageLoadFailed : app' = [app EXCEPT !.status = status]
  /\ IF code = "network changed"
       THEN view' \in Reloaded(view) /\ UNCHANGED page
       ELSE /\ page' = [page EXCEPT !.load_failed_url_ = view.loading]
            /\ view' \in HandleLoadFailed([view EXCEPT !.loading = "none"], code)
  /\ UNCHANGED desc

LoadFails ==
  /\ Running
  /\ \/ /\ Scheme(view.loading) = "mailto"
        /\ LoadFailed("no content") /\ UNCHANGED host
     \/ /\ Scheme(view.loading) = "https" /\ ~host.reachable
        /\ LoadFailed("disconnected") /\ UNCHANGED host
     \/ /\ Scheme(view.loading) = "https" /\ host.changed
        /\ LoadFailed("network changed")
        /\ host' = [host EXCEPT !.changed = FALSE]

-----------------------------------------------------------------------------
(* What else loads a page.                                                 *)

\* The timer repeats: it takes the place of any load that is under way when it
\* fires, of one that it began too.
ReloadTimerFires ==
  /\ Running /\ page.net_error_reload_timer_
  /\ view' = LoadUrl(view, page.load_failed_url_)
  /\ UNCHANGED <<desc, app, host, page>>

NetworkChanges ==
  /\ Running
  /\ host' = [host EXCEPT !.reachable = ~@, !.changed = TRUE]
  /\ UNCHANGED <<desc, app, page, view>>

\* WAM is told of the network some time later.
UpdateNetworkStatus ==
  /\ Running /\ host.told # host.reachable
  /\ host' = [host EXCEPT !.told = host.reachable]
  /\ view' = IF host.reachable /\ page.is_load_error_page_finish_
               THEN LoadUrl(view, page.load_failed_url_) ELSE view
  /\ UNCHANGED <<desc, app, page>>

SetLoadErrorPolicy ==
  /\ Running /\ OwnDocument
  /\ \E policy \in Policies : page' = [page EXCEPT !.load_error_policy_ = policy]
  /\ UNCHANGED <<desc, app, host, view>>

\* In the foreground: a new view, with the page's properties as at first, loads
\* the default page.
RenderProcessCrashed ==
  /\ Running /\ ~page.is_preload_ /\ host.crashes < MaxCrashes
  /\ host' = [host EXCEPT !.crashes = @ + 1]
  /\ page' = [page EXCEPT !.trust_level_ = app.trust_level]
  /\ view' = LoadUrl(NewView, app.default_url_)
  /\ UNCHANGED <<desc, app>>

Next ==
  \/ Launch \/ Relaunch
  \/ StartNavigation \/ ScriptNavigates \/ Commit \/ LoadFinished \/ LoadFails
  \/ ReloadTimerFires \/ NetworkChanges \/ UpdateNetworkStatus
  \/ SetLoadErrorPolicy \/ RenderProcessCrashed

\* The engine takes each load to its end, and the timer's event loop runs. A load
\* that is tried again and again gets its answer before the next try some time:
\* the timer waits a minute.
Fairness ==
  /\ WF_vars(StartNavigation)
  /\ SF_vars(Commit \/ LoadFails)
  /\ WF_vars(LoadFinished)
  /\ WF_vars(ReloadTimerFires)

Spec == Init /\ [][Next]_vars /\ Fairness

-----------------------------------------------------------------------------
(* Properties.                                                             *)

\* Each variable has its type; the trust level is one that the engine knows,
\* whatever the description says.
TypeOK ==
  /\ desc \in DescType /\ app \in AppType /\ host \in HostType
  /\ page \in PageType /\ view \in ViewType

\* A member that is optional and has the wrong type is as good as absent: the
\* description of the json without it is the same.
WrongTypeIsAbsent(json, disk, key, type) ==
  Member(json, key).is # type =>
    LET without == [json EXCEPT !.object =
                      [k \in DOMAIN json.object \ {key} |-> json.object[k]]]
    IN  FromJsonString(without, disk) = FromJsonString(json, disk)

IsPositive(ratio) == ratio[1] > 0 /\ ratio[2] > 0

\* The page can be scaled: the window's scales and the page's ratio are positive
\* numbers, also when another app is launched before the page asks, which
\* changes the size of the user interface for all.
CanBeScaled(d) ==
  \A display, other \in Displays, hardware \in {<<>>} \cup {<<s>> : s \in Displays} :
    LET new  == [display |-> <<>>, hardware |-> hardware]
        own  == InitWindow(new, d, display)
        then == SetDisplaySize(own, other)
    IN  /\ \A scale \in ToSet(ContentsScale(d, display)) : IsPositive(scale)
        /\ \A device \in {own, then} : IsPositive(DevicePixelRatio(device, d))

\* A description that WAM accepts can be used as it is, whatever was wrong with
\* the json: optional members of a wrong type do no harm, and width and height
\* are both there and positive or both left to the screen, as the page divides
\* by them.
DescriptionsUsable ==
  (desc # <<>> /\ desc.json.is = "object") => (~Throws(desc.json) =>
    LET d == FromJsonString(desc.json, desc.disk)
    IN  /\ CanBeScaled(d)
        /\ \A n \in ToSet(d.delay_ms_for_launch_optimization) : n > 0
        /\ \A key \in DOMAIN LenientBools :
             WrongTypeIsAbsent(desc.json, desc.disk, key, "bool")
        /\ \A key \in LenientTexts \cup
               {"resolution", "v8SnapshotFile", "thirdPartyCookiesPolicy"} :
             WrongTypeIsAbsent(desc.json, desc.disk, key, "text")
        /\ \A key \in {"keyFilterTable", "webAppPermissions",
                       "supportedEnyoBundleVersions"} :
             WrongTypeIsAbsent(desc.json, desc.disk, key, "list")
        /\ \A key \in {"accessibility", "class", "windowGroup"} :
             WrongTypeIsAbsent(desc.json, desc.disk, key, "object"))

\* The subtags of the language a directory is for: a tag may stand for one whose
\* subtags are some of its own, except that a page for a script is for all its
\* regions only if the tag names none.
Subtags(d) ==
  IF Len(d) > 2 THEN SubSeq(d, 2, Len(d) - 1) ELSE <<>>

Serves(d, tag) ==
  LET s == Subtags(d)
  IN  \/ d = <<>> \/ s = <<>>
      \/ /\ FromString(tag) # {} /\ s[1] = tag[1]
         /\ \/ s = tag \/ Len(s) = 1
            \/ Len(s) = 2 /\ Len(tag) = 3 /\ s[2] = tag[3]

\* The error page a failed load shows is the one for the most of the language
\* that the system has: of the pages that serve it none is for more subtags. It
\* does not depend on the app, and is asked of every set of directories before
\* the app is launched.
ErrorPageIsNearest ==
  app.status = "none" =>
    \A tag \in Tags, files \in SUBSET UNION FileSets :
      LET serving == {d \in files : Serves(d, tag)}
      IN  /\ Found(tag, files) = {} <=> serving = {}
          /\ \A d \in Found(tag, files), e \in serving :
               Len(Subtags(d)) >= Len(Subtags(e))

\* An app is not left without a document: a first load that fails, one that a
\* change of the network ended and the reload after a crash end at a page or at
\* the error page, if there is one and the app did not ask to be told instead.
\* (The reload timer survives a crash, and may then try a link no browser
\* follows.)
NeverBlank ==
  (Running /\ Quiet /\ view.url = "none" /\ app.default_url_ # "none") =>
    \/ page.load_error_policy_ = "event"
    \/ page.load_failed_url_ = "mail"
    \/ \E tag \in Tags : Found(tag, host.files) = {}

\* The trust of the error page ends with it: a page of the app, once loaded, has
\* the app's own trust level, in WAM and in the webOSSystem object of the page,
\* however many error pages, reloads and crashes came before.
TrustReturns ==
  (Running /\ Quiet /\ OwnDocument) =>
    /\ page.trust_level_ = app.trust_level
    /\ view.extension = app.trust_level

\* The error page does not stay when the failed url can be loaded again: the
\* reload timer tries it also when WAM was told of the network too early or was
\* not told at all. (Not so a link no browser follows, and an app that asked to
\* be told of failures itself.)
RecoversFromErrorPage ==
  []<>(\/ ~host.reachable \/ ~page.is_load_error_page_finish_
       \/ page.load_error_policy_ = "event" \/ page.load_failed_url_ = "mail")

\* What error_page_test.cc expects of the page once the error page is loaded,
\* here after any failure: it is trusted, so that it can use the system's
\* services.
ErrorPageIsTrusted ==
  (Running /\ Quiet /\ view.url = "error") => page.trust_level_ = "trusted"

=============================================================================
