--------------------------- MODULE WebAppFactory ----------------------------
(***************************************************************************)
(* WebAppFactoryManagerImpl and its PluginLoader: the factories that make  *)
(* the apps and pages of an app type come from plugins, libraries of one   *)
(* directory. They are loaded when the manager is constructed, or one by   *)
(* one when a launch asks for a type. The manager is constructed by the    *)
(* first launch. Plugins are installed and removed meanwhile.              *)
(***************************************************************************)
EXTENDS Naturals, FiniteSets

CONSTANTS
  Files,       \* the libraries that may be in the plugin directory
  Names,       \* app types, which are also the keys of the plugins
  Default,     \* the app type of apps that name none
  PluginTypes, \* the types the environment variable WEBAPPFACTORY lists
  Contains,    \* <<key, type>>: the text of the key contains that of the type
  Apps,        \* the apps the process allocates; the bound on launches
  NoFile,      \* no plugin
  MaxChanges   \* bound: changes of the plugin directory

ASSUME FilesAssumption == IsFiniteSet(Files) /\ NoFile \notin Files
ASSUME NamesAssumption == Default \in Names /\ PluginTypes \subseteq Names
ASSUME ContainsAssumption == \A n \in Names : <<n, n>> \in Contains
ASSUME ChangesAssumption == MaxChanges \in Nat

VARIABLES
  order,    \* the order in which readdir returns files
  key,      \* the types a library says it is for: kPluginApplicationType
  on_disk,  \* whether a file is there, and whether it is a library with a factory
  load_pluggable_on_demand_,
  manager,  \* WebAppFactoryManagerImpl, constructed once
  apps,     \* the apps, each with the plugin that made it and its page
  changes   \* changes of the directory so far

vars == <<order, key, on_disk, load_pluggable_on_demand_, manager, apps, changes>>

\* No such file, one that dlopen refuses, a library without CreateInstance, one
\* with it.
DiskStates == {"absent", "unreadable", "no_factory", "factory"}

\* What PluginLoader has of a file: no handle, a handle of a library without or
\* with CreateInstance, and one whose factory has been created.
Handles == {"none", "no_factory", "factory", "created"}

ManagerType ==
  [constructed : BOOLEAN,
   plugins     : [Files -> Handles],             \* PluginLoader::plugins_
   interfaces  : [Names -> Files \cup {NoFile}]] \* by the whole key

AppType ==
  [status : {"none", "live"}, app_type : Names,
   app : Files \cup {NoFile}, page : Files \cup {NoFile}]

TypeOK ==
  /\ order \in [Files -> Nat]
  /\ key \in [Files -> Names]
  /\ on_disk \in [Files -> DiskStates]
  /\ load_pluggable_on_demand_ \in BOOLEAN
  /\ manager \in ManagerType
  /\ apps \in [Apps -> AppType]
  /\ changes \in 0..MaxChanges

Injective(f) == \A x, y \in DOMAIN f : f[x] = f[y] => x = y

NoApp == [status |-> "none", app_type |-> Default, app |-> NoFile, page |-> NoFile]

Init ==
  /\ order \in [Files -> 1..Cardinality(Files)] /\ Injective(order)
  /\ key \in [Files -> Names]
  /\ on_disk \in [Files -> DiskStates]
  /\ load_pluggable_on_demand_ \in BOOLEAN
  /\ manager = [constructed |-> FALSE,
                plugins     |-> [f \in Files |-> "none"],
                interfaces  |-> [n \in Names |-> NoFile]]
  /\ apps = [x \in Apps |-> NoApp]
  /\ changes = 0

-----------------------------------------------------------------------------
(* Loading. m is the manager before, the value of an operator the manager  *)
(* after.                                                                  *)

\* Mutant of factory_env_: every type is enabled.
AnyType == Names

factory_env_ == PluginTypes \cup {Default}

\* The first of files that readdir returns, if there is one.
First(files) ==
  IF files = {} THEN NoFile
  ELSE CHOOSE f \in files : \A g \in files : order[f] <= order[g]

\* PluginLoader::Load of a file GetFileList returns: a handle is kept, and found
\* again whatever the file has become.
Load(m, f) ==
  IF m.plugins[f] = "none" /\ on_disk[f] \in Handles THEN on_disk[f]
                                                     ELSE m.plugins[f]

Loads(m, f) == on_disk[f] # "absent" /\ Load(m, f) # "none"

\* Mutant of Passed: a library that does not serve the type is closed.
PassedIsUnloaded(m, f) == "none"

\* The handle of a file that the walk goes past: it stays open.
Passed(m, f) == IF Loads(m, f) THEN Load(m, f) ELSE m.plugins[f]

\* GetWebAppFactoryInstance, and Unload of a library that has none.
GetWebAppFactoryInstance(handle) ==
  IF handle \in {"factory", "created"} THEN "created" ELSE "none"

\* Mutants of Emplace: the factory is recorded by its file; the last plugin of a
\* key takes the place of another one.
EmplaceByFile(interfaces, f) ==
  [n \in DOMAIN interfaces \cup {f} |-> IF n = f THEN f ELSE interfaces[n]]

Assign(interfaces, f) == [interfaces EXCEPT ![key[f]] = f]

\* interfaces_.emplace keeps the factory that is there.
Emplace(interfaces, f) ==
  [interfaces EXCEPT ![key[f]] = IF @ = NoFile THEN f ELSE @]

\* LoadPluggable without a type, when the manager is constructed: every file in
\* turn. The first plugin of a key has it.
LoadAll(m) ==
  LET plugins == [f \in Files |-> IF Loads(m, f)
                                    THEN GetWebAppFactoryInstance(Load(m, f))
                                    ELSE m.plugins[f]]
      OfKey(n) == {f \in Files : plugins[f] = "created" /\ key[f] = n}
  IN  [m EXCEPT !.plugins = plugins,
                !.interfaces = [n \in Names |-> IF @[n] # NoFile THEN @[n]
                                                ELSE First(OfKey(n))]]

Construct(m) ==
  IF m.constructed THEN m
  ELSE LET c == [m EXCEPT !.constructed = TRUE]
       IN  IF load_pluggable_on_demand_ THEN c ELSE LoadAll(c)

\* Mutant of Serves: any plugin serves any type on demand too.
ServesAny(f, app_type) == TRUE

\* Without loading on demand the first plugin serves each type that is not the
\* whole key of another one.
Serves(f, app_type) ==
  \/ <<key[f], app_type>> \in Contains
  \/ ~load_pluggable_on_demand_

\* The file at which the walk of LoadPluggable over the directory ends.
Candidate(m, app_type) ==
  First({f \in Files : Loads(m, f) /\ Serves(f, app_type)})

\* LoadPluggable of a type: every file is opened up to the first that serves it,
\* and no other one is tried if that one has no factory.
LoadPluggable(m, app_type) ==
  LET last    == Candidate(m, app_type)
      Visited(f) == last = NoFile \/ order[f] < order[last]
      opened  == [f \in Files |-> IF Visited(f) THEN Passed(m, f)
                                               ELSE m.plugins[f]]
      created == GetWebAppFactoryInstance(Load(m, last))
  IN  IF app_type \notin factory_env_ THEN m
      ELSE IF last = NoFile THEN [m EXCEPT !.plugins = opened]
      ELSE [m EXCEPT
              !.plugins = [opened EXCEPT ![last] = created],
              !.interfaces = IF created = "created" THEN Emplace(@, last) ELSE @]

Loaded(m, app_type) ==
  LET last == Candidate(m, app_type)
  IN  IF app_type \in factory_env_ /\ last # NoFile
         /\ GetWebAppFactoryInstance(Load(m, last)) = "created"
        THEN last ELSE NoFile

\* GetPluggable: the factory of the whole key, or one that is loaded for the type.
AfterGetPluggable(m, app_type) ==
  IF m.interfaces[app_type] # NoFile THEN m ELSE LoadPluggable(m, app_type)

GetPluggable(m, app_type) ==
  IF m.interfaces[app_type] # NoFile THEN m.interfaces[app_type]
                                     ELSE Loaded(m, app_type)

\* Mutant of PageFactory: the default factory is asked first.
DefaultPageFactory(m, app_type) ==
  IF m.interfaces[Default] # NoFile THEN m.interfaces[Default]
                                    ELSE GetPluggable(m, app_type)

\* CreateWebPage: the default factory if none is found for the type.
PageFactory(m, app_type) ==
  IF GetPluggable(m, app_type) # NoFile THEN GetPluggable(m, app_type)
                                        ELSE m.interfaces[Default]

-----------------------------------------------------------------------------
(* Launches.                                                               *)

WindowTypeFromString(str) ==
  IF str \in {"overlay", "popup", "minimal", "floating", "system_ui"}
    THEN str ELSE "card"

\* The window types of WebAppFactoryLuna. What those of another plugin are is
\* its own affair.
LunaMakes(win_type) ==
  win_type \in {"card", "popup", "minimal", "floating", "system_ui",
                "overlay", "none"}

Makes(f, win_type, other) ==
  f # NoFile /\ (IF key[f] = Default THEN LunaMakes(win_type) ELSE other)

\* OnLaunchUrl asks for a factory twice, for the app and for its page. A launch
\* that gets no app ends with kErrCodeLaunchappUnsupportedType.
OnLaunchUrl(x, app_type, str, other) ==
  LET m1   == AfterGetPluggable(Construct(manager), app_type)
      made == GetPluggable(Construct(manager), app_type)
      m2   == AfterGetPluggable(m1, app_type)
  IN  /\ apps[x].status = "none"
      /\ IF Makes(made, WindowTypeFromString(str), other)
           THEN /\ manager' = m2
                /\ apps' = [apps EXCEPT ![x] =
                              [status |-> "live", app_type |-> app_type,
                               app |-> made, page |-> PageFactory(m1, app_type)]]
           ELSE manager' = m1 /\ UNCHANGED apps
      /\ UNCHANGED <<order, key, on_disk, load_pluggable_on_demand_, changes>>

CloseWebApp(x) ==
  /\ apps[x].status = "live"
  /\ apps' = [apps EXCEPT ![x] = NoApp]
  /\ UNCHANGED <<order, key, on_disk, load_pluggable_on_demand_, manager, changes>>

\* A package manager installs, replaces or removes a plugin.
ChangeDirectory(f, disk) ==
  /\ changes < MaxChanges
  /\ on_disk[f] # disk
  /\ on_disk' = [on_disk EXCEPT ![f] = disk]
  /\ changes' = changes + 1
  /\ UNCHANGED <<order, key, load_pluggable_on_demand_, manager, apps>>

Next ==
  \/ \E x \in Apps, app_type \in Names, str \in {"overlay", "unknown"},
        other \in BOOLEAN : OnLaunchUrl(x, app_type, str, other)
  \/ \E x \in Apps : CloseWebApp(x)
  \/ \E f \in Files, disk \in DiskStates : ChangeDirectory(f, disk)

Spec == Init /\ [][Next]_vars

-----------------------------------------------------------------------------
(* Properties.                                                             *)

Live(x) == apps[x].status = "live"

\* The code of an app, of its page and of every factory the manager has recorded
\* stays loaded: a library is closed only when it has no factory, whatever was
\* installed, replaced or removed since it was opened, and however often the
\* directory is walked again.
FactoriesStayLoaded ==
  /\ \A n \in Names : manager.interfaces[n] # NoFile =>
       manager.plugins[manager.interfaces[n]] = "created"
  /\ \A x \in Apps : Live(x) =>
       manager.plugins[apps[x].app] = "created"

\* OnLaunchUrl uses the page of CreateWebPage without a check: once there is an
\* app there is a page, and both are made by the same plugin, although the
\* factory is looked up twice and the first look-up may have loaded it.
OneFactoryPerApp ==
  \A x \in Apps : Live(x) =>
    apps[x].page # NoFile /\ apps[x].page = apps[x].app

\* With plugins loaded on demand an app is made by a plugin whose key has its
\* type in it: a factory loaded for another type is never taken for it.
ServesDeclaredTypes ==
  load_pluggable_on_demand_ =>
    \A x \in Apps : Live(x) => <<key[apps[x].app], apps[x].app_type>> \in Contains

\* An app of a type that WEBAPPFACTORY does not list is made, if at all, by a
\* plugin whose whole key is this type, which was loaded for another reason: no
\* plugin is loaded for it, and none that only contains it is used.
EnabledOrNamed ==
  \A x \in Apps : Live(x) =>
    \/ apps[x].app_type \in PluginTypes \cup {Default}
    \/ key[apps[x].app] = apps[x].app_type

\* The factory of a key never changes: plugins of the same key that are found
\* later, when the directory is walked for another type, do not take its place,
\* so that an app and the next one of the same type have one factory.
FactoryOfKeyIsFixed ==
  [][\A n \in Names : manager.interfaces[n] # NoFile =>
       manager'.interfaces[n] = manager.interfaces[n]]_vars

=============================================================================
