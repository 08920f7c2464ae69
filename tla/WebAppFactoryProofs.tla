------------------------ MODULE WebAppFactoryProofs -------------------------
(***************************************************************************)
(* Proofs about WebAppFactory, for any plugins, keys and app types, and    *)
(* any number of launches and changes of the directory.                    *)
(***************************************************************************)
EXTENDS WebAppFactory, FiniteSetTheorems, WellFoundedInduction, TLAPS

-----------------------------------------------------------------------------
(* The first file.                                                         *)

\* Of any files readdir returns one before all of the others.
LEMMA FirstIsOne ==
  ASSUME NEW files \in SUBSET Files, order \in [Files -> Nat], files # {}
  PROVE  First(files) \in files
<1> DEFINE T == {order[f] : f \in files}
<1>1. T \subseteq Nat /\ T # {}
  OBVIOUS
<1>2. PICK n \in T : \A k \in T : ~ (<<k, n>> \in OpToRel(<, Nat))
  BY <1>1, NatLessThanWellFounded, WFMin
<1>3. \A k \in T : n <= k
  <2> TAKE k \in T
  <2>1. ~ (k < n)
    BY <1>1, <1>2 DEF OpToRel
  <2> QED
    BY <2>1, <1>1
<1>4. PICK f \in files : order[f] = n
  OBVIOUS
<1>5. \A g \in files : order[f] <= order[g]
  BY <1>3, <1>4
<1> QED
  BY <1>5 DEF First

\* First returns a file of the set, or none.
LEMMA FirstType ==
  ASSUME NEW files \in SUBSET Files, order \in [Files -> Nat]
  PROVE  /\ First(files) \in Files \cup {NoFile}
         /\ First(files) # NoFile => First(files) \in files
BY FirstIsOne, FilesAssumption DEF First

-----------------------------------------------------------------------------
(* The inductive invariant.                                                *)

\* What is known of a manager: the factories it has recorded are loaded, each
\* under its own key.
Sound(m) ==
  /\ m \in ManagerType
  /\ \A n \in Names : m.interfaces[n] # NoFile =>
       /\ m.plugins[m.interfaces[n]] = "created"
       /\ key[m.interfaces[n]] = n

\* m2 comes after m: what was created stays, and no record changes.
Extends(m, m2) ==
  /\ \A f \in Files : m.plugins[f] = "created" => m2.plugins[f] = "created"
  /\ \A n \in Names : m.interfaces[n] # NoFile => m2.interfaces[n] = m.interfaces[n]

AppOK(x) ==
  Live(x) =>
    /\ apps[x].app \in Files
    /\ manager.plugins[apps[x].app] = "created"
    /\ apps[x].page = apps[x].app
    /\ load_pluggable_on_demand_ =>
         <<key[apps[x].app], apps[x].app_type>> \in Contains
    /\ \/ apps[x].app_type \in factory_env_
       \/ key[apps[x].app] = apps[x].app_type

IInv ==
  /\ TypeOK
  /\ Sound(manager)
  /\ \A x \in Apps : AppOK(x)

USE FilesAssumption, NamesAssumption, ContainsAssumption, ChangesAssumption

-----------------------------------------------------------------------------
(* Loading keeps a manager sound.                                          *)

\* A walk over the directory keeps every handle the manager has created.
LEMMA LoadType ==
  ASSUME TypeOK, NEW m \in ManagerType, NEW f \in Files
  PROVE  /\ Load(m, f) \in Handles
         /\ Passed(m, f) \in Handles
         /\ GetWebAppFactoryInstance(Load(m, f)) \in Handles
         /\ m.plugins[f] = "created" => /\ Load(m, f) = "created"
                                        /\ Passed(m, f) = "created"
<1>1. m.plugins[f] \in Handles
  BY DEF ManagerType
<1> QED
  BY <1>1 DEF Load, Passed, Loads, GetWebAppFactoryInstance, Handles, TypeOK

\* Emplace records a factory under its own key, unless another one is there.
LEMMA EmplaceKeeps ==
  ASSUME TypeOK, NEW interfaces \in [Names -> Files \cup {NoFile}],
         NEW f \in Files
  PROVE  /\ Emplace(interfaces, f) \in [Names -> Files \cup {NoFile}]
         /\ \A n \in Names : interfaces[n] # NoFile =>
              Emplace(interfaces, f)[n] = interfaces[n]
         /\ \A n \in Names : interfaces[n] = NoFile =>
              Emplace(interfaces, f)[n] = (IF key[f] = n THEN f ELSE NoFile)
BY DEF Emplace, TypeOK

\* The constructor that loads every plugin.
LEMMA LoadAllIsSound ==
  ASSUME TypeOK, NEW m, Sound(m)
  PROVE  Sound(LoadAll(m)) /\ Extends(m, LoadAll(m))
<1> DEFINE plugins == [f \in Files |-> IF Loads(m, f)
                                         THEN GetWebAppFactoryInstance(Load(m, f))
                                         ELSE m.plugins[f]]
           OfKey(n) == {f \in Files : plugins[f] = "created" /\ key[f] = n}
           interfaces == [n \in Names |-> IF m.interfaces[n] # NoFile
                                            THEN m.interfaces[n]
                                            ELSE First(OfKey(n))]
<1>1. m \in ManagerType
  BY DEF Sound
<1>2. LoadAll(m) = [m EXCEPT !.plugins = plugins, !.interfaces = interfaces]
  BY <1>1 DEF LoadAll, ManagerType
<1>3. plugins \in [Files -> Handles]
  BY <1>1, LoadType DEF ManagerType
<1>4. \A f \in Files : m.plugins[f] = "created" => plugins[f] = "created"
  BY <1>1, LoadType DEF GetWebAppFactoryInstance
<1>5. \A n \in Names : /\ First(OfKey(n)) \in Files \cup {NoFile}
                       /\ First(OfKey(n)) # NoFile => First(OfKey(n)) \in OfKey(n)
  <2> TAKE n \in Names
  <2> OfKey(n) \in SUBSET Files
    OBVIOUS
  <2> HIDE DEF OfKey
  <2> QED
    BY FirstType DEF TypeOK
<1>6. interfaces \in [Names -> Files \cup {NoFile}]
  BY <1>1, <1>5 DEF ManagerType
<1>7. ASSUME NEW n \in Names, interfaces[n] # NoFile
      PROVE  plugins[interfaces[n]] = "created" /\ key[interfaces[n]] = n
  <2>1. CASE m.interfaces[n] # NoFile
    <3>1. m.interfaces[n] \in Files
      BY <2>1, <1>1 DEF ManagerType
    <3> QED
      BY <2>1, <3>1, <1>4 DEF Sound
  <2>2. CASE m.interfaces[n] = NoFile
    BY <2>2, <1>5, <1>7
  <2> QED
    BY <2>1, <2>2
<1> HIDE DEF plugins, interfaces
<1>8. /\ LoadAll(m) \in ManagerType
      /\ LoadAll(m).plugins = plugins
      /\ LoadAll(m).interfaces = interfaces
  BY <1>1, <1>2, <1>3, <1>6 DEF ManagerType
<1>9. \A n \in Names : m.interfaces[n] # NoFile => interfaces[n] = m.interfaces[n]
  BY DEF interfaces
<1> QED
  BY <1>4, <1>7, <1>8, <1>9 DEF Sound, Extends

LEMMA ConstructIsSound ==
  ASSUME TypeOK, NEW m, Sound(m)
  PROVE  Sound(Construct(m)) /\ Extends(m, Construct(m))
<1> DEFINE c == [m EXCEPT !.constructed = TRUE]
<1>1. m \in ManagerType
  BY DEF Sound
<1>2. c \in ManagerType /\ c.plugins = m.plugins /\ c.interfaces = m.interfaces
  BY <1>1 DEF ManagerType
<1>3. Sound(c)
  BY <1>2 DEF Sound
<1>4. Sound(LoadAll(c)) /\ Extends(c, LoadAll(c))
  BY <1>3, LoadAllIsSound
<1>5. Extends(m, m) /\ Extends(m, c)
  BY <1>2 DEF Extends
<1>6. Extends(m, LoadAll(c))
  BY <1>2, <1>4 DEF Extends
<1>7. Construct(m) \in {m, c, LoadAll(c)}
  BY DEF Construct
<1> HIDE DEF c
<1> QED
  BY <1>3, <1>4, <1>5, <1>6, <1>7

-----------------------------------------------------------------------------
(* Looking a factory up.                                                   *)

\* The file at which the walk ends can be opened, and serves the type.
LEMMA CandidateServes ==
  ASSUME TypeOK, NEW m, NEW app_type
  PROVE  /\ Candidate(m, app_type) \in Files \cup {NoFile}
         /\ Candidate(m, app_type) # NoFile =>
              /\ Loads(m, Candidate(m, app_type))
              /\ Serves(Candidate(m, app_type), app_type)
<1> DEFINE candidates == {f \in Files : Loads(m, f) /\ Serves(f, app_type)}
<1>1. candidates \in SUBSET Files
  OBVIOUS
<1>2. Candidate(m, app_type) = First(candidates)
  BY DEF Candidate
<1> QED
  BY <1>1, <1>2, FirstType DEF TypeOK

\* LoadPluggable changes the handles of the files it opens, and records at most
\* the one it returns.
LEMMA LoadPluggableIsSound ==
  ASSUME TypeOK, NEW m, Sound(m), NEW app_type \in Names
  PROVE  /\ Sound(LoadPluggable(m, app_type))
         /\ Extends(m, LoadPluggable(m, app_type))
         /\ \A f \in Files :
              \/ LoadPluggable(m, app_type).plugins[f] \in {m.plugins[f], Passed(m, f)}
              \/ /\ f = Candidate(m, app_type)
                 /\ LoadPluggable(m, app_type).plugins[f] =
                      GetWebAppFactoryInstance(Load(m, f))
         /\ Loaded(m, app_type) # NoFile =>
              /\ LoadPluggable(m, app_type).plugins[Loaded(m, app_type)] = "created"
              /\ LoadPluggable(m, app_type).interfaces =
                   Emplace(m.interfaces, Loaded(m, app_type))
<1> DEFINE last    == Candidate(m, app_type)
           Visited(f) == last = NoFile \/ order[f] < order[last]
           opened  == [f \in Files |-> IF Visited(f) THEN Passed(m, f)
                                                    ELSE m.plugins[f]]
           created == GetWebAppFactoryInstance(Load(m, last))
           interfaces == IF created = "created" THEN Emplace(m.interfaces, last)
                                                ELSE m.interfaces
           plugins == [opened EXCEPT ![last] = created]
           m2 == LoadPluggable(m, app_type)
<1>1. /\ m \in ManagerType
      /\ m.interfaces \in [Names -> Files \cup {NoFile}]
  BY DEF Sound, ManagerType
<1>2. /\ opened \in [Files -> Handles]
      /\ \A f \in Files : opened[f] \in {m.plugins[f], Passed(m, f)}
      /\ \A f \in Files : m.plugins[f] = "created" => opened[f] = "created"
  BY <1>1, LoadType DEF ManagerType
<1>3. CASE app_type \notin factory_env_
  <2>1. m2 = m /\ Loaded(m, app_type) = NoFile
    BY <1>3 DEF LoadPluggable, Loaded
  <2> QED
    BY <2>1 DEF Extends
<1>4. CASE app_type \in factory_env_ /\ last = NoFile
  <2>1. Loaded(m, app_type) = NoFile
    BY <1>4 DEF Loaded
  <2>2. m2 = [m EXCEPT !.plugins = opened]
    BY <1>4 DEF LoadPluggable
  <2> HIDE DEF opened
  <2>3. m2 \in ManagerType /\ m2.plugins = opened /\ m2.interfaces = m.interfaces
    BY <1>1, <1>2, <2>2 DEF ManagerType
  <2> HIDE DEF m2
  <2>4. Sound(m2)
    BY <1>1, <1>2, <2>3 DEF Sound
  <2> QED
    BY <1>2, <2>1, <2>3, <2>4 DEF Extends, m2
<1>5. CASE app_type \in factory_env_ /\ last # NoFile
  <2>1. last \in Files
    BY <1>5, CandidateServes
  <2>2. /\ created \in Handles
        /\ m.plugins[last] = "created" => created = "created"
        /\ Loaded(m, app_type) = (IF created = "created" THEN last ELSE NoFile)
    BY <1>1, <1>5, <2>1, LoadType DEF Loaded, GetWebAppFactoryInstance
  <2>3. m2 = [m EXCEPT !.plugins = plugins, !.interfaces = interfaces]
    BY <1>1, <1>5 DEF LoadPluggable, ManagerType
  <2> HIDE DEF opened
  <2>4. /\ plugins \in [Files -> Handles]
        /\ plugins[last] = created
        /\ \A f \in Files : f # last => plugins[f] = opened[f]
    BY <1>2, <2>1, <2>2
  <2>5. interfaces \in [Names -> Files \cup {NoFile}]
    BY <1>1, <2>1, EmplaceKeeps
  <2>6. \A n \in Names : m.interfaces[n] # NoFile => interfaces[n] = m.interfaces[n]
    BY <1>1, <2>1, EmplaceKeeps
  <2>7. \A n \in Names : m.interfaces[n] = NoFile /\ interfaces[n] # NoFile =>
          created = "created" /\ interfaces[n] = last /\ key[last] = n
    BY <1>1, <2>1, EmplaceKeeps
  <2>8. \A f \in Files : m.plugins[f] = "created" => plugins[f] = "created"
    BY <1>2, <2>2, <2>4
  <2> HIDE DEF plugins, interfaces
  <2>9. m2 \in ManagerType /\ m2.plugins = plugins /\ m2.interfaces = interfaces
    BY <1>1, <2>3, <2>4, <2>5 DEF ManagerType
  <2> HIDE DEF m2
  <2>10. \A n \in Names : m.interfaces[n] # NoFile =>
           /\ m.interfaces[n] \in Files
           /\ m.plugins[m.interfaces[n]] = "created"
           /\ key[m.interfaces[n]] = n
    BY <1>1 DEF Sound
  <2>11. ASSUME NEW n \in Names, interfaces[n] # NoFile
         PROVE  plugins[interfaces[n]] = "created" /\ key[interfaces[n]] = n
    <3>1. CASE m.interfaces[n] # NoFile
      BY <3>1, <2>6, <2>8, <2>10
    <3>2. CASE m.interfaces[n] = NoFile
      BY <3>2, <2>4, <2>7, <2>11
    <3> QED
      BY <3>1, <3>2
  <2>12. Sound(m2)
    BY <2>9, <2>11 DEF Sound
  <2>13. Extends(m, m2)
    BY <2>6, <2>8, <2>9 DEF Extends
  <2>14. \A f \in Files :
           \/ m2.plugins[f] \in {m.plugins[f], Passed(m, f)}
           \/ f = last /\ m2.plugins[f] = GetWebAppFactoryInstance(Load(m, f))
    BY <1>2, <2>4, <2>9
  <2>15. Loaded(m, app_type) # NoFile =>
           /\ m2.plugins[Loaded(m, app_type)] = "created"
           /\ m2.interfaces = Emplace(m.interfaces, Loaded(m, app_type))
    BY <2>2, <2>4, <2>9 DEF interfaces
  <2> QED
    BY <2>12, <2>13, <2>14, <2>15 DEF m2
<1> QED
  BY <1>3, <1>4, <1>5

\* GetPluggable returns a factory that is created and serves the type, by its
\* whole key or because it was loaded for it.
LEMMA GetPluggableIsSound ==
  ASSUME TypeOK, NEW m, Sound(m), NEW app_type \in Names,
         NEW f, f = GetPluggable(m, app_type), f # NoFile
  PROVE  /\ f \in Files
         /\ AfterGetPluggable(m, app_type).plugins[f] = "created"
         /\ \/ key[f] = app_type
            \/ Serves(f, app_type) /\ app_type \in factory_env_
<1>1. CASE m.interfaces[app_type] # NoFile
  <2>1. f = m.interfaces[app_type] /\ AfterGetPluggable(m, app_type) = m
    BY <1>1 DEF GetPluggable, AfterGetPluggable
  <2> QED
    BY <1>1, <2>1 DEF Sound, ManagerType
<1>2. CASE m.interfaces[app_type] = NoFile
  <2>1. /\ f = Loaded(m, app_type)
        /\ AfterGetPluggable(m, app_type) = LoadPluggable(m, app_type)
    BY <1>2 DEF GetPluggable, AfterGetPluggable
  <2>2. f = Candidate(m, app_type) /\ app_type \in factory_env_
    BY <2>1 DEF Loaded
  <2>3. f \in Files /\ Serves(f, app_type)
    BY <2>2, CandidateServes
  <2>4. LoadPluggable(m, app_type).plugins[f] = "created"
    BY <2>1, <2>3, LoadPluggableIsSound
  <2> QED
    BY <2>1, <2>2, <2>3, <2>4
<1> QED
  BY <1>1, <1>2

LEMMA AfterGetPluggableIsSound ==
  ASSUME TypeOK, NEW m, Sound(m), NEW app_type \in Names
  PROVE  /\ Sound(AfterGetPluggable(m, app_type))
         /\ Extends(m, AfterGetPluggable(m, app_type))
<1>1. Extends(m, m)
  BY DEF Extends
<1> QED
  BY <1>1, LoadPluggableIsSound DEF AfterGetPluggable

\* A second walk for the same type ends at the same file, since the first one
\* closes only a file that has no factory.
LEMMA SameCandidate ==
  ASSUME TypeOK, NEW m, Sound(m), NEW app_type \in Names,
         Loaded(m, app_type) # NoFile
  PROVE  Loaded(LoadPluggable(m, app_type), app_type) = Loaded(m, app_type)
<1> DEFINE m2   == LoadPluggable(m, app_type)
           last == Candidate(m, app_type)
<1>1. /\ m \in ManagerType
      /\ last = Loaded(m, app_type)
      /\ last \in Files
      /\ app_type \in factory_env_
      /\ GetWebAppFactoryInstance(Load(m, last)) = "created"
  BY CandidateServes DEF Sound, Loaded
<1>2. /\ \A f \in Files :
           \/ m2.plugins[f] \in {m.plugins[f], Passed(m, f)}
           \/ f = last /\ m2.plugins[f] = GetWebAppFactoryInstance(Load(m, f))
      /\ m2.plugins[last] = "created"
      /\ m2 \in ManagerType
  BY <1>1, LoadPluggableIsSound DEF Sound
<1> HIDE DEF m2, last
<1>3. Load(m2, last) = "created"
  BY <1>2 DEF Load
<1>4. ASSUME NEW f \in Files
      PROVE  Loads(m2, f) <=> Loads(m, f)
  <2>1. m.plugins[f] \in Handles /\ on_disk[f] \in DiskStates
    BY <1>1 DEF ManagerType, TypeOK
  <2>2. CASE f = last
    BY <1>1, <1>2, <1>3, <2>1, <2>2
       DEF Loads, Load, GetWebAppFactoryInstance, Handles, DiskStates
  <2>3. CASE m2.plugins[f] = m.plugins[f]
    BY <2>3 DEF Loads, Load
  <2>4. CASE m2.plugins[f] = Passed(m, f)
    BY <2>1, <2>4 DEF Passed, Loads, Load, Handles, DiskStates
  <2> QED
    BY <1>2, <2>2, <2>3, <2>4
<1>5. Candidate(m2, app_type) = last
  <2>1. {f \in Files : Loads(m2, f) /\ Serves(f, app_type)}
         = {f \in Files : Loads(m, f) /\ Serves(f, app_type)}
    BY <1>4
  <2> QED
    BY <2>1 DEF Candidate, last
<1>6. Loaded(m2, app_type) = last
  BY <1>1, <1>3, <1>5, FilesAssumption DEF Loaded, GetWebAppFactoryInstance
<1> QED
  BY <1>1, <1>6 DEF m2

\* The second look-up of a launch returns the factory the first one did.
LEMMA SecondLookUp ==
  ASSUME TypeOK, NEW m, Sound(m), NEW app_type \in Names,
         GetPluggable(m, app_type) # NoFile
  PROVE  PageFactory(AfterGetPluggable(m, app_type), app_type)
           = GetPluggable(m, app_type)
<1> DEFINE f  == GetPluggable(m, app_type)
           m2 == AfterGetPluggable(m, app_type)
<1>1. SUFFICES GetPluggable(m2, app_type) = f
  BY DEF PageFactory
<1>2. CASE m.interfaces[app_type] # NoFile
  BY <1>2 DEF AfterGetPluggable, GetPluggable
<1>3. CASE m.interfaces[app_type] = NoFile
  <2>1. f = Loaded(m, app_type) /\ m2 = LoadPluggable(m, app_type)
    BY <1>3 DEF GetPluggable, AfterGetPluggable
  <2>2. f \in Files /\ m.interfaces \in [Names -> Files \cup {NoFile}]
    BY GetPluggableIsSound DEF Sound, ManagerType
  <2>3. m2.interfaces = Emplace(m.interfaces, f)
    BY <2>1, LoadPluggableIsSound
  <2>4. m2.interfaces[app_type] \in {f, NoFile}
    BY <1>3, <2>2, <2>3, EmplaceKeeps
  <2>5. Loaded(m2, app_type) = f
    BY <2>1, SameCandidate
  <2> QED
    BY <2>4, <2>5 DEF GetPluggable
<1> QED
  BY <1>2, <1>3

-----------------------------------------------------------------------------
(* The invariant.                                                          *)

LEMMA InitEstablishes == Init => IInv
<1> SUFFICES ASSUME Init PROVE IInv
  OBVIOUS
<1>1. Cardinality(Files) \in Nat
  BY FS_CardinalityType
<1>2. order \in [Files -> Nat]
  BY <1>1 DEF Init
<1>3. manager \in ManagerType /\ apps \in [Apps -> AppType]
  BY DEF Init, ManagerType, AppType, NoApp, Handles
<1>4. TypeOK
  BY <1>2, <1>3 DEF Init, TypeOK
<1>5. Sound(manager)
  BY <1>3 DEF Init, Sound
<1>6. \A x \in Apps : AppOK(x)
  BY DEF Init, AppOK, Live, NoApp
<1> QED
  BY <1>4, <1>5, <1>6 DEF IInv

\* What every step does to the manager.
ManagerGrows == Sound(manager)' /\ Extends(manager, manager')

\* An app stays as it should be while the manager grows.
LEMMA AppStays ==
  ASSUME IInv, ManagerGrows, NEW x \in Apps,
         UNCHANGED <<key, load_pluggable_on_demand_, apps[x]>>
  PROVE  AppOK(x)'
BY DEF IInv, ManagerGrows, Extends, AppOK, Live

LEMMA LaunchKeeps ==
  ASSUME IInv, NEW x \in Apps, NEW app_type \in Names, NEW str,
         NEW other \in BOOLEAN, OnLaunchUrl(x, app_type, str, other)
  PROVE  IInv' /\ ManagerGrows
<1> DEFINE c    == Construct(manager)
           m1   == AfterGetPluggable(c, app_type)
           m2   == AfterGetPluggable(m1, app_type)
           made == GetPluggable(c, app_type)
<1>1. Sound(c) /\ Extends(manager, c)
  BY ConstructIsSound DEF IInv
<1>2. Sound(m1) /\ Extends(c, m1)
  BY <1>1, AfterGetPluggableIsSound DEF IInv
<1>3. Sound(m2) /\ Extends(m1, m2)
  BY <1>2, AfterGetPluggableIsSound DEF IInv
<1>4. /\ manager' \in {m1, m2}
      /\ UNCHANGED <<order, key, on_disk, load_pluggable_on_demand_, changes>>
  BY DEF OnLaunchUrl
<1>5. \A f \in Files : manager.plugins[f] = "created" =>
        m1.plugins[f] = "created" /\ m2.plugins[f] = "created"
  BY <1>1, <1>2, <1>3 DEF Extends
<1>6. \A n \in Names : manager.interfaces[n] # NoFile =>
        /\ m1.interfaces[n] = manager.interfaces[n]
        /\ m2.interfaces[n] = manager.interfaces[n]
  BY <1>1, <1>2, <1>3 DEF Extends
<1>7. ManagerGrows
  <2>1. Sound(manager)'
    BY <1>2, <1>3, <1>4 DEF Sound
  <2> QED
    BY <2>1, <1>4, <1>5, <1>6 DEF ManagerGrows, Extends
<1>8. CASE Makes(made, WindowTypeFromString(str), other)
  <2> DEFINE new == [status |-> "live", app_type |-> app_type,
                     app |-> made, page |-> PageFactory(m1, app_type)]
  <2>1. apps' = [apps EXCEPT ![x] = new] /\ manager' = m2
    BY <1>8 DEF OnLaunchUrl
  <2>2. made # NoFile
    BY <1>8 DEF Makes
  <2>3. /\ made \in Files
        /\ m1.plugins[made] = "created"
        /\ \/ key[made] = app_type
           \/ Serves(made, app_type) /\ app_type \in factory_env_
    BY <1>1, <2>2, GetPluggableIsSound DEF IInv
  <2>4. PageFactory(m1, app_type) = made
    BY <1>1, <2>2, SecondLookUp DEF IInv
  <2>5. m2.plugins[made] = "created"
    BY <1>3, <2>3 DEF Extends
  <2>6. load_pluggable_on_demand_ => <<key[made], app_type>> \in Contains
    BY <2>3 DEF Serves
  <2>7. new \in AppType
    BY <2>3, <2>4 DEF AppType
  <2> HIDE DEF new, made, m1, m2, c
  <2>8. apps' \in [Apps -> AppType] /\ apps'[x] = new
    BY <2>1, <2>7 DEF IInv, TypeOK
  <2>9. TypeOK'
    BY <1>4, <1>7, <2>8 DEF IInv, TypeOK, ManagerGrows, Sound
  <2>10. /\ new.app_type = app_type
         /\ new.app = made
         /\ new.page = made
    BY <2>4 DEF new
  <2>11. factory_env_' = factory_env_
    BY DEF factory_env_
  <2>12. AppOK(x)'
    BY <1>4, <2>1, <2>3, <2>5, <2>6, <2>8, <2>10, <2>11 DEF AppOK
  <2>13. ASSUME NEW y \in Apps, y # x
         PROVE  AppOK(y)'
    <3>1. apps'[y] = apps[y]
      BY <2>1, <2>13 DEF IInv, TypeOK
    <3> QED
      BY <1>4, <1>7, <3>1, AppStays
  <2> QED
    BY <1>7, <2>9, <2>12, <2>13 DEF IInv, ManagerGrows
<1>9. CASE ~ Makes(made, WindowTypeFromString(str), other)
  <2>1. apps' = apps
    BY <1>9 DEF OnLaunchUrl
  <2>2. TypeOK'
    BY <1>4, <1>7, <2>1 DEF IInv, TypeOK, ManagerGrows, Sound
  <2>3. \A y \in Apps : AppOK(y)'
    BY <1>4, <1>7, <2>1, AppStays
  <2> QED
    BY <1>7, <2>2, <2>3 DEF IInv, ManagerGrows
<1> QED
  BY <1>8, <1>9

\* A step that leaves the manager and the keys alone.
LEMMA ManagerStays ==
  ASSUME IInv, UNCHANGED <<key, load_pluggable_on_demand_, manager>>
  PROVE  ManagerGrows
BY DEF IInv, ManagerGrows, Sound, Extends

LEMMA CloseKeeps ==
  ASSUME IInv, NEW x \in Apps, CloseWebApp(x)
  PROVE  IInv' /\ ManagerGrows
<1>1. /\ UNCHANGED <<order, key, on_disk, load_pluggable_on_demand_, manager, changes>>
      /\ apps' = [apps EXCEPT ![x] = NoApp]
  BY DEF CloseWebApp
<1>2. ManagerGrows
  BY <1>1, ManagerStays
<1>3. NoApp \in AppType
  BY DEF NoApp, AppType
<1>4. TypeOK'
  BY <1>1, <1>3 DEF IInv, TypeOK
<1>5. AppOK(x)'
  BY <1>1 DEF IInv, TypeOK, AppOK, Live, NoApp
<1>6. ASSUME NEW y \in Apps, y # x
      PROVE  AppOK(y)'
  <2>1. apps'[y] = apps[y]
    BY <1>1, <1>6 DEF IInv, TypeOK
  <2> QED
    BY <1>1, <1>2, <2>1, AppStays
<1> QED
  BY <1>2, <1>4, <1>5, <1>6 DEF IInv, ManagerGrows

LEMMA ChangeKeeps ==
  ASSUME IInv, NEW f \in Files, NEW disk \in DiskStates, ChangeDirectory(f, disk)
  PROVE  IInv' /\ ManagerGrows
<1>1. UNCHANGED <<order, key, load_pluggable_on_demand_, manager, apps>>
  BY DEF ChangeDirectory
<1>2. ManagerGrows
  BY <1>1, ManagerStays
<1>3. TypeOK'
  BY <1>1 DEF IInv, TypeOK, ChangeDirectory
<1>4. \A x \in Apps : AppOK(x)'
  BY <1>1, <1>2, AppStays
<1> QED
  BY <1>2, <1>3, <1>4 DEF IInv, ManagerGrows

LEMMA NextKeeps ==
  ASSUME IInv, [Next]_vars
  PROVE  IInv' /\ ManagerGrows
<1>1. ASSUME NEW x \in Apps, NEW app_type \in Names,
             NEW str \in {"overlay", "unknown"}, NEW other \in BOOLEAN,
             OnLaunchUrl(x, app_type, str, other)
      PROVE  IInv' /\ ManagerGrows
  BY <1>1, LaunchKeeps
<1>2. ASSUME NEW x \in Apps, CloseWebApp(x)
      PROVE  IInv' /\ ManagerGrows
  BY <1>2, CloseKeeps
<1>3. ASSUME NEW f \in Files, NEW disk \in DiskStates, ChangeDirectory(f, disk)
      PROVE  IInv' /\ ManagerGrows
  BY <1>3, ChangeKeeps
<1>4. CASE UNCHANGED vars
  <2>1. ManagerGrows
    BY <1>4, ManagerStays DEF vars
  <2>2. TypeOK'
    BY <1>4 DEF vars, IInv, TypeOK
  <2>3. \A x \in Apps : AppOK(x)'
    BY <1>4, <2>1, AppStays DEF vars
  <2> QED
    BY <2>1, <2>2, <2>3 DEF IInv, ManagerGrows
<1> QED
  BY <1>1, <1>2, <1>3, <1>4 DEF Next

\* In every reachable state the factories that are recorded or used are loaded,
\* under their own keys, and each app is one its plugin may make.
THEOREM FactoryInvariant == Spec => []IInv
<1>1. IInv /\ [Next]_vars => IInv'
  BY NextKeeps
<1> QED
  BY InitEstablishes, <1>1, PTL DEF Spec

\* The manager, the directory and the apps keep their types.
THEOREM TypeCorrectness == Spec => []TypeOK
<1>1. IInv => TypeOK
  BY DEF IInv
<1> QED
  BY FactoryInvariant, <1>1, PTL

\* No library is closed while a factory of it is recorded or an app of it lives,
\* for any plugins and any changes of the directory.
THEOREM FactoriesAreNotUnloaded == Spec => []FactoriesStayLoaded
<1>1. IInv => FactoriesStayLoaded
  BY DEF IInv, Sound, AppOK, FactoriesStayLoaded
<1> QED
  BY FactoryInvariant, <1>1, PTL

\* An app always has a page, of the plugin that made the app.
THEOREM AppAndPageOfOneFactory == Spec => []OneFactoryPerApp
<1>1. IInv => OneFactoryPerApp
  BY DEF IInv, AppOK, OneFactoryPerApp
<1> QED
  BY FactoryInvariant, <1>1, PTL

\* On demand no plugin makes an app of a type that is not in its key.
THEOREM OnDemandServesDeclared == Spec => []ServesDeclaredTypes
<1>1. IInv => ServesDeclaredTypes
  BY DEF IInv, AppOK, ServesDeclaredTypes
<1> QED
  BY FactoryInvariant, <1>1, PTL

\* A type that is not enabled is made only by a plugin whose key it is.
THEOREM NotEnabledIsNamed == Spec => []EnabledOrNamed
<1>1. IInv => EnabledOrNamed
  BY DEF IInv, AppOK, EnabledOrNamed, factory_env_
<1> QED
  BY FactoryInvariant, <1>1, PTL

\* No step changes the factory that a key is recorded with.
THEOREM KeysKeepTheirFactory == Spec => FactoryOfKeyIsFixed
<1>1. IInv /\ [Next]_vars =>
        [\A n \in Names : manager.interfaces[n] # NoFile =>
           manager'.interfaces[n] = manager.interfaces[n]]_vars
  BY NextKeeps DEF ManagerGrows, Extends
<1> QED
  BY FactoryInvariant, <1>1, PTL DEF Spec, FactoryOfKeyIsFixed

=============================================================================
