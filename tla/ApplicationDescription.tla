------------------------ MODULE ApplicationDescription -----------------------
(***************************************************************************)
(* ApplicationDescription: what WAM reads of the appinfo.json of an app it *)
(* launches, with the window group and the sizes that follow from it. A    *)
(* JSON value is a record of its type and what it holds; the conversions   *)
(* are jsoncpp's (external), which refuses some by throwing.               *)
(* A real number is an int here: no field tells them apart but by taking   *)
(* no real.                                                                *)
(***************************************************************************)
EXTENDS Integers, Sequences, SequencesExt, TLC

CONSTANTS
  WebUrls,    \* the texts that are the url of a page on the web
  Sizes       \* the texts "<n>x<m>" as far as a resolution uses them: a function
              \* from a text to the pair of its numbers

ASSUME SizesAssumption == \A text \in DOMAIN Sizes : Sizes[text] \in Int \X Int

Null == [is |-> "null"]
Bool(b) == [is |-> "bool", bool |-> b]
Int32(n) == [is |-> "int", int |-> n]
Text(s) == [is |-> "text", text |-> s]
List(values) == [is |-> "list", list |-> values]
Object(members) == [is |-> "object", object |-> members]

\* json["key"]: null for a member that is not there.
Member(json, key) ==
  IF key \in DOMAIN json.object THEN json.object[key] ELSE Null

\* asBool, asString and asInt, and the types they do not throw for.
ToBool == {"null", "bool", "int"}
ToText == {"null", "bool", "int", "text"}
ToInt == {"null", "bool", "int"}

AsBool(v) ==
  \/ v.is = "bool" /\ v.bool
  \/ v.is = "int" /\ v.int # 0

AsText(v) ==
  CASE v.is = "text" -> v.text
    [] v.is = "null" -> ""
    [] v.is = "bool" -> IF v.bool THEN "true" ELSE "false"
    [] v.is = "int" -> ToString(v.int)

AsInt(v) ==
  CASE v.is = "int" -> v.int
    [] v.is = "null" -> 0
    [] v.is = "bool" -> IF v.bool THEN 1 ELSE 0

-----------------------------------------------------------------------------
(* The members of appinfo.json. Strict ones are converted, whatever their  *)
(* type; the others count only if they have the type they should have.     *)

StrictBools ==
  {"transparent", "handlesRelaunch", "inspectable", "customPlugin",
   "disableBackHistoryAPI", "doNotTrack", "handleExitKey",
   "enableBackgroundRun", "allowVideoCapture", "allowAudioCapture"}

StrictTexts ==
  {"trustLevel", "subType", "deeplinkingParams", "defaultWindowType",
   "enyoBundleVersion", "enyoVersion", "version", "id", "main", "icon",
   "folderPath", "requestedWindowOrientation", "title"}

\* The value of each when it is no bool.
LenientBools ==
  [enableKeyboard |-> FALSE, usePrerendering |-> FALSE,
   disallowScrollingInMainFrame |-> TRUE, useNativeScroll |-> FALSE,
   useUnlimitedMediaPolicy |-> FALSE, useVideoDecodeAccelerator |-> FALSE]

LenientTexts == {"v8ExtraFlags", "locationHint"}

IsBool(v, default) == IF v.is = "bool" THEN v.bool ELSE default
IsText(v) == IF v.is = "text" THEN v.text ELSE ""

\* A member of an object that is itself a member.
Inner(json, key, inner) ==
  IF Member(json, key).is = "object" THEN Member(Member(json, key), inner)
                                     ELSE Null

Flags(json) ==
  [key \in StrictBools |-> AsBool(Member(json, key))] @@
  [key \in DOMAIN LenientBools |-> IsBool(Member(json, key), LenientBools[key])]

Texts(json) ==
  [key \in StrictTexts |-> AsText(Member(json, key))] @@
  [key \in LenientTexts |-> IsText(Member(json, key))]

supports_audio_guidance_(json) ==
  IsBool(Inner(json, "accessibility", "supportsAudioGuidance"), FALSE)

window_class_value_(json) ==
  IF IsBool(Inner(json, "class", "hidden"), FALSE) THEN "hidden" ELSE "normal"

CheckTrustLevel(level) == level \in {"default", "trusted"}

\* Mutant of trust_level_: any level is taken.
TrustLevelAsGiven(json) == AsText(Member(json, "trustLevel"))

trust_level_(json) ==
  LET level == AsText(Member(json, "trustLevel"))
  IN  IF CheckTrustLevel(level) THEN level ELSE "default"

sub_type_(json) ==
  LET type == AsText(Member(json, "subType"))
  IN  IF type = "" THEN "default" ELSE type

\* Mutant of override_: a resolution with one good number gives a size.
OverrideOfEither(json) ==
  LET text == IsText(Member(json, "resolution"))
  IN  IF text \in DOMAIN Sizes /\ \E n \in {1, 2} : Sizes[text][n] > 0
        THEN <<Sizes[text]>> ELSE <<>>

\* Width and height, or neither: "<n>x<m>" of two positive numbers.
override_(json) ==
  LET text == IsText(Member(json, "resolution"))
  IN  IF text \in DOMAIN Sizes /\ \A n \in {1, 2} : Sizes[text][n] > 0
        THEN <<Sizes[text]>> ELSE <<>>

\* Of two entries for a key the later one counts; an entry that is no object is
\* passed over.
KeyFilters(entries) ==
  LET Add(filter, entry) ==
        IF entry.is # "object" THEN filter
        ELSE (AsInt(Member(entry, "from")) :>
                <<AsInt(Member(entry, "to")), AsInt(Member(entry, "modifier"))>>)
             @@ filter
  IN  FoldLeft(Add, <<>>, entries)

key_filter_table_(json) ==
  LET table == Member(json, "keyFilterTable")
  IN  IF table.is = "list" THEN KeyFilters(table.list) ELSE <<>>

\* The path is relative to folderPath unless it begins with "/".
v8_snapshot_path_(json) ==
  LET file == IsText(Member(json, "v8SnapshotFile"))
  IN  CASE file = "" -> <<>>
        [] file = "/snapshot" -> <<file>>
        [] OTHER -> <<AsText(Member(json, "folderPath")), file>>

third_party_cookies_policy_(json) ==
  LET policy == IsText(Member(json, "thirdPartyCookiesPolicy"))
  IN  IF policy \in {"allow", "deny"} THEN policy ELSE "default"

splash_dismiss_timeout_ms_(json) ==
  LET ms == Member(json, "splashDismissTimeout")
  IN  IF ms.is = "int" /\ ms.int >= 0 THEN ms.int ELSE 8000

\* Options: a sequence of one number, or of none.
network_stable_timeout_(json) ==
  LET ms == Member(json, "networkStableTimeout")
  IN  IF ms.is = "int" THEN <<ms.int>> ELSE <<>>

delay_ms_for_launch_optimization_(json) ==
  LET ms == Member(json, "delayMsForLaunchOptimization")
  IN  IF ms.is = "int" /\ ms.int > 0 THEN <<ms.int>> ELSE <<>>

custom_suspend_dom_time_(json) ==
  LET ms == Member(json, "suspendDOMTime")
  IN  IF ms.is = "int" THEN <<ms.int>> ELSE <<>>

supported_enyo_bundle_versions_(json) ==
  LET versions == Member(json, "supportedEnyoBundleVersions")
  IN  IF versions.is = "list" THEN {AsText(v) : v \in ToSet(versions.list)} ELSE {}

web_app_permissions_(json) ==
  LET permissions == Member(json, "webAppPermissions")
  IN  IF permissions.is = "list"
        THEN {p.text : p \in {v \in ToSet(permissions.list) : v.is = "text"}}
        ELSE {}

\* disk says which of the paths in the folder of the app exist; the folder does.
OnDisk(json, key, disk) ==
  /\ AsText(Member(json, "folderPath")) # ""
  /\ AsText(Member(json, key)) \in disk \cup {""}

\* The scheme of the url the app is launched with.
EntryScheme(json, disk) ==
  IF OnDisk(json, "main", disk) THEN "file"
  ELSE IF AsText(Member(json, "main")) \in WebUrls THEN "https" ELSE ""

-----------------------------------------------------------------------------
(* The window group, which is read of the description when it is needed.   *)

WindowGroupInfo(json) ==
  [name |-> IsText(Inner(json, "windowGroup", "name")),
   is_owner |-> IsBool(Inner(json, "windowGroup", "owner"), FALSE)]

\* The members of the member of windowGroup that says what its role needs.
Role(json, role, key) ==
  LET group == Member(json, "windowGroup")
  IN  IF group.is = "object" THEN Inner(group, role, key) ELSE Null

\* Of two layers of one name the first one counts; null is a layer of no members.
Layers(layers) ==
  LET Add(all, layer) ==
        IF /\ layer.is = "object"
           /\ Member(layer, "name").is = "text" /\ Member(layer, "z").is = "int"
          THEN all @@ (Member(layer, "name").text :> Member(layer, "z").int)
          ELSE all
  IN  FoldLeft(Add, <<>>, layers)

WindowOwnerInfo(json) ==
  LET layers == Role(json, "ownerInfo", "layers")
  IN  [allow_anonymous |-> IsBool(Role(json, "ownerInfo", "allowAnonymous"), FALSE),
       layers |-> IF layers.is = "list" THEN Layers(layers.list) ELSE <<>>]

WindowClientInfo(json) ==
  [layer |-> IsText(Role(json, "clientInfo", "layer")),
   hint |-> IsText(Role(json, "clientInfo", "hint"))]

\* What the window asks of the compositor: the group it owns or joins, if any.
SetupWindowGroup(json) ==
  LET group == WindowGroupInfo(json)
  IN  IF group.name = "" THEN <<>>
      ELSE IF group.is_owner
        THEN <<[name |-> group.name, owns |-> WindowOwnerInfo(json)]>>
        ELSE <<[name |-> group.name, layer |-> WindowClientInfo(json).layer]>>

-----------------------------------------------------------------------------
\* Members are asked of a layer whatever it is, when the window of the owner of
\* a group is set up.
LayersThrow(json) ==
  LET layers == Role(json, "ownerInfo", "layers")
  IN  /\ WindowGroupInfo(json).name # "" /\ WindowGroupInfo(json).is_owner
      /\ layers.is = "list"
      /\ \E layer \in ToSet(layers.list) : layer.is \notin {"object", "null"}

\* A conversion that throws, as it is read or in the launch that reads it:
\* nothing in WAM catches it.
Throws(json) ==
  \/ LayersThrow(json)
  \/ \E key \in StrictBools : Member(json, key).is \notin ToBool
  \/ \E key \in StrictTexts : Member(json, key).is \notin ToText
  \/ /\ Member(json, "supportedEnyoBundleVersions").is = "list"
     /\ \E v \in ToSet(Member(json, "supportedEnyoBundleVersions").list) :
          v.is \notin ToText
  \/ /\ Member(json, "keyFilterTable").is = "list"
     /\ \E entry \in ToSet(Member(json, "keyFilterTable").list) :
          /\ entry.is = "object"
          /\ \E key \in {"from", "to", "modifier"} :
               Member(entry, key).is \notin ToInt

\* The description of a json, which is an object and does not throw.
FromJsonString(json, disk) ==
  [flags |-> Flags(json), texts |-> Texts(json),
   supports_audio_guidance |-> supports_audio_guidance_(json),
   window_class_value |-> window_class_value_(json),
   trust_level |-> trust_level_(json), sub_type |-> sub_type_(json),
   override |-> override_(json), key_filter_table |-> key_filter_table_(json),
   v8_snapshot_path |-> v8_snapshot_path_(json),
   third_party_cookies_policy |-> third_party_cookies_policy_(json),
   splash_dismiss_timeout_ms |-> splash_dismiss_timeout_ms_(json),
   network_stable_timeout |-> network_stable_timeout_(json),
   delay_ms_for_launch_optimization |-> delay_ms_for_launch_optimization_(json),
   custom_suspend_dom_time |-> custom_suspend_dom_time_(json),
   supported_enyo_bundle_versions |-> supported_enyo_bundle_versions_(json),
   web_app_permissions |-> web_app_permissions_(json),
   icon_on_disk |-> OnDisk(json, "icon", disk),
   entry_scheme |-> EntryScheme(json, disk),
   window_group |-> SetupWindowGroup(json)]

-----------------------------------------------------------------------------
(* What the window and the page make of the sizes. A device has two sizes, *)
(* each an option: the screen's, and the one of the user interface, which  *)
(* is one for all apps. A scale is a fraction: a pair of numbers.          *)

SetDisplaySize(device, size) == [device EXCEPT !.display = <<size>>]

CurrentUiSize(device) ==
  IF device.display = <<>> THEN <<0, 0>> ELSE device.display[1]

\* Each launch sets the size of the user interface to that of its own window.
InitWindow(device, d, display) ==
  SetDisplaySize(device, IF d.override = <<>> THEN display ELSE d.override[1])

Smaller(p, q) == IF p[1] * q[2] < q[1] * p[2] THEN p ELSE q

\* How far a window of the display's size enlarges the page, across and down,
\* and its events: nothing, or the three scales.
ContentsScale(d, display) ==
  IF d.override = <<>> \/ d.flags["transparent"] THEN <<>>
  ELSE LET across == <<display[1], d.override[1][1]>>
           down   == <<display[2], d.override[1][2]>>
       IN  <<across, down, Smaller(across, down)>>

DevicePixelRatio(device, d) ==
  LET ui     == CurrentUiSize(device)
      size   == IF d.override = <<>> THEN ui ELSE d.override[1]
      screen == IF device.hardware = <<>> THEN ui ELSE device.hardware[1]
  IN  IF 0 \in ToSet(size) THEN <<1, 1>>
      ELSE Smaller(<<screen[1], size[1]>>, <<screen[2], size[2]>>)

=============================================================================
