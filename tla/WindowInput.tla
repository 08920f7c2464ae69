---------------------------- MODULE WindowInput -----------------------------
(***************************************************************************)
(* The input of an app's window: WebAppWaylandWindow takes the events of   *)
(* the compositor, WebAppWayland keeps the focus, the input region and the *)
(* keys, and the page, in the web engine, has a focus and a mouse button   *)
(* of its own, which only these calls set. A press that the page has seen  *)
(* must be followed by a release, although the compositor sends none to a  *)
(* window that lost the focus; the focus of the page must outlive a crash  *)
(* and end with a minimize; the region that takes input moves with the     *)
(* virtual keyboard.                                                       *)
(***************************************************************************)
EXTENDS Integers

CONSTANTS
  Heights,    \* the heights the virtual keyboard may have
  Tops,       \* where a script may ask the input region to begin
  NoRegion,   \* the input region without a rectangle
  MaxShift,   \* bound: how far off the region may be moved
  PolicyKeys, \* the keys that have a property of the window: back, exit
  Masks       \* the masks a script of a window group's client asks for, by name

ASSUME HeightsAssumption == Heights \subseteq Nat \ {0}
ASSUME KeysAssumption == PolicyKeys \subseteq {"back", "exit"} /\ "back" \in PolicyKeys
ASSUME MaxShiftAssumption == MaxShift \in Nat
ASSUME TopsAssumption == Tops \subseteq Int /\ NoRegion \notin Int

VARIABLES
  desc,    \* what the app's description says of its keys and window group
  host,    \* the compositor: state of the window, mouse button, keyboard
  app,     \* WebAppWayland and its page's closing
  window,  \* WebAppWaylandWindow
  page,    \* the page's view in the engine
  script   \* what the page's script asked for, and what it cannot count on

vars == <<desc, host, app, window, page, script>>

\* The compositor, which all of this has to follow.
HostType ==
  [state    : {"fullscreen", "minimized"},
   focused  : BOOLEAN,                 \* the window has the keyboard focus
   button   : BOOLEAN,                 \* the mouse button is held over it
   keyboard : Heights \cup {0}]        \* height of the virtual keyboard, if shown

\* The keys whose name the key mask table has, as far as they are told apart.
Keys == {"home", "back", "exit"}

\* own: the keys the app takes for itself. client: it is no owner of its window
\* group.
DescType == [own : SUBSET PolicyKeys, client : BOOLEAN]

AppType ==
  [is_focused_ : BOOLEAN, is_closing : BOOLEAN, enable_input_region_ : BOOLEAN,
   input_region_ : Int \cup {NoRegion}, vkb_height_ : Int]

WindowType ==
  [cursor_enabled_ : BOOLEAN, last_mouse_event_ : {"none", "press", "release"},
   key_mask : SUBSET Keys, policy : SUBSET PolicyKeys]

PageType ==
  [focus : BOOLEAN, pressed : BOOLEAN, shown : BOOLEAN, suspended : BOOLEAN,
   resuming : BOOLEAN]

\* asked: the last region the script asked for; kept: no keyboard was shown then,
\* nor when the region was enabled, and shows and hides have alternated since.
\* swallowed: a release was kept from the page. late: the page was not told of a
\* focus.
ScriptType ==
  [asked : Int \cup {NoRegion}, kept : BOOLEAN, swallowed : BOOLEAN,
   late : BOOLEAN]

TypeOK ==
  /\ desc \in DescType
  /\ host \in HostType
  /\ app \in AppType
  /\ window \in WindowType
  /\ page \in PageType
  /\ script \in ScriptType

NewPage == [focus |-> FALSE, pressed |-> FALSE, shown |-> FALSE,
            suspended |-> FALSE, resuming |-> FALSE]

\* Attach: the keys the description asks for go to the app. The environment
\* says whether there is a cursor.
Init ==
  /\ desc \in DescType
  /\ host = [state |-> "fullscreen", focused |-> FALSE, button |-> FALSE,
             keyboard |-> 0]
  /\ app = [is_focused_ |-> FALSE, is_closing |-> FALSE,
            input_region_ |-> NoRegion, enable_input_region_ |-> FALSE,
            vkb_height_ |-> 0]
  /\ \E cursor \in BOOLEAN :
       window = [cursor_enabled_ |-> cursor, last_mouse_event_ |-> "none",
                 key_mask |-> desc.own, policy |-> desc.own]
  /\ page = NewPage
  /\ script = [asked |-> NoRegion, kept |-> TRUE, swallowed |-> FALSE,
               late |-> FALSE]

-----------------------------------------------------------------------------
(* Focus. The page is told only while its window is not minimized; late    *)
(* remembers that it was not told.                                         *)

\* Mutant of PageTakesFocus: a minimized window's page is told too.
AlwaysTakesFocus(h) == TRUE

PageTakesFocus(h) == h.state # "minimized"

\* p is the page that is there when Focus is called, h the compositor then.
Focus(h, p) ==
  /\ app' = [app EXCEPT !.is_focused_ = TRUE]
  /\ page' = [p EXCEPT !.focus = @ \/ PageTakesFocus(h)]
  /\ script' = [script EXCEPT !.late = h.state = "minimized"]

-----------------------------------------------------------------------------
(* The mouse.                                                              *)

\* Mutant of ReleaseHeldButton: no release is generated.
ReleaseNothing(p) == p

\* FocusOut and a minimize generate the release of a press that was the last
\* event.
ReleaseHeldButton(p) ==
  IF window.last_mouse_event_ = "press" THEN [p EXCEPT !.pressed = FALSE] ELSE p

AfterRelease ==
  IF window.last_mouse_event_ = "press" THEN "release"
                                        ELSE window.last_mouse_event_

\* Without a cursor every mouse event is kept from the page.
MouseButtonPress ==
  /\ ~host.button
  /\ host' = [host EXCEPT !.button = TRUE]
  /\ window' = [window EXCEPT !.last_mouse_event_ = "press"]
  /\ page' = [page EXCEPT !.pressed = @ \/ window.cursor_enabled_]
  /\ UNCHANGED <<desc, app, script>>

MouseButtonRelease ==
  /\ host.button
  /\ host' = [host EXCEPT !.button = FALSE]
  /\ window' = [window EXCEPT !.last_mouse_event_ = "release"]
  /\ page' = [page EXCEPT !.pressed = @ /\ ~window.cursor_enabled_]
  /\ script' = [script EXCEPT !.swallowed =
                  IF window.cursor_enabled_ THEN FALSE ELSE @ \/ page.pressed]
  /\ UNCHANGED <<desc, app>>

\* webOSSystem.setCursor(): "blank" takes the cursor away, any other brings it
\* back.
SetCursor(blank) ==
  /\ window' = [window EXCEPT !.cursor_enabled_ = ~blank]
  /\ UNCHANGED <<desc, host, app, page, script>>

-----------------------------------------------------------------------------
(* Window states.                                                          *)

\* The compositor sends no release of a button to a window it takes the focus
\* from.
FocusIn ==
  /\ ~host.focused
  /\ host' = [host EXCEPT !.focused = TRUE]
  /\ Focus(host, page)
  /\ UNCHANGED <<desc, window>>

FocusOut ==
  /\ host.focused
  /\ host' = [host EXCEPT !.focused = FALSE, !.button = FALSE]
  /\ window' = [window EXCEPT !.last_mouse_event_ = AfterRelease]
  /\ app' = [app EXCEPT !.is_focused_ = FALSE]
  /\ page' = [ReleaseHeldButton(page) EXCEPT !.focus = FALSE]
  /\ script' = [script EXCEPT !.late = FALSE]
  /\ UNCHANGED desc

\* ResumeWebPageAll, for what concerns the input: the engine answers with
\* DidResumeDOM when the DOM was stopped.
Resumed(p) ==
  [p EXCEPT !.suspended = FALSE, !.resuming = @ \/ p.suspended, !.shown = TRUE]

\* OnStageDeactivated.
Deactivated(p) == [p EXCEPT !.focus = FALSE, !.shown = FALSE]

\* The region is enabled by the first state change after a script asked for one;
\* it moves with the keyboard from then on.
ApplyInputRegion(a) ==
  [a EXCEPT !.enable_input_region_ = @ \/ a.input_region_ # NoRegion]

\* StateChanged to fullscreen: ApplyInputRegion and OnStageActivated. Closing
\* apps ignore it.
Restored ==
  /\ host.state = "minimized"
  /\ host' = [host EXCEPT !.state = "fullscreen"]
  /\ IF app.is_closing
       THEN UNCHANGED <<app, page, script>>
       ELSE /\ app' = ApplyInputRegion(app)
            /\ page' = Resumed(page)
            /\ script' = [script EXCEPT !.kept =
                            @ /\ (host.keyboard = 0 \/ ApplyInputRegion(app) = app)]
  /\ UNCHANGED <<desc, window>>

\* A minimize releases the button whether or not the app is closing.
Minimized ==
  /\ host.state = "fullscreen"
  /\ host' = [host EXCEPT !.state = "minimized", !.button = FALSE]
  /\ window' = [window EXCEPT !.last_mouse_event_ = AfterRelease]
  /\ IF app.is_closing
       THEN /\ page' = ReleaseHeldButton(page)
            /\ UNCHANGED <<app, script>>
       ELSE /\ app' = [app EXCEPT !.is_focused_ = FALSE]
            /\ page' = Deactivated(ReleaseHeldButton(page))
            /\ script' = [script EXCEPT !.late = FALSE]
  /\ UNCHANGED desc

\* The app is hidden by WAM or by its script: OnStageDeactivated.
Hide ==
  /\ app' = [app EXCEPT !.is_focused_ = FALSE]
  /\ page' = Deactivated(page)
  /\ script' = [script EXCEPT !.late = FALSE]
  /\ UNCHANGED <<desc, host, window>>

\* OnStageActivated, when WAM shows the app.
ShowWindow ==
  /\ page' = Resumed(page)
  /\ UNCHANGED <<desc, host, app, window, script>>

Close ==
  /\ ~app.is_closing
  /\ app' = [app EXCEPT !.is_closing = TRUE]
  /\ UNCHANGED <<desc, host, window, page, script>>

-----------------------------------------------------------------------------
(* The engine.                                                             *)

\* dom_suspend_timer_ of a page that is not shown.
SuspendDOM ==
  /\ ~page.shown
  /\ ~page.suspended
  /\ page' = [page EXCEPT !.suspended = TRUE]
  /\ UNCHANGED <<desc, host, app, window, script>>

\* DidResumeDOM focuses the page, whatever has the keyboard by then.
DidResumeDOM ==
  /\ page.resuming
  /\ Focus(host, [page EXCEPT !.resuming = FALSE])
  /\ UNCHANGED <<desc, host, window>>

\* Mutant of WebViewRecreated: the new view is not focused.
RecreatedWithoutFocus ==
  /\ page' = [NewPage EXCEPT !.shown = page.shown]
  /\ script' = [script EXCEPT !.swallowed = FALSE]
  /\ UNCHANGED <<desc, host, app, window>>

\* The renderer crashed: the page has a new view.
WebViewRecreated ==
  /\ app' = [app EXCEPT !.is_focused_ = TRUE]
  /\ page' = [NewPage EXCEPT !.shown = page.shown, !.focus = PageTakesFocus(host)]
  /\ script' = [script EXCEPT !.swallowed = FALSE,
                              !.late = host.state = "minimized"]
  /\ UNCHANGED <<desc, host, window>>

-----------------------------------------------------------------------------
(* The input region and the virtual keyboard.                              *)

SetInputRegion(region) ==
  /\ app' = [app EXCEPT !.input_region_ = region]
  /\ script' = [script EXCEPT !.asked = region, !.kept = host.keyboard = 0]
  /\ UNCHANGED <<desc, host, window, page>>

\* Mutant of VkbHeight: the keyboard leaves with the sign it came with.
VkbHeightUnsigned(height) == IF height # 0 THEN height ELSE app.vkb_height_

\* The height of a keyboard that leaves is the last one, with its sign turned.
VkbHeight(height) == IF height # 0 THEN height ELSE -app.vkb_height_

MoveInputRegion(height) ==
  IF ~app.enable_input_region_ THEN UNCHANGED app
  ELSE app' = [app EXCEPT !.vkb_height_ = VkbHeight(height),
                          !.input_region_ = IF @ = NoRegion THEN @
                                            ELSE @ - VkbHeight(height)]

\* A keyboard comes with a height, or leaves with none: the shows and hides that
\* MoveInputRegion is made for.
Alternates(visible, height) ==
  visible = (height # 0) /\ visible = (host.keyboard = 0)

\* The compositor may show a keyboard again, with another height or none, or hide
\* one that is not shown: the height alone decides what becomes of the region.
InputPanelVisible(visible, height) ==
  /\ host' = [host EXCEPT !.keyboard = IF visible THEN height ELSE 0]
  /\ MoveInputRegion(height)
  /\ script' = [script EXCEPT !.kept = @ /\ Alternates(visible, height)]
  /\ UNCHANGED <<desc, window, page>>

-----------------------------------------------------------------------------
(* Keys.                                                                   *)

\* Mutant of Masked: a property that takes a key away leaves it in the mask.
OnlyAdded(keys, key, value) == IF value THEN keys \cup {key} ELSE keys

Masked(keys, key, value) ==
  IF value THEN keys \cup {key} ELSE keys \ {key}

\* The property of a key goes to the compositor, and the key into the mask.
SetPolicy(key, value) ==
  window' = [window EXCEPT
               !.key_mask = Masked(@, key, value),
               !.policy = IF value THEN @ \cup {key} ELSE @ \ {key}]

\* webOSSystem.window.setProperty('_WEBOS_ACCESS_POLICY_KEYS_...', ...)
SetWindowProperty(key, value) ==
  /\ SetPolicy(key, value)
  /\ UNCHANGED <<desc, host, app, page, script>>

\* An app that takes the back key for itself is not asked.
NavigationHistoryChanged(can_go_back) ==
  /\ "back" \notin desc.own
  /\ SetPolicy("back", can_go_back)
  /\ UNCHANGED <<desc, host, app, page, script>>

\* Mutant of KeyMask: a name that is no key's gets into the mask.
KeyMaskUnchecked(mask) == mask

\* A name the table does not have is no key.
KeyMask(mask) == mask \cap Keys

\* webOSSystem.setKeyMask(), which only the client of a window group may use.
SetKeyMask(mask) ==
  /\ desc.client
  /\ window' = [window EXCEPT !.key_mask = KeyMask(mask)]
  /\ UNCHANGED <<desc, host, app, page, script>>

-----------------------------------------------------------------------------
CompositorNext ==
  \/ FocusIn \/ FocusOut \/ Restored \/ Minimized
  \/ MouseButtonPress \/ MouseButtonRelease
  \/ \E visible \in BOOLEAN, height \in Heights \cup {0} :
       InputPanelVisible(visible, height)

ScriptNext ==
  \/ \E region \in Tops \cup {NoRegion} : SetInputRegion(region)
  \/ \E blank \in BOOLEAN : SetCursor(blank)
  \/ \E value \in BOOLEAN, key \in PolicyKeys : SetWindowProperty(key, value)
  \/ \E value \in BOOLEAN : NavigationHistoryChanged(value)
  \/ \E mask \in Masks : SetKeyMask(mask)

\* Keyboards that are shown twice move the region twice.
WithinBounds ==
  app.input_region_ = NoRegion \/ app.input_region_ \in -MaxShift..MaxShift

Next ==
  /\ \/ CompositorNext
     \/ ScriptNext
     \/ Hide \/ ShowWindow \/ Close
     \/ SuspendDOM \/ DidResumeDOM \/ WebViewRecreated
  /\ WithinBounds'

Spec == Init /\ [][Next]_vars

-----------------------------------------------------------------------------
(* Properties.                                                             *)

\* The page and WAM agree on the focus through focus events, minimizes, hides,
\* resumed DOMs and crashes in any order: the page has it only if WAM gave it to
\* the app, a page whose window is minimized does not take keys, and a page
\* loses it only to those, not to a crash.
FocusAgrees ==
  /\ page.focus => app.is_focused_
  /\ app.is_focused_ => page.focus \/ script.late
  /\ host.state = "minimized" /\ ~app.is_closing => ~page.focus

\* The page never keeps a mouse button that is not held over its window any
\* more, though the compositor sends no release to a window that lost the focus
\* or was minimized. The one exception: the script took the cursor away while
\* the button was held, and the release was kept from the page.
HeldButtonsAreReleased == page.pressed => host.button \/ script.swallowed

\* The input region is where the script asked for it while no keyboard is shown,
\* however often one came and went, as long as shows and hides alternate. A show
\* over a keyboard and a hide without one do shift the region for good, and so
\* does a keyboard that is shown when the region is asked for or enabled.
RegionFollowsKeyboard ==
  script.kept /\ host.keyboard = 0 => app.input_region_ = script.asked

\* The policy the compositor has for the keys and the app's key mask agree,
\* unless the client of a window group has set a mask of its own.
KeyMaskFollowsPolicy ==
  ~desc.client => window.key_mask = window.policy

=============================================================================
