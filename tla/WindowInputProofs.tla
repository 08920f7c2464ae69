-------------------------- MODULE WindowInputProofs -------------------------
(***************************************************************************)
(* What holds of the window's input for keyboards of any height, regions   *)
(* anywhere and masks of any keys. Each invariant is inductive once it is  *)
(* read as a promise of the step before: a press the page has seen is the  *)
(* last event while its button is held (HeldInv), and the region is off by *)
(* the height of the keyboard exactly while one is shown (RegionInv).      *)
(***************************************************************************)
EXTENDS WindowInput, TLAPS

-----------------------------------------------------------------------------
(* Types.                                                                  *)

LEMMA TypeInit == Init => TypeOK
<1> SUFFICES ASSUME Init PROVE TypeOK
  OBVIOUS
<1>1. PICK cursor \in BOOLEAN :
        window = [cursor_enabled_ |-> cursor, last_mouse_event_ |-> "none",
                  key_mask |-> desc.own, policy |-> desc.own]
  BY DEF Init
<1>2. desc.own \subseteq PolicyKeys /\ PolicyKeys \subseteq Keys
  BY KeysAssumption DEF Init, DescType, Keys
<1>3. window \in WindowType
  BY <1>1, <1>2 DEF WindowType
<1>4. QED
  BY <1>3 DEF Init, TypeOK, HostType, AppType, PageType, ScriptType, NewPage

\* What the operators on the records return.
LEMMA RecordTypes ==
  ASSUME TypeOK
  PROVE  /\ \A p \in PageType :
              /\ ReleaseHeldButton(p) \in PageType
              /\ Deactivated(p) \in PageType
              /\ Resumed(p) \in PageType
              /\ \A b \in BOOLEAN : [p EXCEPT !.focus = @ \/ b] \in PageType
         /\ \A a \in AppType : ApplyInputRegion(a) \in AppType
         /\ AfterRelease \in {"none", "press", "release"}
         /\ NewPage \in PageType
<1>1. \A p \in PageType : /\ ReleaseHeldButton(p) \in PageType
                          /\ Deactivated(p) \in PageType
  BY DEF ReleaseHeldButton, Deactivated, PageType
<1>2. \A p \in PageType : Resumed(p) \in PageType
  BY DEF Resumed, PageType
<1>3. \A p \in PageType, b \in BOOLEAN : [p EXCEPT !.focus = @ \/ b] \in PageType
  BY DEF PageType
<1>4. \A a \in AppType : ApplyInputRegion(a) \in AppType
  <2> SUFFICES ASSUME NEW a \in AppType PROVE ApplyInputRegion(a) \in AppType
    OBVIOUS
  <2>1. (a.enable_input_region_ \/ a.input_region_ # NoRegion) \in BOOLEAN
    OBVIOUS
  <2>2. QED
    BY <2>1 DEF ApplyInputRegion, AppType
<1>5. AfterRelease \in {"none", "press", "release"} /\ NewPage \in PageType
  BY DEF AfterRelease, NewPage, TypeOK, WindowType, PageType
<1>6. QED
  BY <1>1, <1>2, <1>3, <1>4, <1>5

LEMMA FocusTypes ==
  ASSUME TypeOK, NEW p \in PageType, Focus(host, p)
  PROVE  app' \in AppType /\ page' \in PageType /\ script' \in ScriptType
<1>1. PageTakesFocus(host) \in BOOLEAN /\ (host.state = "minimized") \in BOOLEAN
  BY DEF PageTakesFocus
<1>2. page' \in PageType
  BY <1>1, RecordTypes DEF Focus
<1>3. app' \in AppType /\ script' \in ScriptType
  BY <1>1 DEF Focus, TypeOK, AppType, ScriptType
<1>4. QED
  BY <1>2, <1>3

LEMMA CompositorType ==
  ASSUME TypeOK, CompositorNext
  PROVE  TypeOK'
<1> USE DEF TypeOK
<1>1. CASE FocusIn
  <2>1. host' \in HostType
    BY <1>1 DEF FocusIn, HostType
  <2>2. QED
    BY <1>1, <2>1, FocusTypes DEF FocusIn
<1>2. CASE FocusOut
  <2>1. host' \in HostType /\ app' \in AppType /\ script' \in ScriptType
    BY <1>2 DEF FocusOut, HostType, AppType, ScriptType
  <2>2. ReleaseHeldButton(page) \in PageType
    BY RecordTypes
  <2>3. page' \in PageType /\ window' \in WindowType
    BY <1>2, <2>2, RecordTypes DEF FocusOut, PageType, WindowType
  <2>4. QED
    BY <1>2, <2>1, <2>3 DEF FocusOut
<1>3. CASE Restored
  <2>1. host' \in HostType
    BY <1>3 DEF Restored, HostType
  <2>2. app' \in AppType /\ page' \in PageType
    BY <1>3, RecordTypes DEF Restored
  <2>3. script' \in ScriptType
    BY <1>3 DEF Restored, ScriptType
  <2>4. QED
    BY <1>3, <2>1, <2>2, <2>3 DEF Restored
<1>4. CASE Minimized
  <2>1. host' \in HostType /\ script' \in ScriptType /\ app' \in AppType
    BY <1>4 DEF Minimized, HostType, ScriptType, AppType
  <2>2. page' \in PageType
    BY <1>4, RecordTypes DEF Minimized
  <2>3. window' \in WindowType
    BY <1>4, RecordTypes DEF Minimized, WindowType
  <2>4. QED
    BY <1>4, <2>1, <2>2, <2>3 DEF Minimized
<1>5. CASE MouseButtonPress
  BY <1>5 DEF MouseButtonPress, HostType, WindowType, PageType
<1>6. CASE MouseButtonRelease
  <2>1. host' \in HostType /\ window' \in WindowType /\ page' \in PageType
    BY <1>6 DEF MouseButtonRelease, HostType, WindowType, PageType
  <2>2. script' \in ScriptType
    BY <1>6 DEF MouseButtonRelease, ScriptType, WindowType, PageType
  <2>3. QED
    BY <1>6, <2>1, <2>2 DEF MouseButtonRelease
<1>7. ASSUME NEW visible \in BOOLEAN, NEW height \in Heights \cup {0},
             InputPanelVisible(visible, height)
      PROVE  TypeOK'
  <2>1. height \in Int /\ VkbHeight(height) \in Int
    BY HeightsAssumption DEF VkbHeight, AppType
  <2>2. app' \in AppType
    <3>1. (IF app.input_region_ = NoRegion THEN app.input_region_
           ELSE app.input_region_ - VkbHeight(height)) \in Int \cup {NoRegion}
      <4>1. app.input_region_ \in Int \cup {NoRegion}
        BY DEF AppType
      <4>2. CASE app.input_region_ = NoRegion
        BY <4>2
      <4>3. CASE app.input_region_ \in Int
        BY <2>1, <4>3, TopsAssumption
      <4>4. QED
        BY <4>1, <4>2, <4>3
    <3>2. CASE ~app.enable_input_region_
      BY <1>7, <3>2 DEF InputPanelVisible, MoveInputRegion
    <3>3. CASE app.enable_input_region_
      BY <1>7, <2>1, <3>1, <3>3 DEF InputPanelVisible, MoveInputRegion, AppType
    <3>4. QED
      BY <3>2, <3>3
  <2>3. host' \in HostType
    BY <1>7 DEF InputPanelVisible, HostType
  <2>4. script' \in ScriptType
    <3>1. (script.kept /\ Alternates(visible, height)) \in BOOLEAN
      BY DEF Alternates, ScriptType
    <3>2. QED
      BY <1>7, <3>1 DEF InputPanelVisible, ScriptType
  <2>5. QED
    BY <1>7, <2>2, <2>3, <2>4 DEF InputPanelVisible
<1>8. QED
  BY <1>1, <1>2, <1>3, <1>4, <1>5, <1>6, <1>7 DEF CompositorNext

LEMMA ScriptNextType ==
  ASSUME TypeOK, ScriptNext
  PROVE  TypeOK'
<1> USE DEF TypeOK
<1>1. ASSUME NEW region \in Tops \cup {NoRegion}, SetInputRegion(region)
      PROVE  TypeOK'
  <2>1. region \in Int \cup {NoRegion}
    BY TopsAssumption
  <2>2. app' \in AppType /\ script' \in ScriptType
    BY <1>1, <2>1 DEF SetInputRegion, AppType, ScriptType
  <2>3. QED
    BY <1>1, <2>2 DEF SetInputRegion
<1>2. ASSUME NEW blank \in BOOLEAN, SetCursor(blank)
      PROVE  TypeOK'
  <2>1. window' \in WindowType
    BY <1>2 DEF SetCursor, WindowType
  <2>2. QED
    BY <1>2, <2>1 DEF SetCursor
<1>3. ASSUME NEW key \in PolicyKeys, NEW value \in BOOLEAN, SetPolicy(key, value),
             UNCHANGED <<desc, host, app, page, script>>
      PROVE  TypeOK'
  <2>1. key \in Keys
    BY KeysAssumption DEF Keys
  <2>2. window.key_mask \subseteq Keys /\ window.policy \subseteq PolicyKeys
    BY DEF WindowType
  <2>3. Masked(window.key_mask, key, value) \subseteq Keys
    BY <2>1, <2>2 DEF Masked
  <2>4. (IF value THEN window.policy \cup {key} ELSE window.policy \ {key})
          \subseteq PolicyKeys
    BY <2>2
  <2>5. window' \in WindowType
    BY <1>3, <2>3, <2>4 DEF SetPolicy, WindowType
  <2>6. QED
    BY <1>3, <2>5
<1>4. ASSUME NEW mask \in Masks, SetKeyMask(mask)
      PROVE  TypeOK'
  <2>1. window' \in WindowType
    BY <1>4 DEF SetKeyMask, KeyMask, WindowType
  <2>2. QED
    BY <1>4, <2>1 DEF SetKeyMask
<1>5. ASSUME NEW key \in PolicyKeys, NEW value \in BOOLEAN,
             SetWindowProperty(key, value)
      PROVE  TypeOK'
  BY <1>3, <1>5 DEF SetWindowProperty
<1>6. ASSUME NEW value \in BOOLEAN, NavigationHistoryChanged(value)
      PROVE  TypeOK'
  BY <1>3, <1>6, KeysAssumption DEF NavigationHistoryChanged
<1>7. QED
  BY <1>1, <1>2, <1>4, <1>5, <1>6 DEF ScriptNext

LEMMA TypeStep == TypeOK /\ [Next]_vars => TypeOK'
<1> SUFFICES ASSUME TypeOK, [Next]_vars PROVE TypeOK'
  OBVIOUS
<1>1. CASE Hide
  BY <1>1, RecordTypes DEF Hide, TypeOK, AppType, ScriptType
<1>2. CASE ShowWindow
  BY <1>2, RecordTypes DEF ShowWindow, TypeOK
<1>3. CASE Close
  BY <1>3 DEF Close, TypeOK, AppType
<1>4. CASE SuspendDOM
  BY <1>4 DEF SuspendDOM, TypeOK, PageType
<1>5. CASE DidResumeDOM
  <2>1. [page EXCEPT !.resuming = FALSE] \in PageType
    BY DEF TypeOK, PageType
  <2>2. QED
    BY <1>5, <2>1, FocusTypes DEF DidResumeDOM, TypeOK
<1>6. CASE WebViewRecreated
  <2>1. PageTakesFocus(host) \in BOOLEAN /\ (host.state = "minimized") \in BOOLEAN
    BY DEF PageTakesFocus
  <2>2. page' \in PageType
    BY <1>6, <2>1 DEF WebViewRecreated, NewPage, TypeOK, PageType
  <2>3. app' \in AppType /\ script' \in ScriptType
    BY <1>6, <2>1 DEF WebViewRecreated, TypeOK, AppType, ScriptType
  <2>4. QED
    BY <1>6, <2>2, <2>3 DEF WebViewRecreated, TypeOK
<1>7. CASE UNCHANGED vars
  BY <1>7 DEF vars, TypeOK
<1>8. QED
  BY CompositorType, ScriptNextType, <1>1, <1>2, <1>3, <1>4, <1>5, <1>6, <1>7 DEF Next

\* The state keeps its type: heights and regions stay numbers, and the key mask
\* has only keys of the table, whatever names a script passes.
THEOREM TypeCorrectness == Spec => []TypeOK
  BY TypeInit, TypeStep, PTL DEF Spec

-----------------------------------------------------------------------------
(* Focus and the mouse. Both are inductive beside the types.               *)

LEMMA FocusInit == Init => FocusAgrees
  BY DEF Init, NewPage, FocusAgrees

LEMMA FocusGiven ==
  ASSUME TypeOK, FocusAgrees, NEW p \in PageType, p.focus = page.focus,
         Focus(host, p), host'.state = host.state
  PROVE  FocusAgrees'
<1>1. app'.is_focused_ /\ app'.is_closing = app.is_closing
  BY DEF Focus, TypeOK, AppType
<1>2. page'.focus <=> p.focus \/ host.state # "minimized"
  BY DEF Focus, PageTakesFocus, PageType
<1>3. script'.late <=> host.state = "minimized"
  BY DEF Focus, TypeOK, ScriptType
<1>4. QED
  BY <1>1, <1>2, <1>3 DEF FocusAgrees

LEMMA FocusStep == TypeOK /\ FocusAgrees /\ [Next]_vars => FocusAgrees'
<1> SUFFICES ASSUME TypeOK, FocusAgrees, [Next]_vars PROVE FocusAgrees'
  OBVIOUS
<1> USE DEF TypeOK
<1>1. CASE FocusIn
  <2>1. host'.state = host.state
    BY <1>1 DEF FocusIn, HostType
  <2>2. QED
    BY <1>1, <2>1, FocusGiven DEF FocusIn
<1>2. ASSUME ~app'.is_focused_, ~page'.focus
      PROVE  FocusAgrees'
  BY <1>2 DEF FocusAgrees
<1>3. CASE FocusOut
  <2>1. ReleaseHeldButton(page) \in PageType
    BY RecordTypes
  <2>2. QED
    BY <1>2, <1>3, <2>1 DEF FocusOut, AppType, PageType
<1>4. ASSUME UNCHANGED <<app.is_focused_, app.is_closing, page.focus,
                         script.late, host.state>>
      PROVE  FocusAgrees'
  BY <1>4 DEF FocusAgrees
<1>5. CASE Restored
  <2>1. /\ host'.state = "fullscreen"
        /\ app'.is_focused_ = app.is_focused_ /\ page'.focus = page.focus
        /\ script'.late = script.late
    BY <1>5 DEF Restored, ApplyInputRegion, Resumed, HostType, AppType, PageType,
                ScriptType
  <2>2. QED
    BY <2>1 DEF FocusAgrees
<1>6. CASE Minimized
  <2>1. ReleaseHeldButton(page) \in PageType
    BY RecordTypes
  <2>2. CASE app.is_closing
    <3>1. ReleaseHeldButton(page).focus = page.focus
      BY DEF ReleaseHeldButton, PageType
    <3>2. QED
      BY <1>6, <2>2, <3>1 DEF Minimized, FocusAgrees
  <2>3. CASE ~app.is_closing
    BY <1>2, <1>6, <2>1, <2>3 DEF Minimized, Deactivated, AppType, PageType
  <2>4. QED
    BY <2>2, <2>3
<1>7. CASE MouseButtonPress
  BY <1>4, <1>7 DEF MouseButtonPress, HostType, PageType
<1>8. CASE MouseButtonRelease
  BY <1>4, <1>8 DEF MouseButtonRelease, HostType, PageType, ScriptType
<1>9. ASSUME NEW visible \in BOOLEAN, NEW height \in Heights \cup {0},
             InputPanelVisible(visible, height)
      PROVE  FocusAgrees'
  BY <1>4, <1>9 DEF InputPanelVisible, MoveInputRegion, HostType, AppType,
       ScriptType
<1>10. CASE ScriptNext
  BY <1>4, <1>10 DEF ScriptNext, SetInputRegion, SetCursor, SetWindowProperty,
       NavigationHistoryChanged, SetKeyMask, AppType, ScriptType
<1>11. CASE Hide
  BY <1>2, <1>11 DEF Hide, Deactivated, AppType, PageType
<1>12. CASE ShowWindow
  BY <1>4, <1>12 DEF ShowWindow, Resumed, PageType
<1>13. CASE Close
  BY <1>13 DEF Close, AppType, FocusAgrees
<1>14. CASE SuspendDOM
  BY <1>4, <1>14 DEF SuspendDOM, PageType
<1>15. CASE DidResumeDOM
  <2>1. /\ [page EXCEPT !.resuming = FALSE] \in PageType
        /\ [page EXCEPT !.resuming = FALSE].focus = page.focus
    BY DEF PageType
  <2>2. QED
    BY <1>15, <2>1, FocusGiven DEF DidResumeDOM
<1>16. CASE WebViewRecreated
  <2>1. app'.is_focused_ /\ app'.is_closing = app.is_closing
    BY <1>16 DEF WebViewRecreated, AppType
  <2>2. page'.focus <=> host.state # "minimized"
    BY <1>16 DEF WebViewRecreated, NewPage, PageTakesFocus
  <2>3. script'.late <=> host.state = "minimized"
    BY <1>16 DEF WebViewRecreated, ScriptType
  <2>4. QED
    BY <1>16, <2>1, <2>2, <2>3 DEF WebViewRecreated, FocusAgrees
<1>17. CASE UNCHANGED vars
  BY <1>4, <1>17 DEF vars
<1>18. QED
  BY <1>1, <1>3, <1>5, <1>6, <1>7, <1>8, <1>9, <1>10, <1>11, <1>12, <1>13, <1>14,
     <1>15, <1>16, <1>17 DEF Next, CompositorNext

\* The page and WAM agree on the focus, whatever the order of focus events,
\* minimizes, hides, resumed DOMs and crashes.
THEOREM FocusIsShared == Spec => []FocusAgrees
<1>1. TypeOK /\ FocusAgrees /\ [Next]_vars => (TypeOK /\ FocusAgrees)'
  BY TypeStep, FocusStep
<1>2. QED
  BY TypeInit, FocusInit, <1>1, PTL DEF Spec

\* A press that the page has seen, and whose release was not kept from it, is
\* the last event, of a button that is held: so that a window that loses the
\* focus or is minimized knows to generate its release.
HeldInv ==
  page.pressed => script.swallowed \/ /\ host.button
                                      /\ window.last_mouse_event_ = "press"

LEMMA HeldStep == TypeOK /\ HeldInv /\ [Next]_vars => HeldInv'
<1> SUFFICES ASSUME TypeOK, HeldInv, [Next]_vars PROVE HeldInv'
  OBVIOUS
<1> USE DEF TypeOK
<1>1. ASSUME UNCHANGED <<page.pressed, script.swallowed, host.button,
                         window.last_mouse_event_>>
      PROVE  HeldInv'
  BY <1>1 DEF HeldInv
<1>2. ASSUME page' \in {ReleaseHeldButton(page), Deactivated(ReleaseHeldButton(page)),
                        [ReleaseHeldButton(page) EXCEPT !.focus = FALSE]},
             script'.swallowed = script.swallowed
      PROVE  HeldInv'
  <2>1. page'.pressed = ReleaseHeldButton(page).pressed
    <3>1. ReleaseHeldButton(page) \in PageType
      BY RecordTypes
    <3>2. /\ Deactivated(ReleaseHeldButton(page)).pressed
               = ReleaseHeldButton(page).pressed
          /\ [ReleaseHeldButton(page) EXCEPT !.focus = FALSE].pressed
               = ReleaseHeldButton(page).pressed
      BY <3>1 DEF Deactivated, PageType
    <3>3. QED
      BY <1>2, <3>2
  <2>2. CASE window.last_mouse_event_ = "press"
    <3>1. ~ReleaseHeldButton(page).pressed
      BY <2>2 DEF ReleaseHeldButton, PageType
    <3>2. QED
      BY <2>1, <3>1 DEF HeldInv
  <2>3. CASE window.last_mouse_event_ # "press"
    BY <1>2, <2>1, <2>3 DEF ReleaseHeldButton, HeldInv
  <2>4. QED
    BY <2>2, <2>3
<1>3. CASE FocusIn
  BY <1>1, <1>3 DEF FocusIn, Focus, HostType, PageType, ScriptType
<1>4. CASE FocusOut
  BY <1>2, <1>4 DEF FocusOut, ScriptType
<1>5. CASE Restored
  BY <1>1, <1>5 DEF Restored, Resumed, HostType, PageType, ScriptType
<1>6. CASE Minimized
  BY <1>2, <1>6 DEF Minimized, ScriptType
<1>7. CASE MouseButtonPress
  BY <1>7 DEF MouseButtonPress, HostType, WindowType, HeldInv
<1>8. CASE MouseButtonRelease
  <2>1. page'.pressed <=> page.pressed /\ ~window.cursor_enabled_
    BY <1>8 DEF MouseButtonRelease, PageType, WindowType
  <2>2. ~window.cursor_enabled_ =>
          (script'.swallowed <=> script.swallowed \/ page.pressed)
    BY <1>8 DEF MouseButtonRelease, ScriptType
  <2>3. QED
    BY <2>1, <2>2 DEF HeldInv
<1>9. ASSUME NEW visible \in BOOLEAN, NEW height \in Heights \cup {0},
             InputPanelVisible(visible, height)
      PROVE  HeldInv'
  BY <1>1, <1>9 DEF InputPanelVisible, HostType
<1>10. CASE ScriptNext
  BY <1>1, <1>10 DEF ScriptNext, SetInputRegion, SetCursor, SetWindowProperty,
       NavigationHistoryChanged, SetPolicy, SetKeyMask, WindowType, ScriptType
<1>11. CASE Hide
  BY <1>1, <1>11 DEF Hide, Deactivated, PageType, ScriptType
<1>12. CASE ShowWindow
  BY <1>1, <1>12 DEF ShowWindow, Resumed, PageType
<1>13. CASE Close
  BY <1>1, <1>13 DEF Close
<1>14. CASE SuspendDOM
  BY <1>1, <1>14 DEF SuspendDOM, PageType
<1>15. CASE DidResumeDOM
  BY <1>1, <1>15 DEF DidResumeDOM, Focus, PageType, ScriptType
<1>16. CASE WebViewRecreated
  BY <1>16 DEF WebViewRecreated, NewPage, HeldInv
<1>17. CASE UNCHANGED vars
  BY <1>1, <1>17 DEF vars
<1>18. QED
  BY <1>3, <1>4, <1>5, <1>6, <1>7, <1>8, <1>9, <1>10, <1>11, <1>12, <1>13, <1>14,
     <1>15, <1>16, <1>17 DEF Next, CompositorNext

\* However presses, focus losses, minimizes, cursor changes and crashes follow
\* one another, the page is left with no button that is not held, but for the
\* release that was kept from it.
THEOREM ButtonsAreReleased == Spec => []HeldButtonsAreReleased
<1>1. Init => HeldInv
  BY DEF Init, NewPage, HeldInv
<1>2. TypeOK /\ HeldInv /\ [Next]_vars => (TypeOK /\ HeldInv)'
  BY TypeStep, HeldStep
<1>3. HeldInv => HeldButtonsAreReleased
  BY DEF HeldInv, HeldButtonsAreReleased
<1>4. QED
  BY TypeInit, <1>1, <1>2, <1>3, PTL DEF Spec

-----------------------------------------------------------------------------
(* Keys and the input region.                                              *)

LEMMA KeyMaskStep ==
  TypeOK /\ KeyMaskFollowsPolicy /\ [Next]_vars => KeyMaskFollowsPolicy'
<1> SUFFICES ASSUME TypeOK, KeyMaskFollowsPolicy, [Next]_vars
             PROVE  KeyMaskFollowsPolicy'
  OBVIOUS
<1> USE DEF TypeOK
<1>1. ASSUME UNCHANGED <<desc, window.key_mask, window.policy>>
      PROVE  KeyMaskFollowsPolicy'
  BY <1>1 DEF KeyMaskFollowsPolicy
<1>2. ASSUME NEW key \in PolicyKeys, NEW value \in BOOLEAN, SetPolicy(key, value),
             UNCHANGED desc
      PROVE  KeyMaskFollowsPolicy'
  BY <1>2 DEF SetPolicy, Masked, WindowType, KeyMaskFollowsPolicy
<1>3. ASSUME NEW mask \in Masks, SetKeyMask(mask)
      PROVE  KeyMaskFollowsPolicy'
  BY <1>3 DEF SetKeyMask, KeyMaskFollowsPolicy
<1>4. CASE ScriptNext
  <2>1. ASSUME NEW region \in Tops \cup {NoRegion}, SetInputRegion(region)
        PROVE  KeyMaskFollowsPolicy'
    BY <1>1, <2>1 DEF SetInputRegion
  <2>2. ASSUME NEW blank \in BOOLEAN, SetCursor(blank)
        PROVE  KeyMaskFollowsPolicy'
    BY <1>1, <2>2 DEF SetCursor, WindowType
  <2>3. QED
    BY <1>2, <1>3, <1>4, <2>1, <2>2, KeysAssumption
    DEF ScriptNext, SetWindowProperty, NavigationHistoryChanged
<1>5. CASE CompositorNext
  BY <1>1, <1>5 DEF CompositorNext, FocusIn, FocusOut, Restored, Minimized,
       MouseButtonPress, MouseButtonRelease, InputPanelVisible, WindowType
<1>6. CASE Hide \/ ShowWindow \/ Close \/ SuspendDOM \/ DidResumeDOM \/ WebViewRecreated
  BY <1>1, <1>6 DEF Hide, ShowWindow, Close, SuspendDOM, DidResumeDOM, WebViewRecreated
<1>7. CASE UNCHANGED vars
  BY <1>1, <1>7 DEF vars
<1>8. QED
  BY <1>4, <1>5, <1>6, <1>7 DEF Next

\* The compositor's policy and the key mask never part for an app that is not
\* the client of a window group.
THEOREM PolicyAndMaskAgree == Spec => []KeyMaskFollowsPolicy
<1>1. Init => KeyMaskFollowsPolicy
  BY DEF Init, KeyMaskFollowsPolicy
<1>2. TypeOK /\ KeyMaskFollowsPolicy /\ [Next]_vars => (TypeOK /\ KeyMaskFollowsPolicy)'
  BY TypeStep, KeyMaskStep
<1>3. QED
  BY TypeInit, <1>1, <1>2, PTL DEF Spec

\* Where the region is that a script can count on: where it asked for it, less
\* the height of the keyboard while one is shown to an enabled region.
RegionInv ==
  /\ ~app.enable_input_region_ => app.vkb_height_ = 0
  /\ script.kept =>
       IF app.enable_input_region_ /\ host.keyboard # 0
       THEN /\ app.vkb_height_ = host.keyboard
            /\ app.input_region_ = IF script.asked = NoRegion THEN NoRegion
                                   ELSE script.asked - host.keyboard
       ELSE app.input_region_ = script.asked

LEMMA RegionStep == TypeOK /\ RegionInv /\ [Next]_vars => RegionInv'
<1> SUFFICES ASSUME TypeOK, RegionInv, [Next]_vars PROVE RegionInv'
  OBVIOUS
<1> USE DEF TypeOK
<1>1. ASSUME UNCHANGED <<app.enable_input_region_, app.vkb_height_, app.input_region_,
                         script.kept, script.asked, host.keyboard>>
      PROVE  RegionInv'
  BY <1>1 DEF RegionInv
<1>2. CASE FocusIn
  BY <1>1, <1>2 DEF FocusIn, Focus, HostType, AppType, ScriptType
<1>3. CASE FocusOut
  BY <1>1, <1>3 DEF FocusOut, HostType, AppType, ScriptType
<1>4. CASE Restored
  <2>1. host'.keyboard = host.keyboard
    BY <1>4 DEF Restored, HostType
  <2>2. CASE app.is_closing
    BY <1>1, <1>4, <2>1, <2>2 DEF Restored
  <2>3. CASE ~app.is_closing
    <3>1. /\ app'.vkb_height_ = app.vkb_height_
          /\ app'.input_region_ = app.input_region_
          /\ app.enable_input_region_ => app'.enable_input_region_
      BY <1>4, <2>3 DEF Restored, ApplyInputRegion, AppType
    <3>2. /\ script'.asked = script.asked
          /\ script'.kept => script.kept /\ (host.keyboard = 0 \/ app' = app)
      BY <1>4, <2>3 DEF Restored, ScriptType
    <3>3. QED
      BY <2>1, <3>1, <3>2 DEF RegionInv
  <2>4. QED
    BY <2>2, <2>3
<1>5. CASE Minimized
  BY <1>1, <1>5 DEF Minimized, HostType, AppType, ScriptType
<1>6. CASE MouseButtonPress
  BY <1>1, <1>6 DEF MouseButtonPress, HostType
<1>7. CASE MouseButtonRelease
  BY <1>1, <1>7 DEF MouseButtonRelease, HostType, ScriptType
<1>8. ASSUME NEW visible \in BOOLEAN, NEW height \in Heights \cup {0},
             InputPanelVisible(visible, height)
      PROVE  RegionInv'
  <2>1. /\ host'.keyboard = height \/ ~script'.kept
        /\ height \in Nat
        /\ script'.kept => (height = 0 <=> ~(host.keyboard = 0))
    <3>1. host'.keyboard = IF visible THEN height ELSE 0
      BY <1>8 DEF InputPanelVisible, HostType
    <3>2. script'.kept => Alternates(visible, height)
      BY <1>8 DEF InputPanelVisible, ScriptType
    <3>3. QED
      BY <3>1, <3>2, HeightsAssumption DEF Alternates
  <2>2. /\ script'.asked = script.asked
        /\ script'.kept => script.kept
    BY <1>8 DEF InputPanelVisible, ScriptType
  <2>3. CASE ~app.enable_input_region_
    BY <1>8, <2>1, <2>2, <2>3 DEF InputPanelVisible, MoveInputRegion, RegionInv
  <2>4. CASE app.enable_input_region_
    <3>1. /\ app'.enable_input_region_
          /\ app'.vkb_height_ = VkbHeight(height)
          /\ app'.input_region_ = IF app.input_region_ = NoRegion
                                  THEN app.input_region_
                                  ELSE app.input_region_ - VkbHeight(height)
      BY <1>8, <2>4 DEF InputPanelVisible, MoveInputRegion, AppType
    <3>2. CASE height # 0 /\ script'.kept
      <4>1. VkbHeight(height) = height /\ host.keyboard = 0
        BY <2>1, <3>2 DEF VkbHeight
      <4>2. QED
        BY <2>1, <2>2, <2>4, <3>1, <3>2, <4>1 DEF RegionInv
    <3>3. CASE height = 0 /\ script'.kept
      <4>1. /\ host.keyboard # 0 /\ host.keyboard \in Int
            /\ VkbHeight(height) = -host.keyboard
        <5>1. host.keyboard # 0 /\ host.keyboard \in Int
          <6>1. host.keyboard # 0
            BY <2>1, <3>3
          <6>2. host.keyboard \in Heights \cup {0}
            BY DEF HostType
          <6>3. \A n \in Heights \cup {0} : n \in Int
            BY HeightsAssumption
          <6>4. QED
            BY <6>1, <6>2, <6>3
        <5>2. app.vkb_height_ = host.keyboard
          BY <2>2, <2>4, <3>3, <5>1 DEF RegionInv
        <5>3. VkbHeight(height) = -app.vkb_height_
          BY <3>3 DEF VkbHeight
        <5>4. QED
          BY <5>1, <5>2, <5>3
      <4>2. CASE script.asked = NoRegion
        BY <2>1, <2>2, <2>4, <3>1, <3>3, <4>1, <4>2 DEF RegionInv
      <4>3. CASE script.asked # NoRegion
        <5>1. script.asked \in Int
          BY <4>3 DEF ScriptType
        <5>2. /\ app.input_region_ = script.asked - host.keyboard
              /\ app.input_region_ # NoRegion
          BY <2>2, <2>4, <3>3, <4>1, <4>3, <5>1, TopsAssumption DEF RegionInv
        <5>3. app'.input_region_ = script.asked
          BY <3>1, <4>1, <5>1, <5>2
        <5>4. QED
          BY <2>1, <2>2, <3>1, <3>3, <5>3 DEF RegionInv
      <4>4. QED
        BY <4>2, <4>3
    <3>4. CASE ~script'.kept
      BY <2>2, <3>1, <3>4 DEF RegionInv
    <3>5. QED
      BY <3>2, <3>3, <3>4
  <2>5. QED
    BY <2>3, <2>4
<1>9. ASSUME NEW region \in Tops \cup {NoRegion}, SetInputRegion(region)
      PROVE  RegionInv'
  <2>1. /\ host' = host /\ app'.input_region_ = region /\ script'.asked = region
        /\ app'.vkb_height_ = app.vkb_height_
        /\ app'.enable_input_region_ = app.enable_input_region_
        /\ script'.kept => host.keyboard = 0
    BY <1>9 DEF SetInputRegion, AppType, ScriptType
  <2>2. QED
    BY <2>1 DEF RegionInv
<1>10. CASE ScriptNext
  BY <1>1, <1>9, <1>10 DEF ScriptNext, SetCursor, SetWindowProperty,
       NavigationHistoryChanged, SetKeyMask
<1>11. CASE Hide
  BY <1>1, <1>11 DEF Hide, AppType, ScriptType
<1>12. CASE ShowWindow
  BY <1>1, <1>12 DEF ShowWindow
<1>13. CASE Close
  BY <1>1, <1>13 DEF Close, AppType
<1>14. CASE SuspendDOM
  BY <1>1, <1>14 DEF SuspendDOM
<1>15. CASE DidResumeDOM
  BY <1>1, <1>15 DEF DidResumeDOM, Focus, AppType, ScriptType
<1>16. CASE WebViewRecreated
  BY <1>1, <1>16 DEF WebViewRecreated, AppType, ScriptType
<1>17. CASE UNCHANGED vars
  BY <1>1, <1>17 DEF vars
<1>18. QED
  BY <1>2, <1>3, <1>4, <1>5, <1>6, <1>7, <1>8, <1>10, <1>11, <1>12, <1>13, <1>14,
     <1>15, <1>16, <1>17 DEF Next, CompositorNext

\* For keyboards of any height that come and go any number of times, shows and
\* hides alternating, the region returns to where the script asked for it.
THEOREM RegionReturns == Spec => []RegionFollowsKeyboard
<1>1. Init => RegionInv
  BY DEF Init, RegionInv
<1>2. TypeOK /\ RegionInv /\ [Next]_vars => (TypeOK /\ RegionInv)'
  BY TypeStep, RegionStep
<1>3. RegionInv => RegionFollowsKeyboard
  BY DEF RegionInv, RegionFollowsKeyboard
<1>4. QED
  BY TypeInit, <1>1, <1>2, <1>3, PTL DEF Spec

=============================================================================
