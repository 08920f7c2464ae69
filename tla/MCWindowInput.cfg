SPECIFICATION Spec
CONSTANTS
  Heights <- MCHeights
  Tops <- MCTops
  NoRegion = NoRegion
  MaxShift = 2
  PolicyKeys = {"back"}
  Masks <- MCMasks
INVARIANTS
  TypeOK
  FocusAgrees
  HeldButtonsAreReleased
  RegionFollowsKeyboard
  KeyMaskFollowsPolicy
