SPECIFICATION MCSpec
CONSTANTS
  Apps = {x1}
  SupportsAudioGuidance = {}
  Languages = {en, ko}
  Countries = {kor, usa}
  MaxChanges = 2
  MaxStops = 1
INVARIANTS
  TypeOK
  ViewsFollowSettings
  SettledIsCurrent
PROPERTIES
  SettingsArrive
