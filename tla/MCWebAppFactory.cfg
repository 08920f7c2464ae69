SPECIFICATION Spec
CONSTANTS
  Files = {f1, f2, f3}
  Default = default
  custom = custom
  extended = extended
  Names <- AllNames
  PluginTypes <- CustomOnly
  Contains <- ContainsOf
  Apps = {x1, x2}
  NoFile = none
  MaxChanges = 1
SYMMETRY Symmetry
INVARIANTS
  TypeOK
  FactoriesStayLoaded
  OneFactoryPerApp
  ServesDeclaredTypes
  EnabledOrNamed
PROPERTIES
  FactoryOfKeyIsFixed
