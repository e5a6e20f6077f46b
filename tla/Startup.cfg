SPECIFICATION Spec
CONSTANTS
  KeySets <- MCKeySets
INVARIANTS
  OnlyKnownMisuse
  NothingLeft
  SettingsInPlace
