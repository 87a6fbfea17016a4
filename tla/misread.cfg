SPECIFICATION Spec
CONSTANTS
  Files <- UnknownFiles
  Other = "other"
  Paths <- PathWords
  ServerKeys <- ServerWords
  LocationKeys <- LocationWords
  Refused <- RefusedPairs
CHECK_DEADLOCK FALSE
INVARIANT EverySettingKept
