SPECIFICATION FairSpec
CONSTANTS
  Files <- AllFiles
  Other = "other"
  Paths <- PathWords
  ServerKeys <- ServerWords
  LocationKeys <- LocationWords
  Refused <- RefusedPairs
CHECK_DEADLOCK FALSE
INVARIANTS TokensRight SyntaxDecides SettingsFollow
PROPERTY ReadingEnds
