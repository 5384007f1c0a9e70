SPECIFICATION Spec
CONSTANTS
  Name = {ann, bob}
  NoName = NoName
  MaxShows = 3
  MaxOldLoads = 1
INVARIANTS
  TypeOK
  TextIsCurrent
  HousesSpeakTheLanguage
  LoadIsCovered
  NameIsCurrent
PROPERTIES
  BothUpSettles
  LoneAlertCloses
