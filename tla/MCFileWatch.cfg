SPECIFICATION Spec
CONSTANTS
  lib = lib
  main = main
  target = target
  deep = deep
  Tree <- MCTree
  Depth <- MCDepth
  Ignored = {target}
  Stamps <- MCStamps
  Absent = Absent
  MaxEntries = 2
  MaxDepth = 2
  MaxDebounceRounds = 2
INVARIANTS
  RestartHasACause
PROPERTIES
  SeenChangeIsActedOn
  LastingChangeIsSeen
CHECK_DEADLOCK FALSE
