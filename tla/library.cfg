SPECIFICATION Spec
CONSTANTS
  c1 = c1
  c2 = c2
  work = work
  home = home
  Slots <- Callers
  Worker = worker
  none = none
  Folders = {f1, f2, f3}
  FirstFolders = {f1, f2}
  Names = {work, home}
  TagIds = {1, 2, 3}
  FirstTags <- TwoTags
  TagLists <- Lists
  MaxAnalyses = 2
  MaxCalls = 3
  MaxCuts = 1
INVARIANTS FlagIsParity TagsAsAsked CountsAddUp DeletionComplete
CHECK_DEADLOCK FALSE
