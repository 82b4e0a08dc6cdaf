SPECIFICATION FairSpec
CONSTANTS
  Images = {compute, desktop}
  Wanted = {compute}
  Dirs = {centos}
  DirOf <- OneDir
  Edited = {centos}
  Versions = {v1, v2}
  First = v1
  None = None
  MaxEdits = 2
  MaxUpsets = 1
  MaxOthers = 1
INVARIANTS TypeOK TagNeverLies
PROPERTIES Published NothingTwice Recovers
