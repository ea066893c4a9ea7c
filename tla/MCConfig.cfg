CONSTANTS
  p1 = p1
  p2 = p2
  j1 = j1
  Procs <- MCProcs
  Projects <- MCProjects
  Lo = 2
  Hi <- MCHi
  Default <- MCDefault
  Inputs = {0, 5, 20}
  UserFiles <- MCUserFiles
  ProjectFiles <- MCProjectFiles
  MaxEdits = 2
  Missing = Missing
  Corrupt = Corrupt
  Absent = Absent
  Junk = Junk
  Unset = Unset
  Shared = Shared
SPECIFICATION Spec
SYMMETRY MCSymmetry
INVARIANTS WatchdogsInsideHard InStep
PROPERTIES SettingsPrivate RunOfItsProject
