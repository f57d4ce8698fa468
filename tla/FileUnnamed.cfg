SPECIFICATION Spec
CONSTANTS
  f1 = f1
  f2 = f2
  f3 = f3
  d1 = d1
  d2 = d2
  d3 = d3
  NoFile = NoFile
  Files <- MC_Files
  Ids <- MC_Ids
  Fds <- MC_Fds
  Names <- MC_Names
  Risky <- MC_Proper
SYMMETRY MC_Symmetry
PROPERTIES
  LastOwnerCloses
