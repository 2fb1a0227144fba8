SPECIFICATION SpecProgrammed
CONSTANTS
  dflt = dflt
  e1 = e1
  e2 = e2
  Env <- MCEnv
  Default <- dflt
  Junk = Junk
  NoSave = NoSave
  Tear <- MCTear
  MayOverflow = FALSE
  MayIgnore = FALSE
INVARIANTS
  ValidCopyUsed
