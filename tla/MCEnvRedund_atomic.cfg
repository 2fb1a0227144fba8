SPECIFICATION Spec
CONSTANTS
  dflt = dflt
  e1 = e1
  e2 = e2
  Env <- MCEnv
  Default <- dflt
  Junk = Junk
  NoSave = NoSave
  Tear <- MCNoTear
  MayOverflow = FALSE
  MayIgnore = FALSE
INVARIANTS
  TypeOK
  ValidCopyUsed
  CleanAfterSave
  RecoveryLasts
PROPERTIES
  AtomicSave
  BackupKept
