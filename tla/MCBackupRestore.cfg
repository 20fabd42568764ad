CONSTANTS
  NoSection = NoSection
  NoKey = NoKey
  NoRename = NoRename
  NoDbs = NoDbs
  NoFile = NoFile
  NoSnapshot = NoSnapshot
  TenantTemplate <- MCTenantTemplate
  Source <- MCSource
  BackupChoices <- MCBackupChoices
  RestoreChoices <- MCRestoreChoices
  Replacements <- MCReplacements
  DriftIndices <- MCDriftIndices
  DriftTemplates <- MCDriftTemplates
  MaxDrift = 2
INIT Init
NEXT Next
INVARIANTS
  TypeOK
  IndicesRestored
  TemplatesRestored
  AliasesRestored
  NoSelfInflictedAbort
  NoCollateralRestore
CHECK_DEADLOCK FALSE
