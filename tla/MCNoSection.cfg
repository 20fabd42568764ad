CONSTANTS
  NoSection = NoSection
  NoKey = NoKey
  NoRename = NoRename
  NoDbs = NoDbs
  NoFile = NoFile
  NoSnapshot = NoSnapshot
  TenantTemplate <- MCTenantTemplate
  Replacements <- MCReplacements
  Source <- MCSourceNoSection
  BackupChoices <- MCTenantsAB
  RestoreChoices <- MCTenantA
  DriftIndices <- NoDrift
  DriftTemplates <- NoDrift
  MaxDrift = 0
INIT Init
NEXT Next
INVARIANT NoSelfInflictedAbort
CHECK_DEADLOCK FALSE
