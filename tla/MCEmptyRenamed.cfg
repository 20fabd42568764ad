CONSTANTS
  NoSection = NoSection
  NoKey = NoKey
  NoRename = NoRename
  NoDbs = NoDbs
  NoFile = NoFile
  NoSnapshot = NoSnapshot
  TenantTemplate <- MCTenantTemplate
  Replacements <- MCReplacements
  Source <- MCSourceNoIndexOfB
  BackupChoices <- MCTenantsAB
  RestoreChoices <- MCTenantB
  DriftIndices <- NoDrift
  DriftTemplates <- NoDrift
  MaxDrift = 1
INIT Init
NEXT Next
INVARIANT NoCollateralRestore
CHECK_DEADLOCK FALSE
