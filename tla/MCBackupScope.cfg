CONSTANTS
  NoSection = NoSection
  NoKey = NoKey
  NoRename = NoRename
  NoDbs = NoDbs
  NoFile = NoFile
  NoSnapshot = NoSnapshot
  TenantTemplate <- MCTenantTemplate
  Replacements <- MCReplacements
  Source <- MCSourceScope
  BackupChoices <- MCTenantsAB
  RestoreChoices <- MCTenantsAB
  DriftIndices <- NoDrift
  DriftTemplates <- NoDrift
  MaxDrift = 0
INIT Init
NEXT Next
INVARIANT BackupWithinTenants
CHECK_DEADLOCK FALSE
