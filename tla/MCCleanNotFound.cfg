CONSTANTS
  NoSection = NoSection
  NoKey = NoKey
  NoRename = NoRename
  NoDbs = NoDbs
  NoFile = NoFile
  NoSnapshot = NoSnapshot
  TenantTemplate <- MCTenantTemplate
  Replacements <- MCReplacements
  Source <- MCSource
  BackupChoices <- MCTenantsAB
  RestoreChoices <- MCTenantA
  DriftIndices <- NoDrift
  DriftTemplates <- MCStaleTemplates
  MaxDrift = 1
INIT Init
NEXT Next
INVARIANT CleanLeavesOnlyBackup
CHECK_DEADLOCK FALSE
