CONSTANTS
  NoSection = NoSection
  NoKey = NoKey
  NoRename = NoRename
  NoDbs = NoDbs
  NoFile = NoFile
  NoSnapshot = NoSnapshot
  TenantTemplate <- MCTenantTemplate
  Replacements <- MCReplacements
  Source <- MCSourceOverlap
  BackupChoices <- MCOverlapChoices
  RestoreChoices <- MCOverlapChoices
  DriftIndices <- NoDrift
  DriftTemplates <- NoDrift
  MaxDrift = 0
INIT Init
NEXT Next
INVARIANT TemplatesRestored
CHECK_DEADLOCK FALSE
