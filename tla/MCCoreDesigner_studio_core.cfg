SPECIFICATION MCSpec
CONSTANTS
  Plugins <- MCPlugins
  InstanceOf <- MCInstanceOf
  Catalog <- MCCatalog
  ConfigValues <- MCConfigValues
  TemplateOrder <- MCTemplateOrder
  Seeds <- MCSeeds
  TemplateIds <- MCTemplateIds
  NewIds <- MCNewIds
  ExportIds <- MCExportIds
  MaxEdits = 2
  MaxLocal = 1
  MaxOpens = 1
INVARIANTS
  DesignSound DesignMirrored ImportSound
CHECK_DEADLOCK FALSE
