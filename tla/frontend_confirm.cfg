SPECIFICATION Spec
CONSTANTS
  Absent = Absent
  Failure = Failure
  Conflict = Conflict
  Packs <- MCPacks
  MaxField = 3
  Owners = {"u1", "u2"}
  Schemes = {"s1", "s2"}
  Parts <- MCParts
  Bom <- MCBom
  Tables <- MCTables
  MustShow <- MCMustShow
  Catalog <- MCCatalog
  PageSizes = {1, 2}
  Offered <- MCOffered
  Preset = {"dxf", "step"}
  Drawings = {"A", "B"}
  Marks = {1, 2}
  MaxHistory = 2
  Mentionable <- MCMentionable
  Starts <- ConfirmStarts
PROPERTY
  OnlyPreviewedIsApplied
CHECK_DEADLOCK FALSE
