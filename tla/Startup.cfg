CONSTANTS
  None = None
  Roles <- MCRoles
  LegalPin <- MCLegalPin
  Exportable <- MCExportable
  Memory <- MCMemory
  Wiring <- MCWiring
  MaxEntries = 8
  Contents <- MCContents
  Options <- MCOptions
  Vendor <- MCVendor
  ProductId <- MCProductId
  Idents <- MCIdents
  MaxLevel = 1
SPECIFICATION Spec
CHECK_DEADLOCK FALSE
INVARIANTS TypeOK LoadedAsWritten PinsReady NothingLeft
PROPERTIES OnlyAccepted HaltJustified
