CONSTANTS
  CsrcMax = 3
  LengthMax = 12
  Csrcs <- MCCsrcs
  ExtData <- MCExtData
  Payloads <- MCPayloads
  MaxExts = 2
SPECIFICATION Spec
INVARIANTS
  TypeOK
  ReadAsBuilt
  CutIsNoticed
