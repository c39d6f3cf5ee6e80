CONSTANTS
  CsrcMax = 3
  LengthMax = 65535
  Csrcs <- MCCsrcs
  ExtData <- MCShortExtData
  Payloads <- MCPayloads
  MaxExts = 2
SPECIFICATION Spec
INVARIANT RebuildsSame
