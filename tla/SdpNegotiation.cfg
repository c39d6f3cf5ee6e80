CONSTANTS
  Codecs = {H264, H265, VP9}
  Kinds <- TwoKinds
  Lines = 2
  MaxFormats = 3
  NoArgs = NoArgs
  LocalArgs = {fmtp}
  RemoteArgs = {NoArgs, fmtp}
SPECIFICATION Spec
SYMMETRY CodecSymmetry
INVARIANTS
  TypeOK
  AttributesMatchFormats
  AgreedFormats
  UnsharedDropped
  AnswerConverges
  AcceptedOnlyIfCompatible
  ReadAsPrinted
  CutKeepsBeginning
