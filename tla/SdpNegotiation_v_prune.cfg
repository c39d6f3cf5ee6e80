CONSTANTS
  Codecs = {H264, H265, VP9}
  Kinds <- OneKind
  Lines = 1
  MaxFormats = 3
  NoArgs = NoArgs
  LocalArgs = {NoArgs}
  RemoteArgs = {NoArgs}
SPECIFICATION Spec
INVARIANT KeepsOnlyShared
