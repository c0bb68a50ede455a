SPECIFICATION Spec
CONSTANTS
  Names <- ThreeNames
  Flags <- OneFlag
  Other <- OnePath
  Nodes <- TwoNodes
  MaxOptions = 2
  MaxEarly = 1
  MaxLines = 2
  MaxReports = 1
  MaxDirs = 4
  NameLike <- LogPieces
  NumberLike <- OneNumber
  Hex <- HexPieces
  Digits <- DecimalPieces
  Users <- TwoUsers
  IDs <- ThreeIDs
  Values <- FiveValues
  MaxTags = 2
  MaxSnapshots = 1
  Plain <- PlainPieces
  Chars <- NamePieces
  MaxName = 2
INVARIANTS UPIDsReadBack LinesReadBack TargetIsParsed LogTargetIsParsed ConfigReadBack SubjectsRoute
