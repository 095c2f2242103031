CONSTANTS
  c1 = c1
  c2 = c2
  c3 = c3
  Requests = {c1, c2, c3}
  Concurrent = FALSE
  Pages <- MCPages
  Texts <- MCTexts
  MaxChars = 3
  Sources <- MCSources
  Proses <- MCProses
  Matches <- MCMatches
SPECIFICATION PipelinesSpec
INVARIANT PipelinesTypeOK
INVARIANT OwnLanguage
INVARIANT EachLineOnce
INVARIANT SectionsInOrder
INVARIANT PiecesKept
INVARIANT SourceKept
INVARIANT SpansWhole
PROPERTY ChunkingEnds
CHECK_DEADLOCK FALSE
