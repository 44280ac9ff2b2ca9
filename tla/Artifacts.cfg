CONSTANTS
  html = html
  htm = htm
  log = log
  out = out
  t1 = t1
  t2 = t2
  empty = empty
  small = small
  large = large
  Files <- InOrder
  Prefixes <- LongerNames
  Outputs = {out}
  Scanners = {t1, t2}
  OutputOf <- FirstHasOutput
  Contents = {empty, small, large}
  Size <- Sizes
  NoFile = NoFile
  MaxSize = 2
  MaxDiscover = 1
  MaxWrites = 1
SPECIFICATION ArtifactsFairSpec
INVARIANT OneArtifactEach
PROPERTY EverythingIsFound
CHECK_DEADLOCK FALSE
