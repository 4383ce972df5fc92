SPECIFICATION Spec
CONSTANTS
  Threads = {t1, t2}
  Compilers = {t1}
  Nobody = nobody
  Paths = {p1}
  NoPath = nopath
  Devices = {gfx942, gfx1100}
  device_id = gfx942
  Binaries <- MCBinaries
  Symbols <- MCSymbols
  Fused <- MCFused
  NoSymbol = nosymbol
  NoArtifact = noartifact
  AllowMocks = FALSE
  FilesStable = TRUE
CHECK_DEADLOCK FALSE
INVARIANTS
  TypeOK
  ArtifactKindTrue
  NoMockLaunched
  KernelsOfLastLoad
