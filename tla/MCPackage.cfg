CONSTANTS
  Path <- MCPath
  Inside <- MCInside
  FileLists <- MCFileLists
  Names <- MCNames
  UINT32_MAX = 5
  FileDigests = FALSE
  Attrs <- MCAttrs
  Tokens <- MCTokens
  DevPaths <- MCDevPaths
  ExecModes <- MCExecModes
  Output <- MCOutput
  Filtered <- MCFiltered
  FilteredFrom <- MCFilteredFrom
  ConfigDep = "config(pkg)"
  MaxSilent = 1
  Provides <- MCProvides
  Payload = "gzip"
  Tilde <- MCTilde
  Rich <- MCRich
SPECIFICATION MCSpec
CHECK_DEADLOCK FALSE
INVARIANTS
  TypeOK BufferNamesEntry HeaderIsWhatLinesSay LinksCountOnce SizesFit ExplicitModeWins
  PackageIsWhole  SlicesNameDependencies
