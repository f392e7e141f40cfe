SPECIFICATION MCSpec
CONSTANTS
  Nothing = Nothing
  Essential = {"sudo"}
  PythonNeeds = {"python3"}
  DiskNeeds = {"linux"}
  DiskTools = {"mke2fs"}
  FedoraBase = {"lib"}
  FedoraTools = {"dnf5"}
  Langpack <- MCLangpack
  FedoraRepos <- MCRepos
  FedoraKey = "fk"
  PinnedPip <- MCPinnedPip
  Project <- MCProject
  Recipes <- PipRecipes
  Worlds <- MCWorlds
  Needs <- MCNeeds
  ArchOf <- MCArchOf
  Wheels <- MCWheels
  VenvSeeds <- MCSeeds
  Digests = {"a", "b"}
  LockEdits = {"sources", "key", "digest", "tools", "repository"}
  Years = 3
  Edits = 2
  Kinds <- MCKinds
  PipeSize = 2
  Omitted = {"update-index", "extract", "install-essential", "install-requested", "install-python"}
  MiB = 8
  Sector = 2
  EspMiB = 4
  HeadroomMiB = 2
  MaxMiB = 40
  EspMinMiB = 2
  EspMaxMiB = 8
  Tarballs = {1, 15, 16, 17, 100}
  Requests = {0, 4, 8, 16, 40}
  DiskSeeds = {"s1", "s2"}
  Shims = {"2011", "2023"}
  Edited = {0, 3, 16, 48, 72}
CHECK_DEADLOCK FALSE
INVARIANTS
  LockTellsTheImage
