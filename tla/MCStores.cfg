SPECIFICATION Spec
CONSTANTS
 Files = {f, g}
 Calls = {c1, c2}
 MaxFiles = 2
 MaxContents = 3
 Services = {s1, s2}
 Slots = {1, 2}
 Ids = {i, j}
 Plugins = {x}
 MaxCalls = 2
 code = code
 metadata = metadata
 short = short
 long = long
 Clients = {k}
 MaxEntries = 2
 MaxStoredBytes = 3
 MaxAsked = 2
 LineKinds = {0, 1, 2}
 MaxLines = 3
 PageSizes = {1, 2}
 Targets = {0, 1, 2, 3}
 Events = {a, b}
 MaxKept = 2
 MaxView = 3
 MaxIds = 3
 Inodes = {y, z}
 MaxSize = 4
 Window = 3
 Chunk = 3
 Nothing = Nothing
 Runtimes = {"desktop", "stdio"}
 MaxRows = 4
 Desktop = "desktop"
 Drives <- ThreeDrives
 Disk <- LinkedDisk
 MaxLinks = 2
 Secrets = {"key"}
 Earlier <- EarlierRows
 Places <- TwoNames
 Inputs <- PathInputs
 Roots <- TwoRoots
 Off = {}
 Configs <- TwoConfigs
 Folders <- SkillFolders
 Servers <- ChildServers
 Allowlist = TRUE
 Enabled = {"s"}
 Disabled = {"t"}
 Asks <- CatalogAsks
 MaxEdits = 1
 MaxBytes = 3
 TailLines = {0, 1}
 MaxPieces = 4
INVARIANTS
 StoresTypeOK
 
 AnsweredIsStored
 ReadsSound
 LookupsTrue
 ViewSound
CONSTRAINT NoClash
SYMMETRY Symmetric
CHECK_DEADLOCK FALSE
