SPECIFICATION MCSpec
CONSTANTS
  None = None
  Absent = Absent
  Missing = Missing
  Archives = {"noble"}
  PyPI = "pypi"
  ThirdParty = {"docker"}
  Requests <- MCRequests
  Caches <- MCCaches
  Loads = {l1, l2}
  Names <- MCNames
  Texts <- MCTexts
  Typed = {"", "x", "part"}
  Order <- MCOrder
  Holds <- MCHolds
  SectionOf <- MCSectionOf
  Spelling <- MCSpelling
  Folded <- MCFolded
  CatalogChosen = {}
  Lists <- MCLists
  Starts <- MCStarts
  Matches <- MCMatches
  MaxKeys = 3
  MaxChanges = 1
  Accepted <- MCAccepted
  Releases <- MCReleases
  Newest <- MCNewest
  ProjectOf <- MCProjectOf
  CertificateName <- MCCertificateName
  CatalogOf <- MCCatalogOf
  SourceCatalog = {"docker", "llvm"}
  PerRelease = {"llvm"}
  Ppas <- MCPpas
  PpaName <- MCPpaName
  PpaOf <- MCPpaOf
  Offered <- MCOffered
  Exotic = {"my corp.pem"}
  Originals <- MCOriginals
  Tries <- MCTries
  Certificates <- MCCertificates
  Spelled <- MCSpelled
  MaxAnswers = 3
  Runs = {"init", "capture"}
  Certs = {"corp", "root"}
  Captures = {"capture"}
  CapturedBy <- MCCapturedBy
  Killable = {"init"}
CHECK_DEADLOCK FALSE
INVARIANT WarningCatchesUp
