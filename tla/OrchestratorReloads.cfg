CONSTANTS
  quote = quote
  pg = pg
  gh = gh
  u1 = u1
  u2 = u2
  None = None
  Requests = {r1, r2}
  Tools = {quote}
  Ids = {pg, gh}
  ServerOf <- Hosts
  Urls = {u1, u2}
  Url <- Connections
  Ttl <- ToolTtl
  Mutable <- MutableTools
  Rejections = {"auth_denied"}
  Failures = {"error"}
  Bad = {2}
  Reloaders = {sighup, post}
  MaxVersion = 3
SPECIFICATION Spec
SYMMETRY TaskSymmetry
INVARIANTS
  CachedContentIsClean
  ManifestFollowsReload
PROPERTY
  SuccessfulReloadIsComplete
