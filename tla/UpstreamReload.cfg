CONSTANTS
  pg = pg
  gh = gh
  adhoc = adhoc
  u1 = u1
  u2 = u2
  Ids = {pg, gh, adhoc}
  Upstreams <- Files
  Bad = {3}
  Urls = {u1, u2}
  ApiServer <- Adhoc
  Reloaders = {sighup, post}
  MaxVersion = 4
  MaxApi = 1
  NoServer = NoServer
SPECIFICATION UpstreamSpec
INVARIANTS
  UpstreamTypeOK
  RegistryFollowsConfig
PROPERTIES
  UnchangedKeepSession
  ApiServersSurvive
