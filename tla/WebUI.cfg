SPECIFICATION FairSpec
CONSTANTS
  index = index
  app = app
  logo = logo
  Paths = {index, app, logo}
  Versions = {1, 2, 3}
  Edited = {app}
  Size <- MCSize
  MaxSize = 3
  MaxFiles = 2
  Ttl = 1
  Clients = {c1}
  MaxRequests = 2
  Window = 2
  Handlers = {h1, h2}
INVARIANTS
  CacheBounded
  LruOrder
  LimitExact
PROPERTIES
  StaleLeaves
