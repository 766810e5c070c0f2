SPECIFICATION MCSpec
CONSTANTS
  s1 = s1
  s2 = s2
  s3 = s3
  r1 = r1
  r2 = r2
  r3 = r3
  c1 = c1
  c2 = c2
  h1 = h1
  h2 = h2
  SessionIds = {s1, s2, s3}
  RequestIds = {r1, r2, r3}
  Size <- MCSize
  max_sessions = 2
  ttl_ms = 1
  MAX_REQUEST_IDS_PER_SESSION = 2
  MAX_REQUEST_ID_STORAGE_BYTES = 2
  MAX_REQUEST_ID_REPLAY_BYTES = 3
  MAX_GLOBAL_REQUEST_ID_REPLAY_BYTES = 4
  MaxTime = 2
  NoSession = NoSession
  HubCommands = {c1, c2}
  HubRuntimes = {h1, h2}
  Nobody = Nobody
  MaxEvents = 2
SYMMETRY ProcessSymmetry
INVARIANTS HandledOnce BudgetsHold OneRuntime CommandsTellTheTruth
PROPERTIES LiveSessionKept
