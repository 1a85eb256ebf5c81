CONSTANTS
  Conns = {c1, c2, c3}
  Requests = {r1, r2}
  MAX_WORKERS = 2
SPECIFICATION FairSpec
INVARIANTS ProcessesBounded SlotsAccounted
PROPERTY Served
