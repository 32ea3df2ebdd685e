CONSTANTS
  NULL = NULL
  EMPTY = EMPTY
  req = req
  flush = flush
  t1 = t1
  t2 = t2
  Reqs = {req}
  Flushes = {flush}
  Calls <- MCCalls
  Tenants = {t1, t2}
  TenantOf <- MCTenantOf
  Programs <- MCPrograms
  Clients = {c1, c2}
  Servers = {s1, s2}
SPECIFICATION FairSpec
INVARIANTS
  Isolation
  AllOrNothing
  AnswerIsTrue
PROPERTIES
  KeepsPromise
  EveryRequestAnswered
\* The requests end.
CHECK_DEADLOCK FALSE
