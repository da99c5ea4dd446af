SPECIFICATION Spec
CONSTANTS
  t1 = t1
  t2 = t2
  t3 = t3
  k1 = k1
  k2 = k2
  k3 = k3
  p1 = p1
  p2 = p2
  NoTurn = NoTurn
  Turn = {t1, t2, t3}
  Key = {k1, k2, k3}
  KeyOf <- OneEach
  PolicyOf <- OnePolicy
  Limit = 2
  RequireSandboxCleanup = TRUE
  Abortable = {}
INVARIANTS
  StartedWorkerServesItsTurn
