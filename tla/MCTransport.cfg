SPECIFICATION Spec
CONSTANTS
  Callers = {c1, c2}
  c1 = c1
  c2 = c2
  Tokens = {t1, t2}
  t1 = t1
  t2 = t2
  Eternal = {t2}
  NoToken = NoToken
  None = None
  NetErr = NetErr
  CtxErr = CtxErr
  ProvErr = ProvErr
  Enabled = TRUE
  MaxAttempts = 2
  Statuses = {200, 401, 403, 503}
  RetryableStatus = {429, 503}
SYMMETRY CallerSymmetry
INVARIANTS
  RefreshOnlyOnMiss
  CancelBoundsSends
PROPERTIES
  KeepsPromise
  NeverTurnsBack
