SPECIFICATION DeliverySpec
CONSTANTS
  Callers = {c1}
  c1 = c1
  Tokens = {t1, t2}
  t1 = t1
  t2 = t2
  Eternal = {t2}
  NoToken = NoToken
  None = None
  NetErr = NetErr
  CtxErr = CtxErr
  ProvErr = ProvErr
  Enabled = TRUE
  MaxAttempts = 3
  Statuses <- MCStatuses
  RetryableStatus = {429, 503}
INVARIANTS
  SuccessIsReal
  EffectsAccountedFor
PROPERTY KeepsErrand
\* Each caller makes one call.
CHECK_DEADLOCK FALSE
