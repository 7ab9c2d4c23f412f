SPECIFICATION StackSpec
CONSTANTS
  Callers = {c1, c2}
  c1 = c1
  c2 = c2
  Tokens = {0, 1, 2}
  Eternal = {0}
  NoToken = NoToken
  None = None
  NetErr = NetErr
  CtxErr = CtxErr
  ProvErr = ProvErr
  Enabled = TRUE
  MaxAttempts = 2
  Statuses = {200, 401, 503}
  RetryableStatus = {429, 503}
  Modes <- TrustyModes
SYMMETRY CallerSymmetry
INVARIANTS
  SingleFlight
  NoSpuriousAuthFailure
  NoCircularWait
