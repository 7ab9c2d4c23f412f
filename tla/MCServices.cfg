CONSTANT
  Statuses = {200, 204, 304, 400, 401, 403, 404, 409, 418, 422, 429, 500, 503}
SPECIFICATION FairSpec
INVARIANTS ResultFitsAnswer BodyClosed
PROPERTY ContextEndsCall
\* An ended run or call does nothing more.
CHECK_DEADLOCK FALSE
