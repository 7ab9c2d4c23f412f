\* A keychain that stays as it is, and one that comes and goes.
CONSTANTS
  a = a
  b = b
  t = t
  u = u
  Names = {a, b}
  Tokens = {t, u}
  None = None
  Unknown = Unknown
SPECIFICATION Spec
INVARIANTS LastSetWins NothingLost NoResurrection
PROPERTY KeepsVault
SYMMETRY Symmetric
