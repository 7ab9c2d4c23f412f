CONSTANTS
  Names = {default, work}
  DefaultName = default
  Environments = {production, custom}
  Known = {production}
  Home = home
  Urls = {home, other}
  UrlOf <- MCUrlOf
  Tokens = {t1, t2}
  Unset = Unset
  Empty = Empty
SPECIFICATION Spec
SYMMETRY Symmetry
INVARIANTS UsesWhatWasTested OrphanTokensStayIdle
PROPERTY KeepsToStores
