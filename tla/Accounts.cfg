SPECIFICATION Spec
CONSTANTS
  Accounts = {a1, a2}
  Devices = {d1, d2, d3}
  ApiKeys = {k1, k2, k3, k4}
  Codes = {c1}
  Threads = {t1, t2}
  Scopes <- MCScopes
  FullScopes <- MCScopes
  Nobody = Nobody
SYMMETRY Symmetry
INVARIANTS AccountsTypeOK PairedOnce OneAccount
PROPERTY RevokedForGood
