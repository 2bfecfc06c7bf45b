SPECIFICATION Spec
CONSTANTS
  Deliveries = {d1}
  Workers = {w1, w2}
  MaxAttempts = 3
  Limit = 100
  Crashes = TRUE
  MaxPosts = 5
  Urls = {"", "public", "local"}
  Public = {"public"}
CONSTRAINT FewPosts
SYMMETRY Symmetry
INVARIANTS TypeOK HonestRows
