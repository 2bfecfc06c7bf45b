SPECIFICATION FairSpec
CONSTANTS
  Deliveries = {d1, d2}
  Workers = {w1}
  MaxAttempts = 3
  Limit = 1
  Crashes = FALSE
  MaxPosts = 5
  Urls = {"", "public"}
  Public = {"public"}
PROPERTIES KeepsPromise DoneIsDone BackedOff EverySettles
