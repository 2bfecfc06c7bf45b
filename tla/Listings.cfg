SPECIFICATION Spec
CONSTANTS
  LastId = 3
  CampaignIds = {2, 3}
  NotANumber = NotANumber
  Asked <- MCAsked
  DefaultLimit = 2
  MaxLimit = 3
  Filters = {"sending", "failed"}
  NoFilter = NoFilter
INVARIANTS NothingMissed NoRepeats ProgressAgrees
PROPERTY WalkEnds
