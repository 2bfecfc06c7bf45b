SPECIFICATION Spec
CONSTANTS
  Single = 160
  Multi = 153
  UcsSingle = 70
  UcsMulti = 67
  Threads = {t1, t2}
  Keys = {k1}
  Letter <- MCLetter
  Draft <- MCDraft
  Sims <- MCSims
  Asked <- MCAsked
  MaxRows = 2
CONSTRAINT FewRows
SYMMETRY Symmetry
INVARIANTS SendingTypeOK RetriesAgree KeptPromise KeylessNeverCollide
  SegmentsRight WholeOrNothing EvenShares
