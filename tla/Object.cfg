SPECIFICATION FairSpec
CONSTANTS
  Threads = {t1, t2, t3}
  Workers = {t1}
  Waiters = {t2, t3}
  Objects = {o1, o2}
  Nobody = Nobody
  NoObject = NoObject
  FullRelease = TRUE
INVARIANTS TypeOK RefcExact OnlyRevivedMisused NoneForgotten SleeperWoken
PROPERTY Reclaimed
CHECK_DEADLOCK FALSE
