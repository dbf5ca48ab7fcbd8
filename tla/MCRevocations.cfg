SPECIFICATION StoreSpec
CONSTANTS
  Certificates <- MCCertificates
  Subjects <- MCSubjects
  Lists <- MCLists
  Folded <- MCFolded
  Usages = {{}}
  time_slack = 0
  validation_cache_timeout = 1
  MaxTime = 1
  MaxChain = 4
INVARIANT RevokedAreFound
CHECK_DEADLOCK FALSE
