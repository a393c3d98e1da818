CONSTANTS
  NormalJobs = {n1, n2}
  LowJobs = {l1}
  Quotas <- MCQuotas
  MaxAdds = 2
SPECIFICATION FairSpec
INVARIANTS QuotaKept JobsInvariant
PROPERTIES OvertakenInBatchOnly NoStarvation
