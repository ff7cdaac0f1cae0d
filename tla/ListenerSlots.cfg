CONSTANTS
  d1 = d1
  d2 = d2
  d3 = d3
  main = main
  other = other
  badname = badname
  org = org
  stranger = stranger
  NoOwner = NoOwner
  Deliveries = {d1, d2, d3}
  MaxJobs = 2
  Isolation = "nono"
  Repos <- OnlyMain
  Owner <- MCOwner
  Installation <- MCInstallation
  AllowedOwners <- Anyone
  AllowedInstallations <- Anyone
  Payloads <- CrowdPayloads
  ConfigFiles <- OnConfig
  MaxPushes = 0
  MaxCrashes = 1

SPECIFICATION FairSpec
INVARIANTS
  TypeOK
  SlotsBalanced
  WorkersBounded
  WorkersSupervised
  NoTruncatedJobRuns
  ReviewedMeansPosted
PROPERTIES
  AllSlotsReturn
  ImplementsPool
CHECK_DEADLOCK FALSE
