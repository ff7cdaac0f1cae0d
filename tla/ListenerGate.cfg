CONSTANTS
  d1 = d1
  d2 = d2
  d3 = d3
  main = main
  other = other
  badname = badname
  org = org
  stranger = stranger
  NoOwner = NoOwner
  Deliveries = {d1}
  MaxJobs = 1
  Isolation = "in_process"
  Repos <- AllRepos
  Owner <- MCOwner
  Installation <- MCInstallation
  AllowedOwners <- OrgOnly
  AllowedInstallations <- InstallationOne
  Payloads <- EveryPayload
  ConfigFiles <- EveryConfig
  MaxPushes = 1
  MaxCrashes = 0

SPECIFICATION Spec
INVARIANTS
  FailSecure
  CommandReviewsLatest
  OnlyTriggersAct
CHECK_DEADLOCK FALSE
