CONSTANTS
  h1 = h1
  h2 = h2
  h3 = h3
  r1 = r1
  r2 = r2
  relA = relA
  relB = relB
  own1 = own1
  NoOwner = NoOwner
  NoRun = NoRun
  NoRelease = NoRelease
  Steady = {h1}
  Owners = {own1}
  Owner <- SharedOwner
  Hosts = {h1, h2, h3}
  Runs = {r1}
  MaxAttempts = 2
  Scheduled = {}
  Automation = {}
  Parkable = {}
  Stoppable = {h1, h2}
  Releases = {relA, relB}
  Release <- Rollout
SPECIFICATION Spec
SYMMETRY OldReplicas
INVARIANTS
  DrainedReleaseHasNoBacklog
  TypeOK
  SoleFence
  RedeliveryBudget
PROPERTIES
  TerminalStands
  LatestReportStands
