CONSTANTS
  h1 = h1
  h2 = h2
  h3 = h3
  r1 = r1
  r2 = r2
  relA = relA
  relB = relB
  own1 = own1
  NoOwner = NoOwner
  NoRun = NoRun
  NoRelease = NoRelease
  Steady = {h1}
  Owners = {own1}
  Owner <- SharedOwner
  Hosts = {h1, h2}
  Runs = {r1}
  MaxAttempts = 1
  Scheduled = {}
  Automation = {}
  Parkable = {}
  Stoppable = {h1}
  Releases = {relA}
  Release <- OneRelease
SPECIFICATION LiveSpec
CHECK_DEADLOCK FALSE
PROPERTIES
  AdmittedRunEnds
  StoppedHostExits
  LeaseEnds
