SPECIFICATION FairSpec

CONSTANTS
  c1 = c1
  c2 = c2
  Clients = {c1, c2}
  Versions <- SmallVersions
  Started <- SmallStarted
  FeedStates <- SmallFeeds
  Faults = {"npx", "store", "pkexec", "asset", "thread", "disk", "lost", "stamp", "run", "dpkg"}
  MaxOps = 2
  MaxRestarts = 1

INVARIANTS
  TypeOK
  OwnOperation
  PackageFiles
  AnswersTrue

PROPERTIES
  BusyEnds
  ImplementsLife
