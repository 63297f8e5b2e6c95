CONSTANTS
  c1 = c1  c2 = c2  h1 = h1  t1 = t1
  Conns = {c1, c2}
  ConnectIDs = {h1}
  who <- Certificates
  OrgOf <- Orgs
  sni <- Names
  Teams = {t1}
  HostRows <- Hosts
  TeamRows <- Members
  NoRow = NoRow
  WellFormed = {"a:22", "d:22"}
  NoAddr = ""
  Self = "localhost"
  None = "none"
  PoolSize = 1
  MaxChanges = 2
SPECIFICATION FairSpec
CHECK_DEADLOCK FALSE
INVARIANTS RoutedAsAllowed LateAreRefused GracefulMeansQuiet
PROPERTIES StopEnds
