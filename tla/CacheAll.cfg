\* Three commands on five profiles, of which three go by one name; connections that
\* fail or are dropped, a shutdown.
SPECIFICATION CacheFairSpec
CONSTANTS
  Use = {u1, u2, u3}
  Nobody = nobody
  Profile = {"prod", "stage", "anna", "ben", "alias"}
  ConfigName <- Names
  Host <- Hosts
  MaxDrops = 2
INVARIANTS
  OneClient
  OwnServer
PROPERTIES
  NeverGivenClosed
  UsesEnd
