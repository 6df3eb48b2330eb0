SPECIFICATION FairSpec
CONSTANTS
  s1 = s1
  s2 = s2
  Servers <- TwoServers
  NoServer = NoServer
  NoTcp = NoTcp
  MaxInits = 2
  MaxRestarts = 1
INVARIANT TypeOK
INVARIANT SmartconfigGuarded
INVARIANT RecvReady
INVARIANT OneServer
PROPERTY LinkTakenWhileRunning
PROPERTY EspTouchEnds
PROPERTY Joins
PROPERTY Reconnects
