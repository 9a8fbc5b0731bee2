\* One part of the front end per behaviour.  The user may stop.
SPECIFICATION PagesSpec
CONSTANTS
  GeoAddresses = {"a", "b"}
  GeoInbound = {"a"}
  GeoHomes = {"b"}
  GeoUnknown = {"b"}
  GeoRenders = 2
  GeoLimits = 1
  GeoFailures = 1
  SetCategories = {"kvm", "kubernetes"}
  SetIds = {1}
  SetRegistered <- MCSetRegistered
  SetAdmin = TRUE
  SetClicks = 4
  SetAsked = 2
  SetFailures = 1
  LogTools = {"kvm"}
  LogFilters = {"", "x"}
  LogClicks = 4
  LogFailures = 1
  HistServers <- MCHistServers
  HistDurations = {"15m", "1h"}
  HistRecorded <- MCHistRecorded
  HistMemory <- MCHistMemory
  HistQuiet <- MCHistQuiet
  HistEvents = TRUE
  HistIntervals = {30, 60}
  HistLimits <- MCHistLimits
  HistSwitches = {"trends", "anomalies", "forecast"}
  HistClicks = 4
  HistFailures = 1
  ShTools = {"kvm", "docker"}
  ShServers <- MCShServers
  ShAlerts <- MCShAlerts
  ShChecks = 2
  ShClicks = 2
  ShFailures = 1
  ConOpens = 2
INVARIANT PagesTypeOK NoAddressForgotten  OneRefresher OneRefreshTimer OverlaysCurrent
PROPERTY QueueDrains ListLoads LogsCatchUp HistoryCatchesUp  SessionsEnd
CHECK_DEADLOCK FALSE
