\* Two tools at a time, three clicks, one request that fails.  The user may stop.
SPECIFICATION Spec
CONSTANTS
  None = None
  Pages = {"docker", "podman", "kubernetes", "proxmox", "nas", "pfsense", "ceph"}
  Menus <- TwoTools
  Elsewhere = {"welcome"}
  Registered <- Reg
  Offline = {}
  Lists <- AList
  NodeLists <- ANodes
  MaxClicks = 3
  MaxFailures = 1
  MaxAsked = 1
INVARIANT DashboardTypeOK
PROPERTY NavigationShowsItsTool  CascadesEnd
CHECK_DEADLOCK FALSE
