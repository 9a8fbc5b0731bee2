\* Containers and clusters, four clicks: select, leave, come back.  The user may stop.
SPECIFICATION Spec
CONSTANTS
  None = None
  Pages = {"docker", "podman", "kubernetes", "proxmox", "nas", "pfsense", "ceph"}
  Menus <- DockerKubernetes
  Elsewhere = {"welcome"}
  Registered <- Reg
  Offline = {}
  Lists <- AList
  NodeLists <- ANodes
  MaxClicks = 4
  MaxFailures = 0
  MaxAsked = 1
PROPERTY PreviousSelectionRestored
CHECK_DEADLOCK FALSE
