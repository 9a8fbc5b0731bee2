------------------------------- MODULE Panels -------------------------------
(***************************************************************************)
(* What the detail panels of the dashboard show of a host and of what the  *)
(* tool runs on it.  A host is <<tool, id>>: each tool numbers its own.  A *)
(* panel names the renderer that wrote it, the host whose values it shows, *)
(* one row per container, machine, volume, disk or node, and the alerts.   *)
(* A renderer that finds its own markup of the same host on the screen     *)
(* updates the values in place, otherwise it writes the markup anew.       *)
(***************************************************************************)
EXTENDS Naturals, FiniteSets

CONSTANT None  \* nothing: no host, no selection, no markup

Panel(by, h, rows, alerts) == [by |-> by, host |-> h, rows |-> rows, alerts |-> alerts]

Blank          == Panel("none", None, {}, {})
Summary(t)     == Panel(t, None, {}, {})
Placeholder(t) == Panel(t, None, {}, {})

\* The entries of a cache that belong to a host: caches hold the id alone.
Of(cs, h) == {c \in cs : c.host = h[2]}

\* Is the markup of host id i by this renderer on the screen?
Wrote(p, t, i) == p.by = t /\ p.host # None /\ p.host[2] = i

----------------------------------------------------------------------------
(* Docker and Podman: the same panel in two copies. *)

Risks == {"critical", "high"}

\* A container killed for lack of memory, and one whose image has known
\* vulnerabilities: critical ones take precedence over high ones.
DockerAlerts(cs) == {<<"oom", c.name>> : c \in {x \in cs : x.oom}}
                    \cup {<<c.risk, c.name>> : c \in {x \in cs : x.risk \in Risks}}
PodmanAlerts(cs) == {<<"oom", c.name>> : c \in {x \in cs : x.oom}}
                    \cup {<<c.risk, c.name>> : c \in {x \in cs : x.risk \in Risks}}

\* A row offers to stop a running container and to start any other.
DockerRows(cs) == {[name |-> c.name, offers |-> IF c.running THEN "stop" ELSE "start"] : c \in cs}
PodmanRows(cs) == {[name |-> c.name, offers |-> IF c.running THEN "stop" ELSE "start"] : c \in cs}

DockerUpdate(p, h, cs) == [p EXCEPT !.host = h, !.rows = DockerRows(cs), !.alerts = DockerAlerts(cs)]
DockerMarkup(h, cs)    == Panel("docker", h, DockerRows(cs), DockerAlerts(cs))
DockerDetails(p, h, cs) == IF Wrote(p, "docker", h[2]) THEN DockerUpdate(p, h, Of(cs, h))
                                                      ELSE DockerMarkup(h, Of(cs, h))

PodmanUpdate(p, h, cs) == [p EXCEPT !.host = h, !.rows = PodmanRows(cs), !.alerts = PodmanAlerts(cs)]
PodmanMarkup(h, cs)    == Panel("podman", h, PodmanRows(cs), PodmanAlerts(cs))
PodmanDetails(p, h, cs) == IF Wrote(p, "podman", h[2]) THEN PodmanUpdate(p, h, Of(cs, h))
                                                      ELSE PodmanMarkup(h, Of(cs, h))

----------------------------------------------------------------------------
(* Proxmox, NAS and the firewall write their panel anew each time. *)

ProxmoxDetails(h, cs) == Panel("proxmox", h, {[name |-> c.name, running |-> c.running] : c \in Of(cs, h)}, {})

NasDetails(h, cs) == Panel("nas", h, {[name |-> c.name, healthy |-> c.running] : c \in Of(cs, h)}, {})

\* Interfaces come with the host itself; the host of another tool has none.
InterfaceRows(cs) == {[name |-> c.name, up |-> c.running] : c \in cs}
FirewallDetails(h, cs) == IF h[1] # "pfsense" \/ Of(cs, h) = {} THEN Panel("pfsense", h, {}, {})
                          ELSE Panel("pfsense", h, InterfaceRows(Of(cs, h)), {})
FirewallNotFound == Panel("pfsense", None, {}, {})

----------------------------------------------------------------------------
(* Kubernetes: a cluster's nodes come with a request of their own, its     *)
(* pods from the cache.  The in-place update is chosen by an attribute of  *)
(* the section that nothing removes, and finds no element to update when   *)
(* another panel has replaced the markup; it never updates the alerts.     *)

PodsOn(node, pods) == {p \in pods : p.node = node.name}
NodeCards(nodes, pods) == {[node |-> n.name, ready |-> n.ready, pods |-> {p.name : p \in PodsOn(n, pods)}] : n \in nodes}

\* Pods on a node that is not ready; pods of any cluster that crash.
ClusterAlerts(nodes, pods) ==
  {<<"node_not_ready", n.name>> : n \in {x \in nodes : ~x.ready /\ PodsOn(x, pods) # {}}}
  \cup {<<"oom_killed", p.name>> : p \in {x \in pods : x.oom}}

ClusterUpdate(p, h, nodes, pods) ==
  IF Wrote(p, "kubernetes", h[2]) THEN [p EXCEPT !.host = h, !.rows = NodeCards(nodes, pods)] ELSE p
ClusterMarkup(h, nodes, pods) == Panel("kubernetes", h, NodeCards(nodes, pods), ClusterAlerts(nodes, pods))
NoNodes       == Panel("kubernetes", None, {}, {})
ClusterFailed == Panel("kubernetes", None, {}, {<<"error", "nodes">>})

----------------------------------------------------------------------------
(* KVM has a grid of its own, below a header that keeps the id of the host *)
(* it was last written for.  Offline hosts are always written anew.        *)

VMRows(cs) == {[name |-> c.name, offers |-> IF c.running THEN "stop" ELSE "start"] : c \in cs}
VMGrid(h, cs) == Panel("kvm", h, VMRows(Of(cs, h)), {})
\* The rows are updated when the grid holds the list of a host.
VMUpdate(p, h, cs) == IF p.host # None THEN [p EXCEPT !.host = h, !.rows = VMRows(Of(cs, h))] ELSE p
SelectAHost == Panel("kvm", None, {}, {})

=============================================================================
