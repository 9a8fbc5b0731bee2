----------------------------- MODULE Dashboard -----------------------------
(***************************************************************************)
(* The tool pages of the dashboard in one browser tab: the menu, the list  *)
(* of hosts, the detail panel the tools share, the grid of KVM machines,   *)
(* the caches, and the requests in flight.  JavaScript runs one handler at *)
(* a time; the answer of a request is handled in a later step, when the    *)
(* user may have gone elsewhere.  The search text is left empty.           *)
(***************************************************************************)
EXTENDS Panels

CONSTANTS
  Pages,      \* tools whose panel is the shared section
  Menus,      \* the sets of tools a dashboard may have in use
  Elsewhere,  \* menu entries that show neither the section nor the grid
  Registered, \* the ids of the hosts each tool has
  Offline,    \* the hosts that are down
  Lists,      \* what the server may answer as a tool's containers, pods, ...
  NodeLists,  \* ... and as the nodes of all clusters
  MaxClicks,  \* bound on the user's actions
  MaxFailures,\* bound on the requests that fail
  MaxAsked    \* the user and the timer act with at most so many requests in flight

Listed == {"docker", "podman", "kubernetes", "proxmox", "nas", "pfsense"}
Tools  == Pages \cup {"kvm"}
Hosts(t) == {<<t, i>> : i \in Registered[t]}
AllHosts == UNION {Hosts(t) : t \in Tools}
Ids      == {h[2] : h \in AllHosts}

ASSUME DashboardAssumption ==
  /\ Pages \subseteq Listed \cup {"ceph", "web_services", "db_services"}
  /\ "welcome" \in Elsewhere /\ Elsewhere \cap (Pages \cup Listed \cup {"kvm"}) = {}
  /\ Registered \in [Tools -> SUBSET Nat] /\ None \notin Nat
  /\ \A t \in Pages \ Listed : Registered[t] = {}
  /\ Menus \subseteq SUBSET Tools /\ {} \in Lists /\ MaxClicks \in Nat /\ MaxFailures \in Nat /\ MaxAsked \in Nat
  /\ None \notin AllHosts

VARIABLES
  menu,     \* the tools in use, which never change
  tool,     \* state.currentTool
  selected, \* state.selected<Tool>HostId of each page
  vmHost,   \* state.selectedHostId
  view,     \* caches, markup and requests in flight, see View
  clicks, failures

vars == <<menu, tool, selected, vmHost, view, clicks, failures>>

Calls == {"list", "children", "podsOf", "nodesOf", "firewall", "hosts", "vms", "control"}
Call(what, t, h) == [what |-> what, tool |-> t, host |-> h]
AllCalls == [what : Calls, tool : Tools, host : AllHosts \cup {None}]
Cards(of, click, hash) == [of |-> of, click |-> click, hash |-> hash]

Init == /\ menu \in Menus
        /\ tool = "welcome" /\ vmHost = None
        /\ selected = [t \in Tools |-> None]
        /\ view = [shared |-> {},                    \* state.allHostsCache
                   kids   |-> [t \in Tools |-> {}],  \* all<Containers>Cache of each tool
                   cards  |-> [w \in {"pages", "kvm"} |-> Cards({}, None, None)],
                   panel  |-> Blank, attr |-> None,  \* the section and its attribute
                   grid   |-> Blank, gridAttr |-> None,
                   known  |-> {},                    \* tools whose own cache of hosts is filled
                   preloaded |-> FALSE, asked |-> {}]
        /\ clicks = 0 /\ failures = 0

----------------------------------------------------------------------------
(* The renderers, as functions on the view *)

Ask(v, cs)   == [v EXCEPT !.asked = @ \cup cs]
Show(v, p)   == [v EXCEPT !.panel = p]
Found(v, i)  == {h \in v.shared : h[2] = i}
HostOf(v, i) == CHOOSE h \in v.shared : h[2] = i

Hash(hs) == {<<h[2], h \in Offline>> : h \in hs}
\* Mutated: the cards are written without their handler.
RenderInert(v, where, hs, click) ==
  IF hs = {} THEN [v EXCEPT !.cards[where] = Cards({}, None, @.hash)]
  ELSE [v EXCEPT !.cards[where] = Cards(hs, None, Hash(hs))]
\* The list is not written again while ids, status and load are the same.  An
\* empty list replaces the markup and leaves the hash.
RenderHostNodes(v, where, hs, click) ==
  IF hs = {} THEN [v EXCEPT !.cards[where] = Cards({}, None, @.hash)]
  ELSE IF v.cards[where].hash = Hash(hs) THEN v
  ELSE [v EXCEPT !.cards[where] = Cards(hs, click, Hash(hs))]

\* A cluster's panel is written when its nodes have come; the pods come first
\* when there are none in the cache.
StartCluster(v, h) == Ask(v, {Call(IF v.kids["kubernetes"] = {} THEN "podsOf" ELSE "nodesOf", "kubernetes", h)})

Written(p, t, h, cs) == CASE t = "docker"  -> DockerDetails(p, h, cs)
                          [] t = "podman"  -> PodmanDetails(p, h, cs)
                          [] t = "proxmox" -> ProxmoxDetails(h, cs)
                          [] t = "nas"     -> NasDetails(h, cs)
                          [] OTHER         -> FirewallDetails(h, cs)

\* Details of host i of tool t, looked up in the shared cache by the id alone.
RenderDetails(v, t, i) ==
  IF Found(v, i) = {} THEN IF t = "pfsense" THEN Show(v, FirewallNotFound) ELSE v
  ELSE IF t = "kubernetes" THEN StartCluster(v, HostOf(v, i))
  ELSE Show(v, Written(v.panel, t, HostOf(v, i), v.kids[t]))

RenderPage(v, t) == IF selected[t] # None THEN RenderDetails(v, t, selected[t]) ELSE Show(v, Summary(t))

RenderVMs(v, i) ==
  IF i = None THEN [v EXCEPT !.grid = SelectAHost]
  ELSE IF Found(v, i) = {} THEN v
  ELSE LET h == HostOf(v, i) IN
       IF v.gridAttr = i /\ h \notin Offline THEN [v EXCEPT !.grid = VMUpdate(@, h, v.kids["kvm"])]
       ELSE [v EXCEPT !.grid = VMGrid(h, v.kids["kvm"]), !.gridAttr = i]

FetchHostsFor(v, t) == IF t \in Listed THEN Ask(v, {Call("list", t, None)})
                       ELSE RenderHostNodes(v, "pages", {}, None)

\* The panel a tool's page opens with.
Restore(v, t) == CASE t = "pfsense"           -> Show(v, Summary(t))
                   [] t \in Listed \ {"pfsense"} -> RenderPage(v, t)
                   [] OTHER                   -> Show(v, Placeholder(t))

\* What the timer fetches for the current tool.
FetchData(v, t) == CASE t = "kvm"     -> Ask(v, {Call("hosts", "kvm", None), Call("vms", "kvm", None)})
                     [] t = "pfsense" -> Ask(v, {Call("firewall", t, None)})
                     [] OTHER         -> FetchHostsFor(v, t)

SwitchTo(v, t) == CASE t \in Pages    -> FetchData(FetchHostsFor(Restore(v, t), t), t)
                    [] t = "settings" -> v
                    [] OTHER          -> FetchData(v, t)

Click == clicks < MaxClicks /\ Cardinality(view.asked) <= MaxAsked /\ clicks' = clicks + 1

----------------------------------------------------------------------------
(* The user *)

SwitchTool(t) == /\ Click
                 /\ tool' = t /\ vmHost' = None
                 /\ view' = SwitchTo(view, t)
                 /\ UNCHANGED <<selected, failures>>

\* A click on a card: the handler and the id are those of the markup.
SelectOn(v, t, i) == RenderDetails(RenderHostNodes(v, "pages", v.shared, t), t, i)
SelectHost(v, i)  == RenderVMs(RenderHostNodes(v, "kvm", v.shared, "kvm"), i)

SelectCard(h) == /\ tool \in Pages /\ h \in view.cards["pages"].of
                 /\ Click
                 /\ LET t == view.cards["pages"].click IN
                      /\ selected' = [selected EXCEPT ![t] = h[2]]
                      /\ vmHost' = IF t = "pfsense" THEN h[2] ELSE vmHost
                      /\ view' = SelectOn(view, t, h[2])
                 /\ UNCHANGED <<tool, failures>>

SelectVMHost(h) == /\ tool = "kvm" /\ h \in view.cards["kvm"].of
                   /\ Click
                   /\ vmHost' = h[2]
                   /\ view' = SelectHost(view, h[2])
                   /\ UNCHANGED <<tool, selected, failures>>

\* A suggestion of the search: the tool first, then the host, in one handler.
ApplySuggestion(t, i) ==
  /\ t # tool /\ t \in view.known /\ i \in Registered[t]
  /\ Click
  /\ tool' = t
  /\ LET v == SwitchTo(view, t) IN
       IF t = "kvm" THEN /\ vmHost' = i /\ view' = SelectHost(v, i) /\ UNCHANGED selected
       ELSE /\ selected' = [selected EXCEPT ![t] = i]
            /\ vmHost' = IF t = "pfsense" THEN i ELSE None
            /\ view' = SelectOn(v, t, i)
  /\ UNCHANGED failures

GoBackToDockerSummary ==
  /\ view.panel.by = "docker" /\ view.panel.host # None /\ tool \in Pages
  /\ Click
  /\ selected' = [selected EXCEPT !["docker"] = None]
  /\ view' = Show(RenderHostNodes(view, "pages", view.shared, "docker"), Summary("docker"))
  /\ UNCHANGED <<tool, vmHost, failures>>

GoBackToFirewallSummary ==
  /\ view.panel.by = "pfsense" /\ view.panel.host # None /\ tool \in Pages
  /\ Click
  /\ selected' = [selected EXCEPT !["pfsense"] = None]
  /\ view' = Ask(RenderHostNodes(view, "pages", view.shared, "pfsense"), {Call("firewall", "pfsense", None)})
  /\ UNCHANGED <<tool, vmHost, failures>>

\* The first use of the search fills the caches of all tools.
PreloadAllCaches ==
  /\ ~view.preloaded
  /\ Click
  /\ view' = [Ask(view, {Call(what, "kvm", None) : what \in IF "kvm" \in menu THEN {"hosts", "vms"} ELSE {}}
                        \cup {Call("list", t, None) : t \in menu \cap Listed}) EXCEPT !.preloaded = TRUE]
  /\ UNCHANGED <<tool, selected, vmHost, failures>>

\* The start or stop button of a row: one request, and the rows again after it.
ControlContainer == /\ tool \in Pages /\ view.panel.by \in {"docker", "podman"} /\ view.panel.rows # {}
                    /\ Click
                    /\ view' = Ask(view, {Call("control", view.panel.by, None)})
                    /\ UNCHANGED <<tool, selected, vmHost, failures>>
ControlVM == /\ tool = "kvm" /\ view.grid.rows # {}
             /\ Click
             /\ view' = Ask(view, {Call("control", "kvm", None)})
             /\ UNCHANGED <<tool, selected, vmHost, failures>>

\* The timer, every ten seconds while the tab is visible.
RefreshAll == /\ Cardinality(view.asked) <= MaxAsked
              /\ view' = FetchData(view, tool)
              /\ UNCHANGED <<tool, selected, vmHost, clicks, failures>>

----------------------------------------------------------------------------
(* The answers *)

Done(c) == [view EXCEPT !.asked = @ \ {c}]
Answered(c, v) == c \in view.asked /\ view' = v /\ UNCHANGED <<tool, selected, vmHost, clicks, failures>>

\* The children a list of firewalls brings along are its interfaces.
Cached(v, t, cs) == [v EXCEPT !.kids[t] = cs]
Got(v, t)        == [v EXCEPT !.shared = Hosts(t), !.known = IF Hosts(t) = {} THEN @ \ {t} ELSE @ \cup {t}]

HostsAnswer(c, cs) ==
  LET t == c.tool
      v == Got(IF t = "pfsense" THEN Cached(Done(c), t, cs) ELSE Done(c), t)
      w == RenderHostNodes(v, "pages", Hosts(t), t)
      r == IF t = "pfsense" /\ selected[t] = None THEN w ELSE RenderPage(w, t) IN
  /\ c.what = "list"
  /\ Answered(c, IF Hosts(t) = {} THEN RenderHostNodes(Done(c), "pages", {}, None)
                 ELSE IF t = "pfsense" THEN r ELSE Ask(r, {Call("children", t, None)}))

FirewallAnswer(c, cs) ==
  /\ c.what = "firewall"
  /\ Answered(c, RenderPage(RenderHostNodes(Got(Cached(Done(c), "pfsense", cs), "pfsense"),
                                         "pages", Hosts("pfsense"), "pfsense"), "pfsense"))

\* Mutated: the panel is written whatever tool is current.
ChildrenAnywhere(c, cs) ==
  /\ c.what = "children"
  /\ Answered(c, RenderPage(Cached(Done(c), c.tool, cs), c.tool))
\* Mutated: the answer fills the cache and the panel is left for later.
ChildrenUnseen(c, cs) == c.what = "children" /\ Answered(c, Cached(Done(c), c.tool, cs))
ChildrenAnswer(c, cs) ==
  LET v == Cached(Done(c), c.tool, cs) IN
  /\ c.what = "children"
  /\ Answered(c, IF tool = c.tool THEN RenderPage(v, c.tool) ELSE v)

\* Mutated: the page is rendered whatever tool is current.
PodsAnywhere(c, cs) ==
  LET v == Cached(Done(c), "kubernetes", cs) IN
  /\ c.what = "podsOf"
  /\ Answered(c, Ask(RenderPage(v, "kubernetes"), {Call("nodesOf", "kubernetes", c.host)}))
\* The pods a cluster's renderer waits for: the page may be rendered on the way.
PodsAnswer(c, cs) ==
  LET v == Cached(Done(c), "kubernetes", cs)
      w == IF tool = "kubernetes" THEN RenderPage(v, "kubernetes") ELSE v IN
  /\ c.what = "podsOf"
  /\ Answered(c, Ask(w, {Call("nodesOf", "kubernetes", c.host)}))

NodesOf(ns, h) == {n \in ns : n.host = h[2]}
NodesAnswer(c, ns) ==
  LET v == Done(c)   mine == NodesOf(ns, c.host)   pods == view.kids["kubernetes"] IN
  /\ c.what = "nodesOf"
  /\ Answered(c, IF mine = {} THEN Show(v, NoNodes)
                 ELSE IF v.attr = c.host[2] THEN Show(v, ClusterUpdate(v.panel, c.host, mine, pods))
                 ELSE [Show(v, ClusterMarkup(c.host, mine, pods)) EXCEPT !.attr = c.host[2]])

KVMHostsAnswer(c) ==
  /\ c.what = "hosts"
  /\ Answered(c, RenderHostNodes(Got(Done(c), "kvm"), "kvm", Hosts("kvm"), "kvm"))

VMsAnswer(c, cs) == c.what = "vms" /\ Answered(c, RenderVMs(Cached(Done(c), "kvm", cs), vmHost))

ControlAnswer(c) ==
  /\ c.what = "control"
  /\ Answered(c, Ask(Done(c), {Call(IF c.tool = "kvm" THEN "vms" ELSE "children", c.tool, None)}))

\* A request that fails: its handler logs it.  The list of firewalls and the
\* nodes of a cluster leave a message instead of the markup; the nodes are asked
\* for even when the pods did not come.
Fail(c) == /\ c \in view.asked /\ failures < MaxFailures
           /\ failures' = failures + 1
           /\ view' = CASE c.what = "firewall" -> [Done(c) EXCEPT !.cards["pages"] = Cards({}, None, @.hash)]
                        [] c.what = "nodesOf"  -> Show(Done(c), ClusterFailed)
                        [] c.what = "podsOf"   -> Ask(Done(c), {Call("nodesOf", "kubernetes", c.host)})
                        [] OTHER               -> Done(c)
           /\ UNCHANGED <<tool, selected, vmHost, clicks>>

----------------------------------------------------------------------------
Answer(c) == \/ \E cs \in Lists : \/ HostsAnswer(c, cs) \/ FirewallAnswer(c, cs)
                                  \/ ChildrenAnswer(c, cs) \/ PodsAnswer(c, cs) \/ VMsAnswer(c, cs)
             \/ \E ns \in NodeLists : NodesAnswer(c, ns)
             \/ KVMHostsAnswer(c) \/ ControlAnswer(c)

User == \/ \E t \in menu \cup Elsewhere : SwitchTool(t)
        \/ \E h \in AllHosts : SelectCard(h) \/ SelectVMHost(h)
        \/ \E t \in menu, i \in Ids : ApplySuggestion(t, i)
        \/ GoBackToDockerSummary \/ GoBackToFirewallSummary \/ PreloadAllCaches
        \/ ControlContainer \/ ControlVM

Next == (User \/ RefreshAll \/ \E c \in view.asked : Answer(c) \/ Fail(c)) /\ UNCHANGED menu

\* The timer keeps ticking while the tab is visible, the requests of each kind
\* for the current tool are answered, and so are those of the other tools: no
\* more is assumed about their order.
AnswerCurrent(kind) == \E c \in view.asked : c.what = kind /\ c.tool = tool /\ Answer(c)
AnswerOther         == \E c \in view.asked : c.tool # tool /\ Answer(c)
Fairness == /\ WF_vars(RefreshAll /\ UNCHANGED menu)
            /\ \A kind \in Calls : WF_vars(AnswerCurrent(kind) /\ UNCHANGED menu)
            /\ WF_vars(AnswerOther /\ UNCHANGED menu)
Spec == Init /\ [][Next]_vars /\ Fairness

----------------------------------------------------------------------------
(* Properties *)

IsCards(c) == /\ c = Cards(c.of, c.click, c.hash)
              /\ c.of \subseteq AllHosts /\ c.of # {} => c.click \in Tools
IsPanel(p) == /\ p = Panel(p.by, p.host, p.rows, p.alerts)
              /\ p.by \in Tools \cup {"none"} /\ p.host \in AllHosts \cup {None}
IsView(v) ==
  /\ v = [shared |-> v.shared, kids |-> v.kids, cards |-> v.cards, panel |-> v.panel, attr |-> v.attr,
          grid |-> v.grid, gridAttr |-> v.gridAttr, known |-> v.known, preloaded |-> v.preloaded, asked |-> v.asked]
  /\ v.shared \subseteq AllHosts /\ v.kids \in [Tools -> Lists] /\ DOMAIN v.cards = {"pages", "kvm"}
  /\ IsCards(v.cards["pages"]) /\ IsCards(v.cards["kvm"]) /\ IsPanel(v.panel) /\ IsPanel(v.grid)
  /\ v.attr \in Ids \cup {None} /\ v.gridAttr \in Ids \cup {None}
  /\ v.known \subseteq Tools /\ v.preloaded \in BOOLEAN /\ v.asked \subseteq AllCalls
\* Every variable has its type: cards on the screen name a tool's handler and
\* registered hosts, the panel is a tool's and shows a registered host or none.
DashboardTypeOK ==
  /\ menu \in SUBSET Tools /\ tool \in Tools \cup Elsewhere
  /\ selected \in [Tools -> Ids \cup {None}] /\ vmHost \in Ids \cup {None}
  /\ clicks \in 0..MaxClicks /\ failures \in 0..MaxFailures
  /\ IsView(view)

\* What the section should show on a tool's page.
Expected(t) == IF selected[t] = None THEN Summary(t)
               ELSE Written(Blank, t, <<t, selected[t]>>, view.kids[t])

\* Neither a change of tool nor an answer with containers, pods, machines or
\* volumes puts the panel of another tool than the current one on the screen
\* (the guards of fetchContainers and its siblings, the branches of switchTool).
NavigationShowsItsTool ==
  [][(tool' # tool \/ \E t \in Tools \ {"pfsense"} : view'.kids[t] # view.kids[t])
     /\ view'.panel # view.panel => view'.panel.by = tool']_vars

\* Once the user rests on the page of a tool that writes its panel at once and
\* has hosts, the section comes to show that tool, the selected host of that
\* tool and the cached rows, whatever answers of other pages are still due.
PageSettles ==
  \A t \in (Pages \cap Listed) \ {"kubernetes"} : Hosts(t) # {} =>
    <>[](tool = t /\ (selected[t] = None \/ selected[t] \in Registered[t]) => view.panel = Expected(t))

\* The requests that answers give rise to end: renderKubernetesServerDetails
\* fetches pods, whose answer renders it again, only while its page is open.
CascadesEnd == <>[](\A c \in view.asked : c.tool = tool)

\* "Restore previous selection if exists" (switchTool): with nothing in flight
\* and a cluster selected, a user who opens the page of the clusters and rests
\* there sees a panel of that page at some time.
PreviousSelectionRestored ==
  \A i \in Registered["kubernetes"] :
    [](tool # "kubernetes" /\ selected["kubernetes"] = i /\ view.panel.by # "kubernetes" /\ view.asked = {}
       /\ <>[](tool = "kubernetes" /\ selected["kubernetes"] = i)
       => <>(view.panel.by = "kubernetes"))

=============================================================================
