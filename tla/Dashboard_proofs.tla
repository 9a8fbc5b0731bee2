-------------------------- MODULE Dashboard_proofs --------------------------
(***************************************************************************)
(* The tool pages keep their types, and neither a change of tool nor an    *)
(* answer with containers, pods, machines or volumes puts the panel of     *)
(* another tool on the screen: for any tools, hosts, lists and clicks.     *)
(* The handlers are functions on the view, so each function has a lemma    *)
(* that says what it keeps and whose panel it may write.                   *)
(***************************************************************************)
EXTENDS Dashboard, TLAPS

\* The tools whose hosts are listed and whose details the section shows.
Sections == Pages \cap Listed

ViewFields == {"shared", "kids", "cards", "panel", "attr", "grid", "gridAttr", "known", "preloaded", "asked"}

\* Each request is about a tool whose answer the page can show; those for pods
\* and nodes name a cluster.
Fitting == {c \in AllCalls :
              /\ c.what \in {"list", "children"} => c.tool \in Sections
              /\ c.what \in {"podsOf", "nodesOf"} => c.tool = "kubernetes" /\ c.host \in AllHosts
              /\ c.what = "firewall" => c.tool = "pfsense"
              /\ c.what = "control" => c.tool \in Sections \cup {"kvm"}}

\* A list of cards that names the handler of a page, or of the machines.
CardsFit(v) == /\ v.cards = [w \in {"pages", "kvm"} |-> v.cards[w]]
               /\ IsCards(v.cards["pages"]) /\ IsCards(v.cards["kvm"])
               /\ v.cards["pages"].of # {} => v.cards["pages"].click \in Sections

\* A view as the renderers take it and leave it.
Fits(v) ==
  /\ v = [x \in ViewFields |-> v[x]]
  /\ v.shared \subseteq AllHosts /\ v.kids \in [Tools -> Lists] /\ CardsFit(v)
  /\ IsPanel(v.panel) /\ IsPanel(v.grid)
  /\ v.attr \in Ids \cup {None} /\ v.gridAttr \in Ids \cup {None}
  /\ v.known \subseteq Tools /\ v.preloaded \in BOOLEAN /\ v.asked \subseteq Fitting

\* The section and the caches are as they were.
Leaves(w, v) == Fits(w) /\ w.panel = v.panel /\ w.kids = v.kids
\* The caches are, and the section is as it was or shows tool t.
Turns(w, v, t) == Fits(w) /\ w.kids = v.kids /\ (w.panel = v.panel \/ w.panel.by = t)

\* The page with its view.
PageInv ==
  /\ menu \in SUBSET Tools /\ tool \in Tools \cup Elsewhere
  /\ selected \in [Tools -> Ids \cup {None}] /\ vmHost \in Ids \cup {None}
  /\ clicks \in 0..MaxClicks /\ failures \in 0..MaxFailures
  /\ Fits(view)

----------------------------------------------------------------------------
(* Hosts, panels and views *)

LEMMA HostIds == ASSUME NEW h \in AllHosts PROVE h[2] \in Ids /\ h # None
  BY DashboardAssumption DEF Ids

LEMMA RegisteredHosts == ASSUME NEW t \in Tools, NEW i \in Registered[t]
                         PROVE  <<t, i>> \in AllHosts /\ i \in Ids
<1>1. <<t, i>> \in AllHosts
  BY DEF AllHosts, Hosts
<1>2. QED
  BY <1>1 DEF Ids

LEMMA HostsOfTools == ASSUME NEW t \in Tools PROVE Hosts(t) \subseteq AllHosts
  BY DEF AllHosts

LEMMA SectionsAreTools == /\ Sections \subseteq Tools /\ "kvm" \in Tools /\ "kvm" \notin Sections
                          /\ Tools \cap Listed = Sections
  BY DEF Sections, Tools, Listed

\* A panel that was made is a panel, and so is one with other values.
LEMMA MadePanel == ASSUME NEW by \in Tools \cup {"none"}, NEW h \in AllHosts \cup {None}, NEW rows, NEW alerts
                   PROVE  IsPanel(Panel(by, h, rows, alerts)) /\ Panel(by, h, rows, alerts).by = by
  BY DEF IsPanel, Panel
WithRows(p, h, rows)           == [p EXCEPT !.host = h, !.rows = rows]
WithValues(p, h, rows, alerts) == [p EXCEPT !.host = h, !.rows = rows, !.alerts = alerts]
PanelFields == {"by", "host", "rows", "alerts"}
LEMMA OtherRows == ASSUME NEW p, IsPanel(p), NEW h \in AllHosts \cup {None}, NEW rows
                   PROVE  IsPanel(WithRows(p, h, rows)) /\ WithRows(p, h, rows).by = p.by
<1> DEFINE q == WithRows(p, h, rows)
<1>1. p.by \in Tools \cup {"none"}
  BY DEF IsPanel
<1>2. p = [x \in PanelFields |-> p[x]]
  BY DEF IsPanel, Panel, PanelFields
<1>3. q = [x \in PanelFields |-> q[x]] /\ q.by = p.by /\ q.host = h /\ q.rows = rows /\ q.alerts = p.alerts
  BY <1>2 DEF WithRows, PanelFields
<1> HIDE DEF q
<1>4. q = Panel(p.by, h, rows, p.alerts)
  BY <1>3 DEF Panel, PanelFields
<1>5. QED
  BY <1>1, <1>4, MadePanel DEF q
LEMMA OtherValues == ASSUME NEW p, IsPanel(p), NEW h \in AllHosts \cup {None}, NEW rows, NEW alerts
                     PROVE  IsPanel(WithValues(p, h, rows, alerts)) /\ WithValues(p, h, rows, alerts).by = p.by
<1> DEFINE q == WithValues(p, h, rows, alerts)
<1>1. p.by \in Tools \cup {"none"}
  BY DEF IsPanel
<1>2. p = [x \in PanelFields |-> p[x]]
  BY DEF IsPanel, Panel, PanelFields
<1>3. q = [x \in PanelFields |-> q[x]] /\ q.by = p.by /\ q.host = h /\ q.rows = rows /\ q.alerts = alerts
  BY <1>2 DEF WithValues, PanelFields
<1> HIDE DEF q
<1>4. q = Panel(p.by, h, rows, alerts)
  BY <1>3 DEF Panel, PanelFields
<1>5. QED
  BY <1>1, <1>4, MadePanel DEF q

\* The functions that change one field keep the others.
LEMMA AskKeeps == ASSUME NEW v, Fits(v), NEW cs, cs \subseteq Fitting
                  PROVE  /\ Leaves(Ask(v, cs), v) /\ Ask(v, cs).cards = v.cards /\ Ask(v, cs).shared = v.shared
                         /\ Ask(v, cs).known = v.known
  BY DEF Fits, Leaves, Ask, CardsFit, ViewFields
LEMMA ShowKeeps == ASSUME NEW v, Fits(v), NEW p, IsPanel(p)
                   PROVE  /\ Fits(Show(v, p)) /\ Show(v, p).panel = p /\ Show(v, p).kids = v.kids
                          /\ Show(v, p).shared = v.shared
  BY DEF Fits, Show, CardsFit, ViewFields
LEMMA GridKeeps == ASSUME NEW v, Fits(v), NEW g, IsPanel(g), NEW i \in Ids
                   PROVE  Leaves([v EXCEPT !.grid = g], v) /\ Leaves([v EXCEPT !.grid = g, !.gridAttr = i], v)
  BY DEF Fits, Leaves, CardsFit, ViewFields
LEMMA CacheKeeps == ASSUME NEW v, Fits(v), NEW t \in Tools, NEW cs \in Lists
                    PROVE  /\ Fits(Cached(v, t, cs)) /\ Cached(v, t, cs).panel = v.panel
                           /\ Cached(v, t, cs).kids = [v.kids EXCEPT ![t] = cs] /\ Cached(v, t, cs).shared = v.shared
  BY DEF Fits, Cached, CardsFit, ViewFields
LEMMA GotKeeps == ASSUME NEW v, Fits(v), NEW t \in Tools
                  PROVE  Leaves(Got(v, t), v) /\ Got(v, t).shared = Hosts(t)
  BY HostsOfTools DEF Fits, Leaves, Got, CardsFit, ViewFields
LEMMA DoneKeeps == ASSUME Fits(view), NEW c
                   PROVE  Leaves(Done(c), view) /\ Done(c).shared = view.shared /\ Done(c).attr = view.attr
  BY DEF Fits, Leaves, Done, CardsFit, ViewFields

----------------------------------------------------------------------------
(* What each renderer writes *)

\* The renderer of a tool writes a panel of that tool.
LEMMA WrittenByTool == ASSUME NEW p, IsPanel(p), NEW t \in Sections \ {"kubernetes"}, NEW h \in AllHosts, NEW cs
                       PROVE  IsPanel(Written(p, t, h, cs)) /\ Written(p, t, h, cs).by = t
<1>1. t \in Tools \cup {"none"} /\ h \in AllHosts \cup {None}
  BY SectionsAreTools
<1>2. CASE t = "docker"
  <2>1. IsPanel(DockerUpdate(p, h, Of(cs, h))) /\ DockerUpdate(p, h, Of(cs, h)).by = p.by
    <3>1. DockerUpdate(p, h, Of(cs, h)) = WithValues(p, h, DockerRows(Of(cs, h)), DockerAlerts(Of(cs, h)))
      BY DEF DockerUpdate, WithValues
    <3>2. QED
      BY <1>1, <3>1, OtherValues
  <2>2. IsPanel(DockerMarkup(h, Of(cs, h))) /\ DockerMarkup(h, Of(cs, h)).by = t
    BY <1>1, <1>2, MadePanel DEF DockerMarkup
  <2>3. QED
    BY <1>2, <2>1, <2>2 DEF Written, DockerDetails, Wrote
<1>3. CASE t = "podman"
  <2>1. IsPanel(PodmanUpdate(p, h, Of(cs, h))) /\ PodmanUpdate(p, h, Of(cs, h)).by = p.by
    <3>1. PodmanUpdate(p, h, Of(cs, h)) = WithValues(p, h, PodmanRows(Of(cs, h)), PodmanAlerts(Of(cs, h)))
      BY DEF PodmanUpdate, WithValues
    <3>2. QED
      BY <1>1, <3>1, OtherValues
  <2>2. IsPanel(PodmanMarkup(h, Of(cs, h))) /\ PodmanMarkup(h, Of(cs, h)).by = t
    BY <1>1, <1>3, MadePanel DEF PodmanMarkup
  <2>3. QED
    BY <1>3, <2>1, <2>2 DEF Written, PodmanDetails, Wrote
<1>4. CASE t = "proxmox"
  BY <1>1, <1>4, MadePanel DEF Written, ProxmoxDetails
<1>5. CASE t = "nas"
  BY <1>1, <1>5, MadePanel DEF Written, NasDetails
<1>6. CASE t = "pfsense"
  BY <1>1, <1>6, MadePanel DEF Written, FirewallDetails
<1>7. QED
  BY <1>2, <1>3, <1>4, <1>5, <1>6 DEF Sections, Listed

\* The list of hosts is written with a handler of the page, and nothing else.
LEMMA HostNodesLeave == ASSUME NEW v, Fits(v), NEW hs, hs \subseteq AllHosts, NEW click,
                               hs # {} => click \in Sections
                        PROVE  LET w == RenderHostNodes(v, "pages", hs, click) IN Leaves(w, v) /\ w.shared = v.shared
  BY SectionsAreTools DEF RenderHostNodes, Leaves, Fits, CardsFit, IsCards, Cards, ViewFields
LEMMA MachineNodesLeave == ASSUME NEW v, Fits(v), NEW hs, hs \subseteq AllHosts
                           PROVE  LET w == RenderHostNodes(v, "kvm", hs, "kvm") IN Leaves(w, v) /\ w.shared = v.shared
  BY SectionsAreTools DEF RenderHostNodes, Leaves, Fits, CardsFit, IsCards, Cards, ViewFields

\* A host found in the shared cache is one of the tools' hosts.
LEMMA FoundHost == ASSUME NEW v, Fits(v), NEW i, Found(v, i) # {}
                   PROVE  HostOf(v, i) \in AllHosts /\ HostOf(v, i)[2] = i
  BY DEF Found, HostOf, Fits

\* Details of a host turn the section to the tool, at once or never.
LEMMA DetailsTurn == ASSUME NEW v, Fits(v), NEW t \in Sections, NEW i
                     PROVE  LET w == RenderDetails(v, t, i) IN Turns(w, v, t) /\ w.shared = v.shared
<1>1. CASE Found(v, i) = {}
  <2>1. t = "pfsense" => IsPanel(FirewallNotFound) /\ FirewallNotFound.by = t
    BY SectionsAreTools, MadePanel DEF FirewallNotFound
  <2>2. QED
    BY <1>1, <2>1, ShowKeeps DEF RenderDetails, Turns
<1>2. CASE Found(v, i) # {} /\ t = "kubernetes"
  <2> DEFINE c == Call(IF v.kids["kubernetes"] = {} THEN "podsOf" ELSE "nodesOf", "kubernetes", HostOf(v, i))
  <2>1. c \in Fitting
    BY <1>2, FoundHost, SectionsAreTools DEF Fitting, AllCalls, Calls, Call
  <2>2. RenderDetails(v, t, i) = Ask(v, {c})
    BY <1>2 DEF RenderDetails, StartCluster
  <2>3. QED
    BY <2>1, <2>2, AskKeeps DEF Turns, Leaves
<1>3. CASE Found(v, i) # {} /\ t # "kubernetes"
  <2>1. IsPanel(Written(v.panel, t, HostOf(v, i), v.kids[t])) /\ Written(v.panel, t, HostOf(v, i), v.kids[t]).by = t
    BY <1>3, FoundHost, WrittenByTool DEF Fits
  <2>2. QED
    BY <1>3, <2>1, ShowKeeps DEF RenderDetails, Turns
<1>4. QED
  BY <1>1, <1>2, <1>3

\* So does the page, with the details of the selected host or the summary.
LEMMA PageTurns == ASSUME NEW v, Fits(v), NEW t \in Sections
                   PROVE  LET w == RenderPage(v, t) IN Turns(w, v, t) /\ w.shared = v.shared
<1>1. IsPanel(Summary(t)) /\ Summary(t).by = t
  BY SectionsAreTools, MadePanel DEF Summary
<1>2. QED
  BY <1>1, DetailsTurn, ShowKeeps DEF RenderPage, Turns

\* The grid of machines is no part of the section.
LEMMA MachinesLeave == ASSUME NEW v, Fits(v), NEW i
                       PROVE  Leaves(RenderVMs(v, i), v)
<1>1. CASE i = None
  <2>1. IsPanel(SelectAHost)
    BY SectionsAreTools, MadePanel DEF SelectAHost
  <2>2. QED
    BY <1>1, <2>1 DEF RenderVMs, Fits, Leaves, CardsFit, ViewFields
<1>2. CASE i # None /\ Found(v, i) = {}
  BY <1>2 DEF RenderVMs, Leaves
<1>3. CASE i # None /\ Found(v, i) # {}
  <2> DEFINE h == HostOf(v, i)
  <2>1. h \in AllHosts /\ i \in Ids
    BY <1>3, FoundHost, HostIds
  <2>2. IsPanel(VMUpdate(v.grid, h, v.kids["kvm"]))
    BY <2>1, OtherRows DEF VMUpdate, WithRows, Fits
  <2>3. IsPanel(VMGrid(h, v.kids["kvm"]))
    BY <2>1, SectionsAreTools, MadePanel DEF VMGrid
  <2> HIDE DEF h
  <2>4. RenderVMs(v, i) = IF v.gridAttr = i /\ h \notin Offline
                          THEN [v EXCEPT !.grid = VMUpdate(v.grid, h, v.kids["kvm"])]
                          ELSE [v EXCEPT !.grid = VMGrid(h, v.kids["kvm"]), !.gridAttr = i]
    BY <1>3 DEF RenderVMs, h, Fits, ViewFields
  <2> DEFINE g == VMUpdate(v.grid, h, v.kids["kvm"])
             k == VMGrid(h, v.kids["kvm"])
  <2> HIDE DEF g, k
  <2>5. Leaves([v EXCEPT !.grid = g], v) /\ Leaves([v EXCEPT !.grid = k, !.gridAttr = i], v)
    BY <2>1, <2>2, <2>3, GridKeeps DEF g, k
  <2>6. QED
    BY <2>4, <2>5 DEF g, k
<1>4. QED
  BY <1>1, <1>2, <1>3

----------------------------------------------------------------------------
(* Going to a tool *)

\* A menu entry that is listed has a section.
LEMMA ListedSections == ASSUME NEW t \in Tools \cup Elsewhere, t \in Listed PROVE t \in Sections
  BY DashboardAssumption DEF Sections, Tools, Listed

LEMMA ListCalls == ASSUME NEW t \in Sections
                   PROVE  /\ Call("list", t, None) \in Fitting /\ Call("children", t, None) \in Fitting
                          /\ Call("control", t, None) \in Fitting
  BY SectionsAreTools DEF Fitting, AllCalls, Calls, Call, Sections
LEMMA MachineCalls == /\ Call("hosts", "kvm", None) \in Fitting /\ Call("vms", "kvm", None) \in Fitting
                      /\ Call("control", "kvm", None) \in Fitting
  BY SectionsAreTools DEF Fitting, AllCalls, Calls, Call
LEMMA FirewallCalls == ASSUME "pfsense" \in Tools PROVE Call("firewall", "pfsense", None) \in Fitting
  BY DEF Fitting, AllCalls, Calls, Call
LEMMA NodeCalls == ASSUME "kubernetes" \in Tools, NEW h \in AllHosts
                   PROVE  Call("nodesOf", "kubernetes", h) \in Fitting
  BY DEF Fitting, AllCalls, Calls, Call

LEMMA FetchHostsLeaves == ASSUME NEW v, Fits(v), NEW t \in Tools \cup Elsewhere PROVE Leaves(FetchHostsFor(v, t), v)
<1>1. CASE t \in Listed
  BY <1>1, ListedSections, ListCalls, AskKeeps DEF FetchHostsFor
<1>2. CASE t \notin Listed
  <2>1. Leaves(RenderHostNodes(v, "pages", {}, None), v)
    BY HostNodesLeave
  <2>2. QED
    BY <1>2, <2>1 DEF FetchHostsFor
<1>3. QED
  BY <1>1, <1>2
LEMMA FetchDataLeaves == ASSUME NEW v, Fits(v), NEW t \in Tools \cup Elsewhere PROVE Leaves(FetchData(v, t), v)
<1>1. CASE t = "kvm"
  BY <1>1, MachineCalls, AskKeeps DEF FetchData
<1>2. CASE t = "pfsense"
  <2>1. t \in Tools
    BY <1>2, ListedSections, SectionsAreTools DEF Listed
  <2>2. QED
    BY <1>2, <2>1, FirewallCalls, AskKeeps DEF FetchData
<1>3. CASE t \notin {"kvm", "pfsense"}
  BY <1>3, FetchHostsLeaves DEF FetchData
<1>4. QED
  BY <1>1, <1>2, <1>3

LEMMA RestoreTurns == ASSUME NEW v, Fits(v), NEW t \in Pages PROVE Turns(Restore(v, t), v, t)
<1>1. t \in Tools
  BY DEF Tools
<1>2. IsPanel(Summary(t)) /\ Summary(t).by = t /\ IsPanel(Placeholder(t)) /\ Placeholder(t).by = t
  BY <1>1, MadePanel DEF Summary, Placeholder
<1>3. CASE t \in Listed \ {"pfsense"}
  BY <1>3, PageTurns DEF Restore, Sections, Listed
<1>4. CASE t \notin Listed \ {"pfsense"}
  BY <1>2, <1>4, ShowKeeps DEF Restore, Turns
<1>5. QED
  BY <1>3, <1>4

\* What leaves the section after it has turned keeps it turned.
LEMMA TurnsOn == ASSUME NEW v, NEW w, NEW u, NEW t, Turns(w, v, t), Leaves(u, w) \/ Turns(u, w, t)
                 PROVE  Turns(u, v, t)
  BY DEF Turns, Leaves

LEMMA SwitchTurns == ASSUME NEW v, Fits(v), NEW t \in Tools \cup Elsewhere PROVE Turns(SwitchTo(v, t), v, t)
<1>1. CASE t \in Pages
  <2> DEFINE a == Restore(v, t)
             b == FetchHostsFor(a, t)
             c == FetchData(b, t)
  <2>1. Turns(a, v, t)
    BY <1>1, RestoreTurns
  <2>2. Leaves(b, a)
    BY <2>1, FetchHostsLeaves DEF Turns
  <2>3. Leaves(c, b)
    BY <2>2, FetchDataLeaves DEF Leaves
  <2>4. t # "settings"
    BY <1>1, DashboardAssumption DEF Listed
  <2>5. SwitchTo(v, t) = c
    BY <1>1, <2>4 DEF SwitchTo
  <2> HIDE DEF a, b, c
  <2>6. QED
    BY <2>1, <2>2, <2>3, <2>5, TurnsOn
<1>2. CASE t \notin Pages
  <2>1. Leaves(FetchData(v, t), v)
    BY FetchDataLeaves
  <2>2. SwitchTo(v, t) \in {v, FetchData(v, t)}
    BY <1>2 DEF SwitchTo
  <2>3. QED
    BY <2>1, <2>2 DEF Leaves, Turns
<1>3. QED
  BY <1>1, <1>2

\* A click on a card turns the section to the tool of the handler; one on a
\* host of the machines leaves it.
LEMMA CardTurns == ASSUME NEW v, Fits(v), NEW t \in Sections, NEW i PROVE Turns(SelectOn(v, t, i), v, t)
<1> DEFINE w == RenderHostNodes(v, "pages", v.shared, t)
<1>1. Leaves(w, v)
  BY HostNodesLeave DEF Fits
<1> HIDE DEF w
<1>2. Turns(RenderDetails(w, t, i), w, t)
  BY <1>1, DetailsTurn DEF Leaves
<1>3. QED
  BY <1>1, <1>2 DEF SelectOn, w, Turns, Leaves
LEMMA HostLeaves == ASSUME NEW v, Fits(v), NEW i PROVE Leaves(SelectHost(v, i), v)
<1> DEFINE w == RenderHostNodes(v, "kvm", v.shared, "kvm")
<1>1. Leaves(w, v)
  BY MachineNodesLeave DEF Fits
<1> HIDE DEF w
<1>2. Leaves(RenderVMs(w, i), w)
  BY <1>1, MachinesLeave DEF Leaves
<1>3. QED
  BY <1>1, <1>2 DEF SelectHost, w, Leaves

----------------------------------------------------------------------------
(* The user *)

\* What NavigationShowsItsTool says of a step.
ShowsItsTool == (tool' # tool \/ \E t \in Tools \ {"pfsense"} : view'.kids[t] # view.kids[t])
                /\ view'.panel # view.panel => view'.panel.by = tool'
Safe == PageInv' /\ ShowsItsTool

LEMMA MenuTools == ASSUME PageInv, NEW t \in menu PROVE t \in Tools
  BY DEF PageInv

LEMMA ClickCounts == ASSUME PageInv, Click PROVE clicks' \in 0..MaxClicks
  BY DashboardAssumption DEF PageInv, Click

LEMMA SwitchToolSafe == ASSUME PageInv, UNCHANGED menu, NEW t \in menu \cup Elsewhere, SwitchTool(t) PROVE Safe
<1>1. t \in Tools \cup Elsewhere
  BY MenuTools
<1>2. Turns(view', view, t)
  BY <1>1, SwitchTurns DEF SwitchTool, PageInv
<1>3. QED
  BY <1>1, <1>2, ClickCounts DEF SwitchTool, Safe, ShowsItsTool, PageInv, Turns

LEMMA SelectCardSafe == ASSUME PageInv, UNCHANGED menu, NEW h \in AllHosts, SelectCard(h) PROVE Safe
<1> DEFINE t == view.cards["pages"].click
<1>1. t \in Sections /\ t \in Tools /\ h[2] \in Ids
  BY HostIds, SectionsAreTools DEF SelectCard, PageInv, Fits, CardsFit
<1>2. view' = SelectOn(view, t, h[2]) /\ selected' = [selected EXCEPT ![t] = h[2]] /\ vmHost' \in {h[2], vmHost}
  BY DEF SelectCard
<1> HIDE DEF t
<1>3. Turns(view', view, t)
  BY <1>1, <1>2, CardTurns DEF PageInv
<1>4. QED
  BY <1>1, <1>2, <1>3, ClickCounts DEF SelectCard, Safe, ShowsItsTool, PageInv, Turns

LEMMA SelectVMHostSafe == ASSUME PageInv, UNCHANGED menu, NEW h \in AllHosts, SelectVMHost(h) PROVE Safe
<1>1. Leaves(view', view) /\ h[2] \in Ids
  BY HostLeaves, HostIds DEF SelectVMHost, PageInv
<1>2. QED
  BY <1>1, ClickCounts DEF SelectVMHost, Safe, ShowsItsTool, PageInv, Leaves

LEMMA ApplySuggestionSafe == ASSUME PageInv, UNCHANGED menu, NEW t \in menu, NEW i, ApplySuggestion(t, i) PROVE Safe
<1> DEFINE v == SwitchTo(view, t)
<1>1. t \in Tools /\ i \in Registered[t] /\ i \in Ids
  BY MenuTools, RegisteredHosts DEF ApplySuggestion
<1>2. Turns(v, view, t)
  BY <1>1, SwitchTurns DEF PageInv
<1> HIDE DEF v
<1>3. CASE t = "kvm"
  <2>1. view' = SelectHost(v, i) /\ tool' = t /\ vmHost' = i /\ UNCHANGED <<selected, failures>> /\ Click
    BY <1>3 DEF ApplySuggestion, v
  <2>2. Leaves(view', v)
    BY <1>2, <2>1, HostLeaves DEF Turns
  <2>3. Turns(view', view, t)
    BY <1>2, <2>2, TurnsOn
  <2>4. QED
    BY <1>1, <2>1, <2>3, ClickCounts DEF Safe, ShowsItsTool, PageInv, Turns
<1>4. CASE t # "kvm"
  <2>1. /\ view' = SelectOn(v, t, i) /\ tool' = t /\ selected' = [selected EXCEPT ![t] = i]
        /\ vmHost' \in {i, None} /\ UNCHANGED failures /\ Click
    BY <1>4 DEF ApplySuggestion, v
  <2>2. t \in Sections
    BY <1>1, <1>4, DashboardAssumption DEF Sections, Tools
  <2>3. Turns(view', v, t)
    BY <1>2, <2>1, <2>2, CardTurns DEF Turns
  <2>4. Turns(view', view, t)
    BY <1>2, <2>3, TurnsOn
  <2>5. QED
    BY <1>1, <2>1, <2>4, ClickCounts DEF Safe, ShowsItsTool, PageInv, Turns
<1>5. QED
  BY <1>3, <1>4

LEMMA DockerSummarySafe == ASSUME PageInv, UNCHANGED menu, GoBackToDockerSummary PROVE Safe
<1> DEFINE w == RenderHostNodes(view, "pages", view.shared, "docker")
<1>1. "docker" \in Tools /\ "docker" \in Sections
  BY SectionsAreTools DEF GoBackToDockerSummary, PageInv, Fits, IsPanel, Listed
<1>2. Leaves(w, view)
  BY <1>1, HostNodesLeave DEF PageInv, Fits
<1>3. IsPanel(Summary("docker"))
  BY <1>1, MadePanel DEF Summary
<1>4. view' = Show(w, Summary("docker"))
  BY DEF GoBackToDockerSummary
<1> HIDE DEF w
<1>5. Fits(view') /\ view'.kids = view.kids
  BY <1>2, <1>3, <1>4, ShowKeeps DEF Leaves
<1>6. QED
  BY <1>1, <1>5, ClickCounts DEF GoBackToDockerSummary, Safe, ShowsItsTool, PageInv

LEMMA FirewallSummarySafe == ASSUME PageInv, UNCHANGED menu, GoBackToFirewallSummary PROVE Safe
<1> DEFINE w == RenderHostNodes(view, "pages", view.shared, "pfsense")
<1>1. "pfsense" \in Tools /\ "pfsense" \in Sections
  BY SectionsAreTools DEF GoBackToFirewallSummary, PageInv, Fits, IsPanel, Listed
<1>2. Leaves(w, view)
  BY <1>1, HostNodesLeave DEF PageInv, Fits
<1>3. view' = Ask(w, {Call("firewall", "pfsense", None)})
  BY DEF GoBackToFirewallSummary
<1> HIDE DEF w
<1>4. Leaves(view', w)
  BY <1>1, <1>2, <1>3, FirewallCalls, AskKeeps DEF Leaves
<1>5. QED
  BY <1>1, <1>2, <1>4, ClickCounts DEF GoBackToFirewallSummary, Safe, ShowsItsTool, PageInv, Leaves

LEMMA PreloadSafe == ASSUME PageInv, UNCHANGED menu, PreloadAllCaches PROVE Safe
<1> DEFINE cs == {Call(what, "kvm", None) : what \in IF "kvm" \in menu THEN {"hosts", "vms"} ELSE {}}
                 \cup {Call("list", t, None) : t \in menu \cap Listed}
<1>1. cs \subseteq Fitting
  BY MachineCalls, ListCalls, SectionsAreTools DEF PageInv
<1>2. view' = [Ask(view, cs) EXCEPT !.preloaded = TRUE]
  BY DEF PreloadAllCaches
<1> HIDE DEF cs
<1>3. Leaves(Ask(view, cs), view)
  BY <1>1, AskKeeps DEF PageInv
<1>4. Leaves(view', view)
  BY <1>2, <1>3 DEF Leaves, Fits, CardsFit, ViewFields
<1>5. QED
  BY <1>4, ClickCounts DEF PreloadAllCaches, Safe, ShowsItsTool, PageInv, Leaves

LEMMA ControlSafe == ASSUME PageInv, UNCHANGED menu, ControlContainer \/ ControlVM PROVE Safe
<1>1. Leaves(view', view)
  <2>1. CASE ControlContainer
    <3>1. view.panel.by \in Sections
      BY <2>1, SectionsAreTools DEF ControlContainer, PageInv, Fits, IsPanel, Listed
    <3>2. QED
      BY <2>1, <3>1, ListCalls, AskKeeps DEF ControlContainer, PageInv
  <2>2. CASE ControlVM
    BY <2>2, MachineCalls, AskKeeps DEF ControlVM, PageInv
  <2>3. QED
    BY <2>1, <2>2
<1>2. QED
  BY <1>1, ClickCounts DEF ControlContainer, ControlVM, Safe, ShowsItsTool, PageInv, Leaves

LEMMA RefreshSafe == ASSUME PageInv, UNCHANGED menu, RefreshAll PROVE Safe
<1>1. Leaves(view', view)
  BY FetchDataLeaves DEF RefreshAll, PageInv
<1>2. QED
  BY <1>1 DEF RefreshAll, Safe, ShowsItsTool, PageInv, Leaves

----------------------------------------------------------------------------
(* The answers *)

\* The caches but the firewall's are as they were.
SameKids(w) == \A t \in Tools \ {"pfsense"} : w.kids[t] = view.kids[t]
LEMMA AnswerSafe == ASSUME PageInv, UNCHANGED menu, NEW c, NEW v, Answered(c, v), UNCHANGED failures, Fits(v),
                           SameKids(v) \/ (v.panel # view.panel => v.panel.by = tool)
                    PROVE  Safe
  BY DEF Answered, Safe, ShowsItsTool, PageInv, SameKids
LEMMA LeavesSame == ASSUME NEW w, Leaves(w, view) PROVE Fits(w) /\ SameKids(w)
  BY DEF Leaves, SameKids

LEMMA FirewallCached == ASSUME Fits(view), NEW d, Leaves(d, view), "pfsense" \in Tools, NEW cs \in Lists
                        PROVE  Fits(Cached(d, "pfsense", cs)) /\ SameKids(Cached(d, "pfsense", cs))
<1> DEFINE k == Cached(d, "pfsense", cs)
<1>1. Fits(k) /\ k.kids = [d.kids EXCEPT !["pfsense"] = cs]
  BY CacheKeeps DEF Leaves
<1>2. d.kids = view.kids /\ view.kids \in [Tools -> Lists]
  BY DEF Leaves, Fits
<1> HIDE DEF k
<1>3. SameKids(k)
  BY <1>1, <1>2 DEF SameKids
<1>4. QED
  BY <1>1, <1>3 DEF k

LEMMA AskedFits == ASSUME PageInv, NEW c \in view.asked PROVE c \in Fitting /\ c.tool \in Tools /\ Fits(view)
  BY DEF PageInv, Fits, Fitting, AllCalls

LEMMA HostsAnswerSafe == ASSUME PageInv, UNCHANGED menu, NEW c \in view.asked, NEW cs \in Lists, HostsAnswer(c, cs)
                         PROVE  Safe
<1> DEFINE t == c.tool
           d == Done(c)
           k == IF t = "pfsense" THEN Cached(d, t, cs) ELSE d
           v == Got(k, t)
           w == RenderHostNodes(v, "pages", Hosts(t), t)
           r == IF t = "pfsense" /\ selected[t] = None THEN w ELSE RenderPage(w, t)
           e == IF Hosts(t) = {} THEN RenderHostNodes(d, "pages", {}, None)
                ELSE IF t = "pfsense" THEN r ELSE Ask(r, {Call("children", t, None)})
<1>1. t \in Tools /\ t \in Sections /\ Fits(view)
  BY AskedFits DEF HostsAnswer, Fitting
<1>2. Answered(c, e)
  BY DEF HostsAnswer
<1>3. Hosts(t) \subseteq AllHosts
  BY <1>1, HostsOfTools
<1> HIDE DEF t
<1>4. Leaves(d, view)
  BY <1>1, DoneKeeps
<1> HIDE DEF d
<1>5. Fits(k) /\ SameKids(k)
  BY <1>1, <1>4, FirewallCached, LeavesSame
<1> HIDE DEF k
<1>6. Leaves(v, k)
  BY <1>1, <1>5, GotKeeps
<1> HIDE DEF v
<1>7. Leaves(w, v)
  BY <1>1, <1>3, <1>6, HostNodesLeave DEF Leaves
<1> HIDE DEF w
<1>8. Fits(r) /\ r.kids = w.kids
  BY <1>1, <1>7, PageTurns DEF Leaves, Turns
<1> HIDE DEF r
<1>9. Leaves(Ask(r, {Call("children", t, None)}), r)
  BY <1>1, <1>8, ListCalls, AskKeeps
<1>10. Leaves(RenderHostNodes(d, "pages", {}, None), d)
  BY <1>4, HostNodesLeave DEF Leaves
<1>11. Fits(e) /\ SameKids(e)
  BY <1>4, <1>5, <1>6, <1>7, <1>8, <1>9, <1>10 DEF Leaves, SameKids
<1> HIDE DEF e
<1>12. UNCHANGED failures
  BY <1>2 DEF Answered
<1>13. QED
  BY <1>2, <1>11, <1>12, AnswerSafe

LEMMA FirewallAnswerSafe == ASSUME PageInv, UNCHANGED menu, NEW c \in view.asked, NEW cs \in Lists, FirewallAnswer(c, cs)
                            PROVE  Safe
<1> DEFINE d == Done(c)
           k == Cached(d, "pfsense", cs)
           v == Got(k, "pfsense")
           w == RenderHostNodes(v, "pages", Hosts("pfsense"), "pfsense")
           r == RenderPage(w, "pfsense")
<1>1. "pfsense" \in Tools /\ "pfsense" \in Sections /\ Fits(view)
  BY AskedFits, SectionsAreTools DEF FirewallAnswer, Fitting, Listed
<1>2. Answered(c, r)
  BY DEF FirewallAnswer
<1>3. Leaves(d, view)
  BY <1>1, DoneKeeps
<1> HIDE DEF d
<1>4. Fits(k) /\ SameKids(k)
  BY <1>1, <1>3, FirewallCached
<1> HIDE DEF k
<1>5. Leaves(v, k)
  BY <1>1, <1>4, GotKeeps
<1> HIDE DEF v
<1>6. Leaves(w, v)
  BY <1>1, <1>5, HostsOfTools, HostNodesLeave DEF Leaves
<1> HIDE DEF w
<1>7. Fits(r) /\ r.kids = w.kids
  BY <1>1, <1>6, PageTurns DEF Leaves, Turns
<1> HIDE DEF r
<1>8. SameKids(r)
  BY <1>4, <1>5, <1>6, <1>7 DEF Leaves, SameKids
<1>9. QED
  BY <1>2, <1>7, <1>8, AnswerSafe DEF Answered

\* An answer with children writes the section only while its tool is current.
LEMMA ChildrenAnswerSafe == ASSUME PageInv, UNCHANGED menu, NEW c \in view.asked, NEW cs \in Lists, ChildrenAnswer(c, cs)
                            PROVE  Safe
<1> DEFINE t == c.tool
           d == Done(c)
           v == Cached(d, t, cs)
           e == IF tool = t THEN RenderPage(v, t) ELSE v
<1>1. t \in Tools /\ t \in Sections /\ Fits(view)
  BY AskedFits DEF ChildrenAnswer, Fitting
<1>2. Answered(c, e)
  BY DEF ChildrenAnswer
<1> HIDE DEF t
<1>3. Leaves(d, view)
  BY <1>1, DoneKeeps
<1> HIDE DEF d
<1>4. Fits(v) /\ v.panel = view.panel
  BY <1>1, <1>3, CacheKeeps DEF Leaves
<1> HIDE DEF v
<1>5. Turns(RenderPage(v, t), v, t)
  BY <1>1, <1>4, PageTurns
<1>6. Fits(e) /\ (e.panel # view.panel => e.panel.by = tool)
  BY <1>4, <1>5 DEF Turns
<1> HIDE DEF e
<1>7. QED
  BY <1>2, <1>6, AnswerSafe DEF Answered

LEMMA PodsAnswerSafe == ASSUME PageInv, UNCHANGED menu, NEW c \in view.asked, NEW cs \in Lists, PodsAnswer(c, cs)
                        PROVE  Safe
<1> DEFINE d == Done(c)
           v == Cached(d, "kubernetes", cs)
           w == IF tool = "kubernetes" THEN RenderPage(v, "kubernetes") ELSE v
           n == {Call("nodesOf", "kubernetes", c.host)}
           e == Ask(w, n)
<1>1. "kubernetes" \in Tools /\ "kubernetes" \in Sections /\ Fits(view) /\ c.host \in AllHosts
  BY AskedFits, SectionsAreTools DEF PodsAnswer, Fitting, Listed
<1>2. Answered(c, e)
  BY DEF PodsAnswer
<1>3. n \subseteq Fitting
  BY <1>1, NodeCalls
<1> HIDE DEF n
<1>4. Leaves(d, view)
  BY <1>1, DoneKeeps
<1> HIDE DEF d
<1>5. Fits(v) /\ v.panel = view.panel
  BY <1>1, <1>4, CacheKeeps DEF Leaves
<1> HIDE DEF v
<1>6. Turns(RenderPage(v, "kubernetes"), v, "kubernetes")
  BY <1>1, <1>5, PageTurns
<1>7. Fits(w) /\ (w.panel # view.panel => w.panel.by = tool)
  BY <1>5, <1>6 DEF Turns
<1> HIDE DEF w
<1>8. Leaves(e, w)
  BY <1>3, <1>7, AskKeeps
<1> HIDE DEF e
<1>9. QED
  BY <1>2, <1>7, <1>8, AnswerSafe DEF Answered, Leaves

LEMMA NodesAnswerSafe == ASSUME PageInv, UNCHANGED menu, NEW c \in view.asked, NEW ns, NodesAnswer(c, ns)
                         PROVE  Safe
<1> DEFINE v    == Done(c)
           mine == NodesOf(ns, c.host)
           pods == view.kids["kubernetes"]
           u    == ClusterUpdate(v.panel, c.host, mine, pods)
           m    == ClusterMarkup(c.host, mine, pods)
           e    == IF mine = {} THEN Show(v, NoNodes)
                   ELSE IF v.attr = c.host[2] THEN Show(v, u) ELSE [Show(v, m) EXCEPT !.attr = c.host[2]]
<1>1. "kubernetes" \in Tools /\ Fits(view) /\ c.host \in AllHosts /\ c.host[2] \in Ids
  BY AskedFits, HostIds DEF NodesAnswer, Fitting
<1>2. Answered(c, e)
  BY DEF NodesAnswer
<1>3. Leaves(v, view)
  BY <1>1, DoneKeeps
<1> HIDE DEF v, mine, pods
<1>4. IsPanel(NoNodes) /\ IsPanel(m)
  BY <1>1, MadePanel DEF NoNodes, ClusterMarkup
<1>5. IsPanel(u)
  BY <1>1, <1>3, OtherRows DEF ClusterUpdate, WithRows, Leaves, Fits
<1> HIDE DEF u, m
<1>6. /\ Fits(Show(v, NoNodes)) /\ Show(v, NoNodes).kids = v.kids /\ Fits(Show(v, u)) /\ Show(v, u).kids = v.kids
      /\ Fits(Show(v, m)) /\ Show(v, m).kids = v.kids
  BY <1>3, <1>4, <1>5, ShowKeeps DEF Leaves
<1>7. Fits([Show(v, m) EXCEPT !.attr = c.host[2]]) /\ [Show(v, m) EXCEPT !.attr = c.host[2]].kids = v.kids
  BY <1>1, <1>6 DEF Fits, CardsFit, ViewFields
<1>8. Fits(e) /\ SameKids(e)
  BY <1>3, <1>6, <1>7 DEF Leaves, SameKids
<1> HIDE DEF e
<1>9. QED
  BY <1>2, <1>8, AnswerSafe DEF Answered

LEMMA KVMHostsAnswerSafe == ASSUME PageInv, UNCHANGED menu, NEW c \in view.asked, KVMHostsAnswer(c) PROVE Safe
<1> DEFINE d == Done(c)
           v == Got(d, "kvm")
           e == RenderHostNodes(v, "kvm", Hosts("kvm"), "kvm")
<1>1. Fits(view)
  BY AskedFits
<1>2. Answered(c, e)
  BY DEF KVMHostsAnswer
<1>3. Leaves(d, view)
  BY <1>1, DoneKeeps
<1> HIDE DEF d
<1>4. Leaves(v, d)
  BY <1>3, SectionsAreTools, GotKeeps DEF Leaves
<1> HIDE DEF v
<1>5. Leaves(e, v)
  BY <1>4, SectionsAreTools, HostsOfTools, MachineNodesLeave DEF Leaves
<1> HIDE DEF e
<1>6. Leaves(e, view)
  BY <1>3, <1>4, <1>5 DEF Leaves
<1>7. QED
  BY <1>2, <1>6, LeavesSame, AnswerSafe DEF Answered

LEMMA VMsAnswerSafe == ASSUME PageInv, UNCHANGED menu, NEW c \in view.asked, NEW cs \in Lists, VMsAnswer(c, cs) PROVE Safe
<1> DEFINE d == Done(c)
           v == Cached(d, "kvm", cs)
           e == RenderVMs(v, vmHost)
<1>1. Fits(view)
  BY AskedFits
<1>2. Answered(c, e)
  BY DEF VMsAnswer
<1>3. Leaves(d, view)
  BY <1>1, DoneKeeps
<1> HIDE DEF d
<1>4. Fits(v) /\ v.panel = view.panel
  BY <1>3, SectionsAreTools, CacheKeeps DEF Leaves
<1> HIDE DEF v
<1>5. Leaves(e, v)
  BY <1>4, MachinesLeave
<1> HIDE DEF e
<1>6. QED
  BY <1>2, <1>4, <1>5, AnswerSafe DEF Answered, Leaves

LEMMA ControlAnswerSafe == ASSUME PageInv, UNCHANGED menu, NEW c \in view.asked, ControlAnswer(c) PROVE Safe
<1> DEFINE d == Done(c)
           n == {Call(IF c.tool = "kvm" THEN "vms" ELSE "children", c.tool, None)}
           e == Ask(d, n)
<1>1. Fits(view) /\ c.tool \in Sections \cup {"kvm"}
  BY AskedFits DEF ControlAnswer, Fitting
<1>2. Answered(c, e)
  BY DEF ControlAnswer
<1>3. n \subseteq Fitting
  BY <1>1, ListCalls, MachineCalls
<1> HIDE DEF n
<1>4. Leaves(d, view)
  BY <1>1, DoneKeeps
<1> HIDE DEF d
<1>5. Leaves(e, d)
  BY <1>3, <1>4, AskKeeps DEF Leaves
<1> HIDE DEF e
<1>6. Leaves(e, view)
  BY <1>4, <1>5 DEF Leaves
<1>7. QED
  BY <1>2, <1>6, LeavesSame, AnswerSafe DEF Answered

LEMMA FailSafe == ASSUME PageInv, UNCHANGED menu, NEW c \in view.asked, Fail(c) PROVE Safe
<1> DEFINE d == Done(c)
<1>1. Fits(view) /\ c \in Fitting
  BY AskedFits
<1>2. Leaves(d, view)
  BY <1>1, DoneKeeps
<1>3. view' = CASE c.what = "firewall" -> [d EXCEPT !.cards["pages"] = Cards({}, None, @.hash)]
                [] c.what = "nodesOf"  -> Show(d, ClusterFailed)
                [] c.what = "podsOf"   -> Ask(d, {Call("nodesOf", "kubernetes", c.host)})
                [] OTHER               -> d
  BY DEF Fail
<1> HIDE DEF d
<1>4. Fits(view') /\ view'.kids = view.kids
  <2>1. CASE c.what = "firewall"
    BY <1>2, <1>3, <2>1 DEF Leaves, Fits, CardsFit, IsCards, Cards, ViewFields
  <2>2. CASE c.what = "nodesOf"
    <3>1. IsPanel(ClusterFailed)
      BY <1>1, <2>2, MadePanel DEF ClusterFailed, Fitting, AllCalls
    <3>2. QED
      BY <1>2, <1>3, <2>2, <3>1, ShowKeeps DEF Leaves
  <2>3. CASE c.what = "podsOf"
    <3>1. Call("nodesOf", "kubernetes", c.host) \in Fitting
      BY <1>1, <2>3, NodeCalls DEF Fitting, AllCalls
    <3>2. QED
      BY <1>2, <1>3, <2>3, <3>1, AskKeeps DEF Leaves
  <2>4. CASE c.what \notin {"firewall", "nodesOf", "podsOf"}
    BY <1>2, <1>3, <2>4 DEF Leaves
  <2>5. QED
    BY <2>1, <2>2, <2>3, <2>4
<1>5. failures' \in 0..MaxFailures
  BY DashboardAssumption DEF Fail, PageInv
<1>6. QED
  BY <1>4, <1>5 DEF Fail, Safe, ShowsItsTool, PageInv

----------------------------------------------------------------------------
(* The theorems *)

LEMMA StepSafe == ASSUME PageInv, Next PROVE Safe
<1>1. UNCHANGED menu
  BY DEF Next
<1>2. CASE User
  BY <1>1, <1>2, SwitchToolSafe, SelectCardSafe, SelectVMHostSafe, ApplySuggestionSafe, DockerSummarySafe,
     FirewallSummarySafe, PreloadSafe, ControlSafe DEF User
<1>3. CASE RefreshAll
  BY <1>1, <1>3, RefreshSafe
<1>4. ASSUME NEW c \in view.asked, Answer(c) PROVE Safe
  BY <1>1, <1>4, HostsAnswerSafe, FirewallAnswerSafe, ChildrenAnswerSafe, PodsAnswerSafe, VMsAnswerSafe,
     NodesAnswerSafe, KVMHostsAnswerSafe, ControlAnswerSafe DEF Answer
<1>5. ASSUME NEW c \in view.asked, Fail(c) PROVE Safe
  BY <1>1, <1>5, FailSafe
<1>6. QED
  BY <1>2, <1>3, <1>4, <1>5 DEF Next

LEMMA InitFits == Init => PageInv
<1> SUFFICES ASSUME Init PROVE PageInv
  OBVIOUS
<1>1. IsPanel(Blank)
  BY MadePanel DEF Blank
<1>2. Fits(view)
  BY <1>1, DashboardAssumption DEF Init, Fits, CardsFit, IsCards, Cards, ViewFields
<1>3. QED
  BY <1>2, DashboardAssumption DEF Init, PageInv

LEMMA PageInvariant == Spec => []PageInv
<1>1. PageInv /\ [Next]_vars => PageInv'
  <2> SUFFICES ASSUME PageInv, [Next]_vars PROVE PageInv'
    OBVIOUS
  <2>1. CASE Next
    BY <2>1, StepSafe DEF Safe
  <2>2. CASE UNCHANGED vars
    BY <2>2 DEF vars, PageInv
  <2>3. QED
    BY <2>1, <2>2
<1>2. QED
  BY <1>1, InitFits, PTL DEF Spec

\* Every variable of the tool pages has its type.
LEMMA FitsIsView == ASSUME NEW v, Fits(v) PROVE IsView(v)
<1>1. v = [x \in ViewFields |-> v[x]]
  BY DEF Fits
<1>2. v = [shared |-> v.shared, kids |-> v.kids, cards |-> v.cards, panel |-> v.panel, attr |-> v.attr,
          grid |-> v.grid, gridAttr |-> v.gridAttr, known |-> v.known, preloaded |-> v.preloaded, asked |-> v.asked]
  BY <1>1 DEF ViewFields
<1>3. DOMAIN v.cards = {"pages", "kvm"}
  BY DEF Fits, CardsFit
<1>4. v.asked \subseteq AllCalls
  BY DEF Fits, Fitting
<1>5. QED
  BY <1>2, <1>3, <1>4 DEF IsView, Fits, CardsFit

\* Cards on the screen name a tool's handler and registered hosts, the panel is a
\* tool's and shows a registered host or none, whatever answers come when.
THEOREM DashboardTypeCorrect == Spec => []DashboardTypeOK
<1>1. PageInv => DashboardTypeOK
  BY FitsIsView DEF PageInv, DashboardTypeOK
<1>2. QED
  BY <1>1, PageInvariant, PTL

\* No change of tool and no late answer with containers, pods, machines or volumes
\* puts the panel of another tool on the screen.
THEOREM NavigationShowsTool == Spec => NavigationShowsItsTool
<1>1. PageInv /\ [Next]_vars => [ShowsItsTool]_vars
  BY StepSafe DEF Safe
<1>2. QED
  BY <1>1, PageInvariant, PTL DEF Spec, NavigationShowsItsTool, ShowsItsTool
=============================================================================
