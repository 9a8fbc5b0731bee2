----------------------------- MODULE HistoryPage -----------------------------
(***************************************************************************)
(* The history page: the charts of one server over one time range, the     *)
(* logs of its host, and a timer that loads both again.  The choice of     *)
(* server and range is read when a request is sent, the charts show        *)
(* whichever answer came last; what the page remembers over a reload is    *)
(* kept by the browser.  showToast and formatMarkdownLike are called and   *)
(* defined nowhere.                                                        *)
(***************************************************************************)
EXTENDS MetricCharts

CONSTANTS
  HistServers,   \* servers with metrics, <<tool, id>>
  HistDurations, \* the time ranges offered, "15m" among them
  HistRecorded,  \* [HistServers \X HistDurations -> samples]
  HistMemory,    \* [HistServers -> memory], 0 when it is not known
  HistQuiet,     \* servers whose hosts have no recent logs
  HistEvents,    \* whether the history has events
  HistIntervals, \* the refresh intervals offered, 60 among them
  HistLimits,    \* the pairs of thresholds the user types
  HistSwitches,  \* the switches the user touches
  HistClicks,    \* bound on the user's actions
  HistFailures   \* bound on the requests that fail

NoServer == <<"", 0>>
Limited  == {"cpu", "temp", "ram", "disk", "net", "io"}
Switches == {"trends", "compact", "anomalies", "forecast"}
Requests == {"preload", "events", "metrics", "logs", "report", "ask"}

ASSUME HistoryAssumption ==
  /\ NoServer \notin HistServers /\ "15m" \in HistDurations
  /\ DOMAIN HistRecorded = HistServers \X HistDurations
  /\ HistMemory \in [HistServers -> Nat] /\ HistQuiet \subseteq HistServers /\ HistEvents \in BOOLEAN
  /\ 60 \in HistIntervals /\ HistIntervals \subseteq Nat \ {0} /\ HistLimits \subseteq Nat \X Nat
  /\ HistSwitches \subseteq Switches /\ HistClicks \in Nat /\ HistFailures \in Nat

VARIABLES
  hist,   \* the page, see BlankPage
  kept,   \* what the browser keeps over a reload
  plots,  \* the charts, what they show, the choice of their selectors
  asked,  \* requests whose answer is due
  histClicks, histFailures
histVars == <<hist, kept, plots, asked, histClicks, histFailures>>

Ask(what, of, range)        == [what |-> what, of |-> of, range |-> range]
Shown(state, of, filter)    == [state |-> state, of |-> of, filter |-> filter]
DefaultThresholds == [c \in Limited |-> CASE c = "cpu"  -> <<70, 85>>   [] c = "ram" -> <<80, 90>>
                                          [] c = "disk" -> <<75, 85>>   [] c = "net" -> <<80, 95>>
                                          [] c = "io"   -> <<100, 200>> [] c = "temp" -> <<60, 80>>]

BlankPage(limits) ==
  [opened |-> FALSE,          \* historyMetricsInitialized
   preloading |-> FALSE, cached |-> {}, offered |-> {}, server |-> NoServer, duration |-> "15m",
   on |-> [s \in Switches |-> FALSE], auto |-> [on |-> FALSE, every |-> 60],
   running |-> [i \in HistIntervals |-> 0], handle |-> 0,  \* autoRefreshTimer
   limits |-> limits, modal |-> FALSE,
   logs |-> Shown("blank", NoServer, ""), all |-> NoServer, filter |-> "",  \* allHostLogs
   bar |-> Shown("blank", NoServer, ""), tv |-> FALSE, borders |-> TRUE, report |-> "hidden"]
BlankPlots == [charts |-> [c \in Charts |-> NoChart], of |-> <<NoServer, "">>,
               chosen |-> Choice("total", "total", "total"), label |-> "hidden"]

HistoryInit ==
  /\ kept = [on |-> [s \in Switches |-> FALSE], auto |-> [on |-> FALSE, every |-> 60], limits |-> DefaultThresholds]
  /\ hist = BlankPage(DefaultThresholds) /\ plots = BlankPlots
  /\ asked = {} /\ histClicks = 0 /\ histFailures = 0

----------------------------------------------------------------------------
(* What the handlers share *)

\* Mutated: the handle is dropped and the timer goes on.
StopForgotten(h)   == [h EXCEPT !.handle = 0]
StopAutoRefresh(h)  == IF h.handle = 0 THEN h ELSE [h EXCEPT !.running[h.handle] = @ - 1, !.handle = 0]
StartAutoRefresh(h) == LET s == StopAutoRefresh(h) IN
                       [s EXCEPT !.running[s.auto.every] = @ + 1, !.handle = s.auto.every]

\* Once for a load of the page: what the browser kept takes effect.
InitHistoryMetrics(h) ==
  IF h.opened THEN h
  ELSE LET s == [h EXCEPT !.opened = TRUE, !.on = kept.on, !.auto = kept.auto] IN
       IF s.auto.on THEN StartAutoRefresh(s) ELSE s
\* A server that is no longer offered makes place for the first one that is.
PopulateHistoryServers(h) ==
  [h EXCEPT !.offered = h.cached,
            !.server = IF @ = NoServer \/ @ \in h.cached THEN @
                       ELSE IF h.cached = {} THEN NoServer ELSE CHOOSE s \in h.cached : TRUE]
RenderHistory(h) == PopulateHistoryServers(InitHistoryMetrics(h))

LoadHistoryMetrics(h) == IF h.server = NoServer THEN {} ELSE {Ask("metrics", h.server, h.duration)}
DisplayFilteredLogs(h) == [h EXCEPT !.logs = Shown("logs", h.all, h.filter)]

Samples(of)  == IF of[1] = NoServer THEN <<>> ELSE Sorted(HistRecorded[of])
Redrawn(p, h, memory) ==
  LET samples == Samples(p.of)
      charts  == UpdateCharts(p.charts, samples, p.chosen, memory, h.on, [c \in Charts |-> IF c \in Limited THEN h.limits[c] ELSE <<>>])
  IN [p EXCEPT !.charts = charts, !.label = ForecastLabel(charts["disk"], h.on.forecast, samples, @)]

----------------------------------------------------------------------------
(* The user, the timer and the other pages *)

HistClick(h, sent) == /\ histClicks < HistClicks /\ histClicks' = histClicks + 1
                      /\ hist' = h /\ asked' = asked \cup sent /\ UNCHANGED histFailures
OnlyPage           == UNCHANGED <<kept, plots>>

\* The caches are loaded once, when they are all empty; a second visit does not wait.
OpenHistory ==
  /\ OnlyPage
  /\ IF hist.cached = {} /\ ~hist.preloading
     THEN HistClick([hist EXCEPT !.preloading = TRUE], {Ask("preload", NoServer, "")})
     ELSE HistClick(RenderHistory(hist), {Ask("events", NoServer, "")})
CachesChange(servers) == servers # hist.cached /\ HistClick([hist EXCEPT !.cached = servers], {}) /\ OnlyPage
SelectServer(s) == /\ hist.opened /\ s \in hist.offered /\ OnlyPage
                   /\ LET h == [hist EXCEPT !.server = s] IN HistClick(h, LoadHistoryMetrics(h))
SelectDuration(d) == /\ hist.opened /\ d # hist.duration /\ OnlyPage
                     /\ LET h == [hist EXCEPT !.duration = d] IN HistClick(h, LoadHistoryMetrics(h))

SearchLogs(f) == /\ f # hist.filter /\ OnlyPage
                 /\ LET h == [hist EXCEPT !.filter = f] IN
                    HistClick(IF h.all = NoServer THEN h ELSE DisplayFilteredLogs(h), {})

Switch(s) ==
  /\ hist.opened
  /\ LET h == [hist EXCEPT !.on[s] = ~@] IN
       /\ kept' = [kept EXCEPT !.on[s] = h.on[s]]
       /\ HistClick(h, IF s = "trends" THEN LoadHistoryMetrics(h) ELSE {})
       /\ plots' = CASE s = "anomalies" -> [plots EXCEPT !.charts = ApplyAnomalies(@, h.on.anomalies)]
                     [] s = "forecast"  -> [plots EXCEPT !.charts["disk"] = ApplyForecast(@, h.on.forecast),
                                              !.label = ForecastLabel(plots.charts["disk"], h.on.forecast, Samples(plots.of), @)]
                     [] OTHER -> plots

ToggleAutoRefresh ==
  /\ hist.opened /\ UNCHANGED plots
  /\ LET h == [hist EXCEPT !.auto.on = ~@] IN
     /\ HistClick(IF h.auto.on THEN StartAutoRefresh(h) ELSE StopAutoRefresh(h), {})
     /\ kept' = [kept EXCEPT !.auto = h.auto]
\* The interval is disabled while the timer is off.
SelectInterval(i) ==
  /\ hist.opened /\ hist.auto.on /\ i # hist.auto.every /\ UNCHANGED plots
  /\ LET h == [hist EXCEPT !.auto.every = i] IN
     HistClick(StartAutoRefresh(StopAutoRefresh(h)), {}) /\ kept' = [kept EXCEPT !.auto = h.auto]
\* Mutated: the timer loads the range the page was opened with.
RefreshOldRange(i) == /\ hist.running[i] > 0 /\ asked' = asked \cup LoadHistoryMetrics([hist EXCEPT !.duration = "15m"])
                      /\ UNCHANGED <<hist, kept, plots, histClicks, histFailures>>
RefreshTick(i)     == /\ hist.running[i] > 0 /\ asked' = asked \cup LoadHistoryMetrics(hist)
                      /\ UNCHANGED <<hist, kept, plots, histClicks, histFailures>>

ShowThresholds  == hist.opened /\ ~hist.modal /\ HistClick([hist EXCEPT !.modal = TRUE], {}) /\ OnlyPage
CloseThresholds == hist.modal /\ HistClick([hist EXCEPT !.modal = FALSE], {}) /\ OnlyPage
\* A pair in the wrong order is skipped, the others are saved and the form closes.
SaveThresholds(typed) ==
  /\ hist.modal /\ UNCHANGED plots
  /\ LET h == [hist EXCEPT !.modal = FALSE,
                 !.limits = [c \in Limited |-> IF c \in DOMAIN typed /\ typed[c][1] <= typed[c][2] THEN typed[c] ELSE @[c]]]
     IN HistClick(h, LoadHistoryMetrics(h)) /\ kept' = [kept EXCEPT !.limits = h.limits]
ResetThresholds ==
  /\ hist.modal /\ UNCHANGED plots
  /\ HistClick([hist EXCEPT !.limits = DefaultThresholds], {}) /\ kept' = [kept EXCEPT !.limits = DefaultThresholds]

\* The charts are drawn again without the total memory.
SelectSeries(field, name) ==
  /\ Made(plots.charts["cpu"]) /\ UNCHANGED kept
  /\ name \in Names(Samples(plots.of), field) \cup {"total"}
  /\ LET p == [plots EXCEPT !.chosen = CASE field = "ifaces" -> [@ EXCEPT !.iface = name]
                                         [] field = "disks"  -> [@ EXCEPT !.disk = name]
                                         [] field = "nodes"  -> [@ EXCEPT !.node = name]] IN
       p # plots /\ plots' = Redrawn(p, hist, 0)
  /\ HistClick(hist, {})

\* The borders hidden for the dashboard are never shown again.
ToggleDashboardMode == /\ hist.opened /\ OnlyPage
                       /\ HistClick([hist EXCEPT !.tv = ~@, !.borders = @ /\ hist.tv], {})
GenerateSLAReport   == /\ hist.opened /\ OnlyPage
                       /\ HistClick([hist EXCEPT !.report = "working"], {Ask("report", NoServer, "")})
CloseReport         == hist.report # "hidden" /\ HistClick([hist EXCEPT !.report = "hidden"], {}) /\ OnlyPage

\* The browser loads the page again.
Reload == /\ histClicks < HistClicks /\ histClicks' = histClicks + 1
          /\ hist' = BlankPage(kept.limits) /\ plots' = BlankPlots /\ asked' = {}
          /\ UNCHANGED <<kept, histFailures>>

----------------------------------------------------------------------------
(* The answers *)

\* A request is answered, or it fails, and others may follow it.
Follows(r) == CASE r.what = "preload" -> {Ask("events", NoServer, "")} [] r.what = "metrics" -> {Ask("logs", r.of, "")}
                [] r.what = "report" -> {Ask("ask", NoServer, "")}     [] OTHER -> {}
Settles(r) == r \in asked /\ \E sent \in {{}, Follows(r)} : asked' = (asked \ {r}) \cup sent
Answered(r, h, sent) == r \in asked /\ hist' = h /\ asked' = (asked \ {r}) \cup sent /\ UNCHANGED <<kept, histClicks>>
Fine   == UNCHANGED histFailures
Broken == histFailures < HistFailures /\ histFailures' = histFailures + 1

\* What could be loaded is offered; the page goes on in either case.
PreloadAnswer(r) ==
  /\ r.what = "preload" /\ UNCHANGED plots
  /\ \/ Fine /\ Answered(r, RenderHistory([hist EXCEPT !.cached = HistServers]), Follows(r))
     \/ Broken /\ Answered(r, RenderHistory(hist), Follows(r))

\* An empty history uses a name before its declaration, which is an error too.
EventsAnswer(r) ==
  /\ r.what = "events" /\ UNCHANGED plots
  /\ \/ HistEvents /\ Fine /\ Answered(r, [hist EXCEPT !.bar = Shown("events", NoServer, "")], {})
     \/ (IF HistEvents THEN Broken ELSE Fine) /\ Answered(r, [hist EXCEPT !.bar = Shown("error", NoServer, "")], {})

\* The host's logs are asked for, then the charts are drawn.
MetricsAnswer(r) ==
  /\ r.what = "metrics" /\ Fine
  /\ Answered(r, [hist EXCEPT !.logs = Shown("loading", r.of, "")], Follows(r))
  /\ LET of == <<r.of, r.range>>
         chosen == Offered(Samples(of), plots.chosen, r.of[1] = "kubernetes") IN
     plots' = Redrawn([plots EXCEPT !.of = of, !.chosen = chosen], hist, HistMemory[r.of])
MetricsFailed(r) == r.what = "metrics" /\ Broken /\ Answered(r, hist, {}) /\ UNCHANGED plots

HostLogsAnswer(r) ==
  /\ r.what = "logs" /\ Fine /\ UNCHANGED plots
  /\ Answered(r, IF r.of \in HistQuiet THEN [hist EXCEPT !.logs = Shown("empty", r.of, "")]
                 ELSE DisplayFilteredLogs([hist EXCEPT !.all = r.of, !.bar = Shown("host", r.of, "")]), {})
HostLogsFailed(r) == /\ r.what = "logs" /\ Broken /\ UNCHANGED plots
                     /\ Answered(r, [hist EXCEPT !.logs = Shown("error", r.of, "")], {})

\* The events, then the assistant, whose text cannot be shown; without a model it
\* only has advice.
ReportEvents(r) == r.what = "report" /\ Fine /\ Answered(r, hist, Follows(r)) /\ UNCHANGED plots
ReportAnswer(r) == /\ r.what = "ask" /\ Fine /\ UNCHANGED plots
                   /\ \E how \in {"advice", "error"} : Answered(r, [hist EXCEPT !.report = IF @ = "hidden" THEN @ ELSE how], {})
ReportFailed(r) == /\ r.what \in {"report", "ask"} /\ Broken /\ UNCHANGED plots
                   /\ Answered(r, [hist EXCEPT !.report = IF @ = "hidden" THEN @ ELSE "error"], {})

HistAnswer(r) == \/ PreloadAnswer(r) \/ EventsAnswer(r) \/ MetricsAnswer(r) \/ HostLogsAnswer(r)
                 \/ ReportEvents(r) \/ ReportAnswer(r)
HistFailed(r) == MetricsFailed(r) \/ HostLogsFailed(r) \/ ReportFailed(r)

HistoryNext ==
  \/ OpenHistory \/ ToggleAutoRefresh \/ ShowThresholds \/ CloseThresholds \/ ResetThresholds
  \/ ToggleDashboardMode \/ GenerateSLAReport \/ CloseReport \/ Reload
  \/ \E c \in SUBSET HistServers : CachesChange(c)
  \/ \E s \in HistServers : SelectServer(s)
  \/ \E d \in HistDurations : SelectDuration(d)
  \/ \E f \in {"", "x"} : SearchLogs(f)
  \/ \E s \in HistSwitches : Switch(s)
  \/ \E i \in HistIntervals : SelectInterval(i) \/ RefreshTick(i)
  \/ \E typed \in [{"cpu", "disk"} -> HistLimits] : SaveThresholds(typed)
  \/ \E field \in {"ifaces", "disks", "nodes"} :
       \E name \in Names(Samples(plots.of), field) \cup {"total"} : SelectSeries(field, name)
  \/ \E r \in asked : HistAnswer(r) \/ HistFailed(r)

\* A timer keeps ticking; each request is answered or fails.
HistoryFairness ==
  /\ \A i \in HistIntervals : WF_asked(RefreshTick(i))
  /\ \A what \in Requests \ {"metrics", "logs"} : WF_asked(Settles(Ask(what, NoServer, "")))
  /\ \A s \in HistServers : /\ WF_asked(Settles(Ask("logs", s, "")))
                            /\ \A d \in HistDurations : WF_asked(Settles(Ask("metrics", s, d)))
HistorySpec == HistoryInit /\ [][HistoryNext]_histVars /\ HistoryFairness

----------------------------------------------------------------------------
(* Properties *)

\* Every variable has its type; the requests name a server that is known.
HistoryTypeOK ==
  /\ hist = [x \in DOMAIN BlankPage(DefaultThresholds) |-> hist[x]]
  /\ hist.opened \in BOOLEAN /\ hist.preloading \in BOOLEAN /\ hist.cached \subseteq HistServers
  /\ hist.offered \subseteq HistServers /\ hist.server \in HistServers \cup {NoServer}
  /\ hist.duration \in HistDurations /\ hist.on \in [Switches -> BOOLEAN]
  /\ hist.auto \in [on : BOOLEAN, every : HistIntervals] /\ hist.running \in [HistIntervals -> Nat]
  /\ hist.handle \in HistIntervals \cup {0} /\ hist.limits \in [Limited -> Nat \X Nat]
  /\ hist.modal \in BOOLEAN /\ hist.tv \in BOOLEAN /\ hist.borders \in BOOLEAN
  /\ hist.all \in HistServers \cup {NoServer} /\ hist.filter \in {"", "x"}
  /\ hist.logs \in [state : {"blank", "loading", "logs", "empty", "error"}, of : HistServers \cup {NoServer}, filter : {"", "x"}]
  /\ hist.bar \in [state : {"blank", "events", "host", "error"}, of : HistServers \cup {NoServer}, filter : {""}]
  /\ hist.report \in {"hidden", "working", "advice", "error"}
  /\ kept \in [on : [Switches -> BOOLEAN], auto : [on : BOOLEAN, every : HistIntervals], limits : [Limited -> Nat \X Nat]]
  /\ DOMAIN plots.charts = Charts /\ plots.of \in (HistServers \X HistDurations) \cup {<<NoServer, "">>}
  /\ plots.label \in {"hidden", "stable", "full", "days", "weeks", "months", "over a year"}
  /\ asked \subseteq [what : Requests, of : HistServers \cup {NoServer}, range : HistDurations \cup {""}]
  /\ histClicks \in 0..HistClicks /\ histFailures \in 0..HistFailures

\* While the automatic refresh is on exactly one timer runs, at the interval the
\* user chose, and none while it is off; the browser keeps the same choice:
\* switching it, changing the interval, coming back and loading the page again
\* in any order never leaves a second timer or a choice that is not kept.
OneRefreshTimer ==
  /\ hist.running = [i \in HistIntervals |-> IF hist.auto.on /\ i = hist.auto.every THEN 1 ELSE 0]
  /\ hist.opened => kept.auto = hist.auto /\ kept.on = hist.on

\* Anomalies and the projection are always those of the series their chart shows,
\* once, and only while they are switched on: no change of server, range or
\* selector and no switch leaves those of an earlier series on a chart.
OverlaysCurrent ==
  \A c \in Charts : LET layers == plots.charts[c].layers IN
    \A i \in DOMAIN layers :
      /\ layers[i].label = "Anomalias"  => /\ hist.on.anomalies /\ layers[i].data = DetectAnomalies(layers[1].data)
      /\ layers[i].label = "Proyeccion" => /\ hist.on.forecast /\ layers[i].data = Projection(layers[1].data)
      /\ \A j \in DOMAIN layers : layers[j].label = layers[i].label => i = j

\* While the refresh runs and the user rests, the charts come to show the server
\* and the range that are selected, and the logs those of that server's host,
\* whatever answers to earlier selections came after it.
HistoryCatchesUp ==
  <>[](hist.auto.on /\ hist.server # NoServer =>
         /\ plots.of = <<hist.server, hist.duration>> /\ hist.logs.of = hist.server)
=============================================================================
