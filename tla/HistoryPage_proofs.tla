------------------------- MODULE HistoryPage_proofs -------------------------
(***************************************************************************)
(* Exactly one refresh timer of the history page runs while its refresh is *)
(* on, and none otherwise, and what the browser keeps is what is in        *)
(* effect: for any servers, ranges, intervals, samples and clicks.  The    *)
(* charts either have not been made or show the overlays switched on, of   *)
(* the series they show: a redrawing renews the series and both overlays,  *)
(* a switch the overlay of its own.                                        *)
(***************************************************************************)
EXTENDS HistoryPage, MetricCharts_proofs

Autos == [on : BOOLEAN, every : HistIntervals]
\* The fields the timer depends on.
PageFields == {"opened", "on", "auto", "running", "handle"}
HistPage(h) == /\ PageFields \subseteq DOMAIN h
               /\ h.opened \in BOOLEAN /\ h.on \in [Switches -> BOOLEAN] /\ h.auto \in Autos

\* The timer that runs is the one the handle names, or there is none.
HandleNames(h) == /\ h.handle \in HistIntervals \cup {0}
                  /\ h.running = [i \in HistIntervals |-> IF i = h.handle THEN 1 ELSE 0]
\* The handle is that of the interval chosen, while the refresh is on.
HandleFits(h)  == h.handle = IF h.auto.on THEN h.auto.every ELSE 0
\* Nothing runs before the first visit.
TimerFits(h)   == /\ HistPage(h) /\ HandleNames(h) /\ HandleFits(h)
                  /\ h.opened \/ ~h.auto.on
\* The two pages differ in nothing the timer depends on.
SameTimer(g, h) == /\ DOMAIN g = DOMAIN h
                   /\ g.opened = h.opened /\ g.on = h.on /\ g.auto = h.auto
                   /\ g.running = h.running /\ g.handle = h.handle

KeptFields == {"on", "auto", "limits"}
KeptTyped(k) == /\ KeptFields \subseteq DOMAIN k
                /\ k.on \in [Switches -> BOOLEAN] /\ k.auto \in Autos
KeptFits(h, k) == h.opened => k.auto = h.auto /\ k.on = h.on

HistInv == TimerFits(hist) /\ KeptTyped(kept) /\ KeptFits(hist, kept)

----------------------------------------------------------------------------
(* What the handlers share *)

\* What fits a page fits one with the same timer.
LEMMA SameTimerFits == ASSUME NEW g, NEW h, TimerFits(h), SameTimer(g, h), NEW k, KeptFits(h, k)
                       PROVE  TimerFits(g) /\ KeptFits(g, k)
  BY DEF TimerFits, SameTimer, HistPage, HandleNames, HandleFits, KeptFits

\* stopAutoRefresh leaves no timer.
LEMMA AutoStopped == ASSUME NEW h, HistPage(h), HandleNames(h)
                     PROVE  LET s == StopAutoRefresh(h) IN
                            /\ HistPage(s) /\ HandleNames(s) /\ s.handle = 0
                            /\ s.opened = h.opened /\ s.on = h.on /\ s.auto = h.auto
<1>0. 0 \notin HistIntervals
  BY HistoryAssumption
<1>1. CASE h.handle = 0
  BY <1>1 DEF StopAutoRefresh
<1>2. CASE h.handle # 0
  <2>1. StopAutoRefresh(h) = [h EXCEPT !.running[h.handle] = @ - 1, !.handle = 0]
    BY <1>2 DEF StopAutoRefresh
  <2>2. h.handle \in HistIntervals /\ h.running[h.handle] = 1
    BY <1>2 DEF HandleNames
  <2>3. [h.running EXCEPT ![h.handle] = h.running[h.handle] - 1] = [i \in HistIntervals |-> IF i = 0 THEN 1 ELSE 0]
    BY <1>0, <2>2 DEF HandleNames
  <2>4. QED
    BY <2>1, <2>3 DEF HistPage, PageFields, HandleNames
<1>3. QED
  BY <1>1, <1>2

\* startAutoRefresh leaves the one of the interval chosen.
LEMMA AutoStarted == ASSUME NEW h, HistPage(h), HandleNames(h)
                     PROVE  LET s == StartAutoRefresh(h) IN
                            /\ HistPage(s) /\ HandleNames(s) /\ s.handle = h.auto.every
                            /\ s.opened = h.opened /\ s.on = h.on /\ s.auto = h.auto
<1> DEFINE s == StopAutoRefresh(h)
<1>0. 0 \notin HistIntervals
  BY HistoryAssumption
<1>1. HistPage(s) /\ HandleNames(s) /\ s.handle = 0 /\ s.opened = h.opened /\ s.on = h.on /\ s.auto = h.auto
  BY AutoStopped
<1>2. StartAutoRefresh(h) = [s EXCEPT !.running[s.auto.every] = @ + 1, !.handle = s.auto.every]
  BY DEF StartAutoRefresh
<1> HIDE DEF s
<1>3. s.auto.every \in HistIntervals
  BY <1>1 DEF HistPage, Autos
<1> DEFINE r == [s.running EXCEPT ![s.auto.every] = @ + 1]
<1>4. r = [i \in HistIntervals |-> IF i = s.auto.every THEN 1 ELSE 0]
  BY <1>0, <1>1, <1>3 DEF HandleNames
<1>5. StartAutoRefresh(h) = [s EXCEPT !.running = r, !.handle = s.auto.every]
  BY <1>2
<1> HIDE DEF r
<1>6. QED
  BY <1>1, <1>3, <1>4, <1>5 DEF HistPage, PageFields, HandleNames

\* Coming to the page starts the timer the browser remembers, once.
LEMMA MetricsStarted == ASSUME NEW h, TimerFits(h), KeptTyped(kept), KeptFits(h, kept)
                        PROVE  TimerFits(RenderHistory(h)) /\ KeptFits(RenderHistory(h), kept)
<1> DEFINE g == InitHistoryMetrics(h)
<1>1. TimerFits(g) /\ KeptFits(g, kept)
  <2>1. CASE h.opened
    BY <2>1 DEF InitHistoryMetrics
  <2>2. CASE ~h.opened
    <3> DEFINE s == [h EXCEPT !.opened = TRUE, !.on = kept.on, !.auto = kept.auto]
    <3>1. /\ HistPage(s) /\ s.running = h.running /\ s.handle = h.handle
          /\ s.opened /\ s.on = kept.on /\ s.auto = kept.auto
      BY DEF TimerFits, HistPage, PageFields, KeptTyped
    <3>2. h.handle = 0
      BY <2>2 DEF TimerFits, HandleFits, HistPage
    <3>3. HandleNames(s)
      BY <3>1 DEF TimerFits, HandleNames
    <3>4. g = IF s.auto.on THEN StartAutoRefresh(s) ELSE s
      BY <2>2 DEF InitHistoryMetrics
    <3> HIDE DEF s, g
    <3>5. CASE s.auto.on
      BY <3>1, <3>3, <3>4, <3>5, AutoStarted DEF TimerFits, HandleFits, KeptFits
    <3>6. CASE ~s.auto.on
      BY <3>1, <3>2, <3>3, <3>4, <3>6 DEF TimerFits, HandleFits, KeptFits
    <3>7. QED
      BY <3>5, <3>6
  <2>3. QED
    BY <2>1, <2>2
<1> HIDE DEF g
<1>2. SameTimer(PopulateHistoryServers(g), g)
  BY <1>1 DEF PopulateHistoryServers, SameTimer, TimerFits, HistPage, PageFields
<1>3. QED
  BY <1>1, <1>2, SameTimerFits DEF RenderHistory, g

\* A step that leaves the timer, its settings and the browser alone.
LEMMA TimerAlone == ASSUME HistInv, SameTimer(hist', hist), UNCHANGED kept
                    PROVE  HistInv'
  BY SameTimerFits DEF HistInv, TimerFits, HistPage, HandleNames, HandleFits, KeptTyped, KeptFits

\* The limits are kept apart from the timer.
LEMMA LimitsAlone == ASSUME HistInv, SameTimer(hist', hist), NEW l, kept' = [kept EXCEPT !.limits = l]
                     PROVE  HistInv'
<1>1. KeptTyped(kept') /\ kept'.on = kept.on /\ kept'.auto = kept.auto
  BY DEF HistInv, KeptTyped, KeptFields
<1>2. KeptFits(hist, kept')
  BY <1>1 DEF HistInv, KeptFits
<1>3. TimerFits(hist') /\ KeptFits(hist', kept')
  BY <1>2, SameTimerFits DEF HistInv, TimerFits, HistPage, HandleNames, HandleFits, KeptFits, SameTimer
<1>4. QED
  BY <1>1, <1>3 DEF HistInv, TimerFits, HistPage, HandleNames, HandleFits, KeptTyped, KeptFits

\* A step to a page whose timer is that of what the browser now keeps.
LEMMA TimerKept == ASSUME TimerFits(hist'), KeptTyped(kept'), KeptFits(hist', kept')
                   PROVE  HistInv'
  BY DEF HistInv, TimerFits, HistPage, HandleNames, HandleFits, KeptTyped, KeptFits

\* A page that was just loaded has no timer.
LEMMA BlankFits == ASSUME NEW limits, NEW k
                   PROVE  TimerFits(BlankPage(limits)) /\ KeptFits(BlankPage(limits), k)
<1>1. 60 \in HistIntervals /\ 0 \notin HistIntervals
  BY HistoryAssumption
<1> DEFINE h == BlankPage(limits)
<1>2. /\ h.opened = FALSE /\ h.on = [s \in Switches |-> FALSE] /\ h.auto = [on |-> FALSE, every |-> 60]
      /\ h.running = [i \in HistIntervals |-> 0] /\ h.handle = 0 /\ PageFields \subseteq DOMAIN h
  BY DEF BlankPage, PageFields
<1> HIDE DEF h
<1>3. HistPage(h)
  <2>1. h.on \in [Switches -> BOOLEAN]
    BY <1>2
  <2>2. h.auto \in Autos
    BY <1>1, <1>2 DEF Autos
  <2>3. QED
    BY <1>2, <2>1, <2>2 DEF HistPage
<1>4. HandleNames(h)
  BY <1>1, <1>2 DEF HandleNames
<1>5. QED
  BY <1>2, <1>3, <1>4 DEF TimerFits, HandleFits, KeptFits, h

----------------------------------------------------------------------------
(* The invariant *)

\* The page starts with no timer, and with what the browser keeps switched off.
LEMMA HistInvInit == HistoryInit => HistInv
<1> SUFFICES ASSUME HistoryInit PROVE HistInv
  OBVIOUS
<1>1. TimerFits(hist) /\ KeptFits(hist, kept)
  BY BlankFits DEF HistoryInit
<1>2. 60 \in HistIntervals
  BY HistoryAssumption
<1>3. KeptTyped(kept)
  BY <1>2 DEF HistoryInit, KeptTyped, KeptFields, Autos
<1>4. QED
  BY <1>1, <1>3 DEF HistInv

\* Switching the refresh on or off, and changing its interval.
LEMMA RefreshChosen == ASSUME HistInv, NEW a \in Autos, hist.opened,
                              LET h == [hist EXCEPT !.auto = a] IN
                                hist' = IF a.on THEN StartAutoRefresh(h) ELSE StopAutoRefresh(h),
                              kept' = [kept EXCEPT !.auto = a]
                       PROVE  HistInv'
<1> DEFINE h == [hist EXCEPT !.auto = a]
<1>1. /\ HistPage(h) /\ HandleNames(h) /\ h.opened /\ h.on = hist.on /\ h.auto = a
  BY DEF HistInv, TimerFits, HistPage, PageFields, HandleNames
<1>2. hist' = IF a.on THEN StartAutoRefresh(h) ELSE StopAutoRefresh(h)
  OBVIOUS
<1>3. KeptTyped(kept') /\ kept'.auto = a /\ kept'.on = hist.on
  BY DEF HistInv, KeptTyped, KeptFields, KeptFits
<1> HIDE DEF h
<1>4. TimerFits(hist') /\ KeptFits(hist', kept')
  <2>1. CASE a.on
    BY <1>1, <1>2, <1>3, <2>1, AutoStarted DEF TimerFits, HandleFits, KeptFits
  <2>2. CASE ~a.on
    BY <1>1, <1>2, <1>3, <2>2, AutoStopped DEF TimerFits, HandleFits, KeptFits
  <2>3. QED
    BY <2>1, <2>2
<1>5. QED
  BY <1>3, <1>4, TimerKept

\* Every step keeps the invariant.
LEMMA HistInvStep == HistInv /\ [HistoryNext]_histVars => HistInv'
<1> SUFFICES ASSUME HistInv, [HistoryNext]_histVars PROVE HistInv'
  OBVIOUS
<1> USE DEF PageFields, SameTimer
<1>1. PageFields \subseteq DOMAIN hist /\ KeptFields \subseteq DOMAIN kept
  BY DEF HistInv, TimerFits, HistPage, KeptTyped
<1>2. CASE OpenHistory
  <2>1. hist' = [hist EXCEPT !.preloading = TRUE] \/ hist' = RenderHistory(hist)
    BY <1>2 DEF OpenHistory, HistClick
  <2>2. TimerFits(RenderHistory(hist)) /\ KeptFits(RenderHistory(hist), kept)
    BY MetricsStarted DEF HistInv
  <2>3. UNCHANGED kept
    BY <1>2 DEF OpenHistory, OnlyPage
  <2>4. CASE hist' = [hist EXCEPT !.preloading = TRUE]
    BY <1>1, <2>3, <2>4, TimerAlone
  <2>5. CASE hist' = RenderHistory(hist)
    BY <2>2, <2>3, <2>5, TimerKept DEF HistInv
  <2>6. QED
    BY <2>1, <2>4, <2>5
<1>3. ASSUME NEW c \in SUBSET HistServers, CachesChange(c) PROVE HistInv'
  BY <1>1, <1>3, TimerAlone DEF CachesChange, HistClick, OnlyPage
<1>4. ASSUME NEW s \in HistServers, SelectServer(s) PROVE HistInv'
  BY <1>1, <1>4, TimerAlone DEF SelectServer, HistClick, OnlyPage
<1>5. ASSUME NEW d \in HistDurations, SelectDuration(d) PROVE HistInv'
  BY <1>1, <1>5, TimerAlone DEF SelectDuration, HistClick, OnlyPage
<1>6. ASSUME NEW f \in {"", "x"}, SearchLogs(f) PROVE HistInv'
  <2> DEFINE h == [hist EXCEPT !.filter = f]
  <2>1. SameTimer(h, hist) /\ SameTimer(DisplayFilteredLogs(h), hist)
    BY <1>1 DEF DisplayFilteredLogs
  <2>2. (hist' = h \/ hist' = DisplayFilteredLogs(h)) /\ UNCHANGED kept
    BY <1>6 DEF SearchLogs, HistClick, OnlyPage
  <2> HIDE DEF h
  <2>3. QED
    BY <2>1, <2>2, TimerAlone
<1>7. ASSUME NEW s \in HistSwitches, Switch(s) PROVE HistInv'
  <2> DEFINE v == ~hist.on[s]
  <2>1. /\ hist.opened /\ hist' = [hist EXCEPT !.on[s] = v]
        /\ kept' = [kept EXCEPT !.on[s] = [hist EXCEPT !.on[s] = v].on[s]]
    BY <1>7 DEF Switch, HistClick
  <2>2. s \in Switches /\ hist.on \in [Switches -> BOOLEAN] /\ kept.on = hist.on
    BY <2>1, HistoryAssumption DEF HistInv, TimerFits, HistPage, KeptFits
  <2>3. v \in BOOLEAN
    OBVIOUS
  <2> HIDE DEF v
  <2>4. [hist EXCEPT !.on[s] = v].on[s] = v
    BY <1>1, <2>2
  <2>5. kept' = [kept EXCEPT !.on[s] = v]
    BY <2>1, <2>4
  <2>6. KeptTyped(kept')
    BY <2>2, <2>3, <2>5 DEF HistInv, KeptTyped, KeptFields
  <2>7. TimerFits(hist')
    BY <2>1, <2>2, <2>3 DEF HistInv, TimerFits, HistPage, HandleNames, HandleFits
  <2>8. KeptFits(hist', kept')
    BY <1>1, <2>1, <2>2, <2>5 DEF HistInv, KeptFits, KeptFields
  <2>9. QED
    BY <2>6, <2>7, <2>8, TimerKept
<1>8. CASE ToggleAutoRefresh
  <2> DEFINE a == [hist.auto EXCEPT !.on = ~@]
  <2>1. a \in Autos
    BY DEF HistInv, TimerFits, HistPage, Autos
  <2>2. [hist EXCEPT !.auto.on = ~@] = [hist EXCEPT !.auto = a]
    OBVIOUS
  <2>3. [hist EXCEPT !.auto = a].auto = a
    BY <1>1
  <2>4. /\ hist.opened /\ kept' = [kept EXCEPT !.auto = a]
        /\ hist' = IF a.on THEN StartAutoRefresh([hist EXCEPT !.auto = a]) ELSE StopAutoRefresh([hist EXCEPT !.auto = a])
    BY <1>8, <2>2, <2>3 DEF ToggleAutoRefresh, HistClick
  <2> HIDE DEF a
  <2>5. QED
    BY <2>1, <2>4, RefreshChosen
<1>9. ASSUME NEW i \in HistIntervals, SelectInterval(i) PROVE HistInv'
  <2> DEFINE a == [hist.auto EXCEPT !.every = i]
             h == [hist EXCEPT !.auto = a]
  <2>1. a \in Autos /\ a.on
    BY <1>9 DEF HistInv, TimerFits, HistPage, Autos, SelectInterval
  <2>2. [hist EXCEPT !.auto.every = i] = h
    OBVIOUS
  <2>3. h.auto = a /\ HistPage(h) /\ HandleNames(h)
    BY <1>1, <2>1 DEF HistInv, TimerFits, HistPage, HandleNames
  <2>4. /\ hist.opened /\ kept' = [kept EXCEPT !.auto = a]
        /\ hist' = StartAutoRefresh(StopAutoRefresh(h))
    BY <1>9, <2>2, <2>3 DEF SelectInterval, HistClick
  <2>5. StopAutoRefresh(StopAutoRefresh(h)) = StopAutoRefresh(h)
    <3> DEFINE g == StopAutoRefresh(h)
    <3>1. g.handle = 0
      BY <2>3, AutoStopped
    <3> HIDE DEF g
    <3>2. StopAutoRefresh(g) = g
      BY <3>1 DEF StopAutoRefresh
    <3>3. QED
      BY <3>2 DEF g
  <2>6. StartAutoRefresh(StopAutoRefresh(h)) = StartAutoRefresh(h)
    BY <2>5 DEF StartAutoRefresh
  <2>7. hist' = IF a.on THEN StartAutoRefresh(h) ELSE StopAutoRefresh(h)
    BY <2>1, <2>4, <2>6
  <2> HIDE DEF a
  <2>8. QED
    BY <2>1, <2>4, <2>7, RefreshChosen
<1>10. ASSUME NEW i \in HistIntervals, RefreshTick(i) PROVE HistInv'
  BY <1>10, TimerAlone DEF RefreshTick
<1>11. CASE ShowThresholds
  BY <1>1, <1>11, TimerAlone DEF ShowThresholds, HistClick, OnlyPage
<1>12. CASE CloseThresholds
  BY <1>1, <1>12, TimerAlone DEF CloseThresholds, HistClick, OnlyPage
<1>13. ASSUME NEW typed, SaveThresholds(typed) PROVE HistInv'
  <2> DEFINE l == [c \in Limited |-> IF c \in DOMAIN typed /\ typed[c][1] <= typed[c][2] THEN typed[c] ELSE hist.limits[c]]
             h == [hist EXCEPT !.modal = FALSE, !.limits = l]
  <2>1. hist' = h /\ kept' = [kept EXCEPT !.limits = h.limits]
    BY <1>13 DEF SaveThresholds, HistClick
  <2> HIDE DEF l
  <2>2. SameTimer(h, hist)
    BY <1>1
  <2> HIDE DEF h
  <2>3. QED
    BY <2>1, <2>2, LimitsAlone
<1>14. CASE ResetThresholds
  BY <1>1, <1>14, LimitsAlone DEF ResetThresholds, HistClick
<1>15. ASSUME NEW field, NEW name, SelectSeries(field, name) PROVE HistInv'
  BY <1>15, TimerAlone DEF SelectSeries, HistClick
<1>16. CASE ToggleDashboardMode
  <2> DEFINE v == ~hist.tv
             b == hist.borders /\ hist.tv
  <2>1. hist' = [hist EXCEPT !.tv = v, !.borders = b] /\ UNCHANGED kept
    BY <1>16 DEF ToggleDashboardMode, HistClick, OnlyPage
  <2> HIDE DEF v, b
  <2>2. QED
    BY <1>1, <2>1, TimerAlone
<1>17. CASE GenerateSLAReport
  BY <1>1, <1>17, TimerAlone DEF GenerateSLAReport, HistClick, OnlyPage
<1>18. CASE CloseReport
  BY <1>1, <1>18, TimerAlone DEF CloseReport, HistClick, OnlyPage
<1>19. CASE Reload
  BY <1>19, BlankFits, TimerKept DEF Reload, HistInv
<1>20. ASSUME NEW r \in asked, HistAnswer(r) \/ HistFailed(r) PROVE HistInv'
  <2> USE DEF Answered
  <2>1. CASE PreloadAnswer(r)
    <3> DEFINE h == [hist EXCEPT !.cached = HistServers]
    <3>1. TimerFits(h) /\ KeptFits(h, kept)
      BY <1>1, SameTimerFits DEF HistInv
    <3>2. /\ TimerFits(RenderHistory(h)) /\ KeptFits(RenderHistory(h), kept)
          /\ TimerFits(RenderHistory(hist)) /\ KeptFits(RenderHistory(hist), kept)
      BY <3>1, MetricsStarted DEF HistInv
    <3>3. (hist' = RenderHistory(h) \/ hist' = RenderHistory(hist)) /\ UNCHANGED kept
      BY <2>1 DEF PreloadAnswer
    <3>4. QED
      BY <3>2, <3>3, TimerKept DEF HistInv
  <2>2. CASE EventsAnswer(r)
    BY <1>1, <2>2, TimerAlone DEF EventsAnswer
  <2>3. CASE MetricsAnswer(r)
    BY <1>1, <2>3, TimerAlone DEF MetricsAnswer
  <2>4. CASE HostLogsAnswer(r)
    <3> DEFINE h == [hist EXCEPT !.all = r.of, !.bar = Shown("host", r.of, "")]
               l == Shown("logs", h.all, h.filter)
    <3>1. (hist' = [hist EXCEPT !.logs = Shown("empty", r.of, "")] \/ hist' = [h EXCEPT !.logs = l]) /\ UNCHANGED kept
      BY <2>4 DEF HostLogsAnswer, DisplayFilteredLogs
    <3> HIDE DEF l
    <3>2. SameTimer([h EXCEPT !.logs = l], hist) /\ SameTimer([hist EXCEPT !.logs = Shown("empty", r.of, "")], hist)
      BY <1>1
    <3>3. QED
      BY <3>1, <3>2, TimerAlone
  <2>5. CASE ReportEvents(r)
    BY <2>5, TimerAlone DEF ReportEvents
  <2>6. CASE ReportAnswer(r)
    BY <1>1, <2>6, TimerAlone DEF ReportAnswer
  <2>7. CASE MetricsFailed(r)
    BY <2>7, TimerAlone DEF MetricsFailed
  <2>8. CASE HostLogsFailed(r)
    BY <1>1, <2>8, TimerAlone DEF HostLogsFailed
  <2>9. CASE ReportFailed(r)
    BY <1>1, <2>9, TimerAlone DEF ReportFailed
  <2>10. QED
    BY <1>20, <2>1, <2>2, <2>3, <2>4, <2>5, <2>6, <2>7, <2>8, <2>9 DEF HistAnswer, HistFailed
<1>21. CASE UNCHANGED histVars
  BY <1>21, TimerAlone DEF histVars
<1>22. QED
  BY <1>2, <1>3, <1>4, <1>5, <1>6, <1>7, <1>8, <1>9, <1>10, <1>11, <1>12, <1>13, <1>14, <1>15, <1>16,
     <1>17, <1>18, <1>19, <1>20, <1>21 DEF HistoryNext

\* In every behaviour of the history page, with or without fairness.
LEMMA HistAlways == HistoryInit /\ [][HistoryNext]_histVars => []HistInv
  BY HistInvInit, HistInvStep, PTL

\* What the handle, the choice and the browser's memory say together is what the
\* run checks.
LEMMA HistInvTimer == HistInv => OneRefreshTimer
<1> SUFFICES ASSUME HistInv PROVE OneRefreshTimer
  OBVIOUS
<1>1. 0 \notin HistIntervals
  BY HistoryAssumption
<1>2. /\ hist.running = [i \in HistIntervals |-> IF i = hist.handle THEN 1 ELSE 0]
      /\ hist.handle = IF hist.auto.on THEN hist.auto.every ELSE 0
      /\ KeptFits(hist, kept)
  BY DEF HistInv, TimerFits, HandleNames, HandleFits
<1>3. ASSUME NEW i \in HistIntervals PROVE (i = hist.handle) = (hist.auto.on /\ i = hist.auto.every)
  BY <1>1, <1>2
<1>4. QED
  BY <1>2, <1>3 DEF KeptFits, OneRefreshTimer

\* Whatever the user does on the history page, however often it is opened and the
\* browser loads it anew, at most one timer refreshes it, at the interval chosen,
\* and none while the refresh is off (startAutoRefresh, stopAutoRefresh).
THEOREM OneHistoryTimer == HistorySpec => []OneRefreshTimer
  BY HistAlways, HistInvTimer, PTL DEF HistorySpec

----------------------------------------------------------------------------
(* The types of the page *)

AnyServer == HistServers \cup {NoServer}
Limits    == [Limited -> Nat \X Nat]
LogStates == [state : {"blank", "loading", "logs", "empty", "error"}, of : AnyServer, filter : {"", "x"}]
BarStates == [state : {"blank", "events", "host", "error"}, of : AnyServer, filter : {""}]
HistPages == [opened : BOOLEAN, preloading : BOOLEAN, cached : SUBSET HistServers, offered : SUBSET HistServers,
              server : AnyServer, duration : HistDurations, on : [Switches -> BOOLEAN], auto : Autos,
              running : [HistIntervals -> Nat], handle : HistIntervals \cup {0}, limits : Limits, modal : BOOLEAN,
              logs : LogStates, all : AnyServer, filter : {"", "x"}, bar : BarStates, tv : BOOLEAN, borders : BOOLEAN,
              report : {"hidden", "working", "advice", "error"}]
KeptTypes == [on : [Switches -> BOOLEAN], auto : Autos, limits : Limits]
\* The requests the page sends.
HistAsked(r) == \/ \E what \in {"preload", "events", "report", "ask"} : r = Ask(what, NoServer, "")
                \/ \E s \in HistServers : r = Ask("logs", s, "") \/ \E d \in HistDurations : r = Ask("metrics", s, d)
Labels    == {"hidden", "stable", "full", "days", "weeks", "months", "over a year"}
PlotFields == {"charts", "of", "chosen", "label"}
PlotTyped(p) == /\ PlotFields \subseteq DOMAIN p
                /\ p.of \in (HistServers \X HistDurations) \cup {<<NoServer, "">>} /\ p.label \in Labels
HistTyped == /\ hist \in HistPages /\ kept \in KeptTypes /\ PlotTyped(plots) /\ \A r \in asked : HistAsked(r)
             /\ histClicks \in 0..HistClicks /\ histFailures \in 0..HistFailures

\* The thresholds the page starts with.
LEMMA DefaultTyped == DefaultThresholds \in Limits
<1>1. ASSUME NEW c \in Limited PROVE DefaultThresholds[c] \in Nat \X Nat
  BY DEF DefaultThresholds, Limited
<1>2. QED
  BY <1>1 DEF DefaultThresholds, Limits

\* A new page, with the thresholds the browser kept.
LEMMA BlankTyped == ASSUME NEW limits \in Limits PROVE BlankPage(limits) \in HistPages /\ PlotTyped(BlankPlots)
<1>1. NoServer \in AnyServer /\ "15m" \in HistDurations /\ 60 \in HistIntervals
  BY HistoryAssumption DEF AnyServer
<1>2. [on |-> FALSE, every |-> 60] \in Autos
  BY <1>1 DEF Autos
<1>3. Shown("blank", NoServer, "") \in LogStates /\ Shown("blank", NoServer, "") \in BarStates
  BY <1>1 DEF Shown, LogStates, BarStates
<1>4. [s \in Switches |-> FALSE] \in [Switches -> BOOLEAN] /\ [i \in HistIntervals |-> 0] \in [HistIntervals -> Nat]
  OBVIOUS
<1>5. QED
  BY <1>1, <1>2, <1>3, <1>4 DEF BlankPage, HistPages, BlankPlots, PlotTyped, PlotFields, Labels

\* loadHistoryMetrics asks for the metrics of a host there is, or for nothing.
LEMMA LoadsAsked == ASSUME NEW h \in HistPages PROVE \A r \in LoadHistoryMetrics(h) : HistAsked(r)
<1>1. h.server \in AnyServer /\ h.duration \in HistDurations
  BY DEF HistPages
<1>2. CASE h.server = NoServer
  BY <1>2 DEF LoadHistoryMetrics
<1>3. CASE h.server # NoServer
  <2>1. h.server \in HistServers
    BY <1>1, <1>3 DEF AnyServer
  <2>2. HistAsked(Ask("metrics", h.server, h.duration))
    BY <1>1, <2>1 DEF HistAsked
  <2>3. QED
    BY <1>3, <2>2 DEF LoadHistoryMetrics
<1>4. QED
  BY <1>2, <1>3

\* What is asked for has the type of a request.
LEMMA FollowsAsked == ASSUME NEW r, HistAsked(r)
                      PROVE  /\ r.of \in AnyServer
                             /\ r.what = "metrics" => r.of \in HistServers /\ r.range \in HistDurations
                             /\ r.what = "logs" => r.of \in HistServers
                             /\ \A q \in Follows(r) : HistAsked(q) /\ q.what # "metrics"
<1>0. NoServer \in AnyServer /\ HistServers \subseteq AnyServer
  BY DEF AnyServer
<1>1. CASE \E what \in {"preload", "events", "report", "ask"} : r = Ask(what, NoServer, "")
  <2>1. PICK what \in {"preload", "events", "report", "ask"} : r = Ask(what, NoServer, "")
    BY <1>1
  <2>2. r.what = what /\ r.of = NoServer
    BY <2>1 DEF Ask
  <2>3. Follows(r) \subseteq {Ask("events", NoServer, ""), Ask("ask", NoServer, "")}
    BY <2>2 DEF Follows
  <2>4. HistAsked(Ask("events", NoServer, "")) /\ HistAsked(Ask("ask", NoServer, ""))
    BY DEF HistAsked
  <2>a. Ask("events", NoServer, "").what # "metrics" /\ Ask("ask", NoServer, "").what # "metrics"
    BY DEF Ask
  <2>5. QED
    BY <1>0, <2>2, <2>3, <2>4, <2>a
<1>2. CASE \E s \in HistServers, d \in HistDurations : r = Ask("metrics", s, d)
  <2>1. PICK s \in HistServers, d \in HistDurations : r = Ask("metrics", s, d)
    BY <1>2
  <2>2. r.what = "metrics" /\ r.of = s /\ r.range = d
    BY <2>1 DEF Ask
  <2>3. Follows(r) = {Ask("logs", s, "")}
    BY <2>2 DEF Follows
  <2>4. HistAsked(Ask("logs", s, "")) /\ Ask("logs", s, "").what # "metrics"
    BY DEF HistAsked, Ask
  <2>5. QED
    BY <1>0, <2>2, <2>3, <2>4
<1>3. CASE \E s \in HistServers : r = Ask("logs", s, "")
  <2>1. PICK s \in HistServers : r = Ask("logs", s, "")
    BY <1>3
  <2>2. r.what = "logs" /\ r.of = s
    BY <2>1 DEF Ask
  <2>3. Follows(r) = {}
    BY <2>2 DEF Follows
  <2>4. QED
    BY <1>0, <2>2, <2>3
<1>4. QED
  BY <1>1, <1>2, <1>3 DEF HistAsked

\* stopAutoRefresh.
LEMMA StopTyped == ASSUME NEW h \in HistPages, HandleNames(h) PROVE StopAutoRefresh(h) \in HistPages
<1>1. 0 \notin HistIntervals
  BY HistoryAssumption
<1>2. CASE h.handle = 0
  BY <1>2 DEF StopAutoRefresh
<1>3. CASE h.handle # 0
  <2> DEFINE r == [h.running EXCEPT ![h.handle] = @ - 1]
  <2>1. h.handle \in HistIntervals /\ h.running[h.handle] = 1 /\ h.running \in [HistIntervals -> Nat]
    BY <1>3 DEF HandleNames, HistPages
  <2>2. r \in [HistIntervals -> Nat]
    BY <2>1
  <2>3. StopAutoRefresh(h) = [h EXCEPT !.running = r, !.handle = 0]
    BY <1>3 DEF StopAutoRefresh
  <2> HIDE DEF r
  <2>4. QED
    BY <2>2, <2>3 DEF HistPages
<1>4. QED
  BY <1>2, <1>3

\* startAutoRefresh.
LEMMA StartTyped == ASSUME NEW h \in HistPages, HandleNames(h) PROVE StartAutoRefresh(h) \in HistPages
<1> DEFINE s == StopAutoRefresh(h)
           r == [s.running EXCEPT ![s.auto.every] = @ + 1]
<1>1. s \in HistPages
  BY StopTyped
<1>2. StartAutoRefresh(h) = [s EXCEPT !.running = r, !.handle = s.auto.every]
  BY DEF StartAutoRefresh
<1> HIDE DEF s
<1>3. s.running \in [HistIntervals -> Nat] /\ s.auto.every \in HistIntervals
  BY <1>1 DEF HistPages, Autos
<1>4. r \in [HistIntervals -> Nat]
  BY <1>3
<1> HIDE DEF r
<1>5. QED
  BY <1>1, <1>2, <1>3, <1>4 DEF HistPages

\* renderHistory.
LEMMA RenderTyped == ASSUME NEW h \in HistPages, HandleNames(h), kept \in KeptTypes
                     PROVE  /\ RenderHistory(h) \in HistPages /\ RenderHistory(h).opened
                            /\ h.opened => RenderHistory(h).on = h.on
<1> DEFINE g == InitHistoryMetrics(h)
           s == [h EXCEPT !.opened = TRUE, !.on = kept.on, !.auto = kept.auto]
<1>1. s \in HistPages /\ s.opened
  BY DEF HistPages, KeptTypes
<1>2. HandleNames(s)
  BY DEF HandleNames, HistPages
<1>3. g = IF h.opened THEN h ELSE IF s.auto.on THEN StartAutoRefresh(s) ELSE s
  BY DEF InitHistoryMetrics
<1> HIDE DEF s
<1>4. StartAutoRefresh(s) \in HistPages /\ StartAutoRefresh(s).opened
  <2>1. HistPage(s)
    BY <1>1 DEF HistPage, HistPages, PageFields
  <2>2. QED
    BY <1>1, <1>2, <2>1, StartTyped, AutoStarted
<1>5. g \in HistPages /\ g.opened /\ (h.opened => g.on = h.on)
  BY <1>1, <1>3, <1>4
<1> HIDE DEF g
<1> DEFINE v == IF g.server = NoServer \/ g.server \in g.cached THEN g.server
                ELSE IF g.cached = {} THEN NoServer ELSE CHOOSE x \in g.cached : TRUE
<1>6. v \in AnyServer
  <2>1. g.server \in AnyServer /\ g.cached \subseteq HistServers
    BY <1>5 DEF HistPages
  <2>2. g.cached # {} => (CHOOSE x \in g.cached : TRUE) \in g.cached
    OBVIOUS
  <2>3. QED
    BY <2>1, <2>2 DEF AnyServer
<1>7. RenderHistory(h) = [g EXCEPT !.offered = g.cached, !.server = v]
  BY DEF RenderHistory, PopulateHistoryServers, g
<1> HIDE DEF v
<1>8. QED
  BY <1>5, <1>6, <1>7 DEF HistPages

\* The label of the forecast is one of those there are.
LEMMA LabelTyped == ASSUME NEW disk, NEW forecast, NEW samples, NEW label \in Labels
                    PROVE  ForecastLabel(disk, forecast, samples, label) \in Labels
<1>1. \A data, capacities : Exhaustion(data, capacities, samples) \in Labels
  <2> SUFFICES ASSUME NEW data, NEW capacities PROVE Exhaustion(data, capacities, samples) \in Labels
    OBVIOUS
  <2> DEFINE l    == CalculateLinearRegression(data)
             full == Max(ToSet(capacities) \cup {0})
             run  == l.scale \div l.n
             left == full * l.scale - l.base - l.n * l.rise * (Len(data) - 1)
             span == samples[Len(samples)].at - samples[1].at
             Within(days) == left * span < days * l.n * l.rise * (Len(samples) - 1)
             never == l.rise <= 0 \/ run = 0 \/ full = 0
             now   == left <= 0
             soon  == Within(7)
             later == Within(30)
             far   == Within(365)
  <2>1. Exhaustion(data, capacities, samples) =
          IF never THEN "stable" ELSE IF now THEN "full"
          ELSE IF soon THEN "days" ELSE IF later THEN "weeks" ELSE IF far THEN "months" ELSE "over a year"
    BY Zenon DEF Exhaustion
  <2> HIDE DEF never, now, soon, later, far
  <2>2. QED
    BY <2>1 DEF Labels
<1>2. QED
  BY <1>1 DEF ForecastLabel, Labels
----------------------------------------------------------------------------
(* The charts and what lies over them *)

\* All charts are there, with the overlays of what they show, or none is.
ChartsFit(charts, on) == AllCurrent(charts, on) \/ NoneMade(charts)
\* Nothing is drawn, asked for or set before the first visit.
HistSound == /\ HistTyped /\ ChartsFit(plots.charts, hist.on)
             /\ ~hist.opened => NoneMade(plots.charts) /\ ~hist.modal /\ \A r \in asked : r.what # "metrics"

\* The overlays depend on two of the switches only.
LEMMA FitStays == ASSUME NEW charts, NEW on, NEW now, ChartsFit(charts, on), now.anomalies = on.anomalies, now.forecast = on.forecast
                  PROVE  ChartsFit(charts, now)
  BY DEF ChartsFit, AllCurrent, Current

\* applyAnomalies and applyForecast bring what lies over the charts up to date.
LEMMA AnomaliesSwitched == ASSUME NEW charts, NEW on, NEW now, ChartsFit(charts, on), now.anomalies \in BOOLEAN, now.forecast = on.forecast
                           PROVE  ChartsFit(ApplyAnomalies(charts, now.anomalies), now)
<1>1. CASE NoneMade(charts)
  <2>1. ~Made(charts["cpu"])
    BY <1>1 DEF NoneMade, Unmade, Made, Charts
  <2>2. QED
    BY <1>1, <2>1 DEF ApplyAnomalies, ChartsFit
<1>2. CASE AllCurrent(charts, on)
  <2>1. AllMade(charts) /\ \A c \in Charts : Projected(charts[c], now.forecast)
    BY <1>2 DEF AllCurrent, Current, AllMade
  <2>2. LET r == ApplyAnomalies(charts, now.anomalies) IN
          /\ r = [c \in Charts |-> r[c]] /\ AllMade(r)
          /\ \A c \in Charts : Marked(r[c], now.anomalies) /\ Projected(r[c], now.forecast)
    BY <2>1, AllMarked
  <2>3. QED
    BY <2>2 DEF AllMade, AllCurrent, Current, ChartsFit
<1>3. QED
  BY <1>1, <1>2 DEF ChartsFit

\* So does switching the forecasts.
LEMMA ForecastSwitched == ASSUME NEW charts, NEW on, NEW now, ChartsFit(charts, on), now.forecast \in BOOLEAN,
                                 now.anomalies = on.anomalies, now.anomalies \in BOOLEAN
                          PROVE  ChartsFit([charts EXCEPT !["disk"] = ApplyForecast(charts["disk"], now.forecast)], now)
<1>1. CASE NoneMade(charts)
  <2>1. ~Made(charts["disk"])
    BY <1>1 DEF NoneMade, Unmade, Made, Charts
  <2>2. ApplyForecast(charts["disk"], now.forecast) = charts["disk"]
    BY <2>1 DEF ApplyForecast
  <2>3. [charts EXCEPT !["disk"] = charts["disk"]] = charts
    BY <1>1 DEF NoneMade
  <2>4. QED
    BY <1>1, <2>2, <2>3 DEF ChartsFit
<1>2. CASE AllCurrent(charts, on)
  <2>1. /\ charts = [c \in Charts |-> charts[c]] /\ AllMade(charts)
        /\ \A c \in Charts : Marked(charts[c], now.anomalies)
    BY <1>2 DEF AllCurrent, Current, AllMade
  <2>2. QED
    BY <2>1, AllProjected DEF ChartsFit
<1>3. QED
  BY <1>1, <1>2 DEF ChartsFit

\* A redrawn page: its charts are current and its label is one there is.
LEMMA RedrawnFits == ASSUME NEW p, PlotTyped(p), NEW h \in HistPages, ChartsFit(p.charts, h.on), NEW memory
                     PROVE  PlotTyped(Redrawn(p, h, memory)) /\ ChartsFit(Redrawn(p, h, memory).charts, h.on)
<1> DEFINE bands   == [c \in Charts |-> IF c \in Limited THEN h.limits[c] ELSE <<>>]
           charts  == UpdateCharts(p.charts, Samples(p.of), p.chosen, memory, h.on, bands)
           label   == ForecastLabel(charts["disk"], h.on.forecast, Samples(p.of), p.label)
<1>1. \A c \in Charts : Drawable(c, p.charts[c])
  BY DEF ChartsFit, AllCurrent, Current, NoneMade, Drawable
<1>2. h.on.anomalies \in BOOLEAN /\ h.on.forecast \in BOOLEAN
  BY DEF HistPages, Switches
<1> HIDE DEF bands
<1>3. AllCurrent(charts, h.on)
  BY <1>1, <1>2, UpdatedCurrent
<1>4. label \in Labels
  BY LabelTyped DEF PlotTyped
<1>5. Redrawn(p, h, memory) = [p EXCEPT !.charts = charts, !.label = label]
  BY DEF Redrawn, bands
<1> HIDE DEF charts, label
<1>6. QED
  BY <1>3, <1>4, <1>5 DEF PlotTyped, PlotFields, ChartsFit

----------------------------------------------------------------------------
(* The invariant of the charts *)

\* Nothing is drawn and nothing asked for on a new page.
LEMMA SoundInit == HistoryInit => HistSound
<1> SUFFICES ASSUME HistoryInit PROVE HistSound
  OBVIOUS
<1> USE DEF HistoryInit
<1>1. DefaultThresholds \in Limits
  BY DefaultTyped
<1>2. hist \in HistPages /\ PlotTyped(plots)
  BY <1>1, BlankTyped
<1>3. kept \in KeptTypes
  <2>1. [on |-> FALSE, every |-> 60] \in Autos
    BY HistoryAssumption DEF Autos
  <2>2. QED
    BY <1>1, <2>1 DEF KeptTypes
<1>4. NoneMade(plots.charts)
  BY DEF BlankPlots, NoneMade, Unmade, NoChart
<1>5. ~hist.opened /\ ~hist.modal
  BY DEF BlankPage
<1>6. histClicks \in 0..HistClicks /\ histFailures \in 0..HistFailures
  BY HistoryAssumption
<1>7. QED
  BY <1>2, <1>3, <1>4, <1>5, <1>6 DEF HistSound, HistTyped, ChartsFit

\* A step that leaves the charts and the switches.
LEMMA SoundStill == ASSUME HistSound, hist' \in HistPages, kept' \in KeptTypes, UNCHANGED plots,
                           hist'.on = hist.on, hist.opened => hist'.opened, hist'.modal => hist'.opened,
                           \A r \in asked' : r \in asked \/ (HistAsked(r) /\ (r.what = "metrics" => hist'.opened)),
                           histClicks' \in 0..HistClicks, histFailures' \in 0..HistFailures
                    PROVE  HistSound'
<1>1. HistTyped'
  BY DEF HistSound, HistTyped
<1>2. ChartsFit(plots'.charts, hist'.on)
  BY DEF HistSound
<1>3. ~hist'.opened => NoneMade(plots'.charts) /\ ~hist'.modal /\ \A r \in asked' : r.what # "metrics"
  BY DEF HistSound
<1>4. QED
  BY <1>1, <1>2, <1>3 DEF HistSound

\* A click is counted.
LEMMA ClickCounted == ASSUME HistTyped, NEW h, NEW sent, HistClick(h, sent)
                      PROVE  histClicks' \in 0..HistClicks /\ histFailures' \in 0..HistFailures
  BY HistoryAssumption DEF HistTyped, HistClick

\* What a user does without touching a switch.
LEMMA ClickedSound == ASSUME HistSound, NEW h \in HistPages, NEW sent, HistClick(h, sent), kept' \in KeptTypes, UNCHANGED plots,
                             h.on = hist.on, hist.opened => h.opened, h.modal => h.opened,
                             \A r \in sent : HistAsked(r) /\ (r.what = "metrics" => h.opened)
                      PROVE  HistSound'
<1>1. hist' = h /\ asked' = asked \cup sent
  BY DEF HistClick
<1>2. histClicks' \in 0..HistClicks /\ histFailures' \in 0..HistFailures
  BY ClickCounted DEF HistSound
<1>3. QED
  BY <1>1, <1>2, SoundStill

\* An answer that draws nothing, and what is asked for after it.
LEMMA AnsweredSound == ASSUME HistSound, NEW r \in asked, NEW h \in HistPages, NEW sent \in {{}, Follows(r)}, Answered(r, h, sent),
                              UNCHANGED plots, h.on = hist.on, hist.opened => h.opened, h.modal => h.opened,
                              Fine \/ Broken
                       PROVE  HistSound'
<1>1. hist' = h /\ asked' = (asked \ {r}) \cup sent /\ UNCHANGED <<kept, histClicks>>
  BY DEF Answered
<1>2. \A q \in sent : HistAsked(q) /\ q.what # "metrics"
  <2>1. HistAsked(r)
    BY DEF HistSound, HistTyped
  <2>2. QED
    BY <2>1, FollowsAsked
<1>3. kept' \in KeptTypes /\ histClicks' \in 0..HistClicks
  BY <1>1 DEF HistSound, HistTyped
<1>4. histFailures' \in 0..HistFailures
  BY HistoryAssumption DEF HistSound, HistTyped, Fine, Broken
<1>5. QED
  BY <1>1, <1>2, <1>3, <1>4, SoundStill

\* Every step keeps the invariant.
LEMMA SoundStep == HistInv /\ HistSound /\ [HistoryNext]_histVars => HistSound'
<1> SUFFICES ASSUME HistInv, HistSound, [HistoryNext]_histVars PROVE HistSound'
  OBVIOUS
<1>1. /\ hist \in HistPages /\ kept \in KeptTypes /\ PlotTyped(plots)
      /\ histClicks \in 0..HistClicks /\ histFailures \in 0..HistFailures
  BY DEF HistSound, HistTyped
<1>2. HandleNames(hist) /\ HistPage(hist)
  BY DEF HistInv, TimerFits
<1>3. hist.modal => hist.opened
  BY DEF HistSound
<1>4. ASSUME NEW what \in {"preload", "events", "report"}
      PROVE  \A r \in {Ask(what, NoServer, "")} : HistAsked(r) /\ r.what # "metrics"
  <2>1. HistAsked(Ask(what, NoServer, ""))
    BY DEF HistAsked
  <2>2. Ask(what, NoServer, "").what # "metrics"
    BY DEF Ask
  <2>3. QED
    BY <2>1, <2>2
<1>5. ASSUME NEW h \in HistPages, h.opened
      PROVE  \A r \in LoadHistoryMetrics(h) : HistAsked(r) /\ (r.what = "metrics" => h.opened)
  BY <1>5, LoadsAsked
<1>6. RenderHistory(hist) \in HistPages /\ RenderHistory(hist).opened
  BY <1>1, <1>2, RenderTyped
\* The first visit takes over the switches, and no chart is there yet.
<1>7. ASSUME NEW h \in HistPages, h.on = hist.on, h.opened = hist.opened, HandleNames(h), UNCHANGED <<kept, plots>>,
             hist' = RenderHistory(h), NEW sent, asked' \subseteq asked \cup sent,
             \A r \in sent : HistAsked(r) /\ r.what # "metrics",
             histClicks' \in 0..HistClicks, histFailures' \in 0..HistFailures
      PROVE  HistSound'
  <2>1. hist' \in HistPages /\ hist'.opened /\ (hist.opened => hist'.on = hist.on)
    BY <1>1, <1>7, RenderTyped
  <2>2. HistTyped'
    BY <1>1, <1>7, <2>1 DEF HistSound, HistTyped
  <2>3. ChartsFit(plots'.charts, hist'.on)
    <3>1. CASE hist.opened
      BY <1>7, <2>1, <3>1 DEF HistSound
    <3>2. CASE ~hist.opened
      BY <1>7, <3>2 DEF HistSound, ChartsFit
    <3>3. QED
      BY <3>1, <3>2
  <2>4. QED
    BY <2>1, <2>2, <2>3 DEF HistSound
<1>8. CASE OpenHistory
  <2>1. UNCHANGED <<kept, plots>>
    BY <1>8 DEF OpenHistory, OnlyPage
  <2>2. CASE HistClick([hist EXCEPT !.preloading = TRUE], {Ask("preload", NoServer, "")})
    <3> DEFINE h == [hist EXCEPT !.preloading = TRUE]
    <3>1. h \in HistPages /\ h.on = hist.on /\ h.opened = hist.opened /\ h.modal = hist.modal
      BY <1>1 DEF HistPages
    <3> DEFINE sent == {Ask("preload", NoServer, "")}
    <3>2. HistClick(h, sent)
      BY <2>2
    <3> HIDE DEF h
    <3>3. \A r \in sent : HistAsked(r) /\ r.what # "metrics"
      BY <1>4
    <3> HIDE DEF sent
    <3>4. QED
      BY <1>1, <1>3, <2>1, <3>1, <3>2, <3>3, ClickedSound
  <2>3. CASE HistClick(RenderHistory(hist), {Ask("events", NoServer, "")})
    <3> DEFINE sent == {Ask("events", NoServer, "")}
    <3>1. histClicks' \in 0..HistClicks /\ histFailures' \in 0..HistFailures
      BY <2>3, ClickCounted DEF HistSound
    <3>2. hist' = RenderHistory(hist) /\ asked' = asked \cup sent
      BY <2>3 DEF HistClick
    <3>3. \A r \in sent : HistAsked(r) /\ r.what # "metrics"
      BY <1>4
    <3> HIDE DEF sent
    <3>4. QED
      BY <1>1, <1>2, <1>7, <2>1, <3>1, <3>2, <3>3
  <2>4. QED
    BY <1>8, <2>2, <2>3 DEF OpenHistory
<1>9. ASSUME NEW c \in SUBSET HistServers, CachesChange(c) PROVE HistSound'
  <2> DEFINE h == [hist EXCEPT !.cached = c]
  <2>1. h \in HistPages /\ h.on = hist.on /\ h.opened = hist.opened /\ h.modal = hist.modal
    BY <1>1 DEF HistPages
  <2>2. HistClick(h, {}) /\ UNCHANGED <<kept, plots>>
    BY <1>9 DEF CachesChange, OnlyPage
  <2> HIDE DEF h
  <2>3. QED
    BY <1>1, <1>3, <2>1, <2>2, ClickedSound
<1>10. ASSUME NEW s \in HistServers, SelectServer(s) PROVE HistSound'
  <2> DEFINE h == [hist EXCEPT !.server = s]
  <2>1. h \in HistPages /\ h.on = hist.on /\ h.opened = hist.opened /\ h.modal = hist.modal
    BY <1>1 DEF HistPages, AnyServer
  <2>2. HistClick(h, LoadHistoryMetrics(h)) /\ hist.opened /\ UNCHANGED <<kept, plots>>
    BY <1>10 DEF SelectServer, OnlyPage
  <2> HIDE DEF h
  <2>3. QED
    BY <1>1, <1>5, <2>1, <2>2, ClickedSound
<1>11. ASSUME NEW d \in HistDurations, SelectDuration(d) PROVE HistSound'
  <2> DEFINE h == [hist EXCEPT !.duration = d]
  <2>1. h \in HistPages /\ h.on = hist.on /\ h.opened = hist.opened /\ h.modal = hist.modal
    BY <1>1 DEF HistPages
  <2>2. HistClick(h, LoadHistoryMetrics(h)) /\ hist.opened /\ UNCHANGED <<kept, plots>>
    BY <1>11 DEF SelectDuration, OnlyPage
  <2> HIDE DEF h
  <2>3. QED
    BY <1>1, <1>5, <2>1, <2>2, ClickedSound
<1>12. ASSUME NEW f, f \in {"", "x"}, SearchLogs(f) PROVE HistSound'
  <2> DEFINE h == [hist EXCEPT !.filter = f]
             l == Shown("logs", h.all, h.filter)
             g == [h EXCEPT !.logs = l]
  <2>1. h \in HistPages /\ h.on = hist.on /\ h.opened = hist.opened /\ h.modal = hist.modal
    BY <1>1, <1>12 DEF HistPages
  <2>2. \/ HistClick(h, {})
        \/ HistClick(g, {})
    BY <1>12 DEF SearchLogs, DisplayFilteredLogs
  <2>3. UNCHANGED <<kept, plots>>
    BY <1>12 DEF SearchLogs, OnlyPage
  <2> HIDE DEF h
  <2>4. l \in LogStates
    BY <2>1 DEF HistPages, LogStates, Shown
  <2> HIDE DEF l
  <2>5. g \in HistPages /\ g.on = hist.on /\ g.opened = hist.opened /\ g.modal = hist.modal
    BY <2>1, <2>4 DEF HistPages
  <2> HIDE DEF g
  <2>6. QED
    <3>1. kept' \in KeptTypes /\ UNCHANGED plots
      BY <1>1, <2>3
    <3>2. CASE HistClick(h, {})
      BY <1>3, <2>1, <3>1, <3>2, ClickedSound
    <3>3. CASE HistClick(g, {})
      BY <1>3, <2>5, <3>1, <3>3, ClickedSound
    <3>4. QED
      BY <2>2, <3>2, <3>3
<1>13. ASSUME NEW s \in HistSwitches, Switch(s) PROVE HistSound'
  <2> DEFINE v  == ~hist.on[s]
             on == [hist.on EXCEPT ![s] = v]
             h  == [hist EXCEPT !.on = on]
  <2>1. s \in Switches /\ hist.on \in [Switches -> BOOLEAN]
    BY <1>1, HistoryAssumption DEF HistPages
  <2>2. on \in [Switches -> BOOLEAN] /\ \A x \in Switches : x # s => on[x] = hist.on[x]
    BY <2>1
  <2>3. [hist EXCEPT !.on[s] = v] = h
    OBVIOUS
  <2> HIDE DEF on
  <2>4. h \in HistPages /\ h.on = on /\ h.opened = hist.opened /\ h.modal = hist.modal
    BY <1>1, <2>2 DEF HistPages
  <2> HIDE DEF v
  <2>5. /\ hist.opened /\ kept' = [kept EXCEPT !.on[s] = h.on[s]]
        /\ HistClick(h, IF s = "trends" THEN LoadHistoryMetrics(h) ELSE {})
        /\ plots' = CASE s = "anomalies" -> [plots EXCEPT !.charts = ApplyAnomalies(@, h.on.anomalies)]
                      [] s = "forecast"  -> [plots EXCEPT !.charts["disk"] = ApplyForecast(@, h.on.forecast),
                                               !.label = ForecastLabel(plots.charts["disk"], h.on.forecast, Samples(plots.of), @)]
                      [] OTHER -> plots
    BY <1>13, <2>3 DEF Switch, v
  <2> HIDE DEF h
  <2>6. kept' \in KeptTypes
    <3>1. h.on[s] \in BOOLEAN
      BY <2>1, <2>2, <2>4
    <3>2. [kept.on EXCEPT ![s] = h.on[s]] \in [Switches -> BOOLEAN]
      BY <1>1, <2>1, <3>1 DEF KeptTypes
    <3>3. kept' = [kept EXCEPT !.on = [kept.on EXCEPT ![s] = h.on[s]]]
      BY <2>5
    <3>4. QED
      BY <1>1, <3>2, <3>3 DEF KeptTypes
  <2>7. /\ hist' = h /\ histClicks' \in 0..HistClicks /\ histFailures' \in 0..HistFailures
        /\ \A r \in asked' : r \in asked \/ HistAsked(r)
    <3>1. \A r \in IF s = "trends" THEN LoadHistoryMetrics(h) ELSE {} : HistAsked(r)
      BY <2>4, LoadsAsked
    <3>2. QED
      BY <2>5, <3>1, ClickCounted DEF HistSound, HistClick
  <2>8. PlotTyped(plots') /\ ChartsFit(plots'.charts, on)
    <3>0. /\ {"anomalies", "forecast"} \subseteq Switches /\ on.anomalies \in BOOLEAN /\ on.forecast \in BOOLEAN
          /\ PlotFields \subseteq DOMAIN plots
      BY <1>1, <2>2 DEF Switches, PlotTyped
    <3>a. ChartsFit(plots.charts, hist.on)
      BY DEF HistSound
    <3>1. CASE s = "anomalies"
      <4> DEFINE charts == ApplyAnomalies(plots.charts, on.anomalies)
      <4>1. on.forecast = hist.on.forecast
        BY <2>2, <3>0, <3>1
      <4>2. ChartsFit(charts, on)
        BY <3>0, <3>a, <4>1, AnomaliesSwitched
      <4>3. plots' = [plots EXCEPT !.charts = charts]
        BY <2>4, <2>5, <3>1
      <4> HIDE DEF charts
      <4>4. QED
        BY <1>1, <4>2, <4>3 DEF PlotTyped, PlotFields
    <3>2. CASE s = "forecast"
      <4> DEFINE charts == [plots.charts EXCEPT !["disk"] = ApplyForecast(plots.charts["disk"], on.forecast)]
                 label  == ForecastLabel(plots.charts["disk"], on.forecast, Samples(plots.of), plots.label)
      <4>1. on.anomalies = hist.on.anomalies
        BY <2>2, <3>0, <3>2
      <4>2. ChartsFit(charts, on)
        BY <3>0, <3>a, <4>1, ForecastSwitched
      <4>3. label \in Labels
        BY <1>1, LabelTyped DEF PlotTyped
      <4>4. plots' = [plots EXCEPT !.charts = charts, !.label = label]
        BY <2>4, <2>5, <3>2
      <4> HIDE DEF charts, label
      <4>5. QED
        BY <1>1, <4>2, <4>3, <4>4 DEF PlotTyped, PlotFields
    <3>3. CASE s \notin {"anomalies", "forecast"}
      <4>1. plots' = plots
        BY <2>5, <3>3
      <4>2. on.anomalies = hist.on.anomalies /\ on.forecast = hist.on.forecast
        BY <2>2, <3>0, <3>3
      <4>3. QED
        BY <1>1, <3>a, <4>1, <4>2, FitStays
    <3>4. QED
      BY <3>1, <3>2, <3>3
  <2>9. HistTyped'
    BY <1>1, <2>4, <2>6, <2>7, <2>8 DEF HistSound, HistTyped
  <2>10. QED
    BY <2>4, <2>5, <2>7, <2>8, <2>9 DEF HistSound
<1>14. CASE ToggleAutoRefresh
  <2> DEFINE a == [hist.auto EXCEPT !.on = ~@]
             h == [hist EXCEPT !.auto = a]
             g == IF a.on THEN StartAutoRefresh(h) ELSE StopAutoRefresh(h)
  <2>1. a \in Autos
    BY <1>1 DEF HistPages, Autos
  <2>2. [hist EXCEPT !.auto.on = ~@] = h /\ h.auto = a
    BY <1>1 DEF HistPages
  <2>3. HistClick(g, {}) /\ kept' = [kept EXCEPT !.auto = a] /\ hist.opened /\ UNCHANGED plots
    BY <1>14, <2>2 DEF ToggleAutoRefresh
  <2> HIDE DEF a
  <2>4. h \in HistPages /\ h.on = hist.on /\ h.opened = hist.opened /\ HandleNames(h) /\ HistPage(h)
    BY <1>1, <1>2, <2>1 DEF HistPages, HandleNames, HistPage, PageFields
  <2> HIDE DEF h
  <2>5. g \in HistPages /\ g.on = hist.on /\ g.opened = hist.opened
    BY <2>4, StartTyped, StopTyped, AutoStarted, AutoStopped
  <2> HIDE DEF g
  <2>6. kept' \in KeptTypes
    BY <1>1, <2>1, <2>3 DEF KeptTypes
  <2>7. g.opened
    BY <2>3, <2>5
  <2>8. QED
    BY <2>3, <2>5, <2>6, <2>7, ClickedSound
<1>15. ASSUME NEW i \in HistIntervals, SelectInterval(i) PROVE HistSound'
  <2> DEFINE a == [hist.auto EXCEPT !.every = i]
             h == [hist EXCEPT !.auto = a]
             f == StopAutoRefresh(h)
             g == StartAutoRefresh(f)
  <2>1. a \in Autos
    BY <1>1 DEF HistPages, Autos
  <2>2. [hist EXCEPT !.auto.every = i] = h /\ h.auto = a
    BY <1>1 DEF HistPages
  <2>3. HistClick(g, {}) /\ kept' = [kept EXCEPT !.auto = a] /\ hist.opened /\ UNCHANGED plots
    BY <1>15, <2>2 DEF SelectInterval
  <2> HIDE DEF a
  <2>4. h \in HistPages /\ h.on = hist.on /\ h.opened = hist.opened /\ HandleNames(h) /\ HistPage(h)
    BY <1>1, <1>2, <2>1 DEF HistPages, HandleNames, HistPage, PageFields
  <2> HIDE DEF h
  <2>5. f \in HistPages /\ HandleNames(f) /\ HistPage(f) /\ f.on = hist.on /\ f.opened = hist.opened
    BY <2>4, StopTyped, AutoStopped
  <2> HIDE DEF f
  <2>6. g \in HistPages /\ g.on = hist.on /\ g.opened = hist.opened
    BY <2>5, StartTyped, AutoStarted
  <2> HIDE DEF g
  <2>7. kept' \in KeptTypes
    BY <1>1, <2>1, <2>3 DEF KeptTypes
  <2>8. g.opened
    BY <2>3, <2>6
  <2>9. QED
    BY <2>3, <2>6, <2>7, <2>8, ClickedSound
<1>16. ASSUME NEW i \in HistIntervals, RefreshTick(i) PROVE HistSound'
  <2>1. hist.opened
    <3>1. hist.running[i] > 0
      BY <1>16 DEF RefreshTick
    <3>2. hist.running[i] = IF i = hist.handle THEN 1 ELSE 0
      BY <1>2 DEF HandleNames
    <3>3. hist.handle = i /\ i # 0
      BY <3>1, <3>2, HistoryAssumption
    <3>4. hist.auto.on
      BY <3>3 DEF HistInv, TimerFits, HandleFits
    <3>5. QED
      BY <3>4 DEF HistInv, TimerFits
  <2>2. \A r \in LoadHistoryMetrics(hist) : HistAsked(r)
    BY <1>1, LoadsAsked
  <2>3. QED
    BY <1>1, <1>16, <2>1, <2>2, SoundStill DEF RefreshTick
<1>17. CASE ShowThresholds
  <2> DEFINE h == [hist EXCEPT !.modal = TRUE]
  <2>1. h \in HistPages /\ h.on = hist.on /\ h.opened = hist.opened
    BY <1>1 DEF HistPages
  <2>2. HistClick(h, {}) /\ hist.opened /\ UNCHANGED <<kept, plots>>
    BY <1>17 DEF ShowThresholds, OnlyPage
  <2> HIDE DEF h
  <2>3. h.opened
    BY <2>1, <2>2
  <2>4. QED
    BY <1>1, <2>1, <2>2, <2>3, ClickedSound
<1>18. CASE CloseThresholds
  <2> DEFINE h == [hist EXCEPT !.modal = FALSE]
  <2>1. h \in HistPages /\ h.on = hist.on /\ h.opened = hist.opened
    BY <1>1 DEF HistPages
  <2>2. HistClick(h, {}) /\ hist.opened /\ UNCHANGED <<kept, plots>>
    BY <1>3, <1>18 DEF CloseThresholds, OnlyPage
  <2> HIDE DEF h
  <2>3. h.opened
    BY <2>1, <2>2
  <2>4. QED
    BY <1>1, <2>1, <2>2, <2>3, ClickedSound
<1>19. ASSUME NEW typed \in [{"cpu", "disk"} -> HistLimits], SaveThresholds(typed) PROVE HistSound'
  <2> DEFINE l == [c \in Limited |-> IF c \in DOMAIN typed /\ typed[c][1] <= typed[c][2] THEN typed[c] ELSE hist.limits[c]]
             h == [hist EXCEPT !.modal = FALSE, !.limits = l]
  <2>1. l \in Limits
    <3>1. ASSUME NEW c \in Limited PROVE l[c] \in Nat \X Nat
      <4>1. hist.limits[c] \in Nat \X Nat
        BY <1>1 DEF HistPages, Limits
      <4>2. c \in DOMAIN typed => typed[c] \in Nat \X Nat
        BY HistoryAssumption
      <4>3. QED
        BY <4>1, <4>2
    <3>2. QED
      BY <3>1 DEF Limits
  <2>2. HistClick(h, LoadHistoryMetrics(h)) /\ kept' = [kept EXCEPT !.limits = h.limits] /\ hist.modal /\ UNCHANGED plots
    BY <1>19 DEF SaveThresholds
  <2> HIDE DEF l
  <2>3. h \in HistPages /\ h.on = hist.on /\ h.opened = hist.opened /\ h.limits = l
    BY <1>1, <2>1 DEF HistPages
  <2> HIDE DEF h
  <2>4. kept' \in KeptTypes
    BY <1>1, <2>1, <2>2, <2>3 DEF KeptTypes
  <2>5. QED
    BY <1>3, <1>5, <2>2, <2>3, <2>4, ClickedSound
<1>20. CASE ResetThresholds
  <2> DEFINE h == [hist EXCEPT !.limits = DefaultThresholds]
  <2>1. h \in HistPages /\ h.on = hist.on /\ h.opened = hist.opened /\ h.modal = hist.modal
    BY <1>1, DefaultTyped DEF HistPages
  <2>2. HistClick(h, {}) /\ kept' = [kept EXCEPT !.limits = DefaultThresholds] /\ UNCHANGED plots
    BY <1>20 DEF ResetThresholds
  <2> HIDE DEF h
  <2>3. kept' \in KeptTypes
    BY <1>1, <2>2, DefaultTyped DEF KeptTypes
  <2>4. QED
    BY <1>3, <2>1, <2>2, <2>3, ClickedSound
<1>21. ASSUME NEW field \in {"ifaces", "disks", "nodes"}, NEW name, SelectSeries(field, name) PROVE HistSound'
  <2>1. PICK chosen : plots' = Redrawn([plots EXCEPT !.chosen = chosen], hist, 0)
    BY <1>21 DEF SelectSeries
  <2> DEFINE p == [plots EXCEPT !.chosen = chosen]
  <2>2. PlotTyped(p) /\ p.charts = plots.charts
    BY <1>1 DEF PlotTyped, PlotFields
  <2>3. plots' = Redrawn(p, hist, 0)
    BY <2>1
  <2> HIDE DEF p
  <2>4. PlotTyped(plots') /\ ChartsFit(plots'.charts, hist.on)
    BY <1>1, <2>2, <2>3, RedrawnFits DEF HistSound
  <2>5. hist' = hist /\ asked' = asked \cup {} /\ UNCHANGED kept
    BY <1>21 DEF SelectSeries, HistClick
  <2>6. histClicks' \in 0..HistClicks /\ histFailures' \in 0..HistFailures
    BY <1>21, ClickCounted DEF SelectSeries, HistSound
  <2>7. hist.opened
    <3>1. ~NoneMade(plots.charts)
      BY <1>21 DEF SelectSeries, NoneMade, Unmade, Made, Charts
    <3>2. QED
      BY <3>1 DEF HistSound
  <2>8. HistTyped'
    BY <2>4, <2>5, <2>6 DEF HistSound, HistTyped
  <2>9. QED
    BY <2>4, <2>5, <2>7, <2>8 DEF HistSound
<1>22. CASE ToggleDashboardMode
  <2> DEFINE v == ~hist.tv
             b == hist.borders /\ hist.tv
             h == [hist EXCEPT !.tv = v, !.borders = b]
  <2>1. v \in BOOLEAN /\ b \in BOOLEAN
    OBVIOUS
  <2>2. HistClick(h, {}) /\ UNCHANGED <<kept, plots>>
    BY <1>22 DEF ToggleDashboardMode, OnlyPage
  <2> HIDE DEF v, b
  <2>3. h \in HistPages /\ h.on = hist.on /\ h.opened = hist.opened /\ h.modal = hist.modal
    BY <1>1, <2>1 DEF HistPages
  <2> HIDE DEF h
  <2>4. QED
    BY <1>1, <1>3, <2>2, <2>3, ClickedSound
<1>23. CASE GenerateSLAReport
  <2> DEFINE h == [hist EXCEPT !.report = "working"]
  <2>1. h \in HistPages /\ h.on = hist.on /\ h.opened = hist.opened /\ h.modal = hist.modal
    BY <1>1 DEF HistPages
  <2> DEFINE sent == {Ask("report", NoServer, "")}
  <2>2. HistClick(h, sent) /\ UNCHANGED <<kept, plots>>
    BY <1>23 DEF GenerateSLAReport, OnlyPage
  <2> HIDE DEF h
  <2>3. \A r \in sent : HistAsked(r) /\ r.what # "metrics"
    BY <1>4
  <2> HIDE DEF sent
  <2>4. QED
    BY <1>1, <1>3, <2>1, <2>2, <2>3, ClickedSound
<1>24. CASE CloseReport
  <2> DEFINE h == [hist EXCEPT !.report = "hidden"]
  <2>1. h \in HistPages /\ h.on = hist.on /\ h.opened = hist.opened /\ h.modal = hist.modal
    BY <1>1 DEF HistPages
  <2>2. HistClick(h, {}) /\ UNCHANGED <<kept, plots>>
    BY <1>24 DEF CloseReport, OnlyPage
  <2> HIDE DEF h
  <2>3. QED
    BY <1>1, <1>3, <2>1, <2>2, ClickedSound
<1>25. CASE Reload
  <2>1. /\ hist' = BlankPage(kept.limits) /\ plots' = BlankPlots /\ asked' = {}
        /\ UNCHANGED <<kept, histFailures>> /\ histClicks' \in 0..HistClicks
    BY <1>1, <1>25, HistoryAssumption DEF Reload
  <2>2. hist' \in HistPages /\ PlotTyped(plots')
    BY <1>1, <2>1, BlankTyped DEF KeptTypes
  <2>3. NoneMade(plots'.charts)
    BY <2>1 DEF BlankPlots, NoneMade, Unmade, NoChart
  <2>4. ~hist'.opened /\ ~hist'.modal
    BY <2>1 DEF BlankPage
  <2>5. QED
    BY <1>1, <2>1, <2>2, <2>3, <2>4 DEF HistSound, HistTyped, ChartsFit
<1>26. ASSUME NEW r \in asked, HistAnswer(r) \/ HistFailed(r) PROVE HistSound'
  <2>0. /\ HistAsked(r) /\ r.of \in AnyServer
        /\ r.what = "metrics" => r.of \in HistServers /\ r.range \in HistDurations
        /\ r.what = "logs" => r.of \in HistServers
        /\ \A q \in Follows(r) : HistAsked(q) /\ q.what # "metrics"
    BY FollowsAsked DEF HistSound, HistTyped
  <2>1. CASE PreloadAnswer(r)
    <3> DEFINE h == [hist EXCEPT !.cached = HistServers]
    <3>1. h \in HistPages /\ h.on = hist.on /\ h.opened = hist.opened /\ HandleNames(h)
      BY <1>1, <1>2 DEF HistPages, HandleNames
    <3>2. (hist' = RenderHistory(h) \/ hist' = RenderHistory(hist)) /\ UNCHANGED <<kept, plots>>
      BY <2>1 DEF PreloadAnswer, Answered
    <3>3. asked' \subseteq asked \cup Follows(r) /\ histClicks' \in 0..HistClicks /\ histFailures' \in 0..HistFailures
      BY <1>1, <2>1, HistoryAssumption DEF PreloadAnswer, Answered, Fine, Broken
    <3> HIDE DEF h
    <3>4. QED
      BY <1>1, <1>2, <1>7, <2>0, <3>1, <3>2, <3>3
  <2>2. CASE EventsAnswer(r)
    <3>1. PICK state \in {"events", "error"} :
            /\ Answered(r, [hist EXCEPT !.bar = Shown(state, NoServer, "")], {}) /\ (Fine \/ Broken) /\ UNCHANGED plots
      BY <2>2 DEF EventsAnswer
    <3> DEFINE h == [hist EXCEPT !.bar = Shown(state, NoServer, "")]
    <3>2. Shown(state, NoServer, "") \in BarStates
      BY DEF Shown, BarStates, AnyServer
    <3>3. h \in HistPages /\ h.on = hist.on /\ h.opened = hist.opened /\ h.modal = hist.modal
      BY <1>1, <3>2 DEF HistPages
    <3>4. Answered(r, h, {}) /\ (Fine \/ Broken) /\ UNCHANGED plots
      BY <3>1
    <3> HIDE DEF h
    <3>5. QED
      BY <1>3, <3>3, <3>4, AnsweredSound
  <2>3. CASE MetricsAnswer(r)
    <3> DEFINE h == [hist EXCEPT !.logs = Shown("loading", r.of, "")]
               of == <<r.of, r.range>>
               chosen == Offered(Samples(of), plots.chosen, r.of[1] = "kubernetes")
               p == [plots EXCEPT !.of = of, !.chosen = chosen]
    <3>1. r.what = "metrics" /\ hist.opened
      BY <2>3 DEF MetricsAnswer, HistSound
    <3>2. Shown("loading", r.of, "") \in LogStates
      BY <2>0 DEF Shown, LogStates
    <3>3. h \in HistPages /\ h.on = hist.on /\ h.opened = hist.opened /\ h.modal = hist.modal
      BY <1>1, <3>2 DEF HistPages
    <3>4. /\ Answered(r, h, Follows(r)) /\ Fine /\ plots' = Redrawn(p, hist, HistMemory[r.of])
      BY <2>3 DEF MetricsAnswer
    <3> HIDE DEF h, chosen
    <3>5. PlotTyped(p) /\ p.charts = plots.charts
      BY <1>1, <2>0, <3>1 DEF PlotTyped, PlotFields
    <3> HIDE DEF p
    <3>6. PlotTyped(plots') /\ ChartsFit(plots'.charts, hist.on)
      BY <1>1, <3>4, <3>5, RedrawnFits DEF HistSound
    <3>7. /\ hist' = h /\ asked' = (asked \ {r}) \cup Follows(r)
          /\ UNCHANGED <<kept, histClicks, histFailures>>
      BY <3>4 DEF Answered, Fine
    <3>8. HistTyped'
      BY <1>1, <2>0, <3>3, <3>6, <3>7 DEF HistSound, HistTyped
    <3>9. QED
      BY <3>1, <3>3, <3>6, <3>7, <3>8 DEF HistSound
  <2>4. CASE HostLogsAnswer(r)
    <3> DEFINE e == [hist EXCEPT !.logs = Shown("empty", r.of, "")]
               g == [hist EXCEPT !.all = r.of, !.bar = Shown("host", r.of, "")]
               l == Shown("logs", g.all, g.filter)
               h == [g EXCEPT !.logs = l]
    <3>1. (Answered(r, e, {}) \/ Answered(r, h, {})) /\ Fine /\ UNCHANGED plots
      BY <2>4 DEF HostLogsAnswer, DisplayFilteredLogs
    <3>2. Shown("empty", r.of, "") \in LogStates /\ Shown("host", r.of, "") \in BarStates
      BY <2>0 DEF Shown, LogStates, BarStates
    <3>3. e \in HistPages /\ e.on = hist.on /\ e.opened = hist.opened /\ e.modal = hist.modal
      BY <1>1, <3>2 DEF HistPages
    <3>4. g \in HistPages /\ g.on = hist.on /\ g.opened = hist.opened /\ g.modal = hist.modal
      BY <1>1, <2>0, <3>2 DEF HistPages
    <3> HIDE DEF g
    <3>5. l \in LogStates
      BY <3>4 DEF Shown, LogStates, HistPages
    <3> HIDE DEF l
    <3>6. h \in HistPages /\ h.on = hist.on /\ h.opened = hist.opened /\ h.modal = hist.modal
      BY <3>4, <3>5 DEF HistPages
    <3> HIDE DEF h, e
    <3>7. QED
      BY <1>3, <3>1, <3>3, <3>6, AnsweredSound
  <2>5. CASE ReportEvents(r)
    BY <1>1, <1>3, <2>5, AnsweredSound DEF ReportEvents
  <2>6. ASSUME NEW how \in {"advice", "error"}, Answered(r, [hist EXCEPT !.report = IF @ = "hidden" THEN @ ELSE how], {}),
               Fine \/ Broken, UNCHANGED plots
        PROVE  HistSound'
    <3> DEFINE h == [hist EXCEPT !.report = IF @ = "hidden" THEN @ ELSE how]
    <3>1. h \in HistPages /\ h.on = hist.on /\ h.opened = hist.opened /\ h.modal = hist.modal
      BY <1>1 DEF HistPages
    <3>2. Answered(r, h, {}) /\ (Fine \/ Broken) /\ UNCHANGED plots
      BY <2>6
    <3> HIDE DEF h
    <3>3. QED
      BY <1>3, <3>1, <3>2, AnsweredSound
  <2>7. CASE ReportAnswer(r)
    BY <2>6, <2>7 DEF ReportAnswer
  <2>8. CASE ReportFailed(r)
    BY <2>6, <2>8 DEF ReportFailed
  <2>9. CASE MetricsFailed(r)
    BY <1>1, <1>3, <2>9, AnsweredSound DEF MetricsFailed
  <2>10. CASE HostLogsFailed(r)
    <3> DEFINE h == [hist EXCEPT !.logs = Shown("error", r.of, "")]
    <3>1. Shown("error", r.of, "") \in LogStates
      BY <2>0 DEF Shown, LogStates
    <3>2. h \in HistPages /\ h.on = hist.on /\ h.opened = hist.opened /\ h.modal = hist.modal
      BY <1>1, <3>1 DEF HistPages
    <3>3. Answered(r, h, {}) /\ Broken /\ UNCHANGED plots
      BY <2>10 DEF HostLogsFailed
    <3> HIDE DEF h
    <3>4. QED
      BY <1>3, <3>2, <3>3, AnsweredSound
  <2>11. QED
    BY <1>26, <2>1, <2>2, <2>3, <2>4, <2>5, <2>7, <2>8, <2>9, <2>10 DEF HistAnswer, HistFailed
<1>27. CASE UNCHANGED histVars
  BY <1>1, <1>3, <1>27, SoundStill DEF histVars
<1>28. QED
  BY <1>8, <1>9, <1>10, <1>11, <1>12, <1>13, <1>14, <1>15, <1>16, <1>17, <1>18, <1>19, <1>20, <1>21, <1>22,
     <1>23, <1>24, <1>25, <1>26, <1>27 DEF HistoryNext

\* In every behaviour of the history page, with or without fairness.
LEMMA SoundAlways == HistoryInit /\ [][HistoryNext]_histVars => []HistSound
  BY HistAlways, SoundInit, SoundStep, PTL

\* Charts that fit the switches show overlays of their own series only.
LEMMA SoundOverlays == HistSound => OverlaysCurrent
<1> SUFFICES ASSUME HistSound, NEW c \in Charts PROVE
      LET layers == plots.charts[c].layers IN
      \A i \in DOMAIN layers :
        /\ layers[i].label = "Anomalias"  => /\ hist.on.anomalies /\ layers[i].data = DetectAnomalies(layers[1].data)
        /\ layers[i].label = "Proyeccion" => /\ hist.on.forecast /\ layers[i].data = Projection(layers[1].data)
        /\ \A j \in DOMAIN layers : layers[j].label = layers[i].label => i = j
  BY DEF OverlaysCurrent
<1>1. CASE AllCurrent(plots.charts, hist.on)
  <2>1. Current(c, plots.charts[c], hist.on)
    BY <1>1 DEF AllCurrent
  <2>2. QED
    BY <2>1 DEF Current, Drawn, Distinct, Marked, Projected, Fits
<1>2. CASE NoneMade(plots.charts)
  <2>1. plots.charts[c].layers = <<>>
    BY <1>2 DEF NoneMade, Unmade
  <2>2. QED
    BY <2>1
<1>3. QED
  BY <1>1, <1>2 DEF HistSound, ChartsFit

\* It has the type invariant in it.
LEMMA SoundTyped == HistSound => HistoryTypeOK
<1> SUFFICES ASSUME HistSound PROVE HistoryTypeOK
  OBVIOUS
<1>1. HistTyped
  BY DEF HistSound
<1>2. hist = [x \in DOMAIN BlankPage(DefaultThresholds) |-> hist[x]]
  BY <1>1 DEF HistTyped, HistPages, BlankPage
<1>3. DOMAIN plots.charts = Charts
  BY DEF HistSound, ChartsFit, AllCurrent, NoneMade
<1>4. asked \subseteq [what : Requests, of : HistServers \cup {NoServer}, range : HistDurations \cup {""}]
  <2>1. ASSUME NEW r \in asked PROVE r \in [what : Requests, of : HistServers \cup {NoServer}, range : HistDurations \cup {""}]
    <3>1. HistAsked(r)
      BY <1>1 DEF HistTyped
    <3>2. CASE \E what \in {"preload", "events", "report", "ask"} : r = Ask(what, NoServer, "")
      <4>1. PICK what \in {"preload", "events", "report", "ask"} : r = Ask(what, NoServer, "")
        BY <3>2
      <4>2. QED
        BY <4>1 DEF Ask, Requests
    <3>3. CASE \E s \in HistServers : r = Ask("logs", s, "")
      <4>1. PICK s \in HistServers : r = Ask("logs", s, "")
        BY <3>3
      <4>2. QED
        BY <4>1 DEF Ask, Requests
    <3>4. CASE \E s \in HistServers, d \in HistDurations : r = Ask("metrics", s, d)
      <4>1. PICK s \in HistServers, d \in HistDurations : r = Ask("metrics", s, d)
        BY <3>4
      <4>2. QED
        BY <4>1 DEF Ask, Requests
    <3>5. QED
      BY <3>1, <3>2, <3>3, <3>4 DEF HistAsked
  <2>2. QED
    BY <2>1
<1>5. /\ hist.opened \in BOOLEAN /\ hist.preloading \in BOOLEAN /\ hist.cached \subseteq HistServers
      /\ hist.offered \subseteq HistServers /\ hist.server \in HistServers \cup {NoServer}
      /\ hist.duration \in HistDurations /\ hist.on \in [Switches -> BOOLEAN]
  BY <1>1 DEF HistTyped, HistPages, AnyServer
<1>6. /\ hist.auto \in [on : BOOLEAN, every : HistIntervals] /\ hist.running \in [HistIntervals -> Nat]
      /\ hist.handle \in HistIntervals \cup {0} /\ hist.limits \in [Limited -> Nat \X Nat]
      /\ hist.modal \in BOOLEAN /\ hist.tv \in BOOLEAN /\ hist.borders \in BOOLEAN
  BY <1>1 DEF HistTyped, HistPages, Autos, Limits
<1>7. /\ hist.all \in HistServers \cup {NoServer} /\ hist.filter \in {"", "x"}
      /\ hist.logs \in [state : {"blank", "loading", "logs", "empty", "error"}, of : HistServers \cup {NoServer}, filter : {"", "x"}]
      /\ hist.bar \in [state : {"blank", "events", "host", "error"}, of : HistServers \cup {NoServer}, filter : {""}]
      /\ hist.report \in {"hidden", "working", "advice", "error"}
  BY <1>1 DEF HistTyped, HistPages, AnyServer, LogStates, BarStates
<1>8. kept \in [on : [Switches -> BOOLEAN], auto : [on : BOOLEAN, every : HistIntervals], limits : [Limited -> Nat \X Nat]]
  BY <1>1 DEF HistTyped, KeptTypes, Autos, Limits
<1>9. QED
  BY <1>1, <1>2, <1>3, <1>4, <1>5, <1>6, <1>7, <1>8 DEF HistoryTypeOK, HistTyped, PlotTyped, Labels

\* Whatever the samples are, the user selects and switches, and whenever the
\* answers come: anomalies and the projection over a chart are those of the series
\* it shows, once, and only while they are switched on (applyAnomalies, applyForecast).
THEOREM HistoryOverlaysCurrent == HistorySpec => []OverlaysCurrent
  BY SoundAlways, SoundOverlays, PTL DEF HistorySpec

\* Every variable of the history page has its type: what is asked for, cached and
\* shown is of hosts, intervals and ranges there are (renderHistory, app.js).
THEOREM HistoryTypeCorrect == HistorySpec => []HistoryTypeOK
  BY SoundAlways, SoundTyped, PTL DEF HistorySpec

----------------------------------------------------------------------------
(* What the page waits for *)

\* A report in the making, logs that load and the first load of the caches each
\* have a request that is due.
ReportDue(h, due)  == h.report = "working" => \E q \in due : q.what \in {"report", "ask"}
LogsDue(h, due)    == h.logs.state = "loading" => \E q \in due : q.what = "logs"
PreloadDue(h, due) == h.preloading /\ ~h.opened => \E q \in due : q.what = "preload"
AllDue(h, due)     == ReportDue(h, due) /\ LogsDue(h, due) /\ PreloadDue(h, due)

\* Two pages that wait for the same.
WaitFields == {"opened", "preloading", "logs", "report"}
SameWait(n, h) == /\ WaitFields \subseteq DOMAIN n
                  /\ n.report = h.report /\ n.logs = h.logs /\ n.preloading = h.preloading
                  /\ h.opened => n.opened

LEMMA PageWaits == ASSUME NEW h \in HistPages PROVE SameWait(h, h)
  BY DEF HistPages, SameWait, WaitFields

\* The timer has no part in it.
LEMMA TimerWaits == ASSUME NEW h, WaitFields \subseteq DOMAIN h
                    PROVE  SameWait(StopAutoRefresh(h), h) /\ SameWait(StartAutoRefresh(h), h)
<1>1. SameWait(StopAutoRefresh(h), h)
  BY DEF StopAutoRefresh, SameWait, WaitFields
<1> DEFINE s == StopAutoRefresh(h)
           r == [s.running EXCEPT ![s.auto.every] = @ + 1]
<1>2. StartAutoRefresh(h) = [s EXCEPT !.running = r, !.handle = s.auto.every]
  BY DEF StartAutoRefresh
<1> HIDE DEF s, r
<1>3. SameWait(StartAutoRefresh(h), s)
  BY <1>1, <1>2 DEF SameWait, WaitFields, s
<1>4. QED
  BY <1>1, <1>3 DEF SameWait, s

\* A rendering ends the wait for the caches.
LEMMA RenderWaits == ASSUME NEW h \in HistPages
                     PROVE  RenderHistory(h).opened /\ RenderHistory(h).report = h.report /\ RenderHistory(h).logs = h.logs
<1> DEFINE s == [h EXCEPT !.opened = TRUE, !.on = kept.on, !.auto = kept.auto]
           g == InitHistoryMetrics(h)
<1>1. WaitFields \subseteq DOMAIN s /\ s.opened /\ s.report = h.report /\ s.logs = h.logs
  BY DEF HistPages, WaitFields
<1>2. (g = h /\ h.opened) \/ g \in {s, StartAutoRefresh(s)}
  BY DEF InitHistoryMetrics
<1> HIDE DEF s
<1>3. SameWait(StartAutoRefresh(s), s)
  BY <1>1, TimerWaits
<1>4. WaitFields \subseteq DOMAIN g /\ g.opened /\ g.report = h.report /\ g.logs = h.logs
  BY <1>1, <1>2, <1>3, PageWaits DEF SameWait
<1> DEFINE v == IF g.server = NoServer \/ g.server \in g.cached THEN g.server
                ELSE IF g.cached = {} THEN NoServer ELSE CHOOSE x \in g.cached : TRUE
<1> HIDE DEF g
<1>5. RenderHistory(h) = [g EXCEPT !.offered = g.cached, !.server = v]
  BY DEF RenderHistory, PopulateHistoryServers, g
<1> HIDE DEF v
<1>6. QED
  BY <1>4, <1>5 DEF WaitFields

\* A click that leaves what is waited for.
LEMMA ClickDue == ASSUME AllDue(hist, asked), NEW h, SameWait(h, hist), NEW more, HistClick(h, more)
                  PROVE  AllDue(hist', asked')
  BY DEF AllDue, ReportDue, LogsDue, PreloadDue, SameWait, HistClick

\* An answer that ends the wait it is for, or asks for more.
LEMMA AnswerDue == ASSUME AllDue(hist, asked), NEW r, NEW h, NEW more, Answered(r, h, more),
                          h.report = "working" => /\ hist.report = "working"
                                                  /\ r.what \in {"report", "ask"} => \E q \in more : q.what \in {"report", "ask"},
                          h.logs.state = "loading" => \/ hist.logs.state = "loading" /\ r.what # "logs"
                                                      \/ \E q \in more : q.what = "logs",
                          h.preloading /\ ~h.opened => hist.preloading /\ ~hist.opened /\ r.what # "preload"
                   PROVE  AllDue(hist', asked')
<1>1. hist' = h /\ asked' = (asked \ {r}) \cup more
  BY DEF Answered
<1>2. ReportDue(hist', asked')
  BY <1>1 DEF AllDue, ReportDue
<1>3. LogsDue(hist', asked')
  BY <1>1 DEF AllDue, LogsDue
<1>4. PreloadDue(hist', asked')
  BY <1>1 DEF AllDue, PreloadDue
<1>5. QED
  BY <1>2, <1>3, <1>4 DEF AllDue

\* Each answer does.
LEMMA AnswersDue == ASSUME HistSound, AllDue(hist, asked), NEW r \in asked, HistAnswer(r) \/ HistFailed(r)
                    PROVE  AllDue(hist', asked')
<1>1. hist \in HistPages /\ SameWait(hist, hist)
  BY PageWaits DEF HistSound, HistTyped
<1>2. CASE PreloadAnswer(r)
  <2> DEFINE h == [hist EXCEPT !.cached = HistServers]
  <2>1. h \in HistPages /\ h.report = hist.report /\ h.logs = hist.logs
    BY <1>1 DEF HistPages
  <2>2. r.what = "preload" /\ (Answered(r, RenderHistory(h), Follows(r)) \/ Answered(r, RenderHistory(hist), Follows(r)))
    BY <1>2 DEF PreloadAnswer
  <2> HIDE DEF h
  <2>3. QED
    BY <1>1, <2>1, <2>2, RenderWaits, AnswerDue
<1>3. CASE EventsAnswer(r)
  <2>1. PICK b : Answered(r, [hist EXCEPT !.bar = b], {}) /\ r.what = "events"
    BY <1>3 DEF EventsAnswer
  <2>2. SameWait([hist EXCEPT !.bar = b], hist)
    BY <1>1 DEF SameWait, WaitFields, HistPages
  <2>3. QED
    BY <2>1, <2>2, AnswerDue DEF SameWait
<1>4. CASE MetricsAnswer(r)
  <2> DEFINE h == [hist EXCEPT !.logs = Shown("loading", r.of, "")]
  <2>1. Answered(r, h, Follows(r)) /\ r.what = "metrics"
    BY <1>4 DEF MetricsAnswer
  <2>2. h.report = hist.report /\ h.preloading = hist.preloading /\ h.opened = hist.opened
    BY <1>1 DEF HistPages
  <2>3. \E q \in Follows(r) : q.what = "logs"
    BY <2>1 DEF Follows, Ask
  <2> HIDE DEF h
  <2>4. QED
    BY <2>1, <2>2, <2>3, AnswerDue
<1>5. CASE MetricsFailed(r)
  BY <1>5, AnswerDue DEF MetricsFailed
<1>6. CASE HostLogsAnswer(r) \/ HostLogsFailed(r)
  <2>1. ASSUME NEW h, Answered(r, h, {}), h.logs.state # "loading",
               h.report = hist.report, h.preloading = hist.preloading, h.opened = hist.opened
        PROVE  AllDue(hist', asked')
    <3>1. r.what = "logs"
      BY <1>6 DEF HostLogsAnswer, HostLogsFailed
    <3>2. QED
      BY <2>1, <3>1, AnswerDue
  <2>2. ASSUME NEW state \in {"empty", "error"}, Answered(r, [hist EXCEPT !.logs = Shown(state, r.of, "")], {})
        PROVE  AllDue(hist', asked')
    <3> DEFINE l == Shown(state, r.of, "")
               h == [hist EXCEPT !.logs = l]
    <3>1. l.state # "loading"
      BY DEF Shown
    <3> HIDE DEF l
    <3>2. h.logs = l /\ h.report = hist.report /\ h.preloading = hist.preloading /\ h.opened = hist.opened
      BY <1>1 DEF HistPages
    <3>3. Answered(r, h, {})
      BY <2>2 DEF l
    <3> HIDE DEF h
    <3>4. QED
      BY <2>1, <3>1, <3>2, <3>3
  <2>3. CASE Answered(r, DisplayFilteredLogs([hist EXCEPT !.all = r.of, !.bar = Shown("host", r.of, "")]), {})
    <3> DEFINE g == [hist EXCEPT !.all = r.of, !.bar = Shown("host", r.of, "")]
               l == Shown("logs", g.all, g.filter)
               h == [g EXCEPT !.logs = l]
    <3>1. Answered(r, h, {})
      BY <2>3 DEF DisplayFilteredLogs
    <3>2. SameWait(g, hist) /\ g.opened = hist.opened
      BY <1>1 DEF SameWait, WaitFields, HistPages
    <3> HIDE DEF g
    <3>3. l.state # "loading"
      BY DEF Shown
    <3> HIDE DEF l
    <3>4. h.logs = l /\ h.report = hist.report /\ h.preloading = hist.preloading /\ h.opened = hist.opened
      BY <3>2 DEF SameWait, WaitFields
    <3> HIDE DEF h
    <3>5. QED
      BY <2>1, <3>1, <3>3, <3>4
  <2>4. QED
    BY <1>6, <2>2, <2>3 DEF HostLogsAnswer, HostLogsFailed
<1>7. CASE ReportEvents(r)
  <2>1. Answered(r, hist, Follows(r)) /\ r.what = "report"
    BY <1>7 DEF ReportEvents
  <2>2. \E q \in Follows(r) : q.what \in {"report", "ask"}
    BY <2>1 DEF Follows, Ask
  <2>3. QED
    BY <2>1, <2>2, AnswerDue
<1>8. CASE ReportAnswer(r) \/ ReportFailed(r)
  <2>1. PICK v : v # "working" /\ Answered(r, [hist EXCEPT !.report = v], {})
    BY <1>8 DEF ReportAnswer, ReportFailed
  <2>2. r.what \in {"report", "ask"}
    BY <1>8 DEF ReportAnswer, ReportFailed
  <2> DEFINE h == [hist EXCEPT !.report = v]
  <2>3. h.report = v /\ h.logs = hist.logs /\ h.preloading = hist.preloading /\ h.opened = hist.opened
    BY <1>1 DEF HistPages
  <2>4. Answered(r, h, {})
    BY <2>1
  <2> HIDE DEF h
  <2>5. QED
    BY <2>1, <2>2, <2>3, <2>4, AnswerDue
<1>9. QED
  BY <1>2, <1>3, <1>4, <1>5, <1>6, <1>7, <1>8 DEF HistAnswer, HistFailed

\* Clicks, the timer and a reload ask for what they make the page wait for.
LEMMA DueStep == HistSound /\ AllDue(hist, asked) /\ [HistoryNext]_histVars => AllDue(hist', asked')
<1> SUFFICES ASSUME HistSound, AllDue(hist, asked), [HistoryNext]_histVars PROVE AllDue(hist', asked')
  OBVIOUS
<1>1. hist \in HistPages /\ SameWait(hist, hist) /\ WaitFields \subseteq DOMAIN hist
  BY PageWaits DEF HistSound, HistTyped, SameWait
<1>2. CASE OpenHistory
  <2>1. CASE HistClick([hist EXCEPT !.preloading = TRUE], {Ask("preload", NoServer, "")})
    <3> DEFINE h == [hist EXCEPT !.preloading = TRUE]
               q == Ask("preload", NoServer, "")
    <3>1. q.what = "preload" /\ h.report = hist.report /\ h.logs = hist.logs
      BY <1>1 DEF Ask, HistPages
    <3>2. hist' = h /\ asked' = asked \cup {q}
      BY <2>1 DEF HistClick
    <3> HIDE DEF h, q
    <3>3. QED
      BY <3>1, <3>2 DEF AllDue, ReportDue, LogsDue, PreloadDue
  <2>2. CASE HistClick(RenderHistory(hist), {Ask("events", NoServer, "")})
    BY <1>1, <2>2, RenderWaits DEF HistClick, AllDue, ReportDue, LogsDue, PreloadDue
  <2>3. QED
    BY <1>2, <2>1, <2>2 DEF OpenHistory
<1>3. ASSUME NEW c, CachesChange(c) PROVE AllDue(hist', asked')
  <2>1. SameWait([hist EXCEPT !.cached = c], hist)
    BY <1>1 DEF SameWait, WaitFields
  <2>2. QED
    BY <1>3, <2>1, ClickDue DEF CachesChange
<1>4. ASSUME NEW s, SelectServer(s) PROVE AllDue(hist', asked')
  <2>1. SameWait([hist EXCEPT !.server = s], hist)
    BY <1>1 DEF SameWait, WaitFields
  <2>2. QED
    BY <1>4, <2>1, ClickDue DEF SelectServer
<1>5. ASSUME NEW d, SelectDuration(d) PROVE AllDue(hist', asked')
  <2>1. SameWait([hist EXCEPT !.duration = d], hist)
    BY <1>1 DEF SameWait, WaitFields
  <2>2. QED
    BY <1>5, <2>1, ClickDue DEF SelectDuration
<1>6. ASSUME NEW f, SearchLogs(f) PROVE AllDue(hist', asked')
  <2> DEFINE h == [hist EXCEPT !.filter = f]
             l == Shown("logs", h.all, h.filter)
             g == [h EXCEPT !.logs = l]
  <2>1. HistClick(h, {}) \/ HistClick(g, {})
    BY <1>6 DEF SearchLogs, DisplayFilteredLogs
  <2>2. SameWait(h, hist)
    BY <1>1 DEF SameWait, WaitFields
  <2> HIDE DEF h
  <2>3. l.state # "loading"
    BY DEF Shown
  <2> HIDE DEF l
  <2>4. g.report = hist.report /\ g.logs = l /\ g.preloading = hist.preloading /\ (hist.opened => g.opened)
    BY <2>2 DEF SameWait, WaitFields
  <2> HIDE DEF g
  <2>5. CASE HistClick(g, {})
    BY <2>3, <2>4, <2>5 DEF HistClick, AllDue, ReportDue, LogsDue, PreloadDue
  <2>6. QED
    BY <2>1, <2>2, <2>5, ClickDue
<1>7. ASSUME NEW s, Switch(s) PROVE AllDue(hist', asked')
  <2> DEFINE on == [hist.on EXCEPT ![s] = ~hist.on[s]]
             h  == [hist EXCEPT !.on = on]
  <2>1. PICK more : HistClick(h, more)
    BY <1>7 DEF Switch
  <2> HIDE DEF on
  <2>2. SameWait(h, hist)
    BY <1>1 DEF SameWait, WaitFields
  <2>3. QED
    BY <2>1, <2>2, ClickDue
<1>8. ASSUME NEW a, LET h == [hist EXCEPT !.auto = a] IN
               \/ HistClick(StartAutoRefresh(h), {}) \/ HistClick(StopAutoRefresh(h), {})
               \/ HistClick(StartAutoRefresh(StopAutoRefresh(h)), {})
      PROVE  AllDue(hist', asked')
  <2> DEFINE h == [hist EXCEPT !.auto = a]
  <2>1. SameWait(h, hist) /\ WaitFields \subseteq DOMAIN h
    BY <1>1 DEF SameWait, WaitFields
  <2> HIDE DEF h
  <2>2. SameWait(StartAutoRefresh(h), hist) /\ SameWait(StopAutoRefresh(h), hist)
    BY <2>1, TimerWaits DEF SameWait
  <2>3. SameWait(StartAutoRefresh(StopAutoRefresh(h)), StopAutoRefresh(h))
    BY <2>2, TimerWaits DEF SameWait
  <2>4. SameWait(StartAutoRefresh(StopAutoRefresh(h)), hist)
    BY <2>2, <2>3 DEF SameWait
  <2>5. QED
    BY <1>8, <2>2, <2>4, ClickDue DEF h
<1>9. CASE ToggleAutoRefresh
  <2> DEFINE a == [hist.auto EXCEPT !.on = ~@]
  <2>1. [hist EXCEPT !.auto.on = ~@] = [hist EXCEPT !.auto = a]
    BY <1>1 DEF HistPages
  <2>2. \/ HistClick(StartAutoRefresh([hist EXCEPT !.auto = a]), {})
        \/ HistClick(StopAutoRefresh([hist EXCEPT !.auto = a]), {})
    BY <1>9, <2>1 DEF ToggleAutoRefresh
  <2> HIDE DEF a
  <2>3. QED
    BY <1>8, <2>2
<1>10. ASSUME NEW i, SelectInterval(i) PROVE AllDue(hist', asked')
  <2> DEFINE a == [hist.auto EXCEPT !.every = i]
  <2>1. [hist EXCEPT !.auto.every = i] = [hist EXCEPT !.auto = a]
    BY <1>1 DEF HistPages
  <2>2. HistClick(StartAutoRefresh(StopAutoRefresh([hist EXCEPT !.auto = a])), {})
    BY <1>10, <2>1 DEF SelectInterval
  <2> HIDE DEF a
  <2>3. QED
    BY <1>8, <2>2
<1>11. ASSUME NEW i, RefreshTick(i) PROVE AllDue(hist', asked')
  BY <1>11 DEF RefreshTick, AllDue, ReportDue, LogsDue, PreloadDue
<1>12. CASE ShowThresholds \/ CloseThresholds
  <2>1. PICK v : HistClick([hist EXCEPT !.modal = v], {})
    BY <1>12 DEF ShowThresholds, CloseThresholds
  <2>2. SameWait([hist EXCEPT !.modal = v], hist)
    BY <1>1 DEF SameWait, WaitFields
  <2>3. QED
    BY <2>1, <2>2, ClickDue
<1>13. ASSUME NEW typed, SaveThresholds(typed) PROVE AllDue(hist', asked')
  <2>1. PICK l, more : HistClick([hist EXCEPT !.modal = FALSE, !.limits = l], more)
    <3> DEFINE l == [c \in Limited |-> IF c \in DOMAIN typed /\ typed[c][1] <= typed[c][2] THEN typed[c] ELSE hist.limits[c]]
               h == [hist EXCEPT !.modal = FALSE, !.limits = l]
    <3>1. HistClick(h, LoadHistoryMetrics(h))
      BY <1>13 DEF SaveThresholds
    <3> HIDE DEF l
    <3>2. QED
      BY <3>1
  <2>2. SameWait([hist EXCEPT !.modal = FALSE, !.limits = l], hist)
    BY <1>1 DEF SameWait, WaitFields
  <2>3. QED
    BY <2>1, <2>2, ClickDue
<1>14. CASE ResetThresholds
  <2>1. SameWait([hist EXCEPT !.limits = DefaultThresholds], hist)
    BY <1>1 DEF SameWait, WaitFields
  <2>2. QED
    BY <1>14, <2>1, ClickDue DEF ResetThresholds
<1>15. ASSUME NEW field, NEW name, SelectSeries(field, name) PROVE AllDue(hist', asked')
  BY <1>1, <1>15, ClickDue DEF SelectSeries
<1>16. CASE ToggleDashboardMode
  <2>1. PICK v, b : HistClick([hist EXCEPT !.tv = v, !.borders = b], {})
    BY <1>16 DEF ToggleDashboardMode
  <2>2. SameWait([hist EXCEPT !.tv = v, !.borders = b], hist)
    BY <1>1 DEF SameWait, WaitFields
  <2>3. QED
    BY <2>1, <2>2, ClickDue
<1>17. CASE GenerateSLAReport
  <2> DEFINE h == [hist EXCEPT !.report = "working"]
             q == Ask("report", NoServer, "")
  <2>1. q.what = "report" /\ h.logs = hist.logs /\ h.preloading = hist.preloading /\ h.opened = hist.opened
    BY <1>1 DEF Ask, HistPages
  <2>2. hist' = h /\ asked' = asked \cup {q}
    BY <1>17 DEF GenerateSLAReport, HistClick
  <2> HIDE DEF h, q
  <2>3. QED
    BY <2>1, <2>2 DEF AllDue, ReportDue, LogsDue, PreloadDue
<1>18. CASE CloseReport
  <2> DEFINE h == [hist EXCEPT !.report = "hidden"]
  <2>1. h.report = "hidden" /\ h.logs = hist.logs /\ h.preloading = hist.preloading /\ h.opened = hist.opened
    BY <1>1 DEF HistPages
  <2>2. hist' = h /\ asked \subseteq asked'
    BY <1>18 DEF CloseReport, HistClick
  <2> HIDE DEF h
  <2>3. QED
    BY <2>1, <2>2 DEF AllDue, ReportDue, LogsDue, PreloadDue
<1>19. CASE Reload
  BY <1>19 DEF Reload, BlankPage, Shown, AllDue, ReportDue, LogsDue, PreloadDue
<1>20. CASE UNCHANGED histVars
  BY <1>20 DEF histVars
<1>21. QED
  BY <1>2, <1>3, <1>4, <1>5, <1>6, <1>7, <1>9, <1>10, <1>11, <1>12, <1>13, <1>14, <1>15, <1>16, <1>17, <1>18,
     <1>19, <1>20, AnswersDue DEF HistoryNext

\* While the report is in the making, a request of it is due; while a host's logs
\* load, one for logs is; and the first visit waits for the caches only while they
\* are asked for (generateSLAReport, loadHistoryMetrics, renderHistory): whatever
\* is selected, closed, asked for twice or fails, the page waits for no answer that
\* is not coming.
HistoryWaitsAreAsked ==
  /\ hist.report = "working" => \E q \in asked : q.what \in {"report", "ask"}
  /\ hist.logs.state = "loading" => \E q \in asked : q.what = "logs"
  /\ hist.preloading /\ ~hist.opened => \E q \in asked : q.what = "preload"

LEMMA DueAlways == HistoryInit /\ [][HistoryNext]_histVars => []HistoryWaitsAreAsked
<1>1. HistoryInit => AllDue(hist, asked)
  <2> SUFFICES ASSUME HistoryInit PROVE AllDue(hist, asked)
    OBVIOUS
  <2>1. hist = BlankPage(DefaultThresholds)
    BY DEF HistoryInit
  <2>2. hist.report = "hidden" /\ hist.logs = Shown("blank", NoServer, "") /\ ~hist.preloading
    BY <2>1 DEF BlankPage
  <2>3. Shown("blank", NoServer, "").state = "blank"
    BY DEF Shown
  <2>4. hist.logs.state = "blank"
    BY <2>2, <2>3
  <2>5. QED
    BY <2>2, <2>4 DEF AllDue, ReportDue, LogsDue, PreloadDue
<1>2. HistSound /\ AllDue(hist, asked) /\ [HistoryNext]_histVars => AllDue(hist, asked)'
  BY DueStep DEF AllDue, ReportDue, LogsDue, PreloadDue
<1>3. AllDue(hist, asked) => HistoryWaitsAreAsked
  BY DEF AllDue, ReportDue, LogsDue, PreloadDue, HistoryWaitsAreAsked
<1>4. QED
  BY <1>1, <1>2, <1>3, SoundAlways, PTL

\* The history page waits for no answer that is not coming (generateSLAReport,
\* loadHistoryMetrics, renderHistory, app.js).
THEOREM HistoryNeverStuck == HistorySpec => []HistoryWaitsAreAsked
  BY DueAlways, PTL DEF HistorySpec
=============================================================================
