------------------------------ MODULE LogsPage ------------------------------
(***************************************************************************)
(* The page of the logs: the application's own, refreshed every three      *)
(* seconds by a timer, and those of the hosts of one tool, with one search *)
(* text for both.  One element shows whichever came last: the timer knows  *)
(* nothing of the category, which the sidebar offers for hosts only, and   *)
(* going to another page does not stop it.                                 *)
(***************************************************************************)
EXTENDS Naturals

CONSTANTS
  LogTools,    \* tools with logs of their hosts
  LogFilters,  \* the search texts, "" among them
  LogClicks,   \* bound on the user's actions
  LogFailures  \* bound on the requests that fail

ASSUME LogsAssumption == /\ "" \in LogFilters /\ "kvm" \in LogTools /\ "all" \notin LogTools
                         /\ LogClicks \in Nat /\ LogFailures \in Nat

VARIABLES
  logs,  \* the page, see LogsInit
  sent,  \* requests whose answer is due
  logClicks, logFailures
logVars == <<logs, sent, logClicks, logFailures>>

\* What is asked for and what is shown: a category and the text searched.
Listing(of, filter) == [of |-> of, filter |-> filter]
Listings == [of : LogTools \cup {"all", "blank", "error", "cleanup"}, filter : LogFilters]

LogsInit ==
  /\ logs = [opened |-> FALSE, visible |-> FALSE, paused |-> FALSE, \* logsPaused
             timers |-> 0,    \* intervals that run
             handle |-> FALSE, \* logsAutoRefreshInterval
             category |-> "kvm", filter |-> "", content |-> Listing("blank", "")]
  /\ sent = {} /\ logClicks = 0 /\ logFailures = 0

StopLogsRefresh(l)   == IF l.handle THEN [l EXCEPT !.timers = @ - 1, !.handle = FALSE] ELSE l
\* Mutated: a timer that runs is not stopped first.
StartAnotherRefresh(l) == IF l.paused THEN l ELSE [l EXCEPT !.timers = @ + 1, !.handle = TRUE]
StartLogsRefresh(l)  == LET s == StopLogsRefresh(l) IN IF l.paused THEN s ELSE [s EXCEPT !.timers = @ + 1, !.handle = TRUE]

FetchAppLogs(l)     == {Listing("all", l.filter)}
\* Host logs are filtered when they come, by the text searched then.
FetchHostLogsDB(l)  == {Listing(l.category, "")}

----------------------------------------------------------------------------
LogClick(l, asked) == /\ logClicks < LogClicks /\ logClicks' = logClicks + 1
                      /\ logs' = l /\ sent' = sent \cup asked /\ UNCHANGED logFailures

\* The first visit writes the sidebar and asks for the application's logs.
InitLogs  == /\ ~logs.visible
             /\ LogClick(StartLogsRefresh([logs EXCEPT !.opened = TRUE, !.visible = TRUE]),
                         IF logs.opened THEN {} ELSE FetchAppLogs(logs))
LeaveLogs == logs.visible /\ LogClick([logs EXCEPT !.visible = FALSE], {})
CloseLogs == logs.visible /\ LogClick([StopLogsRefresh(logs) EXCEPT !.visible = FALSE], {})

TogglePause == /\ logs.visible
               /\ LET l == [logs EXCEPT !.paused = ~@] IN
                  LogClick(IF l.paused THEN StopLogsRefresh(l) ELSE StartLogsRefresh(l), {})
Search(f)   == logs.visible /\ LET l == [logs EXCEPT !.filter = f] IN LogClick(l, FetchHostLogsDB(l))
SelectLogCategory(c) == logs.visible /\ LET l == [logs EXCEPT !.category = c] IN LogClick(l, FetchHostLogsDB(l))
CleanupAllLogs       == logs.visible /\ LogClick(logs, {Listing("cleanup", "")})

\* Mutated: the timer goes on with the text searched when the page was opened.
RefreshUnsearched == /\ logs.timers > 0 /\ sent' = sent \cup {Listing("all", "")}
                     /\ UNCHANGED <<logs, logClicks, logFailures>>
RefreshLogs       == /\ logs.timers > 0 /\ sent' = sent \cup FetchAppLogs(logs)
                     /\ UNCHANGED <<logs, logClicks, logFailures>>

Received(r, l, asked) == r \in sent /\ logs' = l /\ sent' = (sent \ {r}) \cup asked /\ UNCHANGED logClicks
AppLogsAnswer(r) == /\ r.of = "all" /\ Received(r, [logs EXCEPT !.content = r], {})
                    /\ UNCHANGED logFailures
HostListAnswer(r) == /\ r.of \in LogTools /\ Received(r, [logs EXCEPT !.content = Listing(r.of, logs.filter)], {})
                     /\ UNCHANGED logFailures
\* All logs are gone: those of the category are asked for again.
CleanupAnswer(r) == /\ r.of = "cleanup" /\ Received(r, logs, FetchHostLogsDB(logs))
                    /\ UNCHANGED logFailures
LogsFailed(r)    == /\ logFailures < LogFailures /\ logFailures' = logFailures + 1
                    /\ Received(r, IF r.of = "cleanup" THEN logs ELSE [logs EXCEPT !.content = Listing("error", "")], {})

LogsAnswer(r) == AppLogsAnswer(r) \/ HostListAnswer(r) \/ CleanupAnswer(r)
LogsNext == \/ InitLogs \/ LeaveLogs \/ CloseLogs \/ TogglePause \/ CleanupAllLogs \/ RefreshLogs
            \/ \E f \in LogFilters : Search(f)
            \/ \E c \in LogTools : SelectLogCategory(c)
            \/ \E r \in sent : LogsAnswer(r) \/ LogsFailed(r)

\* The timer keeps ticking; each request is answered.
LogsFairness == WF_logVars(RefreshLogs) /\ \A r \in Listings : WF_logVars(LogsAnswer(r))
LogsSpec == LogsInit /\ [][LogsNext]_logVars /\ LogsFairness

----------------------------------------------------------------------------
(* Properties *)

\* Every variable has its type.
LogsTypeOK ==
  /\ logs = [opened |-> logs.opened, visible |-> logs.visible, paused |-> logs.paused, timers |-> logs.timers,
             handle |-> logs.handle, category |-> logs.category, filter |-> logs.filter, content |-> logs.content]
  /\ logs.opened \in BOOLEAN /\ logs.visible \in BOOLEAN /\ logs.paused \in BOOLEAN /\ logs.timers \in Nat
  /\ logs.handle \in BOOLEAN /\ logs.category \in LogTools /\ logs.filter \in LogFilters
  /\ logs.content \in Listings
  /\ sent \subseteq Listings /\ logClicks \in 0..LogClicks /\ logFailures \in 0..LogFailures

\* At most one timer refreshes the logs, one that the page can still stop, and
\* none while the user has paused it: entering the page again, whether it was
\* left or closed, and pausing in any order never leaves a timer behind.
OneRefresher == /\ logs.timers = IF logs.handle THEN 1 ELSE 0
                /\ logs.paused => logs.timers = 0

\* While the timer runs the page comes to show the application's logs for the
\* text searched last, whatever answers of earlier searches and of the hosts'
\* logs come in between (fetchAppLogs reads the text when the timer fires).
LogsCatchUp == <>[](logs.timers > 0 => logs.content = Listing("all", logs.filter))
=============================================================================
