-------------------------------- MODULE Shell --------------------------------
(***************************************************************************)
(* What every page has in common: the session, whose token each request    *)
(* carries and any refusal ends; the check of the servers every ten        *)
(* seconds, which sounds an alarm when more of them are down than before   *)
(* and reminds of those that stay down; and the summary page, its health   *)
(* cards and its alerts by host.                                           *)
(***************************************************************************)
EXTENDS Integers, Sequences, FiniteSets, FiniteSetsExt, SequencesExt

CONSTANTS
  ShTools,    \* tools with a list of servers
  ShServers,  \* the servers registered, <<tool, id>>
  ShAlerts,   \* the recent alerts, a sequence
  ShChecks,   \* bound on the checks under way at one time
  ShClicks,   \* bound on the user's actions and the changes of the servers
  ShFailures  \* bound on the requests that fail

Slots     == 1..ShChecks
Reminder  == 6 \* checks that a reminder waits: more than sixty seconds
Severities == 1..3

ASSUME ShellAssumption ==
  /\ ShServers \subseteq ShTools \X Nat /\ IsFiniteSet(ShServers)
  /\ ShAlerts \in Seq([source : ShTools, host : Nat, name : STRING, severity : Severities])
  /\ ShChecks \in Nat \ {0} /\ ShClicks \in Nat /\ ShFailures \in Nat

VARIABLES
  down,    \* servers that are not online
  valid,   \* tokens the server accepts
  shell,   \* the page, see ShellInit
  checks,  \* the lists of each check under way
  loads,   \* requests of a login or of the summary, due
  shClicks, shFailures
shellVars == <<down, valid, shell, checks, loads, shClicks, shFailures>>

NoToken == 0
Due     == [state |-> "due", down |-> {}]
Failed  == [state |-> "failed", down |-> {}]
Listed(servers)   == [state |-> "ok", down |-> servers]
Check(as, lists)  == [on |-> TRUE, as |-> as, lists |-> lists]
NoCheck           == [on |-> FALSE, as |-> NoToken, lists |-> [t \in ShTools |-> Failed]]
Load(what, as, n) == [what |-> what, as |-> as, n |-> n]

\* A new page takes the token the browser kept; nothing has sounded on it.
LoadedPage(token) ==
  [token |-> token, stored |-> token, overlay |-> token = NoToken, refused |-> FALSE,
   menu |-> FALSE, profile |-> FALSE, hidden |-> FALSE,
   last |-> 0, since |-> Reminder + 1, \* lastNotificationCount, lastReminderSoundTime
   sounded |-> FALSE, badge |-> {},
   timers |-> 0, handle |-> FALSE,     \* summaryInterval
   grid |-> "blank", cards |-> [t \in ShTools |-> "inactive"], groups |-> {}]
\* The first check starts with the page.
ShellInit ==
  /\ down = {} /\ valid = {} /\ shell = LoadedPage(NoToken) /\ loads = {}
  /\ checks = [i \in Slots |-> IF i = 1 THEN Check(NoToken, [t \in ShTools |-> Due]) ELSE NoCheck]
  /\ shClicks = 0 /\ shFailures = 0

Quiet(s) == [s EXCEPT !.sounded = FALSE]
\* Mutated: the browser keeps the token.
LogoutKept(s) == [s EXCEPT !.token = NoToken, !.overlay = TRUE]
Logout(s) == [s EXCEPT !.token = NoToken, !.stored = NoToken, !.overlay = TRUE]
\* A 401 ends the session there is, whatever the token it was an answer to.
Refused(s, as) == IF as \in valid THEN s ELSE Logout(s)

----------------------------------------------------------------------------
(* The user and the servers *)

ShClick(s, requests) == /\ shClicks < ShClicks /\ shClicks' = shClicks + 1
                        /\ shell' = Quiet(s) /\ loads' = loads \cup requests
                        /\ UNCHANGED <<down, checks, shFailures>>
Login  == /\ shell.overlay /\ UNCHANGED valid
          /\ ShClick([shell EXCEPT !.refused = FALSE], {Load("login", NoToken, shClicks + 1)})
LogoutClick == ~shell.overlay /\ ShClick(Logout(shell), {}) /\ UNCHANGED valid
ToggleMenu    == ShClick([shell EXCEPT !.menu = ~@], {}) /\ UNCHANGED valid
ToggleProfile == ~shell.overlay /\ ShClick([shell EXCEPT !.profile = ~@], {}) /\ UNCHANGED valid
ClickElsewhere == /\ shell.menu \/ shell.profile
                  /\ ShClick([shell EXCEPT !.menu = FALSE, !.profile = FALSE], {}) /\ UNCHANGED valid
HidePage   == ShClick([shell EXCEPT !.hidden = ~@], {}) /\ UNCHANGED valid
ExpireToken == shell.token \in valid /\ valid' = valid \ {shell.token} /\ ShClick(shell, {})
ServerTurns(s) == /\ shClicks < ShClicks /\ shClicks' = shClicks + 1
                  /\ down' = IF s \in down THEN down \ {s} ELSE down \cup {s}
                  /\ shell' = Quiet(shell) /\ UNCHANGED <<valid, checks, loads, shFailures>>
\* The browser loads the page anew: requests and timers go, the token stays.
ReloadPage == /\ shClicks < ShClicks /\ shClicks' = shClicks + 1
              /\ shell' = LoadedPage(shell.stored) /\ loads' = {}
              /\ checks' = [i \in Slots |-> IF i = 1 THEN Check(shell.stored, [t \in ShTools |-> Due]) ELSE NoCheck]
              /\ UNCHANGED <<down, valid, shFailures>>

\* The summary: an interval there is goes, the new one starts when the first
\* answer has come.
InitSummaryDashboard ==
  /\ UNCHANGED valid
  /\ ShClick(IF shell.handle THEN [shell EXCEPT !.timers = @ - 1, !.handle = FALSE] ELSE shell,
             {Load("first", shell.token, shClicks + 1)})
SummaryTick == /\ shell.timers > 0 /\ loads' = loads \cup {Load("again", shell.token, 0)}
               /\ shell' = Quiet(shell) /\ UNCHANGED <<down, valid, checks, shClicks, shFailures>>

----------------------------------------------------------------------------
(* The check of the servers *)

\* Every ten seconds, unless the page is hidden.
RefreshAll ==
  /\ LET s == [Quiet(shell) EXCEPT !.since = Min({@ + 1, Reminder + 1})] IN shell' = s
  /\ IF shell.hidden THEN UNCHANGED checks
     ELSE \E i \in Slots : /\ ~checks[i].on
                           /\ checks' = [checks EXCEPT ![i] = Check(shell.token, [t \in ShTools |-> Due])]
  /\ UNCHANGED <<down, valid, loads, shClicks, shFailures>>
ListSettles(i, t) ==
  /\ checks[i].on /\ checks[i].lists[t].state = "due"
  /\ \/ /\ UNCHANGED shFailures
        /\ checks' = [checks EXCEPT ![i].lists[t] = IF checks[i].as \in valid THEN Listed({s \in down : s[1] = t}) ELSE Failed]
        /\ shell' = Quiet(Refused(shell, checks[i].as))
     \/ /\ shFailures < ShFailures /\ shFailures' = shFailures + 1
        /\ checks' = [checks EXCEPT ![i].lists[t] = Failed] /\ shell' = Quiet(shell)
  /\ UNCHANGED <<down, valid, loads, shClicks>>

\* A list that failed counts no server; a fall of the count is not remembered as
\* a reminder, a count of none forgets the last one.
OfflineServers(i) == UNION {checks[i].lists[t].down : t \in ShTools}
Sound(s) == [s EXCEPT !.sounded = TRUE, !.since = 0]
\* Mutated: every check that finds a server down puts the reminder off.
AlarmPutOff(s, count) == IF count > s.last THEN Sound(s)
                         ELSE IF count = 0 THEN [s EXCEPT !.since = Reminder + 1]
                         ELSE IF s.since > Reminder THEN Sound(s) ELSE [s EXCEPT !.since = 0]
Alarm(s, count) == IF count > s.last \/ (count > 0 /\ s.since > Reminder) THEN Sound(s)
                   ELSE IF count = 0 THEN [s EXCEPT !.since = Reminder + 1] ELSE s
CheckServerStatus(i) ==
  /\ checks[i].on /\ \A t \in ShTools : checks[i].lists[t].state # "due"
  /\ LET offline == OfflineServers(i) IN
     shell' = [Alarm(Quiet(shell), Cardinality(offline)) EXCEPT !.last = Cardinality(offline), !.badge = offline]
  /\ checks' = [checks EXCEPT ![i] = NoCheck]
  /\ UNCHANGED <<down, valid, loads, shClicks, shFailures>>

----------------------------------------------------------------------------
(* The answers of the login and of the summary *)

\* One card per tool.
RenderHealthGrid ==
  [t \in ShTools |-> IF {s \in down : s[1] = t} # {} THEN "critical"
                     ELSE IF {s \in ShServers : s[1] = t} = {} THEN "inactive" ELSE "online"]
\* Alerts of one source and host are one card, those without a host go by name;
\* source and link are those of the first alert, the colour that of the worst.
AlertKey(a) == IF a.host # 0 THEN <<a.source, a.host>> ELSE <<a.name, 0>>
AlertGroup(key) ==
  LET ofKey == SelectSeq(ShAlerts, LAMBDA a : AlertKey(a) = key) IN
  [key |-> key, tool |-> ofKey[1].source, linked |-> ofKey[1].host # 0,
   worst |-> Max({ofKey[i].severity : i \in DOMAIN ofKey})]
RenderAlerts == {AlertGroup(AlertKey(a)) : a \in ToSet(ShAlerts)}

Settled(l, s) == l \in loads /\ loads' = loads \ {l} /\ shell' = Quiet(s) /\ UNCHANGED <<down, checks, shClicks>>
\* The summary is not loaded after a login: its function is not one of the window.
LoginAnswer(l) ==
  /\ l.what = "login"
  /\ \/ /\ UNCHANGED shFailures /\ valid' = valid \cup {l.n}
        /\ Settled(l, [shell EXCEPT !.token = l.n, !.stored = l.n, !.overlay = FALSE])
     \/ /\ shFailures < ShFailures /\ shFailures' = shFailures + 1 /\ UNCHANGED valid
        /\ Settled(l, [shell EXCEPT !.refused = TRUE])
WithInterval(l, s) == IF l.what = "first" THEN [s EXCEPT !.timers = @ + 1, !.handle = TRUE] ELSE s
\* An error only shows on an empty grid.
SummaryAnswer(l) ==
  /\ l.what \in {"first", "again"} /\ UNCHANGED valid
  /\ \/ /\ UNCHANGED shFailures /\ l.as \in valid
        /\ Settled(l, WithInterval(l, [shell EXCEPT !.grid = "cards", !.cards = RenderHealthGrid, !.groups = RenderAlerts]))
     \/ /\ IF l.as \in valid THEN shFailures < ShFailures /\ shFailures' = shFailures + 1 ELSE UNCHANGED shFailures
        /\ Settled(l, WithInterval(l, [Refused(shell, l.as) EXCEPT !.grid = IF @ = "blank" THEN "error" ELSE @]))

ShellNext ==
  \/ Login \/ LogoutClick \/ ToggleMenu \/ ToggleProfile \/ ClickElsewhere \/ HidePage \/ ExpireToken
  \/ ReloadPage \/ InitSummaryDashboard \/ SummaryTick \/ RefreshAll
  \/ \E s \in ShServers : ServerTurns(s)
  \/ \E i \in Slots : CheckServerStatus(i) \/ \E t \in ShTools : ListSettles(i, t)
  \/ \E l \in loads : LoginAnswer(l) \/ SummaryAnswer(l)

\* The timer keeps ticking; each list comes or fails.
ShellFairness ==
  /\ WF_shellVars(RefreshAll)
  /\ \A i \in Slots : WF_shellVars(CheckServerStatus(i)) /\ \A t \in ShTools : WF_shellVars(ListSettles(i, t))
ShellSpec == ShellInit /\ [][ShellNext]_shellVars /\ ShellFairness

----------------------------------------------------------------------------
(* Properties *)

\* Every variable has its type; the browser keeps the token of the page.
ShellTypeOK ==
  /\ shell = [x \in DOMAIN LoadedPage(NoToken) |-> shell[x]]
  /\ down \subseteq ShServers /\ valid \subseteq 1..ShClicks
  /\ shell.token \in 0..ShClicks /\ shell.stored = shell.token /\ shell.overlay = (shell.token = NoToken)
  /\ \A x \in {"refused", "menu", "profile", "hidden", "sounded", "handle"} : shell[x] \in BOOLEAN
  /\ shell.last \in 0..Cardinality(ShServers) /\ shell.since \in 0..(Reminder + 1) /\ shell.badge \subseteq ShServers
  /\ shell.timers \in Nat /\ shell.grid \in {"blank", "error", "cards"}
  /\ shell.cards \in [ShTools -> {"inactive", "critical", "online"}] /\ shell.groups \in {{}, RenderAlerts}
  /\ checks \in [Slots -> [on : BOOLEAN, as : 0..ShClicks,
                           lists : [ShTools -> [state : {"due", "failed", "ok"}, down : SUBSET ShServers]]]]
  /\ loads \subseteq [what : {"login", "first", "again"}, as : 0..ShClicks, n : 0..ShClicks]
  /\ shClicks \in 0..ShClicks /\ shFailures \in 0..ShFailures

\* While a server stays down the alarm sounds again and again on a page that is
\* visible and logged in, however checks overlap and whichever of their lists
\* have failed before (checkServerStatus resets the count and the reminder on
\* every check).
NoSilentOutage == []<>(down = {} \/ shell.hidden \/ shell.token \notin valid \/ shell.sounded)
=============================================================================
