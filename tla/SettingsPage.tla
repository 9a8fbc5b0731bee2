---------------------------- MODULE SettingsPage ----------------------------
(***************************************************************************)
(* The settings page: one list of servers and one form for the tools, the  *)
(* category of which is a variable of the page, and one panel that the     *)
(* assistant's settings and the system's tabs share.  Every list, tab and  *)
(* form is filled by an answer that may come after the user has moved on.  *)
(* showNotification is called and defined nowhere: what follows a call of  *)
(* it is skipped, and the user is told of an error.                        *)
(***************************************************************************)
EXTENDS Naturals, FiniteSets, Sequences

CONSTANTS
  SetCategories, \* tools whose servers the page manages
  SetIds,        \* ids of servers, from 1
  SetRegistered, \* the servers registered at first, <<category, id>>
  SetAdmin,      \* whether the user is an administrator
  SetClicks,     \* bound on the user's actions
  SetAsked,      \* the user acts while fewer answers than this are due
  SetFailures    \* bound on the requests that fail

Servers == SetCategories \X SetIds
Tabs    == {"status", "notifications"} \cup IF SetAdmin THEN {"users"} ELSE {}
Dialogs == {"self", "create", "edit", "password"}
\* The three requests of the notification settings, in this order.
Parts   == <<"notifications", "metrics", "logs">>

ASSUME SettingsAssumption ==
  /\ "kvm" \in SetCategories /\ SetCategories \cap {"nala-ia", "system"} = {}
  /\ SetIds \subseteq Nat \ {0} /\ SetRegistered \subseteq Servers
  /\ SetAdmin \in BOOLEAN /\ SetClicks \in Nat /\ SetAsked \in Nat /\ SetFailures \in Nat

VARIABLES
  servers,  \* the servers registered
  settings, \* the page, see SettingsInit
  replies,  \* requests whose answer is due
  stored,   \* history: <<save, part>> the server accepted
  told,     \* history: <<save, what the user was told of it>>
  setClicks, setFailures
setVars == <<servers, settings, replies, stored, told, setClicks, setFailures>>

Request(what, of, id, n) == [what |-> what, of |-> of, id |-> id, n |-> n]
\* A list with the servers it shows; an empty form creates a server.
ServerList(state, of)       == [state |-> state, of |-> of]
ServerForm(id, key, optional) == [id |-> id, key |-> key, optional |-> optional]
\* A file that was chosen shows its name; only a stored key has a content.
Keys == {"none", "named", "stored"}

SettingsInit ==
  /\ servers = SetRegistered
  /\ settings = [opened |-> FALSE, category |-> "kvm", list |-> ServerList("blank", {}),
                 form |-> ServerForm(0, "none", FALSE), kube |-> FALSE,
                 custom |-> "nothing", tabs |-> [t \in Tabs |-> "blank"], tab |-> "status",
                 times |-> 0, dialogs |-> {}, users |-> FALSE, ldap |-> "default", testing |-> FALSE]
  /\ replies = {} /\ stored = {} /\ told = {} /\ setClicks = 0 /\ setFailures = 0

----------------------------------------------------------------------------
(* The user.  A save is numbered by the click it started with. *)

SetClick(s, asked) == /\ setClicks < SetClicks /\ setClicks' = setClicks + 1
                      /\ Cardinality(replies) < SetAsked
                      /\ settings' = s /\ replies' = replies \cup asked
                      /\ UNCHANGED <<servers, stored, told, setFailures>>
OnForm   == settings.opened /\ settings.category \in SetCategories
OnTab(t) == settings.custom = "tabs" /\ settings.category = "system" /\ t \in Tabs /\ settings.tab = t

\* updateK8sLabels: the labels are those of the last cluster form.
K8sLabels(s, hasKube) == IF s.category = "kubernetes" THEN [s EXCEPT !.form.optional = hasKube] ELSE s
ResetSettingsForm(s)  == K8sLabels([s EXCEPT !.form.id = 0, !.form.key = "none", !.kube = FALSE], FALSE)

\* The list is blank while its request is due, whatever its category.
ListRequest(s) == {Request("list", s.category, 0, 0)}
Loading(s)     == [s EXCEPT !.list = ServerList("loading", {})]
LoadSettingsCategory(c) ==
  LET s == [settings EXCEPT !.category = c, !.opened = TRUE] IN
  SetClick(Loading(ResetSettingsForm(s)), ListRequest(s))
InitSettings      == ~settings.opened /\ LoadSettingsCategory("kvm")
SelectCategory(c) == settings.opened /\ LoadSettingsCategory(c)

ChooseFile(s, file) == IF file = "key" THEN [s EXCEPT !.form.key = "named"]
                       ELSE K8sLabels([s EXCEPT !.kube = TRUE], TRUE)
UploadFile(file) == OnForm /\ SetClick(ChooseFile(settings, file), {})

\* A row of the list; the category is that of the page, not of the row.
EditSettingsServer(s) ==
  /\ OnForm /\ s \in settings.list.of
  /\ SetClick(K8sLabels([settings EXCEPT !.form.id = s[2], !.form.key = "stored", !.kube = s[1] = "kubernetes"],
                        s[1] = "kubernetes"), {})
CancelEdit == OnForm /\ SetClick(ResetSettingsForm(settings), {})

\* A name, an address and a user; a cluster needs none of them with its file.
Complete(filled) == filled \/ (settings.category = "kubernetes" /\ settings.kube)
SaveSettingsServer(filled) ==
  /\ OnForm /\ Complete(filled)
  /\ SetClick(settings, {Request("save", settings.category, settings.form.id, setClicks + 1)})
DeleteSettingsServer(s) ==
  /\ OnForm /\ s \in settings.list.of
  /\ SetClick(settings, {Request("delete", settings.category, s[2], setClicks + 1)})

\* The panel keeps what it showed until the assistant's settings have come.
ShowNalaIAPanel == settings.opened /\ SetClick([settings EXCEPT !.category = "nala-ia"], {Request("nala", "nala", 0, 0)})
SaveNalaIAConfig == /\ settings.category = "nala-ia" /\ settings.custom = "nala"
                    /\ SetClick(settings, {Request("saveNala", "nala", 0, setClicks + 1)})

SystemTabs(s) == [s EXCEPT !.category = "system", !.custom = "tabs", !.times = @ + 1, !.tab = "status",
                           !.tabs = [t \in Tabs |-> "loading"], !.ldap = "default"]
TabRequests(s) == {Request("tab", t, 0, s.times + 1) : t \in Tabs}
ShowSystemPanel    == settings.opened /\ SetClick(SystemTabs(settings), TabRequests(settings))
SwitchSystemTab(t) == /\ settings.custom = "tabs" /\ settings.category = "system" /\ t # settings.tab
                      /\ SetClick([settings EXCEPT !.tab = t], {})

OpenDialog(d) ==
  /\ d = "self" \/ (OnTab("users") /\ settings.tabs["users"] = "ready")
  /\ d = "edit" => settings.users
  /\ SetClick([settings EXCEPT !.dialogs = @ \cup {d}], {})
CloseDialog(d)  == d \in settings.dialogs /\ SetClick([settings EXCEPT !.dialogs = @ \ {d}], {})
SubmitDialog(d) == d \in settings.dialogs /\ SetClick(settings, {Request("dialog", d, 0, setClicks + 1)})
DeleteUser      == /\ OnTab("users") /\ settings.tabs["users"] = "ready"
                   /\ SetClick(settings, {Request("dialog", "delete", 0, setClicks + 1)})
\* Refused when it is switched on without an address.
SaveLDAPConfig(on, filled) ==
  /\ OnTab("users") /\ settings.tabs["users"] = "ready" /\ (on => filled)
  /\ SetClick([settings EXCEPT !.ldap = IF on THEN "on" ELSE "off"], {Request("saveLDAP", "ldap", 0, setClicks + 1)})

OnNotifications == OnTab("notifications") /\ settings.tabs["notifications"] = "ready"
SaveNotificationSettings == OnNotifications /\ SetClick(settings, {Request("saveAll", "all", 1, setClicks + 1)})
TestNotification == /\ OnNotifications /\ ~settings.testing
                    /\ SetClick([settings EXCEPT !.testing = TRUE], {Request("test", "test", 0, setClicks + 1)})

----------------------------------------------------------------------------
(* The answers: good ones, refusals and requests that fail *)

Reply(r, s, asked) == r \in replies /\ settings' = s /\ replies' = (replies \ {r}) \cup asked
Good  == UNCHANGED setFailures
Bad   == setFailures < SetFailures /\ setFailures' = setFailures + 1
Told(r, what) == told' = told \cup {<<r.n, what>>}
Same  == UNCHANGED <<servers, stored, told, setClicks>>

\* The servers of the category asked for fill the list whatever it is by now.
ListAnswer(r) ==
  /\ r.what = "list" /\ Good /\ Same
  /\ LET rows == {s \in servers : s[1] = r.of} IN
       Reply(r, [settings EXCEPT !.list = ServerList(IF rows = {} THEN "empty" ELSE "rows", rows)], {})
\* Mutated: a list that could not be loaded is left as it is.
ListStuck(r)  == r.what = "list" /\ Bad /\ Same /\ Reply(r, settings, {})
ListFailed(r) == r.what = "list" /\ Bad /\ Same /\ Reply(r, [settings EXCEPT !.list = ServerList("error", {})], {})

\* A saved server empties the form and lists the category of the page anew.
Registering(r) == <<r.of, IF r.id # 0 THEN r.id ELSE CHOOSE i \in SetIds : <<r.of, i>> \notin servers>>
Room(r)        == r.id # 0 \/ \E i \in SetIds : <<r.of, i>> \notin servers
ServerSaved(r) ==
  /\ r.what = "save" /\ Room(r) /\ Good
  /\ servers' = IF r.id = 0 THEN servers \cup {Registering(r)} ELSE servers
  /\ Reply(r, Loading(ResetSettingsForm(settings)), ListRequest(settings))
  /\ UNCHANGED <<stored, told, setClicks>>
ServerDeleted(r) ==
  /\ r.what = "delete" /\ Good
  /\ servers' = servers \ {<<r.of, r.id>>}
  /\ Reply(r, Loading(settings), ListRequest(settings))
  /\ UNCHANGED <<stored, told, setClicks>>
ServerRefused(r) == /\ r.what \in {"save", "delete"} /\ Bad
                    /\ Told(r, "error") /\ Reply(r, settings, {}) /\ UNCHANGED <<servers, stored, setClicks>>

\* The defaults when the settings cannot be read.
NalaForm(r) == /\ r.what = "nala" /\ (Good \/ Bad) /\ Same
               /\ Reply(r, [settings EXCEPT !.custom = "nala"], {})
NalaSaved(r) == /\ r.what = "saveNala" /\ Reply(r, settings, {})
                /\ \/ Good /\ Told(r, "done")
                   \/ Bad /\ Told(r, "error")
                /\ UNCHANGED <<servers, stored, setClicks>>

\* An answer fills the tab it was asked for, which a newer panel has replaced.
Filled(r, how) == IF r.n = settings.times /\ settings.custom = "tabs" THEN [settings EXCEPT !.tabs[r.of] = how] ELSE settings
StatusPanel(r)   == r.what = "tab" /\ r.of = "status" /\ Good /\ Same /\ Reply(r, Filled(r, "ready"), {})
UserManagement(r) ==
  /\ r.what = "tab" /\ r.of = "users" /\ Good /\ Same
  /\ Reply(r, [Filled(r, "ready") EXCEPT !.users = TRUE], {Request("ldap", "ldap", 0, 0)})
NotificationForm(r) == r.what = "tab" /\ r.of = "notifications" /\ Good /\ Same /\ Reply(r, Filled(r, "ready"), {})
TabFailed(r) == r.what = "tab" /\ Bad /\ Same /\ Reply(r, Filled(r, "error"), {})
LDAPLoaded(r) ==
  /\ r.what = "ldap" /\ Good /\ Same
  /\ \E how \in {"on", "off"} :
       Reply(r, IF settings.custom = "tabs" /\ settings.tabs["users"] = "ready" THEN [settings EXCEPT !.ldap = how] ELSE settings, {})
LDAPUnknown(r) == r.what = "ldap" /\ Bad /\ Same /\ Reply(r, settings, {})
LDAPSaved(r)   == r.what = "saveLDAP" /\ Told(r, "error") /\ Reply(r, settings, {}) /\ (Good \/ Bad) /\ UNCHANGED <<servers, stored, setClicks>>

\* The user is told of an error even when the server did it; the address of an
\* edit does not exist.
DialogDone(r) ==
  /\ r.what = "dialog" /\ Told(r, "error")
  /\ \/ Good /\ Reply(r, IF r.of = "edit" THEN settings ELSE [settings EXCEPT !.dialogs = @ \ {r.of}], {})
     \/ Bad /\ Reply(r, settings, {})
  /\ UNCHANGED <<servers, stored, setClicks>>

\* The three requests follow each other whether or not they are accepted, unless
\* one fails to be sent; the user is told all is saved when all were accepted.
AllParts(r)  == {<<r.n, Parts[i]>> : i \in DOMAIN Parts}
Following(r) == IF r.id < Len(Parts) THEN {Request("saveAll", r.of, r.id + 1, r.n)} ELSE {}
\* Mutated: the answer to the last of them alone tells what the user is told.
LastTells(r) ==
  /\ r.what = "saveAll" /\ Reply(r, settings, Following(r))
  /\ \/ Good /\ stored' = stored \cup {<<r.n, Parts[r.id]>>} /\ IF r.id = Len(Parts) THEN Told(r, "saved") ELSE UNCHANGED told
     \/ Bad /\ UNCHANGED stored /\ IF r.id = Len(Parts) THEN Told(r, "error") ELSE UNCHANGED told
  /\ UNCHANGED <<servers, setClicks>>
SettingsSaved(r) ==
  /\ r.what = "saveAll" /\ Reply(r, settings, Following(r))
  /\ \/ Good /\ stored' = stored \cup {<<r.n, Parts[r.id]>>}
     \/ Bad /\ UNCHANGED stored
  /\ IF r.id < Len(Parts) THEN UNCHANGED told
     ELSE Told(r, IF AllParts(r) \subseteq stored' THEN "saved" ELSE "error")
  /\ UNCHANGED <<servers, setClicks>>
SettingsUnsent(r) == /\ r.what = "saveAll" /\ Bad /\ Told(r, "error") /\ Reply(r, settings, {})
                     /\ UNCHANGED <<servers, stored, setClicks>>

TestSent(r) == /\ r.what = "test" /\ Reply(r, [settings EXCEPT !.testing = FALSE], {})
               /\ \/ Good /\ Told(r, "done")
                  \/ Bad /\ Told(r, "error")
               /\ UNCHANGED <<servers, stored, setClicks>>

----------------------------------------------------------------------------
SetUser == \/ InitSettings \/ \E c \in SetCategories : SelectCategory(c)
           \/ \E file \in {"key", "kubeconfig"} : UploadFile(file)
           \/ \E s \in Servers : EditSettingsServer(s) \/ DeleteSettingsServer(s)
           \/ CancelEdit \/ \E filled \in BOOLEAN : SaveSettingsServer(filled)
           \/ ShowNalaIAPanel \/ SaveNalaIAConfig \/ ShowSystemPanel \/ \E t \in Tabs : SwitchSystemTab(t)
           \/ \E d \in Dialogs : OpenDialog(d) \/ CloseDialog(d) \/ SubmitDialog(d)
           \/ DeleteUser \/ \E on, filled \in BOOLEAN : SaveLDAPConfig(on, filled)
           \/ SaveNotificationSettings \/ TestNotification

SetReply(r) == \/ ListAnswer(r) \/ ListFailed(r) \/ ServerSaved(r) \/ ServerDeleted(r) \/ ServerRefused(r)
               \/ NalaForm(r) \/ NalaSaved(r) \/ StatusPanel(r) \/ UserManagement(r) \/ NotificationForm(r)
               \/ TabFailed(r) \/ LDAPLoaded(r) \/ LDAPUnknown(r) \/ LDAPSaved(r) \/ DialogDone(r)
               \/ SettingsSaved(r) \/ SettingsUnsent(r) \/ TestSent(r)

SetNext == SetUser \/ \E r \in replies : SetReply(r)
\* The requests are answered, in any order.
SetFairness == WF_setVars(\E r \in replies : SetReply(r))
SetSpec == SettingsInit /\ [][SetNext]_setVars /\ SetFairness

----------------------------------------------------------------------------
(* Properties *)

SetWhats == {"list", "save", "delete", "nala", "saveNala", "tab", "ldap", "saveLDAP", "dialog", "saveAll", "test"}
\* Every variable has its type; the form is that of a server or a new one, and
\* the servers registered are of the page's categories.
SettingsTypeOK ==
  /\ servers \subseteq Servers
  /\ settings = [opened |-> settings.opened, category |-> settings.category, list |-> settings.list,
                 form |-> settings.form, kube |-> settings.kube, custom |-> settings.custom, tabs |-> settings.tabs,
                 tab |-> settings.tab, times |-> settings.times, dialogs |-> settings.dialogs,
                 users |-> settings.users, ldap |-> settings.ldap, testing |-> settings.testing]
  /\ settings.category \in SetCategories \cup {"nala-ia", "system"}
  /\ settings.list.state \in {"blank", "loading", "empty", "rows", "error"} /\ settings.list.of \subseteq Servers
  /\ settings.form \in [id : SetIds \cup {0}, key : Keys, optional : BOOLEAN] /\ settings.kube \in BOOLEAN
  /\ settings.custom \in {"nothing", "nala", "tabs"} /\ settings.tab \in Tabs
  /\ settings.tabs \in [Tabs -> {"blank", "loading", "ready", "error"}] /\ settings.dialogs \subseteq Dialogs
  /\ \A r \in replies : r = Request(r.what, r.of, r.id, r.n) /\ r.what \in SetWhats
  /\ \A t \in told : t[1] \in 1..SetClicks /\ t[2] \in {"saved", "done", "error"}
  /\ setClicks \in 0..SetClicks /\ setFailures \in 0..SetFailures

\* Nobody is told that the notification settings are saved unless the server has
\* accepted the channels and both retention times of that very save: three
\* requests, any of which may be refused (saveNotificationSettings).
ToldSavedIsSaved == \A t \in told : t[2] = "saved" => \A i \in DOMAIN Parts : <<t[1], Parts[i]>> \in stored

\* The list of servers does not stay at "loading": whatever categories the user
\* goes through, saves and deletes, an answer or a failure replaces it at last.
ListLoads == <>[](settings.list.state # "loading")
=============================================================================
