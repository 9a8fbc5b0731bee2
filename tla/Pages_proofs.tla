---------------------------- MODULE Pages_proofs ----------------------------
(***************************************************************************)
(* What the parts of the front end promise holds while they run side by    *)
(* side: a step of the front end is one of one part, or it leaves that     *)
(* part alone.  The settings and the logs, whose proofs are short, have    *)
(* them here.  Settings: only the answer that finds all three parts of its *)
(* own save accepted tells that they are saved, and what the server has    *)
(* accepted it keeps.  Logs: a timer that runs has its handle, so that     *)
(* stopping it before the next one starts stops all there are.  Shell and  *)
(* consoles: what their types need of the requests under way, the interval *)
(* of the summary and the sockets a page has left.                         *)
(***************************************************************************)
EXTENDS Pages, GeoQueue_proofs, HistoryPage_proofs

----------------------------------------------------------------------------
(* The settings page *)

\* An answer that tells of anything but of settings saved, or nothing at all.
TellsOther == /\ stored \subseteq stored'
              /\ \E r \in replies : told' \in {told, told \cup {<<r.n, "done">>}, told \cup {<<r.n, "error">>}}

\* What was told and accepted is kept.
LEMMA OtherTold == ASSUME ToldSavedIsSaved, TellsOther PROVE ToldSavedIsSaved'
<1> SUFFICES ASSUME NEW t \in told', t[2] = "saved", NEW i \in DOMAIN Parts
             PROVE  <<t[1], Parts[i]>> \in stored'
  BY DEF ToldSavedIsSaved
<1>1. t \in told
  BY DEF TellsOther
<1>2. QED
  BY <1>1 DEF ToldSavedIsSaved, TellsOther

\* The answer that tells of settings saved has found each part accepted.
LEMMA AllTold == ASSUME ToldSavedIsSaved, NEW r \in replies, SettingsSaved(r) PROVE ToldSavedIsSaved'
<1> SUFFICES ASSUME NEW t \in told', t[2] = "saved", NEW i \in DOMAIN Parts
             PROVE  <<t[1], Parts[i]>> \in stored'
  BY DEF ToldSavedIsSaved
<1>1. stored \subseteq stored'
  BY DEF SettingsSaved
<1>2. CASE t \in told
  BY <1>1, <1>2 DEF ToldSavedIsSaved
<1>3. CASE t \notin told
  <2>1. t = <<r.n, IF AllParts(r) \subseteq stored' THEN "saved" ELSE "error">>
    BY <1>3 DEF SettingsSaved, Told
  <2>2. t[1] = r.n /\ AllParts(r) \subseteq stored'
    BY <2>1
  <2>3. <<r.n, Parts[i]>> \in AllParts(r)
    BY DEF AllParts
  <2>4. QED
    BY <2>2, <2>3
<1>4. QED
  BY <1>2, <1>3

\* No click of the user tells anything.
LEMMA UserTellsNothing == SetUser => UNCHANGED <<stored, told>>
  BY DEF SetUser, SetClick, InitSettings, SelectCategory, LoadSettingsCategory, UploadFile, EditSettingsServer,
         DeleteSettingsServer, CancelEdit, SaveSettingsServer, ShowNalaIAPanel, SaveNalaIAConfig, ShowSystemPanel,
         SwitchSystemTab, OpenDialog, CloseDialog, SubmitDialog, DeleteUser, SaveLDAPConfig,
         SaveNotificationSettings, TestNotification

\* Nor does an answer but that of the settings tell that they are saved.
LEMMA ReplyTellsOther == ASSUME NEW r \in replies, SetReply(r), ~SettingsSaved(r) PROVE TellsOther
  BY DEF SetReply, TellsOther, Told, Same, ListAnswer, ListFailed, ServerSaved, ServerDeleted, ServerRefused,
         NalaForm, NalaSaved, StatusPanel, UserManagement, NotificationForm, TabFailed, LDAPLoaded, LDAPUnknown,
         LDAPSaved, DialogDone, SettingsUnsent, TestSent

\* Every step keeps what was told true.
LEMMA ToldSavedStep == ToldSavedIsSaved /\ [SetNext]_setVars => ToldSavedIsSaved'
<1> SUFFICES ASSUME ToldSavedIsSaved, [SetNext]_setVars PROVE ToldSavedIsSaved'
  OBVIOUS
<1>1. CASE UNCHANGED <<stored, told>>
  BY <1>1 DEF ToldSavedIsSaved
<1>2. ASSUME NEW r \in replies, SetReply(r) PROVE ToldSavedIsSaved'
  BY <1>2, AllTold, OtherTold, ReplyTellsOther
<1>3. QED
  BY <1>1, <1>2, UserTellsNothing DEF SetNext, setVars

\* In every behaviour of the settings page, with or without fairness.
LEMMA ToldAlways == SettingsInit /\ [][SetNext]_setVars => []ToldSavedIsSaved
<1>1. SettingsInit => ToldSavedIsSaved
  BY DEF SettingsInit, ToldSavedIsSaved
<1>2. QED
  BY <1>1, ToldSavedStep, PTL

----------------------------------------------------------------------------
(* The types of the settings page *)

ServerForms == [id : SetIds \cup {0}, key : Keys, optional : BOOLEAN]
ServerLists == [state : {"blank", "loading", "empty", "rows", "error"}, of : SUBSET Servers]
SetPages == [opened : BOOLEAN, category : SetCategories \cup {"nala-ia", "system"}, list : ServerLists, form : ServerForms,
             kube : BOOLEAN, custom : {"nothing", "nala", "tabs"},
             tabs : [Tabs -> {"blank", "loading", "ready", "error"}], tab : Tabs, times : Nat,
             dialogs : SUBSET Dialogs, users : BOOLEAN, ldap : {"default", "on", "off"}, testing : BOOLEAN]
Tellings == (1..SetClicks) \X {"saved", "done", "error"}
\* A server is saved or deleted under a category of the page; what the user is
\* told of is numbered by its click.
Asks(r) == /\ r = Request(r.what, r.of, r.id, r.n) /\ r.what \in SetWhats
           /\ r.what \in {"save", "delete"} => r.of \in SetCategories /\ r.id \in SetIds \cup {0}
           /\ r.what \notin {"list", "nala", "tab", "ldap"} => r.n \in 1..SetClicks
\* What every behaviour of the settings page keeps of its types.
SetTyped == /\ servers \subseteq Servers /\ settings \in SetPages /\ (\A r \in replies : Asks(r)) /\ told \subseteq Tellings
            /\ setClicks \in 0..SetClicks /\ setFailures \in 0..SetFailures

\* It is the type invariant and that.
LEMMA SetTypedTypeOK == SetTyped => SettingsTypeOK
<1> SUFFICES ASSUME SetTyped PROVE SettingsTypeOK
  OBVIOUS
<1>1. settings \in SetPages /\ settings.list \in ServerLists
  BY DEF SetTyped, SetPages
<1>2. settings = [opened |-> settings.opened, category |-> settings.category, list |-> settings.list,
                  form |-> settings.form, kube |-> settings.kube, custom |-> settings.custom, tabs |-> settings.tabs,
                  tab |-> settings.tab, times |-> settings.times, dialogs |-> settings.dialogs,
                  users |-> settings.users, ldap |-> settings.ldap, testing |-> settings.testing]
  BY <1>1 DEF SetPages
<1>3. \A t \in told : t[1] \in 1..SetClicks /\ t[2] \in {"saved", "done", "error"}
  BY DEF SetTyped, Tellings
<1>4. \A r \in replies : r = Request(r.what, r.of, r.id, r.n) /\ r.what \in SetWhats
  BY DEF SetTyped, Asks
<1>5. QED
  BY <1>1, <1>2, <1>3, <1>4 DEF SettingsTypeOK, SetTyped, SetPages, ServerForms, ServerLists

\* A page that has not been opened.
LEMMA SetTypedInit == SettingsInit => SetTyped
<1> SUFFICES ASSUME SettingsInit PROVE SetTyped
  OBVIOUS
<1> USE DEF SettingsInit
<1>1. setClicks \in 0..SetClicks /\ setFailures \in 0..SetFailures
  BY SettingsAssumption
<1>2. ServerList("blank", {}) \in ServerLists /\ ServerForm(0, "none", FALSE) \in ServerForms
  BY DEF ServerList, ServerLists, ServerForm, ServerForms, Keys
<1>3. [t \in Tabs |-> "blank"] \in [Tabs -> {"blank", "loading", "ready", "error"}] /\ "status" \in Tabs /\ "kvm" \in SetCategories
  BY SettingsAssumption DEF Tabs
<1>4. settings \in SetPages
  BY <1>2, <1>3 DEF SetPages
<1>5. servers \subseteq Servers
  BY SettingsAssumption
<1>6. QED
  BY <1>1, <1>4, <1>5 DEF SetTyped

\* Any form will do.
LEMMA FormTyped == ASSUME NEW s \in SetPages, NEW f \in ServerForms PROVE [s EXCEPT !.form = f] \in SetPages
  BY DEF SetPages

\* updateK8sLabels.
LEMMA LabelsTyped == ASSUME NEW s \in SetPages, NEW hasKube \in BOOLEAN PROVE K8sLabels(s, hasKube) \in SetPages
<1> DEFINE f == [s.form EXCEPT !.optional = hasKube]
<1>1. f \in ServerForms
  BY DEF SetPages, ServerForms
<1>2. K8sLabels(s, hasKube) \in {s, [s EXCEPT !.form = f]}
  BY DEF K8sLabels
<1> HIDE DEF f
<1>3. QED
  BY <1>1, <1>2, FormTyped

\* resetSettingsForm.
LEMMA ResetTyped == ASSUME NEW s \in SetPages PROVE ResetSettingsForm(s) \in SetPages
<1> DEFINE f == [s.form EXCEPT !.id = 0, !.key = "none"]
           k == [[s EXCEPT !.kube = FALSE] EXCEPT !.form = f]
<1>1. f \in ServerForms
  BY DEF SetPages, ServerForms, Keys
<1>2. ResetSettingsForm(s) = K8sLabels(k, FALSE)
  BY DEF ResetSettingsForm, SetPages
<1>3. [s EXCEPT !.kube = FALSE] \in SetPages
  BY DEF SetPages
<1> HIDE DEF f
<1>4. k \in SetPages
  BY <1>1, <1>3, FormTyped
<1> HIDE DEF k
<1>5. QED
  BY <1>2, <1>4, LabelsTyped

\* The list while it is asked for.
LEMMA LoadingTyped == ASSUME NEW s \in SetPages PROVE Loading(s) \in SetPages
<1> DEFINE l == ServerList("loading", {})
<1>1. l \in ServerLists /\ Loading(s) = [s EXCEPT !.list = l]
  BY DEF Loading, ServerList, ServerLists
<1> HIDE DEF l
<1>2. QED
  BY <1>1 DEF SetPages

\* A file that is chosen.
LEMMA FileTyped == ASSUME NEW s \in SetPages, NEW file PROVE ChooseFile(s, file) \in SetPages
<1> DEFINE f == [s.form EXCEPT !.key = "named"]
<1>1. f \in ServerForms /\ [s EXCEPT !.kube = TRUE] \in SetPages
  BY DEF SetPages, ServerForms, Keys
<1>2. ChooseFile(s, file) \in {[s EXCEPT !.form = f], K8sLabels([s EXCEPT !.kube = TRUE], TRUE)}
  BY DEF ChooseFile
<1> HIDE DEF f
<1>3. QED
  BY <1>1, <1>2, FormTyped, LabelsTyped

\* The row that is edited fills the form.
LEMMA EditTyped == ASSUME NEW s \in SetPages, NEW row \in Servers
                   PROVE  K8sLabels([s EXCEPT !.form.id = row[2], !.form.key = "stored", !.kube = row[1] = "kubernetes"],
                                    row[1] = "kubernetes") \in SetPages
<1> DEFINE v == row[1] = "kubernetes"
           f == [s.form EXCEPT !.id = row[2], !.key = "stored"]
           k == [[s EXCEPT !.kube = v] EXCEPT !.form = f]
<1>1. v \in BOOLEAN /\ row[2] \in SetIds
  BY DEF Servers
<1>2. f \in ServerForms
  BY <1>1 DEF SetPages, ServerForms, Keys
<1>3. k = [s EXCEPT !.form.id = row[2], !.form.key = "stored", !.kube = v]
  BY DEF SetPages
<1> HIDE DEF v, f
<1>4. [s EXCEPT !.kube = v] \in SetPages
  BY <1>1 DEF SetPages
<1>5. k \in SetPages
  BY <1>2, <1>4, FormTyped
<1> HIDE DEF k
<1>6. QED
  BY <1>1, <1>3, <1>5, LabelsTyped DEF v

\* A tab that an answer fills.
LEMMA FilledTyped == ASSUME settings \in SetPages, NEW r, NEW how \in {"ready", "error"} PROVE Filled(r, how) \in SetPages
<1> DEFINE t == [settings.tabs EXCEPT ![r.of] = how]
<1>1. t \in [Tabs -> {"blank", "loading", "ready", "error"}]
  BY DEF SetPages
<1>2. Filled(r, how) \in {settings, [settings EXCEPT !.tabs = t]}
  BY DEF Filled
<1> HIDE DEF t
<1>3. QED
  BY <1>1, <1>2 DEF SetPages

\* The panel of the tabs.
LEMMA PanelTyped == ASSUME NEW s \in SetPages PROVE SystemTabs(s) \in SetPages
<1> DEFINE t == [x \in Tabs |-> "loading"]
           n == s.times + 1
<1>1. t \in [Tabs -> {"blank", "loading", "ready", "error"}] /\ "status" \in Tabs /\ n \in Nat
  BY DEF SetPages, Tabs
<1>2. SystemTabs(s) = [s EXCEPT !.category = "system", !.custom = "tabs", !.times = n, !.tab = "status",
                                !.tabs = t, !.ldap = "default"]
  BY DEF SystemTabs, SetPages
<1> HIDE DEF t, n
<1>3. QED
  BY <1>1, <1>2 DEF SetPages

\* A click asks for what has its type, and is counted.
LEMMA SetClicked == ASSUME SetTyped, NEW s \in SetPages, NEW more, \A r \in more : Asks(r), SetClick(s, more)
                    PROVE  SetTyped'
<1>1. setClicks' \in 0..SetClicks /\ setFailures' \in 0..SetFailures
  BY SettingsAssumption DEF SetTyped, SetClick
<1>2. settings' \in SetPages /\ servers' \subseteq Servers /\ told' \subseteq Tellings
  BY DEF SetTyped, SetClick
<1>3. \A r \in replies' : Asks(r)
  BY DEF SetTyped, SetClick
<1>4. QED
  BY <1>1, <1>2, <1>3 DEF SetTyped

\* The number of a click.
LEMMA ClickNumber == ASSUME SetTyped, NEW s, NEW more, SetClick(s, more) PROVE setClicks + 1 \in 1..SetClicks
  BY SettingsAssumption DEF SetTyped, SetClick

\* A request numbered by a click has its type.
LEMMA NumberedAsks == ASSUME NEW what \in {"saveNala", "saveLDAP", "dialog", "saveAll", "test"}, NEW of, NEW id, NEW n \in 1..SetClicks
                      PROVE  Asks(Request(what, of, id, n))
  BY DEF Asks, Request, SetWhats

\* One without a number has it in any case.
LEMMA PlainAsks == ASSUME NEW what \in {"list", "nala", "tab", "ldap"}, NEW of, NEW id, NEW n
                   PROVE  Asks(Request(what, of, id, n))
  BY DEF Asks, Request, SetWhats

\* Every click of the user keeps the types.
LEMMA UserTyped == SetTyped /\ SetUser => SetTyped'
<1> SUFFICES ASSUME SetTyped, SetUser PROVE SetTyped'
  OBVIOUS
<1>1. settings \in SetPages
  BY DEF SetTyped
<1>2. \A s : \A r \in ListRequest(s) : Asks(r)
  BY PlainAsks DEF ListRequest
<1>3. ASSUME NEW c \in SetCategories, LoadSettingsCategory(c) PROVE SetTyped'
  <2> DEFINE s == [settings EXCEPT !.category = c, !.opened = TRUE]
  <2>1. SetClick(Loading(ResetSettingsForm(s)), ListRequest(s))
    BY <1>3 DEF LoadSettingsCategory
  <2>2. s \in SetPages
    BY <1>1 DEF SetPages
  <2> HIDE DEF s
  <2>3. QED
    BY <1>2, <2>1, <2>2, ResetTyped, LoadingTyped, SetClicked
<1>4. CASE InitSettings
  BY <1>3, <1>4, SettingsAssumption DEF InitSettings
<1>5. ASSUME NEW c \in SetCategories, SelectCategory(c) PROVE SetTyped'
  BY <1>3, <1>5 DEF SelectCategory
<1>6. ASSUME NEW file, UploadFile(file) PROVE SetTyped'
  BY <1>1, <1>6, FileTyped, SetClicked DEF UploadFile
<1>7. ASSUME NEW s \in Servers, EditSettingsServer(s) PROVE SetTyped'
  <2> DEFINE e == K8sLabels([settings EXCEPT !.form.id = s[2], !.form.key = "stored", !.kube = s[1] = "kubernetes"],
                            s[1] = "kubernetes")
  <2>1. SetClick(e, {})
    BY <1>7 DEF EditSettingsServer
  <2>2. e \in SetPages
    BY <1>1, EditTyped
  <2> HIDE DEF e
  <2>3. QED
    BY <2>1, <2>2, SetClicked
<1>8. ASSUME NEW s \in Servers, DeleteSettingsServer(s) PROVE SetTyped'
  <2> DEFINE q == Request("delete", settings.category, s[2], setClicks + 1)
  <2>1. SetClick(settings, {q}) /\ settings.category \in SetCategories
    BY <1>8 DEF DeleteSettingsServer, OnForm
  <2>2. setClicks + 1 \in 1..SetClicks
    BY <2>1, ClickNumber
  <2>3. Asks(q)
    BY <2>1, <2>2 DEF Asks, Request, SetWhats, Servers
  <2> HIDE DEF q
  <2>4. QED
    BY <1>1, <2>1, <2>3, SetClicked
<1>9. CASE CancelEdit
  BY <1>1, <1>9, ResetTyped, SetClicked DEF CancelEdit
<1>10. ASSUME NEW filled, SaveSettingsServer(filled) PROVE SetTyped'
  <2> DEFINE q == Request("save", settings.category, settings.form.id, setClicks + 1)
  <2>1. SetClick(settings, {q}) /\ settings.category \in SetCategories
    BY <1>10 DEF SaveSettingsServer, OnForm
  <2>2. setClicks + 1 \in 1..SetClicks
    BY <2>1, ClickNumber
  <2>3. Asks(q)
    BY <1>1, <2>1, <2>2 DEF Asks, Request, SetWhats, SetPages, ServerForms
  <2> HIDE DEF q
  <2>4. QED
    BY <1>1, <2>1, <2>3, SetClicked
<1>11. CASE ShowNalaIAPanel
  <2>1. [settings EXCEPT !.category = "nala-ia"] \in SetPages
    BY <1>1 DEF SetPages
  <2>2. QED
    BY <1>11, <2>1, PlainAsks, SetClicked DEF ShowNalaIAPanel
<1>12. CASE SaveNalaIAConfig
  BY <1>1, <1>12, ClickNumber, NumberedAsks, SetClicked DEF SaveNalaIAConfig
<1>13. CASE ShowSystemPanel
  <2>1. \A r \in TabRequests(settings) : Asks(r)
    BY PlainAsks DEF TabRequests
  <2>2. QED
    BY <1>1, <1>13, <2>1, PanelTyped, SetClicked DEF ShowSystemPanel
<1>14. ASSUME NEW t \in Tabs, SwitchSystemTab(t) PROVE SetTyped'
  <2>1. [settings EXCEPT !.tab = t] \in SetPages
    BY <1>1 DEF SetPages
  <2>2. QED
    BY <1>14, <2>1, SetClicked DEF SwitchSystemTab
<1>15. ASSUME NEW d \in Dialogs, OpenDialog(d) PROVE SetTyped'
  <2> DEFINE k == settings.dialogs \cup {d}
  <2>1. SetClick([settings EXCEPT !.dialogs = k], {}) /\ k \subseteq Dialogs
    BY <1>1, <1>15 DEF OpenDialog, SetPages
  <2> HIDE DEF k
  <2>2. [settings EXCEPT !.dialogs = k] \in SetPages
    BY <1>1, <2>1 DEF SetPages
  <2>3. QED
    BY <2>1, <2>2, SetClicked
<1>16. ASSUME NEW d \in Dialogs, CloseDialog(d) PROVE SetTyped'
  <2> DEFINE k == settings.dialogs \ {d}
  <2>1. SetClick([settings EXCEPT !.dialogs = k], {}) /\ k \subseteq Dialogs
    BY <1>1, <1>16 DEF CloseDialog, SetPages
  <2> HIDE DEF k
  <2>2. [settings EXCEPT !.dialogs = k] \in SetPages
    BY <1>1, <2>1 DEF SetPages
  <2>3. QED
    BY <2>1, <2>2, SetClicked
<1>17. ASSUME NEW d, SubmitDialog(d) PROVE SetTyped'
  BY <1>1, <1>17, ClickNumber, NumberedAsks, SetClicked DEF SubmitDialog
<1>18. CASE DeleteUser
  BY <1>1, <1>18, ClickNumber, NumberedAsks, SetClicked DEF DeleteUser
<1>19. ASSUME NEW on, NEW filled, SaveLDAPConfig(on, filled) PROVE SetTyped'
  <2> DEFINE v == IF on THEN "on" ELSE "off"
             q == Request("saveLDAP", "ldap", 0, setClicks + 1)
  <2>1. SetClick([settings EXCEPT !.ldap = v], {q}) /\ v \in {"on", "off"}
    BY <1>19 DEF SaveLDAPConfig
  <2>2. Asks(q)
    BY <2>1, ClickNumber, NumberedAsks
  <2> HIDE DEF v, q
  <2>3. [settings EXCEPT !.ldap = v] \in SetPages
    BY <1>1, <2>1 DEF SetPages
  <2>4. QED
    BY <2>1, <2>2, <2>3, SetClicked
<1>20. CASE SaveNotificationSettings
  BY <1>1, <1>20, ClickNumber, NumberedAsks, SetClicked DEF SaveNotificationSettings
<1>21. CASE TestNotification
  <2>1. [settings EXCEPT !.testing = TRUE] \in SetPages
    BY <1>1 DEF SetPages
  <2>2. QED
    BY <1>21, <2>1, ClickNumber, NumberedAsks, SetClicked DEF TestNotification
<1>22. QED
  BY <1>4, <1>5, <1>6, <1>7, <1>8, <1>9, <1>10, <1>11, <1>12, <1>13, <1>14, <1>15, <1>16, <1>17, <1>18, <1>19,
     <1>20, <1>21 DEF SetUser

\* An answer that has come asks for what has its type, and tells only of clicks.
LEMMA Replied == ASSUME SetTyped, NEW r \in replies, NEW s \in SetPages, NEW more, \A q \in more : Asks(q),
                        Reply(r, s, more), servers' \subseteq Servers, told' \subseteq Tellings,
                        UNCHANGED setClicks, Good \/ Bad
                 PROVE  SetTyped'
<1>1. setFailures' \in 0..SetFailures
  BY SettingsAssumption DEF SetTyped, Good, Bad
<1>2. \A q \in replies' : Asks(q)
  BY DEF SetTyped, Reply
<1>3. settings' \in SetPages /\ setClicks' \in 0..SetClicks
  BY DEF SetTyped, Reply
<1>4. QED
  BY <1>1, <1>2, <1>3 DEF SetTyped

\* What is told of a click.
LEMMA ToldTyped == ASSUME SetTyped, NEW r \in replies, r.what \notin {"list", "nala", "tab", "ldap"},
                          NEW what \in {"saved", "done", "error"}, Told(r, what)
                   PROVE  told' \subseteq Tellings
<1>1. r.n \in 1..SetClicks
  BY DEF SetTyped, Asks
<1>2. QED
  BY <1>1 DEF SetTyped, Told, Tellings

\* Every answer keeps them.
LEMMA ReplyTyped == ASSUME SetTyped, NEW r \in replies, SetReply(r) PROVE SetTyped'
<1>1. settings \in SetPages /\ servers \subseteq Servers /\ told \subseteq Tellings /\ Asks(r)
  BY DEF SetTyped
<1>2. \A s : \A q \in ListRequest(s) : Asks(q)
  BY PlainAsks DEF ListRequest
<1>3. CASE ListAnswer(r)
  <2> DEFINE rows == {s \in servers : s[1] = r.of}
             l == ServerList(IF rows = {} THEN "empty" ELSE "rows", rows)
  <2>1. Reply(r, [settings EXCEPT !.list = l], {}) /\ Good /\ Same
    BY <1>3 DEF ListAnswer
  <2>2. rows \subseteq Servers
    BY <1>1
  <2> HIDE DEF rows
  <2>3. l \in ServerLists
    BY <2>2 DEF ServerList, ServerLists
  <2> HIDE DEF l
  <2>4. [settings EXCEPT !.list = l] \in SetPages
    BY <1>1, <2>3 DEF SetPages
  <2>5. QED
    BY <1>1, <2>1, <2>4, Replied DEF Same
<1>4. CASE ListFailed(r)
  <2> DEFINE l == ServerList("error", {})
  <2>1. Reply(r, [settings EXCEPT !.list = l], {}) /\ Bad /\ Same
    BY <1>4 DEF ListFailed
  <2>2. l \in ServerLists
    BY DEF ServerList, ServerLists
  <2> HIDE DEF l
  <2>3. [settings EXCEPT !.list = l] \in SetPages
    BY <1>1, <2>2 DEF SetPages
  <2>4. QED
    BY <1>1, <2>1, <2>3, Replied DEF Same
<1>5. CASE ServerSaved(r)
  <2>1. /\ Reply(r, Loading(ResetSettingsForm(settings)), ListRequest(settings)) /\ Good /\ Room(r) /\ r.what = "save"
        /\ UNCHANGED <<told, setClicks>>
        /\ servers' = IF r.id = 0 THEN servers \cup {Registering(r)} ELSE servers
    BY <1>5 DEF ServerSaved
  <2>2. CASE r.id = 0
    <3> DEFINE i == CHOOSE j \in SetIds : <<r.of, j>> \notin servers
    <3>1. i \in SetIds
      BY <2>1, <2>2 DEF Room
    <3>2. Registering(r) = <<r.of, i>> /\ r.of \in SetCategories
      BY <1>1, <2>1, <2>2 DEF Registering, Asks
    <3> HIDE DEF i
    <3>3. servers' \subseteq Servers
      BY <1>1, <2>1, <2>2, <3>1, <3>2 DEF Servers
    <3>4. QED
      BY <1>1, <1>2, <2>1, <3>3, ResetTyped, LoadingTyped, Replied
  <2>3. CASE r.id # 0
    BY <1>1, <1>2, <2>1, <2>3, ResetTyped, LoadingTyped, Replied
  <2>4. QED
    BY <2>2, <2>3
<1>6. CASE ServerDeleted(r)
  <2>1. servers' \subseteq Servers
    BY <1>1, <1>6 DEF ServerDeleted
  <2>2. QED
    BY <1>1, <1>2, <1>6, <2>1, LoadingTyped, Replied DEF ServerDeleted
<1>7. CASE ServerRefused(r)
  BY <1>1, <1>7, ToldTyped, Replied DEF ServerRefused
<1>8. CASE NalaForm(r)
  <2>1. [settings EXCEPT !.custom = "nala"] \in SetPages
    BY <1>1 DEF SetPages
  <2>2. QED
    BY <1>1, <1>8, <2>1, Replied DEF NalaForm, Same
<1>9. CASE NalaSaved(r)
  BY <1>1, <1>9, ToldTyped, Replied DEF NalaSaved
<1>10. CASE StatusPanel(r) \/ NotificationForm(r)
  BY <1>1, <1>10, FilledTyped, Replied DEF StatusPanel, NotificationForm, Same
<1>11. CASE UserManagement(r)
  <2> DEFINE f == Filled(r, "ready")
             q == Request("ldap", "ldap", 0, 0)
  <2>1. f \in SetPages /\ Asks(q)
    BY <1>1, FilledTyped, PlainAsks
  <2>2. Reply(r, [f EXCEPT !.users = TRUE], {q}) /\ Good /\ Same
    BY <1>11 DEF UserManagement
  <2> HIDE DEF f, q
  <2>3. [f EXCEPT !.users = TRUE] \in SetPages
    BY <2>1 DEF SetPages
  <2>4. QED
    BY <1>1, <2>1, <2>2, <2>3, Replied DEF Same
<1>12. CASE TabFailed(r)
  BY <1>1, <1>12, FilledTyped, Replied DEF TabFailed, Same
<1>13. CASE LDAPLoaded(r)
  <2>1. PICK how \in {"on", "off"} :
          Reply(r, IF settings.custom = "tabs" /\ settings.tabs["users"] = "ready" THEN [settings EXCEPT !.ldap = how] ELSE settings, {})
    BY <1>13 DEF LDAPLoaded
  <2>2. [settings EXCEPT !.ldap = how] \in SetPages
    BY <1>1 DEF SetPages
  <2>3. Reply(r, settings, {}) \/ Reply(r, [settings EXCEPT !.ldap = how], {})
    BY <2>1
  <2>4. QED
    BY <1>1, <1>13, <2>2, <2>3, Replied DEF LDAPLoaded, Same
<1>14. CASE LDAPUnknown(r)
  BY <1>1, <1>14, Replied DEF LDAPUnknown, Same
<1>15. CASE LDAPSaved(r)
  BY <1>1, <1>15, ToldTyped, Replied DEF LDAPSaved
<1>16. CASE DialogDone(r)
  <2> DEFINE k == settings.dialogs \ {r.of}
  <2>1. k \subseteq Dialogs
    BY <1>1 DEF SetPages
  <2>2. /\ r.what = "dialog" /\ Told(r, "error") /\ UNCHANGED <<servers, setClicks>> /\ (Good \/ Bad)
        /\ Reply(r, settings, {}) \/ Reply(r, [settings EXCEPT !.dialogs = k], {})
    BY <1>16 DEF DialogDone
  <2> HIDE DEF k
  <2>3. [settings EXCEPT !.dialogs = k] \in SetPages
    BY <1>1, <2>1 DEF SetPages
  <2>4. QED
    BY <1>1, <2>2, <2>3, ToldTyped, Replied
<1>17. CASE SettingsSaved(r)
  <2>1. \A q \in Following(r) : Asks(q)
    BY <1>1, <1>17, NumberedAsks DEF SettingsSaved, Following, Asks
  <2>2. told' \subseteq Tellings
    BY <1>1, <1>17, ToldTyped DEF SettingsSaved
  <2>3. Reply(r, settings, Following(r)) /\ (Good \/ Bad) /\ UNCHANGED <<servers, setClicks>>
    BY <1>17 DEF SettingsSaved
  <2>4. QED
    BY <1>1, <2>1, <2>2, <2>3, Replied
<1>18. CASE SettingsUnsent(r)
  BY <1>1, <1>18, ToldTyped, Replied DEF SettingsUnsent
<1>19. CASE TestSent(r)
  <2>1. [settings EXCEPT !.testing = FALSE] \in SetPages
    BY <1>1 DEF SetPages
  <2>2. QED
    BY <1>1, <1>19, <2>1, ToldTyped, Replied DEF TestSent
<1>20. QED
  BY <1>3, <1>4, <1>5, <1>6, <1>7, <1>8, <1>9, <1>10, <1>11, <1>12, <1>13, <1>14, <1>15, <1>16, <1>17, <1>18, <1>19
     DEF SetReply

\* In every behaviour of the settings page, with or without fairness.
LEMMA SetTypedAlways == SettingsInit /\ [][SetNext]_setVars => []SetTyped
<1>1. SetTyped /\ [SetNext]_setVars => SetTyped'
  <2>1. SetTyped /\ UNCHANGED setVars => SetTyped'
    BY DEF SetTyped, setVars
  <2>2. QED
    BY <2>1, UserTyped, ReplyTyped DEF SetNext
<1>2. QED
  BY <1>1, SetTypedInit, PTL

----------------------------------------------------------------------------
(* What the settings page waits for *)

\* A list that loads has its request due; a tab that loads, one of this panel.
ListAsked(s, due)  == s.list.state = "loading" => \E q \in due : q.what = "list"
TabsAsked(s, due)  == s.custom = "tabs" =>
                        \A t \in Tabs : s.tabs[t] = "loading" => Request("tab", t, 0, s.times) \in due
WaitsAsked(s, due) == ListAsked(s, due) /\ TabsAsked(s, due)
\* Two pages that wait for the same.
SameTabs(n, s)  == n.custom = s.custom /\ n.tabs = s.tabs /\ n.times = s.times
SameWaits(n, s) == n.list = s.list /\ SameTabs(n, s)

\* The form has no part in it.
LEMMA FormWaits == ASSUME NEW s \in SetPages, NEW hasKube, NEW file
                   PROVE  /\ SameWaits(K8sLabels(s, hasKube), s) /\ SameWaits(ResetSettingsForm(s), s)
                          /\ SameWaits(ChooseFile(s, file), s)
<1>1. ASSUME NEW n \in SetPages, NEW v PROVE SameWaits(K8sLabels(n, v), n)
  BY <1>1 DEF K8sLabels, SameWaits, SameTabs, SetPages
<1>2. SameWaits(ResetSettingsForm(s), s)
  <2> DEFINE f == [s.form EXCEPT !.id = 0, !.key = "none"]
             k == [[s EXCEPT !.kube = FALSE] EXCEPT !.form = f]
  <2>1. f \in ServerForms
    BY DEF SetPages, ServerForms, Keys
  <2>2. ResetSettingsForm(s) = K8sLabels(k, FALSE)
    BY DEF ResetSettingsForm, SetPages
  <2> HIDE DEF f
  <2>3. k \in SetPages /\ SameWaits(k, s)
    BY <2>1 DEF SetPages, SameWaits, SameTabs
  <2> HIDE DEF k
  <2>4. QED
    BY <1>1, <2>2, <2>3 DEF SameWaits, SameTabs
<1>3. SameWaits(ChooseFile(s, file), s)
  <2> DEFINE f == [s.form EXCEPT !.key = "named"]
             k == [s EXCEPT !.kube = TRUE]
  <2>1. k \in SetPages /\ SameWaits(k, s) /\ SameWaits([s EXCEPT !.form = f], s)
    BY DEF SetPages, SameWaits, SameTabs
  <2>2. ChooseFile(s, file) \in {[s EXCEPT !.form = f], K8sLabels(k, TRUE)}
    BY DEF ChooseFile
  <2> HIDE DEF f, k
  <2>3. SameWaits(K8sLabels(k, TRUE), k)
    BY <1>1, <2>1
  <2>4. SameWaits(K8sLabels(k, TRUE), s)
    BY <2>1, <2>3 DEF SameWaits, SameTabs
  <2>5. QED
    BY <2>1, <2>2, <2>4
<1>4. QED
  BY <1>1, <1>2, <1>3

\* A click that leaves what the page waits for.
LEMMA ClickWaits == ASSUME WaitsAsked(settings, replies), NEW s, NEW more, SetClick(s, more), SameWaits(s, settings)
                    PROVE  WaitsAsked(settings', replies')
  BY DEF WaitsAsked, ListAsked, TabsAsked, SameWaits, SameTabs, SetClick

\* The answer to another request.
LEMMA ReplyWaits == ASSUME WaitsAsked(settings, replies), NEW r, r.what \notin {"list", "tab"}, NEW s, NEW more,
                           Reply(r, s, more), SameWaits(s, settings)
                    PROVE  WaitsAsked(settings', replies')
<1>1. \A t : Request("tab", t, 0, settings.times) # r
  BY DEF Request
<1>2. QED
  BY <1>1 DEF WaitsAsked, ListAsked, TabsAsked, SameWaits, SameTabs, Reply

\* A list that is asked for anew.
LEMMA LoadingWaits == ASSUME NEW s \in SetPages, NEW n PROVE SameTabs(Loading(s), s) /\ ListAsked(n, ListRequest(s))
<1>1. SameTabs(Loading(s), s)
  BY DEF Loading, SameTabs, SetPages
<1>2. Request("list", s.category, 0, 0).what = "list"
  BY DEF Request
<1>3. QED
  BY <1>1, <1>2 DEF ListAsked, ListRequest

\* Clicks ask for what they make the page wait for.
LEMMA UserWaits == SetTyped /\ WaitsAsked(settings, replies) /\ SetUser => WaitsAsked(settings', replies')
<1> SUFFICES ASSUME SetTyped, WaitsAsked(settings, replies), SetUser PROVE WaitsAsked(settings', replies')
  OBVIOUS
<1>1. settings \in SetPages
  BY DEF SetTyped
<1>2. SameWaits(settings, settings)
  BY DEF SameWaits, SameTabs
<1>3. ASSUME NEW c \in SetCategories, LoadSettingsCategory(c) PROVE WaitsAsked(settings', replies')
  <2> DEFINE s == [settings EXCEPT !.category = c, !.opened = TRUE]
             n == ResetSettingsForm(s)
  <2>1. SetClick(Loading(n), ListRequest(s))
    BY <1>3 DEF LoadSettingsCategory
  <2>2. s \in SetPages /\ SameTabs(s, settings)
    BY <1>1 DEF SetPages, SameTabs
  <2> HIDE DEF s
  <2>3. n \in SetPages /\ SameTabs(n, s)
    BY <2>2, ResetTyped, FormWaits DEF SameWaits
  <2> HIDE DEF n
  <2>4. SameTabs(Loading(n), n) /\ ListAsked(Loading(n), ListRequest(s))
    BY <2>2, <2>3, LoadingWaits
  <2>5. ListAsked(settings', replies')
    BY <2>1, <2>4 DEF SetClick, ListAsked
  <2>6. SameTabs(settings', settings) /\ replies \subseteq replies'
    BY <2>1, <2>2, <2>3, <2>4 DEF SetClick, SameTabs
  <2>7. QED
    BY <2>5, <2>6 DEF WaitsAsked, TabsAsked, SameTabs
<1>4. CASE InitSettings
  BY <1>3, <1>4, SettingsAssumption DEF InitSettings
<1>5. ASSUME NEW c \in SetCategories, SelectCategory(c) PROVE WaitsAsked(settings', replies')
  BY <1>3, <1>5 DEF SelectCategory
<1>6. ASSUME NEW file, UploadFile(file) PROVE WaitsAsked(settings', replies')
  BY <1>1, <1>6, FormWaits, ClickWaits DEF UploadFile
<1>7. ASSUME NEW s \in Servers, EditSettingsServer(s) PROVE WaitsAsked(settings', replies')
  <2> DEFINE v == s[1] = "kubernetes"
             f == [settings.form EXCEPT !.id = s[2], !.key = "stored"]
             k == [[settings EXCEPT !.kube = v] EXCEPT !.form = f]
  <2>1. f \in ServerForms /\ v \in BOOLEAN
    BY <1>1 DEF SetPages, ServerForms, Keys, Servers
  <2>2. k = [settings EXCEPT !.form.id = s[2], !.form.key = "stored", !.kube = v]
    BY <1>1 DEF SetPages
  <2>3. SetClick(K8sLabels(k, v), {})
    BY <1>7, <2>2 DEF EditSettingsServer
  <2> HIDE DEF f, v
  <2>4. k \in SetPages /\ SameWaits(k, settings)
    BY <1>1, <2>1 DEF SetPages, SameWaits, SameTabs
  <2> HIDE DEF k
  <2>5. SameWaits(K8sLabels(k, v), settings)
    BY <2>4, FormWaits DEF SameWaits, SameTabs
  <2>6. QED
    BY <2>3, <2>5, ClickWaits
<1>8. ASSUME NEW more, SetClick(settings, more) PROVE WaitsAsked(settings', replies')
  BY <1>2, <1>8, ClickWaits
<1>9. CASE CancelEdit
  BY <1>1, <1>9, FormWaits, ClickWaits DEF CancelEdit
<1>10. CASE ShowNalaIAPanel
  <2>1. SameWaits([settings EXCEPT !.category = "nala-ia"], settings)
    BY <1>1 DEF SameWaits, SameTabs, SetPages
  <2>2. QED
    BY <1>10, <2>1, ClickWaits DEF ShowNalaIAPanel
<1>11. CASE ShowSystemPanel
  <2> DEFINE tabs == [x \in Tabs |-> "loading"]
             n == settings.times + 1
  <2>1. SystemTabs(settings) = [settings EXCEPT !.category = "system", !.custom = "tabs", !.times = n, !.tab = "status",
                                                !.tabs = tabs, !.ldap = "default"]
    BY <1>1 DEF SystemTabs, SetPages
  <2>2. SetClick(SystemTabs(settings), TabRequests(settings))
    BY <1>11 DEF ShowSystemPanel
  <2>3. \A t \in Tabs : Request("tab", t, 0, n) \in TabRequests(settings)
    BY DEF TabRequests
  <2> HIDE DEF n, tabs
  <2>4. settings'.list = settings.list /\ settings'.times = n /\ replies' = replies \cup TabRequests(settings)
    BY <1>1, <2>1, <2>2 DEF SetClick, SetPages
  <2>5. QED
    BY <2>3, <2>4 DEF WaitsAsked, ListAsked, TabsAsked
<1>12. ASSUME NEW t \in Tabs, SwitchSystemTab(t) PROVE WaitsAsked(settings', replies')
  <2>1. SameWaits([settings EXCEPT !.tab = t], settings)
    BY <1>1 DEF SameWaits, SameTabs, SetPages
  <2>2. QED
    BY <1>12, <2>1, ClickWaits DEF SwitchSystemTab
<1>13. ASSUME NEW d \in Dialogs, OpenDialog(d) \/ CloseDialog(d) PROVE WaitsAsked(settings', replies')
  <2>1. PICK k : SetClick([settings EXCEPT !.dialogs = k], {})
    BY <1>13 DEF OpenDialog, CloseDialog
  <2>2. SameWaits([settings EXCEPT !.dialogs = k], settings)
    BY <1>1 DEF SameWaits, SameTabs, SetPages
  <2>3. QED
    BY <2>1, <2>2, ClickWaits
<1>14. ASSUME NEW on, NEW filled, SaveLDAPConfig(on, filled) PROVE WaitsAsked(settings', replies')
  <2>1. PICK v, more : SetClick([settings EXCEPT !.ldap = v], more)
    BY <1>14 DEF SaveLDAPConfig
  <2>2. SameWaits([settings EXCEPT !.ldap = v], settings)
    BY <1>1 DEF SameWaits, SameTabs, SetPages
  <2>3. QED
    BY <2>1, <2>2, ClickWaits
<1>15. CASE TestNotification
  <2>1. SameWaits([settings EXCEPT !.testing = TRUE], settings)
    BY <1>1 DEF SameWaits, SameTabs, SetPages
  <2>2. QED
    BY <1>15, <2>1, ClickWaits DEF TestNotification
<1>16. ASSUME NEW s \in Servers, DeleteSettingsServer(s) PROVE WaitsAsked(settings', replies')
  BY <1>8, <1>16 DEF DeleteSettingsServer
<1>17. ASSUME NEW filled, SaveSettingsServer(filled) PROVE WaitsAsked(settings', replies')
  BY <1>8, <1>17 DEF SaveSettingsServer
<1>18. ASSUME NEW d \in Dialogs, SubmitDialog(d) PROVE WaitsAsked(settings', replies')
  BY <1>8, <1>18 DEF SubmitDialog
<1>19. CASE SaveNalaIAConfig \/ DeleteUser \/ SaveNotificationSettings
  BY <1>8, <1>19 DEF SaveNalaIAConfig, DeleteUser, SaveNotificationSettings
<1>20. QED
  BY <1>4, <1>5, <1>6, <1>7, <1>9, <1>10, <1>11, <1>12, <1>13, <1>14, <1>15, <1>16, <1>17, <1>18, <1>19 DEF SetUser

\* The answer for a tab fills it, unless a newer panel waits for its own.
LEMMA TabWaits == ASSUME SetTyped, WaitsAsked(settings, replies), NEW r, r.what = "tab", NEW how \in {"ready", "error"},
                         NEW s, s \in {Filled(r, how), [Filled(r, how) EXCEPT !.users = TRUE]}, NEW more, Reply(r, s, more)
                  PROVE  WaitsAsked(settings', replies')
<1> DEFINE tabs == [settings.tabs EXCEPT ![r.of] = how]
<1>1. settings \in SetPages
  BY DEF SetTyped
<1>2. Filled(r, how) = IF r.n = settings.times /\ settings.custom = "tabs" THEN [settings EXCEPT !.tabs = tabs] ELSE settings
  BY DEF Filled
<1>3. settings' = s /\ replies \subseteq replies' \cup {r} /\ settings.tabs \in [Tabs -> {"blank", "loading", "ready", "error"}]
  BY <1>1 DEF Reply, SetPages
<1>4. \A t \in Tabs : tabs[t] = "loading" => t # r.of /\ settings.tabs[t] = "loading"
  BY <1>3
<1>5. \A t : Request("tab", t, 0, settings.times) = r => t = r.of /\ settings.times = r.n
  BY DEF Request
<1> HIDE DEF tabs
<1>6. CASE r.n = settings.times /\ settings.custom = "tabs"
  <2> DEFINE n == [settings EXCEPT !.tabs = tabs]
  <2>1. n \in SetPages
    BY <1>1, FilledTyped, <1>2, <1>6
  <2>2. n.list = settings.list /\ n.custom = settings.custom /\ n.times = settings.times /\ n.tabs = tabs
    BY <1>1 DEF SetPages
  <2>3. s \in {n, [n EXCEPT !.users = TRUE]}
    BY <1>2, <1>6
  <2> HIDE DEF n
  <2>4. s.list = settings.list /\ s.custom = settings.custom /\ s.times = settings.times /\ s.tabs = tabs
    BY <2>1, <2>2, <2>3 DEF SetPages
  <2>5. QED
    BY <1>3, <1>4, <1>5, <2>4 DEF WaitsAsked, ListAsked, TabsAsked
<1>7. CASE ~(r.n = settings.times /\ settings.custom = "tabs")
  <2>1. SameWaits(s, settings)
    BY <1>1, <1>2, <1>7 DEF SetPages, SameWaits, SameTabs
  <2>2. QED
    BY <1>3, <1>5, <1>7, <2>1 DEF WaitsAsked, ListAsked, TabsAsked, SameWaits, SameTabs
<1>8. QED
  BY <1>6, <1>7

\* Answers end a wait or ask for more.
LEMMA AnswerWaits == ASSUME SetTyped, WaitsAsked(settings, replies), NEW r \in replies, SetReply(r)
                     PROVE  WaitsAsked(settings', replies')
<1>1. settings \in SetPages
  BY DEF SetTyped
<1>2. SameWaits(settings, settings)
  BY DEF SameWaits, SameTabs
<1>3. ASSUME NEW state \in {"empty", "rows", "error"}, NEW of, r.what = "list",
             Reply(r, [settings EXCEPT !.list = ServerList(state, of)], {})
      PROVE  WaitsAsked(settings', replies')
  <2> DEFINE l == ServerList(state, of)
  <2>1. l.state # "loading"
    BY DEF ServerList
  <2> HIDE DEF l
  <2>2. settings'.list = l /\ SameTabs(settings', settings) /\ replies' = replies \ {r}
    BY <1>1, <1>3 DEF Reply, SetPages, SameTabs, l
  <2>3. \A t : Request("tab", t, 0, settings.times) # r
    BY <1>3 DEF Request
  <2>4. QED
    BY <2>1, <2>2, <2>3 DEF WaitsAsked, ListAsked, TabsAsked, SameTabs
<1>4. CASE ListAnswer(r)
  <2> DEFINE rows == {s \in servers : s[1] = r.of}
             state == IF rows = {} THEN "empty" ELSE "rows"
  <2>1. Reply(r, [settings EXCEPT !.list = ServerList(state, rows)], {}) /\ r.what = "list"
    BY <1>4 DEF ListAnswer
  <2>2. state \in {"empty", "rows"}
    OBVIOUS
  <2> HIDE DEF state
  <2>3. QED
    BY <1>3, <2>1, <2>2
<1>5. CASE ListFailed(r)
  BY <1>3, <1>5 DEF ListFailed
<1>6. ASSUME NEW s \in SetPages, SameWaits(s, settings), Reply(r, Loading(s), ListRequest(settings)), r.what # "tab"
      PROVE  WaitsAsked(settings', replies')
  <2>1. SameTabs(Loading(s), s) /\ ListAsked(Loading(s), ListRequest(settings))
    BY <1>1, LoadingWaits
  <2>2. SameTabs(settings', settings) /\ replies \subseteq replies' \cup {r} /\ ListAsked(settings', replies')
    BY <1>6, <2>1 DEF Reply, SameWaits, SameTabs, ListAsked
  <2>3. \A t : Request("tab", t, 0, settings.times) # r
    BY <1>6 DEF Request
  <2>4. QED
    BY <2>2, <2>3 DEF WaitsAsked, TabsAsked, SameTabs
<1>7. CASE ServerSaved(r)
  BY <1>1, <1>6, <1>7, ResetTyped, FormWaits DEF ServerSaved
<1>8. CASE ServerDeleted(r)
  BY <1>1, <1>2, <1>6, <1>8 DEF ServerDeleted
<1>9. CASE NalaForm(r)
  <2>1. settings' = [settings EXCEPT !.custom = "nala"] /\ replies' = replies \ {r} /\ r.what # "list"
    BY <1>9 DEF NalaForm, Reply
  <2>2. settings'.list = settings.list /\ settings'.custom = "nala"
    BY <1>1, <2>1 DEF SetPages
  <2>3. QED
    BY <2>1, <2>2 DEF WaitsAsked, ListAsked, TabsAsked
<1>10. CASE StatusPanel(r) \/ NotificationForm(r) \/ TabFailed(r)
  BY <1>10, TabWaits DEF StatusPanel, NotificationForm, TabFailed
<1>11. CASE UserManagement(r)
  BY <1>11, TabWaits DEF UserManagement
<1>12. CASE LDAPLoaded(r)
  <2>1. PICK how \in {"on", "off"} : Reply(r, settings, {}) \/ Reply(r, [settings EXCEPT !.ldap = how], {})
    BY <1>12 DEF LDAPLoaded
  <2>2. SameWaits([settings EXCEPT !.ldap = how], settings)
    BY <1>1 DEF SameWaits, SameTabs, SetPages
  <2>3. QED
    BY <1>2, <1>12, <2>1, <2>2, ReplyWaits DEF LDAPLoaded
<1>13. CASE DialogDone(r)
  <2>1. PICK k : Reply(r, settings, {}) \/ Reply(r, [settings EXCEPT !.dialogs = k], {})
    BY <1>13 DEF DialogDone
  <2>2. SameWaits([settings EXCEPT !.dialogs = k], settings)
    BY <1>1 DEF SameWaits, SameTabs, SetPages
  <2>3. QED
    BY <1>2, <1>13, <2>1, <2>2, ReplyWaits DEF DialogDone
<1>14. CASE TestSent(r)
  <2>1. SameWaits([settings EXCEPT !.testing = FALSE], settings)
    BY <1>1 DEF SameWaits, SameTabs, SetPages
  <2>2. QED
    BY <1>14, <2>1, ReplyWaits DEF TestSent
<1>15. CASE ServerRefused(r) \/ NalaSaved(r) \/ LDAPUnknown(r) \/ LDAPSaved(r)
  BY <1>2, <1>15, ReplyWaits DEF ServerRefused, NalaSaved, LDAPUnknown, LDAPSaved
<1>16. CASE SettingsSaved(r) \/ SettingsUnsent(r)
  BY <1>2, <1>16, ReplyWaits DEF SettingsSaved, SettingsUnsent
<1>17. QED
  BY <1>4, <1>5, <1>7, <1>8, <1>9, <1>10, <1>11, <1>12, <1>13, <1>14, <1>15, <1>16 DEF SetReply

\* The list of servers shows that it loads only while a request for it is due, and
\* a tab of the system's panel only while the request of that very panel is, whatever
\* categories the user goes through, saves and deletes in the meantime
\* (loadSettingsCategory, showSystemPanel): neither is left waiting for nothing.
SettingsWaitsAreAsked ==
  /\ settings.list.state = "loading" => \E q \in replies : q.what = "list"
  /\ settings.custom = "tabs" =>
       \A t \in Tabs : settings.tabs[t] = "loading" => Request("tab", t, 0, settings.times) \in replies

LEMMA WaitsAlways == SettingsInit /\ [][SetNext]_setVars => []SettingsWaitsAreAsked
<1>1. SettingsInit => WaitsAsked(settings, replies)
  BY DEF SettingsInit, ServerList, WaitsAsked, ListAsked, TabsAsked
<1>2. SetTyped /\ WaitsAsked(settings, replies) /\ [SetNext]_setVars => WaitsAsked(settings, replies)'
  <2>1. WaitsAsked(settings, replies) /\ UNCHANGED setVars => WaitsAsked(settings', replies')
    BY DEF setVars
  <2>2. SetTyped /\ WaitsAsked(settings, replies) /\ [SetNext]_setVars => WaitsAsked(settings', replies')
    BY <2>1, UserWaits, AnswerWaits DEF SetNext
  <2>3. QED
    BY <2>2 DEF WaitsAsked, ListAsked, TabsAsked
<1>3. WaitsAsked(settings, replies) => SettingsWaitsAreAsked
  BY DEF WaitsAsked, ListAsked, TabsAsked, SettingsWaitsAreAsked
<1>4. QED
  BY <1>1, <1>2, <1>3, SetTypedAlways, PTL

----------------------------------------------------------------------------
(* The logs *)

\* What every behaviour of the page keeps.
LogsInv == LogsTypeOK /\ OneRefresher

\* A record of the page's shape; what an EXCEPT of it keeps.
LogsPages == [opened : BOOLEAN, visible : BOOLEAN, paused : BOOLEAN, timers : Nat, handle : BOOLEAN,
              category : LogTools, filter : LogFilters, content : Listings]

\* LogsTypeOK as a membership.
LEMMA LogsTyped == LogsTypeOK <=> /\ logs \in LogsPages /\ sent \subseteq Listings
                                  /\ logClicks \in 0..LogClicks /\ logFailures \in 0..LogFailures
  BY DEF LogsTypeOK, LogsPages

\* The timer of a page with a running one is the one that is stopped.
OneTimer(l) == /\ l \in LogsPages
               /\ l.timers = IF l.handle THEN 1 ELSE 0
               /\ l.paused => l.timers = 0

\* The invariant, by what it says of the timer.
LEMMA LogsOneTimer == LogsInv <=> /\ OneTimer(logs) /\ sent \subseteq Listings
                                  /\ logClicks \in 0..LogClicks /\ logFailures \in 0..LogFailures
  BY LogsTyped DEF LogsInv, OneTimer, OneRefresher

\* stopLogsRefresh leaves no timer.
LEMMA RefreshStopped == ASSUME NEW l, OneTimer(l)
                 PROVE  /\ OneTimer(StopLogsRefresh(l)) /\ StopLogsRefresh(l).timers = 0
                        /\ ~StopLogsRefresh(l).handle /\ StopLogsRefresh(l).paused = l.paused
<1> l \in LogsPages /\ l.handle \in BOOLEAN /\ l.timers \in Nat
  BY DEF OneTimer, LogsPages
<1>1. CASE l.handle
  <2>1. StopLogsRefresh(l) = [l EXCEPT !.timers = 0, !.handle = FALSE]
    BY <1>1 DEF StopLogsRefresh, OneTimer
  <2>2. [l EXCEPT !.timers = 0, !.handle = FALSE] \in LogsPages
    BY DEF LogsPages
  <2>3. QED
    BY <2>1, <2>2 DEF OneTimer, LogsPages
<1>2. CASE ~l.handle
  BY <1>2 DEF OneTimer, StopLogsRefresh
<1>3. QED
  BY <1>1, <1>2

\* startLogsRefresh leaves one, or none while the page is paused.
LEMMA RefreshStarted == ASSUME NEW l, OneTimer(l)
                 PROVE  OneTimer(StartLogsRefresh(l))
<1> DEFINE s == StopLogsRefresh(l)
<1>1. OneTimer(s) /\ s.timers = 0 /\ ~s.handle /\ s.paused = l.paused
  BY RefreshStopped
<1>2. CASE l.paused
  BY <1>1, <1>2 DEF StartLogsRefresh
<1>3. CASE ~l.paused
  <2> HIDE DEF s
  <2>1. StartLogsRefresh(l) = [s EXCEPT !.timers = s.timers + 1, !.handle = TRUE]
    BY <1>3 DEF StartLogsRefresh, s
  <2>2. s \in LogsPages
    BY <1>1 DEF OneTimer
  <2>3. [s EXCEPT !.timers = 1, !.handle = TRUE] \in LogsPages
    BY <2>2 DEF LogsPages
  <2>4. QED
    BY <1>1, <1>3, <2>1, <2>2, <2>3 DEF OneTimer, LogsPages
<1>4. QED
  BY <1>2, <1>3

\* A request of the page is one of those there are.
LEMMA LogsRequested == ASSUME NEW of \in LogTools \cup {"all", "blank", "error", "cleanup"}, NEW f \in LogFilters
                   PROVE  Listing(of, f) \in Listings
  BY DEF Listing, Listings

\* What the page asks for has the type of a request.
LEMMA LogsAsked == ASSUME NEW l, l \in LogsPages
               PROVE  /\ FetchAppLogs(l) \subseteq Listings
                      /\ FetchHostLogsDB(l) \subseteq Listings
<1>1. l.filter \in LogFilters /\ l.category \in LogTools /\ "" \in LogFilters
  BY LogsAssumption DEF LogsPages
<1>2. Listing("all", l.filter) \in Listings /\ Listing(l.category, "") \in Listings
  BY <1>1, LogsRequested
<1>3. QED
  BY <1>2 DEF FetchAppLogs, FetchHostLogsDB

\* A click keeps the invariant when the page it leaves has one timer.
LEMMA LogsClicked == ASSUME LogsInv, UNCHANGED logFailures, logClicks < LogClicks, logClicks' = logClicks + 1,
                        OneTimer(logs'), sent' \subseteq Listings
                 PROVE  LogsInv'
<1>1. logClicks \in 0..LogClicks /\ logFailures \in 0..LogFailures
  BY LogsOneTimer
<1>2. LogClicks \in Nat
  BY LogsAssumption
<1>3. logClicks' \in 0..LogClicks
  BY <1>1, <1>2
<1>4. logFailures' \in 0..LogFailures
  BY <1>1
<1>5. QED
  BY <1>3, <1>4 DEF OneTimer, LogsInv, LogsTypeOK, OneRefresher, LogsPages

\* So does an answer, which changes what the page shows and nothing else of it.
LEMMA LogsAnswered == ASSUME LogsInv, UNCHANGED logClicks, logFailures' \in 0..LogFailures,
                         OneTimer(logs'), sent' \subseteq Listings
                  PROVE  LogsInv'
<1>1. logClicks' \in 0..LogClicks
  BY LogsOneTimer
<1>2. QED
  BY <1>1 DEF OneTimer, LogsInv, LogsTypeOK, OneRefresher, LogsPages

\* The page starts with no timer.
LEMMA LogsInvInit == LogsInit => LogsInv
<1> SUFFICES ASSUME LogsInit PROVE LogsInv
  OBVIOUS
<1>1. "" \in LogFilters /\ "kvm" \in LogTools /\ LogClicks \in Nat /\ LogFailures \in Nat
  BY LogsAssumption
<1>2. Listing("blank", "") \in Listings
  BY <1>1, LogsRequested
<1>3. OneTimer(logs)
  BY <1>1, <1>2 DEF LogsInit, OneTimer, LogsPages
<1>4. sent = {} /\ logClicks = 0 /\ logFailures = 0
  BY DEF LogsInit
<1>5. logClicks \in 0..LogClicks /\ logFailures \in 0..LogFailures
  <2>1. LogClicks \in Nat /\ LogFailures \in Nat
    BY LogsAssumption
  <2>2. QED
    BY <1>4, <2>1
<1>6. QED
  BY <1>3, <1>4, <1>5, LogsOneTimer

\* Every step keeps the invariant.
LEMMA LogsInvStep == LogsInv /\ [LogsNext]_logVars => LogsInv'
<1> SUFFICES ASSUME LogsInv, [LogsNext]_logVars PROVE LogsInv'
  OBVIOUS
<1>1. /\ OneTimer(logs) /\ logs \in LogsPages /\ sent \subseteq Listings
      /\ logClicks \in 0..LogClicks /\ logFailures \in 0..LogFailures
  BY LogsOneTimer DEF OneTimer
<1>2. /\ FetchAppLogs(logs) \subseteq Listings /\ FetchHostLogsDB(logs) \subseteq Listings
      /\ Listing("cleanup", "") \in Listings
  BY <1>1, LogsAsked, LogsRequested, LogsAssumption
<1>3. CASE InitLogs
  <2> DEFINE l == [logs EXCEPT !.opened = TRUE, !.visible = TRUE]
  <2>1. OneTimer(l)
    BY <1>1 DEF OneTimer, LogsPages
  <2>2. OneTimer(StartLogsRefresh(l))
    BY <2>1, RefreshStarted
  <2>3. QED
    BY <1>1, <1>2, <1>3, <2>2, LogsClicked DEF InitLogs, LogClick
<1>4. CASE LeaveLogs
  <2>1. OneTimer([logs EXCEPT !.visible = FALSE])
    BY <1>1 DEF OneTimer, LogsPages
  <2>2. QED
    BY <1>1, <1>4, <2>1, LogsClicked DEF LeaveLogs, LogClick
<1>5. CASE CloseLogs
  <2>1. OneTimer(StopLogsRefresh(logs))
    BY <1>1, RefreshStopped
  <2>2. OneTimer([StopLogsRefresh(logs) EXCEPT !.visible = FALSE])
    BY <2>1 DEF OneTimer, LogsPages
  <2>3. QED
    BY <1>1, <1>5, <2>2, LogsClicked DEF CloseLogs, LogClick
<1>6. CASE TogglePause
  <2> DEFINE l == [logs EXCEPT !.paused = ~@]
  <2>1. CASE logs.paused
    <3>1. OneTimer(l) /\ ~l.paused
      BY <1>1, <2>1 DEF OneTimer, LogsPages
    <3>2. OneTimer(StartLogsRefresh(l))
      BY <3>1, RefreshStarted
    <3>3. QED
      BY <1>1, <1>6, <3>1, <3>2, LogsClicked DEF TogglePause, LogClick
  <2>2. CASE ~logs.paused
    <3>1. l.paused /\ StopLogsRefresh(l) = [StopLogsRefresh(logs) EXCEPT !.paused = TRUE]
      BY <1>1, <2>2 DEF StopLogsRefresh, LogsPages
    <3>2. OneTimer(StopLogsRefresh(logs)) /\ StopLogsRefresh(logs).timers = 0
      BY <1>1, RefreshStopped
    <3>3. OneTimer([StopLogsRefresh(logs) EXCEPT !.paused = TRUE])
      BY <3>2 DEF OneTimer, LogsPages
    <3>4. QED
      BY <1>1, <1>6, <3>1, <3>3, LogsClicked DEF TogglePause, LogClick
  <2>3. QED
    BY <2>1, <2>2
<1>7. ASSUME NEW f \in LogFilters, Search(f) PROVE LogsInv'
  <2> DEFINE l == [logs EXCEPT !.filter = f]
  <2>1. OneTimer(l) /\ l \in LogsPages
    BY <1>1 DEF OneTimer, LogsPages
  <2>2. FetchHostLogsDB(l) \subseteq Listings
    BY <2>1, LogsAsked
  <2>3. QED
    BY <1>1, <1>7, <2>1, <2>2, LogsClicked DEF Search, LogClick
<1>8. ASSUME NEW c \in LogTools, SelectLogCategory(c) PROVE LogsInv'
  <2> DEFINE l == [logs EXCEPT !.category = c]
  <2>1. OneTimer(l) /\ l \in LogsPages
    BY <1>1 DEF OneTimer, LogsPages
  <2>2. FetchHostLogsDB(l) \subseteq Listings
    BY <2>1, LogsAsked
  <2>3. QED
    BY <1>1, <1>8, <2>1, <2>2, LogsClicked DEF SelectLogCategory, LogClick
<1>9. CASE CleanupAllLogs
  BY <1>1, <1>2, <1>9, LogsClicked DEF CleanupAllLogs, LogClick
<1>10. CASE RefreshLogs
  BY <1>1, <1>2, <1>10, LogsAnswered DEF RefreshLogs
<1>11. ASSUME NEW r \in sent, AppLogsAnswer(r) PROVE LogsInv'
  <2>1. OneTimer([logs EXCEPT !.content = r])
    BY <1>1 DEF OneTimer, LogsPages
  <2>2. QED
    BY <1>1, <1>11, <2>1, LogsAnswered DEF AppLogsAnswer, Received
<1>12. ASSUME NEW r \in sent, HostListAnswer(r) PROVE LogsInv'
  <2>1. Listing(r.of, logs.filter) \in Listings
    BY <1>1, <1>12, LogsRequested DEF HostListAnswer, LogsPages
  <2>2. OneTimer([logs EXCEPT !.content = Listing(r.of, logs.filter)])
    BY <1>1, <2>1 DEF OneTimer, LogsPages
  <2>3. QED
    BY <1>1, <1>12, <2>2, LogsAnswered DEF HostListAnswer, Received
<1>13. ASSUME NEW r \in sent, CleanupAnswer(r) PROVE LogsInv'
  BY <1>1, <1>2, <1>13, LogsAnswered DEF CleanupAnswer, Received
<1>14. ASSUME NEW r \in sent, LogsFailed(r) PROVE LogsInv'
  <2>1. Listing("error", "") \in Listings
    BY LogsRequested, LogsAssumption
  <2>2. OneTimer([logs EXCEPT !.content = Listing("error", "")])
    BY <1>1, <2>1 DEF OneTimer, LogsPages
  <2>3. LogFailures \in Nat
    BY LogsAssumption
  <2>4. logFailures' \in 0..LogFailures
    <3>1. logFailures < LogFailures /\ logFailures' = logFailures + 1
      BY <1>14 DEF LogsFailed
    <3>2. QED
      BY <1>1, <2>3, <3>1
  <2>5. QED
    BY <1>1, <1>14, <2>2, <2>4, LogsAnswered DEF LogsFailed, Received
<1>15. CASE UNCHANGED logVars
  BY <1>15 DEF logVars, LogsInv, LogsTypeOK, OneRefresher
<1>16. QED
  BY <1>3, <1>4, <1>5, <1>6, <1>7, <1>8, <1>9, <1>10, <1>11, <1>12, <1>13, <1>14, <1>15
     DEF LogsNext, LogsAnswer

\* In every behaviour of the logs page, with or without fairness.
LEMMA LogsAlways == LogsInit /\ [][LogsNext]_logVars => []LogsInv
  BY LogsInvInit, LogsInvStep, PTL

\* Every variable of the logs page has its type.
THEOREM LogsTypeCorrect == LogsSpec => []LogsTypeOK
<1>1. LogsInv => LogsTypeOK
  BY DEF LogsInv
<1>2. QED
  BY <1>1, LogsAlways, PTL DEF LogsSpec

\* Whatever the user does on the logs page, in any order and as often as wanted,
\* at most one timer refreshes the logs, and none while the page is paused
\* (startLogsRefresh, stopLogsRefresh, app.js:4238).
THEOREM NoRefresherLeft == LogsSpec => []OneRefresher
<1>1. LogsInv => OneRefresher
  BY DEF LogsInv
<1>2. QED
  BY <1>1, LogsAlways, PTL DEF LogsSpec

----------------------------------------------------------------------------
(* The shell *)

Numbers == 0..ShClicks
Counts  == 0..Cardinality(ShServers)
Waits   == 0..(Reminder + 1)
Colours == [ShTools -> {"inactive", "critical", "online"}]
Groups  == {{}, RenderAlerts}
\* Pages, checks and requests of the shell.
ShellPages == [token : Numbers, stored : Numbers, overlay : BOOLEAN, refused : BOOLEAN, menu : BOOLEAN,
               profile : BOOLEAN, hidden : BOOLEAN, last : Counts, since : Waits, sounded : BOOLEAN,
               badge : SUBSET ShServers, timers : Nat, handle : BOOLEAN, grid : {"blank", "error", "cards"},
               cards : Colours, groups : Groups]
ListStates == [state : {"due", "failed", "ok"}, down : SUBSET ShServers]
Checks     == [on : BOOLEAN, as : Numbers, lists : [ShTools -> ListStates]]
Loads      == [what : {"login", "first", "again"}, as : Numbers, n : Numbers]
\* The browser keeps the token of the page, and an interval with a handle runs.
PageFits(s) == /\ s \in ShellPages /\ s.stored = s.token /\ s.overlay = (s.token = NoToken)
               /\ s.handle => s.timers > 0
\* What every behaviour of the shell keeps; a login has the number of its click.
ShellInv == /\ PageFits(shell) /\ down \subseteq ShServers /\ valid \subseteq 1..ShClicks
            /\ checks \in [Slots -> Checks] /\ loads \subseteq Loads /\ (\A l \in loads : l.what = "login" => l.n # 0)
            /\ shClicks \in 0..ShClicks /\ shFailures \in 0..ShFailures

\* It is the type invariant and that.
LEMMA ShellInvTypeOK == ShellInv => ShellTypeOK
<1> SUFFICES ASSUME ShellInv PROVE ShellTypeOK
  OBVIOUS
<1>1. shell \in ShellPages /\ shell.stored = shell.token /\ shell.overlay = (shell.token = NoToken)
  BY DEF ShellInv, PageFits
<1>2. shell = [token |-> shell.token, stored |-> shell.stored, overlay |-> shell.overlay, refused |-> shell.refused,
               menu |-> shell.menu, profile |-> shell.profile, hidden |-> shell.hidden,
               last |-> shell.last, since |-> shell.since, sounded |-> shell.sounded, badge |-> shell.badge,
               timers |-> shell.timers, handle |-> shell.handle, grid |-> shell.grid, cards |-> shell.cards,
               groups |-> shell.groups]
  BY <1>1 DEF ShellPages
<1>3. DOMAIN shell = DOMAIN LoadedPage(NoToken)
  BY <1>2 DEF LoadedPage
<1>4. shell = [x \in DOMAIN LoadedPage(NoToken) |-> shell[x]]
  BY <1>2, <1>3
<1>5. /\ shell.refused \in BOOLEAN /\ shell.menu \in BOOLEAN /\ shell.profile \in BOOLEAN
      /\ shell.hidden \in BOOLEAN /\ shell.sounded \in BOOLEAN /\ shell.handle \in BOOLEAN
  BY <1>1 DEF ShellPages
<1>6. \A x \in {"refused", "menu", "profile", "hidden", "sounded", "handle"} : shell[x] \in BOOLEAN
  BY <1>5
<1>7. /\ shell.token \in 0..ShClicks /\ shell.last \in 0..Cardinality(ShServers) /\ shell.since \in 0..(Reminder + 1)
      /\ shell.badge \subseteq ShServers /\ shell.timers \in Nat /\ shell.grid \in {"blank", "error", "cards"}
      /\ shell.cards \in [ShTools -> {"inactive", "critical", "online"}] /\ shell.groups \in {{}, RenderAlerts}
  BY <1>1 DEF ShellPages, Numbers, Counts, Waits, Colours, Groups
<1>8. checks \in [Slots -> [on : BOOLEAN, as : 0..ShClicks,
                            lists : [ShTools -> [state : {"due", "failed", "ok"}, down : SUBSET ShServers]]]]
  BY DEF ShellInv, Checks, ListStates, Numbers
<1>9. loads \subseteq [what : {"login", "first", "again"}, as : 0..ShClicks, n : 0..ShClicks]
  BY DEF ShellInv, Loads, Numbers
<1>10. down \subseteq ShServers /\ valid \subseteq 1..ShClicks /\ shClicks \in 0..ShClicks /\ shFailures \in 0..ShFailures
  BY DEF ShellInv
<1>11. QED
  BY <1>1, <1>4, <1>6, <1>7, <1>8, <1>9, <1>10 DEF ShellTypeOK

\* The sets a field is of.
LEMMA ShellSets == /\ NoToken \in Numbers /\ 0 \in Counts /\ Reminder + 1 \in Waits /\ 0 \in Waits
                   /\ {} \in Groups /\ RenderAlerts \in Groups /\ [t \in ShTools |-> "inactive"] \in Colours
                   /\ RenderHealthGrid \in Colours
                   /\ \A o \in SUBSET ShServers : Cardinality(o) \in Counts
<1>1. NoToken \in Numbers
  BY ShellAssumption DEF Numbers, NoToken
<1>2. Reminder + 1 \in Waits /\ 0 \in Waits
  BY DEF Reminder, Waits
<1>3. IsFiniteSet(ShServers) /\ Cardinality(ShServers) \in Nat
  BY ShellAssumption, FS_CardinalityType
<1>4. \A o \in SUBSET ShServers : Cardinality(o) \in Nat /\ Cardinality(o) <= Cardinality(ShServers)
  BY <1>3, FS_Subset, FS_CardinalityType
<1>5. 0 \in Counts /\ \A o \in SUBSET ShServers : Cardinality(o) \in Counts
  BY <1>3, <1>4 DEF Counts
<1>6. RenderHealthGrid \in Colours /\ [t \in ShTools |-> "inactive"] \in Colours
  BY DEF RenderHealthGrid, Colours
<1>7. QED
  BY <1>1, <1>2, <1>5, <1>6 DEF Groups

\* A new page fits.
LEMMA LoadedFits == ASSUME NEW t \in Numbers PROVE PageFits(LoadedPage(t))
<1> DEFINE c == [x \in ShTools |-> "inactive"]
           w == Reminder + 1
           o == (t = NoToken)
<1>1. c \in Colours /\ w \in Waits /\ o \in BOOLEAN /\ 0 \in Counts /\ {} \in Groups
  BY ShellSets
<1>2. LoadedPage(t) = [token |-> t, stored |-> t, overlay |-> o, refused |-> FALSE,
                       menu |-> FALSE, profile |-> FALSE, hidden |-> FALSE, last |-> 0, since |-> w,
                       sounded |-> FALSE, badge |-> {}, timers |-> 0, handle |-> FALSE,
                       grid |-> "blank", cards |-> c, groups |-> {}]
  BY DEF LoadedPage
<1> HIDE DEF c, w
<1>3. LoadedPage(t) \in ShellPages
  BY <1>1, <1>2 DEF ShellPages
<1>4. QED
  BY <1>2, <1>3 DEF PageFits

\* What is switched or shown leaves the session and the interval as they are.
LEMMA SwitchedFits == ASSUME NEW s, PageFits(s), NEW v \in BOOLEAN
                      PROVE  /\ PageFits([s EXCEPT !.refused = v]) /\ PageFits([s EXCEPT !.menu = v])
                             /\ PageFits([s EXCEPT !.profile = v]) /\ PageFits([s EXCEPT !.hidden = v])
                             /\ PageFits([s EXCEPT !.sounded = v])
  BY DEF PageFits, ShellPages

\* The sound of the last check is over.
LEMMA QuietFits == ASSUME NEW s, PageFits(s) PROVE PageFits(Quiet(s))
  BY SwitchedFits DEF Quiet

\* logout.
LEMMA LogoutFits == ASSUME NEW s, PageFits(s) PROVE PageFits(Logout(s))
  BY ShellSets DEF Logout, PageFits, ShellPages

\* An answer of 401, or another.
LEMMA RefusedFits == ASSUME NEW s, PageFits(s), NEW as PROVE PageFits(Refused(s, as))
  BY LogoutFits DEF Refused

\* The wait for a reminder.
LEMMA SinceFits == ASSUME NEW s, PageFits(s), NEW w \in Waits PROVE PageFits([s EXCEPT !.since = w])
  BY DEF PageFits, ShellPages

\* The alarm of a check.
LEMMA AlarmFits == ASSUME NEW s, PageFits(s), NEW count PROVE PageFits(Alarm(s, count))
<1>1. PageFits([s EXCEPT !.sounded = TRUE])
  BY SwitchedFits
<1>2. Sound(s) = [[s EXCEPT !.sounded = TRUE] EXCEPT !.since = 0]
  BY DEF Sound, PageFits, ShellPages
<1>3. PageFits(Sound(s)) /\ PageFits([s EXCEPT !.since = Reminder + 1])
  BY <1>1, <1>2, SinceFits, ShellSets
<1>4. QED
  BY <1>3 DEF Alarm

\* The grid of the summary.
LEMMA GridFits == ASSUME NEW s, PageFits(s), NEW g \in {"blank", "error", "cards"} PROVE PageFits([s EXCEPT !.grid = g])
  BY DEF PageFits, ShellPages

\* The cards and the alerts of an answer.
LEMMA CardsFit == ASSUME NEW s, PageFits(s)
                  PROVE  PageFits([s EXCEPT !.grid = "cards", !.cards = RenderHealthGrid, !.groups = RenderAlerts])
  BY ShellSets DEF PageFits, ShellPages

\* The interval of the first answer.
LEMMA IntervalFits == ASSUME NEW s, PageFits(s), NEW l PROVE PageFits(WithInterval(l, s))
<1> DEFINE n == s.timers + 1
<1>1. n \in Nat /\ n > 0
  BY DEF PageFits, ShellPages
<1>2. WithInterval(l, s) \in {s, [s EXCEPT !.timers = n, !.handle = TRUE]}
  BY DEF WithInterval
<1> HIDE DEF n
<1>3. QED
  BY <1>1, <1>2 DEF PageFits, ShellPages

\* The lists of a check.
LEMMA CheckTyped == ASSUME NEW as \in Numbers
                    PROVE  Check(as, [t \in ShTools |-> Due]) \in Checks /\ NoCheck \in Checks
<1>1. Due \in ListStates /\ Failed \in ListStates
  BY DEF Due, Failed, ListStates
<1>2. [t \in ShTools |-> Due] \in [ShTools -> ListStates] /\ [t \in ShTools |-> Failed] \in [ShTools -> ListStates]
  BY <1>1
<1>3. QED
  BY <1>2, ShellSets DEF Check, NoCheck, Checks

\* Those of a new page.
LEMMA FirstChecks == ASSUME NEW as \in Numbers
                     PROVE  [i \in Slots |-> IF i = 1 THEN Check(as, [t \in ShTools |-> Due]) ELSE NoCheck] \in [Slots -> Checks]
  BY CheckTyped

\* A new page, nobody logged in.
LEMMA ShellInvInit == ShellInit => ShellInv
<1> SUFFICES ASSUME ShellInit PROVE ShellInv
  OBVIOUS
<1>1. NoToken \in Numbers
  BY ShellSets
<1>2. PageFits(shell) /\ checks \in [Slots -> Checks]
  BY <1>1, LoadedFits, FirstChecks DEF ShellInit
<1>3. shClicks \in 0..ShClicks /\ shFailures \in 0..ShFailures
  BY ShellAssumption DEF ShellInit
<1>4. QED
  BY <1>2, <1>3 DEF ShellInit, ShellInv

\* A click on a page that fits.
LEMMA ShellClicked == ASSUME ShellInv, NEW s, PageFits(s), NEW more, more \subseteq Loads, \A l \in more : l.what = "login" => l.n # 0,
                             ShClick(s, more), valid' \subseteq valid
                      PROVE  ShellInv'
<1>1. shClicks' \in 0..ShClicks
  BY ShellAssumption DEF ShellInv, ShClick
<1>2. PageFits(shell')
  BY QuietFits DEF ShClick
<1>3. loads' \subseteq Loads /\ \A l \in loads' : l.what = "login" => l.n # 0
  BY DEF ShClick, ShellInv
<1>4. UNCHANGED <<down, checks, shFailures>>
  BY DEF ShClick
<1>5. QED
  BY <1>1, <1>2, <1>3, <1>4 DEF ShellInv

\* The number of a click.
LEMMA ShellClickNumber == ASSUME ShellInv, shClicks < ShClicks PROVE shClicks + 1 \in Numbers /\ shClicks + 1 # 0 /\ shClicks + 1 \in 1..ShClicks
  BY ShellAssumption DEF ShellInv, Numbers

\* Whatever else, a step that leaves the session's tokens, the servers and the
\* clicks alone keeps the invariant when page, checks and requests still fit.
LEMMA ShellKept == ASSUME ShellInv, PageFits(shell'), checks' \in [Slots -> Checks], loads' \subseteq Loads,
                          \A l \in loads' : l.what = "login" => l.n # 0,
                          valid' \subseteq 1..ShClicks, UNCHANGED <<down, shClicks>>,
                          \/ UNCHANGED shFailures
                          \/ shFailures < ShFailures /\ shFailures' = shFailures + 1
                   PROVE  ShellInv'
<1>1. shFailures' \in 0..ShFailures
  BY ShellAssumption DEF ShellInv
<1>2. QED
  BY <1>1 DEF ShellInv

\* Every step keeps the invariant.
LEMMA ShellInvStep == ShellInv /\ [ShellNext]_shellVars => ShellInv'
<1> SUFFICES ASSUME ShellInv, [ShellNext]_shellVars PROVE ShellInv'
  OBVIOUS
<1>1. /\ PageFits(shell) /\ shell \in ShellPages /\ shell.token \in Numbers /\ shell.stored \in Numbers
      /\ shell.menu \in BOOLEAN /\ shell.profile \in BOOLEAN /\ shell.hidden \in BOOLEAN /\ shell.handle \in BOOLEAN
      /\ PageFits(Quiet(shell)) /\ valid \subseteq 1..ShClicks
      /\ loads \subseteq Loads /\ (\A l \in loads : l.what = "login" => l.n # 0) /\ checks \in [Slots -> Checks]
  BY QuietFits DEF ShellInv, PageFits, ShellPages
<1>2. CASE Login
  <2> DEFINE q == Load("login", NoToken, shClicks + 1)
  <2>1. ShClick([shell EXCEPT !.refused = FALSE], {q}) /\ UNCHANGED valid /\ shClicks < ShClicks
    BY <1>2 DEF Login, ShClick
  <2>2. q \in Loads /\ q.n # 0
    BY <2>1, ShellClickNumber, ShellSets DEF Load, Loads
  <2> HIDE DEF q
  <2>3. QED
    BY <1>1, <2>1, <2>2, SwitchedFits, ShellClicked
<1>3. CASE LogoutClick
  BY <1>1, <1>3, LogoutFits, ShellClicked DEF LogoutClick
<1>4. CASE ToggleMenu
  <2> DEFINE v == ~shell.menu
  <2>1. ShClick([shell EXCEPT !.menu = v], {}) /\ UNCHANGED valid /\ v \in BOOLEAN
    BY <1>1, <1>4 DEF ToggleMenu, ShellPages
  <2> HIDE DEF v
  <2>2. PageFits([shell EXCEPT !.menu = v])
    BY <1>1, <2>1, SwitchedFits
  <2>3. QED
    BY <1>1, <2>1, <2>2, ShellClicked
<1>5. CASE ToggleProfile
  <2> DEFINE v == ~shell.profile
  <2>1. ShClick([shell EXCEPT !.profile = v], {}) /\ UNCHANGED valid /\ v \in BOOLEAN
    BY <1>1, <1>5 DEF ToggleProfile, ShellPages
  <2> HIDE DEF v
  <2>2. PageFits([shell EXCEPT !.profile = v])
    BY <1>1, <2>1, SwitchedFits
  <2>3. QED
    BY <1>1, <2>1, <2>2, ShellClicked
<1>6. CASE ClickElsewhere
  <2> DEFINE s == [[shell EXCEPT !.menu = FALSE] EXCEPT !.profile = FALSE]
  <2>1. PageFits(s)
    BY <1>1, SwitchedFits
  <2>2. ShClick(s, {}) /\ UNCHANGED valid
    BY <1>1, <1>6 DEF ClickElsewhere, ShellPages
  <2> HIDE DEF s
  <2>3. QED
    BY <1>1, <2>1, <2>2, ShellClicked
<1>7. CASE HidePage
  <2> DEFINE v == ~shell.hidden
  <2>1. ShClick([shell EXCEPT !.hidden = v], {}) /\ UNCHANGED valid /\ v \in BOOLEAN
    BY <1>1, <1>7 DEF HidePage, ShellPages
  <2> HIDE DEF v
  <2>2. PageFits([shell EXCEPT !.hidden = v])
    BY <1>1, <2>1, SwitchedFits
  <2>3. QED
    BY <1>1, <2>1, <2>2, ShellClicked
<1>8. CASE ExpireToken
  BY <1>1, <1>8, ShellClicked DEF ExpireToken
<1>9. ASSUME NEW s \in ShServers, ServerTurns(s) PROVE ShellInv'
  <2>1. shClicks' \in 0..ShClicks
    BY <1>9, ShellAssumption DEF ShellInv, ServerTurns
  <2>2. down' \subseteq ShServers
    BY <1>9 DEF ShellInv, ServerTurns
  <2>3. QED
    BY <1>1, <1>9, <2>1, <2>2 DEF ShellInv, ServerTurns
<1>10. CASE ReloadPage
  <2>1. shClicks' \in 0..ShClicks
    BY <1>10, ShellAssumption DEF ShellInv, ReloadPage
  <2>2. checks' \in [Slots -> Checks] /\ PageFits(shell')
    BY <1>1, <1>10, LoadedFits, FirstChecks DEF ReloadPage
  <2>3. QED
    BY <1>10, <2>1, <2>2 DEF ShellInv, ReloadPage
<1>11. CASE InitSummaryDashboard
  <2> DEFINE n == shell.timers - 1
             s == IF shell.handle THEN [shell EXCEPT !.timers = n, !.handle = FALSE] ELSE shell
             q == Load("first", shell.token, shClicks + 1)
  <2>1. ShClick(s, {q}) /\ UNCHANGED valid /\ shClicks < ShClicks
    BY <1>11 DEF InitSummaryDashboard, ShClick
  <2>2. q \in Loads /\ q.what = "first"
    BY <1>1, <2>1, ShellClickNumber DEF Load, Loads
  <2>3. shell.handle => n \in Nat
    BY <1>1 DEF PageFits, ShellPages
  <2> HIDE DEF n, q
  <2>4. PageFits(s)
    BY <1>1, <2>3 DEF PageFits, ShellPages
  <2> HIDE DEF s
  <2>5. QED
    BY <1>1, <2>1, <2>2, <2>4, ShellClicked
<1>12. CASE SummaryTick
  <2> DEFINE q == Load("again", shell.token, 0)
  <2>1. q \in Loads /\ q.what = "again"
    BY <1>1, ShellSets DEF Load, Loads, NoToken
  <2>2. loads' = loads \cup {q} /\ shell' = Quiet(shell) /\ UNCHANGED <<down, valid, checks, shClicks, shFailures>>
    BY <1>12 DEF SummaryTick
  <2> HIDE DEF q
  <2>3. QED
    BY <1>1, <2>1, <2>2, ShellKept
<1>13. CASE RefreshAll
  <2> DEFINE w == Min({Quiet(shell).since + 1, Reminder + 1})
  <2>1. Quiet(shell).since \in Nat
    BY <1>1 DEF PageFits, ShellPages, Waits
  <2>2. w \in Waits
    <3>1. \A a, b \in Nat : Min({a, b}) \in {a, b} /\ Min({a, b}) <= b
      <4> SUFFICES ASSUME NEW a \in Nat, NEW b \in Nat PROVE Min({a, b}) \in {a, b} /\ Min({a, b}) <= b
        OBVIOUS
      <4>1. \E x \in {a, b} : \A y \in {a, b} : x <= y
        <5>1. CASE a <= b
          BY <5>1
        <5>2. CASE b <= a
          BY <5>2
        <5>3. QED
          BY <5>1, <5>2
      <4>2. QED
        BY <4>1 DEF Min
    <3>2. QED
      BY <2>1, <3>1 DEF Reminder, Waits
  <2>3. shell' = [Quiet(shell) EXCEPT !.since = w] /\ UNCHANGED <<down, valid, loads, shClicks, shFailures>>
    BY <1>13 DEF RefreshAll
  <2> HIDE DEF w
  <2>4. PageFits(shell')
    BY <1>1, <2>2, <2>3, SinceFits
  <2>5. checks' \in [Slots -> Checks]
    BY <1>1, <1>13, CheckTyped DEF RefreshAll
  <2>6. QED
    BY <1>1, <2>3, <2>4, <2>5, ShellKept
<1>14. ASSUME NEW i \in Slots, NEW t \in ShTools, ListSettles(i, t) PROVE ShellInv'
  <2> DEFINE d == {s \in down : s[1] = t}
             l == IF checks[i].as \in valid THEN Listed(d) ELSE Failed
  <2>1. d \subseteq ShServers
    BY DEF ShellInv
  <2> HIDE DEF d
  <2>2. l \in ListStates /\ Failed \in ListStates
    BY <2>1 DEF Listed, Failed, ListStates
  <2>3. /\ checks' \in {[checks EXCEPT ![i].lists[t] = l], [checks EXCEPT ![i].lists[t] = Failed]}
        /\ shell' \in {Quiet(Refused(shell, checks[i].as)), Quiet(shell)}
        /\ UNCHANGED shFailures \/ (shFailures < ShFailures /\ shFailures' = shFailures + 1)
        /\ UNCHANGED <<down, valid, loads, shClicks>>
    BY <1>14 DEF ListSettles, d
  <2> HIDE DEF l
  <2>4. checks' \in [Slots -> Checks]
    <3>1. \A k \in ListStates : [checks[i] EXCEPT !.lists[t] = k] \in Checks
      BY <1>1 DEF Checks
    <3>2. \A k \in ListStates : [checks EXCEPT ![i].lists[t] = k] \in [Slots -> Checks]
      BY <1>1, <3>1
    <3>3. QED
      BY <2>2, <2>3, <3>2
  <2>5. PageFits(shell')
    BY <1>1, <2>3, RefusedFits, QuietFits
  <2>6. QED
    BY <1>1, <2>3, <2>4, <2>5, ShellKept
<1>15. ASSUME NEW i \in Slots, CheckServerStatus(i) PROVE ShellInv'
  <2> DEFINE o == OfflineServers(i)
             c == Cardinality(o)
             a == Alarm(Quiet(shell), c)
  <2>1. o \subseteq ShServers
    BY <1>1 DEF OfflineServers, Checks, ListStates
  <2>2. c \in Counts
    BY <2>1, ShellSets
  <2>3. PageFits(a)
    BY <1>1, AlarmFits
  <2>4. shell' = [a EXCEPT !.last = c, !.badge = o]
    BY <1>15 DEF CheckServerStatus
  <2>5. checks' \in [Slots -> Checks]
    BY <1>1, <1>15, CheckTyped DEF CheckServerStatus
  <2> HIDE DEF o, c, a
  <2>6. PageFits(shell')
    BY <2>1, <2>2, <2>3, <2>4 DEF PageFits, ShellPages
  <2>7. QED
    BY <1>1, <1>15, <2>5, <2>6, ShellKept DEF CheckServerStatus
<1>16. ASSUME NEW l \in loads, NEW s, PageFits(s), Settled(l, s), valid' \subseteq 1..ShClicks,
              UNCHANGED shFailures \/ (shFailures < ShFailures /\ shFailures' = shFailures + 1)
       PROVE  ShellInv'
  <2>1. loads' \subseteq loads /\ UNCHANGED <<down, checks, shClicks>> /\ PageFits(shell')
    BY <1>16, QuietFits DEF Settled
  <2>2. QED
    BY <1>1, <1>16, <2>1, ShellKept
<1>17. ASSUME NEW l \in loads, LoginAnswer(l) PROVE ShellInv'
  <2>1. l.n \in 1..ShClicks /\ l.n \in Numbers /\ l.n # NoToken
    BY <1>1, <1>17, ShellAssumption DEF LoginAnswer, Loads, Numbers, NoToken
  <2>2. valid' \subseteq 1..ShClicks
    BY <1>1, <1>17, <2>1 DEF LoginAnswer
  <2>3. PageFits([shell EXCEPT !.token = l.n, !.stored = l.n, !.overlay = FALSE])
    BY <1>1, <2>1 DEF PageFits, ShellPages
  <2>4. PageFits([shell EXCEPT !.refused = TRUE])
    BY <1>1, SwitchedFits
  <2>5. QED
    BY <1>16, <1>17, <2>2, <2>3, <2>4 DEF LoginAnswer
<1>18. ASSUME NEW l \in loads, SummaryAnswer(l) PROVE ShellInv'
  <2> DEFINE s == [shell EXCEPT !.grid = "cards", !.cards = RenderHealthGrid, !.groups = RenderAlerts]
             r == Refused(shell, l.as)
             g == IF r.grid = "blank" THEN "error" ELSE r.grid
             e == [r EXCEPT !.grid = g]
  <2>1. PageFits(s) /\ PageFits(r)
    BY <1>1, CardsFit, RefusedFits
  <2>2. g \in {"blank", "error", "cards"}
    BY <2>1 DEF PageFits, ShellPages
  <2>3. \/ Settled(l, WithInterval(l, s))
        \/ Settled(l, WithInterval(l, e))
    BY <1>18 DEF SummaryAnswer
  <2> HIDE DEF s, r, g
  <2>4. PageFits(e)
    BY <2>1, <2>2, GridFits
  <2> HIDE DEF e
  <2>5. UNCHANGED valid /\ (UNCHANGED shFailures \/ (shFailures < ShFailures /\ shFailures' = shFailures + 1))
    BY <1>18 DEF SummaryAnswer
  <2>6. QED
    BY <1>1, <1>16, <2>1, <2>3, <2>4, <2>5, IntervalFits
<1>19. CASE UNCHANGED shellVars
  BY <1>1, <1>19 DEF shellVars, ShellInv
<1>20. QED
  BY <1>2, <1>3, <1>4, <1>5, <1>6, <1>7, <1>8, <1>9, <1>10, <1>11, <1>12, <1>13, <1>14, <1>15, <1>17, <1>18, <1>19
     DEF ShellNext

\* In every behaviour of the shell, with or without fairness.
LEMMA ShellAlways == ShellInit /\ [][ShellNext]_shellVars => []ShellInv
  BY ShellInvInit, ShellInvStep, PTL

----------------------------------------------------------------------------
(* The consoles *)

ConTexts == Texts \cup {"connected", "disconnected"}
\* Sockets and the consoles of a page, of the first o sockets.
SocketRecords == [client : {"none", "connecting", "open", "closing", "closed"},
                  handler : {"none", "upgrade", "connect", "running", "ended"},
                  reader : BOOLEAN, printed : BOOLEAN, typed : BOOLEAN, grace : BOOLEAN,
                  mail : SUBSET Texts]
ConPages(o) == [ws : {NoSocket, o}, term : {NoSocket, o}, screen : SUBSET (ConTexts \X (1..o)), files : SUBSET (1..o)]
IsLive(s)   == s.client \in {"connecting", "open"}
\* A socket n that may stand beside the current one, ws, when o are open; only
\* one that was opened has a client.
SocketFits(n, s, ws, o) == /\ s \in SocketRecords
                           /\ IsLive(s) => n = ws
                           /\ s.printed => s.handler = "running"
                           /\ s.mail # {} => IsLive(s)
                           /\ s.client # "none" => n <= o
AllFit(ss, ws, o) == ss = [n \in Sockets |-> ss[n]] /\ \A n \in Sockets : SocketFits(n, ss[n], ws, o)
\* What every behaviour of the console keeps.
ConInv == /\ opened \in 0..ConOpens /\ con \in ConPages(opened) /\ con.term = con.ws
          /\ AllFit(sockets, con.ws, opened)

\* It is the type invariant and that.
LEMMA ConInvTyped == ConInv => ConsoleTypeOK
<1> SUFFICES ASSUME ConInv PROVE ConsoleTypeOK
  OBVIOUS
<1>1. /\ con = [ws |-> con.ws, term |-> con.term, screen |-> con.screen, files |-> con.files]
      /\ con.ws \in {NoSocket, opened} /\ con.files \subseteq 1..opened
      /\ con.screen \subseteq ConTexts \X (1..opened)
  BY DEF ConInv, ConPages
<1>2. sockets = [n \in Sockets |-> sockets[n]] /\ \A n \in Sockets : sockets[n] \in SocketRecords
  BY DEF ConInv, AllFit, SocketFits
<1>3. sockets \in [Sockets -> SocketRecords]
  BY <1>2
<1>4. \A n \in Sockets : /\ Live(n) => n = con.ws
                         /\ sockets[n].printed => Running(n)
                         /\ sockets[n].mail # {} => Live(n)
  BY DEF ConInv, AllFit, SocketFits, IsLive, Live, Running
<1>5. opened \in 0..ConOpens /\ con.term = con.ws
  BY DEF ConInv
<1>6. QED
  BY <1>1, <1>3, <1>4, <1>5 DEF ConsoleTypeOK, SocketRecords, ConTexts

\* A page without console, no socket.
LEMMA ConInvInit == ConInit => ConInv
<1> SUFFICES ASSUME ConInit PROVE ConInv
  OBVIOUS
<1>1. opened \in 0..ConOpens
  BY ConsoleAssumption DEF ConInit
<1>2. con \in ConPages(opened) /\ con.term = con.ws
  BY DEF ConInit, ConPages, Page
<1>3. \A n \in Sockets : SocketFits(n, Socket("none", "none"), con.ws, opened)
  BY DEF Socket, SocketFits, SocketRecords, IsLive
<1>4. sockets = [n \in Sockets |-> Socket("none", "none")]
  BY DEF ConInit
<1>5. AllFit(sockets, con.ws, opened)
  BY <1>3, <1>4 DEF AllFit
<1>6. QED
  BY <1>1, <1>2, <1>5 DEF ConInv

\* A socket that fits takes the place of one.
LEMMA OneFits == ASSUME NEW ss, NEW ws, NEW o, AllFit(ss, ws, o), NEW n \in Sockets, NEW s, SocketFits(n, s, ws, o)
                 PROVE  AllFit([ss EXCEPT ![n] = s], ws, o)
  BY DEF AllFit

\* What a handler prints on the page.
LEMMA WrittenTyped == ASSUME ConInv, NEW text \in ConTexts, NEW n \in 1..opened
                      PROVE  /\ Written(text, n) \in ConPages(opened)
                             /\ Written(text, n).ws = con.ws /\ Written(text, n).term = con.term
                             /\ Written(text, n).files = con.files
<1>1. con \in ConPages(opened)
  BY DEF ConInv
<1>2. CASE con.term = NoSocket
  BY <1>1, <1>2 DEF Written
<1>3. CASE con.term # NoSocket
  <2> DEFINE k == con.screen \cup {<<text, n>>}
  <2>1. k \subseteq ConTexts \X (1..opened)
    BY <1>1 DEF ConPages
  <2>2. Written(text, n) = [con EXCEPT !.screen = k]
    BY <1>3 DEF Written
  <2> HIDE DEF k
  <2>3. QED
    BY <1>1, <2>1, <2>2 DEF ConPages
<1>4. QED
  BY <1>2, <1>3

\* After WebSocket.close no socket is live, whichever becomes the current one.
LEMMA ClosedFit == ASSUME ConInv, NEW ws, NEW o \in Nat, opened <= o
                   PROVE  AllFit(Close(con.ws), ws, o)
<1> DEFINE n == con.ws
           s == [sockets[n] EXCEPT !.client = "closing", !.mail = {}, !.grace = sockets[n].client = "connecting"]
<1>1. opened \in Nat /\ con.ws \in {NoSocket, opened} /\ AllFit(sockets, con.ws, opened)
  BY ConsoleAssumption DEF ConInv, ConPages
<1>2. \A i \in Sockets : i \in Nat /\ SocketFits(i, sockets[i], con.ws, opened)
  BY <1>1 DEF AllFit, Sockets
<1>3. \A i \in Sockets : ~IsLive(sockets[i]) => SocketFits(i, sockets[i], ws, o)
  BY <1>1, <1>2 DEF SocketFits
<1>4. CASE n = NoSocket \/ ~Live(n)
  <2>1. Close(n) = sockets
    BY <1>4 DEF Close
  <2>2. \A i \in Sockets : ~IsLive(sockets[i])
    BY <1>2, <1>4 DEF SocketFits, Live, IsLive, NoSocket, Sockets
  <2>3. QED
    BY <1>1, <1>3, <2>1, <2>2 DEF AllFit
<1>5. CASE n # NoSocket /\ Live(n)
  <2>1. n \in Sockets
    BY <1>1, <1>5 DEF ConInv, Sockets, NoSocket
  <2>2. Close(n) = [sockets EXCEPT ![n] = s]
    BY <1>1, <1>5, <2>1 DEF Close, AllFit
  <2>3. s \in SocketRecords /\ s.client = "closing" /\ s.mail = {} /\ s.printed = sockets[n].printed /\ s.handler = sockets[n].handler
    BY <1>2, <2>1 DEF SocketFits, SocketRecords
  <2>4. SocketFits(n, s, ws, o)
    <3>1. n <= o
      BY <1>1, <1>5
    <3>2. s.printed => s.handler = "running"
      BY <1>2, <2>1, <2>3 DEF SocketFits
    <3> HIDE DEF s
    <3>3. QED
      BY <2>3, <3>1, <3>2 DEF SocketFits, IsLive
  <2>5. \A i \in Sockets \ {n} : SocketFits(i, sockets[i], ws, o)
    BY <1>2, <1>3 DEF SocketFits
  <2> HIDE DEF s
  <2>6. QED
    BY <1>1, <2>1, <2>2, <2>4, <2>5 DEF AllFit
<1>6. QED
  BY <1>4, <1>5

\* A step of the server replaces a socket.
LEMMA ServesFits == ASSUME ConInv, NEW n \in Sockets, NEW s, SocketFits(n, s, con.ws, opened), Serves(n, s) PROVE ConInv'
  BY OneFits DEF Serves, ConInv

\* A message that is mailed fits.
LEMMA MailedFits == ASSUME NEW n, NEW s, NEW ws, NEW o, SocketFits(n, s, ws, o), NEW text \in Texts
                    PROVE  SocketFits(n, Mailed(s, text), ws, o)
<1> DEFINE k == s.mail \cup {text}
<1>1. CASE IsLive(s)
  <2>1. Mailed(s, text) = [s EXCEPT !.mail = k] /\ k \subseteq Texts
    BY <1>1 DEF Mailed, IsLive, SocketFits, SocketRecords
  <2> HIDE DEF k
  <2>2. QED
    BY <1>1, <2>1 DEF SocketFits, SocketRecords, IsLive
<1>2. CASE ~IsLive(s)
  BY <1>2 DEF Mailed, IsLive
<1>3. QED
  BY <1>1, <1>2

\* So does a session that ends.
LEMMA EndedFits == ASSUME NEW n, NEW s, NEW ws, NEW o, SocketFits(n, s, ws, o) PROVE SocketFits(n, Ended(s), ws, o)
  BY DEF Ended, SocketFits, SocketRecords, IsLive

\* The steps of the server.
LEMMA HandlerSteps == ASSUME ConInv, NEW n \in Sockets, Handler(n) \/ Reader(n) \/ Prints(n) \/ ConsoleExits(n) PROVE ConInv'
<1> DEFINE s == sockets[n]
           p == s.printed \/ Running(n)
           g == s.grace /\ s.reader
           c == [s EXCEPT !.printed = FALSE, !.grace = g]
<1>1. SocketFits(n, s, con.ws, opened)
  BY DEF ConInv, AllFit
<1>2. SocketFits(n, Ended(s), con.ws, opened) /\ \A text \in Texts : SocketFits(n, Ended(Mailed(s, text)), con.ws, opened)
  BY <1>1, EndedFits, MailedFits
<1>3. CASE Upgrade(n)
  <2>1. SocketFits(n, [s EXCEPT !.handler = "connect"], con.ws, opened)
    BY <1>1, <1>3 DEF Upgrade, SocketFits, SocketRecords, IsLive
  <2>2. QED
    BY <1>2, <1>3, <2>1, ServesFits DEF Upgrade
<1>4. CASE Connect(n)
  <2>1. SocketFits(n, [s EXCEPT !.handler = "running", !.reader = TRUE], con.ws, opened)
    BY <1>1 DEF SocketFits, SocketRecords, IsLive
  <2>2. QED
    BY <1>2, <1>4, <2>1, ServesFits DEF Connect, Texts
<1>5. CASE CopyOutput(n)
  <2>1. g \in BOOLEAN
    OBVIOUS
  <2> HIDE DEF g
  <2>2. SocketFits(n, c, con.ws, opened)
    BY <1>1, <2>1 DEF SocketFits, SocketRecords, IsLive
  <2> HIDE DEF c
  <2>3. SocketFits(n, Mailed(c, "output"), con.ws, opened)
    BY <2>2, MailedFits DEF Texts
  <2>4. Serves(n, Mailed(c, "output")) \/ Serves(n, Ended(s))
    BY <1>5 DEF CopyOutput, c, g
  <2>5. QED
    BY <1>2, <2>3, <2>4, ServesFits
<1>6. CASE ReadMessage(n)
  <2>1. p \in BOOLEAN /\ (p => s.handler = "running") /\ Serves(n, [s EXCEPT !.typed = FALSE, !.printed = p])
    BY <1>1, <1>6 DEF ReadMessage, Running, SocketFits, SocketRecords
  <2> HIDE DEF p
  <2>2. SocketFits(n, [s EXCEPT !.typed = FALSE, !.printed = p], con.ws, opened)
    BY <1>1, <2>1 DEF SocketFits, SocketRecords, IsLive
  <2>3. QED
    BY <2>1, <2>2, ServesFits
<1>7. CASE ReaderEnds(n)
  <2>1. SocketFits(n, [s EXCEPT !.reader = FALSE, !.typed = FALSE], con.ws, opened)
    BY <1>1 DEF SocketFits, SocketRecords, IsLive
  <2>2. QED
    BY <1>7, <2>1, ServesFits DEF ReaderEnds
<1>8. CASE Prints(n)
  <2>1. SocketFits(n, [s EXCEPT !.printed = TRUE], con.ws, opened)
    BY <1>1, <1>8 DEF Prints, Running, SocketFits, SocketRecords, IsLive
  <2>2. QED
    BY <1>8, <2>1, ServesFits DEF Prints
<1>9. CASE ConsoleExits(n)
  BY <1>2, <1>9, ServesFits DEF ConsoleExits, Texts
<1>10. QED
  BY <1>3, <1>4, <1>5, <1>6, <1>7, <1>8, <1>9 DEF Handler, Reader

\* The events of the browser.
LEMMA BrowserSteps == ASSUME ConInv, NEW n \in Sockets, Browser(n) PROVE ConInv'
<1> DEFINE s == sockets[n]
<1>1. /\ SocketFits(n, s, con.ws, opened) /\ AllFit(sockets, con.ws, opened) /\ con \in ConPages(opened)
      /\ con.term = con.ws /\ opened \in 0..ConOpens
  BY DEF ConInv, AllFit
<1>2. n \in Nat /\ n >= 1 /\ opened \in Nat
  BY <1>1, ConsoleAssumption DEF Sockets
<1>3. s.client # "none" => n \in 1..opened
  BY <1>1, <1>2 DEF SocketFits
<1>4. ASSUME NEW t, SocketFits(n, t, con.ws, opened), sockets' = [sockets EXCEPT ![n] = t], UNCHANGED opened,
             con' \in ConPages(opened), con'.ws = con.ws, con'.term = con.term
      PROVE  ConInv'
  <2>1. AllFit(sockets', con.ws, opened)
    BY <1>1, <1>4, OneFits
  <2>2. QED
    BY <1>1, <1>4, <2>1 DEF ConInv
<1>5. CASE OnOpen(n)
  <2>1. SocketFits(n, [s EXCEPT !.client = "open"], con.ws, opened)
    BY <1>1, <1>5 DEF OnOpen, SocketFits, SocketRecords, IsLive
  <2>2. sockets' = [sockets EXCEPT ![n] = [s EXCEPT !.client = "open"]]
    BY <1>1, <1>5 DEF OnOpen, AllFit
  <2>3. con' = Written("connected", n) /\ n \in 1..opened /\ "connected" \in ConTexts /\ UNCHANGED opened
    BY <1>3, <1>5 DEF OnOpen, ConTexts
  <2>4. QED
    BY <1>4, <2>1, <2>2, <2>3, WrittenTyped
<1>6. ASSUME NEW what \in Texts, OnMessage(n, what) PROVE ConInv'
  <2> DEFINE k == s.mail \ {what}
             f == con.files \cup {n}
             t == [s EXCEPT !.mail = k]
  <2>1. k \subseteq Texts /\ n \in 1..opened /\ f \subseteq 1..opened /\ s.client = "open" /\ UNCHANGED opened
    BY <1>1, <1>3, <1>6 DEF OnMessage, SocketFits, SocketRecords, ConPages
  <2>2. sockets' = [sockets EXCEPT ![n] = t]
    BY <1>1, <1>6 DEF OnMessage, AllFit
  <2>3. con' = IF what = "output" THEN [con EXCEPT !.files = f] ELSE Written(what, n)
    BY <1>6 DEF OnMessage
  <2> HIDE DEF k, f
  <2>4. SocketFits(n, t, con.ws, opened)
    BY <1>1, <2>1 DEF SocketFits, SocketRecords, IsLive
  <2> HIDE DEF t
  <2>5. /\ [con EXCEPT !.files = f] \in ConPages(opened)
        /\ [con EXCEPT !.files = f].ws = con.ws /\ [con EXCEPT !.files = f].term = con.term
    BY <1>1, <2>1 DEF ConPages
  <2>6. /\ Written(what, n) \in ConPages(opened)
        /\ Written(what, n).ws = con.ws /\ Written(what, n).term = con.term
    BY <2>1, WrittenTyped DEF ConTexts
  <2>7. QED
    BY <1>4, <2>1, <2>2, <2>3, <2>4, <2>5, <2>6
<1>7. CASE FileRead(n)
  <2> DEFINE w == Written("output", n)
             k == w.files \ {n}
  <2>1. con' = [w EXCEPT !.files = k] /\ UNCHANGED <<sockets, opened>> /\ n \in 1..opened
    BY <1>1, <1>7 DEF FileRead, ConPages
  <2>2. w \in ConPages(opened) /\ w.ws = con.ws /\ w.term = con.term
    BY <2>1, WrittenTyped DEF ConTexts, Texts
  <2>3. k \subseteq 1..opened
    BY <2>2 DEF ConPages
  <2> HIDE DEF w, k
  <2>4. con' \in ConPages(opened) /\ con'.ws = con.ws /\ con'.term = con.term
    BY <2>1, <2>2, <2>3 DEF ConPages
  <2>5. QED
    BY <1>1, <2>1, <2>4 DEF ConInv
<1>8. CASE OnClose(n)
  <2>1. s.mail = {}
    BY <1>1, <1>8 DEF OnClose, SocketFits, IsLive
  <2>2. SocketFits(n, [s EXCEPT !.client = "closed"], con.ws, opened)
    BY <1>1, <1>8, <2>1 DEF OnClose, SocketFits, SocketRecords, IsLive
  <2>3. sockets' = [sockets EXCEPT ![n] = [s EXCEPT !.client = "closed"]]
    BY <1>1, <1>8 DEF OnClose, AllFit
  <2>4. con' = Written("disconnected", n) /\ n \in 1..opened /\ "disconnected" \in ConTexts /\ UNCHANGED opened
    BY <1>3, <1>8 DEF OnClose, ConTexts
  <2>5. QED
    BY <1>4, <2>2, <2>3, <2>4, WrittenTyped
<1>9. QED
  BY <1>5, <1>6, <1>7, <1>8 DEF Browser

\* Every step keeps the invariant.
LEMMA ConInvStep == ConInv /\ [ConNext]_conVars => ConInv'
<1> SUFFICES ASSUME ConInv, [ConNext]_conVars PROVE ConInv'
  OBVIOUS
<1>1. /\ AllFit(sockets, con.ws, opened) /\ con \in ConPages(opened)
      /\ con.term = con.ws /\ opened \in 0..ConOpens /\ opened \in Nat
  BY ConsoleAssumption DEF ConInv
<1>2. CASE OpenTerminal
  <2> DEFINE o == opened + 1
             s == Socket("connecting", "upgrade")
  <2>1. opened' = o /\ o \in 1..ConOpens /\ opened < o
    BY <1>1, <1>2, ConsoleAssumption DEF OpenTerminal
  <2>2. con' = [Page(o, o, {}) EXCEPT !.files = con.files] /\ sockets' = [Close(con.ws) EXCEPT ![o] = s]
    BY <1>2, <2>1 DEF OpenTerminal
  <2>3. o \in Sockets /\ o \in Nat /\ opened <= o
    BY <1>1, <2>1 DEF Sockets
  <2> HIDE DEF o
  <2>4. con.files \subseteq 1..o
    BY <1>1, <2>3 DEF ConPages
  <2>5. con' \in ConPages(o) /\ con'.ws = o /\ con'.term = o
    BY <2>2, <2>4 DEF ConPages, Page
  <2>6. SocketFits(o, s, o, o)
    BY <2>3 DEF SocketFits, SocketRecords, Socket, IsLive
  <2> HIDE DEF s
  <2>7. AllFit(sockets', o, o)
    BY <2>2, <2>3, <2>6, ClosedFit, OneFits
  <2>8. QED
    BY <2>1, <2>5, <2>7 DEF ConInv
<1>3. CASE CloseTerminalModal \/ LeavePage
  <2>1. con' \in ConPages(opened) /\ con'.ws = NoSocket /\ con'.term = NoSocket /\ sockets' = Close(con.ws) /\ UNCHANGED opened
    BY <1>1, <1>3 DEF CloseTerminalModal, LeavePage, ConPages, Page
  <2>2. AllFit(sockets', NoSocket, opened)
    BY <1>1, <2>1, ClosedFit
  <2>3. QED
    BY <1>1, <2>1, <2>2 DEF ConInv
<1>4. CASE OnData
  <2> DEFINE n == con.ws
             s == [sockets[n] EXCEPT !.typed = TRUE]
  <2>1. n \in Sockets
    BY <1>1, <1>4 DEF OnData, ConPages, Sockets, NoSocket
  <2>2. SocketFits(n, sockets[n], con.ws, opened)
    BY <1>1, <2>1 DEF AllFit
  <2>3. SocketFits(n, s, con.ws, opened)
    BY <2>2 DEF SocketFits, SocketRecords, IsLive
  <2>4. Serves(n, s)
    BY <1>1, <1>4, <2>1 DEF OnData, Serves, AllFit
  <2>5. QED
    BY <2>1, <2>3, <2>4, ServesFits
<1>5. ASSUME NEW n \in Sockets, Browser(n) \/ Handler(n) \/ Reader(n) \/ Prints(n) \/ ConsoleExits(n) PROVE ConInv'
  BY <1>5, BrowserSteps, HandlerSteps
<1>6. CASE UNCHANGED conVars
  BY <1>1, <1>6 DEF conVars, ConInv
<1>7. QED
  BY <1>2, <1>3, <1>4, <1>5, <1>6 DEF ConNext

\* In every behaviour of the console, with or without fairness.
LEMMA ConAlways == ConInit /\ [][ConNext]_conVars => []ConInv
  BY ConInvInit, ConInvStep, PTL

----------------------------------------------------------------------------
(* Side by side *)

\* A step of the front end is a step of each part, or none of it.
LEMMA PagesParts == PagesInit /\ [][PagesNext]_pageVars =>
                      /\ GeoInit      /\ [][GeoNext]_geoVars
                      /\ SettingsInit /\ [][SetNext]_setVars
                      /\ LogsInit     /\ [][LogsNext]_logVars
                      /\ HistoryInit  /\ [][HistoryNext]_histVars
                      /\ ShellInit    /\ [][ShellNext]_shellVars
                      /\ ConInit      /\ [][ConNext]_conVars
<1>1. PagesInit => GeoInit /\ SettingsInit /\ LogsInit /\ HistoryInit /\ ShellInit /\ ConInit
  BY DEF PagesInit
<1>2. [PagesNext]_pageVars => [GeoNext]_geoVars
  BY DEF PagesNext, MapStep, SettingsStep, LogsStep, HistoryStep, ShellStep, ConsoleStep, pageVars
<1>3. [PagesNext]_pageVars => [SetNext]_setVars
  BY DEF PagesNext, MapStep, SettingsStep, LogsStep, HistoryStep, ShellStep, ConsoleStep, pageVars
<1>4. [PagesNext]_pageVars => [LogsNext]_logVars
  BY DEF PagesNext, MapStep, SettingsStep, LogsStep, HistoryStep, ShellStep, ConsoleStep, pageVars
<1>5. [PagesNext]_pageVars => [HistoryNext]_histVars
  BY DEF PagesNext, MapStep, SettingsStep, LogsStep, HistoryStep, ShellStep, ConsoleStep, pageVars
<1>6. [PagesNext]_pageVars => [ShellNext]_shellVars
  BY DEF PagesNext, MapStep, SettingsStep, LogsStep, HistoryStep, ShellStep, ConsoleStep, pageVars
<1>7. [PagesNext]_pageVars => [ConNext]_conVars
  BY DEF PagesNext, MapStep, SettingsStep, LogsStep, HistoryStep, ShellStep, ConsoleStep, pageVars
<1>8. QED
  BY <1>1, <1>2, <1>3, <1>4, <1>5, <1>6, <1>7, PTL

\* However the user renders the map, changes the firewall, the filter or the heat
\* map while lookups are queued, asked for, refused or failing, no address that
\* is shown is forgotten (processGeoQueue, app.js).
THEOREM PagesForgetNoAddress == PagesSpec => []NoAddressForgotten
  BY PagesParts, GeoAlways, GeoInvForgets, PTL DEF PagesSpec

\* Whatever the user does while the three requests of a save are under way, and
\* whichever of them are refused or fail, the user is told that the notification
\* settings are saved only when the server has accepted all three parts of that
\* very save (saveNotificationSettings, app.js).
THEOREM PagesTellSavedWhenSaved == PagesSpec => []ToldSavedIsSaved
  BY PagesParts, ToldAlways, PTL DEF PagesSpec

\* Whatever the user does on the logs page, at most one timer refreshes the logs,
\* and none while the page is paused (startLogsRefresh, app.js).
THEOREM PagesOneRefresher == PagesSpec => []OneRefresher
<1>1. LogsInv => OneRefresher
  BY DEF LogsInv
<1>2. QED
  BY <1>1, PagesParts, LogsAlways, PTL DEF PagesSpec

\* Whatever the user does on the history page, however often the browser loads it
\* anew, at most one timer refreshes it, at the interval chosen and only while the
\* refresh is on (startAutoRefresh, app.js).
THEOREM PagesOneRefreshTimer == PagesSpec => []OneRefreshTimer
  BY PagesParts, HistAlways, HistInvTimer, PTL DEF PagesSpec

\* Whatever the user does on the history page, and however late the answers for
\* another host come, a chart shows the anomalies and the forecasts of its own
\* samples or none (updateCharts, app.js).
THEOREM PagesOverlaysCurrent == PagesSpec => []OverlaysCurrent
  BY PagesParts, HistAlways, SoundAlways, SoundOverlays, PTL DEF PagesSpec

\* The settings page shows that it loads only while it is going to be answered:
\* what ListLoads says of its list, without the fairness of the answers, and the
\* same of the tabs (loadSettingsCategory, showSystemPanel, app.js).
THEOREM PagesWaitsAreAsked == PagesSpec => []SettingsWaitsAreAsked
  BY PagesParts, WaitsAlways, PTL DEF PagesSpec

\* So does the history page with its report, a host's logs and its first visit
\* (generateSLAReport, loadHistoryMetrics, renderHistory, app.js).
THEOREM PagesHistoryNeverStuck == PagesSpec => []HistoryWaitsAreAsked
  BY PagesParts, DueAlways, PTL DEF PagesSpec

\* While lookups wait in the map's queue its turns go on, whatever is rendered,
\* answered, refused or fails: what QueueDrains says, without fairness
\* (processGeoQueue, app.js).
THEOREM PagesQueueGoesOn == PagesSpec => []GeoQueueGoesOn
  BY PagesParts, GoingAlways, PTL DEF PagesSpec

\* Every variable of every part of the front end has its type, whatever the other
\* parts do: among it that the browser keeps the token of the page and the login
\* is shown without one, that the form of the settings is that of a server there
\* may be, and that only the current console's socket is open.
THEOREM PagesTypeCorrect == PagesSpec => []PagesTypeOK
<1>1. LogsInv => LogsTypeOK
  BY DEF LogsInv
<1>2. GeoTyped /\ SetTyped /\ LogsInv /\ HistSound /\ ShellInv /\ ConInv => PagesTypeOK
  BY <1>1, GeoTypedTypeOK, SetTypedTypeOK, SoundTyped, ShellInvTypeOK, ConInvTyped DEF PagesTypeOK
<1>3. QED
  BY <1>2, PagesParts, GeoTypedAlways, SetTypedAlways, LogsAlways, SoundAlways, ShellAlways, ConAlways, PTL DEF PagesSpec
=============================================================================
