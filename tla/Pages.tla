-------------------------------- MODULE Pages --------------------------------
(***************************************************************************)
(* The parts of the front end side by side: the traffic map, the settings, *)
(* the logs, the history, the consoles, and the shell around them.  They   *)
(* share no variable of the program, a token apart which only decides that *)
(* requests fail, so a behaviour is one of one part: what each of them     *)
(* promises is checked in one state space, the sum of theirs and not their *)
(* product.                                                                *)
(***************************************************************************)
EXTENDS GeoQueue, SettingsPage, LogsPage, HistoryPage, Shell, Console

VARIABLE shown \* the part that runs
pageVars == <<geoVars, setVars, logVars, histVars, shellVars, conVars, shown>>

PagesInit == /\ GeoInit /\ SettingsInit /\ LogsInit /\ HistoryInit /\ ShellInit /\ ConInit
             /\ shown \in {"map", "settings", "logs", "history", "shell", "console"}

MapStep      == shown = "map"      /\ GeoNext     /\ UNCHANGED <<setVars, logVars, histVars, shellVars, conVars, shown>>
SettingsStep == shown = "settings" /\ SetNext     /\ UNCHANGED <<geoVars, logVars, histVars, shellVars, conVars, shown>>
LogsStep     == shown = "logs"     /\ LogsNext    /\ UNCHANGED <<geoVars, setVars, histVars, shellVars, conVars, shown>>
HistoryStep  == shown = "history"  /\ HistoryNext /\ UNCHANGED <<geoVars, setVars, logVars, shellVars, conVars, shown>>
ShellStep    == shown = "shell"    /\ ShellNext   /\ UNCHANGED <<geoVars, setVars, logVars, histVars, conVars, shown>>
ConsoleStep  == shown = "console"  /\ ConNext     /\ UNCHANGED <<geoVars, setVars, logVars, histVars, shellVars, shown>>
PagesNext    == MapStep \/ SettingsStep \/ LogsStep \/ HistoryStep \/ ShellStep \/ ConsoleStep

\* That of each part; only the shell has something to do from the start.
PagesFairness == /\ GeoFairness /\ SetFairness /\ LogsFairness /\ HistoryFairness /\ ConFairness
                 /\ shown = "shell" => ShellFairness
PagesSpec == PagesInit /\ [][PagesNext]_pageVars /\ PagesFairness

\* Every variable of every part has its type.
PagesTypeOK == GeoTypeOK /\ SettingsTypeOK /\ LogsTypeOK /\ HistoryTypeOK /\ ShellTypeOK /\ ConsoleTypeOK
=============================================================================
