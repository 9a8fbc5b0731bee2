----------------------------- MODULE Collector -----------------------------
(***************************************************************************)
(* One collection engine of the backend: the goroutines its Start method   *)
(* creates, the cycle CollectAll they run over the configured servers, the *)
(* collectOne call for each server with the host row it upserts, and the   *)
(* server status it maintains in PostgreSQL.  The eight collectors are     *)
(* copies of each other; where the copies differ, a profile operator says  *)
(* for which values of tool.                                               *)
(*                                                                         *)
(* One action is one statement against the database or one stretch of      *)
(* remote commands, because that is what two overlapping cycles, an        *)
(* administrator and a restart can interleave with.                        *)
(***************************************************************************)
EXTENDS Naturals

CONSTANTS
  Tools,       \* the collectors to model: one of them is chosen initially
  Servers,     \* the server ids the run may register (SERIAL: never reused)
  Remotes,     \* the conditions a monitored machine goes through
  MaxRestarts, \* bound on the restarts of the process
  MaxNow,      \* bound on the database clock
  None         \* SQL NULL / no row selected

\* "kubefile": Kubernetes servers that were registered with a kubeconfig.
AllTools == {"kvm", "pfsense", "docker", "podman", "kubernetes", "kubefile",
             "proxmox", "nas", "ceph"}

\* "solid": answers, and will never stop answering.
\* "late": connects and answers, but the final listing command fails.
\* "hung": neither answers nor closes the connection.
AllRemotes == {"solid", "up", "late", "down", "hung"}

ASSUME ToolAssumption   == Tools \subseteq AllTools
ASSUME RemoteAssumption == Remotes \subseteq AllRemotes \ {"solid"}
ASSUME BoundAssumption  == /\ MaxNow \in Nat /\ MaxRestarts \in Nat
                           /\ None \notin Nat /\ None \notin Servers

VARIABLES
  tool,      \* which collector this is; never changes
  remote,    \* condition of each monitored machine
  file,      \* whether each machine has the temporary kubeconfig of a visit
  now,       \* database clock
  restarts,  \* how often the process has been restarted
  status,    \* status column of each server, or "absent" / "deleted"
  since,     \* offline_since column of each server
  rows,      \* host rows of each server, one slot per (inserter, hostname)
  event,     \* last status_change logged for each server in global_history
  alerted,   \* when the last Notify goroutine about the server was started
  point,     \* is_online of the last metric point a visit of the server stored
  pc,        \* where each collection goroutine is
  todo,      \* servers of its GetServers snapshot it has still to visit
  cur,       \* server it is visiting
  want,      \* status its visit will report
  seen,      \* whether the remote commands of the visit were answered
  sel        \* host row its upsert selected


env    == <<tool, remote, file, now, restarts>>
dbVars == <<status, since, rows, event, alerted, point>>
locals == <<pc, todo, cur, want, seen, sel>>
vars   == <<env, dbVars, locals>>

----------------------------------------------------------------------------
(* What distinguishes the eight collectors.                                *)

\* Mutated: every collector runs a cycle in a goroutine of its own at start.
StartedAll(w) == w \in {"boot", "ticker"}

\* The goroutine that serves the ticker, and the one that Start of every
\* collector but KVM and pfSense creates to run one cycle at once.
Workers == {"boot", "ticker"}
Started(w) == w = "ticker" \/ tool \notin {"kvm", "pfsense"}

\* collectOne gives up when its first remote command fails, or ignores it.
ProbeFails == tool \in {"kvm", "pfsense", "kubernetes", "kubefile", "proxmox"}
\* collectOne ends with a listing whose failure it returns.
ListFails == tool \in {"kvm", "docker", "podman"}
\* The host table has UNIQUE(server_id, hostname).
UniqueHost == tool \in {"proxmox", "nas", "ceph"}
\* The upsert looks the host row up by the hostname the machine reported.
KeyedByHostname == tool \in {"podman", "nas", "ceph"}
\* A host upsert that fails is logged and the visit goes on as if it had not.
UpsertErrorIgnored == tool \in {"kubernetes", "kubefile", "proxmox"}
\* Mutated: no case for "nas" in the switch of SetGenericServerStatus.
PropagatesNotNas == tool \notin {"kvm", "pfsense", "nas"}
\* Setting a server offline also marks its host rows.
Propagates == tool \notin {"kvm", "pfsense"}
\* SetServerStatus (KVM) does not notice that the server row is gone.
IgnoresMissingRow == tool = "kvm"
\* Every failed visit, not only the one that changes the status, resets rows.
ClearsOnDown == tool \in {"kubernetes", "kubefile"}
\* A visit works with a file on the machine, named after the server only.
UsesFile == tool = "kubefile"

\* A host row: the goroutine that inserted it and the hostname it has.
RowKeys == Workers \X {"host", "blank"}
ASSUME RowAssumption == None \notin RowKeys

NoRows  == [k \in RowKeys |-> "none"]

Registered(s) == status[s] \in {"unknown", "online", "offline"}
Exists(s, k)  == rows[s][k] # "none"

\* The hostname under which the visit of w upserts ("" is "blank").
HostName(w) == IF KeyedByHostname /\ seen[w] = "lost" THEN "blank" ELSE "host"
\* What the row says of the host: counted as online by the health summary?
\* NAS, Ceph, Proxmox and Kubernetes rows count as online in any case.
Reported(w) == IF tool \in {"docker", "podman"} /\ seen[w] = "lost"
               THEN "down" ELSE "up"
\* All rows of a server set to a status that does not count as online.
MarkedDown(r) == [k \in RowKeys |-> IF r[k] = "none" THEN "none" ELSE "down"]
\* Mutated: the SELECT does not look for the hostname the INSERT uses.
FoundAsHost(s, h) == {k \in RowKeys : k[2] = "host" /\ Exists(s, k) /\ h # ""}
\* The host rows the SELECT of an upsert under hostname h may return.
Found(s, h) == {k \in RowKeys : k[2] = h /\ Exists(s, k)}
\* Mutated: no foreign key; and a unique key on every host table.
InsertFailsNoFK(w)   == UniqueHost /\ Found(cur[w], HostName(w)) # {}
InsertFailsUnique(w) == ~Registered(cur[w]) \/ Found(cur[w], HostName(w)) # {}
\* The INSERT of the upsert fails on the foreign key of a deleted server and,
\* where there is one, on the unique key of a row inserted in the meantime.
InsertFails(w) == \/ ~Registered(cur[w])
                  \/ UniqueHost /\ Found(cur[w], HostName(w)) # {}
\* Mutated: ahead of the clock; no COALESCE; not reset on recovery.
OfflineSinceAhead(s, st) == IF st = "online" THEN None
                            ELSE IF since[s] = None THEN now + 1 ELSE since[s]
OfflineSinceFresh(s, st) == IF st = "online" THEN None ELSE now
OfflineSinceStale(s, st) == IF st = "online" \/ since[s] # None THEN since[s] ELSE now
\* The offline_since a server gets with status st (COALESCE keeps an older one).
OfflineSince(s, st) == IF st = "online" THEN None
                       ELSE IF since[s] = None THEN now ELSE since[s]

\* Mutated: only the first outage of a server is alerted.
AlertTimeOnce(s, st) == IF st = "offline" /\ alerted[s] = None THEN now ELSE alerted[s]
\* When the last Notify goroutine about s was started, once st is logged.
AlertTime(s, st) == IF st = "offline" THEN now ELSE alerted[s]
\* Mutated: no early return; an online or an offline server is never looked at again.
StatusSettledNever(w)  == ~Registered(cur[w]) /\ ~IgnoresMissingRow
StatusSettledUp(w)     == status[cur[w]] = "online" \/ ~Registered(cur[w])
StatusSettledDown(w)   == status[cur[w]] \in {want[w], "offline"} \/ ~Registered(cur[w])
\* Set*ServerStatus has nothing to do: the status is the wanted one, or the
\* server row is gone.
StatusSettled(w) == \/ status[cur[w]] = want[w]
                    \/ ~Registered(cur[w]) /\ ~IgnoresMissingRow

----------------------------------------------------------------------------
\* Every goroutine between two cycles (boot: before its only one).
AtRest == [pc   |-> [w \in Workers |-> IF Started(w) THEN "idle" ELSE "done"],
           todo |-> [w \in Workers |-> {}],
           cur  |-> [w \in Workers |-> None],
           want |-> [w \in Workers |-> "online"],
           seen |-> [w \in Workers |-> "found"],
           sel  |-> [w \in Workers |-> None]]

Init == /\ tool \in Tools
        /\ remote   \in [Servers -> {"solid", "up"}]
        /\ file     = [s \in Servers |-> FALSE]
        /\ now      = 0
        /\ restarts = 0
        /\ status   = [s \in Servers |-> "absent"]
        /\ since    = [s \in Servers |-> None]
        /\ rows     = [s \in Servers |-> NoRows]
        /\ event    = [s \in Servers |-> "none"]
        /\ alerted  = [s \in Servers |-> None]
        /\ point    = [s \in Servers |-> "none"]
        /\ pc = AtRest.pc /\ todo = AtRest.todo /\ cur = AtRest.cur
        /\ want = AtRest.want /\ seen = AtRest.seen /\ sel = AtRest.sel

Goto(w, l) == pc' = [pc EXCEPT ![w] = l]

\* collectOne returns; CollectAll will report st.
Return(w, st) == /\ Goto(w, "check")
                 /\ want' = [want EXCEPT ![w] = st]
                 /\ seen' = [seen EXCEPT ![w] = "found"]
                 /\ sel'  = [sel  EXCEPT ![w] = None]

\* CollectAll is done with the server.
EndVisit(w) == /\ Goto(w, "next")
               /\ cur'  = [cur  EXCEPT ![w] = None]
               /\ want' = [want EXCEPT ![w] = "online"]

\* Set*ServerStatus returns: a failed visit still has its metric point to store.
StatusDone(w) == IF want[w] = "offline" THEN Goto(w, "down") /\ UNCHANGED <<cur, want>>
                                        ELSE EndVisit(w)

----------------------------------------------------------------------------
(* The collection goroutines.                                              *)

\* CollectAll: read the list of servers.
StartCycle(w) ==
  /\ pc[w] = "idle"
  /\ todo' = [todo EXCEPT ![w] = {s \in Servers : Registered(s)}]
  /\ Goto(w, "next")
  /\ UNCHANGED <<env, dbVars, cur, want, seen, sel>>

\* The next server of the snapshot (the SELECT has no ORDER BY).
Visit(w) ==
  /\ pc[w] = "next"
  /\ \E s \in todo[w] :
       /\ cur'  = [cur  EXCEPT ![w] = s]
       /\ todo' = [todo EXCEPT ![w] = @ \ {s}]
  /\ Goto(w, "dial")
  /\ UNCHANGED <<env, dbVars, want, seen, sel>>

\* The ticker goroutine waits for its next tick, the boot one ends.
EndCycle(w) ==
  /\ pc[w] = "next"
  /\ todo[w] = {}
  /\ Goto(w, IF w = "boot" THEN "done" ELSE "idle")
  /\ UNCHANGED <<env, dbVars, todo, cur, want, seen, sel>>

\* collectOne: open the SSH connection and store the kubeconfig.
Dial(w) ==
  /\ pc[w] = "dial"
  /\ remote[cur[w]] # "hung"
  /\ IF remote[cur[w]] = "down"
     THEN Return(w, "offline") /\ UNCHANGED file
     ELSE /\ Goto(w, "probe")
          /\ file' = [file EXCEPT ![cur[w]] = UsesFile]
          /\ UNCHANGED <<want, seen, sel>>
  /\ UNCHANGED <<tool, remote, now, restarts, dbVars, todo, cur>>

\* The deferred rm -f of the kubeconfig, in a visit that returns.
RemoveFile(w) == file' = [file EXCEPT ![cur[w]] = @ /\ remote[cur[w]] = "down"]

\* collectOne: the commands that describe the host; most collectors drop
\* their errors.
Probe(w) ==
  /\ pc[w] = "probe"
  /\ remote[cur[w]] # "hung"
  /\ IF \/ ProbeFails /\ remote[cur[w]] = "down"
        \/ UsesFile /\ ~file[cur[w]]
     THEN Return(w, "offline") /\ RemoveFile(w)
     ELSE /\ Goto(w, "select")
          /\ seen' = [seen EXCEPT ![w] = IF remote[cur[w]] = "down" THEN "lost" ELSE "found"]
          /\ UNCHANGED <<want, sel, file>>
  /\ UNCHANGED <<tool, remote, now, restarts, dbVars, todo, cur>>

\* The SELECT of the upsert; of several rows it takes any.
SelectRow(w) ==
  /\ pc[w] = "select"
  /\ LET found == Found(cur[w], HostName(w))
     IN  \E k \in IF found = {} THEN {None} ELSE found : sel' = [sel EXCEPT ![w] = k]
  /\ Goto(w, "write")
  /\ UNCHANGED <<env, dbVars, todo, cur, want, seen>>

\* The UPDATE of the upsert, which is no error when the row is gone.
UpdateRow(w) ==
  /\ pc[w] = "write"
  /\ sel[w] # None
  /\ rows' = IF Exists(cur[w], sel[w])
             THEN [rows EXCEPT ![cur[w]] = [@ EXCEPT ![sel[w]] = Reported(w)]]
             ELSE rows
  /\ Goto(w, "metric")
  /\ UNCHANGED <<env, status, since, event, alerted, point, todo, cur, want, seen, sel>>

\* The INSERT of the upsert.
InsertRow(w) ==
  /\ pc[w] = "write"
  /\ sel[w] = None
  /\ ~InsertFails(w)
  /\ rows' = [rows EXCEPT ![cur[w]] = [@ EXCEPT ![<<w, HostName(w)>>] = Reported(w)]]
  /\ Goto(w, "metric")
  /\ UNCHANGED <<env, status, since, event, alerted, point, todo, cur, want, seen, sel>>

\* The INSERT fails; Ceph returns the error only after storing its metric.
UpsertError(w) ==
  /\ pc[w] = "write"
  /\ sel[w] = None
  /\ InsertFails(w)
  /\ IF UpsertErrorIgnored \/ tool = "ceph"
     THEN /\ Goto(w, "metric")
          /\ want' = [want EXCEPT ![w] = IF UpsertErrorIgnored THEN @ ELSE "offline"]
          /\ UNCHANGED <<seen, sel>>
     ELSE Return(w, "offline")
  /\ UNCHANGED <<env, dbVars, todo, cur>>

\* InsertServerMetrics of a visit that got this far.
Metric(w) ==
  /\ pc[w] = "metric"
  /\ point' = [point EXCEPT ![cur[w]] = "online"]
  /\ Goto(w, "list")
  /\ UNCHANGED <<env, status, since, rows, event, alerted, todo, cur, want, seen, sel>>

\* The listing of containers or domains; for the others, just the return.
List(w) ==
  /\ pc[w] = "list"
  /\ ListFails \/ UsesFile => remote[cur[w]] # "hung"
  /\ Return(w, IF ListFails /\ remote[cur[w]] \in {"late", "down"} THEN "offline" ELSE want[w])
  /\ RemoveFile(w)
  /\ UNCHANGED <<tool, remote, now, restarts, dbVars, todo, cur>>

----------------------------------------------------------------------------
(* Set*ServerStatus, called by CollectAll with the outcome of the visit.   *)

\* SELECT status.
CheckStatus(w) ==
  /\ pc[w] = "check"
  /\ IF StatusSettled(w)
     THEN StatusDone(w)
     ELSE Goto(w, "update") /\ UNCHANGED <<cur, want>>
  /\ UNCHANGED <<env, dbVars, todo, seen, sel>>

\* UPDATE status and offline_since WHERE id, which matches no deleted server.
UpdateStatus(w) ==
  LET s == cur[w] IN
  /\ pc[w] = "update"
  /\ IF Registered(s)
     THEN /\ status' = [status EXCEPT ![s] = want[w]]
          /\ since'  = [since  EXCEPT ![s] = OfflineSince(s, want[w])]
     ELSE UNCHANGED <<status, since>>
  /\ Goto(w, "log")
  /\ UNCHANGED <<env, rows, event, alerted, point, todo, cur, want, seen, sel>>

\* LogEvent, and the Notify goroutines started for an outage.
LogChange(w) ==
  LET s == cur[w] IN
  /\ pc[w] = "log"
  /\ event'   = [event EXCEPT ![s] = want[w]]
  /\ alerted' = [alerted EXCEPT ![s] = AlertTime(s, want[w])]
  /\ IF want[w] = "offline" /\ Propagates
     THEN Goto(w, "propagate") /\ UNCHANGED <<cur, want>>
     ELSE StatusDone(w)
  /\ UNCHANGED <<env, status, since, rows, point, todo, seen, sel>>

\* The host rows of a server that just went offline.
Propagate(w) ==
  /\ pc[w] = "propagate"
  /\ rows' = [rows EXCEPT ![cur[w]] = MarkedDown(@)]
  /\ StatusDone(w)
  /\ UNCHANGED <<env, status, since, event, alerted, point, todo, seen, sel>>

\* The "down" metric point of a failed visit.
DownPoint(w) ==
  /\ pc[w] = "down"
  /\ point' = [point EXCEPT ![cur[w]] = "offline"]
  /\ IF ClearsOnDown THEN Goto(w, "clear") /\ UNCHANGED <<cur, want>> ELSE EndVisit(w)
  /\ UNCHANGED <<env, status, since, rows, event, alerted, todo, seen, sel>>

\* ClearKubernetesNodesStatus.
ClearNodes(w) ==
  /\ pc[w] = "clear"
  /\ rows' = [rows EXCEPT ![cur[w]] = MarkedDown(@)]
  /\ EndVisit(w)
  /\ UNCHANGED <<env, status, since, event, alerted, point, todo, seen, sel>>

Step(w) == \/ StartCycle(w) \/ Visit(w) \/ EndCycle(w)
           \/ Dial(w) \/ Probe(w)
           \/ SelectRow(w) \/ UpdateRow(w) \/ InsertRow(w) \/ UpsertError(w)
           \/ Metric(w) \/ List(w)
           \/ CheckStatus(w) \/ UpdateStatus(w) \/ LogChange(w)
           \/ Propagate(w) \/ DownPoint(w) \/ ClearNodes(w)

----------------------------------------------------------------------------
(* The administrator, the monitored machines, the clock and the process.   *)

AddServer(s) ==
  /\ status[s] = "absent"
  /\ status' = [status EXCEPT ![s] = "unknown"]
  /\ UNCHANGED <<env, since, rows, event, alerted, point, locals>>

\* The host rows go with the server: ON DELETE CASCADE.
DeleteServer(s) ==
  /\ Registered(s)
  /\ status' = [status EXCEPT ![s] = "deleted"]
  /\ since'  = [since EXCEPT ![s] = None]
  /\ rows'   = [rows EXCEPT ![s] = NoRows]
  /\ UNCHANGED <<env, event, alerted, point, locals>>

RemoteChange(s) ==
  /\ remote[s] # "solid"
  /\ \E c \in Remotes \ {remote[s]} : remote' = [remote EXCEPT ![s] = c]
  /\ UNCHANGED <<tool, file, now, restarts, dbVars, locals>>

Tick ==
  /\ now < MaxNow
  /\ now' = now + 1
  /\ UNCHANGED <<tool, remote, file, restarts, dbVars, locals>>

\* The process dies between two statements and is started again.
Restart ==
  /\ restarts < MaxRestarts
  /\ restarts' = restarts + 1
  /\ pc' = AtRest.pc /\ todo' = AtRest.todo /\ cur' = AtRest.cur
  /\ want' = AtRest.want /\ seen' = AtRest.seen /\ sel' = AtRest.sel
  /\ UNCHANGED <<tool, remote, file, now, dbVars>>

Next == \/ \E w \in Workers : Step(w)
        \/ \E s \in Servers : AddServer(s) \/ DeleteServer(s) \/ RemoteChange(s)
        \/ Tick
        \/ Restart

Spec == Init /\ [][Next]_vars

\* Goroutines are scheduled: one that can take a step takes it in the end
\* (a command sent to a hung machine cannot return).
FairSpec == Spec /\ \A w \in Workers : WF_vars(Step(w))
----------------------------------------------------------------------------
(* Properties.                                                             *)

Labels == {"idle", "next", "dial", "probe", "select", "write", "metric", "list",
           "check", "update", "log", "propagate", "down", "clear", "done"}

\* Nobody is visiting s.
Quiet(s) == \A w \in Workers : cur[w] # s

EnvOK == /\ tool \in AllTools
         /\ remote \in [Servers -> AllRemotes]
         /\ file \in [Servers -> BOOLEAN]
         /\ now \in 0..MaxNow
         /\ restarts \in 0..MaxRestarts

TablesOK == /\ status \in [Servers -> {"absent", "unknown", "online", "offline", "deleted"}]
            /\ since \in [Servers -> (0..now) \cup {None}]
            /\ rows \in [Servers -> [RowKeys -> {"none", "up", "down"}]]
            /\ event \in [Servers -> {"none", "online", "offline"}]
            /\ alerted \in [Servers -> (0..now) \cup {None}]
            /\ point \in [Servers -> {"none", "online", "offline"}]

GoroutinesOK == /\ pc \in [Workers -> Labels]
                /\ todo \in [Workers -> SUBSET Servers]
                /\ cur \in [Workers -> Servers \cup {None}]
                /\ want \in [Workers -> {"online", "offline"}]
                /\ seen \in [Workers -> {"found", "lost"}]
                /\ sel \in [Workers -> RowKeys \cup {None}]
                /\ \A w \in Workers : cur[w] = None <=> pc[w] \in {"idle", "next", "done"}

\* Every variable has its type, offline_since is never ahead of the clock, and
\* a goroutine has a current server exactly between Visit and the end of it.
TypeOK == EnvOK /\ TablesOK /\ GoroutinesOK

\* offline_since is set exactly while the status is offline, whatever cycles,
\* deletions and restarts interleave: the dashboard computes outage durations
\* from the one and colours servers by the other.
OfflineSinceMatches ==
  \A s \in Servers : (status[s] = "offline") <=> (since[s] # None)

\* As long as a server stays offline its outage keeps its start: a second cycle
\* that finds it down, or a restart, does not make the outage look younger.
OfflineSinceKept ==
  [][\A s \in Servers : status[s] = "offline" /\ status'[s] = "offline"
                        => since'[s] = since[s]]_vars

\* A server whose machine always answers is never reported offline nor alerted
\* about, whatever happens to it in the database.  Excepted are the races the
\* code has: of two overlapping first visits of NAS or Ceph the unique key makes
\* one fail, two overlapping visits of a Kubernetes server remove each other's
\* kubeconfig, and KVM reports a server deleted under a visit.
NoFalseAlarm ==
  \A s \in Servers :
    remote[s] = "solid" /\ tool \notin {"nas", "ceph", "kubefile"}
    => /\ status[s] # "offline"
       /\ alerted[s] # None => tool = "kvm" /\ status[s] = "deleted"

\* When a server is offline and nobody is about to log it, somebody has been
\* alerted since the outage began.
OutageAlerted ==
  restarts = 0 =>
    \A s \in Servers :
      status[s] = "offline" /\ (\A w \in Workers : ~(cur[w] = s /\ pc[w] = "log"))
      => alerted[s] # None /\ alerted[s] >= since[s]

\* No host row outlives its server or appears after its deletion, although the
\* SELECT and the INSERT or UPDATE of an upsert are separate statements.
NoOrphanRows == \A s \in Servers : ~Registered(s) => rows[s] = NoRows

\* A goroutine about to insert a host row has none under that hostname yet: a
\* server has at most one row per goroutine and hostname.
NoSecondInsert ==
  \A w \in Workers :
    pc[w] = "write" /\ sel[w] = None => ~Exists(cur[w], <<w, HostName(w)>>)

\* Between visits the host rows of an offline server do not count as online
\* (Docker and Podman aside, whose listing can fail after the row is written).
RowsFollowStatus ==
  restarts = 0 /\ tool \in {"kubernetes", "kubefile", "proxmox", "nas", "ceph"} =>
    \A s \in Servers : Quiet(s) /\ status[s] = "offline"
                       => \A k \in RowKeys : rows[s][k] # "up"

\* With a single goroutine (KVM, pfSense) and no restart, the last event in the
\* history of a server is its status whenever nobody is visiting it.
HistoryMatchesStatus ==
  restarts = 0 /\ tool \in {"kvm", "pfsense"} =>
    \A s \in Servers : Quiet(s) /\ status[s] \in {"online", "offline"}
                       => event[s] = status[s]

\* ... and its last metric point says the same.
PointMatchesStatus ==
  restarts = 0 /\ tool \in {"kvm", "pfsense"} =>
    \A s \in Servers : Quiet(s) /\ status[s] \in {"online", "offline"}
                       => point[s] = status[s]

\* ... and the history alternates: no status change is logged twice in a row.
NoRepeatedEvent ==
  restarts = 0 /\ tool \in {"kvm", "pfsense"} =>
    \A w \in Workers : pc[w] = "log" /\ Registered(cur[w]) => event[cur[w]] # want[w]

\* A server whose machine stops answering for good ends up offline (or is not
\* registered), through restarts, as long as no machine hangs.
OutageDetected ==
  \A s \in Servers : <>[](remote[s] = "down") => <>[](status[s] \notin {"unknown", "online"})

\* A server whose machine answers for good ends up online.
RecoveryDetected ==
  \A s \in Servers : <>[](remote[s] \in {"up", "solid"})
                     => <>[](status[s] \notin {"unknown", "offline"})

\* What a collector promises of server statuses, without its goroutines.
Board == INSTANCE StatusBoard WITH clock <- now

\* The collector maintains statuses the way StatusBoard says.
ImplementsBoard == Board!Spec

\* Architecture.md: a failure of one server does not delay the monitoring of
\* the others.  A server whose machine always answers is visited ever again.
SlowServersDoNotInterfere ==
  \A s \in Servers : (remote[s] = "solid" /\ <>[]Registered(s))
                     => []<>(\E w \in Workers : cur[w] = s)

\* Usage-Guide.md: the dashboard shows the total of active and of down hosts.
\* Between visits no host of an offline server is counted as active.
DownHostsShown ==
  \A s \in Servers : Quiet(s) /\ status[s] = "offline"
                     => \A k \in RowKeys : rows[s][k] # "up"
============================================================================
