-------------------------- MODULE Collector_proofs --------------------------
(***************************************************************************)
(* What holds of a collector for every set of servers, every number of     *)
(* restarts and every clock bound.                                         *)
(***************************************************************************)
EXTENDS Collector, TLAPS

(***************************************************************************)
(* Type correctness.                                                       *)
(***************************************************************************)

\* The labels between Visit and the end of the visit.
Busy == Labels \ {"idle", "next", "done"}

\* A goroutine that moves on within its visit keeps its locals well typed.
LEMMA GotoType ==
  ASSUME GoroutinesOK, NEW w \in Workers, NEW l \in Busy, pc[w] \in Busy,
         Goto(w, l), UNCHANGED <<todo, cur, want, seen, sel>>
  PROVE  GoroutinesOK'
  BY DEF GoroutinesOK, Goto, Busy

\* collectOne returning keeps the locals well typed.
LEMMA ReturnType ==
  ASSUME GoroutinesOK, NEW w \in Workers, NEW st \in {"online", "offline"},
         pc[w] \in Busy, Return(w, st), UNCHANGED <<todo, cur>>
  PROVE  GoroutinesOK'
  BY DEF GoroutinesOK, Return, Goto, Busy, Labels

\* The end of a visit keeps the locals well typed.
LEMMA EndVisitType ==
  ASSUME GoroutinesOK, NEW w \in Workers, EndVisit(w), UNCHANGED <<todo, seen, sel>>
  PROVE  GoroutinesOK'
  BY DEF GoroutinesOK, EndVisit, Goto, Labels

\* So does Set*ServerStatus returning.
LEMMA StatusDoneType ==
  ASSUME GoroutinesOK, NEW w \in Workers, pc[w] \in Busy,
         StatusDone(w), UNCHANGED <<todo, seen, sel>>
  PROVE  GoroutinesOK'
<1>1. CASE want[w] = "offline"
  BY <1>1, GotoType DEF StatusDone, Busy, Labels
<1>2. CASE want[w] # "offline"
  BY <1>2, EndVisitType DEF StatusDone
<1>3. QED
  BY <1>1, <1>2

\* The type invariant holds initially.
LEMMA TypeInit == Init => TypeOK
  BY BoundAssumption, ToolAssumption, RemoteAssumption
     DEF Init, TypeOK, EnvOK, TablesOK, GoroutinesOK, AtRest, NoRows, AllRemotes, Labels

\* The type invariant is inductive.
LEMMA TypeStep == TypeOK /\ [Next]_vars => TypeOK'
<1> SUFFICES ASSUME TypeOK, [Next]_vars PROVE TypeOK'
  OBVIOUS
<1> USE BoundAssumption, RemoteAssumption DEF TypeOK
<1>1. ASSUME NEW w \in Workers, Step(w) PROVE TypeOK'
  <2>1. CASE StartCycle(w)
    <3>1. EnvOK'
      BY <2>1 DEF StartCycle, EnvOK, env
    <3>2. TablesOK'
      BY <2>1 DEF StartCycle, TablesOK, dbVars, env
    <3>3. GoroutinesOK'
      BY <2>1 DEF StartCycle, GoroutinesOK, Goto, Labels
    <3> QED
      BY <3>1, <3>2, <3>3
  <2>2. CASE Visit(w)
    <3>1. EnvOK'
      BY <2>2 DEF Visit, EnvOK, env
    <3>2. TablesOK'
      BY <2>2 DEF Visit, TablesOK, dbVars, env
    <3>3. GoroutinesOK'
      BY <2>2 DEF Visit, GoroutinesOK, Goto, Labels
    <3> QED
      BY <3>1, <3>2, <3>3
  <2>3. CASE EndCycle(w)
    <3>1. EnvOK'
      BY <2>3 DEF EndCycle, EnvOK, env
    <3>2. TablesOK'
      BY <2>3 DEF EndCycle, TablesOK, dbVars, env
    <3>3. GoroutinesOK'
      BY <2>3 DEF EndCycle, GoroutinesOK, Goto, Labels
    <3> QED
      BY <3>1, <3>2, <3>3
  <2>4. CASE Dial(w)
    <3>1. EnvOK'
      BY <2>4 DEF Dial, UsesFile, EnvOK, env
    <3>2. TablesOK'
      BY <2>4 DEF Dial, TablesOK, dbVars, env
    <3>3. GoroutinesOK'
      BY <2>4, GotoType, ReturnType DEF Dial, Busy, Labels
    <3> QED
      BY <3>1, <3>2, <3>3
  <2>5. CASE Probe(w)
    <3>1. EnvOK'
      BY <2>5 DEF Probe, RemoveFile, EnvOK, env
    <3>2. TablesOK'
      BY <2>5 DEF Probe, TablesOK, dbVars, env
    <3>3. GoroutinesOK'
      BY <2>5, ReturnType DEF Probe, GoroutinesOK, Goto, Busy, Labels
    <3> QED
      BY <3>1, <3>2, <3>3
  <2>6. CASE SelectRow(w)
    <3>1. EnvOK'
      BY <2>6 DEF SelectRow, EnvOK, env
    <3>2. TablesOK'
      BY <2>6 DEF SelectRow, TablesOK, dbVars, env
    <3>3. GoroutinesOK'
      BY <2>6 DEF SelectRow, GoroutinesOK, Goto, Labels, Found
    <3> QED
      BY <3>1, <3>2, <3>3
  <2>7. CASE UpdateRow(w)
    <3>1. EnvOK'
      BY <2>7 DEF UpdateRow, EnvOK, env
    <3>2. TablesOK'
      BY <2>7 DEF UpdateRow, Reported, Exists, TablesOK, dbVars, env
    <3>3. GoroutinesOK'
      BY <2>7, GotoType DEF UpdateRow, Busy, Labels
    <3> QED
      BY <3>1, <3>2, <3>3
  <2>8. CASE InsertRow(w)
    <3>1. EnvOK'
      BY <2>8 DEF InsertRow, EnvOK, env
    <3>2. TablesOK'
      BY <2>8 DEF InsertRow, Reported, HostName, RowKeys, TablesOK, dbVars, env
    <3>3. GoroutinesOK'
      BY <2>8, GotoType DEF InsertRow, Busy, Labels
    <3> QED
      BY <3>1, <3>2, <3>3
  <2>9. CASE UpsertError(w)
    <3>1. EnvOK'
      BY <2>9 DEF UpsertError, EnvOK, env
    <3>2. TablesOK'
      BY <2>9 DEF UpsertError, TablesOK, dbVars, env
    <3>3. GoroutinesOK'
      BY <2>9, ReturnType DEF UpsertError, GoroutinesOK, Goto, Busy, Labels
    <3> QED
      BY <3>1, <3>2, <3>3
  <2>10. CASE Metric(w)
    <3>1. EnvOK'
      BY <2>10 DEF Metric, EnvOK, env
    <3>2. TablesOK'
      BY <2>10 DEF Metric, TablesOK, dbVars, env
    <3>3. GoroutinesOK'
      BY <2>10, GotoType DEF Metric, Busy, Labels
    <3> QED
      BY <3>1, <3>2, <3>3
  <2>11. CASE List(w)
    <3>1. EnvOK'
      BY <2>11 DEF List, RemoveFile, EnvOK, env
    <3>2. TablesOK'
      BY <2>11 DEF List, TablesOK, dbVars, env
    <3>3. GoroutinesOK'
      BY <2>11, ReturnType DEF List, GoroutinesOK, Busy, Labels
    <3> QED
      BY <3>1, <3>2, <3>3
  <2>12. CASE CheckStatus(w)
    <3>1. EnvOK'
      BY <2>12 DEF CheckStatus, EnvOK, env
    <3>2. TablesOK'
      BY <2>12 DEF CheckStatus, TablesOK, dbVars, env
    <3>3. GoroutinesOK'
      BY <2>12, GotoType, StatusDoneType DEF CheckStatus, Busy, Labels
    <3> QED
      BY <3>1, <3>2, <3>3
  <2>13. CASE UpdateStatus(w)
    <3>1. cur[w] \in Servers
      BY <2>13 DEF UpdateStatus, GoroutinesOK
    <3>2. /\ want[w] \in {"online", "offline"}
          /\ OfflineSince(cur[w], want[w]) \in (0..now) \cup {None}
      BY <3>1 DEF OfflineSince, EnvOK, TablesOK, GoroutinesOK
    <3>3. EnvOK'
      BY <2>13 DEF UpdateStatus, EnvOK, env
    <3>4. TablesOK'
      BY <2>13, <3>1, <3>2 DEF UpdateStatus, TablesOK, env
    <3>5. GoroutinesOK'
      BY <2>13, GotoType DEF UpdateStatus, Busy, Labels
    <3> QED
      BY <3>3, <3>4, <3>5
  <2>14. CASE LogChange(w)
    <3>1. EnvOK'
      BY <2>14 DEF LogChange, EnvOK, env
    <3>2. TablesOK'
      BY <2>14 DEF LogChange, AlertTime, EnvOK, GoroutinesOK, TablesOK, dbVars, env
    <3>3. GoroutinesOK'
      BY <2>14, GotoType, StatusDoneType DEF LogChange, Busy, Labels
    <3> QED
      BY <3>1, <3>2, <3>3
  <2>15. CASE Propagate(w)
    <3>1. EnvOK'
      BY <2>15 DEF Propagate, EnvOK, env
    <3>2. TablesOK'
      BY <2>15 DEF Propagate, MarkedDown, TablesOK, dbVars, env
    <3>3. GoroutinesOK'
      BY <2>15, StatusDoneType DEF Propagate, Busy, Labels
    <3> QED
      BY <3>1, <3>2, <3>3
  <2>16. CASE DownPoint(w)
    <3>1. EnvOK'
      BY <2>16 DEF DownPoint, EnvOK, env
    <3>2. TablesOK'
      BY <2>16 DEF DownPoint, TablesOK, dbVars, env
    <3>3. GoroutinesOK'
      BY <2>16, GotoType, EndVisitType DEF DownPoint, Busy, Labels
    <3> QED
      BY <3>1, <3>2, <3>3
  <2>17. CASE ClearNodes(w)
    <3>1. EnvOK'
      BY <2>17 DEF ClearNodes, EnvOK, env
    <3>2. TablesOK'
      BY <2>17 DEF ClearNodes, MarkedDown, TablesOK, dbVars, env
    <3>3. GoroutinesOK'
      BY <2>17, EndVisitType DEF ClearNodes
    <3> QED
      BY <3>1, <3>2, <3>3
  <2>18. QED
    BY <1>1, <2>1, <2>2, <2>3, <2>4, <2>5, <2>6, <2>7, <2>8, <2>9, <2>10, <2>11, <2>12, <2>13, <2>14, <2>15, <2>16, <2>17 DEF Step
<1>2. ASSUME NEW s \in Servers, AddServer(s) \/ DeleteServer(s) \/ RemoteChange(s) PROVE TypeOK'
  <2>1. CASE AddServer(s)
    BY <2>1 DEF AddServer, EnvOK, GoroutinesOK, TablesOK, env, dbVars, locals
  <2>2. CASE DeleteServer(s)
    BY <2>2 DEF DeleteServer, EnvOK, GoroutinesOK, TablesOK, NoRows, env, dbVars, locals
  <2>3. CASE RemoteChange(s)
    BY <2>3 DEF RemoteChange, EnvOK, GoroutinesOK, TablesOK, env, dbVars, locals
  <2>4. QED
    BY <1>2, <2>1, <2>2, <2>3
<1>3. CASE Tick
  BY <1>3 DEF Tick, EnvOK, TablesOK, GoroutinesOK, dbVars, locals
<1>4. CASE Restart
  BY <1>4 DEF Restart, AtRest, EnvOK, TablesOK, GoroutinesOK, dbVars, Labels
<1>5. CASE UNCHANGED vars
  BY <1>5 DEF vars, EnvOK, TablesOK, GoroutinesOK, env, dbVars, locals
<1>6. QED
  BY <1>1, <1>2, <1>3, <1>4, <1>5 DEF Next

\* Every variable keeps its type; offline_since is never ahead of the clock.
THEOREM TypeCorrect == Spec => []TypeOK
  BY TypeInit, TypeStep, PTL DEF Spec

(***************************************************************************)
(* Server statuses and the start of an outage.                             *)
(***************************************************************************)

\* Only the administrator and the UPDATE of Set*ServerStatus write a status.
LEMMA StatusFrame ==
  ASSUME [Next]_vars
  PROVE  \/ UNCHANGED <<status, since, now>>
         \/ \E w \in Workers : UpdateStatus(w)
         \/ \E s \in Servers : AddServer(s) \/ DeleteServer(s)
         \/ Tick
<1>1. ASSUME NEW w \in Workers, Step(w), ~UpdateStatus(w)
      PROVE  UNCHANGED <<status, since, now>>
  BY <1>1 DEF Step, StartCycle, Visit, EndCycle, Dial, Probe, SelectRow, UpdateRow, InsertRow,
     UpsertError, Metric, List, CheckStatus, LogChange, Propagate, DownPoint, ClearNodes,
     env, dbVars
<1>2. ASSUME NEW s \in Servers, RemoteChange(s) PROVE UNCHANGED <<status, since, now>>
  BY <1>2 DEF RemoteChange, dbVars
<1>3. CASE Restart
  BY <1>3 DEF Restart, dbVars
<1>4. CASE UNCHANGED vars
  BY <1>4 DEF vars, dbVars, env
<1>5. QED
  BY <1>1, <1>2, <1>3, <1>4 DEF Next

\* What an UPDATE of the status does to a row that still exists, and that it
\* does nothing to one that does not.
LEMMA UpdateEffect ==
  ASSUME TypeOK, OfflineSinceMatches, NEW w \in Workers, UpdateStatus(w)
  PROVE  /\ now' = now /\ cur[w] \in Servers
         /\ ~Registered(cur[w]) => UNCHANGED <<status, since>>
         /\ Registered(cur[w]) =>
              /\ status' = [status EXCEPT ![cur[w]] = want[w]]
              /\ \/ /\ want[w] = "online"
                    /\ since' = [since EXCEPT ![cur[w]] = None]
                 \/ /\ want[w] = "offline" /\ status[cur[w]] # "offline"
                    /\ since[cur[w]] = None
                    /\ since' = [since EXCEPT ![cur[w]] = now]
                 \/ /\ want[w] = "offline" /\ status[cur[w]] = "offline"
                    /\ status' = status /\ since' = since
<1>1. cur[w] \in Servers /\ want[w] \in {"online", "offline"}
  BY DEF UpdateStatus, TypeOK, GoroutinesOK
<1>2. (status[cur[w]] = "offline") <=> (since[cur[w]] # None)
  BY <1>1 DEF OfflineSinceMatches
<1>3. now' = now
  BY DEF UpdateStatus, env
<1>4. ASSUME ~Registered(cur[w]) PROVE UNCHANGED <<status, since>>
  BY <1>4 DEF UpdateStatus
<1>5. ASSUME Registered(cur[w])
      PROVE  /\ status' = [status EXCEPT ![cur[w]] = want[w]]
             /\ since' = [since EXCEPT ![cur[w]] = OfflineSince(cur[w], want[w])]
  BY <1>5 DEF UpdateStatus
<1>6. CASE want[w] = "online"
  BY <1>1, <1>3, <1>4, <1>5, <1>6 DEF OfflineSince
<1>7. CASE want[w] = "offline" /\ status[cur[w]] # "offline"
  BY <1>1, <1>2, <1>3, <1>4, <1>5, <1>7 DEF OfflineSince
<1>8. CASE want[w] = "offline" /\ status[cur[w]] = "offline"
  BY <1>1, <1>2, <1>3, <1>4, <1>5, <1>8 DEF OfflineSince, TypeOK, TablesOK
<1>9. QED
  BY <1>1, <1>6, <1>7, <1>8

\* offline_since matches the status after every step.
LEMMA SinceStep ==
  TypeOK /\ OfflineSinceMatches /\ [Next]_vars => OfflineSinceMatches'
<1> SUFFICES ASSUME TypeOK, OfflineSinceMatches, [Next]_vars PROVE OfflineSinceMatches'
  OBVIOUS
<1>1. CASE UNCHANGED <<status, since, now>>
  BY <1>1 DEF OfflineSinceMatches
<1>2. ASSUME NEW w \in Workers, UpdateStatus(w) PROVE OfflineSinceMatches'
  <2>1. CASE ~Registered(cur[w])
    BY <1>2, <2>1, UpdateEffect DEF OfflineSinceMatches
  <2>2. CASE Registered(cur[w])
    BY <1>2, <2>2, UpdateEffect, BoundAssumption
       DEF OfflineSinceMatches, TypeOK, TablesOK, EnvOK
  <2>3. QED
    BY <2>1, <2>2
<1>3. ASSUME NEW s \in Servers, AddServer(s) \/ DeleteServer(s) PROVE OfflineSinceMatches'
  BY <1>3 DEF AddServer, DeleteServer, OfflineSinceMatches, TypeOK, TablesOK
<1>4. CASE Tick
  BY <1>4 DEF Tick, dbVars, OfflineSinceMatches
<1>5. QED
  BY <1>1, <1>2, <1>3, <1>4, StatusFrame

\* offline_since is set exactly while a server is offline.
THEOREM OutageStartCorrect == Spec => []OfflineSinceMatches
<1>1. Init => OfflineSinceMatches
  BY DEF Init, OfflineSinceMatches
<1>2. QED
  BY <1>1, SinceStep, TypeCorrect, PTL DEF Spec

\* As long as a server stays offline, every step keeps the start of its outage.
THEOREM OutageStartKept == Spec => OfflineSinceKept
<1>1. ASSUME TypeOK, OfflineSinceMatches, [Next]_vars, NEW s \in Servers,
             status[s] = "offline", status'[s] = "offline"
      PROVE  since'[s] = since[s]
  <2>1. ASSUME NEW w \in Workers, UpdateStatus(w) PROVE since'[s] = since[s]
    BY <1>1, <2>1, UpdateEffect DEF TypeOK, TablesOK
  <2>2. ASSUME NEW t \in Servers, AddServer(t) \/ DeleteServer(t) PROVE since'[s] = since[s]
    BY <1>1, <2>2 DEF AddServer, DeleteServer, TypeOK, TablesOK
  <2>3. QED
    BY <1>1, <2>1, <2>2, StatusFrame DEF Tick, dbVars
<1>2. TypeOK /\ OfflineSinceMatches /\ [Next]_vars
      => [\A s \in Servers : status[s] = "offline" /\ status'[s] = "offline"
                             => since'[s] = since[s]]_vars
  BY <1>1
<1>3. QED
  BY <1>2, TypeCorrect, OutageStartCorrect, PTL DEF Spec, OfflineSinceKept

\* The detailed collector implements the abstract StatusBoard: every step of a
\* goroutine, an administrator, the clock or a restart changes statuses and
\* outage starts the way the board allows, or not at all.
THEOREM BoardImplemented == Spec => ImplementsBoard
<1>1. Init => Board!Init
  BY DEF Init, Board!Init
<1>2. ASSUME TypeOK, OfflineSinceMatches, [Next]_vars
      PROVE  [Board!Next]_<<status, since, now>>
  <2>1. ASSUME NEW w \in Workers, UpdateStatus(w)
        PROVE  [Board!Next]_<<status, since, now>>
    BY <1>2, <2>1, UpdateEffect
       DEF Board!Next, Board!GoOnline, Board!GoOffline, Board!Set, Board!Known, Registered
  <2>2. ASSUME NEW s \in Servers, AddServer(s) PROVE Board!Next
    <3>1. since[s] = None
      BY <1>2, <2>2 DEF AddServer, OfflineSinceMatches
    <3>2. since = [since EXCEPT ![s] = None]
      BY <1>2, <3>1 DEF TypeOK, TablesOK
    <3>3. QED
      BY <2>2, <3>2 DEF AddServer, env, Board!Next, Board!Register, Board!Set
  <2>3. ASSUME NEW s \in Servers, DeleteServer(s) PROVE Board!Next
    BY <2>3 DEF DeleteServer, Registered, env, Board!Next, Board!Remove, Board!Set, Board!Known
  <2>4. CASE Tick
    BY <2>4 DEF Tick, dbVars, Board!Next, Board!Advance
  <2>5. QED
    BY <1>2, <2>1, <2>2, <2>3, <2>4, StatusFrame
<1>3. QED
  BY <1>1, <1>2, TypeCorrect, OutageStartCorrect, PTL
     DEF Spec, ImplementsBoard, Board!Spec, Board!board

(***************************************************************************)
(* Alerts: every outage is alerted, and a machine that answers never is.   *)
(***************************************************************************)

\* OutageAlerted is not inductive: a goroutine that logs a recovery may finish
\* while the outage another one reported meanwhile is still unlogged.  Of those
\* about to log, one that logs an outage counts.
AlertPending ==
  restarts = 0 =>
    \A s \in Servers :
      status[s] = "offline"
      => \/ \E w \in Workers : cur[w] = s /\ pc[w] = "log" /\ want[w] = "offline"
         \/ alerted[s] # None /\ alerted[s] >= since[s]

\* A step that changes no status, alert or goroutine in LogEvent keeps it.
LEMMA AlertFrame ==
  ASSUME AlertPending, NEW w \in Workers, pc \in [Workers -> Labels], pc[w] # "log",
         UNCHANGED <<restarts, status, since, alerted>>,
         \A v \in Workers \ {w} : cur'[v] = cur[v] /\ want'[v] = want[v] /\ pc'[v] = pc[v]
  PROVE  AlertPending'
  BY DEF AlertPending

\* An alert is pending or was sent after every step of an outage.
LEMMA AlertStep ==
  TypeOK /\ OfflineSinceMatches /\ AlertPending /\ [Next]_vars => AlertPending'
<1> SUFFICES ASSUME TypeOK, OfflineSinceMatches, AlertPending, [Next]_vars
             PROVE  AlertPending'
  OBVIOUS
<1>1. ASSUME NEW w \in Workers, Step(w), ~UpdateStatus(w), ~LogChange(w) PROVE AlertPending'
  <2> DEFINE Frame == /\ pc[w] # "log" /\ UNCHANGED <<restarts, status, since, alerted>>
                      /\ \A v \in Workers \ {w} :
                           cur'[v] = cur[v] /\ want'[v] = want[v] /\ pc'[v] = pc[v]
  <2> USE DEF TypeOK, GoroutinesOK, env, dbVars, Goto, Return, EndVisit, StatusDone
  <2>1. CASE StartCycle(w)
    <3> Frame
      BY <2>1 DEF StartCycle
    <3> QED
      BY AlertFrame
  <2>2. CASE Visit(w)
    <3> Frame
      BY <2>2 DEF Visit
    <3> QED
      BY AlertFrame
  <2>3. CASE EndCycle(w)
    <3> Frame
      BY <2>3 DEF EndCycle
    <3> QED
      BY AlertFrame
  <2>4. CASE Dial(w)
    <3> Frame
      BY <2>4 DEF Dial
    <3> QED
      BY AlertFrame
  <2>5. CASE Probe(w)
    <3> Frame
      BY <2>5 DEF Probe
    <3> QED
      BY AlertFrame
  <2>6. CASE SelectRow(w)
    <3> Frame
      BY <2>6 DEF SelectRow
    <3> QED
      BY AlertFrame
  <2>7. CASE UpdateRow(w)
    <3> Frame
      BY <2>7 DEF UpdateRow
    <3> QED
      BY AlertFrame
  <2>8. CASE InsertRow(w)
    <3> Frame
      BY <2>8 DEF InsertRow
    <3> QED
      BY AlertFrame
  <2>9. CASE UpsertError(w)
    <3> Frame
      BY <2>9 DEF UpsertError
    <3> QED
      BY AlertFrame
  <2>10. CASE Metric(w)
    <3> Frame
      BY <2>10 DEF Metric
    <3> QED
      BY AlertFrame
  <2>11. CASE List(w)
    <3> Frame
      BY <2>11 DEF List
    <3> QED
      BY AlertFrame
  <2>12. CASE CheckStatus(w)
    <3> Frame
      BY <2>12 DEF CheckStatus
    <3> QED
      BY AlertFrame
  <2>13. CASE Propagate(w)
    <3> Frame
      BY <2>13 DEF Propagate
    <3> QED
      BY AlertFrame
  <2>14. CASE DownPoint(w)
    <3> Frame
      BY <2>14 DEF DownPoint
    <3> QED
      BY AlertFrame
  <2>15. CASE ClearNodes(w)
    <3> Frame
      BY <2>15 DEF ClearNodes
    <3> QED
      BY AlertFrame
  <2>16. QED
    BY <1>1, <2>1, <2>2, <2>3, <2>4, <2>5, <2>6, <2>7, <2>8, <2>9, <2>10, <2>11, <2>12, <2>13, <2>14, <2>15 DEF Step
<1>2. ASSUME NEW w \in Workers, UpdateStatus(w) PROVE AlertPending'
  <2>1. /\ \A v \in Workers : cur'[v] = cur[v] /\ want'[v] = want[v]
        /\ \A v \in Workers \ {w} : pc'[v] = pc[v]
        /\ pc'[w] = "log" /\ pc[w] = "update"
        /\ restarts' = restarts /\ alerted' = alerted
    BY <1>2 DEF UpdateStatus, Goto, env, TypeOK, GoroutinesOK
  <2>2. CASE ~Registered(cur[w])
    BY <1>2, <2>1, <2>2, UpdateEffect DEF AlertPending
  <2>3. CASE Registered(cur[w])
    <3> SUFFICES ASSUME restarts = 0, NEW s \in Servers, status'[s] = "offline"
                 PROVE  \/ \E v \in Workers : cur'[v] = s /\ pc'[v] = "log" /\ want'[v] = "offline"
                        \/ alerted'[s] # None /\ alerted'[s] >= since'[s]
      BY <2>1 DEF AlertPending
    <3>1. CASE cur[w] = s
      <4>1. want[w] = "offline"
        BY <1>2, <2>3, <3>1, UpdateEffect DEF TypeOK, TablesOK
      <4>2. QED
        BY <2>1, <3>1, <4>1
    <3>2. CASE cur[w] # s
      <4>1. status[s] = "offline" /\ since'[s] = since[s]
        BY <1>2, <2>3, <3>2, UpdateEffect DEF TypeOK, TablesOK
      <4>2. QED
        BY <2>1, <4>1 DEF AlertPending
    <3>3. QED
      BY <3>1, <3>2
  <2>4. QED
    BY <2>2, <2>3
<1>3. ASSUME NEW w \in Workers, LogChange(w) PROVE AlertPending'
  <2>1. /\ UNCHANGED <<restarts, status, since>> /\ cur[w] \in Servers
        /\ alerted' = [alerted EXCEPT ![cur[w]] = AlertTime(cur[w], want[w])]
    BY <1>3 DEF LogChange, env, TypeOK, GoroutinesOK
  <2>2. \A v \in Workers \ {w} : cur'[v] = cur[v] /\ want'[v] = want[v] /\ pc'[v] = pc[v]
    BY <1>3 DEF LogChange, StatusDone, EndVisit, Goto, TypeOK, GoroutinesOK
  <2> SUFFICES ASSUME restarts = 0, NEW s \in Servers, status[s] = "offline"
               PROVE  \/ \E v \in Workers : cur'[v] = s /\ pc'[v] = "log" /\ want'[v] = "offline"
                      \/ alerted'[s] # None /\ alerted'[s] >= since[s]
    BY <2>1 DEF AlertPending
  <2>3. since[s] \in 0..now /\ now \in Nat /\ now # None
    BY BoundAssumption DEF OfflineSinceMatches, TypeOK, TablesOK, EnvOK
  <2>4. CASE cur[w] = s /\ want[w] = "offline"
    BY <2>1, <2>3, <2>4 DEF AlertTime, TypeOK, TablesOK
  <2>5. CASE ~(cur[w] = s /\ want[w] = "offline")
    <3>1. alerted'[s] = alerted[s]
      BY <2>1, <2>5 DEF AlertTime, TypeOK, TablesOK
    <3>2. QED
      BY <2>2, <2>5, <3>1 DEF AlertPending
  <2>6. QED
    BY <2>4, <2>5
<1>4. ASSUME NEW s \in Servers, AddServer(s) \/ DeleteServer(s) \/ RemoteChange(s)
      PROVE  AlertPending'
  BY <1>4 DEF AddServer, DeleteServer, RemoteChange, AlertPending, env, dbVars, locals,
     TypeOK, TablesOK
<1>5. CASE Tick \/ UNCHANGED vars
  BY <1>5 DEF Tick, vars, env, dbVars, locals, AlertPending
<1>6. CASE Restart
  BY <1>6 DEF Restart, AlertPending, TypeOK, EnvOK
<1>7. QED
  BY <1>1, <1>2, <1>3, <1>4, <1>5, <1>6 DEF Next

\* An offline server nobody is about to log has been alerted about since its
\* outage began, as long as the process has not been restarted.
THEOREM OutagesAlerted == Spec => []OutageAlerted
<1>1. Init => AlertPending
  BY DEF Init, AlertPending
<1>2. AlertPending => OutageAlerted
  BY DEF AlertPending, OutageAlerted
<1>3. QED
  BY <1>1, <1>2, AlertStep, TypeCorrect, OutageStartCorrect, PTL DEF Spec

(***************************************************************************)
(* Host rows.                                                              *)
(***************************************************************************)

\* What a step may do to the host rows: nothing, write one of a registered
\* server, mark those of one server, or delete those of one server with it.
LEMMA RowsFrame ==
  ASSUME TypeOK, [Next]_vars
  PROVE  \/ rows' = rows
         \/ \E w \in Workers : InsertRow(w)
         \/ \E w \in Workers : UpdateRow(w) /\ Exists(cur[w], sel[w])
         \/ \E s \in Servers : rows' = [rows EXCEPT ![s] = MarkedDown(@)]
         \/ \E s \in Servers : DeleteServer(s)
<1>1. ASSUME NEW w \in Workers, Propagate(w) \/ ClearNodes(w)
      PROVE  \E s \in Servers : rows' = [rows EXCEPT ![s] = MarkedDown(@)]
  BY <1>1 DEF Propagate, ClearNodes, TypeOK, GoroutinesOK
<1>2. ASSUME NEW w \in Workers, UpdateRow(w), ~Exists(cur[w], sel[w]) PROVE rows' = rows
  BY <1>2 DEF UpdateRow
<1>3. ASSUME NEW w \in Workers, Step(w),
             ~InsertRow(w), ~UpdateRow(w), ~Propagate(w), ~ClearNodes(w)
      PROVE  rows' = rows
  BY <1>3 DEF Step, StartCycle, Visit, EndCycle, Dial, Probe, SelectRow, UpsertError, Metric,
     List, CheckStatus, UpdateStatus, LogChange, DownPoint, dbVars
<1>4. ASSUME NEW s \in Servers, AddServer(s) \/ RemoteChange(s) PROVE rows' = rows
  BY <1>4 DEF AddServer, RemoteChange, dbVars
<1>5. CASE Tick \/ Restart \/ UNCHANGED vars
  BY <1>5 DEF Tick, Restart, vars, dbVars
<1>6. QED
  BY <1>1, <1>2, <1>3, <1>4, <1>5 DEF Next

\* A step deletes no registration without the rows.
LEMMA RegisteredFrame ==
  ASSUME TypeOK, [Next]_vars, NEW s \in Servers, Registered(s), ~DeleteServer(s)
  PROVE  Registered(s)'
<1>1. ASSUME NEW w \in Workers, UpdateStatus(w) PROVE Registered(s)'
  BY <1>1 DEF UpdateStatus, Registered, TypeOK, TablesOK, GoroutinesOK
<1>2. ASSUME NEW t \in Servers, AddServer(t) \/ DeleteServer(t) PROVE Registered(s)'
  BY <1>2 DEF AddServer, DeleteServer, Registered, TypeOK, TablesOK
<1>3. QED
  BY <1>1, <1>2, StatusFrame DEF Registered, Tick, dbVars

\* No step leaves a host row behind or adds one without its server.
LEMMA OrphanStep == TypeOK /\ NoOrphanRows /\ [Next]_vars => NoOrphanRows'
<1> SUFFICES ASSUME TypeOK, NoOrphanRows, [Next]_vars, NEW s \in Servers, ~Registered(s)'
             PROVE  rows'[s] = NoRows
  BY DEF NoOrphanRows, NoRows
<1>1. CASE DeleteServer(s)
  BY <1>1 DEF DeleteServer, TypeOK, TablesOK
<1>2. CASE ~DeleteServer(s)
  <2>1. ~Registered(s) /\ rows[s] = NoRows
    BY <1>2, RegisteredFrame DEF NoOrphanRows
  <2>2. ASSUME NEW w \in Workers, InsertRow(w) PROVE rows'[s] = rows[s]
    BY <2>1, <2>2 DEF InsertRow, InsertFails, TypeOK, TablesOK
  <2>3. ASSUME NEW w \in Workers, UpdateRow(w), Exists(cur[w], sel[w]) PROVE rows'[s] = rows[s]
    <3>1. cur[w] \in Servers /\ sel[w] \in RowKeys
      BY <2>3 DEF UpdateRow, TypeOK, GoroutinesOK
    <3>2. cur[w] # s
      BY <2>1, <2>3, <3>1 DEF Exists, NoRows
    <3>3. QED
      BY <2>3, <3>2 DEF UpdateRow, TypeOK, TablesOK
  <2>4. MarkedDown(NoRows) = NoRows
    BY DEF MarkedDown, NoRows
  <2>5. ASSUME NEW t \in Servers, rows' = [rows EXCEPT ![t] = MarkedDown(@)]
        PROVE  rows'[s] = NoRows
    BY <2>1, <2>4, <2>5 DEF TypeOK, TablesOK
  <2>6. ASSUME NEW t \in Servers, DeleteServer(t) PROVE rows'[s] = NoRows
    BY <2>1, <2>6 DEF DeleteServer, TypeOK, TablesOK
  <2>7. QED
    BY <2>1, <2>2, <2>3, <2>5, <2>6, RowsFrame
<1>3. QED
  BY <1>1, <1>2

\* No host row exists without its server, although an upsert is two statements.
THEOREM NoRowOrphaned == Spec => []NoOrphanRows
<1>1. Init => NoOrphanRows
  BY DEF Init, NoOrphanRows
<1>2. QED
  BY <1>1, OrphanStep, TypeCorrect, PTL DEF Spec

\* The only step that fills the slot of a goroutine is its own INSERT.
LEMMA SlotFrame ==
  ASSUME TypeOK, [Next]_vars, NEW w \in Workers, NEW s \in Servers, NEW h \in {"host", "blank"},
         ~Exists(s, <<w, h>>), ~InsertRow(w)
  PROVE  ~Exists(s, <<w, h>>)'
<1> DEFINE k == <<w, h>>
<1>1. k \in RowKeys /\ rows[s][k] = "none" /\ rows[s] \in [RowKeys -> {"none", "up", "down"}]
  BY DEF RowKeys, Exists, TypeOK, TablesOK
<1>2. CASE rows' = rows
  BY <1>1, <1>2 DEF Exists
<1>3. ASSUME NEW v \in Workers, InsertRow(v) PROVE ~Exists(s, k)'
  <2>1. v # w
    BY <1>3
  <2>2. QED
    BY <1>1, <1>3, <2>1 DEF InsertRow, Exists, TypeOK, TablesOK
<1>4. ASSUME NEW v \in Workers, UpdateRow(v), Exists(cur[v], sel[v]) PROVE ~Exists(s, k)'
  <2>1. cur[v] \in Servers
    BY <1>4 DEF UpdateRow, TypeOK, GoroutinesOK
  <2>2. ~(cur[v] = s /\ sel[v] = k)
    BY <1>1, <1>4 DEF Exists
  <2>3. QED
    BY <1>1, <1>4, <2>1, <2>2 DEF UpdateRow, Exists, TypeOK, TablesOK
<1>5. ASSUME NEW t \in Servers, rows' = [rows EXCEPT ![t] = MarkedDown(@)]
      PROVE  ~Exists(s, k)'
  BY <1>1, <1>5 DEF MarkedDown, Exists, TypeOK, TablesOK
<1>6. ASSUME NEW t \in Servers, DeleteServer(t) PROVE ~Exists(s, k)'
  BY <1>1, <1>6 DEF DeleteServer, NoRows, Exists, TypeOK, TablesOK
<1>7. QED
  BY <1>2, <1>3, <1>4, <1>5, <1>6, RowsFrame

\* What a step of another goroutine or of the environment leaves to w.
LEMMA OthersKeepLocals ==
  ASSUME TypeOK, [Next]_vars, NEW w \in Workers, ~Step(w), ~Restart
  PROVE  /\ pc'[w] = pc[w] /\ cur'[w] = cur[w] /\ sel'[w] = sel[w]
         /\ seen'[w] = seen[w] /\ want'[w] = want[w] /\ tool' = tool
<1>1. ASSUME NEW v \in Workers, Step(v)
      PROVE  /\ pc'[w] = pc[w] /\ cur'[w] = cur[w] /\ sel'[w] = sel[w]
             /\ seen'[w] = seen[w] /\ want'[w] = want[w] /\ tool' = tool
  <2>1. v # w
    BY <1>1
  <2> USE <2>1 DEF TypeOK, GoroutinesOK, env, Goto, Return, EndVisit, StatusDone
  <2>2. CASE StartCycle(v)
    BY <2>2 DEF StartCycle
  <2>3. CASE Visit(v)
    BY <2>3 DEF Visit
  <2>4. CASE EndCycle(v)
    BY <2>4 DEF EndCycle
  <2>5. CASE Dial(v)
    BY <2>5 DEF Dial
  <2>6. CASE Probe(v)
    BY <2>6 DEF Probe
  <2>7. CASE SelectRow(v)
    BY <2>7 DEF SelectRow
  <2>8. CASE UpdateRow(v)
    BY <2>8 DEF UpdateRow
  <2>9. CASE InsertRow(v)
    BY <2>9 DEF InsertRow
  <2>10. CASE UpsertError(v)
    BY <2>10 DEF UpsertError
  <2>11. CASE Metric(v)
    BY <2>11 DEF Metric
  <2>12. CASE List(v)
    BY <2>12 DEF List
  <2>13. CASE CheckStatus(v)
    BY <2>13 DEF CheckStatus
  <2>14. CASE UpdateStatus(v)
    BY <2>14 DEF UpdateStatus
  <2>15. CASE LogChange(v)
    BY <2>15 DEF LogChange
  <2>16. CASE Propagate(v)
    BY <2>16 DEF Propagate
  <2>17. CASE DownPoint(v)
    BY <2>17 DEF DownPoint
  <2>18. CASE ClearNodes(v)
    BY <2>18 DEF ClearNodes
  <2>19. QED
    BY <1>1, <2>2, <2>3, <2>4, <2>5, <2>6, <2>7, <2>8, <2>9, <2>10, <2>11, <2>12, <2>13, <2>14, <2>15, <2>16, <2>17, <2>18 DEF Step
<1>2. ASSUME NEW s \in Servers, AddServer(s) \/ DeleteServer(s) \/ RemoteChange(s)
      PROVE  UNCHANGED <<tool, locals>>
  BY <1>2 DEF AddServer, DeleteServer, RemoteChange, env
<1>3. CASE Tick \/ UNCHANGED vars
  BY <1>3 DEF Tick, vars, env, locals
<1>4. QED
  BY <1>1, <1>2, <1>3 DEF Next, locals

\* A goroutine that found no row inserts none beside one of its own.
LEMMA SecondInsertStep == TypeOK /\ NoSecondInsert /\ [Next]_vars => NoSecondInsert'
<1> SUFFICES ASSUME TypeOK, NoSecondInsert, [Next]_vars, NEW w \in Workers,
                    pc'[w] = "write", sel'[w] = None
             PROVE  ~Exists(cur[w], <<w, HostName(w)>>)'
  BY DEF NoSecondInsert
<1>1. CASE SelectRow(w)
  <2> DEFINE k == <<w, HostName(w)>>
  <2>1. Found(cur[w], HostName(w)) = {}
    <3> SUFFICES ASSUME Found(cur[w], HostName(w)) # {} PROVE FALSE
      OBVIOUS
    <3>1. PICK r \in Found(cur[w], HostName(w)) : sel' = [sel EXCEPT ![w] = r]
      BY <1>1 DEF SelectRow
    <3>2. r \in RowKeys /\ sel'[w] = r
      BY <3>1 DEF Found, TypeOK, GoroutinesOK
    <3>3. QED
      BY <3>2, RowAssumption
  <2>2. k \in RowKeys /\ k[2] = HostName(w)
    BY DEF RowKeys, HostName
  <2>3. ~Exists(cur[w], k)
    BY <2>1, <2>2 DEF Found
  <2>4. cur' = cur /\ seen' = seen /\ rows' = rows /\ tool' = tool
    BY <1>1 DEF SelectRow, dbVars, env
  <2>5. QED
    BY <2>3, <2>4 DEF Exists, HostName, KeyedByHostname
<1>2. CASE Step(w) /\ ~SelectRow(w)
  <2> USE <1>2 DEF TypeOK, GoroutinesOK, Labels, Goto, Return, EndVisit, StatusDone
  <2> SUFFICES pc'[w] # "write"
    OBVIOUS
  <2>1. CASE StartCycle(w)
    BY <2>1 DEF StartCycle
  <2>2. CASE Visit(w)
    BY <2>2 DEF Visit
  <2>3. CASE EndCycle(w)
    BY <2>3 DEF EndCycle
  <2>4. CASE Dial(w)
    BY <2>4 DEF Dial
  <2>5. CASE Probe(w)
    BY <2>5 DEF Probe
  <2>6. CASE UpdateRow(w)
    BY <2>6 DEF UpdateRow
  <2>7. CASE InsertRow(w)
    BY <2>7 DEF InsertRow
  <2>8. CASE UpsertError(w)
    BY <2>8 DEF UpsertError
  <2>9. CASE Metric(w)
    BY <2>9 DEF Metric
  <2>10. CASE List(w)
    BY <2>10 DEF List
  <2>11. CASE CheckStatus(w)
    BY <2>11 DEF CheckStatus
  <2>12. CASE UpdateStatus(w)
    BY <2>12 DEF UpdateStatus
  <2>13. CASE LogChange(w)
    BY <2>13 DEF LogChange
  <2>14. CASE Propagate(w)
    BY <2>14 DEF Propagate
  <2>15. CASE DownPoint(w)
    BY <2>15 DEF DownPoint
  <2>16. CASE ClearNodes(w)
    BY <2>16 DEF ClearNodes
  <2>17. QED
    BY <2>1, <2>2, <2>3, <2>4, <2>5, <2>6, <2>7, <2>8, <2>9, <2>10, <2>11, <2>12, <2>13, <2>14, <2>15, <2>16 DEF Step
<1>3. CASE ~Step(w) /\ ~Restart
  <2>1. /\ pc[w] = "write" /\ sel[w] = None /\ cur'[w] = cur[w]
        /\ seen'[w] = seen[w] /\ tool' = tool
    BY <1>3, OthersKeepLocals
  <2>2. cur[w] \in Servers
    BY <2>1 DEF TypeOK, GoroutinesOK
  <2>3. HostName(w) \in {"host", "blank"} /\ HostName(w)' = HostName(w)
    BY <2>1 DEF HostName, KeyedByHostname
  <2>4. ~InsertRow(w)
    BY <1>3 DEF Step
  <2>5. ~Exists(cur[w], <<w, HostName(w)>>)
    BY <2>1 DEF NoSecondInsert
  <2>6. rows'[cur[w]][<<w, HostName(w)>>] = "none"
    BY <2>2, <2>3, <2>4, <2>5, SlotFrame DEF Exists
  <2>7. QED
    BY <2>1, <2>3, <2>6 DEF Exists
<1>4. CASE Restart
  BY <1>4 DEF Restart, AtRest, Started
<1>5. QED
  BY <1>1, <1>2, <1>3, <1>4

\* A goroutine has at most one host row per server and hostname.
THEOREM NoRowTwice == Spec => []NoSecondInsert
<1>1. Init => NoSecondInsert
  BY DEF Init, AtRest, NoSecondInsert
<1>2. QED
  BY <1>1, SecondInsertStep, TypeCorrect, PTL DEF Spec

(***************************************************************************)
(* False alarms.  NoFalseAlarm needs to know of every visit to a machine   *)
(* that always answers that it can only fail because the server has been   *)
(* deleted since the snapshot, and that only KVM then goes on to report it.*)
(***************************************************************************)

Spared(s) == remote[s] = "solid" /\ tool \notin {"nas", "ceph", "kubefile"}

\* No goroutine has ever heard of a server that is not registered yet.
Heard == \A w \in Workers : \A s \in Servers :
           s \in todo[w] \/ cur[w] = s => status[s] # "absent"

Innocent(w) == /\ cur[w] = None => want[w] = "online"
               /\ \A s \in Servers :
                    cur[w] = s /\ Spared(s) /\ want[w] = "offline"
                    => /\ status[s] = "deleted"
                       /\ pc[w] \in {"update", "log", "propagate"} => tool = "kvm"

AlarmInv == Heard /\ (\A w \in Workers : Innocent(w)) /\ NoFalseAlarm

\* A server is registered once, and deleted for good.
LEMMA LifeFrame ==
  ASSUME TypeOK, [Next]_vars, NEW s \in Servers
  PROVE  /\ status[s] # "absent" => status'[s] # "absent"
         /\ status[s] = "deleted" => status'[s] = "deleted"
<1>1. ASSUME NEW w \in Workers, UpdateStatus(w)
      PROVE  /\ status[s] # "absent" => status'[s] # "absent"
             /\ status[s] = "deleted" => status'[s] = "deleted"
  BY <1>1 DEF UpdateStatus, Registered, TypeOK, TablesOK, GoroutinesOK
<1>2. ASSUME NEW t \in Servers, AddServer(t) \/ DeleteServer(t)
      PROVE  /\ status[s] # "absent" => status'[s] # "absent"
             /\ status[s] = "deleted" => status'[s] = "deleted"
  BY <1>2 DEF AddServer, DeleteServer, Registered, TypeOK, TablesOK
<1>3. QED
  BY <1>1, <1>2, StatusFrame DEF Tick, dbVars

\* A machine that always answers keeps answering, and a collector its kind.
LEMMA SparedFrame ==
  ASSUME TypeOK, [Next]_vars, NEW s \in Servers
  PROVE  (Spared(s)' => Spared(s)) /\ tool' = tool
<1>1. ASSUME NEW w \in Workers, Step(w) PROVE UNCHANGED <<tool, remote>>
  BY <1>1 DEF Step, StartCycle, Visit, EndCycle, Dial, Probe, SelectRow, UpdateRow, InsertRow,
     UpsertError, Metric, List, CheckStatus, UpdateStatus, LogChange, Propagate, DownPoint,
     ClearNodes, env
<1>2. ASSUME NEW t \in Servers, RemoteChange(t) PROVE (Spared(s)' => Spared(s)) /\ tool' = tool
  BY <1>2, RemoteAssumption DEF RemoteChange, Spared, TypeOK, EnvOK
<1>3. CASE Tick \/ Restart \/ UNCHANGED vars \/ \E t \in Servers : AddServer(t) \/ DeleteServer(t)
  BY <1>3 DEF Tick, Restart, vars, AddServer, DeleteServer, env, Spared
<1>4. QED
  BY <1>1, <1>2, <1>3 DEF Next, Spared

\* What a goroutine visits or is about to visit has been registered.
LEMMA HeardStep == TypeOK /\ Heard /\ [Next]_vars => Heard'
<1> SUFFICES ASSUME TypeOK, Heard, [Next]_vars, NEW w \in Workers, NEW s \in Servers,
                    s \in todo'[w] \/ cur'[w] = s
             PROVE  s \in todo[w] \/ cur[w] = s \/ status[s] # "absent"
  BY LifeFrame DEF Heard
<1>1. ASSUME NEW v \in Workers, Step(v)
      PROVE  s \in todo[w] \/ cur[w] = s \/ status[s] # "absent"
  <2> USE BoundAssumption DEF TypeOK, GoroutinesOK, EndVisit, StatusDone, Registered
  <2>1. CASE StartCycle(v)
    BY <2>1 DEF StartCycle
  <2>2. CASE Visit(v)
    BY <2>2 DEF Visit
  <2>3. CASE EndCycle(v)
    BY <2>3 DEF EndCycle
  <2>4. CASE Dial(v)
    BY <2>4 DEF Dial
  <2>5. CASE Probe(v)
    BY <2>5 DEF Probe
  <2>6. CASE SelectRow(v)
    BY <2>6 DEF SelectRow
  <2>7. CASE UpdateRow(v)
    BY <2>7 DEF UpdateRow
  <2>8. CASE InsertRow(v)
    BY <2>8 DEF InsertRow
  <2>9. CASE UpsertError(v)
    BY <2>9 DEF UpsertError
  <2>10. CASE Metric(v)
    BY <2>10 DEF Metric
  <2>11. CASE List(v)
    BY <2>11 DEF List
  <2>12. CASE CheckStatus(v)
    BY <2>12 DEF CheckStatus
  <2>13. CASE UpdateStatus(v)
    BY <2>13 DEF UpdateStatus
  <2>14. CASE LogChange(v)
    BY <2>14 DEF LogChange
  <2>15. CASE Propagate(v)
    BY <2>15 DEF Propagate
  <2>16. CASE DownPoint(v)
    BY <2>16 DEF DownPoint
  <2>17. CASE ClearNodes(v)
    BY <2>17 DEF ClearNodes
  <2>18. QED
    BY <1>1, <2>1, <2>2, <2>3, <2>4, <2>5, <2>6, <2>7, <2>8, <2>9, <2>10, <2>11, <2>12, <2>13, <2>14, <2>15, <2>16, <2>17 DEF Step
<1>2. CASE Restart
  BY <1>2, BoundAssumption DEF Restart, AtRest
<1>3. CASE Tick \/ UNCHANGED vars
            \/ \E t \in Servers : AddServer(t) \/ DeleteServer(t) \/ RemoteChange(t)
  BY <1>3 DEF Tick, vars, AddServer, DeleteServer, RemoteChange, locals
<1>4. QED
  BY <1>1, <1>2, <1>3 DEF Next


\* A visit to a machine that always answers fails only if the server is gone.
LEMMA InnocentStep ==
  ASSUME TypeOK, Heard, NEW w \in Workers, Innocent(w), Step(w)
  PROVE  /\ cur'[w] = None => want'[w] = "online"
         /\ \A s \in Servers :
              cur'[w] = s /\ Spared(s) /\ want'[w] = "offline"
              => /\ status[s] = "deleted"
                 /\ pc'[w] \in {"update", "log", "propagate"} => tool = "kvm"
<1> DEFINE Goal == /\ cur'[w] = None => want'[w] = "online"
                   /\ \A s \in Servers :
                        cur'[w] = s /\ Spared(s) /\ want'[w] = "offline"
                        => /\ status[s] = "deleted"
                           /\ pc'[w] \in {"update", "log", "propagate"} => tool = "kvm"
<1> USE BoundAssumption
    DEF TypeOK, GoroutinesOK, Labels, Innocent, Spared, Goto, Return, EndVisit, StatusDone
<1>1. CASE StartCycle(w)
  <2> Goal
    BY <1>1 DEF StartCycle
  <2> QED
    OBVIOUS
<1>2. CASE Visit(w)
  <2> Goal
    BY <1>2 DEF Visit
  <2> QED
    OBVIOUS
<1>3. CASE EndCycle(w)
  <2> Goal
    BY <1>3 DEF EndCycle
  <2> QED
    OBVIOUS
<1>4. CASE Dial(w)
  <2> Goal
    BY <1>4 DEF Dial
  <2> QED
    OBVIOUS
<1>5. CASE Probe(w)
  <2> Goal
    BY <1>5 DEF Probe, ProbeFails, UsesFile
  <2> QED
    OBVIOUS
<1>6. CASE SelectRow(w)
  <2> Goal
    BY <1>6 DEF SelectRow
  <2> QED
    OBVIOUS
<1>7. CASE UpdateRow(w)
  <2> Goal
    BY <1>7 DEF UpdateRow
  <2> QED
    OBVIOUS
<1>8. CASE InsertRow(w)
  <2> Goal
    BY <1>8 DEF InsertRow
  <2> QED
    OBVIOUS
<1>9. CASE UpsertError(w)
  <2> Goal
    BY <1>9 DEF UpsertError, InsertFails, UniqueHost, UpsertErrorIgnored, Heard, Registered, TablesOK
  <2> QED
    OBVIOUS
<1>10. CASE Metric(w)
  <2> Goal
    BY <1>10 DEF Metric
  <2> QED
    OBVIOUS
<1>11. CASE List(w)
  <2> Goal
    BY <1>11 DEF List
  <2> QED
    OBVIOUS
<1>12. CASE CheckStatus(w)
  <2> Goal
    BY <1>12 DEF CheckStatus, StatusSettled, IgnoresMissingRow, Registered
  <2> QED
    OBVIOUS
<1>13. CASE UpdateStatus(w)
  <2> Goal
    BY <1>13 DEF UpdateStatus
  <2> QED
    OBVIOUS
<1>14. CASE LogChange(w)
  <2> Goal
    BY <1>14 DEF LogChange
  <2> QED
    OBVIOUS
<1>15. CASE Propagate(w)
  <2> Goal
    BY <1>15 DEF Propagate
  <2> QED
    OBVIOUS
<1>16. CASE DownPoint(w)
  <2> Goal
    BY <1>16 DEF DownPoint
  <2> QED
    OBVIOUS
<1>17. CASE ClearNodes(w)
  <2> Goal
    BY <1>17 DEF ClearNodes
  <2> QED
    OBVIOUS
<1>18. QED
  BY <1>1, <1>2, <1>3, <1>4, <1>5, <1>6, <1>7, <1>8, <1>9, <1>10, <1>11, <1>12, <1>13, <1>14, <1>15, <1>16, <1>17 DEF Step

\* Every step keeps what is known of a machine that always answers.
LEMMA AlarmStep == TypeOK /\ AlarmInv /\ [Next]_vars => AlarmInv'
<1> SUFFICES ASSUME TypeOK, AlarmInv, [Next]_vars PROVE AlarmInv'
  OBVIOUS
<1>1. Heard'
  BY HeardStep DEF AlarmInv
<1>2. ASSUME NEW w \in Workers PROVE Innocent(w)'
  <2>1. CASE Step(w)
    BY <2>1, InnocentStep, LifeFrame, SparedFrame DEF AlarmInv, Innocent
  <2>2. CASE Restart
    BY <2>2 DEF Restart, AtRest, Innocent
  <2>3. CASE ~Step(w) /\ ~Restart
    BY <2>3, OthersKeepLocals, LifeFrame, SparedFrame DEF AlarmInv, Innocent
  <2>4. QED
    BY <2>1, <2>2, <2>3
<1>3. ASSUME NEW s \in Servers, Spared(s) PROVE status'[s] # "offline"
  <2>1. status[s] # "offline"
    BY <1>3 DEF AlarmInv, NoFalseAlarm, Spared
  <2>2. ASSUME NEW w \in Workers, UpdateStatus(w) PROVE status'[s] # "offline"
    <3>1. cur[w] = s /\ Registered(s) => want[w] # "offline"
      BY <1>3 DEF AlarmInv, Innocent, Registered
    <3>2. QED
      BY <2>1, <2>2, <3>1 DEF UpdateStatus, TypeOK, TablesOK, GoroutinesOK
  <2>3. ASSUME NEW t \in Servers, AddServer(t) \/ DeleteServer(t) PROVE status'[s] # "offline"
    BY <2>1, <2>3 DEF AddServer, DeleteServer, TypeOK, TablesOK
  <2>4. QED
    BY <2>1, <2>2, <2>3, StatusFrame DEF Tick, dbVars
<1>4. ASSUME NEW s \in Servers, Spared(s), alerted'[s] # None
      PROVE  tool = "kvm" /\ status[s] = "deleted"
  <2>1. alerted[s] # None => tool = "kvm" /\ status[s] = "deleted"
    BY <1>4 DEF AlarmInv, NoFalseAlarm, Spared
  <2>2. ASSUME NEW w \in Workers, LogChange(w) PROVE tool = "kvm" /\ status[s] = "deleted"
    <3>1. alerted' = [alerted EXCEPT ![cur[w]] = AlertTime(cur[w], want[w])] /\ pc[w] = "log"
      BY <2>2 DEF LogChange
    <3>2. CASE cur[w] = s /\ want[w] = "offline"
      BY <1>4, <3>1, <3>2 DEF AlarmInv, Innocent
    <3>3. CASE ~(cur[w] = s /\ want[w] = "offline")
      BY <1>4, <2>1, <3>1, <3>3 DEF AlertTime, TypeOK, TablesOK
    <3>4. QED
      BY <3>2, <3>3
  <2>3. ASSUME ~\E w \in Workers : LogChange(w) PROVE alerted' = alerted
    BY <2>3 DEF Next, Step, StartCycle, Visit, EndCycle, Dial, Probe, SelectRow, UpdateRow,
       InsertRow, UpsertError, Metric, List, CheckStatus, UpdateStatus, Propagate, DownPoint,
       ClearNodes, AddServer, DeleteServer, RemoteChange, Tick, Restart, vars, dbVars
  <2>4. QED
    BY <1>4, <2>1, <2>2, <2>3
<1>5. NoFalseAlarm'
  BY <1>3, <1>4, LifeFrame, SparedFrame DEF NoFalseAlarm, Spared
<1>6. QED
  BY <1>1, <1>2, <1>5 DEF AlarmInv

\* A server whose machine always answers is never reported offline, nor alerted
\* about (of the collectors without the races NoFalseAlarm names).
THEOREM NoAlarmFalse == Spec => []NoFalseAlarm
<1>1. Init => AlarmInv
  BY BoundAssumption DEF Init, AtRest, AlarmInv, Heard, Innocent, NoFalseAlarm
<1>2. AlarmInv => NoFalseAlarm
  BY DEF AlarmInv
<1>3. QED
  BY <1>1, <1>2, AlarmStep, TypeCorrect, PTL DEF Spec

(***************************************************************************)
(* What the visits of a collector leave behind for every set of servers:   *)
(* the host rows of a server that is offline, whatever two overlapping     *)
(* cycles do; and, with one cycle at a time, the history and the metric    *)
(* points of a server.                                                     *)
(***************************************************************************)

\* A process that has not been restarted by now was not before.
LEMMA NotRestarted == ASSUME TypeOK, [Next]_vars, restarts' = 0
                      PROVE  restarts = 0 /\ ~Restart /\ tool' = tool
<1>1. restarts \in Nat
  BY DEF TypeOK, EnvOK
<1>2. ASSUME NEW w \in Workers, Step(w) PROVE restarts' = restarts /\ tool' = tool
  BY <1>2 DEF Step, StartCycle, Visit, EndCycle, Dial, Probe, SelectRow, UpdateRow, InsertRow, UpsertError,
     Metric, List, CheckStatus, UpdateStatus, LogChange, Propagate, DownPoint, ClearNodes, env
<1>3. ASSUME NEW s \in Servers, AddServer(s) \/ DeleteServer(s) \/ RemoteChange(s)
      PROVE  restarts' = restarts /\ tool' = tool
  BY <1>3 DEF AddServer, DeleteServer, RemoteChange, env
<1>4. ASSUME Tick \/ UNCHANGED vars PROVE restarts' = restarts /\ tool' = tool
  BY <1>4 DEF Tick, vars, env
<1>5. ~Restart
  BY <1>1 DEF Restart
<1>6. restarts' = restarts /\ tool' = tool
  <2>1. CASE Next
    BY <1>2, <1>3, <1>4, <1>5, <2>1 DEF Next
  <2>2. QED
    BY <1>4, <2>1
<1>7. QED
  BY <1>5, <1>6

(***************************************************************************)
(* Host rows follow the status.                                            *)
(***************************************************************************)

\* The collectors whose listing cannot fail and that mark the host rows.
Marking == tool \in {"kubernetes", "kubefile", "proxmox", "nas", "ceph"}

\* A visit that has not written its row yet has nothing to report but success.
FreshVisits == \A w \in Workers : pc[w] \in {"idle", "next", "dial", "probe", "select", "write"}
                                  => want[w] = "online"

\* The visit of s by w is about to make it online, or to mark its rows.
WillSettle(w, s) == /\ cur[w] = s
                    /\ \/ pc[w] \in {"metric", "list", "check", "update"} /\ want[w] = "online"
                       \/ pc[w] \in {"log", "propagate"} /\ want[w] = "offline"

RowsSettle == restarts = 0 /\ Marking =>
                \A s \in Servers : status[s] = "offline" /\ (\E k \in RowKeys : rows[s][k] = "up")
                                   => \E w \in Workers : WillSettle(w, s)

\* Whoever goes on to a new visit has forgotten how the last one ended.
LEMMA FreshStep == TypeOK /\ FreshVisits /\ [Next]_vars => FreshVisits'
<1> SUFFICES ASSUME TypeOK, FreshVisits, [Next]_vars, NEW w \in Workers,
                    pc'[w] \in {"idle", "next", "dial", "probe", "select", "write"}
             PROVE  want'[w] = "online"
  BY DEF FreshVisits
<1>1. CASE Step(w)
  <2> USE DEF TypeOK, GoroutinesOK, Goto, FreshVisits
  <2>1. CASE StartCycle(w) \/ Visit(w) \/ EndCycle(w)
    BY <2>1 DEF StartCycle, Visit, EndCycle
  <2>2. CASE Dial(w) \/ Probe(w)
    BY <2>2 DEF Dial, Probe, Return
  <2>3. CASE SelectRow(w) \/ UpdateRow(w) \/ InsertRow(w)
    BY <2>3 DEF SelectRow, UpdateRow, InsertRow
  <2>4. CASE UpsertError(w) \/ Metric(w) \/ List(w)
    BY <2>4 DEF UpsertError, Metric, List, Return
  <2>5. CASE CheckStatus(w)
    BY <2>5 DEF CheckStatus, StatusDone, EndVisit
  <2>6. CASE UpdateStatus(w) \/ LogChange(w)
    BY <2>6 DEF UpdateStatus, LogChange, StatusDone, EndVisit
  <2>7. CASE Propagate(w) \/ DownPoint(w) \/ ClearNodes(w)
    BY <2>7 DEF Propagate, DownPoint, ClearNodes, StatusDone, EndVisit
  <2>8. QED
    BY <1>1, <2>1, <2>2, <2>3, <2>4, <2>5, <2>6, <2>7 DEF Step
<1>2. CASE Restart
  BY <1>2 DEF Restart, AtRest
<1>3. CASE ~Step(w) /\ ~Restart
  BY <1>3, OthersKeepLocals DEF FreshVisits
<1>4. QED
  BY <1>1, <1>2, <1>3

\* The visit that was about to settle a server is still, or has done it.
LEMMA SettlerStep ==
  ASSUME TypeOK, Marking, NEW w \in Workers, NEW s \in Servers, WillSettle(w, s), Step(w),
         status[s] = "offline", status'[s] = "offline", NEW k \in RowKeys, rows'[s][k] = "up"
  PROVE  WillSettle(w, s)'
<1> USE DEF TypeOK, GoroutinesOK, Goto, WillSettle
<1>1. pc[w] \in {"metric", "list", "check", "update", "log", "propagate"} /\ cur[w] = s
  OBVIOUS
<1>2. CASE Metric(w)
  BY <1>2 DEF Metric
<1>3. CASE List(w)
  BY <1>3 DEF List, Return, ListFails, Marking
<1>4. CASE CheckStatus(w)
  BY <1>4 DEF CheckStatus, StatusSettled, Registered
<1>5. CASE UpdateStatus(w)
  BY <1>5 DEF UpdateStatus, Registered, TablesOK
<1>6. CASE LogChange(w)
  BY <1>6 DEF LogChange, Propagates, Marking
<1>7. CASE Propagate(w)
  <2>1. rows'[s][k] # "up"
    BY <1>7 DEF Propagate, MarkedDown, TablesOK
  <2>2. QED
    BY <2>1
<1>8. QED
  BY <1>1, <1>2, <1>3, <1>4, <1>5, <1>6, <1>7
     DEF Step, StartCycle, Visit, EndCycle, Dial, Probe, SelectRow, UpdateRow, InsertRow, UpsertError,
         DownPoint, ClearNodes

\* Who makes a server offline, or a row of it count as online, has that ahead.
LEMMA RowsSettleStep == TypeOK /\ FreshVisits /\ RowsSettle /\ [Next]_vars => RowsSettle'
<1> SUFFICES ASSUME TypeOK, FreshVisits, RowsSettle, [Next]_vars, restarts' = 0, Marking',
                    NEW s \in Servers, status'[s] = "offline",
                    NEW k \in RowKeys, rows'[s][k] = "up"
             PROVE  \E w \in Workers : WillSettle(w, s)'
  BY DEF RowsSettle
<1>1. restarts = 0 /\ ~Restart /\ tool' = tool /\ Marking
  BY NotRestarted DEF Marking
<1>2. CASE status[s] = "offline" /\ \E r \in RowKeys : rows[s][r] = "up"
  <2>1. PICK w \in Workers : WillSettle(w, s)
    BY <1>1, <1>2 DEF RowsSettle
  <2>2. CASE Step(w)
    BY <1>1, <1>2, <2>1, <2>2, SettlerStep
  <2>3. CASE ~Step(w)
    BY <1>1, <2>1, <2>3, OthersKeepLocals DEF WillSettle
  <2>4. QED
    BY <2>2, <2>3
<1>3. CASE status[s] # "offline"
  <2>1. PICK w \in Workers : UpdateStatus(w)
    BY <1>3, StatusFrame DEF AddServer, DeleteServer, Tick, dbVars, TypeOK, TablesOK
  <2>2. cur[w] = s /\ want[w] = "offline"
    BY <1>3, <2>1 DEF UpdateStatus, TypeOK, TablesOK, GoroutinesOK
  <2>3. WillSettle(w, s)'
    BY <2>1, <2>2 DEF UpdateStatus, Goto, WillSettle, TypeOK, GoroutinesOK
  <2>4. QED
    BY <2>3
<1>4. CASE status[s] = "offline" /\ \A r \in RowKeys : rows[s][r] # "up"
  <2>1. PICK w \in Workers : cur[w] = s /\ (InsertRow(w) \/ UpdateRow(w))
    <3>1. rows' # rows /\ rows[s][k] # "up"
      BY <1>4
    <3>2. ASSUME NEW w \in Workers, InsertRow(w) PROVE cur[w] = s
      BY <3>1, <3>2 DEF InsertRow, TypeOK, TablesOK, GoroutinesOK
    <3>3. ASSUME NEW w \in Workers, UpdateRow(w) PROVE cur[w] = s
      BY <3>1, <3>3 DEF UpdateRow, TypeOK, TablesOK, GoroutinesOK
    <3>4. ASSUME NEW t \in Servers, rows' = [rows EXCEPT ![t] = MarkedDown(@)] PROVE FALSE
      BY <3>1, <3>4 DEF MarkedDown, TypeOK, TablesOK
    <3>5. ASSUME NEW t \in Servers, DeleteServer(t) PROVE FALSE
      BY <3>1, <3>5 DEF DeleteServer, NoRows, TypeOK, TablesOK
    <3>6. QED
      BY <3>1, <3>2, <3>3, <3>4, <3>5, RowsFrame
  <2>2. pc[w] = "write" /\ pc' = [pc EXCEPT ![w] = "metric"] /\ cur' = cur /\ want' = want
    BY <2>1 DEF InsertRow, UpdateRow, Goto
  <2>3. want[w] = "online"
    BY <2>2 DEF FreshVisits
  <2>4. WillSettle(w, s)'
    BY <2>1, <2>2, <2>3 DEF WillSettle, TypeOK, GoroutinesOK
  <2>5. QED
    BY <2>4
<1>5. QED
  BY <1>2, <1>3, <1>4

\* Between visits no host row of an offline server counts as online, for any
\* number of servers and whatever the two cycles a collector starts with do to
\* each other (Set*ServerStatus, ClearKubernetesNodesStatus).
THEOREM RowsFollow == Spec => []RowsFollowStatus
<1>1. Init => FreshVisits /\ RowsSettle
  BY DEF Init, AtRest, FreshVisits, RowsSettle
<1>2. RowsSettle => RowsFollowStatus
  BY DEF RowsSettle, RowsFollowStatus, Marking, Quiet, WillSettle
<1>3. QED
  BY <1>1, <1>2, FreshStep, RowsSettleStep, TypeCorrect, PTL DEF Spec

(***************************************************************************)
(* One cycle at a time: KVM and pfSense.                                   *)
(***************************************************************************)

Alone == restarts = 0 /\ tool \in {"kvm", "pfsense"}
\* The goroutine that is alone.
One == "ticker"

\* The servers of the snapshot have been registered.
Known == \A s \in Servers : s \in todo[One] \/ cur[One] = s => status[s] # "absent"

\* What the visit has found out so far.
Visited == /\ pc[One] \notin {"propagate", "clear"}
           /\ pc[One] = "update" => status[cur[One]] # want[One]
           /\ pc[One] = "log"    => status[cur[One]] \in {want[One], "deleted"}
           /\ pc[One] = "down"   => want[One] = "offline" /\ status[cur[One]] \in {"offline", "deleted"}
           /\ pc[One] \in {"list", "check", "update", "log"} /\ want[One] = "online"
                => point[cur[One]] = "online"

\* The last event is the status, unless a change of it is about to be logged.
EventFits == \A s \in Servers :
  /\ status[s] \in {"absent", "unknown"} => event[s] = "none"
  /\ status[s] \in {"online", "offline"} =>
       IF cur[One] = s /\ pc[One] = "log" THEN event[s] # status[s] ELSE event[s] = status[s]

\* The last point is the status, unless the server is being visited.
PointFits == \A s \in Servers : status[s] \in {"online", "offline"} /\ cur[One] # s => point[s] = status[s]

AloneInv == Alone => pc["boot"] = "done" /\ Known /\ Visited /\ EventFits /\ PointFits

\* The goroutine that Start does not create takes no step.
LEMMA NoOther == ASSUME TypeOK, pc["boot"] = "done", NEW w \in Workers, Step(w) PROVE w = One
<1>1. pc[w] # "done"
  BY DEF Step, StartCycle, Visit, EndCycle, Dial, Probe, SelectRow, UpdateRow, InsertRow, UpsertError,
     Metric, List, CheckStatus, UpdateStatus, LogChange, Propagate, DownPoint, ClearNodes
<1>2. QED
  BY <1>1 DEF Workers, One

\* A step of the goroutine keeps what its visit has found out, and the history.
LEMMA AloneVisit == ASSUME TypeOK, Alone, AloneInv, Step(One)
                    PROVE  pc'["boot"] = "done" /\ (Known /\ Visited /\ EventFits /\ PointFits)'
<1> USE DEF TypeOK, GoroutinesOK, TablesOK, Goto, One, Alone, AloneInv, Workers
<1>0. None \notin Servers
  BY BoundAssumption
<1>1. CASE StartCycle(One)
  <2>1. Known'
    <3>1. cur'[One] = None /\ status' = status
      BY <1>1 DEF StartCycle, dbVars
    <3>2. todo'[One] = {s \in Servers : Registered(s)}
      BY <1>1 DEF StartCycle
    <3>3. \A s \in todo'[One] : status'[s] # "absent"
      BY <3>1, <3>2 DEF Registered
    <3>4. QED
      BY <1>0, <3>1, <3>3 DEF Known
  <2>2. Visited'
    BY <1>1 DEF StartCycle, Registered, Visited, dbVars
  <2>3. EventFits'
    BY <1>1 DEF StartCycle, Registered, Visited, EventFits, dbVars
  <2>4. PointFits'
    BY <1>1 DEF StartCycle, Registered, Visited, PointFits, dbVars
  <2>5. pc'["boot"] = "done"
    BY <1>1 DEF StartCycle, Registered
  <2>6. QED
    BY <2>1, <2>2, <2>3, <2>4, <2>5
<1>2. CASE Visit(One)
  <2>1. Known'
    BY <1>2 DEF Visit, Known, dbVars
  <2>2. Visited'
    BY <1>2 DEF Visit, Visited, dbVars
  <2>3. EventFits'
    BY <1>2 DEF Visit, Visited, EventFits, dbVars
  <2>4. PointFits'
    BY <1>0, <1>2 DEF Visit, Visited, PointFits, dbVars
  <2>5. pc'["boot"] = "done"
    BY <1>2 DEF Visit
  <2>6. QED
    BY <2>1, <2>2, <2>3, <2>4, <2>5
<1>3. CASE EndCycle(One)
  <2>1. Known'
    BY <1>3 DEF EndCycle, Known, dbVars
  <2>2. Visited'
    BY <1>3 DEF EndCycle, Visited, dbVars
  <2>3. EventFits'
    BY <1>3 DEF EndCycle, Visited, EventFits, dbVars
  <2>4. PointFits'
    BY <1>3 DEF EndCycle, Visited, PointFits, dbVars
  <2>5. pc'["boot"] = "done"
    BY <1>3 DEF EndCycle
  <2>6. QED
    BY <2>1, <2>2, <2>3, <2>4, <2>5
<1>4. CASE Dial(One)
  <2>1. Known'
    BY <1>4 DEF Dial, Return, Known, dbVars
  <2>2. Visited'
    BY <1>4 DEF Dial, Return, Visited, dbVars
  <2>3. EventFits'
    BY <1>4 DEF Dial, Return, Visited, EventFits, dbVars
  <2>4. PointFits'
    BY <1>4 DEF Dial, Return, Visited, PointFits, dbVars
  <2>5. pc'["boot"] = "done"
    BY <1>4 DEF Dial, Return
  <2>6. QED
    BY <2>1, <2>2, <2>3, <2>4, <2>5
<1>5. CASE Probe(One)
  <2>1. Known'
    BY <1>5 DEF Probe, Return, Known, dbVars
  <2>2. Visited'
    BY <1>5 DEF Probe, Return, Visited, dbVars
  <2>3. EventFits'
    BY <1>5 DEF Probe, Return, Visited, EventFits, dbVars
  <2>4. PointFits'
    BY <1>5 DEF Probe, Return, Visited, PointFits, dbVars
  <2>5. pc'["boot"] = "done"
    BY <1>5 DEF Probe, Return
  <2>6. QED
    BY <2>1, <2>2, <2>3, <2>4, <2>5
<1>6. CASE SelectRow(One)
  <2>1. Known'
    BY <1>6 DEF SelectRow, Known, dbVars
  <2>2. Visited'
    BY <1>6 DEF SelectRow, Visited, dbVars
  <2>3. EventFits'
    BY <1>6 DEF SelectRow, Visited, EventFits, dbVars
  <2>4. PointFits'
    BY <1>6 DEF SelectRow, Visited, PointFits, dbVars
  <2>5. pc'["boot"] = "done"
    BY <1>6 DEF SelectRow
  <2>6. QED
    BY <2>1, <2>2, <2>3, <2>4, <2>5
<1>7. CASE UpdateRow(One)
  <2>1. Known'
    BY <1>7 DEF UpdateRow, Known, dbVars
  <2>2. Visited'
    BY <1>7 DEF UpdateRow, Visited, dbVars
  <2>3. EventFits'
    BY <1>7 DEF UpdateRow, Visited, EventFits, dbVars
  <2>4. PointFits'
    BY <1>7 DEF UpdateRow, Visited, PointFits, dbVars
  <2>5. pc'["boot"] = "done"
    BY <1>7 DEF UpdateRow
  <2>6. QED
    BY <2>1, <2>2, <2>3, <2>4, <2>5
<1>8. CASE InsertRow(One)
  <2>1. Known'
    BY <1>8 DEF InsertRow, Known, dbVars
  <2>2. Visited'
    BY <1>8 DEF InsertRow, Visited, dbVars
  <2>3. EventFits'
    BY <1>8 DEF InsertRow, Visited, EventFits, dbVars
  <2>4. PointFits'
    BY <1>8 DEF InsertRow, Visited, PointFits, dbVars
  <2>5. pc'["boot"] = "done"
    BY <1>8 DEF InsertRow
  <2>6. QED
    BY <2>1, <2>2, <2>3, <2>4, <2>5
<1>9. CASE UpsertError(One)
  <2>1. Known'
    BY <1>9 DEF UpsertError, Return, UpsertErrorIgnored, Known, dbVars
  <2>2. Visited'
    BY <1>9 DEF UpsertError, Return, UpsertErrorIgnored, Visited, dbVars
  <2>3. EventFits'
    BY <1>9 DEF UpsertError, Return, UpsertErrorIgnored, Visited, EventFits, dbVars
  <2>4. PointFits'
    BY <1>9 DEF UpsertError, Return, UpsertErrorIgnored, Visited, PointFits, dbVars
  <2>5. pc'["boot"] = "done"
    BY <1>9 DEF UpsertError, Return, UpsertErrorIgnored
  <2>6. QED
    BY <2>1, <2>2, <2>3, <2>4, <2>5
<1>10. CASE Metric(One)
  <2>1. Known'
    BY <1>10 DEF Metric, Known, dbVars
  <2>2. Visited'
    BY <1>10 DEF Metric, Visited, dbVars
  <2>3. EventFits'
    BY <1>10 DEF Metric, Visited, EventFits, dbVars
  <2>4. PointFits'
    BY <1>10 DEF Metric, Visited, PointFits, dbVars
  <2>5. pc'["boot"] = "done"
    BY <1>10 DEF Metric
  <2>6. QED
    BY <2>1, <2>2, <2>3, <2>4, <2>5
<1>11. CASE List(One)
  <2>1. Known'
    BY <1>11 DEF List, Return, ListFails, Known, dbVars
  <2>2. Visited'
    BY <1>11 DEF List, Return, ListFails, Visited, dbVars
  <2>3. EventFits'
    BY <1>11 DEF List, Return, ListFails, Visited, EventFits, dbVars
  <2>4. PointFits'
    BY <1>11 DEF List, Return, ListFails, Visited, PointFits, dbVars
  <2>5. pc'["boot"] = "done"
    BY <1>11 DEF List, Return, ListFails
  <2>6. QED
    BY <2>1, <2>2, <2>3, <2>4, <2>5
<1>12. CASE CheckStatus(One)
  <2>1. Known'
    BY <1>0, <1>12 DEF CheckStatus, StatusSettled, StatusDone, EndVisit, Registered, Known, dbVars
  <2>2. Visited'
    BY <1>12 DEF CheckStatus, StatusSettled, StatusDone, EndVisit, Registered, Known, Visited, dbVars
  <2>3. EventFits'
    BY <1>12 DEF CheckStatus, StatusSettled, StatusDone, EndVisit, Registered, Visited, EventFits, dbVars
  <2>4. PointFits'
    BY <1>12 DEF CheckStatus, StatusSettled, StatusDone, EndVisit, Registered, Visited, PointFits, dbVars
  <2>5. pc'["boot"] = "done"
    BY <1>12 DEF CheckStatus, StatusSettled, StatusDone, EndVisit, Registered
  <2>6. QED
    BY <2>1, <2>2, <2>3, <2>4, <2>5
<1>13. CASE UpdateStatus(One)
  <2>1. Known'
    BY <1>13 DEF UpdateStatus, Registered, Known, dbVars
  <2>2. Visited'
    BY <1>13 DEF UpdateStatus, Registered, Known, Visited, dbVars
  <2>3. EventFits'
    BY <1>13 DEF UpdateStatus, Registered, Visited, EventFits, dbVars
  <2>4. PointFits'
    BY <1>13 DEF UpdateStatus, Registered, Visited, PointFits, dbVars
  <2>5. pc'["boot"] = "done"
    BY <1>13 DEF UpdateStatus, Registered
  <2>6. QED
    BY <2>1, <2>2, <2>3, <2>4, <2>5
<1>14. CASE LogChange(One)
  <2>1. Known'
    BY <1>0, <1>14 DEF LogChange, StatusDone, EndVisit, Propagates, Known, dbVars
  <2>2. Visited'
    BY <1>14 DEF LogChange, StatusDone, EndVisit, Propagates, Visited, dbVars
  <2>3. EventFits'
    BY <1>14 DEF LogChange, StatusDone, EndVisit, Propagates, Visited, EventFits, dbVars
  <2>4. PointFits'
    BY <1>14 DEF LogChange, StatusDone, EndVisit, Propagates, Visited, PointFits, dbVars
  <2>5. pc'["boot"] = "done"
    BY <1>14 DEF LogChange, StatusDone, EndVisit, Propagates
  <2>6. QED
    BY <2>1, <2>2, <2>3, <2>4, <2>5
<1>15. CASE Propagate(One)
  BY <1>15 DEF Propagate, Visited
<1>16. CASE DownPoint(One)
  <2>1. Known'
    BY <1>0, <1>16 DEF DownPoint, EndVisit, ClearsOnDown, Known, dbVars
  <2>2. Visited'
    BY <1>16 DEF DownPoint, EndVisit, ClearsOnDown, Visited, dbVars
  <2>3. EventFits'
    BY <1>16 DEF DownPoint, EndVisit, ClearsOnDown, Visited, EventFits, dbVars
  <2>4. PointFits'
    BY <1>16 DEF DownPoint, EndVisit, ClearsOnDown, Visited, PointFits, dbVars
  <2>5. pc'["boot"] = "done"
    BY <1>16 DEF DownPoint, EndVisit, ClearsOnDown
  <2>6. QED
    BY <2>1, <2>2, <2>3, <2>4, <2>5
<1>17. CASE ClearNodes(One)
  BY <1>17 DEF ClearNodes, Visited
<1>18. QED
  BY <1>1, <1>2, <1>3, <1>4, <1>5, <1>6, <1>7, <1>8, <1>9, <1>10, <1>11, <1>12, <1>13, <1>14, <1>15, <1>16,
     <1>17 DEF Step

\* So does every other step of the process and of its environment.
LEMMA AloneStep == TypeOK /\ AloneInv /\ [Next]_vars => AloneInv'
<1> SUFFICES ASSUME TypeOK, AloneInv, [Next]_vars, Alone'
             PROVE  pc'["boot"] = "done" /\ (Known /\ Visited /\ EventFits /\ PointFits)'
  BY DEF AloneInv
<1>1. Alone /\ ~Restart
  BY NotRestarted DEF Alone
<1>2. pc["boot"] = "done"
  BY <1>1 DEF AloneInv
<1>3. ASSUME NEW w \in Workers, Step(w)
      PROVE  pc'["boot"] = "done" /\ (Known /\ Visited /\ EventFits /\ PointFits)'
  BY <1>1, <1>2, <1>3, NoOther, AloneVisit
<1>4. ASSUME NEW s \in Servers, AddServer(s)
      PROVE  pc'["boot"] = "done" /\ (Known /\ Visited /\ EventFits /\ PointFits)'
  <2> USE <1>1, <1>4 DEF AloneInv, AddServer, locals, TypeOK, TablesOK, GoroutinesOK, One
  <2>1. cur[One] # s /\ s \notin todo[One]
    BY DEF Known
  <2>2. Known'
    BY <2>1 DEF Known
  <2>3. Visited'
    BY <2>1, BoundAssumption DEF Visited, Known, Workers, Labels
  <2>4. EventFits'
    BY <2>1 DEF EventFits
  <2>5. PointFits'
    BY <2>1 DEF PointFits
  <2>6. QED
    BY <2>2, <2>3, <2>4, <2>5
<1>5. ASSUME NEW s \in Servers, DeleteServer(s)
      PROVE  pc'["boot"] = "done" /\ (Known /\ Visited /\ EventFits /\ PointFits)'
  <2> USE <1>1, <1>5 DEF AloneInv, DeleteServer, locals, TypeOK, TablesOK, GoroutinesOK, One, Workers
  <2>1. Known'
    BY DEF Known
  <2>2. Visited'
    BY DEF Visited
  <2>3. EventFits'
    BY DEF EventFits
  <2>4. PointFits'
    BY DEF PointFits
  <2>5. QED
    BY <2>1, <2>2, <2>3, <2>4
<1>6. ASSUME UNCHANGED <<dbVars, locals>>
      PROVE  pc'["boot"] = "done" /\ (Known /\ Visited /\ EventFits /\ PointFits)'
  BY <1>1, <1>6 DEF AloneInv, dbVars, locals, Known, Visited, EventFits, PointFits
<1>7. QED
  BY <1>1, <1>3, <1>4, <1>5, <1>6 DEF Next, Tick, RemoteChange, vars

\* In every behaviour of a collector.
LEMMA AloneAlways == Spec => []AloneInv
<1>1. Init => AloneInv
  BY BoundAssumption
     DEF Init, AtRest, Started, Workers, One, AloneInv, Alone, Known, Visited, EventFits, PointFits
<1>2. QED
  BY <1>1, AloneStep, TypeCorrect, PTL DEF Spec

\* With one cycle at a time and no restart the last event in the history of a
\* server is its status, whatever the administrator and the machines do between
\* the UPDATE of the status and the INSERT of the event.
THEOREM HistoryFollows == Spec => []HistoryMatchesStatus
<1>1. AloneInv => HistoryMatchesStatus
  BY DEF AloneInv, Alone, EventFits, HistoryMatchesStatus, Quiet, Workers, One
<1>2. QED
  BY <1>1, AloneAlways, PTL

\* ... its last metric point says the same ...
THEOREM PointFollows == Spec => []PointMatchesStatus
<1>1. AloneInv => PointMatchesStatus
  BY DEF AloneInv, Alone, PointFits, PointMatchesStatus, Quiet, Workers, One
<1>2. QED
  BY <1>1, AloneAlways, PTL

\* ... and no change of status is logged twice in a row.
THEOREM HistoryAlternates == Spec => []NoRepeatedEvent
<1>1. AloneInv /\ TypeOK => NoRepeatedEvent
  <2> SUFFICES ASSUME AloneInv, TypeOK, Alone, NEW w \in Workers, pc[w] = "log", Registered(cur[w])
               PROVE  event[cur[w]] # want[w]
    BY DEF NoRepeatedEvent, Alone
  <2>1. w = One
    BY DEF AloneInv, Workers, One
  <2>2. cur[w] \in Servers
    BY <2>1 DEF TypeOK, GoroutinesOK
  <2>3. status[cur[w]] = want[w] /\ want[w] \in {"online", "offline"}
    BY <2>1, <2>2 DEF AloneInv, Visited, Registered, TypeOK, GoroutinesOK
  <2>4. QED
    BY <2>1, <2>2, <2>3 DEF AloneInv, EventFits
<1>2. QED
  BY <1>1, AloneAlways, TypeCorrect, PTL
=============================================================================
