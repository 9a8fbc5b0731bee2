----------------------------- MODULE LogPipeline -----------------------------
(***************************************************************************)
(* What every goroutine of the backend shares: the loggers with their      *)
(* mutexes, the bounded channel behind them, the one goroutine that writes *)
(* log entries into the database, and the bounded pool of connections that *)
(* it competes for with all others.  GetFirewallHosts is the only caller   *)
(* that asks the pool for a connection while it keeps one.                 *)
(***************************************************************************)
EXTENDS Naturals, Sequences

CONSTANTS
  Threads,    \* goroutines that log and query: collectors, request handlers
  Writer,     \* the goroutine of processLogs
  Loggers,    \* the standard logger and the one that also writes to the console
  Conns,      \* the connections of the pool (SetMaxOpenConns)
  Capacity,   \* of logChan
  MaxHosts,   \* bound on the firewall hosts in the table
  MaxEntries, \* bound on the log entries of a run
  None

ASSUME UserAssumption == Writer \notin Threads
ASSUME SizeAssumption == /\ Capacity \in Nat \ {0} /\ Conns # {}
                         /\ MaxHosts \in Nat /\ MaxEntries \in Nat
ASSUME NoneAssumption == None \notin Threads /\ None \notin Loggers

VARIABLES
  pc,       \* where each goroutine is
  held,     \* connections it holds
  logger,   \* logger it is calling
  entry,    \* log entry it is writing
  left,     \* inner queries that GetFirewallHosts still has to make
  issued,   \* number of entries so far
  mutex,    \* holder of each logger's mutex
  channel,  \* logChan
  inflight, \* entry the writer has taken
  table,    \* rows of logging.app_logs
  failed    \* entries whose INSERT failed

Users  == Threads \cup {Writer}
locals == <<held, logger, entry, left>>
log    == <<issued, mutex, channel, inflight, table, failed>>
vars   == <<pc, locals, log>>

----------------------------------------------------------------------------
Goto(u, l) == pc' = [pc EXCEPT ![u] = l]

\* Labels at which a goroutine waits for a connection, and those they lead to.
Granted == [ask |-> "query", outer |-> "rows", inner |-> "fetch", conn |-> "insert"]
Asking  == DOMAIN Granted

Free == {c \in Conns : \A u \in Users : c \notin held[u]}

Init == /\ pc     = [u \in Users |-> IF u = Writer THEN "take" ELSE "idle"]
        /\ held   = [u \in Users |-> {}]
        /\ logger = [t \in Threads |-> None]
        /\ entry  = [t \in Threads |-> 0]
        /\ left   = [t \in Threads |-> 0]
        /\ issued = 0
        /\ mutex  = [g \in Loggers |-> None]
        /\ channel  = <<>>
        /\ inflight = <<>>
        /\ table    = <<>>
        /\ failed   = {}

----------------------------------------------------------------------------
(* Logging.                                                                *)

\* A call of log.Printf or systemLog.Printf.
CallLog(t) ==
  /\ pc[t] = "idle"
  /\ issued < MaxEntries
  /\ issued' = issued + 1
  /\ entry' = [entry EXCEPT ![t] = issued + 1]
  /\ \E g \in Loggers : logger' = [logger EXCEPT ![t] = g]
  /\ Goto(t, "lock")
  /\ UNCHANGED <<held, left, mutex, channel, inflight, table, failed>>

\* The log package calls Write with the mutex of the logger held.
LockLogger(t) ==
  /\ pc[t] = "lock"
  /\ mutex[logger[t]] = None
  /\ mutex' = [mutex EXCEPT ![logger[t]] = t]
  /\ Goto(t, "send")
  /\ UNCHANGED <<locals, issued, channel, inflight, table, failed>>

\* Write is done: the logger is unlocked and the call returns.
Written(t) == /\ mutex'  = [mutex  EXCEPT ![logger[t]] = None]
              /\ logger' = [logger EXCEPT ![t] = None]
              /\ entry'  = [entry  EXCEPT ![t] = 0]
              /\ Goto(t, "idle")

\* Mutated: Write does not wait for room but drops the entry.
SendOrDrop(t) ==
  /\ pc[t] = "send"
  /\ channel' = IF Len(channel) < Capacity THEN Append(channel, entry[t]) ELSE channel
  /\ Written(t)
  /\ UNCHANGED <<held, left, issued, inflight, table, failed>>

\* logChan <- AppLog{...}, which waits while the channel is full.
Send(t) ==
  /\ pc[t] = "send"
  /\ Len(channel) < Capacity
  /\ channel' = Append(channel, entry[t])
  /\ Written(t)
  /\ UNCHANGED <<held, left, issued, inflight, table, failed>>

\* Mutated: the newest entry is taken.
TakeNewest ==
  /\ pc[Writer] = "take"
  /\ channel # <<>>
  /\ inflight' = <<channel[Len(channel)]>>
  /\ channel' = SubSeq(channel, 1, Len(channel) - 1)
  /\ Goto(Writer, "conn")
  /\ UNCHANGED <<locals, issued, mutex, table, failed>>

\* processLogs receives an entry and calls LogAppMessage.
Take ==
  /\ pc[Writer] = "take"
  /\ channel # <<>>
  /\ inflight' = <<Head(channel)>>
  /\ channel' = Tail(channel)
  /\ Goto(Writer, "conn")
  /\ UNCHANGED <<locals, issued, mutex, table, failed>>

\* The INSERT succeeds or fails; the error is dropped, and with it the entry.
Insert ==
  /\ pc[Writer] = "insert"
  /\ \/ table' = table \o inflight /\ UNCHANGED failed
     \/ failed' = failed \cup {Head(inflight)} /\ UNCHANGED table
  /\ inflight' = <<>>
  /\ held' = [held EXCEPT ![Writer] = {}]
  /\ Goto(Writer, "take")
  /\ UNCHANGED <<logger, entry, left, issued, mutex, channel>>
----------------------------------------------------------------------------
(* Queries.                                                                *)

\* A statement, or a query whose rows are read before anything else is asked.
CallQuery(t) ==
  /\ pc[t] = "idle"
  /\ Goto(t, "ask")
  /\ UNCHANGED <<locals, log>>

\* GetFirewallHosts: two inner queries for each host.
CallFirewallHosts(t) ==
  /\ pc[t] = "idle"
  /\ \E hosts \in 0..MaxHosts : left' = [left EXCEPT ![t] = 2 * hosts]
  /\ Goto(t, "outer")
  /\ UNCHANGED <<held, logger, entry, log>>

\* The pool hands a free connection to one of those that wait.
Acquire(u) ==
  /\ pc[u] \in Asking
  /\ \E c \in Free : held' = [held EXCEPT ![u] = @ \cup {c}]
  /\ Goto(u, Granted[pc[u]])
  /\ UNCHANGED <<logger, entry, left, log>>

QueryDone(t) ==
  /\ pc[t] = "query"
  /\ held' = [held EXCEPT ![t] = {}]
  /\ Goto(t, "idle")
  /\ UNCHANGED <<logger, entry, left, log>>

\* Mutated: with the rows open, an entry is logged that ends the call.
LogInRows(t) ==
  /\ pc[t] = "rows"
  /\ IF issued < MaxEntries
     THEN /\ issued' = issued + 1
          /\ entry' = [entry EXCEPT ![t] = issued + 1]
          /\ \E g \in Loggers : logger' = [logger EXCEPT ![t] = g]
          /\ Goto(t, "lock")
          /\ UNCHANGED <<held, left>>
     ELSE /\ held' = [held EXCEPT ![t] = {}]
          /\ left' = [left EXCEPT ![t] = 0]
          /\ Goto(t, "idle")
          /\ UNCHANGED <<logger, entry, issued>>
  /\ UNCHANGED <<mutex, channel, inflight, table, failed>>

\* The next row of the outer query, or its end and the deferred rows.Close.
NextRow(t) ==
  /\ pc[t] = "rows"
  /\ IF left[t] > 0
     THEN Goto(t, "inner") /\ UNCHANGED held
     ELSE Goto(t, "idle") /\ held' = [held EXCEPT ![t] = {}]
  /\ UNCHANGED <<logger, entry, left, log>>

\* Mutated: the rows of an inner query are closed by a defer.
FetchDeferred(t) ==
  /\ pc[t] = "fetch"
  /\ left' = [left EXCEPT ![t] = @ - 1]
  /\ Goto(t, "rows")
  /\ UNCHANGED <<held, logger, entry, log>>

\* The rows of an inner query are read and closed.
Fetch(t) ==
  /\ pc[t] = "fetch"
  /\ \E c \in held[t] : held' = [held EXCEPT ![t] = @ \ {c}]
  /\ left' = [left EXCEPT ![t] = @ - 1]
  /\ Goto(t, "rows")
  /\ UNCHANGED <<logger, entry, log>>

Call(t) == CallLog(t) \/ CallQuery(t) \/ CallFirewallHosts(t)
Step(t) == LockLogger(t) \/ Send(t) \/ QueryDone(t) \/ NextRow(t) \/ Fetch(t)

Next == \/ \E t \in Threads : Call(t) \/ Step(t)
        \/ \E u \in Users : Acquire(u)
        \/ Take \/ Insert

Spec == Init /\ [][Next]_vars

\* Goroutines are scheduled and the database answers.  Waiting for a mutex, for
\* room in the channel or for a connection ends for one that could go on again
\* and again: mutex (starvation mode) and channel serve in order, and the pool
\* picks among its waiters at random.
FairSpec == /\ Spec
            /\ \A t \in Threads : WF_vars(Step(t)) /\ SF_vars(LockLogger(t)) /\ SF_vars(Send(t))
            /\ \A u \in Users : SF_vars(Acquire(u))
            /\ WF_vars(Take) /\ WF_vars(Insert)
----------------------------------------------------------------------------
Labels == {"idle", "lock", "send", "query", "rows", "fetch", "take", "insert"} \cup Asking

\* Those that hold no connection, one, and two.
HeldOK(u) == /\ pc[u] \in {"idle", "lock", "send", "take", "ask", "outer", "conn"} => held[u] = {}
             /\ pc[u] \in {"query", "rows", "inner", "insert"} => \E c \in Conns : held[u] = {c}
             /\ pc[u] = "fetch" => \E c, d \in Conns : c # d /\ held[u] = {c, d}

GoroutinesOK ==
  /\ pc \in [Users -> Labels] /\ held \in [Users -> SUBSET Conns]
  /\ logger \in [Threads -> Loggers \cup {None}]
  /\ entry \in [Threads -> 0..MaxEntries]
  /\ left \in [Threads -> Nat]
  /\ \A u \in Users : HeldOK(u)
  /\ \A t \in Threads : /\ pc[t] \in {"lock", "send"} <=> logger[t] # None
                        /\ pc[t] \in {"lock", "send"} <=> entry[t] # 0
                        /\ pc[t] \in {"inner", "fetch"} => left[t] > 0
                        /\ pc[t] \notin {"take", "conn", "insert"}
  /\ pc[Writer] \in {"take", "conn", "insert"}

LogOK ==
  /\ issued \in 0..MaxEntries
  /\ mutex \in [Loggers -> Threads \cup {None}]
  /\ channel \in Seq(1..MaxEntries) /\ Len(channel) <= Capacity
  /\ inflight \in Seq(1..MaxEntries) /\ table \in Seq(1..MaxEntries)
  /\ failed \subseteq 1..MaxEntries

\* Every variable has its type; a goroutine holds the connections of its label,
\* a mutex is held exactly by the goroutine that is writing through its logger,
\* and the writer has an entry exactly while it is storing it.
TypeOK == /\ GoroutinesOK /\ LogOK
          /\ \A g \in Loggers, t \in Threads : mutex[g] = t <=> pc[t] = "send" /\ logger[t] = g
          /\ IF pc[Writer] = "take" THEN inflight = <<>> ELSE Len(inflight) = 1

\* An entry that was written is in the channel, with the writer, in the table, or
\* its INSERT failed: waiting for a slow database loses nothing.
Known(e) == \/ \E t \in Threads : entry[t] = e
            \/ \E q \in {channel, inflight, table} : \E i \in DOMAIN q : q[i] = e
            \/ e \in failed
NothingLost == \A e \in 1..issued : Known(e)

\* The loggers, the channel and the writer are a bounded queue, whoever writes.
Queue == INSTANCE LogQueue WITH pending <- inflight \o channel, stored <- table,
                                Entries <- 1..MaxEntries, Limit <- Capacity + 1

\* Entries reach the table in the order they were accepted and at most once, and
\* the memory they occupy is bounded.
ImplementsQueue == Queue!Spec

\* u cannot go on until another goroutine does something.
Waiting(u) == \/ u \in Threads /\ pc[u] = "lock" /\ mutex[logger[u]] # None
              \/ u \in Threads /\ pc[u] = "send" /\ Len(channel) = Capacity
              \/ pc[u] \in Asking /\ Free = {}
              \/ pc[u] = "take" /\ channel = <<>>

\* Some calls are in progress and none of them can go on.
Stuck == /\ \E t \in Threads : pc[t] # "idle"
         /\ \A u \in Users : pc[u] = "idle" \/ Waiting(u)

\* The connection belongs to the outer query of a GetFirewallHosts that waits.
HeldByReader(c) == \E t \in Threads : pc[t] = "inner" /\ held[t] = {c}

\* Loggers, channel, writer and pool wait for each other in a circle, but that
\* alone never stops them: when nothing can go on, every connection is held by a
\* GetFirewallHosts that waits for a second one.
StuckByReadersOnly == Stuck => \A c \in Conns : HeldByReader(c)

\* As long as not all connections are held that way, every call returns.
CallsReturn ==
  [](\E c \in Conns : ~HeldByReader(c)) => \A t \in Threads : pc[t] # "idle" ~> pc[t] = "idle"
============================================================================
