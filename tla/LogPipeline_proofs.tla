------------------------- MODULE LogPipeline_proofs -------------------------
(***************************************************************************)
(* What holds of the shared loggers, channel and connections for any       *)
(* number of goroutines, loggers, connections and entries.                 *)
(***************************************************************************)
EXTENDS LogPipeline, TLAPS, SequenceTheorems

(***************************************************************************)
(* Type correctness.                                                       *)
(***************************************************************************)

\* The labels at which a goroutine asks for a connection.
LEMMA AskingLabels == Asking = {"ask", "outer", "inner", "conn"}
  BY DEF Asking, Granted

\* ... and what it goes on with.
LEMMA GrantedLabels ==
  /\ Granted["ask"] = "query" /\ Granted["outer"] = "rows"
  /\ Granted["inner"] = "fetch" /\ Granted["conn"] = "insert"
  BY DEF Granted

LEMMA TypeInit == Init => TypeOK
<1> SUFFICES ASSUME Init PROVE TypeOK
  OBVIOUS
<1> USE UserAssumption, SizeAssumption, NoneAssumption DEF Init
<1>1. \A u \in Users : pc[u] \in {"idle", "take"} /\ held[u] = {}
  OBVIOUS
<1>2. \A u \in Users : HeldOK(u)
  BY <1>1 DEF HeldOK
<1>3. GoroutinesOK
  BY <1>2 DEF GoroutinesOK, Users, Labels
<1>4. LogOK
  BY DEF LogOK
<1>5. QED
  BY <1>3, <1>4 DEF TypeOK, Users

\* A step of one goroutine that leaves the loggers, the channel and the table
\* alone keeps the types when it leaves the goroutine with the connections of its
\* new label.
LEMMA LocalStep ==
  ASSUME TypeOK, NEW t \in Threads, pc[t] \notin {"lock", "send"},
         Goto(t, pc'[t]), pc'[t] \in {"idle", "ask", "query", "outer", "rows", "inner", "fetch"},
         UNCHANGED <<logger, entry, log>>,
         held' = [held EXCEPT ![t] = held'[t]], held'[t] \in SUBSET Conns, HeldOK(t)',
         left' = [left EXCEPT ![t] = left'[t]], left'[t] \in Nat,
         pc'[t] \in {"inner", "fetch"} => left'[t] > 0
  PROVE  TypeOK'
<1>1. /\ t \in Users /\ Threads \subseteq Users /\ t # Writer /\ Writer \in Users
      /\ pc \in [Users -> Labels] /\ held \in [Users -> SUBSET Conns]
  BY UserAssumption DEF TypeOK, Users, GoroutinesOK
<1>2. pc'[t] \in Labels
  BY DEF Labels, Asking, Granted
<1>3. /\ pc' \in [Users -> Labels] /\ held' \in [Users -> SUBSET Conns]
      /\ \A u \in Users \ {t} : pc'[u] = pc[u] /\ held'[u] = held[u]
  BY <1>1, <1>2 DEF Goto
<1>4. \A u \in Users : HeldOK(u)'
  <2>1. \A u \in Users : HeldOK(u)
    BY DEF TypeOK, GoroutinesOK
  <2>2. \A u \in Users \ {t} : HeldOK(u)'
    BY <2>1, <1>3 DEF HeldOK
  <2>3. QED
    BY <2>2
<1>5. left' \in [Threads -> Nat] /\ \A s \in Threads \ {t} : left'[s] = left[s]
  BY DEF TypeOK, GoroutinesOK
<1>6. \A s \in Threads : /\ (pc[s] \in {"lock", "send"} <=> logger[s] # None)'
                        /\ (pc[s] \in {"lock", "send"} <=> entry[s] # 0)'
                        /\ (pc[s] \in {"inner", "fetch"} => left[s] > 0)'
                        /\ (pc[s] \notin {"take", "conn", "insert"})'
  BY <1>1, <1>3, <1>5 DEF TypeOK, GoroutinesOK
<1>7. GoroutinesOK'
  BY <1>1, <1>3, <1>4, <1>5, <1>6 DEF TypeOK, GoroutinesOK
<1>8. LogOK'
  BY DEF TypeOK, LogOK, log
<1>9. \A g \in Loggers, s \in Threads : (mutex[g] = s <=> pc[s] = "send" /\ logger[s] = g)'
  BY <1>1, <1>3 DEF TypeOK, log
<1>10. (IF pc[Writer] = "take" THEN inflight = <<>> ELSE Len(inflight) = 1)'
  BY <1>1, <1>3 DEF TypeOK, log
<1>11. QED
  BY <1>7, <1>8, <1>9, <1>10 DEF TypeOK

\* The steps of a call of the log package: only the caller's label, logger and
\* entry, the mutexes and the channel change.
LEMMA LoggingStep ==
  ASSUME TypeOK, NEW t \in Threads, pc[t] \in {"idle", "lock", "send"},
         Goto(t, pc'[t]), pc'[t] \in {"idle", "lock", "send"}, UNCHANGED <<held, left, inflight>>,
         logger' = [logger EXCEPT ![t] = logger'[t]], logger'[t] \in Loggers \cup {None},
         entry' = [entry EXCEPT ![t] = entry'[t]], entry'[t] \in 0..MaxEntries,
         pc'[t] = "idle" <=> logger'[t] = None, pc'[t] = "idle" <=> entry'[t] = 0, LogOK',
         \A m \in Loggers, s \in Threads : (mutex[m] = s <=> pc[s] = "send" /\ logger[s] = m)'
  PROVE  TypeOK'
<1>1. /\ t \in Users /\ Threads \subseteq Users /\ t # Writer /\ Writer \in Users
      /\ pc \in [Users -> Labels] /\ held \in [Users -> SUBSET Conns]
  BY UserAssumption DEF TypeOK, Users, GoroutinesOK
<1>2. pc'[t] \in Labels
  BY DEF Labels
<1>3. /\ pc' \in [Users -> Labels]
      /\ \A u \in Users \ {t} : pc'[u] = pc[u]
  BY <1>1, <1>2 DEF Goto
<1>4. held[t] = {}
  BY <1>1 DEF TypeOK, HeldOK, GoroutinesOK
<1>5. \A u \in Users : HeldOK(u)'
  BY <1>3, <1>4 DEF TypeOK, HeldOK, GoroutinesOK
<1>6. /\ logger' \in [Threads -> Loggers \cup {None}] /\ entry' \in [Threads -> 0..MaxEntries]
      /\ \A s \in Threads \ {t} : logger'[s] = logger[s] /\ entry'[s] = entry[s]
  <2>1. logger \in [Threads -> Loggers \cup {None}] /\ entry \in [Threads -> 0..MaxEntries]
    BY DEF TypeOK, GoroutinesOK
  <2>2. logger' \in [Threads -> Loggers \cup {None}]
    BY <2>1
  <2>3. entry' \in [Threads -> 0..MaxEntries]
    BY <2>1
  <2>4. \A s \in Threads \ {t} : logger'[s] = logger[s] /\ entry'[s] = entry[s]
    BY <2>1
  <2>5. QED
    BY <2>2, <2>3, <2>4
<1>7. \A s \in Threads : /\ (pc[s] \in {"lock", "send"} <=> logger[s] # None)'
                        /\ (pc[s] \in {"lock", "send"} <=> entry[s] # 0)'
                        /\ (pc[s] \in {"inner", "fetch"} => left[s] > 0)'
                        /\ (pc[s] \notin {"take", "conn", "insert"})'
  BY <1>1, <1>3, <1>6 DEF TypeOK, GoroutinesOK
<1>8. GoroutinesOK'
  BY <1>1, <1>3, <1>5, <1>6, <1>7 DEF TypeOK, GoroutinesOK
<1>9. (IF pc[Writer] = "take" THEN inflight = <<>> ELSE Len(inflight) = 1)'
  BY <1>1, <1>3 DEF TypeOK
<1>10. QED
  BY <1>8, <1>9 DEF TypeOK

\* A step of the writer.
LEMMA WriterStep ==
  ASSUME TypeOK, Goto(Writer, pc'[Writer]), pc'[Writer] \in {"take", "conn", "insert"},
         UNCHANGED <<logger, entry, left, mutex>>,
         held' = [held EXCEPT ![Writer] = held'[Writer]], held'[Writer] \in SUBSET Conns,
         HeldOK(Writer)', LogOK', (IF pc[Writer] = "take" THEN inflight = <<>> ELSE Len(inflight) = 1)'
  PROVE  TypeOK'
<1>1. /\ Threads \subseteq Users /\ Writer \notin Threads /\ Writer \in Users
      /\ pc \in [Users -> Labels] /\ held \in [Users -> SUBSET Conns]
  BY UserAssumption DEF TypeOK, Users, GoroutinesOK
<1>2. pc'[Writer] \in Labels
  BY DEF Labels, Asking, Granted
<1>3. /\ pc' \in [Users -> Labels] /\ held' \in [Users -> SUBSET Conns]
      /\ \A u \in Users \ {Writer} : pc'[u] = pc[u] /\ held'[u] = held[u]
  BY <1>1, <1>2 DEF Goto
<1>4. \A u \in Users : HeldOK(u)'
  <2>1. \A u \in Users : HeldOK(u)
    BY DEF TypeOK, GoroutinesOK
  <2>2. \A u \in Users \ {Writer} : HeldOK(u)'
    BY <2>1, <1>3 DEF HeldOK
  <2>3. QED
    BY <2>2
<1>5. \A s \in Threads : pc'[s] = pc[s]
  BY <1>1, <1>3
<1>6. GoroutinesOK'
  BY <1>1, <1>3, <1>4, <1>5 DEF TypeOK, GoroutinesOK
<1>7. \A g \in Loggers, s \in Threads : (mutex[g] = s <=> pc[s] = "send" /\ logger[s] = g)'
  BY <1>5 DEF TypeOK
<1>8. QED
  BY <1>6, <1>7 DEF TypeOK

\* A connection that the pool hands out was held by no one.
LEMMA AcquireType ==
  ASSUME TypeOK, NEW u \in Users, Acquire(u)
  PROVE  TypeOK'
<1>1. PICK c \in Free : held' = [held EXCEPT ![u] = @ \cup {c}]
  BY DEF Acquire
<1>2. c \in Conns /\ c \notin held[u] /\ held[u] \in SUBSET Conns
  BY <1>1 DEF TypeOK, Free, GoroutinesOK
<1>3. pc[u] \in {"ask", "outer", "inner", "conn"}
  BY AskingLabels DEF Acquire
<1>4. /\ Goto(u, Granted[pc[u]])
      /\ UNCHANGED <<logger, entry, left, log>>
  BY DEF Acquire
<1>5. pc'[u] = Granted[pc[u]] /\ held'[u] = held[u] \cup {c}
  BY <1>1, <1>4 DEF TypeOK, Goto, GoroutinesOK
<1>6. HeldOK(u)'
  <2>1. CASE pc[u] = "inner"
    <3>1. PICK d \in Conns : held[u] = {d}
      BY <2>1 DEF TypeOK, HeldOK, GoroutinesOK
    <3>2. d # c /\ held'[u] = {d, c}
      BY <3>1, <1>2, <1>5
    <3>3. pc'[u] = "fetch"
      BY <2>1, <1>5, GrantedLabels
    <3>4. QED
      BY <3>2, <3>3, <1>2 DEF HeldOK
  <2>2. CASE pc[u] # "inner"
    <3>1. held[u] = {}
      BY <2>2, <1>3 DEF TypeOK, HeldOK, GoroutinesOK
    <3>2. held'[u] = {c}
      BY <3>1, <1>5
    <3>3. pc'[u] \in {"query", "rows", "insert"}
      BY <2>2, <1>3, <1>5, GrantedLabels
    <3>4. QED
      BY <3>2, <3>3, <1>2 DEF HeldOK
  <2>3. QED
    BY <2>1, <2>2
<1>7. CASE u = Writer
  <2>1. pc[u] = "conn"
    BY <1>3, <1>7 DEF TypeOK, GoroutinesOK
  <2>2. Granted[pc[u]] = "insert"
    BY <2>1, GrantedLabels
  <2>3. LogOK' /\ UNCHANGED <<inflight, mutex>> /\ Len(inflight) = 1
    BY <1>4, <1>7, <2>1 DEF TypeOK, LogOK, log
  <2>4. pc'[u] = "insert" /\ Goto(u, pc'[u])
    BY <1>4, <1>5, <2>2
  <2>5. held' = [held EXCEPT ![u] = held'[u]] /\ held'[u] \in SUBSET Conns
    BY <1>1, <1>2, <1>5
  <2>6. QED
    BY <1>4, <1>6, <1>7, <2>3, <2>4, <2>5, WriterStep
<1>8. CASE u \in Threads
  <2>1. pc[u] \in {"ask", "outer", "inner"}
    BY <1>3, <1>8 DEF TypeOK, GoroutinesOK
  <2>2. Granted[pc[u]] \in {"query", "rows", "fetch"} /\ pc[u] \notin {"lock", "send"}
    BY <2>1, GrantedLabels
  <2>3. left[u] \in Nat /\ left' = [left EXCEPT ![u] = left[u]]
    BY <1>4, <1>8 DEF TypeOK, GoroutinesOK
  <2>4. Granted[pc[u]] \in {"inner", "fetch"} => left[u] > 0
    BY <2>1, GrantedLabels, <1>8 DEF TypeOK, GoroutinesOK
  <2>5. held' = [held EXCEPT ![u] = held'[u]] /\ held'[u] \in SUBSET Conns
    BY <1>1, <1>2, <1>5
  <2>6. /\ pc'[u] \in {"query", "rows", "fetch"} /\ Goto(u, pc'[u])
        /\ left' = [left EXCEPT ![u] = left'[u]] /\ left'[u] \in Nat
        /\ pc'[u] \in {"inner", "fetch"} => left'[u] > 0
    BY <1>4, <1>5, <2>2, <2>3, <2>4
  <2>7. QED
    BY <1>4, <1>6, <1>8, <2>2, <2>5, <2>6, LocalStep
<1>9. QED
  BY <1>7, <1>8 DEF Users

LEMMA CallType ==
  ASSUME TypeOK, NEW t \in Threads, Call(t)
  PROVE  TypeOK'
<1>1. /\ t \in Users /\ held[t] \in SUBSET Conns /\ left[t] \in Nat
      /\ held = [held EXCEPT ![t] = held[t]] /\ left = [left EXCEPT ![t] = left[t]]
  BY DEF TypeOK, GoroutinesOK, Users
<1>2. pc[t] = "idle" /\ held[t] = {}
  BY <1>1 DEF TypeOK, Call, CallLog, CallQuery, CallFirewallHosts, HeldOK, GoroutinesOK
<1>3. CASE CallLog(t)
  <2>1. PICK g \in Loggers : logger' = [logger EXCEPT ![t] = g]
    BY <1>3 DEF CallLog
  <2>2. issued + 1 \in 0..MaxEntries /\ issued + 1 # 0
    BY <1>3, SizeAssumption DEF TypeOK, CallLog, LogOK
  <2>3. LogOK'
    BY <1>3, <2>2 DEF TypeOK, CallLog, LogOK
  <2>5. \A m \in Loggers, s \in Threads : (mutex[m] = s <=> pc[s] = "send" /\ logger[s] = m)'
    BY <1>2, <1>3, <2>1 DEF TypeOK, CallLog, Goto, GoroutinesOK, Users
  <2>4. /\ pc'[t] = "lock" /\ Goto(t, pc'[t]) /\ UNCHANGED <<held, left, inflight>>
        /\ logger' = [logger EXCEPT ![t] = logger'[t]] /\ logger'[t] \in Loggers
        /\ entry' = [entry EXCEPT ![t] = entry'[t]] /\ entry'[t] = issued + 1
    BY <1>1, <1>3, <2>1 DEF CallLog, Goto, TypeOK, GoroutinesOK
  <2>6. logger'[t] # None
    BY <2>4, NoneAssumption
  <2>7. QED
    BY <1>2, <2>2, <2>3, <2>4, <2>5, <2>6, LoggingStep
<1>4. CASE CallQuery(t)
  <2>1. Goto(t, "ask") /\ UNCHANGED <<held, logger, entry, left, log>>
    BY <1>4 DEF CallQuery, locals
  <2>2. HeldOK(t)'
    BY <2>1, <1>1, <1>2 DEF TypeOK, HeldOK, Goto, GoroutinesOK
  <2>3. held' = [held EXCEPT ![t] = held[t]] /\ left' = [left EXCEPT ![t] = left[t]]
    BY <2>1, <1>1
  <2>4. pc'[t] = "ask" /\ Goto(t, pc'[t]) /\ held'[t] = held[t] /\ left'[t] = left[t]
    BY <1>1, <2>1 DEF Goto, TypeOK, GoroutinesOK
  <2>5. QED
    BY <1>1, <1>2, <2>1, <2>2, <2>3, <2>4, LocalStep
<1>5. CASE CallFirewallHosts(t)
  <2>1. PICK hosts \in 0..MaxHosts : left' = [left EXCEPT ![t] = 2 * hosts]
    BY <1>5 DEF CallFirewallHosts
  <2>2. 2 * hosts \in Nat
    BY SizeAssumption
  <2>3. Goto(t, "outer") /\ UNCHANGED <<held, logger, entry, log>>
    BY <1>5 DEF CallFirewallHosts
  <2>4. HeldOK(t)'
    BY <2>3, <1>1, <1>2 DEF TypeOK, HeldOK, Goto, GoroutinesOK
  <2>5. held' = [held EXCEPT ![t] = held[t]]
    BY <2>3, <1>1
  <2>6. /\ pc'[t] = "outer" /\ Goto(t, pc'[t]) /\ held'[t] = held[t]
        /\ left' = [left EXCEPT ![t] = left'[t]] /\ left'[t] \in Nat
    BY <1>1, <2>1, <2>2, <2>3 DEF Goto, TypeOK, GoroutinesOK
  <2>7. QED
    BY <1>1, <1>2, <2>3, <2>4, <2>5, <2>6, LocalStep
<1>6. QED
  BY <1>3, <1>4, <1>5 DEF Call

LEMMA StepType ==
  ASSUME TypeOK, NEW t \in Threads, Step(t)
  PROVE  TypeOK'
<1>1. /\ t \in Users /\ held[t] \in SUBSET Conns /\ left[t] \in Nat
      /\ pc \in [Users -> Labels] /\ Threads \subseteq Users
      /\ held \in [Users -> SUBSET Conns] /\ left \in [Threads -> Nat]
      /\ logger \in [Threads -> Loggers \cup {None}] /\ entry \in [Threads -> 0..MaxEntries]
      /\ held = [held EXCEPT ![t] = held[t]] /\ left = [left EXCEPT ![t] = left[t]]
  BY DEF TypeOK, GoroutinesOK, Users
<1>2. CASE LockLogger(t)
  <2>1. /\ pc[t] = "lock" /\ logger[t] # None /\ entry[t] # 0 /\ mutex[logger[t]] = None
        /\ logger[t] \in Loggers /\ entry[t] \in 0..MaxEntries
    BY <1>1, <1>2 DEF TypeOK, LockLogger, GoroutinesOK
  <2>2. /\ Goto(t, "send") /\ mutex' = [mutex EXCEPT ![logger[t]] = t]
        /\ UNCHANGED <<held, logger, entry, left, issued, channel, inflight, table, failed>>
    BY <1>2 DEF LockLogger, locals
  <2>3. LogOK'
    BY <2>1, <2>2 DEF TypeOK, LogOK
  <2>4. /\ pc'[t] = "send" /\ Goto(t, pc'[t])
        /\ \A s \in Threads \ {t} : pc'[s] = pc[s]
        /\ mutex'[logger[t]] = t /\ \A m \in Loggers \ {logger[t]} : mutex'[m] = mutex[m]
    BY <1>1, <2>1, <2>2 DEF Goto, TypeOK, LogOK
  <2>5. ASSUME NEW m \in Loggers, NEW s \in Threads
        PROVE  (mutex[m] = s <=> pc[s] = "send" /\ logger[s] = m)'
    <3>1. mutex[m] = s <=> pc[s] = "send" /\ logger[s] = m
      BY DEF TypeOK
    <3>2. None # s
      BY NoneAssumption
    <3>3. CASE m = logger[t]
      BY <2>1, <2>2, <2>4, <3>1, <3>2, <3>3
    <3>4. CASE m # logger[t]
      BY <2>1, <2>2, <2>4, <3>1, <3>4
    <3>5. QED
      BY <3>3, <3>4
  <2>6. logger' = [logger EXCEPT ![t] = logger'[t]] /\ entry' = [entry EXCEPT ![t] = entry'[t]]
    BY <1>1, <2>2
  <2>7. QED
    BY <2>1, <2>2, <2>3, <2>4, <2>5, <2>6, LoggingStep
<1>3. CASE Send(t)
  <2>1. /\ pc[t] = "send" /\ logger[t] \in Loggers /\ mutex[logger[t]] = t
        /\ entry[t] \in 1..MaxEntries
    BY <1>1, <1>3 DEF TypeOK, Send, GoroutinesOK
  <2>2. /\ Goto(t, "idle") /\ mutex' = [mutex EXCEPT ![logger[t]] = None]
        /\ logger' = [logger EXCEPT ![t] = None] /\ entry' = [entry EXCEPT ![t] = 0]
        /\ Len(channel) < Capacity /\ channel' = Append(channel, entry[t])
        /\ UNCHANGED <<held, left, issued, inflight, table, failed>>
    BY <1>3 DEF Send, Written
  <2>3. LogOK'
    BY <2>1, <2>2, SizeAssumption DEF TypeOK, LogOK
  <2>4. \A m \in Loggers, s \in Threads : (mutex[m] = s <=> pc[s] = "send" /\ logger[s] = m)'
    BY <1>1, <2>1, <2>2, NoneAssumption DEF TypeOK, Goto, LogOK
  <2>5. /\ pc'[t] = "idle" /\ Goto(t, pc'[t]) /\ logger'[t] = None /\ entry'[t] = 0
        /\ logger' = [logger EXCEPT ![t] = logger'[t]]
        /\ entry' = [entry EXCEPT ![t] = entry'[t]]
    BY <1>1, <2>2 DEF Goto
  <2>6. logger'[t] \in Loggers \cup {None} /\ entry'[t] \in 0..MaxEntries
    BY <2>5, SizeAssumption
  <2>7. QED
    BY <2>1, <2>2, <2>3, <2>4, <2>5, <2>6, LoggingStep
<1>4. CASE QueryDone(t)
  <2>1. /\ pc[t] = "query" /\ Goto(t, "idle") /\ held' = [held EXCEPT ![t] = {}]
        /\ UNCHANGED <<logger, entry, left, log>>
    BY <1>4 DEF QueryDone
  <2>2. HeldOK(t)'
    BY <1>1, <2>1 DEF HeldOK, Goto
  <2>3. left' = [left EXCEPT ![t] = left[t]]
    BY <1>1, <2>1
  <2>4. /\ pc'[t] = "idle" /\ Goto(t, pc'[t]) /\ left'[t] = left[t]
        /\ held'[t] = {} /\ held' = [held EXCEPT ![t] = held'[t]]
    BY <1>1, <2>1 DEF Goto
  <2>5. QED
    BY <1>1, <2>1, <2>2, <2>3, <2>4, LocalStep
<1>5. CASE NextRow(t)
  <2>1. pc[t] = "rows" /\ UNCHANGED <<logger, entry, left, log>>
    BY <1>5 DEF NextRow
  <2>2. left' = [left EXCEPT ![t] = left[t]]
    BY <1>1, <2>1
  <2>3. CASE left[t] > 0
    <3>1. Goto(t, "inner") /\ UNCHANGED held
      BY <1>5, <2>3 DEF NextRow
    <3>2. HeldOK(t)'
      BY <1>1, <2>1, <3>1 DEF TypeOK, HeldOK, Goto, GoroutinesOK
    <3>3. held' = [held EXCEPT ![t] = held[t]]
      BY <1>1, <3>1
    <3>4. pc'[t] = "inner" /\ Goto(t, pc'[t]) /\ left'[t] = left[t] /\ held'[t] = held[t]
      BY <1>1, <2>1, <3>1 DEF Goto
    <3>5. QED
      BY <1>1, <2>1, <2>2, <2>3, <3>2, <3>3, <3>4, LocalStep
  <2>4. CASE ~(left[t] > 0)
    <3>1. Goto(t, "idle") /\ held' = [held EXCEPT ![t] = {}]
      BY <1>5, <2>4 DEF NextRow
    <3>2. HeldOK(t)'
      BY <1>1, <3>1 DEF HeldOK, Goto
    <3>3. /\ pc'[t] = "idle" /\ Goto(t, pc'[t]) /\ left'[t] = left[t]
          /\ held'[t] = {} /\ held' = [held EXCEPT ![t] = held'[t]]
      BY <1>1, <2>1, <3>1 DEF Goto
    <3>4. QED
      BY <1>1, <2>1, <2>2, <3>2, <3>3, LocalStep
  <2>5. QED
    BY <2>3, <2>4
<1>6. CASE Fetch(t)
  <2>1. PICK c \in held[t] : held' = [held EXCEPT ![t] = @ \ {c}]
    BY <1>6 DEF Fetch
  <2>2. /\ pc[t] = "fetch" /\ Goto(t, "rows") /\ left' = [left EXCEPT ![t] = left[t] - 1]
        /\ UNCHANGED <<logger, entry, log>>
    BY <1>6 DEF Fetch
  <2>3. PICK a, b \in Conns : a # b /\ held[t] = {a, b}
    BY <1>1, <2>2 DEF TypeOK, HeldOK, GoroutinesOK
  <2>4. \E d \in Conns : held[t] \ {c} = {d}
    <3>1. CASE c = a
      BY <2>3, <3>1
    <3>2. CASE c = b
      BY <2>3, <3>2
    <3>3. QED
      BY <2>1, <2>3, <3>1, <3>2
  <2>5. HeldOK(t)'
    BY <1>1, <2>1, <2>2, <2>4 DEF HeldOK, Goto
  <2>6. left[t] - 1 \in Nat
    BY <1>1, <2>2 DEF TypeOK, GoroutinesOK
  <2>7. held[t] \ {c} \in SUBSET Conns /\ held' = [held EXCEPT ![t] = held[t] \ {c}]
    BY <1>1, <2>1
  <2>8. /\ pc'[t] = "rows" /\ Goto(t, pc'[t])
        /\ held' = [held EXCEPT ![t] = held'[t]] /\ held'[t] \in SUBSET Conns
        /\ left' = [left EXCEPT ![t] = left'[t]] /\ left'[t] \in Nat
    BY <1>1, <2>2, <2>6, <2>7 DEF Goto
  <2>9. QED
    BY <2>2, <2>5, <2>8, LocalStep
<1>7. QED
  BY <1>2, <1>3, <1>4, <1>5, <1>6 DEF Step

\* The type invariant is inductive.
LEMMA TypeStep == TypeOK /\ [Next]_vars => TypeOK'
<1> SUFFICES ASSUME TypeOK, [Next]_vars PROVE TypeOK'
  OBVIOUS
<1>1. ASSUME NEW t \in Threads, Call(t) \/ Step(t) PROVE TypeOK'
  BY <1>1, CallType, StepType
<1>2. Writer \in Users /\ held[Writer] \in SUBSET Conns
  BY DEF TypeOK, Users, GoroutinesOK
<1>3. CASE Take
  <2>1. /\ pc[Writer] = "take" /\ channel # <<>> /\ Goto(Writer, "conn")
        /\ inflight' = <<Head(channel)>> /\ channel' = Tail(channel)
        /\ UNCHANGED <<held, logger, entry, left, issued, mutex, table, failed>>
    BY <1>3 DEF Take, locals
  <2>2. Head(channel) \in 1..MaxEntries /\ Tail(channel) \in Seq(1..MaxEntries)
        /\ Len(Tail(channel)) <= Capacity
    BY <2>1, SizeAssumption DEF TypeOK, LogOK
  <2>3. LogOK' /\ Len(inflight') = 1
    BY <2>1, <2>2 DEF TypeOK, LogOK
  <2>4. HeldOK(Writer)'
    BY <1>2, <2>1 DEF TypeOK, HeldOK, Goto, GoroutinesOK
  <2>5. held' = [held EXCEPT ![Writer] = held[Writer]]
    BY <1>2, <2>1 DEF TypeOK, GoroutinesOK
  <2>6. pc'[Writer] = "conn" /\ Goto(Writer, pc'[Writer]) /\ held'[Writer] = held[Writer]
    BY <1>2, <2>1 DEF Goto, TypeOK, GoroutinesOK
  <2>7. QED
    BY <1>2, <2>1, <2>3, <2>4, <2>5, <2>6, WriterStep
<1>4. CASE Insert
  <2>1. /\ pc[Writer] = "insert" /\ Goto(Writer, "take") /\ held' = [held EXCEPT ![Writer] = {}]
        /\ inflight' = <<>> /\ UNCHANGED <<logger, entry, left, issued, mutex, channel>>
        /\ \/ table' = table \o inflight /\ UNCHANGED failed
           \/ failed' = failed \cup {Head(inflight)} /\ UNCHANGED table
    BY <1>4 DEF Insert
  <2>2. Len(inflight) = 1
    BY <2>1 DEF TypeOK
  <2>3. inflight \in Seq(1..MaxEntries) /\ table \in Seq(1..MaxEntries)
    BY DEF TypeOK, LogOK
  <2>4. Head(inflight) \in 1..MaxEntries /\ table \o inflight \in Seq(1..MaxEntries)
    <3>1. inflight # <<>>
      BY <2>2
    <3>2. Head(inflight) \in 1..MaxEntries
      BY <2>3, <3>1, HeadTailProperties
    <3>3. table \o inflight \in Seq(1..MaxEntries)
      BY <2>3
    <3>4. QED
      BY <3>2, <3>3
  <2>5. LogOK'
    <3>1. table' \in Seq(1..MaxEntries)
      BY <2>1, <2>3, <2>4
    <3>2. failed' \subseteq 1..MaxEntries
      <4>1. failed \subseteq 1..MaxEntries
        BY DEF TypeOK, LogOK
      <4>2. \A x \in failed' : x \in failed \/ x = Head(inflight)
        BY <2>1
      <4>3. QED
        BY <2>4, <4>1, <4>2
    <3>3. inflight' \in Seq(1..MaxEntries)
      BY <2>1
    <3>4. QED
      BY <2>1, <3>1, <3>2, <3>3 DEF TypeOK, LogOK
  <2>6. HeldOK(Writer)'
    BY <1>2, <2>1 DEF TypeOK, HeldOK, Goto, GoroutinesOK
  <2>7. /\ pc'[Writer] = "take" /\ Goto(Writer, pc'[Writer])
        /\ held'[Writer] = {} /\ held' = [held EXCEPT ![Writer] = held'[Writer]]
    BY <1>2, <2>1 DEF Goto, TypeOK, GoroutinesOK
  <2>8. QED
    BY <2>1, <2>5, <2>6, <2>7, WriterStep
<1>5. CASE UNCHANGED vars
  BY <1>5 DEF TypeOK, vars, locals, log, GoroutinesOK, LogOK, HeldOK
<1>6. QED
  BY <1>1, <1>3, <1>4, <1>5, AcquireType DEF Next

\* Every variable has its type; a goroutine holds the connections of its label,
\* a mutex is held exactly by the goroutine that is writing through its logger.
THEOREM TypeCorrect == Spec => []TypeOK
  BY TypeInit, TypeStep, PTL DEF Spec

(***************************************************************************)
(* What can stop: only readers that wait for a second connection.          *)
(***************************************************************************)

\* A goroutine that waits for a mutex waits for one that waits for room.
LEMMA MutexWait ==
  ASSUME TypeOK, Stuck, NEW t \in Threads, pc[t] = "lock"
  PROVE  Len(channel) = Capacity
<1>1. Threads \subseteq Users /\ Writer \notin Threads
  BY UserAssumption DEF Users
<1>2. logger[t] \in Loggers
  BY DEF TypeOK, GoroutinesOK
<1>3. mutex[logger[t]] # None
  BY <1>1, AskingLabels DEF Stuck, Waiting
<1>4. PICK s \in Threads : mutex[logger[t]] = s
  BY <1>2, <1>3 DEF TypeOK, LogOK
<1>5. pc[s] = "send"
  BY <1>2, <1>4 DEF TypeOK
<1>6. QED
  BY <1>1, <1>5, AskingLabels DEF Stuck, Waiting

\* With a free connection the writer would make room, and all would go on.
LEMMA StuckFree ==
  ASSUME TypeOK, Stuck
  PROVE  Free = {}
<1> SUFFICES ASSUME Free # {} PROVE FALSE
  OBVIOUS
<1>1. Threads \subseteq Users /\ Writer \in Users
  BY DEF Users
<1>2. channel = <<>>
  <2>1. pc[Writer] \in {"take", "conn", "insert"}
    BY DEF TypeOK, GoroutinesOK
  <2>2. QED
    BY <1>1, <2>1, UserAssumption, AskingLabels DEF Stuck, Waiting
<1>3. Len(channel) # Capacity
  BY <1>2, SizeAssumption
<1>4. PICK t \in Threads : pc[t] # "idle"
  BY DEF Stuck
<1>5. pc[t] # "take"
  BY DEF TypeOK, GoroutinesOK
<1>6. pc[t] # "lock"
  BY <1>3, MutexWait
<1>7. QED
  BY <1>1, <1>3, <1>4, <1>5, <1>6 DEF Stuck, Waiting

LEMMA StuckHeld == TypeOK => StuckByReadersOnly
<1> SUFFICES ASSUME TypeOK, Stuck, NEW c \in Conns PROVE HeldByReader(c)
  BY DEF StuckByReadersOnly
<1>1. PICK u \in Users : c \in held[u]
  BY StuckFree DEF Free
<1>2. HeldOK(u)
  BY DEF TypeOK, GoroutinesOK
<1>3. pc[u] = "inner"
  BY <1>1, <1>2, AskingLabels DEF Stuck, Waiting, HeldOK
<1>4. u \in Threads
  BY <1>3 DEF TypeOK, GoroutinesOK, Users
<1>5. held[u] = {c}
  BY <1>1, <1>2, <1>3 DEF HeldOK
<1>6. QED
  BY <1>3, <1>4, <1>5 DEF HeldByReader

\* When no call can go on, every connection is held by a GetFirewallHosts that
\* waits for its second one: the loggers, the channel and the writer alone never
\* stop each other, whatever their number and the size of the pool.
THEOREM OnlyReadersStop == Spec => []StuckByReadersOnly
  BY TypeCorrect, StuckHeld, PTL

(***************************************************************************)
(* The queue.                                                              *)
(***************************************************************************)

LEMMA QueueInit == Init => Queue!Init
<1> SUFFICES ASSUME Init PROVE Queue!Init
  OBVIOUS
<1>1. <<>> \o <<>> = <<>>
  OBVIOUS
<1>2. QED
  BY <1>1 DEF Init, Queue!Init

\* An accepted entry is put behind all others.
LEMMA SendAccepts ==
  ASSUME TypeOK, NEW t \in Threads, Send(t)
  PROVE  Queue!Accept(entry[t]) /\ entry[t] \in 1..MaxEntries
<1>1. inflight \in Seq(1..MaxEntries) /\ channel \in Seq(1..MaxEntries)
  BY DEF TypeOK, LogOK
<1>2. Len(inflight) = 0 \/ Len(inflight) = 1
  BY DEF TypeOK
<1>3. /\ pc[t] = "send" /\ Len(channel) < Capacity
      /\ channel' = Append(channel, entry[t]) /\ UNCHANGED <<inflight, table>>
  BY DEF Send
<1>4. entry[t] \in 1..MaxEntries
  BY <1>3 DEF TypeOK, GoroutinesOK
<1>5. Len(inflight \o channel) < Capacity + 1
  <2>1. Len(inflight \o channel) = Len(inflight) + Len(channel)
    BY <1>1, ConcatProperties
  <2>2. Len(channel) \in Nat /\ Capacity \in Nat /\ Len(channel) < Capacity
    BY <1>1, <1>3, SizeAssumption, LenProperties
  <2>3. CASE Len(inflight) = 0
    BY <2>1, <2>2, <2>3
  <2>4. CASE Len(inflight) = 1
    BY <2>1, <2>2, <2>4
  <2>5. QED
    BY <1>2, <2>3, <2>4
<1>6. inflight' \o channel' = Append(inflight \o channel, entry[t])
  BY <1>1, <1>3, <1>4
<1>7. QED
  BY <1>3, <1>4, <1>5, <1>6 DEF Queue!Accept

\* The writer's entry is the oldest: taking it is no step of the queue ...
LEMMA TakeStutters ==
  ASSUME TypeOK, Take
  PROVE  UNCHANGED <<inflight \o channel, table>>
<1>1. /\ inflight = <<>> /\ channel # <<>> /\ inflight' = <<Head(channel)>>
      /\ channel' = Tail(channel) /\ UNCHANGED table
  BY DEF Take, TypeOK
<1>2. channel \in Seq(1..MaxEntries)
  BY DEF TypeOK, LogOK
<1>3. inflight \o channel = channel
  BY <1>1, <1>2
<1>4. <<Head(channel)>> \o Tail(channel) = channel
  BY <1>1, <1>2
<1>5. QED
  BY <1>1, <1>3, <1>4

\* ... and storing or losing it settles it.
LEMMA InsertSettles ==
  ASSUME TypeOK, Insert
  PROVE  Queue!Settle
<1>1. inflight \in Seq(1..MaxEntries) /\ channel \in Seq(1..MaxEntries) /\ table \in Seq(1..MaxEntries)
  BY DEF TypeOK, LogOK
<1>2. /\ pc[Writer] = "insert" /\ inflight' = <<>> /\ UNCHANGED channel
      /\ table' \in {table, table \o inflight}
  BY DEF Insert
<1>3. Len(inflight) = 1
  BY <1>2 DEF TypeOK
<1>4. DEFINE e == inflight[1]
<1>5. e \in 1..MaxEntries /\ inflight = <<e>>
  <2>1. e \in 1..MaxEntries
    <3>1. 1 \in 1..Len(inflight)
      BY <1>3
    <3>2. QED
      BY <1>1, <3>1, ElementOfSeq
  <2>2. inflight = [i \in 1..1 |-> inflight[i]]
    BY <1>1, <1>3, IsASeq, LenProperties
  <2>3. QED
    BY <2>1, <2>2
<1> HIDE DEF e
<1>6. inflight \o channel # <<>> /\ Head(inflight \o channel) = e
  BY <1>1, <1>5
<1>7. Tail(inflight \o channel) = channel
  BY <1>1, <1>5
<1>8. inflight' \o channel' = channel
  BY <1>1, <1>2
<1>9. table \o inflight = Append(table, e)
  BY <1>1, <1>5
<1>10. QED
  BY <1>2, <1>6, <1>7, <1>8, <1>9 DEF Queue!Settle

LEMMA QueueStep == TypeOK /\ [Next]_vars => [Queue!Next]_(Queue!queue)
<1> SUFFICES ASSUME TypeOK, [Next]_vars PROVE Queue!Next \/ UNCHANGED <<inflight \o channel, table>>
  BY DEF Queue!queue
<1>1. ASSUME NEW t \in Threads, Send(t) PROVE Queue!Next
  BY <1>1, SendAccepts DEF Queue!Next
<1>2. CASE Insert
  BY <1>2, InsertSettles DEF Queue!Next
<1>3. CASE Take
  BY <1>3, TakeStutters
<1>4. ASSUME NEW t \in Threads, Call(t) \/ LockLogger(t) \/ QueryDone(t) \/ NextRow(t) \/ Fetch(t)
      PROVE  UNCHANGED <<inflight, channel, table>>
  BY <1>4 DEF Call, CallLog, CallQuery, CallFirewallHosts, LockLogger, QueryDone, NextRow, Fetch, log
<1>5. ASSUME NEW u \in Users, Acquire(u) PROVE UNCHANGED <<inflight, channel, table>>
  BY <1>5 DEF Acquire, log
<1>6. CASE UNCHANGED vars
  BY <1>6 DEF vars, log
<1>7. QED
  BY <1>1, <1>2, <1>3, <1>4, <1>5, <1>6 DEF Next, Step

\* Loggers, channel and writer implement the bounded queue, for any number of
\* goroutines and any capacity: entries are settled in the order in which they
\* were accepted, and each is stored at most once.
THEOREM QueueImplemented == Spec => ImplementsQueue
<1>1. TypeOK /\ TypeOK' /\ [Next]_vars => [Queue!Next]_(Queue!queue)
  BY QueueStep
<1>2. QED
  BY <1>1, QueueInit, TypeCorrect, PTL DEF Spec, ImplementsQueue, Queue!Spec

(***************************************************************************)
(* No entry is lost without a failed INSERT.                               *)
(***************************************************************************)

Has(q, e) == \E i \in DOMAIN q : q[i] = e

LEMMA HasAppend ==
  ASSUME NEW S, NEW q \in Seq(S), NEW x \in S, NEW e, Has(q, e) \/ e = x
  PROVE  Has(Append(q, x), e)
<1>1. /\ DOMAIN Append(q, x) = 1..(Len(q) + 1) /\ Len(q) \in Nat /\ DOMAIN q = 1..Len(q)
      /\ Append(q, x)[Len(q) + 1] = x
      /\ \A i \in 1..Len(q) : Append(q, x)[i] = q[i]
  BY AppendProperties, LenProperties
<1>2. QED
  BY <1>1 DEF Has

LEMMA HasTail ==
  ASSUME NEW S, NEW q \in Seq(S), q # <<>>, NEW e, Has(q, e)
  PROVE  e = Head(q) \/ Has(Tail(q), e)
<1>1. PICK i \in DOMAIN q : q[i] = e
  BY DEF Has
<1>2. /\ Len(q) \in Nat /\ i \in 1..Len(q) /\ Head(q) = q[1]
      /\ DOMAIN Tail(q) = 1..(Len(q) - 1) /\ \A j \in 1..(Len(q) - 1) : Tail(q)[j] = q[j + 1]
  BY LenProperties
<1>3. CASE i = 1
  BY <1>1, <1>2, <1>3
<1>4. CASE i # 1
  <2>1. i - 1 \in 1..(Len(q) - 1)
    BY <1>2, <1>4
  <2>2. Tail(q)[i - 1] = e
    BY <1>1, <1>2, <2>1
  <2>3. QED
    BY <1>2, <2>1, <2>2 DEF Has
<1>5. QED
  BY <1>3, <1>4

LEMMA HasConcat ==
  ASSUME NEW S, NEW q \in Seq(S), NEW r \in Seq(S), NEW e, Has(q, e) \/ Has(r, e)
  PROVE  Has(q \o r, e)
<1>1. /\ DOMAIN (q \o r) = 1..(Len(q) + Len(r)) /\ Len(q) \in Nat /\ Len(r) \in Nat
      /\ DOMAIN q = 1..Len(q) /\ DOMAIN r = 1..Len(r)
      /\ \A i \in 1..Len(q) : (q \o r)[i] = q[i]
      /\ \A i \in 1..Len(r) : (q \o r)[Len(q) + i] = r[i]
  BY ConcatProperties, LenProperties
<1>2. CASE Has(q, e)
  BY <1>1, <1>2 DEF Has
<1>3. CASE Has(r, e)
  <2>1. PICK i \in 1..Len(r) : r[i] = e
    BY <1>1, <1>3 DEF Has
  <2>2. Len(q) + i \in 1..(Len(q) + Len(r))
    BY <1>1
  <2>3. QED
    BY <1>1, <2>1, <2>2 DEF Has
<1>4. QED
  BY <1>2, <1>3

\* Known, with the three sequences one by one.
LEMMA KnownHas ==
  \A e : Known(e) <=> \/ \E t \in Threads : entry[t] = e
                     \/ Has(channel, e) \/ Has(inflight, e) \/ Has(table, e)
                     \/ e \in failed
  BY DEF Known, Has

LEMMA LostStep ==
  ASSUME TypeOK, NothingLost, [Next]_vars
  PROVE  NothingLost'
<1> SUFFICES ASSUME NEW e \in 1..(issued') PROVE Known(e)'
  BY DEF NothingLost
<1>1. /\ channel \in Seq(1..MaxEntries) /\ inflight \in Seq(1..MaxEntries)
      /\ table \in Seq(1..MaxEntries) /\ issued \in Nat
      /\ entry \in [Threads -> 0..MaxEntries]
  BY DEF TypeOK, LogOK, GoroutinesOK
<1>2. \/ \E t \in Threads : entry'[t] = e
      \/ Has(channel', e) \/ Has(inflight', e) \/ Has(table', e)
      \/ e \in failed'
      => Known(e)'
  BY DEF Known, Has
<1>3. e \in 1..issued => \/ \E t \in Threads : entry[t] = e
                        \/ Has(channel, e) \/ Has(inflight, e) \/ Has(table, e)
                        \/ e \in failed
  BY KnownHas DEF NothingLost
<1>4. ASSUME NEW t \in Threads, CallLog(t) PROVE Known(e)'
  <2>1. /\ pc[t] = "idle" /\ issued' = issued + 1 /\ entry' = [entry EXCEPT ![t] = issued + 1]
        /\ UNCHANGED <<channel, inflight, table, failed>>
    BY <1>4 DEF CallLog
  <2>2. entry[t] = 0
    BY <2>1 DEF TypeOK, GoroutinesOK
  <2>3. CASE e = issued + 1
    BY <1>1, <1>2, <2>1, <2>3
  <2>4. CASE e # issued + 1
    <3>1. e \in 1..issued
      BY <1>1, <2>1, <2>4
    <3>2. \A s \in Threads : entry[s] = e => entry'[s] = e
      BY <1>1, <2>1, <2>2
    <3>3. QED
      BY <1>2, <1>3, <2>1, <3>1, <3>2
  <2>5. QED
    BY <2>3, <2>4
<1>5. ASSUME NEW t \in Threads, Send(t) PROVE Known(e)'
  <2>1. /\ pc[t] = "send" /\ channel' = Append(channel, entry[t])
        /\ entry' = [entry EXCEPT ![t] = 0] /\ UNCHANGED <<issued, inflight, table, failed>>
    BY <1>5 DEF Send, Written
  <2>2. entry[t] \in 1..MaxEntries
    BY <2>1 DEF TypeOK, GoroutinesOK
  <2>3. Has(channel, e) \/ e = entry[t] => Has(channel', e)
    BY <1>1, <2>1, <2>2, HasAppend
  <2>4. \A s \in Threads \ {t} : entry'[s] = entry[s]
    BY <1>1, <2>1
  <2>5. QED
    BY <1>2, <1>3, <2>1, <2>3, <2>4
<1>6. CASE Take
  <2>1. /\ inflight = <<>> /\ channel # <<>> /\ inflight' = <<Head(channel)>>
        /\ channel' = Tail(channel) /\ UNCHANGED <<entry, issued, table, failed>>
    BY <1>6 DEF Take, TypeOK, locals
  <2>2. Has(channel, e) => e = Head(channel) \/ Has(channel', e)
    BY <1>1, <2>1, HasTail
  <2>3. e = Head(channel) => Has(inflight', e)
    BY <2>1 DEF Has
  <2>4. ~Has(inflight, e)
    BY <2>1 DEF Has
  <2>5. QED
    BY <1>2, <1>3, <2>1, <2>2, <2>3, <2>4
<1>7. CASE Insert
  <2>1. /\ pc[Writer] = "insert" /\ UNCHANGED <<entry, issued, channel>>
        /\ \/ table' = table \o inflight /\ UNCHANGED failed
           \/ failed' = failed \cup {Head(inflight)} /\ UNCHANGED table
    BY <1>7 DEF Insert
  <2>2. Len(inflight) = 1
    BY <2>1 DEF TypeOK
  <2>3. Has(inflight, e) => e = Head(inflight)
    BY <1>1, <2>2 DEF Has
  <2>4. CASE table' = table \o inflight /\ UNCHANGED failed
    <3>1. Has(table, e) \/ Has(inflight, e) => Has(table', e)
      BY <1>1, <2>4, HasConcat
    <3>2. QED
      BY <1>2, <1>3, <2>1, <2>4, <3>1
  <2>5. CASE failed' = failed \cup {Head(inflight)} /\ UNCHANGED table
    BY <1>2, <1>3, <2>1, <2>3, <2>5
  <2>6. QED
    BY <2>1, <2>4, <2>5
<1>8. CASE UNCHANGED <<entry, issued, channel, inflight, table, failed>>
  BY <1>2, <1>3, <1>8
<1>9. ASSUME NEW t \in Threads, Call(t) \/ Step(t) PROVE Known(e)'
  <2>1. CASE \/ CallQuery(t) \/ CallFirewallHosts(t) \/ LockLogger(t)
            \/ QueryDone(t) \/ NextRow(t) \/ Fetch(t)
    BY <1>8, <2>1 DEF CallQuery, CallFirewallHosts, LockLogger, QueryDone, NextRow, Fetch, locals, log
  <2>2. QED
    BY <1>4, <1>5, <1>9, <2>1 DEF Call, Step
<1>10. ASSUME NEW u \in Users, Acquire(u) PROVE Known(e)'
  BY <1>8, <1>10 DEF Acquire, log
<1>11. CASE UNCHANGED vars
  BY <1>8, <1>11 DEF vars, locals, log
<1>12. QED
  BY <1>6, <1>7, <1>9, <1>10, <1>11 DEF Next

\* Every entry that was written is still on its way, in the table, or its INSERT
\* failed: a full channel and a database that does not answer lose nothing.
THEOREM NoEntryLost == Spec => []NothingLost
<1>1. Init => NothingLost
  BY DEF Init, NothingLost
<1>2. TypeOK /\ NothingLost /\ [Next]_vars => NothingLost'
  BY LostStep
<1>3. QED
  BY <1>1, <1>2, TypeCorrect, PTL DEF Spec
============================================================================
