--------------------------- MODULE Notifier_proofs ---------------------------
(***************************************************************************)
(* What holds of the notifications for every set of servers, every number  *)
(* of alert goroutines, every window and every number of restarts.         *)
(***************************************************************************)
EXTENDS Notifier, TLAPS

(***************************************************************************)
(* Keys.                                                                   *)
(***************************************************************************)

\* Every alert but the test has a key in the map.
LEMMA KeyType ==
  ASSUME NEW k \in Kinds, k # "test", NEW s \in Servers PROVE Key(k, s) \in Keys
  BY DEF Keys

\* The key of a server's outage is used for nothing else.
LEMMA OwnKeyUnique ==
  ASSUME NEW k \in Kinds \ {"test"}, NEW s \in Servers, NEW t \in Servers,
         Key(k, t) = Key("own", s)
  PROVE  k = "own" /\ t = s
  BY DEF Key, Kinds

\* The key of the status changes is used for nothing else.
LEMMA HistoryKeyUnique ==
  ASSUME NEW k \in Kinds \ {"test"}, NEW s \in Servers, NEW t \in Servers,
         Key(k, t) = Key("history", s)
  PROVE  k = "history"
  BY DEF Key, Kinds

\* It is the same for every server.
LEMMA HistoryKeyShared ==
  ASSUME NEW s, NEW t PROVE Key("history", s) = Key("history", t)
  BY DEF Key

(***************************************************************************)
(* Type correctness.                                                       *)
(***************************************************************************)

\* Starting alerts about s uses free slots and leaves the others alone.
LEMMA StartEffect ==
  ASSUME TypeOK, NEW kinds \in SUBSET Kinds, NEW s \in Servers \cup {None},
         s = None => kinds = {"test"}, Start(kinds, s)
  PROVE  /\ pc' \in [Slots -> Labels]
         /\ kind' \in [Slots -> Kinds]
         /\ about' \in [Slots -> Servers \cup {None}]
         /\ \A w \in Slots : \/ UNCHANGED <<pc[w], kind[w], about[w]>>
                             \/ /\ pc[w] = "free" /\ pc'[w] = "read"
                                /\ kind'[w] \in kinds /\ about'[w] = s
         /\ \A k \in kinds : \E w \in Slots : pc'[w] = "read" /\ kind'[w] = k /\ about'[w] = s
<1>1. PICK slot \in [kinds -> {w \in Slots : pc[w] = "free"}] :
        /\ \A j, k \in kinds : slot[j] = slot[k] => j = k
        /\ pc'    = [w \in Slots |-> IF \E k \in kinds : slot[k] = w THEN "read" ELSE pc[w]]
        /\ kind'  = [w \in Slots |-> IF \E k \in kinds : slot[k] = w
                                     THEN CHOOSE k \in kinds : slot[k] = w ELSE kind[w]]
        /\ about' = [w \in Slots |-> IF \E k \in kinds : slot[k] = w THEN s ELSE about[w]]
  BY DEF Start
<1>2. ASSUME NEW w \in Slots
      PROVE  \/ UNCHANGED <<pc[w], kind[w], about[w]>>
             \/ /\ pc[w] = "free" /\ pc'[w] = "read"
                /\ kind'[w] \in kinds /\ about'[w] = s
  BY <1>1
<1>3. ASSUME NEW k \in kinds
      PROVE  \E w \in Slots : pc'[w] = "read" /\ kind'[w] = k /\ about'[w] = s
  <2>1. slot[k] \in Slots
    BY <1>1
  <2>2. (CHOOSE j \in kinds : slot[j] = slot[k]) = k
    BY <1>1
  <2>3. QED
    BY <1>1, <2>1, <2>2
<1>4. pc' \in [Slots -> Labels] /\ about' \in [Slots -> Servers \cup {None}]
  BY <1>1 DEF TypeOK, Labels
<1>5. kind' \in [Slots -> Kinds]
  BY <1>1, <1>2 DEF TypeOK
<1>6. QED
  BY <1>2, <1>3, <1>4, <1>5

\* The present is a time to note.
LEMMA PutTime ==
  ASSUME NEW K, NEW f \in [K -> Times], NEW k, now \in Nat
  PROVE  [f EXCEPT ![k] = now] \in [K -> Times]
<1>1. now \in Times
  BY DEF Times
<1>2. QED
  BY <1>1, Zenon

\* New alerts keep the types.
LEMMA StartType ==
  ASSUME TypeOK, NEW kinds \in SUBSET Kinds, NEW s \in Servers \cup {None},
         s = None => kinds = {"test"}, Start(kinds, s),
         since' \in [Servers -> Times], excused' \subseteq Servers,
         UNCHANGED <<enabled, now, restarts, memory, told>>
  PROVE  TypeOK'
<1>1. \A w \in Slots : /\ mutex = w <=> pc'[w] \in {"check", "record"}
                       /\ pc'[w] \in {"lock", "check", "record"} => kind'[w] # "test"
                       /\ kind'[w] # "test" => about'[w] \in Servers
  <2>1. TAKE w \in Slots
  <2>2. CASE UNCHANGED <<pc[w], kind[w], about[w]>>
    BY <2>2 DEF TypeOK
  <2>3. CASE pc[w] = "free" /\ pc'[w] = "read" /\ kind'[w] \in kinds /\ about'[w] = s
    BY <2>3 DEF TypeOK
  <2>4. QED
    BY <2>2, <2>3, StartEffect
<1>2. QED
  BY <1>1, StartEffect DEF TypeOK, Times, memory, told

\* The type invariant holds initially.
LEMMA TypeInit == Init => TypeOK
  BY BoundAssumption DEF Init, TypeOK, Times, Labels, Kinds

\* The type invariant is inductive.
LEMMA TypeStep == TypeOK /\ [Next]_vars => TypeOK'
<1> SUFFICES ASSUME TypeOK, [Next]_vars PROVE TypeOK'
  OBVIOUS
<1> USE BoundAssumption
<1>1. ASSUME NEW w \in Slots, Step(w) PROVE TypeOK'
  <2> USE <1>1 DEF TypeOK, Goto, End, Times, Labels, Kinds, outside, memory, ghosts, told
  <2>1. CASE ReadSettings(w)
    BY <2>1 DEF ReadSettings, Keyless
  <2>2. CASE Lock(w)
    BY <2>2 DEF Lock
  <2>3. CASE Check(w)
    BY <2>3 DEF Check
  <2>4. CASE Record(w)
    <3>1. suppressor' \in [Keys -> Times] /\ now' = now
      BY <2>4, PutTime DEF Record
    <3>2. \A v \in Slots : mutex' = v <=> pc'[v] \in {"check", "record"}
      BY <2>4 DEF Record
    <3>3. QED
      BY <2>4, <3>1, <3>2 DEF Record
  <2>5. CASE Hand(w)
    BY <2>5 DEF Hand
  <2>6. QED
    BY <2>1, <2>2, <2>3, <2>4, <2>5 DEF Step
<1>2. ASSUME NEW s \in Servers, GoOffline(s) PROVE TypeOK'
  <2>1. since' \in [Servers -> Times]
    BY <1>2 DEF GoOffline, TypeOK, Times
  <2>2. excused' \subseteq Servers
    BY <1>2 DEF GoOffline, TypeOK
  <2>3. QED
    BY <1>2, <2>1, <2>2, StartType DEF GoOffline, OutageKinds, Kinds
<1>3. ASSUME NEW s \in Servers, GoOnline(s) PROVE TypeOK'
  BY <1>3 DEF GoOnline, TypeOK, Times, memory, ghosts, told
<1>4. ASSUME NEW s \in Servers, CheckCPU(s) PROVE TypeOK'
  BY <1>4, StartType DEF CheckCPU, Kinds, TypeOK, outside, ghosts
<1>5. CASE TestNotification
  BY <1>5, StartType DEF TestNotification, Kinds, TypeOK, outside, ghosts
<1>6. CASE SaveSettings
  BY <1>6 DEF SaveSettings, TypeOK, Times, memory, ghosts, told
<1>7. CASE Tick
  BY <1>7 DEF Tick, TypeOK, Times, memory, ghosts, told
<1>8. CASE Restart
  BY <1>8 DEF Restart, TypeOK, Times, told, Labels, Kinds
<1>9. CASE UNCHANGED vars
  BY <1>9 DEF vars, TypeOK, Times, outside, memory, ghosts, told
<1>10. QED
  BY <1>1, <1>2, <1>3, <1>4, <1>5, <1>6, <1>7, <1>8, <1>9 DEF Next

\* Every variable has its type, no time is ahead of the clock, and the mutex is
\* held exactly by the goroutine between Lock and Unlock.
THEOREM TypeCorrect == Spec => []TypeOK
  BY TypeInit, TypeStep, PTL DEF Spec

(***************************************************************************)
(* The rate limiter.                                                       *)
(***************************************************************************)

\* Between the check and the note of the time nobody notes another time, since
\* the mutex is held: an alert about to be recorded is still not suppressed.
CheckHolds == \A w \in Slots : pc[w] = "record" => ~Suppressed(Key(kind[w], about[w]))

LEMMA CheckInit == Init => CheckHolds
  BY DEF Init, CheckHolds

LEMMA CheckStep == TypeOK /\ CheckHolds /\ [Next]_vars => CheckHolds'
<1> SUFFICES ASSUME TypeOK, CheckHolds, [Next]_vars, NEW v \in Slots, pc'[v] = "record"
             PROVE  ~Suppressed(Key(kind[v], about[v]))'
  BY DEF CheckHolds
<1>1. ASSUME pc[v] = "record", UNCHANGED <<kind[v], about[v], now, suppressor>>
      PROVE  ~Suppressed(Key(kind[v], about[v]))'
  BY <1>1 DEF CheckHolds, Suppressed, Key
<1>2. ASSUME NEW w \in Slots, Step(w) PROVE ~Suppressed(Key(kind[v], about[v]))'
  <2> USE <1>2 DEF Goto, End, outside, memory, TypeOK
  <2>1. CASE ReadSettings(w)
    <3>1. pc[v] = "record" /\ UNCHANGED <<kind[v], about[v], now, suppressor>>
      BY <2>1 DEF ReadSettings, Keyless
    <3>2. QED
      BY <1>1, <3>1
  <2>2. CASE Lock(w)
    <3>1. pc[v] = "record" /\ UNCHANGED <<kind[v], about[v], now, suppressor>>
      BY <2>2 DEF Lock
    <3>2. QED
      BY <1>1, <3>1
  <2>3. CASE Check(w)
    <3>1. CASE v = w
      BY <2>3, <3>1 DEF Check, Suppressed, Key
    <3>2. CASE v # w
      BY <2>3, <3>2 DEF Check
    <3>3. QED
      BY <3>1, <3>2
  <2>4. CASE Record(w)
    BY <2>4 DEF Record
  <2>5. CASE Hand(w)
    <3>1. pc[v] = "record" /\ UNCHANGED <<kind[v], about[v], now, suppressor>>
      BY <2>5 DEF Hand
    <3>2. QED
      BY <1>1, <3>1
  <2>6. QED
    BY <2>1, <2>2, <2>3, <2>4, <2>5 DEF Step
<1>3. ASSUME NEW s \in Servers, GoOffline(s) PROVE ~Suppressed(Key(kind[v], about[v]))'
  <2>1. OutageKinds(s) \in SUBSET Kinds
    BY DEF OutageKinds, Kinds
  <2>2. pc[v] = "record" /\ UNCHANGED <<kind[v], about[v], now, suppressor>>
    BY <1>3, <2>1, StartEffect, BoundAssumption DEF GoOffline, memory
  <2>3. QED
    BY <1>1, <2>2
<1>4. ASSUME NEW s \in Servers, GoOnline(s) PROVE ~Suppressed(Key(kind[v], about[v]))'
  BY <1>1, <1>4 DEF GoOnline, memory
<1>5. ASSUME NEW s \in Servers, CheckCPU(s) PROVE ~Suppressed(Key(kind[v], about[v]))'
  <2>1. {"cpu"} \in SUBSET Kinds
    BY DEF Kinds
  <2>2. pc[v] = "record" /\ UNCHANGED <<kind[v], about[v], now, suppressor>>
    BY <1>5, <2>1, StartEffect, BoundAssumption DEF CheckCPU, memory, outside
  <2>3. QED
    BY <1>1, <2>2
<1>6. CASE TestNotification
  <2>1. {"test"} \in SUBSET Kinds
    BY DEF Kinds
  <2>2. pc[v] = "record" /\ UNCHANGED <<kind[v], about[v], now, suppressor>>
    BY <1>6, <2>1, StartEffect DEF TestNotification, memory, outside
  <2>3. QED
    BY <1>1, <2>2
<1>7. CASE SaveSettings
  BY <1>1, <1>7 DEF SaveSettings, memory
<1>8. CASE Tick
  <2>1. kind[v] # "test" /\ about[v] \in Servers /\ pc[v] = "record"
    BY <1>8 DEF Tick, TypeOK
  <2>2. Key(kind[v], about[v]) \in Keys
    BY <2>1, KeyType DEF TypeOK
  <2>3. Key(kind[v], about[v])' = Key(kind[v], about[v])
    BY <1>8 DEF Tick, Key
  <2>4. QED
    BY <1>8, <2>1, <2>2, <2>3, BoundAssumption DEF Tick, memory, CheckHolds, Suppressed, TypeOK, Times
<1>9. CASE Restart
  BY <1>9 DEF Restart
<1>10. CASE UNCHANGED vars
  BY <1>1, <1>10 DEF vars, outside, memory
<1>11. QED
  BY <1>2, <1>3, <1>4, <1>5, <1>6, <1>7, <1>8, <1>9, <1>10 DEF Next

\* Only Record and Restart write the map, and only Tick moves the clock.
LEMMA LimiterFrame ==
  ASSUME [Next]_vars, \A w \in Slots : ~Record(w), ~Tick, ~Restart
  PROVE  UNCHANGED <<suppressor, now>>
  BY DEF Next, vars, Step, ReadSettings, Lock, Check, Hand, GoOffline, GoOnline, CheckCPU,
         TestNotification, SaveSettings, outside, memory

\* Under one key nothing passes less than Window after the last thing that did,
\* although the check and the note of the time are separate steps.
THEOREM LimiterImplemented == Spec => ImplementsLimiter
<1>1. Init => Limiter!Init
  BY DEF Init, Limiter!Init, Limiter!Silent
<1>2. ASSUME TypeOK, CheckHolds, [Next]_vars PROVE [Limiter!Next]_<<suppressor, now>>
  <2>1. ASSUME NEW w \in Slots, Record(w) PROVE Limiter!Next
    <3>1. Key(kind[w], about[w]) \in Keys
      BY <1>2, <2>1, KeyType DEF Record, TypeOK
    <3>2. Limiter!Pass(Key(kind[w], about[w]))
      <4>1. suppressor[Key(kind[w], about[w])] # None
            => now >= suppressor[Key(kind[w], about[w])] + Window
        BY <1>2, <2>1, <3>1, BoundAssumption DEF Record, CheckHolds, Suppressed, TypeOK, Times
      <4>2. QED
        BY <2>1, <4>1 DEF Record, outside, Limiter!Pass
    <3>3. QED
      BY <3>1, <3>2 DEF Limiter!Next
  <2>2. CASE Tick
    BY <2>2 DEF Tick, memory, Limiter!Next, Limiter!Advance
  <2>3. CASE Restart
    BY <2>3 DEF Restart, Limiter!Next, Limiter!Forget, Limiter!Silent
  <2>4. QED
    BY <1>2, <2>1, <2>2, <2>3, LimiterFrame
<1>3. QED
  BY <1>1, <1>2, TypeCorrect, CheckInit, CheckStep, PTL
     DEF Spec, ImplementsLimiter, Limiter!Spec, Limiter!limiter

(***************************************************************************)
(* Every outage is announced.                                              *)
(***************************************************************************)

\* Neither property is inductive: that a suppressed alert may be dropped rests on
\* the message that suppresses it having been handed on, or being on its way.
NamedSinceNoted ==
  \A s \in Servers :
    /\ suppressor[Key("own", s)] # None
    /\ \A w \in Slots : ~(Handing(w, "own") /\ about[w] = s)
    => named[s] # None /\ named[s] >= suppressor[Key("own", s)]

AnnouncedSinceNoted ==
  \A s \in Servers :
    /\ suppressor[Key("history", s)] # None
    /\ \A w \in Slots : ~Handing(w, "history")
    => announced # None /\ announced >= suppressor[Key("history", s)]

AlertInv == /\ NamedSinceNoted /\ AnnouncedSinceNoted
            /\ OwnOutageAnnounced /\ SomeOutageAnnounced

LEMMA AlertInit == Init => AlertInv
  BY KeyType DEF Init, AlertInv, NamedSinceNoted, AnnouncedSinceNoted, OwnOutageAnnounced,
                 SomeOutageAnnounced, Kinds

\* A step that takes no goroutine away and writes neither map nor messages
\* keeps the invariant of all servers whose outage does not begin with it.
LEMMA AlertFrame ==
  ASSUME TypeOK, AlertInv, UNCHANGED <<suppressor, told>>,
         \A w \in Slots : pc[w] # "free" =>
           /\ pc'[w] # "free" /\ UNCHANGED <<kind[w], about[w]>>
           /\ pc[w] = "hand" => pc'[w] = "hand",
         \A s \in Servers \ excused' :
           \/ s \notin excused /\ since'[s] \in {since[s], None}
           \/ /\ s[1] # "kvm" => \E w \in Slots : Pending(w, "own", s)'
              /\ \E w \in Slots : Pending(w, "history", s)'
  PROVE  AlertInv'
<1>1. NamedSinceNoted'
  <2>1. \A w \in Slots, s \in Servers :
          Handing(w, "own") /\ about[w] = s => (Handing(w, "own") /\ about[w] = s)'
    BY DEF Handing
  <2>2. \A s \in Servers : UNCHANGED <<suppressor[Key("own", s)], named[s]>>
    BY DEF told, Key
  <2>3. QED
    BY <2>1, <2>2 DEF AlertInv, NamedSinceNoted
<1>2. AnnouncedSinceNoted'
  <2>1. \A w \in Slots : Handing(w, "history") => Handing(w, "history")'
    BY DEF Handing
  <2>2. \A s \in Servers : UNCHANGED <<suppressor[Key("history", s)], announced>>
    BY DEF told, Key
  <2>3. QED
    BY <2>1, <2>2 DEF AlertInv, AnnouncedSinceNoted
<1>3. OwnOutageAnnounced'
  <2>1. \A w \in Slots, s \in Servers : Pending(w, "own", s) => Pending(w, "own", s)'
    BY DEF Pending
  <2>2. \A s \in Servers : named'[s] = named[s]
    BY DEF told
  <2>3. QED
    BY <2>1, <2>2 DEF AlertInv, OwnOutageAnnounced
<1>4. SomeOutageAnnounced'
  <2>1. \A w \in Slots, s \in Servers : Pending(w, "history", s) => Pending(w, "history", s)'
    BY DEF Pending
  <2>2. \A w \in Slots : Handing(w, "history") => Handing(w, "history")'
    BY DEF Handing
  <2>3. announced' = announced
    BY DEF told
  <2>4. QED
    BY <2>1, <2>2, <2>3 DEF AlertInv, SomeOutageAnnounced
<1>5. QED
  BY <1>1, <1>2, <1>3, <1>4 DEF AlertInv

\* An alert that is suppressed leaves a message that is recent enough.
LEMMA SuppressedStep ==
  ASSUME TypeOK, AlertInv, NEW w \in Slots, Check(w), Suppressed(Key(kind[w], about[w]))
  PROVE  AlertInv'
<1> USE DEF Check, End, Goto, outside, ghosts, told
<1>1. /\ kind[w] \in Kinds \ {"test"} /\ about[w] \in Servers
      /\ Key(kind[w], about[w]) \in Keys
  BY KeyType DEF TypeOK
<1>2. \A v \in Slots : \/ v = w /\ pc[v] = "check" /\ pc'[v] = "free"
                       \/ v # w /\ UNCHANGED <<pc[v], kind[v], about[v]>>
  BY DEF TypeOK
<1>3. NamedSinceNoted'
  <2>1. \A v \in Slots, s \in Servers :
          Handing(v, "own") /\ about[v] = s => (Handing(v, "own") /\ about[v] = s)'
    BY <1>2 DEF Handing
  <2>2. \A s \in Servers : UNCHANGED <<suppressor[Key("own", s)], named[s]>>
    BY DEF Key
  <2>3. QED
    BY <2>1, <2>2 DEF AlertInv, NamedSinceNoted
<1>4. AnnouncedSinceNoted'
  <2>1. \A v \in Slots : Handing(v, "history") => Handing(v, "history")'
    BY <1>2 DEF Handing
  <2>2. \A s \in Servers : UNCHANGED <<suppressor[Key("history", s)], announced>>
    BY DEF Key
  <2>3. QED
    BY <2>1, <2>2 DEF AlertInv, AnnouncedSinceNoted
<1>5. OwnOutageAnnounced'
  <2> SUFFICES ASSUME NEW s \in Servers \ excused, s[1] # "kvm", since[s] # None,
                      \A v \in Slots : ~Pending(v, "own", s)'
               PROVE  named[s] # None /\ named[s] + Window > since[s]
    BY DEF OwnOutageAnnounced
  <2>1. CASE ~Pending(w, "own", s)
    BY <1>2, <2>1 DEF AlertInv, OwnOutageAnnounced, Pending
  <2>2. CASE Pending(w, "own", s)
    <3>1. \A v \in Slots : ~(Handing(v, "own") /\ about[v] = s)
      BY <1>2 DEF Handing, Pending
    <3>2. Suppressed(Key("own", s)) /\ Key("own", s) \in Keys
      BY <1>1, <2>2 DEF Pending
    <3>3. /\ named[s] # None /\ named[s] >= suppressor[Key("own", s)]
          /\ now < suppressor[Key("own", s)] + Window
      BY <3>1, <3>2 DEF AlertInv, NamedSinceNoted, Suppressed
    <3>4. /\ suppressor[Key("own", s)] \in Nat /\ named[s] \in Nat
          /\ since[s] \in Nat /\ since[s] <= now /\ now \in Nat
      BY <3>2, <3>3, BoundAssumption DEF Suppressed, TypeOK, Times
    <3>5. QED
      BY <3>3, <3>4, BoundAssumption
  <2>3. QED
    BY <2>1, <2>2
<1>6. SomeOutageAnnounced'
  <2> SUFFICES ASSUME NEW s \in Servers \ excused, since[s] # None,
                      \A v \in Slots : (~Pending(v, "history", s) /\ ~Handing(v, "history"))'
               PROVE  announced # None /\ announced + Window > since[s]
    BY DEF SomeOutageAnnounced
  <2>1. \A v \in Slots : ~Handing(v, "history")
    BY <1>2 DEF Handing
  <2>2. CASE ~Pending(w, "history", s)
    BY <1>2, <2>1, <2>2 DEF AlertInv, SomeOutageAnnounced, Pending
  <2>3. CASE Pending(w, "history", s)
    <3>1. Suppressed(Key("history", s)) /\ Key("history", s) \in Keys
      BY <1>1, <2>3 DEF Pending
    <3>2. /\ announced # None /\ announced >= suppressor[Key("history", s)]
          /\ now < suppressor[Key("history", s)] + Window
      BY <2>1, <3>1 DEF AlertInv, AnnouncedSinceNoted, Suppressed
    <3>3. /\ suppressor[Key("history", s)] \in Nat /\ announced \in Nat
          /\ since[s] \in Nat /\ since[s] <= now /\ now \in Nat
      BY <3>1, <3>2, BoundAssumption DEF Suppressed, TypeOK, Times
    <3>4. QED
      BY <3>2, <3>3, BoundAssumption
  <2>4. QED
    BY <2>2, <2>3
<1>7. QED
  BY <1>3, <1>4, <1>5, <1>6 DEF AlertInv

\* An alert that is recorded is about to be handed on.
LEMMA RecordStep ==
  ASSUME TypeOK, AlertInv, NEW w \in Slots, Record(w)
  PROVE  AlertInv'
<1> USE DEF Record, Goto, outside, ghosts, told
<1>1. /\ kind[w] \in Kinds \ {"test"} /\ about[w] \in Servers
      /\ Key(kind[w], about[w]) \in Keys
  BY KeyType DEF TypeOK
<1>2. \A v \in Slots : v # w => UNCHANGED <<pc[v], kind[v], about[v]>>
  OBVIOUS
<1>3. pc[w] = "record" /\ pc'[w] = "hand" /\ UNCHANGED <<kind[w], about[w]>>
  BY DEF TypeOK
<1>4. \A k \in Keys : k # Key(kind[w], about[w]) => suppressor'[k] = suppressor[k]
  BY DEF TypeOK
<1>5. \A v \in Slots, s \in Servers :
        /\ Pending(v, "own", s) => Pending(v, "own", s)'
        /\ Pending(v, "history", s) => Pending(v, "history", s)'
        /\ Handing(v, "history") => Handing(v, "history")'
        /\ Handing(v, "own") /\ about[v] = s => (Handing(v, "own") /\ about[v] = s)'
  BY <1>2, <1>3 DEF Pending, Handing
<1>6. NamedSinceNoted'
  <2> SUFFICES ASSUME NEW s \in Servers, suppressor'[Key("own", s)] # None,
                      \A v \in Slots : ~(Handing(v, "own") /\ about[v] = s)'
               PROVE  named[s] # None /\ named[s] >= suppressor'[Key("own", s)]
    BY DEF NamedSinceNoted, Key
  <2>1. Key("own", s) # Key(kind[w], about[w])
    BY <1>1, <1>3, OwnKeyUnique DEF Handing
  <2>2. Key("own", s) \in Keys
    BY KeyType DEF Kinds
  <2>3. suppressor'[Key("own", s)] = suppressor[Key("own", s)]
    BY <1>4, <2>1, <2>2
  <2>4. QED
    BY <1>5, <2>3 DEF AlertInv, NamedSinceNoted
<1>7. AnnouncedSinceNoted'
  <2> SUFFICES ASSUME NEW s \in Servers, suppressor'[Key("history", s)] # None,
                      \A v \in Slots : ~Handing(v, "history")'
               PROVE  announced # None /\ announced >= suppressor'[Key("history", s)]
    BY DEF AnnouncedSinceNoted, Key
  <2>1. Key("history", s) # Key(kind[w], about[w])
    BY <1>1, <1>3, HistoryKeyUnique DEF Handing
  <2>2. Key("history", s) \in Keys
    BY KeyType DEF Kinds
  <2>3. suppressor'[Key("history", s)] = suppressor[Key("history", s)]
    BY <1>4, <2>1, <2>2
  <2>4. QED
    BY <1>5, <2>3 DEF AlertInv, AnnouncedSinceNoted
<1>8. OwnOutageAnnounced'
  BY <1>5 DEF AlertInv, OwnOutageAnnounced
<1>9. SomeOutageAnnounced'
  BY <1>5 DEF AlertInv, SomeOutageAnnounced
<1>10. QED
  BY <1>6, <1>7, <1>8, <1>9 DEF AlertInv

\* A message that is handed on is the latest.
LEMMA HandStep ==
  ASSUME TypeOK, AlertInv, NEW w \in Slots, Hand(w)
  PROVE  AlertInv'
<1> USE DEF Hand, End, outside, memory
<1>1. \A v \in Slots : \/ v = w /\ pc[v] = "hand" /\ pc'[v] = "free"
                       \/ v # w /\ UNCHANGED <<pc[v], kind[v], about[v]>>
  BY DEF TypeOK
<1>2. \A s \in Servers : IF kind[w] = "own" /\ about[w] = s THEN named'[s] = now
                                                            ELSE named'[s] = named[s]
  BY DEF TypeOK
<1>3. now \in Nat /\ \A k \in Keys : suppressor[k] # None => suppressor[k] \in Nat /\ suppressor[k] <= now
  BY BoundAssumption DEF TypeOK, Times
<1>4. \A s \in Servers : since[s] # None => since[s] \in Nat /\ since[s] <= now
  BY BoundAssumption DEF TypeOK, Times
<1>5. now # None /\ now + Window > now
  BY <1>3, BoundAssumption
<1>6. NamedSinceNoted'
  <2> SUFFICES ASSUME NEW s \in Servers, suppressor[Key("own", s)] # None,
                      \A v \in Slots : ~(Handing(v, "own") /\ about[v] = s)'
               PROVE  named'[s] # None /\ named'[s] >= suppressor[Key("own", s)]
    BY DEF NamedSinceNoted, Key
  <2>1. Key("own", s) \in Keys
    BY KeyType DEF Kinds
  <2>2. CASE kind[w] = "own" /\ about[w] = s
    BY <1>2, <1>3, <1>5, <2>1, <2>2
  <2>3. CASE ~(kind[w] = "own" /\ about[w] = s)
    BY <1>1, <1>2, <2>3 DEF AlertInv, NamedSinceNoted, Handing
  <2>4. QED
    BY <2>2, <2>3
<1>7. AnnouncedSinceNoted'
  <2> SUFFICES ASSUME NEW s \in Servers, suppressor[Key("history", s)] # None,
                      \A v \in Slots : ~Handing(v, "history")'
               PROVE  announced' # None /\ announced' >= suppressor[Key("history", s)]
    BY DEF AnnouncedSinceNoted, Key
  <2>1. Key("history", s) \in Keys
    BY KeyType DEF Kinds
  <2>2. CASE kind[w] = "history"
    BY <1>3, <1>5, <2>1, <2>2
  <2>3. CASE kind[w] # "history"
    BY <1>1, <2>3 DEF AlertInv, AnnouncedSinceNoted, Handing
  <2>4. QED
    BY <2>2, <2>3
<1>8. OwnOutageAnnounced'
  <2> SUFFICES ASSUME NEW s \in Servers \ excused, s[1] # "kvm", since[s] # None,
                      \A v \in Slots : ~Pending(v, "own", s)'
               PROVE  named'[s] # None /\ named'[s] + Window > since[s]
    BY DEF OwnOutageAnnounced
  <2>1. CASE kind[w] = "own" /\ about[w] = s
    BY <1>2, <1>3, <1>4, <1>5, <2>1, BoundAssumption
  <2>2. CASE ~(kind[w] = "own" /\ about[w] = s)
    BY <1>1, <1>2, <2>2 DEF AlertInv, OwnOutageAnnounced, Pending
  <2>3. QED
    BY <2>1, <2>2
<1>9. SomeOutageAnnounced'
  <2> SUFFICES ASSUME NEW s \in Servers \ excused, since[s] # None,
                      \A v \in Slots : (~Pending(v, "history", s) /\ ~Handing(v, "history"))'
               PROVE  announced' # None /\ announced' + Window > since[s]
    BY DEF SomeOutageAnnounced
  <2>1. CASE kind[w] = "history"
    BY <1>3, <1>4, <1>5, <2>1, BoundAssumption
  <2>2. CASE kind[w] # "history"
    BY <1>1, <2>2 DEF AlertInv, SomeOutageAnnounced, Pending, Handing
  <2>3. QED
    BY <2>1, <2>2
<1>10. QED
  BY <1>6, <1>7, <1>8, <1>9 DEF AlertInv

\* An alert that finds the notifications switched off excuses its server.
LEMMA DisabledStep ==
  ASSUME TypeOK, AlertInv, NEW w \in Slots, ReadSettings(w), ~enabled
  PROVE  AlertInv'
<1> USE DEF ReadSettings, End, outside, memory, told
<1>1. \A v \in Slots : \/ v = w /\ pc[v] = "read" /\ pc'[v] = "free"
                       \/ v # w /\ UNCHANGED <<pc[v], kind[v], about[v]>>
  BY DEF TypeOK
<1>2. \A v \in Slots, s \in Servers \ excused' :
        /\ s \notin excused
        /\ Pending(v, "own", s) => Pending(v, "own", s)'
        /\ Pending(v, "history", s) => Pending(v, "history", s)'
  BY <1>1 DEF Pending
<1>3. \A v \in Slots, s \in Servers :
        /\ Handing(v, "history") => Handing(v, "history")'
        /\ Handing(v, "own") /\ about[v] = s => (Handing(v, "own") /\ about[v] = s)'
  BY <1>1 DEF Handing
<1>4. NamedSinceNoted' /\ AnnouncedSinceNoted'
  BY <1>3 DEF AlertInv, NamedSinceNoted, AnnouncedSinceNoted, Key
<1>5. OwnOutageAnnounced'
  BY <1>2 DEF AlertInv, OwnOutageAnnounced
<1>6. SomeOutageAnnounced'
  BY <1>2, <1>3 DEF AlertInv, SomeOutageAnnounced
<1>7. QED
  BY <1>4, <1>5, <1>6 DEF AlertInv

\* A restart empties the map and excuses all servers if an alert was on its way.
LEMMA RestartStep ==
  ASSUME TypeOK, AlertInv, Restart
  PROVE  AlertInv'
<1> USE DEF Restart, told
<1>1. NamedSinceNoted' /\ AnnouncedSinceNoted'
  BY KeyType DEF NamedSinceNoted, AnnouncedSinceNoted, Key, Kinds
<1>2. OwnOutageAnnounced'
  BY DEF AlertInv, OwnOutageAnnounced, Pending
<1>3. SomeOutageAnnounced'
  BY DEF AlertInv, SomeOutageAnnounced, Pending, Handing
<1>4. QED
  BY <1>1, <1>2, <1>3 DEF AlertInv

\* New alerts keep the invariant, if all alerts of a new outage are among them.
LEMMA StartStep ==
  ASSUME TypeOK, AlertInv, NEW kinds \in SUBSET Kinds, NEW s \in Servers \cup {None},
         s = None => kinds = {"test"}, Start(kinds, s), UNCHANGED <<suppressor, told>>,
         \/ UNCHANGED <<since, excused>>
         \/ /\ s \in Servers /\ kinds = OutageKinds(s)
            /\ since' = [since EXCEPT ![s] = now] /\ excused' = excused \ {s}
  PROVE  AlertInv'
<1>1. \A w \in Slots : pc[w] # "free" =>
        /\ pc'[w] # "free" /\ UNCHANGED <<kind[w], about[w]>>
        /\ pc[w] = "hand" => pc'[w] = "hand"
  BY StartEffect
<1>2. CASE UNCHANGED <<since, excused>>
  BY <1>1, <1>2, AlertFrame
<1>3. CASE /\ s \in Servers /\ kinds = OutageKinds(s)
           /\ since' = [since EXCEPT ![s] = now] /\ excused' = excused \ {s}
  <2>1. \A t \in Servers \ excused' :
          \/ t \notin excused /\ since'[t] \in {since[t], None}
          \/ /\ t[1] # "kvm" => \E w \in Slots : Pending(w, "own", t)'
             /\ \E w \in Slots : Pending(w, "history", t)'
    <3>1. ASSUME NEW t \in Servers \ excused', t # s
          PROVE  t \notin excused /\ since'[t] \in {since[t], None}
      BY <1>3, <3>1 DEF TypeOK
    <3>2. \A k \in kinds : \E w \in Slots : Pending(w, k, s)'
      <4>1. \A k \in kinds : \E w \in Slots : pc'[w] = "read" /\ kind'[w] = k /\ about'[w] = s
        BY StartEffect
      <4>2. QED
        BY <4>1 DEF Pending
    <3>3. "history" \in kinds /\ (s[1] # "kvm" => "own" \in kinds)
      BY <1>3 DEF OutageKinds
    <3>4. QED
      BY <3>1, <3>2, <3>3
  <2>2. QED
    BY <1>1, <2>1, AlertFrame
<1>4. QED
  BY <1>2, <1>3

\* The invariant is inductive.
LEMMA AlertStep == TypeOK /\ AlertInv /\ [Next]_vars => AlertInv'
<1> SUFFICES ASSUME TypeOK, AlertInv, [Next]_vars PROVE AlertInv'
  OBVIOUS
<1>1. ASSUME NEW w \in Slots, Step(w) PROVE AlertInv'
  <2> USE DEF Goto, outside, memory, ghosts
  <2>1. CASE ReadSettings(w) /\ enabled
    BY <2>1, AlertFrame DEF ReadSettings, TypeOK
  <2>2. CASE Lock(w)
    BY <2>2, AlertFrame DEF Lock, TypeOK
  <2>3. CASE Check(w) /\ ~Suppressed(Key(kind[w], about[w]))
    BY <2>3, AlertFrame DEF Check, TypeOK
  <2>4. QED
    BY <1>1, <2>1, <2>2, <2>3, DisabledStep, SuppressedStep, RecordStep, HandStep DEF Step
<1>2. ASSUME NEW s \in Servers, GoOffline(s) PROVE AlertInv'
  <2>1. OutageKinds(s) \in SUBSET Kinds
    BY DEF OutageKinds, Kinds
  <2>2. QED
    BY <1>2, <2>1, StartStep, BoundAssumption DEF GoOffline, memory
<1>3. ASSUME NEW s \in Servers, GoOnline(s) PROVE AlertInv'
  BY <1>3, AlertFrame DEF GoOnline, memory, ghosts, TypeOK
<1>4. ASSUME NEW s \in Servers, CheckCPU(s) PROVE AlertInv'
  <2>1. {"cpu"} \in SUBSET Kinds
    BY DEF Kinds
  <2>2. QED
    BY <1>4, <2>1, StartStep, BoundAssumption DEF CheckCPU, outside, memory, ghosts
<1>5. CASE TestNotification
  <2>1. {"test"} \in SUBSET Kinds
    BY DEF Kinds
  <2>2. QED
    BY <1>5, <2>1, StartStep DEF TestNotification, outside, memory, ghosts
<1>6. CASE SaveSettings
  BY <1>6, AlertFrame DEF SaveSettings, memory, ghosts
<1>7. CASE Tick
  BY <1>7, AlertFrame DEF Tick, memory, ghosts
<1>8. CASE UNCHANGED vars
  BY <1>8, AlertFrame DEF vars, outside, memory, ghosts
<1>9. QED
  BY <1>1, <1>2, <1>3, <1>4, <1>5, <1>6, <1>7, <1>8, RestartStep DEF Next

\* A server other than KVM is never silently offline, beyond what the settings, a
\* restart or the window of its own key allow.
THEOREM OwnOutagesAnnounced == Spec => []OwnOutageAnnounced
  BY TypeCorrect, AlertInit, AlertStep, PTL DEF Spec, AlertInv

\* Nor is any server, beyond what the window of the shared key allows.
THEOREM SomeOutagesAnnounced == Spec => []SomeOutageAnnounced
  BY TypeCorrect, AlertInit, AlertStep, PTL DEF Spec, AlertInv
============================================================================
