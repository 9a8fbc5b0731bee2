------------------------------ MODULE Notifier ------------------------------
(***************************************************************************)
(* The external notifications: the goroutines that a server outage, a busy *)
(* processor or the administrator's test start, the settings they read     *)
(* from the database, and Notify with its suppression map, which they      *)
(* share under a mutex, up to the moment the message is handed to the      *)
(* sender goroutines of the enabled channels.                              *)
(***************************************************************************)
EXTENDS Naturals

CONSTANTS
  Servers,     \* the monitored servers: <<tool, id>>, ids unique per tool only
  Others,      \* the kinds of alert besides outages that may start
  Slots,       \* bound on the alert goroutines alive at one time
  Window,      \* suppressTTL
  MaxNow,      \* bound on the clock
  MaxRestarts, \* bound on the restarts of the process
  None         \* no key, no holder, never

ASSUME BoundAssumption == /\ Window \in Nat \ {0} /\ Others \subseteq {"cpu", "test"}
                          /\ MaxNow \in Nat /\ MaxRestarts \in Nat
                          /\ None \notin Nat /\ None \notin Slots /\ None \notin Servers

VARIABLES
  enabled,    \* are notifications configured and switched on?
  since,      \* offline_since of each server, None while it is not offline
  now, restarts,
  pc,         \* where each goroutine is, or "free"
  kind,       \* what its alert is about: "history", "own", "cpu" or "test" ...
  about,      \* ... and which server
  mutex,      \* holder of suppressorMutex
  suppressor, \* when the last alert under each key passed
  named,      \* when the last outage message under a server's own key was handed on
  announced,  \* when the last one under the shared key was
  excused     \* servers with an alert that met disabled settings or a restart

outside == <<enabled, since, now, restarts>>
memory  == <<mutex, suppressor>>
told    == <<named, announced>>
ghosts  == <<told, excused>>
vars    == <<outside, pc, kind, about, memory, ghosts>>

----------------------------------------------------------------------------
\* Mutated: the key of an outage names the id only, as that of a busy processor does.
KeyById(k, s) == CASE k = "history" -> <<"status_change">>
                     [] k = "own"     -> <<"offline", s[2]>>
                     [] k = "cpu"     -> <<"cpu-high", s[2]>>
                     [] OTHER         -> None
\* The context key of an alert.  Status changes logged in the history share
\* one, a busy processor is named by the id alone, a test has none.
Key(k, s) == CASE k = "history" -> <<"status_change">>
               [] k = "own"     -> <<"offline", s>>
               [] k = "cpu"     -> <<"cpu-high", s[2]>>
               [] OTHER         -> None
Kinds   == {"history", "own", "cpu", "test"}
Keys    == {Key(k, s) : k \in Kinds \ {"test"}, s \in Servers}

\* Mutated: an outage is announced once only, and a message one tick early.
SuppressedForever(k) == suppressor[k] # None
SuppressedShort(k)   == suppressor[k] # None /\ now < suppressor[k] + Window - 1
\* Less than Window has passed since the last alert under the key.
Suppressed(k) == suppressor[k] # None /\ now < suppressor[k] + Window

\* The alerts that start with an outage: SetServerStatus (KVM) starts none but
\* the one in LogEvent.
OutageKinds(s) == IF s[1] = "kvm" THEN {"history"} ELSE {"history", "own"}

Init == /\ enabled = TRUE
        /\ since = [s \in Servers |-> None]
        /\ now = 0 /\ restarts = 0
        /\ pc    = [w \in Slots |-> "free"]
        /\ kind  = [w \in Slots |-> "test"]
        /\ about = [w \in Slots |-> None]
        /\ mutex = None
        /\ suppressor = [k \in Keys |-> None]
        /\ named = [s \in Servers |-> None]
        /\ announced = None
        /\ excused = {}

----------------------------------------------------------------------------
(* What starts alerts.                                                     *)

\* One new goroutine for each kind of alert about s.
Start(kinds, s) ==
  \E slot \in [kinds -> {w \in Slots : pc[w] = "free"}] :
    /\ \A j, k \in kinds : slot[j] = slot[k] => j = k
    /\ pc'    = [w \in Slots |-> IF \E k \in kinds : slot[k] = w THEN "read" ELSE pc[w]]
    /\ kind'  = [w \in Slots |-> IF \E k \in kinds : slot[k] = w
                                 THEN CHOOSE k \in kinds : slot[k] = w ELSE kind[w]]
    /\ about' = [w \in Slots |-> IF \E k \in kinds : slot[k] = w THEN s ELSE about[w]]

\* Set*ServerStatus and its LogEvent, when the server goes offline.
GoOffline(s) ==
  /\ since[s] = None
  /\ Start(OutageKinds(s), s)
  /\ since' = [since EXCEPT ![s] = now]
  /\ excused' = excused \ {s}
  /\ UNCHANGED <<enabled, now, restarts, memory, told>>

GoOnline(s) ==
  /\ since[s] # None
  /\ since' = [since EXCEPT ![s] = None]
  /\ UNCHANGED <<enabled, now, restarts, pc, kind, about, memory, ghosts>>

\* A host was stored whose processor load exceeds the threshold.
CheckCPU(s) ==
  /\ "cpu" \in Others
  /\ Start({"cpu"}, s)
  /\ UNCHANGED <<outside, memory, ghosts>>

\* The handler of the test button, which runs Notify itself.
TestNotification ==
  /\ "test" \in Others
  /\ Start({"test"}, None)
  /\ UNCHANGED <<outside, memory, ghosts>>
----------------------------------------------------------------------------
(* An alert goroutine.                                                     *)

Goto(w, l) == pc' = [pc EXCEPT ![w] = l] /\ UNCHANGED <<kind, about>>
End(w)     == /\ pc'    = [pc    EXCEPT ![w] = "free"]
              /\ kind'  = [kind  EXCEPT ![w] = "test"]
              /\ about' = [about EXCEPT ![w] = None]

\* The suppression does not apply: contextKey is empty.
Keyless(w) == kind[w] = "test"

\* GetConfigValue and the early returns of Notify.
ReadSettings(w) ==
  /\ pc[w] = "read"
  /\ IF enabled
     THEN Goto(w, IF Keyless(w) THEN "hand" ELSE "lock") /\ UNCHANGED excused
     ELSE End(w) /\ excused' = excused \cup ({about[w]} \cap Servers)
  /\ UNCHANGED <<outside, memory, told>>

\* Mutated: Lock does not wait.
LockAnyway(w) ==
  /\ pc[w] = "lock"
  /\ mutex' = w
  /\ Goto(w, "check")
  /\ UNCHANGED <<outside, suppressor, ghosts>>

Lock(w) ==
  /\ pc[w] = "lock"
  /\ mutex = None
  /\ mutex' = w
  /\ Goto(w, "check")
  /\ UNCHANGED <<outside, suppressor, ghosts>>

\* Mutated: the early return does not unlock.
CheckKeepsLock(w) ==
  /\ pc[w] = "check"
  /\ IF Suppressed(Key(kind[w], about[w])) THEN End(w) ELSE Goto(w, "record")
  /\ UNCHANGED <<outside, memory, ghosts>>

\* Look the key up; a suppressed alert unlocks and returns.
Check(w) ==
  /\ pc[w] = "check"
  /\ IF Suppressed(Key(kind[w], about[w]))
     THEN End(w) /\ mutex' = None
     ELSE Goto(w, "record") /\ UNCHANGED mutex
  /\ UNCHANGED <<outside, suppressor, ghosts>>

\* Note the time and unlock.
Record(w) ==
  /\ pc[w] = "record"
  /\ suppressor' = [suppressor EXCEPT ![Key(kind[w], about[w])] = now]
  /\ mutex' = None
  /\ Goto(w, "hand")
  /\ UNCHANGED <<outside, ghosts>>

\* Start a sender for every enabled channel.
Hand(w) ==
  /\ pc[w] = "hand"
  /\ named' = IF kind[w] = "own" THEN [named EXCEPT ![about[w]] = now] ELSE named
  /\ announced' = IF kind[w] = "history" THEN now ELSE announced
  /\ End(w)
  /\ UNCHANGED <<outside, memory, excused>>

Step(w) == ReadSettings(w) \/ Lock(w) \/ Check(w) \/ Record(w) \/ Hand(w)
----------------------------------------------------------------------------
SaveSettings ==
  /\ enabled' = ~enabled
  /\ UNCHANGED <<since, now, restarts, pc, kind, about, memory, ghosts>>

Tick ==
  /\ now < MaxNow
  /\ now' = now + 1
  /\ UNCHANGED <<enabled, since, restarts, pc, kind, about, memory, ghosts>>

\* Goroutines and map are lost; the tables stay.
Restart ==
  /\ restarts < MaxRestarts
  /\ restarts' = restarts + 1
  /\ excused' = IF \E w \in Slots : pc[w] # "free" THEN Servers ELSE excused
  /\ pc'    = [w \in Slots |-> "free"]
  /\ kind'  = [w \in Slots |-> "test"]
  /\ about' = [w \in Slots |-> None]
  /\ mutex' = None
  /\ suppressor' = [k \in Keys |-> None]
  /\ UNCHANGED <<enabled, since, now, told>>

Next == \/ \E w \in Slots : Step(w)
        \/ \E s \in Servers : GoOffline(s) \/ GoOnline(s) \/ CheckCPU(s)
        \/ TestNotification \/ SaveSettings \/ Tick \/ Restart

Spec == Init /\ [][Next]_vars

\* Goroutines are scheduled, and a sync.Mutex is handed to one that has waited
\* for long (starvation mode), hence strong fairness of Lock.
FairSpec == Spec /\ \A w \in Slots : WF_vars(Step(w)) /\ SF_vars(Lock(w))
----------------------------------------------------------------------------
Labels == {"free", "read", "lock", "check", "record", "hand"}
Times  == (0..now) \cup {None}
Pending(w, k, s) == pc[w] # "free" /\ kind[w] = k /\ about[w] = s
Handing(w, k)    == pc[w] = "hand" /\ kind[w] = k

\* Every variable has its type, no time is ahead of the clock, and the mutex is
\* held exactly by the goroutine between Lock and Unlock.
TypeOK == /\ enabled \in BOOLEAN
          /\ now \in 0..MaxNow /\ restarts \in 0..MaxRestarts
          /\ since \in [Servers -> Times]
          /\ pc \in [Slots -> Labels]
          /\ kind \in [Slots -> Kinds]
          /\ about \in [Slots -> Servers \cup {None}]
          /\ mutex \in Slots \cup {None}
          /\ suppressor \in [Keys -> Times]
          /\ named \in [Servers -> Times]
          /\ announced \in Times
          /\ excused \subseteq Servers
          /\ \A w \in Slots : /\ mutex = w <=> pc[w] \in {"check", "record"}
                              /\ pc[w] \in {"lock", "check", "record"} => kind[w] # "test"
                              /\ kind[w] # "test" => about[w] \in Servers

\* A server other than KVM is not silently offline: unless an alert about it met
\* disabled settings or a restart, or is still on its way, it has been named in
\* a message since its outage began or less than Window before that.
OwnOutageAnnounced ==
  \A s \in Servers \ excused :
    /\ s[1] # "kvm" /\ since[s] # None
    /\ \A w \in Slots : ~Pending(w, "own", s)
    => named[s] # None /\ named[s] + Window > since[s]

\* Of a KVM server only this is true: unless the alert of its status change is on
\* its way, or that of another server is just being handed on, some outage has
\* been announced since its own began or less than Window before that (all status
\* changes share a key, so the message may be about another server).
SomeOutageAnnounced ==
  \A s \in Servers \ excused :
    /\ since[s] # None
    /\ \A w \in Slots : ~Pending(w, "history", s) /\ ~Handing(w, "history")
    => announced # None /\ announced + Window > since[s]

\* Every alert goroutine ends: no path through Notify keeps the mutex.
AlertsFinish == \A w \in Slots : pc[w] # "free" ~> pc[w] = "free"

\* The map and its mutex, whatever goroutines use them, are a rate limiter.
Limiter == INSTANCE RateLimiter WITH last <- suppressor, clock <- now

\* Under one key nothing passes less than Window after the last thing that did,
\* although the check and the note of the time are separate steps.
ImplementsLimiter == Limiter!Spec
============================================================================
