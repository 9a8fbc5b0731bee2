------------------------------ MODULE GeoQueue ------------------------------
(***************************************************************************)
(* The traffic map of a firewall: its connections are located one address  *)
(* at a time, through a queue, and what was found out is kept in the       *)
(* browser's storage.  The map is rendered again on every refresh of the   *)
(* page and on every use of its controls, also for another firewall, while *)
(* lookups of the previous rendering are still queued.                     *)
(***************************************************************************)
EXTENDS Naturals, FiniteSets, SequencesExt

CONSTANTS
  GeoAddresses, \* addresses the firewalls talk to or have themselves
  GeoInbound,   \* those that send more than they receive
  GeoHomes,     \* the public addresses the firewalls may have
  GeoUnknown,   \* addresses that cannot be located
  GeoRenders,   \* bound on the renderings
  GeoLimits,    \* bound on the answers that ask to slow down
  GeoFailures   \* bound on the requests that fail

\* The server locates "self" by the address it sees itself.
Self    == "self"
Nowhere == "nowhere"
Located == GeoAddresses \cup {Self}
Modes   == {"all", "inbound", "outbound"}

ASSUME GeoAssumption ==
  /\ IsFiniteSet(GeoAddresses) /\ GeoInbound \subseteq GeoAddresses /\ GeoHomes \subseteq GeoAddresses /\ GeoUnknown \subseteq GeoAddresses
  /\ Self \notin GeoAddresses /\ Nowhere \notin GeoAddresses
  /\ GeoRenders \in Nat /\ GeoLimits \in Nat /\ GeoFailures \in Nat

VARIABLES
  geo,     \* the map: storage, queue, home and what is drawn, see GeoInit
  dropped, \* history: addresses whose request failed since the last rendering
  geoRenders, geoLimits, geoFailures
geoVars == <<geo, dropped, geoRenders, geoLimits, geoFailures>>

\* A lookup: the address, what for, and the connections it is for.
Lookup(a, why, of) == [ip |-> a, why |-> why, of |-> of]

GeoInit == /\ geo = [storage |-> [a \in Located |-> "none"], \* or "found" or "error"
                     queue |-> <<>>, turn |-> FALSE,         \* a timer is set for the next lookup
                     stage |-> "idle", item |-> Lookup(Self, "home", {}),
                     host |-> Self, homeIP |-> Nowhere, homeGeo |-> Nowhere, conns |-> {},
                     markers |-> {}, lines |-> {}, heat |-> {}, showHeat |-> FALSE, filter |-> "all"]
           /\ dropped = {} /\ geoRenders = 0 /\ geoLimits = 0 /\ geoFailures = 0

----------------------------------------------------------------------------
(* Drawing and queueing, as functions on the map *)

Found(m, as)   == {a \in as : m.storage[a] = "found"}
Missing(m, as) == {a \in as : m.storage[a] = "none"}
Queued(m)      == {m.queue[i].ip : i \in DOMAIN m.queue}

\* A line runs from the sender to the receiver.
CurvedPath(a, home) == IF a \in GeoInbound THEN <<a, home>> ELSE <<home, a>>
\* No line without a located home, nor from a place to itself.
SingleLines(m, as) ==
  IF m.homeGeo \notin Located THEN m ELSE [m EXCEPT !.lines = @ \cup {CurvedPath(a, m.homeGeo) : a \in as \ {m.homeGeo}}]
AddMarkers(m, as) == SingleLines([m EXCEPT !.markers = @ \cup as], as)
DrawLines(m)      == SingleLines(m, Found(m, m.conns))

\* One lookup for each address of a set.
Lookups(as, why, of) == LET q == SetToSeq(as) IN [i \in DOMAIN q |-> Lookup(q[i], why, of[q[i]])]
EnqueueHome(m, a)    == [m EXCEPT !.queue = <<Lookup(a, "home", {})>> \o @]
\* Heat of what is known; each address not in the storage is looked up ahead of
\* all others, once more at each drawing, to draw the heat of cs again.
DrawHeat(m, cs) == [m EXCEPT !.heat = Found(m, cs),
                             !.queue = Lookups(Missing(m, cs), "heat", [a \in cs |-> cs]) \o @]

\* What the callback of a lookup does with its answer.
Callback(m, item, found) ==
  CASE item.why = "marker" -> IF found THEN AddMarkers(m, {item.ip}) ELSE m
    [] item.why = "heat"   -> DrawHeat(m, item.of)
    [] item.why = "home"   -> IF found THEN DrawLines([m EXCEPT !.homeGeo = item.ip])
                              ELSE IF item.ip # Self THEN EnqueueHome([m EXCEPT !.homeIP = Self], Self) ELSE m

\* The end of a turn sets the timer of the next one.
Turned(m) == [m EXCEPT !.stage = "idle", !.turn = @ \/ m.queue # <<>>]
\* processGeoQueue up to its first await: the head's callback runs at once when
\* the storage knows the address, otherwise the server is asked.
ProcessGeoQueue(m) ==
  IF m.stage # "idle" \/ m.queue = <<>> THEN m
  ELSE LET item == Head(m.queue)   rest == [m EXCEPT !.queue = Tail(@)] IN
       IF m.storage[item.ip] = "none" THEN [rest EXCEPT !.stage = "fetch", !.item = item]
       ELSE Turned(Callback(rest, item, m.storage[item.ip] = "found"))

QueueHome(m, a)     == ProcessGeoQueue(EnqueueHome(m, a))
UpdateHeatmap(m, cs) == ProcessGeoQueue(DrawHeat(m, cs))

\* Addresses that are queued already are not queued again.
QueueMarkers(m, cs) ==
  [AddMarkers(m, Found(m, cs)) EXCEPT
     !.queue = @ \o Lookups(Missing(m, cs) \ Queued(m), "marker", [a \in cs |-> {a}])]

\* A home that could not be located is asked for again when the home changes,
\* and taken as it is in the storage when it does not.
UpdateHomeLocation(m) ==
  LET a == m.host
      n == [m EXCEPT !.homeIP = a, !.homeGeo = Nowhere] IN
  IF a # m.homeIP THEN
    CASE m.storage[a] = "found" -> DrawLines([n EXCEPT !.homeGeo = a])
      [] m.storage[a] = "error" -> QueueHome([n EXCEPT !.storage[a] = "none"], a)
      [] m.storage[a] = "none"  -> QueueHome(n, a)
  ELSE IF m.homeGeo # Nowhere THEN m
  ELSE CASE m.storage[a] = "found" -> DrawLines([m EXCEPT !.homeGeo = a])
         [] m.storage[a] = "error" -> [m EXCEPT !.homeGeo = "error"]
         [] m.storage[a] = "none"  -> QueueHome(m, a)

Filtered(m) == {a \in m.conns : m.filter = "all" \/ (m.filter = "inbound") = (a \in GeoInbound)}

Rendered(m) ==
  LET n == UpdateHomeLocation([m EXCEPT !.markers = {}, !.lines = {}, !.heat = {}]) IN
  ProcessGeoQueue(IF n.showHeat THEN UpdateHeatmap(n, Filtered(n)) ELSE QueueMarkers(n, Filtered(n)))

----------------------------------------------------------------------------
(* The renderings, the answers and the timers *)

Draw(m) == /\ geoRenders < GeoRenders
           /\ geo' = Rendered(m) /\ geoRenders' = geoRenders + 1 /\ dropped' = {}
           /\ UNCHANGED <<geoLimits, geoFailures>>

\* The page of a firewall with this home and these connections.
Render(home, cs) == Draw([geo EXCEPT !.host = home, !.conns = cs])
\* The controls come with the first rendering.
SetFilter(mode)  == geoRenders > 0 /\ mode # geo.filter /\ Draw([geo EXCEPT !.filter = mode])
ToggleHeatmap    == geoRenders > 0 /\ Draw([geo EXCEPT !.showHeat = ~@])

Step(m) == geo' = m /\ UNCHANGED geoRenders

NextTurn == /\ geo.turn
            /\ Step(ProcessGeoQueue([geo EXCEPT !.turn = FALSE]))
            /\ UNCHANGED <<dropped, geoLimits, geoFailures>>

\* The address, or that it has none, goes to the storage.
Answer == /\ geo.stage = "fetch"
          /\ LET a == geo.item.ip   found == a \notin GeoUnknown IN
               Step(Turned(Callback([geo EXCEPT !.storage[a] = IF found THEN "found" ELSE "error"], geo.item, found)))
          /\ UNCHANGED <<dropped, geoLimits, geoFailures>>

\* Mutated: the lookup that was refused is not queued again.
SlowDownAndLose == /\ geo.stage = "fetch" /\ geoLimits < GeoLimits
                  /\ Step([geo EXCEPT !.stage = "pause"]) /\ geoLimits' = geoLimits + 1
                  /\ UNCHANGED <<dropped, geoFailures>>
\* Too many requests: the lookup goes back to the head and all wait.
SlowDown == /\ geo.stage = "fetch" /\ geoLimits < GeoLimits
           /\ Step([geo EXCEPT !.stage = "pause", !.queue = <<geo.item>> \o @]) /\ geoLimits' = geoLimits + 1
           /\ UNCHANGED <<dropped, geoFailures>>
\* Mutated: no timer is set after the pause.
ResumeIdle == geo.stage = "pause" /\ Step([geo EXCEPT !.stage = "idle"]) /\ UNCHANGED <<dropped, geoLimits, geoFailures>>
Resume     == geo.stage = "pause" /\ Step(Turned(geo)) /\ UNCHANGED <<dropped, geoLimits, geoFailures>>

\* A request that fails is not remembered.
LookupFails == /\ geo.stage = "fetch" /\ geoFailures < GeoFailures
          /\ Step(Turned(Callback(geo, geo.item, FALSE)))
          /\ dropped' = dropped \cup {geo.item.ip} /\ geoFailures' = geoFailures + 1
          /\ UNCHANGED geoLimits

GeoNext == \/ \E home \in GeoHomes \cup {Self}, cs \in SUBSET GeoAddresses : Render(home, cs)
           \/ \E mode \in Modes : SetFilter(mode)
           \/ ToggleHeatmap \/ NextTurn \/ Answer \/ SlowDown \/ Resume \/ LookupFails

\* Timers fire and requests are answered; a server that always refuses, or never
\* answers, is not covered.
GeoFairness == WF_geoVars(NextTurn) /\ WF_geoVars(Answer) /\ WF_geoVars(Resume)
GeoSpec == GeoInit /\ [][GeoNext]_geoVars /\ GeoFairness

----------------------------------------------------------------------------
(* Properties *)

GeoLookups == [ip : Located, why : {"marker", "heat", "home"}, of : SUBSET GeoAddresses]
\* Every variable has its type: the queue holds lookups of addresses, lines and
\* markers are at addresses.
GeoTypeOK ==
  /\ geo = [storage |-> geo.storage, queue |-> geo.queue, turn |-> geo.turn, stage |-> geo.stage, item |-> geo.item,
            host |-> geo.host, homeIP |-> geo.homeIP, homeGeo |-> geo.homeGeo, conns |-> geo.conns,
            markers |-> geo.markers, lines |-> geo.lines, heat |-> geo.heat, showHeat |-> geo.showHeat, filter |-> geo.filter]
  /\ geo.storage \in [Located -> {"none", "found", "error"}] /\ geo.queue \in Seq(GeoLookups) /\ geo.turn \in BOOLEAN
  /\ geo.stage \in {"idle", "fetch", "pause"} /\ geo.item \in GeoLookups
  /\ geo.host \in Located /\ geo.homeIP \in Located \cup {Nowhere} /\ geo.homeGeo \in Located \cup {Nowhere, "error"}
  /\ geo.conns \subseteq GeoAddresses /\ geo.markers \subseteq GeoAddresses /\ geo.lines \subseteq Located \X Located
  /\ geo.heat \subseteq GeoAddresses /\ geo.showHeat \in BOOLEAN /\ geo.filter \in Modes
  /\ dropped \subseteq Located
  /\ geoRenders \in 0..GeoRenders /\ geoLimits \in 0..GeoLimits /\ geoFailures \in 0..GeoFailures

\* No address of a connection on the map is forgotten: it is in the storage,
\* queued, asked for, or its request failed since the map was last drawn; a
\* refusal, a change of firewall, filter or heat map loses none.
NoAddressForgotten ==
  Filtered(geo) \subseteq Found(geo, geo.conns) \cup {a \in geo.conns : geo.storage[a] = "error"}
                         \cup Queued(geo) \cup dropped \cup (IF geo.stage = "fetch" THEN {geo.item.ip} ELSE {})

\* The queue drains and all connections shown by then are located or failed: the
\* turns do not stop while a lookup is queued.
QueueDrains == <>[](geo.queue = <<>> /\ geo.stage = "idle" /\ ~geo.turn)
=============================================================================
