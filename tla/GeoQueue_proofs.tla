--------------------------- MODULE GeoQueue_proofs ---------------------------
(***************************************************************************)
(* No address of a connection on the traffic map is forgotten, for any     *)
(* finite set of addresses, of firewalls and of renderings: a rendering    *)
(* sees to every address it shows, and nothing the queue does afterwards   *)
(* loses one, only moves it from the queue to the request and from there   *)
(* to the storage.  The types of the map need what its queue holds: only   *)
(* the home can be the browser's own address, which has no marker.         *)
(***************************************************************************)
EXTENDS GeoQueue, FiniteSetTheorems, SequenceTheorems, TLAPS

\* The addresses of a queue.
Addresses(q) == {q[i].ip : i \in DOMAIN q}

GeoFields == {"storage", "queue", "turn", "stage", "item", "host", "homeIP", "homeGeo", "conns",
              "markers", "lines", "heat", "showHeat", "filter"}
\* A map as the functions of the module take it.
GeoMap(m) == /\ GeoFields \subseteq DOMAIN m
             /\ m.storage \in [Located -> {"none", "found", "error"}]
             /\ m.queue \in Seq(GeoLookups) /\ m.item \in GeoLookups
             /\ m.host \in Located /\ m.conns \subseteq GeoAddresses

\* What is known of an address, or under way to be.
SeenTo(m) == {a \in Located : m.storage[a] # "none"} \cup Addresses(m.queue)
             \cup (IF m.stage = "fetch" THEN {m.item.ip} ELSE {})

\* A map of the same firewall, with the same controls.
SameView(n, m) == n.conns = m.conns /\ n.filter = m.filter /\ n.showHeat = m.showHeat /\ n.host = m.host
\* A map that has more queued, at most.
Adds(n, m)  == /\ GeoMap(n) /\ SameView(n, m)
               /\ n.storage = m.storage /\ n.stage = m.stage /\ n.item = m.item
               /\ Addresses(m.queue) \subseteq Addresses(n.queue)
\* A map that has lost no address.
Keeps(n, m) == GeoMap(n) /\ SameView(n, m) /\ SeenTo(m) \subseteq SeenTo(n)

\* What is shown is seen to, but for requests that failed.
GeoInv == GeoMap(geo) /\ Filtered(geo) \subseteq SeenTo(geo) \cup dropped

----------------------------------------------------------------------------
(* Sequences *)

\* A sequence made of a finite set has its elements.
LEMMA SeqOfSet == ASSUME NEW S, IsFiniteSet(S)
                  PROVE  /\ SetToSeq(S) \in Seq(S)
                         /\ {SetToSeq(S)[i] : i \in DOMAIN SetToSeq(S)} = S
<1> DEFINE n == Cardinality(S)
           f == SetToSeq(S)
<1>1. n \in Nat /\ ExistsBijection(1..n, S)
  BY FS_CardinalityType
<1>2. PICK b \in Bijection(1..n, S) : TRUE
  BY <1>1 DEF ExistsBijection
<1>3. b \in [1..n -> S] /\ IsInjective(b)
  BY <1>2 DEF Bijection, Injection
<1>4. f \in [1..n -> S] /\ IsInjective(f)
  BY <1>3 DEF SetToSeq
<1>5. f \in Injection(1..n, S)
  BY <1>4 DEF Injection
<1>6. IsFiniteSet(1..n) /\ Cardinality(1..n) = n
  BY <1>1, FS_Interval
<1>7. f \in Surjection(1..n, S)
  BY <1>5, <1>6, FS_Injection
<1>8. \A s \in S : \E i \in 1..n : f[i] = s
  BY <1>7 DEF Surjection
<1> HIDE DEF f, n
<1>9. f \in Seq(S)
  BY <1>1, <1>4
<1>10. {f[i] : i \in DOMAIN f} = S
  BY <1>4, <1>8
<1>11. QED
  BY <1>9, <1>10 DEF f

\* Two queues one after the other have the addresses of both.
LEMMA AddressesOfBoth == ASSUME NEW s \in Seq(GeoLookups), NEW t \in Seq(GeoLookups)
                         PROVE  /\ s \o t \in Seq(GeoLookups)
                                /\ Addresses(s \o t) = Addresses(s) \cup Addresses(t)
<1>1. /\ s \o t \in Seq(GeoLookups) /\ Len(s) \in Nat /\ Len(t) \in Nat
      /\ DOMAIN s = 1..Len(s) /\ DOMAIN t = 1..Len(t) /\ DOMAIN (s \o t) = 1..(Len(s) + Len(t))
      /\ \A i \in 1..(Len(s) + Len(t)) : (s \o t)[i] = IF i <= Len(s) THEN s[i] ELSE t[i - Len(s)]
  BY ConcatProperties, LenProperties
<1>2. ASSUME NEW i \in DOMAIN (s \o t) PROVE (s \o t)[i].ip \in Addresses(s) \cup Addresses(t)
  <2>1. CASE i <= Len(s)
    BY <1>1, <2>1 DEF Addresses
  <2>2. CASE ~(i <= Len(s))
    <3>1. i - Len(s) \in DOMAIN t
      BY <1>1, <2>2
    <3>2. QED
      BY <1>1, <2>2, <3>1 DEF Addresses
  <2>3. QED
    BY <2>1, <2>2
<1>3. ASSUME NEW i \in DOMAIN s PROVE s[i].ip \in Addresses(s \o t)
  <2>1. i \in DOMAIN (s \o t) /\ (s \o t)[i] = s[i]
    BY <1>1
  <2>2. QED
    BY <2>1 DEF Addresses
<1>4. ASSUME NEW i \in DOMAIN t PROVE t[i].ip \in Addresses(s \o t)
  <2>1. i + Len(s) \in DOMAIN (s \o t) /\ ~(i + Len(s) <= Len(s)) /\ i + Len(s) - Len(s) = i
    BY <1>1
  <2>2. (s \o t)[i + Len(s)] = t[i]
    BY <1>1, <2>1
  <2>3. QED
    BY <2>1, <2>2 DEF Addresses
<1>5. QED
  BY <1>1, <1>2, <1>3, <1>4 DEF Addresses

\* The head of a queue is the only address its tail may lack.
LEMMA AddressesOfTail == ASSUME NEW q \in Seq(GeoLookups), q # <<>>
                         PROVE  /\ Head(q) \in GeoLookups /\ Tail(q) \in Seq(GeoLookups)
                                /\ Addresses(q) \subseteq Addresses(Tail(q)) \cup {Head(q).ip}
<1>1. /\ Head(q) \in GeoLookups /\ Tail(q) \in Seq(GeoLookups) /\ Len(Tail(q)) = Len(q) - 1
      /\ \A i \in 1..Len(Tail(q)) : Tail(q)[i] = q[i + 1]
  BY HeadTailProperties
<1>2. Len(q) \in Nat /\ DOMAIN q = 1..Len(q) /\ DOMAIN Tail(q) = 1..Len(Tail(q)) /\ Head(q) = q[1]
  BY <1>1, LenProperties
<1>3. ASSUME NEW i \in DOMAIN q, i # 1 PROVE q[i].ip \in Addresses(Tail(q))
  <2>1. i - 1 \in DOMAIN Tail(q) /\ (i - 1) + 1 = i
    BY <1>1, <1>2, <1>3
  <2>2. Tail(q)[i - 1] = q[i]
    BY <1>1, <1>2, <2>1
  <2>3. QED
    BY <2>1, <2>2 DEF Addresses
<1>4. QED
  BY <1>1, <1>2, <1>3 DEF Addresses

\* One lookup for each address.
LEMMA LookupsOfSet == ASSUME NEW as \in SUBSET GeoAddresses, NEW why \in {"marker", "heat", "home"},
                             NEW of, \A a \in as : of[a] \subseteq GeoAddresses
                      PROVE  /\ Lookups(as, why, of) \in Seq(GeoLookups)
                             /\ Addresses(Lookups(as, why, of)) = as
<1> DEFINE q == SetToSeq(as)
           l == Lookups(as, why, of)
<1>1. IsFiniteSet(as)
  BY FS_Subset, GeoAssumption
<1>2. q \in Seq(as) /\ {q[i] : i \in DOMAIN q} = as
  BY <1>1, SeqOfSet
<1>3. l = [i \in DOMAIN q |-> [ip |-> q[i], why |-> why, of |-> of[q[i]]]]
  BY DEF Lookups, Lookup
<1> HIDE DEF q, l
<1>4. Len(q) \in Nat /\ DOMAIN q = 1..Len(q) /\ \A i \in DOMAIN q : q[i] \in as
  BY <1>2, LenProperties
<1>5. \A i \in DOMAIN q : l[i] \in GeoLookups
  BY <1>3, <1>4 DEF GeoLookups, Located
<1>6. l \in Seq(GeoLookups)
  BY <1>3, <1>4, <1>5
<1>7. Addresses(l) = as
  BY <1>2, <1>3 DEF Addresses
<1>8. QED
  BY <1>6, <1>7 DEF l

----------------------------------------------------------------------------
(* The functions on the map *)

\* A map with more queued is one that has lost nothing.
LEMMA AddsKeeps == ASSUME NEW m, NEW n, Adds(n, m) PROVE Keeps(n, m)
  BY DEF Adds, Keeps, SeenTo

\* So are two steps of either kind.
LEMMA AddsTwice == ASSUME NEW m, NEW n, NEW o, Adds(n, m), Adds(o, n) PROVE Adds(o, m)
  BY DEF Adds, SameView

\* The same of maps that have lost nothing.
LEMMA KeepsTwice == ASSUME NEW m, NEW n, NEW o, Keeps(n, m), Keeps(o, n) PROVE Keeps(o, m)
  BY DEF Keeps, SameView

\* A map with another queue.
LEMMA Requeued == ASSUME NEW m, GeoMap(m), NEW q \in Seq(GeoLookups), Addresses(m.queue) \subseteq Addresses(q)
                  PROVE  Adds([m EXCEPT !.queue = q], m) /\ [m EXCEPT !.queue = q].queue = q
  BY DEF Adds, SameView, GeoMap, GeoFields

\* What is drawn is no matter of the queue.
LEMMA LinesAdd == ASSUME NEW m, GeoMap(m), NEW as PROVE Adds(SingleLines(m, as), m)
<1> DEFINE l == m.lines \cup {CurvedPath(a, m.homeGeo) : a \in as \ {m.homeGeo}}
<1>1. SingleLines(m, as) = m \/ SingleLines(m, as) = [m EXCEPT !.lines = l]
  BY DEF SingleLines
<1> HIDE DEF l
<1>2. QED
  BY <1>1 DEF Adds, SameView, GeoMap, GeoFields

\* Nor are the markers.
LEMMA MarkersAdd == ASSUME NEW m, GeoMap(m), NEW as PROVE Adds(AddMarkers(m, as), m)
<1> DEFINE k == m.markers \cup as
           n == [m EXCEPT !.markers = k]
<1> HIDE DEF k
<1>1. Adds(n, m)
  BY DEF Adds, SameView, GeoMap, GeoFields
<1> HIDE DEF n
<1>2. Adds(SingleLines(n, as), n)
  BY <1>1, LinesAdd DEF Adds
<1>3. AddMarkers(m, as) = SingleLines(n, as)
  BY DEF AddMarkers, n, k
<1>4. QED
  BY <1>1, <1>2, <1>3, AddsTwice

\* Nor all lines drawn at once.
LEMMA DrawnLinesAdd == ASSUME NEW m, GeoMap(m) PROVE Adds(DrawLines(m), m)
  BY LinesAdd DEF DrawLines

\* The home is queued.
LEMMA HomeQueued == ASSUME NEW m, GeoMap(m), NEW a \in Located
                    PROVE  Adds(EnqueueHome(m, a), m) /\ a \in Addresses(EnqueueHome(m, a).queue)
<1> DEFINE h == <<Lookup(a, "home", {})>>
<1>1. Lookup(a, "home", {}) \in GeoLookups /\ Lookup(a, "home", {}).ip = a
  BY DEF Lookup, GeoLookups
<1>2. h \in Seq(GeoLookups) /\ a \in Addresses(h)
  BY <1>1 DEF Addresses
<1> HIDE DEF h
<1>3. h \o m.queue \in Seq(GeoLookups) /\ Addresses(h \o m.queue) = Addresses(h) \cup Addresses(m.queue)
  BY <1>2, AddressesOfBoth DEF GeoMap
<1>4. EnqueueHome(m, a) = [m EXCEPT !.queue = h \o m.queue]
  BY DEF EnqueueHome, h
<1>5. QED
  BY <1>2, <1>3, <1>4, Requeued

\* The heat queues each address that is not known.
LEMMA HeatAdds == ASSUME NEW m, GeoMap(m), NEW cs \in SUBSET GeoAddresses
                  PROVE  Adds(DrawHeat(m, cs), m) /\ Missing(m, cs) \subseteq Addresses(DrawHeat(m, cs).queue)
<1> DEFINE l == Lookups(Missing(m, cs), "heat", [a \in cs |-> cs])
           f == Found(m, cs)
           n == [m EXCEPT !.heat = f]
<1>1. l \in Seq(GeoLookups) /\ Addresses(l) = Missing(m, cs)
  <2>1. Missing(m, cs) \in SUBSET GeoAddresses /\ \A a \in Missing(m, cs) : [b \in cs |-> cs][a] \subseteq GeoAddresses
    BY DEF Missing
  <2> DEFINE w == Missing(m, cs)
             o == [b \in cs |-> cs]
  <2>2. w \in SUBSET GeoAddresses /\ \A a \in w : o[a] \subseteq GeoAddresses
    BY <2>1
  <2> HIDE DEF w, o
  <2>3. Lookups(w, "heat", o) \in Seq(GeoLookups) /\ Addresses(Lookups(w, "heat", o)) = w
    BY <2>2, LookupsOfSet
  <2>4. QED
    BY <2>3 DEF w, o
<1> HIDE DEF l, f
<1>2. l \o m.queue \in Seq(GeoLookups) /\ Addresses(l \o m.queue) = Addresses(l) \cup Addresses(m.queue)
  BY <1>1, AddressesOfBoth DEF GeoMap
<1>3. Adds(n, m) /\ n.queue = m.queue
  BY DEF Adds, SameView, GeoMap, GeoFields
<1>4. DrawHeat(m, cs) = [n EXCEPT !.queue = l \o m.queue]
  BY DEF DrawHeat, l, f, GeoMap, GeoFields
<1> HIDE DEF n
<1>5. Adds([n EXCEPT !.queue = l \o m.queue], n) /\ [n EXCEPT !.queue = l \o m.queue].queue = l \o m.queue
  BY <1>2, <1>3, Requeued DEF Adds
<1>6. QED
  BY <1>1, <1>2, <1>3, <1>4, <1>5, AddsTwice

\* What is done with an answer loses no address.
LEMMA CallbackAdds == ASSUME NEW m, GeoMap(m), NEW item \in GeoLookups, NEW found \in BOOLEAN
                      PROVE  Adds(Callback(m, item, found), m)
<1>1. item.ip \in Located /\ item.of \in SUBSET GeoAddresses /\ item.why \in {"marker", "heat", "home"}
  BY DEF GeoLookups
<1>2. Adds(m, m)
  BY DEF Adds, SameView
<1>3. CASE item.why = "marker"
  BY <1>2, <1>3, MarkersAdd DEF Callback
<1>4. CASE item.why = "heat"
  BY <1>1, <1>4, HeatAdds DEF Callback
<1>5. CASE item.why = "home"
  <2> DEFINE g == [m EXCEPT !.homeGeo = item.ip]
             h == [m EXCEPT !.homeIP = Self]
  <2>1. Adds(g, m) /\ Adds(h, m)
    BY DEF Adds, SameView, GeoMap, GeoFields
  <2>2. Self \in Located
    BY DEF Located
  <2>3. Callback(m, item, found) = IF found THEN DrawLines(g) ELSE IF item.ip # Self THEN EnqueueHome(h, Self) ELSE m
    BY <1>5 DEF Callback
  <2> HIDE DEF g, h
  <2>4. Adds(DrawLines(g), g) /\ Adds(EnqueueHome(h, Self), h)
    BY <2>1, <2>2, DrawnLinesAdd, HomeQueued DEF Adds
  <2>5. QED
    BY <1>2, <2>1, <2>3, <2>4, AddsTwice
<1>6. QED
  BY <1>1, <1>3, <1>4, <1>5

\* The end of a turn is that of the request, too.
LEMMA TurnKeeps == ASSUME NEW m, GeoMap(m), m.stage = "fetch" => m.item.ip \in Addresses(m.queue) \/ m.storage[m.item.ip] # "none"
                   PROVE  Keeps(Turned(m), m)
<1> DEFINE t == m.turn \/ m.queue # <<>>
           n == [m EXCEPT !.stage = "idle", !.turn = t]
<1>1. Turned(m) = n
  BY DEF Turned
<1> HIDE DEF t
<1>2. GeoMap(n) /\ SameView(n, m) /\ n.storage = m.storage /\ n.queue = m.queue
  BY DEF SameView, GeoMap, GeoFields
<1>3. m.item.ip \in Located
  BY DEF GeoMap, GeoLookups
<1> HIDE DEF n
<1>4. QED
  BY <1>1, <1>2, <1>3 DEF Keeps, SeenTo

\* A turn of the queue moves its head to the request, unless it is known.
LEMMA ProcessKeeps == ASSUME NEW m, GeoMap(m) PROVE Keeps(ProcessGeoQueue(m), m)
<1>1. CASE m.stage # "idle" \/ m.queue = <<>>
  BY <1>1 DEF ProcessGeoQueue, Keeps, SameView
<1>2. CASE m.stage = "idle" /\ m.queue # <<>>
  <2> DEFINE item == Head(m.queue)
             tail == Tail(m.queue)
             rest == [m EXCEPT !.queue = tail]
             f    == m.storage[item.ip] = "found"
             n    == [rest EXCEPT !.stage = "fetch", !.item = item]
  <2>1. /\ item \in GeoLookups /\ tail \in Seq(GeoLookups)
        /\ Addresses(m.queue) \subseteq Addresses(tail) \cup {item.ip}
    BY <1>2, AddressesOfTail DEF GeoMap
  <2>2. rest.storage = m.storage
    BY DEF GeoMap, GeoFields
  <2>3. ProcessGeoQueue(m) = IF m.storage[item.ip] = "none" THEN n ELSE Turned(Callback(rest, item, f))
    BY <1>2, <2>2 DEF ProcessGeoQueue
  <2> HIDE DEF item, tail, f
  <2>4. /\ GeoMap(rest) /\ SameView(rest, m) /\ rest.storage = m.storage /\ rest.stage = "idle"
        /\ rest.queue = tail
    BY <1>2, <2>1 DEF SameView, GeoMap, GeoFields
  <2> HIDE DEF rest
  <2>5. item.ip \in Located
    BY <2>1 DEF GeoLookups
  <2>6. SeenTo(m) \subseteq SeenTo(rest) \cup {item.ip}
    BY <1>2, <2>1, <2>4 DEF SeenTo
  <2>7. CASE m.storage[item.ip] = "none"
    <3>1. /\ GeoMap(n) /\ SameView(n, rest) /\ n.storage = rest.storage /\ n.queue = rest.queue
          /\ n.stage = "fetch" /\ n.item = item
      BY <2>1, <2>4 DEF SameView, GeoMap, GeoFields
    <3> HIDE DEF n
    <3>2. SeenTo(rest) \cup {item.ip} \subseteq SeenTo(n)
      BY <2>4, <3>1 DEF SeenTo
    <3>3. QED
      BY <2>3, <2>4, <2>6, <2>7, <3>1, <3>2 DEF Keeps, SameView
  <2>8. CASE m.storage[item.ip] # "none"
    <3> DEFINE c == Callback(rest, item, f)
    <3>1. Adds(c, rest)
      BY <2>1, <2>4, CallbackAdds DEF f
    <3> HIDE DEF c
    <3>2. Keeps(Turned(c), c)
      BY <2>4, <3>1, TurnKeeps DEF Adds
    <3>3. Keeps(Turned(c), rest)
      BY <3>1, <3>2, AddsKeeps, KeepsTwice
    <3>4. item.ip \in SeenTo(rest)
      BY <2>4, <2>5, <2>8 DEF SeenTo
    <3>5. QED
      BY <2>3, <2>4, <2>6, <2>8, <3>3, <3>4 DEF Keeps, SameView, c
  <2>9. QED
    BY <2>7, <2>8
<1>3. QED
  BY <1>1, <1>2

\* The home is queued, and the head taken.
LEMMA QueueHomeKeeps == ASSUME NEW m, GeoMap(m), NEW a \in Located
                        PROVE  Keeps(QueueHome(m, a), m) /\ a \in SeenTo(QueueHome(m, a))
<1> DEFINE e == EnqueueHome(m, a)
<1>1. Adds(e, m) /\ a \in Addresses(e.queue)
  BY HomeQueued
<1> HIDE DEF e
<1>2. Keeps(ProcessGeoQueue(e), e)
  BY <1>1, ProcessKeeps DEF Adds
<1>3. Keeps(ProcessGeoQueue(e), m) /\ a \in SeenTo(ProcessGeoQueue(e))
  BY <1>1, <1>2, AddsKeeps, KeepsTwice DEF Keeps, SeenTo
<1>4. QED
  BY <1>3 DEF QueueHome, e

\* A home that could not be located is forgotten and queued at once.
LEMMA HomeAgainKeeps == ASSUME NEW m, GeoMap(m), NEW a \in Located
                        PROVE  Keeps(QueueHome([m EXCEPT !.storage[a] = "none"], a), m)
<1> DEFINE s == [m.storage EXCEPT ![a] = "none"]
           n == [m EXCEPT !.storage = s]
<1>1. s \in [Located -> {"none", "found", "error"}] /\ \A b \in Located \ {a} : s[b] = m.storage[b]
  BY DEF GeoMap
<1>2. [m EXCEPT !.storage[a] = "none"] = n
  OBVIOUS
<1> HIDE DEF s
<1>3. /\ GeoMap(n) /\ SameView(n, m) /\ n.storage = s /\ n.queue = m.queue /\ n.stage = m.stage /\ n.item = m.item
  BY <1>1 DEF SameView, GeoMap, GeoFields
<1> HIDE DEF n
<1>4. SeenTo(m) \subseteq SeenTo(n) \cup {a}
  BY <1>1, <1>3 DEF SeenTo
<1>5. Keeps(QueueHome(n, a), n) /\ a \in SeenTo(QueueHome(n, a))
  BY <1>3, QueueHomeKeeps
<1>6. QED
  BY <1>2, <1>3, <1>4, <1>5 DEF Keeps, SameView

\* The home of a firewall is located without losing an address.
LEMMA HomeKeeps == ASSUME NEW m, GeoMap(m) PROVE Keeps(UpdateHomeLocation(m), m)
<1> DEFINE a == m.host
           n == [m EXCEPT !.homeIP = a, !.homeGeo = Nowhere]
           g == [n EXCEPT !.homeGeo = a]
           f == [m EXCEPT !.homeGeo = a]
           e == [m EXCEPT !.homeGeo = "error"]
<1>1. a \in Located /\ m.storage[a] \in {"none", "found", "error"}
  BY DEF GeoMap
<1>2. Adds(n, m) /\ Adds(f, m) /\ Adds(e, m) /\ Adds(m, m)
  BY DEF Adds, SameView, GeoMap, GeoFields
<1>3. UpdateHomeLocation(m) \in {DrawLines(g), QueueHome([n EXCEPT !.storage[a] = "none"], a), QueueHome(n, a),
                                 m, DrawLines(f), e, QueueHome(m, a)}
  BY <1>1 DEF UpdateHomeLocation
<1> HIDE DEF a, n, f, e
<1>4. Adds(g, n)
  BY <1>2 DEF Adds, SameView, GeoMap, GeoFields
<1> HIDE DEF g
<1>5. Keeps(DrawLines(g), m) /\ Keeps(DrawLines(f), m) /\ Keeps(e, m) /\ Keeps(m, m)
  <2>1. Adds(DrawLines(g), g) /\ Adds(DrawLines(f), f)
    BY <1>2, <1>4, DrawnLinesAdd DEF Adds
  <2>2. QED
    BY <1>2, <1>4, <2>1, AddsTwice, AddsKeeps
<1>6. Keeps(QueueHome(n, a), m) /\ Keeps(QueueHome(m, a), m)
  BY <1>1, <1>2, QueueHomeKeeps, AddsKeeps, KeepsTwice DEF Adds
<1>7. Keeps(QueueHome([n EXCEPT !.storage[a] = "none"], a), m)
  BY <1>1, <1>2, HomeAgainKeeps, AddsKeeps, KeepsTwice DEF Adds
<1>8. QED
  BY <1>3, <1>5, <1>6, <1>7

\* The markers queue each address that is neither known nor queued.
LEMMA MarkersQueued == ASSUME NEW m, GeoMap(m), NEW cs \in SUBSET GeoAddresses
                       PROVE  Adds(QueueMarkers(m, cs), m) /\ Missing(m, cs) \subseteq Addresses(QueueMarkers(m, cs).queue)
<1> DEFINE k == AddMarkers(m, Found(m, cs))
           l == Lookups(Missing(m, cs) \ Queued(m), "marker", [a \in cs |-> {a}])
           q == k.queue \o l
<1>1. l \in Seq(GeoLookups) /\ Addresses(l) = Missing(m, cs) \ Addresses(m.queue)
  <2>1. Queued(m) = Addresses(m.queue)
    BY DEF Queued, Addresses
  <2>2. \A a \in Missing(m, cs) \ Queued(m) : [b \in cs |-> {b}][a] \subseteq GeoAddresses
    BY DEF Missing
  <2>3. Missing(m, cs) \ Queued(m) \in SUBSET GeoAddresses
    BY DEF Missing
  <2> DEFINE w == Missing(m, cs) \ Queued(m)
             o == [b \in cs |-> {b}]
  <2>4. w \in SUBSET GeoAddresses /\ \A a \in w : o[a] \subseteq GeoAddresses
    BY <2>2, <2>3
  <2> HIDE DEF w, o
  <2>5. Lookups(w, "marker", o) \in Seq(GeoLookups) /\ Addresses(Lookups(w, "marker", o)) = w
    BY <2>4, LookupsOfSet
  <2>6. QED
    BY <2>1, <2>5 DEF w, o
<1>2. Adds(k, m)
  BY MarkersAdd
<1>3. QueueMarkers(m, cs) = [k EXCEPT !.queue = q]
  BY DEF QueueMarkers
<1> HIDE DEF k, l
<1>4. q \in Seq(GeoLookups) /\ Addresses(q) = Addresses(k.queue) \cup Addresses(l)
  BY <1>1, <1>2, AddressesOfBoth DEF Adds, GeoMap
<1> HIDE DEF q
<1>5. Adds([k EXCEPT !.queue = q], k) /\ [k EXCEPT !.queue = q].queue = q
  BY <1>2, <1>4, Requeued DEF Adds
<1>6. Adds(QueueMarkers(m, cs), m)
  BY <1>2, <1>3, <1>5, AddsTwice
<1>7. Addresses(m.queue) \subseteq Addresses(k.queue)
  BY <1>2 DEF Adds
<1>8. QED
  BY <1>1, <1>3, <1>4, <1>5, <1>6, <1>7

\* A map whose unknown addresses are queued has all seen to.
LEMMA QueuedSeenTo == ASSUME NEW m, GeoMap(m), NEW cs \in SUBSET GeoAddresses, NEW n, Adds(n, m),
                             Missing(m, cs) \subseteq Addresses(n.queue)
                      PROVE  cs \subseteq SeenTo(n)
  BY DEF Adds, Missing, SeenTo, Located

\* A rendering sees to every address it shows.
LEMMA RenderedSeenTo == ASSUME NEW m, GeoMap(m)
                        PROVE  GeoMap(Rendered(m)) /\ Filtered(Rendered(m)) \subseteq SeenTo(Rendered(m))
<1> DEFINE b == [m EXCEPT !.markers = {}, !.lines = {}, !.heat = {}]
           n == UpdateHomeLocation(b)
           cs == Filtered(n)
           r == IF n.showHeat THEN UpdateHeatmap(n, cs) ELSE QueueMarkers(n, cs)
<1>1. GeoMap(b)
  BY DEF GeoMap, GeoFields
<1> HIDE DEF b
<1>2. GeoMap(n)
  BY <1>1, HomeKeeps DEF Keeps
<1>3. Rendered(m) = ProcessGeoQueue(r)
  BY DEF Rendered, b
<1> HIDE DEF n
<1>4. cs \in SUBSET GeoAddresses
  BY <1>2 DEF Filtered, GeoMap
<1> HIDE DEF cs
<1>5. GeoMap(r) /\ SameView(r, n) /\ cs \subseteq SeenTo(r)
  <2>1. CASE n.showHeat
    <3> DEFINE h == DrawHeat(n, cs)
    <3>1. Adds(h, n) /\ Missing(n, cs) \subseteq Addresses(h.queue)
      BY <1>2, <1>4, HeatAdds
    <3> HIDE DEF h
    <3>2. cs \subseteq SeenTo(h)
      BY <1>2, <1>4, <3>1, QueuedSeenTo
    <3>3. Keeps(ProcessGeoQueue(h), h)
      BY <3>1, ProcessKeeps DEF Adds
    <3>4. r = ProcessGeoQueue(h)
      BY <2>1 DEF UpdateHeatmap, h
    <3>5. QED
      BY <3>1, <3>2, <3>3, <3>4 DEF Adds, Keeps, SameView
  <2>2. CASE ~n.showHeat
    <3> DEFINE k == QueueMarkers(n, cs)
    <3>1. Adds(k, n) /\ Missing(n, cs) \subseteq Addresses(k.queue)
      BY <1>2, <1>4, MarkersQueued
    <3> HIDE DEF k
    <3>2. cs \subseteq SeenTo(k)
      BY <1>2, <1>4, <3>1, QueuedSeenTo
    <3>3. r = k
      BY <2>2 DEF k
    <3>4. QED
      BY <3>1, <3>2, <3>3 DEF Adds
  <2>3. QED
    BY <2>1, <2>2
<1> HIDE DEF r
<1>6. Keeps(ProcessGeoQueue(r), r)
  BY <1>5, ProcessKeeps
<1>7. Filtered(ProcessGeoQueue(r)) = cs
  BY <1>5, <1>6 DEF Keeps, SameView, Filtered, cs
<1>8. QED
  BY <1>3, <1>5, <1>6, <1>7 DEF Keeps

----------------------------------------------------------------------------
(* The invariant *)

\* Nothing is shown at first.
LEMMA GeoInvInit == GeoInit => GeoInv
<1> SUFFICES ASSUME GeoInit PROVE GeoInv
  OBVIOUS
<1>1. Self \in Located /\ Lookup(Self, "home", {}) \in GeoLookups
  BY DEF Located, Lookup, GeoLookups
<1>2. <<>> \in Seq(GeoLookups)
  OBVIOUS
<1>3. GeoMap(geo)
  BY <1>1, <1>2 DEF GeoInit, GeoMap, GeoFields
<1>4. geo.conns = {}
  BY DEF GeoInit
<1>5. QED
  BY <1>3, <1>4 DEF GeoInv, Filtered

\* A step that loses no address but to a failed request.
LEMMA GeoKept == ASSUME GeoInv, GeoMap(geo'), SameView(geo', geo), SeenTo(geo) \cup dropped \subseteq SeenTo(geo') \cup dropped'
                 PROVE  GeoInv'
<1>1. Filtered(geo') = Filtered(geo)
  BY DEF Filtered, SameView
<1>2. Filtered(geo') \subseteq SeenTo(geo') \cup dropped'
  BY <1>1 DEF GeoInv
<1>3. QED
  BY <1>2 DEF GeoInv, GeoMap, SeenTo, Filtered, Addresses

\* A rendering, of whatever firewall and with whatever controls.
LEMMA GeoDrawn == ASSUME NEW m, GeoMap(m), geo' = Rendered(m) PROVE GeoInv'
<1>1. GeoMap(geo') /\ Filtered(geo') \subseteq SeenTo(geo')
  BY RenderedSeenTo
<1>2. QED
  BY <1>1 DEF GeoInv, GeoMap, SeenTo, Filtered, Addresses

\* Every step sees to what is shown.
LEMMA GeoInvStep == GeoInv /\ [GeoNext]_geoVars => GeoInv'
<1> SUFFICES ASSUME GeoInv, [GeoNext]_geoVars PROVE GeoInv'
  OBVIOUS
<1>1. GeoMap(geo)
  BY DEF GeoInv
<1>2. ASSUME NEW home \in GeoHomes \cup {Self}, NEW cs \in SUBSET GeoAddresses, Render(home, cs) PROVE GeoInv'
  <2>1. home \in Located
    BY GeoAssumption DEF Located
  <2>2. GeoMap([geo EXCEPT !.host = home, !.conns = cs])
    BY <1>1, <2>1 DEF GeoMap, GeoFields
  <2>3. QED
    BY <1>2, <2>2, GeoDrawn DEF Render, Draw
<1>3. ASSUME NEW mode \in Modes, SetFilter(mode) PROVE GeoInv'
  <2>1. GeoMap([geo EXCEPT !.filter = mode])
    BY <1>1 DEF GeoMap, GeoFields
  <2>2. QED
    BY <1>3, <2>1, GeoDrawn DEF SetFilter, Draw
<1>4. CASE ToggleHeatmap
  <2> DEFINE v == ~geo.showHeat
  <2>1. geo' = Rendered([geo EXCEPT !.showHeat = v])
    BY <1>4 DEF ToggleHeatmap, Draw
  <2> HIDE DEF v
  <2>2. GeoMap([geo EXCEPT !.showHeat = v])
    BY <1>1 DEF GeoMap, GeoFields
  <2>3. QED
    BY <2>1, <2>2, GeoDrawn
<1>5. CASE NextTurn
  <2> DEFINE n == [geo EXCEPT !.turn = FALSE]
  <2>1. GeoMap(n) /\ SameView(n, geo) /\ SeenTo(n) = SeenTo(geo)
    BY <1>1 DEF GeoMap, GeoFields, SameView, SeenTo
  <2>2. geo' = ProcessGeoQueue(n) /\ dropped' = dropped
    BY <1>5 DEF NextTurn, Step
  <2> HIDE DEF n
  <2>3. Keeps(geo', n)
    BY <2>1, <2>2, ProcessKeeps
  <2>4. QED
    BY <2>1, <2>2, <2>3, GeoKept DEF Keeps, SameView
<1>6. CASE Answer
  <2> DEFINE a == geo.item.ip
             f == a \notin GeoUnknown
             v == IF f THEN "found" ELSE "error"
             s == [geo.storage EXCEPT ![a] = v]
             n == [geo EXCEPT !.storage = s]
             c == Callback(n, geo.item, f)
  <2>1. geo.stage = "fetch" /\ geo' = Turned(c) /\ dropped' = dropped
    BY <1>6 DEF Answer, Step
  <2>2. a \in Located /\ geo.item \in GeoLookups /\ v \in {"found", "error"} /\ f \in BOOLEAN
    BY <1>1 DEF GeoMap, GeoLookups
  <2> HIDE DEF v, f
  <2>3. s \in [Located -> {"none", "found", "error"}] /\ s[a] # "none" /\ \A b \in Located \ {a} : s[b] = geo.storage[b]
    BY <1>1, <2>2 DEF GeoMap
  <2> HIDE DEF s
  <2>4. /\ GeoMap(n) /\ SameView(n, geo) /\ n.storage = s /\ n.queue = geo.queue /\ n.stage = "fetch"
        /\ n.item = geo.item
    BY <1>1, <2>1, <2>3 DEF GeoMap, GeoFields, SameView
  <2> HIDE DEF n
  <2>5. Adds(c, n)
    BY <2>2, <2>4, CallbackAdds
  <2> HIDE DEF c
  <2>6. SeenTo(geo) \subseteq SeenTo(n)
    BY <2>1, <2>2, <2>3, <2>4 DEF SeenTo
  <2>7. Keeps(Turned(c), c)
    BY <2>3, <2>4, <2>5, TurnKeeps DEF Adds
  <2>8. Keeps(geo', n)
    BY <2>1, <2>5, <2>7, AddsKeeps, KeepsTwice
  <2>9. QED
    BY <2>1, <2>4, <2>6, <2>8, GeoKept DEF Keeps, SameView
<1>7. CASE SlowDown
  <2> DEFINE h == <<geo.item>>
             q == h \o geo.queue
             n == [geo EXCEPT !.stage = "pause", !.queue = q]
  <2>1. geo.stage = "fetch" /\ geo' = n /\ dropped' = dropped
    BY <1>7 DEF SlowDown, Step
  <2>2. h \in Seq(GeoLookups) /\ geo.item.ip \in Addresses(h)
    BY <1>1 DEF GeoMap, Addresses
  <2> HIDE DEF h
  <2>3. q \in Seq(GeoLookups) /\ Addresses(q) = Addresses(h) \cup Addresses(geo.queue)
    BY <1>1, <2>2, AddressesOfBoth DEF GeoMap
  <2> HIDE DEF q
  <2>4. GeoMap(n) /\ SameView(n, geo) /\ n.storage = geo.storage /\ n.queue = q
    BY <1>1, <2>3 DEF GeoMap, GeoFields, SameView
  <2> HIDE DEF n
  <2>5. SeenTo(geo) \subseteq SeenTo(n)
    BY <2>2, <2>3, <2>4 DEF SeenTo
  <2>6. QED
    BY <2>1, <2>4, <2>5, GeoKept
<1>8. CASE Resume
  <2>1. geo.stage # "fetch" /\ geo' = Turned(geo) /\ dropped' = dropped
    BY <1>8 DEF Resume, Step
  <2>2. Keeps(geo', geo)
    BY <1>1, <2>1, TurnKeeps
  <2>3. QED
    BY <2>1, <2>2, GeoKept DEF Keeps
<1>9. CASE LookupFails
  <2> DEFINE c == Callback(geo, geo.item, FALSE)
  <2>1. geo.stage = "fetch" /\ geo' = Turned(c) /\ dropped' = dropped \cup {geo.item.ip}
    BY <1>9 DEF LookupFails, Step
  <2>2. Adds(c, geo)
    BY <1>1, CallbackAdds DEF GeoMap
  <2> HIDE DEF c
  <2> DEFINE t == c.turn \/ c.queue # <<>>
             n == [c EXCEPT !.stage = "idle", !.turn = t]
  <2>3. geo' = n
    BY <2>1 DEF Turned
  <2> HIDE DEF t
  <2>4. GeoMap(n) /\ SameView(n, c) /\ n.storage = c.storage /\ n.queue = c.queue
    BY <2>2 DEF Adds, GeoMap, GeoFields, SameView
  <2> HIDE DEF n
  <2>5. SeenTo(geo) \subseteq SeenTo(n) \cup {geo.item.ip}
    BY <2>2, <2>4 DEF Adds, SeenTo
  <2>6. QED
    BY <2>1, <2>2, <2>3, <2>4, <2>5, GeoKept DEF Adds, SameView
<1>10. CASE UNCHANGED geoVars
  <2>1. UNCHANGED <<geo, dropped>>
    BY <1>10 DEF geoVars
  <2>2. QED
    BY <1>1, <2>1, GeoKept DEF SameView
<1>11. QED
  BY <1>2, <1>3, <1>4, <1>5, <1>6, <1>7, <1>8, <1>9, <1>10 DEF GeoNext

\* In every behaviour of the traffic map, with or without fairness.
LEMMA GeoAlways == GeoInit /\ [][GeoNext]_geoVars => []GeoInv
  BY GeoInvInit, GeoInvStep, PTL

\* What is seen to is what the run names.
LEMMA GeoInvForgets == GeoInv => NoAddressForgotten
<1> SUFFICES ASSUME GeoInv, NEW a \in Filtered(geo)
             PROVE  a \in Found(geo, geo.conns) \cup {b \in geo.conns : geo.storage[b] = "error"}
                          \cup Queued(geo) \cup dropped \cup (IF geo.stage = "fetch" THEN {geo.item.ip} ELSE {})
  BY DEF NoAddressForgotten
<1>1. a \in geo.conns /\ a \in Located /\ geo.storage[a] \in {"none", "found", "error"}
  BY DEF GeoInv, GeoMap, Filtered, Located
<1>2. a \in SeenTo(geo) \cup dropped
  BY DEF GeoInv
<1>3. QED
  BY <1>1, <1>2 DEF SeenTo, Found, Queued, Addresses

\* However the user renders the map, changes the firewall, the filter or the heat
\* map while lookups are queued, asked for, refused or failing, no address that
\* is shown is forgotten (processGeoQueue, app.js).
THEOREM NoneForgotten == GeoSpec => []NoAddressForgotten
  BY GeoAlways, GeoInvForgets, PTL DEF GeoSpec

----------------------------------------------------------------------------
(* The types of the map *)

\* A lookup of the markers or the heat is one of an address, only a home may be Self.
GeoRequests == {l \in GeoLookups : l.why = "home" \/ l.ip \in GeoAddresses}
GeoMaps == [storage : [Located -> {"none", "found", "error"}], queue : Seq(GeoRequests), turn : BOOLEAN,
            stage : {"idle", "fetch", "pause"}, item : GeoRequests,
            host : Located, homeIP : Located \cup {Nowhere}, homeGeo : Located \cup {Nowhere, "error"},
            conns : SUBSET GeoAddresses, markers : SUBSET GeoAddresses, lines : SUBSET (Located \X Located),
            heat : SUBSET GeoAddresses, showHeat : BOOLEAN, filter : Modes]

\* The home's lookup is one of them.
LEMMA HomeRequest == ASSUME NEW a \in Located PROVE Lookup(a, "home", {}) \in GeoRequests
  BY DEF Lookup, GeoLookups, GeoRequests

\* Lookups of addresses make a queue of them.
LEMMA RequestsOfSet == ASSUME NEW as \in SUBSET GeoAddresses, NEW why \in {"marker", "heat"},
                              NEW of, \A a \in as : of[a] \subseteq GeoAddresses
                       PROVE  Lookups(as, why, of) \in Seq(GeoRequests)
<1> DEFINE q == SetToSeq(as)
           l == Lookups(as, why, of)
<1>1. IsFiniteSet(as)
  BY FS_Subset, GeoAssumption
<1>2. q \in Seq(as)
  BY <1>1, SeqOfSet
<1>3. l = [i \in DOMAIN q |-> [ip |-> q[i], why |-> why, of |-> of[q[i]]]]
  BY DEF Lookups, Lookup
<1> HIDE DEF q, l
<1>4. Len(q) \in Nat /\ DOMAIN q = 1..Len(q) /\ \A i \in DOMAIN q : q[i] \in as
  BY <1>2, LenProperties
<1>5. \A i \in DOMAIN q : l[i] \in GeoRequests
  BY <1>3, <1>4 DEF GeoLookups, GeoRequests, Located
<1>6. QED
  BY <1>3, <1>4, <1>5 DEF l

\* Any such queue will do.
LEMMA QueueTyped == ASSUME NEW m \in GeoMaps, NEW q \in Seq(GeoRequests) PROVE [m EXCEPT !.queue = q] \in GeoMaps
  BY DEF GeoMaps

\* What is drawn is at addresses, a line between places.
LEMMA LinesTyped == ASSUME NEW m \in GeoMaps, NEW as \in SUBSET Located PROVE SingleLines(m, as) \in GeoMaps
<1> DEFINE l == {CurvedPath(a, m.homeGeo) : a \in as \ {m.homeGeo}}
           k == m.lines \cup l
<1>1. CASE m.homeGeo \notin Located
  BY <1>1 DEF SingleLines
<1>2. CASE m.homeGeo \in Located
  <2>1. l \subseteq Located \X Located
    <3>1. ASSUME NEW a \in as PROVE CurvedPath(a, m.homeGeo) \in Located \X Located
      <4>1. CurvedPath(a, m.homeGeo) \in {<<a, m.homeGeo>>, <<m.homeGeo, a>>}
        BY DEF CurvedPath
      <4>2. a \in Located
        OBVIOUS
      <4>3. QED
        BY <1>2, <4>1, <4>2
    <3>2. QED
      BY <3>1
  <2>2. k \subseteq Located \X Located
    BY <2>1 DEF GeoMaps
  <2>3. SingleLines(m, as) = [m EXCEPT !.lines = k]
    BY <1>2 DEF SingleLines
  <2> HIDE DEF k, l
  <2>4. QED
    BY <2>2, <2>3 DEF GeoMaps
<1>3. QED
  BY <1>1, <1>2

\* addMarker: a marker with its line.
LEMMA MarkersTyped == ASSUME NEW m \in GeoMaps, NEW as \in SUBSET GeoAddresses PROVE AddMarkers(m, as) \in GeoMaps
<1> DEFINE k == m.markers \cup as
<1>1. k \subseteq GeoAddresses
  BY DEF GeoMaps
<1>2. AddMarkers(m, as) = SingleLines([m EXCEPT !.markers = k], as)
  BY DEF AddMarkers
<1> HIDE DEF k
<1>3. [m EXCEPT !.markers = k] \in GeoMaps
  BY <1>1 DEF GeoMaps
<1>4. QED
  BY <1>2, <1>3, LinesTyped DEF Located

\* The lines of all connections found.
LEMMA DrawnTyped == ASSUME NEW m \in GeoMaps PROVE DrawLines(m) \in GeoMaps
<1>1. Found(m, m.conns) \in SUBSET Located
  BY DEF Found, GeoMaps, Located
<1>2. QED
  BY <1>1, LinesTyped DEF DrawLines

\* What is queued is a lookup.
LEMMA HomeTyped == ASSUME NEW m \in GeoMaps, NEW a \in Located PROVE EnqueueHome(m, a) \in GeoMaps
<1> DEFINE q == <<Lookup(a, "home", {})>> \o m.queue
<1>1. <<Lookup(a, "home", {})>> \in Seq(GeoRequests) /\ m.queue \in Seq(GeoRequests)
  BY HomeRequest DEF GeoMaps
<1>2. q \in Seq(GeoRequests)
  BY <1>1, ConcatProperties
<1>3. EnqueueHome(m, a) = [m EXCEPT !.queue = q]
  BY DEF EnqueueHome
<1> HIDE DEF q
<1>4. QED
  BY <1>2, <1>3, QueueTyped

\* The heat, with the lookups it still needs.
LEMMA HeatTyped == ASSUME NEW m \in GeoMaps, NEW cs \in SUBSET GeoAddresses PROVE DrawHeat(m, cs) \in GeoMaps
<1> DEFINE w == Missing(m, cs)
           o == [a \in cs |-> cs]
           l == Lookups(w, "heat", o)
           f == Found(m, cs)
           n == [m EXCEPT !.heat = f]
<1>1. w \in SUBSET GeoAddresses /\ (\A a \in w : o[a] \subseteq GeoAddresses) /\ f \subseteq GeoAddresses
  BY DEF Missing, Found
<1>2. DrawHeat(m, cs) = [n EXCEPT !.queue = l \o m.queue]
  BY DEF DrawHeat, GeoMaps
<1> HIDE DEF w, o, f
<1>3. l \in Seq(GeoRequests)
  BY <1>1, RequestsOfSet
<1>4. n \in GeoMaps /\ m.queue \in Seq(GeoRequests)
  BY <1>1 DEF GeoMaps
<1> HIDE DEF l, n
<1>5. l \o m.queue \in Seq(GeoRequests)
  BY <1>3, <1>4, ConcatProperties
<1>6. QED
  BY <1>2, <1>4, <1>5, QueueTyped

\* What an answer draws or queues.
LEMMA CallbackTyped == ASSUME NEW m \in GeoMaps, NEW item \in GeoRequests, NEW found \in BOOLEAN
                       PROVE  Callback(m, item, found) \in GeoMaps
<1>1. /\ item.ip \in Located /\ item.of \in SUBSET GeoAddresses /\ item.why \in {"marker", "heat", "home"}
      /\ item.why # "home" => item.ip \in GeoAddresses
  BY DEF GeoLookups, GeoRequests
<1>2. CASE item.why = "marker"
  BY <1>1, <1>2, MarkersTyped DEF Callback
<1>3. CASE item.why = "heat"
  BY <1>1, <1>3, HeatTyped DEF Callback
<1>4. CASE item.why = "home"
  <2> DEFINE g == [m EXCEPT !.homeGeo = item.ip]
             h == [m EXCEPT !.homeIP = Self]
  <2>1. g \in GeoMaps /\ h \in GeoMaps /\ Self \in Located
    BY <1>1 DEF GeoMaps, Located
  <2>2. Callback(m, item, found) = IF found THEN DrawLines(g) ELSE IF item.ip # Self THEN EnqueueHome(h, Self) ELSE m
    BY <1>4 DEF Callback
  <2> HIDE DEF g, h
  <2>3. QED
    BY <2>1, <2>2, DrawnTyped, HomeTyped
<1>5. QED
  BY <1>1, <1>2, <1>3, <1>4

\* The queue's turn ends.
LEMMA TurnedTyped == ASSUME NEW m \in GeoMaps PROVE Turned(m) \in GeoMaps
<1> DEFINE t == m.turn \/ m.queue # <<>>
<1>1. t \in BOOLEAN
  OBVIOUS
<1>2. Turned(m) = [m EXCEPT !.stage = "idle", !.turn = t]
  BY DEF Turned
<1> HIDE DEF t
<1>3. QED
  BY <1>1, <1>2 DEF GeoMaps

\* A turn takes the first lookup, from the storage or from the network.
LEMMA ProcessTyped == ASSUME NEW m \in GeoMaps PROVE ProcessGeoQueue(m) \in GeoMaps
<1>1. CASE m.stage # "idle" \/ m.queue = <<>>
  BY <1>1 DEF ProcessGeoQueue
<1>2. CASE m.stage = "idle" /\ m.queue # <<>>
  <2> DEFINE item == Head(m.queue)
             tail == Tail(m.queue)
             rest == [m EXCEPT !.queue = tail]
             f    == m.storage[item.ip] = "found"
  <2>1. m.queue \in Seq(GeoRequests)
    BY DEF GeoMaps
  <2>2. item \in GeoRequests /\ tail \in Seq(GeoRequests)
    BY <1>2, <2>1, HeadTailProperties
  <2>3. ProcessGeoQueue(m) = IF m.storage[item.ip] = "none" THEN [rest EXCEPT !.stage = "fetch", !.item = item]
                             ELSE Turned(Callback(rest, item, f))
    BY <1>2 DEF ProcessGeoQueue
  <2>4. f \in BOOLEAN
    OBVIOUS
  <2> HIDE DEF item, tail, f
  <2>5. rest \in GeoMaps
    BY <2>2, QueueTyped
  <2> HIDE DEF rest
  <2>6. [rest EXCEPT !.stage = "fetch", !.item = item] \in GeoMaps
    BY <2>2, <2>5 DEF GeoMaps
  <2>7. Turned(Callback(rest, item, f)) \in GeoMaps
    BY <2>2, <2>4, <2>5, CallbackTyped, TurnedTyped
  <2>8. QED
    BY <2>3, <2>6, <2>7
<1>3. QED
  BY <1>1, <1>2

\* The home's lookup goes first, and the queue has its turn.
LEMMA QueueHomeTyped == ASSUME NEW m \in GeoMaps, NEW a \in Located PROVE QueueHome(m, a) \in GeoMaps
  BY HomeTyped, ProcessTyped DEF QueueHome

\* The home of a rendering is that of its firewall.
LEMMA HomeUpdateTyped == ASSUME NEW m \in GeoMaps PROVE UpdateHomeLocation(m) \in GeoMaps
<1> DEFINE a == m.host
           n == [m EXCEPT !.homeIP = a, !.homeGeo = Nowhere]
           found == [n EXCEPT !.homeGeo = a]
           again == [n EXCEPT !.storage[a] = "none"]
           known == [m EXCEPT !.homeGeo = a]
           error == [m EXCEPT !.homeGeo = "error"]
<1>1. a \in Located /\ m.storage[a] \in {"none", "found", "error"}
  BY DEF GeoMaps
<1>2. n \in GeoMaps
  BY <1>1 DEF GeoMaps
<1>3. UpdateHomeLocation(m) \in {DrawLines(found), QueueHome(again, a), QueueHome(n, a), m, DrawLines(known), error, QueueHome(m, a)}
  BY <1>1 DEF UpdateHomeLocation
<1>4. known \in GeoMaps /\ error \in GeoMaps
  BY <1>1 DEF GeoMaps
<1> HIDE DEF n, a
<1>5. found \in GeoMaps
  BY <1>1, <1>2 DEF GeoMaps
<1>6. again \in GeoMaps
  <2> DEFINE s == [n.storage EXCEPT ![a] = "none"]
  <2>1. s \in [Located -> {"none", "found", "error"}]
    BY <1>1, <1>2 DEF GeoMaps
  <2>2. again = [n EXCEPT !.storage = s]
    OBVIOUS
  <2> HIDE DEF s, again
  <2>3. QED
    BY <1>2, <2>1, <2>2 DEF GeoMaps
<1> HIDE DEF found, again, known, error
<1>7. QED
  BY <1>1, <1>2, <1>3, <1>4, <1>5, <1>6, DrawnTyped, QueueHomeTyped

\* Markers of the addresses found, lookups of the others.
LEMMA QueuedTyped == ASSUME NEW m \in GeoMaps, NEW cs \in SUBSET GeoAddresses PROVE QueueMarkers(m, cs) \in GeoMaps
<1> DEFINE w == Missing(m, cs) \ Queued(m)
           o == [a \in cs |-> {a}]
           l == Lookups(w, "marker", o)
           n == AddMarkers(m, Found(m, cs))
<1>1. w \in SUBSET GeoAddresses /\ (\A a \in w : o[a] \subseteq GeoAddresses) /\ Found(m, cs) \in SUBSET GeoAddresses
  BY DEF Missing, Found
<1>2. QueueMarkers(m, cs) = [n EXCEPT !.queue = n.queue \o l]
  BY DEF QueueMarkers
<1>3. n \in GeoMaps
  BY <1>1, MarkersTyped
<1> HIDE DEF w, o, n
<1>4. l \in Seq(GeoRequests) /\ n.queue \in Seq(GeoRequests)
  BY <1>1, <1>3, RequestsOfSet DEF GeoMaps
<1> HIDE DEF l
<1>5. n.queue \o l \in Seq(GeoRequests)
  BY <1>4, ConcatProperties
<1>6. QED
  BY <1>2, <1>3, <1>5, QueueTyped

\* A rendering.
LEMMA RenderedTyped == ASSUME NEW m \in GeoMaps PROVE Rendered(m) \in GeoMaps
<1> DEFINE b == [m EXCEPT !.markers = {}, !.lines = {}, !.heat = {}]
           n == UpdateHomeLocation(b)
<1>1. b \in GeoMaps
  BY DEF GeoMaps
<1> HIDE DEF b
<1>2. n \in GeoMaps
  BY <1>1, HomeUpdateTyped
<1>3. Rendered(m) = ProcessGeoQueue(IF n.showHeat THEN UpdateHeatmap(n, Filtered(n)) ELSE QueueMarkers(n, Filtered(n)))
  BY DEF Rendered, b
<1> HIDE DEF n
<1>4. Filtered(n) \in SUBSET GeoAddresses
  BY <1>2 DEF Filtered, GeoMaps
<1>5. UpdateHeatmap(n, Filtered(n)) \in GeoMaps /\ QueueMarkers(n, Filtered(n)) \in GeoMaps
  BY <1>2, <1>4, HeatTyped, ProcessTyped, QueuedTyped DEF UpdateHeatmap
<1>6. QED
  BY <1>3, <1>5, ProcessTyped

----------------------------------------------------------------------------
\* The map, what was dropped and the bounds.
GeoTyped == /\ geo \in GeoMaps /\ dropped \subseteq Located
            /\ geoRenders \in 0..GeoRenders /\ geoLimits \in 0..GeoLimits /\ geoFailures \in 0..GeoFailures

\* A new page.
LEMMA GeoTypedInit == GeoInit => GeoTyped
<1> SUFFICES ASSUME GeoInit PROVE GeoTyped
  OBVIOUS
<1> USE DEF GeoInit
<1>1. Self \in Located /\ Lookup(Self, "home", {}) \in GeoRequests
  BY HomeRequest DEF Located
<1>2. <<>> \in Seq(GeoRequests) /\ [a \in Located |-> "none"] \in [Located -> {"none", "found", "error"}]
  OBVIOUS
<1>3. geo \in GeoMaps
  BY <1>1, <1>2 DEF GeoMaps, Modes
<1>4. geoRenders \in 0..GeoRenders /\ geoLimits \in 0..GeoLimits /\ geoFailures \in 0..GeoFailures
  BY GeoAssumption
<1>5. QED
  BY <1>3, <1>4 DEF GeoTyped

\* A step that renders.
LEMMA DrawTyped == ASSUME GeoTyped, NEW m \in GeoMaps, Draw(m) PROVE GeoTyped'
<1>1. geo' \in GeoMaps
  BY RenderedTyped DEF Draw
<1>2. geoRenders' \in 0..GeoRenders /\ dropped' = {} /\ UNCHANGED <<geoLimits, geoFailures>>
  BY GeoAssumption DEF GeoTyped, Draw
<1>3. QED
  BY <1>1, <1>2 DEF GeoTyped

\* A step of the queue that neither drops nor counts anything.
LEMMA StepTyped == ASSUME GeoTyped, NEW m \in GeoMaps, Step(m), UNCHANGED <<dropped, geoLimits, geoFailures>> PROVE GeoTyped'
  BY DEF GeoTyped, Step

\* Every step keeps the types.
LEMMA GeoTypedStep == GeoTyped /\ [GeoNext]_geoVars => GeoTyped'
<1> SUFFICES ASSUME GeoTyped, [GeoNext]_geoVars PROVE GeoTyped'
  OBVIOUS
<1>1. /\ geo \in GeoMaps /\ geo.item \in GeoRequests /\ geo.item.ip \in Located
      /\ geo.queue \in Seq(GeoRequests) /\ geo.storage \in [Located -> {"none", "found", "error"}]
  BY DEF GeoTyped, GeoMaps, GeoRequests, GeoLookups
<1>2. ASSUME NEW home \in GeoHomes \cup {Self}, NEW cs \in SUBSET GeoAddresses, Render(home, cs) PROVE GeoTyped'
  <2>1. home \in Located
    BY GeoAssumption DEF Located
  <2>2. [geo EXCEPT !.host = home, !.conns = cs] \in GeoMaps
    BY <1>1, <2>1 DEF GeoMaps
  <2>3. QED
    BY <1>2, <2>2, DrawTyped DEF Render
<1>3. ASSUME NEW mode \in Modes, SetFilter(mode) PROVE GeoTyped'
  <2>1. [geo EXCEPT !.filter = mode] \in GeoMaps
    BY <1>1 DEF GeoMaps
  <2>2. QED
    BY <1>3, <2>1, DrawTyped DEF SetFilter
<1>4. CASE ToggleHeatmap
  <2> DEFINE v == ~geo.showHeat
  <2>1. Draw([geo EXCEPT !.showHeat = v]) /\ v \in BOOLEAN
    BY <1>4 DEF ToggleHeatmap
  <2> HIDE DEF v
  <2>2. [geo EXCEPT !.showHeat = v] \in GeoMaps
    BY <1>1, <2>1 DEF GeoMaps
  <2>3. QED
    BY <2>1, <2>2, DrawTyped
<1>5. CASE NextTurn
  <2>1. [geo EXCEPT !.turn = FALSE] \in GeoMaps
    BY <1>1 DEF GeoMaps
  <2>2. ProcessGeoQueue([geo EXCEPT !.turn = FALSE]) \in GeoMaps
    BY <2>1, ProcessTyped
  <2>3. QED
    BY <1>5, <2>2, StepTyped DEF NextTurn
<1>6. CASE Answer
  <2> DEFINE f == geo.item.ip \notin GeoUnknown
             v == IF f THEN "found" ELSE "error"
             s == [geo.storage EXCEPT ![geo.item.ip] = v]
             n == [geo EXCEPT !.storage = s]
             t == Turned(Callback(n, geo.item, f))
  <2>1. Step(t) /\ UNCHANGED <<dropped, geoLimits, geoFailures>>
    BY <1>6 DEF Answer
  <2>2. v \in {"found", "error"} /\ f \in BOOLEAN
    OBVIOUS
  <2> HIDE DEF v, f
  <2>3. s \in [Located -> {"none", "found", "error"}]
    BY <1>1, <2>2
  <2> HIDE DEF s
  <2>4. n \in GeoMaps
    BY <1>1, <2>3 DEF GeoMaps
  <2> HIDE DEF n
  <2>5. t \in GeoMaps
    BY <1>1, <2>2, <2>4, CallbackTyped, TurnedTyped
  <2> HIDE DEF t
  <2>6. QED
    BY <2>1, <2>5, StepTyped
<1>7. CASE SlowDown
  <2> DEFINE q == <<geo.item>> \o geo.queue
             n == [geo EXCEPT !.stage = "pause", !.queue = q]
  <2>1. /\ geo' = n /\ UNCHANGED <<dropped, geoRenders, geoFailures>>
        /\ geoLimits < GeoLimits /\ geoLimits' = geoLimits + 1
    BY <1>7 DEF SlowDown, Step
  <2>2. <<geo.item>> \in Seq(GeoRequests)
    BY <1>1
  <2>3. q \in Seq(GeoRequests)
    BY <1>1, <2>2, ConcatProperties
  <2> HIDE DEF q
  <2>4. n \in GeoMaps
    BY <1>1, <2>3 DEF GeoMaps
  <2> HIDE DEF n
  <2>5. geoLimits' \in 0..GeoLimits
    BY <2>1, GeoAssumption DEF GeoTyped
  <2>6. QED
    BY <2>1, <2>4, <2>5 DEF GeoTyped
<1>8. CASE Resume
  BY <1>1, <1>8, TurnedTyped, StepTyped DEF Resume
<1>9. CASE LookupFails
  <2> DEFINE t == Turned(Callback(geo, geo.item, FALSE))
  <2>1. /\ geo' = t /\ dropped' = dropped \cup {geo.item.ip} /\ UNCHANGED <<geoRenders, geoLimits>>
        /\ geoFailures < GeoFailures /\ geoFailures' = geoFailures + 1
    BY <1>9 DEF LookupFails, Step
  <2>2. t \in GeoMaps
    BY <1>1, CallbackTyped, TurnedTyped
  <2> HIDE DEF t
  <2>3. geoFailures' \in 0..GeoFailures
    BY <2>1, GeoAssumption DEF GeoTyped
  <2>4. QED
    BY <1>1, <2>1, <2>2, <2>3 DEF GeoTyped
<1>10. CASE UNCHANGED geoVars
  BY <1>10 DEF geoVars, GeoTyped
<1>11. QED
  BY <1>2, <1>3, <1>4, <1>5, <1>6, <1>7, <1>8, <1>9, <1>10 DEF GeoNext

\* In every behaviour of the map, with or without fairness.
LEMMA GeoTypedAlways == GeoInit /\ [][GeoNext]_geoVars => []GeoTyped
  BY GeoTypedInit, GeoTypedStep, PTL

\* A queue of such lookups is a queue of lookups.
LEMMA GeoTypedTypeOK == GeoTyped => GeoTypeOK
<1> SUFFICES ASSUME GeoTyped PROVE GeoTypeOK
  OBVIOUS
<1>1. geo.queue \in Seq(GeoLookups) /\ geo.item \in GeoLookups
  <2>1. GeoRequests \subseteq GeoLookups /\ geo.queue \in Seq(GeoRequests) /\ geo.item \in GeoRequests
    BY DEF GeoRequests, GeoTyped, GeoMaps
  <2>2. QED
    BY <2>1, SeqMonotonic
<1>2. QED
  BY <1>1 DEF GeoTypeOK, GeoTyped, GeoMaps

\* Every variable of the map has its type, and only what was looked up at a place
\* is drawn there (renderGlobalNetwork, processGeoQueue): the queue holds lookups,
\* its markers and heat are those of addresses of connections.
THEOREM GeoTypeCorrect == GeoSpec => []GeoTypeOK
  BY GeoTypedAlways, GeoTypedTypeOK, PTL DEF GeoSpec

----------------------------------------------------------------------------
(* The turns of the queue *)

\* Nothing waits in the queue without a turn to come or one under way.
Going(m) == m.queue # <<>> => m.turn \/ m.stage # "idle"

\* The end of a turn sees to the next one.
LEMMA TurnedGoes == ASSUME NEW m \in GeoMaps PROVE Going(Turned(m))
<1> DEFINE t == m.turn \/ m.queue # <<>>
<1>1. Turned(m) = [m EXCEPT !.stage = "idle", !.turn = t]
  BY DEF Turned
<1>2. Turned(m).turn = t /\ Turned(m).queue = m.queue
  BY <1>1 DEF GeoMaps
<1>3. QED
  BY <1>2 DEF Going

\* So does a turn, whatever it finds: one under way, nothing, or a lookup.
LEMMA ProcessGoes == ASSUME NEW m \in GeoMaps PROVE Going(ProcessGeoQueue(m))
<1>1. CASE m.stage # "idle" \/ m.queue = <<>>
  BY <1>1 DEF ProcessGeoQueue, Going
<1>2. CASE m.stage = "idle" /\ m.queue # <<>>
  <2> DEFINE item == Head(m.queue)
             tail == Tail(m.queue)
             rest == [m EXCEPT !.queue = tail]
             f    == m.storage[item.ip] = "found"
  <2>1. m.queue \in Seq(GeoRequests)
    BY DEF GeoMaps
  <2>2. item \in GeoRequests /\ tail \in Seq(GeoRequests) /\ f \in BOOLEAN
    BY <1>2, <2>1, HeadTailProperties
  <2>3. ProcessGeoQueue(m) = IF m.storage[item.ip] = "none" THEN [rest EXCEPT !.stage = "fetch", !.item = item]
                             ELSE Turned(Callback(rest, item, f))
    BY <1>2 DEF ProcessGeoQueue
  <2> HIDE DEF item, tail, f
  <2>4. rest \in GeoMaps
    BY <2>2, QueueTyped
  <2> HIDE DEF rest
  <2>5. [rest EXCEPT !.stage = "fetch", !.item = item].stage = "fetch"
    BY <2>4 DEF GeoMaps
  <2>6. Going(Turned(Callback(rest, item, f)))
    BY <2>2, <2>4, CallbackTyped, TurnedGoes
  <2>7. QED
    BY <2>3, <2>5, <2>6 DEF Going
<1>3. QED
  BY <1>1, <1>2

\* A rendering ends with a turn.
LEMMA RenderedGoes == ASSUME NEW m \in GeoMaps PROVE Going(Rendered(m))
<1> DEFINE b == [m EXCEPT !.markers = {}, !.lines = {}, !.heat = {}]
           n == UpdateHomeLocation(b)
           o == IF n.showHeat THEN UpdateHeatmap(n, Filtered(n)) ELSE QueueMarkers(n, Filtered(n))
<1>1. b \in GeoMaps
  BY DEF GeoMaps
<1>2. Rendered(m) = ProcessGeoQueue(o)
  BY DEF Rendered
<1> HIDE DEF b
<1>3. n \in GeoMaps
  BY <1>1, HomeUpdateTyped
<1> HIDE DEF n
<1>4. Filtered(n) \in SUBSET GeoAddresses
  BY <1>3 DEF Filtered, GeoMaps
<1>5. o \in GeoMaps
  BY <1>3, <1>4, HeatTyped, ProcessTyped, QueuedTyped DEF UpdateHeatmap
<1> HIDE DEF o
<1>6. QED
  BY <1>2, <1>5, ProcessGoes

\* Every step leaves a turn for what waits.
LEMMA GoingStep == GeoTyped /\ Going(geo) /\ [GeoNext]_geoVars => Going(geo)'
<1> SUFFICES ASSUME GeoTyped, Going(geo), [GeoNext]_geoVars PROVE Going(geo')
  BY DEF Going
<1>1. geo \in GeoMaps /\ geo.item \in GeoRequests /\ geo.item.ip \in Located
  BY DEF GeoTyped, GeoMaps, GeoRequests, GeoLookups
<1>2. ASSUME NEW m \in GeoMaps, Draw(m) PROVE Going(geo')
  BY <1>2, RenderedGoes DEF Draw
<1>3. ASSUME NEW home \in GeoHomes \cup {Self}, NEW cs \in SUBSET GeoAddresses, Render(home, cs) PROVE Going(geo')
  <2>1. home \in Located
    BY GeoAssumption DEF Located
  <2>2. [geo EXCEPT !.host = home, !.conns = cs] \in GeoMaps
    BY <1>1, <2>1 DEF GeoMaps
  <2>3. QED
    BY <1>2, <1>3, <2>2 DEF Render
<1>4. ASSUME NEW mode \in Modes, SetFilter(mode) PROVE Going(geo')
  <2>1. [geo EXCEPT !.filter = mode] \in GeoMaps
    BY <1>1 DEF GeoMaps
  <2>2. QED
    BY <1>2, <1>4, <2>1 DEF SetFilter
<1>5. CASE ToggleHeatmap
  <2> DEFINE v == ~geo.showHeat
  <2>1. Draw([geo EXCEPT !.showHeat = v]) /\ v \in BOOLEAN
    BY <1>5 DEF ToggleHeatmap
  <2> HIDE DEF v
  <2>2. [geo EXCEPT !.showHeat = v] \in GeoMaps
    BY <1>1, <2>1 DEF GeoMaps
  <2>3. QED
    BY <1>2, <2>1, <2>2
<1>6. CASE NextTurn
  <2>1. [geo EXCEPT !.turn = FALSE] \in GeoMaps
    BY <1>1 DEF GeoMaps
  <2>2. QED
    BY <1>6, <2>1, ProcessGoes DEF NextTurn, Step
<1>7. CASE Answer
  <2> DEFINE f == geo.item.ip \notin GeoUnknown
             v == IF f THEN "found" ELSE "error"
             s == [geo.storage EXCEPT ![geo.item.ip] = v]
             n == [geo EXCEPT !.storage = s]
  <2>1. geo' = Turned(Callback(n, geo.item, f))
    BY <1>7 DEF Answer, Step
  <2>2. v \in {"found", "error"} /\ f \in BOOLEAN
    OBVIOUS
  <2> HIDE DEF v, f
  <2>3. s \in [Located -> {"none", "found", "error"}]
    BY <1>1, <2>2 DEF GeoMaps
  <2> HIDE DEF s
  <2>4. n \in GeoMaps
    BY <1>1, <2>3 DEF GeoMaps
  <2> HIDE DEF n
  <2>5. QED
    BY <1>1, <2>1, <2>2, <2>4, CallbackTyped, TurnedGoes
<1>8. CASE SlowDown
  <2> DEFINE q == <<geo.item>> \o geo.queue
  <2>1. geo' = [geo EXCEPT !.stage = "pause", !.queue = q]
    BY <1>8 DEF SlowDown, Step
  <2> HIDE DEF q
  <2>2. geo'.stage = "pause"
    BY <1>1, <2>1 DEF GeoMaps
  <2>3. QED
    BY <2>2 DEF Going
<1>9. CASE Resume
  BY <1>1, <1>9, TurnedGoes DEF Resume, Step
<1>10. CASE LookupFails
  BY <1>1, <1>10, CallbackTyped, TurnedGoes DEF LookupFails, Step
<1>11. CASE UNCHANGED geoVars
  BY <1>11 DEF geoVars
<1>12. QED
  BY <1>3, <1>4, <1>5, <1>6, <1>7, <1>8, <1>9, <1>10, <1>11 DEF GeoNext

\* While lookups wait, a timer is set for the next turn, a request is under way or
\* the queue pauses, however renderings, answers, refusals and failures follow each
\* other (processGeoQueue): the queue never stops with lookups in it.
GeoQueueGoesOn == geo.queue # <<>> => geo.turn \/ geo.stage \in {"fetch", "pause"}

LEMMA GoingAlways == GeoInit /\ [][GeoNext]_geoVars => []GeoQueueGoesOn
<1>1. GeoInit => Going(geo)
  BY DEF GeoInit, Going
<1>2. GeoTyped /\ Going(geo) => GeoQueueGoesOn
  BY DEF GeoTyped, GeoMaps, Going, GeoQueueGoesOn
<1>3. QED
  BY <1>1, <1>2, GeoTypedAlways, GoingStep, PTL

\* The queue never stops with lookups in it, the part of its draining that needs
\* no fairness (processGeoQueue, app.js).
THEOREM QueueNeverStops == GeoSpec => []GeoQueueGoesOn
  BY GoingAlways, PTL DEF GeoSpec
=============================================================================
