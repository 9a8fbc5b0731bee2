------------------------ MODULE MetricCharts_proofs ------------------------
(***************************************************************************)
(* What updateCharts, applyAnomalies and applyForecast leave on a chart,   *)
(* for any samples: its own series first, no label twice, and over them    *)
(* the anomalies and the projection of the series it shows.  What is kept  *)
(* of the layers of a chart, of any number, is computed by a recursive     *)
(* function; what holds of it is proved by induction on that number, from  *)
(* the theorem that every set of numbers has a least one.                  *)
(***************************************************************************)
EXTENDS MetricCharts, SequenceTheorems, WellFoundedInduction, TLAPS

\* Induction over the numbers, for a set of them.
LEMMA AllNumbers == ASSUME NEW T \in SUBSET Nat, 0 \in T, \A n \in T : n + 1 \in T PROVE T = Nat
<1> DEFINE Less == OpToRel(<, Nat)
           Rest == Nat \ T
<1>1. IsWellFoundedOn(Less, Nat)
  BY NatLessThanWellFounded
<1>2. SUFFICES ASSUME Rest # {} PROVE FALSE
  OBVIOUS
<1>3. \E x \in Rest : \A y \in Rest : <<y, x>> \notin Less
  <2>1. Rest \subseteq Nat
    OBVIOUS
  <2> HIDE DEF Rest, Less
  <2>2. QED
    BY <1>1, <1>2, <2>1, WFMin
<1>4. ASSUME NEW m \in Nat, NEW n \in Nat, m < n PROVE <<m, n>> \in Less
  BY <1>4 DEF OpToRel
<1> HIDE DEF Less
<1>5. PICK x \in Rest : \A y \in Rest : <<y, x>> \notin Less
  BY <1>3
<1>6. x \in Nat /\ x \notin T /\ x # 0
  BY <1>5
<1>7. x - 1 \in Nat /\ x - 1 < x /\ (x - 1) + 1 = x
  BY <1>6
<1>8. <<x - 1, x>> \in Less
  BY <1>4, <1>6, <1>7
<1>9. x - 1 \in T
  BY <1>5, <1>7, <1>8
<1>10. QED
  BY <1>6, <1>7, <1>9

----------------------------------------------------------------------------
\* The step of Others: what is kept of the first n layers.
KeptStep(layers, label, f, n) == IF n = 0 THEN <<>>
                                 ELSE IF layers[n].label = label THEN f[n - 1]
                                 ELSE Append(f[n - 1], layers[n])
\* f keeps what is to be kept of the first m layers.
Keeping(layers, label, m, f) == f = [n \in 0..m |-> KeptStep(layers, label, f, n)]

\* The recursive function of Others is one: such a function exists for any length.
LEMMA KeepingExists == ASSUME NEW layers, NEW label, NEW m \in Nat
                       PROVE  \E f : Keeping(layers, label, m, f)
<1> DEFINE T == {n \in Nat : \E f : Keeping(layers, label, n, f)}
<1>1. 0 \in T
  <2> DEFINE f == [n \in 0..0 |-> <<>>]
  <2>1. \A n \in 0..0 : n = 0
    OBVIOUS
  <2>2. f = [n \in 0..0 |-> KeptStep(layers, label, f, n)]
    BY <2>1 DEF KeptStep
  <2>3. QED
    BY <2>2 DEF Keeping
<1>2. ASSUME NEW n \in T PROVE n + 1 \in T
  <2>1. PICK f : Keeping(layers, label, n, f)
    OBVIOUS
  <2> DEFINE g == [k \in 0..(n + 1) |-> IF k = n + 1 THEN KeptStep(layers, label, f, k) ELSE f[k]]
  <2>2. ASSUME NEW k \in 0..(n + 1) PROVE g[k] = KeptStep(layers, label, g, k)
    <3>1. CASE k = 0
      <4>1. f[k] = KeptStep(layers, label, f, k) /\ k # n + 1
        BY <2>1, <3>1 DEF Keeping
      <4>2. QED
        BY <3>1, <4>1 DEF KeptStep
    <3>2. CASE k # 0
      <4>1. k - 1 \in 0..(n + 1) /\ k - 1 # n + 1
        BY <3>2
      <4>2. g[k - 1] = f[k - 1]
        BY <4>1
      <4>3. KeptStep(layers, label, g, k) = KeptStep(layers, label, f, k)
        BY <4>2 DEF KeptStep
      <4>4. CASE k = n + 1
        BY <4>3, <4>4
      <4>5. CASE k # n + 1
        <5>1. k \in 0..n
          BY <4>5
        <5>2. f[k] = KeptStep(layers, label, f, k)
          BY <2>1, <5>1 DEF Keeping
        <5>3. QED
          BY <4>3, <4>5, <5>2
      <4>6. QED
        BY <4>4, <4>5
    <3>3. QED
      BY <3>1, <3>2
  <2>3. g = [k \in 0..(n + 1) |-> g[k]]
    OBVIOUS
  <2> HIDE DEF g
  <2>4. Keeping(layers, label, n + 1, g)
    BY <2>2, <2>3 DEF Keeping
  <2>5. QED
    BY <2>4
<1> HIDE DEF T
<1>3. T = Nat
  <2>1. T \in SUBSET Nat
    BY DEF T
  <2>2. QED
    BY <1>1, <1>2, <2>1, AllNumbers
<1>4. QED
  BY <1>3 DEF T

\* What Others computes, layer by layer.
LEMMA OthersKeep == ASSUME NEW layers, NEW label, Len(layers) \in Nat
                    PROVE  \E f : /\ Others(layers, label) = f[Len(layers)] /\ f[0] = <<>>
                                  /\ \A n \in 1..Len(layers) :
                                       f[n] = IF layers[n].label = label THEN f[n - 1] ELSE Append(f[n - 1], layers[n])
<1> DEFINE m == Len(layers)
           f == CHOOSE g : Keeping(layers, label, m, g)
<1>1. Keeping(layers, label, m, f)
  BY KeepingExists
<1>2. Others(layers, label) = f[m]
  BY DEF Others, Keeping, KeptStep
<1> HIDE DEF f
<1>3. \A n \in 0..m : f[n] = KeptStep(layers, label, f, n)
  BY <1>1 DEF Keeping
<1>4. f[0] = <<>>
  BY <1>3 DEF KeptStep
<1>5. ASSUME NEW n \in 1..m PROVE f[n] = IF layers[n].label = label THEN f[n - 1] ELSE Append(f[n - 1], layers[n])
  BY <1>3 DEF KeptStep
<1>6. QED
  BY <1>2, <1>4, <1>5

----------------------------------------------------------------------------
(* What is left of the layers of a chart without those of a label *)

\* A sequence, whatever its elements are.
Layers(s)   == \E S : s \in Seq(S)
Distinct(s) == \A i, j \in DOMAIN s : s[i].label = s[j].label => i = j

\* Its length and its indices.
LEMMA LayersShape == ASSUME NEW s, Layers(s) PROVE Len(s) \in Nat /\ DOMAIN s = 1..Len(s) /\ (s = <<>> <=> Len(s) = 0)
<1>1. PICK S : s \in Seq(S)
  BY DEF Layers
<1>2. QED
  BY <1>1, LenProperties, EmptySeq

\* A function on 1..n is one.
LEMMA LayersListed == ASSUME NEW n \in Nat, NEW s, s = [i \in 1..n |-> s[i]] PROVE Layers(s) /\ Len(s) = n
<1> DEFINE S == {s[i] : i \in 1..n}
<1>1. s \in [1..n -> S]
  OBVIOUS
<1>2. s \in Seq(S)
  BY <1>1, SeqDef
<1>3. Len(s) \in Nat /\ 1..Len(s) = 1..n
  BY <1>1, <1>2, LenProperties
<1>4. Len(s) = n
  BY <1>3
<1>5. QED
  BY <1>2, <1>4 DEF Layers

\* One more layer at its end.
LEMMA LayersAppend == ASSUME NEW s, Layers(s), NEW e
                      PROVE  /\ Layers(Append(s, e)) /\ Len(Append(s, e)) = Len(s) + 1
                             /\ \A i \in 1..Len(s) : Append(s, e)[i] = s[i]
                             /\ Append(s, e)[Len(s) + 1] = e
<1>1. PICK S : s \in Seq(S)
  BY DEF Layers
<1>2. s \in Seq(S \cup {e})
  BY <1>1, SeqMonotonic
<1>3. Append(s, e) \in Seq(S \cup {e})
  BY <1>2, AppendProperties
<1>4. QED
  BY <1>2, <1>3, AppendProperties DEF Layers

\* r is what is kept of the first n layers of s, the first b of which are.
LeftOf(s, label, b, n, r) ==
  /\ Layers(r)
  /\ \A i \in DOMAIN r : r[i].label # label /\ \E j \in 1..n : r[i] = s[j]
  /\ Distinct(s) => Distinct(r)
  /\ \A k \in 1..b : k <= n => k <= Len(r) /\ r[k] = s[k]
  /\ n <= b => Len(r) = n

\* One layer more: it is kept at the end, or has the label.
LEMMA LeftNext == ASSUME NEW s, Layers(s), NEW label, NEW b \in 0..Len(s), \A i \in 1..b : s[i].label # label,
                         NEW n \in Nat, n + 1 <= Len(s), NEW r, LeftOf(s, label, b, n, r)
                  PROVE  LeftOf(s, label, b, n + 1, IF s[n + 1].label = label THEN r ELSE Append(r, s[n + 1]))
<1>1. /\ Len(s) \in Nat /\ DOMAIN s = 1..Len(s) /\ Layers(r) /\ Len(r) \in Nat /\ DOMAIN r = 1..Len(r) /\ b \in Nat
  BY LayersShape DEF LeftOf
<1>2. \A i \in DOMAIN r : r[i].label # label /\ \E j \in 1..n : r[i] = s[j]
  BY DEF LeftOf
<1>a. Distinct(s) => Distinct(r)
  BY DEF LeftOf
<1>b. \A k \in 1..b : k <= n => k <= Len(r) /\ r[k] = s[k]
  BY DEF LeftOf
<1>c. n <= b => Len(r) = n
  BY DEF LeftOf
<1>d. b \in Nat
  BY <1>1
<1>3. CASE s[n + 1].label = label
  <2>1. ~(n + 1 <= b)
    BY <1>1, <1>3
  <2>2. \A k \in 1..b : k <= n
    BY <1>1, <2>1
  <2>3. \A i \in DOMAIN r : \E j \in 1..(n + 1) : r[i] = s[j]
    <3>1. \A j \in 1..n : j \in 1..(n + 1)
      OBVIOUS
    <3>2. QED
      BY <1>2, <3>1
  <2>4. QED
    BY <1>1, <1>2, <1>a, <1>b, <1>3, <2>1, <2>2, <2>3 DEF LeftOf
<1>4. CASE s[n + 1].label # label
  <2> DEFINE q == Append(r, s[n + 1])
  <2>1. /\ Layers(q) /\ Len(q) = Len(r) + 1 /\ DOMAIN q = 1..(Len(r) + 1)
        /\ \A i \in 1..Len(r) : q[i] = r[i]
        /\ q[Len(r) + 1] = s[n + 1]
    BY <1>1, LayersAppend, LayersShape
  <2> HIDE DEF q
  <2>2. \A i \in DOMAIN q : i \in DOMAIN r \/ i = Len(r) + 1
    BY <1>1, <2>1
  <2>3. ASSUME NEW i \in DOMAIN q PROVE q[i].label # label /\ \E j \in 1..(n + 1) : q[i] = s[j]
    <3>1. CASE i \in DOMAIN r
      <4>1. q[i] = r[i]
        BY <1>1, <2>1, <3>1
      <4>2. PICK j \in 1..n : r[i] = s[j]
        BY <1>2, <3>1
      <4>3. j \in 1..(n + 1)
        OBVIOUS
      <4>4. QED
        BY <1>2, <3>1, <4>1, <4>2, <4>3
    <3>2. CASE i = Len(r) + 1
      BY <1>4, <2>1, <3>2
    <3>3. QED
      BY <2>2, <3>1, <3>2
  <2>4. ASSUME Distinct(s) PROVE Distinct(q)
    <3>1. ASSUME NEW i \in DOMAIN r PROVE r[i].label # s[n + 1].label
      <4>1. PICK j \in 1..n : r[i] = s[j]
        BY <1>2
      <4>2. j \in DOMAIN s /\ n + 1 \in DOMAIN s /\ j # n + 1
        BY <1>1
      <4>3. QED
        BY <2>4, <4>1, <4>2 DEF Distinct
    <3>2. Distinct(r)
      BY <1>a, <2>4
    <3>3. QED
      BY <1>1, <2>1, <2>2, <3>1, <3>2 DEF Distinct
  <2>5. ASSUME NEW k \in 1..b, k <= n + 1 PROVE k <= Len(q) /\ q[k] = s[k]
    <3>1. CASE k <= n
      <4>1. k <= Len(r) /\ r[k] = s[k]
        BY <1>b, <3>1
      <4>2. k \in 1..Len(r) /\ k <= Len(r) + 1
        BY <1>1, <4>1
      <4>3. QED
        BY <2>1, <4>1, <4>2
    <3>2. CASE k = n + 1
      <4>0. n <= b
        BY <1>d, <3>2
      <4>1. Len(r) = n
        BY <1>c, <4>0
      <4>2. QED
        BY <1>1, <2>1, <3>2, <4>1
    <3>3. QED
      BY <1>1, <2>5, <3>1, <3>2
  <2>6. n + 1 <= b => Len(q) = n + 1
    <3>1. ASSUME n + 1 <= b PROVE n <= b
      BY <1>d, <3>1
    <3>2. QED
      BY <1>c, <2>1, <3>1
  <2>7. LeftOf(s, label, b, n + 1, q)
    BY <2>1, <2>3, <2>4, <2>5, <2>6 DEF LeftOf
  <2>8. QED
    BY <1>4, <2>7 DEF q
<1>5. QED
  BY <1>3, <1>4

\* What Others keeps, when the first b layers have another label.
LEMMA OthersLeft == ASSUME NEW s, Layers(s), NEW label, NEW b \in 0..Len(s), \A i \in 1..b : s[i].label # label
                    PROVE  LeftOf(s, label, b, Len(s), Others(s, label))
<1>1. Len(s) \in Nat
  BY LayersShape
<1>2. PICK f : /\ Others(s, label) = f[Len(s)] /\ f[0] = <<>>
               /\ \A n \in 1..Len(s) : f[n] = IF s[n].label = label THEN f[n - 1] ELSE Append(f[n - 1], s[n])
  BY <1>1, OthersKeep
<1> DEFINE T == {n \in Nat : n <= Len(s) => LeftOf(s, label, b, n, f[n])}
<1>3. 0 \in T
  <2>1. LeftOf(s, label, b, 0, <<>>)
    <3>1. Layers(<<>>) /\ Len(<<>>) = 0 /\ DOMAIN <<>> = {}
      BY EmptySeq DEF Layers
    <3>2. QED
      BY <3>1 DEF LeftOf, Distinct
  <2>2. QED
    BY <1>2, <2>1
<1>4. ASSUME NEW n \in T PROVE n + 1 \in T
  <2>1. SUFFICES ASSUME n + 1 <= Len(s) PROVE LeftOf(s, label, b, n + 1, f[n + 1])
    OBVIOUS
  <2>2. n \in Nat /\ LeftOf(s, label, b, n, f[n])
    BY <1>1, <1>4, <2>1
  <2>3. n + 1 \in 1..Len(s) /\ (n + 1) - 1 = n
    BY <1>1, <2>1, <2>2
  <2>4. f[n + 1] = IF s[n + 1].label = label THEN f[n] ELSE Append(f[n], s[n + 1])
    BY <1>2, <2>3
  <2>5. QED
    BY <2>1, <2>2, <2>4, LeftNext
<1>5. T \subseteq Nat
  OBVIOUS
<1> HIDE DEF T
<1>6. T = Nat
  BY <1>3, <1>4, <1>5, AllNumbers
<1>7. QED
  BY <1>1, <1>2, <1>6 DEF T

----------------------------------------------------------------------------
(* A chart, and what lies over it *)

\* The labels of the series a chart always has.
Own(c) == CASE c = "cpu"  -> <<"CPU">>           [] c = "temp"   -> <<"Temperatura">>
            [] c = "ram"  -> <<"RAM">>           [] c = "disk"   -> <<"Used", "Space">>
            [] c = "net"  -> <<"RX", "Capacity">> [] c = "io"     -> <<"Lectura">>
            [] c = "uptime" -> <<"Disponibilidad">>
\* The charts an overlay is drawn on.
Overlaid(label) == IF label = "Anomalias" THEN Charts \ {"uptime"} ELSE {"disk"}
OverlayLabels == {"Anomalias", "Proyeccion"}

\* A chart as it is after it was made: its own series come first, no label is
\* there twice, and only the charts with an overlay have one.
Drawn(c, chart) ==
  /\ "layers" \in DOMAIN chart /\ Layers(chart.layers) /\ Distinct(chart.layers)
  /\ Len(Own(c)) <= Len(chart.layers) /\ \A i \in 1..Len(Own(c)) : chart.layers[i].label = Own(c)[i]
  /\ \A l \in OverlayLabels : c \notin Overlaid(l) => \A i \in DOMAIN chart.layers : chart.layers[i].label # l
\* A chart that is not there yet.
Unmade(chart) == "layers" \in DOMAIN chart /\ chart.layers = <<>>

\* The series of a chart have labels of their own.
LEMMA OwnLabels == ASSUME NEW c \in Charts
                   PROVE  /\ Len(Own(c)) \in {1, 2} /\ \A i \in 1..Len(Own(c)) : Own(c)[i] \notin OverlayLabels
                          /\ Len(Own(c)) = 2 <=> c \in {"disk", "net"}
  BY DEF Charts, Own, OverlayLabels

\* A chart that is drawn is there, with its own layers at least.
LEMMA DrawnMade == ASSUME NEW c \in Charts, NEW chart, Drawn(c, chart)
                   PROVE  /\ Made(chart) /\ 1 \in DOMAIN chart.layers /\ Len(chart.layers) \in Nat
                          /\ DOMAIN chart.layers = 1..Len(chart.layers) /\ Len(Own(c)) \in 0..Len(chart.layers)
<1>1. Len(Own(c)) \in {1, 2}
  BY OwnLabels
<1>2. /\ Len(chart.layers) \in Nat /\ DOMAIN chart.layers = 1..Len(chart.layers)
      /\ chart.layers = <<>> <=> Len(chart.layers) = 0
      /\ Len(Own(c)) <= Len(chart.layers)
  BY LayersShape DEF Drawn
<1>3. QED
  BY <1>1, <1>2 DEF Made

\* Drawn(c, chart) without label, and the first series where it was.
LEMMA WithoutDrawn == ASSUME NEW c \in Charts, NEW chart, Drawn(c, chart), NEW label \in OverlayLabels
                      PROVE  LET r == Without(chart, label) IN
                             /\ Drawn(c, r) /\ r.layers[1] = chart.layers[1]
                             /\ \A i \in DOMAIN r.layers : /\ r.layers[i].label # label
                                                           /\ \E j \in DOMAIN chart.layers : r.layers[i] = chart.layers[j]
<1> DEFINE s == chart.layers
           q == Others(s, label)
           r == Without(chart, label)
           b == Len(Own(c))
<1>1. r.layers = q /\ "layers" \in DOMAIN r
  BY DEF Without, Drawn
<1>2. /\ Len(s) \in Nat /\ DOMAIN s = 1..Len(s) /\ b \in 0..Len(s) /\ b \in {1, 2}
  BY DrawnMade, OwnLabels
<1>3. Layers(s) /\ Distinct(s) /\ \A i \in 1..b : s[i].label = Own(c)[i]
  BY DEF Drawn
<1>4. \A i \in 1..b : s[i].label # label
  BY <1>3, OwnLabels
<1>5. LeftOf(s, label, b, Len(s), q)
  BY <1>2, <1>3, <1>4, OthersLeft
<1> HIDE DEF r, q, b
<1>6. /\ Layers(q) /\ Distinct(q)
      /\ \A i \in DOMAIN q : q[i].label # label /\ \E j \in 1..Len(s) : q[i] = s[j]
  BY <1>3, <1>5 DEF LeftOf
<1>7. \A k \in 1..b : k <= Len(q) /\ q[k] = s[k]
  <2>1. \A k \in 1..b : k <= Len(s) => k <= Len(q) /\ q[k] = s[k]
    BY <1>5 DEF LeftOf
  <2>2. QED
    BY <1>2, <2>1
<1>8. 1 \in 1..b /\ b \in 1..b
  BY <1>2
<1>9. b <= Len(q) /\ q[1] = s[1] /\ \A i \in 1..b : q[i].label = Own(c)[i]
  BY <1>3, <1>7, <1>8
<1>10. ASSUME NEW l \in OverlayLabels, c \notin Overlaid(l), NEW i \in DOMAIN q PROVE q[i].label # l
  <2>1. PICK j \in DOMAIN s : q[i] = s[j]
    BY <1>2, <1>6
  <2>2. QED
    BY <1>10, <2>1 DEF Drawn
<1>11. Drawn(c, r)
  BY <1>1, <1>6, <1>9, <1>10 DEF Drawn, b
<1>12. QED
  BY <1>1, <1>2, <1>6, <1>9, <1>11 DEF r

\* A new overlay on a chart that has none.
LEMMA WithDrawn == ASSUME NEW c \in Charts, NEW chart, Drawn(c, chart), NEW label \in OverlayLabels, c \in Overlaid(label),
                          \A i \in DOMAIN chart.layers : chart.layers[i].label # label, NEW data
                   PROVE  LET r == With(chart, label, data) IN
                          /\ Drawn(c, r) /\ r.layers[1] = chart.layers[1]
                          /\ \A i \in DOMAIN r.layers : \/ \E j \in DOMAIN chart.layers : r.layers[i] = chart.layers[j]
                                                        \/ r.layers[i] = Layer(label, data)
<1> DEFINE s == chart.layers
           n == Len(s)
           q == Append(s, Layer(label, data))
           r == With(chart, label, data)
<1>1. r.layers = q /\ "layers" \in DOMAIN r
  BY DEF With, Drawn
<1>2. n \in Nat /\ DOMAIN s = 1..n /\ 1 \in 1..n /\ Layers(s) /\ Distinct(s)
  BY DrawnMade DEF Drawn
<1>3. /\ Layers(q) /\ DOMAIN q = 1..(n + 1) /\ Len(q) = n + 1
      /\ \A i \in 1..n : q[i] = s[i]
      /\ q[n + 1] = Layer(label, data)
  BY <1>2, LayersAppend, LayersShape
<1> HIDE DEF r, q
<1>4. \A i \in DOMAIN q : i \in 1..n \/ i = n + 1
  BY <1>2, <1>3
<1>5. q[n + 1].label = label
  BY <1>3 DEF Layer
<1>6. Distinct(q)
  BY <1>2, <1>3, <1>4, <1>5 DEF Distinct
<1>7. Len(Own(c)) <= Len(q) /\ \A i \in 1..Len(Own(c)) : q[i].label = Own(c)[i]
  <2>1. Len(Own(c)) <= n /\ Len(Own(c)) \in Nat /\ \A i \in 1..Len(Own(c)) : s[i].label = Own(c)[i]
    BY OwnLabels DEF Drawn
  <2>2. \A i \in 1..Len(Own(c)) : i \in 1..n
    BY <1>2, <2>1
  <2>3. Len(Own(c)) <= n + 1
    BY <1>2, <2>1
  <2>4. QED
    BY <1>3, <2>1, <2>2, <2>3
<1>8. ASSUME NEW l \in OverlayLabels, c \notin Overlaid(l), NEW i \in DOMAIN q PROVE q[i].label # l
  BY <1>2, <1>3, <1>4, <1>5, <1>8 DEF Drawn
<1>9. Drawn(c, r)
  BY <1>1, <1>3, <1>6, <1>7, <1>8 DEF Drawn
<1>10. ASSUME NEW i \in DOMAIN q PROVE (\E j \in DOMAIN s : q[i] = s[j]) \/ q[i] = Layer(label, data)
  BY <1>2, <1>3, <1>4
<1>11. QED
  BY <1>1, <1>2, <1>3, <1>9, <1>10 DEF r

\* The layers with the label are there only while it is on, and hold these data.
Fits(layers, label, on, data) == \A i \in DOMAIN layers : layers[i].label = label => on /\ layers[i].data = data
Marked(chart, on)    == Fits(chart.layers, "Anomalias", on, DetectAnomalies(chart.layers[1].data))
Projected(chart, on) == Fits(chart.layers, "Proyeccion", on, Projection(chart.layers[1].data))
Current(c, chart, on) == Drawn(c, chart) /\ Marked(chart, on.anomalies) /\ Projected(chart, on.forecast)

\* An overlay is taken off, and put on again or not.
LEMMA Overlaying == ASSUME NEW c \in Charts, NEW chart, Drawn(c, chart), NEW label \in OverlayLabels, c \in Overlaid(label),
                           NEW data, NEW put \in BOOLEAN
                    PROVE  LET bare == Without(chart, label)
                               r    == IF put THEN With(bare, label, data) ELSE bare IN
                           /\ Drawn(c, r) /\ r.layers[1] = chart.layers[1]
                           /\ Fits(r.layers, label, put, data)
                           /\ \A i \in DOMAIN r.layers : r.layers[i].label # label =>
                                \E j \in DOMAIN chart.layers : r.layers[i] = chart.layers[j]
<1> DEFINE bare == Without(chart, label)
           with == With(bare, label, data)
<1>1. /\ Drawn(c, bare) /\ bare.layers[1] = chart.layers[1]
      /\ \A i \in DOMAIN bare.layers : /\ bare.layers[i].label # label
                                       /\ \E j \in DOMAIN chart.layers : bare.layers[i] = chart.layers[j]
  BY WithoutDrawn
<1> HIDE DEF bare
<1>2. /\ Drawn(c, with) /\ with.layers[1] = bare.layers[1]
      /\ \A i \in DOMAIN with.layers : \/ \E j \in DOMAIN bare.layers : with.layers[i] = bare.layers[j]
                                       \/ with.layers[i] = Layer(label, data)
  BY <1>1, WithDrawn
<1> HIDE DEF with
<1>3. CASE put
  <2>1. Layer(label, data).label = label /\ Layer(label, data).data = data
    BY DEF Layer
  <2>2. ASSUME NEW i \in DOMAIN with.layers
        PROVE  /\ with.layers[i].label = label => with.layers[i].data = data
               /\ with.layers[i].label # label => \E j \in DOMAIN chart.layers : with.layers[i] = chart.layers[j]
    BY <1>1, <1>2, <2>1
  <2>3. Fits(with.layers, label, put, data)
    BY <1>3, <2>2 DEF Fits
  <2>4. QED
    BY <1>1, <1>2, <1>3, <2>2, <2>3 DEF bare, with
<1>4. CASE ~put
  <2>1. Fits(bare.layers, label, put, data)
    BY <1>1 DEF Fits
  <2>2. QED
    BY <1>1, <1>4, <2>1 DEF bare
<1>5. QED
  BY <1>3, <1>4

\* The same first series and the layers of a label among those before: they fit.
LEMMA StillFits == ASSUME NEW s, NEW r, NEW label, NEW on, NEW data, Fits(s, label, on, data),
                          \A i \in DOMAIN r : r[i].label = label => \E j \in DOMAIN s : r[i] = s[j]
                   PROVE  Fits(r, label, on, data)
  BY DEF Fits

\* applyAnomaliesToChart: the anomalies become those of the series, the projection stays.
LEMMA AnomaliesApplied == ASSUME NEW c \in Charts \ {"uptime"}, NEW chart, Drawn(c, chart), NEW anomalies \in BOOLEAN
                          PROVE  LET r == ApplyTo(chart, anomalies) IN
                                 /\ Drawn(c, r) /\ Marked(r, anomalies)
                                 /\ \A on : Projected(chart, on) => Projected(r, on)
<1> DEFINE bare == Without(chart, "Anomalias")
           odd  == DetectAnomalies(chart.layers[1].data)
           put  == anomalies /\ Known(odd) # {}
           r    == IF put THEN With(bare, "Anomalias", odd) ELSE bare
<1>1. "Anomalias" \in OverlayLabels /\ "Proyeccion" \in OverlayLabels /\ c \in Overlaid("Anomalias") /\ c \in Charts
  BY DEF OverlayLabels, Overlaid
<1>2. put \in BOOLEAN
  OBVIOUS
<1>3. bare.layers[1] = chart.layers[1]
  BY <1>1, WithoutDrawn
<1>4. ApplyTo(chart, anomalies) = r
  BY <1>3 DEF ApplyTo
<1> HIDE DEF put, odd
<1>5. /\ Drawn(c, r) /\ r.layers[1] = chart.layers[1]
      /\ Fits(r.layers, "Anomalias", put, odd)
      /\ \A i \in DOMAIN r.layers : r.layers[i].label # "Anomalias" =>
           \E j \in DOMAIN chart.layers : r.layers[i] = chart.layers[j]
  BY <1>1, <1>2, Overlaying
<1> HIDE DEF r
<1>6. Marked(r, anomalies)
  BY <1>5 DEF Marked, Fits, put, odd
<1>7. ASSUME NEW on, Projected(chart, on) PROVE Projected(r, on)
  <2>1. \A i \in DOMAIN r.layers : r.layers[i].label = "Proyeccion" => \E j \in DOMAIN chart.layers : r.layers[i] = chart.layers[j]
    BY <1>5
  <2>2. QED
    BY <1>5, <1>7, <2>1, StillFits DEF Projected
<1>8. QED
  BY <1>4, <1>5, <1>6, <1>7

\* applyForecast: the projection becomes that of the series, the anomalies stay.
LEMMA ForecastApplied == ASSUME NEW disk, Drawn("disk", disk), NEW forecast \in BOOLEAN
                         PROVE  LET r == ApplyForecast(disk, forecast) IN
                                /\ Drawn("disk", r) /\ Projected(r, forecast)
                                /\ \A on : Marked(disk, on) => Marked(r, on)
<1> DEFINE bare == Without(disk, "Proyeccion")
           line == Projection(disk.layers[1].data)
           put  == forecast /\ ~(Len(disk.layers[1].data) < 5)
           r    == IF put THEN With(bare, "Proyeccion", line) ELSE bare
<1>1. "Proyeccion" \in OverlayLabels /\ "disk" \in Overlaid("Proyeccion") /\ "disk" \in Charts
  BY DEF OverlayLabels, Overlaid, Charts
<1>2. put \in BOOLEAN
  OBVIOUS
<1>3. bare.layers[1] = disk.layers[1] /\ Made(disk)
  BY <1>1, WithoutDrawn, DrawnMade
<1>4. ApplyForecast(disk, forecast) = r
  BY <1>3 DEF ApplyForecast
<1> HIDE DEF put, line
<1>5. /\ Drawn("disk", r) /\ r.layers[1] = disk.layers[1]
      /\ Fits(r.layers, "Proyeccion", put, line)
      /\ \A i \in DOMAIN r.layers : r.layers[i].label # "Proyeccion" =>
           \E j \in DOMAIN disk.layers : r.layers[i] = disk.layers[j]
  BY <1>1, <1>2, Overlaying
<1> HIDE DEF r
<1>6. Projected(r, forecast)
  BY <1>5 DEF Projected, Fits, put, line
<1>7. ASSUME NEW on, Marked(disk, on) PROVE Marked(r, on)
  <2>1. \A i \in DOMAIN r.layers : r.layers[i].label = "Anomalias" => \E j \in DOMAIN disk.layers : r.layers[i] = disk.layers[j]
    BY <1>5
  <2>2. QED
    BY <1>5, <1>7, <2>1, StillFits DEF Marked
<1>8. QED
  BY <1>4, <1>5, <1>6, <1>7

----------------------------------------------------------------------------
(* Charts drawn and drawn again *)

\* The series a chart is made with: its own come first, an overlay is not among them.
Fresh(c, layers) ==
  /\ Layers(layers) /\ Distinct(layers) /\ Len(Own(c)) <= Len(layers)
  /\ \A i \in 1..Len(Own(c)) : layers[i].label = Own(c)[i]
  /\ \A i \in DOMAIN layers : layers[i].label \notin OverlayLabels
\* A chart before it is drawn again.
Drawable(c, chart) == Drawn(c, chart) \/ Unmade(chart)

\* A chart of fresh layers is drawn.
LEMMA FreshDrawn == ASSUME NEW c \in Charts, NEW layers, Fresh(c, layers), NEW chart, "layers" \in DOMAIN chart, chart.layers = layers
                    PROVE  Drawn(c, chart)
  BY DEF Fresh, Drawn

\* So is one made of them.
LEMMA FreshMade == ASSUME NEW c \in Charts, NEW layers, Fresh(c, layers), NEW bands
                   PROVE  Drawn(c, NewChart(layers, bands))
  BY FreshDrawn DEF NewChart

\* A chart that exists keeps its labels, and one that does not gets its own.
LEMMA Redrawable == ASSUME NEW c \in Charts, NEW chart, Drawable(c, chart), NEW layers, Fresh(c, layers),
                           Len(layers) = Len(Own(c)), NEW bands
                    PROVE  Drawn(c, CreateOrUpdate(chart, layers, bands))
<1>1. CASE ~Made(chart)
  BY <1>1, FreshMade DEF CreateOrUpdate
<1>2. CASE Made(chart)
  <2> DEFINE s == chart.layers
             q == [i \in DOMAIN s |-> IF i \in DOMAIN layers THEN layers[i] ELSE s[i]]
             r == CreateOrUpdate(chart, layers, bands)
  <2>1. Drawn(c, chart) /\ r.layers = q /\ "layers" \in DOMAIN r
    BY <1>2 DEF Drawable, Unmade, Made, CreateOrUpdate, Drawn
  <2>2. Len(s) \in Nat /\ DOMAIN s = 1..Len(s) /\ DOMAIN q = 1..Len(s)
    BY <2>1, DrawnMade
  <2>3. DOMAIN layers = 1..Len(Own(c)) /\ Len(Own(c)) \in Nat /\ Len(Own(c)) <= Len(s)
    BY <2>1, LayersShape, OwnLabels DEF Fresh, Drawn
  <2>4. \A i \in DOMAIN s : q[i].label = s[i].label
    BY <2>1, <2>3 DEF Fresh, Drawn
  <2>5. q = [i \in 1..Len(s) |-> q[i]]
    BY <2>2
  <2> HIDE DEF q, r
  <2>6. Layers(q) /\ Len(q) = Len(s)
    BY <2>2, <2>5, LayersListed
  <2>7. Distinct(q)
    BY <2>1, <2>2, <2>4 DEF Drawn, Distinct
  <2>8. \A i \in 1..Len(Own(c)) : i \in DOMAIN s
    BY <2>2, <2>3
  <2>9. \A i \in 1..Len(Own(c)) : q[i].label = Own(c)[i]
    BY <2>1, <2>4, <2>8 DEF Drawn
  <2>10. Drawn(c, r)
    BY <2>1, <2>2, <2>3, <2>4, <2>6, <2>7, <2>9 DEF Drawn
  <2>11. QED
    BY <2>10 DEF r
<1>3. QED
  BY <1>1, <1>2

\* The series charts are made with.
LEMMA OneFresh == ASSUME NEW c \in {"cpu", "temp", "ram", "io", "uptime"}, NEW data
                  PROVE  LET s == <<Layer(Own(c)[1], data)>> IN Fresh(c, s) /\ Len(s) = Len(Own(c))
<1> DEFINE s == <<Layer(Own(c)[1], data)>>
<1>1. Len(Own(c)) = 1 /\ Own(c)[1] \notin OverlayLabels
  BY DEF Own, OverlayLabels
<1>2. s = [i \in 1..1 |-> s[i]] /\ DOMAIN s = 1..1 /\ s[1] = Layer(Own(c)[1], data)
  OBVIOUS
<1> HIDE DEF s
<1>3. Layers(s) /\ Len(s) = 1
  BY <1>2, LayersListed
<1>4. s[1].label = Own(c)[1] /\ \A i \in 1..1 : i = 1
  BY <1>2 DEF Layer
<1>5. Distinct(s)
  BY <1>2, <1>4 DEF Distinct
<1>6. QED
  BY <1>1, <1>2, <1>3, <1>4, <1>5 DEF Fresh, s

\* Two series make fresh layers.
LEMMA TwoFresh == ASSUME NEW c \in Charts, NEW first, NEW second, NEW data, NEW more, first # second,
                         first = Own(c)[1], Len(Own(c)) = 1 \/ second = Own(c)[2], second \notin OverlayLabels
                  PROVE  LET s == <<Layer(first, data), Layer(second, more)>> IN Fresh(c, s) /\ Len(s) = 2
<1> DEFINE s == <<Layer(first, data), Layer(second, more)>>
<1>1. Len(Own(c)) \in {1, 2} /\ first \notin OverlayLabels
  <2>1. Len(Own(c)) \in {1, 2} /\ \A i \in 1..Len(Own(c)) : Own(c)[i] \notin OverlayLabels
    BY OwnLabels
  <2>2. 1 \in 1..Len(Own(c))
    BY <2>1
  <2>3. QED
    BY <2>1, <2>2
<1>2. s = [i \in 1..2 |-> s[i]] /\ DOMAIN s = 1..2 /\ s[1] = Layer(first, data) /\ s[2] = Layer(second, more)
  OBVIOUS
<1> HIDE DEF s
<1>3. Layers(s) /\ Len(s) = 2
  BY <1>2, LayersListed
<1>4. s[1].label = first /\ s[2].label = second /\ \A i \in 1..2 : i \in {1, 2}
  BY <1>2 DEF Layer
<1>5. Distinct(s)
  BY <1>2, <1>4 DEF Distinct
<1>6. Len(Own(c)) <= 2 /\ \A i \in 1..Len(Own(c)) : s[i].label = Own(c)[i]
  <2>1. CASE Len(Own(c)) = 1
    <3>1. \A i \in 1..1 : i = 1
      OBVIOUS
    <3>2. QED
      BY <1>4, <2>1, <3>1
  <2>2. CASE Len(Own(c)) = 2
    BY <1>4, <2>2
  <2>3. QED
    BY <1>1, <2>1, <2>2
<1>7. \A i \in DOMAIN s : s[i].label \notin OverlayLabels
  BY <1>1, <1>2, <1>4
<1>8. QED
  BY <1>3, <1>5, <1>6, <1>7 DEF Fresh, s

\* One more series at the end.
LEMMA MoreFresh == ASSUME NEW c \in Charts, NEW s, Fresh(c, s), NEW label, label \notin OverlayLabels, NEW data,
                          \A i \in DOMAIN s : s[i].label # label
                   PROVE  Fresh(c, Append(s, Layer(label, data)))
<1> DEFINE n == Len(s)
           q == Append(s, Layer(label, data))
<1>1. n \in Nat /\ DOMAIN s = 1..n /\ Len(Own(c)) \in Nat /\ Len(Own(c)) <= n
  BY LayersShape, OwnLabels DEF Fresh
<1>2. /\ Layers(q) /\ DOMAIN q = 1..(n + 1) /\ Len(q) = n + 1
      /\ \A i \in 1..n : q[i] = s[i]
      /\ q[n + 1] = Layer(label, data)
  BY LayersAppend, LayersShape DEF Fresh
<1> HIDE DEF q
<1>3. \A i \in DOMAIN q : i \in 1..n \/ i = n + 1
  BY <1>1, <1>2
<1>4. q[n + 1].label = label
  BY <1>2 DEF Layer
<1>5. Distinct(q)
  BY <1>1, <1>2, <1>3, <1>4 DEF Fresh, Distinct
<1>6. Len(Own(c)) <= n + 1 /\ \A i \in 1..Len(Own(c)) : i \in 1..n
  BY <1>1
<1>7. \A i \in 1..Len(Own(c)) : q[i].label = Own(c)[i]
  BY <1>2, <1>6 DEF Fresh
<1>8. \A i \in DOMAIN q : q[i].label \notin OverlayLabels
  BY <1>1, <1>2, <1>3, <1>4 DEF Fresh
<1>9. QED
  BY <1>2, <1>5, <1>6, <1>7, <1>8 DEF Fresh, q

\* createOrUpdateTrendChart
LEMMA TrendDrawn == ASSUME NEW c \in {"cpu", "temp"}, NEW chart, Drawable(c, chart), NEW data, NEW trends, NEW bands
                    PROVE  Drawn(c, TrendChart(chart, Own(c)[1], data, trends, bands))
<1> DEFINE label == Own(c)[1]
           first == <<Layer(label, data), Layer("Tendencia", TrendLine(data))>>
           more  == Layer("Prediccion", [i \in DOMAIN data |-> Gap] \o Predictions(data))
           all   == first \o IF Len(data) < 2 THEN <<>> ELSE <<more>>
<1>1. c \in Charts /\ Len(Own(c)) = 1 /\ label \in {"CPU", "Temperatura"}
  BY DEF Charts, Own
<1>2. /\ label # "Tendencia" /\ label # "Prediccion"
      /\ "Tendencia" \notin OverlayLabels /\ "Prediccion" \notin OverlayLabels
  BY <1>1 DEF OverlayLabels
<1>3. Fresh(c, first)
  BY <1>1, <1>2, TwoFresh
<1>4. Fresh(c, Append(first, more))
  <2>1. \A i \in DOMAIN first : first[i].label # "Prediccion"
    BY <1>2 DEF Layer
  <2> HIDE DEF first
  <2>2. QED
    BY <1>1, <1>2, <1>3, <2>1, MoreFresh
<1>5. Fresh(c, all)
  <2>1. first \o <<more>> = Append(first, more) /\ first \o <<>> = first
    OBVIOUS
  <2>2. QED
    BY <1>3, <1>4, <2>1
<1>6. Drawn(c, NewChart(all, bands))
  <2> HIDE DEF all
  <2>1. QED
    BY <1>1, <1>5, FreshMade
<1>7. Drawn(c, CreateOrUpdate(chart, <<Layer(label, data)>>, bands))
  BY <1>1, OneFresh, Redrawable
<1>8. QED
  BY <1>6, <1>7 DEF TrendChart

\* createOrUpdateRAMChart
LEMMA RAMDrawn == ASSUME NEW chart, Drawable("ram", chart), NEW data, NEW memory, NEW bands
                  PROVE  Drawn("ram", RAMChart(chart, data, memory, bands))
<1> DEFINE first == <<Layer("RAM", data)>>
           more  == Layer("Memory", [i \in DOMAIN data |-> memory])
           all   == first \o IF memory > 0 THEN <<more>> ELSE <<>>
<1>1. "ram" \in Charts /\ Own("ram")[1] = "RAM" /\ "Memory" \notin OverlayLabels
  BY DEF Charts, Own, OverlayLabels
<1>2. Fresh("ram", first)
  BY <1>1, OneFresh
<1>3. Fresh("ram", Append(first, more))
  <2>1. \A i \in DOMAIN first : first[i].label # "Memory"
    BY DEF Layer
  <2> HIDE DEF first
  <2>2. QED
    BY <1>1, <1>2, <2>1, MoreFresh
<1>4. Fresh("ram", all)
  <2>1. first \o <<more>> = Append(first, more) /\ first \o <<>> = first
    OBVIOUS
  <2>2. QED
    BY <1>2, <1>3, <2>1
<1>5. RAMChart(chart, data, memory, bands) = IF Made(chart) THEN [chart EXCEPT !.layers = all] ELSE NewChart(all, bands)
  BY DEF RAMChart
<1>6. "layers" \in DOMAIN chart
  BY DEF Drawable, Drawn, Unmade
<1> HIDE DEF all
<1>7. QED
  BY <1>1, <1>4, <1>5, <1>6, FreshDrawn, FreshMade

\* updateCharts, before the anomalies and the projection: every chart is drawn,
\* with its own series first.
LEMMA AllDrawn == ASSUME NEW charts, \A c \in Charts : Drawable(c, charts[c]),
                         NEW samples, NEW chosen, NEW memory, NEW trends, NEW bands, NEW c \in Charts
                  PROVE  Drawn(c, Redrawing(charts, samples, chosen, memory, trends, bands)[c])
<1> DEFINE r == Redrawing(charts, samples, chosen, memory, trends, bands)
<1>0. Drawable(c, charts[c])
  OBVIOUS
<1>1. CASE c = "cpu"
  <2>1. r[c] = TrendChart(charts[c], Own(c)[1], Gauge(samples, chosen, "cpu"), trends, bands[c])
    BY <1>1 DEF Redrawing, Own
  <2>2. QED
    BY <1>0, <1>1, <2>1, TrendDrawn
<1>2. CASE c = "temp"
  <2>1. r[c] = TrendChart(charts[c], Own(c)[1], Gauge(samples, chosen, "temp"), trends, bands[c])
    BY <1>2 DEF Redrawing, Own
  <2>2. QED
    BY <1>0, <1>2, <2>1, TrendDrawn
<1>3. CASE c = "ram"
  <2>1. r[c] = RAMChart(charts[c], Gauge(samples, chosen, "ram"), memory, bands[c])
    BY <1>3 DEF Redrawing
  <2>2. QED
    BY <1>0, <1>3, <2>1, RAMDrawn
<1>4. CASE c = "disk"
  <2> DEFINE s == <<Layer("Used", Storage(samples, chosen, "used")), Layer("Space", Storage(samples, chosen, "total"))>>
  <2>1. r[c] = CreateOrUpdate(charts[c], s, bands[c])
    BY <1>4 DEF Redrawing, DiskChart
  <2>2. Own(c)[1] = "Used" /\ Own(c)[2] = "Space" /\ Len(Own(c)) = 2 /\ "Space" \notin OverlayLabels
    BY <1>4 DEF Own, OverlayLabels
  <2>3. Fresh(c, s) /\ Len(s) = 2
    BY <2>2, TwoFresh
  <2> HIDE DEF s, r
  <2>4. QED
    BY <1>0, <2>1, <2>2, <2>3, Redrawable DEF r
<1>5. CASE c = "net"
  <2> DEFINE s == <<Layer("RX", NetRates(samples, chosen)), Layer("Capacity", Capacities(samples, chosen))>>
  <2>1. r[c] = CreateOrUpdate(charts[c], s, bands[c])
    BY <1>5 DEF Redrawing, NetChart
  <2>2. Own(c)[1] = "RX" /\ Own(c)[2] = "Capacity" /\ Len(Own(c)) = 2 /\ "Capacity" \notin OverlayLabels
    BY <1>5 DEF Own, OverlayLabels
  <2>3. Fresh(c, s) /\ Len(s) = 2
    BY <2>2, TwoFresh
  <2> HIDE DEF s, r
  <2>4. QED
    BY <1>0, <2>1, <2>2, <2>3, Redrawable DEF r
<1>6. CASE c = "io"
  <2> DEFINE s == <<Layer(Own(c)[1], DiskRates(samples, chosen))>>
  <2>1. r[c] = CreateOrUpdate(charts[c], s, bands[c])
    BY <1>6 DEF Redrawing, IOChart, Own
  <2>2. Fresh(c, s) /\ Len(s) = Len(Own(c))
    BY <1>6, OneFresh
  <2> HIDE DEF s, r
  <2>3. QED
    BY <1>0, <2>1, <2>2, Redrawable DEF r
<1>7. CASE c = "uptime"
  <2> DEFINE s == <<Layer(Own(c)[1], Uptime(samples))>>
  <2>1. r[c] = CreateOrUpdate(charts[c], s, <<>>)
    BY <1>7 DEF Redrawing, UptimeChart, Own
  <2>2. Fresh(c, s) /\ Len(s) = Len(Own(c))
    BY <1>7, OneFresh
  <2> HIDE DEF s, r
  <2>3. QED
    BY <1>0, <2>1, <2>2, Redrawable DEF r
<1>8. QED
  BY <1>1, <1>2, <1>3, <1>4, <1>5, <1>6, <1>7 DEF Charts

\* Every chart is there, or none is.
AllMade(charts)  == \A c \in Charts : Drawn(c, charts[c])
NoneMade(charts) == charts = [c \in Charts |-> charts[c]] /\ \A c \in Charts : Unmade(charts[c])
AllCurrent(charts, on) == charts = [c \in Charts |-> charts[c]] /\ \A c \in Charts : Current(c, charts[c], on)

\* A chart no overlay is drawn on has none.
LEMMA NeverMarked == ASSUME NEW c \in Charts, NEW chart, Drawn(c, chart), NEW on
                     PROVE  /\ c = "uptime" => Marked(chart, on)
                            /\ c # "disk" => Projected(chart, on)
<1>1. "Anomalias" \in OverlayLabels /\ "Proyeccion" \in OverlayLabels
  BY DEF OverlayLabels
<1>2. ASSUME c = "uptime" PROVE Marked(chart, on)
  BY <1>1, <1>2 DEF Drawn, Overlaid, Marked, Fits
<1>3. ASSUME c # "disk" PROVE Projected(chart, on)
  BY <1>1, <1>3 DEF Drawn, Overlaid, Projected, Fits
<1>4. QED
  BY <1>2, <1>3

\* applyAnomalies marks the charts that are drawn and leaves the projection.
LEMMA AllMarked == ASSUME NEW charts, AllMade(charts), NEW anomalies \in BOOLEAN
                   PROVE  LET r == ApplyAnomalies(charts, anomalies) IN
                          /\ r = [c \in Charts |-> r[c]]
                          /\ AllMade(r) /\ \A c \in Charts : Marked(r[c], anomalies)
                          /\ \A c \in Charts : \A on : Projected(charts[c], on) => Projected(r[c], on)
<1> DEFINE r == [c \in Charts |-> IF c = "uptime" \/ ~Made(charts[c]) THEN charts[c] ELSE ApplyTo(charts[c], anomalies)]
<1>1. \A c \in Charts : Drawn(c, charts[c]) /\ Made(charts[c])
  BY DrawnMade DEF AllMade
<1>2. "cpu" \in Charts
  BY DEF Charts
<1>3. ApplyAnomalies(charts, anomalies) = r
  BY <1>1, <1>2 DEF ApplyAnomalies
<1>4. \A c \in Charts : r[c] = IF c = "uptime" THEN charts[c] ELSE ApplyTo(charts[c], anomalies)
  BY <1>1
<1>5. r = [c \in Charts |-> r[c]]
  OBVIOUS
<1> HIDE DEF r
<1>6. ASSUME NEW c \in Charts
      PROVE  Drawn(c, r[c]) /\ Marked(r[c], anomalies) /\ \A on : Projected(charts[c], on) => Projected(r[c], on)
  <2>1. CASE c = "uptime"
    BY <1>1, <1>4, <2>1, NeverMarked
  <2>2. CASE c # "uptime"
    BY <1>1, <1>4, <2>2, AnomaliesApplied
  <2>3. QED
    BY <2>1, <2>2
<1>7. QED
  BY <1>3, <1>5, <1>6 DEF AllMade

\* The projection of the disk is drawn anew, and the charts stay marked.
LEMMA AllProjected == ASSUME NEW charts, charts = [c \in Charts |-> charts[c]], AllMade(charts), NEW on, on.anomalies \in BOOLEAN, on.forecast \in BOOLEAN,
                             \A c \in Charts : Marked(charts[c], on.anomalies)
                      PROVE  AllCurrent([charts EXCEPT !["disk"] = ApplyForecast(charts["disk"], on.forecast)], on)
<1> DEFINE d == ApplyForecast(charts["disk"], on.forecast)
           r == [charts EXCEPT !["disk"] = d]
<1>1. "disk" \in Charts /\ \A c \in Charts : Drawn(c, charts[c])
  BY DEF Charts, AllMade
<1>2. Drawn("disk", d) /\ Projected(d, on.forecast) /\ Marked(d, on.anomalies)
  BY <1>1, ForecastApplied
<1> HIDE DEF d
<1>3. r = [c \in Charts |-> r[c]] /\ \A c \in Charts : r[c] = IF c = "disk" THEN d ELSE charts[c]
  BY <1>1 DEF AllMade
<1> HIDE DEF r
<1>4. ASSUME NEW c \in Charts PROVE Current(c, r[c], on)
  BY <1>1, <1>2, <1>3, NeverMarked DEF Current
<1>5. QED
  BY <1>3, <1>4 DEF AllCurrent, r, d

\* updateCharts makes or updates all charts, and what lies over them is current.
LEMMA UpdatedCurrent == ASSUME NEW charts, \A c \in Charts : Drawable(c, charts[c]),
                               NEW samples, NEW chosen, NEW memory, NEW bands,
                               NEW on, on.anomalies \in BOOLEAN, on.forecast \in BOOLEAN
                        PROVE  AllCurrent(UpdateCharts(charts, samples, chosen, memory, on, bands), on)
<1> DEFINE fresh  == Redrawing(charts, samples, chosen, memory, on.trends, bands)
           marked == ApplyAnomalies(fresh, on.anomalies)
<1>1. AllMade(fresh)
  BY AllDrawn DEF AllMade
<1> HIDE DEF fresh
<1>2. marked = [c \in Charts |-> marked[c]] /\ AllMade(marked) /\ \A c \in Charts : Marked(marked[c], on.anomalies)
  BY <1>1, AllMarked
<1>3. UpdateCharts(charts, samples, chosen, memory, on, bands) =
        [marked EXCEPT !["disk"] = ApplyForecast(marked["disk"], on.forecast)]
  BY DEF UpdateCharts, fresh
<1> HIDE DEF marked
<1>4. AllCurrent([marked EXCEPT !["disk"] = ApplyForecast(marked["disk"], on.forecast)], on)
  BY <1>2, AllProjected
<1>5. QED
  BY <1>3, <1>4
=============================================================================
