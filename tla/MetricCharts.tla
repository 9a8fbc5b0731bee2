---------------------------- MODULE MetricCharts ----------------------------
(***************************************************************************)
(* What the charts of the history page compute from the samples of a       *)
(* server: the rates between two samples, trends, anomalies and the day    *)
(* the disk is full.  A series is a sequence of numbers and gaps; rates and *)
(* lines are rounded down.  Receiving stands for sending and reading for   *)
(* writing, memory for the other gauges.                                   *)
(***************************************************************************)
EXTENDS Integers, Sequences, SequencesExt, FiniteSetsExt, TLC

Gap == -1 \* null: Chart.js draws no point
Layer(label, data) == [label |-> label, data |-> data]
Known(data)        == {i \in DOMAIN data : data[i] # Gap}

\* The sum of f over the known points of a series.
Over(data, f) == MapThenSumSet(LAMBDA k : f[k], Known(data))
Places(data)  == [k \in DOMAIN data |-> k - 1]
Products(data, f) == [k \in DOMAIN data |-> f[k] * data[k]]
Total(data)   == Over(data, data)

\* Least squares over the known points, the first of which has x = 0; n is what
\* the code divides by, the rest are sums of coordinates and of their products.
\* The height at x is Height(line, x) \div line.scale.
Line(n, sx, sy, rise, run) == [rise |-> rise, n |-> n, base |-> sy * run - rise * sx, scale |-> n * run]
Fitted(n, sx, sy, sxy, sxx) == Line(n, sx, sy, n * sxy - sx * sy, n * sxx - sx * sx)
Regression(data, n) == Fitted(n, Over(data, Places(data)), Total(data), Over(data, Products(data, Places(data))),
                              Over(data, Products(Places(data), Places(data))))
Height(line, x) == line.n * line.rise * x + line.base

\* calculateTrendLine: three points at least, no negative values, five hours ahead.
LinearRegression(data)   == Regression(data, Cardinality(Known(data)))
TrendLine(data)   == LET l == LinearRegression(data) IN
  [i \in DOMAIN data |-> IF Height(l, i - 1) >= 0 THEN Height(l, i - 1) \div l.scale ELSE Gap]
Predictions(data) == LET l == LinearRegression(data) IN
  [i \in 1..5 |-> Max({0, Height(l, Len(data) - 1 + i) \div l.scale})]
Trended(data)     == Cardinality(Known(data)) >= 3

\* detectAnomalies: further from the mean than two and a half deviations.
DetectAnomalies(data) ==
  LET n == Cardinality(Known(data))
      sum == Total(data)
      variance == n * Over(data, Products(data, data)) - sum * sum
      Far(v)   == 4 * (n * v - sum) * (n * v - sum) > 25 * variance IN
  IF n < 5 \/ variance = 0 THEN <<>>
  ELSE [i \in DOMAIN data |-> IF data[i] # Gap /\ Far(data[i]) THEN data[i] ELSE Gap]

\* calculateLinearRegression divides by the number of all points, gaps included.
CalculateLinearRegression(data) == Regression(data, Len(data))
Projection(data) ==
  LET l == CalculateLinearRegression(data) IN
  [i \in DOMAIN data |-> IF l.scale = 0 THEN Gap ELSE Max({0, Height(l, i - 1) \div l.scale})]

\* When the line reaches the capacity, counted in the mean distance of the samples.
Exhaustion(data, capacities, samples) ==
  LET l     == CalculateLinearRegression(data)
      full  == Max(ToSet(capacities) \cup {0})
      run   == l.scale \div l.n
      left  == full * l.scale - l.base - l.n * l.rise * (Len(data) - 1) \* over n * rise
      span  == samples[Len(samples)].at - samples[1].at
      Within(days) == left * span < days * l.n * l.rise * (Len(samples) - 1) IN
  IF l.rise <= 0 \/ run = 0 \/ full = 0 THEN "stable"
  ELSE IF left <= 0 THEN "full"
  ELSE IF Within(7) THEN "days" ELSE IF Within(30) THEN "weeks" ELSE IF Within(365) THEN "months" ELSE "over a year"

----------------------------------------------------------------------------
(* The series of a history, for what the selectors of the page choose *)

Choice(iface, disk, node) == [iface |-> iface, disk |-> disk, node |-> node]
Names(samples, field)     == UNION {DOMAIN s[field] : s \in ToSet(samples)}
Remains(choice, names)    == IF choice \in names THEN choice ELSE "total"

\* The choices that are still offered are kept; nodes are only offered for a cluster.
Offered(samples, chosen, cluster) ==
  Choice(Remains(chosen.iface, Names(samples, "ifaces")), Remains(chosen.disk, Names(samples, "disks")),
         IF ~cluster THEN "total"
         ELSE IF samples = <<>> THEN chosen.node ELSE Remains(chosen.node, Names(samples, "nodes")))

Sorted(samples) == SortSeq(samples, LAMBDA s, t : s.at < t.at)
Gauge(samples, chosen, field) ==
  [i \in DOMAIN samples |->
     IF chosen.node = "total" THEN samples[i][field]
     ELSE IF chosen.node \in DOMAIN samples[i].nodes THEN samples[i].nodes[chosen.node][field] ELSE Gap]

\* One value per interval, a gap when no time has passed.
Intervals(samples) == 1..Max({0, Len(samples) - 1})
Elapsed(samples, i) == samples[i + 1].at - samples[i].at
Passed(samples)     == {i \in Intervals(samples) : Elapsed(samples, i) > 0}
PerInterval(samples, f) == [i \in Intervals(samples) |-> IF i \in DOMAIN f THEN f[i] ELSE Gap]

Counter(map, name, field) == IF name \in DOMAIN map THEN map[name][field] ELSE 0
\* A counter that was reset shows no traffic.
NetRates(samples, chosen) ==
  LET Rx(s) == IF chosen.iface = "total" THEN s.rx ELSE Counter(s.ifaces, chosen.iface, "rx")
      Rate(i) == IF chosen.node = "total"
                 THEN (Max({0, Rx(samples[i + 1]) - Rx(samples[i])}) * 8) \div Elapsed(samples, i)
                 ELSE IF chosen.node \in DOMAIN samples[i + 1].nodes
                 THEN samples[i + 1].nodes[chosen.node].rx * 8 ELSE Gap IN
  PerInterval(samples, [i \in Passed(samples) |-> Rate(i)])
Capacities(samples, chosen) ==
  LET Speed(i) == LET map == samples[i + 1].ifaces IN
                  IF chosen.iface = "total" THEN MapThenSumSet(LAMBDA n : map[n].speed, DOMAIN map)
                  ELSE Counter(map, chosen.iface, "speed") IN
  PerInterval(samples, [i \in Passed(samples) |-> Speed(i)])
Storage(samples, chosen, field) ==
  LET Of(i) == IF chosen.node = "total" THEN samples[i + 1][field]
               ELSE Counter(samples[i + 1].nodes, chosen.node, field) IN
  PerInterval(samples, [i \in Passed(samples) |-> Of(i)])
\* A counter that was reset counts from zero.  For a node the code adds a gap and
\* then a rate, so that the series is twice as long as the intervals.
DiskRates(samples, chosen) ==
  LET Read(s) == IF chosen.disk = "total" \/ chosen.node # "total" THEN s.read
                 ELSE Counter(s.disks, chosen.disk, "read")
      Delta(i) == LET d == Read(samples[i + 1]) - Read(samples[i]) IN IF d < 0 THEN Read(samples[i + 1]) ELSE d
      Points(i) == IF Elapsed(samples, i) <= 0 THEN <<Gap>>
                   ELSE (IF chosen.node = "total" THEN <<>> ELSE <<Gap>>) \o <<Delta(i) \div Elapsed(samples, i)>> IN
  FlattenSeq([i \in Intervals(samples) |-> Points(i)])
Uptime(samples) == [i \in DOMAIN samples |-> IF samples[i].online THEN 100 ELSE 0]

----------------------------------------------------------------------------
(* The charts: layers, and the thresholds drawn when a chart was made *)

Charts  == {"cpu", "temp", "ram", "disk", "net", "io", "uptime"}
NoChart == [layers |-> <<>>, bands |-> <<>>]
Made(chart) == chart.layers # <<>>
NewChart(layers, bands)  == [layers |-> layers, bands |-> bands]
\* A chart that exists gets new series in the place of its first ones and keeps the rest.
CreateOrUpdate(chart, layers, bands) ==
  IF ~Made(chart) THEN NewChart(layers, bands)
  ELSE [chart EXCEPT !.layers = [i \in DOMAIN @ |-> IF i \in DOMAIN layers THEN layers[i] ELSE @[i]]]

\* With trends a chart is made anew, without them the layers of a trend stay.
TrendChart(chart, label, data, trends, bands) ==
  IF trends /\ Trended(data)
  THEN NewChart(<<Layer(label, data), Layer("Tendencia", TrendLine(data))>>
                \o IF Len(data) < 2 THEN <<>>
                   ELSE <<Layer("Prediccion", [i \in DOMAIN data |-> Gap] \o Predictions(data))>>, bands)
  ELSE CreateOrUpdate(chart, <<Layer(label, data)>>, bands)
RAMChart(chart, data, memory, bands) ==
  LET layers == <<Layer("RAM", data)>> \o
                IF memory > 0 THEN <<Layer("Memory", [i \in DOMAIN data |-> memory])>> ELSE <<>> IN
  IF Made(chart) THEN [chart EXCEPT !.layers = layers] ELSE NewChart(layers, bands)
DiskChart(chart, samples, chosen, bands) ==
  CreateOrUpdate(chart, <<Layer("Used", Storage(samples, chosen, "used")), Layer("Space", Storage(samples, chosen, "total"))>>, bands)
NetChart(chart, samples, chosen, bands) ==
  CreateOrUpdate(chart, <<Layer("RX", NetRates(samples, chosen)), Layer("Capacity", Capacities(samples, chosen))>>, bands)
IOChart(chart, samples, chosen, bands) ==
  CreateOrUpdate(chart, <<Layer("Lectura", DiskRates(samples, chosen))>>, bands)
UptimeChart(chart, samples) == CreateOrUpdate(chart, <<Layer("Disponibilidad", Uptime(samples))>>, <<>>)

\* datasets.filter: the layers of the other labels, in their order.
Others(layers, label) ==
  LET kept[n \in 0..Len(layers)] == IF n = 0 THEN <<>>
                                    ELSE IF layers[n].label = label THEN kept[n - 1]
                                    ELSE Append(kept[n - 1], layers[n])
  IN  kept[Len(layers)]
Without(chart, label) == [chart EXCEPT !.layers = Others(@, label)]
With(chart, label, data) == [chart EXCEPT !.layers = Append(@, Layer(label, data))]
ApplyTo(chart, anomalies) ==
  LET bare == Without(chart, "Anomalias")
      odd  == DetectAnomalies(bare.layers[1].data) IN
  IF ~anomalies \/ Known(odd) = {} THEN bare ELSE With(bare, "Anomalias", odd)
\* Mutated: the anomalies shown before are not removed.
AnomaliesPile(charts, anomalies) ==
  IF ~Made(charts["cpu"]) THEN charts
  ELSE [c \in Charts |-> IF c = "uptime" \/ ~Made(charts[c]) \/ ~anomalies THEN charts[c]
                         ELSE LET odd == DetectAnomalies(charts[c].layers[1].data) IN
                              IF Known(odd) = {} THEN charts[c] ELSE With(charts[c], "Anomalias", odd)]
ApplyAnomalies(charts, anomalies) ==
  IF ~Made(charts["cpu"]) THEN charts
  ELSE [c \in Charts |-> IF c = "uptime" \/ ~Made(charts[c]) THEN charts[c] ELSE ApplyTo(charts[c], anomalies)]

\* Less than five points: the projection goes and the label stays as it was.
ApplyForecast(disk, forecast) ==
  LET bare == Without(disk, "Proyeccion") IN
  IF ~Made(disk) \/ ~forecast \/ Len(bare.layers[1].data) < 5 THEN IF Made(disk) THEN bare ELSE disk
  ELSE With(bare, "Proyeccion", Projection(bare.layers[1].data))
ForecastLabel(disk, forecast, samples, label) ==
  IF ~Made(disk) THEN label
  ELSE IF ~forecast THEN "hidden"
  ELSE IF Len(disk.layers[1].data) < 5 THEN label
  ELSE Exhaustion(disk.layers[1].data, disk.layers[2].data, samples)

\* What updateCharts draws before the anomalies and the projection.
Redrawing(charts, samples, chosen, memory, trends, bands) ==
  [c \in Charts |->
     CASE c = "cpu"  -> TrendChart(charts[c], "CPU", Gauge(samples, chosen, "cpu"), trends, bands[c])
       [] c = "temp" -> TrendChart(charts[c], "Temperatura", Gauge(samples, chosen, "temp"), trends, bands[c])
       [] c = "ram"  -> RAMChart(charts[c], Gauge(samples, chosen, "ram"), memory, bands[c])
       [] c = "disk" -> DiskChart(charts[c], samples, chosen, bands[c])
       [] c = "net"  -> NetChart(charts[c], samples, chosen, bands[c])
       [] c = "io"   -> IOChart(charts[c], samples, chosen, bands[c])
       [] c = "uptime" -> UptimeChart(charts[c], samples)]
UpdateCharts(charts, samples, chosen, memory, on, bands) ==
  LET marked == ApplyAnomalies(Redrawing(charts, samples, chosen, memory, on.trends, bands), on.anomalies) IN
  [marked EXCEPT !["disk"] = ApplyForecast(@, on.forecast)]
=============================================================================
