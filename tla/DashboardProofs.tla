-------------------------- MODULE DashboardProofs --------------------------
(***************************************************************************)
(* Proofs about Dashboard, for any servers, charts, gauges and windows.    *)
(***************************************************************************)
EXTENDS Dashboard, SequenceTheorems, TLAPS

-----------------------------------------------------------------------------
(* The inductive invariant. *)

\* The attempts are the closes since the last open, until the client gives up.
SocketInv ==
  /\ WsTypeOK
  /\ failures = IF socket = "stopped" THEN MaxReconnectAttempts + 1 ELSE reconnectAttempts

PageTyped ==
  /\ tab \in Servers \cup VirtualTabs
  /\ shown \in [Sections -> Servers \cup {None}]
  /\ asked \in 0..MaxAsked
  /\ fetching \subseteq [chart : Charts, range : Ranges]

\* The tab of a server filters its envelopes.
FilterInv == tab \in Servers => serverFilter = tab

\* A sparkline that ends on v.
Spark(h, v) ==
  /\ h \in Seq(Servers \cup {None})
  /\ Len(h) \in 1..SPARK_POINTS
  /\ h[Len(h)] = v

GaugeInv ==
  /\ DOMAIN spark = Gauges
  /\ spark \in [Gauges -> Seq(Servers \cup {None})]
  /\ \A g \in Gauges : Spark(spark[g], shown[g])

\* A series with a label for each point, within the window n or the history.
Fits(c, d, n) == Len(d) <= n \/ (c \in HistoryCharts /\ Len(d) <= HistoryLen)

Sound(c, r, n) ==
  /\ r \in Series
  /\ r.labels = r.data
  /\ Fits(c, r.data, n)

Drawn(c) == IF plotted[c] = "live" THEN series[c].data ELSE Points(RangeLen)

ChartInv ==
  /\ maxDataPoints \in Windows
  /\ series \in [Charts -> Series]
  /\ plotted \in [Charts -> Ranges \cup {"live"}]
  /\ anomalies \in [Charts -> Seq(Servers)]
  /\ \A c \in Charts : Sound(c, series[c], maxDataPoints)
  /\ \A c \in Charts : anomalies[c] = RecomputeAnomalies(Drawn(c))

Inv == SocketInv /\ PageTyped /\ FilterInv /\ GaugeInv /\ ChartInv

-----------------------------------------------------------------------------
(* The operators on series and sparklines. *)

\* The points of a reply are those of the hub.
LEMMA PointsType ==
  ASSUME NEW n \in Nat
  PROVE  Points(n) \in Seq(Servers) /\ Len(Points(n)) = n
<1>1. Points(n) \in [1..n -> Servers]
  BY DashboardConstants DEF Points
<1>2. QED
  BY <1>1 DEF Points

\* Markers are points of the series.
LEMMA AnomaliesType ==
  ASSUME NEW data \in Seq(Servers)
  PROVE  RecomputeAnomalies(data) \in Seq(Servers)
BY DEF RecomputeAnomalies

\* Points that fit, each its own label.
LEMMA SoundIf ==
  ASSUME NEW c, NEW n, NEW d \in Seq(Servers), Fits(c, d, n),
         NEW r, r = [labels |-> d, data |-> d]
  PROVE  Sound(c, r, n)
BY DEF Sound, Series

\* One push keeps a series sound.
LEMMA PushSound ==
  ASSUME NEW c, NEW r, NEW s \in Servers, maxDataPoints \in Windows,
         Sound(c, r, maxDataPoints)
  PROVE  Sound(c, Push(r, s), maxDataPoints)
<1>1. /\ r \in Series /\ r.labels = r.data /\ r.data \in Seq(Servers)
      /\ maxDataPoints \in Nat \ {0} /\ Len(r.data) \in Nat
  BY DashboardConstants, LenProperties DEF Sound, Series
<1>2. CASE Lengths(r) >= maxDataPoints
  <2>1. Len(r.data) >= 1 /\ r.data # <<>>
    BY <1>1, <1>2, EmptySeq DEF Lengths
  <2>2. Tail(r.data) \in Seq(Servers) /\ Len(Tail(r.data)) = Len(r.data) - 1
    BY <1>1, <2>1, HeadTailProperties
  <2>3. /\ Append(Tail(r.data), s) \in Seq(Servers)
        /\ Len(Append(Tail(r.data), s)) = Len(r.data)
    BY <1>1, <2>2, AppendProperties
  <2>4. Push(r, s) = [labels |-> Append(Tail(r.data), s), data |-> Append(Tail(r.data), s)]
    BY <1>1, <1>2 DEF Push
  <2>5. QED
    BY <2>3, <2>4, SoundIf DEF Sound, Fits
<1>3. CASE ~ (Lengths(r) >= maxDataPoints)
  <2>1. Append(r.data, s) \in Seq(Servers) /\ Len(Append(r.data, s)) = Len(r.data) + 1
    BY <1>1, AppendProperties
  <2>2. Push(r, s) = [labels |-> Append(r.data, s), data |-> Append(r.data, s)]
    BY <1>1, <1>3 DEF Push
  <2>3. Len(r.data) + 1 <= maxDataPoints
    BY <1>1, <1>3 DEF Lengths
  <2>4. Len(Append(r.data, s)) <= maxDataPoints
    BY <2>1, <2>3
  <2>5. Fits(c, Append(r.data, s), maxDataPoints)
    BY <2>4 DEF Fits
  <2>6. QED
    BY <2>1, <2>2, <2>5, SoundIf
<1>4. QED
  BY <1>2, <1>3

\* A trim makes a series sound for the new window.
LEMMA TrimSound ==
  ASSUME NEW c, NEW r, NEW m, NEW n \in Windows, Sound(c, r, m)
  PROVE  Sound(c, Trim(r, n), n)
<1>1. /\ r \in Series /\ r.labels = r.data /\ r.data \in Seq(Servers)
      /\ n \in Nat \ {0} /\ Len(r.data) \in Nat
  BY DashboardConstants, LenProperties DEF Sound, Series
<1>2. CASE Lengths(r) > n
  <2>1. \A i \in (Len(r.data) - n + 1)..Len(r.data) : r.data[i] \in Servers
    BY <1>1, <1>2, ElementOfSeq DEF Lengths
  <2>2. /\ SubSeq(r.data, Len(r.data) - n + 1, Len(r.data)) \in Seq(Servers)
        /\ Len(SubSeq(r.data, Len(r.data) - n + 1, Len(r.data))) =
             IF Len(r.data) - n + 1 <= Len(r.data)
             THEN Len(r.data) - (Len(r.data) - n + 1) + 1 ELSE 0
    <3>1. Len(r.data) - n + 1 \in Int /\ Len(r.data) \in Int
      BY <1>1
    <3>2. QED
      BY <2>1, <3>1, SubSeqProperties
  <2>3. Last(r.data, n) \in Seq(Servers) /\ Len(Last(r.data, n)) = n
    BY <1>1, <1>2, <2>2 DEF Last
  <2>4. Trim(r, n) = [labels |-> Last(r.data, n), data |-> Last(r.data, n)]
    BY <1>1, <1>2 DEF Trim
  <2>5. Fits(c, Last(r.data, n), n)
    BY <1>1, <2>3 DEF Fits
  <2>6. QED
    BY <2>3, <2>4, <2>5, SoundIf
<1>3. CASE ~ (Lengths(r) > n)
  BY <1>1, <1>3 DEF Trim, Lengths, Sound, Fits
<1>4. QED
  BY <1>2, <1>3

\* A draw leaves a sparkline that ends on the value drawn.
LEMMA PushHistorySound ==
  ASSUME NEW h, NEW u, NEW v \in Servers \cup {None}, Spark(h, u)
  PROVE  Spark(PushHistory(h, v), v)
<1>1. /\ h \in Seq(Servers \cup {None}) /\ Len(h) \in 1..SPARK_POINTS
      /\ SPARK_POINTS \in Nat \ {0} /\ Len(h) \in Nat
  BY DashboardConstants DEF Spark
<1>2. CASE Len(h) >= SPARK_POINTS
  <2>1. h # <<>>
    BY <1>1, EmptySeq
  <2>2. Tail(h) \in Seq(Servers \cup {None}) /\ Len(Tail(h)) = Len(h) - 1
    BY <1>1, <2>1, HeadTailProperties
  <2>3. /\ Append(Tail(h), v) \in Seq(Servers \cup {None})
        /\ Len(Append(Tail(h), v)) = Len(h)
        /\ Append(Tail(h), v)[Len(h)] = v
    BY <1>1, <2>2, AppendProperties
  <2>4. QED
    BY <1>1, <1>2, <2>3 DEF PushHistory, Spark
<1>3. CASE ~ (Len(h) >= SPARK_POINTS)
  <2>1. /\ Append(h, v) \in Seq(Servers \cup {None})
        /\ Len(Append(h, v)) = Len(h) + 1
        /\ Append(h, v)[Len(h) + 1] = v
    BY <1>1, AppendProperties
  <2>2. QED
    BY <1>1, <1>3, <2>1 DEF PushHistory, Spark
<1>4. QED
  BY <1>2, <1>3

-----------------------------------------------------------------------------
(* The invariant. *)

\* The initial state satisfies it.
LEMMA InvInit == Init => Inv
<1> SUFFICES ASSUME Init PROVE Inv
  OBVIOUS
<1>1. SocketInv
  BY ClientConstants, DashboardConstants DEF Init, WsInit, SocketInv, WsTypeOK
<1>2. PageTyped /\ FilterInv
  BY DashboardConstants DEF Init, PageTyped, FilterInv
<1>3. GaugeInv
  <2>1. <<None>> \in Seq(Servers \cup {None}) /\ Len(<<None>>) = 1 /\ <<None>>[1] = None
    OBVIOUS
  <2>2. QED
    BY <2>1, DashboardConstants DEF Init, InitGauges, GaugeInv, Spark
<1>4. ChartInv
  <2>1. <<>> \in Seq(Servers) /\ Len(<<>>) = 0
    BY EmptySeq
  <2>2. \A c \in Charts : /\ series[c] = [labels |-> <<>>, data |-> <<>>]
                          /\ plotted[c] = "live" /\ anomalies[c] = <<>>
    BY DEF Init, InitSeries, EnhanceCharts
  <2>3. maxDataPoints \in Nat
    BY DashboardConstants DEF Init
  <2>4. ASSUME NEW c \in Charts PROVE Sound(c, series[c], maxDataPoints)
    <3>1. Fits(c, <<>>, maxDataPoints)
      BY <2>1, <2>3 DEF Fits
    <3>2. QED
      BY <2>1, <2>2, <3>1, SoundIf
  <2>5. RecomputeAnomalies(<<>>) = <<>>
    BY DEF RecomputeAnomalies
  <2>6. QED
    BY <2>1, <2>2, <2>4, <2>5
       DEF Init, InitSeries, EnhanceCharts, ChartInv, Drawn, Series
<1>5. QED
  BY <1>1, <1>2, <1>3, <1>4 DEF Inv

\* When every series is sound, drawing them all keeps the charts in step.
LEMMA UpdateKeeps ==
  ASSUME maxDataPoints' \in Windows,
         DOMAIN series' = Charts, series' = [c \in Charts |-> series'[c]],
         \A c \in Charts : Sound(c, series'[c], maxDataPoints'),
         UpdateAllCharts
  PROVE  ChartInv'
<1>1. \A c \in Charts : series'[c] \in Series /\ series'[c].data \in Seq(Servers)
  BY DEF Sound, Series
<1>2. \A c \in Charts : /\ plotted'[c] = "live"
                        /\ anomalies'[c] = RecomputeAnomalies(series'[c].data)
  BY DEF UpdateAllCharts
<1>3. series' \in [Charts -> Series]
  BY <1>1
<1>4. anomalies' \in [Charts -> Seq(Servers)]
  BY <1>1, AnomaliesType DEF UpdateAllCharts
<1>5. plotted' \in [Charts -> Ranges \cup {"live"}]
  BY DEF UpdateAllCharts
<1>6. \A c \in Charts : anomalies'[c] = RecomputeAnomalies(Drawn(c)')
  BY <1>2 DEF Drawn
<1>7. QED
  BY <1>3, <1>4, <1>5, <1>6 DEF ChartInv

\* What an envelope of s does to the gauges it is drawn on.
LEMMA DrawKeeps ==
  ASSUME Inv, NEW s \in Servers, Show("SYSTEM_METRICS", s), Draw("SYSTEM_METRICS", s)
  PROVE  GaugeInv' /\ shown' \in [Sections -> Servers \cup {None}]
<1>1. shown' \in [Sections -> Servers \cup {None}]
  BY DEF Inv, PageTyped, Show
<1>2. \A g \in Gauges : Spark(spark'[g], shown'[g])
  <2> TAKE g \in Gauges
  <2>1. g \in Sections /\ Spark(spark[g], shown[g])
    BY DashboardConstants DEF Inv, GaugeInv
  <2>2. CASE g \in Carries[s]["SYSTEM_METRICS"]
    <3>1. spark'[g] = PushHistory(spark[g], s) /\ shown'[g] = s
      BY <2>1, <2>2 DEF Show, Draw
    <3>2. QED
      BY <2>1, <3>1, PushHistorySound
  <2>3. CASE g \notin Carries[s]["SYSTEM_METRICS"]
    BY <2>1, <2>3 DEF Show, Draw
  <2>4. QED
    BY <2>2, <2>3
<1>3. spark' \in [Gauges -> Seq(Servers \cup {None})] /\ DOMAIN spark' = Gauges
  BY <1>2 DEF Draw, Spark
<1>4. QED
  BY <1>1, <1>2, <1>3 DEF GaugeInv

\* A service or database envelope fills in no gauge.
LEMMA ShowKeeps ==
  ASSUME Inv, NEW s \in Servers, NEW t \in TELEMETRY_TYPES \ {"SYSTEM_METRICS"},
         Show(t, s), UNCHANGED spark
  PROVE  GaugeInv' /\ shown' \in [Sections -> Servers \cup {None}]
<1>1. shown' \in [Sections -> Servers \cup {None}]
  BY DEF Inv, PageTyped, Show
<1>2. \A g \in Gauges : shown'[g] = shown[g]
  BY DashboardConstants DEF Show, Inv, PageTyped
<1>3. QED
  BY <1>1, <1>2 DEF Inv, GaugeInv

\* An envelope of metrics.
LEMMA MetricsKeep ==
  ASSUME Inv, NEW s \in Servers, UpdateSystemMetrics(s)
  PROVE  Inv'
<1>1. GaugeInv' /\ shown' \in [Sections -> Servers \cup {None}]
  BY DrawKeeps DEF UpdateSystemMetrics
<1>2. ChartInv'
  <2>1. /\ series' = [c \in Charts |-> IF HasPoint(c, s) THEN Push(series[c], s) ELSE series[c]]
        /\ UpdateAllCharts /\ maxDataPoints' = maxDataPoints /\ maxDataPoints \in Windows
    BY DEF UpdateSystemMetrics, AddHistoricalDataPoint, Inv, ChartInv
  <2>2. \A c \in Charts : Sound(c, series[c], maxDataPoints)
    BY DEF Inv, ChartInv
  <2>3. \A c \in Charts : Sound(c, Push(series[c], s), maxDataPoints)
    BY <2>1, <2>2, PushSound
  <2>4. \A c \in Charts : Sound(c, series'[c], maxDataPoints')
    BY <2>1, <2>2, <2>3
  <2>5. QED
    BY <2>1, <2>4, UpdateKeeps
<1>3. SocketInv' /\ FilterInv' /\ PageTyped'
  BY <1>1 DEF UpdateSystemMetrics, Inv, SocketInv, WsTypeOK, wsVars, FilterInv, PageTyped
<1>4. QED
  BY <1>1, <1>2, <1>3 DEF Inv

\* Every step of the client keeps the count of its retries.
LEMMA ClientKeeps ==
  ASSUME SocketInv, [WsNext]_wsVars
  PROVE  SocketInv'
<1> USE ClientConstants DEF SocketInv, WsTypeOK
<1>1. CASE OnOpen
  BY <1>1 DEF OnOpen
<1>2. CASE OnClose
  <2>1. CASE reconnectAttempts < MaxReconnectAttempts
    <3>1. /\ reconnectAttempts' = reconnectAttempts + 1 /\ failures' = failures + 1
          /\ socket' = "waiting"
      BY <1>2, <2>1 DEF OnClose, HandleReconnect
    <3>2. QED
      BY <1>2, <2>1, <3>1 DEF OnClose
  <2>2. CASE ~(reconnectAttempts < MaxReconnectAttempts)
    <3>1. /\ reconnectAttempts' = reconnectAttempts /\ failures' = failures + 1
          /\ socket' = "stopped"
      BY <1>2, <2>2 DEF OnClose, HandleReconnect
    <3>2. QED
      BY <1>2, <2>2, <3>1 DEF OnClose
  <2>3. QED
    BY <2>1, <2>2
<1>3. CASE Connect \/ NetworkChanges
  BY <1>3 DEF Connect, NetworkChanges
<1>4. ASSUME NEW id \in Servers \cup {NoFilter}, SetServerFilter(id) PROVE SocketInv'
  BY <1>4 DEF SetServerFilter
<1>5. CASE UNCHANGED wsVars
  BY <1>5 DEF wsVars
<1>6. QED
  BY <1>1, <1>2, <1>3, <1>4, <1>5 DEF WsNext

\* The connection changes, and nothing of the page but what it has asked.
LEMMA SocketKeeps ==
  ASSUME Inv, SocketNext
  PROVE  Inv'
<1> USE ClientConstants, DashboardConstants DEF Inv, SocketInv, WsTypeOK
<1>1. UNCHANGED <<tab, serverFilter, shown, spark, chartVars, fetching>> /\ asked' \in 0..MaxAsked
  BY DEF SocketNext, Connected, OnOpen, Disconnected, OnClose, Connect, NetworkChanges,
         PageTyped, appVars
<1>2. SocketInv'
  BY ClientKeeps DEF SocketNext, Connected, Disconnected, WsNext
<1>3. PageTyped' /\ FilterInv' /\ GaugeInv'
  BY <1>1 DEF PageTyped, FilterInv, GaugeInv
<1>4. ChartInv'
  BY <1>1 DEF ChartInv, chartVars, Drawn
<1>5. QED
  BY <1>2, <1>3, <1>4

\* The other envelopes.
LEMMA ServicesKeep ==
  ASSUME Inv, NEW s \in Servers, UpdateServicesTable(s) \/ UpdateDatabaseTable(s)
  PROVE  Inv'
<1>1. GaugeInv' /\ shown' \in [Sections -> Servers \cup {None}]
  BY ShowKeeps DEF UpdateServicesTable, UpdateDatabaseTable, TELEMETRY_TYPES
<1>2. UNCHANGED <<wsVars, tab, chartVars, asked, fetching>>
  BY DEF UpdateServicesTable, UpdateDatabaseTable
<1>3. SocketInv' /\ FilterInv' /\ PageTyped'
  BY <1>1, <1>2 DEF Inv, SocketInv, WsTypeOK, wsVars, FilterInv, PageTyped
<1>4. ChartInv'
  BY <1>2 DEF Inv, ChartInv, chartVars, Drawn
<1>5. QED
  BY <1>1, <1>3, <1>4 DEF Inv

\* A reply with the hub's history replaces whole series.
LEMMA HistoryKeeps ==
  ASSUME Inv, LoadHistoricalData
  PROVE  Inv'
<1>1. /\ asked > 0 /\ asked' = asked - 1 /\ UpdateAllCharts
      /\ UNCHANGED <<wsVars, tab, shown, spark, maxDataPoints, fetching>>
  BY DEF LoadHistoricalData
<1>2. PICK loaded \in SUBSET HistoryCharts :
        series' = [c \in Charts |->
                     IF c \in loaded /\ HistoryLen > 0
                     THEN [labels |-> Points(HistoryLen), data |-> Points(HistoryLen)]
                     ELSE series[c]]
  BY DEF LoadHistoricalData
<1>3. HistoryLen \in Nat /\ Points(HistoryLen) \in Seq(Servers)
      /\ Len(Points(HistoryLen)) = HistoryLen
  BY DashboardConstants, PointsType
<1>4. ASSUME NEW c \in Charts PROVE Sound(c, series'[c], maxDataPoints')
  <2>1. CASE c \in loaded /\ HistoryLen > 0
    <3>1. series'[c] = [labels |-> Points(HistoryLen), data |-> Points(HistoryLen)]
      BY <1>2, <2>1
    <3>2. Fits(c, Points(HistoryLen), maxDataPoints')
      BY <1>2, <1>3, <2>1 DEF Fits
    <3>3. QED
      BY <1>3, <3>1, <3>2, SoundIf
  <2>2. CASE ~ (c \in loaded /\ HistoryLen > 0)
    BY <1>1, <1>2, <2>2 DEF Inv, ChartInv
  <2>3. QED
    BY <2>1, <2>2
<1>5. ChartInv'
  <2>1. maxDataPoints' \in Windows
    BY <1>1 DEF Inv, ChartInv
  <2>2. DOMAIN series' = Charts /\ series' = [c \in Charts |-> series'[c]]
    BY <1>2
  <2>3. QED
    BY <1>1, <1>4, <2>1, <2>2, UpdateKeeps
<1>6. SocketInv' /\ FilterInv' /\ PageTyped' /\ GaugeInv'
  BY <1>1, DashboardConstants
     DEF Inv, SocketInv, WsTypeOK, wsVars, FilterInv, PageTyped, GaugeInv
<1>7. QED
  BY <1>5, <1>6 DEF Inv

\* A new window trims the series.
LEMMA WindowKeeps ==
  ASSUME Inv, NEW n \in Windows, SetTimeRange(n)
  PROVE  Inv'
<1>1. /\ maxDataPoints' = n /\ series' = [c \in Charts |-> Trim(series[c], n)] /\ UpdateAllCharts
      /\ UNCHANGED <<wsVars, tab, shown, spark, asked, fetching>>
  BY DEF SetTimeRange
<1>2. \A c \in Charts : Sound(c, Trim(series[c], n), n)
  BY TrimSound DEF Inv, ChartInv
<1>3. ChartInv'
  BY <1>1, <1>2, UpdateKeeps
<1>4. SocketInv' /\ FilterInv' /\ PageTyped' /\ GaugeInv'
  BY <1>1 DEF Inv, SocketInv, WsTypeOK, wsVars, FilterInv, PageTyped, GaugeInv
<1>5. QED
  BY <1>3, <1>4 DEF Inv

\* A range that arrives is drawn, and marked, in place of the series.
LEMMA RangeKeeps ==
  ASSUME Inv, RangeNext
  PROVE  Inv'
<1>1. /\ UNCHANGED <<wsVars, tab, shown, spark, series, maxDataPoints, asked>>
      /\ fetching' \subseteq [chart : Charts, range : Ranges]
  <2>1. ASSUME NEW c \in Charts, NEW range \in Ranges, LoadRange(c, range) PROVE <1>1!:
    BY <2>1 DEF Inv, PageTyped, LoadRange, chartVars
  <2>2. ASSUME NEW f \in fetching, ApplyPoints(f) \/ LoadRangeFails(f) PROVE <1>1!:
    BY <2>2 DEF Inv, PageTyped, ApplyPoints, LoadRangeFails, chartVars
  <2>3. QED
    BY <2>1, <2>2 DEF RangeNext
<1>2. SocketInv' /\ FilterInv' /\ PageTyped' /\ GaugeInv'
  BY <1>1 DEF Inv, SocketInv, WsTypeOK, wsVars, FilterInv, PageTyped, GaugeInv
<1>3. ChartInv'
  <2>1. CASE UNCHANGED chartVars
    BY <2>1 DEF Inv, ChartInv, chartVars, Drawn
  <2>2. ASSUME NEW f \in fetching, ApplyPoints(f) PROVE ChartInv'
    <3>1. f.chart \in Charts /\ f.range \in Ranges /\ f.range # "live"
      BY DashboardConstants DEF Inv, PageTyped
    <3>2. Points(RangeLen) \in Seq(Servers)
      BY DashboardConstants, PointsType
    <3>3. /\ plotted' = [plotted EXCEPT ![f.chart] = f.range]
          /\ anomalies' = [anomalies EXCEPT ![f.chart] = RecomputeAnomalies(Points(RangeLen))]
          /\ series' = series /\ maxDataPoints' = maxDataPoints
      BY <2>2 DEF ApplyPoints
    <3>4. plotted' \in [Charts -> Ranges \cup {"live"}] /\ anomalies' \in [Charts -> Seq(Servers)]
      BY <3>1, <3>2, <3>3, AnomaliesType DEF Inv, ChartInv
    <3>5. \A c \in Charts : anomalies'[c] = RecomputeAnomalies(Drawn(c)')
      BY <3>1, <3>3 DEF Inv, ChartInv, Drawn
    <3>6. QED
      BY <3>3, <3>4, <3>5 DEF Inv, ChartInv
  <2>3. QED
    BY <2>1, <2>2 DEF RangeNext, LoadRange, LoadRangeFails
<1>4. QED
  BY <1>2, <1>3 DEF Inv

\* The inductive step.
LEMMA InvStep == Inv /\ [Next]_vars => Inv'
<1> SUFFICES ASSUME Inv, [Next]_vars PROVE Inv'
  OBVIOUS
<1>1. CASE LoseHistory
  <2>1. /\ UNCHANGED <<wsVars, tab, shown, spark, chartVars, fetching>>
        /\ asked > 0 /\ asked' = asked - 1
    BY <1>1 DEF LoseHistory
  <2>2. SocketInv' /\ FilterInv' /\ PageTyped' /\ GaugeInv'
    BY <2>1, DashboardConstants
       DEF Inv, SocketInv, WsTypeOK, wsVars, FilterInv, PageTyped, GaugeInv
  <2>3. ChartInv'
    BY <2>1 DEF Inv, ChartInv, chartVars, Drawn
  <2>4. QED
    BY <2>2, <2>3 DEF Inv
<1>2. CASE Resize
  <2>1. /\ UNCHANGED <<wsVars, tab, shown, chartVars, asked, fetching>>
        /\ spark' = [g \in Gauges |-> PushHistory(spark[g], shown[g])]
    BY <1>2 DEF Resize
  <2>2. \A g \in Gauges : Spark(PushHistory(spark[g], shown[g]), shown[g])
    <3> TAKE g \in Gauges
    <3>1. shown[g] \in Servers \cup {None} /\ Spark(spark[g], shown[g])
      BY DashboardConstants DEF Inv, PageTyped, GaugeInv
    <3>2. QED
      BY <3>1, PushHistorySound
  <2>3. GaugeInv'
    BY <2>1, <2>2 DEF GaugeInv, Spark
  <2>4. SocketInv' /\ FilterInv' /\ PageTyped'
    BY <2>1 DEF Inv, SocketInv, WsTypeOK, wsVars, FilterInv, PageTyped
  <2>5. ChartInv'
    BY <2>1 DEF Inv, ChartInv, chartVars, Drawn
  <2>6. QED
    BY <2>3, <2>4, <2>5 DEF Inv
<1>3. ASSUME NEW id \in Servers \cup VirtualTabs, SetCurrentServer(id) PROVE Inv'
  <2>1. /\ tab' = id /\ serverFilter' = FilterFor(id) /\ asked' \in 0..MaxAsked
        /\ UNCHANGED <<socket, reconnectAttempts, reachable, failures, shown, spark, chartVars,
                       fetching>>
    BY <1>3, DashboardConstants DEF Inv, PageTyped, SetCurrentServer, SetServerFilter
  <2>2. SocketInv' /\ FilterInv'
    BY <2>1, ClientConstants, DashboardConstants
       DEF Inv, SocketInv, WsTypeOK, FilterFor, FilterInv
  <2>3. PageTyped' /\ GaugeInv'
    BY <2>1 DEF Inv, PageTyped, GaugeInv
  <2>4. ChartInv'
    BY <2>1 DEF Inv, ChartInv, chartVars, Drawn
  <2>5. QED
    BY <2>2, <2>3, <2>4 DEF Inv
<1>4. CASE UNCHANGED vars
  <2>1. UNCHANGED <<wsVars, tab, shown, spark, chartVars, asked, fetching>>
    BY <1>4 DEF vars, appVars
  <2>2. SocketInv' /\ FilterInv' /\ PageTyped' /\ GaugeInv'
    BY <2>1 DEF Inv, SocketInv, WsTypeOK, wsVars, FilterInv, PageTyped, GaugeInv
  <2>3. ChartInv'
    BY <2>1 DEF Inv, ChartInv, chartVars, Drawn
  <2>4. QED
    BY <2>2, <2>3 DEF Inv
<1>5. QED
  BY <1>1, <1>2, <1>3, <1>4, SocketKeeps, MetricsKeep, ServicesKeep, HistoryKeeps, WindowKeeps,
     RangeKeeps
     DEF Next, EnvelopeNext

-----------------------------------------------------------------------------
(* The theorems. *)

\* The connection, the page and the charts keep their types, whatever comes in.
THEOREM TypeCorrect == Spec => []TypeOK
<1>1. Inv => TypeOK
  BY DEF Inv, SocketInv, PageTyped, GaugeInv, ChartInv, TypeOK
<1>2. QED
  BY <1>1, InvInit, InvStep, PTL DEF Spec

\* Labels, points and markers stay in step and within their bounds, and a gauge
\* ends on what its caption shows, for any windows and history lengths
\* (addHistoricalDataPoint, recomputeAnomalies, draw).
THEOREM SeriesAreSound == Spec => []SeriesSound
<1>1. Inv => SeriesSound
  <2> SUFFICES ASSUME Inv PROVE SeriesSound
    OBVIOUS
  <2>1. \A c \in Charts : Sound(c, series[c], maxDataPoints)
                          /\ anomalies[c] = RecomputeAnomalies(Drawn(c))
    BY DEF Inv, ChartInv
  <2>2. \A g \in Gauges : Len(spark[g]) \in 1..SPARK_POINTS /\ spark[g][Len(spark[g])] = shown[g]
    BY DEF Inv, GaugeInv, Spark
  <2>3. QED
    BY <2>1, <2>2 DEF SeriesSound, Sound, Fits, Drawn
<1>2. QED
  BY <1>1, InvInit, InvStep, PTL DEF Spec

\* On the tab of a server only its envelopes reach the series, for any servers
\* and tabs (setCurrentServer, the gate of onmessage).
THEOREM OnlyPointsOfTab == Spec => PointsOfTab
<1>1. Inv /\ [Next]_vars =>
        \A c \in Charts :
          /\ tab \in Servers
          /\ series'[c] # series[c]
          /\ asked' = asked /\ maxDataPoints' = maxDataPoints
          => /\ series'[c] = Push(series[c], tab)
             /\ tab' = tab
  <2> SUFFICES ASSUME Inv, [Next]_vars, NEW c \in Charts, tab \in Servers,
                      series'[c] # series[c], asked' = asked, maxDataPoints' = maxDataPoints
               PROVE  series'[c] = Push(series[c], tab) /\ tab' = tab
    OBVIOUS
  <2>1. asked \in Nat
    BY DashboardConstants DEF Inv, PageTyped
  <2>2. ASSUME NEW s \in Servers, UpdateSystemMetrics(s)
        PROVE  series'[c] = Push(series[c], tab) /\ tab' = tab
    <3>1. serverFilter = tab /\ tab # NoFilter
      BY ClientConstants DEF Inv, FilterInv
    <3>2. s = tab
      BY <2>2, <3>1 DEF UpdateSystemMetrics, Passes, TELEMETRY_TYPES
    <3>3. QED
      BY <2>2, <3>2 DEF UpdateSystemMetrics, AddHistoricalDataPoint
  <2>3. ~ LoadHistoricalData
    BY <2>1 DEF LoadHistoricalData
  <2>4. ~ (\E n \in Windows : SetTimeRange(n))
    BY DEF SetTimeRange
  <2>5. UNCHANGED series \/ \E s \in Servers : UpdateSystemMetrics(s)
    BY <2>3, <2>4
       DEF Next, SocketNext, Connected, Disconnected, EnvelopeNext, UpdateServicesTable,
           UpdateDatabaseTable, LoseHistory, Resize, SetCurrentServer, RangeNext, LoadRange,
           ApplyPoints, LoadRangeFails, vars, appVars, chartVars
  <2>6. QED
    BY <2>2, <2>5
<1>2. QED
  BY <1>1, InvInit, InvStep, PTL DEF Spec, PointsOfTab

-----------------------------------------------------------------------------
(* The connection of the page is the client. *)

\* Whatever the page does, its connection goes through steps of WebSocketClient:
\* what holds of the client by itself holds under the dashboard (setupWebSocket,
\* setCurrentServer).
THEOREM ConnectionRefined == Spec => WsSpec
<1>1. Init => WsInit
  BY DEF Init
<1>2. [Next]_vars => [WsNext]_wsVars
  <2> SUFFICES ASSUME [Next]_vars PROVE [WsNext]_wsVars
    OBVIOUS
  <2>1. ASSUME NEW id \in Servers \cup VirtualTabs, SetCurrentServer(id) PROVE WsNext
    <3>1. FilterFor(id) \in Servers \cup {NoFilter}
      BY DEF FilterFor
    <3>2. QED
      BY <2>1, <3>1 DEF SetCurrentServer, WsNext
  <2>2. CASE SocketNext
    BY <2>2 DEF SocketNext, Connected, Disconnected, WsNext
  <2>3. ASSUME NEW s \in Servers, EnvelopeNext(s) PROVE UNCHANGED wsVars
    BY <2>3 DEF EnvelopeNext, UpdateSystemMetrics, UpdateServicesTable, UpdateDatabaseTable
  <2>4. CASE LoadHistoricalData \/ LoseHistory \/ Resize \/ \E n \in Windows : SetTimeRange(n)
    BY <2>4 DEF LoadHistoricalData, LoseHistory, Resize, SetTimeRange
  <2>5. CASE RangeNext
    BY <2>5 DEF RangeNext, LoadRange, ApplyPoints, LoadRangeFails
  <2>6. CASE UNCHANGED vars
    BY <2>6 DEF vars
  <2>7. QED
    BY <2>1, <2>2, <2>3, <2>4, <2>5, <2>6 DEF Next
<1>3. QED
  BY <1>1, <1>2, PTL DEF Spec, WsSpec

\* The client by itself keeps the count of its retries, whatever filters are set.
LEMMA ClientInvariance == WsSpec => []SocketInv
<1>1. WsInit => SocketInv
  BY ClientConstants DEF WsInit, SocketInv, WsTypeOK
<1>2. SocketInv /\ [WsNext]_wsVars => SocketInv'
  BY ClientKeeps
<1>3. QED
  BY <1>1, <1>2, PTL DEF WsSpec

\* The client gives up only when it has used all its retries in a row, for any
\* number of retries (handleReconnect): so does every page that uses it.
THEOREM RetriesAreUsed == (WsSpec => []GivesUpLate) /\ (Spec => []GivesUpLate)
<1>1. SocketInv => GivesUpLate
  BY DEF SocketInv, GivesUpLate
<1>2. QED
  BY <1>1, ClientInvariance, ConnectionRefined, PTL
=============================================================================
