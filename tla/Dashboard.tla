----------------------------- MODULE Dashboard -----------------------------
(***************************************************************************)
(* The per-server dashboard (frontend/js/app.js): the widgets a metrics    *)
(* envelope fills in, the series behind the charts, the history the page   *)
(* asks for when it connects and when a tab is chosen (multi-server.js,    *)
(* answered in cmd/server/main.go), the range buttons that                 *)
(* chart-enhancer.js puts on each chart, and the gauges of utils/gauge.js   *)
(* with the sparkline each keeps.                                          *)
(*                                                                         *)
(* A value is abstracted to the server it was measured on: a widget holds  *)
(* the server it shows, a series the servers of its points.  The network   *)
(* between the hub and the page holds no envelope: the filter is applied   *)
(* when an envelope arrives, whenever it was sent.                         *)
(***************************************************************************)
EXTENDS WebSocketClient, Sequences, FiniteSets

CONSTANTS
  Local,        \* the hub's own machine, "local"
  VirtualTabs,  \* "__all__" and "__github__"
  None,         \* a widget that shows no server yet
  Charts,       \* the charts of the page
  Sections,     \* the groups of widgets that are filled in together
  Gauges,       \* the sections that have a gauge
  Carries,      \* Carries[s][t]: the sections an envelope t of s fills in
  Windows,      \* the choices of #time-range
  SPARK_POINTS, \* 40, what the sparkline of a gauge holds
  HistoryLen,   \* points of one metric in a HISTORICAL_DATA
  Ranges,       \* the range buttons of a chart
  RangeLen,     \* points of a fetched range
  ANOMALY_MIN,  \* 10, the points a chart needs to have its anomalies marked
  MaxAsked,     \* bound: history requests the hub has not answered
  MaxFetches    \* bound: range requests in flight

ASSUME DashboardConstants ==
  /\ Local \in Servers
  /\ VirtualTabs \cap (Servers \cup {NoFilter}) = {}
  /\ None \notin Servers
  /\ Charts \subseteq {"cpu", "memory", "network", "disk"}
  /\ Gauges \subseteq Sections
  /\ \A s \in Servers, t \in TELEMETRY_TYPES \ {"SYSTEM_METRICS"} :
       Carries[s][t] \cap Gauges = {}
  /\ SPARK_POINTS \in Nat \ {0}
  /\ Carries \in [Servers -> [TELEMETRY_TYPES -> SUBSET Sections]]
  /\ Windows \subseteq Nat \ {0}
  /\ HistoryLen \in Nat /\ RangeLen \in Nat /\ ANOMALY_MIN \in Nat
  /\ "live" \notin Ranges
  /\ MaxAsked \in Nat \ {0}

VARIABLES
  tab,            \* state.currentId
  shown,          \* section -> the server whose values are on the page
  spark,          \* gauge -> the values its sparkline draws
  series,         \* this.historicalData: the labels and the data of each chart
  maxDataPoints,
  plotted,        \* what a chart draws: its series ("live") or a fetched range
  anomalies,      \* the points the anomaly markers of a chart stand for
  asked,          \* GET_HISTORICAL_DATA that are not answered yet
  fetching        \* range requests in flight

chartVars == <<series, maxDataPoints, plotted, anomalies>>
appVars == <<tab, shown, spark, chartVars, asked, fetching>>
vars == <<wsVars, appVars>>

\* HISTORICAL_DATA has points of these only.
HistoryCharts == Charts \cap {"cpu", "memory"}

Lengths(r) == Len(r.labels)

-----------------------------------------------------------------------------
\* initializeCharts: an empty series for each.
InitSeries == series = [c \in Charts |-> [labels |-> <<>>, data |-> <<>>]]

\* enhanceChart gives a chart its range buttons and an empty set of markers; it
\* draws its series until a button is used.
EnhanceCharts ==
  /\ plotted = [c \in Charts |-> "live"]
  /\ anomalies = [c \in Charts |-> <<>>]

\* initializeGauges draws a first 0.
InitGauges == spark = [g \in Gauges |-> <<None>>]

\* The constructor: the filter is local, the tab manager starts on "__all__".
Init ==
  /\ WsInit
  /\ serverFilter = Local
  /\ tab \in VirtualTabs
  /\ shown = [w \in Sections |-> None]
  /\ InitGauges
  /\ InitSeries
  /\ EnhanceCharts
  /\ maxDataPoints \in Windows
  /\ asked = 0
  /\ fetching = {}

-----------------------------------------------------------------------------
(* The series. *)

\* Mutant: a point goes in before the count is taken, and no label comes out.
PushKeepsLabel(r, s) ==
  IF Lengths(r) >= maxDataPoints
  THEN [labels |-> Append(r.labels, s), data |-> Append(Tail(r.data), s)]
  ELSE [labels |-> Append(r.labels, s), data |-> Append(r.data, s)]

\* addHistoricalDataPoint pushes one point and takes at most one out.
Push(r, s) ==
  IF Lengths(r) >= maxDataPoints
  THEN [labels |-> Append(Tail(r.labels), s), data |-> Append(Tail(r.data), s)]
  ELSE [labels |-> Append(r.labels, s), data |-> Append(r.data, s)]

\* The disk series gets a point only when the metrics have disks.
HasPoint(c, s) == c = "disk" => "disk" \in Carries[s]["SYSTEM_METRICS"]

\* A chart that draws few points has none of them marked.
RecomputeAnomalies(data) == IF Len(data) < ANOMALY_MIN THEN <<>> ELSE data

\* updateAllCharts points every chart at its series again.
UpdateAllCharts ==
  /\ plotted' = [c \in Charts |-> "live"]
  /\ anomalies' = [c \in Charts |-> RecomputeAnomalies(series'[c].data)]

AddHistoricalDataPoint(s) ==
  /\ series' = [c \in Charts |->
                   IF HasPoint(c, s) THEN Push(series[c], s) ELSE series[c]]
  /\ UpdateAllCharts

Points(n) == [i \in 1..n |-> Local]

\* HISTORICAL_DATA arrives: a metric with points replaces its series whole,
\* however long; the points are the hub's own, whatever the page asked for.
LoadHistoricalData ==
  /\ socket = "open" /\ asked > 0
  /\ asked' = asked - 1
  /\ \E loaded \in SUBSET HistoryCharts :
       series' = [c \in Charts |->
                    IF c \in loaded /\ HistoryLen > 0
                    THEN [labels |-> Points(HistoryLen), data |-> Points(HistoryLen)]
                    ELSE series[c]]
  /\ UpdateAllCharts
  /\ UNCHANGED <<wsVars, tab, shown, spark, maxDataPoints, fetching>>

\* The reply is dropped: the browser's channel at the hub is full.
LoseHistory ==
  /\ asked > 0
  /\ asked' = asked - 1
  /\ UNCHANGED <<wsVars, tab, shown, spark, chartVars, fetching>>

Last(xs, n) == SubSeq(xs, Len(xs) - n + 1, Len(xs))

Trim(r, n) ==
  IF Lengths(r) > n THEN [labels |-> Last(r.labels, n), data |-> Last(r.data, n)] ELSE r

\* #time-range: what is over the new maximum goes at once.
SetTimeRange(n) ==
  /\ n # maxDataPoints
  /\ maxDataPoints' = n
  /\ series' = [c \in Charts |-> Trim(series[c], n)]
  /\ UpdateAllCharts
  /\ UNCHANGED <<wsVars, tab, shown, spark, asked, fetching>>

-----------------------------------------------------------------------------
(* The widgets. *)

\* The sparkline takes one value for every draw.
PushHistory(h, v) ==
  IF Len(h) >= SPARK_POINTS THEN Append(Tail(h), v) ELSE Append(h, v)

\* A resize of the window draws every gauge again with the value it has.
Resize ==
  /\ spark' = [g \in Gauges |-> PushHistory(spark[g], shown[g])]
  /\ UNCHANGED <<wsVars, tab, shown, chartVars, asked, fetching>>

\* The gauges among the sections an envelope carries are drawn.
Draw(t, s) ==
  spark' = [g \in Gauges |-> IF g \in Carries[s][t] THEN PushHistory(spark[g], s)
                                                     ELSE spark[g]]

\* The sections an envelope carries show its server; the others keep what they
\* had.
Show(t, s) ==
  shown' = [w \in Sections |-> IF w \in Carries[s][t] THEN s ELSE shown[w]]

\* updateSystemMetrics: the header, the gauges and the tables, then one point
\* for the charts.
UpdateSystemMetrics(s) ==
  /\ socket = "open"
  /\ Passes("SYSTEM_METRICS", s)
  /\ Show("SYSTEM_METRICS", s)
  /\ Draw("SYSTEM_METRICS", s)
  /\ AddHistoricalDataPoint(s)
  /\ UNCHANGED <<wsVars, tab, maxDataPoints, asked, fetching>>

UpdateServicesTable(s) ==
  /\ socket = "open"
  /\ Passes("SERVICE_STATUS", s)
  /\ Show("SERVICE_STATUS", s)
  /\ UNCHANGED <<wsVars, tab, spark, chartVars, asked, fetching>>

UpdateDatabaseTable(s) ==
  /\ socket = "open"
  /\ Passes("DATABASE_STATUS", s)
  /\ Show("DATABASE_STATUS", s)
  /\ UNCHANGED <<wsVars, tab, spark, chartVars, asked, fetching>>

-----------------------------------------------------------------------------
(* The connection and the tab. *)

\* The page asks for an hour of history on every connection.
Connected ==
  /\ OnOpen
  /\ asked' = 1
  /\ UNCHANGED <<tab, shown, spark, chartVars, fetching>>

Disconnected ==
  /\ OnClose
  /\ asked' = 0
  /\ UNCHANGED <<tab, shown, spark, chartVars, fetching>>

FilterFor(id) == IF id \in VirtualTabs THEN NoFilter ELSE id

\* Mutant: the dashboard is shown before the filter is set.
SetCurrentServerNoFilter(id) ==
  /\ tab' = id
  /\ IF id \in Servers /\ socket = "open"
     THEN asked < MaxAsked /\ asked' = asked + 1
     ELSE UNCHANGED asked
  /\ UNCHANGED <<wsVars, shown, spark, chartVars, fetching>>

\* setCurrentServer: the filter, and for a server a request for history, which
\* send drops when the socket is not open.  Nothing of the page is cleared.
SetCurrentServer(id) ==
  /\ tab' = id
  /\ SetServerFilter(FilterFor(id))
  /\ IF id \in Servers /\ socket = "open"
     THEN asked < MaxAsked /\ asked' = asked + 1
     ELSE UNCHANGED asked
  /\ UNCHANGED <<shown, spark, chartVars, fetching>>

-----------------------------------------------------------------------------
(* chart-enhancer.js. *)

\* A range button: the request names this.currentServerId, which stays "local".
LoadRange(c, range) ==
  /\ [chart |-> c, range |-> range] \notin fetching
  /\ Cardinality(fetching) < MaxFetches
  /\ fetching' = fetching \cup {[chart |-> c, range |-> range]}
  /\ UNCHANGED <<wsVars, tab, shown, spark, chartVars, asked>>

\* The reply: the chart gets arrays of its own, and draws them until the next
\* updateAllCharts.
ApplyPoints(f) ==
  /\ f \in fetching
  /\ fetching' = fetching \ {f}
  /\ plotted' = [plotted EXCEPT ![f.chart] = f.range]
  /\ anomalies' = [anomalies EXCEPT ![f.chart] = RecomputeAnomalies(Points(RangeLen))]
  /\ UNCHANGED <<wsVars, tab, shown, spark, series, maxDataPoints, asked>>

LoadRangeFails(f) ==
  /\ f \in fetching
  /\ fetching' = fetching \ {f}
  /\ UNCHANGED <<wsVars, tab, shown, spark, chartVars, asked>>

-----------------------------------------------------------------------------
SocketNext ==
  \/ Connected
  \/ Disconnected
  \/ Connect /\ UNCHANGED appVars
  \/ NetworkChanges /\ UNCHANGED appVars

EnvelopeNext(s) ==
  \/ UpdateSystemMetrics(s)
  \/ UpdateServicesTable(s)
  \/ UpdateDatabaseTable(s)

RangeNext ==
  \/ \E c \in Charts, range \in Ranges : LoadRange(c, range)
  \/ \E f \in fetching : ApplyPoints(f) \/ LoadRangeFails(f)

Next ==
  \/ SocketNext
  \/ \E s \in Servers : EnvelopeNext(s)
  \/ LoadHistoricalData
  \/ LoseHistory
  \/ Resize
  \/ \E id \in Servers \cup VirtualTabs : SetCurrentServer(id)
  \/ \E n \in Windows : SetTimeRange(n)
  \/ RangeNext

\* Timers fire, and a hub that can be reached is reached.  No server owes a
\* metric: an agent may be off line for good.
Fairness ==
  /\ WF_vars(Connect /\ UNCHANGED appVars)
  /\ WF_vars(Connected)
  /\ WF_vars(Disconnected /\ socket = "connecting")

Spec == Init /\ [][Next]_vars
FairSpec == Spec /\ Fairness

-----------------------------------------------------------------------------
(* Properties. *)

Series == [labels : Seq(Servers), data : Seq(Servers)]

\* Type invariant: the connection, the page and the requests in flight.
TypeOK ==
  /\ WsTypeOK
  /\ tab \in Servers \cup VirtualTabs
  /\ shown \in [Sections -> Servers \cup {None}]
  /\ spark \in [Gauges -> Seq(Servers \cup {None})]
  /\ series \in [Charts -> Series]
  /\ maxDataPoints \in Windows
  /\ plotted \in [Charts -> Ranges \cup {"live"}]
  /\ anomalies \in [Charts -> Seq(Servers)]
  /\ asked \in 0..MaxAsked
  /\ fetching \subseteq [chart : Charts, range : Ranges]

\* Whatever the order of pushes, loads of history and changes of the window, a
\* point stands under its own label, and a series is never longer than the
\* window or the history that was loaded into it (addHistoricalDataPoint,
\* loadHistoricalData, the #time-range handler); the markers of a chart stand for
\* the points it draws (recomputeAnomalies, "when the primary dataset changes");
\* a gauge ends on the value its
\* caption shows and its sparkline stays within SPARK_POINTS (gauge.js, draw).
SeriesSound ==
  /\ \A g \in Gauges :
       /\ Len(spark[g]) \in 1..SPARK_POINTS
       /\ spark[g][Len(spark[g])] = shown[g]
  /\ \A c \in Charts :
       /\ series[c].labels = series[c].data
       /\ anomalies[c] = RecomputeAnomalies(IF plotted[c] = "live" THEN series[c].data
                                                                  ELSE Points(RangeLen))
       /\ \/ Len(series[c].data) <= maxDataPoints
          \/ c \in HistoryCharts /\ Len(series[c].data) <= HistoryLen

\* On the tab of a server the series grow by points of that server only: the
\* envelopes of the others, the tab the page comes from included, and the ranges
\* that arrive late stay out; all else that comes in is history (websocket.js,
\* the gate of onmessage; setCurrentServer).
PointsOfTab ==
  [][\A c \in Charts :
       /\ tab \in Servers
       /\ series'[c] # series[c]
       /\ asked' = asked /\ maxDataPoints' = maxDataPoints
       => /\ series'[c] = Push(series[c], tab)
          /\ tab' = tab]_vars

\* The server s goes on sending to a page that can receive it.
GoesOnSending(s) == WF_vars(UpdateSystemMetrics(s))

\* A page that stays on the tab of a server that goes on sending, and asks for no
\* more history, comes to show that server alone, in every section it reports and
\* in every point of the charts, however many others send and whatever was there
\* before.  No code clears the page: on the tab of a server that is silent the
\* values of the tab before stay.
Converges ==
  \A s \in Servers :
    GoesOnSending(s) /\ <>[](tab = s /\ socket = "open" /\ asked = 0)
      => <>[](/\ \A w \in Carries[s]["SYSTEM_METRICS"] : shown[w] = s
              /\ \A g \in Gauges \cap Carries[s]["SYSTEM_METRICS"] :
                   \A i \in 1..Len(spark[g]) : spark[g][i] = s
              /\ \A c \in Charts : HasPoint(c, s) =>
                   \A i \in 1..Len(series[c].data) : series[c].data[i] = s)

\* A hub that stays reachable is reached again whenever the connection drops,
\* unless the page has given up, and it gives up for good only when the
\* connection and then every one of the MaxReconnectAttempts retries was closed,
\* with none open in between (onopen, onclose, handleReconnect).
Reconnects ==
  <>[]reachable =>
    \/ []<>(socket = "open")
    \/ <>[](socket = "stopped" /\ failures = MaxReconnectAttempts + 1)

\* Refuted: "the legacy dashboard only renders metrics for the active server"
\* (app.js:941).
ActiveServerOnly ==
  \A v, w \in Sections :
    tab \in Servers /\ shown[v] = tab => shown[w] \in {tab, None}
=============================================================================
