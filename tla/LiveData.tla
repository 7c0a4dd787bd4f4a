------------------------------ MODULE LiveData ------------------------------
(***************************************************************************)
(* The latest snapshot of a building and what live accounts are shown of   *)
(* it: get_live_data and ingest_live_snapshot (live_data_service.py) over  *)
(* live_cache and the time series (influx_client.py), the poll cycle of    *)
(* pipeline.py, which also writes what it finds back into both, and the    *)
(* industrial refrigeration beside it (refrigeration_poll.py).             *)
(*                                                                         *)
(* A snapshot is abstracted to where its numbers come from: the building,  *)
(* the constants get_latest_snapshot fills in, or the simulator of         *)
(* demo_mode.py.  The time series is what a query for the last 15 minutes  *)
(* finds.  Buildings do not influence each other.                          *)
(***************************************************************************)
EXTENDS Integers

CONSTANTS
  Building,   \* BUILDING_REGISTRY
  DemoModes,  \* settings.demo_mode: the values to consider
  None

Origin == {"building", "defaults", "simulator"}
Snapshot == [demo_mode : BOOLEAN, from : Origin]

(* Where a refrigeration plant is read: demo, bms over HTTP, field devices  *)
(* by Modbus or BACnet.                                                     *)
Source == {"demo", "bms", "field"}

LiveDataAssumption ==
  /\ DemoModes \subseteq BOOLEAN
  /\ None \notin Snapshot /\ None \notin Origin

VARIABLES
  demo,       \* settings.demo_mode of the process
  cache,      \* live_cache._live
  series,     \* fields the time series holds for a building: numbers, texts
  source,     \* refrigeration_connections.json
  plant,      \* _refrig_cache
  asking,     \* buildings whose refrigeration is being read over HTTP
  reported    \* history: buildings that sent or answered anything

vars == <<demo, cache, series, source, plant, asking, reported>>

Init ==
  /\ demo \in DemoModes
  /\ cache = [b \in Building |-> None]
  /\ series = [b \in Building |-> {}]
  /\ source \in [Building -> Source]
  /\ plant = [b \in Building |-> None]
  /\ asking = {}
  /\ reported = {}

Of(origin) == [demo_mode |-> origin = "simulator", from |-> origin]

(* get_latest_snapshot looks its metrics up under the names of measurements *)
(* among the names of fields, where they never are, so it returns its       *)
(* constants; a text among the fields makes it return nothing.              *)
LatestSnapshot(b) == IF series[b] = {"number"} THEN Of("defaults") ELSE None

(* write_point: done, or failed and only logged. *)
WritePoints(b) == series' \in {series, [series EXCEPT ![b] = @ \cup {"number"}]}

Cached(b, snapshot) == cache' = [cache EXCEPT ![b] = snapshot]
Reports(b) == reported' = reported \cup {b}

refrigeration == <<source, plant, asking>>

-----------------------------------------------------------------------------
(* What comes from buildings. *)

(* POST /ingest/live *)
IngestSnapshot(b) ==
  /\ Cached(b, Of("building"))
  /\ WritePoints(b)
  /\ Reports(b)
  /\ UNCHANGED <<demo, refrigeration>>

(* POST /telemetry/batch writes its numbers with their quality, a text. *)
IngestTelemetry(b) ==
  /\ ~demo
  /\ series' = [series EXCEPT ![b] = {"number", "text"}]
  /\ Reports(b)
  /\ UNCHANGED <<demo, cache, refrigeration>>

(* The building system answers poll_metasys_buildings or get_live_data. *)
MetasysAnswers(b) ==
  /\ ~demo
  /\ Cached(b, Of("building"))
  /\ WritePoints(b)
  /\ Reports(b)
  /\ UNCHANGED <<demo, refrigeration>>

(* Nothing was written for 15 minutes, of texts or of anything. *)
Expires(b) ==
  /\ series' \in {[series EXCEPT ![b] = {}], [series EXCEPT ![b] = @ \ {"text"}]}
  /\ UNCHANGED <<demo, cache, refrigeration, reported>>

-----------------------------------------------------------------------------
(* Readers. *)

(* Slip: the simulator stands in where nothing is found. *)
FoundOrSimulated(b) ==
  CASE cache[b] # None -> cache[b]
    [] cache[b] = None /\ ~demo /\ LatestSnapshot(b) # None -> LatestSnapshot(b)
    [] OTHER -> Of("simulator")

(* get_live_data for anyone but a live account, but for the building system *)
(* it may ask.                                                              *)
Found(b) ==
  CASE cache[b] # None -> cache[b]
    [] cache[b] = None /\ demo -> Of("simulator")
    [] OTHER -> LatestSnapshot(b)

(* A request of such a caller; only what came from the series is cached. *)
Read(b) ==
  /\ ~demo
  /\ Cached(b, Found(b))
  /\ UNCHANGED <<demo, series, refrigeration, reported>>

(* A live account never reaches the simulator itself, but whatever is       *)
(* cached is shown to it as a live one, and the constants as of the series. *)
Shown(b) == IF cache[b] # None THEN cache[b] ELSE LatestSnapshot(b)

LiveRead(b) ==
  /\ Cached(b, Shown(b))
  /\ UNCHANGED <<demo, series, refrigeration, reported>>

(* run_poll_cycle: what is found is cached and written into the series. *)
PollScans(b) ==
  /\ ~demo
  /\ Found(b) # None
  /\ Cached(b, Found(b))
  /\ WritePoints(b)
  /\ UNCHANGED <<demo, refrigeration, reported>>

(* run_poll_cycle in demo mode *)
PollSimulates(b) ==
  /\ demo
  /\ Cached(b, Found(b))
  /\ UNCHANGED <<demo, series, refrigeration, reported>>

-----------------------------------------------------------------------------
(* poll_building of the refrigeration, by a source. *)

PlantRead(b) ==
  /\ plant' = [plant EXCEPT ![b] = "building"]
  /\ WritePoints(b)
  /\ Reports(b)

PollPlant(b, from) ==
  \/ /\ demo \/ from = "demo"
     /\ plant' = [plant EXCEPT ![b] = "simulator"]
     /\ UNCHANGED <<series, asking, reported>>
  \/ /\ ~demo /\ from = "bms"
     /\ asking' = asking \cup {b}
     /\ UNCHANGED <<series, plant, reported>>
  \/ /\ ~demo /\ from = "field"
     /\ PlantRead(b) \/ UNCHANGED <<series, plant, reported>>
     /\ UNCHANGED asking

(* The job, POST test-connection, and a reader who finds nothing cached. *)
RefrigerationPolled(b) ==
  /\ PollPlant(b, source[b])
  /\ UNCHANGED <<demo, cache, source>>

RefrigerationAnswers(b) ==
  /\ b \in asking
  /\ asking' = asking \ {b}
  /\ PlantRead(b) \/ UNCHANGED <<series, plant, reported>>
  /\ UNCHANGED <<demo, cache, source>>

(* PUT connection: stored, then polled. *)
PutConnection(b, s) ==
  /\ source' = [source EXCEPT ![b] = s]
  /\ PollPlant(b, s)
  /\ UNCHANGED <<demo, cache>>

(* The caches are memory only. *)
Restart ==
  /\ cache' = [b \in Building |-> None]
  /\ plant' = [b \in Building |-> None]
  /\ asking' = {}
  /\ UNCHANGED <<demo, series, source, reported>>

Next ==
  \/ Restart
  \/ \E b \in Building :
       \/ IngestSnapshot(b) \/ IngestTelemetry(b) \/ MetasysAnswers(b) \/ Expires(b)
       \/ Read(b) \/ LiveRead(b) \/ PollScans(b) \/ PollSimulates(b)
       \/ RefrigerationPolled(b) \/ RefrigerationAnswers(b)
       \/ \E s \in Source : PutConnection(b, s)

Spec == Init /\ [][Next]_vars

-----------------------------------------------------------------------------
TypeOK ==
  /\ demo \in DemoModes
  /\ cache \in [Building -> Snapshot \cup {None}]
  /\ series \in [Building -> SUBSET {"number", "text"}]
  /\ source \in [Building -> Source]
  /\ plant \in [Building -> Origin \cup {None}]
  /\ asking \subseteq Building
  /\ reported \subseteq Building

(***************************************************************************)
(* The simulator stays out: outside demo mode nothing it made is cached,   *)
(* and of a building that never reported anything nothing is cached and    *)
(* nothing in the time series, although polls and readers copy snapshots   *)
(* from the one into the other and back, again and again, and              *)
(* refrigeration is simulated next to them.  This is not that the numbers  *)
(* are the building's: once it reported anything, they may be constants,   *)
(* see NothingInvented.                                                    *)
(***************************************************************************)
OnlyReported ==
  \A b \in Building :
    /\ series[b] # {} => b \in reported
    /\ ~demo /\ cache[b] # None => b \in reported /\ cache[b].from # "simulator"

(***************************************************************************)
(* A live account that asks for the data of a building is shown what the   *)
(* building reported, or nothing: docs/DATA_PROVENANCE.md:3, "Every live   *)
(* UI value must be traceable through an auditable chain", and             *)
(* docs/module-data-source-matrix.md:13.  It does not hold, even outside   *)
(* demo mode: what get_latest_snapshot makes of any numbers in the time    *)
(* series are its own constants.                                           *)
(***************************************************************************)
NothingInvented == \A b \in Building : Shown(b) # None => Shown(b).from = "building"
=============================================================================
