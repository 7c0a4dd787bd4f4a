------------------------------ MODULE Buildings -----------------------------
(***************************************************************************)
(* The buildings that live accounts register: api/buildings.py and         *)
(* services/building_store.py over the tables of Supabase, with a copy in  *)
(* memory for rows the table refused, and who is let at them               *)
(* (account_service.py, deps/guards.py).                                   *)
(*                                                                         *)
(* Every call of Supabase is awaited, so requests interleave at each of    *)
(* them; what a request reads at its beginning is read in one step, since  *)
(* no row and no credentials ever go away while it lasts.  A call is       *)
(* answered or raises; an insert or update may have been stored or not     *)
(* whatever the answer, and the answers of most are not looked at.  Of a   *)
(* building its owner, whether its connection status is "connected" and    *)
(* its site profile are kept, of its credentials that they are stored.     *)
(***************************************************************************)
EXTENDS Integers, FiniteSets

CONSTANTS
  None,
  Account,         \* live accounts
  Administrator,   \* those with the role admin
  Building,        \* ids uuid4 can draw
  Profile,         \* site profiles; the default is building_only
  Registered,      \* the table at the start: rows not connected yet
  Request          \* model bound: requests under way at a time

Row == [owner : Account, connected : BOOLEAN, profile : Profile]
Service == [account : Account, building : Building, by : {"live", "stream"}]

BuildingsAssumption ==
  /\ Administrator \subseteq Account
  /\ "building_only" \in Profile
  /\ None \notin Row /\ None \notin Service
  /\ Registered \in [Building -> Row \cup {None}]
  /\ \A b \in Building : Registered[b] # None => ~Registered[b].connected

VARIABLES
  rows,      \* the table buildings
  memory,    \* _MEMORY_BUILDINGS
  saved,     \* buildings with a row in building_connections
  kept,      \* buildings in _MEMORY_CONNECTIONS
  request,   \* the requests under way
  tested,    \* history: buildings that were reached with their credentials
  served     \* history: the account and building live data was last served for

tables == <<rows, saved>>
process == <<memory, kept>>
history == <<tested, served>>
vars == <<tables, process, request, history>>

Idle == [step |-> "idle"]
At(step, a, b) == [step |-> step, account |-> a, building |-> b]

Init ==
  /\ rows = Registered /\ memory = [b \in Building |-> None]
  /\ saved = {} /\ kept = {}
  /\ request = [q \in Request |-> Idle]
  /\ tested = {} /\ served = None

-----------------------------------------------------------------------------
(* fetch_user_context: a table that does not answer counts as no buildings. *)
(* (The access level counts as read_write then, so whoever may write is     *)
(* left open.)                                                              *)
Owned(a) == {b \in Building : rows[b] # None /\ rows[b].owner = a}
ContextIds(a) == {Owned(a), {}}

(* assert_building_access *)
Accessible(a, b, ids) == ids # {} /\ (b \in ids \/ a \in Administrator)
MayAccess(a, b) == \E ids \in ContextIds(a) : Accessible(a, b, ids)

(* get_building: the row of this owner, or else the copy in memory,         *)
(* whoever owns it.                                                         *)
Get(a, b, answered) ==
  IF answered /\ b \in Owned(a) THEN rows[b] ELSE memory[b]

(* get_connection *)
Credentials(b, answered) == (answered /\ b \in saved) \/ b \in kept

With(table, b, row) == [table EXCEPT ![b] = row]
WithStatus(table, b, connected) ==
  IF table[b] = None THEN table ELSE [table EXCEPT ![b].connected = connected]
WithProfile(table, b, profile) ==
  IF table[b] = None THEN table ELSE [table EXCEPT ![b].profile = profile]

Goes(q, r) == request' = [request EXCEPT ![q] = r]
Ends(q) == Goes(q, Idle)

Drawn == saved \cup kept \cup {b \in Building : rows[b] # None \/ memory[b] # None}
           \cup {request[q].building : q \in {p \in Request : request[p] # Idle}}

-----------------------------------------------------------------------------
(* POST /buildings: the credentials, when it has any, then the row. *)

NewRow(a) == [owner |-> a, connected |-> FALSE, profile |-> "building_only"]

Create(q, a, b, credentials) ==
  /\ request[q] = Idle
  /\ b \notin Drawn
  /\ IF credentials
     THEN kept' = kept \cup {b} /\ Goes(q, At("connecting", a, b))
     ELSE UNCHANGED kept /\ Goes(q, At("inserting", a, b))
  /\ UNCHANGED <<tables, memory, history>>

SaveConnection(q) ==
  LET r == request[q] IN
  /\ r.step = "connecting"
  /\ saved' \in {saved, saved \cup {r.building}}
  /\ Goes(q, [r EXCEPT !.step = "inserting"]) \/ Ends(q)
  /\ UNCHANGED <<rows, process, history>>

InsertRow(q) ==
  LET r == request[q]
      inserted == With(rows, r.building, NewRow(r.account))
  IN
  /\ r.step = "inserting"
  /\ \/ rows' = inserted /\ UNCHANGED memory
     \/ rows' \in {rows, inserted} /\ memory' = With(memory, r.building, NewRow(r.account))
     \/ UNCHANGED <<rows, memory>>
  /\ Ends(q)
  /\ UNCHANGED <<saved, kept, history>>

-----------------------------------------------------------------------------
(* POST /buildings/{building_id}/test-connection *)

Test(q, a, b) ==
  /\ request[q] = Idle
  /\ MayAccess(a, b)
  /\ \E answered \in BOOLEAN : Get(a, b, answered) # None
  /\ \E answered \in BOOLEAN : Credentials(b, answered)
  /\ Goes(q, At("testing", a, b))
  /\ UNCHANGED <<tables, process, history>>

(* Slip: a building system that answers is connected, whatever it answers. *)
StatusOfAnswer(reached) == TRUE

StatusOf(reached) == reached

(* The building system answers, or does not; the copy in memory is updated  *)
(* before the table.                                                        *)
TestConnection(q) ==
  LET r == request[q] IN
  /\ r.step = "testing"
  /\ \E reached \in BOOLEAN :
       /\ tested' = tested \cup IF reached THEN {r.building} ELSE {}
       /\ memory' = WithStatus(memory, r.building, StatusOf(reached))
       /\ Goes(q, [step |-> "recording", account |-> r.account, building |-> r.building,
                   connected |-> StatusOf(reached)])
  /\ UNCHANGED <<tables, kept, served>>

UpdateStatus(q) ==
  LET r == request[q] IN
  /\ r.step = "recording"
  /\ rows' \in {rows, WithStatus(rows, r.building, r.connected)}
  /\ Ends(q)
  /\ UNCHANGED <<saved, process, history>>

-----------------------------------------------------------------------------
(* PUT /buildings/{building_id}/site-profile: the copy in memory if there   *)
(* is one, and only else the row, whoever owns it for an administrator.     *)
UpdateProfile(q, a, b, profile) ==
  /\ request[q] = Idle
  /\ MayAccess(a, b)
  /\ IF memory[b] = None
     THEN /\ Goes(q, [step |-> "profile", account |-> a, building |-> b, profile |-> profile])
          /\ UNCHANGED memory
     ELSE /\ memory[b].owner = a \/ a \in Administrator
          /\ memory' = WithProfile(memory, b, profile)
          /\ UNCHANGED request
  /\ UNCHANGED <<tables, kept, history>>

PatchProfile(q) ==
  LET r == request[q] IN
  /\ r.step = "profile"
  /\ \/ /\ r.building \in Owned(r.account) \/ r.account \in Administrator
        /\ rows' = WithProfile(rows, r.building, r.profile)
     \/ UNCHANGED rows
  /\ Ends(q)
  /\ UNCHANGED <<saved, process, history>>

-----------------------------------------------------------------------------
(* Live data.  Whether there is a snapshot does not follow from anything    *)
(* here: POST /ingest/live takes one of any building.                       *)

Serves(a, b, path) ==
  /\ served' = [account |-> a, building |-> b, by |-> path]
  /\ UNCHANGED <<tables, process, request, tested>>

(* GET /buildings/{building_id}/live *)
Live(a, b) ==
  /\ MayAccess(a, b)
  /\ \E answered \in BOOLEAN :
       LET row == Get(a, b, answered) IN row # None /\ row.connected
  /\ Serves(a, b, "live")

(* GET /buildings/{building_id}/live/stream looks at no row: an event goes   *)
(* out whenever there is a snapshot.  So does, of the points of a building,  *)
(* GET .../telemetry/current.                                                *)
Stream(a, b) == MayAccess(a, b) /\ Serves(a, b, "stream")

-----------------------------------------------------------------------------
(* A call raises and the request ends in a 500, or the client is gone.      *)
Raises(q) ==
  /\ request[q] # Idle
  /\ Ends(q)
  /\ UNCHANGED <<tables, process, history>>

(* The process is started again: what was in memory is lost.                *)
Restart ==
  /\ memory' = [b \in Building |-> None] /\ kept' = {}
  /\ request' = [q \in Request |-> Idle]
  /\ UNCHANGED <<tables, history>>

Next ==
  \/ \E q \in Request, a \in Account, b \in Building :
       \/ \E credentials \in BOOLEAN : Create(q, a, b, credentials)
       \/ Test(q, a, b)
       \/ \E profile \in Profile : UpdateProfile(q, a, b, profile)
  \/ \E q \in Request :
       \/ SaveConnection(q) \/ InsertRow(q)
       \/ TestConnection(q) \/ UpdateStatus(q)
       \/ PatchProfile(q) \/ Raises(q)
  \/ \E a \in Account, b \in Building : Live(a, b) \/ Stream(a, b)
  \/ Restart

Spec == Init /\ [][Next]_vars

-----------------------------------------------------------------------------
TypeOK ==
  /\ rows \in [Building -> Row \cup {None}] /\ memory \in [Building -> Row \cup {None}]
  /\ saved \subseteq Building /\ kept \subseteq Building
  /\ \A q \in Request :
       \/ request[q] = Idle
       \/ /\ request[q].step \in {"connecting", "inserting", "testing",
                                  "recording", "profile"}
          /\ request[q].account \in Account /\ request[q].building \in Building
  /\ tested \subseteq Building
  /\ served \in Service \cup {None}

(***************************************************************************)
(* Live data of a building is served, by either path, to the account that  *)
(* owns it or to an administrator; and by GET /live only if the building   *)
(* system was reached with the building's own credentials once: although   *)
(* the row, the copy in memory and the credentials are stored by calls     *)
(* that may each fail, are found in whichever place answers, and copies in *)
(* memory are found without looking at their owner.  The stream serves     *)
(* also what was never reached, and nothing is said of that.               *)
(***************************************************************************)
OwnAndTested ==
  served # None =>
    /\ served.account \in Administrator \/ served.building \in Owned(served.account)
    /\ served.by = "live" => served.building \in tested
=============================================================================
