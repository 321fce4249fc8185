------------------------------ MODULE Listing ------------------------------
(***************************************************************************)
(* The lists of the Control API (the list functions of                     *)
(* control-plane-store.ts, page-cursor.ts, ControlPlaneApplication.page),  *)
(* walked page by page while Intake's consumers and acceptances rewrite    *)
(* the rows under the reader.                                              *)
(*                                                                         *)
(* Each page is a query of its own.  A row is its position, updated_at and *)
(* id; the catalog is ordered by its ids, which its rows carry in place of *)
(* a time.                                                                 *)
(***************************************************************************)
EXTENDS Intake

CONSTANTS
  Limits,              \* page sizes a reader asks for
  DEFAULT_PAGE_LIMIT,
  MAXIMUM_PAGE_LIMIT

(* Ids are ordered, as PostgreSQL orders them, and tables start finite.    *)
ASSUME ListingAssumption ==
  /\ Limits \subseteq Nat
  /\ DEFAULT_PAGE_LIMIT \in 1..MAXIMUM_PAGE_LIMIT
  /\ MAXIMUM_PAGE_LIMIT \in Nat
  /\ Instances \cup {c.op : c \in Commands} \cup {c.snapshot : c \in Commands} \subseteq Nat
  /\ \A t \in Tables : IsFiniteSet(DOMAIN Stored[t])

VARIABLE reader   \* [phase, table, limit, cursor, listed, moved]
listingVars == <<intakeVars, reader>>

-----------------------------------------------------------------------------
(* page-cursor.ts.                                                         *)

CURSOR_VERSION == 1

encodePageCursor(position) ==
  [v |-> CURSOR_VERSION, s |-> position.sortKey, i |-> position.id]

(* A token of another version, or none of this service's, is refused.      *)
ValidCursor(cursor) == cursor.v = CURSOR_VERSION
decodePageCursor(cursor) == [sortKey |-> cursor.s, id |-> cursor.i]

Catalog == {"images", "flavors", "networks"}

Position(t, id) ==
  [sortKey |-> IF t \in Catalog THEN id ELSE rows[t][id], id |-> id]

(* `(sortColumn, idColumn) < (sortKey, id)', as PostgreSQL compares rows.  *)
RowLess(p, q) == p.sortKey < q.sortKey \/ (p.sortKey = q.sortKey /\ p.id < q.id)

(* mutant: the sort key alone decides. *)
SeekBySortKey(p, cursor) == p.sortKey < decodePageCursor(cursor).sortKey

seekDescending(p, cursor) == RowLess(p, decodePageCursor(cursor))
seekAscending(p, cursor) == p.id > decodePageCursor(cursor).id

(* The ORDER BY of each list: the catalog by id, everything else the most  *)
(* recently updated first.                                                 *)
Before(t, p, q) == IF t \in Catalog THEN p.id < q.id ELSE RowLess(q, p)

(* `no cursor' is the record of version 0.                                 *)
NoCursor == [v |-> 0, s |-> 0, i |-> 0]

Sought(t, cursor) ==
  {id \in DOMAIN rows[t] :
     \/ cursor = NoCursor
     \/ t \in Catalog /\ seekAscending(Position(t, id), cursor)
     \/ t \notin Catalog /\ seekDescending(Position(t, id), cursor)}

(* The first n rows of a set of rows, in the list's order.                 *)
First(t, ids, n) ==
  {id \in ids :
     Cardinality({j \in ids : Before(t, Position(t, j), Position(t, id))}) < n}

(* The query fetches one row more than the page holds; a full extra row    *)
(* is what tells that there is another page.                               *)
paginate(t, fetched, lim) ==
  LET items == First(t, fetched, lim)
      last == CHOOSE id \in items :
                \A j \in items \ {id} : Before(t, Position(t, j), Position(t, id))
  IN IF Cardinality(fetched) <= lim
     THEN [items |-> fetched, nextCursor |-> NoCursor]
     ELSE [items |-> items, nextCursor |-> encodePageCursor(Position(t, last))]

ListRows(t, page) ==
  paginate(t, First(t, Sought(t, page.cursor), page.limit + 1), page.limit)

(* The store's lists.  A tenant's are of one project, the catalog's of     *)
(* what is enabled, and the rows of this model are the ones they admit.    *)
listInstances(page)   == ListRows("instances", page)
listOperations(page)  == ListRows("operations", page)
listSnapshots(page)   == ListRows("snapshots", page)
listDeadLetters(page) == ListRows("dead_letters", page)
listAuditEvents(page) == ListRows("audit", page)
listImages(page)      == ListRows("images", page)
listFlavors(page)     == ListRows("flavors", page)
listNetworks(page)    == ListRows("networks", page)

(* ControlPlaneApplication: a limit out of range becomes the default.      *)
limit(value) ==
  IF value \in 1..MAXIMUM_PAGE_LIMIT THEN value ELSE DEFAULT_PAGE_LIMIT

PageRequest(value, cursor) == [limit |-> limit(value), cursor |-> cursor]

(* Its lists: a tenant reads its project's, an administrator the evidence  *)
(* across projects.                                                        *)
Administrative == {"dead_letters", "audit"}
MayList(role, t) ==
  role = IF t \in Administrative THEN "platform_administrator" ELSE "tenant_developer"

TenantPage(t, page) ==
  CASE t = "instances"  -> listInstances(page)
    [] t = "operations" -> listOperations(page)
    [] t = "snapshots"  -> listSnapshots(page)

CatalogPage(t, page) ==
  CASE t = "images"   -> listImages(page)
    [] t = "flavors"  -> listFlavors(page)
    [] t = "networks" -> listNetworks(page)

AdministratorPage(t, page) ==
  IF t = "audit" THEN listAuditEvents(page) ELSE listDeadLetters(page)

-----------------------------------------------------------------------------
(* The routes, by controller.  REST gives a limit left out its own default *)
(* (DefaultValuePipe), gRPC leaves that to the service; both pass the      *)
(* cursor on as it came.  A value of 0 is a limit left out.                *)

RestLimit(value) == IF value = 0 THEN DEFAULT_PAGE_LIMIT ELSE value

CatalogController(r) == CatalogPage(r.table, PageRequest(RestLimit(r.limit), r.cursor))
InstancesController(r) == TenantPage(r.table, PageRequest(RestLimit(r.limit), r.cursor))
SnapshotsRoute(r) == TenantPage(r.table, PageRequest(RestLimit(r.limit), r.cursor))
OperationsController(r) == TenantPage(r.table, PageRequest(RestLimit(r.limit), r.cursor))
DeadLettersController(r) ==
  AdministratorPage(r.table, PageRequest(RestLimit(r.limit), r.cursor))
AdministrationController(r) ==
  AdministratorPage(r.table, PageRequest(RestLimit(r.limit), r.cursor))

RestPage(r) ==
  CASE r.table \in Catalog       -> CatalogController(r)
    [] r.table = "instances"    -> InstancesController(r)
    [] r.table = "snapshots"    -> SnapshotsRoute(r)
    [] r.table = "operations"   -> OperationsController(r)
    [] r.table = "dead_letters" -> DeadLettersController(r)
    [] r.table = "audit"        -> AdministrationController(r)

CatalogGrpcController(r) == CatalogPage(r.table, PageRequest(r.limit, r.cursor))
InstanceGrpcController(r) == TenantPage(r.table, PageRequest(r.limit, r.cursor))
OperationGrpcController(r) == TenantPage(r.table, PageRequest(r.limit, r.cursor))
AdministrationGrpcController(r) ==
  AdministratorPage(r.table, PageRequest(r.limit, r.cursor))

GrpcPage(r) ==
  CASE r.table \in Catalog        -> CatalogGrpcController(r)
    [] r.table = "instances"     -> InstanceGrpcController(r)
    [] r.table = "operations"    -> OperationGrpcController(r)
    [] r.table \in Administrative -> AdministrationGrpcController(r)

(* Snapshots are not listed over gRPC.                                     *)
Transports(t) == IF t = "snapshots" THEN {"rest"} ELSE {"rest", "grpc"}

-----------------------------------------------------------------------------
(* A client walks one list, a request per page, until a page carries no    *)
(* cursor.  `moved' is what happened to the list's rows meanwhile.         *)

NoReader == [phase |-> "idle", table |-> "none", limit |-> 0,
             cursor |-> NoCursor, listed |-> <<>>, moved |-> {}]

Page(via, r) == IF via = "grpc" THEN GrpcPage(r) ELSE RestPage(r)

(* What the walk has shown once it has the page r asks for.                *)
Shown(via, r) == Append(r.listed, Page(via, r).items)

AskFor(via, r) ==
  /\ r.cursor = NoCursor \/ ValidCursor(r.cursor)
  /\ reader' = IF Page(via, r).nextCursor = NoCursor
               THEN [NoReader EXCEPT !.phase = "done"]
               ELSE [r EXCEPT !.listed = Shown(via, r), !.cursor = Page(via, r).nextCursor]
  /\ UNCHANGED intakeVars

StartWalk(role, t, value) ==
  /\ reader.phase = "idle"
  /\ MayList(role, t)
  /\ \E via \in Transports(t) :
       AskFor(via, [NoReader EXCEPT !.phase = "walking", !.table = t, !.limit = value])

(* The cursor one transport returned is good for the other.                *)
NextPage ==
  reader.phase = "walking" /\ \E via \in Transports(reader.table) : AskFor(via, reader)

Changed(t) ==
  {id \in DOMAIN rows[t] \cup DOMAIN rows'[t] :
     \/ id \notin DOMAIN rows[t] \cap DOMAIN rows'[t]
     \/ rows[t][id] # rows'[t][id]}

Meanwhile ==
  /\ IntakeNext
  /\ reader' = IF reader.phase = "walking"
               THEN [reader EXCEPT !.moved = @ \cup Changed(reader.table)]
               ELSE reader

ListingInit == IntakeInit /\ reader = NoReader

ListingNext ==
  \/ Meanwhile
  \/ \E role \in {"tenant_developer", "platform_administrator"} :
       \E t \in Tables, value \in Limits : StartWalk(role, t, value)
  \/ NextPage

ListingSpec ==
  /\ ListingInit /\ [][ListingNext]_listingVars
  /\ IntakeFairness

-----------------------------------------------------------------------------
(* page-cursor.ts, keyset pagination: whatever the consumers do between    *)
(* two pages, and however many rows share a timestamp, a walk to the last  *)
(* page shows every row that was there and stayed untouched, and no such   *)
(* row twice.  It may change transports from one page to the next.         *)
StableRowsListedOnce ==
  [][(NextPage /\ reader'.phase = "done") =>
       \A via \in Transports(reader.table) :
         \A id \in DOMAIN rows[reader.table] \ reader.moved :
           Cardinality({k \in DOMAIN Shown(via, reader) : id \in Shown(via, reader)[k]}) = 1
    ]_listingVars
=============================================================================
