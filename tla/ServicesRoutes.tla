--------------------------- MODULE ServicesRoutes ---------------------------
(***************************************************************************)
(* Where a request to the services API goes                                *)
(* (services/api/oas/oas_router_gen.go, oas_parameters_gen.go).            *)
(*                                                                         *)
(* A path is the sequence of the segments behind /api/services/.  The      *)
(* router cuts prefixes off the path; at the granularity of segments the   *)
(* tree of its cases has one branch for each operation, except where it    *)
(* goes on with what a branch has left of the path.                        *)
(***************************************************************************)
EXTENDS Naturals, Sequences, TLC

CONSTANTS
    Slashed,        \* identifiers that do not fit in a path as they are
    ReleaseIds      \* identifiers of the pattern that release ids must match

Escaped(id) == "%" \o id
PathEscape(id) == IF id \in Slashed THEN Escaped(id) ELSE id
PathUnescape(s) ==
    IF \E id \in Slashed : Escaped(id) = s
    THEN CHOOSE id \in Slashed : Escaped(id) = s
    ELSE s

(* elemIsEscaped: the path is taken as it was sent, not decoded.           *)
IsEscaped(path) == \E k \in DOMAIN path : PathUnescape(path[k]) # path[k]

Leaf(op, method, args) == {[op |-> op, method |-> method, args |-> args]}

CatalogsLeaf(path) ==
    CASE path = <<"catalogs">> -> Leaf("getMyCatalogs", "GET", <<>>)
      [] Len(path) = 4 /\ path[1] = "catalogs" /\ path[3] = "packages" ->
            Leaf("getMyPackage", "GET", <<path[2], path[4]>>)
      [] OTHER -> {}

EventsLeaf(path) ==
    IF Len(path) # 3 \/ path[1] # "events" THEN {}
    ELSE CASE path[3] = "watch-release"   -> Leaf("watchRelease", "GET", <<path[2]>>)
           [] path[3] = "watch-resources" -> Leaf("watchResources", "GET", <<path[2]>>)
           [] OTHER -> {}

SchemasLeaf(path) ==
    IF Len(path) = 6 /\ path[1] = "schemas" /\ path[3] = "packageName" /\ path[5] = "versions"
    THEN Leaf("getPackageSchema", "GET", <<path[2], path[4], path[6]>>)
    ELSE {}

(* The branches of events/ and schemas/ put the path back, but not when it *)
(* ends after their first parameter.                                       *)
Restored(path) ==
    IF Len(path) = 2 /\ path[1] \in {"events", "schemas"} THEN <<"">> ELSE path

ReleaseLeaf(path) ==
    IF Len(path) = 2 /\ path[2] = "install"
    THEN Leaf("installService", "PUT", <<path[1]>>)
    ELSE {}

(* ServeHTTP: the operation that handles the request, or none.             *)
Route(path) ==
    LET branch == CatalogsLeaf(path) \cup EventsLeaf(path) \cup SchemasLeaf(path)
    IN  IF branch # {} THEN branch ELSE ReleaseLeaf(Restored(path))

-----------------------------------------------------------------------------
(* Parameters: the decoded ones, or none when one is missing.  header: the *)
(* value of the one header the operation knows, a set of at most one.      *)

(* Mutant: arguments are taken as they are in the path.                    *)
ValueAsSent(arg, escaped) == arg

Value(arg, escaped) == IF escaped THEN PathUnescape(arg) ELSE arg

PathParams(args, escaped) ==
    IF \E k \in DOMAIN args : Value(args[k], escaped) = "" THEN {}
    ELSE {[k \in DOMAIN args |-> Value(args[k], escaped)]}

(* Mutant: a release id is not checked.                                    *)
ReleaseParamUnchecked(args, escaped) == PathParams(args, escaped)

(* A release id is checked after it is decoded.                            *)
ReleaseParam(args, escaped) == {a \in PathParams(args, escaped) : a[1] \in ReleaseIds}

decodeGetMyPackageParams(args, escaped, header) ==
    {[catalogId |-> a[1], packageName |-> a[2]] : a \in PathParams(args, escaped)}

decodeGetPackageSchemaParams(args, escaped, header) ==
    {[catalogId |-> a[1], packageName |-> a[2], version |-> a[3]] : a \in PathParams(args, escaped)}

decodeInstallServiceParams(args, escaped, header) ==
    {[releaseId |-> a[1], project |-> header] : a \in ReleaseParam(args, escaped)}

decodeWatchReleaseParams(args, escaped, header) ==
    {[releaseId |-> a[1], lastEventID |-> header] : a \in ReleaseParam(args, escaped)}

decodeWatchResourcesParams(args, escaped, header) ==
    {[releaseId |-> a[1], lastEventID |-> header] : a \in ReleaseParam(args, escaped)}
=============================================================================
