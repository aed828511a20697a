---------------------------- MODULE MCServicesApi ----------------------------
(***************************************************************************)
(* The instance of ServicesApi for TLC: one exchange that may be anything, *)
(* among them calls with identifiers that do not fit in a path, the names  *)
(* of other branches of the router, missing and forged tokens, other       *)
(* origins and malformed requests; a second one beside it; configurations  *)
(* from each source, and some that must not start.                         *)
(***************************************************************************)
EXTENDS ServicesApi

-----------------------------------------------------------------------------
(* Where the configuration comes from.                                     *)

MCLower ==
    [w \in {"authenticationmode", "server::port", "security::corsallowedorigins", "catalogs",
            "en", "zh-cn"} |-> w]
    @@ "authenticationMode" :> "authenticationmode"
    @@ "security::corsAllowedOrigins" :> "security::corsallowedorigins"
    @@ "AuthenticationMode" :> "authenticationmode" @@ "zh-CN" :> "zh-cn"
    @@ "front" :> "front" @@ "Front" :> "front"

MCEnvName ==
    "authenticationmode" :> "AUTHENTICATIONMODE" @@ "server::port" :> "SERVER_PORT"
    @@ "security::corsallowedorigins" :> "SECURITY_CORSALLOWEDORIGINS"
    @@ "catalogs" :> "CATALOGS"

MCNumeral == "8081" :> 8081
MCSplit == "" :> <<>> @@ "*" :> <<"*">> @@ "Front,*.org" :> <<"Front", "*.org">>
MCWildcards == "*.org" :> {"lab.org"}

NoTexts == [l \in {} |-> ""]
Catalog(i, name, description) ==
    [id |-> i, name |-> name, description |-> description, status |-> "PROD",
     highlighted |-> <<>>]
Chinese == "en" :> "Development" @@ "zh-CN" :> "Kaifa"
Databases == [Catalog("db", "en" :> "Databases", "en" :> "Databases") EXCEPT
                 !.status = "TEST", !.highlighted = <<"postgresql">>]

Defaults ==
    "authenticationMode" :> Text("none") @@ "server::port" :> Text("8081")
    @@ "security::corsAllowedOrigins" :> Items(<<>>)
    @@ "catalogs" :> CatalogList(<<Catalog("ide", Chinese, NoTexts)>>)

From(files, environment) ==
    [defaults |-> Defaults, files |-> files, env |-> environment]
NoEnv == NoTexts
Oidc == "AuthenticationMode" :> Text("openidconnect")
Named(texts) == Oidc @@ "catalogs" :> CatalogList(<<Catalog("ide", texts, NoTexts), Databases>>)

MCSources == {
    From({}, NoEnv),                                    \* no file, or one that does not parse
    From({Named(Chinese @@ "zh-cn" :> "Kaifa?")}, "SECURITY_CORSALLOWEDORIGINS" :> "Front,*.org"),
    From({}, "AUTHENTICATIONMODE" :> "" @@ "SECURITY_CORSALLOWEDORIGINS" :> "*"),
    From({Oidc}, "AUTHENTICATIONMODE" :> "none" @@ "CATALOGS" :> ""),
    From({Named(NoTexts)}, NoEnv),                      \* a catalog without a name
    From({Oidc @@ "catalogs" :> CatalogList(<<Databases, Databases>>)}, NoEnv),
    From({Oidc}, "SERVER_PORT" :> "http"),
    From({Oidc}, "CATALOGS" :> "ide")}

MCWithOidc == {From({Oidc}, NoEnv)}

-----------------------------------------------------------------------------
(* What is asked.                                                          *)

MCOwner == "hers" :> {"alice"} @@ "bound" :> {"alice"} @@ "forged" :> {}

Asking(op, params) ==
    [op |-> op, params |-> params, request |-> {}, token |-> {"hers"}, origin |-> {}]
WithToken(a, token) == [a EXCEPT !.token = token]
FromPage(a, o) == [a EXCEPT !.origin = {o}]

Listing == Asking("getMyCatalogs", NoParams)
Package(i, n) == Asking("getMyPackage", [catalogId |-> i, packageName |-> n])
Schema(i, n, v) == Asking("getPackageSchema", [catalogId |-> i, packageName |-> n, version |-> v])
Watch(op, r, last) == Asking(op, [releaseId |-> r, lastEventID |-> last])

Minimal ==
    [catalogId |-> "ide", packageName |-> "jupyter", packageVersion |-> {}, version |-> {},
     options |-> NoField, share |-> {}, friendlyName |-> {}, name |-> "jl"]
Full == [Minimal EXCEPT !.version = {"2.0"}, !.share = {TRUE}, !.friendlyName = {"my lab"},
                        !.options = "cpu" :> Num(1)]
Install(r, project, request) ==
    [Asking("installService", [releaseId |-> r, project |-> project]) EXCEPT !.request = {request}]

Raw(method, path, ct, body) ==
    [op |-> "raw", wire |-> [method |-> method, path |-> path, header |-> {}, ct |-> ct,
                             body |-> body, token |-> {"hers"}]]
MinimalBody == EncodeServiceInstallRequest(Minimal)

Calls == {
    Listing, WithToken(Listing, {}), WithToken(Listing, {"forged"}),
    FromPage(Listing, "front"), FromPage(Listing, "lab.org"), FromPage(Listing, "other"),
    FromPage(WithToken(Listing, {}), "other"), FromPage(WithToken(Listing, {"bound"}), "front"),
    Package("ide", "jupyter"), Package("a/b", "jupyter"), Package("ide", ""),
    WithToken(Package("ide", "jupyter"), {}),
    Schema("ide", "a/b", "2.0"),
    Install("jl", {"team"}, Full), Install("a/b", {}, Minimal),
    Install("jl", {}, [Minimal EXCEPT !.packageName = ""]),
    Install("events", {}, Minimal), Install("schemas", {}, Minimal),
    Install("catalogs", {}, Minimal),
    WithToken(Install("jl", {}, Minimal), {"forged"}), FromPage(Install("jl", {}, Minimal), "front"),
    Watch("watchRelease", "jl", {}), Watch("watchResources", "jl", {"7"}),
    FromPage(Watch("watchResources", "jl", {"7"}), "front")}

Malformed == {
    Raw("POST", <<"catalogs">>, NoType, Nothing), Raw("OPTIONS", <<"catalogs">>, NoType, Nothing),
    Raw("GET", <<"catalogs", "ide">>, NoType, Nothing), Raw("GET", <<"jl", "install">>, NoType, Nothing),
    Raw("PUT", <<"jl", "install">>, NoType, MinimalBody),
    Raw("PUT", <<"jl", "install">>, EventStream, MinimalBody),
    Raw("PUT", <<"jl", "install">>, JsonType, Arr(<<MinimalBody>>)),
    Raw("PUT", <<"jl", "install">>, JsonType, Obj("catalogId" :> Str("ide"))),
    Raw("PUT", <<"", "install">>, JsonType, MinimalBody)}

(* The call that openapi.yaml allows without a token.                      *)
MCAllowed == "x" :> {WithToken(Listing, {})}
MCNoRaws == "x" :> {}

MCAsks == "x" :> Calls @@ "y" :> {Watch("watchRelease", "lab", {})}
MCRaws == "x" :> Malformed @@ "y" :> {}

-----------------------------------------------------------------------------
(* What the use cases give, and what a client must be able to read.        *)

Jupyter == [name |-> "jupyter", description |-> "Lab", icon |-> "", home |-> "https://jupyter.org"]
MCPackageLists == {<<>>, <<Jupyter>>}
Detail(versions) ==
    [name |-> "jupyter", description |-> "", icon |-> "", home |-> "", versions |-> versions]
MCDetails == {Detail({}), Detail({<<"2.0", "1.0">>})}
MCSchemas == {Obj("cpu" :> Num(1)), Null, Num(1)}

ProblemOf(type) == Response(type, MkProblem("title", 500, "detail"))
BareProblem(type) ==
    Response(type, [NoProblem EXCEPT !.type = {"about"}, !.additional = "retry" :> Num(1)])
Problems(types) == {ProblemOf(t) : t \in types} \cup {BareProblem(t) : t \in types}
Stream(type) == Response(type, [cacheControl |-> "no-cache", connection |-> "keep-alive",
                                data |-> Str("events")])

Everything ==
    [ApiCatalog(buildCatalogs(<<Databases>>, <<Jupyter>>)[1]) EXCEPT
        !.visible = {[user |-> TRUE, project |-> FALSE]},
        !.name = NewStringLocalizedString("Databases")]

MCReadable ==
    "getMyCatalogs" :>
        (Problems({"Problem"})
         \cup {Response("GetMyCatalogsOKApplicationJSON", l) :
                l \in {<<>>, <<Everything, ApiCatalog(buildCatalogs(<<Databases>>, <<>>)[1])>>}})
    @@ "getMyPackage" :>
        (Problems({"GetMyPackageNotFound", "GetMyPackageInternalServerError"})
         \cup UNION {GetMyPackage({d}, "none").response : d \in MCDetails})
    @@ "getPackageSchema" :>
        (Problems({"GetPackageSchemaBadRequest", "GetPackageSchemaInternalServerError"})
         \cup {Response("GetPackageSchemaOK", f) : f \in {NoField, "cpu" :> Num(1)}})
    @@ "installService" :>
        (Problems({"InstallServiceBadRequest", "InstallServiceUnauthorized",
                   "InstallServiceForbidden", "InstallServiceConflict",
                   "InstallServiceInternalServerError"})
         \cup {Response("InstallAcceptedHeaders", [location |-> "/jl",
                response |-> [eventsUrl |-> [release |-> "/r", resources |-> "/s"]]])})
    @@ "watchRelease" :>
        (Problems({"WatchReleaseUnauthorized", "WatchReleaseForbidden", "WatchReleaseNotFound"})
         \cup {Stream("WatchReleaseOKHeaders")})
    @@ "watchResources" :>
        (Problems({"WatchResourcesUnauthorized", "WatchResourcesForbidden",
                   "WatchResourcesNotFound"})
         \cup {Stream("WatchResourcesOKHeaders")})
=============================================================================
