----------------------------- MODULE ServicesApi -----------------------------
(***************************************************************************)
(* Calls to the services API from end to end: the process starts, a client *)
(* builds a request and sends it, the server routes it, decides who asks,  *)
(* decodes it, has a controller carry it out and writes the response, and  *)
(* the client reads that                                                   *)
(* (cmd/onyxia-services/main.go, services/api/oas, services/api/controller,*)
(* services/api/middleware).                                               *)
(*                                                                         *)
(* The use cases stand behind their interfaces: each may give any result   *)
(* its signature allows; Catalogs and InstallService say which.  The       *)
(* network, browsers and the identity provider are external.               *)
(***************************************************************************)
EXTENDS ServicesRoutes, ServicesControllers, ConfigLoading, FiniteSets

CONSTANTS
    Exchanges,              \* calls, each made at most once
    Asks,                   \* per exchange: what its client may call
    Raws,                   \* per exchange: what else may be sent to the server
    Owner,                  \* per token: whose it is, nobody's if it is refused
    Bound,                  \* the tokens that need a proof beside them
    Anonymous,              \* the user of the mode without authentication
    Wildcards,              \* per pattern with a star, in lower case: its origins
    Sources,                \* the defaults, file and environment of a process
    PackageLists, Details, Schemas,     \* what the use cases may give
    Readable,               \* per operation: responses a client must be able to read
    NoAsk, None

Operations == {"getMyCatalogs", "getMyPackage", "getPackageSchema", "installService",
               "watchRelease", "watchResources"}

(* The fields of an operation's parameters.                                *)
ParamsOf ==
    [getMyCatalogs |-> {}, getMyPackage |-> {"catalogId", "packageName"},
     getPackageSchema |-> {"catalogId", "packageName", "version"},
     installService |-> {"releaseId", "project"},
     watchRelease |-> {"releaseId", "lastEventID"}, watchResources |-> {"releaseId", "lastEventID"}]

InPath == {"catalogId", "packageName", "version", "releaseId"}

(* Clients call with what the types of the API let them write; anything    *)
(* else has at least a method.                                             *)
ASSUME AsksAssumption ==
    \A x \in Exchanges :
        /\ \A a \in Asks[x] :
              /\ a # NoAsk /\ a.op \in Operations /\ a.token \subseteq DOMAIN Owner
              /\ HasFields(a.params, ParamsOf[a.op])
              /\ IF a.op = "installService"
                 THEN \E r \in a.request : a.request = {r} /\ IsServiceInstallRequest(r)
                 ELSE a.request = {}
        /\ \A a \in Raws[x] :
              /\ a # NoAsk /\ a.op = "raw" /\ a.wire.token \subseteq DOMAIN Owner
              /\ a.wire.method # ""

(* What fits in a path is not the escape of something else, and the names  *)
(* of the router's branches do fit.                                        *)
Reserved == {"events", "schemas"}
ASSUME EscapeAssumption ==
    /\ \A i, j \in Slashed : Escaped(i) = Escaped(j) => i = j
    /\ \A i \in Slashed : i \notin Reserved /\ Escaped(i) \notin Reserved
    /\ \A x \in Exchanges : \A a \in Asks[x] : \A f \in InPath \cap DOMAIN a.params :
          a.params[f] \in Slashed \/ \A i \in Slashed : Escaped(i) # a.params[f]

(* A call has one token, if any, and a token at most one owner.            *)
ASSUME OwnerAssumption ==
    /\ \A t \in DOMAIN Owner : \A u, v \in Owner[t] : u = v
    /\ \A x \in Exchanges :
          /\ \A a \in Asks[x] : \A t, u \in a.token : t = u
          /\ \A a \in Raws[x] : \A t, u \in a.wire.token : t = u

(* What a client must be able to read are responses.                       *)
ASSUME ReadableAssumption == \A op \in Operations : \A r \in Readable[op] : IsResponse(op, r)

(* What the types of the use cases' results leave to them.                 *)
ASSUME UseCasesAssumption ==
    /\ \A d \in Details : AtMostOne(d.versions) /\ \A list \in d.versions : IsMap(list)
    /\ \A raw \in Schemas : Is("obj", raw) => IsRawMap(raw.obj)

IsCatalogConfig(c) ==
    HasFields(c, {"id", "name", "description", "status", "highlighted"}) /\ IsMap(c.highlighted)

(* A process has one file at most, its defaults have every setting, and    *)
(* only the catalogs are catalogs.                                         *)
Settings == {"authenticationmode", "server::port", "security::corsallowedorigins", "catalogs"}
ASSUME SourcesAssumption ==
    \A s \in Sources :
        /\ \A f, g \in s.files : f = g
        /\ Settings \subseteq {Lower[w] : w \in DOMAIN s.defaults}
        /\ \A f \in {s.defaults} \cup s.files : \A w \in DOMAIN f :
              "catalogs" \in DOMAIN f[w] =>
                 /\ Lower[w] = "catalogs"
                 /\ \A i \in DOMAIN f[w].catalogs : IsCatalogConfig(f[w].catalogs[i])

VARIABLES
    source,     \* where the configuration comes from
    phase,      \* of the process
    config,     \* its Env, once loaded: a set of at most one
    ask,        \* per exchange: what was asked
    client,     \* per exchange: "idle", "waiting" or "returned"
    wire,       \* per exchange: the request sent
    pc,         \* per exchange: where the server is with it
    job,        \* per exchange: what the controller is called with
    result,     \* per exchange: what the controller has returned
    answer,     \* per exchange: what the server has written
    heard,      \* per exchange: what the client's call has returned
    carried     \* history, per exchange: the job done and its response, or None

process == <<source, phase, config>>
asking == <<ask, client, wire, heard>>
handling == <<pc, job, result, answer, carried>>
vars == <<process, asking, handling>>

env == The(config)

-----------------------------------------------------------------------------
(* The process (main, NewApplication, Setup).                              *)

LoadEnv ==
    /\ phase = "starting"
    /\ \E loaded \in New(source.defaults, source.files, source.env) :
          /\ config' = loaded
          /\ phase' = IF loaded = {} THEN "exited" ELSE "connecting"
    /\ UNCHANGED <<source, asking, handling>>

(* The Kubernetes API answers or not.  The five seconds it is given are of *)
(* a context that is not passed on: nothing makes this step happen.        *)
Ping ==
    /\ phase = "connecting"
    /\ phase' \in {"wiring", "exited"}
    /\ UNCHANGED <<source, config, asking, handling>>

(* The provider is reached, the routes are set up and the port is free, or *)
(* not.                                                                    *)
Setup ==
    /\ phase = "wiring"
    /\ phase' \in {"serving", "exited"}
    /\ UNCHANGED <<source, config, asking, handling>>

(* Mutant: handlers go on.                                                 *)
ExitAlone ==
    /\ phase # "exited"
    /\ phase' = "exited"
    /\ UNCHANGED <<source, config, asking, handling>>

(* A signal: the logger's goroutine leaves without waiting for handlers.   *)
Exit ==
    /\ phase # "exited"
    /\ phase' = "exited"
    /\ pc' = [x \in Exchanges |->
                IF pc[x] \in {"arrived", "running", "responding"} THEN "dead" ELSE pc[x]]
    /\ UNCHANGED <<source, config, asking, job, result, answer, carried>>

-----------------------------------------------------------------------------
(* Calls from another origin.                                              *)

AllowedMethods == {"GET", "POST", "OPTIONS"}
AllowedHeaders == {"Accept", "Authorization", "Content-Type", "X-CSRF-Token", "Origin",
                   "X-Requested-With", "onyxia-region"}

(* cors compares in lower case; a star stands for anything.  Lower says    *)
(* what else than itself a text is in lower case.                          *)
InLowerCase(o) == IF o \in DOMAIN Lower THEN Lower[o] ELSE o
Matches(pattern, o) ==
    LET p == InLowerCase(pattern) IN
    \/ p = "*" \/ p = InLowerCase(o)
    \/ p \in DOMAIN Wildcards /\ InLowerCase(o) \in Wildcards[p]

(* No configured origin means any.                                         *)
Admits(origins, o) == origins = <<>> \/ \E i \in DOMAIN origins : Matches(origins[i], o)
AllowedOrigin(o) == Admits(env.corsAllowedOrigins, o)

HeaderNames(w) ==
    {h.name : h \in w.header} \cup {"Authorization" : t \in w.token}
    \cup {"DPoP" : t \in w.token \cap Bound}
    \cup (IF w.ct = NoType THEN {} ELSE {"Content-Type"})

(* A browser asks first, unless the request is a plain one.                *)
Preflighted(w) == w.method # "GET" \/ HeaderNames(w) # {}

(* Mutant: methods are not looked at.                                      *)
BlockedByHeaders(w, origin) ==
    /\ origin # {} /\ Preflighted(w)
    /\ ~(AllowedOrigin(The(origin)) /\ HeaderNames(w) \subseteq AllowedHeaders)

Blocked(w, origin) ==
    /\ origin # {} /\ Preflighted(w)
    /\ ~(AllowedOrigin(The(origin)) /\ w.method \in AllowedMethods
         /\ HeaderNames(w) \subseteq AllowedHeaders)

-----------------------------------------------------------------------------
(* The client.                                                             *)

NotHeard == [response |-> {}, error |-> "none"]
NoWire == [method |-> "", path |-> <<>>, header |-> {}, ct |-> NoType, body |-> Nothing,
           token |-> {}]

Return(x, what) ==
    /\ client' = [client EXCEPT ![x] = "returned"]
    /\ heard' = [heard EXCEPT ![x] = what]

(* Sends w unless the call fails before.                                   *)
Send(x, a, w, failure) ==
    /\ ask[x] = NoAsk
    /\ ask' = [ask EXCEPT ![x] = a]
    /\ IF failure # "none"
       THEN Return(x, Failed(failure)) /\ UNCHANGED <<wire, pc>>
       ELSE /\ client' = [client EXCEPT ![x] = "waiting"]
            /\ wire' = [wire EXCEPT ![x] = w]
            /\ pc' = [pc EXCEPT ![x] = "arrived"]
            /\ UNCHANGED heard
    /\ UNCHANGED <<process, job, result, answer, carried>>

(* Do: nobody listens before the process serves.                           *)
DoFailure(w, origin) ==
    IF phase # "serving" THEN "SendRequest" ELSE IF Blocked(w, origin) THEN "CORS" ELSE "none"

Request(a, method, path, header, ct, body) ==
    [method |-> method, path |-> path, header |-> header, ct |-> ct, body |-> body,
     token |-> a.token]

(* The header that an operation may have, and its value.                   *)
HeaderName(op) == IF op = "installService" THEN "X-Onyxia-Project" ELSE "Last-Event-ID"
HeaderValue(w, op) == {h.value : h \in {g \in w.header : g.name = HeaderName(op)}}

(* A security source that has no token skips; only the listing may do      *)
(* without.                                                                *)
MayDoWithout(op) == op = "getMyCatalogs"

Call(x, a, w) ==
    Send(x, a, w, IF a.token = {} /\ ~MayDoWithout(a.op) THEN "Security" ELSE DoFailure(w, a.origin))

Get(a, path, header) == Request(a, "GET", path, header, NoType, Nothing)
Header(name, values) == {[name |-> name, value |-> v] : v \in values}

sendGetMyCatalogs(x, a) ==
    a.op = "getMyCatalogs" /\ Call(x, a, Get(a, <<"catalogs">>, {}))

sendGetMyPackage(x, a) ==
    /\ a.op = "getMyPackage"
    /\ Call(x, a, Get(a, <<"catalogs", PathEscape(a.params.catalogId), "packages",
                           PathEscape(a.params.packageName)>>, {}))

sendGetPackageSchema(x, a) ==
    /\ a.op = "getPackageSchema"
    /\ Call(x, a, Get(a, <<"schemas", PathEscape(a.params.catalogId), "packageName",
                           PathEscape(a.params.packageName), "versions",
                           PathEscape(a.params.version)>>, {}))

sendInstallService(x, a) ==
    /\ a.op = "installService"
    /\ Call(x, a, Request(a, "PUT", <<PathEscape(a.params.releaseId), "install">>,
                          Header(HeaderName(a.op), a.params.project), JsonType,
                          EncodeServiceInstallRequest(The(a.request))))

sendWatchRelease(x, a) ==
    /\ a.op = "watchRelease"
    /\ Call(x, a, Get(a, <<"events", PathEscape(a.params.releaseId), "watch-release">>,
                      Header(HeaderName(a.op), a.params.lastEventID)))

sendWatchResources(x, a) ==
    /\ a.op = "watchResources"
    /\ Call(x, a, Get(a, <<"events", PathEscape(a.params.releaseId), "watch-resources">>,
                      Header(HeaderName(a.op), a.params.lastEventID)))

(* Somebody sends what no client of this API would.                        *)
SendRaw(x, a) == a.op = "raw" /\ Send(x, a, a.wire, DoFailure(a.wire, {}))

Read(op, a) ==
    CASE op = "getMyCatalogs"    -> decodeGetMyCatalogsResponse(a)
      [] op = "getMyPackage"     -> decodeGetMyPackageResponse(a)
      [] op = "getPackageSchema" -> decodeGetPackageSchemaResponse(a)
      [] op = "installService"   -> decodeInstallServiceResponse(a)
      [] op = "watchRelease"     -> decodeWatchReleaseResponse(a)
      [] op = "watchResources"   -> decodeWatchResourcesResponse(a)
      [] OTHER -> NotHeard

(* A browser keeps an answer from a page of another origin.                *)
Hear(x) ==
    /\ client[x] = "waiting" /\ pc[x] = "answered"
    /\ Return(x, IF ask[x].op # "raw" /\ \E o \in ask[x].origin : ~AllowedOrigin(o)
                 THEN Failed("CORS")
                 ELSE Read(ask[x].op, answer[x]))
    /\ UNCHANGED <<process, ask, wire, handling>>

(* The connection breaks, or the caller waits no longer.  The handler may  *)
(* go on.                                                                  *)
Lose(x) ==
    /\ client[x] = "waiting"
    /\ Return(x, Failed("SendRequest"))
    /\ UNCHANGED <<process, ask, wire, handling>>

-----------------------------------------------------------------------------
(* The server, up to the controller.                                       *)

Write(x, a) ==
    /\ pc' = [pc EXCEPT ![x] = "answered"]
    /\ answer' = [answer EXCEPT ![x] = a]

(* ServeHTTP where there is no operation to call.                          *)
ServeHTTP(x) ==
    /\ pc[x] = "arrived"
    /\ \/ Route(wire[x].path) = {} /\ Write(x, notFound)
       \/ \E leaf \in Route(wire[x].path) :
             leaf.method # wire[x].method /\ Write(x, notAllowed(wire[x].method))
    /\ UNCHANGED <<process, asking, job, result, carried>>

(* Who asks: a user, an error, or neither when the handler skips, which it *)
(* never does.  The keys of the provider may be out of reach.              *)
Refused == [error |-> TRUE, user |-> {}]
User(u) == [error |-> FALSE, user |-> {u}]

(* Mutant: a token that is refused is as good as none, which is no error.  *)
HandleOidcSkipping(token) ==
    IF env.authenticationMode = "none" THEN {User(Anonymous)}
    ELSE {[error |-> FALSE, user |-> {}]}
         \cup {User(u) : u \in UNION {Owner[t] : t \in token}}

HandleOidc(token) ==
    IF env.authenticationMode = "none" THEN {User(Anonymous)}
    ELSE {Refused} \cup {User(u) : u \in UNION {Owner[t] : t \in token}}

(* Security, parameters, body; then the controller is called.              *)
Handle(x, op, DecodeParams(_, _, _), DecodeRequest(_, _)) ==
    /\ pc[x] = "arrived"
    /\ \E leaf \in Route(wire[x].path), security \in HandleOidc(wire[x].token) :
          LET w == wire[x]
              params == DecodeParams(leaf.args, IsEscaped(w.path), HeaderValue(w, op))
              body == DecodeRequest(w.ct, w.body)
              error == IF security.error \/ (security.user = {} /\ ~MayDoWithout(op)) THEN "Security"
                       ELSE IF params = {} THEN "DecodeParams"
                       ELSE body.error
          IN  /\ leaf.op = op /\ leaf.method = w.method
              /\ IF error # "none"
                 THEN Write(x, DefaultErrorHandler(error)) /\ UNCHANGED job
                 ELSE /\ pc' = [pc EXCEPT ![x] = "running"]
                      /\ job' = [job EXCEPT ![x] =
                            [op |-> op, user |-> security.user, params |-> The(params),
                             request |-> body.request]]
                      /\ UNCHANGED answer
    /\ UNCHANGED <<process, asking, result, carried>>

NoParams == NoField
decodeNoParams(args, escaped, header) == {NoParams}
decodeNoRequest(ct, body) == [request |-> {}, error |-> "none"]

handleGetMyCatalogsRequest(x) ==
    Handle(x, "getMyCatalogs", decodeNoParams, decodeNoRequest)
handleGetMyPackageRequest(x) ==
    Handle(x, "getMyPackage", decodeGetMyPackageParams, decodeNoRequest)
handleGetPackageSchemaRequest(x) ==
    Handle(x, "getPackageSchema", decodeGetPackageSchemaParams, decodeNoRequest)
handleInstallServiceRequest(x) ==
    Handle(x, "installService", decodeInstallServiceParams, decodeInstallServiceRequest)
handleWatchReleaseRequest(x) ==
    Handle(x, "watchRelease", decodeWatchReleaseParams, decodeNoRequest)
handleWatchResourcesRequest(x) ==
    Handle(x, "watchResources", decodeWatchResourcesParams, decodeNoRequest)

-----------------------------------------------------------------------------
(* The controllers and the handlers' ends.                                 *)

NoResult == [response |-> {}, error |-> "none"]

CarryOut(x, r) ==
    /\ pc' = [pc EXCEPT ![x] = "responding"]
    /\ result' = [result EXCEPT ![x] = r]
    /\ carried' = [carried EXCEPT ![x] =
          [deed |-> job[x],
           response |-> IF r.error = "none" THEN {AsRead(s) : s \in r.response} ELSE {}]]
    /\ UNCHANGED <<process, asking, job, answer>>

Running(x, op) == pc[x] = "running" /\ job[x].op = op

(* The positions of n elements of a list, in its order.                    *)
Selections(n, list) ==
    {at \in [1..n -> DOMAIN list] : \A i, j \in 1..n : i < j => at[i] < at[j]}

(* Which catalogs the user may see is for the use case to say.             *)
runGetMyCatalogs(x) ==
    /\ Running(x, "getMyCatalogs")
    /\ \/ CarryOut(x, GetMyCatalogs({}))
       \/ \E n \in 0..Len(env.catalogs), packages \in PackageLists :
             \E at \in Selections(n, env.catalogs) :
                CarryOut(x, GetMyCatalogs({buildCatalogs(
                   [i \in 1..n |-> env.catalogs[at[i]]], packages)}))

runGetMyPackage(x) ==
    /\ Running(x, "getMyPackage")
    /\ \/ \E error \in {"NotFound", "other"} : CarryOut(x, GetMyPackage({}, error))
       \/ \E p \in Details : CarryOut(x, GetMyPackage({p}, "none"))

runGetPackageSchema(x) ==
    /\ Running(x, "getPackageSchema")
    /\ \/ CarryOut(x, GetPackageSchema({}))
       \/ \E raw \in Schemas : CarryOut(x, GetPackageSchema({raw}))

runInstallService(x) ==
    /\ Running(x, "installService")
    /\ \E error \in StartErrors :
          CarryOut(x, InstallService(job[x].user, The(job[x].request), error))

runWatch(x) ==
    \/ Running(x, "watchRelease") /\ CarryOut(x, WatchRelease)
    \/ Running(x, "watchResources") /\ CarryOut(x, WatchResources)

(* A handler panics, and the middleware answers.                           *)
Panic(x) ==
    /\ pc[x] = "running"
    /\ Write(x, Recoverer)
    /\ carried' = [carried EXCEPT ![x] = [deed |-> job[x], response |-> {}]]
    /\ UNCHANGED <<process, asking, job, result>>

Encoded(op, r) ==
    CASE op = "getMyCatalogs"    -> encodeGetMyCatalogsResponse(r)
      [] op = "getMyPackage"     -> encodeGetMyPackageResponse(r)
      [] op = "getPackageSchema" -> encodeGetPackageSchemaResponse(r)
      [] op = "installService"   -> encodeInstallServiceResponse(r)
      [] op = "watchRelease"     -> encodeWatchReleaseResponse(r)
      [] OTHER                   -> encodeWatchResourcesResponse(r)

(* Mutant: an error is not answered.                                       *)
RespondToSuccess(x) ==
    /\ pc[x] = "responding" /\ result[x].error = "none"
    /\ Write(x, Encoded(job[x].op, The(result[x].response)))
    /\ UNCHANGED <<process, asking, job, result, carried>>

(* An error decides, whatever the response that came with it.              *)
Respond(x) ==
    /\ pc[x] = "responding"
    /\ Write(x, IF result[x].error # "none" THEN DefaultErrorHandler(result[x].error)
                ELSE Encoded(job[x].op, The(result[x].response)))
    /\ UNCHANGED <<process, asking, job, result, carried>>

-----------------------------------------------------------------------------

Init ==
    /\ source \in Sources
    /\ phase = "starting"
    /\ config = {}
    /\ ask = [x \in Exchanges |-> NoAsk]
    /\ client = [x \in Exchanges |-> "idle"]
    /\ wire = [x \in Exchanges |-> NoWire]
    /\ pc = [x \in Exchanges |-> "none"]
    /\ job = [x \in Exchanges |-> None]
    /\ result = [x \in Exchanges |-> NoResult]
    /\ answer = [x \in Exchanges |-> None]
    /\ heard = [x \in Exchanges |-> NotHeard]
    /\ carried = [x \in Exchanges |-> None]

SendCall(x, a) ==
    \/ sendGetMyCatalogs(x, a)
    \/ sendGetMyPackage(x, a)
    \/ sendGetPackageSchema(x, a)
    \/ sendInstallService(x, a)
    \/ sendWatchRelease(x, a)
    \/ sendWatchResources(x, a)

Serve(x) ==
    \/ ServeHTTP(x)
    \/ handleGetMyCatalogsRequest(x)
    \/ handleGetMyPackageRequest(x)
    \/ handleGetPackageSchemaRequest(x)
    \/ handleInstallServiceRequest(x)
    \/ handleWatchReleaseRequest(x)
    \/ handleWatchResourcesRequest(x)
    \/ runGetMyCatalogs(x)
    \/ runGetMyPackage(x)
    \/ runGetPackageSchema(x)
    \/ runInstallService(x)
    \/ runWatch(x)
    \/ Respond(x)

Next ==
    \/ LoadEnv \/ Ping \/ Setup \/ Exit
    \/ \E x \in Exchanges :
          \/ \E a \in Asks[x] : SendCall(x, a)
          \/ \E a \in Raws[x] : SendRaw(x, a)
          \/ Serve(x)
          \/ Panic(x)
          \/ Hear(x)
          \/ Lose(x)

Spec == Init /\ [][Next]_vars

(* The scheduler runs handlers and clients, use cases return (Catalogs,    *)
(* InstallService), and a client learns that the server has gone.          *)
FairSpec ==
    /\ Spec
    /\ \A x \in Exchanges :
          /\ WF_vars(Serve(x))
          /\ WF_vars(Hear(x) \/ (pc[x] = "dead" /\ Lose(x)))
-----------------------------------------------------------------------------
(* Properties.                                                             *)

TypeOK ==
    /\ source \in Sources
    /\ phase \in {"starting", "connecting", "wiring", "serving", "exited"}
    /\ \A x \in Exchanges :
          /\ client[x] \in {"idle", "waiting", "returned"}
          /\ pc[x] \in {"none", "arrived", "running", "responding", "answered", "dead"}
          /\ pc[x] = "none" <=> wire[x] = NoWire
          /\ pc[x] \in {"arrived", "running", "responding"} => phase = "serving"
          /\ pc[x] = "running" => job[x].op \in Operations
          /\ Cardinality(heard[x].response) <= 1

(* ApiContract, of any number of calls at once: a controller is called at  *)
(* most once for a call, with the parameters and the body its client was   *)
(* given, for the owner of its token or for Anonymous, or for nobody when  *)
(* the operation may do without; what the client's call returns is the     *)
(* controller's whole response or an error.                                *)
Askers(a) ==
    {{u} : u \in {Anonymous} \cup UNION {Owner[t] : t \in a.token}}
    \cup (IF MayDoWithout(a.op) /\ a.token = {} THEN {{}} ELSE {})
Deeds(a) ==
    IF a.op = "raw" THEN {}
    ELSE {[op |-> a.op, user |-> u, params |-> a.params,
           request |-> {[r EXCEPT !.share = OrFalse(@)] : r \in a.request}] : u \in Askers(a)}

Contract == INSTANCE ApiContract WITH
    Asks <- UNION {Asks[x] \cup Raws[x] : x \in Exchanges},
    asked <- ask,
    told <- [x \in Exchanges |->
                [over |-> client[x] = "returned", response |-> heard[x].response]]

ImplementsContract == Contract!Spec

(* A controller's response that is no error reaches a client that waits for*)
(* it: whatever the configuration that passed validation says, the answer  *)
(* is one the client accepts.                                              *)
AcceptedIsHeard ==
    \A x \in Exchanges :
        /\ client[x] = "returned" /\ ask[x].op # "raw"
        /\ carried[x] # None /\ carried[x].response # {}
        /\ heard[x].error \notin {"SendRequest", "CORS"}
        => heard[x].response = carried[x].response

(* Encoders and decoders agree on each response of the API, those that no  *)
(* controller gives yet included: a process that serves can be understood. *)
CodecsAgree ==
    \A op \in Operations : \A r \in Readable[op] :
        Read(op, Encoded(op, r)) = [response |-> {AsRead(r)}, error |-> "none"]
EveryResponseIsRead == phase = "serving" => CodecsAgree

(* A call with nothing missing and a release id of the pattern gets to its *)
(* operation, whatever has to be escaped in its path; without, it never is *)
(* carried out.  Installations of a release that has the name of another   *)
(* branch of the router are left to AnsweredAsDeclared.                    *)
Complete(params) ==
    /\ \A f \in InPath \cap DOMAIN params : params[f] # ""
    /\ "releaseId" \in DOMAIN params => params.releaseId \in ReleaseIds
BranchName(a) == a.op = "installService" /\ a.params.releaseId \in Reserved
CallsArrive ==
    \A x \in Exchanges :
        pc[x] = "answered" /\ ask[x].op # "raw" =>
        /\ Complete(ask[x].params) /\ ~BranchName(ask[x])
              => answer[x] # notFound /\ answer[x].status \notin {400, 405, 415}
        /\ ~Complete(ask[x].params) => carried[x] = None

(* openapi.yaml declares the responses to each call that it allows, the    *)
(* listing without a token among them, and that a failure is answered with *)
(* a Problem: whatever a server answers to such a call, the client can read*)
(* it.  The code does not do so: ServicesApiDeclared shows where.          *)
AnsweredAsDeclared ==
    \A x \in Exchanges :
        pc[x] = "answered" /\ ask[x].op # "raw" /\ Complete(ask[x].params)
        => Read(ask[x].op, answer[x]).response # {}

(* What the process goes by, for a setting without catalogs: environment,  *)
(* else a file that could be read, else the defaults.                      *)
Written(sources, k) ==
    UNION {{f[w] : w \in {v \in DOMAIN f : Lower[v] = k}} : f \in sources}
InForce(k) ==
    IF EnvName[k] \in DOMAIN source.env THEN {Text(source.env[EnvName[k]])}
    ELSE IF Written(source.files, k) # {} THEN Written(source.files, k)
    ELSE Written({source.defaults}, k)

(* A call is carried out for Anonymous exactly when the configuration says *)
(* "none", and otherwise for the owner of its token; for nobody only a     *)
(* listing that came without a token, never one whose token is refused.    *)
ActsAsOwner ==
    \A x \in Exchanges :
        carried[x] # None =>
        LET deed == carried[x].deed IN
        /\ deed.user = IF InForce("authenticationmode") = {Text("none")} THEN {Anonymous}
                       ELSE UNION {Owner[t] : t \in wire[x].token}
        /\ deed.user = {} => MayDoWithout(deed.op) /\ wire[x].token = {}

(* A page of another origin cannot install, wherever it is from, nor name a*)
(* project or the last event it has seen, nor use a token that needs a     *)
(* proof, though openapi.yaml asks for one; what else it asks is heard only*)
(* if a source in force has its origin, a pattern for it, "*" or no origin.*)
OtherOriginsOnlyRead ==
    \A x \in Exchanges :
        ask[x] # NoAsk /\ ask[x].op # "raw" /\ ask[x].origin # {} =>
        /\ carried[x] # None =>
              /\ carried[x].deed.op # "installService" /\ wire[x].header = {}
              /\ wire[x].token \cap Bound = {}
        /\ heard[x].response # {} =>
              \E s \in InForce("security::corsallowedorigins") :
                  Admits(Origins(s), The(ask[x].origin))

(* A catalog is listed with the texts it is configured with, each under its*)
(* language in lower case: a client that looks for zh-CN finds none.       *)
ConfiguredText(texts, m) ==
    /\ DOMAIN m = {Lower[w] : w \in DOMAIN texts}
    /\ \A l \in DOMAIN m : \E w \in DOMAIN texts : Lower[w] = l /\ texts[w] = m[l]
ListedAsConfigured ==
    \A x \in Exchanges : \A r \in heard[x].response :
        r.type = "GetMyCatalogsOKApplicationJSON" =>
        \A i \in DOMAIN r.value : \E s \in InForce("catalogs") :
            \E k \in DOMAIN s.catalogs :
                LET c == s.catalogs[k] IN
                /\ c.id = r.value[i].id
                /\ \E m \in r.value[i].name.localized : ConfiguredText(c.name, m)
                /\ r.value[i].description = {} <=> DOMAIN c.description = {}

(* Who asks gets a result or an error, also when the process exits.        *)
EveryCallReturns ==
    \A x \in Exchanges : client[x] = "waiting" ~> client[x] = "returned"
=============================================================================
