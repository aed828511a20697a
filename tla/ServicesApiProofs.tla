-------------------------- MODULE ServicesApiProofs --------------------------
(***************************************************************************)
(* Proofs about ServicesApi, for any number of calls, any configuration and*)
(* any requests: where a call is in its course, whom it acts for, what a   *)
(* page of another origin can do and which of their responses are heard.   *)
(***************************************************************************)
EXTENDS ServicesApi, ServicesHttpProofs, FiniteSetTheorems

-----------------------------------------------------------------------------
(* What a client reads is a response or an error: a problem only from the  *)
(* media type of problems, a success only from its own.                    *)

Reads1(h, type) == h.response = {} \/ \E v : h.response = {Response(type, v)}

LEMMA ReadProblemGives ==
    ASSUME NEW a, NEW type
    PROVE  /\ Reads1(ReadProblem(a, type), type)
           /\ a.ct # ProblemType => ReadProblem(a, type).response = {}
<1>1. PICK d : d = DecodeProblem(a.body)
  OBVIOUS
<1>2. \/ ReadProblem(a, type) \in {Failed("InvalidContentType"), Failed("DecodeBody")}
      \/ a.ct = ProblemType /\ ReadProblem(a, type) = Heard(type, The(d))
  BY <1>1 DEF ReadProblem, Reading, Anything
<1> QED BY <1>2 DEF Failed, Heard, Reads1

(* What an operation's decoder makes of an answer.                         *)
DecoderGives(h, a, ct, success, problems) ==
    \/ h.response = {}
    \/ a.ct = ct /\ a.status \in {200, 202} /\ Reads1(h, success)
    \/ a.ct = ProblemType /\ \E t \in problems : Reads1(h, t)

LEMMA DecodeGetMyCatalogsGives ==
    ASSUME NEW a
    PROVE  DecoderGives(decodeGetMyCatalogsResponse(a), a, JsonType, "GetMyCatalogsOKApplicationJSON",
              {"Problem"})
<1>1. CASE a.status = 200
  <2>1. decodeGetMyCatalogsResponse(a) =
           Reading(a, JsonType, "GetMyCatalogsOKApplicationJSON", DecodeGetMyCatalogsOK(a.body),
                   ValidateGetMyCatalogsOK)
    BY <1>1 DEF decodeGetMyCatalogsResponse
  <2>2. PICK d : d = DecodeGetMyCatalogsOK(a.body)
    OBVIOUS
  <2>3. \/ decodeGetMyCatalogsResponse(a) \in {Failed("InvalidContentType"), Failed("DecodeBody"),
                                                Failed("Validate")}
        \/ a.ct = JsonType /\ decodeGetMyCatalogsResponse(a) = Heard("GetMyCatalogsOKApplicationJSON", The(d))
    BY <2>1, <2>2, Zenon DEF Reading, Anything
  <2> QED BY <1>1, <2>3 DEF DecoderGives, Reads1, Failed, Heard
<1>2. CASE a.status # 200
  <2>1. decodeGetMyCatalogsResponse(a) \in {UnexpectedStatusCode} \cup
           {ReadProblem(a, "Problem")}
    BY <1>2, Zenon DEF decodeGetMyCatalogsResponse
  <2> QED BY <2>1, ReadProblemGives DEF DecoderGives, UnexpectedStatusCode, Failed
<1> QED BY <1>1, <1>2

LEMMA DecodeGetMyPackageGives ==
    ASSUME NEW a
    PROVE  DecoderGives(decodeGetMyPackageResponse(a), a, JsonType, "DetailedPackage",
              {"GetMyPackageNotFound", "GetMyPackageInternalServerError"})
<1>1. CASE a.status = 200
  <2>1. decodeGetMyPackageResponse(a) =
           Reading(a, JsonType, "DetailedPackage", DecodeDetailedPackage(a.body),
                   ValidateDetailedPackage)
    BY <1>1 DEF decodeGetMyPackageResponse
  <2>2. PICK d : d = DecodeDetailedPackage(a.body)
    OBVIOUS
  <2>3. \/ decodeGetMyPackageResponse(a) \in {Failed("InvalidContentType"), Failed("DecodeBody"),
                                                Failed("Validate")}
        \/ a.ct = JsonType /\ decodeGetMyPackageResponse(a) = Heard("DetailedPackage", The(d))
    BY <2>1, <2>2, Zenon DEF Reading, Anything
  <2> QED BY <1>1, <2>3 DEF DecoderGives, Reads1, Failed, Heard
<1>2. CASE a.status # 200
  <2>1. decodeGetMyPackageResponse(a) \in {UnexpectedStatusCode} \cup
           {ReadProblem(a, "GetMyPackageNotFound"), ReadProblem(a, "GetMyPackageInternalServerError")}
    BY <1>2, Zenon DEF decodeGetMyPackageResponse
  <2> QED BY <2>1, ReadProblemGives DEF DecoderGives, UnexpectedStatusCode, Failed
<1> QED BY <1>1, <1>2

LEMMA DecodeGetPackageSchemaGives ==
    ASSUME NEW a
    PROVE  DecoderGives(decodeGetPackageSchemaResponse(a), a, JsonType, "GetPackageSchemaOK",
              {"GetPackageSchemaBadRequest", "GetPackageSchemaInternalServerError"})
<1>1. CASE a.status = 200
  <2>1. decodeGetPackageSchemaResponse(a) =
           Reading(a, JsonType, "GetPackageSchemaOK", DecodeGetPackageSchemaOK(a.body),
                   Anything)
    BY <1>1 DEF decodeGetPackageSchemaResponse
  <2>2. PICK d : d = DecodeGetPackageSchemaOK(a.body)
    OBVIOUS
  <2>3. \/ decodeGetPackageSchemaResponse(a) \in {Failed("InvalidContentType"), Failed("DecodeBody"),
                                                Failed("Validate")}
        \/ a.ct = JsonType /\ decodeGetPackageSchemaResponse(a) = Heard("GetPackageSchemaOK", The(d))
    BY <2>1, <2>2, Zenon DEF Reading, Anything
  <2> QED BY <1>1, <2>3 DEF DecoderGives, Reads1, Failed, Heard
<1>2. CASE a.status # 200
  <2>1. decodeGetPackageSchemaResponse(a) \in {UnexpectedStatusCode} \cup
           {ReadProblem(a, "GetPackageSchemaBadRequest"), ReadProblem(a, "GetPackageSchemaInternalServerError")}
    BY <1>2, Zenon DEF decodeGetPackageSchemaResponse
  <2> QED BY <2>1, ReadProblemGives DEF DecoderGives, UnexpectedStatusCode, Failed
<1> QED BY <1>1, <1>2

LEMMA DecodeInstallServiceGives ==
    ASSUME NEW a
    PROVE  DecoderGives(decodeInstallServiceResponse(a), a, JsonType, "InstallAcceptedHeaders",
              {"InstallServiceBadRequest", "InstallServiceUnauthorized", "InstallServiceForbidden", "InstallServiceConflict", "InstallServiceInternalServerError"})
<1>1. CASE a.status = 202
  <2>1. decodeInstallServiceResponse(a) =
           Reading(a, JsonType, "InstallAcceptedHeaders", InstallAcceptedHeaders(a),
                   Anything)
    BY <1>1 DEF decodeInstallServiceResponse
  <2>2. PICK d : d = InstallAcceptedHeaders(a)
    OBVIOUS
  <2>3. \/ decodeInstallServiceResponse(a) \in {Failed("InvalidContentType"), Failed("DecodeBody"),
                                                Failed("Validate")}
        \/ a.ct = JsonType /\ decodeInstallServiceResponse(a) = Heard("InstallAcceptedHeaders", The(d))
    BY <2>1, <2>2, Zenon DEF Reading, Anything
  <2> QED BY <1>1, <2>3 DEF DecoderGives, Reads1, Failed, Heard
<1>2. CASE a.status # 202
  <2>1. decodeInstallServiceResponse(a) \in {UnexpectedStatusCode} \cup
           {ReadProblem(a, "InstallServiceBadRequest"), ReadProblem(a, "InstallServiceUnauthorized"), ReadProblem(a, "InstallServiceForbidden"), ReadProblem(a, "InstallServiceConflict"), ReadProblem(a, "InstallServiceInternalServerError")}
    BY <1>2 DEF decodeInstallServiceResponse
  <2> QED BY <2>1, ReadProblemGives DEF DecoderGives, UnexpectedStatusCode, Failed
<1> QED BY <1>1, <1>2

LEMMA DecodeWatchReleaseGives ==
    ASSUME NEW a
    PROVE  DecoderGives(decodeWatchReleaseResponse(a), a, EventStream, "WatchReleaseOKHeaders",
              {"WatchReleaseUnauthorized", "WatchReleaseForbidden", "WatchReleaseNotFound"})
<1>1. CASE a.status = 200
  <2>1. decodeWatchReleaseResponse(a) =
           Reading(a, EventStream, "WatchReleaseOKHeaders", WatchOKHeaders(a),
                   Anything)
    BY <1>1 DEF decodeWatchReleaseResponse
  <2>2. PICK d : d = WatchOKHeaders(a)
    OBVIOUS
  <2>3. \/ decodeWatchReleaseResponse(a) \in {Failed("InvalidContentType"), Failed("DecodeBody"),
                                                Failed("Validate")}
        \/ a.ct = EventStream /\ decodeWatchReleaseResponse(a) = Heard("WatchReleaseOKHeaders", The(d))
    BY <2>1, <2>2, Zenon DEF Reading, Anything
  <2> QED BY <1>1, <2>3 DEF DecoderGives, Reads1, Failed, Heard
<1>2. CASE a.status # 200
  <2>1. decodeWatchReleaseResponse(a) \in {UnexpectedStatusCode} \cup
           {ReadProblem(a, "WatchReleaseUnauthorized"), ReadProblem(a, "WatchReleaseForbidden"), ReadProblem(a, "WatchReleaseNotFound")}
    BY <1>2, Zenon DEF decodeWatchReleaseResponse
  <2> QED BY <2>1, ReadProblemGives DEF DecoderGives, UnexpectedStatusCode, Failed
<1> QED BY <1>1, <1>2

LEMMA DecodeWatchResourcesGives ==
    ASSUME NEW a
    PROVE  DecoderGives(decodeWatchResourcesResponse(a), a, EventStream, "WatchResourcesOKHeaders",
              {"WatchResourcesUnauthorized", "WatchResourcesForbidden", "WatchResourcesNotFound"})
<1>1. CASE a.status = 200
  <2>1. decodeWatchResourcesResponse(a) =
           Reading(a, EventStream, "WatchResourcesOKHeaders", WatchOKHeaders(a),
                   Anything)
    BY <1>1 DEF decodeWatchResourcesResponse
  <2>2. PICK d : d = WatchOKHeaders(a)
    OBVIOUS
  <2>3. \/ decodeWatchResourcesResponse(a) \in {Failed("InvalidContentType"), Failed("DecodeBody"),
                                                Failed("Validate")}
        \/ a.ct = EventStream /\ decodeWatchResourcesResponse(a) = Heard("WatchResourcesOKHeaders", The(d))
    BY <2>1, <2>2, Zenon DEF Reading, Anything
  <2> QED BY <1>1, <2>3 DEF DecoderGives, Reads1, Failed, Heard
<1>2. CASE a.status # 200
  <2>1. decodeWatchResourcesResponse(a) \in {UnexpectedStatusCode} \cup
           {ReadProblem(a, "WatchResourcesUnauthorized"), ReadProblem(a, "WatchResourcesForbidden"), ReadProblem(a, "WatchResourcesNotFound")}
    BY <1>2, Zenon DEF decodeWatchResourcesResponse
  <2> QED BY <2>1, ReadProblemGives DEF DecoderGives, UnexpectedStatusCode, Failed
<1> QED BY <1>1, <1>2

-----------------------------------------------------------------------------
(* Where a call is in its course.                                          *)

(* What a client sends for what it was asked to call.                      *)
SentFor(a, w) ==
    \/ a.op = "getMyCatalogs" /\ w = Get(a, <<"catalogs">>, {})
    \/ /\ a.op = "getMyPackage"
       /\ w = Get(a, <<"catalogs", PathEscape(a.params.catalogId), "packages",
                       PathEscape(a.params.packageName)>>, {})
    \/ /\ a.op = "getPackageSchema"
       /\ w = Get(a, <<"schemas", PathEscape(a.params.catalogId), "packageName",
                       PathEscape(a.params.packageName), "versions",
                       PathEscape(a.params.version)>>, {})
    \/ /\ a.op = "installService"
       /\ w = Request(a, "PUT", <<PathEscape(a.params.releaseId), "install">>,
                      Header(HeaderName(a.op), a.params.project), JsonType,
                      EncodeServiceInstallRequest(The(a.request)))
    \/ /\ a.op = "watchRelease"
       /\ w = Get(a, <<"events", PathEscape(a.params.releaseId), "watch-release">>,
                  Header(HeaderName(a.op), a.params.lastEventID))
    \/ /\ a.op = "watchResources"
       /\ w = Get(a, <<"events", PathEscape(a.params.releaseId), "watch-resources">>,
                  Header(HeaderName(a.op), a.params.lastEventID))

Sent(x) ==
    \/ /\ ask[x] \in Asks[x] /\ SentFor(ask[x], wire[x])
       /\ ~Blocked(wire[x], ask[x].origin)
    \/ ask[x] \in Raws[x] /\ wire[x] = ask[x].wire

(* What the server makes of the parameters and the body.                   *)
ParamsRead(op, args, escaped, header) ==
    IF op = "getMyCatalogs" THEN decodeNoParams(args, escaped, header)
    ELSE IF op = "getMyPackage" THEN decodeGetMyPackageParams(args, escaped, header)
    ELSE IF op = "getPackageSchema" THEN decodeGetPackageSchemaParams(args, escaped, header)
    ELSE IF op = "installService" THEN decodeInstallServiceParams(args, escaped, header)
    ELSE IF op = "watchRelease" THEN decodeWatchReleaseParams(args, escaped, header)
    ELSE decodeWatchResourcesParams(args, escaped, header)

ParamsAt(leaf, w) ==
    ParamsRead(leaf.op, leaf.args, IsEscaped(w.path), HeaderValue(w, leaf.op))

RequestRead(op, w) ==
    IF op = "installService" THEN decodeInstallServiceRequest(w.ct, w.body)
    ELSE decodeNoRequest(w.ct, w.body)

(* The job that the request w is, at a leaf of the router.                 *)
JobAt(leaf, w, j) ==
    /\ leaf \in Route(w.path) /\ leaf.method = w.method /\ j.op = leaf.op
    /\ HasFields(j, {"op", "user", "params", "request"})
    /\ \E s \in HandleOidc(w.token) :
          ~s.error /\ j.user = s.user /\ (s.user = {} => MayDoWithout(leaf.op))
    /\ ParamsAt(leaf, w) # {} /\ j.params = The(ParamsAt(leaf, w))
    /\ RequestRead(leaf.op, w).error = "none" /\ j.request = RequestRead(leaf.op, w).request

Taken(x) == \E leaf \in Route(wire[x].path) : JobAt(leaf, wire[x], job[x])

(* The error a request is refused with at a leaf.                          *)
RefusedAt(leaf, w, e) ==
    /\ leaf \in Route(w.path) /\ leaf.method = w.method
    /\ \/ e = "Security"
       \/ e = "DecodeParams" /\ ParamsAt(leaf, w) = {}
       \/ e \in {"DecodeRequest", "ContentType"} /\ e = RequestRead(leaf.op, w).error

(* What a controller gives: an error, or the response of its operation.    *)
SuccessOf(op, type) ==
    \/ op = "getMyCatalogs" /\ type = "GetMyCatalogsOKApplicationJSON"
    \/ op = "getMyPackage" /\ type \in {"DetailedPackage", "GetMyPackageNotFound"}
    \/ op = "getPackageSchema" /\ type = "GetPackageSchemaOK"
    \/ op = "installService" /\ type = "InstallAcceptedHeaders"

Given(op, r) ==
    \/ /\ r.error \in {"Internal", "NotImplemented"}
       /\ \A s \in r.response : s.type # "GetMyPackageNotFound"
    \/ /\ r.error = "none"
       /\ \E s \in r.response : r.response = {s} /\ SuccessOf(op, s.type)

(* How a call was answered: by the router, by the handler before or instead*)
(* of a controller, or with what a controller gave.                        *)
AnsweredByRouter(x) ==
    /\ result[x] = NoResult
    /\ \/ Route(wire[x].path) = {} /\ answer[x] = notFound
       \/ \E leaf \in Route(wire[x].path) :
             leaf.method # wire[x].method /\ answer[x] = notAllowed(wire[x].method)

AnsweredByHandler(x) ==
    /\ result[x] = NoResult
    /\ \/ \E leaf \in Route(wire[x].path),
             e \in {"Security", "DecodeParams", "DecodeRequest", "ContentType"} :
             RefusedAt(leaf, wire[x], e) /\ answer[x] = DefaultErrorHandler(e)
       \/ Taken(x) /\ answer[x] = Recoverer

AnsweredByController(x) ==
    /\ Taken(x) /\ Given(job[x].op, result[x])
    /\ \/ result[x].error # "none" /\ answer[x] = DefaultErrorHandler(result[x].error)
       \/ result[x].error = "none" /\ answer[x] = Encoded(job[x].op, The(result[x].response))

(* What a call's variables say of each other.                              *)
Idle(x) == pc[x] = "none" => wire[x] = NoWire
Asked(x) ==
    pc[x] # "none" => config # {} /\ Sent(x) /\ client[x] # "idle"
Serving(x) ==
    /\ pc[x] \in {"none", "arrived", "running"} => result[x] = NoResult
    /\ pc[x] \in {"running", "responding"} => Taken(x)
    /\ pc[x] = "responding" => Given(job[x].op, result[x])
Answered(x) ==
    pc[x] = "answered" =>
        AnsweredByRouter(x) \/ AnsweredByHandler(x) \/ AnsweredByController(x)
Carried(x) ==
    carried[x] # None =>
        /\ pc[x] \in {"responding", "answered", "dead"}
        /\ Taken(x) /\ carried[x].deed = job[x]
HeardOf(x) ==
    heard[x].response # {} =>
        /\ pc[x] = "answered" /\ ask[x] \in Asks[x]
        /\ \A o \in ask[x].origin : AllowedOrigin(o)
        /\ heard[x] = Read(ask[x].op, answer[x])

Course(x) ==
    /\ client[x] \in {"idle", "waiting", "returned"}
    /\ pc[x] \in {"none", "arrived", "running", "responding", "answered", "dead"}
    /\ Idle(x) /\ Asked(x) /\ Serving(x) /\ Answered(x) /\ Carried(x) /\ HeardOf(x)

(* What the process goes by is loaded once, and before any call.           *)
Process ==
    /\ source \in Sources
    /\ phase \in {"starting", "connecting", "wiring", "serving", "exited"}
    /\ phase = "starting" => config = {}
    /\ phase \in {"connecting", "wiring", "serving"} => config # {}
    /\ config # {} => config \in New(source.defaults, source.files, source.env)

Shape ==
    /\ DOMAIN ask = Exchanges /\ DOMAIN client = Exchanges /\ DOMAIN wire = Exchanges
    /\ DOMAIN pc = Exchanges /\ DOMAIN job = Exchanges /\ DOMAIN result = Exchanges
    /\ DOMAIN answer = Exchanges /\ DOMAIN heard = Exchanges /\ DOMAIN carried = Exchanges

IInv ==
    /\ Shape
    /\ Process
    /\ \A x \in Exchanges :
          /\ Course(x)
          /\ pc[x] \in {"arrived", "running", "responding"} => phase = "serving"

-----------------------------------------------------------------------------
(* What a step leaves alone keeps its course.                              *)

RequestSame(x) == ask'[x] = ask[x] /\ wire'[x] = wire[x] /\ config' = config
SameAt(x) ==
    /\ RequestSame(x)
    /\ client'[x] = client[x] /\ pc'[x] = pc[x] /\ job'[x] = job[x] /\ result'[x] = result[x]
    /\ answer'[x] = answer[x] /\ heard'[x] = heard[x] /\ carried'[x] = carried[x]

LEMMA SentKeeps ==
    ASSUME NEW x, RequestSame(x)
    PROVE  Sent(x) <=> Sent(x)'
BY DEF RequestSame, Sent, Blocked, AllowedOrigin, Admits, env

LEMMA TakenKeeps ==
    ASSUME NEW x, RequestSame(x), job'[x] = job[x]
    PROVE  Taken(x) <=> Taken(x)'
<1>1. \A t : HandleOidc(t) = HandleOidc(t)'
  BY DEF RequestSame, HandleOidc, env
<1> QED BY <1>1 DEF RequestSame, Taken, JobAt

LEMMA OriginsKeep ==
    ASSUME NEW o, config' = config
    PROVE  AllowedOrigin(o) <=> AllowedOrigin(o)'
BY DEF AllowedOrigin, Admits, env

LEMMA AnsweredKeeps ==
    ASSUME NEW x, RequestSame(x), job'[x] = job[x], pc'[x] = pc[x], result'[x] = result[x],
           answer'[x] = answer[x], Answered(x)
    PROVE  Answered(x)'
<1>1. Taken(x) <=> Taken(x)'
  BY TakenKeeps
<1>2. AnsweredByRouter(x) => AnsweredByRouter(x)'
  BY DEF RequestSame, AnsweredByRouter
<1>3. AnsweredByHandler(x) => AnsweredByHandler(x)'
  BY <1>1 DEF RequestSame, AnsweredByHandler
<1>4. AnsweredByController(x) => AnsweredByController(x)'
  BY <1>1 DEF RequestSame, AnsweredByController
<1> QED BY <1>2, <1>3, <1>4 DEF Answered

LEMMA HeardKeeps ==
    ASSUME NEW x, ask'[x] = ask[x], config' = config, pc'[x] = pc[x], answer'[x] = answer[x],
           heard'[x] = heard[x], HeardOf(x)
    PROVE  HeardOf(x)'
BY OriginsKeep DEF HeardOf

LEMMA CourseKeeps ==
    ASSUME NEW x, SameAt(x), Course(x)
    PROVE  Course(x)'
<1>1. /\ Sent(x) <=> Sent(x)'
      /\ Taken(x) <=> Taken(x)'
  BY SentKeeps, TakenKeeps DEF SameAt
<1>2. Answered(x)' /\ HeardOf(x)'
  BY AnsweredKeeps, HeardKeeps DEF Course, SameAt, RequestSame
<1> QED BY <1>1, <1>2 DEF Course, SameAt, RequestSame, Idle, Asked, Serving, Carried

(* A step of one exchange.                                                 *)
LEMMA OneMoves ==
    ASSUME IInv, NEW x \in Exchanges, UNCHANGED process,
           Shape', \A y \in Exchanges \ {x} : SameAt(y),
           Course(x)', pc'[x] \in {"arrived", "running", "responding"} => phase = "serving"
    PROVE  IInv'
<1>1. Process'
  BY DEF IInv, Process, process
<1>2. ASSUME NEW y \in Exchanges, y # x
      PROVE  Course(y)' /\ pc'[y] = pc[y]
  BY <1>2, CourseKeeps DEF IInv, SameAt
<1> QED BY <1>1, <1>2 DEF IInv, process

-----------------------------------------------------------------------------
(* The client's steps.                                                     *)

LEMMA NotAskedYet ==
    ASSUME IInv, NEW x \in Exchanges, ask[x] = NoAsk
    PROVE  pc[x] = "none" /\ carried[x] = None /\ heard[x].response = {}
<1>1. Course(x)
  BY DEF IInv
<1>2. pc[x] = "none"
  BY <1>1, AsksAssumption DEF Course, Asked, Sent
<1> QED BY <1>1, <1>2 DEF Course, Carried, HeardOf

LEMMA SendMoves ==
    ASSUME IInv, NEW x \in Exchanges, NEW a, NEW w, NEW failure, Send(x, a, w, failure),
           failure = "none" =>
               /\ phase = "serving"
               /\ \/ a \in Asks[x] /\ SentFor(a, w) /\ ~Blocked(w, a.origin)
                  \/ a \in Raws[x] /\ w = a.wire
    PROVE  IInv'
<1>1. /\ pc[x] = "none" /\ carried[x] = None /\ heard[x].response = {}
      /\ Course(x)
  BY NotAskedYet DEF Send, IInv
<1>2. /\ UNCHANGED <<process, job, result, answer, carried>>
      /\ Shape'
      /\ \A y \in Exchanges \ {x} : SameAt(y)
  BY DEF Send, Return, SameAt, RequestSame, IInv, Shape, process
<1>3. CASE failure # "none"
  <2>1. /\ ask'[x] = a /\ client'[x] = "returned" /\ heard'[x] = Failed(failure)
        /\ UNCHANGED <<wire, pc>>
    BY <1>3 DEF Send, Return, IInv, Shape
  <2>2. Course(x)'
    BY <1>1, <1>2, <2>1 DEF Course, Idle, Asked, Serving, Answered, Carried, HeardOf, Failed
  <2> QED BY <1>1, <1>2, <2>1, <2>2, OneMoves
<1>4. CASE failure = "none"
  <2>1. /\ ask'[x] = a /\ client'[x] = "waiting" /\ wire'[x] = w /\ pc'[x] = "arrived"
        /\ heard' = heard
    BY <1>4 DEF Send, Return, IInv, Shape
  <2>2. config' = config /\ config # {} /\ phase = "serving"
    BY <1>2, <1>4 DEF IInv, Process, process
  <2>3. Blocked(w, a.origin)' <=> Blocked(w, a.origin)
    BY <2>2 DEF Blocked, AllowedOrigin, Admits, env
  <2>4. Sent(x)'
    BY <2>1, <2>3, <1>4 DEF Sent, Blocked, AllowedOrigin, Admits, env
  <2>5. Course(x)'
    BY <1>1, <1>2, <2>1, <2>2, <2>4 DEF Course, Idle, Asked, Serving, Answered, Carried, HeardOf
  <2> QED BY <1>2, <2>1, <2>2, <2>5, OneMoves
<1> QED BY <1>3, <1>4

LEMMA DoSends ==
    ASSUME NEW w, NEW origin, DoFailure(w, origin) = "none"
    PROVE  phase = "serving" /\ ~Blocked(w, origin)
BY DEF DoFailure

LEMMA CallMoves ==
    ASSUME IInv, NEW x \in Exchanges, NEW a \in Asks[x], SendCall(x, a)
    PROVE  IInv'
<1>1. PICK w : SentFor(a, w) /\ Call(x, a, w)
  BY DEF SendCall, SentFor, sendGetMyCatalogs, sendGetMyPackage, sendGetPackageSchema,
         sendInstallService, sendWatchRelease, sendWatchResources
<1>2. PICK failure : /\ Send(x, a, w, failure)
                     /\ failure = "none" => phase = "serving" /\ ~Blocked(w, a.origin)
  BY <1>1, DoSends DEF Call
<1> QED BY <1>1, <1>2, SendMoves

LEMMA RawMoves ==
    ASSUME IInv, NEW x \in Exchanges, NEW a \in Raws[x], SendRaw(x, a)
    PROVE  IInv'
<1>1. PICK failure : /\ Send(x, a, a.wire, failure)
                     /\ failure = "none" => phase = "serving"
  BY DoSends DEF SendRaw
<1> QED BY <1>1, SendMoves

LEMMA ReadsOfRaw ==
    ASSUME NEW a
    PROVE  Read("raw", a).response = {}
<1>1. Read("raw", a) = NotHeard
  BY Zenon DEF Read
<1> QED BY <1>1 DEF NotHeard

LEMMA ReturnMoves ==
    ASSUME IInv, NEW x \in Exchanges, NEW what, Return(x, what),
           UNCHANGED <<process, ask, wire, handling>>,
           client[x] = "waiting",
           what.response # {} =>
               /\ pc[x] = "answered" /\ ask[x] \in Asks[x]
               /\ \A o \in ask[x].origin : AllowedOrigin(o)
               /\ what = Read(ask[x].op, answer[x])
    PROVE  IInv'
<1>1. /\ client'[x] = "returned" /\ heard'[x] = what /\ Shape'
      /\ \A y \in Exchanges \ {x} : SameAt(y)
  BY DEF Return, SameAt, RequestSame, IInv, Shape, process, handling
<1>2. /\ RequestSame(x) /\ job'[x] = job[x] /\ pc'[x] = pc[x] /\ result'[x] = result[x]
      /\ answer'[x] = answer[x] /\ carried'[x] = carried[x]
  BY DEF RequestSame, process, handling
<1>3. /\ Sent(x) <=> Sent(x)'
      /\ Taken(x) <=> Taken(x)'
  BY <1>2, SentKeeps, TakenKeeps
<1>4. Course(x)
  BY DEF IInv
<1>5. Answered(x)'
  BY <1>2, <1>4, AnsweredKeeps DEF Course
<1>6. HeardOf(x)'
  BY <1>1, <1>2, OriginsKeep DEF HeardOf, RequestSame
<1>7. Course(x)'
  BY <1>1, <1>2, <1>3, <1>4, <1>5, <1>6 DEF Course, RequestSame, Idle, Asked, Serving, Carried
<1> QED BY <1>1, <1>2, <1>7, OneMoves DEF IInv

LEMMA HearMoves ==
    ASSUME IInv, NEW x \in Exchanges, Hear(x)
    PROVE  IInv'
<1>1. PICK what : /\ Return(x, what)
                  /\ what = IF ask[x].op # "raw" /\ \E o \in ask[x].origin : ~AllowedOrigin(o)
                            THEN Failed("CORS")
                            ELSE Read(ask[x].op, answer[x])
  BY DEF Hear
<1>2. CASE what = Failed("CORS")
  BY <1>1, <1>2, ReturnMoves DEF Hear, Failed
<1>3. CASE what # Failed("CORS")
  <2>1. what = Read(ask[x].op, answer[x])
    BY <1>1, <1>3
  <2>2. Sent(x)
    BY DEF IInv, Course, Asked, Hear
  <2>3. ask[x].op = "raw" => what.response = {}
    BY <2>1, ReadsOfRaw
  <2>4. ask[x] \in Raws[x] => ask[x].op = "raw"
    BY AsksAssumption
  <2>5. ask[x].op # "raw" => \A o \in ask[x].origin : AllowedOrigin(o)
    BY <1>1, <1>3
  <2> QED BY <1>1, <2>1, <2>2, <2>3, <2>4, <2>5, ReturnMoves DEF Hear, Sent
<1> QED BY <1>2, <1>3

LEMMA LoseMoves ==
    ASSUME IInv, NEW x \in Exchanges, Lose(x)
    PROVE  IInv'
<1>1. Failed("SendRequest").response = {}
  BY DEF Failed
<1> QED BY <1>1, ReturnMoves DEF Lose

-----------------------------------------------------------------------------
(* The server's steps.                                                     *)

(* A step of the server takes a call from one point of its course to the   *)
(* next, with the request as it is.                                        *)
Handled(x) ==
    /\ UNCHANGED <<process, asking>>
    /\ Shape'
    /\ \A y \in Exchanges \ {x} : SameAt(y)

LEMMA ServerMoves ==
    ASSUME IInv, NEW x \in Exchanges, Handled(x), phase = "serving",
           pc[x] # "none", pc[x] # "answered",
           pc'[x] \in {"running", "responding", "answered"},
           Serving(x)', Answered(x)', Carried(x)'
    PROVE  IInv'
<1>1. RequestSame(x) /\ client'[x] = client[x] /\ heard'[x] = heard[x]
  BY DEF Handled, RequestSame, process, asking
<1>2. Sent(x) <=> Sent(x)'
  BY <1>1, SentKeeps
<1>3. Course(x)'
  BY <1>1, <1>2 DEF IInv, Course, Idle, Asked, HeardOf, RequestSame
<1> QED BY <1>1, <1>3, OneMoves DEF Handled

LEMMA ServeHTTPMoves ==
    ASSUME IInv, NEW x \in Exchanges, ServeHTTP(x)
    PROVE  IInv'
<1>1. /\ Handled(x) /\ pc[x] = "arrived" /\ pc'[x] = "answered"
      /\ UNCHANGED <<wire, config, job, result, carried>>
  BY DEF ServeHTTP, Write, Handled, SameAt, RequestSame, IInv, Shape, process, asking
<1>2. Course(x) /\ phase = "serving"
  BY <1>1 DEF IInv
<1>3. \/ Route(wire[x].path) = {} /\ answer'[x] = notFound
      \/ \E leaf \in Route(wire[x].path) :
            leaf.method # wire[x].method /\ answer'[x] = notAllowed(wire[x].method)
  BY DEF ServeHTTP, Write, IInv, Shape
<1>4. AnsweredByRouter(x)'
  BY <1>1, <1>2, <1>3 DEF AnsweredByRouter, Course, Serving
<1> QED BY <1>1, <1>2, <1>4, ServerMoves DEF Course, Serving, Answered, Carried

(* Whatever the operation: a request is refused for a reason or taken.     *)
Taking(x) ==
    /\ pc[x] = "arrived"
    /\ UNCHANGED <<process, asking, result, carried>>
    /\ \E leaf \in Route(wire[x].path) :
          \/ /\ pc' = [pc EXCEPT ![x] = "answered"] /\ job' = job
             /\ \E e \in {"Security", "DecodeParams", "DecodeRequest", "ContentType"} :
                   /\ RefusedAt(leaf, wire[x], e)
                   /\ answer' = [answer EXCEPT ![x] = DefaultErrorHandler(e)]
          \/ /\ pc' = [pc EXCEPT ![x] = "running"] /\ answer' = answer
             /\ \E j : JobAt(leaf, wire[x], j) /\ job' = [job EXCEPT ![x] = j]

LEMMA TakingMoves ==
    ASSUME IInv, NEW x \in Exchanges, Taking(x)
    PROVE  IInv'
<1>1. /\ Handled(x) /\ pc[x] = "arrived" /\ UNCHANGED <<wire, config, result, carried>>
  BY DEF Taking, Handled, SameAt, RequestSame, IInv, Shape, process, asking
<1>2. Course(x) /\ phase = "serving"
  BY <1>1 DEF IInv
<1>3. PICK leaf \in Route(wire[x].path) :
          \/ /\ pc'[x] = "answered" /\ job' = job
             /\ \E e \in {"Security", "DecodeParams", "DecodeRequest", "ContentType"} :
                   RefusedAt(leaf, wire[x], e) /\ answer'[x] = DefaultErrorHandler(e)
          \/ pc'[x] = "running" /\ JobAt(leaf, wire[x], job'[x])
  BY DEF Taking, IInv, Shape
<1>4. \A t : HandleOidc(t) = HandleOidc(t)'
  BY <1>1 DEF HandleOidc, env
<1>5. CASE pc'[x] = "answered"
  <2>1. AnsweredByHandler(x)'
    BY <1>1, <1>2, <1>3, <1>5 DEF AnsweredByHandler, Course, Serving
  <2> QED BY <1>1, <1>2, <1>5, <2>1, ServerMoves DEF Course, Serving, Answered, Carried
<1>6. CASE pc'[x] = "running"
  <2>1. Taken(x)'
    BY <1>1, <1>3, <1>4, <1>6 DEF Taken, JobAt
  <2> QED BY <1>1, <1>2, <1>6, <2>1, ServerMoves DEF Course, Serving, Answered, Carried
<1> QED BY <1>3, <1>5, <1>6

(* The errors of the decoders of requests.                                 *)
LEMMA RequestErrors ==
    ASSUME NEW ct, NEW body
    PROVE  /\ decodeInstallServiceRequest(ct, body).error \in {"none", "DecodeRequest", "ContentType"}
           /\ decodeNoRequest(ct, body).error = "none"
BY DEF decodeInstallServiceRequest, decodeNoRequest, Undecoded, Decoded

(* A handler's request is refused for a reason, or it is a job.            *)
HandlerError(s, op, params, body) ==
    IF s.error \/ (s.user = {} /\ ~MayDoWithout(op)) THEN "Security"
    ELSE IF params = {} THEN "DecodeParams"
    ELSE body.error

LEMMA HandlerErrors ==
    ASSUME NEW s, NEW op, NEW params, NEW body, NEW e, e = HandlerError(s, op, params, body)
    PROVE  \/ e = "Security"
           \/ e = "DecodeParams" /\ params = {}
           \/ e = body.error /\ ~s.error /\ (s.user = {} => MayDoWithout(op)) /\ params # {}
BY DEF HandlerError

(* One leaf, one answer of the security handler, and what becomes of them. *)
HandledAt(x, op, leaf, s, params, body, e) ==
    /\ params = ParamsAt(leaf, wire[x]) /\ body = RequestRead(leaf.op, wire[x])
    /\ e = HandlerError(s, op, params, body)
    /\ leaf.op = op /\ leaf.method = wire[x].method
    /\ IF e # "none"
       THEN Write(x, DefaultErrorHandler(e)) /\ UNCHANGED job
       ELSE /\ pc' = [pc EXCEPT ![x] = "running"]
            /\ job' = [job EXCEPT ![x] = [op |-> op, user |-> s.user, params |-> The(params),
                                          request |-> body.request]]
            /\ UNCHANGED answer

LEMMA HandledTakes ==
    ASSUME NEW x, NEW op, NEW leaf \in Route(wire[x].path), NEW s \in HandleOidc(wire[x].token),
           NEW params, NEW body, NEW e, HandledAt(x, op, leaf, s, params, body, e),
           pc[x] = "arrived", UNCHANGED <<process, asking, result, carried>>
    PROVE  Taking(x)
<1>1. \/ e = "Security"
      \/ e = "DecodeParams" /\ params = {}
      \/ e = body.error /\ ~s.error /\ (s.user = {} => MayDoWithout(op)) /\ params # {}
  BY HandlerErrors DEF HandledAt
<1>2. body.error \in {"none", "DecodeRequest", "ContentType"}
  BY RequestErrors DEF HandledAt, RequestRead
<1>3. CASE e # "none"
  <2>1. RefusedAt(leaf, wire[x], e)
    BY <1>1, <1>2, <1>3 DEF RefusedAt, HandledAt
  <2> QED BY <1>1, <1>2, <1>3, <2>1 DEF Taking, Write, HandledAt
<1>4. CASE e = "none"
  <2>1. PICK j : j = [op |-> op, user |-> s.user, params |-> The(params),
                      request |-> body.request]
    OBVIOUS
  <2>2. JobAt(leaf, wire[x], j)
    BY <1>1, <1>2, <1>4, <2>1 DEF JobAt, HandledAt, HasFields
  <2> QED BY <1>4, <2>1, <2>2 DEF Taking, HandledAt
<1> QED BY <1>3, <1>4

LEMMA HandleGetMyCatalogsRequestTakes ==
    ASSUME NEW x, handleGetMyCatalogsRequest(x)
    PROVE  Taking(x)
<1>1. PICK leaf \in Route(wire[x].path), s \in HandleOidc(wire[x].token) :
          LET w == wire[x]
              params == decodeNoParams(leaf.args, IsEscaped(w.path), HeaderValue(w, "getMyCatalogs"))
              body == decodeNoRequest(w.ct, w.body)
              error == IF s.error \/ (s.user = {} /\ ~MayDoWithout("getMyCatalogs")) THEN "Security"
                       ELSE IF params = {} THEN "DecodeParams"
                       ELSE body.error
          IN  /\ leaf.op = "getMyCatalogs" /\ leaf.method = w.method
              /\ IF error # "none"
                 THEN Write(x, DefaultErrorHandler(error)) /\ UNCHANGED job
                 ELSE /\ pc' = [pc EXCEPT ![x] = "running"]
                      /\ job' = [job EXCEPT ![x] =
                            [op |-> "getMyCatalogs", user |-> s.user, params |-> The(params),
                             request |-> body.request]]
                      /\ UNCHANGED answer
  BY Zenon DEF handleGetMyCatalogsRequest, Handle
<1>2. PICK params : params = decodeNoParams(leaf.args, IsEscaped(wire[x].path),
                                 HeaderValue(wire[x], "getMyCatalogs"))
  OBVIOUS
<1>3. PICK body : body = decodeNoRequest(wire[x].ct, wire[x].body)
  OBVIOUS
<1>4. PICK e : e = HandlerError(s, "getMyCatalogs", params, body)
  OBVIOUS
<1>5. params = ParamsAt(leaf, wire[x]) /\ body = RequestRead(leaf.op, wire[x])
  BY <1>1, <1>2, <1>3 DEF ParamsAt, ParamsRead, RequestRead
<1>6. HandledAt(x, "getMyCatalogs", leaf, s, params, body, e)
  BY <1>1, <1>2, <1>3, <1>4, <1>5, Zenon DEF HandledAt, HandlerError
<1> QED BY <1>6, HandledTakes DEF handleGetMyCatalogsRequest, Handle

LEMMA HandleGetMyPackageRequestTakes ==
    ASSUME NEW x, handleGetMyPackageRequest(x)
    PROVE  Taking(x)
<1>1. PICK leaf \in Route(wire[x].path), s \in HandleOidc(wire[x].token) :
          LET w == wire[x]
              params == decodeGetMyPackageParams(leaf.args, IsEscaped(w.path), HeaderValue(w, "getMyPackage"))
              body == decodeNoRequest(w.ct, w.body)
              error == IF s.error \/ (s.user = {} /\ ~MayDoWithout("getMyPackage")) THEN "Security"
                       ELSE IF params = {} THEN "DecodeParams"
                       ELSE body.error
          IN  /\ leaf.op = "getMyPackage" /\ leaf.method = w.method
              /\ IF error # "none"
                 THEN Write(x, DefaultErrorHandler(error)) /\ UNCHANGED job
                 ELSE /\ pc' = [pc EXCEPT ![x] = "running"]
                      /\ job' = [job EXCEPT ![x] =
                            [op |-> "getMyPackage", user |-> s.user, params |-> The(params),
                             request |-> body.request]]
                      /\ UNCHANGED answer
  BY Zenon DEF handleGetMyPackageRequest, Handle
<1>2. PICK params : params = decodeGetMyPackageParams(leaf.args, IsEscaped(wire[x].path),
                                 HeaderValue(wire[x], "getMyPackage"))
  OBVIOUS
<1>3. PICK body : body = decodeNoRequest(wire[x].ct, wire[x].body)
  OBVIOUS
<1>4. PICK e : e = HandlerError(s, "getMyPackage", params, body)
  OBVIOUS
<1>5. params = ParamsAt(leaf, wire[x]) /\ body = RequestRead(leaf.op, wire[x])
  BY <1>1, <1>2, <1>3 DEF ParamsAt, ParamsRead, RequestRead
<1>6. HandledAt(x, "getMyPackage", leaf, s, params, body, e)
  BY <1>1, <1>2, <1>3, <1>4, <1>5, Zenon DEF HandledAt, HandlerError
<1> QED BY <1>6, HandledTakes DEF handleGetMyPackageRequest, Handle

LEMMA HandleGetPackageSchemaRequestTakes ==
    ASSUME NEW x, handleGetPackageSchemaRequest(x)
    PROVE  Taking(x)
<1>1. PICK leaf \in Route(wire[x].path), s \in HandleOidc(wire[x].token) :
          LET w == wire[x]
              params == decodeGetPackageSchemaParams(leaf.args, IsEscaped(w.path), HeaderValue(w, "getPackageSchema"))
              body == decodeNoRequest(w.ct, w.body)
              error == IF s.error \/ (s.user = {} /\ ~MayDoWithout("getPackageSchema")) THEN "Security"
                       ELSE IF params = {} THEN "DecodeParams"
                       ELSE body.error
          IN  /\ leaf.op = "getPackageSchema" /\ leaf.method = w.method
              /\ IF error # "none"
                 THEN Write(x, DefaultErrorHandler(error)) /\ UNCHANGED job
                 ELSE /\ pc' = [pc EXCEPT ![x] = "running"]
                      /\ job' = [job EXCEPT ![x] =
                            [op |-> "getPackageSchema", user |-> s.user, params |-> The(params),
                             request |-> body.request]]
                      /\ UNCHANGED answer
  BY Zenon DEF handleGetPackageSchemaRequest, Handle
<1>2. PICK params : params = decodeGetPackageSchemaParams(leaf.args, IsEscaped(wire[x].path),
                                 HeaderValue(wire[x], "getPackageSchema"))
  OBVIOUS
<1>3. PICK body : body = decodeNoRequest(wire[x].ct, wire[x].body)
  OBVIOUS
<1>4. PICK e : e = HandlerError(s, "getPackageSchema", params, body)
  OBVIOUS
<1>5. params = ParamsAt(leaf, wire[x]) /\ body = RequestRead(leaf.op, wire[x])
  BY <1>1, <1>2, <1>3 DEF ParamsAt, ParamsRead, RequestRead
<1>6. HandledAt(x, "getPackageSchema", leaf, s, params, body, e)
  BY <1>1, <1>2, <1>3, <1>4, <1>5, Zenon DEF HandledAt, HandlerError
<1> QED BY <1>6, HandledTakes DEF handleGetPackageSchemaRequest, Handle

LEMMA HandleInstallServiceRequestTakes ==
    ASSUME NEW x, handleInstallServiceRequest(x)
    PROVE  Taking(x)
<1>1. PICK leaf \in Route(wire[x].path), s \in HandleOidc(wire[x].token) :
          LET w == wire[x]
              params == decodeInstallServiceParams(leaf.args, IsEscaped(w.path), HeaderValue(w, "installService"))
              body == decodeInstallServiceRequest(w.ct, w.body)
              error == IF s.error \/ (s.user = {} /\ ~MayDoWithout("installService")) THEN "Security"
                       ELSE IF params = {} THEN "DecodeParams"
                       ELSE body.error
          IN  /\ leaf.op = "installService" /\ leaf.method = w.method
              /\ IF error # "none"
                 THEN Write(x, DefaultErrorHandler(error)) /\ UNCHANGED job
                 ELSE /\ pc' = [pc EXCEPT ![x] = "running"]
                      /\ job' = [job EXCEPT ![x] =
                            [op |-> "installService", user |-> s.user, params |-> The(params),
                             request |-> body.request]]
                      /\ UNCHANGED answer
  BY Zenon DEF handleInstallServiceRequest, Handle
<1>2. PICK params : params = decodeInstallServiceParams(leaf.args, IsEscaped(wire[x].path),
                                 HeaderValue(wire[x], "installService"))
  OBVIOUS
<1>3. PICK body : body = decodeInstallServiceRequest(wire[x].ct, wire[x].body)
  OBVIOUS
<1>4. PICK e : e = HandlerError(s, "installService", params, body)
  OBVIOUS
<1>5. params = ParamsAt(leaf, wire[x]) /\ body = RequestRead(leaf.op, wire[x])
  BY <1>1, <1>2, <1>3 DEF ParamsAt, ParamsRead, RequestRead
<1>6. HandledAt(x, "installService", leaf, s, params, body, e)
  BY <1>1, <1>2, <1>3, <1>4, <1>5, Zenon DEF HandledAt, HandlerError
<1> QED BY <1>6, HandledTakes DEF handleInstallServiceRequest, Handle

LEMMA HandleWatchReleaseRequestTakes ==
    ASSUME NEW x, handleWatchReleaseRequest(x)
    PROVE  Taking(x)
<1>1. PICK leaf \in Route(wire[x].path), s \in HandleOidc(wire[x].token) :
          LET w == wire[x]
              params == decodeWatchReleaseParams(leaf.args, IsEscaped(w.path), HeaderValue(w, "watchRelease"))
              body == decodeNoRequest(w.ct, w.body)
              error == IF s.error \/ (s.user = {} /\ ~MayDoWithout("watchRelease")) THEN "Security"
                       ELSE IF params = {} THEN "DecodeParams"
                       ELSE body.error
          IN  /\ leaf.op = "watchRelease" /\ leaf.method = w.method
              /\ IF error # "none"
                 THEN Write(x, DefaultErrorHandler(error)) /\ UNCHANGED job
                 ELSE /\ pc' = [pc EXCEPT ![x] = "running"]
                      /\ job' = [job EXCEPT ![x] =
                            [op |-> "watchRelease", user |-> s.user, params |-> The(params),
                             request |-> body.request]]
                      /\ UNCHANGED answer
  BY Zenon DEF handleWatchReleaseRequest, Handle
<1>2. PICK params : params = decodeWatchReleaseParams(leaf.args, IsEscaped(wire[x].path),
                                 HeaderValue(wire[x], "watchRelease"))
  OBVIOUS
<1>3. PICK body : body = decodeNoRequest(wire[x].ct, wire[x].body)
  OBVIOUS
<1>4. PICK e : e = HandlerError(s, "watchRelease", params, body)
  OBVIOUS
<1>5. params = ParamsAt(leaf, wire[x]) /\ body = RequestRead(leaf.op, wire[x])
  BY <1>1, <1>2, <1>3 DEF ParamsAt, ParamsRead, RequestRead
<1>6. HandledAt(x, "watchRelease", leaf, s, params, body, e)
  BY <1>1, <1>2, <1>3, <1>4, <1>5, Zenon DEF HandledAt, HandlerError
<1> QED BY <1>6, HandledTakes DEF handleWatchReleaseRequest, Handle

LEMMA HandleWatchResourcesRequestTakes ==
    ASSUME NEW x, handleWatchResourcesRequest(x)
    PROVE  Taking(x)
<1>1. PICK leaf \in Route(wire[x].path), s \in HandleOidc(wire[x].token) :
          LET w == wire[x]
              params == decodeWatchResourcesParams(leaf.args, IsEscaped(w.path), HeaderValue(w, "watchResources"))
              body == decodeNoRequest(w.ct, w.body)
              error == IF s.error \/ (s.user = {} /\ ~MayDoWithout("watchResources")) THEN "Security"
                       ELSE IF params = {} THEN "DecodeParams"
                       ELSE body.error
          IN  /\ leaf.op = "watchResources" /\ leaf.method = w.method
              /\ IF error # "none"
                 THEN Write(x, DefaultErrorHandler(error)) /\ UNCHANGED job
                 ELSE /\ pc' = [pc EXCEPT ![x] = "running"]
                      /\ job' = [job EXCEPT ![x] =
                            [op |-> "watchResources", user |-> s.user, params |-> The(params),
                             request |-> body.request]]
                      /\ UNCHANGED answer
  BY Zenon DEF handleWatchResourcesRequest, Handle
<1>2. PICK params : params = decodeWatchResourcesParams(leaf.args, IsEscaped(wire[x].path),
                                 HeaderValue(wire[x], "watchResources"))
  OBVIOUS
<1>3. PICK body : body = decodeNoRequest(wire[x].ct, wire[x].body)
  OBVIOUS
<1>4. PICK e : e = HandlerError(s, "watchResources", params, body)
  OBVIOUS
<1>5. params = ParamsAt(leaf, wire[x]) /\ body = RequestRead(leaf.op, wire[x])
  BY <1>1, <1>2, <1>3 DEF ParamsAt, ParamsRead, RequestRead
<1>6. HandledAt(x, "watchResources", leaf, s, params, body, e)
  BY <1>1, <1>2, <1>3, <1>4, <1>5, Zenon DEF HandledAt, HandlerError
<1> QED BY <1>6, HandledTakes DEF handleWatchResourcesRequest, Handle

-----------------------------------------------------------------------------
(* What the controllers give.                                              *)

LEMMA RespondsGives ==
    ASSUME NEW op, NEW type, NEW value, SuccessOf(op, type)
    PROVE  Given(op, Responds(type, value))
BY DEF Given, Responds, Response

LEMMA FailsGives ==
    ASSUME NEW op, NEW type, NEW value, NEW error \in {"Internal", "NotImplemented"},
           type # "GetMyPackageNotFound"
    PROVE  Given(op, FailsWith(type, value, error)) /\ Given(op, Fails(error))
BY DEF Given, FailsWith, Fails, Response

LEMMA GetMyCatalogsGives ==
    ASSUME NEW catalogs
    PROVE  Given("getMyCatalogs", GetMyCatalogs(catalogs))
<1>1. CASE catalogs = {}
  <2>1. PICK value : GetMyCatalogs(catalogs) = FailsWith("Problem", value, "Internal")
    BY <1>1, Zenon DEF GetMyCatalogs
  <2> QED BY <2>1, FailsGives
<1>2. CASE catalogs # {}
  <2>1. PICK value : GetMyCatalogs(catalogs) = Responds("GetMyCatalogsOKApplicationJSON", value)
    BY <1>2 DEF GetMyCatalogs
  <2> QED BY <2>1, RespondsGives DEF SuccessOf
<1> QED BY <1>1, <1>2

LEMMA GetMyPackageGives ==
    ASSUME NEW pkg, NEW error
    PROVE  Given("getMyPackage", GetMyPackage(pkg, error))
<1>1. \/ GetMyPackage(pkg, error) = Responds("DetailedPackage", DetailedPackage(The(pkg)))
      \/ GetMyPackage(pkg, error) =
            Responds("GetMyPackageNotFound", MkProblem("Not found", 404, error))
      \/ GetMyPackage(pkg, error) =
            FailsWith("GetMyPackageInternalServerError", PackageProblem, "Internal")
  BY Zenon DEF GetMyPackage
<1>2. /\ SuccessOf("getMyPackage", "DetailedPackage")
      /\ SuccessOf("getMyPackage", "GetMyPackageNotFound")
  BY DEF SuccessOf
<1>3. \A value : /\ Given("getMyPackage", Responds("DetailedPackage", value))
                 /\ Given("getMyPackage", Responds("GetMyPackageNotFound", value))
  BY <1>2, RespondsGives
<1>4. Given("getMyPackage", FailsWith("GetMyPackageInternalServerError", PackageProblem, "Internal"))
  BY FailsGives
<1> QED BY <1>1, <1>3, <1>4, Zenon

LEMMA GetPackageSchemaGives ==
    ASSUME NEW raw
    PROVE  Given("getPackageSchema", GetPackageSchema(raw))
<1>1. PICK problem, schema :
          \/ GetPackageSchema(raw) =
                FailsWith("GetPackageSchemaInternalServerError", problem, "Internal")
          \/ GetPackageSchema(raw) = Responds("GetPackageSchemaOK", schema)
          \/ GetPackageSchema(raw) = Fails("Internal")
  BY DEF GetPackageSchema
<1>2. SuccessOf("getPackageSchema", "GetPackageSchemaOK")
  BY DEF SuccessOf
<1> QED BY <1>1, <1>2, RespondsGives, FailsGives

LEMMA InstallServiceGives ==
    ASSUME NEW user, NEW request, NEW error
    PROVE  Given("installService", InstallService(user, request, error))
<1>1. InstallRefused(user, request) \in
         {"none", "InstallServiceForbidden", "InstallServiceBadRequest"}
  BY DEF InstallRefused
<1>2. InstallFailure(error) \in
         {"InstallServiceBadRequest", "InstallServiceForbidden", "InstallServiceConflict",
          "InstallServiceInternalServerError"}
  BY Zenon DEF InstallFailure
<1>3. PICK value :
          \/ InstallService(user, request, error) =
                FailsWith(InstallRefused(user, request), NoProblem, "Internal")
             /\ InstallRefused(user, request) # "none"
          \/ InstallService(user, request, error) =
                FailsWith(InstallFailure(error), NoProblem, "Internal")
          \/ InstallService(user, request, error) = Responds("InstallAcceptedHeaders", value)
  BY DEF InstallService
<1>4. SuccessOf("installService", "InstallAcceptedHeaders")
  BY DEF SuccessOf
<1> QED BY <1>1, <1>2, <1>3, <1>4, RespondsGives, FailsGives

LEMMA WatchGives ==
    ASSUME NEW op
    PROVE  Given(op, WatchRelease) /\ Given(op, WatchResources)
BY DEF Given, WatchRelease, WatchResources, Fails

-----------------------------------------------------------------------------
(* The controllers' steps and the ends of a call.                          *)

LEMMA CarryOutMoves ==
    ASSUME IInv, NEW x \in Exchanges, NEW r, pc[x] = "running", CarryOut(x, r),
           Given(job[x].op, r)
    PROVE  IInv'
<1>1. /\ Handled(x) /\ pc'[x] = "responding" /\ result'[x] = r
      /\ UNCHANGED <<wire, config, job, answer>>
  BY DEF CarryOut, Handled, SameAt, RequestSame, IInv, Shape, process, asking
<1>2. carried'[x].deed = job[x]
  BY DEF CarryOut, IInv, Shape
<1>3. Course(x) /\ phase = "serving"
  BY DEF IInv
<1>4. Taken(x)'
  BY <1>1, <1>3, TakenKeeps DEF Course, Serving, RequestSame, Handled, asking
<1>5. Serving(x)' /\ Answered(x)' /\ Carried(x)'
  BY <1>1, <1>2, <1>4 DEF Serving, Answered, Carried
<1> QED BY <1>1, <1>3, <1>5, ServerMoves

LEMMA ControllerMoves ==
    ASSUME IInv, NEW x \in Exchanges,
           \/ runGetMyCatalogs(x) \/ runGetMyPackage(x) \/ runGetPackageSchema(x)
           \/ runInstallService(x) \/ runWatch(x)
    PROVE  IInv'
<1>1. CASE runGetMyCatalogs(x)
  <2>1. PICK catalogs : Running(x, "getMyCatalogs") /\ CarryOut(x, GetMyCatalogs(catalogs))
    BY <1>1 DEF runGetMyCatalogs
  <2> QED BY <2>1, GetMyCatalogsGives, CarryOutMoves DEF Running
<1>2. CASE runGetMyPackage(x)
  <2>1. PICK pkg, error : Running(x, "getMyPackage") /\ CarryOut(x, GetMyPackage(pkg, error))
    BY <1>2 DEF runGetMyPackage
  <2> QED BY <2>1, GetMyPackageGives, CarryOutMoves DEF Running
<1>3. CASE runGetPackageSchema(x)
  <2>1. PICK raw : Running(x, "getPackageSchema") /\ CarryOut(x, GetPackageSchema(raw))
    BY <1>3 DEF runGetPackageSchema
  <2> QED BY <2>1, GetPackageSchemaGives, CarryOutMoves DEF Running
<1>4. CASE runInstallService(x)
  <2>1. PICK request, error : /\ Running(x, "installService")
                              /\ CarryOut(x, InstallService(job[x].user, request, error))
    BY <1>4 DEF runInstallService
  <2>2. PICK r : r = InstallService(job[x].user, request, error)
    OBVIOUS
  <2>3. Given("installService", r)
    BY <2>2, InstallServiceGives
  <2> QED BY <2>1, <2>2, <2>3, CarryOutMoves DEF Running
<1>5. CASE runWatch(x)
  BY <1>5, WatchGives, CarryOutMoves DEF runWatch, Running
<1> QED BY <1>1, <1>2, <1>3, <1>4, <1>5

LEMMA PanicMoves ==
    ASSUME IInv, NEW x \in Exchanges, Panic(x)
    PROVE  IInv'
<1>1. /\ Handled(x) /\ pc[x] = "running" /\ pc'[x] = "answered" /\ answer'[x] = Recoverer
      /\ UNCHANGED <<wire, config, job, result>>
  BY DEF Panic, Write, Handled, SameAt, RequestSame, IInv, Shape, process, asking
<1>2. carried'[x].deed = job[x]
  BY DEF Panic, IInv, Shape
<1>3. Course(x) /\ phase = "serving"
  BY <1>1 DEF IInv
<1>4. Taken(x)'
  BY <1>1, <1>3, TakenKeeps DEF Course, Serving, RequestSame, Handled, asking
<1>5. Serving(x)' /\ Answered(x)' /\ Carried(x)'
  BY <1>1, <1>2, <1>3, <1>4 DEF Course, Serving, Answered, Carried, AnsweredByHandler
<1> QED BY <1>1, <1>3, <1>5, ServerMoves

LEMMA RespondMoves ==
    ASSUME IInv, NEW x \in Exchanges, Respond(x)
    PROVE  IInv'
<1>1. /\ Handled(x) /\ pc[x] = "responding" /\ pc'[x] = "answered"
      /\ UNCHANGED <<wire, config, job, result, carried>>
  BY DEF Respond, Write, Handled, SameAt, RequestSame, IInv, Shape, process, asking
<1>2. answer'[x] = IF result[x].error # "none" THEN DefaultErrorHandler(result[x].error)
                   ELSE Encoded(job[x].op, The(result[x].response))
  BY DEF Respond, Write, IInv, Shape
<1>3. Course(x) /\ phase = "serving"
  BY <1>1 DEF IInv
<1>4. Taken(x)'
  BY <1>1, <1>3, TakenKeeps DEF Course, Serving, RequestSame, Handled, asking
<1>5. AnsweredByController(x)'
  BY <1>1, <1>2, <1>3, <1>4 DEF AnsweredByController, Course, Serving
<1>6. Serving(x)' /\ Answered(x)' /\ Carried(x)'
  BY <1>1, <1>3, <1>4, <1>5 DEF Course, Serving, Answered, Carried
<1> QED BY <1>1, <1>3, <1>6, ServerMoves

LEMMA ServeMoves ==
    ASSUME IInv, NEW x \in Exchanges, Serve(x)
    PROVE  IInv'
BY ServeHTTPMoves, TakingMoves, ControllerMoves, RespondMoves, HandleGetMyCatalogsRequestTakes,
   HandleGetMyPackageRequestTakes, HandleGetPackageSchemaRequestTakes,
   HandleInstallServiceRequestTakes, HandleWatchReleaseRequestTakes,
   HandleWatchResourcesRequestTakes DEF Serve

-----------------------------------------------------------------------------
(* The process's steps.                                                    *)

LEMMA LoadEnvMoves ==
    ASSUME IInv, LoadEnv
    PROVE  IInv'
<1>1. PICK loaded \in New(source.defaults, source.files, source.env) :
          config' = loaded /\ phase' = IF loaded = {} THEN "exited" ELSE "connecting"
  BY DEF LoadEnv
<1>2. Process'
  BY <1>1 DEF LoadEnv, IInv, Process
<1>3. ASSUME NEW x \in Exchanges
      PROVE  Course(x)' /\ pc'[x] = "none"
  <2>1. Course(x) /\ pc[x] = "none"
    BY DEF IInv, Process, Course, Asked, LoadEnv
  <2> QED BY <2>1 DEF LoadEnv, asking, handling, Course, Idle, Asked, Serving, Answered, Carried,
             HeardOf
<1> QED BY <1>2, <1>3 DEF LoadEnv, asking, handling, IInv, Shape

(* Steps that only change the phase, before the process serves.            *)
LEMMA PhaseMoves ==
    ASSUME IInv, Ping \/ Setup
    PROVE  IInv'
<1>1. Process'
  BY DEF Ping, Setup, IInv, Process
<1>2. ASSUME NEW x \in Exchanges
      PROVE  Course(x)' /\ pc'[x] \notin {"arrived", "running", "responding"}
  <2>1. SameAt(x) /\ Course(x) /\ pc[x] \notin {"arrived", "running", "responding"}
    BY DEF Ping, Setup, asking, handling, SameAt, RequestSame, IInv
  <2> QED BY <2>1, CourseKeeps DEF SameAt
<1> QED BY <1>1, <1>2 DEF Ping, Setup, asking, handling, IInv, Shape

LEMMA ExitMoves ==
    ASSUME IInv, Exit
    PROVE  IInv'
<1>1. Process'
  BY DEF Exit, IInv, Process
<1>2. ASSUME NEW x \in Exchanges
      PROVE  Course(x)' /\ pc'[x] \notin {"arrived", "running", "responding"}
  <2>1. /\ RequestSame(x) /\ job'[x] = job[x] /\ result'[x] = result[x]
        /\ answer'[x] = answer[x] /\ carried'[x] = carried[x] /\ client'[x] = client[x]
        /\ heard'[x] = heard[x]
        /\ pc'[x] = IF pc[x] \in {"arrived", "running", "responding"} THEN "dead" ELSE pc[x]
    BY DEF Exit, asking, RequestSame
  <2>2. Course(x)
    BY DEF IInv
  <2>3. CASE pc'[x] = pc[x]
    BY <2>1, <2>2, <2>3, CourseKeeps DEF SameAt
  <2>4. CASE pc'[x] # pc[x]
    <3>1. /\ Sent(x) <=> Sent(x)'
          /\ Taken(x) <=> Taken(x)'
      BY <2>1, SentKeeps, TakenKeeps
    <3>2. pc[x] # "answered" /\ pc[x] # "none" /\ pc'[x] = "dead"
      BY <2>1, <2>4
    <3> QED BY <2>1, <2>2, <3>1, <3>2 DEF Course, RequestSame, Idle, Asked, Serving, Answered,
               Carried, HeardOf
  <2> QED BY <2>1, <2>3, <2>4
<1> QED BY <1>1, <1>2 DEF Exit, asking, IInv, Shape

LEMMA NothingMoves ==
    ASSUME IInv, UNCHANGED vars
    PROVE  IInv'
<1>1. ASSUME NEW x \in Exchanges
      PROVE  Course(x)' /\ pc'[x] = pc[x]
  BY CourseKeeps DEF vars, process, asking, handling, SameAt, RequestSame, IInv
<1> QED BY <1>1 DEF vars, process, asking, handling, IInv, Shape, Process

LEMMA InitCourse ==
    ASSUME Init
    PROVE  IInv
<1>1. ASSUME NEW x \in Exchanges
      PROVE  Course(x) /\ pc[x] = "none"
  BY DEF Init, Course, Idle, Asked, Serving, Answered, Carried, HeardOf, NotHeard
<1> QED BY <1>1 DEF Init, IInv, Shape, Process

(* IInv holds in every state.                                              *)
THEOREM Invariance == Spec => []IInv
<1>1. Init => IInv
  BY InitCourse
<1>2. IInv /\ [Next]_vars => IInv'
  <2> SUFFICES ASSUME IInv, [Next]_vars PROVE IInv'
    OBVIOUS
  <2>1. CASE UNCHANGED vars
    BY <2>1, NothingMoves
  <2>2. CASE LoadEnv
    BY <2>2, LoadEnvMoves
  <2>3. CASE Ping \/ Setup
    BY <2>3, PhaseMoves
  <2>4. CASE Exit
    BY <2>4, ExitMoves
  <2>5. ASSUME NEW x \in Exchanges, NEW a \in Asks[x], SendCall(x, a)
        PROVE  IInv'
    BY <2>5, CallMoves
  <2>6. ASSUME NEW x \in Exchanges, NEW a \in Raws[x], SendRaw(x, a)
        PROVE  IInv'
    BY <2>6, RawMoves
  <2>7. ASSUME NEW x \in Exchanges, Serve(x)
        PROVE  IInv'
    BY <2>7, ServeMoves
  <2>8. ASSUME NEW x \in Exchanges, Panic(x)
        PROVE  IInv'
    BY <2>8, PanicMoves
  <2>9. ASSUME NEW x \in Exchanges, Hear(x) \/ Lose(x)
        PROVE  IInv'
    BY <2>9, HearMoves, LoseMoves
  <2> QED BY <2>1, <2>2, <2>3, <2>4, <2>5, <2>6, <2>7, <2>8, <2>9 DEF Next
<1> QED BY <1>1, <1>2, PTL DEF Spec

-----------------------------------------------------------------------------
(* Where the requests of clients go.                                       *)

LEMMA CatalogsLeafIs ==
    ASSUME NEW path
    PROVE  /\ path = <<"catalogs">> => CatalogsLeaf(path) = Leaf("getMyCatalogs", "GET", <<>>)
           /\ Len(path) = 4 /\ path[1] = "catalogs" /\ path[3] = "packages" =>
                 CatalogsLeaf(path) = Leaf("getMyPackage", "GET", <<path[2], path[4]>>)
           /\ path # <<"catalogs">> /\ (Len(path) # 4 \/ path[1] # "catalogs") =>
                 CatalogsLeaf(path) = {}
<1>1. path = <<"catalogs">> => Len(path) # 4
  OBVIOUS
<1>2. path = <<"catalogs">> => CatalogsLeaf(path) = Leaf("getMyCatalogs", "GET", <<>>)
  BY <1>1, Zenon DEF CatalogsLeaf
<1>3. Len(path) = 4 /\ path[1] = "catalogs" /\ path[3] = "packages" =>
         CatalogsLeaf(path) = Leaf("getMyPackage", "GET", <<path[2], path[4]>>)
  BY <1>1, Zenon DEF CatalogsLeaf
<1>4. path # <<"catalogs">> /\ (Len(path) # 4 \/ path[1] # "catalogs") => CatalogsLeaf(path) = {}
  BY Zenon DEF CatalogsLeaf
<1> QED BY <1>2, <1>3, <1>4

LEMMA EventsLeafIs ==
    ASSUME NEW path
    PROVE  /\ Len(path) # 3 \/ path[1] # "events" => EventsLeaf(path) = {}
           /\ Len(path) = 3 /\ path[1] = "events" /\ path[3] = "watch-release" =>
                 EventsLeaf(path) = Leaf("watchRelease", "GET", <<path[2]>>)
           /\ Len(path) = 3 /\ path[1] = "events" /\ path[3] = "watch-resources" =>
                 EventsLeaf(path) = Leaf("watchResources", "GET", <<path[2]>>)
BY Zenon DEF EventsLeaf

(* An operation's path leads to the operation and nowhere else, except that*)
(* an installation whose release is named like a branch leads nowhere.     *)
LeafOf(a, args, method) == Leaf(a.op, method, args)

LEMMA RouteOfSent ==
    ASSUME NEW a, NEW w, SentFor(a, w)
    PROVE  \/ /\ a.op = "getMyCatalogs"
              /\ Route(w.path) = LeafOf(a, <<>>, w.method)
           \/ /\ a.op = "getMyPackage"
              /\ Route(w.path) = LeafOf(a, <<w.path[2], w.path[4]>>, w.method)
           \/ /\ a.op = "getPackageSchema"
              /\ Route(w.path) = LeafOf(a, <<w.path[2], w.path[4], w.path[6]>>, w.method)
           \/ /\ a.op = "installService"
              /\ Route(w.path) = IF w.path[1] \in Reserved THEN {}
                                 ELSE LeafOf(a, <<w.path[1]>>, w.method)
           \/ /\ a.op \in {"watchRelease", "watchResources"}
              /\ Route(w.path) = LeafOf(a, <<w.path[2]>>, w.method)
<1>1. CASE a.op = "getMyCatalogs"
  <2>1. w.path = <<"catalogs">> /\ w.method = "GET"
    BY <1>1 DEF SentFor, Get, Request
  <2>2. Len(w.path) # 3 /\ Len(w.path) # 6
    BY <2>1
  <2>3. /\ CatalogsLeaf(w.path) = Leaf("getMyCatalogs", "GET", <<>>)
        /\ EventsLeaf(w.path) = {}
    BY <2>1, <2>2, CatalogsLeafIs, EventsLeafIs
  <2>4. SchemasLeaf(w.path) = {}
    BY <2>2 DEF SchemasLeaf
  <2> QED BY <1>1, <2>1, <2>3, <2>4 DEF Route, LeafOf, Leaf
<1>2. CASE a.op = "getMyPackage"
  <2>1. PICK p, q : w.path = <<"catalogs", p, "packages", q>> /\ w.method = "GET"
    BY <1>2 DEF SentFor, Get, Request
  <2>2. Len(w.path) = 4 /\ w.path[1] = "catalogs" /\ w.path[3] = "packages"
    BY <2>1
  <2>3. /\ CatalogsLeaf(w.path) = Leaf("getMyPackage", "GET", <<w.path[2], w.path[4]>>)
        /\ EventsLeaf(w.path) = {} /\ SchemasLeaf(w.path) = {}
    BY <2>2, CatalogsLeafIs, EventsLeafIs DEF SchemasLeaf
  <2> QED BY <1>2, <2>1, <2>3 DEF Route, LeafOf, Leaf
<1>3. CASE a.op = "getPackageSchema"
  <2>1. PICK p, q, r :
            /\ w.path = <<"schemas", p, "packageName", q, "versions", r>> /\ w.method = "GET"
    BY <1>3 DEF SentFor, Get, Request
  <2>2. /\ Len(w.path) = 6 /\ w.path[1] = "schemas" /\ w.path[3] = "packageName"
        /\ w.path[5] = "versions" /\ w.path # <<"catalogs">>
    BY <2>1
  <2>3. CatalogsLeaf(w.path) = {} /\ EventsLeaf(w.path) = {}
    BY <2>2, CatalogsLeafIs, EventsLeafIs
  <2>4. SchemasLeaf(w.path) =
           Leaf("getPackageSchema", "GET", <<w.path[2], w.path[4], w.path[6]>>)
    BY <2>2 DEF SchemasLeaf
  <2> QED BY <1>3, <2>1, <2>3, <2>4 DEF Route, LeafOf, Leaf
<1>4. CASE a.op = "installService"
  <2>1. PICK p : w.path = <<p, "install">> /\ w.method = "PUT"
    BY <1>4 DEF SentFor, Request
  <2>2. /\ Len(w.path) = 2 /\ Len(w.path) # 3 /\ Len(w.path) # 4
        /\ w.path[2] = "install" /\ w.path # <<"catalogs">>
    BY <2>1
  <2>3. CatalogsLeaf(w.path) = {} /\ EventsLeaf(w.path) = {}
    BY <2>2, CatalogsLeafIs, EventsLeafIs
  <2>4. SchemasLeaf(w.path) = {}
    BY <2>2 DEF SchemasLeaf
  <2>5. Route(w.path) = ReleaseLeaf(Restored(w.path))
    BY <2>3, <2>4 DEF Route
  <2>6. ReleaseLeaf(<<"">>) = {} /\ ReleaseLeaf(w.path) = Leaf("installService", "PUT", <<w.path[1]>>)
    BY <2>2 DEF ReleaseLeaf
  <2> QED BY <1>4, <2>1, <2>2, <2>5, <2>6 DEF Restored, Reserved, LeafOf
<1>5. CASE a.op = "watchRelease"
  <2>1. PICK p : w.path = <<"events", p, "watch-release">> /\ w.method = "GET"
    BY <1>5 DEF SentFor, Get, Request
  <2>2. /\ Len(w.path) = 3 /\ w.path[1] = "events" /\ w.path[3] = "watch-release"
        /\ w.path # <<"catalogs">>
    BY <2>1
  <2>3. /\ CatalogsLeaf(w.path) = {} /\ SchemasLeaf(w.path) = {}
        /\ EventsLeaf(w.path) = Leaf("watchRelease", "GET", <<w.path[2]>>)
    BY <2>2, CatalogsLeafIs, EventsLeafIs DEF SchemasLeaf
  <2> QED BY <1>5, <2>1, <2>3 DEF Route, LeafOf, Leaf
<1>6. CASE a.op = "watchResources"
  <2>1. PICK p : w.path = <<"events", p, "watch-resources">> /\ w.method = "GET"
    BY <1>6 DEF SentFor, Get, Request
  <2>2. /\ Len(w.path) = 3 /\ w.path[1] = "events" /\ w.path[3] = "watch-resources"
        /\ w.path # <<"catalogs">>
    BY <2>1
  <2>3. /\ CatalogsLeaf(w.path) = {} /\ SchemasLeaf(w.path) = {}
        /\ EventsLeaf(w.path) = Leaf("watchResources", "GET", <<w.path[2]>>)
    BY <2>2, CatalogsLeafIs, EventsLeafIs DEF SchemasLeaf
  <2> QED BY <1>6, <2>1, <2>3 DEF Route, LeafOf, Leaf
<1> QED BY <1>1, <1>2, <1>3, <1>4, <1>5, <1>6 DEF SentFor

(* What a client asks for is what is done, and not something else.         *)
LEMMA SentArrives ==
    ASSUME NEW a, NEW w, SentFor(a, w), NEW leaf \in Route(w.path)
    PROVE  leaf.op = a.op /\ leaf.method = w.method
<1>1. PICK args : Route(w.path) = LeafOf(a, args, w.method)
  BY RouteOfSent
<1> QED BY <1>1 DEF LeafOf, Leaf

LEMMA TakenAsAsked ==
    ASSUME IInv, NEW x \in Exchanges, ask[x] \in Asks[x], pc[x] # "none", Taken(x)
    PROVE  job[x].op = ask[x].op
<1>1. SentFor(ask[x], wire[x])
  BY AsksAssumption DEF IInv, Course, Asked, Sent, Operations
<1> QED BY <1>1, SentArrives DEF Taken, JobAt

-----------------------------------------------------------------------------
(* What clients hear.                                                      *)

(* A problem is on the way to a client only as the answer that a package is*)
(* not found.                                                              *)
Successes == {"GetMyCatalogsOKApplicationJSON", "DetailedPackage", "GetPackageSchemaOK",
              "InstallAcceptedHeaders"}
WrittenAs(op, a) ==
    /\ a.ct \in {"text/plain", NoType, JsonType, ProblemType}
    /\ a.ct = ProblemType => op = "getMyPackage" /\ a.status = 404

LEMMA ReadsNotFound ==
    ASSUME NEW a, a.status = 404
    PROVE  Read("getMyPackage", a) = ReadProblem(a, "GetMyPackageNotFound")
<1>1. Read("getMyPackage", a) = decodeGetMyPackageResponse(a)
  BY Zenon DEF Read
<1>2. a.status # 200
  OBVIOUS
<1>3. decodeGetMyPackageResponse(a) = ReadProblem(a, "GetMyPackageNotFound")
  BY <1>2 DEF decodeGetMyPackageResponse
<1> QED BY <1>1, <1>3

(* Each operation has a decoder of its own.                                *)
ReadBy(op, a) ==
    \/ op = "getMyCatalogs" /\ Read(op, a) = decodeGetMyCatalogsResponse(a)
    \/ op = "getMyPackage" /\ Read(op, a) = decodeGetMyPackageResponse(a)
    \/ op = "getPackageSchema" /\ Read(op, a) = decodeGetPackageSchemaResponse(a)
    \/ op = "installService" /\ Read(op, a) = decodeInstallServiceResponse(a)
    \/ op = "watchRelease" /\ Read(op, a) = decodeWatchReleaseResponse(a)
    \/ op = "watchResources" /\ Read(op, a) = decodeWatchResourcesResponse(a)

LEMMA ReadIs ==
    ASSUME NEW op \in Operations, NEW a
    PROVE  ReadBy(op, a)
<1>1. CASE op = "getMyCatalogs"
  <2>1. Read(op, a) = decodeGetMyCatalogsResponse(a)
    BY <1>1, Zenon DEF Read
  <2> QED BY <1>1, <2>1 DEF ReadBy
<1>2. CASE op = "getMyPackage"
  <2>1. Read(op, a) = decodeGetMyPackageResponse(a)
    BY <1>2, Zenon DEF Read
  <2> QED BY <1>2, <2>1 DEF ReadBy
<1>3. CASE op = "getPackageSchema"
  <2>1. Read(op, a) = decodeGetPackageSchemaResponse(a)
    BY <1>3, Zenon DEF Read
  <2> QED BY <1>3, <2>1 DEF ReadBy
<1>4. CASE op = "installService"
  <2>1. Read(op, a) = decodeInstallServiceResponse(a)
    BY <1>4, Zenon DEF Read
  <2> QED BY <1>4, <2>1 DEF ReadBy
<1>5. CASE op = "watchRelease"
  <2>1. Read(op, a) = decodeWatchReleaseResponse(a)
    BY <1>5, Zenon DEF Read
  <2> QED BY <1>5, <2>1 DEF ReadBy
<1>6. CASE op = "watchResources"
  <2>1. Read(op, a) = decodeWatchResourcesResponse(a)
    BY <1>6, Zenon DEF Read
  <2> QED BY <1>6, <2>1 DEF ReadBy
<1> QED BY <1>1, <1>2, <1>3, <1>4, <1>5, <1>6 DEF Operations

LEMMA ResponsesRead ==
    ASSUME NEW op \in Operations, NEW a, WrittenAs(op, a)
    PROVE  \/ Read(op, a).response = {}
           \/ \E r \in Read(op, a).response :
                 /\ Read(op, a).response = {r}
                 /\ r.type \in Successes \cup {"GetMyPackageNotFound"}
<1>1. CASE op = "getMyPackage" /\ a.status = 404
  <2>1. Reads1(Read(op, a), "GetMyPackageNotFound")
    BY <1>1, ReadsNotFound, ReadProblemGives
  <2> QED BY <2>1 DEF Reads1, Response
<1>2. CASE ~(op = "getMyPackage" /\ a.status = 404)
  <2>1. a.ct # ProblemType /\ a.ct # EventStream
    BY <1>2 DEF WrittenAs, ProblemType, EventStream, NoType, JsonType
  <2>2. ReadBy(op, a)
    BY ReadIs
  <2>3. PICK type \in Successes : Reads1(Read(op, a), type)
    BY <2>1, <2>2, DecodeGetMyCatalogsGives, DecodeGetMyPackageGives, DecodeGetPackageSchemaGives,
       DecodeInstallServiceGives, DecodeWatchReleaseGives, DecodeWatchResourcesGives
       DEF ReadBy, DecoderGives, Successes, Reads1
  <2> QED BY <2>3 DEF Reads1, Response
<1> QED BY <1>1, <1>2

(* What the server writes.                                                 *)
LEMMA ErrorsWritten ==
    ASSUME NEW error
    PROVE  /\ DefaultErrorHandler(error).ct = JsonType
           /\ DefaultErrorHandler(error).status \notin {200, 202, 404}
           /\ error \notin {"DecodeParams", "DecodeRequest", "ContentType"} =>
                 DefaultErrorHandler(error).status \notin {400, 405, 415}
<1>1. PICK status : status = CASE error = "Security"       -> 401
                               [] error \in {"DecodeParams", "DecodeRequest"} -> 400
                               [] error = "ContentType"    -> 415
                               [] error = "NotImplemented" -> 501
                               [] OTHER                    -> 500
  OBVIOUS
<1>2. DefaultErrorHandler(error) =
         Answer(status, JsonType, NoHeaders, Obj([error_message |-> Str(error)]))
  BY <1>1, Zenon DEF DefaultErrorHandler
<1>3. CASE error \in {"DecodeParams", "DecodeRequest", "ContentType"}
  <2>1. /\ error # "Security" /\ error # "NotImplemented"
        /\ error \in {"DecodeParams", "DecodeRequest"} \/ error = "ContentType"
    BY <1>3
  <2>2. status \in {400, 415}
    BY <1>1, <2>1
  <2> QED BY <1>2, <1>3, <2>2 DEF Answer
<1>4. CASE error \notin {"DecodeParams", "DecodeRequest", "ContentType"}
  <2>1. status \in {401, 501, 500}
    BY <1>1, <1>4
  <2> QED BY <1>2, <2>1 DEF Answer
<1> QED BY <1>3, <1>4

LEMMA ResponsesWritten ==
    ASSUME NEW op, NEW r, SuccessOf(op, r.type)
    PROVE  \/ /\ Encoded(op, r).ct = JsonType /\ Encoded(op, r).status \in {200, 202}
              /\ r.type # "GetMyPackageNotFound"
           \/ /\ Encoded(op, r).ct = ProblemType /\ Encoded(op, r).status = 404
              /\ op = "getMyPackage" /\ r.type = "GetMyPackageNotFound"
<1>1. CASE op = "getMyCatalogs"
  <2>1. Encoded(op, r) = Json(200, EncodeGetMyCatalogsOK(r.value))
    BY <1>1, Zenon DEF Encoded, encodeGetMyCatalogsResponse, SuccessOf
  <2> QED BY <1>1, <2>1 DEF SuccessOf, Json, Answer
<1>2. CASE op = "getMyPackage" /\ r.type = "DetailedPackage"
  <2>1. Encoded(op, r) = Json(200, EncodeDetailedPackage(r.value))
    BY <1>2, Zenon DEF Encoded, encodeGetMyPackageResponse
  <2> QED BY <1>2, <2>1 DEF Json, Answer
<1>3. CASE op = "getMyPackage" /\ r.type # "DetailedPackage"
  <2>1. r.type = "GetMyPackageNotFound"
    BY <1>3 DEF SuccessOf
  <2>2. Encoded(op, r) = Problem(404, r)
    BY <1>3, <2>1, Zenon DEF Encoded, encodeGetMyPackageResponse
  <2> QED BY <1>3, <2>1, <2>2 DEF Problem, Answer
<1>4. CASE op = "getPackageSchema"
  <2>1. Encoded(op, r) = Json(200, EncodeGetPackageSchemaOK(r.value))
    BY <1>4, Zenon DEF Encoded, encodeGetPackageSchemaResponse, SuccessOf
  <2> QED BY <1>4, <2>1 DEF SuccessOf, Json, Answer
<1>5. CASE op = "installService"
  <2>1. Encoded(op, r) =
           Answer(202, JsonType, <<r.value.location>>, EncodeInstallAccepted(r.value.response))
    BY <1>5, Zenon DEF Encoded, encodeInstallServiceResponse, SuccessOf
  <2> QED BY <1>5, <2>1 DEF SuccessOf, Answer
<1> QED BY <1>1, <1>2, <1>3, <1>4, <1>5 DEF SuccessOf

(* A call's answer.                                                        *)
LEMMA AnswersWritten ==
    ASSUME IInv, NEW x \in Exchanges, pc[x] = "answered"
    PROVE  /\ WrittenAs(job[x].op, answer[x])
           /\ answer[x].ct = ProblemType => Taken(x)
<1>1. AnsweredByRouter(x) \/ AnsweredByHandler(x) \/ AnsweredByController(x)
  BY DEF IInv, Course, Answered
<1>2. CASE AnsweredByRouter(x)
  <2>1. answer[x].ct \in {"text/plain", NoType}
    BY <1>2 DEF AnsweredByRouter, notFound, notAllowed, Empty, Answer
  <2>2. answer[x].ct # ProblemType
    BY <2>1 DEF ProblemType, NoType
  <2> QED BY <2>1, <2>2 DEF WrittenAs
<1>3. CASE AnsweredByHandler(x)
  <2>1. answer[x].ct \in {JsonType, NoType}
    BY <1>3, ErrorsWritten DEF AnsweredByHandler, Recoverer, Empty, Answer
  <2>2. answer[x].ct # ProblemType
    BY <2>1 DEF ProblemType, NoType, JsonType
  <2> QED BY <2>1, <2>2 DEF WrittenAs
<1>4. CASE AnsweredByController(x) /\ result[x].error # "none"
  <2>1. answer[x].ct = JsonType
    BY <1>4, ErrorsWritten DEF AnsweredByController
  <2> QED BY <2>1 DEF WrittenAs, ProblemType, JsonType
<1>5. CASE AnsweredByController(x) /\ result[x].error = "none"
  <2>1. PICK s \in result[x].response : result[x].response = {s} /\ SuccessOf(job[x].op, s.type)
    BY <1>5 DEF AnsweredByController, Given
  <2>2. answer[x] = Encoded(job[x].op, s)
    BY <1>5, <2>1, TheOnly DEF AnsweredByController
  <2>3. \/ /\ answer[x].ct = JsonType /\ answer[x].status \in {200, 202}
           /\ s.type # "GetMyPackageNotFound"
        \/ /\ answer[x].ct = ProblemType /\ answer[x].status = 404
           /\ job[x].op = "getMyPackage" /\ s.type = "GetMyPackageNotFound"
    BY <2>1, <2>2, ResponsesWritten
  <2>4. WrittenAs(job[x].op, answer[x])
    BY <2>3 DEF WrittenAs, ProblemType, JsonType
  <2> QED BY <1>5, <2>4 DEF AnsweredByController
<1> QED BY <1>1, <1>2, <1>3, <1>4, <1>5

LEMMA HeardTyped ==
    ASSUME IInv, NEW x \in Exchanges, heard[x].response # {}
    PROVE  \E r \in heard[x].response :
              heard[x].response = {r} /\ r.type \in Successes \cup {"GetMyPackageNotFound"}
<1>1. /\ pc[x] = "answered" /\ ask[x] \in Asks[x] /\ heard[x] = Read(ask[x].op, answer[x])
  BY DEF IInv, Course, HeardOf
<1>2. WrittenAs(ask[x].op, answer[x])
  BY <1>1, AnswersWritten, TakenAsAsked DEF WrittenAs
<1>3. ask[x].op \in Operations
  BY <1>1, AsksAssumption
<1> QED BY <1>1, <1>2, <1>3, ResponsesRead

-----------------------------------------------------------------------------
(* Types.                                                                  *)

LEMMA LeavesAreOperations ==
    ASSUME NEW path, NEW leaf \in Route(path)
    PROVE  leaf.op \in Operations
<1>1. \/ leaf \in CatalogsLeaf(path) \/ leaf \in EventsLeaf(path) \/ leaf \in SchemasLeaf(path)
      \/ leaf \in ReleaseLeaf(Restored(path))
  BY DEF Route
<1>2. CASE leaf \in CatalogsLeaf(path)
  <2>1. CatalogsLeaf(path) \in {Leaf("getMyCatalogs", "GET", <<>>),
                                Leaf("getMyPackage", "GET", <<path[2], path[4]>>), {}}
    BY Zenon DEF CatalogsLeaf
  <2> QED BY <1>2, <2>1 DEF Leaf, Operations
<1>3. CASE leaf \in EventsLeaf(path)
  <2>1. EventsLeaf(path) \in {Leaf("watchRelease", "GET", <<path[2]>>),
                              Leaf("watchResources", "GET", <<path[2]>>), {}}
    BY Zenon DEF EventsLeaf
  <2> QED BY <1>3, <2>1 DEF Leaf, Operations
<1>4. CASE leaf \in SchemasLeaf(path)
  BY <1>4 DEF SchemasLeaf, Leaf, Operations
<1>5. CASE leaf \in ReleaseLeaf(Restored(path))
  BY <1>5 DEF ReleaseLeaf, Leaf, Operations
<1> QED BY <1>1, <1>2, <1>3, <1>4, <1>5

LEMMA WiresHaveMethods ==
    ASSUME IInv, NEW x \in Exchanges, pc[x] # "none"
    PROVE  wire[x] # NoWire
<1>1. Sent(x) /\ NoWire.method = ""
  BY DEF IInv, Course, Asked, NoWire
<1>2. CASE ask[x] \in Asks[x] /\ SentFor(ask[x], wire[x])
  <2>1. wire[x].method \in {"GET", "PUT"}
    BY <1>2 DEF SentFor, Get, Request
  <2> QED BY <1>1, <2>1
<1>3. CASE ask[x] \in Raws[x] /\ wire[x] = ask[x].wire
  <2>1. \A a \in Raws[x] : a.wire.method # ""
    BY AsksAssumption
  <2> QED BY <1>1, <1>3, <2>1
<1> QED BY <1>1, <1>2, <1>3 DEF Sent

(* Every state is of its types; a request is there once it is sent, the    *)
(* server is busy only while the process serves, and a client hears one    *)
(* response at most.                                                       *)
THEOREM TypeCorrect == Spec => []TypeOK
<1>1. ASSUME IInv, NEW x \in Exchanges
      PROVE  /\ client[x] \in {"idle", "waiting", "returned"}
             /\ pc[x] \in {"none", "arrived", "running", "responding", "answered", "dead"}
             /\ pc[x] = "none" <=> wire[x] = NoWire
             /\ pc[x] \in {"arrived", "running", "responding"} => phase = "serving"
             /\ pc[x] = "running" => job[x].op \in Operations
             /\ Cardinality(heard[x].response) <= 1
  <2>1. Course(x)
    BY <1>1 DEF IInv
  <2>2. pc[x] = "none" <=> wire[x] = NoWire
    BY <1>1, <2>1, WiresHaveMethods DEF Course, Idle
  <2>3. pc[x] = "running" => job[x].op \in Operations
    BY <2>1, LeavesAreOperations DEF Course, Serving, Taken, JobAt
  <2>4. CASE heard[x].response = {}
    <3>1. Cardinality(heard[x].response) = 0
      BY <2>4, FS_EmptySet
    <3> QED BY <1>1, <2>1, <2>2, <2>3, <3>1 DEF Course, IInv
  <2>5. CASE heard[x].response # {}
    <3>1. PICK r : heard[x].response = {r}
      BY <1>1, <2>5, HeardTyped
    <3>2. Cardinality(heard[x].response) = 1
      BY <3>1, FS_Singleton
    <3> QED BY <1>1, <2>1, <2>2, <2>3, <3>2 DEF Course, IInv
  <2> QED BY <2>4, <2>5
<1>2. IInv => TypeOK
  BY <1>1 DEF TypeOK, IInv, Process
<1> QED BY <1>2, Invariance, PTL

-----------------------------------------------------------------------------
(* What the process goes by.                                               *)

LEMMA ChoiceOf ==
    ASSUME NEW sets, NEW f \in Choices(sets)
    PROVE  DOMAIN f = DOMAIN sets /\ \A k \in DOMAIN sets : f[k] \in sets[k]
BY DEF Choices

LEMMA FoldedKeys ==
    ASSUME NEW f, NEW g \in FoldKeys(f)
    PROVE  /\ DOMAIN g = {Lower[w] : w \in DOMAIN f}
           /\ \A k \in DOMAIN g : \E w \in DOMAIN f : Lower[w] = k /\ g[k] = f[w]
<1>1. PICK winners : winners = [k \in {Lower[w] : w \in DOMAIN f} |-> Winners(f, k)]
  OBVIOUS
<1>2. PICK winner \in Choices(winners) : g = [k \in DOMAIN winner |-> f[winner[k]]]
  BY <1>1 DEF FoldKeys
<1>3. /\ DOMAIN winner = {Lower[w] : w \in DOMAIN f}
      /\ \A k \in DOMAIN winner : winner[k] \in Winners(f, k)
  BY <1>1, ChoiceOf
<1>4. \A k : \A w \in Winners(f, k) : w \in DOMAIN f /\ Lower[w] = k
  BY DEF Winners
<1> QED BY <1>2, <1>3, <1>4

LEMMA Folded ==
    ASSUME NEW f, NEW g \in Fold(f)
    PROVE  /\ DOMAIN g = {Lower[w] : w \in DOMAIN f}
           /\ \A k \in DOMAIN g : \E w \in DOMAIN f : Lower[w] = k /\ g[k] \in FoldSetting(f[w])
<1>1. PICK h \in FoldKeys(f) : g \in Choices([k \in DOMAIN h |-> FoldSetting(h[k])])
  BY DEF Fold
<1>2. PICK sets : sets = [k \in DOMAIN h |-> FoldSetting(h[k])]
  OBVIOUS
<1>3. DOMAIN g = DOMAIN h /\ \A k \in DOMAIN h : g[k] \in FoldSetting(h[k])
  BY <1>1, <1>2, ChoiceOf
<1>4. /\ DOMAIN h = {Lower[w] : w \in DOMAIN f}
      /\ \A k \in DOMAIN h : \E w \in DOMAIN f : Lower[w] = k /\ h[k] = f[w]
  BY FoldedKeys
<1> QED BY <1>3, <1>4

LEMMA WrittenIs ==
    ASSUME NEW sources, NEW k, NEW v
    PROVE  v \in Written(sources, k) <=>
              \E f \in sources : \E w \in DOMAIN f : Lower[w] = k /\ v = f[w]
BY DEF Written

LEMMA MergedIs ==
    ASSUME NEW defaults, NEW files, files # {}, NEW settings \in MergeInConfig(defaults, files)
    PROVE  \E d \in Fold(defaults), f \in UNION {Fold(g) : g \in files} : settings = Over(d, f)
BY DEF MergeInConfig

(* The value of a setting is one that is in force, folded.                 *)
LEMMA SettingInForce ==
    ASSUME source \in Sources, NEW k \in Settings,
           NEW settings \in MergeInConfig(source.defaults, source.files)
    PROVE  \E v \in InForce(k) : OverriddenBy(source.env, settings)[k] \in FoldSetting(v)
<1>1. k \in {Lower[w] : w \in DOMAIN source.defaults}
  BY SourcesAssumption
<1>2. ASSUME NEW d \in Fold(source.defaults)
      PROVE  k \in DOMAIN d /\ \E v \in Written({source.defaults}, k) : d[k] \in FoldSetting(v)
  <2>1. k \in DOMAIN d
    BY <1>1, <1>2, Folded
  <2>2. \E w \in DOMAIN source.defaults : Lower[w] = k /\ d[k] \in FoldSetting(source.defaults[w])
    BY <1>2, <2>1, Folded
  <2> QED BY <2>1, <2>2, WrittenIs
<1>3. /\ k \in DOMAIN settings
      /\ \E v \in IF Written(source.files, k) # {} THEN Written(source.files, k)
                   ELSE Written({source.defaults}, k) : settings[k] \in FoldSetting(v)
  <2>1. CASE source.files = {}
    <3>1. settings \in Fold(source.defaults)
      BY <2>1 DEF MergeInConfig
    <3>2. Written(source.files, k) = {}
      BY <2>1 DEF Written
    <3> QED BY <1>2, <3>1, <3>2
  <2>2. CASE source.files # {}
    <3>1. PICK d \in Fold(source.defaults), f \in UNION {Fold(g) : g \in source.files} :
              settings = Over(d, f)
      BY <2>2, MergedIs
    <3>2. PICK g \in source.files : f \in Fold(g)
      BY <3>1
    <3>3. CASE k \in DOMAIN f
      <4>1. PICK w \in DOMAIN g : Lower[w] = k /\ f[k] \in FoldSetting(g[w])
        BY <3>2, <3>3, Folded
      <4>2. g[w] \in Written(source.files, k)
        BY <3>2, <4>1, WrittenIs
      <4> QED BY <3>1, <3>3, <4>1, <4>2 DEF Over
    <3>4. CASE k \notin DOMAIN f
      <4>1. DOMAIN f = {Lower[w] : w \in DOMAIN g}
        BY <3>2, Folded
      <4>2. \A w \in DOMAIN g : Lower[w] # k
        BY <3>4, <4>1
      <4>3. \A h \in source.files : h = g
        BY <3>2, SourcesAssumption
      <4>4. Written(source.files, k) = {}
        BY <4>2, <4>3, WrittenIs
      <4> QED BY <1>2, <3>1, <3>4, <4>4 DEF Over
    <3> QED BY <3>3, <3>4
  <2> QED BY <2>1, <2>2
<1>4. CASE EnvName[k] \in DOMAIN source.env
  <2>1. PICK v : v = Text(source.env[EnvName[k]])
    OBVIOUS
  <2>2. InForce(k) = {v} /\ OverriddenBy(source.env, settings)[k] = v
    BY <1>3, <1>4, <2>1 DEF InForce, OverriddenBy
  <2>3. v \in FoldSetting(v)
    BY <2>1 DEF Text, FoldSetting
  <2> QED BY <2>2, <2>3
<1>5. CASE EnvName[k] \notin DOMAIN source.env
  <2>1. OverriddenBy(source.env, settings)[k] = settings[k]
    BY <1>3, <1>5 DEF OverriddenBy
  <2> QED BY <1>3, <1>5, <2>1 DEF InForce
<1> QED BY <1>4, <1>5

(* A setting other than the catalogs is as it was written.                 *)
LEMMA ValueInForce ==
    ASSUME source \in Sources, NEW k \in Settings, k # "catalogs",
           NEW settings \in MergeInConfig(source.defaults, source.files)
    PROVE  OverriddenBy(source.env, settings)[k] \in InForce(k)
<1>1. PICK v \in InForce(k) : OverriddenBy(source.env, settings)[k] \in FoldSetting(v)
  BY SettingInForce
<1>2. "catalogs" \notin DOMAIN v
  <2>1. CASE EnvName[k] \in DOMAIN source.env
    BY <2>1 DEF InForce, Text
  <2>2. CASE EnvName[k] \notin DOMAIN source.env
    <3>1. v \in Written(source.files, k) \/ v \in Written({source.defaults}, k)
      BY <2>2 DEF InForce
    <3>2. PICK f \in {source.defaults} \cup source.files : \E w \in DOMAIN f : Lower[w] = k /\ v = f[w]
      BY <3>1, WrittenIs
    <3> QED BY <3>2, SourcesAssumption
  <2> QED BY <2>1, <2>2
<1> QED BY <1>1, <1>2 DEF FoldSetting

(* The environment that a process runs with.                               *)
LEMMA EnvironmentIs ==
    ASSUME Process, config # {}
    PROVE  /\ \E v \in InForce("authenticationmode") : env.authenticationMode = v.text
           /\ \E s \in InForce("security::corsallowedorigins") : env.corsAllowedOrigins = Origins(s)
<1>1. PICK es \in Load(source.defaults, source.files, source.env) :
          config = {e \in es : ValidateCatalogsConfig(e.catalogs)}
  BY DEF Process, New
<1>2. PICK settings \in MergeInConfig(source.defaults, source.files) :
          es = Env(OverriddenBy(source.env, settings))
  BY <1>1 DEF Load
<1>3. env \in Env(OverriddenBy(source.env, settings))
  BY <1>1, <1>2 DEF env, The
<1>4. PICK over : over = OverriddenBy(source.env, settings)
  OBVIOUS
<1>5. /\ env.authenticationMode = over["authenticationmode"].text
      /\ env.corsAllowedOrigins = Origins(over["security::corsallowedorigins"])
  BY <1>3, <1>4 DEF Env
<1>6. /\ over["authenticationmode"] \in InForce("authenticationmode")
      /\ over["security::corsallowedorigins"] \in InForce("security::corsallowedorigins")
  BY <1>4, ValueInForce DEF Process, Settings
<1> QED BY <1>5, <1>6

-----------------------------------------------------------------------------
(* Whom a call acts for.                                                   *)

(* No source spells the key of the mode in two ways, and the mode is a text*)
ModeIsWrittenOnce ==
    \A s \in Sources : \A f \in {s.defaults} \cup s.files : \A v, w \in DOMAIN f :
        Lower[v] = "authenticationmode" =>
            f[v] = Text(f[v].text) /\ (Lower[w] = "authenticationmode" => v = w)

LEMMA WrittenOnce ==
    ASSUME ModeIsWrittenOnce, source \in Sources,
           NEW sources, sources = source.files \/ sources = {source.defaults},
           NEW u \in Written(sources, "authenticationmode"),
           NEW v \in Written(sources, "authenticationmode")
    PROVE  u = v /\ u = Text(u.text)
<1>1. \A f, g \in sources : f = g
  BY SourcesAssumption
<1>2. PICK f \in sources : \E w \in DOMAIN f : Lower[w] = "authenticationmode" /\ u = f[w]
  BY WrittenIs
<1>3. PICK g \in sources : \E w \in DOMAIN g : Lower[w] = "authenticationmode" /\ v = g[w]
  BY WrittenIs
<1>4. f = g /\ f \in {source.defaults} \cup source.files
  BY <1>1, <1>2, <1>3
<1> QED BY <1>2, <1>3, <1>4 DEF ModeIsWrittenOnce

LEMMA ModeInForce ==
    ASSUME ModeIsWrittenOnce, Process, config # {}
    PROVE  InForce("authenticationmode") = {Text("none")} <=> env.authenticationMode = "none"
<1>1. PICK v \in InForce("authenticationmode") : env.authenticationMode = v.text
  BY EnvironmentIs
<1>2. ASSUME NEW u \in InForce("authenticationmode")
      PROVE  u = v /\ u = Text(u.text)
  <2>1. CASE EnvName["authenticationmode"] \in DOMAIN source.env
    BY <1>2, <2>1 DEF InForce, Text
  <2>2. CASE EnvName["authenticationmode"] \notin DOMAIN source.env
    BY <1>2, <2>2, WrittenOnce DEF InForce, Process
  <2> QED BY <2>1, <2>2
<1>3. InForce("authenticationmode") = {v} /\ v = Text(v.text)
  BY <1>2
<1>4. v = Text("none") <=> v.text = "none"
  BY <1>3 DEF Text
<1> QED BY <1>1, <1>3, <1>4

LEMMA TokensHaveOneOwner ==
    ASSUME IInv, NEW x \in Exchanges, pc[x] # "none", NEW u \in UNION {Owner[t] : t \in wire[x].token}
    PROVE  UNION {Owner[t] : t \in wire[x].token} = {u}
<1>1. Sent(x)
  BY DEF IInv, Course, Asked
<1>2. /\ \A t, s \in wire[x].token : t = s
      /\ wire[x].token \subseteq DOMAIN Owner
  <2>1. CASE ask[x] \in Asks[x] /\ SentFor(ask[x], wire[x])
    <3>1. wire[x].token = ask[x].token
      BY <2>1 DEF SentFor, Get, Request
    <3>2. /\ \A t, s \in ask[x].token : t = s
          /\ ask[x].token \subseteq DOMAIN Owner
      BY <2>1, AsksAssumption, OwnerAssumption
    <3> QED BY <3>1, <3>2
  <2>2. CASE ask[x] \in Raws[x] /\ wire[x] = ask[x].wire
    <3>1. \A a \in Raws[x] : /\ \A t, s \in a.wire.token : t = s
                             /\ a.wire.token \subseteq DOMAIN Owner
      BY AsksAssumption, OwnerAssumption
    <3> QED BY <2>2, <3>1
  <2> QED BY <1>1, <2>1, <2>2 DEF Sent
<1>3. PICK t \in wire[x].token : u \in Owner[t]
  OBVIOUS
<1>4. Owner[t] = {u}
  BY <1>2, <1>3, OwnerAssumption
<1> QED BY <1>2, <1>3, <1>4

(* For Anonymous exactly when the setting says so, and otherwise for the   *)
(* owner of the token that was sent; for nobody only a listing without one.*)
THEOREM CarriedOutForOwner ==
    ASSUME ModeIsWrittenOnce
    PROVE  Spec => []ActsAsOwner
<1>1. ASSUME IInv, NEW x \in Exchanges, carried[x] # None
      PROVE  LET deed == carried[x].deed IN
             /\ deed.user = IF InForce("authenticationmode") = {Text("none")} THEN {Anonymous}
                            ELSE UNION {Owner[t] : t \in wire[x].token}
             /\ deed.user = {} => MayDoWithout(deed.op) /\ wire[x].token = {}
  <2>1. Course(x) /\ Process
    BY <1>1 DEF IInv
  <2>2. /\ pc[x] # "none" /\ config # {} /\ Taken(x) /\ carried[x].deed = job[x]
    BY <1>1, <2>1 DEF Course, Carried, Asked
  <2>3. PICK s \in HandleOidc(wire[x].token) : ~s.error /\ job[x].user = s.user
    BY <2>2 DEF Taken, JobAt
  <2>4. CASE env.authenticationMode = "none"
    <3>1. job[x].user = {Anonymous}
      BY <2>3, <2>4 DEF HandleOidc, User
    <3> QED BY <2>1, <2>2, <2>4, <3>1, ModeInForce
  <2>5. CASE env.authenticationMode # "none"
    <3>1. PICK u \in UNION {Owner[t] : t \in wire[x].token} : job[x].user = {u}
      BY <2>3, <2>5 DEF HandleOidc, User, Refused
    <3>2. UNION {Owner[t] : t \in wire[x].token} = {u}
      BY <1>1, <2>2, TokensHaveOneOwner
    <3> QED BY <2>1, <2>2, <2>5, <3>1, <3>2, ModeInForce
  <2> QED BY <2>4, <2>5
<1>2. IInv => ActsAsOwner
  BY <1>1 DEF ActsAsOwner
<1> QED BY <1>2, Invariance, PTL

-----------------------------------------------------------------------------
(* What a page of another origin can do.                                   *)

LEMMA PagesOnlyRead ==
    ASSUME NEW a, NEW w, SentFor(a, w), a.origin # {}, ~Blocked(w, a.origin)
    PROVE  a.op # "installService" /\ w.header = {} /\ w.token \cap Bound = {}
<1>1. CASE a.op = "installService"
  <2>1. w.method = "PUT"
    BY <1>1 DEF SentFor, Request
  <2> QED BY <2>1 DEF Blocked, Preflighted, AllowedMethods
<1>2. CASE a.op # "installService"
  <2>1. ASSUME NEW h \in w.header
        PROVE  FALSE
    <3>1. h.name = "Last-Event-ID"
      BY <1>2, <2>1 DEF SentFor, Get, Request, Header, HeaderName
    <3>2. h.name \in HeaderNames(w)
      BY <2>1 DEF HeaderNames
    <3> QED BY <3>1, <3>2 DEF Blocked, Preflighted, AllowedHeaders
  <2>2. ASSUME NEW t \in w.token \cap Bound
        PROVE  FALSE
    <3>1. "DPoP" \in HeaderNames(w)
      BY <2>2 DEF HeaderNames
    <3> QED BY <3>1 DEF Blocked, Preflighted, AllowedHeaders
  <2> QED BY <1>2, <2>1, <2>2
<1> QED BY <1>1, <1>2

(* A page of another origin can neither install nor say which project or   *)
(* event it means nor use a bound token, and hears a response only from a  *)
(* process that goes by a list of origins that admits its own.             *)
THEOREM PagesOnlyAsk == Spec => []OtherOriginsOnlyRead
<1>1. ASSUME IInv, NEW x \in Exchanges, ask[x] # NoAsk, ask[x].op # "raw", ask[x].origin # {}
      PROVE  /\ carried[x] # None =>
                   /\ carried[x].deed.op # "installService" /\ wire[x].header = {}
                   /\ wire[x].token \cap Bound = {}
             /\ heard[x].response # {} =>
                   \E s \in InForce("security::corsallowedorigins") :
                      Admits(Origins(s), The(ask[x].origin))
  <2>1. Course(x) /\ Process
    BY <1>1 DEF IInv
  <2>2. ASSUME carried[x] # None
        PROVE  /\ carried[x].deed.op # "installService" /\ wire[x].header = {}
               /\ wire[x].token \cap Bound = {}
    <3>1. /\ pc[x] # "none" /\ Taken(x) /\ carried[x].deed = job[x] /\ Sent(x)
      BY <2>1, <2>2 DEF Course, Carried, Asked
    <3>2. ask[x] \notin Raws[x]
      BY <1>1, AsksAssumption
    <3>3. /\ ask[x] \in Asks[x] /\ SentFor(ask[x], wire[x]) /\ ~Blocked(wire[x], ask[x].origin)
      BY <3>1, <3>2 DEF Sent
    <3>4. /\ ask[x].op # "installService" /\ wire[x].header = {}
          /\ wire[x].token \cap Bound = {}
      BY <1>1, <3>3, PagesOnlyRead
    <3>5. job[x].op = ask[x].op
      BY <1>1, <3>1, <3>3, TakenAsAsked
    <3> QED BY <3>1, <3>4, <3>5
  <2>3. ASSUME heard[x].response # {}
        PROVE  \E s \in InForce("security::corsallowedorigins") :
                  Admits(Origins(s), The(ask[x].origin))
    <3>1. config # {} /\ AllowedOrigin(The(ask[x].origin))
      BY <1>1, <2>1, <2>3 DEF Course, HeardOf, Asked, The
    <3>2. PICK s \in InForce("security::corsallowedorigins") :
              env.corsAllowedOrigins = Origins(s)
      BY <2>1, <3>1, EnvironmentIs
    <3> QED BY <3>1, <3>2 DEF AllowedOrigin
  <2> QED BY <2>2, <2>3
<1>2. IInv => OtherOriginsOnlyRead
  BY <1>1 DEF OtherOriginsOnlyRead
<1> QED BY <1>2, Invariance, PTL

-----------------------------------------------------------------------------
(* What arrives.                                                           *)

(* An identifier survives its way through a path, and becomes no name of a *)
(* branch there.                                                           *)
LEMMA Unescapes ==
    ASSUME NEW x \in Exchanges, NEW a \in Asks[x], NEW f \in InPath, f \in DOMAIN a.params
    PROVE  /\ PathUnescape(PathEscape(a.params[f])) = a.params[f]
           /\ PathEscape(a.params[f]) \in Reserved <=> a.params[f] \in Reserved
<1>1. PICK id : id = a.params[f]
  OBVIOUS
<1>2. CASE id \in Slashed
  <2>1. PathEscape(id) = Escaped(id)
    BY <1>2 DEF PathEscape
  <2>2. \A i \in Slashed : Escaped(i) = Escaped(id) => i = id
    BY <1>2, EscapeAssumption
  <2>3. PathUnescape(Escaped(id)) = id
    BY <1>2, <2>2 DEF PathUnescape
  <2>4. id \notin Reserved /\ Escaped(id) \notin Reserved
    BY <1>2, EscapeAssumption
  <2> QED BY <1>1, <2>1, <2>3, <2>4
<1>3. CASE id \notin Slashed
  <2>1. PathEscape(id) = id
    BY <1>3 DEF PathEscape
  <2>2. \A i \in Slashed : Escaped(i) # id
    BY <1>1, <1>3, EscapeAssumption
  <2>3. PathUnescape(id) = id
    BY <2>2 DEF PathUnescape
  <2> QED BY <1>1, <2>1, <2>3
<1> QED BY <1>2, <1>3

LEMMA ValueOfSegment ==
    ASSUME NEW path, NEW k \in DOMAIN path, NEW id, path[k] = PathEscape(id),
           PathUnescape(PathEscape(id)) = id
    PROVE  Value(path[k], IsEscaped(path)) = id
<1>1. CASE IsEscaped(path)
  BY <1>1 DEF Value
<1>2. CASE ~IsEscaped(path)
  <2>1. PathUnescape(path[k]) = path[k]
    BY <1>2 DEF IsEscaped
  <2> QED BY <1>2, <2>1 DEF Value
<1> QED BY <1>1, <1>2

(* The parameters of one, two or three segments.                           *)
EmptyText == ""   \* what a parameter of a path must not be

LEMMA PathParamsOf1 ==
    ASSUME NEW args, NEW escaped, NEW u, DOMAIN args = {1}, Value(args[1], escaped) = u
    PROVE  /\ u = "" => PathParams(args, escaped) = {}
           /\ u # "" => PathParams(args, escaped) = {<<u>>}
<1>1. PICK values : values = [k \in DOMAIN args |-> Value(args[k], escaped)]
  OBVIOUS
<1>2. values = <<u>>
  BY <1>1
<1>3. CASE u = ""
  BY <1>3 DEF PathParams
<1>4. CASE u # ""
  <2>1. ~\E k \in DOMAIN args : Value(args[k], escaped) = ""
    BY <1>4
  <2>2. PathParams(args, escaped) = {values}
    BY <1>1, <2>1 DEF PathParams
  <2> QED BY <1>2, <1>4, <2>2
<1> QED BY <1>3, <1>4

LEMMA PathParamsOf2 ==
    ASSUME NEW args, NEW escaped, NEW u, NEW v, DOMAIN args = {1, 2},
           Value(args[1], escaped) = u, Value(args[2], escaped) = v
    PROVE  /\ EmptyText \in {u, v} => PathParams(args, escaped) = {}
           /\ EmptyText \notin {u, v} => PathParams(args, escaped) = {<<u, v>>}
<1>1. PICK values : values = [k \in DOMAIN args |-> Value(args[k], escaped)]
  OBVIOUS
<1>2. values = <<u, v>>
  BY <1>1
<1>3. CASE EmptyText \in {u, v}
  BY <1>3 DEF PathParams, EmptyText
<1>4. CASE EmptyText \notin {u, v}
  <2>1. ~\E k \in DOMAIN args : Value(args[k], escaped) = ""
    BY <1>4 DEF EmptyText
  <2>2. PathParams(args, escaped) = {values}
    BY <1>1, <2>1 DEF PathParams
  <2> QED BY <1>2, <1>4, <2>2
<1> QED BY <1>3, <1>4

LEMMA PathParamsOf3 ==
    ASSUME NEW args, NEW escaped, NEW u, NEW v, NEW t, DOMAIN args = {1, 2, 3},
           Value(args[1], escaped) = u, Value(args[2], escaped) = v, Value(args[3], escaped) = t
    PROVE  /\ EmptyText \in {u, v, t} => PathParams(args, escaped) = {}
           /\ EmptyText \notin {u, v, t} => PathParams(args, escaped) = {<<u, v, t>>}
<1>1. PICK values : values = [k \in DOMAIN args |-> Value(args[k], escaped)]
  OBVIOUS
<1>2. values = <<u, v, t>>
  BY <1>1
<1>3. CASE EmptyText \in {u, v, t}
  BY <1>3 DEF PathParams, EmptyText
<1>4. CASE EmptyText \notin {u, v, t}
  <2>1. ~\E k \in DOMAIN args : Value(args[k], escaped) = ""
    BY <1>4 DEF EmptyText
  <2>2. PathParams(args, escaped) = {values}
    BY <1>1, <2>1 DEF PathParams
  <2> QED BY <1>2, <1>4, <2>2
<1> QED BY <1>3, <1>4

LEMMA HeaderValues ==
    ASSUME NEW op, NEW values, NEW w, w.header = Header(HeaderName(op), values)
    PROVE  HeaderValue(w, op) = values
<1>1. PICK header : header = {g \in w.header : g.name = HeaderName(op)}
  OBVIOUS
<1>2. \A v \in values : [name |-> HeaderName(op), value |-> v] \in header
  BY <1>1 DEF Header
<1>3. \A h \in header : h.value \in values
  BY <1>1 DEF Header
<1>4. \A v \in values : \E h \in header : h.value = v
  BY <1>2
<1>5. {h.value : h \in header} = values
  BY <1>3, <1>4
<1> QED BY <1>1, <1>5 DEF HeaderValue

LEMMA ParamsAre ==
    ASSUME NEW x \in Exchanges, NEW a \in Asks[x]
    PROVE  a.params = [f \in ParamsOf[a.op] |-> a.params[f]]
BY AsksAssumption DEF HasFields

(* Complete, of the parameters an operation has.                           *)
LEMMA CompleteOf ==
    ASSUME NEW x \in Exchanges, NEW a \in Asks[x]
    PROVE  Complete(a.params) <=>
              /\ \A f \in InPath \cap ParamsOf[a.op] : a.params[f] # ""
              /\ "releaseId" \in ParamsOf[a.op] => a.params.releaseId \in ReleaseIds
<1>1. a.params = [f \in ParamsOf[a.op] |-> a.params[f]]
  BY ParamsAre
<1>2. DOMAIN a.params = ParamsOf[a.op]
  BY <1>1
<1> QED BY <1>2 DEF Complete

LEMMA PackageParamsArrive ==
    ASSUME NEW x \in Exchanges, NEW a \in Asks[x], a.op = "getMyPackage",
           NEW w, SentFor(a, w), NEW leaf \in Route(w.path)
    PROVE  ParamsAt(leaf, w) = IF Complete(a.params) THEN {a.params} ELSE {}
<1>1. PICK c, n : c = a.params["catalogId"] /\ n = a.params["packageName"]
  OBVIOUS
<1>2. ParamsOf[a.op] = {"catalogId", "packageName"} /\ {"catalogId", "packageName"} \subseteq InPath
  BY DEF ParamsOf, InPath
<1>3. a.params = [f \in {"catalogId", "packageName"} |-> a.params[f]]
  BY <1>2, ParamsAre
<1>4. w.path = <<"catalogs", PathEscape(c), "packages", PathEscape(n)>>
  BY <1>1 DEF SentFor, Get, Request
<1>5. leaf.op = "getMyPackage" /\ leaf.args = <<w.path[2], w.path[4]>>
  <2>1. Route(w.path) = LeafOf(a, <<w.path[2], w.path[4]>>, w.method)
    BY RouteOfSent
  <2> QED BY <2>1 DEF LeafOf, Leaf
<1>6. PICK escaped : escaped = IsEscaped(w.path)
  OBVIOUS
<1>7. Value(w.path[2], escaped) = c /\ Value(w.path[4], escaped) = n
  <2>1. PathUnescape(PathEscape(c)) = c /\ PathUnescape(PathEscape(n)) = n
    BY <1>1, <1>2, <1>3, Unescapes
  <2>2. /\ 2 \in DOMAIN w.path /\ 4 \in DOMAIN w.path
        /\ w.path[2] = PathEscape(c) /\ w.path[4] = PathEscape(n)
    BY <1>4
  <2> QED BY <1>6, <2>1, <2>2, ValueOfSegment
<1>8. /\ "" \in {c, n} => PathParams(leaf.args, escaped) = {}
      /\ "" \notin {c, n} => PathParams(leaf.args, escaped) = {<<c, n>>}
  <2>1. PICK args : args = leaf.args
    OBVIOUS
  <2>2. DOMAIN args = {1, 2} /\ Value(args[1], escaped) = c /\ Value(args[2], escaped) = n
    BY <1>5, <1>7, <2>1
  <2>3. /\ EmptyText \in {c, n} => PathParams(args, escaped) = {}
        /\ EmptyText \notin {c, n} => PathParams(args, escaped) = {<<c, n>>}
    BY <2>2, PathParamsOf2
  <2> QED BY <2>1, <2>3, Zenon DEF EmptyText
<1>9. ParamsAt(leaf, w) = decodeGetMyPackageParams(leaf.args, escaped, HeaderValue(w, leaf.op))
  BY <1>5, <1>6 DEF ParamsAt, ParamsRead
<1>10. /\ "" \in {c, n} => ParamsAt(leaf, w) = {}
       /\ "" \notin {c, n} => ParamsAt(leaf, w) = {[catalogId |-> c, packageName |-> n]}
  <2>1. CASE "" \in {c, n}
    BY <1>8, <1>9, <2>1 DEF decodeGetMyPackageParams
  <2>2. CASE "" \notin {c, n}
    <3>1. PICK p : p = <<c, n>>
      OBVIOUS
    <3>2. p[1] = c /\ p[2] = n
      BY <3>1
    <3>3. PathParams(leaf.args, escaped) = {p}
      BY <1>8, <2>2, <3>1
    <3> QED BY <1>9, <2>2, <3>2, <3>3 DEF decodeGetMyPackageParams
  <2> QED BY <2>1, <2>2
<1>11. [catalogId |-> c, packageName |-> n] = a.params
  BY <1>1, <1>3
<1>12. Complete(a.params) <=> "" \notin {c, n}
  BY <1>1, <1>2, CompleteOf
<1> QED BY <1>10, <1>11, <1>12

LEMMA SchemaParamsArrive ==
    ASSUME NEW x \in Exchanges, NEW a \in Asks[x], a.op = "getPackageSchema",
           NEW w, SentFor(a, w), NEW leaf \in Route(w.path)
    PROVE  ParamsAt(leaf, w) = IF Complete(a.params) THEN {a.params} ELSE {}
<1>1. PICK c, n, v :
         c = a.params["catalogId"] /\ n = a.params["packageName"] /\ v = a.params["version"]
  OBVIOUS
<1>2. /\ ParamsOf[a.op] = {"catalogId", "packageName", "version"}
      /\ {"catalogId", "packageName", "version"} \subseteq InPath
  BY DEF ParamsOf, InPath
<1>3. a.params = [f \in {"catalogId", "packageName", "version"} |-> a.params[f]]
  BY <1>2, ParamsAre
<1>4. w.path = <<"schemas", PathEscape(c), "packageName", PathEscape(n), "versions", PathEscape(v)>>
  BY <1>1 DEF SentFor, Get, Request
<1>5. leaf.op = "getPackageSchema" /\ leaf.args = <<w.path[2], w.path[4], w.path[6]>>
  <2>1. Route(w.path) = LeafOf(a, <<w.path[2], w.path[4], w.path[6]>>, w.method)
    BY RouteOfSent
  <2> QED BY <2>1 DEF LeafOf, Leaf
<1>6. PICK escaped : escaped = IsEscaped(w.path)
  OBVIOUS
<1>7. Value(w.path[2], escaped) = c /\ Value(w.path[4], escaped) = n /\ Value(w.path[6], escaped) = v
  <2>1. /\ PathUnescape(PathEscape(c)) = c /\ PathUnescape(PathEscape(n)) = n
        /\ PathUnescape(PathEscape(v)) = v
    BY <1>1, <1>2, <1>3, Unescapes
  <2>2. /\ 2 \in DOMAIN w.path /\ 4 \in DOMAIN w.path /\ 6 \in DOMAIN w.path
        /\ w.path[2] = PathEscape(c) /\ w.path[4] = PathEscape(n) /\ w.path[6] = PathEscape(v)
    BY <1>4
  <2> QED BY <1>6, <2>1, <2>2, ValueOfSegment
<1>8. /\ "" \in {c, n, v} => PathParams(leaf.args, escaped) = {}
      /\ "" \notin {c, n, v} => PathParams(leaf.args, escaped) = {<<c, n, v>>}
  <2>1. PICK args : args = leaf.args
    OBVIOUS
  <2>2. /\ DOMAIN args = {1, 2, 3} /\ Value(args[1], escaped) = c
        /\ Value(args[2], escaped) = n /\ Value(args[3], escaped) = v
    BY <1>5, <1>7, <2>1
  <2>3. /\ EmptyText \in {c, n, v} => PathParams(args, escaped) = {}
        /\ EmptyText \notin {c, n, v} => PathParams(args, escaped) = {<<c, n, v>>}
    BY <2>2, PathParamsOf3
  <2> QED BY <2>1, <2>3, Zenon DEF EmptyText
<1>9. ParamsAt(leaf, w) =
         decodeGetPackageSchemaParams(leaf.args, escaped, HeaderValue(w, leaf.op))
  BY <1>5, <1>6 DEF ParamsAt, ParamsRead
<1>10. /\ "" \in {c, n, v} => ParamsAt(leaf, w) = {}
       /\ "" \notin {c, n, v} =>
             ParamsAt(leaf, w) = {[catalogId |-> c, packageName |-> n, version |-> v]}
  <2>1. CASE "" \in {c, n, v}
    BY <1>8, <1>9, <2>1 DEF decodeGetPackageSchemaParams
  <2>2. CASE "" \notin {c, n, v}
    <3>1. PICK p : p = <<c, n, v>>
      OBVIOUS
    <3>2. p[1] = c /\ p[2] = n /\ p[3] = v
      BY <3>1
    <3>3. PathParams(leaf.args, escaped) = {p}
      BY <1>8, <2>2, <3>1
    <3> QED BY <1>9, <2>2, <3>2, <3>3 DEF decodeGetPackageSchemaParams
  <2> QED BY <2>1, <2>2
<1>11. [catalogId |-> c, packageName |-> n, version |-> v] = a.params
  BY <1>1, <1>3
<1>12. Complete(a.params) <=> "" \notin {c, n, v}
  BY <1>1, <1>2, CompleteOf
<1> QED BY <1>10, <1>11, <1>12

(* The operations with a release: one segment, and one header.             *)
LEMMA ReleaseParamsArrive ==
    ASSUME NEW x \in Exchanges, NEW a \in Asks[x],
           a.op \in {"installService", "watchRelease", "watchResources"},
           NEW w, SentFor(a, w), NEW leaf \in Route(w.path)
    PROVE  ParamsAt(leaf, w) = IF Complete(a.params) THEN {a.params} ELSE {}
<1>1. PICK r, name, g, k :
        /\ r = a.params["releaseId"] /\ g = a.params[name]
        /\ name = (IF a.op = "installService" THEN "project" ELSE "lastEventID")
        /\ k = (IF a.op = "installService" THEN 1 ELSE 2)
  OBVIOUS
<1>2. /\ ParamsOf[a.op] = {"releaseId", name} /\ "releaseId" \in InPath /\ name \notin InPath
      /\ name # "releaseId"
  BY <1>1 DEF ParamsOf, InPath
<1>3. a.params = [f \in {"releaseId", name} |-> a.params[f]]
  BY <1>2, ParamsAre
<1>4. /\ k \in DOMAIN w.path /\ w.path[k] = PathEscape(r)
      /\ w.header = Header(HeaderName(a.op), g)
  <2>1. CASE a.op = "installService"
    <3>1. w.path = <<PathEscape(r), "install">> /\ w.header = Header(HeaderName(a.op), g)
      BY <1>1, <2>1 DEF SentFor, Request
    <3> QED BY <1>1, <2>1, <3>1
  <2>2. CASE a.op = "watchRelease"
    <3>1. /\ w.path = <<"events", PathEscape(r), "watch-release">>
          /\ w.header = Header(HeaderName(a.op), g)
      BY <1>1, <2>2 DEF SentFor, Get, Request
    <3> QED BY <1>1, <2>2, <3>1
  <2>3. CASE a.op = "watchResources"
    <3>1. /\ w.path = <<"events", PathEscape(r), "watch-resources">>
          /\ w.header = Header(HeaderName(a.op), g)
      BY <1>1, <2>3 DEF SentFor, Get, Request
    <3> QED BY <1>1, <2>3, <3>1
  <2> QED BY <2>1, <2>2, <2>3
<1>5. leaf.op = a.op /\ leaf.args = <<w.path[k]>>
  <2>1. Route(w.path) = LeafOf(a, <<w.path[k]>>, w.method)
    BY <1>1, RouteOfSent
  <2> QED BY <2>1 DEF LeafOf, Leaf
<1>6. PICK escaped : escaped = IsEscaped(w.path)
  OBVIOUS
<1>7. Value(w.path[k], escaped) = r
  <2>1. PathUnescape(PathEscape(r)) = r
    BY <1>1, <1>2, <1>3, Unescapes
  <2> QED BY <1>4, <1>6, <2>1, ValueOfSegment
<1>8. /\ r = "" => PathParams(leaf.args, escaped) = {}
      /\ r # "" => PathParams(leaf.args, escaped) = {<<r>>}
  <2>1. DOMAIN leaf.args = {1} /\ leaf.args[1] = w.path[k]
    BY <1>5
  <2> QED BY <1>7, <2>1, PathParamsOf1
<1>9. PICK p : p = <<r>>
  OBVIOUS
<1>10. HeaderValue(w, a.op) = g
  BY <1>4, HeaderValues
<1>11. ReleaseParam(leaf.args, escaped) = IF Complete(a.params) THEN {p} ELSE {}
  <2>1. Complete(a.params) <=> r # "" /\ r \in ReleaseIds
    BY <1>1, <1>2, CompleteOf
  <2>2. p[1] = r
    BY <1>9
  <2>3. CASE r = ""
    BY <1>8, <2>1, <2>3 DEF ReleaseParam
  <2>4. CASE r # ""
    <3>1. PathParams(leaf.args, escaped) = {p}
      BY <1>8, <1>9, <2>4
    <3> QED BY <2>1, <2>2, <2>4, <3>1 DEF ReleaseParam
  <2> QED BY <2>3, <2>4
<1>12. CASE a.op = "installService"
  <2>1. ParamsAt(leaf, w) = decodeInstallServiceParams(leaf.args, escaped, g)
    BY <1>5, <1>6, <1>10, <1>12 DEF ParamsAt, ParamsRead
  <2>2. ParamsAt(leaf, w) =
           IF Complete(a.params) THEN {[releaseId |-> r, project |-> g]} ELSE {}
    <3>1. CASE Complete(a.params)
      BY <1>9, <1>11, <2>1, <3>1 DEF decodeInstallServiceParams
    <3>2. CASE ~Complete(a.params)
      BY <1>11, <2>1, <3>2 DEF decodeInstallServiceParams
    <3> QED BY <3>1, <3>2
  <2>3. name = "project" /\ [releaseId |-> r, project |-> g] = a.params
    BY <1>1, <1>3, <1>12
  <2> QED BY <2>2, <2>3
<1>13. CASE a.op = "watchRelease"
  <2>1. ParamsAt(leaf, w) = decodeWatchReleaseParams(leaf.args, escaped, g)
    BY <1>5, <1>6, <1>10, <1>13 DEF ParamsAt, ParamsRead
  <2>2. ParamsAt(leaf, w) =
           IF Complete(a.params) THEN {[releaseId |-> r, lastEventID |-> g]} ELSE {}
    <3>1. CASE Complete(a.params)
      BY <1>9, <1>11, <2>1, <3>1 DEF decodeWatchReleaseParams
    <3>2. CASE ~Complete(a.params)
      BY <1>11, <2>1, <3>2 DEF decodeWatchReleaseParams
    <3> QED BY <3>1, <3>2
  <2>3. name = "lastEventID" /\ [releaseId |-> r, lastEventID |-> g] = a.params
    BY <1>1, <1>3, <1>13
  <2> QED BY <2>2, <2>3
<1>14. CASE a.op = "watchResources"
  <2>1. ParamsAt(leaf, w) = decodeWatchResourcesParams(leaf.args, escaped, g)
    BY <1>5, <1>6, <1>10, <1>14 DEF ParamsAt, ParamsRead
  <2>2. ParamsAt(leaf, w) =
           IF Complete(a.params) THEN {[releaseId |-> r, lastEventID |-> g]} ELSE {}
    <3>1. CASE Complete(a.params)
      BY <1>9, <1>11, <2>1, <3>1 DEF decodeWatchResourcesParams
    <3>2. CASE ~Complete(a.params)
      BY <1>11, <2>1, <3>2 DEF decodeWatchResourcesParams
    <3> QED BY <3>1, <3>2
  <2>3. name = "lastEventID" /\ [releaseId |-> r, lastEventID |-> g] = a.params
    BY <1>1, <1>3, <1>14
  <2> QED BY <2>2, <2>3
<1> QED BY <1>12, <1>13, <1>14

(* The server reads the parameters that the client was given, unless one is*)
(* missing or no release id.                                               *)
LEMMA ParamsArrive ==
    ASSUME NEW x \in Exchanges, NEW a \in Asks[x],
           NEW w, SentFor(a, w), NEW leaf \in Route(w.path)
    PROVE  ParamsAt(leaf, w) = IF Complete(a.params) THEN {a.params} ELSE {}
<1>1. CASE a.op = "getMyCatalogs"
  <2>1. leaf.op = a.op
    BY SentArrives
  <2>2. ParamsAt(leaf, w) = {NoParams}
    BY <1>1, <2>1 DEF ParamsAt, ParamsRead, decodeNoParams
  <2>3. ParamsOf[a.op] = {}
    BY <1>1 DEF ParamsOf
  <2>4. a.params = [f \in {} |-> a.params[f]]
    BY <2>3, ParamsAre
  <2>5. a.params = NoParams
    BY <2>4 DEF NoParams, NoField
  <2>6. Complete(a.params)
    BY <2>3, CompleteOf
  <2> QED BY <2>2, <2>5, <2>6
<1>2. a.op \in Operations
  BY AsksAssumption
<1> QED BY <1>1, <1>2, PackageParamsArrive, SchemaParamsArrive, ReleaseParamsArrive DEF Operations

(* And the body: the request the client was given, share filled in.        *)
LEMMA RequestArrives ==
    ASSUME NEW x \in Exchanges, NEW a \in Asks[x],
           NEW w, SentFor(a, w), NEW leaf \in Route(w.path)
    PROVE  RequestRead(leaf.op, w) =
              [request |-> {[r EXCEPT !.share = OrFalse(@)] : r \in a.request}, error |-> "none"]
<1>1. leaf.op = a.op
  BY SentArrives
<1>2. CASE a.op = "installService"
  <2>1. PICK r \in a.request : a.request = {r} /\ IsServiceInstallRequest(r)
    BY <1>2, AsksAssumption
  <2>2. w.ct = JsonType /\ w.body = EncodeServiceInstallRequest(r)
    <3>1. The(a.request) = r
      BY <2>1, TheOnly
    <3> QED BY <1>2, <3>1 DEF SentFor, Request
  <2>3. PICK s : s = [r EXCEPT !.share = OrFalse(@)]
    OBVIOUS
  <2>4. DecodeServiceInstallRequest(w.body) = {s}
    BY <2>1, <2>2, <2>3, RequestIsRead
  <2>5. decodeInstallServiceRequest(w.ct, w.body) = [request |-> {s}, error |-> "none"]
    BY <2>2, <2>4, TheOnly DEF decodeInstallServiceRequest, Decoded
  <2>6. {[q EXCEPT !.share = OrFalse(@)] : q \in a.request} = {s}
    BY <2>1, <2>3
  <2> QED BY <1>1, <1>2, <2>5, <2>6 DEF RequestRead
<1>3. CASE a.op # "installService"
  <2>1. a.request = {}
    BY <1>3, AsksAssumption
  <2>2. {[r EXCEPT !.share = OrFalse(@)] : r \in a.request} = {}
    BY <2>1
  <2> QED BY <1>1, <1>3, <2>2 DEF RequestRead, decodeNoRequest
<1> QED BY <1>2, <1>3

(* What a call is for, and that the router finds it or not.                *)
LEMMA RouteFound ==
    ASSUME NEW x \in Exchanges, NEW a \in Asks[x], NEW w, SentFor(a, w)
    PROVE  Route(w.path) = {} <=> a.op = "installService" /\ a.params.releaseId \in Reserved
<1>1. CASE a.op = "installService"
  <2>1. ParamsOf[a.op] = {"releaseId", "project"} /\ "releaseId" \in InPath
    BY <1>1 DEF ParamsOf, InPath
  <2>2. a.params = [f \in {"releaseId", "project"} |-> a.params[f]]
    BY <2>1, ParamsAre
  <2>3. PathEscape(a.params["releaseId"]) \in Reserved <=> a.params["releaseId"] \in Reserved
    BY <2>1, <2>2, Unescapes
  <2>4. w.path = <<PathEscape(a.params["releaseId"]), "install">>
    BY <1>1 DEF SentFor, Request
  <2>5. w.path[1] = PathEscape(a.params["releaseId"])
    BY <2>4
  <2> QED BY <1>1, <2>3, <2>5, RouteOfSent DEF LeafOf, Leaf
<1>2. CASE a.op # "installService"
  BY <1>2, RouteOfSent DEF LeafOf, Leaf
<1> QED BY <1>1, <1>2

(* What else a call is answered with.                                      *)
LEMMA NoAnswerOfTheRouter ==
    ASSUME NEW answered,
           \/ answered = Recoverer
           \/ \E e : /\ e \notin {"DecodeParams", "DecodeRequest", "ContentType"}
                     /\ answered = DefaultErrorHandler(e)
           \/ \E op, r : SuccessOf(op, r.type) /\ answered = Encoded(op, r)
    PROVE  answered # notFound /\ answered.status \notin {400, 405, 415}
<1>1. notFound.ct = "text/plain"
  BY DEF notFound, Answer
<1>2. CASE answered = Recoverer
  <2>1. Recoverer.ct = "" /\ Recoverer.status = 500
    BY DEF Recoverer, Empty, Answer, NoType
  <2>2. answered.ct # "text/plain" /\ answered.status = 500
    BY <1>2, <2>1
  <2> QED BY <1>1, <2>2
<1>3. ASSUME NEW e, e \notin {"DecodeParams", "DecodeRequest", "ContentType"},
             answered = DefaultErrorHandler(e)
      PROVE  answered # notFound /\ answered.status \notin {400, 405, 415}
  BY <1>1, <1>3, ErrorsWritten DEF JsonType
<1>4. ASSUME NEW op, NEW r, SuccessOf(op, r.type), answered = Encoded(op, r)
      PROVE  answered # notFound /\ answered.status \notin {400, 405, 415}
  BY <1>1, <1>4, ResponsesWritten DEF JsonType, ProblemType
<1> QED BY <1>2, <1>3, <1>4

LEMMA AnswersArrived ==
    ASSUME IInv, NEW x \in Exchanges, pc[x] = "answered", ask[x].op # "raw",
           Complete(ask[x].params)
    PROVE  /\ answer[x] = notFound <=> Route(wire[x].path) = {}
           /\ answer[x].status \notin {400, 405, 415}
<1>1. Course(x) /\ pc[x] # "none"
  BY DEF IInv
<1>2. ask[x] \in Asks[x] /\ SentFor(ask[x], wire[x])
  BY <1>1, AsksAssumption DEF Course, Asked, Sent
<1>3. /\ \A leaf \in Route(wire[x].path) :
            /\ leaf.method = wire[x].method
            /\ ParamsAt(leaf, wire[x]) # {}
            /\ RequestRead(leaf.op, wire[x]).error = "none"
  <2>1. ASSUME NEW leaf \in Route(wire[x].path)
        PROVE  RequestRead(leaf.op, wire[x]).error = "none"
    <3>1. PICK body : body = {[r EXCEPT !.share = OrFalse(@)] : r \in ask[x].request}
      OBVIOUS
    <3>2. RequestRead(leaf.op, wire[x]) = [request |-> body, error |-> "none"]
      BY <1>2, <3>1, RequestArrives
    <3> QED BY <3>2
  <2>2. ASSUME NEW leaf \in Route(wire[x].path)
        PROVE  leaf.method = wire[x].method /\ ParamsAt(leaf, wire[x]) # {}
    <3>1. ParamsAt(leaf, wire[x]) = {ask[x].params}
      BY <1>2, ParamsArrive
    <3>2. leaf.method = wire[x].method
      BY <1>2, SentArrives
    <3> QED BY <3>1, <3>2
  <2> QED BY <2>1, <2>2
<1>4. AnsweredByRouter(x) \/ AnsweredByHandler(x) \/ AnsweredByController(x)
  BY <1>1 DEF Course, Answered
<1>5. CASE AnsweredByRouter(x)
  <2>1. Route(wire[x].path) = {} /\ answer[x] = notFound
    BY <1>3, <1>5 DEF AnsweredByRouter
  <2> QED BY <2>1 DEF notFound, Answer
<1>6. CASE AnsweredByHandler(x)
  <2>1. CASE Taken(x) /\ answer[x] = Recoverer
    BY <2>1, NoAnswerOfTheRouter DEF Taken
  <2>2. ASSUME NEW leaf \in Route(wire[x].path),
               NEW e \in {"Security", "DecodeParams", "DecodeRequest", "ContentType"},
               RefusedAt(leaf, wire[x], e), answer[x] = DefaultErrorHandler(e)
        PROVE  /\ answer[x] = notFound <=> Route(wire[x].path) = {}
               /\ answer[x].status \notin {400, 405, 415}
    <3>1. e = "Security"
      BY <1>3, <2>2 DEF RefusedAt
    <3> QED BY <2>2, <3>1, NoAnswerOfTheRouter
  <2> QED BY <1>6, <2>1, <2>2 DEF AnsweredByHandler
<1>7. CASE AnsweredByController(x)
  <2>1. CASE result[x].error # "none"
    <3>1. result[x].error \in {"Internal", "NotImplemented"}
      BY <1>7, <2>1 DEF AnsweredByController, Given
    <3>2. answer[x] = DefaultErrorHandler(result[x].error)
      BY <1>7, <2>1 DEF AnsweredByController
    <3> QED BY <1>7, <3>1, <3>2, NoAnswerOfTheRouter DEF AnsweredByController, Taken
  <2>2. CASE result[x].error = "none"
    <3>1. PICK s \in result[x].response : result[x].response = {s} /\ SuccessOf(job[x].op, s.type)
      BY <1>7, <2>2 DEF AnsweredByController, Given
    <3>2. answer[x] = Encoded(job[x].op, s)
      BY <1>7, <2>2, <3>1, TheOnly DEF AnsweredByController
    <3> QED BY <1>7, <3>1, <3>2, NoAnswerOfTheRouter DEF AnsweredByController, Taken
  <2> QED BY <2>1, <2>2
<1> QED BY <1>4, <1>5, <1>6, <1>7

(* A complete call gets to its operation, installations of a release that  *)
(* has the name of a branch of the router left aside; one that is not      *)
(* complete is not carried out.                                            *)
THEOREM CompleteCallsArrive == Spec => []CallsArrive
<1>1. ASSUME IInv, NEW x \in Exchanges, pc[x] = "answered", ask[x].op # "raw"
      PROVE  /\ Complete(ask[x].params) /\ ~BranchName(ask[x])
                   => answer[x] # notFound /\ answer[x].status \notin {400, 405, 415}
             /\ ~Complete(ask[x].params) => carried[x] = None
  <2>1. Course(x) /\ pc[x] # "none"
    BY <1>1 DEF IInv
  <2>2. ask[x] \in Asks[x] /\ SentFor(ask[x], wire[x])
    BY <1>1, <2>1, AsksAssumption DEF Course, Asked, Sent
  <2>3. Route(wire[x].path) = {} <=> BranchName(ask[x])
    BY <2>2, RouteFound DEF BranchName
  <2>4. CASE Complete(ask[x].params)
    BY <1>1, <2>3, <2>4, AnswersArrived
  <2>5. CASE ~Complete(ask[x].params)
    <3>1. ~Taken(x)
      BY <2>2, <2>5, ParamsArrive DEF Taken, JobAt
    <3> QED BY <2>1, <2>5, <3>1 DEF Course, Carried
  <2> QED BY <2>4, <2>5
<1>2. IInv => CallsArrive
  BY <1>1 DEF CallsArrive
<1> QED BY <1>2, Invariance, PTL

-----------------------------------------------------------------------------
(* Responses are read as they were written.                                *)

LEMMA ResponseIsRead ==
    ASSUME NEW op \in Operations, NEW r, IsResponse(op, r)
    PROVE  Read(op, Encoded(op, r)) = [response |-> {AsRead(r)}, error |-> "none"]
<1>1. CASE op = "getMyCatalogs"
  <2>1. Encoded(op, r) = encodeGetMyCatalogsResponse(r)
    BY <1>1, Zenon DEF Encoded
  <2>2. Read(op, Encoded(op, r)) = decodeGetMyCatalogsResponse(Encoded(op, r))
    BY <1>1, Zenon DEF Read
  <2> QED BY <1>1, <2>1, <2>2, CatalogsAreRead
<1>2. CASE op = "getMyPackage"
  <2>1. Encoded(op, r) = encodeGetMyPackageResponse(r)
    BY <1>2, Zenon DEF Encoded
  <2>2. Read(op, Encoded(op, r)) = decodeGetMyPackageResponse(Encoded(op, r))
    BY <1>2, Zenon DEF Read
  <2> QED BY <1>2, <2>1, <2>2, PackageIsRead
<1>3. CASE op = "getPackageSchema"
  <2>1. Encoded(op, r) = encodeGetPackageSchemaResponse(r)
    BY <1>3, Zenon DEF Encoded
  <2>2. Read(op, Encoded(op, r)) = decodeGetPackageSchemaResponse(Encoded(op, r))
    BY <1>3, Zenon DEF Read
  <2> QED BY <1>3, <2>1, <2>2, SchemaIsRead
<1>4. CASE op = "installService"
  <2>1. Encoded(op, r) = encodeInstallServiceResponse(r)
    BY <1>4, Zenon DEF Encoded
  <2>2. Read(op, Encoded(op, r)) = decodeInstallServiceResponse(Encoded(op, r))
    BY <1>4, Zenon DEF Read
  <2> QED BY <1>4, <2>1, <2>2, InstallationIsRead
<1>5. CASE op = "watchRelease"
  <2>1. Encoded(op, r) = encodeWatchReleaseResponse(r)
    BY <1>5, Zenon DEF Encoded
  <2>2. Read(op, Encoded(op, r)) = decodeWatchReleaseResponse(Encoded(op, r))
    BY <1>5, Zenon DEF Read
  <2> QED BY <1>5, <2>1, <2>2, ReleaseStreamIsRead
<1>6. CASE op = "watchResources"
  <2>1. Encoded(op, r) = encodeWatchResourcesResponse(r)
    BY <1>6, Zenon DEF Encoded
  <2>2. Read(op, Encoded(op, r)) = decodeWatchResourcesResponse(Encoded(op, r))
    BY <1>6, Zenon DEF Read
  <2> QED BY <1>6, <2>1, <2>2, ResourcesStreamIsRead
<1> QED BY <1>1, <1>2, <1>3, <1>4, <1>5, <1>6 DEF Operations

(* Encoders and decoders agree on every response that the types of an      *)
(* operation allow, so on those that a client must be able to read.        *)
THEOREM EveryResponseRead == Spec => []EveryResponseIsRead
<1>1. CodecsAgree
  BY ResponseIsRead, ReadableAssumption DEF CodecsAgree
<1> QED BY <1>1, PTL DEF EveryResponseIsRead

(* An answer that is neither a success nor a problem tells a client nothing*)
LEMMA ErrorsUnread ==
    ASSUME NEW op \in Operations, NEW a, a.ct # ProblemType, a.status \notin {200, 202}
    PROVE  Read(op, a).response = {}
<1>1. ReadBy(op, a)
  BY ReadIs
<1> QED BY <1>1, DecodeGetMyCatalogsGives, DecodeGetMyPackageGives, DecodeGetPackageSchemaGives,
           DecodeInstallServiceGives, DecodeWatchReleaseGives, DecodeWatchResourcesGives
           DEF ReadBy, DecoderGives

-----------------------------------------------------------------------------
(* What a process lists.                                                   *)

(* A catalog of the environment is one that is in force, with the keys of  *)
(* its texts folded, and it passed validation.                             *)
FromSource(c) ==
    /\ ValidateCatalogConfig(c)
    /\ \E s \in InForce("catalogs") : \E k \in DOMAIN s.catalogs :
          IsCatalogConfig(s.catalogs[k]) /\ c \in FoldCatalog(s.catalogs[k])

LEMMA CatalogsInForce ==
    ASSUME Process, config # {}, NEW i \in DOMAIN env.catalogs
    PROVE  FromSource(env.catalogs[i])
<1>1. PICK es \in Load(source.defaults, source.files, source.env) :
          config = {e \in es : ValidateCatalogsConfig(e.catalogs)}
  BY DEF Process, New
<1>2. PICK settings \in MergeInConfig(source.defaults, source.files) :
          es = Env(OverriddenBy(source.env, settings))
  BY <1>1 DEF Load
<1>3. PICK over : over = OverriddenBy(source.env, settings)
  OBVIOUS
<1>4. env \in Env(over) /\ ValidateCatalogsConfig(env.catalogs)
  BY <1>1, <1>2, <1>3 DEF env, The
<1>5. env.catalogs \in CatalogsOf(over["catalogs"])
  BY <1>4 DEF Env
<1>6. PICK s \in InForce("catalogs") : over["catalogs"] \in FoldSetting(s)
  BY <1>3, SettingInForce DEF Process, Settings
<1>7. "catalogs" \in DOMAIN s
  <2>1. CASE "catalogs" \notin DOMAIN s
    <3>1. over["catalogs"] = s
      BY <1>6, <2>1 DEF FoldSetting
    <3>2. env.catalogs = <<>>
      BY <1>5, <2>1, <3>1 DEF CatalogsOf
    <3> QED BY <3>2
  <2> QED BY <2>1
<1>8. PICK cs \in Choices([k \in DOMAIN s.catalogs |-> FoldCatalog(s.catalogs[k])]) :
          over["catalogs"] = CatalogList(cs)
  BY <1>6, <1>7 DEF FoldSetting
<1>9. env.catalogs = cs
  BY <1>5, <1>8 DEF CatalogsOf, CatalogList
<1>10. PICK sets : sets = [k \in DOMAIN s.catalogs |-> FoldCatalog(s.catalogs[k])]
  OBVIOUS
<1>11. i \in DOMAIN s.catalogs /\ cs[i] \in FoldCatalog(s.catalogs[i])
  BY <1>8, <1>9, <1>10, ChoiceOf
<1>12. IsCatalogConfig(s.catalogs[i])
  <2>1. EnvName["catalogs"] \notin DOMAIN source.env
    BY <1>7 DEF InForce, Text
  <2>2. s \in Written(source.files, "catalogs") \/ s \in Written({source.defaults}, "catalogs")
    BY <2>1 DEF InForce
  <2>3. PICK f \in {source.defaults} \cup source.files : \E w \in DOMAIN f : s = f[w]
    BY <2>2, WrittenIs
  <2> QED BY <1>7, <1>11, <2>3, SourcesAssumption DEF Process
<1>13. ValidateCatalogConfig(env.catalogs[i])
  BY <1>4 DEF ValidateCatalogsConfig
<1> QED BY <1>9, <1>11, <1>12, <1>13 DEF FromSource

(* The entry of one catalog in the listing, and what ListedAsConfigured    *)
(* says of it.                                                             *)
Entry(c, packages) ==
    [id |-> c.id, name |-> NewLocalizedString(c.name),
     description |-> NewLocalizedString(c.description),
     status |-> c.status, highlightedPackages |-> c.highlighted, packages |-> packages]

AsConfigured(d) ==
    \E s \in InForce("catalogs") : \E k \in DOMAIN s.catalogs :
        LET c == s.catalogs[k] IN
        /\ c.id = d.id
        /\ \E m \in d.name.localized : ConfiguredText(c.name, m)
        /\ d.description = {} <=> DOMAIN c.description = {}

LEMMA FoldedTexts ==
    ASSUME NEW texts, NEW m \in FoldKeys(texts)
    PROVE  IsMap(m) /\ ConfiguredText(texts, m) /\ (DOMAIN m = {} <=> DOMAIN texts = {})
<1>1. PICK winner : m = [k \in DOMAIN winner |-> texts[winner[k]]]
  BY DEF FoldKeys
<1>2. IsMap(m)
  BY <1>1 DEF IsMap, HasFields
<1>3. /\ DOMAIN m = {Lower[w] : w \in DOMAIN texts}
      /\ \A k \in DOMAIN m : \E w \in DOMAIN texts : Lower[w] = k /\ m[k] = texts[w]
  BY FoldedKeys
<1> QED BY <1>2, <1>3 DEF ConfiguredText

(* What is listed of a catalog is of the types of the API, in the words of *)
(* the source it comes from.                                               *)
LEMMA EntryIsCatalog ==
    ASSUME NEW c, FromSource(c), NEW packages
    PROVE  IsCatalog(ApiCatalog(Entry(c, packages))) /\ AsConfigured(ApiCatalog(Entry(c, packages)))
<1>0. PICK s \in InForce("catalogs") : \E k \in DOMAIN s.catalogs :
          IsCatalogConfig(s.catalogs[k]) /\ c \in FoldCatalog(s.catalogs[k])
  BY DEF FromSource
<1>1. PICK k \in DOMAIN s.catalogs :
          IsCatalogConfig(s.catalogs[k]) /\ c \in FoldCatalog(s.catalogs[k])
  BY <1>0
<1>2. PICK o : o = s.catalogs[k]
  OBVIOUS
<1>3. PICK n \in FoldKeys(o.name), e \in FoldKeys(o.description) : c = WithTexts(o, n, e)
  BY <1>1, <1>2 DEF FoldCatalog
<1>4. /\ c.id = o.id /\ c.status = o.status /\ c.highlighted = o.highlighted
      /\ c.name = n /\ c.description = e /\ IsMap(c.highlighted)
  BY <1>1, <1>2, <1>3 DEF WithTexts, IsCatalogConfig, HasFields
<1>5. /\ IsMap(n) /\ ConfiguredText(o.name, n)
      /\ IsMap(e) /\ (DOMAIN e = {} <=> DOMAIN o.description = {})
  BY FoldedTexts
<1>6. DOMAIN n # {}
  BY <1>4 DEF FromSource, ValidateCatalogConfig
<1>7. PICK list : list = [i \in DOMAIN packages |-> ApiPackage(packages[i])]
  OBVIOUS
<1>8. PICK d : d = ApiCatalog(Entry(c, packages))
  OBVIOUS
<1>9. PICK b : b = Entry(c, packages)
  OBVIOUS
<1>10. /\ b.id = c.id /\ b.name = {n} /\ b.description = NewLocalizedString(e)
       /\ b.status = c.status /\ b.highlightedPackages = c.highlighted /\ b.packages = packages
  BY <1>4, <1>6, <1>9 DEF Entry, NewLocalizedString
<1>11. d = [id |-> c.id, name |-> NewLocalizedString1LocalizedString(n),
            description |-> {NewLocalizedString1LocalizedString(t) : t \in NewLocalizedString(e)},
            status |-> {t \in {c.status} : ValidateCatalogStatus(t)},
            highlightedPackages |-> NonEmpty(c.highlighted), visible |-> {},
            packages |-> NonEmpty(list)]
  <2>1. The(b.name) = n /\ b.name # {}
    BY <1>10, TheOnly
  <2> QED BY <1>7, <1>8, <1>9, <1>10, <2>1 DEF ApiCatalog
<1>12. /\ d.id = c.id /\ d.name = NewLocalizedString1LocalizedString(n)
       /\ d.description = {NewLocalizedString1LocalizedString(t) : t \in NewLocalizedString(e)}
       /\ d.status = {t \in {c.status} : ValidateCatalogStatus(t)}
       /\ d.highlightedPackages = NonEmpty(c.highlighted) /\ d.visible = {}
       /\ d.packages = NonEmpty(list)
  BY <1>11
<1>13. d.name.localized = {n} /\ IsLocalizedString(d.name)
  <2>1. PICK t : t = NewLocalizedString1LocalizedString(n)
    OBVIOUS
  <2>2. t.localized = {n} /\ IsLocalizedString(t)
    BY <1>5, <2>1 DEF NewLocalizedString1LocalizedString, IsLocalizedString
  <2> QED BY <1>12, <2>1, <2>2
<1>14. /\ AtMostOne(d.description) /\ \A t \in d.description : IsLocalizedString(t)
       /\ d.description = {} <=> DOMAIN e = {}
  <2>1. CASE DOMAIN e = {}
    BY <1>12, <2>1 DEF NewLocalizedString, AtMostOne
  <2>2. CASE DOMAIN e # {}
    <3>1. d.description = {NewLocalizedString1LocalizedString(e)}
      BY <1>12, <2>2 DEF NewLocalizedString
    <3>2. IsLocalizedString(NewLocalizedString1LocalizedString(e))
      BY <1>5 DEF NewLocalizedString1LocalizedString, IsLocalizedString
    <3> QED BY <2>2, <3>1, <3>2 DEF AtMostOne
  <2> QED BY <2>1, <2>2
<1>15. IsMap(list) /\ \A i \in DOMAIN list : IsPackage(list[i])
  <2>1. ASSUME NEW i \in DOMAIN list
        PROVE  IsPackage(list[i])
    BY <1>7 DEF ApiPackage, IsPackage, HasFields, AtMostOne
  <2> QED BY <1>7, <2>1 DEF IsMap, HasFields
<1>16. IsCatalog(d)
  <2>1. HasFields(d, {"id", "name", "description", "status", "highlightedPackages", "visible",
                      "packages"})
    BY <1>11 DEF HasFields
  <2>2. /\ AtMostOne(d.status) /\ \A t \in d.status : ValidateCatalogStatus(t)
        /\ AtMostOne(d.visible) /\ d.visible = {}
    BY <1>12 DEF AtMostOne
  <2>3. AtMostOne(d.highlightedPackages) /\ \A l \in d.highlightedPackages : IsMap(l)
    BY <1>4, <1>12 DEF NonEmpty, AtMostOne
  <2>4. AtMostOne(d.packages) /\ \A l \in d.packages : l = list
    BY <1>12 DEF NonEmpty, AtMostOne
  <2> QED BY <1>13, <1>14, <1>15, <2>1, <2>2, <2>3, <2>4 DEF IsCatalog
<1>17. AsConfigured(d)
  BY <1>1, <1>2, <1>4, <1>5, <1>12, <1>13, <1>14 DEF AsConfigured
<1> QED BY <1>8, <1>16, <1>17

-----------------------------------------------------------------------------
(* What the controllers give is of the types of the API.                   *)

Good(op, s) ==
    /\ IsResponse(op, s)
    /\ s.type = "GetMyCatalogsOKApplicationJSON" => \A i \in DOMAIN s.value : AsConfigured(s.value[i])
Sound(op, r) ==
    r.error = "none" => \E s \in r.response : r.response = {s} /\ Good(op, s)

LEMMA SoundResponse ==
    ASSUME NEW op, NEW type, NEW value, Good(op, Response(type, value))
    PROVE  Sound(op, Responds(type, value))
BY DEF Sound, Responds

LEMMA SoundFailure ==
    ASSUME NEW op, NEW type, NEW value, NEW error, error # "none"
    PROVE  Sound(op, FailsWith(type, value, error)) /\ Sound(op, Fails(error))
BY DEF Sound, FailsWith, Fails

LEMMA GetMyCatalogsSound ==
    ASSUME Process, config # {}, NEW n, NEW at \in Selections(n, env.catalogs), NEW packages
    PROVE  Sound("getMyCatalogs", GetMyCatalogs({buildCatalogs(
              [i \in 1..n |-> env.catalogs[at[i]]], packages)}))
<1>1. PICK selected : selected = [i \in 1..n |-> env.catalogs[at[i]]]
  OBVIOUS
<1>2. \A i \in DOMAIN selected : FromSource(selected[i])
  BY <1>1, CatalogsInForce DEF Selections
<1>3. PICK listed : listed = buildCatalogs(selected, packages)
  OBVIOUS
<1>4. /\ DOMAIN listed = DOMAIN selected
      /\ \A i \in DOMAIN selected : listed[i] = Entry(selected[i], packages)
  BY <1>3 DEF buildCatalogs, Entry
<1>5. PICK value : value = [i \in DOMAIN listed |-> ApiCatalog(listed[i])]
  OBVIOUS
<1>6. \A i \in DOMAIN value : IsCatalog(value[i]) /\ AsConfigured(value[i])
  <2>1. TAKE i \in DOMAIN value
  <2>2. value[i] = ApiCatalog(Entry(selected[i], packages)) /\ FromSource(selected[i])
    BY <1>2, <1>4, <1>5
  <2> QED BY <2>2, EntryIsCatalog
<1>7. GetMyCatalogs({listed}) = Responds("GetMyCatalogsOKApplicationJSON", value)
  <2>1. PICK catalogs : catalogs = {listed}
    OBVIOUS
  <2>2. catalogs # {} /\ The(catalogs) = listed
    BY <2>1, TheOnly
  <2> QED BY <1>5, <2>1, <2>2 DEF GetMyCatalogs
<1>8. PICK r : r = Response("GetMyCatalogsOKApplicationJSON", value)
  OBVIOUS
<1>9. Good("getMyCatalogs", r)
  <2>1. /\ HasFields(r, {"type", "value"})
        /\ r.type = "GetMyCatalogsOKApplicationJSON" /\ r.value = value
    BY <1>8 DEF Response, HasFields
  <2>2. IsMap(value)
    BY <1>5 DEF IsMap, HasFields
  <2>3. IsSuccess("getMyCatalogs", r)
    BY <1>6, <2>1, <2>2 DEF IsSuccess
  <2> QED BY <1>6, <2>1, <2>3 DEF Good, IsResponse
<1> QED BY <1>1, <1>3, <1>7, <1>8, <1>9, SoundResponse

LEMMA GetMyPackageSound ==
    ASSUME NEW pkg, NEW error, error = "none" => \E p \in Details : pkg = {p}
    PROVE  Sound("getMyPackage", GetMyPackage(pkg, error))
<1>1. CASE error = "none"
  <2>1. PICK p \in Details : pkg = {p}
    BY <1>1
  <2>2. AtMostOne(p.versions) /\ \A list \in p.versions : IsMap(list)
    BY UseCasesAssumption
  <2>3. PICK d : d = DetailedPackage(p)
    OBVIOUS
  <2>4. IsDetailedPackage(d)
    <3>1. /\ HasFields(d, {"name", "description", "icon", "home", "versions"})
          /\ d.description = {p.description} /\ d.home = {p.home} /\ d.versions = p.versions
      BY <2>3 DEF DetailedPackage, HasFields
    <3>2. AtMostOne(d.description) /\ AtMostOne(d.home) /\ AtMostOne(d.versions)
      BY <2>2, <3>1 DEF AtMostOne
    <3> QED BY <2>2, <3>1, <3>2 DEF IsDetailedPackage
  <2>5. GetMyPackage(pkg, error) = Responds("DetailedPackage", d)
    BY <1>1, <2>1, <2>3, TheOnly DEF GetMyPackage
  <2>6. PICK r : r = Response("DetailedPackage", d)
    OBVIOUS
  <2>7. Good("getMyPackage", r)
    <3>1. HasFields(r, {"type", "value"}) /\ r.type = "DetailedPackage" /\ r.value = d
      BY <2>6 DEF Response, HasFields
    <3> QED BY <2>4, <3>1 DEF Good, IsResponse, IsSuccess
  <2> QED BY <2>5, <2>6, <2>7, SoundResponse
<1>2. CASE error = "NotFound"
  <2>1. PICK problem : problem = MkProblem("Not found", 404, error)
    OBVIOUS
  <2>2. IsProblem(problem)
    <3>1. /\ problem = [type |-> {}, title |-> {"Not found"}, status |-> {404},
                        detail |-> {error}, instance |-> {}, additional |-> NoField]
          /\ ProblemFields \cup {"additional"} =
                {"type", "title", "status", "detail", "instance", "additional"}
      BY <2>1 DEF MkProblem, ProblemFields
    <3>2. HasFields(problem, ProblemFields \cup {"additional"})
      BY <3>1 DEF HasFields
    <3>3. \A f \in ProblemFields : AtMostOne(problem[f])
      <4>1. AtMostOne({}) /\ \A v : AtMostOne({v})
        BY DEF AtMostOne
      <4>2. /\ AtMostOne(problem.type) /\ AtMostOne(problem.title) /\ AtMostOne(problem.status)
            /\ AtMostOne(problem.detail) /\ AtMostOne(problem.instance)
        BY <3>1, <4>1
      <4> QED BY <4>2 DEF ProblemFields
    <3>4. problem.additional = NoField
      BY <3>1
    <3>5. IsRawMap(problem.additional) /\ DOMAIN problem.additional \cap ProblemFields = {}
      BY <3>4 DEF NoField, IsRawMap, IsMap, HasFields
    <3> QED BY <3>2, <3>3, <3>5 DEF IsProblem
  <2>3. GetMyPackage(pkg, error) = Responds("GetMyPackageNotFound", problem)
    BY <1>2, <2>1 DEF GetMyPackage
  <2>4. PICK r : r = Response("GetMyPackageNotFound", problem)
    OBVIOUS
  <2>5. Good("getMyPackage", r)
    <3>1. HasFields(r, {"type", "value"}) /\ r.type = "GetMyPackageNotFound" /\ r.value = problem
      BY <2>4 DEF Response, HasFields
    <3> QED BY <2>2, <3>1 DEF Good, IsResponse, ProblemTypes
  <2> QED BY <2>3, <2>4, <2>5, SoundResponse
<1>3. CASE error # "none" /\ error # "NotFound"
  <2>1. GetMyPackage(pkg, error) =
           FailsWith("GetMyPackageInternalServerError", PackageProblem, "Internal")
    BY <1>3 DEF GetMyPackage
  <2> QED BY <2>1, SoundFailure
<1> QED BY <1>1, <1>2, <1>3

LEMMA GetPackageSchemaSound ==
    ASSUME NEW raw, raw = {} \/ \E s \in Schemas : raw = {s}
    PROVE  Sound("getPackageSchema", GetPackageSchema(raw))
<1>1. CASE raw = {}
  <2>1. PICK problem : GetPackageSchema(raw) =
           FailsWith("GetPackageSchemaInternalServerError", problem, "Internal")
    BY <1>1 DEF GetPackageSchema
  <2> QED BY <2>1, SoundFailure
<1>2. CASE raw # {}
  <2>1. PICK s \in Schemas : raw = {s}
    BY <1>2
  <2>2. GetPackageSchema(raw) =
           IF Is("obj", s) THEN Responds("GetPackageSchemaOK", s.obj)
           ELSE IF s = Null THEN Responds("GetPackageSchemaOK", NoField)
           ELSE Fails("Internal")
    <3>1. The(raw) = s
      BY <2>1, TheOnly
    <3> QED BY <1>2, <3>1 DEF GetPackageSchema
  <2>3. ASSUME NEW map, IsRawMap(map)
        PROVE  Sound("getPackageSchema", Responds("GetPackageSchemaOK", map))
    <3>1. PICK r : r = Response("GetPackageSchemaOK", map)
      OBVIOUS
    <3>2. HasFields(r, {"type", "value"}) /\ r.type = "GetPackageSchemaOK" /\ r.value = map
      BY <3>1 DEF Response, HasFields
    <3>3. Good("getPackageSchema", r)
      BY <2>3, <3>2 DEF Good, IsResponse, IsSuccess
    <3> QED BY <3>1, <3>3, SoundResponse
  <2>4. CASE Is("obj", s)
    <3>1. IsRawMap(s.obj)
      BY <2>4, UseCasesAssumption
    <3> QED BY <2>2, <2>3, <2>4, <3>1
  <2>5. CASE ~Is("obj", s) /\ s = Null
    <3>1. IsRawMap(NoField)
      BY DEF IsRawMap, IsMap, HasFields, NoField
    <3> QED BY <2>2, <2>3, <2>5, <3>1
  <2>6. CASE ~Is("obj", s) /\ s # Null
    BY <2>2, <2>6, SoundFailure
  <2> QED BY <2>4, <2>5, <2>6
<1> QED BY <1>1, <1>2

LEMMA InstallServiceSound ==
    ASSUME NEW user, NEW request, NEW error
    PROVE  Sound("installService", InstallService(user, request, error))
<1>1. PICK value : value = [location |-> "",
                            response |-> [eventsUrl |-> [release |-> "", resources |-> ""]]]
  OBVIOUS
<1>2. HasFields(value, {"location", "response"}) /\ IsInstallAccepted(value.response)
  <2>1. PICK u : u = [release |-> "", resources |-> ""]
    OBVIOUS
  <2>2. PICK a : a = [eventsUrl |-> u]
    OBVIOUS
  <2>3. HasFields(u, {"release", "resources"})
    BY <2>1 DEF HasFields
  <2>4. HasFields(a, {"eventsUrl"}) /\ a.eventsUrl = u
    BY <2>2 DEF HasFields
  <2>5. HasFields(value, {"location", "response"}) /\ value.response = a
    BY <1>1, <2>1, <2>2 DEF HasFields
  <2> QED BY <2>3, <2>4, <2>5 DEF IsInstallAccepted
<1>3. PICK r : r = Response("InstallAcceptedHeaders", value)
  OBVIOUS
<1>4. HasFields(r, {"type", "value"}) /\ r.type = "InstallAcceptedHeaders" /\ r.value = value
  BY <1>3 DEF Response, HasFields
<1>5. Good("installService", r)
  BY <1>2, <1>4 DEF Good, IsResponse, IsSuccess
<1>6. \/ \E t, v : InstallService(user, request, error) = FailsWith(t, v, "Internal")
      \/ InstallService(user, request, error) = Responds("InstallAcceptedHeaders", value)
  BY <1>1 DEF InstallService
<1> QED BY <1>3, <1>5, <1>6, SoundResponse, SoundFailure

LEMMA WatchSound ==
    ASSUME NEW op
    PROVE  Sound(op, WatchRelease) /\ Sound(op, WatchResources)
BY SoundFailure DEF WatchRelease, WatchResources

-----------------------------------------------------------------------------
(* What is owed to a call: the whole response of its controller, or an     *)
(* answer that no client takes for one.                                    *)

Called(x) ==
    /\ ask[x] = NoAsk => client[x] = "idle"
    /\ client[x] = "waiting" => pc[x] # "none"
    /\ client[x] = "returned" =>
          \/ heard[x].response = {} /\ heard[x].error \in {"SendRequest", "CORS"}
          \/ pc[x] = "none"
          \/ pc[x] = "answered" /\ heard[x] = Read(ask[x].op, answer[x])

Owed(x) ==
    pc[x] = "responding" =>
        /\ HasFields(carried[x], {"deed", "response"}) /\ Sound(job[x].op, result[x])
        /\ carried[x].response = IF result[x].error = "none"
                                 THEN {AsRead(s) : s \in result[x].response} ELSE {}

Paid(x) ==
    pc[x] = "answered" =>
        \/ /\ answer[x].ct # ProblemType /\ answer[x].status \notin {200, 202}
           /\ carried[x] # None => carried[x].response = {}
        \/ \E s \in result[x].response :
              /\ Taken(x) /\ Good(job[x].op, s) /\ answer[x] = Encoded(job[x].op, s)
              /\ HasFields(carried[x], {"deed", "response"})
              /\ carried[x].response = {AsRead(s)}

KInv == \A x \in Exchanges : Called(x) /\ Owed(x) /\ Paid(x)

LEMMA GoodKeeps ==
    ASSUME source' = source, NEW op, NEW s
    PROVE  Good(op, s) <=> Good(op, s)'
<1>1. \A d : AsConfigured(d) <=> AsConfigured(d)'
  BY DEF AsConfigured, InForce
<1> QED BY <1>1 DEF Good

LEMMA OwedKeeps ==
    ASSUME NEW x, source' = source, pc'[x] = pc[x], job'[x] = job[x], result'[x] = result[x],
           carried'[x] = carried[x], Owed(x)
    PROVE  Owed(x)'
<1>1. Sound(job[x].op, result[x]) => Sound(job[x].op, result[x])'
  BY GoodKeeps DEF Sound
<1> QED BY <1>1 DEF Owed, Sound

LEMMA PaidKeeps ==
    ASSUME NEW x, source' = source, RequestSame(x), pc'[x] = pc[x], job'[x] = job[x],
           result'[x] = result[x], answer'[x] = answer[x], carried'[x] = carried[x], Paid(x)
    PROVE  Paid(x)'
<1>1. Taken(x) <=> Taken(x)'
  BY TakenKeeps
<1>2. ASSUME NEW s, Good(job[x].op, s)
      PROVE  Good(job[x].op, s)'
  BY <1>2, GoodKeeps DEF Good
<1>3. CASE pc[x] = "answered"
  <2>1. CASE /\ answer[x].ct # ProblemType /\ answer[x].status \notin {200, 202}
             /\ carried[x] # None => carried[x].response = {}
    BY <2>1 DEF Paid
  <2>2. CASE \E s \in result[x].response :
                /\ Taken(x) /\ Good(job[x].op, s) /\ answer[x] = Encoded(job[x].op, s)
                /\ HasFields(carried[x], {"deed", "response"})
                /\ carried[x].response = {AsRead(s)}
    <3>1. PICK s \in result[x].response :
                /\ Taken(x) /\ Good(job[x].op, s) /\ answer[x] = Encoded(job[x].op, s)
                /\ HasFields(carried[x], {"deed", "response"})
                /\ carried[x].response = {AsRead(s)}
      BY <2>2
    <3>2. Good(job[x].op, s)'
      BY <3>1, <1>2
    <3> QED BY <1>1, <3>1, <3>2 DEF Paid
  <2> QED BY <1>3, <2>1, <2>2 DEF Paid
<1>4. CASE pc[x] # "answered"
  BY <1>4 DEF Paid
<1> QED BY <1>3, <1>4

LEMMA KeepsSame ==
    ASSUME NEW x, source' = source, SameAt(x), Called(x), Owed(x), Paid(x)
    PROVE  Called(x)' /\ Owed(x)' /\ Paid(x)'
<1>1. Called(x)'
  BY DEF Called, SameAt, RequestSame
<1> QED BY <1>1, OwedKeeps, PaidKeeps DEF SameAt

-----------------------------------------------------------------------------
(* The client's steps.                                                     *)

LEMMA SendOwes ==
    ASSUME IInv, KInv, NEW x \in Exchanges, NEW a, a # NoAsk, NEW w, NEW failure,
           Send(x, a, w, failure)
    PROVE  KInv'
<1>1. pc[x] = "none"
  BY NotAskedYet DEF Send
<1>2. /\ source' = source
      /\ \A y \in Exchanges \ {x} : SameAt(y)
  BY DEF Send, Return, SameAt, RequestSame, IInv, Shape, process
<1>3. ask'[x] = a
  BY DEF Send, IInv, Shape
<1>4. Called(x)' /\ Owed(x)' /\ Paid(x)'
  <2>1. CASE failure # "none"
    <3>1. client'[x] = "returned" /\ pc'[x] = "none"
      BY <1>1, <2>1 DEF Send, Return, IInv, Shape
    <3> QED BY <1>3, <3>1 DEF Called, Owed, Paid
  <2>2. CASE failure = "none"
    <3>1. client'[x] = "waiting" /\ pc'[x] = "arrived"
      BY <2>2 DEF Send, IInv, Shape
    <3> QED BY <1>3, <3>1 DEF Called, Owed, Paid
  <2> QED BY <2>1, <2>2
<1> QED BY <1>2, <1>4, KeepsSame DEF KInv

LEMMA ReturnOwes ==
    ASSUME IInv, KInv, NEW x \in Exchanges, NEW what, Return(x, what),
           UNCHANGED <<process, ask, wire, handling>>,
           client[x] = "waiting",
           \/ what.response = {} /\ what.error \in {"SendRequest", "CORS"}
           \/ pc[x] = "answered" /\ what = Read(ask[x].op, answer[x])
    PROVE  KInv'
<1>1. /\ client'[x] = "returned" /\ heard'[x] = what /\ source' = source
      /\ \A y \in Exchanges \ {x} : SameAt(y)
  BY DEF Return, SameAt, RequestSame, IInv, Shape, process, handling
<1>2. /\ RequestSame(x) /\ job'[x] = job[x] /\ pc'[x] = pc[x] /\ result'[x] = result[x]
      /\ answer'[x] = answer[x] /\ carried'[x] = carried[x]
  BY DEF RequestSame, process, handling
<1>3. Called(x)'
  BY <1>1, <1>2 DEF Called, RequestSame, KInv
<1> QED BY <1>1, <1>2, <1>3, KeepsSame, OwedKeeps, PaidKeeps DEF KInv

LEMMA ClientOwes ==
    ASSUME IInv, KInv, NEW x \in Exchanges,
           \/ \E a \in Asks[x] : SendCall(x, a)
           \/ \E a \in Raws[x] : SendRaw(x, a)
           \/ Hear(x) \/ Lose(x)
    PROVE  KInv'
<1>1. ASSUME NEW a \in Asks[x], SendCall(x, a)
      PROVE  KInv'
  <2>1. PICK w : Call(x, a, w)
    BY <1>1 DEF SendCall, sendGetMyCatalogs, sendGetMyPackage, sendGetPackageSchema,
           sendInstallService, sendWatchRelease, sendWatchResources
  <2>2. PICK failure : Send(x, a, w, failure)
    BY <2>1 DEF Call
  <2> QED BY <2>2, SendOwes, AsksAssumption
<1>2. ASSUME NEW a \in Raws[x], SendRaw(x, a)
      PROVE  KInv'
  <2>1. PICK failure : Send(x, a, a.wire, failure)
    BY <1>2 DEF SendRaw
  <2> QED BY <2>1, SendOwes, AsksAssumption
<1>3. CASE Hear(x)
  <2>1. PICK what : /\ Return(x, what)
                    /\ what = Failed("CORS") \/ what = Read(ask[x].op, answer[x])
    BY <1>3 DEF Hear
  <2>2. Failed("CORS").response = {} /\ Failed("CORS").error = "CORS"
    BY DEF Failed
  <2> QED BY <1>3, <2>1, <2>2, ReturnOwes DEF Hear
<1>4. CASE Lose(x)
  <2>1. Failed("SendRequest").response = {} /\ Failed("SendRequest").error = "SendRequest"
    BY DEF Failed
  <2> QED BY <1>4, <2>1, ReturnOwes DEF Lose
<1> QED BY <1>1, <1>2, <1>3, <1>4

-----------------------------------------------------------------------------
(* The server's steps.                                                     *)

LEMMA ServerOwes ==
    ASSUME IInv, KInv, NEW x \in Exchanges, Handled(x), pc[x] # "none", pc[x] # "answered",
           pc'[x] # "none", Owed(x)', Paid(x)'
    PROVE  KInv'
<1>1. /\ source' = source /\ ask'[x] = ask[x] /\ client'[x] = client[x] /\ heard'[x] = heard[x]
      /\ \A y \in Exchanges \ {x} : SameAt(y)
  BY DEF Handled, process, asking
<1>2. Called(x)'
  BY <1>1 DEF Called, KInv
<1> QED BY <1>1, <1>2, KeepsSame DEF KInv

LEMMA RefusalsSayNothing ==
    ASSUME NEW a,
           \/ a = notFound \/ \E m : a = notAllowed(m)
           \/ \E e : a = DefaultErrorHandler(e) \/ a = Recoverer
    PROVE  a.ct # ProblemType /\ a.status \notin {200, 202}
<1>1. CASE a = notFound
  BY <1>1 DEF notFound, Empty, Answer, ProblemType, NoType
<1>2. ASSUME NEW m, a = notAllowed(m)
      PROVE  a.ct # ProblemType /\ a.status \notin {200, 202}
  <2>1. a.ct = NoType /\ (a.status = 204 \/ a.status = 405)
    BY <1>2 DEF notAllowed, Empty, Answer
  <2>2. NoType # ProblemType
    BY Zenon DEF NoType, ProblemType
  <2> QED BY <2>1, <2>2
<1>3. CASE a = Recoverer
  <2>1. a.ct = NoType /\ a.status = 500
    BY <1>3 DEF Recoverer, Empty, Answer
  <2>2. NoType # ProblemType
    BY Zenon DEF NoType, ProblemType
  <2> QED BY <2>1, <2>2
<1>4. ASSUME NEW error, a = DefaultErrorHandler(error)
      PROVE  a.ct # ProblemType /\ a.status \notin {200, 202}
  BY <1>4, ErrorsWritten DEF JsonType, ProblemType
<1> QED BY <1>1, <1>2, <1>3, <1>4

LEMMA RefusalOwes ==
    ASSUME IInv, KInv, NEW x \in Exchanges, ServeHTTP(x) \/ Taking(x)
    PROVE  KInv'
<1>1. /\ Handled(x) /\ pc[x] = "arrived" /\ carried' = carried
  BY DEF ServeHTTP, Taking, Write, Handled, SameAt, RequestSame, IInv, Shape, process, asking
<1>2. carried[x] = None
  BY <1>1 DEF IInv, Course, Carried
<1>3. \/ pc'[x] = "running"
      \/ /\ pc'[x] = "answered"
         /\ \/ answer'[x] = notFound \/ \E m : answer'[x] = notAllowed(m)
            \/ \E e : answer'[x] = DefaultErrorHandler(e)
  <2>1. CASE ServeHTTP(x)
    BY <2>1 DEF ServeHTTP, Write, IInv, Shape
  <2>2. CASE Taking(x)
    BY <2>2 DEF Taking, IInv, Shape
  <2> QED BY <2>1, <2>2
<1>4. Owed(x)' /\ Paid(x)'
  BY <1>1, <1>2, <1>3, RefusalsSayNothing DEF Owed, Paid
<1> QED BY <1>1, <1>3, <1>4, ServerOwes

LEMMA CarryOutOwes ==
    ASSUME IInv, KInv, NEW x \in Exchanges, NEW r, pc[x] = "running", CarryOut(x, r),
           Sound(job[x].op, r)
    PROVE  KInv'
<1>1. /\ Handled(x) /\ pc'[x] = "responding" /\ result'[x] = r /\ job' = job
      /\ source' = source
  BY DEF CarryOut, Handled, SameAt, RequestSame, IInv, Shape, process, asking
<1>2. /\ carried'[x].response = IF r.error = "none" THEN {AsRead(s) : s \in r.response} ELSE {}
      /\ HasFields(carried'[x], {"deed", "response"})
  <2>1. PICK response : response = IF r.error = "none" THEN {AsRead(s) : s \in r.response} ELSE {}
    OBVIOUS
  <2>2. carried'[x] = [deed |-> job[x], response |-> response]
    BY <2>1, Zenon DEF CarryOut, IInv, Shape
  <2> QED BY <2>1, <2>2 DEF HasFields
<1>3. Sound(job[x].op, r) => Sound(job[x].op, r)'
  BY <1>1, GoodKeeps DEF Sound
<1>4. Owed(x)' /\ Paid(x)'
  BY <1>1, <1>2, <1>3 DEF Owed, Paid, Sound
<1> QED BY <1>1, <1>4, ServerOwes

LEMMA ControllerOwes ==
    ASSUME IInv, KInv, NEW x \in Exchanges,
           \/ runGetMyCatalogs(x) \/ runGetMyPackage(x) \/ runGetPackageSchema(x)
           \/ runInstallService(x) \/ runWatch(x)
    PROVE  KInv'
<1>1. CASE runGetMyCatalogs(x)
  <2>1. Running(x, "getMyCatalogs")
    BY <1>1 DEF runGetMyCatalogs
  <2>2. PICK r : CarryOut(x, r) /\ Sound("getMyCatalogs", r)
    <3>1. CASE CarryOut(x, GetMyCatalogs({}))
      <4>1. Sound("getMyCatalogs", GetMyCatalogs({}))
        <5>1. PICK value : GetMyCatalogs({}) = FailsWith("Problem", value, "Internal")
          BY Zenon DEF GetMyCatalogs
        <5> QED BY <5>1, SoundFailure
      <4> QED BY <3>1, <4>1
    <3>2. CASE ~CarryOut(x, GetMyCatalogs({}))
      <4>1. PICK n, packages : \E at \in Selections(n, env.catalogs) :
                CarryOut(x, GetMyCatalogs({buildCatalogs([i \in 1..n |-> env.catalogs[at[i]]],
                                                         packages)}))
        BY <1>1, <3>2 DEF runGetMyCatalogs
      <4>2. PICK at \in Selections(n, env.catalogs) :
                CarryOut(x, GetMyCatalogs({buildCatalogs([i \in 1..n |-> env.catalogs[at[i]]],
                                                         packages)}))
        BY <4>1
      <4>3. Process /\ config # {}
        BY <2>1 DEF IInv, Course, Asked, Running
      <4> QED BY <4>2, <4>3, GetMyCatalogsSound
    <3> QED BY <3>1, <3>2
  <2> QED BY <2>1, <2>2, CarryOutOwes DEF Running
<1>2. CASE runGetMyPackage(x)
  <2>1. PICK pkg, error : /\ Running(x, "getMyPackage")
                          /\ CarryOut(x, GetMyPackage(pkg, error))
                          /\ error = "none" => \E p \in Details : pkg = {p}
    BY <1>2 DEF runGetMyPackage
  <2> QED BY <2>1, GetMyPackageSound, CarryOutOwes DEF Running
<1>3. CASE runGetPackageSchema(x)
  <2>1. PICK raw : /\ Running(x, "getPackageSchema") /\ CarryOut(x, GetPackageSchema(raw))
                   /\ raw = {} \/ \E s \in Schemas : raw = {s}
    BY <1>3 DEF runGetPackageSchema
  <2> QED BY <2>1, GetPackageSchemaSound, CarryOutOwes DEF Running
<1>4. CASE runInstallService(x)
  <2>1. PICK request, error : /\ Running(x, "installService")
                              /\ CarryOut(x, InstallService(job[x].user, request, error))
    BY <1>4 DEF runInstallService
  <2>2. PICK r : r = InstallService(job[x].user, request, error)
    OBVIOUS
  <2>3. Sound("installService", r)
    BY <2>2, InstallServiceSound
  <2> QED BY <2>1, <2>2, <2>3, CarryOutOwes DEF Running
<1>5. CASE runWatch(x)
  BY <1>5, WatchSound, CarryOutOwes DEF runWatch, Running
<1> QED BY <1>1, <1>2, <1>3, <1>4, <1>5

LEMMA PanicOwes ==
    ASSUME IInv, KInv, NEW x \in Exchanges, Panic(x)
    PROVE  KInv'
<1>1. /\ Handled(x) /\ pc[x] = "running" /\ pc'[x] = "answered" /\ answer'[x] = Recoverer
  BY DEF Panic, Write, Handled, SameAt, RequestSame, IInv, Shape, process, asking
<1>2. carried'[x].response = {}
  BY DEF Panic, IInv, Shape
<1>3. Owed(x)' /\ Paid(x)'
  BY <1>1, <1>2, RefusalsSayNothing DEF Owed, Paid
<1> QED BY <1>1, <1>3, ServerOwes

LEMMA RespondOwes ==
    ASSUME IInv, KInv, NEW x \in Exchanges, Respond(x)
    PROVE  KInv'
<1>1. /\ Handled(x) /\ pc[x] = "responding" /\ pc'[x] = "answered"
      /\ UNCHANGED <<wire, config, job, result, carried, source>>
  BY DEF Respond, Write, Handled, SameAt, RequestSame, IInv, Shape, process, asking
<1>2. answer'[x] = IF result[x].error # "none" THEN DefaultErrorHandler(result[x].error)
                   ELSE Encoded(job[x].op, The(result[x].response))
  BY DEF Respond, Write, IInv, Shape
<1>3. /\ HasFields(carried[x], {"deed", "response"}) /\ Sound(job[x].op, result[x])
      /\ carried[x].response = IF result[x].error = "none"
                               THEN {AsRead(s) : s \in result[x].response} ELSE {}
  BY <1>1 DEF KInv, Owed
<1>4. Taken(x)'
  BY <1>1, TakenKeeps DEF IInv, Course, Serving, RequestSame, Handled, asking
<1>5. Paid(x)'
  <2>1. CASE result[x].error # "none"
    BY <1>1, <1>2, <1>3, <2>1, RefusalsSayNothing DEF Paid
  <2>2. CASE result[x].error = "none"
    <3>1. PICK s \in result[x].response : result[x].response = {s} /\ Good(job[x].op, s)
      BY <1>3, <2>2 DEF Sound
    <3>2. answer'[x] = Encoded(job[x].op, s)
      BY <1>2, <2>2, <3>1, TheOnly
    <3>3. {AsRead(t) : t \in result[x].response} = {AsRead(s)}
      BY <3>1
    <3>4. Good(job[x].op, s)'
      BY <1>1, <3>1, GoodKeeps
    <3> QED BY <1>1, <1>3, <1>4, <2>2, <3>2, <3>3, <3>4 DEF Paid, Good
  <2> QED BY <2>1, <2>2
<1>6. Owed(x)'
  BY <1>1 DEF Owed
<1> QED BY <1>1, <1>5, <1>6, ServerOwes

LEMMA ServeOwes ==
    ASSUME IInv, KInv, NEW x \in Exchanges, Serve(x)
    PROVE  KInv'
BY RefusalOwes, ControllerOwes, RespondOwes, HandleGetMyCatalogsRequestTakes,
   HandleGetMyPackageRequestTakes, HandleGetPackageSchemaRequestTakes,
   HandleInstallServiceRequestTakes, HandleWatchReleaseRequestTakes,
   HandleWatchResourcesRequestTakes DEF Serve

-----------------------------------------------------------------------------
(* The process's steps.                                                    *)

LEMMA ProcessOwes ==
    ASSUME IInv, KInv, LoadEnv \/ Ping \/ Setup \/ Exit \/ UNCHANGED vars
    PROVE  KInv'
<1>1. source' = source
  BY DEF LoadEnv, Ping, Setup, Exit, vars, process
<1>2. ASSUME NEW x \in Exchanges
      PROVE  Called(x)' /\ Owed(x)' /\ Paid(x)'
  <2>1. /\ ask'[x] = ask[x] /\ wire'[x] = wire[x] /\ client'[x] = client[x] /\ job'[x] = job[x]
        /\ result'[x] = result[x] /\ answer'[x] = answer[x] /\ carried'[x] = carried[x]
        /\ heard'[x] = heard[x]
        /\ pc'[x] = pc[x] \/ (pc[x] \in {"arrived", "running", "responding"} /\ pc'[x] = "dead")
    BY DEF LoadEnv, Ping, Setup, Exit, vars, process, asking, handling
  <2>2. Called(x) /\ Owed(x) /\ Paid(x)
    BY DEF KInv
  <2>3. Called(x)'
    BY <2>1, <2>2 DEF Called
  <2>4. Owed(x)'
    BY <1>1, <2>1, <2>2, OwedKeeps DEF Owed
  <2>5. Paid(x)'
    <3>1. CASE LoadEnv
      <4>1. pc[x] = "none" /\ pc' = pc
        BY <3>1 DEF LoadEnv, IInv, Process, Course, Asked, handling
      <4> QED BY <4>1 DEF Paid
    <3>2. CASE ~LoadEnv
      <4>1. config' = config
        BY <3>2 DEF Ping, Setup, Exit, vars, process
      <4> QED BY <1>1, <2>1, <2>2, <4>1, PaidKeeps DEF RequestSame, Paid
    <3> QED BY <3>1, <3>2
  <2> QED BY <2>3, <2>4, <2>5
<1> QED BY <1>2 DEF KInv

(* What is owed is paid, or nothing is said.                               *)
THEOREM OwedInvariance == Spec => []KInv
<1>1. Init => KInv
  BY DEF Init, KInv, Called, Owed, Paid
<1>2. IInv /\ KInv /\ [Next]_vars => KInv'
  <2> SUFFICES ASSUME IInv, KInv, [Next]_vars PROVE KInv'
    OBVIOUS
  <2>1. CASE LoadEnv \/ Ping \/ Setup \/ Exit \/ UNCHANGED vars
    BY <2>1, ProcessOwes
  <2>2. ASSUME NEW x \in Exchanges,
               \/ \E a \in Asks[x] : SendCall(x, a)
               \/ \E a \in Raws[x] : SendRaw(x, a)
               \/ Hear(x) \/ Lose(x)
        PROVE  KInv'
    BY <2>2, ClientOwes
  <2>3. ASSUME NEW x \in Exchanges, Serve(x) \/ Panic(x)
        PROVE  KInv'
    BY <2>3, ServeOwes, PanicOwes
  <2> QED BY <2>1, <2>2, <2>3 DEF Next
<1> QED BY <1>1, <1>2, Invariance, PTL DEF Spec

-----------------------------------------------------------------------------
(* What a client hears of what was given.                                  *)

(* A response that a controller gave reaches whoever waits for it, as it is*)
(* read: no configuration that passed validation makes an answer that the  *)
(* client's types refuse.                                                  *)
LEMMA AnsweredIsRead ==
    ASSUME IInv, KInv, NEW x \in Exchanges, pc[x] = "answered", ask[x] \in Asks[x],
           carried[x] # None, carried[x].response # {}
    PROVE  \E s : /\ Good(ask[x].op, s) /\ carried[x].response = {AsRead(s)}
                  /\ Read(ask[x].op, answer[x]).response = {AsRead(s)}
<1>1. PICK s : /\ Taken(x) /\ Good(job[x].op, s) /\ answer[x] = Encoded(job[x].op, s)
               /\ carried[x].response = {AsRead(s)}
  BY DEF KInv, Paid
<1>2. job[x].op = ask[x].op /\ ask[x].op \in Operations
  BY <1>1, TakenAsAsked, AsksAssumption
<1>3. Read(ask[x].op, answer[x]) = [response |-> {AsRead(s)}, error |-> "none"]
  BY <1>1, <1>2, ResponseIsRead DEF Good
<1> QED BY <1>1, <1>2, <1>3

THEOREM AcceptedAndHeard == Spec => []AcceptedIsHeard
<1>1. ASSUME IInv, KInv, NEW x \in Exchanges, client[x] = "returned", ask[x].op # "raw",
             carried[x] # None, carried[x].response # {},
             heard[x].error \notin {"SendRequest", "CORS"}
      PROVE  heard[x].response = carried[x].response
  <2>1. Course(x) /\ Called(x)
    BY <1>1 DEF IInv, KInv
  <2>2. pc[x] = "answered" /\ heard[x] = Read(ask[x].op, answer[x])
    BY <1>1, <2>1 DEF Called, Course, Carried
  <2>3. ask[x] \in Asks[x]
    BY <1>1, <2>1, <2>2, AsksAssumption DEF Course, Asked, Sent
  <2>4. PICK s : /\ carried[x].response = {AsRead(s)}
                 /\ Read(ask[x].op, answer[x]).response = {AsRead(s)}
    BY <1>1, <2>2, <2>3, AnsweredIsRead
  <2> QED BY <2>2, <2>4
<1>2. IInv /\ KInv => AcceptedIsHeard
  BY <1>1 DEF AcceptedIsHeard
<1> QED BY <1>2, Invariance, OwedInvariance, PTL

(* What is heard was given.                                                *)
LEMMA ReadWasGiven ==
    ASSUME IInv, KInv, NEW x \in Exchanges, pc[x] = "answered", ask[x] \in Asks[x],
           Read(ask[x].op, answer[x]).response # {}
    PROVE  /\ HasFields(carried[x], {"deed", "response"})
           /\ Read(ask[x].op, answer[x]).response = carried[x].response
           /\ \E s : Good(ask[x].op, s) /\ carried[x].response = {AsRead(s)}
<1>1. ask[x].op \in Operations
  BY AsksAssumption
<1>2. ~(answer[x].ct # ProblemType /\ answer[x].status \notin {200, 202})
  BY <1>1, ErrorsUnread
<1>3. PICK s : /\ Taken(x) /\ Good(job[x].op, s) /\ answer[x] = Encoded(job[x].op, s)
               /\ HasFields(carried[x], {"deed", "response"})
               /\ carried[x].response = {AsRead(s)}
  BY <1>2 DEF KInv, Paid
<1>4. job[x].op = ask[x].op
  BY <1>3, TakenAsAsked
<1>5. Read(ask[x].op, answer[x]) = [response |-> {AsRead(s)}, error |-> "none"]
  BY <1>1, <1>3, <1>4, ResponseIsRead DEF Good
<1> QED BY <1>3, <1>4, <1>5

LEMMA ListingIsRead ==
    ASSUME NEW op \in Operations, NEW s, Good(op, s),
           AsRead(s).type = "GetMyCatalogsOKApplicationJSON"
    PROVE  \A i \in DOMAIN AsRead(s).value : AsConfigured(AsRead(s).value[i])
<1>1. s.type = "GetMyCatalogsOKApplicationJSON"
  <2>1. CASE s.type = "DetailedPackage"
    <3>1. AsRead(s) = Response(s.type, [s.value EXCEPT !.versions = OrEmpty(@)])
      BY <2>1, Zenon DEF AsRead
    <3> QED BY <2>1, <3>1 DEF Response
  <2>2. CASE s.type # "DetailedPackage" /\ s.type # "GetMyCatalogsOKApplicationJSON"
    <3>1. AsRead(s) = s
      BY <2>2, Zenon DEF AsRead
    <3> QED BY <2>2, <3>1
  <2> QED BY <2>1, <2>2
<1>2. AsRead(s).value = [i \in DOMAIN s.value |-> [s.value[i] EXCEPT !.packages = OrEmpty(@)]]
  <2>1. PICK value : value = [i \in DOMAIN s.value |-> [s.value[i] EXCEPT !.packages = OrEmpty(@)]]
    OBVIOUS
  <2>2. AsRead(s) = Response(s.type, value)
    BY <1>1, <2>1, Zenon DEF AsRead
  <2> QED BY <2>1, <2>2 DEF Response
<1>3. IsSuccess(op, s)
  BY <1>1 DEF Good, IsResponse, ProblemTypes, Operations
<1>4. ASSUME NEW i \in DOMAIN s.value
      PROVE  AsConfigured(AsRead(s).value[i])
  <2>1. PICK d : d = s.value[i]
    OBVIOUS
  <2>2. AsConfigured(d) /\ IsCatalog(d)
    BY <1>1, <1>3, <2>1 DEF Good, IsSuccess
  <2>3. PICK e : e = AsRead(s).value[i]
    OBVIOUS
  <2>4. e.id = d.id /\ e.name = d.name /\ e.description = d.description
    BY <1>2, <2>1, <2>2, <2>3 DEF IsCatalog, HasFields
  <2>5. AsConfigured(e)
    BY <2>2, <2>4 DEF AsConfigured
  <2> QED BY <2>3, <2>5
<1> QED BY <1>2, <1>4

(* Who hears a listing hears of catalogs of the source in force, each with *)
(* the texts it has there.                                                 *)
THEOREM CatalogsAsConfigured == Spec => []ListedAsConfigured
<1>1. ASSUME IInv, KInv, NEW x \in Exchanges, NEW r \in heard[x].response,
             r.type = "GetMyCatalogsOKApplicationJSON", NEW i \in DOMAIN r.value
      PROVE  AsConfigured(r.value[i])
  <2>1. /\ pc[x] = "answered" /\ ask[x] \in Asks[x]
        /\ heard[x] = Read(ask[x].op, answer[x])
    BY <1>1 DEF IInv, Course, HeardOf
  <2>2. PICK s : Good(ask[x].op, s) /\ heard[x].response = {AsRead(s)}
    BY <1>1, <2>1, ReadWasGiven
  <2>3. r = AsRead(s) /\ ask[x].op \in Operations
    BY <2>1, <2>2, AsksAssumption
  <2> QED BY <1>1, <2>2, <2>3, ListingIsRead
<1>2. IInv /\ KInv => ListedAsConfigured
  BY <1>1 DEF ListedAsConfigured, AsConfigured
<1> QED BY <1>2, Invariance, OwedInvariance, PTL

-----------------------------------------------------------------------------
(* ServicesApi implements ApiContract.                                     *)

(* What was not carried out is no deed, and what somebody sends that is no *)
(* client's call is malformed: no operation reads it.                      *)
NoneIsNoDeed == ~HasFields(None, {"deed", "response"})
RawsAreMalformed ==
    \A x \in Exchanges : \A a \in Raws[x] : \A leaf \in Route(a.wire.path) :
        \/ leaf.method # a.wire.method
        \/ ParamsAt(leaf, a.wire) = {}
        \/ RequestRead(leaf.op, a.wire).error # "none"

Told == [y \in Exchanges |->
            [over |-> client[y] = "returned", response |-> heard[y].response]]

(* What a step does to what is told.                                       *)
LEMMA ToldSame ==
    ASSUME \A y \in Exchanges : /\ client'[y] = "returned" <=> client[y] = "returned"
                                /\ heard'[y].response = heard[y].response
    PROVE  Told' = Told
BY Zenon DEF Told

LEMMA ToldOver ==
    ASSUME NEW x \in Exchanges, client'[x] = "returned",
           \A y \in Exchanges \ {x} : client'[y] = client[y] /\ heard'[y] = heard[y]
    PROVE  Told' = [Told EXCEPT ![x] = [over |-> TRUE, response |-> heard'[x].response]]
<1>1. DOMAIN Told' = Exchanges /\ DOMAIN Told = Exchanges
  BY DEF Told
<1>2. Told'[x] = [over |-> TRUE, response |-> heard'[x].response]
  <2>1. (client'[x] = "returned") = TRUE
    OBVIOUS
  <2> QED BY <2>1, Zenon DEF Told
<1>3. ASSUME NEW y \in Exchanges, y # x
      PROVE  Told'[y] = Told[y]
  <2>1. client'[y] = client[y] /\ heard'[y] = heard[y]
    BY <1>3
  <2> QED BY <2>1, Zenon DEF Told
<1> QED BY <1>1, <1>2, <1>3 DEF Told

LEMMA NotOver ==
    ASSUME NEW x \in Exchanges, client[x] # "returned"
    PROVE  ~Told[x].over
BY DEF Told

(* A call that is sent is asked.                                           *)
LEMMA SendAsks ==
    ASSUME IInv, KInv, NEW x \in Exchanges, NEW a \in Asks[x] \cup Raws[x], NEW w, NEW failure,
           Send(x, a, w, failure)
    PROVE  Contract!Next
<1>1. /\ ask[x] = NoAsk /\ ask' = [ask EXCEPT ![x] = a] /\ UNCHANGED carried
      /\ client[x] = "idle"
  BY DEF Send, KInv, Called
<1>2. \A y \in Exchanges \ {x} : client'[y] = client[y] /\ heard'[y] = heard[y]
  BY DEF Send, Return, IInv, Shape
<1>3. Told' \in {Told, [Told EXCEPT ![x] = [over |-> TRUE, response |-> {}]]}
  <2>1. CASE failure # "none"
    <3>1. client'[x] = "returned" /\ heard'[x].response = {}
      BY <2>1 DEF Send, Return, Failed, IInv, Shape
    <3> QED BY <1>2, <3>1, ToldOver
  <2>2. CASE failure = "none"
    <3>1. client'[x] = "waiting" /\ heard' = heard
      BY <2>2 DEF Send, IInv, Shape
    <3> QED BY <1>1, <1>2, <3>1, ToldSame
  <2> QED BY <2>1, <2>2
<1>4. Contract!Ask(x, a)
  BY <1>1, <1>3 DEF Contract!Ask, Contract!Over, Told
<1>5. a \in UNION {Asks[y] \cup Raws[y] : y \in Exchanges}
  OBVIOUS
<1> QED BY <1>4, <1>5 DEF Contract!Next

(* A call that returns tells the whole response, or is given up.           *)
LEMMA ReturnTells ==
    ASSUME IInv, KInv, NoneIsNoDeed, NEW x \in Exchanges, NEW what, Return(x, what),
           UNCHANGED <<process, ask, wire, handling>>, client[x] = "waiting",
           what.response # {} =>
               HasFields(carried[x], {"deed", "response"}) /\ what.response = carried[x].response
    PROVE  Contract!Next
<1>1. /\ client'[x] = "returned" /\ heard'[x] = what
      /\ \A y \in Exchanges \ {x} : client'[y] = client[y] /\ heard'[y] = heard[y]
      /\ UNCHANGED <<ask, carried>>
  BY DEF Return, IInv, Shape, handling
<1>2. Told' = [Told EXCEPT ![x] = [over |-> TRUE, response |-> what.response]]
  BY <1>1, ToldOver
<1>3. ~Told[x].over
  BY NotOver
<1>4. ask[x] # NoAsk
  BY DEF KInv, Called
<1>5. CASE what.response = {}
  <2>1. Contract!GiveUp(x)
    BY <1>1, <1>2, <1>3, <1>4, <1>5 DEF Contract!GiveUp, Contract!Over, Told
  <2> QED BY <2>1 DEF Contract!Next
<1>6. CASE what.response # {}
  <2>1. carried[x] # None
    BY <1>6 DEF NoneIsNoDeed
  <2>2. Contract!Tell(x)
    BY <1>1, <1>2, <1>3, <1>6, <2>1 DEF Contract!Tell, Contract!Over, Told
  <2> QED BY <2>2 DEF Contract!Next
<1> QED BY <1>5, <1>6

LEMMA HearTells ==
    ASSUME IInv, KInv, NoneIsNoDeed, NEW x \in Exchanges, Hear(x)
    PROVE  Contract!Next
<1>1. PICK what : Return(x, what) /\ (what = Failed("CORS") \/ what = Read(ask[x].op, answer[x]))
  BY DEF Hear
<1>2. what.response # {} =>
          HasFields(carried[x], {"deed", "response"}) /\ what.response = carried[x].response
  <2>1. CASE what = Failed("CORS")
    BY <2>1 DEF Failed
  <2>2. CASE what = Read(ask[x].op, answer[x]) /\ ask[x] \in Asks[x]
    BY <2>2, ReadWasGiven DEF Hear
  <2>3. CASE what = Read(ask[x].op, answer[x]) /\ ask[x] \notin Asks[x]
    <3>1. ask[x].op = "raw"
      BY <2>3, AsksAssumption DEF Hear, IInv, Course, Asked, Sent
    <3> QED BY <2>3, <3>1, ReadsOfRaw
  <2> QED BY <1>1, <2>1, <2>2, <2>3
<1> QED BY <1>1, <1>2, ReturnTells DEF Hear

LEMMA LoseGivesUp ==
    ASSUME IInv, KInv, NoneIsNoDeed, NEW x \in Exchanges, Lose(x)
    PROVE  Contract!Next
<1>1. Failed("SendRequest").response = {}
  BY DEF Failed
<1> QED BY <1>1, ReturnTells DEF Lose

(* What is carried out is what was asked, for one who may ask it.          *)
LEMMA TakenIsAllowed ==
    ASSUME IInv, RawsAreMalformed, NEW x \in Exchanges, pc[x] = "running"
    PROVE  ask[x] # NoAsk /\ job[x] \in Deeds(ask[x])
<1>1. Sent(x) /\ Taken(x)
  BY DEF IInv, Course, Asked, Serving
<1>2. ask[x] \in Asks[x] /\ SentFor(ask[x], wire[x])
  <2>1. ~(ask[x] \in Raws[x] /\ wire[x] = ask[x].wire)
    BY <1>1 DEF Taken, JobAt, RawsAreMalformed
  <2> QED BY <1>1, <2>1 DEF Sent
<1>3. PICK a \in Asks[x] : a = ask[x]
  BY <1>2
<1>4. PICK j : j = job[x]
  OBVIOUS
<1>5. PICK leaf \in Route(wire[x].path) : JobAt(leaf, wire[x], j)
  BY <1>1, <1>4 DEF Taken
<1>6. /\ a # NoAsk /\ a.op # "raw" /\ SentFor(a, wire[x])
  BY <1>2, <1>3, AsksAssumption DEF Operations
<1>7. j.op = a.op
  BY <1>5, <1>6, SentArrives DEF JobAt
<1>8. j.params = a.params
  <2>1. ParamsAt(leaf, wire[x]) = IF Complete(a.params) THEN {a.params} ELSE {}
    BY <1>5, <1>6, ParamsArrive
  <2>2. ParamsAt(leaf, wire[x]) = {a.params} /\ j.params = The(ParamsAt(leaf, wire[x]))
    BY <1>5, <2>1 DEF JobAt
  <2> QED BY <2>2, TheOnly
<1>9. j.request = {[r EXCEPT !.share = OrFalse(@)] : r \in a.request}
  <2>1. PICK request : request = {[r EXCEPT !.share = OrFalse(@)] : r \in a.request}
    OBVIOUS
  <2>2. RequestRead(leaf.op, wire[x]) = [request |-> request, error |-> "none"]
    BY <1>5, <1>6, <2>1, RequestArrives
  <2> QED BY <1>5, <2>1, <2>2 DEF JobAt
<1>10. PICK u \in Askers(a) : j.user = u
  <2>1. wire[x].token = a.token
    BY <1>6 DEF SentFor, Get, Request
  <2>2. PICK s \in HandleOidc(a.token) : ~s.error /\ j.user = s.user
    BY <1>5, <2>1 DEF JobAt
  <2> QED BY <2>2 DEF HandleOidc, User, Refused, Askers
<1>11. j = [op |-> a.op, user |-> u, params |-> a.params, request |-> j.request]
  BY <1>5, <1>7, <1>8, <1>10 DEF JobAt, HasFields
<1> QED BY <1>3, <1>4, <1>6, <1>9, <1>10, <1>11 DEF Deeds

LEMMA CarriesOut ==
    ASSUME IInv, KInv, NoneIsNoDeed, RawsAreMalformed, NEW x \in Exchanges, pc[x] = "running",
           NEW response, carried' = [carried EXCEPT ![x] = [deed |-> job[x], response |-> response]],
           UNCHANGED asking
    PROVE  Contract!Next
<1>1. ask[x] # NoAsk /\ job[x] \in Deeds(ask[x])
  BY TakenIsAllowed
<1>2. carried[x] = None
  BY DEF IInv, Course, Carried
<1>3. PICK d : d = [deed |-> job[x], response |-> response]
  OBVIOUS
<1>4. HasFields(d, {"deed", "response"}) /\ d.deed = job[x]
  BY <1>3 DEF HasFields
<1>5. carried' = [carried EXCEPT ![x] = d] /\ carried'[x] = d
  BY <1>3 DEF IInv, Shape
<1>6. d # None
  BY <1>4 DEF NoneIsNoDeed
<1>7. UNCHANGED ask /\ Told' = Told
  BY DEF asking, Told
<1>8. Contract!CarryOut(x)
  BY <1>1, <1>2, <1>4, <1>5, <1>6, <1>7 DEF Contract!CarryOut, Told
<1> QED BY <1>8 DEF Contract!Next

LEMMA ServeImplements ==
    ASSUME IInv, KInv, NoneIsNoDeed, RawsAreMalformed, NEW x \in Exchanges, Serve(x) \/ Panic(x)
    PROVE  Contract!Next \/ UNCHANGED Contract!contract
<1>1. ASSUME NEW r, pc[x] = "running", CarryOut(x, r)
      PROVE  Contract!Next
  <2>1. PICK response : response = IF r.error = "none" THEN {AsRead(s) : s \in r.response} ELSE {}
    OBVIOUS
  <2>2. carried' = [carried EXCEPT ![x] = [deed |-> job[x], response |-> response]]
    BY <1>1, <2>1, Zenon DEF CarryOut
  <2>3. UNCHANGED asking
    BY <1>1 DEF CarryOut
  <2> QED BY <1>1, <2>2, <2>3, CarriesOut
<1>2. ASSUME UNCHANGED <<asking, carried>>
      PROVE  UNCHANGED Contract!contract
  BY <1>2 DEF asking, Contract!contract
<1>3. CASE Panic(x)
  BY <1>3, CarriesOut DEF Panic
<1>4. CASE ServeHTTP(x) \/ Taking(x) \/ Respond(x)
  BY <1>2, <1>4 DEF ServeHTTP, Taking, Respond
<1>5. CASE runGetMyCatalogs(x) \/ runGetMyPackage(x) \/ runGetPackageSchema(x)
           \/ runInstallService(x) \/ runWatch(x)
  <2>1. PICK r : pc[x] = "running" /\ CarryOut(x, r)
    BY <1>5 DEF runGetMyCatalogs, runGetMyPackage, runGetPackageSchema, runInstallService, runWatch,
           Running
  <2> QED BY <1>1, <2>1
<1> QED BY <1>3, <1>4, <1>5, HandleGetMyCatalogsRequestTakes, HandleGetMyPackageRequestTakes,
           HandleGetPackageSchemaRequestTakes, HandleInstallServiceRequestTakes,
           HandleWatchReleaseRequestTakes, HandleWatchResourcesRequestTakes DEF Serve

(* Whatever the calls, their number and their order: each is carried out at*)
(* most once, as what its client asked and for one who may ask it, and what*)
(* the client is told is the whole response to that, or nothing.           *)
THEOREM Refinement ==
    ASSUME NoneIsNoDeed, RawsAreMalformed
    PROVE  Spec => ImplementsContract
<1>1. Init => Contract!Init
  <2> SUFFICES ASSUME Init PROVE Contract!Init
    OBVIOUS
  <2>1. Told = [x \in Exchanges |-> [over |-> FALSE, response |-> {}]]
    <3>1. ASSUME NEW x \in Exchanges
          PROVE  Told[x] = [over |-> FALSE, response |-> {}]
      <4>1. (client[x] = "returned") = FALSE /\ heard[x].response = {}
        BY DEF Init, NotHeard
      <4> QED BY <4>1, Zenon DEF Told
    <3> QED BY <3>1 DEF Told
  <2> QED BY <2>1 DEF Init, Contract!Init, Contract!Open, Told
<1>2. IInv /\ KInv /\ [Next]_vars => [Contract!Next]_(Contract!contract)
  <2> SUFFICES ASSUME IInv, KInv, [Next]_vars
               PROVE  Contract!Next \/ UNCHANGED Contract!contract
    OBVIOUS
  <2>1. CASE LoadEnv \/ Ping \/ Setup \/ Exit \/ UNCHANGED vars
    BY <2>1 DEF LoadEnv, Ping, Setup, Exit, vars, asking, handling, Contract!contract
  <2>2. ASSUME NEW x \in Exchanges, NEW a \in Asks[x], SendCall(x, a)
        PROVE  Contract!Next
    <3>1. PICK w : Call(x, a, w)
      BY <2>2 DEF SendCall, sendGetMyCatalogs, sendGetMyPackage, sendGetPackageSchema,
             sendInstallService, sendWatchRelease, sendWatchResources
    <3>2. PICK failure : Send(x, a, w, failure)
      BY <3>1 DEF Call
    <3> QED BY <3>2, SendAsks
  <2>3. ASSUME NEW x \in Exchanges, NEW a \in Raws[x], SendRaw(x, a)
        PROVE  Contract!Next
    <3>1. PICK failure : Send(x, a, a.wire, failure)
      BY <2>3 DEF SendRaw
    <3> QED BY <3>1, SendAsks
  <2>4. ASSUME NEW x \in Exchanges, Hear(x) \/ Lose(x)
        PROVE  Contract!Next
    BY <2>4, HearTells, LoseGivesUp
  <2>5. ASSUME NEW x \in Exchanges, Serve(x) \/ Panic(x)
        PROVE  Contract!Next \/ UNCHANGED Contract!contract
    BY <2>5, ServeImplements
  <2> QED BY <2>1, <2>2, <2>3, <2>4, <2>5 DEF Next
<1> QED BY Invariance, OwedInvariance, <1>1, <1>2, PTL
        DEF Spec, ImplementsContract, Contract!Spec
-----------------------------------------------------------------------------
(* Every call is over after a few steps, and what is over stays.           *)

PlaceLeft(label) ==
    CASE label = "none" -> 4
      [] label = "arrived" -> 3
      [] label = "running" -> 2
      [] label = "responding" -> 1
      [] OTHER -> 0
ClientLeft(label) ==
    CASE label = "idle" -> 2
      [] label = "waiting" -> 1
      [] OTHER -> 0
StepsLeft(x) == PlaceLeft(pc[x]) + ClientLeft(client[x])

Works(x) ==
    \/ \E a \in Asks[x] : SendCall(x, a)
    \/ \E a \in Raws[x] : SendRaw(x, a)
    \/ Serve(x) \/ Panic(x) \/ Hear(x) \/ Lose(x)

(* No place is reached twice; what was asked, carried out, answered or     *)
(* heard is not asked, carried out, answered or heard otherwise later.     *)
Forward(x) ==
    /\ pc'[x] # pc[x] => PlaceLeft(pc'[x]) < PlaceLeft(pc[x])
    /\ client'[x] # client[x] => ClientLeft(client'[x]) < ClientLeft(client[x])
    /\ ask[x] # NoAsk => ask'[x] = ask[x] /\ wire'[x] = wire[x]
    /\ carried[x] # None => carried'[x] = carried[x]
    /\ pc[x] \in {"answered", "dead"} => answer'[x] = answer[x]
    /\ client[x] = "returned" => heard'[x] = heard[x]

(* A call takes six steps at most, of its client and of its handler,       *)
(* however many other calls there are, and every call only goes forward,   *)
(* also when the process exits: no response is written, heard or carried   *)
(* out a second time (Handle, Write, Hear, Exit).                          *)
CallsGoForward ==
    [][\A x \in Exchanges :
          /\ Works(x) => StepsLeft(x)' < StepsLeft(x)
          /\ Forward(x)]_vars

LEMMA LeftType ==
    ASSUME NEW label
    PROVE  PlaceLeft(label) \in Nat /\ ClientLeft(label) \in Nat
BY DEF PlaceLeft, ClientLeft

(* A step of the server with one request leaves the others and the clients *)
(* alone.                                                                  *)
LEMMA ServerGoes ==
    ASSUME IInv, NEW x \in Exchanges, UNCHANGED asking, NEW place,
           pc' = [pc EXCEPT ![x] = place], PlaceLeft(place) < PlaceLeft(pc[x]),
           \A y \in Exchanges \ {x} : answer'[y] = answer[y] /\ carried'[y] = carried[y],
           carried'[x] = carried[x] \/ carried[x] = None,
           pc[x] \notin {"answered", "dead"}
    PROVE  StepsLeft(x)' < StepsLeft(x) /\ \A y \in Exchanges : Forward(y)
<1>1. /\ pc'[x] = place /\ \A y \in Exchanges \ {x} : pc'[y] = pc[y]
      /\ UNCHANGED <<ask, client, wire, heard>>
  BY DEF IInv, Shape, asking
<1>2. PlaceLeft(place) \in Nat /\ PlaceLeft(pc[x]) \in Nat /\ ClientLeft(client[x]) \in Nat
  BY LeftType
<1>3. StepsLeft(x)' = PlaceLeft(place) + ClientLeft(client[x])
  BY <1>1, Zenon DEF StepsLeft
<1>4. StepsLeft(x) = PlaceLeft(pc[x]) + ClientLeft(client[x])
  BY DEF StepsLeft
<1>5. StepsLeft(x)' < StepsLeft(x)
  BY <1>2, <1>3, <1>4
<1>6. Forward(x)
  BY <1>1 DEF Forward
<1>7. ASSUME NEW y \in Exchanges \ {x} PROVE Forward(y)
  BY <1>1, <1>7 DEF Forward
<1> QED BY <1>5, <1>6, <1>7

LEMMA ServeGoes ==
    ASSUME IInv, NEW x \in Exchanges, Serve(x) \/ Panic(x)
    PROVE  StepsLeft(x)' < StepsLeft(x) /\ \A y \in Exchanges : Forward(y)
<1>d. Shape /\ Course(x)
  BY DEF IInv
<1>1. ASSUME NEW r, pc[x] = "running", CarryOut(x, r)
      PROVE  StepsLeft(x)' < StepsLeft(x) /\ \A y \in Exchanges : Forward(y)
  <2>1. /\ pc' = [pc EXCEPT ![x] = "responding"] /\ UNCHANGED <<asking, answer>>
        /\ \A y \in Exchanges \ {x} : carried'[y] = carried[y]
    BY <1>d, <1>1 DEF CarryOut, Shape
  <2>2. carried[x] = None
    BY <1>d, <1>1 DEF Course, Carried
  <2>3. PlaceLeft("responding") < PlaceLeft(pc[x])
    BY <1>1 DEF PlaceLeft
  <2> QED BY <1>1, <2>1, <2>2, <2>3, ServerGoes
<1>2. CASE Panic(x)
  <2>1. /\ pc[x] = "running" /\ pc' = [pc EXCEPT ![x] = "answered"] /\ UNCHANGED asking
        /\ \A y \in Exchanges \ {x} : answer'[y] = answer[y] /\ carried'[y] = carried[y]
    BY <1>d, <1>2 DEF Panic, Write, Shape
  <2>2. carried[x] = None
    BY <1>d, <2>1 DEF Course, Carried
  <2>3. PlaceLeft("answered") < PlaceLeft(pc[x])
    BY <2>1 DEF PlaceLeft
  <2> QED BY <2>1, <2>2, <2>3, ServerGoes
<1>3. CASE ServeHTTP(x) \/ Respond(x)
  <2>1. /\ pc[x] \in {"arrived", "responding"} /\ pc' = [pc EXCEPT ![x] = "answered"]
        /\ UNCHANGED <<asking, carried>>
        /\ \A y \in Exchanges \ {x} : answer'[y] = answer[y]
    BY <1>d, <1>3 DEF ServeHTTP, Respond, Write, Shape
  <2>2. PlaceLeft("answered") < PlaceLeft(pc[x])
    BY <2>1 DEF PlaceLeft
  <2> QED BY <2>1, <2>2, ServerGoes
<1>4. CASE Taking(x)
  <2>1. PICK place \in {"answered", "running"} :
            /\ pc[x] = "arrived" /\ pc' = [pc EXCEPT ![x] = place] /\ UNCHANGED <<asking, carried>>
            /\ \A y \in Exchanges \ {x} : answer'[y] = answer[y]
    BY <1>d, <1>4 DEF Taking, Shape
  <2>2. PlaceLeft(place) < PlaceLeft(pc[x])
    BY <2>1 DEF PlaceLeft
  <2> QED BY <2>1, <2>2, ServerGoes
<1>5. CASE runGetMyCatalogs(x) \/ runGetMyPackage(x) \/ runGetPackageSchema(x)
           \/ runInstallService(x) \/ runWatch(x)
  <2>1. PICK r : pc[x] = "running" /\ CarryOut(x, r)
    BY <1>5 DEF runGetMyCatalogs, runGetMyPackage, runGetPackageSchema, runInstallService, runWatch,
           Running
  <2> QED BY <1>1, <2>1
<1> QED BY <1>2, <1>3, <1>4, <1>5, HandleGetMyCatalogsRequestTakes, HandleGetMyPackageRequestTakes,
           HandleGetPackageSchemaRequestTakes, HandleInstallServiceRequestTakes,
           HandleWatchReleaseRequestTakes, HandleWatchResourcesRequestTakes DEF Serve

LEMMA SendGoes ==
    ASSUME IInv, KInv, NEW x \in Exchanges, NEW a, NEW w, NEW failure, Send(x, a, w, failure)
    PROVE  StepsLeft(x)' < StepsLeft(x) /\ \A y \in Exchanges : Forward(y)
<1>1. ask[x] = NoAsk /\ pc[x] = "none" /\ client[x] = "idle" /\ UNCHANGED <<answer, carried>>
  BY NotAskedYet DEF Send, KInv, Called
<1>2. /\ \/ client'[x] = "returned" /\ pc'[x] = "none"
         \/ client'[x] = "waiting" /\ pc'[x] = "arrived"
      /\ \A y \in Exchanges \ {x} :
            /\ ask'[y] = ask[y] /\ client'[y] = client[y] /\ wire'[y] = wire[y]
            /\ pc'[y] = pc[y] /\ heard'[y] = heard[y]
  BY <1>1 DEF Send, Return, IInv, Shape
<1>3. StepsLeft(x) = 6 /\ StepsLeft(x)' = 4
  BY <1>1, <1>2 DEF StepsLeft, PlaceLeft, ClientLeft
<1>4. Forward(x)
  BY <1>1, <1>2 DEF Forward, PlaceLeft, ClientLeft
<1>5. ASSUME NEW y \in Exchanges \ {x} PROVE Forward(y)
  BY <1>1, <1>2, <1>5 DEF Forward
<1> QED BY <1>3, <1>4, <1>5

LEMMA ReturnGoes ==
    ASSUME IInv, NEW x \in Exchanges, Hear(x) \/ Lose(x)
    PROVE  StepsLeft(x)' < StepsLeft(x) /\ \A y \in Exchanges : Forward(y)
<1>1. /\ client[x] = "waiting" /\ UNCHANGED <<ask, wire, pc, answer, carried>>
      /\ \E what : Return(x, what)
  BY DEF Hear, Lose, handling
<1>2. /\ client'[x] = "returned"
      /\ \A y \in Exchanges \ {x} : client'[y] = client[y] /\ heard'[y] = heard[y]
  BY <1>1 DEF Return, IInv, Shape
<1>3. ClientLeft(client[x]) = 1 /\ ClientLeft(client'[x]) = 0
  BY <1>1, <1>2 DEF ClientLeft
<1>4. PlaceLeft(pc[x]) \in Nat /\ PlaceLeft(pc'[x]) = PlaceLeft(pc[x])
  BY <1>1, LeftType
<1>5. StepsLeft(x)' = PlaceLeft(pc'[x]) + ClientLeft(client'[x])
  BY DEF StepsLeft
<1>6. StepsLeft(x) = PlaceLeft(pc[x]) + ClientLeft(client[x])
  BY DEF StepsLeft
<1>7. Forward(x)
  BY <1>1, <1>2, <1>3 DEF Forward
<1>8. ASSUME NEW y \in Exchanges \ {x} PROVE Forward(y)
  BY <1>1, <1>2, <1>8 DEF Forward
<1> QED BY <1>3, <1>4, <1>5, <1>6, <1>7, <1>8

LEMMA WorksGoes ==
    ASSUME IInv, KInv, NEW x \in Exchanges, Works(x)
    PROVE  StepsLeft(x)' < StepsLeft(x) /\ \A y \in Exchanges : Forward(y)
<1>1. ASSUME NEW a \in Asks[x], SendCall(x, a)
      PROVE  \E w, failure : Send(x, a, w, failure)
  <2>1. PICK w : Call(x, a, w)
    BY <1>1 DEF SendCall, sendGetMyCatalogs, sendGetMyPackage, sendGetPackageSchema,
           sendInstallService, sendWatchRelease, sendWatchResources
  <2> QED BY <2>1 DEF Call
<1>2. ASSUME NEW a \in Raws[x], SendRaw(x, a)
      PROVE  \E w, failure : Send(x, a, w, failure)
  BY <1>2 DEF SendRaw
<1> QED BY <1>1, <1>2, SendGoes, ServeGoes, ReturnGoes DEF Works

(* Also when the process exits.                                            *)
LEMMA ProcessGoes ==
    ASSUME IInv, LoadEnv \/ Ping \/ Setup \/ Exit \/ UNCHANGED vars, NEW y \in Exchanges
    PROVE  Forward(y)
<1>1. UNCHANGED <<ask, client, wire, answer, heard, carried>>
  BY DEF LoadEnv, Ping, Setup, Exit, vars, asking, handling
<1>2. pc'[y] = pc[y] \/ (pc[y] \in {"arrived", "running", "responding"} /\ pc'[y] = "dead")
  <2>1. CASE Exit
    BY <2>1 DEF Exit
  <2>2. CASE ~Exit
    BY <2>2 DEF LoadEnv, Ping, Setup, vars, handling
  <2> QED BY <2>1, <2>2
<1>3. pc'[y] # pc[y] => PlaceLeft(pc'[y]) < PlaceLeft(pc[y])
  BY <1>2 DEF PlaceLeft
<1> QED BY <1>1, <1>3 DEF Forward

(* The half of a call's end that owes nothing to the scheduler, whatever   *)
(* the calls, the configuration and the end of the process (ServeHTTP,     *)
(* Handle, Respond, Exit).                                                 *)
THEOREM CallsAreBounded == Spec => CallsGoForward
<1> DEFINE Goes == \A x \in Exchanges :
        /\ Works(x) => StepsLeft(x)' < StepsLeft(x)
        /\ Forward(x)
<1>1. IInv /\ KInv /\ [Next]_vars => [Goes]_vars
  <2> SUFFICES ASSUME IInv, KInv, [Next]_vars, NEW x \in Exchanges
               PROVE  /\ Works(x) => StepsLeft(x)' < StepsLeft(x)
                      /\ Forward(x)
    OBVIOUS
  <2>1. Works(x) => StepsLeft(x)' < StepsLeft(x)
    BY WorksGoes
  <2>2. Forward(x)
    <3>1. (LoadEnv \/ Ping \/ Setup \/ Exit \/ UNCHANGED vars) \/ \E y \in Exchanges : Works(y)
      BY DEF Next, Works
    <3> QED BY <3>1, WorksGoes, ProcessGoes
  <2> QED BY <2>1, <2>2
<1> QED BY Invariance, OwedInvariance, <1>1, PTL DEF Spec, CallsGoForward
=============================================================================
