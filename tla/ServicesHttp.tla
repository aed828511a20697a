---------------------------- MODULE ServicesHttp ----------------------------
(***************************************************************************)
(* What the services API and its client say over HTTP: the request body,   *)
(* and for each operation the answer a response is written as and the      *)
(* response an answer is read as                                           *)
(* (services/api/oas/oas_request_decoders_gen.go,                          *)
(* oas_response_encoders_gen.go, oas_response_decoders_gen.go).            *)
(*                                                                         *)
(* A response is the name of its type and its value.  An answer has a      *)
(* status, a media type, the value of its headers and a body.              *)
(***************************************************************************)
EXTENDS ServicesJson

JsonType == "application/json"
ProblemType == "application/problem+json"
EventStream == "text/event-stream"
NoType == ""
NoHeaders == <<>>

Answer(status, ct, headers, body) ==
    [status |-> status, ct |-> ct, headers |-> headers, body |-> body]
Empty(status) == Answer(status, NoType, NoHeaders, Nothing)

-----------------------------------------------------------------------------
(* Answers that no operation writes.                                       *)

(* http.NotFound *)
notFound == Answer(404, "text/plain", NoHeaders, Nothing)

notAllowed(method) == IF method = "OPTIONS" THEN Empty(204) ELSE Empty(405)

(* The error handler has a status for the errors of the server and for the *)
(* ones of a handler that is not there; any other error is a 500, whatever *)
(* response came with it.                                                  *)
DefaultErrorHandler(error) ==
    LET status == CASE error = "Security"       -> 401
                    [] error \in {"DecodeParams", "DecodeRequest"} -> 400
                    [] error = "ContentType"    -> 415
                    [] error = "NotImplemented" -> 501
                    [] OTHER                    -> 500
    IN  Answer(status, JsonType, NoHeaders, Obj([error_message |-> Str(error)]))

(* The panic of a handler, caught by the middleware.                       *)
Recoverer == Empty(500)

-----------------------------------------------------------------------------
(* The body of an installation: the request, or the error.                 *)
Decoded(request) == [request |-> {request}, error |-> "none"]
Undecoded(error) == [request |-> {}, error |-> error]

decodeInstallServiceRequest(ct, body) ==
    IF ct # JsonType THEN Undecoded(IF ct = NoType THEN "DecodeRequest" ELSE "ContentType")
    ELSE LET requests == DecodeServiceInstallRequest(body)
         IN  IF requests = {} THEN Undecoded("DecodeRequest") ELSE Decoded(The(requests))

-----------------------------------------------------------------------------
(* The responses of each operation: a success or a problem.                *)

Response(type, value) == [type |-> type, value |-> value]

ProblemTypes ==
    [getMyCatalogs |-> {"Problem"},
     getMyPackage |-> {"GetMyPackageNotFound", "GetMyPackageInternalServerError"},
     getPackageSchema |-> {"GetPackageSchemaBadRequest", "GetPackageSchemaInternalServerError"},
     installService |-> {"InstallServiceBadRequest", "InstallServiceUnauthorized",
                         "InstallServiceForbidden", "InstallServiceConflict",
                         "InstallServiceInternalServerError"},
     watchRelease |-> {"WatchReleaseUnauthorized", "WatchReleaseForbidden", "WatchReleaseNotFound"},
     watchResources |-> {"WatchResourcesUnauthorized", "WatchResourcesForbidden",
                         "WatchResourcesNotFound"}]

IsStream(s) == HasFields(s, {"cacheControl", "connection", "data"})

IsSuccess(op, r) ==
    \/ /\ op = "getMyCatalogs" /\ r.type = "GetMyCatalogsOKApplicationJSON"
       /\ IsMap(r.value) /\ \A i \in DOMAIN r.value : IsCatalog(r.value[i])
    \/ op = "getMyPackage" /\ r.type = "DetailedPackage" /\ IsDetailedPackage(r.value)
    \/ op = "getPackageSchema" /\ r.type = "GetPackageSchemaOK" /\ IsRawMap(r.value)
    \/ /\ op = "installService" /\ r.type = "InstallAcceptedHeaders"
       /\ HasFields(r.value, {"location", "response"}) /\ IsInstallAccepted(r.value.response)
    \/ op = "watchRelease" /\ r.type = "WatchReleaseOKHeaders" /\ IsStream(r.value)
    \/ op = "watchResources" /\ r.type = "WatchResourcesOKHeaders" /\ IsStream(r.value)

IsResponse(op, r) ==
    /\ HasFields(r, {"type", "value"})
    /\ IsSuccess(op, r) \/ (r.type \in ProblemTypes[op] /\ IsProblem(r.value))

-----------------------------------------------------------------------------
(* The answer to a response; an unexpected response has none, and the      *)
(* error handler writes one.                                               *)

Json(status, body) == Answer(status, JsonType, NoHeaders, body)
Problem(status, r) == Answer(status, ProblemType, NoHeaders, EncodeProblem(r.value))
Unexpected == DefaultErrorHandler("EncodeResponse")

encodeGetMyCatalogsResponse(r) ==
    CASE r.type = "GetMyCatalogsOKApplicationJSON" -> Json(200, EncodeGetMyCatalogsOK(r.value))
      [] r.type = "Problem" -> Problem(500, r)
      [] OTHER -> Unexpected

encodeGetMyPackageResponse(r) ==
    CASE r.type = "DetailedPackage"      -> Json(200, EncodeDetailedPackage(r.value))
      [] r.type = "GetMyPackageNotFound" -> Problem(404, r)
      [] r.type = "GetMyPackageInternalServerError" -> Problem(500, r)
      [] OTHER -> Unexpected

encodeGetPackageSchemaResponse(r) ==
    CASE r.type = "GetPackageSchemaOK"         -> Json(200, EncodeGetPackageSchemaOK(r.value))
      [] r.type = "GetPackageSchemaBadRequest" -> Problem(400, r)
      [] r.type = "GetPackageSchemaInternalServerError" -> Problem(500, r)
      [] OTHER -> Unexpected

encodeInstallServiceResponse(r) ==
    CASE r.type = "InstallAcceptedHeaders" ->
            Answer(202, JsonType, <<r.value.location>>, EncodeInstallAccepted(r.value.response))
      [] r.type = "InstallServiceBadRequest"   -> Problem(400, r)
      [] r.type = "InstallServiceUnauthorized" -> Problem(401, r)
      [] r.type = "InstallServiceForbidden"    -> Problem(403, r)
      [] r.type = "InstallServiceConflict"     -> Problem(409, r)
      [] r.type = "InstallServiceInternalServerError" -> Problem(500, r)
      [] OTHER -> Unexpected

(* The events of a stream are its data.                                    *)
encodeWatchReleaseResponse(r) ==
    CASE r.type = "WatchReleaseOKHeaders" ->
            Answer(200, EventStream, <<r.value.cacheControl, r.value.connection>>, r.value.data)
      [] r.type = "WatchReleaseUnauthorized" -> Problem(401, r)
      [] r.type = "WatchReleaseForbidden"    -> Problem(403, r)
      [] r.type = "WatchReleaseNotFound"     -> Problem(404, r)
      [] OTHER -> Unexpected

encodeWatchResourcesResponse(r) ==
    CASE r.type = "WatchResourcesOKHeaders" ->
            Answer(200, EventStream, <<r.value.cacheControl, r.value.connection>>, r.value.data)
      [] r.type = "WatchResourcesUnauthorized" -> Problem(401, r)
      [] r.type = "WatchResourcesForbidden"    -> Problem(403, r)
      [] r.type = "WatchResourcesNotFound"     -> Problem(404, r)
      [] OTHER -> Unexpected

-----------------------------------------------------------------------------
(* The response in an answer: its type and value, or the client's error.   *)

Heard(type, value) == [response |-> {Response(type, value)}, error |-> "none"]
Failed(error) == [response |-> {}, error |-> error]
UnexpectedStatusCode == Failed("UnexpectedStatusCode")

(* What the client reads of a response: a list it is not given is empty.   *)
OrEmpty(list) == IF list = {} THEN {<<>>} ELSE list
AsRead(r) ==
    CASE r.type = "GetMyCatalogsOKApplicationJSON" ->
            Response(r.type, [i \in DOMAIN r.value |->
                                [r.value[i] EXCEPT !.packages = OrEmpty(@)]])
      [] r.type = "DetailedPackage" ->
            Response(r.type, [r.value EXCEPT !.versions = OrEmpty(@)])
      [] OTHER -> r

(* The media type, then the body, then what the response demands.          *)
Reading(a, ct, type, values, Validate(_)) ==
    IF a.ct # ct THEN Failed("InvalidContentType")
    ELSE IF values = {} THEN Failed("DecodeBody")
    ELSE IF Validate(The(values)) THEN Heard(type, The(values)) ELSE Failed("Validate")

Anything(v) == TRUE
ReadProblem(a, type) == Reading(a, ProblemType, type, DecodeProblem(a.body), Anything)

decodeGetMyCatalogsResponse(a) ==
    CASE a.status = 200 -> Reading(a, JsonType, "GetMyCatalogsOKApplicationJSON",
                                   DecodeGetMyCatalogsOK(a.body), ValidateGetMyCatalogsOK)
      [] a.status = 500 -> ReadProblem(a, "Problem")
      [] OTHER -> UnexpectedStatusCode

(* Mutant: the two problems are taken for one another.                     *)
decodeGetMyPackageResponseSwapped(a) ==
    CASE a.status = 200 -> Reading(a, JsonType, "DetailedPackage",
                                   DecodeDetailedPackage(a.body), ValidateDetailedPackage)
      [] a.status = 500 -> ReadProblem(a, "GetMyPackageNotFound")
      [] a.status = 404 -> ReadProblem(a, "GetMyPackageInternalServerError")
      [] OTHER -> UnexpectedStatusCode

decodeGetMyPackageResponse(a) ==
    CASE a.status = 200 -> Reading(a, JsonType, "DetailedPackage",
                                   DecodeDetailedPackage(a.body), ValidateDetailedPackage)
      [] a.status = 404 -> ReadProblem(a, "GetMyPackageNotFound")
      [] a.status = 500 -> ReadProblem(a, "GetMyPackageInternalServerError")
      [] OTHER -> UnexpectedStatusCode

decodeGetPackageSchemaResponse(a) ==
    CASE a.status = 200 -> Reading(a, JsonType, "GetPackageSchemaOK",
                                   DecodeGetPackageSchemaOK(a.body), Anything)
      [] a.status = 400 -> ReadProblem(a, "GetPackageSchemaBadRequest")
      [] a.status = 500 -> ReadProblem(a, "GetPackageSchemaInternalServerError")
      [] OTHER -> UnexpectedStatusCode

InstallAcceptedHeaders(a) ==
    {[location |-> a.headers[1], response |-> v] : v \in DecodeInstallAccepted(a.body)}

decodeInstallServiceResponse(a) ==
    CASE a.status = 202 -> Reading(a, JsonType, "InstallAcceptedHeaders",
                                   InstallAcceptedHeaders(a), Anything)
      [] a.status = 400 -> ReadProblem(a, "InstallServiceBadRequest")
      [] a.status = 401 -> ReadProblem(a, "InstallServiceUnauthorized")
      [] a.status = 403 -> ReadProblem(a, "InstallServiceForbidden")
      [] a.status = 409 -> ReadProblem(a, "InstallServiceConflict")
      [] a.status = 500 -> ReadProblem(a, "InstallServiceInternalServerError")
      [] OTHER -> UnexpectedStatusCode

(* The whole stream is read before the response is returned.               *)
WatchOKHeaders(a) ==
    {[cacheControl |-> a.headers[1], connection |-> a.headers[2], data |-> a.body]}

decodeWatchReleaseResponse(a) ==
    CASE a.status = 200 -> Reading(a, EventStream, "WatchReleaseOKHeaders",
                                   WatchOKHeaders(a), Anything)
      [] a.status = 401 -> ReadProblem(a, "WatchReleaseUnauthorized")
      [] a.status = 403 -> ReadProblem(a, "WatchReleaseForbidden")
      [] a.status = 404 -> ReadProblem(a, "WatchReleaseNotFound")
      [] OTHER -> UnexpectedStatusCode

decodeWatchResourcesResponse(a) ==
    CASE a.status = 200 -> Reading(a, EventStream, "WatchResourcesOKHeaders",
                                   WatchOKHeaders(a), Anything)
      [] a.status = 401 -> ReadProblem(a, "WatchResourcesUnauthorized")
      [] a.status = 403 -> ReadProblem(a, "WatchResourcesForbidden")
      [] a.status = 404 -> ReadProblem(a, "WatchResourcesNotFound")
      [] OTHER -> UnexpectedStatusCode
=============================================================================
