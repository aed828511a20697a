--------------------------- MODULE InstallService ---------------------------
(***************************************************************************)
(* The installation of a service: the HTTP handler resolves the package,   *)
(* writes the Onyxia secret of the release and starts a Helm install in a  *)
(* goroutine that outlives it (services/api/controller/install_service.go, *)
(* services/usecase/service_lifecycle.go,                                  *)
(* services/adapters/helm/release_gateway.go).                             *)
(*                                                                         *)
(* EnsureOnyxiaSecret is one step: SecretGateway implements SecretStore.   *)
(* Helm is external: a name that is taken is refused, the work is done by a*)
(* goroutine of Helm's own, and RunWithContext returns when that goroutine *)
(* has ended or the context is cancelled, whichever it sees.               *)
(***************************************************************************)
EXTENDS Naturals, Sequences

CONSTANTS
    Handlers,                   \* goroutines of the HTTP server
    Users,
    Packages, NoPackage,        \* catalog, package and version; NoPackage: a field is missing
    Resolvable,                 \* packages the configured catalogs offer
    ReleaseIds,                 \* ids in the URL
    HelmNames, NoName,          \* release names in the body
    Namespaces, NoNamespace,
    NoSecret,
    HttpRequests,               \* what clients of the service send
    StartRequests,              \* what other callers of ServiceLifecycle.Start ask
    MaxRequests, MaxFaults, MaxCrashes      \* bounds

HttpRequest == [user: Users, pkg: Packages \cup {NoPackage},
                id: ReleaseIds, name: HelmNames \cup {NoName}]
StartRequest == [user: Users, pkg: Packages \cup {NoPackage}, id: ReleaseIds,
                 name: HelmNames \cup {NoName}, ns: Namespaces \cup {NoNamespace}]
SecretNames == Namespaces \X ReleaseIds
SecretData == [owner: Users, pkg: Packages \cup {NoPackage}]

ASSUME RequestsAssumption ==
    /\ HttpRequests \subseteq HttpRequest
    /\ StartRequests \subseteq StartRequest
    /\ StartRequest # {}

ASSUME NamesAssumption ==
    /\ Resolvable \subseteq Packages /\ NoPackage \notin Packages
    /\ NoName \notin HelmNames
    /\ NoNamespace \notin Namespaces
    /\ NoSecret \notin SecretData

ASSUME BoundsAssumption == {MaxRequests, MaxFaults, MaxCrashes} \subseteq Nat

VARIABLES
    secrets,    \* Onyxia secrets of the cluster, by namespace and release id
    releases,   \* Helm's releases, by name: status and the request it is of
    pc,         \* per handler: where the request is
    req,        \* per handler: the StartRequest
    status,     \* per handler: the HTTP answer, 0 when there is none yet
    ctx,        \* per handler: the context of its request
    job,        \* per handler: the goroutine of StartInstall
    installer,  \* per handler: Helm's goroutine, and what it returns
    reports,    \* per handler: callbacks of its job, in their order
    budget      \* what may still happen

vars == <<secrets, releases, pc, req, status, ctx, job, installer, reports, budget>>
background == <<releases, job, installer, reports>>
foreground == <<secrets, pc, req, status, ctx>>

Spend(what) == budget[what] > 0 /\ budget' = [budget EXCEPT ![what] = @ - 1]

(* The Onyxia secret of a request: catalog and friendlyName are of pkg.    *)
secretName(q) == <<q.ns, q.id>>
secretData(q) == [owner |-> q.user, pkg |-> q.pkg]

Release == [status: {"absent", "pending", "deployed", "failed"}, of: StartRequest]
taken(n) == releases[n].status # "absent"

-----------------------------------------------------------------------------
(* The handler.                                                            *)

Goto(h, label) == pc' = [pc EXCEPT ![h] = label] /\ UNCHANGED <<status, ctx>>

(* The server cancels the context of a request when its handler returns.   *)
(* The generated code answers 500 to any error.                            *)
Respond(h, code) ==
    /\ pc' = [pc EXCEPT ![h] = "idle"]
    /\ status' = [status EXCEPT ![h] = code]
    /\ ctx' = [ctx EXCEPT ![h] = "cancelled"]

Accept(h, q, label) ==
    /\ pc[h] = "idle" /\ job[h] \in {"none", "done"} /\ installer[h] = "none"
    /\ Spend("requests")
    /\ req' = [req EXCEPT ![h] = q]
    /\ reports' = [reports EXCEPT ![h] = <<>>]
    /\ job' = [job EXCEPT ![h] = "none"]
    /\ pc' = [pc EXCEPT ![h] = label]
    /\ status' = [status EXCEPT ![h] = IF label = "idle" THEN 500 ELSE 0]
    /\ ctx' = [ctx EXCEPT ![h] = IF label = "idle" THEN "cancelled" ELSE "live"]
    /\ UNCHANGED <<secrets, releases, installer>>

(* The controller does not set Namespace.                                  *)
StartRequestOf(r) ==
    [user |-> r.user, pkg |-> r.pkg, id |-> r.id, name |-> r.name, ns |-> NoNamespace]

InstallService(h, r) ==
    Accept(h, StartRequestOf(r), IF r.pkg = NoPackage THEN "idle" ELSE "resolve")

Start(h, q) == Accept(h, q, "resolve")

(* Mutant: the secret is written for a package that cannot be resolved.    *)
ResolvePackageIgnoringErrors(h) ==
    /\ pc[h] = "resolve"
    /\ Goto(h, "ensureSecret")
    /\ UNCHANGED <<secrets, req, background, budget>>

(* Mutant: the install is started before the secret is written.            *)
ResolvePackageThenInstall(h) ==
    /\ pc[h] = "resolve"
    /\ IF req[h].pkg \in Resolvable THEN Goto(h, "startInstall") ELSE Respond(h, 500)
    /\ UNCHANGED <<secrets, req, background, budget>>

ResolvePackage(h) ==
    /\ pc[h] = "resolve"
    /\ IF req[h].pkg \in Resolvable THEN Goto(h, "ensureSecret") ELSE Respond(h, 500)
    /\ UNCHANGED <<secrets, req, background, budget>>

(* Created, or overwritten whatever it says; the answer may be lost.  The  *)
(* client library refuses an empty namespace.                              *)
EnsureOnyxiaSecret(h) ==
    /\ pc[h] = "ensureSecret"
    /\ \/ /\ req[h].ns = NoNamespace
          /\ Respond(h, 500)
          /\ UNCHANGED <<secrets, budget>>
       \/ /\ req[h].ns # NoNamespace
          /\ secrets' = [secrets EXCEPT ![secretName(req[h])] = secretData(req[h])]
          /\ \/ Goto(h, "startInstall") /\ UNCHANGED budget
             \/ Respond(h, 500) /\ Spend("faults")
    /\ UNCHANGED <<req, background>>

(* The chart is located and loaded by the handler, the rest is left to a   *)
(* goroutine.                                                              *)
StartInstall(h) ==
    /\ pc[h] = "startInstall"
    /\ IF req[h].name = NoName
       THEN Respond(h, 500) /\ UNCHANGED job
       ELSE Goto(h, "return") /\ job' = [job EXCEPT ![h] = "begin"]
    /\ UNCHANGED <<secrets, releases, req, installer, reports, budget>>

Return(h) ==
    /\ pc[h] = "return"
    /\ Respond(h, 202)
    /\ UNCHANGED <<secrets, req, background, budget>>

(* A network call of the handler fails, or the chart cannot be loaded.     *)
CallFails(h) ==
    /\ pc[h] \in {"resolve", "ensureSecret", "startInstall"}
    /\ Spend("faults")
    /\ Respond(h, 500)
    /\ UNCHANGED <<secrets, req, background>>

-----------------------------------------------------------------------------
(* The goroutine of StartInstall, and Helm's.                              *)

Report(h, what) == reports' = [reports EXCEPT ![h] = Append(@, what)]
JobAt(h, label) == job' = [job EXCEPT ![h] = label]
InstallerAt(h, label) == installer' = [installer EXCEPT ![h] = label]
Mark(n, s) == releases' = [releases EXCEPT ![n].status = s]

OnStart(h) ==
    /\ job[h] = "begin"
    /\ Report(h, "start")
    /\ JobAt(h, "run")
    /\ UNCHANGED <<foreground, releases, installer, budget>>

(* The name is checked and the release recorded, or neither.               *)
RunWithContext(h) ==
    /\ job[h] = "run"
    /\ \/ /\ ~taken(req[h].name)
          /\ releases' = [releases EXCEPT ![req[h].name] =
                [status |-> "pending", of |-> req[h]]]
          /\ JobAt(h, "wait")
          /\ InstallerAt(h, "working")
          /\ UNCHANGED <<reports, budget>>
       \/ /\ taken(req[h].name)
          /\ Report(h, "error")
          /\ JobAt(h, "done")
          /\ UNCHANGED <<releases, installer, budget>>
       \/ /\ Spend("faults")
          /\ Report(h, "error")
          /\ JobAt(h, "done")
          /\ UNCHANGED <<releases, installer>>
    /\ UNCHANGED foreground

(* Helm's goroutine ends; nobody listens when the job has gone.            *)
performInstall(h) ==
    /\ installer[h] = "working"
    /\ \/ /\ Mark(req[h].name, "deployed")
          /\ InstallerAt(h, IF job[h] = "wait" THEN "deployed" ELSE "none")
          /\ UNCHANGED budget
       \/ /\ Spend("faults")
          /\ InstallerAt(h, IF job[h] = "wait" THEN "broken" ELSE "none")
          /\ UNCHANGED releases
    /\ UNCHANGED <<foreground, job, reports>>

(* Mutant: the job does not wait for Helm.                                 *)
SucceededEarly(h) ==
    /\ job[h] = "wait" /\ installer[h] \in {"working", "deployed"}
    /\ Report(h, "success")
    /\ JobAt(h, "done")
    /\ InstallerAt(h, IF installer[h] = "working" THEN "working" ELSE "none")
    /\ UNCHANGED <<foreground, releases, budget>>

Succeeded(h) ==
    /\ job[h] = "wait" /\ installer[h] = "deployed"
    /\ Report(h, "success")
    /\ JobAt(h, "done")
    /\ InstallerAt(h, "none")
    /\ UNCHANGED <<foreground, releases, budget>>

(* Mutant: the return after OnError is missing.                            *)
FailedWithoutReturn(h) ==
    /\ job[h] = "wait"
    /\ installer[h] = "broken" \/ ctx[h] = "cancelled"
    /\ Mark(req[h].name, "failed")
    /\ reports' = [reports EXCEPT ![h] = @ \o <<"error", "success">>]
    /\ JobAt(h, "done")
    /\ InstallerAt(h, IF installer[h] = "working" THEN "working" ELSE "none")
    /\ UNCHANGED <<foreground, budget>>

(* Mutant: the job does not hear of a failure of Helm's goroutine.         *)
FailedUnheard(h) ==
    /\ job[h] = "wait" /\ installer[h] = "working" /\ ctx[h] = "cancelled"
    /\ Mark(req[h].name, "failed")
    /\ Report(h, "error")
    /\ JobAt(h, "done")
    /\ UNCHANGED <<foreground, installer, budget>>

(* The installation failed, or the context is cancelled: Helm marks the    *)
(* release as failed; its goroutine goes on.                               *)
Failed(h) ==
    /\ job[h] = "wait"
    /\ installer[h] = "broken" \/ ctx[h] = "cancelled"
    /\ Mark(req[h].name, "failed")
    /\ Report(h, "error")
    /\ JobAt(h, "done")
    /\ InstallerAt(h, IF installer[h] = "working" THEN "working" ELSE "none")
    /\ UNCHANGED <<foreground, budget>>

(* SIGTERM ends in os.Exit: requests and jobs are lost.                    *)
CrashRestart ==
    /\ Spend("crashes")
    /\ pc' = [h \in Handlers |-> "idle"]
    /\ status' = [h \in Handlers |-> 0]
    /\ ctx' = [h \in Handlers |-> "cancelled"]
    /\ job' = [h \in Handlers |-> "none"]
    /\ installer' = [h \in Handlers |-> "none"]
    /\ reports' = [h \in Handlers |-> <<>>]
    /\ UNCHANGED <<secrets, releases, req>>

-----------------------------------------------------------------------------

Init ==
    /\ secrets = [s \in SecretNames |-> NoSecret]
    /\ releases = [n \in HelmNames |->
          [status |-> "absent", of |-> CHOOSE q \in StartRequest : TRUE]]
    /\ pc = [h \in Handlers |-> "idle"]
    /\ req = [h \in Handlers |-> CHOOSE q \in StartRequest : TRUE]
    /\ status = [h \in Handlers |-> 0]
    /\ ctx = [h \in Handlers |-> "cancelled"]
    /\ job = [h \in Handlers |-> "none"]
    /\ installer = [h \in Handlers |-> "none"]
    /\ reports = [h \in Handlers |-> <<>>]
    /\ budget = [requests |-> MaxRequests, faults |-> MaxFaults, crashes |-> MaxCrashes]

Handle(h) ==
    \/ ResolvePackage(h)
    \/ EnsureOnyxiaSecret(h)
    \/ StartInstall(h)
    \/ Return(h)

Job(h) == OnStart(h) \/ RunWithContext(h) \/ Succeeded(h) \/ Failed(h)

Next ==
    \/ \E h \in Handlers :
          \/ \E r \in HttpRequests : InstallService(h, r)
          \/ \E q \in StartRequests : Start(h, q)
          \/ Handle(h)
          \/ CallFails(h)
          \/ Job(h)
          \/ performInstall(h)
    \/ CrashRestart

Spec == Init /\ [][Next]_vars

(* Goroutines are scheduled, and Helm's ends in some way.                  *)
FairSpec == Spec /\ \A h \in Handlers :
    WF_vars(Handle(h)) /\ WF_vars(Job(h)) /\ WF_vars(performInstall(h))

-----------------------------------------------------------------------------
(* Properties.                                                             *)

TypeOK ==
    /\ secrets \in [SecretNames -> SecretData \cup {NoSecret}]
    /\ releases \in [HelmNames -> Release]
    /\ pc \in [Handlers -> {"idle", "resolve", "ensureSecret", "startInstall", "return"}]
    /\ req \in [Handlers -> StartRequest]
    /\ status \in [Handlers -> {0, 202, 500}]
    /\ ctx \in [Handlers -> {"live", "cancelled"}]
    /\ job \in [Handlers -> {"none", "begin", "run", "wait", "done"}]
    /\ installer \in [Handlers -> {"none", "working", "deployed", "broken"}]
    /\ reports \in [Handlers -> Seq({"start", "success", "error"})]
    /\ budget \in [{"requests", "faults", "crashes"} -> Nat]

(* What the handler has done is what its place says: past EnsureOnyxia-    *)
(* Secret its secret exists, and only then there is a job.                 *)
Prepared(h) ==
    /\ req[h].ns # NoNamespace
    /\ req[h].pkg \in Resolvable
    /\ secrets[secretName(req[h])] # NoSecret

PreparedFor(h) ==
    /\ pc[h] # "idle" => status[h] = 0
    /\ pc[h] = "ensureSecret" => req[h].pkg \in Resolvable
    /\ pc[h] = "startInstall" => Prepared(h)
    /\ job[h] # "none" => Prepared(h) /\ req[h].name # NoName
    /\ pc[h] \in {"resolve", "ensureSecret", "startInstall"} => job[h] = "none"
    /\ job[h] = "wait" => taken(req[h].name)
    /\ installer[h] # "none" => taken(req[h].name) /\ job[h] \in {"wait", "done"}

PreparedInOrder == \A h \in Handlers : PreparedFor(h)

(* Each release Helm knows has an Onyxia secret under the id it was asked  *)
(* with: the two are written in this order, and by different calls.        *)
EveryReleaseHasItsSecret ==
    \A n \in HelmNames :
        taken(n) => /\ secretName(releases[n].of) \in SecretNames
                    /\ secrets[secretName(releases[n].of)] # NoSecret

(* A package that cannot be resolved leaves nothing behind.                *)
OnlyResolvedPackages ==
    /\ \A s \in SecretNames : secrets[s] # NoSecret => secrets[s].pkg \in Resolvable
    /\ \A n \in HelmNames : taken(n) => releases[n].of.pkg \in Resolvable

(* A job reports its start and then one outcome; a request that fails in   *)
(* the handler is never reported (TestStartInstallNoCallbacksOnPreflight-  *)
(* Errors).                                                                *)
ReportedBy(h) ==
    /\ job[h] \in {"none", "begin"} => reports[h] = <<>>
    /\ job[h] \in {"run", "wait"} => reports[h] = <<"start">>
    /\ job[h] = "done" => reports[h] \in {<<"start", "success">>, <<"start", "error">>}
    /\ status[h] = 500 => job[h] = "none"

ReportsInOrder == \A h \in Handlers : ReportedBy(h)

(* The invariant of InstallServiceProofs.                                  *)
IInv ==
    /\ TypeOK
    /\ PreparedInOrder
    /\ EveryReleaseHasItsSecret
    /\ OnlyResolvedPackages
    /\ ReportsInOrder

(* InstallContract, with a job for each handler: whatever other requests   *)
(* for the same id or name do in between, a release is of one request, its *)
(* status is that job's doing, and "success" is said only of a release that*)
(* is deployed, which then stays.                                          *)
Contract == INSTANCE InstallContract WITH
    Jobs <- Handlers,
    Allowed <- {q \in StartRequest : q.pkg \in Resolvable /\ q.ns # NoNamespace},
    SecretOf <- secretName,
    DataOf <- secretData,
    Names <- HelmNames,
    NameOf <- LAMBDA q : q.name,
    asked <- req,
    told <- [h \in Handlers |->
                IF reports[h] = <<>> THEN "nothing" ELSE reports[h][Len(reports[h])]]

ImplementsInstallContract == Contract!Spec

(* An accepted installation ends and is reported, unless the process does. *)
EventuallyReported ==
    \A h \in Handlers : job[h] = "begin" ~> job[h] \in {"none", "done"}

(* "202: Accepted - installation running" (openapi.yaml): without a fault, *)
(* a complete request for a package of the catalogs is not refused.        *)
CompleteRequestAccepted ==
    \A h \in Handlers :
        /\ budget.faults = MaxFaults
        /\ req[h].pkg \in Resolvable /\ req[h].name # NoName
        => status[h] # 500

(* "StartInstall starts a helm install operation in background": without a *)
(* fault, an install whose name is free does not end in an error.          *)
InstallOutlivesRequest ==
    \A h \in Handlers :
        budget.faults = MaxFaults /\ reports[h] = <<"start", "error">> =>
            releases[req[h].name].of # req[h]
=============================================================================
