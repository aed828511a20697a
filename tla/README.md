# A TLA+ development of the Onyxia backend

The Onyxia backend is two Go services over one Kubernetes cluster:

* **onboarding** (`cmd/onyxia-onboarding`, `onboarding/`) opens a namespace for a user or
  a group and keeps its ResourceQuota right;
* **services** (`cmd/onyxia-services`, `services/`) lists catalogs of Helm charts and
  installs them.

Both are HTTP servers generated by ogen (`*/api/oas/*_gen.go`), authenticate
requests with the same code (`internal/auth`), and run every request on its own
goroutine. There is no database: the state that outlives a request is in the
cluster, in the process (a cache of DPoP identifiers, a configuration map, a
Helm index file) or in the user's token.

## 1. Inventory

| Component | State | Operations | What is hard |
| --- | --- | --- | --- |
| onboarding controller, use case, Kubernetes adapter (`onboarding/api/controller`, `onboarding/usecase`, `onboarding/adapter/kubernetes`) | namespaces and ResourceQuotas of the cluster; the `Static` annotation map of the configuration, which requests write | `Onboard`: group check, annotations, Create namespace, Patch, Get / Update / Create quota | concurrent logins of one user or group; administrators who edit, shield or delete the same objects; lost answers; shutdown between two calls; a shared map |
| DPoP proofs (`internal/auth/oidc/dpop`, `internal/auth/oidc`) | `JTICache`: identifier of a proof -> expiry | `VerifyRequest`, `VerifyProof`, `Seen`, `evict` | the clock moves between the reading used for the age of a proof and the one used for eviction; a request delivered twice; restart |
| token verification, user context, no-auth mode (`internal/auth`, `internal/usercontext`) | none (request context) | `verifyToken`, `validateAudience`, `extractClaim`, `HandleOidc` | which error becomes which status |
| installation (`services/api/controller/install_service.go`, `services/usecase/service_lifecycle.go`, `services/adapters/helm/release_gateway.go`) | Helm releases; one goroutine per installation | `InstallService`, `Start`, `StartInstall`; `Resume`, `Delete`, `Rename`, `Share` do nothing | the goroutine runs on the context of a request that has ended; steps that are not undone |
| Onyxia secrets (`services/adapters/k8s/onyxia_secret_gateway.go`) | the Secret of each release | `EnsureOnyxiaSecret` (Create, then Get / Create / Update with retry on conflict), `Read`, `Delete` | concurrent writers, deletion in the middle, a bounded number of retries |
| Helm repositories (`services/adapters/helm/package_repository.go`, `version_filter.go`) | the index file in a cache directory | list, get, resolve, filter versions | two requests download to the same file |
| catalogs (`services/usecase/catalog.go`, `services/api/controller/catalog.go`) | none | `ListPublicCatalogs`, `ListUserCatalogs`, `GetPackage`, `GetPackageSchema` | who sees which catalog; one repository that fails; a listing whose security is optional in `openapi.yaml` |
| configuration (`services/bootstrap/env`, `onboarding/bootstrap/env.go`, `internal/configloader`) | none after start | `Load` (defaults, file, environment), `ValidateCatalogsConfig` | which source is in force; keys whose case is folded; whether what passes validation can panic, or be listed as JSON that does not parse |
| start-up, logging, Kubernetes client, tools (`cmd`, `*/bootstrap`, `internal/logging`, `internal/kube`, `internal/tools`) | none | `main`, `NewApplication`, `Ping`, `Setup`; flush on SIGTERM | a start that must not reach serving; the process exits between two steps of a request |
| API server and client of services (`services/api/oas`, `api/middleware`, `api/route`, `cmd/onyxia-services`) | where each exchange is | client: build a request, read a response; server: route, security, parameters, body, controller, response; CORS, recovery from panics | two ends written apart that must agree; which error becomes which status; names that are also branches of the router; clients that give up; exits with handlers at work |
| generated server of onboarding (`onboarding/api/oas`) | none | decode, security, encode, for one operation | an error from a controller is answered 500 |
| release events (`services/api/route`) | none | `WatchRelease`, `WatchResources` | they answer that they are not implemented |

Interactions: the generated server calls the security handler (token, proof),
then the controller, the use case, the port and its adapter, all on one
goroutine; only `StartInstall` starts another one and calls back. The two
services share no memory. Requests of one service meet in the cluster, in
`JTICache`, in the `Static` map and in the Helm cache directory.

What makes each component correct, and what a test would hardly reach, is
listed with its line under `hazards` in `PROJECT.json`.

The properties that make each component correct:

| Component | It is correct when |
| --- | --- |
| onboarding | a request touches only the namespace of a user or a group it is entitled to; a quota an administrator shields is never rewritten; 200 means the quota is in force; a client that repeats its request is served in the end |
| DPoP proofs | while a proof is fresh it is accepted once, whatever is delivered twice and whenever; only a replay is called one; the cache stays small |
| Onyxia secrets | concurrent writers leave a whole secret of one of them; labels of others survive; a call ends |
| installation | no release without a secret, nothing for a package that does not exist, one outcome reported for each job |
| API server and client | a call is carried out at most once, as what its client was given and for the owner of its token; a response that is no error is heard as it was given; every call returns; another origin installs nothing |
| configuration | the process goes by environment, file and defaults in that order; a catalog is listed with its configured texts; what cannot be served does not start |
| catalogs | an answer is as fresh as the repository was when it was asked; a user sees exactly the catalogs open to them; what is shown can be installed; a configuration that starts cannot panic |

## 2. Modules

```
QuotaRules ------- Onboarding ------ MCOnboarding            (runs)
                      |  `-- refines ClusterContract
                  OnboardingProofs

Authentication --- MCAuthentication      AuthenticationProofs

SecretGateway ---- MCSecretGateway       SecretGatewayProofs
       `-- refines SecretStore
                      : stands for EnsureOnyxiaSecret in
InstallService --- MCInstallService      InstallServiceProofs
       `-- refines InstallContract

CatalogRules ----- Catalogs ----- MCCatalogs
      |               |
CatalogRulesProofs -- CatalogsProofs

ServicesJson ----- ServicesHttp ----- ServicesControllers --.
ServicesRoutes ---------------------------------------------+- ServicesApi --- MCServicesApi
ConfigLoading ----------------------------------------------'      `-- refines ApiContract

ServicesHttp ----- ServicesHttpProofs ----- ServicesApiProofs ----- ServicesApi
```

In all of them an action is the code between two points where another goroutine,
the cluster or the outside world can interfere: an API call, a lock, a file, the
network. A handler's place in the code is its `pc`. The definitions named
"mutant" in the comments are changed versions of the definition below them: no
behaviour uses them; they are there to see each property fail when the code is
wrong in that way.

### QuotaRules, Onboarding, ClusterContract

`QuotaRules` is the pure part of `onboarding/usecase/quota.go` and of the
adapter: the namespace of a request, the quota for a group, a user, the first of
a user's roles that has one; the conversion of a quota to a hard map, where an
unparseable string is an error and an unset one is left out; and
`quotasAreDifferent`, which compares parsed quantities and not strings (`1Gi`
and `1024Mi` are the same quantity).

`Onboarding` is one request per session through controller, use case and adapter.
`Onboard` is the controller up to the use case, with the group check.
`getNamespaceAnnotations`, `CreateNamespace`, `PatchNamespace`, `GetQuota`,
`UpdateQuota` and `CreateQuota` are one API call each with the code that follows up
to the next call (`AfterNamespace`, `AfterGet`). The controller's answer for a
request without a user (`onboarding.go:36`) is not modelled: both security handlers
put a user into the context of what they let through (`oidc.go:193`,
`noauth.go:21`). `namespaces` and `quotas` are the cluster, `revision` the last
resourceVersion given out, `sharedAttrs` what the `Static` map of the configuration
holds, `seen` the quota object a request has read. `Answered` lets any call take
effect and its answer be lost; `CallFails` lets it fail without effect.
`CrashRestart` is the exit on SIGTERM. Administrators write and delete quotas and
namespaces at any time (`Environment`). The status is the one the generated handler
sends: an error is 500, whatever response value is returned with it.

`ClusterContract` is what the service promises about the cluster, and who changes it
is part of it. A session is `serving` one request of a user entitled to it, and its
changes are `OpenNamespace` and `EnforceQuota` of the namespace of that very request,
with the limits configured for that request, unless the quota is ignored or already
right. Every change by an administrator uses up one of the `interventions`, a
session's uses none, and the namespace controller only finishes deletions: a change
that is none of these has to be accounted for by a session. `ImplementsContract` maps the
phases of `namespaces` and the hard maps of `quotas` to it, the requests in flight to
`serving` and the administrators' budget to `interventions`; resourceVersions,
annotations, labels and the steps of a request are not visible.

### Authentication

`VerifyRequest` is the security handler up to the cache: the scheme, the token
(signature, audience, username claim), and the proof, whose age is judged at the
time the handler reads there. `CheckJTI` is `JTICache.Seen` under its lock, with
its own reading of the clock, and what follows it (`ath`, key). `Tick` moves the
clock, and `MaxLag` bounds how far it may move between the two readings of one
handler. The code has nothing to make up for it: `jtiTTL` is age and skew, no more.
So `AcceptedAtMostOnce` is false of it and `AcceptedOnceWhileFresh`, which speaks of
the time when a proof is young enough, is what holds for any lag.
The same message may be delivered any number of times and to all handlers.
`Restart` empties the cache; the histories `accepted` and `admitted` start again
with it, because the code promises nothing across restarts.

### SecretGateway, SecretStore

`SecretGateway` is `EnsureOnyxiaSecret` call by call (`Create`; then `Get`,
`Update` or, when the secret has gone, `Recreate`, with `attempts` counting
client-go's retry on conflict) and `DeleteOnyxiaSecret`, by any number of
callers. `disturbed` is a history: the callers whose operation met another
writer, a lost call or a deletion. `Annotate` is somebody who labels a secret.
`SecretStore` has one atomic step per operation that takes effect, once, or not
at all; `ImplementsStore` is the refinement.

### InstallService, InstallContract

A handler is at `pc`: `ResolvePackage`, `EnsureOnyxiaSecret`, `StartInstall`
(the checks, and the goroutine), `Return` (202, and the server cancels the
request's context). `job` is the goroutine of `StartInstall`: `OnStart`,
`RunWithContext`, then `Succeeded` or `Failed`. `installer` is Helm's goroutine
(`performInstall`), which goes on when the context is cancelled. `InstallService`
is a request over HTTP: the controller sets no namespace, so `EnsureOnyxiaSecret` fails.
`Start` is any other caller of the use case, with a namespace; without it
nothing after the secret could be examined. `EnsureOnyxiaSecret` is one step:
SecretGateway implements SecretStore, and the theorem `Refinement` says so for
every number of callers. A handler takes a new request when its goroutines have
ended, which only bounds the number of goroutines in a state.

`InstallContract` is what users and callbacks may rely on, without goroutines,
contexts and handlers: secrets before releases, a release that is one request's
for good, an end that is its own job's doing, and "success" only for a release
that is deployed and stays so. An error is no such promise: `Deploy` is allowed
after it, because Helm's goroutine may finish what its job has given up.
`ImplementsInstallContract` maps the last callback of a job to `told`.

### CatalogRules, Catalogs

`CatalogRules` is pure: `ValidateCatalogsConfig`, who is granted a catalog
(`Included`: `ListUserCatalogs` for a user, the unrestricted catalogs for
nobody), the version filters with the indexing that can panic, the lookup of
packages and versions of both kinds of catalog.

In `Catalogs` a Helm index is downloaded, written to a file and read, and the
three are steps: the file is shared by all requests. `Boot` validates the
configuration and serves or exits; `Publish` is a repository that changes its
index; `Restart` leaves the files. `HandleOidc` is a request over HTTP, which is
refused when it has no token; `Begin` of a member of `Calls` is a call of the
controller by somebody else. The histories `since` and `crossed` record what the
repositories served when a request began, and for which catalogs another request
had downloaded an older index by then.

### ServicesJson, ServicesRoutes, ServicesHttp, ServicesControllers, ConfigLoading

These are pure. What may be absent is a set of at most one value, and so is what
a decoder that may fail returns.

`ServicesJson` is the codecs of `oas_json_gen.go` for every schema, over the
shapes of JSON (`Str`, `Num`, `Obj`, ...), with the validators that follow a
decoder: fields that are required or optional, a list that is null, a text that
is one string or one per language. `ServicesRoutes` is the router, as the tree of
prefixes it is, and the path parameters: `Restored` is what the router puts back
when a branch does not match. `ServicesHttp` is one encoder on the server and
one decoder on the client for each operation, with the statuses and media types
each of them knows, the body of a request, and the answers that are no response
of `openapi.yaml`. `ServicesControllers` is what controllers make of a use
case's result: a response, an error or both.

`ConfigLoading` is `Load`: the defaults, then a file when it can be read, then
the environment; keys folded to lower case, also those of maps inside a list, where
of two keys that differ in case either may win;
conversion to the fields of `Env` or failure; `ValidateCatalogsConfig` for the
texts of a catalog (`CatalogRules` has its other checks).

### ServicesApi, ApiContract

`ServicesApi` is one call per exchange from the arguments of the client to what
the client returns. The process starts (`LoadEnv`, `Ping`, `Setup`) and may exit
at any time. `sendGetMyCatalogs` and its like build the request and fail where
the generated client does: no token for an operation that needs one, nobody
listening, a browser that refuses to send it (`Blocked`). Which pages of
other origins are let through is `AllowedOrigin`, as go-chi/cors has it: an empty
list admits any, a `*` too, a pattern what `Wildcards` says, all in lower case; the
headers it looks at include the `DPoP` of a bound token. On the server
`handle...Request` is security, parameters and body, in the order of the
handler, up to the controller; `run...` is the controller; `Respond` is the end
of the handler, where an error beside a response replaces it; `Panic` is the
`Recoverer` of `main`. `Hear` is the client that reads the answer, `Lose` one that
never gets it, at any point, whatever the server does then.

A use case gives any result its signature allows, of a small set: the module
asks what becomes of each, and `Catalogs` and `InstallService` ask which there
are. `carried` is a history: for whom and with which arguments a controller was
called, and its response as a client may read it.

`ApiContract` is the promise to a caller: asked, carried out at most once, told
or given up. `Deeds` names the jobs an ask may become: the same operation with
the same parameters and body, for the owner of the token, for `Anonymous`, or, for the
one operation whose security is optional and when there is no token, for nobody.
`ImplementsContract` is therefore about the whole chain of escaping, routing,
decoding and encoding, and about two exchanges that must not be mixed up.

## 3. Runs

Passing runs:

| Run | Bounds | What it shows |
| --- | --- | --- |
| `onboarding` | 2 sessions, 2 requests and any number of repetitions; 1 lost or failed call, 1 restart, 1 action of an administrator, two of the three in one behaviour; annotations on, no `Static` map; 2 users, 1 group, 1 resource; with fairness | the inductive invariant; no request changes a quota with the ignore annotation, another namespace, or a quota already right; 200 means that the quota is in force at that moment; a login leaves the labels; the user attributes on a namespace are those of somebody entitled to it; every behaviour is one of `ClusterContract`; a session that repeats its request gets 200, unless its group is refused or its quota cannot be parsed |
| `authentication` | 2 handlers, 3 tokens, 3 proofs, 8 messages delivered any number of times, clock 1..6, maximal age 2, skew 1, 1 unit between the two readings of a handler, 1 restart | while a proof is fresh it has been accepted once at most; a bound token needs its proof; only what was let through is called a replay; each use leaves only entries of the last `jtiTTL` in the cache |
| `secret_gateway` | 2 callers, 1 secret, 4 operations, 2 attempts, 1 fault, 1 restart, 1 label; with fairness | the refinement of `SecretStore`; labels survive; an operation fails only when disturbed; every operation ends |
| `install_service` | 2 handlers, 3 requests, 1 fault, 1 exit; 2 users, 2 ids, 2 release names, 1 package that resolves and 1 that does not; with fairness | the refinement of `InstallContract`; a release has a secret; what cannot be resolved leaves nothing; `OnStart` and then one outcome; the outcome comes unless the process exits |
| `catalogs` | 2 handlers, 2 requests, 1 fault, 1 restart, 2 indexes per repository, 6 configurations | the age of answers; no panic; a listing has exactly what the user may see, or fails because of that; versions follow the mode of the catalog; a version shown resolves |
| `services_api` | 2 exchanges, one of which may be any of 24 calls or 9 malformed requests; 8 sets of sources for the configuration, 4 of which must not start; lost answers, panics and exits at any step; with fairness | the refinement of `ApiContract`; a response that is no error is heard unless it is lost; both ends agree on every response of the API, including those no controller gives; which calls get to their operation; for whom they are carried out; what another origin can do; which texts are listed; every call returns |

`services_api` has 78,000 distinct states, the others between 169,000 and 743,000;
each takes from a quarter of a minute to a minute and a half, `onboarding`, with its
temporal properties over 346,000 states, two.

Why these are enough. Each property is about two parties, a request and one that
interferes, so two handlers (and an administrator) reach it; a third repeats the
role of one of them. One fault and one exit fall at every step of every request,
because nothing orders them. Two requests and their repetitions, or four operations
on a secret, let the second writer come before, between and after the steps of the
first. One resource is enough for quotas: the comparison is by entry, and the
theorem `QuotasAreDifferentIsInequality` covers any number. Ages up to 2 and a clock
to 6 pass the whole life of a proof (`jtiTTL` is age and skew) and the moments just
before and after it; a lag of 1 is enough for a handler to ask the cache after the
entry of its proof has gone, which `authentication_replay` shows. Of the three kinds
of disturbance of `onboarding` any two meet in one behaviour, the deletion of a
namespace beside a lost call or a restart among them. The configurations of
`catalogs` have each mode, a restricted catalog first and last, an invalid
expression, one that matches nobody, a negative and a missing number, and a
duplicate id. Exchanges of `services_api` share the process only, so a second call
of one kind beside any call of the other is enough to see one taken for the other;
every call goes through every result of its use case and every loss. The configured
origins are none, a star, and a name in upper case beside a pattern.

The inputs that decide the interesting cases are in the MC modules: a quota
string equal in quantity and not in spelling, one that does not parse, a user
whose second role decides, a cluster with quotas from before; proofs signed for
another token and a forged one; one release id asked for by two users and one
release name under two ids; an index whose versions skip minors and repeat them;
an identifier with a slash, one that is empty, releases with the names of
branches of the router, a forged token, a body that is no object, of another
type, or without its required fields.

Deadlock is checked where the model cannot stop: `authentication`, and the
onboarding runs, which may stop only in `Quiescent`, when every session has its 200
or has no request left. `CHECK_DEADLOCK FALSE` is said where a state without
successors is the end of the request budget (`secret_gateway`, `install_*`,
`catalogs*`) or of the process (`services_api*`). Handlers are interchangeable, and
`SYMMETRY` is used where there are two alike and no liveness is checked:
`authentication*` and `catalogs`.

Runs that show a disagreement between the code and what the repository says of it:

| Run | What happens |
| --- | --- |
| `onboarding_shared_map` | requests write the user's attributes into the `Static` map of the configuration itself (`usecase/namespace.go:49`); of two users who log in at once, one gets the other's attributes on the namespace |
| `authentication_replay` | the cache "prevents replay attacks by tracking seen JTIs for jtiTTL" (`jti.go:9`): a handler that judged the age of a proof in time (`oidc.go:211`) and asks the cache later, under its lock (`jti.go:21`), finds the entry evicted, and the proof is accepted twice |
| `install_accepted` | no namespace is passed to the use case (`install_service.go:69`), and a request that `openapi.yaml` answers 202 is answered 500 |
| `install_background` | the background installation runs on the context of the request (`release_gateway.go:102`), which ends with the 202 |
| `catalogs_latest` | "empty for latest": the word `latest` is looked up among the versions of the index (`package_repository.go:158`) |
| `services_api_declared` | a listing without a token, which `services/openapi.yaml:94` allows ("Otherwise returns the public catalog", `:102`), is refused: a missing header is an error like others (`oidc.go:87`), and `ListPublicCatalogs` is never reached over HTTP. The refusal, a 401 by ogen's default error handler, is none of the responses declared for the listing, and the client cannot read it |

`AnsweredAsDeclared` is about every call that `openapi.yaml` allows; TLC stops at the
first one it is violated by, and the run asks only for the listing. With other calls in
`MCAllowed` the same property shows that

* an installation that is refused is answered with an error of ogen's and not with
  the Problem for 400, 401, 403, 409 or 500 that `services/openapi.yaml:161` to `:170`
  declare, because the controller returns an error beside it (`install_service.go:87`);
  so it is for every other typed failure except a package that is not found;
* a release named `events` or `schemas`, which the pattern at
  `services/openapi.yaml:242` allows, cannot be installed: the router takes the name
  for a branch and does not put it back (`oas_router_gen.go:189`). `CallsArrive`
  leaves these names aside and promises nothing of them;
* the watch operations answer that they are not implemented (`handler.go:42`), which
  no client reads.

Other divergences met on the way, which the models follow and no run is about:

* a login to an existing namespace adds no labels when annotations are disabled, the
  default (`namespace_service.go:51`), where `onboarding/README.md:72` says "at creation
  and subsequent user logins"; `LabelledWhenAnnotated` therefore has a hypothesis;
* a refused group is answered 500 where `onboarding/openapi.yaml:26` says 401
  (`onboarding.go:55` returns a value and an error);
* a secret deleted between `Get` and `Update` fails the call, where
  `TestEnsureRecreateIfDeletedDuringUpdate` (`onyxia_secret_gateway_test.go:99`) names
  that case and tries the deletion before `Get` only;
* a second request for a deployed release overwrites its secret before Helm refuses
  it, where `services/openapi.yaml:121` says idempotent;
* a package an OCI catalog does not have is answered 500 where
  `services/openapi.yaml:48` says 404;
* a page of another origin cannot send the `DPoP` header that
  `services/openapi.yaml:503` demands for a bound token: it is not among those of
  `main.go:52`.

`services_api` pins down how the code behaves where no document says so:

* `ActsAsOwner`: a file that cannot be read is a warning (`configloader.go:34`), so
  that the default mode `none` is in force and everybody acts as `Anonymous`, while a
  variable `AUTHENTICATIONMODE` set to nothing means OIDC. Nobody is ever acted for,
  except by a listing that was sent without a token; a token that is refused does not
  count as none.
* `ListedAsConfigured`: a text configured for `zh-CN` is listed for `zh-cn`; when both
  are configured, it may be either text.
* `OtherOriginsOnlyRead`: `PUT`, `X-Onyxia-Project`, `Last-Event-ID` and `DPoP` are not
  among the allowed methods and headers (`main.go:51`), so that a page of another
  origin cannot install, nor use a bound token, whatever origins are configured; and
  it hears an answer only when a configured origin, pattern or star admits it.
* `Ping` gives the Kubernetes API five seconds in a context that it does not pass
  on (`kube/client.go:46`): nothing in the model makes the start go on, either.

## 4. Fairness

Only what the scheduler of Go and the answers of the cluster justify is fair:

* `Onboarding`: weak fairness of the steps of an accepted request, of the client
  that repeats a request that was not answered 200, and of the namespace
  controller that finishes a deletion. Without the last a namespace could stay
  terminating, and nobody's quota could be created in it.
* `SecretGateway`: weak fairness of each caller's steps.
* `InstallService`: weak fairness of handlers, jobs and Helm's goroutine, which
  ends in one way or another.

* `ServicesApi`: weak fairness of the server's steps for each exchange, of a client
  that reads its answer, and of the loss a client notices when the server has
  exited. That use cases return is part of the first; `EventuallyAnswered` of
  `SecretGateway` and the theorems `RequestsAreBounded` of `CatalogsProofs` and
  `InstallServiceProofs` are why.
  No step of the start has fairness.

Faults, exits, panics, administrators, new requests and publications have no fairness.
Weak fairness of a handler's steps as a whole is enough, since at each `pc` one
of them is enabled until it is taken.

## 5. Proofs

Each `*Proofs` module proves, for every value of the constants and without
bounds (the budgets are any natural numbers), what the runs check on small
instances: every invariant, action property and refinement of the passing runs is
stated by a theorem, and liveness by none. `PROJECT.json` lists the theorems. The
invariants they rest on were first checked by TLC on the instances of the runs.

Five modules also prove that work is bounded: a measure on where a request is
(`StepsLeft`, `CallsLeft`) that each of its own steps lowers and that no step of
anybody else raises. That is all there is to "it ends" except that the scheduler
runs it:

| Theorem | A request takes at most | Why a test would hardly tell |
| --- | --- | --- |
| `OnboardingProofs!RequestsAreBounded` | five steps | others delete and write its namespace and its quota in between |
| `SecretGatewayProofs!OperationsAreBounded` | `2 * Steps + 1` calls | every retry may meet another conflict |
| `InstallServiceProofs!RequestsAreBounded` | eight steps of handler, job and Helm | the three outlive each other, and crashes come between |
| `CatalogsProofs!RequestsAreBounded` | four steps per configured catalog, and one | the loop goes on under reads and writes of others |
| `ServicesApiProofs!CallsAreBounded` | six steps of client and handler | a panic or the end of the process takes the place of any of them |

### OnboardingProofs

The rules first: comparing the sizes of two hard maps and then the entries of one is
inequality of maps (`QuotasAreDifferentIsInequality`); that the first role with a
quota decides is a lemma.

`IInv` starts from `TypeOK` and `OnlyEntitledInFlight`. That a shielded quota
survives is not inductive: a request at `updateQuota` decided on a copy.
`UpdateIsInformed` says that as long as the resourceVersion it read is still
there, the object is the one it read; this needs `RevisionsArePast` (a new object
has a number nobody has seen) and `QuotasAreHoused`. `UnansweredInFlight` is
there for `SuccessMeansEnforced`, an action property of the step that answers:
without it the 200 of an earlier request could be taken for this one's.
`IgnoredQuotasSurvive`, `RightQuotasSurvive` and `SuccessIsEnforced` follow from
the invariant and the lemma `QuotaWrite`, which lists the steps that write a
quota; `NoForeignTrace` from the guards of the steps that create. `Refinement`
takes each step to a step of `ClusterContract` by the same actor, or to a stutter: a
Create or Update of a session to `OpenNamespace` or `EnforceQuota` for the request it
serves (`OnlyEntitledInFlight` and `Enforceable` limits are what it needs), a step of
the administrators to one that uses up an intervention, a shutdown to the end of
every request at once.

Two theorems have a hypothesis on the configuration, because without it the
property is false:

* `LabelledWhenAnnotated` assumes `NeverUnannotated`: annotations are enabled, and
  something goes into them. Otherwise a login to an existing namespace sends no
  patch (`namespace_service.go:51`). `LabelInv` follows a request from the moment it
  finds a namespace to the end.
* `AttributesAreOfEntitledUser` assumes `OwnAnnotations`: no attributes, or no
  `Static` map to write them into (`onboarding_shared_map`).

### AuthenticationProofs

`ForgottenIsStale`: the cache forgets a proof only when it is too old for any
handler, including one that holds it since its first reading of the clock
(`PendingIsTimely`): at its first reading the handler found the proof young enough,
and at the second the clock may be `MaxLag` further. A proof that is fresh now was
fresh at every earlier moment since it was issued, so its entry is still there, and
`OnceWhileFresh` needs no hypothesis on the lag. After that moment the entry may go
while a handler that read the clock in time has not asked for it
(`authentication_replay`). `BoundTokensNeedTheirProof` and `ReplaysWereAdmitted` hold
at any time; `CacheIsRecent` is by the lemmas about `evict`.

### SecretGatewayProofs

The same idea as for quotas (`UpdateIsInformed`), then `MetadataIsKept` and
`Refinement`, with one simulation lemma for each kind of step.
`UndisturbedSucceeds` needs an invariant about the calls nobody disturbs
(`UndisturbedAreOnCourse`): what they found is there when they read it, what they
read is there when they update it, and they never come to `Recreate`.

### InstallServiceProofs

`PreparedInOrder`: where a handler and its job are says what has been done, under
whatever the other handlers do to the same names. Three properties follow from it.
`Refinement` needs more, `InstallersOwnTheirReleases`: a goroutine of Helm that is
at work, or has an end to tell, is the only one on its name, the release under it
is of its own request, and its status is what the job has made of it. This is why
"success" is only ever reported of the release of one's own request, though a job
that gave up leaves its goroutine behind.

`SuccessStays` is about the time after: a release is `Settled` when nobody is at
work on its name, and then no step changes it. A success is of a deployed, settled
release, so that it stays true. The other side of it is that after a shutdown every
release is settled: one that was pending stays pending, nothing in the code takes it
up again, and whoever asks for its name is refused by Helm (`release_gateway.go:65`).
`InstallContract` does not say this: an identical request may be made again, and the
contract does not tell the two apart.

### CatalogRulesProofs, CatalogsProofs

`FilterShows`: for a list of any length, what the loop of `skipPatches` keeps (the
first version of each minor) and what the slices of the other modes keep is what
the mode says, in the order of the index. A loop is a function of the number of
turns; what holds before the first turn and is kept by each holds after all
(`EachTurn`), because a set of positions has a least one. No induction theorem with
an operator parameter is needed.

`CatalogsProofs` has three invariants. `OnItsWayTo` is for the age of answers: not only
the file a request is about to read but every index another request has
downloaded and not yet written is recent enough for it, or of a catalog in
`crossed`. `NoPanic` uses `ServesValidConfig`. `ListingsKeepTo` is for
`ListingsAreRestricted`: the entries so far are the catalogs visible to the user
before `at`, each at its rank among them. `AnswersAccounted` is for
`ModesAreFollowed` and `ShownCanBeInstalled`: an answered package is
the filter of an index that was published, and a lookup that failed without a
fault had no catalog, or read an index as recent as its request that lacks the
version. `RequestsAreBounded` adds `LoopsStayWithin`: a loop over the catalogs is never
behind the place after the last one.

### ServicesHttpProofs

One lemma for each schema and one for each operation: a value of the type, once
encoded, is decoded to itself (with what the decoder fills in, such as `share`),
whatever its texts, numbers, lists and maps are. An object is what its fields and
its optional fields that are set say (`ObjectIs`), and a decoder is followed field
by field. `RequestIsRead` is the body of an installation.

### ServicesApiProofs

`IInv` is `Shape` (one entry per exchange in each variable), `Process` (what the
process goes by is one reading of its sources, made before any call) and `Course`:
for each exchange how it was sent, who took it, with what it was answered and what
was heard of it, each in terms of the configuration in force. `KInv` is a second
invariant on top of it: a controller gives a response of the API's types
(`Sound`, from one lemma per controller), and what is written is that response
whole, or an error that no client takes for a response (`Owed`, `Paid`). From the
two:

* `CompleteCallsArrive` goes through the router: what it does with an escaped path,
  for each operation, and what each branch restores, names of branches left aside;
* `CarriedOutForOwner` goes through `New`, from the sources to the mode in force. It
  assumes `ModeIsWrittenOnce`: a source does not spell the key of the mode in two
  ways, of which the code takes any, and gives a text for it;
* `EveryResponseRead` and `AcceptedAndHeard` use the lemmas of
  `ServicesHttpProofs`; `CatalogsAsConfigured` follows the texts of a catalog from the source
  through `ValidateCatalogsConfig`, the controller and both codecs;
* `PagesOnlyAsk` is about the headers and methods allowed in `main.go` and the origins
  that the configuration in force admits, patterns and case included;
* `Refinement` assumes `RawsAreMalformed`, that what is sent by hand is no request
  an operation can read: `ApiContract` speaks of the calls of clients, and a
  request written by hand that is well-formed is one of those. `NoneIsNoDeed` says that
  the constant for "not carried out" is not a record;
* `CallsAreBounded` needs `KInv` to know that a call that returned was asked, and
  says of every exchange, with no hypothesis, that no place is reached twice and that
  what was carried out, answered or heard stays (`CallsGoForward`).

### Assumptions

The proofs assume the named assumptions of the modules, which every run
evaluates: positive bounds, names distinct from "no name", and facts that the
code or the libraries it uses guarantee. Those of `ServicesApi` are:

| Assumption | Why it holds |
| --- | --- |
| `AsksAssumption` | the generated client takes typed parameters and a typed body, and `net/http` sends no request without a method |
| `EscapeAssumption` | `url.PathEscape` is injective, and leaves what it does not change different from what it makes; `events` and `schemas` have nothing to escape |
| `OwnerAssumption` | a request has one `Authorization` header that counts, and a token one username claim |
| `ReadableAssumption` | the responses a client must read are values of the generated types |
| `UseCasesAssumption` | a use case's result has its Go type: a list of versions or none, a schema that is a JSON object a map |
| `SourcesAssumption` | `viper` reads one file (`configloader.go`), every setting has a default, and `catalogs` is the one key under which there are catalogs |

### What is only model-checked

The liveness properties, which are out of the prover's reach, as is `ENABLED`:
`EventuallyServed`, `EventuallyAnswered`, `EventuallyReported`, `EveryCallReturns`. What
is proved of them is the half without fairness, the bounded-work theorems above; that
some step is enabled until it is taken, and with fairness taken, is TLC's. And
the runs that show a divergence, whose value is a counterexample. No module has a
RECURSIVE operator: a loop of the code is a function of its turns.

## 6. What is assumed of others

* Kubernetes: an Update with a resourceVersion is refused when the object has
  changed; Create is refused when the object exists or the namespace is
  terminating or empty; a call may be done and its answer lost.
* Helm: a release name in use is refused; the work runs on a goroutine of Helm's
  own, and cancelling the context returns control without stopping it; an index
  file is replaced as a whole.
* The identity provider: what a token says is data of a request, and its keys may
  be out of reach.
* viper and mapstructure: keys without regard to case, folded to lower case also
  within lists; a variable that is set, even to nothing, overrides a file; a text
  where a list is expected is split at commas, an empty one is an empty list; a
  text that is no number is an error where a number is expected.
* net/http, ogen's runtime and jx: escaping of a path segment, the status of an
  error by its kind (`DefaultErrorHandler`), an empty answer 500 after a panic.
* browsers: a request that is not a plain GET is asked for first, and an answer to
  a page of another origin is kept from it unless the origin is allowed.

Definitions that model these are marked external in `PROJECT.json`.

## 7. What is not modelled

* of the API: metrics and traces, `FindPath`, getters and setters, retries of
  idempotent requests inside net/http, the incremental sending of a stream of
  events (its media type and decoding are), the headers of an answer to a browser
  beyond the origin;
* onboarding's generated server, except that security comes before the controller
  and that an error is a 500: one operation of the same generator;
* the configuration of onboarding beyond `Load`: its fields are the constants of
  `QuotaRules` and `Onboarding`. Of both services, the automatic variables of viper,
  whose names contain `::`, which no shell sets;
* token claims: which claim holds the groups and roles is data; what they hold
  enters the other modules as part of a request;
* logging, the proxy transport, the loading of a kubeconfig: I/O and formatting;
* `Resume`, `Delete`, `Rename` and `Share`, which do nothing in the code.

## 8. Plan

Written so far, in the order of what matters most: onboarding, proofs of
possession, secrets, installation, catalogs, and the API of services with its
client and its configuration; and the proofs of every safety property and every
refinement the runs check, of the bounds on the work of a request, and of what
stays of an installation. Next:

1. **One installation end to end**: `Catalogs` and `InstallService` composed over
   one index, so that a package resolved is the one installed when the
   repository publishes in between; 1 handler of each kind, 2 indexes.
2. **Authentication before the services**: a request enters `Onboarding` only when
   `VerifyRequest` accepts it; a repeated login is a repeated delivery for one
   and a repetition for the other.
3. **Composing the theorems**: `InstallService` with `EnsureOnyxiaSecret` replaced
   by the steps of `SecretGateway`, so that `ReleasesHaveSecrets` is about the
   calls to the cluster, by way of `SecretGatewayProofs!Refinement`.
