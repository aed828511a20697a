------------------------------ MODULE Catalogs ------------------------------
(***************************************************************************)
(* The catalogs of the services API: requests list the catalogs a user may *)
(* see, show a package, or resolve a package for an installation           *)
(* (services/api/controller/catalog.go, services/usecase/catalog.go,       *)
(* services/adapters/helm/package_repository.go).                          *)
(*                                                                         *)
(* Each request that needs a Helm catalog downloads its index, writes it to*)
(* a file and reads that file: the file is shared by all requests, and the *)
(* network call, the write and the read are three steps.  Helm replaces the*)
(* file as a whole; that, and the repository it serves, are external.      *)
(***************************************************************************)
EXTENDS CatalogRules

CONSTANTS
    Handlers,               \* goroutines of the HTTP server
    Configurations,         \* what an operator may configure
    Entries,                \* per catalog, what its repository publishes in turn
    Requests,               \* what clients ask over HTTP
    Calls,                  \* what other callers of the controller ask
    Latest,                 \* the version the controller asks for when there is none
    MaxRequests, MaxFaults, MaxCrashes      \* bounds

Request ==
         [op: {"list"}, user: Users \cup {Anonymous}]
    \cup [op: {"package"}, id: CatalogIds, name: PackageNames]
    \cup [op: {"resolve"}, id: CatalogIds, name: PackageNames, version: {Latest} \cup Version]

Serials == 1 .. Len(Entries)
NoIndex == 0

ASSUME RequestsAssumption == Requests \cup Calls \subseteq Request /\ Latest \notin Version
ASSUME EntriesAssumption ==
    /\ Entries \in Seq([CatalogIds -> [PackageNames -> Seq({NoVersion} \cup Version)]])
    /\ Entries # <<>>
ASSUME ConfigurationsAssumption == Configurations \subseteq Seq(CatalogConfig)
ASSUME BoundsAssumption == {MaxRequests, MaxFaults, MaxCrashes} \subseteq Nat

VARIABLES
    phase,      \* of the process: "starting", "serving" or "exited"
    config,     \* envCatalogConfig
    upstream,   \* per catalog: which of Entries its repository serves
    file,       \* per catalog: which of Entries its index file holds, or NoIndex
    pc,         \* per handler: what it does next
    ask,        \* per handler: its Request
    at,         \* per handler: the position in config of the catalog it is at
    fetched,    \* per handler: the index it has downloaded and not yet written
    answer,     \* per handler: its answer, as far as it has got
    since,      \* history: upstream when the request began
    crossed,    \* history: catalogs of which an older index was on its way then
    budget      \* what may still happen

process == <<phase, config>>
history == <<since, crossed>>
vars == <<phase, config, upstream, file, pc, ask, at, fetched, answer, since, crossed, budget>>

Blank(status) == [status |-> status, entries |-> <<>>, versions |-> <<>>, blame |-> 0]
NoAnswer == Blank(0)

Spend(what) == budget[what] > 0 /\ budget' = [budget EXCEPT ![what] = @ - 1]

(* The catalog a handler is at.                                            *)
catalog(h) == config[at[h]]
id(h) == catalog(h).id

Goto(h, label) == pc' = [pc EXCEPT ![h] = label]

Answer(h, status) ==
    /\ Goto(h, "idle")
    /\ answer' = [answer EXCEPT ![h].status = status,
                                ![h].blame = IF status = 500 THEN at[h] ELSE 0]

-----------------------------------------------------------------------------
(* The process.                                                            *)

(* env.New and NewPackageRepository.                                       *)
Boot ==
    /\ phase = "starting"
    /\ phase' = IF ValidateCatalogsConfig(config) THEN "serving" ELSE "exited"
    /\ UNCHANGED <<config, upstream, file, pc, ask, at, fetched, answer, history, budget>>

(* The file outlives the process.                                          *)
Restart ==
    /\ phase = "serving" /\ Spend("crashes")
    /\ phase' = "starting"
    /\ pc' = [h \in Handlers |-> "idle"]
    /\ answer' = [h \in Handlers |-> NoAnswer]
    /\ UNCHANGED <<config, upstream, file, ask, at, fetched, history>>

(* The owner of a Helm repository publishes a new index.                   *)
Publish(i) ==
    /\ \E k \in DOMAIN config : config[k].id = i /\ config[k].type = "helm"
    /\ upstream[i] < Len(Entries)
    /\ upstream' = [upstream EXCEPT ![i] = @ + 1]
    /\ UNCHANGED <<process, file, pc, ask, at, fetched, answer, history, budget>>

-----------------------------------------------------------------------------
(* Requests.                                                               *)

Accept(h, r, label, status) ==
    /\ phase = "serving" /\ pc[h] = "idle"
    /\ Spend("requests")
    /\ ask' = [ask EXCEPT ![h] = r]
    /\ at' = [at EXCEPT ![h] = 1]
    /\ answer' = [answer EXCEPT ![h] = Blank(status)]
    /\ Goto(h, label)
    /\ since' = [since EXCEPT ![h] = upstream]
    /\ crossed' = [crossed EXCEPT ![h] =
          {id(g) : g \in {w \in Handlers : pc[w] = "store" /\ fetched[w] < upstream[id(w)]}}]
    /\ UNCHANGED <<process, upstream, file, fetched>>

Begin(h, r) == Accept(h, r, IF r.op = "list" THEN "next" ELSE "find", 0)

(* A listing may do without a token, but to the security handler a missing *)
(* one is an error.                                                        *)
Unauthenticated(r) == r.op = "list" /\ r.user = Anonymous

HandleOidc(h, r) ==
    IF Unauthenticated(r) THEN Accept(h, r, "idle", 401) ELSE Begin(h, r)

(* An entry of the answer, and the index it is of.                         *)
Entry(h, names, serial) == [id |-> id(h), names |-> names, serial |-> serial]

Add(h, e) ==
    /\ answer' = [answer EXCEPT ![h].entries = Append(@, e)]
    /\ at' = [at EXCEPT ![h] = @ + 1]
    /\ Goto(h, "next")

(* Mutant: every catalog is fetched, the restricted ones are dropped later.*)
buildCatalogsFetchingAll(h) ==
    /\ pc[h] = "next"
    /\ \/ /\ at[h] > Len(config)
          /\ Answer(h, 200)
          /\ UNCHANGED at
       \/ /\ at[h] <= Len(config) /\ catalog(h).type = "oci"
          /\ Add(h, Entry(h, listOCIPackages(catalog(h)), NoIndex))
       \/ /\ at[h] <= Len(config) /\ catalog(h).type = "helm"
          /\ Goto(h, "fetch")
          /\ UNCHANGED <<at, answer>>
    /\ UNCHANGED <<process, upstream, file, ask, fetched, history, budget>>

(* One turn of the loop over the configured catalogs.                      *)
buildCatalogs(h) ==
    /\ pc[h] = "next"
    /\ \/ /\ at[h] > Len(config)
          /\ Answer(h, 200)
          /\ UNCHANGED at
       \/ /\ at[h] <= Len(config) /\ ~Included(catalog(h), ask[h].user)
          /\ at' = [at EXCEPT ![h] = @ + 1]
          /\ UNCHANGED <<pc, answer>>
       \/ /\ at[h] <= Len(config) /\ Included(catalog(h), ask[h].user)
          /\ catalog(h).type = "oci"
          /\ Add(h, Entry(h, listOCIPackages(catalog(h)), NoIndex))
       \/ /\ at[h] <= Len(config) /\ Included(catalog(h), ask[h].user)
          /\ catalog(h).type = "helm"
          /\ Goto(h, "fetch")
          /\ UNCHANGED <<at, answer>>
    /\ UNCHANGED <<process, upstream, file, ask, fetched, history, budget>>

(* The answer about one package: its versions, or a status.                *)
Show(h, names, serial, versions, status) ==
    /\ Goto(h, "idle")
    /\ answer' = [answer EXCEPT ![h] =
          [status |-> status, versions |-> versions, blame |-> 0,
           entries |-> IF status = 200 THEN <<Entry(h, names, serial)>> ELSE <<>>]]

(* GetPackage and ResolvePackage look the catalog up; what an OCI catalog  *)
(* has is in its configuration.                                            *)
findCatalog(h) ==
    /\ pc[h] = "find"
    /\ \/ /\ \A i \in DOMAIN config : config[i].id # ask[h].id
          /\ Answer(h, IF ask[h].op = "package" THEN 404 ELSE 500)
          /\ UNCHANGED at
       \/ \E i \in DOMAIN config :
          /\ config[i].id = ask[h].id
          /\ at' = [at EXCEPT ![h] = i]
          /\ Goto(h, IF config[i].type = "oci" THEN "oci" ELSE "fetch")
          /\ UNCHANGED answer
    /\ UNCHANGED <<process, upstream, file, ask, fetched, history, budget>>

(* That the package is missing is not an ErrNotFound for getOCIPackage.    *)
getOCIPackage(h) ==
    /\ pc[h] = "oci"
    /\ LET p == ociPackage(catalog(h), ask[h].name) IN
       IF ask[h].op = "package"
       THEN IF p = 0 THEN Answer(h, 500)
            ELSE Show(h, {ask[h].name}, NoIndex, catalog(h).packages[p].versions, 200)
       ELSE IF resolveOCIPackage(catalog(h), ask[h].name, ask[h].version)
            THEN Show(h, {ask[h].name}, NoIndex, <<ask[h].version>>, 200)
            ELSE Answer(h, 500)
    /\ UNCHANGED <<process, upstream, file, ask, at, fetched, history, budget>>

(* Mutant: the index is downloaded once.                                   *)
DownloadIndexFileOnce(h) ==
    /\ pc[h] = "fetch"
    /\ fetched' = [fetched EXCEPT ![h] =
          IF file[id(h)] # NoIndex THEN file[id(h)] ELSE upstream[id(h)]]
    /\ Goto(h, "store")
    /\ UNCHANGED <<process, upstream, file, ask, at, answer, history, budget>>

(* loadHelmIndex: download, ...                                            *)
DownloadIndexFile(h) ==
    /\ pc[h] = "fetch"
    /\ fetched' = [fetched EXCEPT ![h] = upstream[id(h)]]
    /\ Goto(h, "store")
    /\ UNCHANGED <<process, upstream, file, ask, at, answer, history, budget>>

(* ... write, ...                                                          *)
WriteIndexFile(h) ==
    /\ pc[h] = "store"
    /\ file' = [file EXCEPT ![id(h)] = fetched[h]]
    /\ fetched' = [fetched EXCEPT ![h] = NoIndex]
    /\ Goto(h, "load")
    /\ UNCHANGED <<process, upstream, ask, at, answer, history, budget>>

getHelmPackage(h, serial, index) ==
    IF index[ask[h].name] = <<>> THEN Answer(h, 404)
    ELSE LET versions == extractVersions(index[ask[h].name]) IN
         IF FilterPanics(catalog(h), versions)
         THEN /\ Goto(h, "panicked")
              /\ UNCHANGED answer
         ELSE Show(h, {ask[h].name}, serial, apply(catalog(h), versions), 200)

(* ... and read, whoever wrote it last.                                    *)
LoadIndexFile(h) ==
    /\ pc[h] = "load"
    /\ LET serial == file[id(h)]
           index == Entries[serial][id(h)]
       IN \/ /\ ask[h].op = "list"
             /\ Add(h, Entry(h, listHelmPackages(catalog(h), index), serial))
          \/ /\ ask[h].op = "package"
             /\ getHelmPackage(h, serial, index)
             /\ UNCHANGED at
          \/ /\ ask[h].op = "resolve"
             /\ IF resolveHelmPackage(index, ask[h].name, ask[h].version)
                THEN Show(h, {ask[h].name}, serial, <<ask[h].version>>, 200)
                ELSE Answer(h, 500)
             /\ UNCHANGED at
    /\ UNCHANGED <<process, upstream, file, ask, fetched, history, budget>>

(* The repository cannot be reached, the file not written or read, or the  *)
(* client has gone: the whole request fails.                               *)
CallFails(h) ==
    /\ pc[h] \in {"fetch", "store", "load"}
    /\ Spend("faults")
    /\ Answer(h, 500)
    /\ UNCHANGED <<process, upstream, file, ask, at, fetched, history>>

-----------------------------------------------------------------------------

Init ==
    /\ phase = "starting"
    /\ config \in Configurations
    /\ upstream = [i \in CatalogIds |-> 1]
    /\ file = [i \in CatalogIds |-> NoIndex]
    /\ pc = [h \in Handlers |-> "idle"]
    /\ ask = [h \in Handlers |-> [op |-> "list", user |-> Anonymous]]
    /\ at = [h \in Handlers |-> 1]
    /\ fetched = [h \in Handlers |-> NoIndex]
    /\ answer = [h \in Handlers |-> NoAnswer]
    /\ since = [h \in Handlers |-> upstream]
    /\ crossed = [h \in Handlers |-> {}]
    /\ budget = [requests |-> MaxRequests, faults |-> MaxFaults, crashes |-> MaxCrashes]

Handle(h) ==
    \/ buildCatalogs(h)
    \/ findCatalog(h)
    \/ getOCIPackage(h)
    \/ DownloadIndexFile(h)
    \/ WriteIndexFile(h)
    \/ LoadIndexFile(h)

Next ==
    \/ Boot
    \/ Restart
    \/ \E i \in CatalogIds : Publish(i)
    \/ \E h \in Handlers :
          \/ Handle(h)
          \/ CallFails(h)
          \/ \E r \in Requests : HandleOidc(h, r)
          \/ \E r \in Calls : Begin(h, r)

Spec == Init /\ [][Next]_vars

FairSpec == Spec /\ \A h \in Handlers : WF_vars(Handle(h))
-----------------------------------------------------------------------------
(* Properties.                                                             *)

Busy == {"next", "find", "oci", "fetch", "store", "load"}
EntryRecord == [id: CatalogIds, names: SUBSET PackageNames, serial: {NoIndex} \cup Serials]

TypeOK ==
    /\ phase \in {"starting", "serving", "exited"}
    /\ config \in Configurations
    /\ upstream \in [CatalogIds -> Serials]
    /\ file \in [CatalogIds -> {NoIndex} \cup Serials]
    /\ pc \in [Handlers -> Busy \cup {"idle", "panicked"}]
    /\ ask \in [Handlers -> Request]
    /\ at \in [Handlers -> Nat \ {0}]
    /\ fetched \in [Handlers -> {NoIndex} \cup Serials]
    /\ since \in [Handlers -> [CatalogIds -> Serials]]
    /\ crossed \in [Handlers -> SUBSET CatalogIds]
    /\ answer = [h \in Handlers |->
          [status |-> answer[h].status, entries |-> answer[h].entries,
           versions |-> answer[h].versions, blame |-> answer[h].blame]]
    /\ \A h \in Handlers : answer[h].entries \in Seq(EntryRecord)

ServesValidConfig == phase = "serving" => ValidateCatalogsConfig(config)

(* A request is at one of the catalogs, and the index file exists when it  *)
(* is read.                                                                *)
PlacedAt(h) ==
    /\ pc[h] # "idle" => phase = "serving"
    /\ pc[h] \in {"find", "oci"} => ask[h].op # "list"
    /\ pc[h] \in {"oci", "fetch", "store", "load"} => at[h] \in DOMAIN config
    /\ pc[h] = "store" => fetched[h] \in Serials
    /\ pc[h] = "load" => file[id(h)] \in Serials

Recent(h, i, serial) == i \in crossed[h] \/ serial >= since[h][i]

(* Whatever is on its way to the file a request will read is recent enough *)
(* for that request.                                                       *)
OnItsWayTo(h) ==
    /\ \A i \in CatalogIds : since[h][i] <= upstream[i]
    /\ pc[h] = "load" => Recent(h, id(h), file[id(h)])
    /\ \A w \in Handlers : pc[h] # "idle" /\ pc[w] = "store" => Recent(h, id(w), fetched[w])

FreshAnswer(h) ==
    \A k \in DOMAIN answer[h].entries :
        LET e == answer[h].entries[k]
        IN  e.serial # NoIndex => Recent(h, e.id, e.serial)

(* A request answers from an index at least as recent as what the          *)
(* repository served when the request began; an older one is possible only *)
(* for a catalog of which another request had downloaded an older index    *)
(* by then and not yet written it.                                         *)
AnswersAreFresh == \A h \in Handlers : FreshAnswer(h)

(* mustVersionFilter "panics if the config is invalid, but that can't      *)
(* happen"; nor is a slice taken with a negative bound.                    *)
NeverPanics == \A h \in Handlers : pc[h] # "panicked"

(* The invariant of CatalogsProofs.                                        *)
IInv ==
    /\ TypeOK
    /\ ServesValidConfig
    /\ \A h \in Handlers : PlacedAt(h) /\ OnItsWayTo(h)
    /\ AnswersAreFresh
    /\ NeverPanics

(* The positions in the configuration of the catalogs the user may see.    *)
Visible(h) == {i \in DOMAIN config : Included(config[i], ask[h].user)}

(* A listing has the catalogs the user may see, each once and in the order *)
(* of the configuration, or it fails because of one of them: a catalog the *)
(* user may not see is neither shown nor in the way.                       *)
ListingRespectsRestrictions ==
    \A h \in Handlers : ask[h].op = "list" =>
        /\ answer[h].status = 200 =>
              /\ Len(answer[h].entries) = Cardinality(Visible(h))
              /\ \A i \in Visible(h) :
                    answer[h].entries[Rank(i, Visible(h))].id = config[i].id
        /\ answer[h].status = 500 => answer[h].blame \in Visible(h)

(* A package of a Helm catalog is shown with the versions its mode says, in*)
(* the order of the index.                                                 *)
VersionsFollowMode ==
    \A h \in Handlers :
        /\ ask[h].op = "package" /\ answer[h].status = 200
        /\ answer[h].entries[1].serial # NoIndex
        => LET all == extractVersions(
                        Entries[answer[h].entries[1].serial][ask[h].id][ask[h].name])
           IN  FollowsMode(catalog(h), all, answer[h].versions)

(* A version shown to one user can be installed by another: without a fault*)
(* it resolves as long as the repository serves the same index.            *)
ShownIsInstallable ==
    \A h, g \in Handlers :
        /\ ask[h].op = "package" /\ answer[h].status = 200
        /\ ask[g].op = "resolve" /\ ask[g].id = ask[h].id /\ ask[g].name = ask[h].name
        /\ \E k \in DOMAIN answer[h].versions : answer[h].versions[k] = ask[g].version
        /\ budget.faults = MaxFaults
        /\ answer[g].status = 500
        => LET e == answer[h].entries[1] IN
           /\ e.serial # NoIndex
           /\ e.id \in crossed[g] \/ e.serial \notin {since[g][e.id]} \cap {upstream[e.id]}

(* "Chart version (empty for latest)" (openapi.yaml): without a fault, a   *)
(* request without a version resolves for a package that has one.          *)
NoVersionMeansLatest ==
    \A h \in Handlers :
        /\ ask[h].op = "resolve" /\ ask[h].version = Latest
        /\ budget.faults = MaxFaults
        /\ \A s \in Serials : Entries[s][ask[h].id][ask[h].name] # <<>>
        => answer[h].status # 500
=============================================================================
