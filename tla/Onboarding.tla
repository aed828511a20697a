----------------------------- MODULE Onboarding -----------------------------
(***************************************************************************)
(* The onboarding service: HTTP sessions whose requests run concurrently   *)
(* through the controller, the use case and the Kubernetes adapter, against*)
(* the namespaces and ResourceQuotas of one API server.                    *)
(*                                                                         *)
(* Each session runs at most one request.  An action is the code between   *)
(* two points where another request can interfere: the handler's entry, the*)
(* writes to the annotation map the requests share, and each call of the   *)
(* API server.  The API server is external: objects, resourceVersion       *)
(* conflicts and AlreadyExists / NotFound answers are modelled from how    *)
(* the adapter uses them.                                                  *)
(***************************************************************************)
EXTENDS QuotaRules

CONSTANTS
    Sessions,       \* browser sessions, each with one request at a time
    Annotation,     \* the "annotations" section of the configuration
    MaxRequests, MaxFaults, MaxCrashes, MaxAdmin   \* bounds

ASSUME AnnotationAssumption ==
    Annotation \in [enabled: BOOLEAN, static: {"nil", "empty", "filled"},
                    lastLogin: BOOLEAN, userAttributes: BOOLEAN]

ASSUME BoundsAssumption ==
    {MaxRequests, MaxFaults, MaxCrashes, MaxAdmin} \subseteq Nat

VARIABLES
    namespaces,   \* cluster: the namespace objects
    quotas,       \* cluster: the object onyxia-quota of each namespace
    revision,     \* cluster: the last resourceVersion given out
    sharedAttrs,  \* process: whose attributes the config's Static map holds
    pc,           \* per session: the next step of its request
    req,          \* per session: the request
    ann,          \* per session: which map getNamespaceAnnotations returned
    seen,         \* per session: the quota object Get returned
    status,       \* per session: the HTTP status answered
    budget        \* what is left of the bounds

cluster == <<namespaces, quotas, revision>>
local == <<ann, seen>>
vars == <<namespaces, quotas, revision, sharedAttrs, pc, req, ann, seen, status, budget>>

-----------------------------------------------------------------------------
(* Cluster objects.                                                        *)

(* A namespace: its phase, whether it carries the configured labels, and   *)
(* whose attribute values its annotations hold.                            *)
Namespace == [phase: {"absent", "active", "terminating"},
              labelled: BOOLEAN, attrs: Users \cup {NoUser}]
AbsentNamespace == [phase |-> "absent", labelled |-> FALSE, attrs |-> NoUser]

(* ignore is the annotation onyxia.sh/ignore=true, rv the resourceVersion. *)
ResourceQuota == [present: BOOLEAN, hard: HardLimits, ignore: BOOLEAN, rv: Nat]
AbsentQuota == [present |-> FALSE, hard |-> NoLimits, ignore |-> FALSE, rv |-> 0]

ns(w) == getNamespace(req[w])
user(w) == req[w].user

ApiCalls == {"create", "patch", "getQuota", "updateQuota", "createQuota"}
InFlight == {"annotate"} \cup ApiCalls

-----------------------------------------------------------------------------
(* Answers.  The generated handler answers 500 whenever the controller     *)
(* returns an error, whatever response value comes with it.                *)

NoStatus == 0
HttpStatus(res, err) == IF err THEN 500
                        ELSE CASE res = "OnboardOK" -> 200
                               [] res = "OnboardUnauthorized" -> 401
                               [] res = "OnboardForbidden" -> 403

Statuses == {NoStatus, 200, 401, 403, 500}

(* An outcome of a step: go on at a label, or answer.                      *)
Goto(label) == [pc |-> label, status |-> NoStatus]
Reply(res, err) == [pc |-> "done", status |-> HttpStatus(res, err)]

Succeed == Reply("OnboardOK", FALSE)
Refuse == Reply("OnboardUnauthorized", TRUE)
Fail == Reply("OnboardForbidden", TRUE)

Proceed(w, outcome) ==
    /\ pc' = [pc EXCEPT ![w] = outcome.pc]
    /\ status' = [status EXCEPT ![w] = outcome.status]

Spend(kind) ==
    /\ budget[kind] > 0
    /\ budget' = [budget EXCEPT ![kind] = @ - 1]

(* The API server has done the call: its answer is heard, or lost and the  *)
(* client library reports an error.                                        *)
Answered(w, outcome) ==
    \/ Proceed(w, outcome) /\ UNCHANGED budget
    \/ Spend("faults") /\ Proceed(w, Fail)

-----------------------------------------------------------------------------
(* The controller: group membership, then the use case.  It has a branch   *)
(* for a request without a user, which none reaches: both security         *)
(* handlers put a user into the context of what they let through.          *)

(* Mutant: slices.Contains is not asked.                                   *)
OnboardWithoutGroupCheck(w, r) ==
    /\ req' = [req EXCEPT ![w] = r]
    /\ Proceed(w, Goto("annotate"))
    /\ ann' = [ann EXCEPT ![w] = "nil"]
    /\ seen' = [seen EXCEPT ![w] = AbsentQuota]
    /\ UNCHANGED <<namespaces, quotas, revision, sharedAttrs>>

Onboard(w, r) ==
    /\ req' = [req EXCEPT ![w] = r]
    /\ Proceed(w, IF GroupAllowed(r) THEN Goto("annotate") ELSE Refuse)
    /\ ann' = [ann EXCEPT ![w] = "nil"]
    /\ seen' = [seen EXCEPT ![w] = AbsentQuota]
    /\ UNCHANGED <<namespaces, quotas, revision, sharedAttrs>>

(* A session sends a request, or sends again the one that was not answered *)
(* with 200.                                                               *)
Send(w) ==
    /\ pc[w] \in {"idle", "done"}
    /\ Spend("requests")
    /\ \E r \in Request : Onboard(w, r)

Resend(w) ==
    /\ pc[w] = "done"
    /\ status[w] # 200
    /\ Onboard(w, req[w])
    /\ UNCHANGED budget

-----------------------------------------------------------------------------
(* The use case and the adapter.                                           *)

(* Mutant: a map kept by the use case even when Static is nil.             *)
getNamespaceAnnotationsShared(w) ==
    /\ pc[w] = "annotate"
    /\ Proceed(w, Goto("create"))
    /\ ann' = [ann EXCEPT ![w] = IF Annotation.enabled THEN "static" ELSE "nil"]
    /\ sharedAttrs' = user(w)
    /\ UNCHANGED <<namespaces, quotas, revision, req, seen, budget>>

(* getNamespaceAnnotations: nil, or the config's own Static map (written   *)
(* in place), or a fresh map when Static is nil.                           *)
getNamespaceAnnotations(w) ==
    /\ pc[w] = "annotate"
    /\ Proceed(w, Goto("create"))
    /\ ann' = [ann EXCEPT ![w] = IF ~Annotation.enabled THEN "nil"
                                 ELSE IF Annotation.static = "nil" THEN "fresh"
                                 ELSE "static"]
    /\ sharedAttrs' = IF ann'[w] = "static" /\ Annotation.userAttributes
                        THEN user(w) ELSE sharedAttrs
    /\ UNCHANGED <<namespaces, quotas, revision, req, seen, budget>>

(* len(annotations) == 0                                                   *)
NoAnnotations(w) ==
    \/ ann[w] = "nil"
    \/ /\ Annotation.static # "filled"
       /\ ~Annotation.lastLogin
       /\ ~Annotation.userAttributes

(* The user whose attributes the map holds when it is serialised.          *)
SentAttrs(w) ==
    IF ~Annotation.userAttributes THEN NoUser
    ELSE CASE ann[w] = "fresh" -> user(w)
           [] ann[w] = "static" -> sharedAttrs
           [] OTHER -> NoUser

(* applyQuotas up to its first API call.                                   *)
AfterNamespace(w) ==
    IF ~Quotas.enabled THEN Succeed
    ELSE IF ~Convertible(getQuota(req[w])) THEN Fail
    ELSE IF ~Enforceable(req[w]) THEN Succeed
    ELSE Goto("getQuota")

(* Mutant: AlreadyExists is an error like any other.                       *)
CreateNamespaceOnce(w) ==
    /\ pc[w] = "create"
    /\ \/ /\ namespaces[ns(w)].phase = "absent"
          /\ namespaces' = [namespaces EXCEPT ![ns(w)] =
                [phase |-> "active", labelled |-> TRUE, attrs |-> SentAttrs(w)]]
          /\ Answered(w, AfterNamespace(w))
       \/ /\ namespaces[ns(w)].phase # "absent"
          /\ Answered(w, Fail)
          /\ UNCHANGED namespaces
    /\ UNCHANGED <<quotas, revision, sharedAttrs, req, ann, seen>>

CreateNamespace(w) ==
    /\ pc[w] = "create"
    /\ \/ /\ namespaces[ns(w)].phase = "absent"
          /\ namespaces' = [namespaces EXCEPT ![ns(w)] =
                [phase |-> "active", labelled |-> TRUE, attrs |-> SentAttrs(w)]]
          /\ Answered(w, AfterNamespace(w))
       \/ /\ namespaces[ns(w)].phase # "absent"
          /\ Answered(w, IF NoAnnotations(w) THEN AfterNamespace(w) ELSE Goto("patch"))
          /\ UNCHANGED namespaces
    /\ UNCHANGED <<quotas, revision, sharedAttrs, req, ann, seen>>

(* Mutant: the patch holds the annotations only.                           *)
PatchNamespaceWithoutLabels(w) ==
    /\ pc[w] = "patch"
    /\ namespaces[ns(w)].phase # "absent"
    /\ namespaces' = [namespaces EXCEPT ![ns(w)].attrs = SentAttrs(w)]
    /\ Answered(w, AfterNamespace(w))
    /\ UNCHANGED <<quotas, revision, sharedAttrs, req, ann, seen>>

(* A merge patch: keys the map does not hold stay as they are.             *)
PatchNamespace(w) ==
    /\ pc[w] = "patch"
    /\ \/ /\ namespaces[ns(w)].phase # "absent"
          /\ namespaces' = [namespaces EXCEPT ![ns(w)] =
                [phase |-> @.phase, labelled |-> TRUE,
                 attrs |-> IF SentAttrs(w) = NoUser THEN @.attrs ELSE SentAttrs(w)]]
          /\ Answered(w, AfterNamespace(w))
       \/ /\ namespaces[ns(w)].phase = "absent"
          /\ Proceed(w, Fail)
          /\ UNCHANGED <<namespaces, budget>>
    /\ UNCHANGED <<quotas, revision, sharedAttrs, req, ann, seen>>

(* Mutant: the annotation is not looked at.                                *)
AfterGetWithoutIgnore(w, q) ==
    IF ~q.present THEN Goto("createQuota")
    ELSE IF ~quotasAreDifferent(q.hard, Wanted(req[w])) THEN Succeed
    ELSE Goto("updateQuota")

(* Get and the two early returns that follow it.                           *)
AfterGet(w, q) ==
    IF ~q.present THEN Goto("createQuota")
    ELSE IF q.ignore THEN Succeed
    ELSE IF ~quotasAreDifferent(q.hard, Wanted(req[w])) THEN Succeed
    ELSE Goto("updateQuota")

GetQuota(w) ==
    /\ pc[w] = "getQuota"
    /\ seen' = [seen EXCEPT ![w] = quotas[ns(w)]]
    /\ Answered(w, AfterGet(w, quotas[ns(w)]))
    /\ UNCHANGED <<namespaces, quotas, revision, sharedAttrs, req, ann>>

(* A write of a quota object by the API server.                            *)
PutQuota(n, hard, ignore) ==
    /\ revision' = revision + 1
    /\ quotas' = [quotas EXCEPT ![n] =
          [present |-> TRUE, hard |-> hard, ignore |-> ignore, rv |-> revision']]

(* Update sends back the object that was read, with its resourceVersion:   *)
(* the API server refuses it when the object has changed or is gone.       *)
Unchanged(w) == quotas[ns(w)].present /\ quotas[ns(w)].rv = seen[w].rv

(* Mutant: Update sends a new object, which has no resourceVersion.        *)
UpdateQuotaUnversioned(w) ==
    /\ pc[w] = "updateQuota"
    /\ \/ /\ quotas[ns(w)].present
          /\ PutQuota(ns(w), Wanted(req[w]), seen[w].ignore)
          /\ Answered(w, Succeed)
       \/ /\ ~quotas[ns(w)].present
          /\ Proceed(w, Fail)
          /\ UNCHANGED <<quotas, revision, budget>>
    /\ UNCHANGED <<namespaces, sharedAttrs, req, ann, seen>>

UpdateQuota(w) ==
    /\ pc[w] = "updateQuota"
    /\ \/ /\ Unchanged(w)
          /\ PutQuota(ns(w), Wanted(req[w]), seen[w].ignore)
          /\ Answered(w, Succeed)
       \/ /\ ~Unchanged(w)
          /\ Proceed(w, Fail)
          /\ UNCHANGED <<quotas, revision, budget>>
    /\ UNCHANGED <<namespaces, sharedAttrs, req, ann, seen>>

(* Refused when the quota exists, or the namespace does not accept objects.*)
Creatable(n) == namespaces[n].phase = "active" /\ ~quotas[n].present

(* Mutant: a quota created in the meantime is taken for the right one.     *)
CreateQuotaToleratingExisting(w) ==
    /\ pc[w] = "createQuota"
    /\ \/ /\ Creatable(ns(w))
          /\ PutQuota(ns(w), Wanted(req[w]), FALSE)
          /\ Answered(w, Succeed)
       \/ /\ ~Creatable(ns(w))
          /\ Proceed(w, Succeed)
          /\ UNCHANGED <<quotas, revision, budget>>
    /\ UNCHANGED <<namespaces, sharedAttrs, req, ann, seen>>

CreateQuota(w) ==
    /\ pc[w] = "createQuota"
    /\ \/ /\ Creatable(ns(w))
          /\ PutQuota(ns(w), Wanted(req[w]), FALSE)
          /\ Answered(w, Succeed)
       \/ /\ ~Creatable(ns(w))
          /\ Proceed(w, Fail)
          /\ UNCHANGED <<quotas, revision, budget>>
    /\ UNCHANGED <<namespaces, sharedAttrs, req, ann, seen>>

(* A call that never reaches the API server, or a cancelled request.       *)
CallFails(w) ==
    /\ pc[w] \in ApiCalls
    /\ Spend("faults")
    /\ Proceed(w, Fail)
    /\ UNCHANGED <<namespaces, quotas, revision, sharedAttrs, req, ann, seen>>

-----------------------------------------------------------------------------
(* The process dies (SIGTERM ends in os.Exit, a concurrent map write is    *)
(* fatal) and restarts with the configuration's Static map as loaded.      *)
CrashRestart ==
    /\ Spend("crashes")
    /\ pc' = [w \in Sessions |-> IF pc[w] \in InFlight THEN "done" ELSE pc[w]]
    /\ sharedAttrs' = NoUser
    /\ UNCHANGED <<namespaces, quotas, revision, req, ann, seen, status>>

(* Cluster administrators work on the same objects.                        *)
AdminWritesQuota(n) ==
    /\ Spend("admin")
    /\ namespaces[n].phase = "active"
    /\ \E hard \in HardLimits, ignore \in BOOLEAN : PutQuota(n, hard, ignore)
    /\ UNCHANGED <<namespaces, sharedAttrs, pc, req, ann, seen, status>>

AdminDeletesQuota(n) ==
    /\ Spend("admin")
    /\ quotas[n].present
    /\ quotas' = [quotas EXCEPT ![n] = AbsentQuota]
    /\ UNCHANGED <<namespaces, revision, sharedAttrs, pc, req, ann, seen, status>>

AdminDeletesNamespace(n) ==
    /\ Spend("admin")
    /\ namespaces[n].phase = "active"
    /\ namespaces' = [namespaces EXCEPT ![n].phase = "terminating"]
    /\ UNCHANGED <<quotas, revision, sharedAttrs, pc, req, ann, seen, status>>

FinalizeNamespace(n) ==
    /\ namespaces[n].phase = "terminating"
    /\ namespaces' = [namespaces EXCEPT ![n] = AbsentNamespace]
    /\ quotas' = [quotas EXCEPT ![n] = AbsentQuota]
    /\ UNCHANGED <<revision, sharedAttrs, pc, req, ann, seen, status, budget>>

-----------------------------------------------------------------------------
(* The cluster may hold namespaces and quotas from before the service.     *)
Init ==
    /\ namespaces \in [Namespaces ->
          {AbsentNamespace, [AbsentNamespace EXCEPT !.phase = "active"]}]
    /\ revision = 0
    /\ quotas \in [Namespaces ->
          {AbsentQuota} \cup [present: {TRUE}, hard: HardLimits, ignore: BOOLEAN, rv: {0}]]
    /\ \A n \in Namespaces : quotas[n].present => namespaces[n].phase = "active"
    /\ sharedAttrs = NoUser
    /\ pc = [w \in Sessions |-> "idle"]
    /\ req = [w \in Sessions |-> CHOOSE r \in Request : TRUE]
    /\ ann = [w \in Sessions |-> "nil"]
    /\ seen = [w \in Sessions |-> AbsentQuota]
    /\ status = [w \in Sessions |-> NoStatus]
    /\ budget = [requests |-> MaxRequests, faults |-> MaxFaults,
                 crashes |-> MaxCrashes, admin |-> MaxAdmin]

(* The steps of a request already accepted.                                *)
Step(w) ==
    \/ getNamespaceAnnotations(w)
    \/ CreateNamespace(w)
    \/ PatchNamespace(w)
    \/ GetQuota(w)
    \/ UpdateQuota(w)
    \/ CreateQuota(w)

Environment(n) ==
    \/ AdminWritesQuota(n)
    \/ AdminDeletesQuota(n)
    \/ AdminDeletesNamespace(n)
    \/ FinalizeNamespace(n)

Next ==
    \/ \E w \in Sessions : Send(w) \/ Resend(w) \/ Step(w) \/ CallFails(w)
    \/ CrashRestart
    \/ \E n \in Namespaces : Environment(n)

Spec == Init /\ [][Next]_vars

(* A request accepted is worked on, the API server answers, the browser    *)
(* asks again, and the namespace controller finishes a deletion.  Faults,  *)
(* crashes, administrators and new requests have no fairness.              *)
Fairness ==
    /\ \A w \in Sessions : WF_vars(Step(w)) /\ WF_vars(Resend(w))
    /\ \A n \in Namespaces : WF_vars(FinalizeNamespace(n))

FairSpec == Spec /\ Fairness

-----------------------------------------------------------------------------
(* Properties.                                                             *)

TypeOK ==
    /\ namespaces \in [Namespaces -> Namespace]
    /\ quotas \in [Namespaces -> ResourceQuota]
    /\ revision \in Nat
    /\ sharedAttrs \in Users \cup {NoUser}
    /\ pc \in [Sessions -> InFlight \cup {"idle", "done"}]
    /\ req \in [Sessions -> Request]
    /\ ann \in [Sessions -> {"nil", "fresh", "static"}]
    /\ seen \in [Sessions -> ResourceQuota]
    /\ status \in [Sessions -> Statuses]
    /\ budget \in [{"requests", "faults", "crashes", "admin"} -> Nat]

(* The session that makes this step, when the service makes it.            *)
Acts(w) == pc'[w] # pc[w]

(* A request past the controller is for a group its user is in, and one    *)
(* past applyQuotas has a quota to enforce.                                *)
OnlyEntitledInFlight ==
    \A w \in Sessions :
        /\ pc[w] \in InFlight => GroupAllowed(req[w])
        /\ pc[w] \in {"getQuota", "updateQuota", "createQuota"} => Enforceable(req[w])

(* No object is newer than the last resourceVersion given out.             *)
RevisionsArePast ==
    /\ \A n \in Namespaces : quotas[n].rv <= revision
    /\ \A w \in Sessions : seen[w].rv <= revision

(* A request about to Update holds an object it may overwrite, and as long *)
(* as the resourceVersion it read is still there, so is everything else it *)
(* read: Unchanged and ignored were decided on what Update will replace.   *)
UpdateIsInformed ==
    \A w \in Sessions : pc[w] = "updateQuota" =>
        /\ seen[w].present
        /\ ~seen[w].ignore
        /\ seen[w].hard # Wanted(req[w])
        /\ Unchanged(w) => quotas[ns(w)] = seen[w]

(* A quota lives in a namespace, and an absent one has no annotation.      *)
QuotasAreHoused ==
    \A n \in Namespaces :
        IF quotas[n].present THEN namespaces[n].phase # "absent"
                             ELSE quotas[n] = AbsentQuota

(* A request has no answer before its last step: the 200 of an earlier one *)
(* is gone when the next is accepted.                                      *)
UnansweredInFlight ==
    \A w \in Sessions : pc[w] \in InFlight => status[w] = NoStatus

(* The inductive invariant of OnboardingProofs.                            *)
IInv ==
    /\ TypeOK
    /\ OnlyEntitledInFlight
    /\ RevisionsArePast
    /\ UpdateIsInformed
    /\ QuotasAreHoused
    /\ UnansweredInFlight

(* ApplyResourceQuotas reads the annotation onyxia.sh/ignore long before it*)
(* writes: no step of a request ever changes a quota that carries it, even *)
(* when an administrator sets it between Get and Update.                   *)
IgnoredQuotaUntouched ==
    [][\A w \in Sessions, n \in Namespaces :
          Acts(w) /\ quotas[n].ignore => quotas'[n] = quotas[n]]_vars

(* A request changes the quota of its own namespace only, to what the      *)
(* configuration gives it, and only when it was something else: logins of  *)
(* the same user that race do not rewrite a quota already right.           *)
OnlyWrongQuotaRewritten ==
    [][\A w \in Sessions, n \in Namespaces :
          Acts(w) /\ quotas'[n] # quotas[n] =>
             /\ n = ns(w)
             /\ quotas[n].hard # Wanted(req[w])
             /\ quotas'[n].hard = Wanted(req[w])]_vars

(* A request leaves no trace in a namespace its user is not entitled to.   *)
NoTraceOutsideOwnNamespace ==
    [][\A w \in Sessions, n \in Namespaces :
          Acts(w) /\ <<namespaces[n], quotas[n]>>' # <<namespaces[n], quotas[n]>> =>
             n = ns(w) /\ GroupAllowed(req[w])]_vars

(* 200 is answered only when, at that moment, the namespace has the quota  *)
(* the configuration gives the request, or one an administrator shields.   *)
SuccessMeansEnforced ==
    [][\A w \in Sessions :
          Acts(w) /\ status'[w] = 200 /\ Enforceable(req[w]) =>
             /\ quotas'[ns(w)].present
             /\ quotas'[ns(w)].ignore \/ quotas'[ns(w)].hard = Wanted(req[w])]_vars

(* README, namespaceLabels: added "at creation and subsequent user logins".*)
LabelledAfterLogin ==
    \A w \in Sessions :
        pc[w] = "done" /\ status[w] = 200 /\ namespaces[ns(w)].phase # "absent"
            => namespaces[ns(w)].labelled

(* The attribute values on a namespace are those of a user entitled to it, *)
(* never those of another request handled at the same time.                *)
AttributesOfEntitledUser ==
    \A n \in Namespaces :
        \/ namespaces[n].attrs = NoUser
        \/ \E r \in Request : /\ r.user = namespaces[n].attrs
                               /\ getNamespace(r) = n
                               /\ GroupAllowed(r)

(* A session that asks again is served in the end, conflicts, faults and   *)
(* restarts notwithstanding; a refused group and a malformed quota are not.*)
Hopeless(r) == ~GroupAllowed(r) \/ (Quotas.enabled /\ ~Convertible(getQuota(r)))

EventuallyServed ==
    \A w \in Sessions :
        pc[w] # "idle" ~> pc[w] = "done" /\ (status[w] = 200 \/ Hopeless(req[w]))

(* The service implements its contract with the cluster: a change that no  *)
(* administrator and no deletion makes opens the namespace, or enforces the*)
(* quota, of a request being served, whose user is entitled to it.         *)
Entitled == {r \in Request : GroupAllowed(r)}

Contract == INSTANCE ClusterContract WITH
    Servers <- Sessions,
    NamespaceOf <- [r \in Request |-> getNamespace(r)],
    LimitsOf <- [r \in Request |-> IF Enforceable(r) THEN {Wanted(r)} ELSE {}],
    phases <- [n \in Namespaces |-> namespaces[n].phase],
    limits <- [n \in Namespaces |-> [present |-> quotas[n].present,
                                     hard |-> quotas[n].hard,
                                     ignore |-> quotas[n].ignore]],
    serving <- [w \in Sessions |-> IF pc[w] \in InFlight THEN {req[w]} ELSE {}],
    interventions <- budget["admin"]

ImplementsContract == Contract!Spec
=============================================================================
