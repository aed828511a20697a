-------------------------- MODULE OnboardingProofs --------------------------
(***************************************************************************)
(* Onboarding: type correctness, the inductive invariant IInv, and the     *)
(* action properties that follow from it, for every configuration, every   *)
(* set of sessions and every bound.                                        *)
(***************************************************************************)
EXTENDS Onboarding, FiniteSetTheorems, WellFoundedInduction, TLAPS

-----------------------------------------------------------------------------
(* The quota rules, for every configuration.                               *)

(* A non-empty set of positions has a first one.                           *)
LEMMA FirstIndexIsFirst ==
    ASSUME NEW S \in SUBSET Nat, S # {}
    PROVE  FirstIndex(S) \in S /\ \A j \in S : FirstIndex(S) <= j
<1> DEFINE R == OpToRel(<, Nat)
<1>1. IsWellFoundedOn(R, Nat)
  BY NatLessThanWellFounded
<1>2. PICK i \in S : \A j \in S : ~ (<<j, i>> \in R)
  BY <1>1, WFMin
<1>3. \A j \in S : ~ (j < i)
  BY <1>2, Zenon DEF OpToRel
<1>4. \A j \in S : i <= j
  BY <1>3
<1> QED
  BY <1>2, <1>4 DEF FirstIndex

(* getNamespace names a namespace.                                         *)
LEMMA NamespaceOfRequest ==
    ASSUME NEW r \in Request
    PROVE  getNamespace(r) \in Namespaces
BY DEF Namespaces

(* getUserQuota, "only the first one will be applied": when some role of   *)
(* the user has a quota, the quota is that of a role before which no role  *)
(* of the token has one.                                                   *)
LEMMA FirstMatchingRoleDecides ==
    ASSUME NEW u \in Users, MatchingRoles(u) # {}
    PROVE  \E i \in DOMAIN RolesOf[u] :
              /\ RolesOf[u][i] \in DOMAIN Quotas.roles
              /\ \A j \in DOMAIN RolesOf[u] :
                    j < i => RolesOf[u][j] \notin DOMAIN Quotas.roles
              /\ getUserQuota(u) = Quotas.roles[RolesOf[u][i]]
<1> DEFINE i == FirstIndex(MatchingRoles(u))
<1>1. DOMAIN RolesOf[u] \in SUBSET Nat
  <2>1. RolesOf[u] \in Seq(Roles)
    BY NamesAssumption
  <2> QED
    BY <2>1
<1>2. MatchingRoles(u) \in SUBSET Nat
  BY <1>1 DEF MatchingRoles
<1>3. i \in MatchingRoles(u) /\ \A j \in MatchingRoles(u) : i <= j
  BY <1>2, FirstIndexIsFirst
<1>4. \A j \in DOMAIN RolesOf[u] : j < i => j \notin MatchingRoles(u)
  BY <1>1, <1>2, <1>3
<1>5. getUserQuota(u) = Quotas.roles[RolesOf[u][i]]
  BY DEF getUserQuota
<1> QED
  BY <1>3, <1>4, <1>5 DEF MatchingRoles

(* Whatever the configuration, a request is given a quota.                 *)
LEMMA GetQuotaType ==
    ASSUME NEW r \in Request
    PROVE  getQuota(r) \in Quota
<1>1. PICK configured \in SUBSET Roles :
         Quotas \in [enabled: BOOLEAN, default: Quota,
                     userEnabled: BOOLEAN, user: Quota,
                     groupEnabled: BOOLEAN, group: Quota,
                     roles: [configured -> Quota]]
  BY QuotaAssumption
<1>2. CASE r.group # NoGroup
  BY <1>1, <1>2 DEF getQuota, getGroupQuota
<1>3. CASE r.group = NoGroup
  <2>1. r.user \in Users
    BY DEF Request
  <2>2. CASE MatchingRoles(r.user) # {}
    BY <1>1, <1>3, <2>1, <2>2, FirstMatchingRoleDecides DEF getQuota
  <2>3. CASE MatchingRoles(r.user) = {}
    BY <1>1, <1>3, <2>3 DEF getQuota, getUserQuota
  <2> QED
    BY <2>2, <2>3
<1> QED
  BY <1>2, <1>3

LEMMA NoLimitsType == NoLimits \in HardLimits
<1>1. NoLimits \in [{} -> Quantities]
  BY DEF NoLimits
<1> QED
  BY <1>1 DEF HardLimits

(* What a request with an enforceable quota wants is a non-empty hard map. *)
LEMMA WantedType ==
    ASSUME NEW r \in Request, Enforceable(r)
    PROVE  Wanted(r) \in HardLimits /\ Wanted(r) # NoLimits
<1> DEFINE q == getQuota(r)
<1>1. q \in Quota
  BY GetQuotaType
<1>2. \A x \in LimitedResources(q) : ParseQuantity[q[x]] \in Quantities
  BY <1>1, QuotaAssumption DEF Quota, LimitedResources, Enforceable, Convertible
<1>3. Wanted(r) \in [LimitedResources(q) -> Quantities]
  BY <1>2 DEF Wanted, convertQuotaToResourceMap
<1>4. LimitedResources(q) \in SUBSET Resources
  BY DEF LimitedResources
<1>5. DOMAIN Wanted(r) # DOMAIN NoLimits
  BY <1>3 DEF Enforceable, NoLimits
<1> QED
  BY <1>3, <1>4, <1>5 DEF HardLimits

(* Comparing the sizes and then each new entry decides exactly whether the *)
(* two hard maps differ.                                                   *)
THEOREM QuotasAreDifferentIsInequality ==
    ASSUME NEW existing \in HardLimits, NEW new \in HardLimits
    PROVE  quotasAreDifferent(existing, new) <=> existing # new
<1>1. PICK E \in SUBSET Resources : existing \in [E -> Quantities]
  BY DEF HardLimits
<1>2. PICK N \in SUBSET Resources : new \in [N -> Quantities]
  BY DEF HardLimits
<1>3. ASSUME ~quotasAreDifferent(existing, new)
      PROVE  existing = new
  <2>1. N \in SUBSET E /\ Cardinality(E) = Cardinality(N)
    BY <1>1, <1>2, <1>3 DEF quotasAreDifferent
  <2>2. IsFiniteSet(E)
    BY FS_Subset, QuotaAssumption
  <2>3. E = N
    BY <2>1, <2>2, FS_Subset
  <2> QED
    BY <1>1, <1>2, <1>3, <2>3 DEF quotasAreDifferent
<1>4. ASSUME existing = new
      PROVE  ~quotasAreDifferent(existing, new)
  BY <1>4 DEF quotasAreDifferent
<1> QED
  BY <1>3, <1>4

-----------------------------------------------------------------------------

Labels == InFlight \cup {"idle", "done"}
Outcome == {o \in [pc: Labels, status: Statuses] :
               o.pc \in InFlight => o.status = NoStatus}
Budget == [{"requests", "faults", "crashes", "admin"} -> Nat]

-----------------------------------------------------------------------------
(* Steps of the model.                                                     *)

(* Every outcome the code computes is one.                                 *)
LEMMA OutcomeType ==
    /\ Succeed \in Outcome /\ Fail \in Outcome /\ Refuse \in Outcome
    /\ \A label \in Labels : Goto(label) \in Outcome
    /\ Succeed.pc = "done" /\ Fail.pc = "done" /\ Refuse.pc = "done"
    /\ \A label \in Labels : Goto(label).pc = label
BY DEF Succeed, Fail, Refuse, Reply, HttpStatus, Goto, Outcome, Labels,
       Statuses, NoStatus, InFlight, ApiCalls

(* Proceed moves one session and leaves the types right.                   *)
LEMMA ProceedStep ==
    ASSUME TypeOK, NEW w \in Sessions, NEW outcome \in Outcome, Proceed(w, outcome)
    PROVE  /\ pc' \in [Sessions -> Labels]
           /\ status' \in [Sessions -> Statuses]
           /\ \A v \in Sessions : pc'[v] = IF v = w THEN outcome.pc ELSE pc[v]
           /\ \A v \in Sessions :
                 status'[v] = IF v = w THEN outcome.status ELSE status[v]
BY DEF TypeOK, Proceed, Outcome, Labels

(* Spending leaves the other bounds alone.                                 *)
LEMMA SpendStep ==
    ASSUME TypeOK, NEW kind \in {"requests", "faults", "crashes", "admin"}, Spend(kind)
    PROVE  budget' \in Budget
BY DEF TypeOK, Spend, Budget

(* A call that is answered, or whose answer is lost.                       *)
LEMMA AnsweredStep ==
    ASSUME TypeOK, NEW w \in Sessions, NEW outcome \in Outcome, Answered(w, outcome)
    PROVE  /\ pc' \in [Sessions -> Labels]
           /\ status' \in [Sessions -> Statuses]
           /\ budget' \in Budget
           /\ \A v \in Sessions : v # w => pc'[v] = pc[v]
           /\ pc'[w] \in {outcome.pc, "done"}
<1>1. CASE Proceed(w, outcome) /\ UNCHANGED budget
  BY <1>1, ProceedStep DEF TypeOK, Budget
<1>2. CASE Spend("faults") /\ Proceed(w, Fail)
  BY <1>2, ProceedStep, SpendStep, OutcomeType
<1> QED
  BY <1>1, <1>2 DEF Answered

(* applyQuotas goes on to Get only with something to enforce.              *)
LEMMA AfterNamespaceOutcome ==
    ASSUME NEW w \in Sessions
    PROVE  /\ AfterNamespace(w) \in Outcome
           /\ AfterNamespace(w).pc \in {"done", "getQuota"}
           /\ AfterNamespace(w).pc = "getQuota" => Enforceable(req[w])
BY OutcomeType DEF AfterNamespace, Labels, InFlight, ApiCalls

LEMMA AfterGetOutcome ==
    ASSUME NEW w \in Sessions, NEW q
    PROVE  /\ AfterGet(w, q) \in Outcome
           /\ AfterGet(w, q).pc \in {"done", "createQuota", "updateQuota"}
           /\ AfterGet(w, q).pc = "updateQuota" =>
                 q.present /\ ~q.ignore /\ quotasAreDifferent(q.hard, Wanted(req[w]))
BY OutcomeType DEF AfterGet, Labels, InFlight, ApiCalls

(* A quota written by the API server, at a new resourceVersion.            *)
LEMMA PutQuotaStep ==
    ASSUME TypeOK, NEW n \in Namespaces, NEW hard \in HardLimits,
           NEW ignore \in BOOLEAN, PutQuota(n, hard, ignore)
    PROVE  /\ quotas' \in [Namespaces -> ResourceQuota]
           /\ revision' \in Nat /\ revision' = revision + 1
           /\ quotas'[n].present /\ quotas'[n].hard = hard
           /\ quotas'[n].ignore = ignore /\ quotas'[n].rv = revision'
           /\ \A m \in Namespaces : m # n => quotas'[m] = quotas[m]
BY DEF TypeOK, PutQuota, ResourceQuota

LEMMA AbsentTypes == AbsentQuota \in ResourceQuota /\ AbsentNamespace \in Namespace
BY NoLimitsType DEF AbsentQuota, ResourceQuota, AbsentNamespace, Namespace

LEMMA SentAttrsType ==
    ASSUME TypeOK, NEW w \in Sessions
    PROVE  SentAttrs(w) \in Users \cup {NoUser}
<1>1. user(w) \in Users /\ sharedAttrs \in Users \cup {NoUser}
  BY DEF TypeOK, user, Request
<1> QED
  BY <1>1 DEF SentAttrs

LEMMA NamespaceOfSession ==
    ASSUME TypeOK, NEW w \in Sessions
    PROVE  ns(w) \in Namespaces
BY NamespaceOfRequest DEF TypeOK, ns

-----------------------------------------------------------------------------
(* Types, together with what a request in flight is entitled to: Update    *)
(* and Create write what applyQuotas found enforceable.                    *)

TypedAndEntitled == TypeOK /\ OnlyEntitledInFlight

LEMMA InitTyped == Init => TypedAndEntitled
<1> SUFFICES ASSUME Init PROVE TypedAndEntitled
  OBVIOUS
<1>1. namespaces \in [Namespaces -> Namespace]
  <2>1. [AbsentNamespace EXCEPT !.phase = "active"] \in Namespace
    BY DEF AbsentNamespace, Namespace
  <2> QED
    BY <2>1, AbsentTypes DEF Init
<1>2. quotas \in [Namespaces -> ResourceQuota]
  <2>1. ASSUME NEW q \in [present: {TRUE}, hard: HardLimits, ignore: BOOLEAN, rv: {0}]
        PROVE  q \in ResourceQuota
    <3>1. PICK p \in {TRUE}, h \in HardLimits, i \in BOOLEAN, v \in {0} :
             q = [present |-> p, hard |-> h, ignore |-> i, rv |-> v]
      BY Zenon
    <3> QED
      BY <3>1 DEF ResourceQuota
  <2> QED
    BY <2>1, AbsentTypes DEF Init
<1>3. req \in [Sessions -> Request]
  <2>1. PICK u \in Users : TRUE
    BY NamesAssumption
  <2>2. [user |-> u, group |-> NoGroup] \in Request
    BY DEF Request
  <2>3. (CHOOSE r \in Request : TRUE) \in Request
    BY <2>2
  <2> QED
    BY <2>3 DEF Init
<1>4. budget \in Budget
  BY BoundsAssumption DEF Init, Budget
<1>5. OnlyEntitledInFlight
  BY DEF Init, OnlyEntitledInFlight, InFlight, ApiCalls
<1> QED
  BY <1>1, <1>2, <1>3, <1>4, <1>5, AbsentTypes
     DEF Init, TypedAndEntitled, TypeOK, Budget, Statuses, NoStatus

(* The session's own step: nothing changes for the others, and this one is *)
(* entitled wherever it is now in flight.                                  *)
LEMMA EntitledStep ==
    ASSUME TypedAndEntitled, NEW w \in Sessions, UNCHANGED req,
           \A v \in Sessions : v # w => pc'[v] = pc[v],
           pc'[w] \in InFlight => pc[w] \in InFlight,
           pc'[w] \in {"getQuota", "updateQuota", "createQuota"} => Enforceable(req[w])
    PROVE  OnlyEntitledInFlight'
BY DEF TypedAndEntitled, OnlyEntitledInFlight

LEMMA NextTyped == TypedAndEntitled /\ [Next]_vars => TypedAndEntitled'
<1> SUFFICES ASSUME TypedAndEntitled, [Next]_vars
             PROVE  TypeOK' /\ OnlyEntitledInFlight'
  BY DEF TypedAndEntitled
<1> USE DEF TypedAndEntitled
<1>1. ASSUME NEW w \in Sessions, Send(w) \/ Resend(w)
      PROVE  TypeOK' /\ OnlyEntitledInFlight'
  <2>1. PICK r \in Request : Onboard(w, r)
    BY <1>1 DEF Send, Resend, TypeOK
  <2>2. budget' \in Budget
    BY <1>1, SpendStep DEF Send, Resend, TypeOK, Budget
  <2> DEFINE o == IF GroupAllowed(r) THEN Goto("annotate") ELSE Refuse
  <2>3. o \in Outcome /\ (o.pc = "done" \/ (o.pc = "annotate" /\ GroupAllowed(r)))
    BY OutcomeType DEF Labels, InFlight
  <2>4. Proceed(w, o)
    BY <2>1 DEF Onboard
  <2> HIDE DEF o
  <2>5. /\ pc' \in [Sessions -> Labels]
        /\ status' \in [Sessions -> Statuses]
        /\ \A v \in Sessions : pc'[v] = IF v = w THEN o.pc ELSE pc[v]
    BY <2>3, <2>4, ProceedStep
  <2>6. TypeOK'
    BY <2>1, <2>2, <2>5, AbsentTypes DEF Onboard, TypeOK, Labels, Budget
  <2>7. OnlyEntitledInFlight'
    BY <2>1, <2>3, <2>5 DEF Onboard, TypeOK, OnlyEntitledInFlight, InFlight, ApiCalls
  <2> QED
    BY <2>6, <2>7
<1>2. ASSUME NEW w \in Sessions, getNamespaceAnnotations(w)
      PROVE  TypeOK' /\ OnlyEntitledInFlight'
  <2>1. /\ pc' \in [Sessions -> Labels]
        /\ status' \in [Sessions -> Statuses]
        /\ \A v \in Sessions : pc'[v] = IF v = w THEN "create" ELSE pc[v]
    BY <1>2, ProceedStep, OutcomeType
       DEF getNamespaceAnnotations, Labels, InFlight, ApiCalls
  <2>2. ann' \in [Sessions -> {"nil", "fresh", "static"}]
    BY <1>2 DEF getNamespaceAnnotations, TypeOK
  <2>3. sharedAttrs' \in Users \cup {NoUser}
    BY <1>2 DEF getNamespaceAnnotations, TypeOK, user, Request
  <2>4. TypeOK'
    BY <1>2, <2>1, <2>2, <2>3 DEF getNamespaceAnnotations, TypeOK, Labels
  <2> QED
    BY <1>2, <2>1, <2>4, EntitledStep DEF getNamespaceAnnotations, InFlight, ApiCalls
<1>3. ASSUME NEW w \in Sessions, CreateNamespace(w)
      PROVE  TypeOK' /\ OnlyEntitledInFlight'
  <2>1. PICK o \in {AfterNamespace(w), Goto("patch")} : Answered(w, o)
    BY <1>3 DEF CreateNamespace
  <2>2. /\ o \in Outcome
        /\ o.pc \in {"done", "getQuota", "patch"}
        /\ o.pc = "getQuota" => Enforceable(req[w])
    BY AfterNamespaceOutcome, OutcomeType DEF Labels, InFlight, ApiCalls
  <2>3. /\ pc' \in [Sessions -> Labels]
        /\ status' \in [Sessions -> Statuses]
        /\ budget' \in Budget
        /\ \A v \in Sessions : v # w => pc'[v] = pc[v]
        /\ pc'[w] \in {o.pc, "done"}
    BY <2>1, <2>2, AnsweredStep
  <2>4. namespaces' \in [Namespaces -> Namespace]
    <3>1. [phase |-> "active", labelled |-> TRUE, attrs |-> SentAttrs(w)] \in Namespace
      BY SentAttrsType DEF Namespace
    <3> QED
      BY <1>3, <3>1 DEF CreateNamespace, TypeOK
  <2>5. TypeOK'
    BY <1>3, <2>3, <2>4 DEF CreateNamespace, TypeOK, Labels, Budget
  <2> QED
    BY <1>3, <2>2, <2>3, <2>5, EntitledStep DEF CreateNamespace, InFlight, ApiCalls
<1>4. ASSUME NEW w \in Sessions, PatchNamespace(w)
      PROVE  TypeOK' /\ OnlyEntitledInFlight'
  <2>1. /\ pc' \in [Sessions -> Labels]
        /\ status' \in [Sessions -> Statuses]
        /\ budget' \in Budget
        /\ \A v \in Sessions : v # w => pc'[v] = pc[v]
        /\ pc'[w] \in {AfterNamespace(w).pc, "done"}
    <3>1. CASE Answered(w, AfterNamespace(w))
      BY <3>1, AnsweredStep, AfterNamespaceOutcome
    <3>2. CASE Proceed(w, Fail) /\ UNCHANGED budget
      BY <3>2, ProceedStep, OutcomeType DEF TypeOK, Budget
    <3> QED
      BY <1>4, <3>1, <3>2 DEF PatchNamespace
  <2>2. namespaces' \in [Namespaces -> Namespace]
    <3>1. CASE UNCHANGED namespaces
      BY <3>1 DEF TypeOK
    <3>2. namespaces[ns(w)] \in Namespace
      BY NamespaceOfSession DEF TypeOK
    <3>3. [phase |-> namespaces[ns(w)].phase, labelled |-> TRUE,
           attrs |-> IF SentAttrs(w) = NoUser THEN namespaces[ns(w)].attrs
                                              ELSE SentAttrs(w)] \in Namespace
      BY <3>2, SentAttrsType DEF Namespace
    <3> QED
      BY <1>4, <3>1, <3>3, NamespaceOfSession DEF PatchNamespace, TypeOK
  <2>3. TypeOK'
    BY <1>4, <2>1, <2>2 DEF PatchNamespace, TypeOK, Labels, Budget
  <2> QED
    BY <1>4, <2>1, <2>3, AfterNamespaceOutcome, EntitledStep
       DEF PatchNamespace, InFlight, ApiCalls
<1>5. ASSUME NEW w \in Sessions, GetQuota(w)
      PROVE  TypeOK' /\ OnlyEntitledInFlight'
  <2> DEFINE o == AfterGet(w, quotas[ns(w)])
  <2>1. o \in Outcome /\ o.pc \in {"done", "createQuota", "updateQuota"}
    BY AfterGetOutcome
  <2>2. Answered(w, o)
    BY <1>5 DEF GetQuota
  <2> HIDE DEF o
  <2>3. /\ pc' \in [Sessions -> Labels]
        /\ status' \in [Sessions -> Statuses]
        /\ budget' \in Budget
        /\ \A v \in Sessions : v # w => pc'[v] = pc[v]
        /\ pc'[w] \in {o.pc, "done"}
    BY <2>1, <2>2, AnsweredStep
  <2>4. TypeOK'
    BY <1>5, <2>3, NamespaceOfSession DEF GetQuota, TypeOK, Labels, Budget
  <2>5. Enforceable(req[w])
    BY <1>5 DEF GetQuota, OnlyEntitledInFlight
  <2> QED
    BY <1>5, <2>1, <2>3, <2>4, <2>5, EntitledStep DEF GetQuota, InFlight, ApiCalls
<1>6. ASSUME NEW w \in Sessions, UpdateQuota(w) \/ CreateQuota(w)
      PROVE  TypeOK' /\ OnlyEntitledInFlight'
  <2>1. Enforceable(req[w]) /\ req[w] \in Request /\ pc[w] \in InFlight
    BY <1>6 DEF UpdateQuota, CreateQuota, OnlyEntitledInFlight, TypeOK, InFlight, ApiCalls
  <2>2. Wanted(req[w]) \in HardLimits
    BY <2>1, WantedType
  <2>3. /\ pc' \in [Sessions -> Labels]
        /\ status' \in [Sessions -> Statuses]
        /\ budget' \in Budget
        /\ \A v \in Sessions : v # w => pc'[v] = pc[v]
        /\ pc'[w] = "done"
    <3>1. CASE Answered(w, Succeed)
      BY <3>1, AnsweredStep, OutcomeType
    <3>2. CASE Proceed(w, Fail) /\ UNCHANGED budget
      BY <3>2, ProceedStep, OutcomeType DEF TypeOK, Budget
    <3> QED
      BY <1>6, <3>1, <3>2 DEF UpdateQuota, CreateQuota
  <2>4. quotas' \in [Namespaces -> ResourceQuota] /\ revision' \in Nat
    <3>1. CASE UNCHANGED <<quotas, revision>>
      BY <3>1 DEF TypeOK
    <3>2. CASE PutQuota(ns(w), Wanted(req[w]), seen[w].ignore)
      <4>1. seen[w].ignore \in BOOLEAN
        BY DEF TypeOK, ResourceQuota
      <4> QED
        BY <2>2, <3>2, <4>1, PutQuotaStep, NamespaceOfSession
    <3>3. CASE PutQuota(ns(w), Wanted(req[w]), FALSE)
      BY <2>2, <3>3, PutQuotaStep, NamespaceOfSession
    <3> QED
      BY <1>6, <3>1, <3>2, <3>3 DEF UpdateQuota, CreateQuota
  <2>5. UNCHANGED <<namespaces, sharedAttrs, req, ann, seen>>
    BY <1>6 DEF UpdateQuota, CreateQuota
  <2>6. TypeOK'
    BY <2>3, <2>4, <2>5 DEF TypeOK, Labels, Budget
  <2> QED
    BY <2>3, <2>5, <2>6, EntitledStep DEF InFlight, ApiCalls
<1>7. ASSUME NEW w \in Sessions, CallFails(w)
      PROVE  TypeOK' /\ OnlyEntitledInFlight'
  <2>1. /\ pc' \in [Sessions -> Labels]
        /\ status' \in [Sessions -> Statuses]
        /\ \A v \in Sessions : pc'[v] = IF v = w THEN "done" ELSE pc[v]
    BY <1>7, ProceedStep, OutcomeType DEF CallFails
  <2>2. budget' \in Budget
    BY <1>7, SpendStep DEF CallFails
  <2>3. TypeOK'
    BY <1>7, <2>1, <2>2 DEF CallFails, TypeOK, Labels, Budget
  <2> QED
    BY <1>7, <2>1, <2>3, EntitledStep DEF CallFails, InFlight, ApiCalls
<1>8. CASE CrashRestart
  <2>1. budget' \in Budget
    BY <1>8, SpendStep DEF CrashRestart
  <2>2. pc' \in [Sessions -> Labels]
    BY <1>8 DEF CrashRestart, TypeOK, Labels
  <2>3. TypeOK'
    BY <1>8, <2>1, <2>2 DEF CrashRestart, TypeOK, Labels, Budget
  <2>4. \A w \in Sessions : pc'[w] \notin InFlight
    BY <1>8 DEF CrashRestart, InFlight, ApiCalls
  <2> QED
    BY <2>3, <2>4 DEF OnlyEntitledInFlight, InFlight, ApiCalls
<1>9. ASSUME NEW n \in Namespaces, Environment(n)
      PROVE  TypeOK' /\ OnlyEntitledInFlight'
  <2>1. UNCHANGED <<pc, req, sharedAttrs, ann, seen, status>>
    BY <1>9 DEF Environment, AdminWritesQuota, AdminDeletesQuota,
                AdminDeletesNamespace, FinalizeNamespace
  <2>2. budget' \in Budget
    BY <1>9, SpendStep DEF Environment, AdminWritesQuota, AdminDeletesQuota,
                AdminDeletesNamespace, FinalizeNamespace, TypeOK, Budget
  <2>3. quotas' \in [Namespaces -> ResourceQuota] /\ revision' \in Nat
    <3>1. CASE AdminWritesQuota(n)
      BY <3>1, PutQuotaStep DEF AdminWritesQuota
    <3>2. CASE AdminDeletesQuota(n)
      BY <3>2, AbsentTypes DEF AdminDeletesQuota, TypeOK
    <3>3. CASE AdminDeletesNamespace(n)
      BY <3>3 DEF AdminDeletesNamespace, TypeOK
    <3>4. CASE FinalizeNamespace(n)
      BY <3>4, AbsentTypes DEF FinalizeNamespace, TypeOK
    <3> QED
      BY <1>9, <3>1, <3>2, <3>3, <3>4 DEF Environment
  <2>4. namespaces' \in [Namespaces -> Namespace]
    BY <1>9, AbsentTypes DEF Environment, AdminWritesQuota, AdminDeletesQuota,
                AdminDeletesNamespace, FinalizeNamespace, TypeOK, Namespace
  <2> QED
    BY <2>1, <2>2, <2>3, <2>4 DEF TypeOK, OnlyEntitledInFlight, Budget
<1>10. CASE UNCHANGED vars
  BY <1>10 DEF vars, TypeOK, OnlyEntitledInFlight
<1> QED
  BY <1>1, <1>2, <1>3, <1>4, <1>5, <1>6, <1>7, <1>8, <1>9, <1>10 DEF Next, Step

(* The service's variables keep their types.                               *)
THEOREM TypeCorrect == Spec => []TypeOK
<1>1. Init => TypedAndEntitled
  BY InitTyped
<1>2. TypedAndEntitled /\ [Next]_vars => TypedAndEntitled'
  BY NextTyped
<1>3. TypedAndEntitled => TypeOK
  BY DEF TypedAndEntitled
<1> QED
  BY <1>1, <1>2, <1>3, PTL DEF Spec

-----------------------------------------------------------------------------
(* The inductive invariant.                                                *)

(* What any step does to the quota of a namespace: nothing, its removal,   *)
(* or a write at a resourceVersion nobody has read.                        *)
Evolves(n) ==
    \/ quotas'[n] = quotas[n]
    \/ quotas'[n] = AbsentQuota
    \/ quotas'[n].rv = revision + 1 /\ revision' = revision + 1

(* What any step does to a session that is then about to Update: it was    *)
(* already, or it has just read the quota.                                 *)
Prepared(w) ==
    /\ req'[w] = req[w]
    /\ \/ pc[w] = "updateQuota" /\ seen'[w] = seen[w]
       \/ /\ pc[w] = "getQuota"
          /\ seen'[w] = quotas[ns(w)]
          /\ UNCHANGED quotas
          /\ AfterGet(w, quotas[ns(w)]).pc = "updateQuota"

LEMMA PutQuotaEvolution ==
    ASSUME TypeOK, NEW n \in Namespaces, NEW hard \in HardLimits,
           NEW ignore \in BOOLEAN, PutQuota(n, hard, ignore)
    PROVE  /\ revision' = revision + 1
           /\ \A m \in Namespaces : Evolves(m)
<1>1. revision' = revision + 1 /\ quotas'[n].rv = revision'
  BY PutQuotaStep
<1>2. \A m \in Namespaces : m # n => quotas'[m] = quotas[m]
  BY PutQuotaStep
<1> QED
  BY <1>1, <1>2 DEF Evolves

LEMMA QuotaEvolution ==
    ASSUME IInv, [Next]_vars
    PROVE  /\ revision' \in {revision, revision + 1}
           /\ \A n \in Namespaces : Evolves(n)
<1> USE DEF IInv
<1>0. revision \in Nat
  BY DEF TypeOK
<1>1. CASE UNCHANGED <<quotas, revision>>
  BY <1>1 DEF Evolves
<1>2. ASSUME NEW w \in Sessions, UpdateQuota(w) \/ CreateQuota(w)
      PROVE  /\ revision' \in {revision, revision + 1}
             /\ \A n \in Namespaces : Evolves(n)
  <2>1. Wanted(req[w]) \in HardLimits
    BY <1>2, WantedType DEF UpdateQuota, CreateQuota, OnlyEntitledInFlight, TypeOK
  <2>2. seen[w].ignore \in BOOLEAN
    BY DEF TypeOK, ResourceQuota
  <2>3. CASE \E ignore \in BOOLEAN : PutQuota(ns(w), Wanted(req[w]), ignore)
    BY <2>1, <2>3, PutQuotaEvolution, NamespaceOfSession
  <2> QED
    BY <1>1, <1>2, <2>2, <2>3 DEF UpdateQuota, CreateQuota
<1>3. ASSUME NEW n \in Namespaces, Environment(n)
      PROVE  /\ revision' \in {revision, revision + 1}
             /\ \A m \in Namespaces : Evolves(m)
  <2>1. CASE AdminWritesQuota(n)
    BY <2>1, PutQuotaEvolution DEF AdminWritesQuota
  <2>2. CASE AdminDeletesQuota(n) \/ FinalizeNamespace(n)
    BY <2>2 DEF AdminDeletesQuota, FinalizeNamespace, TypeOK, Evolves
  <2>3. CASE AdminDeletesNamespace(n)
    BY <1>1, <2>3 DEF AdminDeletesNamespace
  <2> QED
    BY <1>3, <2>1, <2>2, <2>3 DEF Environment
<1> QED
  BY <1>1, <1>2, <1>3
     DEF Next, Step, Send, Resend, Onboard, getNamespaceAnnotations, CreateNamespace,
         PatchNamespace, GetQuota, CallFails, CrashRestart, vars

LEMMA UpdatePreparation ==
    ASSUME IInv, [Next]_vars, NEW v \in Sessions, pc'[v] = "updateQuota"
    PROVE  Prepared(v)
<1> USE DEF IInv
<1>1. ASSUME NEW w \in Sessions, Send(w) \/ Resend(w)
      PROVE  Prepared(v)
  <2>1. PICK r \in Request : Onboard(w, r)
    BY <1>1 DEF Send, Resend, TypeOK
  <2>2. pc'[w] \in {"annotate", "done"} /\ \A x \in Sessions : x # w =>
           pc'[x] = pc[x] /\ seen'[x] = seen[x] /\ req'[x] = req[x]
    BY <2>1, OutcomeType DEF Onboard, Proceed, TypeOK, Labels, InFlight
  <2> QED
    BY <2>2 DEF Prepared
<1>2. ASSUME NEW w \in Sessions, getNamespaceAnnotations(w)
      PROVE  Prepared(v)
  BY <1>2, OutcomeType DEF getNamespaceAnnotations, Proceed, TypeOK, Labels,
                           InFlight, ApiCalls, Prepared
<1>3. ASSUME NEW w \in Sessions, CreateNamespace(w) \/ PatchNamespace(w)
      PROVE  Prepared(v)
  <2>1. \E o \in {AfterNamespace(w), Goto("patch"), Fail} : Proceed(w, o)
    BY <1>3 DEF CreateNamespace, PatchNamespace, Answered
  <2>2. pc'[w] # "updateQuota" /\ \A x \in Sessions : x # w => pc'[x] = pc[x]
    BY <2>1, AfterNamespaceOutcome, OutcomeType
       DEF Proceed, TypeOK, Labels, InFlight, ApiCalls
  <2> QED
    BY <1>3, <2>2 DEF CreateNamespace, PatchNamespace, Prepared
<1>4. ASSUME NEW w \in Sessions, GetQuota(w)
      PROVE  Prepared(v)
  <2>1. \E o \in {AfterGet(w, quotas[ns(w)]), Fail} : Proceed(w, o)
    BY <1>4 DEF GetQuota, Answered
  <2>2. /\ pc'[w] = "updateQuota" => AfterGet(w, quotas[ns(w)]).pc = "updateQuota"
        /\ \A x \in Sessions : x # w => pc'[x] = pc[x]
    BY <2>1, OutcomeType DEF Proceed, TypeOK
  <2>3. seen'[w] = quotas[ns(w)] /\ \A x \in Sessions : x # w => seen'[x] = seen[x]
    BY <1>4 DEF GetQuota, TypeOK
  <2> QED
    BY <1>4, <2>2, <2>3 DEF GetQuota, Prepared
<1>5. ASSUME NEW w \in Sessions, UpdateQuota(w) \/ CreateQuota(w) \/ CallFails(w)
      PROVE  Prepared(v)
  <2>1. \E o \in {Succeed, Fail} : Proceed(w, o)
    BY <1>5 DEF UpdateQuota, CreateQuota, CallFails, Answered
  <2>2. pc'[w] = "done" /\ \A x \in Sessions : x # w => pc'[x] = pc[x]
    BY <2>1, OutcomeType DEF Proceed, TypeOK
  <2> QED
    BY <1>5, <2>2 DEF UpdateQuota, CreateQuota, CallFails, Prepared
<1>6. CASE CrashRestart
  BY <1>6 DEF CrashRestart, InFlight, ApiCalls
<1>7. ASSUME NEW n \in Namespaces, Environment(n)
      PROVE  Prepared(v)
  BY <1>7 DEF Environment, AdminWritesQuota, AdminDeletesQuota,
              AdminDeletesNamespace, FinalizeNamespace, Prepared
<1>8. CASE UNCHANGED vars
  BY <1>8 DEF vars, Prepared
<1> QED
  BY <1>1, <1>2, <1>3, <1>4, <1>5, <1>6, <1>7, <1>8 DEF Next, Step

(* What a session holds is never newer than the cluster.                   *)
LEMMA SeenEvolution ==
    ASSUME IInv, [Next]_vars, NEW v \in Sessions
    PROVE  seen'[v] \in {seen[v], AbsentQuota, quotas[ns(v)]}
<1> USE DEF IInv
<1>1. ASSUME NEW w \in Sessions, Send(w) \/ Resend(w)
      PROVE  seen'[v] \in {seen[v], AbsentQuota}
  BY <1>1 DEF Send, Resend, Onboard, TypeOK
<1>2. ASSUME NEW w \in Sessions, GetQuota(w)
      PROVE  seen'[v] \in {seen[v], quotas[ns(v)]}
  BY <1>2 DEF GetQuota, TypeOK
<1>3. CASE UNCHANGED seen
  BY <1>3
<1> QED
  BY <1>1, <1>2, <1>3
     DEF Next, Step, getNamespaceAnnotations, CreateNamespace, PatchNamespace,
         UpdateQuota, CreateQuota, CallFails, CrashRestart, Environment,
         AdminWritesQuota, AdminDeletesQuota, AdminDeletesNamespace,
         FinalizeNamespace, vars

LEMMA NextRevisions == IInv /\ [Next]_vars => RevisionsArePast'
<1> SUFFICES ASSUME IInv, [Next]_vars PROVE RevisionsArePast'
  OBVIOUS
<1>1. revision \in Nat /\ revision' \in {revision, revision + 1}
  BY QuotaEvolution DEF IInv, TypeOK
<1>2. ASSUME NEW n \in Namespaces PROVE quotas[n].rv \in Nat /\ quotas[n].rv <= revision
  BY DEF IInv, TypeOK, ResourceQuota, RevisionsArePast
<1>3. ASSUME NEW n \in Namespaces PROVE quotas'[n].rv <= revision'
  BY <1>1, <1>2, QuotaEvolution DEF Evolves, AbsentQuota
<1>4. ASSUME NEW v \in Sessions PROVE seen'[v].rv <= revision'
  <2>1. seen[v].rv \in Nat /\ seen[v].rv <= revision
    BY DEF IInv, TypeOK, ResourceQuota, RevisionsArePast
  <2> QED
    BY <1>1, <1>2, <2>1, SeenEvolution, NamespaceOfSession DEF AbsentQuota, IInv
<1> QED
  BY <1>3, <1>4 DEF RevisionsArePast

LEMMA NextInformed == IInv /\ [Next]_vars => UpdateIsInformed'
<1> SUFFICES ASSUME IInv, [Next]_vars, NEW w \in Sessions, pc'[w] = "updateQuota"
             PROVE  /\ seen'[w].present
                    /\ ~seen'[w].ignore
                    /\ seen'[w].hard # Wanted(req'[w])
                    /\ Unchanged(w)' => quotas'[ns(w)'] = seen'[w]
  BY DEF UpdateIsInformed
<1> USE DEF IInv
<1>1. Prepared(w)
  BY UpdatePreparation
<1>2. req'[w] = req[w] /\ ns(w)' = ns(w) /\ ns(w) \in Namespaces
  BY <1>1, NamespaceOfSession DEF Prepared, ns
<1>3. CASE pc[w] = "updateQuota" /\ seen'[w] = seen[w]
  <2>1. /\ seen[w].present /\ ~seen[w].ignore /\ seen[w].hard # Wanted(req[w])
        /\ Unchanged(w) => quotas[ns(w)] = seen[w]
    BY <1>3 DEF UpdateIsInformed
  <2>2. seen[w].rv \in Nat /\ seen[w].rv <= revision /\ revision \in Nat
    BY DEF TypeOK, ResourceQuota, RevisionsArePast
  <2>3. Evolves(ns(w))
    BY <1>2, QuotaEvolution
  <2>4. ASSUME Unchanged(w)' PROVE quotas'[ns(w)] = quotas[ns(w)]
    <3>1. quotas'[ns(w)].present /\ quotas'[ns(w)].rv = seen[w].rv
      BY <1>2, <1>3, <2>4 DEF Unchanged
    <3> QED
      BY <2>2, <2>3, <3>1 DEF Evolves, AbsentQuota
  <2>5. ASSUME Unchanged(w)' PROVE Unchanged(w)
    BY <1>2, <1>3, <2>4, <2>5 DEF Unchanged
  <2> QED
    BY <1>2, <1>3, <2>1, <2>4, <2>5
<1>4. CASE /\ pc[w] = "getQuota" /\ seen'[w] = quotas[ns(w)] /\ UNCHANGED quotas
           /\ AfterGet(w, quotas[ns(w)]).pc = "updateQuota"
  <2>1. /\ quotas[ns(w)].present /\ ~quotas[ns(w)].ignore
        /\ quotasAreDifferent(quotas[ns(w)].hard, Wanted(req[w]))
    BY <1>4, AfterGetOutcome
  <2>2. Enforceable(req[w]) /\ req[w] \in Request
    BY <1>4 DEF OnlyEntitledInFlight, TypeOK
  <2>3. Wanted(req[w]) \in HardLimits /\ quotas[ns(w)].hard \in HardLimits
    BY <1>2, <2>2, WantedType DEF TypeOK, ResourceQuota
  <2>4. quotas[ns(w)].hard # Wanted(req[w])
    BY <2>1, <2>3, QuotasAreDifferentIsInequality
  <2> QED
    BY <1>2, <1>4, <2>1, <2>4
<1> QED
  BY <1>1, <1>3, <1>4 DEF Prepared

LEMMA NextHoused == IInv /\ [Next]_vars => QuotasAreHoused'
<1> SUFFICES ASSUME IInv, [Next]_vars PROVE QuotasAreHoused'
  OBVIOUS
<1> USE DEF IInv
<1>1. ASSUME UNCHANGED quotas,
             \A n \in Namespaces : namespaces[n].phase # "absent"
                                    => namespaces'[n].phase # "absent"
      PROVE  QuotasAreHoused'
  BY <1>1 DEF QuotasAreHoused
<1>2. ASSUME UNCHANGED namespaces, NEW n \in Namespaces,
             namespaces[n].phase # "absent", quotas'[n].present,
             \A m \in Namespaces : m # n => quotas'[m] = quotas[m]
      PROVE  QuotasAreHoused'
  BY <1>2 DEF QuotasAreHoused
<1>3. ASSUME NEW w \in Sessions, CreateNamespace(w) \/ PatchNamespace(w)
      PROVE  QuotasAreHoused'
  <2>1. \A n \in Namespaces : namespaces[n].phase # "absent"
                               => namespaces'[n].phase # "absent"
    BY <1>3 DEF CreateNamespace, PatchNamespace, TypeOK
  <2> QED
    BY <1>1, <1>3, <2>1 DEF CreateNamespace, PatchNamespace
<1>4. ASSUME NEW w \in Sessions, UpdateQuota(w) \/ CreateQuota(w)
      PROVE  QuotasAreHoused'
  <2>1. Wanted(req[w]) \in HardLimits
    BY <1>4, WantedType DEF UpdateQuota, CreateQuota, OnlyEntitledInFlight, TypeOK
  <2>2. UNCHANGED namespaces /\ ns(w) \in Namespaces
    BY <1>4, NamespaceOfSession DEF UpdateQuota, CreateQuota
  <2>3. CASE UNCHANGED quotas
    BY <1>1, <2>2, <2>3
  <2>4. CASE /\ Unchanged(w) \/ Creatable(ns(w))
             /\ \E ignore \in BOOLEAN : PutQuota(ns(w), Wanted(req[w]), ignore)
    <3>1. namespaces[ns(w)].phase # "absent"
      BY <2>2, <2>4 DEF Unchanged, Creatable, QuotasAreHoused
    <3>2. quotas'[ns(w)].present /\ \A m \in Namespaces : m # ns(w) => quotas'[m] = quotas[m]
      BY <2>1, <2>2, <2>4, PutQuotaStep
    <3> QED
      BY <1>2, <2>2, <3>1, <3>2
  <2>5. seen[w].ignore \in BOOLEAN
    BY DEF TypeOK, ResourceQuota
  <2> QED
    BY <1>4, <2>3, <2>4, <2>5 DEF UpdateQuota, CreateQuota
<1>5. ASSUME NEW n \in Namespaces, Environment(n)
      PROVE  QuotasAreHoused'
  <2>1. CASE AdminWritesQuota(n)
    <3>1. quotas'[n].present /\ \A m \in Namespaces : m # n => quotas'[m] = quotas[m]
      BY <2>1, PutQuotaStep DEF AdminWritesQuota
    <3> QED
      BY <1>2, <2>1, <3>1 DEF AdminWritesQuota
  <2>2. CASE AdminDeletesQuota(n)
    BY <2>2 DEF AdminDeletesQuota, TypeOK, QuotasAreHoused, AbsentQuota
  <2>3. CASE AdminDeletesNamespace(n)
    <3>1. \A m \in Namespaces : namespaces[m].phase # "absent"
                                 => namespaces'[m].phase # "absent"
      BY <2>3 DEF AdminDeletesNamespace, TypeOK, Namespace
    <3> QED
      BY <1>1, <2>3, <3>1 DEF AdminDeletesNamespace
  <2>4. CASE FinalizeNamespace(n)
    BY <2>4 DEF FinalizeNamespace, TypeOK, QuotasAreHoused, AbsentQuota
  <2> QED
    BY <1>5, <2>1, <2>2, <2>3, <2>4 DEF Environment
<1>6. CASE UNCHANGED <<namespaces, quotas>>
  BY <1>1, <1>6
<1> QED
  BY <1>3, <1>4, <1>5, <1>6
     DEF Next, Step, Send, Resend, Onboard, getNamespaceAnnotations,
         GetQuota, CallFails, CrashRestart, vars

(* Every step of a session is the outcome of the code it ran.              *)
LEMMA SessionStep ==
    ASSUME NEW w \in Sessions, Send(w) \/ Resend(w) \/ Step(w) \/ CallFails(w)
    PROVE  \E o \in Outcome : Proceed(w, o)
<1> USE OutcomeType
<1>1. ASSUME NEW r \in Request, Onboard(w, r)
      PROVE  \E o \in Outcome : Proceed(w, o)
  <2>1. (IF GroupAllowed(r) THEN Goto("annotate") ELSE Refuse) \in Outcome
    BY DEF Labels, InFlight
  <2> QED
    BY <1>1, <2>1 DEF Onboard
<1>2. ASSUME Resend(w)
      PROVE  \E o \in Outcome : Proceed(w, o)
  <2>1. (IF GroupAllowed(req[w]) THEN Goto("annotate") ELSE Refuse) \in Outcome
    BY DEF Labels, InFlight
  <2> QED
    BY <1>2, <2>1 DEF Resend, Onboard
<1>3. ASSUME NEW o \in Outcome, Answered(w, o)
      PROVE  \E p \in Outcome : Proceed(w, p)
  BY <1>3 DEF Answered
<1>4. CASE getNamespaceAnnotations(w)
  BY <1>4 DEF getNamespaceAnnotations, Labels, InFlight, ApiCalls
<1>5. CASE CreateNamespace(w)
  <2>1. Goto("patch") \in Outcome
    BY DEF Labels, InFlight, ApiCalls
  <2> QED
    BY <1>3, <1>5, <2>1, AfterNamespaceOutcome DEF CreateNamespace
<1>6. CASE PatchNamespace(w)
  BY <1>3, <1>6, AfterNamespaceOutcome DEF PatchNamespace
<1>7. CASE GetQuota(w)
  BY <1>3, <1>7, AfterGetOutcome DEF GetQuota
<1>8. CASE UpdateQuota(w) \/ CreateQuota(w)
  BY <1>3, <1>8 DEF UpdateQuota, CreateQuota
<1>9. CASE CallFails(w)
  BY <1>9 DEF CallFails
<1> QED
  BY <1>1, <1>2, <1>4, <1>5, <1>6, <1>7, <1>8, <1>9 DEF Send, Step

LEMMA NextUnanswered ==
    TypedAndEntitled /\ UnansweredInFlight /\ [Next]_vars => UnansweredInFlight'
<1> SUFFICES ASSUME TypedAndEntitled, UnansweredInFlight, [Next]_vars
             PROVE  UnansweredInFlight'
  OBVIOUS
<1>1. ASSUME NEW w \in Sessions, Send(w) \/ Resend(w) \/ Step(w) \/ CallFails(w)
      PROVE  UnansweredInFlight'
  <2>1. PICK o \in Outcome : Proceed(w, o)
    BY <1>1, SessionStep
  <2> QED
    BY <2>1, ProceedStep DEF TypedAndEntitled, UnansweredInFlight, Outcome
<1>2. CASE CrashRestart
  BY <1>2 DEF CrashRestart, UnansweredInFlight, InFlight, ApiCalls
<1>3. CASE UNCHANGED <<pc, status>>
  BY <1>3 DEF UnansweredInFlight
<1> QED
  BY <1>1, <1>2, <1>3
     DEF Next, Environment, AdminWritesQuota, AdminDeletesQuota,
         AdminDeletesNamespace, FinalizeNamespace, vars

LEMMA InitInvariant == Init => IInv
<1> SUFFICES ASSUME Init PROVE IInv
  OBVIOUS
<1>1. TypedAndEntitled
  BY InitTyped
<1>2. RevisionsArePast
  <2>1. \A n \in Namespaces : quotas[n] # AbsentQuota => quotas[n].rv \in {0}
    BY Zenon DEF Init
  <2>2. AbsentQuota.rv = 0
    BY DEF AbsentQuota
  <2> QED
    BY <2>1, <2>2 DEF Init, RevisionsArePast
<1>3. UpdateIsInformed
  BY DEF Init, UpdateIsInformed
<1>4. QuotasAreHoused
  BY DEF Init, QuotasAreHoused, AbsentNamespace
<1>5. UnansweredInFlight
  BY DEF Init, UnansweredInFlight, InFlight, ApiCalls
<1> QED
  BY <1>1, <1>2, <1>3, <1>4, <1>5 DEF IInv, TypedAndEntitled

LEMMA NextInvariant == IInv /\ [Next]_vars => IInv'
<1>1. IInv /\ [Next]_vars => TypedAndEntitled'
  BY NextTyped DEF IInv, TypedAndEntitled
<1> QED
  BY <1>1, NextRevisions, NextInformed, NextHoused, NextUnanswered
     DEF IInv, TypedAndEntitled

(* A request about to overwrite a quota has decided on the object that its *)
(* Update will replace, or the Update is refused.                          *)
THEOREM Invariance == Spec => []IInv
BY InitInvariant, NextInvariant, PTL DEF Spec

-----------------------------------------------------------------------------
(* Action properties.                                                      *)

(* When a session steps, it is the one that acts, and its answer is the    *)
(* outcome of the step.                                                    *)
LEMMA ActsAlone ==
    ASSUME TypeOK, NEW w \in Sessions, Acts(w), NEW v \in Sessions,
           Send(v) \/ Resend(v) \/ Step(v) \/ CallFails(v)
    PROVE  v = w
<1>1. PICK o \in Outcome : Proceed(v, o)
  BY SessionStep
<1> QED
  BY <1>1, ProceedStep DEF Acts

(* The steps of a request that change a quota: Update, on the object that  *)
(* was read, and Create, where there was none.                             *)
LEMMA QuotaWrite ==
    ASSUME IInv, [Next]_vars, NEW w \in Sessions, Acts(w),
           NEW n \in Namespaces, quotas'[n] # quotas[n]
    PROVE  /\ n = ns(w)
           /\ pc[w] \in {"updateQuota", "createQuota"}
           /\ quotas[n] = IF pc[w] = "updateQuota" THEN seen[w] ELSE AbsentQuota
           /\ quotas'[n].present /\ quotas'[n].hard = Wanted(req[w])
           /\ quotas'[n].ignore = FALSE
<1> USE DEF IInv
<1>1. PICK v \in Sessions : UpdateQuota(v) \/ CreateQuota(v)
  BY DEF Acts, Next, Step, Send, Resend, Onboard, getNamespaceAnnotations,
         CreateNamespace, PatchNamespace, GetQuota, CallFails, CrashRestart,
         Environment, AdminWritesQuota, AdminDeletesQuota, AdminDeletesNamespace,
         FinalizeNamespace, vars
<1>2. v = w
  BY <1>1, ActsAlone DEF Step
<1>3. Wanted(req[w]) \in HardLimits /\ ns(w) \in Namespaces
  BY <1>1, <1>2, WantedType, NamespaceOfSession
     DEF UpdateQuota, CreateQuota, OnlyEntitledInFlight, TypeOK
<1>4. CASE UpdateQuota(w)
  <2>1. pc[w] = "updateQuota" /\ Unchanged(w)
        /\ PutQuota(ns(w), Wanted(req[w]), seen[w].ignore)
    BY <1>4 DEF UpdateQuota
  <2>2. quotas[ns(w)] = seen[w] /\ seen[w].ignore = FALSE
    BY <2>1 DEF UpdateIsInformed, TypeOK, ResourceQuota
  <2> QED
    BY <1>3, <2>1, <2>2, PutQuotaStep
<1>5. CASE CreateQuota(w)
  <2>1. pc[w] = "createQuota" /\ Creatable(ns(w))
        /\ PutQuota(ns(w), Wanted(req[w]), FALSE)
    BY <1>5 DEF CreateQuota
  <2>2. quotas[ns(w)] = AbsentQuota
    BY <1>3, <2>1 DEF Creatable, QuotasAreHoused
  <2> QED
    BY <1>3, <2>1, <2>2, PutQuotaStep
<1> QED
  BY <1>1, <1>2, <1>4, <1>5

(* An ignored quota survives every request, however late the annotation.   *)
THEOREM IgnoredQuotasSurvive == Spec => IgnoredQuotaUntouched
<1>1. IInv /\ [Next]_vars =>
         [\A w \in Sessions, n \in Namespaces :
             Acts(w) /\ quotas[n].ignore => quotas'[n] = quotas[n]]_vars
  <2> SUFFICES ASSUME IInv, [Next]_vars, NEW w \in Sessions, NEW n \in Namespaces,
                      Acts(w), quotas[n].ignore, quotas'[n] # quotas[n]
               PROVE  FALSE
    OBVIOUS
  <2>1. CASE pc[w] = "updateQuota"
    BY <2>1, QuotaWrite DEF IInv, UpdateIsInformed
  <2>2. CASE pc[w] # "updateQuota"
    <3>1. quotas[n] = AbsentQuota
      BY <2>2, QuotaWrite
    <3> QED
      BY <3>1 DEF AbsentQuota
  <2> QED
    BY <2>1, <2>2
<1> QED
  BY <1>1, Invariance, PTL DEF Spec, IgnoredQuotaUntouched

(* A right quota is never rewritten, a wrong one only with the right one.  *)
THEOREM RightQuotasSurvive == Spec => OnlyWrongQuotaRewritten
<1>1. IInv /\ [Next]_vars =>
         [\A w \in Sessions, n \in Namespaces :
             Acts(w) /\ quotas'[n] # quotas[n] =>
                /\ n = ns(w)
                /\ quotas[n].hard # Wanted(req[w])
                /\ quotas'[n].hard = Wanted(req[w])]_vars
  <2> SUFFICES ASSUME IInv, [Next]_vars, NEW w \in Sessions, NEW n \in Namespaces,
                      Acts(w), quotas'[n] # quotas[n]
               PROVE  /\ n = ns(w)
                      /\ quotas[n].hard # Wanted(req[w])
                      /\ quotas'[n].hard = Wanted(req[w])
    OBVIOUS
  <2>1. n = ns(w) /\ quotas'[n].hard = Wanted(req[w])
    BY QuotaWrite
  <2>2. CASE pc[w] = "updateQuota"
    BY <2>2, QuotaWrite DEF IInv, UpdateIsInformed
  <2>3. CASE pc[w] = "createQuota"
    <3>1. Enforceable(req[w]) /\ req[w] \in Request
      BY <2>3 DEF IInv, OnlyEntitledInFlight, TypeOK
    <3>2. Wanted(req[w]) # NoLimits
      BY <3>1, WantedType
    <3>3. quotas[n] = AbsentQuota
      BY <2>3, QuotaWrite
    <3> QED
      BY <2>1, <3>2, <3>3 DEF AbsentQuota
  <2> QED
    BY <2>1, <2>2, <2>3, QuotaWrite
<1> QED
  BY <1>1, Invariance, PTL DEF Spec, OnlyWrongQuotaRewritten

(* A namespace object is changed by the session it belongs to, which got   *)
(* past the group check, in CreateNamespace or in PatchNamespace.          *)
LEMMA NamespaceWrite ==
    ASSUME IInv, [Next]_vars, NEW w \in Sessions, Acts(w),
           NEW n \in Namespaces, namespaces'[n] # namespaces[n]
    PROVE  /\ n = ns(w)
           /\ pc[w] \in {"create", "patch"}
           /\ namespaces'[n].phase =
                 IF namespaces[n].phase = "absent" THEN "active" ELSE namespaces[n].phase
           /\ namespaces'[n].phase # namespaces[n].phase => pc[w] = "create"
           /\ GroupAllowed(req[w])
<1> USE DEF IInv
<1>1. PICK v \in Sessions : CreateNamespace(v) \/ PatchNamespace(v)
  BY DEF Acts, Next, Step, Send, Resend, Onboard, getNamespaceAnnotations,
         UpdateQuota, CreateQuota, GetQuota, CallFails, CrashRestart,
         Environment, AdminWritesQuota, AdminDeletesQuota, AdminDeletesNamespace,
         FinalizeNamespace, vars
<1>2. v = w
  BY <1>1, ActsAlone DEF Step
<1>3. pc[w] \in {"create", "patch"} /\ ns(w) \in Namespaces
  BY <1>1, <1>2, NamespaceOfSession DEF CreateNamespace, PatchNamespace
<1>4. GroupAllowed(req[w])
  BY <1>3 DEF OnlyEntitledInFlight, InFlight, ApiCalls
<1>5. CASE CreateNamespace(w)
  BY <1>3, <1>4, <1>5 DEF CreateNamespace, TypeOK
<1>6. CASE PatchNamespace(w)
  BY <1>3, <1>4, <1>6 DEF PatchNamespace, TypeOK
<1> QED
  BY <1>1, <1>2, <1>5, <1>6

(* Whatever the interleaving, a request changes nothing but the namespace  *)
(* and the quota that getNamespace gives it, and only once the controller  *)
(* has found its user in the group: the check is not undone by a request   *)
(* that follows in the same session, by a retry or by a restart.           *)
THEOREM NoForeignTrace == Spec => NoTraceOutsideOwnNamespace
<1>1. IInv /\ [Next]_vars =>
         [\A w \in Sessions, n \in Namespaces :
             Acts(w) /\ <<namespaces[n], quotas[n]>>' # <<namespaces[n], quotas[n]>> =>
                n = ns(w) /\ GroupAllowed(req[w])]_vars
  <2> SUFFICES ASSUME IInv, [Next]_vars, NEW w \in Sessions, NEW n \in Namespaces,
                      Acts(w),
                      namespaces'[n] # namespaces[n] \/ quotas'[n] # quotas[n]
               PROVE  n = ns(w) /\ GroupAllowed(req[w])
    OBVIOUS
  <2>1. CASE namespaces'[n] # namespaces[n]
    BY <2>1, NamespaceWrite
  <2>2. CASE quotas'[n] # quotas[n]
    <3>1. n = ns(w) /\ pc[w] \in {"updateQuota", "createQuota"}
      BY <2>2, QuotaWrite
    <3> QED
      BY <3>1 DEF IInv, OnlyEntitledInFlight, InFlight, ApiCalls
  <2> QED
    BY <2>1, <2>2
<1> QED
  BY <1>1, Invariance, PTL DEF Spec, NoTraceOutsideOwnNamespace

-----------------------------------------------------------------------------
(* What 200 means.                                                         *)

LEMMA Answers ==
    /\ Succeed.status = 200 /\ Fail.status # 200 /\ Refuse.status # 200
    /\ \A label \in Labels : Goto(label).status # 200
BY DEF Succeed, Fail, Refuse, Reply, HttpStatus, Goto, NoStatus

(* The step that answers a session with 200 is the one it makes itself: a  *)
(* restart drops the request and leaves no answer.                         *)
LEMMA AnswerOfOwnStep ==
    ASSUME IInv, [Next]_vars, NEW w \in Sessions, Acts(w), status'[w] = 200
    PROVE  Send(w) \/ Resend(w) \/ Step(w) \/ CallFails(w)
<1> USE DEF IInv
<1>1. ~CrashRestart
  <2> SUFFICES ASSUME CrashRestart PROVE FALSE
    OBVIOUS
  <2>1. pc[w] \in InFlight /\ status'[w] = status[w]
    BY DEF CrashRestart, Acts
  <2> QED
    BY <2>1 DEF UnansweredInFlight, NoStatus
<1>2. ASSUME NEW n \in Namespaces, Environment(n)
      PROVE  FALSE
  BY <1>2 DEF Acts, Environment, AdminWritesQuota, AdminDeletesQuota,
              AdminDeletesNamespace, FinalizeNamespace
<1>3. ~UNCHANGED vars
  BY DEF Acts, vars
<1> QED
  BY <1>1, <1>2, <1>3, ActsAlone DEF Next

(* A call whose answer is lost is not answered with 200.                   *)
LEMMA AnsweredWithSuccess ==
    ASSUME TypeOK, NEW w \in Sessions, NEW o \in Outcome, Answered(w, o),
           status'[w] = 200
    PROVE  o.status = 200
BY ProceedStep, OutcomeType, Answers DEF Answered

(* 200 means enforced: whichever of its early returns the adapter took,    *)
(* and whatever happened between Get and the write it led to, a request    *)
(* with a quota to enforce is answered with 200 only in a step after which *)
(* the quota is there, and is the wanted one or carries the annotation     *)
(* onyxia.sh/ignore.                                                       *)
THEOREM SuccessIsEnforced == Spec => SuccessMeansEnforced
<1>1. ASSUME IInv, [Next]_vars, NEW w \in Sessions, Acts(w),
             status'[w] = 200, Enforceable(req[w])
      PROVE  /\ quotas'[ns(w)].present
             /\ quotas'[ns(w)].ignore \/ quotas'[ns(w)].hard = Wanted(req[w])
  <2> USE DEF IInv
  <2>1. ns(w) \in Namespaces /\ Wanted(req[w]) \in HardLimits
    BY <1>1, NamespaceOfSession, WantedType DEF TypeOK
  <2>2. ~(\E r \in Request : Onboard(w, r)) /\ ~Resend(w)
    <3>1. ASSUME NEW o \in {Goto("annotate"), Refuse}, Proceed(w, o)
          PROVE  FALSE
      BY <1>1, <3>1, ProceedStep, OutcomeType, Answers DEF Labels, InFlight
    <3> QED
      BY <3>1 DEF Onboard, Resend
  <2>3. ~getNamespaceAnnotations(w) /\ ~CallFails(w)
    BY <1>1, ProceedStep, OutcomeType, Answers
       DEF getNamespaceAnnotations, CallFails, Labels, InFlight, ApiCalls
  <2>4. ~CreateNamespace(w) /\ ~PatchNamespace(w)
    <3>1. AfterNamespace(w) \in Outcome /\ AfterNamespace(w).status # 200
      BY <1>1, OutcomeType, Answers
         DEF AfterNamespace, Enforceable, Labels, InFlight, ApiCalls
    <3>2. Goto("patch") \in Outcome /\ Goto("patch").status # 200
      BY OutcomeType, Answers DEF Labels, InFlight, ApiCalls
    <3>3. ~Proceed(w, Fail)
      BY <1>1, ProceedStep, OutcomeType, Answers
    <3> QED
      BY <1>1, <3>1, <3>2, <3>3, AnsweredWithSuccess
         DEF CreateNamespace, PatchNamespace
  <2>5. CASE GetQuota(w)
    <3> DEFINE q == quotas[ns(w)]
    <3>1. q.hard \in HardLimits /\ quotas'[ns(w)] = q
      BY <1>1, <2>1, <2>5 DEF GetQuota, TypeOK, ResourceQuota
    <3>2. AfterGet(w, q).status = 200
      BY <1>1, <2>5, AfterGetOutcome, AnsweredWithSuccess DEF GetQuota
    <3>3. q.present /\ (q.ignore \/ ~quotasAreDifferent(q.hard, Wanted(req[w])))
      BY <3>2, Answers DEF AfterGet, Labels, InFlight, ApiCalls
    <3> QED
      BY <2>1, <3>1, <3>3, QuotasAreDifferentIsInequality
  <2>6. CASE UpdateQuota(w) \/ CreateQuota(w)
    <3>1. ~Proceed(w, Fail)
      BY <1>1, ProceedStep, OutcomeType, Answers
    <3>2. seen[w].ignore \in BOOLEAN
      BY <1>1 DEF TypeOK, ResourceQuota
    <3>3. PICK ignore \in BOOLEAN : PutQuota(ns(w), Wanted(req[w]), ignore)
      BY <2>6, <3>1, <3>2 DEF UpdateQuota, CreateQuota
    <3> QED
      BY <1>1, <2>1, <3>3, PutQuotaStep
  <2> QED
    BY <1>1, <2>2, <2>3, <2>4, <2>5, <2>6, AnswerOfOwnStep DEF Send, Step
<1>2. IInv /\ [Next]_vars =>
         [\A w \in Sessions :
             Acts(w) /\ status'[w] = 200 /\ Enforceable(req[w]) =>
                /\ quotas'[ns(w)].present
                /\ quotas'[ns(w)].ignore \/ quotas'[ns(w)].hard = Wanted(req[w])]_vars
  BY <1>1
<1> QED
  BY <1>2, Invariance, PTL DEF Spec, SuccessMeansEnforced

-----------------------------------------------------------------------------
(* The refinement: a step of the service is one change of the cluster that *)
(* the contract allows a session it serves, or none the contract can see.  *)

sPhases == [n \in Namespaces |-> namespaces[n].phase]
sLimits == [n \in Namespaces |-> [present |-> quotas[n].present,
                                  hard |-> quotas[n].hard,
                                  ignore |-> quotas[n].ignore]]
sServing == [w \in Sessions |-> IF pc[w] \in InFlight THEN {req[w]} ELSE {}]

(* What a step of w's request may do to whom is served, and does not do to *)
(* the administrators' interventions.                                      *)
StillServes(w) ==
    /\ sServing' \in {sServing, [sServing EXCEPT ![w] = {}]}
    /\ budget'["admin"] = budget["admin"]

LEMMA StepStillServes ==
    ASSUME TypeOK, NEW w \in Sessions, pc[w] \in InFlight, UNCHANGED req,
           NEW outcome \in Outcome,
           Answered(w, outcome) \/ (Proceed(w, outcome) /\ UNCHANGED budget)
    PROVE  StillServes(w)
<1>1. PICK o \in Outcome : Proceed(w, o)
  BY OutcomeType DEF Answered
<1>2. \A v \in Sessions : pc'[v] = IF v = w THEN o.pc ELSE pc[v]
  BY <1>1, ProceedStep
<1>3. \A v \in Sessions : v # w => sServing'[v] = sServing[v]
  BY <1>2 DEF sServing
<1>4. CASE pc'[w] \in InFlight
  <2>1. sServing'[w] = sServing[w]
    BY <1>4 DEF sServing
  <2>2. sServing' = sServing
    BY <1>3, <2>1 DEF sServing
  <2> QED
    BY <2>2 DEF StillServes, Answered, Spend, TypeOK
<1>5. CASE pc'[w] \notin InFlight
  <2>1. sServing'[w] = {}
    BY <1>5 DEF sServing
  <2>2. sServing' = [sServing EXCEPT ![w] = {}]
    BY <1>3, <2>1 DEF sServing
  <2> QED
    BY <2>2 DEF StillServes, Answered, Spend, TypeOK
<1> QED
  BY <1>4, <1>5

(* Such a step that changes nothing else ends the request, or stutters.    *)
LEMMA Unnoticed ==
    ASSUME NEW w \in Sessions, StillServes(w), UNCHANGED <<sPhases, sLimits>>
    PROVE  Contract!Next \/ UNCHANGED Contract!cvars
<1>1. CASE sServing' = sServing
  BY <1>1 DEF Contract!cvars, StillServes, sPhases, sLimits, sServing
<1>2. CASE sServing' = [sServing EXCEPT ![w] = {}]
  <2>1. sServing' = [v \in Sessions |-> IF v \in {w} THEN {} ELSE sServing[v]]
    BY <1>2 DEF sServing
  <2>2. Contract!End({w})
    BY <2>1 DEF Contract!End, StillServes, sPhases, sLimits, sServing
  <2> QED
    BY <2>2 DEF Contract!Next
<1> QED
  BY <1>1, <1>2 DEF StillServes

LEMMA SameCluster ==
    UNCHANGED <<namespaces, quotas>> => UNCHANGED <<sPhases, sLimits>>
BY DEF sPhases, sLimits

LEMMA LimitsWritten ==
    ASSUME TypeOK, NEW n \in Namespaces, NEW hard \in HardLimits,
           NEW ignore \in BOOLEAN, PutQuota(n, hard, ignore)
    PROVE  sLimits' = [sLimits EXCEPT ![n] =
                          [present |-> TRUE, hard |-> hard, ignore |-> ignore]]
<1>1. /\ quotas'[n].present = TRUE /\ quotas'[n].hard = hard
      /\ quotas'[n].ignore = ignore
      /\ \A m \in Namespaces : m # n => quotas'[m] = quotas[m]
  BY PutQuotaStep DEF TypeOK, ResourceQuota
<1> QED
  BY <1>1 DEF sLimits

LEMMA LimitsDeleted ==
    ASSUME TypeOK, NEW n \in Namespaces, quotas' = [quotas EXCEPT ![n] = AbsentQuota]
    PROVE  sLimits' = [sLimits EXCEPT ![n] = Contract!NoQuota]
<1>1. sLimits'[n] = Contract!NoQuota
  BY DEF TypeOK, sLimits, AbsentQuota, Contract!NoQuota
<1>2. \A m \in Namespaces : m # n => sLimits'[m] = sLimits[m]
  BY DEF TypeOK, sLimits
<1> QED
  BY <1>1, <1>2 DEF sLimits

(* Create opens a namespace for someone entitled to it.                    *)
LEMMA CreateNamespaceSimulation ==
    ASSUME IInv, NEW w \in Sessions, CreateNamespace(w)
    PROVE  Contract!Next \/ UNCHANGED Contract!cvars
<1> USE DEF IInv
<1>n. PICK n \in Namespaces : n = ns(w)
  BY NamespaceOfSession
<1>1. UNCHANGED quotas
  BY DEF CreateNamespace
<1>2. StillServes(w)
  <2>1. PICK o \in {AfterNamespace(w), Fail, Goto("patch")} : Answered(w, o)
    BY DEF CreateNamespace
  <2>2. o \in Outcome
    BY AfterNamespaceOutcome, OutcomeType DEF Labels, InFlight, ApiCalls
  <2> QED
    BY <2>1, <2>2, StepStillServes DEF CreateNamespace, InFlight, ApiCalls
<1>3. CASE UNCHANGED namespaces
  BY <1>1, <1>2, <1>3, SameCluster, Unnoticed
<1>4. CASE /\ namespaces[n].phase = "absent"
           /\ namespaces' = [namespaces EXCEPT ![n] =
                 [phase |-> "active", labelled |-> TRUE, attrs |-> SentAttrs(w)]]
  <2>1. PICK r \in Entitled :
           r \in Request /\ n = getNamespace(r) /\ sServing[w] = {r}
    BY <1>n DEF CreateNamespace, Entitled, OnlyEntitledInFlight, InFlight, ApiCalls,
           TypeOK, ns, sServing
  <2>2. sPhases' = [sPhases EXCEPT ![n] = "active"]
    BY <1>1, <1>4 DEF sPhases, TypeOK
  <2>3. UNCHANGED sLimits
    BY <1>1 DEF sLimits
  <2>4. Contract!OpenNamespace(w, r)
    BY <1>2, <1>4, <2>1, <2>2, <2>3
       DEF Contract!OpenNamespace, Contract!MayEnd, StillServes,
           sPhases, sLimits, sServing
  <2> QED
    BY <2>4, Zenon DEF Contract!Next
<1> QED
  BY <1>n, <1>3, <1>4 DEF CreateNamespace

(* A patch changes labels and annotations, which the contract has not.     *)
LEMMA PatchNamespaceSimulation ==
    ASSUME IInv, NEW w \in Sessions, PatchNamespace(w)
    PROVE  Contract!Next \/ UNCHANGED Contract!cvars
<1>1. \A m \in Namespaces : namespaces'[m].phase = namespaces[m].phase
  BY DEF PatchNamespace, IInv, TypeOK
<1>2. UNCHANGED <<sPhases, sLimits>>
  BY <1>1 DEF PatchNamespace, sPhases, sLimits
<1>3. StillServes(w)
  BY AfterNamespaceOutcome, OutcomeType, StepStillServes
     DEF IInv, PatchNamespace, InFlight, ApiCalls
<1> QED
  BY <1>2, <1>3, Unnoticed

(* Reading changes nothing in the cluster.                                 *)
LEMMA ReadingSimulation ==
    ASSUME IInv, NEW w \in Sessions, getNamespaceAnnotations(w) \/ GetQuota(w)
    PROVE  Contract!Next \/ UNCHANGED Contract!cvars
<1>1. CASE getNamespaceAnnotations(w)
  <2>1. Goto("create") \in Outcome
    BY OutcomeType DEF Labels, InFlight, ApiCalls
  <2>2. StillServes(w)
    BY <1>1, <2>1, StepStillServes DEF IInv, getNamespaceAnnotations, InFlight
  <2> QED
    BY <1>1, <2>2, SameCluster, Unnoticed DEF getNamespaceAnnotations
<1>2. CASE GetQuota(w)
  <2>1. StillServes(w)
    BY <1>2, AfterGetOutcome, StepStillServes DEF IInv, GetQuota, InFlight, ApiCalls
  <2> QED
    BY <1>2, <2>1, SameCluster, Unnoticed DEF GetQuota
<1> QED
  BY <1>1, <1>2

(* Update and Create enforce a quota that is not already right.            *)
LEMMA QuotaSimulation ==
    ASSUME IInv, NEW w \in Sessions, UpdateQuota(w) \/ CreateQuota(w)
    PROVE  Contract!Next \/ UNCHANGED Contract!cvars
<1> USE DEF IInv
<1>n. PICK n \in Namespaces : n = ns(w)
  BY NamespaceOfSession
<1>1. UNCHANGED namespaces
  BY DEF UpdateQuota, CreateQuota
<1>2. PICK r \in Entitled :
         /\ r \in Request /\ r = req[w] /\ Enforceable(r)
         /\ n = getNamespace(r) /\ sServing[w] = {r}
  BY <1>n DEF UpdateQuota, CreateQuota, OnlyEntitledInFlight, InFlight, ApiCalls,
              TypeOK, Entitled, ns, sServing
<1>3. Wanted(r) \in HardLimits /\ Wanted(r) # NoLimits
  BY <1>2, WantedType
<1>4. StillServes(w)
  BY OutcomeType, StepStillServes DEF UpdateQuota, CreateQuota, InFlight, ApiCalls
<1>5. CASE UNCHANGED quotas
  BY <1>1, <1>4, <1>5, SameCluster, Unnoticed
<1>6. CASE /\ PutQuota(n, Wanted(r), FALSE)
           /\ quotas[n].present \/ namespaces[n].phase = "active"
           /\ namespaces[n].phase # "absent"
           /\ quotas[n].ignore = FALSE
           /\ quotas[n].hard # Wanted(r)
  <2>1. sLimits' = [sLimits EXCEPT ![n] =
           [present |-> TRUE, hard |-> Wanted(r), ignore |-> FALSE]]
    BY <1>1, <1>3, <1>6, LimitsWritten
  <2>2. UNCHANGED sPhases
    BY <1>1 DEF sPhases
  <2>3. Contract!EnforceQuota(w, r)
    BY <1>2, <1>4, <1>6, <2>1, <2>2
       DEF Contract!EnforceQuota, Contract!MayEnd, StillServes,
           sPhases, sLimits, sServing
  <2> QED
    BY <2>3, Zenon DEF Contract!Next
<1>7. CASE UpdateQuota(w) /\ ~UNCHANGED quotas
  <2>1. /\ pc[w] = "updateQuota" /\ Unchanged(w)
        /\ PutQuota(n, Wanted(r), seen[w].ignore)
    BY <1>n, <1>2, <1>7 DEF UpdateQuota
  <2>2. /\ quotas[n] = seen[w] /\ seen[w].ignore = FALSE
        /\ seen[w].hard # Wanted(r)
    BY <1>n, <1>2, <2>1 DEF UpdateIsInformed, TypeOK, ResourceQuota
  <2>3. quotas[n].present /\ namespaces[n].phase # "absent"
    BY <1>n, <2>1 DEF Unchanged, QuotasAreHoused
  <2> QED
    BY <1>6, <2>1, <2>2, <2>3
<1>8. CASE CreateQuota(w) /\ ~UNCHANGED quotas
  <2>1. Creatable(n) /\ PutQuota(n, Wanted(r), FALSE)
    BY <1>n, <1>2, <1>8 DEF CreateQuota
  <2>2. quotas[n] = AbsentQuota
    BY <1>1, <2>1 DEF Creatable, QuotasAreHoused
  <2>3. quotas[n].ignore = FALSE /\ quotas[n].hard = NoLimits
    BY <2>2 DEF AbsentQuota
  <2> QED
    BY <1>3, <1>6, <2>1, <2>3 DEF Creatable
<1> QED
  BY <1>5, <1>7, <1>8

(* A request that is accepted is served only for an entitled user, and one *)
(* that is refused, or was, is not visible.                                *)
LEMMA AskingSimulation ==
    ASSUME IInv, NEW w \in Sessions, Send(w) \/ Resend(w)
    PROVE  Contract!Next \/ UNCHANGED Contract!cvars
<1> USE DEF IInv
<1>1. PICK r \in Request : Onboard(w, r)
  BY DEF Send, Resend, TypeOK
<1> DEFINE o == IF GroupAllowed(r) THEN Goto("annotate") ELSE Refuse
<1>2. o \in Outcome /\ o.pc = IF GroupAllowed(r) THEN "annotate" ELSE "done"
  BY OutcomeType DEF Labels, InFlight
<1>3. Proceed(w, o)
  BY <1>1 DEF Onboard
<1> HIDE DEF o
<1>4. \A v \in Sessions : pc'[v] = IF v = w THEN o.pc ELSE pc[v]
  BY <1>2, <1>3, ProceedStep
<1>5. /\ UNCHANGED <<sPhases, sLimits>>
      /\ budget'["admin"] = budget["admin"]
      /\ sServing[w] = {}
  BY <1>1, SameCluster
     DEF Send, Resend, Onboard, Spend, TypeOK, sServing, InFlight, ApiCalls
<1>6. \A v \in Sessions : req'[v] = IF v = w THEN r ELSE req[v]
  BY <1>1 DEF Onboard, TypeOK
<1>7. CASE GroupAllowed(r)
  <2>1. sServing'[w] = {r}
    BY <1>2, <1>4, <1>6, <1>7 DEF sServing, InFlight
  <2>2. \A v \in Sessions : v # w => sServing'[v] = sServing[v]
    BY <1>4, <1>6 DEF sServing
  <2>3. sServing' = [sServing EXCEPT ![w] = {r}]
    BY <2>1, <2>2 DEF sServing
  <2>4. Contract!Ask(w, r)
    BY <1>5, <2>3 DEF Contract!Ask, sPhases, sLimits, sServing
  <2> QED
    BY <1>7, <2>4 DEF Contract!Next, Entitled
<1>8. CASE ~GroupAllowed(r)
  <2>1. \A v \in Sessions : sServing'[v] = sServing[v]
    BY <1>2, <1>4, <1>5, <1>6, <1>8 DEF sServing, InFlight, ApiCalls
  <2>2. sServing' = sServing
    BY <2>1 DEF sServing
  <2> QED
    BY <1>5, <2>2 DEF Contract!cvars, sPhases, sLimits, sServing
<1> QED
  BY <1>7, <1>8

(* A lost call ends a request, and a crash all of them.                    *)
LEMMA FailureSimulation ==
    ASSUME IInv, (\E w \in Sessions : CallFails(w)) \/ CrashRestart
    PROVE  Contract!Next \/ UNCHANGED Contract!cvars
<1>1. ASSUME NEW w \in Sessions, CallFails(w)
      PROVE  Contract!Next \/ UNCHANGED Contract!cvars
  <2>1. StillServes(w)
    BY <1>1, OutcomeType, StepStillServes DEF IInv, CallFails, Answered, InFlight
  <2> QED
    BY <1>1, <2>1, SameCluster, Unnoticed DEF CallFails
<1>2. CASE CrashRestart
  <2>1. \A v \in Sessions : pc'[v] \notin InFlight
    BY <1>2 DEF CrashRestart, InFlight, ApiCalls
  <2>2. sServing' = [v \in Sessions |-> IF v \in Sessions THEN {} ELSE sServing[v]]
    BY <2>1 DEF sServing
  <2>3. UNCHANGED <<sPhases, sLimits>> /\ budget'["admin"] = budget["admin"]
    BY <1>2, SameCluster DEF CrashRestart, Spend, IInv, TypeOK
  <2>4. Contract!End(Sessions)
    BY <2>2, <2>3 DEF Contract!End, sPhases, sLimits, sServing
  <2> QED
    BY <2>4 DEF Contract!Next
<1> QED
  BY <1>1, <1>2

LEMMA EnvironmentSimulation ==
    ASSUME IInv, NEW n \in Namespaces, Environment(n)
    PROVE  Contract!Next
<1> USE DEF IInv
<1>s. UNCHANGED sServing
  BY DEF Environment, AdminWritesQuota, AdminDeletesQuota, AdminDeletesNamespace,
         FinalizeNamespace, sServing
<1>b. Spend("admin") => /\ budget["admin"] > 0
                        /\ budget'["admin"] = budget["admin"] - 1
  BY DEF Spend, TypeOK
<1>1. CASE AdminWritesQuota(n)
  <2>1. PICK hard \in HardLimits, ignore \in BOOLEAN : PutQuota(n, hard, ignore)
    BY <1>1 DEF AdminWritesQuota
  <2> DEFINE q == [present |-> TRUE, hard |-> hard, ignore |-> ignore]
  <2>2. q \in Contract!ContractQuota
    BY DEF Contract!ContractQuota
  <2>3. sLimits' = [sLimits EXCEPT ![n] = q]
    BY <2>1, LimitsWritten
  <2> HIDE DEF q
  <2>4. Contract!AdminWrites(n)
    BY <1>1, <1>s, <1>b, <2>2, <2>3
       DEF AdminWritesQuota, Contract!AdminWrites, Contract!Intervene, sLimits, sServing
  <2> QED
    BY <2>4 DEF Contract!Next
<1>2. CASE AdminDeletesQuota(n)
  <2>1. Contract!AdminDeletes(n)
    BY <1>2, <1>s, <1>b, LimitsDeleted
       DEF AdminDeletesQuota, Contract!AdminDeletes, Contract!Intervene, sLimits, sServing
  <2> QED
    BY <2>1 DEF Contract!Next
<1>3. CASE AdminDeletesNamespace(n)
  <2>1. sPhases' = [sPhases EXCEPT ![n] = "terminating"]
    BY <1>3 DEF AdminDeletesNamespace, sPhases, TypeOK, Namespace
  <2>2. Contract!Terminate(n)
    BY <1>3, <1>s, <1>b, <2>1
       DEF AdminDeletesNamespace, Contract!Terminate, Contract!Intervene, sPhases, sServing
  <2> QED
    BY <2>2 DEF Contract!Next
<1>4. CASE FinalizeNamespace(n)
  <2>1. sPhases' = [sPhases EXCEPT ![n] = "absent"]
    BY <1>4 DEF FinalizeNamespace, sPhases, TypeOK, AbsentNamespace
  <2>2. Contract!Finalize(n)
    BY <1>4, <1>s, <2>1, LimitsDeleted
       DEF FinalizeNamespace, Contract!Finalize, sPhases, sLimits, sServing
  <2> QED
    BY <2>2 DEF Contract!Next
<1> QED
  BY <1>1, <1>2, <1>3, <1>4 DEF Environment

(* Requests that race, are retried, fail half-way or are cut by a restart, *)
(* against administrators who change the same objects, are a service that  *)
(* opens a namespace or enforces a quota in one atomic step, each for the  *)
(* request of an entitled user that it is serving at the time.             *)
THEOREM Refinement == Spec => ImplementsContract
<1>1. Init => Contract!Init
  <2> SUFFICES ASSUME Init PROVE Contract!Init
    OBVIOUS
  <2>1. TypeOK
    BY InitTyped DEF TypedAndEntitled
  <2>2. sPhases \in [Namespaces -> {"absent", "active"}]
    <3>1. AbsentNamespace.phase = "absent"
          /\ [AbsentNamespace EXCEPT !.phase = "active"].phase = "active"
      BY DEF AbsentNamespace
    <3>2. ASSUME NEW n \in Namespaces
          PROVE  namespaces[n] \in
                    {AbsentNamespace, [AbsentNamespace EXCEPT !.phase = "active"]}
      BY <3>2, Zenon DEF Init
    <3>3. ASSUME NEW n \in Namespaces
          PROVE  namespaces[n].phase \in {"absent", "active"}
      BY <3>1, <3>2
    <3> QED
      BY <3>3 DEF sPhases
  <2>3. sLimits \in [Namespaces -> Contract!ContractQuota]
    BY <2>1 DEF TypeOK, ResourceQuota, sLimits, Contract!ContractQuota
  <2>4. sServing = [w \in Sessions |-> {}]
    BY DEF Init, sServing, InFlight, ApiCalls
  <2>5. budget["admin"] \in Nat
    BY <2>1 DEF TypeOK
  <2> QED
    BY <2>2, <2>3, <2>4, <2>5 DEF Init, Contract!Init, sPhases, sLimits, sServing
<1>2. IInv /\ [Next]_vars => [Contract!Next]_(Contract!cvars)
  <2> SUFFICES ASSUME IInv, [Next]_vars
               PROVE  Contract!Next \/ UNCHANGED Contract!cvars
    OBVIOUS
  <2>1. ASSUME NEW w \in Sessions, Step(w)
        PROVE  Contract!Next \/ UNCHANGED Contract!cvars
    BY <2>1, CreateNamespaceSimulation, PatchNamespaceSimulation,
       QuotaSimulation, ReadingSimulation DEF Step
  <2>2. CASE UNCHANGED vars
    <3>1. UNCHANGED sServing
      BY <2>2 DEF vars, sServing
    <3> QED
      BY <2>2, <3>1, SameCluster DEF vars, Contract!cvars, sPhases, sLimits, sServing
  <2> QED
    BY <2>1, <2>2, AskingSimulation, FailureSimulation, EnvironmentSimulation DEF Next
<1> QED
  BY Invariance, <1>1, <1>2, PTL DEF Spec, ImplementsContract, Contract!Spec

-----------------------------------------------------------------------------
(* Labels and annotations, for the configurations under which they are     *)
(* what the README promises.                                               *)

(* getNamespaceAnnotations never returns an empty map, so that a namespace *)
(* that exists is always patched.                                          *)
NeverUnannotated ==
    /\ Annotation.enabled
    /\ \/ Annotation.static = "filled"
       \/ Annotation.lastLogin
       \/ Annotation.userAttributes

(* A request past the namespace: its quota is next, or it was answered.    *)
PastNamespace(w) ==
    \/ pc[w] \in {"getQuota", "updateQuota", "createQuota"}
    \/ pc[w] = "done" /\ status[w] = 200

(* A request past the namespace has left it labelled, and one about to     *)
(* create it holds annotations: if it finds a namespace there, it patches. *)
LabelInv ==
    \A w \in Sessions :
        /\ pc[w] = "create" => ann[w] # "nil"
        /\ PastNamespace(w) => \/ namespaces[ns(w)].phase = "absent"
                               \/ namespaces[ns(w)].labelled

(* Nothing takes the labels off a namespace that stays.                    *)
LEMMA LabelsStay ==
    ASSUME IInv, [Next]_vars, NEW n \in Namespaces,
           namespaces[n].phase = "absent" \/ namespaces[n].labelled
    PROVE  namespaces'[n].phase = "absent" \/ namespaces'[n].labelled
<1> USE DEF IInv, TypeOK
<1>1. CASE UNCHANGED namespaces
  BY <1>1
<1>2. ASSUME NEW w \in Sessions, CreateNamespace(w) \/ PatchNamespace(w)
      PROVE  namespaces'[n].phase = "absent" \/ namespaces'[n].labelled
  BY <1>2, NamespaceOfSession DEF CreateNamespace, PatchNamespace
<1>3. ASSUME NEW m \in Namespaces,
             AdminDeletesNamespace(m) \/ FinalizeNamespace(m)
      PROVE  namespaces'[n].phase = "absent" \/ namespaces'[n].labelled
  BY <1>3 DEF AdminDeletesNamespace, FinalizeNamespace, Namespace, AbsentNamespace
<1> QED
  BY <1>1, <1>2, <1>3
     DEF Next, Step, Send, Resend, Onboard, getNamespaceAnnotations, GetQuota,
         UpdateQuota, CreateQuota, CallFails, CrashRestart, Environment,
         AdminWritesQuota, AdminDeletesQuota, vars

(* A session gets past the namespace by creating it or patching it.        *)
LEMMA LabelStep ==
    ASSUME NeverUnannotated, IInv, LabelInv, NEW w \in Sessions, Acts(w),
           Send(w) \/ Resend(w) \/ Step(w) \/ CallFails(w)
    PROVE  /\ pc'[w] = "create" => ann'[w] # "nil"
           /\ PastNamespace(w)' => \/ PastNamespace(w) /\ UNCHANGED req
                                   \/ /\ UNCHANGED req
                                      /\ namespaces'[ns(w)].labelled
<1> USE DEF IInv
<1>1. ASSUME NEW o \in {Goto("annotate"), Refuse, Fail}, Proceed(w, o)
      PROVE  pc'[w] # "create" /\ ~PastNamespace(w)'
  BY <1>1, ProceedStep, OutcomeType, Answers
     DEF PastNamespace, Labels, InFlight, ApiCalls
<1>2. CASE Send(w) \/ Resend(w) \/ CallFails(w)
  BY <1>1, <1>2 DEF Send, Resend, Onboard, CallFails
<1>3. CASE getNamespaceAnnotations(w)
  <2>1. ann'[w] # "nil"
    BY <1>3 DEF getNamespaceAnnotations, NeverUnannotated, TypeOK
  <2>2. ~PastNamespace(w)'
    BY <1>3, ProceedStep, OutcomeType
       DEF getNamespaceAnnotations, PastNamespace, Labels, InFlight, ApiCalls
  <2> QED
    BY <2>1, <2>2
<1>4. CASE CreateNamespace(w)
  <2>1. UNCHANGED req /\ pc[w] = "create" /\ pc'[w] # "create" /\ ns(w) \in Namespaces
    BY <1>4, NamespaceOfSession DEF CreateNamespace, Acts
  <2>2. ~NoAnnotations(w)
    BY <2>1 DEF LabelInv, NoAnnotations, NeverUnannotated
  <2>3. CASE namespaces[ns(w)].phase = "absent"
    <3>1. namespaces'[ns(w)].labelled
      BY <1>4, <2>1, <2>3 DEF CreateNamespace, TypeOK
    <3> QED
      BY <2>1, <3>1
  <2>4. CASE namespaces[ns(w)].phase # "absent"
    <3>1. \E o \in {Goto("patch"), Fail} : Proceed(w, o)
      BY <1>4, <2>2, <2>4 DEF CreateNamespace, Answered
    <3>2. ~PastNamespace(w)'
      BY <3>1, ProceedStep, OutcomeType, Answers
         DEF PastNamespace, Labels, InFlight, ApiCalls
    <3> QED
      BY <2>1, <3>2
  <2> QED
    BY <2>3, <2>4
<1>5. CASE PatchNamespace(w)
  <2>1. UNCHANGED req /\ pc[w] = "patch" /\ ns(w) \in Namespaces
    BY <1>5, NamespaceOfSession DEF PatchNamespace
  <2>2. pc'[w] # "create"
    <3>1. \E o \in {AfterNamespace(w), Fail} : Proceed(w, o)
      BY <1>5 DEF PatchNamespace, Answered
    <3> QED
      BY <3>1, ProceedStep, AfterNamespaceOutcome, OutcomeType
  <2>3. CASE Proceed(w, Fail)
    BY <1>1, <2>2, <2>3
  <2>4. CASE ~Proceed(w, Fail)
    BY <1>5, <2>1, <2>2, <2>4 DEF PatchNamespace, TypeOK
  <2> QED
    BY <2>3, <2>4
<1>6. CASE GetQuota(w) \/ UpdateQuota(w) \/ CreateQuota(w)
  <2>1. UNCHANGED req /\ PastNamespace(w)
    BY <1>6 DEF GetQuota, UpdateQuota, CreateQuota, PastNamespace
  <2>2. \E o \in {AfterGet(w, quotas[ns(w)]), Succeed, Fail} : Proceed(w, o)
    BY <1>6 DEF GetQuota, UpdateQuota, CreateQuota, Answered
  <2>3. pc'[w] # "create"
    <3>1. /\ AfterGet(w, quotas[ns(w)]) \in Outcome
          /\ AfterGet(w, quotas[ns(w)]).pc # "create"
      BY AfterGetOutcome
    <3> QED
      BY <2>2, <3>1, ProceedStep, OutcomeType
  <2> QED
    BY <2>1, <2>3
<1> QED
  BY <1>2, <1>3, <1>4, <1>5, <1>6 DEF Step

LEMMA NextLabelled ==
    ASSUME NeverUnannotated
    PROVE  IInv /\ LabelInv /\ [Next]_vars => LabelInv'
<1> SUFFICES ASSUME IInv, LabelInv, [Next]_vars, NEW w \in Sessions
             PROVE  /\ pc'[w] = "create" => ann'[w] # "nil"
                    /\ PastNamespace(w)' => \/ namespaces'[ns(w)'].phase = "absent"
                                            \/ namespaces'[ns(w)'].labelled
  BY DEF LabelInv
<1> USE DEF IInv
<1>1. ASSUME UNCHANGED req, PastNamespace(w)
      PROVE  \/ namespaces'[ns(w)'].phase = "absent"
             \/ namespaces'[ns(w)'].labelled
  <2>1. PICK n \in Namespaces : n = ns(w) /\ n = ns(w)'
    BY <1>1, NamespaceOfSession DEF ns
  <2> QED
    BY <1>1, <2>1, LabelsStay DEF LabelInv
<1>2. CASE Acts(w) /\ (Send(w) \/ Resend(w) \/ Step(w) \/ CallFails(w))
  BY <1>1, <1>2, LabelStep DEF ns
<1>3. ASSUME NEW v \in Sessions, v # w, Send(v) \/ Resend(v) \/ Step(v) \/ CallFails(v)
      PROVE  /\ pc'[w] = pc[w] /\ status'[w] = status[w]
             /\ req'[w] = req[w] /\ ann'[w] = ann[w]
  <2>1. PICK o \in Outcome : Proceed(v, o)
    BY <1>3, SessionStep
  <2>2. pc'[w] = pc[w] /\ status'[w] = status[w]
    BY <1>3, <2>1, ProceedStep
  <2>3. req'[w] = req[w] /\ ann'[w] = ann[w]
    BY <1>3 DEF Send, Resend, Onboard, Step, getNamespaceAnnotations, CreateNamespace,
                PatchNamespace, GetQuota, UpdateQuota, CreateQuota, CallFails, TypeOK
  <2> QED
    BY <2>2, <2>3
<1>4. ASSUME pc'[w] = pc[w], status'[w] = status[w], req'[w] = req[w], ann'[w] = ann[w]
      PROVE  /\ pc'[w] = "create" => ann'[w] # "nil"
             /\ PastNamespace(w)' => \/ namespaces'[ns(w)'].phase = "absent"
                                     \/ namespaces'[ns(w)'].labelled
  <2>1. PICK n \in Namespaces : n = ns(w) /\ n = ns(w)'
    BY <1>4, NamespaceOfSession DEF ns
  <2>2. PastNamespace(w)' => PastNamespace(w)
    BY <1>4 DEF PastNamespace
  <2> QED
    BY <1>4, <2>1, <2>2, LabelsStay DEF LabelInv
<1>5. CASE CrashRestart
  <2>1. PastNamespace(w)' => PastNamespace(w)
    BY <1>5 DEF CrashRestart, PastNamespace, InFlight, ApiCalls, TypeOK,
                UnansweredInFlight, NoStatus
  <2>2. pc'[w] # "create"
    BY <1>5 DEF CrashRestart, InFlight, ApiCalls
  <2> QED
    BY <1>1, <1>5, <2>1, <2>2 DEF CrashRestart
<1>6. ASSUME NEW n \in Namespaces, Environment(n)
      PROVE  UNCHANGED <<pc, status, req, ann>>
  BY <1>6 DEF Environment, AdminWritesQuota, AdminDeletesQuota,
              AdminDeletesNamespace, FinalizeNamespace
<1>7. CASE ~Acts(w) /\ (Send(w) \/ Resend(w) \/ Step(w) \/ CallFails(w))
  <2>1. ~getNamespaceAnnotations(w) /\ ~Step(w) /\ ~CallFails(w)
    <3>1. ~getNamespaceAnnotations(w) /\ ~CallFails(w)
      BY <1>7, ProceedStep, OutcomeType
         DEF getNamespaceAnnotations, CallFails, Acts, Labels, InFlight, ApiCalls
    <3>2. ASSUME NEW o \in Outcome, Proceed(w, o)
          PROVE  pc[w] = o.pc
      BY <1>7, <3>2, ProceedStep DEF Acts
    <3>3. ~CreateNamespace(w) /\ ~PatchNamespace(w)
      BY <3>2, AfterNamespaceOutcome, OutcomeType
         DEF CreateNamespace, PatchNamespace, Answered, Labels, InFlight, ApiCalls
    <3>4. ~GetQuota(w)
      <4>1. /\ AfterGet(w, quotas[ns(w)]) \in Outcome
            /\ AfterGet(w, quotas[ns(w)]).pc # "getQuota"
        BY AfterGetOutcome
      <4> QED
        BY <3>2, <4>1, OutcomeType DEF GetQuota, Answered
    <3>5. ~UpdateQuota(w) /\ ~CreateQuota(w)
      BY <3>2, OutcomeType DEF UpdateQuota, CreateQuota, Answered
    <3> QED
      BY <3>1, <3>3, <3>4, <3>5 DEF Step
  <2>2. PICK r \in Request : Onboard(w, r)
    BY <1>7, <2>1 DEF Send, Resend, TypeOK
  <2>3. pc'[w] # "create" /\ ~PastNamespace(w)'
    <3>1. \E o \in {Goto("annotate"), Refuse} : Proceed(w, o)
      BY <2>2 DEF Onboard
    <3> QED
      BY <3>1, ProceedStep, OutcomeType, Answers
         DEF PastNamespace, Labels, InFlight, ApiCalls
  <2> QED
    BY <2>3
<1> QED
  BY <1>2, <1>3, <1>4, <1>5, <1>6, <1>7 DEF Next, vars

(* README, namespaceLabels, "at creation and subsequent user logins": with *)
(* some annotation configured, a namespace whose user was answered 200     *)
(* carries the configured labels, whoever created it.  Without annotations *)
(* CreateNamespace returns before the patch, and the run onboarding_labels *)
(* shows a namespace that is never labelled.                               *)
THEOREM LabelledWhenAnnotated ==
    ASSUME NeverUnannotated
    PROVE  Spec => []LabelledAfterLogin
<1>1. Init => LabelInv
  BY DEF Init, LabelInv, PastNamespace
<1>2. IInv /\ LabelInv /\ [Next]_vars => LabelInv'
  BY NextLabelled
<1>3. LabelInv => LabelledAfterLogin
  BY DEF LabelInv, PastNamespace, LabelledAfterLogin
<1> QED
  BY <1>1, <1>2, <1>3, Invariance, PTL DEF Spec

(* The annotation map a request sends is not written by another one: it    *)
(* holds no attribute of a user, or it is not the configuration's own map. *)
OwnAnnotations ==
    \/ ~Annotation.enabled
    \/ ~Annotation.userAttributes
    \/ Annotation.static = "nil"

AttributesInv ==
    /\ AttributesOfEntitledUser
    /\ \A w \in Sessions :
          ann[w] = "static" => Annotation.enabled /\ Annotation.static # "nil"

(* What an entitled request serialises is its own user's, or nobody's.     *)
LEMMA SentAttrsAreOwn ==
    ASSUME OwnAnnotations, IInv, AttributesInv, NEW w \in Sessions, pc[w] \in InFlight
    PROVE  \/ SentAttrs(w) = NoUser
           \/ \E r \in Request : /\ r.user = SentAttrs(w)
                                 /\ getNamespace(r) = ns(w)
                                 /\ GroupAllowed(r)
<1>1. SentAttrs(w) \in {NoUser, user(w)}
  BY DEF SentAttrs, OwnAnnotations, AttributesInv, IInv, TypeOK
<1>2. req[w] \in Request /\ GroupAllowed(req[w])
  BY DEF IInv, TypeOK, OnlyEntitledInFlight
<1> QED
  BY <1>1, <1>2 DEF user, ns

LEMMA NextAttributes ==
    ASSUME OwnAnnotations
    PROVE  IInv /\ AttributesInv /\ [Next]_vars => AttributesInv'
<1> SUFFICES ASSUME IInv, AttributesInv, [Next]_vars PROVE AttributesInv'
  OBVIOUS
<1> USE DEF IInv
<1>1. ASSUME NEW w \in Sessions, ann'[w] = "static"
      PROVE  Annotation.enabled /\ Annotation.static # "nil"
  <2>1. CASE UNCHANGED ann
    BY <1>1, <2>1 DEF AttributesInv
  <2>2. ASSUME NEW v \in Sessions, NEW r, Onboard(v, r)
        PROVE  Annotation.enabled /\ Annotation.static # "nil"
    BY <1>1, <2>2 DEF Onboard, AttributesInv, TypeOK
  <2>3. ASSUME NEW v \in Sessions, getNamespaceAnnotations(v)
        PROVE  Annotation.enabled /\ Annotation.static # "nil"
    BY <1>1, <2>3 DEF getNamespaceAnnotations, AttributesInv, TypeOK
  <2> QED
    BY <2>1, <2>2, <2>3
       DEF Next, Send, Resend, Step, CreateNamespace, PatchNamespace, GetQuota,
           UpdateQuota, CreateQuota, CallFails, CrashRestart, Environment,
           AdminWritesQuota, AdminDeletesQuota, AdminDeletesNamespace,
           FinalizeNamespace, vars
<1>2. ASSUME NEW n \in Namespaces
      PROVE  \/ namespaces'[n].attrs = NoUser
             \/ \E r \in Request : /\ r.user = namespaces'[n].attrs
                                   /\ getNamespace(r) = n
                                   /\ GroupAllowed(r)
  <2>1. CASE namespaces'[n].attrs \in {namespaces[n].attrs, NoUser}
    BY <2>1 DEF AttributesInv, AttributesOfEntitledUser
  <2>2. ASSUME NEW w \in Sessions, CreateNamespace(w) \/ PatchNamespace(w)
        PROVE  \/ namespaces'[n].attrs \in {namespaces[n].attrs, NoUser}
               \/ /\ n = ns(w) /\ pc[w] \in InFlight
                  /\ namespaces'[n].attrs = SentAttrs(w)
    BY <2>2, NamespaceOfSession
       DEF CreateNamespace, PatchNamespace, TypeOK, InFlight, ApiCalls
  <2>3. ASSUME NEW m \in Namespaces,
               AdminDeletesNamespace(m) \/ FinalizeNamespace(m)
        PROVE  namespaces'[n].attrs \in {namespaces[n].attrs, NoUser}
    <3>1. namespaces \in [Namespaces -> Namespace]
      BY DEF TypeOK
    <3>2. CASE AdminDeletesNamespace(m)
      <4>1. namespaces'[n] \in {namespaces[n], [namespaces[n] EXCEPT !.phase = "terminating"]}
        BY <3>1, <3>2 DEF AdminDeletesNamespace
      <4> QED BY <3>1, <4>1 DEF Namespace
    <3>3. CASE FinalizeNamespace(m)
      <4>1. namespaces'[n] \in {namespaces[n], AbsentNamespace}
        BY <3>1, <3>3 DEF FinalizeNamespace
      <4> QED BY <4>1 DEF AbsentNamespace
    <3> QED BY <2>3, <3>2, <3>3
  <2>4. CASE UNCHANGED namespaces
    BY <2>1, <2>4
  <2> QED
    BY <2>1, <2>2, <2>3, <2>4, SentAttrsAreOwn
       DEF Next, Send, Resend, Onboard, Step, getNamespaceAnnotations, GetQuota,
           UpdateQuota, CreateQuota, CallFails, CrashRestart, Environment,
           AdminWritesQuota, AdminDeletesQuota, vars
<1> QED
  BY <1>1, <1>2 DEF AttributesInv, AttributesOfEntitledUser

(* The attributes written on a namespace are those of a user entitled to   *)
(* it, however the requests interleave, when none of them writes in the    *)
(* configuration's Static map.  When they do, the run onboarding_shared_map*)
(* finds a namespace with the attributes of someone else.                  *)
THEOREM AttributesAreOfEntitledUser ==
    ASSUME OwnAnnotations
    PROVE  Spec => []AttributesOfEntitledUser
<1>1. Init => AttributesInv
  <2> SUFFICES ASSUME Init PROVE AttributesInv
    OBVIOUS
  <2>1. AbsentNamespace.attrs = NoUser
        /\ [AbsentNamespace EXCEPT !.phase = "active"].attrs = NoUser
    BY DEF AbsentNamespace
  <2>2. ASSUME NEW n \in Namespaces
        PROVE  namespaces[n] \in
                  {AbsentNamespace, [AbsentNamespace EXCEPT !.phase = "active"]}
    BY <2>2, Zenon DEF Init
  <2>3. ASSUME NEW n \in Namespaces
        PROVE  namespaces[n].attrs = NoUser
    BY <2>1, <2>2
  <2> QED
    BY <2>3 DEF Init, AttributesInv, AttributesOfEntitledUser
<1>2. IInv /\ AttributesInv /\ [Next]_vars => AttributesInv'
  BY NextAttributes
<1>3. AttributesInv => AttributesOfEntitledUser
  BY DEF AttributesInv
<1> QED
  BY <1>1, <1>2, <1>3, Invariance, PTL DEF Spec

-----------------------------------------------------------------------------
(* What is left to do for a request: none of its calls to the API server is*)
(* made twice, and Update and Create exclude each other.                   *)
LeftAt(label) ==
    CASE label = "annotate" -> 5
      [] label = "create" -> 4
      [] label = "patch" -> 3
      [] label = "getQuota" -> 2
      [] label \in {"updateQuota", "createQuota"} -> 1
      [] OTHER -> 0

StepsLeft(w) == LeftAt(pc[w])
Works(w) == Step(w) \/ CallFails(w)

(* A request is one step of the use case and four calls to the API server  *)
(* at most: each step, also a call that fails, leaves fewer, and nothing   *)
(* that others do to its namespace and its quota leaves it more.           *)
StepsRunOut ==
    [][\A w \in Sessions :
          /\ Works(w) => StepsLeft(w)' < StepsLeft(w)
          /\ pc[w] \in InFlight => StepsLeft(w)' <= StepsLeft(w)]_vars

LEMMA LeftAtType ==
    ASSUME NEW label
    PROVE  /\ LeftAt(label) \in 0 .. 5
           /\ label \in InFlight => LeftAt(label) > 0
           /\ label = "done" => LeftAt(label) = 0
<1>1. CASE label \in InFlight
  BY <1>1 DEF LeftAt, InFlight, ApiCalls
<1>2. CASE label \notin InFlight
  BY <1>2 DEF LeftAt, InFlight, ApiCalls
<1> QED BY <1>1, <1>2

LEMMA OwnStepsLeft ==
    ASSUME TypeOK, NEW w \in Sessions, Works(w)
    PROVE  StepsLeft(w)' < StepsLeft(w) /\ \A v \in Sessions : v # w => pc'[v] = pc[v]
<1>1. ASSUME NEW o \in Outcome, Proceed(w, o) \/ Answered(w, o),
             pc[w] \in InFlight, LeftAt(o.pc) < LeftAt(pc[w])
      PROVE  StepsLeft(w)' < StepsLeft(w) /\ \A v \in Sessions : v # w => pc'[v] = pc[v]
  <2>1. pc'[w] \in {o.pc, "done"} /\ \A v \in Sessions : v # w => pc'[v] = pc[v]
    BY <1>1, ProceedStep, AnsweredStep
  <2>2. LeftAt("done") < LeftAt(pc[w])
    BY <1>1, LeftAtType
  <2>3. LeftAt(pc'[w]) < LeftAt(pc[w])
    BY <1>1, <2>1, <2>2
  <2> QED BY <2>1, <2>3 DEF StepsLeft
<1>2. /\ LeftAt("done") = 0 /\ LeftAt("createQuota") = 1 /\ LeftAt("updateQuota") = 1
      /\ LeftAt("getQuota") = 2 /\ LeftAt("patch") = 3 /\ LeftAt("create") = 4
      /\ LeftAt("annotate") = 5
  BY DEF LeftAt
<1>3. CASE getNamespaceAnnotations(w)
  <2>1. pc[w] = "annotate" /\ Proceed(w, Goto("create"))
    BY <1>3 DEF getNamespaceAnnotations
  <2>2. Goto("create") \in Outcome /\ Goto("create").pc = "create"
    BY OutcomeType DEF Labels, InFlight, ApiCalls
  <2>3. LeftAt(Goto("create").pc) < LeftAt(pc[w])
    BY <1>2, <2>1, <2>2
  <2> QED BY <1>1, <2>1, <2>2, <2>3 DEF InFlight
<1>n. /\ AfterNamespace(w) \in Outcome
      /\ LeftAt(AfterNamespace(w).pc) \in {0, 2}
  <2>1. /\ AfterNamespace(w) \in Outcome
        /\ AfterNamespace(w).pc = "done" \/ AfterNamespace(w).pc = "getQuota"
    BY AfterNamespaceOutcome
  <2> QED BY <1>2, <2>1
<1>4. CASE CreateNamespace(w)
  <2>1. pc[w] = "create" /\ pc[w] \in InFlight /\ LeftAt(pc[w]) = 4
    BY <1>2, <1>4 DEF CreateNamespace, InFlight, ApiCalls
  <2>2. CASE Answered(w, AfterNamespace(w))
    <3>1. LeftAt(AfterNamespace(w).pc) < LeftAt(pc[w])
      BY <1>n, <2>1
    <3> QED BY <1>1, <1>n, <2>1, <2>2, <3>1
  <2>3. CASE Answered(w, Goto("patch"))
    <3>1. Goto("patch") \in Outcome /\ Goto("patch").pc = "patch"
      BY OutcomeType DEF Labels, InFlight, ApiCalls
    <3>2. LeftAt(Goto("patch").pc) < LeftAt(pc[w])
      BY <1>2, <2>1, <3>1
    <3> QED BY <1>1, <2>1, <2>3, <3>1, <3>2
  <2> QED BY <1>4, <2>2, <2>3 DEF CreateNamespace
<1>5. CASE PatchNamespace(w)
  <2>1. pc[w] = "patch" /\ pc[w] \in InFlight /\ LeftAt(pc[w]) = 3
    BY <1>2, <1>5 DEF PatchNamespace, InFlight, ApiCalls
  <2>2. LeftAt(AfterNamespace(w).pc) < LeftAt(pc[w]) /\ LeftAt(Fail.pc) < LeftAt(pc[w])
    BY <1>2, <1>n, <2>1, OutcomeType
  <2> QED BY <1>1, <1>5, <1>n, <2>1, <2>2, OutcomeType DEF PatchNamespace
<1>6. CASE GetQuota(w)
  <2>1. pc[w] = "getQuota" /\ pc[w] \in InFlight /\ LeftAt(pc[w]) = 2
    BY <1>2, <1>6 DEF GetQuota, InFlight, ApiCalls
  <2> DEFINE o == AfterGet(w, quotas[ns(w)])
  <2>2. o \in Outcome /\ (o.pc = "done" \/ o.pc = "createQuota" \/ o.pc = "updateQuota")
    BY AfterGetOutcome
  <2>3. LeftAt(o.pc) < LeftAt(pc[w])
    BY <1>2, <2>1, <2>2
  <2>4. Answered(w, o)
    BY <1>6 DEF GetQuota
  <2> QED BY <1>1, <2>1, <2>2, <2>3, <2>4
<1>7. CASE UpdateQuota(w) \/ CreateQuota(w)
  <2>1. /\ pc[w] = "updateQuota" \/ pc[w] = "createQuota"
        /\ pc[w] \in InFlight
    BY <1>7 DEF UpdateQuota, CreateQuota, InFlight, ApiCalls
  <2>2. LeftAt(Succeed.pc) < LeftAt(pc[w]) /\ LeftAt(Fail.pc) < LeftAt(pc[w])
    BY <1>2, <2>1, OutcomeType
  <2>3. Answered(w, Succeed) \/ Proceed(w, Fail)
    BY <1>7 DEF UpdateQuota, CreateQuota
  <2> QED BY <1>1, <2>1, <2>2, <2>3, OutcomeType
<1>8. CASE CallFails(w)
  <2>1. pc[w] \in InFlight /\ Proceed(w, Fail)
    BY <1>8 DEF CallFails, InFlight
  <2>2. LeftAt(Fail.pc) < LeftAt(pc[w])
    BY <2>1, LeftAtType, OutcomeType
  <2> QED BY <1>1, <2>1, <2>2, OutcomeType
<1> QED BY <1>3, <1>4, <1>5, <1>6, <1>7, <1>8 DEF Works, Step

(* An onboarding request makes a bounded number of calls, whatever other   *)
(* requests, administrators and the namespace controller do meanwhile: the *)
(* half of its end that owes nothing to the scheduler (Onboard).           *)
THEOREM RequestsAreBounded == Spec => StepsRunOut
<1> DEFINE RunOut == \A w \in Sessions :
        /\ Works(w) => StepsLeft(w)' < StepsLeft(w)
        /\ pc[w] \in InFlight => StepsLeft(w)' <= StepsLeft(w)
<1>1. IInv /\ [Next]_vars => [RunOut]_vars
  <2> SUFFICES ASSUME IInv, Next, NEW w \in Sessions
               PROVE  /\ Works(w) => StepsLeft(w)' < StepsLeft(w)
                      /\ pc[w] \in InFlight => StepsLeft(w)' <= StepsLeft(w)
    OBVIOUS
  <2>t. TypeOK /\ pc \in [Sessions -> Labels]
    BY DEF IInv, TypedAndEntitled, TypeOK, Labels
  <2>i. StepsLeft(w) \in Nat /\ StepsLeft(w)' \in Nat
    <3>1. LeftAt(pc[w]) \in 0 .. 5 /\ LeftAt(pc'[w]) \in 0 .. 5
      BY LeftAtType
    <3> QED BY <3>1 DEF StepsLeft
  <2>1. Works(w) => StepsLeft(w)' < StepsLeft(w)
    BY <2>t, OwnStepsLeft
  <2>2. ASSUME pc'[w] = pc[w] PROVE StepsLeft(w)' = StepsLeft(w)
    BY <2>2 DEF StepsLeft
  <2>3. ASSUME NEW v \in Sessions, Works(v) PROVE StepsLeft(w)' <= StepsLeft(w)
    <3>1. CASE v = w
      BY <2>1, <2>3, <2>i, <3>1
    <3>2. CASE v # w
      BY <2>2, <2>3, <2>i, <2>t, <3>2, OwnStepsLeft
    <3> QED BY <3>1, <3>2
  <2>4. ASSUME NEW v \in Sessions, Send(v) \/ Resend(v), pc[w] \in InFlight
        PROVE  pc'[w] = pc[w]
    <3>1. v # w
      BY <2>4 DEF Send, Resend, InFlight, ApiCalls
    <3>2. \E label : pc' = [pc EXCEPT ![v] = label]
      BY <2>4 DEF Send, Resend, Onboard, Proceed
    <3> QED BY <2>t, <3>1, <3>2
  <2>5. CASE CrashRestart
    <3>1. pc'[w] = pc[w] \/ pc'[w] = "done"
      BY <2>5 DEF CrashRestart
    <3>2. StepsLeft(w)' = StepsLeft(w) \/ StepsLeft(w)' = 0
      BY <3>1, LeftAtType DEF StepsLeft
    <3> QED BY <2>1, <2>i, <3>2
  <2>6. ASSUME NEW n \in Namespaces, Environment(n) PROVE pc' = pc
    BY <2>6 DEF Environment, AdminWritesQuota, AdminDeletesQuota, AdminDeletesNamespace,
                FinalizeNamespace
  <2> QED BY <2>1, <2>2, <2>3, <2>4, <2>5, <2>6, <2>i DEF Next, Works
<1> QED BY Invariance, <1>1, PTL DEF Spec, StepsRunOut
=============================================================================
