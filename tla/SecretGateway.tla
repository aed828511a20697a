--------------------------- MODULE SecretGateway ----------------------------
(***************************************************************************)
(* K8sOnyxiaSecretGateway (services/adapters/k8s): the secret that         *)
(* describes each release, written by callers at any time through an API   *)
(* server that refuses an Update of an object that has changed.            *)
(***************************************************************************)
EXTENDS Naturals

CONSTANTS
    Callers,            \* goroutines
    Names,              \* secrets, in their namespace
    Data, NoData,       \* what Ensure writes
    Metas, NoMeta,      \* labels and annotations put on a secret by others
    Steps,              \* retry.DefaultRetry.Steps
    MaxCalls, MaxFaults, MaxCrashes, MaxAdmin   \* bounds

ASSUME DataAssumption == NoData \notin Data /\ NoMeta \notin Metas
ASSUME NamesAssumption == Names # {}
ASSUME StepsAssumption == Steps \in Nat \ {0}
ASSUME BoundsAssumption == {MaxCalls, MaxFaults, MaxCrashes, MaxAdmin} \subseteq Nat

Operation ==
       [op: {"ensure"}, name: Names, data: Data]
  \cup [op: {"delete"}, name: Names, data: {NoData}]

Secret == [data: Data \cup {NoData}, meta: Metas \cup {NoMeta}, rv: Nat]
AbsentSecret == [data |-> NoData, meta |-> NoMeta, rv |-> 0]

VARIABLES
    secrets,    \* per name: the Secret, with NoData when there is none
    revision,   \* resourceVersion of the last write
    pc,         \* per caller: the API call it makes next
    op,         \* per caller: what it was asked
    cur,        \* per caller: what its Get returned
    attempts,   \* per caller: attempts of RetryOnConflict left
    result,     \* per caller: how its last operation ended
    disturbed,  \* history: callers whose secret others wrote, or a fault met
    budget      \* what may still happen

vars == <<secrets, revision, pc, op, cur, attempts, result, disturbed, budget>>

InFlight == {"create", "get", "update", "recreate", "delete"}

name(c) == op[c].name
exists(n) == secrets[n].data # NoData

Spend(what) == budget[what] > 0 /\ budget' = [budget EXCEPT ![what] = @ - 1]

(* Others at work on the same secret.                                      *)
Rivals(n) == {c \in Callers : pc[c] \in InFlight /\ name(c) = n}

-----------------------------------------------------------------------------
(* The API server.                                                         *)

Write(n, data, meta) ==
    /\ revision' = revision + 1
    /\ secrets' = [secrets EXCEPT ![n] = [data |-> data, meta |-> meta, rv |-> revision']]

Remove(n) ==
    /\ secrets' = [secrets EXCEPT ![n] = AbsentSecret]
    /\ UNCHANGED revision

Goto(c, label) ==
    /\ pc' = [pc EXCEPT ![c] = label]
    /\ UNCHANGED <<result>>

Return(c, r) ==
    /\ pc' = [pc EXCEPT ![c] = "idle"]
    /\ result' = [result EXCEPT ![c] = r]

(* A call that did its work is answered, or its answer is lost.            *)
Written(c) ==
    \/ /\ Return(c, "ok")
       /\ disturbed' = disturbed \cup (Rivals(name(c)) \ {c})
       /\ UNCHANGED budget
    \/ /\ Return(c, "failed")
       /\ Spend("faults")
       /\ disturbed' = disturbed \cup Rivals(name(c)) \cup {c}

Unwritten == UNCHANGED <<secrets, revision, disturbed, budget>>

-----------------------------------------------------------------------------
(* EnsureOnyxiaSecret and DeleteOnyxiaSecret.                              *)

Call(c, o) ==
    /\ pc[c] = "idle"
    /\ Spend("calls")
    /\ op' = [op EXCEPT ![c] = o]
    /\ pc' = [pc EXCEPT ![c] = IF o.op = "ensure" THEN "create" ELSE "delete"]
    /\ result' = [result EXCEPT ![c] = "none"]
    /\ attempts' = [attempts EXCEPT ![c] = Steps]
    /\ disturbed' = disturbed \ {c}
    /\ UNCHANGED <<secrets, revision, cur>>

Create(c) ==
    /\ pc[c] = "create"
    /\ \/ /\ ~exists(name(c))
          /\ Write(name(c), op[c].data, NoMeta)
          /\ Written(c)
       \/ /\ exists(name(c))
          /\ Goto(c, "get")
          /\ Unwritten
    /\ UNCHANGED <<op, cur, attempts>>

Get(c) ==
    /\ pc[c] = "get"
    /\ cur' = [cur EXCEPT ![c] = secrets[name(c)]]
    /\ Goto(c, IF exists(name(c)) THEN "update" ELSE "recreate")
    /\ Unwritten
    /\ UNCHANGED <<op, attempts>>

(* The API server has the object cur was read from.                        *)
Unchanged(c) == exists(name(c)) /\ secrets[name(c)].rv = cur[c].rv

(* Mutant: Update sends a new object, which has no resourceVersion.        *)
UpdateUnversioned(c) ==
    /\ pc[c] = "update"
    /\ \/ /\ exists(name(c))
          /\ Write(name(c), op[c].data, cur[c].meta)
          /\ Written(c)
       \/ /\ ~exists(name(c))
          /\ Return(c, "failed")
          /\ Unwritten
    /\ UNCHANGED <<op, cur, attempts>>

(* Mutant: a refused Update is sent again as it is.                        *)
UpdateForEver(c) ==
    /\ pc[c] = "update"
    /\ \/ /\ Unchanged(c)
          /\ Write(name(c), op[c].data, cur[c].meta)
          /\ Written(c)
       \/ /\ ~Unchanged(c)
          /\ Goto(c, "update")
          /\ Unwritten
    /\ UNCHANGED <<op, cur, attempts>>

(* Mutant: an Update that was refused is taken for done.                   *)
UpdateTakenForDone(c) ==
    /\ pc[c] = "update"
    /\ \/ /\ Unchanged(c)
          /\ Write(name(c), op[c].data, cur[c].meta)
          /\ Written(c)
       \/ /\ ~Unchanged(c)
          /\ Return(c, "ok")
          /\ Unwritten
    /\ UNCHANGED <<op, cur, attempts>>

(* Mutant: one attempt too many.                                           *)
UpdateOnceMore(c) ==
    /\ pc[c] = "update"
    /\ \/ /\ Unchanged(c)
          /\ Write(name(c), op[c].data, cur[c].meta)
          /\ Written(c)
          /\ UNCHANGED attempts
       \/ /\ ~Unchanged(c) /\ attempts[c] > 0
          /\ attempts' = [attempts EXCEPT ![c] = @ - 1]
          /\ Goto(c, "get")
          /\ Unwritten
    /\ UNCHANGED <<op, cur>>

(* RetryOnConflict: a Conflict is tried again from Get while attempts are  *)
(* left; that the secret is gone is an error.                              *)
Update(c) ==
    /\ pc[c] = "update"
    /\ \/ /\ Unchanged(c)
          /\ Write(name(c), op[c].data, cur[c].meta)
          /\ Written(c)
          /\ UNCHANGED attempts
       \/ /\ exists(name(c)) /\ ~Unchanged(c) /\ attempts[c] > 1
          /\ attempts' = [attempts EXCEPT ![c] = @ - 1]
          /\ Goto(c, "get")
          /\ Unwritten
       \/ /\ ~exists(name(c)) \/ (~Unchanged(c) /\ attempts[c] = 1)
          /\ Return(c, "failed")
          /\ Unwritten
          /\ UNCHANGED attempts
    /\ UNCHANGED <<op, cur>>

(* Create within RetryOnConflict: AlreadyExists is not a Conflict.         *)
Recreate(c) ==
    /\ pc[c] = "recreate"
    /\ \/ /\ ~exists(name(c))
          /\ Write(name(c), op[c].data, NoMeta)
          /\ Written(c)
       \/ /\ exists(name(c))
          /\ Return(c, "failed")
          /\ Unwritten
    /\ UNCHANGED <<op, cur, attempts>>

(* Mutant: NotFound is an error.                                           *)
DeleteOnyxiaSecretStrict(c) ==
    /\ pc[c] = "delete"
    /\ \/ /\ exists(name(c))
          /\ Remove(name(c))
          /\ Written(c)
       \/ /\ ~exists(name(c))
          /\ Return(c, "failed")
          /\ Unwritten
    /\ UNCHANGED <<op, cur, attempts>>

DeleteOnyxiaSecret(c) ==
    /\ pc[c] = "delete"
    /\ \/ /\ exists(name(c))
          /\ Remove(name(c))
          /\ Written(c)
       \/ /\ ~exists(name(c))
          /\ Return(c, "ok")
          /\ Unwritten
    /\ UNCHANGED <<op, cur, attempts>>

(* The API server cannot be reached, or refuses.                           *)
CallFails(c) ==
    /\ pc[c] \in InFlight
    /\ Spend("faults")
    /\ Return(c, "failed")
    /\ disturbed' = disturbed \cup {c}
    /\ UNCHANGED <<secrets, revision, op, cur, attempts>>

-----------------------------------------------------------------------------
(* Others.                                                                 *)

(* Somebody labels a secret.                                               *)
Annotate(n) ==
    /\ exists(n)
    /\ Spend("admin")
    /\ \E m \in Metas : Write(n, secrets[n].data, m)
    /\ disturbed' = disturbed \cup Rivals(n)
    /\ UNCHANGED <<pc, op, cur, attempts, result>>

Restart ==
    /\ Spend("crashes")
    /\ pc' = [c \in Callers |-> "idle"]
    /\ result' = [c \in Callers |-> "none"]
    /\ disturbed' = {}
    /\ UNCHANGED <<secrets, revision, op, cur, attempts>>

-----------------------------------------------------------------------------

Init ==
    /\ secrets \in [Names -> {AbsentSecret} \cup [data: Data, meta: {NoMeta}, rv: {0}]]
    /\ revision = 0
    /\ pc = [c \in Callers |-> "idle"]
    /\ op = [c \in Callers |-> CHOOSE o \in Operation : TRUE]
    /\ cur = [c \in Callers |-> AbsentSecret]
    /\ attempts = [c \in Callers |-> Steps]
    /\ result = [c \in Callers |-> "none"]
    /\ disturbed = {}
    /\ budget = [calls |-> MaxCalls, faults |-> MaxFaults,
                 crashes |-> MaxCrashes, admin |-> MaxAdmin]

Step(c) == Create(c) \/ Get(c) \/ Update(c) \/ Recreate(c) \/ DeleteOnyxiaSecret(c)

Next ==
    \/ \E c \in Callers : Step(c) \/ CallFails(c) \/ \E o \in Operation : Call(c, o)
    \/ \E n \in Names : Annotate(n)
    \/ Restart

Spec == Init /\ [][Next]_vars

(* Goroutines are scheduled and the API server answers.                    *)
FairSpec == Spec /\ \A c \in Callers : WF_vars(Step(c))

-----------------------------------------------------------------------------
(* Properties.                                                             *)

TypeOK ==
    /\ secrets \in [Names -> Secret]
    /\ revision \in Nat
    /\ pc \in [Callers -> InFlight \cup {"idle"}]
    /\ op \in [Callers -> Operation]
    /\ cur \in [Callers -> Secret]
    /\ attempts \in [Callers -> 1 .. Steps]
    /\ result \in [Callers -> {"none", "ok", "failed"}]
    /\ disturbed \subseteq Callers
    /\ budget \in [{"calls", "faults", "crashes", "admin"} -> Nat]

(* A caller works on the operation it is at, and has not ended yet.        *)
CallsAreOpen ==
    \A c \in Callers :
        /\ pc[c] = "delete" => op[c].op = "delete"
        /\ pc[c] \in InFlight \ {"delete"} => op[c].op = "ensure"
        /\ pc[c] \in InFlight => result[c] = "none"

AbsentIsBlank == \A n \in Names : ~exists(n) => secrets[n] = AbsentSecret

RevisionsArePast ==
    /\ \A n \in Names : secrets[n].rv <= revision
    /\ \A c \in Callers : pc[c] = "update" => cur[c].rv <= revision

(* An Update that the API server accepts replaces exactly what Get returned*)
(* to its caller.                                                          *)
UpdateIsInformed ==
    \A c \in Callers :
        pc[c] = "update" /\ Unchanged(c) => secrets[name(c)] = cur[c]

(* The invariant of SecretGatewayProofs.                                   *)
IInv == TypeOK /\ CallsAreOpen /\ AbsentIsBlank /\ RevisionsArePast /\ UpdateIsInformed

(* What others put on a secret stays as long as the secret does, whichever *)
(* calls race on it: only who annotates it changes its metadata.           *)
MetadataSurvives ==
    [][\A n \in Names :
          exists(n) /\ exists(n)' /\ secrets'[n].meta # secrets[n].meta => pc' = pc]_vars

(* An operation that nobody disturbs succeeds, whatever it finds: the      *)
(* secret there or not.                                                    *)
UndisturbedCallSucceeds ==
    \A c \in Callers : result[c] = "failed" => c \in disturbed

(* Each operation ends: attempts are bounded.                              *)
EventuallyAnswered == \A c \in Callers : pc[c] \in InFlight ~> pc[c] = "idle"

(* The gateway is a SecretStore: concurrent operations take effect one by  *)
(* one, whole or not at all.                                               *)
Store == INSTANCE SecretStore WITH
    store <- [n \in Names |-> secrets[n].data],
    metadata <- [n \in Names |-> secrets[n].meta],
    call <- [c \in Callers |->
                IF pc[c] \in InFlight THEN op[c] ELSE [op |-> result[c]]]

ImplementsStore == Store!Spec
=============================================================================
