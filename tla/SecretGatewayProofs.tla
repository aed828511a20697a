------------------------ MODULE SecretGatewayProofs -------------------------
(***************************************************************************)
(* Proofs about SecretGateway, for any number of callers, secrets and      *)
(* attempts: its invariant, that no call on a secret touches what others   *)
(* put on it, that a call nobody disturbs succeeds, and that it implements *)
(* SecretStore.                                                            *)
(***************************************************************************)
EXTENDS SecretGateway, TLAPS

LEMMA Constants ==
    /\ NoData \notin Data /\ NoMeta \notin Metas /\ Names # {}
    /\ Steps \in Nat \ {0}
    /\ MaxCalls \in Nat /\ MaxFaults \in Nat /\ MaxCrashes \in Nat /\ MaxAdmin \in Nat
BY DataAssumption, NamesAssumption, StepsAssumption, BoundsAssumption

LEMMA OperationExists == (CHOOSE o \in Operation : TRUE) \in Operation
<1>1. PICK n \in Names : TRUE
  BY Constants
<1>2. [op |-> "delete", name |-> n, data |-> NoData] \in Operation
  BY <1>1, Zenon DEF Operation
<1> QED BY <1>2

LEMMA OperationType ==
    ASSUME NEW o \in Operation
    PROVE  /\ o.op \in {"ensure", "delete"} /\ o.name \in Names
           /\ o.op = "ensure" => o.data \in Data
           /\ o.data \in Data \cup {NoData}
BY DEF Operation

(* Spending keeps the budget a function into the naturals.                 *)
LEMMA BudgetType ==
    ASSUME budget \in [{"calls", "faults", "crashes", "admin"} -> Nat],
           NEW what \in {"calls", "faults", "crashes", "admin"}, Spend(what)
    PROVE  budget' \in [{"calls", "faults", "crashes", "admin"} -> Nat]
<1>1. budget[what] - 1 \in Nat
  BY DEF Spend
<1> QED BY <1>1 DEF Spend

(* What a write does to each secret.                                       *)
LEMMA WriteType ==
    ASSUME TypeOK, NEW n \in Names, NEW d \in Data, NEW m \in Metas \cup {NoMeta},
           Write(n, d, m)
    PROVE  /\ secrets' \in [Names -> Secret] /\ revision' \in Nat
           /\ revision' = revision + 1
           /\ secrets'[n].data = d /\ secrets'[n].meta = m
           /\ secrets'[n].rv = revision + 1
           /\ \A k \in Names : k # n => secrets'[k] = secrets[k]
<1>1. revision \in Nat /\ revision' = revision + 1 /\ revision' \in Nat
  BY DEF Write, TypeOK
<1>2. [data |-> d, meta |-> m, rv |-> revision'] \in Secret
  BY <1>1, Zenon DEF Secret
<1>3. secrets' = [secrets EXCEPT ![n] = [data |-> d, meta |-> m, rv |-> revision']]
  BY DEF Write
<1>4. secrets \in [Names -> Secret]
  BY DEF TypeOK
<1> QED BY <1>1, <1>2, <1>3, <1>4

LEMMA AbsentType == AbsentSecret \in Secret
<1>1. NoData \in Data \cup {NoData} /\ NoMeta \in Metas \cup {NoMeta} /\ 0 \in Nat
  OBVIOUS
<1> QED BY <1>1, Zenon DEF Secret, AbsentSecret

-----------------------------------------------------------------------------
(* The steps fall into writes, removals and steps that touch no secret.    *)

Ends(c) ==
    /\ pc' = [pc EXCEPT ![c] = "idle"]
    /\ \E r \in {"ok", "failed"} : result' = [result EXCEPT ![c] = r]

Ensures(c) ==
    \E d \in Data, m \in Metas \cup {NoMeta} :
        /\ pc[c] \in {"create", "update", "recreate"}
        /\ d = op[c].data
        /\ exists(name(c)) => m = secrets[name(c)].meta
        /\ ~exists(name(c)) => m = NoMeta
        /\ Write(name(c), d, m)
        /\ Ends(c)

Deletes(c) ==
    /\ pc[c] = "delete"
    /\ \/ exists(name(c)) /\ Remove(name(c))
       \/ ~exists(name(c)) /\ UNCHANGED <<secrets, revision>>
    /\ Ends(c)

Moves(c) ==
    /\ pc[c] \in InFlight
    /\ UNCHANGED <<secrets, revision, result>>
    /\ \/ pc[c] = "create" /\ pc' = [pc EXCEPT ![c] = "get"] /\ UNCHANGED cur
       \/ pc[c] = "update" /\ pc' = [pc EXCEPT ![c] = "get"] /\ UNCHANGED cur
       \/ /\ pc[c] = "get"
          /\ cur' = [cur EXCEPT ![c] = secrets[name(c)]]
          /\ \/ pc' = [pc EXCEPT ![c] = "update"] /\ exists(name(c))
             \/ pc' = [pc EXCEPT ![c] = "recreate"]

Fails(c) ==
    /\ pc[c] \in InFlight
    /\ UNCHANGED <<secrets, revision, cur>>
    /\ pc' = [pc EXCEPT ![c] = "idle"]
    /\ result' = [result EXCEPT ![c] = "failed"]

LEMMA WrittenEnds ==
    ASSUME TypeOK, NEW c \in Callers, Written(c)
    PROVE  /\ Ends(c)
           /\ disturbed' \subseteq Callers
           /\ budget' \in [{"calls", "faults", "crashes", "admin"} -> Nat]
<1>1. CASE Return(c, "ok") /\ UNCHANGED budget
           /\ disturbed' = disturbed \cup (Rivals(name(c)) \ {c})
  BY <1>1 DEF Return, Ends, Rivals, TypeOK
<1>2. CASE Return(c, "failed") /\ Spend("faults")
           /\ disturbed' = disturbed \cup Rivals(name(c)) \cup {c}
  <2>1. Ends(c)
    BY <1>2 DEF Return, Ends
  <2>2. disturbed' \subseteq Callers
    BY <1>2 DEF Rivals, TypeOK
  <2>3. budget' \in [{"calls", "faults", "crashes", "admin"} -> Nat]
    BY <1>2, BudgetType DEF TypeOK
  <2> QED BY <2>1, <2>2, <2>3
<1> QED BY <1>1, <1>2 DEF Written

LEMMA StepCases ==
    ASSUME IInv, NEW c \in Callers, Step(c) \/ CallFails(c)
    PROVE  /\ Ensures(c) \/ Deletes(c) \/ Moves(c) \/ Fails(c)
           /\ op' = op
           /\ Moves(c) \/ cur' = cur
           /\ attempts' \in [Callers -> 1 .. Steps]
           /\ disturbed' \subseteq Callers
           /\ budget' \in [{"calls", "faults", "crashes", "admin"} -> Nat]
<1>t. /\ name(c) \in Names /\ attempts \in [Callers -> 1 .. Steps]
      /\ disturbed \subseteq Callers /\ TypeOK
      /\ budget \in [{"calls", "faults", "crashes", "admin"} -> Nat]
  BY OperationType DEF IInv, TypeOK, name
<1>d. pc[c] \in {"create", "update", "recreate"} => op[c].data \in Data
  BY OperationType DEF IInv, TypeOK, CallsAreOpen, InFlight
<1>1. CASE Create(c)
  <2>1. CASE ~exists(name(c))
    <3>1. Write(name(c), op[c].data, NoMeta) /\ Written(c)
      BY <1>1, <2>1 DEF Create
    <3>2. Ensures(c)
      BY <1>1, <1>d, <2>1, <3>1, <1>t, WrittenEnds DEF Ensures, Create
    <3> QED BY <1>1, <3>1, <3>2, <1>t, WrittenEnds DEF Create
  <2>2. CASE exists(name(c))
    <3>1. Moves(c)
      BY <1>1, <2>2 DEF Create, Goto, Unwritten, Moves, InFlight
    <3> QED BY <1>1, <2>2, <3>1, <1>t DEF Create, Unwritten
  <2> QED BY <2>1, <2>2
<1>2. CASE Get(c)
  <2>1. Moves(c)
    <3>1. CASE exists(name(c))
      BY <1>2, <3>1 DEF Get, Goto, Unwritten, Moves, InFlight
    <3>2. CASE ~exists(name(c))
      BY <1>2, <3>2 DEF Get, Goto, Unwritten, Moves, InFlight
    <3> QED BY <3>1, <3>2
  <2> QED BY <1>2, <2>1, <1>t DEF Get, Unwritten
<1>3. CASE Update(c)
  <2>1. CASE /\ Unchanged(c) /\ Write(name(c), op[c].data, cur[c].meta)
             /\ Written(c) /\ UNCHANGED attempts
    <3>1. /\ secrets[name(c)] = cur[c] /\ exists(name(c))
          /\ cur[c].meta \in Metas \cup {NoMeta}
      BY <1>3, <2>1 DEF Update, Unchanged, IInv, UpdateIsInformed, TypeOK, Secret
    <3>2. Ensures(c)
      BY <1>3, <1>d, <2>1, <3>1, <1>t, WrittenEnds DEF Ensures, Update
    <3> QED BY <1>3, <2>1, <3>2, <1>t, WrittenEnds DEF Update
  <2>2. CASE /\ exists(name(c)) /\ ~Unchanged(c) /\ attempts[c] > 1
             /\ attempts' = [attempts EXCEPT ![c] = @ - 1]
             /\ Goto(c, "get") /\ Unwritten
    <3>1. Moves(c)
      BY <1>3, <2>2 DEF Update, Goto, Unwritten, Moves, InFlight
    <3>2. attempts[c] - 1 \in 1 .. Steps
      BY <2>2, <1>t, Constants
    <3> QED BY <1>3, <2>2, <3>1, <3>2, <1>t DEF Update, Unwritten
  <2>3. CASE Return(c, "failed") /\ Unwritten /\ UNCHANGED attempts
    BY <1>3, <2>3, <1>t DEF Update, Return, Unwritten, Fails, InFlight
  <2> QED BY <1>3, <2>1, <2>2, <2>3 DEF Update
<1>4. CASE Recreate(c)
  <2>1. CASE ~exists(name(c))
    <3>1. Write(name(c), op[c].data, NoMeta) /\ Written(c)
      BY <1>4, <2>1 DEF Recreate
    <3>2. Ensures(c)
      BY <1>4, <1>d, <2>1, <3>1, <1>t, WrittenEnds DEF Ensures, Recreate
    <3> QED BY <1>4, <3>1, <3>2, <1>t, WrittenEnds DEF Recreate
  <2>2. CASE exists(name(c))
    BY <1>4, <2>2, <1>t DEF Recreate, Return, Unwritten, Fails, InFlight
  <2> QED BY <2>1, <2>2
<1>5. CASE DeleteOnyxiaSecret(c)
  <2>1. CASE exists(name(c))
    <3>1. Remove(name(c)) /\ Written(c)
      BY <1>5, <2>1 DEF DeleteOnyxiaSecret
    <3>2. Deletes(c)
      BY <1>5, <2>1, <3>1, <1>t, WrittenEnds DEF DeleteOnyxiaSecret, Deletes
    <3> QED BY <1>5, <3>1, <3>2, <1>t, WrittenEnds DEF DeleteOnyxiaSecret
  <2>2. CASE ~exists(name(c))
    BY <1>5, <2>2, <1>t DEF DeleteOnyxiaSecret, Return, Unwritten, Deletes, Ends
  <2> QED BY <2>1, <2>2
<1>6. CASE CallFails(c)
  <2>1. budget' \in [{"calls", "faults", "crashes", "admin"} -> Nat]
    BY <1>6, <1>t, BudgetType DEF CallFails
  <2> QED BY <1>6, <2>1, <1>t DEF CallFails, Return, Fails
<1> QED BY <1>1, <1>2, <1>3, <1>4, <1>5, <1>6 DEF Step

-----------------------------------------------------------------------------
(* The invariant.                                                          *)

LEMMA InvInit == Init => IInv
<1> SUFFICES ASSUME Init PROVE IInv
  OBVIOUS
<1>1. \A n \in Names : secrets[n] = AbsentSecret \/
          secrets[n] \in [data: Data, meta: {NoMeta}, rv: {0}]
  BY DEF Init
<1>2. \A n \in Names : secrets[n] \in Secret /\ secrets[n].rv = 0
  BY <1>1, AbsentType DEF Secret, AbsentSecret
<1>3. secrets \in [Names -> Secret]
  <2>1. secrets = [n \in Names |-> secrets[n]]
    BY DEF Init
  <2> QED BY <2>1, <1>2
<1>4. attempts \in [Callers -> 1 .. Steps]
  BY Constants DEF Init
<1>5. TypeOK
  BY <1>3, <1>4, OperationExists, AbsentType, Constants DEF Init, TypeOK
<1>6. CallsAreOpen
  BY DEF Init, CallsAreOpen, InFlight
<1>7. AbsentIsBlank
  BY <1>1, Constants DEF AbsentIsBlank, exists
<1>8. RevisionsArePast
  BY <1>2 DEF RevisionsArePast, Init
<1>9. UpdateIsInformed
  BY DEF Init, UpdateIsInformed
<1> QED BY <1>5, <1>6, <1>7, <1>8, <1>9 DEF IInv

(* When a secret is the one that was read, after a step of a caller or of  *)
(* another, it was so before and has not changed.                          *)
LEMMA StillInformed ==
    ASSUME IInv, NEW c \in Callers, pc[c] = "update",
           NEW n \in Names, n = op[c].name, cur'[c] = cur[c], op'[c] = op[c],
           \/ secrets'[n] = secrets[n]
           \/ secrets'[n] = AbsentSecret
           \/ secrets'[n].rv = revision + 1,
           Unchanged(c)'
    PROVE  secrets'[n] = cur'[c]
<1>1. cur[c].rv <= revision /\ revision \in Nat /\ cur[c].rv \in Nat
  BY DEF IInv, RevisionsArePast, TypeOK, Secret
<1>2. secrets'[n].data # NoData /\ secrets'[n].rv = cur[c].rv
  BY DEF Unchanged, exists, name
<1>3. secrets'[n] = secrets[n]
  BY <1>1, <1>2 DEF AbsentSecret
<1> QED BY <1>2, <1>3 DEF IInv, UpdateIsInformed, Unchanged, exists, name

LEMMA EndsType ==
    ASSUME TypeOK, NEW c \in Callers, Ends(c)
    PROVE  /\ pc' \in [Callers -> InFlight \cup {"idle"}]
           /\ result' \in [Callers -> {"none", "ok", "failed"}]
           /\ pc'[c] = "idle"
           /\ \A g \in Callers : g # c => pc'[g] = pc[g] /\ result'[g] = result[g]
BY DEF Ends, TypeOK

LEMMA CallerStep ==
    ASSUME IInv, NEW c \in Callers, Step(c) \/ CallFails(c)
    PROVE  IInv'
<1> DEFINE n == name(c)
<1>t. TypeOK /\ n \in Names /\ n = op[c].name /\ op' = op
  BY StepCases, OperationType DEF IInv, TypeOK, name
<1>a. /\ attempts' \in [Callers -> 1 .. Steps] /\ disturbed' \subseteq Callers
      /\ budget' \in [{"calls", "faults", "crashes", "admin"} -> Nat]
  BY StepCases
<1>1. CASE Ensures(c) /\ cur' = cur
  <2>1. PICK d \in Data, m \in Metas \cup {NoMeta} : Write(n, d, m) /\ Ends(c)
    BY <1>1 DEF Ensures
  <2>2. /\ secrets' \in [Names -> Secret] /\ revision' \in Nat /\ revision' = revision + 1
        /\ secrets'[n].data = d /\ secrets'[n].rv = revision + 1
        /\ \A k \in Names : k # n => secrets'[k] = secrets[k]
    BY <2>1, <1>t, WriteType
  <2>3. TypeOK'
    BY <1>1, <1>t, <1>a, <2>1, <2>2, EndsType DEF TypeOK
  <2>4. CallsAreOpen'
    BY <1>t, <2>1, EndsType DEF CallsAreOpen, IInv, InFlight
  <2>5. AbsentIsBlank'
    BY <2>2, Constants DEF IInv, AbsentIsBlank, exists
  <2>6. RevisionsArePast'
    <3>1. \A k \in Names : secrets'[k].rv <= revision'
      BY <2>2 DEF IInv, RevisionsArePast, TypeOK, Secret
    <3>2. ASSUME NEW g \in Callers, pc'[g] = "update" PROVE cur'[g].rv <= revision'
      <4>1. pc[g] = "update"
        BY <3>2, <2>1, <1>t, EndsType
      <4>2. cur[g].rv <= revision /\ cur[g].rv \in Nat /\ revision \in Nat
        BY <4>1 DEF IInv, RevisionsArePast, TypeOK, Secret
      <4> QED BY <4>2, <2>2, <1>1
    <3> QED BY <3>1, <3>2 DEF RevisionsArePast
  <2>7. UpdateIsInformed'
    <3> SUFFICES ASSUME NEW g \in Callers, pc'[g] = "update", Unchanged(g)'
                 PROVE  secrets'[op[g].name] = cur'[g]
      BY <1>t DEF UpdateIsInformed, name
    <3>1. pc[g] = "update" /\ op[g].name \in Names
      BY <2>1, <1>t, EndsType, OperationType DEF TypeOK
    <3>2. \/ secrets'[op[g].name] = secrets[op[g].name]
          \/ secrets'[op[g].name].rv = revision + 1
      BY <3>1, <2>2
    <3> QED BY <3>1, <3>2, <1>1, <1>t, StillInformed
  <2> QED BY <2>3, <2>4, <2>5, <2>6, <2>7 DEF IInv
<1>2. CASE Deletes(c) /\ cur' = cur
  <2>1. /\ Ends(c) /\ revision' = revision
        /\ \/ secrets' = [secrets EXCEPT ![n] = AbsentSecret]
           \/ secrets' = secrets
    BY <1>2 DEF Deletes, Remove
  <2>2. /\ secrets' \in [Names -> Secret]
        /\ \A k \in Names : secrets'[k] = secrets[k] \/ secrets'[k] = AbsentSecret
    BY <2>1, <1>t, AbsentType DEF TypeOK
  <2>3. TypeOK'
    BY <1>2, <1>t, <1>a, <2>1, <2>2, EndsType DEF TypeOK
  <2>4. CallsAreOpen'
    BY <1>t, <2>1, EndsType DEF CallsAreOpen, IInv, InFlight
  <2>5. AbsentIsBlank'
    BY <2>2 DEF IInv, AbsentIsBlank, exists
  <2>6. RevisionsArePast'
    <3>1. \A k \in Names : secrets'[k].rv <= revision'
      BY <2>1, <2>2 DEF IInv, RevisionsArePast, TypeOK, Secret, AbsentSecret
    <3> QED BY <3>1, <2>1, <1>2, <1>t, EndsType DEF IInv, RevisionsArePast
  <2>7. UpdateIsInformed'
    <3> SUFFICES ASSUME NEW g \in Callers, pc'[g] = "update", Unchanged(g)'
                 PROVE  secrets'[op[g].name] = cur'[g]
      BY <1>t DEF UpdateIsInformed, name
    <3>1. pc[g] = "update" /\ op[g].name \in Names
      BY <2>1, <1>t, EndsType, OperationType DEF TypeOK
    <3> QED BY <3>1, <2>2, <1>2, <1>t, StillInformed
  <2> QED BY <2>3, <2>4, <2>5, <2>6, <2>7 DEF IInv
<1>3. CASE Moves(c)
  <2>0. UNCHANGED <<secrets, revision, result>> /\ pc[c] \in InFlight
    BY <1>3 DEF Moves
  <2>1. /\ pc' \in [Callers -> InFlight \cup {"idle"}]
        /\ \A g \in Callers : g # c => pc'[g] = pc[g] /\ cur'[g] = cur[g]
        /\ cur' \in [Callers -> Secret]
    BY <1>3, <1>t DEF Moves, TypeOK, InFlight
  <2>2. /\ pc[c] # "delete" /\ pc'[c] # "delete"
        /\ pc'[c] = "update" => cur'[c] = secrets[n] /\ exists(n)
    BY <1>3, <1>t DEF Moves, TypeOK
  <2>3. TypeOK'
    BY <2>0, <2>1, <1>t, <1>a DEF TypeOK
  <2>4. CallsAreOpen'
    <3>1. op[c].op = "ensure" /\ result[c] = "none"
      BY <2>0, <2>2 DEF IInv, CallsAreOpen
    <3> QED BY <3>1, <2>0, <2>1, <2>2, <1>t DEF IInv, CallsAreOpen
  <2>5. AbsentIsBlank'
    BY <2>0 DEF IInv, AbsentIsBlank, exists
  <2>6. RevisionsArePast'
    BY <2>0, <2>1, <2>2, <1>t DEF IInv, RevisionsArePast
  <2>7. UpdateIsInformed'
    <3> SUFFICES ASSUME NEW g \in Callers, pc'[g] = "update", Unchanged(g)'
                 PROVE  secrets'[op[g].name] = cur'[g]
      BY <1>t DEF UpdateIsInformed, name
    <3>1. CASE g = c
      BY <3>1, <2>0, <2>2, <1>t
    <3>2. CASE g # c
      <4>1. pc[g] = "update" /\ cur'[g] = cur[g] /\ op[g].name \in Names
        BY <3>2, <2>1, <1>t, OperationType DEF TypeOK
      <4> QED BY <4>1, <2>0, <1>t, StillInformed
    <3> QED BY <3>1, <3>2
  <2> QED BY <2>3, <2>4, <2>5, <2>6, <2>7 DEF IInv
<1>4. CASE Fails(c)
  <2>0. UNCHANGED <<secrets, revision, cur>> /\ Ends(c)
    BY <1>4 DEF Fails, Ends
  <2>3. TypeOK'
    BY <1>t, <1>a, <2>0, EndsType DEF TypeOK
  <2>4. CallsAreOpen'
    BY <1>t, <2>0, EndsType DEF CallsAreOpen, IInv, InFlight
  <2>5. AbsentIsBlank'
    BY <2>0 DEF IInv, AbsentIsBlank, exists
  <2>6. RevisionsArePast'
    BY <2>0, <1>t, EndsType DEF IInv, RevisionsArePast
  <2>7. UpdateIsInformed'
    BY <2>0, <1>t, EndsType DEF IInv, UpdateIsInformed, Unchanged, exists, name
  <2> QED BY <2>3, <2>4, <2>5, <2>6, <2>7 DEF IInv
<1> QED BY <1>1, <1>2, <1>3, <1>4, StepCases DEF Fails

LEMMA CallStep ==
    ASSUME IInv, NEW c \in Callers, NEW o \in Operation, Call(c, o)
    PROVE  IInv'
<1>0. /\ UNCHANGED <<secrets, revision, cur>>
      /\ pc[c] = "idle" /\ op' = [op EXCEPT ![c] = o]
      /\ pc' = [pc EXCEPT ![c] = IF o.op = "ensure" THEN "create" ELSE "delete"]
      /\ result' = [result EXCEPT ![c] = "none"]
  BY DEF Call
<1>1. TypeOK'
  <2>1. budget' \in [{"calls", "faults", "crashes", "admin"} -> Nat]
    BY BudgetType DEF Call, IInv, TypeOK
  <2>2. attempts' \in [Callers -> 1 .. Steps]
    BY Constants DEF Call, IInv, TypeOK
  <2> QED BY <1>0, <2>1, <2>2 DEF Call, IInv, TypeOK, InFlight
<1>2. CallsAreOpen'
  BY <1>0, OperationType DEF IInv, TypeOK, CallsAreOpen, InFlight
<1>3. AbsentIsBlank'
  BY <1>0 DEF IInv, AbsentIsBlank, exists
<1>4. RevisionsArePast'
  BY <1>0 DEF IInv, TypeOK, RevisionsArePast
<1>5. UpdateIsInformed'
  BY <1>0 DEF IInv, TypeOK, UpdateIsInformed, Unchanged, exists, name
<1> QED BY <1>1, <1>2, <1>3, <1>4, <1>5 DEF IInv

LEMMA AnnotateStep ==
    ASSUME IInv, NEW n \in Names, Annotate(n)
    PROVE  IInv'
<1>1. PICK m \in Metas : Write(n, secrets[n].data, m)
  BY DEF Annotate
<1>2. secrets[n].data \in Data
  BY DEF Annotate, exists, IInv, TypeOK, Secret
<1>3. /\ secrets' \in [Names -> Secret] /\ revision' \in Nat /\ revision' = revision + 1
      /\ secrets'[n].data = secrets[n].data /\ secrets'[n].rv = revision + 1
      /\ \A k \in Names : k # n => secrets'[k] = secrets[k]
  BY <1>1, <1>2, WriteType DEF IInv
<1>4. UNCHANGED <<pc, op, cur, attempts, result>>
  BY DEF Annotate
<1>5. TypeOK'
  <2>1. budget' \in [{"calls", "faults", "crashes", "admin"} -> Nat]
    BY BudgetType DEF Annotate, IInv, TypeOK
  <2>2. disturbed' \subseteq Callers
    BY DEF Annotate, IInv, TypeOK, Rivals
  <2> QED BY <1>3, <1>4, <2>1, <2>2 DEF IInv, TypeOK
<1>6. CallsAreOpen'
  BY <1>4 DEF IInv, CallsAreOpen
<1>7. AbsentIsBlank'
  BY <1>2, <1>3, Constants DEF IInv, AbsentIsBlank, exists
<1>8. RevisionsArePast'
  <2>1. \A k \in Names : secrets'[k].rv <= revision'
    BY <1>3 DEF IInv, RevisionsArePast, TypeOK, Secret
  <2>2. ASSUME NEW g \in Callers, pc[g] = "update" PROVE cur[g].rv <= revision'
    <3>1. cur[g].rv <= revision /\ cur[g].rv \in Nat /\ revision \in Nat
      BY <2>2 DEF IInv, RevisionsArePast, TypeOK, Secret
    <3> QED BY <3>1, <1>3
  <2> QED BY <2>1, <2>2, <1>4 DEF RevisionsArePast
<1>9. UpdateIsInformed'
  <2> SUFFICES ASSUME NEW g \in Callers, pc[g] = "update", Unchanged(g)'
               PROVE  secrets'[op[g].name] = cur'[g]
    BY <1>4 DEF UpdateIsInformed, name
  <2>1. op[g].name \in Names
    BY OperationType DEF IInv, TypeOK
  <2>2. \/ secrets'[op[g].name] = secrets[op[g].name]
        \/ secrets'[op[g].name].rv = revision + 1
    BY <2>1, <1>3
  <2> QED BY <2>1, <2>2, <1>4, StillInformed
<1> QED BY <1>5, <1>6, <1>7, <1>8, <1>9 DEF IInv

LEMMA RestartStep == ASSUME IInv, Restart PROVE IInv'
<1>1. budget' \in [{"calls", "faults", "crashes", "admin"} -> Nat]
  BY BudgetType DEF Restart, IInv, TypeOK
<1>2. TypeOK'
  BY <1>1 DEF Restart, IInv, TypeOK
<1>3. CallsAreOpen' /\ AbsentIsBlank' /\ RevisionsArePast' /\ UpdateIsInformed'
  BY DEF Restart, IInv, CallsAreOpen, AbsentIsBlank, RevisionsArePast, UpdateIsInformed,
         exists, InFlight
<1> QED BY <1>2, <1>3 DEF IInv

LEMMA InvStep == IInv /\ [Next]_vars => IInv'
<1> SUFFICES ASSUME IInv, [Next]_vars PROVE IInv'
  OBVIOUS
<1>1. ASSUME NEW c \in Callers, Step(c) \/ CallFails(c) PROVE IInv'
  BY <1>1, CallerStep
<1>2. ASSUME NEW c \in Callers, NEW o \in Operation, Call(c, o) PROVE IInv'
  BY <1>2, CallStep
<1>3. ASSUME NEW n \in Names, Annotate(n) PROVE IInv'
  BY <1>3, AnnotateStep
<1>4. CASE Restart
  BY <1>4, RestartStep
<1>5. CASE UNCHANGED vars
  BY <1>5 DEF vars, IInv, TypeOK, CallsAreOpen, AbsentIsBlank, RevisionsArePast,
              UpdateIsInformed, Unchanged, exists, name
<1> QED BY <1>1, <1>2, <1>3, <1>4, <1>5 DEF Next

(* The invariant of the gateway: above all, an Update that the API server  *)
(* accepts replaces exactly what its caller read (EnsureOnyxiaSecret).     *)
THEOREM Invariance == Spec => []IInv
BY InvInit, InvStep, PTL DEF Spec

-----------------------------------------------------------------------------

(* No call of the gateway touches what others put on a secret that exists  *)
(* (EnsureOnyxiaSecret keeps the object it read and replaces its data).    *)
THEOREM MetadataIsKept == Spec => MetadataSurvives
<1> DEFINE Kept == \A n \in Names :
        exists(n) /\ exists(n)' /\ secrets'[n].meta # secrets[n].meta => pc' = pc
<1>1. IInv /\ [Next]_vars => [Kept]_vars
  <2> SUFFICES ASSUME IInv, Next, NEW n \in Names, exists(n), exists(n)',
                      secrets'[n].meta # secrets[n].meta
               PROVE  pc' = pc
    OBVIOUS
  <2>1. ASSUME NEW c \in Callers, Step(c) \/ CallFails(c) PROVE FALSE
    <3>1. CASE Ensures(c)
      <4>1. PICK d \in Data, m \in Metas \cup {NoMeta} :
              /\ Write(name(c), d, m)
              /\ exists(name(c)) => m = secrets[name(c)].meta
        BY <3>1 DEF Ensures
      <4>2. name(c) \in Names
        BY OperationType DEF IInv, TypeOK, name
      <4>3. secrets'[name(c)].meta = m /\
            \A k \in Names : k # name(c) => secrets'[k] = secrets[k]
        BY <4>1, <4>2, WriteType DEF IInv
      <4> QED BY <4>1, <4>2, <4>3
    <3>2. CASE Deletes(c)
      <4>1. secrets'[n] = secrets[n] \/ secrets'[n] = AbsentSecret
        BY <3>2 DEF Deletes, Remove, IInv, TypeOK
      <4> QED BY <4>1 DEF AbsentSecret, exists
    <3>3. CASE Moves(c) \/ Fails(c)
      BY <3>3 DEF Moves, Fails
    <3> QED BY <2>1, <3>1, <3>2, <3>3, StepCases
  <2>2. ASSUME NEW c \in Callers, NEW o \in Operation, Call(c, o) PROVE FALSE
    BY <2>2 DEF Call
  <2>3. ASSUME NEW k \in Names, Annotate(k) PROVE pc' = pc
    BY <2>3 DEF Annotate
  <2>4. CASE Restart
    BY <2>4 DEF Restart
  <2> QED BY <2>1, <2>2, <2>3, <2>4 DEF Next
<1> QED BY Invariance, <1>1, PTL DEF Spec, MetadataSurvives

-----------------------------------------------------------------------------
(* A caller that nobody disturbs: the secret it found is still there when  *)
(* it reads it, and is still the one it read when it updates it.           *)
OnCourse(c) ==
    /\ result[c] # "failed"
    /\ pc[c] = "get" => exists(name(c))
    /\ pc[c] = "update" => Unchanged(c)
    /\ pc[c] # "recreate"

UndisturbedAreOnCourse == \A c \in Callers : c \notin disturbed => OnCourse(c)

(* Who writes a secret disturbs the others at work on it.                  *)
LEMMA Disturbs ==
    ASSUME IInv, NEW c \in Callers, Step(c) \/ CallFails(c)
    PROVE  /\ disturbed \subseteq disturbed'
           /\ \A k \in Names : secrets'[k] # secrets[k] =>
                 k = name(c) /\ Rivals(k) \ {c} \subseteq disturbed'
<1>n. name(c) \in Names /\ secrets \in [Names -> Secret]
  BY OperationType DEF IInv, TypeOK, name
<1>1. CASE Written(c)
  <2>1. disturbed \subseteq disturbed' /\ Rivals(name(c)) \ {c} \subseteq disturbed'
    BY <1>1 DEF Written
  <2>2. ASSUME NEW k \in Names, k # name(c) PROVE secrets'[k] = secrets[k]
    <3>1. ASSUME NEW d, NEW m, Write(name(c), d, m) PROVE secrets'[k] = secrets[k]
      BY <3>1, <2>2, <1>n DEF Write
    <3>2. ASSUME Remove(name(c)) PROVE secrets'[k] = secrets[k]
      BY <3>2, <2>2, <1>n DEF Remove
    <3>3. ASSUME Unwritten \/ CallFails(c) PROVE secrets'[k] = secrets[k]
      BY <3>3 DEF Unwritten, CallFails
    <3> QED
      BY <3>1, <3>2, <3>3
         DEF Step, Create, Get, Update, Recreate, DeleteOnyxiaSecret
  <2> QED BY <2>1, <2>2
<1>2. CASE Unwritten
  BY <1>2 DEF Unwritten
<1>3. CASE CallFails(c)
  BY <1>3 DEF CallFails
<1> QED
  BY <1>1, <1>2, <1>3 DEF Step, Create, Get, Update, Recreate, DeleteOnyxiaSecret

(* An undisturbed caller stays on course by its own step.                  *)
LEMMA OwnCourse ==
    ASSUME IInv, NEW c \in Callers, Step(c) \/ CallFails(c),
           c \notin disturbed', OnCourse(c)
    PROVE  OnCourse(c)'
<1>n. /\ name(c) \in Names /\ name(c)' = name(c)
      /\ secrets \in [Names -> Secret]
      /\ cur \in [Callers -> Secret]
      /\ pc \in [Callers -> InFlight \cup {"idle"}]
      /\ result \in [Callers -> {"none", "ok", "failed"}]
  BY StepCases, OperationType DEF IInv, TypeOK, name
<1>1. CASE Written(c)
  <2>1. Return(c, "ok")
    BY <1>1 DEF Written
  <2> QED BY <2>1, <1>n DEF Return, OnCourse
<1>2. CASE Create(c) /\ exists(name(c)) /\ Goto(c, "get") /\ Unwritten
  BY <1>2, <1>n DEF Goto, Unwritten, OnCourse, exists
<1>3. CASE Get(c)
  <2>1. exists(name(c))
    BY <1>3 DEF Get, OnCourse
  <2>2. /\ pc'[c] = "update" /\ result' = result /\ secrets' = secrets
        /\ cur'[c] = secrets[name(c)]
    BY <1>3, <2>1, <1>n DEF Get, Goto, Unwritten
  <2> QED BY <2>1, <2>2, <1>n DEF OnCourse, Unchanged, exists
<1>4. CASE Update(c) /\ ~Written(c)
  BY <1>4 DEF Update, OnCourse, Unchanged
<1>5. CASE Recreate(c)
  BY <1>5 DEF Recreate, OnCourse
<1>6. CASE DeleteOnyxiaSecret(c) /\ ~Written(c)
  BY <1>6, <1>n DEF DeleteOnyxiaSecret, Return, OnCourse
<1>7. CASE CallFails(c)
  BY <1>7 DEF CallFails
<1> QED
  BY <1>1, <1>2, <1>3, <1>4, <1>5, <1>6, <1>7 DEF Step, Create

(* It stays so when others write other secrets, or nothing.                *)
LEMMA OthersCourse ==
    ASSUME IInv, NEW c \in Callers, OnCourse(c), c \notin disturbed',
           pc'[c] = pc[c], op'[c] = op[c], cur'[c] = cur[c], result'[c] = result[c],
           pc[c] \in InFlight /\ secrets'[name(c)] # secrets[name(c)] => c \in disturbed'
    PROVE  OnCourse(c)'
<1>1. name(c)' = name(c)
  BY DEF name
<1>2. CASE pc[c] \in InFlight
  BY <1>1, <1>2 DEF OnCourse, Unchanged, exists
<1>3. CASE pc[c] \notin InFlight
  BY <1>3 DEF OnCourse, InFlight
<1> QED BY <1>2, <1>3

LEMMA CourseStep ==
    ASSUME IInv, UndisturbedAreOnCourse, NEW c \in Callers, c \notin disturbed', [Next]_vars
    PROVE  OnCourse(c)'
<1>n. \A g \in Callers : name(g) \in Names
  BY OperationType DEF IInv, TypeOK, name
<1>1. ASSUME NEW g \in Callers, Step(g) \/ CallFails(g) PROVE OnCourse(c)'
  <2>1. OnCourse(c)
    BY <1>1, Disturbs DEF UndisturbedAreOnCourse
  <2>2. CASE g = c
    BY <1>1, <2>1, <2>2, OwnCourse
  <2>3. CASE g # c
    <3>1. pc[c] \in InFlight /\ secrets'[name(c)] # secrets[name(c)] => c \in disturbed'
      BY <1>1, <1>n, <2>3, Disturbs DEF Rivals
    <3>2. /\ pc'[c] = pc[c] /\ cur'[c] = cur[c] /\ op'[c] = op[c] /\ result'[c] = result[c]
      <4>1. TypeOK /\ op' = op /\ (Moves(g) \/ cur' = cur)
        BY <1>1, StepCases DEF IInv
      <4>2. CASE Ends(g) /\ ~Moves(g)
        BY <4>1, <4>2, <2>3, EndsType
      <4>3. CASE Moves(g)
        BY <4>1, <4>3, <2>3 DEF Moves, TypeOK
      <4>4. CASE Fails(g)
        BY <4>1, <4>4, <2>3 DEF Fails, TypeOK
      <4> QED
        BY <1>1, <4>2, <4>3, <4>4, StepCases DEF Ensures, Deletes
    <3> QED BY <2>1, <3>1, <3>2, OthersCourse
  <2> QED BY <2>2, <2>3
<1>2. ASSUME NEW g \in Callers, NEW o \in Operation, Call(g, o) PROVE OnCourse(c)'
  <2>1. CASE g = c
    BY <1>2, <2>1 DEF Call, OnCourse, IInv, TypeOK
  <2>2. CASE g # c
    <3>1. OnCourse(c)
      BY <1>2, <2>2 DEF Call, UndisturbedAreOnCourse
    <3>2. /\ pc'[c] = pc[c] /\ cur'[c] = cur[c] /\ op'[c] = op[c] /\ result'[c] = result[c]
          /\ secrets' = secrets
      BY <1>2, <2>2 DEF Call, IInv, TypeOK
    <3> QED BY <3>1, <3>2, OthersCourse
  <2> QED BY <2>1, <2>2
<1>3. ASSUME NEW n \in Names, Annotate(n) PROVE OnCourse(c)'
  <2>1. OnCourse(c) /\ UNCHANGED <<pc, op, cur, result>>
    BY <1>3 DEF Annotate, UndisturbedAreOnCourse
  <2>2. pc[c] \in InFlight /\ secrets'[name(c)] # secrets[name(c)] => c \in disturbed'
    BY <1>3, <1>n DEF Annotate, Write, Rivals, IInv, TypeOK
  <2> QED BY <2>1, <2>2, OthersCourse
<1>4. CASE Restart
  BY <1>4 DEF Restart, OnCourse
<1>5. CASE UNCHANGED vars
  BY <1>5 DEF vars, UndisturbedAreOnCourse, OnCourse, Unchanged, exists, name
<1> QED BY <1>1, <1>2, <1>3, <1>4, <1>5 DEF Next

(* An Ensure or a Delete whose secret nobody else writes, and whose calls  *)
(* the API server answers, succeeds whatever it finds: with or without the *)
(* secret there, at the first attempt of RetryOnConflict.                  *)
THEOREM UndisturbedSucceeds == Spec => []UndisturbedCallSucceeds
<1>1. Init => UndisturbedAreOnCourse
  BY DEF Init, UndisturbedAreOnCourse, OnCourse
<1>2. IInv /\ UndisturbedAreOnCourse /\ [Next]_vars => UndisturbedAreOnCourse'
  BY CourseStep DEF UndisturbedAreOnCourse
<1>3. IInv /\ UndisturbedAreOnCourse => UndisturbedCallSucceeds
  BY DEF UndisturbedAreOnCourse, OnCourse, UndisturbedCallSucceeds
<1> QED BY Invariance, <1>1, <1>2, <1>3, PTL DEF Spec

-----------------------------------------------------------------------------
(* The gateway implements SecretStore: each write or removal is an atomic  *)
(* operation of the store, everything else a failure or a stutter.         *)

sStore == [n \in Names |-> secrets[n].data]
sMetadata == [n \in Names |-> secrets[n].meta]
sCall == [c \in Callers |-> IF pc[c] \in InFlight THEN op[c] ELSE [op |-> result[c]]]

LEMMA CallOf ==
    ASSUME IInv, NEW c \in Callers, pc[c] \in InFlight
    PROVE  /\ sCall[c] = op[c] /\ op[c] \in Operation
           /\ name(c) = sCall[c].name /\ name(c) \in Names
           /\ pc[c] = "delete" => sCall[c].op = "delete"
           /\ pc[c] # "delete" => sCall[c].op = "ensure"
BY OperationType DEF IInv, TypeOK, CallsAreOpen, sCall, name

LEMMA EndedCall ==
    ASSUME IInv, NEW c \in Callers, Ends(c), op' = op
    PROVE  \E r \in {"ok", "failed"} : sCall' = [sCall EXCEPT ![c] = [op |-> r]]
<1>1. PICK r \in {"ok", "failed"} : result' = [result EXCEPT ![c] = r]
  BY DEF Ends
<1>2. sCall' = [sCall EXCEPT ![c] = [op |-> r]]
  <2>1. sCall'[c] = [op |-> r]
    BY <1>1 DEF sCall, Ends, IInv, TypeOK, InFlight
  <2>2. ASSUME NEW g \in Callers, g # c PROVE sCall'[g] = sCall[g]
    BY <1>1, <2>2 DEF sCall, Ends, IInv, TypeOK
  <2> QED BY <2>1, <2>2 DEF sCall
<1> QED BY <1>2

LEMMA StepSimulation ==
    ASSUME IInv, NEW c \in Callers, Step(c) \/ CallFails(c)
    PROVE  Store!Ensure(c) \/ Store!Delete(c) \/ Store!Fail(c) \/ UNCHANGED Store!svars
<1> DEFINE n == name(c)
<1>o. op' = op
  BY StepCases
<1>f. pc[c] \in InFlight => n \in Names
  BY CallOf
<1>1. CASE Ensures(c)
  <2>0. pc[c] \in InFlight \ {"delete"}
    BY <1>1 DEF Ensures, InFlight
  <2>1. PICK d \in Data, m \in Metas \cup {NoMeta} :
          /\ d = op[c].data
          /\ exists(n) => m = secrets[n].meta
          /\ ~exists(n) => m = NoMeta
          /\ Write(n, d, m) /\ Ends(c)
    BY <1>1 DEF Ensures
  <2>2. /\ secrets'[n].data = d /\ secrets'[n].meta = m
        /\ \A k \in Names : k # n => secrets'[k] = secrets[k]
    BY <2>0, <2>1, <1>f, WriteType DEF IInv
  <2>3. sStore' = [sStore EXCEPT ![n] = d]
    BY <2>0, <2>2, <1>f DEF sStore
  <2>4. sMetadata' = [sMetadata EXCEPT ![n] = IF sStore[n] = NoData THEN NoMeta ELSE @]
    <3>1. sMetadata'[n] = IF sStore[n] = NoData THEN NoMeta ELSE sMetadata[n]
      BY <2>0, <2>1, <2>2, <1>f DEF sMetadata, sStore, exists
    <3> QED BY <3>1, <2>0, <2>2, <1>f DEF sMetadata
  <2>5. PICK r \in {"ok", "failed"} : sCall' = [sCall EXCEPT ![c] = [op |-> r]]
    BY <2>1, <1>o, EndedCall
  <2>6. sCall[c].op = "ensure" /\ sCall[c].name = n /\ sCall[c].data = d
    BY <2>0, <2>1, CallOf
  <2>7. Store!Ensure(c)
    BY <2>3, <2>4, <2>5, <2>6
       DEF Store!Ensure, Store!Finish, Store!Ended, sStore, sMetadata, sCall
  <2> QED BY <2>7
<1>2. CASE Deletes(c)
  <2>0. pc[c] = "delete" /\ pc[c] \in InFlight
    BY <1>2 DEF Deletes, InFlight
  <2>1. /\ secrets'[n] = AbsentSecret
        /\ \A k \in Names : k # n => secrets'[k] = secrets[k]
    BY <1>2, <2>0, <1>f DEF Deletes, Remove, IInv, TypeOK, AbsentIsBlank
  <2>a. secrets'[n].data = NoData /\ secrets'[n].meta = NoMeta
    BY <2>1 DEF AbsentSecret
  <2>2. sStore' = [sStore EXCEPT ![n] = NoData]
    BY <2>0, <2>1, <2>a, <1>f DEF sStore
  <2>3. sMetadata' = [sMetadata EXCEPT ![n] = NoMeta]
    BY <2>0, <2>1, <2>a, <1>f DEF sMetadata
  <2>4. PICK r \in {"ok", "failed"} : sCall' = [sCall EXCEPT ![c] = [op |-> r]]
    BY <1>2, <1>o, EndedCall DEF Deletes
  <2>5. sCall[c].op = "delete" /\ sCall[c].name = n
    BY <2>0, CallOf
  <2>6. Store!Delete(c)
    BY <2>2, <2>3, <2>4, <2>5
       DEF Store!Delete, Store!Finish, Store!Ended, sStore, sMetadata, sCall
  <2> QED BY <2>6
<1>3. CASE Moves(c)
  <2>1. UNCHANGED <<secrets, result>>
    BY <1>3 DEF Moves
  <2>2. \A g \in Callers : pc[g] \in InFlight <=> pc'[g] \in InFlight
    BY <1>3 DEF Moves, InFlight, IInv, TypeOK
  <2>3. \A g \in Callers : pc[g] \notin InFlight => pc'[g] \notin InFlight
    BY <2>2
  <2>4. \A g \in Callers : sCall'[g] = sCall[g]
    BY <2>1, <2>2, <1>o DEF sCall
  <2>5. sCall' = sCall
    BY <2>4 DEF sCall
  <2>6. UNCHANGED Store!svars
    BY <2>1, <2>5 DEF Store!svars, sCall
  <2> QED BY <2>6
<1>4. CASE Fails(c)
  <2>1. sCall' = [sCall EXCEPT ![c] = [op |-> "failed"]]
    <3>1. sCall'[c] = [op |-> "failed"]
      BY <1>4 DEF sCall, Fails, IInv, TypeOK, InFlight
    <3>2. ASSUME NEW g \in Callers, g # c PROVE sCall'[g] = sCall[g]
      BY <1>4, <1>o, <3>2 DEF sCall, Fails, IInv, TypeOK
    <3> QED BY <3>1, <3>2 DEF sCall
  <2>2. sCall[c].op \in {"ensure", "delete"}
    BY <1>4, CallOf DEF Fails
  <2>3. Store!Fail(c)
    BY <1>4, <2>1, <2>2 DEF Fails, Store!Fail, Store!Finish, Store!Ended, sCall
  <2> QED BY <2>3
<1> QED BY <1>1, <1>2, <1>3, <1>4, StepCases

LEMMA CallSimulation ==
    ASSUME IInv, NEW c \in Callers, NEW o \in Operation, Call(c, o)
    PROVE  Store!Call(c)
<1>1. sCall' = [sCall EXCEPT ![c] = o]
  <2>1. sCall'[c] = o
    BY OperationType DEF Call, sCall, IInv, TypeOK, InFlight
  <2>2. ASSUME NEW g \in Callers, g # c PROVE sCall'[g] = sCall[g]
    BY <2>2 DEF Call, sCall, IInv, TypeOK
  <2> QED BY <2>1, <2>2 DEF sCall
<1>2. sCall[c].op \in {"none", "ok", "failed"}
  BY DEF Call, sCall, IInv, TypeOK, InFlight
<1>3. o \in Store!Operation
  BY DEF Operation, Store!Operation
<1>4. secrets' = secrets
  BY DEF Call
<1> QED BY <1>1, <1>2, <1>3, <1>4 DEF Store!Call, sCall

LEMMA AnnotateSimulation ==
    ASSUME IInv, NEW n \in Names, Annotate(n)
    PROVE  Store!Annotate(n)
<1>1. PICK m \in Metas : Write(n, secrets[n].data, m)
  BY DEF Annotate
<1>2. secrets[n].data \in Data
  BY DEF Annotate, exists, IInv, TypeOK, Secret
<1>3. /\ secrets'[n].data = secrets[n].data /\ secrets'[n].meta = m
      /\ \A k \in Names : k # n => secrets'[k] = secrets[k]
  BY <1>1, <1>2, WriteType DEF IInv
<1>4. sStore' = sStore /\ sMetadata' = [sMetadata EXCEPT ![n] = m]
  BY <1>3 DEF sStore, sMetadata
<1>5. sCall' = sCall
  BY DEF Annotate, sCall
<1>6. sStore[n] # NoData
  BY DEF Annotate, exists, sStore
<1> QED BY <1>4, <1>5, <1>6 DEF Store!Annotate, sStore, sMetadata, sCall

LEMMA RestartSimulation == ASSUME IInv, Restart PROVE Store!Restart
<1>1. sCall' = [c \in Callers |-> [op |-> "none"]]
  BY DEF Restart, sCall, InFlight
<1>2. secrets' = secrets
  BY DEF Restart
<1> QED BY <1>1, <1>2 DEF Store!Restart, Store!Ended, sCall

(* Concurrent Ensure and Delete calls, with conflicts, retries, lost       *)
(* answers and restarts, behave as a SecretStore.                          *)
THEOREM Refinement == Spec => ImplementsStore
<1>1. Init => Store!Init
  <2> SUFFICES ASSUME Init PROVE Store!Init
    OBVIOUS
  <2>1. \A n \in Names : /\ secrets[n].data \in Data \cup {NoData}
                         /\ secrets[n].meta = NoMeta
    BY DEF Init, AbsentSecret
  <2>2. sCall = [c \in Callers |-> [op |-> "none"]]
    BY DEF Init, sCall, InFlight
  <2> QED BY <2>1, <2>2 DEF Store!Init, Store!Ended, sCall
<1>2. IInv /\ [Next]_vars => [Store!Next]_(Store!svars)
  <2> SUFFICES ASSUME IInv, [Next]_vars PROVE Store!Next \/ UNCHANGED Store!svars
    OBVIOUS
  <2>1. ASSUME NEW c \in Callers, Step(c) \/ CallFails(c)
        PROVE  Store!Next \/ UNCHANGED Store!svars
    BY <2>1, StepSimulation DEF Store!Next
  <2>2. ASSUME NEW c \in Callers, NEW o \in Operation, Call(c, o) PROVE Store!Next
    BY <2>2, CallSimulation DEF Store!Next
  <2>3. ASSUME NEW n \in Names, Annotate(n) PROVE Store!Next
    BY <2>3, AnnotateSimulation DEF Store!Next
  <2>4. CASE Restart
    BY <2>4, RestartSimulation DEF Store!Next
  <2>5. CASE UNCHANGED vars
    BY <2>5 DEF vars, Store!svars
  <2> QED BY <2>1, <2>2, <2>3, <2>4, <2>5 DEF Next
<1> QED BY Invariance, <1>1, <1>2, PTL DEF Spec, ImplementsStore, Store!Spec
-----------------------------------------------------------------------------
(* What is left to do.  The calls to the API server that an operation may  *)
(* still make: an attempt of RetryOnConflict is a Get and an Update, and a *)
(* Create in place of the Update is the last call there is.                *)
CallsLeft(c) ==
    CASE pc[c] = "create" -> 2 * attempts[c] + 1
      [] pc[c] = "get"    -> 2 * attempts[c]
      [] pc[c] = "update" -> 2 * attempts[c] - 1
      [] pc[c] \in {"recreate", "delete"} -> 1
      [] OTHER -> 0

Works(c) == Step(c) \/ CallFails(c)

(* An operation makes 2 * Steps + 1 calls at most: each of its calls, also *)
(* one that fails, leaves it fewer, and nothing that others do in between  *)
(* (a secret written, removed or annotated under its hands) gives it more. *)
CallsAreBounded == \A c \in Callers : CallsLeft(c) \in 0 .. 2 * Steps + 1
CallsRunOut ==
    [][\A c \in Callers :
          /\ Works(c) => CallsLeft(c)' < CallsLeft(c)
          /\ pc[c] # "idle" => CallsLeft(c)' <= CallsLeft(c)]_vars

LEMMA CallsLeftType ==
    ASSUME TypeOK, NEW c \in Callers
    PROVE  /\ CallsLeft(c) \in 0 .. 2 * Steps + 1
           /\ pc[c] # "idle" => CallsLeft(c) > 0
           /\ pc[c] = "idle" => CallsLeft(c) = 0
<1>1. /\ attempts[c] \in 1 .. Steps /\ Steps \in Nat
      /\ pc[c] \in {"create", "get", "update", "recreate", "delete", "idle"}
  BY Constants DEF TypeOK, InFlight
<1> QED BY <1>1 DEF CallsLeft

(* A caller of its own: it ends, or goes on with fewer calls left.         *)
LEMMA OwnCallsLeft ==
    ASSUME IInv, NEW c \in Callers, Works(c)
    PROVE  /\ CallsLeft(c)' < CallsLeft(c)
           /\ \A d \in Callers \ {c} : pc'[d] = pc[d] /\ attempts'[d] = attempts[d]
<1>t. /\ pc \in [Callers -> InFlight \cup {"idle"}] /\ TypeOK
      /\ attempts \in [Callers -> 1 .. Steps] /\ attempts[c] \in Nat /\ Steps \in Nat
  BY Constants DEF IInv, TypeOK
<1>1. CASE Ends(c) /\ UNCHANGED attempts /\ pc[c] \in InFlight
  <2>1. pc'[c] = "idle" /\ \A d \in Callers \ {c} : pc'[d] = pc[d]
    BY <1>1, <1>t DEF Ends
  <2>2. CallsLeft(c)' = 0
    BY <2>1 DEF CallsLeft
  <2>3. CallsLeft(c) > 0 /\ CallsLeft(c) \in Nat
    BY <1>1, <1>t, CallsLeftType DEF InFlight
  <2> QED BY <1>1, <2>1, <2>2, <2>3
<1>2. CASE Written(c) /\ UNCHANGED attempts /\ pc[c] \in InFlight
  BY <1>1, <1>2, <1>t, WrittenEnds
<1>3. CASE Create(c)
  <2>1. CASE Written(c)
    BY <1>2, <1>3, <2>1 DEF Create, InFlight
  <2>2. CASE Goto(c, "get")
    <3>1. /\ pc[c] = "create" /\ pc'[c] = "get" /\ attempts' = attempts
          /\ \A d \in Callers \ {c} : pc'[d] = pc[d]
      BY <1>3, <2>2, <1>t DEF Create, Goto
    <3> QED BY <3>1, <1>t DEF CallsLeft
  <2> QED BY <1>3, <2>1, <2>2 DEF Create
<1>4. CASE Get(c)
  <2>1. /\ pc[c] = "get" /\ pc'[c] \in {"update", "recreate"} /\ attempts' = attempts
        /\ \A d \in Callers \ {c} : pc'[d] = pc[d]
    BY <1>4, <1>t DEF Get, Goto
  <2>2. attempts[c] >= 1
    BY <1>t
  <2> QED BY <2>1, <2>2, <1>t DEF CallsLeft
<1>5. CASE Update(c)
  <2>1. CASE Written(c) /\ UNCHANGED attempts
    BY <1>2, <1>5, <2>1 DEF Update, InFlight
  <2>2. CASE attempts' = [attempts EXCEPT ![c] = @ - 1] /\ Goto(c, "get")
    <3>1. /\ pc[c] = "update" /\ pc'[c] = "get" /\ attempts'[c] = attempts[c] - 1
          /\ \A d \in Callers \ {c} : pc'[d] = pc[d] /\ attempts'[d] = attempts[d]
      BY <1>5, <2>2, <1>t DEF Update, Goto
    <3> QED BY <3>1, <1>t DEF CallsLeft
  <2>3. CASE Return(c, "failed") /\ UNCHANGED attempts
    BY <1>1, <1>5, <2>3 DEF Update, Return, Ends, InFlight
  <2> QED BY <1>5, <2>1, <2>2, <2>3 DEF Update
<1>6. CASE Recreate(c)
  <2>1. (Written(c) \/ Return(c, "failed")) /\ UNCHANGED attempts /\ pc[c] \in InFlight
    BY <1>6 DEF Recreate, InFlight
  <2> QED BY <1>1, <1>2, <2>1 DEF Return, Ends
<1>7. CASE DeleteOnyxiaSecret(c)
  <2>1. (Written(c) \/ Return(c, "ok")) /\ UNCHANGED attempts /\ pc[c] \in InFlight
    BY <1>7 DEF DeleteOnyxiaSecret, InFlight
  <2> QED BY <1>1, <1>2, <2>1 DEF Return, Ends
<1>8. CASE CallFails(c)
  BY <1>1, <1>8 DEF CallFails, Return, Ends
<1> QED BY <1>3, <1>4, <1>5, <1>6, <1>7, <1>8 DEF Works, Step

(* EnsureOnyxiaSecret and DeleteOnyxiaSecret make a bounded number of calls*)
(* to the API server, however the secret changes under them: the half of   *)
(* their termination that owes nothing to the scheduler.                   *)
THEOREM OperationsAreBounded == Spec => []CallsAreBounded /\ CallsRunOut
<1> DEFINE RunOut == \A c \in Callers :
        /\ Works(c) => CallsLeft(c)' < CallsLeft(c)
        /\ pc[c] # "idle" => CallsLeft(c)' <= CallsLeft(c)
<1>1. IInv => CallsAreBounded
  BY CallsLeftType DEF IInv, CallsAreBounded
<1>2. IInv' => CallsAreBounded'
  BY <1>1, PTL
<1>3. IInv /\ [Next]_vars => [RunOut]_vars
  <2> SUFFICES ASSUME IInv, Next, NEW c \in Callers
               PROVE  /\ Works(c) => CallsLeft(c)' < CallsLeft(c)
                      /\ pc[c] # "idle" => CallsLeft(c)' <= CallsLeft(c)
    OBVIOUS
  <2>i. CallsLeft(c) \in Nat /\ CallsLeft(c)' \in Nat
    <3>1. CallsAreBounded /\ CallsAreBounded'
      BY <1>1, <1>2, InvStep
    <3> QED BY <3>1, Constants DEF CallsAreBounded
  <2>1. Works(c) => CallsLeft(c)' < CallsLeft(c)
    BY OwnCallsLeft
  <2>2. ASSUME pc'[c] = pc[c], attempts'[c] = attempts[c]
        PROVE  CallsLeft(c)' = CallsLeft(c)
    BY <2>2 DEF CallsLeft
  <2>3. ASSUME NEW d \in Callers, Works(d), d # c PROVE CallsLeft(c)' = CallsLeft(c)
    BY <2>2, <2>3, OwnCallsLeft
  <2>4. ASSUME NEW d \in Callers, NEW o \in Operation, Call(d, o), pc[c] # "idle"
        PROVE  CallsLeft(c)' = CallsLeft(c)
    BY <2>2, <2>4 DEF Call, IInv, TypeOK
  <2>5. ASSUME NEW n \in Names, Annotate(n) PROVE CallsLeft(c)' = CallsLeft(c)
    BY <2>2, <2>5 DEF Annotate
  <2>6. CASE Restart
    <3>1. CallsLeft(c)' = 0
      BY <2>6 DEF Restart, CallsLeft
    <3> QED BY <2>1, <2>i, <3>1
  <2> QED BY <2>1, <2>i, <2>3, <2>4, <2>5, <2>6 DEF Next, Works
<1> QED BY Invariance, <1>1, <1>3, PTL DEF Spec, CallsRunOut
=============================================================================
