------------------------ MODULE InstallServiceProofs ------------------------
(***************************************************************************)
(* Proofs about InstallService, for any number of handlers and any         *)
(* requests: what exists in the cluster when, and what the callbacks of a  *)
(* job say.                                                                *)
(***************************************************************************)
EXTENDS InstallService, TLAPS

LEMMA RequestExists == (CHOOSE q \in StartRequest : TRUE) \in StartRequest
BY RequestsAssumption

LEMMA BudgetType ==
    ASSUME budget \in [{"requests", "faults", "crashes"} -> Nat],
           NEW what \in {"requests", "faults", "crashes"}, Spend(what)
    PROVE  budget' \in [{"requests", "faults", "crashes"} -> Nat]
<1>1. budget[what] - 1 \in Nat
  BY DEF Spend
<1> QED BY <1>1 DEF Spend

LEMMA StartRequestOfType ==
    ASSUME NEW r \in HttpRequests
    PROVE  StartRequestOf(r) \in StartRequest
<1>1. /\ r.user \in Users /\ r.pkg \in Packages \cup {NoPackage}
      /\ r.id \in ReleaseIds /\ r.name \in HelmNames \cup {NoName}
  BY RequestsAssumption DEF HttpRequest
<1>2. NoNamespace \in Namespaces \cup {NoNamespace}
  OBVIOUS
<1> QED BY <1>1, <1>2, Zenon DEF StartRequest, StartRequestOf

LEMMA RequestType ==
    ASSUME NEW q \in StartRequest
    PROVE  /\ q.user \in Users /\ q.pkg \in Packages \cup {NoPackage}
           /\ q.id \in ReleaseIds /\ q.name \in HelmNames \cup {NoName}
           /\ q.ns \in Namespaces \cup {NoNamespace}
           /\ q.ns # NoNamespace => secretName(q) \in SecretNames
           /\ secretData(q) \in SecretData
BY DEF StartRequest, secretName, secretData, SecretNames, SecretData

-----------------------------------------------------------------------------

LEMMA InvInit == Init => IInv
<1> SUFFICES ASSUME Init PROVE IInv
  OBVIOUS
<1>1. [status |-> "absent", of |-> CHOOSE q \in StartRequest : TRUE] \in Release
  BY RequestExists, Zenon DEF Release
<1>2. TypeOK
  <2>1. releases \in [HelmNames -> Release]
    BY <1>1, Zenon DEF Init
  <2>2. req \in [Handlers -> StartRequest]
    BY RequestExists, Zenon DEF Init
  <2>3. budget \in [{"requests", "faults", "crashes"} -> Nat]
    BY BoundsAssumption DEF Init
  <2>4. reports \in [Handlers -> Seq({"start", "success", "error"})]
    BY DEF Init
  <2>5. secrets \in [SecretNames -> SecretData \cup {NoSecret}]
    BY DEF Init
  <2>6. /\ pc \in [Handlers -> {"idle", "resolve", "ensureSecret", "startInstall", "return"}]
        /\ status \in [Handlers -> {0, 202, 500}]
        /\ ctx \in [Handlers -> {"live", "cancelled"}]
        /\ job \in [Handlers -> {"none", "begin", "run", "wait", "done"}]
        /\ installer \in [Handlers -> {"none", "working", "deployed", "broken"}]
    BY DEF Init
  <2> QED BY <2>1, <2>2, <2>3, <2>4, <2>5, <2>6 DEF TypeOK
<1>3. PreparedInOrder
  BY DEF Init, PreparedInOrder, PreparedFor
<1>4. EveryReleaseHasItsSecret
  BY DEF Init, EveryReleaseHasItsSecret, taken
<1>5. OnlyResolvedPackages
  BY DEF Init, OnlyResolvedPackages, taken
<1>6. ReportsInOrder
  BY DEF Init, ReportsInOrder, ReportedBy
<1> QED BY <1>2, <1>3, <1>4, <1>5, <1>6 DEF IInv

LEMMA AcceptStep ==
    ASSUME IInv, NEW h \in Handlers, NEW q \in StartRequest,
           NEW label \in {"idle", "resolve"}, Accept(h, q, label)
    PROVE  IInv'
<1>1. TypeOK'
  <2>1. budget' \in [{"requests", "faults", "crashes"} -> Nat]
    BY BudgetType DEF Accept, IInv, TypeOK
  <2>2. reports' \in [Handlers -> Seq({"start", "success", "error"})]
    BY DEF Accept, IInv, TypeOK
  <2>3. status' \in [Handlers -> {0, 202, 500}] /\ ctx' \in [Handlers -> {"live", "cancelled"}]
    BY DEF Accept, IInv, TypeOK
  <2> QED BY <2>1, <2>2, <2>3 DEF Accept, IInv, TypeOK
<1>2. /\ job'[h] = "none" /\ installer'[h] = "none" /\ pc'[h] = label
      /\ reports'[h] = <<>>
      /\ label # "idle" => status'[h] = 0
      /\ secrets' = secrets /\ releases' = releases
      /\ \A g \in Handlers : g # h =>
            /\ job'[g] = job[g] /\ installer'[g] = installer[g] /\ pc'[g] = pc[g]
            /\ reports'[g] = reports[g] /\ status'[g] = status[g] /\ req'[g] = req[g]
  BY DEF Accept, IInv, TypeOK
<1>3. PreparedInOrder'
  <2> SUFFICES ASSUME NEW g \in Handlers PROVE PreparedFor(g)'
    BY DEF PreparedInOrder
  <2>1. CASE g = h
    BY <1>2, <2>1 DEF PreparedFor
  <2>2. CASE g # h
    <3>1. PreparedFor(g)
      BY DEF IInv, PreparedInOrder
    <3>2. Prepared(g)' <=> Prepared(g)
      BY <1>2, <2>2 DEF Prepared
    <3>3. taken(req[g].name)' <=> taken(req[g].name)
      BY <1>2, <2>2 DEF taken
    <3> QED BY <1>2, <2>2, <3>1, <3>2, <3>3 DEF PreparedFor
  <2> QED BY <2>1, <2>2
<1>4. EveryReleaseHasItsSecret' /\ OnlyResolvedPackages'
  BY <1>2 DEF IInv, EveryReleaseHasItsSecret, OnlyResolvedPackages, taken
<1>5. ReportsInOrder'
  BY <1>2 DEF IInv, ReportsInOrder, ReportedBy
<1> QED BY <1>1, <1>3, <1>4, <1>5 DEF IInv

(* What Goto and Respond do to a handler.                                  *)
LEMMA MoveType ==
    ASSUME TypeOK, NEW h \in Handlers,
           NEW label \in {"idle", "resolve", "ensureSecret", "startInstall", "return"},
           NEW code \in {202, 500}, Goto(h, label) \/ Respond(h, code)
    PROVE  /\ pc' \in [Handlers -> {"idle", "resolve", "ensureSecret", "startInstall", "return"}]
           /\ status' \in [Handlers -> {0, 202, 500}]
           /\ ctx' \in [Handlers -> {"live", "cancelled"}]
<1>1. CASE Goto(h, label)
  BY <1>1 DEF Goto, TypeOK
<1>2. CASE Respond(h, code)
  <2>1. pc' = [pc EXCEPT ![h] = "idle"] /\ status' = [status EXCEPT ![h] = code]
        /\ ctx' = [ctx EXCEPT ![h] = "cancelled"]
    BY <1>2 DEF Respond
  <2>2. pc' \in [Handlers -> {"idle", "resolve", "ensureSecret", "startInstall", "return"}]
    BY <2>1 DEF TypeOK
  <2>3. status' \in [Handlers -> {0, 202, 500}]
    BY <2>1 DEF TypeOK
  <2>4. ctx' \in [Handlers -> {"live", "cancelled"}]
    BY <2>1 DEF TypeOK
  <2> QED BY <2>2, <2>3, <2>4
<1> QED BY <1>1, <1>2

(* A step of a handler that touches neither secrets nor jobs.              *)
LEMMA HandlerMove ==
    ASSUME IInv, NEW h \in Handlers,
           pc[h] \in {"resolve", "ensureSecret", "startInstall", "return"},
           UNCHANGED <<secrets, req, background>>,
           budget' = budget \/ Spend("faults"),
           \/ pc[h] = "resolve" /\ req[h].pkg \in Resolvable /\ Goto(h, "ensureSecret")
           \/ pc[h] # "return" /\ Respond(h, 500)
           \/ pc[h] = "return" /\ Respond(h, 202)
    PROVE  IInv'
<1>1. TypeOK'
  <2>1. budget' \in [{"requests", "faults", "crashes"} -> Nat]
    BY BudgetType DEF IInv, TypeOK
  <2>2. /\ pc' \in [Handlers -> {"idle", "resolve", "ensureSecret", "startInstall", "return"}]
        /\ status' \in [Handlers -> {0, 202, 500}]
        /\ ctx' \in [Handlers -> {"live", "cancelled"}]
    BY MoveType DEF IInv
  <2> QED BY <2>1, <2>2 DEF IInv, TypeOK, background
<1>2. \A g \in Handlers : g # h => pc'[g] = pc[g] /\ status'[g] = status[g]
  BY DEF IInv, TypeOK, Goto, Respond
<1>3. PreparedInOrder'
  <2> SUFFICES ASSUME NEW g \in Handlers PROVE PreparedFor(g)'
    BY DEF PreparedInOrder
  <2>1. Prepared(g)' <=> Prepared(g)
    BY DEF Prepared
  <2>2. taken(req[g].name)' <=> taken(req[g].name)
    BY DEF taken, background
  <2>3. /\ job' = job /\ installer' = installer /\ req' = req
        /\ PreparedFor(g) /\ PreparedFor(h)
    BY DEF background, IInv, PreparedInOrder
  <2>4. \/ pc'[h] = "ensureSecret" /\ req[h].pkg \in Resolvable /\ status' = status
              /\ pc[h] = "resolve"
        \/ pc'[h] = "idle"
    BY DEF IInv, TypeOK, Goto, Respond
  <2>5. CASE g = h
    BY <2>1, <2>2, <2>3, <2>4, <2>5 DEF PreparedFor
  <2>6. CASE g # h
    BY <1>2, <2>1, <2>2, <2>3, <2>6 DEF PreparedFor
  <2> QED BY <2>5, <2>6
<1>4. EveryReleaseHasItsSecret' /\ OnlyResolvedPackages'
  <2>1. secrets' = secrets /\ releases' = releases
    BY DEF background
  <2> QED BY <2>1 DEF IInv, EveryReleaseHasItsSecret, OnlyResolvedPackages, taken
<1>5. ReportsInOrder'
  <2>1. \/ status' = status
        \/ pc[h] # "return" /\ status'[h] = 500
        \/ status'[h] = 202
    BY DEF IInv, TypeOK, Goto, Respond
  <2>2. pc[h] # "return" => job[h] = "none"
    BY DEF IInv, PreparedInOrder, PreparedFor
  <2>3. job' = job /\ reports' = reports
    BY DEF background
  <2> QED BY <1>2, <2>1, <2>2, <2>3 DEF IInv, ReportsInOrder, ReportedBy
<1> QED BY <1>1, <1>3, <1>4, <1>5 DEF IInv

LEMMA EnsureStep ==
    ASSUME IInv, NEW h \in Handlers, EnsureOnyxiaSecret(h), req[h].ns # NoNamespace
    PROVE  IInv'
<1> DEFINE s == secretName(req[h])
           d == secretData(req[h])
<1>0. /\ pc[h] = "ensureSecret" /\ secrets' = [secrets EXCEPT ![s] = d]
      /\ UNCHANGED <<req, background>>
      /\ \/ Goto(h, "startInstall") /\ UNCHANGED budget
         \/ Respond(h, 500) /\ Spend("faults")
  BY DEF EnsureOnyxiaSecret
<1>s. s \in SecretNames /\ d \in SecretData /\ d # NoSecret /\ d.pkg = req[h].pkg
  BY RequestType, NamesAssumption DEF IInv, TypeOK, secretData
<1>k. /\ secrets'[s] = d
      /\ \A k \in SecretNames : k # s => secrets'[k] = secrets[k]
      /\ \A k \in SecretNames : secrets[k] # NoSecret => secrets'[k] # NoSecret
  BY <1>0, <1>s DEF IInv, TypeOK
<1>p. req[h].pkg \in Resolvable /\ job[h] = "none" /\ status[h] = 0
  BY <1>0 DEF IInv, PreparedInOrder, PreparedFor
<1>1. TypeOK'
  <2>1. budget' \in [{"requests", "faults", "crashes"} -> Nat]
    BY <1>0, BudgetType DEF IInv, TypeOK
  <2>2. secrets' \in [SecretNames -> SecretData \cup {NoSecret}]
    BY <1>0, <1>s DEF IInv, TypeOK
  <2>3. /\ pc' \in [Handlers -> {"idle", "resolve", "ensureSecret", "startInstall", "return"}]
        /\ status' \in [Handlers -> {0, 202, 500}]
        /\ ctx' \in [Handlers -> {"live", "cancelled"}]
    BY <1>0, MoveType DEF IInv
  <2> QED BY <1>0, <2>1, <2>2, <2>3 DEF IInv, TypeOK, background
<1>2. /\ \A g \in Handlers : g # h => pc'[g] = pc[g] /\ status'[g] = status[g]
      /\ \/ pc'[h] = "startInstall" /\ status' = status
         \/ pc'[h] = "idle" /\ status'[h] = 500
  BY <1>0 DEF IInv, TypeOK, Goto, Respond
<1>3. PreparedInOrder'
  <2>1. ASSUME NEW g \in Handlers, Prepared(g) PROVE Prepared(g)'
    BY <1>0, <1>k, <2>1, RequestType DEF Prepared, IInv, TypeOK
  <2>2. Prepared(h)'
    BY <1>0, <1>k, <1>p, <1>s DEF Prepared
  <2> SUFFICES ASSUME NEW g \in Handlers PROVE PreparedFor(g)'
    BY DEF PreparedInOrder
  <2>3. /\ job' = job /\ installer' = installer /\ req' = req /\ releases' = releases
        /\ PreparedFor(g) /\ PreparedFor(h)
    BY <1>0 DEF background, IInv, PreparedInOrder
  <2>4. taken(req[g].name)' <=> taken(req[g].name)
    BY <2>3 DEF taken
  <2>5. CASE g = h
    BY <1>p, <1>2, <2>2, <2>3, <2>4, <2>5 DEF PreparedFor
  <2>6. CASE g # h
    BY <1>2, <2>1, <2>3, <2>4, <2>6 DEF PreparedFor
  <2> QED BY <2>5, <2>6
<1>4. EveryReleaseHasItsSecret'
  BY <1>0, <1>k DEF IInv, EveryReleaseHasItsSecret, taken, background
<1>5. OnlyResolvedPackages'
  BY <1>0, <1>k, <1>s, <1>p DEF IInv, OnlyResolvedPackages, taken, background
<1>6. ReportsInOrder'
  BY <1>0, <1>2, <1>p DEF IInv, ReportsInOrder, ReportedBy, background
<1> QED BY <1>1, <1>3, <1>4, <1>5, <1>6 DEF IInv

LEMMA StartInstallStep ==
    ASSUME IInv, NEW h \in Handlers, StartInstall(h), req[h].name # NoName
    PROVE  IInv'
<1>0. /\ pc[h] = "startInstall" /\ pc' = [pc EXCEPT ![h] = "return"]
      /\ job' = [job EXCEPT ![h] = "begin"]
      /\ UNCHANGED <<secrets, releases, req, installer, reports, budget, status, ctx>>
  BY DEF StartInstall, Goto
<1>p. Prepared(h) /\ job[h] = "none" /\ status[h] = 0 /\ reports[h] = <<>>
  BY <1>0 DEF IInv, PreparedInOrder, PreparedFor, ReportsInOrder, ReportedBy
<1>1. TypeOK'
  BY <1>0 DEF IInv, TypeOK
<1>2. \A g \in Handlers : Prepared(g)' <=> Prepared(g)
  BY <1>0 DEF Prepared
<1>3. /\ pc'[h] = "return" /\ job'[h] = "begin"
      /\ \A g \in Handlers : g # h => pc'[g] = pc[g] /\ job'[g] = job[g]
  BY <1>0 DEF IInv, TypeOK
<1>i. installer[h] = "none"
  BY <1>p DEF IInv, PreparedInOrder, PreparedFor
<1>4. PreparedInOrder'
  <2> SUFFICES ASSUME NEW g \in Handlers PROVE PreparedFor(g)'
    BY DEF PreparedInOrder
  <2>1. CASE g = h
    BY <1>0, <1>p, <1>2, <1>3, <1>i, <2>1 DEF PreparedFor
  <2>2. CASE g # h
    <3>1. PreparedFor(g)
      BY DEF IInv, PreparedInOrder
    <3>2. taken(req[g].name)' <=> taken(req[g].name)
      BY <1>0 DEF taken
    <3> QED BY <1>0, <1>2, <1>3, <2>2, <3>1, <3>2 DEF PreparedFor
  <2> QED BY <2>1, <2>2
<1>5. EveryReleaseHasItsSecret' /\ OnlyResolvedPackages'
  BY <1>0 DEF IInv, EveryReleaseHasItsSecret, OnlyResolvedPackages, taken
<1>6. ReportsInOrder'
  BY <1>0, <1>p, <1>3 DEF IInv, ReportsInOrder, ReportedBy
<1> QED BY <1>1, <1>4, <1>5, <1>6 DEF IInv

-----------------------------------------------------------------------------
(* A step of a job: releases change only in their status, or one that did  *)
(* not exist becomes that of the job's request.                            *)
JobChange(h) ==
    /\ UNCHANGED <<foreground>>
    /\ \/ UNCHANGED releases
       \/ \E s \in {"deployed", "failed"} : taken(req[h].name) /\ Mark(req[h].name, s)
       \/ releases' = [releases EXCEPT ![req[h].name] = [status |-> "pending", of |-> req[h]]]
    /\ \E j \in {"begin", "run", "wait", "done"} : job' = [job EXCEPT ![h] = j]
    /\ \E i \in {"none", "working", "deployed", "broken"} :
          installer' = [installer EXCEPT ![h] = i]
    /\ job'[h] = "wait" \/ installer'[h] # "none" =>
          taken(req[h].name)' /\ job'[h] \in {"wait", "done"}
    /\ reports' \in [Handlers -> Seq({"start", "success", "error"})]
    /\ \A g \in Handlers : g # h => reports'[g] = reports[g]
    /\ job'[h] = "begin" => reports'[h] = <<>>
    /\ job'[h] \in {"run", "wait"} => reports'[h] = <<"start">>
    /\ job'[h] = "done" => reports'[h] \in {<<"start", "success">>, <<"start", "error">>}

LEMMA MarkType ==
    ASSUME releases \in [HelmNames -> Release], NEW n \in HelmNames,
           NEW s \in {"deployed", "failed"}, Mark(n, s)
    PROVE  /\ releases' \in [HelmNames -> Release]
           /\ \A k \in HelmNames : k # n => releases'[k] = releases[k]
           /\ releases'[n].status = s /\ releases'[n].of = releases[n].of
<1>1. releases[n] \in Release /\ releases[n] = [status |-> releases[n].status, of |-> releases[n].of]
      /\ releases[n].of \in StartRequest
  BY DEF Release
<1>2. [releases[n] EXCEPT !.status = s] = [status |-> s, of |-> releases[n].of]
  BY <1>1
<1>3. [status |-> s, of |-> releases[n].of] \in Release
  BY <1>1, Zenon DEF Release
<1>4. releases' = [releases EXCEPT ![n] = [status |-> s, of |-> releases[n].of]]
  BY <1>2 DEF Mark
<1> QED BY <1>3, <1>4

LEMMA JobStep ==
    ASSUME IInv, NEW h \in Handlers, job[h] # "none", JobChange(h),
           budget' = budget \/ Spend("faults")
    PROVE  IInv'
<1> DEFINE n == req[h].name
<1>n. n \in HelmNames /\ n # NoName /\ Prepared(h) /\ req[h] \in StartRequest
  BY RequestType DEF IInv, PreparedInOrder, PreparedFor, TypeOK
<1>f. secrets' = secrets /\ pc' = pc /\ req' = req /\ status' = status /\ ctx' = ctx
  BY DEF JobChange, foreground
<1>r. /\ releases' \in [HelmNames -> Release]
      /\ \A k \in HelmNames : k # n => releases'[k] = releases[k]
      /\ taken(n)' => (taken(n) /\ releases'[n].of = releases[n].of) \/ releases'[n].of = req[h]
      /\ taken(n) => taken(n)'
  <2>0. releases \in [HelmNames -> Release]
    BY DEF IInv, TypeOK
  <2>1. CASE UNCHANGED releases
    BY <2>0, <2>1, <1>f DEF taken
  <2>2. CASE \E s \in {"deployed", "failed"} : taken(n) /\ Mark(n, s)
    <3>1. PICK s \in {"deployed", "failed"} : taken(n) /\ Mark(n, s)
      BY <2>2
    <3>2. /\ releases' \in [HelmNames -> Release]
          /\ \A k \in HelmNames : k # n => releases'[k] = releases[k]
          /\ releases'[n].status = s /\ releases'[n].of = releases[n].of
      BY <2>0, <3>1, <1>n, MarkType
    <3> QED BY <3>1, <3>2, <1>f DEF taken
  <2>3. CASE releases' = [releases EXCEPT ![n] = [status |-> "pending", of |-> req[h]]]
    <3>1. [status |-> "pending", of |-> req[h]] \in Release
      BY <1>n, Zenon DEF Release
    <3>2. releases'[n] = [status |-> "pending", of |-> req[h]]
      BY <2>0, <2>3, <1>n
    <3>3. releases'[n].status = "pending" /\ releases'[n].of = req[h]
      BY <3>2
    <3>4. taken(n)'
      BY <1>f, <3>3 DEF taken
    <3>5. /\ releases' \in [HelmNames -> Release]
          /\ \A k \in HelmNames : k # n => releases'[k] = releases[k]
      BY <2>0, <2>3, <3>1
    <3> QED BY <3>3, <3>4, <3>5
  <2> QED BY <2>1, <2>2, <2>3 DEF JobChange
<1>1. TypeOK'
  <2>1. budget' \in [{"requests", "faults", "crashes"} -> Nat]
    BY BudgetType DEF IInv, TypeOK
  <2>2. /\ job' \in [Handlers -> {"none", "begin", "run", "wait", "done"}]
        /\ installer' \in [Handlers -> {"none", "working", "deployed", "broken"}]
    BY DEF JobChange, IInv, TypeOK
  <2>3. reports' \in [Handlers -> Seq({"start", "success", "error"})]
    BY DEF JobChange
  <2> QED BY <1>f, <1>r, <2>1, <2>2, <2>3 DEF IInv, TypeOK
<1>2. /\ job'[h] \in {"begin", "run", "wait", "done"}
      /\ \A g \in Handlers : g # h => job'[g] = job[g] /\ installer'[g] = installer[g]
  BY DEF JobChange, IInv, TypeOK
<1>3. PreparedInOrder'
  <2> SUFFICES ASSUME NEW g \in Handlers PROVE PreparedFor(g)'
    BY DEF PreparedInOrder
  <2>1. Prepared(g)' <=> Prepared(g)
    BY <1>f DEF Prepared
  <2>2. PreparedFor(g) /\ PreparedFor(h)
    BY DEF IInv, PreparedInOrder
  <2>4. CASE g = h
    <3>1. job'[h] = "wait" \/ installer'[h] # "none" =>
             taken(req[h].name)' /\ job'[h] \in {"wait", "done"}
      BY DEF JobChange
    <3> QED BY <2>1, <2>2, <2>4, <3>1, <1>f, <1>n DEF PreparedFor
  <2>5. CASE g # h
    <3>1. job[g] # "none" => req[g].name \in HelmNames
      BY <2>2, RequestType DEF PreparedFor, IInv, TypeOK
    <3>2. job[g] # "none" /\ taken(req[g].name) => taken(req[g].name)'
      BY <3>1, <1>f, <1>r DEF taken
    <3>3. installer[g] # "none" => job[g] # "none"
      BY <2>2 DEF PreparedFor
    <3> QED BY <2>1, <2>2, <2>5, <3>2, <3>3, <1>f, <1>2 DEF PreparedFor
  <2> QED BY <2>4, <2>5
<1>4. EveryReleaseHasItsSecret'
  <2> SUFFICES ASSUME NEW k \in HelmNames, taken(k)'
               PROVE  /\ secretName(releases'[k].of) \in SecretNames
                      /\ secrets[secretName(releases'[k].of)] # NoSecret
    BY <1>f DEF EveryReleaseHasItsSecret, secretName
  <2>1. CASE releases'[k].of = req[h]
    BY <2>1, <1>n, RequestType DEF Prepared
  <2>2. CASE taken(k) /\ releases'[k].of = releases[k].of
    BY <2>2 DEF IInv, EveryReleaseHasItsSecret
  <2>3. k # n => taken(k) /\ releases'[k].of = releases[k].of
    BY <1>r DEF taken
  <2>4. k = n => (taken(k) /\ releases'[k].of = releases[k].of) \/ releases'[k].of = req[h]
    BY <1>r, <1>f DEF taken
  <2> QED BY <2>1, <2>2, <2>3, <2>4
<1>5. OnlyResolvedPackages'
  <2>1. ASSUME NEW k \in HelmNames, taken(k)' PROVE releases'[k].of.pkg \in Resolvable
    <3>1. CASE releases'[k].of = req[h]
      BY <3>1, <1>n DEF Prepared
    <3>2. CASE taken(k) /\ releases'[k].of = releases[k].of
      BY <3>2 DEF IInv, OnlyResolvedPackages
    <3>3. k # n => taken(k) /\ releases'[k].of = releases[k].of
      BY <2>1, <1>r DEF taken
    <3>4. k = n => (taken(k) /\ releases'[k].of = releases[k].of) \/ releases'[k].of = req[h]
      BY <2>1, <1>r, <1>f DEF taken
    <3> QED BY <3>1, <3>2, <3>3, <3>4
  <2> QED BY <1>f, <2>1 DEF IInv, OnlyResolvedPackages
<1>6. ReportsInOrder'
  <2>1. status[h] # 500
    BY DEF IInv, ReportsInOrder, ReportedBy
  <2> SUFFICES ASSUME NEW g \in Handlers PROVE ReportedBy(g)'
    BY DEF ReportsInOrder
  <2>2. CASE g = h
    BY <1>f, <1>2, <2>1, <2>2 DEF ReportedBy, JobChange
  <2>3. CASE g # h
    BY <1>f, <1>2, <2>3 DEF IInv, ReportsInOrder, ReportedBy, JobChange
  <2> QED BY <2>2, <2>3
<1> QED BY <1>1, <1>3, <1>4, <1>5, <1>6 DEF IInv

LEMMA AppendToOne ==
    ASSUME NEW a, NEW b
    PROVE  Append(<<a>>, b) = <<a, b>>
<1> DEFINE s == Append(<<a>>, b)
<1>1. <<a>> \in Seq({a, b})
  OBVIOUS
<1>2. s = [i \in 1..2 |-> s[i]] /\ s[1] = a /\ s[2] = b
  BY <1>1
<1>3. \A i \in 1..2 : s[i] = <<a, b>>[i]
  BY <1>2
<1>4. <<a, b>> = [i \in 1..2 |-> <<a, b>>[i]]
  OBVIOUS
<1>5. [i \in 1..2 |-> s[i]] = [i \in 1..2 |-> <<a, b>>[i]]
  BY <1>3, Zenon
<1> QED BY <1>2, <1>4, <1>5, Zenon

LEMMA ReportType ==
    ASSUME TypeOK, NEW h \in Handlers, NEW what \in {"start", "success", "error"},
           Report(h, what)
    PROVE  /\ reports' \in [Handlers -> Seq({"start", "success", "error"})]
           /\ \A g \in Handlers : g # h => reports'[g] = reports[g]
           /\ reports[h] = <<>> => reports'[h] = <<what>>
           /\ reports[h] = <<"start">> => reports'[h] = <<"start", what>>
<1>1. Append(reports[h], what) \in Seq({"start", "success", "error"})
  BY DEF TypeOK
<1>2. reports' = [reports EXCEPT ![h] = Append(reports[h], what)]
  BY DEF Report
<1>3. reports'[h] = Append(reports[h], what) /\ \A g \in Handlers : g # h => reports'[g] = reports[g]
  BY <1>2 DEF TypeOK
<1>4. reports' \in [Handlers -> Seq({"start", "success", "error"})]
  BY <1>1, <1>2 DEF TypeOK
<1>5. reports[h] = <<>> => reports'[h] = <<what>>
  BY <1>3
<1>6. reports[h] = <<"start">> => reports'[h] = <<"start", what>>
  <2>1. Append(<<"start">>, what) = <<"start", what>>
    BY AppendToOne, Zenon
  <2> QED BY <1>3, <2>1
<1> QED BY <1>3, <1>4, <1>5, <1>6

LEMMA JobSteps ==
    ASSUME IInv, NEW h \in Handlers, Job(h) \/ performInstall(h)
    PROVE  IInv'
<1>t. /\ TypeOK /\ job \in [Handlers -> {"none", "begin", "run", "wait", "done"}]
      /\ installer \in [Handlers -> {"none", "working", "deployed", "broken"}]
      /\ reports \in [Handlers -> Seq({"start", "success", "error"})]
      /\ job = [job EXCEPT ![h] = job[h]] /\ installer = [installer EXCEPT ![h] = installer[h]]
      /\ job[h] = "begin" => reports[h] = <<>>
      /\ job[h] \in {"run", "wait"} => reports[h] = <<"start">>
      /\ job[h] = "done" => reports[h] \in {<<"start", "success">>, <<"start", "error">>}
      /\ job[h] = "wait" => taken(req[h].name)
      /\ installer[h] # "none" => taken(req[h].name) /\ job[h] \in {"wait", "done"}
  BY DEF IInv, TypeOK, PreparedInOrder, PreparedFor, ReportsInOrder, ReportedBy
<1>n. job[h] # "none" => req[h].name \in HelmNames
  BY RequestType DEF IInv, PreparedInOrder, PreparedFor, TypeOK
<1>m. ASSUME NEW s \in {"deployed", "failed"}, Mark(req[h].name, s), job[h] # "none",
             req' = req
      PROVE  taken(req[h].name)'
  <2>1. releases'[req[h].name].status = s
    BY <1>m, <1>n, <1>t, MarkType DEF TypeOK
  <2> QED BY <2>1, <1>m DEF taken
<1>1. CASE OnStart(h)
  BY <1>1, <1>t, ReportType, JobStep DEF OnStart, JobAt, JobChange
<1>2. CASE RunWithContext(h)
  <2>1. CASE /\ ~taken(req[h].name) /\ JobAt(h, "wait") /\ InstallerAt(h, "working")
             /\ releases' = [releases EXCEPT ![req[h].name] =
                   [status |-> "pending", of |-> req[h]]]
             /\ UNCHANGED <<reports, budget>>
    <3>1. releases'[req[h].name].status = "pending" /\ req' = req
      BY <1>2, <2>1, <1>n, <1>t DEF RunWithContext, TypeOK, foreground
    <3>2. taken(req[h].name)'
      BY <3>1 DEF taken
    <3>3. JobChange(h)
      BY <1>2, <1>t, <2>1, <3>2 DEF RunWithContext, JobChange, JobAt, InstallerAt
    <3> QED BY <1>2, <2>1, <3>3, JobStep DEF RunWithContext
  <2>2. CASE /\ Report(h, "error") /\ JobAt(h, "done") /\ UNCHANGED <<releases, installer>>
             /\ budget' = budget \/ Spend("faults")
    <3>1. installer[h] = "none"
      BY <1>2, <1>t DEF RunWithContext
    <3>2. JobChange(h)
      BY <1>2, <1>t, <2>2, <3>1, ReportType DEF RunWithContext, JobChange, JobAt
    <3> QED BY <1>2, <2>2, <3>2, JobStep DEF RunWithContext
  <2> QED BY <1>2, <2>1, <2>2 DEF RunWithContext
<1>3. CASE Succeeded(h)
  BY <1>3, <1>t, ReportType, JobStep DEF Succeeded, JobAt, InstallerAt, JobChange
<1>4. CASE Failed(h)
  <2>1. taken(req[h].name) /\ taken(req[h].name)'
    BY <1>4, <1>m, <1>t DEF Failed, foreground
  <2>2. \E i \in {"none", "working"} : installer' = [installer EXCEPT ![h] = i]
    BY <1>4 DEF Failed, InstallerAt
  <2>3. JobChange(h)
    BY <1>4, <1>t, <2>1, <2>2, ReportType DEF Failed, JobAt, JobChange
  <2> QED BY <1>4, <2>3, JobStep DEF Failed
<1>5. CASE performInstall(h)
  <2>0. job[h] \in {"wait", "done"} /\ job' = job /\ reports' = reports
        /\ taken(req[h].name) /\ UNCHANGED foreground
    BY <1>5, <1>t DEF performInstall
  <2>1. CASE Mark(req[h].name, "deployed") /\ UNCHANGED budget
             /\ InstallerAt(h, IF job[h] = "wait" THEN "deployed" ELSE "none")
    <3>1. taken(req[h].name)'
      BY <2>0, <2>1, <1>m DEF foreground
    <3>2. JobChange(h)
      BY <1>t, <2>0, <2>1, <3>1 DEF InstallerAt, JobChange
    <3> QED BY <2>0, <2>1, <3>2, JobStep
  <2>2. CASE Spend("faults") /\ UNCHANGED releases
             /\ InstallerAt(h, IF job[h] = "wait" THEN "broken" ELSE "none")
    <3>1. taken(req[h].name)'
      BY <2>0, <2>2 DEF taken, foreground
    <3>2. JobChange(h)
      BY <1>t, <2>0, <2>2, <3>1 DEF InstallerAt, JobChange
    <3> QED BY <2>0, <2>2, <3>2, JobStep
  <2> QED BY <1>5, <2>1, <2>2 DEF performInstall
<1> QED BY <1>1, <1>2, <1>3, <1>4, <1>5 DEF Job

LEMMA CrashStep == ASSUME IInv, CrashRestart PROVE IInv'
<1>1. TypeOK'
  <2>1. budget' \in [{"requests", "faults", "crashes"} -> Nat]
    BY BudgetType DEF CrashRestart, IInv, TypeOK
  <2>2. reports' \in [Handlers -> Seq({"start", "success", "error"})]
    BY DEF CrashRestart
  <2> QED BY <2>1, <2>2 DEF CrashRestart, IInv, TypeOK
<1>2. PreparedInOrder' /\ ReportsInOrder'
  BY DEF CrashRestart, PreparedInOrder, PreparedFor, ReportsInOrder, ReportedBy
<1>3. EveryReleaseHasItsSecret' /\ OnlyResolvedPackages'
  BY DEF CrashRestart, IInv, EveryReleaseHasItsSecret, OnlyResolvedPackages, taken
<1> QED BY <1>1, <1>2, <1>3 DEF IInv

LEMMA HandlerSteps ==
    ASSUME IInv, NEW h \in Handlers, Handle(h) \/ CallFails(h)
    PROVE  IInv'
<1>1. CASE ResolvePackage(h)
  BY <1>1, HandlerMove DEF ResolvePackage
<1>2. CASE EnsureOnyxiaSecret(h)
  <2>1. CASE req[h].ns = NoNamespace
    BY <1>2, <2>1, HandlerMove DEF EnsureOnyxiaSecret
  <2> QED BY <1>2, <2>1, EnsureStep
<1>3. CASE StartInstall(h)
  <2>1. CASE req[h].name = NoName
    BY <1>3, <2>1, HandlerMove DEF StartInstall, background
  <2> QED BY <1>3, <2>1, StartInstallStep
<1>4. CASE Return(h)
  BY <1>4, HandlerMove DEF Return
<1>5. CASE CallFails(h)
  BY <1>5, HandlerMove DEF CallFails
<1> QED BY <1>1, <1>2, <1>3, <1>4, <1>5 DEF Handle

LEMMA InvStep == IInv /\ [Next]_vars => IInv'
<1> SUFFICES ASSUME IInv, [Next]_vars PROVE IInv'
  OBVIOUS
<1>1. ASSUME NEW h \in Handlers, NEW r \in HttpRequests, InstallService(h, r) PROVE IInv'
  BY <1>1, AcceptStep, StartRequestOfType DEF InstallService
<1>2. ASSUME NEW h \in Handlers, NEW q \in StartRequests, Start(h, q) PROVE IInv'
  BY <1>2, AcceptStep, RequestsAssumption DEF Start
<1>3. ASSUME NEW h \in Handlers, Handle(h) \/ CallFails(h) PROVE IInv'
  BY <1>3, HandlerSteps
<1>4. ASSUME NEW h \in Handlers, Job(h) \/ performInstall(h) PROVE IInv'
  BY <1>4, JobSteps
<1>5. CASE CrashRestart
  BY <1>5, CrashStep
<1>6. CASE UNCHANGED vars
  BY <1>6 DEF vars, IInv, TypeOK, PreparedInOrder, PreparedFor, Prepared,
              EveryReleaseHasItsSecret, OnlyResolvedPackages, ReportsInOrder, ReportedBy, taken
<1> QED BY <1>1, <1>2, <1>3, <1>4, <1>5, <1>6 DEF Next

-----------------------------------------------------------------------------
(* Every release Helm knows has its Onyxia secret, written before Helm was *)
(* asked, through faults, crashes and cancelled requests                   *)
(* (ServiceLifecycle.Start).                                               *)
THEOREM ReleasesHaveSecrets == Spec => []EveryReleaseHasItsSecret
<1>1. IInv => EveryReleaseHasItsSecret
  BY DEF IInv
<1> QED BY InvInit, InvStep, <1>1, PTL DEF Spec

(* Neither a secret nor a release is ever left for a package that does not *)
(* resolve (ServiceLifecycle.Start).                                       *)
THEOREM UnresolvedLeavesNothing == Spec => []OnlyResolvedPackages
<1>1. IInv => OnlyResolvedPackages
  BY DEF IInv
<1> QED BY InvInit, InvStep, <1>1, PTL DEF Spec

(* A job reports its start and exactly one outcome, and a request answered *)
(* 500 has no job (StartInstall).                                          *)
THEOREM OneOutcomeIsReported == Spec => []ReportsInOrder
<1>1. IInv => ReportsInOrder
  BY DEF IInv
<1> QED BY InvInit, InvStep, <1>1, PTL DEF Spec

-----------------------------------------------------------------------------
(* Helm's goroutines.  One that is at work, or has an end to tell, is the  *)
(* only one on its name; the release under that name is of its own         *)
(* request, and only its job has touched the status.                       *)

UnderWay == [wait |-> "pending", done |-> "failed"]

Owns(h) ==
    /\ job[h] = "wait" => installer[h] # "none"
    /\ installer[h] \in {"deployed", "broken"} => job[h] = "wait"
    /\ installer[h] # "none" =>
          /\ releases[req[h].name].of = req[h]
          /\ job[h] = "done" => reports[h] = <<"start", "error">>
    /\ installer[h] = "working" => releases[req[h].name].status = UnderWay[job[h]]
    /\ installer[h] = "deployed" => releases[req[h].name].status = "deployed"
    /\ installer[h] = "broken" => releases[req[h].name].status = "pending"

Apart(g, h) ==
    installer[g] # "none" /\ installer[h] # "none" => req[g].name # req[h].name

InstallersOwnTheirReleases ==
    /\ \A h \in Handlers : Owns(h)
    /\ \A g, h \in Handlers : g # h => Apart(g, h)

(* A step of one handler that leaves the releases of the others alone.     *)
LEMMA OwnFrame ==
    ASSUME InstallersOwnTheirReleases, NEW h \in Handlers,
           \A g \in Handlers : g # h =>
              /\ installer'[g] = installer[g] /\ job'[g] = job[g]
              /\ req'[g] = req[g] /\ reports'[g] = reports[g]
              /\ installer[g] # "none" =>
                    /\ releases'[req[g].name] = releases[req[g].name]
                    /\ installer'[h] # "none" => req'[h].name # req[g].name,
           Owns(h)'
    PROVE  InstallersOwnTheirReleases'
<1>1. ASSUME NEW g \in Handlers PROVE Owns(g)'
  <2>1. CASE g # h
    <3>1. Owns(g)
      BY DEF InstallersOwnTheirReleases
    <3>2. /\ installer'[g] = installer[g] /\ job'[g] = job[g]
          /\ req'[g] = req[g] /\ reports'[g] = reports[g]
          /\ installer[g] # "none" => releases'[req[g].name] = releases[req[g].name]
      BY <2>1
    <3> QED BY <3>1, <3>2 DEF Owns
  <2> QED BY <2>1
<1>2. ASSUME NEW f \in Handlers, NEW g \in Handlers, f # g PROVE Apart(f, g)'
  <2>1. CASE f # h /\ g # h
    BY <1>2, <2>1 DEF InstallersOwnTheirReleases, Apart
  <2>2. CASE f = h \/ g = h
    BY <1>2, <2>2 DEF Apart
  <2> QED BY <2>1, <2>2
<1> QED BY <1>1, <1>2 DEF InstallersOwnTheirReleases

(* Steps of the handlers that are not the goroutines' own.                 *)
LEMMA OwnAccept ==
    ASSUME IInv, InstallersOwnTheirReleases, NEW h \in Handlers, NEW q,
           NEW label, Accept(h, q, label)
    PROVE  InstallersOwnTheirReleases'
<1>1. /\ installer'[h] = "none" /\ job'[h] = "none" /\ releases' = releases
      /\ \A g \in Handlers : g # h =>
            /\ installer'[g] = installer[g] /\ job'[g] = job[g]
            /\ req'[g] = req[g] /\ reports'[g] = reports[g]
  BY DEF Accept, IInv, TypeOK
<1>2. Owns(h)'
  BY <1>1 DEF Owns
<1> QED BY <1>1, <1>2, OwnFrame

LEMMA OwnHandle ==
    ASSUME IInv, InstallersOwnTheirReleases, NEW h \in Handlers,
           Handle(h) \/ CallFails(h)
    PROVE  InstallersOwnTheirReleases'
<1>1. UNCHANGED <<releases, installer, reports, req>>
  BY DEF Handle, CallFails, ResolvePackage, EnsureOnyxiaSecret, StartInstall, Return,
         background
<1>2. \/ job' = job
      \/ pc[h] = "startInstall" /\ job' = [job EXCEPT ![h] = "begin"]
  BY DEF Handle, CallFails, ResolvePackage, EnsureOnyxiaSecret, StartInstall, Return,
         background
<1>3. CASE job' = job
  BY <1>1, <1>3 DEF InstallersOwnTheirReleases, Owns, Apart
<1>4. CASE pc[h] = "startInstall" /\ job' = [job EXCEPT ![h] = "begin"]
  <2>1. installer[h] = "none"
    BY <1>4 DEF IInv, PreparedInOrder, PreparedFor
  <2>2. job'[h] = "begin" /\ \A g \in Handlers : g # h => job'[g] = job[g]
    BY <1>4 DEF IInv, TypeOK
  <2>3. Owns(h)'
    BY <1>1, <2>1, <2>2 DEF Owns
  <2> QED BY <1>1, <2>1, <2>2, <2>3, OwnFrame
<1> QED BY <1>2, <1>3, <1>4

(* A step of a job or of Helm, by what it does to its own handler.         *)
LEMMA JobEffect ==
    ASSUME IInv, InstallersOwnTheirReleases, NEW h \in Handlers,
           Job(h) \/ performInstall(h)
    PROVE  /\ UNCHANGED foreground
           /\ req[h].name \in HelmNames
           /\ \A g \in Handlers : g # h =>
                 /\ job'[g] = job[g] /\ installer'[g] = installer[g]
                 /\ reports'[g] = reports[g]
           /\ \A n \in HelmNames : n # req[h].name => releases'[n] = releases[n]
           /\ installer[h] = "none" /\ taken(req[h].name) => releases' = releases
           /\ Owns(h)'
<1> DEFINE n == req[h].name
<1>t. /\ releases \in [HelmNames -> Release]
      /\ job \in [Handlers -> {"none", "begin", "run", "wait", "done"}]
      /\ installer \in [Handlers -> {"none", "working", "deployed", "broken"}]
      /\ reports \in [Handlers -> Seq({"start", "success", "error"})]
      /\ req[h] \in StartRequest /\ TypeOK
  BY DEF IInv, TypeOK
<1>p. /\ job[h] # "none" => req[h].name # NoName
      /\ installer[h] # "none" => taken(n) /\ job[h] \in {"wait", "done"}
      /\ job[h] = "wait" => reports[h] = <<"start">>
      /\ job[h] = "begin" => reports[h] = <<>>
  BY DEF IInv, PreparedInOrder, PreparedFor, ReportsInOrder, ReportedBy
<1>o. Owns(h)
  BY DEF InstallersOwnTheirReleases
<1>j. job[h] # "none"
  BY <1>p DEF Job, OnStart, RunWithContext, Succeeded, Failed, performInstall
<1>n. n \in HelmNames
  BY <1>j, <1>p, <1>t, RequestType
<1>f. UNCHANGED foreground /\ req' = req
  BY DEF Job, OnStart, RunWithContext, Succeeded, Failed, performInstall, foreground
<1>1. CASE OnStart(h)
  <2>1. /\ installer' = installer /\ releases' = releases
        /\ job'[h] = "run" /\ \A g \in Handlers : g # h => job'[g] = job[g]
    BY <1>1, <1>t DEF OnStart, JobAt
  <2>2. \A g \in Handlers : g # h => reports'[g] = reports[g]
    BY <1>1, <1>t, ReportType DEF OnStart
  <2>3. installer[h] = "none"
    BY <1>1, <1>p DEF OnStart
  <2>4. Owns(h)'
    BY <2>1, <2>3 DEF Owns
  <2> QED BY <1>f, <1>n, <2>1, <2>2, <2>4
<1>2. CASE RunWithContext(h)
  <2>0. installer[h] = "none"
    BY <1>2, <1>p DEF RunWithContext
  <2>1. CASE /\ ~taken(n) /\ JobAt(h, "wait") /\ InstallerAt(h, "working")
             /\ releases' = [releases EXCEPT ![n] = [status |-> "pending", of |-> req[h]]]
             /\ reports' = reports
    <3>1. /\ job'[h] = "wait" /\ installer'[h] = "working"
          /\ \A g \in Handlers : g # h =>
                job'[g] = job[g] /\ installer'[g] = installer[g]
      BY <2>1, <1>t DEF JobAt, InstallerAt
    <3>2. releases'[n] = [status |-> "pending", of |-> req[h]]
      BY <2>1, <1>n, <1>t
    <3>3. releases'[n].status = "pending" /\ releases'[n].of = req[h]
      BY <3>2
    <3>4. \A m \in HelmNames : m # n => releases'[m] = releases[m]
      BY <2>1, <1>t
    <3>5. Owns(h)'
      BY <1>f, <3>1, <3>3 DEF Owns, UnderWay
    <3> QED BY <1>f, <1>n, <2>1, <3>1, <3>4, <3>5
  <2>2. CASE /\ Report(h, "error") /\ JobAt(h, "done") /\ releases' = releases
             /\ installer' = installer
    <3>1. job'[h] = "done" /\ \A g \in Handlers : g # h => job'[g] = job[g]
      BY <2>2, <1>t DEF JobAt
    <3>2. \A g \in Handlers : g # h => reports'[g] = reports[g]
      BY <2>2, <1>t, ReportType
    <3>3. Owns(h)'
      BY <2>0, <2>2, <3>1 DEF Owns
    <3> QED BY <1>f, <1>n, <2>2, <3>1, <3>2, <3>3
  <2> QED BY <1>2, <2>1, <2>2 DEF RunWithContext
<1>3. CASE Succeeded(h)
  <2>1. /\ job'[h] = "done" /\ installer'[h] = "none" /\ releases' = releases
        /\ \A g \in Handlers : g # h =>
              job'[g] = job[g] /\ installer'[g] = installer[g]
    BY <1>3, <1>t DEF Succeeded, JobAt, InstallerAt
  <2>2. \A g \in Handlers : g # h => reports'[g] = reports[g]
    BY <1>3, <1>t, ReportType DEF Succeeded
  <2>3. Owns(h)'
    BY <2>1 DEF Owns
  <2> QED BY <1>f, <1>n, <2>1, <2>2, <2>3
<1>4. CASE Failed(h)
  <2>1. /\ job'[h] = "done"
        /\ installer'[h] = IF installer[h] = "working" THEN "working" ELSE "none"
        /\ \A g \in Handlers : g # h =>
              job'[g] = job[g] /\ installer'[g] = installer[g]
    BY <1>4, <1>t DEF Failed, JobAt, InstallerAt
  <2>2. /\ reports'[h] = <<"start", "error">>
        /\ \A g \in Handlers : g # h => reports'[g] = reports[g]
    BY <1>4, <1>p, <1>t, ReportType DEF Failed
  <2>3. /\ releases'[n].status = "failed" /\ releases'[n].of = releases[n].of
        /\ \A m \in HelmNames : m # n => releases'[m] = releases[m]
    BY <1>4, <1>n, <1>t, MarkType DEF Failed
  <2>4. installer[h] # "none" /\ releases[n].of = req[h]
    BY <1>4, <1>o DEF Failed, Owns
  <2>5. Owns(h)'
    BY <1>f, <2>1, <2>2, <2>3, <2>4 DEF Owns, UnderWay
  <2> QED BY <1>f, <1>n, <2>1, <2>2, <2>3, <2>4, <2>5
<1>5. CASE performInstall(h)
  <2>0. /\ installer[h] = "working" /\ job' = job /\ reports' = reports
        /\ releases[n].of = req[h] /\ job[h] \in {"wait", "done"}
        /\ job[h] = "done" => reports[h] = <<"start", "error">>
        /\ job[h] = "wait" => releases[n].status = "pending"
    BY <1>5, <1>o, <1>p DEF performInstall, Owns, UnderWay
  <2>1. CASE Mark(n, "deployed")
             /\ InstallerAt(h, IF job[h] = "wait" THEN "deployed" ELSE "none")
    <3>1. /\ releases'[n].status = "deployed" /\ releases'[n].of = releases[n].of
          /\ \A m \in HelmNames : m # n => releases'[m] = releases[m]
      BY <2>1, <1>n, <1>t, MarkType
    <3>2. /\ installer'[h] = IF job[h] = "wait" THEN "deployed" ELSE "none"
          /\ \A g \in Handlers : g # h => installer'[g] = installer[g]
      BY <2>1, <1>t DEF InstallerAt
    <3>3. Owns(h)'
      BY <1>f, <2>0, <3>1, <3>2 DEF Owns
    <3> QED BY <1>f, <1>n, <2>0, <3>1, <3>2, <3>3
  <2>2. CASE releases' = releases
             /\ InstallerAt(h, IF job[h] = "wait" THEN "broken" ELSE "none")
    <3>1. /\ installer'[h] = IF job[h] = "wait" THEN "broken" ELSE "none"
          /\ \A g \in Handlers : g # h => installer'[g] = installer[g]
      BY <2>2, <1>t DEF InstallerAt
    <3>2. Owns(h)'
      BY <1>f, <2>0, <2>2, <3>1 DEF Owns
    <3> QED BY <1>f, <1>n, <2>0, <2>2, <3>1, <3>2
  <2> QED BY <1>5, <2>1, <2>2 DEF performInstall
<1> QED BY <1>1, <1>2, <1>3, <1>4, <1>5 DEF Job

LEMMA OwnJob ==
    ASSUME IInv, InstallersOwnTheirReleases, NEW h \in Handlers,
           Job(h) \/ performInstall(h)
    PROVE  InstallersOwnTheirReleases'
<1>1. /\ req' = req
      /\ \A g \in Handlers : g # h =>
            /\ job'[g] = job[g] /\ installer'[g] = installer[g]
            /\ reports'[g] = reports[g]
      /\ \A n \in HelmNames : n # req[h].name => releases'[n] = releases[n]
      /\ installer[h] = "none" /\ taken(req[h].name) => releases' = releases
      /\ Owns(h)'
  BY JobEffect DEF foreground
<1>2. ASSUME NEW g \in Handlers, g # h, installer[g] # "none"
      PROVE  /\ req[g].name \in HelmNames /\ taken(req[g].name)
             /\ installer[h] # "none" => req[h].name # req[g].name
  BY <1>2, RequestType
     DEF IInv, TypeOK, PreparedInOrder, PreparedFor, InstallersOwnTheirReleases, Apart
<1>3. ASSUME NEW g \in Handlers, g # h, installer[g] # "none"
      PROVE  releases'[req[g].name] = releases[req[g].name]
  BY <1>1, <1>2, <1>3
<1>4. ASSUME NEW g \in Handlers, g # h, installer[g] # "none", installer'[h] # "none"
      PROVE  req[h].name # req[g].name
  <2>1. CASE installer[h] # "none"
    BY <1>2, <1>4, <2>1
  <2>2. CASE installer[h] = "none"
    <3>1. ~taken(req[h].name)
      BY <1>4, <2>2 DEF Job, OnStart, RunWithContext, Succeeded, Failed, performInstall,
                        InstallerAt, IInv, TypeOK
    <3> QED BY <1>2, <1>4, <3>1
  <2> QED BY <2>1, <2>2
<1> QED BY <1>1, <1>3, <1>4, OwnFrame

LEMMA OwnStep ==
    IInv /\ InstallersOwnTheirReleases /\ [Next]_vars => InstallersOwnTheirReleases'
<1> SUFFICES ASSUME IInv, InstallersOwnTheirReleases, [Next]_vars
             PROVE  InstallersOwnTheirReleases'
  OBVIOUS
<1>1. CASE CrashRestart
  BY <1>1 DEF CrashRestart, InstallersOwnTheirReleases, Owns, Apart
<1>2. CASE UNCHANGED vars
  BY <1>2 DEF vars, InstallersOwnTheirReleases, Owns, Apart
<1> QED BY <1>1, <1>2, OwnAccept, OwnHandle, OwnJob DEF Next, InstallService, Start

LEMMA OwnInvariance == Spec => [](IInv /\ InstallersOwnTheirReleases)
<1>1. Init => InstallersOwnTheirReleases
  BY DEF Init, InstallersOwnTheirReleases, Owns, Apart
<1> QED BY <1>1, InvInit, InvStep, OwnStep, PTL DEF Spec

-----------------------------------------------------------------------------
(* The refinement: what the cluster and the listener see of a step is one  *)
(* step of InstallContract, or nothing.                                    *)

sTold == [h \in Handlers |->
             IF reports[h] = <<>> THEN "nothing" ELSE reports[h][Len(reports[h])]]

(* What was told last.                                                     *)
LEMMA ToldLast ==
    ASSUME NEW h \in Handlers
    PROVE  /\ reports[h] = <<>> => sTold[h] = "nothing"
           /\ \A what : reports[h] = <<what>> => sTold[h] = what
           /\ \A first, what : reports[h] = <<first, what>> => sTold[h] = what
<1>1. ASSUME reports[h] = <<>> PROVE sTold[h] = "nothing"
  BY <1>1 DEF sTold
<1>2. ASSUME NEW what, reports[h] = <<what>> PROVE sTold[h] = what
  <2>1. Len(<<what>>) = 1 /\ <<what>>[1] = what /\ <<what>> # <<>>
    OBVIOUS
  <2> QED BY <1>2, <2>1 DEF sTold
<1>3. ASSUME NEW first, NEW what, reports[h] = <<first, what>> PROVE sTold[h] = what
  <2>1. Len(<<first, what>>) = 2 /\ <<first, what>>[2] = what /\ <<first, what>> # <<>>
    OBVIOUS
  <2> QED BY <1>3, <2>1 DEF sTold
<1> QED BY <1>1, <1>2, <1>3

LEMMA ToldByJob ==
    ASSUME IInv, NEW h \in Handlers
    PROVE  /\ job[h] \in {"none", "begin"} => sTold[h] = "nothing"
           /\ job[h] \in {"run", "wait"} => sTold[h] = "start"
           /\ job[h] = "done" => sTold[h] \in {"success", "error"}
<1>1. /\ job[h] \in {"none", "begin"} => reports[h] = <<>>
      /\ job[h] \in {"run", "wait"} => reports[h] = <<"start">>
      /\ job[h] = "done" =>
            reports[h] = <<"start", "success">> \/ reports[h] = <<"start", "error">>
  BY DEF IInv, ReportsInOrder, ReportedBy
<1>2. reports[h] = <<"start">> => sTold[h] = "start"
  BY ToldLast, Zenon
<1>3. reports[h] = <<"start", "success">> => sTold[h] = "success"
  BY ToldLast, Zenon
<1>4. reports[h] = <<"start", "error">> => sTold[h] = "error"
  BY ToldLast, Zenon
<1>5. reports[h] = <<>> => sTold[h] = "nothing"
  BY ToldLast, Zenon
<1> HIDE DEF sTold
<1> QED BY <1>1, <1>2, <1>3, <1>4, <1>5

(* A callback of a job is the last word on it.                             *)
LEMMA ReportTells ==
    ASSUME IInv, NEW h \in Handlers, NEW what \in {"start", "success", "error"},
           Report(h, what), job[h] \in {"begin", "run", "wait"}
    PROVE  sTold' = [sTold EXCEPT ![h] = what]
<1>1. /\ \A g \in Handlers : g # h => reports'[g] = reports[g]
      /\ reports[h] = <<>> => reports'[h] = <<what>>
      /\ reports[h] = <<"start">> => reports'[h] = <<"start", what>>
  BY ReportType DEF IInv
<1>2. reports[h] \in {<<>>, <<"start">>}
  BY DEF IInv, ReportsInOrder, ReportedBy
<1>3. sTold'[h] = what
  <2>1. CASE reports'[h] = <<what>>
    <3>1. Len(<<what>>) = 1 /\ <<what>>[1] = what /\ <<what>> # <<>>
      OBVIOUS
    <3> QED BY <2>1, <3>1 DEF sTold
  <2>2. CASE reports'[h] = <<"start", what>>
    <3>1. /\ Len(<<"start", what>>) = 2 /\ <<"start", what>>[2] = what
          /\ <<"start", what>> # <<>>
      OBVIOUS
    <3> QED BY <2>2, <3>1 DEF sTold
  <2> QED BY <1>1, <1>2, <2>1, <2>2
<1>4. \A g \in Handlers : g # h => sTold'[g] = sTold[g]
  BY <1>1 DEF sTold
<1> QED BY <1>3, <1>4 DEF sTold

LEMMA AcceptSimulation ==
    ASSUME IInv, NEW h \in Handlers, NEW q, NEW label, Accept(h, q, label)
    PROVE  Contract!Ask(h)
<1>1. job[h] \in {"none", "done"} /\ UNCHANGED <<secrets, releases>>
  BY DEF Accept
<1>2. req' = [req EXCEPT ![h] = req'[h]]
  BY DEF Accept, IInv, TypeOK
<1>3. sTold' = [sTold EXCEPT ![h] = "nothing"]
  <2>1. reports'[h] = <<>> /\ \A g \in Handlers : g # h => reports'[g] = reports[g]
    BY DEF Accept, IInv, TypeOK
  <2> QED BY <2>1 DEF sTold
<1>4. sTold[h] # "start"
  BY <1>1, ToldByJob
<1> QED BY <1>1, <1>2, <1>3, <1>4 DEF Contract!Ask, Contract!Tell, sTold

(* EnsureOnyxiaSecret prepares; the other steps of a handler are not seen. *)
LEMMA HandleSimulation ==
    ASSUME IInv, NEW h \in Handlers, Handle(h) \/ CallFails(h)
    PROVE  Contract!Prepare(h) \/ UNCHANGED Contract!contract
<1>1. UNCHANGED <<releases, reports, req>>
  BY DEF Handle, CallFails, ResolvePackage, EnsureOnyxiaSecret, StartInstall, Return,
         background
<1>2. CASE secrets' = secrets
  BY <1>1, <1>2 DEF Contract!contract
<1>3. CASE secrets' # secrets
  <2>1. /\ pc[h] = "ensureSecret" /\ req[h].ns # NoNamespace
        /\ secrets' = [secrets EXCEPT ![secretName(req[h])] = secretData(req[h])]
    BY <1>3 DEF Handle, CallFails, ResolvePackage, EnsureOnyxiaSecret, StartInstall,
                Return
  <2>2. /\ job[h] = "none" /\ req[h].pkg \in Resolvable /\ req[h] \in StartRequest
    BY <2>1 DEF IInv, TypeOK, PreparedInOrder, PreparedFor
  <2>3. sTold[h] = "nothing" /\ sTold' = sTold
    BY <1>1, <2>2, ToldByJob DEF sTold
  <2> QED BY <1>1, <2>1, <2>2, <2>3 DEF Contract!Prepare, sTold
<1> QED BY <1>2, <1>3

LEMMA JobSimulation ==
    ASSUME IInv, InstallersOwnTheirReleases, NEW h \in Handlers,
           Job(h) \/ performInstall(h)
    PROVE  \/ Contract!Start(h) \/ Contract!Install(h) \/ Contract!Deploy(h)
           \/ Contract!Succeed(h) \/ Contract!Fail(h)
           \/ UNCHANGED Contract!contract
<1>f. /\ secrets' = secrets /\ req' = req /\ req[h].name \in HelmNames
  BY JobEffect DEF foreground
<1>o. Owns(h) /\ PreparedFor(h) /\ req[h] \in StartRequest
  BY DEF InstallersOwnTheirReleases, IInv, PreparedInOrder, TypeOK
<1>1. CASE OnStart(h)
  <2>1. sTold[h] = "nothing" /\ sTold' = [sTold EXCEPT ![h] = "start"]
    BY <1>1, ToldByJob, ReportTells DEF OnStart
  <2>2. releases' = releases /\ Prepared(h)
    BY <1>1, <1>o DEF OnStart, PreparedFor
  <2>3. Contract!Start(h)
    BY <1>f, <1>o, <2>1, <2>2 DEF Contract!Start, Contract!Tell, Prepared, sTold
  <2> QED BY <2>3
<1>2. CASE RunWithContext(h)
  <2>0. job[h] = "run" /\ sTold[h] = "start"
    BY <1>2, ToldByJob DEF RunWithContext
  <2>1. CASE /\ ~taken(req[h].name)
             /\ releases' = [releases EXCEPT ![req[h].name] =
                   [status |-> "pending", of |-> req[h]]]
             /\ reports' = reports
    <3>1. Contract!Install(h)
      BY <1>f, <2>0, <2>1 DEF Contract!Install, taken, sTold
    <3> QED BY <3>1
  <2>2. CASE Report(h, "error") /\ releases' = releases
    <3>1. sTold' = [sTold EXCEPT ![h] = "error"]
      BY <2>0, <2>2, ReportTells
    <3>2. Contract!Fail(h)
      BY <1>f, <2>0, <2>2, <3>1 DEF Contract!Fail, Contract!Tell, sTold
    <3> QED BY <3>2
  <2> QED BY <1>2, <2>1, <2>2 DEF RunWithContext
<1>3. CASE Succeeded(h)
  <2>1. /\ sTold[h] = "start" /\ sTold' = [sTold EXCEPT ![h] = "success"]
        /\ releases' = releases
    BY <1>3, ToldByJob, ReportTells DEF Succeeded
  <2>2. releases[req[h].name].of = req[h] /\ releases[req[h].name].status = "deployed"
    BY <1>3, <1>o DEF Succeeded, Owns
  <2>3. Contract!Succeed(h)
    BY <1>f, <2>1, <2>2
       DEF Contract!Succeed, Contract!Tell, Contract!MineIs, Contract!Mine, sTold
  <2> QED BY <2>3
<1>4. CASE Failed(h)
  <2>1. /\ sTold[h] = "start" /\ sTold' = [sTold EXCEPT ![h] = "error"]
        /\ Mark(req[h].name, "failed") /\ job[h] = "wait"
    BY <1>4, ToldByJob, ReportTells DEF Failed
  <2>2. /\ releases[req[h].name].of = req[h]
        /\ releases[req[h].name].status \in {"pending", "deployed"}
    BY <1>o, <2>1 DEF Owns, UnderWay, IInv, TypeOK
  <2>3. Contract!Fail(h)
    BY <1>f, <2>1, <2>2
       DEF Contract!Fail, Contract!Tell, Contract!MineIs, Contract!Mine,
           Contract!Mark, Mark, sTold
  <2> QED BY <2>3
<1>5. CASE performInstall(h)
  <2>0. installer[h] = "working" /\ reports' = reports /\ job[h] \in {"wait", "done"}
    BY <1>5, <1>o DEF performInstall, PreparedFor
  <2>1. CASE releases' = releases
    BY <1>f, <2>0, <2>1 DEF Contract!contract
  <2>2. CASE Mark(req[h].name, "deployed")
    <3>1. sTold[h] \in {"start", "error"}
      <4>1. CASE job[h] = "wait"
        BY <4>1, ToldByJob
      <4>2. CASE job[h] = "done"
        <5>1. reports[h] = <<"start", "error">>
          BY <2>0, <4>2, <1>o DEF Owns
        <5> QED BY <5>1, ToldLast
      <4> QED BY <2>0, <4>1, <4>2
    <3>2. /\ releases[req[h].name].of = req[h]
          /\ releases[req[h].name].status \in {"pending", "failed"}
      BY <1>o, <2>0 DEF Owns, UnderWay
    <3>3. Contract!Deploy(h)
      BY <1>f, <2>0, <2>2, <3>1, <3>2
         DEF Contract!Deploy, Contract!MineIs, Contract!Mine, Contract!Mark, Mark, sTold
    <3> QED BY <3>3
  <2> QED BY <1>5, <2>1, <2>2 DEF performInstall
<1> QED BY <1>1, <1>2, <1>3, <1>4, <1>5 DEF Job

LEMMA CrashSimulation == ASSUME CrashRestart PROVE Contract!Forget
<1>1. sTold' = [h \in Handlers |-> "nothing"]
  BY DEF CrashRestart, sTold
<1> QED BY <1>1 DEF CrashRestart, Contract!Forget, sTold

(* Requests for the same id or name that overlap, contexts cancelled under *)
(* a running install, callbacks of jobs that have given up and restarts:   *)
(* each step is one the contract of installation allows.  A name is taken  *)
(* once and for one request, after its secret; its status is the doing of  *)
(* that request's own job; and "success" is reported (StartInstall's       *)
(* onSuccess) only of a release that is deployed.                          *)
THEOREM Refinement == Spec => ImplementsInstallContract
<1>1. Init => Contract!Init
  <2> SUFFICES ASSUME Init PROVE Contract!Init
    OBVIOUS
  <2>1. sTold = [h \in Handlers |-> "nothing"]
    BY DEF Init, sTold
  <2>2. /\ \A s \in DOMAIN secrets : secrets[s] = NoSecret
        /\ \A n \in HelmNames : releases[n].status = "absent"
    BY DEF Init
  <2> QED BY <2>1, <2>2 DEF Contract!Init, sTold
<1>2. IInv /\ InstallersOwnTheirReleases /\ [Next]_vars
         => [Contract!Next]_(Contract!contract)
  <2> SUFFICES ASSUME IInv, InstallersOwnTheirReleases, [Next]_vars
               PROVE  Contract!Next \/ UNCHANGED Contract!contract
    OBVIOUS
  <2>1. ASSUME NEW h \in Handlers, NEW r \in HttpRequests, InstallService(h, r)
        PROVE  Contract!Next
    BY <2>1, AcceptSimulation DEF InstallService, Contract!Next
  <2>2. ASSUME NEW h \in Handlers, NEW q \in StartRequests, Start(h, q)
        PROVE  Contract!Next
    BY <2>2, AcceptSimulation DEF Start, Contract!Next
  <2>3. ASSUME NEW h \in Handlers, Handle(h) \/ CallFails(h)
        PROVE  Contract!Next \/ UNCHANGED Contract!contract
    BY <2>3, HandleSimulation DEF Contract!Next
  <2>4. ASSUME NEW h \in Handlers, Job(h) \/ performInstall(h)
        PROVE  Contract!Next \/ UNCHANGED Contract!contract
    BY <2>4, JobSimulation DEF Contract!Next
  <2>5. CASE CrashRestart
    BY <2>5, CrashSimulation DEF Contract!Next
  <2>6. CASE UNCHANGED vars
    BY <2>6 DEF vars, Contract!contract
  <2> QED BY <2>1, <2>2, <2>3, <2>4, <2>5, <2>6 DEF Next
<1> QED BY OwnInvariance, <1>1, <1>2, PTL DEF Spec, ImplementsInstallContract, Contract!Spec
-----------------------------------------------------------------------------
(* What is left to do for a request: by its handler, by the job that       *)
(* StartInstall begins, by Helm.  The job outlives the handler and Helm's  *)
(* goroutine may outlive the job, so each counts for itself.               *)
HandlerLeft(label) ==
    CASE label = "resolve" -> 8
      [] label = "ensureSecret" -> 7
      [] label = "startInstall" -> 6
      [] label = "return" -> 1
      [] OTHER -> 0

JobLeft(label) ==
    CASE label = "begin" -> 4
      [] label = "run" -> 3
      [] label = "wait" -> 1
      [] OTHER -> 0

HelmLeft(label) == IF label = "working" THEN 1 ELSE 0

StepsLeft(h) == HandlerLeft(pc[h]) + JobLeft(job[h]) + HelmLeft(installer[h])

Works(h) == Handle(h) \/ CallFails(h) \/ Job(h) \/ performInstall(h)

(* A request is eight steps of handler, job and Helm at most: each of them *)
(* leaves fewer, those of other requests and a crash never leave it more,  *)
(* and its handler takes the next one when nothing of it is left.          *)
StepsAreBounded == \A h \in Handlers : StepsLeft(h) \in 0 .. 8
StepsRunOut ==
    [][\A h \in Handlers :
          /\ Works(h) => StepsLeft(h)' < StepsLeft(h)
          /\ StepsLeft(h) # 0 => StepsLeft(h)' <= StepsLeft(h)]_vars

LEMMA LeftType ==
    ASSUME NEW label
    PROVE  /\ HandlerLeft(label) \in Nat /\ JobLeft(label) \in Nat /\ HelmLeft(label) \in Nat
           /\ label # "working" => HelmLeft(label) = 0
           /\ label \in {"none", "done"} => JobLeft(label) = 0
           /\ label = "idle" => HandlerLeft(label) = 0
<1>1. HandlerLeft(label) \in Nat /\ (label = "idle" => HandlerLeft(label) = 0)
  BY DEF HandlerLeft
<1>2. JobLeft(label) \in Nat /\ (label \in {"none", "done"} => JobLeft(label) = 0)
  BY DEF JobLeft
<1>3. HelmLeft(label) \in Nat /\ (label # "working" => HelmLeft(label) = 0)
  BY DEF HelmLeft
<1> QED BY <1>1, <1>2, <1>3

LEMMA StepsLeftType ==
    ASSUME IInv, NEW h \in Handlers
    PROVE  StepsLeft(h) \in 0 .. 8
<1>1. /\ pc[h] \in {"idle", "resolve", "ensureSecret", "startInstall", "return"}
      /\ job[h] \in {"none", "begin", "run", "wait", "done"}
      /\ installer[h] \in {"none", "working", "deployed", "broken"}
      /\ pc[h] \in {"resolve", "ensureSecret", "startInstall"} => job[h] = "none"
      /\ installer[h] # "none" => job[h] \in {"wait", "done"}
  BY DEF IInv, TypeOK, PreparedInOrder, PreparedFor
<1>2. HandlerLeft(pc[h]) + JobLeft(job[h]) \in 0 .. 8
  <2>1. CASE job[h] = "none"
    BY <1>1, <2>1 DEF HandlerLeft, JobLeft
  <2>2. CASE pc[h] \in {"idle", "return"}
    BY <1>1, <2>2 DEF HandlerLeft, JobLeft
  <2> QED BY <1>1, <2>1, <2>2
<1>3. CASE installer[h] # "working"
  BY <1>2, <1>3, LeftType DEF StepsLeft
<1>4. CASE installer[h] = "working"
  <2>1. pc[h] \in {"idle", "return"} /\ job[h] \in {"wait", "done"}
    BY <1>1, <1>4
  <2> QED BY <1>4, <2>1 DEF StepsLeft, HandlerLeft, JobLeft, HelmLeft
<1> QED BY <1>3, <1>4

(* A handler of its own.                                                   *)
LEMMA HandlerStepsLeft ==
    ASSUME IInv, NEW h \in Handlers, Handle(h) \/ CallFails(h)
    PROVE  /\ StepsLeft(h)' < StepsLeft(h)
           /\ UNCHANGED installer
           /\ \A g \in Handlers \ {h} : pc'[g] = pc[g] /\ job'[g] = job[g]
<1>t. pc \in [Handlers -> {"idle", "resolve", "ensureSecret", "startInstall", "return"}]
      /\ job \in [Handlers -> {"none", "begin", "run", "wait", "done"}]
  BY DEF IInv, TypeOK
<1>1. UNCHANGED installer
  BY DEF Handle, CallFails, ResolvePackage, EnsureOnyxiaSecret, StartInstall, Return,
         background
<1>2. ASSUME NEW label \in {"idle", "ensureSecret", "startInstall"},
             pc' = [pc EXCEPT ![h] = label], UNCHANGED job,
             HandlerLeft(label) < HandlerLeft(pc[h])
      PROVE  /\ StepsLeft(h)' < StepsLeft(h)
             /\ \A g \in Handlers \ {h} : pc'[g] = pc[g] /\ job'[g] = job[g]
  <2>1. pc'[h] = label /\ \A g \in Handlers \ {h} : pc'[g] = pc[g]
    BY <1>2, <1>t
  <2>2. StepsLeft(h)' = HandlerLeft(label) + JobLeft(job[h]) + HelmLeft(installer[h])
    BY <1>1, <1>2, <2>1 DEF StepsLeft
  <2> QED BY <1>2, <2>1, <2>2, LeftType DEF StepsLeft
<1>3. CASE ResolvePackage(h)
  <2>1. pc[h] = "resolve" /\ UNCHANGED job
    BY <1>3 DEF ResolvePackage, background
  <2>2. \E label \in {"idle", "ensureSecret"} : pc' = [pc EXCEPT ![h] = label]
    BY <1>3 DEF ResolvePackage, Goto, Respond
  <2>3. HandlerLeft("idle") < HandlerLeft(pc[h]) /\ HandlerLeft("ensureSecret") < HandlerLeft(pc[h])
    BY <2>1 DEF HandlerLeft
  <2> QED BY <1>1, <1>2, <2>1, <2>2, <2>3
<1>4. CASE EnsureOnyxiaSecret(h)
  <2>1. pc[h] = "ensureSecret" /\ UNCHANGED job
    BY <1>4 DEF EnsureOnyxiaSecret, background
  <2>2. \E label \in {"idle", "startInstall"} : pc' = [pc EXCEPT ![h] = label]
    BY <1>4 DEF EnsureOnyxiaSecret, Goto, Respond
  <2>3. HandlerLeft("idle") < HandlerLeft(pc[h]) /\ HandlerLeft("startInstall") < HandlerLeft(pc[h])
    BY <2>1 DEF HandlerLeft
  <2> QED BY <1>1, <1>2, <2>1, <2>2, <2>3
<1>5. CASE StartInstall(h)
  <2>1. pc[h] = "startInstall"
    BY <1>5 DEF StartInstall
  <2>2. CASE pc' = [pc EXCEPT ![h] = "idle"] /\ UNCHANGED job
    <3>1. HandlerLeft("idle") < HandlerLeft(pc[h])
      BY <2>1 DEF HandlerLeft
    <3> QED BY <1>1, <1>2, <2>2, <3>1
  <2>3. CASE pc' = [pc EXCEPT ![h] = "return"] /\ job' = [job EXCEPT ![h] = "begin"]
    <3>1. /\ pc'[h] = "return" /\ job'[h] = "begin"
          /\ \A g \in Handlers \ {h} : pc'[g] = pc[g] /\ job'[g] = job[g]
      BY <2>3, <1>t
    <3>2. job[h] = "none"
      BY <2>1 DEF IInv, PreparedInOrder, PreparedFor
    <3>3. /\ HandlerLeft(pc[h]) + JobLeft(job[h]) = 6
          /\ HandlerLeft(pc[h])' + JobLeft(job[h])' = 5
      BY <2>1, <3>1, <3>2 DEF HandlerLeft, JobLeft
    <3> QED BY <1>1, <3>1, <3>3, LeftType DEF StepsLeft
  <2> QED BY <1>1, <1>5, <2>2, <2>3 DEF StartInstall, Goto, Respond
<1>6. CASE Return(h) \/ CallFails(h)
  <2>1. /\ pc[h] \in {"resolve", "ensureSecret", "startInstall", "return"} /\ UNCHANGED job
        /\ pc' = [pc EXCEPT ![h] = "idle"]
    BY <1>6 DEF Return, CallFails, Respond, background
  <2>2. HandlerLeft("idle") < HandlerLeft(pc[h])
    BY <2>1 DEF HandlerLeft
  <2> QED BY <1>1, <1>2, <2>1, <2>2
<1> QED BY <1>3, <1>4, <1>5, <1>6 DEF Handle

(* A job or Helm of its own.                                               *)
LEMMA JobStepsLeft ==
    ASSUME IInv, NEW h \in Handlers, Job(h) \/ performInstall(h)
    PROVE  /\ StepsLeft(h)' < StepsLeft(h)
           /\ UNCHANGED pc
           /\ \A g \in Handlers \ {h} : job'[g] = job[g] /\ installer'[g] = installer[g]
<1> DEFINE Labels == {"none", "begin", "run", "wait", "done"}
           Helms == {"none", "working", "deployed", "broken"}
<1>t. job \in [Handlers -> Labels] /\ installer \in [Handlers -> Helms]
  BY DEF IInv, TypeOK
<1>1. UNCHANGED pc
  BY DEF Job, OnStart, RunWithContext, Succeeded, Failed, performInstall, foreground
<1>2. ASSUME NEW j \in Labels, NEW i \in Helms,
             job' = [job EXCEPT ![h] = j], installer' = [installer EXCEPT ![h] = i],
             JobLeft(j) + HelmLeft(i) < JobLeft(job[h]) + HelmLeft(installer[h])
      PROVE  /\ StepsLeft(h)' < StepsLeft(h)
             /\ \A g \in Handlers \ {h} : job'[g] = job[g] /\ installer'[g] = installer[g]
  <2>1. /\ job'[h] = j /\ installer'[h] = i
        /\ \A g \in Handlers \ {h} : job'[g] = job[g] /\ installer'[g] = installer[g]
    BY <1>2, <1>t
  <2>2. StepsLeft(h)' = HandlerLeft(pc[h]) + JobLeft(j) + HelmLeft(i)
    BY <1>1, <2>1 DEF StepsLeft
  <2> QED BY <1>2, <2>1, <2>2, LeftType DEF StepsLeft
<1>3. /\ job[h] \in Labels /\ installer[h] \in Helms
      /\ job = [job EXCEPT ![h] = job[h]] /\ installer = [installer EXCEPT ![h] = installer[h]]
  BY <1>t
<1>4. CASE OnStart(h)
  <2>1. /\ job[h] = "begin" /\ job' = [job EXCEPT ![h] = "run"]
        /\ installer' = [installer EXCEPT ![h] = installer[h]]
    BY <1>3, <1>4 DEF OnStart, JobAt
  <2>2. JobLeft("run") < JobLeft(job[h]) /\ JobLeft("run") \in Nat /\ JobLeft(job[h]) \in Nat
    BY <2>1 DEF JobLeft
  <2>3. \A n \in Nat : JobLeft("run") + n < JobLeft(job[h]) + n
    BY <2>2
  <2>4. JobLeft("run") + HelmLeft(installer[h]) < JobLeft(job[h]) + HelmLeft(installer[h])
    BY <2>3, LeftType
  <2> QED BY <1>1, <1>2, <1>3, <2>1, <2>4
<1>5. CASE RunWithContext(h)
  <2>1. job[h] = "run" /\ installer[h] = "none"
    BY <1>5 DEF RunWithContext, IInv, PreparedInOrder, PreparedFor
  <2>2. CASE job' = [job EXCEPT ![h] = "wait"] /\ installer' = [installer EXCEPT ![h] = "working"]
    <3>1. JobLeft("wait") + HelmLeft("working") < JobLeft(job[h]) + HelmLeft(installer[h])
      BY <2>1 DEF JobLeft, HelmLeft
    <3> QED BY <1>1, <1>2, <2>2, <3>1
  <2>3. CASE job' = [job EXCEPT ![h] = "done"] /\ UNCHANGED installer
    <3>1. JobLeft("done") + HelmLeft(installer[h]) < JobLeft(job[h]) + HelmLeft(installer[h])
      BY <2>1 DEF JobLeft, HelmLeft
    <3> QED BY <1>1, <1>2, <1>3, <2>3, <3>1
  <2> QED BY <1>5, <2>2, <2>3 DEF RunWithContext, JobAt, InstallerAt
<1>6. CASE performInstall(h)
  <2>1. installer[h] = "working" /\ job' = [job EXCEPT ![h] = job[h]]
    BY <1>3, <1>6 DEF performInstall
  <2>2. \E i \in {"none", "deployed", "broken"} : installer' = [installer EXCEPT ![h] = i]
    BY <1>6 DEF performInstall, InstallerAt
  <2>3. \A i \in {"none", "deployed", "broken"} : HelmLeft(i) = 0 /\ HelmLeft(installer[h]) = 1
    BY <2>1 DEF HelmLeft
  <2>4. \A n \in Nat : n + 0 < n + 1
    OBVIOUS
  <2>5. \A i \in {"none", "deployed", "broken"} :
            JobLeft(job[h]) + HelmLeft(i) < JobLeft(job[h]) + HelmLeft(installer[h])
    BY <2>3, <2>4, LeftType
  <2> QED BY <1>1, <1>2, <1>3, <2>1, <2>2, <2>5
<1>7. CASE Succeeded(h) \/ Failed(h)
  <2>1. job[h] = "wait" /\ job' = [job EXCEPT ![h] = "done"]
    BY <1>7 DEF Succeeded, Failed, JobAt
  <2>2. \E i \in {"none", installer[h]} :
            installer' = [installer EXCEPT ![h] = i] /\ (i = "none" \/ i = "working")
    BY <1>7 DEF Succeeded, Failed, InstallerAt
  <2>3. JobLeft("done") < JobLeft(job[h])
    BY <2>1 DEF JobLeft
  <2>4. HelmLeft("none") <= HelmLeft(installer[h])
    BY <1>t DEF HelmLeft
  <2>5. \A i \in {"none", installer[h]} :
            JobLeft("done") + HelmLeft(i) < JobLeft(job[h]) + HelmLeft(installer[h])
    BY <2>3, <2>4, LeftType
  <2> QED BY <1>1, <1>2, <1>3, <2>1, <2>2, <2>5
<1> QED BY <1>1, <1>4, <1>5, <1>6, <1>7 DEF Job

(* An accepted installation cannot go on for ever, whatever other requests *)
(* do to its release and its secret meanwhile: the half of its end and its *)
(* report that owes nothing to the scheduler (StartInstall, RunWithContext).*)
THEOREM RequestsAreBounded == Spec => []StepsAreBounded /\ StepsRunOut
<1> DEFINE RunOut == \A h \in Handlers :
        /\ Works(h) => StepsLeft(h)' < StepsLeft(h)
        /\ StepsLeft(h) # 0 => StepsLeft(h)' <= StepsLeft(h)
<1>1. IInv => StepsAreBounded
  BY StepsLeftType DEF StepsAreBounded
<1>2. IInv' => StepsAreBounded'
  BY <1>1, PTL
<1>3. IInv /\ [Next]_vars => [RunOut]_vars
  <2> SUFFICES ASSUME IInv, Next, NEW h \in Handlers
               PROVE  /\ Works(h) => StepsLeft(h)' < StepsLeft(h)
                      /\ StepsLeft(h) # 0 => StepsLeft(h)' <= StepsLeft(h)
    OBVIOUS
  <2>i. StepsLeft(h) \in Nat /\ StepsLeft(h)' \in Nat
    <3>1. StepsAreBounded /\ StepsAreBounded'
      BY <1>1, <1>2, InvStep
    <3> QED BY <3>1 DEF StepsAreBounded
  <2>1. Works(h) => StepsLeft(h)' < StepsLeft(h)
    BY HandlerStepsLeft, JobStepsLeft DEF Works
  <2>2. ASSUME pc'[h] = pc[h], job'[h] = job[h], installer'[h] = installer[h]
        PROVE  StepsLeft(h)' = StepsLeft(h)
    BY <2>2 DEF StepsLeft
  <2>3. ASSUME NEW g \in Handlers, Works(g), g # h PROVE StepsLeft(h)' = StepsLeft(h)
    <3>1. CASE Handle(g) \/ CallFails(g)
      BY <2>2, <2>3, <3>1, HandlerStepsLeft
    <3>2. CASE Job(g) \/ performInstall(g)
      BY <2>2, <2>3, <3>2, JobStepsLeft
    <3> QED BY <2>3, <3>1, <3>2 DEF Works
  <2>4. ASSUME NEW g \in Handlers, NEW q, NEW label, Accept(g, q, label), StepsLeft(h) # 0
        PROVE  StepsLeft(h)' = StepsLeft(h)
    <3>1. CASE g = h
      <4>1. pc[h] = "idle" /\ job[h] \in {"none", "done"} /\ installer[h] = "none"
        BY <2>4, <3>1 DEF Accept
      <4>2. StepsLeft(h) = 0
        BY <4>1 DEF StepsLeft, HandlerLeft, JobLeft, HelmLeft
      <4> QED BY <2>4, <4>2
    <3>2. CASE g # h
      <4>1. pc'[h] = pc[h] /\ job'[h] = job[h] /\ installer'[h] = installer[h]
        BY <2>4, <3>2 DEF Accept, IInv, TypeOK
      <4> QED BY <2>2, <4>1
    <3> QED BY <3>1, <3>2
  <2>5. CASE CrashRestart
    <3>1. pc'[h] = "idle" /\ job'[h] = "none" /\ installer'[h] = "none"
      BY <2>5 DEF CrashRestart
    <3>2. StepsLeft(h)' = 0
      BY <3>1 DEF StepsLeft, HandlerLeft, JobLeft, HelmLeft
    <3> QED BY <2>1, <2>i, <3>2
  <2>6. ASSUME NEW g \in Handlers, Works(g) PROVE StepsLeft(h)' <= StepsLeft(h)
    BY <2>1, <2>3, <2>6, <2>i
  <2> QED BY <2>1, <2>i, <2>4, <2>5, <2>6 DEF Next, Works, InstallService, Start
<1> QED BY InvInit, InvStep, <1>1, <1>3, PTL DEF Spec, StepsRunOut

-----------------------------------------------------------------------------
(* Releases nobody is at work on any more.                                 *)
Settled(n) == taken(n) /\ \A h \in Handlers : installer[h] # "none" => req[h].name # n

(* A settled release stays as it is, whoever asks for its name: one that is*)
(* deployed is never marked failed, one that a crash left pending is never *)
(* finished.  When a job says success its release is deployed, of its own  *)
(* request, and settled; after a crash every release is.                   *)
SuccessIsFinal ==
    [][/\ \A n \in HelmNames : Settled(n) => Settled(n)' /\ releases'[n] = releases[n]
       /\ \A h \in Handlers : Succeeded(h) =>
             /\ releases'[req[h].name] = [status |-> "deployed", of |-> req[h]]
             /\ Settled(req[h].name)'
       /\ CrashRestart => \A n \in HelmNames : taken(n) => Settled(n)']_vars

(* A step of a job or of Helm, and the settled releases.                   *)
LEMMA JobSettles ==
    ASSUME IInv, InstallersOwnTheirReleases, NEW h \in Handlers,
           Job(h) \/ performInstall(h), NEW n \in HelmNames, Settled(n)
    PROVE  Settled(n)' /\ releases'[n] = releases[n]
<1>1. /\ req' = req
      /\ \A g \in Handlers : g # h => installer'[g] = installer[g]
      /\ n # req[h].name => releases'[n] = releases[n]
      /\ installer[h] = "none" /\ taken(req[h].name) => releases' = releases
  BY JobEffect DEF foreground
<1>2. releases'[n] = releases[n]
  BY <1>1 DEF Settled
<1>3. taken(n)'
  BY <1>2 DEF taken, Settled
<1>4. CASE n # req[h].name
  BY <1>1, <1>3, <1>4, <1>2 DEF Settled
<1>5. CASE n = req[h].name
  <2>1. installer[h] = "none" /\ taken(req[h].name)
    BY <1>5 DEF Settled
  <2>2. installer'[h] = "none"
    BY <2>1 DEF Job, OnStart, RunWithContext, Succeeded, Failed, performInstall, InstallerAt,
                IInv, TypeOK
  <2> QED BY <1>1, <1>2, <1>3, <1>5, <2>2 DEF Settled
<1> QED BY <1>4, <1>5

(* A job that says success.                                                *)
LEMMA SuccessSettles ==
    ASSUME IInv, InstallersOwnTheirReleases, NEW h \in Handlers, Succeeded(h)
    PROVE  /\ releases'[req[h].name] = [status |-> "deployed", of |-> req[h]]
           /\ Settled(req[h].name)'
<1>1. /\ req' = req /\ releases' = releases /\ req[h].name \in HelmNames
      /\ installer[h] = "deployed" /\ installer' = [installer EXCEPT ![h] = "none"]
  BY JobEffect DEF Job, Succeeded, InstallerAt, foreground
<1>2. /\ releases[req[h].name].status = "deployed" /\ releases[req[h].name].of = req[h]
      /\ taken(req[h].name)
  BY <1>1 DEF InstallersOwnTheirReleases, Owns, taken
<1>3. releases[req[h].name] \in Release
  BY <1>1 DEF IInv, TypeOK
<1>4. \A g \in Handlers : installer'[g] # "none" => req[g].name # req[h].name
  BY <1>1 DEF IInv, TypeOK, InstallersOwnTheirReleases, Apart
<1> QED BY <1>1, <1>2, <1>3, <1>4 DEF Release, Settled, taken

(* "success" is final: what a job has said of its release stays true, also *)
(* when the same request is made again (StartInstall, RunWithContext).     *)
THEOREM SuccessStays == Spec => SuccessIsFinal
<1> DEFINE Inv == IInv /\ InstallersOwnTheirReleases
           Final ==
               /\ \A n \in HelmNames : Settled(n) => Settled(n)' /\ releases'[n] = releases[n]
               /\ \A h \in Handlers : Succeeded(h) =>
                     /\ releases'[req[h].name] = [status |-> "deployed", of |-> req[h]]
                     /\ Settled(req[h].name)'
               /\ CrashRestart => \A n \in HelmNames : taken(n) => Settled(n)'
<1>1. Inv /\ [Next]_vars => [Final]_vars
  <2> SUFFICES ASSUME Inv, Next PROVE Final
    OBVIOUS
  <2>1. ASSUME NEW n \in HelmNames, Settled(n) PROVE Settled(n)' /\ releases'[n] = releases[n]
    <3>1. ASSUME NEW g \in Handlers, NEW q, NEW label, Accept(g, q, label)
          PROVE  Settled(n)' /\ releases'[n] = releases[n]
      <4>1. /\ releases' = releases /\ installer' = installer /\ installer[g] = "none"
            /\ \A h \in Handlers : h # g => req'[h] = req[h]
        BY <3>1 DEF Accept, IInv, TypeOK
      <4> QED BY <2>1, <4>1 DEF Settled, taken
    <3>2. ASSUME NEW g \in Handlers, Handle(g) \/ CallFails(g)
          PROVE  Settled(n)' /\ releases'[n] = releases[n]
      <4>1. releases' = releases /\ installer' = installer /\ req' = req
        BY <3>2 DEF Handle, CallFails, ResolvePackage, EnsureOnyxiaSecret, StartInstall, Return,
                    background
      <4> QED BY <2>1, <4>1 DEF Settled, taken
    <3>3. CASE CrashRestart
      BY <2>1, <3>3 DEF CrashRestart, Settled, taken
    <3> QED BY <2>1, <3>1, <3>2, <3>3, JobSettles DEF Next, InstallService, Start
  <2>2. ASSUME CrashRestart, NEW n \in HelmNames, taken(n) PROVE Settled(n)'
    BY <2>2 DEF CrashRestart, Settled, taken
  <2> QED BY <2>1, <2>2, SuccessSettles
<1> QED BY OwnInvariance, <1>1, PTL DEF Spec, SuccessIsFinal
=============================================================================
