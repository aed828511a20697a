------------------------ MODULE AuthenticationProofs ------------------------
(***************************************************************************)
(* Proofs about Authentication, for any number of handlers, tokens and     *)
(* proofs, whatever the bounds on time, on restarts and on the lag between *)
(* the two readings of the clock.                                          *)
(***************************************************************************)
EXTENDS Authentication, TLAPS

LEMMA Constants ==
    /\ maxProofAge \in Nat /\ maxClockSkew \in Nat
    /\ MaxLag \in Nat /\ MaxTime \in Nat /\ MaxRestarts \in Nat
    /\ IssueTimes \subseteq Nat
    /\ Requests \subseteq Message /\ Requests # {} /\ NoProof \notin Jtis
BY TimesAssumption, RequestsAssumption, ProofsAssumption

(* Removing what has expired leaves the other entries as they are.         *)
LEMMA EvictKeepsLiveEntries ==
    ASSUME TypeOK, NEW j \in Jtis
    PROVE  /\ evict \in [Jtis -> Nat]
           /\ evict[j] # 0 => evict[j] = entries[j] /\ clock <= entries[j]
           /\ evict[j] = 0 => entries[j] = 0 \/ clock > entries[j]
BY SMT DEF TypeOK, evict

(* A request is left to the cache only with a bound token, as DPoP, and    *)
(* with a timely proof.                                                    *)
LEMMA LeftToTheCache ==
    ASSUME NEW m \in Requests, Verdict(m) = "none"
    PROVE  /\ m.scheme = "DPoP"
           /\ m.jti \in Jtis
           /\ TimelyAt(m.jti, clock)
<1>1. m.jti \in Jtis \cup {NoProof}
  BY Constants DEF Message
<1>2. m.scheme = "DPoP" /\ m.jti # NoProof /\ ProofAcceptable(m.jti, clock)
  BY DEF Verdict
<1> QED BY <1>1, <1>2 DEF ProofAcceptable

LEMMA VerdictTyped ==
    ASSUME NEW m \in Requests
    PROVE  /\ Verdict(m) \in {"none", "accepted", "rejected"}
           /\ Verdict(m) = "accepted" => claims(m).jkt = NoKey
BY DEF Verdict

-----------------------------------------------------------------------------
(* What a handler holds and what the cache has forgotten.                  *)
Untimed == TypeOK /\ PendingIsTimely /\ ForgottenIsStale /\ BoundTokenNeedsItsProof

LEMMA UntimedInit == Init => Untimed
<1> SUFFICES ASSUME Init PROVE Untimed
  OBVIOUS
<1>1. (CHOOSE m \in Requests : TRUE) \in Requests
  BY Constants
<1>i. iat \in [Jtis -> Nat]
  <2>1. iat \in [Jtis -> IssueTimes] /\ IssueTimes \subseteq Nat
    BY Constants DEF Init
  <2> QED BY <2>1
<1>2. TypeOK
  BY <1>1, <1>i, Constants DEF Init, TypeOK
<1>3. PendingIsTimely
  BY DEF Init, PendingIsTimely
<1>4. ForgottenIsStale
  BY DEF Init, ForgottenIsStale
<1>5. BoundTokenNeedsItsProof
  BY DEF Init, BoundTokenNeedsItsProof
<1> QED BY <1>2, <1>3, <1>4, <1>5 DEF Untimed

LEMMA VerifyRequestStep ==
    ASSUME Untimed, NEW h \in Handlers, NEW m \in Requests, VerifyRequest(h, m)
    PROVE  Untimed'
<1> USE DEF Untimed
<1>1. TypeOK'
  BY VerdictTyped DEF VerifyRequest, TypeOK
<1>2. PendingIsTimely'
  <2> SUFFICES ASSUME NEW g \in Handlers, pc'[g] = "checkJTI"
               PROVE  /\ outcome'[g] = "none"
                      /\ msg'[g].scheme = "DPoP"
                      /\ msg'[g].jti \in Jtis
                      /\ TimelyAt(msg[g].jti, sampled[g])'
                      /\ sampled'[g] <= clock'
                      /\ clock' <= sampled'[g] + MaxLag
    BY DEF PendingIsTimely
  <2>1. CASE g = h
    <3>1. Verdict(m) = "none" /\ msg'[g] = m /\ outcome'[g] = "none"
      BY <2>1 DEF VerifyRequest, TypeOK
    <3>2. sampled'[g] = clock
      BY <2>1, <3>1 DEF VerifyRequest, TypeOK
    <3>3. clock' = clock /\ iat' = iat /\ clock \in Nat
      BY DEF VerifyRequest, TypeOK
    <3> QED BY <3>1, <3>2, <3>3, LeftToTheCache, Constants DEF TimelyAt
  <2>2. CASE g # h
    <3>1. /\ pc[g] = "checkJTI" /\ msg'[g] = msg[g] /\ outcome'[g] = outcome[g]
          /\ sampled'[g] = sampled[g] /\ clock' = clock /\ iat' = iat
      BY <2>2 DEF VerifyRequest, TypeOK
    <3> QED BY <3>1 DEF PendingIsTimely, TimelyAt
  <2> QED BY <2>1, <2>2
<1>3. ForgottenIsStale'
  BY DEF VerifyRequest, ForgottenIsStale
<1>4. BoundTokenNeedsItsProof'
  <2> SUFFICES ASSUME NEW g \in Handlers, outcome'[g] = "accepted",
                      claims(msg'[g]).jkt # NoKey
               PROVE  /\ msg'[g].scheme = "DPoP"
                      /\ msg'[g].jti \in admitted'
                      /\ ProofBinds(msg'[g])
    BY DEF BoundTokenNeedsItsProof, claims, ProofBinds
  <2>1. g # h
    BY VerdictTyped DEF VerifyRequest, TypeOK, claims
  <2>2. msg'[g] = msg[g] /\ outcome'[g] = outcome[g] /\ admitted' = admitted
    BY <2>1 DEF VerifyRequest, TypeOK
  <2> QED BY <2>2 DEF BoundTokenNeedsItsProof
<1> QED BY <1>1, <1>2, <1>3, <1>4

LEMMA CheckJTIStep ==
    ASSUME Untimed, NEW h \in Handlers, CheckJTI(h)
    PROVE  Untimed'
<1> DEFINE j == msg[h].jti
<1> USE DEF Untimed
<1>j. /\ j \in Jtis /\ TimelyAt(j, sampled[h]) /\ sampled[h] <= clock
      /\ msg[h].scheme = "DPoP" /\ pc[h] = "checkJTI"
  BY DEF CheckJTI, PendingIsTimely
<1>u. /\ clock' = clock /\ iat' = iat /\ msg' = msg /\ restarts' = restarts
      /\ pc' = [pc EXCEPT ![h] = "idle"] /\ sampled' = [sampled EXCEPT ![h] = 0]
  BY DEF CheckJTI
<1>e. evict \in [Jtis -> Nat]
  BY <1>j, EvictKeepsLiveEntries
<1>n. /\ clock + jtiTTL \in Nat /\ clock + jtiTTL # 0
      /\ clock + jtiTTL >= iat[j] + maxProofAge
  BY <1>j, Constants DEF TimelyAt, TypeOK, jtiTTL
<1>1. TypeOK'
  <2>1. CASE Seen(j) /\ entries' = evict /\ UNCHANGED history
                     /\ outcome' = [outcome EXCEPT ![h] = "replayed"]
    BY <1>u, <1>e, <2>1 DEF TypeOK, history
  <2>2. CASE ~Seen(j)
    <3>1. /\ entries' = [evict EXCEPT ![j] = clock + jtiTTL]
          /\ outcome' = [outcome EXCEPT ![h] =
                IF ProofBinds(msg[h]) THEN "accepted" ELSE "rejected"]
          /\ admitted' = admitted \cup {j}
          /\ accepted' = [accepted EXCEPT ![j] = IF ProofBinds(msg[h]) THEN @ + 1 ELSE @]
      BY <2>2 DEF CheckJTI
    <3>2. accepted' \in [Jtis -> Nat]
      <4>1. accepted \in [Jtis -> Nat]
        BY DEF TypeOK
      <4>2. CASE ProofBinds(msg[h])
        <5>1. accepted' = [accepted EXCEPT ![j] = accepted[j] + 1] /\ accepted[j] + 1 \in Nat
          BY <4>1, <4>2, <3>1, <1>j
        <5> QED BY <5>1, <4>1
      <4>3. CASE ~ProofBinds(msg[h])
        BY <4>1, <4>3, <3>1
      <4> QED BY <4>2, <4>3
    <3>3. entries' \in [Jtis -> Nat]
      BY <3>1, <1>e, <1>n
    <3> QED BY <1>u, <1>j, <3>1, <3>2, <3>3 DEF TypeOK
  <2> QED BY <2>1, <2>2 DEF CheckJTI
<1>2. PendingIsTimely'
  <2> SUFFICES ASSUME NEW g \in Handlers, pc'[g] = "checkJTI"
               PROVE  /\ outcome'[g] = "none"
                      /\ msg'[g].scheme = "DPoP"
                      /\ msg'[g].jti \in Jtis
                      /\ TimelyAt(msg[g].jti, sampled[g])'
                      /\ sampled'[g] <= clock'
                      /\ clock' <= sampled'[g] + MaxLag
    BY DEF PendingIsTimely
  <2>1. g # h /\ pc[g] = "checkJTI" /\ sampled'[g] = sampled[g]
    BY <1>u DEF TypeOK
  <2>2. outcome'[g] = outcome[g]
    BY <2>1 DEF CheckJTI, TypeOK
  <2> QED BY <1>u, <2>1, <2>2 DEF PendingIsTimely, TimelyAt
<1>3. ForgottenIsStale'
  <2> SUFFICES ASSUME NEW k \in Jtis
               PROVE  /\ entries'[k] # 0 => entries'[k] >= iat'[k] + maxProofAge
                      /\ k \in admitted' =>
                            entries'[k] # 0 \/ clock' > iat'[k] + maxProofAge
                      /\ k \notin admitted' => entries'[k] = 0 /\ accepted'[k] = 0
    BY DEF ForgottenIsStale
  <2>1. /\ evict[k] # 0 => evict[k] >= iat[k] + maxProofAge
        /\ k \in admitted => evict[k] # 0 \/ clock > iat[k] + maxProofAge
        /\ k \notin admitted => evict[k] = 0 /\ accepted[k] = 0
    <3>1. /\ entries[k] # 0 => entries[k] >= iat[k] + maxProofAge
          /\ k \in admitted => entries[k] # 0 \/ clock > iat[k] + maxProofAge
          /\ k \notin admitted => entries[k] = 0 /\ accepted[k] = 0
      BY DEF ForgottenIsStale
    <3>2. /\ evict[k] # 0 => evict[k] = entries[k]
          /\ evict[k] = 0 => entries[k] = 0 \/ clock > entries[k]
      BY EvictKeepsLiveEntries
    <3>3. /\ entries[k] \in Nat /\ clock \in Nat /\ iat[k] \in Nat /\ evict[k] \in Nat
      BY <1>e DEF TypeOK
    <3> HIDE DEF Untimed
    <3> QED BY <3>1, <3>2, <3>3, Constants
  <2>2. CASE entries' = evict /\ UNCHANGED history
    BY <1>u, <2>1, <2>2 DEF history
  <2>3. CASE /\ entries' = [evict EXCEPT ![j] = clock + jtiTTL]
             /\ admitted' = admitted \cup {j}
             /\ accepted' = [accepted EXCEPT ![j] = IF ProofBinds(msg[h]) THEN @ + 1 ELSE @]
    <3>1. CASE k = j
      <4>1. entries'[k] = clock + jtiTTL /\ k \in admitted'
        BY <3>1, <2>3, <1>e
      <4> QED BY <4>1, <1>n, <1>u, <3>1
    <3>2. CASE k # j
      <4>1. entries'[k] = evict[k] /\ accepted'[k] = accepted[k]
        BY <3>2, <2>3, <1>e DEF TypeOK
      <4>2. k \in admitted' <=> k \in admitted
        BY <3>2, <2>3
      <4> QED BY <4>1, <4>2, <2>1, <1>u
    <3> QED BY <3>1, <3>2
  <2> QED BY <2>2, <2>3 DEF CheckJTI
<1>4. BoundTokenNeedsItsProof'
  <2> SUFFICES ASSUME NEW g \in Handlers, outcome'[g] = "accepted",
                      claims(msg'[g]).jkt # NoKey
               PROVE  /\ msg'[g].scheme = "DPoP"
                      /\ msg'[g].jti \in admitted'
                      /\ ProofBinds(msg'[g])
    BY DEF BoundTokenNeedsItsProof, claims, ProofBinds
  <2>1. admitted \subseteq admitted'
    BY DEF CheckJTI, history
  <2>2. CASE g = h
    <3>1. outcome[h]' = "accepted" => ProofBinds(msg[h]) /\ j \in admitted'
      BY DEF CheckJTI, TypeOK
    <3> QED BY <3>1, <2>2, <1>u, <1>j
  <2>3. CASE g # h
    <3>1. outcome'[g] = outcome[g]
      BY <2>3 DEF CheckJTI, TypeOK
    <3> QED BY <3>1, <2>1, <1>u DEF BoundTokenNeedsItsProof
  <2> QED BY <2>2, <2>3
<1> QED BY <1>1, <1>2, <1>3, <1>4

LEMMA TickStep ==
    ASSUME Untimed, Tick
    PROVE  Untimed'
<1> USE DEF Untimed
<1>1. TypeOK'
  BY DEF Tick, TypeOK
<1>2. PendingIsTimely'
  <2> SUFFICES ASSUME NEW h \in Handlers, pc[h] = "checkJTI"
               PROVE  sampled[h] <= clock + 1 /\ clock + 1 <= sampled[h] + MaxLag
    BY DEF PendingIsTimely, Tick, TimelyAt
  <2>1. clock < sampled[h] + MaxLag /\ sampled[h] <= clock
    BY DEF Tick, PendingIsTimely
  <2>2. clock \in Nat /\ sampled[h] \in Nat /\ MaxLag \in Nat
    BY Constants DEF TypeOK
  <2> QED BY <2>1, <2>2
<1>3. ForgottenIsStale'
  BY Constants DEF Tick, ForgottenIsStale, TypeOK
<1>4. BoundTokenNeedsItsProof'
  BY DEF Tick, BoundTokenNeedsItsProof, ProofBinds, claims
<1> QED BY <1>1, <1>2, <1>3, <1>4

LEMMA RestartStep ==
    ASSUME Untimed, Restart
    PROVE  Untimed'
<1> USE DEF Untimed
<1>1. TypeOK'
  BY DEF Restart, TypeOK
<1>2. PendingIsTimely'
  BY DEF Restart, PendingIsTimely
<1>3. ForgottenIsStale'
  BY DEF Restart, ForgottenIsStale
<1>4. BoundTokenNeedsItsProof'
  BY DEF Restart, BoundTokenNeedsItsProof
<1> QED BY <1>1, <1>2, <1>3, <1>4

LEMMA UntimedStep == Untimed /\ [Next]_vars => Untimed'
<1> SUFFICES ASSUME Untimed, [Next]_vars PROVE Untimed'
  OBVIOUS
<1>1. CASE \E h \in Handlers, m \in Requests : VerifyRequest(h, m)
  BY <1>1, VerifyRequestStep
<1>2. CASE \E h \in Handlers : CheckJTI(h)
  BY <1>2, CheckJTIStep
<1>3. CASE Tick
  BY <1>3, TickStep
<1>4. CASE Restart
  BY <1>4, RestartStep
<1>5. CASE UNCHANGED vars
  BY <1>5 DEF vars, Untimed, TypeOK, PendingIsTimely, TimelyAt, ForgottenIsStale,
              BoundTokenNeedsItsProof, ProofBinds, claims
<1> QED BY <1>1, <1>2, <1>3, <1>4, <1>5 DEF Next

-----------------------------------------------------------------------------
(* A request with a bound token passes only as DPoP with a proof of that   *)
(* token by its key, whatever the requests, the interleaving and the lag   *)
(* (VerifyRequest, VerifyProof).                                           *)
THEOREM BoundTokensNeedTheirProof == Spec => []BoundTokenNeedsItsProof
<1>1. Untimed => BoundTokenNeedsItsProof
  BY DEF Untimed
<1> QED BY UntimedInit, UntimedStep, <1>1, PTL DEF Spec

-----------------------------------------------------------------------------
(* The cache.                                                              *)

LEMMA NoEntryAheadStep ==
    Untimed /\ NoEntryAhead /\ [Next]_vars => NoEntryAhead'
<1> SUFFICES ASSUME Untimed, NoEntryAhead, [Next]_vars, NEW k \in Jtis
             PROVE  entries'[k] <= clock' + jtiTTL
  BY DEF NoEntryAhead
<1>t. /\ entries[k] \in Nat /\ clock \in Nat /\ jtiTTL \in Nat
      /\ entries[k] <= clock + jtiTTL
  BY Constants DEF Untimed, TypeOK, jtiTTL, NoEntryAhead
<1>1. CASE UNCHANGED <<entries, clock>>
  BY <1>1, <1>t
<1>2. ASSUME NEW h \in Handlers, CheckJTI(h)
      PROVE  entries'[k] <= clock' + jtiTTL
  <2>1. clock' = clock /\ evict[k] \in {0, entries[k]}
    BY <1>2 DEF CheckJTI, evict
  <2>2. entries'[k] \in {evict[k], clock + jtiTTL}
    BY <1>2 DEF CheckJTI, evict
  <2> QED BY <2>1, <2>2, <1>t
<1>3. CASE Tick
  BY <1>3, <1>t DEF Tick
<1>4. CASE Restart
  BY <1>4, <1>t DEF Restart
<1> QED BY <1>1, <1>2, <1>3, <1>4 DEF Next, VerifyRequest, vars

LEMMA CacheInvariance == Spec => [](Untimed /\ NoEntryAhead)
<1>1. Init => Untimed /\ NoEntryAhead
  <2>1. Init => NoEntryAhead
    BY Constants DEF Init, NoEntryAhead, jtiTTL
  <2> QED BY <2>1, UntimedInit
<1>2. Untimed /\ NoEntryAhead /\ [Next]_vars => (Untimed /\ NoEntryAhead)'
  BY UntimedStep, NoEntryAheadStep
<1> QED BY <1>1, <1>2, PTL DEF Spec

(* The cache does not grow with the requests of the past: each use of it   *)
(* (Seen, which evicts under the lock before it looks) leaves only entries *)
(* that expire between now and jtiTTL from now.                            *)
THEOREM CacheIsRecent == Spec => CacheHoldsRecentProofs
<1> DEFINE Step == \A h \in Handlers :
        pc[h] = "checkJTI" /\ outcome'[h] # "none" =>
           \A j \in Jtis : entries'[j] # 0 => entries'[j] \in clock .. clock + jtiTTL
<1>1. Untimed /\ NoEntryAhead /\ [Next]_vars => [Step]_vars
  <2> SUFFICES ASSUME Untimed, NoEntryAhead, Next, NEW h \in Handlers,
                      pc[h] = "checkJTI", outcome'[h] # "none",
                      NEW j \in Jtis, entries'[j] # 0
               PROVE  entries'[j] \in clock .. clock + jtiTTL
    OBVIOUS
  <2>1. outcome[h] = "none"
    BY DEF Untimed, PendingIsTimely
  <2>2. CheckJTI(h)
    <3>1. ASSUME NEW g \in Handlers, NEW m \in Requests, VerifyRequest(g, m) PROVE FALSE
      BY <3>1, <2>1 DEF VerifyRequest, Untimed, TypeOK
    <3>2. ASSUME NEW g \in Handlers, CheckJTI(g) PROVE g = h
      BY <3>2, <2>1 DEF CheckJTI, Untimed, TypeOK
    <3>3. ~Tick /\ ~Restart
      BY <2>1 DEF Tick, Restart
    <3> QED BY <3>1, <3>2, <3>3 DEF Next
  <2>3. entries'[j] \in {evict[j], clock + jtiTTL}
    BY <2>2 DEF CheckJTI, evict
  <2>4. evict[j] # 0 => evict[j] = entries[j] /\ clock <= entries[j]
    BY EvictKeepsLiveEntries DEF Untimed
  <2>5. /\ entries[j] \in Nat /\ clock \in Nat /\ jtiTTL \in Nat
        /\ entries[j] <= clock + jtiTTL
    BY Constants DEF Untimed, TypeOK, jtiTTL, NoEntryAhead
  <2> QED BY <2>3, <2>4, <2>5
<1> QED BY CacheInvariance, <1>1, PTL DEF Spec, CacheHoldsRecentProofs

-----------------------------------------------------------------------------
(* Replays.                                                                *)

(* Seen lets an admitted jti through only when its entry has expired, and  *)
(* then its proof is fresh no more.                                        *)
LEMMA FreshIsNew ==
    ASSUME Untimed, NEW j \in Jtis, ~Seen(j), clock <= iat[j] + maxProofAge
    PROVE  accepted[j] = 0
<1>1. entries[j] = 0 \/ clock > entries[j]
  BY EvictKeepsLiveEntries DEF Seen, Untimed
<1>2. /\ entries[j] # 0 => entries[j] >= iat[j] + maxProofAge
      /\ j \in admitted => entries[j] # 0 \/ clock > iat[j] + maxProofAge
      /\ j \notin admitted => accepted[j] = 0
  BY DEF Untimed, ForgottenIsStale
<1>3. clock \in Nat /\ iat[j] \in Nat /\ entries[j] \in Nat
  BY DEF Untimed, TypeOK
<1> QED BY <1>1, <1>2, <1>3, Constants

LEMMA OnceStep ==
    Untimed /\ AcceptedOnceWhileFresh /\ [Next]_vars => AcceptedOnceWhileFresh'
<1> SUFFICES ASSUME Untimed, AcceptedOnceWhileFresh, [Next]_vars,
                    NEW k \in Jtis, clock' <= iat'[k] + maxProofAge
             PROVE  accepted'[k] <= 1
  BY DEF AcceptedOnceWhileFresh
<1>1. iat' = iat /\ clock <= clock'
  BY DEF Next, VerifyRequest, CheckJTI, Tick, Restart, vars, Untimed, TypeOK
<1>2. clock \in Nat /\ clock' \in Nat /\ iat[k] \in Nat /\ accepted \in [Jtis -> Nat]
  BY UntimedStep DEF Untimed, TypeOK
<1>3. clock <= iat[k] + maxProofAge
  BY <1>1, <1>2, Constants
<1>4. accepted[k] <= 1
  BY <1>3 DEF AcceptedOnceWhileFresh
<1>5. ASSUME NEW h \in Handlers, CheckJTI(h)
      PROVE  accepted'[k] <= 1
  <2> DEFINE j == msg[h].jti
  <2>1. CASE UNCHANGED history
    BY <1>4, <2>1 DEF history
  <2>2. CASE /\ ~Seen(j)
             /\ accepted' = [accepted EXCEPT ![j] = IF ProofBinds(msg[h]) THEN @ + 1 ELSE @]
    <3>1. CASE k = j
      <4>1. accepted[k] = 0
        BY <1>3, <2>2, <3>1, FreshIsNew
      <4> QED BY <4>1, <1>2, <2>2, <3>1
    <3>2. CASE k # j
      BY <1>2, <1>4, <2>2, <3>2
    <3> QED BY <3>1, <3>2
  <2> QED BY <1>5, <2>1, <2>2 DEF CheckJTI
<1>6. CASE UNCHANGED accepted
  BY <1>4, <1>6
<1>7. CASE Restart
  BY <1>7 DEF Restart
<1> QED BY <1>5, <1>6, <1>7 DEF Next, VerifyRequest, Tick, vars

(* The invariant the run authentication checks: what keeps a proof from    *)
(* being accepted twice, however long handlers wait for the lock.          *)
THEOREM Invariance == Spec => []IInv
<1>1. Init => AcceptedOnceWhileFresh
  BY DEF Init, AcceptedOnceWhileFresh
<1>2. Untimed /\ NoEntryAhead /\ AcceptedOnceWhileFresh => IInv
  BY DEF Untimed, IInv
<1>3. Untimed /\ AcceptedOnceWhileFresh /\ [Next]_vars => AcceptedOnceWhileFresh'
  BY OnceStep
<1> QED BY <1>1, <1>2, <1>3, CacheInvariance, PTL DEF Spec

(* A proof is accepted at most once while it is fresh: what remains of the *)
(* comment in jti.go, and all that jtiTTL gives (Seen, evict).             *)
THEOREM OnceWhileFresh == Spec => []AcceptedOnceWhileFresh
<1>1. IInv => AcceptedOnceWhileFresh
  BY DEF IInv
<1> QED BY <1>1, Invariance, PTL

(* A handler answers "replayed" only for a proof the cache let through     *)
(* before (Seen).                                                          *)
THEOREM ReplaysWereAdmitted == Spec => OnlyReplaysCalledReplayed
<1> DEFINE Step == \A h \in Handlers :
        outcome'[h] = "replayed" /\ outcome[h] # "replayed" => msg[h].jti \in admitted
<1>1. Untimed /\ [Next]_vars => [Step]_vars
  <2> SUFFICES ASSUME Untimed, Next, NEW h \in Handlers,
                      outcome'[h] = "replayed", outcome[h] # "replayed"
               PROVE  msg[h].jti \in admitted
    OBVIOUS
  <2>1. ASSUME NEW g \in Handlers, NEW m \in Requests, VerifyRequest(g, m) PROVE FALSE
    BY <2>1, VerdictTyped DEF VerifyRequest, Untimed, TypeOK
  <2>2. ASSUME NEW g \in Handlers, CheckJTI(g) PROVE msg[h].jti \in admitted
    <3>1. g = h
      BY <2>2 DEF CheckJTI, Untimed, TypeOK
    <3>2. Seen(msg[h].jti) /\ msg[h].jti \in Jtis
      BY <2>2, <3>1 DEF CheckJTI, Untimed, TypeOK, PendingIsTimely
    <3>3. entries[msg[h].jti] # 0
      BY <3>2, EvictKeepsLiveEntries DEF Seen, Untimed
    <3> QED BY <3>2, <3>3 DEF Untimed, ForgottenIsStale
  <2>3. CASE Tick \/ Restart
    BY <2>3 DEF Tick, Restart
  <2> QED BY <2>1, <2>2, <2>3 DEF Next
<1> QED BY UntimedInit, UntimedStep, <1>1, PTL DEF Spec, OnlyReplaysCalledReplayed
=============================================================================
