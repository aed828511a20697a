--------------------------- MODULE Authentication ---------------------------
(***************************************************************************)
(* How a request is authenticated: the OIDC token, its binding to a DPoP   *)
(* key, the proof of the request, and the cache that remembers which       *)
(* proofs were seen (internal/auth/oidc and internal/auth/oidc/dpop).      *)
(*                                                                         *)
(* The same request may be delivered more than once, by several handlers   *)
(* at a time.  Time passes while a handler works: verifyProof reads the    *)
(* clock once for the age of the proof, and the cache reads it again under *)
(* its lock, however long the handler waited for it.                       *)
(***************************************************************************)
EXTENDS Naturals

CONSTANTS
    Handlers,       \* goroutines, one request each at a time
    Keys, NoKey,    \* thumbprints; NoKey is a token without cnf.jkt
    Tokens,         \* access tokens
    TokenClaims,    \* what verification finds in each token
    Audience,       \* whether an audience is configured
    Jtis, NoProof,  \* identifiers of proofs; a request without proof
    Proofs,         \* what parsing finds in the proof with each identifier
    Requests,       \* what clients send
    IssueTimes,     \* iat of proofs, by the clients' clocks; 0 when missing
    maxProofAge, maxClockSkew,
    MaxLag,         \* bound: a handler's time from one reading to the next
    MaxTime, MaxRestarts   \* bounds

ASSUME TokensAssumption ==
    /\ NoKey \notin Keys
    /\ TokenClaims \in [Tokens -> [genuine: BOOLEAN,
          aud: {"absent", "ours", "other", "malformed"},
          username: BOOLEAN, jkt: Keys \cup {NoKey}]]

(* Clients draw a fresh jti for each proof: a jti stands for one proof.    *)
(* signed: a JWT of the right type with a public key that verifies it;     *)
(* request: of this method and URL.                                        *)
ASSUME ProofsAssumption ==
    /\ NoProof \notin Jtis
    /\ Proofs \in [Jtis -> [signed: BOOLEAN, request: BOOLEAN, key: Keys, ath: Tokens]]

Message == [scheme: {"none", "Bearer", "DPoP"}, token: Tokens, jti: Jtis \cup {NoProof}]

ASSUME RequestsAssumption == Requests \subseteq Message /\ Requests # {}

ASSUME TimesAssumption ==
    /\ {maxProofAge, maxClockSkew, MaxLag, MaxTime, MaxRestarts} \subseteq Nat
    /\ IssueTimes \subseteq Nat

jtiTTL == maxProofAge + maxClockSkew

VARIABLES
    clock,      \* the process's clock, in units of iat
    iat,        \* issue time of each proof
    entries,    \* JTICache.entries: expiry of each jti, 0 when it has none
    pc,         \* per handler: idle, or about to ask the cache
    msg,        \* per handler: the request
    sampled,    \* per handler: the time VerifyProof was given, 0 when idle
    outcome,    \* per handler: how its last request ended
    accepted,   \* history: requests accepted with each jti since the start
    admitted,   \* history: jtis that Seen has let through since the start
    restarts    \* restarts left

history == <<accepted, admitted>>
vars == <<clock, iat, entries, pc, msg, sampled, outcome, accepted, admitted, restarts>>

claims(m) == TokenClaims[m.token]

-----------------------------------------------------------------------------
(* The token.                                                              *)

validateAudience(t) == Audience => t.aud = "ours"

(* Signature and lifetime, then audience, then the username claim.         *)
verifyToken(t) == t.genuine /\ validateAudience(t) /\ t.username

-----------------------------------------------------------------------------
(* The proof.                                                              *)

(* VerifyProof up to the cache: the JWT and its key, method and URL, and   *)
(* the issue time against the time the handler read.                       *)
TimelyAt(j, now) ==
    /\ iat[j] # 0
    /\ iat[j] <= now + maxClockSkew
    /\ now <= iat[j] + maxProofAge

ProofAcceptable(j, now) == Proofs[j].signed /\ Proofs[j].request /\ TimelyAt(j, now)

(* VerifyProof after the cache, and verifyProof: ath, then the key.        *)
ProofBinds(m) ==
    /\ Proofs[m.jti].ath = m.token
    /\ Proofs[m.jti].key = claims(m).jkt

-----------------------------------------------------------------------------
(* The cache, under its lock.                                              *)

(* Mutant: entries are forgotten as soon as the proof is too old for a     *)
(* client whose clock is right.                                            *)
evictEarly == [j \in Jtis |->
    IF clock + maxClockSkew > entries[j] THEN 0 ELSE entries[j]]

(* Mutant: nothing is ever removed.                                        *)
evictNothing == entries

evict == [j \in Jtis |-> IF clock > entries[j] THEN 0 ELSE entries[j]]

(* Mutant: any live entry counts as a sighting.                            *)
SeenAnyEntry(j) == \E k \in Jtis : evict[k] # 0

(* Mutant: the entry is not looked up.                                     *)
SeenNever(j) == FALSE

Seen(j) == evict[j] # 0

-----------------------------------------------------------------------------
(* Handlers.                                                               *)

(* Mutant: the proof is verified whenever there is one.                    *)
VerdictAnyScheme(m) ==
    IF m.scheme = "none" \/ ~verifyToken(claims(m)) THEN "rejected"
    ELSE IF claims(m).jkt = NoKey \/ m.jti = NoProof THEN "accepted"
    ELSE IF ~ProofAcceptable(m.jti, clock) THEN "rejected"
    ELSE "none"

(* What VerifyRequest decides before it asks the cache.                    *)
Verdict(m) ==
    IF m.scheme = "none" \/ ~verifyToken(claims(m)) THEN "rejected"
    ELSE IF claims(m).jkt = NoKey THEN "accepted"
    ELSE IF m.scheme # "DPoP" \/ m.jti = NoProof THEN "rejected"
    ELSE IF ~ProofAcceptable(m.jti, clock) THEN "rejected"
    ELSE "none"

VerifyRequest(h, m) ==
    /\ pc[h] = "idle"
    /\ msg' = [msg EXCEPT ![h] = m]
    /\ sampled' = [sampled EXCEPT ![h] = IF Verdict(m) = "none" THEN clock ELSE 0]
    /\ outcome' = [outcome EXCEPT ![h] = Verdict(m)]
    /\ pc' = [pc EXCEPT ![h] = IF Verdict(m) = "none" THEN "checkJTI" ELSE "idle"]
    /\ UNCHANGED <<clock, iat, entries, accepted, admitted, restarts>>

(* Seen: a replay, or an entry for jtiTTL from now on and the rest of the  *)
(* verification.  evict and Add read the clock one after the other under   *)
(* the lock: one reading here, the entry could only live longer with two.  *)
CheckJTI(h) ==
    LET j == msg[h].jti IN
    /\ pc[h] = "checkJTI"
    /\ pc' = [pc EXCEPT ![h] = "idle"]
    /\ sampled' = [sampled EXCEPT ![h] = 0]
    /\ \/ /\ Seen(j)
          /\ entries' = evict
          /\ outcome' = [outcome EXCEPT ![h] = "replayed"]
          /\ UNCHANGED history
       \/ /\ ~Seen(j)
          /\ entries' = [evict EXCEPT ![j] = clock + jtiTTL]
          /\ outcome' = [outcome EXCEPT ![h] =
                IF ProofBinds(msg[h]) THEN "accepted" ELSE "rejected"]
          /\ admitted' = admitted \cup {j}
          /\ accepted' = [accepted EXCEPT ![j] = IF ProofBinds(msg[h]) THEN @ + 1 ELSE @]
    /\ UNCHANGED <<clock, iat, msg, restarts>>

(* Time passes; MaxLag only bounds how long a handler may stay between its *)
(* two readings of the clock.                                              *)
Tick ==
    /\ clock < MaxTime
    /\ \A h \in Handlers : pc[h] = "checkJTI" => clock < sampled[h] + MaxLag
    /\ clock' = clock + 1
    /\ UNCHANGED <<iat, entries, pc, msg, sampled, outcome, accepted, admitted, restarts>>

(* The cache is in memory; so are the requests being handled.              *)
Restart ==
    /\ restarts > 0
    /\ restarts' = restarts - 1
    /\ entries' = [j \in Jtis |-> 0]
    /\ pc' = [h \in Handlers |-> "idle"]
    /\ outcome' = [h \in Handlers |-> "none"]
    /\ accepted' = [j \in Jtis |-> 0]
    /\ admitted' = {}
    /\ sampled' = [h \in Handlers |-> 0]
    /\ UNCHANGED <<clock, iat, msg>>

Init ==
    /\ clock = 1
    /\ iat \in [Jtis -> IssueTimes]
    /\ entries = [j \in Jtis |-> 0]
    /\ pc = [h \in Handlers |-> "idle"]
    /\ msg = [h \in Handlers |-> CHOOSE m \in Requests : TRUE]
    /\ sampled = [h \in Handlers |-> 0]
    /\ outcome = [h \in Handlers |-> "none"]
    /\ accepted = [j \in Jtis |-> 0]
    /\ admitted = {}
    /\ restarts = MaxRestarts

Next ==
    \/ \E h \in Handlers, m \in Requests : VerifyRequest(h, m)
    \/ \E h \in Handlers : CheckJTI(h)
    \/ Tick
    \/ Restart

Spec == Init /\ [][Next]_vars

-----------------------------------------------------------------------------
(* Properties.                                                             *)

TypeOK ==
    /\ clock \in Nat \ {0}
    /\ iat \in [Jtis -> Nat]
    /\ entries \in [Jtis -> Nat]
    /\ pc \in [Handlers -> {"idle", "checkJTI"}]
    /\ msg \in [Handlers -> Requests]
    /\ sampled \in [Handlers -> Nat]
    /\ outcome \in [Handlers -> {"none", "accepted", "rejected", "replayed"}]
    /\ accepted \in [Jtis -> Nat]
    /\ admitted \subseteq Jtis
    /\ restarts \in Nat

(* A handler about to ask the cache works for a bound token and holds a    *)
(* proof that was timely when it read the clock, at most MaxLag ago.       *)
PendingIsTimely ==
    \A h \in Handlers : pc[h] = "checkJTI" =>
        /\ outcome[h] = "none"
        /\ msg[h].scheme = "DPoP"
        /\ msg[h].jti \in Jtis
        /\ TimelyAt(msg[h].jti, sampled[h])
        /\ sampled[h] <= clock
        /\ clock <= sampled[h] + MaxLag

(* The cache forgets a proof only once it is too old for a handler that    *)
(* would read the clock now.                                               *)
ForgottenIsStale ==
    \A j \in Jtis :
        /\ entries[j] # 0 => entries[j] >= iat[j] + maxProofAge
        /\ j \in admitted => entries[j] # 0 \/ clock > iat[j] + maxProofAge
        /\ j \notin admitted => entries[j] = 0 /\ accepted[j] = 0

(* No entry outlives the proof seen last by more than jtiTTL.              *)
NoEntryAhead == \A j \in Jtis : entries[j] <= clock + jtiTTL

(* However often and by however many handlers at a time a request is       *)
(* delivered, as long as its proof is fresh it has been accepted once at   *)
(* most (Seen, jtiTTL): a second acceptance needs a handler that judged the*)
(* age of the proof at an earlier moment.                                  *)
AcceptedOnceWhileFresh ==
    \A j \in Jtis : clock <= iat[j] + maxProofAge => accepted[j] <= 1

(* "It prevents replay attacks by tracking seen JTIs for jtiTTL"           *)
(* (jti.go): a proof is accepted once between two restarts.                *)
AcceptedAtMostOnce == \A j \in Jtis : accepted[j] <= 1

(* A request with a bound token is accepted only as DPoP, with the proof of*)
(* that very token by the key it is bound to, and the proof is used up.    *)
BoundTokenNeedsItsProof ==
    \A h \in Handlers :
        outcome[h] = "accepted" /\ claims(msg[h]).jkt # NoKey =>
            /\ msg[h].scheme = "DPoP"
            /\ msg[h].jti \in admitted
            /\ ProofBinds(msg[h])

(* The invariant of AuthenticationProofs.                                  *)
IInv ==
    /\ TypeOK
    /\ PendingIsTimely
    /\ ForgottenIsStale
    /\ NoEntryAhead
    /\ AcceptedOnceWhileFresh
    /\ BoundTokenNeedsItsProof

(* A proof is called a replay only when the cache let it through before:   *)
(* neither another proof nor an expired entry stands in its way.           *)
OnlyReplaysCalledReplayed ==
    [][\A h \in Handlers :
          outcome'[h] = "replayed" /\ outcome[h] # "replayed" => msg[h].jti \in admitted]_vars

(* Every use of the cache leaves it without an expired entry, so that it   *)
(* holds no more than the proofs of the last jtiTTL.                       *)
CacheHoldsRecentProofs ==
    [][\A h \in Handlers :
          pc[h] = "checkJTI" /\ outcome'[h] # "none" =>
             \A j \in Jtis : entries'[j] # 0 => entries'[j] \in clock .. clock + jtiTTL]_vars
=============================================================================
