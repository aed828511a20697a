-------------------------- MODULE ClusterContract ---------------------------
(***************************************************************************)
(* What onboarding promises about the cluster, whatever the interleaving   *)
(* of its requests, their failures and their retries: a change it makes is *)
(* one of two atomic changes, to the namespace of a request it is serving, *)
(* and it serves the requests of entitled users only.  resourceVersions,   *)
(* annotations and the steps of a request are not visible here.            *)
(*                                                                         *)
(* Who makes a change is: administrators use up an intervention with each  *)
(* of theirs, the namespace controller only finishes deletions, and what   *)
(* is left has to be accounted for by a session being served.              *)
(***************************************************************************)
EXTENDS Naturals

CONSTANTS
    Namespaces,
    HardLimits, NoLimits,   \* the hard maps of ResourceQuotas, the empty one
    Servers,                \* the sessions
    Entitled,               \* the requests of users entitled to make them
    NamespaceOf,            \* the namespace a request is about
    LimitsOf                \* what may be enforced there for it: one or none

VARIABLES
    phases,        \* phase of each namespace
    limits,        \* the ResourceQuota of each namespace
    serving,       \* the request each session is being served, if any
    interventions  \* how often administrators may still act

cvars == <<phases, limits, serving, interventions>>

ContractQuota == [present: BOOLEAN, hard: HardLimits, ignore: BOOLEAN]
NoQuota == [present |-> FALSE, hard |-> NoLimits, ignore |-> FALSE]

(* The sessions: only an entitled request is served at all, and it may end *)
(* at any time, with what it has done so far or with its last change.      *)
Ask(w, r) ==
    /\ serving[w] = {}
    /\ serving' = [serving EXCEPT ![w] = {r}]
    /\ UNCHANGED <<phases, limits, interventions>>

End(S) ==
    /\ serving' = [w \in Servers |-> IF w \in S THEN {} ELSE serving[w]]
    /\ UNCHANGED <<phases, limits, interventions>>

MayEnd(w) == serving' \in {serving, [serving EXCEPT ![w] = {}]}

(* The changes made for them: a namespace is opened, and a quota that is   *)
(* not ignored and not already right is made right.                        *)
OpenNamespace(w, r) ==
    /\ r \in serving[w]
    /\ phases[NamespaceOf[r]] = "absent"
    /\ phases' = [phases EXCEPT ![NamespaceOf[r]] = "active"]
    /\ MayEnd(w)
    /\ UNCHANGED <<limits, interventions>>

EnforceQuota(w, r) == LET n == NamespaceOf[r] IN
    /\ r \in serving[w]
    /\ phases[n] # "absent"
    /\ limits[n].present \/ phases[n] = "active"
    /\ ~limits[n].ignore
    /\ \E hard \in LimitsOf[r] :
          /\ hard # limits[n].hard
          /\ limits' = [limits EXCEPT ![n] =
                [present |-> TRUE, hard |-> hard, ignore |-> FALSE]]
    /\ MayEnd(w)
    /\ UNCHANGED <<phases, interventions>>

(* The administrators.                                                     *)
Intervene ==
    /\ interventions > 0
    /\ interventions' = interventions - 1
    /\ UNCHANGED serving

AdminWrites(n) ==
    /\ Intervene
    /\ phases[n] = "active"
    /\ \E q \in ContractQuota : limits' = [limits EXCEPT ![n] = q]
    /\ UNCHANGED phases

AdminDeletes(n) ==
    /\ Intervene
    /\ limits' = [limits EXCEPT ![n] = NoQuota]
    /\ UNCHANGED phases

Terminate(n) ==
    /\ Intervene
    /\ phases[n] = "active"
    /\ phases' = [phases EXCEPT ![n] = "terminating"]
    /\ UNCHANGED limits

(* The namespace controller.                                               *)
Finalize(n) ==
    /\ phases[n] = "terminating"
    /\ phases' = [phases EXCEPT ![n] = "absent"]
    /\ limits' = [limits EXCEPT ![n] = NoQuota]
    /\ UNCHANGED <<serving, interventions>>

Init ==
    /\ phases \in [Namespaces -> {"absent", "active"}]
    /\ limits \in [Namespaces -> ContractQuota]
    /\ \A n \in Namespaces : limits[n].present => phases[n] = "active"
    /\ serving = [w \in Servers |-> {}]
    /\ interventions \in Nat

Next ==
    \/ \E w \in Servers, r \in Entitled :
          \/ Ask(w, r)
          \/ OpenNamespace(w, r)
          \/ EnforceQuota(w, r)
    \/ \E S \in SUBSET Servers : End(S)
    \/ \E n \in Namespaces :
          \/ AdminWrites(n)
          \/ AdminDeletes(n)
          \/ Terminate(n)
          \/ Finalize(n)

Spec == Init /\ [][Next]_cvars
=============================================================================
