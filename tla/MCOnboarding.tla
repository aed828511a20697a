---------------------------- MODULE MCOnboarding ----------------------------
(***************************************************************************)
(* Instances of Onboarding for TLC.  ana is in the group and has a role    *)
(* with a quota behind one without; bob is not in the group.               *)
(***************************************************************************)
EXTENDS Onboarding, TLC

CONSTANTS
    ana, bob, team, s1, s2,
    MaxDisturbances   \* faults, crashes and interventions, taken together

MCUsers == {ana, bob}
MCGroups == {team}
MCSessions == {s1, s2}
MCMemberOf == (ana :> {team}) @@ (bob :> {})
MCRolesOf == (ana :> <<"guest", "gold">>) @@ (bob :> <<"broken">>)
MCRoles == {"guest", "gold", "broken"}

MCResources == {"memory"}
MCQuotaStrings == {"", "1Gi", "1024Mi", "2Gi", "much"}
MCParseQuantity == [s \in MCQuotaStrings \ {""} |->
    IF s \in {"1Gi", "1024Mi"} THEN "Gi" ELSE IF s = "2Gi" THEN "2Gi" ELSE "malformed"]

Of(s) == [x \in MCResources |-> s]

(* Roles decide for ana and bob, the group quota for the team.             *)
MCQuotas == [enabled |-> TRUE, default |-> Of(""), userEnabled |-> FALSE,
    user |-> Of("1Gi"), groupEnabled |-> TRUE, group |-> Of("1024Mi"),
    roles |-> ("gold" :> Of("2Gi")) @@ ("broken" :> Of("much"))]

MCNoQuotas == [MCQuotas EXCEPT !.enabled = FALSE]

NotAnnotated == [enabled |-> FALSE, static |-> "nil",
                 lastLogin |-> FALSE, userAttributes |-> FALSE]
FreshAnnotations == [NotAnnotated EXCEPT !.enabled = TRUE, !.userAttributes = TRUE]
StaticAnnotations == [FreshAnnotations EXCEPT !.static = "filled"]

(* The cluster at the start.  ana's namespace exists with a quota that is  *)
(* too small, ignored or not, or is absent; the group's has one or none, or*)
(* is absent; bob's, whose quota is malformed anyway, is absent.           *)
OfAna == <<NamespacePrefix, ana>>
OfTeam == <<GroupNamespacePrefix, team>>

MCInit ==
    /\ Init
    /\ \A n \in Namespaces : quotas[n].present => quotas[n].hard = ("memory" :> "Gi")
    /\ \A n \in Namespaces \ {OfAna, OfTeam} : namespaces[n].phase = "absent"
    /\ namespaces[OfAna].phase = "active" <=> quotas[OfAna].present
    /\ ~quotas[OfTeam].ignore

(* The bounds, each of them a constant, and one on all that goes wrong.    *)
Disturbances ==
    MaxFaults + MaxCrashes + MaxAdmin
        - (budget["faults"] + budget["crashes"] + budget["admin"])

MCNext == Next /\ Disturbances' <= MaxDisturbances

(* They let the sessions stop only when every one has its answer.          *)
Quiescent ==
    /\ budget["requests"] = 0
    /\ \A w \in Sessions : pc[w] = "idle" \/ (pc[w] = "done" /\ status[w] = 200)
    /\ UNCHANGED vars

MCSpec == MCInit /\ [][MCNext \/ Quiescent]_vars
MCFairSpec == MCSpec /\ Fairness
=============================================================================
