-------------------------- MODULE InstallContract --------------------------
(***************************************************************************)
(* What the installation of services promises about the cluster and to who *)
(* listens: secrets are written for requests that may be carried out, a    *)
(* release is one request's for good and comes after its secret, its end   *)
(* is its own job's doing, and a job that says success has a release that  *)
(* is deployed and stays so.                                               *)
(***************************************************************************)
CONSTANTS
    Jobs,               \* installations under way, one after the other each
    Allowed,            \* requests that may be carried out
    SecretOf(_), DataOf(_),
    Names, NameOf(_),   \* of releases
    NoSecret

VARIABLES
    secrets,    \* by the name of the secret
    releases,   \* by name: status, and the request it is of
    asked,      \* per job: its request
    told        \* per job: "nothing", "start", "success" or "error"

contract == <<secrets, releases, asked, told>>

Tell(h, what) == told' = [told EXCEPT ![h] = what]
Mine(h) == NameOf(asked[h]) \in Names /\ releases[NameOf(asked[h])].of = asked[h]
MineIs(h, status) == Mine(h) /\ releases[NameOf(asked[h])].status = status
Mark(h, status) == releases' = [releases EXCEPT ![NameOf(asked[h])].status = status]

(* Another request takes the place of one that is not being installed.     *)
Ask(h) ==
    /\ told[h] # "start"
    /\ asked' = [asked EXCEPT ![h] = asked'[h]]
    /\ Tell(h, "nothing")
    /\ UNCHANGED <<secrets, releases>>

Prepare(h) ==
    /\ told[h] = "nothing" /\ asked[h] \in Allowed
    /\ secrets' = [secrets EXCEPT ![SecretOf(asked[h])] = DataOf(asked[h])]
    /\ UNCHANGED <<releases, asked, told>>

Start(h) ==
    /\ told[h] = "nothing" /\ asked[h] \in Allowed /\ NameOf(asked[h]) \in Names
    /\ secrets[SecretOf(asked[h])] # NoSecret
    /\ Tell(h, "start")
    /\ UNCHANGED <<secrets, releases, asked>>

(* Only a name that is free is taken.                                      *)
Install(h) ==
    /\ told[h] = "start" /\ releases[NameOf(asked[h])].status = "absent"
    /\ releases' = [releases EXCEPT ![NameOf(asked[h])] =
          [status |-> "pending", of |-> asked[h]]]
    /\ UNCHANGED <<secrets, asked, told>>

(* Helm finishes, maybe after its job has given up.                        *)
Deploy(h) ==
    /\ told[h] \in {"start", "error"} /\ (MineIs(h, "pending") \/ MineIs(h, "failed"))
    /\ Mark(h, "deployed")
    /\ UNCHANGED <<secrets, asked, told>>

Succeed(h) ==
    /\ told[h] = "start" /\ MineIs(h, "deployed")
    /\ Tell(h, "success")
    /\ UNCHANGED <<secrets, releases, asked>>

(* What it had begun is marked as failed.                                  *)
Fail(h) ==
    /\ told[h] = "start"
    /\ \/ UNCHANGED releases
       \/ (MineIs(h, "pending") \/ MineIs(h, "deployed")) /\ Mark(h, "failed")
    /\ Tell(h, "error")
    /\ UNCHANGED <<secrets, asked>>

(* The process ends; what it has done to the cluster stays.                *)
Forget ==
    /\ told' = [h \in Jobs |-> "nothing"]
    /\ UNCHANGED <<secrets, releases, asked>>

Init ==
    /\ \A s \in DOMAIN secrets : secrets[s] = NoSecret
    /\ \A n \in Names : releases[n].status = "absent"
    /\ told = [h \in Jobs |-> "nothing"]

Next ==
    \/ \E h \in Jobs :
          \/ Ask(h) \/ Prepare(h) \/ Start(h) \/ Install(h)
          \/ Deploy(h) \/ Succeed(h) \/ Fail(h)
    \/ Forget

Spec == Init /\ [][Next]_contract
=============================================================================
