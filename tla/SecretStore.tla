---------------------------- MODULE SecretStore -----------------------------
(***************************************************************************)
(* What OnyxiaSecretGateway (services/ports) promises to callers that work *)
(* on the same secrets: Ensure and Delete take effect at one instant or not*)
(* at all, an answer without error means that they did, and the metadata   *)
(* others put on a secret is not touched as long as the secret exists.     *)
(***************************************************************************)
CONSTANTS Callers, Names, Data, NoData, Metas, NoMeta

VARIABLES
    store,      \* the data of each secret, NoData when there is none
    metadata,   \* labels and annotations others put on each secret
    call        \* the operation of each caller, and how the last one ended

svars == <<store, metadata, call>>

Operation ==
       [op: {"ensure"}, name: Names, data: Data]
  \cup [op: {"delete"}, name: Names, data: {NoData}]

Ended(result) == [op |-> result]

Finish(c, result) == call' = [call EXCEPT ![c] = Ended(result)]

Call(c) ==
    /\ call[c].op \in {"none", "ok", "failed"}
    /\ \E o \in Operation : call' = [call EXCEPT ![c] = o]
    /\ UNCHANGED <<store, metadata>>

Ensure(c) ==
    /\ call[c].op = "ensure"
    /\ store' = [store EXCEPT ![call[c].name] = call[c].data]
    /\ metadata' = [metadata EXCEPT ![call[c].name] =
          IF store[call[c].name] = NoData THEN NoMeta ELSE @]
    /\ \E result \in {"ok", "failed"} : Finish(c, result)

Delete(c) ==
    /\ call[c].op = "delete"
    /\ store' = [store EXCEPT ![call[c].name] = NoData]
    /\ metadata' = [metadata EXCEPT ![call[c].name] = NoMeta]
    /\ \E result \in {"ok", "failed"} : Finish(c, result)

Fail(c) ==
    /\ call[c].op \in {"ensure", "delete"}
    /\ Finish(c, "failed")
    /\ UNCHANGED <<store, metadata>>

(* An administrator labels a secret, or the process restarts.              *)
Annotate(n) ==
    /\ store[n] # NoData
    /\ \E m \in Metas : metadata' = [metadata EXCEPT ![n] = m]
    /\ UNCHANGED <<store, call>>

Restart ==
    /\ call' = [c \in Callers |-> Ended("none")]
    /\ UNCHANGED <<store, metadata>>

Init ==
    /\ store \in [Names -> Data \cup {NoData}]
    /\ metadata = [n \in Names |-> NoMeta]
    /\ call = [c \in Callers |-> Ended("none")]

Next ==
    \/ \E c \in Callers : Call(c) \/ Ensure(c) \/ Delete(c) \/ Fail(c)
    \/ \E n \in Names : Annotate(n)
    \/ Restart

Spec == Init /\ [][Next]_svars
=============================================================================
