-------------------------- MODULE MCAuthentication --------------------------
(***************************************************************************)
(* Instances of Authentication for TLC: a bound token with one proof of    *)
(* its own, one signed for another token and one that does not verify; an  *)
(* unbound token, and one of another audience.                             *)
(***************************************************************************)
EXTENDS Authentication, TLC

CONSTANTS bound, free, foreign, key, good, stray, forged, h1, h2

Claims == [genuine |-> TRUE, aud |-> "ours", username |-> TRUE, jkt |-> NoKey]

MCTokenClaims ==
       bound :> [Claims EXCEPT !.jkt = key]
    @@ free :> Claims
    @@ foreign :> [Claims EXCEPT !.aud = "other", !.jkt = key]

MCProofs ==
       good :> [signed |-> TRUE, request |-> TRUE, key |-> key, ath |-> bound]
    @@ forged :> [signed |-> FALSE, request |-> TRUE, key |-> key, ath |-> bound]
    @@ stray :> [signed |-> TRUE, request |-> TRUE, key |-> key, ath |-> free]

Sent(scheme, token, jti) == [scheme |-> scheme, token |-> token, jti |-> jti]

MCRequests ==
    {Sent("DPoP", bound, good), Sent("DPoP", bound, stray), Sent("Bearer", bound, good),
     Sent("DPoP", bound, forged), Sent("DPoP", bound, NoProof), Sent("Bearer", free, NoProof),
     Sent("DPoP", foreign, good), Sent("none", free, NoProof)}

Sym == Permutations(Handlers)
=============================================================================
