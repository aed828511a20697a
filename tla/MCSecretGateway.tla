-------------------------- MODULE MCSecretGateway ---------------------------
(***************************************************************************)
(* The instance of SecretGateway for TLC.                                  *)
(***************************************************************************)
EXTENDS SecretGateway, TLC
=============================================================================
