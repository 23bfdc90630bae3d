--------------------------- MODULE MCAttestation ---------------------------
(* A small instance of Attestation and KeyRoute for TLC.                    *)
EXTENDS KeyRoute
=============================================================================
