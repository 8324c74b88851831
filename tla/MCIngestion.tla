------------------------------ MODULE MCIngestion ------------------------------
(***************************************************************************)
(* Ingestion for TLC: a sound reading and a malformed one, of one node.    *)
(***************************************************************************)
EXTENDS Ingestion, TLC

CONSTANTS sound, broken, transformer

MCReading == {sound, broken}
MCNodeOf == (sound :> transformer) @@ (broken :> transformer)
MCMalformed == {broken}
=============================================================================
