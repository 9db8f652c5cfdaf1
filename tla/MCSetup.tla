------------------------------ MODULE MCSetup ------------------------------
(***************************************************************************)
(* TLC instance of Setup.  The pair codes are interchangeable.             *)
(***************************************************************************)
EXTENDS Setup, TLC

CONSTANTS a, b, c, d, e

MCCodes == {a, b, c, d, e}
=============================================================================
