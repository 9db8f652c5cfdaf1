---------------------------- MODULE MCSelfUpdate ----------------------------
(***************************************************************************)
(* TLC instance of SelfUpdate: the client's package, in the alphabetical   *)
(* order in which the release workflow packs it.                           *)
(***************************************************************************)
EXTENDS SelfUpdate

CONSTANTS agent, gui, loop, r1

MCFiles == {agent, gui}
MCZipOrder == <<agent, gui>>
MCRequests == {r1}
=============================================================================
