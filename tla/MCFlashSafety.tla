--------------------------- MODULE MCFlashSafety ---------------------------
(***************************************************************************)
(* TLC instance of FlashSafety: the window of the desktop and a browser.   *)
(***************************************************************************)
EXTENDS FlashSafety, TLC

CONSTANTS gui, browser

MCViewers == {gui, browser}
Symmetric == Permutations(MCViewers)
=============================================================================
