--------------------------- MODULE MCTerminalBridge ---------------------------
(* TerminalBridge for TLC: the browsers are alike. *)
EXTENDS TerminalBridge, TLC

ViewerSymmetry == Permutations(Viewers)
=============================================================================
