----------------------------- MODULE MCToolLoop -----------------------------
(* Small instances of ToolLoop.                                            *)
EXTENDS ToolLoop
MCSettings == {-1, 0, 1, 3}
=============================================================================
