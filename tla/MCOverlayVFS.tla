---------------------------- MODULE MCOverlayVFS ----------------------------
(* Small instances of OverlayVFS: the base has a directory x with a file x *)
(* in it.  Writing is writing the empty content, so that a file is either  *)
(* as the base has it or changed.                                          *)
EXTENDS OverlayVFS, TLC

CONSTANTS x, y

SmallBase == (<<x>> :> Dir) @@ (<<x, x>> :> File(Old))
=============================================================================
