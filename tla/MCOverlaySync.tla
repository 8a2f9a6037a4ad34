---------------------------- MODULE MCOverlaySync ----------------------------
(***************************************************************************)
(* An instance of OverlaySync: two files of two hunks.  Upstream changes   *)
(* one hunk of f at commit 1, adds g there, drops g again at commit 2; the *)
(* first pin may be one without the compiler.                              *)
(***************************************************************************)
EXTENDS OverlaySync

CONSTANTS f, g

Of(x, y) == [h \in Hunks |-> IF h = 1 THEN x ELSE y]

Upstream ==
  [c \in 0 .. Last |->
    [p \in Paths |->
      CASE p = f /\ c = 0        -> Of("a0", "b0")
        [] p = f /\ c \in {1, 2} -> Of("a0", "b1")
        [] p = g /\ c = 1        -> Of("g1", "h1")
        [] OTHER                 -> Absent]]

AllLines == {"a0", "b0", "b1", "g1", "h1", "ours", "marker"}
=============================================================================
