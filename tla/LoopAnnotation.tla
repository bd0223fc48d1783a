--------------------------- MODULE LoopAnnotation ---------------------------
(***************************************************************************)
(* What the pass promises for back edges, with no traversal in it: every   *)
(* loop of the module is annotated in one step, once, and only after all   *)
(* the loops nested in it; annotating a loop tags the branch that ends     *)
(* each of its latches with the branch's source location.  LoopWalk is     *)
(* shown to implement it.                                                  *)
(***************************************************************************)
VARIABLES M,               \* the module being annotated, a record as in LoopWalk
          annotated,       \* the loops annotated so far
          backedge         \* block -> "backedge: " metadata of its terminator

avars == <<M, annotated, backedge>>

\* The metadata of loop l's latches: a branch, conditional or not, is tagged,
\* with its file and line when it has a debug location.
Tag(b) == IF b \in M.located THEN "cla_file_line" ELSE "cla"

Tagged(l) == {b \in M.latches[l] : M.term[b] \in {"br", "condbr"}}

AInit ==
  /\ annotated = {}
  /\ backedge = [b \in M.blocks |-> "none"]

Annotate(l) ==
  /\ l \notin annotated
  /\ M.inner[l] \subseteq annotated
  /\ annotated' = annotated \cup {l}
  /\ backedge' = [b \in M.blocks |-> IF b \in Tagged(l) THEN Tag(b) ELSE backedge[b]]
  /\ UNCHANGED M

ANext == \E l \in M.loops : Annotate(l)

ASpec == AInit /\ [][ANext]_avars

=============================================================================
