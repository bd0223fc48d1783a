------------------------------ MODULE LoopInfo ------------------------------
(***************************************************************************)
(* LLVM's DominatorTree and LoopInfoBase, the library code that the pass   *)
(* calls for every function body (custom_loop_analysis.cpp:516-518) and    *)
(* queries through Loop::getHeader, getSubLoops, contains,                 *)
(* getExitingBlocks and predecessors().  LLVM is not part of the           *)
(* repository: this module says what the pass relies on.                   *)
(*                                                                         *)
(* A control-flow graph is a record                                        *)
(*    entry : the entry block, which has no predecessor;                   *)
(*    succ  : block -> set of successor blocks.                            *)
(* A loop is named by its header, as no two LLVM loops share one.          *)
(***************************************************************************)
EXTENDS Naturals, FiniteSets

Blocks(g) == DOMAIN g.succ

Preds(g, b) == {p \in Blocks(g) : b \in g.succ[p]}

\* The blocks reachable from the entry by paths that never visit `avoid'.
ReachableAvoiding(g, avoid) ==
  LET within[n \in Nat] ==
        IF n = 0 THEN {g.entry} \ avoid
        ELSE LET prev == within[n - 1]
             IN  prev \cup (UNION {g.succ[b] : b \in prev} \ avoid)
  IN  within[Cardinality(Blocks(g))]

Reachable(g) == ReachableAvoiding(g, {})

\* DominatorTree::dominates, for a block b reachable from the entry.
Dominates(g, a, b) == a = b \/ b \notin ReachableAvoiding(g, {a})

\* The sources of the back edges into h: the reachable blocks with an edge to
\* h that h dominates.
Latches(g, h) == {b \in Preds(g, h) \cap Reachable(g) : Dominates(g, h, b)}

\* Loop headers: the blocks some back edge enters.
Headers(g) == {h \in Reachable(g) : Latches(g, h) # {}}

\* The natural loop of h: h and every reachable block that reaches a latch
\* without going through h (LoopInfo's walk of the reversed graph).
LoopBody(g, h) ==
  LET within[n \in Nat] ==
        IF n = 0 THEN {h} \cup Latches(g, h)
        ELSE LET prev == within[n - 1]
             IN  prev \cup UNION {Preds(g, b) \cap Reachable(g) : b \in prev \ {h}}
  IN  within[Cardinality(Blocks(g))]

\* Loop::getExitingBlocks: the blocks of the loop with an edge out of it.
ExitingBlocks(g, h) ==
  {b \in LoopBody(g, h) : ~ (g.succ[b] \subseteq LoopBody(g, h))}

=============================================================================
