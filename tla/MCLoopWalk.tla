----------------------------- MODULE MCLoopWalk -----------------------------
(***************************************************************************)
(* LoopWalk on every module of two functions in which the first function   *)
(* is any control-flow graph over MaxBody blocks behind the entry block,   *)
(* and the second a declaration or a single-loop body.                     *)
(***************************************************************************)
EXTENDS LoopInfo, LoopWalk, TLC

CONSTANT MaxBody        \* the number of blocks of the first function beside its entry

Entry == 0
Body == 1..MaxBody

\* Verified IR: a block has at most two successors here, and never the entry.
SuccSets == {s \in SUBSET Body : Cardinality(s) <= 2}

CFGs == {[entry |-> Entry, succ |-> [b \in {Entry} \cup Body |->
                                       IF b = Entry THEN {1} ELSE f[b]]] :
           f \in [Body -> SuccSets]}

\* The second function: block 20 leads to 21, a block that branches to itself
\* and to 22.
SecondCFG == [entry |-> 20, succ |-> (20 :> {21}) @@ (21 :> {21, 22}) @@ (22 :> {})]

NoCFG == [entry |-> 20, succ |-> [b \in {} |-> {}]]

\* The terminator of a block with successors s.
TermOf(s, k) == IF s = {} THEN "ret" ELSE
                IF k = "switch" THEN "switch" ELSE
                IF Cardinality(s) = 1 THEN "br" ELSE "condbr"

\* The record LoopWalk works on, from two graphs, the blocks that end in a
\* switch and the blocks whose terminator has a debug location.
ProgramOf(g1, g2, switches, located) ==
  LET succ == g1.succ @@ g2.succ
      graph(h) == IF h \in Blocks(g1) THEN g1 ELSE g2
      headers == Headers(g1) \cup (IF Blocks(g2) = {} THEN {} ELSE Headers(g2))
      body == [h \in headers |-> LoopBody(graph(h), h)]
      outer(h) == {o \in headers \ {h} : h \in body[o]}
      inner == [h \in headers |-> {m \in headers : h \in outer(m)}]
  IN [nfuncs  |-> 2,
      defined |-> IF Blocks(g2) = {} THEN {1} ELSE {1, 2},
      blocks  |-> DOMAIN succ,
      loops   |-> headers,
      owner   |-> [h \in headers |-> IF h \in Blocks(g1) THEN 1 ELSE 2],
      inner   |-> inner,
      parent  |-> [h \in headers |->
                     IF outer(h) = {} THEN NoLoop
                     ELSE CHOOSE o \in outer(h) : inner[o] \cap outer(h) = {}],
      body    |-> body,
      preds   |-> [h \in headers |-> Preds(graph(h), h)],
      latches |-> [h \in headers |-> Latches(graph(h), h)],
      exiting |-> [h \in headers |-> ExitingBlocks(graph(h), h)],
      term    |-> [b \in DOMAIN succ |->
                     TermOf(succ[b], IF b \in switches THEN "switch" ELSE "br")],
      located |-> located \cap DOMAIN succ]

MC_Programs ==
  {ProgramOf(g1, g2, switches, located) :
     g1 \in CFGs, g2 \in {SecondCFG, NoCFG},
     switches \in {{}, {1}, {2}}, located \in {{}, {2}, Body \cup {20, 21, 22}}}
=============================================================================
