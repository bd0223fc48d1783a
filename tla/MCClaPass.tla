----------------------------- MODULE MCClaPass -----------------------------
(***************************************************************************)
(* ClaPass on functions with two loops, one after the other or one in the  *)
(* other, over the same variable or two.  Loop k has header hk and latch   *)
(* bk; its header loads the variable and compares it, its latch loads it   *)
(* again, adds to it and stores the sum, the loaded value or a constant.   *)
(***************************************************************************)
EXTENDS ClaPass

SlotX == "x"
SlotY == "y"

Blocks == {"entry", "h1", "b1", "h2", "b2"}

\* In program order; the second loop's instructions follow the first's.
Order == <<"x", "y", "l1", "c1", "t1", "m1", "a1", "s1", "l2", "c2", "t2", "m2", "a2", "s2">>

Instrs == {Order[k] : k \in DOMAIN Order}

InBlock == [i \in Instrs |->
  CASE i \in {"x", "y"} -> "entry"
    [] i \in {"l1", "c1", "t1"} -> "h1"
    [] i \in {"m1", "a1", "s1"} -> "b1"
    [] i \in {"l2", "c2", "t2"} -> "h2"
    [] i \in {"m2", "a2", "s2"} -> "b2"]

Opcode == [i \in Instrs |->
  CASE i \in {"x", "y"} -> "alloca"
    [] i \in {"l1", "l2", "m1", "m2"} -> "load"
    [] i \in {"c1", "c2"} -> "cmp"
    [] i \in {"t1", "t2"} -> "other"
    [] i \in {"a1", "a2"} -> "add"
    [] i \in {"s1", "s2"} -> "store"]

\* head: the pointer of the second header's load; ptr: the variable of the second
\* loop's body; v1, v2: the values stored.
Arg0(head, v1, v2, ptr) == [i \in Instrs |->
  CASE i \in {"l1", "m1"} -> SlotX
    [] i = "l2" -> head
    [] i = "m2" -> ptr
    [] i = "c1" -> "l1" [] i = "c2" -> "l2"
    [] i = "t1" -> "c1" [] i = "t2" -> "c2"
    [] i = "a1" -> "m1" [] i = "a2" -> "m2"
    [] i = "s1" -> v1   [] i = "s2" -> v2
    [] OTHER -> Constant]

Arg1(ptr) == [i \in Instrs |->
  CASE i = "s1" -> SlotX [] i = "s2" -> ptr [] OTHER -> Constant]

Backwards == [k \in DOMAIN Order |-> Order[Len(Order) + 1 - k]]

CodeOf(arg0, arg1, located) ==
  [ins |-> Instrs, op |-> Opcode, arg0 |-> arg0, arg1 |-> arg1,
   users |-> [i \in Instrs |->
                SelectSeq(Backwards, LAMBDA u : i \in {arg0[u], arg1[u]})],
   block |-> InBlock, volatile |-> {}, located |-> located]

\* Two functions, of which the second is a declaration.
ProgramOf(nested, code) ==
  [nfuncs |-> 2, defined |-> {1}, code |-> <<code>>,
   loops |-> {"h1", "h2"}, blocks |-> Blocks,
   owner |-> [l \in {"h1", "h2"} |-> 1],
   parent |-> [l \in {"h1", "h2"} |-> IF l = "h2" /\ nested THEN "h1" ELSE NoLoop],
   inner |-> [l \in {"h1", "h2"} |-> IF l = "h1" /\ nested THEN {"h2"} ELSE {}],
   body |-> [l \in {"h1", "h2"} |->
               IF l = "h2" THEN {"h2", "b2"}
               ELSE {"h1", "b1"} \cup IF nested THEN {"h2", "b2"} ELSE {}],
   header |-> [l \in {"h1", "h2"} |->
                 IF l = "h1" THEN <<"l1", "c1", "t1">> ELSE <<"l2", "c2", "t2">>],
   preds |-> [l \in {"h1", "h2"} |-> IF l = "h1" THEN {"entry", "b1"} ELSE {"h1", "b2"}],
   latches |-> [l \in {"h1", "h2"} |-> IF l = "h1" THEN {"b1"} ELSE {"b2"}],
   exiting |-> [l \in {"h1", "h2"} |-> {l}],
   term |-> [b \in Blocks |-> IF b \in {"h1", "h2"} THEN "condbr" ELSE "br"],
   located |-> Blocks]

MC_Programs ==
  {ProgramOf(nested, CodeOf(Arg0(head, v1, v2, ptr), Arg1(ptr), located)) :
     nested \in BOOLEAN, head \in {SlotX, SlotY, OtherPointer},
     v1 \in {"a1", "m1", Constant}, v2 \in {"a2", "m2", "a1"},
     ptr \in {SlotX, SlotY}, located \in {Instrs, Instrs \ {"a1"}, {}}}
=============================================================================
