--------------------------- MODULE MCIndVarSearch ---------------------------
(***************************************************************************)
(* IndVarSearch on small functions: two stack slots, three values (loads,  *)
(* arithmetic, an opcode without a case), two stores and a compare, each   *)
(* value before, in or after the loop.                                     *)
(***************************************************************************)
EXTENDS IndVarSearch

SlotA == 1
SlotB == 2
PointerSlot == 0      \* a slot that holds the address of SlotA
Val1 == 3
Val2 == 4
Val3 == 5
Cmp == 6
Store1 == 7
Store2 == 8
CmpUser == 9          \* the compare's user, a branch or a conversion

Instrs == 0..9

Ins(o, x, y, vol) == [op |-> o, x |-> x, y |-> y, vol |-> vol]
Load(p) == Ins("load", p, Constant, FALSE)

Add(x, y) == Ins("add", x, y, FALSE)
Sub(x, y) == Ins("sub", x, y, FALSE)
Store(v, p) == Ins("store", v, p, FALSE)
Compare(x, y) == Ins("cmp", x, y, FALSE)
Other(x) == Ins("other", x, Constant, FALSE)
VolatileLoad(p) == Ins("load", p, Constant, TRUE)

\* A store of the address of SlotA uses SlotA as its value, not as its pointer.
Stores == {Store(v, p) : v \in {Val1, Val2, Val3, Constant}, p \in {SlotA, SlotB}}
            \cup {Store(SlotA, PointerSlot)}

\* 0 before the loop, 1 in it, 2 after it.
PlaceChoices == {<<1, 1, 1>>, <<0, 0, 1>>, <<1, 1, 2>>, <<1, 2, 2>>}

Args(d) == {d.x, d.y}

\* A value is computed after the ones it uses, and the compare is in the loop.
Legal(def, place) ==
  /\ \A v \in {Val2, Val3} : \A w \in Args(def[v]) \cap {Val1, Val2} : place[w] <= place[v]
  /\ \A w \in Args(def[Cmp]) \cap {Val1, Val2, Val3} : place[w] <= 1

\* The instructions of a function; `user' is what uses the compare.
DefsOf(v1, v2, v3, c, s1, s2, user) ==
  <<v1, v2, v3, c, s1, s2,
    Ins("other", IF user = "none" THEN Constant ELSE Cmp, Constant, FALSE)>>

Alloca == Ins("alloca", Constant, Constant, FALSE)

DefAt(defs) == [i \in Instrs |-> IF i < Val1 THEN Alloca ELSE defs[i - 2]]

\* A store is next to the value it stores; the slots are allocated on entry.
PlaceAt(def, places) ==
  [i \in Instrs |->
     LET v == IF i \in {Store1, Store2} THEN def[i].x ELSE i
     IN  IF v \in {Val1, Val2, Val3} THEN places[v - 2]
         ELSE IF v \in {PointerSlot, SlotA, SlotB} THEN 0 ELSE 1]

\* The use lists as the bitcode reader leaves them: a new use goes to the front,
\* so a list runs against the program order.
Backwards(place) ==
  LET at(k) == SelectSeq(<<9, 8, 7, 6, 5, 4, 3, 2, 1, 0>>, LAMBDA i : place[i] = k)
  IN  at(2) \o at(1) \o at(0)

UsersOf(def, order) ==
  [i \in Instrs |-> SelectSeq(order, LAMBDA u : i \in Args(def[u]))]

LoopOf(def, place, users, user, located) ==
  [ins      |-> Instrs,
   op       |-> [i \in Instrs |-> def[i].op],
   arg0     |-> [i \in Instrs |-> def[i].x],
   arg1     |-> [i \in Instrs |-> def[i].y],
   users    |-> users,
   inLoop   |-> {i \in Instrs : place[i] = 1},
   inExit   |-> IF user = "exit" THEN {CmpUser} ELSE {},
   volatile |-> {i \in Instrs : def[i].vol},
   located  |-> located,
   header   |-> SelectSeq(<<Val1, Val2, Val3, Cmp>>,
                          LAMBDA i : place[i] = 1 /\ i \in Args(def[Cmp]) \cup {Cmp})]

\* The parts of a function one after the other: TLC computes an argument once.
WithPlace(def, place, user, located) ==
  LoopOf(def, place, UsersOf(def, Backwards(place)), user, located)

WithDef(def, places, user, located) ==
  WithPlace(def, PlaceAt(def, places), user, located)

\* What the compare's user is, and the instructions with a debug location.
CONSTANTS CmpUses, LocatedSets

\* A loop over a local variable, with every way to store two values.
LocalLoops ==
  {<<DefAt(DefsOf(Load(SlotA), v2, v3, c, s1, s2, "exit")), places, "exit", Instrs>> :
     v2 \in {Load(SlotB), Add(Val1, Constant), Sub(Val1, Constant)},
     v3 \in {Add(Val2, Constant), Add(Val1, Val2)},
     c \in {Compare(Val1, Constant), Compare(Val2, Val3)},
     s1 \in {Store(v, p) : v \in {Val2, Val3}, p \in {SlotA, SlotB}},
     s2 \in Stores, places \in PlaceChoices}

\* Loops over variables of other kinds, and chains of loads.
OtherLoops ==
  {<<DefAt(DefsOf(v1, v2, Load(SlotB), c, s1, s2, "exit")), places, "exit", Instrs>> :
     v1 \in {Load(SlotA), Load(Global), Load(OtherPointer), VolatileLoad(SlotA)},
     v2 \in {Load(SlotA), VolatileLoad(SlotB), Add(Val1, Constant),
             Ins("mul", Val1, Constant, FALSE), Other(Val1)},
     c \in {Compare(Val1, Constant), Compare(Constant, Val2), Compare(Val2, Val3)},
     s1 \in {Store(Val2, SlotA), Store(Val3, SlotA)},
     s2 \in {Store(Val1, SlotB), Store(Val2, SlotB), Store(Constant, SlotA)},
     places \in {<<1, 1, 1>>, <<0, 0, 1>>}}

\* The compare unused or used elsewhere, and instructions without a location.
PartialLoops ==
  {<<DefAt(DefsOf(Load(SlotA), v2, Load(SlotB), c, s1, s2, user)), places, user, located>> :
     v2 \in {Load(SlotB), Add(Val1, Constant)},
     c \in {Compare(Val1, Constant), Compare(Val1, Val3)},
     s1 \in {Store(Val2, SlotA), Store(Val3, SlotA)},
     s2 \in {Store(Val2, SlotB), Store(Constant, SlotB)},
     places \in {<<1, 1, 1>>}, user \in CmpUses, located \in LocatedSets}

Shapes == LocalLoops \cup OtherLoops \cup PartialLoops

MC_Loops ==
  {WithDef(s[1], s[2], s[3], s[4]) :
     s \in {t \in Shapes : Legal(t[1], PlaceAt(t[1], t[2]))}}

MC_LocatedSets == {Instrs, Instrs \ {Val2}, {}}
=============================================================================
