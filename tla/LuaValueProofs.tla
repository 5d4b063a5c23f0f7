----------------------------- MODULE LuaValueProofs -----------------------------
(***************************************************************************)
(* What StackItems promises of one frame of the stack under any user, for  *)
(* any number of values and slots, and then the Values of a host program   *)
(* and of the callbacks inside its calls, for any number of Values,        *)
(* results and frames.                                                     *)
(*                                                                         *)
(* In the first part, a live item and an element of the queue are treated  *)
(* alike, as the slots Lo + 1 .. Hi: a destructor that leaves its item to  *)
(* the queue changes nothing then.  A destructor that drains the queue has *)
(* given up the slots above `draining' already, so the frame ends there.   *)
(*                                                                         *)
(* Almost every step of LuaValue is a step of one frame, to which the      *)
(* lemmas of the first part apply.  What is left are the steps between     *)
(* frames: a frame that is suspended in a call must be well-formed when it *)
(* goes on, and it is, as long as the one queue is empty whenever a        *)
(* callback is entered or left.                                            *)
(***************************************************************************)
EXTENDS LuaValue, TLAPS

-----------------------------------------------------------------------------
(* One frame.                                                               *)

All == DOMAIN items \cup DOMAIN queue
Lo(x) == IF x \in DOMAIN items THEN items[x].top ELSE queue[x].stackCap - queue[x].numElements
Hi(x) == IF x \in DOMAIN items THEN Cap(items[x]) ELSE queue[x].stackCap
Limit == IF draining = Idle THEN height ELSE draining

IType ==
  /\ StackTypeOK
  /\ \A j \in DOMAIN queue : queue[j].numElements <= queue[j].stackCap

LEMMA InitType == StackInit => IType
BY StackAssumption DEF StackInit, IType, StackTypeOK, Idle

LEMMA SizedItem ==
  ASSUME NEW e \in Item, NEW p \in Nat, NEW g \in Nat \cup {-1}
  PROVE  Sized(e, p, g) \in Item
BY DEF Sized, Item

LEMMA WithItem ==
  ASSUME NEW i \in Ids \ DOMAIN queue, NEW e \in Item, IType,
         items' = With(items, i, e), queue' = queue, draining' = Idle, height' \in 0..MaxHeight
  PROVE  IType'
BY DEF With, IType, StackTypeOK

(* The operations, with nothing said of the liberties that some take.       *)
Injective(pos) == \A x, y \in DOMAIN pos : pos[x] = pos[y] => x = y
Onto(pos, n) == \A p \in 1..n : \E x \in DOMAIN pos : pos[x] = p

StackStep ==
  \/ \E i \in Ids, k \in Nat, m \in BOOLEAN : Make(i, k, m)
  \/ \E i \in DOMAIN items :
       \/ Chain(i) \/ Fails(i) \/ TakeRef(i) \/ Release(i)
       \/ \E j \in Ids : Rebase(i, j)
       \/ \E k \in Nat : Results(i, k)
       \/ \E j, pos : \E n \in Nat \ {0} :
            /\ pos \in [DOMAIN pos -> 1..n] /\ Injective(pos) /\ Onto(pos, n)
            /\ Tie(i, j, n, pos)
  \/ AskCallable \/ Drain \/ Settop
  \/ UNCHANGED <<height, items, queue, draining>>

LEMMA NextIsStep == [StackNext]_stackVars => StackStep
<1>1. ASSUME NEW i, NEW j \in Ids, NEW n \in 1..MaxHeight, NEW S \in SUBSET Ids, NEW pos \in [S -> 1..n],
             \A x, y \in S : pos[x] = pos[y] => x = y,
             \A p \in 1..n : \E x \in S : pos[x] = p
      PROVE  pos \in [DOMAIN pos -> 1..n] /\ Injective(pos) /\ Onto(pos, n) /\ n \in Nat \ {0}
  <2>1. DOMAIN pos = S
    OBVIOUS
  <2>2. n \in Nat \ {0}
    BY StackAssumption
  <2> QED BY <1>1, <2>1, <2>2 DEF Injective, Onto
<1>2. 0..MaxHeight \subseteq Nat
  BY StackAssumption
<1> QED BY <1>1, <1>2, Zenon DEF StackNext, StackStep, stackVars

(* Every operation keeps the frame well-formed, with or without liberties.  *)
LEMMA StepType == IType /\ StackStep => IType'
<1> SUFFICES ASSUME IType, StackStep PROVE IType'
  OBVIOUS
<1> USE DEF Idle
<1>i. ASSUME NEW i \in DOMAIN items
      PROVE  /\ i \in Ids \ DOMAIN queue
             /\ items[i] \in Item /\ items[i].top \in Nat /\ items[i].pushed \in Nat
             /\ items[i].grouped \in Nat \cup {-1}
  BY <1>i DEF IType, StackTypeOK, Item
<1>h. height \in 0..MaxHeight /\ MaxHeight \in Nat
  BY StackAssumption DEF IType, StackTypeOK
<1>1. ASSUME NEW i \in Ids, NEW k \in Nat, NEW m \in BOOLEAN, Make(i, k, m) PROVE IType'
  <2> DEFINE e == [top |-> height, pushed |-> k, managed |-> m,
                   grouped |-> IF k = 0 THEN 0 ELSE k - 1]
  <2>1. e \in Item
    BY <1>h DEF Item
  <2>2. /\ i \in Ids \ DOMAIN queue
        /\ items' = With(items, i, e) /\ queue' = queue /\ draining' = Idle
        /\ height' \in 0..MaxHeight
    BY <1>1, <1>h DEF Make, Fresh
  <2> HIDE DEF e
  <2> QED BY <2>1, <2>2, WithItem
<1>2. ASSUME NEW i \in DOMAIN items, Chain(i) PROVE IType'
  <2>1. Sized(items[i], items[i].pushed + 1, 0) \in Item
    BY <1>i, SizedItem
  <2>2. /\ items' = With(items, i, Sized(items[i], items[i].pushed + 1, 0))
        /\ queue' = queue /\ draining' = Idle /\ height < MaxHeight /\ height' = height + 1
    BY <1>2, Zenon DEF Chain
  <2>3. height' \in 0..MaxHeight
    BY <1>h, <2>2
  <2> QED BY <1>i, <2>1, <2>2, <2>3, WithItem
<1>3. ASSUME NEW i \in DOMAIN items, Fails(i) PROVE IType'
  BY <1>3, <1>h, <1>i DEF Fails, Without, Cap, IType, StackTypeOK
<1>4. ASSUME NEW i \in DOMAIN items, TakeRef(i) PROVE IType'
  <2> DEFINE lower == [top |-> items[i].top - 1, pushed |-> 0, grouped |-> items[i].grouped,
                       managed |-> items[i].managed]
  <2>1. /\ items' = With(items, i, IF items[i].pushed > 0
                                   THEN Sized(items[i], items[i].pushed - 1, items[i].grouped)
                                   ELSE lower)
        /\ queue' = queue /\ draining' = Idle
        /\ height > 0 /\ height' = height - 1 /\ Cap(items[i]) > 0
    BY <1>4, Zenon DEF TakeRef
  <2>h. height' \in 0..MaxHeight
    BY <1>h, <2>1
  <2>2. CASE items[i].pushed > 0
    <3>1. items[i].pushed - 1 \in Nat
      BY <1>i, <2>2
    <3>2. Sized(items[i], items[i].pushed - 1, items[i].grouped) \in Item
      BY <1>i, <3>1, SizedItem
    <3> HIDE DEF lower
    <3>3. items' = With(items, i, Sized(items[i], items[i].pushed - 1, items[i].grouped))
      BY <2>1, <2>2
    <3> QED BY <1>i, <2>1, <2>h, <3>2, <3>3, WithItem
  <2>3. CASE items[i].pushed = 0
    <3>1. items[i].top - 1 \in Nat
      BY <1>i, <2>1, <2>3 DEF Cap
    <3>2. lower \in Item
      BY <1>i, <3>1 DEF Item
    <3> HIDE DEF lower
    <3>3. items' = With(items, i, lower)
      BY <2>1, <2>3
    <3> QED BY <1>i, <2>1, <2>h, <3>2, <3>3, WithItem
  <2> QED BY <1>i, <2>2, <2>3
<1>5. ASSUME NEW i \in DOMAIN items, Release(i) PROVE IType'
  BY <1>5, <1>i, <1>h DEF Release, Without, With, Left, Cap, IType, StackTypeOK, DeallocStackItem
<1>6. ASSUME NEW i \in DOMAIN items, NEW j \in Ids, Rebase(i, j) PROVE IType'
  <2> DEFINE e == [top |-> height, pushed |-> 1, grouped |-> 0, managed |-> TRUE]
  <2>1. e \in Item
    BY <1>h DEF Item
  <2>2. Left(items[i]) \in DeallocStackItem /\ Left(items[i]).numElements <= Left(items[i]).stackCap
    BY <1>i DEF Left, Cap, DeallocStackItem
  <2>3. /\ Fresh(j) /\ draining' = Idle /\ height' \in 0..MaxHeight
        /\ items' = With(items, i, e) /\ queue' = With(queue, j, Left(items[i]))
    BY <1>6, <1>h DEF Rebase
  <2> HIDE DEF e
  <2> QED BY <1>i, <2>1, <2>2, <2>3 DEF Fresh, With, IType, StackTypeOK
<1>7. ASSUME NEW i \in DOMAIN items, NEW k \in Nat, Results(i, k) PROVE IType'
  <2>1. Sized(items[i], items[i].pushed + k - 1, k - 1) \in Item
    <3>1. items[i].pushed + k - 1 \in Nat /\ k - 1 \in Nat \cup {-1}
      BY <1>7, <1>i, <1>h DEF Results
    <3> QED BY <1>i, <3>1, SizedItem
  <2>2. height' \in 0..MaxHeight
    BY <1>7, <1>i, <1>h DEF Results, Cap
  <2>3. /\ items' = With(items, i, Sized(items[i], items[i].pushed + k - 1, k - 1))
        /\ queue' = queue /\ draining' = Idle
    BY <1>7 DEF Results
  <2> QED BY <1>i, <2>1, <2>2, <2>3, WithItem
<1>8. ASSUME NEW i \in DOMAIN items, NEW j, NEW n \in Nat \ {0},
             NEW pos, pos \in [DOMAIN pos -> 1..n], Tie(i, j, n, pos)
      PROVE  IType'
  <2> DEFINE e        == items[i]
             required == IF n < e.pushed THEN n ELSE e.pushed
             trimmed  == required < e.grouped + 1
             buried   == trimmed /\ Cap(e) # height
             S        == DOMAIN pos
             Variable(x) == [top |-> e.top + pos[x] - 1, pushed |-> 1, grouped |-> 0,
                             managed |-> e.managed]
  <2>1. /\ height' = IF trimmed /\ ~buried THEN e.top + required ELSE height
        /\ queue' = IF buried THEN With(queue, j, Left(e)) ELSE queue
        /\ buried => Fresh(j) /\ j \notin S
        /\ draining' = Idle /\ \A x \in S : Fresh(x)
        /\ items' = [x \in DOMAIN items \cup S |->
                        CASE x = i -> Sized(e, 0, e.grouped)
                          [] x \in S -> Variable(x)
                          [] OTHER -> items[x]]
    BY <1>8, Zenon DEF Tie
  <2>2. height' \in 0..MaxHeight
    BY <1>i, <1>h, <2>1 DEF Cap
  <2>3. Sized(e, 0, e.grouped) \in Item
    BY <1>i, SizedItem
  <2>4. ASSUME NEW x \in S
        PROVE  Variable(x) \in Item
    <3>1. e.top + pos[x] - 1 \in Nat
      BY <1>i, <1>8
    <3> QED BY <1>i, <3>1 DEF Item
  <2>5. \A x \in DOMAIN items : items[x] \in Item
    BY <1>i
  <2>6. Left(e) \in DeallocStackItem /\ Left(e).numElements <= Left(e).stackCap
    BY <1>i DEF Left, Cap, DeallocStackItem
  <2>7. DOMAIN items' = DOMAIN items \cup S /\ DOMAIN items' \subseteq Ids
    BY <1>i, <2>1 DEF Fresh
  <2> HIDE DEF Variable, e, buried, trimmed, S
  <2>8. \A x \in DOMAIN items' : items'[x] \in Item
    BY <2>1, <2>3, <2>4, <2>5
  <2>9. \/ queue' = queue
        \/ Fresh(j) /\ j \notin S /\ queue' = With(queue, j, Left(e))
    BY <2>1
  <2>10. /\ DOMAIN queue' \subseteq Ids /\ DOMAIN items' \cap DOMAIN queue' = {}
         /\ \A k \in DOMAIN queue' :
              queue'[k] \in DeallocStackItem /\ queue'[k].numElements <= queue'[k].stackCap
    <3>1. CASE queue' = queue
      BY <2>1, <2>7, <3>1 DEF IType, StackTypeOK, Fresh
    <3>2. CASE Fresh(j) /\ j \notin S /\ queue' = With(queue, j, Left(e))
      BY <2>1, <2>6, <2>7, <3>2 DEF IType, StackTypeOK, Fresh, With
    <3> QED BY <2>9, <3>1, <3>2
  <2> QED BY <2>1, <2>2, <2>7, <2>8, <2>10 DEF IType, StackTypeOK
<1>9. CASE AskCallable
  BY <1>9, <1>h DEF AskCallable, IType, StackTypeOK
<1>10. CASE Drain
  BY <1>10, <1>h DEF Drain, QueueTop, Without, IType, StackTypeOK, DeallocStackItem
<1>11. CASE Settop
  BY <1>11, <1>h DEF Settop, IType, StackTypeOK
<1>12. CASE UNCHANGED <<height, items, queue, draining>>
  BY <1>12 DEF IType, StackTypeOK
<1> QED BY <1>1, <1>2, <1>3, <1>4, <1>5, <1>6, <1>7, <1>8, <1>9, <1>10, <1>11, <1>12
        DEF StackStep

(* One frame is always well-formed: the type invariant of StackItems.       *)
THEOREM StackType == StackSpec => []StackTypeOK
<1>1. IType => StackTypeOK
  BY DEF IType
<1> QED BY <1>1, InitType, NextIsStep, StepType, PTL DEF StackSpec

-----------------------------------------------------------------------------
(* No two elements share a slot, and none reaches beyond the frame.         *)
Clear(a, b, c, d) == a >= b \/ c >= d \/ b <= c \/ d <= a
Apart == \A x, y \in All : x # y => Clear(Lo(x), Hi(x), Lo(y), Hi(y))
Within == \A x \in All : Lo(x) < Hi(x) => Hi(x) <= Limit
Safe == taken \cap Unsafe = {}
KeptInv == Safe => Apart /\ Within

Bounded ==
  /\ \A x \in All : Lo(x) \in Nat /\ Hi(x) \in Nat /\ Lo(x) <= Hi(x)
  /\ Limit \in Nat

LEMMA Bounds == IType => Bounded
<1> SUFFICES ASSUME IType PROVE Bounded
  OBVIOUS
<1>1. ASSUME NEW x \in DOMAIN items PROVE Lo(x) \in Nat /\ Hi(x) \in Nat /\ Lo(x) <= Hi(x)
  BY <1>1 DEF IType, StackTypeOK, Item, Lo, Hi, Cap
<1>2. ASSUME NEW x \in DOMAIN queue PROVE Lo(x) \in Nat /\ Hi(x) \in Nat /\ Lo(x) <= Hi(x)
  BY <1>2 DEF IType, StackTypeOK, DeallocStackItem, Lo, Hi
<1>3. Limit \in Nat
  BY StackAssumption DEF IType, StackTypeOK, Limit, Idle
<1> QED BY <1>1, <1>2, <1>3 DEF All, Bounded

Same(x) == Lo(x)' = Lo(x) /\ Hi(x)' = Hi(x)

(* The element that ends at the limit is changed, shortened, or goes.       *)
TopChanges(i) ==
  /\ i \in All /\ Hi(i) = Limit
  /\ Lo(i) <= Limit'
  /\ All \ {i} \subseteq All' /\ All' \subseteq All
  /\ \A x \in All' \ {i} : Same(x)
  /\ i \in All' => Lo(i)' = Lo(i) /\ Hi(i)' = Limit'

LEMMA TopChangesKeeps ==
  ASSUME IType, IType', NEW i, TopChanges(i), Apart, Within
  PROVE  Apart' /\ Within'
<1>1. \A x \in All \ {i} : Lo(x) < Hi(x) => Hi(x) <= Lo(i)
  BY Bounds DEF Bounded, TopChanges, Apart, Within, Clear
<1>b. Bounded /\ Bounded'
  BY Bounds, PTL
<1>2. /\ \A x \in All : Lo(x) \in Nat /\ Hi(x) \in Nat /\ Lo(x) <= Hi(x)
      /\ Limit \in Nat /\ Limit' \in Nat
  BY <1>b DEF Bounded
<1>3. Within'
  BY <1>1, <1>2 DEF TopChanges, Within, Same
<1>4. ASSUME NEW x \in All', NEW y \in All', x # y
      PROVE  Clear(Lo(x)', Hi(x)', Lo(y)', Hi(y)')
  BY <1>1, <1>2, <1>4 DEF TopChanges, Apart, Clear, Same
<1>5. Apart'
  BY <1>4 DEF Apart, Clear
<1> QED BY <1>3, <1>5

(* An element is added above all others; another may have moved.            *)
TopAdded(i) ==
  /\ Lo(i)' = Limit /\ Limit <= Limit' /\ Hi(i)' <= Limit'
  /\ \E m \in [All' \ {i} -> All] :
       /\ \A x, y \in All' \ {i} : m[x] = m[y] => x = y
       /\ \A x \in All' \ {i} : Lo(x)' = Lo(m[x]) /\ Hi(x)' = Hi(m[x])

LEMMA TopAddedKeeps ==
  ASSUME IType, IType', NEW i, TopAdded(i), Apart, Within
  PROVE  Apart' /\ Within'
<1>b. Bounded /\ Bounded'
  BY Bounds, PTL
<1>1. /\ \A x \in All : Lo(x) \in Nat /\ Hi(x) \in Nat /\ Lo(x) <= Hi(x)
      /\ \A x \in All' : Lo(x)' \in Nat /\ Hi(x)' \in Nat /\ Lo(x)' <= Hi(x)'
      /\ Limit \in Nat /\ Limit' \in Nat
  BY <1>b DEF Bounded
<1>2. PICK m \in [All' \ {i} -> All] :
        /\ \A x, y \in All' \ {i} : m[x] = m[y] => x = y
        /\ \A x \in All' \ {i} : Lo(x)' = Lo(m[x]) /\ Hi(x)' = Hi(m[x])
  BY DEF TopAdded
<1>3. Within'
  BY <1>1, <1>2 DEF TopAdded, Within
<1>4. ASSUME NEW x \in All', NEW y \in All', x # y
      PROVE  Clear(Lo(x)', Hi(x)', Lo(y)', Hi(y)')
  BY <1>1, <1>2, <1>4 DEF TopAdded, Apart, Within, Clear
<1>5. Apart'
  BY <1>4 DEF Apart, Clear
<1> QED BY <1>3, <1>5

(* Elements go, and the limit stays.                                        *)
LEMMA FewerKeep ==
  ASSUME All' \subseteq All, \A x \in All' : Same(x), Limit' = Limit, Apart, Within
  PROVE  Apart' /\ Within'
BY DEF Same, Apart, Within, Clear

(* How each operation moves the elements, provided that it took no unsafe   *)
(* liberty.                                                                 *)
LEMMA ItemFacts ==
  ASSUME IType, NEW i \in DOMAIN items
  PROVE  /\ i \in Ids /\ i \notin DOMAIN queue /\ i \in All
         /\ items[i].top \in Nat /\ items[i].pushed \in Nat /\ Cap(items[i]) \in Nat
         /\ items[i].grouped \in Nat \cup {-1}
         /\ Lo(i) = items[i].top /\ Hi(i) = Cap(items[i])
         /\ Cap(items[i]) = items[i].top + items[i].pushed
         /\ height \in Nat
BY StackAssumption DEF IType, StackTypeOK, Item, All, Lo, Hi, Cap

LEMMA ResizeMoves ==
  ASSUME IType, NEW i \in DOMAIN items, NEW p \in Nat, NEW g,
         Cap(items[i]) = height, draining = Idle, draining' = Idle, queue' = queue,
         items' = With(items, i, Sized(items[i], p, g)), height' = items[i].top + p
  PROVE  TopChanges(i) /\ i \in DOMAIN items' /\ Cap(items'[i]) = height'
<1>1. /\ DOMAIN items' = DOMAIN items
      /\ \A x \in DOMAIN items \ {i} : items'[x] = items[x]
      /\ items'[i].top = items[i].top /\ items'[i].pushed = p
  BY DEF With, Sized
<1>2. All' = All /\ \A x \in All \ {i} : Same(x)
  BY <1>1 DEF All, Same, Lo, Hi
<1>3. Lo(i)' = Lo(i) /\ Hi(i)' = height' /\ Hi(i) = height
  BY <1>1 DEF Lo, Hi, Cap
<1>4. Limit = height /\ Limit' = height'
  BY DEF Limit
<1> QED BY <1>1, <1>2, <1>3, <1>4, ItemFacts DEF TopChanges, Lo, Hi, Cap

LEMMA ChainMoves ==
  ASSUME IType, NEW i \in DOMAIN items, Chain(i), Safe'
  PROVE  TopChanges(i) /\ i \in DOMAIN items' /\ Cap(items'[i]) = height'
<1>1. Cap(items[i]) = height
  <2>1. Takes(Cap(items[i]) # height, "buried chain") \subseteq taken'
    BY Zenon DEF Chain
  <2> QED BY <2>1, Zenon DEF Takes, Safe, Unsafe
<1>2. /\ draining = Idle /\ draining' = Idle /\ queue' = queue
      /\ items' = With(items, i, Sized(items[i], items[i].pushed + 1, 0))
      /\ height' = height + 1
  BY Zenon DEF Chain
<1>3. items[i].pushed + 1 \in Nat /\ height' = items[i].top + (items[i].pushed + 1)
  BY <1>1, <1>2, ItemFacts
<1> QED BY <1>1, <1>2, <1>3, ResizeMoves

LEMMA ResultsMoves ==
  ASSUME IType, NEW i \in DOMAIN items, NEW k \in Nat, Results(i, k)
  PROVE  TopChanges(i) /\ i \in DOMAIN items' /\ Cap(items'[i]) = height'
<1>1. /\ draining = Idle /\ draining' = Idle /\ queue' = queue
      /\ items' = With(items, i, Sized(items[i], items[i].pushed + k - 1, k - 1))
      /\ height' = height - 1 + k /\ Cap(items[i]) = height /\ items[i].pushed > 0
  BY Zenon DEF Results
<1>2. /\ items[i].pushed + k - 1 \in Nat
      /\ height' = items[i].top + (items[i].pushed + k - 1)
  BY <1>1, ItemFacts
<1> QED BY <1>1, <1>2, ResizeMoves

LEMMA TakeRefMoves ==
  ASSUME IType, NEW i \in DOMAIN items, TakeRef(i), Safe'
  PROVE  TopChanges(i) /\ i \in DOMAIN items' /\ Cap(items'[i]) = height'
<1>1. items[i].pushed > 0 /\ Cap(items[i]) = height
  <2>1. Takes(items[i].pushed = 0 \/ Cap(items[i]) # height \/ Index(items[i]) # height,
              "buried ref") \subseteq taken'
    BY Zenon DEF TakeRef
  <2>2. ~(items[i].pushed = 0) /\ Cap(items[i]) = height
    BY <2>1, Zenon DEF Takes, Safe, Unsafe
  <2> QED BY <2>2, ItemFacts
<1>2. /\ draining = Idle /\ draining' = Idle /\ queue' = queue
      /\ items' = With(items, i, Sized(items[i], items[i].pushed - 1, items[i].grouped))
      /\ height' = height - 1
  BY <1>1, Zenon DEF TakeRef
<1>3. items[i].pushed - 1 \in Nat /\ height' = items[i].top + (items[i].pushed - 1)
  BY <1>1, <1>2, ItemFacts
<1> QED BY <1>1, <1>2, <1>3, ResizeMoves

LEMMA GoesMoves ==
  ASSUME IType, NEW i \in DOMAIN items, items' = Without(items, i), queue' = queue,
         Hi(i) = Limit, Lo(i) <= Limit'
  PROVE  TopChanges(i)
<1>1. DOMAIN items' = DOMAIN items \ {i} /\ \A x \in DOMAIN items' : items'[x] = items[x]
  BY DEF Without
<1>2. All' = All \ {i} /\ \A x \in All' : Same(x)
  BY <1>1, ItemFacts DEF All, Same, Lo, Hi
<1> QED BY <1>2, ItemFacts DEF TopChanges

LEMMA DrainMoves ==
  ASSUME IType, Drain
  PROVE  \E j \in DOMAIN queue :
           /\ TopChanges(j) /\ Limit' = Lo(j) /\ j \notin All'
           /\ Takes(Lo(j) < Hi(j) /\ HollowAt(Hi(j)), "zero") \subseteq taken'
<1>1. PICK j \in QueueTop :
        /\ queue[j].stackCap = draining /\ draining' = draining - queue[j].numElements
        /\ queue' = Without(queue, j)
        /\ Takes(queue[j].numElements # 0 /\ HollowAt(draining), "zero") \subseteq taken'
  BY Zenon DEF Drain
<1>2. draining # Idle /\ items' = items /\ height' = height
  BY DEF Drain
<1>3. /\ DOMAIN queue' = DOMAIN queue \ {j} /\ \A x \in DOMAIN queue' : queue'[x] = queue[x]
      /\ j \in DOMAIN queue /\ j \notin DOMAIN items
  BY <1>1 DEF Without, QueueTop, IType, StackTypeOK
<1>4. All' = All \ {j} /\ \A x \in All' : Same(x)
  BY <1>2, <1>3 DEF All, Same, Lo, Hi
<1>5. draining' # Idle /\ Limit' = draining' /\ Limit = draining
  BY <1>1, <1>2, <1>3, StackAssumption DEF IType, StackTypeOK, DeallocStackItem, Limit, Idle
<1>6. Lo(j) = draining' /\ Hi(j) = draining
  BY <1>1, <1>3 DEF Lo, Hi
<1>7. Takes(Lo(j) < Hi(j) /\ HollowAt(Hi(j)), "zero") \subseteq taken'
  <2>1. draining \in Nat /\ queue[j].numElements \in Nat
    BY <1>2, <1>3, StackAssumption DEF IType, StackTypeOK, DeallocStackItem
  <2>2. Lo(j) < Hi(j) => queue[j].numElements # 0
    BY <1>1, <1>6, <2>1
  <2> QED BY <1>1, <1>6, <2>2, Zenon DEF Takes
<1> QED BY <1>3, <1>4, <1>5, <1>6, <1>7, Bounds DEF TopChanges, All, Bounded

LEMMA MakeMoves ==
  ASSUME IType, NEW i \in Ids, NEW k \in Nat, NEW m, Make(i, k, m)
  PROVE  /\ i \notin All /\ All' = All \cup {i} /\ \A x \in All : Same(x)
         /\ i \in DOMAIN items'
         /\ Lo(i)' = height /\ Hi(i)' = height + k /\ Cap(items'[i]) = height'
         /\ Limit = height /\ Limit' = height + k /\ height' = height + k
<1> DEFINE e == [top |-> height, pushed |-> k, managed |-> m,
                 grouped |-> IF k = 0 THEN 0 ELSE k - 1]
<1>1. /\ draining = Idle /\ draining' = Idle /\ queue' = queue /\ height' = height + k
      /\ items' = With(items, i, e) /\ i \notin DOMAIN items /\ i \notin DOMAIN queue
  BY Zenon DEF Make, Fresh
<1>2. e.top = height /\ e.pushed = k
  OBVIOUS
<1> HIDE DEF e
<1>3. /\ DOMAIN items' = DOMAIN items \cup {i} /\ items'[i] = e
      /\ \A x \in DOMAIN items : items'[x] = items[x]
  BY <1>1 DEF With
<1> QED BY <1>1, <1>2, <1>3 DEF All, Same, Lo, Hi, Limit, Cap

LEMMA MakeAdds ==
  ASSUME IType, NEW i \in Ids, NEW k \in Nat, NEW m, Make(i, k, m)
  PROVE  TopAdded(i)
<1> DEFINE f == [x \in All |-> x]
<1>1. All' \ {i} = All
  BY MakeMoves
<1>2. f \in [All' \ {i} -> All]
  BY <1>1
<1>3. \A x, y \in All' \ {i} : f[x] = f[y] => x = y
  BY <1>1
<1>4. \A x \in All' \ {i} : Lo(x)' = Lo(f[x]) /\ Hi(x)' = Hi(f[x])
  BY <1>1, MakeMoves DEF Same
<1>5. height \in Nat
  BY StackAssumption DEF IType, StackTypeOK
<1>6. Lo(i)' = Limit /\ Limit <= Limit' /\ Hi(i)' <= Limit'
  BY <1>5, MakeMoves
<1> HIDE DEF f
<1> QED BY <1>2, <1>3, <1>4, <1>6 DEF TopAdded

LEMMA RebaseMoves ==
  ASSUME IType, NEW i \in DOMAIN items, NEW j \in Ids, Rebase(i, j)
  PROVE  /\ j \notin All /\ All' = All \cup {j} /\ \A x \in All \ {i} : Same(x)
         /\ i \in DOMAIN items'
         /\ Lo(j)' = Lo(i) /\ Hi(j)' = Hi(i) /\ Lo(i) < Hi(i)
         /\ Lo(i)' = height /\ Hi(i)' = height + 1 /\ Cap(items'[i]) = height'
         /\ Limit = height /\ Limit' = height + 1 /\ height' = height + 1
<1> DEFINE e == [top |-> height, pushed |-> 1, grouped |-> 0, managed |-> TRUE]
<1>1. /\ draining = Idle /\ draining' = Idle /\ height' = height + 1 /\ items[i].pushed > 0
      /\ items' = With(items, i, e) /\ queue' = With(queue, j, Left(items[i]))
      /\ j \notin DOMAIN items /\ j \notin DOMAIN queue
  BY Zenon DEF Rebase, Fresh
<1>2. e.top = height /\ e.pushed = 1
  OBVIOUS
<1> HIDE DEF e
<1>3. /\ DOMAIN items' = DOMAIN items /\ items'[i] = e
      /\ \A x \in DOMAIN items \ {i} : items'[x] = items[x]
      /\ DOMAIN queue' = DOMAIN queue \cup {j} /\ queue'[j] = Left(items[i])
      /\ \A x \in DOMAIN queue : queue'[x] = queue[x]
  BY <1>1 DEF With
<1>4. Left(items[i]).stackCap = Cap(items[i]) /\ Left(items[i]).numElements = items[i].pushed
  BY DEF Left
<1>5. Lo(j)' = Lo(i) /\ Hi(j)' = Hi(i) /\ Lo(i) < Hi(i)
  BY <1>1, <1>3, <1>4, ItemFacts DEF Lo, Hi
<1> QED BY <1>1, <1>2, <1>3, <1>5, ItemFacts DEF All, Same, Lo, Hi, Limit, Cap

LEMMA RebaseAdds ==
  ASSUME IType, NEW i \in DOMAIN items, NEW j \in Ids, Rebase(i, j)
  PROVE  TopAdded(i)
<1> DEFINE f == [x \in All' \ {i} |-> IF x = j THEN i ELSE x]
<1>1. f \in [All' \ {i} -> All]
  BY RebaseMoves, ItemFacts
<1>2. \A x, y \in All' \ {i} : f[x] = f[y] => x = y
  BY RebaseMoves, ItemFacts
<1>3. \A x \in All' \ {i} : Lo(x)' = Lo(f[x]) /\ Hi(x)' = Hi(f[x])
  BY RebaseMoves, ItemFacts DEF Same
<1>4. Lo(i)' = Limit /\ Limit <= Limit' /\ Hi(i)' <= Limit'
  BY RebaseMoves, ItemFacts
<1> HIDE DEF f
<1> QED BY <1>1, <1>2, <1>3, <1>4 DEF TopAdded

(* A destructor: the item goes, or goes from the top, or all stays.         *)
LEMMA ReleaseMoves ==
  ASSUME IType, NEW i \in DOMAIN items, Release(i)
  PROVE  \/ /\ ~items[i].managed \/ height < Cap(items[i])
            /\ All' = All \ {i} /\ (\A x \in All' : Same(x)) /\ Limit' = Limit
            /\ draining' = Idle /\ height' = height /\ queue' = queue
         \/ /\ TopChanges(i) /\ Limit' = Lo(i) /\ i \notin All'
            /\ draining' # Idle /\ queue' = queue
         \/ /\ items[i].managed /\ height > Cap(items[i])
            /\ items[i].pushed = 0 /\ InsideOther(items[i].top) => taken' # {}
            /\ All' = All /\ (\A x \in All' : Same(x)) /\ Limit' = Limit
            /\ draining' = Idle /\ height' = height
            /\ DOMAIN queue' = DOMAIN queue \cup {i}
<1>1. /\ draining = Idle /\ items' = Without(items, i) /\ height' = height
  BY Zenon DEF Release
<1>2. DOMAIN items' = DOMAIN items \ {i} /\ \A x \in DOMAIN items' : items'[x] = items[x]
  BY <1>1 DEF Without
<1>3. CASE /\ ~items[i].managed \/ height < Cap(items[i])
           /\ UNCHANGED <<queue, draining, taken>>
  <2>1. All' = All \ {i} /\ \A x \in All' : Same(x)
    BY <1>2, <1>3, ItemFacts DEF All, Same, Lo, Hi
  <2> QED BY <1>1, <1>3, <2>1, Zenon DEF Limit
<1>4. CASE /\ height = Cap(items[i])
           /\ draining' = items[i].top /\ UNCHANGED <<queue, taken>>
  <2>1. draining' # Idle /\ Limit' = Lo(i) /\ Limit = Hi(i) /\ queue' = queue /\ Lo(i) <= Limit'
    BY <1>1, <1>4, ItemFacts DEF Limit, Idle
  <2>2. TopChanges(i)
    BY <1>1, <2>1, GoesMoves
  <2>3. i \notin All'
    BY <1>2, <2>1, ItemFacts DEF All
  <2> QED BY <2>1, <2>2, <2>3, Zenon
<1>5. CASE /\ items[i].managed /\ height > Cap(items[i])
           /\ queue' = With(queue, i, Left(items[i]))
           /\ taken' = taken \cup Takes(items[i].pushed = 0 /\ InsideOther(items[i].top), "zero")
           /\ UNCHANGED draining
  <2>1. /\ DOMAIN queue' = DOMAIN queue \cup {i} /\ queue'[i] = Left(items[i])
        /\ \A x \in DOMAIN queue : queue'[x] = queue[x]
    BY <1>5, ItemFacts DEF With
  <2>2. All' = All
    BY <1>2, <2>1 DEF All
  <2>3. ASSUME NEW x \in All PROVE Same(x)
    <3>1. Left(items[i]).stackCap = Cap(items[i]) /\ Left(items[i]).numElements = items[i].pushed
      BY DEF Left
    <3>2. Same(i)
      BY <1>2, <2>1, <3>1, ItemFacts DEF Same, Lo, Hi
    <3>3. CASE x # i
      BY <1>2, <2>1, <3>3 DEF All, Same, Lo, Hi
    <3> QED BY <3>2, <3>3
  <2>4. items[i].pushed = 0 /\ InsideOther(items[i].top) => taken' # {}
    BY <1>5, Zenon DEF Takes
  <2> QED BY <1>1, <1>5, <2>1, <2>2, <2>3, <2>4, Zenon DEF Limit
<1> QED BY <1>3, <1>4, <1>5, Zenon DEF Release

(* A tie that is safe shares the slots out among the variables.             *)
TieMoves(i, n, pos) ==
  /\ n <= items[i].pushed
  /\ All' = All \cup DOMAIN pos /\ \A x \in DOMAIN pos : x \notin All
  /\ \A x \in DOMAIN pos :
       /\ x \in DOMAIN items' /\ Cap(items'[x]) = items[i].top + pos[x]
       /\ Lo(x)' = items[i].top + pos[x] - 1 /\ Hi(x)' = items[i].top + pos[x]
  /\ \A x \in All \ {i} : Same(x)
  /\ i \in DOMAIN items' /\ Lo(i)' = items[i].top /\ Hi(i)' = items[i].top
  /\ draining = Idle /\ draining' = Idle /\ queue' = queue
  /\ Limit = height /\ Limit' = height'
  /\ \/ n >= items[i].grouped + 1 /\ height' = height
     \/ n < items[i].grouped + 1 /\ Cap(items[i]) = height /\ height' = items[i].top + n

LEMMA TieIsSafe ==
  ASSUME IType, NEW i \in DOMAIN items, NEW j, NEW n \in Nat \ {0},
         NEW pos, pos \in [DOMAIN pos -> 1..n], Tie(i, j, n, pos), Safe'
  PROVE  TieMoves(i, n, pos)
<1> DEFINE e        == items[i]
           required == IF n < e.pushed THEN n ELSE e.pushed
           trimmed  == required < e.grouped + 1
           buried   == trimmed /\ Cap(e) # height
           S        == DOMAIN pos
           Variable(x) == [top |-> e.top + pos[x] - 1, pushed |-> 1, grouped |-> 0,
                           managed |-> e.managed]
<1>1. /\ height' = IF trimmed /\ ~buried THEN e.top + required ELSE height
      /\ queue' = IF buried THEN With(queue, j, Left(e)) ELSE queue
      /\ draining = Idle /\ draining' = Idle /\ \A x \in S : Fresh(x)
      /\ items' = [x \in DOMAIN items \cup S |->
                      CASE x = i -> Sized(e, 0, e.grouped)
                        [] x \in S -> Variable(x)
                        [] OTHER -> items[x]]
      /\ Takes(buried, "buried tie") \subseteq taken'
      /\ Takes(n > e.pushed, "wide tie") \subseteq taken'
  BY Zenon DEF Tie
<1>2. ~buried /\ ~(n > e.pushed)
  BY <1>1, Zenon DEF Takes, Safe, Unsafe
<1>3. n <= e.pushed /\ required = n
  BY <1>2, ItemFacts
<1>4. /\ Sized(e, 0, e.grouped).top = e.top /\ Sized(e, 0, e.grouped).pushed = 0
      /\ \A x \in S : Variable(x).top = e.top + pos[x] - 1 /\ Variable(x).pushed = 1
  BY DEF Sized
<1>5. queue' = queue /\ (\/ ~trimmed /\ height' = height
                         \/ trimmed /\ Cap(e) = height /\ height' = e.top + required)
  BY <1>1, <1>2
<1>6. \/ n >= items[i].grouped + 1 /\ height' = height
      \/ n < items[i].grouped + 1 /\ Cap(items[i]) = height /\ height' = items[i].top + n
  BY <1>3, <1>5, ItemFacts
<1> HIDE DEF Variable, required, trimmed, buried
<1>7. /\ DOMAIN items' = DOMAIN items \cup S
      /\ items'[i] = Sized(e, 0, e.grouped)
      /\ \A x \in S : items'[x] = Variable(x) /\ x \notin DOMAIN items /\ x \notin DOMAIN queue
      /\ \A x \in DOMAIN items \ {i} : items'[x] = items[x]
  BY <1>1 DEF Fresh
<1>8. All' = All \cup S /\ \A x \in S : x \notin All
  BY <1>5, <1>7 DEF All
<1>9. \A x \in All \ {i} : Same(x)
  BY <1>5, <1>7 DEF All, Same, Lo, Hi
<1>10. Lo(i)' = e.top /\ Hi(i)' = e.top
  BY <1>4, <1>7, ItemFacts DEF Lo, Hi, Cap
<1>11. ASSUME NEW x \in S
       PROVE  /\ x \in DOMAIN items' /\ Cap(items'[x]) = e.top + pos[x]
              /\ Lo(x)' = e.top + pos[x] - 1 /\ Hi(x)' = e.top + pos[x]
  <2>1. pos[x] \in Nat /\ e.top \in Nat
    BY ItemFacts
  <2> QED BY <1>4, <1>7, <2>1 DEF Lo, Hi, Cap
<1>12. Limit = height /\ Limit' = height'
  BY <1>1 DEF Limit
<1> QED BY <1>1, <1>3, <1>5, <1>6, <1>7, <1>8, <1>9, <1>10, <1>11, <1>12 DEF TieMoves

LEMMA TieKeeps ==
  ASSUME IType, IType', NEW i \in DOMAIN items, NEW n \in Nat \ {0},
         NEW pos, pos \in [DOMAIN pos -> 1..n], Injective(pos), TieMoves(i, n, pos), Apart, Within
  PROVE  Apart' /\ Within'
<1>1. /\ \A x \in All : Lo(x) \in Nat /\ Hi(x) \in Nat /\ Lo(x) <= Hi(x)
      /\ items[i].top \in Nat /\ items[i].pushed \in Nat /\ height \in Nat
      /\ Lo(i) = items[i].top /\ Hi(i) = items[i].top + items[i].pushed /\ i \in All
      /\ items[i].grouped \in Nat \cup {-1}
  BY Bounds, ItemFacts DEF Bounded
<1>2. \A x \in DOMAIN pos : pos[x] \in Nat /\ 1 <= pos[x] /\ pos[x] <= n
  OBVIOUS
<1>3. ASSUME NEW x \in All' PROVE Lo(x)' < Hi(x)' => Hi(x)' <= Limit'
  <2>1. CASE x \in DOMAIN pos
    BY <1>1, <1>2, <2>1 DEF TieMoves, Within, Cap
  <2>2. CASE x \in All \ {i}
    BY <1>1, <2>2 DEF TieMoves, Within, Apart, Clear, Same, Cap
  <2>3. CASE x = i
    BY <1>1, <2>3 DEF TieMoves
  <2> QED BY <2>1, <2>2, <2>3 DEF TieMoves
<1>4. ASSUME NEW x \in All', NEW y \in All', x # y
      PROVE  Clear(Lo(x)', Hi(x)', Lo(y)', Hi(y)')
  <2>1. CASE x = i \/ y = i
    BY <1>1, <2>1 DEF TieMoves, Clear
  <2>2. CASE x \in DOMAIN pos /\ y \in DOMAIN pos
    <3>1. pos[x] # pos[y]
      BY <1>4, <2>2 DEF Injective
    <3> QED BY <1>1, <1>2, <2>2, <3>1 DEF TieMoves, Clear
  <2>3. CASE x \in DOMAIN pos /\ y \in All \ {i}
    BY <1>1, <1>2, <2>3 DEF TieMoves, Clear, Apart, Same
  <2>4. CASE y \in DOMAIN pos /\ x \in All \ {i}
    BY <1>1, <1>2, <2>4 DEF TieMoves, Clear, Apart, Same
  <2>5. CASE x \in All \ {i} /\ y \in All \ {i}
    BY <1>4, <2>5 DEF TieMoves, Clear, Apart, Same
  <2> QED BY <2>1, <2>2, <2>3, <2>4, <2>5 DEF TieMoves
<1> QED BY <1>3, <1>4 DEF Within, Apart

-----------------------------------------------------------------------------
(* Whatever dies in whatever order.                                         *)
LEMMA StepKept ==
  IType /\ IType' /\ KeptInv /\ StackStep /\ taken \subseteq taken' => KeptInv'
<1> SUFFICES ASSUME IType, IType', KeptInv, StackStep, taken \subseteq taken', Safe'
             PROVE  Apart' /\ Within'
  BY DEF KeptInv
<1>0. Apart /\ Within
  BY DEF KeptInv, Safe
<1>1. ASSUME NEW i \in Ids, NEW k \in Nat, NEW m \in BOOLEAN, Make(i, k, m)
      PROVE  Apart' /\ Within'
  BY <1>0, <1>1, MakeAdds, TopAddedKeeps
<1>2. ASSUME NEW i \in DOMAIN items, Chain(i) PROVE Apart' /\ Within'
  BY <1>0, <1>2, ChainMoves, TopChangesKeeps
<1>3. ASSUME NEW i \in DOMAIN items, Fails(i) PROVE Apart' /\ Within'
  <2>1. /\ items' = Without(items, i) /\ queue' = queue /\ draining = Idle /\ draining' = Idle
        /\ Cap(items[i]) = height /\ height' = height - 1 /\ items[i].pushed > 0
    BY <1>3, Zenon DEF Fails
  <2>2. Hi(i) = Limit /\ Lo(i) <= Limit'
    BY <2>1, ItemFacts DEF Limit
  <2> QED BY <1>0, <2>1, <2>2, GoesMoves, TopChangesKeeps
<1>4. ASSUME NEW i \in DOMAIN items, TakeRef(i) PROVE Apart' /\ Within'
  BY <1>0, <1>4, TakeRefMoves, TopChangesKeeps
<1>5. ASSUME NEW i \in DOMAIN items, Release(i) PROVE Apart' /\ Within'
  <2>1. CASE All' \subseteq All /\ (\A x \in All' : Same(x)) /\ Limit' = Limit
    BY <1>0, <2>1, FewerKeep
  <2>2. CASE TopChanges(i)
    BY <1>0, <2>2, TopChangesKeeps
  <2> QED BY <1>5, <2>1, <2>2, ReleaseMoves
<1>6. ASSUME NEW i \in DOMAIN items, NEW j \in Ids, Rebase(i, j) PROVE Apart' /\ Within'
  BY <1>0, <1>6, RebaseAdds, TopAddedKeeps
<1>7. ASSUME NEW i \in DOMAIN items, NEW k \in Nat, Results(i, k) PROVE Apart' /\ Within'
  BY <1>0, <1>7, ResultsMoves, TopChangesKeeps
<1>8. ASSUME NEW i \in DOMAIN items, NEW j, NEW n \in Nat \ {0}, NEW pos,
             pos \in [DOMAIN pos -> 1..n], Injective(pos), Tie(i, j, n, pos)
      PROVE  Apart' /\ Within'
  BY <1>0, <1>8, TieIsSafe, TieKeeps
<1>9. CASE AskCallable
  BY <1>9, Zenon DEF AskCallable, Safe, Unsafe
<1>10. CASE Drain
  BY <1>0, <1>10, DrainMoves, TopChangesKeeps
<1>11. CASE Settop
  <2>1. Limit' = Limit /\ All' = All /\ \A x \in All' : Same(x)
    BY <1>11 DEF Settop, Limit, All, Same, Lo, Hi, Cap
  <2> QED BY <1>0, <2>1, FewerKeep
<1>12. CASE UNCHANGED <<height, items, queue, draining>>
  <2>1. Limit' = Limit /\ All' = All /\ \A x \in All' : Same(x)
    BY <1>12 DEF Limit, All, Same, Lo, Hi, Cap
  <2> QED BY <1>0, <2>1, FewerKeep
<1> QED BY <1>1, <1>2, <1>3, <1>4, <1>5, <1>6, <1>7, <1>8, <1>9, <1>10, <1>11, <1>12
        DEF StackStep

LEMMA TakenGrows == [StackNext]_stackVars => taken \subseteq taken'
<1>1. \A i : Chain(i) \/ Fails(i) \/ TakeRef(i) \/ Release(i) => taken \subseteq taken'
  BY Zenon DEF Chain, Fails, TakeRef, Release
<1>2. \A i, k : Results(i, k) => taken \subseteq taken'
  BY Zenon DEF Results
<1>3. ASSUME NEW i, NEW j, NEW n, NEW pos, Tie(i, j, n, pos) PROVE taken \subseteq taken'
  <2>1. \E a, b, c : taken' = taken \cup a \cup b \cup c
    BY <1>3, Zenon DEF Tie
  <2> QED BY <2>1, Zenon
<1>4. AskCallable \/ Drain \/ Settop => taken \subseteq taken'
  BY Zenon DEF AskCallable, Drain, Settop
<1>5. UNCHANGED taken => taken \subseteq taken'
  OBVIOUS
<1> QED BY <1>1, <1>2, <1>3, <1>4, <1>5, Zenon DEF StackNext, stackVars

LEMMA InitKept == StackInit => KeptInv
BY DEF StackInit, KeptInv, Apart, Within, All

LEMMA KeptFollows == IType /\ KeptInv => Kept
<1> SUFFICES ASSUME IType, KeptInv, Safe
             PROVE  \A i \in DOMAIN items :
                      /\ Owns(items[i]) \subseteq 1..height
                      /\ \A j \in DOMAIN items \ {i} : Owns(items[i]) \cap Owns(items[j]) = {}
  BY DEF Kept, Safe
<1>1. \A i \in DOMAIN items : /\ i \in All /\ Owns(items[i]) = (Lo(i) + 1)..Hi(i)
                              /\ Lo(i) \in Nat /\ Hi(i) \in Nat
  BY ItemFacts DEF Owns
<1>2. Limit <= height /\ Limit \in Nat /\ height \in Nat
  BY StackAssumption DEF Limit, IType, StackTypeOK, Idle
<1>3. ASSUME NEW i \in DOMAIN items PROVE Owns(items[i]) \subseteq 1..height
  BY <1>1, <1>2 DEF KeptInv, Within
<1>4. ASSUME NEW i \in DOMAIN items, NEW j \in DOMAIN items \ {i}
      PROVE  Owns(items[i]) \cap Owns(items[j]) = {}
  <2>1. Clear(Lo(i), Hi(i), Lo(j), Hi(j))
    BY <1>1 DEF KeptInv, Apart
  <2> QED BY <1>1, <2>1 DEF Clear
<1> QED BY <1>3, <1>4

(* Until an unsafe liberty is taken, every live value keeps its slots and   *)
(* shares none.                                                             *)
THEOREM SlotsKept == StackSpec => []Kept
<1>1. StackInit => IType /\ KeptInv
  BY InitType, InitKept
<1>2. IType /\ KeptInv /\ [StackNext]_stackVars => (IType /\ KeptInv)'
  BY NextIsStep, StepType, StepKept, TakenGrows
<1>3. IType /\ KeptInv => Kept
  BY KeptFollows
<1> QED BY <1>1, <1>2, <1>3, PTL DEF StackSpec

-----------------------------------------------------------------------------
(* Every slot above the first ones belongs to some element, and the top one *)
(* to a live item, so that whoever dies last pops everything.               *)
Managed == \A i \in DOMAIN items : items[i].managed
(* What waits in the queue will be popped: what has slots when they are at  *)
(* the top, and what has none when the height comes back to its own, which  *)
(* no other element may span.                                               *)
Reached(h) == h <= Limit /\ (draining = Idle => h < Limit)
Beside(h) == \A x \in All : ~(Lo(x) < h /\ h < Hi(x))
Poppable == \A j \in DOMAIN queue : Lo(j) < Hi(j) \/ (Reached(Hi(j)) /\ Beside(Hi(j)))
Above == Base <= Limit /\ \A x \in All : Base <= Lo(x)
Covered == \A n \in (Base + 1)..Limit : \E x \in All : Lo(x) < n /\ n <= Hi(x)
Topped == draining = Idle => height = Base \/ \E i \in DOMAIN items : Cap(items[i]) = height
LeakInv == taken = {} => Managed /\ Poppable /\ Above /\ Covered /\ Topped

LEMMA InitLeak == StackInit => LeakInv
BY StackAssumption
   DEF StackInit, LeakInv, Managed, Poppable, Above, Covered, Topped, All, Limit

LEMMA WithManaged ==
  ASSUME NEW i, NEW e, e.managed, items' = With(items, i, e), Managed
  PROVE  Managed'
BY DEF With, Managed

LEMMA SizedManaged ==
  ASSUME NEW i \in DOMAIN items, NEW p, NEW g, Managed,
         items' = With(items, i, Sized(items[i], p, g))
  PROVE  Managed'
<1>1. Sized(items[i], p, g).managed = items[i].managed
  BY DEF Sized
<1>2. Sized(items[i], p, g).managed
  BY <1>1 DEF Managed
<1> QED BY <1>2, WithManaged

LEMMA WithoutManaged ==
  ASSUME NEW i, items' = Without(items, i), Managed
  PROVE  Managed'
BY DEF Without, Managed

LEMMA TopChangesCovers ==
  ASSUME IType, IType', NEW i, TopChanges(i), Above, Covered,
         Limit' = Lo(i) \/ i \in All'
  PROVE  Above' /\ Covered'
<1>1. Bounded /\ Bounded'
  BY Bounds, PTL
<1>2. Base \in Nat
  BY StackAssumption
<1>3. Above'
  BY <1>1, <1>2 DEF TopChanges, Above, Bounded, Same
<1>4. ASSUME NEW n \in (Base + 1)..Limit' PROVE \E x \in All' : Lo(x)' < n /\ n <= Hi(x)'
  <2>1. CASE n <= Lo(i)
    <3>1. n \in (Base + 1)..Limit
      BY <1>1, <1>2, <2>1 DEF TopChanges, Bounded
    <3>2. PICK x \in All : Lo(x) < n /\ n <= Hi(x)
      BY <3>1 DEF Covered
    <3>3. x # i
      BY <1>1, <2>1, <3>2 DEF TopChanges, Bounded
    <3> QED BY <3>2, <3>3 DEF TopChanges, Same
  <2>2. CASE ~(n <= Lo(i))
    BY <1>1, <1>2, <2>2 DEF TopChanges, Bounded
  <2> QED BY <2>1, <2>2
<1> QED BY <1>3, <1>4 DEF Covered

LEMMA TieCovers ==
  ASSUME IType, IType', NEW i \in DOMAIN items, NEW n \in Nat \ {0},
         NEW pos, pos \in [DOMAIN pos -> 1..n], Onto(pos, n), TieMoves(i, n, pos),
         items[i].pushed = items[i].grouped + 1, Above, Covered, Topped
  PROVE  Above' /\ Covered' /\ Topped'
<1>b. Bounded /\ Bounded'
  BY Bounds, PTL
<1>1. /\ Bounded /\ Bounded' /\ Base \in Nat
      /\ items[i].top \in Nat /\ items[i].pushed \in Nat /\ height \in Nat
      /\ Lo(i) = items[i].top /\ Hi(i) = items[i].top + items[i].pushed /\ i \in All
      /\ Hi(i) = Cap(items[i]) /\ items[i].grouped \in Nat \cup {-1}
  BY <1>b, StackAssumption, ItemFacts
<1>2. \A x \in DOMAIN pos : pos[x] \in Nat /\ 1 <= pos[x] /\ pos[x] <= n
  OBVIOUS
<1>3. ASSUME NEW x \in All' PROVE Base <= Lo(x)'
  BY <1>1, <1>2 DEF TieMoves, Above, Same
<1>4. Base <= Limit'
  BY <1>1 DEF TieMoves, Above
<1>5. ASSUME NEW s \in (Base + 1)..Limit' PROVE \E x \in All' : Lo(x)' < s /\ s <= Hi(x)'
  <2>1. s \in (Base + 1)..Limit
    BY <1>1 DEF TieMoves
  <2>2. PICK x \in All : Lo(x) < s /\ s <= Hi(x)
    BY <2>1 DEF Covered
  <2>3. CASE x # i
    BY <2>2, <2>3 DEF TieMoves, Same
  <2>4. CASE x = i
    <3>1. s - items[i].top \in 1..n
      BY <1>1, <2>1, <2>2, <2>4 DEF TieMoves
    <3>2. PICK y \in DOMAIN pos : pos[y] = s - items[i].top
      BY <3>1 DEF Onto
    <3> QED BY <1>1, <2>1, <3>2 DEF TieMoves
  <2> QED BY <2>3, <2>4
<1>6. height' = Base \/ \E x \in DOMAIN items' : Cap(items'[x]) = height'
  <2>1. PICK y \in DOMAIN pos : pos[y] = n
    BY DEF Onto
  <2>2. y \in DOMAIN items' /\ Cap(items'[y]) = items[i].top + n
    BY <2>1 DEF TieMoves
  <2>3. CASE height' = items[i].top + n
    BY <2>2, <2>3
  <2>4. CASE n >= items[i].grouped + 1 /\ height' = height
    <3>1. n = items[i].pushed
      BY <1>1, <2>4 DEF TieMoves
    <3>2. CASE height = Base
      BY <2>4, <3>2
    <3>3. CASE height # Base
      <4>1. PICK x \in DOMAIN items : Cap(items[x]) = height
        BY <3>3 DEF TieMoves, Topped
      <4>2. CASE x = i
        BY <1>1, <2>2, <2>4, <3>1, <4>1, <4>2
      <4>3. CASE x # i
        <5>1. x \in All /\ x \notin DOMAIN pos /\ Hi(x)' = Cap(items[x])
          BY <4>1, <4>3, ItemFacts DEF TieMoves, Same
        <5>2. x \in DOMAIN items'
          BY <4>1, <5>1 DEF TieMoves, All, IType, StackTypeOK
        <5> QED BY <2>4, <4>1, <5>1, <5>2 DEF Hi
      <4> QED BY <4>2, <4>3
    <3> QED BY <3>2, <3>3
  <2> QED BY <2>3, <2>4 DEF TieMoves
<1> QED BY <1>3, <1>4, <1>5, <1>6 DEF Above, Covered, Topped

LEMMA TieManaged ==
  ASSUME NEW i \in DOMAIN items, NEW j, NEW n, NEW pos, Tie(i, j, n, pos), Managed
  PROVE  Managed'
<1> DEFINE e == items[i]
           Variable(x) == [top |-> e.top + pos[x] - 1, pushed |-> 1, grouped |-> 0,
                           managed |-> e.managed]
<1>1. items' = [x \in DOMAIN items \cup DOMAIN pos |->
                  CASE x = i -> Sized(e, 0, e.grouped)
                    [] x \in DOMAIN pos -> Variable(x)
                    [] OTHER -> items[x]]
  BY Zenon DEF Tie
<1>2. Sized(e, 0, e.grouped).managed = e.managed /\ \A x : Variable(x).managed = e.managed
  BY DEF Sized
<1>3. \A x \in DOMAIN items : items[x].managed
  BY DEF Managed
<1> HIDE DEF Variable
<1>4. ASSUME NEW x \in DOMAIN items' PROVE items'[x].managed
  <2>1. CASE x = i
    BY <1>1, <1>2, <1>3, <2>1
  <2>2. CASE x # i /\ x \in DOMAIN pos
    <3>1. items'[x] = Variable(x)
      BY <1>1, <2>2
    <3> QED BY <1>2, <1>3, <3>1
  <2>3. CASE x # i /\ x \notin DOMAIN pos
    BY <1>1, <1>3, <2>3
  <2> QED BY <2>1, <2>2, <2>3
<1> QED BY <1>4 DEF Managed

(* What an unchanged frame, or one that has left all to the queue, covers.  *)
LEMMA SameCovers ==
  ASSUME All' = All, \A x \in All' : Same(x), Limit' = Limit, Above, Covered
  PROVE  Above' /\ Covered'
BY DEF Same, Above, Covered

LEMMA TopAddedCovers ==
  ASSUME IType, IType', NEW i \in All', TopAdded(i), Hi(i)' = Limit', Above, Covered,
         \A x \in All : \E y \in All' \ {i} : Lo(y)' = Lo(x) /\ Hi(y)' = Hi(x)
  PROVE  Above' /\ Covered'
<1>1. Bounded /\ Bounded'
  BY Bounds, PTL
<1>2. Base \in Nat
  BY StackAssumption
<1>3. Above'
  BY <1>1, <1>2 DEF TopAdded, Above, Bounded
<1>4. ASSUME NEW n \in (Base + 1)..Limit' PROVE \E x \in All' : Lo(x)' < n /\ n <= Hi(x)'
  <2>1. CASE n <= Limit
    <3>1. PICK x \in All : Lo(x) < n /\ n <= Hi(x)
      BY <1>1, <1>2, <2>1 DEF Covered, Bounded
    <3> QED BY <3>1
  <2>2. CASE ~(n <= Limit)
    BY <1>1, <1>2, <2>2 DEF TopAdded, Bounded
  <2> QED BY <2>1, <2>2
<1> QED BY <1>3, <1>4 DEF Covered

LEMMA BesideOthers ==
  ASSUME IType, NEW h \in Nat, ~InsideOther(h)
  PROVE  Beside(h)
<1>1. ASSUME NEW x \in DOMAIN items PROVE ~(Lo(x) < h /\ h < Hi(x))
  BY ItemFacts DEF InsideOther
<1>2. ASSUME NEW x \in DOMAIN queue PROVE ~(Lo(x) < h /\ h < Hi(x))
  <2>1. x \notin DOMAIN items
    BY DEF IType, StackTypeOK
  <2> QED BY <2>1 DEF InsideOther, Lo, Hi
<1> QED BY <1>1, <1>2 DEF Beside, All

LEMMA NotHollow ==
  ASSUME IType, NEW h \in Nat, ~HollowAt(h), NEW j \in DOMAIN queue, ~(Lo(j) < Hi(j))
  PROVE  Hi(j) # h
<1>1. j \notin DOMAIN items /\ queue[j].numElements \in Nat /\ queue[j].stackCap \in Nat
  BY DEF IType, StackTypeOK, DeallocStackItem
<1>2. Lo(j) = queue[j].stackCap - queue[j].numElements /\ Hi(j) = queue[j].stackCap
  BY <1>1 DEF Lo, Hi
<1>3. queue[j].numElements = 0
  BY <1>1, <1>2
<1> QED BY <1>2, <1>3 DEF HollowAt

LEMMA TopChangesPoppable ==
  ASSUME IType, IType', NEW i, TopChanges(i), Poppable, draining = Idle \/ i \notin All',
         DOMAIN queue' \subseteq DOMAIN queue, i \notin DOMAIN queue',
         \A z \in DOMAIN queue' : ~(Lo(z) < Hi(z)) =>
           Hi(z) <= Limit' /\ (draining' = Idle => Hi(z) < Limit')
  PROVE  Poppable'
<1>b. Bounded /\ Bounded'
  BY Bounds, PTL
<1>1. ASSUME NEW z \in DOMAIN queue', ~(Lo(z)' < Hi(z)')
      PROVE  Reached(Hi(z))' /\ Beside(Hi(z))'
  <2>1. z \in DOMAIN queue /\ z \in All /\ z \in All' /\ Same(z) /\ ~(Lo(z) < Hi(z))
    BY <1>1 DEF TopChanges, Same, All
  <2>2. Reached(Hi(z)) /\ Beside(Hi(z))
    BY <2>1 DEF Poppable
  <2>3. ASSUME NEW x \in All' PROVE ~(Lo(x)' < Hi(z) /\ Hi(z) < Hi(x)')
    <3>1. CASE x # i
      BY <2>2, <3>1 DEF TopChanges, Same, Beside
    <3>2. CASE x = i
      <4>1. draining = Idle /\ i \in All /\ Hi(i) = Limit /\ Lo(i)' = Lo(i) /\ Hi(z) < Limit
        BY <2>2, <3>2 DEF TopChanges, Reached
      <4> QED BY <2>2, <3>2, <4>1 DEF Beside
    <3> QED BY <3>1, <3>2
  <2>4. Hi(z)' = Hi(z) /\ Hi(z) <= Limit' /\ (draining' = Idle => Hi(z) < Limit')
    BY <2>1 DEF Same
  <2> QED BY <2>3, <2>4 DEF Reached, Beside
<1> QED BY <1>1 DEF Poppable

(* A live item that ends at the top goes, and its destructor begins to pop. *)
LEMMA GoesPoppable ==
  ASSUME IType, IType', NEW i \in DOMAIN items, TopChanges(i), Poppable, draining = Idle,
         draining' # Idle, Limit' = Lo(i), queue' = queue
  PROVE  Poppable'
<1>1. i \notin DOMAIN queue' /\ Bounded
  BY ItemFacts, Bounds
<1>2. ASSUME NEW z \in DOMAIN queue', ~(Lo(z) < Hi(z)) PROVE Hi(z) <= Limit'
  <2>1. Hi(z) < Limit /\ Beside(Hi(z)) /\ i \in All /\ Hi(i) = Limit /\ z \in All
    BY <1>2 DEF Poppable, Reached, TopChanges, All
  <2>2. ~(Lo(i) < Hi(z))
    BY <2>1 DEF Beside
  <2> QED BY <1>1, <2>1, <2>2 DEF Bounded
<1> QED BY <1>1, <1>2, TopChangesPoppable

(* A live item that ends at the top is resized, but not so that an element  *)
(* without slots is passed by.                                              *)
LEMMA ResizePoppable ==
  ASSUME IType, IType', NEW i \in DOMAIN items, TopChanges(i), Poppable, draining = Idle,
         draining' = Idle, queue' = queue, height - 1 <= height',
         height' = height - 1 => ~HollowAt(height')
  PROVE  Poppable'
<1>1. /\ i \notin DOMAIN queue' /\ Bounded /\ Limit = height /\ Limit' = height'
      /\ height \in Nat /\ height' \in Nat
  BY ItemFacts, Bounds, StackAssumption DEF Limit, IType, StackTypeOK
<1>2. ASSUME NEW z \in DOMAIN queue', ~(Lo(z) < Hi(z)) PROVE Hi(z) < Limit'
  <2>1. Hi(z) < height /\ Hi(z) \in Nat
    BY <1>1, <1>2 DEF Poppable, Reached, All, Bounded
  <2>2. CASE height' = height - 1
    <3>1. Hi(z) # height'
      BY <1>1, <1>2, <2>2, NotHollow
    <3> QED BY <1>1, <2>1, <2>2, <3>1
  <2>3. CASE height' # height - 1
    BY <1>1, <2>1, <2>3
  <2> QED BY <2>2, <2>3
<1>3. \A z \in DOMAIN queue' : ~(Lo(z) < Hi(z)) =>
        Hi(z) <= Limit' /\ (draining' = Idle => Hi(z) < Limit')
  BY <1>1, <1>2 DEF All, Bounded
<1> QED BY <1>1, <1>3, TopChangesPoppable

LEMMA TopAddedPoppable ==
  ASSUME IType, IType', NEW i, TopAdded(i), Poppable, draining = Idle,
         i \notin DOMAIN queue',
         \A z \in DOMAIN queue' : Lo(z)' < Hi(z)' \/ (z \in DOMAIN queue /\ Same(z)),
         Limit <= Limit'
  PROVE  Poppable'
<1>b. Bounded /\ Bounded'
  BY Bounds, PTL
<1>1. PICK m \in [All' \ {i} -> All] :
        \A x \in All' \ {i} : Lo(x)' = Lo(m[x]) /\ Hi(x)' = Hi(m[x])
  BY DEF TopAdded
<1>2. ASSUME NEW z \in DOMAIN queue', ~(Lo(z)' < Hi(z)')
      PROVE  Reached(Hi(z))' /\ Beside(Hi(z))'
  <2>1. /\ z \in DOMAIN queue /\ Hi(z)' = Hi(z) /\ Hi(z) < Limit /\ Beside(Hi(z))
        /\ Hi(z) \in Nat /\ Limit \in Nat /\ Limit' \in Nat
    BY <1>2, <1>b DEF Poppable, Reached, Same, All, Bounded
  <2>2. ASSUME NEW x \in All' PROVE ~(Lo(x)' < Hi(z) /\ Hi(z) < Hi(x)')
    <3>1. CASE x # i
      BY <1>1, <2>1, <3>1 DEF Beside
    <3>2. CASE x = i
      BY <2>1, <3>2 DEF TopAdded
    <3> QED BY <3>1, <3>2
  <2> QED BY <2>1, <2>2 DEF Reached, Beside
<1> QED BY <1>2 DEF Poppable

LEMMA SamePoppable ==
  ASSUME All' = All, \A x \in All' : Same(x), Limit' = Limit, draining' = draining, Poppable,
         \A z \in DOMAIN queue' \ DOMAIN queue :
           Lo(z) < Hi(z) \/ (Reached(Hi(z)) /\ Beside(Hi(z)))
  PROVE  Poppable'
<1>1. ASSUME NEW z \in DOMAIN queue' PROVE (Lo(z) < Hi(z) \/ (Reached(Hi(z)) /\ Beside(Hi(z))))'
  <2>1. Lo(z)' = Lo(z) /\ Hi(z)' = Hi(z)
    BY DEF All, Same
  <2>2. Reached(Hi(z)) => Reached(Hi(z))'
    BY <2>1 DEF Reached
  <2>3. Beside(Hi(z)) => Beside(Hi(z))'
    BY <2>1 DEF Beside, Same
  <2> QED BY <2>1, <2>2, <2>3 DEF Poppable
<1> QED BY <1>1 DEF Poppable

(* Elements go without a change of the height.                              *)
LEMMA FewerPoppable ==
  ASSUME All' \subseteq All, \A x \in All' : Same(x), Limit' = Limit, draining' = draining,
         Poppable, queue' = queue
  PROVE  Poppable'
<1>1. ASSUME NEW z \in DOMAIN queue' PROVE (Lo(z) < Hi(z) \/ (Reached(Hi(z)) /\ Beside(Hi(z))))'
  <2>1. Lo(z)' = Lo(z) /\ Hi(z)' = Hi(z) /\ z \in DOMAIN queue
    BY DEF All, Same
  <2>2. Reached(Hi(z)) => Reached(Hi(z))'
    BY <2>1 DEF Reached
  <2>3. Beside(Hi(z)) => Beside(Hi(z))'
    BY <2>1 DEF Beside, Same
  <2> QED BY <2>1, <2>2, <2>3 DEF Poppable
<1> QED BY <1>1 DEF Poppable

(* The variables of a tie have one slot each, with nothing inside.          *)
LEMMA TiePoppable ==
  ASSUME IType, IType', NEW i \in DOMAIN items, NEW n \in Nat \ {0},
         NEW pos, pos \in [DOMAIN pos -> 1..n], TieMoves(i, n, pos), Poppable
  PROVE  Poppable'
<1>b. Bounded /\ Bounded'
  BY Bounds, PTL
<1>1. /\ items[i].top \in Nat /\ height \in Nat /\ items[i].grouped \in Nat \cup {-1}
      /\ Lo(i) = items[i].top /\ Hi(i) = Cap(items[i]) /\ i \in All /\ i \notin DOMAIN queue
  BY ItemFacts
<1>2. \A x \in DOMAIN pos : pos[x] \in Nat /\ 1 <= pos[x] /\ pos[x] <= n
  OBVIOUS
<1>3. ASSUME NEW z \in DOMAIN queue', ~(Lo(z)' < Hi(z)')
      PROVE  Reached(Hi(z))' /\ Beside(Hi(z))'
  <2>1. z \in DOMAIN queue /\ z \in All /\ z # i /\ Same(z)
    BY <1>1, <1>3 DEF TieMoves, All
  <2>2. /\ Hi(z)' = Hi(z) /\ Hi(z) < height /\ Beside(Hi(z)) /\ Hi(z) \in Nat
    BY <1>3, <1>b, <2>1 DEF Poppable, Reached, Same, TieMoves, Bounded
  <2>3. Hi(z) < Limit'
    <3>1. CASE height' = height
      BY <2>2, <3>1 DEF TieMoves
    <3>2. CASE Cap(items[i]) = height /\ height' = items[i].top + n
      <4>1. ~(Lo(i) < Hi(z))
        BY <1>1, <2>2, <3>2 DEF Beside
      <4> QED BY <1>1, <2>2, <3>2, <4>1 DEF TieMoves
    <3> QED BY <3>1, <3>2 DEF TieMoves
  <2>4. ASSUME NEW x \in All' PROVE ~(Lo(x)' < Hi(z) /\ Hi(z) < Hi(x)')
    <3>1. CASE x \in DOMAIN pos
      BY <1>1, <1>2, <2>2, <3>1 DEF TieMoves
    <3>2. CASE x = i
      BY <1>1, <2>2, <3>2 DEF TieMoves
    <3>3. CASE x \in All \ {i}
      BY <2>2, <3>3 DEF TieMoves, Same, Beside
    <3> QED BY <3>1, <3>2, <3>3 DEF TieMoves
  <2>5. Limit' \in Nat
    BY <1>b DEF Bounded
  <2> QED BY <2>2, <2>3, <2>4, <2>5 DEF Reached, Beside
<1> QED BY <1>3 DEF Poppable

(* The operations that user programs of this module perform: their values   *)
(* all pop, as Make(i, k, TRUE) has them.                                   *)
LEMMA StepLeak ==
  IType /\ IType' /\ KeptInv /\ LeakInv /\ [StackNext]_stackVars => LeakInv'
<1> DEFINE Leak == Managed /\ Poppable /\ Above /\ Covered /\ Topped
<1> SUFFICES ASSUME IType, IType', KeptInv, LeakInv, [StackNext]_stackVars, taken' = {}
             PROVE  Leak'
  BY DEF LeakInv
<1>t. taken = {} /\ Safe /\ Safe' /\ taken \subseteq taken'
  BY TakenGrows, Zenon DEF Safe
<1>0. Managed /\ Poppable /\ Above /\ Covered /\ Topped /\ Apart /\ Within
  BY <1>t DEF LeakInv, KeptInv
<1>n. 0..MaxHeight \subseteq Nat /\ Base \in Nat
  BY StackAssumption
<1>d. \A j \in DOMAIN queue : j \notin DOMAIN items
  BY DEF IType, StackTypeOK
<1>e. \A j \in DOMAIN queue' : j \notin DOMAIN items'
  BY DEF IType, StackTypeOK
<1>1. ASSUME NEW i \in Ids, NEW k \in 0..MaxHeight, Make(i, k, TRUE) PROVE Leak'
  <2> DEFINE e == [top |-> height, pushed |-> k, managed |-> TRUE,
                   grouped |-> IF k = 0 THEN 0 ELSE k - 1]
  <2>1. items' = With(items, i, e) /\ queue' = queue
    BY <1>1, Zenon DEF Make
  <2>2. e.managed
    OBVIOUS
  <2> HIDE DEF e
  <2>3. Managed'
    BY <1>0, <2>1, <2>2, WithManaged
  <2>k. k \in Nat
    BY <1>n
  <2>5. /\ i \notin All /\ All' = All \cup {i} /\ \A x \in All : Same(x)
        /\ i \in DOMAIN items' /\ Hi(i)' = Limit' /\ Cap(items'[i]) = height'
    <3>1. /\ i \notin All /\ All' = All \cup {i} /\ \A x \in All : Same(x)
          /\ i \in DOMAIN items' /\ Hi(i)' = height + k /\ Cap(items'[i]) = height'
          /\ Limit' = height + k
      BY <1>1, <2>k, MakeMoves, Zenon
    <3> QED BY <3>1
  <2>6. Above' /\ Covered'
    BY <1>0, <1>1, <2>k, <2>5, MakeAdds, TopAddedCovers DEF Same
  <2>4. Poppable'
    <3>1. TopAdded(i) /\ Limit <= Limit'
      BY <1>1, <2>k, MakeAdds DEF TopAdded
    <3>2. draining = Idle
      BY <1>1, Zenon DEF Make
    <3>3. i \notin DOMAIN queue' /\ \A z \in DOMAIN queue' : z \in DOMAIN queue /\ Same(z)
      BY <1>e, <2>1, <2>5 DEF All
    <3> QED BY <1>0, <3>1, <3>2, <3>3, TopAddedPoppable
  <2> QED BY <2>3, <2>4, <2>5, <2>6 DEF Topped
<1>2. ASSUME NEW i \in DOMAIN items, Chain(i) PROVE Leak'
  <2>1. TopChanges(i) /\ i \in DOMAIN items' /\ Cap(items'[i]) = height'
    BY <1>t, <1>2, ChainMoves
  <2>2. queue' = queue /\ items' = With(items, i, Sized(items[i], items[i].pushed + 1, 0))
    BY <1>2, Zenon DEF Chain
  <2>3. Managed'
    BY <1>0, <2>2, SizedManaged
  <2>4. Poppable'
    <3>1. draining = Idle /\ draining' = Idle /\ height' = height + 1 /\ height \in Nat
      BY <1>2, ItemFacts DEF Chain
    <3>2. height - 1 <= height' /\ height' # height - 1
      BY <3>1
    <3> QED BY <1>0, <2>1, <2>2, <3>1, <3>2, ResizePoppable
  <2>5. Above' /\ Covered'
    BY <1>0, <2>1, TopChangesCovers DEF All
  <2> QED BY <2>1, <2>3, <2>4, <2>5 DEF Topped
<1>3. ASSUME NEW i \in DOMAIN items, Fails(i) PROVE Leak'
  BY <1>3, Zenon DEF Fails
<1>4. ASSUME NEW i \in DOMAIN items, TakeRef(i) PROVE Leak'
  <2>1. TopChanges(i) /\ i \in DOMAIN items' /\ Cap(items'[i]) = height'
    BY <1>t, <1>4, TakeRefMoves
  <2>2. ~(items[i].pushed = 0)
    <3>1. Takes(items[i].pushed = 0 \/ Cap(items[i]) # height \/ Index(items[i]) # height,
                "buried ref") \subseteq taken'
      BY <1>4, Zenon DEF TakeRef
    <3> QED BY <3>1, Zenon DEF Takes
  <2>3. items[i].pushed > 0
    BY <2>2, ItemFacts
  <2>4. /\ queue' = queue
        /\ items' = With(items, i, Sized(items[i], items[i].pushed - 1, items[i].grouped))
    BY <1>4, <2>3, Zenon DEF TakeRef
  <2>5. Managed'
    BY <1>0, <2>4, SizedManaged
  <2>6. Poppable'
    <3>1. draining = Idle /\ draining' = Idle /\ height' = height - 1 /\ height \in Nat
      BY <1>4, ItemFacts DEF TakeRef
    <3>2. Takes(HollowAt(height - 1), "zero") \subseteq taken'
      BY <1>4, Zenon DEF TakeRef
    <3>3. ~HollowAt(height')
      BY <3>1, <3>2, Zenon DEF Takes
    <3>4. height - 1 <= height'
      BY <3>1
    <3> QED BY <1>0, <2>1, <2>4, <3>1, <3>3, <3>4, ResizePoppable
  <2>7. Above' /\ Covered'
    BY <1>0, <2>1, TopChangesCovers DEF All
  <2> QED BY <2>1, <2>5, <2>6, <2>7 DEF Topped
<1>5. ASSUME NEW i \in DOMAIN items, Release(i) PROVE Leak'
  <2>1. items' = Without(items, i) /\ draining = Idle
    BY <1>5, Zenon DEF Release
  <2>2. Managed'
    BY <1>0, <2>1, WithoutManaged
  <2>3. items[i].managed
    BY <1>0 DEF Managed
  <2>4. \A x \in DOMAIN items \ {i} : x \in DOMAIN items' /\ items'[x] = items[x]
    BY <2>1 DEF Without
  <2>5. CASE /\ height < Cap(items[i]) /\ height' = height /\ queue' = queue
             /\ All' = All \ {i} /\ (\A x \in All' : Same(x)) /\ Limit' = Limit
             /\ draining' = Idle
    <3>1. Lo(i) = Hi(i)
      BY <1>0, <2>1, <2>5, ItemFacts DEF Within, Limit
    <3>2. Above'
      BY <1>0, <2>5 DEF Above, Same
    <3>3. ASSUME NEW n \in (Base + 1)..Limit' PROVE \E x \in All' : Lo(x)' < n /\ n <= Hi(x)'
      <4>1. PICK x \in All : Lo(x) < n /\ n <= Hi(x)
        BY <1>0, <2>5 DEF Covered
      <4>2. x # i
        BY <3>1, <4>1, <1>n, ItemFacts
      <4> QED BY <2>5, <4>1, <4>2 DEF Same
    <3>4. height' = Base \/ \E x \in DOMAIN items' : Cap(items'[x]) = height'
      <4>1. CASE height = Base
        BY <2>5, <4>1
      <4>2. CASE height # Base
        <5>1. PICK x \in DOMAIN items : Cap(items[x]) = height
          BY <1>0, <2>1, <4>2 DEF Topped
        <5>2. x # i
          BY <2>5, <5>1, ItemFacts
        <5> QED BY <2>4, <2>5, <5>1, <5>2
      <4> QED BY <4>1, <4>2
    <3>5. Poppable'
      BY <1>0, <2>1, <2>5, FewerPoppable
    <3> QED BY <2>2, <3>2, <3>3, <3>4, <3>5 DEF Covered, Topped
  <2>6. CASE TopChanges(i) /\ Limit' = Lo(i) /\ draining' # Idle /\ queue' = queue
    <3>1. Above' /\ Covered'
      BY <1>0, <2>6, TopChangesCovers
    <3>2. Poppable'
      BY <1>0, <2>1, <2>6, GoesPoppable
    <3> QED BY <2>2, <2>6, <3>1, <3>2 DEF Topped
  <2>7. CASE /\ height > Cap(items[i])
             /\ items[i].pushed = 0 /\ InsideOther(items[i].top) => taken' # {}
             /\ All' = All /\ (\A x \in All' : Same(x)) /\ Limit' = Limit
             /\ draining' = Idle /\ height' = height
             /\ DOMAIN queue' = DOMAIN queue \cup {i}
    <3>1. Above' /\ Covered'
      BY <1>0, <2>7, SameCovers
    <3>2. Lo(i) < Hi(i) \/ (Reached(Hi(i)) /\ Beside(Hi(i)))
      <4>1. CASE items[i].pushed # 0
        BY <4>1, ItemFacts
      <4>2. CASE items[i].pushed = 0
        <5>1. /\ Hi(i) = items[i].top /\ Hi(i) \in Nat /\ Hi(i) < height /\ Limit = height
              /\ height \in Nat
          BY <2>1, <2>7, <4>2, ItemFacts DEF Limit
        <5>2. Beside(Hi(i))
          BY <2>7, <4>2, <5>1, BesideOthers
        <5> QED BY <5>1, <5>2 DEF Reached
      <4> QED BY <4>1, <4>2
    <3>3. Poppable'
      BY <1>0, <2>1, <2>7, <3>2, SamePoppable
    <3>4. height' = Base \/ \E x \in DOMAIN items' : Cap(items'[x]) = height'
      <4>1. CASE height = Base
        BY <2>7, <4>1
      <4>2. CASE height # Base
        <5>1. PICK x \in DOMAIN items : Cap(items[x]) = height
          BY <1>0, <2>1, <4>2 DEF Topped
        <5>2. x # i
          BY <2>7, <5>1, ItemFacts
        <5> QED BY <2>4, <2>7, <5>1, <5>2
      <4> QED BY <4>1, <4>2
    <3> QED BY <2>2, <3>1, <3>3, <3>4 DEF Topped
  <2> QED BY <1>5, <2>3, <2>5, <2>6, <2>7, ReleaseMoves
<1>6. ASSUME NEW i \in DOMAIN items, NEW j \in Ids, Rebase(i, j) PROVE Leak'
  <2> DEFINE e == [top |-> height, pushed |-> 1, grouped |-> 0, managed |-> TRUE]
  <2>1. items' = With(items, i, e) /\ queue' = With(queue, j, Left(items[i]))
    BY <1>6, Zenon DEF Rebase
  <2>2. e.managed
    OBVIOUS
  <2> HIDE DEF e
  <2>3. Managed'
    BY <1>0, <2>1, <2>2, WithManaged
  <2>4. /\ j \notin All /\ All' = All \cup {j} /\ \A x \in All \ {i} : Same(x)
        /\ i \in DOMAIN items' /\ Lo(j)' = Lo(i) /\ Hi(j)' = Hi(i) /\ Lo(i) < Hi(i)
        /\ Hi(i)' = Limit' /\ Cap(items'[i]) = height' /\ i \in All
    BY <1>6, RebaseMoves, ItemFacts
  <2>5. Poppable'
    <3>1. DOMAIN queue' = DOMAIN queue \cup {j}
      BY <2>1 DEF With
    <3>2. \A x \in DOMAIN queue : x # i /\ Same(x)
      BY <1>d, <2>4 DEF All
    <3>3. i \notin DOMAIN queue' /\ Lo(j)' < Hi(j)'
      BY <1>e, <2>4
    <3>4. draining = Idle
      BY <1>6, Zenon DEF Rebase
    <3>5. TopAdded(i) /\ Limit <= Limit'
      BY <1>6, RebaseAdds DEF TopAdded
    <3> QED BY <1>0, <3>1, <3>2, <3>3, <3>4, <3>5, TopAddedPoppable
  <2>6. \A x \in All : \E y \in All' \ {i} : Lo(y)' = Lo(x) /\ Hi(y)' = Hi(x)
    BY <2>4 DEF Same
  <2>7. Above' /\ Covered'
    BY <1>0, <1>6, <2>4, <2>6, RebaseAdds, TopAddedCovers
  <2> QED BY <2>3, <2>4, <2>5, <2>7 DEF Topped
<1>7. ASSUME NEW i \in DOMAIN items, NEW k \in 0..MaxHeight, Results(i, k) PROVE Leak'
  <2>k. k \in Nat
    BY <1>n
  <2>1. TopChanges(i) /\ i \in DOMAIN items' /\ Cap(items'[i]) = height'
    BY <1>7, <2>k, ResultsMoves
  <2>2. /\ queue' = queue
        /\ items' = With(items, i, Sized(items[i], items[i].pushed + k - 1, k - 1))
    BY <1>7, Zenon DEF Results
  <2>3. Managed'
    BY <1>0, <2>2, SizedManaged
  <2>4. Poppable'
    <3>1. /\ draining = Idle /\ draining' = Idle /\ height' = height - 1 + k /\ height \in Nat
      BY <1>7, ItemFacts DEF Results
    <3>2. Takes(k = 0 /\ HollowAt(height'), "zero") \subseteq taken'
      BY <1>7, Zenon DEF Results
    <3>3. ~(k = 0 /\ HollowAt(height'))
      BY <3>2, Zenon DEF Takes
    <3>4. height - 1 <= height' /\ (height' = height - 1 => k = 0)
      BY <2>k, <3>1
    <3> QED BY <1>0, <2>1, <2>2, <3>1, <3>3, <3>4, ResizePoppable
  <2>5. Above' /\ Covered'
    BY <1>0, <2>1, TopChangesCovers DEF All
  <2> QED BY <2>1, <2>3, <2>4, <2>5 DEF Topped
<1>8. ASSUME NEW i \in DOMAIN items, NEW j, NEW n \in Nat \ {0}, NEW pos,
             pos \in [DOMAIN pos -> 1..n], Onto(pos, n), Tie(i, j, n, pos)
      PROVE  Leak'
  <2>1. TieMoves(i, n, pos)
    BY <1>t, <1>8, TieIsSafe
  <2>2. items[i].pushed = items[i].grouped + 1
    <3>1. Takes(items[i].pushed # items[i].grouped + 1, "chained tie") \subseteq taken'
      BY <1>8, Zenon DEF Tie
    <3> QED BY <3>1, Zenon DEF Takes
  <2>3. Managed'
    BY <1>0, <1>8, TieManaged
  <2>4. Poppable'
    BY <1>0, <1>8, <2>1, TiePoppable
  <2> QED BY <1>0, <1>8, <2>1, <2>2, <2>3, <2>4, TieCovers
<1>9. CASE AskCallable
  BY <1>9, Zenon DEF AskCallable
<1>10. CASE Drain
  <2>1. PICK j \in DOMAIN queue :
          /\ TopChanges(j) /\ Limit' = Lo(j) /\ j \notin All'
          /\ Lo(j) < Hi(j) => ~HollowAt(Hi(j))
    <3>1. PICK j \in DOMAIN queue :
            /\ TopChanges(j) /\ Limit' = Lo(j) /\ j \notin All'
            /\ Takes(Lo(j) < Hi(j) /\ HollowAt(Hi(j)), "zero") \subseteq taken'
      BY <1>10, DrainMoves
    <3> QED BY <3>1, Zenon DEF Takes
  <2>2. draining # Idle /\ items' = items /\ height' = height
    BY <1>10 DEF Drain
  <2>3. draining' # Idle /\ DOMAIN queue' \subseteq DOMAIN queue
    <3>1. PICK k \in QueueTop :
            /\ queue[k].stackCap = draining /\ draining' = draining - queue[k].numElements
            /\ queue' = Without(queue, k)
      BY <1>10, Zenon DEF Drain
    <3> QED BY <2>2, <3>1 DEF Without, QueueTop, IType, StackTypeOK, DeallocStackItem, Idle
  <2>4. Managed'
    BY <1>0, <2>2 DEF Managed
  <2>5. Poppable'
    <3>b. Bounded
      BY Bounds
    <3>1. \A x \in DOMAIN queue' : x \in All' /\ x # j
      BY <2>1 DEF All
    <3>2. ASSUME NEW z \in DOMAIN queue', ~(Lo(z) < Hi(z)) PROVE Hi(z) <= Limit'
      <4>1. /\ z \in DOMAIN queue /\ Hi(z) <= Limit /\ Beside(Hi(z)) /\ j \in All /\ Hi(j) = Limit
            /\ Hi(z) \in Nat /\ Hi(j) \in Nat /\ Lo(j) \in Nat /\ Lo(j) <= Hi(j)
        BY <1>0, <2>1, <2>3, <3>2, <3>b DEF Poppable, Reached, TopChanges, All, Bounded
      <4>2. CASE Lo(j) < Hi(j)
        <5>1. Hi(z) # Hi(j)
          BY <2>1, <3>2, <4>1, <4>2, NotHollow
        <5>2. ~(Lo(j) < Hi(z))
          BY <4>1, <5>1 DEF Beside
        <5> QED BY <2>1, <4>1, <5>2
      <4>3. CASE ~(Lo(j) < Hi(j))
        BY <2>1, <4>1, <4>3
      <4> QED BY <4>2, <4>3
    <3> QED BY <1>0, <2>1, <2>3, <3>1, <3>2, TopChangesPoppable
  <2>6. Above' /\ Covered'
    BY <1>0, <2>1, TopChangesCovers DEF All
  <2> QED BY <2>3, <2>4, <2>5, <2>6 DEF Topped
<1>11. CASE Settop
  <2>1. /\ draining # Idle /\ height' = draining /\ draining' = Idle
        /\ queue' = queue /\ items' = items
        /\ \A j \in QueueTop : queue[j].stackCap # draining
    BY <1>11, Zenon DEF Settop
  <2>2. Limit' = Limit /\ Limit = draining /\ All' = All /\ \A x \in All' : Same(x)
    BY <2>1 DEF Limit, All, Same, Lo, Hi, Cap
  <2>3. Above' /\ Covered'
    BY <1>0, <2>2, SameCovers
  <2>4. Managed'
    BY <1>0, <2>1 DEF Managed
  <2>7. Poppable'
    <3>b. Bounded
      BY Bounds
    <3>1. ASSUME NEW z \in DOMAIN queue PROVE Hi(z) <= Limit /\ Hi(z) = queue[z].stackCap
      BY <1>0, <1>d, <3>b DEF Poppable, Reached, Within, Bounded, All, Hi
    <3>2. ASSUME NEW z \in DOMAIN queue' PROVE (Lo(z) < Hi(z) \/ (Reached(Hi(z)) /\ Beside(Hi(z))))'
      <4>1. z \in DOMAIN queue /\ Lo(z)' = Lo(z) /\ Hi(z)' = Hi(z) /\ z \in All
        BY <2>1, <2>2 DEF Same, All
      <4>2. CASE Lo(z) < Hi(z)
        BY <4>1, <4>2
      <4>3. CASE ~(Lo(z) < Hi(z))
        <5>1. Beside(Hi(z))'
          BY <1>0, <2>2, <4>1, <4>3 DEF Poppable, Beside, Same
        <5>2. Hi(z) # draining
          BY <2>1, <2>2, <3>1, <4>1 DEF QueueTop
        <5>3. Hi(z) < Limit'
          BY <2>2, <3>1, <3>b, <4>1, <5>2 DEF Bounded
        <5> QED BY <3>b, <4>1, <5>1, <5>3, <2>2 DEF Reached, Bounded
      <4> QED BY <4>2, <4>3
    <3> QED BY <3>2 DEF Poppable
  <2>5. draining = Base \/ \E i \in DOMAIN items : Cap(items[i]) = draining
    <3>b. Bounded
      BY Bounds
    <3>1. CASE draining = Base
      BY <3>1
    <3>2. CASE draining # Base
      <4>1. draining \in (Base + 1)..Limit
        BY <1>0, <1>n, <2>2, <3>2, <3>b DEF Above, Bounded
      <4>2. PICK x \in All : Lo(x) < draining /\ draining <= Hi(x)
        BY <1>0, <4>1 DEF Covered
      <4>3. Hi(x) = draining
        BY <1>0, <2>2, <3>b, <4>2 DEF Within, Bounded
      <4>4. CASE x \in DOMAIN items
        BY <4>3, <4>4 DEF Hi
      <4>5. CASE x \in DOMAIN queue
        <5>1. queue[x].stackCap = draining
          BY <1>d, <4>3, <4>5 DEF Hi
        <5>2. ASSUME NEW y \in DOMAIN queue PROVE queue[y].stackCap <= queue[x].stackCap
          BY <1>0, <1>d, <2>2, <3>b, <5>1 DEF Poppable, Reached, Within, Bounded, All, Hi
        <5> QED BY <2>1, <4>5, <5>1, <5>2 DEF QueueTop
      <4> QED BY <4>4, <4>5 DEF All
    <3> QED BY <3>1, <3>2
  <2>6. Topped'
    BY <2>1, <2>5 DEF Topped
  <2> QED BY <2>3, <2>4, <2>6, <2>7
<1>12. CASE UNCHANGED stackVars
  BY <1>0, <1>12
     DEF stackVars, Managed, Poppable, Reached, Beside, Above, Covered, Topped, All, Lo, Hi, Limit, Cap
<1> HIDE DEF Leak
<1>13. ASSUME NEW i \in DOMAIN items, NEW j \in Ids, NEW n \in 1..MaxHeight, NEW S \in SUBSET Ids,
              \E pos \in [S -> 1..n] :
                /\ \A x, y \in S : pos[x] = pos[y] => x = y
                /\ \A p \in 1..n : \E x \in S : pos[x] = p
                /\ Tie(i, j, n, pos)
       PROVE  Leak'
  <2>1. PICK pos \in [S -> 1..n] :
          /\ \A x, y \in S : pos[x] = pos[y] => x = y
          /\ \A p \in 1..n : \E x \in S : pos[x] = p
          /\ Tie(i, j, n, pos)
    BY <1>13, Zenon
  <2>2. n \in Nat \ {0} /\ pos \in [DOMAIN pos -> 1..n] /\ Onto(pos, n)
    BY <2>1, StackAssumption DEF Onto
  <2> QED BY <1>8, <2>1, <2>2, Zenon
<1>14. ASSUME NEW i \in DOMAIN items,
              \/ Chain(i) \/ Fails(i) \/ TakeRef(i) \/ Release(i)
              \/ \E j \in Ids : Rebase(i, j) /\ UNCHANGED taken
              \/ \E k \in 0..MaxHeight : Results(i, k)
              \/ \E j \in Ids, n \in 1..MaxHeight, S \in SUBSET Ids :
                   \E pos \in [S -> 1..n] :
                     /\ \A x, y \in S : pos[x] = pos[y] => x = y
                     /\ \A p \in 1..n : \E x \in S : pos[x] = p
                     /\ Tie(i, j, n, pos)
       PROVE  Leak'
  BY <1>2, <1>3, <1>4, <1>5, <1>6, <1>7, <1>13, <1>14, Zenon
<1>15. CASE StackNext
  BY <1>1, <1>9, <1>10, <1>11, <1>14, <1>15, Zenon DEF StackNext
<1> QED BY <1>12, <1>15

(* The last value to die has popped everything.                             *)
LEMMA NothingFollows == IType /\ KeptInv /\ LeakInv => NothingLeaks
<1> SUFFICES ASSUME IType, KeptInv, LeakInv, taken = {}, DOMAIN items = {}, draining = Idle
             PROVE  height = Base /\ DOMAIN queue = {}
  BY DEF NothingLeaks
<1>1. height = Base /\ Safe /\ Limit = height
  BY DEF LeakInv, Topped, Safe, Limit
<1>2. ASSUME NEW j \in DOMAIN queue PROVE FALSE
  BY <1>1, Bounds, StackAssumption
     DEF LeakInv, KeptInv, Poppable, Reached, Above, Within, All, Bounded
<1> QED BY <1>1, <1>2

(* If no liberty is taken at all, the last value to die leaves the stack    *)
(* and the queue as they were before the first.                             *)
THEOREM FrameLeaksNothing == StackSpec => []NothingLeaks
<1>1. StackInit => IType /\ KeptInv /\ LeakInv
  BY InitType, InitKept, InitLeak
<1>2. IType /\ KeptInv /\ LeakInv /\ [StackNext]_stackVars => (IType /\ KeptInv /\ LeakInv)'
  BY NextIsStep, StepType, StepKept, TakenGrows, StepLeak
<1> QED BY <1>1, <1>2, NothingFollows, PTL DEF StackSpec

-----------------------------------------------------------------------------
(* Values, calls and callbacks.                                             *)

(* What a call in progress leaves in its frame.                             *)
CallOK(c, its, h) ==
  \/ c = NoCall
  \/ c.how = "const" /\ c.managed \in BOOLEAN
  \/ c.how = "rvalue" /\ c.id \in DOMAIN its
  \/ c.how = "method" /\ c.id \in DOMAIN its /\ its[c.id].top + 1 = h /\ its[c.id].pushed = 1

FrameOK(f) ==
  /\ f.height \in 0..MaxHeight
  /\ DOMAIN f.items \subseteq Ids /\ \A i \in DOMAIN f.items : f.items[i] \in Item
  /\ \A x, y \in DOMAIN f.items :
       x # y => Clear(f.items[x].top, Cap(f.items[x]), f.items[y].top, Cap(f.items[y]))
  /\ \A x \in DOMAIN f.items : f.items[x].top < Cap(f.items[x]) => Cap(f.items[x]) <= f.height
  /\ CallOK(f.call, f.items, f.height)

SavedOK == \E T : saved \in Seq(T) /\ \A f \in T : FrameOK(f)

FramesInv ==
  /\ IType /\ Apart /\ Within
  /\ CallOK(call, items, height)
  /\ call # NoCall => draining = Idle
  /\ ref.managed \in BOOLEAN
  /\ SavedOK

LInv == Safe => FramesInv

-----------------------------------------------------------------------------
(* Liberties are never forgotten.                                           *)
LEMMA TakenStays == [Next]_vars => taken \subseteq taken'
<1> SUFFICES ASSUME [Next]_vars PROVE taken \subseteq taken'
  OBVIOUS
<1>1. \A i : Chain(i) \/ Fails(i) \/ TakeRef(i) \/ Release(i) => taken \subseteq taken'
  BY Zenon DEF Chain, Fails, TakeRef, Release
<1>2. \A i, k : Results(i, k) => taken \subseteq taken'
  BY Zenon DEF Results
<1>3. \A i, j, n, pos : Tie(i, j, n, pos) => taken \subseteq taken'
  <2>1. ASSUME NEW i, NEW j, NEW n, NEW pos, Tie(i, j, n, pos) PROVE taken \subseteq taken'
    <3>1. \E a, b, c : taken' = taken \cup a \cup b \cup c
      BY <2>1, Zenon DEF Tie
    <3> QED BY <3>1, Zenon
  <2> QED BY <2>1
<1>4. AskCallable \/ Drain \/ Settop => taken \subseteq taken'
  BY Zenon DEF AskCallable, Drain, Settop
<1>5. CASE Uses
  BY <1>1, <1>3, <1>4, <1>5, Zenon
     DEF Uses, Get, Unref, Read, ChainField, Field, TieTo, RefCopy, RefMove, Die, DropRef, Ask, Dying,
         Alone, stackVars
<1>6. CASE Calls
  BY <1>1, <1>2, <1>6, Zenon
     DEF Calls, CallNamed, CallTop, CallBuried, CallOuter, CallMethod, ReturnNamed,
         ReturnTemporary, ReturnMethod, FailNamed, FailTemporary, stackVars
<1>7. CASE Callbacks
  BY <1>7, Zenon DEF Callbacks, Enter, Leave, Raise, LeaveWith
<1>8. CASE UNCHANGED vars
  BY <1>8 DEF vars, stackVars
<1> QED BY <1>5, <1>6, <1>7, <1>8 DEF Next

-----------------------------------------------------------------------------
(* A step of one frame.                                                     *)
LEMMA FrameStep ==
  ASSUME FramesInv, Safe, taken \subseteq taken', Safe', StackStep,
         saved' = saved, ref'.managed \in BOOLEAN,
         CallOK(call', items', height'), call' # NoCall => draining' = Idle
  PROVE  FramesInv'
<1>1. IType'
  BY StepType DEF FramesInv
<1>2. KeptInv'
  BY <1>1, StepKept DEF FramesInv, KeptInv
<1>3. SavedOK'
  BY DEF FramesInv, SavedOK
<1> QED BY <1>1, <1>2, <1>3 DEF FramesInv, KeptInv

(* The frame stays as it is.                                                *)
LEMMA FrameStands ==
  UNCHANGED <<height, items, queue, draining>> => StackStep
BY DEF StackStep

LEMMA TieIsStep ==
  ASSUME NEW i \in DOMAIN items, NEW j \in Ids, NEW n \in 1..MaxResults,
         NEW pos \in Positions[n], TieTo(i, j, n, pos)
  PROVE  StackStep
<1>1. n \in Nat \ {0}
  BY ValueAssumption
<1>2. /\ pos \in UNION {[S -> 1..n] : S \in SUBSET Ids}
      /\ \A p \in 1..n : \E x \in DOMAIN pos :
           pos[x] = p /\ \A y \in DOMAIN pos : pos[y] = p => y = x
  BY DEF Positions
<1>3. pos \in [DOMAIN pos -> 1..n]
  BY <1>2
<1>4. Injective(pos) /\ Onto(pos, n)
  BY <1>2, <1>3 DEF Injective, Onto
<1>5. Tie(i, j, n, pos)
  BY Zenon DEF TieTo
<1> QED BY <1>1, <1>3, <1>4, <1>5, Zenon DEF StackStep

LEMMA UsesKeep == ASSUME FramesInv, Safe, Safe', taken \subseteq taken', Uses PROVE FramesInv'
<1>0. /\ \A i \in DOMAIN items : items[i].managed \in BOOLEAN
      /\ ref.managed \in BOOLEAN /\ 1 \in Nat /\ TRUE \in BOOLEAN
  BY DEF FramesInv, IType, StackTypeOK, Item
<1>1. ASSUME StackStep, saved' = saved, call' = call, call = NoCall, ref'.managed \in BOOLEAN
      PROVE  FramesInv'
  BY <1>1, FrameStep DEF CallOK
<1>2. ASSUME NEW i \in Ids, Get(i) \/ Unref(i) PROVE FramesInv'
  <2>1. \E m \in BOOLEAN : Make(i, 1, m)
    BY <1>0, <1>2, Zenon DEF Get, Unref
  <2>2. StackStep
    BY <1>0, <2>1, Zenon DEF StackStep
  <2> QED BY <1>0, <1>1, <1>2, <2>2 DEF Get, Unref, Running, Alone
<1>3. ASSUME NEW i \in DOMAIN items, ChainField(i) \/ \E j \in Ids : Field(i, j) PROVE FramesInv'
  <2>1. Chain(i) \/ \E j \in Ids, m \in BOOLEAN : Make(j, 1, m)
    BY <1>0, <1>3, Zenon DEF ChainField, Field
  <2>2. StackStep
    BY <1>0, <2>1, Zenon DEF StackStep
  <2> QED BY <1>0, <1>1, <1>3, <2>2 DEF ChainField, Field, Running, Alone
<1>4. ASSUME NEW i \in DOMAIN items, NEW j \in Ids, NEW n \in 1..MaxResults,
             NEW pos \in Positions[n], TieTo(i, j, n, pos)
      PROVE  FramesInv'
  BY <1>0, <1>1, <1>4, TieIsStep DEF TieTo, Running
<1>5. ASSUME NEW i \in DOMAIN items, RefCopy(i) PROVE FramesInv'
  BY <1>0, <1>1, <1>5, FrameStands DEF RefCopy, Running
<1>6. ASSUME NEW i \in DOMAIN items, RefMove(i) PROVE FramesInv'
  <2>1. StackStep
    BY <1>6, Zenon DEF RefMove, StackStep
  <2> QED BY <1>0, <1>1, <1>6, <2>1 DEF RefMove, Running
<1>7. ASSUME NEW i \in DOMAIN items, Die(i) PROVE FramesInv'
  <2>1. StackStep
    BY <1>7, Zenon DEF Die, StackStep
  <2> QED BY <1>0, <1>1, <1>7, <2>1 DEF Die, Running
<1>8. CASE DropRef
  BY <1>1, <1>8, FrameStands DEF DropRef, Running, stackVars, NoRef
<1>9. CASE Ask
  <2>1. StackStep
    BY <1>9, Zenon DEF Ask, StackStep
  <2> QED BY <1>0, <1>1, <1>9, <2>1 DEF Ask, Running
<1>10. CASE Dying
  <2>1. StackStep
    BY <1>10, Zenon DEF Dying, StackStep
  <2>2. draining # Idle
    BY <1>10, Zenon DEF Dying, Drain, Settop
  <2>3. call = NoCall
    BY <2>2 DEF FramesInv
  <2> QED BY <1>0, <1>1, <1>10, <2>1, <2>3 DEF Dying
<1>11. ASSUME NEW i \in DOMAIN items, Read(i) PROVE FramesInv'
  BY <1>0, <1>1, <1>11, FrameStands DEF Read, Running
<1> QED BY <1>2, <1>3, <1>4, <1>5, <1>6, <1>7, <1>8, <1>9, <1>10, <1>11, Zenon DEF Uses

-----------------------------------------------------------------------------
(* Calls and their returns.                                                 *)
LEMMA ConstOK ==
  ASSUME NEW m \in BOOLEAN, NEW its, NEW h PROVE CallOK(Const(m), its, h)
BY DEF CallOK, Const

LEMMA RvalueOK ==
  ASSUME NEW its, NEW i \in DOMAIN its, NEW h PROVE CallOK(Rvalue(i), its, h)
BY DEF CallOK, Rvalue

(* The temporary of a method dies with its results, which are at the top.   *)
LEMMA ReturnMethodKeeps ==
  ASSUME FramesInv, Safe, NEW k \in 0..MaxResults, ReturnMethod(k)
  PROVE  FramesInv'
<1> DEFINE i == call.id
<1>0. IType /\ Apart /\ Within
  BY DEF FramesInv
<1>1. /\ call.how = "method" /\ height - 1 + k <= MaxHeight /\ height' = height - 1 + k
      /\ draining' = items[i].top /\ items' = Without(items, i) /\ queue' = queue
      /\ call' = NoCall /\ saved' = saved /\ ref' = ref
  BY Zenon DEF ReturnMethod
<1>2. i \in DOMAIN items /\ items[i].top + 1 = height /\ items[i].pushed = 1
  BY <1>1 DEF FramesInv, CallOK, NoCall
<1>3. draining = Idle
  BY <1>1 DEF FramesInv, NoCall
<1> HIDE DEF i
<1>4. /\ items[i].top \in Nat /\ height \in Nat /\ k \in Nat /\ MaxHeight \in Nat
      /\ Lo(i) = items[i].top /\ Hi(i) = height
  BY <1>0, <1>2, ItemFacts, StackAssumption, ValueAssumption
<1>5. draining' \in 0..height' /\ height' \in 0..MaxHeight
  BY <1>1, <1>2, <1>4
<1>6. DOMAIN items' = DOMAIN items \ {i} /\ \A x \in DOMAIN items' : items'[x] = items[x]
  BY <1>1 DEF Without
<1>7. IType'
  BY <1>0, <1>1, <1>5, <1>6 DEF IType, StackTypeOK
<1>8. Limit = height /\ Limit' = items[i].top
  BY <1>1, <1>3, <1>4 DEF Limit, Idle
<1>9. TopChanges(i)
  BY <1>0, <1>1, <1>2, <1>4, <1>8, GoesMoves
<1>10. Apart' /\ Within'
  BY <1>0, <1>7, <1>9, TopChangesKeeps
<1> QED BY <1>1, <1>7, <1>10 DEF FramesInv, CallOK, SavedOK

LEMMA CallsKeep == ASSUME FramesInv, Safe, Safe', taken \subseteq taken', Calls PROVE FramesInv'
<1>0. /\ \A i \in DOMAIN items : items[i].managed \in BOOLEAN
      /\ ref.managed \in BOOLEAN /\ 1 \in Nat /\ TRUE \in BOOLEAN
      /\ 0..MaxResults \subseteq Nat
  BY ValueAssumption DEF FramesInv, IType, StackTypeOK, Item
<1>1. ASSUME NEW i \in DOMAIN items, NEW arg, CallNamed(i, arg) PROVE FramesInv'
  <2>1. /\ UNCHANGED <<height, items, queue, draining, saved, ref>>
        /\ call' = Const(items[i].managed) /\ draining = Idle
    BY <1>1 DEF CallNamed, Running
  <2> QED BY <1>0, <2>1, ConstOK, FrameStands, FrameStep
<1>2. ASSUME NEW i \in DOMAIN items, NEW arg, CallTop(i, arg) PROVE FramesInv'
  <2>1. /\ UNCHANGED <<height, items, queue, draining, saved, ref>>
        /\ call' = Rvalue(i) /\ draining = Idle
    BY <1>2 DEF CallTop, Running
  <2> QED BY <1>0, <2>1, RvalueOK, FrameStands, FrameStep
<1>3. ASSUME NEW i \in DOMAIN items, NEW j \in Ids, NEW arg, CallBuried(i, j, arg) PROVE FramesInv'
  <2>1. Rebase(i, j) /\ call' = Rvalue(i) /\ saved' = saved /\ ref' = ref
    BY <1>3, Zenon DEF CallBuried
  <2>2. StackStep
    BY <2>1, Zenon DEF StackStep
  <2>3. i \in DOMAIN items' /\ draining' = Idle
    BY <2>1 DEF Rebase, With
  <2> QED BY <1>0, <2>1, <2>2, <2>3, RvalueOK, FrameStep
<1>4. ASSUME NEW i \in Ids, NEW arg, CallMethod(i, arg) PROVE FramesInv'
  <2>1. Make(i, 1, TRUE) /\ call' = Method(i) /\ saved' = saved /\ ref' = ref
    BY <1>4, Zenon DEF CallMethod
  <2>2. StackStep
    BY <1>0, <2>1, Zenon DEF StackStep
  <2>3. /\ i \in DOMAIN items' /\ items'[i].top = height /\ items'[i].pushed = 1
        /\ height' = height + 1 /\ draining' = Idle
    BY <2>1 DEF Make, With
  <2>4. CallOK(call', items', height')
    BY <2>1, <2>3 DEF CallOK, Method
  <2> QED BY <1>0, <2>1, <2>2, <2>3, <2>4, FrameStep
<1>5. ASSUME NEW i \in Ids, CallOuter(i) PROVE FramesInv'
  <2> DEFINE below == saved[Len(saved)]
  <2>1. /\ UNCHANGED <<height, items, queue, draining, saved, ref>>
        /\ call' = Const(below.items[i].managed) /\ draining = Idle
        /\ saved # <<>> /\ i \in DOMAIN below.items
    BY <1>5 DEF CallOuter, Running
  <2>2. FrameOK(below)
    BY <2>1 DEF FramesInv, SavedOK
  <2>3. below.items[i].managed \in BOOLEAN
    BY <2>1, <2>2 DEF FrameOK, Item
  <2> QED BY <1>0, <2>1, <2>3, ConstOK, FrameStands, FrameStep
<1>6. ASSUME NEW j \in Ids, NEW k \in 0..MaxResults, ReturnNamed(j, k) PROVE FramesInv'
  <2>1. Make(j, k, call.managed) /\ call.how = "const" /\ call' = NoCall /\ saved' = saved /\ ref' = ref
    BY <1>6, Zenon DEF ReturnNamed
  <2>2. call.managed \in BOOLEAN
    BY <2>1 DEF FramesInv, CallOK, NoCall
  <2>3. StackStep
    BY <1>0, <2>1, <2>2, Zenon DEF StackStep
  <2> QED BY <1>0, <2>1, <2>3, FrameStep DEF CallOK
<1>7. ASSUME call.how = "rvalue" PROVE call.id \in DOMAIN items
  BY <1>7 DEF FramesInv, CallOK, NoCall
<1>8. ASSUME NEW k \in 0..MaxResults, ReturnTemporary(k) PROVE FramesInv'
  <2>1. Results(call.id, k) /\ call.how = "rvalue" /\ call' = NoCall /\ saved' = saved /\ ref' = ref
    BY <1>8, Zenon DEF ReturnTemporary
  <2>2. StackStep
    BY <1>0, <1>7, <2>1, Zenon DEF StackStep
  <2> QED BY <1>0, <2>1, <2>2, FrameStep DEF CallOK
<1>9. ASSUME NEW k \in 0..MaxResults, ReturnMethod(k) PROVE FramesInv'
  BY <1>9, ReturnMethodKeeps
<1>10. CASE FailNamed
  BY <1>0, <1>10, FrameStands, FrameStep DEF FailNamed, stackVars, CallOK
<1>11. CASE FailTemporary
  <2>1. Fails(call.id) /\ call.how = "rvalue" /\ call' = NoCall /\ saved' = saved /\ ref' = ref
    BY <1>11, Zenon DEF FailTemporary
  <2>2. StackStep
    BY <1>7, <2>1, Zenon DEF StackStep
  <2> QED BY <1>0, <2>1, <2>2, FrameStep DEF CallOK
<1> QED BY <1>1, <1>2, <1>3, <1>4, <1>5, <1>6, <1>8, <1>9, <1>10, <1>11, Zenon DEF Calls

-----------------------------------------------------------------------------
(* Frames that come and go.                                                 *)

(* A frame with nothing in the queue, as this one is when it is suspended,  *)
(* and back.                                                                *)
LEMMA Suspends ==
  ASSUME FramesInv, DOMAIN queue = {}, draining = Idle, NEW s, NEW m
  PROVE  FrameOK([slots |-> s, height |-> height, items |-> items, means |-> m, call |-> call])
<1>1. IType /\ Apart /\ Within /\ CallOK(call, items, height)
  BY DEF FramesInv
<1>2. Limit = height
  BY DEF Limit
<1>3. \A x \in DOMAIN items : x \in All /\ Lo(x) = items[x].top /\ Hi(x) = Cap(items[x])
  BY DEF All, Lo, Hi
<1>4. \A x, y \in DOMAIN items :
        x # y => Clear(items[x].top, Cap(items[x]), items[y].top, Cap(items[y]))
  BY <1>1, <1>3 DEF Apart
<1>5. \A x \in DOMAIN items : items[x].top < Cap(items[x]) => Cap(items[x]) <= height
  BY <1>1, <1>2, <1>3 DEF Within
<1> QED BY <1>1, <1>4, <1>5 DEF FrameOK, IType, StackTypeOK

LEMMA GoesOn ==
  ASSUME FramesInv, Safe', NEW f, FrameOK(f), DOMAIN queue' = {}, draining' = Idle,
         height' = f.height, items' = f.items, call' = f.call,
         ref'.managed \in BOOLEAN, SavedOK'
  PROVE  FramesInv'
<1>1. IType'
  BY StackAssumption DEF IType, StackTypeOK, FrameOK
<1>2. All' = DOMAIN f.items /\ Limit' = f.height
  BY DEF All, Limit
<1>3. \A x \in All' : Lo(x)' = f.items[x].top /\ Hi(x)' = Cap(f.items[x])
  BY <1>2 DEF Lo, Hi
<1>4. Apart' /\ Within'
  BY <1>2, <1>3 DEF Apart, Within, FrameOK
<1>5. CallOK(call', items', height')
  BY DEF FrameOK
<1> QED BY <1>1, <1>4, <1>5 DEF FramesInv

LEMMA EnterKeeps ==
  ASSUME FramesInv, Safe, Safe', NEW i \in Ids, Enter(i) PROVE FramesInv'
<1> DEFINE frame == [slots |-> slots, height |-> height, items |-> items,
                     means |-> means, call |-> call]
           e == [top |-> 1, pushed |-> 1, grouped |-> 0, managed |-> FALSE]
<1>1. /\ call # NoCall /\ saved' = Append(saved, frame) /\ height' = 2
      /\ items' = With(<<>>, i, e) /\ call' = NoCall
      /\ queue' = queue /\ draining' = draining /\ ref' = ref
  BY Zenon DEF Enter
<1>2. DOMAIN queue = {}
  <2>1. "shared queue" \notin taken'
    BY DEF Safe, Unsafe
  <2>2. taken' = taken \cup Takes(DOMAIN queue # {}, "shared queue")
    BY Zenon DEF Enter
  <2> QED BY <2>1, <2>2 DEF Takes
<1>3. draining = Idle
  BY <1>1 DEF FramesInv
<1>4. FrameOK(frame)
  BY <1>2, <1>3, Suspends
<1>5. SavedOK'
  <2>1. PICK T : saved \in Seq(T) /\ \A f \in T : FrameOK(f)
    BY DEF FramesInv, SavedOK
  <2> HIDE DEF frame
  <2>2. Append(saved, frame) \in Seq(T \cup {frame})
    BY <2>1
  <2> QED BY <1>1, <1>4, <2>1, <2>2 DEF SavedOK
<1>6. e \in Item /\ e.top = 1 /\ Cap(e) = 2
  BY DEF Item, Cap
<1> HIDE DEF e, frame
<1>7. DOMAIN items' = {i} /\ items'[i] = e
  <2>1. DOMAIN <<>> = {}
    OBVIOUS
  <2>2. items' = [x \in {i} |-> e]
    BY <1>1, <2>1, Zenon DEF With
  <2> QED BY <2>2
<1>8. IType'
  <2>1. height' \in 0..MaxHeight /\ draining' = Idle /\ DOMAIN queue' = {}
    BY <1>1, <1>2, <1>3, StackAssumption, ValueAssumption
  <2>2. DOMAIN items' \subseteq Ids /\ \A x \in DOMAIN items' : items'[x] \in Item
    BY <1>6, <1>7
  <2> QED BY <2>1, <2>2 DEF IType, StackTypeOK
<1>9. All' = {i} /\ Lo(i)' = 1 /\ Hi(i)' = 2 /\ Limit' = 2
  BY <1>1, <1>2, <1>3, <1>6, <1>7 DEF All, Lo, Hi, Limit
<1>10. Apart' /\ Within'
  BY <1>9 DEF Apart, Within
<1> QED BY <1>1, <1>5, <1>8, <1>10 DEF FramesInv, CallOK

LEMMA ResumeKeeps ==
  ASSUME FramesInv, Safe', saved # <<>>, draining = Idle, Resume, DOMAIN queue' = {}
  PROVE  FramesInv'
<1> DEFINE below == saved[Len(saved)]
<1>1. /\ saved' = SubSeq(saved, 1, Len(saved) - 1)
      /\ height' = below.height /\ items' = below.items /\ call' = below.call
      /\ draining' = draining /\ ref' = ref
  BY DEF Resume
<1>2. PICK T : saved \in Seq(T) /\ \A f \in T : FrameOK(f)
  BY DEF FramesInv, SavedOK
<1>3. below \in T /\ SubSeq(saved, 1, Len(saved) - 1) \in Seq(T)
  BY <1>2
<1>4. SavedOK'
  BY <1>1, <1>2, <1>3 DEF SavedOK
<1>5. FrameOK(below)
  BY <1>2, <1>3
<1> HIDE DEF below
<1>6. ref'.managed \in BOOLEAN
  BY <1>1 DEF FramesInv
<1> QED BY <1>1, <1>4, <1>5, <1>6, GoesOn

LEMMA CallbacksKeep ==
  ASSUME FramesInv, Safe, Safe', Callbacks PROVE FramesInv'
<1>1. "shared queue" \notin taken'
  BY DEF Safe, Unsafe
<1>2. ASSUME NEW i \in Ids, Enter(i) PROVE FramesInv'
  BY <1>2, EnterKeeps
<1>3. CASE Leave \/ Raise
  <2>1. /\ saved # <<>> /\ draining = Idle /\ Resume /\ queue' = queue
        /\ taken' = taken \cup Takes(DOMAIN queue # {}, "shared queue")
    BY <1>3, Zenon DEF Leave, Raise, Running
  <2>2. DOMAIN queue = {}
    BY <1>1, <2>1 DEF Takes
  <2>3. DOMAIN queue' = {}
    BY <2>1, <2>2
  <2> QED BY <2>1, <2>3, ResumeKeeps
<1>4. ASSUME NEW i \in DOMAIN items, LeaveWith(i) PROVE FramesInv'
  BY <1>1, <1>4, Zenon DEF LeaveWith
<1> QED BY <1>2, <1>3, <1>4, Zenon DEF Callbacks

-----------------------------------------------------------------------------
LEMMA InitFrames == Init => LInv
<1> SUFFICES ASSUME Init PROVE FramesInv
  BY DEF LInv
<1>1. StackInit /\ call = NoCall /\ ref = NoRef /\ saved = <<>>
  BY DEF Init
<1>2. IType /\ Apart /\ Within
  BY <1>1, InitType, StackAssumption DEF StackInit, Apart, Within, All
<1>3. SavedOK
  <2>1. saved \in Seq({})
    BY <1>1
  <2> QED BY <2>1 DEF SavedOK
<1> QED BY <1>1, <1>2, <1>3 DEF FramesInv, CallOK, NoRef

LEMMA NextFrames == LInv /\ [Next]_vars => LInv'
<1> SUFFICES ASSUME LInv, [Next]_vars, Safe' PROVE FramesInv'
  BY DEF LInv
<1>1. taken \subseteq taken'
  BY TakenStays
<1>2. Safe
  BY <1>1 DEF Safe
<1>3. FramesInv
  BY <1>2 DEF LInv
<1>4. CASE UNCHANGED vars
  BY <1>1, <1>2, <1>3, <1>4, FrameStands, FrameStep DEF vars, stackVars, FramesInv
<1> QED BY <1>1, <1>2, <1>3, <1>4, UsesKeep, CallsKeep, CallbacksKeep DEF Next

(* In every frame, whatever was called and whatever called back, a live     *)
(* Value keeps its slots and shares none, until an unsafe liberty is taken. *)
THEOREM ValuesKeepSlots == Spec => []Kept
<1>1. LInv => Kept
  <2>1. Safe /\ FramesInv => Kept
    BY KeptFollows DEF FramesInv, KeptInv
  <2> QED BY <2>1 DEF LInv, Kept, Safe
<1> QED BY <1>1, InitFrames, NextFrames, PTL DEF Spec

-----------------------------------------------------------------------------
(* What the host's frame is like as long as no liberty is taken: every slot *)
(* has a live owner that pops, or waits in the queue to be popped.  While a *)
(* callback runs it is the frame at the bottom, and the queue is empty.     *)
Tidy == Managed /\ Poppable /\ Above /\ Covered /\ Topped
Pops(c) == c.how = "const" => c.managed

TidyFrame(f) ==
  /\ \A x \in DOMAIN f.items : f.items[x].managed /\ Base <= f.items[x].top
  /\ Base <= f.height
  /\ \A n \in (Base + 1)..f.height :
       \E x \in DOMAIN f.items : f.items[x].top < n /\ n <= Cap(f.items[x])
  /\ f.height = Base \/ \E x \in DOMAIN f.items : Cap(f.items[x]) = f.height
  /\ Pops(f.call)

HostTidy ==
  /\ saved = <<>> => Tidy /\ Pops(call)
  /\ saved # <<>> => TidyFrame(saved[1])
HostInv == taken = {} => HostTidy

LEMMA TidyStep ==
  ASSUME FramesInv, FramesInv', Tidy, taken = {}, taken' = {}, [StackNext]_stackVars
  PROVE  Tidy'
<1>1. IType /\ IType' /\ KeptInv /\ LeakInv
  BY DEF FramesInv, KeptInv, LeakInv, Tidy
<1>2. LeakInv'
  BY <1>1, StepLeak
<1> QED BY <1>2 DEF LeakInv, Tidy

LEMMA MakeTidy ==
  ASSUME FramesInv, NEW i \in Ids, NEW k \in Nat, NEW m \in BOOLEAN, m = TRUE, Make(i, k, m), taken' = taken
  PROVE  [StackNext]_stackVars
<1>1. height + k <= MaxHeight /\ Make(i, k, TRUE) /\ UNCHANGED taken
  BY Zenon DEF Make
<1>2. k \in 0..MaxHeight
  BY <1>1, StackAssumption DEF FramesInv, IType, StackTypeOK
<1> QED BY <1>1, <1>2, Zenon DEF StackNext

(* A tie for more variables than there are results is a liberty.            *)
LEMMA TieTidy ==
  ASSUME FramesInv, taken' = {}, NEW i \in DOMAIN items, NEW j \in Ids, NEW n \in 1..MaxResults,
         NEW pos \in Positions[n], Tie(i, j, n, pos)
  PROVE  [StackNext]_stackVars
<1>1. n \in Nat \ {0}
  BY ValueAssumption
<1>2. /\ pos \in UNION {[S -> 1..n] : S \in SUBSET Ids}
      /\ \A p \in 1..n : \E x \in DOMAIN pos :
           pos[x] = p /\ \A y \in DOMAIN pos : pos[y] = p => y = x
  BY DEF Positions
<1>3. pos \in [DOMAIN pos -> 1..n] /\ DOMAIN pos \in SUBSET Ids
  BY <1>2
<1>4. /\ \A x, y \in DOMAIN pos : pos[x] = pos[y] => x = y
      /\ \A p \in 1..n : \E x \in DOMAIN pos : pos[x] = p
  BY <1>2, <1>3
<1>5. ~(n > items[i].pushed)
  <2>1. Takes(n > items[i].pushed, "wide tie") \subseteq taken'
    BY Zenon DEF Tie
  <2> QED BY <2>1, Zenon DEF Takes
<1>6. IType /\ Within
  BY DEF FramesInv
<1>7. n \in 1..MaxHeight
  <2>1. /\ i \in All /\ Lo(i) = items[i].top /\ Hi(i) = items[i].top + items[i].pushed
        /\ items[i].top \in Nat /\ items[i].pushed \in Nat
    BY <1>6, ItemFacts
  <2>2. Hi(i) <= Limit
    BY <1>1, <1>5, <1>6, <2>1 DEF Within
  <2>3. Limit <= MaxHeight /\ Limit \in Nat /\ MaxHeight \in Nat
    BY <1>6, StackAssumption DEF IType, StackTypeOK, Limit, Idle
  <2> QED BY <1>1, <1>5, <2>1, <2>2, <2>3
<1> QED BY <1>3, <1>4, <1>7, Zenon DEF StackNext

LEMMA ReturnMethodTidy ==
  ASSUME FramesInv, FramesInv', Tidy, NEW k \in 0..MaxResults, ReturnMethod(k)
  PROVE  Tidy'
<1> DEFINE i == call.id
<1>0. IType /\ Apart /\ Within /\ IType'
  BY DEF FramesInv
<1>1. /\ call.how = "method" /\ height - 1 + k <= MaxHeight /\ height' = height - 1 + k
      /\ draining' = items[i].top /\ items' = Without(items, i) /\ queue' = queue
  BY Zenon DEF ReturnMethod
<1>2. i \in DOMAIN items /\ items[i].top + 1 = height /\ items[i].pushed = 1
  BY <1>1 DEF FramesInv, CallOK, NoCall
<1>3. draining = Idle
  BY <1>1 DEF FramesInv, NoCall
<1> HIDE DEF i
<1>4. /\ items[i].top \in Nat /\ height \in Nat /\ Lo(i) = items[i].top /\ Hi(i) = height
  BY <1>0, <1>2, ItemFacts, StackAssumption
<1>5. Limit = height /\ Limit' = items[i].top /\ draining' # Idle
  BY <1>1, <1>3, <1>4 DEF Limit, Idle
<1>6. TopChanges(i)
  BY <1>0, <1>1, <1>2, <1>4, <1>5, GoesMoves
<1>7. Above' /\ Covered'
  BY <1>0, <1>4, <1>5, <1>6, TopChangesCovers DEF Tidy
<1>8. Managed'
  BY <1>1, WithoutManaged DEF Tidy
<1>9. Poppable'
  BY <1>0, <1>1, <1>2, <1>3, <1>4, <1>5, <1>6, GoesPoppable DEF Tidy
<1>10. Topped'
  BY <1>5 DEF Topped
<1> QED BY <1>7, <1>8, <1>9, <1>10 DEF Tidy

(* A step of the host.                                                      *)
LEMMA HostUses ==
  ASSUME FramesInv, FramesInv', Tidy, saved = <<>>, taken = {}, taken' = {}, Uses
  PROVE  Tidy' /\ call' = call
<1>0. /\ \A i \in DOMAIN items : items[i].managed \in BOOLEAN /\ items[i].managed = TRUE
      /\ ref.managed \in BOOLEAN /\ 1 \in Nat /\ TRUE \in BOOLEAN /\ taken' = taken
  BY DEF FramesInv, IType, StackTypeOK, Item, Tidy, Managed
<1>1. ASSUME [StackNext]_stackVars, call' = call PROVE Tidy' /\ call' = call
  BY <1>1, TidyStep
<1>2. ASSUME NEW i \in Ids, Get(i) PROVE Tidy' /\ call' = call
  <2>1. Make(i, 1, TRUE) /\ call' = call
    BY <1>2, Zenon DEF Get, Alone
  <2> QED BY <1>0, <1>1, <2>1, MakeTidy
<1>3. ASSUME NEW i \in Ids, Unref(i) PROVE Tidy' /\ call' = call
  <2>1. Make(i, 1, ref.managed) /\ call' = call
    BY <1>3, Zenon DEF Unref
  <2>2. Takes(~ref.managed /\ saved = <<>>, "foreign ref") \subseteq taken'
    BY <1>3, Zenon DEF Unref
  <2>3. ref.managed
    BY <2>2, Zenon DEF Takes
  <2>4. ref.managed = TRUE
    BY <1>0, <2>3
  <2> QED BY <1>0, <1>1, <2>1, <2>4, MakeTidy
<1>4. ASSUME NEW i \in DOMAIN items, ChainField(i) PROVE Tidy' /\ call' = call
  <2>1. Chain(i) /\ call' = call
    BY <1>4, Zenon DEF ChainField
  <2>2. [StackNext]_stackVars
    BY <2>1, Zenon DEF StackNext
  <2> QED BY <1>1, <2>1, <2>2
<1>5. ASSUME NEW i \in DOMAIN items, NEW j \in Ids, Field(i, j) PROVE Tidy' /\ call' = call
  <2>1. Make(j, 1, items[i].managed) /\ call' = call
    BY <1>5, Zenon DEF Field
  <2> QED BY <1>0, <1>1, <2>1, MakeTidy
<1>6. ASSUME NEW i \in DOMAIN items, NEW j \in Ids, NEW n \in 1..MaxResults,
             NEW pos \in Positions[n], TieTo(i, j, n, pos)
      PROVE  Tidy' /\ call' = call
  <2>1. Tie(i, j, n, pos) /\ call' = call
    BY <1>6, Zenon DEF TieTo
  <2> QED BY <1>1, <2>1, TieTidy
<1>7. ASSUME NEW i \in DOMAIN items, RefCopy(i) PROVE Tidy' /\ call' = call
  <2>1. UNCHANGED <<height, items, queue, draining>> /\ call' = call
    BY <1>7, Zenon DEF RefCopy
  <2> QED BY <1>0, <1>1, <2>1 DEF stackVars
<1>8. ASSUME NEW i \in DOMAIN items, RefMove(i) PROVE Tidy' /\ call' = call
  <2>1. TakeRef(i) /\ call' = call
    BY <1>8, Zenon DEF RefMove
  <2>2. [StackNext]_stackVars
    BY <2>1, Zenon DEF StackNext
  <2> QED BY <1>1, <2>1, <2>2
<1>9. ASSUME NEW i \in DOMAIN items, Die(i) PROVE Tidy' /\ call' = call
  <2>1. Release(i) /\ call' = call
    BY <1>9, Zenon DEF Die
  <2>2. [StackNext]_stackVars
    BY <2>1, Zenon DEF StackNext
  <2> QED BY <1>1, <2>1, <2>2
<1>10. CASE DropRef
  BY <1>1, <1>10 DEF DropRef
<1>11. CASE Ask
  BY <1>11, Zenon DEF Ask, AskCallable
<1>12. CASE Dying
  <2>1. (Drain \/ Settop) /\ call' = call
    BY <1>12, Zenon DEF Dying
  <2>2. [StackNext]_stackVars
    BY <2>1, Zenon DEF StackNext
  <2> QED BY <1>1, <2>1, <2>2
<1>13. ASSUME NEW i \in DOMAIN items, Read(i) PROVE Tidy' /\ call' = call
  <2>1. UNCHANGED <<height, items, queue, draining>> /\ call' = call
    BY <1>13, Zenon DEF Read
  <2> QED BY <1>0, <1>1, <2>1 DEF stackVars
<1> QED BY <1>2, <1>3, <1>4, <1>5, <1>6, <1>7, <1>8, <1>9, <1>10, <1>11, <1>12, <1>13, Zenon DEF Uses

LEMMA HostCalls ==
  ASSUME FramesInv, FramesInv', Tidy, Pops(call), saved = <<>>, taken = {}, taken' = {}, Calls
  PROVE  Tidy' /\ Pops(call')
<1>0. /\ \A i \in DOMAIN items : items[i].managed \in BOOLEAN /\ items[i].managed = TRUE
      /\ 1 \in Nat /\ TRUE \in BOOLEAN /\ taken' = taken /\ 0..MaxResults \subseteq Nat
  BY ValueAssumption DEF FramesInv, IType, StackTypeOK, Item, Tidy, Managed
<1>n. Pops(NoCall) /\ \A i : Pops(Rvalue(i)) /\ Pops(Method(i))
  BY DEF Pops, NoCall, Rvalue, Method
<1>1. ASSUME [StackNext]_stackVars, Pops(call') PROVE Tidy' /\ Pops(call')
  BY <1>1, TidyStep
<1>2. ASSUME NEW i \in DOMAIN items, NEW arg, CallNamed(i, arg) PROVE Tidy' /\ Pops(call')
  <2>1. /\ UNCHANGED <<height, items, queue, draining>>
        /\ call' = Const(items[i].managed)
    BY <1>2, Zenon DEF CallNamed
  <2>2. Pops(call')
    BY <1>0, <2>1 DEF Pops, Const
  <2> QED BY <1>0, <1>1, <2>1, <2>2 DEF stackVars
<1>3. ASSUME NEW i \in DOMAIN items, NEW arg, CallTop(i, arg) PROVE Tidy' /\ Pops(call')
  <2>1. UNCHANGED <<height, items, queue, draining>> /\ call' = Rvalue(i)
    BY <1>3, Zenon DEF CallTop
  <2> QED BY <1>0, <1>1, <1>n, <2>1 DEF stackVars
<1>4. ASSUME NEW i \in DOMAIN items, NEW j \in Ids, NEW arg, CallBuried(i, j, arg)
      PROVE  Tidy' /\ Pops(call')
  <2>1. Rebase(i, j) /\ call' = Rvalue(i)
    BY <1>4, Zenon DEF CallBuried
  <2>2. [StackNext]_stackVars
    BY <1>0, <2>1, Zenon DEF StackNext
  <2> QED BY <1>1, <1>n, <2>1, <2>2
<1>5. ASSUME NEW i \in Ids, NEW arg, CallMethod(i, arg) PROVE Tidy' /\ Pops(call')
  <2>1. Make(i, 1, TRUE) /\ call' = Method(i)
    BY <1>5, Zenon DEF CallMethod
  <2> QED BY <1>0, <1>1, <1>n, <2>1, MakeTidy
<1>6. ASSUME NEW i \in Ids, CallOuter(i) PROVE FALSE
  BY <1>6, Zenon DEF CallOuter
<1>7. ASSUME NEW j \in Ids, NEW k \in 0..MaxResults, ReturnNamed(j, k) PROVE Tidy' /\ Pops(call')
  <2>1. Make(j, k, call.managed) /\ call.how = "const" /\ call' = NoCall
    BY <1>7, Zenon DEF ReturnNamed
  <2>2. call.managed \in BOOLEAN /\ call.managed = TRUE
    BY <2>1 DEF FramesInv, CallOK, NoCall, Pops
  <2> QED BY <1>0, <1>1, <1>n, <2>1, <2>2, MakeTidy
<1>8. ASSUME NEW k \in 0..MaxResults, ReturnTemporary(k) PROVE Tidy' /\ Pops(call')
  <2>1. Results(call.id, k) /\ call.how = "rvalue" /\ call' = NoCall
    BY <1>8, Zenon DEF ReturnTemporary
  <2>2. call.id \in DOMAIN items
    BY <2>1 DEF FramesInv, CallOK, NoCall
  <2>3. /\ height - 1 + k <= MaxHeight /\ items[call.id].pushed > 0
        /\ Cap(items[call.id]) = height
    BY <2>1, Zenon DEF Results
  <2>4. k \in 0..MaxHeight
    BY <1>0, <2>2, <2>3, StackAssumption DEF FramesInv, IType, StackTypeOK, Item, Cap
  <2>5. [StackNext]_stackVars
    BY <2>1, <2>2, <2>4, Zenon DEF StackNext
  <2> QED BY <1>1, <1>n, <2>1, <2>5
<1>9. ASSUME NEW k \in 0..MaxResults, ReturnMethod(k) PROVE Tidy' /\ Pops(call')
  <2>1. call' = NoCall
    BY <1>9, Zenon DEF ReturnMethod
  <2> QED BY <1>9, <1>n, <2>1, ReturnMethodTidy
<1>10. CASE FailNamed
  BY <1>1, <1>n, <1>10 DEF FailNamed
<1>11. CASE FailTemporary
  BY <1>11, Zenon DEF FailTemporary, Fails
<1> QED BY <1>2, <1>3, <1>4, <1>5, <1>6, <1>7, <1>8, <1>9, <1>10, <1>11, Zenon DEF Calls

(* The host calls, is called back, and goes on.                             *)
LEMMA HostSuspends ==
  ASSUME FramesInv, Tidy, Pops(call), DOMAIN queue = {}, draining = Idle, NEW s, NEW m
  PROVE  TidyFrame([slots |-> s, height |-> height, items |-> items, means |-> m, call |-> call])
<1>1. All = DOMAIN items /\ Limit = height
  BY DEF All, Limit
<1>2. \A x \in DOMAIN items : Lo(x) = items[x].top /\ Hi(x) = Cap(items[x])
  BY DEF Lo, Hi
<1> QED BY <1>1, <1>2 DEF TidyFrame, Tidy, Managed, Above, Covered, Topped

LEMMA HostGoesOn ==
  ASSUME NEW f, TidyFrame(f), DOMAIN queue' = {}, draining' = Idle,
         height' = f.height, items' = f.items, call' = f.call
  PROVE  Tidy' /\ Pops(call')
<1>1. All' = DOMAIN f.items /\ Limit' = f.height
  BY DEF All, Limit
<1>2. \A x \in All' : Lo(x)' = f.items[x].top /\ Hi(x)' = Cap(f.items[x])
  BY <1>1 DEF Lo, Hi
<1>3. Poppable'
  BY DEF Poppable
<1>4. Managed' /\ Topped'
  BY DEF Managed, Topped, TidyFrame
<1>5. Above' /\ Covered'
  BY <1>1, <1>2 DEF Above, Covered, TidyFrame
<1> QED BY <1>3, <1>4, <1>5 DEF Tidy, TidyFrame

LEMMA HostCallbacks ==
  ASSUME FramesInv, HostTidy, taken = {}, taken' = {}, Callbacks
  PROVE  HostTidy'
<1>1. PICK T : saved \in Seq(T)
  BY DEF FramesInv, SavedOK
<1>2. ASSUME NEW i \in Ids, Enter(i) PROVE HostTidy'
  <2> DEFINE frame == [slots |-> slots, height |-> height, items |-> items,
                       means |-> means, call |-> call]
  <2>1. call # NoCall /\ saved' = Append(saved, frame)
    BY <1>2, Zenon DEF Enter
  <2>2. Takes(DOMAIN queue # {}, "shared queue") \subseteq taken'
    BY <1>2, Zenon DEF Enter
  <2>3. DOMAIN queue = {}
    BY <2>2, Zenon DEF Takes
  <2>4. draining = Idle
    BY <2>1 DEF FramesInv
  <2>5. saved = <<>> => TidyFrame(frame)
    BY <2>3, <2>4, HostSuspends DEF HostTidy
  <2> HIDE DEF frame
  <2>6. saved' # <<>> /\ saved'[1] = IF saved = <<>> THEN frame ELSE saved[1]
    BY <1>1, <2>1
  <2> QED BY <2>5, <2>6 DEF HostTidy
<1>3. CASE Leave \/ Raise
  <2> DEFINE below == saved[Len(saved)]
  <2>1. /\ saved # <<>> /\ draining = Idle /\ Resume /\ queue' = queue
        /\ Takes(DOMAIN queue # {}, "shared queue") \subseteq taken'
    BY <1>3, Zenon DEF Leave, Raise, Running
  <2>2. DOMAIN queue' = {}
    <3>1. DOMAIN queue = {}
      BY <2>1, Zenon DEF Takes
    <3> QED BY <2>1, <3>1
  <2>3. /\ saved' = SubSeq(saved, 1, Len(saved) - 1)
        /\ height' = below.height /\ items' = below.items /\ call' = below.call
        /\ draining' = draining
    BY <2>1, Zenon DEF Resume
  <2>4. TidyFrame(saved[1])
    BY <2>1 DEF HostTidy
  <2>5. CASE Len(saved) = 1
    <3>1. saved' = <<>>
      BY <1>1, <2>3, <2>5
    <3>2. Tidy' /\ Pops(call')
      BY <2>1, <2>2, <2>3, <2>4, <2>5, HostGoesOn
    <3> QED BY <3>1, <3>2 DEF HostTidy
  <2>6. CASE Len(saved) # 1
    <3>1. saved' # <<>> /\ saved'[1] = saved[1]
      <4>1. Len(saved) \in Nat /\ Len(saved) > 1
        <5>1. saved # <<>>
          BY <2>1
        <5>2. Len(saved) \in Nat /\ Len(saved) # 0
          BY <1>1, <5>1
        <5>3. \A n \in Nat : n # 0 /\ n # 1 => n > 1
          OBVIOUS
        <5> QED BY <2>6, <5>2, <5>3, Zenon
      <4>2. saved' \in Seq(T) /\ Len(saved') = Len(saved) - 1 /\ saved'[1] = saved[1]
        <5>1. saved' = SubSeq(saved, 1, Len(saved) - 1)
          BY <2>3
        <5> QED BY <1>1, <4>1, <5>1
      <4> QED BY <4>1, <4>2
    <3> QED BY <2>4, <3>1 DEF HostTidy
  <2> QED BY <2>5, <2>6
<1>4. ASSUME NEW i \in DOMAIN items, LeaveWith(i) PROVE FALSE
  <2>1. {"shared queue"} \subseteq taken'
    BY <1>4, Zenon DEF LeaveWith
  <2> QED BY <2>1
<1> QED BY <1>2, <1>3, <1>4, Zenon DEF Callbacks

LEMMA SavedStays == Uses \/ Calls => saved' = saved
BY Zenon
   DEF Uses, Get, Unref, Read, ChainField, Field, TieTo, RefCopy, RefMove, Die, DropRef, Ask, Dying,
       Alone, Calls, CallNamed, CallTop, CallBuried, CallOuter, CallMethod, ReturnNamed,
       ReturnTemporary, ReturnMethod, FailNamed, FailTemporary

LEMMA InitHost == Init => HostInv
<1> SUFFICES ASSUME Init PROVE HostTidy
  BY DEF HostInv
<1>1. StackInit /\ call = NoCall /\ saved = <<>>
  BY DEF Init
<1>2. Tidy
  BY <1>1, InitLeak DEF StackInit, LeakInv, Tidy
<1> QED BY <1>1, <1>2 DEF HostTidy, Pops, NoCall

LEMMA NextHost == LInv /\ LInv' /\ HostInv /\ [Next]_vars => HostInv'
<1> SUFFICES ASSUME LInv, LInv', HostInv, [Next]_vars, taken' = {} PROVE HostTidy'
  BY DEF HostInv
<1>1. taken = {}
  BY TakenStays
<1>2. FramesInv /\ FramesInv'
  BY <1>1 DEF LInv, Safe
<1>3. HostTidy
  BY <1>1 DEF HostInv
<1>4. CASE UNCHANGED vars
  <2>1. Tidy => Tidy'
    BY <1>4 DEF vars, stackVars, Tidy, Managed, Poppable, Reached, Beside, Above, Covered, Topped,
                All, Lo, Hi, Limit, Cap
  <2>2. saved' = saved /\ call' = call
    BY <1>4 DEF vars
  <2> QED BY <1>3, <2>1, <2>2 DEF HostTidy
<1>5. CASE Uses \/ Calls
  <2>1. saved' = saved
    BY <1>5, SavedStays
  <2>2. CASE saved = <<>>
    BY <1>1, <1>2, <1>3, <1>5, <2>1, <2>2, HostUses, HostCalls DEF HostTidy
  <2>3. CASE saved # <<>>
    BY <1>3, <2>1, <2>3 DEF HostTidy
  <2> QED BY <2>2, <2>3
<1>6. CASE Callbacks
  BY <1>1, <1>2, <1>3, <1>6, HostCallbacks
<1> QED BY <1>4, <1>5, <1>6 DEF Next

(* If no liberty is taken, the host's stack is as it was before its first   *)
(* Value when its last one is gone, whatever callbacks did on their own     *)
(* stacks meanwhile, and however they ended.                                *)
THEOREM HostLeavesNothing == Spec => []HostLeaksNothing
<1>1. LInv /\ HostInv => HostLeaksNothing
  <2> SUFFICES ASSUME LInv, HostInv, saved = <<>>, taken = {} PROVE NothingLeaks
    BY DEF HostLeaksNothing, NothingLeaks
  <2>1. IType /\ KeptInv /\ LeakInv
    BY DEF LInv, Safe, FramesInv, KeptInv, HostInv, HostTidy, LeakInv, Tidy
  <2> QED BY <2>1, NothingFollows
<1>2. LInv /\ HostInv /\ [Next]_vars => (LInv /\ HostInv)'
  BY NextFrames, NextHost
<1>3. Init => LInv /\ HostInv
  BY InitFrames, InitHost
<1> QED BY <1>1, <1>2, <1>3, PTL DEF Spec

-----------------------------------------------------------------------------
(***************************************************************************)
(* What the Values of a program designate.  Nobody pops the slots of a     *)
(* live Value, as shown above; it follows that the slot its index names,   *)
(* which is one of them, goes on holding what the Value was got for.       *)
(***************************************************************************)

Trusted == taken \cap (Unsafe \cup Misleading) = {}

(* In a frame with slots s and items its, where m says what they stand for. *)
Content(s, its, m) ==
  /\ DOMAIN m = DOMAIN its
  /\ \A i \in DOMAIN its : ~Empty(its[i]) => s[Index(its[i])] = m[i]

ContentOK == slots \in Seq(Nat) /\ Len(slots) = height /\ Content(slots, items, means)

FrameMeant(f) == f.slots \in Seq(Nat) /\ Len(f.slots) = f.height /\ Content(f.slots, f.items, f.means)

SavedMeant == \E T : saved \in Seq(T) /\ \A f \in T : FrameMeant(f)

RestMeant == SavedMeant /\ ref.held = ref.meant /\ ref.held \in Nat /\ astray = {}

MeantInv == ContentOK /\ RestMeant
MInv == Trusted => MeantInv

-----------------------------------------------------------------------------
(* The stack as a sequence.                                                 *)
LEMMA CutFacts ==
  ASSUME NEW s \in Seq(Nat), NEW n \in Nat, n <= Len(s)
  PROVE  /\ SubSeq(s, 1, n) \in Seq(Nat) /\ Len(SubSeq(s, 1, n)) = n
         /\ \A k \in 1..n : SubSeq(s, 1, n)[k] = s[k]
OBVIOUS

LEMMA PushFacts ==
  ASSUME NEW s \in Seq(Nat), NEW v \in Nat
  PROVE  /\ Append(s, v) \in Seq(Nat) /\ Len(Append(s, v)) = Len(s) + 1
         /\ \A k \in 1..Len(s) : Append(s, v)[k] = s[k]
         /\ Append(s, v)[Len(s) + 1] = v
OBVIOUS

LEMMA ExtendFacts ==
  ASSUME NEW s \in Seq(Nat), NEW t \in Seq(Nat)
  PROVE  /\ s \o t \in Seq(Nat) /\ Len(s \o t) = Len(s) + Len(t)
         /\ \A k \in 1..Len(s) : (s \o t)[k] = s[k]
         /\ Len(t) > 0 => (s \o t)[Len(s) + 1] = t[1]
OBVIOUS

LEMMA NameFacts ==
  ASSUME NEW f \in Nat, NEW k \in Nat PROVE Name(f, k) \in Nat
<1>1. \A m \in Nat : m * f \in Nat
  OBVIOUS
<1>2. MaxHeight * f \in Nat
  BY <1>1, StackAssumption, Zenon
<1> DEFINE p == MaxHeight * f
<1> HIDE DEF p
<1>3. p \in Nat => p + k \in Nat
  OBVIOUS
<1> QED BY <1>2, <1>3 DEF p, Name

LEMMA NovelFacts ==
  ASSUME Len(saved) \in Nat, NEW h \in Nat, NEW k \in Nat
  PROVE  /\ Novel(h, k) \in Seq(Nat) /\ Len(Novel(h, k)) = k
         /\ k > 0 => First(h, k) = Novel(h, k)[1]
         /\ k = 0 => First(h, k) = Nothing
<1>1. ASSUME NEW j \in 1..k PROVE Name(Len(saved), h + j) \in Nat
  <2>1. h + j \in Nat
    OBVIOUS
  <2> QED BY <2>1, NameFacts
<1> DEFINE n == Novel(h, k)
<1>2. n = [j \in 1..k |-> Name(Len(saved), h + j)]
  BY DEF Novel
<1>3. n \in [1..k -> Nat]
  BY <1>1, <1>2
<1>4. First(h, k) = IF k = 0 THEN Nothing ELSE n[1]
  BY DEF First
<1> HIDE DEF n
<1>5. n \in Seq(Nat) /\ Len(n) = k
  BY <1>3
<1> QED BY <1>4, <1>5 DEF n

-----------------------------------------------------------------------------
LEMMA Slotted ==
  ASSUME NEW e, e.pushed \in Nat, e.grouped \in Nat \cup {-1}
  PROVE  ~Empty(e) <=> e.grouped \in Nat /\ e.grouped < e.pushed
BY DEF Empty

(* A Value whose slots stay, and one that was given its slot by this step.  *)
Stays(x, h) ==
  /\ x \in DOMAIN items /\ items'[x] = items[x] /\ means'[x] = means[x]
  /\ items[x].pushed > 0 => Cap(items[x]) <= h
Right(x) ==
  ~Empty(items'[x]) => slots'[Index(items'[x])] = means'[x]

LEMMA Untouched ==
  ASSUME IType, ContentOK, NEW h \in Nat,
         slots' \in Seq(Nat), Len(slots') = height', DOMAIN means' = DOMAIN items',
         \A k \in 1..h : slots'[k] = slots[k],
         \A x \in DOMAIN items' : Stays(x, h) \/ Right(x)
  PROVE  ContentOK'
<1>1. ASSUME NEW x \in DOMAIN items', Stays(x, h) PROVE Right(x)
  <2>1. SUFFICES ASSUME ~Empty(items'[x]) PROVE Right(x)
    BY DEF Right
  <2>2. /\ x \in DOMAIN items /\ items'[x] = items[x] /\ means'[x] = means[x]
        /\ items[x].pushed > 0 => Cap(items[x]) <= h
    BY <1>1 DEF Stays
  <2>3. /\ items[x].grouped \in Nat /\ items[x].grouped < items[x].pushed
        /\ slots[Index(items[x])] = means[x]
    BY <2>1, <2>2, ItemFacts, Slotted DEF ContentOK, Content
  <2>4. Index(items[x]) \in 1..h
    BY <2>2, <2>3, ItemFacts DEF Index
  <2> QED BY <2>2, <2>3, <2>4 DEF Right
<1>2. \A x \in DOMAIN items' : Right(x)
  BY <1>1
<1> QED BY <1>2 DEF ContentOK, Content, Right

(* Nobody's slots reach above the frame, nor above those of the top one.    *)
LEMMA Fit ==
  ASSUME FramesInv, NEW x \in DOMAIN items, items[x].pushed > 0
  PROVE  Cap(items[x]) <= height
<1>1. IType /\ Within
  BY DEF FramesInv
<1>2. Limit <= height /\ Limit \in Nat /\ height \in Nat
  BY <1>1, StackAssumption DEF Limit, IType, StackTypeOK, Idle
<1>3. Lo(x) < Hi(x) /\ x \in All /\ Hi(x) = Cap(items[x]) /\ Hi(x) \in Nat
  BY <1>1, ItemFacts
<1> QED BY <1>1, <1>2, <1>3 DEF Within

LEMMA Beneath ==
  ASSUME FramesInv, draining = Idle, NEW i \in DOMAIN items, items[i].pushed > 0,
         Cap(items[i]) = height, NEW x \in DOMAIN items \ {i}, items[x].pushed > 0
  PROVE  Cap(items[x]) <= height - 1
<1>1. IType /\ Apart
  BY DEF FramesInv
<1>2. Clear(Lo(i), Hi(i), Lo(x), Hi(x))
  BY <1>1, ItemFacts DEF Apart
<1>3. Cap(items[x]) <= height
  BY Fit
<1> QED BY <1>1, <1>2, <1>3, ItemFacts DEF Clear

LEMMA NatHeight ==
  ASSUME FramesInv PROVE height \in Nat /\ IType
BY StackAssumption DEF FramesInv, IType, StackTypeOK

-----------------------------------------------------------------------------
(* The steps of one frame.                                                  *)

(* Nothing is popped, and one Value gets slots at the top.                  *)
LEMMA Grown ==
  ASSUME FramesInv, ContentOK, NEW i, NEW e, NEW v,
         slots' \in Seq(Nat), Len(slots') = height',
         \A k \in 1..height : slots'[k] = slots[k],
         items' = With(items, i, e), means' = With(means, i, v),
         ~Empty(e) => slots'[Index(e)] = v
  PROVE  ContentOK'
<1>1. height \in Nat /\ IType
  BY NatHeight
<1>2. DOMAIN means = DOMAIN items
  BY DEF ContentOK, Content
<1>3. /\ DOMAIN items' = DOMAIN items \cup {i} /\ items'[i] = e
      /\ DOMAIN means' = DOMAIN items' /\ means'[i] = v
      /\ \A x \in DOMAIN items \ {i} : items'[x] = items[x] /\ means'[x] = means[x]
  BY <1>2 DEF With
<1>4. ASSUME NEW x \in DOMAIN items' PROVE Stays(x, height) \/ Right(x)
  <2>1. CASE x = i
    BY <1>3, <2>1 DEF Right
  <2>2. CASE x # i
    BY <1>3, <2>2, Fit DEF Stays
  <2> QED BY <2>1, <2>2
<1> QED BY <1>1, <1>3, <1>4, Untouched

LEMMA Made ==
  ASSUME FramesInv, ContentOK, NEW i, NEW m, Make(i, 1, m), NEW v \in Nat,
         slots' = Append(slots, v), means' = With(means, i, v)
  PROVE  ContentOK'
<1> DEFINE e == [top |-> height, pushed |-> 1, managed |-> m,
                 grouped |-> IF 1 = 0 THEN 0 ELSE 1 - 1]
<1>1. items' = With(items, i, e) /\ height' = height + 1
  BY Zenon DEF Make
<1>2. e.grouped = 0 /\ e.pushed = 1 /\ e.top = height
  OBVIOUS
<1> HIDE DEF e
<1>4. slots \in Seq(Nat) /\ Len(slots) = height /\ height \in Nat
  BY NatHeight DEF ContentOK
<1>5. /\ slots' \in Seq(Nat) /\ Len(slots') = height + 1
      /\ \A k \in 1..height : slots'[k] = slots[k]
      /\ slots'[height + 1] = v
  BY <1>4, PushFacts
<1>6. Index(e) = height + 1
  BY <1>2, <1>4 DEF Index
<1>7. e.grouped \in Nat /\ e.grouped < e.pushed /\ slots'[Index(e)] = v
  BY <1>2, <1>5, <1>6
<1>8. Len(slots') = height'
  BY <1>1, <1>5
<1> QED BY <1>1, <1>5, <1>7, <1>8, Grown

(* A function that has a name returns k results.                            *)
LEMMA Returned ==
  ASSUME FramesInv, ContentOK, RestMeant, NEW j, NEW k \in Nat, NEW m, Make(j, k, m),
         slots' = slots \o Novel(height, k), means' = With(means, j, First(height, k))
  PROVE  ContentOK'
<1> DEFINE e == [top |-> height, pushed |-> k, managed |-> m,
                 grouped |-> IF k = 0 THEN 0 ELSE k - 1]
           v == First(height, k)
<1>1. items' = With(items, j, e) /\ height' = height + k
  BY Zenon DEF Make
<1>2. e.grouped = (IF k = 0 THEN 0 ELSE k - 1) /\ e.pushed = k /\ e.top = height
  OBVIOUS
<1>3. slots \in Seq(Nat) /\ Len(slots) = height /\ height \in Nat
  BY NatHeight DEF ContentOK
<1>4. /\ Novel(height, k) \in Seq(Nat) /\ Len(Novel(height, k)) = k
      /\ k > 0 => v = Novel(height, k)[1]
      /\ k = 0 => v = Nothing
  BY <1>3, NovelFacts DEF RestMeant, SavedMeant
<1> HIDE DEF e, v
<1>6. /\ slots' \in Seq(Nat) /\ Len(slots') = height + k
      /\ \A p \in 1..height : slots'[p] = slots[p]
      /\ k > 0 => slots'[height + 1] = v
  BY <1>3, <1>4, ExtendFacts
<1>7. ~Empty(e) => Index(e) = height + 1 /\ k > 0
  BY <1>2, <1>3, <1>4 DEF Index, Empty
<1>8. means' = With(means, j, v)
  BY DEF v
<1> QED BY <1>1, <1>6, <1>7, <1>8, Grown

LEMMA Chained ==
  ASSUME FramesInv, ContentOK, Safe', NEW i \in DOMAIN items, Chain(i), NEW v \in Nat,
         slots' = Append(slots, v), means' = [means EXCEPT ![i] = v]
  PROVE  ContentOK'
<1> DEFINE e == Sized(items[i], items[i].pushed + 1, 0)
<1>1. items' = With(items, i, e) /\ height' = height + 1
  BY Zenon DEF Chain
<1>2. Cap(items[i]) = height
  <2>1. Takes(Cap(items[i]) # height, "buried chain") \subseteq taken'
    BY Zenon DEF Chain
  <2> QED BY <2>1, Zenon DEF Takes, Safe, Unsafe
<1>3. e.grouped = 0 /\ e.pushed = items[i].pushed + 1 /\ e.top = items[i].top
  BY DEF Sized
<1> HIDE DEF e
<1>5. slots \in Seq(Nat) /\ Len(slots) = height /\ height \in Nat /\ DOMAIN means = DOMAIN items
  BY NatHeight DEF ContentOK, Content
<1>6. /\ slots' \in Seq(Nat) /\ Len(slots') = height + 1
      /\ \A k \in 1..height : slots'[k] = slots[k]
      /\ slots'[height + 1] = v
  BY <1>5, PushFacts
<1>7. e.grouped < e.pushed /\ Index(e) = height + 1
  BY <1>2, <1>3, NatHeight, ItemFacts DEF Index
<1>8. means' = With(means, i, v)
  BY <1>5 DEF With
<1>9. e.grouped \in Nat /\ e.grouped < e.pushed /\ slots'[Index(e)] = v
  BY <1>3, <1>6, <1>7
<1>10. Len(slots') = height'
  BY <1>1, <1>6
<1> QED BY <1>1, <1>6, <1>8, <1>9, <1>10, Grown

(* A buried temporary is pushed again, whatever its slot holds.             *)
LEMMA Rebased ==
  ASSUME FramesInv, ContentOK, NEW i \in DOMAIN items, NEW j, Rebase(i, j), NEW v \in Nat,
         slots' = Append(slots, v), means' = [means EXCEPT ![i] = v]
  PROVE  ContentOK'
<1> DEFINE e == [top |-> height, pushed |-> 1, grouped |-> 0, managed |-> TRUE]
<1>1. items' = With(items, i, e) /\ height' = height + 1
  BY Zenon DEF Rebase
<1>2. e.grouped = 0 /\ e.pushed = 1 /\ e.top = height
  OBVIOUS
<1> HIDE DEF e
<1>4. slots \in Seq(Nat) /\ Len(slots) = height /\ height \in Nat /\ DOMAIN means = DOMAIN items
  BY NatHeight DEF ContentOK, Content
<1>5. /\ slots' \in Seq(Nat) /\ Len(slots') = height + 1
      /\ \A k \in 1..height : slots'[k] = slots[k]
      /\ slots'[height + 1] = v
  BY <1>4, PushFacts
<1>6. Index(e) = height + 1
  BY <1>2, <1>4 DEF Index
<1>7. means' = With(means, i, v)
  BY <1>4 DEF With
<1>8. e.grouped \in Nat /\ e.grouped < e.pushed /\ slots'[Index(e)] = v
  BY <1>2, <1>5, <1>6
<1>9. Len(slots') = height'
  BY <1>1, <1>5
<1> QED BY <1>1, <1>5, <1>7, <1>8, <1>9, Grown

-----------------------------------------------------------------------------
(* Slots are popped, none of which a Value that lives on has.               *)
Fits == \A x \in DOMAIN items : items[x].pushed > 0 => Cap(items[x]) <= height

LEMMA FramesFit == FramesInv => Fits
BY Fit DEF Fits

LEMMA Fewer ==
  ASSUME FramesInv, FramesInv', ContentOK,
         slots' \in Seq(Nat), Len(slots') = height', \A k \in 1..height' : slots'[k] = slots[k],
         DOMAIN means' = DOMAIN items',
         \A x \in DOMAIN items' :
           \/ x \in DOMAIN items /\ items'[x] = items[x] /\ means'[x] = means[x]
           \/ Right(x)
  PROVE  ContentOK'
<1>1. IType /\ height' \in Nat
  <2>1. (FramesInv => height \in Nat)'
    BY NatHeight, PTL
  <2> QED BY <2>1 DEF FramesInv
<1>2. Fits'
  BY FramesFit, PTL
<1>3. \A x \in DOMAIN items' : Stays(x, height') \/ Right(x)
  BY <1>2 DEF Fits, Stays, Cap
<1> HIDE DEF FramesInv, ContentOK
<1> QED BY <1>1, <1>3, Untouched

LEMMA Popped ==
  ASSUME FramesInv, FramesInv', ContentOK, height' <= height
  PROVE  UpTo(height') \in Seq(Nat) /\ Len(UpTo(height')) = height'
         /\ \A k \in 1..height' : UpTo(height')[k] = slots[k]
<1>1. (FramesInv => height \in Nat)'
  BY NatHeight, PTL
<1> QED BY <1>1, CutFacts DEF ContentOK, UpTo

(* The slots that a Value designates are there.                             *)
LEMMA Designated ==
  ASSUME FramesInv, ContentOK, NEW i \in DOMAIN items, ~Empty(items[i])
  PROVE  /\ Index(items[i]) \in 1..height /\ slots[Index(items[i])] = means[i]
         /\ Designates(i) = means[i] /\ means[i] \in Nat
         /\ items[i].grouped \in Nat /\ items[i].grouped < items[i].pushed
<1>1. /\ items[i].grouped \in Nat /\ items[i].grouped < items[i].pushed
      /\ slots[Index(items[i])] = means[i]
      /\ slots \in Seq(Nat) /\ Len(slots) = height
  BY NatHeight, ItemFacts, Slotted DEF ContentOK, Content
<1>2. Index(items[i]) \in 1..height
  BY <1>1, NatHeight, ItemFacts, Fit DEF Index
<1>3. slots[Index(items[i])] \in Nat
  BY <1>1, <1>2
<1> QED BY <1>1, <1>2, <1>3 DEF Designates, At

(* A Value that dies, by itself or because its call fails.                  *)
LEMMA Gone ==
  ASSUME FramesInv, FramesInv', ContentOK, NEW i \in DOMAIN items,
         items' = Without(items, i), means' = Without(means, i),
         slots' \in Seq(Nat), Len(slots') = height', \A k \in 1..height' : slots'[k] = slots[k]
  PROVE  ContentOK'
<1>1. DOMAIN means = DOMAIN items
  BY DEF ContentOK, Content
<1>2. /\ DOMAIN items' = DOMAIN items \ {i} /\ DOMAIN means' = DOMAIN items'
      /\ \A x \in DOMAIN items' : x \in DOMAIN items /\ items'[x] = items[x] /\ means'[x] = means[x]
  BY <1>1 DEF Without
<1> QED BY <1>2, Fewer

(* std::move of what is at the top.                                         *)
LEMMA Moved ==
  ASSUME FramesInv, FramesInv', ContentOK, Safe', NEW i \in DOMAIN items, RefMove(i)
  PROVE  ContentOK'
<1> DEFINE v == IF items[i].pushed > 1 THEN At(Index(items[i]) - 1) ELSE Nothing
           e == Sized(items[i], items[i].pushed - 1, items[i].grouped)
<1>1. /\ height' = height - 1 /\ slots' = UpTo(height') /\ means' = [means EXCEPT ![i] = v]
      /\ items' = With(items, i,
                    IF items[i].pushed > 0 THEN e
                    ELSE [top |-> items[i].top - 1, pushed |-> 0, grouped |-> items[i].grouped,
                          managed |-> items[i].managed])
      /\ Takes(items[i].pushed = 0 \/ Cap(items[i]) # height \/ Index(items[i]) # height, "buried ref")
           \subseteq taken'
  BY Zenon DEF RefMove, TakeRef
<1>2. items[i].pushed > 0 /\ Cap(items[i]) = height /\ Index(items[i]) = height
  <2>1. ~(items[i].pushed = 0) /\ Cap(items[i]) = height /\ Index(items[i]) = height
    BY <1>1, Zenon DEF Takes, Safe, Unsafe
  <2> QED BY <2>1, NatHeight, ItemFacts
<1>3. items[i].grouped = 0 /\ height \in Nat /\ height = items[i].top + items[i].pushed
  BY <1>2, NatHeight, ItemFacts DEF Index
<1>4. DOMAIN means = DOMAIN items
  BY DEF ContentOK, Content
<1>5. items' = With(items, i, e)
  BY <1>1, <1>2
<1>6. e.top = items[i].top /\ e.pushed = items[i].pushed - 1 /\ e.grouped = 0
  BY <1>3 DEF Sized
<1> HIDE DEF v, e
<1>7. /\ DOMAIN items' = DOMAIN items /\ items'[i] = e
      /\ \A x \in DOMAIN items \ {i} : items'[x] = items[x]
  BY <1>5 DEF With
<1>8. DOMAIN means' = DOMAIN items' /\ means'[i] = v
      /\ \A x \in DOMAIN items \ {i} : means'[x] = means[x]
  BY <1>1, <1>4, <1>7
<1>9. height' = height - 1 /\ height' <= height /\ height' \in Nat
  <2>1. items[i].top \in Nat /\ items[i].pushed \in Nat
    BY NatHeight, ItemFacts
  <2>2. height' = height - 1
    BY <1>1
  <2> QED BY <1>2, <1>3, <2>1, <2>2
<1>10. /\ slots' \in Seq(Nat) /\ Len(slots') = height'
       /\ \A k \in 1..height' : slots'[k] = slots[k]
  BY <1>1, <1>9, Popped
<1>11. Right(i)
  <2>1. SUFFICES ASSUME ~Empty(e) PROVE slots'[Index(e)] = v
    BY <1>7, <1>8 DEF Right
  <2>2. items[i].pushed > 1 /\ items[i].top \in Nat /\ items[i].pushed \in Nat
    BY <1>6, <2>1, NatHeight, ItemFacts DEF Empty
  <2>3. Index(e) = height - 1 /\ height - 1 \in 1..height' /\ height - 1 \in 1..height
    BY <1>3, <1>6, <1>9, <2>2 DEF Index
  <2>4. v = slots[height - 1]
    BY <1>2, <2>2, <2>3 DEF v, At
  <2> QED BY <1>10, <2>3, <2>4
<1>12. \A x \in DOMAIN items' :
         \/ x \in DOMAIN items /\ items'[x] = items[x] /\ means'[x] = means[x]
         \/ Right(x)
  BY <1>7, <1>8, <1>11
<1> QED BY <1>8, <1>10, <1>12, Fewer

-----------------------------------------------------------------------------
(* The results of a call that takes the place of its function.              *)
LEMMA InPlace ==
  ASSUME FramesInv, ContentOK, RestMeant, NEW k \in Nat, height > 0,
         slots' = UpTo(height - 1) \o Novel(height - 1, k)
  PROVE  /\ slots' \in Seq(Nat) /\ Len(slots') = height - 1 + k /\ height - 1 \in Nat
         /\ \A p \in 1..(height - 1) : slots'[p] = slots[p]
         /\ k > 0 => slots'[height] = First(height - 1, k)
         /\ k = 0 => First(height - 1, k) = Nothing
<1> DEFINE h == height - 1
           s == UpTo(h)
           n == Novel(h, k)
<1>1. slots \in Seq(Nat) /\ Len(slots) = height /\ height \in Nat
  BY NatHeight DEF ContentOK
<1>2. h \in Nat /\ h <= Len(slots) /\ h + 1 = height
  BY <1>1
<1> HIDE DEF h
<1>3. s \in Seq(Nat) /\ Len(s) = h /\ \A p \in 1..h : s[p] = slots[p]
  BY <1>1, <1>2, CutFacts DEF UpTo
<1>4. /\ n \in Seq(Nat) /\ Len(n) = k
      /\ k > 0 => First(h, k) = n[1]
      /\ k = 0 => First(h, k) = Nothing
  BY <1>2, NovelFacts DEF RestMeant, SavedMeant
<1> HIDE DEF s, n
<1>5. /\ s \o n \in Seq(Nat) /\ Len(s \o n) = h + k
      /\ \A p \in 1..h : (s \o n)[p] = s[p]
      /\ k > 0 => (s \o n)[h + 1] = n[1]
  BY <1>3, <1>4, ExtendFacts
<1>6. slots' = s \o n
  BY DEF s, n, h
<1> QED BY <1>2, <1>3, <1>4, <1>5, <1>6 DEF h

LEMMA Replaced ==
  ASSUME FramesInv, ContentOK, RestMeant, NEW k \in Nat, ReturnTemporary(k)
  PROVE  ContentOK'
<1> DEFINE i == call.id
           e == Sized(items[i], items[i].pushed + k - 1, k - 1)
           v == First(height - 1, k)
<1>1. /\ call.how = "rvalue" /\ items[i].pushed > 0 /\ Cap(items[i]) = height
      /\ draining = Idle /\ items' = With(items, i, e) /\ height' = height - 1 + k
      /\ slots' = UpTo(height - 1) \o Novel(height - 1, k)
      /\ means' = [means EXCEPT ![i] = v]
  BY Zenon DEF ReturnTemporary, Results
<1>2. i \in DOMAIN items
  BY <1>1 DEF FramesInv, CallOK, NoCall
<1>3. e.grouped = k - 1 /\ e.pushed = items[i].pushed + k - 1 /\ e.top = items[i].top
  BY DEF Sized
<1> HIDE DEF i, e, v
<1>4. IType /\ height \in Nat
  BY NatHeight
<1>5. items[i].top \in Nat /\ items[i].pushed \in Nat /\ height = items[i].top + items[i].pushed
  BY <1>1, <1>2, <1>4, ItemFacts
<1>6. /\ slots' \in Seq(Nat) /\ Len(slots') = height - 1 + k /\ height - 1 \in Nat
      /\ \A p \in 1..(height - 1) : slots'[p] = slots[p]
      /\ k > 0 => slots'[height] = v
      /\ k = 0 => v = Nothing
  <2>1. height > 0
    BY <1>1, <1>5
  <2> QED BY <1>1, <2>1, InPlace DEF v
<1>7. DOMAIN means = DOMAIN items
  BY DEF ContentOK, Content
<1>8. /\ DOMAIN items' = DOMAIN items /\ DOMAIN means' = DOMAIN items'
      /\ items'[i] = e /\ means'[i] = v
      /\ \A x \in DOMAIN items \ {i} : items'[x] = items[x] /\ means'[x] = means[x]
  BY <1>1, <1>2, <1>7 DEF With
<1>9. Right(i)
  <2>1. CASE k = 0
    BY <1>3, <1>8, <2>1 DEF Right, Empty
  <2>2. CASE k > 0
    <3>1. e.grouped \in Nat /\ e.grouped < e.pushed /\ Index(e) = height
      BY <1>1, <1>3, <1>5, <2>2 DEF Index
    <3> QED BY <1>6, <1>8, <2>2, <3>1 DEF Right
  <2> QED BY <2>1, <2>2
<1>10. ASSUME NEW x \in DOMAIN items' PROVE Stays(x, height - 1) \/ Right(x)
  BY <1>1, <1>2, <1>8, <1>9, Beneath DEF Stays
<1>11. Len(slots') = height'
  BY <1>1, <1>6
<1> QED BY <1>4, <1>6, <1>8, <1>10, <1>11, Untouched

LEMMA Dropped ==
  ASSUME FramesInv, ContentOK, RestMeant, NEW k \in Nat, ReturnMethod(k)
  PROVE  ContentOK'
<1> DEFINE i == call.id
<1>1. /\ call.how = "method" /\ height' = height - 1 + k
      /\ items' = Without(items, i) /\ means' = Without(means, i)
      /\ slots' = UpTo(height - 1) \o Novel(height - 1, k)
  BY Zenon DEF ReturnMethod
<1>2. i \in DOMAIN items /\ items[i].top + 1 = height /\ items[i].pushed = 1 /\ draining = Idle
  BY <1>1 DEF FramesInv, CallOK, NoCall
<1> HIDE DEF i
<1>3. IType /\ height \in Nat
  BY NatHeight
<1>4. Cap(items[i]) = height /\ items[i].pushed > 0 /\ height > 0
  BY <1>2, <1>3, ItemFacts
<1>5. /\ slots' \in Seq(Nat) /\ Len(slots') = height - 1 + k /\ height - 1 \in Nat
      /\ \A p \in 1..(height - 1) : slots'[p] = slots[p]
  BY <1>1, <1>4, InPlace
<1>6. DOMAIN means = DOMAIN items
  BY DEF ContentOK, Content
<1>7. /\ DOMAIN items' = DOMAIN items \ {i} /\ DOMAIN means' = DOMAIN items'
      /\ \A x \in DOMAIN items \ {i} : items'[x] = items[x] /\ means'[x] = means[x]
  BY <1>1, <1>2, <1>6 DEF Without
<1>8. \A x \in DOMAIN items' : Stays(x, height - 1) \/ Right(x)
  BY <1>2, <1>4, <1>7, Beneath DEF Stays
<1>9. Len(slots') = height'
  BY <1>1, <1>5
<1> QED BY <1>3, <1>5, <1>7, <1>8, <1>9, Untouched

(* The variables of a tie.                                                  *)
LEMMA Tied ==
  ASSUME FramesInv, FramesInv', ContentOK, Safe', Trusted',
         NEW i \in DOMAIN items, NEW j, NEW n \in Nat \ {0},
         NEW pos, pos \in [DOMAIN pos -> 1..n], TieTo(i, j, n, pos)
  PROVE  ContentOK'
<1> DEFINE e == items[i]
           Result(p) == IF ~Empty(e) /\ p <= e.grouped + 1
                        THEN At(Index(e) + p - 1) ELSE Nothing
           Variable(x) == [top |-> e.top + pos[x] - 1, pushed |-> 1, grouped |-> 0,
                           managed |-> e.managed]
<1>1. /\ Tie(i, j, n, pos) /\ slots' = UpTo(height')
      /\ means' = [x \in DOMAIN items' |->
                     IF x \in DOMAIN pos THEN Result(pos[x])
                     ELSE IF x = i THEN Nothing ELSE means[x]]
  BY Zenon DEF TieTo
<1>2. /\ items' = [x \in DOMAIN items \cup DOMAIN pos |->
                     CASE x = i -> Sized(e, 0, e.grouped)
                       [] x \in DOMAIN pos -> Variable(x)
                       [] OTHER -> items[x]]
      /\ \A x \in DOMAIN pos : Fresh(x)
  BY <1>1, Zenon DEF Tie
<1>3. e.pushed = e.grouped + 1
  <2>1. Takes(e.pushed # e.grouped + 1, "chained tie") \subseteq taken'
    BY <1>1, Zenon DEF Tie
  <2> QED BY <2>1, Zenon DEF Takes, Trusted, Misleading
<1>4. TieMoves(i, n, pos)
  BY <1>1, NatHeight, TieIsSafe
<1>5. /\ \A x \in DOMAIN pos : items'[x] = Variable(x) /\ x # i /\ x \notin DOMAIN items
      /\ \A x \in DOMAIN items \ {i} : items'[x] = items[x]
      /\ DOMAIN items' = DOMAIN items \cup DOMAIN pos
  BY <1>2 DEF Fresh
<1>6. /\ DOMAIN means' = DOMAIN items' /\ means'[i] = Nothing
      /\ \A x \in DOMAIN pos : means'[x] = Result(pos[x])
      /\ \A x \in DOMAIN items \ {i} : means'[x] = means[x]
  BY <1>1, <1>5
<1>7. e.top \in Nat /\ e.grouped \in Nat \cup {-1} /\ height \in Nat /\ height' \in Nat
  <2>1. (FramesInv => height \in Nat)'
    BY NatHeight, PTL
  <2> QED BY <2>1, NatHeight, ItemFacts
<1>8. height' <= height
  BY <1>3, <1>4, <1>7, NatHeight, ItemFacts DEF TieMoves
<1>9. /\ slots' \in Seq(Nat) /\ Len(slots') = height'
      /\ \A k \in 1..height' : slots'[k] = slots[k]
  BY <1>1, <1>8, Popped
<1>10. ASSUME NEW x \in DOMAIN pos PROVE Right(x)
  <2>1. pos[x] \in Nat /\ 1 <= pos[x] /\ pos[x] <= n
    OBVIOUS
  <2>2. /\ items'[x].top = e.top + pos[x] - 1 /\ items'[x].pushed = 1 /\ items'[x].grouped = 0
        /\ means'[x] = Result(pos[x])
    BY <1>5, <1>6
  <2>3. Index(items'[x]) = e.top + pos[x] /\ Cap(items'[x]) = e.top + pos[x]
    BY <1>7, <2>1, <2>2 DEF Index, Cap
  <2>4. e.top + pos[x] <= height'
    <3>1. Fits'
      BY FramesFit, PTL
    <3> QED BY <1>5, <2>2, <2>3, <3>1 DEF Fits, Cap
  <2>5. e.top + pos[x] \in 1..height' /\ e.top + pos[x] \in 1..height
    BY <1>7, <1>8, <2>1, <2>4
  <2>6. Index(e) + pos[x] - 1 = e.top + pos[x]
    BY <1>3, <1>7, <2>1 DEF Index
  <2>7. ~Empty(e) /\ pos[x] <= e.grouped + 1
    BY <1>3, <1>4, <1>7, <2>1 DEF TieMoves, Empty
  <2>8. means'[x] = At(e.top + pos[x])
    BY <2>2, <2>6, <2>7
  <2>9. At(e.top + pos[x]) = slots[e.top + pos[x]]
    BY <2>5 DEF At
  <2> QED BY <1>9, <2>3, <2>5, <2>8, <2>9 DEF Right
<1>11. Right(i)
  <2>1. items'[i] = Sized(e, 0, e.grouped)
    BY <1>2, <1>5
  <2> QED BY <1>7, <2>1 DEF Right, Empty, Sized
<1> HIDE DEF Result, Variable
<1>12. \A x \in DOMAIN items' :
         \/ x \in DOMAIN items /\ items'[x] = items[x] /\ means'[x] = means[x]
         \/ Right(x)
  BY <1>5, <1>6, <1>10, <1>11
<1> QED BY <1>6, <1>9, <1>12, Fewer

-----------------------------------------------------------------------------
(* The actions.                                                             *)
LEMMA RestStays ==
  ASSUME RestMeant, saved' = saved, ref' = ref, astray' = astray PROVE RestMeant'
BY DEF RestMeant, SavedMeant

LEMMA FrameMeansTheSame ==
  ASSUME ContentOK, UNCHANGED <<height, items, slots, means>> PROVE ContentOK'
BY DEF ContentOK, Content

LEMMA NoveltyFacts ==
  ASSUME FramesInv, RestMeant PROVE Novelty \in Nat
<1>1. Len(saved) \in Nat /\ height + 1 \in Nat
  BY NatHeight DEF RestMeant, SavedMeant
<1> QED BY <1>1, NameFacts DEF Novelty

(* A Value that is used is not empty, unless a liberty is taken.            *)
LEMMA ReadRight ==
  ASSUME FramesInv, ContentOK, Trusted', NEW i \in DOMAIN items, ReadLiberty(i) \subseteq taken'
  PROVE  ~Empty(items[i]) /\ Designates(i) = means[i] /\ ReadAstray(i) = {}
<1>1. ~Empty(items[i])
  BY Zenon DEF ReadLiberty, Takes, Trusted, Misleading
<1>2. Designates(i) = means[i]
  BY <1>1, Designated
<1> QED BY <1>1, <1>2 DEF ReadAstray, Goes

(* What is at the top of the stack is what a Ref is made of.                *)
LEMMA Referred ==
  ASSUME FramesInv, ContentOK, Safe', NEW i \in DOMAIN items, ~Empty(items[i]),
         Takes(Index(items[i]) # height, "buried ref") \subseteq taken'
  PROVE  slots[height] = means[i] /\ means[i] \in Nat
<1>1. Index(items[i]) = height
  BY Zenon DEF Takes, Safe, Unsafe
<1> QED BY <1>1, Designated

LEMMA UsesMean ==
  ASSUME FramesInv, FramesInv', MeantInv, Safe, Safe', Trusted', Uses PROVE MeantInv'
<1>0. ContentOK /\ RestMeant /\ 1 \in Nat
  BY DEF MeantInv
<1>s. ASSUME ContentOK', saved' = saved, ref' = ref, astray' = astray PROVE MeantInv'
  BY <1>0, <1>s, RestStays DEF MeantInv
<1>1. ASSUME NEW i \in Ids, Get(i) PROVE MeantInv'
  <2>1. /\ Make(i, 1, TRUE) /\ slots' = Append(slots, Novelty) /\ means' = With(means, i, Novelty)
        /\ saved' = saved /\ ref' = ref /\ astray' = astray
    BY <1>1, Zenon DEF Get, Alone
  <2> QED BY <1>0, <1>s, <2>1, Made, NoveltyFacts
<1>2. ASSUME NEW i \in Ids, Unref(i) PROVE MeantInv'
  <2>1. /\ Make(i, 1, ref.managed) /\ slots' = Append(slots, ref.held)
        /\ means' = With(means, i, ref.meant) /\ saved' = saved /\ ref' = ref
        /\ astray' = astray \cup Goes(ref.held # ref.meant, "reference")
    BY <1>2, Zenon DEF Unref
  <2>2. ref.held = ref.meant /\ ref.held \in Nat
    BY <1>0 DEF RestMeant
  <2>3. astray' = astray
    BY <2>1, <2>2 DEF Goes
  <2>4. means' = With(means, i, ref.held)
    BY <2>1, <2>2
  <2> QED BY <1>0, <1>s, <2>1, <2>2, <2>3, <2>4, Made
<1>3. ASSUME NEW i \in DOMAIN items, ChainField(i) PROVE MeantInv'
  <2>1. /\ Chain(i) /\ slots' = Append(slots, Novelty) /\ means' = [means EXCEPT ![i] = Novelty]
        /\ saved' = saved /\ ref' = ref /\ astray' = astray \cup ReadAstray(i)
    BY <1>3, Zenon DEF ChainField
  <2>2. ReadLiberty(i) \subseteq taken'
    BY <2>1, Zenon DEF Chain, ReadLiberty
  <2>3. astray' = astray
    BY <1>0, <2>1, <2>2, ReadRight
  <2> QED BY <1>0, <1>s, <2>1, <2>3, Chained, NoveltyFacts
<1>4. ASSUME NEW i \in DOMAIN items, NEW j \in Ids, Field(i, j) PROVE MeantInv'
  <2>1. /\ Make(j, 1, items[i].managed) /\ slots' = Append(slots, Novelty)
        /\ means' = With(means, j, Novelty) /\ saved' = saved /\ ref' = ref
        /\ taken' = taken \cup ReadLiberty(i) /\ astray' = astray \cup ReadAstray(i)
    BY <1>4, Zenon DEF Field
  <2>2. astray' = astray
    BY <1>0, <2>1, ReadRight
  <2> QED BY <1>0, <1>s, <2>1, <2>2, Made, NoveltyFacts
<1>5. ASSUME NEW i \in DOMAIN items, NEW j \in Ids, NEW n \in 1..MaxResults,
             NEW pos \in Positions[n], TieTo(i, j, n, pos)
      PROVE  MeantInv'
  <2>1. n \in Nat \ {0}
    BY ValueAssumption
  <2>2. pos \in UNION {[S -> 1..n] : S \in SUBSET Ids}
    BY DEF Positions
  <2>3. pos \in [DOMAIN pos -> 1..n]
    BY <2>2
  <2>4. saved' = saved /\ ref' = ref /\ astray' = astray
    BY <1>5, Zenon DEF TieTo
  <2> QED BY <1>0, <1>5, <1>s, <2>1, <2>3, <2>4, Tied
<1>6. ASSUME NEW i \in DOMAIN items, RefCopy(i) PROVE MeantInv'
  <2>1. /\ UNCHANGED <<height, items, slots, means>> /\ saved' = saved /\ astray' = astray
        /\ ref'.held = slots[height] /\ ref'.meant = means[i]
        /\ Takes(Index(items[i]) # height, "buried ref") \subseteq taken'
        /\ ReadLiberty(i) \subseteq taken'
    <3>1. ref' = [held |-> slots[height], meant |-> means[i], managed |-> items[i].managed, set |-> TRUE]
      BY <1>6, Zenon DEF RefCopy
    <3>2. ref'.held = slots[height] /\ ref'.meant = means[i]
      BY <3>1
    <3> QED BY <1>6, <3>2, Zenon DEF RefCopy
  <2>2. slots[height] = means[i] /\ means[i] \in Nat
    BY <1>0, <2>1, ReadRight, Referred, Zenon
  <2>3. /\ UNCHANGED <<height, items, slots, means>> /\ saved' = saved /\ astray' = astray
        /\ ref'.held = ref'.meant /\ ref'.held \in Nat
    BY <2>1, <2>2, Zenon
  <2> QED BY <1>0, <2>3, FrameMeansTheSame DEF MeantInv, RestMeant, SavedMeant
<1>7. ASSUME NEW i \in DOMAIN items, RefMove(i) PROVE MeantInv'
  <2>1. /\ saved' = saved /\ astray' = astray
        /\ ref'.held = slots[height] /\ ref'.meant = means[i] /\ ~Empty(items[i])
        /\ Takes(Index(items[i]) # height, "buried ref") \subseteq taken'
    <3>1. ref' = [held |-> slots[height], meant |-> means[i], managed |-> items[i].managed, set |-> TRUE]
      BY <1>7, Zenon DEF RefMove
    <3>2. ref'.held = slots[height] /\ ref'.meant = means[i]
      BY <3>1
    <3>3. saved' = saved /\ astray' = astray
      BY <1>7, Zenon DEF RefMove
    <3>4. Takes(items[i].pushed = 0 \/ Cap(items[i]) # height \/ Index(items[i]) # height, "buried ref")
            \subseteq taken'
      BY <1>7, Zenon DEF RefMove, TakeRef
    <3>5. Takes(Index(items[i]) # height, "buried ref") \subseteq taken'
      BY <3>4, Zenon DEF Takes
    <3>6. ~(items[i].pushed = 0) /\ Cap(items[i]) = height /\ Index(items[i]) = height
      BY <3>4, Zenon DEF Takes, Safe, Unsafe
    <3>7. ~Empty(items[i])
      BY <3>6, NatHeight, ItemFacts DEF Index, Empty
    <3> QED BY <3>2, <3>3, <3>5, <3>7, Zenon
  <2>2. slots[height] = means[i] /\ means[i] \in Nat
    BY <1>0, <2>1, Referred, Zenon
  <2>3. saved' = saved /\ astray' = astray /\ ref'.held = ref'.meant /\ ref'.held \in Nat
    BY <2>1, <2>2, Zenon
  <2>4. ContentOK'
    BY <1>0, <1>7, Moved
  <2> QED BY <1>0, <2>3, <2>4 DEF MeantInv, RestMeant, SavedMeant
<1>8. ASSUME NEW i \in DOMAIN items, Die(i) PROVE MeantInv'
  <2>1. /\ items' = Without(items, i) /\ means' = Without(means, i) /\ height' = height
        /\ slots' = slots /\ saved' = saved /\ ref' = ref /\ astray' = astray
    BY <1>8, Zenon DEF Die, Release
  <2>2. /\ slots' \in Seq(Nat) /\ Len(slots') = height' /\ \A k \in 1..height' : slots'[k] = slots[k]
    BY <1>0, <2>1 DEF ContentOK
  <2> QED BY <1>0, <1>s, <2>1, <2>2, Gone
<1>9. CASE DropRef
  <2>1. /\ UNCHANGED <<height, items, slots, means>> /\ saved' = saved /\ astray' = astray
        /\ ref' = NoRef
    BY <1>9, Zenon DEF DropRef, stackVars
  <2>2. ref'.held = ref'.meant /\ ref'.held \in Nat
    BY <2>1 DEF NoRef, Nothing
  <2> QED BY <1>0, <2>1, <2>2, FrameMeansTheSame DEF MeantInv, RestMeant, SavedMeant
<1>10. CASE Ask
  <2>1. {"asked"} \subseteq taken'
    BY <1>10, Zenon DEF Ask, AskCallable
  <2> QED BY <2>1, Zenon DEF Safe, Unsafe
<1>11. CASE Dying
  <2>1. /\ items' = items /\ means' = means /\ slots' = UpTo(height')
        /\ saved' = saved /\ ref' = ref /\ astray' = astray
        /\ height' = height \/ (draining # Idle /\ height' = draining)
    BY <1>11, Zenon DEF Dying, Drain, Settop
  <2>2. height' <= height
    BY <2>1, NatHeight DEF IType, StackTypeOK
  <2>3. DOMAIN means' = DOMAIN items'
    BY <1>0, <2>1 DEF ContentOK, Content
  <2> QED BY <1>0, <1>s, <2>1, <2>2, <2>3, Popped, Fewer
<1>12. ASSUME NEW i \in DOMAIN items, Read(i) PROVE MeantInv'
  <2>1. /\ UNCHANGED <<height, items, slots, means>> /\ saved' = saved /\ ref' = ref
        /\ taken' = taken \cup ReadLiberty(i) /\ astray' = astray \cup ReadAstray(i)
    BY <1>12, Zenon DEF Read
  <2>2. astray' = astray
    BY <1>0, <2>1, ReadRight
  <2> QED BY <1>0, <1>s, <2>1, <2>2, FrameMeansTheSame
<1> QED BY <1>1, <1>2, <1>3, <1>4, <1>5, <1>6, <1>7, <1>8, <1>9, <1>10, <1>11, <1>12, Zenon DEF Uses

(* An argument that is not chained is what it was got for.                  *)
LEMMA Passed ==
  ASSUME FramesInv, ContentOK, Trusted', NEW arg \in Args, Argument(arg),
         ArgumentLiberty(arg) \subseteq taken'
  PROVE  ~ArgumentAstray(arg)
<1> SUFFICES ASSUME NEW a \in arg PROVE At(StackIndex(items[a])) = means[a]
  BY DEF ArgumentAstray
<1>1. a \in DOMAIN items /\ items[a].pushed > 0
  BY DEF Args, Argument
<1>2. StackIndex(items[a]) = Index(items[a])
  BY Zenon DEF ArgumentLiberty, Takes, Trusted, Misleading
<1>3. ~Empty(items[a])
  BY <1>1, <1>2, NatHeight, ItemFacts DEF StackIndex, Index, Empty
<1> QED BY <1>1, <1>2, <1>3, Designated DEF Designates

LEMMA CallsMean ==
  ASSUME FramesInv, FramesInv', MeantInv, Safe, Safe', Trusted', Calls PROVE MeantInv'
<1>0. ContentOK /\ RestMeant /\ 1 \in Nat /\ astray = {} /\ 0..MaxResults \subseteq Nat
  BY ValueAssumption DEF MeantInv, RestMeant
<1>s. ASSUME ContentOK', saved' = saved, ref' = ref, astray' = astray PROVE MeantInv'
  BY <1>0, <1>s, RestStays DEF MeantInv
<1>g. \A s : Goes(FALSE, s) = {}
  BY DEF Goes
<1>1. ASSUME NEW i \in DOMAIN items, NEW arg \in Args, CallNamed(i, arg) PROVE MeantInv'
  <2>1. /\ UNCHANGED <<height, items, slots, means>> /\ saved' = saved /\ ref' = ref
        /\ ReadLiberty(i) \subseteq taken' /\ Argument(arg) /\ ArgumentLiberty(arg) \subseteq taken'
        /\ astray' = astray \cup Goes(Designates(i) # means[i], "call")
                            \cup Goes(ArgumentAstray(arg), "argument")
    BY <1>1, Zenon DEF CallNamed
  <2>2. ~ArgumentAstray(arg) /\ Designates(i) = means[i]
    BY <1>0, <2>1, Passed, ReadRight
  <2>3. astray' = astray
    BY <2>1, <2>2 DEF Goes
  <2> QED BY <1>0, <1>s, <2>1, <2>3, FrameMeansTheSame
<1>2. ASSUME NEW i \in DOMAIN items, NEW arg \in Args, CallTop(i, arg) PROVE MeantInv'
  <2>1. /\ UNCHANGED <<height, items, slots, means>> /\ saved' = saved /\ ref' = ref
        /\ items[i].pushed > 0 /\ Cap(items[i]) = height
        /\ Argument(arg) /\ ArgumentLiberty(arg) \subseteq taken'
        /\ astray' = astray \cup Goes(At(height) # means[i], "call")
                            \cup Goes(ArgumentAstray(arg), "argument")
    BY <1>2, Zenon DEF CallTop
  <2>2. Index(items[i]) = height
    <3>1. Takes(Index(items[i]) # height, "misled call") \subseteq taken'
      BY <1>2, Zenon DEF CallTop
    <3> QED BY <3>1, Zenon DEF Takes, Trusted, Misleading
  <2>e. ~Empty(items[i])
    BY <2>1, <2>2, NatHeight, ItemFacts DEF Index, Empty
  <2>3. ~ArgumentAstray(arg) /\ At(height) = means[i]
    BY <1>0, <2>1, <2>2, <2>e, Passed, Designated DEF Designates
  <2>4. astray' = astray
    BY <2>1, <2>3 DEF Goes
  <2> QED BY <1>0, <1>s, <2>1, <2>4, FrameMeansTheSame
<1>3. ASSUME NEW i \in DOMAIN items, NEW j \in Ids, NEW arg \in Args, CallBuried(i, j, arg)
      PROVE  MeantInv'
  <2> DEFINE v == slots[StackIndex(items[i])]
  <2>1. /\ Rebase(i, j) /\ slots' = Append(slots, v) /\ saved' = saved /\ ref' = ref
        /\ means' = [means EXCEPT ![i] = slots'[height']]
        /\ Argument(arg) /\ ArgumentLiberty(arg) \subseteq taken'
        /\ astray' = astray \cup Goes(v # means[i], "call")
                            \cup Goes(ArgumentAstray(arg), "argument")
    BY <1>3, Zenon DEF CallBuried
  <2>2. StackIndex(items[i]) = Index(items[i])
    <3>1. Takes(StackIndex(items[i]) # Index(items[i]), "misled call") \subseteq taken'
      BY <1>3, Zenon DEF CallBuried
    <3> QED BY <3>1, Zenon DEF Takes, Trusted, Misleading
  <2>e. ~Empty(items[i])
    <3>1. items[i].pushed > 0
      BY <2>1, Zenon DEF Rebase
    <3> QED BY <2>2, <3>1, NatHeight, ItemFacts DEF StackIndex, Index, Empty
  <2>3. ~ArgumentAstray(arg) /\ v = means[i] /\ v \in Nat
    BY <1>0, <2>1, <2>2, <2>e, Passed, Designated
  <2> HIDE DEF v
  <2>4. astray' = astray
    BY <2>1, <2>3 DEF Goes
  <2>5. slots'[height'] = v
    <3>1. height' = height + 1
      BY <2>1, Zenon DEF Rebase
    <3>2. slots \in Seq(Nat) /\ Len(slots) = height
      BY <1>0 DEF ContentOK
    <3> QED BY <2>1, <2>3, <3>1, <3>2, PushFacts
  <2>6. means' = [means EXCEPT ![i] = v]
    BY <2>1, <2>5
  <2> QED BY <1>0, <1>s, <2>1, <2>3, <2>4, <2>6, Rebased
<1>4. ASSUME NEW i \in Ids, NEW arg \in Args, CallMethod(i, arg) PROVE MeantInv'
  <2>1. /\ Make(i, 1, TRUE) /\ slots' = Append(slots, Novelty) /\ means' = With(means, i, Novelty)
        /\ saved' = saved /\ ref' = ref
        /\ Argument(arg) /\ ArgumentLiberty(arg) \subseteq taken'
        /\ astray' = astray \cup Goes(ArgumentAstray(arg), "argument")
    BY <1>4, Zenon DEF CallMethod
  <2>2. ~ArgumentAstray(arg)
    BY <1>0, <2>1, Passed
  <2>3. astray' = astray
    BY <2>1, <2>2 DEF Goes
  <2> QED BY <1>0, <1>s, <2>1, <2>3, Made, NoveltyFacts
<1>5. ASSUME NEW i \in Ids, CallOuter(i) PROVE FALSE
  <2>1. {"outer value"} \subseteq taken'
    BY <1>5, Zenon DEF CallOuter
  <2> QED BY <2>1, Zenon DEF Trusted, Misleading
<1>6. ASSUME NEW j \in Ids, NEW k \in 0..MaxResults, ReturnNamed(j, k) PROVE MeantInv'
  <2>1. /\ Make(j, k, call.managed) /\ slots' = slots \o Novel(height, k)
        /\ means' = With(means, j, First(height, k))
        /\ saved' = saved /\ ref' = ref /\ astray' = astray
    BY <1>6, Zenon DEF ReturnNamed
  <2>2. k \in Nat
    BY <1>0
  <2> QED BY <1>0, <1>s, <2>1, <2>2, Returned
<1>7. ASSUME NEW k \in 0..MaxResults, ReturnTemporary(k) PROVE MeantInv'
  <2>1. saved' = saved /\ ref' = ref /\ astray' = astray
    BY <1>7, Zenon DEF ReturnTemporary
  <2> QED BY <1>0, <1>7, <1>s, <2>1, Replaced
<1>8. ASSUME NEW k \in 0..MaxResults, ReturnMethod(k) PROVE MeantInv'
  <2>1. saved' = saved /\ ref' = ref /\ astray' = astray
    BY <1>8, Zenon DEF ReturnMethod
  <2> QED BY <1>0, <1>8, <1>s, <2>1, Dropped
<1>9. CASE FailNamed
  BY <1>0, <1>9, <1>s, FrameMeansTheSame DEF FailNamed, stackVars
<1>10. CASE FailTemporary
  <2>1. /\ call.how = "rvalue" /\ items' = Without(items, call.id)
        /\ means' = Without(means, call.id) /\ slots' = UpTo(height - 1) /\ height' = height - 1
        /\ saved' = saved /\ ref' = ref /\ astray' = astray
    BY <1>10, Zenon DEF FailTemporary, Fails
  <2>2. call.id \in DOMAIN items
    BY <2>1 DEF FramesInv, CallOK, NoCall
  <2>3. height' <= height /\ slots' = UpTo(height')
    BY <2>1, NatHeight
  <2>4. /\ slots' \in Seq(Nat) /\ Len(slots') = height' /\ \A k \in 1..height' : slots'[k] = slots[k]
    BY <1>0, <2>3, Popped
  <2> QED BY <1>0, <1>s, <2>1, <2>2, <2>4, Gone
<1> QED BY <1>1, <1>2, <1>3, <1>4, <1>5, <1>6, <1>7, <1>8, <1>9, <1>10, Zenon DEF Calls

(* A callback starts with its parameter, in the second slot of its stack,   *)
(* and the frame below is found as it was left.                             *)
LEMMA CallbacksMean ==
  ASSUME FramesInv, MeantInv, Safe', Callbacks PROVE MeantInv'
<1>0. ContentOK /\ RestMeant
  BY DEF MeantInv
<1>1. PICK T : saved \in Seq(T) /\ \A f \in T : FrameMeant(f)
  BY <1>0 DEF RestMeant, SavedMeant
<1>2. ASSUME NEW i \in Ids, Enter(i) PROVE MeantInv'
  <2> DEFINE frame == [slots |-> slots, height |-> height, items |-> items,
                       means |-> means, call |-> call]
             e == [top |-> 1, pushed |-> 1, grouped |-> 0, managed |-> FALSE]
             v == Name(Len(saved'), 2)
  <2>1. /\ saved' = Append(saved, frame) /\ slots' = <<Nothing, v>> /\ height' = 2
        /\ items' = With(<<>>, i, e) /\ means' = With(<<>>, i, slots'[2])
        /\ ref' = ref /\ astray' = astray
    BY <1>2, Zenon DEF Enter
  <2>2. FrameMeant(frame)
    BY <1>0 DEF FrameMeant, ContentOK
  <2>3. e.grouped = 0 /\ e.pushed = 1 /\ Index(e) = 2
    BY DEF Index
  <2> HIDE DEF frame, e
  <2>4. Append(saved, frame) \in Seq(T \cup {frame}) /\ Len(saved') \in Nat
    BY <1>1, <2>1
  <2>5. v \in Nat
    BY <2>4, NameFacts
  <2> HIDE DEF v
  <2>6. SavedMeant'
    BY <1>1, <2>1, <2>2, <2>4 DEF SavedMeant
  <2>7. slots' \in Seq(Nat) /\ Len(slots') = height' /\ slots'[2] = v
    BY <2>1, <2>5 DEF Nothing
  <2>8. DOMAIN items' = {i} /\ items'[i] = e /\ DOMAIN means' = {i} /\ means'[i] = v
    <3>1. DOMAIN <<>> = {}
      OBVIOUS
    <3>2. items' = [x \in {i} |-> e] /\ means' = [x \in {i} |-> v]
      BY <2>1, <2>7, <3>1, Zenon DEF With
    <3> QED BY <3>2
  <2>9. ContentOK'
    BY <2>3, <2>7, <2>8 DEF ContentOK, Content
  <2> QED BY <1>0, <2>1, <2>6, <2>9 DEF MeantInv, RestMeant
<1>3. CASE Leave \/ Raise
  <2> DEFINE below == saved[Len(saved)]
  <2>1. /\ saved # <<>> /\ saved' = SubSeq(saved, 1, Len(saved) - 1)
        /\ slots' = below.slots /\ height' = below.height
        /\ items' = below.items /\ means' = below.means /\ ref' = ref /\ astray' = astray
    BY <1>3, Zenon DEF Leave, Raise, Resume
  <2>2. below \in T /\ saved' \in Seq(T)
    BY <1>1, <2>1
  <2>3. FrameMeant(below)
    BY <1>1, <2>2
  <2>4. SavedMeant'
    BY <1>1, <2>2 DEF SavedMeant
  <2> HIDE DEF below
  <2>5. ContentOK'
    BY <2>1, <2>3 DEF ContentOK, FrameMeant
  <2> QED BY <1>0, <2>1, <2>4, <2>5 DEF MeantInv, RestMeant
<1>4. ASSUME NEW i \in DOMAIN items, LeaveWith(i) PROVE FALSE
  <2>1. {"shared queue"} \subseteq taken'
    BY <1>4, Zenon DEF LeaveWith
  <2> QED BY <2>1, Zenon DEF Safe, Unsafe
<1> QED BY <1>2, <1>3, <1>4, Zenon DEF Callbacks

-----------------------------------------------------------------------------
LEMMA InitMeans == Init => MInv
<1> SUFFICES ASSUME Init PROVE MeantInv
  BY DEF MInv
<1>1. /\ slots = [k \in 1..Base |-> Nothing] /\ height = Base /\ items = <<>> /\ means = <<>>
      /\ saved = <<>> /\ ref = NoRef /\ astray = {}
  BY DEF Init, StackInit
<1>2. slots \in Seq(Nat) /\ Len(slots) = Base
  <2>1. slots \in [1..Base -> Nat]
    BY <1>1 DEF Nothing
  <2> QED BY <1>1, <2>1, StackAssumption
<1>3. ContentOK
  <2>1. DOMAIN <<>> = {}
    OBVIOUS
  <2>2. DOMAIN items = {} /\ DOMAIN means = {}
    BY <1>1, <2>1, Zenon
  <2> QED BY <1>1, <1>2, <2>2 DEF ContentOK, Content
<1>4. SavedMeant
  <2>1. saved \in Seq({})
    BY <1>1
  <2> QED BY <2>1 DEF SavedMeant
<1>5. ref.held = ref.meant /\ ref.held \in Nat
  BY <1>1 DEF NoRef, Nothing
<1> QED BY <1>1, <1>3, <1>4, <1>5 DEF MeantInv, RestMeant

LEMMA NextMeans == LInv /\ LInv' /\ MInv /\ [Next]_vars => MInv'
<1> SUFFICES ASSUME LInv, LInv', MInv, [Next]_vars, Trusted' PROVE MeantInv'
  BY DEF MInv
<1>1. taken \subseteq taken'
  BY TakenStays
<1>2. Trusted /\ Safe /\ Safe'
  BY <1>1 DEF Trusted, Safe
<1>3. FramesInv /\ FramesInv' /\ MeantInv
  BY <1>2 DEF LInv, MInv
<1>4. CASE UNCHANGED vars
  <2>1. /\ UNCHANGED <<height, items, slots, means>>
        /\ saved' = saved /\ ref' = ref /\ astray' = astray
    BY <1>4 DEF vars, stackVars
  <2>2. ContentOK /\ RestMeant
    BY <1>3 DEF MeantInv
  <2>3. ContentOK' /\ RestMeant'
    BY <2>1, <2>2, FrameMeansTheSame, RestStays
  <2> QED BY <2>3 DEF MeantInv
<1> QED BY <1>2, <1>3, <1>4, UsesMean, CallsMean, CallbacksMean DEF Next

LEMMA MeaningHolds == Spec => [](LInv /\ MInv)
<1>1. Init => LInv /\ MInv
  BY InitFrames, InitMeans
<1>2. LInv /\ MInv /\ [Next]_vars => (LInv /\ MInv)'
  BY NextFrames, NextMeans
<1> QED BY <1>1, <1>2, PTL DEF Spec

(* A Value that is not empty designates what its user got it for, through   *)
(* calls, the callbacks inside of them and the deaths of other Values, as   *)
(* long as nobody takes a liberty that is unsafe or misleading.             *)
THEOREM ValuesDesignate == Spec => []ValuesKeep
<1>1. LInv /\ MInv => ValuesKeep
  <2> SUFFICES ASSUME LInv, MInv, Trusted, NEW i \in DOMAIN items, ~Empty(items[i])
               PROVE  Designates(i) = means[i]
    BY DEF ValuesKeep, Trusted
  <2>1. FramesInv /\ ContentOK
    BY DEF Trusted, Safe, LInv, MInv, MeantInv
  <2> QED BY <2>1, Designated
<1> QED BY <1>1, MeaningHolds, PTL

(* Then a program reads, calls, passes and refers to the values that it     *)
(* means: the use of an empty Value is a misleading liberty.                *)
THEOREM MeantIsUsed == Spec => []NothingAstray
<1>1. LInv /\ MInv => NothingAstray
  BY DEF MInv, MeantInv, RestMeant, NothingAstray, Trusted
<1> QED BY <1>1, MeaningHolds, PTL

-----------------------------------------------------------------------------
(***************************************************************************)
(* Types, whatever liberties are taken: every frame has the slots it says  *)
(* it has and knows its items, and a name is in use once in all frames and *)
(* the queue, so that a frame that goes on finds its items its own.        *)
(***************************************************************************)
Liberties == Unsafe \cup Untidy \cup Misleading

MeansOK(its, m) == DOMAIN m = DOMAIN its /\ \A i \in DOMAIN m : m[i] \in Nat

FrameTyped(f) ==
  /\ f.height \in 0..MaxHeight
  /\ DOMAIN f.items \subseteq Ids /\ \A i \in DOMAIN f.items : f.items[i] \in Item
  /\ CallOK(f.call, f.items, f.height) /\ f.call # NoCall
  /\ f.slots \in Seq(Nat) /\ Len(f.slots) = f.height
  /\ MeansOK(f.items, f.means)

SavedTyped == \E T : saved \in Seq(T) /\ \A f \in T : FrameTyped(f)

NamesOnce ==
  /\ \A k \in 1..Len(saved) : DOMAIN saved[k].items \cap All = {}
  /\ \A k, m \in 1..Len(saved) : k # m => DOMAIN saved[k].items \cap DOMAIN saved[m].items = {}

TopTyped ==
  /\ IType
  /\ slots \in Seq(Nat) /\ Len(slots) = height
  /\ MeansOK(items, means)
  /\ CallOK(call, items, height)
  /\ call # NoCall => draining = Idle

RefTyped == ref.managed \in BOOLEAN /\ ref.held \in Nat /\ ref.meant \in Nat

WellTyped == TopTyped /\ RefTyped /\ SavedTyped /\ Len(saved) <= MaxDepth /\ NamesOnce

TInv ==
  /\ WellTyped
  /\ taken \subseteq Liberties /\ astray \subseteq {"read", "call", "argument", "reference"}

LEMMA TypeFollows == TInv => TypeOK
<1> SUFFICES ASSUME TInv PROVE TypeOK
  OBVIOUS
<1>1. PICK T : saved \in Seq(T) /\ \A f \in T : FrameTyped(f)
  BY DEF TInv, WellTyped, SavedTyped
<1>2. \A k \in 1..Len(saved) :
        /\ Len(saved[k].slots) = saved[k].height
        /\ saved[k].call # NoCall
  BY <1>1 DEF FrameTyped
<1>3. call.how \in {"rvalue", "method"} => call.id \in DOMAIN items
  BY DEF TInv, WellTyped, TopTyped, CallOK, NoCall
<1> QED BY <1>2, <1>3
        DEF TInv, WellTyped, TopTyped, RefTyped, IType, MeansOK, NamesOnce, All, TypeOK, Liberties

LEMMA KnownLiberties == taken \subseteq Liberties /\ [Next]_vars => taken' \subseteq Liberties
<1> SUFFICES ASSUME taken \subseteq Liberties, [Next]_vars PROVE taken' \subseteq Liberties
  OBVIOUS
<1>1. /\ \A c : \A l \in Liberties : Takes(c, l) \subseteq Liberties
      /\ \A arg : ArgumentLiberty(arg) \subseteq Liberties
      /\ \A i : ReadLiberty(i) \subseteq Liberties
  BY DEF Takes, ArgumentLiberty, ReadLiberty, Liberties, Misleading
<1>2. {"buried chain", "buried tie", "wide tie", "buried ref", "asked", "shared queue", "zero",
       "failed", "chained tie", "foreign ref", "chained argument", "misled call",
       "outer value", "empty value"} \subseteq Liberties
  BY DEF Liberties, Unsafe, Untidy, Misleading
<1> HIDE DEF Liberties
<1>3. ASSUME NEW a, NEW b, NEW c, taken' = taken \cup a \cup b \cup c,
             a \subseteq Liberties, b \subseteq Liberties, c \subseteq Liberties
      PROVE  taken' \subseteq Liberties
  BY <1>3
<1>4. ASSUME NEW i, Chain(i) \/ Fails(i) \/ TakeRef(i) \/ Release(i)
      PROVE  taken' \subseteq Liberties
  <2>1. CASE Chain(i)
    <3>1. \E a, b : taken' = taken \cup Takes(a, "buried chain") \cup Takes(b, "empty value")
      BY <2>1, Zenon DEF Chain
    <3> QED BY <1>1, <1>2, <3>1
  <2>2. CASE Fails(i)
    BY <1>1, <1>2, <2>2 DEF Fails
  <2>3. CASE TakeRef(i)
    BY <1>1, <1>2, <2>3 DEF TakeRef
  <2>4. CASE Release(i)
    BY <1>1, <1>2, <2>4 DEF Release
  <2> QED BY <1>4, <2>1, <2>2, <2>3, <2>4
<1>5. ASSUME NEW i, NEW j, NEW n, NEW pos, Tie(i, j, n, pos) PROVE taken' \subseteq Liberties
  <2>1. PICK a, b, c : taken' = taken \cup Takes(a, "buried tie") \cup Takes(b, "wide tie")
                                      \cup Takes(c, "chained tie")
    BY <1>5, Zenon DEF Tie
  <2> QED BY <1>1, <1>2, <1>3, <2>1
<1>6. ASSUME AskCallable \/ Drain \/ Settop PROVE taken' \subseteq Liberties
  <2>1. \/ taken' = taken \cup {"asked"} \/ taken' = taken
        \/ \E c : taken' = taken \cup Takes(c, "zero")
    BY <1>6, Zenon DEF AskCallable, Drain, Settop
  <2>2. "asked" \in Liberties /\ "zero" \in Liberties
    BY <1>2
  <2> QED BY <1>1, <2>1, <2>2
<1>7. ASSUME NEW i, NEW k, Results(i, k) PROVE taken' \subseteq Liberties
  <2>1. \E c : taken' = taken \cup Takes(c, "zero")
    BY <1>7, Zenon DEF Results
  <2> QED BY <1>1, <1>2, <2>1
<1>8. CASE Uses
  <2>1. ASSUME NEW i, Get(i) \/ Unref(i) \/ Read(i) \/ ChainField(i) \/ \E j : Field(i, j)
        PROVE  taken' \subseteq Liberties
    <3>1. \/ taken' = taken \/ taken' = taken \cup ReadLiberty(i) \/ Chain(i)
          \/ \E a : taken' = taken \cup Takes(a, "foreign ref")
      BY <2>1, Zenon DEF Get, Unref, Read, ChainField, Field, Alone
    <3> QED BY <1>1, <1>2, <1>4, <3>1
  <2>2. ASSUME NEW i, RefCopy(i) \/ RefMove(i) \/ Die(i) PROVE taken' \subseteq Liberties
    <3>1. \/ \E a : taken' = taken \cup Takes(a, "buried ref") \cup ReadLiberty(i)
          \/ TakeRef(i) \/ Release(i)
      BY <2>2, Zenon DEF RefCopy, RefMove, Die
    <3> QED BY <1>1, <1>2, <1>4, <3>1
  <2>3. ASSUME NEW i, NEW j, NEW n, NEW pos, TieTo(i, j, n, pos) PROVE taken' \subseteq Liberties
    BY <1>5, <2>3, Zenon DEF TieTo
  <2>4. CASE DropRef \/ Ask \/ Dying
    BY <1>6, <2>4, Zenon DEF DropRef, Ask, Dying, stackVars
  <2> QED BY <1>8, <2>1, <2>2, <2>3, <2>4, Zenon DEF Uses
<1>9. CASE Calls
  <2>1. ASSUME NEW i, NEW j, NEW arg,
               \/ CallNamed(i, arg) \/ CallTop(i, arg) \/ CallBuried(i, j, arg)
               \/ CallMethod(i, arg) \/ CallOuter(i)
        PROVE  taken' \subseteq Liberties
    <3>1. \/ \E c : taken' = taken \cup {"outer value"} \cup Takes(c, "empty value")
          \/ \E c : taken' = taken \cup ArgumentLiberty(arg) \cup Takes(c, "misled call")
          \/ taken' = taken \cup ArgumentLiberty(arg) \cup ReadLiberty(i)
          \/ taken' = taken \cup ArgumentLiberty(arg)
      BY <2>1, Zenon DEF CallNamed, CallTop, CallBuried, CallMethod, CallOuter
    <3> QED BY <1>1, <1>2, <3>1
  <2>2. ASSUME NEW j, NEW k, ReturnNamed(j, k) \/ ReturnTemporary(k) \/ ReturnMethod(k)
        PROVE  taken' \subseteq Liberties
    BY <1>7, <2>2, Zenon DEF ReturnNamed, ReturnTemporary, ReturnMethod
  <2>3. CASE FailNamed \/ FailTemporary
    BY <1>4, <2>3, Zenon DEF FailNamed, FailTemporary, stackVars
  <2> QED BY <1>9, <2>1, <2>2, <2>3, Zenon DEF Calls
<1>10. CASE Callbacks
  BY <1>1, <1>2, <1>10 DEF Callbacks, Enter, Leave, Raise, LeaveWith
<1>11. CASE UNCHANGED vars
  BY <1>11 DEF vars, stackVars
<1> QED BY <1>8, <1>9, <1>10, <1>11 DEF Next

LEMMA KnownMistakes ==
  LET M == {"read", "call", "argument", "reference"}
  IN  astray \subseteq M /\ [Next]_vars => astray' \subseteq M
<1> DEFINE M == {"read", "call", "argument", "reference"}
<1> SUFFICES ASSUME astray \subseteq M, [Next]_vars PROVE astray' \subseteq M
  OBVIOUS
<1>1. \A w : Goes(w, "call") \subseteq M /\ Goes(w, "argument") \subseteq M
             /\ Goes(w, "reference") \subseteq M /\ Goes(w, "read") \subseteq M
  BY DEF Goes
<1> HIDE DEF M
<1>2. CASE Uses
  BY <1>1, <1>2
     DEF Uses, Get, Unref, Read, ReadAstray, ChainField, Field, TieTo, RefCopy, RefMove, Die,
         DropRef, Ask, Dying, Alone
<1>3. CASE Calls
  <2>1. ASSUME NEW i, NEW j, NEW arg,
               \/ CallNamed(i, arg) \/ CallTop(i, arg) \/ CallBuried(i, j, arg)
               \/ CallMethod(i, arg) \/ CallOuter(i)
        PROVE  astray' \subseteq M
    BY <1>1, <2>1 DEF CallNamed, CallTop, CallBuried, CallMethod, CallOuter
  <2>2. ASSUME NEW j, NEW k, ReturnNamed(j, k) \/ ReturnTemporary(k) \/ ReturnMethod(k)
        PROVE  astray' \subseteq M
    BY <2>2, Zenon DEF ReturnNamed, ReturnTemporary, ReturnMethod
  <2> QED BY <1>3, <2>1, <2>2, Zenon DEF Calls, FailNamed, FailTemporary
<1>4. CASE Callbacks
  BY <1>1, <1>4 DEF Callbacks, Enter, Resume, Leave, Raise, LeaveWith
<1>5. CASE UNCHANGED vars
  BY <1>5 DEF vars
<1> QED BY <1>2, <1>3, <1>4, <1>5 DEF Next
(* What a step does to the names, to the slots and to what Values mean.     *)
NewName(x) == \A k \in 1..Len(saved) : x \notin DOMAIN saved[k].items

LEMMA TypedStep ==
  ASSUME WellTyped, StackStep, saved' = saved, RefTyped',
         slots' \in Seq(Nat), Len(slots') = height', MeansOK(items', means'),
         CallOK(call', items', height'), call' # NoCall => draining' = Idle,
         \A x \in All' : x \in All \/ NewName(x)
  PROVE  WellTyped'
<1>1. TopTyped'
  BY StepType DEF WellTyped, TopTyped
<1>2. SavedTyped' /\ Len(saved') <= MaxDepth
  BY DEF WellTyped, SavedTyped
<1>3. NamesOnce'
  BY DEF WellTyped, NamesOnce, NewName
<1> QED BY <1>1, <1>2, <1>3 DEF WellTyped

LEMMA TopFacts ==
  ASSUME WellTyped
  PROVE  /\ height \in Nat /\ slots \in Seq(Nat) /\ Len(slots) = height
         /\ DOMAIN means = DOMAIN items /\ \A x \in DOMAIN means : means[x] \in Nat
         /\ IType /\ Len(saved) \in Nat /\ Novelty \in Nat
<1>1. height \in Nat /\ Len(saved) \in Nat
  BY StackAssumption DEF WellTyped, TopTyped, SavedTyped, IType, StackTypeOK
<1>2. height + 1 \in Nat
  BY <1>1
<1>3. Novelty \in Nat
  BY <1>1, <1>2, NameFacts DEF Novelty
<1> QED BY <1>1, <1>3 DEF WellTyped, TopTyped, MeansOK

LEMMA SlotIsNat ==
  ASSUME WellTyped, NEW k PROVE At(k) \in Nat
BY TopFacts DEF At, Nothing

(* A slot is pushed, for an item that is new or grows.                      *)
LEMMA Pushed ==
  ASSUME WellTyped, NEW v \in Nat, slots' = Append(slots, v), height' = height + 1,
         NEW i, NEW e, NEW w \in Nat, items' = With(items, i, e),
         means' = With(means, i, w) \/ (i \in DOMAIN means /\ means' = [means EXCEPT ![i] = w])
  PROVE  slots' \in Seq(Nat) /\ Len(slots') = height' /\ MeansOK(items', means')
<1>1. slots' \in Seq(Nat) /\ Len(slots') = height'
  BY TopFacts, PushFacts
<1>2. DOMAIN items' = DOMAIN items \cup {i}
  BY DEF With
<1>3. DOMAIN means' = DOMAIN means \cup {i} /\ \A x \in DOMAIN means' : means'[x] \in Nat
  BY TopFacts DEF With
<1> QED BY <1>1, <1>2, <1>3, TopFacts DEF MeansOK

LEMMA Cut ==
  ASSUME WellTyped, NEW h \in Nat, h <= height
  PROVE  UpTo(h) \in Seq(Nat) /\ Len(UpTo(h)) = h
BY TopFacts, CutFacts DEF UpTo

(* Results that come upon what is left of the stack.                        *)
LEMMA ResultsPushed ==
  ASSUME WellTyped, NEW h \in Nat, NEW k \in Nat, NEW s \in Seq(Nat), Len(s) = h
  PROVE  /\ s \o Novel(h, k) \in Seq(Nat) /\ Len(s \o Novel(h, k)) = h + k
         /\ First(h, k) \in Nat
<1>1. /\ Novel(h, k) \in Seq(Nat) /\ Len(Novel(h, k)) = k
      /\ k > 0 => First(h, k) = Novel(h, k)[1]
      /\ k = 0 => First(h, k) = Nothing
  BY TopFacts, NovelFacts
<1>2. First(h, k) \in Nat
  <2> DEFINE n == Novel(h, k)
  <2> HIDE DEF n
  <2>1. n \in Seq(Nat) /\ Len(n) = k => (k > 0 => n[1] \in Nat)
    OBVIOUS
  <2> QED BY <1>1, <2>1 DEF n, Nothing
<1> QED BY <1>1, <1>2, ExtendFacts

(* A Value that is gone.                                                    *)
LEMMA Unmeant ==
  ASSUME WellTyped, NEW i, items' = Without(items, i), means' = Without(means, i)
  PROVE  MeansOK(items', means')
<1>1. DOMAIN items' = DOMAIN items \ {i} /\ DOMAIN means' = DOMAIN means \ {i}
      /\ \A x \in DOMAIN means' : means'[x] = means[x]
  BY DEF Without
<1> QED BY <1>1, TopFacts DEF MeansOK

LEMMA UnusedIsNew == ASSUME NEW x, Unused(x) PROVE NewName(x)
BY DEF Unused, NewName

LEMMA TypedStands ==
  ASSUME WellTyped, UNCHANGED <<height, items, queue, draining, slots, means, saved, ref>>,
         CallOK(call', items', height'), call' # NoCall => draining' = Idle
  PROVE  WellTyped'
<1>1. StackStep /\ All' = All
  BY FrameStands DEF All
<1>2. RefTyped' /\ slots' \in Seq(Nat) /\ Len(slots') = height'
  BY TopFacts DEF WellTyped, RefTyped
<1>3. MeansOK(items', means')
  BY TopFacts DEF MeansOK
<1> QED BY <1>1, <1>2, <1>3, TypedStep
(* What the operations of a frame do to its names.                          *)
LEMMA NamesOfMake ==
  ASSUME NEW i \in Ids, NEW k \in Nat, NEW m \in BOOLEAN, Make(i, k, m)
  PROVE  /\ StackStep /\ height' = height + k /\ draining' = Idle
         /\ \E e : items' = With(items, i, e)
         /\ \A x \in All' : x \in All \/ x = i
<1>1. StackStep
  BY Zenon DEF StackStep
<1>2. /\ height' = height + k /\ draining' = draining /\ draining = Idle /\ queue' = queue
      /\ \E e : items' = With(items, i, e)
  BY Zenon DEF Make
<1> QED BY <1>1, <1>2 DEF With, All

LEMMA NamesOfResize ==
  ASSUME NEW i \in DOMAIN items, NEW e, items' = With(items, i, e), queue' = queue
  PROVE  All' = All
BY DEF With, All

LEMMA NamesOfDeath ==
  ASSUME NEW i \in DOMAIN items, items' = Without(items, i),
         queue' = queue \/ \E e : queue' = With(queue, i, e)
  PROVE  \A x \in All' : x \in All
BY DEF With, Without, All

(* Variables get names of their own, and so does what is buried.            *)
LEMMA TieTyped ==
  ASSUME WellTyped, NEW i \in DOMAIN items, NEW j \in Ids, NEW n \in 1..MaxResults,
         NEW pos \in Positions[n], TieTo(i, j, n, pos)
  PROVE  WellTyped'
<1> DEFINE e == items[i]
           required == IF n < e.pushed THEN n ELSE e.pushed
           Result(p) == IF ~Empty(e) /\ p <= e.grouped + 1
                        THEN At(Index(e) + p - 1) ELSE Nothing
<1>1. /\ Tie(i, j, n, pos) /\ slots' = UpTo(height')
      /\ means' = [x \in DOMAIN items' |->
                     IF x \in DOMAIN pos THEN Result(pos[x])
                     ELSE IF x = i THEN Nothing ELSE means[x]]
      /\ \A x \in DOMAIN pos : Unused(x)
      /\ j = i \/ Unused(j)
      /\ call' = call /\ call = NoCall /\ saved' = saved /\ ref' = ref
  BY Zenon DEF TieTo, Running
<1>2. /\ DOMAIN items' = DOMAIN items \cup DOMAIN pos
      /\ height' = height \/ (height' = e.top + required /\ Cap(e) = height)
      /\ queue' = queue \/ \E l : queue' = With(queue, j, l)
  <2>1. items' = [x \in DOMAIN items \cup DOMAIN pos |->
                    CASE x = i -> Sized(e, 0, e.grouped)
                      [] x \in DOMAIN pos -> [top |-> e.top + pos[x] - 1, pushed |-> 1,
                                              grouped |-> 0, managed |-> e.managed]
                      [] OTHER -> items[x]]
    BY <1>1, Zenon DEF Tie
  <2>2. height' = IF required < e.grouped + 1 /\ ~(required < e.grouped + 1 /\ Cap(e) # height)
                  THEN e.top + required ELSE height
    BY <1>1, Zenon DEF Tie
  <2>3. queue' = queue \/ \E l : queue' = With(queue, j, l)
    BY <1>1, Zenon DEF Tie
  <2> QED BY <2>1, <2>2, <2>3
<1>3. height' \in Nat /\ height' <= height
  BY <1>2, TopFacts, ItemFacts, ValueAssumption
<1>4. /\ slots' \in Seq(Nat) /\ Len(slots') = height'
  BY <1>1, <1>3, Cut
<1>5. MeansOK(items', means')
  <2>1. \A p : Result(p) \in Nat
    BY SlotIsNat DEF Nothing
  <2> HIDE DEF Result
  <2>2. DOMAIN means' = DOMAIN items'
    BY <1>1
  <2>3. ASSUME NEW x \in DOMAIN means' PROVE means'[x] \in Nat
    BY <1>1, <1>2, <2>1, <2>2, TopFacts DEF Nothing
  <2> QED BY <2>2, <2>3 DEF MeansOK
<1>6. \A x \in All' : x \in All \/ NewName(x)
  <2>1. ASSUME NEW x \in DOMAIN items' PROVE x \in All \/ NewName(x)
    BY <1>1, <1>2, UnusedIsNew DEF All
  <2>2. ASSUME NEW x \in DOMAIN queue' PROVE x \in All \/ NewName(x)
    BY <1>1, <1>2, UnusedIsNew DEF All, With
  <2> QED BY <2>1, <2>2 DEF All
<1>7. StackStep
  BY TieIsStep
<1>8. RefTyped' /\ CallOK(call', items', height') /\ (call' # NoCall => draining' = Idle)
  BY <1>1 DEF WellTyped, RefTyped, CallOK
<1> QED BY <1>1, <1>4, <1>5, <1>6, <1>7, <1>8, TypedStep

LEMMA UsesTyped == ASSUME WellTyped, Uses PROVE WellTyped'
<1>0. /\ \A i \in DOMAIN items : items[i].managed \in BOOLEAN
      /\ RefTyped /\ 1 \in Nat /\ TRUE \in BOOLEAN /\ Nothing \in Nat
  BY TopFacts DEF IType, StackTypeOK, Item, WellTyped, Nothing
<1>s. ASSUME StackStep, saved' = saved, call' = call, call = NoCall, RefTyped',
             slots' \in Seq(Nat), Len(slots') = height', MeansOK(items', means'),
             \A x \in All' : x \in All \/ NewName(x)
      PROVE  WellTyped'
  BY <1>s, TypedStep DEF CallOK
<1>1. ASSUME NEW i \in Ids, Get(i) \/ Unref(i) PROVE WellTyped'
  <2>1. PICK m \in BOOLEAN, v \in Nat :
          Make(i, 1, m) /\ slots' = Append(slots, v) /\ \E w \in Nat : means' = With(means, i, w)
    BY <1>0, <1>1, TopFacts, Zenon DEF Get, Unref, RefTyped
  <2>2. Unused(i) /\ saved' = saved /\ call' = call /\ call = NoCall /\ ref' = ref
    BY <1>1, Zenon DEF Get, Unref, Running, Alone
  <2>3. /\ slots' \in Seq(Nat) /\ Len(slots') = height' /\ MeansOK(items', means')
    BY <1>0, <2>1, NamesOfMake, Pushed
  <2>4. \A x \in All' : x \in All \/ NewName(x)
    BY <1>0, <2>1, <2>2, NamesOfMake, UnusedIsNew
  <2> QED BY <1>s, <1>0, <2>1, <2>2, <2>3, <2>4, NamesOfMake DEF RefTyped
<1>2. ASSUME NEW i \in DOMAIN items, NEW j \in Ids, Field(i, j) PROVE WellTyped'
  <2>1. /\ Make(j, 1, items[i].managed) /\ slots' = Append(slots, Novelty)
        /\ means' = With(means, j, Novelty)
        /\ Unused(j) /\ saved' = saved /\ call' = call /\ call = NoCall /\ ref' = ref
    BY <1>2, Zenon DEF Field, Running
  <2>3. /\ slots' \in Seq(Nat) /\ Len(slots') = height' /\ MeansOK(items', means')
    BY <1>0, <2>1, NamesOfMake, TopFacts, Pushed
  <2>4. \A x \in All' : x \in All \/ NewName(x)
    BY <1>0, <2>1, NamesOfMake, UnusedIsNew
  <2> QED BY <1>s, <1>0, <2>1, <2>3, <2>4, NamesOfMake DEF RefTyped
<1>3. ASSUME NEW i \in DOMAIN items, ChainField(i) PROVE WellTyped'
  <2>1. /\ Chain(i) /\ slots' = Append(slots, Novelty) /\ means' = [means EXCEPT ![i] = Novelty]
        /\ saved' = saved /\ call' = call /\ call = NoCall /\ ref' = ref
    BY <1>3, Zenon DEF ChainField, Running
  <2>2. StackStep
    BY <2>1, Zenon DEF StackStep
  <2>3. height' = height + 1 /\ queue' = queue /\ \E e : items' = With(items, i, e)
    BY <2>1, Zenon DEF Chain
  <2>4. /\ slots' \in Seq(Nat) /\ Len(slots') = height' /\ MeansOK(items', means')
    BY <2>1, <2>3, TopFacts, Pushed
  <2> QED BY <1>s, <1>0, <2>1, <2>2, <2>3, <2>4, NamesOfResize DEF RefTyped
<1>4. ASSUME NEW i \in DOMAIN items, RefCopy(i) PROVE WellTyped'
  <2>1. /\ UNCHANGED <<height, items, queue, draining, slots, means, saved, call>>
        /\ call = NoCall /\ height > 0
        /\ ref' = [held |-> slots[height], meant |-> means[i], managed |-> items[i].managed,
                   set |-> TRUE]
    BY <1>4 DEF RefCopy, Running
  <2>2. RefTyped'
    BY <1>0, <2>1, TopFacts DEF RefTyped
  <2>3. StackStep /\ All' = All /\ MeansOK(items', means')
    BY <2>1, FrameStands, TopFacts DEF All, MeansOK
  <2> QED BY <1>s, <2>1, <2>2, <2>3, TopFacts
<1>5. ASSUME NEW i \in DOMAIN items, RefMove(i) PROVE WellTyped'
  <2> DEFINE v == IF items[i].pushed > 1 THEN At(Index(items[i]) - 1) ELSE Nothing
  <2>1. /\ TakeRef(i) /\ slots' = UpTo(height') /\ means' = [means EXCEPT ![i] = v]
        /\ saved' = saved /\ call' = call /\ call = NoCall
        /\ ref' = [held |-> slots[height], meant |-> means[i], managed |-> items[i].managed,
                   set |-> TRUE]
    BY <1>5, Zenon DEF RefMove, Running
  <2>2. height > 0 /\ height' = height - 1 /\ queue' = queue /\ \E e : items' = With(items, i, e)
    BY <2>1, Zenon DEF TakeRef
  <2>3. height' \in Nat /\ height' <= height
    BY <2>2, TopFacts
  <2>4. RefTyped'
    BY <1>0, <2>1, <2>2, TopFacts DEF RefTyped
  <2>5. StackStep
    BY <2>1, Zenon DEF StackStep
  <2>6. DOMAIN items' = DOMAIN items /\ All' = All
    BY <2>2, NamesOfResize DEF With
  <2>7. MeansOK(items', means')
    <3>1. v \in Nat
      BY <1>0, SlotIsNat
    <3> HIDE DEF v
    <3> QED BY <2>1, <2>6, <3>1, TopFacts DEF MeansOK
  <2> QED BY <1>s, <2>1, <2>3, <2>4, <2>5, <2>6, <2>7, Cut
<1>6. ASSUME NEW i \in DOMAIN items, Die(i) PROVE WellTyped'
  <2>1. /\ Release(i) /\ slots' = slots /\ means' = Without(means, i)
        /\ saved' = saved /\ call' = call /\ call = NoCall /\ ref' = ref
    BY <1>6, Zenon DEF Die, Running
  <2>2. /\ height' = height /\ items' = Without(items, i)
        /\ queue' = queue \/ \E e : queue' = With(queue, i, e)
    BY <2>1, Zenon DEF Release
  <2>3. StackStep
    BY <2>1, Zenon DEF StackStep
  <2> QED BY <1>s, <1>0, <2>1, <2>2, <2>3, TopFacts, NamesOfDeath, Unmeant DEF RefTyped
<1>7. CASE DropRef
  <2>1. /\ UNCHANGED <<height, items, queue, draining, slots, means, saved, call>>
        /\ call = NoCall /\ ref' = NoRef
    BY <1>7 DEF DropRef, Running, stackVars
  <2>2. RefTyped'
    BY <2>1 DEF RefTyped, NoRef, Nothing
  <2>3. StackStep /\ All' = All /\ MeansOK(items', means')
    BY <2>1, FrameStands, TopFacts DEF All, MeansOK
  <2> QED BY <1>s, <2>1, <2>2, <2>3, TopFacts
<1>8. CASE Ask
  <2>1. /\ AskCallable /\ slots' = UpTo(height') /\ means' = means
        /\ saved' = saved /\ call' = call /\ call = NoCall /\ ref' = ref
    BY <1>8, Zenon DEF Ask, UpTo, Running
  <2>2. height > 0 /\ height' = height - 1 /\ items' = items /\ queue' = queue
    BY <2>1 DEF AskCallable
  <2>3. height' \in Nat /\ height' <= height
    BY <2>2, TopFacts
  <2>4. StackStep
    BY <2>1, Zenon DEF StackStep
  <2>5. MeansOK(items', means') /\ All' = All /\ RefTyped'
    BY <1>0, <2>1, <2>2, TopFacts DEF MeansOK, All, RefTyped
  <2> QED BY <1>s, <2>1, <2>3, <2>4, <2>5, Cut
<1>9. CASE Dying
  <2>1. /\ Drain \/ Settop
        /\ slots' = UpTo(height') /\ UNCHANGED <<means, call, saved, ref>>
    BY <1>9, Zenon DEF Dying
  <2>2. draining # Idle /\ items' = items /\ height' \in {height, draining}
        /\ \A x \in DOMAIN queue' : x \in DOMAIN queue
    BY <2>1 DEF Drain, Settop, Without
  <2>3. height' \in Nat /\ height' <= height
    BY <2>2, TopFacts DEF IType, StackTypeOK
  <2>4. StackStep
    BY <2>1, Zenon DEF StackStep
  <2>5. MeansOK(items', means') /\ RefTyped' /\ \A x \in All' : x \in All
    BY <1>0, <2>1, <2>2, TopFacts DEF MeansOK, All, RefTyped
  <2>6. call = NoCall
    BY <2>2 DEF WellTyped, TopTyped
  <2> QED BY <1>s, <2>1, <2>3, <2>4, <2>5, <2>6, Cut
<1>10. ASSUME NEW i \in DOMAIN items, NEW j \in Ids, NEW n \in 1..MaxResults,
              NEW pos \in Positions[n], TieTo(i, j, n, pos)
       PROVE  WellTyped'
  BY <1>10, TieTyped
<1>11. ASSUME NEW i \in DOMAIN items, Read(i) PROVE WellTyped'
  <2>1. /\ UNCHANGED <<height, items, queue, draining, slots, means, saved, call>>
        /\ call = NoCall /\ ref' = ref
    BY <1>11 DEF Read, Running
  <2>2. StackStep /\ All' = All /\ MeansOK(items', means') /\ RefTyped'
    BY <1>0, <2>1, FrameStands, TopFacts DEF All, MeansOK, RefTyped
  <2> QED BY <1>s, <2>1, <2>2, TopFacts
<1> QED BY <1>1, <1>2, <1>3, <1>4, <1>5, <1>6, <1>7, <1>8, <1>9, <1>10, <1>11, Zenon DEF Uses
-----------------------------------------------------------------------------
LEMMA BelowIsTyped ==
  ASSUME WellTyped, saved # <<>>
  PROVE  /\ FrameTyped(saved[Len(saved)]) /\ Len(saved) \in Nat \ {0}
         /\ DOMAIN saved[Len(saved)].items \cap All = {}
<1>1. PICK T : saved \in Seq(T) /\ \A f \in T : FrameTyped(f)
  BY DEF WellTyped, SavedTyped
<1>2. Len(saved) \in Nat \ {0} /\ Len(saved) \in 1..Len(saved) /\ saved[Len(saved)] \in T
  BY <1>1
<1> QED BY <1>1, <1>2 DEF WellTyped, NamesOnce

LEMMA ReturnMethodTyped ==
  ASSUME WellTyped, NEW k \in 0..MaxResults, ReturnMethod(k)
  PROVE  WellTyped'
<1> DEFINE i == call.id
<1>1. /\ call.how = "method" /\ height - 1 + k <= MaxHeight /\ height' = height - 1 + k
      /\ draining' = items[i].top /\ items' = Without(items, i) /\ queue' = queue
      /\ call' = NoCall /\ saved' = saved /\ ref' = ref
      /\ slots' = UpTo(height - 1) \o Novel(height - 1, k)
      /\ means' = Without(means, i)
  BY Zenon DEF ReturnMethod
<1>2. i \in DOMAIN items /\ items[i].top + 1 = height
  BY <1>1 DEF WellTyped, TopTyped, CallOK, NoCall
<1> HIDE DEF i
<1>3. /\ IType /\ items[i].top \in Nat /\ height \in Nat /\ k \in Nat /\ MaxHeight \in Nat
  BY <1>2, TopFacts, ItemFacts, StackAssumption, ValueAssumption
<1>4. draining' \in 0..height' /\ height' \in 0..MaxHeight /\ height - 1 \in Nat
  BY <1>1, <1>2, <1>3
<1>5. DOMAIN items' = DOMAIN items \ {i} /\ \A x \in DOMAIN items' : items'[x] = items[x]
  BY <1>1 DEF Without
<1>6. IType'
  BY <1>1, <1>3, <1>4, <1>5 DEF IType, StackTypeOK
<1>7. slots' \in Seq(Nat) /\ Len(slots') = height'
  <2>1. UpTo(height - 1) \in Seq(Nat) /\ Len(UpTo(height - 1)) = height - 1
    BY <1>3, <1>4, Cut
  <2> QED BY <1>1, <1>3, <1>4, <2>1, ResultsPushed
<1>8. MeansOK(items', means')
  BY <1>1, Unmeant
<1>9. TopTyped'
  BY <1>1, <1>6, <1>7, <1>8 DEF TopTyped, CallOK
<1>10. NamesOnce'
  BY <1>1, <1>5 DEF WellTyped, NamesOnce, All
<1> QED BY <1>1, <1>9, <1>10 DEF WellTyped, RefTyped, SavedTyped

LEMMA CallsTyped == ASSUME WellTyped, Calls PROVE WellTyped'
<1>0. /\ \A i \in DOMAIN items : items[i].managed \in BOOLEAN
      /\ RefTyped /\ 1 \in Nat /\ TRUE \in BOOLEAN /\ 0..MaxResults \subseteq Nat
  BY TopFacts, ValueAssumption DEF IType, StackTypeOK, Item, WellTyped
<1>1. ASSUME NEW i \in DOMAIN items, NEW arg, CallNamed(i, arg) PROVE WellTyped'
  <2>1. /\ UNCHANGED <<height, items, queue, draining, slots, means, saved, ref>>
        /\ call' = Const(items[i].managed) /\ draining = Idle
    BY <1>1 DEF CallNamed, Running
  <2> QED BY <1>0, <2>1, ConstOK, TypedStands
<1>2. ASSUME NEW i \in DOMAIN items, NEW arg, CallTop(i, arg) PROVE WellTyped'
  <2>1. /\ UNCHANGED <<height, items, queue, draining, slots, means, saved, ref>>
        /\ call' = Rvalue(i) /\ draining = Idle
    BY <1>2 DEF CallTop, Running
  <2> QED BY <2>1, RvalueOK, TypedStands
<1>3. ASSUME NEW i \in DOMAIN items, NEW j \in Ids, NEW arg, CallBuried(i, j, arg) PROVE WellTyped'
  <2> DEFINE v == slots[StackIndex(items[i])]
  <2>1. /\ Rebase(i, j) /\ call' = Rvalue(i) /\ saved' = saved /\ ref' = ref /\ Unused(j)
        /\ slots' = Append(slots, v)
        /\ means' = [means EXCEPT ![i] = slots'[height']]
    BY <1>3, Zenon DEF CallBuried
  <2>2. /\ items[i].pushed > 0 /\ Cap(items[i]) < height /\ height' = height + 1 /\ draining' = Idle
        /\ \E e : items' = With(items, i, e) /\ \E l : queue' = With(queue, j, l)
    BY <2>1, Zenon DEF Rebase
  <2>3. StackStep
    BY <2>1, Zenon DEF StackStep
  <2>4. v \in Nat
    <3>1. StackIndex(items[i]) \in 1..height
      BY <2>2, TopFacts, ItemFacts DEF StackIndex
    <3> QED BY <3>1, TopFacts
  <2> HIDE DEF v
  <2>5. slots'[height'] = v
    BY <2>1, <2>2, <2>4, TopFacts, PushFacts
  <2>6. slots' \in Seq(Nat) /\ Len(slots') = height' /\ MeansOK(items', means')
    BY <2>1, <2>2, <2>4, <2>5, TopFacts, Pushed
  <2>7. i \in DOMAIN items'
    BY <2>2 DEF With
  <2>8. \A x \in All' : x \in All \/ NewName(x)
    BY <2>1, <2>2, UnusedIsNew DEF All, With
  <2>9. CallOK(call', items', height') /\ RefTyped'
    BY <1>0, <2>1, <2>7, RvalueOK DEF RefTyped
  <2> QED BY <2>1, <2>2, <2>3, <2>6, <2>8, <2>9, TypedStep
<1>4. ASSUME NEW i \in Ids, NEW arg, CallMethod(i, arg) PROVE WellTyped'
  <2>1. /\ Make(i, 1, TRUE) /\ call' = Method(i) /\ saved' = saved /\ ref' = ref /\ Unused(i)
        /\ slots' = Append(slots, Novelty) /\ means' = With(means, i, Novelty)
    BY <1>4, Zenon DEF CallMethod
  <2>2. /\ i \in DOMAIN items' /\ items'[i].top = height /\ items'[i].pushed = 1
        /\ height' = height + 1
    BY <2>1 DEF Make, With
  <2>3. CallOK(call', items', height') /\ RefTyped'
    BY <1>0, <2>1, <2>2 DEF CallOK, Method, RefTyped
  <2>4. slots' \in Seq(Nat) /\ Len(slots') = height' /\ MeansOK(items', means')
    BY <1>0, <2>1, NamesOfMake, TopFacts, Pushed
  <2>5. \A x \in All' : x \in All \/ NewName(x)
    BY <1>0, <2>1, NamesOfMake, UnusedIsNew
  <2> QED BY <1>0, <2>1, <2>3, <2>4, <2>5, NamesOfMake, TypedStep
<1>5. ASSUME NEW i \in Ids, CallOuter(i) PROVE WellTyped'
  <2> DEFINE below == saved[Len(saved)]
  <2>1. /\ UNCHANGED <<height, items, queue, draining, slots, means, saved, ref>>
        /\ call' = Const(below.items[i].managed) /\ draining = Idle
        /\ saved # <<>> /\ i \in DOMAIN below.items
    BY <1>5 DEF CallOuter, Running
  <2>2. below.items[i].managed \in BOOLEAN
    BY <2>1, BelowIsTyped DEF FrameTyped, Item
  <2> QED BY <2>1, <2>2, ConstOK, TypedStands
<1>6. ASSUME NEW j \in Ids, NEW k \in 0..MaxResults, ReturnNamed(j, k) PROVE WellTyped'
  <2>1. /\ Make(j, k, call.managed) /\ call.how = "const" /\ call' = NoCall
        /\ saved' = saved /\ ref' = ref /\ Unused(j)
        /\ slots' = slots \o Novel(height, k) /\ means' = With(means, j, First(height, k))
    BY <1>6, Zenon DEF ReturnNamed
  <2>2. call.managed \in BOOLEAN
    BY <2>1 DEF WellTyped, TopTyped, CallOK, NoCall
  <2>3. /\ StackStep /\ height' = height + k /\ (\E e : items' = With(items, j, e))
        /\ \A x \in All' : x \in All \/ x = j
    BY <1>0, <2>1, <2>2, NamesOfMake
  <2>4. slots' \in Seq(Nat) /\ Len(slots') = height' /\ First(height, k) \in Nat
    BY <1>0, <2>1, <2>3, TopFacts, ResultsPushed
  <2>5. MeansOK(items', means')
    BY <2>1, <2>3, <2>4, TopFacts DEF With, MeansOK
  <2>6. \A x \in All' : x \in All \/ NewName(x)
    BY <2>1, <2>3, UnusedIsNew
  <2> QED BY <1>0, <2>1, <2>3, <2>4, <2>5, <2>6, TypedStep DEF CallOK, RefTyped
<1>7. ASSUME call.how = "rvalue" PROVE call.id \in DOMAIN items
  BY <1>7 DEF WellTyped, TopTyped, CallOK, NoCall
<1>8. ASSUME NEW k \in 0..MaxResults, ReturnTemporary(k) PROVE WellTyped'
  <2> DEFINE i == call.id
  <2>1. /\ Results(i, k) /\ call.how = "rvalue" /\ call' = NoCall /\ saved' = saved /\ ref' = ref
        /\ slots' = UpTo(height - 1) \o Novel(height - 1, k)
        /\ means' = [means EXCEPT ![i] = First(height - 1, k)]
    BY <1>8, Zenon DEF ReturnTemporary
  <2>2. i \in DOMAIN items
    BY <1>7, <2>1
  <2> HIDE DEF i
  <2>3. StackStep
    BY <1>0, <2>1, <2>2, Zenon DEF StackStep
  <2>4. /\ height' = height - 1 + k /\ items[i].pushed > 0 /\ Cap(items[i]) = height
        /\ queue' = queue /\ \E e : items' = With(items, i, e)
    BY <2>1, Zenon DEF Results
  <2>5. height - 1 \in Nat /\ height - 1 <= height
    BY <2>2, <2>4, TopFacts, ItemFacts
  <2>6. UpTo(height - 1) \in Seq(Nat) /\ Len(UpTo(height - 1)) = height - 1
    BY <2>5, Cut
  <2>7. slots' \in Seq(Nat) /\ Len(slots') = height' /\ First(height - 1, k) \in Nat
    BY <1>0, <2>1, <2>4, <2>5, <2>6, ResultsPushed
  <2>8. DOMAIN items' = DOMAIN items /\ All' = All
    BY <2>2, <2>4, NamesOfResize DEF With
  <2>9. MeansOK(items', means')
    BY <2>1, <2>7, <2>8, TopFacts DEF MeansOK
  <2> QED BY <1>0, <2>1, <2>3, <2>7, <2>8, <2>9, TypedStep DEF CallOK, RefTyped
<1>9. ASSUME NEW k \in 0..MaxResults, ReturnMethod(k) PROVE WellTyped'
  BY <1>9, ReturnMethodTyped
<1>10. CASE FailNamed
  BY <1>0, <1>10, TypedStands DEF FailNamed, stackVars, CallOK
<1>11. CASE FailTemporary
  <2> DEFINE i == call.id
  <2>1. /\ Fails(i) /\ call.how = "rvalue" /\ call' = NoCall /\ saved' = saved /\ ref' = ref
        /\ slots' = UpTo(height - 1) /\ means' = Without(means, i)
    BY <1>11, Zenon DEF FailTemporary
  <2>2. i \in DOMAIN items
    BY <1>7, <2>1
  <2> HIDE DEF i
  <2>3. StackStep
    BY <2>1, <2>2, Zenon DEF StackStep
  <2>4. /\ height' = height - 1 /\ items[i].pushed > 0 /\ Cap(items[i]) = height
        /\ queue' = queue /\ items' = Without(items, i)
    BY <2>1, Zenon DEF Fails
  <2>5. height - 1 \in Nat /\ height - 1 <= height
    BY <2>2, <2>4, TopFacts, ItemFacts
  <2>6. slots' \in Seq(Nat) /\ Len(slots') = height' /\ MeansOK(items', means')
    BY <2>1, <2>4, <2>5, Cut, Unmeant
  <2>7. \A x \in All' : x \in All
    BY <2>2, <2>4, NamesOfDeath
  <2> QED BY <1>0, <2>1, <2>3, <2>6, <2>7, TypedStep DEF CallOK, RefTyped
<1> QED BY <1>1, <1>2, <1>3, <1>4, <1>5, <1>6, <1>8, <1>9, <1>10, <1>11, Zenon DEF Calls

LEMMA EnterTyped == ASSUME WellTyped, NEW i \in Ids, Enter(i) PROVE WellTyped'
<1> DEFINE frame == [slots |-> slots, height |-> height, items |-> items,
                     means |-> means, call |-> call]
           e == [top |-> 1, pushed |-> 1, grouped |-> 0, managed |-> FALSE]
           n == Name(Len(saved'), 2)
<1>1. /\ call # NoCall /\ Len(saved) < MaxDepth /\ Unused(i)
      /\ saved' = Append(saved, frame) /\ height' = 2 /\ slots' = <<Nothing, n>>
      /\ items' = With(<<>>, i, e) /\ means' = With(<<>>, i, slots'[2]) /\ call' = NoCall
      /\ queue' = queue /\ draining' = draining /\ ref' = ref
  BY Zenon DEF Enter
<1>2. draining = Idle
  BY <1>1 DEF WellTyped, TopTyped
<1>3. FrameTyped(frame)
  BY <1>1 DEF FrameTyped, WellTyped, TopTyped, IType, StackTypeOK
<1>4. /\ frame.items = items
  OBVIOUS
<1> HIDE DEF frame
<1>5. /\ SavedTyped' /\ Len(saved') = Len(saved) + 1 /\ Len(saved) \in Nat
      /\ \A k \in 1..Len(saved) : saved'[k] = saved[k]
      /\ saved'[Len(saved) + 1] = frame
  <2>1. PICK T : saved \in Seq(T) /\ \A f \in T : FrameTyped(f)
    BY DEF WellTyped, SavedTyped
  <2>2. /\ Append(saved, frame) \in Seq(T \cup {frame})
        /\ Len(Append(saved, frame)) = Len(saved) + 1 /\ Len(saved) \in Nat
        /\ \A k \in 1..Len(saved) : Append(saved, frame)[k] = saved[k]
        /\ Append(saved, frame)[Len(saved) + 1] = frame
    BY <2>1
  <2> QED BY <1>1, <1>3, <2>1, <2>2 DEF SavedTyped
<1>6. e \in Item /\ n \in Nat
  <2>1. Len(saved') \in Nat /\ 2 \in Nat
    BY <1>5
  <2> QED BY <2>1, NameFacts DEF Item
<1> HIDE DEF e, n
<1>7. slots' \in Seq(Nat) /\ Len(slots') = 2 /\ slots'[2] \in Nat
  BY <1>1, <1>6 DEF Nothing
<1>8. /\ DOMAIN items' = {i} /\ items'[i] = e
      /\ DOMAIN means' = {i} /\ means'[i] \in Nat
  <2>1. DOMAIN <<>> = {}
    OBVIOUS
  <2>2. items' = [x \in {i} |-> e] /\ means' = [x \in {i} |-> slots'[2]]
    BY <1>1, <2>1, Zenon DEF With
  <2> QED BY <1>7, <2>2
<1>9. IType'
  <2>1. /\ height' \in 0..MaxHeight /\ draining' = Idle /\ i \notin DOMAIN queue
    BY <1>1, <1>2, StackAssumption, ValueAssumption DEF Unused, Fresh
  <2> QED BY <1>1, <1>6, <1>8, <2>1 DEF IType, StackTypeOK, WellTyped, TopTyped
<1>10. TopTyped'
  BY <1>1, <1>7, <1>8, <1>9 DEF TopTyped, CallOK, MeansOK
<1>11. NamesOnce'
  <2>1. All' = {i} \cup DOMAIN queue
    BY <1>1, <1>8 DEF All
  <2>2. i \notin DOMAIN items /\ NewName(i)
    BY <1>1, UnusedIsNew DEF Unused, Fresh
  <2>3. DOMAIN items \cap DOMAIN queue = {}
    BY DEF WellTyped, TopTyped, IType, StackTypeOK
  <2>4. ASSUME NEW k \in 1..Len(saved')
        PROVE  \/ k \in 1..Len(saved) /\ saved'[k] = saved[k]
               \/ k = Len(saved) + 1 /\ saved'[k].items = items
    BY <1>4, <1>5
  <2>5. \A k \in 1..Len(saved) :
          /\ DOMAIN saved[k].items \cap DOMAIN items = {}
          /\ DOMAIN saved[k].items \cap DOMAIN queue = {}
    BY DEF WellTyped, NamesOnce, All
  <2>6. ASSUME NEW k \in 1..Len(saved') PROVE DOMAIN saved'[k].items \cap All' = {}
    BY <2>1, <2>2, <2>3, <2>4, <2>5 DEF NewName
  <2>7. ASSUME NEW k \in 1..Len(saved'), NEW m \in 1..Len(saved'), k # m
        PROVE  DOMAIN saved'[k].items \cap DOMAIN saved'[m].items = {}
    <3>1. CASE k \in 1..Len(saved) /\ m \in 1..Len(saved)
      BY <1>5, <2>7, <3>1 DEF WellTyped, NamesOnce
    <3>2. CASE k = Len(saved) + 1 \/ m = Len(saved) + 1
      BY <2>4, <2>5, <2>7, <3>2
    <3> QED BY <2>4, <3>1, <3>2
  <2> QED BY <2>6, <2>7 DEF NamesOnce
<1>12. Len(saved') <= MaxDepth
  BY <1>1, <1>5, ValueAssumption
<1>13. RefTyped'
  BY <1>1 DEF WellTyped, RefTyped
<1> QED BY <1>5, <1>10, <1>11, <1>12, <1>13 DEF WellTyped

LEMMA AllButLast ==
  ASSUME NEW T, NEW s \in Seq(T), NEW n \in Nat, Len(s) = n + 1
  PROVE  /\ SubSeq(s, 1, n) \in Seq(T) /\ Len(SubSeq(s, 1, n)) = n
         /\ \A k \in 1..n : SubSeq(s, 1, n)[k] = s[k]
OBVIOUS

(* The frame below goes on.  What its callback left in the queue, and what  *)
(* the callback returns, has another name than its items.                   *)
LEMMA ResumeTyped ==
  ASSUME WellTyped, saved # <<>>, draining = Idle, Resume,
         queue' = queue \/ \E i \in DOMAIN items : queue' = With(queue, i, Left(items[i]))
  PROVE  WellTyped'
<1> DEFINE below == saved[Len(saved)]
<1>1. /\ saved' = SubSeq(saved, 1, Len(saved) - 1)
      /\ height' = below.height /\ items' = below.items /\ call' = below.call
      /\ slots' = below.slots /\ means' = below.means
      /\ draining' = draining /\ ref' = ref
  BY DEF Resume
<1>2. FrameTyped(below) /\ Len(saved) \in Nat \ {0} /\ DOMAIN below.items \cap All = {}
  BY BelowIsTyped
<1>3. /\ SavedTyped' /\ Len(saved') = Len(saved) - 1
      /\ \A k \in 1..Len(saved') : saved'[k] = saved[k] /\ k \in 1..Len(saved) /\ k # Len(saved)
  <2>1. PICK T : saved \in Seq(T) /\ \A f \in T : FrameTyped(f)
    BY DEF WellTyped, SavedTyped
  <2>2. /\ SubSeq(saved, 1, Len(saved) - 1) \in Seq(T)
        /\ Len(SubSeq(saved, 1, Len(saved) - 1)) = Len(saved) - 1
        /\ \A k \in 1..Len(saved) - 1 : SubSeq(saved, 1, Len(saved) - 1)[k] = saved[k]
    <3>1. Len(saved) - 1 \in Nat /\ Len(saved) = (Len(saved) - 1) + 1
      BY <1>2
    <3> QED BY <2>1, <3>1, AllButLast
  <2>3. saved' = SubSeq(saved, 1, Len(saved) - 1)
    BY <1>1
  <2>4. SavedTyped'
    BY <2>1, <2>2, <2>3 DEF SavedTyped
  <2>5. Len(saved') = Len(saved) - 1 /\ \A k \in 1..Len(saved') : saved'[k] = saved[k]
    BY <2>2, <2>3
  <2>6. \A k \in 1..Len(saved') : k \in 1..Len(saved) /\ k # Len(saved)
    BY <1>2, <2>5
  <2> QED BY <2>4, <2>5, <2>6
<1>4. \A x \in DOMAIN queue' :
        /\ x \in All /\ x \in Ids
        /\ queue'[x] \in DeallocStackItem /\ queue'[x].numElements <= queue'[x].stackCap
  <2>1. CASE queue' = queue
    BY <2>1 DEF All, WellTyped, TopTyped, IType, StackTypeOK
  <2>2. ASSUME NEW i \in DOMAIN items, queue' = With(queue, i, Left(items[i])),
               NEW x \in DOMAIN queue'
        PROVE  /\ x \in All /\ x \in Ids
               /\ queue'[x] \in DeallocStackItem /\ queue'[x].numElements <= queue'[x].stackCap
    <3>1. /\ Left(items[i]) \in DeallocStackItem
          /\ Left(items[i]).numElements <= Left(items[i]).stackCap
      BY TopFacts, ItemFacts DEF Left, DeallocStackItem
    <3>2. /\ DOMAIN queue' = DOMAIN queue \cup {i} /\ queue'[i] = Left(items[i])
          /\ \A y \in DOMAIN queue \ {i} : queue'[y] = queue[y]
      BY <2>2 DEF With
    <3> QED BY <2>2, <3>1, <3>2 DEF All, WellTyped, TopTyped, IType, StackTypeOK
  <2> QED BY <2>1, <2>2
<1> HIDE DEF below
<1>5. TopTyped'
  BY <1>1, <1>2, <1>4, StackAssumption
     DEF TopTyped, IType, StackTypeOK, FrameTyped, All, Idle
<1>6. NamesOnce'
  <2>1. \A k \in 1..Len(saved') : DOMAIN saved'[k].items \cap All' = {}
    <3>1. All' = DOMAIN below.items \cup DOMAIN queue'
      BY <1>1 DEF All
    <3>2. ASSUME NEW k \in 1..Len(saved') PROVE DOMAIN saved'[k].items \cap DOMAIN below.items = {}
      BY <1>2, <1>3 DEF WellTyped, NamesOnce, below
    <3>3. ASSUME NEW k \in 1..Len(saved') PROVE DOMAIN saved'[k].items \cap All = {}
      BY <1>3 DEF WellTyped, NamesOnce
    <3> QED BY <1>4, <3>1, <3>2, <3>3
  <2>2. \A k, m \in 1..Len(saved') :
          k # m => DOMAIN saved'[k].items \cap DOMAIN saved'[m].items = {}
    BY <1>3 DEF WellTyped, NamesOnce
  <2> QED BY <2>1, <2>2 DEF NamesOnce
<1>7. Len(saved') <= MaxDepth /\ RefTyped'
  BY <1>1, <1>2, <1>3, ValueAssumption DEF WellTyped, RefTyped
<1> QED BY <1>3, <1>5, <1>6, <1>7 DEF WellTyped

LEMMA CallbacksTyped == ASSUME WellTyped, Callbacks PROVE WellTyped'
<1>1. ASSUME NEW i \in Ids, Enter(i) PROVE WellTyped'
  BY <1>1, EnterTyped
<1>2. CASE Leave \/ Raise
  <2>1. saved # <<>> /\ draining = Idle /\ Resume /\ queue' = queue
    BY <1>2, Zenon DEF Leave, Raise, Running
  <2> QED BY <2>1, ResumeTyped
<1>3. ASSUME NEW i \in DOMAIN items, LeaveWith(i) PROVE WellTyped'
  <2>1. /\ saved # <<>> /\ draining = Idle /\ Resume
        /\ queue' = With(queue, i, Left(items[i]))
    BY <1>3, Zenon DEF LeaveWith, Running
  <2> QED BY <2>1, ResumeTyped
<1> QED BY <1>1, <1>2, <1>3, Zenon DEF Callbacks

-----------------------------------------------------------------------------
LEMMA InitTyped == Init => TInv
<1> SUFFICES ASSUME Init PROVE TInv
  OBVIOUS
<1>1. /\ StackInit /\ call = NoCall /\ ref = NoRef /\ saved = <<>> /\ astray = {} /\ taken = {}
      /\ slots = [k \in 1..Base |-> Nothing] /\ height = Base /\ items = <<>> /\ means = <<>>
  BY DEF Init, StackInit
<1>2. slots \in Seq(Nat) /\ Len(slots) = Base
  <2>1. slots \in [1..Base -> Nat]
    BY <1>1 DEF Nothing
  <2> QED BY <1>1, <2>1, StackAssumption
<1>3. TopTyped
  <2>1. DOMAIN <<>> = {}
    OBVIOUS
  <2>2. DOMAIN items = {} /\ DOMAIN means = {}
    BY <1>1, <2>1, Zenon
  <2> QED BY <1>1, <1>2, <2>2, InitType DEF TopTyped, MeansOK, CallOK
<1>4. SavedTyped /\ Len(saved) <= MaxDepth /\ NamesOnce
  <2>1. saved \in Seq({}) /\ Len(saved) = 0
    BY <1>1
  <2> QED BY <2>1, ValueAssumption DEF SavedTyped, NamesOnce
<1>5. RefTyped
  BY <1>1 DEF RefTyped, NoRef, Nothing
<1> QED BY <1>1, <1>3, <1>4, <1>5 DEF TInv, WellTyped

LEMMA NextTyped == TInv /\ [Next]_vars => TInv'
<1> SUFFICES ASSUME TInv, [Next]_vars PROVE TInv'
  OBVIOUS
<1>1. WellTyped
  BY DEF TInv
<1>2. CASE UNCHANGED vars
  <2>1. /\ UNCHANGED <<height, items, queue, draining, slots, means, saved, ref>> /\ call' = call
    BY <1>2 DEF vars, stackVars
  <2> QED BY <1>1, <2>1, TypedStands, KnownLiberties, KnownMistakes DEF TInv, WellTyped, TopTyped
<1>3. WellTyped'
  <2>1. CASE UNCHANGED vars
    BY <1>2, <2>1 DEF TInv
  <2> QED BY <1>1, <2>1, UsesTyped, CallsTyped, CallbacksTyped DEF Next
<1> QED BY <1>3, KnownLiberties, KnownMistakes DEF TInv

(* Every variable keeps its type, in the host and in callbacks nested to    *)
(* any depth, however unsafe the liberties that were taken; in particular   *)
(* no two frames that are suspended know a Value by the same name, and each *)
(* has the slots that lua_gettop told it.                                   *)
THEOREM ValuesAreTyped == Spec => []TypeOK
BY InitTyped, NextTyped, TypeFollows, PTL DEF Spec
=============================================================================
