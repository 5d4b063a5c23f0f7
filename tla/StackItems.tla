------------------------------ MODULE StackItems ------------------------------
(***************************************************************************)
(* Who owns the slots of one frame of the Lua stack.  A lua::Value refers  *)
(* to a StackItem, which owns the slots top + 1 .. top + pushed.  Slots    *)
(* can only be popped from the top: an item that dies below it leaves its  *)
(* slots to the deallocation queue, and an item that dies at the top pops  *)
(* with its own slots those that the queue has directly below.             *)
(*                                                                         *)
(* Nothing in the code keeps its user from chaining, tying or referring to *)
(* a value that is not at the top.  `taken' remembers such liberties, so   *)
(* that a property can say which of them it does not survive.              *)
(***************************************************************************)
EXTENDS Integers

CONSTANTS
  Ids,           \* names for StackItems, alive or in the queue
  Base,          \* slots that are there before any value is
  MaxHeight      \* bound: slots of a frame

ASSUME StackAssumption == Base \in Nat /\ MaxHeight \in Nat /\ Base <= MaxHeight

VARIABLES
  height,        \* lua_gettop
  items,         \* the StackItems of this frame that are alive
  queue,         \* the DeallocQueue: what items that have died have left
  draining,      \* the `top' of a destructor that is emptying the queue, or Idle
  taken          \* history: the liberties taken

stackVars == <<height, items, queue, draining, taken>>

Idle == -1
Item == [top : Nat, pushed : Nat, grouped : Nat \cup {-1}, managed : BOOLEAN]
DeallocStackItem == [stackCap : Nat, numElements : Nat]

(* Unsafe liberties make two values own one slot, or pop a slot that a      *)
(* value owns; the others only leave slots behind.                          *)
Unsafe == {"buried chain", "buried tie", "wide tie", "buried ref", "asked", "shared queue"}
Untidy == {"zero", "failed", "chained tie", "foreign ref"}

StackTypeOK ==
  /\ height \in 0..MaxHeight
  /\ DOMAIN items \subseteq Ids /\ \A i \in DOMAIN items : items[i] \in Item
  /\ DOMAIN queue \subseteq Ids /\ \A j \in DOMAIN queue : queue[j] \in DeallocStackItem
  /\ DOMAIN items \cap DOMAIN queue = {}
  /\ draining \in {Idle} \cup 0..height

Cap(e) == e.top + e.pushed

(* Mistake: the last result of a call, or the last field of a chain.        *)
IndexOfLast(e) == Cap(e)

(* The index that reads, checks and calls use: the first result of a call,  *)
(* the last field of a chain.                                               *)
Index(e) == e.top + e.pushed - e.grouped

(* No slot of the item is at its Index: the call had no results, or a tie   *)
(* or a Ref has taken them.                                                 *)
Empty(e) == ~(0 <= e.grouped /\ e.grouped < e.pushed)

Fresh(i) == i \in Ids /\ i \notin DOMAIN items /\ i \notin DOMAIN queue
Without(f, i) == [j \in DOMAIN f \ {i} |-> f[j]]
With(f, i, e) == [j \in DOMAIN f \cup {i} |-> IF j = i THEN e ELSE f[j]]
Takes(condition, liberty) == IF condition THEN {liberty} ELSE {}

(* The item with another number of slots.                                   *)
Sized(e, pushed, grouped) ==
  [top |-> e.top, pushed |-> pushed, grouped |-> grouped, managed |-> e.managed]

(* What an item leaves to the queue.                                        *)
Left(e) == [stackCap |-> Cap(e), numElements |-> e.pushed]

(* An element without slots is popped from the queue only when a destructor *)
(* brings the height down to its own.  It stays if that height is passed by *)
(* or lies among the slots of another: the liberty is named zero.           *)
HollowAt(h) == \E j \in DOMAIN queue : queue[j].stackCap = h /\ queue[j].numElements = 0
InsideOther(h) ==
  \/ \E j \in DOMAIN items : items[j].top < h /\ h < Cap(items[j])
  \/ \E j \in DOMAIN queue : queue[j].stackCap - queue[j].numElements < h /\ h < queue[j].stackCap

(* The elements that top() may return.                                      *)
QueueTop == {j \in DOMAIN queue : \A k \in DOMAIN queue : queue[k].stackCap <= queue[j].stackCap}

StackInit ==
  /\ height = Base
  /\ items = <<>> /\ queue = <<>>
  /\ draining = Idle
  /\ taken = {}

-----------------------------------------------------------------------------
(* A value for k slots that are pushed now.                                 *)
Make(i, k, managed) ==
  /\ draining = Idle
  /\ Fresh(i)
  /\ height + k <= MaxHeight
  /\ items' = With(items, i, [top |-> height, pushed |-> k, managed |-> managed,
                              grouped |-> IF k = 0 THEN 0 ELSE k - 1])
  /\ height' = height + k
  /\ UNCHANGED <<queue, draining>>

(* operator[] of an rvalue pushes a field and lets the value grow by it.    *)
Chain(i) ==
  /\ draining = Idle
  /\ height < MaxHeight
  /\ items' = With(items, i, Sized(items[i], items[i].pushed + 1, 0))
  /\ height' = height + 1
  /\ taken' = taken \cup Takes(Cap(items[i]) # height, "buried chain")
                    \cup Takes(Empty(items[i]), "empty value")
  /\ UNCHANGED <<queue, draining>>

(* A call of an rvalue that has others above it: its slots are left to the  *)
(* queue under a name j, and the function is pushed anew.  (Left out: a     *)
(* parameter of a callback has no queue, and the program crashes here; and  *)
(* here and in Results, a temporary without slots, for which one of another *)
(* value would be called, where the header asserts that its function is on  *)
(* top.)                                                                    *)
Rebase(i, j) ==
  /\ draining = Idle
  /\ items[i].pushed > 0 /\ items[i].managed
  /\ Cap(items[i]) < height
  /\ Fresh(j)
  /\ height < MaxHeight
  /\ queue' = With(queue, j, Left(items[i]))
  /\ items' = With(items, i, [top |-> height, pushed |-> 1, grouped |-> 0, managed |-> TRUE])
  /\ height' = height + 1
  /\ UNCHANGED draining

(* Mistake: the results come above the function.                            *)
ResultsAbove(i, k) ==
  /\ draining = Idle
  /\ items[i].pushed > 0
  /\ Cap(items[i]) = height
  /\ height + k <= MaxHeight
  /\ items' = With(items, i, Sized(items[i], items[i].pushed + k, k - 1))
  /\ height' = height + k
  /\ UNCHANGED <<queue, draining, taken>>

(* The k results of a call of an rvalue take the place of the function,     *)
(* which was at the top.                                                    *)
Results(i, k) ==
  /\ draining = Idle
  /\ items[i].pushed > 0
  /\ Cap(items[i]) = height
  /\ height - 1 + k <= MaxHeight
  /\ items' = With(items, i, Sized(items[i], items[i].pushed + k - 1, k - 1))
  /\ height' = height - 1 + k
  /\ taken' = taken \cup Takes(k = 0 /\ HollowAt(height'), "zero")
  /\ UNCHANGED <<queue, draining>>

(* A protected call that fails has popped the function.  The exception      *)
(* destroys the value, which claims one slot more than there is, and whose  *)
(* destructor therefore pops nothing.                                       *)
Fails(i) ==
  /\ draining = Idle
  /\ items[i].pushed > 0
  /\ Cap(items[i]) = height
  /\ items' = Without(items, i)
  /\ height' = height - 1
  /\ taken' = taken \cup {"failed"}
  /\ UNCHANGED <<queue, draining>>

(* tie(...) = value for n variables, named and numbered by pos: the results *)
(* that nobody wants are popped, or left to the queue under a name j, and   *)
(* each variable gets a slot.                                               *)
Tie(i, j, n, pos) ==
  LET e        == items[i]
      required == IF n < e.pushed THEN n ELSE e.pushed
      trimmed  == required < e.grouped + 1
      buried   == trimmed /\ Cap(e) # height
  IN
  /\ draining = Idle
  /\ \A x \in DOMAIN pos : Fresh(x)
  /\ buried => Fresh(j) /\ j \notin DOMAIN pos
  /\ height' = IF trimmed /\ ~buried THEN e.top + required ELSE height
  /\ queue' = IF buried THEN With(queue, j, Left(e)) ELSE queue
  /\ items' = [x \in DOMAIN items \cup DOMAIN pos |->
                 CASE x = i -> Sized(e, 0, e.grouped)
                   [] x \in DOMAIN pos -> [top |-> e.top + pos[x] - 1, pushed |-> 1, grouped |-> 0,
                                           managed |-> e.managed]
                   [] OTHER -> items[x]]
  /\ taken' = taken \cup Takes(buried, "buried tie")
                    \cup Takes(n > e.pushed, "wide tie")
                    \cup Takes(e.pushed # e.grouped + 1, "chained tie")
  /\ UNCHANGED draining

(* Ref = std::move(value) takes the slot at the top out of the stack and    *)
(* one off the value.                                                       *)
TakeRef(i) ==
  /\ draining = Idle
  /\ height > 0 /\ Cap(items[i]) > 0
  /\ LET e == items[i]
     IN  /\ items' = With(items, i,
                       IF e.pushed > 0 THEN Sized(e, e.pushed - 1, e.grouped)
                       ELSE [top |-> e.top - 1, pushed |-> 0, grouped |-> e.grouped,
                             managed |-> e.managed])
         /\ taken' = taken \cup Takes(e.pushed = 0 \/ Cap(e) # height \/ Index(e) # height,
                                    "buried ref")
                           \cup Takes(HollowAt(height - 1), "zero")
  /\ height' = height - 1
  /\ UNCHANGED <<queue, draining>>

(* is<lua::Callable>() of a value that is no function and has no metatable: *)
(* lua_getmetatable pushes nothing then, and what is popped is the top.     *)
AskCallable ==
  /\ draining = Idle
  /\ height > 0
  /\ height' = height - 1
  /\ taken' = taken \cup {"asked"}
  /\ UNCHANGED <<items, queue, draining>>

-----------------------------------------------------------------------------
(* The destructor.                                                          *)

(* Mistake: whether others are above the item is not asked.                 *)
ReleaseAnywhere(i) ==
  /\ draining = Idle
  /\ items' = Without(items, i)
  /\ IF items[i].managed /\ height >= Cap(items[i])
     THEN draining' = items[i].top ELSE UNCHANGED draining
  /\ UNCHANGED <<height, queue, taken>>

Release(i) ==
  /\ draining = Idle
  /\ items' = Without(items, i)
  /\ \/ /\ ~items[i].managed \/ height < Cap(items[i])
        /\ UNCHANGED <<queue, draining, taken>>
     \/ /\ items[i].managed /\ height = Cap(items[i])
        /\ draining' = items[i].top
        /\ UNCHANGED <<queue, taken>>
     \/ /\ items[i].managed /\ height > Cap(items[i])
        /\ queue' = With(queue, i, Left(items[i]))
        /\ taken' = taken \cup Takes(items[i].pushed = 0 /\ InsideOther(items[i].top), "zero")
        /\ UNCHANGED draining
  /\ UNCHANGED height

(* Mistake: an entry that is larger than one slot is popped as one.         *)
DrainOne ==
  /\ draining # Idle
  /\ \E j \in QueueTop :
       /\ queue[j].stackCap = draining
       /\ draining' = draining - 1
       /\ queue' = Without(queue, j)
       /\ taken' = taken \cup Takes(queue[j].numElements # 0 /\ HollowAt(draining), "zero")
  /\ UNCHANGED <<height, items>>

Drain ==
  /\ draining # Idle
  /\ \E j \in QueueTop :
       /\ queue[j].stackCap = draining
       /\ draining' = draining - queue[j].numElements
       /\ queue' = Without(queue, j)
       /\ taken' = taken \cup Takes(queue[j].numElements # 0 /\ HollowAt(draining), "zero")
  /\ UNCHANGED <<height, items>>

Settop ==
  /\ draining # Idle
  /\ \A j \in QueueTop : queue[j].stackCap # draining
  /\ height' = draining
  /\ draining' = Idle
  /\ UNCHANGED <<items, queue, taken>>

-----------------------------------------------------------------------------
(* One frame under any user.                                                *)

StackNext ==
  \/ \E i \in Ids, k \in 0..MaxHeight : Make(i, k, TRUE) /\ UNCHANGED taken
  \/ \E i \in DOMAIN items :
       \/ Chain(i) \/ Fails(i) \/ TakeRef(i) \/ Release(i)
       \/ \E j \in Ids : Rebase(i, j) /\ UNCHANGED taken
       \/ \E k \in 0..MaxHeight : Results(i, k)
       \/ \E j \in Ids, n \in 1..MaxHeight, S \in SUBSET Ids :
            \E pos \in [S -> 1..n] :
              /\ \A x, y \in S : pos[x] = pos[y] => x = y
              /\ \A p \in 1..n : \E x \in S : pos[x] = p
              /\ Tie(i, j, n, pos)
  \/ AskCallable \/ Drain \/ Settop

StackSpec == StackInit /\ [][StackNext]_stackVars

-----------------------------------------------------------------------------
(* Properties.                                                              *)

Owns(e) == (e.top + 1)..Cap(e)

(* Whatever dies in whatever order, a value that is alive keeps its slots,  *)
(* and no two values own the same.                                          *)
Kept ==
  taken \cap Unsafe = {} =>
    \A i \in DOMAIN items :
      /\ Owns(items[i]) \subseteq 1..height
      /\ \A j \in DOMAIN items \ {i} : Owns(items[i]) \cap Owns(items[j]) = {}

(* LuaState.h, checkMemLeaks: "Check if there are any values from stack" and*)
(* "Dealloc queue should be empty".  When every value is gone the stack is  *)
(* as it was before the first, if no liberty was taken at all.              *)
NothingLeaks ==
  taken = {} /\ DOMAIN items = {} /\ draining = Idle => height = Base /\ DOMAIN queue = {}
=============================================================================
