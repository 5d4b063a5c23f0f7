------------------------------- MODULE LuaValue -------------------------------
(***************************************************************************)
(* What the users of lua::Value hold: named and temporary Values and a Ref *)
(* on the stack of the host program, and again on the stack of each        *)
(* callback that Lua makes while a call is in progress.  Lua gives every   *)
(* callback a stack of its own, and indices count from its bottom; there   *)
(* is one deallocation queue for all of them.                              *)
(*                                                                         *)
(* What a table holds under a key, and what a function returns, matters    *)
(* only in being another value than those around it, so a Lua value is a   *)
(* number: the slot to which it was pushed first.  `means' remembers what  *)
(* the user of a Value got it for.  A Value without results can be used    *)
(* like any other, and designates a slot of somebody else: that is one of  *)
(* the liberties.                                                          *)
(***************************************************************************)
EXTENDS StackItems, Sequences

CONSTANTS
  MaxResults,    \* bound: results of a call, variables of a tie
  MaxDepth       \* bound: callbacks inside callbacks

ASSUME ValueAssumption ==
  /\ MaxResults \in Nat /\ MaxDepth \in Nat
  /\ 2 <= MaxHeight

Nothing == 0     \* nil, a functor, and what a Value without results stands for

VARIABLES
  slots,      \* the content of the stack
  means,      \* what each Value of this frame stands for
  call,       \* the call in progress in this frame: while there is one, Lua runs
  saved,      \* the frames below, each suspended in its call
  ref,        \* the lua::Ref: what it holds and what it was made of
  astray      \* history: what was read, called, passed or referred to was not what was meant

vars == <<stackVars, slots, means, call, saved, ref, astray>>

NoCall == [how |-> "none"]
Const(managed) == [how |-> "const", managed |-> managed]
Rvalue(i) == [how |-> "rvalue", id |-> i]
Method(i) == [how |-> "method", id |-> i]
NoRef == [held |-> Nothing, meant |-> Nothing, managed |-> TRUE, set |-> FALSE]

(* Liberties that lose no slot, but get the wrong one.                      *)
Misleading == {"chained tie", "chained argument", "misled call", "outer value", "empty value"}

TypeOK ==
  /\ StackTypeOK /\ taken \subseteq Unsafe \cup Untidy \cup Misleading
  /\ slots \in Seq(Nat) /\ Len(slots) = height
  /\ DOMAIN means = DOMAIN items /\ \A i \in DOMAIN means : means[i] \in Nat
  /\ call.how \in {"rvalue", "method"} => call.id \in DOMAIN items
  /\ Len(saved) <= MaxDepth
  /\ \A k \in 1..Len(saved) :
       /\ Len(saved[k].slots) = saved[k].height
       /\ saved[k].call # NoCall
       /\ DOMAIN saved[k].items \cap (DOMAIN items \cup DOMAIN queue) = {}
  /\ ref.held \in Nat
  /\ astray \subseteq {"read", "call", "argument", "reference"}

(* The constructor of State leaves what it pushed for package.preload.      *)
Init ==
  /\ StackInit
  /\ slots = [k \in 1..Base |-> Nothing]
  /\ means = <<>>
  /\ call = NoCall /\ saved = <<>>
  /\ ref = NoRef
  /\ astray = {}

-----------------------------------------------------------------------------
Running == call = NoCall /\ draining = Idle    \* C++ code runs
Unused(i) == Fresh(i) /\ \A k \in 1..Len(saved) : i \notin DOMAIN saved[k].items

(* getStackIndex: the first slot in any case.                               *)
StackIndex(e) == e.top + 1

(* An index beyond the top is nil to Lua.                                   *)
At(k) == IF k \in 1..height THEN slots[k] ELSE Nothing
Designates(i) == At(Index(items[i]))
Goes(wrong, what) == IF wrong THEN {what} ELSE {}
Alone == UNCHANGED <<taken, call, saved, ref, astray>>
ReadAstray(i) == Goes(Designates(i) # means[i], "read")
ReadLiberty(i) == Takes(Empty(items[i]), "empty value")

(* Values that were not on the stack.                                       *)
Name(frame, slot) == MaxHeight * frame + slot
Novel(h, n) == [k \in 1..n |-> Name(Len(saved), h + k)]
Novelty == Name(Len(saved), height + 1)

(* State::operator[]                                                        *)
Get(i) ==
  /\ Running /\ Unused(i)
  /\ Make(i, 1, TRUE)
  /\ slots' = Append(slots, Novelty)
  /\ means' = With(means, i, Novelty)
  /\ Alone

(* is, to, get and set.                                                     *)
Read(i) ==
  /\ Running
  /\ taken' = taken \cup ReadLiberty(i)
  /\ astray' = astray \cup ReadAstray(i)
  /\ UNCHANGED <<height, items, queue, draining, slots, means, call, saved, ref>>

(* operator[] of a Value that has a name.  Lua raises where there is no     *)
(* slot to index.                                                           *)
Field(i, j) ==
  /\ Running /\ Unused(j)
  /\ Index(items[i]) \in 1..height
  /\ Make(j, 1, items[i].managed)
  /\ slots' = Append(slots, Novelty)
  /\ means' = With(means, j, Novelty)
  /\ taken' = taken \cup ReadLiberty(i)
  /\ astray' = astray \cup ReadAstray(i)
  /\ UNCHANGED <<call, saved, ref>>

(* operator[] of a temporary.                                               *)
ChainField(i) ==
  /\ Running
  /\ Index(items[i]) \in 1..height
  /\ Chain(i)
  /\ slots' = Append(slots, Novelty)
  /\ means' = [means EXCEPT ![i] = Novelty]
  /\ astray' = astray \cup ReadAstray(i)
  /\ UNCHANGED <<call, saved, ref>>

(* is<lua::Callable>() of a value for which it pops too much.               *)
Ask ==
  /\ Running
  /\ AskCallable
  /\ slots' = SubSeq(slots, 1, height')
  /\ UNCHANGED <<means, call, saved, ref, astray>>

-----------------------------------------------------------------------------
(* Calls.  The arguments are strings, numbers and functors, which go where  *)
(* they should, or one Value; NoArgument if there is none.                  *)

NoArgument == {}

(* push(lua::Value) takes the slot at getStackIndex, which asserts that     *)
(* there is one.                                                            *)
Argument(arg) == \A a \in arg : items[a].pushed > 0
ArgumentAstray(arg) == \E a \in arg : At(StackIndex(items[a])) # means[a]
ArgumentLiberty(arg) ==
  Takes(\E a \in arg : StackIndex(items[a]) # Index(items[a]), "chained argument")

(* Mistake: the top of the stack is duplicated.                             *)
CallNamedTop(i, arg) ==
  /\ Running /\ Argument(arg)
  /\ call' = Const(items[i].managed)
  /\ astray' = astray \cup Goes(At(height) # means[i], "call")
                      \cup Goes(ArgumentAstray(arg), "argument")
  /\ taken' = taken \cup ArgumentLiberty(arg) \cup ReadLiberty(i)
  /\ UNCHANGED <<height, items, queue, draining, slots, means, saved, ref>>

(* A Value that has a name duplicates what it designates.                   *)
CallNamed(i, arg) ==
  /\ Running /\ Argument(arg)
  /\ call' = Const(items[i].managed)
  /\ astray' = astray \cup Goes(Designates(i) # means[i], "call")
                      \cup Goes(ArgumentAstray(arg), "argument")
  /\ taken' = taken \cup ArgumentLiberty(arg) \cup ReadLiberty(i)
  /\ UNCHANGED <<height, items, queue, draining, slots, means, saved, ref>>

(* A temporary at the top is called where it is, whatever is there.         *)
CallTop(i, arg) ==
  /\ Running /\ Argument(arg)
  /\ items[i].pushed > 0 /\ Cap(items[i]) = height
  /\ call' = Rvalue(i)
  /\ astray' = astray \cup Goes(At(height) # means[i], "call")
                      \cup Goes(ArgumentAstray(arg), "argument")
  /\ taken' = taken \cup ArgumentLiberty(arg) \cup Takes(Index(items[i]) # height, "misled call")
  /\ UNCHANGED <<height, items, queue, draining, slots, means, saved, ref>>

(* One that has others above it is called after its first slot is pushed    *)
(* again.                                                                   *)
CallBuried(i, j, arg) ==
  /\ Running /\ Unused(j) /\ Argument(arg)
  /\ Rebase(i, j)
  /\ slots' = Append(slots, slots[StackIndex(items[i])])
  /\ call' = Rvalue(i)
  /\ means' = [means EXCEPT ![i] = slots'[height']]
  /\ astray' = astray \cup Goes(slots[StackIndex(items[i])] # means[i], "call")
                      \cup Goes(ArgumentAstray(arg), "argument")
  /\ taken' = taken \cup ArgumentLiberty(arg)
                    \cup Takes(StackIndex(items[i]) # Index(items[i]), "misled call")
  /\ UNCHANGED <<saved, ref>>

(* A method of OTalk: state[name](args), whose result is dropped at once.   *)
CallMethod(i, arg) ==
  /\ Running /\ Unused(i) /\ Argument(arg)
  /\ Make(i, 1, TRUE)
  /\ slots' = Append(slots, Novelty)
  /\ means' = With(means, i, Novelty)
  /\ call' = Method(i)
  /\ astray' = astray \cup Goes(ArgumentAstray(arg), "argument")
  /\ taken' = taken \cup ArgumentLiberty(arg)
  /\ UNCHANGED <<saved, ref>>

(* A Value of the frame below, a member or a variable that the callback has *)
(* captured (not the temporary that is being called), is called.            *)
CallOuter(i) ==
  LET below == saved[Len(saved)]
  IN  /\ Running /\ saved # <<>>
      /\ i \in DOMAIN below.items
      /\ below.call.how \in {"rvalue", "method"} => below.call.id # i
      /\ call' = Const(below.items[i].managed)
      /\ astray' = astray \cup Goes(At(Index(below.items[i])) # below.means[i], "call")
      /\ taken' = taken \cup {"outer value"} \cup Takes(Empty(below.items[i]), "empty value")
      /\ UNCHANGED <<height, items, queue, draining, slots, means, saved, ref>>

First(h, k) == IF k = 0 THEN Nothing ELSE Novel(h, k)[1]
UpTo(n) == SubSeq(slots, 1, n)

(* Lua returns.                                                             *)
ReturnNamed(j, k) ==
  /\ call.how = "const" /\ Unused(j)
  /\ Make(j, k, call.managed)
  /\ slots' = slots \o Novel(height, k)
  /\ means' = With(means, j, First(height, k))
  /\ call' = NoCall
  /\ UNCHANGED <<taken, saved, ref, astray>>

ReturnTemporary(k) ==
  /\ call.how = "rvalue"
  /\ Results(call.id, k)
  /\ slots' = UpTo(height - 1) \o Novel(height - 1, k)
  /\ means' = [means EXCEPT ![call.id] = First(height - 1, k)]
  /\ call' = NoCall
  /\ UNCHANGED <<saved, ref, astray>>

(* The temporary dies with its results, at the top: see Release.            *)
ReturnMethod(k) ==
  /\ call.how = "method"
  /\ height - 1 + k <= MaxHeight
  /\ height' = height - 1 + k
  /\ slots' = UpTo(height - 1) \o Novel(height - 1, k)
  /\ draining' = items[call.id].top
  /\ items' = Without(items, call.id)
  /\ means' = Without(means, call.id)
  /\ call' = NoCall
  /\ UNCHANGED <<queue, taken, saved, ref, astray>>

(* A protected call fails: a C++ exception.                                 *)
FailNamed ==
  /\ call.how = "const"
  /\ call' = NoCall
  /\ UNCHANGED <<stackVars, slots, means, saved, ref, astray>>

FailTemporary ==
  /\ call.how = "rvalue"
  /\ Fails(call.id)
  /\ slots' = UpTo(height - 1)
  /\ means' = Without(means, call.id)
  /\ call' = NoCall
  /\ UNCHANGED <<saved, ref, astray>>

-----------------------------------------------------------------------------
(* Callbacks.                                                               *)

(* Lua calls a functor with one argument, as OTalk::on has them: slot 1 is  *)
(* the functor, and the parameter is a Value that does not pop.             *)
Enter(i) ==
  /\ call # NoCall /\ Len(saved) < MaxDepth
  /\ Unused(i)
  /\ saved' = Append(saved, [slots |-> slots, height |-> height, items |-> items,
                             means |-> means, call |-> call])
  /\ slots' = <<Nothing, Name(Len(saved'), 2)>> /\ height' = 2
  /\ items' = With(<<>>, i, [top |-> 1, pushed |-> 1, grouped |-> 0, managed |-> FALSE])
  /\ means' = With(<<>>, i, slots'[2])
  /\ call' = NoCall
  /\ taken' = taken \cup Takes(DOMAIN queue # {}, "shared queue")
  /\ UNCHANGED <<queue, draining, ref, astray>>

Resume ==
  LET below == saved[Len(saved)]
  IN  /\ saved' = SubSeq(saved, 1, Len(saved) - 1)
      /\ slots' = below.slots /\ height' = below.height
      /\ items' = below.items /\ means' = below.means
      /\ call' = below.call
      /\ UNCHANGED <<draining, ref>>

(* The callback returns; its local Values are gone.                         *)
Leave ==
  /\ Running /\ saved # <<>>
  /\ \A i \in DOMAIN items : ~items[i].managed
  /\ Resume
  /\ taken' = taken \cup Takes(DOMAIN queue # {}, "shared queue")
  /\ UNCHANGED <<queue, astray>>

(* A callback that returns a Value pushes it again, so that the Value, when *)
(* it dies, is not at the top.                                              *)
LeaveWith(i) ==
  /\ Running /\ saved # <<>>
  /\ \A j \in DOMAIN items \ {i} : ~items[j].managed
  /\ items[i].managed /\ Argument({i})
  /\ Resume
  /\ queue' = With(queue, i, Left(items[i]))
  /\ taken' = taken \cup {"shared queue"} \cup ArgumentLiberty({i})
  /\ astray' = astray \cup Goes(ArgumentAstray({i}), "argument")

(* A Lua error in an unprotected call of a callback jumps over its frame    *)
(* to Lua code that catches it; at the host, nobody does.                   *)
Raise ==
  /\ call # NoCall /\ draining = Idle /\ saved # <<>>
  /\ Resume
  /\ taken' = taken \cup Takes(DOMAIN queue # {}, "shared queue")
  /\ UNCHANGED <<queue, astray>>

-----------------------------------------------------------------------------
(* tie(...) = value, where pos numbers the variables.                       *)
TieTo(i, j, n, pos) ==
  LET Result(p) == IF ~Empty(items[i]) /\ p <= items[i].grouped + 1
                   THEN At(Index(items[i]) + p - 1) ELSE Nothing
  IN
  /\ Running
  /\ \A x \in DOMAIN pos : Unused(x)
  /\ j = i \/ Unused(j)
  /\ Tie(i, j, n, pos)
  /\ slots' = UpTo(height')
  /\ means' = [x \in DOMAIN items' |->
                 IF x \in DOMAIN pos THEN Result(pos[x])
                 ELSE IF x = i THEN Nothing ELSE means[x]]
  /\ UNCHANGED <<call, saved, ref, astray>>

(* Ref(value), and ref = value if value has a name: what is at the top of   *)
(* the stack is referred to.                                                *)
RefCopy(i) ==
  /\ Running /\ ~ref.set /\ height > 0
  /\ ref' = [held |-> slots[height], meant |-> means[i], managed |-> items[i].managed, set |-> TRUE]
  /\ taken' = taken \cup Takes(Index(items[i]) # height, "buried ref") \cup ReadLiberty(i)
  /\ UNCHANGED <<height, items, queue, draining, slots, means, call, saved, astray>>

(* ref = std::move(value), which leaves a chain the value before its last.  *)
RefMove(i) ==
  /\ Running /\ ~ref.set
  /\ TakeRef(i)
  /\ ref' = [held |-> slots[height], meant |-> means[i], managed |-> items[i].managed, set |-> TRUE]
  /\ slots' = UpTo(height')
  /\ means' = [means EXCEPT ![i] = IF items[i].pushed > 1 THEN At(Index(items[i]) - 1) ELSE Nothing]
  /\ UNCHANGED <<call, saved, astray>>

(* ref.unref().  A Ref that was made of a parameter of a callback makes     *)
(* Values that do not pop, in the host too.                                 *)
Unref(i) ==
  /\ Running /\ ref.set /\ Unused(i)
  /\ Make(i, 1, ref.managed)
  /\ slots' = Append(slots, ref.held)
  /\ means' = With(means, i, ref.meant)
  /\ taken' = taken \cup Takes(~ref.managed /\ saved = <<>>, "foreign ref")
  /\ astray' = astray \cup Goes(ref.held # ref.meant, "reference")
  /\ UNCHANGED <<call, saved, ref>>

DropRef ==
  /\ Running /\ ref.set
  /\ ref' = NoRef
  /\ UNCHANGED <<stackVars, slots, means, call, saved, astray>>

(* The destructor.                                                          *)
Die(i) ==
  /\ Running
  /\ Release(i)
  /\ means' = Without(means, i)
  /\ UNCHANGED <<slots, call, saved, ref, astray>>

Dying ==
  /\ Drain \/ Settop
  /\ slots' = UpTo(height')
  /\ UNCHANGED <<means, call, saved, ref, astray>>

-----------------------------------------------------------------------------
Args == {{}} \cup {{a} : a \in DOMAIN items}
Positions == [n \in 1..MaxResults |->
                {pos \in UNION {[S -> 1..n] : S \in SUBSET Ids} :
                   \A p \in 1..n : \E x \in DOMAIN pos :
                     pos[x] = p /\ \A y \in DOMAIN pos : pos[y] = p => y = x}]

Uses ==
  \/ \E i \in Ids : Get(i) \/ Unref(i)
  \/ \E i \in DOMAIN items : Read(i) \/ ChainField(i) \/ \E j \in Ids : Field(i, j)
  \/ \E i \in DOMAIN items : \E j \in Ids, n \in 1..MaxResults :
       \E pos \in Positions[n] : TieTo(i, j, n, pos)
  \/ \E i \in DOMAIN items : RefCopy(i) \/ RefMove(i) \/ Die(i)
  \/ DropRef \/ Ask \/ Dying

Calls ==
  \/ \E i \in DOMAIN items : \E arg \in Args :
       CallNamed(i, arg) \/ CallTop(i, arg) \/ \E j \in Ids : CallBuried(i, j, arg)
  \/ \E i \in Ids : CallOuter(i) \/ \E arg \in Args : CallMethod(i, arg)
  \/ \E k \in 0..MaxResults :
       \/ \E j \in Ids : ReturnNamed(j, k)
       \/ ReturnTemporary(k)
       \/ ReturnMethod(k)
  \/ FailNamed \/ FailTemporary

Callbacks ==
  \/ \E i \in Ids : Enter(i)
  \/ Leave \/ Raise
  \/ \E i \in DOMAIN items : LeaveWith(i)

Next == Uses \/ Calls \/ Callbacks

Spec == Init /\ [][Next]_vars

-----------------------------------------------------------------------------
(* Properties.                                                              *)

(* In every frame, after callbacks inside of calls, a Value that is not     *)
(* empty designates what it was got for, until an unsafe or a misleading    *)
(* liberty is taken.  An empty one, of a call without results or tied away, *)
(* designates a slot of somebody else: its use is such a liberty.           *)
ValuesKeep ==
  taken \cap (Unsafe \cup Misleading) = {} =>
    \A i \in DOMAIN items : ~Empty(items[i]) => Designates(i) = means[i]

(* And until then what is read, called, passed and referred to is what was  *)
(* meant.                                                                   *)
NothingAstray == taken \cap (Unsafe \cup Misleading) = {} => astray = {}

(* What checkMemLeaks of LuaState.h asserts, but for the two values that    *)
(* the constructor of State leaves: when the host holds no Value, its stack *)
(* is as it was, whatever the callbacks did.                                *)
HostLeaksNothing == saved = <<>> => NothingLeaks

(* README.md presents emit, a public lua::Value of OTalk, as a method, and  *)
(* says that "the only way to interact with the XMPP system is from an      *)
(* event callback": there a Value of the host calls what it stands for.     *)
EmitServesCallbacks == taken \subseteq {"outer value"} => "call" \notin astray
=============================================================================
