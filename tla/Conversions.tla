----------------------------- MODULE Conversions -----------------------------
(***************************************************************************)
(* What becomes of a C++ value that is stored in Lua and read back: the    *)
(* push, check and read functions of LuaStack.h, and the conversions of    *)
(* State and Value that are made of them.                                  *)
(*                                                                         *)
(* Numbers are scaled down.  A lua_Number has Mantissa bits instead of 53, *)
(* and a number is written as an integer that counts units of 2^-Fraction. *)
(* Text keeps TextBits of a number, where lua_tostring keeps 14 digits; a  *)
(* float keeps FloatBits.                                                  *)
(***************************************************************************)
EXTENDS Integers

CONSTANTS Mantissa, FloatBits, TextBits, Fraction,
          IntBits, ShortBits, LongBits,     \* a ptrdiff_t has LongBits too
          Largest                           \* bound: numbers that are stored

ASSUME ConversionAssumption ==
  /\ {Mantissa, FloatBits, TextBits, Fraction, IntBits, ShortBits, LongBits} \subseteq Nat
  /\ 1 < FloatBits /\ FloatBits <= TextBits /\ TextBits < Mantissa
  /\ Mantissa <= Fraction + 1
  /\ 1 < ShortBits /\ ShortBits <= IntBits /\ IntBits <= LongBits
  /\ Largest \in Nat

VARIABLES
  slot,      \* the Lua value
  stored     \* history: the C++ value that was stored last, and how

vars == <<slot, stored>>

-----------------------------------------------------------------------------
(* Arithmetic of lua_Number.                                                *)

One == 2^Fraction
epsilon == 2^(Fraction + 1 - Mantissa)
Abs(x) == IF x < 0 THEN -x ELSE x
Toward0(x) == IF x < 0 THEN -(Abs(x) \div One) ELSE x \div One

(* The distance of numbers of that many bits around x.                      *)
Spacing(x, bits) == 2^(CHOOSE k \in 0..Abs(x) :
                         Abs(x) < 2^(k + bits) /\ (k = 0 \/ Abs(x) >= 2^(k + bits - 1)))

(* To the nearest, and in the middle to the even one.                       *)
Round(x, bits) ==
  LET s == Spacing(x, bits)
      q == Abs(x) \div s
      r == Abs(x) % s
      up == 2 * r > s \/ (2 * r = s /\ q % 2 = 1)
      a == IF up THEN (q + 1) * s ELSE q * s
  IN  IF x < 0 THEN -a ELSE a
Keeps(x, bits) == Round(x, bits) = x

Signed(bits) == -(2^(bits - 1))..(2^(bits - 1) - 1)
Unsigned(bits) == 0..(2^bits - 1)
Wrap(x, bits, signed) ==
  LET u == x % 2^bits
  IN  IF signed /\ u >= 2^(bits - 1) THEN u - 2^bits ELSE u

Integral == [short |-> Signed(ShortBits), int |-> Signed(IntBits), long |-> Signed(LongBits),
             ushort |-> Unsigned(ShortBits), unsigned |-> Unsigned(IntBits),
             ulong |-> Unsigned(LongBits)]
Width == [short |-> ShortBits, int |-> IntBits, long |-> LongBits,
          ushort |-> ShortBits, unsigned |-> IntBits, ulong |-> LongBits]
IntegralTypes == DOMAIN Integral

Numbers == {x \in -Largest..Largest : Keeps(x, Mantissa)}
Floats == {x \in Numbers : Keeps(x, FloatBits)}

(* Texts: "cut" has a NUL inside, before which it is a word; digits read as *)
(* a number.                                                                *)
Words == {"empty", "c", "word", "cut"}
Digits == [d \in {"0", "1", "7"} |-> CASE d = "0" -> 0 [] d = "1" -> One [] d = "7" -> 7 * One]

-----------------------------------------------------------------------------
(* Lua values.                                                              *)
Num(n) == [type |-> "number", n |-> n]
Numeral(n) == [type |-> "numeral", n |-> n]     \* a string that reads as a number
Str(s) == IF s \in DOMAIN Digits THEN Numeral(Digits[s]) ELSE [type |-> "string", s |-> s]
Bool(b) == [type |-> "boolean", b |-> b]        \* 0 or 1, as C++ has them
Nil == [type |-> "nil"]
Pointer(p) == [type |-> "lightuserdata", p |-> p]
Others == {[type |-> "table"], [type |-> "function"], [type |-> "userdata"]}

(* A C++ string, as far as a char pointer shows it.                         *)
CStr(s) == IF s = "cut" THEN "word" ELSE s

pushOther(type, x) ==
  CASE type = "bool" -> Bool(x)
    [] type = "nil" -> Nil
    [] type = "pointer" -> Pointer(x)

(* Mistake: a fraction is cut.                                              *)
pushTruncated(type, x) ==
  CASE type \in IntegralTypes -> Num(Round(x * One, Mantissa))
    [] type \in {"float", "double"} -> Num(Toward0(x) * One)
    [] OTHER -> pushOther(type, x)

(* push: every number becomes a lua_Number.                                 *)
push(type, x) ==
  CASE type \in IntegralTypes -> Num(Round(x * One, Mantissa))
    [] type \in {"float", "double"} -> Num(x)
    [] OTHER -> pushOther(type, x)

(* A char becomes a string of one character ("empty" if it is NUL), a       *)
(* string what is before its first NUL.  State::set and Value::set of a     *)
(* std::string, and setData, are given the length ("data").                 *)
pushText(type, s) == IF type = "data" THEN Str(s) ELSE Str(CStr(s))

(* What there is to store.  A pointer is null or not.                       *)
StoredNumbers ==
  (UNION {[type : {type}, x : Integral[type]] : type \in IntegralTypes})
  \cup [type : {"float"}, x : Floats] \cup [type : {"double"}, x : Numbers]
  \cup [type : {"bool", "pointer"}, x : {0, 1}] \cup [type : {"nil"}, x : {0}]
StoredTexts ==
  [type : {"char"}, s : {"empty", "c"} \cup DOMAIN Digits]
  \cup [type : {"string", "data"}, s : Words \cup DOMAIN Digits]

-----------------------------------------------------------------------------
lua_isnumber(v) == v.type \in {"number", "numeral"}
lua_tonumber(v) == IF lua_isnumber(v) THEN v.n ELSE 0

(* Mistakes: the number is nudged down; it is cut to a long.                *)
checkIntegerBelow(v) ==
  /\ lua_isnumber(v)
  /\ \E k \in {Toward0(Round(lua_tonumber(v) - epsilon, Mantissa))} :
       k \in Signed(IntBits) /\ Abs(lua_tonumber(v) - k * One) <= epsilon
checkIntegerLong(v) ==
  /\ lua_isnumber(v)
  /\ \E k \in {Toward0(Round(lua_tonumber(v) + epsilon, Mantissa))} :
       k \in Signed(LongBits) /\ Abs(lua_tonumber(v) - k * One) <= epsilon

(* is<lua::Integer>: the number is nudged up by an epsilon, cut to an int   *)
(* and compared.  A number that is no int makes some int of it (undefined), *)
(* and none is near.                                                        *)
checkInteger(v) ==
  /\ lua_isnumber(v)
  /\ \E k \in {Toward0(Round(lua_tonumber(v) + epsilon, Mantissa))} :
       k \in Signed(IntBits) /\ Abs(lua_tonumber(v) - k * One) <= epsilon

(* Mistake: the types are those of lua_type.                                *)
checkByType(type, v) ==
  CASE type = "int" -> v.type = "number" /\ checkInteger(v)
    [] type \in {"double", "unsigned", "float"} -> v.type = "number"
    [] type = "bool" -> v.type = "boolean"
    [] type = "string" -> v.type \in {"string", "numeral"}
    [] type = "nil" -> v.type = "nil"
    [] type = "pointer" -> v.type = "lightuserdata"
    [] type = "table" -> v.type = "table"

(* is<T>.  A numeral is a number and not a string.                          *)
check(type, v) ==
  CASE type = "int" -> checkInteger(v)
    [] type \in {"double", "unsigned", "float"} -> lua_isnumber(v)
    [] type = "bool" -> v.type = "boolean"
    [] type = "string" -> v.type = "string"
    [] type = "nil" -> v.type = "nil"
    [] type = "pointer" -> v.type = "lightuserdata"
    [] type = "table" -> v.type = "table"
CheckTypes == {"int", "double", "unsigned", "float", "bool", "string", "nil", "pointer", "table"}

(* lua_tointeger, and any number if there is no such ptrdiff_t.             *)
lua_tointeger(v) ==
  LET k == Toward0(lua_tonumber(v))
  IN  IF k \in Signed(LongBits) THEN {k} ELSE Signed(LongBits)

SignedTypes == {"short", "int", "long"}
readOther(type, v) ==
  CASE type = "double" -> lua_tonumber(v)
    [] type = "float" -> Round(lua_tonumber(v), FloatBits)
    [] type = "bool" -> IF v \in {Nil, Bool(0)} THEN 0 ELSE 1
    [] type = "nil" -> 0
    [] type = "pointer" -> IF v.type = "lightuserdata" THEN v.p
                           ELSE IF v.type = "userdata" THEN 1 ELSE 0

(* Mistake: an integer is read as if it had no sign.                        *)
readUnsigned(type, v) ==
  IF type \in IntegralTypes
  THEN {Wrap(k, Width[type], FALSE) : k \in lua_tointeger(v)}
  ELSE {readOther(type, v)}

(* to<T> of what is no string: the values that may come of it.              *)
read(type, v) ==
  IF type \in IntegralTypes
  THEN {Wrap(k, Width[type], type \in SignedTypes) : k \in lua_tointeger(v)}
  ELSE {readOther(type, v)}
ReadTypes == IntegralTypes \cup {"double", "float", "bool", "nil", "pointer"}

(* get<T>: what it may store, which is nothing if the check fails.          *)
get(type, v) == IF check(type, v) THEN read(type, v) ELSE {}

(* lua_tostring puts the text in the place of the number.                   *)
lua_tostring(v) == IF v.type = "number" THEN Numeral(Round(v.n, TextBits)) ELSE v

HasText(v) == v.type \in {"number", "numeral", "string"}

(* to<std::string> and to<char> of a value that has a text; a value that    *)
(* has none yields a null pointer, which both of them follow.               *)
readText(type, v) ==
  LET t == lua_tostring(v)
  IN  IF t.type = "numeral" THEN IF \E d \in DOMAIN Digits : Digits[d] = t.n
                                 THEN CHOOSE d \in DOMAIN Digits : Digits[d] = t.n
                                 ELSE "numeral"
      ELSE IF type = "char" /\ t.s \in {"word", "cut"} THEN "w"
      ELSE CStr(t.s)

-----------------------------------------------------------------------------
Init == slot = Nil /\ stored = [type |-> "nil", x |-> 0]

(* set(key, x) of State and Value, and an argument of a call.               *)
Store(c) ==
  /\ slot' = push(c.type, c.x)
  /\ stored' = c
StoreText(c) ==
  /\ slot' = pushText(c.type, c.s)
  /\ stored' = c

(* What C++ does not store.                                                 *)
StoreOther(v) ==
  /\ slot' = v
  /\ stored' = [type |-> "other", x |-> 0]

(* toString, toCStr, a comparison with a std::string, and length, whose     *)
(* lua_objlen makes a string of a number too: the value on the stack is     *)
(* changed.                                                                 *)
ReadAsString ==
  /\ HasText(slot)
  /\ slot' = lua_tostring(slot)
  /\ UNCHANGED stored

Next ==
  \/ \E c \in StoredNumbers : Store(c)
  \/ \E c \in StoredTexts : StoreText(c)
  \/ \E v \in Others : StoreOther(v)
  \/ ReadAsString

Spec == Init /\ [][Next]_vars

-----------------------------------------------------------------------------
(* Comparisons: the value is read as the type of the constant.  With the    *)
(* constant on the left the code is the same, so that x < value asks        *)
(* whether the value is less than x.                                        *)
Holds(op, y, x) ==
  CASE op = "==" -> y = x
    [] op = "!=" -> y # x
    [] op = "<" -> y < x
    [] op = "<=" -> y <= x
    [] op = ">" -> y > x
    [] op = ">=" -> y >= x
Orders == {"<", "<=", ">", ">="}
Compare(op, type, v, x) == \E y \in read(type, v) : Holds(op, y, x)
CompareLeft(op, x, type, v) == Compare(op, type, v, x)

-----------------------------------------------------------------------------
(* Properties.                                                              *)

(* What survives: an integer or a fraction that a lua_Number holds, below   *)
(* half the range of an unsigned long, of few digits if it has been read as *)
(* a string meanwhile; a text without NUL.                                  *)
Survives ==
  LET bits == IF slot.type = "numeral" THEN TextBits ELSE Mantissa
  IN  CASE stored.type \in IntegralTypes ->
             Keeps(stored.x * One, bits) /\ stored.x \in Signed(LongBits)
        [] stored.type \in {"float", "double"} -> Keeps(stored.x, bits)
        [] stored.type \in {"string", "data"} -> stored.s # "cut"
        [] OTHER -> TRUE

(* What is stored as some type and survives is read back as that type,      *)
(* whatever else it has been read as in between.                            *)
RoundTrip ==
  Survives =>
    /\ stored.type \in ReadTypes => read(stored.type, slot) = {stored.x}
    /\ stored.type \in {"char", "string", "data"} => readText(stored.type, slot) = stored.s

Whole(v) == lua_isnumber(v) /\ v.n % One = 0 /\ v.n \div One \in Signed(IntBits)

(* is<lua::Integer> sees every int but -1 and -2, and nothing that is as    *)
(* much as one off what to<int> makes of it.                                *)
IntegersAreSeen ==
  /\ Whole(slot) /\ slot.n \notin {-One, -2 * One} => check("int", slot)
  /\ check("int", slot) => \A k \in read("int", slot) : Abs(slot.n - k * One) < One

(* get<T>: what a check promises a read delivers, so that storing it again  *)
(* yields the value.  The exceptions are what the type cannot hold although *)
(* its check lets it pass: a fraction taken for unsigned, or so near to an  *)
(* int that it is taken for one (a number just below 1 is read as 0); a     *)
(* number taken for unsigned that is negative or large; more digits than a  *)
(* float has; a string behind its first NUL.                                *)
Delivers(type) ==
  CASE type = "unsigned" -> /\ slot.n % One = 0
                            /\ slot.n \div One \in Unsigned(IntBits) \cap Signed(LongBits)
    [] type = "float" -> Keeps(slot.n, FloatBits)
    [] type = "int" -> slot.n % One = 0
    [] OTHER -> TRUE
ChecksDeliver ==
  /\ \A type \in CheckTypes \cap ReadTypes :
       check(type, slot) /\ Delivers(type) =>
         \A x \in get(type, slot) :
           push(type, x) = IF slot.type = "numeral" THEN Num(slot.n) ELSE slot
  /\ check("string", slot) /\ slot # Str("cut") =>
       pushText("string", readText("string", slot)) = slot

(* Reading a number of few digits as a string, which changes it on the      *)
(* stack, changes no later answer.                                          *)
TextChangesNothing ==
  [][ReadAsString /\ (slot.type = "number" => Keeps(slot.n, TextBits)) =>
       /\ \A type \in CheckTypes : check(type, slot') = check(type, slot)
       /\ \A type \in ReadTypes : read(type, slot') = read(type, slot)]_vars

(* A value compares with an int as the number does, if it is a whole number *)
(* that an int holds.  With the int on the left, equality is decided rightly*)
(* too, and an order the wrong way round: 1 < value asks whether the value  *)
(* is less than 1.                                                          *)
WholeNumbersCompare ==
  Whole(slot) =>
    \A x \in Signed(IntBits) :
      LET n == slot.n \div One
      IN  /\ \A op \in {"==", "!="} \cup Orders : Compare(op, "int", slot, x) <=> Holds(op, n, x)
          /\ \A op \in {"==", "!="} : CompareLeft(op, x, "int", slot) <=> Holds(op, x, n)
          /\ \A op \in Orders : CompareLeft(op, x, "int", slot) <=> Holds(op, n, x)
=============================================================================
