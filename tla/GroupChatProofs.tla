---------------------------- MODULE GroupChatProofs ----------------------------
(***************************************************************************)
(* What an application may believe of the rooms of GroupChat, for any      *)
(* number of rooms, of other occupants and of calls.                       *)
(*                                                                         *)
(* All of it compares what the client knows of a room with what the room   *)
(* knows, across the queue between them: Known is what the client will     *)
(* know once it has heard all that is on its way.                          *)
(***************************************************************************)
EXTENDS GroupChat, FiniteSetTheorems, SequenceTheorems, TLAPS

(* The object of a room, unless its end is being told, and its occupants.   *)
Kept(j) == Registered(j) /\ leaving # j
Present(j) == IF Kept(j) THEN rooms[j] ELSE {}

(* A queue q speaks of n, errors aside, and says at last that n is there.   *)
Mentioned(q, n) == \E k \in 1..Len(q) : q[k].nick = n /\ q[k].type # "error"
Announced(q, n) ==
  \E k \in 1..Len(q) :
    /\ q[k].nick = n /\ q[k].type = "available"
    /\ \A i \in 1..Len(q) : i > k /\ q[i].nick = n => q[i].type = "error"

(* Is n there, for a client that knows of S and then hears q.               *)
Known(q, S, n) == Announced(q, n) \/ (n \in S /\ ~Mentioned(q, n))

(* What such a client knows when it has heard e.                            *)
Having(S, e) ==
  CASE e.type = "available"   -> S \cup {e.nick}
    [] e.type = "unavailable" -> S \ {e.nick}
    [] e.type = "error"       -> S

Awaited(u) == \E k \in 1..Len(u) : u[k] = "join"
AskedOnce(u) == \A i, k \in 1..Len(u) : u[i] = "join" /\ u[k] = "join" => i = k

(* The rest of a stay, behind position k of q: others come and go, and if   *)
(* the room does not count us in any more that is the last it says.         *)
Stay(q, k, in) ==
  /\ \A i \in 1..Len(q) : i > k =>
       /\ q[i].type # "error"
       /\ q[i].nick = Me => i = Len(q) /\ q[i].type = "unavailable"
  /\ in <=> \A i \in 1..Len(q) : i > k => q[i].nick # Me

(* An admission: others are presented before us.                            *)
Admission(q, in) ==
  \E k \in 1..Len(q) :
    /\ q[k].nick = Me /\ q[k].type = "available"
    /\ \A i \in 1..Len(q) : i < k => q[i].nick # Me /\ q[i].type # "error"
    /\ Stay(q, k, in)

Refusal(q) == Len(q) = 1 /\ q[1].nick = Me /\ q[1].type = "error"

(* One room and a patient application: h is what it has heard, keeps        *)
(* whether there is an object, S its occupants and v the view of them, u    *)
(* and d the queues to the room and back, in whether the room counts us in  *)
(* and m the others that it does.                                           *)
Asking(keeps, S, u, d, in) ==
  /\ keeps /\ Me \notin S
  /\ \/ Awaited(u) /\ AskedOnce(u) /\ d = <<>> /\ ~in /\ S = {}
     \/ ~Awaited(u) /\ Refusal(d) /\ ~in /\ S = {}
     \/ ~Awaited(u) /\ Admission(d, in)

Staying(keeps, S, u, d, in) == keeps /\ Me \in S /\ ~Awaited(u) /\ Stay(d, 0, in)

Patience(h, keeps, S, v, u, d, in, m) ==
  /\ h = "out" => ~Awaited(u) /\ d = <<>> /\ ~in /\ S = {}
  /\ h = "asked" => Asking(keeps, S, u, d, in)
  /\ h = "in" => Staying(keeps, S, u, d, in)
  /\ in => \A n \in Nicks : Known(d, S, n) <=> n \in m \cup {Me}
  /\ v = S \ {Me}

Patient(j) ==
  Patience(heard[j], Kept(j), Present(j), view[j], up[j], down[j], j \in inRoom, members[j])

PatientInv == manner = "patient" => \A j \in Rooms : Patient(j)

(* Whatever the application does: if the client is to believe that we are   *)
(* in a room, we are.                                                       *)
Believed(j) == Known(down[j], Present(j), Me) => j \in inRoom
BelievedInv == \A j \in Rooms : Believed(j)

GInv == TypeOK /\ PatientInv /\ BelievedInv

-----------------------------------------------------------------------------
(* Queues of presences.                                                     *)

LEMMA Saying ==
  ASSUME NEW q \in Seq(Presence), NEW e \in Presence, NEW S, NEW n, NEW p, p = Append(q, e)
  PROVE  /\ p \in Seq(Presence) /\ Len(p) = Len(q) + 1 /\ p[Len(p)] = e
         /\ \A k \in 1..Len(q) : p[k] = q[k]
         /\ Known(p, S, n) <=> IF e.nick = n /\ e.type # "error" THEN e.type = "available"
                                                                 ELSE Known(q, S, n)
<1>1. /\ p \in Seq(Presence) /\ Len(p) = Len(q) + 1 /\ Len(q) \in Nat
      /\ \A k \in 1..Len(q) : p[k] = q[k]
      /\ p[Len(q) + 1] = e
  BY AppendProperties
<1>2. Mentioned(p, n) <=> Mentioned(q, n) \/ (e.nick = n /\ e.type # "error")
  BY <1>1 DEF Mentioned
<1>3. CASE e.nick = n /\ e.type # "error"
  <2>1. Announced(p, n) <=> e.type = "available"
    BY <1>1, <1>3 DEF Announced
  <2> QED BY <1>1, <1>2, <1>3, <2>1 DEF Known
<1>4. CASE ~(e.nick = n /\ e.type # "error")
  <2>1. Announced(p, n) <=> Announced(q, n)
    <3>1. ASSUME Announced(p, n) PROVE Announced(q, n)
      BY <1>1, <1>4, <3>1 DEF Announced, Presence
    <3>2. ASSUME Announced(q, n) PROVE Announced(p, n)
      BY <1>1, <1>4, <3>2 DEF Announced, Presence
    <3> QED BY <3>1, <3>2
  <2> QED BY <1>1, <1>2, <1>4, <2>1 DEF Known
<1> QED BY <1>3, <1>4

(* q begins with e, and p is what is left of it.                            *)
Leads(e, q) == e = q[1]
Behind(p, q) ==
  /\ Len(p) \in Nat /\ Len(q) = Len(p) + 1
  /\ \A k \in 1..Len(p) : p[k] = q[k + 1]

Splits(q, S, e, p) ==
  /\ q # <<>> /\ e \in Presence /\ Leads(e, q) /\ p \in Seq(Presence) /\ Behind(p, q)
  /\ \A n : Known(q, S, n) <=> Known(p, Having(S, e), n)

LEMMA Hearing ==
  ASSUME NEW q \in Seq(Presence), q # <<>>, NEW S
  PROVE  Splits(q, S, Head(q), Tail(q))
<1> DEFINE p == Tail(q)
<1>1. /\ p \in Seq(Presence) /\ q[1] \in Presence /\ Head(q) = q[1]
      /\ Len(q) = Len(p) + 1 /\ Len(p) \in Nat
      /\ \A k \in 1..Len(p) : p[k] = q[k + 1]
      /\ \A k \in 1..Len(q) : k > 1 => k - 1 \in 1..Len(p) /\ q[k] = p[k - 1]
  BY HeadTailProperties
<1> DEFINE e == q[1]
<1> HIDE DEF p
<1> SUFFICES ASSUME NEW n PROVE Known(q, S, n) <=> Known(p, Having(S, e), n)
  BY <1>1 DEF p, Splits, Behind, Leads
<1>2. Mentioned(q, n) <=> Mentioned(p, n) \/ (e.nick = n /\ e.type # "error")
  <2>1. ASSUME Mentioned(q, n) PROVE Mentioned(p, n) \/ (e.nick = n /\ e.type # "error")
    <3>1. PICK k \in 1..Len(q) : q[k].nick = n /\ q[k].type # "error"
      BY <2>1 DEF Mentioned
    <3>2. CASE k = 1
      BY <3>1, <3>2
    <3>3. CASE k # 1
      <4>1. k - 1 \in 1..Len(p) /\ p[k - 1] = q[k]
        BY <1>1, <3>3
      <4>2. PICK i \in 1..Len(p) : p[i] = q[k]
        BY <4>1
      <4> QED BY <3>1, <4>2 DEF Mentioned
    <3> QED BY <3>2, <3>3
  <2>2. ASSUME Mentioned(p, n) PROVE Mentioned(q, n)
    <3>1. PICK k \in 1..Len(p) : p[k].nick = n /\ p[k].type # "error"
      BY <2>2 DEF Mentioned
    <3>2. k + 1 \in 1..Len(q) /\ p[k] = q[k + 1]
      BY <1>1
    <3> QED BY <3>1, <3>2 DEF Mentioned
  <2>3. e.nick = n /\ e.type # "error" => Mentioned(q, n)
    BY <1>1 DEF Mentioned
  <2> QED BY <2>1, <2>2, <2>3
<1>3. Announced(q, n)
        <=> Announced(p, n) \/ (e.nick = n /\ e.type = "available" /\ ~Mentioned(p, n))
  <2>1. ASSUME Announced(q, n), ~Announced(p, n)
        PROVE  e.nick = n /\ e.type = "available" /\ ~Mentioned(p, n)
    <3>1. PICK k \in 1..Len(q) :
            /\ q[k].nick = n /\ q[k].type = "available"
            /\ \A i \in 1..Len(q) : i > k /\ q[i].nick = n => q[i].type = "error"
      BY <2>1 DEF Announced
    <3>2. CASE k = 1
      BY <1>1, <3>1, <3>2 DEF Mentioned
    <3>3. CASE k # 1
      <4>1. k - 1 \in 1..Len(p) /\ p[k - 1] = q[k]
        BY <1>1, <3>3
      <4>2. ASSUME NEW i \in 1..Len(p), i > k - 1, p[i].nick = n PROVE p[i].type = "error"
        <5>1. i + 1 \in 1..Len(q) /\ p[i] = q[i + 1] /\ i + 1 > k
          BY <1>1, <4>2
        <5> QED BY <3>1, <4>2, <5>1
      <4> QED BY <2>1, <3>1, <4>1, <4>2 DEF Announced
    <3> QED BY <3>2, <3>3
  <2>2. ASSUME Announced(p, n) PROVE Announced(q, n)
    <3>1. PICK k \in 1..Len(p) :
            /\ p[k].nick = n /\ p[k].type = "available"
            /\ \A i \in 1..Len(p) : i > k /\ p[i].nick = n => p[i].type = "error"
      BY <2>2 DEF Announced
    <3>2. k + 1 \in 1..Len(q) /\ p[k] = q[k + 1]
      BY <1>1
    <3>3. ASSUME NEW i \in 1..Len(q), i > k + 1, q[i].nick = n PROVE q[i].type = "error"
      <4>1. i - 1 \in 1..Len(p) /\ q[i] = p[i - 1] /\ i - 1 > k
        BY <1>1, <3>3
      <4> QED BY <3>1, <3>3, <4>1
    <3> QED BY <3>1, <3>2, <3>3 DEF Announced
  <2>3. ASSUME e.nick = n, e.type = "available", ~Mentioned(p, n) PROVE Announced(q, n)
    <3>1. ASSUME NEW i \in 1..Len(q), i > 1, q[i].nick = n PROVE q[i].type = "error"
      <4>1. i - 1 \in 1..Len(p) /\ q[i] = p[i - 1]
        BY <1>1, <3>1
      <4> QED BY <2>3, <3>1, <4>1 DEF Mentioned
    <3>2. 1 \in 1..Len(q)
      BY <1>1
    <3> QED BY <2>3, <3>1, <3>2 DEF Announced
  <2> QED BY <2>1, <2>2, <2>3
<1>4. Announced(p, n) => Mentioned(p, n)
  BY DEF Announced, Mentioned
<1>5. e.type \in {"available", "unavailable", "error"}
  BY <1>1 DEF Presence
<1> HIDE DEF e
<1>6. n \in Having(S, e) <=>
        \/ e.type = "available" /\ (n \in S \/ n = e.nick)
        \/ e.type = "unavailable" /\ n \in S /\ n # e.nick
        \/ e.type = "error" /\ n \in S
  BY <1>5 DEF Having
<1>7. Known(q, S, n) <=> Known(p, Having(S, e), n)
  BY <1>2, <1>3, <1>4, <1>5, <1>6 DEF Known
<1> QED BY <1>7 DEF e

(* What a room says to one it admits.                                       *)
Introduced(M) ==
  [i \in 1..(Cardinality(M) + 1) |->
     [nick |-> Append(SetToSeq(M), Me)[i], type |-> "available"]]

LEMMA Introducing ==
  ASSUME NEW M \in Occupancies, NEW p, p = Introduced(M)
  PROVE  /\ p \in Seq(Presence) /\ p # <<>>
         /\ Admission(p, TRUE)
         /\ \A n : Known(p, {}, n) <=> n \in M \cup {Me}
<1> DEFINE N == Cardinality(M)
           s == SetToSeq(M)
<1>1. M \subseteq Others /\ IsFiniteSet(M) /\ N \in Nat /\ Me \notin M
  BY FS_CardinalityType, RoomAssumption DEF Occupancies
<1>2. s \in Injection(1..N, M)
  <2>1. PICK f \in [1..N -> M] : IsInjective(f)
    BY <1>1, FS_CardinalityType DEF ExistsBijection, Bijection, Injection
  <2> QED BY <2>1 DEF SetToSeq, Injection
<1>3. s \in Surjection(1..N, M)
  <2>1. Cardinality(1..N) = N
    BY <1>1, FS_Interval
  <2> QED BY <1>1, <1>2, <2>1, FS_Injection
<1>4. /\ s \in Seq(M) /\ Len(s) = N
      /\ \A i, k \in 1..N : s[i] = s[k] => i = k
      /\ \A n \in M : \E i \in 1..N : s[i] = n
  BY <1>1, <1>2, <1>3 DEF Injection, Surjection, IsInjective
<1> HIDE DEF N, s
<1> DEFINE t == Append(s, Me)
<1>5. /\ t \in Seq(M \cup {Me}) /\ Len(t) = N + 1
      /\ \A i \in 1..N : t[i] = s[i] /\ s[i] \in M
      /\ t[N + 1] = Me
  <2>1. s \in Seq(M \cup {Me})
    BY <1>4
  <2> QED BY <2>1, <1>4, AppendProperties
<1> HIDE DEF t
<1>6. /\ \A i \in 1..(N + 1) : t[i] \in M \cup {Me}
      /\ \A i, k \in 1..(N + 1) : t[i] = t[k] => i = k
      /\ \A n \in M \cup {Me} : \E i \in 1..(N + 1) : t[i] = n
      /\ \A i \in 1..(N + 1) : i < N + 1 => t[i] # Me
  BY <1>1, <1>4, <1>5
<1>7. p = [i \in 1..(N + 1) |-> [nick |-> t[i], type |-> "available"]]
  BY DEF Introduced, N, s, t
<1>8. /\ p \in Seq(Presence) /\ Len(p) = N + 1
      /\ \A i \in 1..(N + 1) : p[i].nick = t[i] /\ p[i].type = "available"
  <2>1. \A i \in 1..(N + 1) : [nick |-> t[i], type |-> "available"] \in Presence
    BY <1>1, <1>6 DEF Presence, Nicks
  <2>2. p \in [1..(N + 1) -> Presence]
    BY <1>7, <2>1
  <2> QED BY <1>1, <1>7, <2>2
<1>9. Admission(p, TRUE)
  <2>1. /\ N + 1 \in 1..Len(p) /\ p[N + 1].nick = Me /\ p[N + 1].type = "available"
        /\ \A i \in 1..Len(p) : i < N + 1 => p[i].nick # Me /\ p[i].type # "error"
        /\ Stay(p, N + 1, TRUE)
    BY <1>1, <1>5, <1>6, <1>8 DEF Stay
  <2> QED BY <2>1 DEF Admission
<1>10. ASSUME NEW n PROVE Known(p, {}, n) <=> n \in M \cup {Me}
  <2>1. ASSUME n \in M \cup {Me} PROVE Announced(p, n)
    <3>1. PICK k \in 1..(N + 1) : t[k] = n
      BY <1>6, <2>1
    <3>2. \A i \in 1..(N + 1) : i > k => t[i] # n
      BY <1>1, <1>6, <3>1
    <3> QED BY <1>8, <3>1, <3>2 DEF Announced
  <2>2. Announced(p, n) => n \in M \cup {Me}
    BY <1>6, <1>8 DEF Announced
  <2> QED BY <2>1, <2>2 DEF Known
<1>11. p # <<>>
  BY <1>1, <1>8, EmptySeq
<1> QED BY <1>8, <1>9, <1>10, <1>11

(* Queues of our own requests.                                              *)
LEMMA Asks ==
  ASSUME NEW u \in Seq({"join", "leave"}), NEW x \in {"join", "leave"}, NEW p, p = Append(u, x)
  PROVE  /\ p \in Seq({"join", "leave"})
         /\ x = "leave" => (Awaited(p) <=> Awaited(u)) /\ (AskedOnce(u) => AskedOnce(p))
         /\ x = "join" /\ ~Awaited(u) => Awaited(p) /\ AskedOnce(p)
<1>1. /\ p \in Seq({"join", "leave"}) /\ Len(p) = Len(u) + 1 /\ Len(u) \in Nat
      /\ \A k \in 1..Len(u) : p[k] = u[k]
      /\ p[Len(u) + 1] = x
  BY AppendProperties
<1>2. x = "leave" => (Awaited(p) <=> Awaited(u)) /\ (AskedOnce(u) => AskedOnce(p))
  BY <1>1 DEF Awaited, AskedOnce
<1>3. x = "join" /\ ~Awaited(u) => Awaited(p) /\ AskedOnce(p)
  BY <1>1 DEF Awaited, AskedOnce
<1> QED BY <1>1, <1>2, <1>3

LEMMA IsAsked ==
  ASSUME NEW u \in Seq({"join", "leave"}), u # <<>>, NEW p, p = Tail(u)
  PROVE  /\ p \in Seq({"join", "leave"})
         /\ Head(u) = "leave" => (Awaited(p) <=> Awaited(u)) /\ (AskedOnce(u) => AskedOnce(p))
         /\ Head(u) = "join" => Awaited(u) /\ (AskedOnce(u) => ~Awaited(p))
<1>1. /\ p \in Seq({"join", "leave"}) /\ Head(u) = u[1]
      /\ Len(u) = Len(p) + 1 /\ Len(p) \in Nat
      /\ \A k \in 1..Len(p) : k + 1 \in 1..Len(u) /\ p[k] = u[k + 1]
      /\ \A k \in 1..Len(u) : k > 1 => k - 1 \in 1..Len(p) /\ u[k] = p[k - 1]
  BY HeadTailProperties
<1>2. 1 \in 1..Len(u)
  BY <1>1
<1>3. AskedOnce(u) => AskedOnce(p)
  BY <1>1 DEF AskedOnce
<1>4. Awaited(p) => Awaited(u)
  <2>1. SUFFICES ASSUME NEW k \in 1..Len(p), p[k] = "join" PROVE Awaited(u)
    BY DEF Awaited
  <2>2. k + 1 \in 1..Len(u) /\ u[k + 1] = "join"
    BY <1>1, <2>1
  <2> QED BY <2>2 DEF Awaited
<1>5. Awaited(u) /\ Head(u) = "leave" => Awaited(p)
  <2>1. SUFFICES ASSUME NEW k \in 1..Len(u), u[k] = "join", u[1] = "leave" PROVE Awaited(p)
    BY <1>1 DEF Awaited
  <2>2. k > 1
    BY <1>1, <2>1
  <2>3. k - 1 \in 1..Len(p) /\ p[k - 1] = "join"
    BY <1>1, <2>1, <2>2
  <2> QED BY <2>3 DEF Awaited
<1>6. Head(u) = "join" => Awaited(u)
  BY <1>1, <1>2 DEF Awaited
<1>7. ASSUME Head(u) = "join", AskedOnce(u) PROVE ~Awaited(p)
  <2>1. SUFFICES ASSUME NEW k \in 1..Len(p), p[k] = "join" PROVE FALSE
    BY DEF Awaited
  <2>2. k + 1 \in 1..Len(u) /\ u[k + 1] = "join" /\ k + 1 # 1
    BY <1>1, <2>1
  <2> QED BY <1>1, <1>2, <1>7, <2>2 DEF AskedOnce
<1> QED BY <1>1, <1>3, <1>4, <1>5, <1>6, <1>7

(* The answers to a patient application, as it hears them.                  *)
LEMMA StayBehind ==
  ASSUME NEW q, NEW in \in BOOLEAN, NEW p, Behind(p, q), NEW e, Leads(e, q)
  PROVE  /\ Refusal(q) => e.nick = Me /\ e.type = "error" /\ Len(p) = 0
         /\ Stay(q, 0, in) =>
              /\ e.type # "error"
              /\ e.nick = Me => e.type = "unavailable" /\ Len(p) = 0 /\ ~in
              /\ e.nick # Me => Stay(p, 0, in)
         /\ Admission(q, in) =>
              /\ e.type # "error"
              /\ e.nick = Me => e.type = "available" /\ Stay(p, 0, in)
              /\ e.nick # Me => Admission(p, in)
<1>1. /\ Len(q) = Len(p) + 1 /\ Len(p) \in Nat
      /\ \A k \in 1..Len(p) : k + 1 \in 1..Len(q) /\ p[k] = q[k + 1]
      /\ \A k \in 1..Len(q) : k > 1 => k - 1 \in 1..Len(p) /\ q[k] = p[k - 1]
      /\ 1 \in 1..Len(q) /\ e = q[1]
  BY DEF Behind, Leads
<1>0. Len(q) = Len(p) + 1 /\ Len(p) \in Nat /\ e = q[1] /\ 1 \in 1..Len(q) /\ 1 > 0
  BY <1>1
<1>3. Refusal(q) => e.nick = Me /\ e.type = "error" /\ Len(p) = 0
  <2>1. Refusal(q) => Len(q) = 1 /\ e.nick = Me /\ e.type = "error"
    BY <1>0 DEF Refusal
  <2>2. Len(q) # 1 \/ Len(p) = 0
    BY <1>0
  <2> QED BY <2>1, <2>2
<1>4. ASSUME Stay(q, 0, in)
      PROVE  /\ e.type # "error"
             /\ e.nick = Me => e.type = "unavailable" /\ Len(p) = 0 /\ ~in
             /\ e.nick # Me => Stay(p, 0, in)
  <2>0. /\ \A i \in 1..Len(q) :
             /\ q[i].type # "error"
             /\ q[i].nick = Me => i = Len(q) /\ q[i].type = "unavailable"
        /\ in <=> \A i \in 1..Len(q) : i > 0 => q[i].nick # Me
    BY <1>4 DEF Stay
  <2>1. e.type # "error" /\ (e.nick = Me => e.type = "unavailable" /\ Len(p) = 0 /\ ~in)
    <3>1. e.type # "error" /\ (e.nick = Me => 1 = Len(q) /\ e.type = "unavailable" /\ ~in)
      BY <1>0, <2>0
    <3>2. 1 = Len(q) => Len(p) = 0
      BY <1>0
    <3> QED BY <3>1, <3>2
  <2>2. ASSUME e.nick # Me PROVE Stay(p, 0, in)
    <3>1. ASSUME NEW i \in 1..Len(p)
          PROVE  /\ p[i].type # "error"
                 /\ p[i].nick = Me => i = Len(p) /\ p[i].type = "unavailable"
      <4>1. i + 1 \in 1..Len(q) /\ p[i] = q[i + 1]
        BY <1>1
      <4>2. i + 1 = Len(q) => i = Len(p)
        BY <1>0
      <4> QED BY <2>0, <4>1, <4>2
    <3>2. (\A i \in 1..Len(q) : i > 0 => q[i].nick # Me)
             <=> (\A i \in 1..Len(p) : i > 0 => p[i].nick # Me)
      <4>1. ASSUME \A i \in 1..Len(q) : i > 0 => q[i].nick # Me, NEW i \in 1..Len(p)
            PROVE  p[i].nick # Me
        <5>1. i + 1 \in 1..Len(q) /\ p[i] = q[i + 1] /\ i + 1 > 0
          BY <1>1
        <5> QED BY <4>1, <5>1
      <4>2. ASSUME \A i \in 1..Len(p) : i > 0 => p[i].nick # Me, NEW i \in 1..Len(q)
            PROVE  q[i].nick # Me
        <5>1. CASE i = 1
          BY <1>1, <2>2, <5>1
        <5>2. CASE i > 1
          <6>1. i - 1 \in 1..Len(p) /\ q[i] = p[i - 1] /\ i - 1 > 0
            BY <1>1, <5>2
          <6> QED BY <4>2, <6>1
        <5> QED BY <1>1, <5>1, <5>2
      <4> QED BY <4>1, <4>2
    <3> QED BY <2>0, <3>1, <3>2 DEF Stay
  <2> QED BY <2>1, <2>2
<1>5. ASSUME Admission(q, in)
      PROVE  /\ e.type # "error"
             /\ e.nick = Me => e.type = "available" /\ Stay(p, 0, in)
             /\ e.nick # Me => Admission(p, in)
  <2>1. PICK k \in 1..Len(q) :
          /\ q[k].nick = Me /\ q[k].type = "available"
          /\ \A i \in 1..Len(q) : i < k => q[i].nick # Me /\ q[i].type # "error"
          /\ Stay(q, k, in)
    BY <1>5 DEF Admission
  <2>2. /\ \A i \in 1..Len(q) : i > k =>
             /\ q[i].type # "error"
             /\ q[i].nick = Me => i = Len(q) /\ q[i].type = "unavailable"
        /\ in <=> \A i \in 1..Len(q) : i > k => q[i].nick # Me
    BY <2>1 DEF Stay
  <2>3. Stay(p, k - 1, in)
    <3>1. ASSUME NEW i \in 1..Len(p), i > k - 1
          PROVE  /\ p[i].type # "error"
                 /\ p[i].nick = Me => i = Len(p) /\ p[i].type = "unavailable"
      <4>1. i + 1 \in 1..Len(q) /\ p[i] = q[i + 1] /\ i + 1 > k
        BY <1>1, <3>1
      <4>2. i + 1 = Len(q) => i = Len(p)
        BY <1>0
      <4> QED BY <2>2, <4>1, <4>2
    <3>2. (\A i \in 1..Len(q) : i > k => q[i].nick # Me)
             <=> (\A i \in 1..Len(p) : i > k - 1 => p[i].nick # Me)
      <4>1. ASSUME \A i \in 1..Len(q) : i > k => q[i].nick # Me, NEW i \in 1..Len(p), i > k - 1
            PROVE  p[i].nick # Me
        <5>1. i + 1 \in 1..Len(q) /\ p[i] = q[i + 1] /\ i + 1 > k
          BY <1>1, <4>1
        <5> QED BY <4>1, <5>1
      <4>2. ASSUME \A i \in 1..Len(p) : i > k - 1 => p[i].nick # Me, NEW i \in 1..Len(q), i > k
            PROVE  q[i].nick # Me
        <5>1. i - 1 \in 1..Len(p) /\ q[i] = p[i - 1] /\ i - 1 > k - 1
          BY <1>1, <4>2
        <5> QED BY <4>2, <5>1
      <4> QED BY <4>1, <4>2
    <3> QED BY <2>2, <3>1, <3>2 DEF Stay
  <2>4. CASE k = 1
    BY <1>1, <2>1, <2>3, <2>4
  <2>5. CASE k # 1
    <3>1. k - 1 \in 1..Len(p) /\ p[k - 1] = q[k]
      BY <1>1, <2>5
    <3>2. ASSUME NEW i \in 1..Len(p), i < k - 1
          PROVE  p[i].nick # Me /\ p[i].type # "error"
      <4>1. i + 1 \in 1..Len(q) /\ p[i] = q[i + 1] /\ i + 1 < k
        BY <1>1, <3>2
      <4> QED BY <2>1, <4>1
    <3>3. Admission(p, in)
      BY <2>1, <2>3, <3>1, <3>2 DEF Admission
    <3>4. q[1].nick # Me /\ q[1].type # "error"
      BY <1>1, <2>1, <2>5
    <3> QED BY <1>1, <3>3, <3>4
  <2> QED BY <2>4, <2>5
<1> QED BY <1>3, <1>4, <1>5

(* What a room goes on to say of the others, and of us at the end.          *)
LEMMA StayGoesOn ==
  ASSUME NEW q \in Seq(Presence), NEW e \in Presence, NEW p, p = Append(q, e),
         e.nick = Me => e.type = "unavailable", e.type # "error"
  PROVE  /\ Stay(q, 0, TRUE) => Stay(p, 0, e.nick # Me)
         /\ Admission(q, TRUE) => Admission(p, e.nick # Me)
<1>1. /\ Len(p) = Len(q) + 1 /\ Len(q) \in Nat
      /\ \A k \in 1..Len(q) : p[k] = q[k]
      /\ p[Len(q) + 1] = e
  BY AppendProperties
<1>2. ASSUME NEW k \in 0..Len(q), Stay(q, k, TRUE) PROVE Stay(p, k, e.nick # Me)
  <2>1. /\ \A i \in 1..Len(q) : i > k =>
             /\ q[i].type # "error"
             /\ q[i].nick # Me
    BY <1>2 DEF Stay
  <2>2. \A i \in 1..Len(p) : i \in 1..Len(q) \/ i = Len(q) + 1
    BY <1>1
  <2> QED BY <1>1, <2>1, <2>2 DEF Stay
<1>3. ASSUME Admission(q, TRUE) PROVE Admission(p, e.nick # Me)
  <2>1. PICK k \in 1..Len(q) :
          /\ q[k].nick = Me /\ q[k].type = "available"
          /\ \A i \in 1..Len(q) : i < k => q[i].nick # Me /\ q[i].type # "error"
          /\ Stay(q, k, TRUE)
    BY <1>3 DEF Admission
  <2>2. k \in 0..Len(q) /\ k \in 1..Len(p) /\ p[k] = q[k]
    BY <1>1
  <2>4. Stay(p, k, e.nick # Me)
    BY <1>2, <2>1, <2>2
  <2>3. \A i \in 1..Len(p) : i < k => p[i].nick # Me /\ p[i].type # "error"
    BY <1>1, <2>1
  <2> QED BY <2>1, <2>2, <2>3, <2>4 DEF Admission
<1>4. 0 \in 0..Len(q)
  BY <1>1
<1> QED BY <1>2, <1>3, <1>4

-----------------------------------------------------------------------------
(* The steps of one room, for a patient application.                        *)

LEMMA MeIsNoOther == Me \in Nicks /\ Me \notin Others /\ Nicks = Others \cup {Me}
BY RoomAssumption DEF Nicks

(* Of which types all of it is.                                             *)
OneRoom(h, keeps, S, u, d, in, m) ==
  /\ h \in {"out", "asked", "in"} /\ keeps \in BOOLEAN /\ in \in BOOLEAN
  /\ S \in SUBSET Nicks /\ m \in SUBSET Others
  /\ u \in Seq({"join", "leave"}) /\ d \in Seq(Presence)

(* What we ask for.                                                         *)
LEMMA PatientAsks ==
  ASSUME NEW h, NEW keeps, NEW S, NEW v, NEW u, NEW d, NEW in, NEW m,
         OneRoom(h, keeps, S, u, d, in, m), Patience(h, keeps, S, v, u, d, in, m)
  PROVE  /\ h = "out" => Patience("asked", TRUE, {}, v, Append(u, "join"), d, in, m)
         /\ Patience(h, keeps, S, v, Append(u, "leave"), d, in, m)
<1> /\ h \in {"out", "asked", "in"} /\ keeps \in BOOLEAN /\ in \in BOOLEAN
    /\ S \in SUBSET Nicks /\ m \in SUBSET Others
    /\ u \in Seq({"join", "leave"}) /\ d \in Seq(Presence)
  BY DEF OneRoom
<1>1. ASSUME h = "out" PROVE Patience("asked", TRUE, {}, v, Append(u, "join"), d, in, m)
  <2> DEFINE w == Append(u, "join")
  <2>1. ~Awaited(u) /\ d = <<>> /\ ~in /\ S = {} /\ v = {}
    BY <1>1 DEF Patience
  <2>2. Awaited(w) /\ AskedOnce(w)
    BY <2>1, Asks
  <2> HIDE DEF w
  <2>3. Asking(TRUE, {}, w, d, in)
    BY <2>1, <2>2 DEF Asking
  <2>4. Patience("asked", TRUE, {}, v, w, d, in, m)
    BY <2>1, <2>3 DEF Patience
  <2> QED BY <2>4 DEF w
<1>2. Patience(h, keeps, S, v, Append(u, "leave"), d, in, m)
  <2> DEFINE w == Append(u, "leave")
  <2>1. (Awaited(w) <=> Awaited(u)) /\ (AskedOnce(u) => AskedOnce(w))
    BY Asks
  <2> HIDE DEF w
  <2>2. Asking(keeps, S, u, d, in) => Asking(keeps, S, w, d, in)
    BY <2>1 DEF Asking
  <2>3. Staying(keeps, S, u, d, in) => Staying(keeps, S, w, d, in)
    BY <2>1 DEF Staying
  <2> QED BY <2>1, <2>2, <2>3 DEF Patience, w
<1> QED BY <1>1, <1>2

(* What the hook of the room object hears.                                  *)
LEMMA PatientHears ==
  ASSUME NEW h, NEW keeps, NEW S, NEW v, NEW u, NEW d, NEW in, NEW m,
         OneRoom(h, keeps, S, u, d, in, m), Patience(h, keeps, S, v, u, d, in, m),
         NEW p, NEW e, Splits(d, S, e, p)
  PROVE  /\ keeps = TRUE
         /\ e.type = "error" => Patience("out", keeps, S, v, u, p, in, m)
         /\ e.nick = Me /\ e.type = "available" =>
              Me \notin S /\ Patience("in", keeps, S \cup {Me}, v, u, p, in, m)
         /\ e.nick = Me /\ e.type = "unavailable" =>
              Me \in S /\ Patience("out", FALSE, {}, {}, u, p, in, m)
         /\ e.nick # Me =>
              /\ e.type # "error"
              /\ Patience(h, keeps, Having(S, e), Having(S, e) \ {Me}, u, p, in, m)
<1> /\ h \in {"out", "asked", "in"} /\ keeps \in BOOLEAN /\ in \in BOOLEAN
    /\ S \in SUBSET Nicks /\ m \in SUBSET Others
    /\ u \in Seq({"join", "leave"}) /\ d \in Seq(Presence)
  BY DEF OneRoom
<1>1. /\ d # <<>> /\ p \in Seq(Presence) /\ Behind(p, d) /\ e \in Presence /\ Leads(e, d)
      /\ \A n : Known(d, S, n) <=> Known(p, Having(S, e), n)
  BY DEF Splits
<1>2. /\ Refusal(d) => e.nick = Me /\ e.type = "error" /\ Len(p) = 0
      /\ Stay(d, 0, in) =>
           /\ e.type # "error"
           /\ e.nick = Me => e.type = "unavailable" /\ Len(p) = 0 /\ ~in
           /\ e.nick # Me => Stay(p, 0, in)
      /\ Admission(d, in) =>
           /\ e.type # "error"
           /\ e.nick = Me => e.type = "available" /\ Stay(p, 0, in)
           /\ e.nick # Me => Admission(p, in)
  BY <1>1, StayBehind
<1>3. Len(p) = 0 => p = <<>>
  BY <1>1, EmptySeq
<1>4. \A n \in Nicks : in => (Known(p, Having(S, e), n) <=> n \in m \cup {Me})
  BY <1>1 DEF Patience
<1>5. e.nick \in Nicks /\ e.type \in {"available", "unavailable", "error"}
  BY <1>1 DEF Presence
<1>6. /\ v = S \ {Me}
      /\ \/ h = "asked" /\ Asking(keeps, S, u, d, in)
         \/ h = "in" /\ Staying(keeps, S, u, d, in)
  BY <1>1 DEF Patience
<1>7. CASE e.type = "error"
  <2>1. Refusal(d) /\ keeps /\ ~Awaited(u) /\ ~in /\ S = {} /\ p = <<>> /\ e.nick = Me
    BY <1>1, <1>2, <1>3, <1>6, <1>7 DEF Asking, Staying
  <2> QED BY <1>6, <1>7, <2>1 DEF Patience
<1>8. CASE e.nick = Me /\ e.type = "available"
  <2>1. h = "asked" /\ Me \notin S /\ keeps /\ ~Awaited(u) /\ Stay(p, 0, in)
    BY <1>1, <1>2, <1>6, <1>8 DEF Asking, Staying
  <2>2. Having(S, e) = S \cup {Me}
    BY <1>8 DEF Having
  <2> QED BY <1>4, <1>6, <1>8, <2>1, <2>2 DEF Patience, Staying
<1>9. CASE e.nick = Me /\ e.type = "unavailable"
  <2>1. Me \in S /\ keeps /\ ~Awaited(u) /\ ~in /\ p = <<>>
    BY <1>1, <1>2, <1>3, <1>6, <1>9 DEF Asking, Staying
  <2> QED BY <1>9, <2>1 DEF Patience
<1>10. CASE e.nick # Me
  <2>1. /\ keeps /\ ~Awaited(u) /\ e.type # "error"
        /\ h = "asked" => Me \notin S /\ Admission(p, in)
        /\ h = "in" => Me \in S /\ Stay(p, 0, in)
    BY <1>1, <1>2, <1>6, <1>10 DEF Asking, Staying
  <2>2. Me \in Having(S, e) <=> Me \in S
    BY <1>5, <1>10 DEF Having
  <2> QED BY <1>4, <1>6, <1>10, <2>1, <2>2 DEF Patience, Asking, Staying
<1> QED BY <1>5, <1>7, <1>8, <1>9, <1>10

(* What the room does about our requests.                                   *)
LEMMA PatientIsHeard ==
  ASSUME NEW h, NEW keeps, NEW S, NEW v, NEW u, NEW d, NEW in, NEW m,
         OneRoom(h, keeps, S, u, d, in, m), Patience(h, keeps, S, v, u, d, in, m),
         u # <<>>
  PROVE  /\ Head(u) = "join" =>
              /\ ~in
              /\ m \in Occupancies => Patience(h, keeps, S, v, Tail(u), d \o Introduced(m), TRUE, m)
              /\ Patience(h, keeps, S, v, Tail(u),
                          Append(d, [nick |-> Me, type |-> "error"]), in, m)
         /\ Head(u) = "leave" => Patience(h, keeps, S, v, Tail(u), d, in, m)
<1> /\ h \in {"out", "asked", "in"} /\ keeps \in BOOLEAN /\ in \in BOOLEAN
    /\ S \in SUBSET Nicks /\ m \in SUBSET Others
    /\ u \in Seq({"join", "leave"}) /\ d \in Seq(Presence)
  BY DEF OneRoom
<1> DEFINE w == Tail(u)
<1>1. /\ Head(u) = "leave" => (Awaited(w) <=> Awaited(u)) /\ (AskedOnce(u) => AskedOnce(w))
      /\ Head(u) = "join" => Awaited(u) /\ (AskedOnce(u) => ~Awaited(w))
  BY IsAsked
<1> HIDE DEF w
<1>2. ASSUME Head(u) = "join"
      PROVE  /\ ~in
             /\ m \in Occupancies => Patience(h, keeps, S, v, w, d \o Introduced(m), TRUE, m)
             /\ Patience(h, keeps, S, v, w, Append(d, [nick |-> Me, type |-> "error"]), in, m)
  <2>1. /\ h = "asked" /\ keeps /\ d = <<>> /\ ~in /\ S = {} /\ v = {}
        /\ ~Awaited(w)
    BY <1>1, <1>2 DEF Patience, Asking, Staying
  <2>2. ASSUME m \in Occupancies PROVE Patience(h, keeps, S, v, w, d \o Introduced(m), TRUE, m)
    <3> DEFINE p == Introduced(m)
    <3>1. /\ p \in Seq(Presence) /\ Admission(p, TRUE)
          /\ \A n : Known(p, {}, n) <=> n \in m \cup {Me}
      BY <2>2, Introducing
    <3> HIDE DEF p
    <3>2. d \o p = p
      BY <2>1, <3>1, ConcatEmptySeq
    <3>3. Patience(h, keeps, S, v, w, p, TRUE, m)
      BY <2>1, <3>1 DEF Patience, Asking
    <3> QED BY <3>2, <3>3 DEF p
  <2>3. Patience(h, keeps, S, v, w, Append(d, [nick |-> Me, type |-> "error"]), in, m)
    <3> DEFINE e == [nick |-> Me, type |-> "error"]
               p == Append(d, e)
    <3>1. e \in Presence /\ e.nick = Me /\ e.type = "error"
      BY MeIsNoOther DEF Presence
    <3> HIDE DEF e
    <3>2. Len(p) = Len(d) + 1 /\ p[Len(p)] = e
      BY <3>1, Saying
    <3>3. Len(d) = 0
      BY <2>1, EmptySeq
    <3> HIDE DEF p
    <3>4. Refusal(p)
      BY <3>1, <3>2, <3>3 DEF Refusal
    <3>5. Patience(h, keeps, S, v, w, p, in, m)
      BY <2>1, <3>4 DEF Patience, Asking
    <3> QED BY <3>5 DEF p, e
  <2> QED BY <2>1, <2>2, <2>3
<1>3. ASSUME Head(u) = "leave" PROVE Patience(h, keeps, S, v, w, d, in, m)
  <2>2. Asking(keeps, S, u, d, in) => Asking(keeps, S, w, d, in)
    BY <1>1, <1>3 DEF Asking
  <2>3. Staying(keeps, S, u, d, in) => Staying(keeps, S, w, d, in)
    BY <1>1, <1>3 DEF Staying
  <2> QED BY <1>1, <1>3, <2>2, <2>3 DEF Patience
<1> QED BY <1>2, <1>3 DEF w

(* What the room tells one who is in, and the others who come and go        *)
(* unseen by one who is not.                                                *)
LEMMA PatientIsTold ==
  ASSUME NEW h, NEW keeps, NEW S, NEW v, NEW u, NEW d, NEW in, NEW m,
         OneRoom(h, keeps, S, u, d, in, m), Patience(h, keeps, S, v, u, d, in, m),
         NEW e \in Presence, e.type \in {"available", "unavailable"},
         e.nick = Me => e.type = "unavailable"
  PROVE  /\ in /\ e.nick = Me => Patience(h, keeps, S, v, u, Append(d, e), FALSE, m)
         /\ in /\ e.nick # Me => Patience(h, keeps, S, v, u, Append(d, e), in, Having(m, e))
         /\ ~in => \A o : Patience(h, keeps, S, v, u, d, in, o)
<1> /\ h \in {"out", "asked", "in"} /\ keeps \in BOOLEAN /\ in \in BOOLEAN
    /\ S \in SUBSET Nicks /\ m \in SUBSET Others
    /\ u \in Seq({"join", "leave"}) /\ d \in Seq(Presence)
  BY DEF OneRoom
<1>1. ASSUME in PROVE
        LET o == IF e.nick = Me THEN m ELSE Having(m, e)
        IN  Patience(h, keeps, S, v, u, Append(d, e), e.nick # Me, o)
  <2> DEFINE p == Append(d, e)
             o == IF e.nick = Me THEN m ELSE Having(m, e)
  <2>1. \A n : Known(p, S, n) <=> IF e.nick = n THEN e.type = "available" ELSE Known(d, S, n)
    <3>1. ASSUME NEW n
          PROVE  Known(p, S, n) <=> IF e.nick = n THEN e.type = "available" ELSE Known(d, S, n)
      <4>1. Known(p, S, n) <=> IF e.nick = n /\ e.type # "error" THEN e.type = "available"
                                                                  ELSE Known(d, S, n)
        BY Saying
      <4> QED BY <4>1
    <3> QED BY <3>1
  <2>2. /\ Stay(d, 0, TRUE) => Stay(p, 0, e.nick # Me)
        /\ Admission(d, TRUE) => Admission(p, e.nick # Me)
    BY StayGoesOn
  <2> HIDE DEF p
  <2>3. \A n \in Nicks : Known(d, S, n) <=> n \in m \cup {Me}
    BY <1>1 DEF Patience
  <2>4. ASSUME e.nick # Me, NEW n \in Nicks PROVE Known(p, S, n) <=> n \in o \cup {Me}
    <3>1. n \in o <=> IF e.nick = n THEN e.type = "available" ELSE n \in m
      BY <2>4 DEF Having
    <3> QED BY <2>1, <2>3, <2>4, <3>1
  <2>5. /\ in = TRUE /\ h # "out" /\ v = S \ {Me}
        /\ h = "asked" => Asking(keeps, S, u, d, TRUE)
        /\ h = "in" => Staying(keeps, S, u, d, TRUE)
    BY <1>1 DEF Patience
  <2>6. h = "asked" => Asking(keeps, S, u, p, e.nick # Me)
    BY <2>2, <2>5 DEF Asking, Refusal
  <2>7. h = "in" => Staying(keeps, S, u, p, e.nick # Me)
    BY <2>2, <2>5 DEF Staying
  <2>8. Patience(h, keeps, S, v, u, p, e.nick # Me, o)
    BY <2>4, <2>5, <2>6, <2>7 DEF Patience
  <2> QED BY <2>8 DEF p
<1>2. ~in => \A o : Patience(h, keeps, S, v, u, d, in, o)
  BY DEF Patience
<1>3. in /\ e.nick = Me => Patience(h, keeps, S, v, u, Append(d, e), FALSE, m)
  BY <1>1
<1>4. in /\ e.nick # Me => Patience(h, keeps, S, v, u, Append(d, e), in, Having(m, e))
  BY <1>1
<1> QED BY <1>2, <1>3, <1>4

-----------------------------------------------------------------------------
(* Types.                                                                   *)

LEMMA InitTypes == Init => TypeOK
BY RoomAssumption DEF Init, TypeOK, Occupancies

LEMMA OccupanciesChange ==
  ASSUME NEW M \in Occupancies, NEW o \in Others
  PROVE  M \cup {o} \in Occupancies /\ M \ {o} \in Occupancies
BY FS_AddElement, FS_RemoveElement DEF Occupancies

LEMMA TellsTypes ==
  ASSUME TypeOK, NEW j \in Rooms, NEW n \in Nicks, NEW t \in {"available", "unavailable", "error"},
         Tells(j, n, t)
  PROVE  down' \in [Rooms -> Seq(Presence)]
<1>1. [nick |-> n, type |-> t] \in Presence
  BY DEF Presence
<1>2. down[j] \in Seq(Presence)
  BY DEF TypeOK
<1>3. Append(down[j], [nick |-> n, type |-> t]) \in Seq(Presence)
  BY <1>1, <1>2, AppendProperties
<1> QED BY <1>3 DEF Tells, TypeOK

LEMMA HearsUsTypes ==
  ASSUME TypeOK, NEW j \in Rooms, NEW x, HearsUs(j, x)
  PROVE  up' \in [Rooms -> Seq({"join", "leave"})]
<1>1. up[j] \in Seq({"join", "leave"}) /\ up[j] # <<>>
  BY DEF TypeOK, HearsUs
<1>2. Tail(up[j]) \in Seq({"join", "leave"})
  BY <1>1, HeadTailProperties
<1> QED BY <1>2 DEF HearsUs, TypeOK

LEMMA HookTypes ==
  ASSUME TypeOK, NEW j \in Rooms, Hook(j)
  PROVE  TypeOK'
<1>1. ASSUME NEW types, NextPresence(j, types)
      PROVE  /\ down' \in [Rooms -> Seq(Presence)] /\ Nick(j) \in Nicks
             /\ inRoom' \subseteq Rooms /\ members' \in [Rooms -> Occupancies]
             /\ up' \in [Rooms -> Seq({"join", "leave"})]
             /\ calls' \in 0..MaxCalls /\ moves' \in 0..MaxMoves /\ manner' \in Manners
             /\ room' \in Rooms \cup {None}
  <2>1. down[j] \in Seq(Presence) /\ down[j] # <<>>
    BY <1>1 DEF TypeOK, NextPresence
  <2>2. Head(down[j]) \in Presence /\ Tail(down[j]) \in Seq(Presence)
    BY <2>1, HeadTailProperties
  <2>3. Nick(j) \in Nicks
    BY <2>2 DEF Presence, Nick
  <2>4. down' \in [Rooms -> Seq(Presence)]
    BY <1>1, <2>2 DEF TypeOK, NextPresence
  <2> QED BY <1>1, <2>3, <2>4 DEF TypeOK, NextPresence, server
<1>2. /\ DOMAIN rooms' \subseteq Rooms
      /\ \A i \in DOMAIN rooms' : rooms'[i] \subseteq Nicks
      /\ leaving' \in Rooms \cup {None}
      /\ heard' \in [Rooms -> {"out", "asked", "in"}]
      /\ view' \in [Rooms -> SUBSET Others]
  <2>1. CASE JoinFails(j)
    BY <2>1 DEF JoinFails, TypeOK
  <2>2. CASE Joined(j)
    BY <2>2, MeIsNoOther DEF Joined, TypeOK
  <2>3. CASE OccupantJoined(j)
    <3>1. Nick(j) \in Nicks /\ Nick(j) \in Others
      BY <1>1, <2>3, MeIsNoOther DEF OccupantJoined
    <3> QED BY <2>3, <3>1 DEF OccupantJoined, TypeOK
  <2>4. CASE OccupantLeft(j)
    BY <2>4 DEF OccupantLeft, TypeOK
  <2>5. CASE Left(j)
    BY <2>5 DEF Left, TypeOK
  <2>6. CASE Unheard(j)
    BY <2>6 DEF Unheard, TypeOK
  <2>7. CASE NoNews(j)
    BY <2>7 DEF NoNews, TypeOK
  <2> QED BY <2>1, <2>2, <2>3, <2>4, <2>5, <2>6, <2>7 DEF Hook
<1>3. \E types : NextPresence(j, types)
  BY DEF Hook, JoinFails, Joined, OccupantJoined, OccupantLeft, Left, Unheard, NoNews
<1> QED BY <1>1, <1>2, <1>3 DEF TypeOK

LEMMA RoomTypes ==
  ASSUME TypeOK, NEW j \in Rooms, Room(j)
  PROVE  TypeOK'
<1>1. PICK x : HearsUs(j, x)
  BY DEF Room, Admits, Refuses, Echoes, SeesUsLeave
<1>2. inRoom' \subseteq Rooms
  BY DEF Room, Admits, Refuses, Echoes, SeesUsLeave, TypeOK
<1>3. down' \in [Rooms -> Seq(Presence)]
  <2>1. CASE Admits(j)
    <3>1. members[j] \in Occupancies /\ down[j] \in Seq(Presence)
      BY DEF TypeOK
    <3>2. Introduced(members[j]) \in Seq(Presence)
      BY <3>1, Introducing
    <3>3. down[j] \o Introduced(members[j]) \in Seq(Presence)
      BY <3>1, <3>2, ConcatProperties
    <3>4. down' = [down EXCEPT ![j] = down[j] \o Introduced(members[j])]
      BY <2>1 DEF Admits, Introduced, TypeOK
    <3> QED BY <3>3, <3>4 DEF TypeOK
  <2>2. CASE Refuses(j) \/ Echoes(j) \/ SeesUsLeave(j)
    BY <2>2, MeIsNoOther, TellsTypes DEF Refuses, Echoes, SeesUsLeave, TypeOK
  <2> QED BY <2>1, <2>2 DEF Room
<1>4. up' \in [Rooms -> Seq({"join", "leave"})]
  BY <1>1, HearsUsTypes
<1> QED BY <1>1, <1>2, <1>3, <1>4 DEF HearsUs, client, app, TypeOK

LEMMA MovesTypes ==
  ASSUME TypeOK, NEW j \in Rooms, Moves(j)
  PROVE  TypeOK'
<1>1. moves' \in 0..MaxMoves
  BY RoomAssumption DEF Moves, TypeOK
<1>2. /\ inRoom' \subseteq Rooms
      /\ members' \in [Rooms -> Occupancies]
      /\ down' \in [Rooms -> Seq(Presence)]
  <2>1. CASE /\ inRoom' = inRoom \ {j}
             /\ Tells(j, Me, "unavailable")
             /\ UNCHANGED members
    BY <2>1, MeIsNoOther, TellsTypes DEF TypeOK
  <2>2. ASSUME NEW o \in Others,
               /\ members' = [members EXCEPT ![j] = IF o \in @ THEN @ \ {o} ELSE @ \cup {o}]
               /\ IF j \notin inRoom THEN UNCHANGED down
                  ELSE Tells(j, o, IF o \in members[j] THEN "unavailable" ELSE "available")
               /\ UNCHANGED inRoom
        PROVE  /\ inRoom' \subseteq Rooms
               /\ members' \in [Rooms -> Occupancies]
               /\ down' \in [Rooms -> Seq(Presence)]
    <3>1. members[j] \in Occupancies
      BY DEF TypeOK
    <3>2. members[j] \cup {o} \in Occupancies /\ members[j] \ {o} \in Occupancies
      BY <3>1, OccupanciesChange
    <3>3. members' \in [Rooms -> Occupancies]
      BY <2>2, <3>2 DEF TypeOK
    <3>4. down' \in [Rooms -> Seq(Presence)]
      BY <2>2, MeIsNoOther, TellsTypes DEF TypeOK
    <3> QED BY <2>2, <3>3, <3>4 DEF TypeOK
  <2> QED BY <2>1, <2>2 DEF Moves
<1> QED BY <1>1, <1>2 DEF Moves, client, app, TypeOK

LEMMA CallTypes ==
  ASSUME TypeOK, leaveRoom \/ Forgets \/ \E j \in Rooms : joinRoom(j)
  PROVE  TypeOK'
<1>1. ASSUME NEW j \in Rooms, NEW x \in {"join", "leave"},
             up' = [up EXCEPT ![j] = Append(@, x)]
      PROVE  up' \in [Rooms -> Seq({"join", "leave"})]
  <2>1. Append(up[j], x) \in Seq({"join", "leave"})
    BY Asks DEF TypeOK
  <2> QED BY <1>1, <2>1 DEF TypeOK
<1>2. ASSUME NEW j \in Rooms, joinRoom(j) PROVE TypeOK'
  <2>1. up' \in [Rooms -> Seq({"join", "leave"})]
    BY <1>1, <1>2 DEF joinRoom
  <2>2. calls' \in 0..MaxCalls
    BY <1>2, RoomAssumption DEF joinRoom, TypeOK
  <2> QED BY <1>2, <2>1, <2>2 DEF joinRoom, server, TypeOK
<1>3. CASE leaveRoom
  <2>1. room \in Rooms
    BY <1>3 DEF leaveRoom, TypeOK
  <2>2. up' \in [Rooms -> Seq({"join", "leave"})]
    BY <1>1, <1>3, <2>1 DEF leaveRoom
  <2>3. calls' \in 0..MaxCalls
    BY <1>3, RoomAssumption DEF leaveRoom, TypeOK
  <2> QED BY <1>3, <2>2, <2>3 DEF leaveRoom, client, app, server, TypeOK
<1>4. CASE Forgets
  BY <1>4 DEF Forgets, app, server, TypeOK
<1> QED BY <1>2, <1>3, <1>4

LEMMA StutterTypes == TypeOK /\ UNCHANGED vars => TypeOK'
BY DEF TypeOK, vars, client, app, server

LEMMA NextTypes == TypeOK /\ [Next]_vars => TypeOK'
<1> SUFFICES ASSUME TypeOK, [Next]_vars PROVE TypeOK'
  OBVIOUS
<1> QED BY HookTypes, RoomTypes, MovesTypes, CallTypes, StutterTypes DEF Next

(* Whatever the application does, every value is one the tables can hold.   *)
THEOREM RoomsAreTyped == Spec => []TypeOK
BY InitTypes, NextTypes, PTL DEF Spec

-----------------------------------------------------------------------------
(* One room changes at a time.                                              *)

Alike(i) ==
  /\ heard'[i] = heard[i] /\ view'[i] = view[i] /\ up'[i] = up[i] /\ down'[i] = down[i]
  /\ (i \in inRoom)' = (i \in inRoom) /\ members'[i] = members[i]
  /\ Kept(i)' = Kept(i) /\ Present(i)' = Present(i)

LEMMA AlikeKeeps ==
  ASSUME PatientInv, BelievedInv, manner' = manner,
         \A i \in Rooms : Alike(i) \/ (Believed(i)' /\ (manner = "patient" => Patient(i)'))
  PROVE  PatientInv' /\ BelievedInv'
<1>1. ASSUME NEW i \in Rooms
      PROVE  (manner = "patient" => Patient(i)') /\ Believed(i)'
  <2>1. CASE Alike(i)
    <3>1. (manner = "patient" => Patient(i)) /\ Believed(i)
      BY DEF PatientInv, BelievedInv
    <3>2. Believed(i)'
      BY <2>1, <3>1 DEF Alike, Believed
    <3>3. manner = "patient" => Patient(i)'
      BY <2>1, <3>1 DEF Alike, Patient
    <3> QED BY <3>2, <3>3
  <2> QED BY <2>1
<1> QED BY <1>1 DEF PatientInv, BelievedInv

LEMMA PresentTypes ==
  ASSUME TypeOK, NEW j \in Rooms
  PROVE  /\ OneRoom(heard[j], Kept(j), Present(j), up[j], down[j], j \in inRoom, members[j])
         /\ Present(j) \in SUBSET Nicks /\ Kept(j) \in BOOLEAN /\ (j \in inRoom) \in BOOLEAN
         /\ up[j] \in Seq({"join", "leave"}) /\ down[j] \in Seq(Presence)
         /\ members[j] \in Occupancies /\ members[j] \in SUBSET Others
         /\ heard[j] \in {"out", "asked", "in"}
BY DEF TypeOK, Present, Kept, Registered, Occupancies, OneRoom

LEMMA LessKnown ==
  ASSUME NEW q, NEW S, NEW T, NEW n, n \in S => n \in T, Known(q, S, n)
  PROVE  Known(q, T, n)
BY DEF Known

(* What becomes of room j when the patient application's object hears e.    *)
HearsPatiently(j, e) ==
  LET After(h, keeps, S, v) ==
        Patience(h, keeps, S, v, up'[j], down'[j], (j \in inRoom)', members'[j])
  IN  /\ Kept(j)
      /\ e.type = "error" => After("out", Kept(j), Present(j), view[j])
      /\ e.nick = Me /\ e.type = "available" =>
           Me \notin Present(j) /\ After("in", Kept(j), Present(j) \cup {Me}, view[j])
      /\ e.nick = Me /\ e.type = "unavailable" =>
           Me \in Present(j) /\ After("out", FALSE, {}, {})
      /\ e.nick # Me =>
           After(heard[j], Kept(j), Having(Present(j), e), Having(Present(j), e) \ {Me})

LEMMA HookHears ==
  ASSUME GInv, NEW j \in Rooms, NEW types, NextPresence(j, types),
         NEW e, e = Head(down[j])
  PROVE  /\ e \in Presence /\ e.type \in types /\ Nick(j) = e.nick
         /\ leaving = None /\ manner' = manner
         /\ (Kept(j) <=> Registered(j)) /\ (Registered(j) => Present(j) = rooms[j])
         /\ (j \in inRoom)' = (j \in inRoom)
         /\ (Me \in Present(j)' => Me \in Having(Present(j), e)) => Believed(j)'
         /\ manner = "patient" => HearsPatiently(j, e)
<1> DEFINE p == Tail(down[j])
<1>1. /\ leaving = None /\ down[j] # <<>> /\ manner' = manner
      /\ inRoom' = inRoom /\ members' = members /\ up' = up /\ down'[j] = p
  BY DEF NextPresence, GInv, TypeOK, server
<1>2. /\ Kept(j) \in BOOLEAN /\ (j \in inRoom) \in BOOLEAN /\ down[j] \in Seq(Presence)
      /\ Present(j) \in SUBSET Nicks /\ up[j] \in Seq({"join", "leave"})
      /\ members[j] \in SUBSET Others /\ heard[j] \in {"out", "asked", "in"}
  BY PresentTypes DEF GInv
<1>3. Splits(down[j], Present(j), e, p)
  BY <1>1, <1>2, Hearing
<1> HIDE DEF p
<1>4. (Kept(j) <=> Registered(j)) /\ (Registered(j) => Present(j) = rooms[j])
  BY <1>1, RoomAssumption DEF Kept, Present, Registered
<1>5. ASSUME Me \in Present(j)' => Me \in Having(Present(j), e) PROVE Believed(j)'
  <2>1. Believed(j)
    BY DEF GInv, BelievedInv
  <2>2. ASSUME Known(p, Present(j)', Me) PROVE j \in inRoom
    <3>1. Known(p, Having(Present(j), e), Me)
      BY <1>5, <2>2, LessKnown
    <3> QED BY <1>3, <2>1, <3>1 DEF Believed, Splits
  <2> QED BY <1>1, <2>2 DEF Believed
<1>6. ASSUME manner = "patient" PROVE HearsPatiently(j, e)
  <2>1. Patient(j)
    BY <1>6 DEF GInv, PatientInv
  <2> DEFINE K == Kept(j)
             S == Present(j)
             h == heard[j]
             v == view[j]
             u == up[j]
             d == down[j]
             in == j \in inRoom
             m == members[j]
  <2>2. Patience(h, K, S, v, u, d, in, m)
    BY <2>1 DEF Patient
  <2>3. Splits(d, S, e, p)
    BY <1>3
  <2>4. OneRoom(h, K, S, u, d, in, m)
    BY PresentTypes DEF GInv
  <2> HIDE DEF K, S, h, v, u, d, in, m
  <2>5. /\ K = TRUE
        /\ e.type = "error" => Patience("out", K, S, v, u, p, in, m)
        /\ e.nick = Me /\ e.type = "available" =>
             Me \notin S /\ Patience("in", K, S \cup {Me}, v, u, p, in, m)
        /\ e.nick = Me /\ e.type = "unavailable" =>
             Me \in S /\ Patience("out", FALSE, {}, {}, u, p, in, m)
        /\ e.nick # Me =>
             /\ e.type # "error"
             /\ Patience(h, K, Having(S, e), Having(S, e) \ {Me}, u, p, in, m)
    BY <2>2, <2>3, <2>4, PatientHears
  <2> QED BY <1>1, <2>5 DEF K, S, h, v, u, d, in, m, HearsPatiently
<1> QED BY <1>1, <1>3, <1>4, <1>5, <1>6 DEF NextPresence, Nick, Splits


LEMMA HookElsewhere ==
  ASSUME TypeOK, NEW j \in Rooms, Hook(j), NEW i \in Rooms \ {j}
  PROVE  Alike(i)
<1>1. /\ manner' = manner /\ inRoom' = inRoom /\ members' = members
      /\ up' = up /\ down'[i] = down[i] /\ leaving = None
  BY DEF Hook, JoinFails, Joined, OccupantJoined, OccupantLeft, Left, Unheard, NoNews,
         NextPresence, server, TypeOK
<1>2. heard'[i] = heard[i] /\ view'[i] = view[i] /\ leaving' \in {None, j}
  BY <1>1 DEF Hook, JoinFails, Joined, OccupantJoined, OccupantLeft, Left, Unheard, NoNews, TypeOK
<1>3. DOMAIN rooms' = DOMAIN rooms /\ (i \in DOMAIN rooms => rooms'[i] = rooms[i])
  BY DEF Hook, JoinFails, Joined, OccupantJoined, OccupantLeft, Left, Unheard, NoNews
<1>4. leaving # i /\ leaving' # i
  BY <1>1, <1>2, RoomAssumption
<1>5. Kept(i)' = Kept(i) /\ Present(i)' = Present(i)
  BY <1>3, <1>4 DEF Kept, Present, Registered
<1> QED BY <1>1, <1>2, <1>5 DEF Alike

(* A patient application always has an object for what is said to it.       *)
LEMMA HookKeeps ==
  ASSUME GInv, NEW j \in Rooms, Hook(j)
  PROVE  PatientInv' /\ BelievedInv'
<1> DEFINE e == Head(down[j])
<1>1. PICK types : NextPresence(j, types)
  BY DEF Hook, JoinFails, Joined, OccupantJoined, OccupantLeft, Left, Unheard, NoNews
<1>2. /\ e \in Presence /\ Nick(j) = e.nick /\ leaving = None /\ manner' = manner
      /\ (Kept(j) <=> Registered(j)) /\ (Registered(j) => Present(j) = rooms[j])
      /\ (Me \in Present(j)' => Me \in Having(Present(j), e)) => Believed(j)'
      /\ manner = "patient" => HearsPatiently(j, e)
  BY <1>1, HookHears
<1>3. TypeOK /\ (manner = "patient" => view[j] = Present(j) \ {Me})
  BY DEF GInv, PatientInv, Patient, Patience
<1>4. e.type \in {"available", "unavailable", "error"} /\ e.nick \in Nicks
  BY <1>2 DEF Presence
<1> HIDE DEF e
<1>5. Believed(j)' /\ (manner = "patient" => Patient(j)')
  <2>1. CASE JoinFails(j)
    <3>1. e.type = "error" /\ Kept(j)' = Kept(j) /\ Present(j)' = Present(j)
          /\ heard'[j] = "out" /\ view'[j] = view[j]
      BY <2>1, <1>2, <1>3 DEF JoinFails, NextPresence, Kept, Present, Registered, TypeOK, e
    <3>2. Having(Present(j), e) = Present(j)
      BY <3>1 DEF Having
    <3> QED BY <1>2, <3>1, <3>2 DEF Patient, HearsPatiently
  <2>2. CASE Joined(j)
    <3>1. e.type = "available" /\ e.nick = Me /\ Kept(j)' = Kept(j) /\ Kept(j)
          /\ Present(j)' = Present(j) \cup {Me} /\ heard'[j] = "in" /\ view'[j] = view[j]
      BY <2>2, <1>2, <1>3 DEF Joined, NextPresence, Kept, Present, Registered, TypeOK, e
    <3>2. Having(Present(j), e) = Present(j)'
      BY <3>1 DEF Having
    <3> QED BY <1>2, <3>1, <3>2 DEF Patient, HearsPatiently
  <2>3. CASE OccupantJoined(j)
    <3>1. e.type = "available" /\ e.nick # Me /\ Kept(j)' = Kept(j) /\ Kept(j)
          /\ Present(j)' = Present(j) \cup {e.nick} /\ heard'[j] = heard[j]
          /\ view'[j] = view[j] \cup {e.nick}
      BY <2>3, <1>2, <1>3 DEF OccupantJoined, NextPresence, Kept, Present, Registered, TypeOK, e
    <3>2. Having(Present(j), e) = Present(j)'
      BY <3>1 DEF Having
    <3>3. manner = "patient" => view'[j] = Present(j)' \ {Me}
      BY <1>3, <3>1
    <3> QED BY <1>2, <3>1, <3>2, <3>3 DEF Patient, HearsPatiently
  <2>4. CASE OccupantLeft(j)
    <3>1. e.type = "unavailable" /\ e.nick # Me /\ Kept(j)' = Kept(j) /\ Kept(j)
          /\ Present(j)' = Present(j) \ {e.nick} /\ heard'[j] = heard[j]
          /\ view'[j] = view[j] \ {e.nick}
      BY <2>4, <1>2, <1>3 DEF OccupantLeft, NextPresence, Kept, Present, Registered, TypeOK, e
    <3>2. Having(Present(j), e) = Present(j)'
      BY <3>1 DEF Having
    <3>3. manner = "patient" => view'[j] = Present(j)' \ {Me}
      BY <1>3, <3>1
    <3> QED BY <1>2, <3>1, <3>2, <3>3 DEF Patient, HearsPatiently
  <2>5. CASE Left(j)
    <3>1. e.type = "unavailable" /\ e.nick = Me /\ Kept(j)' = FALSE
          /\ Present(j)' = {} /\ heard'[j] = "out" /\ view'[j] = {}
      BY <2>5, <1>2, <1>3 DEF Left, NextPresence, Kept, Present, Registered, TypeOK, e
    <3> QED BY <1>2, <3>1 DEF Patient, HearsPatiently
  <2>6. CASE Unheard(j)
    <3>1. ~Kept(j) /\ Present(j)' = {}
      BY <2>6, <1>2 DEF Unheard, Present, Kept, Registered
    <3> QED BY <1>2, <3>1 DEF HearsPatiently
  <2>7. CASE NoNews(j)
    <3>1. /\ e.type \in {"available", "unavailable"}
          /\ Kept(j)' = Kept(j) /\ Kept(j) /\ Present(j)' = Present(j)
          /\ heard'[j] = heard[j] /\ view'[j] = view[j]
          /\ e.type = "available" <=> e.nick \in Present(j)
      BY <2>7, <1>2, <1>3 DEF NoNews, NextPresence, Kept, Present, Registered, TypeOK, e
    <3>2. Having(Present(j), e) = Present(j)
      BY <3>1 DEF Having
    <3>3. manner = "patient" => e.nick # Me
      BY <1>2, <3>1 DEF HearsPatiently
    <3> QED BY <1>2, <1>3, <3>1, <3>2, <3>3 DEF Patient, HearsPatiently
  <2> QED BY <2>1, <2>2, <2>3, <2>4, <2>5, <2>6, <2>7 DEF Hook
<1> QED BY <1>2, <1>3, <1>5, HookElsewhere, AlikeKeeps DEF GInv

LEMMA JoinKeeps ==
  ASSUME GInv, NEW j \in Rooms, joinRoom(j)
  PROVE  PatientInv' /\ BelievedInv'
<1>1. /\ manner' = manner /\ heard'[j] = "asked" /\ view'[j] = view[j]
      /\ up'[j] = Append(up[j], "join") /\ down' = down
      /\ inRoom' = inRoom /\ members' = members /\ Present(j)' = {}
      /\ leaving = None => Kept(j)' = TRUE
  BY RoomAssumption DEF joinRoom, server, Kept, Present, Registered, GInv, TypeOK
<1>2. ASSUME NEW i \in Rooms \ {j} PROVE Alike(i)
  BY <1>2 DEF joinRoom, server, Kept, Present, Registered, Alike, GInv, TypeOK
<1>3. Believed(j)'
  <2>1. Known(down[j], {}, Me) => Known(down[j], Present(j), Me)
    BY LessKnown
  <2> QED BY <1>1, <2>1 DEF Believed, GInv, BelievedInv
<1>4. ASSUME manner = "patient" PROVE Patient(j)'
  <2>1. heard[j] = "out" /\ leaving = None
    BY <1>4 DEF joinRoom, MayJoin
  <2>2. Patience(heard[j], Kept(j), Present(j), view[j], up[j], down[j], j \in inRoom, members[j])
    BY <1>4 DEF GInv, PatientInv, Patient
  <2>3. Patience("asked", TRUE, {}, view[j], Append(up[j], "join"), down[j],
                 j \in inRoom, members[j])
    BY <2>1, <2>2, PatientAsks, PresentTypes DEF GInv
  <2> QED BY <1>1, <2>1, <2>3 DEF Patient
<1> QED BY <1>1, <1>2, <1>3, <1>4, AlikeKeeps DEF GInv

LEMMA LeaveKeeps ==
  ASSUME GInv, leaveRoom
  PROVE  PatientInv' /\ BelievedInv'
<1>1. PICK j \in Rooms : j = room
  BY DEF leaveRoom, GInv, TypeOK
<1>2. /\ manner' = manner /\ up'[j] = Append(up[j], "leave")
      /\ heard' = heard /\ view' = view /\ down' = down /\ rooms' = rooms /\ leaving' = leaving
      /\ inRoom' = inRoom /\ members' = members
  BY <1>1 DEF leaveRoom, client, app, server, GInv, TypeOK
<1>3. ASSUME NEW i \in Rooms
      PROVE  /\ Kept(i)' = Kept(i) /\ Present(i)' = Present(i)
             /\ i # j => up'[i] = up[i]
  BY <1>1, <1>2 DEF Kept, Present, Registered, leaveRoom, GInv, TypeOK
<1>4. ASSUME NEW i \in Rooms \ {j} PROVE Alike(i)
  BY <1>2, <1>3 DEF Alike
<1>5. Believed(j)'
  <2>1. Believed(j)
    BY DEF GInv, BelievedInv
  <2> QED BY <1>2, <1>3, <2>1 DEF Believed
<1>6. ASSUME manner = "patient" PROVE Patient(j)'
  <2>1. Patience(heard[j], Kept(j), Present(j), view[j], up[j], down[j], j \in inRoom, members[j])
    BY <1>6 DEF GInv, PatientInv, Patient
  <2>2. Patience(heard[j], Kept(j), Present(j), view[j], Append(up[j], "leave"), down[j],
                 j \in inRoom, members[j])
    BY <2>1, PatientAsks, PresentTypes DEF GInv
  <2> QED BY <1>2, <1>3, <2>2 DEF Patient
<1> QED BY <1>2, <1>4, <1>5, <1>6, AlikeKeeps DEF GInv

LEMMA ForgetsKeeps ==
  ASSUME GInv, Forgets
  PROVE  PatientInv' /\ BelievedInv'
<1>1. ASSUME NEW i \in Rooms PROVE Alike(i)
  <2>1. i \in DOMAIN rooms' <=> i \in DOMAIN rooms /\ i # leaving
    BY DEF Forgets
  <2>2. i \in DOMAIN rooms' => rooms'[i] = rooms[i]
    BY DEF Forgets
  <2>3. leaving' # i
    BY RoomAssumption DEF Forgets
  <2>4. Kept(i)' = Kept(i) /\ Present(i)' = Present(i)
    BY <2>1, <2>2, <2>3 DEF Kept, Present, Registered
  <2> QED BY <2>4 DEF Forgets, app, server, Alike
<1>2. manner' = manner
  BY DEF Forgets, app
<1> QED BY <1>1, <1>2, AlikeKeeps DEF GInv

(* What of it a step of the room leaves alone.                              *)
LEMMA RoomElsewhere ==
  ASSUME TypeOK, NEW j \in Rooms, UNCHANGED <<client, app>>,
         \A i \in Rooms \ {j} : up'[i] = up[i] /\ down'[i] = down[i] /\ members'[i] = members[i],
         inRoom' \ {j} = inRoom \ {j}
  PROVE  /\ \A i \in Rooms \ {j} : Alike(i)
         /\ manner' = manner /\ heard'[j] = heard[j] /\ view'[j] = view[j]
         /\ Kept(j)' = Kept(j) /\ Present(j)' = Present(j)
<1>1. rooms' = rooms /\ leaving' = leaving /\ heard' = heard /\ view' = view /\ manner' = manner
  BY DEF client, app
<1>2. ASSUME NEW i PROVE Kept(i)' = Kept(i) /\ Present(i)' = Present(i)
  BY <1>1 DEF Kept, Present, Registered
<1>3. ASSUME NEW i \in Rooms \ {j} PROVE (i \in inRoom)' = (i \in inRoom)
  <2>1. i \in inRoom' <=> i \in inRoom
    BY <1>3
  <2> QED BY <2>1
<1> QED BY <1>1, <1>2, <1>3 DEF Alike

LEMMA RoomKeeps ==
  ASSUME GInv, NEW j \in Rooms, Room(j)
  PROVE  PatientInv' /\ BelievedInv'
<1>1. PICK x : HearsUs(j, x)
  BY DEF Room, Admits, Refuses, Echoes, SeesUsLeave
<1>2. /\ UNCHANGED <<client, app, members>> /\ up[j] # <<>> /\ x = Head(up[j])
      /\ up'[j] = Tail(up[j]) /\ \A i \in Rooms \ {j} : up'[i] = up[i]
  BY <1>1 DEF HearsUs, GInv, TypeOK
<1>3. /\ \A i \in Rooms \ {j} : down'[i] = down[i]
      /\ inRoom' \ {j} = inRoom \ {j}
  BY DEF Room, Admits, Refuses, Echoes, SeesUsLeave, Tells, GInv, TypeOK
<1>4. /\ \A i \in Rooms \ {j} : Alike(i)
      /\ manner' = manner /\ heard'[j] = heard[j] /\ view'[j] = view[j]
      /\ Kept(j)' = Kept(j) /\ Present(j)' = Present(j) /\ members'[j] = members[j]
  BY <1>2, <1>3, RoomElsewhere DEF GInv
<1>5. /\ OneRoom(heard[j], Kept(j), Present(j), up[j], down[j], j \in inRoom, members[j])
      /\ down[j] \in Seq(Presence) /\ members[j] \in Occupancies /\ Believed(j)
  BY PresentTypes DEF GInv, BelievedInv
<1>6. ASSUME manner = "patient"
      PROVE  /\ Patience(heard[j], Kept(j), Present(j), view[j], up[j], down[j],
                         j \in inRoom, members[j])
             /\ x = "join" =>
                  /\ j \notin inRoom
                  /\ Patience(heard[j], Kept(j), Present(j), view[j], Tail(up[j]),
                              down[j] \o Introduced(members[j]), TRUE, members[j])
                  /\ Patience(heard[j], Kept(j), Present(j), view[j], Tail(up[j]),
                              Append(down[j], [nick |-> Me, type |-> "error"]),
                              j \in inRoom, members[j])
             /\ x = "leave" =>
                  Patience(heard[j], Kept(j), Present(j), view[j], Tail(up[j]), down[j],
                           j \in inRoom, members[j])
  <2>1. Patience(heard[j], Kept(j), Present(j), view[j], up[j], down[j], j \in inRoom, members[j])
    BY <1>6 DEF GInv, PatientInv, Patient
  <2> QED BY <1>2, <1>5, <2>1, PatientIsHeard
<1>7. Believed(j)' /\ (manner = "patient" => Patient(j)')
  <2>1. CASE Admits(j)
    <3>1. /\ x = "join" /\ (j \in inRoom)' = TRUE
          /\ down'[j] = down[j] \o Introduced(members[j])
      BY <1>2, <2>1 DEF Admits, HearsUs, Introduced, GInv, TypeOK
    <3> QED BY <1>2, <1>4, <1>6, <3>1 DEF Patient, Believed
  <2>2. CASE Refuses(j)
    <3> DEFINE e == [nick |-> Me, type |-> "error"]
    <3>1. /\ x = "join" /\ (j \in inRoom)' = (j \in inRoom)
          /\ down'[j] = Append(down[j], e) /\ e \in Presence /\ e.type = "error"
      BY <1>2, <2>2, MeIsNoOther DEF Refuses, HearsUs, Tells, GInv, TypeOK, Presence
    <3> HIDE DEF e
    <3>2. Known(down'[j], Present(j), Me) <=> Known(down[j], Present(j), Me)
      <4>1. Known(down'[j], Present(j), Me)
              <=> IF e.nick = Me /\ e.type # "error" THEN e.type = "available"
                                                     ELSE Known(down[j], Present(j), Me)
        <5>1. down[j] \in Seq(Presence) /\ e \in Presence /\ down'[j] = Append(down[j], e)
          BY <1>5, <3>1
        <5> QED BY <5>1, Saying, Zenon
      <4> QED BY <3>1, <4>1
    <3>3. Believed(j)'
      BY <1>4, <1>5, <3>1, <3>2 DEF Believed
    <3>4. manner = "patient" => Patient(j)'
      BY <1>2, <1>4, <1>6, <3>1 DEF Patient, e
    <3> QED BY <3>3, <3>4
  <2>3. CASE Echoes(j)
    <3>1. x = "join" /\ j \in inRoom /\ inRoom' = inRoom
      BY <1>2, <2>3 DEF Echoes, HearsUs
    <3> QED BY <1>6, <3>1 DEF Believed
  <2>4. CASE SeesUsLeave(j) /\ j \notin inRoom
    <3>1. x = "leave" /\ (j \in inRoom)' = (j \in inRoom) /\ down'[j] = down[j]
      BY <1>2, <2>4 DEF SeesUsLeave, HearsUs
    <3>2. Believed(j)'
      BY <1>4, <1>5, <3>1 DEF Believed
    <3>3. manner = "patient" => Patient(j)'
      BY <1>2, <1>4, <1>6, <3>1 DEF Patient
    <3> QED BY <3>2, <3>3
  <2>5. CASE SeesUsLeave(j) /\ j \in inRoom
    <3> DEFINE e == [nick |-> Me, type |-> "unavailable"]
    <3>1. /\ x = "leave" /\ (j \in inRoom) = TRUE /\ (j \in inRoom)' = FALSE
          /\ down'[j] = Append(down[j], e) /\ e \in Presence
          /\ e.nick = Me /\ e.type = "unavailable"
      BY <1>2, <2>5, MeIsNoOther DEF SeesUsLeave, HearsUs, Tells, GInv, TypeOK, Presence
    <3> HIDE DEF e
    <3>2. ~Known(down'[j], Present(j), Me)
      BY <1>5, <3>1, Saying
    <3>3. Believed(j)'
      BY <1>4, <3>2 DEF Believed
    <3>4. ASSUME manner = "patient" PROVE Patient(j)'
      <4>1. Tail(up[j]) \in Seq({"join", "leave"})
        BY <1>2, <1>5, IsAsked DEF OneRoom
      <4>2. OneRoom(heard[j], Kept(j), Present(j), Tail(up[j]), down[j], j \in inRoom, members[j])
        BY <1>5, <4>1 DEF OneRoom
      <4>3. Patience(heard[j], Kept(j), Present(j), view[j], Tail(up[j]), down[j],
                     j \in inRoom, members[j])
        BY <1>6, <3>1, <3>4
      <4>4. Patience(heard[j], Kept(j), Present(j), view[j], Tail(up[j]), Append(down[j], e),
                     FALSE, members[j])
        BY <3>1, <4>2, <4>3, PatientIsTold
      <4> QED BY <1>2, <1>4, <3>1, <4>4 DEF Patient
    <3> QED BY <3>3, <3>4
  <2> QED BY <2>1, <2>2, <2>3, <2>4, <2>5 DEF Room
<1> QED BY <1>4, <1>7, AlikeKeeps DEF GInv

LEMMA MovesKeeps ==
  ASSUME GInv, NEW j \in Rooms, Moves(j)
  PROVE  PatientInv' /\ BelievedInv'
<1>1. /\ UNCHANGED <<client, app, up>>
      /\ \A i \in Rooms \ {j} : down'[i] = down[i] /\ members'[i] = members[i]
      /\ inRoom' \ {j} = inRoom \ {j}
  BY DEF Moves, Tells, GInv, TypeOK
<1>2. /\ \A i \in Rooms \ {j} : Alike(i)
      /\ manner' = manner /\ heard'[j] = heard[j] /\ view'[j] = view[j]
      /\ Kept(j)' = Kept(j) /\ Present(j)' = Present(j)
  BY <1>1, RoomElsewhere DEF GInv
<1>3. /\ OneRoom(heard[j], Kept(j), Present(j), up[j], down[j], j \in inRoom, members[j])
      /\ down[j] \in Seq(Presence) /\ Believed(j)
  BY PresentTypes DEF GInv, BelievedInv
<1>4. manner = "patient" =>
        Patience(heard[j], Kept(j), Present(j), view[j], up[j], down[j], j \in inRoom, members[j])
  BY DEF GInv, PatientInv, Patient
<1>5. Believed(j)' /\ (manner = "patient" => Patient(j)')
  <2>1. CASE /\ j \in inRoom
             /\ inRoom' = inRoom \ {j}
             /\ Tells(j, Me, "unavailable")
             /\ UNCHANGED members
    <3> DEFINE e == [nick |-> Me, type |-> "unavailable"]
    <3>1. /\ (j \in inRoom) = TRUE /\ (j \in inRoom)' = FALSE
          /\ down'[j] = Append(down[j], e) /\ e \in Presence
          /\ e.nick = Me /\ e.type = "unavailable"
      BY <2>1, MeIsNoOther DEF Tells, GInv, TypeOK, Presence
    <3> HIDE DEF e
    <3>2. ~Known(down'[j], Present(j), Me)
      <4>1. down[j] \in Seq(Presence) /\ e \in Presence /\ down'[j] = Append(down[j], e)
        BY <1>3, <3>1
      <4>2. Known(down'[j], Present(j), Me)
              <=> IF e.nick = Me /\ e.type # "error" THEN e.type = "available"
                                                     ELSE Known(down[j], Present(j), Me)
        BY <4>1, Saying, Zenon
      <4> QED BY <3>1, <4>2
    <3>3. Believed(j)'
      BY <1>2, <3>2 DEF Believed
    <3>4. ASSUME manner = "patient"
          PROVE  Patience(heard[j], Kept(j), Present(j), view[j], up[j], Append(down[j], e),
                          FALSE, members[j])
      BY <1>3, <1>4, <3>1, <3>4, PatientIsTold
    <3>5. manner = "patient" => Patient(j)'
      BY <1>1, <1>2, <2>1, <3>1, <3>4 DEF Patient
    <3> QED BY <3>3, <3>5
  <2>2. ASSUME NEW o \in Others,
               members' = [members EXCEPT ![j] = IF o \in @ THEN @ \ {o} ELSE @ \cup {o}],
               IF j \notin inRoom THEN UNCHANGED down
                 ELSE Tells(j, o, IF o \in members[j] THEN "unavailable" ELSE "available"),
               UNCHANGED inRoom
        PROVE  Believed(j)' /\ (manner = "patient" => Patient(j)')
    <3> DEFINE e == [nick |-> o, type |-> IF o \in members[j] THEN "unavailable" ELSE "available"]
    <3>1. /\ (j \in inRoom)' = (j \in inRoom) /\ e \in Presence
          /\ e.nick # Me /\ e.type \in {"available", "unavailable"}
          /\ members'[j] = Having(members[j], e)
          /\ IF j \in inRoom THEN down'[j] = Append(down[j], e) ELSE down'[j] = down[j]
      BY <2>2, MeIsNoOther DEF Tells, GInv, TypeOK, Presence, Having
    <3> HIDE DEF e
    <3>2. j \in inRoom => (Known(down'[j], Present(j), Me) <=> Known(down[j], Present(j), Me))
      BY <1>3, <3>1, Saying
    <3>3. Believed(j)'
      BY <1>2, <1>3, <3>1, <3>2 DEF Believed
    <3>4. ASSUME manner = "patient"
          PROVE  /\ j \in inRoom =>
                      Patience(heard[j], Kept(j), Present(j), view[j], up[j], Append(down[j], e),
                               j \in inRoom, Having(members[j], e))
                 /\ j \notin inRoom =>
                      Patience(heard[j], Kept(j), Present(j), view[j], up[j], down[j],
                               j \in inRoom, Having(members[j], e))
      BY <1>3, <1>4, <3>1, <3>4, PatientIsTold
    <3>5. manner = "patient" => Patient(j)'
      BY <1>1, <1>2, <3>1, <3>4 DEF Patient
    <3> QED BY <3>3, <3>5
  <2> QED BY <2>1, <2>2 DEF Moves
<1> QED BY <1>2, <1>5, AlikeKeeps DEF GInv

LEMMA InitHolds == Init => GInv
<1> SUFFICES ASSUME Init PROVE PatientInv /\ BelievedInv
  BY InitTypes DEF GInv
<1>1. ASSUME NEW j \in Rooms
      PROVE  /\ Present(j) = {} /\ ~Awaited(up[j]) /\ j \notin inRoom
             /\ heard[j] = "out" /\ view[j] = {} /\ down[j] = <<>>
             /\ \A n : ~Known(down[j], Present(j), n)
  BY DEF Init, Present, Kept, Registered, Awaited, Known, Announced
<1>2. ASSUME NEW j \in Rooms PROVE Patient(j) /\ Believed(j)
  <2>1. Patient(j)
    BY <1>1 DEF Patient, Patience
  <2>2. Believed(j)
    BY <1>1 DEF Believed
  <2> QED BY <2>1, <2>2
<1> QED BY <1>2 DEF PatientInv, BelievedInv

LEMMA NextKeeps == GInv /\ [Next]_vars => GInv'
<1> SUFFICES ASSUME GInv, [Next]_vars PROVE PatientInv' /\ BelievedInv'
  BY NextTypes DEF GInv
<1>1. CASE UNCHANGED vars
  BY <1>1 DEF vars, client, app, server, GInv, PatientInv, BelievedInv, Patient, Believed, Kept,
              Present, Registered
<1> QED BY <1>1, JoinKeeps, LeaveKeeps, ForgetsKeeps, HookKeeps, RoomKeeps, MovesKeeps DEF Next

LEMMA RoomsInvariant == Spec => []GInv
BY InitHolds, NextKeeps, PTL DEF Spec

-----------------------------------------------------------------------------
(* What the application may rely on.                                        *)

(* When nothing is on its way, what is known is what there is to know.      *)
LEMMA Silence == ASSUME NEW S, NEW n PROVE Known(<<>>, S, n) <=> n \in S
BY DEF Known, Announced, Mentioned

(* However hasty the application: a room that lists us among its occupants  *)
(* does have us, once nothing is on its way (add_hook of "presence", and    *)
(* what takes a room out of stream.rooms).                                  *)
THEOREM RoomsAreBelievedRightly == Spec => []BelievedIsTrue
<1>1. ASSUME GInv PROVE BelievedIsTrue
  <2> SUFFICES ASSUME NEW j \in DOMAIN rooms, Quiet(j), Me \in rooms[j] PROVE j \in inRoom
    BY DEF BelievedIsTrue
  <2>1. j \in Rooms /\ Believed(j)
    BY <1>1 DEF GInv, TypeOK, BelievedInv
  <2>2. Present(j) = rooms[j]
    BY <2>1, RoomAssumption DEF Quiet, Present, Kept, Registered
  <2>3. Known(down[j], Present(j), Me)
    BY <2>2, Silence DEF Quiet
  <2> QED BY <2>1, <2>3 DEF Believed
<1> QED BY <1>1, RoomsInvariant, PTL

(* A patient application, one that joins only what it has heard it is out   *)
(* of, knows who is in each room when nothing is on its way, whatever met   *)
(* on the wire before: its leaves and the kicks, its joins and refusals.    *)
THEOREM RoomsAgree == Spec => []OccupantsAgree
<1>1. ASSUME GInv PROVE OccupantsAgree
  <2> SUFFICES ASSUME NEW j \in Rooms, manner = "patient", Quiet(j)
               PROVE  /\ j \in inRoom <=> heard[j] = "in"
                      /\ j \in inRoom => Registered(j) /\ rooms[j] = members[j] \cup {Me}
    BY DEF OccupantsAgree
  <2>1. Patience(heard[j], Kept(j), Present(j), view[j], up[j], down[j], j \in inRoom, members[j])
    BY <1>1 DEF GInv, PatientInv, Patient
  <2>2. /\ OneRoom(heard[j], Kept(j), Present(j), up[j], down[j], j \in inRoom, members[j])
        /\ Present(j) \in SUBSET Nicks /\ members[j] \in SUBSET Others
        /\ heard[j] \in {"out", "asked", "in"}
    BY <1>1, PresentTypes DEF GInv
  <2>3. ~Awaited(up[j]) /\ down[j] = <<>>
    BY DEF Quiet, Awaited
  <2>4. heard[j] # "asked" /\ (j \in inRoom <=> heard[j] = "in")
    <3>1. ~Refusal(<<>>) /\ ~Admission(<<>>, j \in inRoom)
      BY DEF Refusal, Admission
    <3>2. Stay(<<>>, 0, j \in inRoom) => j \in inRoom
      BY DEF Stay
    <3>3. heard[j] # "asked"
      BY <2>1, <2>3, <3>1 DEF Patience, Asking
    <3>4. heard[j] = "in" => j \in inRoom
      BY <2>1, <2>3, <3>2 DEF Patience, Staying
    <3>5. heard[j] = "out" => j \notin inRoom
      BY <2>1 DEF Patience
    <3> QED BY <2>2, <3>3, <3>4, <3>5
  <2>5. ASSUME j \in inRoom PROVE Registered(j) /\ rooms[j] = members[j] \cup {Me}
    <3>1. Kept(j)
      BY <2>1, <2>4, <2>5 DEF Patience, Staying
    <3>2. \A n \in Nicks : n \in Present(j) <=> n \in members[j] \cup {Me}
      BY <2>1, <2>3, <2>5, Silence DEF Patience
    <3>3. Present(j) = members[j] \cup {Me}
      BY <2>2, <3>2, MeIsNoOther
    <3> QED BY <3>1, <3>3 DEF Kept, Present
  <2> QED BY <2>4, <2>5
<1> QED BY <1>1, RoomsInvariant, PTL

(* What the events have told a patient application is what the room object  *)
(* knows, at every moment.                                                  *)
THEOREM EventsTellOccupants == Spec => []ViewIsOccupants
<1>1. ASSUME GInv PROVE ViewIsOccupants
  <2> SUFFICES ASSUME manner = "patient", NEW j \in Rooms
               PROVE  view[j] = IF Registered(j) /\ leaving # j THEN rooms[j] \ {Me} ELSE {}
    BY DEF ViewIsOccupants
  <2>1. view[j] = Present(j) \ {Me}
    BY <1>1 DEF GInv, PatientInv, Patient, Patience
  <2> QED BY <2>1 DEF Present, Kept
<1> QED BY <1>1, RoomsInvariant, PTL
=============================================================================
