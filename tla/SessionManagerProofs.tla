-------------------------- MODULE SessionManagerProofs --------------------------
(***************************************************************************)
(* Invariance proofs for SessionManager, for every set of sids and JIDs    *)
(* and every bound.                                                        *)
(*                                                                         *)
(* The inductive invariant is the conjunction of the type invariant, the   *)
(* three safety invariants of the runs and one fact more.  No part is      *)
(* inductive alone: the step of a suspended loop ends what is registered   *)
(* under the sid of the object it visits, and that this is the object      *)
(* itself, if it is registered at all, is what Indexed says; and the late  *)
(* end of a session, which the application is told of after its terminate  *)
(* is sent, can hide only a second session of the sid, which is what Past  *)
(* says.                                                                   *)
(***************************************************************************)
EXTENDS SessionManager, JingleSessionProofs

FramesOf(r) == Frames(1..Len(r.obj))

StackOK(r, c) == c \in Seq(FramesOf(r)) /\ \A k \in 1..Len(c) : Visited(r, c[k])

(* The sid had an object that has been ended.                               *)
Past(r, s) ==
  /\ \E i \in 1..Len(r.obj) : r.obj[i].sid = s
  /\ s \in DOMAIN r.sessions => Reused(r, s)

(* What the application holds, with sids whose end or offer is suspended.   *)
Told(r, v, a, ended, offered) ==
  /\ v \subseteq Sids /\ a \subseteq Sids
  /\ \A s \in DOMAIN r.sessions \ v : s \in offered \cup a \/ Reused(r, s)
  /\ \A s \in v \ DOMAIN r.sessions : s \in ended \cup a
  /\ ended \subseteq Sids /\ offered \subseteq Sids
  /\ \A s \in ended : Past(r, s)

(* A step of the registry under a suspended loop: objects are only added,   *)
(* and only those are newly registered.                                     *)
Advances(r, q) ==
  /\ Len(r.obj) \in Nat /\ Len(q.obj) \in Nat /\ Len(r.obj) <= Len(q.obj)
  /\ \A s \in DOMAIN q.sessions :
       \/ s \in DOMAIN r.sessions /\ q.sessions[s] = r.sessions[s]
       \/ q.sessions[s] \in Int /\ q.sessions[s] > Len(r.obj)

IInv ==
  /\ IsRegistry(reg) /\ Indexed(reg)
  /\ StackOK(reg, calls)
  /\ status \in {"running", "wedged", "aborted"}
  /\ replies \in Seq({"result", "error"})
  /\ Told(reg, view, astray, Ended(calls), Offered(calls))

-----------------------------------------------------------------------------
LEMMA StackAdvances ==
  ASSUME NEW r, NEW q, NEW c, StackOK(r, c), Advances(r, q)
  PROVE  StackOK(q, c)
<1>1. FramesOf(r) \subseteq FramesOf(q)
  <2>1. 1..Len(r.obj) \subseteq 1..Len(q.obj)
    BY DEF Advances
  <2> QED BY <2>1 DEF FramesOf, Frames, Ending, Offering
<1>2. c \in Seq(FramesOf(q))
  BY <1>1 DEF StackOK
<1>3. ASSUME NEW k \in 1..Len(c) PROVE Visited(q, c[k])
  <2> SUFFICES ASSUME c[k].fn = "endSessionsForJID",
                      NEW id \in c[k].snap \ c[k].todo, NEW s \in DOMAIN q.sessions
               PROVE  q.sessions[s] # id
    BY DEF Visited
  <2>1. c[k] \in FramesOf(r)
    BY DEF StackOK
  <2>2. c[k].snap \subseteq 1..Len(r.obj)
    BY <2>1 DEF FramesOf, Frames, Handling, Ending, Notifying, Offering
  <2>3. \A t \in DOMAIN r.sessions : r.sessions[t] # id
    BY DEF StackOK, Visited
  <2> QED BY <2>2, <2>3 DEF Advances
<1> QED BY <1>2, <1>3 DEF StackOK

LEMMA StackPush ==
  ASSUME NEW r, NEW c, StackOK(r, c), NEW f \in FramesOf(r), Visited(r, f)
  PROVE  StackOK(r, Append(c, f))
<1>1. c \in Seq(FramesOf(r))
  BY DEF StackOK
<1>2. Append(c, f) \in Seq(FramesOf(r)) /\ Len(Append(c, f)) = Len(c) + 1
  BY <1>1
<1>3. ASSUME NEW k \in 1..Len(Append(c, f)) PROVE Visited(r, Append(c, f)[k])
  <2>1. CASE k = Len(c) + 1
    BY <1>1, <2>1
  <2>2. CASE k \in 1..Len(c)
    <3>1. Append(c, f)[k] = c[k]
      BY <1>1, <2>2
    <3> QED BY <3>1, <2>2 DEF StackOK
  <2> QED BY <1>1, <1>2, <2>1, <2>2
<1> QED BY <1>2, <1>3 DEF StackOK

(* The front of a stack, and what is left of it when its top is popped.    *)
LEMMA Front ==
  ASSUME NEW S, NEW c \in Seq(S), NEW n \in 0..Len(c)
  PROVE  /\ SubSeq(c, 1, n) \in Seq(S) /\ Len(SubSeq(c, 1, n)) = n
         /\ \A k \in 1..n : SubSeq(c, 1, n)[k] = c[k] /\ k \in 1..Len(c)
<1>1. \A k \in 1..n : k \in 1..Len(c) /\ c[k] \in S
  OBVIOUS
<1>2. Len(SubSeq(c, 1, n)) = n
  OBVIOUS
<1>3. \A k \in 1..n : SubSeq(c, 1, n)[k] = c[k]
  OBVIOUS
<1>4. SubSeq(c, 1, n) \in Seq(S)
  OBVIOUS
<1> QED BY <1>1, <1>2, <1>3, <1>4

LEMMA Popped ==
  ASSUME NEW S, NEW c \in Seq(S), c # <<>>
  PROVE  LET p == SubSeq(c, 1, Len(c) - 1)
         IN  /\ Len(c) \in Nat \ {0} /\ Len(c) \in 1..Len(c)
             /\ p \in Seq(S) /\ Len(p) = Len(c) - 1
             /\ \A k \in 1..Len(p) : p[k] = c[k] /\ k \in 1..Len(c)
<1>1. Len(c) \in Nat \ {0}
  OBVIOUS
<1>2. Len(c) - 1 \in 0..Len(c) /\ Len(c) \in 1..Len(c)
  BY <1>1
<1> QED BY <1>1, <1>2, Front

LEMMA StackPop ==
  ASSUME NEW r, NEW c, StackOK(r, c), c # <<>>
  PROVE  /\ StackOK(r, SubSeq(c, 1, Len(c) - 1))
         /\ c[Len(c)] \in FramesOf(r) /\ Visited(r, c[Len(c)])
<1> DEFINE p == SubSeq(c, 1, Len(c) - 1)
<1>1. c \in Seq(FramesOf(r)) /\ Len(c) \in Nat \ {0}
  BY DEF StackOK
<1>2. p \in Seq(FramesOf(r)) /\ Len(p) = Len(c) - 1
  BY <1>1, Popped
<1>3. \A k \in 1..Len(p) : p[k] = c[k] /\ k \in 1..Len(c)
  BY <1>1, Popped
<1>4. StackOK(r, p)
  BY <1>2, <1>3 DEF StackOK
<1>5. Len(c) \in 1..Len(c)
  BY <1>1
<1> QED BY <1>1, <1>4, <1>5 DEF StackOK

LEMMA StackEmpty == ASSUME NEW r PROVE StackOK(r, <<>>)
BY DEF StackOK

LEMMA StackHandle ==
  ASSUME NEW r, NEW left \in 0..MaxEvents, NEW outcome \in Outcomes
  PROVE  StackOK(r, <<Handle(left, outcome)>>)
<1>1. Handle(left, outcome) \in FramesOf(r)
  BY DEF Handle, FramesOf, Frames, Handling
<1>2. Visited(r, Handle(left, outcome))
  BY DEF Visited, Handle
<1> QED BY <1>1, <1>2 DEF StackOK

(* The sids that the frames of the stack are about.                         *)
LEMMA SidsPush ==
  ASSUME NEW r, NEW c \in Seq(FramesOf(r)), NEW f, NEW fn
  PROVE  /\ f.fn = fn => SidsIn(Append(c, f), fn) = SidsIn(c, fn) \cup {f.sid}
         /\ f.fn # fn => SidsIn(Append(c, f), fn) = SidsIn(c, fn)
<1> DEFINE d == Append(c, f)
<1>1. /\ Len(c) \in Nat /\ Len(d) = Len(c) + 1
      /\ \A k \in 1..Len(c) : d[k] = c[k]
      /\ d[Len(c) + 1] = f
  OBVIOUS
<1>2. \A k \in 1..Len(d) : k \in 1..Len(c) \/ k = Len(c) + 1
  BY <1>1
<1>3. \A k \in 1..Len(c) : k \in 1..Len(d)
  BY <1>1
<1>4. Len(c) + 1 \in 1..Len(d)
  BY <1>1
<1> HIDE DEF d
<1>5. SidsIn(d, fn) \subseteq SidsIn(c, fn) \cup (IF f.fn = fn THEN {f.sid} ELSE {})
  BY <1>1, <1>2 DEF SidsIn
<1>6. SidsIn(c, fn) \subseteq SidsIn(d, fn)
  BY <1>1, <1>3 DEF SidsIn
<1>7. f.fn = fn => f.sid \in SidsIn(d, fn)
  BY <1>1, <1>4 DEF SidsIn
<1> QED BY <1>5, <1>6, <1>7 DEF d

LEMMA SidsPop ==
  ASSUME NEW r, NEW c \in Seq(FramesOf(r)), c # <<>>, NEW fn
  PROVE  LET p == SubSeq(c, 1, Len(c) - 1)
             t == c[Len(c)]
         IN  /\ t.fn = fn => SidsIn(c, fn) = SidsIn(p, fn) \cup {t.sid}
             /\ t.fn # fn => SidsIn(c, fn) = SidsIn(p, fn)
<1> DEFINE p == SubSeq(c, 1, Len(c) - 1)
<1>1. /\ Len(c) \in Nat \ {0} /\ Len(p) = Len(c) - 1
      /\ \A k \in 1..Len(p) : p[k] = c[k]
  BY Popped
<1>2. \A k \in 1..Len(c) : k \in 1..Len(p) \/ k = Len(c)
  BY <1>1
<1>3. \A k \in 1..Len(p) : k \in 1..Len(c)
  BY <1>1
<1>4. Len(c) \in 1..Len(c)
  BY <1>1
<1> HIDE DEF p
<1> DEFINE t == c[Len(c)]
<1>5. SidsIn(c, fn) \subseteq SidsIn(p, fn) \cup (IF t.fn = fn THEN {t.sid} ELSE {})
  BY <1>1, <1>2 DEF SidsIn
<1>6. SidsIn(p, fn) \subseteq SidsIn(c, fn)
  BY <1>1, <1>3 DEF SidsIn
<1>7. t.fn = fn => t.sid \in SidsIn(c, fn)
  BY <1>4 DEF SidsIn
<1> QED BY <1>5, <1>6, <1>7 DEF p

LEMMA SidsEmpty == ASSUME NEW fn PROVE SidsIn(<<>>, fn) = {}
BY DEF SidsIn

(* A stack of one handler is about no sid.                                  *)
LEMMA SidsHandle ==
  ASSUME NEW left, NEW outcome
  PROVE  LET c == <<Handle(left, outcome)>> IN Ended(c) = {} /\ Offered(c) = {}
BY DEF SidsIn, Ended, Offered, Handle

(* Replacing the top of the stack by a frame about no sid, or the same.     *)
LEMMA SidsReplace ==
  ASSUME NEW r, NEW c \in Seq(FramesOf(r)), c # <<>>, NEW f, f.fn \in {"handle", "endSessionsForJID"},
         c[Len(c)].fn \in {"handle", "endSessionsForJID"}
  PROVE  LET p == SubSeq(c, 1, Len(c) - 1)
         IN  /\ Ended(Append(p, f)) = Ended(c) /\ Offered(Append(p, f)) = Offered(c)
             /\ Ended(p) = Ended(c) /\ Offered(p) = Offered(c)
<1> DEFINE p == SubSeq(c, 1, Len(c) - 1)
<1>1. p \in Seq(FramesOf(r))
  BY Popped
<1> HIDE DEF p
<1>2. \A fn \in {"endSessionBySID", "onSessionInitiate"} :
        SidsIn(c, fn) = SidsIn(p, fn) /\ SidsIn(Append(p, f), fn) = SidsIn(p, fn)
  <2> TAKE fn \in {"endSessionBySID", "onSessionInitiate"}
  <2>1. c[Len(c)].fn # fn /\ f.fn # fn
    OBVIOUS
  <2>2. SidsIn(c, fn) = SidsIn(p, fn)
    BY <2>1, SidsPop DEF p
  <2>3. SidsIn(Append(p, f), fn) = SidsIn(p, fn)
    BY <1>1, <2>1, SidsPush
  <2> QED BY <2>2, <2>3
<1> QED BY <1>2 DEF Ended, Offered, p

(* The new registry is consistent and moves every suspended loop along.     *)
LEMMA NewSessionAdvances ==
  ASSUME NEW r, IsRegistry(r), Indexed(r),
         NEW sid \in Sids, NEW peer \in JIDs
  PROVE  Advances(r, newSession(r, sid, peer))
<1>1. Len(r.obj) \in Nat
  BY DEF IsRegistry
<1> QED BY <1>1, NewSession DEF Advances

LEMMA UnregisterAdvances ==
  ASSUME NEW r, IsRegistry(r), Indexed(r), NEW sid
  PROVE  Advances(r, Unregister(r, sid))
<1>1. Len(r.obj) \in Nat
  BY DEF IsRegistry
<1> QED BY <1>1, UnregisterSession DEF Advances

(* After the end of the sid of an object, the object is not registered.     *)
LEMMA EndedIsGone ==
  ASSUME NEW r, IsRegistry(r), Indexed(r), NEW id
  PROVE  \A s \in DOMAIN Unregister(r, r.obj[id].sid).sessions :
           Unregister(r, r.obj[id].sid).sessions[s] # id
<1> DEFINE q == Unregister(r, r.obj[id].sid)
<1> SUFFICES ASSUME NEW s \in DOMAIN q.sessions, q.sessions[s] = id PROVE FALSE
  OBVIOUS
<1>1. s \in DOMAIN r.sessions /\ s # r.obj[id].sid /\ r.sessions[s] = id
  BY UnregisterSession
<1>2. r.obj[r.sessions[s]].sid = s
  BY <1>1 DEF Indexed
<1> QED BY <1>1, <1>2

-----------------------------------------------------------------------------
(* Objects keep their sids and peers, and only objects are added.           *)
Keeps(r, q) ==
  /\ Len(r.obj) \in Nat /\ Len(q.obj) \in Nat /\ Len(r.obj) <= Len(q.obj)
  /\ \A i \in 1..Len(r.obj) : q.obj[i].sid = r.obj[i].sid /\ q.obj[i].peer = r.obj[i].peer

LEMMA ReusedKeeps ==
  ASSUME NEW r, NEW q, Keeps(r, q), NEW s, Reused(r, s) PROVE Reused(q, s)
<1>1. \A i \in 1..Len(r.obj) : i \in 1..Len(q.obj) /\ q.obj[i].sid = r.obj[i].sid
  BY DEF Keeps
<1> QED BY <1>1 DEF Reused

LEMMA NewSessionKeeps ==
  ASSUME NEW r, IsRegistry(r), Indexed(r), NEW sid \in Sids, NEW peer \in JIDs
  PROVE  LET q == newSession(r, sid, peer)
         IN  Keeps(r, q) /\ Len(q.obj) = Len(r.obj) + 1 /\ q.obj[Len(q.obj)].sid = sid
<1> DEFINE o == Jingle_new(sid, peer)
           q == newSession(r, sid, peer)
<1>1. o.sid = sid
  BY DEF Jingle_new
<1>2. q.obj = Append(r.obj, o) /\ r.obj \in Seq(Session)
  BY DEF newSession, IsRegistry
<1> HIDE DEF o, q
<1>3. /\ Len(r.obj) \in Nat /\ Len(q.obj) = Len(r.obj) + 1 /\ q.obj[Len(q.obj)] = o
      /\ \A i \in 1..Len(r.obj) : q.obj[i] = r.obj[i]
  BY <1>2
<1> QED BY <1>1, <1>3 DEF Keeps, q

(* A second object of a sid makes it reused; the sids of the others stay    *)
(* what they were.                                                          *)
LEMMA PastNew ==
  ASSUME NEW r, IsRegistry(r), Indexed(r), NEW sid \in Sids, NEW peer \in JIDs,
         NEW s, Past(r, s)
  PROVE  Past(newSession(r, sid, peer), s)
<1> DEFINE q == newSession(r, sid, peer)
<1>1. /\ Keeps(r, q) /\ Len(q.obj) = Len(r.obj) + 1 /\ q.obj[Len(q.obj)].sid = sid
      /\ DOMAIN q.sessions = DOMAIN r.sessions \cup {sid}
  BY NewSessionKeeps, NewSession
<1> HIDE DEF q
<1>2. PICK i \in 1..Len(r.obj) : r.obj[i].sid = s
  BY DEF Past
<1>3. i \in 1..Len(q.obj) /\ q.obj[i].sid = s /\ Len(q.obj) \in 1..Len(q.obj) /\ i # Len(q.obj)
  BY <1>1, <1>2 DEF Keeps
<1>4. CASE s = sid
  <2>1. Reused(q, s)
    BY <1>1, <1>3, <1>4 DEF Reused
  <2> QED BY <1>3, <2>1 DEF Past, q
<1>5. CASE s # sid
  <2>1. s \in DOMAIN q.sessions => s \in DOMAIN r.sessions
    BY <1>1, <1>5
  <2>2. s \in DOMAIN q.sessions => Reused(q, s)
    BY <1>1, <2>1, ReusedKeeps DEF Past
  <2> QED BY <1>3, <2>2 DEF Past, q
<1> QED BY <1>4, <1>5

(* The tables agree, so the list is found: ending a session never raises.   *)
LEMMA EndMeans ==
  ASSUME Indexed(reg), NEW sid, NEW notify, NEW stack, NEW inStep,
         endSessionBySID(sid, notify, stack, inStep)
  PROVE  /\ reg' = Unregister(reg, sid) /\ status' = status
         /\ \/ /\ notify /\ sid \in DOMAIN reg.sessions
               /\ calls' = Append(stack, [fn |-> "endSessionBySID", sid |-> sid])
               /\ view' = view /\ astray' = astray
            \/ /\ calls' = stack
               /\ view' = view \ {sid} /\ astray' = astray \ {sid}
<1>1. ~(sid \in DOMAIN reg.sessions /\ ~Listed(reg, reg.sessions[sid]))
  BY DEF Indexed, Listed
<1> QED BY <1>1 DEF endSessionBySID

LEMMA EndStep ==
  ASSUME IInv, NEW sid \in Sids, NEW notify, NEW stack, NEW inStep,
         StackOK(Unregister(reg, sid), stack),
         Ended(stack) = Ended(calls), Offered(stack) = Offered(calls),
         endSessionBySID(sid, notify, stack, inStep),
         replies' \in Seq({"result", "error"})
  PROVE  IInv'
<1>0. IsRegistry(reg) /\ Indexed(reg) /\ status \in {"running", "wedged", "aborted"}
      /\ Told(reg, view, astray, Ended(calls), Offered(calls))
  BY DEF IInv
<1> DEFINE g == [fn |-> "endSessionBySID", sid |-> sid]
           q == Unregister(reg, sid)
<1>1. /\ reg' = q /\ status' = status
      /\ \/ /\ sid \in DOMAIN reg.sessions /\ calls' = Append(stack, g)
            /\ view' = view /\ astray' = astray
         \/ /\ calls' = stack
            /\ view' = view \ {sid} /\ astray' = astray \ {sid}
  BY <1>0, EndMeans
<1>2. /\ IsRegistry(q) /\ Indexed(q) /\ q.obj = reg.obj
      /\ DOMAIN q.sessions = DOMAIN reg.sessions \ {sid}
  BY <1>0, UnregisterSession
<1> HIDE DEF q
<1>3. /\ \A s : Reused(reg, s) => Reused(q, s)
      /\ \A s : Past(reg, s) => Past(q, s)
  BY <1>2 DEF Reused, Past
<1>4. stack \in Seq(FramesOf(q))
  BY DEF StackOK, q
<1>5. CASE sid \in DOMAIN reg.sessions /\ calls' = Append(stack, g)
           /\ view' = view /\ astray' = astray
  <2>1. g \in FramesOf(q) /\ Visited(q, g)
    BY DEF FramesOf, Frames, Notifying, Visited
  <2>2. StackOK(q, calls')
    BY <1>5, <2>1, StackPush DEF q
  <2>3. Ended(calls') = Ended(calls) \cup {sid} /\ Offered(calls') = Offered(calls)
    <3>1. SidsIn(Append(stack, g), "endSessionBySID") = SidsIn(stack, "endSessionBySID") \cup {sid}
      BY <1>4, SidsPush
    <3>2. SidsIn(Append(stack, g), "onSessionInitiate") = SidsIn(stack, "onSessionInitiate")
      BY <1>4, SidsPush
    <3> QED BY <1>5, <3>1, <3>2 DEF Ended, Offered
  <2>4. Past(q, sid)
    <3>1. reg.sessions[sid] \in 1..Len(q.obj) /\ q.obj[reg.sessions[sid]].sid = sid
      BY <1>0, <1>2, <1>5 DEF IsRegistry, Indexed
    <3> QED BY <1>2, <3>1 DEF Past
  <2>5. Told(q, view, astray, Ended(calls'), Offered(calls'))
    BY <1>0, <1>2, <1>3, <2>3, <2>4 DEF Told
  <2> QED BY <1>0, <1>1, <1>2, <1>5, <2>2, <2>5 DEF IInv
<1>6. CASE calls' = stack /\ view' = view \ {sid} /\ astray' = astray \ {sid}
  <2>1. Told(q, view', astray', Ended(calls'), Offered(calls'))
    BY <1>0, <1>2, <1>3, <1>6 DEF Told
  <2>2. StackOK(q, calls')
    BY <1>6 DEF q
  <2> QED BY <1>0, <1>1, <1>2, <2>1, <2>2 DEF IInv
<1> QED BY <1>1, <1>5, <1>6

(* A step that only moves the stack and the answers.                        *)
LEMMA StackStep ==
  ASSUME IInv, reg' = reg, view' = view, astray' = astray, StackOK(reg, calls'),
         Ended(calls') = Ended(calls), Offered(calls') = Offered(calls),
         status' \in {"running", "wedged", "aborted"},
         replies' \in Seq({"result", "error"})
  PROVE  IInv'
BY DEF IInv

(* An error: what was suspended is forgotten, and the sids go astray.       *)
LEMMA RaiseStep ==
  ASSUME IInv, NEW inStep, Raise(inStep), reg' = reg, view' = view,
         replies' \in Seq({"result", "error"})
  PROVE  IInv'
<1>1. /\ Told(reg, view, astray, Ended(calls), Offered(calls))
      /\ IsRegistry(reg) /\ Indexed(reg)
  BY DEF IInv
<1>2. /\ calls' = <<>> /\ astray' = astray \cup Ended(calls) \cup Offered(calls)
      /\ status' \in {"running", "wedged", "aborted"}
  BY DEF Raise
<1>3. Ended(calls') = {} /\ Offered(calls') = {}
  BY <1>2, SidsEmpty DEF Ended, Offered
<1>4. Told(reg, view, astray', {}, {})
  BY <1>1, <1>2 DEF Told
<1> QED BY <1>1, <1>2, <1>3, <1>4, StackEmpty DEF IInv

(* A step in which one session object changes its flags.                    *)
LEMMA FlagStep ==
  ASSUME IInv, NEW id \in 1..Len(reg.obj), NEW o \in Session,
         o.sid = reg.obj[id].sid, o.peer = reg.obj[id].peer,
         reg' = [reg EXCEPT !.obj[id] = o],
         StackOK(reg, calls'), status' = status,
         Told(reg, view', astray', Ended(calls'), Offered(calls')),
         replies' \in Seq({"result", "error"})
  PROVE  IInv'
<1>0. IsRegistry(reg) /\ Indexed(reg) /\ status \in {"running", "wedged", "aborted"}
  BY DEF IInv
<1>2. /\ IsRegistry(reg') /\ Indexed(reg')
      /\ reg'.sessions = reg.sessions /\ Len(reg'.obj) = Len(reg.obj)
  BY <1>0, SetFlags
<1>3. Len(reg.obj) \in Nat /\ reg.obj \in Seq(Session)
  BY <1>0 DEF IsRegistry
<1>4. Advances(reg, reg')
  BY <1>2, <1>3 DEF Advances
<1>5. StackOK(reg', calls')
  BY <1>4, StackAdvances
<1>6. \A i \in 1..Len(reg.obj) : reg'.obj[i].sid = reg.obj[i].sid
  <2>1. reg'.obj = [reg.obj EXCEPT ![id] = o]
    BY <1>0 DEF IsRegistry
  <2> QED BY <1>3, <2>1
<1>7. /\ \A s : Reused(reg, s) => Reused(reg', s)
      /\ \A s : Past(reg, s) => Past(reg', s)
  BY <1>2, <1>6 DEF Reused, Past
<1>8. Told(reg', view', astray', Ended(calls'), Offered(calls'))
  BY <1>2, <1>7 DEF Told
<1> QED BY <1>0, <1>2, <1>5, <1>8 DEF IInv

(* The session of a sid changes its flags.                                  *)
LEMMA SessionFlagStep ==
  ASSUME IInv, NEW sid \in DOMAIN reg.sessions, NEW o \in Session,
         o.sid = SessionOf(reg, sid).sid, o.peer = SessionOf(reg, sid).peer,
         reg' = SetObject(reg, sid, o), view' = view, astray' = astray,
         StackOK(reg, calls'), status' = status,
         Ended(calls') = Ended(calls), Offered(calls') = Offered(calls),
         replies' \in Seq({"result", "error"})
  PROVE  IInv'
<1>1. reg.sessions[sid] \in 1..Len(reg.obj)
  BY DEF IInv, IsRegistry
<1>2. Told(reg, view', astray', Ended(calls'), Offered(calls'))
  BY DEF IInv
<1> QED BY <1>1, <1>2, FlagStep DEF SessionOf, SetObject

(* A new session object, whichever side made it.                            *)
LEMMA NewStep ==
  ASSUME IInv, NEW sid \in Sids, NEW peer \in JIDs,
         reg' = newSession(reg, sid, peer),
         \/ /\ view' = view \cup {sid} /\ astray' = astray \ {sid}
            /\ calls' = calls
         \/ /\ view' = view /\ astray' = astray /\ calls = <<>>
            /\ calls' = <<[fn |-> "onSessionInitiate", sid |-> sid, id |-> Len(reg.obj) + 1]>>,
         status' = status, replies' \in Seq({"result", "error"})
  PROVE  IInv'
<1>0. IsRegistry(reg) /\ Indexed(reg) /\ Told(reg, view, astray, Ended(calls), Offered(calls))
      /\ StackOK(reg, calls) /\ status \in {"running", "wedged", "aborted"}
  BY DEF IInv
<1>1. /\ IsRegistry(reg') /\ Indexed(reg') /\ Len(reg'.obj) = Len(reg.obj) + 1
      /\ DOMAIN reg'.sessions = DOMAIN reg.sessions \cup {sid}
  BY <1>0, NewSession
<1>2. /\ \A s : Reused(reg, s) => Reused(reg', s)
      /\ \A s : Past(reg, s) => Past(reg', s)
  BY <1>0, NewSessionKeeps, ReusedKeeps, PastNew
<1>3. CASE view' = view \cup {sid} /\ astray' = astray \ {sid} /\ calls' = calls
  <2>1. Told(reg', view', astray', Ended(calls'), Offered(calls'))
    BY <1>0, <1>1, <1>2, <1>3 DEF Told
  <2>2. StackOK(reg', calls')
    BY <1>0, <1>3, NewSessionAdvances, StackAdvances
  <2> QED BY <1>0, <1>1, <2>1, <2>2 DEF IInv
<1>4. CASE /\ view' = view /\ astray' = astray /\ calls = <<>>
           /\ calls' = <<[fn |-> "onSessionInitiate", sid |-> sid, id |-> Len(reg.obj) + 1]>>
  <2> DEFINE g == [fn |-> "onSessionInitiate", sid |-> sid, id |-> Len(reg.obj) + 1]
  <2>1. Len(reg.obj) \in Nat
    BY <1>0 DEF IsRegistry
  <2>2. g \in FramesOf(reg') /\ Visited(reg', g)
    BY <1>1, <2>1 DEF FramesOf, Frames, Offering, Visited
  <2>3. calls' = Append(<<>>, g)
    BY <1>4
  <2>4. StackOK(reg', calls')
    BY <2>2, <2>3, StackEmpty, StackPush
  <2>5. Ended(calls) = {} /\ Offered(calls) = {}
    BY <1>4, SidsEmpty DEF Ended, Offered
  <2>6. Ended(calls') = {} /\ Offered(calls') = {sid}
    BY <1>4 DEF Ended, Offered, SidsIn
  <2>7. Told(reg', view', astray', Ended(calls'), Offered(calls'))
    BY <1>0, <1>1, <1>2, <1>4, <2>5, <2>6 DEF Told
  <2> QED BY <1>0, <1>1, <2>4, <2>7 DEF IInv
<1> QED BY <1>3, <1>4

-----------------------------------------------------------------------------
LEMMA SessionType ==
  ASSUME IInv, NEW sid \in DOMAIN reg.sessions
  PROVE  SessionOf(reg, sid) \in Session /\ sid \in Sids
<1>1. reg.sessions[sid] \in 1..Len(reg.obj) /\ reg.obj \in Seq(Session)
  BY DEF IInv, IsRegistry
<1>2. sid \in Sids
  BY DEF IInv, IsRegistry
<1> QED BY <1>1, <1>2 DEF SessionOf

LEMMA ObjectSid ==
  ASSUME NEW r, IsRegistry(r), NEW id \in 1..Len(r.obj) PROVE r.obj[id].sid \in Sids
<1>1. r.obj[id] \in Session
  BY DEF IsRegistry
<1> QED BY <1>1 DEF Session

LEMMA InitInv == Init => IInv
<1> SUFFICES ASSUME Init PROVE IInv
  OBVIOUS
<1>1. Ended(calls) = {} /\ Offered(calls) = {}
  BY SidsEmpty DEF Init, Ended, Offered
<1>2. Told(reg, view, astray, {}, {})
  BY DEF Init, Told, EmptyRegistry
<1>3. StackOK(reg, calls) /\ IsRegistry(reg) /\ Indexed(reg)
  BY EmptyIsIndexed, StackEmpty DEF Init
<1>4. status = "running" /\ replies \in Seq({"result", "error"})
  BY DEF Init
<1> QED BY <1>1, <1>2, <1>3, <1>4 DEF IInv

LEMMA RequestStep == ASSUME IInv, Request PROVE IInv'
<1>0. /\ replies \in Seq({"result", "error"}) /\ StackOK(reg, calls)
      /\ status \in {"running", "wedged", "aborted"}
      /\ <<"error">> \in Seq({"result", "error"})
      /\ <<"result">> \in Seq({"result", "error"})
      /\ << >> \in Seq({"result", "error"})
  BY DEF IInv
<1>00. 0 \in 0..MaxEvents
  BY BoundsAssumption
<1>000. /\ Ended(<<>>) = {} /\ Offered(<<>>) = {}
        /\ \A left, outcome : /\ Ended(<<Handle(left, outcome)>>) = {}
                              /\ Offered(<<Handle(left, outcome)>>) = {}
  BY SidsEmpty, SidsHandle DEF Ended, Offered
<1>1. PICK sid \in Sids, from \in JIDs :
        \/ \E action \in Actions, media \in BOOLEAN :
             Refuse(action, sid, from, media) \/ RaiseOnRequest(action, sid, from, media)
        \/ \E action \in Silent : NotHandled(action, sid, from)
        \/ SessionInitiate(sid, from)
        \/ SessionAccept(sid, from)
        \/ SessionTerminate(sid, from)
        \/ \E action \in {"transport-info", "session-info"}, n \in 0..MaxEvents,
              text \in BOOLEAN : InfoRequest(action, sid, from, n, text)
        \/ \E action \in SourceOps, changed \in BOOLEAN :
             SourceRequest(action, sid, from, changed)
  BY DEF Request
<1>2. CASE \E action \in Actions, media \in BOOLEAN :
             Refuse(action, sid, from, media) \/ RaiseOnRequest(action, sid, from, media)
  <2>1. ASSUME NEW action, NEW media, Refuse(action, sid, from, media) PROVE IInv'
    BY <2>1, <1>0, StackStep DEF Refuse
  <2>2. ASSUME NEW action, NEW media, RaiseOnRequest(action, sid, from, media) PROVE IInv'
    BY <2>2, <1>0, RaiseStep DEF RaiseOnRequest
  <2> QED BY <1>2, <2>1, <2>2
<1>3. CASE \E action \in Silent : NotHandled(action, sid, from)
  BY <1>3, <1>0, StackStep DEF NotHandled
<1>4. CASE SessionInitiate(sid, from)
  BY <1>0, <1>4, NewStep DEF SessionInitiate, Reading
<1>5. CASE SessionAccept(sid, from)
  <2>1. sid \in DOMAIN reg.sessions
    BY <1>5 DEF SessionAccept, Verdict
  <2> DEFINE o == [SessionOf(reg, sid) EXCEPT !.remote = TRUE, !.isPending = FALSE]
  <2>2. o \in Session /\ o.sid = SessionOf(reg, sid).sid /\ o.peer = SessionOf(reg, sid).peer
    BY <2>1, SessionType DEF Session
  <2>3. StackOK(reg, calls')
    BY <1>5, <1>00, StackHandle DEF SessionAccept, Outcomes
  <2>4. reg' = SetObject(reg, sid, o)
    BY <1>5 DEF SessionAccept, onSessionAccept
  <2>5. Ended(calls') = Ended(calls) /\ Offered(calls') = Offered(calls)
    BY <1>000, <1>5 DEF SessionAccept, Reading
  <2> QED BY <1>0, <1>5, <2>1, <2>2, <2>3, <2>4, <2>5, SessionFlagStep DEF SessionAccept
<1>6. CASE SessionTerminate(sid, from)
  <2>1. StackOK(Unregister(reg, sid), <<Handle(0, "nil")>>)
    BY <1>00, StackHandle DEF Outcomes
  <2> QED BY <1>0, <1>000, <1>6, <2>1, EndStep DEF SessionTerminate, Reading
<1>7. CASE \E action \in {"transport-info", "session-info"}, n \in 0..MaxEvents,
              text \in BOOLEAN : InfoRequest(action, sid, from, n, text)
  <2> SUFFICES ASSUME NEW action, NEW n \in 0..MaxEvents, NEW text \in BOOLEAN,
                      InfoRequest(action, sid, from, n, text)
               PROVE  IInv'
    BY <1>7
  <2>1. /\ reg' = reg /\ view' = view /\ replies' = <<"result">> /\ calls = <<>>
        /\ \/ Raise(TRUE)
           \/ /\ status' = status /\ astray' = astray
              /\ \/ calls' = <<>>
                 \/ n # 0 /\ calls' = <<Handle(n - 1, IF text THEN "raises" ELSE "handled")>>
    BY DEF InfoRequest, Reading
  <2>2. n # 0 => StackOK(reg, <<Handle(n - 1, IF text THEN "raises" ELSE "handled")>>)
    <3>1. n # 0 => n - 1 \in 0..MaxEvents
      BY BoundsAssumption
    <3>2. (IF text THEN "raises" ELSE "handled") \in Outcomes
      BY DEF Outcomes
    <3> QED BY <3>1, <3>2, StackHandle
  <2>3. CASE Raise(TRUE)
    BY <1>0, <2>1, <2>3, RaiseStep
  <2>4. CASE status' = status /\ astray' = astray /\ calls' = <<>>
    BY <1>0, <2>1, <2>4, StackEmpty, StackStep
  <2>5. CASE status' = status /\ astray' = astray /\ n # 0
             /\ calls' = <<Handle(n - 1, IF text THEN "raises" ELSE "handled")>>
    BY <1>0, <1>000, <2>1, <2>2, <2>5, StackStep
  <2> QED BY <2>1, <2>3, <2>4, <2>5
<1>8. CASE \E action \in SourceOps, changed \in BOOLEAN :
             SourceRequest(action, sid, from, changed)
  <2> SUFFICES ASSUME NEW action, NEW changed, SourceRequest(action, sid, from, changed)
               PROVE  IInv'
    BY <1>8
  <2>1. /\ reg' = reg /\ view' = view /\ replies' = <<"result">> /\ calls = <<>>
        /\ \/ Raise(TRUE)
           \/ /\ status' = status /\ astray' = astray
              /\ calls' = <<>> \/ calls' = <<Handle(0, "handled")>>
    BY DEF SourceRequest, Reading
  <2>2. StackOK(reg, <<Handle(0, "handled")>>)
    BY <1>00, StackHandle DEF Outcomes
  <2>3. CASE Raise(TRUE)
    BY <1>0, <2>1, <2>3, RaiseStep
  <2>4. CASE status' = status /\ astray' = astray /\ (calls' = <<>> \/ calls' = <<Handle(0, "handled")>>)
    BY <1>0, <1>000, <2>1, <2>2, <2>4, StackEmpty, StackStep
  <2> QED BY <2>1, <2>3, <2>4
<1> QED BY <1>1, <1>2, <1>3, <1>4, <1>5, <1>6, <1>7, <1>8

(* One iteration: the loop ends the sid of a session it took off its list.  *)
LEMMA LoopStep ==
  ASSUME NEW c, NEW f, NEW id, NEW rest, IInv, StackOK(reg, c),
         f \in Ending(1..Len(reg.obj)), Visited(reg, f), id \in f.todo,
         rest = [f EXCEPT !.todo = @ \ {id}]
  PROVE  StackOK(Unregister(reg, reg.obj[id].sid), Append(c, rest))
<1> DEFINE q == Unregister(reg, reg.obj[id].sid)
<1>1. IsRegistry(reg) /\ Indexed(reg)
  BY DEF IInv
<1>2. Advances(reg, q) /\ q.obj = reg.obj
  BY <1>1, UnregisterAdvances, UnregisterSession
<1>3. StackOK(q, c)
  BY <1>2, StackAdvances
<1>4. rest \in FramesOf(q)
  BY <1>2 DEF FramesOf, Frames, Ending
<1>5. Visited(q, rest)
  <2> SUFFICES ASSUME NEW i \in rest.snap \ rest.todo, NEW s \in DOMAIN q.sessions
               PROVE  q.sessions[s] # i
    BY DEF Visited
  <2>1. CASE i = id
    BY <2>1, <1>1, EndedIsGone
  <2>2. CASE i # id
    <3>1. i \in f.snap \ f.todo
      BY <2>2 DEF Ending
    <3>2. f.fn = "endSessionsForJID"
      BY DEF Ending
    <3>3. s \in DOMAIN reg.sessions /\ q.sessions[s] = reg.sessions[s]
      BY <1>1, UnregisterSession
    <3> QED BY <3>1, <3>2, <3>3 DEF Visited
  <2> QED BY <2>1, <2>2
<1> QED BY <1>3, <1>4, <1>5, StackPush

LEMMA ApiStep == ASSUME IInv, ApiCall PROVE IInv'
<1>0. /\ replies \in Seq({"result", "error"}) /\ StackOK(reg, calls)
      /\ IsRegistry(reg) /\ Indexed(reg)
      /\ status \in {"running", "wedged", "aborted"}
      /\ InStep \in BOOLEAN
  BY DEF IInv, InStep
<1>1. ASSUME NEW sid \in Sids, NEW peer \in JIDs, CreateSession(sid, peer) PROVE IInv'
  BY <1>0, <1>1, NewStep DEF CreateSession
<1>2. ASSUME NEW sid \in Sids, StartSession(sid) PROVE IInv'
  <2> DEFINE o == [SessionOf(reg, sid) EXCEPT !.isPending = TRUE]
  <2>1. sid \in DOMAIN reg.sessions
    BY <1>2 DEF StartSession
  <2>2. o \in Session /\ o.sid = SessionOf(reg, sid).sid /\ o.peer = SessionOf(reg, sid).peer
    BY <2>1, SessionType DEF Session
  <2> QED BY <1>0, <1>2, <2>1, <2>2, SessionFlagStep DEF StartSession, initiateSDP
<1>3. ASSUME NEW sid \in Sids, AcceptSession(sid) PROVE IInv'
  <2> DEFINE o == [SessionOf(reg, sid) EXCEPT !.isPending = FALSE]
  <2>1. sid \in DOMAIN reg.sessions
    BY <1>3 DEF AcceptSession
  <2>2. o \in Session /\ o.sid = SessionOf(reg, sid).sid /\ o.peer = SessionOf(reg, sid).peer
    BY <2>1, SessionType DEF Session
  <2> QED BY <1>0, <1>3, <2>1, <2>2, SessionFlagStep DEF AcceptSession, acceptSDP
<1>4. ASSUME NEW sid \in Sids, NEW notify \in BOOLEAN, EndSession(sid, notify) PROVE IInv'
  <2>1. StackOK(Unregister(reg, sid), calls)
    BY <1>0, UnregisterAdvances, StackAdvances
  <2> QED BY <1>0, <1>4, <2>1, EndStep DEF EndSession
<1>5. ASSUME NEW sid \in Sids, BrokenCall(sid) PROVE IInv'
  BY <1>0, <1>5, RaiseStep DEF BrokenCall
<1>6. ASSUME NEW jid \in JIDs, NEW notify \in BOOLEAN, EndSessionsForJID(jid, notify) PROVE IInv'
  <2> DEFINE ids == getSessionsByJID(reg, jid)
             f == [fn |-> "endSessionsForJID", jid |-> jid, snap |-> ids, todo |-> ids,
                   notify |-> notify]
             g(i) == [fn |-> "endSessionsForJID", jid |-> jid, snap |-> ids, todo |-> ids \ {i},
                      notify |-> notify]
  <2>1. PICK id \in ids :
          endSessionBySID(reg.obj[id].sid, notify, Append(calls, g(id)), InStep)
    BY <1>6 DEF EndSessionsForJID, First
  <2>2. ids \in SUBSET (1..Len(reg.obj))
    BY <1>0 DEF getSessionsByJID, IsRegistry
  <2>3. f \in Ending(1..Len(reg.obj)) /\ Visited(reg, f)
    BY <2>2 DEF Ending, Visited
  <2>4. StackOK(Unregister(reg, reg.obj[id].sid), Append(calls, g(id)))
    BY <1>0, <2>3, LoopStep
  <2>5. replies' = replies
    BY <1>6 DEF EndSessionsForJID
  <2>6. Ended(Append(calls, g(id))) = Ended(calls) /\ Offered(Append(calls, g(id))) = Offered(calls)
    <3>1. calls \in Seq(FramesOf(reg))
      BY <1>0 DEF StackOK
    <3>2. \A fn \in {"endSessionBySID", "onSessionInitiate"} :
            SidsIn(Append(calls, g(id)), fn) = SidsIn(calls, fn)
      <4> TAKE fn \in {"endSessionBySID", "onSessionInitiate"}
      <4> HIDE DEF ids
      <4>1. g(id).fn # fn
        OBVIOUS
      <4> HIDE DEF g
      <4> QED BY <3>1, <4>1, SidsPush
    <3> QED BY <3>2 DEF Ended, Offered
  <2>7. reg.obj[id].sid \in Sids
    BY <1>0, <2>2, ObjectSid
  <2> HIDE DEF g
  <2> QED BY <1>0, <2>1, <2>4, <2>5, <2>6, <2>7, EndStep
<1> QED BY <1>1, <1>2, <1>3, <1>4, <1>5, <1>6 DEF ApiCall

LEMMA ReturnStep == ASSUME IInv, HookReturns PROVE IInv'
<1>0. /\ replies \in Seq({"result", "error"}) /\ StackOK(reg, calls)
      /\ status \in {"running", "wedged", "aborted"}
      /\ InStep \in BOOLEAN /\ IsRegistry(reg)
  BY DEF IInv, InStep
<1>01. calls \in Seq(FramesOf(reg))
  BY <1>0 DEF StackOK
<1>1. calls # <<>> => /\ StackOK(reg, Pop)
                      /\ Top \in FramesOf(reg) /\ Visited(reg, Top)
  BY <1>0, StackPop DEF Pop, Top
<1>2. CASE NextSession
  <2> DEFINE f(i) == [Top EXCEPT !.todo = @ \ {i}]
  <2>1. PICK id \in Top.todo :
          endSessionBySID(reg.obj[id].sid, Top.notify, Append(Pop, f(id)), InStep)
    BY <1>2 DEF NextSession, First
  <2>2. Top \in Ending(1..Len(reg.obj))
    BY <1>1, <1>2 DEF NextSession, FramesOf, Frames, Handling, Notifying, Offering
  <2>3. StackOK(Unregister(reg, reg.obj[id].sid), Append(Pop, f(id)))
    BY <1>1, <1>2, <2>2, LoopStep DEF NextSession
  <2>4. replies' = replies
    BY <1>2 DEF NextSession
  <2>5. id \in 1..Len(reg.obj) /\ f(id).fn = "endSessionsForJID" /\ Top.fn = "endSessionsForJID"
    BY <2>2 DEF Ending
  <2>6. reg.obj[id].sid \in Sids
    BY <1>0, <2>5, ObjectSid
  <2>7. Ended(Append(Pop, f(id))) = Ended(calls) /\ Offered(Append(Pop, f(id))) = Offered(calls)
    <3> HIDE DEF f
    <3>1. calls # <<>> /\ calls \in Seq(FramesOf(reg))
      BY <1>0, <1>2 DEF NextSession, StackOK
    <3>2. calls[Len(calls)].fn = "endSessionsForJID"
      BY <2>5 DEF Top
    <3> QED BY <2>5, <3>1, <3>2, SidsReplace DEF Pop
  <2> HIDE DEF f
  <2> QED BY <1>0, <2>1, <2>3, <2>4, <2>6, <2>7, EndStep
<1>3. CASE LoopEnds
  <2>1. Ended(Pop) = Ended(calls) /\ Offered(Pop) = Offered(calls)
    BY <1>01, <1>3, SidsReplace DEF LoopEnds, Pop, Top
  <2> QED BY <1>0, <1>1, <1>3, <2>1, StackStep DEF LoopEnds
<1>4. CASE NextEvent
  <2>1. Top \in Handling /\ Top.left \in Nat /\ Top.left > 0
    <3>1. Top \in FramesOf(reg) /\ Top.fn = "handle" /\ Top.left > 0
      BY <1>1, <1>4 DEF NextEvent
    <3>2. Top \in Handling
      BY <3>1 DEF FramesOf, Frames, Ending, Notifying, Offering
    <3> QED BY <3>1, <3>2, BoundsAssumption DEF Handling
  <2> DEFINE f == [Top EXCEPT !.left = @ - 1]
  <2>2. f \in FramesOf(reg)
    <3>1. Top.left - 1 \in 0..MaxEvents
      BY <2>1, BoundsAssumption DEF Handling
    <3> QED BY <2>1, <3>1 DEF Handling, FramesOf, Frames
  <2>3. Visited(reg, f)
    BY <2>1 DEF Handling, Visited
  <2>4. StackOK(reg, Append(Pop, f))
    BY <1>1, <1>4, <2>2, <2>3, StackPush DEF NextEvent
  <2>5. f.fn = "handle"
    BY <2>1 DEF Handling
  <2>6. Ended(Append(Pop, f)) = Ended(calls) /\ Offered(Append(Pop, f)) = Offered(calls)
    <3> HIDE DEF f
    <3> QED BY <1>01, <1>4, <2>5, SidsReplace DEF NextEvent, Pop, Top
  <2> QED BY <1>0, <1>4, <2>4, <2>6, StackStep DEF NextEvent
<1>5. CASE HandlerEnds
  <2>1. replies' \in Seq({"result", "error"})
    BY <1>0, <1>5 DEF HandlerEnds
  <2>2. Ended(Pop) = Ended(calls) /\ Offered(Pop) = Offered(calls)
    BY <1>01, <1>5, SidsReplace DEF HandlerEnds, Pop, Top
  <2> QED BY <1>0, <1>1, <1>5, <2>1, <2>2, StackStep DEF HandlerEnds
<1>6. CASE HandlerRaises
  BY <1>0, <1>6, RaiseStep DEF HandlerRaises
<1> DEFINE told == Told(reg, view, astray, Ended(calls), Offered(calls))
<1>7. CASE SessionEnded
  <2>1. calls # <<>> /\ Top.fn = "endSessionBySID"
    BY <1>7 DEF SessionEnded
  <2>2. Ended(calls) = Ended(Pop) \cup {Top.sid} /\ Offered(calls) = Offered(Pop)
    BY <1>01, <2>1, SidsPop DEF Ended, Offered, Pop, Top
  <2>3. told
    BY DEF IInv
  <2>4. Past(reg, Top.sid)
    BY <2>2, <2>3 DEF Told
  <2>5. Told(reg, view \ {Top.sid}, astray \ {Top.sid}, Ended(Pop), Offered(Pop))
    BY <2>2, <2>3, <2>4 DEF Told, Past
  <2> QED BY <1>0, <1>1, <1>7, <2>5 DEF SessionEnded, IInv
<1>8. CASE SessionOffered
  <2> DEFINE id == Top.id
             o == [reg.obj[id] EXCEPT !.remote = TRUE, !.isPending = TRUE]
  <2>1. calls # <<>> /\ Top.fn = "onSessionInitiate"
    BY <1>8 DEF SessionOffered
  <2>2. Top \in Offering(1..Len(reg.obj))
    BY <1>1, <2>1 DEF FramesOf, Frames, Handling, Ending, Notifying
  <2>3. id \in 1..Len(reg.obj) /\ Top.sid \in Sids
    BY <2>2 DEF Offering
  <2>4. reg.obj[id] \in Session
    BY <1>0, <2>3 DEF IsRegistry
  <2>5. o \in Session /\ o.sid = reg.obj[id].sid /\ o.peer = reg.obj[id].peer
    BY <2>4 DEF Session
  <2>6. Ended(calls) = Ended(Pop) /\ Offered(calls) = Offered(Pop) \cup {Top.sid}
    BY <1>01, <2>1, SidsPop DEF Ended, Offered, Pop, Top
  <2> DEFINE h == Handle(0, "handled")
  <2>7. calls' = Append(Pop, h) /\ h.fn = "handle" /\ h \in FramesOf(reg) /\ Visited(reg, h)
    BY <1>8, BoundsAssumption
    DEF SessionOffered, Handle, FramesOf, Frames, Handling, Outcomes, Visited
  <2>8. StackOK(reg, calls')
    BY <1>1, <2>1, <2>7, StackPush
  <2>9. Ended(calls') = Ended(Pop) /\ Offered(calls') = Offered(Pop)
    <3>1. Pop \in Seq(FramesOf(reg))
      BY <1>1, <2>1 DEF StackOK
    <3> HIDE DEF h
    <3>2. \A fn \in {"endSessionBySID", "onSessionInitiate"} :
            SidsIn(Append(Pop, h), fn) = SidsIn(Pop, fn)
      BY <2>7, <3>1, SidsPush
    <3> QED BY <2>7, <3>2 DEF Ended, Offered
  <2>10. told
    BY DEF IInv
  <2>11. /\ view' = view \cup {Top.sid}
         /\ astray' = IF Top.sid \in DOMAIN reg.sessions THEN astray \ {Top.sid}
                      ELSE astray \cup {Top.sid}
         /\ reg' = [reg EXCEPT !.obj[id] = o]
         /\ status' = status /\ replies' = replies
    BY <1>8 DEF SessionOffered
  <2> HIDE DEF h, o, id
  <2>12. Told(reg, view', astray', Ended(calls'), Offered(calls'))
    BY <2>3, <2>6, <2>9, <2>10, <2>11 DEF Told
  <2> QED BY <1>0, <2>3, <2>5, <2>8, <2>11, <2>12, FlagStep
<1> QED BY <1>2, <1>3, <1>4, <1>5, <1>6, <1>7, <1>8 DEF HookReturns

LEMMA FailStep == ASSUME IInv, SendFails PROVE IInv'
<1>1. replies \in Seq({"result", "error"})
  BY DEF IInv
<1> QED BY <1>1, RaiseStep DEF SendFails

(* The parts of the inductive invariant are the invariants of the runs.     *)
LEMMA InvParts == IInv => TypeOK /\ RegisteredIsListed /\ ViewIsRegistry /\ VisitedAreEnded
<1> SUFFICES ASSUME IInv PROVE TypeOK /\ RegisteredIsListed /\ ViewIsRegistry /\ VisitedAreEnded
  OBVIOUS
<1>1. Told(reg, view, astray, Ended(calls), Offered(calls))
  BY DEF IInv
<1>2. view \subseteq Sids /\ astray \subseteq Sids /\ ViewIsRegistry
  BY <1>1 DEF Told, ViewIsRegistry
<1>3. calls \in Seq(Frames(1..Len(reg.obj)))
  BY DEF IInv, StackOK, FramesOf
<1> QED BY <1>2, <1>3 DEF IInv, TypeOK, RegisteredIsListed, VisitedAreEnded, StackOK

LEMMA StutterStep == ASSUME IInv, UNCHANGED vars PROVE IInv'
BY DEF IInv, vars

LEMMA Invariance == Spec => []IInv
<1>1. IInv /\ [Next]_vars => IInv'
  BY RequestStep, ApiStep, ReturnStep, FailStep, StutterStep DEF Next
<1> QED BY InitInv, <1>1, PTL DEF Spec

(* Every value of every variable is one that the Lua tables can hold.       *)
THEOREM TypeCorrect == Spec => []TypeOK
BY Invariance, InvParts, PTL

(* removeSessionFromPeers never indexes a nil list, so endSessionBySID      *)
(* always reaches its event: sessionManager.lua:91 cannot raise.            *)
THEOREM RegistryConsistent == Spec => []RegisteredIsListed
BY Invariance, InvParts, PTL

(* What the application holds is what is registered, in every hook and      *)
(* between steps, up to the four exceptions that the property names: an end *)
(* or an offer on its way, an error in either, and a sid used again.        *)
THEOREM ViewFaithful == Spec => []ViewIsRegistry
BY Invariance, InvParts, PTL

(* endSessionsForJID has ended what it visited, whatever the hooks do.      *)
THEOREM LoopsEndWhatTheyVisit == Spec => []VisitedAreEnded
BY Invariance, InvParts, PTL

-----------------------------------------------------------------------------
(***************************************************************************)
(* What is promised to an application that never uses a sid again: the     *)
(* lists of peers hold nothing but registered sessions, and hanging up on  *)
(* a peer ends no session with another.                                    *)
(*                                                                         *)
(* FInv adds two facts to the inductive invariant.  They are needed        *)
(* together with Indexed: a loop ends what is registered under the sid of  *)
(* an object it copied, which is that object only if no other has its sid, *)
(* and is of the right peer only if the copy was.                          *)
(***************************************************************************)

FreshIn(r) == \A i, k \in 1..Len(r.obj) : r.obj[i].sid = r.obj[k].sid => i = k

Live(r) ==
  FreshIn(r) =>
    \A j \in DOMAIN r.peers : \A id \in r.peers[j] :
      /\ r.obj[id].sid \in DOMAIN r.sessions
      /\ r.sessions[r.obj[id].sid] = id

(* What a suspended loop has yet to visit is of the peer it was called for. *)
OfPeer(r, f) ==
  f.fn = "endSessionsForJID" => \A i \in f.todo : i \in 1..Len(r.obj) /\ r.obj[i].peer = f.jid
LoopsOfPeer(r, c) == \A k \in 1..Len(c) : OfPeer(r, c[k])

FInv == Live(reg) /\ LoopsOfPeer(reg, calls)

-----------------------------------------------------------------------------
(* The registry operators.                                                  *)

LEMMA NewSessionLive ==
  ASSUME NEW r, IsRegistry(r), Indexed(r), Live(r),
         NEW sid \in Sids, NEW peer \in JIDs
  PROVE  LET q == newSession(r, sid, peer)
         IN  Live(q) /\ Keeps(r, q)
<1> DEFINE q == newSession(r, sid, peer)
           n == Len(r.obj) + 1
           o == Jingle_new(sid, peer)
<1>1. o.sid = sid /\ o.peer = peer /\ o \in Session
  BY DEF Jingle_new, Session
<1>2. r.obj \in Seq(Session) /\ Len(r.obj) \in Nat
  BY DEF IsRegistry
<1>3. /\ q.obj = Append(r.obj, o)
      /\ q.sessions = Put(r.sessions, sid, n)
      /\ q.peers = Put(r.peers, peer, getSessionsByJID(r, peer) \cup {n})
  BY DEF newSession
<1>4. /\ Len(q.obj) = n /\ q.obj[n] = o
      /\ \A i \in 1..Len(r.obj) : q.obj[i] = r.obj[i]
  BY <1>1, <1>2, <1>3
<1>5. Keeps(r, q)
  BY <1>2, <1>4 DEF Keeps
<1>6. /\ DOMAIN q.sessions = DOMAIN r.sessions \cup {sid}
      /\ q.sessions[sid] = n
      /\ \A s \in DOMAIN r.sessions \ {sid} : q.sessions[s] = r.sessions[s]
  BY <1>3 DEF Put
<1>7. ASSUME NEW j \in DOMAIN q.peers, NEW id \in q.peers[j], id # n
      PROVE  j \in DOMAIN r.peers /\ id \in r.peers[j] /\ id \in 1..Len(r.obj)
  BY <1>3, <1>7 DEF Put, getSessionsByJID, IsRegistry
<1>8. ASSUME FreshIn(q), NEW j \in DOMAIN q.peers, NEW id \in q.peers[j]
      PROVE  q.obj[id].sid \in DOMAIN q.sessions /\ q.sessions[q.obj[id].sid] = id
  <2>1. CASE id = n
    BY <2>1, <1>1, <1>4, <1>6
  <2>2. CASE id # n
    <3>1. j \in DOMAIN r.peers /\ id \in r.peers[j] /\ id \in 1..Len(r.obj)
      BY <2>2, <1>7
    <3>2. FreshIn(r)
      <4>1. \A i \in 1..Len(r.obj) : i \in 1..Len(q.obj) /\ q.obj[i] = r.obj[i]
        BY <1>2, <1>4
      <4> HIDE DEF q, n, o
      <4> QED BY <4>1, <1>8 DEF FreshIn
    <3>3. r.obj[id].sid \in DOMAIN r.sessions /\ r.sessions[r.obj[id].sid] = id
      BY <3>1, <3>2 DEF Live
    <3>4. q.obj[id] = r.obj[id]
      BY <3>1, <1>4
    <3>5. r.obj[id].sid # sid
      BY <2>2, <3>1, <3>4, <1>1, <1>2, <1>4, <1>8 DEF FreshIn
    <3> QED BY <3>3, <3>4, <3>5, <1>6
  <2> QED BY <2>1, <2>2
<1>9. Live(q)
  BY <1>8 DEF Live
<1> QED BY <1>5, <1>9

LEMMA UnregisterLive ==
  ASSUME NEW r, IsRegistry(r), Indexed(r), Live(r), NEW sid
  PROVE  LET q == Unregister(r, sid)
         IN  Live(q) /\ Keeps(r, q)
<1> DEFINE q == Unregister(r, sid)
<1>0. Len(r.obj) \in Nat
  BY DEF IsRegistry
<1>1. CASE sid \notin DOMAIN r.sessions
  <2>1. q = r
    BY <1>1 DEF Unregister
  <2> HIDE DEF q
  <2> QED BY <1>0, <2>1 DEF Keeps, q
<1>2. CASE sid \in DOMAIN r.sessions
  <2>1. /\ q.obj = r.obj
        /\ DOMAIN q.sessions = DOMAIN r.sessions \ {sid}
        /\ \A s \in DOMAIN q.sessions : q.sessions[s] = r.sessions[s]
    BY UnregisterSession
  <2>2. \A j \in DOMAIN q.peers : \A i \in q.peers[j] :
          /\ j \in DOMAIN r.peers /\ i \in r.peers[j]
          /\ j = r.obj[r.sessions[sid]].peer => r.obj[i].sid # sid
    BY <1>2, UnregisterSession
  <2> HIDE DEF q
  <2>3. r.sessions[sid] \in 1..Len(r.obj) /\ r.obj[r.sessions[sid]].sid = sid
    BY <1>2 DEF Indexed, IsRegistry
  <2>4. ASSUME FreshIn(q), NEW j \in DOMAIN q.peers, NEW id \in q.peers[j]
        PROVE  q.obj[id].sid \in DOMAIN q.sessions /\ q.sessions[q.obj[id].sid] = id
    <3>1. j \in DOMAIN r.peers /\ id \in r.peers[j]
      BY <2>2
    <3>2. FreshIn(r)
      BY <2>1, <2>4 DEF FreshIn
    <3>3. r.obj[id].sid \in DOMAIN r.sessions /\ r.sessions[r.obj[id].sid] = id
      BY <3>1, <3>2 DEF Live
    <3>4. r.obj[id].sid # sid
      <4> SUFFICES ASSUME r.obj[id].sid = sid PROVE FALSE
        OBVIOUS
      <4>1. id = r.sessions[sid] /\ r.obj[id].peer = j
        BY <3>1, <3>3 DEF Indexed
      <4> QED BY <2>2, <4>1
    <3> QED BY <2>1, <3>3, <3>4
  <2>5. Live(q)
    BY <2>4 DEF Live
  <2>6. Keeps(r, q)
    BY <1>0, <2>1 DEF Keeps
  <2> QED BY <2>5, <2>6 DEF q
<1> QED BY <1>1, <1>2

LEMMA FlagsLive ==
  ASSUME NEW r, IsRegistry(r), Live(r), NEW id \in 1..Len(r.obj), NEW o \in Session,
         o.sid = r.obj[id].sid, o.peer = r.obj[id].peer
  PROVE  LET q == [r EXCEPT !.obj[id] = o]
         IN  Live(q) /\ Keeps(r, q)
<1> DEFINE q == [r EXCEPT !.obj[id] = o]
<1>1. /\ q.sessions = r.sessions /\ q.peers = r.peers
      /\ q.obj = [r.obj EXCEPT ![id] = o]
      /\ r.obj \in Seq(Session) /\ Len(r.obj) \in Nat
  BY DEF IsRegistry
<1>2. /\ Len(q.obj) = Len(r.obj)
      /\ \A i \in 1..Len(r.obj) : q.obj[i].sid = r.obj[i].sid /\ q.obj[i].peer = r.obj[i].peer
  BY <1>1
<1>3. Keeps(r, q)
  BY <1>1, <1>2 DEF Keeps
<1> HIDE DEF q
<1>4. FreshIn(q) => FreshIn(r)
  BY <1>2 DEF FreshIn
<1>5. \A j \in DOMAIN r.peers : r.peers[j] \subseteq 1..Len(r.obj)
  BY DEF IsRegistry
<1>6. Live(q)
  BY <1>1, <1>2, <1>4, <1>5 DEF Live
<1> QED BY <1>3, <1>6 DEF q

LEMMA KeepsSelf == ASSUME NEW r, IsRegistry(r) PROVE Keeps(r, r)
BY DEF IsRegistry, Keeps

LEMMA KeepsTrans ==
  ASSUME NEW p, NEW q, NEW r, Keeps(p, q), Keeps(q, r) PROVE Keeps(p, r)
BY DEF Keeps

-----------------------------------------------------------------------------
(* The suspended loops.                                                     *)

LEMMA LoopsKeep ==
  ASSUME NEW r, NEW q, NEW c, Keeps(r, q), LoopsOfPeer(r, c) PROVE LoopsOfPeer(q, c)
<1> SUFFICES ASSUME NEW k \in 1..Len(c), c[k].fn = "endSessionsForJID", NEW i \in c[k].todo
             PROVE  i \in 1..Len(q.obj) /\ q.obj[i].peer = c[k].jid
  BY DEF LoopsOfPeer, OfPeer
<1>1. i \in 1..Len(r.obj) /\ r.obj[i].peer = c[k].jid
  BY DEF LoopsOfPeer, OfPeer
<1> QED BY <1>1 DEF Keeps

LEMMA LoopsPush ==
  ASSUME NEW r, NEW S, NEW c \in Seq(S), NEW f, LoopsOfPeer(r, c), OfPeer(r, f)
  PROVE  LoopsOfPeer(r, Append(c, f))
<1>1. c \in Seq(S)
  OBVIOUS
<1>2. ASSUME NEW k \in 1..Len(Append(c, f)) PROVE OfPeer(r, Append(c, f)[k])
  <2>1. CASE k = Len(c) + 1
    BY <1>1, <2>1
  <2>2. CASE k \in 1..Len(c)
    <3>1. Append(c, f)[k] = c[k]
      BY <1>1, <2>2
    <3> QED BY <2>2, <3>1 DEF LoopsOfPeer
  <2> QED BY <1>1, <2>1, <2>2
<1> QED BY <1>2 DEF LoopsOfPeer

LEMMA LoopsPop ==
  ASSUME NEW r, NEW c, StackOK(r, c), LoopsOfPeer(r, c), c # <<>>
  PROVE  /\ LoopsOfPeer(r, SubSeq(c, 1, Len(c) - 1))
         /\ OfPeer(r, c[Len(c)])
<1> DEFINE p == SubSeq(c, 1, Len(c) - 1)
<1>1. c \in Seq(FramesOf(r)) /\ Len(c) \in Nat \ {0}
  BY DEF StackOK
<1>3. \A k \in 1..Len(p) : p[k] = c[k] /\ k \in 1..Len(c)
  BY <1>1, Popped
<1>4. Len(c) \in 1..Len(c)
  BY <1>1
<1> HIDE DEF p
<1>5. LoopsOfPeer(r, p)
  BY <1>3 DEF LoopsOfPeer
<1> QED BY <1>4, <1>5 DEF LoopsOfPeer, p

(* The stacks that requests leave: nothing, or a handler.                   *)
LEMMA NoLoops ==
  ASSUME NEW r, NEW left, NEW outcome
  PROVE  LoopsOfPeer(r, <<>>) /\ LoopsOfPeer(r, <<Handle(left, outcome)>>)
BY DEF LoopsOfPeer, OfPeer, Handle

(* What a step has to do.                                                   *)
Good == Live(reg') /\ Keeps(reg, reg') /\ LoopsOfPeer(reg, calls')

LEMMA GoodStep == ASSUME Good PROVE FInv'
BY LoopsKeep DEF Good, FInv

LEMMA Untouched ==
  ASSUME IInv, FInv, reg' = reg, LoopsOfPeer(reg, calls') PROVE Good
<1>1. IsRegistry(reg) /\ Live(reg)
  BY DEF IInv, FInv
<1> QED BY <1>1, KeepsSelf DEF Good

LEMMA GoodEnd ==
  ASSUME IInv, FInv, NEW sid, NEW notify, NEW stack \in Seq(FramesOf(reg)), NEW inStep,
         endSessionBySID(sid, notify, stack, inStep), LoopsOfPeer(reg, stack)
  PROVE  Good /\ reg' = Unregister(reg, sid)
<1> DEFINE g == [fn |-> "endSessionBySID", sid |-> sid]
<1>1. IsRegistry(reg) /\ Indexed(reg) /\ Live(reg)
  BY DEF IInv, FInv
<1>2. reg' = Unregister(reg, sid) /\ (calls' = stack \/ calls' = Append(stack, g))
  BY <1>1, EndMeans
<1>3. OfPeer(reg, g)
  BY DEF OfPeer
<1>4. LoopsOfPeer(reg, Append(stack, g))
  BY <1>3, LoopsPush
<1> QED BY <1>1, <1>2, <1>4, UnregisterLive DEF Good

LEMMA GoodFlags ==
  ASSUME IInv, FInv, NEW sid \in DOMAIN reg.sessions, NEW o \in Session,
         o.sid = SessionOf(reg, sid).sid, o.peer = SessionOf(reg, sid).peer,
         reg' = SetObject(reg, sid, o), LoopsOfPeer(reg, calls')
  PROVE  Good
<1>1. IsRegistry(reg) /\ Live(reg) /\ reg.sessions[sid] \in 1..Len(reg.obj)
  BY DEF IInv, FInv, IsRegistry
<1> QED BY <1>1, FlagsLive DEF Good, SessionOf, SetObject

-----------------------------------------------------------------------------
LEMMA FreshRequest == ASSUME IInv, FInv, Request PROVE Good
<1>0. LoopsOfPeer(reg, calls) /\ IsRegistry(reg) /\ Indexed(reg) /\ Live(reg)
  BY DEF FInv, IInv
<1>1. PICK sid \in Sids, from \in JIDs :
        \/ \E action \in Actions, media \in BOOLEAN :
             Refuse(action, sid, from, media) \/ RaiseOnRequest(action, sid, from, media)
        \/ \E action \in Silent : NotHandled(action, sid, from)
        \/ SessionInitiate(sid, from)
        \/ SessionAccept(sid, from)
        \/ SessionTerminate(sid, from)
        \/ \E action \in {"transport-info", "session-info"}, n \in 0..MaxEvents,
              text \in BOOLEAN : InfoRequest(action, sid, from, n, text)
        \/ \E action \in SourceOps, changed \in BOOLEAN :
             SourceRequest(action, sid, from, changed)
  BY DEF Request
<1>2. ASSUME NEW action, NEW media,
             Refuse(action, sid, from, media) \/ RaiseOnRequest(action, sid, from, media)
      PROVE  Good
  <2>1. reg' = reg /\ (calls' = calls \/ calls' = <<>>)
    BY <1>2 DEF Refuse, RaiseOnRequest, Raise
  <2> QED BY <1>0, <2>1, NoLoops, Untouched
<1>3. ASSUME NEW action, NotHandled(action, sid, from) PROVE Good
  BY <1>0, <1>3, Untouched DEF NotHandled
<1>4. CASE SessionInitiate(sid, from)
  <2>1. reg' = newSession(reg, sid, from)
        /\ calls' = <<[fn |-> "onSessionInitiate", sid |-> sid, id |-> Len(reg.obj) + 1]>>
    BY <1>4 DEF SessionInitiate
  <2>2. LoopsOfPeer(reg, calls')
    BY <2>1 DEF LoopsOfPeer, OfPeer
  <2> QED BY <1>0, <2>1, <2>2, NewSessionLive DEF Good
<1>5. CASE SessionAccept(sid, from)
  <2>1. sid \in DOMAIN reg.sessions
    BY <1>5 DEF SessionAccept, Verdict
  <2> DEFINE o == [SessionOf(reg, sid) EXCEPT !.remote = TRUE, !.isPending = FALSE]
  <2>2. o \in Session /\ o.sid = SessionOf(reg, sid).sid /\ o.peer = SessionOf(reg, sid).peer
    BY <2>1, SessionType DEF Session
  <2>3. reg' = SetObject(reg, sid, o) /\ LoopsOfPeer(reg, calls')
    BY <1>5, NoLoops DEF SessionAccept, onSessionAccept
  <2> QED BY <2>1, <2>2, <2>3, GoodFlags
<1>6. CASE SessionTerminate(sid, from)
  <2>1. <<Handle(0, "nil")>> \in Seq(FramesOf(reg))
    <3>1. Handle(0, "nil") \in FramesOf(reg)
      BY BoundsAssumption DEF Handle, FramesOf, Frames, Handling, Outcomes
    <3> QED BY <3>1
  <2> QED BY <1>6, <2>1, NoLoops, GoodEnd DEF SessionTerminate
<1>7. ASSUME NEW action, NEW n, NEW text, InfoRequest(action, sid, from, n, text) PROVE Good
  <2>1. reg' = reg /\ (calls' = <<>> \/ \E outcome : calls' = <<Handle(n - 1, outcome)>>)
    BY <1>7 DEF InfoRequest, Raise
  <2> QED BY <2>1, NoLoops, Untouched
<1>8. ASSUME NEW action, NEW changed, SourceRequest(action, sid, from, changed) PROVE Good
  <2>1. reg' = reg /\ (calls' = <<>> \/ calls' = <<Handle(0, "handled")>>)
    BY <1>8 DEF SourceRequest, Raise
  <2> QED BY <2>1, NoLoops, Untouched
<1> QED BY <1>1, <1>2, <1>3, <1>4, <1>5, <1>6, <1>7, <1>8

LEMMA FreshApi == ASSUME IInv, FInv, ApiCall PROVE Good
<1>0. LoopsOfPeer(reg, calls) /\ IsRegistry(reg) /\ Indexed(reg) /\ Live(reg)
      /\ StackOK(reg, calls)
  BY DEF FInv, IInv
<1>1. ASSUME NEW sid \in Sids, NEW peer \in JIDs, CreateSession(sid, peer) PROVE Good
  <2>1. reg' = newSession(reg, sid, peer) /\ calls' = calls
    BY <1>1 DEF CreateSession
  <2> QED BY <1>0, <2>1, NewSessionLive DEF Good
<1>2. ASSUME NEW sid \in Sids, StartSession(sid) \/ AcceptSession(sid) PROVE Good
  <2> PICK pending \in BOOLEAN :
        /\ sid \in DOMAIN reg.sessions /\ calls' = calls
        /\ reg' = SetObject(reg, sid, [SessionOf(reg, sid) EXCEPT !.isPending = pending])
    BY <1>2 DEF StartSession, AcceptSession, initiateSDP, acceptSDP
  <2> DEFINE o == [SessionOf(reg, sid) EXCEPT !.isPending = pending]
  <2>1. o \in Session /\ o.sid = SessionOf(reg, sid).sid /\ o.peer = SessionOf(reg, sid).peer
    BY SessionType DEF Session
  <2> QED BY <1>0, <2>1, GoodFlags
<1>3. ASSUME NEW sid \in Sids, NEW notify, EndSession(sid, notify) PROVE Good
  BY <1>0, <1>3, GoodEnd DEF EndSession, StackOK
<1>4. ASSUME NEW sid \in Sids, BrokenCall(sid) PROVE Good
  BY <1>4, NoLoops, Untouched DEF BrokenCall, Raise
<1>5. ASSUME NEW jid \in JIDs, NEW notify \in BOOLEAN, EndSessionsForJID(jid, notify) PROVE Good
  <2> DEFINE ids == getSessionsByJID(reg, jid)
             g(i) == [fn |-> "endSessionsForJID", jid |-> jid, snap |-> ids, todo |-> ids \ {i},
                      notify |-> notify]
  <2>1. PICK id \in ids :
          endSessionBySID(reg.obj[id].sid, notify, Append(calls, g(id)), InStep)
    BY <1>5 DEF EndSessionsForJID, First
  <2>2. \A i \in ids : i \in 1..Len(reg.obj) /\ reg.obj[i].peer = jid
    BY <1>0 DEF getSessionsByJID, IsRegistry, Indexed
  <2>3. OfPeer(reg, g(id)) /\ g(id) \in FramesOf(reg)
    BY <2>2 DEF OfPeer, FramesOf, Frames, Ending
  <2> HIDE DEF g
  <2>4. Append(calls, g(id)) \in Seq(FramesOf(reg)) /\ LoopsOfPeer(reg, Append(calls, g(id)))
    BY <1>0, <2>3, LoopsPush DEF StackOK
  <2> QED BY <2>1, <2>4, GoodEnd
<1> QED BY <1>1, <1>2, <1>3, <1>4, <1>5 DEF ApiCall

(* One iteration of a suspended loop.                                       *)
LEMMA LoopIteration ==
  ASSUME IInv, FInv, NextSession
  PROVE  \E id \in Top.todo :
           /\ id \in 1..Len(reg.obj) /\ reg.obj[id].peer = Top.jid
           /\ reg' = Unregister(reg, reg.obj[id].sid)
           /\ Good
<1>0. LoopsOfPeer(reg, calls) /\ StackOK(reg, calls) /\ calls # <<>>
      /\ Top.fn = "endSessionsForJID"
  BY DEF FInv, IInv, NextSession
<1>1. LoopsOfPeer(reg, Pop) /\ OfPeer(reg, Top) /\ StackOK(reg, Pop) /\ Top \in FramesOf(reg)
  BY <1>0, LoopsPop, StackPop DEF Pop, Top
<1> DEFINE rest(i) == [Top EXCEPT !.todo = @ \ {i}]
<1>2. PICK id \in Top.todo :
        endSessionBySID(reg.obj[id].sid, Top.notify, Append(Pop, rest(id)), InStep)
  BY DEF NextSession, First
<1>3. Top \in Ending(1..Len(reg.obj))
  BY <1>0, <1>1 DEF FramesOf, Frames, Handling, Notifying, Offering
<1>4. /\ rest(id).todo \subseteq Top.todo /\ rest(id).jid = Top.jid
      /\ rest(id) \in FramesOf(reg)
  BY <1>3 DEF Ending, FramesOf, Frames
<1>5. OfPeer(reg, rest(id))
  BY <1>0, <1>1, <1>4 DEF OfPeer
<1> HIDE DEF rest
<1>6. Append(Pop, rest(id)) \in Seq(FramesOf(reg)) /\ LoopsOfPeer(reg, Append(Pop, rest(id)))
  BY <1>1, <1>4, <1>5, LoopsPush DEF StackOK
<1>7. id \in 1..Len(reg.obj) /\ reg.obj[id].peer = Top.jid
  BY <1>0, <1>1 DEF OfPeer
<1>8. Good /\ reg' = Unregister(reg, reg.obj[id].sid)
  BY <1>2, <1>6, GoodEnd
<1> QED BY <1>7, <1>8

LEMMA FreshReturn == ASSUME IInv, FInv, HookReturns PROVE Good
<1>0. LoopsOfPeer(reg, calls) /\ StackOK(reg, calls)
  BY DEF FInv, IInv
<1>1. CASE NextSession
  BY <1>1, LoopIteration
<1>2. CASE LoopEnds \/ HandlerEnds
  <2>1. reg' = reg /\ calls # <<>> /\ calls' = Pop
    BY <1>2 DEF LoopEnds, HandlerEnds
  <2> QED BY <1>0, <2>1, LoopsPop, Untouched DEF Pop
<1>3. CASE NextEvent
  <2>1. reg' = reg /\ calls # <<>> /\ Top.fn = "handle"
        /\ calls' = Append(Pop, [Top EXCEPT !.left = @ - 1])
    BY <1>3 DEF NextEvent
  <2>2. LoopsOfPeer(reg, Pop) /\ StackOK(reg, Pop) /\ Top \in FramesOf(reg)
    BY <1>0, <2>1, LoopsPop, StackPop DEF Pop, Top
  <2>3. [Top EXCEPT !.left = @ - 1].fn = "handle"
    BY <2>1, <2>2 DEF FramesOf, Frames, Handling, Ending, Notifying, Offering
  <2>4. OfPeer(reg, [Top EXCEPT !.left = @ - 1])
    BY <2>3 DEF OfPeer
  <2> QED BY <2>1, <2>2, <2>4, LoopsPush, Untouched DEF StackOK
<1>4. CASE HandlerRaises
  BY <1>4, NoLoops, Untouched DEF HandlerRaises, Raise
<1>5. CASE SessionEnded
  <2>1. reg' = reg /\ calls # <<>> /\ calls' = Pop
    BY <1>5 DEF SessionEnded
  <2> QED BY <1>0, <2>1, LoopsPop, Untouched DEF Pop
<1>6. CASE SessionOffered
  <2> DEFINE id == Top.id
             o == [reg.obj[id] EXCEPT !.remote = TRUE, !.isPending = TRUE]
             h == Handle(0, "handled")
  <2>1. calls # <<>> /\ Top.fn = "onSessionInitiate" /\ calls' = Append(Pop, h)
        /\ reg' = [reg EXCEPT !.obj[id] = o]
    BY <1>6 DEF SessionOffered
  <2>2. LoopsOfPeer(reg, Pop) /\ StackOK(reg, Pop) /\ Top \in FramesOf(reg)
    BY <1>0, <2>1, LoopsPop, StackPop DEF Pop, Top
  <2>3. Top \in Offering(1..Len(reg.obj))
    BY <2>1, <2>2 DEF FramesOf, Frames, Handling, Ending, Notifying
  <2>4. IsRegistry(reg) /\ Live(reg) /\ id \in 1..Len(reg.obj) /\ reg.obj \in Seq(Session)
    BY <2>3 DEF Offering, IInv, FInv, IsRegistry
  <2>5. reg.obj[id] \in Session
    BY <2>4
  <2>6. o \in Session /\ o.sid = reg.obj[id].sid /\ o.peer = reg.obj[id].peer
    BY <2>5 DEF Session
  <2>7. OfPeer(reg, h)
    BY DEF OfPeer, Handle
  <2> HIDE DEF h, o, id
  <2>8. LoopsOfPeer(reg, Append(Pop, h))
    BY <2>2, <2>7, LoopsPush DEF StackOK
  <2> QED BY <2>1, <2>4, <2>6, <2>8, FlagsLive DEF Good
<1> QED BY <1>1, <1>2, <1>3, <1>4, <1>5, <1>6 DEF HookReturns

LEMMA FreshFail == ASSUME IInv, FInv, SendFails PROVE Good
BY NoLoops, Untouched DEF SendFails, Raise

LEMMA FreshInit == Init => FInv
BY DEF Init, EmptyRegistry, FInv, Live, LoopsOfPeer

LEMMA FreshStep == IInv /\ FInv /\ [Next]_vars => FInv'
<1> SUFFICES ASSUME IInv, FInv, [Next]_vars PROVE FInv'
  OBVIOUS
<1>1. CASE Next
  BY <1>1, FreshRequest, FreshApi, FreshReturn, FreshFail, GoodStep DEF Next
<1>2. CASE UNCHANGED vars
  BY <1>2 DEF vars, FInv
<1> QED BY <1>1, <1>2

LEMMA FreshInvariance == Spec => [](IInv /\ FInv)
BY Invariance, FreshInit, FreshStep, PTL DEF Spec

(* global.peers holds nothing but sessions of global.sessions, so           *)
(* getSessionsByJID never shows an ended one, if no sid is used again.      *)
THEOREM ListsAreLive == Spec => []ListedIsRegistered
<1>1. FInv => ListedIsRegistered
  BY DEF FInv, Live, FreshIn, ListedIsRegistered, AllFresh
<1> QED BY <1>1, FreshInvariance, PTL

(* endSessionsForJID, which ends by sid what it copied before any hook ran, *)
(* ends no session with another peer, if no sid is used again.              *)
THEOREM HangUpSparesOthers == Spec => EndsOnlyThatPeer
<1> DEFINE Spares == AllFresh /\ NextSession =>
                       \A s \in DOMAIN reg.sessions \ DOMAIN reg'.sessions :
                         SessionOf(reg, s).peer = Top.jid
<1>1. ASSUME IInv, FInv PROVE Spares
  <2> SUFFICES ASSUME AllFresh, NextSession,
                      NEW s \in DOMAIN reg.sessions \ DOMAIN reg'.sessions
               PROVE  SessionOf(reg, s).peer = Top.jid
    OBVIOUS
  <2>1. PICK id \in 1..Len(reg.obj) :
          reg.obj[id].peer = Top.jid /\ reg' = Unregister(reg, reg.obj[id].sid)
    BY <1>1, LoopIteration
  <2>2. IsRegistry(reg) /\ Indexed(reg)
    BY <1>1 DEF IInv
  <2>3. s = reg.obj[id].sid
    BY <2>1, <2>2, UnregisterSession
  <2>4. reg.sessions[s] \in 1..Len(reg.obj) /\ reg.obj[reg.sessions[s]].sid = s
    BY <2>2 DEF IsRegistry, Indexed
  <2>5. reg.sessions[s] = id
    BY <2>3, <2>4 DEF AllFresh
  <2> QED BY <2>1, <2>5 DEF SessionOf
<1>2. IInv /\ FInv => [Spares]_vars
  BY <1>1
<1>3. Spec => [][Spares]_vars
  BY <1>2, FreshInvariance, PTL
<1> QED BY <1>3 DEF EndsOnlyThatPeer
=============================================================================
