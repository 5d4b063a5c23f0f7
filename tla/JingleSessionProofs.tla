-------------------------- MODULE JingleSessionProofs --------------------------
(***************************************************************************)
(* What the registry operators preserve, for every registry: the lemmas    *)
(* that the invariance proofs of the state machines cite.                  *)
(***************************************************************************)
EXTENDS JingleSession, TLAPS

(* init starts from empty tables.                                           *)
LEMMA EmptyIsIndexed == IsRegistry(EmptyRegistry) /\ Indexed(EmptyRegistry)
BY DEF EmptyRegistry, IsRegistry, Indexed

(* newSession registers the new object and lists it under its peer.         *)
LEMMA NewSession ==
  ASSUME NEW r, IsRegistry(r), Indexed(r),
         NEW sid \in Sids, NEW peer \in JIDs
  PROVE  LET q == newSession(r, sid, peer)
         IN  /\ IsRegistry(q) /\ Indexed(q)
             /\ DOMAIN q.sessions = DOMAIN r.sessions \cup {sid}
             /\ q.sessions[sid] = Len(r.obj) + 1
             /\ \A s \in DOMAIN r.sessions \ {sid} : q.sessions[s] = r.sessions[s]
             /\ Len(q.obj) = Len(r.obj) + 1
<1> DEFINE q == newSession(r, sid, peer)
           n == Len(r.obj) + 1
           o == Jingle_new(sid, peer)
<1>1. o \in Session /\ o.sid = sid /\ o.peer = peer
  BY DEF Jingle_new, Session
<1>2. r.obj \in Seq(Session) /\ Len(r.obj) \in Nat
  BY DEF IsRegistry
<1>3. /\ q.obj = Append(r.obj, o)
      /\ q.sessions = Put(r.sessions, sid, n)
      /\ q.peers = Put(r.peers, peer, getSessionsByJID(r, peer) \cup {n})
      /\ q = [obj |-> q.obj, sessions |-> q.sessions, peers |-> q.peers]
  BY DEF newSession
<1>4. /\ q.obj \in Seq(Session) /\ Len(q.obj) = n
      /\ q.obj[n] = o
      /\ \A i \in 1..Len(r.obj) : q.obj[i] = r.obj[i]
  BY <1>1, <1>2, <1>3
<1>5. /\ DOMAIN q.sessions = DOMAIN r.sessions \cup {sid}
      /\ q.sessions[sid] = n
      /\ \A s \in DOMAIN r.sessions \ {sid} : q.sessions[s] = r.sessions[s]
  BY <1>3 DEF Put
<1>6. /\ DOMAIN q.peers = DOMAIN r.peers \cup {peer}
      /\ q.peers[peer] = getSessionsByJID(r, peer) \cup {n}
      /\ \A j \in DOMAIN r.peers \ {peer} : q.peers[j] = r.peers[j]
  BY <1>3 DEF Put
<1>7. getSessionsByJID(r, peer) \in SUBSET (1..Len(r.obj))
  BY DEF getSessionsByJID, IsRegistry
<1>8. IsRegistry(q)
  <2>1. \A s \in DOMAIN q.sessions : q.sessions[s] \in 1..Len(q.obj)
    BY <1>2, <1>4, <1>5 DEF IsRegistry
  <2>2. \A j \in DOMAIN q.peers : q.peers[j] \in SUBSET (1..Len(q.obj))
    BY <1>2, <1>4, <1>6, <1>7 DEF IsRegistry
  <2>3. DOMAIN q.sessions \subseteq Sids /\ DOMAIN q.peers \subseteq JIDs
    BY <1>5, <1>6 DEF IsRegistry
  <2>4. /\ q.sessions = [s \in DOMAIN q.sessions |-> q.sessions[s]]
        /\ q.peers = [j \in DOMAIN q.peers |-> q.peers[j]]
    BY <1>3 DEF Put
  <2> QED BY <1>3, <1>4, <2>1, <2>2, <2>3, <2>4 DEF IsRegistry
<1>9. Indexed(q)
  <2>1. ASSUME NEW s \in DOMAIN q.sessions
        PROVE  /\ q.obj[q.sessions[s]].sid = s
               /\ q.obj[q.sessions[s]].peer \in DOMAIN q.peers
               /\ q.sessions[s] \in q.peers[q.obj[q.sessions[s]].peer]
    <3>1. CASE s = sid
      BY <3>1, <1>1, <1>4, <1>5, <1>6
    <3>2. CASE s # sid
      <4>1. s \in DOMAIN r.sessions /\ q.sessions[s] = r.sessions[s]
        BY <3>2, <1>5
      <4>2. r.sessions[s] \in 1..Len(r.obj)
        BY <4>1 DEF IsRegistry
      <4>3. /\ r.obj[r.sessions[s]].sid = s
            /\ r.obj[r.sessions[s]].peer \in DOMAIN r.peers
            /\ r.sessions[s] \in r.peers[r.obj[r.sessions[s]].peer]
        BY <4>1 DEF Indexed
      <4>4. q.obj[q.sessions[s]] = r.obj[r.sessions[s]]
        BY <4>1, <4>2, <1>4
      <4> QED BY <4>1, <4>3, <4>4, <1>6 DEF getSessionsByJID
    <3> QED BY <3>1, <3>2
  <2>2. ASSUME NEW j \in DOMAIN q.peers
        PROVE  q.peers[j] # {} /\ \A id \in q.peers[j] : q.obj[id].peer = j
    <3>1. CASE j = peer
      <4>1. \A id \in getSessionsByJID(r, peer) : r.obj[id].peer = peer
        BY DEF getSessionsByJID, Indexed
      <4> QED BY <3>1, <4>1, <1>1, <1>4, <1>6, <1>7
    <3>2. CASE j # peer
      <4>1. j \in DOMAIN r.peers /\ q.peers[j] = r.peers[j]
        BY <3>2, <1>6
      <4>2. r.peers[j] \in SUBSET (1..Len(r.obj))
        BY <4>1 DEF IsRegistry
      <4>3. r.peers[j] # {} /\ \A id \in r.peers[j] : r.obj[id].peer = j
        BY <4>1 DEF Indexed
      <4> QED BY <4>1, <4>2, <4>3, <1>4
    <3> QED BY <3>1, <3>2
  <2> QED BY <2>1, <2>2 DEF Indexed
<1> QED BY <1>4, <1>5, <1>8, <1>9

(* Ending a session takes its sid out of the one table and its object out   *)
(* of the other, and leaves both tables consistent.                         *)
LEMMA UnregisterSession ==
  ASSUME NEW r, IsRegistry(r), Indexed(r), NEW sid
  PROVE  LET q == Unregister(r, sid)
         IN  /\ IsRegistry(q) /\ Indexed(q)
             /\ DOMAIN q.sessions = DOMAIN r.sessions \ {sid}
             /\ \A s \in DOMAIN q.sessions : q.sessions[s] = r.sessions[s]
             /\ q.obj = r.obj
             /\ \A j \in DOMAIN q.peers : \A i \in q.peers[j] :
                  /\ j \in DOMAIN r.peers /\ i \in r.peers[j]
                  /\ sid \in DOMAIN r.sessions /\ j = r.obj[r.sessions[sid]].peer => r.obj[i].sid # sid
<1>1. CASE sid \notin DOMAIN r.sessions
  <2>1. Unregister(r, sid) = r
    BY <1>1 DEF Unregister
  <2> QED BY <1>1, <2>1
<1>2. CASE sid \in DOMAIN r.sessions
  <2> DEFINE q == Unregister(r, sid)
             id == r.sessions[sid]
             jid == r.obj[id].peer
             rest == {i \in r.peers[jid] : r.obj[i].sid # r.obj[id].sid}
  <2>1. r.obj[id].sid = sid /\ jid \in DOMAIN r.peers /\ id \in r.peers[jid]
    BY <1>2 DEF Indexed
  <2>r. \A i : i \in rest <=> i \in r.peers[jid] /\ r.obj[i].sid # sid
    BY <2>1
  <2>2. /\ q.obj = r.obj
        /\ q.sessions = Drop(r.sessions, sid)
        /\ q.peers = IF rest = {} THEN Drop(r.peers, jid) ELSE Put(r.peers, jid, rest)
        /\ q = [obj |-> q.obj, sessions |-> q.sessions, peers |-> q.peers]
    <3>1. r = [obj |-> r.obj, sessions |-> r.sessions, peers |-> r.peers]
      BY DEF IsRegistry
    <3>2. q = removeSessionFromPeers([r EXCEPT !.sessions = Drop(@, sid)], id)
      BY <1>2 DEF Unregister
    <3>3. [r EXCEPT !.sessions = Drop(@, sid)]
          = [obj |-> r.obj, sessions |-> Drop(r.sessions, sid), peers |-> r.peers]
      BY <3>1
    <3> HIDE DEF q, id
    <3>4. q = [obj |-> r.obj, sessions |-> Drop(r.sessions, sid),
               peers |-> IF rest = {} THEN Drop(r.peers, jid) ELSE Put(r.peers, jid, rest)]
      BY <3>2, <3>3 DEF removeSessionFromPeers
    <3> HIDE DEF jid, rest
    <3> QED BY <3>4
  <2> HIDE DEF q, id, jid, rest
  <2>3. /\ DOMAIN q.sessions = DOMAIN r.sessions \ {sid}
        /\ \A s \in DOMAIN q.sessions : q.sessions[s] = r.sessions[s]
        /\ q.sessions = [s \in DOMAIN q.sessions |-> q.sessions[s]]
    BY <2>2 DEF Drop
  <2>4. /\ q.peers = [j \in DOMAIN q.peers |-> q.peers[j]]
        /\ DOMAIN q.peers = IF rest = {} THEN DOMAIN r.peers \ {jid} ELSE DOMAIN r.peers
        /\ \A j \in DOMAIN q.peers : q.peers[j] = IF j = jid THEN rest ELSE r.peers[j]
    <3>1. CASE rest = {}
      BY <3>1, <2>2 DEF Drop
    <3>2. CASE rest # {}
      BY <3>2, <2>1, <2>2 DEF Put
    <3> QED BY <3>1, <3>2
  <2>5. IsRegistry(q)
    <3>1. \A j \in DOMAIN q.peers : q.peers[j] \in SUBSET (1..Len(q.obj))
      BY <2>r, <2>1, <2>2, <2>4 DEF IsRegistry
    <3> QED BY <2>2, <2>3, <2>4, <3>1 DEF IsRegistry
  <2>6. Indexed(q)
    <3>1. ASSUME NEW s \in DOMAIN q.sessions
          PROVE  /\ q.obj[q.sessions[s]].sid = s
                 /\ q.obj[q.sessions[s]].peer \in DOMAIN q.peers
                 /\ q.sessions[s] \in q.peers[q.obj[q.sessions[s]].peer]
      <4>1. s # sid /\ s \in DOMAIN r.sessions /\ q.sessions[s] = r.sessions[s]
        BY <2>3
      <4>2. /\ r.obj[r.sessions[s]].sid = s
            /\ r.obj[r.sessions[s]].peer \in DOMAIN r.peers
            /\ r.sessions[s] \in r.peers[r.obj[r.sessions[s]].peer]
        BY <4>1 DEF Indexed
      <4>3. r.obj[r.sessions[s]].peer = jid => r.sessions[s] \in rest
        BY <2>r, <4>1, <4>2
      <4> QED BY <2>2, <2>4, <4>1, <4>2, <4>3
    <3>2. ASSUME NEW j \in DOMAIN q.peers
          PROVE  q.peers[j] # {} /\ \A i \in q.peers[j] : q.obj[i].peer = j
      <4>1. j \in DOMAIN r.peers
        BY <2>4
      <4>2. r.peers[j] # {} /\ \A i \in r.peers[j] : r.obj[i].peer = j
        BY <4>1 DEF Indexed
      <4>3. \A i \in q.peers[j] : i \in r.peers[j]
        BY <2>r, <2>4
      <4>4. q.peers[j] # {}
        <5>1. CASE j # jid
          BY <2>4, <4>2, <5>1
        <5>2. CASE j = jid
          BY <2>4, <5>2
        <5> QED BY <5>1, <5>2
      <4> QED BY <2>2, <4>2, <4>3, <4>4
    <3> QED BY <3>1, <3>2 DEF Indexed
  <2>7. \A j \in DOMAIN q.peers : \A i \in q.peers[j] :
          j \in DOMAIN r.peers /\ i \in r.peers[j] /\ (j = jid => r.obj[i].sid # sid)
    BY <2>r, <2>4
  <2> QED BY <2>2, <2>3, <2>5, <2>6, <2>7 DEF q, id, jid
<1> QED BY <1>1, <1>2

(* The handlers of a session touch only its two flags.                      *)
LEMMA SetFlags ==
  ASSUME NEW r, IsRegistry(r), Indexed(r),
         NEW id \in 1..Len(r.obj), NEW o \in Session,
         o.sid = r.obj[id].sid, o.peer = r.obj[id].peer
  PROVE  LET q == [r EXCEPT !.obj[id] = o]
         IN  /\ IsRegistry(q) /\ Indexed(q)
             /\ q.sessions = r.sessions /\ q.peers = r.peers
             /\ Len(q.obj) = Len(r.obj)
<1> DEFINE q == [r EXCEPT !.obj[id] = o]
<1>1. /\ q.sessions = r.sessions /\ q.peers = r.peers
      /\ q.obj = [r.obj EXCEPT ![id] = o]
      /\ q = [obj |-> q.obj, sessions |-> q.sessions, peers |-> q.peers]
  BY DEF IsRegistry
<1>2. r.obj \in Seq(Session)
  BY DEF IsRegistry
<1>3. q.obj \in Seq(Session) /\ Len(q.obj) = Len(r.obj)
  BY <1>1, <1>2
<1>4. \A i \in 1..Len(r.obj) : q.obj[i].sid = r.obj[i].sid /\ q.obj[i].peer = r.obj[i].peer
  BY <1>1, <1>2
<1>5. IsRegistry(q)
  BY <1>1, <1>3 DEF IsRegistry
<1>6. Indexed(q)
  <2>1. ASSUME NEW s \in DOMAIN r.sessions
        PROVE  /\ q.obj[q.sessions[s]].sid = s
               /\ q.obj[q.sessions[s]].peer \in DOMAIN q.peers
               /\ q.sessions[s] \in q.peers[q.obj[q.sessions[s]].peer]
    <3>1. r.sessions[s] \in 1..Len(r.obj)
      BY DEF IsRegistry
    <3>2. /\ r.obj[r.sessions[s]].sid = s
          /\ r.obj[r.sessions[s]].peer \in DOMAIN r.peers
          /\ r.sessions[s] \in r.peers[r.obj[r.sessions[s]].peer]
      BY DEF Indexed
    <3> QED BY <1>1, <1>4, <3>1, <3>2
  <2>2. ASSUME NEW j \in DOMAIN r.peers
        PROVE  q.peers[j] # {} /\ \A i \in q.peers[j] : q.obj[i].peer = j
    <3>1. r.peers[j] \in SUBSET (1..Len(r.obj))
      BY DEF IsRegistry
    <3>2. r.peers[j] # {} /\ \A i \in r.peers[j] : r.obj[i].peer = j
      BY DEF Indexed
    <3> QED BY <1>1, <1>4, <3>1, <3>2
  <2> QED BY <1>1, <2>1, <2>2 DEF Indexed
<1> QED BY <1>1, <1>3, <1>5, <1>6
=============================================================================
