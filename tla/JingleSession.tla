----------------------------- MODULE JingleSession -----------------------------
(***************************************************************************)
(* The session objects of jingleMedia.lua / basejingle.lua and the         *)
(* registry of sessionManager.lua, as operators on a registry record       *)
(*                                                                         *)
(*    [obj |-> the session objects ever made, in order of creation,        *)
(*     sessions |-> global.sessions, peers |-> global.peers]               *)
(*                                                                         *)
(* A session object is named by its position in obj: two objects may carry *)
(* the same sid.  A Lua table is a function whose domain is the set of     *)
(* keys that are not nil.  global.peers[jid] is an array that only grows   *)
(* at its end by objects just made, so its order is the order of creation  *)
(* and the set of its members says everything about it.                    *)
(*                                                                         *)
(* SessionManager puts one registry under an arbitrary peer; JingleCall    *)
(* puts two of them at the ends of a stream.                               *)
(***************************************************************************)
EXTENDS Integers, Sequences

CONSTANTS
  Sids,    \* session ids
  JIDs     \* full JIDs of peers

-----------------------------------------------------------------------------
(* Lua tables: t[k] = v and t[k] = nil.                                     *)
Put(t, k, v) == [x \in DOMAIN t \cup {k} |-> IF x = k THEN v ELSE t[x]]
Drop(t, k) == [x \in DOMAIN t \ {k} |-> t[x]]

(* remote says whether remote_state has its contents, that is, whether a   *)
(* description of the peer has arrived: it is {} until then.  pendingAction*)
(* and isEnded are FALSE from Jingle:new on and never set; the initiator is *)
(* read by no handler.                                                      *)
Session == [sid : Sids, peer : JIDs, isPending : BOOLEAN, remote : BOOLEAN]

Jingle_new(sid, peer) ==
  [sid |-> sid, peer |-> peer, isPending |-> FALSE, remote |-> FALSE]

EmptyRegistry == [obj |-> <<>>, sessions |-> <<>>, peers |-> <<>>]

getSessionsByJID(r, jid) == IF jid \in DOMAIN r.peers THEN r.peers[jid] ELSE {}

SessionOf(r, sid) == r.obj[r.sessions[sid]]

(* What the two tables hold.                                                *)
IsRegistry(r) ==
  /\ r.obj \in Seq(Session)
  /\ r = [obj |-> r.obj, sessions |-> r.sessions, peers |-> r.peers]
  /\ r.sessions = [s \in DOMAIN r.sessions |-> r.sessions[s]]
  /\ r.peers = [j \in DOMAIN r.peers |-> r.peers[j]]
  /\ DOMAIN r.sessions \subseteq Sids
  /\ \A s \in DOMAIN r.sessions : r.sessions[s] \in 1..Len(r.obj)
  /\ DOMAIN r.peers \subseteq JIDs
  /\ \A j \in DOMAIN r.peers : r.peers[j] \in SUBSET (1..Len(r.obj))

(* What removeSessionFromPeers needs to find its list: every registered     *)
(* session is in the list of its own peer, under its own sid, and no list   *)
(* is left empty.                                                           *)
Indexed(r) ==
  /\ \A s \in DOMAIN r.sessions :
       LET id == r.sessions[s]
       IN  /\ r.obj[id].sid = s
           /\ r.obj[id].peer \in DOMAIN r.peers
           /\ id \in r.peers[r.obj[id].peer]
  /\ \A j \in DOMAIN r.peers :
       r.peers[j] # {} /\ \A id \in r.peers[j] : r.obj[id].peer = j

-----------------------------------------------------------------------------
(* Mistakes the code could have made, for showing that the properties of    *)
(* the state machines can fail: an index one short, a list dropped whole, a *)
(* list left as it was, a sid left registered.                              *)
newSessionOffByOne(r, sid, peer) ==
  [obj      |-> Append(r.obj, Jingle_new(sid, peer)),
   sessions |-> Put(r.sessions, sid, Len(r.obj)),
   peers    |-> Put(r.peers, peer, getSessionsByJID(r, peer) \cup {Len(r.obj)})]

removeSessionFromPeersAll(r, id) == [r EXCEPT !.peers = Drop(@, r.obj[id].peer)]

removeSessionFromPeersNone(r, id) == r

UnregisterPeersOnly(r, sid) ==
  IF sid \in DOMAIN r.sessions THEN [r EXCEPT !.peers = Drop(@, SessionOf(r, sid).peer)] ELSE r

(* newSession never looks whether sid is taken: an older object of that sid *)
(* stays in the list of its peer.                                           *)
newSession(r, sid, peer) ==
  LET id == Len(r.obj) + 1
  IN  [obj      |-> Append(r.obj, Jingle_new(sid, peer)),
       sessions |-> Put(r.sessions, sid, id),
       peers    |-> Put(r.peers, peer, getSessionsByJID(r, peer) \cup {id})]

(* #sessions of a nil list raises: the caller checks Listed first.          *)
Listed(r, id) == r.obj[id].peer \in DOMAIN r.peers

removeSessionFromPeers(r, id) ==
  LET jid  == r.obj[id].peer
      rest == {i \in r.peers[jid] : r.obj[i].sid # r.obj[id].sid}
  IN  [r EXCEPT !.peers = IF rest = {} THEN Drop(@, jid) ELSE Put(@, jid, rest)]

(* The registry after endSessionBySID; an unknown sid changes nothing.      *)
Unregister(r, sid) ==
  IF sid \in DOMAIN r.sessions
    THEN removeSessionFromPeers([r EXCEPT !.sessions = Drop(@, sid)], r.sessions[sid])
    ELSE r

(* What the handlers of jingleMedia.lua assign, and two mistakes: an offer  *)
(* whose description is not kept, an answer that leaves the session pending.*)
SetObject(r, sid, o) == [r EXCEPT !.obj[r.sessions[sid]] = o]

onSessionInitiateNoState(r, sid) ==
  SetObject(r, sid, [SessionOf(r, sid) EXCEPT !.isPending = TRUE])
acceptSDPStillPending(r, sid) == r

initiateSDP(r, sid) == SetObject(r, sid, [SessionOf(r, sid) EXCEPT !.isPending = TRUE])
acceptSDP(r, sid)   == SetObject(r, sid, [SessionOf(r, sid) EXCEPT !.isPending = FALSE])
onSessionInitiate(r, sid) ==
  SetObject(r, sid, [SessionOf(r, sid) EXCEPT !.remote = TRUE, !.isPending = TRUE])
onSessionAccept(r, sid) ==
  SetObject(r, sid, [SessionOf(r, sid) EXCEPT !.remote = TRUE, !.isPending = FALSE])

-----------------------------------------------------------------------------
(* Actions of a jingle request, by what becomes of them in Jingle:process.  *)
(* Silent: the handler is empty and returns nil.  NoHandler: ACTIONS names  *)
(* a method that no class defines; the answer is built by req:error_reply,  *)
(* which stanzas do not have, so it raises; "not-an-action" stands for any  *)
(* name missing from ACTIONS, onDescriptionInfo raises on the same call.    *)
Silent    == {"content-add", "transport-replace"}
NoHandler == {"content-accept", "content-modify", "content-reject",
              "content-remove", "description-info", "security-info",
              "transport-accept", "transport-reject", "not-an-action"}
SourceOps == {"source-add", "source-remove"}
Process   == {"session-accept", "session-info", "transport-info"} \cup SourceOps
Actions   == {"session-initiate", "session-terminate"}
               \cup Process \cup Silent \cup NoHandler

(* The branch of M.handle, and of Jingle:process behind it, that a request  *)
(* of peer `from' takes; media says whether a content has a description     *)
(* with a media type (dTCount > 0).                                         *)
Verdict(r, action, sid, from, media) ==
  IF sid \notin DOMAIN r.sessions
  THEN IF action # "session-initiate" THEN "unknown-session"
       ELSE IF media THEN "session-initiate" ELSE "nothing-we-need"
  ELSE LET s == SessionOf(r, sid)
       IN  CASE s.peer # from -> "wrong-sender"
             [] s.peer = from /\ action = "session-initiate" ->
                  IF s.isPending THEN "tie-break" ELSE "out-of-order"
             [] s.peer = from /\ action = "session-accept" /\ ~s.isPending ->
                  "accepted-twice"
             [] s.peer = from /\ action \in NoHandler -> "no-handler"
             [] OTHER -> action

(* global.v.error_reply answers these two ...                               *)
Refusals == {"unknown-session", "nothing-we-need"}
(* ... and these raise: they call the method error_reply of the request,    *)
(* which util.stanza does not define, or index the undefined global c.      *)
Raises == {"wrong-sender", "tie-break", "out-of-order", "accepted-twice", "no-handler"}
=============================================================================
