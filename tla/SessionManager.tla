---------------------------- MODULE SessionManager ----------------------------
(***************************************************************************)
(* One OTalk instance: the session API of wrapper.lua and the jingle       *)
(* request handler of sessionManager.lua, between an application and peers *)
(* that may send any jingle request at any time.                           *)
(*                                                                         *)
(* Everything runs on one thread, but not one handler at a time: c:event   *)
(* calls the hooks of the application in the middle of a handler, and a    *)
(* hook may call the API again.  `calls' is the Lua call stack seen at the *)
(* moments when a hook is running: the activations that will go on when    *)
(* the hook returns, innermost last.  A stanza is read only when the stack *)
(* is empty.                                                               *)
(***************************************************************************)
EXTENDS JingleSession

CONSTANTS
  MaxSessions,   \* bound: session objects ever made
  MaxCalls,      \* bound: depth of the call stack
  MaxEvents      \* bound: candidates, or info elements, of one request

ASSUME BoundsAssumption ==
  MaxSessions \in Nat /\ MaxCalls \in Nat \ {0} /\ MaxEvents \in Nat

VARIABLES
  reg,       \* the registry: session objects, global.sessions, global.peers
  calls,     \* activations suspended in a hook of the application
  status,    \* "running", "wedged", "aborted": see Raise
  replies,   \* answers sent to the last request
  view,      \* the sids the application holds: made or offered, not yet ended
  astray     \* history: the sids of which it was last told wrong: an error kept
             \* the end or the offer from it, or a hook had ended what was offered

vars == <<reg, calls, status, replies, view, astray>>

-----------------------------------------------------------------------------
(* A handler that has more to do after its event: the events left to fire,  *)
(* and what becomes of it in the end: handle returns true, returns nil, or  *)
(* raises.                                                                  *)
Outcomes == {"handled", "nil", "raises"}
Handling == [fn : {"handle"}, left : 0..MaxEvents, outcome : Outcomes]
(* An endSessionsForJID loop: its snapshot and what it still has to visit.  *)
Ending(ids) == [fn : {"endSessionsForJID"}, jid : JIDs, snap : SUBSET ids,
                todo : SUBSET ids, notify : BOOLEAN]
(* Two activations send a stanza between the change of the registry and the *)
(* event that tells of it, and the hooks of outgoing data run there.        *)
Notifying == [fn : {"endSessionBySID"}, sid : Sids]
Offering(ids) == [fn : {"onSessionInitiate"}, sid : Sids, id : ids]

Frames(ids) == Handling \cup Ending(ids) \cup Notifying \cup Offering(ids)

TypeOK ==
  /\ IsRegistry(reg)
  /\ calls \in Seq(Frames(1..Len(reg.obj)))
  /\ status \in {"running", "wedged", "aborted"}
  /\ replies \in Seq({"result", "error"})
  /\ view \subseteq Sids /\ astray \subseteq Sids

Init ==
  /\ reg = EmptyRegistry
  /\ calls = <<>>
  /\ status = "running"
  /\ replies = <<>>
  /\ view = {}
  /\ astray = {}

-----------------------------------------------------------------------------
(* A Lua error unwinds the whole stack.  Below a stanza handler it ends in  *)
(* the xpcall of verse.step, but the loop has left quitting = "once" behind *)
(* and every later step returns at once; the API still works.  Outside, no  *)
(* one catches it: the C++ call is unprotected and the process ends.        *)
InStep == calls # <<>> /\ calls[1].fn \in {"handle", "onSessionInitiate"}

(* The sids that the suspended activations of fn are about.                 *)
SidsIn(c, fn) == {c[k].sid : k \in {i \in 1..Len(c) : c[i].fn = fn}}
Ended(c)   == SidsIn(c, "endSessionBySID")
Offered(c) == SidsIn(c, "onSessionInitiate")

Raise(inStep) ==
  /\ status' = IF inStep THEN "wedged" ELSE "aborted"
  /\ calls' = <<>>
  /\ astray' = astray \cup Ended(calls) \cup Offered(calls)

Top == calls[Len(calls)]
Pop == SubSeq(calls, 1, Len(calls) - 1)

(* The session that ipairs visits first among these.                        *)
First(ids) == {i \in ids : \A k \in ids : i <= k}

(* endSessionBySID: unregister, send a session-terminate if the caller wants *)
(* one and there was such a session, and tell the application, whether or   *)
(* not there was.  `stack' is what remains suspended meanwhile.             *)
endSessionBySID(sid, notify, stack, inStep) ==
  IF sid \in DOMAIN reg.sessions /\ ~Listed(reg, reg.sessions[sid])
  THEN /\ Raise(inStep)
       /\ reg' = [reg EXCEPT !.sessions = Drop(@, sid)]
       /\ UNCHANGED view
  ELSE /\ reg' = Unregister(reg, sid)
       /\ IF notify /\ sid \in DOMAIN reg.sessions
            THEN /\ calls' = Append(stack, [fn |-> "endSessionBySID", sid |-> sid])
                 /\ UNCHANGED <<view, astray>>
            ELSE /\ calls' = stack
                 /\ view' = view \ {sid}
                 /\ astray' = astray \ {sid}
       /\ UNCHANGED status

-----------------------------------------------------------------------------
(* Requests from the stream.                                                *)

Reading == status = "running" /\ calls = <<>>

(* What handle leaves for the time its events have been handled: `left'     *)
(* more events; then, unless it returns true, verse.lua says                *)
(* service-unavailable.                                                     *)
Handle(left, outcome) == [fn |-> "handle", left |-> left, outcome |-> outcome]

Refuse(action, sid, from, media) ==
  /\ Reading
  /\ Verdict(reg, action, sid, from, media) \in Refusals
  /\ replies' = <<"error">>
  /\ UNCHANGED <<reg, calls, status, view, astray>>

RaiseOnRequest(action, sid, from, media) ==
  /\ Reading
  /\ Verdict(reg, action, sid, from, media) \in Raises
  /\ Raise(TRUE)
  /\ replies' = <<>>
  /\ UNCHANGED <<reg, view>>

NotHandled(action, sid, from) ==
  /\ Reading
  /\ action \in Silent
  /\ Verdict(reg, action, sid, from, FALSE) = action
  /\ replies' = <<"error">>
  /\ UNCHANGED <<reg, calls, status, view, astray>>

(* The object is registered; the reply is sent before anything else is done *)
(* with the offer.                                                          *)
SessionInitiate(sid, from) ==
  /\ Reading
  /\ Verdict(reg, "session-initiate", sid, from, TRUE) = "session-initiate"
  /\ Len(reg.obj) < MaxSessions
  /\ reg' = newSession(reg, sid, from)
  /\ replies' = <<"result">>
  /\ calls' = <<[fn |-> "onSessionInitiate", sid |-> sid, id |-> Len(reg.obj) + 1]>>
  /\ UNCHANGED <<status, view, astray>>

SessionAccept(sid, from) ==
  /\ Reading
  /\ Verdict(reg, "session-accept", sid, from, FALSE) = "session-accept"
  /\ reg' = onSessionAccept(reg, sid)
  /\ replies' = <<"result">>
  /\ calls' = <<Handle(0, "handled")>>
  /\ UNCHANGED <<status, view, astray>>

(* handle drops the `return true' of onSessionTerminate.                    *)
SessionTerminate(sid, from) ==
  /\ Reading
  /\ Verdict(reg, "session-terminate", sid, from, FALSE) = "session-terminate"
  /\ replies' = <<"result">>
  /\ endSessionBySID(sid, FALSE, <<Handle(0, "nil")>>, TRUE)

(* One event per element; the first is fired before control returns.  The   *)
(* result is sent before the request is looked at.  A candidate is located  *)
(* in remote_state.contents, which raises while no description has come.    *)
(* text: a session-info has text after its n elements, which are taken as   *)
(* they come, and a string has no attr.                                     *)
InfoRequest(action, sid, from, n, text) ==
  /\ Reading
  /\ action \in {"transport-info", "session-info"}
  /\ Verdict(reg, action, sid, from, FALSE) = action
  /\ text => action = "session-info"
  /\ replies' = <<"result">>
  /\ IF \/ action = "transport-info" /\ n > 0 /\ ~SessionOf(reg, sid).remote
        \/ text /\ n = 0
       THEN Raise(TRUE)
       ELSE /\ calls' = IF n = 0 THEN <<>>
                        ELSE <<Handle(n - 1, IF text THEN "raises" ELSE "handled")>>
            /\ UNCHANGED <<status, astray>>
  /\ UNCHANGED <<reg, view>>

(* changed: some source of the request was added or removed.                *)
SourceRequest(action, sid, from, changed) ==
  /\ Reading
  /\ action \in SourceOps
  /\ Verdict(reg, action, sid, from, FALSE) = action
  /\ replies' = <<"result">>
  /\ IF ~SessionOf(reg, sid).remote
       THEN Raise(TRUE)
       ELSE /\ calls' = IF changed THEN <<Handle(0, "handled")>> ELSE <<>>
            /\ UNCHANGED <<status, astray>>
  /\ UNCHANGED <<reg, view>>

-----------------------------------------------------------------------------
(* Calls of the application, from its own code or from a hook.              *)

Alive == status # "aborted"

CreateSession(sid, peer) ==
  /\ Alive
  /\ Len(reg.obj) < MaxSessions
  /\ reg' = newSession(reg, sid, peer)
  /\ view' = view \cup {sid}
  /\ astray' = astray \ {sid}
  /\ UNCHANGED <<calls, status, replies>>

StartSession(sid) ==
  /\ Alive
  /\ sid \in DOMAIN reg.sessions
  /\ reg' = initiateSDP(reg, sid)
  /\ UNCHANGED <<calls, status, replies, view, astray>>

AcceptSession(sid) ==
  /\ Alive
  /\ sid \in DOMAIN reg.sessions
  /\ reg' = acceptSDP(reg, sid)
  /\ UNCHANGED <<calls, status, replies, view, astray>>

(* The hooks of the event run as part of the call; what they call is called *)
(* next, so nothing stays suspended but, with notify, the call itself.      *)
EndSession(sid, notify) ==
  /\ Alive
  /\ notify => Len(calls) < MaxCalls
  /\ endSessionBySID(sid, notify, calls, InStep)
  /\ UNCHANGED replies

(* The loop visits the objects of the list it copied, but ends whatever is  *)
(* registered under their sids.  The bound leaves it room for its calls.    *)
EndSessionsForJID(jid, notify) ==
  /\ Alive
  /\ jid \in DOMAIN reg.peers
  /\ Len(calls) + (IF notify THEN 1 ELSE 0) < MaxCalls
  /\ LET ids == getSessionsByJID(reg, jid)
     IN  \E id \in First(ids) :
           endSessionBySID(reg.obj[id].sid, notify,
             Append(calls, [fn |-> "endSessionsForJID", jid |-> jid, snap |-> ids,
                            todo |-> ids \ {id}, notify |-> notify]), InStep)
  /\ UNCHANGED replies

(* activate, hold, resume and ring hand no attributes to sendMediaInfo,     *)
(* whose pairs(nil) raises; addSource and removeSource call methods that    *)
(* no session has.                                                          *)
BrokenCall(sid) ==
  /\ Alive
  /\ sid \in DOMAIN reg.sessions
  /\ Raise(InStep)
  /\ UNCHANGED <<reg, replies, view>>

-----------------------------------------------------------------------------
(* The hook returns and the innermost activation goes on.                   *)

(* Mistakes: skipping a session that still rings, ending the sessions in    *)
(* the order of the whole registry, never advancing.                        *)
NextSessionSkipsPending ==
  /\ calls # <<>>
  /\ Top.fn = "endSessionsForJID"
  /\ \E id \in First(Top.todo) :
       LET rest == Append(Pop, [Top EXCEPT !.todo = @ \ {id}])
       IN  IF reg.obj[id].isPending
           THEN calls' = rest /\ UNCHANGED <<reg, status, view, astray>>
           ELSE endSessionBySID(reg.obj[id].sid, Top.notify, rest, InStep)
  /\ UNCHANGED replies

NextSessionOfAnyPeer ==
  /\ calls # <<>>
  /\ Top.fn = "endSessionsForJID"
  /\ Top.todo # {}
  /\ \E id \in First(Top.todo \cup UNION {reg.peers[j] : j \in DOMAIN reg.peers}) :
       endSessionBySID(reg.obj[id].sid, Top.notify,
         Append(Pop, [Top EXCEPT !.todo = @ \ {id}]), InStep)
  /\ UNCHANGED replies

NextSessionAgain ==
  /\ calls # <<>>
  /\ Top.fn = "endSessionsForJID"
  /\ \E id \in First(Top.todo) : endSessionBySID(reg.obj[id].sid, Top.notify, calls, InStep)
  /\ UNCHANGED replies

NextSession ==
  /\ calls # <<>>
  /\ Top.fn = "endSessionsForJID"
  /\ \E id \in First(Top.todo) :
       endSessionBySID(reg.obj[id].sid, Top.notify,
         Append(Pop, [Top EXCEPT !.todo = @ \ {id}]), InStep)
  /\ UNCHANGED replies

LoopEnds ==
  /\ calls # <<>>
  /\ Top.fn = "endSessionsForJID"
  /\ Top.todo = {}
  /\ calls' = Pop
  /\ UNCHANGED <<reg, status, replies, view, astray>>

NextEvent ==
  /\ calls # <<>>
  /\ Top.fn = "handle"
  /\ Top.left > 0
  /\ calls' = Append(Pop, [Top EXCEPT !.left = @ - 1])
  /\ UNCHANGED <<reg, status, replies, view, astray>>

HandlerEnds ==
  /\ calls # <<>>
  /\ Top.fn = "handle"
  /\ Top.left = 0
  /\ Top.outcome # "raises"
  /\ replies' = IF Top.outcome = "handled" THEN replies ELSE Append(replies, "error")
  /\ calls' = Pop
  /\ UNCHANGED <<reg, status, view, astray>>

HandlerRaises ==
  /\ calls # <<>>
  /\ Top.fn = "handle"
  /\ Top.left = 0
  /\ Top.outcome = "raises"
  /\ Raise(InStep)
  /\ UNCHANGED <<reg, replies, view>>

(* Mistake: the event is left to the branch without notify.                 *)
SessionEndedUntold ==
  /\ calls # <<>>
  /\ Top.fn = "endSessionBySID"
  /\ calls' = Pop
  /\ UNCHANGED <<reg, status, replies, view, astray>>

(* The session-terminate is sent, and the application is told.              *)
SessionEnded ==
  /\ calls # <<>>
  /\ Top.fn = "endSessionBySID"
  /\ view' = view \ {Top.sid}
  /\ astray' = astray \ {Top.sid}
  /\ calls' = Pop
  /\ UNCHANGED <<reg, status, replies>>

(* The reply is sent.  The handler goes on with the object it was called    *)
(* for, registered or not.                                                  *)
SessionOffered ==
  /\ calls # <<>>
  /\ Top.fn = "onSessionInitiate"
  /\ reg' = [reg EXCEPT !.obj[Top.id] = [@ EXCEPT !.remote = TRUE, !.isPending = TRUE]]
  /\ view' = view \cup {Top.sid}
  /\ astray' = IF Top.sid \in DOMAIN reg.sessions THEN astray \ {Top.sid}
               ELSE astray \cup {Top.sid}
  /\ calls' = Append(Pop, Handle(0, "handled"))
  /\ UNCHANGED <<status, replies>>

HookReturns == NextSession \/ LoopEnds \/ NextEvent \/ HandlerEnds \/ HandlerRaises
                 \/ SessionEnded \/ SessionOffered

(* A connection that has been told to close has no write: the send raises.  *)
(* The other handlers send before their first change of the registry or     *)
(* after their last, and raise as RaiseOnRequest and BrokenCall do.         *)
SendFails ==
  /\ calls # <<>>
  /\ Top.fn \in {"endSessionBySID", "onSessionInitiate"}
  /\ Raise(InStep)
  /\ UNCHANGED <<reg, replies, view>>

Request ==
  \E sid \in Sids, from \in JIDs :
    \/ \E action \in Actions, media \in BOOLEAN :
         Refuse(action, sid, from, media) \/ RaiseOnRequest(action, sid, from, media)
    \/ \E action \in Silent : NotHandled(action, sid, from)
    \/ SessionInitiate(sid, from)
    \/ SessionAccept(sid, from)
    \/ SessionTerminate(sid, from)
    \/ \E action \in {"transport-info", "session-info"}, n \in 0..MaxEvents,
          text \in BOOLEAN : InfoRequest(action, sid, from, n, text)
    \/ \E action \in SourceOps, changed \in BOOLEAN :
         SourceRequest(action, sid, from, changed)

ApiCall ==
  \/ \E sid \in Sids :
       \/ \E peer \in JIDs : CreateSession(sid, peer)
       \/ StartSession(sid)
       \/ AcceptSession(sid)
       \/ \E notify \in BOOLEAN : EndSession(sid, notify)
       \/ BrokenCall(sid)
  \/ \E jid \in JIDs, notify \in BOOLEAN : EndSessionsForJID(jid, notify)

Next == Request \/ ApiCall \/ HookReturns \/ SendFails

(* Every hook of the application returns, however often it calls the API,   *)
(* whose own hooks return meanwhile.                                        *)
Fairness == \A depth \in 1..MaxCalls : SF_vars(Len(calls) = depth /\ HookReturns)

Spec == Init /\ [][Next]_vars /\ Fairness
-----------------------------------------------------------------------------
(* Properties.                                                              *)

(* #sessions of a nil list would raise in the middle of endSessionBySID,    *)
(* after the sid is forgotten and before the application is told: every     *)
(* registered session is in the list of its peer, whatever the hooks do     *)
(* inside a loop over a copy of that list.                                  *)
RegisteredIsListed == Indexed(reg)

(* A sid that two session objects have had.                                 *)
Reused(r, s) == \E i, k \in 1..Len(r.obj) : i # k /\ r.obj[i].sid = s /\ r.obj[k].sid = s

(* What the application holds is what global.sessions holds, in every hook  *)
(* and between steps.  The exceptions are what the two sends make: a        *)
(* session whose terminate is on its way is gone before the application     *)
(* hears of it, an offer is registered before, an error in either leaves it *)
(* uninformed; and the late end of one session hides another of its sid.    *)
ViewIsRegistry ==
  /\ \A s \in DOMAIN reg.sessions \ view : s \in Offered(calls) \cup astray \/ Reused(reg, s)
  /\ \A s \in view \ DOMAIN reg.sessions : s \in Ended(calls) \cup astray

(* A suspended endSessionsForJID has ended every object it has visited, and *)
(* no hook running in between brings one back.                              *)
Visited(r, f) ==
  f.fn = "endSessionsForJID" =>
    \A id \in f.snap \ f.todo : \A s \in DOMAIN r.sessions : r.sessions[s] # id
VisitedAreEnded == \A k \in 1..Len(calls) : Visited(reg, calls[k])

(* No sid was ever given to a second session object.                        *)
AllFresh == \A i, k \in 1..Len(reg.obj) : reg.obj[i].sid = reg.obj[k].sid => i = k

(* Without reuse of sids the two tables agree: the lists hold nothing but   *)
(* registered sessions, so getSessionsByJID never shows an ended one.       *)
ListedIsRegistered ==
  AllFresh =>
    \A j \in DOMAIN reg.peers : \A id \in reg.peers[j] :
      /\ reg.obj[id].sid \in DOMAIN reg.sessions
      /\ reg.sessions[reg.obj[id].sid] = id

(* Without reuse of sids, hanging up on one peer never ends a session with  *)
(* another: the loop ends by sid, from a copy made before the hooks ran.    *)
EndsOnlyThatPeer ==
  [][AllFresh /\ NextSession =>
       \A s \in DOMAIN reg.sessions \ DOMAIN reg'.sessions :
         SessionOf(reg, s).peer = Top.jid]_vars

(* Every endSessionsForJID and every handler comes to its end, even when    *)
(* the hooks of its events start new sessions with the same peer.           *)
CallsReturn == calls # <<>> ~> calls = <<>>

(* What the comments of handle say of two requests that are out of order:   *)
(* "Tie break new session because of duplicate sids" (line 222) answers a   *)
(* second offer of a pending session with a conflict, and "Tried to accept  *)
(* the session more than once" (line 199) answers a second accept with      *)
(* unexpected-request.  The code raises instead.                            *)
OutOfOrderIsAnswered ==
  [][\A sid \in Sids, from \in JIDs, action \in {"session-initiate", "session-accept"} :
       /\ Verdict(reg, action, sid, from, TRUE) \in {"tie-break", "accepted-twice"}
       /\ SessionOf(reg, sid).remote
       /\ RaiseOnRequest(action, sid, from, TRUE)
       => replies' = <<"error">>]_vars
=============================================================================
