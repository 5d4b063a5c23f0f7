------------------------------ MODULE JingleCall ------------------------------
(***************************************************************************)
(* Two OTalk endpoints in a call.  Each keeps the registry of              *)
(* JingleSession; the stream between them delivers in order.  The          *)
(* applications start what they created and answer what rings, with sids   *)
(* nobody else uses; `hasty' says how careful they are about when.         *)
(*                                                                         *)
(* Answers to requests are left out: the receiver drops them, since no     *)
(* request of wrapper.lua is sent with send_iq.  Hooks that call the API   *)
(* are SessionManager's subject; here a hook has returned before the next  *)
(* step.                                                                   *)
(***************************************************************************)
EXTENDS JingleSession

CONSTANTS
  Owner,          \* Owner[sid]: the endpoint whose application draws that sid
  Again,          \* bound: the sids that a hasty application offers again
  MaxInfo         \* bound: candidates, mutes, repeated offers and answers of one endpoint

Endpoints == JIDs

ASSUME CallAssumption ==
  /\ \E a, b \in JIDs : a # b /\ JIDs = {a, b}
  /\ Owner \in [Sids -> JIDs]
  /\ Again \subseteq Sids
  /\ MaxInfo \in Nat

VARIABLES
  reg,      \* reg[e]: the registry of e
  app,      \* app[e][sid]: what the application of e has seen of the session
  net,      \* net[e]: requests on their way to e
  infos,    \* infos[e]: how many of those e has sent
  repeated, \* history: sids offered more than once
  wedged,   \* endpoints whose event loop has died, see SessionManager
  hasty     \* rigid: whether the applications are of the hasty sort

vars == <<reg, app, net, infos, repeated, wedged, hasty>>

AppStates == {"none", "created", "offered", "ringing", "established", "ended"}
Live == {"created", "offered", "ringing", "established"}

(* When applications call startSession, acceptSession, addCandidate and     *)
(* muteSession, and with which values of notify endSession: careful ones    *)
(* offer and answer once, trickle after their own description and announce  *)
(* that they hang up.                                                       *)
OfferIn == IF hasty THEN {"created", "offered", "established"} ELSE {"created"}
AcceptIn == IF hasty THEN {"ringing", "established"} ELSE {"ringing"}
Trickle == IF hasty THEN Live ELSE {"offered", "established"}
Notify == IF hasty THEN BOOLEAN ELSE {TRUE}

Msg == [action : {"session-initiate", "session-accept", "session-terminate",
                  "transport-info", "session-info"}, sid : Sids]

Peer(e) == CHOOSE p \in Endpoints : p # e

TypeOK ==
  /\ \A e \in Endpoints : IsRegistry(reg[e])
  /\ DOMAIN reg = Endpoints
  /\ app \in [Endpoints -> [Sids -> AppStates]]
  /\ net \in [Endpoints -> Seq(Msg)]
  /\ infos \in [Endpoints -> 0..MaxInfo]
  /\ repeated \subseteq Again
  /\ wedged \subseteq Endpoints
  /\ hasty \in BOOLEAN

Init ==
  /\ reg = [e \in Endpoints |-> EmptyRegistry]
  /\ app = [e \in Endpoints |-> [s \in Sids |-> "none"]]
  /\ net = [e \in Endpoints |-> <<>>]
  /\ infos = [e \in Endpoints |-> 0]
  /\ repeated = {}
  /\ wedged = {}
  /\ hasty \in BOOLEAN

-----------------------------------------------------------------------------
SetReg(e, r) == reg' = [reg EXCEPT ![e] = r]
SetApp(e, sid, st) == app' = [app EXCEPT ![e][sid] = st]
Request(action, sid) == [action |-> action, sid |-> sid]
Send(e, action, sid) == net' = [net EXCEPT ![Peer(e)] = Append(@, Request(action, sid))]

Count(e) == infos[e] < MaxInfo /\ infos' = [infos EXCEPT ![e] = @ + 1]

(* The API of wrapper.lua.  A session that is not registered is skipped     *)
(* there; the applications know that and do not ask.                        *)

CreateSession(e, sid) ==
  /\ app[e][sid] = "none" /\ Owner[sid] = e
  /\ SetReg(e, newSession(reg[e], sid, Peer(e)))
  /\ SetApp(e, sid, "created")
  /\ UNCHANGED <<net, infos, repeated, wedged>>

StartSession(e, sid) ==
  /\ app[e][sid] \in OfferIn /\ Owner[sid] = e /\ sid \in DOMAIN reg[e].sessions
  /\ SetReg(e, initiateSDP(reg[e], sid))
  /\ SetApp(e, sid, "offered")
  /\ Send(e, "session-initiate", sid)
  /\ IF app[e][sid] = "created" THEN UNCHANGED <<infos, repeated>>
       ELSE Count(e) /\ sid \in Again /\ repeated' = repeated \cup {sid}
  /\ UNCHANGED wedged

AcceptSession(e, sid) ==
  /\ app[e][sid] \in AcceptIn /\ Owner[sid] # e /\ sid \in DOMAIN reg[e].sessions
  /\ SetReg(e, acceptSDP(reg[e], sid))
  /\ SetApp(e, sid, "established")
  /\ Send(e, "session-accept", sid)
  /\ IF app[e][sid] = "ringing" THEN UNCHANGED infos ELSE Count(e)
  /\ UNCHANGED <<repeated, wedged>>

SendInfo(e, sid, action) ==
  /\ app[e][sid] \in Trickle /\ sid \in DOMAIN reg[e].sessions
  /\ Count(e)
  /\ Send(e, action, sid)
  /\ UNCHANGED <<reg, app, repeated, wedged>>

(* Mistake: unregistered before the test whether there is someone to tell.  *)
EndSessionTellsNobody(e, sid, notify) ==
  /\ app[e][sid] \in Live
  /\ SetReg(e, Unregister(reg[e], sid))
  /\ SetApp(e, sid, "ended")
  /\ IF notify /\ sid \in DOMAIN reg'[e].sessions
       THEN Send(e, "session-terminate", sid) ELSE UNCHANGED net
  /\ UNCHANGED <<infos, repeated, wedged>>

EndSession(e, sid, notify) ==
  /\ app[e][sid] \in Live
  /\ SetReg(e, Unregister(reg[e], sid))
  /\ SetApp(e, sid, "ended")
  /\ IF notify /\ sid \in DOMAIN reg[e].sessions
       THEN Send(e, "session-terminate", sid) ELSE UNCHANGED net
  /\ UNCHANGED <<infos, repeated, wedged>>

-----------------------------------------------------------------------------
(* sessionManager.handle on the next request of the stream.                 *)

Arrives(e, verdict) ==
  /\ e \notin wedged
  /\ net[e] # <<>>
  /\ Verdict(reg[e], Head(net[e]).action, Head(net[e]).sid, Peer(e), TRUE) = verdict
  /\ net' = [net EXCEPT ![e] = Tail(@)]
  /\ UNCHANGED <<infos, repeated>>

HandleInitiate(e) ==
  /\ Arrives(e, "session-initiate")
  /\ LET sid == Head(net[e]).sid
     IN  /\ SetReg(e, onSessionInitiate(newSession(reg[e], sid, Peer(e)), sid))
         /\ SetApp(e, sid, "ringing")
  /\ UNCHANGED wedged

HandleAccept(e) ==
  /\ Arrives(e, "session-accept")
  /\ LET sid == Head(net[e]).sid
     IN  /\ SetReg(e, onSessionAccept(reg[e], sid))
         /\ SetApp(e, sid, "established")
  /\ UNCHANGED wedged

HandleTerminate(e) ==
  /\ Arrives(e, "session-terminate")
  /\ LET sid == Head(net[e]).sid
     IN  /\ SetReg(e, Unregister(reg[e], sid))
         /\ SetApp(e, sid, "ended")
  /\ UNCHANGED wedged

(* A candidate is looked up in the description of the peer, and finding     *)
(* none raises; a mute asks for nothing.                                    *)
HandleTransportInfo(e) ==
  /\ Arrives(e, "transport-info")
  /\ wedged' = IF SessionOf(reg[e], Head(net[e]).sid).remote THEN wedged ELSE wedged \cup {e}
  /\ UNCHANGED <<reg, app>>

HandleSessionInfo(e) ==
  /\ Arrives(e, "session-info")
  /\ UNCHANGED <<reg, app, wedged>>

HandleRefused(e) ==
  /\ \E verdict \in Refusals : Arrives(e, verdict)
  /\ UNCHANGED <<reg, app, wedged>>

HandleRaises(e) ==
  /\ \E verdict \in Raises : Arrives(e, verdict)
  /\ wedged' = wedged \cup {e}
  /\ UNCHANGED <<reg, app>>

Handle(e) ==
  \/ HandleInitiate(e) \/ HandleAccept(e) \/ HandleTerminate(e)
  \/ HandleTransportInfo(e) \/ HandleSessionInfo(e)
  \/ HandleRefused(e) \/ HandleRaises(e)

Application(e) ==
  \E sid \in Sids :
    \/ CreateSession(e, sid) \/ StartSession(e, sid) \/ AcceptSession(e, sid)
    \/ \E action \in {"transport-info", "session-info"} : SendInfo(e, sid, action)
    \/ \E notify \in Notify : EndSession(e, sid, notify)

Next == (\E e \in Endpoints : Handle(e) \/ Application(e)) /\ UNCHANGED hasty

(* The application calls step() again and again.                            *)
Fairness == \A e \in Endpoints : WF_vars(Handle(e) /\ UNCHANGED hasty)

Spec == Init /\ [][Next]_vars /\ Fairness
-----------------------------------------------------------------------------
(* Properties.                                                              *)

InFlight(s) ==
  \E e \in Endpoints : \E k \in 1..Len(net[e]) : net[e][k].sid = s

(* When nothing about a session is on its way, both ends see it alike:      *)
(* ringing against offered, both established and neither pending, or over   *)
(* at both, provided that every hang-up was announced.                      *)
QuietAgreement ==
  ~hasty => \A s \in Sids :
    ~InFlight(s) =>
      LET caller == Owner[s]
          callee == Peer(Owner[s])
      IN  /\ <<app[caller][s], app[callee][s]>> \in
               {<<"none", "none">>, <<"created", "none">>, <<"offered", "ringing">>,
                <<"established", "established">>, <<"ended", "none">>, <<"ended", "ended">>}
          /\ \A e \in Endpoints :
               s \in DOMAIN reg[e].sessions =>
                 (SessionOf(reg[e], s).isPending <=> app[e][s] \in {"offered", "ringing"})

(* With careful applications, no interleaving of the two and of requests    *)
(* that cross makes a handler raise: a session-accept or a candidate that   *)
(* meets an ended session is refused, not fatal.  If an application         *)
(* trickles before there is a description to send, or repeats its answer,   *)
(* the loop that dies is that of the caller, who has not been answered yet  *)
(* or is answered twice: the callee always holds the description of the     *)
(* caller, and is never asked for anything out of order.  Only an offer     *)
(* made twice can kill the loop of a callee, and excuses any.               *)
OnlyCallersWedge ==
  /\ ~hasty => wedged = {}
  /\ repeated = {} => \A e \in wedged : \E s \in Sids :
       /\ Owner[s] = e
       /\ app[e][s] \in {"offered", "established", "ended"}
       /\ app[Peer(e)][s] \in {"ringing", "established", "ended"}
       /\ infos[Peer(e)] > 0

(* Hang-ups that are announced reach the other side, whatever it was doing: *)
(* offering, ringing or answering at that moment.                           *)
Unheard ==
  \E s \in Sids, e \in Endpoints :
    app[e][s] = "ended" /\ app[Peer(e)][s] \notin {"none", "ended"}
HangUpReaches == ~hasty /\ Unheard ~> ~Unheard

(* The two registries and the stream between them implement CallProtocol,   *)
(* which promises nothing of a session once it is offered again.            *)
CallState(s) ==
  LET caller == app[Owner[s]][s]
      callee == app[Peer(Owner[s])][s]
  IN  IF s \in repeated THEN "over"
      ELSE CASE "ended" \in {caller, callee} -> "over"
             [] caller = "established" /\ callee = "established" -> "connected"
             [] caller \in {"created", "offered"} /\ callee = "established" -> "answered"
             [] caller = "offered" /\ callee \in {"none", "ringing"} -> "offered"
             [] OTHER -> "none"

Protocol == INSTANCE CallProtocol WITH call <- [s \in Sids |-> CallState(s)]
ImplementsProtocol == Protocol!Spec
=============================================================================
