----------------------------- MODULE ClientStream -----------------------------
(***************************************************************************)
(* A stream of verse.client from connect_client to "ready" and to its end: *)
(* the SRV lookup and the hosts it names, the XML stream that is opened,   *)
(* secured, authenticated and bound by the plugins tls, sasl, bind and     *)
(* session, the two ways to close it, and a second connect_client.         *)
(*                                                                         *)
(* The connection below is Connection's subject and is reduced here to     *)
(* whether it is up.  The server is external: it answers what a server may *)
(* answer, refuses what it may refuse and ends the stream when it likes.   *)
(***************************************************************************)
EXTENDS Integers, Sequences

CONSTANTS
  MaxConnects,     \* bound: calls of connect_client
  MaxHosts,        \* bound: hosts of one SRV answer
  MaxFailures,     \* bound: failed authentications
  OffersTLS,       \* what the server offers: starttls,
  NeedsSession     \*   and a session that is not optional

ASSUME ClientAssumption ==
  /\ MaxConnects \in Nat /\ MaxHosts \in Nat /\ MaxFailures \in Nat
  /\ OffersTLS \in BOOLEAN /\ NeedsSession \in BOOLEAN

VARIABLES
  calls,          \* calls of connect_client; each leaves its hooks installed
  asked,          \* is an SRV answer awaited
  hosts,          \* #srv_hosts, the hosts of the answer; 0 if none
  srv_choice,
  srv,            \* is srv_hosts set
  starting,       \* is start_connect about to run
  conn,           \* "none", "connecting", "up", "down"
  parser,         \* "waiting" for a header, "open", or beyond repair: see FedTwice
  closed, secure, authenticated, bound,    \* fields of the stream
  binding,        \* is the hook handle_binding of the session plugin installed
  toServer, toClient,      \* what is on its way
  server,         \* the server's view: is the stream opened, secure, authenticated
  failures,       \* failed authentications
  told            \* what the application has heard, and what was done to the stream,
                  \*   since connect_client

fields == <<closed, secure, authenticated, bound, binding>>
dial == <<asked, hosts, srv_choice, srv, starting>>
vars == <<calls, dial, conn, parser, fields, toServer, toClient, server, failures, told>>

ClientSays == {"header", "starttls", "auth", "bind", "session", "end"}
ServerSays == {"features-tls", "features-sasl", "features-bind", "proceed", "success",
               "failure", "bound", "bind-error", "session", "session-error", "end"}
(* failed: a failure event; left: the application closed; cut: the kernel   *)
(* or the server ended it.  Counters stop at 2.                             *)
Heard == [connected : 0..2, ready : 0..2, disconnected : 0..2,
          failed : BOOLEAN, left : BOOLEAN, cut : BOOLEAN]
NothingHeard == [connected |-> 0, ready |-> 0, disconnected |-> 0,
                 failed |-> FALSE, left |-> FALSE, cut |-> FALSE]

TypeOK ==
  /\ calls \in 0..MaxConnects
  /\ hosts \in 0..MaxHosts /\ srv_choice \in 0..(MaxHosts + 1)
  /\ {asked, srv, starting, closed, secure, authenticated, bound, binding} \subseteq BOOLEAN
  /\ conn \in {"none", "connecting", "up", "down"}
  /\ parser \in {"waiting", "open", "garbled", "breaking", "broken"}
  /\ toServer \in Seq(ClientSays) /\ toClient \in Seq(ServerSays)
  /\ server \in [open : BOOLEAN, secure : BOOLEAN, authenticated : BOOLEAN,
                over : BOOLEAN, ends : 0..2]
  /\ failures \in 0..MaxFailures
  /\ told \in Heard

NewServer == [open |-> FALSE, secure |-> FALSE, authenticated |-> FALSE,
              over |-> FALSE, ends |-> 0]

Init ==
  /\ calls = 0 /\ hosts = 0 /\ srv_choice = 0
  /\ asked = FALSE /\ srv = FALSE /\ starting = FALSE
  /\ conn = "none" /\ parser = "waiting"
  /\ closed = FALSE /\ secure = FALSE /\ authenticated = FALSE /\ bound = FALSE
  /\ binding = FALSE
  /\ toServer = <<>> /\ toClient = <<>> /\ server = NewServer
  /\ failures = 0 /\ told = NothingHeard

-----------------------------------------------------------------------------
More(n) == IF n < 2 THEN n + 1 ELSE n

(* stream:send.  A connection that is down takes it and loses it.           *)
Send(m) == toServer' = IF conn = "down" THEN toServer ELSE Append(toServer, m)

(* stream:reopen: a new parser that waits for a header.                     *)
Reopen == parser' = "waiting" /\ Send("header")

(* Mistakes: the last host is left out, and the list has no end.            *)
DisconnectedOneShort(t) ==
  IF srv /\ srv_choice + 1 < hosts
  THEN /\ srv_choice' = srv_choice + 1
       /\ starting' = TRUE
       /\ told' = t
       /\ UNCHANGED <<asked, hosts, srv>>
  ELSE /\ told' = [t EXCEPT !.disconnected = More(@)]
       /\ starting' = FALSE
       /\ UNCHANGED <<asked, hosts, srv_choice, srv>>

DisconnectedForever(t) ==
  /\ srv_choice' = srv_choice + 1
  /\ starting' = TRUE
  /\ told' = t
  /\ UNCHANGED <<asked, hosts, srv>>

(* The event "disconnected".  The hook of connect_client comes first and    *)
(* goes on with the next host, if there is one, without telling anyone.     *)
Disconnected(t) ==
  IF srv /\ srv_choice < hosts
  THEN /\ srv_choice' = srv_choice + 1
       /\ starting' = TRUE
       /\ told' = t
       /\ UNCHANGED <<asked, hosts, srv>>
  ELSE /\ told' = [t EXCEPT !.disconnected = More(@)]
       /\ starting' = FALSE
       /\ UNCHANGED <<asked, hosts, srv_choice, srv>>

-----------------------------------------------------------------------------
(* Connecting.                                                              *)

(* No lookup if an earlier one has set connect_host.  The application is    *)
(* taken to connect again only when it was told and the connection is gone. *)
connect_client ==
  /\ calls < MaxConnects
  /\ calls = 0 \/ (told.disconnected > 0 /\ conn # "up" /\ conn # "connecting")
  /\ ~asked /\ ~starting /\ parser # "breaking"
  /\ calls' = calls + 1
  /\ told' = NothingHeard
  /\ asked' = (hosts = 0)
  /\ starting' = (hosts > 0)
  /\ UNCHANGED <<hosts, srv_choice, srv, conn, parser, fields, toServer, toClient, server, failures>>

(* No answer leaves srv_hosts alone.                                        *)
SrvAnswer ==
  /\ asked
  /\ asked' = FALSE
  /\ starting' = TRUE
  /\ \/ UNCHANGED <<hosts, srv_choice, srv>>
     \/ hosts' \in 0..MaxHosts /\ srv_choice' = 1 /\ srv' = TRUE
  /\ UNCHANGED <<calls, conn, parser, fields, toServer, toClient, server, failures, told>>

StartConnect ==
  /\ starting
  /\ starting' = FALSE
  /\ conn' = "connecting"
  /\ toServer' = <<>> /\ toClient' = <<>>
  /\ server' = NewServer
  /\ UNCHANGED <<calls, asked, hosts, srv_choice, srv, parser, fields, failures, told>>

(* connect fails at once.                                                   *)
StartFails ==
  /\ starting
  /\ Disconnected(told)
  /\ UNCHANGED <<calls, conn, parser, fields, toServer, toClient, server, failures>>

Headers == [i \in 1..calls |-> "header"]

(* The socket is writeable, refused connections included: the event         *)
(* "connected".  Every connect_client has left a hook that reopens.         *)
Connected ==
  /\ conn = "connecting"
  /\ conn' = "up"
  /\ srv' = FALSE
  /\ parser' = "waiting"
  /\ toServer' = toServer \o Headers
  /\ told' = [told EXCEPT !.connected = More(@)]
  /\ UNCHANGED <<calls, asked, hosts, srv_choice, starting, fields, toClient, server, failures>>

Lost ==
  /\ conn = "up" /\ parser # "breaking"
  /\ conn' = "down"
  /\ Disconnected([told EXCEPT !.cut = TRUE])
  /\ UNCHANGED <<calls, parser, fields, toServer, toClient, server, failures>>

-----------------------------------------------------------------------------
(* Closing: the first close only sends the end of the stream, the next one  *)
(* closes the connection.  `closed' is never reset.                         *)
CloseWith(t) ==
  IF ~closed
  THEN /\ closed' = TRUE
       /\ told' = t
       /\ IF conn = "none" THEN UNCHANGED toServer ELSE Send("end")
       /\ UNCHANGED <<conn, dial>>
  ELSE /\ UNCHANGED <<closed, toServer>>
       /\ CASE conn = "none" -> told' = t /\ UNCHANGED <<conn, dial>>
            [] conn = "connecting" /\ toServer # <<>> ->      \* connected, and closed
                 /\ conn' = "down"
                 /\ srv' = FALSE
                 /\ told' = [t EXCEPT !.connected = More(@), !.disconnected = More(@)]
                 /\ UNCHANGED <<asked, hosts, srv_choice, starting>>
            [] OTHER -> conn' = "down" /\ Disconnected(t)

Close ==
  /\ calls > 0 /\ ~starting /\ parser # "breaking"
  /\ CloseWith([told EXCEPT !.left = TRUE])
  /\ UNCHANGED <<calls, parser, secure, authenticated, bound, binding, toClient, server, failures>>

-----------------------------------------------------------------------------
(* The server.                                                              *)

Hears(m) ==
  /\ toServer # <<>> /\ Head(toServer) = m /\ conn # "connecting"
  /\ ~server.over
  /\ toServer' = Tail(toServer)
  /\ UNCHANGED <<calls, dial, conn, parser, fields, told>>
Says(m) == toClient' = Append(toClient, m)

Offer == IF server.authenticated THEN "features-bind"
         ELSE IF OffersTLS /\ ~server.secure THEN "features-tls" ELSE "features-sasl"

ServerEnds ==
  /\ conn = "up" /\ ~server.over
  /\ server' = [server EXCEPT !.over = TRUE]
  /\ Says("end")
  /\ told' = [told EXCEPT !.cut = TRUE]
  /\ UNCHANGED <<calls, dial, conn, parser, fields, toServer, failures>>

ServerAnswers ==
  \/ /\ Hears("header")
     /\ server' = [server EXCEPT !.open = TRUE]
     /\ Says(Offer)
     /\ UNCHANGED failures
  \/ /\ Hears("starttls")
     /\ server' = [server EXCEPT !.secure = TRUE, !.open = FALSE]
     /\ Says("proceed")
     /\ UNCHANGED failures
  \/ /\ Hears("auth")
     /\ \/ /\ server' = [server EXCEPT !.authenticated = TRUE, !.open = FALSE]
           /\ Says("success")
           /\ UNCHANGED failures
        \/ /\ failures < MaxFailures
           /\ failures' = failures + 1
           /\ Says("failure")
           /\ UNCHANGED server
  \/ /\ Hears("bind")
     /\ Says("bound") \/ Says("bind-error")
     /\ UNCHANGED <<server, failures>>
  \/ /\ Hears("session")
     /\ Says("session") \/ Says("session-error")
     /\ UNCHANGED <<server, failures>>
  \/ /\ Hears("end")
     /\ server' = [server EXCEPT !.over = TRUE, !.ends = More(@)]
     /\ Says("end")
     /\ UNCHANGED failures

(* After its end the server only listens for ours.                          *)
ServerIgnores ==
  /\ server.over /\ toServer # <<>>
  /\ server' = [server EXCEPT !.ends = IF Head(toServer) = "end" THEN More(@) ELSE @]
  /\ toServer' = Tail(toServer)
  /\ UNCHANGED <<calls, dial, conn, parser, fields, toClient, failures, told>>

-----------------------------------------------------------------------------
(* What the client makes of it.                                             *)

(* conn "up", and the next thing that is read.                              *)
Takes(ms) ==
  /\ conn = "up"
  /\ toClient # <<>> /\ Head(toClient) \in ms
  /\ toClient' = Tail(toClient)
  /\ UNCHANGED <<calls, server, failures>>
Reads(ms) == parser \in {"waiting", "open"} /\ Takes(ms)

(* Every connect_client has left a hook that feeds the parser.  If there    *)
(* are two, all data arrives twice: the second header is a tag that is      *)
(* never closed, or, with its XML declaration, an error.                    *)
FedTwice == parser' \in IF calls > 1 THEN {"garbled", "breaking"} ELSE {"open"}

(* Mistakes: bind does not wait for sasl, the stream is not reopened when   *)
(* it is secure, the end is answered even if it was ours.                   *)
HandleFeaturesBindFirst ==
  /\ Reads({"features-tls", "features-sasl", "features-bind"})
  /\ FedTwice
  /\ Send(IF bound THEN "auth" ELSE "bind")
  /\ UNCHANGED <<dial, conn, fields, told>>

HandleProceedNoReopen ==
  /\ Reads({"proceed"})
  /\ secure' = TRUE
  /\ UNCHANGED <<dial, conn, parser, closed, authenticated, bound, binding, toServer, told>>

HandleEndAnswersAlways ==
  /\ Reads({"end"})
  /\ closed' = TRUE
  /\ Send("end")
  /\ conn' = "down"
  /\ Disconnected(told)
  /\ UNCHANGED <<parser, secure, authenticated, bound, binding>>

(* The stream is opened and its features go to the plugins: tls takes them  *)
(* and stops, if LuaSec is there and has given the connection a starttls,   *)
(* else sasl takes them and stops, else bind asks once, and session hooks   *)
(* on bind-success if the session is not optional.  Header and features may *)
(* arrive together or not.                                                  *)
HandleFeatures ==
  /\ Reads({"features-tls", "features-sasl", "features-bind"})
  /\ FedTwice
  /\ \/ /\ calls > 1
        /\ UNCHANGED <<toServer, binding>>
     \/ /\ ~authenticated
        /\ Send("auth") \/ (Head(toClient) = "features-tls" /\ Send("starttls"))
        /\ UNCHANGED binding
     \/ /\ authenticated
        /\ IF bound THEN UNCHANGED toServer ELSE Send("bind")
        /\ binding' = (binding \/ (Head(toClient) = "features-bind" /\ NeedsSession))
  /\ UNCHANGED <<dial, conn, closed, secure, authenticated, bound, told>>

(* The handshake is done, or fails and takes the connection with it.        *)
HandleProceed ==
  /\ Reads({"proceed"})
  /\ \/ secure' = TRUE /\ Reopen /\ UNCHANGED <<conn, dial, told>>
     \/ conn' = "down" /\ Disconnected([told EXCEPT !.cut = TRUE])
        /\ UNCHANGED <<secure, parser, toServer>>
  /\ UNCHANGED <<closed, authenticated, bound, binding>>

HandleSuccess ==
  /\ Reads({"success"})
  /\ authenticated' = TRUE
  /\ Reopen
  /\ UNCHANGED <<dial, conn, closed, secure, bound, binding, told>>

(* wrapper.lua says "disconnected" although the connection is up, and the   *)
(* stream is reopened as after a success.                                   *)
HandleFailure ==
  /\ Reads({"failure"})
  /\ Disconnected([told EXCEPT !.failed = TRUE])
  /\ Reopen
  /\ UNCHANGED <<conn, fields>>

(* bind-success goes to the session plugin if it has hooked, and only else  *)
(* to the hook that says "ready".                                           *)
HandleBound ==
  /\ Reads({"bound"})
  /\ bound' = TRUE
  /\ IF binding
       THEN Send("session") /\ UNCHANGED told
       ELSE told' = [told EXCEPT !.ready = More(@)] /\ UNCHANGED toServer
  /\ UNCHANGED <<dial, conn, parser, closed, secure, authenticated, binding>>

HandleSession ==
  /\ Reads({"session"})
  /\ told' = [told EXCEPT !.ready = More(@)]
  /\ UNCHANGED <<dial, conn, parser, fields, toServer>>

HandleError ==
  /\ Reads({"bind-error", "session-error"})
  /\ told' = [told EXCEPT !.failed = TRUE]
  /\ UNCHANGED <<dial, conn, parser, fields, toServer>>

(* streamclosed: say goodbye unless that is done, and close.  Fed twice, the*)
(* end may close the second header and then the first.                      *)
HandleEnd ==
  /\ Takes({"end"}) /\ parser \in {"waiting", "open", "garbled"}
  /\ closed' = TRUE
  /\ IF closed THEN UNCHANGED toServer ELSE Send("end")
  /\ conn' = "down"
  /\ Disconnected(told)
  /\ UNCHANGED <<parser, secure, authenticated, bound, binding>>

(* Data that comes to nothing: any in a garbled stream, where it is inside  *)
(* of the second header, an error and a close in a broken one.              *)
NothingParses ==
  /\ conn = "up"
  /\ \/ /\ parser = "breaking"
        /\ UNCHANGED toClient
     \/ /\ parser \in {"broken", "garbled"}
        /\ toClient # <<>>
        /\ toClient' = Tail(toClient)
  /\ IF parser = "garbled"
       THEN UNCHANGED <<parser, closed, told, toServer, conn, dial>>
       ELSE parser' = "broken" /\ CloseWith(told)
  /\ UNCHANGED <<calls, secure, authenticated, bound, binding, server, failures>>

Receive ==
  \/ HandleFeatures \/ HandleProceed \/ HandleSuccess \/ HandleFailure \/ HandleBound
  \/ HandleSession \/ HandleError \/ HandleEnd \/ NothingParses

Server == ServerAnswers \/ ServerIgnores

Next ==
  \/ connect_client \/ Close
  \/ SrvAnswer \/ StartConnect \/ StartFails \/ Connected \/ Lost
  \/ Server \/ ServerEnds
  \/ Receive

(* The application keeps calling step(); a lookup ends, a connection attempt*)
(* ends; the server answers what it hears.                                  *)
Fairness ==
  /\ WF_vars(SrvAnswer) /\ WF_vars(StartConnect \/ StartFails) /\ WF_vars(Connected)
  /\ WF_vars(Receive) /\ WF_vars(Server)

Spec == Init /\ [][Next]_vars /\ Fairness
-----------------------------------------------------------------------------
(* Properties.                                                              *)

(* An application that has not closed hears "disconnected" before any       *)
(* "connected" only when every host of the SRV answer has been tried.       *)
EveryHostIsTried ==
  calls = 1 /\ told.disconnected > 0 /\ told.connected = 0 /\ ~told.left => srv_choice >= hosts

(* "ready" is said once, and of a stream that the server has authenticated  *)
(* and bound, whatever flags an earlier connection has left.                *)
ReadyIsEarned ==
  /\ told.ready <= 1
  /\ told.ready = 1 => server.authenticated /\ authenticated /\ bound

(* Closing from both sides at once sends the end of the stream once.        *)
Ends(q) == {i \in 1..Len(q) : q[i] = "end"}
OneEnd == \A i, j \in Ends(toServer) : i = j /\ server.ends = 0

(* Connecting for the first time comes to something: ready, or an event     *)
(* that says why not.                                                       *)
Settles ==
  calls = 1 ~> (calls > 1 \/ told.ready > 0 \/ told.disconnected > 0 \/ told.failed \/ told.left)

(* README.md, line 70: 'The first event is "ready" when the connection has  *)
(* been established.'  A connection that nobody closes and no one refuses   *)
(* becomes ready.                                                           *)
ReadyComes ==
  conn = "up" ~> (told.ready > 0 \/ told.failed \/ told.left \/ told.cut)
=============================================================================
