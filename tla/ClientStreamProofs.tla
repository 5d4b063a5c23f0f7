-------------------------- MODULE ClientStreamProofs --------------------------
(***************************************************************************)
(* What a stream of ClientStream promises its application, for any number  *)
(* of connections, of hosts and of failed authentications.                 *)
(***************************************************************************)
EXTENDS ClientStream, SequenceTheorems, TLAPS

(* Whom a connection is still for.  While one is tried or up nobody looks   *)
(* for another host; of the first connect_client there is one connection    *)
(* that comes up, and nothing is left of any flag before.                   *)
DialInv ==
  /\ conn \in {"connecting", "up"} => ~asked /\ ~starting
  /\ conn = "up" => ~srv
  /\ asked => ~starting /\ hosts = 0
  /\ calls = 0 => conn = "none" /\ ~asked /\ ~starting /\ hosts = 0
  /\ calls = 1 /\ asked => conn = "none" /\ told.disconnected = 0
  /\ calls = 1 /\ told.connected > 0 =>
       ~srv /\ ~starting /\ ~asked /\ conn \in {"up", "down"}
  /\ calls = 1 /\ told.connected = 0 => conn # "up"

(* Hosts that are left are still going to be tried.                         *)
HostsInv ==
  calls = 1 /\ srv_choice < hosts /\ told.connected = 0 /\ ~told.left =>
    srv /\ told.disconnected = 0

(* The end of the stream is on its way once or was heard, and only if the   *)
(* stream is closed.                                                        *)
EndsOnce(q) == \A i, k \in 1..Len(q) : q[i] = "end" /\ q[k] = "end" => i = k
Endless(q) == \A i \in 1..Len(q) : q[i] # "end"
EndInv ==
  /\ EndsOnce(toServer)
  /\ Endless(toServer) \/ server.ends = 0
  /\ ~closed => Endless(toServer) /\ server.ends = 0

Only(q, M) == \A i \in 1..Len(q) : q[i] \in M
Talks(q) == \E i \in 1..Len(q) : q[i] # "end"
TalksOnce(q) == \A i, k \in 1..Len(q) : q[i] # "end" /\ q[k] # "end" => i = k

(* A connection that is tried.                                              *)
TriedInv == conn = "connecting" => toClient = <<>> /\ Only(toServer, {"end"})

(* The first connect_client: client and server take turns, and what is on   *)
(* its way tells how far they are.                                          *)
TurnsInv ==
  calls = 1 /\ conn = "up" =>
    /\ TalksOnce(toServer) /\ TalksOnce(toClient)
    /\ ~(Talks(toServer) /\ Talks(toClient))
    /\ told.ready > 0 => ~Talks(toServer) /\ ~Talks(toClient)
    /\ ~server.authenticated => ~authenticated /\ Only(toClient, ServerSays \ {"success"})
    /\ ~authenticated => ~bound
    /\ ~authenticated =>
         /\ Only(toServer, ClientSays \ {"bind", "session"})
         /\ Only(toClient, ServerSays \ {"bound", "bind-error", "session", "session-error"})
    /\ ~bound =>
         /\ Only(toServer, ClientSays \ {"session"})
         /\ Only(toClient, ServerSays \ {"session", "session-error"})

ReadyInv ==
  /\ calls = 0 \/ (calls = 1 /\ told.connected = 0) => ~authenticated /\ ~bound /\ told.ready = 0
  /\ calls # 1 => told.ready = 0
  /\ ReadyIsEarned

(* A later one: the stream is fed twice, and nothing comes after the first  *)
(* features.                                                                *)
FedInv ==
  calls > 1 /\ conn = "up" /\ parser \in {"waiting", "open"} =>
    /\ parser = "waiting"
    /\ Only(toServer, {"header", "end"})
    /\ Only(toClient, {"features-tls", "features-sasl", "features-bind", "end"})

CInv ==
  /\ TypeOK /\ DialInv /\ HostsInv /\ EndInv /\ TriedInv /\ TurnsInv /\ ReadyInv /\ FedInv

-----------------------------------------------------------------------------
(* Queues.                                                                  *)

Adds(q, m, p) ==
  /\ \A M : Only(p, M) <=> Only(q, M) /\ m \in M
  /\ Talks(p) <=> Talks(q) \/ m # "end"
  /\ TalksOnce(q) /\ (m = "end" \/ ~Talks(q)) => TalksOnce(p)

LEMMA Sent ==
  ASSUME NEW A, NEW q \in Seq(A), NEW m \in A, NEW p, p = Append(q, m)
  PROVE  p \in Seq(A) /\ Adds(q, m, p)
<1>1. /\ p \in Seq(A) /\ Len(p) = Len(q) + 1 /\ Len(q) \in Nat
      /\ \A k \in 1..Len(q) : p[k] = q[k]
      /\ p[Len(q) + 1] = m
  BY AppendProperties
<1>2. \A M : Only(p, M) <=> Only(q, M) /\ m \in M
  BY <1>1 DEF Only
<1>3. Talks(p) <=> Talks(q) \/ m # "end"
  BY <1>1 DEF Talks
<1>4. TalksOnce(q) /\ (m = "end" \/ ~Talks(q)) => TalksOnce(p)
  BY <1>1 DEF TalksOnce, Talks
<1> QED BY <1>1, <1>2, <1>3, <1>4 DEF Adds

LEMMA Heeded ==
  ASSUME NEW A, NEW q \in Seq(A), q # <<>>, NEW p, p = Tail(q)
  PROVE  /\ p \in Seq(A) /\ Head(q) \in A
         /\ \A M : Only(q, M) => Only(p, M) /\ Head(q) \in M
         /\ Talks(p) \/ Head(q) # "end" => Talks(q)
         /\ TalksOnce(q) => TalksOnce(p) /\ (Head(q) # "end" => ~Talks(p))
<1>1. /\ p \in Seq(A) /\ Head(q) = q[1] /\ q[1] \in A
      /\ Len(q) = Len(p) + 1 /\ Len(p) \in Nat
      /\ \A k \in 1..Len(p) : k + 1 \in 1..Len(q) /\ p[k] = q[k + 1]
      /\ 1 \in 1..Len(q)
  BY HeadTailProperties
<1>2. ASSUME NEW M, Only(q, M) PROVE Only(p, M) /\ Head(q) \in M
  <2>1. ASSUME NEW k \in 1..Len(p) PROVE p[k] \in M
    <3>1. k + 1 \in 1..Len(q) /\ p[k] = q[k + 1]
      BY <1>1
    <3> QED BY <1>2, <3>1 DEF Only
  <2>2. Head(q) \in M
    BY <1>1, <1>2 DEF Only
  <2> QED BY <2>1, <2>2 DEF Only
<1>3. ASSUME Talks(p) \/ Head(q) # "end" PROVE Talks(q)
  <2>1. CASE Head(q) # "end"
    BY <1>1, <2>1 DEF Talks
  <2>2. CASE Talks(p)
    <3>1. PICK k \in 1..Len(p) : p[k] # "end"
      BY <2>2 DEF Talks
    <3>2. k + 1 \in 1..Len(q) /\ p[k] = q[k + 1]
      BY <1>1
    <3> QED BY <3>1, <3>2 DEF Talks
  <2> QED BY <1>3, <2>1, <2>2
<1>4. ASSUME TalksOnce(q) PROVE TalksOnce(p) /\ (Head(q) # "end" => ~Talks(p))
  <2>1. ASSUME NEW i \in 1..Len(p), NEW k \in 1..Len(p), p[i] # "end", p[k] # "end"
        PROVE  i = k
    <3>1. /\ i + 1 \in 1..Len(q) /\ p[i] = q[i + 1]
          /\ k + 1 \in 1..Len(q) /\ p[k] = q[k + 1]
      BY <1>1
    <3>2. i + 1 = k + 1
      BY <1>4, <2>1, <3>1 DEF TalksOnce
    <3> QED BY <3>2
  <2>2. ASSUME Head(q) # "end", NEW k \in 1..Len(p), p[k] # "end" PROVE FALSE
    <3>1. k + 1 \in 1..Len(q) /\ p[k] = q[k + 1]
      BY <1>1
    <3>2. k + 1 = 1
      BY <1>1, <1>4, <2>2, <3>1 DEF TalksOnce
    <3> QED BY <3>2
  <2> QED BY <2>1, <2>2 DEF TalksOnce, Talks
<1> QED BY <1>1, <1>2, <1>3, <1>4

LEMMA Silent ==
  /\ \A M : Only(<<>>, M)
  /\ ~Talks(<<>>) /\ TalksOnce(<<>>)
BY DEF Only, Talks, TalksOnce

LEMMA OnlyMore ==
  ASSUME NEW q, NEW M, NEW N, Only(q, M), M \subseteq N
  PROVE  Only(q, N)
BY DEF Only

(* The ends in a queue.                                                     *)
LEMMA EndsSay ==
  EndsOnce(toServer) /\ (Endless(toServer) \/ server.ends = 0) => OneEnd
BY DEF OneEnd, Ends, Endless, EndsOnce

LEMMA EndSent ==
  ASSUME NEW A, NEW q \in Seq(A), NEW m \in A, NEW p, p = Append(q, m)
  PROVE  /\ EndsOnce(q) /\ (m # "end" \/ Endless(q)) => EndsOnce(p)
         /\ Endless(p) <=> Endless(q) /\ m # "end"
<1>1. /\ Len(p) = Len(q) + 1 /\ Len(q) \in Nat
      /\ \A k \in 1..Len(q) : p[k] = q[k]
      /\ p[Len(q) + 1] = m
  BY AppendProperties
<1> QED BY <1>1 DEF EndsOnce, Endless

LEMMA EndHeeded ==
  ASSUME NEW A, NEW q \in Seq(A), q # <<>>, NEW p, p = Tail(q)
  PROVE  /\ EndsOnce(q) => EndsOnce(p) /\ (Head(q) = "end" => Endless(p))
         /\ Endless(q) => Endless(p) /\ Head(q) # "end"
<1>1. /\ Head(q) = q[1]
      /\ Len(q) = Len(p) + 1 /\ Len(p) \in Nat
      /\ \A k \in 1..Len(p) : k + 1 \in 1..Len(q) /\ p[k] = q[k + 1]
      /\ 1 \in 1..Len(q)
  BY HeadTailProperties
<1>2. ASSUME EndsOnce(q) PROVE EndsOnce(p) /\ (Head(q) = "end" => Endless(p))
  <2>1. ASSUME NEW i \in 1..Len(p), NEW k \in 1..Len(p), p[i] = "end", p[k] = "end"
        PROVE  i = k
    <3>1. /\ i + 1 \in 1..Len(q) /\ p[i] = q[i + 1]
          /\ k + 1 \in 1..Len(q) /\ p[k] = q[k + 1]
      BY <1>1
    <3>2. i + 1 = k + 1
      BY <1>2, <2>1, <3>1 DEF EndsOnce
    <3> QED BY <3>2
  <2>2. ASSUME Head(q) = "end", NEW k \in 1..Len(p), p[k] = "end" PROVE FALSE
    <3>1. k + 1 \in 1..Len(q) /\ p[k] = q[k + 1]
      BY <1>1
    <3>2. k + 1 = 1
      BY <1>1, <1>2, <2>2, <3>1 DEF EndsOnce
    <3> QED BY <3>2
  <2> QED BY <2>1, <2>2 DEF EndsOnce, Endless
<1>3. ASSUME Endless(q) PROVE Endless(p) /\ Head(q) # "end"
  <2>1. ASSUME NEW k \in 1..Len(p) PROVE p[k] # "end"
    <3>1. k + 1 \in 1..Len(q) /\ p[k] = q[k + 1]
      BY <1>1
    <3> QED BY <1>3, <3>1 DEF Endless
  <2> QED BY <1>1, <1>3, <2>1 DEF Endless
<1> QED BY <1>2, <1>3

-----------------------------------------------------------------------------
(* Types.                                                                   *)

DialOK ==
  /\ hosts \in 0..MaxHosts /\ srv_choice \in 0..(MaxHosts + 1)
  /\ asked \in BOOLEAN /\ srv \in BOOLEAN /\ starting \in BOOLEAN
FieldsOK ==
  /\ closed \in BOOLEAN /\ secure \in BOOLEAN /\ authenticated \in BOOLEAN
  /\ bound \in BOOLEAN /\ binding \in BOOLEAN
WireOK ==
  /\ conn \in {"none", "connecting", "up", "down"}
  /\ parser \in {"waiting", "open", "garbled", "breaking", "broken"}
  /\ toServer \in Seq(ClientSays) /\ toClient \in Seq(ServerSays)
ServerOK ==
  /\ server \in [open : BOOLEAN, secure : BOOLEAN, authenticated : BOOLEAN,
                over : BOOLEAN, ends : 0..2]
  /\ failures \in 0..MaxFailures
SaidOK == calls \in 0..MaxConnects /\ told \in Heard

LEMMA TypeParts == TypeOK <=> DialOK /\ FieldsOK /\ WireOK /\ ServerOK /\ SaidOK
BY DEF TypeOK, DialOK, FieldsOK, WireOK, ServerOK, SaidOK

LEMMA TypePartsNext == TypeOK' <=> DialOK' /\ FieldsOK' /\ WireOK' /\ ServerOK' /\ SaidOK'
BY DEF TypeOK, DialOK, FieldsOK, WireOK, ServerOK, SaidOK

LEMMA MoreTypes == \A n \in 0..2 : More(n) \in 0..2 /\ More(n) > 0
BY DEF More

LEMMA HeardTypes ==
  ASSUME NEW t \in Heard
  PROVE  /\ t.connected \in 0..2 /\ t.ready \in 0..2 /\ t.disconnected \in 0..2
         /\ t.failed \in BOOLEAN /\ t.left \in BOOLEAN /\ t.cut \in BOOLEAN
         /\ [t EXCEPT !.connected = More(t.connected)] \in Heard
         /\ [t EXCEPT !.ready = More(t.ready)] \in Heard
         /\ [t EXCEPT !.disconnected = More(t.disconnected)] \in Heard
         /\ [t EXCEPT !.connected = More(t.connected),
                  !.disconnected = More(t.disconnected)] \in Heard
         /\ [t EXCEPT !.failed = TRUE] \in Heard
         /\ [t EXCEPT !.left = TRUE] \in Heard
         /\ [t EXCEPT !.cut = TRUE] \in Heard
BY MoreTypes DEF Heard

(* What a disconnected event changes.                                       *)
LEMMA DisconnectedSays ==
  ASSUME DialOK, NEW t \in Heard, Disconnected(t)
  PROVE  /\ DialOK' /\ told' \in Heard
         /\ asked' = asked /\ hosts' = hosts /\ srv' = srv
         /\ told'.connected = t.connected /\ told'.ready = t.ready /\ told'.left = t.left
         /\ ~srv => starting' = FALSE
         /\ srv /\ srv_choice < hosts => told'.disconnected = t.disconnected
         /\ srv_choice' < hosts => srv_choice < hosts
         /\ srv_choice < hosts /\ ~srv => srv_choice' = srv_choice
<1>1. CASE srv /\ srv_choice < hosts
  <2>1. /\ srv_choice' = srv_choice + 1 /\ starting' = TRUE /\ told' = t
        /\ UNCHANGED <<asked, hosts, srv>>
    BY <1>1 DEF Disconnected
  <2>2. DialOK' /\ (srv_choice' < hosts => srv_choice < hosts)
    BY <1>1, <2>1, ClientAssumption DEF DialOK
  <2> QED BY <1>1, <2>1, <2>2
<1>2. CASE ~(srv /\ srv_choice < hosts)
  <2>1. /\ told' = [t EXCEPT !.disconnected = More(t.disconnected)] /\ starting' = FALSE
        /\ UNCHANGED <<asked, hosts, srv_choice, srv>>
    BY <1>2 DEF Disconnected
  <2>2. told'.connected = t.connected /\ told'.ready = t.ready /\ told'.left = t.left
    BY <2>1 DEF Heard
  <2>3. told' \in Heard
    <3>1. [t EXCEPT !.disconnected = More(t.disconnected)] \in Heard
      BY HeardTypes, Zenon
    <3> QED BY <2>1, <3>1
  <2>4. DialOK'
    BY <2>1 DEF DialOK
  <2> QED BY <1>2, <2>1, <2>2, <2>3, <2>4
<1> QED BY <1>1, <1>2

(* What is sent is on its way, or lost.                                     *)
LEMMA SendSays ==
  ASSUME WireOK, NEW m \in ClientSays, Send(m)
  PROVE  /\ toServer' \in Seq(ClientSays)
         /\ toServer' = toServer \/ toServer' = Append(toServer, m)
         /\ conn # "down" => toServer' = Append(toServer, m)
BY Sent DEF Send, WireOK

(* What a close changes.                                                    *)
LEMMA CloseSays ==
  ASSUME DialOK, FieldsOK, WireOK, NEW t \in Heard, CloseWith(t)
  PROVE  /\ DialOK' /\ told' \in Heard /\ closed' = TRUE
         /\ conn' \in {conn, "down"} /\ toServer' \in Seq(ClientSays)
         /\ asked' = asked /\ hosts' = hosts
         /\ toServer' = toServer \/ (~closed /\ toServer' = Append(toServer, "end"))
         /\ told'.ready = t.ready /\ told'.left = t.left
         /\ \/ UNCHANGED <<conn, dial>> /\ told' = t
            \/ conn' = "down" /\ closed /\ Disconnected(t) /\ conn # "none"
            \/ /\ conn = "connecting" /\ conn' = "down" /\ srv' = FALSE
               /\ UNCHANGED <<asked, hosts, srv_choice, starting>>
               /\ told'.connected > 0
<1>1. CASE ~closed
  <2>1. DialOK' /\ told' = t /\ UNCHANGED <<conn, dial>> /\ closed' = TRUE
    BY <1>1 DEF CloseWith, dial, DialOK
  <2>2. /\ toServer' \in Seq(ClientSays)
        /\ toServer' = toServer \/ toServer' = Append(toServer, "end")
    BY <1>1, SendSays DEF CloseWith, ClientSays, WireOK
  <2> QED BY <1>1, <2>1, <2>2 DEF dial
<1>2. CASE closed
  <2>0. closed' = TRUE /\ toServer' = toServer /\ toServer \in Seq(ClientSays)
    BY <1>2 DEF CloseWith, FieldsOK, WireOK
  <2>1. CASE conn = "none"
    BY <1>2, <2>0, <2>1 DEF CloseWith, dial, DialOK
  <2>2. CASE conn = "connecting" /\ toServer # <<>>
    <3>1. /\ conn' = "down" /\ srv' = FALSE
          /\ told' = [t EXCEPT !.connected = More(t.connected),
                               !.disconnected = More(t.disconnected)]
          /\ UNCHANGED <<asked, hosts, srv_choice, starting>>
      BY <1>2, <2>2 DEF CloseWith
    <3>2. told'.connected > 0 /\ told'.ready = t.ready /\ told'.left = t.left /\ told' \in Heard
      <4>0. [t EXCEPT !.connected = More(t.connected),
                    !.disconnected = More(t.disconnected)] \in Heard
        BY HeardTypes, Zenon
      <4>1. told' \in Heard /\ More(t.connected) > 0
        BY <3>1, <4>0, MoreTypes DEF Heard
      <4>2. told'.connected = More(t.connected) /\ told'.ready = t.ready /\ told'.left = t.left
        BY <3>1 DEF Heard
      <4> QED BY <4>1, <4>2
    <3> QED BY <2>0, <2>2, <3>1, <3>2 DEF DialOK
  <2>3. CASE conn # "none" /\ ~(conn = "connecting" /\ toServer # <<>>)
    <3>1. conn' = "down" /\ Disconnected(t)
      BY <1>2, <2>3 DEF CloseWith
    <3> QED BY <1>2, <2>0, <2>3, <3>1, DisconnectedSays
  <2> QED BY <2>1, <2>2, <2>3
<1> QED BY <1>1, <1>2

(* The events told and the other calls of the client, action by action.     *)
LEMMA ToldTypes ==
  ASSUME TypeOK
  PROVE  /\ NothingHeard \in Heard /\ told \in Heard
         /\ [told EXCEPT !.connected = More(told.connected)] \in Heard
         /\ [told EXCEPT !.ready = More(told.ready)] \in Heard
         /\ [told EXCEPT !.failed = TRUE] \in Heard
         /\ [told EXCEPT !.left = TRUE] \in Heard
         /\ [told EXCEPT !.cut = TRUE] \in Heard
<1>1. told \in Heard
  BY DEF TypeOK
<1>2. NothingHeard \in Heard
  BY DEF NothingHeard, Heard
<1> QED BY <1>1, <1>2, HeardTypes, Zenon

LEMMA InitTypes == Init => TypeOK
<1> SUFFICES ASSUME Init PROVE DialOK /\ FieldsOK /\ WireOK /\ ServerOK /\ SaidOK
  BY TypeParts
<1>1. NothingHeard \in Heard
  BY DEF NothingHeard, Heard
<1>2. DialOK /\ FieldsOK /\ SaidOK
  <2>1. 0 \in 0..MaxHosts /\ 0 \in 0..(MaxHosts + 1) /\ 0 \in 0..MaxConnects
    BY ClientAssumption
  <2> QED BY <1>1, <2>1 DEF Init, DialOK, FieldsOK, SaidOK
<1>3. WireOK /\ ServerOK
  BY ClientAssumption DEF Init, WireOK, ServerOK, NewServer
<1> QED BY <1>2, <1>3

LEMMA DialTypes ==
  ASSUME TypeOK, connect_client \/ SrvAnswer \/ StartConnect \/ StartFails
  PROVE  TypeOK'
<1>1. DialOK /\ FieldsOK /\ WireOK /\ ServerOK /\ SaidOK
  BY TypeParts
<1> SUFFICES DialOK' /\ FieldsOK' /\ WireOK' /\ ServerOK' /\ SaidOK'
  BY TypePartsNext
<1>2. CASE connect_client
  <2>1. SaidOK'
    BY <1>1, <1>2, ToldTypes, ClientAssumption DEF connect_client, SaidOK
  <2>2. DialOK' /\ FieldsOK'
    BY <1>1, <1>2 DEF connect_client, DialOK, FieldsOK, fields
  <2>3. WireOK' /\ ServerOK'
    BY <1>1, <1>2 DEF connect_client, WireOK, ServerOK
  <2> QED BY <2>1, <2>2, <2>3
<1>3. CASE SrvAnswer
  <2>1. DialOK'
    <3>1. 1 \in 0..(MaxHosts + 1)
      BY ClientAssumption
    <3>2. /\ asked' = FALSE /\ starting' = TRUE
          /\ hosts' \in 0..MaxHosts /\ srv_choice' \in 0..(MaxHosts + 1)
      BY <1>1, <1>3, <3>1 DEF SrvAnswer, DialOK
    <3>3. srv' \in BOOLEAN
      BY <1>1, <1>3 DEF SrvAnswer, DialOK
    <3> QED BY <3>2, <3>3 DEF DialOK
  <2>2. FieldsOK' /\ WireOK' /\ ServerOK' /\ SaidOK'
    BY <1>1, <1>3 DEF SrvAnswer, FieldsOK, fields, WireOK, ServerOK, SaidOK
  <2> QED BY <2>1, <2>2
<1>4. CASE StartConnect
  <2>1. DialOK' /\ FieldsOK' /\ SaidOK'
    BY <1>1, <1>4 DEF StartConnect, DialOK, FieldsOK, fields, SaidOK
  <2>2. WireOK' /\ ServerOK'
    BY <1>1, <1>4 DEF StartConnect, WireOK, ServerOK, NewServer
  <2> QED BY <2>1, <2>2
<1>5. CASE StartFails
  <2>1. DialOK' /\ told' \in Heard
    BY <1>1, <1>5, DisconnectedSays DEF StartFails, SaidOK
  <2>2. FieldsOK' /\ WireOK' /\ ServerOK' /\ SaidOK'
    BY <1>1, <1>5, <2>1 DEF StartFails, FieldsOK, fields, WireOK, ServerOK, SaidOK
  <2> QED BY <2>1, <2>2
<1> QED BY <1>2, <1>3, <1>4, <1>5

LEMMA HeadersSay ==
  ASSUME TypeOK
  PROVE  /\ Headers \in Seq(ClientSays) /\ Len(Headers) = calls
         /\ \A i \in 1..calls : Headers[i] = "header"
<1>1. calls \in Nat
  BY ClientAssumption DEF TypeOK
<1>2. Headers \in [1..calls -> ClientSays]
  BY DEF Headers, ClientSays
<1> QED BY <1>1, <1>2 DEF Headers

LEMMA ConnTypes ==
  ASSUME TypeOK, Connected \/ Lost \/ Close
  PROVE  TypeOK'
<1>1. DialOK /\ FieldsOK /\ WireOK /\ ServerOK /\ SaidOK
  BY TypeParts
<1> SUFFICES DialOK' /\ FieldsOK' /\ WireOK' /\ ServerOK' /\ SaidOK'
  BY TypePartsNext
<1>2. CASE Connected
  <2>1. toServer' \in Seq(ClientSays)
    BY <1>1, <1>2, HeadersSay, ConcatProperties DEF Connected, WireOK
  <2>2. told' \in Heard
    BY <1>2, ToldTypes DEF Connected
  <2>3. DialOK' /\ FieldsOK' /\ SaidOK'
    BY <1>1, <1>2, <2>2 DEF Connected, DialOK, FieldsOK, fields, SaidOK
  <2>4. WireOK' /\ ServerOK'
    BY <1>1, <1>2, <2>1 DEF Connected, WireOK, ServerOK
  <2> QED BY <2>3, <2>4
<1>3. CASE Lost
  <2>1. DialOK' /\ told' \in Heard
    BY <1>1, <1>3, DisconnectedSays, ToldTypes DEF Lost
  <2>2. FieldsOK' /\ WireOK' /\ ServerOK' /\ SaidOK'
    BY <1>1, <1>3, <2>1 DEF Lost, FieldsOK, fields, WireOK, ServerOK, SaidOK
  <2> QED BY <2>1, <2>2
<1>4. CASE Close
  <2>1. /\ DialOK' /\ told' \in Heard /\ closed' = TRUE
        /\ conn' \in {conn, "down"} /\ toServer' \in Seq(ClientSays)
    BY <1>1, <1>4, CloseSays, ToldTypes DEF Close
  <2>2. FieldsOK' /\ SaidOK'
    BY <1>1, <1>4, <2>1 DEF Close, FieldsOK, SaidOK
  <2>3. WireOK' /\ ServerOK'
    BY <1>1, <1>4, <2>1 DEF Close, WireOK, ServerOK
  <2> QED BY <2>1, <2>2, <2>3
<1> QED BY <1>2, <1>3, <1>4

LEMMA ServerTypes ==
  ASSUME TypeOK, Server \/ ServerEnds
  PROVE  TypeOK'
<1>1. DialOK /\ FieldsOK /\ WireOK /\ ServerOK /\ SaidOK
  BY TypeParts
<1> SUFFICES DialOK' /\ FieldsOK' /\ WireOK' /\ ServerOK' /\ SaidOK'
  BY TypePartsNext
<1>2. toServer # <<>> => Tail(toServer) \in Seq(ClientSays)
  BY <1>1, Heeded DEF WireOK
<1>3. ASSUME NEW m \in ServerSays, Says(m) PROVE toClient' \in Seq(ServerSays)
  BY <1>1, <1>3, Sent DEF Says, WireOK
<1>4. /\ [server EXCEPT !.open = TRUE] \in [open : BOOLEAN, secure : BOOLEAN,
            authenticated : BOOLEAN, over : BOOLEAN, ends : 0..2]
      /\ [server EXCEPT !.secure = TRUE, !.open = FALSE] \in [open : BOOLEAN, secure : BOOLEAN,
            authenticated : BOOLEAN, over : BOOLEAN, ends : 0..2]
      /\ [server EXCEPT !.authenticated = TRUE, !.open = FALSE] \in [open : BOOLEAN,
            secure : BOOLEAN, authenticated : BOOLEAN, over : BOOLEAN, ends : 0..2]
      /\ [server EXCEPT !.over = TRUE, !.ends = More(server.ends)] \in [open : BOOLEAN,
            secure : BOOLEAN, authenticated : BOOLEAN, over : BOOLEAN, ends : 0..2]
      /\ [server EXCEPT !.over = TRUE] \in [open : BOOLEAN, secure : BOOLEAN,
            authenticated : BOOLEAN, over : BOOLEAN, ends : 0..2]
      /\ \A n \in 0..2 : [server EXCEPT !.ends = n] \in [open : BOOLEAN, secure : BOOLEAN,
            authenticated : BOOLEAN, over : BOOLEAN, ends : 0..2]
      /\ More(server.ends) \in 0..2 /\ server.ends \in 0..2
  BY <1>1, MoreTypes DEF ServerOK
<1>5. CASE ServerEnds
  <2>1. toClient' \in Seq(ServerSays)
    BY <1>3, <1>5 DEF ServerEnds, ServerSays
  <2>2. told' \in Heard
    BY <1>5, ToldTypes DEF ServerEnds
  <2>3. DialOK' /\ FieldsOK' /\ SaidOK'
    BY <1>1, <1>5, <2>2 DEF ServerEnds, DialOK, dial, FieldsOK, fields, SaidOK
  <2>4. WireOK' /\ ServerOK'
    BY <1>1, <1>4, <1>5, <2>1 DEF ServerEnds, WireOK, ServerOK
  <2> QED BY <2>3, <2>4
<1>6. CASE ServerAnswers
  <2>1. PICK m : Hears(m)
    BY <1>6 DEF ServerAnswers
  <2>2. /\ DialOK' /\ FieldsOK' /\ SaidOK' /\ toServer' \in Seq(ClientSays)
        /\ UNCHANGED <<conn, parser>>
    BY <1>1, <1>2, <2>1 DEF Hears, DialOK, dial, FieldsOK, fields, SaidOK
  <2>3. toClient' \in Seq(ServerSays)
    <3>1. Offer \in ServerSays
      BY DEF Offer, ServerSays
    <3>2. PICK s \in ServerSays : Says(s)
      BY <1>6, <3>1 DEF ServerAnswers, ServerSays
    <3> QED BY <1>3, <3>2
  <2>4. server' \in [open : BOOLEAN, secure : BOOLEAN, authenticated : BOOLEAN,
                     over : BOOLEAN, ends : 0..2]
    BY <1>1, <1>4, <1>6 DEF ServerAnswers, ServerOK
  <2>5. failures' \in 0..MaxFailures
    BY <1>1, <1>6, ClientAssumption DEF ServerAnswers, ServerOK
  <2> QED BY <1>1, <2>2, <2>3, <2>4, <2>5 DEF WireOK, ServerOK
<1>7. CASE ServerIgnores
  <2>1. toServer' \in Seq(ClientSays)
    BY <1>2, <1>7 DEF ServerIgnores
  <2>2. server' \in [open : BOOLEAN, secure : BOOLEAN, authenticated : BOOLEAN,
                     over : BOOLEAN, ends : 0..2]
    <3>1. server' = [server EXCEPT !.ends = IF Head(toServer) = "end" THEN More(server.ends)
                                                                     ELSE server.ends]
      BY <1>7 DEF ServerIgnores
    <3> QED BY <1>4, <3>1
  <2>3. DialOK' /\ FieldsOK' /\ SaidOK'
    BY <1>1, <1>7 DEF ServerIgnores, DialOK, dial, FieldsOK, fields, SaidOK
  <2>4. WireOK' /\ ServerOK'
    BY <1>1, <1>7, <2>1, <2>2 DEF ServerIgnores, WireOK, ServerOK
  <2> QED BY <2>3, <2>4
<1> QED BY <1>5, <1>6, <1>7 DEF Server

(* What the next thing read changes.                                        *)
LEMMA TakeSays ==
  ASSUME TypeOK, NEW ms, Takes(ms)
  PROVE  /\ toClient' \in Seq(ServerSays) /\ Head(toClient) \in ms /\ Head(toClient) \in ServerSays
         /\ toClient # <<>> /\ toClient' = Tail(toClient)
         /\ conn = "up"
         /\ UNCHANGED <<calls, server, failures>>
<1>1. toClient \in Seq(ServerSays) /\ toClient # <<>>
  BY DEF TypeOK, Takes
<1>2. Tail(toClient) \in Seq(ServerSays) /\ Head(toClient) \in ServerSays
  BY <1>1, Heeded
<1> QED BY <1>1, <1>2 DEF Takes

LEMMA ReadSays ==
  ASSUME TypeOK, NEW ms, Reads(ms)
  PROVE  /\ toClient' \in Seq(ServerSays) /\ Head(toClient) \in ms /\ Head(toClient) \in ServerSays
         /\ toClient # <<>> /\ toClient' = Tail(toClient)
         /\ conn = "up" /\ parser \in {"waiting", "open"}
         /\ UNCHANGED <<calls, server, failures>>
BY TakeSays DEF Reads

LEMMA ReceiveTypes ==
  ASSUME TypeOK, Receive
  PROVE  TypeOK'
<1>1. DialOK /\ FieldsOK /\ WireOK /\ ServerOK /\ SaidOK
  BY TypeParts
<1> SUFFICES DialOK' /\ FieldsOK' /\ WireOK' /\ ServerOK' /\ SaidOK'
  BY TypePartsNext
<1>2. ASSUME NEW ms, Takes(ms), told' \in Heard,
             toServer' \in Seq(ClientSays), DialOK', FieldsOK',
             conn' \in {conn, "down"},
             parser' \in {"waiting", "open", "garbled", "breaking", "broken"}
      PROVE  DialOK' /\ FieldsOK' /\ WireOK' /\ ServerOK' /\ SaidOK'
  <2>1. toClient' \in Seq(ServerSays) /\ UNCHANGED <<calls, server, failures>>
    BY <1>2, TakeSays
  <2> QED BY <1>1, <1>2, <2>1 DEF WireOK, ServerOK, SaidOK
<1>3. \A m \in ClientSays : Send(m) => toServer' \in Seq(ClientSays)
  BY <1>1, SendSays
<1>4. UNCHANGED dial => DialOK'
  BY <1>1 DEF dial, DialOK
<1>5. UNCHANGED fields => FieldsOK'
  BY <1>1 DEF fields, FieldsOK
<1>6. UNCHANGED told => told' \in Heard
  BY ToldTypes
<1>7. UNCHANGED toServer => toServer' \in Seq(ClientSays)
  BY <1>1 DEF WireOK
<1>8. \A t \in Heard : Disconnected(t) => DialOK' /\ told' \in Heard
  BY <1>1, DisconnectedSays
<1>9. UNCHANGED conn => conn' \in {conn, "down"}
  OBVIOUS
<1>10. UNCHANGED parser => parser' \in {"waiting", "open", "garbled", "breaking", "broken"}
  BY <1>1 DEF WireOK
<1>11. CASE HandleFeatures
  <2>1. PICK ms : Takes(ms)
    BY <1>11 DEF HandleFeatures, Reads
  <2>2. toServer' \in Seq(ClientSays)
    BY <1>3, <1>7, <1>11 DEF HandleFeatures, ClientSays
  <2>3. binding' \in BOOLEAN
    BY <1>1, <1>11 DEF HandleFeatures, FieldsOK
  <2>4. FieldsOK'
    BY <1>1, <1>11, <2>3 DEF HandleFeatures, FieldsOK
  <2>5. parser' \in {"waiting", "open", "garbled", "breaking", "broken"}
    BY <1>11 DEF HandleFeatures, FedTwice
  <2> QED BY <1>2, <1>4, <1>6, <1>9, <1>11, <2>1, <2>2, <2>4, <2>5 DEF HandleFeatures
<1>12. CASE HandleProceed
  <2>1. PICK ms : Takes(ms)
    BY <1>12 DEF HandleProceed, Reads
  <2>2. toServer' \in Seq(ClientSays) /\ DialOK' /\ told' \in Heard
    BY <1>3, <1>4, <1>6, <1>7, <1>8, <1>12, ToldTypes DEF HandleProceed, Reopen, ClientSays
  <2>3. FieldsOK'
    BY <1>1, <1>12 DEF HandleProceed, FieldsOK
  <2>4. parser' \in {"waiting", "open", "garbled", "breaking", "broken"} /\ conn' \in {conn, "down"}
    BY <1>10, <1>12 DEF HandleProceed, Reopen
  <2> QED BY <1>2, <2>1, <2>2, <2>3, <2>4
<1>13. CASE HandleSuccess
  <2>1. PICK ms : Takes(ms)
    BY <1>13 DEF HandleSuccess, Reads
  <2>2. FieldsOK'
    BY <1>1, <1>13 DEF HandleSuccess, FieldsOK
  <2>3. toServer' \in Seq(ClientSays) /\ parser' = "waiting"
    BY <1>3, <1>13 DEF HandleSuccess, Reopen, ClientSays
  <2> QED BY <1>2, <1>4, <1>6, <1>9, <1>13, <2>1, <2>2, <2>3 DEF HandleSuccess
<1>14. CASE HandleFailure
  <2>1. PICK ms : Takes(ms)
    BY <1>14 DEF HandleFailure, Reads
  <2>2. toServer' \in Seq(ClientSays) /\ parser' = "waiting"
    BY <1>3, <1>14 DEF HandleFailure, Reopen, ClientSays
  <2>3. DialOK' /\ told' \in Heard
    BY <1>8, <1>14, ToldTypes DEF HandleFailure
  <2> QED BY <1>2, <1>5, <1>9, <1>14, <2>1, <2>2, <2>3 DEF HandleFailure
<1>15. CASE HandleBound
  <2>1. PICK ms : Takes(ms)
    BY <1>15 DEF HandleBound, Reads
  <2>2. FieldsOK'
    BY <1>1, <1>15 DEF HandleBound, FieldsOK
  <2>3. toServer' \in Seq(ClientSays) /\ told' \in Heard
    BY <1>3, <1>6, <1>7, <1>15, ToldTypes DEF HandleBound, ClientSays
  <2> QED BY <1>2, <1>4, <1>9, <1>10, <1>15, <2>1, <2>2, <2>3 DEF HandleBound
<1>16. CASE HandleSession
  <2>1. PICK ms : Takes(ms)
    BY <1>16 DEF HandleSession, Reads
  <2>2. told' \in Heard
    BY <1>16, ToldTypes DEF HandleSession
  <2> QED BY <1>2, <1>4, <1>5, <1>7, <1>9, <1>10, <1>16, <2>1, <2>2 DEF HandleSession
<1>17. CASE HandleError
  <2>1. PICK ms : Takes(ms)
    BY <1>17 DEF HandleError, Reads
  <2>2. told' \in Heard
    BY <1>17, ToldTypes DEF HandleError
  <2> QED BY <1>2, <1>4, <1>5, <1>7, <1>9, <1>10, <1>17, <2>1, <2>2 DEF HandleError
<1>18. CASE HandleEnd
  <2>1. PICK ms : Takes(ms)
    BY <1>18 DEF HandleEnd
  <2>2. FieldsOK'
    BY <1>1, <1>18 DEF HandleEnd, FieldsOK
  <2>3. toServer' \in Seq(ClientSays) /\ DialOK' /\ told' \in Heard
    BY <1>3, <1>7, <1>8, <1>18, ToldTypes DEF HandleEnd, ClientSays
  <2> QED BY <1>2, <1>10, <1>18, <2>1, <2>2, <2>3 DEF HandleEnd
<1>19. CASE NothingParses
  <2>1. toClient' \in Seq(ServerSays)
    BY <1>1, <1>19, Heeded DEF NothingParses, WireOK
  <2>2. CASE parser = "garbled"
    <3>1. DialOK'
      BY <1>4, <1>19, <2>2 DEF NothingParses
    <3>2. FieldsOK'
      BY <1>1, <1>19, <2>2 DEF NothingParses, FieldsOK
    <3>3. WireOK' /\ ServerOK' /\ SaidOK'
      BY <1>1, <1>19, <2>1, <2>2 DEF NothingParses, WireOK, ServerOK, SaidOK
    <3> QED BY <3>1, <3>2, <3>3
  <2>3. CASE parser # "garbled"
    <3>1. parser' = "broken" /\ CloseWith(told)
      BY <1>19, <2>3 DEF NothingParses
    <3>2. /\ DialOK' /\ told' \in Heard /\ closed' = TRUE
          /\ conn' \in {conn, "down"} /\ toServer' \in Seq(ClientSays)
      BY <1>1, <3>1, CloseSays, ToldTypes
    <3>3. FieldsOK'
      BY <1>1, <1>19, <3>2 DEF NothingParses, FieldsOK
    <3>4. WireOK' /\ ServerOK' /\ SaidOK'
      BY <1>1, <1>19, <2>1, <3>1, <3>2 DEF NothingParses, WireOK, ServerOK, SaidOK
    <3> QED BY <3>2, <3>3, <3>4
  <2> QED BY <2>2, <2>3
<1> QED BY <1>11, <1>12, <1>13, <1>14, <1>15, <1>16, <1>17, <1>18, <1>19 DEF Receive

LEMMA StutterTypes == TypeOK /\ UNCHANGED vars => TypeOK'
<1> SUFFICES ASSUME TypeOK, UNCHANGED vars
           PROVE DialOK' /\ FieldsOK' /\ WireOK' /\ ServerOK' /\ SaidOK'
  BY TypePartsNext
<1>1. DialOK /\ FieldsOK /\ WireOK /\ ServerOK /\ SaidOK
  BY TypeParts
<1>2. DialOK' /\ FieldsOK'
  BY <1>1 DEF DialOK, FieldsOK, vars, dial, fields
<1>3. WireOK' /\ ServerOK' /\ SaidOK'
  BY <1>1 DEF WireOK, ServerOK, SaidOK, vars
<1> QED BY <1>2, <1>3

LEMMA NextTypes == TypeOK /\ [Next]_vars => TypeOK'
<1> SUFFICES ASSUME TypeOK, [Next]_vars PROVE TypeOK'
  OBVIOUS
<1> QED BY StutterTypes, DialTypes, ConnTypes, ServerTypes, ReceiveTypes DEF Next

(* Whatever server and network do, every value stays in its type: no more   *)
(* hosts are chosen than there are, and nothing else is ever sent.          *)
THEOREM StreamIsTyped == Spec => []TypeOK
BY InitTypes, NextTypes, PTL DEF Spec

-----------------------------------------------------------------------------
(* Hosts and connections.                                                   *)

(* What is said on a connection is nothing to the one who dials.            *)
LEMMA DialStays ==
  ASSUME DialInv, HostsInv, UNCHANGED <<calls, dial, conn>>,
         told'.connected = told.connected, told'.disconnected = told.disconnected,
         told.left => told'.left
  PROVE  DialInv' /\ HostsInv'
BY DEF DialInv, HostsInv, dial

LEMMA DialDisconnected ==
  ASSUME TypeOK, DialInv, HostsInv, NEW t \in Heard, Disconnected(t), calls' = calls,
         t.connected = told.connected, t.disconnected = told.disconnected, told.left => t.left,
         \/ conn' = "down" /\ conn # "none"
         \/ conn' = conn /\ conn # "connecting" /\ (conn = "none" => starting)
  PROVE  DialInv' /\ HostsInv'
<1>1. /\ DialOK' /\ told' \in Heard
      /\ asked' = asked /\ hosts' = hosts /\ srv' = srv
      /\ told'.connected = t.connected /\ told'.ready = t.ready /\ told'.left = t.left
      /\ ~srv => starting' = FALSE
      /\ srv /\ srv_choice < hosts => told'.disconnected = t.disconnected
      /\ srv_choice' < hosts => srv_choice < hosts
  BY TypeParts, DisconnectedSays
<1>2. hosts \in Nat /\ srv_choice \in Nat /\ calls \in Nat
  BY ClientAssumption DEF TypeOK
<1>3. asked => ~starting'
  <2>1. asked => ~(srv_choice < hosts)
    BY <1>2 DEF DialInv
  <2> QED BY <2>1 DEF Disconnected
<1>4. DialInv'
  BY <1>1, <1>2, <1>3 DEF DialInv
<1>5. HostsInv'
  BY <1>1 DEF HostsInv
<1> QED BY <1>4, <1>5

LEMMA CloseDials ==
  ASSUME TypeOK, DialInv, HostsInv, NEW t \in Heard, CloseWith(t), calls' = calls, calls # 0,
         ~starting,
         t.connected = told.connected, t.disconnected = told.disconnected, told.left => t.left
  PROVE  DialInv' /\ HostsInv'
<1>1. \/ UNCHANGED <<conn, dial>> /\ told' = t
      \/ conn' = "down" /\ closed /\ Disconnected(t) /\ conn # "none"
      \/ /\ conn = "connecting" /\ conn' = "down" /\ srv' = FALSE
         /\ UNCHANGED <<asked, hosts, srv_choice, starting>>
         /\ told'.connected > 0
  BY TypeParts, CloseSays
<1>2. told'.left = t.left
  BY TypeParts, CloseSays
<1>3. CASE UNCHANGED <<conn, dial>> /\ told' = t
  BY <1>3, DialStays
<1>4. CASE conn' = "down" /\ closed /\ Disconnected(t) /\ conn # "none"
  BY <1>4, DialDisconnected
<1>5. CASE /\ conn = "connecting" /\ conn' = "down" /\ srv' = FALSE
           /\ UNCHANGED <<asked, hosts, srv_choice, starting>>
           /\ told'.connected > 0
  BY <1>5 DEF DialInv, HostsInv
<1> QED BY <1>1, <1>3, <1>4, <1>5

(* A field of what is told, with another field changed.                     *)
LEMMA ToldFields ==
  ASSUME TypeOK
  PROVE  /\ \A n : [told EXCEPT !.ready = n].connected = told.connected
         /\ \A n : [told EXCEPT !.ready = n].disconnected = told.disconnected
         /\ \A n : [told EXCEPT !.ready = n].left = told.left
         /\ \A n : [told EXCEPT !.ready = n].ready = n
         /\ \A n : [told EXCEPT !.connected = n].connected = n
         /\ \A n : [told EXCEPT !.connected = n].ready = told.ready
         /\ [told EXCEPT !.failed = TRUE].connected = told.connected
         /\ [told EXCEPT !.failed = TRUE].disconnected = told.disconnected
         /\ [told EXCEPT !.failed = TRUE].left = told.left
         /\ [told EXCEPT !.failed = TRUE].ready = told.ready
         /\ [told EXCEPT !.cut = TRUE].connected = told.connected
         /\ [told EXCEPT !.cut = TRUE].disconnected = told.disconnected
         /\ [told EXCEPT !.cut = TRUE].left = told.left
         /\ [told EXCEPT !.cut = TRUE].ready = told.ready
         /\ [told EXCEPT !.left = TRUE].connected = told.connected
         /\ [told EXCEPT !.left = TRUE].disconnected = told.disconnected
         /\ [told EXCEPT !.left = TRUE].left = TRUE
         /\ [told EXCEPT !.left = TRUE].ready = told.ready
<1>1. told \in Heard
  BY DEF TypeOK
<1> QED BY <1>1 DEF Heard

LEMMA ReceiveDials ==
  ASSUME TypeOK, DialInv, HostsInv, Receive
  PROVE  DialInv' /\ HostsInv'
<1>0. told \in Heard
  BY DEF TypeOK
<1>1. CASE HandleFeatures \/ HandleSuccess
  BY <1>1, DialStays DEF HandleFeatures, HandleSuccess, Reads, Takes
<1>2. CASE HandleBound \/ HandleSession \/ HandleError
  <2>1. /\ told'.connected = told.connected /\ told'.disconnected = told.disconnected
        /\ told'.left = told.left
    <3>1. told' \in {told, [told EXCEPT !.ready = More(told.ready)], [told EXCEPT !.failed = TRUE]}
      BY <1>2 DEF HandleBound, HandleSession, HandleError
    <3> QED BY <1>0, <3>1 DEF Heard
  <2> QED BY <1>2, <2>1, DialStays DEF HandleBound, HandleSession, HandleError, Reads, Takes
<1>3. CASE HandleProceed
  <2>1. CASE UNCHANGED <<conn, dial, told>>
    BY <1>3, <2>1, DialStays DEF HandleProceed, Reads, Takes
  <2>2. CASE conn' = "down" /\ Disconnected([told EXCEPT !.cut = TRUE])
    BY <1>3, <2>2, DialDisconnected, ToldTypes, ToldFields DEF HandleProceed, Reads, Takes
  <2> QED BY <1>3, <2>1, <2>2 DEF HandleProceed
<1>4. CASE HandleFailure
  BY <1>4, DialDisconnected, ToldTypes, ToldFields DEF HandleFailure, Reads, Takes
<1>5. CASE HandleEnd
  BY <1>5, DialDisconnected, ToldTypes DEF HandleEnd, Reads, Takes
<1>6. CASE NothingParses
  <2>1. CASE parser = "garbled"
    BY <1>6, <2>1, DialStays DEF NothingParses
  <2>2. CASE parser # "garbled"
    <3>1. CloseWith(told) /\ calls' = calls /\ conn = "up"
      BY <1>6, <2>2 DEF NothingParses
    <3>2. calls # 0 /\ ~starting
      BY <3>1 DEF DialInv
    <3> QED BY <3>1, <3>2, CloseDials, ToldTypes
  <2> QED BY <2>1, <2>2
<1> QED BY <1>1, <1>2, <1>3, <1>4, <1>5, <1>6 DEF Receive

LEMMA NextDials ==
  ASSUME TypeOK, DialInv, HostsInv, Next
  PROVE  DialInv' /\ HostsInv'
<1>1. calls \in Nat /\ hosts \in Nat /\ srv_choice \in Nat /\ told \in Heard
  BY ClientAssumption DEF TypeOK
<1>2. CASE connect_client
  <2>1. /\ told'.connected = 0 /\ told'.disconnected = 0
        /\ calls' = calls + 1 /\ conn' = conn /\ srv' = srv /\ hosts' = hosts
        /\ (asked' <=> hosts = 0) /\ (starting' <=> hosts > 0) /\ srv_choice' = srv_choice
        /\ conn \notin {"connecting", "up"}
    BY <1>2, <1>1 DEF connect_client, NothingHeard, DialInv
  <2>2. calls' # 0 /\ (calls' = 1 => conn = "none" /\ hosts = 0)
    BY <1>1, <2>1 DEF DialInv
  <2>3. DialInv'
    BY <1>1, <2>1, <2>2 DEF DialInv
  <2>4. HostsInv'
    BY <1>1, <2>1, <2>2 DEF HostsInv
  <2> QED BY <2>3, <2>4
<1>3. CASE SrvAnswer
  BY <1>1, <1>3 DEF SrvAnswer, DialInv, HostsInv
<1>4. CASE StartConnect
  BY <1>1, <1>4 DEF StartConnect, DialInv, HostsInv
<1>5. CASE StartFails
  <2>1. conn # "connecting"
    BY <1>5 DEF StartFails, DialInv
  <2> QED BY <1>1, <1>5, <2>1, DialDisconnected DEF StartFails
<1>6. CASE Connected
  <2>1. told'.connected > 0
    BY <1>1, <1>6, ToldFields, MoreTypes DEF Connected, Heard
  <2> QED BY <1>1, <1>6, <2>1 DEF Connected, DialInv, HostsInv
<1>7. CASE Lost
  BY <1>7, DialDisconnected, ToldTypes, ToldFields DEF Lost
<1>8. CASE Close
  <2>1. calls # 0 /\ ~starting /\ calls' = calls /\ CloseWith([told EXCEPT !.left = TRUE])
    BY <1>1, <1>8 DEF Close
  <2>2. [told EXCEPT !.left = TRUE] \in Heard
    BY ToldTypes
  <2> QED BY <2>1, <2>2, CloseDials, ToldFields
<1>9. CASE Server
  BY <1>9, DialStays DEF Server, ServerAnswers, ServerIgnores, Hears
<1>10. CASE ServerEnds
  BY <1>10, DialStays, ToldFields DEF ServerEnds
<1>11. CASE Receive
  BY <1>11, ReceiveDials
<1> QED BY <1>2, <1>3, <1>4, <1>5, <1>6, <1>7, <1>8, <1>9, <1>10, <1>11 DEF Next

-----------------------------------------------------------------------------
(* The end of the stream.                                                   *)

LEMMA EndStays ==
  ASSUME EndInv, closed => closed', toServer' = toServer, server'.ends = server.ends
  PROVE  EndInv'
BY DEF EndInv

LEMMA EndIsSent ==
  ASSUME TypeOK, EndInv, server' = server, NEW m \in ClientSays, Send(m), closed => closed',
         m = "end" => ~closed /\ closed'
  PROVE  EndInv'
<1>1. toServer \in Seq(ClientSays)
  BY DEF TypeOK
<1>2. CASE toServer' = toServer
  BY <1>2, EndStays
<1>3. CASE toServer' = Append(toServer, m)
  <2>1. /\ EndsOnce(toServer) /\ (m # "end" \/ Endless(toServer)) => EndsOnce(toServer')
        /\ Endless(toServer') <=> Endless(toServer) /\ m # "end"
    BY <1>1, <1>3, EndSent
  <2> QED BY <2>1 DEF EndInv
<1> QED BY <1>2, <1>3, SendSays, TypeParts

LEMMA EndIsHeeded ==
  ASSUME TypeOK, EndInv, closed' = closed, toServer # <<>>, toServer' = Tail(toServer),
         server'.ends = server.ends \/ Head(toServer) = "end"
  PROVE  EndInv'
<1>1. toServer \in Seq(ClientSays)
  BY DEF TypeOK
<1>2. /\ EndsOnce(toServer) => EndsOnce(toServer') /\ (Head(toServer) = "end" => Endless(toServer'))
      /\ Endless(toServer) => Endless(toServer') /\ Head(toServer) # "end"
  BY <1>1, EndHeeded
<1> QED BY <1>2 DEF EndInv

LEMMA EndIsClosed ==
  ASSUME TypeOK, EndInv, server' = server, NEW t \in Heard, CloseWith(t)
  PROVE  EndInv'
<1>1. closed' = TRUE
      /\ (toServer' = toServer \/ (~closed /\ toServer' = Append(toServer, "end")))
  BY TypeParts, CloseSays
<1>2. toServer \in Seq(ClientSays) /\ "end" \in ClientSays
  BY DEF TypeOK, ClientSays
<1>3. CASE ~closed /\ toServer' = Append(toServer, "end")
  <2>1. Endless(toServer) /\ EndsOnce(toServer) => EndsOnce(toServer')
    <3>1. \A m \in ClientSays : toServer' = Append(toServer, m) =>
             (Endless(toServer) /\ EndsOnce(toServer) => EndsOnce(toServer'))
      BY <1>2, EndSent
    <3> QED BY <1>2, <1>3, <3>1
  <2> QED BY <1>1, <1>3, <2>1 DEF EndInv
<1> QED BY <1>1, <1>3, EndStays

LEMMA EndAfterHeaders ==
  ASSUME TypeOK, EndInv, Connected
  PROVE  EndInv'
<1>1. /\ Headers \in Seq(ClientSays) /\ toServer \in Seq(ClientSays)
      /\ \A i \in 1..Len(Headers) : Headers[i] = "header"
      /\ toServer' = toServer \o Headers /\ closed' = closed /\ server' = server
  BY HeadersSay DEF TypeOK, Connected, fields
<1>2. /\ Len(toServer') = Len(toServer) + Len(Headers)
      /\ Len(toServer) \in Nat /\ Len(Headers) \in Nat
      /\ \A i \in 1..Len(toServer) : toServer'[i] = toServer[i]
      /\ \A i \in 1..Len(toServer') :
           i \in 1..Len(toServer) \/ toServer'[i] = Headers[i - Len(toServer)]
  BY <1>1, ConcatProperties
<1>3. \A i \in 1..Len(toServer') : toServer'[i] = "end" =>
                                             i \in 1..Len(toServer) /\ toServer[i] = "end"
  <2>1. ASSUME NEW i \in 1..Len(toServer'), i \notin 1..Len(toServer) PROVE toServer'[i] = "header"
    <3>1. i - Len(toServer) \in 1..Len(Headers)
      BY <1>2, <2>1
    <3> QED BY <1>1, <1>2, <2>1, <3>1
  <2> QED BY <1>2, <2>1
<1> QED BY <1>1, <1>3 DEF EndInv, EndsOnce, Endless

LEMMA NextEnds ==
  ASSUME TypeOK, EndInv, Next
  PROVE  EndInv'
<1>1. CASE connect_client \/ SrvAnswer \/ StartFails \/ Lost \/ ServerEnds
  <2>1. server'.ends = server.ends
    BY <1>1 DEF connect_client, SrvAnswer, StartFails, Lost, ServerEnds, TypeOK
  <2> QED BY <1>1, <2>1, EndStays
          DEF connect_client, SrvAnswer, StartFails, Lost, ServerEnds, fields
<1>2. CASE StartConnect
  <2>1. toServer' = <<>> /\ server'.ends = 0
    BY <1>2 DEF StartConnect, NewServer
  <2>2. EndsOnce(toServer') /\ Endless(toServer')
    BY <2>1 DEF EndsOnce, Endless
  <2> QED BY <2>1, <2>2 DEF EndInv
<1>3. CASE Connected
  BY <1>3, EndAfterHeaders
<1>4. CASE Close
  BY <1>4, EndIsClosed, ToldTypes DEF Close
<1>5. CASE ServerAnswers
  <2>1. PICK m : Hears(m)
    BY <1>5 DEF ServerAnswers
  <2>2. server'.ends = server.ends \/ Head(toServer) = "end"
    BY <1>5 DEF ServerAnswers, Hears, TypeOK
  <2> QED BY <2>1, <2>2, EndIsHeeded DEF Hears, fields
<1>6. CASE ServerIgnores
  <2>1. server'.ends = server.ends \/ Head(toServer) = "end"
    BY <1>6 DEF ServerIgnores, TypeOK
  <2> QED BY <1>6, <2>1, EndIsHeeded DEF ServerIgnores, fields
<1>7. CASE HandleFeatures
  BY <1>7, EndIsSent, EndStays DEF HandleFeatures, Reads, Takes, ClientSays
<1>8. CASE HandleProceed \/ HandleSuccess \/ HandleFailure
  BY <1>8, EndIsSent, EndStays
     DEF HandleProceed, HandleSuccess, HandleFailure, Reopen, Reads, Takes, ClientSays, fields
<1>9. CASE HandleBound \/ HandleSession \/ HandleError
  BY <1>9, EndIsSent, EndStays DEF HandleBound,
         HandleSession, HandleError, Reads, Takes, ClientSays, fields
<1>10. CASE HandleEnd
  BY <1>10, EndIsSent, EndStays DEF HandleEnd, Reads, Takes, ClientSays
<1>11. CASE NothingParses
  BY <1>11, EndIsClosed, EndStays, ToldTypes DEF NothingParses
<1> QED BY <1>1, <1>2, <1>3, <1>4, <1>5, <1>6, <1>7, <1>8, <1>9, <1>10, <1>11
        DEF Next, Server, Receive

-----------------------------------------------------------------------------
(* Whose turn it is.                                                        *)

QInv == TriedInv /\ TurnsInv /\ ReadyInv /\ FedInv

(* p has nothing to say that q has not.                                     *)
Fades(q, p) ==
  /\ \A M : "end" \in M /\ Only(q, M) => Only(p, M)
  /\ Talks(p) => Talks(q)
  /\ TalksOnce(q) => TalksOnce(p)

LEMMA Fading ==
  ASSUME NEW A, "end" \in A, NEW q \in Seq(A), NEW p,
         p = q \/ p = Append(q, "end") \/ (q # <<>> /\ p = Tail(q))
  PROVE  Fades(q, p)
<1>1. CASE p = q
  BY <1>1 DEF Fades
<1>2. CASE p = Append(q, "end")
  <2>1. \A m \in A : p = Append(q, m) => Adds(q, m, p)
    BY Sent
  <2> QED BY <1>2, <2>1 DEF Fades, Adds
<1>3. CASE q # <<>> /\ p = Tail(q)
  <2>1. /\ \A M : Only(q, M) => Only(p, M) /\ Head(q) \in M
        /\ Talks(p) \/ Head(q) # "end" => Talks(q)
        /\ TalksOnce(q) => TalksOnce(p) /\ (Head(q) # "end" => ~Talks(p))
    BY <1>3, Heeded
  <2> QED BY <2>1 DEF Fades
<1> QED BY <1>1, <1>2, <1>3

LEMMA ReadyStays ==
  ASSUME ReadyInv, calls' = calls, authenticated' = authenticated, bound' = bound,
         told'.ready = told.ready, server.authenticated => server'.authenticated,
         told'.connected = 0 => told.connected = 0
  PROVE  ReadyInv'
BY DEF ReadyInv, ReadyIsEarned

LEMMA NothingSaid ==
  ASSUME QInv, Fades(toServer, toServer'), Fades(toClient, toClient'),
         UNCHANGED <<calls, authenticated, bound>>, conn' \in {conn, "down"},
         toClient = <<>> => toClient' = <<>> \/ conn' # "connecting",
         server'.authenticated = server.authenticated, told'.ready = told.ready,
         told'.connected = 0 => told.connected = 0,
         parser' \in {"waiting", "open"} => parser' = parser
  PROVE  QInv'
<1>1. ReadyInv'
  BY ReadyStays DEF QInv
<1>2. TriedInv'
  BY DEF QInv, TriedInv, Fades
<1>3. FedInv'
  BY DEF QInv, FedInv, Fades
<1>4. ASSUME calls = 1, conn = "up" PROVE TurnsInv'
  <2>1. /\ "end" \in ServerSays \ {"success"}
        /\ "end" \in ClientSays \ {"bind", "session"}
        /\ "end" \in ServerSays \ {"bound", "bind-error", "session", "session-error"}
        /\ "end" \in ClientSays \ {"session"}
        /\ "end" \in ServerSays \ {"session", "session-error"}
    BY DEF ServerSays, ClientSays
  <2> QED BY <1>4, <2>1 DEF QInv, TurnsInv, Fades
<1>5. ~(calls = 1 /\ conn = "up") => TurnsInv'
  BY DEF TurnsInv
<1> QED BY <1>1, <1>2, <1>3, <1>4, <1>5 DEF QInv

LEMMA DialQueues ==
  ASSUME TypeOK, DialInv, QInv, connect_client \/ SrvAnswer \/ StartConnect \/ StartFails
  PROVE  QInv'
<1>1. calls \in Nat /\ told \in Heard
  BY ClientAssumption DEF TypeOK
<1>2. CASE connect_client
  <2>1. /\ conn' \notin {"connecting", "up"} /\ told'.ready = 0 /\ told'.connected = 0
        /\ calls' = calls + 1
        /\ UNCHANGED <<authenticated, bound>>
    BY <1>2, DialInv DEF connect_client, DialInv, NothingHeard, fields
  <2>2. TriedInv' /\ TurnsInv' /\ FedInv'
    BY <2>1 DEF TriedInv, TurnsInv, FedInv
  <2>3. calls' # 0 /\ (calls' = 1 => calls = 0)
    BY <1>1, <2>1
  <2>4. ReadyInv'
    BY <2>1, <2>3 DEF QInv, ReadyInv, ReadyIsEarned
  <2> QED BY <2>2, <2>4 DEF QInv
<1>3. CASE SrvAnswer
  <2>1. conn' \notin {"connecting", "up"}
    BY <1>3 DEF SrvAnswer, DialInv
  <2>2. TriedInv' /\ TurnsInv' /\ FedInv'
    BY <2>1 DEF TriedInv, TurnsInv, FedInv
  <2> QED BY <1>3, <2>2, ReadyStays DEF QInv, SrvAnswer, fields
<1>4. CASE StartConnect
  <2>1. conn' = "connecting" /\ toClient' = <<>> /\ Only(toServer', {"end"})
    BY <1>4, Silent DEF StartConnect
  <2>2. TriedInv' /\ TurnsInv' /\ FedInv'
    BY <2>1 DEF TriedInv, TurnsInv, FedInv
  <2>3. told.ready = 0
    <3>1. told.connected \in 0..2
      BY <1>1 DEF Heard
    <3>2. calls # 1 \/ told.connected = 0
      BY <1>4, <3>1 DEF StartConnect, DialInv
    <3> QED BY <3>2 DEF QInv, ReadyInv
  <2>4. ReadyInv'
    BY <1>4, <2>3 DEF QInv, ReadyInv, ReadyIsEarned, StartConnect, fields
  <2> QED BY <2>2, <2>4 DEF QInv
<1>5. CASE StartFails
  <2>1. conn' \notin {"connecting", "up"}
    BY <1>5 DEF StartFails, DialInv
  <2>2. TriedInv' /\ TurnsInv' /\ FedInv'
    BY <2>1 DEF TriedInv, TurnsInv, FedInv
  <2>3. told'.ready = told.ready /\ told'.connected = told.connected
    BY <1>1, <1>5, DisconnectedSays, TypeParts DEF StartFails
  <2> QED BY <1>5, <2>2, <2>3, ReadyStays DEF QInv, StartFails, fields
<1> QED BY <1>2, <1>3, <1>4, <1>5

LEMMA ConnectedQueues ==
  ASSUME TypeOK, DialInv, QInv, Connected
  PROVE  QInv'
<1>0. Len(Headers) = calls
  BY HeadersSay
<1>1. /\ Headers \in Seq(ClientSays) /\ toServer \in Seq(ClientSays)
      /\ \A i \in 1..Len(Headers) : Headers[i] = "header"
      /\ toServer' = toServer \o Headers /\ toClient' = <<>>
      /\ conn' = "up" /\ parser' = "waiting"
      /\ UNCHANGED <<calls, authenticated, bound, server>>
      /\ \A i \in 1..Len(toServer) : toServer[i] = "end"
  BY HeadersSay DEF TypeOK, Connected, fields, QInv, TriedInv, Only
<1>2. /\ Len(toServer') = Len(toServer) + Len(Headers)
      /\ Len(toServer) \in Nat /\ Len(Headers) \in Nat
      /\ \A i \in 1..Len(toServer) : toServer'[i] = toServer[i]
      /\ \A i \in 1..Len(toServer') :
           i \in 1..Len(toServer) \/ toServer'[i] = Headers[i - Len(toServer)]
  BY <1>1, ConcatProperties
<1>3. ASSUME NEW i \in 1..Len(toServer')
      PROVE  IF i \in 1..Len(toServer) THEN toServer'[i] = "end" ELSE toServer'[i] = "header"
  <2>1. CASE i \notin 1..Len(toServer)
    <3>1. i - Len(toServer) \in 1..Len(Headers)
      BY <1>1, <1>2, <2>1
    <3> QED BY <1>1, <1>2, <2>1, <3>1
  <2> QED BY <1>1, <1>2, <2>1
<1>4. Only(toServer', {"header", "end"})
  BY <1>3 DEF Only
<1>5. /\ told'.ready = told.ready /\ told'.connected > 0
      /\ calls = 1 => told.connected = 0
  <2>1. told.connected \in 0..2 /\ told' = [told EXCEPT !.connected = More(told.connected)]
    BY DEF Connected, TypeOK, Heard
  <2>2. told'.ready = told.ready /\ told'.connected = More(told.connected)
    BY <2>1, ToldFields
  <2>3. calls = 1 => told.connected = 0
    BY <2>1 DEF Connected, DialInv
  <2> QED BY <2>1, <2>2, <2>3, MoreTypes
<1>6. ReadyInv'
  BY <1>1, <1>5, ReadyStays DEF QInv
<1>7. TriedInv' /\ FedInv'
  BY <1>1, <1>4, Silent DEF TriedInv, FedInv
<1>8. TurnsInv'
  <2> SUFFICES ASSUME calls = 1 PROVE TurnsInv'
    BY <1>1 DEF TurnsInv
  <2>1. ~authenticated /\ ~bound /\ told.ready = 0
    BY <1>5 DEF QInv, ReadyInv
  <2>2. TalksOnce(toServer')
    <3>1. \A i \in 1..Len(toServer') : toServer'[i] # "end" => i = Len(toServer) + 1
      BY <1>0, <1>2, <1>3
    <3> QED BY <3>1 DEF TalksOnce
  <2>3. /\ Only(toServer', ClientSays \ {"bind", "session"})
        /\ Only(toServer', ClientSays \ {"session"})
    BY <1>4 DEF Only, ClientSays
  <2> QED BY <1>1, <1>5, <2>1, <2>2, <2>3, Silent DEF TurnsInv
<1> QED BY <1>6, <1>7, <1>8 DEF QInv

(* A close ends what was said and says nothing but that.                    *)
LEMMA CloseQueues ==
  ASSUME TypeOK, QInv, UNCHANGED <<calls, authenticated, bound, server>>,
         NEW t \in Heard, t.ready = told.ready, t.connected = told.connected, CloseWith(t),
         toClient' = toClient \/ (conn = "up" /\ toClient # <<>> /\ toClient' = Tail(toClient)),
         parser' \in {"waiting", "open"} => parser' = parser
  PROVE  QInv'
<1>1. toServer \in Seq(ClientSays) /\ toClient \in Seq(ServerSays)
      /\ "end" \in ClientSays /\ "end" \in ServerSays
  BY DEF TypeOK, ClientSays, ServerSays
<1>2. /\ conn' \in {conn, "down"} /\ told'.ready = t.ready /\ told' \in Heard
      /\ toServer' = toServer \/ toServer' = Append(toServer, "end")
      /\ \/ told' = t
         \/ conn' = "down" /\ closed /\ Disconnected(t) /\ conn # "none"
         \/ told'.connected > 0
  BY TypeParts, CloseSays
<1>3. told'.connected = 0 => told.connected = 0
  <2>1. Disconnected(t) => told'.connected = t.connected
    BY TypeParts, DisconnectedSays
  <2> QED BY <1>2, <2>1
<1>4. Fades(toServer, toServer')
  BY <1>1, <1>2, Fading
<1>5. Fades(toClient, toClient')
  BY <1>1, Fading
<1> QED BY <1>2, <1>3, <1>4, <1>5, NothingSaid

(* What the server may say to what it hears.                                *)
LEMMA Answers ==
  ASSUME TypeOK, ServerAnswers
  PROVE  \E m \in ClientSays, s \in ServerSays :
           /\ Hears(m) /\ Says(s)
           /\ server.authenticated => server'.authenticated
           /\ s = "success" => server'.authenticated
           /\ s \in {"bound", "bind-error"} => m = "bind"
           /\ s \in {"session", "session-error"} => m = "session"
           /\ m = "header" => s \in {"features-tls", "features-sasl", "features-bind"}
           /\ m = "end" <=> s = "end"
<1>1. /\ Offer \in {"features-tls", "features-sasl", "features-bind"}
      /\ {"features-tls", "features-sasl", "features-bind"} \subseteq ServerSays
  BY DEF Offer, ServerSays
<1>2. server.authenticated => server'.authenticated
  BY DEF ServerAnswers, TypeOK
<1>3. CASE Hears("header") /\ Says(Offer)
  BY <1>1, <1>2, <1>3 DEF ClientSays
<1>4. CASE Hears("starttls") /\ Says("proceed")
  BY <1>2, <1>4 DEF ClientSays, ServerSays
<1>5. CASE Hears("auth") /\ Says("success")
          /\ server' = [server EXCEPT !.authenticated = TRUE, !.open = FALSE]
  <2>1. server'.authenticated
    BY <1>5 DEF TypeOK
  <2> QED BY <1>2, <1>5, <2>1 DEF ClientSays, ServerSays
<1>6. CASE Hears("auth") /\ Says("failure")
  BY <1>2, <1>6 DEF ClientSays, ServerSays
<1>7. CASE Hears("bind") /\ (Says("bound") \/ Says("bind-error"))
  BY <1>2, <1>7 DEF ClientSays, ServerSays
<1>8. CASE Hears("session") /\ (Says("session") \/ Says("session-error"))
  BY <1>2, <1>8 DEF ClientSays, ServerSays
<1>9. CASE Hears("end") /\ Says("end")
  BY <1>2, <1>9 DEF ClientSays, ServerSays
<1> QED BY <1>3, <1>4, <1>5, <1>6, <1>7, <1>8, <1>9 DEF ServerAnswers

LEMMA ServerQueues ==
  ASSUME TypeOK, DialInv, QInv, ServerAnswers
  PROVE  QInv'
<1>1. PICK m \in ClientSays, s \in ServerSays :
        /\ Hears(m) /\ Says(s)
        /\ server.authenticated => server'.authenticated
        /\ s = "success" => server'.authenticated
        /\ s \in {"bound", "bind-error"} => m = "bind"
        /\ s \in {"session", "session-error"} => m = "session"
        /\ m = "header" => s \in {"features-tls", "features-sasl", "features-bind"}
        /\ m = "end" <=> s = "end"
  BY Answers
<1>2. /\ UNCHANGED <<calls, conn, parser, authenticated, bound, told>>
      /\ toServer # <<>> /\ Head(toServer) = m /\ toServer' = Tail(toServer)
      /\ toClient' = Append(toClient, s) /\ conn # "connecting"
      /\ toServer \in Seq(ClientSays) /\ toClient \in Seq(ServerSays)
  BY <1>1 DEF Hears, Says, fields, TypeOK
<1>3. ReadyInv'
  BY <1>1, <1>2, ReadyStays DEF QInv
<1>4. TriedInv'
  BY <1>2 DEF TriedInv
<1>5. /\ \A M : Only(toServer, M) => Only(toServer', M) /\ m \in M
      /\ Talks(toServer') \/ m # "end" => Talks(toServer)
      /\ TalksOnce(toServer) => TalksOnce(toServer') /\ (m # "end" => ~Talks(toServer'))
  BY <1>2, Heeded
<1>6. /\ \A M : Only(toClient', M) <=> Only(toClient, M) /\ s \in M
      /\ Talks(toClient') <=> Talks(toClient) \/ s # "end"
      /\ TalksOnce(toClient) /\ (s = "end" \/ ~Talks(toClient)) => TalksOnce(toClient')
  <2>1. Adds(toClient, s, toClient')
    BY <1>2, Sent
  <2> QED BY <2>1 DEF Adds
<1>7. FedInv'
  <2> SUFFICES ASSUME calls > 1, conn = "up", parser \in {"waiting", "open"} PROVE FedInv'
    BY <1>2 DEF FedInv
  <2>1. /\ parser = "waiting" /\ Only(toServer, {"header", "end"})
        /\ Only(toClient, {"features-tls", "features-sasl", "features-bind", "end"})
    BY DEF QInv, FedInv
  <2>2. m \in {"header", "end"} /\ Only(toServer', {"header", "end"})
    BY <1>5, <2>1
  <2>3. Only(toClient', {"features-tls", "features-sasl", "features-bind", "end"})
    BY <1>1, <1>6, <2>1, <2>2
  <2> QED BY <1>2, <2>1, <2>2, <2>3 DEF FedInv
<1>8. TurnsInv'
  <2> SUFFICES ASSUME calls = 1, conn = "up" PROVE TurnsInv'
    BY <1>2 DEF TurnsInv
  <2>1. /\ TalksOnce(toServer) /\ TalksOnce(toClient)
        /\ ~(Talks(toServer) /\ Talks(toClient))
        /\ told.ready > 0 => ~Talks(toServer) /\ ~Talks(toClient)
        /\ ~server.authenticated => ~authenticated /\ Only(toClient, ServerSays \ {"success"})
        /\ ~authenticated => ~bound
        /\ ~authenticated =>
             /\ Only(toServer, ClientSays \ {"bind", "session"})
             /\ Only(toClient, ServerSays \ {"bound", "bind-error", "session", "session-error"})
        /\ ~bound =>
             /\ Only(toServer, ClientSays \ {"session"})
             /\ Only(toClient, ServerSays \ {"session", "session-error"})
    BY DEF QInv, TurnsInv
  <2>2. /\ TalksOnce(toServer') /\ TalksOnce(toClient')
        /\ ~(Talks(toServer') /\ Talks(toClient'))
        /\ told.ready > 0 => ~Talks(toServer') /\ ~Talks(toClient')
    BY <1>1, <1>5, <1>6, <2>1
  <2>3. ~server'.authenticated => ~authenticated /\ Only(toClient', ServerSays \ {"success"})
    BY <1>1, <1>6, <2>1
  <2>4. ~authenticated =>
             /\ Only(toServer', ClientSays \ {"bind", "session"})
             /\ Only(toClient', ServerSays \ {"bound", "bind-error", "session", "session-error"})
    BY <1>1, <1>5, <1>6, <2>1
  <2>5. ~bound =>
             /\ Only(toServer', ClientSays \ {"session"})
             /\ Only(toClient', ServerSays \ {"session", "session-error"})
    BY <1>1, <1>5, <1>6, <2>1
  <2> QED BY <1>2, <2>1, <2>2, <2>3, <2>4, <2>5 DEF TurnsInv
<1> QED BY <1>3, <1>4, <1>7, <1>8 DEF QInv

(* What the client reads of the first connection: it is its turn, and       *)
(* "ready" was not said.  Of a later one it reads features or the end.      *)
LEMMA ClientTurn ==
  ASSUME TypeOK, DialInv, QInv, NEW ms, Reads(ms)
  PROVE  /\ toClient \in Seq(ServerSays) /\ toServer \in Seq(ClientSays) /\ conn = "up"
         /\ toClient' = Tail(toClient) /\ toClient # <<>> /\ Head(toClient) \in ms
         /\ UNCHANGED <<calls, server>> /\ calls \in Nat /\ calls # 0
         /\ \A M : Only(toClient, M) => Only(toClient', M) /\ Head(toClient) \in M
         /\ calls > 1 =>
              Head(toClient) \in {"features-tls", "features-sasl", "features-bind", "end"}
         /\ calls = 1 => told.connected # 0 /\ (authenticated => server.authenticated)
         /\ calls = 1 /\ Head(toClient) # "end" =>
              /\ told.ready = 0
              /\ ~Talks(toServer) /\ TalksOnce(toServer)
              /\ ~Talks(toClient') /\ TalksOnce(toClient')
              /\ Head(toClient) = "success" => server.authenticated
              /\ Head(toClient) \in {"bound", "bind-error", "session", "session-error"} =>
                   authenticated
              /\ Head(toClient) \in {"session", "session-error"} => bound
<1>1. /\ toClient \in Seq(ServerSays) /\ toServer \in Seq(ClientSays) /\ conn = "up"
      /\ toClient' = Tail(toClient) /\ toClient # <<>> /\ Head(toClient) \in ms
      /\ Head(toClient) \in ServerSays
      /\ UNCHANGED <<calls, server>> /\ calls \in Nat /\ parser \in {"waiting", "open"}
  BY ReadSays, ClientAssumption DEF TypeOK
<1>2. calls # 0 /\ (calls = 1 => told.connected # 0)
  BY <1>1 DEF DialInv
<1>3. /\ \A M : Only(toClient, M) => Only(toClient', M) /\ Head(toClient) \in M
      /\ Head(toClient) # "end" => Talks(toClient)
      /\ TalksOnce(toClient) =>
            TalksOnce(toClient') /\ (Head(toClient) # "end" => ~Talks(toClient'))
  BY <1>1, Heeded
<1>6. calls = 1 => (authenticated => server.authenticated)
  BY <1>1 DEF QInv, TurnsInv
<1>4. calls > 1 => Head(toClient) \in {"features-tls", "features-sasl", "features-bind", "end"}
  BY <1>1, <1>3 DEF QInv, FedInv
<1>5. ASSUME calls = 1, Head(toClient) # "end"
      PROVE  /\ told.ready = 0
             /\ ~Talks(toServer) /\ TalksOnce(toServer)
             /\ ~Talks(toClient') /\ TalksOnce(toClient')
             /\ Head(toClient) = "success" => server.authenticated
             /\ Head(toClient) \in {"bound", "bind-error", "session", "session-error"} =>
                  authenticated
             /\ Head(toClient) \in {"session", "session-error"} => bound
  <2>1. /\ TalksOnce(toServer) /\ TalksOnce(toClient)
        /\ ~(Talks(toServer) /\ Talks(toClient))
        /\ told.ready > 0 => ~Talks(toServer) /\ ~Talks(toClient)
        /\ ~server.authenticated => Only(toClient, ServerSays \ {"success"})
        /\ ~authenticated =>
             Only(toClient, ServerSays \ {"bound", "bind-error", "session", "session-error"})
        /\ ~bound => Only(toClient, ServerSays \ {"session", "session-error"})
    BY <1>1, <1>5 DEF QInv, TurnsInv
  <2>2. ~(told.ready > 0) => told.ready = 0
    BY DEF TypeOK, Heard
  <2>3. Head(toClient) = "success" => server.authenticated
    BY <1>3, <2>1
  <2>4. Head(toClient) \in {"bound", "bind-error", "session", "session-error"} => authenticated
    BY <1>3, <2>1
  <2>5. Head(toClient) \in {"session", "session-error"} => bound
    BY <1>3, <2>1
  <2> QED BY <1>3, <1>5, <2>1, <2>2, <2>3, <2>4, <2>5
<1> QED BY <1>1, <1>2, <1>3, <1>4, <1>5, <1>6

(* The client says the next thing, or nothing more.                         *)
LEMMA ClientTalks ==
  ASSUME TypeOK, DialInv, QInv, NEW ms, Reads(ms), calls = 1, Head(toClient) # "end",
         NEW m \in ClientSays, toServer' = toServer \/ toServer' = Append(toServer, m),
         m = "bind" => authenticated', m = "session" => authenticated' /\ bound',
         authenticated' => server.authenticated, authenticated => authenticated',
         bound => bound', bound' => authenticated',
         told'.ready = 0 \/ toServer' = toServer
  PROVE  TurnsInv'
<1>1. /\ toClient \in Seq(ServerSays) /\ toServer \in Seq(ClientSays) /\ conn = "up"
      /\ UNCHANGED <<calls, server>>
      /\ \A M : Only(toClient, M) => Only(toClient', M)
      /\ ~Talks(toServer) /\ TalksOnce(toServer)
      /\ ~Talks(toClient') /\ TalksOnce(toClient')
  BY ClientTurn
<1>2. /\ TalksOnce(toServer')
      /\ \A M : Only(toServer, M) /\ m \in M => Only(toServer', M)
  <2>1. toServer' = Append(toServer, m) => Adds(toServer, m, toServer')
    BY <1>1, Sent
  <2> QED BY <1>1, <2>1 DEF Adds
<1>3. /\ ~server.authenticated => Only(toClient, ServerSays \ {"success"})
      /\ ~authenticated =>
           /\ Only(toServer, ClientSays \ {"bind", "session"})
           /\ Only(toClient, ServerSays \ {"bound", "bind-error", "session", "session-error"})
      /\ ~bound =>
           /\ Only(toServer, ClientSays \ {"session"})
           /\ Only(toClient, ServerSays \ {"session", "session-error"})
  BY <1>1 DEF QInv, TurnsInv
<1>4. told'.ready > 0 => ~Talks(toServer')
  <2>1. told'.ready = 0 => ~(told'.ready > 0)
    OBVIOUS
  <2> QED BY <1>1, <2>1
<1>5. ~server'.authenticated => ~authenticated' /\ Only(toClient', ServerSays \ {"success"})
  BY <1>1, <1>3
<1>6. ~authenticated' =>
        /\ ~bound'
        /\ Only(toServer', ClientSays \ {"bind", "session"})
        /\ Only(toClient', ServerSays \ {"bound", "bind-error", "session", "session-error"})
  BY <1>1, <1>2, <1>3
<1>7. ~bound' =>
        /\ Only(toServer', ClientSays \ {"session"})
        /\ Only(toClient', ServerSays \ {"session", "session-error"})
  BY <1>1, <1>2, <1>3
<1> QED BY <1>1, <1>2, <1>4, <1>5, <1>6, <1>7 DEF TurnsInv

LEMMA FeaturesQueues ==
  ASSUME TypeOK, DialInv, QInv, HandleFeatures
  PROVE  QInv'
<1>1. PICK ms : Reads(ms) /\ "end" \notin ms
  BY DEF HandleFeatures
<1>2. /\ conn = "up" /\ Head(toClient) # "end" /\ calls \in Nat /\ calls # 0
      /\ UNCHANGED <<calls, server>>
      /\ calls = 1 => told.ready = 0 /\ (authenticated => server.authenticated)
  BY <1>1, ClientTurn
<1>3. UNCHANGED <<conn, authenticated, bound, told>>
  BY DEF HandleFeatures
<1>4. TriedInv' /\ ReadyInv'
  BY <1>2, <1>3, ReadyStays DEF QInv, TriedInv
<1>5. FedInv'
  BY <1>2, <1>3 DEF HandleFeatures, FedTwice, FedInv
<1>6. TurnsInv'
  <2> SUFFICES ASSUME calls = 1 PROVE TurnsInv'
    BY <1>2 DEF TurnsInv
  <2>1. authenticated \/ ~bound
    BY <1>2 DEF QInv, TurnsInv
  <2>2. PICK m \in ClientSays :
          /\ toServer' = toServer \/ toServer' = Append(toServer, m)
          /\ m = "bind" => authenticated
          /\ m # "session"
    BY <1>2 DEF HandleFeatures, Send, ClientSays
  <2> QED BY <1>1, <1>2, <1>3, <2>1, <2>2, ClientTalks
<1> QED BY <1>4, <1>5, <1>6 DEF QInv

LEMMA TalkQueues ==
  ASSUME TypeOK, DialInv, QInv,
         HandleProceed \/ HandleSuccess \/ HandleFailure \/ HandleBound \/ HandleSession,
         conn' # "down"
  PROVE  QInv'
<1>1. PICK ms : /\ Reads(ms)
                /\ ms \cap {"features-tls", "features-sasl", "features-bind", "end"} = {}
  BY DEF HandleProceed, HandleSuccess, HandleFailure, HandleBound, HandleSession
<1>2. /\ conn = "up" /\ Head(toClient) \in ms /\ Head(toClient) # "end" /\ calls = 1
      /\ calls' = calls /\ server' = server
  BY <1>1, ClientTurn
<1>3. /\ told.connected # 0 /\ (authenticated => server.authenticated)
      /\ told.ready = 0
      /\ Head(toClient) = "success" => server.authenticated
      /\ Head(toClient) \in {"bound", "bind-error", "session", "session-error"} => authenticated
      /\ Head(toClient) \in {"session", "session-error"} => bound
      /\ authenticated \/ ~bound
  BY <1>1, <1>2, ClientTurn DEF QInv, TurnsInv
<1>4. told \in Heard
  BY DEF TypeOK
<1>5. ASSUME NEW m \in ClientSays, toServer' = toServer \/ toServer' = Append(toServer, m),
             conn' = conn,
             m = "bind" => authenticated', m = "session" => authenticated' /\ bound',
             authenticated' => server.authenticated, authenticated => authenticated',
             bound => bound', bound' => authenticated',
             \/ told'.ready = 0
             \/ told'.ready = 1 /\ bound' /\ toServer' = toServer,
             told'.connected = told.connected
      PROVE  QInv'
  <2>1. TurnsInv'
    BY <1>1, <1>2, <1>5, ClientTalks
  <2>2. TriedInv' /\ FedInv'
    BY <1>2, <1>5 DEF TriedInv, FedInv
  <2>3. ReadyInv'
    BY <1>2, <1>3, <1>5 DEF ReadyInv, ReadyIsEarned
  <2> QED BY <2>1, <2>2, <2>3 DEF QInv
<1>6. CASE HandleProceed
  BY <1>2, <1>3, <1>5, <1>6 DEF HandleProceed, Reopen, Send, ClientSays
<1>7. CASE HandleSuccess
  <2>1. server.authenticated
    BY <1>3, <1>7 DEF HandleSuccess, Reads, Takes
  <2> QED BY <1>2, <1>3, <1>5, <1>7, <2>1 DEF HandleSuccess, Reopen, Send, ClientSays
<1>8. CASE HandleFailure
  <2>1. told'.ready = told.ready /\ told'.connected = told.connected
    BY <1>4, <1>8, ToldTypes, ToldFields, TypeParts, DisconnectedSays DEF HandleFailure
  <2> QED BY <1>2, <1>3, <1>5, <1>8, <2>1 DEF HandleFailure, Reopen, Send, ClientSays, fields
<1>9. CASE HandleBound
  <2>1. /\ authenticated' = authenticated /\ bound' = TRUE /\ authenticated /\ conn' = conn
    BY <1>3, <1>9 DEF HandleBound, Reads, Takes
  <2>2. CASE binding
    BY <1>2, <1>3, <1>5, <1>9, <2>1, <2>2 DEF HandleBound, Send, ClientSays
  <2>3. CASE ~binding
    <3>1. told' = [told EXCEPT !.ready = More(told.ready)] /\ toServer' = toServer
      BY <1>9, <2>3 DEF HandleBound
    <3>2. told'.ready = 1 /\ told'.connected = told.connected
      BY <1>3, <1>4, <3>1 DEF Heard, More
    <3>3. "auth" \in ClientSays
      BY DEF ClientSays
    <3> QED BY <1>3, <1>5, <2>1, <3>1, <3>2, <3>3
  <2> QED BY <2>2, <2>3
<1>10. CASE HandleSession
  <2>1. /\ authenticated' = authenticated /\ bound' = bound /\ authenticated /\ bound
        /\ conn' = conn
    BY <1>3, <1>10 DEF HandleSession, Reads, Takes, fields
  <2>2. told' = [told EXCEPT !.ready = More(told.ready)] /\ toServer' = toServer
    BY <1>10 DEF HandleSession
  <2>3. told'.ready = 1 /\ told'.connected = told.connected
    BY <1>3, <1>4, <2>2 DEF Heard, More
  <2>4. "auth" \in ClientSays
    BY DEF ClientSays
  <2> QED BY <1>3, <1>5, <2>1, <2>2, <2>3, <2>4
<1> QED BY <1>6, <1>7, <1>8, <1>9, <1>10

(* What says nothing: losing the connection, an error, an end.              *)
LEMMA SilentQueues ==
  ASSUME TypeOK, DialInv, QInv,
         \/ Lost \/ ServerEnds \/ ServerIgnores \/ HandleError \/ HandleEnd
         \/ HandleProceed /\ conn' = "down"
         \/ NothingParses /\ parser = "garbled"
  PROVE  QInv'
<1>1. /\ toServer \in Seq(ClientSays) /\ toClient \in Seq(ServerSays)
      /\ "end" \in ClientSays /\ "end" \in ServerSays /\ told \in Heard
  BY DEF TypeOK, ClientSays, ServerSays
<1>2. Fades(toServer, toServer')
  <2>1. toServer' = toServer \/ toServer' = Append(toServer, "end")
          \/ (toServer # <<>> /\ toServer' = Tail(toServer))
    BY DEF Lost, ServerEnds, ServerIgnores, HandleError, HandleEnd, HandleProceed, NothingParses,
           Send, Reopen, Reads, Takes
  <2> QED BY <1>1, <2>1, Fading
<1>3. Fades(toClient, toClient')
  <2>1. toClient' = toClient \/ toClient' = Append(toClient, "end")
          \/ (toClient # <<>> /\ toClient' = Tail(toClient))
    BY DEF Lost, ServerEnds, ServerIgnores, HandleError, HandleEnd, HandleProceed, NothingParses,
           Reads, Takes, Says
  <2> QED BY <1>1, <2>1, Fading
<1>4. /\ UNCHANGED <<calls, authenticated, bound>> /\ conn' \in {conn, "down"}
      /\ parser' \in {"waiting", "open"} => parser' = parser
      /\ toClient = <<>> => toClient' = <<>> \/ conn' # "connecting"
  BY DEF Lost, ServerEnds, ServerIgnores, HandleError, HandleEnd, HandleProceed, NothingParses,
         Reopen, Reads, Takes, fields
<1>5. server'.authenticated = server.authenticated
  BY DEF Lost, ServerEnds, ServerIgnores, HandleError, HandleEnd, HandleProceed, NothingParses,
         Reads, Takes, TypeOK
<1>6. told'.ready = told.ready /\ told'.connected = told.connected
  <2>1. ASSUME NEW t \in Heard, t.ready = told.ready, t.connected = told.connected, Disconnected(t)
        PROVE  told'.ready = told.ready /\ told'.connected = told.connected
    BY <2>1, TypeParts, DisconnectedSays
  <2>2. CASE Lost \/ (HandleProceed /\ conn' = "down")
    <3>1. Disconnected([told EXCEPT !.cut = TRUE])
      BY <2>2 DEF Lost, HandleProceed, Reads, Takes
    <3> QED BY <2>1, <3>1, ToldTypes, ToldFields
  <2>3. CASE HandleEnd
    BY <1>1, <2>1, <2>3 DEF HandleEnd
  <2>4. CASE ServerEnds \/ HandleError
    BY <2>4, ToldFields DEF ServerEnds, HandleError
  <2>5. CASE ServerIgnores \/ (NothingParses /\ parser = "garbled")
    BY <2>5 DEF ServerIgnores, NothingParses
  <2> QED BY <2>2, <2>3, <2>4, <2>5
<1> QED BY <1>2, <1>3, <1>4, <1>5, <1>6, NothingSaid

LEMMA NextQueues ==
  ASSUME TypeOK, DialInv, QInv, Next
  PROVE  QInv'
<1>1. CASE Close
  BY <1>1, CloseQueues, ToldTypes, ToldFields DEF Close
<1>2. CASE NothingParses /\ parser # "garbled"
  <2>1. CloseWith(told) /\ parser' = "broken" /\ conn = "up"
        /\ UNCHANGED <<calls, authenticated, bound, server>>
        /\ (toClient' = toClient \/ (toClient # <<>> /\ toClient' = Tail(toClient)))
    BY <1>2 DEF NothingParses
  <2> QED BY <2>1, CloseQueues, ToldTypes
<1>3. CASE HandleProceed \/ HandleSuccess \/ HandleFailure \/ HandleBound \/ HandleSession
  <2>1. CASE conn' # "down"
    BY <1>3, <2>1, TalkQueues
  <2>2. CASE conn' = "down"
    <3>1. HandleProceed
      BY <1>3, <2>2 DEF HandleSuccess, HandleFailure, HandleBound, HandleSession, Reads, Takes
    <3> QED BY <2>2, <3>1, SilentQueues
  <2> QED BY <2>1, <2>2
<1> QED BY <1>1, <1>2, <1>3, DialQueues, ConnectedQueues, ServerQueues, FeaturesQueues, SilentQueues
        DEF Next, Server, Receive

-----------------------------------------------------------------------------
(* What the application may rely on.                                        *)

LEMMA InitHolds == Init => CInv
<1> SUFFICES ASSUME Init PROVE CInv
  OBVIOUS
<1>1. DialInv /\ HostsInv
  BY DEF Init, DialInv, HostsInv, NothingHeard
<1>2. EndInv
  BY DEF Init, EndInv, EndsOnce, Endless, NewServer
<1>3. TriedInv /\ TurnsInv /\ FedInv
  BY DEF Init, TriedInv, TurnsInv, FedInv
<1>4. ReadyInv
  BY DEF Init, ReadyInv, ReadyIsEarned, NothingHeard
<1> QED BY <1>1, <1>2, <1>3, <1>4, InitTypes DEF CInv

LEMMA NextKeeps == CInv /\ [Next]_vars => CInv'
<1> SUFFICES ASSUME CInv, [Next]_vars PROVE CInv'
  OBVIOUS
<1>1. CASE UNCHANGED vars
  BY <1>1, StutterTypes
     DEF CInv, vars, dial, fields, DialInv, HostsInv, EndInv, TriedInv, TurnsInv, ReadyInv, FedInv,
         ReadyIsEarned
<1>2. CASE Next
  BY <1>2, NextTypes, NextDials, NextEnds, NextQueues DEF CInv, QInv
<1> QED BY <1>1, <1>2

LEMMA StreamInvariant == Spec => []CInv
BY InitHolds, NextKeeps, PTL DEF Spec

(* connect_client's hook of "disconnected" (verse.client): the application  *)
(* that has not closed hears "disconnected" before any "connected" only     *)
(* when every host of the SRV answer has been tried, however many.          *)
THEOREM HostsAreTried == Spec => []EveryHostIsTried
<1>1. CInv => EveryHostIsTried
  BY ClientAssumption DEF CInv, TypeOK, HostsInv, EveryHostIsTried
<1> QED BY <1>1, StreamInvariant, PTL

(* "ready" is said once, and of a stream that the server has authenticated  *)
(* and bound: of the first connect_client because client and server take    *)
(* turns, of a later one because its stream, fed twice, never gets so far.  *)
THEOREM ReadyIsDeserved == Spec => []ReadyIsEarned
<1>1. CInv => ReadyIsEarned
  BY DEF CInv, ReadyInv
<1> QED BY <1>1, StreamInvariant, PTL

(* Whoever closes, and if both sides do at once: the end of the stream is   *)
(* sent once (stream:close and the hook of streamclosed).                   *)
THEOREM EndIsSaidOnce == Spec => []OneEnd
<1>1. CInv => OneEnd
  BY EndsSay DEF CInv, EndInv
<1> QED BY <1>1, StreamInvariant, PTL
=============================================================================
