------------------------------- MODULE GroupChat -------------------------------
(***************************************************************************)
(* The rooms of verse.plugins.groupchat and the one room that wrapper.lua  *)
(* remembers, against chat rooms that admit or refuse us, throw us out and *)
(* have other occupants who come and go.                                   *)
(*                                                                         *)
(* Only the object in stream.rooms hears the room, so a room object is its *)
(* set of occupants: an object that join_room has replaced is not reached  *)
(* any more.  The chat rooms are external; a stream to each and back       *)
(* delivers in order.                                                      *)
(***************************************************************************)
EXTENDS Integers, Sequences, SequencesExt, FiniteSetsExt

CONSTANTS
  Rooms,        \* JIDs of chat rooms
  Others,       \* nicknames of other occupants
  Me,           \* our own
  None,
  MaxCalls,     \* bound: calls of joinRoom and leaveRoom
  MaxMoves,     \* bound: comings and goings of others, and kicks
  Manners       \* which applications there are, see MayJoin

Nicks == Others \cup {Me}
Occupancies == {who \in SUBSET Others : IsFiniteSet(who)}

ASSUME RoomAssumption ==
  /\ Me \notin Others /\ None \notin Rooms
  /\ MaxCalls \in Nat /\ MaxMoves \in Nat
  /\ Manners \subseteq {"patient", "callback", "hasty"}

VARIABLES
  rooms,        \* stream.rooms: the occupants of each room that is registered
  room,         \* the room of wrapper.lua
  leaving,      \* the room whose "groupchat/left" is being told, or None
  calls, moves,
  manner,       \* the application, one of Manners
  heard,        \* heard[j]: has the application "asked", is it "in", or "out"
  view,         \* view[j]: the other occupants it was told of
  up, down,     \* up[j], down[j]: presence on its way to the room and back
  inRoom,       \* the rooms that count us among their occupants
  members       \* members[j]: their other occupants

client == <<rooms, room, leaving>>
app == <<heard, view, manner>>
server == <<inRoom, members>>
vars == <<client, app, server, up, down, calls, moves>>

Presence == [nick : Nicks, type : {"available", "unavailable", "error"}]

TypeOK ==
  /\ DOMAIN rooms \subseteq Rooms
  /\ \A j \in DOMAIN rooms : rooms[j] \subseteq Nicks
  /\ room \in Rooms \cup {None} /\ leaving \in Rooms \cup {None}
  /\ calls \in 0..MaxCalls /\ moves \in 0..MaxMoves
  /\ manner \in Manners
  /\ heard \in [Rooms -> {"out", "asked", "in"}]
  /\ view \in [Rooms -> SUBSET Others]
  /\ up \in [Rooms -> Seq({"join", "leave"})] /\ down \in [Rooms -> Seq(Presence)]
  /\ inRoom \subseteq Rooms
  /\ members \in [Rooms -> Occupancies]

Init ==
  /\ rooms = <<>> /\ room = None /\ leaving = None
  /\ calls = 0 /\ moves = 0
  /\ manner \in Manners
  /\ heard = [j \in Rooms |-> "out"] /\ view = [j \in Rooms |-> {}]
  /\ up = [j \in Rooms |-> <<>>] /\ down = [j \in Rooms |-> <<>>]
  /\ inRoom = {}
  /\ members \in [Rooms -> Occupancies]

-----------------------------------------------------------------------------
(* The application.                                                         *)

(* A patient application joins a room when it knows that it is out of it,   *)
(* and not while that is being told; one that lives in callbacks also then; *)
(* a hasty one whenever it likes.                                           *)
MayJoin(j) ==
  CASE manner = "patient"  -> heard[j] = "out" /\ leaving = None
    [] manner = "callback" -> heard[j] = "out"
    [] manner = "hasty"    -> TRUE

(* join_room replaces whatever stream.rooms has under that JID.             *)
joinRoom(j) ==
  /\ calls < MaxCalls
  /\ MayJoin(j)
  /\ calls' = calls + 1
  /\ rooms' = [i \in DOMAIN rooms \cup {j} |-> IF i = j THEN {} ELSE rooms[i]]
  /\ room' = j
  /\ up' = [up EXCEPT ![j] = Append(@, "join")]
  /\ heard' = [heard EXCEPT ![j] = "asked"]
  /\ UNCHANGED <<leaving, view, manner, server, down, moves>>

(* The room stays in stream.rooms, and in `room', until it answers.         *)
leaveRoom ==
  /\ calls < MaxCalls
  /\ room # None
  /\ calls' = calls + 1
  /\ up' = [up EXCEPT ![room] = Append(@, "leave")]
  /\ UNCHANGED <<client, app, server, down, moves>>

-----------------------------------------------------------------------------
(* The hook "presence" of a room object.                                    *)

(* The next presence of a room.  Nobody hears it if the room is not         *)
(* registered; the hooks of "groupchat/left" return first.                  *)
NextPresence(j, types) ==
  /\ leaving = None
  /\ down[j] # <<>>
  /\ Head(down[j]).type \in types
  /\ down' = [down EXCEPT ![j] = Tail(@)]
  /\ UNCHANGED <<server, up, calls, moves, manner, room>>

Registered(j) == j \in DOMAIN rooms
Nick(j) == Head(down[j]).nick

(* Mistakes: an error that is taken for a presence, and one that is not     *)
(* told; occupants known by the address of their room; occupants that are   *)
(* kept; those that are not looked at before we are in ourselves; a room    *)
(* whose end is not told.                                                   *)
JoinFailsAndGoesOn(j) ==
  /\ NextPresence(j, {"error"})
  /\ Registered(j)
  /\ rooms' = [rooms EXCEPT ![j] = @ \cup {Nick(j)}]
  /\ heard' = [heard EXCEPT ![j] = "in"]
  /\ UNCHANGED <<leaving, view>>

JoinFailsUntold(j) ==
  /\ NextPresence(j, {"error"})
  /\ Registered(j)
  /\ UNCHANGED <<rooms, leaving, heard, view>>

OccupantJoinedByRoom(j) ==
  /\ NextPresence(j, {"available"})
  /\ Registered(j) /\ Nick(j) \notin rooms[j] /\ Nick(j) # Me
  /\ rooms' = [rooms EXCEPT ![j] = @ \cup {j}]
  /\ view' = [view EXCEPT ![j] = @ \cup {Nick(j)}]
  /\ UNCHANGED <<leaving, heard>>

OccupantJoinedAfterUs(j) ==
  /\ NextPresence(j, {"available"})
  /\ Registered(j) /\ Nick(j) \notin rooms[j] /\ Nick(j) # Me
  /\ IF Me \notin rooms[j] THEN UNCHANGED <<rooms, view>>
     ELSE /\ rooms' = [rooms EXCEPT ![j] = @ \cup {Nick(j)}]
          /\ view' = [view EXCEPT ![j] = @ \cup {Nick(j)}]
  /\ UNCHANGED <<leaving, heard>>

OccupantLeftStays(j) ==
  /\ NextPresence(j, {"unavailable"})
  /\ Registered(j) /\ Nick(j) \in rooms[j] /\ Nick(j) # Me
  /\ view' = [view EXCEPT ![j] = @ \ {Nick(j)}]
  /\ UNCHANGED <<rooms, leaving, heard>>

LeftUntold(j) ==
  /\ NextPresence(j, {"unavailable"})
  /\ Registered(j) /\ Me \in rooms[j] /\ Nick(j) = Me
  /\ leaving' = j
  /\ UNCHANGED <<rooms, heard, view>>

(* "groupchat/failed", or "groupchat/failed/locked": the room stays         *)
(* registered.                                                              *)
JoinFails(j) ==
  /\ NextPresence(j, {"error"})
  /\ Registered(j)
  /\ heard' = [heard EXCEPT ![j] = "out"]
  /\ UNCHANGED <<rooms, leaving, view>>

Joined(j) ==
  /\ NextPresence(j, {"available"})
  /\ Registered(j) /\ Me \notin rooms[j] /\ Nick(j) = Me
  /\ rooms' = [rooms EXCEPT ![j] = @ \cup {Me}]
  /\ heard' = [heard EXCEPT ![j] = "in"]
  /\ UNCHANGED <<leaving, view>>

OccupantJoined(j) ==
  /\ NextPresence(j, {"available"})
  /\ Registered(j) /\ Nick(j) \notin rooms[j] /\ Nick(j) # Me
  /\ rooms' = [rooms EXCEPT ![j] = @ \cup {Nick(j)}]
  /\ view' = [view EXCEPT ![j] = @ \cup {Nick(j)}]
  /\ UNCHANGED <<leaving, heard>>

(* The occupant is dropped when the hooks of "occupant-left" have returned, *)
(* from the object they were told of, which nothing else reads meanwhile.   *)
OccupantLeft(j) ==
  /\ NextPresence(j, {"unavailable"})
  /\ Registered(j) /\ Nick(j) \in rooms[j] /\ Nick(j) # Me
  /\ rooms' = [rooms EXCEPT ![j] = @ \ {Nick(j)}]
  /\ view' = [view EXCEPT ![j] = @ \ {Nick(j)}]
  /\ UNCHANGED <<leaving, heard>>

(* "groupchat/left": the application forgets whom it saw there.  The room   *)
(* is taken out of stream.rooms by its JID when the hooks have returned.    *)
Left(j) ==
  /\ NextPresence(j, {"unavailable"})
  /\ Registered(j) /\ Me \in rooms[j] /\ Nick(j) = Me
  /\ leaving' = j
  /\ heard' = [heard EXCEPT ![j] = "out"]
  /\ view' = [view EXCEPT ![j] = {}]
  /\ UNCHANGED rooms

Forgets ==
  /\ leaving # None
  /\ leaving' = None
  /\ rooms' = [i \in DOMAIN rooms \ {leaving} |-> rooms[i]]
  /\ UNCHANGED <<room, app, server, up, down, calls, moves>>

Unheard(j) ==
  /\ NextPresence(j, {"available", "unavailable", "error"})
  /\ ~Registered(j)
  /\ UNCHANGED <<rooms, leaving, heard, view>>

(* An occupant has changed, or is gone that was never there.                *)
NoNews(j) ==
  /\ NextPresence(j, {"available", "unavailable"})
  /\ Registered(j)
  /\ Head(down[j]).type = "available" <=> Nick(j) \in rooms[j]
  /\ UNCHANGED <<rooms, leaving, heard, view>>

-----------------------------------------------------------------------------
(* A chat room.                                                             *)

Tells(j, nick, type) == down' = [down EXCEPT ![j] = Append(@, [nick |-> nick, type |-> type])]
HearsUs(j, what) ==
  /\ up[j] # <<>> /\ Head(up[j]) = what
  /\ up' = [up EXCEPT ![j] = Tail(@)]
  /\ UNCHANGED <<client, app, members, calls, moves>>

(* Everybody who is there is presented first, ourselves last.               *)
Admits(j) ==
  /\ j \notin inRoom
  /\ HearsUs(j, "join")
  /\ inRoom' = inRoom \cup {j}
  /\ down' = [down EXCEPT ![j] =
       @ \o [i \in 1..(Cardinality(members[j]) + 1) |->
               [nick |-> Append(SetToSeq(members[j]), Me)[i], type |-> "available"]]]

Refuses(j) ==
  /\ j \notin inRoom
  /\ HearsUs(j, "join")
  /\ Tells(j, Me, "error")
  /\ UNCHANGED inRoom

(* A presence of somebody who is in is told to everybody, a leave of        *)
(* somebody who is not to nobody.                                           *)
Echoes(j) ==
  /\ j \in inRoom
  /\ HearsUs(j, "join")
  /\ Tells(j, Me, "available")
  /\ UNCHANGED inRoom

SeesUsLeave(j) ==
  /\ HearsUs(j, "leave")
  /\ IF j \in inRoom THEN Tells(j, Me, "unavailable") ELSE UNCHANGED down
  /\ inRoom' = inRoom \ {j}

Moves(j) ==
  /\ moves < MaxMoves
  /\ moves' = moves + 1
  /\ \/ /\ j \in inRoom                                               \* a kick
        /\ inRoom' = inRoom \ {j}
        /\ Tells(j, Me, "unavailable")
        /\ UNCHANGED members
     \/ \E o \in Others :
          /\ members' = [members EXCEPT ![j] = IF o \in @ THEN @ \ {o} ELSE @ \cup {o}]
          /\ IF j \notin inRoom THEN UNCHANGED down
             ELSE Tells(j, o, IF o \in members[j] THEN "unavailable" ELSE "available")
          /\ UNCHANGED inRoom
  /\ UNCHANGED <<client, app, up, calls>>

Hook(j) ==
  \/ JoinFails(j) \/ Joined(j) \/ OccupantJoined(j) \/ OccupantLeft(j) \/ Left(j)
  \/ Unheard(j) \/ NoNews(j)

Room(j) == Admits(j) \/ Refuses(j) \/ Echoes(j) \/ SeesUsLeave(j)

Next ==
  \/ leaveRoom \/ Forgets
  \/ \E j \in Rooms : joinRoom(j) \/ Hook(j) \/ Room(j) \/ Moves(j)

(* Hooks return, step() is called again and again, chat rooms answer.       *)
Fairness ==
  /\ WF_vars(Forgets)
  /\ \A j \in Rooms : WF_vars(Hook(j)) /\ WF_vars(Room(j))

Spec == Init /\ [][Next]_vars /\ Fairness
-----------------------------------------------------------------------------
(* Properties.                                                              *)

Quiet(j) == up[j] = <<>> /\ down[j] = <<>> /\ leaving = None

(* With a patient application and nothing on its way, we know who is in the *)
(* room, whatever met on the wire: leaves and kicks, joins and refusals.    *)
OccupantsAgree ==
  \A j \in Rooms : manner = "patient" /\ Quiet(j) =>
    /\ j \in inRoom <=> heard[j] = "in"
    /\ j \in inRoom => Registered(j) /\ rooms[j] = members[j] \cup {Me}

(* However hasty the application: a room that lists us among its occupants  *)
(* does have us, once nothing is on its way.  The converse fails: a second  *)
(* join before the first is answered can lose a room that we are in.        *)
BelievedIsTrue ==
  \A j \in DOMAIN rooms : Quiet(j) /\ Me \in rooms[j] => j \in inRoom

(* What the events have told a patient application is what the room object  *)
(* knows.                                                                   *)
ViewIsOccupants ==
  manner = "patient" =>
    \A j \in Rooms :
      view[j] = IF Registered(j) /\ leaving # j THEN rooms[j] \ {Me} ELSE {}

(* A patient application that joins hears that it has joined or failed.     *)
JoinIsAnswered ==
  \A j \in Rooms : manner = "patient" /\ heard[j] = "asked" ~> heard[j] # "asked"

(* A patient application that leaves a room it is in hears that it has left.*)
LeaveIsHeard ==
  \A j \in Rooms :
    manner = "patient" /\ heard[j] = "in" /\ Contains(up[j], "leave") ~> heard[j] = "out"

(* README.md, line 69: "After connecting, the only way to interact with the *)
(* XMPP system is from an event callback."  A join from a callback is       *)
(* answered like any other.                                                 *)
CallbackJoinIsAnswered ==
  \A j \in Rooms : heard[j] = "asked" ~> heard[j] # "asked"
=============================================================================
