# TLA+ models of lua-otalk

lua-otalk (OTalk++) gives a C++ application Jingle signalling over XMPP: a C++
class (`otalk.cpp`) drives a Lua script (`wrapper.lua`), which drives an XMPP
client (`verse.lua`, one squished file with the event loop of Prosody inside)
and a Jingle session manager (`sessionManager.lua`, `basejingle.lua`,
`jingleMedia.lua`).  Between C++ and Lua stands a header-only binding
(`include/*.h`) that keeps Lua values on the Lua stack.  This directory models
the part of all this that a test hardly reaches: what happens to sessions, rooms,
streams and sockets when requests of peers, calls of the application, hooks,
failures and hang-ups meet in an order nobody planned; which slot of the stack
belongs to whom when C++ objects die in any order; what becomes of a value that
crosses from C++ to Lua and back.

## 1. The system

| part | source | state | operations | behaviours that are hard |
|---|---|---|---|---|
| session manager | `sessionManager.lua` | `global.sessions` (sid to session), `global.peers` (JID to list of sessions) | `newSession`, `endSessionBySID`, `endSessionsForJID`, `getSessionsByJID`, `handle` | hooks fire in the middle of an operation and call back in; two tables that must agree; reuse of a sid |
| Jingle session | `basejingle.lua`, `jingleMedia.lua` | `isPending`, `local_state`, `remote_state`, `initiator` | `process` and its handlers, `initiateSDP`, `acceptSDP`, `addCandidate`, `sendMediaInfo`, `terminate` | requests out of order; the reply is sent before the request is looked at; handlers that raise |
| application API | `wrapper.lua`, `otalk.cpp` | `c`, `room` | 20 calls, each a thin shell around the session manager or the client | a call made from a hook |
| event loop | `net.server` in `verse.lua` 2155-3099 | socket lists, `_closelist`, timers, `quitting` | `loop`, `step`, `addtimer`, `wrapconnection` and the methods of its handlers | partial writes, a close with output pending, an error inside a step |
| XML stream | `util.xmppstream`, `verse.client` 3100-3316, 8534-8753 | parser, `notopen`, `closed`, `tracked_iqs`, `curr_id`, `srv_choice` | `connect_client`, `reopen`, `close`, `send_iq`, the stanza hooks | SRV failover, a second `connect_client`, late answers |
| stream core | `verse` 8905-9152 | `conn`, `plugins`, `events` | `connect`, `set_conn`, `close`, `step`, the listener | a listener of an old connection |
| events, timers | `util.events` 3426-3510, `util.timer` 757-843 | handler maps and their sorted index; two task lists | `add_handler`, `remove_handler`, `fire_event`; `add_task`, the timer function | registering while an event is being fired |
| group chat, disco, version | `verse.plugins.*` | rooms and occupants; caps; - | join, leave, presence handling | nickname conflicts, presence before the join is confirmed |
| stream negotiation | plugins `tls`, `sasl`, `bind`, `session` | features seen, authenticated, bound | feature handlers | ordering of restarts |
| smacks | `verse.plugins.smacks` | unacked queue, counters | send, ack, resume | reconnect; not loaded by `wrapper.lua` |
| Lua binding: values | `LuaValue.h`, `LuaStackItem.h`, `LuaState.h`, `LuaReturn.h`, `LuaRef.h`, `LuaFunctor.h` | the stack of each frame, the `StackItem` of each `Value`, one `DeallocQueue`, registry keys of `Ref`s | `operator[]`, calls, `tie`, `Ref` and `unref`, functors called from Lua, destructors | values die in any order, slots are popped from the top; callbacks have a stack of their own and share the queue; calls that fail |
| Lua binding: conversions | `LuaStack.h`, `LuaPrimitives.h`, `LuaValue.h` | the Lua value in a slot | `push`, `check`, `read`, `set`, `get`, `to`, comparisons | widths and roundings of numbers; reading as a string changes the slot |

They interact by calls and by callbacks on one thread: the application calls
`step()`, the loop reads the socket, `incoming-raw` feeds the parser, a complete
stanza fires `stanza`, the fallback hook of `verse.client` fires
`iq/urn:xmpp:jingle:1`, `sessionManager.handle` runs, answers, and fires
`jingle/...` events, whose hooks are C++ functions that may call the API at once.
There is no lock and no second thread, and still nothing is atomic: every
`c:event` is a point where anything can happen to the tables.  Two endpoints
share nothing but their two streams.

What makes each part correct: the session tables agree with each other and with
what the application was told; a loop over sessions ends what it visits and
terminates; no legal traffic raises inside a handler, because an error inside a
step leaves `quitting = "once"` behind (`verse.lua` 2946) and no later step ever
reads the socket again; two ends of a call agree when nothing is in flight; a
hang-up arrives; output leaves whole and in order, or the loss is reported; a
stream says `ready` only when it is; what the application was told of a room is
what the room is; a live `Value` owns its slots and designates what it was got
for, and the last one leaves the stack as it was; what a check promises a read
delivers.

## 2. Modules

| module | models |
|---|---|
| `JingleSession` | the session objects and the registry as pure operators on a record `[obj, sessions, peers]`: `newSession`, `Unregister`, `removeSessionFromPeers`, the assignments of the media handlers, and `Verdict`, the branch that `handle` takes on a request |
| `SessionManager` | one endpoint under arbitrary requests and arbitrary calls from hooks; a Lua call stack of suspended activations |
| `CallProtocol` | abstract specification: what applications may rely on about a call |
| `JingleCall` | two endpoints and the stream between them; implements `CallProtocol` |
| `Connection` | one client connection of `net.server`, a pass of its loop, the watchdog timer, and `stream:close` and the listener of verse above it |
| `ClientStream` | `connect_client` from the SRV lookup to `ready` and to the end of the stream, with the plugins tls, sasl, bind and session; a second `connect_client` |
| `GroupChat` | the rooms of `verse.plugins.groupchat`, the one room of `wrapper.lua`, chat rooms at the other end |
| `StackItems` | one frame of the Lua stack: who owns which slots, the deallocation queue, the destructor that empties it |
| `LuaValue` | the `Value`s and the `Ref` of a host program and of callbacks inside its calls, each frame a `StackItems`, with what every slot holds |
| `Conversions` | what becomes of a C++ value of each type that is stored in Lua, checked, read and compared |
| `JingleSessionProofs`, `SessionManagerProofs`, `LuaValueProofs`, `ConversionsProofs`, `ConnectionProofs`, `JingleCallProofs`, `ClientStreamProofs`, `GroupChatProofs` | lemmas and theorems |
| `MC...` | instances for TLC |

**State and code.**  `reg.obj` are the tables that `Jingle:new` made, in order;
an object is named by its position, because two may have the same sid.
`reg.sessions` and `reg.peers` are `global.sessions` and `global.peers`; a key
whose value is nil is not in the domain.  `remote` says that `remote_state` is no
longer the `{}` of `newSession`, `isPending` is itself.  `isEnded` and
`pendingAction` are `false` from `Jingle:new` on and nothing sets them, so they
are not state.  A peer is a full JID; `peerID` and `peer` are equal in every
session that `newSession` makes and are one field.  In `SessionManager`, `calls`
is what goes on when the current hook returns: a handler with events left to fire,
an `endSessionsForJID` with the copy of the list it walks, or one of the two sends
that stand between a change of the registry and the event that tells of it: the
`session-terminate` of `endSessionBySID` with `notify` (`sessionManager.lua` 106-108)
and the reply to an offer.  The hooks of outgoing data run there, and the send
itself may raise.  `status` is `running`, `wedged` (an error inside a step) or
`aborted` (an error in a call from C++, which nobody catches).  `replies` are the
answers to the last request, `view` is what the application holds: the sids it has
made or was offered and was not told the end of.  `astray` is a history, the sids of
which it was last told wrong.  In `JingleCall`, `app` is what each application has seen
of each session, `net` the two streams, `repeated` the sids offered more than once.

In `Connection`, `bufferqueue` holds writes by number, a partial send leaves a
prefix of the queue on the wire; `listed` is membership in `_sendlist`, `timed`
in `_writetimes`, `closelist` in `_closelist`.  `stack` is what Lua still has to
do when the current hook returns: the rest of the pass of `loop`, of
`_sendbuffer`, of `handler.close`, of `stream:close`.  `accepted`, `wire` and
`told` are histories.  In `ClientStream`, `srv_choice`, `closed`, `secure`,
`authenticated`, `bound` are the fields of the stream; `parser` is whether the
XML parser waits for a header, is open, or cannot recover; the connection is
reduced to whether it is up, and the server is external.  In `GroupChat`,
`rooms` is `stream.rooms`; an object is its set of occupants, because an object
that `join_room` has replaced is no longer reached by any stanza; `leaving` is
the room whose `groupchat/left` is being told, after which it is removed by JID.

In `StackItems`, an item is the `StackItem` of a `Value`: it owns the slots
`top + 1 .. top + pushed`, `grouped` is `grouped` and `managed` is
`_deallocQueue != nullptr`.  `queue` is the `DeallocQueue`, keyed by the name of
the item that left the entry; `draining` is the `top` of a destructor that is in
its loop.  Copies of a `Value` share one item and are not told apart.  In
`LuaValue`, `slots` is the content of the stack: a number names the slot where a
value was first pushed, so that values that are not the same differ.  `saved` are
the frames below, suspended in a `call`; `queue` is not saved with them, because
there is one.  `means` is a history: what the user of a `Value` got it for;
`astray` is another: calls, arguments and references that hit something else.

The header lets its user do things that it does not survive.  They are not
forbidden in the models but remembered in `taken`, the *liberties*, and each
property says which it survives:

- `Unsafe`, after which a slot may be owned twice or popped while owned:
  *buried chain* (`operator[]` of a temporary that is not at the top), *buried
  tie*, *wide tie* (more variables than results), *buried ref* (a `Ref` of a value
  that is not at the top), *asked* (`is<lua::Callable>()` of a value without a
  metatable), *shared queue* (entering or leaving a callback with the queue
  non-empty, or leaving it with a `Value` as its result).
- `Untidy`, after which slots may stay behind: *zero* (an entry of the queue
  without slots, left by a call without results or by the value of a tie, lies among
  the slots of another value, or is passed by when a `Ref` or a call without results
  pops the top, or when an entry with slots at the same height is popped before it,
  whose order the queue leaves open; it is then never popped, nor what lies below it),
  *failed* (a temporary whose call threw), *chained tie*, *foreign ref*
  (a `Ref` made of a callback's parameter, unreferenced in the host).  An ordinary tie
  takes none of them.  TLC finds `HostLeaksNothing` violated if any one of the four
  cases of *zero* is not counted as a liberty.
- `Misleading`, after which the right number of slots holds the wrong value:
  *chained tie*, *chained argument* (a chained value as an argument passes its
  first slot), *misled call* (calling a temporary with several slots), *outer
  value* (a callback calls a `Value` of the frame below), *empty value* (reading,
  indexing, calling or referring to a `Value` without results or whose results a tie
  has taken: `LuaValue.h` 72 makes one with `pushed = 0` and `grouped = 0`, whose
  index is the slot below, of somebody else).

In `Conversions`, numbers are integers in units of `2^-Fraction`, and the widths
of `lua_Number`, `float`, the integers and of the text of a number are constants.

**Handlers.**  An action is a handler up to its next `c:event`, or up to the send
that goes before it; the rest of it is the step taken when the hooks have returned
(`NextEvent`, `NextSession`, `HandlerEnds`, `HandlerRaises`, `SessionEnded`,
`SessionOffered`), or `SendFails`.  The other sends of the handlers and of the API
lie before the first change of the registry or after the last, so what their hooks
do is what hooks of an event may do, and if they raise it is as in `BrokenCall` and
`RaiseOnRequest`; they are not steps of their own.  An application that goes on using
a session object after it has been replaced has no API to do so (all calls take a sid).  A stanza has no method `error_reply` (`verse.lua` defines it as
a function of the module only, 700-708), so the six branches of `handle` and the
branches of `process` that call `req:error_reply(...)` raise; the tie-break
branch raises earlier, on the undefined global `c` (`sessionManager.lua` 221).
`Verdict` therefore splits requests into those that are refused (`Refusals`),
those that raise (`Raises`) and those that reach their handler.
`session-terminate` loses the `return true` of `onSessionTerminate`
(`sessionManager.lua` 280), and `content-add`, `transport-replace` return
nothing, so `verse.client` adds `service-unavailable`.

## 3. Runs

| run | configuration | what it asks | what it shows |
|---|---|---|---|
| `manager` | 3 sids, 2 peers, 3 objects, stack of 3, 1 event | do the tables stay consistent whatever peers send and hooks call, with sids reused at will; and if none is reused, do the lists hold live sessions only, and does hanging up on one peer spare the others | `RegisteredIsListed` and `VisitedAreEnded` hold; `ViewIsRegistry` does up to what its four exceptions name: an end or an offer on its way, an error in its send, a sid used again; `ListedIsRegistered` and `EndsOnlyThatPeer` hold until a sid is used a second time (`AllFresh`), and both fail without that condition |
| `manager_returns` | 2 sids, 2 peers, 2 objects, stack of 3, 2 events | does every loop and every handler end when hooks start sessions, reuse sids and hang up on either peer from inside | `CallsReturn` holds if every hook returns |
| `out_of_order` | 2 sids, 2 objects, 2 events | are a second offer and a second answer themselves answered, as the comments say | no: the handler raises (finding) |
| `call` | 2 endpoints, a sid each, 1 info, candidate or repeated message each, 1 sid that may be offered again, applications careful or hasty | do crossing requests ever kill a loop; do the ends agree; do hang-ups arrive; who can lose the loop when applications are hasty | `QuietAgreement`, `HangUpReaches` hold for careful applications, and nobody's loop dies; with hasty ones only a caller's can (`OnlyCallersWedge`), unless a session is offered again, which kills the callee's; `CallProtocol` is implemented with either, by sessions offered once |
| `connection` | 4 writes, a send buffer of 3, 9 suspended functions | is output ever lost, doubled or reordered; is a socket ever forgotten or kept after its end; can the loop die | no (`OutputInOrder`, `OutputLeaves`, `LossIsReported`, `RefusalIsReported`), no (`ListsAreTrue`), and not under a careful application (`NothingRaises`) |
| `client` | 2 calls of `connect_client`, 3 SRV hosts, 1 failed authentication, TLS and a session | is every host tried; is `ready` earned, also with the flags of an earlier connection; is the stream ended once; does something always come of the first call | `EveryHostIsTried`, `ReadyIsEarned`, `OneEnd`, `Settles` hold |
| `client_again` | the same without TLS and session, 2 hosts | does `ready` come | not on a second `connect_client`, whose doubled hooks garble the parser (finding) |
| `rooms` | 2 rooms, 1 other occupant, 4 calls, 1 move, applications patient or hasty | do application, room object and chat room agree; is every join and leave answered | yes for a patient application; a hasty one never believes in a room it is not in |
| `rooms_callback` | 1 room, 4 calls, 2 moves, an application that joins from callbacks | is a join from a callback answered | not from the callback of `groupchat/left` of the same room (finding) |
| `values` | 3 values alive or queued in a frame, 2 slots below, 5 slots, 2 results, callbacks of depth 1 | does a live value keep its slots, designate what it was got for unless it is empty, and do reads, calls, arguments and references go where they were meant; is the stack empty in the end | `Kept` holds until an unsafe liberty is taken, `ValuesKeep` and `NothingAstray` until an unsafe or a misleading one, `HostLeaksNothing` if none at all is taken |
| `values_emit` | the same | does `emit` work in a callback, where README.md says it is used | no: it calls what is at its index of another stack (finding) |
| `conversions` | a `lua_Number` of 4 bits, a `float` of 2, texts of 3; `int` of 4, `short` of 3, `long` of 6 | what survives being stored and read; which checks see it | `RoundTrip`, `ChecksDeliver`, `WholeNumbersCompare`, `TextChangesNothing` hold under the conditions that they state; `IntegersAreSeen`, but for -1 and -2 |

**Applications.**  Several properties hold for a disciplined application only;
the model has the other kind too, so what discipline buys is visible.

- `careful` (`Connection`): touches nothing once it has closed the connection or
  heard that it is gone, nor while it hears `drained`.  Without it
  `NothingRaises` fails in four ways: a write after a close with output pending
  calls a nil `handler.write`; such a write that overflows the buffer indexes
  `_closelist` with nil; a write and a failing close inside `drained` leave
  `_sendbuffer` with a nil handler; a close inside the `disconnected` that reports
  an overlong read leaves `_readbuffer` with one, since `verse.lua` 2611 alone of the
  paths does not ask whether the handler is still there.  All other properties hold
  without it.  Writes of the library itself after a hook (`verse.lua` 4560-4562) are
  not those of an application and not in this module.
- `patient` (`GroupChat`): joins a room when it knows it is out of it.  A hasty
  one replaces the room object before its answers have come, and the answers of
  the old stay fill or end the new object: a room that we are in may be lost.
- `hasty` (`JingleCall`): fixed in the initial state.  Applications that are not
  offer once, answer once, send candidates after their own description and
  announce every hang-up; hasty ones trickle at any time, may answer twice,
  may hang up silently and may offer a session again (in the run one of the two
  sids, `Again`).  A repeated offer makes the callee raise (`sessionManager.lua` 221):
  `repeated` remembers it, `OnlyCallersWedge` excepts such histories, and to
  `CallProtocol` the session is over from then on.
- `taken` (`StackItems`, `LuaValue`): see above.  The C++ code of the repository
  takes none of the liberties: `otalk.cpp` calls one temporary at the top at a time, and
  `example.cpp` chains fields at the top and calls `emit` in the host only.  They
  are open to the programs that the header is for; the use of `emit` that
  README.md describes takes *outer value*.

Three more facts the runs brought out and no property states: a connection that is
refused is reported as `connected` first (`verse.lua` 3011 fires on writeable), so
the failover to the next SRV host covers only connects that fail at once; and a
`close` while a host is being dialled counts as a failure and dials the next.
A third is the exception of `OutputLeaves`: output written before the end of the first
pass of the loop has no entry in `_writetimes`, because `_currenttime` is still nil
(`verse.lua` 3052), so if the socket is stuck and nothing more is written the watchdog
never sees it and it stays for ever, unreported.

The client stream is also run where LuaSec is missing: a server that offers TLS is then
answered by sasl, in the clear, as `verse.lua` 4498 has it.  The end of the server's
stream is heard by a parser that is fed twice as well, since it closes the second
header and then the first.

Facts about the binding that the models brought out and that no property states:
a comparison with the constant on the left is the same code as with it on the
right, so `x < value` asks whether the value is less than `x`
(`LuaValue.h` 411, 420, 429, 438); the constructor of `State` leaves two values on the
stack (`Base = 2`), so `checkMemLeaks` would fail in every debug build;
`getNumber`, `getInt` and their kin take what they should fill by value; nothing
calls `lua_checkstack`, so a frame overflows after 20 slots unnoticed.

**Bounds.**  `MaxSessions` objects are enough for two objects with one sid and a
third beside them, which is what the lists can confuse; where liveness is asked,
two objects leave a loop one stale entry and one session begun by its own hook; `MaxCalls = 3` puts a
loop inside the hook of a loop inside a handler, or a loop with the send of a
terminate; two sids are one that is used again and one that is not; with a third, a
loop over two sessions of one peer has one of the other beside it (there
`Shallow` keeps the stack to one activation, and to two wherever there is a third
object; the theorems have no such bounds); `MaxEvents = 2`
leaves an event after the one whose hook ended the session, in the two runs of two
objects.  In the third, a handler with one event suffices, since events change nothing
but what hooks do.  Two sids in `JingleCall`, one from
each side, are two calls that cross; sessions do not touch each other there
except through the peer list, so a third adds nothing new; one of them may be offered
again, so the other shows what that does to its neighbour.  In histories with a
repeated offer the queues are kept to two requests each (`ShortQueues`); those are
histories of hasty applications, which `HangUpReaches` and `QuietAgreement` leave out,
and the theorems cover them all.  In `Connection`,
three writes fill the buffer and a fourth overflows it; `MaxDepth = 9` leaves
room for a close inside a hook of a close inside a pass with its frames.  Three
hosts are a first, a last and one between; one failed authentication leaves the
retry that follows it; a second `connect_client` doubles the hooks, a third would
treble them.  Four calls are two joins and two leaves, in one room or in two; the
rooms interact only through `room` and `leaving`.  In `values`, three names are a
value at the top, one below it and one in the queue, or a value with an argument
and a callback's parameter; five slots are `Base` and three more, so that an entry
of two slots lies below a live one.  Its state constraints leave out the states after
an unsafe or misleading liberty (`Disciplined`, which also keeps untidy ones to one
at a time).  Of these `TypeOK` speaks, and `Kept` of those after a misleading one: there
the theorems `ValuesAreTyped` and `ValuesKeepSlots` stand for the run.  They also bound the
stacks of a callback and its host together (`SmallCallbacks`) and the values
without content (`FewEmpty`).  In `conversions`, widths are as small as they can
be with the order of the real ones kept (a float is shorter than a text, a text
than a number, a `short` than an `int`, an `int` than a `long`, a `long` beyond what a number
holds exactly), so every boundary has a neighbour on both sides.  Deadlock is not checked: a
program whose bounds are used up, or that aborted, stops.  Symmetry is used in
runs without liveness only.

**Fairness.**  `SessionManager`: a hook of the application returns, however often
it calls the API before; C++ callbacks that never return would block the thread.
Because an outer hook waits while an inner one runs, its return is not enabled all
the time, so the assumption is strong fairness, one for each depth of the stack:
`SF_vars(Len(calls) = depth /\ HookReturns)`.  Weak fairness of `HookReturns`
would be satisfied by the inner hooks alone, and an outer one could call
`endSessionsForJID`, whose list may hold stale entries of another peer's
sessions, for ever.  Peers and API calls have no fairness.  `JingleCall`: each endpoint goes on
handling what arrives (`WF_vars(Handle(e))`), which is the application calling
`step()` again and again, as `example.cpp` leaves it to do (`wrapper.lua` 299 has
the `verse.loop()` that would do it commented out); the stream delivers
what was written.  Applications have none: they may never answer.
`Connection`: Lua goes on (`Lua`), hooks return, `step()` is called (`Step`), and a
send that stays stuck is met by the watchdog in the end (`SF_vars(SendTimeout)`).
The last is the weakest assumption of the project: the watchdog looks every
1,200,000 s, although the limit is 60,000 s, and each partial send renews the stamp it looks
at, so the model assumes that a socket does not swallow a little for ever.
`ClientStream`: the resolver answers, `start_connect` runs, a socket that is being
connected becomes writeable or fails, what arrives is read, the server goes on.
`LuaValue` and `Conversions` have no liveness: a program may stop at any time.
`GroupChat`: hooks return, what arrives is handled, chat rooms answer what they
hear; the application and the other occupants do as they like.

## 4. Proofs

**Session manager.**  `SessionManagerProofs` proves, for every set of sids and JIDs
and every bound, from `BoundsAssumption` alone:

- `TypeCorrect`: `Spec => []TypeOK`
- `RegistryConsistent`: `Spec => []RegisteredIsListed`, so `#sessions` in
  `removeSessionFromPeers` never meets nil
- `ViewFaithful`: `Spec => []ViewIsRegistry`
- `LoopsEndWhatTheyVisit`: `Spec => []VisitedAreEnded`
- `ListsAreLive`: `Spec => []ListedIsRegistered`
- `HangUpSparesOthers`: `Spec => EndsOnlyThatPeer`, an action property

The inductive invariant `IInv` holds the first four in a stronger form.  They need
each other: that `endSessionBySID` does not raise while it looks for the session in
the list of its peer is `RegisteredIsListed`; a visited object stays ended because
objects are never registered twice, which needs every registered position to be at
most the number of objects, a part of `TypeOK`.  The view parts from the registry
between the change and the event, so what is kept (`Told`) is a relation of view,
registry and stack: a sid that is registered and not in the view is being offered by a
frame of the stack, is astray, or was used for two objects; one in the view and not
registered is being ended by a frame or is astray.  When a frame is popped its sid is
either told or put into `astray`, and an error puts there the sids of all frames it
unwinds (`RaiseStep`).  Beneath it, `Past` says of a sid
whose end is suspended that an object has had it and that it is registered only if it
was used again, also when more objects are made (`PastNew`).  The proof has one lemma per operator that changes the registry
(`NewSession`, `UnregisterSession`, `SetFlags` in `JingleSessionProofs`) and one step
per action.

The last two stand on `FInv`, which adds to `IInv`: with no sid reused, every id
in a list is registered under its own sid (`Live`), and what a suspended loop has
yet to visit belongs to the peer it was called for (`LoopsOfPeer`).  Neither
follows from `IInv`, which allows stale entries; the second is what remains true
of the copy of a list while hooks change the list itself.

**Values on the stack.**  The first part of `LuaValueProofs` is about one frame
(`StackItems`), for any set of items, any `Base` and height, from `StackAssumption`
alone:

- `StackType`: type correctness of a frame
- `SlotsKept`: `StackSpec => []Kept`
- `FrameLeaksNothing`: `StackSpec => []NothingLeaks`

`Kept` is not inductive, because it says nothing of the queue.  `KeptInv` treats a
live item and an entry of the queue alike, as a range `Lo + 1 .. Hi`: the ranges
are pairwise disjoint (`Apart`) and below `Limit` (`Within`), which is the height,
or `draining` while a destructor empties the queue: it has given up what is
above already.  Two shapes of step cover all operations: the range at the top
changes (`TopChangesKeeps`) or a new one is put on top (`TopAddedKeeps`).  That
nothing is left needs the converse: every slot above `Base` is in some range
(`Covered`), all items pop (`Managed`), and the top slot belongs to a live item, not to
the queue (`Topped`), so that the last one to die finds all the others directly below
it.  An entry of the queue without slots is in no one's way only if the height comes
back to its own: it lies below the height and among nobody's slots (`Poppable`), so a
destructor that pops past it stops there first.

The second part, for any number of results and of callbacks inside callbacks, from
`StackAssumption` and `ValueAssumption`, proves every invariant that the run checks:

- `ValuesAreTyped`: `Spec => []TypeOK`
- `ValuesKeepSlots`: `Spec => []Kept`
- `HostLeavesNothing`: `Spec => []HostLeaksNothing`
- `ValuesDesignate`: `Spec => []ValuesKeep`
- `MeantIsUsed`: `Spec => []NothingAstray`

`TypeOK` holds whatever liberties are taken, so it cannot lean on the rest.  What
makes it inductive is that names are in use once (`NamesOnce`): the items of a
suspended frame are not among those of any other nor in the queue, which is shared,
so that the frame that goes on finds its items its own; and that a frame is
suspended with the slots and the call in progress that it will go on with
(`FrameTyped`).

For `Kept`, the steps within a frame are steps of `StackItems`, to which the lemmas apply.  New
are the frames below: each is well-formed when it is suspended and, because the
queue was empty then and is empty now, still is when it goes on (`SavedOK`); what a
call in progress has noted about its frame stays true (`CallOK`).  For
`HostLeaksNothing`, the bottom frame is covered and topped also while callbacks run
(`HostTidy`), whatever their own stacks are like: a callback's parameter does not
pop, so `Managed` is false there.

`ValuesKeep` says what is in the slot that a Value's index names; it needs that
the index is inside the Value's own slots (`Content`), which is so of every Value that
is not empty, and the same of the frames below (`FrameMeant`).  Empty ones may be
made and kept; the property says nothing of what they designate, and their use is the
liberty *empty value*.  Then every operation either only pushes
(`Grown`), or pops slots none of which a Value that lives on has (`Fewer`), or puts
results where the function was (`Replaced`, `Dropped`); that no live Value has
what is popped is `Within` and `Apart` of the frame before and after, which
`ValuesKeepSlots` has.  Variables of a tie are right because the results of a call
lie one above the other from the Value's index (`Tied`).

**Connection.**  `ConnectionProofs`, for any number of writes, any size of the
buffer and any depth of hooks, from `ConnectionAssumption` alone, proves every
invariant that the run checks:

- `ConnectionTypes`: `Spec => []TypeOK`
- `OutputStaysInOrder`: `Spec => []OutputInOrder`
- `ListsStayTrue`: `Spec => []ListsAreTrue`
- `LossStaysReported`: `Spec => []LossIsReported`
- `NothingEverRaises`: `Spec => []NothingRaises`

The first half is about data and says nothing of control.  `NextMoves` reduces every
action to one of five moves (`Stands`, `Ends`, `Sends`, `Opens`, `Takes`), and
`DataInv` is inductive under them: the equation `wire \o bufferqueue = accepted`
needs that a cut of the buffer loses nothing (`CutFacts`), and that nothing is ever
accepted into or cut from the buffer of a closed connection and then sent.  For the
lists the invariant is stronger than the property: it holds inside a pass as well.

The second half is about the functions that wait for their hooks.  `Kept` says of a
stack what is still owed: once the connection is lost, or a `close` waits for its
buffer, a disconnect has been heard or some `stream:close` on the stack will report
it; a function that closes by force stands there only if one was heard.  Every
operation goes on with what it was called from (`StepTo`, `LoseTo`), so each case
asks only whether that was sound.  That a careful application never meets a raise
needs one thing more, for the function that waits while the application hears that
the buffer has drained: it is on top of the stack only, and the socket is still open
when it goes on.  That is the second disjunct of `StackInv`.

**Call.**  `JingleCallProofs`, for any number of sessions and of requests between
the two endpoints, from `CallAssumption` alone, proves every safety property that
the run checks:

- `CallTypes`: `Spec => []TypeOK`
- `CalleesAreSafe`: `Spec => []OnlyCallersWedge`
- `QuietEndsAgree`: `Spec => []QuietAgreement`
- `CallsFollowProtocol`: `Spec => ImplementsProtocol`, the refinement

The inductive invariant `CallInv` adds two things to `TypeOK` and `OnlyCallersWedge`, of sessions that have
not been offered again (of the others it says only what of the registry and the
queues `TypeOK` and `Keeps` need).  `Keeps` ties each registry to its
own application: a session is registered while the application knows it and has not
seen its end, pending while it is offered or rings, and has the description of the
other side at the callee, or once it is established.  `CallOK` follows one session
from its caller to its callee, through what both have seen of it and what the two
queues hold of it: an offer is made once and answered by the callee only
(`Ordered`); what can make a loop raise, an answer nobody waits for or a candidate
before it, comes from a callee that has sent more than its one answer
(`Excused`); and with careful applications whatever one end does not know yet is in
the queue, behind what must come first (`Told`).  `QuietAgreement` is what `Told`
says when the queues hold nothing.

Queues carry the requests of all sessions, but what matters to one session is only
whether a request of it is there, twice, or before another (`Has`, `Twice`, `Leads`,
`Follows`).  `Sending` and `Taking` say what becomes of these when a request goes
behind the others or is taken from the front, and that other sessions do not notice.
Then each action is a step of one session (`SendStep`, `TakeStep`).  For the
refinement, what one application sees of a session only goes forward
(`StepsOnward`), and with `Ordered` before and after such a step is a move of the
protocol or none (`StatusMoves`, `CallMoves`).

**Client stream.**  `ClientStreamProofs`, for any number of calls of
`connect_client`, of SRV hosts and of failed authentications, with or without TLS
and sessions, from `ClientAssumption` alone, proves every invariant that the run
checks:

- `StreamIsTyped`: `Spec => []TypeOK`
- `HostsAreTried`: `Spec => []EveryHostIsTried`
- `ReadyIsDeserved`: `Spec => []ReadyIsEarned`
- `EndIsSaidOnce`: `Spec => []OneEnd`

The invariant `CInv` has a part for each concern.  `DialInv` and `HostsInv` follow
the dialling: while hosts are left and nothing has been said, the hook that tries
the next one is still installed.  `EndInv` has the end of the stream on the wire or
with the server at most once, and only of a stream that is closed, since
`stream:close` and the hook of `streamclosed` each look at `closed` first.
`ReadyIsEarned` compares a flag of the client with what the server did, with the
wire between them.  Of the first `connect_client` it follows because client and
server take turns (`TurnsInv`): the ends of streams aside, at most one message is on
its way in both directions together, and a message that presupposes
authentication or a binding is there only if the flag is set.  Of a later call the
flags are stale and prove nothing; there `FedInv` says that the stream, whose
parser is fed everything twice, never gets behind the first features.

**Group chat.**  `GroupChatProofs`, for any sets of rooms and nicknames and any
number of calls and moves, from `RoomAssumption` alone, proves every invariant that
the run checks:

- `RoomsAreTyped`: `Spec => []TypeOK`
- `RoomsAreBelievedRightly`: `Spec => []BelievedIsTrue`
- `RoomsAgree`: `Spec => []OccupantsAgree`
- `EventsTellOccupants`: `Spec => []ViewIsOccupants`

`BelievedIsTrue` and `OccupantsAgree` speak of the moments when nothing is on its
way, and nothing inductive can: what has to be kept is a relation between client
and room across the queue that is between them.  `Known(q, S, n)` is whether a
client that knows of the occupants `S` will count `n` among them when it has heard
the queue `q`; `Saying` and `Hearing` say how it changes when a presence is sent and
when the first is heard, which is not at all in the second case (that is what the
client does with it, `Having`).  `Believed` holds of every application: if the
client is going to count us in, the room does.  `Patience` follows one room of a
patient application through what it has heard: out of it, with no object and both
queues empty of joins and presences; asked, with exactly one join, refusal or
admission on its way, and in an admission the others before us; or in, and then the
queue holds comings and goings of others and at most one removal of ours, at its
end.  In the two latter cases the room's own occupants are those the client will
know.  With empty queues `Known(<<>>, S, n)` is `n \in S`, and the two properties
are what is left of the invariant.

**Conversions.**  `ConversionsProofs`, for any `Largest` and any widths in the order
of the real ones, from `ConversionAssumption` alone, proves every property that the
run checks:

- `SurvivorsReturn`: `Spec => []RoundTrip`
- `IntsAreSeen`: `Spec => []IntegersAreSeen`
- `ChecksAreKept`: `Spec => []ChecksDeliver`
- `WholeNumbersAreCompared`: `Spec => []WholeNumbersCompare`
- `TextsAreHarmless`: `Spec => TextChangesNothing`, an action property

The invariant `CInv` is small: the slot holds what was pushed or the text of it, and
every number in a slot fits a `lua_Number`.  The work is in the arithmetic.  The
provers know nothing of `2^n`, and induction is out of reach, so its laws come from
counting: `2^n` is the number of subsets of `1..n` (`PowerNext`, `PowerSum`,
`PowerGrows`), and the only inductive argument is that a set of naturals has a least
element.  Every number has exactly one exponent (`ExponentExists`,
`ExponentUnique`), so `Round` is determined: it keeps what is a multiple of the
spacing (`KeptIs`), what has few bits (`ShortKept`), what a shorter format keeps
(`KeptLonger`) and what it has made (`RoundKept`).

`Nudge` is why `is<lua::Integer>` works: one epsilon added to a whole number moves it
by less than a unit, or is lost because the number is spaced wider; in the middle
between two numbers the even one is taken, which is the number itself.  Below a power of
two the spacing is half, and there a negative number may move: -1 and -2 do, and are
cut to 0 and -1; from -3 on the epsilon is lost.  `ChecksDeliver` names what a check
lets pass and its type cannot hold: any fraction for unsigned (`is<unsigned>()` takes
every number), the fractions next to a whole number for int (a number just below 1 is
taken and read as 0), numbers beyond the type, digits beyond a float's, and what
follows a NUL in a string.  A value taken for unsigned must be one of a `ptrdiff_t`
too, because `read` goes through one and the assumption does not have it wider than an
int.  `TextBits` stands for the 14 digits of `lua_tostring`: which numbers change when
they are read as a string is what `TextChangesNothing` and `RoundTrip` turn on.

**Model-checked only.**  Everything temporal beyond safety (`CallsReturn`,
`HangUpReaches`, `OutputLeaves`, `RefusalIsReported`, `Settles`, `JoinIsAnswered`,
`LeaveIsHeard`: liveness under fairness and `ENABLED` are out of the prover's
reach).  Every other property of a passing run is a theorem.

## 5. Not modelled

Of the modelled parts: SDP and its conversion (`jingletolua` is a submodule whose
directory is empty), ids of stanzas, the wording of answers.  Answers
(`type = "result"` or `"error"`) never reach `handle`: `verse.client` fires
`iq/...` for requests only (8641).  The closed-over hooks of `wrapper.lua` that
only reformat events (`presenceChanged`, `checkTalkyVersion`, `logEvent`) have no
state.  Of the connection: server sockets, `link`, `lock_read`, the coroutine of
the TLS handshake.  Of rooms: messages, subject and configuration.

Of the binding: what tables contain (a field is a fresh value), a call as an rvalue
of a callback's parameter below the top (`LuaValue.h` 83 follows its null queue: the
program crashes) and of a temporary without slots (the header asserts that there is
one), more than one `Ref` at a time, callbacks with other than one parameter (`OTalk::on` has one),
`doFile` and `doString` that fail, the end of `State` (the members of `OTalk` are
destroyed after `lua_close`, on a closed state), `pop_front` and `pop_back`,
which nothing calls, the number that `length` returns (that it turns a number in
its slot into a string is `ReadAsString`), and `get` for keys that are neither
strings nor numbers.

Of the repository: `util.events` and `util.timer`, whose callbacks appear only as
hooks that run in the middle of what fires them; `send_iq` and `tracked_iqs` apart
from the two requests of bind and session; the resolver behind the one lookup of
`ClientStream`; service discovery; stream management, which `wrapper.lua` does not
load; `verse-min.lua` (the same program minified), `json.lua`, `uuid.lua`, and the
plugins and libraries of `verse.lua` that `wrapper.lua` does not load; see the
components in `PROJECT.json`.

## 6. Plan

Done: registry, session handlers, one endpoint, two endpoints; the event loop with
one connection; the client stream; group chat; values on the stack, conversions;
the theorems above.  Open, in this order:

1. `Dispatch`: `util.events` (handlers added and removed while an event is being
   fired, against a reference definition), `send_iq` and `tracked_iqs` with
   late and missing answers across a `connect_client`.
2. `Timers`: `util.timer`, tasks that add tasks.
3. `Resolver`: `net.dns` and `net.adns`, retries and server failover; `Disco`: the
   cache and the counting of outstanding answers in `disco_local_services`.
4. `StreamManagement`: smacks, with a reference of what is delivered across a
   reconnect.
5. Proofs: the invariants of the modules above are proved; open are those of the
   modules still to be written, and that sessions, the client stream and the rooms implement
   abstract specifications as a call implements `CallProtocol`.
