------------------------------ MODULE Connection ------------------------------
(***************************************************************************)
(* One client connection of net.server (wrapclient / wrapconnection), the  *)
(* loop that serves it and the stream of verse on top of it.               *)
(*                                                                         *)
(* The application writes and closes between two steps, and in the hooks   *)
(* that a step fires.  A Lua function that fires an event has more to do   *)
(* afterwards: `stack' holds what remains to be done, innermost last, and  *)
(* `hook' says that the application is in control.                         *)
(***************************************************************************)
EXTENDS Integers, Sequences, SequencesExt

CONSTANTS
  MaxWrites,     \* bound: writes of the application, which are numbered
  MaxLen,        \* the send buffer: at most so many writes (_maxsendlen)
  MaxDepth       \* bound: functions that wait for a hook

ASSUME ConnectionAssumption ==
  MaxWrites \in Nat /\ MaxLen \in Nat /\ MaxDepth \in Nat

VARIABLES
  sock,          \* "connecting", "open", or "closed": socket and handler are nil
  bufferqueue,   \* the writes, or what is left of them, to be sent
  write,         \* handler.write: "write", "idfalse", "nil"
  listed,        \* is the socket in _sendlist
  toclose, fatalerror,
  closelist,     \* is the handler in _closelist
  timed,         \* is the handler in _writetimes
  clock,         \* is _currenttime known: the end of the first pass sets it
  stack, hook,
  status,        \* "running", "wedged", "aborted", as in SessionManager
  careful,       \* the application: TRUE if it does not touch the connection once
                 \*   it has closed it or heard that it is gone, nor when it hears
                 \*   that it has drained
  accepted,      \* history: the writes that returned true
  wire,          \* history: what the kernel has taken
  told           \* history: "disconnected" events, counted to 2

conn == <<sock, bufferqueue, write, listed, toclose, fatalerror, closelist, timed>>
vars == <<conn, clock, stack, hook, status, careful, accepted, wire, told>>

Frames == {"pass", "timers", "closelist", "read", "write",   \* what a pass of loop has left
           "connected",     \* of the sendbuffer of wrapclient, after onconnect
           "sent",          \* of _sendbuffer, after drain
           "failed",        \* close the handler, by force, after disconnect
           "exceeded",      \* the same, without looking whether it is still there
           "timeout",       \* close the handler after disconnect
           "closing",       \* of handler.close, after its sendbuffer
           "closed"}        \* of stream:close, after conn:close

TypeOK ==
  /\ sock \in {"connecting", "open", "closed"}
  /\ bufferqueue \in Seq(1..(MaxWrites + 1)) /\ Len(bufferqueue) <= MaxLen
  /\ write \in {"write", "idfalse", "nil"}
  /\ {listed, toclose, fatalerror, closelist, timed, clock, hook, careful} \subseteq BOOLEAN
  /\ stack \in Seq(Frames)
  /\ status \in {"running", "wedged", "aborted"}
  /\ accepted \in Seq(1..(MaxWrites + 1)) /\ wire \in Seq(1..(MaxWrites + 1))
  /\ told \in 0..2

(* wrapclient puts a socket that is still connecting into _sendlist.        *)
Init ==
  /\ sock = "connecting"
  /\ bufferqueue = <<>>
  /\ write = "write"
  /\ listed = TRUE
  /\ toclose = FALSE /\ fatalerror = FALSE /\ closelist = FALSE
  /\ timed = FALSE /\ clock = FALSE
  /\ stack = <<>>
  /\ hook = TRUE
  /\ status = "running"
  /\ careful \in BOOLEAN
  /\ accepted = <<>> /\ wire = <<>> /\ told = 0

-----------------------------------------------------------------------------
(* Control.                                                                 *)

InLua(frame) == ~hook /\ stack # <<>> /\ Last(stack) = frame
Rest == Front(stack)

(* Return to what waits on k; fire an event, whose hooks run before k.      *)
Return(k) == stack' = k /\ hook' = (k = <<>>)
Fire(k)   == stack' = k /\ hook' = TRUE
Tell(k)   == Fire(k) /\ told' = IF told < 2 THEN told + 1 ELSE told

InStep == stack # <<>> /\ Head(stack) = "pass"

Raise ==
  /\ status' = IF InStep THEN "wedged" ELSE "aborted"
  /\ stack' = <<>>
  /\ hook' = TRUE
  /\ UNCHANGED <<conn, clock, careful, accepted, wire, told>>

(* Mistake: the socket stays in _sendlist.                                  *)
ShutStaysListed(force) ==
  /\ sock' = "closed"
  /\ closelist' = FALSE /\ timed' = FALSE
  /\ UNCHANGED <<listed, bufferqueue, write, toclose, fatalerror, wire>>

(* The socket is closed and forgotten; with force, the kernel is offered    *)
(* what is left, and whether it takes it is not looked at.                  *)
Shut(force) ==
  /\ sock' = "closed"
  /\ listed' = FALSE /\ closelist' = FALSE /\ timed' = FALSE
  /\ \/ UNCHANGED wire
     \/ force /\ sock = "open" /\ \E n \in 1..Len(bufferqueue) :
          wire' = wire \o SubSeq(bufferqueue, 1, n)
  /\ UNCHANGED <<bufferqueue, write, toclose, fatalerror>>

(* handler.sendbuffer of a socket that is connected.                        *)
SendAll(k) ==
  /\ sock = "open"
  /\ wire' = wire \o bufferqueue
  /\ bufferqueue' = <<>>
  /\ listed' = FALSE /\ timed' = FALSE
  /\ Fire(Append(k, "sent"))
  /\ UNCHANGED <<sock, write, toclose, fatalerror, closelist, told, accepted>>

(* Mistakes: the last write that left is kept, and the clock not set anew.  *)
SendPartKeepsOne(k) ==
  /\ sock = "open"
  /\ \E n \in 1..(Len(bufferqueue) - 1) :
       /\ wire' = wire \o SubSeq(bufferqueue, 1, n)
       /\ bufferqueue' = SubSeq(bufferqueue, n, Len(bufferqueue))
  /\ timed' = clock
  /\ Return(k)
  /\ UNCHANGED <<sock, write, listed, toclose, fatalerror, closelist, told, accepted>>

SendPartUntimed(k) ==
  /\ sock = "open"
  /\ \E n \in 0..(Len(bufferqueue) - 1) :
       /\ wire' = wire \o SubSeq(bufferqueue, 1, n)
       /\ bufferqueue' = SubSeq(bufferqueue, n + 1, Len(bufferqueue))
  /\ timed' = FALSE
  /\ Return(k)
  /\ UNCHANGED <<sock, write, listed, toclose, fatalerror, closelist, told, accepted>>

(* The kernel may take nothing: close sends whether select asked or not.    *)
SendPart(k) ==
  /\ sock = "open"
  /\ \E n \in 0..(Len(bufferqueue) - 1) :
       /\ wire' = wire \o SubSeq(bufferqueue, 1, n)
       /\ bufferqueue' = SubSeq(bufferqueue, n + 1, Len(bufferqueue))
  /\ timed' = clock
  /\ Return(k)
  /\ UNCHANGED <<sock, write, listed, toclose, fatalerror, closelist, told, accepted>>

SendFails(k) ==
  /\ fatalerror' = TRUE
  /\ IF sock = "closed" THEN Return(k) /\ UNCHANGED told ELSE Tell(Append(k, "failed"))
  /\ UNCHANGED <<sock, bufferqueue, write, listed, toclose, closelist, timed, wire, accepted>>

_sendbuffer(k) == SendAll(k) \/ SendPart(k) \/ SendFails(k)

(* Mistake: a refusal takes the write away.                                 *)
OverflowTakesWrite(asked) ==
  /\ closelist' = TRUE
  /\ write' = "nil"
  /\ listed' = asked
  /\ UNCHANGED <<accepted, bufferqueue, timed>>

(* conn:write of a handler that still has its write: it takes what fits,    *)
(* and otherwise puts the handler on the close list.  `asked' says whether  *)
(* the socket is in _sendlist already.                                      *)
Put(asked) ==
  /\ accepted' = Append(accepted, Len(accepted) + 1)
  /\ bufferqueue' = Append(bufferqueue, Len(accepted) + 1)
  /\ listed' = (asked \/ sock # "closed")
  /\ timed' = (sock # "closed" /\ (timed \/ clock))
  /\ UNCHANGED <<write, closelist>>

Overflow(asked) ==
  /\ closelist' = TRUE
  /\ write' = "idfalse"
  /\ listed' = asked
  /\ UNCHANGED <<accepted, bufferqueue, timed>>

(* Mistake: the header of the stream goes in whether it fits or not.        *)
ConnectsUnchecked(k) ==
  /\ sock = "connecting"
  /\ sock' = "open"
  /\ Put(FALSE)
  /\ Fire(Append(k, "connected"))
  /\ UNCHANGED <<toclose, fatalerror, wire, told>>

(* wrapclient's sendbuffer of a socket that is connecting: it is writeable, *)
(* so onconnect runs, also if the connection was refused, and the stream    *)
(* writes its header before the hooks of the application run.               *)
Connects(k) ==
  /\ sock = "connecting"
  /\ sock' = "open"
  /\ IF write = "write" /\ Len(bufferqueue) < MaxLen THEN Put(FALSE) ELSE Overflow(FALSE)
  /\ Fire(Append(k, "connected"))
  /\ UNCHANGED <<toclose, fatalerror, wire, told>>

sendbuffer(k) == Connects(k) \/ (sock # "connecting" /\ _sendbuffer(k))

(* handler.close.                                                           *)
Close(forced, k) ==
  IF sock = "closed"
  THEN Return(k) /\ UNCHANGED <<conn, wire, told, accepted>>
  ELSE IF bufferqueue # <<>> /\ ~forced /\ ~fatalerror
  THEN sendbuffer(Append(k, "closing"))
  ELSE Shut(bufferqueue # <<>>) /\ Return(k) /\ UNCHANGED <<told, accepted>>

-----------------------------------------------------------------------------
(* The application: between steps, and in hooks.                            *)

MayAct ==
  /\ hook
  /\ status # "aborted"
  /\ careful => /\ told = 0 /\ "closed" \notin Range(stack)
                /\ stack # <<>> => Last(stack) # "sent"

(* conn:write.  A write that does not fit is refused and the handler put on *)
(* the close list; on a handler that is nil that raises, as does calling    *)
(* the write that close took away.  A closed connection takes writes.       *)
Write ==
  /\ MayAct
  /\ write = "write"
  /\ Len(accepted) < MaxWrites
  /\ Len(bufferqueue) < MaxLen
  /\ Put(listed)
  /\ UNCHANGED <<sock, toclose, fatalerror, clock, stack, hook, status, careful, wire, told>>

Overflows ==
  /\ MayAct
  /\ write = "write"
  /\ Len(bufferqueue) = MaxLen
  /\ sock # "closed"
  /\ Overflow(listed)
  /\ UNCHANGED <<sock, toclose, fatalerror, clock, stack, hook, status, careful, wire, told>>

WriteRaises ==
  /\ MayAct
  /\ write = "nil" \/ (write = "write" /\ Len(bufferqueue) = MaxLen /\ sock = "closed")
  /\ Raise

(* Mistake: a close is reported by the connection alone.                    *)
CloseStreamQuietly ==
  /\ MayAct
  /\ Len(stack) < MaxDepth
  /\ Close(FALSE, stack)
  /\ UNCHANGED <<clock, status, careful>>

(* stream:close, behind the one of verse.client that only sends the end of  *)
(* the stream: close the connection and report it, whatever close returned. *)
CloseStream ==
  /\ MayAct
  /\ Len(stack) < MaxDepth
  /\ Close(FALSE, Append(stack, "closed"))
  /\ UNCHANGED <<clock, status, careful>>

(* A step: select finds the socket writeable, readable, both or neither.    *)
Step ==
  /\ status = "running"
  /\ stack = <<>>
  /\ \E ready \in SUBSET {"read", "write"} :
       /\ "write" \in ready => listed
       /\ "read" \in ready => sock # "closed"
       /\ stack' = <<"pass", "timers", "closelist">>
                     \o (IF "read" \in ready THEN <<"read">> ELSE <<>>)
                     \o (IF "write" \in ready THEN <<"write">> ELSE <<>>)
  /\ hook' = FALSE
  /\ UNCHANGED <<conn, clock, status, careful, accepted, wire, told>>

HookReturns ==
  /\ hook
  /\ stack # <<>>
  /\ hook' = FALSE
  /\ UNCHANGED <<conn, clock, stack, status, careful, accepted, wire, told>>

-----------------------------------------------------------------------------
(* What a pass does.                                                        *)

WriteReady ==
  /\ InLua("write")
  /\ sendbuffer(Rest)
  /\ UNCHANGED <<clock, status, careful>>

(* Data goes to incoming-raw; too much of it, or an error, ends the         *)
(* connection.  A socket that was closed meanwhile is only closed again.    *)
Receives == Fire(Rest) /\ UNCHANGED <<conn, told>>
Exceeds  == Tell(Append(Rest, "exceeded")) /\ UNCHANGED conn
Breaks ==
  /\ fatalerror' = TRUE
  /\ Tell(Append(Rest, "failed"))
  /\ UNCHANGED <<sock, bufferqueue, write, listed, toclose, closelist, timed>>

ReadReady ==
  /\ InLua("read")
  /\ IF sock = "closed"
       THEN Return(Rest) /\ UNCHANGED <<conn, told>>
       ELSE Receives \/ Exceeds \/ Breaks
  /\ UNCHANGED <<clock, status, careful, accepted, wire>>

(* Mistake: the list is cleaned before it is looked at.                     *)
CloseListedForgets ==
  /\ InLua("closelist")
  /\ closelist' = FALSE
  /\ Return(Rest)
  /\ UNCHANGED <<sock, bufferqueue, write, listed, toclose, fatalerror, timed,
                 clock, status, careful, accepted, wire, told>>

CloseListed ==
  /\ InLua("closelist")
  /\ IF closelist
       THEN Tell(Append(Rest, "failed"))
       ELSE Return(Rest) /\ UNCHANGED told
  /\ UNCHANGED <<conn, clock, status, careful, accepted, wire>>

(* The watchdog timer: output that does not leave is a send timeout, a      *)
(* connection that says nothing a read timeout.                             *)
SendTimeout ==
  /\ InLua("timers")
  /\ timed
  /\ clock' = TRUE
  /\ Tell(Append(Rest, "failed"))
  /\ UNCHANGED <<conn, status, careful, accepted, wire>>

ReadTimeout ==
  /\ InLua("timers")
  /\ sock = "open" /\ clock
  /\ Tell(Append(Rest, "timeout"))
  /\ UNCHANGED <<conn, clock, status, careful, accepted, wire>>

NoTimeout ==
  /\ InLua("timers")
  /\ clock' = TRUE
  /\ Return(Rest)
  /\ UNCHANGED <<conn, status, careful, accepted, wire, told>>

PassEnds ==
  /\ InLua("pass")
  /\ Return(<<>>)
  /\ UNCHANGED <<conn, clock, status, careful, accepted, wire, told>>

-----------------------------------------------------------------------------
(* What the functions of the connection do when their event has been        *)
(* handled.                                                                 *)

(* bufferqueue is not cleaned: it counts as non-empty once it was written.  *)
AfterConnected ==
  /\ InLua("connected")
  /\ IF accepted # <<>>
       THEN _sendbuffer(Rest)
       ELSE Return(Rest) /\ UNCHANGED <<conn, wire, told, accepted>>
  /\ UNCHANGED <<clock, status, careful>>

AfterSent ==
  /\ InLua("sent")
  /\ IF ~toclose
       THEN Return(Rest) /\ UNCHANGED <<conn, clock, status, careful, accepted, wire, told>>
       ELSE IF sock = "closed" THEN Raise
       ELSE Close(FALSE, Rest) /\ UNCHANGED <<clock, status, careful>>

AfterFailed ==
  /\ InLua("failed")
  /\ Close(TRUE, Rest)
  /\ UNCHANGED <<clock, status, careful>>

(* Of too much data: the one close that is not asked whether there is a     *)
(* handler left to close.                                                   *)
AfterExceeded ==
  /\ InLua("exceeded")
  /\ IF sock = "closed" THEN Raise
       ELSE Close(TRUE, Rest) /\ UNCHANGED <<clock, status, careful>>

AfterTimeout ==
  /\ InLua("timeout")
  /\ Close(FALSE, Rest)
  /\ UNCHANGED <<clock, status, careful>>

AfterClosing ==
  /\ InLua("closing")
  /\ IF bufferqueue # <<>>
       THEN /\ toclose' = TRUE
            /\ write' = IF sock = "closed" THEN write ELSE "nil"
            /\ UNCHANGED <<sock, bufferqueue, listed, fatalerror, closelist, timed, wire>>
       ELSE IF sock = "closed" THEN UNCHANGED <<conn, wire>> ELSE Shut(FALSE)
  /\ Return(Rest)
  /\ UNCHANGED <<clock, status, careful, accepted, told>>

AfterClosed ==
  /\ InLua("closed")
  /\ Tell(Rest)
  /\ UNCHANGED <<conn, clock, status, careful, accepted, wire>>

Lua ==
  \/ WriteReady \/ ReadReady \/ CloseListed \/ NoTimeout \/ PassEnds
  \/ AfterConnected \/ AfterSent \/ AfterFailed \/ AfterExceeded \/ AfterTimeout
  \/ AfterClosing \/ AfterClosed

Application == Write \/ Overflows \/ WriteRaises \/ CloseStream

Next == Application \/ Step \/ HookReturns \/ Lua \/ SendTimeout \/ ReadTimeout

(* Functions go on, hooks return, the application calls step() again and    *)
(* again, and the watchdog sees output that never leaves.                   *)
Fairness ==
  /\ WF_vars(Lua) /\ WF_vars(HookReturns) /\ WF_vars(Step)
  /\ SF_vars(SendTimeout)

Spec == Init /\ [][Next]_vars /\ Fairness
-----------------------------------------------------------------------------
(* Properties.                                                              *)

(* While the connection lives, what the application wrote is on the wire    *)
(* or in the buffer, once and in order, however the kernel cuts it up; a    *)
(* connection that is closed by force may lose the rest, never the middle.  *)
OutputInOrder ==
  IF sock = "closed" THEN IsPrefix(wire, accepted) ELSE wire \o bufferqueue = accepted

(* Between passes every live socket that has output left is in a list of    *)
(* select; a closed one, on which select would raise, never is in any.      *)
ListsAreTrue ==
  /\ stack = <<>> /\ sock # "closed" /\ bufferqueue # <<>> => listed \/ closelist
  /\ sock = "closed" => ~listed /\ ~closelist /\ ~timed

(* Between steps, a connection that is gone, or that takes no more output,  *)
(* has been reported, or the end of the next pass reports it.               *)
LossIsReported ==
  stack = <<>> /\ status = "running" /\ (sock = "closed" \/ write = "nil") => told > 0

(* An application that leaves the connection alone once it is gone never    *)
(* makes net.server raise.                                                  *)
NothingRaises == careful => status = "running"

(* Output of which the watchdog knows leaves, or the application hears of   *)
(* the disconnect.  What was written before the first pass has ended is not *)
(* meant: its entry in _writetimes is nil, and it may stay for ever unless  *)
(* more is written or the kernel takes a part of it.                        *)
OutputLeaves == (timed /\ bufferqueue # <<>>) ~> (bufferqueue = <<>> \/ told > 0 \/ status # "running")

(* A write that was refused is followed by a disconnect.                    *)
RefusalIsReported == write = "idfalse" ~> (told > 0 \/ status # "running")
=============================================================================
