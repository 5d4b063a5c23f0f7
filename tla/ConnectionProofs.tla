---------------------------- MODULE ConnectionProofs ----------------------------
(***************************************************************************)
(* What Connection promises, for any number of writes, any size of the     *)
(* buffer and any depth of hooks.                                          *)
(***************************************************************************)
EXTENDS Connection, SequenceTheorems, TLAPS

(* Sequences.                                                               *)
LEMMA AppendFacts ==
  ASSUME NEW S, NEW k \in Seq(S), NEW f \in S
  PROVE  /\ Append(k, f) \in Seq(S) /\ Len(Append(k, f)) = Len(k) + 1
         /\ Front(Append(k, f)) = k /\ Last(Append(k, f)) = f
         /\ Append(k, f) # <<>>
         /\ \A j \in 1..Len(k) : Append(k, f)[j] = k[j]
         /\ Append(k, f)[Len(k) + 1] = f
BY DEF Front, Last

LEMMA AppendRange ==
  ASSUME NEW S, NEW k \in Seq(S), NEW f \in S
  PROVE  Range(Append(k, f)) = Range(k) \cup {f}
<1> DEFINE a == Append(k, f)
<1>1. /\ DOMAIN a = 1..(Len(k) + 1) /\ DOMAIN k = 1..Len(k) /\ Len(k) \in Nat
      /\ \A j \in 1..Len(k) : a[j] = k[j]
      /\ a[Len(k) + 1] = f
  BY AppendProperties
<1> HIDE DEF a
<1>2. \A x : x \in Range(a) <=> x \in Range(k) \cup {f}
  BY <1>1 DEF Range
<1> QED BY <1>2 DEF a

LEMMA SplitFacts ==
  ASSUME NEW S, NEW s \in Seq(S), NEW n \in 0..Len(s)
  PROVE  /\ SubSeq(s, 1, n) \in Seq(S) /\ SubSeq(s, n + 1, Len(s)) \in Seq(S)
         /\ Len(SubSeq(s, 1, n)) = n /\ Len(SubSeq(s, n + 1, Len(s))) = Len(s) - n
         /\ SubSeq(s, 1, n) \o SubSeq(s, n + 1, Len(s)) = s
<1>0. Len(s) \in Nat /\ n \in Nat /\ n <= Len(s) /\ \A j \in 1..Len(s) : s[j] \in S
  BY LenProperties, ElementOfSeq
<1>1. /\ 1 \in 1..(Len(s) + 1) /\ n \in (1 - 1)..Len(s) /\ Len(s) \in n..Len(s)
      /\ 1 \in Int /\ n \in Int /\ n + 1 \in Int /\ Len(s) \in Int
      /\ \A j \in 1..n : s[j] \in S
      /\ \A j \in (n + 1)..Len(s) : s[j] \in S
  BY <1>0
<1>2. SubSeq(s, 1, n) \in Seq(S) /\ Len(SubSeq(s, 1, n)) = n
  BY <1>0, <1>1, SubSeqProperties
<1>3. SubSeq(s, n + 1, Len(s)) \in Seq(S) /\ Len(SubSeq(s, n + 1, Len(s))) = Len(s) - n
  BY <1>0, <1>1, SubSeqProperties
<1>4. SubSeq(s, 1, n) \o SubSeq(s, n + 1, Len(s)) = SubSeq(s, 1, Len(s))
  BY <1>1, ConcatAdjacentSubSeq
<1> QED BY <1>2, <1>3, <1>4, SubSeqFull

LEMMA TopFacts ==
  ASSUME NEW S, NEW s \in Seq(S), s # <<>>
  PROVE  /\ Front(s) \in Seq(S) /\ Last(s) \in S /\ s = Append(Front(s), Last(s))
         /\ Len(s) \in Nat /\ Len(Front(s)) = Len(s) - 1
<1> DEFINE n == Len(s) - 1
           f == SubSeq(s, 1, n)
           l == s[Len(s)]
<1>1. Len(s) \in Nat \ {0}
  BY EmptySeq
<1>2. f \in Seq(S) /\ Len(f) = n /\ \A j \in 1..Len(f) : f[j] = s[j]
  <2>1. n \in 0..Len(s) /\ n \in Int /\ \A j \in 1..n : s[j] \in S
    BY <1>1, ElementOfSeq
  <2> HIDE DEF n
  <2>2. f \in Seq(S) /\ Len(f) = n
    BY <2>1, SplitFacts
  <2>3. \A j \in 1..n : f[j] = s[1 + j - 1]
    BY <2>1, SubSeqProperties
  <2> QED BY <2>1, <2>2, <2>3
<1>3. l \in S
  BY <1>1
<1> HIDE DEF f, l
<1>4. /\ Append(f, l) \in Seq(S) /\ Len(Append(f, l)) = Len(s)
      /\ \A j \in 1..Len(f) : Append(f, l)[j] = s[j]
      /\ Append(f, l)[Len(s)] = l
  BY <1>1, <1>2, <1>3, AppendProperties
<1>5. \A j \in 1..Len(s) : Append(f, l)[j] = s[j]
  BY <1>1, <1>2, <1>4 DEF l
<1>6. s = Append(f, l)
  BY <1>4, <1>5, SeqEqual
<1>7. Front(s) = f /\ Last(s) = l
  BY DEF f, l, Front, Last
<1> QED BY <1>1, <1>2, <1>3, <1>6, <1>7

LEMMA Associative ==
  ASSUME NEW S, NEW a \in Seq(S), NEW b \in Seq(S), NEW c \in Seq(S)
  PROVE  a \o b \in Seq(S) /\ (a \o b) \o c = a \o (b \o c)
OBVIOUS

LEMMA AppendToBoth ==
  ASSUME NEW S, NEW a \in Seq(S), NEW b \in Seq(S), NEW e \in S
  PROVE  Append(a \o b, e) = a \o Append(b, e)
OBVIOUS

LEMMA PrefixFacts ==
  ASSUME NEW S, NEW a \in Seq(S), NEW b \in Seq(S)
  PROVE  IsPrefix(a, a \o b) /\ IsPrefix(a, a)
BY DEF IsPrefix

LEMMA PrefixStays ==
  ASSUME NEW S, NEW a \in Seq(S), NEW b \in Seq(S), IsPrefix(a, b), NEW e \in S
  PROVE  IsPrefix(a, Append(b, e))
BY DEF IsPrefix

LEMMA NoMore ==
  ASSUME NEW S, NEW a \in Seq(S) PROVE a \o <<>> = a
OBVIOUS

SameOutput(r, q, a, s) == r \o q = a \o s
Cut(s, n, p, q) == p = SubSeq(s, 1, n) /\ q = SubSeq(s, n + 1, Len(s))

LEMMA CutFacts ==
  ASSUME NEW S, NEW a \in Seq(S), NEW s \in Seq(S), NEW n \in 0..Len(s),
         NEW p, NEW q, Cut(s, n, p, q), NEW r, r = a \o p
  PROVE  r \in Seq(S) /\ SameOutput(r, q, a, s) /\ IsPrefix(r, a \o s)
<1>1. p \in Seq(S) /\ q \in Seq(S) /\ s = p \o q
  BY SplitFacts, Zenon DEF Cut
<1>2. r \in Seq(S) /\ r \o q = a \o s
  BY <1>1, Associative
<1>3. IsPrefix(r, r \o q)
  BY <1>1, <1>2, PrefixFacts
<1> QED BY <1>2, <1>3 DEF SameOutput

-----------------------------------------------------------------------------
(* The data that the operations move, with nothing said of control.         *)
Numbers == 1..(MaxWrites + 1)

DataInv ==
  /\ sock \in {"connecting", "open", "closed"}
  /\ bufferqueue \in Seq(Numbers) /\ Len(bufferqueue) <= MaxLen
  /\ accepted \in Seq(Numbers) /\ Len(accepted) <= MaxWrites + 1
  /\ sock = "connecting" => Len(accepted) <= MaxWrites
  /\ wire \in Seq(Numbers)
  /\ listed \in BOOLEAN /\ closelist \in BOOLEAN /\ timed \in BOOLEAN /\ clock \in BOOLEAN
  /\ OutputInOrder
  /\ sock # "closed" /\ bufferqueue # <<>> => listed \/ closelist
  /\ sock = "closed" => ~listed /\ ~closelist /\ ~timed

Stands == UNCHANGED <<sock, bufferqueue, listed, closelist, timed, accepted, wire>>

Ends ==
  /\ sock # "closed" /\ sock' = "closed"
  /\ listed' = FALSE /\ closelist' = FALSE /\ timed' = FALSE
  /\ \/ wire' = wire
     \/ sock = "open" /\ \E n \in 1..Len(bufferqueue) : wire' = wire \o SubSeq(bufferqueue, 1, n)
  /\ UNCHANGED <<bufferqueue, accepted>>

Sends ==
  /\ sock = "open"
  /\ \/ wire' = wire \o bufferqueue /\ bufferqueue' = <<>> /\ listed' = FALSE /\ timed' = FALSE
     \/ /\ \E n \in 0..(Len(bufferqueue) - 1) :
             /\ wire' = wire \o SubSeq(bufferqueue, 1, n)
             /\ bufferqueue' = SubSeq(bufferqueue, n + 1, Len(bufferqueue))
        /\ timed' = clock /\ listed' = listed
  /\ UNCHANGED <<sock, closelist, accepted>>

Opens ==
  /\ sock = "connecting" /\ sock' = "open" /\ wire' = wire
  /\ \/ Len(bufferqueue) < MaxLen /\ Put(FALSE)
     \/ Overflow(FALSE)

Takes ==
  /\ \/ Len(accepted) < MaxWrites /\ Len(bufferqueue) < MaxLen /\ Put(listed)
     \/ sock # "closed" /\ Overflow(listed)
  /\ UNCHANGED <<sock, wire>>

DataStep == clock' \in {clock, TRUE} /\ (Stands \/ Ends \/ Sends \/ Opens \/ Takes)

LEMMA SendMoves == \A k : _sendbuffer(k) => Stands \/ Sends
BY Zenon DEF _sendbuffer, SendAll, SendPart, SendFails, Stands, Sends

LEMMA BufferMoves == \A k : sendbuffer(k) => Stands \/ Sends \/ Opens
BY SendMoves, Zenon DEF sendbuffer, Connects, Opens

LEMMA ShutMoves == \A force : sock # "closed" /\ Shut(force) /\ accepted' = accepted => Ends
BY Zenon DEF Shut, Ends

LEMMA CloseMoves == \A forced, k : Close(forced, k) => Stands \/ Sends \/ Opens \/ Ends
BY BufferMoves, ShutMoves, Zenon DEF Close, Stands, conn

LEMMA NextMoves == [Next]_vars => DataStep
<1> SUFFICES ASSUME [Next]_vars PROVE DataStep
  OBVIOUS
<1>1. CASE Application
  <2>1. clock' = clock
    BY <1>1, Zenon DEF Application, Write, Overflows, WriteRaises, CloseStream, Raise
  <2>2. Stands \/ Ends \/ Sends \/ Opens \/ Takes
    BY <1>1, CloseMoves, Zenon
       DEF Application, Write, Overflows, WriteRaises, CloseStream, Raise, Takes, Stands, conn
  <2> QED BY <2>1, <2>2 DEF DataStep
<1>2. CASE Step \/ HookReturns \/ SendTimeout \/ ReadTimeout
  BY <1>2, Zenon DEF Step, HookReturns, SendTimeout, ReadTimeout, DataStep, Stands, conn
<1>3. CASE Lua
  <2>1. clock' \in {clock, TRUE}
    BY <1>3, Zenon
       DEF Lua, WriteReady, ReadReady, CloseListed, NoTimeout, PassEnds, AfterConnected, AfterSent,
           AfterFailed, AfterExceeded, AfterTimeout, AfterClosing, AfterClosed, Raise
  <2>2. ReadReady \/ CloseListed \/ NoTimeout \/ PassEnds \/ AfterClosed => Stands
    BY Zenon DEF ReadReady, Receives, Exceeds, Breaks, CloseListed, NoTimeout, PassEnds,
           AfterClosed, Stands, conn
  <2>3. WriteReady => Stands \/ Sends \/ Opens
    BY BufferMoves, Zenon DEF WriteReady
  <2>4. AfterConnected => Stands \/ Sends
    BY SendMoves, Zenon DEF AfterConnected, Stands, conn
  <2>5. AfterSent => Stands \/ Sends \/ Opens \/ Ends
    <3>1. Raise => Stands
      BY Zenon DEF Raise, Stands, conn
    <3> QED BY <3>1, CloseMoves, Zenon DEF AfterSent, Stands, conn
  <2>6. AfterFailed \/ AfterExceeded \/ AfterTimeout => Stands \/ Sends \/ Opens \/ Ends
    <3>1. Raise => Stands
      BY Zenon DEF Raise, Stands, conn
    <3> QED BY <3>1, CloseMoves, Zenon DEF AfterFailed, AfterExceeded, AfterTimeout
  <2>7. AfterClosing => Stands \/ Ends
    BY ShutMoves, Zenon DEF AfterClosing, Stands, conn
  <2> QED BY <1>3, <2>1, <2>2, <2>3, <2>4, <2>5, <2>6, <2>7, Zenon DEF Lua, DataStep
<1>4. CASE UNCHANGED vars
  BY <1>4, Zenon DEF vars, conn, DataStep, Stands
<1> QED BY <1>1, <1>2, <1>3, <1>4, Zenon DEF Next

(* What one more write does to what was accepted, sent and is left.         *)
LEMMA PutKeeps ==
  ASSUME DataInv, NEW asked, asked = FALSE \/ asked = listed, Put(asked), wire' = wire,
         Len(accepted) <= MaxWrites, Len(bufferqueue) < MaxLen, clock' \in {clock, TRUE},
         \/ sock' = sock /\ (sock # "connecting" \/ Len(accepted) < MaxWrites)
         \/ sock = "connecting" /\ sock' = "open"
  PROVE  DataInv'
<1> DEFINE w == Len(accepted) + 1
<1>0. /\ accepted \in Seq(Numbers) /\ bufferqueue \in Seq(Numbers) /\ wire \in Seq(Numbers)
      /\ MaxWrites \in Nat /\ MaxLen \in Nat /\ sock \in {"connecting", "open", "closed"}
      /\ listed \in BOOLEAN /\ closelist \in BOOLEAN /\ timed \in BOOLEAN /\ clock \in BOOLEAN
  BY ConnectionAssumption DEF DataInv
<1>1. /\ accepted' = Append(accepted, w) /\ bufferqueue' = Append(bufferqueue, w)
      /\ listed' = (asked \/ sock # "closed")
      /\ timed' = (sock # "closed" /\ (timed \/ clock)) /\ closelist' = closelist
  BY Zenon DEF Put
<1>2. w \in Numbers /\ w = Len(accepted) + 1
  BY <1>0, LenProperties DEF Numbers
<1> HIDE DEF w
<1>3. /\ accepted' \in Seq(Numbers) /\ Len(accepted') = w
      /\ bufferqueue' \in Seq(Numbers) /\ Len(bufferqueue') = Len(bufferqueue) + 1
      /\ bufferqueue' # <<>>
  BY <1>0, <1>1, <1>2, AppendProperties
<1>4. /\ Len(bufferqueue') <= MaxLen /\ Len(accepted') <= MaxWrites + 1
      /\ sock' = "connecting" => Len(accepted') <= MaxWrites
  BY <1>0, <1>2, <1>3, LenProperties
<1>5. OutputInOrder'
  <2>1. CASE sock = "closed"
    <3>1. IsPrefix(wire, accepted)
      BY <2>1 DEF DataInv, OutputInOrder
    <3>2. IsPrefix(wire, Append(accepted, w))
      BY <1>0, <1>2, <3>1, PrefixStays
    <3> QED BY <1>1, <2>1, <3>2 DEF OutputInOrder
  <2>2. CASE sock # "closed"
    <3>1. wire \o bufferqueue = accepted
      BY <2>2 DEF DataInv, OutputInOrder
    <3>2. wire \o Append(bufferqueue, w) = Append(wire \o bufferqueue, w)
      BY <1>0, <1>2, AppendToBoth
    <3>3. sock' # "closed" /\ wire' \o bufferqueue' = accepted'
      BY <1>1, <2>2, <3>1, <3>2
    <3> QED BY <3>3 DEF OutputInOrder
  <2> QED BY <2>1, <2>2
<1>6. sock = "closed" => ~listed /\ ~closelist /\ ~timed
  BY DEF DataInv
<1>7. listed' \in BOOLEAN /\ closelist' \in BOOLEAN /\ timed' \in BOOLEAN /\ clock' \in BOOLEAN
  BY <1>0, <1>1
<1>8. sock' # "closed" /\ bufferqueue' # <<>> => listed' \/ closelist'
  BY <1>1
<1>9. sock' = "closed" => ~listed' /\ ~closelist' /\ ~timed'
  BY <1>0, <1>1, <1>6
<1> HIDE DEF DataInv
<1>10. /\ sock' \in {"connecting", "open", "closed"}
       /\ wire' \in Seq(Numbers)
  BY <1>0
<1> QED BY <1>3, <1>4, <1>5, <1>7, <1>8, <1>9, <1>10, Zenon DEF DataInv

LEMMA OverflowKeeps ==
  ASSUME DataInv, NEW asked \in BOOLEAN, Overflow(asked), wire' = wire, sock # "closed",
         clock' \in {clock, TRUE}, sock' = sock \/ sock' = "open"
  PROVE  DataInv'
BY DEF DataInv, Overflow, OutputInOrder

LEMMA EndsKeeps == ASSUME DataInv, Ends, clock' \in {clock, TRUE} PROVE DataInv'
<1>0. /\ accepted \in Seq(Numbers) /\ bufferqueue \in Seq(Numbers) /\ wire \in Seq(Numbers)
      /\ wire \o bufferqueue = accepted
      /\ listed \in BOOLEAN /\ closelist \in BOOLEAN /\ timed \in BOOLEAN /\ clock \in BOOLEAN
  BY DEF DataInv, OutputInOrder, Ends
<1>1. wire' \in Seq(Numbers) /\ IsPrefix(wire', accepted)
  <2>1. CASE wire' = wire
    BY <1>0, <2>1, PrefixFacts
  <2>2. ASSUME NEW n \in 1..Len(bufferqueue), wire' = wire \o SubSeq(bufferqueue, 1, n)
        PROVE  wire' \in Seq(Numbers) /\ IsPrefix(wire', accepted)
    <3>1. n \in 0..Len(bufferqueue)
      BY <1>0, LenProperties
    <3> DEFINE p == SubSeq(bufferqueue, 1, n)
               q == SubSeq(bufferqueue, n + 1, Len(bufferqueue))
    <3>2. Cut(bufferqueue, n, p, q) /\ wire' = wire \o p
      BY <2>2 DEF Cut
    <3> HIDE DEF p, q
    <3> QED BY <1>0, <3>1, <3>2, CutFacts
  <2> QED BY <2>1, <2>2 DEF Ends
<1> QED BY <1>0, <1>1 DEF DataInv, OutputInOrder, Ends

LEMMA SendsKeeps == ASSUME DataInv, Sends, clock' \in {clock, TRUE} PROVE DataInv'
<1>0. /\ accepted \in Seq(Numbers) /\ bufferqueue \in Seq(Numbers) /\ wire \in Seq(Numbers)
      /\ wire \o bufferqueue = accepted /\ Len(bufferqueue) <= MaxLen /\ Len(bufferqueue) \in Nat
      /\ listed \in BOOLEAN /\ closelist \in BOOLEAN /\ timed \in BOOLEAN /\ clock \in BOOLEAN /\ MaxLen \in Nat
      /\ sock = "open" /\ sock' = sock /\ closelist' = closelist /\ accepted' = accepted
      /\ Len(accepted) <= MaxWrites + 1
  BY ConnectionAssumption, LenProperties DEF DataInv, OutputInOrder, Sends
<1>1. CASE wire' = wire \o bufferqueue /\ bufferqueue' = <<>> /\ listed' = FALSE /\ timed' = FALSE
  <2>1. bufferqueue' \in Seq(Numbers) /\ Len(bufferqueue') = 0
    BY <1>1, EmptySeq
  <2>2. wire' \o bufferqueue' = accepted' /\ wire' \in Seq(Numbers)
    BY <1>0, <1>1, NoMore
  <2>3. OutputInOrder'
    <3>1. sock' # "closed"
      BY <1>0
    <3> QED BY <2>2, <3>1 DEF OutputInOrder
  <2>4. clock' \in BOOLEAN /\ listed' \in BOOLEAN /\ timed' \in BOOLEAN /\ closelist' \in BOOLEAN
    BY <1>0, <1>1
  <2>5. Len(bufferqueue') <= MaxLen
    BY <1>0, <2>1
  <2>6. sock' = "open" /\ accepted' \in Seq(Numbers) /\ Len(accepted') <= MaxWrites + 1
    BY <1>0
  <2>7. "open" # "closed" /\ "open" # "connecting"
    OBVIOUS
  <2> QED BY <1>1, <2>1, <2>2, <2>3, <2>4, <2>5, <2>6, <2>7, Zenon DEF DataInv
<1>2. ASSUME NEW n \in 0..(Len(bufferqueue) - 1), wire' = wire \o SubSeq(bufferqueue, 1, n),
             bufferqueue' = SubSeq(bufferqueue, n + 1, Len(bufferqueue)),
             timed' = clock, listed' = listed
      PROVE  DataInv'
  <2>1. n \in 0..Len(bufferqueue) /\ bufferqueue # <<>>
    BY <1>0, <1>2, EmptySeq
  <2>2. bufferqueue' \in Seq(Numbers) /\ Len(bufferqueue') = Len(bufferqueue) - n
    BY <1>0, <1>2, <2>1, SplitFacts
  <2>3. wire' \in Seq(Numbers) /\ wire' \o bufferqueue' = wire \o bufferqueue
    <3> DEFINE p == SubSeq(bufferqueue, 1, n)
    <3>1. Cut(bufferqueue, n, p, bufferqueue') /\ wire' = wire \o p
      BY <1>2 DEF Cut
    <3> HIDE DEF p
    <3>2. n \in 0..Len(bufferqueue) /\ wire \in Seq(Numbers) /\ bufferqueue \in Seq(Numbers)
      BY <1>0, <2>1
    <3>3. wire' \in Seq(Numbers) /\ SameOutput(wire', bufferqueue', wire, bufferqueue)
      BY <3>1, <3>2, CutFacts, Zenon
    <3> QED BY <3>3 DEF SameOutput
  <2>4. sock' # "closed" /\ wire' \o bufferqueue' = accepted'
    BY <1>0, <2>3
  <2>5. OutputInOrder'
    BY <2>4 DEF OutputInOrder
  <2>6. Len(bufferqueue') <= MaxLen
    BY <1>0, <2>1, <2>2
  <2>7. listed' \/ closelist'
    BY <1>0, <1>2, <2>1 DEF DataInv
  <2>8. clock' \in BOOLEAN /\ listed' \in BOOLEAN /\ timed' \in BOOLEAN /\ closelist' \in BOOLEAN
    BY <1>0, <1>2
  <2>9. sock' = "open" /\ accepted' \in Seq(Numbers) /\ Len(accepted') <= MaxWrites + 1
    BY <1>0
  <2>10. "open" # "closed" /\ "open" # "connecting"
    OBVIOUS
  <2> QED BY <2>2, <2>3, <2>5, <2>6, <2>7, <2>8, <2>9, <2>10, Zenon DEF DataInv
<1> QED BY <1>1, <1>2 DEF Sends

LEMMA DataKept == DataInv /\ DataStep => DataInv'
<1> SUFFICES ASSUME DataInv, DataStep PROVE DataInv'
  OBVIOUS
<1>0. clock' \in {clock, TRUE} /\ clock \in BOOLEAN /\ listed \in BOOLEAN
  BY DEF DataStep, DataInv
<1>1. CASE Stands
  BY <1>0, <1>1 DEF Stands, DataInv, OutputInOrder
<1>2. CASE Opens
  <2>1. sock = "connecting" /\ sock' = "open" /\ wire' = wire /\ Len(accepted) <= MaxWrites
    BY <1>2 DEF Opens, DataInv
  <2>2. CASE Len(bufferqueue) < MaxLen /\ Put(FALSE)
    BY <1>0, <2>1, <2>2, PutKeeps
  <2>3. CASE Overflow(FALSE)
    BY <1>0, <2>1, <2>3, OverflowKeeps
  <2> QED BY <1>2, <2>2, <2>3 DEF Opens
<1>3. CASE Takes
  <2>1. sock' = sock /\ wire' = wire
    BY <1>3 DEF Takes
  <2>2. CASE Len(accepted) < MaxWrites /\ Len(bufferqueue) < MaxLen /\ Put(listed)
    <3>1. Len(accepted) <= MaxWrites
      BY <2>2, LenProperties, ConnectionAssumption DEF DataInv
    <3> QED BY <1>0, <2>1, <2>2, <3>1, PutKeeps
  <2>3. CASE sock # "closed" /\ Overflow(listed)
    BY <1>0, <2>1, <2>3, OverflowKeeps
  <2> QED BY <1>3, <2>2, <2>3 DEF Takes
<1> QED BY <1>0, <1>1, <1>2, <1>3, EndsKeeps, SendsKeeps DEF DataStep

LEMMA InitData == Init => DataInv
<1> SUFFICES ASSUME Init PROVE DataInv
  OBVIOUS
<1>1. <<>> \in Seq(Numbers) /\ Len(<<>>) = 0 /\ <<>> \o <<>> = <<>>
  BY EmptySeq, NoMore
<1>2. /\ bufferqueue = <<>> /\ accepted = <<>> /\ wire = <<>> /\ sock = "connecting"
      /\ listed = TRUE /\ closelist = FALSE /\ timed = FALSE /\ clock = FALSE
  BY DEF Init
<1>3. OutputInOrder
  BY <1>1, <1>2 DEF OutputInOrder
<1>4. MaxWrites \in Nat /\ MaxLen \in Nat
  BY ConnectionAssumption
<1>5. sock \in {"connecting", "open", "closed"}
  BY <1>2
<1>6. bufferqueue \in Seq(Numbers) /\ Len(bufferqueue) <= MaxLen
  BY <1>1, <1>2, <1>4
<1>7. accepted \in Seq(Numbers) /\ Len(accepted) <= MaxWrites + 1
  BY <1>1, <1>2, <1>4
<1>8. sock = "connecting" => Len(accepted) <= MaxWrites
  BY <1>1, <1>2, <1>4
<1>9. listed \in BOOLEAN /\ closelist \in BOOLEAN /\ timed \in BOOLEAN /\ clock \in BOOLEAN
  BY <1>2
<1>10. /\ sock # "closed" /\ bufferqueue # <<>> => listed \/ closelist
       /\ sock = "closed" => ~listed /\ ~closelist /\ ~timed
  BY <1>2
<1>11. wire \in Seq(Numbers)
  BY <1>1, <1>2
<1> QED BY <1>3, <1>5, <1>6, <1>7, <1>8, <1>9, <1>10, <1>11, Zenon DEF DataInv

LEMMA DataAlways == Spec => []DataInv
<1>1. DataInv /\ [Next]_vars => DataInv'
  BY NextMoves, DataKept
<1> QED BY <1>1, InitData, PTL DEF Spec

(* What the application wrote reaches the wire once and in order, however   *)
(* the kernel cuts it up, until the connection is closed; then a prefix has.*)
THEOREM OutputStaysInOrder == Spec => []OutputInOrder
<1>1. DataInv => OutputInOrder
  BY DEF DataInv
<1> QED BY <1>1, DataAlways, PTL

(* A live socket with output left is always in a list of select, a closed   *)
(* one never.                                                               *)
THEOREM ListsStayTrue == Spec => []ListsAreTrue
<1>1. DataInv => ListsAreTrue
  BY DEF DataInv, ListsAreTrue
<1> QED BY <1>1, DataAlways, PTL

-----------------------------------------------------------------------------
(* The stack.  What waits under the function that runs has either reported  *)
(* the loss of the connection or holds the function that will.              *)
Lost == sock = "closed" \/ write = "nil" \/ toclose

Kept(c, k, t, lost) ==
  /\ \A j \in 2..Len(k) : k[j] # "pass"
  /\ c => "sent" \notin Range(k) /\ "exceeded" \notin Range(k)
  /\ "failed" \in Range(k) \/ "timeout" \in Range(k) \/ "exceeded" \in Range(k) => t > 0
  /\ lost \/ "closing" \in Range(k) => t > 0 \/ "closed" \in Range(k)

Holds(k) == status = "running" => Kept(careful, k, told, Lost)

StackInv ==
  /\ stack \in Seq(Frames) /\ told \in 0..2 /\ careful \in BOOLEAN /\ toclose \in BOOLEAN
  /\ careful => status = "running"
  /\ status = "running" =>
       \/ Kept(careful, stack, told, Lost)
       \/ \E k \in Seq(Frames), f \in {"sent", "exceeded"} :
            /\ stack = Append(k, f) /\ Kept(careful, k, told, Lost)
            /\ careful => sock # "closed"
            /\ f = "exceeded" => told > 0

Waiting(k) == told > 0 \/ "closed" \in Range(k)

(* Where a step goes that goes on with k.                                   *)
StepTo(k) ==
  /\ told' \in 0..2 /\ (told > 0 => told' > 0)
  /\ toclose' = toclose /\ (write' = "nil" => write = "nil")
  /\ \/ stack' = k /\ sock' = sock
     \/ stack' = Append(k, "sent") /\ sock' = sock /\ sock # "closed"
     \/ stack' = Append(k, "exceeded") /\ sock' = sock /\ sock # "closed" /\ told' > 0
     \/ \E f \in {"failed", "timeout"} : stack' = Append(k, f) /\ told' > 0 /\ sock' = sock
     \/ stack' = Append(k, "connected") /\ sock' = "open" /\ sock = "connecting"

LoseTo(k) == stack' = k /\ told' = told /\ toclose' \in {toclose, TRUE}

CloseTo(k) == StepTo(k) \/ StepTo(Append(k, "closing")) \/ LoseTo(k)

Stay ==
  /\ UNCHANGED <<stack, status, sock, told, toclose, careful>>
  /\ write' = "nil" => write = "nil"

LEMMA KeptGrows ==
  ASSUME NEW c, NEW k \in Seq(Frames), NEW t \in 0..2, NEW l \in BOOLEAN, Kept(c, k, t, l),
         NEW u \in 0..2, t > 0 => u > 0, NEW m \in BOOLEAN, m => l,
         NEW f \in Frames, (f # "sent" /\ f # "exceeded") \/ ~c, f # "pass",
         f = "failed" \/ f = "timeout" \/ f = "exceeded" => u > 0,
         f = "closing" => u > 0 \/ "closed" \in Range(k)
  PROVE  Append(k, f) \in Seq(Frames) /\ Kept(c, Append(k, f), u, m)
<1> DEFINE a == Append(k, f)
<1>1. a \in Seq(Frames) /\ Len(a) = Len(k) + 1 /\ Len(k) \in Nat
      /\ (\A j \in 1..Len(k) : a[j] = k[j]) /\ a[Len(k) + 1] = f
  BY AppendProperties
<1>2. Range(a) = Range(k) \cup {f}
  BY AppendRange
<1> HIDE DEF a
<1>3. \A j \in 2..Len(a) : a[j] # "pass"
  BY <1>1 DEF Kept
<1>4. c => "sent" \notin Range(a) /\ "exceeded" \notin Range(a)
  BY <1>2 DEF Kept
<1>5. "failed" \in Range(a) \/ "timeout" \in Range(a) \/ "exceeded" \in Range(a) => u > 0
  BY <1>2 DEF Kept
<1>6. m \/ "closing" \in Range(a) => u > 0 \/ "closed" \in Range(a)
  BY <1>2 DEF Kept
<1>7. Kept(c, a, u, m)
  BY <1>3, <1>4, <1>5, <1>6, Zenon DEF Kept
<1> QED BY <1>1, <1>7 DEF a

LEMMA KeptStays ==
  ASSUME NEW c, NEW k \in Seq(Frames), NEW t \in 0..2, NEW l \in BOOLEAN, Kept(c, k, t, l),
         NEW u \in 0..2, t > 0 => u > 0, NEW m \in BOOLEAN,
         m => l \/ u > 0 \/ "closed" \in Range(k)
  PROVE  Kept(c, k, u, m)
BY DEF Kept

LEMMA KeptDrops ==
  ASSUME NEW c, NEW k \in Seq(Frames), NEW f \in Frames, NEW t \in 0..2, NEW l \in BOOLEAN,
         Kept(c, Append(k, f), t, l), NEW u \in 0..2, t > 0 => u > 0, f # "closed" \/ u > 0
  PROVE  Kept(c, k, u, l)
<1> DEFINE a == Append(k, f)
<1>1. Len(a) = Len(k) + 1 /\ Len(k) \in Nat /\ \A j \in 1..Len(k) : a[j] = k[j]
  BY AppendProperties
<1>2. Range(a) = Range(k) \cup {f}
  BY AppendRange
<1>3. Kept(c, a, t, l)
  OBVIOUS
<1> HIDE DEF a
<1> QED BY <1>1, <1>2, <1>3 DEF Kept

LEMMA TopOnly ==
  ASSUME StackInv, status = "running",
         stack = <<>> \/ Last(stack) \notin {"sent", "exceeded"} \/ ~careful
  PROVE  Kept(careful, stack, told, Lost)
<1> SUFFICES ASSUME NEW k \in Seq(Frames), NEW f \in {"sent", "exceeded"},
                    stack = Append(k, f), Kept(careful, k, told, Lost),
                    f = "exceeded" => told > 0
             PROVE  Kept(careful, stack, told, Lost)
  BY DEF StackInv
<1>1. f \in Frames /\ f # "pass" /\ f # "failed" /\ f # "timeout" /\ f # "closing"
  BY DEF Frames
<1>2. stack # <<>> /\ Last(stack) = f
  BY <1>1, AppendFacts
<1>3. ~careful /\ told \in 0..2 /\ Lost \in BOOLEAN
  BY <1>2 DEF StackInv, Lost
<1> QED BY <1>1, <1>3, KeptGrows

LEMMA RestHolds ==
  ASSUME StackInv, stack # <<>>, NEW u \in 0..2, told > 0 => u > 0, Last(stack) # "closed" \/ u > 0
  PROVE  /\ Rest \in Seq(Frames) /\ Last(stack) \in Frames /\ stack = Append(Rest, Last(stack))
         /\ status = "running" => Kept(careful, Rest, u, Lost)
<1>0. stack \in Seq(Frames) /\ told \in 0..2 /\ Lost \in BOOLEAN
  BY DEF StackInv, Lost
<1>1. Rest \in Seq(Frames) /\ Last(stack) \in Frames /\ stack = Append(Rest, Last(stack))
  BY <1>0, TopFacts DEF Rest
<1>2. ASSUME status = "running" PROVE Kept(careful, Rest, u, Lost)
  <2>1. CASE Kept(careful, stack, told, Lost)
    <3> DEFINE r == Rest
               f == Last(stack)
    <3>1. r \in Seq(Frames) /\ f \in Frames /\ stack = Append(r, f)
      BY <1>1
    <3>2. f # "closed" \/ u > 0
      OBVIOUS
    <3> HIDE DEF r, f
    <3>3. Range(stack) = Range(r) \cup {f}
      BY <3>1, AppendRange
    <3>4. Len(stack) = Len(r) + 1 /\ Len(r) \in Nat /\ \A j \in 1..Len(r) : stack[j] = r[j]
      BY <3>1, AppendProperties
    <3>5. Kept(careful, r, u, Lost)
      BY <1>0, <2>1, <3>2, <3>3, <3>4 DEF Kept
    <3> QED BY <3>5 DEF r
  <2>2. ASSUME NEW k \in Seq(Frames), NEW f \in {"sent", "exceeded"},
               stack = Append(k, f), Kept(careful, k, told, Lost)
        PROVE  Kept(careful, Rest, u, Lost)
    <3>1. Rest = k
      BY <2>2, AppendFacts DEF Rest, Frames
    <3> QED BY <1>0, <2>2, <3>1, KeptStays
  <2> QED BY <1>2, <2>1, <2>2 DEF StackInv
<1> QED BY <1>1, <1>2

(* A step that goes on with a sound rest leaves a sound stack.              *)
LEMMA StepToKeeps ==
  ASSUME StackInv, NEW k \in Seq(Frames), Holds(k), StepTo(k),
         careful' = careful, status' = status
  PROVE  StackInv'
<1>0. /\ told \in 0..2 /\ careful \in BOOLEAN /\ toclose \in BOOLEAN /\ Lost \in BOOLEAN
      /\ careful => status = "running"
      /\ told' \in 0..2 /\ (told > 0 => told' > 0) /\ toclose' = toclose
      /\ {"sent", "exceeded", "failed", "timeout", "connected"} \subseteq Frames
  BY DEF StackInv, Lost, StepTo, Frames
<1>1. Lost' => Lost
  BY DEF Lost, StepTo
<1>2. Lost' \in BOOLEAN
  BY DEF Lost
<1>3. status = "running" => Kept(careful, k, told', Lost')
  BY <1>0, <1>1, <1>2, KeptStays DEF Holds
<1> DEFINE Sound == \/ Kept(careful, stack', told', Lost')
                    \/ \E r \in Seq(Frames), f \in {"sent", "exceeded"} :
                         /\ stack' = Append(r, f) /\ Kept(careful, r, told', Lost')
                         /\ careful => sock' # "closed"
                         /\ f = "exceeded" => told' > 0
<1>4. stack' \in Seq(Frames) /\ (status = "running" => Sound)
  <2>1. CASE stack' = k
    BY <1>3, <2>1
  <2>2. ASSUME NEW f \in {"sent", "exceeded"}, stack' = Append(k, f), f = "exceeded" => told' > 0,
               sock' = sock, sock # "closed"
        PROVE  stack' \in Seq(Frames) /\ (status = "running" => Sound)
    <3>1. stack' \in Seq(Frames)
      BY <1>0, <2>2
    <3> QED BY <1>3, <2>2, <3>1
  <2>3. ASSUME NEW f \in {"failed", "timeout", "connected"}, stack' = Append(k, f),
               f = "connected" \/ told' > 0
        PROVE  stack' \in Seq(Frames) /\ (status = "running" => Sound)
    <3>1. /\ f \in Frames /\ f # "sent" /\ f # "exceeded" /\ f # "pass" /\ f # "closing"
          /\ f = "failed" \/ f = "timeout" => told' > 0
      BY <1>0, <2>3
    <3>2. stack' \in Seq(Frames)
      BY <2>3, <3>1
    <3>3. ASSUME status = "running" PROVE Kept(careful, stack', told', Lost')
      <4>1. Kept(careful, k, told', Lost')
        BY <1>3, <3>3
      <4>2. Kept(careful, Append(k, f), told', Lost')
        BY <1>0, <1>2, <3>1, <4>1, KeptGrows
      <4> QED BY <2>3, <4>2
    <3> QED BY <3>2, <3>3
  <2> QED BY <2>1, <2>2, <2>3 DEF StepTo
<1>5. status' = status /\ careful' = careful /\ toclose' \in BOOLEAN
  BY <1>0
<1> QED BY <1>0, <1>4, <1>5 DEF StackInv

LEMMA LoseToKeeps ==
  ASSUME StackInv, NEW k \in Seq(Frames), Holds(k), status = "running" => Waiting(k), LoseTo(k),
         careful' = careful, status' = status
  PROVE  StackInv'
<1>0. /\ told \in 0..2 /\ careful \in BOOLEAN /\ toclose' \in BOOLEAN /\ Lost \in BOOLEAN
      /\ careful => status = "running"
      /\ told' = told /\ stack' = k /\ Lost' \in BOOLEAN
  BY DEF StackInv, Lost, LoseTo
<1>1. status = "running" => Kept(careful, k, told, Lost')
  BY <1>0, KeptStays DEF Holds, Waiting
<1> QED BY <1>0, <1>1 DEF StackInv

LEMMA CloseToKeeps ==
  ASSUME StackInv, NEW k \in Seq(Frames), Holds(k), status = "running" => Waiting(k), CloseTo(k),
         careful' = careful, status' = status
  PROVE  StackInv'
<1>1. CASE StepTo(k)
  BY <1>1, StepToKeeps
<1>2. CASE StepTo(Append(k, "closing"))
  <2>1. "closing" \in Frames /\ told \in 0..2 /\ Lost \in BOOLEAN
    BY DEF Frames, StackInv, Lost
  <2>2. Append(k, "closing") \in Seq(Frames)
    BY <2>1
  <2>3. Holds(Append(k, "closing"))
    BY <2>1, KeptGrows DEF Holds, Waiting
  <2> QED BY <1>2, <2>2, <2>3, StepToKeeps
<1>3. CASE LoseTo(k)
  BY <1>3, LoseToKeeps
<1> QED BY <1>1, <1>2, <1>3 DEF CloseTo

LEMMA StayKeeps == StackInv /\ Stay => StackInv'
<1> SUFFICES ASSUME StackInv, Stay PROVE StackInv'
  OBVIOUS
<1>1. /\ stack' = stack /\ status' = status /\ sock' = sock /\ told' = told
      /\ toclose' = toclose /\ careful' = careful
  BY DEF Stay
<1>2. Lost' => Lost
  BY DEF Stay, Lost
<1>3. \A k \in Seq(Frames) : Kept(careful, k, told, Lost) => Kept(careful, k, told, Lost')
  BY <1>2 DEF Kept
<1> QED BY <1>1, <1>3 DEF StackInv

LEMMA RaiseKeeps == StackInv /\ Raise /\ ~careful => StackInv'
<1> SUFFICES ASSUME StackInv, Raise, ~careful PROVE StackInv'
  OBVIOUS
<1>1. /\ stack' = <<>> /\ status' # "running" /\ careful' = careful /\ told' = told
      /\ toclose' = toclose
  BY DEF Raise, conn
<1>2. stack' \in Seq(Frames)
  BY <1>1
<1> QED BY <1>1, <1>2 DEF StackInv

-----------------------------------------------------------------------------
(* What the operations do to the stack.                                     *)
LEMMA SendGoes == \A k : told \in 0..2 /\ _sendbuffer(k) => StepTo(k)
<1>1. \A k : told \in 0..2 /\ SendAll(k) => StepTo(k)
  BY DEF SendAll, Fire, StepTo
<1>2. \A k : told \in 0..2 /\ SendPart(k) => StepTo(k)
  BY DEF SendPart, Return, StepTo
<1>3. \A k : told \in 0..2 /\ SendFails(k) => StepTo(k)
  BY DEF SendFails, Return, Tell, Fire, StepTo
<1> QED BY <1>1, <1>2, <1>3 DEF _sendbuffer

LEMMA BufferGoes == \A k : told \in 0..2 /\ sendbuffer(k) => StepTo(k)
<1>1. \A k : told \in 0..2 /\ Connects(k) => StepTo(k)
  BY DEF Connects, Put, Overflow, Fire, StepTo
<1> QED BY <1>1, SendGoes DEF sendbuffer

LEMMA CloseGoes == \A forced, k : told \in 0..2 /\ Close(forced, k) => CloseTo(k)
<1> SUFFICES ASSUME told \in 0..2, NEW forced, NEW k, Close(forced, k) PROVE CloseTo(k)
  OBVIOUS
<1>1. CASE sock = "closed"
  BY <1>1 DEF Close, conn, Return, CloseTo, LoseTo
<1>2. CASE sock # "closed" /\ bufferqueue # <<>> /\ ~forced /\ ~fatalerror
  BY <1>2, BufferGoes DEF Close, CloseTo
<1>3. CASE sock # "closed" /\ ~(bufferqueue # <<>> /\ ~forced /\ ~fatalerror)
  BY <1>3 DEF Close, Shut, Return, CloseTo, LoseTo
<1> QED BY <1>1, <1>2, <1>3

Begins(P, S, x, m) ==
  m \in Seq(S) /\ Len(m) >= 1 /\ m[1] = x /\ \A j \in 2..Len(m) : m[j] \in P

LEMMA Onward ==
  ASSUME NEW P, NEW S, P \subseteq S, NEW x, NEW m, Begins(P, S, x, m), NEW r \in Seq(P)
  PROVE  Begins(P, S, x, m \o r)
<1> DEFINE n == m \o r
<1>0. m \in Seq(S) /\ Len(m) \in Nat /\ Len(r) \in Nat /\ \A j \in 1..Len(r) : r[j] \in P
  BY DEF Begins
<1>1. r \in Seq(S)
  BY <1>0
<1>2. /\ n \in Seq(S) /\ Len(n) = Len(m) + Len(r)
      /\ \A j \in 1..Len(m) + Len(r) : n[j] = IF j <= Len(m) THEN m[j] ELSE r[j - Len(m)]
  BY <1>0, <1>1, ConcatProperties
<1> HIDE DEF n
<1>3. Begins(P, S, x, n)
  BY <1>0, <1>2 DEF Begins
<1> QED BY <1>3 DEF n

(* The stack of a pass that begins.                                         *)
LEMMA FreshPass ==
  ASSUME NEW c, NEW t \in 0..2, NEW l \in BOOLEAN, Kept(c, <<>>, t, l),
         NEW r \in {<<>>, <<"read">>}, NEW w \in {<<>>, <<"write">>},
         NEW s, s = <<"pass", "timers", "closelist">> \o r \o w
  PROVE  s \in Seq(Frames) /\ Kept(c, s, t, l)
<1> DEFINE P == {"timers", "closelist", "read", "write"}
<1>1. /\ {"pass", "timers", "closelist", "read", "write"} \subseteq Frames
      /\ "exceeded" \notin P /\ "exceeded" # "pass"
      /\ "pass" \notin P /\ "sent" \notin P /\ "failed" \notin P /\ "timeout" \notin P
      /\ "closing" \notin P /\ "closed" \notin P
      /\ "sent" # "pass" /\ "failed" # "pass" /\ "timeout" # "pass" /\ "closing" # "pass"
      /\ "closed" # "pass"
  BY DEF Frames
<1>2. /\ DOMAIN s = 1..Len(s) /\ s \in Seq(P \cup {"pass"}) /\ s[1] = "pass"
      /\ \A j \in 2..Len(s) : s[j] \in P
  <2> DEFINE B == <<"pass", "timers", "closelist">>
             S == P \cup {"pass"}
  <2>1. Begins(P, S, "pass", B) /\ P \subseteq S
    BY DEF Begins
  <2>2. r \in Seq(P) /\ w \in Seq(P)
    <3>1. <<"read">> \in Seq(P) /\ <<"write">> \in Seq(P) /\ <<>> \in Seq(P)
      OBVIOUS
    <3> QED BY <3>1, Zenon
  <2>3. s = B \o r \o w
    OBVIOUS
  <2> HIDE DEF P, S, B
  <2>4. Begins(P, S, "pass", B \o r)
    BY <2>1, <2>2, Onward
  <2>5. Begins(P, S, "pass", (B \o r) \o w)
    BY <2>1, <2>2, <2>4, Onward
  <2>6. Begins(P, S, "pass", s)
    BY <2>3, <2>5
  <2> QED BY <2>6, LenProperties DEF Begins, S
<1>3. l => t > 0
  BY DEF Kept, Range
<1>4. Range(s) \subseteq P \cup {"pass"}
  BY <1>2 DEF Range
<1> HIDE DEF P
<1>5. s \in Seq(Frames)
  BY <1>1, <1>2 DEF P
<1> QED BY <1>1, <1>2, <1>3, <1>4, <1>5 DEF Kept

-----------------------------------------------------------------------------
LEMMA Unheard ==
  ASSUME StackInv, status = "running", careful, told = 0
  PROVE  stack = <<>> \/ Last(stack) # "exceeded"
<1> SUFFICES ASSUME stack # <<>>, Last(stack) = "exceeded" PROVE FALSE
  OBVIOUS
<1>1. "exceeded" \in Range(stack)
  <2>1. stack \in Seq(Frames) /\ Len(stack) \in Nat \ {0}
    BY EmptySeq DEF StackInv
  <2> QED BY <2>1 DEF Last, Range
<1>2. ~Kept(careful, stack, told, Lost)
  BY <1>1 DEF Kept
<1>3. PICK k \in Seq(Frames), f \in {"sent", "exceeded"} :
        stack = Append(k, f) /\ (f = "exceeded" => told > 0)
  BY <1>2 DEF StackInv
<1>4. f = "exceeded"
  BY <1>3, AppendFacts DEF Frames
<1> QED BY <1>3, <1>4

LEMMA ApplicationKeeps == StackInv /\ Application => StackInv'
<1> SUFFICES ASSUME StackInv, Application PROVE StackInv'
  OBVIOUS
<1>0. told \in 0..2 /\ careful \in BOOLEAN /\ stack \in Seq(Frames) /\ (careful => status = "running")
  BY DEF StackInv
<1>1. CASE Write
  <2>1. Stay
    BY <1>1 DEF Write, Put, Stay
  <2> QED BY <2>1, StayKeeps
<1>2. CASE Overflows
  <2>1. Stay
    BY <1>2 DEF Overflows, Overflow, Stay
  <2> QED BY <2>1, StayKeeps
<1>3. CASE WriteRaises
  <2>1. ASSUME careful PROVE FALSE
    <3>1. told = 0 /\ "closed" \notin Range(stack) /\ status = "running"
          /\ (stack # <<>> => Last(stack) # "sent")
      BY <1>0, <1>3, <2>1 DEF WriteRaises, MayAct
    <3>2. Kept(careful, stack, told, Lost)
      BY <3>1, Unheard, TopOnly
    <3>3. Lost
      BY <1>3 DEF WriteRaises, Lost
    <3> QED BY <3>1, <3>2, <3>3 DEF Kept
  <2> QED BY <1>3, <2>1, RaiseKeeps DEF WriteRaises
<1>4. CASE CloseStream
  <2> DEFINE k == Append(stack, "closed")
  <2>1. "closed" \in Frames /\ Lost \in BOOLEAN
    BY DEF Frames, Lost
  <2>2. k \in Seq(Frames) /\ Range(k) = Range(stack) \cup {"closed"}
    BY <1>0, <2>1, AppendRange
  <2>3. ASSUME status = "running" PROVE Kept(careful, k, told, Lost)
    <3>1. stack = <<>> \/ Last(stack) \notin {"sent", "exceeded"} \/ ~careful
      BY <1>4, <2>3, Unheard DEF CloseStream, MayAct
    <3>2. Kept(careful, stack, told, Lost)
      BY <2>3, <3>1, TopOnly
    <3> QED BY <1>0, <2>1, <3>2, KeptGrows
  <2>4. Close(FALSE, k) /\ careful' = careful /\ status' = status
    BY <1>4 DEF CloseStream
  <2> HIDE DEF k
  <2>5. CloseTo(k)
    BY <1>0, <2>4, CloseGoes
  <2>6. Holds(k) /\ Waiting(k)
    BY <2>2, <2>3 DEF Holds, Waiting
  <2> QED BY <2>2, <2>4, <2>5, <2>6, CloseToKeeps
<1> QED BY <1>1, <1>2, <1>3, <1>4 DEF Application

LEMMA StepKeeps == StackInv /\ Step => StackInv'
<1> SUFFICES ASSUME StackInv, Step PROVE StackInv'
  OBVIOUS
<1>0. /\ told \in 0..2 /\ careful \in BOOLEAN /\ toclose \in BOOLEAN /\ Lost \in BOOLEAN
      /\ stack = <<>> /\ status = "running"
      /\ status' = status /\ told' = told /\ careful' = careful /\ Lost' = Lost /\ toclose' = toclose
  BY DEF StackInv, Step, conn, Lost
<1>1. Kept(careful, <<>>, told, Lost)
  BY <1>0, TopOnly
<1>2. PICK r \in {<<>>, <<"read">>}, w \in {<<>>, <<"write">>} :
        stack' = <<"pass", "timers", "closelist">> \o r \o w
  BY DEF Step
<1>3. stack' \in Seq(Frames) /\ Kept(careful, stack', told, Lost)
  <2>1. told \in 0..2 /\ Lost \in BOOLEAN
    BY <1>0
  <2> QED BY <1>1, <1>2, <2>1, FreshPass, Zenon
<1> QED BY <1>0, <1>3 DEF StackInv

(* The functions that go on when a hook has returned.                       *)
LEMMA TopKept ==
  ASSUME StackInv, status = "running", stack # <<>>, Last(stack) \notin {"sent", "exceeded"}
  PROVE  /\ Last(stack) \in {"failed", "timeout"} => told > 0
         /\ Last(stack) = "closing" => Waiting(Rest)
         /\ Last(stack) = "pass" => Rest = <<>>
<1>0. told \in 0..2 /\ stack \in Seq(Frames)
  BY DEF StackInv
<1> DEFINE f == Last(stack)
           r == Rest
<1>1. r \in Seq(Frames) /\ f \in Frames /\ stack = Append(r, f)
  BY <1>0, RestHolds, TopFacts DEF Rest
<1>2. Kept(careful, stack, told, Lost)
  BY TopOnly
<1> HIDE DEF f, r
<1>3. Range(stack) = Range(r) \cup {f}
  BY <1>1, AppendRange
<1>4. Len(stack) = Len(r) + 1 /\ Len(r) \in Nat /\ stack[Len(r) + 1] = f
  BY <1>1, AppendProperties
<1>5. f \in {"failed", "timeout"} => told > 0
  BY <1>2, <1>3 DEF Kept
<1>6. f = "closing" => Waiting(r)
  BY <1>2, <1>3 DEF Kept, Waiting
<1>7. f = "pass" => r = <<>>
  <2>1. f = "pass" => ~(Len(r) + 1 \in 2..Len(stack))
    BY <1>2, <1>4 DEF Kept
  <2>2. f = "pass" => Len(r) = 0
    BY <1>4, <2>1
  <2> QED BY <1>1, <2>2, EmptySeq
<1> QED BY <1>5, <1>6, <1>7 DEF f, r

LEMMA ExceededTold ==
  ASSUME StackInv, status = "running", stack # <<>>, Last(stack) = "exceeded"
  PROVE  told > 0
<1>1. "exceeded" \in Range(stack)
  <2>1. stack \in Seq(Frames) /\ Len(stack) \in Nat \ {0}
    BY EmptySeq DEF StackInv
  <2> QED BY <2>1 DEF Last, Range
<1>2. CASE Kept(careful, stack, told, Lost)
  BY <1>1, <1>2 DEF Kept
<1>3. ASSUME NEW k \in Seq(Frames), NEW f \in {"sent", "exceeded"},
             stack = Append(k, f), f = "exceeded" => told > 0
      PROVE  told > 0
  <2>1. Last(stack) = f
    BY <1>3, AppendFacts DEF Frames
  <2> QED BY <1>3, <2>1
<1> QED BY <1>2, <1>3 DEF StackInv

LEMMA LuaKeeps == StackInv /\ (Lua \/ SendTimeout \/ ReadTimeout) => StackInv'
<1> SUFFICES ASSUME StackInv, Lua \/ SendTimeout \/ ReadTimeout PROVE StackInv'
  OBVIOUS
<1>0. /\ told \in 0..2 /\ careful \in BOOLEAN /\ toclose \in BOOLEAN /\ Lost \in BOOLEAN
      /\ stack \in Seq(Frames) /\ (careful => status = "running")
  BY DEF StackInv, Lost
<1>1. ASSUME stack # <<>>, Last(stack) # "closed" PROVE Rest \in Seq(Frames) /\ Holds(Rest)
  BY <1>0, <1>1, RestHolds DEF Holds
<1>2. CASE WriteReady
  <2>1. StepTo(Rest)
    BY <1>0, <1>2, BufferGoes DEF WriteReady
  <2> QED BY <1>1, <1>2, <2>1, StepToKeeps DEF WriteReady, InLua
<1>3. CASE ReadReady
  <2>1. StepTo(Rest)
    <3>1. sock' = sock /\ toclose' = toclose /\ write' = write
      BY <1>3 DEF ReadReady, Receives, Exceeds, Breaks, conn
    <3>2. \/ stack' = Rest /\ told' = told
          \/ Tell(Append(Rest, "failed"))
          \/ Tell(Append(Rest, "exceeded")) /\ sock # "closed"
      BY <1>3 DEF ReadReady, Receives, Exceeds, Breaks, Return, Fire
    <3>3. /\ told' \in 0..2 /\ (told > 0 => told' > 0)
          /\ \/ stack' = Rest
             \/ stack' = Append(Rest, "failed") /\ told' > 0
             \/ stack' = Append(Rest, "exceeded") /\ told' > 0 /\ sock # "closed"
      BY <1>0, <3>2 DEF Tell, Fire
    <3> QED BY <3>1, <3>3 DEF StepTo
  <2> QED BY <1>1, <1>3, <2>1, StepToKeeps DEF ReadReady, InLua
<1>4. CASE CloseListed
  <2>1. StepTo(Rest)
    BY <1>0, <1>4 DEF CloseListed, StepTo, conn, Return, Fire, Tell
  <2> QED BY <1>1, <1>4, <2>1, StepToKeeps DEF CloseListed, InLua
<1>5. CASE NoTimeout \/ SendTimeout \/ ReadTimeout
  <2>1. StepTo(Rest)
    BY <1>0, <1>5 DEF NoTimeout, SendTimeout, ReadTimeout, StepTo, conn, Return, Fire, Tell
  <2> QED BY <1>1, <1>5, <2>1, StepToKeeps DEF NoTimeout, SendTimeout, ReadTimeout, InLua
<1>6. CASE PassEnds
  <2>1. StepTo(<<>>)
    BY <1>0, <1>6 DEF PassEnds, StepTo, conn, Return
  <2>2. status = "running" => Rest = <<>>
    BY <1>6, TopKept DEF PassEnds, InLua
  <2>3. <<>> \in Seq(Frames) /\ Holds(<<>>)
    BY <1>1, <1>6, <2>2 DEF Holds, PassEnds, InLua
  <2> QED BY <1>6, <2>1, <2>3, StepToKeeps DEF PassEnds
<1>7. CASE AfterConnected
  <2>1. StepTo(Rest)
    BY <1>0, <1>7, SendGoes DEF AfterConnected, StepTo, conn, Return
  <2> QED BY <1>1, <1>7, <2>1, StepToKeeps DEF AfterConnected, InLua
<1>12. ASSUME careful, stack # <<>>, Last(stack) \in {"sent", "exceeded"}
       PROVE  sock # "closed" /\ (Last(stack) = "exceeded" => told > 0)
  <2>1. Last(stack) \in Range(stack)
    <3>1. Len(stack) \in Nat \ {0}
      BY <1>0, <1>12, EmptySeq
    <3> QED BY <1>0, <3>1 DEF Last, Range
  <2>2. ~Kept(careful, stack, told, Lost)
    BY <1>12, <2>1 DEF Kept
  <2>3. PICK k \in Seq(Frames), f \in {"sent", "exceeded"} :
          stack = Append(k, f) /\ sock # "closed" /\ (f = "exceeded" => told > 0)
    BY <1>0, <1>12, <2>2 DEF StackInv
  <2>4. Last(stack) = f
    BY <2>3, AppendFacts DEF Frames
  <2> QED BY <2>3, <2>4
<1>13. CASE AfterExceeded
  <2>0. stack # <<>> /\ Last(stack) = "exceeded"
    BY <1>13 DEF AfterExceeded, InLua
  <2>1. CASE sock = "closed"
    <3>1. ~careful
      BY <1>12, <2>0, <2>1
    <3> QED BY <1>13, <2>1, <3>1, RaiseKeeps DEF AfterExceeded
  <2>2. CASE sock # "closed"
    <3>1. Close(TRUE, Rest) /\ careful' = careful /\ status' = status
      BY <1>13, <2>2 DEF AfterExceeded
    <3>2. CloseTo(Rest)
      BY <1>0, <3>1, CloseGoes
    <3>3. status = "running" => told > 0
      BY <2>0, ExceededTold
    <3> QED BY <1>1, <2>0, <3>1, <3>2, <3>3, CloseToKeeps DEF Waiting
  <2> QED BY <2>1, <2>2
<1>8. CASE AfterSent
  <2>0. InLua("sent") /\ stack # <<>> /\ Last(stack) = "sent"
    BY <1>8 DEF AfterSent, InLua
  <2>1. CASE ~toclose
    <3>1. StepTo(Rest) /\ careful' = careful /\ status' = status
      BY <1>0, <1>8, <2>1 DEF AfterSent, StepTo, conn, Return
    <3> QED BY <1>1, <2>0, <3>1, StepToKeeps
  <2>2. CASE toclose /\ sock = "closed"
    <3>1. ~careful
      BY <1>12, <2>0, <2>2
    <3>2. Raise
      BY <1>8, <2>2 DEF AfterSent
    <3> QED BY <3>1, <3>2, RaiseKeeps
  <2>3. CASE toclose /\ sock # "closed"
    <3>1. Close(FALSE, Rest) /\ careful' = careful /\ status' = status
      BY <1>8, <2>3 DEF AfterSent
    <3>2. CloseTo(Rest)
      BY <1>0, <3>1, CloseGoes
    <3>3. status = "running" => Waiting(Rest)
      BY <1>1, <2>0, <2>3 DEF Holds, Kept, Lost, Waiting
    <3> QED BY <1>1, <2>0, <3>1, <3>2, <3>3, CloseToKeeps
  <2> QED BY <1>0, <2>1, <2>2, <2>3
<1>9. CASE AfterFailed \/ AfterTimeout
  <2>1. CloseTo(Rest) /\ careful' = careful /\ status' = status
    BY <1>0, <1>9, CloseGoes DEF AfterFailed, AfterTimeout
  <2>2. stack # <<>> /\ Last(stack) \in {"failed", "timeout"}
    BY <1>9 DEF AfterFailed, AfterTimeout, InLua
  <2>3. status = "running" => Waiting(Rest)
    BY <2>2, TopKept DEF Waiting
  <2> QED BY <1>1, <2>1, <2>2, <2>3, CloseToKeeps
<1>10. CASE AfterClosing
  <2>1. LoseTo(Rest) /\ careful' = careful /\ status' = status
    BY <1>0, <1>10 DEF AfterClosing, LoseTo, Return, conn, Shut
  <2>2. stack # <<>> /\ Last(stack) = "closing"
    BY <1>10 DEF AfterClosing, InLua
  <2>3. status = "running" => Waiting(Rest)
    BY <2>2, TopKept
  <2> QED BY <1>1, <2>1, <2>2, <2>3, LoseToKeeps
<1>11. CASE AfterClosed
  <2>1. /\ stack # <<>> /\ stack' = Rest /\ told' \in 1..2 /\ Lost' = Lost /\ sock' = sock
        /\ careful' = careful /\ status' = status /\ toclose' = toclose
    BY <1>0, <1>11 DEF AfterClosed, InLua, Tell, Fire, conn, Lost
  <2>2. told' \in 0..2 /\ told' > 0
    BY <2>1
  <2>3. Rest \in Seq(Frames) /\ (status = "running" => Kept(careful, Rest, told', Lost))
    BY <2>1, <2>2, RestHolds
  <2> QED BY <1>0, <2>1, <2>2, <2>3 DEF StackInv
<1> QED BY <1>2, <1>3, <1>4, <1>5, <1>6, <1>7, <1>8, <1>9, <1>10, <1>11, <1>13 DEF Lua

LEMMA StackKept == StackInv /\ [Next]_vars => StackInv'
<1> SUFFICES ASSUME StackInv, [Next]_vars PROVE StackInv'
  OBVIOUS
<1>1. CASE HookReturns
  <2>1. Stay
    BY <1>1 DEF HookReturns, conn, Stay
  <2> QED BY <2>1, StayKeeps
<1>2. CASE UNCHANGED vars
  <2>1. Stay
    BY <1>2 DEF vars, conn, Stay
  <2> QED BY <2>1, StayKeeps
<1> QED BY <1>1, <1>2, ApplicationKeeps, StepKeeps, LuaKeeps DEF Next

LEMMA InitStack == Init => StackInv
<1> SUFFICES ASSUME Init PROVE StackInv
  OBVIOUS
<1>1. /\ stack = <<>> /\ told = 0 /\ careful \in BOOLEAN /\ toclose = FALSE /\ status = "running"
      /\ sock = "connecting" /\ write = "write"
  BY DEF Init
<1>2. ~Lost
  BY <1>1 DEF Lost
<1>3. stack \in Seq(Frames) /\ Len(stack) = 0 /\ Range(stack) = {}
  BY <1>1 DEF Range
<1>4. Kept(careful, stack, told, Lost)
  <2>1. 2..Len(stack) = {}
    BY <1>3
  <2>2. \A f : f \notin Range(stack)
    BY <1>3
  <2> QED BY <1>2, <2>1, <2>2, Zenon DEF Kept
<1>5. told \in 0..2
  BY <1>1
<1>6. toclose \in BOOLEAN
  BY <1>1, Zenon
<1> QED BY <1>1, <1>3, <1>4, <1>5, <1>6, Zenon DEF StackInv

LEMMA StackAlways == Spec => []StackInv
<1> QED BY InitStack, StackKept, PTL DEF Spec

(* A connection that is gone, or that takes no more output, is reported     *)
(* before the pass of loop ends.                                            *)
THEOREM LossStaysReported == Spec => []LossIsReported
<1>1. StackInv => LossIsReported
  <2> SUFFICES ASSUME StackInv, stack = <<>>, status = "running", sock = "closed" \/ write = "nil"
               PROVE  told > 0
    BY DEF LossIsReported
  <2>1. Kept(careful, stack, told, Lost) /\ Lost
    BY TopOnly DEF Lost
  <2>2. "closed" \notin Range(stack)
    BY DEF Range
  <2> QED BY <2>1, <2>2 DEF Kept
<1> QED BY <1>1, StackAlways, PTL

(* An application that leaves a connection alone once it is gone never      *)
(* makes net.server raise.                                                  *)
THEOREM NothingEverRaises == Spec => []NothingRaises
<1>1. StackInv => NothingRaises
  BY DEF StackInv, NothingRaises
<1> QED BY <1>1, StackAlways, PTL

-----------------------------------------------------------------------------
(* The rest of the types.                                                   *)
Flags ==
  /\ write \in {"write", "idfalse", "nil"}
  /\ fatalerror \in BOOLEAN /\ hook \in BOOLEAN
  /\ status \in {"running", "wedged", "aborted"}

FlagStep ==
  /\ write' \in {write, "idfalse", "nil"}
  /\ fatalerror' \in {fatalerror, TRUE} /\ hook' \in BOOLEAN

LEMMA SendFlags == \A k : _sendbuffer(k) => FlagStep
BY DEF _sendbuffer, SendAll, SendPart, SendFails, Return, Fire, Tell, FlagStep

LEMMA BufferFlags == \A k : sendbuffer(k) => FlagStep
<1>1. \A k : Connects(k) => FlagStep
  BY DEF Connects, Put, Overflow, Fire, FlagStep
<1> QED BY <1>1, SendFlags DEF sendbuffer

LEMMA CloseFlags == \A forced, k : Close(forced, k) => FlagStep
BY BufferFlags DEF Close, Shut, Return, conn, FlagStep

LEMMA FlagsKept == Flags /\ [Next]_vars => Flags'
<1> SUFFICES ASSUME Flags, [Next]_vars PROVE Flags'
  OBVIOUS
<1> DEFINE Running == status' \in {status, "wedged", "aborted"}
<1>0. Raise => FlagStep /\ Running
  BY DEF Raise, conn, FlagStep
<1>1. Application => FlagStep /\ Running
  BY <1>0, CloseFlags
     DEF Application, Write, Put, Overflows, Overflow, WriteRaises, CloseStream, FlagStep, Flags
<1>2. Step \/ HookReturns \/ SendTimeout \/ ReadTimeout => FlagStep /\ Running
  BY DEF Step, HookReturns, SendTimeout, ReadTimeout, conn, Tell, Fire, FlagStep
<1>3. Lua => FlagStep /\ Running
  <2>1. WriteReady \/ AfterConnected => FlagStep /\ Running
    BY BufferFlags, SendFlags DEF WriteReady, AfterConnected, Return, conn, FlagStep
  <2>2. ReadReady \/ CloseListed \/ NoTimeout \/ PassEnds \/ AfterClosed => FlagStep /\ Running
    BY DEF ReadReady, Receives, Exceeds, Breaks, CloseListed,
           NoTimeout, PassEnds, AfterClosed, Return, Fire, Tell, conn, FlagStep
  <2>3. AfterSent => FlagStep /\ Running
    BY <1>0, CloseFlags DEF AfterSent, Return, conn, FlagStep
  <2>4. AfterFailed \/ AfterExceeded \/ AfterTimeout => FlagStep /\ Running
    BY <1>0, CloseFlags DEF AfterFailed, AfterExceeded, AfterTimeout
  <2>5. AfterClosing => FlagStep /\ Running
    BY DEF AfterClosing, Shut, Return, conn, FlagStep
  <2> QED BY <2>1, <2>2, <2>3, <2>4, <2>5 DEF Lua
<1>4. UNCHANGED vars => Flags'
  BY DEF vars, conn, Flags
<1>5. FlagStep /\ Running => Flags'
  BY DEF FlagStep, Flags
<1> QED BY <1>1, <1>2, <1>3, <1>4, <1>5 DEF Next

(* Every variable of the connection keeps its type.                         *)
THEOREM ConnectionTypes == Spec => []TypeOK
<1>1. Init => Flags
  BY DEF Init, Flags
<1>2. Spec => []Flags
  BY <1>1, FlagsKept, PTL DEF Spec
<1>3. DataInv /\ StackInv /\ Flags => TypeOK
  <2>1. 1..(MaxWrites + 1) = Numbers
    BY DEF Numbers
  <2> QED BY <2>1 DEF DataInv, StackInv, Flags, TypeOK
<1> QED BY <1>2, <1>3, DataAlways, StackAlways, PTL
=============================================================================
