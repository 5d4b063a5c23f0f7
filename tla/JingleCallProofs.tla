---------------------------- MODULE JingleCallProofs ----------------------------
(***************************************************************************)
(* What two endpoints of JingleCall agree on, for any number of sessions   *)
(* and of requests between them.  A session is followed from its caller,   *)
(* Owner[s], to its callee: what each application has seen of it, and what *)
(* of it is still in the one queue and in the other.                       *)
(***************************************************************************)
EXTENDS JingleCall, JingleSessionProofs, SequenceTheorems

Acts == {"session-initiate", "session-accept", "session-terminate",
         "transport-info", "session-info"}

(* What a queue holds of a session.                                         *)
Has(q, x, s) == \E k \in 1..Len(q) : q[k] = Request(x, s)
Twice(q, x, s) ==
  \E j, k \in 1..Len(q) : j < k /\ q[j] = Request(x, s) /\ q[k] = Request(x, s)
Leads(q, x, y, s) ==
  \A k \in 1..Len(q) : q[k] = Request(y, s) =>
    \E j \in 1..Len(q) : j < k /\ q[j] = Request(x, s)
Follows(q, x, y, s) ==
  \A k \in 1..Len(q) : q[k] = Request(x, s) =>
    \E j \in 1..Len(q) : k < j /\ q[j] = Request(y, s)

(* p holds of s what q holds of it, in the same order.                      *)
Like(p, q, s) ==
  \A x, y \in Acts :
    /\ Has(p, x, s) <=> Has(q, x, s)
    /\ Twice(p, x, s) <=> Twice(q, x, s)
    /\ Leads(q, x, y, s) => Leads(p, x, y, s)
    /\ Follows(q, x, y, s) => Follows(p, x, y, s)

(* What becomes of a queue q when a request z of s is put behind it, and    *)
(* when it is taken from its front; p is the queue afterwards.              *)
Sent(p, q, z, s) ==
  \A x, y \in Acts :
    /\ Has(p, x, s) <=> Has(q, x, s) \/ x = z
    /\ Twice(p, x, s) <=> Twice(q, x, s) \/ (x = z /\ Has(q, x, s))
    /\ Leads(q, x, y, s) /\ (y = z => Has(q, x, s)) => Leads(p, x, y, s)
    /\ x # y /\ (y = z \/ (Follows(q, x, y, s) /\ x # z)) => Follows(p, x, y, s)

Taken(p, q, z, s) ==
  \A x, y \in Acts :
    /\ Has(q, x, s) <=> Has(p, x, s) \/ x = z
    /\ Twice(q, x, s) <=> Twice(p, x, s) \/ (x = z /\ Has(p, x, s))
    /\ Leads(q, x, y, s) => y # z
    /\ Leads(q, x, y, s) /\ x # z => Leads(p, x, y, s)
    /\ Follows(q, x, y, s) => Follows(p, x, y, s)
    /\ Follows(q, x, y, s) /\ x = z => Has(p, y, s)

LEMMA RequestFacts ==
  /\ \A x \in Acts, s \in Sids : Request(x, s) \in Msg
  /\ \A m \in Msg : m.action \in Acts /\ m.sid \in Sids /\ m = Request(m.action, m.sid)
  /\ \A x, y, s, t : Request(x, s) = Request(y, t) <=> x = y /\ s = t
BY DEF Request, Msg, Acts

(* A request sent goes behind all that are on their way.                    *)
LEMMA Sending ==
  ASSUME NEW q \in Seq(Msg), NEW z \in Acts, NEW t \in Sids, NEW s \in Sids,
         NEW p, p = Append(q, Request(z, t))
  PROVE  /\ p \in Seq(Msg)
         /\ s # t => Like(p, q, s)
         /\ s = t => Sent(p, q, z, s)
<1>1. /\ p \in Seq(Msg) /\ Len(p) = Len(q) + 1 /\ Len(q) \in Nat
      /\ \A k \in 1..Len(q) : p[k] = q[k]
      /\ p[Len(q) + 1] = Request(z, t)
  <2>1. Request(z, t) \in Msg
    BY RequestFacts
  <2> QED BY <2>1, AppendProperties
<1>2. \A x, y, v, w : Request(x, v) = Request(y, w) <=> x = y /\ v = w
  BY RequestFacts
<1> HIDE DEF Request
<1>3. ASSUME NEW x \in Acts
      PROVE  /\ Has(p, x, s) <=> Has(q, x, s) \/ (x = z /\ s = t)
             /\ Twice(p, x, s) <=> Twice(q, x, s) \/ (x = z /\ s = t /\ Has(q, x, s))
  <2>1. Has(p, x, s) <=> Has(q, x, s) \/ (x = z /\ s = t)
    BY <1>1, <1>2 DEF Has
  <2>2. Twice(p, x, s) <=> Twice(q, x, s) \/ (x = z /\ s = t /\ Has(q, x, s))
    BY <1>1, <1>2 DEF Has, Twice
  <2> QED BY <2>1, <2>2
<1>4. ASSUME NEW x \in Acts, NEW y \in Acts
      PROVE  /\ Leads(q, x, y, s) /\ (y = z /\ s = t => Has(q, x, s)) => Leads(p, x, y, s)
             /\ Follows(q, x, y, s) /\ ~(x = z /\ s = t) => Follows(p, x, y, s)
             /\ x # y /\ y = z /\ s = t => Follows(p, x, y, s)
  <2>1. Leads(q, x, y, s) /\ (y = z /\ s = t => Has(q, x, s)) => Leads(p, x, y, s)
    BY <1>1, <1>2 DEF Has, Leads
  <2>2. Follows(q, x, y, s) /\ ~(x = z /\ s = t) => Follows(p, x, y, s)
    BY <1>1, <1>2 DEF Follows
  <2>3. x # y /\ y = z /\ s = t => Follows(p, x, y, s)
    BY <1>1, <1>2 DEF Follows
  <2> QED BY <2>1, <2>2, <2>3
<1>5. s # t => Like(p, q, s)
  BY <1>3, <1>4 DEF Like
<1> QED BY <1>1, <1>3, <1>4, <1>5 DEF Sent

(* A request taken was in front of all others.                              *)
LEMMA Taking ==
  ASSUME NEW q \in Seq(Msg), q # <<>>, NEW z, NEW t, Head(q) = Request(z, t),
         NEW s \in Sids, NEW p, p = Tail(q)
  PROVE  /\ p \in Seq(Msg) /\ z \in Acts /\ t \in Sids
         /\ s # t => Like(p, q, s)
         /\ s = t => Taken(p, q, z, s)
<1>1. /\ p \in Seq(Msg) /\ Len(q) = Len(p) + 1 /\ Len(p) \in Nat
      /\ \A k \in 1..Len(p) : q[k + 1] = p[k]
      /\ q[1] = Request(z, t) /\ Request(z, t) \in Msg
  BY HeadTailProperties
<1>2. \A x, y, v, w : Request(x, v) = Request(y, w) <=> x = y /\ v = w
  BY RequestFacts
<1>3. z \in Acts /\ t \in Sids
  BY <1>1 DEF Request, Msg, Acts
<1>4. /\ \A k \in 1..Len(q) : k = 1 \/ (k - 1 \in 1..Len(p) /\ p[k - 1] = q[k])
      /\ \A k \in 1..Len(p) : k + 1 \in 1..Len(q) /\ q[k + 1] = p[k]
      /\ 1 \in 1..Len(q)
  BY <1>1
<1> HIDE DEF Request
<1>5. ASSUME NEW x \in Acts
      PROVE  /\ Has(q, x, s) <=> Has(p, x, s) \/ (x = z /\ s = t)
             /\ Twice(q, x, s) <=> Twice(p, x, s) \/ (x = z /\ s = t /\ Has(p, x, s))
  <2>1. Has(q, x, s) <=> Has(p, x, s) \/ (x = z /\ s = t)
    BY <1>4, <1>1, <1>2 DEF Has
  <2>2. Twice(q, x, s) => Twice(p, x, s) \/ (x = z /\ s = t /\ Has(p, x, s))
    <3> SUFFICES ASSUME NEW j \in 1..Len(q), NEW k \in 1..Len(q), j < k,
                        q[j] = Request(x, s), q[k] = Request(x, s)
                 PROVE  Twice(p, x, s) \/ (x = z /\ s = t /\ Has(p, x, s))
      BY DEF Twice
    <3>1. k - 1 \in 1..Len(p) /\ p[k - 1] = Request(x, s)
      BY <1>1
    <3>2. CASE j = 1
      BY <3>1, <3>2, <1>1, <1>2 DEF Has
    <3>3. CASE j # 1
      <4>1. j - 1 \in 1..Len(p) /\ p[j - 1] = Request(x, s) /\ j - 1 < k - 1
        BY <3>3, <1>1
      <4> QED BY <3>1, <4>1 DEF Twice
    <3> QED BY <3>2, <3>3
  <2>3. Twice(p, x, s) => Twice(q, x, s)
    <3> SUFFICES ASSUME NEW j \in 1..Len(p), NEW k \in 1..Len(p), j < k,
                        p[j] = Request(x, s), p[k] = Request(x, s)
                 PROVE  Twice(q, x, s)
      BY DEF Twice
    <3>1. /\ k + 1 \in 1..Len(q) /\ q[k + 1] = Request(x, s)
          /\ j + 1 \in 1..Len(q) /\ q[j + 1] = Request(x, s) /\ j + 1 < k + 1
      BY <1>1
    <3> QED BY <3>1 DEF Twice
  <2>4. x = z /\ s = t /\ Has(p, x, s) => Twice(q, x, s)
    <3> SUFFICES ASSUME x = z, s = t, NEW k \in 1..Len(p), p[k] = Request(x, s)
                 PROVE  Twice(q, x, s)
      BY DEF Has
    <3>1. k + 1 \in 1..Len(q) /\ q[k + 1] = Request(x, s) /\ 1 < k + 1 /\ 1 \in 1..Len(q)
      BY <1>1
    <3> QED BY <3>1, <1>1 DEF Twice
  <2> QED BY <2>1, <2>2, <2>3, <2>4
<1>6. ASSUME NEW x \in Acts, NEW y \in Acts
      PROVE  /\ Leads(q, x, y, s) => ~(y = z /\ s = t)
             /\ Leads(q, x, y, s) /\ ~(x = z /\ s = t) => Leads(p, x, y, s)
             /\ Follows(q, x, y, s) => Follows(p, x, y, s)
             /\ Follows(q, x, y, s) /\ x = z /\ s = t => Has(p, y, s)
  <2>1. Leads(q, x, y, s) => ~(y = z /\ s = t)
    BY <1>4, <1>1 DEF Leads
  <2>2. Leads(q, x, y, s) /\ ~(x = z /\ s = t) => Leads(p, x, y, s)
    <3> SUFFICES ASSUME Leads(q, x, y, s), ~(x = z /\ s = t),
                        NEW k \in 1..Len(p), p[k] = Request(y, s)
                 PROVE  \E j \in 1..Len(p) : j < k /\ p[j] = Request(x, s)
      BY DEF Leads
    <3>1. k + 1 \in 1..Len(q) /\ q[k + 1] = Request(y, s)
      BY <1>1
    <3>2. PICK j \in 1..Len(q) : j < k + 1 /\ q[j] = Request(x, s)
      BY <3>1 DEF Leads
    <3>3. j # 1
      BY <3>2, <1>1, <1>2
    <3>4. j - 1 \in 1..Len(p) /\ p[j - 1] = Request(x, s) /\ j - 1 < k
      BY <3>2, <3>3, <1>1
    <3> QED BY <3>4
  <2>3. Follows(q, x, y, s) => Follows(p, x, y, s)
    <3> SUFFICES ASSUME Follows(q, x, y, s),
                        NEW k \in 1..Len(p), p[k] = Request(x, s)
                 PROVE  \E j \in 1..Len(p) : k < j /\ p[j] = Request(y, s)
      BY DEF Follows
    <3>1. k + 1 \in 1..Len(q) /\ q[k + 1] = Request(x, s)
      BY <1>1
    <3>2. PICK j \in 1..Len(q) : k + 1 < j /\ q[j] = Request(y, s)
      BY <3>1 DEF Follows
    <3>3. j - 1 \in 1..Len(p) /\ p[j - 1] = Request(y, s) /\ k < j - 1
      BY <3>2, <1>1
    <3> QED BY <3>3
  <2>4. Follows(q, x, y, s) /\ x = z /\ s = t => Has(p, y, s)
    <3> SUFFICES ASSUME Follows(q, x, y, s), x = z, s = t
                 PROVE  Has(p, y, s)
      OBVIOUS
    <3>1. PICK j \in 1..Len(q) : 1 < j /\ q[j] = Request(y, s)
      BY <1>4, <1>1 DEF Follows
    <3>2. j - 1 \in 1..Len(p) /\ p[j - 1] = Request(y, s)
      BY <3>1, <1>1
    <3> QED BY <3>2 DEF Has
  <2> QED BY <2>1, <2>2, <2>3, <2>4
<1>7. s # t => Like(p, q, s)
  <2> SUFFICES ASSUME s # t, NEW x \in Acts, NEW y \in Acts
               PROVE  /\ Has(p, x, s) <=> Has(q, x, s)
                      /\ Twice(p, x, s) <=> Twice(q, x, s)
                      /\ Leads(q, x, y, s) => Leads(p, x, y, s)
                      /\ Follows(q, x, y, s) => Follows(p, x, y, s)
    BY DEF Like
  <2> QED BY <1>5, <1>6
<1> QED BY <1>1, <1>3, <1>5, <1>6, <1>7 DEF Taken

-----------------------------------------------------------------------------
(* One session: a is what its caller has seen of it and b what its callee   *)
(* has, qc and qd are the queues to the one and to the other, k counts the  *)
(* candidates, mutes and repeated answers of the callee, h is hasty.        *)

(* An offer is made once, and answered by the callee alone; the two see the *)
(* session go forward only.                                                 *)
Ordered(s, a, b, qc, qd) ==
  /\ a \in {"none", "created", "offered", "established", "ended"}
  /\ b \in {"none", "ringing", "established", "ended"}
  /\ b # "none" => a \in {"offered", "established", "ended"}
  /\ a = "established" => b \in {"established", "ended"}
  /\ ~Has(qc, "session-initiate", s) /\ ~Has(qd, "session-accept", s)
  /\ Has(qd, "session-initiate", s) => b = "none" /\ a \in {"offered", "ended"}
  /\ ~Twice(qd, "session-initiate", s)
  /\ Has(qc, "session-accept", s) => b \in {"established", "ended"}

(* What can make the loop of a caller raise comes from a callee that has    *)
(* sent more than one answer or one hang-up.                                *)
Excused(s, a, b, qc, k, h) ==
  /\ Has(qc, "session-accept", s) /\ (a = "established" \/ Twice(qc, "session-accept", s))
       => h /\ k > 0
  /\ Has(qc, "transport-info", s) => b # "none" /\ k > 0

(* Of careful applications: whatever one end does not know yet is on its    *)
(* way, behind what must come first.                                        *)
Told(s, a, b, qc, qd) ==
  /\ Has(qc, "session-terminate", s) => b = "ended"
  /\ Has(qd, "session-terminate", s) => a = "ended"
  /\ a = "offered" => Leads(qc, "session-accept", "transport-info", s)
  /\ a = "offered" /\ b = "none" => Has(qd, "session-initiate", s)
  /\ a = "offered" /\ b = "established" => Has(qc, "session-accept", s)
  /\ a \in {"offered", "established"} /\ b = "ended" => Has(qc, "session-terminate", s)
  /\ a = "ended" /\ b \in {"ringing", "established"} => Has(qd, "session-terminate", s)
  /\ a = "ended" => Follows(qd, "session-initiate", "session-terminate", s)

Agreed(s, a, b, qc, qd, k, h) ==
  /\ Ordered(s, a, b, qc, qd)
  /\ Excused(s, a, b, qc, k, h)
  /\ ~h => Told(s, a, b, qc, qd)

(* What the two do about another session leaves this one alone.             *)
LEMMA ActsFacts ==
  /\ "session-initiate" \in Acts /\ "session-accept" \in Acts /\ "session-terminate" \in Acts
  /\ "transport-info" \in Acts /\ "session-info" \in Acts
  /\ {"transport-info", "session-info"} \subseteq Acts
BY DEF Acts

LEMMA AgreedFrame ==
  ASSUME NEW s \in Sids, NEW a, NEW b, NEW qc, NEW qd, NEW pc, NEW pd,
         NEW k \in Int, NEW l \in Int, NEW h \in BOOLEAN,
         Agreed(s, a, b, qc, qd, k, h), Like(pc, qc, s), Like(pd, qd, s), l >= k
  PROVE  Agreed(s, a, b, pc, pd, l, h)
<1>1. /\ \A x \in Acts : /\ Has(pc, x, s) <=> Has(qc, x, s)
                         /\ Twice(pc, x, s) <=> Twice(qc, x, s)
                         /\ Has(pd, x, s) <=> Has(qd, x, s)
                         /\ Twice(pd, x, s) <=> Twice(qd, x, s)
      /\ \A x, y \in Acts : /\ Leads(qc, x, y, s) => Leads(pc, x, y, s)
                            /\ Follows(qd, x, y, s) => Follows(pd, x, y, s)
  BY DEF Like
<1>2. Ordered(s, a, b, pc, pd)
  BY <1>1 DEF Agreed, Ordered, Acts
<1>3. Excused(s, a, b, pc, l, h)
  BY <1>1 DEF Agreed, Excused, Acts
<1>4. ~h => Told(s, a, b, pc, pd)
  BY <1>1 DEF Agreed, Told, Acts
<1> QED BY <1>2, <1>3, <1>4 DEF Agreed

(* The application of the caller.                                           *)
LEMMA AgreedCreate ==
  ASSUME NEW s \in Sids, NEW b, NEW qc, NEW qd, NEW k \in Int, NEW h \in BOOLEAN,
         Agreed(s, "none", b, qc, qd, k, h)
  PROVE  Agreed(s, "created", b, qc, qd, k, h)
BY DEF Agreed, Ordered, Excused, Told

LEMMA AgreedStart ==
  ASSUME NEW s \in Sids, NEW b, NEW qc \in Seq(Msg), NEW qd \in Seq(Msg),
         NEW k \in Int, NEW h \in BOOLEAN,
         Agreed(s, "created", b, qc, qd, k, h),
         NEW pd, pd = Append(qd, Request("session-initiate", s))
  PROVE  Agreed(s, "offered", b, qc, pd, k, h)
<1>1. Sent(pd, qd, "session-initiate", s)
  BY Sending, ActsFacts
<1>2. ~Has(qc, "transport-info", s) => Leads(qc, "session-accept", "transport-info", s)
  BY DEF Has, Leads
<1> QED BY <1>1, <1>2, ActsFacts DEF Sent, Agreed, Ordered, Excused, Told

LEMMA AgreedCallerInfo ==
  ASSUME NEW s \in Sids, NEW a, NEW b, NEW qc \in Seq(Msg), NEW qd \in Seq(Msg),
         NEW k \in Int, NEW h \in BOOLEAN,
         Agreed(s, a, b, qc, qd, k, h),
         NEW x \in {"transport-info", "session-info"},
         NEW pd, pd = Append(qd, Request(x, s))
  PROVE  Agreed(s, a, b, qc, pd, k, h)
<1>1. Sent(pd, qd, x, s)
  BY Sending, ActsFacts
<1> QED BY <1>1, ActsFacts DEF Sent, Agreed, Ordered, Excused, Told

LEMMA AgreedCallerEnds ==
  ASSUME NEW s \in Sids, NEW a \in Live, NEW b, NEW qc \in Seq(Msg), NEW qd \in Seq(Msg),
         NEW k \in Int, NEW h \in BOOLEAN,
         Agreed(s, a, b, qc, qd, k, h),
         NEW pd, pd = Append(qd, Request("session-terminate", s)) \/ (h /\ pd = qd)
  PROVE  Agreed(s, "ended", b, qc, pd, k, h)
<1>1. CASE pd = Append(qd, Request("session-terminate", s))
  <2>1. Sent(pd, qd, "session-terminate", s)
    BY <1>1, Sending, ActsFacts
  <2> QED BY <2>1, ActsFacts DEF Sent, Agreed, Ordered, Excused, Told, Live
<1>2. CASE h /\ pd = qd
  BY <1>2 DEF Agreed, Ordered, Excused, Live
<1> QED BY <1>1, <1>2

(* The application of the callee.                                           *)
LEMMA AgreedAccept ==
  ASSUME NEW s \in Sids, NEW a, NEW b, NEW qc \in Seq(Msg), NEW qd \in Seq(Msg),
         NEW k \in Nat, NEW l \in Nat, NEW h \in BOOLEAN,
         Agreed(s, a, b, qc, qd, k, h),
         (b = "ringing" /\ l = k) \/ (h /\ b = "established" /\ l = k + 1),
         NEW pc, pc = Append(qc, Request("session-accept", s))
  PROVE  Agreed(s, a, "established", pc, qd, l, h)
<1>1. Sent(pc, qc, "session-accept", s)
  BY Sending, ActsFacts
<1>2. Twice(qc, "session-accept", s) => Has(qc, "session-accept", s)
  BY DEF Has, Twice
<1> QED BY <1>1, <1>2, ActsFacts DEF Sent, Agreed, Ordered, Excused, Told

LEMMA AgreedCalleeInfo ==
  ASSUME NEW s \in Sids, NEW a, NEW b, NEW qc \in Seq(Msg), NEW qd \in Seq(Msg),
         NEW k \in Nat, NEW l \in Nat, NEW h \in BOOLEAN,
         Agreed(s, a, b, qc, qd, k, h), l = k + 1,
         b \in Live, ~h => b \in {"offered", "established"},
         NEW x \in {"transport-info", "session-info"},
         NEW pc, pc = Append(qc, Request(x, s))
  PROVE  Agreed(s, a, b, pc, qd, l, h)
<1>1. Sent(pc, qc, x, s)
  BY Sending, ActsFacts
<1> QED BY <1>1, ActsFacts DEF Sent, Agreed, Ordered, Excused, Told, Live

LEMMA AgreedCalleeEnds ==
  ASSUME NEW s \in Sids, NEW a, NEW b \in Live, NEW qc \in Seq(Msg), NEW qd \in Seq(Msg),
         NEW k \in Int, NEW h \in BOOLEAN,
         Agreed(s, a, b, qc, qd, k, h),
         NEW pc, pc = Append(qc, Request("session-terminate", s)) \/ (h /\ pc = qc)
  PROVE  Agreed(s, a, "ended", pc, qd, k, h)
<1>1. CASE pc = Append(qc, Request("session-terminate", s))
  <2>1. Sent(pc, qc, "session-terminate", s)
    BY <1>1, Sending, ActsFacts
  <2> QED BY <2>1, ActsFacts DEF Sent, Agreed, Ordered, Excused, Told, Live
<1>2. CASE h /\ pc = qc
  BY <1>2 DEF Agreed, Ordered, Excused, Live
<1> QED BY <1>1, <1>2

(* A request x is taken by an application that has seen a of the session,   *)
(* and then c.                                                              *)
CallerTakes(x, a, c) ==
  \/ x = "session-accept" /\ a = "offered" /\ c = "established"
  \/ x = "session-terminate" /\ a \in Live /\ c = "ended"
  \/ /\ x = "session-accept" => a # "offered"
     /\ x = "session-terminate" => a \notin {"offered", "established"}
     /\ c = a

CalleeTakes(x, b, c) ==
  \/ x = "session-initiate" /\ c = "ringing"
  \/ x = "session-terminate" /\ b \in Live /\ c = "ended"
  \/ /\ x # "session-initiate"
     /\ x = "session-terminate" => b \notin {"ringing", "established"}
     /\ c = b

(* A request is taken at the caller: an answer, a hang-up, or one after     *)
(* which it has seen no more than before.                                   *)
LEMMA AgreedAtCaller ==
  ASSUME NEW s \in Sids, NEW a, NEW b, NEW qc \in Seq(Msg), NEW qd \in Seq(Msg),
         NEW k \in Int, NEW h \in BOOLEAN,
         Agreed(s, a, b, qc, qd, k, h),
         qc # <<>>, NEW x \in Acts, Head(qc) = Request(x, s),
         NEW c, NEW pc, pc = Tail(qc),
         CallerTakes(x, a, c)
  PROVE  Agreed(s, c, b, pc, qd, k, h)
<1>1. Taken(pc, qc, x, s)
  BY Taking, ActsFacts
<1>2. ~Has(qd, "session-initiate", s) => Follows(qd, "session-initiate", "session-terminate", s)
  BY DEF Has, Follows
<1>3. Ordered(s, c, b, pc, qd)
  BY <1>1, ActsFacts DEF CallerTakes, Taken, Agreed, Ordered, Live
<1>4. Excused(s, c, b, pc, k, h)
  BY <1>1, ActsFacts DEF CallerTakes, Taken, Agreed, Ordered, Excused, Live
<1>5. ~h => Told(s, c, b, pc, qd)
  BY <1>1, <1>2, ActsFacts DEF CallerTakes, Taken, Agreed, Ordered, Told, Live
<1> QED BY <1>3, <1>4, <1>5 DEF Agreed

(* A request is taken at the callee.                                        *)
LEMMA AgreedAtCallee ==
  ASSUME NEW s \in Sids, NEW a, NEW b, NEW qc \in Seq(Msg), NEW qd \in Seq(Msg),
         NEW k \in Int, NEW h \in BOOLEAN,
         Agreed(s, a, b, qc, qd, k, h),
         qd # <<>>, NEW x \in Acts, Head(qd) = Request(x, s),
         NEW c, NEW pd, pd = Tail(qd),
         CalleeTakes(x, b, c)
  PROVE  Agreed(s, a, c, qc, pd, k, h)
<1>1. Taken(pd, qd, x, s)
  BY Taking, ActsFacts
<1>2. Ordered(s, a, c, qc, pd)
  BY <1>1, ActsFacts DEF CalleeTakes, Taken, Agreed, Ordered, Live
<1>3. Excused(s, a, c, qc, k, h)
  BY <1>1, ActsFacts DEF CalleeTakes, Taken, Agreed, Ordered, Excused, Live
<1>4. ~h => Told(s, a, c, qc, pd)
  BY <1>1, ActsFacts DEF CalleeTakes, Taken, Agreed, Ordered, Told, Live
<1> QED BY <1>2, <1>3, <1>4 DEF Agreed

(* Only a caller can be made to raise, by an answer it does not wait for or *)
(* by a candidate that comes before the answer.                             *)
LEMMA CallerRaises ==
  ASSUME NEW s \in Sids, NEW a \in Live, NEW b, NEW qc \in Seq(Msg), NEW qd \in Seq(Msg),
         NEW k \in Int, NEW h \in BOOLEAN,
         Agreed(s, a, b, qc, qd, k, h),
         qc # <<>>, NEW x \in Acts, Head(qc) = Request(x, s),
         \/ x = "session-accept" /\ a # "offered"
         \/ x = "transport-info" /\ a # "established"
  PROVE  h /\ k > 0 /\ a \in {"offered", "established"} /\ b \in {"ringing", "established", "ended"}
<1>1. Taken(Tail(qc), qc, x, s)
  BY Taking
<1>2. Has(qc, x, s) /\ ~Leads(qc, "session-accept", x, s)
  BY <1>1, ActsFacts DEF Taken
<1> QED BY <1>2 DEF Agreed, Ordered, Excused, Told, Live

LEMMA CalleeHead ==
  ASSUME NEW s \in Sids, NEW a, NEW b, NEW qc, NEW qd \in Seq(Msg),
         NEW k \in Int, NEW h \in BOOLEAN,
         Agreed(s, a, b, qc, qd, k, h),
         qd # <<>>, NEW x \in Acts, Head(qd) = Request(x, s)
  PROVE  x # "session-accept" /\ (x = "session-initiate" => b = "none")
<1>1. Taken(Tail(qd), qd, x, s)
  BY Taking
<1>2. Has(qd, x, s)
  BY <1>1 DEF Taken
<1> QED BY <1>2 DEF Agreed, Ordered

LEMMA CallerHead ==
  ASSUME NEW s \in Sids, NEW a, NEW b, NEW qc \in Seq(Msg), NEW qd,
         NEW k \in Int, NEW h \in BOOLEAN,
         Agreed(s, a, b, qc, qd, k, h),
         qc # <<>>, NEW x \in Acts, Head(qc) = Request(x, s)
  PROVE  x # "session-initiate" /\ a # "ringing"
<1>1. Taken(Tail(qc), qc, x, s)
  BY Taking
<1>2. Has(qc, x, s)
  BY <1>1 DEF Taken
<1> QED BY <1>2 DEF Agreed, Ordered

-----------------------------------------------------------------------------
(* One registry: r is that of e, and f what its application has seen.       *)
Keeps(e, r, f) ==
  /\ IsRegistry(r) /\ Indexed(r)
  /\ \A s \in Sids : s \in DOMAIN r.sessions <=> f[s] \in Live
  /\ \A s \in DOMAIN r.sessions :
       /\ SessionOf(r, s).peer = Peer(e)
       /\ SessionOf(r, s).isPending <=> f[s] \in {"offered", "ringing"}
       /\ Owner[s] # e \/ f[s] = "established" => SessionOf(r, s).remote

(* q is r but for what it says of sid.                                      *)
OthersKept(r, q, sid) ==
  /\ IsRegistry(q) /\ Indexed(q)
  /\ \A s \in Sids \ {sid} :
       /\ s \in DOMAIN q.sessions <=> s \in DOMAIN r.sessions
       /\ s \in DOMAIN r.sessions => SessionOf(q, s) = SessionOf(r, s)

LEMMA PeerFacts ==
  ASSUME NEW e \in Endpoints
  PROVE  /\ Peer(e) \in Endpoints /\ Peer(e) # e /\ Peer(Peer(e)) = e
         /\ \A d \in Endpoints : d = e \/ d = Peer(e)
<1>1. PICK a \in JIDs, b \in JIDs : a # b /\ JIDs = {a, b}
  BY CallAssumption
<1>2. \A d \in Endpoints : Peer(d) \in Endpoints /\ Peer(d) # d
  <2> SUFFICES ASSUME NEW d \in Endpoints
               PROVE  \E p \in Endpoints : p # d
    BY DEF Peer
  <2> QED BY <1>1 DEF Endpoints
<1> QED BY <1>1, <1>2 DEF Endpoints

LEMMA KeepsFrame ==
  ASSUME NEW e, NEW r, NEW f \in [Sids -> AppStates], Keeps(e, r, f),
         NEW sid \in Sids, NEW q, OthersKept(r, q, sid),
         NEW st \in AppStates, NEW g, g = [f EXCEPT ![sid] = st],
         sid \in DOMAIN q.sessions <=> st \in Live,
         st \in Live =>
           /\ SessionOf(q, sid).peer = Peer(e)
           /\ SessionOf(q, sid).isPending <=> st \in {"offered", "ringing"}
           /\ Owner[sid] # e \/ st = "established" => SessionOf(q, sid).remote
  PROVE  Keeps(e, q, g)
<1>1. /\ g[sid] = st
      /\ \A s \in Sids \ {sid} : g[s] = f[s]
      /\ IsRegistry(q) /\ Indexed(q) /\ DOMAIN q.sessions \subseteq Sids
  BY DEF OthersKept, IsRegistry
<1>2. ASSUME NEW s \in Sids
      PROVE  /\ s \in DOMAIN q.sessions <=> g[s] \in Live
             /\ s \in DOMAIN q.sessions =>
                  /\ SessionOf(q, s).peer = Peer(e)
                  /\ SessionOf(q, s).isPending <=> g[s] \in {"offered", "ringing"}
                  /\ Owner[s] # e \/ g[s] = "established" => SessionOf(q, s).remote
  <2>1. CASE s = sid
    BY <2>1, <1>1
  <2>2. CASE s # sid
    BY <2>2, <1>1 DEF Keeps, OthersKept
  <2> QED BY <2>1, <2>2
<1> QED BY <1>1, <1>2 DEF Keeps

LEMMA NewObject ==
  ASSUME NEW r, IsRegistry(r), Indexed(r),
         NEW sid \in Sids, NEW peer \in JIDs,
         NEW q, q = newSession(r, sid, peer)
  PROVE  /\ OthersKept(r, q, sid) /\ sid \in DOMAIN q.sessions
         /\ SessionOf(q, sid) = Jingle_new(sid, peer)
<1>1. /\ IsRegistry(q) /\ Indexed(q)
      /\ DOMAIN q.sessions = DOMAIN r.sessions \cup {sid}
      /\ q.sessions[sid] = Len(r.obj) + 1
      /\ \A s \in DOMAIN r.sessions \ {sid} : q.sessions[s] = r.sessions[s]
  BY NewSession
<1>2. /\ r.obj \in Seq(Session)
      /\ \A s \in DOMAIN r.sessions : r.sessions[s] \in 1..Len(r.obj)
  BY DEF IsRegistry
<1>3. Jingle_new(sid, peer) \in Session
  BY DEF Jingle_new, Session
<1>4. q.obj = Append(r.obj, Jingle_new(sid, peer))
  BY DEF newSession
<1>5. /\ \A i \in 1..Len(r.obj) : q.obj[i] = r.obj[i]
      /\ q.obj[Len(r.obj) + 1] = Jingle_new(sid, peer)
  BY <1>2, <1>3, <1>4, AppendProperties
<1>6. \A s \in DOMAIN r.sessions \ {sid} : SessionOf(q, s) = SessionOf(r, s)
  BY <1>1, <1>2, <1>5 DEF SessionOf
<1> QED BY <1>1, <1>5, <1>6 DEF SessionOf, OthersKept

LEMMA FlagsSet ==
  ASSUME NEW r, IsRegistry(r), Indexed(r), NEW sid \in DOMAIN r.sessions,
         NEW o \in Session, o.sid = SessionOf(r, sid).sid, o.peer = SessionOf(r, sid).peer,
         NEW q, q = SetObject(r, sid, o)
  PROVE  /\ OthersKept(r, q, sid) /\ sid \in DOMAIN q.sessions
         /\ SessionOf(q, sid) = o
<1>1. r.sessions[sid] \in 1..Len(r.obj) /\ r.obj \in Seq(Session)
  BY DEF IsRegistry
<1>2. /\ IsRegistry(q) /\ Indexed(q) /\ q.sessions = r.sessions
  BY <1>1, SetFlags DEF SetObject, SessionOf
<1>3. q.obj = [r.obj EXCEPT ![r.sessions[sid]] = o]
  BY DEF SetObject, IsRegistry
<1>4. \A s \in DOMAIN r.sessions \ {sid} : r.sessions[s] # r.sessions[sid]
  BY DEF Indexed
<1>5. \A s \in DOMAIN r.sessions \ {sid} : SessionOf(q, s) = SessionOf(r, s)
  BY <1>1, <1>2, <1>3, <1>4 DEF SessionOf, IsRegistry
<1>6. SessionOf(q, sid) = o
  BY <1>1, <1>2, <1>3 DEF SessionOf
<1> QED BY <1>2, <1>5, <1>6 DEF OthersKept

LEMMA Unregistered ==
  ASSUME NEW r, IsRegistry(r), Indexed(r), NEW sid \in Sids,
         NEW q, q = Unregister(r, sid)
  PROVE  OthersKept(r, q, sid) /\ sid \notin DOMAIN q.sessions
<1>1. /\ IsRegistry(q) /\ Indexed(q)
      /\ DOMAIN q.sessions = DOMAIN r.sessions \ {sid}
      /\ \A s \in DOMAIN q.sessions : q.sessions[s] = r.sessions[s]
      /\ q.obj = r.obj
  BY UnregisterSession
<1> QED BY <1>1 DEF OthersKept, SessionOf

LEMMA ObjectType ==
  ASSUME NEW r, IsRegistry(r), NEW sid \in DOMAIN r.sessions
  PROVE  SessionOf(r, sid) \in Session
BY DEF IsRegistry, SessionOf

LEMMA FlagsKeep ==
  ASSUME NEW e, NEW r, NEW f \in [Sids -> AppStates], Keeps(e, r, f),
         NEW sid \in Sids, f[sid] \in Live, NEW st \in Live,
         NEW o \in Session, o.sid = SessionOf(r, sid).sid, o.peer = SessionOf(r, sid).peer,
         o.isPending <=> st \in {"offered", "ringing"},
         Owner[sid] # e \/ st = "established" => o.remote,
         NEW q, q = SetObject(r, sid, o), NEW g, g = [f EXCEPT ![sid] = st]
  PROVE  Keeps(e, q, g)
<1>1. sid \in DOMAIN r.sessions /\ IsRegistry(r) /\ Indexed(r) /\ SessionOf(r, sid).peer = Peer(e)
  BY DEF Keeps
<1>2. OthersKept(r, q, sid) /\ sid \in DOMAIN q.sessions /\ SessionOf(q, sid) = o
  BY <1>1, FlagsSet
<1>3. st \in AppStates
  BY DEF Live, AppStates
<1> QED BY <1>1, <1>2, <1>3, KeepsFrame

LEMMA RungObject ==
  ASSUME NEW r, IsRegistry(r), Indexed(r), NEW sid \in DOMAIN r.sessions,
         NEW q, q = onSessionInitiate(r, sid)
  PROVE  /\ OthersKept(r, q, sid) /\ sid \in DOMAIN q.sessions
         /\ SessionOf(q, sid).peer = SessionOf(r, sid).peer
         /\ SessionOf(q, sid).isPending /\ SessionOf(q, sid).remote
<1> DEFINE o == [SessionOf(r, sid) EXCEPT !.remote = TRUE, !.isPending = TRUE]
<1>1. SessionOf(r, sid) \in Session
  BY ObjectType
<1>2. o \in Session /\ o.sid = SessionOf(r, sid).sid /\ o.peer = SessionOf(r, sid).peer
  BY <1>1 DEF Session
<1>3. o.isPending /\ o.remote
  BY <1>1 DEF Session
<1>4. q = SetObject(r, sid, o)
  BY DEF onSessionInitiate
<1> HIDE DEF o
<1>5. OthersKept(r, q, sid) /\ sid \in DOMAIN q.sessions /\ SessionOf(q, sid) = o
  BY <1>2, <1>4, FlagsSet
<1> QED BY <1>2, <1>3, <1>5

LEMMA RingKeeps ==
  ASSUME NEW e \in Endpoints, NEW r, NEW f \in [Sids -> AppStates], Keeps(e, r, f),
         NEW sid \in Sids, NEW q,
         q = onSessionInitiate(newSession(r, sid, Peer(e)), sid),
         NEW g, g = [f EXCEPT ![sid] = "ringing"]
  PROVE  Keeps(e, q, g)
<1>1. PICK d : d = Peer(e) /\ d \in JIDs
  BY PeerFacts DEF Endpoints
<1>2. PICK n : n = newSession(r, sid, Peer(e))
  OBVIOUS
<1>3. IsRegistry(r) /\ Indexed(r) /\ FALSE \in BOOLEAN
  BY DEF Keeps
<1>4. /\ OthersKept(r, n, sid) /\ sid \in DOMAIN n.sessions
      /\ SessionOf(n, sid).peer = d
  <2>1. Peer(e) \in JIDs
    BY <1>1
  <2>2. /\ OthersKept(r, n, sid) /\ sid \in DOMAIN n.sessions
        /\ SessionOf(n, sid) = Jingle_new(sid, Peer(e))
    BY <1>2, <1>3, <2>1, NewObject
  <2>3. Jingle_new(sid, Peer(e)).peer = d
    BY <1>1 DEF Jingle_new
  <2> QED BY <2>2, <2>3
<1>5. q = onSessionInitiate(n, sid) /\ IsRegistry(n) /\ Indexed(n)
  <2>1. q = onSessionInitiate(n, sid)
    BY <1>2, Zenon
  <2> QED BY <1>4, <2>1 DEF OthersKept
<1>6. /\ OthersKept(n, q, sid) /\ sid \in DOMAIN q.sessions
      /\ SessionOf(q, sid).peer = SessionOf(n, sid).peer
      /\ SessionOf(q, sid).isPending /\ SessionOf(q, sid).remote
  BY <1>4, <1>5, RungObject
<1>7. OthersKept(r, q, sid)
  BY <1>4, <1>6 DEF OthersKept
<1>8. /\ SessionOf(q, sid).peer = Peer(e)
      /\ SessionOf(q, sid).isPending <=> "ringing" \in {"offered", "ringing"}
      /\ Owner[sid] # e \/ "ringing" = "established" => SessionOf(q, sid).remote
  BY <1>1, <1>4, <1>6
<1>9. "ringing" \in AppStates /\ "ringing" \in Live
  BY DEF AppStates, Live
<1> QED BY <1>6, <1>7, <1>8, <1>9, KeepsFrame

LEMMA EndKeeps ==
  ASSUME NEW e, NEW r, NEW f \in [Sids -> AppStates], Keeps(e, r, f), NEW sid \in Sids,
         NEW q, q = Unregister(r, sid), NEW g, g = [f EXCEPT ![sid] = "ended"]
  PROVE  Keeps(e, q, g)
<1>1. OthersKept(r, q, sid) /\ sid \notin DOMAIN q.sessions
  BY Unregistered DEF Keeps
<1>2. "ended" \in AppStates /\ "ended" \notin Live
  BY DEF Live, AppStates
<1> QED BY <1>1, <1>2, KeepsFrame

(* What becomes of a request, by what the application has seen.             *)
Judged(v, r, f, s, x) ==
  /\ f[s] \notin Live => v = IF x = "session-initiate" THEN x ELSE "unknown-session"
  /\ f[s] \in Live =>
       v = CASE x = "session-initiate" ->
                  IF SessionOf(r, s).isPending THEN "tie-break" ELSE "out-of-order"
             [] x = "session-accept" /\ f[s] \notin {"offered", "ringing"} -> "accepted-twice"
             [] OTHER -> x

LEMMA VerdictFacts ==
  ASSUME NEW e, NEW r, NEW f, Keeps(e, r, f), NEW s \in Sids, NEW x \in Acts,
         NEW v, v = Verdict(r, x, s, Peer(e), TRUE)
  PROVE  Judged(v, r, f, s, x)
<1>1. s \in DOMAIN r.sessions <=> f[s] \in Live
  BY DEF Keeps
<1>2. CASE s \notin DOMAIN r.sessions
  BY <1>1, <1>2 DEF Verdict, Judged
<1>3. CASE s \in DOMAIN r.sessions
  <2>1. /\ SessionOf(r, s).peer = Peer(e)
        /\ SessionOf(r, s).isPending <=> f[s] \in {"offered", "ringing"}
    BY <1>3 DEF Keeps
  <2>2. x \notin NoHandler
    BY DEF NoHandler, Acts
  <2> QED BY <1>1, <1>3, <2>1, <2>2 DEF Verdict, Judged, Acts
<1> QED BY <1>2, <1>3

-----------------------------------------------------------------------------
(* The two together.                                                        *)
CallOK(s) ==
  Agreed(s, app[Owner[s]][s], app[Peer(Owner[s])][s],
         net[Owner[s]], net[Peer(Owner[s])], infos[Peer(Owner[s])], hasty)

(* A session offered again excuses every raise.                             *)
Blamed(e) ==
  repeated = {} => \E s \in Sids :
    /\ Owner[s] = e
    /\ app[e][s] \in {"offered", "established", "ended"}
    /\ app[Peer(e)][s] \in {"ringing", "established", "ended"}
    /\ infos[Peer(e)] > 0

CallInv ==
  /\ TypeOK
  /\ \A e \in Endpoints : Keeps(e, reg[e], app[e])
  /\ \A s \in Sids \ repeated : CallOK(s)
  /\ ~hasty => wedged = {} /\ repeated = {}
  /\ \A e \in wedged : Blamed(e)

LEMMA OwnerFacts ==
  ASSUME NEW s \in Sids
  PROVE  Owner[s] \in Endpoints
BY CallAssumption DEF Endpoints

LEMMA InitCalls == Init => CallInv
<1> SUFFICES ASSUME Init PROVE CallInv
  OBVIOUS
<1>1. TypeOK
  BY EmptyIsIndexed, CallAssumption DEF Init, TypeOK, AppStates
<1>2. ASSUME NEW e \in Endpoints
      PROVE  Keeps(e, reg[e], app[e])
  BY EmptyIsIndexed DEF Init, Keeps, EmptyRegistry, Live
<1>3. ASSUME NEW s \in Sids
      PROVE  CallOK(s)
  <2>1. /\ app[Owner[s]][s] = "none" /\ app[Peer(Owner[s])][s] = "none"
        /\ net[Owner[s]] = <<>> /\ net[Peer(Owner[s])] = <<>>
    BY OwnerFacts, PeerFacts DEF Init
  <2>2. \A x, y \in Acts : ~Has(<<>>, x, s) /\ ~Twice(<<>>, x, s)
    BY DEF Has, Twice
  <2> QED BY <2>1, <2>2, ActsFacts DEF CallOK, Agreed, Ordered, Excused, Told
<1> QED BY <1>1, <1>2, <1>3 DEF Init, CallInv

(* The registry of e becomes q, that of the other stays.                    *)
RegBecomes(e, q) ==
  /\ DOMAIN reg' = DOMAIN reg /\ reg'[e] = q
  /\ \A x \in Endpoints \ {e} : reg'[x] = reg[x]

(* What a step of one endpoint about one session has to show.               *)
LEMMA Step ==
  ASSUME CallInv, NEW e \in Endpoints, NEW sid \in Sids, NEW st \in AppStates, NEW q,
         app' = [app EXCEPT ![e][sid] = st],
         RegBecomes(e, q), Keeps(e, q, app'[e]),
         net' \in [Endpoints -> Seq(Msg)], infos' \in [Endpoints -> 0..MaxInfo],
         hasty' = hasty,
         \A x \in Endpoints : infos'[x] >= infos[x],
         \A x \in Endpoints, s \in Sids \ {sid} : Like(net'[x], net[x], s),
         repeated' = repeated \/ (hasty /\ sid \in Again /\ repeated' = repeated \cup {sid}),
         sid \notin repeated' =>
           /\ CallOK(sid)'
           /\ Owner[sid] = e /\ app[e][sid] \in {"offered", "established", "ended"}
                => st \in {"offered", "established", "ended"}
           /\ Owner[sid] # e /\ app[e][sid] \in {"ringing", "established", "ended"}
                => st \in {"ringing", "established", "ended"},
         wedged' = wedged \/ (wedged' = wedged \cup {e} /\ hasty /\ Blamed(e))
  PROVE  CallInv'
<1>0. /\ app \in [Endpoints -> [Sids -> AppStates]]
      /\ infos \in [Endpoints -> 0..MaxInfo] /\ hasty \in BOOLEAN
      /\ DOMAIN reg = Endpoints /\ wedged \subseteq Endpoints
      /\ MaxInfo \in Nat /\ repeated \subseteq Again
  BY CallAssumption DEF CallInv, TypeOK
<1>1. /\ app' \in [Endpoints -> [Sids -> AppStates]]
      /\ app'[e][sid] = st
      /\ \A x \in Endpoints, s \in Sids : x # e \/ s # sid => app'[x][s] = app[x][s]
      /\ \A x \in Endpoints \ {e} : app'[x] = app[x] /\ reg'[x] = reg[x]
      /\ reg'[e] = q /\ DOMAIN reg' = Endpoints
  BY <1>0 DEF RegBecomes
<1>2. \A x \in Endpoints : Keeps(x, reg'[x], app'[x])
  BY <1>1 DEF CallInv
<1>3. TypeOK'
  <2>1. \A x \in Endpoints : IsRegistry(reg'[x])
    BY <1>2 DEF Keeps
  <2> QED BY <2>1, <1>0, <1>1 DEF TypeOK
<1>4. ASSUME NEW s \in Sids \ repeated'
      PROVE  CallOK(s)'
  <2>1. CASE s = sid
    BY <2>1
  <2>2. CASE s # sid
    <3> DEFINE c == Owner[s]
               d == Peer(Owner[s])
    <3>1. c \in Endpoints /\ d \in Endpoints
      BY OwnerFacts, PeerFacts
    <3>2. /\ app'[c][s] = app[c][s] /\ app'[d][s] = app[d][s]
          /\ Like(net'[c], net[c], s) /\ Like(net'[d], net[d], s)
          /\ infos'[d] >= infos[d] /\ infos[d] \in Int /\ infos'[d] \in Int
      BY <2>2, <3>1, <1>0, <1>1
    <3>3. Agreed(s, app[c][s], app[d][s], net[c], net[d], infos[d], hasty)
      <4>1. s \in Sids \ repeated
        OBVIOUS
      <4> QED BY <4>1 DEF CallInv, CallOK
    <3> HIDE DEF c, d
    <3>4. Agreed(s, app[c][s], app[d][s], net'[c], net'[d], infos'[d], hasty)
      BY <3>2, <3>3, <1>0, AgreedFrame
    <3> QED BY <3>2, <3>4 DEF CallOK, c, d
  <2> QED BY <2>1, <2>2
<1>5. ASSUME NEW x \in Endpoints, Blamed(x), repeated' = {}
      PROVE  Blamed(x)'
  <2>0. repeated = {} /\ sid \notin repeated'
    BY <1>5
  <2>1. PICK s \in Sids :
          /\ Owner[s] = x
          /\ app[x][s] \in {"offered", "established", "ended"}
          /\ app[Peer(x)][s] \in {"ringing", "established", "ended"}
          /\ infos[Peer(x)] > 0
    BY <1>5, <2>0 DEF Blamed
  <2>2. Peer(x) \in Endpoints /\ Peer(x) # x
    BY PeerFacts
  <2>3. infos'[Peer(x)] > 0
    BY <2>1, <2>2, <1>0
  <2>4. app'[x][s] \in {"offered", "established", "ended"}
    BY <2>0, <2>1, <1>1
  <2>5. app'[Peer(x)][s] \in {"ringing", "established", "ended"}
    BY <2>0, <2>1, <2>2, <1>1
  <2> QED BY <2>1, <2>3, <2>4, <2>5 DEF Blamed
<1>6. \A x \in wedged' : Blamed(x)'
  <2>1. CASE repeated' = {}
    BY <2>1, <1>0, <1>5 DEF CallInv
  <2>2. CASE repeated' # {}
    BY <2>2 DEF Blamed
  <2> QED BY <2>1, <2>2
<1>7. ~hasty' => wedged' = {} /\ repeated' = {}
  BY DEF CallInv
<1> QED BY <1>2, <1>3, <1>4, <1>6, <1>7 DEF CallInv

LEMMA LikeItself == ASSUME NEW q, NEW s PROVE Like(q, q, s)
BY DEF Like

(* A step in which e sends a request x of session sid, or nothing (x =      *)
(* "nothing").                                                              *)
Goes(q, x, s) == IF x = "nothing" THEN q ELSE Append(q, Request(x, s))

LEMMA SendStep ==
  ASSUME CallInv, NEW e \in Endpoints, NEW d, d = Peer(e), NEW sid \in Sids,
         NEW st \in AppStates, NEW q, NEW x \in Acts \cup {"nothing"},
         app' = [app EXCEPT ![e][sid] = st],
         RegBecomes(e, q), Keeps(e, q, app'[e]),
         net' = [net EXCEPT ![d] = Goes(@, x, sid)],
         infos' = infos \/ (infos[e] < MaxInfo /\ infos' = [infos EXCEPT ![e] = @ + 1]),
         hasty' = hasty, wedged' = wedged,
         repeated' = repeated \/ (hasty /\ sid \in Again /\ repeated' = repeated \cup {sid}),
         sid \notin repeated' /\ Owner[sid] = e =>
           /\ Agreed(sid, st, app[d][sid], net[e], Goes(net[d], x, sid), infos[d], hasty)
           /\ app[e][sid] \in {"offered", "established", "ended"}
                => st \in {"offered", "established", "ended"},
         sid \notin repeated' /\ Owner[sid] = d =>
           /\ Agreed(sid, app[d][sid], st, Goes(net[d], x, sid), net[e], infos'[e], hasty)
           /\ app[e][sid] \in {"ringing", "established", "ended"}
                => st \in {"ringing", "established", "ended"}
  PROVE  CallInv'
<1>0. /\ app \in [Endpoints -> [Sids -> AppStates]]
      /\ net \in [Endpoints -> Seq(Msg)]
      /\ infos \in [Endpoints -> 0..MaxInfo] /\ MaxInfo \in Nat
      /\ d \in Endpoints /\ d # e /\ Peer(d) = e
      /\ Owner[sid] = e \/ Owner[sid] = d
  BY CallAssumption, PeerFacts, OwnerFacts DEF CallInv, TypeOK
<1>1. /\ Goes(net[d], x, sid) \in Seq(Msg)
      /\ \A s \in Sids \ {sid} : Like(Goes(net[d], x, sid), net[d], s)
  <2>1. net[d] \in Seq(Msg)
    BY <1>0
  <2>2. CASE x = "nothing"
    <3>1. Goes(net[d], x, sid) = net[d]
      BY <2>2 DEF Goes
    <3> QED BY <2>1, <3>1, LikeItself
  <2>3. CASE x \in Acts /\ x # "nothing"
    <3> DEFINE p == Append(net[d], Request(x, sid))
    <3>1. Goes(net[d], x, sid) = p
      BY <2>3 DEF Goes
    <3>2. p = Append(net[d], Request(x, sid))
      OBVIOUS
    <3> HIDE DEF p
    <3> DEFINE m == net[d]
    <3>3. m \in Seq(Msg) /\ x \in Acts /\ p = Append(m, Request(x, sid))
      BY <2>1, <2>3, <3>2
    <3> HIDE DEF m
    <3>4. ASSUME NEW s \in Sids PROVE p \in Seq(Msg) /\ (s # sid => Like(p, m, s))
      BY <3>3, Sending, Zenon
    <3> QED BY <3>1, <3>4 DEF m
  <2> QED BY <2>2, <2>3
<1>2. /\ net' \in [Endpoints -> Seq(Msg)] /\ net'[e] = net[e] /\ net'[d] = Goes(net[d], x, sid)
      /\ \A y \in Endpoints \ {d} : net'[y] = net[y]
  BY <1>0, <1>1
<1>3. /\ infos' \in [Endpoints -> 0..MaxInfo] /\ infos'[d] = infos[d]
      /\ \A y \in Endpoints : infos'[y] >= infos[y]
  <2>1. CASE infos' = infos
    BY <2>1, <1>0
  <2>2. CASE infos[e] < MaxInfo /\ infos' = [infos EXCEPT ![e] = @ + 1]
    <3>1. infos[e] + 1 \in 0..MaxInfo
      BY <2>2, <1>0
    <3>2. /\ infos'[e] = infos[e] + 1
          /\ \A y \in Endpoints \ {e} : infos'[y] = infos[y]
      BY <2>2, <1>0
    <3> QED BY <2>2, <3>1, <3>2, <1>0
  <2> QED BY <2>1, <2>2
<1>4. app'[e][sid] = st /\ app'[d][sid] = app[d][sid]
  BY <1>0
<1>5. \A y \in Endpoints, s \in Sids \ {sid} : Like(net'[y], net[y], s)
  BY <1>1, <1>2, LikeItself
<1>6. sid \notin repeated' => CallOK(sid)'
  <2>1. CASE Owner[sid] = e
    BY <2>1, <1>2, <1>3, <1>4 DEF CallOK
  <2>2. CASE Owner[sid] = d
    BY <2>2, <1>0, <1>2, <1>3, <1>4 DEF CallOK
  <2> QED BY <2>1, <2>2, <1>0
<1> QED BY <1>0, <1>2, <1>3, <1>5, <1>6, Step

(* A step in which e takes the request x of session sid.                    *)
LEMMA TakeStep ==
  ASSUME CallInv, NEW e \in Endpoints, NEW d, d = Peer(e), NEW sid \in Sids,
         NEW st \in AppStates, NEW q, NEW x \in Acts,
         net[e] # <<>>, Head(net[e]) = Request(x, sid),
         app' = [app EXCEPT ![e][sid] = st],
         RegBecomes(e, q), Keeps(e, q, app'[e]),
         net' = [net EXCEPT ![e] = Tail(@)],
         infos' = infos, hasty' = hasty, repeated' = repeated,
         sid \notin repeated /\ Owner[sid] = e =>
           /\ Agreed(sid, st, app[d][sid], Tail(net[e]), net[d], infos[d], hasty)
           /\ app[e][sid] \in {"offered", "established", "ended"}
                => st \in {"offered", "established", "ended"},
         sid \notin repeated /\ Owner[sid] = d =>
           /\ Agreed(sid, app[d][sid], st, net[d], Tail(net[e]), infos[e], hasty)
           /\ app[e][sid] \in {"ringing", "established", "ended"}
                => st \in {"ringing", "established", "ended"},
         wedged' = wedged \/ (wedged' = wedged \cup {e} /\ hasty /\ Blamed(e))
  PROVE  CallInv'
<1>0. /\ app \in [Endpoints -> [Sids -> AppStates]]
      /\ net \in [Endpoints -> Seq(Msg)]
      /\ infos \in [Endpoints -> 0..MaxInfo] /\ MaxInfo \in Nat
      /\ d \in Endpoints /\ d # e /\ Peer(d) = e
      /\ Owner[sid] = e \/ Owner[sid] = d
  BY CallAssumption, PeerFacts, OwnerFacts DEF CallInv, TypeOK
<1>1. /\ Tail(net[e]) \in Seq(Msg)
      /\ \A s \in Sids \ {sid} : Like(Tail(net[e]), net[e], s)
  BY <1>0, Taking
<1>2. /\ net' \in [Endpoints -> Seq(Msg)] /\ net'[d] = net[d] /\ net'[e] = Tail(net[e])
      /\ \A y \in Endpoints \ {e} : net'[y] = net[y]
  BY <1>0, <1>1
<1>3. /\ infos' \in [Endpoints -> 0..MaxInfo]
      /\ \A y \in Endpoints : infos'[y] >= infos[y]
  BY <1>0
<1>4. app'[e][sid] = st /\ app'[d][sid] = app[d][sid]
  BY <1>0
<1>5. \A y \in Endpoints, s \in Sids \ {sid} : Like(net'[y], net[y], s)
  BY <1>1, <1>2, LikeItself
<1>6. sid \notin repeated' => CallOK(sid)'
  <2>1. CASE Owner[sid] = e
    BY <2>1, <1>2, <1>3, <1>4 DEF CallOK
  <2>2. CASE Owner[sid] = d
    BY <2>2, <1>0, <1>2, <1>3, <1>4 DEF CallOK
  <2> QED BY <2>1, <2>2, <1>0
<1> QED BY <1>0, <1>2, <1>3, <1>5, <1>6, Step

(* What CallInv says of one endpoint e, the other one d and one session.    *)
Facts(e, d, sid) ==
  /\ d \in Endpoints /\ d # e /\ Peer(e) = d /\ Peer(d) = e
  /\ Owner[sid] = e \/ Owner[sid] = d
  /\ app[e] \in [Sids -> AppStates] /\ app[e][sid] \in AppStates
  /\ app = [app EXCEPT ![e][sid] = app[e][sid]]
  /\ \A st : SetApp(e, sid, st) => app'[e] = [app[e] EXCEPT ![sid] = st]
  /\ UNCHANGED reg => RegBecomes(e, reg[e])
  /\ \A q : SetReg(e, q) => RegBecomes(e, q)
  /\ Keeps(e, reg[e], app[e])
  /\ IsRegistry(reg[e]) /\ Indexed(reg[e])
  /\ net[e] \in Seq(Msg) /\ net[d] \in Seq(Msg)
  /\ UNCHANGED net => net' = [net EXCEPT ![d] = Goes(@, "nothing", sid)]
  /\ \A x \in Acts : Send(e, x, sid) => net' = [net EXCEPT ![d] = Goes(@, x, sid)]
  /\ infos[e] \in Nat /\ infos[d] \in Nat /\ hasty \in BOOLEAN
  /\ sid \notin repeated /\ Owner[sid] = e =>
       Agreed(sid, app[e][sid], app[d][sid], net[e], net[d], infos[d], hasty)
  /\ sid \notin repeated /\ Owner[sid] = d =>
       Agreed(sid, app[d][sid], app[e][sid], net[d], net[e], infos[e], hasty)

LEMMA CallFacts ==
  ASSUME CallInv, NEW e \in Endpoints, NEW sid \in Sids
  PROVE  Facts(e, Peer(e), sid)
<1> DEFINE d == Peer(e)
<1>1. /\ d \in Endpoints /\ d # e /\ Peer(d) = e
      /\ Owner[sid] = e \/ Owner[sid] = d
  BY PeerFacts, OwnerFacts
<1>2. /\ app \in [Endpoints -> [Sids -> AppStates]]
      /\ net \in [Endpoints -> Seq(Msg)]
      /\ infos \in [Endpoints -> 0..MaxInfo] /\ hasty \in BOOLEAN /\ MaxInfo \in Nat
  BY CallAssumption DEF CallInv, TypeOK
<1>3. /\ app = [app EXCEPT ![e][sid] = app[e][sid]]
      /\ \A st : SetApp(e, sid, st) => app'[e] = [app[e] EXCEPT ![sid] = st]
  BY <1>2 DEF SetApp
<1>4. /\ Keeps(e, reg[e], app[e])
      /\ IsRegistry(reg[e]) /\ Indexed(reg[e])
  BY DEF CallInv, Keeps
<1>5. /\ sid \notin repeated /\ Owner[sid] = e =>
           Agreed(sid, app[e][sid], app[d][sid], net[e], net[d], infos[d], hasty)
      /\ sid \notin repeated /\ Owner[sid] = d =>
           Agreed(sid, app[d][sid], app[e][sid], net[d], net[e], infos[e], hasty)
  BY <1>1 DEF CallInv, CallOK
<1>6. /\ UNCHANGED reg => RegBecomes(e, reg[e])
      /\ \A q : SetReg(e, q) => RegBecomes(e, q)
  BY DEF CallInv, TypeOK, RegBecomes, SetReg
<1>7. UNCHANGED net => net' = [net EXCEPT ![d] = Goes(@, "nothing", sid)]
  BY <1>2 DEF Goes
<1>8. \A x \in Acts : Send(e, x, sid) => net' = [net EXCEPT ![d] = Goes(@, x, sid)]
  <2>1. "nothing" \notin Acts
    BY DEF Acts
  <2> QED BY <2>1 DEF Send, Goes
<1> QED BY <1>1, <1>2, <1>3, <1>4, <1>5, <1>6, <1>7, <1>8 DEF Facts

-----------------------------------------------------------------------------
(* The calls of the application.                                            *)
LEMMA CreateKeeps ==
  ASSUME CallInv, NEW e \in Endpoints, NEW d, d = Peer(e), NEW sid \in Sids,
         CreateSession(e, sid), UNCHANGED hasty
  PROVE  CallInv'
<1> DEFINE q == newSession(reg[e], sid, d)
<1>0. Facts(e, d, sid)
  BY CallFacts
<1>1. /\ app[e][sid] = "none" /\ Owner[sid] = e
      /\ SetReg(e, q) /\ SetApp(e, sid, "created")
      /\ net' = net /\ infos' = infos /\ wedged' = wedged /\ repeated' = repeated
  BY DEF CreateSession
<1>2. /\ OthersKept(reg[e], q, sid) /\ sid \in DOMAIN q.sessions
      /\ SessionOf(q, sid) = Jingle_new(sid, d)
  <2>1. d \in JIDs /\ IsRegistry(reg[e]) /\ Indexed(reg[e]) /\ TRUE \in BOOLEAN
    BY <1>0 DEF Facts, Endpoints
  <2>2. q = newSession(reg[e], sid, d)
    OBVIOUS
  <2> HIDE DEF q
  <2> QED BY <2>1, <2>2, NewObject
<1> HIDE DEF q
<1>3. "created" \in AppStates /\ "created" \in Live
  BY DEF AppStates, Live
<1>4. Keeps(e, q, app'[e])
  <2>1. /\ SessionOf(q, sid).peer = Peer(e)
        /\ SessionOf(q, sid).isPending <=> "created" \in {"offered", "ringing"}
        /\ Owner[sid] # e \/ "created" = "established" => SessionOf(q, sid).remote
    BY <1>1, <1>2 DEF Jingle_new
  <2> QED BY <1>0, <1>1, <1>2, <1>3, <2>1, KeepsFrame DEF Facts
<1>5. sid \notin repeated =>
        Agreed(sid, "created", app[d][sid], net[e], Goes(net[d], "nothing", sid), infos[d], hasty)
  BY <1>0, <1>1, AgreedCreate DEF Facts, Goes
<1>6. /\ app' = [app EXCEPT ![e][sid] = "created"] /\ RegBecomes(e, q)
      /\ net' = [net EXCEPT ![d] = Goes(@, "nothing", sid)]
      /\ Owner[sid] # d
  BY <1>0, <1>1 DEF Facts, SetApp
<1> QED BY <1>1, <1>3, <1>4, <1>5, <1>6, SendStep

LEMMA StartKeeps ==
  ASSUME CallInv, NEW e \in Endpoints, NEW d, d = Peer(e), NEW sid \in Sids,
         StartSession(e, sid), UNCHANGED hasty
  PROVE  CallInv'
<1> DEFINE o == [SessionOf(reg[e], sid) EXCEPT !.isPending = TRUE]
           q == SetObject(reg[e], sid, o)
<1>0. Facts(e, d, sid)
  BY CallFacts
<1>1. /\ app[e][sid] \in OfferIn /\ Owner[sid] = e /\ sid \in DOMAIN reg[e].sessions
      /\ SetReg(e, q) /\ SetApp(e, sid, "offered")
      /\ Send(e, "session-initiate", sid) /\ wedged' = wedged
      /\ \/ app[e][sid] = "created" /\ infos' = infos /\ repeated' = repeated
         \/ /\ app[e][sid] # "created" /\ repeated' = repeated \cup {sid} /\ sid \in Again
            /\ infos[e] < MaxInfo /\ infos' = [infos EXCEPT ![e] = @ + 1]
  BY DEF StartSession, initiateSDP, Count
<1>2. "offered" \in AppStates /\ "offered" \in Live /\ app[e][sid] \in Live
  BY <1>1 DEF AppStates, Live, OfferIn
<1>3. Keeps(e, q, app'[e])
  <2>1. SessionOf(reg[e], sid) \in Session
    BY <1>0, <1>1, ObjectType DEF Facts
  <2>2. /\ o \in Session /\ o.isPending = TRUE
        /\ o.sid = SessionOf(reg[e], sid).sid /\ o.peer = SessionOf(reg[e], sid).peer
    BY <2>1 DEF Session
  <2>3. /\ o.isPending <=> "offered" \in {"offered", "ringing"}
        /\ Owner[sid] # e \/ "offered" = "established" => o.remote
    BY <1>1, <2>2
  <2>4. app'[e] = [app[e] EXCEPT ![sid] = "offered"] /\ Keeps(e, reg[e], app[e])
        /\ app[e] \in [Sids -> AppStates]
    BY <1>0, <1>1 DEF Facts
  <2> HIDE DEF o
  <2>5. q = SetObject(reg[e], sid, o)
    OBVIOUS
  <2> HIDE DEF q
  <2> QED BY <1>2, <2>2, <2>3, <2>4, <2>5, FlagsKeep
<1> HIDE DEF q
<1>4. sid \notin repeated' =>
        Agreed(sid, "offered", app[d][sid], net[e], Goes(net[d], "session-initiate", sid),
               infos[d], hasty)
  <2> SUFFICES ASSUME sid \notin repeated'
               PROVE  Agreed(sid, "offered", app[d][sid], net[e],
                             Goes(net[d], "session-initiate", sid), infos[d], hasty)
    OBVIOUS
  <2>1. /\ Agreed(sid, "created", app[d][sid], net[e], net[d], infos[d], hasty)
        /\ net[d] \in Seq(Msg) /\ net[e] \in Seq(Msg) /\ hasty \in BOOLEAN /\ infos[d] \in Int
        /\ Goes(net[d], "session-initiate", sid) = Append(net[d], Request("session-initiate", sid))
    BY <1>0, <1>1 DEF Facts, Goes
  <2> QED BY <2>1, AgreedStart
<1>5. /\ app' = [app EXCEPT ![e][sid] = "offered"] /\ RegBecomes(e, q)
      /\ net' = [net EXCEPT ![d] = Goes(@, "session-initiate", sid)]
      /\ Owner[sid] # d
      /\ repeated' = repeated \/ (hasty /\ sid \in Again /\ repeated' = repeated \cup {sid})
  BY <1>0, <1>1, ActsFacts DEF Facts, SetApp, OfferIn
<1> QED BY <1>1, <1>2, <1>3, <1>4, <1>5, ActsFacts, SendStep

LEMMA AcceptKeeps ==
  ASSUME CallInv, NEW e \in Endpoints, NEW d, d = Peer(e), NEW sid \in Sids,
         AcceptSession(e, sid), UNCHANGED hasty
  PROVE  CallInv'
<1> DEFINE o == [SessionOf(reg[e], sid) EXCEPT !.isPending = FALSE]
           q == SetObject(reg[e], sid, o)
<1>0. Facts(e, d, sid)
  BY CallFacts
<1>1. /\ app[e][sid] \in AcceptIn /\ Owner[sid] # e /\ sid \in DOMAIN reg[e].sessions
      /\ SetReg(e, q) /\ SetApp(e, sid, "established")
      /\ Send(e, "session-accept", sid) /\ wedged' = wedged /\ repeated' = repeated
      /\ IF app[e][sid] = "ringing" THEN infos' = infos
         ELSE infos[e] < MaxInfo /\ infos' = [infos EXCEPT ![e] = @ + 1]
  BY DEF AcceptSession, acceptSDP, Count
<1>2. /\ "established" \in AppStates /\ "established" \in Live /\ app[e][sid] \in Live
      /\ app[e][sid] = "ringing" \/ (hasty /\ app[e][sid] = "established")
      /\ Owner[sid] = d
  BY <1>0, <1>1 DEF Facts, AppStates, Live, AcceptIn
<1>3. Keeps(e, q, app'[e])
  <2>1. SessionOf(reg[e], sid) \in Session
    BY <1>0, <1>1, ObjectType DEF Facts
  <2>2. /\ o \in Session /\ o.isPending = FALSE /\ o.remote = SessionOf(reg[e], sid).remote
        /\ o.sid = SessionOf(reg[e], sid).sid /\ o.peer = SessionOf(reg[e], sid).peer
    BY <2>1 DEF Session
  <2>3. /\ o.isPending <=> "established" \in {"offered", "ringing"}
        /\ Owner[sid] # e \/ "established" = "established" => o.remote
    BY <1>0, <1>1, <2>2 DEF Facts, Keeps
  <2>4. app'[e] = [app[e] EXCEPT ![sid] = "established"] /\ Keeps(e, reg[e], app[e])
        /\ app[e] \in [Sids -> AppStates]
    BY <1>0, <1>1 DEF Facts
  <2> HIDE DEF o
  <2>5. q = SetObject(reg[e], sid, o)
    OBVIOUS
  <2> HIDE DEF q
  <2> QED BY <1>2, <2>2, <2>3, <2>4, <2>5, FlagsKeep
<1> HIDE DEF q
<1>4. infos' = infos \/ (infos[e] < MaxInfo /\ infos' = [infos EXCEPT ![e] = @ + 1])
  BY <1>1
<1>5. sid \notin repeated =>
        Agreed(sid, app[d][sid], "established", Goes(net[d], "session-accept", sid), net[e],
               infos'[e], hasty)
  <2> SUFFICES ASSUME sid \notin repeated
               PROVE  Agreed(sid, app[d][sid], "established",
                             Goes(net[d], "session-accept", sid), net[e], infos'[e], hasty)
    OBVIOUS
  <2>1. Agreed(sid, app[d][sid], app[e][sid], net[d], net[e], infos[e], hasty)
    BY <1>0, <1>2 DEF Facts
  <2>2. /\ infos'[e] = IF app[e][sid] = "ringing" THEN infos[e] ELSE infos[e] + 1
        /\ infos[e] \in Nat /\ infos'[e] \in Nat
    BY <1>0, <1>1 DEF Facts, CallInv, TypeOK
  <2>3. Goes(net[d], "session-accept", sid) = Append(net[d], Request("session-accept", sid))
    BY DEF Goes
  <2>4. /\ net[d] \in Seq(Msg) /\ net[e] \in Seq(Msg) /\ hasty \in BOOLEAN
        /\ \/ app[e][sid] = "ringing" /\ infos'[e] = infos[e]
           \/ hasty /\ app[e][sid] = "established" /\ infos'[e] = infos[e] + 1
    BY <1>0, <1>2, <2>2 DEF Facts
  <2> QED BY <2>1, <2>2, <2>3, <2>4, AgreedAccept
<1>6. /\ app' = [app EXCEPT ![e][sid] = "established"] /\ RegBecomes(e, q)
      /\ net' = [net EXCEPT ![d] = Goes(@, "session-accept", sid)]
  BY <1>0, <1>1, ActsFacts DEF Facts, SetApp
<1> QED BY <1>1, <1>2, <1>3, <1>4, <1>5, <1>6, ActsFacts, SendStep

LEMMA InfoKeeps ==
  ASSUME CallInv, NEW e \in Endpoints, NEW d, d = Peer(e), NEW sid \in Sids,
         NEW x \in {"transport-info", "session-info"},
         SendInfo(e, sid, x), UNCHANGED hasty
  PROVE  CallInv'
<1> DEFINE st == app[e][sid]
<1>0. Facts(e, d, sid) /\ x \in Acts
  BY CallFacts, ActsFacts
<1>1. /\ st \in Trickle /\ sid \in DOMAIN reg[e].sessions
      /\ infos[e] < MaxInfo /\ infos' = [infos EXCEPT ![e] = @ + 1]
      /\ Send(e, x, sid) /\ reg' = reg /\ app' = app /\ wedged' = wedged /\ repeated' = repeated
  BY DEF SendInfo, Count
<1>2. st \in Live /\ (~hasty => st \in {"offered", "established"}) /\ st \in AppStates
  BY <1>1 DEF Live, Trickle, AppStates
<1>3. Keeps(e, reg[e], app'[e])
  BY <1>0, <1>1 DEF Facts
<1>4. sid \notin repeated /\ Owner[sid] = e =>
        Agreed(sid, st, app[d][sid], net[e], Goes(net[d], x, sid), infos[d], hasty)
  <2> SUFFICES ASSUME sid \notin repeated, Owner[sid] = e
               PROVE  Agreed(sid, st, app[d][sid], net[e], Goes(net[d], x, sid), infos[d], hasty)
    OBVIOUS
  <2>1. /\ Agreed(sid, st, app[d][sid], net[e], net[d], infos[d], hasty)
        /\ net[d] \in Seq(Msg) /\ net[e] \in Seq(Msg) /\ hasty \in BOOLEAN
        /\ infos[d] \in Int /\ Goes(net[d], x, sid) = Append(net[d], Request(x, sid))
    BY <1>0 DEF Facts, Goes
  <2> HIDE DEF st
  <2>2. x \in {"transport-info", "session-info"}
    OBVIOUS
  <2> DEFINE p == Append(net[d], Request(x, sid))
  <2>3. p = Append(net[d], Request(x, sid)) /\ Goes(net[d], x, sid) = p
    BY <2>1
  <2> HIDE DEF p
  <2> DEFINE b == app[d][sid]
             qc == net[e]
             qd == net[d]
             k == infos[d]
  <2>4. Agreed(sid, st, b, qc, qd, k, hasty) /\ p = Append(qd, Request(x, sid))
    BY <2>1, <2>3
  <2>5. qc \in Seq(Msg) /\ qd \in Seq(Msg) /\ k \in Int /\ hasty \in BOOLEAN
    BY <2>1
  <2> HIDE DEF b, qc, qd, k
  <2>6. Agreed(sid, st, b, qc, p, k, hasty)
    BY <2>2, <2>4, <2>5, AgreedCallerInfo, Zenon
  <2> QED BY <2>3, <2>6 DEF b, qc, k
<1>5. sid \notin repeated /\ Owner[sid] = d =>
        Agreed(sid, app[d][sid], st, Goes(net[d], x, sid), net[e], infos'[e], hasty)
  <2> SUFFICES ASSUME sid \notin repeated, Owner[sid] = d
               PROVE  Agreed(sid, app[d][sid], st, Goes(net[d], x, sid), net[e], infos'[e], hasty)
    OBVIOUS
  <2>1. /\ Agreed(sid, app[d][sid], st, net[d], net[e], infos[e], hasty)
        /\ net[d] \in Seq(Msg) /\ net[e] \in Seq(Msg) /\ hasty \in BOOLEAN
        /\ infos[e] \in Nat /\ Goes(net[d], x, sid) = Append(net[d], Request(x, sid))
    BY <1>0 DEF Facts, Goes
  <2>2. infos'[e] = infos[e] + 1 /\ infos'[e] \in Nat
    BY <1>1, <2>1 DEF CallInv, TypeOK
  <2> HIDE DEF st
  <2> DEFINE p == Goes(net[d], x, sid)
             qc == net[d]
             qd == net[e]
             a == app[d][sid]
             k == infos[e]
             l == infos'[e]
  <2>3. /\ Agreed(sid, a, st, qc, qd, k, hasty) /\ p = Append(qc, Request(x, sid))
        /\ qc \in Seq(Msg) /\ qd \in Seq(Msg) /\ k \in Nat /\ l \in Nat /\ l = k + 1
        /\ hasty \in BOOLEAN /\ x \in {"transport-info", "session-info"}
    BY <2>1, <2>2
  <2> HIDE DEF p, qc, qd, a, k, l
  <2>4. Agreed(sid, a, st, p, qd, l, hasty)
    BY <1>2, <2>3, AgreedCalleeInfo
  <2> QED BY <2>4 DEF p, qd, a, l
<1>6. /\ app' = [app EXCEPT ![e][sid] = st] /\ RegBecomes(e, reg[e])
      /\ net' = [net EXCEPT ![d] = Goes(@, x, sid)]
  BY <1>0, <1>1 DEF Facts
<1>7. /\ st \in {"offered", "established", "ended"}
           <=> app[e][sid] \in {"offered", "established", "ended"}
      /\ st \in {"ringing", "established", "ended"}
           <=> app[e][sid] \in {"ringing", "established", "ended"}
  OBVIOUS
<1> HIDE DEF st
<1> QED BY <1>0, <1>1, <1>2, <1>3, <1>4, <1>5, <1>6, <1>7, SendStep

LEMMA HangUpKeeps ==
  ASSUME CallInv, NEW e \in Endpoints, NEW d, d = Peer(e), NEW sid \in Sids,
         NEW notify \in Notify, EndSession(e, sid, notify), UNCHANGED hasty
  PROVE  CallInv'
<1> DEFINE x == IF notify THEN "session-terminate" ELSE "nothing"
           q == Unregister(reg[e], sid)
<1>0. Facts(e, d, sid) /\ x \in Acts \cup {"nothing"}
  BY CallFacts, ActsFacts
<1>1. /\ app[e][sid] \in Live /\ SetReg(e, q) /\ SetApp(e, sid, "ended")
      /\ infos' = infos /\ wedged' = wedged /\ repeated' = repeated
      /\ IF notify /\ sid \in DOMAIN reg[e].sessions
           THEN Send(e, "session-terminate", sid) ELSE UNCHANGED net
  BY DEF EndSession
<1>2. sid \in DOMAIN reg[e].sessions
  BY <1>0, <1>1 DEF Facts, Keeps
<1>3. /\ net' = [net EXCEPT ![d] = Goes(@, x, sid)]
      /\ app' = [app EXCEPT ![e][sid] = "ended"] /\ RegBecomes(e, q)
  BY <1>0, <1>1, <1>2, ActsFacts DEF Facts, SetApp
<1>4. /\ hasty \in BOOLEAN
      /\ \/ Goes(net[d], x, sid) = Append(net[d], Request("session-terminate", sid))
         \/ hasty /\ Goes(net[d], x, sid) = net[d]
  BY <1>0 DEF Facts, Goes, Notify
<1>5. Keeps(e, q, app'[e])
  <2>1. /\ app'[e] = [app[e] EXCEPT ![sid] = "ended"] /\ Keeps(e, reg[e], app[e])
        /\ app[e] \in [Sids -> AppStates]
    BY <1>0, <1>1 DEF Facts
  <2>2. q = Unregister(reg[e], sid)
    OBVIOUS
  <2> HIDE DEF q
  <2> QED BY <2>1, <2>2, EndKeeps
<1> HIDE DEF q, x
<1>6. sid \notin repeated /\ Owner[sid] = e =>
        Agreed(sid, "ended", app[d][sid], net[e], Goes(net[d], x, sid), infos[d], hasty)
  <2> SUFFICES ASSUME sid \notin repeated, Owner[sid] = e
               PROVE  Agreed(sid, "ended", app[d][sid], net[e], Goes(net[d], x, sid),
                             infos[d], hasty)
    OBVIOUS
  <2>1. /\ Agreed(sid, app[e][sid], app[d][sid], net[e], net[d], infos[d], hasty)
        /\ net[e] \in Seq(Msg) /\ net[d] \in Seq(Msg) /\ infos[d] \in Int
    BY <1>0 DEF Facts
  <2> QED BY <1>1, <1>4, <2>1, AgreedCallerEnds
<1>7. sid \notin repeated /\ Owner[sid] = d =>
        Agreed(sid, app[d][sid], "ended", Goes(net[d], x, sid), net[e], infos'[e], hasty)
  BY <1>0, <1>1, <1>4, AgreedCalleeEnds DEF Facts
<1>8. "ended" \in AppStates
  BY DEF AppStates
<1> QED BY <1>0, <1>1, <1>3, <1>5, <1>6, <1>7, <1>8, SendStep

-----------------------------------------------------------------------------
(* The requests that arrive: x of session sid is first, and meets verdict v.*)
Meets(e, d, v, x, sid) ==
  \/ v = "session-initiate" /\ x = "session-initiate" /\ app[e][sid] = "none" /\ Owner[sid] = d
  \/ v = "session-accept" /\ x = "session-accept" /\ app[e][sid] = "offered" /\ Owner[sid] = e
  \/ /\ v = "accepted-twice" /\ x = "session-accept" /\ Owner[sid] = e
     /\ app[e][sid] \in Live \ {"offered"}
  \/ v = "unknown-session" /\ x # "session-initiate" /\ app[e][sid] \notin Live
  \/ v = x /\ x \notin {"session-initiate", "session-accept"} /\ app[e][sid] \in Live

First(e, v, x, sid) ==
  /\ x = Head(net[e]).action /\ sid = Head(net[e]).sid
  /\ net[e] # <<>> /\ Head(net[e]) = Request(x, sid)
  /\ net' = [net EXCEPT ![e] = Tail(@)] /\ infos' = infos /\ repeated' = repeated
  /\ Facts(e, Peer(e), sid)
  /\ Judged(v, reg[e], app[e], sid, x)
  /\ sid \notin repeated => Meets(e, Peer(e), v, x, sid)

LEMMA Arrival ==
  ASSUME CallInv, NEW e \in Endpoints, NEW v, Arrives(e, v)
  PROVE  \E x \in Acts, sid \in Sids : First(e, v, x, sid)
<1> DEFINE m == Head(net[e])
<1>1. /\ net[e] # <<>> /\ net' = [net EXCEPT ![e] = Tail(@)]
      /\ infos' = infos /\ repeated' = repeated
      /\ v = Verdict(reg[e], m.action, m.sid, Peer(e), TRUE)
  BY DEF Arrives
<1>2. m \in Msg
  BY <1>1 DEF CallInv, TypeOK
<1> HIDE DEF m
<1>3. PICK x \in Acts, sid \in Sids : x = m.action /\ sid = m.sid /\ m = Request(x, sid)
  BY <1>2, RequestFacts
<1>4. PICK d : d = Peer(e)
  OBVIOUS
<1>5. v = Verdict(reg[e], x, sid, Peer(e), TRUE) /\ net[e] # <<>> /\ Head(net[e]) = Request(x, sid)
  BY <1>1, <1>3 DEF m
<1>6. Facts(e, d, sid)
  BY <1>4, CallFacts
<1>7. /\ Keeps(e, reg[e], app[e]) /\ hasty \in BOOLEAN
      /\ Owner[sid] = e \/ Owner[sid] = d
      /\ net[e] \in Seq(Msg) /\ net[d] \in Seq(Msg) /\ infos[e] \in Int /\ infos[d] \in Int
      /\ sid \notin repeated /\ Owner[sid] = e =>
           Agreed(sid, app[e][sid], app[d][sid], net[e], net[d], infos[d], hasty)
      /\ sid \notin repeated /\ Owner[sid] = d =>
           Agreed(sid, app[d][sid], app[e][sid], net[d], net[e], infos[e], hasty)
  BY <1>6 DEF Facts
<1>8. Judged(v, reg[e], app[e], sid, x)
  BY <1>5, <1>7, VerdictFacts
<1>9. sid \notin repeated /\ Owner[sid] = e => x # "session-initiate" /\ app[e][sid] # "ringing"
  BY <1>5, <1>7, CallerHead
<1>10. sid \notin repeated /\ Owner[sid] = d =>
         x # "session-accept" /\ (x = "session-initiate" => app[e][sid] = "none")
  BY <1>5, <1>7, CalleeHead
<1>11. "none" \notin Live
  BY DEF Live
<1>12. sid \notin repeated => Meets(e, d, v, x, sid)
  <2> SUFFICES ASSUME sid \notin repeated PROVE Meets(e, d, v, x, sid)
    OBVIOUS
  <2>1. CASE app[e][sid] \notin Live
    BY <2>1, <1>7, <1>8, <1>9, <1>10 DEF Meets, Judged
  <2>2. CASE app[e][sid] \in Live
    <3>1. CASE x = "session-accept"
      BY <3>1, <2>2, <1>7, <1>8, <1>9, <1>10 DEF Meets, Judged
    <3>2. CASE x # "session-accept"
      BY <3>2, <2>2, <1>7, <1>8, <1>9, <1>10, <1>11 DEF Meets, Judged
    <3> QED BY <3>1, <3>2
  <2> QED BY <2>1, <2>2
<1> QED BY <1>1, <1>3, <1>4, <1>6, <1>8, <1>12 DEF First, m

(* A request is taken and the application has seen st of the session.       *)
Seen(e, d, x, sid, st) ==
  \/ /\ x = "session-accept" /\ app[e][sid] = "offered" /\ Owner[sid] = e
     /\ st = "established"
  \/ /\ x = "session-initiate" /\ app[e][sid] = "none" /\ Owner[sid] = d
     /\ st = "ringing"
  \/ x = "session-terminate" /\ app[e][sid] \in Live /\ st = "ended"
  \/ /\ st = app[e][sid] /\ x # "session-initiate"
     /\ x = "session-accept" => st # "offered"
     /\ x = "session-terminate" => st \notin {"offered", "ringing", "established"}

LEMMA SeenFacts ==
  ASSUME NEW e, NEW d, d # e, NEW x, NEW sid, NEW st, Seen(e, d, x, sid, st)
  PROVE  /\ Owner[sid] = e =>
              /\ CallerTakes(x, app[e][sid], st)
              /\ app[e][sid] \in {"offered", "established", "ended"}
                   => st \in {"offered", "established", "ended"}
         /\ Owner[sid] = d =>
              /\ CalleeTakes(x, app[e][sid], st)
              /\ app[e][sid] \in {"ringing", "established", "ended"}
                   => st \in {"ringing", "established", "ended"}
<1>1. Owner[sid] = e =>
        /\ CallerTakes(x, app[e][sid], st)
        /\ app[e][sid] \in {"offered", "established", "ended"}
             => st \in {"offered", "established", "ended"}
  BY DEF Seen, CallerTakes
<1>2. Owner[sid] = d =>
        /\ CalleeTakes(x, app[e][sid], st)
        /\ app[e][sid] \in {"ringing", "established", "ended"}
             => st \in {"ringing", "established", "ended"}
  BY DEF Seen, CalleeTakes
<1> QED BY <1>1, <1>2

LEMMA SeenAgreed ==
  ASSUME NEW e, NEW d, NEW sid \in Sids, Facts(e, d, sid), NEW x \in Acts,
         net[e] # <<>>, Head(net[e]) = Request(x, sid), NEW st, NEW p, p = Tail(net[e])
  PROVE  /\ sid \notin repeated /\ Owner[sid] = e /\ CallerTakes(x, app[e][sid], st) =>
              Agreed(sid, st, app[d][sid], p, net[d], infos[d], hasty)
         /\ sid \notin repeated /\ Owner[sid] = d /\ CalleeTakes(x, app[e][sid], st) =>
              Agreed(sid, app[d][sid], st, net[d], p, infos[e], hasty)
<1>1. /\ hasty \in BOOLEAN /\ net[e] \in Seq(Msg) /\ net[d] \in Seq(Msg)
      /\ infos[e] \in Int /\ infos[d] \in Int
  BY DEF Facts
<1>2. /\ sid \notin repeated /\ Owner[sid] = e =>
           Agreed(sid, app[e][sid], app[d][sid], net[e], net[d], infos[d], hasty)
      /\ sid \notin repeated /\ Owner[sid] = d =>
           Agreed(sid, app[d][sid], app[e][sid], net[d], net[e], infos[e], hasty)
  BY DEF Facts
<1>3. ASSUME sid \notin repeated, Owner[sid] = e, CallerTakes(x, app[e][sid], st)
      PROVE  Agreed(sid, st, app[d][sid], p, net[d], infos[d], hasty)
  <2>1. Agreed(sid, app[e][sid], app[d][sid], net[e], net[d], infos[d], hasty)
    BY <1>2, <1>3
  <2> QED BY <1>1, <1>3, <2>1, AgreedAtCaller
<1>4. ASSUME sid \notin repeated, Owner[sid] = d, CalleeTakes(x, app[e][sid], st)
      PROVE  Agreed(sid, app[d][sid], st, net[d], p, infos[e], hasty)
  <2>1. Agreed(sid, app[d][sid], app[e][sid], net[d], net[e], infos[e], hasty)
    BY <1>2, <1>4
  <2> QED BY <1>1, <1>4, <2>1, AgreedAtCallee
<1> QED BY <1>3, <1>4

LEMMA TakenStep ==
  ASSUME CallInv, NEW e \in Endpoints, NEW d, NEW sid \in Sids, Facts(e, d, sid),
         NEW x \in Acts, net[e] # <<>>, Head(net[e]) = Request(x, sid),
         net' = [net EXCEPT ![e] = Tail(@)], infos' = infos, repeated' = repeated, UNCHANGED hasty,
         NEW st \in AppStates, SetApp(e, sid, st), NEW q, RegBecomes(e, q), Keeps(e, q, app'[e]),
         sid \notin repeated => Seen(e, d, x, sid, st),
         wedged' = wedged \/ (wedged' = wedged \cup {e} /\ hasty /\ Blamed(e))
  PROVE  CallInv'
<1>1. d = Peer(e) /\ d # e
  BY DEF Facts
<1>2. app' = [app EXCEPT ![e][sid] = st] /\ hasty' = hasty
  BY DEF SetApp
<1>3. /\ sid \notin repeated /\ Owner[sid] = e =>
           /\ CallerTakes(x, app[e][sid], st)
           /\ app[e][sid] \in {"offered", "established", "ended"}
                => st \in {"offered", "established", "ended"}
      /\ sid \notin repeated /\ Owner[sid] = d =>
           /\ CalleeTakes(x, app[e][sid], st)
           /\ app[e][sid] \in {"ringing", "established", "ended"}
                => st \in {"ringing", "established", "ended"}
  BY <1>1, SeenFacts
<1>4. /\ sid \notin repeated /\ Owner[sid] = e /\ CallerTakes(x, app[e][sid], st) =>
           Agreed(sid, st, app[d][sid], Tail(net[e]), net[d], infos[d], hasty)
      /\ sid \notin repeated /\ Owner[sid] = d /\ CalleeTakes(x, app[e][sid], st) =>
           Agreed(sid, app[d][sid], st, net[d], Tail(net[e]), infos[e], hasty)
  BY SeenAgreed
<1> QED BY <1>1, <1>2, <1>3, <1>4, TakeStep

LEMMA InitiateKeeps ==
  ASSUME CallInv, NEW e \in Endpoints, NEW d, d = Peer(e), HandleInitiate(e), UNCHANGED hasty
  PROVE  CallInv'
<1>1. Arrives(e, "session-initiate") /\ wedged' = wedged
  BY DEF HandleInitiate
<1>2. PICK x \in Acts, sid \in Sids : First(e, "session-initiate", x, sid)
  BY <1>1, Arrival
<1> DEFINE q == onSessionInitiate(newSession(reg[e], sid, d), sid)
<1>3. SetReg(e, q) /\ SetApp(e, sid, "ringing")
  BY <1>2 DEF HandleInitiate, First
<1>4. /\ sid \notin repeated =>
           x = "session-initiate" /\ app[e][sid] = "none" /\ Owner[sid] = d
      /\ net[e] # <<>> /\ Head(net[e]) = Request(x, sid)
      /\ net' = [net EXCEPT ![e] = Tail(@)] /\ infos' = infos /\ repeated' = repeated
  BY <1>2 DEF First, Meets, Acts
<1>5. Facts(e, d, sid)
  BY <1>2 DEF First
<1>6. /\ RegBecomes(e, q) /\ app'[e] = [app[e] EXCEPT ![sid] = "ringing"]
      /\ Keeps(e, reg[e], app[e]) /\ app[e] \in [Sids -> AppStates]
  BY <1>3, <1>5 DEF Facts
<1>7. "ringing" \in AppStates
  BY DEF AppStates
<1>8. q = onSessionInitiate(newSession(reg[e], sid, Peer(e)), sid)
  OBVIOUS
<1> HIDE DEF q
<1>9. Keeps(e, q, app'[e])
  BY <1>6, <1>8, RingKeeps
<1>10. sid \notin repeated => Seen(e, d, x, sid, "ringing")
  BY <1>4 DEF Seen
<1> QED BY <1>1, <1>3, <1>4, <1>5, <1>6, <1>7, <1>9, <1>10, TakenStep

LEMMA AnswerKeeps ==
  ASSUME CallInv, NEW e \in Endpoints, NEW d, d = Peer(e), HandleAccept(e), UNCHANGED hasty
  PROVE  CallInv'
<1>1. Arrives(e, "session-accept") /\ wedged' = wedged
  BY DEF HandleAccept
<1>2. PICK x \in Acts, sid \in Sids : First(e, "session-accept", x, sid)
  BY <1>1, Arrival
<1> DEFINE o == [SessionOf(reg[e], sid) EXCEPT !.remote = TRUE, !.isPending = FALSE]
           q == SetObject(reg[e], sid, o)
<1>3. SetReg(e, q) /\ SetApp(e, sid, "established")
  BY <1>2 DEF HandleAccept, onSessionAccept, First
<1>4. /\ sid \notin repeated =>
           x = "session-accept" /\ app[e][sid] = "offered" /\ Owner[sid] = e
      /\ net[e] # <<>> /\ Head(net[e]) = Request(x, sid)
      /\ net' = [net EXCEPT ![e] = Tail(@)] /\ infos' = infos /\ repeated' = repeated
  BY <1>2 DEF First, Meets, Acts
<1>5. Facts(e, d, sid)
  BY <1>2 DEF First
<1>6. /\ RegBecomes(e, q) /\ app'[e] = [app[e] EXCEPT ![sid] = "established"]
      /\ Keeps(e, reg[e], app[e]) /\ app[e] \in [Sids -> AppStates] /\ IsRegistry(reg[e])
  BY <1>3, <1>5 DEF Facts
<1>7. "established" \in AppStates /\ "established" \in Live /\ app[e][sid] \in Live
  BY <1>2 DEF AppStates, Live, First, Judged
<1>8. Keeps(e, q, app'[e])
  <2>1. SessionOf(reg[e], sid) \in Session
    BY <1>6, <1>7, ObjectType DEF Keeps
  <2>2. /\ o \in Session /\ o.isPending = FALSE /\ o.remote = TRUE
        /\ o.sid = SessionOf(reg[e], sid).sid /\ o.peer = SessionOf(reg[e], sid).peer
    BY <2>1 DEF Session
  <2>3. /\ o.isPending <=> "established" \in {"offered", "ringing"}
        /\ Owner[sid] # e \/ "established" = "established" => o.remote
    BY <2>2
  <2> HIDE DEF o
  <2>4. q = SetObject(reg[e], sid, o)
    OBVIOUS
  <2> HIDE DEF q
  <2> QED BY <1>6, <1>7, <2>2, <2>3, <2>4, FlagsKeep
<1> HIDE DEF q
<1>9. sid \notin repeated => Seen(e, d, x, sid, "established")
  BY <1>4 DEF Seen
<1> QED BY <1>1, <1>3, <1>4, <1>5, <1>6, <1>7, <1>8, <1>9, TakenStep

LEMMA TerminateKeeps ==
  ASSUME CallInv, NEW e \in Endpoints, NEW d, d = Peer(e), HandleTerminate(e), UNCHANGED hasty
  PROVE  CallInv'
<1>1. Arrives(e, "session-terminate") /\ wedged' = wedged
  BY DEF HandleTerminate
<1>2. PICK x \in Acts, sid \in Sids : First(e, "session-terminate", x, sid)
  BY <1>1, Arrival
<1> DEFINE q == Unregister(reg[e], sid)
<1>3. SetReg(e, q) /\ SetApp(e, sid, "ended")
  BY <1>2 DEF HandleTerminate, First
<1>4. /\ sid \notin repeated => x = "session-terminate" /\ app[e][sid] \in Live
      /\ net[e] # <<>> /\ Head(net[e]) = Request(x, sid)
      /\ net' = [net EXCEPT ![e] = Tail(@)] /\ infos' = infos /\ repeated' = repeated
  BY <1>2 DEF First, Meets, Acts
<1>5. Facts(e, d, sid)
  BY <1>2 DEF First
<1>6. /\ RegBecomes(e, q) /\ app'[e] = [app[e] EXCEPT ![sid] = "ended"]
      /\ Keeps(e, reg[e], app[e]) /\ app[e] \in [Sids -> AppStates]
  BY <1>3, <1>5 DEF Facts
<1>7. "ended" \in AppStates
  BY DEF AppStates
<1>8. q = Unregister(reg[e], sid)
  OBVIOUS
<1> HIDE DEF q
<1>9. Keeps(e, q, app'[e])
  BY <1>6, <1>8, EndKeeps
<1>10. sid \notin repeated => Seen(e, d, x, sid, "ended")
  BY <1>4 DEF Seen
<1> QED BY <1>1, <1>3, <1>4, <1>5, <1>6, <1>7, <1>9, <1>10, TakenStep

(* The requests that leave the session as it is.                            *)
LEMMA QuietKeeps ==
  ASSUME CallInv, NEW e \in Endpoints, NEW d, d = Peer(e), NEW v, NEW x \in Acts, NEW sid \in Sids,
         First(e, v, x, sid), UNCHANGED <<reg, app, hasty>>,
         sid \notin repeated => Seen(e, d, x, sid, app[e][sid]),
         wedged' = wedged \/ (wedged' = wedged \cup {e} /\ hasty /\ Blamed(e))
  PROVE  CallInv'
<1> DEFINE st == app[e][sid]
<1>1. /\ net[e] # <<>> /\ Head(net[e]) = Request(x, sid)
      /\ net' = [net EXCEPT ![e] = Tail(@)] /\ infos' = infos /\ repeated' = repeated
      /\ Facts(e, d, sid)
  BY DEF First
<1>2. /\ st \in AppStates /\ SetApp(e, sid, st) /\ RegBecomes(e, reg[e])
      /\ Keeps(e, reg[e], app'[e])
  BY <1>1 DEF Facts, SetApp
<1>3. sid \notin repeated => Seen(e, d, x, sid, st)
  OBVIOUS
<1> HIDE DEF st
<1> QED BY <1>1, <1>2, <1>3, TakenStep

(* Whoever raises over a request is a caller, and has been given reason.    *)
LEMMA RaisesBlamed ==
  ASSUME CallInv, NEW e \in Endpoints, NEW v, NEW x \in Acts, NEW sid \in Sids,
         First(e, v, x, sid), app[e][sid] \in Live,
         sid \notin repeated => Owner[sid] = e,
         \/ x = "session-accept" /\ app[e][sid] # "offered"
         \/ x = "transport-info" /\ app[e][sid] # "established"
  PROVE  hasty /\ Blamed(e)
<1>0. CASE repeated # {}
  BY <1>0 DEF CallInv, TypeOK, Blamed
<1> SUFFICES ASSUME repeated = {} PROVE hasty /\ Blamed(e)
  BY <1>0
<1>1. PICK d : d = Peer(e)
  OBVIOUS
<1>2. /\ net[e] # <<>> /\ Head(net[e]) = Request(x, sid) /\ Facts(e, d, sid)
  BY <1>1 DEF First
<1>3. /\ Agreed(sid, app[e][sid], app[d][sid], net[e], net[d], infos[d], hasty)
      /\ net[e] \in Seq(Msg) /\ net[d] \in Seq(Msg) /\ infos[d] \in Int /\ hasty \in BOOLEAN
  BY <1>2 DEF Facts
<1>4. /\ hasty /\ infos[d] > 0 /\ app[e][sid] \in {"offered", "established"}
      /\ app[d][sid] \in {"ringing", "established", "ended"}
  BY <1>2, <1>3, CallerRaises
<1> QED BY <1>1, <1>4 DEF Blamed

LEMMA TransportKeeps ==
  ASSUME CallInv, NEW e \in Endpoints, NEW d, d = Peer(e), HandleTransportInfo(e), UNCHANGED hasty
  PROVE  CallInv'
<1>1. Arrives(e, "transport-info") /\ UNCHANGED <<reg, app, hasty>>
  BY DEF HandleTransportInfo
<1>2. PICK x \in Acts, sid \in Sids : First(e, "transport-info", x, sid)
  BY <1>1, Arrival
<1>3. x = "transport-info" /\ app[e][sid] \in Live
  BY <1>2 DEF First, Judged, Acts
<1>4. Seen(e, d, x, sid, app[e][sid])
  BY <1>3 DEF Seen
<1>5. wedged' = IF SessionOf(reg[e], sid).remote THEN wedged ELSE wedged \cup {e}
  BY <1>2 DEF HandleTransportInfo, First
<1>6. ASSUME ~SessionOf(reg[e], sid).remote
      PROVE  hasty /\ Blamed(e)
  <2>1. Facts(e, d, sid)
    BY <1>2 DEF First
  <2>2. Owner[sid] = e /\ app[e][sid] # "established"
    BY <1>3, <1>6, <2>1 DEF Facts, Keeps
  <2> QED BY <1>2, <1>3, <2>2, RaisesBlamed
<1>7. wedged' = wedged \/ (wedged' = wedged \cup {e} /\ hasty /\ Blamed(e))
  BY <1>5, <1>6
<1> QED BY <1>1, <1>2, <1>4, <1>7, QuietKeeps

LEMMA MuteKeeps ==
  ASSUME CallInv, NEW e \in Endpoints, NEW d, d = Peer(e), HandleSessionInfo(e), UNCHANGED hasty
  PROVE  CallInv'
<1>1. Arrives(e, "session-info") /\ UNCHANGED <<reg, app, hasty>> /\ wedged' = wedged
  BY DEF HandleSessionInfo
<1>2. PICK x \in Acts, sid \in Sids : First(e, "session-info", x, sid)
  BY <1>1, Arrival
<1>3. x = "session-info"
  BY <1>2 DEF First, Judged, Acts
<1>4. Seen(e, d, x, sid, app[e][sid])
  BY <1>3 DEF Seen
<1> QED BY <1>1, <1>2, <1>4, QuietKeeps

LEMMA RefusedKeeps ==
  ASSUME CallInv, NEW e \in Endpoints, NEW d, d = Peer(e), HandleRefused(e), UNCHANGED hasty
  PROVE  CallInv'
<1>1. PICK v \in Refusals : Arrives(e, v)
  BY DEF HandleRefused
<1>2. UNCHANGED <<reg, app, hasty>> /\ wedged' = wedged
  BY DEF HandleRefused
<1>3. PICK x \in Acts, sid \in Sids : First(e, v, x, sid)
  BY <1>1, Arrival
<1>4. x # "session-initiate" /\ app[e][sid] \notin Live
  BY <1>3 DEF First, Judged, Refusals, Acts
<1>5. Seen(e, d, x, sid, app[e][sid])
  BY <1>4 DEF Seen, Live
<1> QED BY <1>2, <1>3, <1>5, QuietKeeps

LEMMA RaisesKeeps ==
  ASSUME CallInv, NEW e \in Endpoints, NEW d, d = Peer(e), HandleRaises(e), UNCHANGED hasty
  PROVE  CallInv'
<1>1. PICK v \in Raises : Arrives(e, v)
  BY DEF HandleRaises
<1>2. UNCHANGED <<reg, app, hasty>> /\ wedged' = wedged \cup {e}
  BY DEF HandleRaises
<1>3. PICK x \in Acts, sid \in Sids : First(e, v, x, sid)
  BY <1>1, Arrival
<1>4. sid \notin repeated =>
        x = "session-accept" /\ Owner[sid] = e /\ app[e][sid] \in Live \ {"offered"}
  BY <1>3 DEF First, Meets, Raises, Acts
<1>5. sid \notin repeated => Seen(e, d, x, sid, app[e][sid])
  BY <1>4 DEF Seen
<1>6. hasty /\ Blamed(e)
  <2>1. CASE repeated # {}
    BY <2>1 DEF CallInv, TypeOK, Blamed
  <2>2. CASE repeated = {}
    BY <2>2, <1>3, <1>4, RaisesBlamed
  <2> QED BY <2>1, <2>2
<1> QED BY <1>2, <1>3, <1>5, <1>6, QuietKeeps

-----------------------------------------------------------------------------
(* Every step keeps what the two agree on.                                  *)
LEMMA NextCalls == CallInv /\ [Next]_vars => CallInv'
<1> SUFFICES ASSUME CallInv, [Next]_vars PROVE CallInv'
  OBVIOUS
<1>1. ASSUME NEW e \in Endpoints, Handle(e), UNCHANGED hasty
      PROVE  CallInv'
  BY <1>1, InitiateKeeps, AnswerKeeps, TerminateKeeps, TransportKeeps, MuteKeeps,
     RefusedKeeps, RaisesKeeps DEF Handle
<1>2. ASSUME NEW e \in Endpoints, Application(e), UNCHANGED hasty
      PROVE  CallInv'
  <2>1. PICK sid \in Sids :
          \/ CreateSession(e, sid) \/ StartSession(e, sid) \/ AcceptSession(e, sid)
          \/ \E x \in {"transport-info", "session-info"} : SendInfo(e, sid, x)
          \/ \E notify \in Notify : EndSession(e, sid, notify)
    BY <1>2 DEF Application
  <2>2. CASE CreateSession(e, sid) \/ StartSession(e, sid) \/ AcceptSession(e, sid)
    BY <1>2, <2>2, CreateKeeps, StartKeeps, AcceptKeeps
  <2>3. CASE \E x \in {"transport-info", "session-info"} : SendInfo(e, sid, x)
    BY <1>2, <2>3, InfoKeeps
  <2>4. CASE \E notify \in Notify : EndSession(e, sid, notify)
    BY <1>2, <2>4, HangUpKeeps
  <2> QED BY <2>1, <2>2, <2>3, <2>4
<1>3. CASE UNCHANGED vars
  BY <1>3 DEF vars, CallInv, TypeOK, CallOK, Blamed
<1> QED BY <1>1, <1>2, <1>3 DEF Next

LEMMA CallsHold == Spec => []CallInv
BY InitCalls, NextCalls, PTL DEF Spec

(* The registries, the queues and what the applications have seen keep      *)
(* their types.                                                             *)
THEOREM CallTypes == Spec => []TypeOK
<1>1. CallInv => TypeOK
  BY DEF CallInv
<1> QED BY <1>1, CallsHold, PTL

(* The loops of careful applications never die, and, while no session is    *)
(* offered again, that of a hasty one dies only at the caller's end: a      *)
(* callee is never asked for what it does not have, in whatever order       *)
(* requests cross.                                                          *)
THEOREM CalleesAreSafe == Spec => []OnlyCallersWedge
<1>1. CallInv => OnlyCallersWedge
  BY DEF CallInv, OnlyCallersWedge, Blamed
<1> QED BY <1>1, CallsHold, PTL

(* A session of careful applications of which nothing is on its way is      *)
(* seen alike by both ends, in the applications and in the registries.      *)
THEOREM QuietEndsAgree == Spec => []QuietAgreement
<1>1. CallInv => QuietAgreement
  <2> SUFFICES ASSUME CallInv, ~hasty, NEW s \in Sids, ~InFlight(s)
               PROVE  /\ <<app[Owner[s]][s], app[Peer(Owner[s])][s]>> \in
                           {<<"none", "none">>, <<"created", "none">>, <<"offered", "ringing">>,
                            <<"established", "established">>, <<"ended", "none">>,
                            <<"ended", "ended">>}
                      /\ \A e \in Endpoints :
                           s \in DOMAIN reg[e].sessions =>
                             (SessionOf(reg[e], s).isPending
                                <=> app[e][s] \in {"offered", "ringing"})
    BY DEF QuietAgreement
  <2>1. PICK c, d : c = Owner[s] /\ d = Peer(Owner[s])
    OBVIOUS
  <2>2. c \in Endpoints /\ d \in Endpoints
    BY <2>1, OwnerFacts, PeerFacts
  <2>3. \A x : ~Has(net[c], x, s) /\ ~Has(net[d], x, s)
    BY <2>2 DEF InFlight, Has, Request
  <2>4. Agreed(s, app[c][s], app[d][s], net[c], net[d], infos[d], hasty)
    <3>1. s \in Sids \ repeated
      BY DEF CallInv
    <3> QED BY <2>1, <3>1 DEF CallInv, CallOK
  <2>5. PICK a, b : a = app[c][s] /\ b = app[d][s]
    OBVIOUS
  <2>6. \/ a = "none" /\ b = "none"
        \/ a = "created" /\ b = "none"
        \/ a = "offered" /\ b = "ringing"
        \/ a = "established" /\ b = "established"
        \/ a = "ended" /\ b \in {"none", "ended"}
    <3>1. Agreed(s, a, b, net[c], net[d], infos[d], hasty)
      BY <2>4, <2>5
    <3> QED BY <3>1, <2>3 DEF Agreed, Ordered, Told
  <2>7. \A e \in Endpoints :
          s \in DOMAIN reg[e].sessions =>
            (SessionOf(reg[e], s).isPending <=> app[e][s] \in {"offered", "ringing"})
    BY DEF CallInv, Keeps
  <2> QED BY <2>1, <2>5, <2>6, <2>7
<1> QED BY <1>1, CallsHold, PTL

-----------------------------------------------------------------------------
(* The refinement.                                                          *)
Status(a, b) ==
  IF a = "ended" \/ b = "ended" THEN "over"
  ELSE IF a = "established" THEN "connected"
  ELSE IF b = "established" THEN "answered"
  ELSE IF a = "offered" THEN "offered" ELSE "none"

InOrder(a, b) ==
  /\ a \in {"none", "created", "offered", "established", "ended"}
  /\ b \in {"none", "ringing", "established", "ended"}
  /\ b # "none" => a \in {"offered", "established", "ended"}
  /\ a = "established" => b \in {"established", "ended"}

LEMMA StatusIs ==
  ASSUME NEW a, NEW b, InOrder(a, b), NEW v,
         v = CASE "ended" \in {a, b} -> "over"
               [] a = "established" /\ b = "established" -> "connected"
               [] a \in {"created", "offered"} /\ b = "established" -> "answered"
               [] a = "offered" /\ b \in {"none", "ringing"} -> "offered"
               [] OTHER -> "none"
  PROVE  v = Status(a, b)
BY DEF InOrder, Status

(* What one application sees of a session goes forward, step by step.       *)
Onward(old, new) ==
  \/ new = old
  \/ old = "none" /\ new \in {"created", "ringing"}
  \/ old = "created" /\ new = "offered"
  \/ old \in {"offered", "ringing"} /\ new = "established"
  \/ old \in Live /\ new = "ended"

AppStep(e, sid, st) ==
  /\ SetApp(e, sid, st)
  /\ sid \notin repeated' => Onward(app[e][sid], st)
  /\ repeated' = repeated \/ repeated' = repeated \cup {sid}

LEMMA StepsOnward ==
  ASSUME CallInv, [Next]_vars
  PROVE  UNCHANGED <<app, repeated>> \/ \E e \in Endpoints, sid \in Sids, st \in AppStates : AppStep(e, sid, st)
<1>0. {"created", "offered", "ringing", "established", "ended"} \subseteq AppStates
  BY DEF AppStates
<1>1. ASSUME NEW e \in Endpoints, Handle(e)
      PROVE  UNCHANGED <<app, repeated>> \/ \E sid \in Sids, st \in AppStates : AppStep(e, sid, st)
  <2>1. CASE HandleInitiate(e)
    <3>1. PICK x \in Acts, sid \in Sids : First(e, "session-initiate", x, sid)
      BY <2>1, Arrival DEF HandleInitiate
    <3>2. (sid \notin repeated => app[e][sid] = "none") /\ repeated' = repeated
      BY <3>1 DEF First, Meets, Acts
    <3>3. SetApp(e, sid, "ringing")
      BY <2>1, <3>1 DEF HandleInitiate, First
    <3> QED BY <3>2, <3>3, <1>0 DEF Onward, AppStep
  <2>2. CASE HandleAccept(e)
    <3>1. PICK x \in Acts, sid \in Sids : First(e, "session-accept", x, sid)
      BY <2>2, Arrival DEF HandleAccept
    <3>2. (sid \notin repeated => app[e][sid] = "offered") /\ repeated' = repeated
      BY <3>1 DEF First, Meets, Acts
    <3>3. SetApp(e, sid, "established")
      BY <2>2, <3>1 DEF HandleAccept, First
    <3> QED BY <3>2, <3>3, <1>0 DEF Onward, AppStep
  <2>3. CASE HandleTerminate(e)
    <3>1. PICK x \in Acts, sid \in Sids : First(e, "session-terminate", x, sid)
      BY <2>3, Arrival DEF HandleTerminate
    <3>2. (sid \notin repeated => app[e][sid] \in Live) /\ repeated' = repeated
      BY <3>1 DEF First, Meets, Acts
    <3>3. SetApp(e, sid, "ended")
      BY <2>3, <3>1 DEF HandleTerminate, First
    <3> QED BY <3>2, <3>3, <1>0 DEF Onward, AppStep
  <2>4. CASE HandleTransportInfo(e) \/ HandleSessionInfo(e) \/ HandleRefused(e) \/ HandleRaises(e)
    BY <2>4 DEF HandleTransportInfo, HandleSessionInfo, HandleRefused, HandleRaises, Arrives
  <2> QED BY <1>1, <2>1, <2>2, <2>3, <2>4 DEF Handle
<1>2. ASSUME NEW e \in Endpoints, Application(e)
      PROVE  UNCHANGED <<app, repeated>> \/ \E sid \in Sids, st \in AppStates : AppStep(e, sid, st)
  <2>1. PICK sid \in Sids :
          \/ CreateSession(e, sid) \/ StartSession(e, sid) \/ AcceptSession(e, sid)
          \/ \E x \in {"transport-info", "session-info"} : SendInfo(e, sid, x)
          \/ \E notify \in Notify : EndSession(e, sid, notify)
    BY <1>2 DEF Application
  <2>2. CASE CreateSession(e, sid)
    BY <2>2, <1>0 DEF CreateSession, Onward, AppStep
  <2>3. CASE StartSession(e, sid)
    BY <2>3, <1>0 DEF StartSession, OfferIn, Onward, AppStep
  <2>4. CASE AcceptSession(e, sid)
    BY <2>4, <1>0 DEF AcceptSession, AcceptIn, Onward, AppStep
  <2>5. CASE \E x \in {"transport-info", "session-info"} : SendInfo(e, sid, x)
    BY <2>5 DEF SendInfo
  <2>6. CASE \E notify \in Notify : EndSession(e, sid, notify)
    BY <2>6, <1>0 DEF EndSession, Onward, AppStep
  <2> QED BY <2>1, <2>2, <2>3, <2>4, <2>5, <2>6
<1>3. CASE UNCHANGED vars
  BY <1>3 DEF vars
<1> QED BY <1>1, <1>2, <1>3 DEF Next

(* Both ends in order before and after, one step forward of one of them is  *)
(* a move of the protocol, or none.                                         *)
Moves(x, y) ==
  \/ y = x
  \/ x = "none" /\ y = "offered"
  \/ x = "offered" /\ y = "answered"
  \/ x = "answered" /\ y = "connected"
  \/ x \in {"none", "offered", "answered", "connected"} /\ y = "over"

LEMMA StatusMoves ==
  ASSUME NEW a, NEW b, NEW c, NEW d, InOrder(a, b), InOrder(c, d),
         (Onward(a, c) /\ d = b) \/ (c = a /\ Onward(b, d))
  PROVE  Moves(Status(a, b), Status(c, d))
<1>1. CASE Onward(a, c) /\ d = b
  BY <1>1 DEF InOrder, Onward, Status, Moves, Live
<1>2. CASE c = a /\ Onward(b, d)
  BY <1>2 DEF InOrder, Onward, Status, Moves, Live
<1> QED BY <1>1, <1>2

LEMMA StateIs ==
  ASSUME NEW s
  PROVE  CallState(s) \in {"none", "offered", "answered", "connected", "over"}
BY DEF CallState

LEMMA CallMoves ==
  ASSUME CallInv, CallInv', [Next]_vars
  PROVE  \/ \A s \in Sids : CallState(s)' = CallState(s)
         \/ \E s \in Sids :
              /\ Moves(CallState(s), CallState(s)')
              /\ \A t \in Sids \ {s} : CallState(t)' = CallState(t)
<1>1. CASE UNCHANGED <<app, repeated>>
  BY <1>1 DEF CallState
<1>2. ASSUME NEW e \in Endpoints, NEW sid \in Sids, NEW st \in AppStates, AppStep(e, sid, st)
      PROVE  /\ Moves(CallState(sid), CallState(sid)')
             /\ \A t \in Sids \ {sid} : CallState(t)' = CallState(t)
  <2>1. /\ app \in [Endpoints -> [Sids -> AppStates]]
        /\ app' = [app EXCEPT ![e][sid] = st]
        /\ sid \notin repeated' => Onward(app[e][sid], st)
        /\ repeated' = repeated \/ repeated' = repeated \cup {sid}
    BY <1>2 DEF CallInv, TypeOK, AppStep, SetApp
  <2>2. \A x \in Endpoints, t \in Sids : x # e \/ t # sid => app'[x][t] = app[x][t]
    BY <2>1
  <2>3. ASSUME NEW t \in Sids \ {sid}
        PROVE  CallState(t)' = CallState(t)
    <3>1. Owner[t] \in Endpoints /\ Peer(Owner[t]) \in Endpoints
      BY OwnerFacts, PeerFacts
    <3>2. app'[Owner[t]][t] = app[Owner[t]][t] /\ app'[Peer(Owner[t])][t] = app[Peer(Owner[t])][t]
      BY <2>2, <3>1
    <3> QED BY <2>1, <3>2 DEF CallState
  <2>4. ASSUME sid \in repeated'
        PROVE  Moves(CallState(sid), CallState(sid)')
    <3>1. CallState(sid)' = "over"
      BY <2>4 DEF CallState
    <3>2. CallState(sid) \in {"none", "offered", "answered", "connected", "over"}
      BY StateIs
    <3> QED BY <3>1, <3>2 DEF Moves
  <2>5. ASSUME sid \notin repeated'
        PROVE  Moves(CallState(sid), CallState(sid)')
    <3>0. sid \notin repeated
      BY <2>1, <2>5
    <3>1. PICK p, q : p = Owner[sid] /\ q = Peer(Owner[sid])
      OBVIOUS
    <3>2. p \in Endpoints /\ q \in Endpoints /\ p # q /\ e \in {p, q}
      BY <3>1, OwnerFacts, PeerFacts
    <3>3. PICK a, b, c, d : /\ a = app[p][sid] /\ b = app[q][sid]
                            /\ c = app'[p][sid] /\ d = app'[q][sid]
      OBVIOUS
    <3>4. (Onward(a, c) /\ d = b) \/ (c = a /\ Onward(b, d))
      <4>1. app'[e][sid] = st /\ Onward(app[e][sid], st)
        BY <2>1, <2>5
      <4>2. CASE e = p
        <5>1. app'[q][sid] = app[q][sid]
          BY <4>2, <2>2, <3>2
        <5> QED BY <4>1, <4>2, <5>1, <2>1, <3>3
      <4>3. CASE e = q
        <5>1. app'[p][sid] = app[p][sid]
          BY <4>3, <2>2, <3>2
        <5> QED BY <4>1, <4>3, <5>1, <2>1, <3>3
      <4> QED BY <4>2, <4>3, <3>2
    <3>5. CallOK(sid) /\ CallOK(sid)'
      BY <2>5, <3>0 DEF CallInv
    <3>6. InOrder(a, b) /\ InOrder(c, d)
      BY <3>1, <3>3, <3>5 DEF CallOK, Agreed, Ordered, InOrder
    <3>7. CallState(sid) = Status(a, b)
      BY <3>0, <3>1, <3>3, <3>6, StatusIs DEF CallState
    <3>8. CallState(sid)' = Status(c, d)
      BY <2>5, <3>1, <3>3, <3>6, StatusIs DEF CallState
    <3> QED BY <3>4, <3>6, <3>7, <3>8, StatusMoves
  <2> QED BY <2>3, <2>4, <2>5
<1> QED BY <1>1, <1>2, StepsOnward

(* The two registries and the queues between them, whatever the two         *)
(* applications do, give every call the life that CallProtocol allows.      *)
THEOREM CallsFollowProtocol == Spec => ImplementsProtocol
<1> DEFINE call == [s \in Sids |-> CallState(s)]
<1>1. Init => Protocol!Init
  <2> SUFFICES ASSUME Init, NEW s \in Sids
               PROVE  CallState(s) = "none"
    BY DEF Protocol!Init
  <2>1. Owner[s] \in Endpoints /\ Peer(Owner[s]) \in Endpoints
    BY OwnerFacts, PeerFacts
  <2>2. app[Owner[s]][s] = "none" /\ app[Peer(Owner[s])][s] = "none"
    BY <2>1 DEF Init
  <2> QED BY <2>2 DEF CallState, Init
<1>2. CallInv /\ CallInv' /\ [Next]_vars => [Protocol!Next]_call
  <2> SUFFICES ASSUME CallInv, CallInv', [Next]_vars
               PROVE  Protocol!Next \/ call' = call
    OBVIOUS
  <2>1. CASE \A s \in Sids : CallState(s)' = CallState(s)
    BY <2>1
  <2>2. ASSUME NEW s \in Sids, Moves(CallState(s), CallState(s)'),
               \A t \in Sids \ {s} : CallState(t)' = CallState(t)
        PROVE  Protocol!Next \/ call' = call
    <3>1. /\ call[s] = CallState(s)
          /\ call' = [call EXCEPT ![s] = CallState(s)']
      BY <2>2
    <3>2. CASE CallState(s)' = CallState(s)
      BY <2>2, <3>2
    <3>3. CASE CallState(s)' # CallState(s)
      <4>1. \/ Protocol!Move(s, {"none"}, "offered")
            \/ Protocol!Move(s, {"offered"}, "answered")
            \/ Protocol!Move(s, {"answered"}, "connected")
            \/ Protocol!Move(s, {"none", "offered", "answered", "connected"}, "over")
        BY <2>2, <3>1, <3>3 DEF Moves, Protocol!Move
      <4>2. Protocol!CallStates \ {"over"} = {"none", "offered", "answered", "connected"}
        BY DEF Protocol!CallStates
      <4> QED BY <4>1, <4>2
            DEF Protocol!Next, Protocol!Offer, Protocol!Answer, Protocol!Connect, Protocol!HangUp
    <3> QED BY <3>2, <3>3
  <2> QED BY <2>1, <2>2, CallMoves
<1> QED BY <1>1, <1>2, CallsHold, PTL DEF Spec, ImplementsProtocol, Protocol!Spec
=============================================================================
