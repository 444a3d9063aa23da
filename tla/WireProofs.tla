----------------------------- MODULE WireProofs -----------------------------
(***************************************************************************)
(* What holds of cmd/wirecompress for every value of the bounds. The wire  *)
(* client: a reply belongs to its command as long as no call failed, and   *)
(* the totals of Traffic are the sums of the messages that crossed the     *)
(* socket. The second is about a recursive function of a sequence, so the  *)
(* module begins with induction over the natural numbers, in a form that   *)
(* takes a set and not a predicate. The recording proxy: whatever the      *)
(* order of its pumps, every message is recorded once, in order and under  *)
(* its own command or none.                                                *)
(***************************************************************************)
EXTENDS WireConn, WireProxy, FiniteSetTheorems, SequenceTheorems,
        WellFoundedInduction, TLAPS

-----------------------------------------------------------------------------
(* Induction, and sums of sequences                                        *)

\* A non-empty set of natural numbers has a least element.
LEMMA LeastOfNaturals ==
  ASSUME NEW T \in SUBSET Nat, T # {}
  PROVE  \E x \in T : \A y \in T : x <= y
<1> DEFINE R == OpToRel(<, Nat)
<1>1. IsWellFoundedOn(R, Nat)
  BY NatLessThanWellFounded
<1>2. \A x, y \in Nat : y < x => <<y, x>> \in R
  BY DEF OpToRel
<1> HIDE DEF R
<1>3. PICK x \in T : \A y \in T : ~ (<<y, x>> \in R)
  BY <1>1, WFMin
<1>4. \A y \in T : ~ (y < x)
  BY <1>2, <1>3
<1>5. \A y \in T : x <= y
  BY <1>4
<1>6. QED
  BY <1>5

\* A set that holds 0 and, with every number, the next one holds every natural number.
LEMMA SetInduction ==
  ASSUME NEW S, 0 \in S, \A n \in Nat : n \in S => n + 1 \in S
  PROVE  Nat \subseteq S
<1> SUFFICES ASSUME Nat \ S # {} PROVE FALSE
  OBVIOUS
<1>1. PICK x \in Nat \ S : \A y \in Nat \ S : x <= y
  BY LeastOfNaturals
<1>2. x - 1 \in Nat /\ x - 1 \in S
  BY <1>1
<1>3. QED
  BY <1>1, <1>2

\* g holds the running totals of the first n numbers of h.
IsRunning(g, h, n) == g = [i \in 0 .. n |-> IF i = 0 THEN 0 ELSE g[i - 1] + h[i]]

\* Every sequence of numbers has running totals.
LEMMA RunningExists ==
  ASSUME NEW h \in Seq(Nat)
  PROVE  \E g \in [0 .. Len(h) -> Nat] : IsRunning(g, h, Len(h))
<1> DEFINE S == {n \in Nat : n <= Len(h) => \E g \in [0 .. n -> Nat] : IsRunning(g, h, n)}
<1>1. 0 \in S
  <2> DEFINE g == [i \in 0 .. 0 |-> 0]
  <2>1. g \in [0 .. 0 -> Nat] /\ IsRunning(g, h, 0)
    BY DEF IsRunning
  <2>2. QED
    BY <2>1
<1>2. ASSUME NEW n \in Nat, n \in S PROVE n + 1 \in S
  <2> SUFFICES ASSUME n + 1 <= Len(h)
               PROVE  \E k \in [0 .. n + 1 -> Nat] : IsRunning(k, h, n + 1)
    OBVIOUS
  <2>1. PICK g \in [0 .. n -> Nat] : IsRunning(g, h, n)
    BY <1>2
  <2>2. h[n + 1] \in Nat
    OBVIOUS
  <2> DEFINE k == [i \in 0 .. n + 1 |-> IF i = n + 1 THEN g[n] + h[n + 1] ELSE g[i]]
  <2>3. k \in [0 .. n + 1 -> Nat]
    BY <2>2
  <2>4. \A i \in 0 .. n + 1 : k[i] = IF i = 0 THEN 0 ELSE k[i - 1] + h[i]
    <3>1. /\ \A i \in 0 .. n : k[i] = g[i]
          /\ k[n + 1] = k[n] + h[n + 1]
      OBVIOUS
    <3>2. \A i \in 0 .. n : g[i] = IF i = 0 THEN 0 ELSE g[i - 1] + h[i]
      BY <2>1 DEF IsRunning
    <3> HIDE DEF k
    <3>3. ASSUME NEW i \in 1 .. n PROVE k[i] = k[i - 1] + h[i]
      <4>1. i \in 0 .. n /\ i - 1 \in 0 .. n /\ i # 0
        OBVIOUS
      <4>2. k[i] = g[i] /\ k[i - 1] = g[i - 1]
        BY <3>1, <4>1
      <4>3. g[i] = g[i - 1] + h[i]
        BY <3>2, <4>1
      <4>4. QED
        BY <4>2, <4>3
    <3>4. k[0] = 0
      BY <3>1, <3>2
    <3>5. QED
      BY <3>1, <3>3, <3>4
  <2>5. IsRunning(k, h, n + 1)
    BY <2>4 DEF IsRunning
  <2> HIDE DEF k
  <2>6. QED
    BY <2>3, <2>5
<1> HIDE DEF S
<1>3. Len(h) \in S
  BY <1>1, <1>2, SetInduction
<1>4. QED
  BY <1>3 DEF S

\* Total is the last of the running totals.
LEMMA TotalIsRunning ==
  ASSUME NEW h \in Seq(Nat)
  PROVE  \E g : IsRunning(g, h, Len(h)) /\ Total(h) = g[Len(h)]
<1> DEFINE g == CHOOSE f : f = [i \in 0 .. Len(h) |-> IF i = 0 THEN 0 ELSE f[i - 1] + h[i]]
<1>1. Total(h) = g[Len(h)]
  BY DEF Total
<1>2. IsRunning(g, h, Len(h))
  BY RunningExists DEF IsRunning
<1>3. QED
  BY <1>1, <1>2

\* Running totals of sequences that begin alike agree on what they share.
LEMMA RunningAgrees ==
  ASSUME NEW g, NEW k, NEW h, NEW j, NEW m \in Nat, NEW n \in Nat, m <= n,
         IsRunning(g, h, m), IsRunning(k, j, n), \A i \in 1 .. m : h[i] = j[i]
  PROVE  g[m] = k[m]
<1> DEFINE S == {i \in Nat : i <= m => g[i] = k[i]}
<1>1. 0 \in S
  BY DEF IsRunning
<1>2. ASSUME NEW i \in Nat, i \in S PROVE i + 1 \in S
  <2> SUFFICES ASSUME i + 1 <= m PROVE g[i + 1] = k[i + 1]
    OBVIOUS
  <2>1. g[i] = k[i] /\ h[i + 1] = j[i + 1]
    BY <1>2
  <2>2. g[i + 1] = g[i] + h[i + 1]
    BY DEF IsRunning
  <2>3. k[i + 1] = k[i] + j[i + 1]
    BY DEF IsRunning
  <2>4. QED
    BY <2>1, <2>2, <2>3
<1> HIDE DEF S
<1>3. m \in S
  BY <1>1, <1>2, SetInduction
<1>4. QED
  BY <1>3 DEF S

\* Nothing adds up to 0.
LEMMA TotalEmpty == ASSUME NEW h \in Seq(Nat), Len(h) = 0 PROVE Total(h) = 0
<1>1. PICK g : IsRunning(g, h, Len(h)) /\ Total(h) = g[Len(h)]
  BY TotalIsRunning
<1>2. QED
  BY <1>1 DEF IsRunning

\* One more number adds itself to the total.
LEMMA TotalExtends ==
  ASSUME NEW h \in Seq(Nat), NEW k \in Seq(Nat), Len(k) = Len(h) + 1,
         \A i \in 1 .. Len(h) : k[i] = h[i]
  PROVE  Total(k) = Total(h) + k[Len(k)]
<1>1. PICK f : IsRunning(f, h, Len(h)) /\ Total(h) = f[Len(h)]
  BY TotalIsRunning
<1>2. PICK g : IsRunning(g, k, Len(k)) /\ Total(k) = g[Len(k)]
  BY TotalIsRunning
<1>3. Len(h) \in Nat /\ Len(k) \in Nat
  OBVIOUS
<1>4. f[Len(h)] = g[Len(h)]
  <2>1. \A i \in 1 .. Len(h) : h[i] = k[i]
    OBVIOUS
  <2>2. Len(h) <= Len(k)
    BY <1>3
  <2>3. QED
    BY <1>1, <1>2, <1>3, <2>1, <2>2, RunningAgrees
<1>5. g[Len(k)] = g[Len(h)] + k[Len(k)]
  BY <1>2, <1>3 DEF IsRunning
<1>6. QED
  BY <1>1, <1>2, <1>4, <1>5

-----------------------------------------------------------------------------
(* Types                                                                   *)

Part == [part : {"header", "rest", "eof"}, msg : Message]

\* The sizes of messages and requests are natural numbers.
LEMMA SizeTypes ==
  /\ \A m \in Message : RBody(m) \in Nat /\ RWire(m) \in Nat
  /\ \A f : Body(f) \in Nat /\ Logical(f) \in Nat /\ Wire(f) \in Nat
  BY DEF RBody, RWire, Body, Logical, Wire, BodyLen, ChecksumLen, HeaderLen, PrefixLen, PayloadLen

\* The fields of Traffic.
LEMMA TrafficFields ==
  DOMAIN NoTraffic = {"requests", "qLogical", "qWire", "qPayload", "qBody", "rLogical",
                      "rWire", "rPayload", "rBody"}
  BY DEF NoTraffic

\* Counting a request or a reply leaves totals that are natural numbers.
LEMMA CountTypes ==
  ASSUME TypeOK
  PROVE  /\ \A f : CountRequest(f) \in [DOMAIN NoTraffic -> Nat]
                     /\ CountRequest(f).requests = traffic.requests + 1
         /\ \A m \in Message : CountReply(m) \in [DOMAIN NoTraffic -> Nat]
                                 /\ CountReply(m).requests = traffic.requests
<1>1. traffic \in [DOMAIN NoTraffic -> Nat]
  BY DEF TypeOK
<1>2. PayloadLen \in Nat /\ HeaderLen \in Nat
  BY DEF PayloadLen, HeaderLen
<1>3. ASSUME NEW f
      PROVE  CountRequest(f) \in [DOMAIN NoTraffic -> Nat]
               /\ CountRequest(f).requests = traffic.requests + 1
  <2> DEFINE counted == f = "compressed"
             p == IF counted THEN PayloadLen ELSE 0
             b == IF counted THEN Body(f) ELSE 0
             t1 == [traffic EXCEPT !.requests = @ + 1]
             t2 == [t1 EXCEPT !.qLogical = @ + Logical(f)]
             t3 == [t2 EXCEPT !.qWire = @ + Wire(f)]
             t4 == [t3 EXCEPT !.qPayload = @ + p]
             t5 == [t4 EXCEPT !.qBody = @ + b]
  <2>1. p \in Nat /\ b \in Nat /\ Logical(f) \in Nat /\ Wire(f) \in Nat
    BY <1>2, SizeTypes
  <2>2. CountRequest(f) = t5
    BY DEF CountRequest
  <2> HIDE DEF p, b
  <2>3. t1 \in [DOMAIN NoTraffic -> Nat] /\ t1.requests = traffic.requests + 1
    BY <1>1, TrafficFields
  <2> HIDE DEF t1
  <2>4. t2 \in [DOMAIN NoTraffic -> Nat] /\ t2.requests = t1.requests
    BY <2>1, <2>3, TrafficFields
  <2> HIDE DEF t2
  <2>5. t3 \in [DOMAIN NoTraffic -> Nat] /\ t3.requests = t2.requests
    BY <2>1, <2>4, TrafficFields
  <2> HIDE DEF t3
  <2>6. t4 \in [DOMAIN NoTraffic -> Nat] /\ t4.requests = t3.requests
    BY <2>1, <2>5, TrafficFields
  <2> HIDE DEF t4
  <2>7. t5 \in [DOMAIN NoTraffic -> Nat] /\ t5.requests = t4.requests
    BY <2>1, <2>6, TrafficFields
  <2> HIDE DEF t5
  <2>8. QED
    BY <2>2, <2>3, <2>4, <2>5, <2>6, <2>7
<1>4. ASSUME NEW m \in Message
      PROVE  CountReply(m) \in [DOMAIN NoTraffic -> Nat]
               /\ CountReply(m).requests = traffic.requests
  <2> DEFINE p == IF m.compressed THEN PayloadLen ELSE 0
             b == IF m.compressed THEN RBody(m) ELSE 0
             t1 == [traffic EXCEPT !.rWire = @ + RWire(m)]
             t2 == [t1 EXCEPT !.rPayload = @ + p]
             t3 == [t2 EXCEPT !.rBody = @ + b]
             t4 == [t3 EXCEPT !.rLogical = @ + HeaderLen + RBody(m)]
  <2>1. p \in Nat /\ b \in Nat /\ RBody(m) \in Nat /\ RWire(m) \in Nat
    BY <1>2, SizeTypes
  <2>2. CountReply(m) = IF m.fault \in {"bad prefix", "bad payload"} THEN t1 ELSE t4
    BY DEF CountReply
  <2> HIDE DEF p, b
  <2>3. t1 \in [DOMAIN NoTraffic -> Nat] /\ t1.requests = traffic.requests
    BY <1>1, <2>1, TrafficFields
  <2> HIDE DEF t1
  <2>4. t2 \in [DOMAIN NoTraffic -> Nat] /\ t2.requests = t1.requests
    BY <2>1, <2>3, TrafficFields
  <2> HIDE DEF t2
  <2>5. t3 \in [DOMAIN NoTraffic -> Nat] /\ t3.requests = t2.requests
    BY <2>1, <2>4, TrafficFields
  <2> HIDE DEF t3
  <2>6. t4 \in [DOMAIN NoTraffic -> Nat] /\ t4.requests = t3.requests
    BY <1>2, <2>1, <2>5, TrafficFields
  <2> HIDE DEF t4
  <2>7. QED
    BY <2>2, <2>3, <2>4, <2>5, <2>6
<1>5. QED
  BY <1>3, <1>4

\* The replies of one answer, cut into headers and rests.
Parts(m, n) ==
  [i \in 1 .. 2 * n |->
     [part |-> IF i % 2 = 1 THEN "header" ELSE "rest",
      msg |-> [m EXCEPT !.more = (i + 1) \div 2 < n]]]

\* An answer is a sequence of well-typed parts.
LEMMA PartsType ==
  ASSUME NEW id \in Nat, NEW m \in Replies(id), NEW n \in Nat
  PROVE  Parts(m, n) \in Seq(Part) /\ Len(Parts(m, n)) = 2 * n
<1>1. m \in Message
  BY DEF Replies, Message
<1>2. \A b \in BOOLEAN : [m EXCEPT !.more = b] \in Message
  BY <1>1 DEF Message
<1>3. ASSUME NEW i \in 1 .. 2 * n PROVE Parts(m, n)[i] \in Part
  <2> DEFINE b == (i + 1) \div 2 < n
             w == IF i % 2 = 1 THEN "header" ELSE "rest"
  <2>1. Parts(m, n)[i] = [part |-> w, msg |-> [m EXCEPT !.more = b]]
    BY DEF Parts
  <2>2. w \in {"header", "rest"} /\ b \in BOOLEAN
    OBVIOUS
  <2> HIDE DEF w, b
  <2>3. QED
    BY <2>1, <2>2, <1>2 DEF Part
<1>4. Parts(m, n) \in [1 .. 2 * n -> Part]
  BY <1>3 DEF Parts
<1>5. QED
  BY <1>4, IsASeq, LenProperties

\* What a failed call leaves is well typed.
LEMMA FailsType ==
  ASSUME Fails
  PROVE  /\ pc' \in {"idle", "header", "rest", "closed"}
         /\ result' \in [ok : BOOLEAN, msg : Message] /\ clean' \in BOOLEAN
  BY DEF Fails, NoMessage, Message, Checksums

\* Steps keep the types.
LEMMA TypeStep == ASSUME TypeOK, [Next]_vars PROVE TypeOK'
<1> USE DEF TypeOK
<1>0. CASE UNCHANGED vars
  BY <1>0 DEF vars
<1>1. ASSUME NEW form \in Forms, Run(form) PROVE TypeOK'
  <2>1. [id |-> reqID + 1, form |-> form] \in [id : Nat, form : Forms]
    OBVIOUS
  <2>2. /\ inbox' \in Seq([id : Nat, form : Forms]) /\ sent' \in Seq(Forms)
        /\ Len(sent') = Len(sent) + 1
    BY <1>1, <2>1 DEF Run
  <2>3. traffic' \in [DOMAIN NoTraffic -> Nat] /\ traffic'.requests = Len(sent')
    BY <1>1, <2>2, CountTypes DEF Run
  <2>4. QED
    BY <1>1, <2>2, <2>3 DEF Run
<1>2. CASE WriteFails
  BY <1>2, FailsType, BoundsAssumption DEF WriteFails
<1>3. CASE ReadReply
  BY <1>3 DEF ReadReply
<1>4. CASE Answer
  <2> DEFINE q == Head(inbox)
  <2>1. inbox # << >> /\ q \in [id : Nat, form : Forms] /\ inbox' = Tail(inbox)
    <3>1. inbox # << >> /\ inbox' = Tail(inbox)
      BY <1>4 DEF Answer
    <3>2. QED
      BY <3>1, HeadTailProperties
  <2>2. PICK n \in 1 .. (IF q.form = "exhaust" THEN MaxReplies ELSE 1), m \in Replies(q.id) :
          /\ m.fault # "none" => faults < MaxFaults
          /\ faults' = IF m.fault = "none" THEN faults ELSE faults + 1
          /\ stream' = stream \o Parts(m, n)
    BY <1>4 DEF Answer, Parts
  <2>3. n \in Nat
    BY <2>2, BoundsAssumption
  <2>4. Parts(m, n) \in Seq(Part)
    BY <2>1, <2>3, PartsType
  <2>5. stream' \in Seq(Part)
    BY <2>2, <2>4 DEF Part
  <2>6. faults' \in 0 .. MaxFaults
    BY <2>2, BoundsAssumption
  <2>7. inbox' \in Seq([id : Nat, form : Forms])
    BY <2>1
  <2>8. QED
    BY <1>4, <2>5, <2>6, <2>7 DEF Answer, Part
<1>5. CASE ReadHeader
  <2>1. stream # << >> /\ Head(stream) \in Part /\ Tail(stream) \in Seq(Part)
    <3>1. stream # << >> /\ stream \in Seq(Part)
      BY <1>5 DEF ReadHeader, Part
    <3>2. QED
      BY <3>1, HeadTailProperties
  <2>2. stream' \in Seq(Part)
    BY <1>5, <2>1 DEF ReadHeader, Part
  <2>3. CASE Fails /\ UNCHANGED head
    BY <1>5, <2>2, <2>3, FailsType DEF ReadHeader, Part
  <2>4. CASE head' = Head(stream).msg /\ pc' = "rest" /\ UNCHANGED <<result, clean>>
    BY <1>5, <2>1, <2>2, <2>4 DEF ReadHeader, Part
  <2>5. QED
    BY <1>5, <2>3, <2>4 DEF ReadHeader
<1>6. CASE ReadRest
  <2>1. stream' \in Seq(Part)
    BY <1>6 DEF ReadRest, Part
  <2>2. traffic' \in [DOMAIN NoTraffic -> Nat] /\ traffic'.requests = Len(sent)
    BY <1>6, CountTypes DEF ReadRest
  <2>3. last' \in [compressed : BOOLEAN, checksum : Checksums]
    BY <1>6 DEF ReadRest, Last, Message
  <2>4. got' \in Seq(Message)
    BY <1>6 DEF ReadRest
  <2>5. /\ pc' \in {"idle", "header", "rest", "closed"}
        /\ result' \in [ok : BOOLEAN, msg : Message] /\ clean' \in BOOLEAN
    <3>1. CASE Fails
      BY <3>1, FailsType
    <3>2. CASE pc' = "idle" /\ result' = [ok |-> TRUE, msg |-> head] /\ UNCHANGED clean
      BY <3>2
    <3>3. QED
      BY <1>6, <3>1, <3>2 DEF ReadRest
  <2>6. UNCHANGED <<reqID, inbox, head, faults, sent>>
    BY <1>6 DEF ReadRest
  <2>7. QED
    BY <2>1, <2>2, <2>3, <2>4, <2>5, <2>6 DEF Part
<1>7. CASE RestMissing
  BY <1>7, FailsType DEF RestMissing
<1>8. CASE Deadline
  BY <1>8, FailsType, BoundsAssumption DEF Deadline
<1>9. CASE Close
  BY <1>9 DEF Close
<1>10. CASE PeerCloses
  <2>1. PICK k \in 0 .. Len(stream) :
          stream' = SubSeq(stream, 1, k) \o <<[part |-> "eof", msg |-> NoMessage]>>
    BY <1>10 DEF PeerCloses
  <2>2. NoMessage \in Message
    BY DEF NoMessage, Message, Checksums
  <2>3. SubSeq(stream, 1, k) \in Seq(Part) /\ <<[part |-> "eof", msg |-> NoMessage]>> \in Seq(Part)
    <3>1. stream \in Seq(Part) /\ [part |-> "eof", msg |-> NoMessage] \in Part
      BY <2>2 DEF Part
    <3>2. \A i \in 1 .. k : stream[i] \in Part
      BY <3>1
    <3>3. QED
      BY <3>1, <3>2, SubSeqProperties
  <2>4. stream' \in Seq(Part)
    BY <2>1, <2>3
  <2>5. QED
    BY <1>10, <2>4, BoundsAssumption DEF PeerCloses, Part
<1>11. CASE Closed
  BY <1>11 DEF Closed, vars
<1>12. QED
  BY <1>0, <1>1, <1>2, <1>3, <1>4, <1>5, <1>6, <1>7, <1>8, <1>9, <1>10, <1>11 DEF Next

\* The initial state is well typed.
LEMMA TypeInit == ASSUME Init PROVE TypeOK
<1>1. /\ NoMessage \in Message
      /\ NoTraffic \in [DOMAIN NoTraffic -> Nat] /\ NoTraffic.requests = 0
  BY DEF NoMessage, Message, Checksums, NoTraffic
<1>2. QED
  BY <1>1, BoundsAssumption DEF Init, TypeOK, Checksums

-----------------------------------------------------------------------------
(* The invariant of a connection on which no call has failed: what is in   *)
(* flight is of the last command, and in order.                            *)

\* Another reply of the exhaust command is to be read.
More == result.ok /\ result.msg.more

\* There is nothing to read but the end of the stream.
OnlyEnd(s) == \A i \in 1 .. Len(s) : s[i].part = "eof"

\* A header is followed by its rest, a rest by the next header of an exhaust command,
\* and the end of the stream by nothing.
Chained(s) ==
  \A i \in 1 .. Len(s) - 1 :
    /\ s[i].part # "eof"
    /\ s[i + 1].part # "eof" =>
         /\ s[i].part = "header" => s[i + 1].part = "rest" /\ s[i + 1].msg = s[i].msg
         /\ s[i].part = "rest" => s[i + 1].part = "header" /\ s[i].msg.more

\* Everything there is to read answers the request of that number.
AllTo(s, id) == \A i \in 1 .. Len(s) : s[i].part # "eof" => s[i].msg.to = id

\* The stream does not begin with a rest.
AtHeader(s) == Len(s) > 0 => s[1].part # "rest"

\* The stream begins with the rest of m, or has been cut off there.
AtRest(s, m) == Len(s) > 0 /\ s[1].part # "eof" => s[1].part = "rest" /\ s[1].msg = m

Between == /\ inbox = << >>
           /\ result.ok => result.msg.to = reqID
           /\ ~More => OnlyEnd(stream)
           /\ AtHeader(stream)
Awaiting == AtHeader(stream) /\ (inbox = << >> \/ OnlyEnd(stream))
Within == inbox = << >> /\ head.to = reqID /\ AtRest(stream, head)

Tidy ==
  clean =>
    /\ Len(inbox) <= 1 /\ \A i \in 1 .. Len(inbox) : inbox[i].id = reqID
    /\ AllTo(stream, reqID)
    /\ Chained(stream)
    /\ pc \in {"idle", "closed"} => Between
    /\ pc = "header" => Awaiting
    /\ pc = "rest" => Within

\* The replies of one answer are in order and answer that request.
LEMMA PartsInOrder ==
  ASSUME NEW id \in Nat, NEW m \in Replies(id), NEW n \in Nat
  PROVE  Chained(Parts(m, n)) /\ AllTo(Parts(m, n), id) /\ AtHeader(Parts(m, n))
<1> DEFINE s == Parts(m, n)
           M(j) == [m EXCEPT !.more = j < n]
<1>1. Len(s) = 2 * n
  BY PartsType
<1>2. \A j \in Nat : M(j).to = id /\ (M(j).more <=> j < n)
  BY DEF Replies
<1>3. \A i \in 1 .. 2 * n :
        /\ i % 2 = 1 => s[i].part = "header"
        /\ i % 2 # 1 => s[i].part = "rest"
        /\ s[i].msg = M((i + 1) \div 2)
  BY DEF Parts
<1> HIDE DEF s, M
<1>4. ASSUME NEW i \in 1 .. 2 * n PROVE s[i].part # "eof" /\ s[i].msg.to = id
  <2>1. s[i].msg = M((i + 1) \div 2) /\ s[i].part \in {"header", "rest"}
    BY <1>3
  <2>2. (i + 1) \div 2 \in Nat
    OBVIOUS
  <2>3. QED
    BY <1>2, <2>1, <2>2
<1>5. ASSUME NEW i \in 1 .. 2 * n - 1, s[i].part = "header"
      PROVE  s[i + 1].part = "rest" /\ s[i + 1].msg = s[i].msg
  <2>1. i \in 1 .. 2 * n /\ i + 1 \in 1 .. 2 * n
    OBVIOUS
  <2>2. i % 2 = 1
    BY <1>3, <1>5, <2>1
  <2>3. (i + 1) % 2 # 1 /\ (i + 1 + 1) \div 2 = (i + 1) \div 2
    BY <2>2
  <2>4. s[i].msg = M((i + 1) \div 2) /\ s[i + 1].msg = M((i + 1 + 1) \div 2)
    BY <1>3, <2>1
  <2>5. s[i + 1].part = "rest"
    BY <1>3, <2>1, <2>3
  <2>6. QED
    BY <2>3, <2>4, <2>5
<1>6. ASSUME NEW i \in 1 .. 2 * n - 1, s[i].part = "rest"
      PROVE  s[i + 1].part = "header" /\ s[i].msg.more
  <2>1. i \in 1 .. 2 * n /\ i + 1 \in 1 .. 2 * n
    OBVIOUS
  <2>2. i % 2 # 1
    BY <1>3, <1>6, <2>1
  <2>3. (i + 1) % 2 = 1
    BY <2>2
  <2>4. (i + 1) \div 2 \in Nat /\ (i + 1) \div 2 < n
    BY <2>2
  <2>5. s[i].msg = M((i + 1) \div 2)
    BY <1>3, <2>1
  <2>6. s[i + 1].part = "header"
    BY <1>3, <2>1, <2>3
  <2>7. QED
    BY <1>2, <2>4, <2>5, <2>6
<1>7. Chained(s)
  BY <1>1, <1>4, <1>5, <1>6 DEF Chained
<1>8. AllTo(s, id)
  BY <1>1, <1>4 DEF AllTo
<1>9. AtHeader(s)
  <2>1. ASSUME Len(s) > 0 PROVE s[1].part # "rest"
    <3>1. 1 \in 1 .. 2 * n /\ 1 % 2 = 1
      BY <1>1, <2>1
    <3>2. QED
      BY <1>3, <3>1
  <2>2. QED
    BY <2>1 DEF AtHeader
<1>10. QED
  BY <1>7, <1>8, <1>9 DEF s

\* Reading a part leaves the others in order.
LEMMA TailInOrder ==
  ASSUME NEW s \in Seq(Part), s # << >>, Chained(s), NEW id, AllTo(s, id)
  PROVE  /\ Chained(Tail(s)) /\ AllTo(Tail(s), id)
         /\ s[1].part = "header" => AtRest(Tail(s), s[1].msg)
         /\ s[1].part = "rest" => AtHeader(Tail(s))
         /\ s[1].part = "rest" /\ ~s[1].msg.more => OnlyEnd(Tail(s))
<1>1. /\ Len(s) \in Nat /\ Len(s) > 0 /\ Len(Tail(s)) = Len(s) - 1
      /\ \A i \in 1 .. Len(s) - 1 : Tail(s)[i] = s[i + 1]
  BY HeadTailProperties
<1>2. Chained(Tail(s))
  BY <1>1 DEF Chained
<1>3. AllTo(Tail(s), id)
  BY <1>1 DEF AllTo
<1>4. ASSUME s[1].part = "header" PROVE AtRest(Tail(s), s[1].msg)
  BY <1>1, <1>4 DEF Chained, AtRest
<1>5. ASSUME s[1].part = "rest" PROVE AtHeader(Tail(s))
  BY <1>1, <1>5 DEF Chained, AtHeader
<1>6. ASSUME s[1].part = "rest", ~s[1].msg.more PROVE OnlyEnd(Tail(s))
  <2>1. CASE Len(s) = 1
    BY <1>1, <2>1 DEF OnlyEnd
  <2>2. CASE Len(s) > 1
    <3>1. s[2].part = "eof"
      BY <1>1, <1>6, <2>2 DEF Chained
    <3>2. Len(s) = 2
      BY <1>1, <2>2, <3>1 DEF Chained
    <3>3. Len(Tail(s)) = 1 /\ Tail(s)[1] = s[2]
      BY <1>1, <3>2
    <3>4. QED
      BY <3>1, <3>3 DEF OnlyEnd
  <2>3. QED
    BY <1>1, <2>1, <2>2
<1>7. QED
  BY <1>2, <1>3, <1>4, <1>5, <1>6

\* So does the peer's closing of the connection.
LEMMA CutInOrder ==
  ASSUME NEW s \in Seq(Part), NEW k \in 0 .. Len(s), NEW e \in Part, e.part = "eof",
         Len(s) > 0 => s[Len(s)].part # "eof", Chained(s), NEW id, AllTo(s, id)
  PROVE  LET t == SubSeq(s, 1, k) \o <<e>>
         IN /\ Chained(t) /\ AllTo(t, id)
            /\ AtHeader(s) => AtHeader(t)
            /\ \A m : AtRest(s, m) => AtRest(t, m)
            /\ OnlyEnd(s) => OnlyEnd(t)
<1> DEFINE t == SubSeq(s, 1, k) \o <<e>>
<1>1. /\ SubSeq(s, 1, k) \in Seq(Part) /\ Len(SubSeq(s, 1, k)) = k
      /\ \A i \in 1 .. k : SubSeq(s, 1, k)[i] = s[i]
  <2>1. \A i \in 1 .. k : s[i] \in Part
    OBVIOUS
  <2>2. QED
    BY <2>1, SubSeqProperties
<1>2. <<e>> \in Seq(Part) /\ Len(<<e>>) = 1 /\ <<e>>[1] = e
  OBVIOUS
<1>3. /\ Len(t) = k + 1 /\ t[k + 1] = e
      /\ \A i \in 1 .. k : t[i] = s[i]
  BY <1>1, <1>2, ConcatProperties
<1> HIDE DEF t
<1>4. \A i \in 1 .. k : s[i].part # "eof"
  BY DEF Chained
<1>5. Chained(t)
  <2>1. ASSUME NEW i \in 1 .. k - 1
        PROVE  t[i] = s[i] /\ t[i + 1] = s[i + 1] /\ i \in 1 .. Len(s) - 1
    BY <1>3
  <2>2. QED
    BY <1>3, <1>4, <2>1 DEF Chained
<1>6. AllTo(t, id)
  BY <1>3 DEF AllTo
<1>7. AtHeader(s) => AtHeader(t)
  BY <1>3 DEF AtHeader
<1>8. \A m : AtRest(s, m) => AtRest(t, m)
  BY <1>3 DEF AtRest
<1>9. OnlyEnd(s) => OnlyEnd(t)
  BY <1>3 DEF OnlyEnd
<1>10. QED
  BY <1>5, <1>6, <1>7, <1>8, <1>9 DEF t

\* A call that fails ends the claim.
LEMMA FailedIsOver == ASSUME Fails PROVE Tidy' /\ ~result'.ok
  BY DEF Fails, Tidy

\* Steps keep the connection tidy.
LEMMA TidyStep == ASSUME TypeOK, Tidy, [Next]_vars PROVE Tidy'
<1>t. /\ stream \in Seq(Part) /\ Len(stream) \in Nat /\ reqID \in Nat
      /\ inbox \in Seq([id : Nat, form : Forms]) /\ clean \in BOOLEAN
      /\ pc \in {"idle", "header", "rest", "closed"}
  BY DEF TypeOK, Part
<1>0. CASE UNCHANGED vars
  BY <1>0 DEF vars, Tidy, Between, Awaiting, Within, More
<1>1. ASSUME NEW form \in Forms, Run(form), clean' PROVE Tidy'
  <2>1. clean /\ ~More /\ pc = "idle"
    BY <1>1 DEF Run, More
  <2>2. inbox = << >> /\ OnlyEnd(stream) /\ Chained(stream)
    BY <2>1 DEF Tidy, Between
  <2>3. /\ reqID' = reqID + 1 /\ inbox' = Append(inbox, [id |-> reqID + 1, form |-> form])
        /\ stream' = stream /\ pc' = "header"
    BY <1>1 DEF Run
  <2>4. Len(inbox') = 1 /\ inbox'[1].id = reqID'
    BY <2>2, <2>3
  <2>5. AllTo(stream, reqID + 1) /\ AtHeader(stream)
    BY <2>2 DEF OnlyEnd, AllTo, AtHeader
  <2>6. QED
    BY <2>2, <2>3, <2>4, <2>5 DEF Tidy, Awaiting
<1>2. CASE WriteFails
  BY <1>2, FailedIsOver DEF WriteFails
<1>3. CASE ReadReply
  BY <1>3 DEF ReadReply, Tidy, Between, Awaiting
<1>4. ASSUME Answer, clean' PROVE Tidy'
  <2> DEFINE q == Head(inbox)
  <2>1. inbox # << >> /\ inbox' = Tail(inbox) /\ ~HungUp /\ clean
    BY <1>4 DEF Answer
  <2>2. UNCHANGED <<reqID, pc, head, result>>
    BY <1>4 DEF Answer
  <2>3. Len(inbox) = 1 /\ q = inbox[1] /\ q.id = reqID
    <3>1. Len(inbox) <= 1
      BY <2>1 DEF Tidy
    <3>2. \A i \in 1 .. Len(inbox) : inbox[i].id = reqID
      BY <2>1 DEF Tidy
    <3>3. Len(inbox) \in Nat /\ Len(inbox) # 0
      BY <1>t, <2>1
    <3>4. q = inbox[1]
      BY <1>t, <2>1
    <3>5. Len(inbox) = 1
      <4>1. \A n \in Nat : n <= 1 /\ n # 0 => n = 1
        OBVIOUS
      <4>2. QED
        BY <3>1, <3>3, <4>1
    <3>6. inbox[1].id = reqID
      BY <3>2, <3>5
    <3>7. QED
      BY <3>4, <3>5, <3>6
  <2>4. inbox' = << >>
    BY <1>t, <2>1, <2>3
  <2>5. pc = "header" /\ OnlyEnd(stream)
    BY <1>t, <2>1 DEF Tidy, Between, Within, Awaiting
  <2>6. stream = << >>
    BY <1>t, <2>1, <2>5 DEF HungUp, OnlyEnd
  <2>7. PICK n \in 1 .. (IF q.form = "exhaust" THEN MaxReplies ELSE 1), m \in Replies(q.id) :
          stream' = stream \o Parts(m, n)
    BY <1>4 DEF Answer, Parts
  <2>8. n \in Nat
    BY <2>7, BoundsAssumption
  <2>9. Parts(m, n) \in Seq(Part)
    BY <1>t, <2>3, <2>8, PartsType
  <2>10. stream' = Parts(m, n)
    BY <2>6, <2>7, <2>9
  <2>11. Chained(stream') /\ AllTo(stream', reqID) /\ AtHeader(stream')
    BY <1>t, <2>3, <2>8, <2>10, PartsInOrder
  <2>12. QED
    BY <2>2, <2>4, <2>5, <2>11 DEF Tidy, Awaiting
<1>5. ASSUME ReadHeader, clean' PROVE Tidy'
  <2>1. stream # << >> /\ pc = "header" /\ UNCHANGED <<reqID, inbox>>
    BY <1>5 DEF ReadHeader
  <2>2. CASE Fails
    BY <2>2, FailedIsOver
  <2>3. CASE ~Fails
    <3>1. /\ Head(stream).part = "header" /\ stream' = Tail(stream) /\ head' = Head(stream).msg
          /\ pc' = "rest" /\ clean' = clean
      BY <1>5, <2>3 DEF ReadHeader
    <3>2. clean /\ Head(stream) = stream[1] /\ Len(stream) > 0
      BY <1>t, <1>5, <2>1, <3>1
    <3>3. Chained(stream) /\ AllTo(stream, reqID) /\ Awaiting
      BY <2>1, <3>2 DEF Tidy
    <3>4. Chained(stream') /\ AllTo(stream', reqID) /\ AtRest(stream', head')
      BY <1>t, <2>1, <3>1, <3>2, <3>3, TailInOrder
    <3>5. inbox = << >> /\ head'.to = reqID
      BY <3>1, <3>2, <3>3, <1>t DEF Awaiting, OnlyEnd, AllTo
    <3>6. QED
      BY <2>1, <3>1, <3>4, <3>5 DEF Tidy, Within
  <2>4. QED
    BY <2>2, <2>3
<1>6. ASSUME ReadRest, clean' PROVE Tidy'
  <2>1. /\ stream # << >> /\ pc = "rest" /\ Head(stream).part = "rest" /\ stream' = Tail(stream)
        /\ UNCHANGED <<reqID, inbox, head>>
    BY <1>6 DEF ReadRest
  <2>2. CASE Fails
    BY <2>2, FailedIsOver
  <2>3. CASE ~Fails
    <3>1. pc' = "idle" /\ result' = [ok |-> TRUE, msg |-> head] /\ clean' = clean
      BY <1>6, <2>3 DEF ReadRest
    <3>2. clean /\ Head(stream) = stream[1] /\ Len(stream) > 0
      BY <1>t, <1>6, <2>1, <3>1
    <3>3. Chained(stream) /\ AllTo(stream, reqID) /\ Within
      BY <2>1, <3>2 DEF Tidy
    <3>4. stream[1].msg = head /\ inbox = << >> /\ head.to = reqID
      BY <2>1, <3>2, <3>3 DEF Within, AtRest
    <3>5. /\ Chained(stream') /\ AllTo(stream', reqID) /\ AtHeader(stream')
          /\ ~head.more => OnlyEnd(stream')
      BY <1>t, <2>1, <3>2, <3>3, <3>4, TailInOrder
    <3>6. QED
      BY <2>1, <3>1, <3>4, <3>5 DEF Tidy, Between, More
  <2>4. QED
    BY <2>2, <2>3
<1>7. CASE RestMissing
  BY <1>7, FailedIsOver DEF RestMissing
<1>8. CASE Deadline
  BY <1>8, FailedIsOver DEF Deadline
<1>9. CASE Close
  BY <1>9 DEF Close, Tidy, Between, More
<1>10. ASSUME PeerCloses, clean' PROVE Tidy'
  <2> DEFINE e == [part |-> "eof", msg |-> NoMessage]
  <2>1. PICK k \in 0 .. Len(stream) : stream' = SubSeq(stream, 1, k) \o <<e>>
    BY <1>10 DEF PeerCloses
  <2>2. e \in Part /\ e.part = "eof"
    BY DEF NoMessage, Message, Checksums, Part
  <2>3. Len(stream) > 0 => stream[Len(stream)].part # "eof"
    BY <1>10, <1>t DEF PeerCloses, HungUp
  <2>4. clean /\ UNCHANGED <<reqID, pc, inbox, head, result>>
    BY <1>10 DEF PeerCloses
  <2>5. Chained(stream) /\ AllTo(stream, reqID)
    BY <2>4 DEF Tidy
  <2> HIDE DEF e
  <2>6. /\ Chained(stream') /\ AllTo(stream', reqID)
        /\ AtHeader(stream) => AtHeader(stream')
        /\ \A m : AtRest(stream, m) => AtRest(stream', m)
        /\ OnlyEnd(stream) => OnlyEnd(stream')
    BY <1>t, <2>1, <2>2, <2>3, <2>5, CutInOrder
  <2>7. (Between => Between') /\ (Awaiting => Awaiting') /\ (Within => Within')
    BY <2>4, <2>6 DEF Between, Awaiting, Within, More
  <2>8. QED
    BY <2>4, <2>6, <2>7 DEF Tidy
<1>11. CASE Closed
  BY <1>0, <1>11 DEF Closed
<1>12. CASE ~clean'
  BY <1>12 DEF Tidy
<1>13. QED
  BY <1>0, <1>1, <1>2, <1>3, <1>4, <1>5, <1>6, <1>7, <1>8, <1>9, <1>10, <1>11, <1>12 DEF Next

\* What the connection remembers of the last reply is of the reply it returned.
Remembers ==
  result.ok /\ pc \in {"idle", "closed"} =>
    last = [compressed |-> result.msg.compressed, checksum |-> result.msg.checksum]

LEMMA RemembersStep == ASSUME TypeOK, Remembers, [Next]_vars PROVE Remembers'
<1>0. CASE UNCHANGED vars
  BY <1>0 DEF vars, Remembers
<1>1. ASSUME NEW form \in Forms, Run(form) PROVE Remembers'
  BY <1>1 DEF Run, Remembers
<1>2. CASE WriteFails \/ RestMissing \/ Deadline
  BY <1>2 DEF WriteFails, RestMissing, Deadline, Fails, Remembers
<1>3. CASE ReadReply
  BY <1>3 DEF ReadReply, Remembers
<1>4. CASE Answer \/ PeerCloses
  BY <1>4 DEF Answer, PeerCloses, Remembers
<1>5. CASE ReadHeader
  <2>1. CASE Fails
    BY <2>1 DEF Fails, Remembers
  <2>2. CASE pc' = "rest"
    BY <2>2 DEF Remembers
  <2>3. QED
    BY <1>5, <2>1, <2>2 DEF ReadHeader
<1>6. CASE ReadRest
  <2>1. CASE Fails
    BY <2>1 DEF Fails, Remembers
  <2>2. CASE ~Fails
    <3>1. head.fault = "none" /\ last' = Last(head) /\ result' = [ok |-> TRUE, msg |-> head]
      BY <1>6, <2>2 DEF ReadRest
    <3>2. last' = [compressed |-> head.compressed, checksum |-> head.checksum]
      BY <3>1 DEF Last
    <3>3. QED
      BY <3>1, <3>2 DEF Remembers
  <2>3. QED
    BY <2>1, <2>2
<1>7. CASE Close
  BY <1>7 DEF Close, Remembers
<1>8. CASE Closed
  BY <1>0, <1>8 DEF Closed
<1>9. QED
  BY <1>0, <1>1, <1>2, <1>3, <1>4, <1>5, <1>6, <1>7, <1>8 DEF Next

(* The states of the client are well typed, every request is counted and has a
   number of its own. *)
THEOREM ClientTypes == Spec => []TypeOK
<1>1. Init => TypeOK
  BY TypeInit
<1>2. TypeOK /\ [Next]_vars => TypeOK'
  BY TypeStep
<1>3. QED
  BY <1>1, <1>2, PTL DEF Spec

(* conn.go never compares responseTo with the number of its request; all the same,
   for any number of commands, replies and faults, the reply of a call belongs to the
   command just sent as long as no call failed and no exhaust reply was left unread,
   and LastReplyCompressor and LastReplyChecksum describe that reply. *)
THEOREM RepliesAreMine == Spec => []ReplyIsMine
<1>1. Init => TypeOK /\ Tidy /\ Remembers
  <2>1. ASSUME Init PROVE Tidy /\ Remembers
    <3>1. stream = << >> /\ inbox = << >> /\ ~result.ok /\ pc = "idle"
      BY <2>1 DEF Init
    <3>2. QED
      BY <3>1 DEF Tidy, Remembers, Between, AllTo, Chained, OnlyEnd, AtHeader
  <2>2. QED
    BY <2>1, TypeInit
<1>2. TypeOK /\ Tidy /\ Remembers /\ [Next]_vars => (TypeOK /\ Tidy /\ Remembers)'
  BY TypeStep, TidyStep, RemembersStep
<1>3. TypeOK /\ Tidy /\ Remembers => ReplyIsMine
  BY DEF ReplyIsMine, Tidy, Remembers, Between
<1>4. QED
  BY <1>1, <1>2, <1>3, PTL DEF Spec

-----------------------------------------------------------------------------
(* The totals                                                              *)

Unpacked(m) == m.fault \notin {"bad prefix", "bad payload"}
Unpack(m) == IF Unpacked(m) THEN HeaderLen + RBody(m) ELSE 0
Payload(f) == IF f = "compressed" THEN PayloadLen ELSE 0
Packed(f) == IF f = "compressed" THEN Body(f) ELSE 0

\* What the requests and the replies add up to, each total by itself.
RequestTotals ==
  /\ traffic.qWire = Sum(Wire, sent)
  /\ traffic.qLogical = Sum(Logical, sent)
  /\ traffic.qPayload = Sum(Payload, sent)
  /\ traffic.qBody = Sum(Packed, sent)
ReplyTotals ==
  /\ traffic.rWire = Sum(RWire, got)
  /\ traffic.rLogical = Sum(Unpack, got)
  /\ traffic.rLogical - traffic.rBody <= traffic.rWire - traffic.rPayload

\* The property is the conjunction of both.
LEMMA TotalsSuffice == ASSUME RequestTotals, ReplyTotals PROVE TrafficAddsUp
  BY DEF RequestTotals, ReplyTotals, TrafficAddsUp, Unpack, Unpacked, Payload, Packed, Sum

\* One more request adds its sizes to the sums, whatever its form.
LEMMA RequestAdds ==
  ASSUME NEW s \in Seq(Forms), NEW f \in Forms
  PROVE  LET t == Append(s, f)
         IN /\ Sum(Wire, t) = Sum(Wire, s) + Wire(f)
            /\ Sum(Logical, t) = Sum(Logical, s) + Logical(f)
            /\ Sum(Payload, t) = Sum(Payload, s) + Payload(f)
            /\ Sum(Packed, t) = Sum(Packed, s) + Packed(f)
<1> DEFINE t == Append(s, f)
<1>1. /\ t \in Seq(Forms) /\ Len(t) = Len(s) + 1 /\ t[Len(t)] = f /\ Len(s) \in Nat
      /\ \A i \in 1 .. Len(s) : t[i] = s[i]
      /\ DOMAIN s = 1 .. Len(s) /\ DOMAIN t = 1 .. Len(t)
  BY AppendProperties
<1>2. \A x : Wire(x) \in Nat /\ Logical(x) \in Nat /\ Payload(x) \in Nat /\ Packed(x) \in Nat
  BY SizeTypes DEF Payload, Packed, PayloadLen
<1> HIDE DEF t
<1>3. Sum(Wire, t) = Sum(Wire, s) + Wire(f)
  <2> DEFINE h == [i \in DOMAIN s |-> Wire(s[i])]
             k == [i \in DOMAIN t |-> Wire(t[i])]
  <2>1. h \in Seq(Nat) /\ k \in Seq(Nat) /\ Len(h) = Len(s) /\ Len(k) = Len(t)
    BY <1>1, <1>2, IsASeq, LenProperties
  <2>2. (\A i \in 1 .. Len(s) : k[i] = h[i]) /\ k[Len(t)] = Wire(f)
    BY <1>1
  <2>3. Sum(Wire, t) = Total(k) /\ Sum(Wire, s) = Total(h)
    BY DEF Sum
  <2> HIDE DEF h, k
  <2>4. QED
    BY <1>1, <2>1, <2>2, <2>3, TotalExtends
<1>4. Sum(Logical, t) = Sum(Logical, s) + Logical(f)
  <2> DEFINE h == [i \in DOMAIN s |-> Logical(s[i])]
             k == [i \in DOMAIN t |-> Logical(t[i])]
  <2>1. h \in Seq(Nat) /\ k \in Seq(Nat) /\ Len(h) = Len(s) /\ Len(k) = Len(t)
    BY <1>1, <1>2, IsASeq, LenProperties
  <2>2. (\A i \in 1 .. Len(s) : k[i] = h[i]) /\ k[Len(t)] = Logical(f)
    BY <1>1
  <2>3. Sum(Logical, t) = Total(k) /\ Sum(Logical, s) = Total(h)
    BY DEF Sum
  <2> HIDE DEF h, k
  <2>4. QED
    BY <1>1, <2>1, <2>2, <2>3, TotalExtends
<1>5. Sum(Payload, t) = Sum(Payload, s) + Payload(f)
  <2> DEFINE h == [i \in DOMAIN s |-> Payload(s[i])]
             k == [i \in DOMAIN t |-> Payload(t[i])]
  <2>1. h \in Seq(Nat) /\ k \in Seq(Nat) /\ Len(h) = Len(s) /\ Len(k) = Len(t)
    BY <1>1, <1>2, IsASeq, LenProperties
  <2>2. (\A i \in 1 .. Len(s) : k[i] = h[i]) /\ k[Len(t)] = Payload(f)
    BY <1>1
  <2>3. Sum(Payload, t) = Total(k) /\ Sum(Payload, s) = Total(h)
    BY DEF Sum
  <2> HIDE DEF h, k
  <2>4. QED
    BY <1>1, <2>1, <2>2, <2>3, TotalExtends
<1>6. Sum(Packed, t) = Sum(Packed, s) + Packed(f)
  <2> DEFINE h == [i \in DOMAIN s |-> Packed(s[i])]
             k == [i \in DOMAIN t |-> Packed(t[i])]
  <2>1. h \in Seq(Nat) /\ k \in Seq(Nat) /\ Len(h) = Len(s) /\ Len(k) = Len(t)
    BY <1>1, <1>2, IsASeq, LenProperties
  <2>2. (\A i \in 1 .. Len(s) : k[i] = h[i]) /\ k[Len(t)] = Packed(f)
    BY <1>1
  <2>3. Sum(Packed, t) = Total(k) /\ Sum(Packed, s) = Total(h)
    BY DEF Sum
  <2> HIDE DEF h, k
  <2>4. QED
    BY <1>1, <2>1, <2>2, <2>3, TotalExtends
<1>7. QED
  BY <1>3, <1>4, <1>5, <1>6 DEF t

\* One more reply adds its sizes to the sums.
LEMMA ReplyAdds ==
  ASSUME NEW s \in Seq(Message), NEW m \in Message
  PROVE  LET t == Append(s, m)
         IN /\ Sum(RWire, t) = Sum(RWire, s) + RWire(m)
            /\ Sum(Unpack, t) = Sum(Unpack, s) + Unpack(m)
<1> DEFINE t == Append(s, m)
<1>1. /\ t \in Seq(Message) /\ Len(t) = Len(s) + 1 /\ t[Len(t)] = m /\ Len(s) \in Nat
      /\ \A i \in 1 .. Len(s) : t[i] = s[i]
      /\ DOMAIN s = 1 .. Len(s) /\ DOMAIN t = 1 .. Len(t)
  BY AppendProperties
<1>2. \A x \in Message : RWire(x) \in Nat /\ Unpack(x) \in Nat
  BY SizeTypes DEF Unpack, HeaderLen
<1>3. (\A i \in DOMAIN s : s[i] \in Message) /\ (\A i \in DOMAIN t : t[i] \in Message)
  BY <1>1
<1> HIDE DEF t
<1>4. Sum(RWire, t) = Sum(RWire, s) + RWire(m)
  <2> DEFINE h == [i \in DOMAIN s |-> RWire(s[i])]
             k == [i \in DOMAIN t |-> RWire(t[i])]
  <2>1. h \in Seq(Nat) /\ k \in Seq(Nat) /\ Len(h) = Len(s) /\ Len(k) = Len(t)
    BY <1>1, <1>2, <1>3, IsASeq, LenProperties
  <2>2. (\A i \in 1 .. Len(s) : k[i] = h[i]) /\ k[Len(t)] = RWire(m)
    BY <1>1
  <2>3. Sum(RWire, t) = Total(k) /\ Sum(RWire, s) = Total(h)
    BY DEF Sum
  <2> HIDE DEF h, k
  <2>4. QED
    BY <1>1, <2>1, <2>2, <2>3, TotalExtends
<1>5. Sum(Unpack, t) = Sum(Unpack, s) + Unpack(m)
  <2> DEFINE h == [i \in DOMAIN s |-> Unpack(s[i])]
             k == [i \in DOMAIN t |-> Unpack(t[i])]
  <2>1. h \in Seq(Nat) /\ k \in Seq(Nat) /\ Len(h) = Len(s) /\ Len(k) = Len(t)
    BY <1>1, <1>2, <1>3, IsASeq, LenProperties
  <2>2. (\A i \in 1 .. Len(s) : k[i] = h[i]) /\ k[Len(t)] = Unpack(m)
    BY <1>1
  <2>3. Sum(Unpack, t) = Total(k) /\ Sum(Unpack, s) = Total(h)
    BY DEF Sum
  <2> HIDE DEF h, k
  <2>4. QED
    BY <1>1, <2>1, <2>2, <2>3, TotalExtends
<1>6. QED
  BY <1>4, <1>5 DEF t

\* What counting a request and counting a reply change of the totals.
LEMMA CountRequestFields ==
  ASSUME TypeOK, NEW f
  PROVE  LET t == CountRequest(f)
         IN /\ t.qWire = traffic.qWire + Wire(f)
            /\ t.qLogical = traffic.qLogical + Logical(f)
            /\ t.qPayload = traffic.qPayload + Payload(f)
            /\ t.qBody = traffic.qBody + Packed(f)
            /\ t.rWire = traffic.rWire /\ t.rLogical = traffic.rLogical
            /\ t.rPayload = traffic.rPayload /\ t.rBody = traffic.rBody
<1>1. traffic \in [DOMAIN NoTraffic -> Nat]
  BY DEF TypeOK
<1>2. QED
  BY <1>1, TrafficFields DEF CountRequest, Payload, Packed

LEMMA CountReplyFields ==
  ASSUME TypeOK, NEW m \in Message
  PROVE  LET t == CountReply(m)
             u == Unpacked(m) /\ m.compressed
         IN /\ t.rWire = traffic.rWire + RWire(m)
            /\ t.rLogical = traffic.rLogical + Unpack(m)
            /\ t.rPayload = traffic.rPayload + IF u THEN PayloadLen ELSE 0
            /\ t.rBody = traffic.rBody + IF u THEN RBody(m) ELSE 0
            /\ t.qWire = traffic.qWire /\ t.qLogical = traffic.qLogical
            /\ t.qPayload = traffic.qPayload /\ t.qBody = traffic.qBody
<1>1. /\ traffic \in [DOMAIN NoTraffic -> Nat] /\ RBody(m) \in Nat
      /\ traffic.rLogical \in Nat /\ traffic.rPayload \in Nat /\ traffic.rBody \in Nat
  BY SizeTypes, TrafficFields DEF TypeOK
<1>2. CASE ~Unpacked(m)
  <2>1. CountReply(m) = [traffic EXCEPT !.rWire = @ + RWire(m)]
    BY <1>2 DEF CountReply, Unpacked
  <2>2. QED
    BY <1>1, <1>2, <2>1, TrafficFields DEF Unpack
<1>3. CASE Unpacked(m)
  <2> DEFINE p == IF m.compressed THEN PayloadLen ELSE 0
             b == IF m.compressed THEN RBody(m) ELSE 0
             t1 == [traffic EXCEPT !.rWire = @ + RWire(m)]
             t2 == [t1 EXCEPT !.rPayload = @ + p, !.rBody = @ + b]
             t3 == [t2 EXCEPT !.rLogical = @ + HeaderLen + RBody(m)]
  <2>1. CountReply(m) = t3
    BY <1>3 DEF CountReply, Unpacked
  <2>2. traffic.rLogical + HeaderLen + RBody(m) = traffic.rLogical + Unpack(m)
    BY <1>1, <1>3 DEF Unpack, HeaderLen
  <2> HIDE DEF p, b
  <2>3. /\ t3.rWire = traffic.rWire + RWire(m)
        /\ t3.rLogical = traffic.rLogical + HeaderLen + RBody(m)
        /\ t3.rPayload = traffic.rPayload + p /\ t3.rBody = traffic.rBody + b
        /\ t3.qWire = traffic.qWire /\ t3.qLogical = traffic.qLogical
        /\ t3.qPayload = traffic.qPayload /\ t3.qBody = traffic.qBody
    BY <1>1, TrafficFields
  <2> HIDE DEF t3
  <2>4. QED
    BY <1>3, <2>1, <2>2, <2>3 DEF p, b
<1>4. QED
  BY <1>2, <1>3

\* Compression never makes a reply shorter than what is counted of it.
LEMMA ReplySizes ==
  ASSUME NEW m \in Message
  PROVE  LET u == Unpacked(m) /\ m.compressed
         IN Unpack(m) - (IF u THEN RBody(m) ELSE 0) <= RWire(m) - (IF u THEN PayloadLen ELSE 0)
<1>1. CASE m.compressed
  BY <1>1, SizeTypes DEF Unpack, RWire, HeaderLen, PrefixLen, PayloadLen
<1>2. CASE ~m.compressed
  BY <1>2, SizeTypes DEF Unpack, RWire, HeaderLen
<1>3. QED
  BY <1>1, <1>2

\* Steps keep the totals.
LEMMA TotalsStep ==
  ASSUME TypeOK, RequestTotals, ReplyTotals, [Next]_vars
  PROVE  RequestTotals' /\ ReplyTotals'
<1>1. CASE UNCHANGED <<traffic, sent, got>>
  BY <1>1 DEF RequestTotals, ReplyTotals, Sum
<1>2. ASSUME NEW form \in Forms, Run(form) PROVE RequestTotals' /\ ReplyTotals'
  <2>1. /\ traffic' = CountRequest(form) /\ sent' = Append(sent, form) /\ got' = got
        /\ sent \in Seq(Forms)
    BY <1>2 DEF Run, TypeOK
  <2>2. RequestTotals'
    BY <2>1, CountRequestFields, RequestAdds DEF RequestTotals
  <2>3. ReplyTotals'
    BY <2>1, CountRequestFields DEF ReplyTotals, Sum
  <2>4. QED
    BY <2>2, <2>3
<1>3. CASE ReadRest
  <2>1. /\ traffic' = CountReply(head) /\ got' = Append(got, head) /\ sent' = sent
        /\ got \in Seq(Message) /\ head \in Message
    BY <1>3 DEF ReadRest, TypeOK
  <2>2. RequestTotals'
    BY <2>1, CountReplyFields DEF RequestTotals, Sum
  <2>3. traffic'.rWire = Sum(RWire, got') /\ traffic'.rLogical = Sum(Unpack, got')
    BY <2>1, CountReplyFields, ReplyAdds DEF ReplyTotals
  <2>4. /\ traffic.rLogical \in Nat /\ traffic.rBody \in Nat /\ traffic.rWire \in Nat
        /\ traffic.rPayload \in Nat
    BY TrafficFields DEF TypeOK
  <2>5. Unpack(head) \in Nat /\ RWire(head) \in Nat /\ RBody(head) \in Nat /\ PayloadLen \in Nat
    BY <2>1, SizeTypes DEF Unpack, HeaderLen, PayloadLen
  <2>6. traffic'.rLogical - traffic'.rBody <= traffic'.rWire - traffic'.rPayload
    <3> DEFINE u == Unpacked(head) /\ head.compressed
               p == IF u THEN PayloadLen ELSE 0
               b == IF u THEN RBody(head) ELSE 0
    <3>1. p \in Nat /\ b \in Nat
      BY <2>5
    <3>2. /\ traffic'.rWire = traffic.rWire + RWire(head)
          /\ traffic'.rLogical = traffic.rLogical + Unpack(head)
          /\ traffic'.rPayload = traffic.rPayload + p /\ traffic'.rBody = traffic.rBody + b
      BY <2>1, CountReplyFields
    <3>3. Unpack(head) - b <= RWire(head) - p
      BY <2>1, ReplySizes
    <3>4. traffic.rLogical - traffic.rBody <= traffic.rWire - traffic.rPayload
      BY DEF ReplyTotals
    <3> HIDE DEF p, b
    <3>5. QED
      BY <2>4, <2>5, <3>1, <3>2, <3>3, <3>4
  <2>7. QED
    BY <2>2, <2>3, <2>6 DEF ReplyTotals
<1>4. CASE \/ WriteFails \/ ReadReply \/ Answer \/ ReadHeader \/ RestMissing \/ Deadline
           \/ Close \/ PeerCloses \/ Closed \/ UNCHANGED vars
  <2>1. UNCHANGED <<traffic, sent, got>>
    BY <1>4 DEF WriteFails, ReadReply, Answer, ReadHeader, RestMissing, Deadline, Close,
                PeerCloses, Closed, vars
  <2>2. QED
    BY <1>1, <2>1
<1>5. QED
  BY <1>2, <1>3, <1>4 DEF Next

(* The totals of Traffic are the sums over everything that was sent and read, for
   any number of commands and replies and whichever call failed between: no byte is
   counted twice or left out, and what compression saved is never overstated. *)
THEOREM TotalsAddUp == Spec => []TrafficAddsUp
<1>1. Init => RequestTotals /\ ReplyTotals
  <2>1. ASSUME Init PROVE RequestTotals /\ ReplyTotals
    <3>1. sent = << >> /\ got = << >> /\ traffic = NoTraffic
      BY <2>1 DEF Init
    <3>2. << >> \in Seq(Nat) /\ Len(<< >>) = 0
      OBVIOUS
    <3> HIDE DEF Total
    <3>5. Total(<< >>) = 0
      BY <3>2, TotalEmpty
    <3>6. DOMAIN << >> = {}
      OBVIOUS
    <3>3. /\ Sum(Wire, << >>) = 0 /\ Sum(Logical, << >>) = 0 /\ Sum(Payload, << >>) = 0
          /\ Sum(Packed, << >>) = 0 /\ Sum(RWire, << >>) = 0 /\ Sum(Unpack, << >>) = 0
      BY <3>5, <3>6 DEF Sum
    <3>4. QED
      BY <3>1, <3>3 DEF RequestTotals, ReplyTotals, NoTraffic
  <2>2. QED
    BY <2>1
<1>2. TypeOK /\ RequestTotals /\ ReplyTotals /\ [Next]_vars => (RequestTotals /\ ReplyTotals)'
  BY TotalsStep
<1>3. RequestTotals /\ ReplyTotals => TrafficAddsUp
  BY TotalsSuffice
<1>4. QED
  BY <1>1, <1>2, <1>3, ClientTypes, PTL DEF Spec

-----------------------------------------------------------------------------
(* The proxy: the invariant                                                *)

(* Everything a side of a connection has written so far *)
Written(c, d) == arrived[c][d] \o wire[c][d]
Requests(c) == Written(c, "request")
Answers(c) == Written(c, "reply")

(* What a pump has forwarded and not recorded *)
Held(c, d) == IF pump[c][d].stage = "read" THEN << >> ELSE <<pump[c][d].msg>>
InOrder == \A c \in Conns, d \in Dirs : arrived[c][d] = Recorded(messages[c][d]) \o Held(c, d)

(* A record has the command of its message or none; so has the one about to be made. *)
RightName(r) == r.command \in {r.msg.command, Unknown}
Named(s) == \A c \in Conns, d \in Dirs : \A i \in 1 .. Len(s[c][d]) : RightName(s[c][d][i])
AllNamed ==
  /\ Named(messages) /\ Named(report)
  /\ \A c \in Conns, d \in Dirs : pump[c][d].stage = "record" => RightName(pump[c][d])

(* The requests of a connection are numbered from 1, the monitor's are hellos. *)
RequestsNumbered ==
  \A c \in Conns : \A i \in 1 .. Len(Requests(c)) :
    Requests(c)[i].id = i /\ (c = "monitor" => Requests(c)[i].command = "hello")

(* On the workload's connection every reply answers the request of its own number. *)
Answered1(m, i) ==
  /\ i <= Len(Requests("app")) /\ m.first = TRUE /\ m.id = i /\ m.to = i /\ m.request = i
  /\ m.command = Requests("app")[i].command
AnswersMatch ==
  /\ \A i \in 1 .. Len(Answers("app")) : Answered1(Answers("app")[i], i)
  /\ \A i \in 1 .. Len(Answers("monitor")) : Answers("monitor")[i].command = "hello"
OpenIsNext ==
  /\ open["app"].left > 0 =>
       /\ open["app"].left = 1 /\ Len(Answers("app")) + 1 <= Len(Requests("app"))
       /\ open["app"].of = Requests("app")[Len(Answers("app")) + 1]
  /\ open["monitor"].left > 0 => open["monitor"].of.command = "hello"

(* A registered command is that of the request with its number. *)
PendingIsRight ==
  /\ \A p \in pending["app"] : /\ p.id \in 1 .. Len(Requests("app"))
                               /\ p.command = Requests("app")[p.id].command
  /\ \A p \in pending["monitor"] : p.command = "hello"

Exchange == RequestsNumbered /\ AnswersMatch /\ OpenIsNext /\ PendingIsRight
PInv == ProxyTypeOK /\ InOrder /\ AllNamed /\ Exchange

-----------------------------------------------------------------------------
(* Sequences and functions of functions                                    *)

LEMMA Updated ==
  ASSUME NEW S, NEW f \in [Conns -> [Dirs -> S]], NEW c \in Conns, NEW d \in Dirs, NEW x \in S
  PROVE  /\ [f EXCEPT ![c][d] = x] \in [Conns -> [Dirs -> S]]
         /\ [f EXCEPT ![c][d] = x][c][d] = x
         /\ \A k \in Conns, e \in Dirs : k # c \/ e # d => [f EXCEPT ![c][d] = x][k][e] = f[k][e]
OBVIOUS

LEMMA AppendTo ==
  ASSUME NEW S, NEW s \in Seq(S), NEW x \in S
  PROVE  /\ Append(s, x) \in Seq(S) /\ Len(Append(s, x)) = Len(s) + 1
         /\ Append(s, x)[Len(s) + 1] = x
         /\ \A i \in 1 .. Len(s) : Append(s, x)[i] = s[i]
         /\ Append(s, x) = s \o <<x>>
<1>1. /\ Append(s, x) \in Seq(S) /\ Len(Append(s, x)) = Len(s) + 1
      /\ Append(s, x)[Len(s) + 1] = x
      /\ \A i \in 1 .. Len(s) : Append(s, x)[i] = s[i]
  OBVIOUS
<1>2. s \o <<x>> \in Seq(S) /\ Len(s \o <<x>>) = Len(s) + 1
      /\ \A i \in 1 .. Len(s) + 1 : (s \o <<x>>)[i] = IF i <= Len(s) THEN s[i] ELSE x
  <2>1. <<x>> \in Seq(S) /\ Len(<<x>>) = 1 /\ <<x>>[1] = x
    OBVIOUS
  <2> QED BY <2>1, ConcatProperties
<1>3. \A i \in 1 .. Len(s) + 1 : Append(s, x)[i] = (s \o <<x>>)[i]
  BY <1>1, <1>2
<1> QED BY <1>1, <1>2, <1>3, SeqEqual

(* Forwarding the first message of t to the end of s changes neither order nor sum. *)
LEMMA ForwardKeeps ==
  ASSUME NEW S, NEW s \in Seq(S), NEW t \in Seq(S), t # << >>
  PROVE  Append(s, Head(t)) \o Tail(t) = s \o t
<1>1. Head(t) \in S /\ Tail(t) \in Seq(S) /\ t = <<Head(t)>> \o Tail(t)
  <2>1. Head(t) \in S /\ Tail(t) \in Seq(S)
    BY HeadTailProperties
  <2>2. <<Head(t)>> \o Tail(t) \in Seq(S)
    BY <2>1, ConcatProperties
  <2> QED BY <2>1, <2>2
<1>2. Append(s, Head(t)) = s \o <<Head(t)>> /\ <<Head(t)>> \in Seq(S)
  BY <1>1, AppendTo
<1>3. (s \o <<Head(t)>>) \o Tail(t) = s \o (<<Head(t)>> \o Tail(t))
  BY <1>1, <1>2, ConcatAssociative
<1> QED BY <1>1, <1>2, <1>3

LEMMA ConcatAppend ==
  ASSUME NEW S, NEW s \in Seq(S), NEW t \in Seq(S), NEW x \in S
  PROVE  s \o Append(t, x) = Append(s \o t, x)
<1>1. Append(t, x) = t \o <<x>> /\ <<x>> \in Seq(S) /\ s \o t \in Seq(S)
  BY AppendTo, ConcatProperties
<1>2. Append(s \o t, x) = (s \o t) \o <<x>>
  BY <1>1, AppendTo
<1> QED BY <1>1, <1>2, ConcatAssociative

LEMMA RecordedIs ==
  ASSUME NEW s \in Seq(Entry)
  PROVE  /\ Recorded(s) \in Seq(ProxyMessage) /\ Len(Recorded(s)) = Len(s)
         /\ \A i \in 1 .. Len(s) : Recorded(s)[i] = s[i].msg
<1>1. \A i \in 1 .. Len(s) : s[i].msg \in ProxyMessage
  <2>1. \A i \in 1 .. Len(s) : s[i] \in Entry
    BY ElementOfSeq
  <2> QED BY <2>1 DEF Entry
<1>2. DOMAIN s = 1 .. Len(s) /\ Len(s) \in Nat
  OBVIOUS
<1>3. Recorded(s) = [i \in 1 .. Len(s) |-> s[i].msg]
  BY <1>2 DEF Recorded
<1> QED BY <1>1, <1>2, <1>3

LEMMA RecordedAppend ==
  ASSUME NEW s \in Seq(Entry), NEW e \in Entry
  PROVE  Recorded(Append(s, e)) = Recorded(s) \o <<e.msg>>
<1>1. e.msg \in ProxyMessage
  BY DEF Entry
<1>2. Append(s, e) \in Seq(Entry) /\ Len(Append(s, e)) = Len(s) + 1 /\ Append(s, e)[Len(s) + 1] = e
      /\ \A i \in 1 .. Len(s) : Append(s, e)[i] = s[i]
  BY AppendTo
<1>3. Recorded(s) \in Seq(ProxyMessage) /\ Len(Recorded(s)) = Len(s)
      /\ \A i \in 1 .. Len(s) : Recorded(s)[i] = s[i].msg
  BY RecordedIs
<1>4. Recorded(Append(s, e)) \in Seq(ProxyMessage) /\ Len(Recorded(Append(s, e))) = Len(s) + 1
      /\ \A i \in 1 .. Len(s) + 1 : Recorded(Append(s, e))[i] = Append(s, e)[i].msg
  BY <1>2, RecordedIs
<1>5. Append(Recorded(s), e.msg) \in Seq(ProxyMessage) /\ Len(Append(Recorded(s), e.msg)) = Len(s) + 1
      /\ Append(Recorded(s), e.msg)[Len(s) + 1] = e.msg
      /\ \A i \in 1 .. Len(s) : Append(Recorded(s), e.msg)[i] = Recorded(s)[i]
      /\ Append(Recorded(s), e.msg) = Recorded(s) \o <<e.msg>>
  BY <1>1, <1>3, AppendTo
<1>6. Len(s) \in Nat
  OBVIOUS
<1>7. \A i \in 1 .. Len(s) + 1 : Recorded(Append(s, e))[i] = Append(Recorded(s), e.msg)[i]
  <2>1. ASSUME NEW i \in 1 .. Len(s) + 1 PROVE Recorded(Append(s, e))[i] = Append(Recorded(s), e.msg)[i]
    <3>1. CASE i = Len(s) + 1
      BY <1>2, <1>4, <1>5, <3>1
    <3>2. CASE i \in 1 .. Len(s)
      BY <1>2, <1>3, <1>4, <1>5, <3>2
    <3>3. i = Len(s) + 1 \/ i \in 1 .. Len(s)
      BY <1>6
    <3> QED BY <3>1, <3>2, <3>3
  <2> QED BY <2>1
<1> QED BY <1>4, <1>5, <1>7, SeqEqual


-----------------------------------------------------------------------------
(* Steps                                                                   *)

LEMMA Typed ==
  ASSUME ProxyTypeOK
  PROVE  /\ wire \in [Conns -> [Dirs -> Seq(ProxyMessage)]]
         /\ arrived \in [Conns -> [Dirs -> Seq(ProxyMessage)]]
         /\ messages \in [Conns -> [Dirs -> Seq(Entry)]]
         /\ report \in [Conns -> [Dirs -> Seq(Entry)]]
         /\ \A c \in Conns, d \in Dirs :
              /\ wire[c][d] \in Seq(ProxyMessage) /\ arrived[c][d] \in Seq(ProxyMessage)
              /\ messages[c][d] \in Seq(Entry) /\ Written(c, d) \in Seq(ProxyMessage)
              /\ Len(Written(c, d)) = Len(arrived[c][d]) + Len(wire[c][d])
<1>1. /\ wire \in [Conns -> [Dirs -> Seq(ProxyMessage)]]
      /\ arrived \in [Conns -> [Dirs -> Seq(ProxyMessage)]]
      /\ messages \in [Conns -> [Dirs -> Seq(Entry)]]
      /\ report \in [Conns -> [Dirs -> Seq(Entry)]]
  BY DEF ProxyTypeOK
<1>2. \A c \in Conns, d \in Dirs :
        wire[c][d] \in Seq(ProxyMessage) /\ arrived[c][d] \in Seq(ProxyMessage)
        /\ messages[c][d] \in Seq(Entry)
  BY <1>1
<1>3. \A c \in Conns, d \in Dirs : Written(c, d) \in Seq(ProxyMessage)
        /\ Len(Written(c, d)) = Len(arrived[c][d]) + Len(wire[c][d])
  BY <1>2, ConcatProperties DEF Written
<1> QED BY <1>1, <1>2, <1>3

(* Nothing is written and nothing answered or registered: the exchange stays. *)
LEMMA SameExchange ==
  ASSUME Exchange, \A c \in Conns, d \in Dirs : Written(c, d)' = Written(c, d),
         UNCHANGED <<open, pending>>
  PROVE  Exchange'
<1>1. \A c \in Conns : Requests(c)' = Requests(c) /\ Answers(c)' = Answers(c)
  BY DEF Requests, Answers, Dirs
<1>2. Requests("app")' = Requests("app") /\ Answers("app")' = Answers("app")
      /\ Answers("monitor")' = Answers("monitor")
  BY <1>1 DEF Conns
<1>3. RequestsNumbered'
  BY <1>1 DEF Exchange, RequestsNumbered
<1>4. AnswersMatch' /\ OpenIsNext' /\ PendingIsRight'
  BY <1>2 DEF Exchange, AnswersMatch, Answered1, OpenIsNext, PendingIsRight
<1> QED BY <1>3, <1>4 DEF Exchange

(* The pumps and their records stay. *)
LEMMA SameRecords ==
  ASSUME InOrder, AllNamed, UNCHANGED <<messages, pump, arrived, report>>
  PROVE  InOrder' /\ AllNamed'
BY DEF InOrder, Held, AllNamed, Named, RightName, Recorded

LEMMA ProxyInitHolds == ProxyInit => PInv
<1> SUFFICES ASSUME ProxyInit PROVE PInv
  OBVIOUS
<1>1. \A c \in Conns, d \in Dirs :
        /\ wire[c][d] = << >> /\ arrived[c][d] = << >> /\ messages[c][d] = << >>
        /\ report[c][d] = << >> /\ pump[c][d] = Idle
  BY DEF ProxyInit
<1>2. \A c \in Conns : pending[c] = {} /\ open[c] = Nothing
  BY DEF ProxyInit
<1>3. ProxyTypeOK
  <2>1. Len(Commands) \in Nat
    BY CommandsAssumption
  <2>2. wire \in [Conns -> [Dirs -> Seq(ProxyMessage)]] /\ wire \in [Conns -> [Dirs -> Seq(Entry)]]
    BY EmptySeq DEF ProxyInit
  <2>3. arrived = wire /\ messages = wire /\ report = wire
    BY DEF ProxyInit
  <2>4. workload \in 0 .. Len(Commands) /\ breaks \in 0 .. MaxBreaks
    BY <2>1, ProxyBounds DEF ProxyInit
  <2>5. link \in [Conns -> {"new", "open", "closed"}] /\ main = "shake"
    BY DEF ProxyInit
  <2>6. pending \in [Conns -> SUBSET [id : Nat, command : CommandNames]]
    BY DEF ProxyInit
  <2>7. pump \in [Conns -> [Dirs ->
       {Idle} \cup [stage : {"resolve"}, msg : ProxyMessage]
              \cup [stage : {"record"}, msg : ProxyMessage, command : CommandNames]]]
    BY DEF ProxyInit
  <2>8. open \in [Conns -> {Nothing} \cup [left : 0 .. MaxStream, of : ProxyMessage]]
    BY DEF ProxyInit
  <2> QED BY <2>2, <2>3, <2>4, <2>5, <2>6, <2>7, <2>8 DEF ProxyTypeOK
<1>4. << >> \o << >> = << >>
  OBVIOUS
<1>5. \A c \in Conns, d \in Dirs : Written(c, d) = << >>
  BY <1>1, <1>4 DEF Written
<1>6. \A c \in Conns : Len(Requests(c)) = 0 /\ Len(Answers(c)) = 0
  BY <1>5 DEF Requests, Answers, Dirs
<1>7. Exchange
  <2>1. open["app"].left = 0 /\ open["monitor"].left = 0
    BY <1>2 DEF Nothing, Conns
  <2>2. \A c \in Conns : 1 .. Len(Requests(c)) = {} /\ 1 .. Len(Answers(c)) = {}
    BY <1>6
  <2> QED BY <1>2, <2>1, <2>2 DEF Exchange, RequestsNumbered, AnswersMatch, OpenIsNext, PendingIsRight, Conns
<1>8. InOrder
  <2>1. Recorded(<< >>) = << >>
    BY DEF Recorded
  <2>2. Idle.stage = "read"
    BY DEF Idle
  <2> QED BY <1>1, <1>4, <2>1, <2>2 DEF InOrder, Held
<1>9. AllNamed
  <2>1. 1 .. Len(<< >>) = {} /\ Idle.stage # "record"
    BY DEF Idle
  <2> QED BY <1>1, <2>1 DEF AllNamed, Named
<1> QED BY <1>3, <1>7, <1>8, <1>9 DEF PInv


-----------------------------------------------------------------------------
(* The proxy: its steps                                                    *)

(* Nothing moves on a connection. *)
LEMMA WrittenSame ==
  ASSUME UNCHANGED <<wire, arrived>>
  PROVE  \A c \in Conns, d \in Dirs : Written(c, d)' = Written(c, d)
BY DEF Written

(* Connections that open, break or are closed, and main between two commands *)
LEMMA QuietStep ==
  ASSUME PInv, NEW c \in Conns, Relay(c) \/ Break(c) \/ Answered \/ Fatal
  PROVE  PInv'
<1>1. UNCHANGED <<workload, messages, pending, pump, wire, arrived, open, report>>
  BY DEF Relay, Break, Answered, Fatal
<1>2. Exchange'
  BY <1>1, WrittenSame, SameExchange DEF PInv
<1>3. InOrder' /\ AllNamed'
  BY <1>1, SameRecords DEF PInv
<1>4. /\ main' \in {"shake", "send", "wait", "stop", "report", "fatal"}
      /\ link' \in [Conns -> {"new", "open", "closed"}] /\ breaks' \in 0 .. MaxBreaks
  <2>1. /\ link \in [Conns -> {"new", "open", "closed"}] /\ breaks \in 0 .. MaxBreaks
        /\ main \in {"shake", "send", "wait", "stop", "report", "fatal"} /\ MaxBreaks \in Nat
    BY ProxyBounds DEF PInv, ProxyTypeOK
  <2>2. CASE Relay(c)
    BY <2>1, <2>2 DEF Relay
  <2>3. CASE Break(c)
    BY <2>1, <2>3 DEF Break
  <2>4. CASE Answered \/ Fatal
    BY <2>1, <2>4 DEF Answered, Fatal
  <2> QED BY <2>2, <2>3, <2>4
<1>5. ProxyTypeOK'
  BY <1>1, <1>4 DEF PInv, ProxyTypeOK
<1> QED BY <1>2, <1>3, <1>5 DEF PInv

(* The snapshot holds the records made so far, and they are rightly named. *)
LEMMA SnapshotStep ==
  ASSUME PInv, Snapshot
  PROVE  PInv'
<1>1. /\ UNCHANGED <<workload, messages, pending, pump, wire, arrived, open, breaks>>
      /\ report' = messages /\ main' = "report" /\ link' = [c \in Conns |-> "closed"]
  BY DEF Snapshot
<1>2. Exchange'
  BY <1>1, WrittenSame, SameExchange DEF PInv
<1>3. InOrder'
  BY <1>1 DEF PInv, InOrder, Held, Recorded
<1>4. AllNamed'
  BY <1>1 DEF PInv, AllNamed, Named, RightName
<1>5. ProxyTypeOK'
  BY <1>1 DEF PInv, ProxyTypeOK
<1> QED BY <1>2, <1>3, <1>4, <1>5 DEF PInv

(* A side of a connection writes one more message. *)
Writes(c, d, m) == wire' = [wire EXCEPT ![c][d] = Append(@, m)] /\ UNCHANGED arrived

LEMMA OneMore ==
  ASSUME ProxyTypeOK, NEW c \in Conns, NEW d \in Dirs, NEW m \in ProxyMessage,
         Writes(c, d, m)
  PROVE  /\ Written(c, d)' = Append(Written(c, d), m)
         /\ Len(Written(c, d)') = Len(Written(c, d)) + 1
         /\ Written(c, d)'[Len(Written(c, d)) + 1] = m
         /\ \A i \in 1 .. Len(Written(c, d)) : Written(c, d)'[i] = Written(c, d)[i]
         /\ Len(Written(c, d)) \in Nat
         /\ \A k \in Conns, e \in Dirs : k # c \/ e # d => Written(k, e)' = Written(k, e)
         /\ wire' \in [Conns -> [Dirs -> Seq(ProxyMessage)]]
<1>1. /\ wire \in [Conns -> [Dirs -> Seq(ProxyMessage)]]
      /\ wire[c][d] \in Seq(ProxyMessage) /\ arrived[c][d] \in Seq(ProxyMessage)
      /\ Written(c, d) \in Seq(ProxyMessage)
  BY Typed
<1>2. Append(wire[c][d], m) \in Seq(ProxyMessage)
  BY <1>1, AppendTo
<1>3. wire' = [wire EXCEPT ![c][d] = Append(wire[c][d], m)] /\ arrived' = arrived
  BY DEF Writes
<1>4. /\ wire' \in [Conns -> [Dirs -> Seq(ProxyMessage)]]
      /\ wire'[c][d] = Append(wire[c][d], m)
      /\ \A k \in Conns, e \in Dirs : k # c \/ e # d => wire'[k][e] = wire[k][e]
  BY <1>1, <1>2, <1>3
<1>5. Written(c, d)' = Append(Written(c, d), m)
  <2>1. Written(c, d)' = arrived[c][d] \o Append(wire[c][d], m)
    BY <1>3, <1>4 DEF Written
  <2>2. ASSUME NEW s \in Seq(ProxyMessage), NEW t \in Seq(ProxyMessage)
        PROVE  s \o Append(t, m) = Append(s \o t, m)
    BY ConcatAppend
  <2>3. arrived[c][d] \o Append(wire[c][d], m) = Append(arrived[c][d] \o wire[c][d], m)
    BY <1>1, <2>2
  <2> QED BY <2>1, <2>3 DEF Written
<1>6. \A k \in Conns, e \in Dirs : k # c \/ e # d => Written(k, e)' = Written(k, e)
  BY <1>3, <1>4 DEF Written
<1>7. Len(Written(c, d)) \in Nat
  BY <1>1
<1> QED BY <1>1, <1>4, <1>5, <1>6, <1>7, AppendTo

(* A client asks: the request gets the next number of its connection. *)
LEMMA Asks ==
  ASSUME PInv, NEW c \in Conns, NEW k \in CommandNames, c = "monitor" => k = "hello",
         workload' \in 0 .. Len(Commands), Write(Request(c, k)),
         main' \in {"shake", "send", "wait", "stop", "report", "fatal"},
         UNCHANGED <<messages, pending, link, pump, arrived, open, breaks, report>>
  PROVE  PInv'
<1> DEFINE m == Request(c, k)
           L == Len(Requests(c))
<1>1. ProxyTypeOK /\ Exchange
  BY DEF PInv
<1>2. /\ Written(c, "request") \in Seq(ProxyMessage)
      /\ Sent(c, "request") = Len(Written(c, "request")) /\ Len(Written(c, "request")) \in Nat
  <2>1. /\ Written(c, "request") \in Seq(ProxyMessage)
        /\ Len(Written(c, "request")) = Len(arrived[c]["request"]) + Len(wire[c]["request"])
    BY <1>1, Typed DEF Dirs
  <2>2. Len(Written(c, "request")) \in Nat
    BY <2>1, LenProperties
  <2> QED BY <2>1, <2>2 DEF Sent
<1>3. /\ m \in ProxyMessage /\ m.conn = c /\ m.dir = "request" /\ m.id = L + 1 /\ m.command = k
  <2>1. workload' \in Nat
    BY CommandsAssumption
  <2> QED BY <1>2, <2>1 DEF Request, ProxyMessage, Requests
<1>4. Writes(c, "request", m)
  BY <1>3 DEF Write, Writes
<1>5. /\ Len(Requests(c)') = L + 1 /\ Requests(c)'[L + 1] = m /\ L \in Nat
      /\ \A i \in 1 .. L : Requests(c)'[i] = Requests(c)[i]
      /\ \A b \in Conns, e \in Dirs : b # c \/ e # "request" => Written(b, e)' = Written(b, e)
      /\ wire' \in [Conns -> [Dirs -> Seq(ProxyMessage)]]
  <2> HIDE DEF m
  <2> "request" \in Dirs
    BY DEF Dirs
  <2>1. /\ Len(Written(c, "request")') = Len(Written(c, "request")) + 1
        /\ Written(c, "request")'[Len(Written(c, "request")) + 1] = m
        /\ Len(Written(c, "request")) \in Nat
        /\ \A i \in 1 .. Len(Written(c, "request")) : Written(c, "request")'[i] = Written(c, "request")[i]
        /\ \A b \in Conns, e \in Dirs : b # c \/ e # "request" => Written(b, e)' = Written(b, e)
        /\ wire' \in [Conns -> [Dirs -> Seq(ProxyMessage)]]
    BY <1>1, <1>3, <1>4, OneMore
  <2> QED BY <2>1 DEF Requests
<1> HIDE DEF m
<1>6. ProxyTypeOK'
  BY <1>1, <1>5 DEF ProxyTypeOK
<1>7. InOrder' /\ AllNamed'
  BY SameRecords DEF PInv
<1>8. \A b \in Conns : Answers(b)' = Answers(b) /\ (b # c => Requests(b)' = Requests(b))
  BY <1>5 DEF Answers, Requests, Dirs
<1>9. RequestsNumbered'
  <2>1. SUFFICES ASSUME NEW b \in Conns, NEW i \in 1 .. Len(Requests(b)')
                 PROVE  Requests(b)'[i].id = i /\ (b = "monitor" => Requests(b)'[i].command = "hello")
    BY DEF RequestsNumbered
  <2>2. CASE b # c
    BY <1>1, <1>8, <2>2 DEF Exchange, RequestsNumbered
  <2>3. CASE b = c /\ i = L + 1
    BY <1>3, <1>5, <2>3
  <2>4. CASE b = c /\ i \in 1 .. L
    BY <1>1, <1>5, <2>4 DEF Exchange, RequestsNumbered
  <2>5. b # c \/ (b = c /\ i = L + 1) \/ (b = c /\ i \in 1 .. L)
    <3>1. b = c => i \in 1 .. L + 1
      BY <1>5
    <3> QED BY <1>5, <3>1
  <2> QED BY <2>2, <2>3, <2>4, <2>5
<1>10. /\ Len(Requests("app")) \in Nat /\ Len(Requests("app")') \in Nat
       /\ Len(Requests("app")') >= Len(Requests("app"))
       /\ \A i \in 1 .. Len(Requests("app")) : Requests("app")'[i] = Requests("app")[i]
  <2>1. Len(Requests("app")) \in Nat
    BY <1>1, Typed DEF Requests, Conns, Dirs
  <2> QED BY <2>1, <1>5, <1>8 DEF Conns
<1>11. Answers("app")' = Answers("app") /\ Answers("monitor")' = Answers("monitor")
       /\ Len(Answers("app")) \in Nat
  BY <1>1, <1>8, Typed DEF Conns, Answers, Dirs
<1>12. AnswersMatch' /\ OpenIsNext' /\ PendingIsRight'
  <2>1. AnswersMatch'
    BY <1>1, <1>10, <1>11 DEF Exchange, AnswersMatch, Answered1
  <2>2. OpenIsNext'
    BY <1>1, <1>10, <1>11 DEF Exchange, OpenIsNext
  <2>3. PendingIsRight'
    BY <1>1, <1>10 DEF Exchange, PendingIsRight
  <2> QED BY <2>1, <2>2, <2>3
<1> QED BY <1>6, <1>7, <1>9, <1>12 DEF PInv, Exchange

LEMMA AskStep ==
  ASSUME PInv, Handshake \/ RunWorkload \/ MonitorHello
  PROVE  PInv'
<1>1. workload \in 0 .. Len(Commands) /\ Len(Commands) \in Nat
      /\ main \in {"shake", "send", "wait", "stop", "report", "fatal"}
  BY CommandsAssumption DEF PInv, ProxyTypeOK
<1>2. CASE Handshake
  <2>1. /\ workload' = workload /\ Write(Request("app", "hello")) /\ main' = "wait"
        /\ UNCHANGED <<messages, pending, link, pump, arrived, open, breaks, report>>
    BY <1>2 DEF Handshake
  <2>2. workload' \in 0 .. Len(Commands)
        /\ main' \in {"shake", "send", "wait", "stop", "report", "fatal"}
    BY <1>1, <2>1
  <2>3. "app" \in Conns /\ "hello" \in CommandNames
    BY DEF Conns, CommandNames
  <2> QED BY <2>1, <2>2, <2>3, Asks
<1>3. CASE RunWorkload
  <2>1. workload' \in 1 .. Len(Commands)
    BY <1>1, <1>3 DEF RunWorkload
  <2>2. Commands[workload'] \in CommandNames
    <3>1. DOMAIN Commands = 1 .. Len(Commands)
      BY CommandsAssumption
    <3> QED BY <2>1, <3>1 DEF CommandNames, Range
  <2>3. /\ Write(Request("app", Commands[workload'])) /\ main' = "wait"
        /\ UNCHANGED <<messages, pending, link, pump, arrived, open, breaks, report>>
    BY <1>3 DEF RunWorkload
  <2>4. "app" \in Conns /\ workload' \in 0 .. Len(Commands)
        /\ main' \in {"shake", "send", "wait", "stop", "report", "fatal"}
        /\ ("app" = "monitor" => Commands[workload'] = "hello")
    BY <1>1, <2>1, <2>3 DEF Conns
  <2> QED BY <2>2, <2>3, <2>4, Asks
<1>4. CASE MonitorHello
  <2>1. /\ workload' = workload /\ Write(Request("monitor", "hello")) /\ main' = main
        /\ UNCHANGED <<messages, pending, link, pump, arrived, open, breaks, report>>
    BY <1>4 DEF MonitorHello
  <2>2. workload' \in 0 .. Len(Commands)
        /\ main' \in {"shake", "send", "wait", "stop", "report", "fatal"}
    BY <1>1, <2>1
  <2>3. "monitor" \in Conns /\ "hello" \in CommandNames
    BY DEF Conns, CommandNames
  <2> QED BY <2>1, <2>2, <2>3, Asks
<1> QED BY <1>2, <1>3, <1>4


(* What a side wrote is what its receiver got and what is under way. *)
LEMMA RangeOfBoth ==
  ASSUME NEW S, NEW s \in Seq(S), NEW t \in Seq(S)
  PROVE  Range(t) \cup Range(s) = {(s \o t)[i] : i \in 1 .. Len(s \o t)}
<1>1. Len(s) \in Nat /\ Len(t) \in Nat /\ DOMAIN s = 1 .. Len(s) /\ DOMAIN t = 1 .. Len(t)
  OBVIOUS
<1>2. /\ Len(s \o t) = Len(s) + Len(t)
      /\ \A i \in 1 .. Len(s) + Len(t) : (s \o t)[i] = IF i <= Len(s) THEN s[i] ELSE t[i - Len(s)]
  BY ConcatProperties
<1>3. ASSUME NEW x \in Range(t) \cup Range(s)
      PROVE  \E i \in 1 .. Len(s \o t) : x = (s \o t)[i]
  <2>1. CASE x \in Range(s)
    <3>1. PICK i \in 1 .. Len(s) : x = s[i]
      BY <1>1, <2>1 DEF Range
    <3>2. i \in 1 .. Len(s \o t) /\ (s \o t)[i] = s[i]
      BY <1>1, <1>2
    <3> QED BY <3>1, <3>2
  <2>2. CASE x \in Range(t)
    <3>1. PICK i \in 1 .. Len(t) : x = t[i]
      BY <1>1, <2>2 DEF Range
    <3>2. i + Len(s) \in 1 .. Len(s \o t) /\ (s \o t)[i + Len(s)] = t[i]
      BY <1>1, <1>2
    <3> QED BY <3>1, <3>2
  <2> QED BY <1>3, <2>1, <2>2
<1>4. ASSUME NEW i \in 1 .. Len(s \o t)
      PROVE  (s \o t)[i] \in Range(t) \cup Range(s)
  <2>1. CASE i \in 1 .. Len(s)
    <3>1. (s \o t)[i] = s[i]
      BY <1>1, <1>2, <2>1
    <3> QED BY <1>1, <2>1, <3>1 DEF Range
  <2>2. CASE i \notin 1 .. Len(s)
    <3>1. i - Len(s) \in 1 .. Len(t) /\ (s \o t)[i] = t[i - Len(s)]
      BY <1>1, <1>2, <2>2
    <3> QED BY <1>1, <3>1 DEF Range
  <2> QED BY <2>1, <2>2
<1> QED BY <1>3, <1>4

(* The replies that open an answer *)
Firsts(c) == {m \in Range(wire[c]["reply"]) \cup Range(arrived[c]["reply"]) : m.first}

LEMMA FirstsCounted ==
  ASSUME PInv, NEW c \in Conns
  PROVE  /\ IsFiniteSet(Firsts(c)) /\ Cardinality(Firsts(c)) \in Nat
         /\ c = "app" => Cardinality(Firsts(c)) = Len(Answers("app"))
<1> DEFINE A == Answers(c)
           L == Len(A)
           T == {A[i] : i \in 1 .. L}
           f == [i \in 1 .. L |-> A[i]]
<1>1. /\ wire[c]["reply"] \in Seq(ProxyMessage) /\ arrived[c]["reply"] \in Seq(ProxyMessage)
      /\ A \in Seq(ProxyMessage) /\ L \in Nat
  <2>1. "reply" \in Dirs /\ ProxyTypeOK
    BY DEF Dirs, PInv
  <2>2. /\ wire[c]["reply"] \in Seq(ProxyMessage) /\ arrived[c]["reply"] \in Seq(ProxyMessage)
        /\ Written(c, "reply") \in Seq(ProxyMessage)
    BY <2>1, Typed
  <2>3. Len(Written(c, "reply")) \in Nat
    BY <2>2, LenProperties
  <2> QED BY <2>2, <2>3 DEF Answers
<1>2. Range(wire[c]["reply"]) \cup Range(arrived[c]["reply"]) = T
  BY <1>1, RangeOfBoth DEF Answers, Written
<1>3. IsFiniteSet(1 .. L) /\ Cardinality(1 .. L) = L
  <2>1. 1 \in Int /\ L \in Int
    BY <1>1
  <2>2. Cardinality(1 .. L) = (IF 1 > L THEN 0 ELSE L - 1 + 1) /\ IsFiniteSet(1 .. L)
    BY <2>1, FS_Interval
  <2> QED BY <1>1, <2>2
<1>4. f \in Surjection(1 .. L, T)
  BY DEF Surjection
<1>5. IsFiniteSet(T)
  <2> HIDE DEF T, f
  <2> QED BY <1>3, <1>4, FS_Surjection
<1>6. IsFiniteSet(Firsts(c)) /\ Cardinality(Firsts(c)) \in Nat
  <2>1. Firsts(c) \in SUBSET T
    BY <1>2 DEF Firsts
  <2> HIDE DEF T
  <2>2. IsFiniteSet(Firsts(c))
    BY <1>5, <2>1, FS_Subset
  <2> QED BY <2>2, FS_CardinalityType
<1>7. ASSUME c = "app" PROVE Cardinality(Firsts(c)) = L
  <2>1. \A i \in 1 .. L : A[i].first = TRUE /\ A[i].id = i
    BY <1>7 DEF PInv, Exchange, AnswersMatch, Answered1
  <2>2. Firsts(c) = T
    BY <1>2, <2>1 DEF Firsts
  <2>3. f \in Injection(1 .. L, T)
    <3>1. f \in [1 .. L -> T]
      OBVIOUS
    <3>2. \A i, j \in 1 .. L : f[i] = f[j] => i = j
      BY <2>1
    <3> HIDE DEF f, T
    <3>3. IsInjective(f)
      BY <3>1, <3>2 DEF IsInjective
    <3> QED BY <3>1, <3>3 DEF Injection
  <2> HIDE DEF T, f
  <2>4. Cardinality(T) = Cardinality(1 .. L)
    BY <1>3, <1>4, <2>3, FS_Surjection
  <2> QED BY <1>3, <2>2, <2>4
<1> QED BY <1>6, <1>7

(* The next request in turn is the one that the target answers next. *)
LEMMA AcceptStep ==
  ASSUME PInv, NEW c \in Conns, NEW n \in 1 .. MaxStream, Accepts(c, n)
  PROVE  PInv'
<1> DEFINE asked == Cardinality(Firsts(c))
<1>1. /\ UNCHANGED <<workload, messages, pending, link, pump, wire, arrived, main, breaks, report>>
      /\ asked < Len(arrived[c]["request"]) /\ (c = "app" => n = 1)
      /\ open' = [open EXCEPT ![c] = [left |-> n, of |-> arrived[c]["request"][asked + 1]]]
  BY DEF Accepts, Firsts
<1>2. InOrder' /\ AllNamed'
  BY <1>1, SameRecords DEF PInv
<1>3. asked \in Nat /\ (c = "app" => asked = Len(Answers("app")))
  BY FirstsCounted
<1> HIDE DEF asked
<1> DEFINE q == arrived[c]["request"][asked + 1]
<1>4. /\ arrived[c]["request"] \in Seq(ProxyMessage) /\ wire[c]["request"] \in Seq(ProxyMessage)
      /\ ProxyTypeOK /\ open \in [Conns -> {Nothing} \cup [left : 0 .. MaxStream, of : ProxyMessage]]
  <2>1. ProxyTypeOK /\ "request" \in Dirs
    BY DEF PInv, Dirs
  <2> QED BY <2>1, Typed DEF ProxyTypeOK
<1>5. asked + 1 \in 1 .. Len(arrived[c]["request"]) /\ Len(arrived[c]["request"]) \in Nat
      /\ Len(wire[c]["request"]) \in Nat
  BY <1>1, <1>3, <1>4
<1>6. q \in ProxyMessage
  BY <1>4, <1>5, ElementOfSeq
<1>7. asked + 1 \in 1 .. Len(Requests(c)) /\ Requests(c)[asked + 1] = q
  <2>1. Len(arrived[c]["request"] \o wire[c]["request"])
          = Len(arrived[c]["request"]) + Len(wire[c]["request"])
        /\ \A i \in 1 .. Len(arrived[c]["request"]) + Len(wire[c]["request"]) :
             (arrived[c]["request"] \o wire[c]["request"])[i]
               = IF i <= Len(arrived[c]["request"]) THEN arrived[c]["request"][i]
                 ELSE wire[c]["request"][i - Len(arrived[c]["request"])]
    BY <1>4, ConcatProperties
  <2>2. asked + 1 \in 1 .. Len(arrived[c]["request"]) + Len(wire[c]["request"])
        /\ asked + 1 <= Len(arrived[c]["request"])
    <3>1. ASSUME NEW k \in Int, NEW a \in Nat, NEW b \in Nat, k \in 1 .. a
          PROVE  k \in 1 .. a + b /\ k <= a
      BY <3>1
    <3>2. asked + 1 \in Int
      BY <1>3
    <3> QED BY <1>5, <3>1, <3>2
  <2>3. (arrived[c]["request"] \o wire[c]["request"])[asked + 1] = arrived[c]["request"][asked + 1]
    BY <2>1, <2>2
  <2> QED BY <2>1, <2>2, <2>3 DEF Requests, Written
<1> HIDE DEF q
<1>8. /\ open'[c] = [left |-> n, of |-> q] /\ \A b \in Conns : b # c => open'[b] = open[b]
      /\ open' \in [Conns -> {Nothing} \cup [left : 0 .. MaxStream, of : ProxyMessage]]
  <2>1. open' = [open EXCEPT ![c] = [left |-> n, of |-> q]]
    BY <1>1 DEF q
  <2>2. n \in 0 .. MaxStream
    BY ProxyBounds
  <2>3. [left |-> n, of |-> q] \in [left : 0 .. MaxStream, of : ProxyMessage]
    BY <1>6, <2>2
  <2> QED BY <1>4, <2>1, <2>3
<1>9. ProxyTypeOK'
  BY <1>1, <1>4, <1>8 DEF ProxyTypeOK
<1>10. \A b \in Conns : Requests(b)' = Requests(b) /\ Answers(b)' = Answers(b)
  BY <1>1, WrittenSame DEF Requests, Answers, Dirs
<1>11. Requests("app")' = Requests("app") /\ Answers("app")' = Answers("app")
       /\ Answers("monitor")' = Answers("monitor")
  BY <1>10 DEF Conns
<1>12. OpenIsNext'
  <2>1. CASE c = "app"
    <3>1. n = 1 /\ asked = Len(Answers("app"))
      BY <1>1, <1>3, <2>1
    <3>2. open'["app"].left = 1 /\ open'["app"].of = q /\ open'["monitor"] = open["monitor"]
      BY <1>8, <2>1, <3>1 DEF Conns
    <3>3. Len(Answers("app")) + 1 <= Len(Requests("app")) /\ q = Requests("app")[Len(Answers("app")) + 1]
      BY <1>7, <2>1, <3>1
    <3>4. open["monitor"].left > 0 => open["monitor"].of.command = "hello"
      BY DEF PInv, Exchange, OpenIsNext
    <3> QED BY <1>11, <3>2, <3>3, <3>4 DEF OpenIsNext
  <2>2. CASE c = "monitor"
    <3>1. open'["app"] = open["app"] /\ open'["monitor"].of = q
      BY <1>8, <2>2 DEF Conns
    <3>2. q.command = "hello"
      BY <1>7, <2>2 DEF PInv, Exchange, RequestsNumbered
    <3> QED BY <1>11, <3>1, <3>2 DEF OpenIsNext, PInv, Exchange
  <2> QED BY <2>1, <2>2 DEF Conns
<1>13. RequestsNumbered'
  BY <1>10 DEF PInv, Exchange, RequestsNumbered
<1>14. AnswersMatch' /\ PendingIsRight'
  BY <1>1, <1>11 DEF PInv, Exchange, AnswersMatch, Answered1, PendingIsRight
<1> QED BY <1>2, <1>9, <1>12, <1>13, <1>14 DEF PInv, Exchange


(* The target replies: on the workload's connection to the request of that number,
   on the monitor's with one more hello. *)
LEMMA ReplyStep ==
  ASSUME PInv, NEW c \in Conns, Reply(c)
  PROVE  PInv'
<1> DEFINE q == open[c].of
           before == arrived[c]["reply"] \o wire[c]["reply"]
           held == {m \in Range(before) : m.request = q.id}
           m == [conn |-> c, dir |-> "reply", id |-> Len(before) + 1, first |-> held = {},
                 to |-> IF held = {} THEN q.id ELSE Len(before),
                 request |-> q.id, command |-> q.command, under |-> q.under]
           L == Len(Answers(c))
<1>1. /\ UNCHANGED <<workload, messages, pending, link, pump, arrived, main, breaks, report>>
      /\ open[c].left > 0
      /\ wire' = [wire EXCEPT ![c]["reply"] = Append(@, m)]
      /\ open' = [open EXCEPT ![c].left = @ - 1]
  BY DEF Reply
<1>2. InOrder' /\ AllNamed'
  BY <1>1, SameRecords DEF PInv
<1>3. /\ ProxyTypeOK /\ Exchange /\ "reply" \in Dirs
      /\ open \in [Conns -> {Nothing} \cup [left : 0 .. MaxStream, of : ProxyMessage]]
      /\ MaxStream \in Nat
  BY ProxyBounds DEF PInv, ProxyTypeOK, Dirs
<1>4. before = Answers(c) /\ before \in Seq(ProxyMessage) /\ L \in Nat
  <2>1. before = Answers(c)
    BY DEF Answers, Written
  <2>2. Written(c, "reply") \in Seq(ProxyMessage)
    BY <1>3, Typed
  <2> QED BY <2>1, <2>2 DEF Answers
<1>5. open[c] \in [left : 0 .. MaxStream, of : ProxyMessage]
  BY <1>1, <1>3 DEF Nothing
<1>6. q \in ProxyMessage /\ open[c].left \in 1 .. MaxStream
  BY <1>1, <1>3, <1>5
<1>7. /\ q.id \in Nat /\ q.command \in CommandNames /\ q.under \in Nat
  BY <1>6 DEF ProxyMessage
<1>8. m \in ProxyMessage
  <2>1. m.id \in Nat /\ m.to \in Nat /\ m.first \in BOOLEAN
    BY <1>4, <1>7
  <2> QED BY <1>4, <1>7 DEF ProxyMessage
<1>9. m.id = L + 1 /\ m.command = q.command /\ m.request = q.id
      /\ (held = {} => m.to = q.id /\ m.first = TRUE)
  BY <1>4
<1>10. c = "app" => held = {} /\ q.id = L + 1
  <2> SUFFICES ASSUME c = "app" PROVE held = {} /\ q.id = L + 1
    OBVIOUS
  <2>1. q = Requests("app")[L + 1] /\ L + 1 \in 1 .. Len(Requests("app"))
    <3>1. Written("app", "request") \in Seq(ProxyMessage)
      BY <1>3, Typed DEF Dirs
    <3>2. Len(Requests("app")) \in Nat
      BY <3>1 DEF Requests
    <3> QED BY <1>1, <1>3, <1>4, <3>2 DEF Exchange, OpenIsNext
  <2>2. q.id = L + 1
    BY <1>3, <2>1 DEF Exchange, RequestsNumbered
  <2>3. \A x \in Range(before) : x.request # L + 1
    <3>1. DOMAIN before = 1 .. L
      BY <1>4
    <3>2. \A i \in 1 .. L : before[i].request = i /\ i # L + 1
      BY <1>3, <1>4 DEF Exchange, AnswersMatch, Answered1
    <3>3. ASSUME NEW x \in Range(before) PROVE x.request # L + 1
      <4>1. PICK i \in DOMAIN before : x = before[i]
        BY <3>3 DEF Range
      <4>2. i \in 1 .. L
        BY <3>1, <4>1
      <4> QED BY <3>2, <4>1, <4>2
    <3> QED BY <3>3
  <2> QED BY <2>2, <2>3
<1> HIDE DEF m, held
<1>11. Writes(c, "reply", m)
  BY <1>1 DEF Writes
<1>12. /\ Len(Answers(c)') = L + 1 /\ Answers(c)'[L + 1] = m
       /\ \A i \in 1 .. L : Answers(c)'[i] = Answers(c)[i]
       /\ \A b \in Conns, e \in Dirs : b # c \/ e # "reply" => Written(b, e)' = Written(b, e)
       /\ wire' \in [Conns -> [Dirs -> Seq(ProxyMessage)]]
  <2>1. /\ Len(Written(c, "reply")') = Len(Written(c, "reply")) + 1
        /\ Written(c, "reply")'[Len(Written(c, "reply")) + 1] = m
        /\ \A i \in 1 .. Len(Written(c, "reply")) : Written(c, "reply")'[i] = Written(c, "reply")[i]
        /\ \A b \in Conns, e \in Dirs : b # c \/ e # "reply" => Written(b, e)' = Written(b, e)
        /\ wire' \in [Conns -> [Dirs -> Seq(ProxyMessage)]]
    BY <1>3, <1>8, <1>11, OneMore
  <2> QED BY <2>1 DEF Answers
<1>13. /\ open'[c] = [left |-> open[c].left - 1, of |-> q]
       /\ \A b \in Conns : b # c => open'[b] = open[b]
       /\ open' \in [Conns -> {Nothing} \cup [left : 0 .. MaxStream, of : ProxyMessage]]
  <2>1. open'[c] = [open[c] EXCEPT !.left = open[c].left - 1]
        /\ \A b \in Conns : b # c => open'[b] = open[b]
    BY <1>1, <1>3
  <2>2. [open[c] EXCEPT !.left = open[c].left - 1] = [left |-> open[c].left - 1, of |-> q]
    BY <1>5
  <2>3. open[c].left - 1 \in 0 .. MaxStream
    BY <1>3, <1>6
  <2>4. [left |-> open[c].left - 1, of |-> q] \in [left : 0 .. MaxStream, of : ProxyMessage]
    BY <1>6, <2>3
  <2>5. open' = [open EXCEPT ![c] = [left |-> open[c].left - 1, of |-> q]]
    BY <1>1, <2>2
  <2> QED BY <1>3, <2>1, <2>2, <2>4, <2>5
<1>14. ProxyTypeOK'
  <2> HIDE DEF q, before, L
  <2>1. /\ workload \in 0 .. Len(Commands) /\ link \in [Conns -> {"new", "open", "closed"}]
        /\ main \in {"shake", "send", "wait", "stop", "report", "fatal"} /\ breaks \in 0 .. MaxBreaks
        /\ arrived \in [Conns -> [Dirs -> Seq(ProxyMessage)]]
        /\ {messages, report} \subseteq [Conns -> [Dirs -> Seq(Entry)]]
        /\ pending \in [Conns -> SUBSET [id : Nat, command : CommandNames]]
        /\ pump \in [Conns -> [Dirs ->
             {Idle} \cup [stage : {"resolve"}, msg : ProxyMessage]
                    \cup [stage : {"record"}, msg : ProxyMessage, command : CommandNames]]]
    BY <1>3 DEF ProxyTypeOK
  <2> QED BY <1>1, <1>12, <1>13, <2>1 DEF ProxyTypeOK
<1>15. \A b \in Conns : Requests(b)' = Requests(b) /\ (b # c => Answers(b)' = Answers(b))
  BY <1>12 DEF Answers, Requests, Dirs
<1>16. RequestsNumbered'
  BY <1>3, <1>15 DEF Exchange, RequestsNumbered
<1>17. PendingIsRight'
  BY <1>1, <1>3, <1>15 DEF Exchange, PendingIsRight, Conns
<1>18. AnswersMatch' /\ OpenIsNext'
  <2>1. CASE c = "app"
    <3>1. /\ open["app"].left = 1 /\ L + 1 <= Len(Requests("app"))
          /\ q = Requests("app")[L + 1]
      BY <1>1, <1>3, <2>1 DEF Exchange, OpenIsNext
    <3>2. m.to = L + 1 /\ m.first = TRUE /\ m.request = L + 1 /\ m.id = L + 1
      BY <1>9, <1>10, <2>1
    <3>3. open'["app"].left = 0 /\ open'["monitor"] = open["monitor"]
      BY <1>13, <2>1, <3>1 DEF Conns
    <3>4. Requests("app")' = Requests("app") /\ Answers("monitor")' = Answers("monitor")
      BY <1>15, <2>1 DEF Conns
    <3>5. Answered1(m, L + 1)
      BY <1>9, <3>1, <3>2 DEF Answered1
    <3>6. \A i \in 1 .. L : Answered1(Answers("app")[i], i)
      BY <1>3, <2>1 DEF Exchange, AnswersMatch
    <3>7. Len(Answers("app")') = L + 1
          /\ \A i \in 1 .. L + 1 : Answered1(Answers("app")'[i], i)
      <4>1. ASSUME NEW i \in 1 .. L + 1 PROVE Answered1(Answers("app")'[i], i)
        <5>1. i = L + 1 \/ i \in 1 .. L
          BY <1>4
        <5> QED BY <1>12, <2>1, <3>5, <3>6, <5>1
      <4> QED BY <1>12, <2>1, <4>1
    <3>8. AnswersMatch'
      BY <1>3, <3>4, <3>7 DEF Exchange, AnswersMatch, Answered1
    <3>9. OpenIsNext'
      BY <1>3, <3>3 DEF Exchange, OpenIsNext
    <3> QED BY <3>8, <3>9
  <2>2. CASE c = "monitor"
    <3>1. q.command = "hello"
      BY <1>1, <1>3, <2>2 DEF Exchange, OpenIsNext
    <3>2. open'["app"] = open["app"] /\ open'["monitor"].of = q
      BY <1>13, <2>2 DEF Conns
    <3>3. Requests("app")' = Requests("app") /\ Answers("app")' = Answers("app")
      BY <1>15, <2>2 DEF Conns
    <3>4. \A i \in 1 .. Len(Answers("monitor")') : Answers("monitor")'[i].command = "hello"
      <4>1. ASSUME NEW i \in 1 .. L + 1 PROVE Answers("monitor")'[i].command = "hello"
        <5>1. CASE i = L + 1
          BY <1>9, <1>12, <2>2, <3>1, <5>1
        <5>2. CASE i \in 1 .. L
          BY <1>3, <1>12, <2>2, <5>2 DEF Exchange, AnswersMatch
        <5> QED BY <1>4, <5>1, <5>2
      <4> QED BY <1>12, <2>2, <4>1
    <3> QED BY <1>3, <3>1, <3>2, <3>3, <3>4 DEF Exchange, AnswersMatch, Answered1, OpenIsNext
  <2> QED BY <2>1, <2>2 DEF Conns
<1> QED BY <1>2, <1>14, <1>16, <1>17, <1>18 DEF PInv, Exchange


(* The states of a pump *)
PumpStates ==
  {Idle} \cup [stage : {"resolve"}, msg : ProxyMessage]
         \cup [stage : {"record"}, msg : ProxyMessage, command : CommandNames]

LEMMA PumpTyped ==
  ASSUME ProxyTypeOK
  PROVE  /\ pump \in [Conns -> [Dirs -> PumpStates]]
         /\ \A c \in Conns, d \in Dirs :
              /\ pump[c][d] \in PumpStates
              /\ pump[c][d].stage = "resolve" => pump[c][d].msg \in ProxyMessage
              /\ pump[c][d].stage = "record" =>
                   pump[c][d].msg \in ProxyMessage /\ pump[c][d].command \in CommandNames
<1>1. pump \in [Conns -> [Dirs -> PumpStates]]
  BY DEF ProxyTypeOK, PumpStates
<1>2. \A p \in PumpStates : /\ p.stage = "resolve" => p.msg \in ProxyMessage
                            /\ p.stage = "record" => p.msg \in ProxyMessage /\ p.command \in CommandNames
  BY DEF PumpStates, Idle
<1>3. \A c \in Conns, d \in Dirs : pump[c][d] \in PumpStates
  BY <1>1
<1> QED BY <1>1, <1>2, <1>3

(* A pump writes the message on: both sides still have written the same. *)
LEMMA ForwardStep ==
  ASSUME PInv, NEW c \in Conns, NEW d \in Dirs, Forward(c, d)
  PROVE  PInv'
<1> DEFINE h == Head(wire[c][d])
           s == arrived[c][d]
           t == wire[c][d]
<1>1. /\ pump[c][d].stage = "read" /\ t # << >>
      /\ UNCHANGED <<workload, messages, pending, link, main, open, breaks, report>>
      /\ pump' = [pump EXCEPT ![c][d] = [stage |-> "resolve", msg |-> h]]
      /\ arrived' = [arrived EXCEPT ![c][d] = Append(s, h)]
      /\ wire' = [wire EXCEPT ![c][d] = Tail(t)]
  BY DEF Forward
<1>2. ProxyTypeOK /\ Exchange /\ InOrder /\ AllNamed
  BY DEF PInv
<1>3. /\ wire \in [Conns -> [Dirs -> Seq(ProxyMessage)]] /\ arrived \in [Conns -> [Dirs -> Seq(ProxyMessage)]]
      /\ s \in Seq(ProxyMessage) /\ t \in Seq(ProxyMessage) /\ messages[c][d] \in Seq(Entry)
  BY <1>2, Typed
<1>4. h \in ProxyMessage /\ Tail(t) \in Seq(ProxyMessage) /\ Append(s, h) \in Seq(ProxyMessage)
  BY <1>1, <1>3, HeadTailProperties
<1>5. Append(s, h) \o Tail(t) = s \o t
  BY <1>1, <1>3, ForwardKeeps
<1>6. [stage |-> "resolve", msg |-> h] \in PumpStates
  BY <1>4 DEF PumpStates
<1> HIDE DEF h, s, t
<1>7. /\ wire' \in [Conns -> [Dirs -> Seq(ProxyMessage)]] /\ wire'[c][d] = Tail(t)
      /\ \A b \in Conns, e \in Dirs : b # c \/ e # d => wire'[b][e] = wire[b][e]
  BY <1>1, <1>3, <1>4
<1>8. /\ arrived' \in [Conns -> [Dirs -> Seq(ProxyMessage)]] /\ arrived'[c][d] = Append(s, h)
      /\ \A b \in Conns, e \in Dirs : b # c \/ e # d => arrived'[b][e] = arrived[b][e]
  BY <1>1, <1>3, <1>4
<1>9. /\ pump' \in [Conns -> [Dirs -> PumpStates]] /\ pump'[c][d] = [stage |-> "resolve", msg |-> h]
      /\ \A b \in Conns, e \in Dirs : b # c \/ e # d => pump'[b][e] = pump[b][e]
  <2>1. pump \in [Conns -> [Dirs -> PumpStates]]
    BY <1>2, PumpTyped
  <2> QED BY <1>1, <1>6, <2>1
<1>10. \A b \in Conns, e \in Dirs : Written(b, e)' = Written(b, e)
  <2>1. ASSUME NEW b \in Conns, NEW e \in Dirs PROVE Written(b, e)' = Written(b, e)
    <3>1. CASE b = c /\ e = d
      BY <1>5, <1>7, <1>8, <3>1 DEF Written, s, t
    <3>2. CASE b # c \/ e # d
      BY <1>7, <1>8, <3>2 DEF Written
    <3> QED BY <3>1, <3>2
  <2> QED BY <2>1
<1>11. Exchange'
  BY <1>1, <1>2, <1>10, SameExchange
<1>12. ProxyTypeOK'
  BY <1>1, <1>2, <1>7, <1>8, <1>9 DEF ProxyTypeOK, PumpStates
<1>13. InOrder'
  <2>1. ASSUME NEW b \in Conns, NEW e \in Dirs
        PROVE  arrived'[b][e] = Recorded(messages[b][e]) \o Held(b, e)'
    <3>1. CASE b # c \/ e # d
      <4>1. arrived'[b][e] = arrived[b][e] /\ pump'[b][e] = pump[b][e]
        BY <1>8, <1>9, <3>1
      <4>2. Held(b, e)' = Held(b, e)
        BY <4>1 DEF Held
      <4>3. arrived[b][e] = Recorded(messages[b][e]) \o Held(b, e)
        BY <1>2 DEF InOrder
      <4> QED BY <4>1, <4>2, <4>3
    <3>2. CASE b = c /\ e = d
      <4>1. Recorded(messages[c][d]) \in Seq(ProxyMessage)
        BY <1>3, RecordedIs
      <4>2. s = Recorded(messages[c][d]) \o << >>
        BY <1>1, <1>2 DEF InOrder, Held, s
      <4>3. s = Recorded(messages[c][d])
        BY <4>1, <4>2, ConcatEmptySeq
      <4>4. Append(s, h) = s \o <<h>>
        BY <1>3, <1>4, AppendTo
      <4>5. Held(c, d)' = <<h>>
        BY <1>9 DEF Held
      <4> QED BY <1>8, <3>2, <4>3, <4>4, <4>5
    <3> QED BY <3>1, <3>2
  <2>2. messages' = messages
    BY <1>1
  <2> QED BY <2>1, <2>2 DEF InOrder, Recorded
<1>14. AllNamed'
  <2>1. Named(messages)' /\ Named(report)'
    BY <1>1, <1>2 DEF AllNamed, Named, RightName
  <2>2. ASSUME NEW b \in Conns, NEW e \in Dirs, pump'[b][e].stage = "record"
        PROVE  RightName(pump'[b][e])
    <3>1. b # c \/ e # d
      BY <1>9, <2>2
    <3>2. pump'[b][e] = pump[b][e]
      BY <1>9, <3>1
    <3> QED BY <1>2, <2>2, <3>2 DEF AllNamed
  <2> QED BY <2>1, <2>2 DEF AllNamed, RightName
<1> QED BY <1>11, <1>12, <1>13, <1>14 DEF PInv

(* The message a pump holds is one that a side wrote. *)
LEMMA HeldIsWritten ==
  ASSUME PInv, NEW c \in Conns, NEW d \in Dirs, pump[c][d].stage # "read",
         pump[c][d].msg \in ProxyMessage
  PROVE  \E i \in 1 .. Len(Written(c, d)) : Written(c, d)[i] = pump[c][d].msg
<1> DEFINE s == arrived[c][d]
           t == wire[c][d]
           m == pump[c][d].msg
           r == Recorded(messages[c][d])
<1>1. ProxyTypeOK /\ InOrder
  BY DEF PInv
<1>2. s \in Seq(ProxyMessage) /\ t \in Seq(ProxyMessage) /\ messages[c][d] \in Seq(Entry)
  BY <1>1, Typed
<1>3. r \in Seq(ProxyMessage)
  BY <1>2, RecordedIs
<1>4. s = r \o <<m>>
  BY <1>1 DEF InOrder, Held
<1>5. s = Append(r, m)
  BY <1>3, <1>4, AppendTo
<1>6. Len(s) = Len(r) + 1 /\ s[Len(r) + 1] = m /\ Len(r) \in Nat /\ Len(t) \in Nat
  <2> HIDE DEF s, r, m
  <2>1. m \in ProxyMessage
    BY DEF m
  <2> QED BY <1>2, <1>3, <1>5, <2>1, AppendTo
<1> HIDE DEF s, t, m, r
<1>7. /\ Len(s \o t) = Len(s) + Len(t)
      /\ \A i \in 1 .. Len(s) + Len(t) : (s \o t)[i] = IF i <= Len(s) THEN s[i] ELSE t[i - Len(s)]
  BY <1>2, ConcatProperties
<1>8. Len(s) \in 1 .. Len(s \o t) /\ (s \o t)[Len(s)] = m
  BY <1>6, <1>7
<1> QED BY <1>8 DEF Written, s, t, m

(* What a step of pump c, d changes of the records *)
LEMMA Recording ==
  ASSUME PInv, NEW c \in Conns, NEW d \in Dirs, NEW p \in PumpStates,
         pump' = [pump EXCEPT ![c][d] = p], p.stage = "record" => RightName(p)
  PROVE  /\ pump' \in [Conns -> [Dirs -> PumpStates]] /\ pump'[c][d] = p
         /\ \A b \in Conns, e \in Dirs : b # c \/ e # d => pump'[b][e] = pump[b][e]
         /\ \A b \in Conns, e \in Dirs : pump'[b][e].stage = "record" => RightName(pump'[b][e])
<1>1. pump \in [Conns -> [Dirs -> PumpStates]]
  BY PumpTyped DEF PInv
<1>2. /\ pump' \in [Conns -> [Dirs -> PumpStates]] /\ pump'[c][d] = p
      /\ \A b \in Conns, e \in Dirs : b # c \/ e # d => pump'[b][e] = pump[b][e]
  BY <1>1
<1>3. \A b \in Conns, e \in Dirs : pump[b][e].stage = "record" => RightName(pump[b][e])
  BY DEF PInv, AllNamed
<1> HIDE DEF RightName
<1>4. \A b \in Conns, e \in Dirs : pump'[b][e] = p \/ pump'[b][e] = pump[b][e]
  BY <1>2
<1>5. ASSUME NEW b \in Conns, NEW e \in Dirs, pump'[b][e].stage = "record"
      PROVE  RightName(pump'[b][e])
  BY <1>3, <1>4, <1>5
<1> QED BY <1>2, <1>5


(* Resolving registers a request under its own number, and finds for a reply the
   command of the request it answers or none: the two directions of a connection may
   run in any order. *)
LEMMA RightCommand ==
  ASSUME PInv, NEW c \in Conns, pump[c]["reply"].stage = "resolve"
  PROVE  AnyOf(Asked(c, pump[c]["reply"].msg)) \in {pump[c]["reply"].msg.command, Unknown}
<1> DEFINE m == pump[c]["reply"].msg
<1>1. /\ m \in ProxyMessage /\ "reply" \in Dirs /\ ProxyTypeOK
  <2>1. "reply" \in Dirs /\ ProxyTypeOK
    BY DEF PInv, Dirs
  <2> QED BY <2>1, PumpTyped
<1>2. PICK i \in 1 .. Len(Answers(c)) : Answers(c)[i] = m
  <2>1. pump[c]["reply"].stage # "read"
    OBVIOUS
  <2>2. \E i \in 1 .. Len(Written(c, "reply")) : Written(c, "reply")[i] = m
    BY <1>1, <2>1, HeldIsWritten
  <2> QED BY <2>2 DEF Answers
<1> HIDE DEF m
<1>3. \A p \in Asked(c, m) : p.command = m.command
  <2>1. CASE c = "app"
    <3>1. m.to = i /\ m.command = Requests("app")[i].command
      BY <1>2, <2>1 DEF PInv, Exchange, AnswersMatch, Answered1
    <3>2. \A p \in Asked(c, m) : p.id = i /\ p.command = Requests("app")[p.id].command
      BY <2>1, <3>1 DEF Asked, PInv, Exchange, PendingIsRight
    <3> QED BY <3>1, <3>2
  <2>2. CASE c = "monitor"
    BY <1>2, <2>2 DEF Asked, PInv, Exchange, PendingIsRight, AnswersMatch
  <2> QED BY <2>1, <2>2 DEF Conns
<1>4. AnyOf(Asked(c, m)) \in {m.command, Unknown}
  <2>1. CASE Asked(c, m) = {}
    BY <2>1 DEF AnyOf
  <2>2. CASE Asked(c, m) # {}
    <3>1. (CHOOSE x \in Asked(c, m) : TRUE) \in Asked(c, m)
      BY <2>2
    <3> QED BY <1>3, <2>2, <3>1 DEF AnyOf
  <2> QED BY <2>1, <2>2
<1> QED BY <1>4 DEF m

LEMMA Registered ==
  ASSUME PInv, NEW c \in Conns, NEW d \in Dirs, Resolve(c, d)
  PROVE  /\ pending' \in [Conns -> SUBSET [id : Nat, command : CommandNames]]
         /\ \A p \in pending'["app"] : /\ p.id \in 1 .. Len(Requests("app"))
                                       /\ p.command = Requests("app")[p.id].command
         /\ \A p \in pending'["monitor"] : p.command = "hello"
<1> DEFINE m == pump[c][d].msg
           new == [id |-> Key(m), command |-> m.command]
<1>1. ProxyTypeOK /\ pending \in [Conns -> SUBSET [id : Nat, command : CommandNames]]
      /\ pump[c][d].stage = "resolve"
  BY DEF PInv, ProxyTypeOK, Resolve
<1>2. m \in ProxyMessage
  BY <1>1, PumpTyped
<1>3. new \in [id : Nat, command : CommandNames] /\ new.id = m.id /\ new.command = m.command
  BY <1>2 DEF ProxyMessage, Key
<1>4. PICK i \in 1 .. Len(Written(c, d)) : Written(c, d)[i] = m
  <2>1. pump[c][d].stage # "read"
    BY <1>1
  <2> QED BY <1>2, <2>1, HeldIsWritten
<1>5. d = "request" => /\ c = "app" => new.id \in 1 .. Len(Requests("app"))
                                       /\ new.command = Requests("app")[new.id].command
                       /\ c = "monitor" => new.command = "hello"
  BY <1>3, <1>4 DEF PInv, Exchange, RequestsNumbered, Requests
<1>6. /\ d = "request" => pending'[c] = {p \in pending[c] : p.id # Key(m)} \cup {new}
      /\ d # "request" => pending'[c] = pending[c] \ Asked(c, m)
      /\ \A b \in Conns : b # c => pending'[b] = pending[b]
      /\ DOMAIN pending' = Conns /\ pending' = [b \in Conns |-> pending'[b]]
  BY <1>1 DEF Resolve
<1> HIDE DEF m, new
<1>7. /\ pending'[c] \subseteq pending[c] \cup {new}
      /\ d # "request" => pending'[c] \subseteq pending[c]
  BY <1>6
<1>8. pending' \in [Conns -> SUBSET [id : Nat, command : CommandNames]]
  <2>1. \A b \in Conns : pending'[b] \in SUBSET [id : Nat, command : CommandNames]
    BY <1>1, <1>3, <1>6, <1>7
  <2> QED BY <1>6, <2>1
<1>9. /\ \A p \in pending["app"] : p.id \in 1 .. Len(Requests("app"))
                                   /\ p.command = Requests("app")[p.id].command
      /\ \A p \in pending["monitor"] : p.command = "hello"
  BY DEF PInv, Exchange, PendingIsRight
<1>10. CASE c = "app"
  <2>1. pending'["monitor"] = pending["monitor"]
    BY <1>6, <1>10 DEF Conns
  <2>2. \A p \in pending'["app"] : p \in pending["app"] \/ (p = new /\ d = "request")
    BY <1>7, <1>10
  <2> QED BY <1>5, <1>8, <1>9, <1>10, <2>1, <2>2
<1>11. CASE c = "monitor"
  <2>1. pending'["app"] = pending["app"]
    BY <1>6, <1>11 DEF Conns
  <2>2. \A p \in pending'["monitor"] : p \in pending["monitor"] \/ (p = new /\ d = "request")
    BY <1>7, <1>11
  <2> QED BY <1>5, <1>8, <1>9, <1>11, <2>1, <2>2
<1> QED BY <1>10, <1>11 DEF Conns

LEMMA ResolveStep ==
  ASSUME PInv, NEW c \in Conns, NEW d \in Dirs, Resolve(c, d)
  PROVE  PInv'
<1> DEFINE m == pump[c][d].msg
           k == IF d = "request" THEN m.command ELSE AnyOf(Asked(c, m))
           p == [stage |-> "record", msg |-> m, command |-> k]
<1>1. /\ pump[c][d].stage = "resolve" /\ pump' = [pump EXCEPT ![c][d] = p]
      /\ UNCHANGED <<workload, messages, link, wire, arrived, main, open, breaks, report>>
  BY DEF Resolve
<1>2. ProxyTypeOK /\ InOrder /\ AllNamed /\ Exchange
  BY DEF PInv
<1>3. m \in ProxyMessage /\ m.command \in CommandNames /\ Unknown \in CommandNames
  <2>1. m \in ProxyMessage
    BY <1>1, <1>2, PumpTyped
  <2> QED BY <2>1 DEF ProxyMessage, CommandNames
<1>4. k \in {m.command, Unknown}
  <2>1. CASE d = "request"
    BY <2>1
  <2>2. CASE d = "reply"
    BY <1>1, <2>2, RightCommand
  <2> QED BY <2>1, <2>2 DEF Dirs
<1>5. p \in PumpStates /\ RightName(p) /\ p.stage = "record" /\ p.msg = m
  <2> HIDE DEF k
  <2> QED BY <1>3, <1>4 DEF PumpStates, RightName
<1> HIDE DEF p
<1>6. /\ pump' \in [Conns -> [Dirs -> PumpStates]] /\ pump'[c][d] = p
      /\ \A b \in Conns, e \in Dirs : b # c \/ e # d => pump'[b][e] = pump[b][e]
      /\ \A b \in Conns, e \in Dirs : pump'[b][e].stage = "record" => RightName(pump'[b][e])
  BY <1>1, <1>5, Recording
<1>7. /\ pending' \in [Conns -> SUBSET [id : Nat, command : CommandNames]]
      /\ \A x \in pending'["app"] : x.id \in 1 .. Len(Requests("app"))
                                    /\ x.command = Requests("app")[x.id].command
      /\ \A x \in pending'["monitor"] : x.command = "hello"
  BY Registered
<1>8. ProxyTypeOK'
  BY <1>1, <1>2, <1>6, <1>7 DEF ProxyTypeOK, PumpStates
<1>9. InOrder'
  <2>1. ASSUME NEW b \in Conns, NEW e \in Dirs PROVE Held(b, e)' = Held(b, e)
    <3>1. CASE b = c /\ e = d
      BY <1>1, <1>5, <1>6, <3>1 DEF Held
    <3>2. CASE b # c \/ e # d
      BY <1>6, <3>2 DEF Held
    <3> QED BY <3>1, <3>2
  <2> QED BY <1>1, <1>2, <2>1 DEF InOrder, Recorded
<1>10. AllNamed'
  BY <1>1, <1>2, <1>6 DEF AllNamed, Named, RightName
<1>11. /\ \A b \in Conns : Requests(b)' = Requests(b) /\ Answers(b)' = Answers(b)
  BY <1>1, WrittenSame DEF Requests, Answers, Dirs
<1>12. Requests("app")' = Requests("app") /\ Answers("app")' = Answers("app")
       /\ Answers("monitor")' = Answers("monitor")
  BY <1>11 DEF Conns
<1>13. RequestsNumbered'
  BY <1>2, <1>11 DEF Exchange, RequestsNumbered
<1>14. AnswersMatch' /\ OpenIsNext'
  BY <1>1, <1>2, <1>12 DEF Exchange, AnswersMatch, Answered1, OpenIsNext
<1>15. PendingIsRight'
  BY <1>7, <1>12 DEF PendingIsRight
<1> QED BY <1>8, <1>9, <1>10, <1>13, <1>14, <1>15 DEF PInv, Exchange

(* Recording moves the message a pump holds to the end of its records. *)
LEMMA RecordStep ==
  ASSUME PInv, NEW c \in Conns, NEW d \in Dirs, Record(c, d)
  PROVE  PInv'
<1> DEFINE e == [msg |-> pump[c][d].msg, workload |-> workload, command |-> pump[c][d].command]
           s == messages[c][d]
<1>1. /\ pump[c][d].stage = "record" /\ pump' = [pump EXCEPT ![c][d] = Idle]
      /\ messages' = [messages EXCEPT ![c][d] = Append(s, e)]
      /\ UNCHANGED <<workload, pending, link, wire, arrived, main, open, breaks, report>>
  BY DEF Record
<1>2. ProxyTypeOK /\ InOrder /\ AllNamed /\ Exchange
  BY DEF PInv
<1>3. pump[c][d].msg \in ProxyMessage /\ pump[c][d].command \in CommandNames
  BY <1>1, <1>2, PumpTyped
<1>4. workload \in Nat
  <2>1. workload \in 0 .. Len(Commands) /\ Len(Commands) \in Nat
    BY <1>2, CommandsAssumption DEF ProxyTypeOK
  <2> QED BY <2>1
<1>5. e \in Entry /\ e.msg = pump[c][d].msg /\ e.command = pump[c][d].command
  BY <1>3, <1>4 DEF Entry
<1>6. RightName(pump[c][d])
  BY <1>1, <1>2 DEF AllNamed
<1>7. RightName(e)
  BY <1>5, <1>6 DEF RightName
<1>8. messages \in [Conns -> [Dirs -> Seq(Entry)]] /\ s \in Seq(Entry)
  BY <1>2, Typed
<1>9. Append(s, e) \in Seq(Entry) /\ Len(Append(s, e)) = Len(s) + 1 /\ Append(s, e)[Len(s) + 1] = e
      /\ \A i \in 1 .. Len(s) : Append(s, e)[i] = s[i]
  <2> HIDE DEF e, s
  <2> QED BY <1>5, <1>8, AppendTo
<1>10. Recorded(Append(s, e)) = Recorded(s) \o <<e.msg>> /\ Recorded(Append(s, e)) \in Seq(ProxyMessage)
  <2> HIDE DEF e, s
  <2> QED BY <1>5, <1>8, <1>9, RecordedAppend, RecordedIs
<1>11. /\ messages' \in [Conns -> [Dirs -> Seq(Entry)]] /\ messages'[c][d] = Append(s, e)
       /\ \A b \in Conns, f \in Dirs : b # c \/ f # d => messages'[b][f] = messages[b][f]
  <2> HIDE DEF e, s
  <2> QED BY <1>1, <1>8, <1>9
<1>12. Idle \in PumpStates /\ Idle.stage = "read"
  BY DEF PumpStates, Idle
<1>13. /\ pump' \in [Conns -> [Dirs -> PumpStates]] /\ pump'[c][d] = Idle
       /\ \A b \in Conns, f \in Dirs : b # c \/ f # d => pump'[b][f] = pump[b][f]
       /\ \A b \in Conns, f \in Dirs : pump'[b][f].stage = "record" => RightName(pump'[b][f])
  BY <1>1, <1>12, Recording
<1> HIDE DEF e
<1>14. ProxyTypeOK'
  BY <1>1, <1>2, <1>11, <1>13 DEF ProxyTypeOK, PumpStates
<1>15. Exchange'
  BY <1>1, <1>2, WrittenSame, SameExchange
<1>16. InOrder'
  <2>1. ASSUME NEW b \in Conns, NEW f \in Dirs
        PROVE  arrived'[b][f] = Recorded(messages'[b][f]) \o Held(b, f)'
    <3>1. CASE b # c \/ f # d
      <4>1. messages'[b][f] = messages[b][f] /\ Held(b, f)' = Held(b, f) /\ arrived' = arrived
        BY <1>1, <1>11, <1>13, <3>1 DEF Held
      <4>2. arrived[b][f] = Recorded(messages[b][f]) \o Held(b, f)
        BY <1>2 DEF InOrder
      <4> QED BY <4>1, <4>2
    <3>2. CASE b = c /\ f = d
      <4>1. Held(c, d) = <<e.msg>>
        BY <1>1, <1>5 DEF Held
      <4>2. arrived[c][d] = Recorded(s) \o Held(c, d)
        BY <1>2 DEF InOrder
      <4>3. Held(c, d)' = << >>
        BY <1>12, <1>13 DEF Held
      <4>4. Recorded(Append(s, e)) \o << >> = Recorded(Append(s, e))
        BY <1>10, ConcatEmptySeq
      <4>5. arrived'[c][d] = arrived[c][d]
        BY <1>1
      <4> HIDE DEF s
      <4> QED BY <1>10, <1>11, <3>2, <4>1, <4>2, <4>3, <4>4, <4>5
    <3> QED BY <3>1, <3>2
  <2> QED BY <2>1 DEF InOrder, Recorded
<1>17. AllNamed'
  <2>1. ASSUME NEW b \in Conns, NEW f \in Dirs, NEW i \in 1 .. Len(messages'[b][f])
        PROVE  RightName(messages'[b][f][i])
    <3>1. CASE b # c \/ f # d
      <4>1. messages'[b][f] = messages[b][f]
        BY <1>11, <3>1
      <4> QED BY <1>2, <4>1 DEF AllNamed, Named
    <3>2. CASE b = c /\ f = d
      <4>1. Len(s) \in Nat
        BY <1>8
      <4>2. i = Len(s) + 1 \/ i \in 1 .. Len(s)
        BY <1>9, <1>11, <3>2, <4>1
      <4>3. \A j \in 1 .. Len(s) : RightName(s[j])
        BY <1>2 DEF AllNamed, Named
      <4>4. messages'[b][f] = Append(s, e)
        BY <1>11, <3>2
      <4> HIDE DEF s
      <4> QED BY <1>7, <1>9, <4>2, <4>3, <4>4
    <3> QED BY <3>1, <3>2
  <2>2. Named(messages)'
    BY <2>1 DEF Named, RightName
  <2>3. Named(report)'
    BY <1>1, <1>2 DEF AllNamed, Named, RightName
  <2> QED BY <1>13, <2>2, <2>3 DEF AllNamed, RightName
<1> QED BY <1>14, <1>15, <1>16, <1>17 DEF PInv


LEMMA ProxyInductive ==
  ASSUME PInv, [ProxyNext]_proxyVars
  PROVE  PInv'
<1>1. CASE UNCHANGED proxyVars
  <2>1. UNCHANGED <<workload, messages, pending, link, pump, wire, arrived, main, open, breaks, report>>
    BY <1>1 DEF proxyVars
  <2>2. Exchange'
    BY <2>1, WrittenSame, SameExchange DEF PInv
  <2>3. InOrder' /\ AllNamed'
    BY <2>1, SameRecords DEF PInv
  <2>4. ProxyTypeOK'
    BY <2>1 DEF PInv, ProxyTypeOK
  <2> QED BY <2>2, <2>3, <2>4 DEF PInv
<1>2. ASSUME NEW c \in Conns, Relay(c) \/ Reply(c) \/ Break(c) PROVE PInv'
  BY <1>2, QuietStep, ReplyStep
<1>3. ASSUME NEW c \in Conns, NEW n \in 1 .. MaxStream, Accepts(c, n) PROVE PInv'
  BY <1>3, AcceptStep
<1>4. ASSUME NEW c \in Conns, NEW d \in Dirs, Forward(c, d) \/ Resolve(c, d) \/ Record(c, d)
      PROVE  PInv'
  BY <1>4, ForwardStep, ResolveStep, RecordStep
<1>5. CASE MonitorHello \/ Handshake \/ RunWorkload
  BY <1>5, AskStep
<1>6. CASE Answered \/ Fatal
  <2>1. "app" \in Conns
    BY DEF Conns
  <2> QED BY <1>6, <2>1, QuietStep
<1>7. CASE Snapshot
  BY <1>7, SnapshotStep
<1>8. CASE Ended
  BY <1>1, <1>8 DEF Ended
<1> QED BY <1>1, <1>2, <1>3, <1>4, <1>5, <1>6, <1>7, <1>8 DEF ProxyNext

(* The named records give the property: a group that has a command holds no message
   without one, because no workload's command is the empty one. *)
LEMMA RecordsFollow == PInv => RecordIsTrue
<1> SUFFICES ASSUME PInv PROVE RecordIsTrue
  OBVIOUS
<1>1. ProxyTypeOK /\ InOrder /\ AllNamed
  BY DEF PInv
<1>2. \A c \in Conns, d \in Dirs :
        LET held == IF pump[c][d].stage = "read" THEN << >> ELSE <<pump[c][d].msg>>
        IN arrived[c][d] = Recorded(messages[c][d]) \o held
  BY <1>1 DEF InOrder, Held
<1>3. \A c \in Conns, d \in Dirs :
        /\ \A r \in Range(messages[c][d]) : RightName(r)
        /\ \A r \in Range(report[c][d]) : RightName(r)
  <2>1. \A c \in Conns, d \in Dirs : messages[c][d] \in Seq(Entry) /\ report[c][d] \in Seq(Entry)
    BY <1>1, Typed
  <2>2. ASSUME NEW s \in Seq(Entry), \A i \in 1 .. Len(s) : RightName(s[i])
        PROVE  \A r \in Range(s) : RightName(r)
    <3>1. DOMAIN s = 1 .. Len(s)
      OBVIOUS
    <3> QED BY <2>2, <3>1 DEF Range
  <2>3. \A c \in Conns, d \in Dirs : /\ \A i \in 1 .. Len(messages[c][d]) : RightName(messages[c][d][i])
                                     /\ \A i \in 1 .. Len(report[c][d]) : RightName(report[c][d][i])
    BY <1>1 DEF AllNamed, Named
  <2> QED BY <2>1, <2>2, <2>3
<1>4. \A r \in Records : r.command \in {r.msg.command, Unknown}
  BY <1>3 DEF Records, RightName
<1>5. Unknown \notin Range(Commands)
  <2>1. \A i \in 1 .. Len(Commands) : Commands[i] \in STRING \ {Unknown}
    BY CommandsAssumption, ElementOfSeq
  <2>2. DOMAIN Commands = 1 .. Len(Commands)
    BY CommandsAssumption
  <2> HIDE DEF Unknown
  <2> QED BY <2>1, <2>2 DEF Range
<1>6. ASSUME NEW w \in 0 .. Len(Commands), NEW d \in Dirs, NEW k \in {"hello"} \cup Range(Commands),
             NEW m \in Group(w, d, k)
      PROVE  m.msg.command = k /\ k # "hello"
  <2>1. PICK c \in Conns : m \in Range(report[c][d]) /\ ~uncompressedCommands(m) /\ m.command = k
    BY <1>6 DEF Group
  <2>2. RightName(m)
    BY <1>3, <2>1
  <2>3. k # "hello"
    BY <2>1 DEF uncompressedCommands
  <2>4. k # Unknown
    BY <1>5, <2>3
  <2> QED BY <2>1, <2>2, <2>3, <2>4 DEF RightName
<1> QED BY <1>2, <1>4, <1>6 DEF RecordIsTrue

(* The proxy's state is well typed in every state, for every list of workloads. *)
THEOREM ProxyTypes == ProxySpec => []ProxyTypeOK
<1>1. PInv => ProxyTypeOK
  BY DEF PInv
<1>2. PInv /\ [ProxyNext]_proxyVars => PInv'
  BY ProxyInductive
<1> QED BY <1>1, <1>2, ProxyInitHolds, PTL DEF ProxySpec

(* proxy.go records every message once, in order and under its own command or none,
   whatever the interleaving of the pumps, main and the two connections, for every
   list of workloads, any number of hellos, stream replies and broken connections. *)
THEOREM RecordsAreTrue == ProxySpec => []RecordIsTrue
<1>1. PInv /\ [ProxyNext]_proxyVars => PInv'
  BY ProxyInductive
<1> QED BY <1>1, RecordsFollow, ProxyInitHolds, PTL DEF ProxySpec
=============================================================================
