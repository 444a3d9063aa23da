------------------------------ MODULE WireConn ------------------------------
(***************************************************************************)
(* The wire-protocol client (wire/conn.go): commands written to a stream,  *)
(* replies read from it, and what the connection remembers of them. A      *)
(* message is a record; on the stream it is a header and a rest, which a   *)
(* failed read can separate. Sizes are small numbers: a header has size    *)
(* HeaderLen, an OP_MSG body BodyLen, what compression leaves of it        *)
(* PayloadLen, and the OP_COMPRESSED prefix PrefixLen.                     *)
(***************************************************************************)
EXTENDS Integers, Sequences

CONSTANTS Forms,        \* the ways to send that are used
          MaxCommands,  \* bound on the commands sent
          MaxReplies,   \* bound on the replies of an exhaust command
          MaxFaults     \* bound on deadlines and malformed replies

ASSUME BoundsAssumption == {MaxCommands, MaxReplies, MaxFaults} \subseteq Nat

VARIABLES reqID,
          pc,        \* "idle", "header", "rest", "closed"
          inbox,     \* requests the server has not answered
          stream,    \* what the client has not read
          head,      \* the header just read
          traffic,
          last,      \* lastReplyCompressor, lastReplyChecksum
          result,    \* what the last call returned
          faults,
          clean,     \* history: no call failed, every exhaust reply was read
          sent, got  \* history: requests written, replies read to the end

vars == <<reqID, pc, inbox, stream, head, traffic, last, result, faults, clean,
          sent, got>>

HeaderLen == 3
PrefixLen == 2
BodyLen == 5
PayloadLen == 4
ChecksumLen == 1

(* RunCommand, RunCompressedCommand, RunChecksummedCommand with and without a
   compressor, RunCommandFlags with exhaustAllowed, RunRawOpMsg *)
AllForms == {"plain", "compressed", "checksummed", "checksummed compressed",
             "exhaust", "raw"}

Compressed(form) == form \in {"compressed", "checksummed compressed"}
Body(form) == BodyLen + IF form \in {"checksummed", "checksummed compressed"}
                        THEN ChecksumLen ELSE 0
Logical(form) == HeaderLen + Body(form)
Wire(form) == IF Compressed(form) THEN HeaderLen + PrefixLen + PayloadLen
              ELSE Logical(form)

(* Replies: "bad opcode" and "short" fail at the header, "bad prefix" and "bad
   payload" after the rest was read, "bad section" after it was decompressed. *)
Faulty == {"bad opcode", "short", "bad prefix", "bad payload", "bad section"}
Checksums == {"none", "valid", "invalid"}
Message == [to : Nat, more : BOOLEAN, fault : {"none"} \cup Faulty, compressed : BOOLEAN,
            checksum : Checksums]
Replies(id) ==
  [to : {id}, more : BOOLEAN, fault : {"none"} \cup Faulty, compressed : BOOLEAN,
   checksum : Checksums]

RBody(m) == BodyLen + IF m.checksum = "none" THEN 0 ELSE ChecksumLen
RWire(m) == IF m.compressed THEN HeaderLen + PrefixLen + PayloadLen
            ELSE HeaderLen + RBody(m)

NoMessage == [to |-> 0, more |-> FALSE, fault |-> "none", compressed |-> FALSE,
              checksum |-> "none"]
NoTraffic == [requests |-> 0, qLogical |-> 0, qWire |-> 0, qPayload |-> 0,
              qBody |-> 0, rLogical |-> 0, rWire |-> 0, rPayload |-> 0, rBody |-> 0]

Init == /\ reqID = 0 /\ pc = "idle" /\ inbox = << >> /\ stream = << >>
        /\ head = NoMessage /\ traffic = NoTraffic
        /\ last = [compressed |-> FALSE, checksum |-> "none"]
        /\ result = [ok |-> FALSE, msg |-> NoMessage] /\ faults = 0
        /\ clean = TRUE /\ sent = << >> /\ got = << >>

HungUp == stream # << >> /\ stream[Len(stream)].part = "eof"

Fails == pc' = "idle" /\ result' = [ok |-> FALSE, msg |-> NoMessage] /\ clean' = FALSE

(* A command whose form has a compressor does count its payload, except in
   RunChecksummedCommand. *)
CountRequest(form) ==
  LET counted == form = "compressed"
  IN [traffic EXCEPT
        !.requests = @ + 1, !.qLogical = @ + Logical(form), !.qWire = @ + Wire(form),
        !.qPayload = @ + IF counted THEN PayloadLen ELSE 0,
        !.qBody = @ + IF counted THEN Body(form) ELSE 0]

Run(form) ==
  /\ pc = "idle" /\ Len(sent) < MaxCommands
  /\ reqID' = reqID + 1
  /\ inbox' = Append(inbox, [id |-> reqID + 1, form |-> form])
  /\ sent' = Append(sent, form)
  /\ traffic' = CountRequest(form)
  /\ clean' = (clean /\ ~(result.ok /\ result.msg.more))
  /\ pc' = "header"
  /\ UNCHANGED <<stream, head, last, result, faults, got>>

WriteRetried ==  \* Seeded defect: a failed write is repeated, though it may have arrived.
  /\ pc = "idle" /\ Len(sent) + 1 < MaxCommands /\ faults < MaxFaults
  /\ reqID' = reqID + 2 /\ faults' = faults + 1
  /\ inbox' = inbox \o <<[id |-> reqID + 1, form |-> "plain"],
                         [id |-> reqID + 2, form |-> "plain"]>>
  /\ sent' = sent \o <<"plain", "plain">> /\ pc' = "header"
  /\ traffic' = [traffic EXCEPT !.requests = @ + 2, !.qLogical = @ + 2 * Logical("plain"),
                                !.qWire = @ + 2 * Wire("plain")]
  /\ UNCHANGED <<stream, head, last, result, clean, got>>

(* c.c.Write fails: the reqID is used up and nothing is counted. *)
WriteFails ==
  /\ pc = "idle" /\ Len(sent) < MaxCommands /\ reqID <= MaxCommands
  /\ reqID' = reqID + 1
  /\ \/ HungUp /\ UNCHANGED faults
     \/ faults < MaxFaults /\ faults' = faults + 1
  /\ Fails
  /\ UNCHANGED <<inbox, stream, head, traffic, last, sent, got>>

(* ReadReply: the next reply of an exhaust command *)
ReadReply ==
  /\ pc = "idle" /\ result.ok /\ result.msg.more
  /\ pc' = "header"
  /\ UNCHANGED <<reqID, inbox, stream, head, traffic, last, result, faults, clean,
                 sent, got>>

(* The server answers a request, an exhaust request with several replies. *)
Answer ==
  /\ inbox # << >> /\ ~HungUp
  /\ LET q == Head(inbox)
     IN \E n \in 1 .. (IF q.form = "exhaust" THEN MaxReplies ELSE 1),
           m \in Replies(q.id) :
          /\ m.fault # "none" => faults < MaxFaults /\ ~m.more
          /\ m.fault \in {"bad prefix", "bad payload"} => m.compressed
          /\ faults' = IF m.fault = "none" THEN faults ELSE faults + 1
          /\ stream' = stream \o
               [i \in 1 .. 2 * n |->
                  [part |-> IF i % 2 = 1 THEN "header" ELSE "rest",
                   msg |-> [m EXCEPT !.more = (i + 1) \div 2 < n]]]
  /\ inbox' = Tail(inbox)
  /\ UNCHANGED <<reqID, pc, head, traffic, last, result, clean, sent, got>>

(***************************************************************************)
(* readCommandReply: the header, the rest, and what is made of them. The   *)
(* header's responseTo is not looked at. A rest that is read as a header   *)
(* has no valid length or opcode.                                          *)
(***************************************************************************)
ReadHeader ==
  /\ pc = "header" /\ stream # << >>
  /\ stream' = IF Head(stream).part = "eof" THEN stream ELSE Tail(stream)
  /\ LET x == Head(stream)
     IN IF x.part # "header" \/ x.msg.fault \in {"bad opcode", "short"}
        THEN Fails /\ UNCHANGED head
        ELSE head' = x.msg /\ pc' = "rest" /\ UNCHANGED <<result, clean>>
  /\ UNCHANGED <<reqID, inbox, traffic, last, faults, sent, got>>

CountReplyOnce(m) ==  \* Seeded defect: the size on the wire is taken for both.
  [traffic EXCEPT !.rWire = @ + RWire(m), !.rLogical = @ + RWire(m)]

CountReply(m) ==
  LET wire == [traffic EXCEPT !.rWire = @ + RWire(m)]
      unpacked == [wire EXCEPT !.rPayload = @ + IF m.compressed THEN PayloadLen ELSE 0,
                               !.rBody = @ + IF m.compressed THEN RBody(m) ELSE 0]
  IN IF m.fault \in {"bad prefix", "bad payload"} THEN wire
     ELSE [unpacked EXCEPT !.rLogical = @ + HeaderLen + RBody(m)]

Last(m) ==
  IF m.fault \in {"bad prefix", "bad payload"} THEN [last EXCEPT !.compressed = FALSE]
  ELSE [compressed |-> m.compressed, checksum |-> m.checksum]

ReadRest ==
  /\ pc = "rest" /\ stream # << >> /\ Head(stream).part = "rest"
  /\ stream' = Tail(stream)
  /\ traffic' = CountReply(head) /\ last' = Last(head) /\ got' = Append(got, head)
  /\ IF head.fault # "none" THEN Fails
     ELSE /\ pc' = "idle" /\ result' = [ok |-> TRUE, msg |-> head]
          /\ UNCHANGED clean
  /\ UNCHANGED <<reqID, inbox, head, faults, sent>>

(* io.ReadFull finds the end of the stream where the rest should be. *)
RestMissing ==
  /\ pc = "rest" /\ stream # << >> /\ Head(stream).part = "eof"
  /\ Fails
  /\ UNCHANGED <<reqID, inbox, stream, head, traffic, last, faults, sent, got>>

(* The deadline of SetDeadline passes during a read. *)
Deadline ==
  /\ pc \in {"header", "rest"} /\ faults < MaxFaults
  /\ faults' = faults + 1
  /\ Fails
  /\ UNCHANGED <<reqID, inbox, stream, head, traffic, last, sent, got>>

Close ==
  /\ pc = "idle" /\ pc' = "closed"
  /\ UNCHANGED <<reqID, inbox, stream, head, traffic, last, result, faults, clean,
                 sent, got>>

(* The peer closes the connection: what it sent and was not read may be lost from
   any point on, and every read from there on fails. *)
PeerCloses ==
  /\ pc # "closed" /\ ~HungUp /\ faults < MaxFaults
  /\ faults' = faults + 1
  /\ \E k \in 0 .. Len(stream) :
       stream' = SubSeq(stream, 1, k) \o <<[part |-> "eof", msg |-> NoMessage]>>
  /\ UNCHANGED <<reqID, pc, inbox, head, traffic, last, result, clean, sent, got>>

Closed == pc = "closed" /\ UNCHANGED vars

Next == \/ (\E form \in Forms : Run(form)) \/ WriteFails \/ ReadReply \/ Answer
        \/ ReadHeader \/ ReadRest \/ RestMissing \/ Deadline \/ Close \/ PeerCloses \/ Closed

Spec == Init /\ [][Next]_vars

TypeOK ==
  /\ reqID \in Nat /\ pc \in {"idle", "header", "rest", "closed"}
  /\ inbox \in Seq([id : Nat, form : Forms])
  /\ stream \in Seq([part : {"header", "rest", "eof"}, msg : Message])
  /\ head \in Message
  /\ traffic \in [DOMAIN NoTraffic -> Nat]
  /\ last \in [compressed : BOOLEAN, checksum : Checksums]
  /\ result \in [ok : BOOLEAN, msg : Message]
  /\ faults \in 0 .. MaxFaults /\ clean \in BOOLEAN
  /\ sent \in Seq(Forms) /\ got \in Seq(Message)
  /\ traffic.requests = Len(sent) /\ Len(sent) <= reqID

(* Although responseTo is never compared, a reply that is returned belongs to the
   command just sent, unless an earlier call on the connection failed or left
   replies of an exhaust command unread; LastReplyCompressor and LastReplyChecksum
   describe that reply and not an earlier one. *)
ReplyIsMine ==
  result.ok /\ pc \in {"idle", "closed"} =>
    /\ clean => result.msg.to = reqID
    /\ last = [compressed |-> result.msg.compressed, checksum |-> result.msg.checksum]

Total(h) ==
  LET f[i \in 0 .. Len(h)] == IF i = 0 THEN 0 ELSE f[i - 1] + h[i]
  IN f[Len(h)]
Sum(F(_), s) == Total([i \in DOMAIN s |-> F(s[i])])

(* The totals of Traffic are those of what was sent and read: every byte that
   crossed the socket as part of a message, compressed sizes only of replies that
   were unpacked and of requests that were compressed, whichever call failed
   between. RunChecksummedCommand leaves its compressed sizes out. *)
TrafficAddsUp ==
  LET unpacked(m) == m.fault \notin {"bad prefix", "bad payload"}
  IN /\ traffic.rWire = Sum(RWire, got)
     /\ traffic.rLogical
          = Sum(LAMBDA m : IF unpacked(m) THEN HeaderLen + RBody(m) ELSE 0, got)
     /\ traffic.rLogical - traffic.rBody <= traffic.rWire - traffic.rPayload
     /\ traffic.qWire = Sum(Wire, sent) /\ traffic.qLogical = Sum(Logical, sent)
     /\ traffic.qPayload = Sum(LAMBDA f : IF f = "compressed" THEN PayloadLen ELSE 0, sent)
     /\ traffic.qBody = Sum(LAMBDA f : IF f = "compressed" THEN Body(f) ELSE 0, sent)
=============================================================================
