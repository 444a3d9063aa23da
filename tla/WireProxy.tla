------------------------------ MODULE WireProxy ------------------------------
(***************************************************************************)
(* The recording proxy (cmd/wirecompress/proxy.go), the workload it        *)
(* measures (main.go) and the grouping of what it recorded (analyze.go).   *)
(* Every connection has two pumps. A pump reads a whole message, writes it *)
(* on, resolves its command and then records it, so the other side may act *)
(* on a message that is not recorded yet. Bytes are left out: a message is *)
(* its connection, direction, ids and command.                             *)
(***************************************************************************)
EXTENDS Integers, Sequences, FiniteSets, Functions

CONSTANTS Commands,   \* sequence: the command of each workload, after "setup"
          MaxHellos,  \* bound on the monitor's hello requests
          MaxStream,  \* bound on the replies of one streaming hello
          MaxBreaks   \* bound on connections that break

Unknown == "unknown"  \* the empty command of a message that has none

(* A workload runs a command that has a name. *)
ASSUME CommandsAssumption == Commands \in Seq(STRING \ {Unknown})
ASSUME ProxyBounds == {MaxHellos, MaxStream, MaxBreaks} \subseteq Nat

Conns == {"app", "monitor"}
Dirs == {"request", "reply"}

VARIABLES workload,   \* recorder.workload: an index, 0 is "setup"
          messages,   \* recorder.messages, by connection and direction: analyze
                      \* groups them, so their order across these is left out
          pending,    \* per connection: a set of [id, command]
          link,       \* per connection: "new", "open", "closed"
          pump,       \* per connection and direction: stage and message held
          wire,       \* per connection and direction: written by the sender, unread
          arrived,    \* per connection and direction: what the receiver got
          main,       \* "shake", "send", "wait", "stop", "report", "fatal"
          open,       \* per connection: the request the server answers, replies left
          breaks,
          report      \* the snapshot given to analyze

proxyVars == <<workload, messages, pending, link, pump, wire, arrived, main, open, breaks,
               report>>

Idle == [stage |-> "read", msg |-> [id |-> 0]]
Nothing == [left |-> 0]

ProxyInit ==
  /\ workload = 0
  /\ pending = [c \in Conns |-> {}] /\ link = [c \in Conns |-> "new"]
  /\ pump = [c \in Conns |-> [d \in Dirs |-> Idle]]
  /\ wire = [c \in Conns |-> [d \in Dirs |-> << >>]]
  /\ arrived = wire /\ messages = wire
  /\ main = "shake" /\ open = [c \in Conns |-> Nothing]
  /\ breaks = 0 /\ report = wire

Sent(c, d) == Len(arrived[c][d]) + Len(wire[c][d])

(* accept and relay: the target answers the dial, or the client is hung up on. *)
Relay(c) ==
  /\ link[c] = "new"
  /\ \/ link' = [link EXCEPT ![c] = "open"] /\ UNCHANGED breaks
     \/ /\ breaks < MaxBreaks /\ breaks' = breaks + 1
        /\ link' = [link EXCEPT ![c] = "closed"]
  /\ UNCHANGED <<workload, messages, pending, pump, wire, arrived, main, open, report>>

(* What a client writes; `under` is the workload it belongs to. Request ids count
   up on every connection, so two connections use the same ones. *)
Request(c, command) ==
  [conn |-> c, dir |-> "request", id |-> Sent(c, "request") + 1, to |-> 0,
   command |-> command, under |-> workload']

Write(m) == wire' = [wire EXCEPT ![m.conn][m.dir] = Append(@, m)]

(* The driver's handshake on the connection the workload runs over *)
Handshake ==
  /\ main = "shake" /\ link["app"] = "open"
  /\ UNCHANGED workload
  /\ Write(Request("app", "hello")) /\ main' = "wait"
  /\ UNCHANGED <<messages, pending, link, pump, arrived, open, breaks, report>>

(* The next workload: setWorkload, then its command *)
RunWorkload ==
  /\ main = "send" /\ workload < Len(Commands) /\ link["app"] = "open"
  /\ workload' = workload + 1
  /\ Write(Request("app", Commands[workload'])) /\ main' = "wait"
  /\ UNCHANGED <<messages, pending, link, pump, arrived, open, breaks, report>>

(* The reply arrived: the next workload, or the end *)
Answered ==
  /\ main = "wait" /\ Len(arrived["app"]["reply"]) = Sent("app", "request")
  /\ main' = IF workload < Len(Commands) THEN "send" ELSE "stop"
  /\ UNCHANGED <<workload, messages, pending, link, pump, wire, arrived, open, breaks,
                 report>>

(* A command on a broken connection fails, and the program with it. *)
Fatal ==
  /\ main \in {"shake", "send", "wait"} /\ link["app"] = "closed"
  /\ Len(arrived["app"]["reply"]) < Sent("app", "request") \/ main # "wait"
  /\ main' = "fatal"
  /\ UNCHANGED <<workload, messages, pending, link, pump, wire, arrived, open, breaks,
                 report>>

(* The driver's monitor asks for a stream of hello replies, one request after
   the other. *)
MonitorHello ==
  /\ link["monitor"] = "open"
  /\ Sent("monitor", "request") < MaxHellos
  /\ open["monitor"].left = 0 /\ wire["monitor"]["request"] = << >>
  /\ UNCHANGED workload
  /\ Write(Request("monitor", "hello"))
  /\ UNCHANGED <<messages, pending, link, pump, arrived, main, open, breaks, report>>

(* The target answers the request that reached it; the later replies of a stream
   answer the reply before them. *)
Accepts(c, n) ==
  /\ open[c].left = 0 /\ link[c] = "open"
  /\ LET asked == Cardinality({m \in Range(wire[c]["reply"]) \cup Range(arrived[c]["reply"]) :
                                 m.first})
     IN /\ asked < Len(arrived[c]["request"])
        /\ open' = [open EXCEPT ![c] = [left |-> n, of |-> arrived[c]["request"][asked + 1]]]
  /\ c = "app" => n = 1
  /\ UNCHANGED <<workload, messages, pending, link, pump, wire, arrived, main, breaks,
                 report>>

Reply(c) ==
  /\ open[c].left > 0 /\ link[c] = "open"
  /\ LET q == open[c].of
         before == arrived[c]["reply"] \o wire[c]["reply"]
         held == {m \in Range(before) : m.request = q.id}
     IN wire' = [wire EXCEPT ![c]["reply"] = Append(@,
          [conn |-> c, dir |-> "reply", id |-> Len(before) + 1, first |-> held = {},
           to |-> IF held = {} THEN q.id ELSE Len(before),
           request |-> q.id, command |-> q.command, under |-> q.under])]
  /\ open' = [open EXCEPT ![c].left = @ - 1]
  /\ UNCHANGED <<workload, messages, pending, link, pump, arrived, main, breaks, report>>

(***************************************************************************)
(* pump: the message is written on, then resolved, then recorded.          *)
(***************************************************************************)
Forward(c, d) ==
  /\ pump[c][d].stage = "read" /\ wire[c][d] # << >> /\ link[c] = "open"
  /\ pump' = [pump EXCEPT ![c][d] = [stage |-> "resolve", msg |-> Head(wire[c][d])]]
  /\ arrived' = [arrived EXCEPT ![c][d] = Append(@, Head(wire[c][d]))]
  /\ wire' = [wire EXCEPT ![c][d] = Tail(@)]
  /\ UNCHANGED <<workload, messages, pending, link, main, open, breaks, report>>

AnyOf(S) == IF S = {} THEN Unknown ELSE (CHOOSE x \in S : TRUE).command

Shared(c, m) ==  \* Seeded defect: one pending map for all connections.
  UNION {{p \in pending[k] : p.id = m.to} : k \in Conns}

Asked(c, m) == {p \in pending[c] : p.id = m.to}

Key(m) == m.id

Resolve(c, d) ==
  /\ pump[c][d].stage = "resolve"
  /\ LET m == pump[c][d].msg
         asked == Asked(c, m)
     IN /\ pending' = [pending EXCEPT ![c] =
             IF d = "request" THEN {p \in @ : p.id # Key(m)}
                                     \cup {[id |-> Key(m), command |-> m.command]}
             ELSE @ \ asked]
        /\ pump' = [pump EXCEPT ![c][d] =
             [stage |-> "record", msg |-> m,
              command |-> IF d = "request" THEN m.command ELSE AnyOf(asked)]]
  /\ UNCHANGED <<workload, messages, link, wire, arrived, main, open, breaks, report>>

Record(c, d) ==
  /\ pump[c][d].stage = "record"
  /\ messages' = [messages EXCEPT ![c][d] =
       Append(@, [msg |-> pump[c][d].msg, workload |-> workload,
                  command |-> pump[c][d].command])]
  /\ pump' = [pump EXCEPT ![c][d] = Idle]
  /\ UNCHANGED <<workload, pending, link, wire, arrived, main, open, breaks, report>>

(* A connection ends: a peer hangs up, a write fails or a length is bad. Either
   pump then closes both ends; a message it forwarded is still recorded. *)
Break(c) ==
  /\ link[c] = "open" /\ breaks < MaxBreaks /\ breaks' = breaks + 1
  /\ link' = [link EXCEPT ![c] = "closed"]
  /\ UNCHANGED <<workload, messages, pending, pump, wire, arrived, main, open, report>>

(* Disconnect, ln.Close and the snapshot of what is recorded by then *)
Snapshot ==
  /\ main = "stop" /\ main' = "report"
  /\ link' = [c \in Conns |-> "closed"]
  /\ report' = messages
  /\ UNCHANGED <<workload, messages, pending, pump, wire, arrived, open, breaks>>

uncompressedCommands(m) == m.command = "hello"

(* analyze: the messages of a group, keyed by workload, direction and command *)
Group(w, d, command) ==
  UNION {{m \in Range(report[c][d]) : /\ ~uncompressedCommands(m)
                                      /\ m.workload = w /\ m.command = command} :
           c \in Conns}

Ended == main \in {"report", "fatal"} /\ UNCHANGED proxyVars

(* Once the snapshot is taken, what the pumps still do has no effect. *)
Running == main \notin {"report", "fatal"}

ProxyNext ==
  \/ Running /\ \E c \in Conns :
       \/ Relay(c) \/ Reply(c) \/ Break(c)
       \/ \E n \in 1 .. MaxStream : Accepts(c, n)
       \/ \E d \in Dirs : Forward(c, d) \/ Resolve(c, d) \/ Record(c, d)
  \/ Running /\ MonitorHello
  \/ Handshake \/ RunWorkload \/ Answered \/ Fatal \/ Snapshot \/ Ended

ProxySpec == ProxyInit /\ [][ProxyNext]_proxyVars

-----------------------------------------------------------------------------
CommandNames == {"hello", Unknown} \cup Range(Commands)
ProxyMessage ==
  [conn : Conns, dir : {"request"}, id : Nat, to : {0}, command : CommandNames, under : Nat]
    \cup [conn : Conns, dir : {"reply"}, id : Nat, first : BOOLEAN, to : Nat, request : Nat,
          command : CommandNames, under : Nat]
Entry == [msg : ProxyMessage, workload : Nat, command : CommandNames]

ProxyTypeOK ==
  /\ workload \in 0 .. Len(Commands)
  /\ main \in {"shake", "send", "wait", "stop", "report", "fatal"}
  /\ link \in [Conns -> {"new", "open", "closed"}] /\ breaks \in 0 .. MaxBreaks
  /\ {wire, arrived} \subseteq [Conns -> [Dirs -> Seq(ProxyMessage)]]
  /\ {messages, report} \subseteq [Conns -> [Dirs -> Seq(Entry)]]
  /\ pending \in [Conns -> SUBSET [id : Nat, command : CommandNames]]
  /\ pump \in [Conns -> [Dirs ->
       {Idle} \cup [stage : {"resolve"}, msg : ProxyMessage]
              \cup [stage : {"record"}, msg : ProxyMessage, command : CommandNames]]]
  /\ open \in [Conns -> {Nothing} \cup [left : 0 .. MaxStream, of : ProxyMessage]]

Recorded(s) == [i \in DOMAIN s |-> s[i].msg]
Records == UNION {Range(messages[c][d]) : c \in Conns, d \in Dirs}

(* Each direction of a connection is recorded once, in order, and only what was
   forwarded: what is not recorded yet is at most the one message its pump holds,
   whatever the order in which the pumps run. Although requests of two connections
   share ids and a reply may overtake the registration of its request, a reply is
   recorded under its own request's command or under none, and every group of the
   report that has a command holds messages of that command only; hello traffic is
   kept out of it by name. *)
RecordIsTrue ==
  /\ \A c \in Conns, d \in Dirs :
       LET held == IF pump[c][d].stage = "read" THEN << >> ELSE <<pump[c][d].msg>>
       IN arrived[c][d] = Recorded(messages[c][d]) \o held
  /\ \A r \in Records : r.command \in {r.msg.command, Unknown}
  /\ \A w \in 0 .. Len(Commands), d \in Dirs, k \in {"hello"} \cup Range(Commands) :
       \A m \in Group(w, d, k) : m.msg.command = k /\ k # "hello"
=============================================================================
