--------------------------- MODULE StreamClients ---------------------------
(***************************************************************************)
(* The clients that receive through a background thread: MQTT (mqtt.rs),   *)
(* AMQP (amqp.rs) and the gRPC streams (grpc.rs).                          *)
(*                                                                         *)
(* One script object of one kind (picked in Init).  A connection or stream *)
(* has a pump: a thread that polls (at most 100 ms at a time) while the    *)
(* `running` flag is set and passes on what arrives through a bounded      *)
(* channel whose receiver the object holds.  MQTT and AMQP objects keep    *)
(* one flag over all their connections, a gRPC stream has its own.         *)
(* Messages are numbered per connection; their content is left out.        *)
(***************************************************************************)
EXTENDS Naturals, Sequences

CONSTANTS
  Kinds,         \* subset of {"mqtt", "amqp", "server", "client", "bidi"}
  Capacity,      \* of the channel to the script (1000)
  SendCapacity,  \* of the request channel (10 for MQTT, 100 for gRPC)
  MaxMessages,   \* bound: messages the server sends on a connection
  MaxOpens,      \* bound: connections an MQTT or AMQP object opens
  None           \* model value

VARIABLES
  kind,     \* which client the script uses
  grpc,     \* what the gRPC client has: "proto", "channel"
  opened,   \* connections (streams) opened so far
  held,     \* the connection the object holds: client, channel or stream
  rx,       \* the connection whose receiver the object holds
  running,  \* the flag the pump of a connection reads
  pump,     \* the pump thread of a connection
  queue,    \* the bounded channel of a connection
  out,      \* requests waiting in the request channel of a connection
  wire,     \* messages under way from the server
  sent,     \* messages the server has sent
  ended,    \* the server has ended the connection
  away,     \* the broker of an MQTT or AMQP connection cannot be reached
  taken,    \* history: what recv() returned to the script
  script,   \* what the script is doing
  told      \* result and metric of the script's last call

streamVars == <<kind, grpc, opened, held, rx, running, pump, queue, out, wire, sent, ended,
                away, taken, script, told>>

setup == <<kind, grpc, opened>>
hold == <<held, rx>>
threads == <<running, pump>>
server == <<wire, sent, ended, away>>
got == <<queue, taken>>
call == <<script, told>>

Ids == 1 .. MaxOpens
NoPump == [pc |-> "none", msg |-> 0]
Says(result, metric) == [result |-> result, metric |-> metric]

StreamInit ==
  /\ kind \in Kinds
  /\ grpc = {} /\ opened = 0 /\ held = None /\ rx = None
  /\ running = [n \in Ids |-> FALSE]
  /\ pump = [n \in Ids |-> NoPump]
  /\ queue = [n \in Ids |-> <<>>]
  /\ out = [n \in Ids |-> 0]
  /\ wire = [n \in Ids |-> <<>>]
  /\ sent = [n \in Ids |-> 0]
  /\ ended = [n \in Ids |-> FALSE]
  /\ away = [n \in Ids |-> FALSE]
  /\ taken = [n \in Ids |-> <<>>]
  /\ script = "free"
  /\ told = Says("none", None)

\* A call the script makes while no other call is under way.
Calls(k) == kind = k /\ script = "free"

\* A call with no lasting effect here: it fails, or is refused without a
\* connection ...
Fails(connected, metric) ==
  /\ told' = IF connected THEN Says("NetworkError", metric) ELSE Says("StateError", None)
  /\ UNCHANGED <<setup, hold, threads, server, got, out, script>>

\* ... or goes through.  `metrics` are what it counts when it does and when not.
Exchange(connected, metrics) ==
  \/ Fails(connected, metrics[2])
  \/ /\ connected
     /\ told' = Says("ok", metrics[1])
     /\ UNCHANGED <<setup, hold, threads, server, got, out, script>>

Counted == <<200, 0>>      \* make_metric: status 200, or 0 with an error
Uncounted == <<None, None>>

\* With the receiver goes what the channel still has; the history of a
\* connection the object has let go of is not kept either.
Discard ==
  /\ queue' = [n \in Ids |-> <<>>]
  /\ taken' = [n \in Ids |-> <<>>]
  /\ out' = [n \in Ids |-> 0]

LetGo == held' = None /\ rx' = None /\ Discard

\* A pump starts at pc for connection n, and the object holds its receiver.
Start(n, pc) ==
  /\ rx' = n
  /\ Discard
  /\ running' = IF kind \in {"mqtt", "amqp"} THEN [i \in Ids |-> TRUE]
                                             ELSE [running EXCEPT ![n] = TRUE]
  /\ pump' = [pump EXCEPT ![n] = [pc |-> pc, msg |-> 0]]

-----------------------------------------------------------------------------
(* Opening.                                                                *)

\* The client is lazy: the connection is made when the pump polls it.
MqttConnect ==
  /\ Calls("mqtt")
  /\ opened < MaxOpens
  /\ opened' = opened + 1
  /\ held' = opened + 1
  /\ Start(opened + 1, "check")
  /\ told' = Says("ok", 200)
  /\ UNCHANGED <<kind, grpc, server, script>>

AmqpConnect ==
  /\ Calls("amqp")
  /\ opened < MaxOpens
  /\ \/ /\ opened' = opened + 1
        /\ held' = opened + 1
        /\ told' = Says("ok", 200)
     \/ /\ told' = Says("NetworkError", 0)
        /\ UNCHANGED <<opened, held>>
  /\ UNCHANGED <<threads, server, got, kind, grpc, rx, out, script>>

\* Declares the queue and consumes it.  The consumer tag is fixed, so a channel
\* takes one subscription.
AmqpSubscribe ==
  /\ Calls("amqp")
  /\ held # None => pump[held] = NoPump
  /\ \/ /\ held # None
        /\ Start(held, "check")
        /\ told' = Says("ok", 200)
        /\ UNCHANGED <<setup, server, held, script>>
     \/ Fails(held # None, None)

GrpcKinds == {"server", "client", "bidi"}

GrpcLoad ==
  /\ kind \in GrpcKinds /\ script = "free"
  /\ \/ grpc' = grpc \cup {"proto"} /\ told' = Says("ok", None)
     \/ grpc' = grpc /\ told' = Says("ProtoCompileError", None)
  /\ UNCHANGED <<hold, threads, server, got, kind, opened, out, script>>

GrpcConnect ==
  /\ kind \in GrpcKinds /\ script = "free"
  /\ \/ grpc' = grpc \cup {"channel"} /\ told' = Says("ok", 200)
     \/ grpc' = grpc /\ told' = Says("NetworkError", 0)
  /\ UNCHANGED <<hold, threads, server, got, kind, opened, out, script>>

\* get_method needs the proto, the call needs the channel.
GrpcReady == {"proto", "channel"} \subseteq grpc

GrpcInvoke ==
  /\ kind \in GrpcKinds /\ script = "free"
  /\ Exchange(GrpcReady, Counted)

\* The calls that open a stream and may fail before there is one.
GrpcRefused ==
  /\ kind \in GrpcKinds /\ script = "free"
  /\ Fails(GrpcReady, None)

\* A stream object and its pump.  (Bound: one, streams share nothing.)
NewStream(k) ==
  /\ Calls(k)
  /\ GrpcReady
  /\ opened = 0
  /\ opened' = 1
  /\ held' = 1
  /\ told' = Says("ok", None)
  /\ UNCHANGED <<kind, grpc, server, script>>

\* A server stream has its response when its pump starts; the pump of a bidi
\* stream asks for it: ready() and streaming(), with no timeout and no look at
\* the flag.
ServerStream == NewStream("server") /\ Start(1, "check")
BidiStream == NewStream("bidi") /\ Start(1, "connecting")

\* The pump of a client stream is the call itself; its answer is a oneshot.
ClientStream ==
  /\ NewStream("client")
  /\ rx' = 1
  /\ Discard
  /\ running' = running
  /\ pump' = [pump EXCEPT ![1] = [pc |-> "call", msg |-> 0]]

-----------------------------------------------------------------------------
(* Requests.                                                               *)

\* A request waits in the request channel; a full channel blocks the script.
Enqueue(metric) ==
  /\ IF out[held] < SendCapacity
     THEN /\ out' = [out EXCEPT ![held] = @ + 1]
          /\ told' = Says("ok", metric)
          /\ script' = script
     ELSE /\ script' = "sending"
          /\ UNCHANGED <<out, told>>
  /\ UNCHANGED <<setup, hold, threads, server, got>>

\* subscribe, unsubscribe and publish of an MQTT client; they fail once the
\* event loop of the connection is gone.
MqttRequest ==
  /\ Calls("mqtt")
  /\ IF held = None \/ pump[held].pc = "over"
     THEN Fails(held # None, 0)
     ELSE Enqueue(200)

MqttSubscribe == MqttRequest
MqttUnsubscribe == MqttRequest
MqttPublish == MqttRequest

AmqpPublish == Calls("amqp") /\ Exchange(held # None, Counted)
AmqpAck == Calls("amqp") /\ Exchange(held # None, Uncounted)
AmqpNack == Calls("amqp") /\ Exchange(held # None, Uncounted)
AmqpDeclareExchange == Calls("amqp") /\ Exchange(held # None, Counted)
AmqpDeclareQueue == Calls("amqp") /\ Exchange(held # None, Counted)
AmqpBindQueue == Calls("amqp") /\ Exchange(held # None, Counted)

\* send of a client or bidi stream: an error once the call is over.
StreamSend(k) ==
  /\ Calls(k)
  /\ opened > 0
  /\ IF held = None \/ pump[held].pc = "over"
     THEN Fails(held # None, None)
     ELSE Enqueue(None)

ClientSend == StreamSend("client")
BidiSend == StreamSend("bidi")

\* The blocked request gets its place, or fails with the call.
SendUnblocked ==
  /\ script = "sending"
  /\ out[held] < SendCapacity \/ pump[held].pc = "over"
  /\ script' = "free"
  /\ IF pump[held].pc = "over"
     THEN told' = Says("NetworkError", IF kind = "mqtt" THEN 0 ELSE None) /\ out' = out
     ELSE told' = Says("ok", IF kind = "mqtt" THEN 200 ELSE None)
          /\ out' = [out EXCEPT ![held] = @ + 1]
  /\ UNCHANGED <<setup, hold, threads, server, got>>

\* The request channel is read: by the event loop of an MQTT connection while
\* the pump polls it, by the transport of a gRPC call while the server reads.
TakeRequest(n) ==
  /\ out[n] > 0 /\ ~away[n]
  /\ pump[n].pc \in IF kind = "mqtt" THEN {"poll"}
                    ELSE {"call", "connecting", "check", "poll", "send"}
  /\ kind = "bidi" => Len(wire[n]) = 0    \* bound: an echoing server and its window
  /\ out' = [out EXCEPT ![n] = @ - 1]
  /\ UNCHANGED <<setup, hold, threads, server, got, call>>

-----------------------------------------------------------------------------
(* The server and the pump.                                                *)

ServerSends(n) ==
  /\ pump[n].pc \in {"check", "poll", "send"} /\ ~ended[n] /\ ~away[n]
  /\ sent[n] < MaxMessages
  /\ sent' = [sent EXCEPT ![n] = @ + 1]
  /\ wire' = [wire EXCEPT ![n] = Append(@, sent[n] + 1)]
  /\ UNCHANGED <<setup, hold, threads, got, call, out, ended, away>>

\* The stream ends or breaks.  (An MQTT event loop connects again instead.)
ServerEnds(n) ==
  /\ kind # "mqtt"
  /\ pump[n].pc \in {"check", "poll", "send"} /\ ~ended[n]
  /\ ended' = [ended EXCEPT ![n] = TRUE]
  /\ UNCHANGED <<setup, hold, threads, got, call, out, wire, sent, away>>

\* The network to a broker fails and returns.  (What is under way then is lost,
\* as if it had not been sent; while the object has an AMQP connection this looks
\* like a broker that sends nothing.)
NetworkFails(n) ==
  /\ kind = "mqtt" \/ (kind = "amqp" /\ held # n)
  /\ pump[n].pc \in {"check", "poll", "send"} /\ ~away[n] /\ wire[n] = <<>>
  /\ away' = [away EXCEPT ![n] = TRUE]
  /\ UNCHANGED <<setup, hold, threads, got, call, out, wire, sent, ended>>

NetworkReturns(n) ==
  /\ away[n]
  /\ away' = [away EXCEPT ![n] = FALSE]
  /\ UNCHANGED <<setup, hold, threads, got, call, out, wire, sent, ended>>

PumpTo(n, pc, msg) == pump' = [pump EXCEPT ![n] = [pc |-> pc, msg |-> msg]]

\* The response of a bidi call comes, or the call fails.
BidiResponds(n) ==
  /\ pump[n].pc = "connecting"
  /\ \E pc \in {"check", "over"} : PumpTo(n, pc, 0)
  /\ UNCHANGED <<setup, hold, server, got, call, running, out>>

\* while running.load()
PumpChecks(n) ==
  /\ pump[n].pc = "check"
  /\ PumpTo(n, IF running[n] THEN "poll" ELSE "over", 0)
  /\ UNCHANGED <<setup, hold, server, got, call, running, out>>

\* A message within the 100 ms.
PumpTakes(n) ==
  /\ pump[n].pc = "poll"
  /\ wire[n] # <<>>
  /\ PumpTo(n, "send", Head(wire[n]))
  /\ wire' = [wire EXCEPT ![n] = Tail(@)]
  /\ UNCHANGED <<setup, hold, got, call, running, out, sent, ended, away>>

\* The timeout of the poll; also an error of an MQTT connection (for an unreachable
\* broker, at every poll) or a delivery.
PumpIdles(n) ==
  /\ pump[n].pc = "poll"
  /\ wire[n] = <<>>
  /\ PumpTo(n, "check", 0)
  /\ UNCHANGED <<setup, hold, server, got, call, running, out>>

\* Faulty variant: a Disconnected event loop is polled on.
IgnoresDisconnect(n) ==
  /\ pump[n].pc = "poll"
  /\ wire[n] = <<>>
  /\ ended[n]
  /\ PumpTo(n, "over", 0)
  /\ UNCHANGED <<setup, hold, server, got, call, running, out>>

\* Nothing more comes: the stream has ended, or (MQTT, AMQP) the object has let
\* go of the connection, which the client tells only while there is one.
PumpEnds(n) ==
  /\ pump[n].pc = "poll"
  /\ wire[n] = <<>>
  /\ ended[n] \/ (kind \in {"mqtt", "amqp"} /\ held # n /\ ~away[n])
  /\ PumpTo(n, "over", 0)
  /\ UNCHANGED <<setup, hold, server, got, call, running, out>>

\* Faulty variant: a message is dropped when the channel is full.
DropsWhenFull(n) ==
  /\ pump[n].pc = "send" /\ rx = n
  /\ queue' = IF Len(queue[n]) < Capacity
              THEN [queue EXCEPT ![n] = Append(@, pump[n].msg)] ELSE queue
  /\ PumpTo(n, "check", 0)
  /\ UNCHANGED <<setup, hold, server, call, running, out, taken>>

\* tx.send(msg): waits while the channel is full.
PumpForwards(n) ==
  /\ pump[n].pc = "send" /\ rx = n
  /\ Len(queue[n]) < Capacity
  /\ queue' = [queue EXCEPT ![n] = Append(@, pump[n].msg)]
  /\ PumpTo(n, "check", 0)
  /\ UNCHANGED <<setup, hold, server, call, running, out, taken>>

\* The receiver is gone: MQTT ignores it and polls on, the others break.
PumpSendFails(n) ==
  /\ pump[n].pc = "send" /\ rx # n
  /\ PumpTo(n, IF kind = "mqtt" THEN "check" ELSE "over", 0)
  /\ UNCHANGED <<setup, hold, server, got, call, running, out>>

\* The call of a client stream ends, with the server's answer or an error.
ServerAnswers(n) ==
  /\ pump[n].pc = "call"
  /\ PumpTo(n, "over", 0)
  /\ queue' = [queue EXCEPT ![n] = <<0>>]
  /\ UNCHANGED <<setup, hold, server, call, running, out, taken>>

-----------------------------------------------------------------------------
(* recv() and close().                                                     *)

\* Faulty variant: recv() says "closed" as soon as the pump is over.
ClosedAtOnce(n) == pump[n].pc = "over"

\* recv_timeout is Disconnected: the sender is gone and the channel is empty.
IsClosed(n) == queue[n] = <<>> /\ pump[n].pc = "over"

\* recv(timeout): a value, "timeout", "closed" or "not_connected".
Recv(metric) ==
  /\ \/ /\ rx = None
        /\ told' = Says("not_connected", None)
        /\ UNCHANGED got
     \/ /\ rx # None /\ IsClosed(rx)
        /\ told' = Says("closed", None)
        /\ UNCHANGED got
     \/ /\ rx # None /\ ~IsClosed(rx) /\ queue[rx] = <<>>
        /\ told' = Says("timeout", None)
        /\ UNCHANGED got
     \/ /\ rx # None /\ ~IsClosed(rx) /\ queue[rx] # <<>>
        /\ queue' = [queue EXCEPT ![rx] = Tail(@)]
        /\ taken' = [taken EXCEPT ![rx] = Append(@, Head(queue[rx]))]
        /\ told' = Says("value", metric)
  /\ UNCHANGED <<setup, hold, threads, server, out, script>>

MqttRecv == Calls("mqtt") /\ Recv(200)
AmqpRecv == Calls("amqp") /\ Recv(200)
ServerRecv == Calls("server") /\ opened > 0 /\ Recv(None)
BidiRecv == Calls("bidi") /\ opened > 0 /\ Recv(None)

\* closeAndRecv: drop the sender, then wait for the answer without a timeout.
CloseAndRecv ==
  /\ Calls("client") /\ opened > 0
  /\ held' = None
  /\ IF rx = None THEN told' = Says("StateError", None) /\ script' = script
                  ELSE told' = told /\ script' = "waiting"
  /\ UNCHANGED <<setup, threads, server, got, rx, out>>

Answered ==
  /\ script = "waiting"
  /\ pump[rx].pc = "over"
  /\ rx' = None
  /\ script' = "free"
  /\ told' \in {Says("value", None), Says("NetworkError", None)}
  /\ UNCHANGED <<setup, threads, server, got, held, out>>

LowerFlag == running' = IF kind \in {"mqtt", "amqp"} \/ held = None
                        THEN [n \in Ids |-> FALSE]
                        ELSE [running EXCEPT ![held] = FALSE]

\* close() of MQTT and AMQP lowers the flag, waits, then lets go.
ClientClose ==
  /\ LowerFlag
  /\ script' = "closing"
  /\ UNCHANGED <<setup, hold, server, got, pump, out, told>>

MqttClose == Calls("mqtt") /\ ClientClose
AmqpClose == Calls("amqp") /\ ClientClose

\* close() and Drop of a stream lower its flag, let go, then wait.
StreamClose ==
  /\ LowerFlag
  /\ script' = "closing"
  /\ LetGo
  /\ UNCHANGED <<setup, server, pump, told>>

ServerClose == Calls("server") /\ StreamClose
BidiClose == Calls("bidi") /\ StreamClose
DropServerStream == Calls("server") /\ held # None /\ StreamClose
DropBidiStream == Calls("bidi") /\ held # None /\ StreamClose

\* The wait ends: the pump is over, or a second (100 ms in Drop) has passed.
CloseEnds ==
  /\ script = "closing"
  /\ script' = "free"
  /\ LetGo
  /\ told' = Says("ok", None)
  /\ UNCHANGED <<setup, threads, server>>

\* The garbage collector drops an MQTT or AMQP object or a client stream: its
\* fields go, the flag stays, the thread is not waited for.
DropClient ==
  /\ kind \in {"mqtt", "amqp", "client"} /\ script = "free"
  /\ script' = "gone"
  /\ LetGo
  /\ UNCHANGED <<setup, threads, server, told>>

-----------------------------------------------------------------------------
PumpStep(n) ==
  \/ PumpChecks(n) \/ PumpTakes(n) \/ PumpIdles(n) \/ PumpEnds(n)
  \/ PumpForwards(n) \/ PumpSendFails(n)

Opening ==
  \/ MqttConnect \/ AmqpConnect \/ AmqpSubscribe
  \/ GrpcLoad \/ GrpcConnect \/ GrpcInvoke \/ GrpcRefused
  \/ ServerStream \/ ClientStream \/ BidiStream

Requesting ==
  \/ MqttSubscribe \/ MqttUnsubscribe \/ MqttPublish
  \/ AmqpPublish \/ AmqpAck \/ AmqpNack
  \/ AmqpDeclareExchange \/ AmqpDeclareQueue \/ AmqpBindQueue
  \/ ClientSend \/ BidiSend

Ending ==
  \/ MqttRecv \/ AmqpRecv \/ ServerRecv \/ BidiRecv \/ CloseAndRecv
  \/ MqttClose \/ AmqpClose \/ ServerClose \/ BidiClose
  \/ DropServerStream \/ DropBidiStream \/ DropClient

StreamNext ==
  \/ Opening \/ Requesting \/ Ending
  \/ SendUnblocked \/ Answered \/ CloseEnds
  \/ \E n \in Ids :
       \/ PumpStep(n) \/ TakeRequest(n)
       \/ ServerSends(n) \/ ServerEnds(n) \/ ServerAnswers(n) \/ BidiResponds(n)
       \/ NetworkFails(n) \/ NetworkReturns(n)

\* The pump threads run, and one that is polled again and again learns that
\* nothing more comes.  Servers, brokers and the network owe nothing.
StreamFairness == \A n \in Ids : WF_streamVars(PumpStep(n)) /\ SF_streamVars(PumpEnds(n))

\* An event loop that is polled again and again takes what it has, and a close or
\* a blocked send goes on when it can.
CallFairness ==
  /\ \A n \in Ids : SF_streamVars(kind = "mqtt" /\ TakeRequest(n))
  /\ WF_streamVars(SendUnblocked)
  /\ WF_streamVars(CloseEnds)

StreamSpec == StreamInit /\ [][StreamNext]_streamVars /\ StreamFairness

-----------------------------------------------------------------------------
StreamTypeOK ==
  /\ kind \in Kinds /\ opened \in 0 .. MaxOpens
  /\ held \in Ids \cup {None} /\ rx \in Ids \cup {None}
  /\ \A n \in Ids : Len(queue[n]) <= Capacity /\ out[n] <= SendCapacity
  /\ opened > 0 => script \in {"free", "sending", "waiting", "closing", "gone"}

InHand(n) == IF pump[n].pc = "send" THEN <<pump[n].msg>> ELSE <<>>

\* While the script holds a subscription or stream, every message of it is in
\* order somewhere between the server and recv(): the full channel makes the
\* pump wait, nothing is dropped.
NothingDropped ==
  \A n \in Ids : (rx = n /\ kind # "client") =>
    taken[n] \o queue[n] \o InHand(n) \o wire[n] = [i \in 1 .. sent[n] |-> i]

\* recv() says "closed" only when the script has had every message.
ClosedMeansAll ==
  (told.result = "closed" /\ rx # None /\ script = "free") => Len(taken[rx]) = sent[rx]

\* No one answers the thread of connection n: the broker is away, or the gRPC
\* call has no response yet.
Unanswered(n) == away[n] \/ pump[n].pc \in {"connecting", "call"}

LetGoOf(n) == pump[n] # NoPump /\ rx # n
Over(n) == pump[n].pc = "over" \/ rx = n

\* "thread will exit on next flag check": the thread of a connection or stream that
\* the script has let go of ends.
ThreadExits(n) == LetGoOf(n) ~> Over(n)

\* It does unless it is left unanswered again and again, also when an MQTT or AMQP
\* object raises its one flag again by reconnecting.  While the flag is down it
\* ends whatever a broker does, once its call has a response.
PumpsEnd ==
  \A n \in Ids :
    /\ []<>Unanswered(n) \/ ThreadExits(n)
    /\ LetGoOf(n) ~> (Over(n) \/ running[n] \/ pump[n].pc \in {"connecting", "call"})

\* "Send to channel, ignore if full": a request of the script is not held up by
\* messages it has not read yet.  (By a broker that is away it may be.)
SendReturns ==
  \A n \in Ids : (script = "sending" /\ held = n) ~> (script # "sending" \/ away[n])
=============================================================================
