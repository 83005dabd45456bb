----------------------------- MODULE MCBridges -----------------------------
(***************************************************************************)
(* Model checking of the script bridges.  A behaviour is that of the one   *)
(* client, picked by `kind`, that the script uses; the variables of the    *)
(* other components keep their initial values.                             *)
(***************************************************************************)
EXTENDS Naturals, Sequences

CONSTANTS
  Kinds, None,
  Capacity, SendCapacity, MaxMessages, MaxOpens,                   \* StreamClients
  MaxRetries, Events, Lines, MaxFrames, MaxConnects,               \* SocketClients
  Crew, Carriers, Yields, Stride, MaxIds, MaxTries, Filter,        \* ScriptThreads
  MaxPages, MaxPolls                                               \* BrowserPages

VARIABLES
  kind, script,
  grpc, opened, held, rx, running, pump, queue, out, wire, sent, ended, away, taken, told,
  reconnect, inner, peer, inbox, next, connects, tries, acc, answer, lost,
  runs, at, writer, shared, cache, has, tried, filter, scenario, lines, counter, ids,
  launched, pages, open, current, entry, wait, last, shot

ASSUME BridgeAssumption ==
  /\ MaxOpens \in Nat \ {0} /\ MaxRetries \in Nat /\ Events \in Nat /\ Lines \in Nat
  /\ Stride \in Nat
  /\ None \notin Nat /\ None \notin Crew
  /\ \A w \in Crew : w[2] \in Nat

\* Two scenarios number their workers alike.
TwoScenarios == {<<"login", 1>>, <<"browse", 1>>, <<"browse", 2>>}

Streams == INSTANCE StreamClients
Sockets == INSTANCE SocketClients
Scripts == INSTANCE ScriptThreads
Pages == INSTANCE BrowserPages

streams == <<grpc, opened, held, rx, running, pump, queue, out, wire, sent, ended, away, taken, told>>
sockets == <<reconnect, inner, peer, inbox, next, connects, tries, acc, answer, lost>>
scripts == <<runs, at, writer, shared, cache, has, tried, filter, scenario, lines, counter, ids>>
browser == <<launched, pages, open, current, entry, wait, last, shot>>
bridgeVars == <<kind, script, streams, sockets, scripts, browser>>

BridgeInit ==
  /\ Streams!StreamInit
  /\ Sockets!SocketInit
  /\ Scripts!ThreadInit
  /\ Pages!BrowserInit

BridgeNext ==
  \/ /\ kind \in {"mqtt", "amqp", "server", "client", "bidi"}
     /\ Streams!StreamNext
     /\ UNCHANGED <<sockets, scripts, browser>>
  \/ /\ kind \in {"ws", "sse"}
     /\ Sockets!SocketNext
     /\ UNCHANGED <<streams, scripts, browser>>
  \/ /\ kind \in {"array", "csv", "log", "ids"}
     /\ Scripts!ThreadNext
     /\ UNCHANGED <<script, streams, sockets, browser>>
  \/ /\ kind = "browser"
     /\ Pages!BrowserNext
     /\ UNCHANGED <<script, streams, sockets, scripts>>

BridgeSpec == BridgeInit /\ [][BridgeNext]_bridgeVars /\ Streams!StreamFairness

\* With the fairness of the calls, for what a script waits for.
CallSpec == BridgeSpec /\ Streams!CallFairness

\* The run of the scripts alone, with the fairness of their threads.
ScriptSpec == BridgeInit /\ [][BridgeNext]_bridgeVars /\ Scripts!ThreadFairness

-----------------------------------------------------------------------------
\* Streams: nothing is dropped between the server and recv(), which says
\* "closed" only after the last message.
StreamsDeliver == Streams!NothingDropped /\ Streams!ClosedMeansAll

\* Streams: the pump of a connection that was let go of ends, unless no one answers it.
PumpsEnd == Streams!PumpsEnd

\* WebSocket: a call without connection fails only after its attempts.
RetriedBeforeFailing == kind = "ws" => Sockets!RetriedBeforeFailing

\* Server-sent events: an event arrives by itself, and whole unless a timeout or the
\* end of the stream has cut it.
EventsWhole == kind = "sse" => Sockets!EventsWhole

\* Shared state of the workers: one data set, and ids that are unique over
\* workers and scenarios.
SharedIsOne == Scripts!OneDataSet /\ Scripts!IdsUnique

\* Browser: the page a failed check shows is open.
CurrentIsOpen == kind = "browser" => Pages!CurrentIsOpen

\* Type correctness of the four components.
BridgesTypeOK ==
  /\ Streams!StreamTypeOK
  /\ Sockets!SocketTypeOK
  /\ Scripts!ThreadTypeOK
  /\ Pages!BrowserTypeOK

-----------------------------------------------------------------------------
\* "Send to channel, ignore if full or disconnected": a request of the script
\* is not held up by messages it has not read.
SendReturns == Streams!SendReturns

\* The thread of a connection that was let go of ends ("thread will exit on next
\* flag check").
ThreadsExit == \A n \in Streams!Ids : Streams!ThreadExits(n)

\* "If connection drops, send/recv will automatically reconnect."
ReconnectsAfterDrop == Sockets!ReconnectsAfterDrop

\* "Empty line = end of event": no event is handed out before its empty line.
EventsComplete == kind = "sse" => Sockets!EventsComplete

\* "Data is shared across all workers."
CsvShared == Scripts!CsvShared

\* "Only logs from the matching scenario will be shown."
OnlyMatchingLogs == Scripts!OnlyMatchingLogs

\* A worker that waits for a SharedArray gets on.
DataComes == Scripts!DataComes

\* "Waits for a network response matching the URL pattern."
ResponseSeen == Pages!ResponseSeen
=============================================================================
