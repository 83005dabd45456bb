--------------------------- MODULE SocketClients ---------------------------
(***************************************************************************)
(* The clients that read their connection in the script's own thread:      *)
(* WebSocket (bridge/ws.rs) and server-sent events (bridge/sse.rs).        *)
(*                                                                         *)
(* A frame is its type.  An event stream is a sequence of lines: a line of *)
(* event n is <<"field", n>>, a blank line ends an event, a comment is a   *)
(* keep-alive.  A line arrives at once.                                    *)
(***************************************************************************)
EXTENDS Naturals, Sequences, SequencesExt

CONSTANTS
  Kinds,        \* which clients: "ws", "sse"
  MaxRetries,   \* maxRetries of ws.connect
  Events,       \* bound: events 1 .. Events of a stream ...
  Lines,        \* ... of so many field lines each
  MaxFrames,    \* bound: frames a WebSocket peer sends
  MaxConnects   \* bound: connections made

VARIABLES
  kind,        \* "ws" or "sse"
  reconnect,   \* option `reconnect` of ws.connect
  inner,       \* the object has a connection
  peer,        \* the connection itself: "up", "ended" (close frame or EOF), "down"
  inbox,       \* frames or lines that have arrived and are not read
  next,        \* <<event, line>> the SSE server writes next; frames sent
  connects,    \* connections made
  script,      \* "free", or the call under way
  tries,       \* reconnect attempts of the call under way
  acc,         \* lines of the event read_sse_event is reading
  answer,      \* what the last call returned, and whether it had a connection
  lost         \* history: events of which a read that timed out lost lines

socketVars == <<kind, reconnect, inner, peer, inbox, next, connects, script, tries, acc, answer, lost>>

SocketInit ==
  /\ kind \in Kinds
  /\ reconnect \in (IF kind = "ws" THEN BOOLEAN ELSE {FALSE})
  /\ inner = FALSE /\ peer = "down"
  /\ inbox = <<>> /\ next = <<1, 1>> /\ connects = 0
  /\ script = "free" /\ tries = 0 /\ acc = <<>>
  /\ answer = [result |-> "none", event |-> <<>>, had |-> FALSE] /\ lost = {}

\* The call ends; `had` says whether it had a connection.
Returns(result, event, had) ==
  /\ script' = "free"
  /\ acc' = <<>>
  /\ answer' = [result |-> result, event |-> event, had |-> had]

\* A new connection: nothing has arrived on it yet.
Connected ==
  /\ connects < MaxConnects
  /\ connects' = connects + 1
  /\ inner' = TRUE /\ peer' = "up" /\ inbox' = <<>>

\* ws.connect and sse.connect throw when there is no connection.
WsConnect ==
  /\ kind = "ws" /\ script = "free" /\ connects = 0
  /\ \/ Connected /\ Returns("ok", <<>>, FALSE)
     \/ Returns("throws", <<>>, FALSE) /\ UNCHANGED <<inner, peer, inbox, connects>>
  /\ UNCHANGED <<kind, reconnect, next, tries, lost>>

SseConnect ==
  /\ kind = "sse" /\ script = "free" /\ connects = 0
  /\ \/ Connected /\ Returns("ok", <<>>, FALSE)
     \/ Returns("throws", <<>>, FALSE) /\ UNCHANGED <<inner, peer, inbox, connects>>
  /\ UNCHANGED <<kind, reconnect, next, tries, lost>>

-----------------------------------------------------------------------------
(* WebSocket.                                                              *)

\* send and recv of an object without connection connect again, if asked to.
Begin(op, again) ==
  /\ kind = "ws" /\ script = "free" /\ connects > 0
  /\ script' = IF ~inner /\ reconnect THEN again ELSE op
  /\ tries' = 0
  /\ UNCHANGED <<kind, reconnect, inner, peer, inbox, next, connects, acc, answer, lost>>

BeginSend == Begin("send", "resend")
BeginRecv == Begin("recv", "rerecv")
Reconnecting == script \in {"resend", "rerecv"}
After == IF script = "resend" THEN "send" ELSE "recv"

\* Faulty variant: the last attempt is not made.
OneAttemptLess == tries + 1 < MaxRetries

\* for attempt in 0..max_retries
AttemptsLeft == tries < MaxRetries

\* attempt_reconnect: back off, connect; the first success ends it.
AttemptReconnect ==
  /\ Reconnecting /\ AttemptsLeft
  /\ tries' = tries + 1
  /\ \/ Connected /\ script' = After
     \/ UNCHANGED <<inner, peer, inbox, connects, script>>
  /\ UNCHANGED <<kind, reconnect, next, acc, answer, lost>>

\* Every attempt failed: send throws, recv returns null.
GiveUp ==
  /\ Reconnecting /\ ~AttemptsLeft
  /\ Returns(IF After = "send" THEN "throws" ELSE "null", <<>>, FALSE)
  /\ UNCHANGED <<kind, reconnect, inner, peer, inbox, next, connects, tries, lost>>

\* The frame is written; the write to a connection that is gone is an error,
\* and the object keeps the connection.
Send ==
  /\ script = "send"
  /\ Returns(IF inner /\ peer = "up" THEN "ok" ELSE "throws", <<>>, inner)
  /\ UNCHANGED <<kind, reconnect, inner, peer, inbox, next, connects, tries, lost>>

\* sendBinary never connects again; data that is not base64 is refused first.
SendBinary ==
  /\ kind = "ws" /\ script = "free" /\ connects > 0
  /\ \/ inner /\ peer = "up" /\ Returns("ok", <<>>, inner)
     \/ Returns("refused", <<>>, inner)
  /\ UNCHANGED <<kind, reconnect, inner, peer, inbox, next, connects, tries, lost>>

\* read() returns the next frame; a close frame also drops the connection.
\* An error is thrown and the object keeps the connection.
Recv ==
  /\ script = "recv"
  /\ \/ /\ ~inner
        /\ Returns("null", <<>>, FALSE)
        /\ UNCHANGED <<inner, inbox>>
     \/ /\ inner /\ inbox # <<>>
        /\ inbox' = Tail(inbox)
        /\ inner' = (Head(inbox) # "close")
        /\ Returns(IF inner' THEN Head(inbox) ELSE "null", <<>>, TRUE)
     \/ /\ inner /\ inbox = <<>> /\ peer # "up"
        /\ Returns("throws", <<>>, TRUE)
        /\ UNCHANGED <<inner, inbox>>
  /\ UNCHANGED <<kind, reconnect, peer, next, connects, tries, lost>>

WsClose ==
  /\ kind = "ws" /\ script = "free" /\ connects > 0
  /\ inner' = FALSE
  /\ peer' = IF inner THEN "down" ELSE peer
  /\ Returns("ok", <<>>, inner)
  /\ UNCHANGED <<kind, reconnect, inbox, next, connects, tries, lost>>

-----------------------------------------------------------------------------
(* Server-sent events.                                                     *)

BeginEvent ==
  /\ kind = "sse" /\ script = "free" /\ connects > 0
  /\ IF inner THEN script' = "event" /\ UNCHANGED <<acc, answer>>
              ELSE Returns("null", <<>>, FALSE)
  /\ UNCHANGED <<kind, reconnect, inner, peer, inbox, next, connects, tries, lost>>

\* Faulty variant: a comment ends the event.
EndsAtComment(line) == line[1] \in {"blank", "comment"} /\ acc # <<>>

\* An empty line ends an event that has content.
EndsEvent(line) == line[1] = "blank" /\ acc # <<>>

\* One line of read_sse_event: field lines add up, comments and empty lines
\* before the first field are skipped.
ReadLine ==
  /\ script = "event" /\ inbox # <<>>
  /\ inbox' = Tail(inbox)
  /\ LET line == Head(inbox) IN
     IF EndsEvent(line) THEN Returns("event", acc, TRUE)
     ELSE /\ acc' = IF line[1] = "field" THEN Append(acc, line[2]) ELSE acc
          /\ UNCHANGED <<script, answer>>
  /\ UNCHANGED <<kind, reconnect, inner, peer, next, connects, tries, lost>>

\* End of the stream: what has been read is the last event, else null.
ReadEof ==
  /\ script = "event" /\ inbox = <<>> /\ peer = "ended"
  /\ IF acc # <<>> THEN Returns("event", acc, TRUE) /\ inner' = inner
                   ELSE Returns("null", <<>>, TRUE) /\ inner' = FALSE
  /\ UNCHANGED <<kind, reconnect, peer, inbox, next, connects, tries, lost>>

\* The read fails: the lines read so far are gone with it.  A timeout, as long as
\* the library reports it as one, keeps the connection; any other error drops it.
ReadFails ==
  /\ script = "event" /\ inbox = <<>>
  /\ \/ peer = "up" /\ inner' \in {inner, FALSE}
     \/ peer = "down" /\ inner' = FALSE
  /\ lost' = lost \cup Range(acc)
  /\ Returns("null", <<>>, TRUE)
  /\ UNCHANGED <<kind, reconnect, peer, inbox, next, connects, tries>>

SseClose ==
  /\ kind = "sse" /\ script = "free" /\ connects > 0
  /\ inner' = FALSE
  /\ Returns("ok", <<>>, inner)
  /\ UNCHANGED <<kind, reconnect, peer, inbox, next, connects, tries, lost>>

-----------------------------------------------------------------------------
(* The peer.                                                               *)

PeerFrame(frame) ==
  /\ kind = "ws" /\ peer = "up" /\ inner
  /\ next[2] <= MaxFrames
  /\ next' = [next EXCEPT ![2] = @ + 1]
  /\ inbox' = Append(inbox, frame)
  /\ peer' = IF frame = "close" THEN "ended" ELSE peer
  /\ UNCHANGED <<kind, reconnect, inner, connects, script, tries, acc, answer, lost>>

\* The server writes the next line, with a comment whenever it likes.
PeerLine(comment) ==
  /\ kind = "sse" /\ peer = "up"
  /\ IF comment
     THEN /\ ~Contains(inbox, <<"comment", 0>>)
          /\ inbox' = Append(inbox, <<"comment", 0>>)
          /\ next' = next
     ELSE LET n == next[1] IN
          /\ n <= Events
          /\ IF next[2] <= Lines
             THEN /\ inbox' = Append(inbox, <<"field", n>>)
                  /\ next' = <<n, next[2] + 1>>
             ELSE /\ inbox' = Append(inbox, <<"blank", n>>)
                  /\ next' = <<n + 1, 1>>
  /\ UNCHANGED <<kind, reconnect, inner, peer, connects, script, tries, acc, answer, lost>>

\* The server ends the stream, also in the middle of an event.
PeerEnds ==
  /\ kind = "sse" /\ peer = "up"
  /\ peer' = "ended"
  /\ UNCHANGED <<kind, reconnect, inner, inbox, next, connects, script, tries, acc, answer, lost>>

\* The connection breaks.
PeerDrops ==
  /\ peer = "up"
  /\ peer' = "down"
  /\ UNCHANGED <<kind, reconnect, inner, inbox, next, connects, script, tries, acc, answer, lost>>

-----------------------------------------------------------------------------
SocketNext ==
  \/ WsConnect \/ BeginSend \/ BeginRecv \/ AttemptReconnect \/ GiveUp
  \/ Send \/ SendBinary \/ Recv \/ WsClose
  \/ SseConnect \/ BeginEvent \/ ReadLine \/ ReadEof \/ ReadFails \/ SseClose
  \/ \E f \in {"text", "binary", "close"} : PeerFrame(f)
  \/ \E c \in BOOLEAN : PeerLine(c)
  \/ PeerEnds \/ PeerDrops

\* A call goes on by itself; the peer owes nothing.
SocketFairness ==
  WF_socketVars(AttemptReconnect \/ GiveUp \/ Send)

SocketSpec == SocketInit /\ [][SocketNext]_socketVars /\ SocketFairness

-----------------------------------------------------------------------------
SocketTypeOK ==
  /\ kind \in Kinds /\ reconnect \in BOOLEAN /\ inner \in BOOLEAN
  /\ peer \in {"up", "ended", "down"}
  /\ connects \in 0 .. MaxConnects /\ tries \in 0 .. MaxRetries

\* A WebSocket call that finds no connection reports failure only after all
\* the attempts it was given, and an object that was not asked to reconnect
\* makes none.
RetriedBeforeFailing ==
  /\ (kind = "ws" /\ reconnect /\ connects > 0 /\ script = "free" /\ ~answer.had
        /\ answer.result \in {"throws", "null"}) => tries = MaxRetries
  /\ ~reconnect => connects <= 1

\* An event is handed to the script by itself -- lines of one event, with keep-alive
\* comments in between or not -- and whole, unless a read that timed out has taken
\* lines of it or the stream has ended in the middle of it.
EventsWhole ==
  (kind = "sse" /\ answer.result = "event") =>
    \E n \in 1 .. Events, k \in 1 .. Lines :
      /\ answer.event = [i \in 1 .. k |-> n]
      /\ k = Lines \/ n \in lost \/ (peer = "ended" /\ inbox = <<>> /\ next[1] = n)

\* A send that has to reconnect returns.
ReconnectEnds == Reconnecting ~> (script = "free" \/ script = "recv")

\* "If connection drops, send/recv will automatically reconnect": a call fails
\* only after the attempts to connect again.
ReconnectsAfterDrop ==
  (kind = "ws" /\ reconnect /\ connects > 0 /\ script = "free" /\ answer.result = "throws") =>
    tries = MaxRetries

\* "Empty line = end of event": what recv returns is a complete event.
EventsComplete ==
  (kind = "sse" /\ answer.result = "event") => Len(answer.event) = Lines
=============================================================================
