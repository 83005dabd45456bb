---------------------------- MODULE BridgeProofs ----------------------------
(***************************************************************************)
(* Proofs about the script bridges: what MCBridges checks on small         *)
(* instances, for every capacity of the channels, every number of          *)
(* messages, connections, retries, events, workers and pages.              *)
(***************************************************************************)
EXTENDS MCBridges, SequenceTheorems, TLAPS

-----------------------------------------------------------------------------
(* The inductive invariants.  A component the script does not use keeps    *)
(* its initial state.                                                      *)

StreamKinds == {"mqtt", "amqp", "server", "client", "bidi"}
Connections == 1 .. MaxOpens

PumpRecords ==
  [pc : {"none", "connecting", "check", "poll", "send", "call", "over"}, msg : Nat]

StreamTypes ==
  /\ opened \in 0 .. MaxOpens
  /\ held \in (1 .. opened) \cup {None} /\ rx \in Connections \cup {None}
  /\ running \in [Connections -> BOOLEAN]
  /\ pump \in [Connections -> PumpRecords]
  /\ queue \in [Connections -> Seq(Nat)]
  /\ wire \in [Connections -> Seq(Nat)]
  /\ taken \in [Connections -> Seq(Nat)]
  /\ sent \in [Connections -> Nat]

\* A connection without a pump, or whose call has no response, is new, and only
\* client streams make calls.
PumpsFit ==
  \A n \in Connections :
    /\ n > opened => pump[n].pc = "none"
    /\ pump[n].pc \in {"none", "connecting"} => wire[n] = <<>> /\ sent[n] = 0
    /\ pump[n].pc = "call" => kind = "client"

\* The pump of the receiver the script holds is told to run until the script
\* closes, and ends by itself only when nothing more comes.
HeldRuns ==
  \A n \in Connections : (rx = n /\ kind # "client" /\ script # "closing") =>
    running[n] /\ (pump[n].pc = "over" => wire[n] = <<>>)

\* What the channel said stays so: nothing comes after "closed".
ClosedStays ==
  told.result = "closed" =>
    /\ kind # "client"
    /\ \A n \in Connections : rx = n => pump[n].pc = "over" /\ queue[n] = <<>>

StreamInv ==
  /\ kind \in StreamKinds =>
       StreamTypes /\ PumpsFit /\ HeldRuns /\ ClosedStays /\ Streams!NothingDropped
  /\ kind \notin StreamKinds => rx = None

\* WebSocket: a call that goes on without connecting again has its connection,
\* if the object was asked to reconnect.
WsInv ==
  kind = "ws" =>
    /\ connects \in Nat /\ tries \in Nat /\ tries <= MaxRetries
    /\ script # "event"
    /\ script \in {"resend", "rerecv"} => reconnect /\ connects > 0
    /\ (reconnect /\ script \in {"send", "recv"}) => inner
    /\ Sockets!RetriedBeforeFailing

\* A line of an event stream takes the server from one place to the next: it
\* is comment, field line b of event a, or the blank line after event a.
LineAt(line, a, b, a2, b2) ==
  \/ line[1] = "comment" /\ a2 = a /\ b2 = b
  \/ line[1] = "field" /\ line[2] = a /\ a \in 1 .. Events /\ b <= Lines /\ a2 = a /\ b2 = b + 1
  \/ line[1] = "blank" /\ a \in 1 .. Events /\ b = Lines + 1 /\ a2 = a + 1 /\ b2 = 1

\* The lines in `box` take the server from <<a, b>> to <<a2, b2>>.
Leads(box, a, b, a2, b2) ==
  \E ev, ln \in [1 .. Len(box) + 1 -> Nat] :
    /\ ev[1] = a /\ ln[1] = b
    /\ ev[Len(box) + 1] = a2 /\ ln[Len(box) + 1] = b2
    /\ \A i \in 1 .. Len(box) : LineAt(box[i], ev[i], ln[i], ev[i + 1], ln[i + 1])

\* All of an ended stream has been read.
AtEnd == peer = "ended" /\ inbox = <<>>

\* The reader is at place p of event n: the inbox has what the server wrote from
\* there on, and what has been read of the event is all that came before, unless
\* a timeout has lost lines of it or its end has been handed out already.
InOrder ==
  \E n, p \in Nat : /\ acc = [i \in 1 .. Len(acc) |-> n]
                    /\ Len(acc) + 1 <= p
                    /\ n \in lost \/ AtEnd \/ p = Len(acc) + 1
                    /\ Leads(inbox, n, p, next[1], next[2])

SseTypes ==
  /\ connects \in Nat /\ script \in {"free", "event"}
  /\ next \in (Nat \ {0}) \X (1 .. Lines + 1)
  /\ next[2] > 1 => next[1] <= Events
  /\ inbox \in Seq({"field", "blank", "comment"} \X Nat)
  /\ acc \in Seq(Nat)

SseInv ==
  kind = "sse" =>
    /\ SseTypes
    /\ connects = 0 => /\ next = <<1, 1>> /\ acc = <<>> /\ peer = "down" /\ ~inner
                       /\ script = "free"
    /\ script = "event" => inner
    /\ inner => InOrder
    /\ Sockets!EventsWhole

\* The factory of a SharedArray runs under the write lock, and only while there
\* is no data set.
FactoryAlone == \A w \in Crew : at[w] = "factory" => writer = w /\ shared = None

\* An id is the base of its worker plus the counter when it was drawn, and no
\* two ids were drawn at the same count.
IdsCounted ==
  /\ counter \in Nat
  /\ \A i \in ids : \E w \in Crew, c \in Nat :
                      c < counter /\ i = <<w, w[2] * Stride + c, c>>
  /\ \A i, j \in ids : i[3] = j[3] => i = j

ScriptInv ==
  /\ at \in [Crew -> {"new", "script", "read", "write", "factory"}]
  /\ DOMAIN has = Crew
  /\ FactoryAlone /\ Scripts!OneDataSet /\ IdsCounted

PageInv == Pages!CurrentIsOpen

BridgeInv == StreamInv /\ WsInv /\ SseInv /\ ScriptInv /\ PageInv

-----------------------------------------------------------------------------
(* Browser pages.                                                          *)

LEMMA PageStep == PageInv /\ Pages!BrowserNext => PageInv'
  <1> SUFFICES ASSUME PageInv, Pages!BrowserNext PROVE PageInv'
    OBVIOUS
  <1> USE DEF PageInv, Pages!CurrentIsOpen
  <1>1. CASE Pages!NewPage
    BY <1>1 DEF Pages!NewPage
  <1>2. CASE Pages!BrowserClose
    BY <1>2 DEF Pages!BrowserClose
  <1>3. ASSUME NEW p \in 1 .. MaxPages, Pages!PageClose(p) PROVE PageInv'
    BY <1>3 DEF Pages!PageClose
  <1>4. CASE UNCHANGED <<open, current>>
    BY <1>4
  <1>5. ASSUME NEW p \in 1 .. MaxPages, NEW m, Pages!PageCall(p, m) PROVE PageInv'
    BY <1>4, <1>5 DEF Pages!PageCall
  <1>6. ASSUME NEW p \in 1 .. MaxPages, Pages!Responds(p) \/ Pages!WaitForResponse(p)
        PROVE  PageInv'
    BY <1>4, <1>6 DEF Pages!Responds, Pages!WaitForResponse
  <1>7. CASE Pages!Launch \/ Pages!Poll \/ \E o \in Pages!Outcomes : Pages!Check(o)
    BY <1>4, <1>7 DEF Pages!Launch, Pages!Poll, Pages!Check
  <1> QED
    BY <1>1, <1>2, <1>3, <1>5, <1>6, <1>7
       DEF Pages!BrowserNext, Pages!Goto, Pages!Click, Pages!TypeInto, Pages!Evaluate,
           Pages!Screenshot, Pages!Fill, Pages!WaitFor, Pages!EditPage, Pages!Cookies,
           Pages!QueryAll

-----------------------------------------------------------------------------
(* What the script contexts of the workers share.                          *)

\* Ranges of ids of two workers do not overlap.
LEMMA RangesApart ==
  ASSUME NEW a \in Nat, NEW b \in Nat, NEW s \in Nat, NEW c \in Nat, NEW d \in Nat,
         c < s, d < s, a * s + c = b * s + d
  PROVE  c = d
  <1>1. ASSUME NEW x \in Nat, NEW y \in Nat, x < y PROVE y * s >= x * s + s
    <2>1. PICK k \in Nat : y = x + 1 + k
      <3>1. y - x - 1 \in Nat /\ y = x + 1 + (y - x - 1)
        BY <1>1
      <3> QED
        BY <3>1
    <2>2. y * s = x * s + s + k * s
      BY <2>1
    <2>3. k * s \in Nat /\ x * s \in Nat /\ y * s \in Nat
      OBVIOUS
    <2> QED
      BY <2>2, <2>3
  <1>2. a * s \in Nat /\ b * s \in Nat
    OBVIOUS
  <1>3. CASE a < b
    <2>1. b * s >= a * s + s
      BY <1>1, <1>3
    <2> QED
      BY <1>2, <2>1
  <1>4. CASE b < a
    <2>1. a * s >= b * s + s
      BY <1>1, <1>4
    <2> QED
      BY <1>2, <2>1
  <1>5. CASE a = b
    BY <1>2, <1>5
  <1> QED
    BY <1>3, <1>4, <1>5

\* Constructors of a SharedArray, one step at a time.
LEMMA DataStep ==
  ASSUME ScriptInv, NEW w \in Crew,
         \/ Scripts!AskForData(w) \/ Scripts!TryRead(w) \/ Scripts!TakeWriteLock(w)
         \/ Scripts!FactoryReturns(w) \/ Scripts!FactoryFails(w)
  PROVE  ScriptInv'
  <1>1. UNCHANGED <<counter, ids>>
    BY DEF Scripts!AskForData, Scripts!TryRead, Scripts!TakeWriteLock, Scripts!FactoryReturns,
           Scripts!FactoryFails, Scripts!idVars
  <1>2. IdsCounted'
    BY <1>1 DEF ScriptInv, IdsCounted
  <1> USE DEF ScriptInv, FactoryAlone, Scripts!OneDataSet, Scripts!Goes, Scripts!Running
  <1>3. CASE Scripts!AskForData(w)
    BY <1>2, <1>3 DEF Scripts!AskForData, Scripts!data
  <1>4. CASE Scripts!TryRead(w)
    BY <1>2, <1>4 DEF Scripts!TryRead
  <1>5. CASE Scripts!TakeWriteLock(w)
    <2>1. writer = None /\ \A v \in Crew : at[v] # "factory"
      BY <1>5, BridgeAssumption DEF Scripts!TakeWriteLock, BridgeAssumption
    <2> QED
      BY <1>2, <1>5, <2>1 DEF Scripts!TakeWriteLock
  <1>6. CASE Scripts!FactoryReturns(w)
    <2>1. writer = w /\ shared = None /\ \A v \in Crew : at[v] = "factory" => v = w
      BY <1>6 DEF Scripts!FactoryReturns
    <2>2. kind = "array" => \A v \in Crew : has[v] = None
      BY <2>1
    <2> QED
      BY <1>2, <1>6, <2>1, <2>2 DEF Scripts!FactoryReturns
  <1>7. CASE Scripts!FactoryFails(w)
    <2>1. \A v \in Crew : at[v] = "factory" => v = w
      BY <1>7 DEF Scripts!FactoryFails
    <2> QED
      BY <1>2, <1>7, <2>1 DEF Scripts!FactoryFails
  <1> QED
    BY <1>3, <1>4, <1>5, <1>6, <1>7

\* An id that is drawn is counted.
LEMMA IdStep ==
  ASSUME ScriptInv, NEW w \in Crew, Scripts!DrawId(w)
  PROVE  ScriptInv'
  <1> DEFINE new == <<w, w[2] * Stride + counter, counter>>
  <1>1. ids' = ids \cup {new} /\ counter' = counter + 1 /\ counter \in Nat
    BY DEF Scripts!DrawId, Scripts!SequentialId, ScriptInv, IdsCounted
  <1>2. \A i \in ids : i[3] \in Nat /\ i[3] < counter
    BY DEF ScriptInv, IdsCounted
  <1>3. new[3] = counter
    OBVIOUS
  <1>4. \A i \in ids' : \E v \in Crew, c \in Nat :
                          c < counter' /\ i = <<v, v[2] * Stride + c, c>>
    <2> SUFFICES ASSUME NEW i \in ids'
                 PROVE  \E v \in Crew, c \in Nat :
                          c < counter' /\ i = <<v, v[2] * Stride + c, c>>
      OBVIOUS
    <2>1. CASE i = new
      BY <1>1, <2>1
    <2>2. CASE i \in ids
      <3>1. PICK v \in Crew, c \in Nat : c < counter /\ i = <<v, v[2] * Stride + c, c>>
        BY <2>2 DEF ScriptInv, IdsCounted
      <3>2. c < counter'
        BY <1>1, <3>1
      <3> QED
        BY <3>1, <3>2
    <2> QED
      BY <1>1, <2>1, <2>2
  <1> HIDE DEF new
  <1>5. \A i, j \in ids' : i[3] = j[3] => i = j
    <2>1. \A i \in ids : i[3] # counter
      BY <1>1, <1>2
    <2> QED
      BY <1>1, <1>3, <2>1 DEF ScriptInv, IdsCounted
  <1>6. counter' \in Nat
    BY <1>1
  <1> QED
    BY <1>4, <1>5, <1>6
       DEF Scripts!DrawId, Scripts!data, ScriptInv, IdsCounted, FactoryAlone, Scripts!OneDataSet

LEMMA ScriptStep == ScriptInv /\ Scripts!ThreadNext => ScriptInv'
  <1> SUFFICES ASSUME ScriptInv, Scripts!ThreadNext PROVE ScriptInv'
    OBVIOUS
  <1>1. CASE UNCHANGED <<kind, at, writer, shared, has, counter, ids>>
    BY <1>1 DEF ScriptInv, FactoryAlone, Scripts!OneDataSet, IdsCounted
  <1>2. CASE Scripts!SetLogFilter
    BY <1>1, <1>2 DEF Scripts!SetLogFilter, Scripts!data, Scripts!idVars
  <1>3. ASSUME NEW w \in Crew, NEW c \in Carriers, Scripts!Begin(w, c) PROVE ScriptInv'
    BY <1>3 DEF Scripts!Begin, Scripts!Goes, Scripts!data, Scripts!idVars, ScriptInv,
                FactoryAlone, Scripts!OneDataSet, IdsCounted
  <1>4. ASSUME NEW w \in Crew, NEW c \in Carriers, Scripts!Resume(w, c) PROVE ScriptInv'
    BY <1>1, <1>4 DEF Scripts!Resume, Scripts!data, Scripts!idVars
  <1>5. ASSUME NEW w \in Crew, Scripts!Yield(w) \/ Scripts!Log(w) PROVE ScriptInv'
    BY <1>1, <1>5 DEF Scripts!Yield, Scripts!Log, Scripts!data, Scripts!idVars
  <1>6. ASSUME NEW w \in Crew, Scripts!LoadCsv(w) PROVE ScriptInv'
    BY <1>6 DEF Scripts!LoadCsv, Scripts!idVars, ScriptInv, FactoryAlone, Scripts!OneDataSet,
                IdsCounted
  <1> QED
    BY <1>2, <1>3, <1>4, <1>5, <1>6, DataStep, IdStep DEF Scripts!ThreadNext

\* The invariant gives what MCBridges checks.
LEMMA SharedFromInv == ScriptInv => SharedIsOne
  <1> SUFFICES ASSUME ScriptInv PROVE Scripts!IdsUnique
    BY DEF ScriptInv, SharedIsOne
  <1> SUFFICES ASSUME NEW i \in ids, NEW j \in ids, i # j, counter <= Stride, i[2] = j[2]
               PROVE  FALSE
    BY DEF Scripts!IdsUnique
  <1>1. PICK v \in Crew, c \in Nat : c < counter /\ i = <<v, v[2] * Stride + c, c>>
    BY DEF ScriptInv, IdsCounted
  <1>2. PICK w \in Crew, d \in Nat : d < counter /\ j = <<w, w[2] * Stride + d, d>>
    BY DEF ScriptInv, IdsCounted
  <1>3. v[2] \in Nat /\ w[2] \in Nat /\ Stride \in Nat /\ counter \in Nat
    BY BridgeAssumption DEF BridgeAssumption, ScriptInv, IdsCounted
  <1>4. c < Stride /\ d < Stride /\ v[2] * Stride + c = w[2] * Stride + d
    BY <1>1, <1>2, <1>3
  <1>5. c = d
    BY <1>3, <1>4, RangesApart
  <1>6. i[3] = j[3]
    BY <1>1, <1>2, <1>5
  <1> QED
    BY <1>6 DEF ScriptInv, IdsCounted

-----------------------------------------------------------------------------
(* WebSocket.                                                              *)

\* Connecting, and calls that connect again first.
LEMMA WsStep ==
  ASSUME WsInv, kind = "ws", Sockets!SocketNext
  PROVE  WsInv'
  <1> USE DEF WsInv, Sockets!RetriedBeforeFailing
  <1>1. CASE Sockets!WsConnect
    BY <1>1 DEF Sockets!WsConnect, Sockets!Connected, Sockets!Returns
  <1>2. CASE Sockets!BeginSend \/ Sockets!BeginRecv
    BY <1>2, BridgeAssumption
       DEF Sockets!BeginSend, Sockets!BeginRecv, Sockets!Begin, BridgeAssumption
  <1>3. CASE Sockets!AttemptReconnect
    BY <1>3, BridgeAssumption
       DEF Sockets!AttemptReconnect, Sockets!AttemptsLeft, Sockets!Reconnecting, Sockets!After,
           Sockets!Connected, BridgeAssumption
  <1>4. CASE Sockets!GiveUp
    BY <1>4, BridgeAssumption
       DEF Sockets!GiveUp, Sockets!AttemptsLeft, Sockets!Reconnecting, Sockets!After,
           Sockets!Returns, BridgeAssumption
  <1>5. CASE Sockets!Send
    BY <1>5 DEF Sockets!Send, Sockets!Returns
  <1>6. CASE Sockets!SendBinary
    BY <1>6 DEF Sockets!SendBinary, Sockets!Returns
  <1>7. CASE Sockets!Recv
    BY <1>7 DEF Sockets!Recv, Sockets!Returns
  <1>8. CASE Sockets!WsClose
    BY <1>8 DEF Sockets!WsClose, Sockets!Returns
  <1>9. CASE \/ \E f \in {"text", "binary", "close"} : Sockets!PeerFrame(f)
             \/ Sockets!PeerDrops
    BY <1>9 DEF Sockets!PeerFrame, Sockets!PeerDrops
  <1>10. CASE \/ Sockets!SseConnect \/ Sockets!BeginEvent \/ Sockets!ReadLine \/ Sockets!ReadEof
              \/ Sockets!ReadFails \/ Sockets!SseClose \/ Sockets!PeerEnds
              \/ \E c \in BOOLEAN : Sockets!PeerLine(c)
    BY <1>10 DEF Sockets!SseConnect, Sockets!BeginEvent, Sockets!ReadLine, Sockets!ReadEof,
                 Sockets!ReadFails, Sockets!SseClose, Sockets!PeerEnds, Sockets!PeerLine
  <1> QED
    BY <1>1, <1>2, <1>3, <1>4, <1>5, <1>6, <1>7, <1>8, <1>9, <1>10 DEF Sockets!SocketNext

-----------------------------------------------------------------------------
(* Server-sent events.                                                     *)

SseLines == {"field", "blank", "comment"} \X Nat

\* A line that is written: the inbox leads one place further.
LEMMA LeadsAppend ==
  ASSUME NEW box \in Seq(SseLines), NEW line \in SseLines,
         NEW a \in Nat, NEW b \in Nat, NEW a2 \in Nat, NEW b2 \in Nat,
         NEW a3 \in Nat, NEW b3 \in Nat,
         Leads(box, a, b, a2, b2), LineAt(line, a2, b2, a3, b3)
  PROVE  Leads(Append(box, line), a, b, a3, b3)
  <1> DEFINE n == Len(box)
             longer == Append(box, line)
  <1>1. PICK ev, ln \in [1 .. n + 1 -> Nat] :
          /\ ev[1] = a /\ ln[1] = b
          /\ ev[n + 1] = a2 /\ ln[n + 1] = b2
          /\ \A i \in 1 .. n : LineAt(box[i], ev[i], ln[i], ev[i + 1], ln[i + 1])
    BY DEF Leads
  <1>2. /\ n \in Nat /\ Len(longer) = n + 1 /\ longer[n + 1] = line
        /\ \A i \in 1 .. n : longer[i] = box[i]
    OBVIOUS
  <1> HIDE DEF n, longer
  <1> DEFINE ev2 == [i \in 1 .. n + 1 + 1 |-> IF i = n + 2 THEN a3 ELSE ev[i]]
             ln2 == [i \in 1 .. n + 1 + 1 |-> IF i = n + 2 THEN b3 ELSE ln[i]]
  <1>3. ev2 \in [1 .. n + 1 + 1 -> Nat] /\ ln2 \in [1 .. n + 1 + 1 -> Nat]
    BY <1>2
  <1>4. /\ ev2[1] = a /\ ln2[1] = b /\ ev2[n + 1 + 1] = a3 /\ ln2[n + 1 + 1] = b3
        /\ \A i \in 1 .. n + 1 : ev2[i] = ev[i] /\ ln2[i] = ln[i]
    BY <1>1, <1>2
  <1> HIDE DEF ev2, ln2
  <1>5. \A i \in 1 .. n + 1 : LineAt(longer[i], ev2[i], ln2[i], ev2[i + 1], ln2[i + 1])
    <2> SUFFICES ASSUME NEW i \in 1 .. n + 1
                 PROVE  LineAt(longer[i], ev2[i], ln2[i], ev2[i + 1], ln2[i + 1])
      OBVIOUS
    <2>1. CASE i = n + 1
      BY <1>1, <1>2, <1>4, <2>1
    <2>2. CASE i \in 1 .. n
      <3>1. i + 1 \in 1 .. n + 1
        BY <1>2, <2>2
      <3> QED
        BY <1>1, <1>2, <1>4, <2>2, <3>1
    <2> QED
      BY <1>2, <2>1, <2>2
  <1> QED
    BY <1>2, <1>3, <1>4, <1>5 DEF Leads, longer

\* A line that is read: what is left leads on from where that line leads.
LEMMA LeadsTail ==
  ASSUME NEW box \in Seq(SseLines), box # <<>>,
         NEW a \in Nat, NEW b \in Nat, NEW a2 \in Nat, NEW b2 \in Nat,
         Leads(box, a, b, a2, b2)
  PROVE  \E a1, b1 \in Nat : LineAt(Head(box), a, b, a1, b1) /\ Leads(Tail(box), a1, b1, a2, b2)
  <1> DEFINE n == Len(box)
             rest == Tail(box)
  <1>1. PICK ev, ln \in [1 .. n + 1 -> Nat] :
          /\ ev[1] = a /\ ln[1] = b
          /\ ev[n + 1] = a2 /\ ln[n + 1] = b2
          /\ \A i \in 1 .. n : LineAt(box[i], ev[i], ln[i], ev[i + 1], ln[i + 1])
    BY DEF Leads
  <1>2. /\ n \in Nat /\ n > 0 /\ Len(rest) = n - 1 /\ Head(box) = box[1]
        /\ \A i \in 1 .. n - 1 : rest[i] = box[i + 1]
    OBVIOUS
  <1> HIDE DEF n, rest
  <1> DEFINE ev2 == [i \in 1 .. n |-> ev[i + 1]]
             ln2 == [i \in 1 .. n |-> ln[i + 1]]
  <1>3. ev2 \in [1 .. n -> Nat] /\ ln2 \in [1 .. n -> Nat]
    BY <1>2
  <1>4. \A i \in 1 .. n : ev2[i] = ev[i + 1] /\ ln2[i] = ln[i + 1]
    OBVIOUS
  <1> HIDE DEF ev2, ln2
  <1>5. ev2[1] = ev[2] /\ ln2[1] = ln[2] /\ ev2[n] = a2 /\ ln2[n] = b2
    BY <1>1, <1>2, <1>4
  <1>6. \A i \in 1 .. n - 1 : LineAt(rest[i], ev2[i], ln2[i], ev2[i + 1], ln2[i + 1])
    <2> SUFFICES ASSUME NEW i \in 1 .. n - 1
                 PROVE  LineAt(rest[i], ev2[i], ln2[i], ev2[i + 1], ln2[i + 1])
      OBVIOUS
    <2>1. i \in 1 .. n /\ i + 1 \in 1 .. n /\ i \in 1 .. n - 1
      BY <1>2
    <2> QED
      BY <1>1, <1>2, <1>4, <2>1
  <1>7. n - 1 + 1 = n
    BY <1>2
  <1>8. Leads(rest, ev[2], ln[2], a2, b2)
    BY <1>2, <1>3, <1>5, <1>6, <1>7 DEF Leads
  <1>9. /\ ev[2] \in Nat /\ ln[2] \in Nat
        /\ LineAt(Head(box), a, b, ev[2], ln[2])
    BY <1>1, <1>2
  <1> QED
    BY <1>8, <1>9 DEF rest

\* An empty inbox: the reader is where the server is.
LEMMA LeadsEmpty ==
  ASSUME NEW a \in Nat, NEW b \in Nat, NEW a2 \in Nat, NEW b2 \in Nat
  PROVE  Leads(<<>>, a, b, a2, b2) <=> a = a2 /\ b = b2
  <1>1. Leads(<<>>, a, b, a2, b2) => a = a2 /\ b = b2
    BY DEF Leads
  <1>2. ASSUME a = a2, b = b2 PROVE Leads(<<>>, a, b, a2, b2)
    <2> DEFINE ev == [i \in 1 .. Len(<<>>) + 1 |-> a]
               ln == [i \in 1 .. Len(<<>>) + 1 |-> b]
    <2>1. ev \in [1 .. Len(<<>>) + 1 -> Nat] /\ ln \in [1 .. Len(<<>>) + 1 -> Nat]
      OBVIOUS
    <2>2. Len(<<>>) = 0 /\ ev[1] = a /\ ln[1] = b
      OBVIOUS
    <2> HIDE DEF ev, ln
    <2> QED
      BY <1>2, <2>1, <2>2 DEF Leads
  <1> QED
    BY <1>1, <1>2

\* A line of the event n being read, of which acc has been read so far: a field
\* line is one more of it, a comment changes nothing, and at the blank line
\* that ends it acc is the whole event.
LEMMA ReadLineStep ==
  ASSUME SseInv, kind = "sse", Sockets!ReadLine
  PROVE  SseInv'
  <1> DEFINE line == Head(inbox)
  <1>1. /\ SseTypes /\ script = "event" /\ inner /\ InOrder /\ inbox # <<>>
        /\ inbox' = Tail(inbox)
        /\ UNCHANGED <<kind, inner, peer, next, connects, lost>>
    BY DEF SseInv, Sockets!ReadLine
  <1>2. inbox' \in Seq(SseLines) /\ line \in SseLines /\ inbox \in Seq(SseLines)
    BY <1>1 DEF SseTypes, SseLines
  <1>3. PICK n, p \in Nat : /\ acc = [i \in 1 .. Len(acc) |-> n]
                            /\ Len(acc) + 1 <= p
                            /\ n \in lost \/ p = Len(acc) + 1
                            /\ Leads(inbox, n, p, next[1], next[2])
    BY <1>1 DEF InOrder, AtEnd
  <1>4. next[1] \in Nat /\ next[2] \in Nat /\ acc \in Seq(Nat) /\ Len(acc) \in Nat
    BY <1>1, BridgeAssumption DEF SseTypes, BridgeAssumption
  <1>5. PICK a, b \in Nat : /\ LineAt(line, n, p, a, b)
                            /\ Leads(inbox', a, b, next[1], next[2])
    BY <1>1, <1>2, <1>3, <1>4, LeadsTail
  <1>6. connects' # 0
    BY <1>1 DEF SseInv
  <1> HIDE DEF line
  <1>7. CASE Sockets!EndsEvent(line)
    <2>1. line[1] = "blank" /\ acc # <<>>
      BY <1>7 DEF Sockets!EndsEvent
    <2>2. /\ script' = "free" /\ acc' = <<>>
          /\ answer' = [result |-> "event", event |-> acc, had |-> TRUE]
      BY <1>7 DEF Sockets!ReadLine, Sockets!Returns, line
    <2>3. n \in 1 .. Events /\ p = Lines + 1 /\ b = 1
      BY <1>5, <2>1, BridgeAssumption DEF LineAt, BridgeAssumption
    <2>4. Len(acc) \in 1 .. Lines /\ (Len(acc) = Lines \/ n \in lost)
      <3>1. Len(acc) # 0
        BY <1>4, <2>1
      <3>2. Len(acc) + 1 <= p /\ p = Lines + 1 /\ Lines \in Nat
        BY <1>3, <2>3, BridgeAssumption DEF BridgeAssumption
      <3>3. Len(acc) \in 1 .. Lines /\ (p = Len(acc) + 1 => Len(acc) = Lines)
        BY <1>4, <3>1, <3>2
      <3> QED
        BY <1>3, <3>3
    <2>5. Sockets!EventsWhole'
      <3> DEFINE k == Len(acc)
      <3>1. answer'.event = [i \in 1 .. k |-> n]
        BY <1>3, <2>2
      <3>2. k \in 1 .. Lines /\ (k = Lines \/ n \in lost')
        BY <1>1, <2>4
      <3> HIDE DEF k
      <3> QED
        BY <2>3, <3>1, <3>2 DEF Sockets!EventsWhole
    <2>6. InOrder'
      <3>1. Len(acc') = 0 /\ acc' = [i \in 1 .. Len(acc') |-> a]
        BY <2>2
      <3>2. Len(acc') + 1 = b
        BY <2>3, <3>1
      <3> QED
        BY <1>1, <1>5, <3>1, <3>2 DEF InOrder
    <2>7. SseTypes'
      BY <1>1, <1>2, <2>2 DEF SseTypes, SseLines
    <2> QED
      BY <1>1, <1>6, <2>2, <2>5, <2>6, <2>7 DEF SseInv
  <1>8. CASE ~Sockets!EndsEvent(line)
    <2>1. /\ acc' = IF line[1] = "field" THEN Append(acc, line[2]) ELSE acc
          /\ UNCHANGED <<script, answer>>
      BY <1>8 DEF Sockets!ReadLine, line
    <2>2. Sockets!EventsWhole'
      BY <1>1, <2>1 DEF SseInv, Sockets!EventsWhole
    <2>3. InOrder' /\ acc' \in Seq(Nat)
      <3>1. CASE line[1] = "field"
        <4>1. line[2] = n /\ a = n /\ b = p + 1
          BY <1>5, <3>1 DEF LineAt
        <4>2. acc' = Append(acc, n)
          BY <2>1, <3>1, <4>1
        <4>3. acc' \in Seq(Nat) /\ Len(acc') = Len(acc) + 1
          BY <1>4, <4>2
        <4>4. acc' = [i \in 1 .. Len(acc') |-> n]
          <5>1. \A i \in 1 .. Len(acc) : acc[i] = n
            BY <1>3
          <5>2. \A i \in 1 .. Len(acc') : acc'[i] = n
            BY <1>4, <4>2, <4>3, <5>1
          <5> QED
            BY <4>3, <5>2
        <4>5. Len(acc') + 1 <= b /\ (n \in lost' \/ b = Len(acc') + 1)
          BY <1>1, <1>3, <1>4, <4>1, <4>3
        <4> QED
          BY <1>5, <4>1, <4>3, <4>4, <4>5, <1>1 DEF InOrder
      <3>2. CASE line[1] = "comment"
        <4>1. a = n /\ b = p /\ acc' = acc
          BY <1>5, <2>1, <3>2 DEF LineAt
        <4> QED
          BY <1>1, <1>3, <1>4, <1>5, <4>1 DEF InOrder
      <3>3. CASE line[1] = "blank"
        <4>1. acc' = <<>> /\ b = 1
          BY <1>5, <1>8, <2>1, <3>3 DEF LineAt, Sockets!EndsEvent
        <4>2. Len(acc') = 0 /\ acc' = [i \in 1 .. Len(acc') |-> a]
          BY <4>1
        <4>3. Len(acc') + 1 = b
          BY <4>1, <4>2
        <4> QED
          BY <1>1, <1>5, <4>1, <4>2, <4>3 DEF InOrder
      <3> QED
        BY <1>2, <3>1, <3>2, <3>3 DEF SseLines
    <2>4. SseTypes'
      BY <1>1, <1>2, <2>1, <2>3 DEF SseTypes, SseLines
    <2> QED
      BY <1>1, <1>6, <2>1, <2>2, <2>3, <2>4 DEF SseInv
  <1> QED
    BY <1>7, <1>8

\* The server writes a line.
LEMMA PeerLineStep ==
  ASSUME SseInv, kind = "sse", NEW comment \in BOOLEAN, Sockets!PeerLine(comment)
  PROVE  SseInv'
  <1> DEFINE line == IF comment THEN <<"comment", 0>>
                     ELSE IF next[2] <= Lines THEN <<"field", next[1]>> ELSE <<"blank", next[1]>>
  <1>1. /\ SseTypes /\ peer = "up"
        /\ inbox' = Append(inbox, line)
        /\ UNCHANGED <<kind, inner, peer, connects, script, acc, answer, lost>>
    BY DEF SseInv, Sockets!PeerLine
  <1>2. /\ next[1] \in Nat \ {0} /\ next[2] \in 1 .. Lines + 1 /\ next[2] \in Nat /\ Lines \in Nat
        /\ Events \in Nat
    BY <1>1, BridgeAssumption DEF SseTypes, BridgeAssumption
  <1>3. /\ next' \in (Nat \ {0}) \X (1 .. Lines + 1)
        /\ LineAt(line, next[1], next[2], next'[1], next'[2])
        /\ next'[2] > 1 => next'[1] <= Events
    <2>1. CASE comment
      BY <1>1, <1>2, <2>1 DEF Sockets!PeerLine, LineAt, SseTypes
    <2>2. CASE ~comment /\ next[2] <= Lines
      <3>1. next' = <<next[1], next[2] + 1>> /\ next[1] <= Events
        BY <2>2 DEF Sockets!PeerLine
      <3> QED
        BY <1>2, <2>2, <3>1 DEF LineAt
    <2>3. CASE ~comment /\ ~(next[2] <= Lines)
      <3>1. next' = <<next[1] + 1, 1>> /\ next[1] <= Events
        BY <2>3 DEF Sockets!PeerLine
      <3> QED
        BY <1>2, <2>3, <3>1 DEF LineAt
    <2> QED
      BY <2>1, <2>2, <2>3
  <1>4. line \in SseLines /\ inbox \in Seq(SseLines)
    BY <1>1, <1>2 DEF SseLines, SseTypes
  <1> HIDE DEF line
  <1>5. inbox' \in Seq(SseLines)
    BY <1>1, <1>4
  <1>6. ASSUME inner PROVE InOrder'
    <2>1. PICK n, p \in Nat : /\ acc = [i \in 1 .. Len(acc) |-> n]
                              /\ Len(acc) + 1 <= p
                              /\ n \in lost \/ p = Len(acc) + 1
                              /\ Leads(inbox, n, p, next[1], next[2])
      BY <1>1, <1>6 DEF SseInv, InOrder, AtEnd
    <2>2. next'[1] \in Nat /\ next'[2] \in Nat
      BY <1>2, <1>3
    <2>3. Leads(inbox', n, p, next'[1], next'[2])
      BY <1>1, <1>2, <1>3, <1>4, <2>1, <2>2, LeadsAppend
    <2> QED
      BY <1>1, <2>1, <2>3 DEF InOrder
  <1>7. connects # 0
    BY <1>1 DEF SseInv
  <1>8. SseTypes'
    BY <1>1, <1>3, <1>5 DEF SseTypes, SseLines
  <1> QED
    BY <1>1, <1>6, <1>7, <1>8 DEF SseInv, Sockets!EventsWhole

LEMMA SseStep ==
  ASSUME SseInv, kind = "sse", Sockets!SocketNext
  PROVE  SseInv'
  <1>1. /\ SseTypes
        /\ script = "event" => inner /\ connects # 0
        /\ connects = 0 => next = <<1, 1>> /\ acc = <<>> /\ peer = "down" /\ ~inner
    BY DEF SseInv
  <1>2. CASE Sockets!SseConnect
    <2>1. connects = 0 /\ UNCHANGED <<kind, next>> /\ script' = "free" /\ acc' = <<>>
          /\ answer'.result \in {"ok", "throws"}
      BY <1>2 DEF Sockets!SseConnect, Sockets!Returns
    <2>2. Sockets!EventsWhole'
      BY <2>1 DEF Sockets!EventsWhole
    <2>3. CASE Sockets!Connected
      <3>1. inner' /\ peer' = "up" /\ inbox' = <<>> /\ connects' = 1
        BY <2>1, <2>3 DEF Sockets!Connected
      <3>2. SseTypes'
        BY <1>1, <2>1, <3>1 DEF SseTypes
      <3>3. InOrder'
        <4>1. Leads(<<>>, 1, 1, 1, 1)
          BY LeadsEmpty
        <4>2. Len(acc') = 0 /\ acc' = [i \in 1 .. Len(acc') |-> 1]
          BY <2>1
        <4>3. next' = <<1, 1>> /\ Len(acc') + 1 = 1
          BY <1>1, <2>1, <4>2
        <4> QED
          BY <3>1, <4>1, <4>2, <4>3 DEF InOrder
      <3> QED
        BY <2>1, <2>2, <3>1, <3>2, <3>3 DEF SseInv
    <2>4. CASE UNCHANGED <<inner, peer, inbox, connects>>
      BY <1>1, <2>1, <2>2, <2>4 DEF SseInv, SseTypes
    <2> QED
      BY <1>2, <2>3, <2>4 DEF Sockets!SseConnect
  <1>3. CASE Sockets!BeginEvent
    <2>1. UNCHANGED <<kind, inner, peer, inbox, next, connects, lost>> /\ connects # 0
      BY <1>1, <1>3 DEF Sockets!BeginEvent, SseTypes
    <2>2. CASE inner
      <3>1. script' = "event" /\ UNCHANGED <<acc, answer>>
        BY <1>3, <2>2 DEF Sockets!BeginEvent
      <3>2. InOrder => InOrder'
        BY <2>1, <3>1 DEF InOrder, AtEnd
      <3>3. SseTypes' /\ Sockets!EventsWhole' = Sockets!EventsWhole
        BY <1>1, <2>1, <3>1 DEF SseTypes, Sockets!EventsWhole
      <3> QED
        BY <1>1, <2>1, <2>2, <3>1, <3>2, <3>3 DEF SseInv
    <2>3. CASE ~inner
      BY <1>1, <1>3, <2>1, <2>3
         DEF Sockets!BeginEvent, Sockets!Returns, SseInv, SseTypes, Sockets!EventsWhole
    <2> QED
      BY <2>2, <2>3
  <1>4. CASE Sockets!ReadEof
    <2>1. /\ script' = "free" /\ acc' = <<>> /\ AtEnd
          /\ UNCHANGED <<kind, peer, inbox, next, connects, lost>> /\ connects # 0
          /\ inner' \in {inner, FALSE} /\ inner
      BY <1>1, <1>4 DEF Sockets!ReadEof, Sockets!Returns, AtEnd
    <2>2. PICK n, p \in Nat : /\ acc = [i \in 1 .. Len(acc) |-> n]
                              /\ Len(acc) + 1 <= p
                              /\ Leads(inbox, n, p, next[1], next[2])
      BY <2>1 DEF SseInv, InOrder
    <2>3. /\ Len(acc) \in Nat /\ acc \in Seq(Nat) /\ inbox = <<>>
          /\ next[1] \in Nat \ {0} /\ next[2] \in 1 .. Lines + 1 /\ next[2] \in Nat
          /\ next[2] > 1 => next[1] <= Events
      BY <1>1, <2>1, BridgeAssumption DEF SseTypes, AtEnd, BridgeAssumption
    <2>4. n = next[1] /\ p = next[2]
      BY <2>2, <2>3, LeadsEmpty
    <2>5. Sockets!EventsWhole'
      <3>1. CASE acc # <<>>
        <4> DEFINE k == Len(acc)
        <4>1. k \in 1 .. Lines /\ n \in 1 .. Events
          <5>1. k # 0
            BY <2>3, <3>1
          <5> QED
            BY <2>2, <2>3, <2>4, <5>1, BridgeAssumption DEF BridgeAssumption
        <4>2. answer'.event = [i \in 1 .. k |-> n]
          BY <1>4, <2>2, <3>1 DEF Sockets!ReadEof, Sockets!Returns
        <4>3. peer' = "ended" /\ inbox' = <<>> /\ next'[1] = n
          BY <2>1, <2>4 DEF AtEnd
        <4> HIDE DEF k
        <4> QED
          BY <4>1, <4>2, <4>3 DEF Sockets!EventsWhole
      <3>2. CASE acc = <<>>
        <4>1. answer'.result = "null"
          BY <1>4, <3>2 DEF Sockets!ReadEof, Sockets!Returns
        <4> QED
          BY <4>1 DEF Sockets!EventsWhole
      <3> QED
        BY <3>1, <3>2
    <2>6. InOrder'
      <3>1. Len(acc') = 0 /\ acc' = [i \in 1 .. Len(acc') |-> n]
        BY <2>1
      <3>2. Len(acc') + 1 <= p
        BY <2>2, <2>3, <3>1
      <3> QED
        BY <2>1, <2>2, <3>1, <3>2 DEF InOrder, AtEnd
    <2> QED
      BY <1>1, <2>1, <2>5, <2>6 DEF SseInv, SseTypes
  <1>5. CASE Sockets!SseClose
    <2>1. /\ script' = "free" /\ acc' = <<>> /\ ~inner' /\ answer'.result = "ok"
          /\ UNCHANGED <<kind, peer, inbox, next, connects>> /\ connects # 0
      BY <1>1, <1>5 DEF Sockets!SseClose, Sockets!Returns, SseTypes
    <2> QED
      BY <1>1, <2>1 DEF SseInv, SseTypes, Sockets!EventsWhole
  <1>8. CASE Sockets!ReadFails
    <2>1. /\ script' = "free" /\ acc' = <<>> /\ inner /\ answer'.result = "null"
          /\ lost' = lost \cup Sockets!Range(acc)
          /\ UNCHANGED <<kind, peer, inbox, next, connects>> /\ connects # 0
          /\ inner' => peer = "up"
      BY <1>1, <1>8 DEF Sockets!ReadFails, Sockets!Returns
    <2>2. Sockets!EventsWhole'
      BY <2>1 DEF Sockets!EventsWhole
    <2>3. ASSUME inner' PROVE InOrder'
      <3>1. PICK n, p \in Nat : /\ acc = [i \in 1 .. Len(acc) |-> n]
                                /\ Len(acc) + 1 <= p
                                /\ n \in lost \/ p = Len(acc) + 1
                                /\ Leads(inbox, n, p, next[1], next[2])
        BY <2>1, <2>3 DEF SseInv, InOrder, AtEnd
      <3>2. Len(acc) \in Nat /\ acc \in Seq(Nat)
        BY <1>1 DEF SseTypes
      <3>3. Len(acc') = 0 /\ acc' = [i \in 1 .. Len(acc') |-> n] /\ Len(acc') + 1 <= p
        BY <2>1, <3>1, <3>2
      <3>4. n \in lost' \/ p = Len(acc') + 1
        <4>1. CASE Len(acc) = 0
          BY <2>1, <3>1, <3>3, <4>1
        <4>2. CASE Len(acc) # 0
          <5>1. 1 \in DOMAIN acc /\ acc[1] = n
            BY <3>1, <3>2, <4>2
          <5>2. n \in Sockets!Range(acc)
            BY <5>1 DEF Sockets!Range
          <5> QED
            BY <2>1, <5>2
        <4> QED
          BY <4>1, <4>2
      <3> QED
        BY <2>1, <3>1, <3>3, <3>4 DEF InOrder
    <2> QED
      BY <1>1, <2>1, <2>2, <2>3 DEF SseInv, SseTypes
  <1>6. CASE Sockets!PeerEnds \/ Sockets!PeerDrops
    <2>1. /\ UNCHANGED <<kind, inner, inbox, next, connects, script, acc, answer, lost>>
          /\ connects # 0 /\ peer = "up"
      BY <1>1, <1>6 DEF Sockets!PeerEnds, Sockets!PeerDrops
    <2>2. InOrder => InOrder'
      BY <2>1 DEF InOrder, AtEnd
    <2> QED
      BY <1>1, <2>1, <2>2 DEF SseInv, SseTypes, Sockets!EventsWhole
  <1>7. CASE \/ Sockets!WsConnect \/ Sockets!BeginSend \/ Sockets!BeginRecv
             \/ Sockets!AttemptReconnect \/ Sockets!GiveUp \/ Sockets!Send \/ Sockets!SendBinary
             \/ Sockets!Recv \/ Sockets!WsClose
             \/ \E f \in {"text", "binary", "close"} : Sockets!PeerFrame(f)
    BY <1>1, <1>7
       DEF SseTypes, Sockets!WsConnect, Sockets!BeginSend, Sockets!BeginRecv, Sockets!Begin,
           Sockets!AttemptReconnect, Sockets!GiveUp, Sockets!Reconnecting, Sockets!Send,
           Sockets!SendBinary, Sockets!Recv, Sockets!WsClose, Sockets!PeerFrame
  <1> QED
    BY <1>2, <1>3, <1>4, <1>5, <1>6, <1>7, <1>8, ReadLineStep, PeerLineStep DEF Sockets!SocketNext

-----------------------------------------------------------------------------
(* A pipe of four stages: an element that moves from one stage to the next *)
(* leaves their concatenation as it is.                                    *)

LEMMA AppendIsPipe ==
  ASSUME NEW S, NEW s \in Seq(S), NEW e \in S
  PROVE  <<e>> \in Seq(S) /\ Append(s, e) = s \o <<e>>
  <1>1. <<e>> \in Seq(S)
    OBVIOUS
  <1> QED
    BY <1>1, AppendIsConcat

LEMMA HeadThenTail ==
  ASSUME NEW S, NEW s \in Seq(S), s # <<>>
  PROVE  /\ Head(s) \in S /\ Tail(s) \in Seq(S) /\ <<Head(s)>> \in Seq(S)
         /\ <<Head(s)>> \o Tail(s) = s
  <1> DEFINE h == <<Head(s)>>
             r == Tail(s)
  <1>1. /\ Head(s) \in S /\ r \in Seq(S) /\ h \in Seq(S) /\ Len(r) = Len(s) - 1 /\ Len(h) = 1
        /\ Len(s) \in Nat /\ Len(s) > 0 /\ h[1] = s[1]
        /\ \A i \in 1 .. Len(r) : r[i] = s[i + 1]
    <2>1. Head(s) \in S /\ r \in Seq(S) /\ Len(r) = Len(s) - 1 /\ Head(s) = s[1]
      OBVIOUS
    <2>2. \A i \in 1 .. Len(r) : r[i] = s[i + 1]
      BY HeadTailProperties
    <2>3. h \in Seq(S) /\ Len(h) = 1 /\ h[1] = Head(s)
      BY <2>1
    <2>4. Len(s) \in Nat /\ Len(s) > 0
      OBVIOUS
    <2> QED
      BY <2>1, <2>2, <2>3, <2>4
  <1> HIDE DEF h, r
  <1>2. /\ h \o r \in Seq(S) /\ Len(h \o r) = Len(h) + Len(r)
        /\ \A i \in 1 .. Len(h) + Len(r) :
             (h \o r)[i] = IF i <= Len(h) THEN h[i] ELSE r[i - Len(h)]
    <2>1. h \in Seq(S) /\ r \in Seq(S)
      BY <1>1
    <2> QED
      BY <2>1, ConcatProperties
  <1>3. \A i \in 1 .. Len(h \o r) : (h \o r)[i] = s[i]
    <2> SUFFICES ASSUME NEW i \in 1 .. Len(s) PROVE (h \o r)[i] = s[i]
      BY <1>1, <1>2
    <2>1. CASE i = 1
      BY <1>1, <1>2, <2>1
    <2>2. CASE i # 1
      <3>1. i - 1 \in 1 .. Len(r) /\ i - 1 + 1 = i
        BY <1>1, <2>2
      <3> QED
        BY <1>1, <1>2, <2>2, <3>1
    <2> QED
      BY <2>1, <2>2
  <1>4. h \o r = s
    BY <1>1, <1>2, <1>3, SeqEqual
  <1> QED
    BY <1>1, <1>4 DEF h, r

\* From the hand of the pump into the channel.
LEMMA HandToChannel ==
  ASSUME NEW S, NEW a \in Seq(S), NEW b \in Seq(S), NEW d \in Seq(S), NEW m \in S
  PROVE  a \o Append(b, m) \o <<>> \o d = a \o b \o <<m>> \o d
  <1>1. <<m>> \in Seq(S) /\ Append(b, m) = b \o <<m>> /\ b \o <<m>> \in Seq(S)
    BY AppendIsPipe, ConcatProperties
  <1>2. a \o (b \o <<m>>) = a \o b \o <<m>>
    BY <1>1, ConcatAssociative
  <1>3. a \o (b \o <<m>>) \in Seq(S)
    BY <1>1, ConcatProperties
  <1>4. a \o (b \o <<m>>) \o <<>> = a \o (b \o <<m>>)
    BY <1>3, ConcatEmptySeq
  <1> QED
    BY <1>1, <1>2, <1>4

\* From the wire, which has h first and then r, into the hand of the pump.
LEMMA WireToHand ==
  ASSUME NEW S, NEW a \in Seq(S), NEW b \in Seq(S), NEW d \in Seq(S),
         NEW h \in S, NEW r \in Seq(S), d = <<h>> \o r
  PROVE  a \o b \o <<h>> \o r = a \o b \o <<>> \o d
  <1>1. <<h>> \in Seq(S) /\ a \o b \in Seq(S)
    BY ConcatProperties
  <1>2. (a \o b) \o <<h>> \o r = (a \o b) \o (<<h>> \o r)
    BY <1>1, ConcatAssociative
  <1>3. (a \o b) \o <<>> = a \o b
    BY <1>1, ConcatEmptySeq
  <1> QED
    BY <1>2, <1>3

\* Out of the channel, which has h first and then r.
LEMMA ChannelToScript ==
  ASSUME NEW S, NEW a \in Seq(S), NEW b \in Seq(S), NEW c, NEW d,
         NEW h \in S, NEW r \in Seq(S), b = <<h>> \o r
  PROVE  Append(a, h) \o r \o c \o d = a \o b \o c \o d
  <1>1. <<h>> \in Seq(S) /\ Append(a, h) = a \o <<h>>
    BY AppendIsPipe
  <1>2. (a \o <<h>>) \o r = a \o (<<h>> \o r)
    BY <1>1, ConcatAssociative
  <1> QED
    BY <1>1, <1>2

\* Onto the wire.
LEMMA OntoTheWire ==
  ASSUME NEW S, NEW a \in Seq(S), NEW d \in Seq(S), NEW e \in S
  PROVE  a \o Append(d, e) = Append(a \o d, e)
  <1>1. <<e>> \in Seq(S) /\ Append(d, e) = d \o <<e>> /\ a \o d \in Seq(S)
    BY AppendIsPipe, ConcatProperties
  <1>2. Append(a \o d, e) = (a \o d) \o <<e>>
    BY <1>1, AppendIsPipe
  <1>3. (a \o d) \o <<e>> = a \o (d \o <<e>>)
    BY <1>1, ConcatAssociative
  <1> QED
    BY <1>1, <1>2, <1>3

\* The numbers of the messages sent so far, and one more.
LEMMA OneMore ==
  ASSUME NEW k \in Nat
  PROVE  Append([i \in 1 .. k |-> i], k + 1) = [i \in 1 .. k + 1 |-> i]
  <1> DEFINE s == [i \in 1 .. k |-> i]
             t == [i \in 1 .. k + 1 |-> i]
             a == Append(s, k + 1)
  <1>1. s \in Seq(Nat) /\ Len(s) = k /\ t \in Seq(Nat) /\ Len(t) = k + 1
    OBVIOUS
  <1>2. \A i \in 1 .. k : s[i] = i
    OBVIOUS
  <1>3. \A i \in 1 .. k + 1 : t[i] = i
    OBVIOUS
  <1> HIDE DEF s, t
  <1>4. a \in Seq(Nat) /\ Len(a) = k + 1
    BY <1>1
  <1>5. \A i \in 1 .. k + 1 : a[i] = i
    BY <1>1, <1>2
  <1>6. a = t
    <2>1. Len(a) = Len(t) /\ \A i \in 1 .. Len(a) : a[i] = t[i]
      BY <1>1, <1>3, <1>4, <1>5
    <2> HIDE DEF a
    <2> QED
      BY <1>1, <1>4, <2>1, SeqEqual
  <1> QED
    BY <1>6 DEF s, t

-----------------------------------------------------------------------------
(* Streams.                                                                *)

Flow(n) == taken[n] \o queue[n] \o Streams!InHand(n) \o wire[n]
Numbers(k) == [i \in 1 .. k |-> i]

\* The invariant while a stream client is used, its parts side by side.
Streaming ==
  /\ kind \in StreamKinds
  /\ StreamTypes /\ PumpsFit /\ HeldRuns /\ ClosedStays
  /\ \A n \in Connections : (rx = n /\ kind # "client") => Flow(n) = Numbers(sent[n])

LEMMA StreamingIsInv == kind \in StreamKinds => (StreamInv <=> Streaming)
  BY DEF StreamInv, Streaming, Streams!NothingDropped, Streams!Ids, Connections, Flow, Numbers

LEMMA StreamingIsInvPrime == (kind' \in StreamKinds /\ Streaming') => StreamInv'
  BY DEF StreamInv, Streaming, Streams!NothingDropped, Streams!Ids, Connections, Flow, Numbers

\* Steps that touch neither channel nor pump.
LEMMA CalmStep ==
  ASSUME Streaming,
         UNCHANGED <<kind, rx, running, pump, queue, wire, sent, taken>>,
         held' \in (1 .. opened') \cup {None}, opened' \in opened .. MaxOpens,
         told' = told \/ told'.result # "closed",
         script = "closing" => script' = "closing"
  PROVE  Streaming'
  <1>1. StreamTypes'
    BY DEF Streaming, StreamTypes
  <1>2. PumpsFit'
    BY DEF Streaming, PumpsFit, StreamTypes, Connections
  <1>3. HeldRuns'
    BY DEF Streaming, HeldRuns
  <1>4. ClosedStays'
    BY DEF Streaming, ClosedStays
  <1>5. \A n \in Connections : Flow(n)' = Flow(n)
    BY DEF Flow, Streams!InHand
  <1> QED
    BY <1>1, <1>2, <1>3, <1>4, <1>5 DEF Streaming, Numbers

\* Steps after which the script holds no receiver.
LEMMA LetGoStep ==
  ASSUME Streaming, rx' = None, held' \in {held, None},
         UNCHANGED <<kind, opened, pump, wire, sent>>,
         running' \in [Connections -> BOOLEAN],
         queue' \in [Connections -> Seq(Nat)], taken' \in [Connections -> Seq(Nat)],
         told' = told \/ told'.result # "closed"
  PROVE  Streaming'
  <1>1. rx' \notin Connections
    BY BridgeAssumption DEF BridgeAssumption, Connections
  <1>2. StreamTypes'
    BY DEF Streaming, StreamTypes
  <1>3. PumpsFit'
    BY DEF Streaming, PumpsFit
  <1>4. HeldRuns' /\ ClosedStays'
    BY <1>1 DEF Streaming, HeldRuns, ClosedStays
  <1> QED
    BY <1>1, <1>2, <1>3, <1>4 DEF Streaming

\* What let-go leaves in the channels is of the right type.
LEMMA DiscardTypes ==
  ASSUME Streams!Discard
  PROVE  /\ queue' \in [Connections -> Seq(Nat)] /\ taken' \in [Connections -> Seq(Nat)]
         /\ \A n \in Connections : queue'[n] = <<>> /\ taken'[n] = <<>>
  <1>1. <<>> \in Seq(Nat)
    OBVIOUS
  <1> QED
    BY <1>1 DEF Streams!Discard, Streams!Ids, Connections

\* A pump starts on a new connection: nothing has been sent on it.
LEMMA StartStep ==
  ASSUME Streaming, NEW n \in Connections, pump[n].pc = "none", kind # "client",
         NEW pc \in {"check", "connecting"},
         Streams!Start(n, pc), UNCHANGED <<kind, wire, sent>>,
         held' \in (1 .. opened') \cup {None},
         opened' \in opened .. MaxOpens, n <= opened',
         told'.result # "closed"
  PROVE  Streaming'
  <1>1. /\ rx' = n
        /\ queue' \in [Connections -> Seq(Nat)] /\ taken' \in [Connections -> Seq(Nat)]
        /\ queue'[n] = <<>> /\ taken'[n] = <<>>
    BY DiscardTypes DEF Streams!Start
  <1>2. running' \in [Connections -> BOOLEAN] /\ running'[n]
    BY DEF Streams!Start, Streams!Ids, Connections, Streaming, StreamTypes
  <1>3. /\ pump' = [pump EXCEPT ![n] = [pc |-> pc, msg |-> 0]]
        /\ pump' \in [Connections -> PumpRecords]
        /\ pump'[n].pc = pc
        /\ \A m \in Connections : m # n => pump'[m] = pump[m]
    BY DEF Streams!Start, Streaming, StreamTypes, PumpRecords
  <1>4. StreamTypes'
    <2>1. opened' \in 0 .. MaxOpens /\ rx' \in Connections \cup {None}
      BY <1>1 DEF Streaming, StreamTypes
    <2> QED
      BY <1>1, <1>2, <1>3, <2>1 DEF Streaming, StreamTypes
  <1>5. PumpsFit'
    BY <1>3 DEF Streaming, StreamTypes, PumpsFit, Connections
  <1>6. HeldRuns' /\ ClosedStays'
    BY <1>1, <1>2, <1>3 DEF HeldRuns, ClosedStays
  <1>7. Flow(n)' = Numbers(sent'[n])
    <2>1. wire'[n] = <<>> /\ sent'[n] = 0
      BY DEF Streaming, PumpsFit
    <2>2. Flow(n)' = <<>> \o <<>> \o <<>> \o <<>>
      BY <1>1, <1>3, <2>1 DEF Flow, Streams!InHand
    <2> QED
      BY <2>1, <2>2 DEF Numbers
  <1> QED
    BY <1>1, <1>4, <1>5, <1>6, <1>7 DEF Streaming

-----------------------------------------------------------------------------
(* The pump, the server and recv().                                        *)

\* A step of pump n that leaves the channel of the script alone.
LEMMA PumpTurns ==
  ASSUME Streaming, NEW n \in Connections, NEW new \in PumpRecords,
         pump[n].pc \in {"connecting", "check", "poll", "send"},
         new.pc \in {"check", "poll", "over"},
         pump' = [pump EXCEPT ![n] = new],
         UNCHANGED <<kind, opened, held, rx, running, queue, wire, sent, taken, script, told>>,
         rx = n => pump[n].pc # "send",
         (rx = n /\ kind # "client" /\ script # "closing" /\ new.pc = "over") => wire[n] = <<>>
  PROVE  Streaming'
  <1>1. /\ pump' \in [Connections -> PumpRecords] /\ pump'[n] = new
        /\ \A m \in Connections : m # n => pump'[m] = pump[m]
    BY DEF Streaming, StreamTypes, PumpRecords
  <1>2. StreamTypes'
    BY <1>1 DEF Streaming, StreamTypes, PumpRecords
  <1>3. PumpsFit'
    BY <1>1 DEF Streaming, PumpsFit
  <1>4. HeldRuns'
    BY <1>1 DEF Streaming, HeldRuns
  <1>5. ClosedStays'
    BY <1>1 DEF Streaming, ClosedStays
  <1>6. \A m \in Connections : rx = m => Flow(m)' = Flow(m)
    BY <1>1 DEF Flow, Streams!InHand
  <1> QED
    BY <1>2, <1>3, <1>4, <1>5, <1>6 DEF Streaming, Numbers

\* BidiResponds, PumpChecks, PumpIdles, PumpEnds and PumpSendFails: the pump of
\* the receiver the script holds ends only when nothing more comes.
LEMMA PumpAloneStep ==
  ASSUME Streaming, NEW n \in Connections,
         Streams!PumpChecks(n) \/ Streams!PumpIdles(n) \/ Streams!PumpEnds(n)
           \/ Streams!PumpSendFails(n) \/ Streams!BidiResponds(n)
  PROVE  Streaming'
  <1> USE DEF Streams!PumpTo, Streams!setup, Streams!hold, Streams!server, Streams!got,
              Streams!call, PumpRecords
  <1>1. CASE Streams!PumpChecks(n)
    <2> DEFINE new == [pc |-> IF running[n] THEN "poll" ELSE "over", msg |-> 0]
    <2>1. new \in PumpRecords /\ new.pc \in {"poll", "over"} /\ (new.pc = "over" => ~running[n])
      OBVIOUS
    <2>2. /\ pump[n].pc = "check" /\ pump' = [pump EXCEPT ![n] = new]
          /\ UNCHANGED <<kind, opened, held, rx, running, queue, wire, sent, taken, script, told>>
      BY <1>1 DEF Streams!PumpChecks
    <2> HIDE DEF new
    <2>3. (rx = n /\ kind # "client" /\ script # "closing" /\ new.pc = "over") => wire[n] = <<>>
      BY <2>1 DEF Streaming, HeldRuns
    <2> QED
      BY <2>1, <2>2, <2>3, PumpTurns
  <1>2. CASE Streams!PumpIdles(n) \/ Streams!PumpEnds(n)
    <2>1. PICK pc \in {"check", "over"} :
            /\ pump[n].pc = "poll" /\ pump' = [pump EXCEPT ![n] = [pc |-> pc, msg |-> 0]]
            /\ wire[n] = <<>>
            /\ UNCHANGED <<kind, opened, held, rx, running, queue, wire, sent, taken, script,
                           told>>
      BY <1>2 DEF Streams!PumpIdles, Streams!PumpEnds
    <2> DEFINE new == [pc |-> pc, msg |-> 0]
    <2>2. new \in PumpRecords /\ new.pc \in {"check", "over"}
      OBVIOUS
    <2> HIDE DEF new
    <2> QED
      BY <2>1, <2>2, PumpTurns DEF new
  <1>3. CASE Streams!PumpSendFails(n)
    <2>1. PICK pc \in {"check", "over"} :
            /\ pump[n].pc = "send" /\ pump' = [pump EXCEPT ![n] = [pc |-> pc, msg |-> 0]]
            /\ rx # n
            /\ UNCHANGED <<kind, opened, held, rx, running, queue, wire, sent, taken, script,
                           told>>
      BY <1>3 DEF Streams!PumpSendFails
    <2> DEFINE new == [pc |-> pc, msg |-> 0]
    <2>2. new \in PumpRecords /\ new.pc \in {"check", "over"}
      OBVIOUS
    <2> HIDE DEF new
    <2> QED
      BY <2>1, <2>2, PumpTurns DEF new
  <1>4. CASE Streams!BidiResponds(n)
    <2>1. PICK pc \in {"check", "over"} :
            /\ pump[n].pc = "connecting"
            /\ pump' = [pump EXCEPT ![n] = [pc |-> pc, msg |-> 0]]
            /\ UNCHANGED <<kind, opened, held, rx, running, queue, wire, sent, taken, script,
                           told>>
      BY <1>4 DEF Streams!BidiResponds
    <2> DEFINE new == [pc |-> pc, msg |-> 0]
    <2>2. new \in PumpRecords /\ new.pc \in {"check", "over"}
      OBVIOUS
    <2>3. wire[n] = <<>>
      BY <2>1 DEF Streaming, PumpsFit
    <2> HIDE DEF new
    <2> QED
      BY <2>1, <2>2, <2>3, PumpTurns DEF new
  <1> QED
    BY <1>1, <1>2, <1>3, <1>4

\* A message comes off the wire into the hand of the pump.
LEMMA PumpTakesStep ==
  ASSUME Streaming, NEW n \in Connections, Streams!PumpTakes(n)
  PROVE  Streaming'
  <1> DEFINE new == [pc |-> "send", msg |-> Head(wire[n])]
  <1>1. /\ pump[n].pc = "poll" /\ wire[n] # <<>>
        /\ pump' = [pump EXCEPT ![n] = new] /\ wire' = [wire EXCEPT ![n] = Tail(wire[n])]
        /\ UNCHANGED <<kind, opened, held, rx, running, queue, sent, taken, script, told>>
    BY DEF Streams!PumpTakes, Streams!PumpTo, Streams!setup, Streams!hold, Streams!got,
           Streams!call
  <1>2. /\ wire[n] \in Seq(Nat) /\ queue[n] \in Seq(Nat) /\ taken[n] \in Seq(Nat)
        /\ Head(wire[n]) \in Nat /\ Tail(wire[n]) \in Seq(Nat)
    BY <1>1, HeadThenTail DEF Streaming, StreamTypes
  <1>3. new \in PumpRecords /\ new.pc = "send" /\ new.msg = Head(wire[n])
    BY <1>2 DEF PumpRecords
  <1> HIDE DEF new
  <1>4. /\ pump' \in [Connections -> PumpRecords] /\ pump'[n] = new
        /\ wire' \in [Connections -> Seq(Nat)] /\ wire'[n] = Tail(wire[n])
        /\ \A m \in Connections : m # n => pump'[m] = pump[m] /\ wire'[m] = wire[m]
    BY <1>1, <1>2, <1>3 DEF Streaming, StreamTypes, PumpRecords
  <1>5. StreamTypes'
    BY <1>1, <1>4 DEF Streaming, StreamTypes, PumpRecords
  <1>6. PumpsFit'
    BY <1>1, <1>3, <1>4 DEF Streaming, PumpsFit
  <1>7. HeldRuns' /\ ClosedStays'
    BY <1>1, <1>3, <1>4 DEF Streaming, HeldRuns, ClosedStays
  <1>8. Flow(n)' = Flow(n)
    <2>1. Flow(n) = taken[n] \o queue[n] \o <<>> \o wire[n]
      BY <1>1 DEF Flow, Streams!InHand
    <2>2. Flow(n)' = taken[n] \o queue[n] \o <<Head(wire[n])>> \o Tail(wire[n])
      BY <1>1, <1>3, <1>4 DEF Flow, Streams!InHand
    <2>3. taken[n] \o queue[n] \o <<Head(wire[n])>> \o Tail(wire[n])
            = taken[n] \o queue[n] \o <<>> \o wire[n]
      <3> DEFINE a == taken[n]
                 b == queue[n]
                 d == wire[n]
      <3>1. a \in Seq(Nat) /\ b \in Seq(Nat) /\ d \in Seq(Nat) /\ d # <<>>
        BY <1>1, <1>2
      <3> HIDE DEF a, b, d
      <3> DEFINE h == Head(d)
                 r == Tail(d)
      <3>2. h \in Nat /\ r \in Seq(Nat) /\ d = <<h>> \o r
        BY <3>1, HeadThenTail
      <3> HIDE DEF h, r
      <3>3. a \o b \o <<h>> \o r = a \o b \o <<>> \o d
        BY <3>1, <3>2, WireToHand
      <3> QED
        BY <3>3 DEF a, b, d, h, r
    <2> QED
      BY <2>1, <2>2, <2>3
  <1>9. \A m \in Connections : m # n => Flow(m)' = Flow(m)
    BY <1>1, <1>4 DEF Flow, Streams!InHand
  <1> QED
    BY <1>1, <1>5, <1>6, <1>7, <1>8, <1>9 DEF Streaming, Numbers

\* The message goes into the channel, when there is room.
LEMMA PumpForwardsStep ==
  ASSUME Streaming, NEW n \in Connections, Streams!PumpForwards(n)
  PROVE  Streaming'
  <1> DEFINE new == [pc |-> "check", msg |-> 0]
             longer == Append(queue[n], pump[n].msg)
  <1>1. /\ pump[n].pc = "send" /\ rx = n
        /\ pump' = [pump EXCEPT ![n] = new] /\ queue' = [queue EXCEPT ![n] = longer]
        /\ UNCHANGED <<kind, opened, held, rx, running, wire, sent, taken, script, told>>
    BY DEF Streams!PumpForwards, Streams!PumpTo, Streams!setup, Streams!hold, Streams!server,
           Streams!call
  <1>2. /\ wire[n] \in Seq(Nat) /\ queue[n] \in Seq(Nat) /\ taken[n] \in Seq(Nat)
        /\ pump[n].msg \in Nat
    BY DEF Streaming, StreamTypes, PumpRecords
  <1>3. new \in PumpRecords /\ new.pc = "check" /\ longer \in Seq(Nat)
    BY <1>2 DEF PumpRecords
  <1> HIDE DEF new
  <1>4. /\ pump' \in [Connections -> PumpRecords] /\ pump'[n] = new
        /\ queue' \in [Connections -> Seq(Nat)] /\ queue'[n] = longer
        /\ \A m \in Connections : m # n => pump'[m] = pump[m] /\ queue'[m] = queue[m]
    BY <1>1, <1>3 DEF Streaming, StreamTypes, PumpRecords
  <1>5. StreamTypes'
    BY <1>1, <1>4 DEF Streaming, StreamTypes, PumpRecords
  <1>6. PumpsFit'
    BY <1>1, <1>3, <1>4 DEF Streaming, PumpsFit
  <1>7. HeldRuns' /\ ClosedStays'
    BY <1>1, <1>3, <1>4 DEF Streaming, HeldRuns, ClosedStays
  <1>8. Flow(n)' = Flow(n)
    <2>1. Flow(n) = taken[n] \o queue[n] \o <<pump[n].msg>> \o wire[n]
      BY <1>1 DEF Flow, Streams!InHand
    <2>2. Flow(n)' = taken[n] \o longer \o <<>> \o wire[n]
      BY <1>1, <1>3, <1>4 DEF Flow, Streams!InHand
    <2>3. taken[n] \o longer \o <<>> \o wire[n]
            = taken[n] \o queue[n] \o <<pump[n].msg>> \o wire[n]
      <3> DEFINE a == taken[n]
                 b == queue[n]
                 d == wire[n]
                 m == pump[n].msg
      <3>1. a \in Seq(Nat) /\ b \in Seq(Nat) /\ d \in Seq(Nat) /\ m \in Nat
        BY <1>2
      <3> HIDE DEF a, b, d, m
      <3>2. a \o Append(b, m) \o <<>> \o d = a \o b \o <<m>> \o d
        BY <3>1, HandToChannel
      <3> QED
        BY <3>2 DEF a, b, d, m
    <2> QED
      BY <2>1, <2>2, <2>3
  <1> QED
    BY <1>1, <1>5, <1>6, <1>7, <1>8 DEF Streaming, Numbers

\* The call of a client stream is over.
LEMMA ServerAnswersStep ==
  ASSUME Streaming, NEW n \in Connections, Streams!ServerAnswers(n)
  PROVE  Streaming'
  <1> DEFINE new == [pc |-> "over", msg |-> 0]
  <1>1. /\ pump[n].pc = "call" /\ kind = "client"
        /\ pump' = [pump EXCEPT ![n] = new] /\ queue' = [queue EXCEPT ![n] = <<0>>]
        /\ UNCHANGED <<kind, opened, held, rx, running, wire, sent, taken, script, told>>
    BY DEF Streams!ServerAnswers, Streams!PumpTo, Streams!setup, Streams!hold, Streams!server,
           Streams!call, Streaming, PumpsFit
  <1>2. new \in PumpRecords /\ new.pc = "over" /\ <<0>> \in Seq(Nat)
    BY DEF PumpRecords
  <1> HIDE DEF new
  <1>3. /\ pump' \in [Connections -> PumpRecords] /\ pump'[n] = new
        /\ queue' \in [Connections -> Seq(Nat)]
        /\ \A m \in Connections : m # n => pump'[m] = pump[m]
    BY <1>1, <1>2 DEF Streaming, StreamTypes, PumpRecords
  <1>4. StreamTypes' /\ PumpsFit'
    BY <1>1, <1>2, <1>3 DEF Streaming, StreamTypes, PumpsFit, PumpRecords
  <1>5. HeldRuns' /\ ClosedStays'
    BY <1>1 DEF Streaming, HeldRuns, ClosedStays
  <1> QED
    BY <1>1, <1>4, <1>5 DEF Streaming

\* The server sends the next message.
LEMMA ServerSendsStep ==
  ASSUME Streaming, NEW n \in Connections, Streams!ServerSends(n)
  PROVE  Streaming'
  <1> DEFINE e == sent[n] + 1
  <1>1. /\ pump[n].pc \in {"check", "poll", "send"}
        /\ sent' = [sent EXCEPT ![n] = e] /\ wire' = [wire EXCEPT ![n] = Append(wire[n], e)]
        /\ UNCHANGED <<kind, opened, held, rx, running, pump, queue, taken, script, told>>
    BY DEF Streams!ServerSends, Streams!setup, Streams!hold, Streams!threads, Streams!got,
           Streams!call
  <1>2. /\ wire[n] \in Seq(Nat) /\ queue[n] \in Seq(Nat) /\ taken[n] \in Seq(Nat)
        /\ sent[n] \in Nat /\ e \in Nat /\ pump[n].msg \in Nat
    BY DEF Streaming, StreamTypes, PumpRecords
  <1> DEFINE ahead == taken[n] \o queue[n] \o Streams!InHand(n)
  <1>3. Streams!InHand(n) \in Seq(Nat)
    BY <1>2 DEF Streams!InHand
  <1>4. ahead \in Seq(Nat)
    <2>1. taken[n] \o queue[n] \in Seq(Nat)
      BY <1>2, ConcatProperties
    <2> QED
      BY <1>3, <2>1, ConcatProperties
  <1>5. Append(wire[n], e) \in Seq(Nat)
    BY <1>2
  <1>6. /\ wire' \in [Connections -> Seq(Nat)] /\ wire'[n] = Append(wire[n], e)
        /\ sent' \in [Connections -> Nat] /\ sent'[n] = e
        /\ \A m \in Connections : m # n => sent'[m] = sent[m] /\ wire'[m] = wire[m]
    BY <1>1, <1>2, <1>5 DEF Streaming, StreamTypes
  <1>7. StreamTypes'
    BY <1>1, <1>6 DEF Streaming, StreamTypes
  <1>8. PumpsFit'
    BY <1>1, <1>6 DEF Streaming, PumpsFit
  <1>9. HeldRuns' /\ ClosedStays'
    BY <1>1, <1>6 DEF Streaming, HeldRuns, ClosedStays
  <1>10. Flow(n) = Numbers(sent[n]) => Flow(n)' = Numbers(sent'[n])
    <2>1. Flow(n) = ahead \o wire[n] /\ Flow(n)' = ahead \o Append(wire[n], e)
      BY <1>1, <1>6 DEF Flow, Streams!InHand
    <2> HIDE DEF ahead
    <2>2. Flow(n)' = Append(Flow(n), e)
      <3>1. ahead \in Seq(Nat) /\ wire[n] \in Seq(Nat) /\ e \in Nat
        BY <1>2, <1>4
      <3>2. ahead \o Append(wire[n], e) = Append(ahead \o wire[n], e)
        BY <3>1, OntoTheWire
      <3> QED
        BY <2>1, <3>2
    <2>3. Append(Numbers(sent[n]), e) = Numbers(e)
      BY <1>2, OneMore DEF Numbers
    <2> QED
      BY <1>6, <2>2, <2>3
  <1>11. \A m \in Connections : m # n => Flow(m)' = Flow(m)
    BY <1>1, <1>6 DEF Flow, Streams!InHand
  <1>12. ASSUME NEW m \in Connections, rx' = m, kind' # "client"
         PROVE  Flow(m)' = Numbers(sent'[m])
    <2>1. Flow(m) = Numbers(sent[m])
      BY <1>1, <1>12 DEF Streaming
    <2> QED
      BY <1>6, <1>10, <1>11, <2>1
  <1> QED
    BY <1>1, <1>7, <1>8, <1>9, <1>12 DEF Streaming, Numbers

\* recv() returns the first message of the channel, or says why there is none.
LEMMA RecvStep ==
  ASSUME Streaming, kind # "client", NEW metric, Streams!Recv(metric)
  PROVE  Streaming'
  <1> USE DEF Streams!setup, Streams!hold, Streams!threads, Streams!server, Streams!got,
              Streams!Says
  <1>1. /\ UNCHANGED <<kind, opened, held, rx, running, pump, wire, sent, script>>
        /\ opened' \in opened .. MaxOpens /\ held' \in (1 .. opened') \cup {None}
    BY DEF Streams!Recv, Streaming, StreamTypes
  <1>2. CASE UNCHANGED <<queue, taken>> /\ told'.result # "closed"
    BY <1>1, <1>2, CalmStep
  <1>3. CASE rx # None /\ Streams!IsClosed(rx) /\ UNCHANGED <<queue, taken>>
    <2>1. rx \in Connections /\ queue[rx] = <<>> /\ pump[rx].pc = "over"
      BY <1>3 DEF Streams!IsClosed, Streaming, StreamTypes
    <2>2. ClosedStays'
      BY <1>1, <1>3, <2>1 DEF ClosedStays
    <2>3. StreamTypes' /\ PumpsFit' /\ HeldRuns'
      BY <1>1, <1>3 DEF Streaming, StreamTypes, PumpsFit, HeldRuns
    <2>4. \A n \in Connections : Flow(n)' = Flow(n)
      BY <1>1, <1>3 DEF Flow, Streams!InHand
    <2> QED
      BY <1>1, <2>2, <2>3, <2>4 DEF Streaming, Numbers
  <1>4. CASE /\ rx # None /\ queue[rx] # <<>>
             /\ queue' = [queue EXCEPT ![rx] = Tail(@)]
             /\ taken' = [taken EXCEPT ![rx] = Append(@, Head(queue[rx]))]
             /\ told' = Streams!Says("value", metric)
    <2> DEFINE a == taken[rx]
               b == queue[rx]
               h == Head(b)
               r == Tail(b)
    <2>1. rx \in Connections /\ a \in Seq(Nat) /\ b \in Seq(Nat) /\ b # <<>>
      BY <1>4 DEF Streaming, StreamTypes
    <2> HIDE DEF a, b
    <2>2. h \in Nat /\ r \in Seq(Nat) /\ b = <<h>> \o r
      BY <2>1, HeadThenTail
    <2>3. Append(a, h) \in Seq(Nat)
      BY <2>1, <2>2
    <2>4. queue' = [queue EXCEPT ![rx] = r] /\ taken' = [taken EXCEPT ![rx] = Append(a, h)]
      BY <1>4 DEF a, b
    <2> HIDE DEF h, r
    <2>5. /\ queue' \in [Connections -> Seq(Nat)] /\ queue'[rx] = r
          /\ taken' \in [Connections -> Seq(Nat)] /\ taken'[rx] = Append(a, h)
      BY <2>1, <2>2, <2>3, <2>4 DEF Streaming, StreamTypes
    <2>6. StreamTypes' /\ PumpsFit' /\ HeldRuns' /\ ClosedStays'
      BY <1>1, <1>4, <2>5 DEF Streaming, StreamTypes, PumpsFit, HeldRuns, ClosedStays
    <2>7. Flow(rx)' = Flow(rx)
      <3> DEFINE c == Streams!InHand(rx)
                 d == wire[rx]
      <3>1. Flow(rx) = a \o b \o c \o d
        BY DEF Flow, a, b
      <3>2. Flow(rx)' = Append(a, h) \o r \o c \o d
        BY <1>1, <2>5 DEF Flow, Streams!InHand
      <3> HIDE DEF c, d
      <3>3. Append(a, h) \o r \o c \o d = a \o b \o c \o d
        BY <2>1, <2>2, ChannelToScript
      <3> QED
        BY <3>1, <3>2, <3>3
    <2> QED
      BY <1>1, <2>6, <2>7 DEF Streaming, Numbers
  <1> QED
    BY <1>2, <1>3, <1>4 DEF Streams!Recv

-----------------------------------------------------------------------------
(* The calls of the script.                                                *)

\* Calls that only change what the script is told, or where it waits.
LEMMA QuietCall ==
  ASSUME Streaming,
         UNCHANGED <<kind, grpc, opened, held, rx, running, pump, wire, sent, ended, queue, taken>>,
         told' = told \/ told'.result # "closed",
         script = "closing" => script' = "closing"
  PROVE  Streaming'
  <1>1. opened' \in opened .. MaxOpens /\ held' \in (1 .. opened') \cup {None}
    BY DEF Streaming, StreamTypes
  <1> QED
    BY <1>1, CalmStep

LEMMA FailsStep ==
  ASSUME Streaming, NEW connected, NEW metric, Streams!Fails(connected, metric)
  PROVE  Streaming'
  BY QuietCall DEF Streams!Fails, Streams!Says, Streams!setup, Streams!hold, Streams!threads,
                   Streams!server, Streams!got

LEMMA ExchangeStep ==
  ASSUME Streaming, NEW connected, NEW metrics, Streams!Exchange(connected, metrics)
  PROVE  Streaming'
  BY QuietCall, FailsStep
     DEF Streams!Exchange, Streams!Says, Streams!setup, Streams!hold, Streams!threads,
         Streams!server, Streams!got

LEMMA EnqueueStep ==
  ASSUME Streaming, script = "free", NEW metric, Streams!Enqueue(metric)
  PROVE  Streaming'
  BY QuietCall
     DEF Streams!Enqueue, Streams!Says, Streams!setup, Streams!hold, Streams!threads,
         Streams!server, Streams!got

LEMMA RequestingStep ==
  ASSUME Streaming, Streams!Requesting
  PROVE  Streaming'
  <1>1. CASE Streams!MqttRequest
    BY <1>1, FailsStep, EnqueueStep DEF Streams!MqttRequest, Streams!Calls
  <1>2. CASE \E k \in {"client", "bidi"} : Streams!StreamSend(k)
    BY <1>2, FailsStep, EnqueueStep DEF Streams!StreamSend, Streams!Calls
  <1>3. CASE \E m \in {Streams!Counted, Streams!Uncounted} : Streams!Exchange(held # None, m)
    BY <1>3, ExchangeStep
  <1> QED
    BY <1>1, <1>2, <1>3
       DEF Streams!Requesting, Streams!MqttSubscribe, Streams!MqttUnsubscribe,
           Streams!MqttPublish, Streams!AmqpPublish, Streams!AmqpAck, Streams!AmqpNack,
           Streams!AmqpDeclareExchange, Streams!AmqpDeclareQueue, Streams!AmqpBindQueue,
           Streams!ClientSend, Streams!BidiSend

\* The calls that connect, subscribe or open a stream.
LEMMA ConnectStep ==
  ASSUME Streaming, Streams!MqttConnect \/ Streams!AmqpConnect \/ Streams!AmqpSubscribe
  PROVE  Streaming'
  <1> USE DEF Streams!Calls, Streams!Says, Streams!server
  <1>0. opened \in 0 .. MaxOpens /\ held \in (1 .. opened) \cup {None} /\ MaxOpens \in Nat
    BY BridgeAssumption DEF BridgeAssumption, Streaming, StreamTypes
  <1>1. CASE Streams!MqttConnect
    <2> DEFINE n == opened + 1
    <2>1. /\ kind = "mqtt" /\ opened < MaxOpens /\ opened' = n /\ held' = n
          /\ Streams!Start(n, "check")
          /\ told'.result # "closed" /\ UNCHANGED <<kind, wire, sent>>
      BY <1>1 DEF Streams!MqttConnect
    <2>2. n \in Connections /\ n > opened /\ n \in 1 .. n /\ n <= opened' /\ n \in opened .. MaxOpens
      BY <1>0, <2>1 DEF Connections
    <2>3. pump[n].pc = "none"
      BY <2>2 DEF Streaming, PumpsFit
    <2> HIDE DEF n
    <2> QED
      BY <2>1, <2>2, <2>3, StartStep
  <1>2. CASE Streams!AmqpConnect
    <2>1. /\ UNCHANGED <<kind, rx, running, pump, queue, wire, sent, taken, script>>
          /\ told'.result # "closed"
      BY <1>2 DEF Streams!AmqpConnect, Streams!threads, Streams!got
    <2>2. opened' \in opened .. MaxOpens /\ held' \in (1 .. opened') \cup {None}
      BY <1>0, <1>2 DEF Streams!AmqpConnect
    <2> QED
      BY <2>1, <2>2, CalmStep
  <1>3. CASE Streams!AmqpSubscribe
    <2>1. CASE Streams!Fails(held # None, None)
      BY <2>1, FailsStep
    <2>2. CASE held # None /\ ~Streams!Fails(held # None, None)
      <3>1. /\ kind = "amqp" /\ Streams!Start(held, "check") /\ told'.result # "closed"
            /\ UNCHANGED <<kind, opened, held, wire, sent>> /\ pump[held].pc = "none"
        BY <1>3, <2>2 DEF Streams!AmqpSubscribe, Streams!setup, Streams!NoPump
      <3>2. /\ held \in Connections /\ held <= opened' /\ opened' \in opened .. MaxOpens
            /\ held' \in (1 .. opened') \cup {None}
        BY <1>0, <2>2, <3>1 DEF Connections
      <3> QED
        BY <3>1, <3>2, StartStep
    <2> QED
      BY <1>3, <2>1, <2>2 DEF Streams!AmqpSubscribe
  <1> QED
    BY <1>1, <1>2, <1>3

LEMMA GrpcStep ==
  ASSUME Streaming,
         \/ Streams!GrpcLoad \/ Streams!GrpcConnect \/ Streams!GrpcInvoke \/ Streams!GrpcRefused
  PROVE  Streaming'
  <1>1. CASE Streams!GrpcLoad \/ Streams!GrpcConnect
    <2>1. /\ UNCHANGED <<kind, opened, held, rx, running, pump, queue, wire, sent, taken, script>>
          /\ told'.result # "closed"
      BY <1>1 DEF Streams!GrpcLoad, Streams!GrpcConnect, Streams!Says, Streams!hold,
                  Streams!threads, Streams!server, Streams!got
    <2>2. opened' \in opened .. MaxOpens /\ held' \in (1 .. opened') \cup {None}
      BY <2>1 DEF Streaming, StreamTypes
    <2> QED
      BY <2>1, <2>2, CalmStep
  <1>2. CASE Streams!GrpcInvoke
    BY <1>2, ExchangeStep DEF Streams!GrpcInvoke
  <1>3. CASE Streams!GrpcRefused
    BY <1>3, FailsStep DEF Streams!GrpcRefused
  <1> QED
    BY <1>1, <1>2, <1>3

\* A new stream; that of a client stream carries no messages to the script.
LEMMA NewStreamStep ==
  ASSUME Streaming, Streams!ServerStream \/ Streams!BidiStream \/ Streams!ClientStream
  PROVE  Streaming'
  <1>1. /\ opened = 0 /\ opened' = 1 /\ held' = 1 /\ told'.result # "closed"
        /\ UNCHANGED <<kind, wire, sent, script>>
    BY DEF Streams!ServerStream, Streams!BidiStream, Streams!ClientStream, Streams!NewStream,
           Streams!Says, Streams!server
  <1>2. /\ 1 \in Connections /\ held' \in (1 .. opened') \cup {None}
        /\ opened' \in opened .. MaxOpens /\ 1 <= opened' /\ opened' \in 0 .. MaxOpens
    BY <1>1, BridgeAssumption DEF BridgeAssumption, Connections
  <1>3. pump[1].pc = "none"
    BY <1>1, <1>2 DEF Streaming, PumpsFit
  <1>4. CASE Streams!ServerStream \/ Streams!BidiStream
    <2>1. PICK pc \in {"check", "connecting"} : Streams!Start(1, pc) /\ kind # "client"
      BY <1>4 DEF Streams!ServerStream, Streams!BidiStream, Streams!NewStream, Streams!Calls
    <2> QED
      BY <1>1, <1>2, <1>3, <2>1, StartStep
  <1>5. CASE Streams!ClientStream
    <2> DEFINE new == [pc |-> "call", msg |-> 0]
    <2>1. /\ kind = "client" /\ rx' = 1 /\ Streams!Discard /\ running' = running
          /\ pump' = [pump EXCEPT ![1] = new]
      BY <1>5 DEF Streams!ClientStream, Streams!NewStream, Streams!Calls
    <2>2. new \in PumpRecords /\ new.pc = "call"
      BY DEF PumpRecords
    <2> HIDE DEF new
    <2>3. /\ pump' \in [Connections -> PumpRecords] /\ pump'[1] = new
          /\ \A m \in Connections : m # 1 => pump'[m] = pump[m]
      BY <1>2, <2>1, <2>2 DEF Streaming, StreamTypes, PumpRecords
    <2>4. queue' \in [Connections -> Seq(Nat)] /\ taken' \in [Connections -> Seq(Nat)]
      BY <2>1, DiscardTypes
    <2>5. StreamTypes'
      BY <1>1, <1>2, <2>1, <2>3, <2>4 DEF Streaming, StreamTypes, PumpRecords
    <2>6. PumpsFit'
      BY <1>1, <1>2, <2>1, <2>2, <2>3 DEF Streaming, PumpsFit, Connections
    <2>7. HeldRuns' /\ ClosedStays'
      BY <1>1, <2>1 DEF HeldRuns, ClosedStays
    <2> QED
      BY <1>1, <2>1, <2>5, <2>6, <2>7 DEF Streaming
  <1> QED
    BY <1>4, <1>5

LEMMA OpeningStep ==
  ASSUME Streaming, Streams!Opening
  PROVE  Streaming'
  BY ConnectStep, GrpcStep, NewStreamStep DEF Streams!Opening

\* close(): the flag goes down, and the script waits for the pump.
LEMMA CloseStep ==
  ASSUME Streaming,
         \/ Streams!MqttClose \/ Streams!AmqpClose \/ Streams!ServerClose \/ Streams!BidiClose
         \/ Streams!DropServerStream \/ Streams!DropBidiStream
  PROVE  Streaming'
  <1> USE DEF Streams!setup, Streams!hold, Streams!server, Streams!got
  <1>1. ASSUME Streams!LowerFlag PROVE running' \in [Connections -> BOOLEAN]
    BY <1>1 DEF Streams!LowerFlag, Streams!Ids, Connections, Streaming, StreamTypes
  <1>2. CASE Streams!MqttClose \/ Streams!AmqpClose
    <2>1. /\ running' \in [Connections -> BOOLEAN] /\ script' = "closing"
          /\ UNCHANGED <<kind, opened, held, rx, pump, queue, wire, sent, taken, told>>
      BY <1>1, <1>2 DEF Streams!MqttClose, Streams!AmqpClose, Streams!ClientClose
    <2>2. StreamTypes' /\ PumpsFit' /\ HeldRuns' /\ ClosedStays'
      BY <2>1 DEF Streaming, StreamTypes, PumpsFit, HeldRuns, ClosedStays
    <2>3. \A n \in Connections : Flow(n)' = Flow(n)
      BY <2>1 DEF Flow, Streams!InHand
    <2> QED
      BY <2>1, <2>2, <2>3 DEF Streaming, Numbers
  <1>3. CASE Streams!StreamClose
    <2>1. /\ running' \in [Connections -> BOOLEAN] /\ rx' = None /\ held' = None
          /\ Streams!Discard /\ UNCHANGED <<kind, opened, pump, wire, sent, told>>
      BY <1>1, <1>3 DEF Streams!StreamClose, Streams!LetGo
    <2> QED
      BY <2>1, DiscardTypes, LetGoStep
  <1> QED
    BY <1>2, <1>3 DEF Streams!ServerClose, Streams!BidiClose, Streams!DropServerStream,
                      Streams!DropBidiStream

LEMMA EndingStep ==
  ASSUME Streaming, Streams!Ending
  PROVE  Streaming'
  <1> USE DEF Streams!setup, Streams!threads, Streams!server, Streams!got, Streams!Calls
  <1>1. CASE \/ Streams!MqttRecv \/ Streams!AmqpRecv \/ Streams!ServerRecv \/ Streams!BidiRecv
    BY <1>1, RecvStep
       DEF Streams!MqttRecv, Streams!AmqpRecv, Streams!ServerRecv, Streams!BidiRecv
  <1>2. CASE Streams!CloseAndRecv
    <2>1. /\ UNCHANGED <<kind, opened, rx, running, pump, queue, wire, sent, taken>>
          /\ held' = None /\ script = "free" /\ (told' = told \/ told'.result # "closed")
      BY <1>2 DEF Streams!CloseAndRecv, Streams!Says
    <2>2. opened' \in opened .. MaxOpens
      BY <2>1 DEF Streaming, StreamTypes
    <2> QED
      BY <2>1, <2>2, CalmStep
  <1>3. CASE Streams!DropClient
    <2>1. /\ rx' = None /\ held' = None /\ Streams!Discard
          /\ UNCHANGED <<kind, opened, running, pump, wire, sent, told>>
      BY <1>3 DEF Streams!DropClient, Streams!LetGo
    <2>2. running' \in [Connections -> BOOLEAN]
      BY <2>1 DEF Streaming, StreamTypes
    <2> QED
      BY <2>1, <2>2, DiscardTypes, LetGoStep
  <1> QED
    BY <1>1, <1>2, <1>3, CloseStep DEF Streams!Ending

\* The calls that were under way end.
LEMMA ReturningStep ==
  ASSUME Streaming, Streams!SendUnblocked \/ Streams!Answered \/ Streams!CloseEnds
  PROVE  Streaming'
  <1> USE DEF Streams!setup, Streams!hold, Streams!threads, Streams!server, Streams!got,
              Streams!Says
  <1>1. CASE Streams!SendUnblocked
    <2>1. /\ UNCHANGED <<kind, grpc, opened, held, rx, running, pump, wire, sent, ended, queue,
                         taken>>
          /\ told'.result # "closed" /\ script = "sending"
      BY <1>1 DEF Streams!SendUnblocked
    <2> QED
      BY <2>1, QuietCall
  <1>2. CASE Streams!Answered
    <2>1. /\ rx' = None /\ told'.result # "closed"
          /\ UNCHANGED <<kind, opened, held, running, pump, wire, sent, queue, taken>>
      BY <1>2 DEF Streams!Answered
    <2>2. /\ running' \in [Connections -> BOOLEAN]
          /\ queue' \in [Connections -> Seq(Nat)] /\ taken' \in [Connections -> Seq(Nat)]
      BY <2>1 DEF Streaming, StreamTypes
    <2> QED
      BY <2>1, <2>2, LetGoStep
  <1>3. CASE Streams!CloseEnds
    <2>1. /\ rx' = None /\ held' = None /\ Streams!Discard /\ told'.result # "closed"
          /\ UNCHANGED <<kind, opened, running, pump, wire, sent>>
      BY <1>3 DEF Streams!CloseEnds, Streams!LetGo
    <2>2. running' \in [Connections -> BOOLEAN]
      BY <2>1 DEF Streaming, StreamTypes
    <2> QED
      BY <2>1, <2>2, DiscardTypes, LetGoStep
  <1> QED
    BY <1>1, <1>2, <1>3

\* Steps of the transport that the pump does not see yet.
LEMMA TransportStep ==
  ASSUME Streaming, NEW n \in Connections,
         \/ Streams!TakeRequest(n) \/ Streams!ServerEnds(n)
         \/ Streams!NetworkFails(n) \/ Streams!NetworkReturns(n)
  PROVE  Streaming'
  <1>1. UNCHANGED <<kind, opened, held, rx, running, pump, queue, wire, sent, taken, script, told>>
    BY DEF Streams!TakeRequest, Streams!ServerEnds, Streams!NetworkFails,
           Streams!NetworkReturns, Streams!setup, Streams!hold,
           Streams!threads, Streams!server, Streams!got, Streams!call
  <1>2. opened' \in opened .. MaxOpens /\ held' \in (1 .. opened') \cup {None}
    BY <1>1 DEF Streaming, StreamTypes
  <1> QED
    BY <1>1, <1>2, CalmStep

LEMMA StreamStep ==
  ASSUME StreamInv, kind \in StreamKinds, Streams!StreamNext
  PROVE  StreamInv' /\ kind' \in StreamKinds
  <1>1. Streaming
    BY StreamingIsInv
  <1>2. ASSUME NEW n \in Connections,
               \/ Streams!PumpStep(n) \/ Streams!TakeRequest(n) \/ Streams!ServerSends(n)
               \/ Streams!ServerEnds(n) \/ Streams!ServerAnswers(n) \/ Streams!BidiResponds(n)
               \/ Streams!NetworkFails(n) \/ Streams!NetworkReturns(n)
        PROVE  Streaming'
    BY <1>1, <1>2, PumpAloneStep, PumpTakesStep, PumpForwardsStep, TransportStep,
       ServerSendsStep, ServerAnswersStep DEF Streams!PumpStep
  <1>3. Streaming'
    BY <1>1, <1>2, OpeningStep, RequestingStep, EndingStep, ReturningStep
       DEF Streams!StreamNext, Streams!Ids, Connections
  <1> QED
    BY <1>3, StreamingIsInvPrime DEF Streaming

\* The invariant gives what MCBridges checks: when recv() has said "closed",
\* wire, hand and channel are empty, and all that was sent has been taken.
LEMMA DeliveredFromInv == StreamInv => StreamsDeliver
  <1> SUFFICES ASSUME StreamInv PROVE StreamsDeliver
    OBVIOUS
  <1>1. CASE kind \notin StreamKinds
    <2>1. rx = None /\ rx \notin Streams!Ids
      BY <1>1, BridgeAssumption DEF StreamInv, Streams!Ids, BridgeAssumption
    <2> QED
      BY <2>1 DEF StreamsDeliver, Streams!NothingDropped, Streams!ClosedMeansAll
  <1>2. CASE kind \in StreamKinds
    <2>1. Streaming /\ Streams!NothingDropped
      BY <1>2, StreamingIsInv DEF StreamInv
    <2>2. ASSUME told.result = "closed", rx # None, script = "free"
          PROVE  Len(taken[rx]) = sent[rx]
      <3>1. rx \in Connections /\ kind # "client" /\ pump[rx].pc = "over" /\ queue[rx] = <<>>
        BY <2>1, <2>2 DEF Streaming, StreamTypes, ClosedStays
      <3>2. wire[rx] = <<>> /\ Streams!InHand(rx) = <<>>
        BY <2>1, <2>2, <3>1 DEF Streaming, HeldRuns, Streams!InHand
      <3> DEFINE a == taken[rx]
                 k == sent[rx]
      <3>3. a \in Seq(Nat) /\ k \in Nat
        BY <2>1, <3>1 DEF Streaming, StreamTypes
      <3>4. a \o <<>> \o <<>> \o <<>> = [i \in 1 .. k |-> i]
        BY <2>1, <3>1, <3>2 DEF Streaming, Flow, Numbers
      <3> HIDE DEF a, k
      <3>5. a \o <<>> = a
        BY <3>3, ConcatEmptySeq
      <3>6. a = [i \in 1 .. k |-> i]
        BY <3>4, <3>5
      <3>7. Len(a) = k
        BY <3>3, <3>6
      <3> QED
        BY <3>7 DEF a, k
    <2> QED
      BY <2>1, <2>2 DEF StreamsDeliver, Streams!ClosedMeansAll
  <1> QED
    BY <1>1, <1>2

-----------------------------------------------------------------------------
(* All bridges.                                                            *)

LEMMA BridgeInitially == BridgeInit => BridgeInv
  <1> SUFFICES ASSUME BridgeInit PROVE BridgeInv
    OBVIOUS
  <1>1. StreamInv
    <2> USE DEF BridgeInit, Streams!StreamInit, Streams!Ids, Connections, Streams!NoPump,
                Streams!Says
    <2>1. rx = None /\ rx \notin Connections /\ opened \in 0 .. MaxOpens /\ held = None
      BY BridgeAssumption DEF BridgeAssumption
    <2>2. /\ pump \in [Connections -> PumpRecords]
          /\ \A n \in Connections : pump[n].pc = "none" /\ wire[n] = <<>> /\ sent[n] = 0
      BY DEF PumpRecords
    <2>3. /\ queue \in [Connections -> Seq(Nat)] /\ wire \in [Connections -> Seq(Nat)]
          /\ taken \in [Connections -> Seq(Nat)] /\ sent \in [Connections -> Nat]
          /\ running \in [Connections -> BOOLEAN]
      <3>1. <<>> \in Seq(Nat)
        OBVIOUS
      <3> QED
        BY <3>1
    <2>4. StreamTypes
      BY <2>1, <2>2, <2>3 DEF StreamTypes, PumpRecords
    <2>5. PumpsFit /\ HeldRuns /\ ClosedStays
      BY <2>1, <2>2 DEF PumpsFit, HeldRuns, ClosedStays
    <2> QED
      BY <2>1, <2>4, <2>5 DEF StreamInv, Streams!NothingDropped
  <1>2. WsInv
    BY BridgeAssumption DEF BridgeInit, Sockets!SocketInit, WsInv, BridgeAssumption,
                            Sockets!RetriedBeforeFailing
  <1>3. SseInv
    <2>1. <<>> \in Seq({"field", "blank", "comment"} \X Nat) /\ <<>> \in Seq(Nat)
      OBVIOUS
    <2>2. <<1, 1>> \in (Nat \ {0}) \X (1 .. Lines + 1)
      BY BridgeAssumption DEF BridgeAssumption
    <2> QED
      BY <2>1, <2>2 DEF BridgeInit, Sockets!SocketInit, SseInv, SseTypes, Sockets!EventsWhole
  <1>4. ScriptInv
    BY DEF BridgeInit, Scripts!ThreadInit, ScriptInv, FactoryAlone, Scripts!OneDataSet,
           IdsCounted
  <1>5. PageInv
    BY DEF BridgeInit, Pages!BrowserInit, PageInv, Pages!CurrentIsOpen
  <1> QED
    BY <1>1, <1>2, <1>3, <1>4, <1>5 DEF BridgeInv

\* The script stays with the client it uses.
LEMMA SameKind ==
  Sockets!SocketNext \/ Scripts!ThreadNext \/ Pages!BrowserNext => kind' = kind
  <1>1. ASSUME Sockets!SocketNext PROVE kind' = kind
    BY <1>1
       DEF Sockets!SocketNext, Sockets!WsConnect, Sockets!BeginSend, Sockets!BeginRecv,
           Sockets!Begin, Sockets!AttemptReconnect, Sockets!GiveUp, Sockets!Send,
           Sockets!SendBinary, Sockets!Recv, Sockets!WsClose, Sockets!SseConnect,
           Sockets!BeginEvent, Sockets!ReadLine, Sockets!ReadEof, Sockets!ReadFails,
           Sockets!SseClose, Sockets!PeerFrame, Sockets!PeerLine, Sockets!PeerEnds,
           Sockets!PeerDrops
  <1>2. ASSUME Scripts!ThreadNext PROVE kind' = kind
    BY <1>2
       DEF Scripts!ThreadNext, Scripts!SetLogFilter, Scripts!Begin, Scripts!Resume,
           Scripts!Yield, Scripts!Log, Scripts!LoadCsv, Scripts!AskForData, Scripts!TryRead,
           Scripts!TakeWriteLock, Scripts!FactoryReturns, Scripts!FactoryFails, Scripts!DrawId,
           Scripts!data, Scripts!idVars
  <1>3. ASSUME Pages!BrowserNext PROVE kind' = kind
    BY <1>3
       DEF Pages!BrowserNext, Pages!NewPage, Pages!BrowserClose, Pages!PageClose,
           Pages!PageCall, Pages!Responds, Pages!WaitForResponse, Pages!Launch, Pages!Poll,
           Pages!Check, Pages!Goto, Pages!Click, Pages!TypeInto, Pages!Evaluate,
           Pages!Screenshot, Pages!Fill, Pages!WaitFor, Pages!EditPage, Pages!Cookies,
           Pages!QueryAll
  <1> QED
    BY <1>1, <1>2, <1>3

\* What a component keeps while the script uses another one.
LEMMA IdleParts ==
  /\ (StreamInv /\ kind' \notin StreamKinds /\ kind \notin StreamKinds /\ UNCHANGED streams)
       => StreamInv'
  /\ (ScriptInv /\ kind' # "array" /\ UNCHANGED scripts) => ScriptInv'
  /\ (PageInv /\ UNCHANGED browser) => PageInv'
  /\ kind' # "ws" => WsInv'
  /\ kind' # "sse" => SseInv'
  BY DEF StreamInv, streams, ScriptInv, FactoryAlone, Scripts!OneDataSet, IdsCounted, scripts,
         PageInv, Pages!CurrentIsOpen, browser, WsInv, SseInv

\* A step in which nothing changes.
LEMMA BridgeStutters == BridgeInv /\ UNCHANGED bridgeVars => BridgeInv'
  <1> SUFFICES ASSUME BridgeInv, UNCHANGED bridgeVars PROVE BridgeInv'
    OBVIOUS
  <1>1. /\ kind' = kind /\ script' = script
        /\ streams' = streams /\ sockets' = sockets /\ scripts' = scripts /\ browser' = browser
    BY DEF bridgeVars
  <1>2. StreamInv'
    <2>1. CASE kind \in StreamKinds
      <3>1. Streaming
        BY <2>1, StreamingIsInv DEF BridgeInv
      <3>2. Streaming'
        BY <1>1, <3>1, QuietCall DEF streams
      <3> QED
        BY <1>1, <2>1, <3>2, StreamingIsInvPrime
    <2> QED
      BY <1>1, <2>1, IdleParts DEF BridgeInv
  <1>3. WsInv'
    BY <1>1 DEF BridgeInv, WsInv, Sockets!RetriedBeforeFailing, sockets
  <1>4. SseInv'
    <2>1. UNCHANGED <<kind, script, inner, peer, inbox, next, connects, acc, answer, lost>>
      BY <1>1 DEF sockets
    <2>2. SseTypes' = SseTypes /\ Sockets!EventsWhole' = Sockets!EventsWhole
      BY <2>1 DEF SseTypes, Sockets!EventsWhole
    <2>3. InOrder => InOrder'
      BY <2>1 DEF InOrder, AtEnd
    <2> QED
      BY <2>1, <2>2, <2>3 DEF BridgeInv, SseInv
  <1>5. ScriptInv' /\ PageInv'
    BY <1>1 DEF BridgeInv, ScriptInv, FactoryAlone, Scripts!OneDataSet, IdsCounted, scripts,
                PageInv, Pages!CurrentIsOpen, browser
  <1> QED
    BY <1>2, <1>3, <1>4, <1>5 DEF BridgeInv

LEMMA BridgeStep == BridgeInv /\ [BridgeNext]_bridgeVars => BridgeInv'
  <1> SUFFICES ASSUME BridgeInv, BridgeNext PROVE BridgeInv'
    BY BridgeStutters
  <1>0. StreamInv /\ WsInv /\ SseInv /\ ScriptInv /\ PageInv
    BY DEF BridgeInv
  <1>1. CASE /\ kind \in StreamKinds /\ Streams!StreamNext
             /\ UNCHANGED <<sockets, scripts, browser>>
    <2>1. StreamInv' /\ kind' \in StreamKinds
      BY <1>0, <1>1, StreamStep
    <2> QED
      BY <1>0, <1>1, <2>1, IdleParts DEF BridgeInv, StreamKinds
  <1>2. CASE /\ kind \in {"ws", "sse"} /\ Sockets!SocketNext
             /\ UNCHANGED <<streams, scripts, browser>>
    <2>1. kind' = kind
      BY <1>2, SameKind
    <2>2. WsInv'
      BY <1>0, <1>2, <2>1, WsStep, IdleParts
    <2>3. SseInv'
      <3>1. CASE kind = "sse"
        BY <1>0, <1>2, <3>1, SseStep
      <3>2. CASE kind = "ws"
        BY <2>1, <3>2 DEF SseInv
      <3> QED
        BY <1>2, <3>1, <3>2
    <2> QED
      BY <1>0, <1>2, <2>1, <2>2, <2>3, IdleParts DEF BridgeInv, StreamKinds
  <1>3. CASE /\ kind \in {"array", "csv", "log", "ids"} /\ Scripts!ThreadNext
             /\ UNCHANGED <<script, streams, sockets, browser>>
    <2>1. kind' = kind
      BY <1>3, SameKind
    <2>2. ScriptInv'
      BY <1>0, <1>3, ScriptStep
    <2> QED
      BY <1>0, <1>3, <2>1, <2>2, IdleParts DEF BridgeInv, StreamKinds
  <1>4. CASE /\ kind = "browser" /\ Pages!BrowserNext
             /\ UNCHANGED <<script, streams, sockets, scripts>>
    <2>1. kind' = kind
      BY <1>4, SameKind
    <2>2. PageInv'
      BY <1>0, <1>4, PageStep
    <2> QED
      BY <1>0, <1>4, <2>1, <2>2, IdleParts DEF BridgeInv, StreamKinds
  <1> QED
    BY <1>1, <1>2, <1>3, <1>4 DEF BridgeNext, StreamKinds

\* BridgeInv is an invariant of the scripts and their clients.
THEOREM BridgeInvariant == BridgeSpec => []BridgeInv
  <1>1. BridgeInit => BridgeInv
    BY BridgeInitially
  <1>2. BridgeInv /\ [BridgeNext]_bridgeVars => BridgeInv'
    BY BridgeStep
  <1> QED
    BY <1>1, <1>2, PTL DEF BridgeSpec

\* Between the server and recv() no message is dropped or overtaken while the
\* script holds the subscription or stream, and "closed" comes only after the
\* last one: for every capacity of the channels, every number of messages and of
\* connections one after another (the pumps of mqtt.rs, amqp.rs and grpc.rs).
THEOREM StreamsAreDelivered == BridgeSpec => []StreamsDeliver
  <1>1. BridgeInv => StreamsDeliver
    BY DeliveredFromInv DEF BridgeInv
  <1> QED
    BY <1>1, BridgeInvariant, PTL

\* A WebSocket call without connection fails only after all its attempts, for
\* every limit of retries; without reconnect: true none is made (the loop of
\* attempt_reconnect in ws.rs).
THEOREM FailsAfterRetries == BridgeSpec => []RetriedBeforeFailing
  <1>1. BridgeInv => RetriedBeforeFailing
    BY DEF BridgeInv, WsInv, RetriedBeforeFailing
  <1> QED
    BY <1>1, BridgeInvariant, PTL

\* However many events, lines and comments there are and whenever reads time out or
\* the stream ends, what recv of sse.rs hands out is lines of one event, and all of
\* them unless a timeout has taken some or the stream has ended within the event.
THEOREM EventsArriveWhole == BridgeSpec => []EventsWhole
  <1>1. BridgeInv => EventsWhole
    BY DEF BridgeInv, SseInv, EventsWhole
  <1> QED
    BY <1>1, BridgeInvariant, PTL

\* The workers of all scenarios see one data set of a SharedArray, and as long as
\* no more ids are drawn than the range of a worker holds no id is given twice,
\* for any workers and any range (the lock of data.rs, sequential_id in utils.rs).
THEOREM WorkersShareOne == BridgeSpec => []SharedIsOne
  <1>1. BridgeInv => SharedIsOne
    BY SharedFromInv DEF BridgeInv
  <1> QED
    BY <1>1, BridgeInvariant, PTL

\* The page a failed check would show is open, whatever pages the script opened
\* and closed in whatever order (the current page of browser.rs).
THEOREM ShownPageIsOpen == BridgeSpec => []CurrentIsOpen
  <1>1. BridgeInv => CurrentIsOpen
    BY DEF BridgeInv, PageInv, CurrentIsOpen
  <1> QED
    BY <1>1, BridgeInvariant, PTL
=============================================================================
