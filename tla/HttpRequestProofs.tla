------------------------- MODULE HttpRequestProofs -------------------------
(***************************************************************************)
(* Proofs about HttpRequest, for any workers, carriers, hosts and cookie   *)
(* names and for every limit of redirects and retries: where a redirect    *)
(* chain ends, when a request is sent again, and where a cookie goes.      *)
(***************************************************************************)
EXTENDS HttpRequest, TLAPS

-----------------------------------------------------------------------------
(* The inductive invariant.  What a request has been through -- the chain  *)
(* of its hops and the results of its attempts -- is in the record of the  *)
(* call, so most of the invariant is about one record.                     *)

Methods == {"GET", "HEAD", "POST", "DELETE"}
Bodies == {None, "text", "file"}
Types == {None, "json", "multipart"}
Results == Response \cup {Failure}
Cookie == [host : Hosts, wide : BOOLEAN, owner : Workers]
Hops == [method : Methods, body : Bodies, type : Types, resp : Results]

CallRecord ==
  [pc : {"idle", "ready", "hop", "wait", "result", "backoff", "returned", "over"},
   iter : Nat, method : Methods, body : Bodies, type : Types,
   url : Hosts \cup {None}, host : Hosts \cup {None}, hops : Nat,
   chain : Seq(Hops), tries : Seq(Nat), sent : SUBSET Cookie]

\* A hop of the first i - 1 was answered with a 301, 302 or 303.
Turned(chain, i) == \E j \in 1 .. i - 1 : Collapses(chain[j].resp)

\* What hop i sends, in a chain whose first hop sent method m and body b.
SentMethod(chain, i, m) == IF Turned(chain, i) /\ m # "HEAD" THEN "GET" ELSE m
SentBody(chain, i, b) == IF Turned(chain, i) THEN None ELSE b

\* The hops of a chain that began with method m and body b.
ChainOf(chain, m, b) ==
  \A i \in DOMAIN chain : /\ chain[i].method = SentMethod(chain, i, m)
                          /\ chain[i].body = SentBody(chain, i, b)

AllRedirect(chain, n) == \A i \in 1 .. n : IsRedirect(chain[i].resp)
NoneAnswered(tries, n) == \A i \in 1 .. n : tries[i] = 0

\* A GET or HEAD has no body.
BodyFits(m, b) == m \in {"GET", "HEAD"} => b = None

\* Method and body the chain of a request under way began with.
FirstMethod(q) == IF q.chain = <<>> THEN q.method ELSE q.chain[1].method
FirstBody(q) == IF q.chain = <<>> THEN q.body ELSE q.chain[1].body

\* A request between two hops or in one: so far it was only redirected and
\* nothing has answered it.
UnderWay(q) ==
  /\ q.host \in Hosts /\ q.url \in Hosts
  /\ Len(q.chain) = q.hops /\ q.hops <= MaxRedirects
  /\ AllRedirect(q.chain, q.hops)
  /\ ChainOf(q.chain, FirstMethod(q), FirstBody(q))
  /\ q.method = SentMethod(q.chain, q.hops + 1, FirstMethod(q))
  /\ q.body = SentBody(q.chain, q.hops + 1, FirstBody(q))
  /\ BodyFits(FirstMethod(q), FirstBody(q))
  /\ Len(q.tries) <= Retries /\ NoneAnswered(q.tries, Len(q.tries))

\* The native call has returned: the chain is complete.
Complete(q) ==
  /\ q.url \in Hosts
  /\ q.chain # <<>> /\ Len(q.chain) <= MaxRedirects + 1
  /\ AllRedirect(q.chain, Len(q.chain) - 1)
  /\ Len(q.chain) <= MaxRedirects => ~IsRedirect(Last(q.chain).resp)
  /\ ChainOf(q.chain, q.chain[1].method, q.chain[1].body)
  /\ BodyFits(q.chain[1].method, q.chain[1].body)
  /\ q.tries # <<>> /\ Len(q.tries) <= Retries + 1
  /\ NoneAnswered(q.tries, Len(q.tries) - 1)

\* A retry: the chain is there to start from again, nothing has answered.
Waiting(q) ==
  /\ q.url \in Hosts
  /\ q.chain # <<>>
  /\ BodyFits(q.chain[1].method, q.chain[1].body)
  /\ Len(q.tries) <= Retries /\ NoneAnswered(q.tries, Len(q.tries))

\* The script has the result.
Tried(q) ==
  /\ Len(q.tries) <= Retries + 1
  /\ NoneAnswered(q.tries, Len(q.tries) - 1)
  /\ Len(q.tries) <= Retries => Last(q.tries) # 0

\* A cookie may go to host h.
GoesTo(k, h) == IF k.wide THEN {k.host, h} \subseteq Members ELSE k.host = h

CallOK(q) ==
  /\ q.pc \in {"hop", "wait"} => UnderWay(q)
  /\ q.pc = "result" => Complete(q)
  /\ q.pc = "backoff" => Waiting(q)
  /\ q.pc = "returned" => Tried(q)
  /\ q.pc = "wait" => \A k \in q.sent : GoesTo(k, q.host)

\* A cookie is in the jar under the host that set it or, if it named a domain,
\* comes from a host of that domain.
KeptFor(k, d) == k = None \/ IF k.wide THEN k.host \in Members ELSE k.host = d
JarByDomain ==
  \A c \in Carriers, d \in Domains, n \in Names : KeptFor(jar[c][d][n], d)

CallsOK == call \in [Workers -> CallRecord] /\ \A w \in Workers : CallOK(call[w])

NetOK == net \in [Workers -> Results \cup {None, Open}]
OptsOK == opts \in [Workers -> Types]
JarOK == jar \in [Carriers -> [Domains -> [Names -> {None} \cup Cookie]]]
OnOK ==
  /\ on \in [Workers -> Carriers \cup {None}]
  /\ \A w, v \in Workers : (on[w] = on[v] /\ on[w] # None) => w = v

HttpInv == CallsOK /\ NetOK /\ OptsOK /\ JarOK /\ OnOK /\ JarByDomain

-----------------------------------------------------------------------------
(* Lemmas about records and chains.                                        *)

\* What a result of the network has.
LEMMA ResultFields ==
  ASSUME NEW r \in Results
  PROVE  r.status \in Nat /\ r.location \in Hosts \cup {None}
  BY DEF Results, Response, Failure, Statuses

\* What the chain keeps of a result redirects as the result does.
LEMMA Bare ==
  ASSUME NEW r \in Results
  PROVE  /\ NoCookies(r) \in Results
         /\ IsRedirect(NoCookies(r)) <=> IsRedirect(r)
         /\ Collapses(NoCookies(r)) <=> Collapses(r)
  <1>1. /\ NoCookies(r).status = r.status /\ NoCookies(r).location = r.location
        /\ NoCookies(r) = [status |-> r.status, location |-> r.location, cookies |-> <<>>]
    BY DEF NoCookies, Results, Response, Failure
  <1>2. NoCookies(r) \in Results
    BY <1>1 DEF Results, Response, Failure
  <1> QED
    BY <1>1, <1>2 DEF IsRedirect, Collapses

\* A hop that is appended leaves the ones before it, and what turned them.
LEMMA AppendHop ==
  ASSUME NEW chain \in Seq(Hops), NEW hop \in Hops, NEW m, NEW b,
         ChainOf(chain, m, b),
         hop.method = SentMethod(chain, Len(chain) + 1, m),
         hop.body = SentBody(chain, Len(chain) + 1, b)
  PROVE  LET longer == Append(chain, hop) IN
         /\ longer \in Seq(Hops) /\ Len(longer) = Len(chain) + 1 /\ longer # <<>>
         /\ longer[Len(chain) + 1] = hop /\ \A i \in 1 .. Len(chain) : longer[i] = chain[i]
         /\ ChainOf(longer, m, b)
         /\ Turned(longer, Len(longer) + 1)
              <=> Turned(chain, Len(chain) + 1) \/ Collapses(hop.resp)
  <1> DEFINE longer == Append(chain, hop)
  <1>1. /\ longer \in Seq(Hops) /\ Len(longer) = Len(chain) + 1 /\ longer # <<>>
        /\ longer[Len(chain) + 1] = hop /\ \A i \in 1 .. Len(chain) : longer[i] = chain[i]
        /\ Len(chain) \in Nat /\ DOMAIN chain = 1 .. Len(chain)
        /\ DOMAIN longer = 1 .. Len(chain) + 1
    OBVIOUS
  <1> HIDE DEF longer
  <1>2. \A i \in 1 .. Len(chain) + 1 : Turned(longer, i) <=> Turned(chain, i)
    BY <1>1 DEF Turned
  <1>3. ChainOf(longer, m, b)
    <2> SUFFICES ASSUME NEW i \in 1 .. Len(chain) + 1
                 PROVE  /\ longer[i].method = SentMethod(longer, i, m)
                        /\ longer[i].body = SentBody(longer, i, b)
      BY <1>1 DEF ChainOf
    <2>1. SentMethod(longer, i, m) = SentMethod(chain, i, m)
          /\ SentBody(longer, i, b) = SentBody(chain, i, b)
      BY <1>2 DEF SentMethod, SentBody
    <2>2. CASE i = Len(chain) + 1
      BY <1>1, <2>1, <2>2
    <2>3. CASE i \in 1 .. Len(chain)
      BY <1>1, <2>1, <2>3 DEF ChainOf
    <2> QED
      BY <1>1, <2>2, <2>3
  <1>4. Turned(longer, Len(longer) + 1)
          <=> Turned(chain, Len(chain) + 1) \/ Collapses(hop.resp)
    BY <1>1 DEF Turned
  <1> QED
    BY <1>1, <1>3, <1>4 DEF longer

\* A change of one call is judged by the new record alone.
LEMMA OneCall ==
  ASSUME CallsOK, NEW w \in Workers, NEW q \in CallRecord, CallOK(q),
         call' = [call EXCEPT ![w] = q]
  PROVE  CallsOK'
  BY DEF CallsOK

-----------------------------------------------------------------------------
(* The scheduler, the iteration loop and what the script does by itself.   *)

LEMMA InitHolds == Init => HttpInv
  <1> SUFFICES ASSUME Init PROVE HttpInv
    OBVIOUS
  <1>1. NoCall \in CallRecord /\ CallOK(NoCall)
    BY DEF NoCall, CallRecord, CallOK, Methods, Bodies, Types
  <1>2. CallsOK
    BY <1>1 DEF Init, CallsOK
  <1>3. NetOK /\ OptsOK /\ OnOK
    BY DEF Init, NetOK, OptsOK, OnOK, Types
  <1>4. JarOK /\ JarByDomain
    BY DEF Init, EmptyJar, JarOK, JarByDomain, KeptFor
  <1> QED
    BY <1>2, <1>3, <1>4 DEF HttpInv

\* Between requests a call has nothing to be judged by.
LEMMA NothingAsked ==
  ASSUME NEW q, q.pc \in {"idle", "ready", "over"}
  PROVE  CallOK(q)
  BY DEF CallOK

\* A worker leaves its carrier, or takes a free one.
LEMMA OnChanges ==
  ASSUME OnOK, NEW w \in Workers, NEW c \in Carriers \cup {None},
         c = None \/ \A v \in Workers : on[v] # c,
         on' = [on EXCEPT ![w] = c]
  PROVE  OnOK'
  BY DEF OnOK

LEMMA ResumeKeeps ==
  ASSUME HttpInv, NEW w \in Workers, NEW c \in Carriers, Resume(w, c)
  PROVE  HttpInv'
  <1>1. OnOK'
    BY OnChanges DEF HttpInv, Resume
  <1> QED
    BY <1>1 DEF HttpInv, Resume, CallsOK, NetOK, OptsOK, JarOK, JarByDomain

LEMMA BeginIterationKeeps ==
  ASSUME HttpInv, NEW w \in Workers, BeginIteration(w)
  PROVE  HttpInv'
  <1> DEFINE q == [call[w] EXCEPT !.pc = "ready", !.iter = @ + 1]
  <1>1. q \in CallRecord /\ CallOK(q)
    <2>1. call[w] \in CallRecord
      BY DEF HttpInv, CallsOK
    <2>2. call[w].iter + 1 \in Nat
      BY <2>1 DEF CallRecord
    <2>3. q \in CallRecord /\ q.pc = "ready"
      BY <2>1, <2>2 DEF CallRecord
    <2> HIDE DEF q
    <2> QED
      BY <2>3, NothingAsked
  <1>2. call' = [call EXCEPT ![w] = q]
    BY DEF BeginIteration
  <1>3. CallsOK'
    BY <1>1, <1>2, OneCall DEF HttpInv
  <1> QED
    BY <1>3 DEF BeginIteration, HttpInv, NetOK, OptsOK, OnOK, JarOK, JarByDomain

LEMMA EndIterationKeeps ==
  ASSUME HttpInv, NEW w \in Workers, EndIteration(w)
  PROVE  HttpInv'
  <1> DEFINE q == [NoCall EXCEPT !.iter = call[w].iter]
  <1>1. q \in CallRecord /\ CallOK(q)
    <2>1. call[w].iter \in Nat
      BY DEF HttpInv, CallsOK, CallRecord
    <2>2. NoCall \in CallRecord /\ NoCall.pc = "idle"
      BY DEF CallRecord, NoCall, Methods, Bodies, Types
    <2>3. q \in CallRecord /\ q.pc = "idle"
      BY <2>1, <2>2 DEF CallRecord
    <2> HIDE DEF q
    <2> QED
      BY <2>3, NothingAsked
  <1>2. call' = [call EXCEPT ![w] = q]
    BY DEF EndIteration
  <1>3. CallsOK'
    BY <1>1, <1>2, OneCall DEF HttpInv
  <1> QED
    BY <1>3 DEF EndIteration, HttpInv, NetOK, OptsOK, OnOK, JarOK, JarByDomain

LEMMA EndWorkerKeeps ==
  ASSUME HttpInv, NEW w \in Workers, EndWorker(w)
  PROVE  HttpInv'
  <1> DEFINE q == [call[w] EXCEPT !.pc = "over"]
  <1>1. q \in CallRecord /\ CallOK(q)
    BY DEF HttpInv, CallsOK, CallRecord, CallOK
  <1>2. call' = [call EXCEPT ![w] = q]
    BY DEF EndWorker
  <1>3. CallsOK'
    BY <1>1, <1>2, OneCall DEF HttpInv
  <1>4. OnOK'
    BY OnChanges DEF HttpInv, EndWorker
  <1> QED
    BY <1>3, <1>4 DEF EndWorker, HttpInv, NetOK, OptsOK, JarOK, JarByDomain

LEMMA SleepKeeps ==
  ASSUME HttpInv, NEW w \in Workers, Sleep(w)
  PROVE  HttpInv'
  <1>1. OnOK'
    BY OnChanges DEF HttpInv, Sleep
  <1> QED
    BY <1>1 DEF HttpInv, Sleep, CallsOK, NetOK, OptsOK, JarOK, JarByDomain

\* The manual cookie API puts a cookie where a response would.
LEMMA JarKeeps ==
  ASSUME HttpInv, NEW w \in Workers,
         \/ \E h \in Hosts, n \in Names :
               JarDelete(w, h, n) \/ \E s \in {None, Site} : JarSet(w, h, n, s)
         \/ JarClear(w)
  PROVE  HttpInv'
  <1>1. UNCHANGED <<on, call, net, opts>> /\ on[w] \in Carriers
    BY DEF JarSet, JarDelete, JarClear, At
  <1>2. JarOK' /\ JarByDomain'
    <2>1. ASSUME NEW h \in Hosts, NEW n \in Names, NEW s \in {None, Site}, JarSet(w, h, n, s)
          PROVE  JarOK' /\ JarByDomain'
      <3> DEFINE k == [host |-> h, wide |-> s # None, owner |-> w]
      <3>1. PICK d \in Domains : Lands(s, h, d) /\ jar' = [jar EXCEPT ![on[w]][d][n] = k]
        BY <2>1 DEF JarSet
      <3>2. k \in Cookie /\ KeptFor(k, d)
        BY <3>1 DEF Cookie, KeptFor, Lands
      <3> HIDE DEF k
      <3>3. /\ jar' \in [Carriers -> [Domains -> [Names -> {None} \cup Cookie]]]
            /\ \A c \in Carriers, e \in Domains, m \in Names :
                 jar'[c][e][m] = IF c = on[w] /\ e = d /\ m = n THEN k ELSE jar[c][e][m]
        BY <1>1, <3>1, <3>2 DEF HttpInv, JarOK
      <3> QED
        BY <3>2, <3>3 DEF HttpInv, JarOK, JarByDomain
    <2>2. ASSUME NEW h \in Hosts, NEW n \in Names, JarDelete(w, h, n)
          PROVE  JarOK' /\ JarByDomain'
      BY <1>1, <2>2 DEF JarDelete, HttpInv, JarOK, JarByDomain, KeptFor
    <2>3. ASSUME JarClear(w) PROVE JarOK' /\ JarByDomain'
      BY <1>1, <2>3 DEF JarClear, EmptyJar, HttpInv, JarOK, JarByDomain, KeptFor
    <2> QED
      BY <2>1, <2>2, <2>3
  <1> QED
    BY <1>1, <1>2 DEF HttpInv, CallsOK, NetOK, OptsOK, OnOK

-----------------------------------------------------------------------------
(* A request: dispatch, hops, results, retries.                            *)

\* The native method is called with an empty chain and no attempt made.
LEMMA NativeStarts ==
  ASSUME NEW q \in CallRecord, q.pc = "hop", q.host \in Hosts, q.url \in Hosts,
         q.hops = 0, q.chain = <<>>, q.tries = <<>>,
         BodyFits(q.method, q.body)
  PROVE  CallNative(q) \in CallRecord /\ CallOK(CallNative(q))
  <1> DEFINE p == CallNative(q)
  <1>1. /\ p \in CallRecord /\ p.pc = "hop" /\ p.host \in Hosts /\ p.url \in Hosts
        /\ p.hops = 0 /\ p.chain = <<>> /\ p.tries = <<>>
        /\ BodyFits(p.method, p.body)
    BY DEF CallNative, NativeGet, NativeHead, NativeDel, NativePost, NativeRequest,
           WithDefaultType, BodyFits, CallRecord, Methods, Bodies, Types
  <1> HIDE DEF p
  <1>2. ~Turned(p.chain, 1)
    BY DEF Turned
  <1>3. UnderWay(p)
    BY <1>1, <1>2, HttpAssumption
       DEF HttpAssumption, UnderWay, AllRedirect, NoneAnswered, ChainOf, FirstMethod, FirstBody,
           SentMethod, SentBody
  <1> QED
    BY <1>1, <1>3 DEF CallOK, p

LEMMA DispatchKeeps ==
  ASSUME HttpInv, NEW w \in Workers, NEW m \in Methods, NEW b \in Bodies, NEW h \in Hosts,
         Dispatch(w, m, b, h)
  PROVE  HttpInv'
  <1> DEFINE type == IF b = "file" THEN "multipart" ELSE opts[w]
             q == [call[w] EXCEPT !.pc = "hop", !.method = m, !.body = b, !.type = type,
                        !.url = h, !.host = h, !.hops = 0, !.chain = <<>>, !.tries = <<>>]
  <1>1. type \in Types
    BY DEF HttpInv, OptsOK, Types
  <1>2. /\ q \in CallRecord /\ q.pc = "hop" /\ q.host \in Hosts /\ q.url \in Hosts
        /\ q.hops = 0 /\ q.chain = <<>> /\ q.tries = <<>>
        /\ q.method = m /\ q.body = b
    <2>1. call[w] \in CallRecord
      BY DEF HttpInv, CallsOK
    <2>2. <<>> \in Seq(Hops) /\ <<>> \in Seq(Nat)
      OBVIOUS
    <2> HIDE DEF type
    <2> QED
      BY <1>1, <2>1, <2>2 DEF CallRecord
  <1>3. BodyFits(m, b)
    BY DEF Dispatch, BodyFits
  <1>4. call' = [call EXCEPT ![w] = CallNative(q)]
    BY DEF Dispatch
  <1>5. OptsOK'
    BY <1>1 DEF Dispatch, HttpInv, OptsOK
  <1> HIDE DEF q
  <1>6. CallNative(q) \in CallRecord /\ CallOK(CallNative(q))
    BY <1>2, <1>3, NativeStarts
  <1>7. CallsOK'
    BY <1>4, <1>6, OneCall DEF HttpInv
  <1> QED
    BY <1>5, <1>7 DEF Dispatch, HttpInv, NetOK, OnOK, JarOK, JarByDomain

\* The cookies that leave are the ones the jar has under the host.
LEMMA SendHopKeeps ==
  ASSUME HttpInv, NEW w \in Workers, SendHop(w)
  PROVE  HttpInv'
  <1> DEFINE cookies == JarCookies(on[w], call[w].host)
             q == [call[w] EXCEPT !.pc = "wait", !.sent = cookies]
  <1>1. call[w] \in CallRecord /\ UnderWay(call[w]) /\ call[w].host \in Hosts
        /\ on[w] \in Carriers
    BY DEF SendHop, At, HttpInv, CallsOK, CallOK, UnderWay
  <1>2. cookies \subseteq Cookie /\ \A k \in cookies : GoesTo(k, call[w].host)
    <2> SUFFICES ASSUME NEW k \in cookies PROVE k \in Cookie /\ GoesTo(k, call[w].host)
      OBVIOUS
    <2>1. PICK d \in Domains : \E n \in Names :
            k = jar[on[w]][d][n] /\ Matches(k, d, call[w].host)
      BY DEF JarCookies
    <2>2. k # None /\ k \in Cookie /\ KeptFor(k, d)
      BY <1>1, <2>1 DEF Matches, HttpInv, JarOK, JarByDomain
    <2> QED
      BY <2>1, <2>2 DEF Matches, KeptFor, GoesTo
  <1> HIDE DEF cookies
  <1>3. q \in CallRecord /\ q.pc = "wait" /\ q.sent = cookies /\ q.host = call[w].host
        /\ q.chain = call[w].chain /\ q.hops = call[w].hops /\ q.method = call[w].method
        /\ q.body = call[w].body /\ q.tries = call[w].tries /\ q.url = call[w].url
    BY <1>1, <1>2 DEF CallRecord
  <1>4. call' = [call EXCEPT ![w] = q]
    BY DEF SendHop, cookies
  <1> HIDE DEF q
  <1>5. CallOK(q)
    BY <1>1, <1>2, <1>3 DEF CallOK, UnderWay, FirstMethod, FirstBody
  <1>6. CallsOK'
    BY <1>3, <1>4, <1>5, OneCall DEF HttpInv
  <1>7. NetOK'
    BY DEF SendHop, HttpInv, NetOK
  <1>8. OnOK'
    <2>1. CASE on' = on
      BY <2>1 DEF HttpInv, OnOK
    <2> QED
      BY <2>1, OnChanges DEF SendHop, HttpInv
  <1> QED
    BY <1>6, <1>7, <1>8 DEF SendHop, HttpInv, OptsOK, JarOK, JarByDomain

\* The network's result is one result, an answer or a failure.
LEMMA NetworkKeeps ==
  ASSUME HttpInv, NEW w \in Workers, Network(w)
  PROVE  HttpInv'
  <1>1. NetOK'
    BY DEF Network, Answer, TimesOut, HttpInv, NetOK, Results
  <1> QED
    BY <1>1 DEF Network, Answer, TimesOut, HttpInv, CallsOK, OptsOK, OnOK, JarOK, JarByDomain

\* Cookies of a response go under the host of the hop, or under a domain the
\* host is in.
LEMMA StoredByDomain ==
  ASSUME HttpInv, NEW w \in Workers, NEW r, on[w] \in Carriers, call[w].host \in Hosts,
         jar' = Stored(w, r)
  PROVE  JarOK' /\ JarByDomain'
  <1> DEFINE u == call[w].host
             new(d, n) == {k \in Seen(r) : k.name = n /\ Lands(k.domain, u, d)}
             cookie(d, n) == [host |-> u, owner |-> w,
                              wide |-> \E k \in new(d, n) : k.domain # None]
             after == StoredFor(w, r, u)
  <1>1. jar' = [jar EXCEPT ![on[w]] = after]
    BY DEF Stored
  <1>2. after = [d \in Domains |-> [n \in Names |->
                  IF new(d, n) = {} THEN jar[on[w]][d][n] ELSE cookie(d, n)]]
    BY DEF StoredFor
  <1>3. ASSUME NEW d \in Domains, NEW n \in Names
        PROVE  /\ after[d][n] \in {None} \cup Cookie
               /\ KeptFor(after[d][n], d)
    <2>1. after[d][n] = IF new(d, n) = {} THEN jar[on[w]][d][n] ELSE cookie(d, n)
      BY <1>2
    <2>2. CASE new(d, n) = {}
      BY <2>1, <2>2 DEF HttpInv, JarOK, JarByDomain
    <2>3. CASE new(d, n) # {}
      <3>1. cookie(d, n) \in Cookie
        BY DEF Cookie
      <3>2. KeptFor(cookie(d, n), d)
        BY <2>3 DEF KeptFor, Lands
      <3> QED
        BY <2>1, <2>3, <3>1, <3>2
    <2> QED
      BY <2>2, <2>3
  <1>4. after \in [Domains -> [Names -> {None} \cup Cookie]]
    BY <1>2, <1>3
  <1> HIDE DEF after
  <1>5. /\ jar' \in [Carriers -> [Domains -> [Names -> {None} \cup Cookie]]]
        /\ jar'[on[w]] = after
        /\ \A c \in Carriers : c # on[w] => jar'[c] = jar[c]
    BY <1>1, <1>4 DEF HttpInv, JarOK
  <1> QED
    BY <1>3, <1>5 DEF HttpInv, JarOK, JarByDomain

\* The chain of a request under way grows by the hop that was just answered;
\* it still began with the same method and body.
LEMMA ChainGrows ==
  ASSUME NEW q \in CallRecord, UnderWay(q), NEW r \in Results
  PROVE  LET longer == Append(q.chain, Hop(q, r)) IN
         /\ longer \in Seq(Hops) /\ Len(longer) = q.hops + 1 /\ longer # <<>>
         /\ IsRedirect(longer[q.hops + 1].resp) <=> IsRedirect(r)
         /\ AllRedirect(longer, q.hops)
         /\ longer[1].method = FirstMethod(q) /\ longer[1].body = FirstBody(q)
         /\ ChainOf(longer, FirstMethod(q), FirstBody(q))
         /\ Turned(longer, q.hops + 2) <=> Turned(q.chain, q.hops + 1) \/ Collapses(r)
  <1> DEFINE hop == Hop(q, r)
             longer == Append(q.chain, hop)
  <1>1. /\ hop \in Hops /\ hop.method = q.method /\ hop.body = q.body
        /\ IsRedirect(hop.resp) <=> IsRedirect(r)
        /\ Collapses(hop.resp) <=> Collapses(r)
    BY Bare DEF Hop, Hops, CallRecord
  <1>2. q.chain \in Seq(Hops) /\ Len(q.chain) = q.hops /\ q.hops \in Nat
    BY DEF CallRecord, UnderWay
  <1> HIDE DEF hop
  <1>3. /\ longer \in Seq(Hops) /\ Len(longer) = q.hops + 1 /\ longer # <<>>
        /\ longer[q.hops + 1] = hop /\ \A i \in 1 .. q.hops : longer[i] = q.chain[i]
        /\ ChainOf(longer, FirstMethod(q), FirstBody(q))
        /\ Turned(longer, Len(longer) + 1) <=> Turned(q.chain, q.hops + 1) \/ Collapses(hop.resp)
    BY <1>1, <1>2, AppendHop DEF UnderWay
  <1> HIDE DEF longer
  <1>4. AllRedirect(longer, q.hops)
    BY <1>3 DEF AllRedirect, UnderWay
  <1>5. longer[1].method = FirstMethod(q) /\ longer[1].body = FirstBody(q)
    <2>1. CASE q.chain = <<>>
      BY <1>1, <1>2, <1>3, <2>1 DEF FirstMethod, FirstBody
    <2>2. CASE q.chain # <<>>
      <3>1. q.hops > 0
        BY <1>2, <2>2
      <3> QED
        BY <1>2, <1>3, <2>2, <3>1 DEF FirstMethod, FirstBody
    <2> QED
      BY <2>1, <2>2
  <1>6. Len(longer) + 1 = q.hops + 2
    BY <1>2, <1>3
  <1> QED
    BY <1>1, <1>3, <1>4, <1>5, <1>6 DEF longer, hop

\* What follows a redirect is under way again, one hop further.
LEMMA RedirectGoesOn ==
  ASSUME NEW q \in CallRecord, UnderWay(q), NEW r \in Results,
         q.hops < MaxRedirects, IsRedirect(r)
  PROVE  LET n == [Redirected(q, r) EXCEPT !.pc = "hop", !.host = r.location, !.hops = @ + 1, !.sent = {},
                                           !.chain = Append(@, Hop(q, r))]
         IN  n \in CallRecord /\ CallOK(n)
  <1> DEFINE p == Redirected(q, r)
             longer == Append(q.chain, Hop(q, r))
             n == [p EXCEPT !.pc = "hop", !.host = r.location, !.hops = @ + 1, !.sent = {},
                            !.chain = Append(@, Hop(q, r))]
             M == FirstMethod(q)
             B == FirstBody(q)
             turns == Collapses(r) /\ q.method \notin {"GET", "HEAD"}
  <1>1. /\ p \in CallRecord /\ p.hops = q.hops /\ p.chain = q.chain
        /\ p.url = q.url /\ p.tries = q.tries
        /\ p.method = (IF turns THEN "GET" ELSE q.method)
        /\ p.body = (IF turns THEN None ELSE q.body)
    BY DEF Redirected, CallRecord, Methods, Bodies, Types
  <1> HIDE DEF p
  <1>2. /\ longer \in Seq(Hops) /\ Len(longer) = q.hops + 1 /\ longer # <<>>
        /\ IsRedirect(longer[q.hops + 1].resp) <=> IsRedirect(r)
        /\ AllRedirect(longer, q.hops)
        /\ longer[1].method = M /\ longer[1].body = B
        /\ ChainOf(longer, M, B)
        /\ Turned(longer, q.hops + 2) <=> Turned(q.chain, q.hops + 1) \/ Collapses(r)
    BY ChainGrows
  <1>3. r.location \in Hosts
    BY ResultFields DEF IsRedirect
  <1>4. q.hops \in Nat /\ q.hops + 1 \in Nat
    BY DEF CallRecord
  <1>5. Append(p.chain, Hop(q, r)) = longer
    BY <1>1
  <1> HIDE DEF longer
  <1>6. /\ n \in CallRecord /\ n.pc = "hop" /\ n.host = r.location /\ n.hops = q.hops + 1
        /\ n.chain = longer /\ n.url = q.url /\ n.tries = q.tries
        /\ n.method = p.method /\ n.body = p.body
    BY <1>1, <1>2, <1>3, <1>4, <1>5 DEF CallRecord
  <1> HIDE DEF n
  <1>7. FirstMethod(n) = M /\ FirstBody(n) = B
    BY <1>2, <1>6 DEF FirstMethod, FirstBody
  <1>8. /\ q.method = SentMethod(q.chain, q.hops + 1, M)
        /\ q.body = SentBody(q.chain, q.hops + 1, B)
        /\ BodyFits(M, B)
    BY DEF UnderWay
  <1> HIDE DEF M, B
  <1>9. n.method = SentMethod(longer, q.hops + 2, M)
    BY <1>1, <1>2, <1>6, <1>8 DEF SentMethod
  <1>10. n.body = SentBody(longer, q.hops + 2, B)
    BY <1>1, <1>2, <1>6, <1>8 DEF SentMethod, SentBody, BodyFits
  <1>11. AllRedirect(longer, q.hops + 1)
    BY <1>2, <1>4 DEF AllRedirect
  <1>12. q.hops + 1 + 1 = q.hops + 2 /\ q.hops + 1 <= MaxRedirects
    BY <1>4, HttpAssumption DEF HttpAssumption
  <1>13. UnderWay(n)
    BY <1>2, <1>3, <1>6, <1>7, <1>8, <1>9, <1>10, <1>11, <1>12 DEF UnderWay
  <1>14. CallOK(n)
    BY <1>6, <1>13 DEF CallOK
  <1> QED
    BY <1>6, <1>14 DEF n, p

LEMMA FollowRedirectKeeps ==
  ASSUME HttpInv, NEW w \in Workers, FollowRedirect(w)
  PROVE  HttpInv'
  <1> DEFINE q == call[w]
             r == net[w]
             n == [Redirected(q, r) EXCEPT !.pc = "hop", !.host = r.location, !.hops = @ + 1, !.sent = {},
                                           !.chain = Append(@, Hop(q, r))]
  <1>1. /\ q \in CallRecord /\ UnderWay(q) /\ q.host \in Hosts
        /\ on[w] \in Carriers /\ r \in Results
    BY DEF FollowRedirect, At, HttpInv, CallsOK, CallOK, NetOK, UnderWay
  <1>2. q.hops < MaxRedirects /\ IsRedirect(r)
    BY DEF FollowRedirect, Follows
  <1>3. n \in CallRecord /\ CallOK(n)
    BY <1>1, <1>2, RedirectGoesOn
  <1>4. call' = [call EXCEPT ![w] = n]
    BY DEF FollowRedirect
  <1> HIDE DEF n
  <1>5. CallsOK'
    BY <1>3, <1>4, OneCall DEF HttpInv
  <1>6. JarOK' /\ JarByDomain'
    BY <1>1, StoredByDomain DEF FollowRedirect
  <1> QED
    BY <1>5, <1>6 DEF FollowRedirect, HttpInv, NetOK, OptsOK, OnOK

\* The native call returns where the chain ends.
LEMMA ChainEnds ==
  ASSUME NEW q \in CallRecord, UnderWay(q), NEW r \in Results,
         ~(q.hops < MaxRedirects /\ IsRedirect(r))
  PROVE  LET n == [q EXCEPT !.pc = "result", !.chain = Append(@, Hop(q, r)),
                            !.tries = Append(@, r.status), !.sent = {}]
         IN  n \in CallRecord /\ CallOK(n)
  <1> DEFINE longer == Append(q.chain, Hop(q, r))
             more == Append(q.tries, r.status)
             n == [q EXCEPT !.pc = "result", !.chain = longer, !.tries = more, !.sent = {}]
  <1>1. /\ longer \in Seq(Hops) /\ Len(longer) = q.hops + 1 /\ longer # <<>>
        /\ IsRedirect(longer[q.hops + 1].resp) <=> IsRedirect(r)
        /\ AllRedirect(longer, q.hops)
        /\ longer[1].method = FirstMethod(q) /\ longer[1].body = FirstBody(q)
        /\ ChainOf(longer, FirstMethod(q), FirstBody(q))
    BY ChainGrows
  <1>2. q.tries \in Seq(Nat) /\ r.status \in Nat /\ q.hops \in Nat
    BY ResultFields DEF CallRecord
  <1>3. /\ more \in Seq(Nat) /\ Len(more) = Len(q.tries) + 1 /\ more # <<>>
        /\ Len(q.tries) \in Nat /\ \A i \in 1 .. Len(q.tries) : more[i] = q.tries[i]
    BY <1>2
  <1> HIDE DEF longer, more
  <1>4. /\ n \in CallRecord /\ n.pc = "result" /\ n.chain = longer /\ n.tries = more
        /\ n.url = q.url
    BY <1>1, <1>3 DEF CallRecord
  <1> HIDE DEF n
  <1>5. NoneAnswered(more, Len(more) - 1) /\ Len(more) <= Retries + 1
    BY <1>3, HttpAssumption DEF NoneAnswered, UnderWay, HttpAssumption
  <1>6. /\ Len(longer) <= MaxRedirects + 1 /\ Len(longer) - 1 = q.hops
        /\ Len(longer) <= MaxRedirects => ~IsRedirect(Last(longer).resp)
    BY <1>1, <1>2, HttpAssumption DEF Last, UnderWay, HttpAssumption
  <1>7. Complete(n)
    BY <1>1, <1>3, <1>4, <1>5, <1>6 DEF Complete, UnderWay
  <1>8. CallOK(n)
    BY <1>4, <1>7 DEF CallOK
  <1> QED
    BY <1>4, <1>8 DEF n, longer, more

LEMMA ReturnKeeps ==
  ASSUME HttpInv, NEW w \in Workers, Return(w)
  PROVE  HttpInv'
  <1> DEFINE q == call[w]
             r == net[w]
             n == [q EXCEPT !.pc = "result", !.chain = Append(@, Hop(q, r)),
                            !.tries = Append(@, r.status), !.sent = {}]
  <1>1. /\ q \in CallRecord /\ UnderWay(q) /\ q.host \in Hosts
        /\ on[w] \in Carriers /\ r \in Results
    BY DEF Return, At, HttpInv, CallsOK, CallOK, NetOK, UnderWay
  <1>2. ~(q.hops < MaxRedirects /\ IsRedirect(r))
    BY DEF Return, Follows
  <1>3. n \in CallRecord /\ CallOK(n)
    BY <1>1, <1>2, ChainEnds
  <1>4. call' = [call EXCEPT ![w] = n]
    BY DEF Return
  <1> HIDE DEF n
  <1>5. CallsOK'
    BY <1>3, <1>4, OneCall DEF HttpInv
  <1>6. JarOK' /\ JarByDomain'
    <2>1. CASE jar' = jar
      BY <2>1 DEF HttpInv, JarOK, JarByDomain
    <2>2. CASE jar' = Stored(w, r)
      BY <1>1, <2>2, StoredByDomain
    <2> QED
      BY <2>1, <2>2 DEF Return
  <1> QED
    BY <1>5, <1>6 DEF Return, HttpInv, NetOK, OptsOK, OnOK

\* Nothing has answered the request that is tried again.
LEMMA BackOffKeeps ==
  ASSUME HttpInv, NEW w \in Workers, BackOff(w)
  PROVE  HttpInv'
  <1> DEFINE q == [call[w] EXCEPT !.pc = "backoff"]
  <1>1. call[w] \in CallRecord /\ Complete(call[w])
    BY DEF BackOff, At, HttpInv, CallsOK, CallOK
  <1>2. /\ q \in CallRecord /\ q.pc = "backoff" /\ q.chain = call[w].chain
        /\ q.tries = call[w].tries /\ q.url = call[w].url
    BY <1>1 DEF CallRecord
  <1>3. call' = [call EXCEPT ![w] = q]
    BY DEF BackOff
  <1> HIDE DEF q
  <1>4. Waiting(q)
    <2>1. q.tries \in Seq(Nat)
      BY <1>2 DEF CallRecord
    <2>2. Len(q.tries) <= Retries /\ q.tries[Len(q.tries)] = 0
      BY <1>2 DEF BackOff, ShouldRetry, Last
    <2>3. NoneAnswered(q.tries, Len(q.tries))
      BY <1>1, <1>2, <2>1, <2>2 DEF Complete, NoneAnswered
    <2> QED
      BY <1>1, <1>2, <2>2, <2>3 DEF Complete, Waiting
  <1>5. CallsOK'
    BY <1>2, <1>3, <1>4, OneCall DEF HttpInv, CallOK
  <1>6. OnOK'
    BY OnChanges DEF HttpInv, BackOff
  <1> QED
    BY <1>5, <1>6 DEF BackOff, HttpInv, NetOK, OptsOK, JarOK, JarByDomain

\* A retry starts from the first hop, with what the script asked for.
LEMMA RetryKeeps ==
  ASSUME HttpInv, NEW w \in Workers, Retry(w)
  PROVE  HttpInv'
  <1> DEFINE f == call[w].chain[1]
             q == [call[w] EXCEPT !.pc = "hop", !.hops = 0, !.chain = <<>>,
                     !.host = call[w].url, !.method = f.method, !.body = f.body, !.type = f.type]
  <1>1. call[w] \in CallRecord /\ Waiting(call[w])
    BY DEF Retry, At, HttpInv, CallsOK, CallOK
  <1>2. call[w].chain \in Seq(Hops) /\ call[w].chain # <<>>
    BY <1>1 DEF CallRecord, Waiting
  <1>3. f \in Hops
    BY <1>2
  <1> HIDE DEF f
  <1>4. <<>> \in Seq(Hops) /\ call[w].url \in Hosts
    BY <1>1 DEF Waiting
  <1>5. /\ q \in CallRecord /\ q.pc = "hop" /\ q.chain = <<>> /\ q.hops = 0
        /\ q.host = call[w].url /\ q.url = call[w].url /\ q.tries = call[w].tries
        /\ q.method = f.method /\ q.body = f.body
    BY <1>1, <1>3, <1>4 DEF CallRecord, Hops
  <1>6. call' = [call EXCEPT ![w] = q]
    BY DEF Retry, First, f
  <1> HIDE DEF q
  <1>7. ~Turned(q.chain, 1)
    BY DEF Turned
  <1>8. UnderWay(q)
    BY <1>1, <1>4, <1>5, <1>7, HttpAssumption
       DEF HttpAssumption, Waiting, UnderWay, AllRedirect, ChainOf, FirstMethod, FirstBody,
           SentMethod, SentBody, f
  <1>9. CallsOK'
    BY <1>5, <1>6, <1>8, OneCall DEF HttpInv, CallOK
  <1> QED
    BY <1>9 DEF Retry, HttpInv, NetOK, OptsOK, OnOK, JarOK, JarByDomain

LEMMA ResultKeeps ==
  ASSUME HttpInv, NEW w \in Workers, Result(w)
  PROVE  HttpInv'
  <1> DEFINE q == [call[w] EXCEPT !.pc = "returned"]
  <1>1. call[w] \in CallRecord /\ Complete(call[w])
    BY DEF Result, At, HttpInv, CallsOK, CallOK
  <1>2. q \in CallRecord /\ q.pc = "returned" /\ q.tries = call[w].tries
    BY <1>1 DEF CallRecord
  <1>3. call' = [call EXCEPT ![w] = q]
    BY DEF Result
  <1>4. Len(call[w].tries) <= Retries => Last(call[w].tries) # 0
    BY DEF Result, ShouldRetry
  <1> HIDE DEF q
  <1>5. Tried(q)
    BY <1>1, <1>2, <1>4 DEF Complete, Tried
  <1>6. CallsOK'
    BY <1>2, <1>3, <1>5, OneCall DEF HttpInv, CallOK
  <1> QED
    BY <1>6 DEF Result, HttpInv, NetOK, OptsOK, OnOK, JarOK, JarByDomain

-----------------------------------------------------------------------------
(* The theorems.                                                           *)

\* Every step keeps the invariant.
LEMMA HttpInvNext == HttpInv /\ [Next]_vars => HttpInv'
  <1> SUFFICES ASSUME HttpInv, [Next]_vars PROVE HttpInv'
    OBVIOUS
  <1>1. CASE UNCHANGED vars
    BY <1>1 DEF vars, HttpInv, CallsOK, NetOK, OptsOK, OnOK, JarOK, JarByDomain
  <1>2. ASSUME NEW w \in Workers, Step(w) PROVE HttpInv'
    BY <1>2, ResumeKeeps, BeginIterationKeeps, SendHopKeeps, FollowRedirectKeeps, ReturnKeeps,
       BackOffKeeps, RetryKeeps, ResultKeeps, EndIterationKeeps, EndWorkerKeeps DEF Step
  <1>3. ASSUME NEW w \in Workers, Script(w) PROVE HttpInv'
    BY <1>3, DispatchKeeps, SleepKeeps, JarKeeps DEF Script, Methods, Bodies
  <1>4. ASSUME NEW w \in Workers, Network(w) PROVE HttpInv'
    BY <1>4, NetworkKeeps
  <1> QED
    BY <1>1, <1>2, <1>3, <1>4 DEF Next, AllOver

LEMMA HttpInvariant == Spec => []HttpInv
  <1>1. Init => HttpInv
    BY InitHolds
  <1>2. HttpInv /\ [Next]_vars => HttpInv'
    BY HttpInvNext
  <1> QED
    BY <1>1, <1>2, PTL DEF Spec

\* Carriers, results of the network and cookie jars have their types, and no
\* carrier runs two coroutines.
THEOREM TypeCorrect == Spec => []TypeOK
  <1>1. HttpInv => TypeOK
    BY DEF HttpInv, OnOK, NetOK, JarOK, Results, Cookie, TypeOK
  <1> QED
    BY <1>1, HttpInvariant, PTL

\* The redirect loop of http_sync.rs: the script gets the response at the end
\* of its chain, every one before it was a redirect, the limit is kept, and
\* method and body change exactly when a 301, 302 or 303 says so.
THEOREM ChainsEndWhereTheyShould == Spec => []RedirectsFollowed
  <1>1. HttpInv => RedirectsFollowed
    <2> SUFFICES ASSUME HttpInv, NEW w \in Workers, call[w].pc = "result"
                 PROVE  LET chain == call[w].chain
                            turned(i) == \E j \in 1 .. i - 1 : Collapses(chain[j].resp)
                        IN  /\ Len(chain) <= MaxRedirects + 1
                            /\ \A i \in 1 .. Len(chain) - 1 : IsRedirect(chain[i].resp)
                            /\ Len(chain) <= MaxRedirects => ~IsRedirect(Last(chain).resp)
                            /\ \A i \in DOMAIN chain :
                                 /\ chain[i].method = IF turned(i) /\ chain[1].method # "HEAD"
                                                      THEN "GET" ELSE chain[1].method
                                 /\ chain[i].body = IF turned(i) THEN None ELSE chain[1].body
      BY DEF RedirectsFollowed
    <2>1. Complete(call[w])
      BY DEF HttpInv, CallsOK, CallOK
    <2> QED
      BY <2>1 DEF Complete, AllRedirect, ChainOf, SentMethod, SentBody, Turned
  <1> QED
    BY <1>1, HttpInvariant, PTL

\* The retry loop of dispatch(): a request is sent again only while nothing
\* has answered, and given up only with an answer or without attempts left.
THEOREM RetriedOnlyUnanswered == Spec => []RetriedWhileUnanswered
  <1>1. HttpInv => RetriedWhileUnanswered
    BY DEF HttpInv, CallsOK, CallOK, Tried, NoneAnswered, RetriedWhileUnanswered
  <1> QED
    BY <1>1, HttpInvariant, PTL

\* apply_jar_cookies and store_response_cookies: a cookie goes back to the host
\* whose response (or jar.set) made it or, if it named a domain, stays among the
\* hosts of that domain, over redirects and changes of carrier.
THEOREM CookiesSentWhereSet == Spec => []SentWhereSet
  <1>1. HttpInv => SentWhereSet
    BY DEF HttpInv, CallsOK, CallOK, GoesTo, SentWhereSet
  <1> QED
    BY <1>1, HttpInvariant, PTL
=============================================================================
