---------------------------- MODULE HttpRequest ----------------------------
(***************************************************************************)
(* HTTP requests of script workers (bridge/http_sync.rs, bridge/group.rs,  *)
(* the sleep tracker of bridge/mod.rs, engine/io_bridge.rs).               *)
(*                                                                         *)
(* A worker is a coroutine; it runs on one of the carrier threads until it *)
(* yields (a request through the I/O bridge, a sleep), and may continue on *)
(* another carrier.  Cookie jar, segment name and sleep tracker live in    *)
(* thread-locals, that is, in the carrier.  Requests of the pooled client  *)
(* block the carrier instead.                                              *)
(*                                                                         *)
(* Content is abstracted: a URL is its host, a cookie is a name with the   *)
(* host and the worker whose response set it, a body is text or a file.    *)
(* Cookies are kept for the host that set them or, with a Domain attribute,*)
(* for a domain; all have the path "/", none is Secure and none expires.   *)
(***************************************************************************)
EXTENDS Naturals, Sequences, FiniteSets, SequencesExt

CONSTANTS
  Workers, Carriers, Hosts, Names,
  Site, Members,    \* a domain a cookie may name, and the hosts at or below it
  MaxRedirects,     \* max_redirects
  Retries,          \* option `retry` of every request
  MaxIterations,    \* bound: iterations of a worker
  HasDefaults,      \* http.setDefaults({headers}) was called
  SegmentWorkers,   \* workers whose script runs inside segment()
  None, Open        \* model values: nothing; a request under way

ASSUME HttpAssumption ==
  /\ MaxRedirects \in Nat /\ Retries \in Nat /\ MaxIterations \in Nat
  /\ HasDefaults \in BOOLEAN /\ SegmentWorkers \subseteq Workers
  /\ Members \subseteq Hosts /\ {Site} \cap Hosts \subseteq Members

VARIABLES
  bridged,   \* no_pool: requests go through the I/O bridge
  on,        \* carrier that runs the worker, or None
  call,      \* the request of the worker
  net,       \* what the network has for the worker: None, Open or a result
  jar,       \* COOKIE_JAR of a carrier
  group,     \* CURRENT_GROUP of a carrier: the open segments
  slept,     \* SLEEP_ACCUMULATED of a carrier
  opts,      \* Content-Type in the script's reused options object
  seg,       \* `prev` of the worker's open segment, or None
  mine,      \* history: sleeps of the worker in its current iteration
  named,     \* history: group prefix of the worker's last request metric
  read       \* history: sleep time and own sleeps at the end of an iteration

vars == <<bridged, on, call, net, jar, group, slept, opts, seg, mine, named, read>>

-----------------------------------------------------------------------------
Statuses == {200, 302, 307}

\* A Set-Cookie header, without or with a Domain attribute.
SetCookie == [name : Names, domain : {None, Site}]

\* Bound: no more than two cookies, and a Location with 302 and 307 only (with
\* another status nobody looks at it).
Response ==
  {r \in [status : Statuses, location : Hosts \cup {None},
          cookies : {<<>>} \cup {<<k>> : k \in SetCookie}
                      \cup {p \in SetCookie \X SetCookie : p[1].name # p[2].name}] :
     r.location # None => r.status \in {302, 307}}
Failure == [status |-> 0, location |-> None, cookies |-> <<>>]

NoCall == [pc |-> "idle", iter |-> 0, method |-> "GET", body |-> None, type |-> None,
           url |-> None, host |-> None, hops |-> 0, chain |-> <<>>, tries |-> <<>>, sent |-> {}]

\* The jar has one place for a name in a domain; the domain of a cookie that
\* names none is the host it comes from.
Domains == Hosts \cup {Site}
EmptyJar == [d \in Domains |-> [n \in Names |-> None]]

Init ==
  /\ bridged \in BOOLEAN
  /\ on = [w \in Workers |-> None]
  /\ call = [w \in Workers |-> NoCall]
  /\ net = [w \in Workers |-> None]
  /\ jar = [c \in Carriers |-> EmptyJar]
  /\ group = [c \in Carriers |-> <<>>]
  /\ slept = [c \in Carriers |-> 0]
  /\ opts = [w \in Workers |-> None]
  /\ seg = [w \in Workers |-> None]
  /\ mine = [w \in Workers |-> 0]
  /\ named = [w \in Workers |-> <<>>]
  /\ read = [w \in Workers |-> <<0, 0>>]

At(w, pc) == on[w] \in Carriers /\ call[w].pc = pc

-----------------------------------------------------------------------------
(* The coroutine scheduler and the iteration loop of a worker.             *)

\* A free carrier continues a coroutine that has something to do.
Resume(w, c) ==
  /\ on[w] = None
  /\ call[w].pc # "over"
  /\ call[w].pc = "wait" => net[w] \notin {None, Open}
  /\ \A v \in Workers : on[v] # c
  /\ on' = [on EXCEPT ![w] = c]
  /\ UNCHANGED <<bridged, call, net, jar, group, slept, opts, seg, mine, named, read>>

\* reset_sleep_tracker, and the script enters its segment (set_group).
BeginIteration(w) ==
  LET c == on[w] IN
  /\ At(w, "idle")
  /\ call[w].iter < MaxIterations
  /\ call' = [call EXCEPT ![w].pc = "ready", ![w].iter = @ + 1]
  /\ slept' = [slept EXCEPT ![c] = 0]
  /\ mine' = [mine EXCEPT ![w] = 0]
  /\ named' = [named EXCEPT ![w] = <<>>]
  /\ read' = [read EXCEPT ![w] = <<0, 0>>]
  /\ IF w \in SegmentWorkers
     THEN /\ seg' = [seg EXCEPT ![w] = group[c]]
          /\ group' = [group EXCEPT ![c] = Append(@, w)]
     ELSE UNCHANGED <<seg, group>>
  /\ UNCHANGED <<bridged, on, net, jar, opts>>

\* restore_group, then get_sleep_accumulated for the Iteration metric.
EndIteration(w) ==
  LET c == on[w] IN
  /\ At(w, "returned")
  /\ call' = [call EXCEPT ![w] = [NoCall EXCEPT !.iter = call[w].iter]]
  /\ read' = [read EXCEPT ![w] = <<slept[c], mine[w]>>]
  /\ group' = IF seg[w] = None THEN group ELSE [group EXCEPT ![c] = seg[w]]
  /\ seg' = [seg EXCEPT ![w] = None]
  /\ UNCHANGED <<bridged, on, net, jar, slept, opts, mine, named>>

\* The worker has done its iterations and its coroutine ends.
EndWorker(w) ==
  /\ At(w, "idle")
  /\ call[w].iter = MaxIterations
  /\ call' = [call EXCEPT ![w].pc = "over"]
  /\ on' = [on EXCEPT ![w] = None]
  /\ UNCHANGED <<bridged, net, jar, group, slept, opts, seg, mine, named, read>>

\* sleep() of the script (bound: once before the request): track_sleep on this
\* carrier, then yield.
Sleep(w) ==
  /\ At(w, "ready")
  /\ mine[w] = 0
  /\ slept' = [slept EXCEPT ![on[w]] = @ + 1]
  /\ mine' = [mine EXCEPT ![w] = @ + 1]
  /\ on' = [on EXCEPT ![w] = None]
  /\ UNCHANGED <<bridged, call, net, jar, group, opts, seg, named, read>>

-----------------------------------------------------------------------------
(* The manual cookie API.                                                  *)

\* The place of a cookie from host h that names domain s or None: the library
\* refuses a domain the host is not in.
Lands(s, h, d) == IF s = None THEN d = h ELSE d = Site /\ h \in Members

\* CookieStore::matches: a cookie kept for a host is for that host alone, one
\* kept for a domain for all its hosts.
Matches(k, d, h) == k # None /\ IF k.wide THEN h \in Members ELSE h = d

\* jar.set(url, name, ..., {domain}); a refused cookie throws.
JarSet(w, h, n, s) ==
  /\ At(w, "ready")
  /\ \E d \in Domains :
       /\ Lands(s, h, d)
       /\ jar' = [jar EXCEPT ![on[w]][d][n] = [host |-> h, wide |-> s # None, owner |-> w]]
  /\ UNCHANGED <<bridged, on, call, net, group, slept, opts, seg, mine, named, read>>

\* jar.delete(url, name): whatever cookies of that name match the URL.
JarDelete(w, h, n) ==
  LET c == on[w] IN
  /\ At(w, "ready")
  /\ jar' = [jar EXCEPT ![c] = [d \in Domains |-> [m \in Names |->
                IF m = n /\ Matches(jar[c][d][m], d, h) THEN None ELSE jar[c][d][m]]]]
  /\ UNCHANGED <<bridged, on, call, net, group, slept, opts, seg, mine, named, read>>

JarClear(w) ==
  /\ At(w, "ready")
  /\ jar' = [jar EXCEPT ![on[w]] = EmptyJar]
  /\ UNCHANGED <<bridged, on, call, net, group, slept, opts, seg, mine, named, read>>

-----------------------------------------------------------------------------
(* One call of http.get / http.post / ...                                  *)

\* Faulty variant: the headers are never copied.
NeverCopied == TRUE

\* mergeDefaults copies the headers only when there are default headers; else
\* `merged.headers` is the script's object, and what dispatch() writes stays.
SharesHeaders == ~HasDefaults

\* default_content_type
WithDefaultType(type) == IF type = None THEN "json" ELSE type

\* The native methods, as the request they start: get and del take no body,
\* nor do head and options; post, put and patch take one, the empty one if need
\* be, and default its type; request takes what it is given.
NativeGet(q) == [q EXCEPT !.body = None]
NativeHead(q) == [q EXCEPT !.body = None]
NativeDel(q) == [q EXCEPT !.body = None]
NativePost(q) == [q EXCEPT !.body = IF @ = None THEN "text" ELSE @, !.type = WithDefaultType(@)]
NativeRequest(q) == q

CallNative(q) ==
  CASE q.method = "GET"    -> NativeGet(q)
    [] q.method = "HEAD"   -> NativeHead(q)
    [] q.method = "POST"   -> NativePost(q)
    [] q.method = "DELETE" -> IF q.body = None THEN NativeDel(q) ELSE NativeRequest(q)

\* dispatch(): the headers of the options object, a multipart Content-Type
\* for a file body, then the first call of the native method.
Dispatch(w, method, body, h) ==
  LET type == IF body = "file" THEN "multipart" ELSE opts[w]
      q == [call[w] EXCEPT !.pc = "hop", !.method = method, !.body = body, !.type = type,
                           !.url = h, !.host = h, !.hops = 0, !.chain = <<>>, !.tries = <<>>]
  IN
  /\ At(w, "ready")
  /\ method \in {"GET", "HEAD"} => body = None
  /\ call' = [call EXCEPT ![w] = CallNative(q)]
  /\ opts' = IF SharesHeaders THEN [opts EXCEPT ![w] = type] ELSE opts
  /\ UNCHANGED <<bridged, on, net, jar, group, slept, seg, mine, named, read>>

\* apply_jar_cookies: what the carrier's jar has for the host.
JarCookies(c, h) ==
  UNION {{k \in {jar[c][d][n] : n \in Names} : Matches(k, d, h)} : d \in Domains}

\* One hop leaves.  Through the bridge a tokio task is spawned and the
\* coroutine yields; the pooled client blocks the carrier.
SendHop(w) ==
  /\ At(w, "hop")
  /\ call' = [call EXCEPT ![w].pc = "wait", ![w].sent = JarCookies(on[w], call[w].host)]
  /\ net' = [net EXCEPT ![w] = Open]
  /\ on' = IF bridged THEN [on EXCEPT ![w] = None] ELSE on
  /\ UNCHANGED <<bridged, jar, group, slept, opts, seg, mine, named, read>>

\* The server answers.
Answer(w, r) ==
  /\ net[w] = Open
  /\ net' = [net EXCEPT ![w] = r]
  /\ UNCHANGED <<bridged, on, call, jar, group, slept, opts, seg, mine, named, read>>

\* Faulty variant: requests of the I/O bridge have no timeout of their own.
NoTimeout(w) ==
  /\ net[w] = Open
  /\ ~bridged
  /\ net' = [net EXCEPT ![w] = Failure]
  /\ UNCHANGED <<bridged, on, call, jar, group, slept, opts, seg, mine, named, read>>

\* The request fails, or its timeout (the option, else 60 s) expires first:
\* the channel gets one result, a later answer is dropped with the future.
TimesOut(w) ==
  /\ net[w] = Open
  /\ net' = [net EXCEPT ![w] = Failure]
  /\ UNCHANGED <<bridged, on, call, jar, group, slept, opts, seg, mine, named, read>>

-----------------------------------------------------------------------------
\* redirect_target
IsRedirect(r) == r.status \in {302, 307} /\ r.location # None
Collapses(r) == r.status = 302

\* Faulty variant: a redirect is followed one hop too far.
FollowsTooFar(w, r) == call[w].hops <= MaxRedirects /\ IsRedirect(r)

Follows(w, r) == call[w].hops < MaxRedirects /\ IsRedirect(r)

\* The Set-Cookie headers the caller gets to see are the first one alone: ureq's
\* header(name) is the first header of that name, and the client behind the
\* bridge drops those that repeat a name (HeaderMap::into_iter names a header once).
Seen(r) == {r.cookies[i] : i \in DOMAIN r.cookies \cap {1}}

\* The jar of a carrier after a response to worker w for a URL on host u.
StoredFor(w, r, u) ==
  LET new(d, n) == {k \in Seen(r) : k.name = n /\ Lands(k.domain, u, d)}
      cookie(d, n) == [host |-> call[w].host, owner |-> w,
                       wide |-> \E k \in new(d, n) : k.domain # None]
  IN [d \in Domains |-> [n \in Names |->
        IF new(d, n) = {} THEN jar[on[w]][d][n] ELSE cookie(d, n)]]

\* Faulty variant: the URL has moved on to the redirect's when they are stored.
StoredAfterMove(w, r) ==
  [jar EXCEPT ![on[w]] = StoredFor(w, r, IF Follows(w, r) THEN r.location ELSE call[w].host)]

\* store_response_cookies: into the jar of the carrier the coroutine runs on
\* now, for the URL of this hop.
Stored(w, r) == [jar EXCEPT ![on[w]] = StoredFor(w, r, call[w].host)]

\* Faulty variant: 307 and 308 collapse as well.
AlwaysCollapses(q, r) == [q EXCEPT !.method = "GET", !.body = None, !.type = None]

\* The request after a redirect: 301 to 303 turn all but GET and HEAD into a
\* GET without body and Content-Type.
Redirected(q, r) ==
  IF Collapses(r) /\ q.method \notin {"GET", "HEAD"}
  THEN [q EXCEPT !.method = "GET", !.body = None, !.type = None]
  ELSE q

\* What one hop sent and what came back, but for the cookies.
NoCookies(r) == [r EXCEPT !.cookies = <<>>]
Hop(q, r) == [method |-> q.method, body |-> q.body, type |-> q.type, resp |-> NoCookies(r)]

\* A redirect that is followed: the next hop.
FollowRedirect(w) ==
  LET r == net[w] IN
  /\ At(w, "wait")
  /\ r \notin {None, Open}
  /\ Follows(w, r)
  /\ net' = [net EXCEPT ![w] = None]
  /\ jar' = Stored(w, r)
  /\ call' = [call EXCEPT ![w] = [Redirected(call[w], r) EXCEPT
                !.pc = "hop", !.host = r.location, !.hops = @ + 1, !.sent = {},
                !.chain = Append(@, Hop(call[w], r))]]
  /\ UNCHANGED <<bridged, on, group, slept, opts, seg, mine, named, read>>

\* The native call ends: cookies are stored, one Request metric is sent under
\* the carrier's group prefix.
Return(w) ==
  LET r == net[w] IN
  /\ At(w, "wait")
  /\ r \notin {None, Open}
  /\ ~Follows(w, r)
  /\ net' = [net EXCEPT ![w] = None]
  /\ jar' = IF r = Failure THEN jar ELSE Stored(w, r)
  /\ named' = [named EXCEPT ![w] = group[on[w]]]
  /\ call' = [call EXCEPT ![w].pc = "result", ![w].chain = Append(@, Hop(call[w], r)),
                          ![w].tries = Append(@, r.status), ![w].sent = {}]
  /\ UNCHANGED <<bridged, on, group, slept, opts, seg, mine, read>>

\* Faulty variant: every response that is not 2xx is tried again.
RetriesOnError(w) == Len(call[w].tries) <= Retries /\ Last(call[w].tries) # 200

\* No answer (status 0) and attempts left.
ShouldRetry(w) == Len(call[w].tries) <= Retries /\ Last(call[w].tries) = 0

\* The request as the script made it: a retry starts from it again.
First(w) == call[w].chain[1]

\* The back-off before a retry: track_sleep on this carrier, then yield.
BackOff(w) ==
  /\ At(w, "result")
  /\ ShouldRetry(w)
  /\ slept' = [slept EXCEPT ![on[w]] = @ + 1]
  /\ mine' = [mine EXCEPT ![w] = @ + 1]
  /\ on' = [on EXCEPT ![w] = None]
  /\ call' = [call EXCEPT ![w].pc = "backoff"]
  /\ UNCHANGED <<bridged, net, jar, group, opts, seg, named, read>>

\* The native method is called again, with the same arguments.
Retry(w) ==
  /\ At(w, "backoff")
  /\ call' = [call EXCEPT ![w].pc = "hop", ![w].hops = 0, ![w].chain = <<>>,
                          ![w].host = call[w].url, ![w].method = First(w).method,
                          ![w].body = First(w).body, ![w].type = First(w).type]
  /\ UNCHANGED <<bridged, on, net, jar, group, slept, opts, seg, mine, named, read>>

\* dispatch() returns the response; the script goes on or ends the iteration.
Result(w) ==
  /\ At(w, "result")
  /\ ~ShouldRetry(w)
  /\ call' = [call EXCEPT ![w].pc = "returned"]
  /\ UNCHANGED <<bridged, on, net, jar, group, slept, opts, seg, mine, named, read>>

-----------------------------------------------------------------------------
Step(w) ==
  \/ \E c \in Carriers : Resume(w, c)
  \/ BeginIteration(w)
  \/ SendHop(w)
  \/ FollowRedirect(w)
  \/ Return(w)
  \/ BackOff(w)
  \/ Retry(w)
  \/ Result(w)
  \/ EndIteration(w)
  \/ EndWorker(w)

Script(w) ==
  \/ \E m \in {"GET", "HEAD", "POST", "DELETE"}, b \in {None, "text", "file"}, h \in Hosts : Dispatch(w, m, b, h)
  \/ Sleep(w)
  \/ \E h \in Hosts, n \in Names : JarDelete(w, h, n) \/ \E s \in {None, Site} : JarSet(w, h, n, s)
  \/ JarClear(w)

Network(w) == (\E r \in Response : Answer(w, r)) \/ TimesOut(w)

AllOver == (\A w \in Workers : call[w].pc = "over") /\ UNCHANGED vars

Next == (\E w \in Workers : Step(w) \/ Script(w) \/ Network(w)) \/ AllOver

Spec == Init /\ [][Next]_vars

\* Coroutines are scheduled, code that can run runs, and every request has a
\* timeout.  Nothing is assumed of the server or of what the script does.
Fairness == \A w \in Workers :
  /\ SF_vars(\E c \in Carriers : Resume(w, c))
  /\ WF_vars(Step(w))
  /\ WF_vars(TimesOut(w))

FairSpec == Spec /\ Fairness

-----------------------------------------------------------------------------
TypeOK ==
  /\ on \in [Workers -> Carriers \cup {None}]
  /\ \A w, v \in Workers : (on[w] = on[v] /\ on[w] # None) => w = v
  /\ \A w \in Workers : net[w] \in Response \cup {None, Open, Failure}
  /\ jar \in [Carriers -> [Domains -> [Names ->
                 {None} \cup [host : Hosts, wide : BOOLEAN, owner : Workers]]]]

\* What the script gets back is where its redirect chain ends: every response
\* before the last one was a redirect, the last one is no redirect or the
\* limit is used up, and each hop sends the method and body of the first one
\* until a 301, 302 or 303 has turned it into a GET.
RedirectsFollowed ==
  \A w \in Workers : call[w].pc = "result" =>
    LET chain == call[w].chain
        turned(i) == \E j \in 1 .. i - 1 : Collapses(chain[j].resp)
    IN  /\ Len(chain) <= MaxRedirects + 1
        /\ \A i \in 1 .. Len(chain) - 1 : IsRedirect(chain[i].resp)
        /\ Len(chain) <= MaxRedirects => ~IsRedirect(Last(chain).resp)
        /\ \A i \in DOMAIN chain :
             /\ chain[i].method = IF turned(i) /\ chain[1].method # "HEAD" THEN "GET" ELSE chain[1].method
             /\ chain[i].body = IF turned(i) THEN None ELSE chain[1].body

\* A request is sent again only while nothing has answered, and given up only
\* when something has or the attempts are used up.
RetriedWhileUnanswered ==
  \A w \in Workers : call[w].pc = "returned" =>
    LET tries == call[w].tries
    IN  /\ Len(tries) <= Retries + 1
        /\ \A i \in 1 .. Len(tries) - 1 : tries[i] = 0
        /\ Len(tries) <= Retries => Last(tries) # 0

\* "sent on subsequent requests to matching domains": a cookie goes back to the
\* host whose response set it or, if it named a domain, to hosts of that domain,
\* which the host that set it is one of; over redirects between hosts as well.
SentWhereSet ==
  \A w \in Workers : \A k \in call[w].sent : call[w].pc = "wait" =>
    IF k.wide THEN {k.host, call[w].host} \subseteq Members ELSE k.host = call[w].host

\* A multipart Content-Type goes with a file body and with nothing else.
TypeFitsBody ==
  \A w \in Workers : call[w].pc \in {"hop", "wait"} =>
    (call[w].type = "multipart" <=> call[w].body = "file")

\* A request of the script comes back, whatever the server does.
RequestReturns ==
  \A w \in Workers : (call[w].pc = "hop") ~> (call[w].pc = "returned")

\* "Fusillade automatically manages cookies per worker": a worker sends the
\* cookies its own requests got.
JarIsOwn == \A w \in Workers : \A k \in call[w].sent : k.owner = w

\* Requests are named for the segment of the worker that makes them.
SegmentIsOwn ==
  \A w \in Workers : call[w].pc = "result" =>
    named[w] = IF w \in SegmentWorkers THEN <<w>> ELSE <<>>

\* The sleep time taken off an iteration is what the worker slept in it.
SleepIsOwn == \A w \in Workers : read[w][1] = read[w][2]

\* "every hop's Set-Cookie headers are now captured": after a response, the
\* jar of the carrier has all its cookies.
EveryCookieStored ==
  [][\A w \in Workers : (Return(w) /\ net[w] # Failure) =>
       \A k \in Range(net[w].cookies), d \in Domains :
         Lands(k.domain, call[w].host, d) => jar'[on[w]][d][k.name] # None]_vars
=============================================================================
