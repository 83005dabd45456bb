---------------------------- MODULE BrowserPages ----------------------------
(***************************************************************************)
(* The browser of a script (bridge/browser.rs) and the checks that take a  *)
(* screenshot of its current page when they fail (bridge/check.rs).        *)
(*                                                                         *)
(* Pages are numbered; what a page shows is left out, except whether the   *)
(* response a script waits for has been recorded in it.                    *)
(***************************************************************************)
EXTENDS Naturals, Sequences

CONSTANTS
  Kinds,      \* holds "browser"
  MaxPages,   \* bound: pages opened
  MaxPolls,   \* polls of waitForResponse within its timeout
  None

VARIABLES
  kind,
  launched,   \* the script has a browser
  pages,      \* pages opened so far
  open,       \* pages that have not been closed
  current,    \* CurrentPage: the page a failed check shows
  entry,      \* pages whose response has been recorded
  wait,       \* the page and the polls of waitForResponse, or None
  last,       \* result and metric of the last call
  shot        \* the page of the last screenshot, or None

browserVars == <<kind, launched, pages, open, current, entry, wait, last, shot>>

BrowserInit ==
  /\ kind \in Kinds
  /\ launched = FALSE /\ pages = 0 /\ open = {} /\ current = None
  /\ entry = {} /\ wait = None /\ shot = None
  /\ last = [result |-> "none", metric |-> None]

Free == kind = "browser" /\ wait = None
Ends(result, metric) == last' = [result |-> result, metric |-> metric]

\* chromium.launch() and browser.newPage() throw when Chrome does not answer.
Launch ==
  /\ Free /\ ~launched
  /\ \/ launched' = TRUE /\ Ends("ok", None)
     \/ launched' = FALSE /\ Ends("throws", None)
  /\ UNCHANGED <<kind, pages, open, current, entry, wait, shot>>

NewPage ==
  /\ Free /\ launched
  /\ \/ /\ pages < MaxPages
        /\ pages' = pages + 1
        /\ open' = open \cup {pages + 1}
        /\ current' = pages + 1
        /\ Ends("ok", None)
     \/ /\ Ends("throws", None)
        /\ UNCHANGED <<pages, open, current>>
  /\ UNCHANGED <<kind, launched, entry, wait, shot>>

\* browser.close() forgets the current page; Chrome ends with the object.
BrowserClose ==
  /\ Free /\ launched
  /\ current' = None
  /\ Ends("ok", None)
  /\ UNCHANGED <<kind, launched, pages, open, entry, wait, shot>>

\* Faulty variant: the page stays the current one.
StaysCurrent(p) ==
  /\ Free /\ p \in 1 .. pages
  /\ open' = open \ {p}
  /\ Ends("ok", None)
  /\ UNCHANGED <<kind, launched, pages, current, entry, wait, shot>>

\* page.close(): the page is no longer current, and its tab goes.
PageClose(p) ==
  /\ Free /\ p \in 1 .. pages
  /\ current' = IF current = p THEN None ELSE current
  /\ open' = open \ {p}
  /\ Ends("ok", None)
  /\ UNCHANGED <<kind, launched, pages, entry, wait, shot>>

-----------------------------------------------------------------------------
(* Calls of a page.  A call of a closed page fails.                        *)

PageCall(p, metrics) ==
  /\ Free /\ p \in 1 .. pages
  /\ \/ p \in open /\ Ends("ok", metrics[1])
     \/ Ends("throws", metrics[2])
  /\ UNCHANGED <<kind, launched, pages, open, current, entry, wait, shot>>

Measured == <<200, 0>>
Unmeasured == <<None, None>>

Goto(p) == PageCall(p, Measured)
Click(p) == PageCall(p, Measured)
TypeInto(p) == PageCall(p, Measured)
Evaluate(p) == PageCall(p, Unmeasured)
Screenshot(p) == PageCall(p, Unmeasured)
Fill(p) == PageCall(p, Measured)
WaitFor(p) == PageCall(p, Measured)
EditPage(p) == PageCall(p, Measured)
Cookies(p) == PageCall(p, Measured)
QueryAll(p) == PageCall(p, Measured)

\* The page records the response.
Responds(p) ==
  /\ p \in open
  /\ entry' = entry \cup {p}
  /\ UNCHANGED <<kind, launched, pages, open, current, wait, last, shot>>

WaitForResponse(p) ==
  /\ Free /\ p \in 1 .. pages
  /\ wait' = <<p, 0>>
  /\ UNCHANGED <<kind, launched, pages, open, current, entry, last, shot>>

\* Tab::evaluate returns a handle for an object, not its value: the entry the
\* script of waitForResponse returns arrives as null.
Evaluated(isObject) == IF isObject THEN "null" ELSE "value"

\* One turn of the loop: the timeout, else the entry, else 100 ms of sleep.  An
\* error of the evaluation is polled over.
Poll ==
  /\ wait # None
  /\ LET p == wait[1]
         seen == p \in open /\ p \in entry /\ Evaluated(TRUE) # "null" IN
     IF wait[2] > MaxPolls THEN wait' = None /\ Ends("throws", 0)
     ELSE IF seen THEN wait' = None /\ Ends("ok", 200)
     ELSE wait' = [wait EXCEPT ![2] = @ + 1] /\ last' = last
  /\ UNCHANGED <<kind, launched, pages, open, current, entry, shot>>

-----------------------------------------------------------------------------
(* check(value, {name: function}).                                         *)

\* What a check function returns or does, and whether it counts as a success.
Outcomes == {"true", "false", "string", "null", "other", "throws"}
Success(o) == o \in {"true", "other"}

\* capture_screenshot: only of a current page; a page that is gone fails.
Captured == IF current = None THEN shot ELSE current

\* One check metric; a failure is shown, a function that throws shown twice.
Check(o) ==
  /\ Free
  /\ Ends("ok", IF Success(o) THEN 200 ELSE 0)
  /\ shot' = IF Success(o) THEN shot ELSE Captured
  /\ UNCHANGED <<kind, launched, pages, open, current, entry, wait>>

-----------------------------------------------------------------------------
BrowserNext ==
  \/ Launch \/ NewPage \/ BrowserClose \/ Poll
  \/ \E o \in Outcomes : Check(o)
  \/ \E p \in 1 .. MaxPages :
       \/ PageClose(p) \/ Responds(p) \/ WaitForResponse(p)
       \/ Goto(p) \/ Click(p) \/ TypeInto(p) \/ Evaluate(p) \/ Screenshot(p) \/ Fill(p)
       \/ WaitFor(p) \/ EditPage(p) \/ Cookies(p) \/ QueryAll(p)

BrowserSpec == BrowserInit /\ [][BrowserNext]_browserVars /\ WF_browserVars(Poll)

-----------------------------------------------------------------------------
BrowserTypeOK ==
  /\ kind \in Kinds /\ pages \in 0 .. MaxPages /\ open \subseteq 1 .. pages
  /\ current \in 1 .. pages \cup {None} /\ shot \in 1 .. pages \cup {None}

\* The page a failed check would show is open, whatever pages the script opened
\* and closed in whatever order.
CurrentIsOpen == current # None => current \in open

\* waitForResponse returns, by its timeout at the latest.
WaitEnds == (wait # None) ~> (wait = None)

\* "Waits for a network response matching the URL pattern": it fails only if
\* the page has not recorded one.
ResponseSeen ==
  [][(Poll /\ wait' = None /\ last'.result = "throws") => wait[1] \notin entry]_browserVars
=============================================================================
