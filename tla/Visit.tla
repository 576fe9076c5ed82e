------------------------------- MODULE Visit -------------------------------
(***************************************************************************)
(* What the pages of the console have in common: React state, requests in  *)
(* flight, and a server that handles and answers them in any order.  A     *)
(* behaviour is one visit to one page; what happened before it is the      *)
(* choice of the server's records at mount.  The pages give st and srv     *)
(* their fields.                                                           *)
(***************************************************************************)
EXTENDS Naturals, FiniteSets

CONSTANTS
  NoData,      \* state before the first answer (null in the code)
  None,        \* nothing selected, no dialog, no argument
  Waiting,     \* a request that nobody has handled
  Failed,      \* a request that threw
  MaxClicks,   \* bound: what the reader does during the visit
  MaxFailures, \* bound: requests that fail on the way there or back
  MaxOthers    \* bound: changes another session makes during the visit

ASSUME VisitAssumption == {MaxClicks, MaxFailures, MaxOthers} \subseteq Nat

\* The four marks are told apart from each other and from all data.  Of what all
\* pages have that is said here, of their own data by the pages.
Marks == {NoData, None, Waiting, Failed}

ASSUME MarksAssumption ==
  /\ NoData \notin {None, Waiting, Failed} /\ None \notin {Waiting, Failed} /\ Waiting # Failed
  /\ \A m \in Marks : m # "ok" /\ m \notin Nat /\ m \notin BOOLEAN /\ m # {} /\ m # <<>>

VARIABLES
  page,      \* the page of this visit
  st,        \* its React state
  calls,     \* its requests whose answers it will still use, and these answers
  srv,       \* the records of the server (and of localStorage) it works on
  issued,    \* how often requests were sent: their order
  clicks,    \* what the reader has done
  failures,  \* requests that have failed
  others,    \* changes of other sessions
  overtaken  \* history: of two like requests, the later was handled or answered first

vars == <<page, st, calls, srv, issued, clicks, failures, others, overtaken>>

Ask(kind, arg) == [kind |-> kind, arg |-> arg]
Load(kinds)    == {Ask(k, None) : k \in kinds}

Requests == DOMAIN calls
Asking(kinds) == {c \in Requests : c.kind \in kinds}
Answer(c)   == calls[c]
Answered(c) == Answer(c) \notin {Waiting, Failed}
Threw(c)    == Answer(c) = Failed
Settled     == Requests = {}

Numbered(n, new) == {[id |-> n, kind |-> r.kind, arg |-> r.arg] : r \in new}

Sent(kept, new) ==
  /\ calls' = [c \in kept \cup Numbered(issued + 1, new) |-> IF c \in kept THEN calls[c] ELSE Waiting]
  /\ issued' = IF new = {} THEN issued ELSE issued + 1

Mounted(p, s, new, records) ==
  /\ page = p /\ st = s /\ srv \in records
  /\ calls = [c \in Numbered(1, new) |-> Waiting]
  /\ issued = 1
  /\ clicks = 0 /\ failures = 0 /\ others = 0 /\ overtaken = FALSE

\* The reader acts.  dropped: requests whose answers the page will ignore from
\* now on, by the cancelled flag of an effect that runs again.
Acts(s, dropped, new) ==
  /\ clicks < MaxClicks /\ clicks' = clicks + 1
  /\ st' = s /\ Sent(Requests \ dropped, new)
  /\ UNCHANGED <<page, srv, failures, others, overtaken>>

\* The reader acts on records that are in the browser, or in the gateway's modal.
ActsOn(records, s, new) ==
  /\ clicks < MaxClicks /\ clicks' = clicks + 1
  /\ st' = s /\ srv' = records /\ Sent(Requests, new)
  /\ UNCHANGED <<page, failures, others, overtaken>>

\* A timer of the page runs out.
Fires(s, dropped, new) ==
  /\ st' = s /\ Sent(Requests \ dropped, new)
  /\ UNCHANGED <<page, srv, clicks, failures, others, overtaken>>

\* An answer, or the exception in place of one, reaches the page.
Takes(c, s, dropped, new) ==
  /\ st' = s /\ Sent((Requests \ {c}) \ dropped, new)
  /\ overtaken' = (overtaken \/ \E o \in Requests \ dropped : o.kind = c.kind /\ o.id < c.id)
  /\ UNCHANGED <<page, srv, clicks, failures, others>>

\* The server handles a request.
Replies(c, answer, records) ==
  /\ Answer(c) = Waiting
  /\ calls' = [calls EXCEPT ![c] = answer]
  /\ srv' = records
  /\ overtaken' = (overtaken \/ \E o \in Requests : o.kind = c.kind /\ o.id < c.id /\ Answer(o) = Waiting)
  /\ UNCHANGED <<page, st, issued, clicks, failures, others>>

\* A read answers with the records it is named after.
ServeRead(c) == c.kind \in DOMAIN srv /\ Replies(c, srv[c.kind], srv)

\* A request that never arrives, or whose answer is lost.
Fail(c) ==
  /\ ~Threw(c) /\ failures < MaxFailures
  /\ failures' = failures + 1
  /\ calls' = [calls EXCEPT ![c] = Failed]
  /\ UNCHANGED <<page, st, srv, issued, clicks, others, overtaken>>

\* Another session of the same account, or a colleague.
Elsewhere(records) ==
  /\ others < MaxOthers /\ others' = others + 1
  /\ srv' \in records
  /\ UNCHANGED <<page, st, calls, issued, clicks, failures, overtaken>>

\* Another tab of this browser, and the event that tells this one of it.
OtherTab(records, event) ==
  /\ others < MaxOthers /\ others' = others + 1
  /\ srv' \in records
  /\ calls' = [c \in Requests \cup Numbered(issued + 1, {Ask(event, None)}) |->
                 IF c \in Requests THEN calls[c] ELSE event]
  /\ issued' = issued + 1
  /\ UNCHANGED <<page, st, clicks, failures, overtaken>>
=============================================================================
