------------------------- MODULE ConsolePageProofs --------------------------
(***************************************************************************)
(* What holds of a visit to a page of the console, whatever the page, and  *)
(* of the pages of keys, providers, GitHub, money, overview, posture,      *)
(* status and accounts.  For each page there is one assertion, its core,   *)
(* about what is shown, what the server has and which answers are under    *)
(* way; it holds when the page is mounted, every step of a calm visit      *)
(* keeps it, and once nothing is under way it says that the page shows     *)
(* what is true.                                                           *)
(***************************************************************************)
EXTENDS Console, FiniteSetTheorems, TLAPS

-----------------------------------------------------------------------------
(* Visits in general *)

Formed(c) == c = [id |-> c.id, kind |-> c.kind, arg |-> c.arg]

\* A request is what it says, and its number has been given out.
VisitType ==
  /\ issued \in Nat /\ issued > 0
  /\ clicks \in Nat /\ failures \in Nat /\ others \in Nat
  /\ overtaken \in BOOLEAN
  /\ \A c \in Requests : c.id \in 1..issued /\ Formed(c)

\* The requests that a step adds.
New(new) == Numbered(issued + 1, new)

LEMMA NewFacts ==
  ASSUME NEW new, NEW c \in New(new)
  PROVE  /\ c.id = issued + 1 /\ Formed(c)
         /\ \E r \in new : c.kind = r.kind /\ c.arg = r.arg
<1>1. PICK r \in new : c = [id |-> issued + 1, kind |-> r.kind, arg |-> r.arg]
  BY DEF New, Numbered
<1>2. QED BY <1>1 DEF Formed

Request(n, k, a) == [id |-> n, kind |-> k, arg |-> a]

LEMMA NumberedNone == ASSUME NEW n PROVE Numbered(n, {}) = {}
BY DEF Numbered

LEMMA NumberedOne ==
  ASSUME NEW n, NEW k, NEW a
  PROVE  /\ Numbered(n, {Ask(k, a)}) = {Request(n, k, a)}
         /\ Request(n, k, a).id = n /\ Request(n, k, a).kind = k /\ Request(n, k, a).arg = a
<1>1. Ask(k, a).kind = k /\ Ask(k, a).arg = a
  BY DEF Ask
<1>2. Numbered(n, {Ask(k, a)}) = {[id |-> n, kind |-> Ask(k, a).kind, arg |-> Ask(k, a).arg]}
  BY DEF Numbered
<1>3. QED BY <1>1, <1>2 DEF Request

LEMMA LoadOne ==
  ASSUME NEW n, NEW k
  PROVE  Load({k}) = {Ask(k, None)} /\ Numbered(n, Load({k})) = {Request(n, k, None)}
<1>1. Load({k}) = {Ask(k, None)}
  BY DEF Load
<1>2. QED BY <1>1, NumberedOne

LEMMA LoadFacts ==
  ASSUME NEW kinds
  PROVE  /\ \A r \in Load(kinds) : r.kind \in kinds /\ r.arg = None
         /\ \A k \in kinds : \E r \in Load(kinds) : r.kind = k
<1>1. \A k : Ask(k, None).kind = k /\ Ask(k, None).arg = None
  BY DEF Ask
<1>2. QED BY <1>1 DEF Load

\* What the requests are after some were kept and some sent.
Sends(kept, new) ==
  /\ Requests' = kept \cup New(new)
  /\ \A c \in kept : calls'[c] = calls[c]
  /\ \A c \in New(new) : calls'[c] = Waiting
  /\ issued' = IF new = {} THEN issued ELSE issued + 1

LEMMA SentFacts ==
  ASSUME VisitType, NEW kept \in SUBSET Requests, NEW new, Sent(kept, new)
  PROVE  Sends(kept, new)
<1>1. \A c \in New(new) : c \notin kept
  BY NewFacts DEF VisitType
<1>2. QED BY <1>1 DEF Sent, Sends, New, Requests

LEMMA SendsType ==
  ASSUME VisitType, NEW kept \in SUBSET Requests, NEW new, Sends(kept, new),
         clicks' \in Nat, failures' \in Nat, others' \in Nat, overtaken' \in BOOLEAN
  PROVE  VisitType'
<1>1. issued' \in Nat /\ issued' > 0 /\ issued' >= issued
  BY DEF VisitType, Sends
<1>2. ASSUME NEW c \in Requests'
      PROVE  c.id \in 1..issued' /\ Formed(c)
  <2>1. CASE c \in kept
    BY <1>1, <2>1 DEF VisitType
  <2>2. CASE c \in New(new)
    <3>1. c.id = issued + 1 /\ Formed(c) /\ new # {}
      BY <2>2, NewFacts
    <3>2. QED BY <1>1, <3>1 DEF VisitType, Sends
  <2>3. QED BY <1>2, <2>1, <2>2 DEF Sends
<1>3. QED BY <1>1, <1>2 DEF VisitType

-----------------------------------------------------------------------------
(* What each kind of step does *)

\* Nothing failed, nobody else changed anything, answers came in order.
Calm == failures = 0 /\ others = 0 /\ ~overtaken

Around == page' = page /\ failures' = failures /\ others' = others

LEMMA ActsFacts ==
  ASSUME VisitType, NEW s, NEW dropped, NEW new, Acts(s, dropped, new)
  PROVE  /\ st' = s /\ srv' = srv /\ overtaken' = overtaken /\ Around
         /\ Sends(Requests \ dropped, new) /\ VisitType' /\ clicks' = clicks + 1
<1>1. Sends(Requests \ dropped, new)
  BY SentFacts DEF Acts
<1>2. VisitType'
  BY <1>1, SendsType DEF Acts, VisitType
<1>3. QED BY <1>1, <1>2 DEF Acts, Around

LEMMA ActsOnFacts ==
  ASSUME VisitType, NEW records, NEW s, NEW new, ActsOn(records, s, new)
  PROVE  /\ st' = s /\ srv' = records /\ overtaken' = overtaken /\ Around
         /\ Sends(Requests, new) /\ VisitType' /\ clicks' = clicks + 1
<1>1. Sends(Requests, new)
  BY SentFacts DEF ActsOn
<1>2. VisitType'
  BY <1>1, SendsType DEF ActsOn, VisitType
<1>3. QED BY <1>1, <1>2 DEF ActsOn, Around

LEMMA FiresFacts ==
  ASSUME VisitType, NEW s, NEW dropped, NEW new, Fires(s, dropped, new)
  PROVE  /\ st' = s /\ srv' = srv /\ overtaken' = overtaken /\ Around /\ clicks' = clicks
         /\ Sends(Requests \ dropped, new) /\ VisitType'
<1>1. Sends(Requests \ dropped, new)
  BY SentFacts DEF Fires
<1>2. VisitType'
  BY <1>1, SendsType DEF Fires, VisitType
<1>3. QED BY <1>1, <1>2 DEF Fires, Around

LEMMA TakesFacts ==
  ASSUME VisitType, NEW c, NEW s, NEW dropped, NEW new, Takes(c, s, dropped, new)
  PROVE  /\ st' = s /\ srv' = srv /\ Around /\ clicks' = clicks
         /\ Sends((Requests \ {c}) \ dropped, new) /\ VisitType'
         /\ ~overtaken' => /\ ~overtaken
                           /\ \A o \in Requests \ dropped : o.kind = c.kind => ~(o.id < c.id)
<1>1. Sends((Requests \ {c}) \ dropped, new)
  BY SentFacts DEF Takes
<1>2. VisitType'
  BY <1>1, SendsType DEF Takes, VisitType
<1>3. QED BY <1>1, <1>2 DEF Takes, Around

LEMMA RepliesFacts ==
  ASSUME VisitType, NEW c \in Requests, NEW answer, NEW records, Replies(c, answer, records)
  PROVE  /\ st' = st /\ srv' = records /\ Around /\ clicks' = clicks /\ issued' = issued
         /\ calls[c] = Waiting
         /\ Requests' = Requests /\ calls'[c] = answer /\ \A o \in Requests \ {c} : calls'[o] = calls[o]
         /\ VisitType'
         /\ ~overtaken' => /\ ~overtaken
                           /\ \A o \in Requests : o.kind = c.kind /\ o.id < c.id => calls[o] # Waiting
<1>1. Requests' = Requests
  BY DEF Replies, Requests
<1>2. VisitType'
  BY <1>1 DEF Replies, VisitType
<1>3. calls'[c] = answer /\ \A o \in Requests \ {c} : calls'[o] = calls[o]
  BY DEF Replies, Requests
<1>4. QED BY <1>1, <1>2, <1>3 DEF Replies, Around, Answer

LEMMA FailFacts ==
  ASSUME VisitType, NEW c \in Requests, Fail(c)
  PROVE  /\ page' = page /\ st' = st /\ srv' = srv /\ failures' > 0 /\ clicks' = clicks /\ issued' = issued
         /\ others' = others /\ overtaken' = overtaken
         /\ Requests' = Requests /\ calls'[c] = Failed /\ \A o \in Requests \ {c} : calls'[o] = calls[o]
         /\ VisitType'
<1>1. Requests' = Requests
  BY DEF Fail, Requests
<1>2. VisitType'
  BY <1>1 DEF Fail, VisitType
<1>3. calls'[c] = Failed /\ \A o \in Requests \ {c} : calls'[o] = calls[o]
  BY DEF Fail, Requests
<1>4. QED BY <1>1, <1>2, <1>3 DEF Fail, VisitType

LEMMA ElsewhereFacts ==
  ASSUME VisitType, NEW records, Elsewhere(records)
  PROVE  /\ page' = page /\ st' = st /\ srv' \in records /\ others' > 0 /\ clicks' = clicks /\ issued' = issued
         /\ failures' = failures /\ overtaken' = overtaken
         /\ Requests' = Requests /\ calls' = calls /\ VisitType'
BY DEF Elsewhere, VisitType, Requests

LEMMA OtherTabFacts ==
  ASSUME VisitType, NEW records, NEW event, OtherTab(records, event)
  PROVE  /\ page' = page /\ st' = st /\ srv' \in records /\ others' > 0 /\ clicks' = clicks
         /\ failures' = failures /\ overtaken' = overtaken
         /\ Requests' = Requests \cup New({Ask(event, None)})
         /\ \A c \in Requests : calls'[c] = calls[c]
         /\ \A c \in New({Ask(event, None)}) : calls'[c] = event
         /\ VisitType'
<1>1. \A c \in New({Ask(event, None)}) : c \notin Requests /\ c.id = issued + 1 /\ Formed(c)
  BY NewFacts DEF VisitType
<1>2. Requests' = Requests \cup New({Ask(event, None)})
  BY DEF OtherTab, New, Requests
<1>3. /\ \A c \in Requests : calls'[c] = calls[c]
      /\ \A c \in New({Ask(event, None)}) : calls'[c] = event
  BY <1>1 DEF OtherTab, New, Requests
<1>4. /\ page' = page /\ st' = st /\ srv' \in records /\ clicks' = clicks /\ issued' = issued + 1
      /\ failures' = failures /\ overtaken' = overtaken /\ others' = others + 1
  BY DEF OtherTab
<1>5. VisitType' /\ others' > 0
  <2>1. \A c \in Requests' : c.id \in 1..issued' /\ Formed(c)
    BY <1>1, <1>2, <1>4 DEF VisitType
  <2>2. QED BY <1>4, <2>1 DEF VisitType
<1>6. QED BY <1>2, <1>3, <1>4, <1>5

LEMMA MountedFacts ==
  ASSUME NEW p, NEW s, NEW new, NEW records, Mounted(p, s, new, records)
  PROVE  /\ page = p /\ st = s /\ srv \in records /\ Requests = Numbered(1, new) /\ VisitType
         /\ \A c \in Requests : calls[c] = Waiting /\ c.id = 1 /\ \E r \in new : c.kind = r.kind /\ c.arg = r.arg
         /\ clicks = 0 /\ Calm
<1>1. Requests = Numbered(1, new)
  BY DEF Mounted, Requests
<1>2. ASSUME NEW c \in Requests
      PROVE  calls[c] = Waiting /\ c.id = 1 /\ Formed(c) /\ \E r \in new : c.kind = r.kind /\ c.arg = r.arg
  <2>1. PICK r \in new : c = [id |-> 1, kind |-> r.kind, arg |-> r.arg]
    BY <1>1 DEF Numbered
  <2>2. QED BY <1>1, <2>1 DEF Mounted, Formed
<1>3. /\ page = p /\ st = s /\ srv \in records /\ issued = 1
      /\ clicks = 0 /\ failures = 0 /\ others = 0 /\ overtaken \in BOOLEAN /\ ~overtaken
  BY DEF Mounted
<1>4. VisitType
  <2>1. \A c \in Requests : c.id \in 1..issued /\ Formed(c)
    BY <1>2, <1>3
  <2>2. QED BY <1>3, <2>1 DEF VisitType
<1>5. QED BY <1>1, <1>2, <1>3, <1>4 DEF Calm

-----------------------------------------------------------------------------
(* The list that is loaded again after each change *)

\* What is shown is v, or the last request for it will show it.
Latest(f, k, v, shown) ==
  \/ shown = v /\ \A l \in DOMAIN f : l.kind # k
  \/ \E l \in DOMAIN f : /\ l.kind = k /\ f[l] \in {Waiting, v}
                         /\ \A o \in DOMAIN f : o.kind = k => o.id <= l.id

\* Requests of a kind are told apart by their numbers.
Listed(f, k) == \A c, d \in DOMAIN f : /\ c.id \in Nat
                                       /\ c.kind = k /\ d.kind = k /\ c.id = d.id => c = d

LEMMA LatestTaken ==
  ASSUME NEW f, NEW g, NEW k, NEW v, NEW x, NEW y, NEW c \in DOMAIN f, c.kind = k,
         Latest(f, k, v, x), Listed(f, k), f[c] # Waiting, f[c] = v => y = v,
         \A o \in DOMAIN f : o.kind = k => ~(o.id < c.id),
         \A o \in DOMAIN g : o.kind = k => o \in DOMAIN f \ {c},
         \A o \in DOMAIN f \ {c} : o.kind = k => o \in DOMAIN g /\ g[o] = f[o]
  PROVE  Latest(g, k, v, y)
BY DEF Latest, Listed

LEMMA LatestKept ==
  ASSUME NEW f, NEW g, NEW k, NEW v, NEW x, Latest(f, k, v, x),
         \A o \in DOMAIN g : o.kind = k => o \in DOMAIN f,
         \A o \in DOMAIN f : o.kind = k => o \in DOMAIN g /\ g[o] = f[o]
  PROVE  Latest(g, k, v, x)
BY DEF Latest

LEMMA LatestSent ==
  ASSUME NEW g, NEW k, NEW v, NEW x, NEW c \in DOMAIN g, c.kind = k, g[c] = Waiting,
         \A o \in DOMAIN g : o.kind = k => o.id <= c.id
  PROVE  Latest(g, k, v, x)
BY DEF Latest

-----------------------------------------------------------------------------
(* The first requests of a visit *)

Firsts  == {c \in Requests : c.id = 1}
Once(k) == \A c, d \in Firsts : c.kind = k /\ d.kind = k => c = d

LEMMA SendsFirsts ==
  ASSUME VisitType, NEW kept \in SUBSET Requests, NEW new, Sends(kept, new)
  PROVE  Firsts' = Firsts \cap kept
<1>1. \A c \in New(new) : c.id # 1
  BY NewFacts DEF VisitType
<1>2. QED BY <1>1 DEF Sends, Firsts

\* What the reader does leaves of the first requests those it does not drop.
LEMMA ActsFirsts ==
  ASSUME VisitType, NEW s, NEW dropped, NEW new, Acts(s, dropped, new)
  PROVE  /\ VisitType' /\ st' = s /\ (~overtaken' => ~overtaken)
         /\ Firsts' = Firsts \ dropped /\ \A k : Once(k) => Once(k)'
<1>1. Firsts' = Firsts \cap (Requests \ dropped)
  BY ActsFacts, SendsFirsts
<1>2. QED BY <1>1, ActsFacts DEF Once, Firsts

LEMMA ActsOnFirsts ==
  ASSUME VisitType, NEW records, NEW s, NEW new, ActsOn(records, s, new)
  PROVE  /\ VisitType' /\ st' = s /\ (~overtaken' => ~overtaken)
         /\ Firsts' = Firsts /\ \A k : Once(k) => Once(k)'
<1>1. Firsts' = Firsts
  BY ActsOnFacts, SendsFirsts DEF Firsts
<1>2. QED BY <1>1, ActsOnFacts DEF Once

\* An answer taken in order leaves no first request of its kind.
LEMMA TakesFirsts ==
  ASSUME VisitType, NEW c \in Requests, NEW s, NEW dropped, NEW new, Takes(c, s, dropped, new)
  PROVE  /\ VisitType' /\ st' = s /\ (~overtaken' => ~overtaken)
         /\ Firsts' = (Firsts \ {c}) \ dropped /\ \A k : Once(k) => Once(k)'
         /\ Once(c.kind) /\ ~overtaken' => \A d \in Firsts' : d.kind # c.kind
<1>1. Firsts' = (Firsts \ {c}) \ dropped
  <2>1. Firsts' = Firsts \cap ((Requests \ {c}) \ dropped)
    BY TakesFacts, SendsFirsts
  <2>2. QED BY <2>1 DEF Firsts
<1>2. ASSUME Once(c.kind), ~overtaken', NEW d \in Firsts', d.kind = c.kind
      PROVE  FALSE
  <2>1. d \in Requests \ dropped /\ d.id = 1 /\ d \in Firsts /\ d # c
    BY <1>1, <1>2 DEF Firsts
  <2>2. ~(1 < c.id) /\ c.id \in 1..issued
    BY <1>2, <2>1, TakesFacts DEF VisitType
  <2>3. c.id = 1
    BY <2>2 DEF VisitType
  <2>4. QED BY <1>2, <2>1, <2>3 DEF Once, Firsts
<1>3. QED BY <1>1, <1>2, TakesFacts DEF Once

\* All that happens away from the page: it stays as it is.
Away == ServeSome \/ FailSome \/ Others \/ UNCHANGED vars

AwayKeeps ==
  /\ VisitType' /\ page' = page /\ st' = st /\ (~overtaken' => ~overtaken)
  /\ Firsts' = Firsts /\ (\A k : Once(k) => Once(k)')
  /\ \A d \in Requests' : d \in Requests \/ d.kind = "storage"

LEMMA ReplyKeeps ==
  ASSUME VisitType, NEW c \in Requests, NEW a, NEW r, Replies(c, a, r)
  PROVE  AwayKeeps
<1>1. Requests' = Requests
  BY RepliesFacts
<1>2. QED BY <1>1, RepliesFacts DEF AwayKeeps, Firsts, Once, Around

LEMMA ServeKeeps ==
  ASSUME VisitType, NEW c \in Requests, Serve(c)
  PROVE  AwayKeeps
<1> USE ReplyKeeps
<1>1. CASE ServeRead(c)
  BY <1>1 DEF ServeRead
<1>2. CASE KeysServe(c)
  BY <1>2 DEF KeysServe
<1>3. CASE ProvidersServe(c)
  BY <1>3 DEF ProvidersServe
<1>4. CASE InstallUrlServed(c)
  BY <1>4 DEF InstallUrlServed
<1>5. CASE PricingServe(c)
  BY <1>5 DEF PricingServe
<1>6. CASE DetailsServe(c)
  BY <1>6 DEF DetailsServe
<1>7. CASE ReportServe(c)
  BY <1>7 DEF ReportServe
<1>8. CASE AgentServe(c)
  BY <1>8 DEF AgentServe
<1>9. CASE RegistryServe(c)
  BY <1>9 DEF RegistryServe
<1>10. CASE ItemServe(c)
  BY <1>10 DEF ItemServe
<1>11. CASE SubmitServe(c)
  BY <1>11 DEF SubmitServe
<1>12. CASE AdminRegistryServe(c)
  BY <1>12 DEF AdminRegistryServe
<1>13. CASE NewItemServe(c)
  BY <1>13 DEF NewItemServe
<1>14. CASE EditorServe(c)
  BY <1>14 DEF EditorServe
<1>15. CASE GateServe(c)
  BY <1>15 DEF GateServe
<1>16. CASE FilterServe(c)
  BY <1>16 DEF FilterServe
<1>17. CASE UserServe(c)
  BY <1>17 DEF UserServe
<1>18. CASE StatusServe(c)
  BY <1>18 DEF StatusServe
<1>19. CASE ShellServe(c)
  BY <1>19 DEF ShellServe
<1>20. QED BY <1>1, <1>2, <1>3, <1>4, <1>5, <1>6, <1>7, <1>8, <1>9, <1>10, <1>11, <1>12, <1>13, <1>14,
              <1>15, <1>16, <1>17, <1>18, <1>19 DEF Serve

LEMMA ElsewhereKeeps ==
  ASSUME VisitType, NEW records, Elsewhere(records)
  PROVE  AwayKeeps
<1>1. Requests' = Requests
  BY ElsewhereFacts
<1>2. QED BY <1>1, ElsewhereFacts DEF AwayKeeps, Firsts, Once

LEMMA OtherTabKeeps ==
  ASSUME VisitType, NEW records, OtherTab(records, "storage")
  PROVE  AwayKeeps
<1>1. \A d \in New({Ask("storage", None)}) : d.id # 1 /\ d.kind = "storage"
  BY NewFacts DEF VisitType, Ask
<1>2. Firsts' = Firsts /\ \A d \in Requests' : d \in Requests \/ d.kind = "storage"
  BY <1>1, OtherTabFacts DEF Firsts
<1>3. QED BY <1>2, OtherTabFacts DEF AwayKeeps, Once

LEMMA AwayFacts ==
  ASSUME VisitType, Away
  PROVE  AwayKeeps
<1>1. CASE ServeSome
  BY <1>1, ServeKeeps DEF ServeSome
<1>2. CASE FailSome
  <2>1. PICK c \in Requests : Fail(c)
    BY <1>2 DEF FailSome
  <2>2. Requests' = Requests
    BY <2>1, FailFacts
  <2>3. QED BY <2>1, <2>2, FailFacts DEF AwayKeeps, Firsts, Once
<1>3. CASE Others
  <2> USE ElsewhereKeeps, OtherTabKeeps
  <2>1. CASE KeysElsewhere
    BY <2>1 DEF KeysElsewhere
  <2>2. CASE BillingElsewhere
    BY <2>2 DEF BillingElsewhere
  <2>3. CASE PostureElsewhere
    BY <2>3 DEF PostureElsewhere
  <2>4. CASE EditorElsewhere
    BY <2>4 DEF EditorElsewhere
  <2>5. CASE GateElsewhere
    BY <2>5 DEF GateElsewhere
  <2>6. CASE StatusElsewhere
    BY <2>6 DEF StatusElsewhere
  <2>7. QED BY <1>3, <2>1, <2>2, <2>3, <2>4, <2>5, <2>6 DEF Others
<1>4. CASE UNCHANGED vars
  BY <1>4 DEF vars, AwayKeeps, Firsts, Once, VisitType, Requests
<1>5. QED BY <1>1, <1>2, <1>3, <1>4 DEF Away

-----------------------------------------------------------------------------
(* Lists that are loaded again, step by step *)

LEMMA KeepsLatest ==
  ASSUME VisitType, NEW kept \in SUBSET Requests, NEW new, Sends(kept, new), NEW k, NEW v, NEW x,
         \A o \in Requests : o.kind = k => o \in kept,
         \A r \in new : r.kind # k, Latest(calls, k, v, x)
  PROVE  Latest(calls', k, v, x)
<1>1. \A c \in New(new) : c.kind # k
  BY NewFacts
<1>2. DOMAIN calls' = kept \cup New(new) /\ \A c \in kept : calls'[c] = calls[c]
  BY DEF Sends, Requests
<1>3. QED BY <1>1, <1>2, LatestKept DEF Requests

LEMMA AsksLatest ==
  ASSUME VisitType, NEW kept \in SUBSET Requests, NEW new, Sends(kept, new), NEW r \in new
  PROVE  \A v, x : Latest(calls', r.kind, v, x)
<1> DEFINE c == [id |-> issued + 1, kind |-> r.kind, arg |-> r.arg]
<1>1. c \in New(new) /\ c.kind = r.kind /\ c.id = issued + 1
  BY DEF New, Numbered
<1>2. c \in DOMAIN calls' /\ calls'[c] = Waiting
  BY <1>1 DEF Sends, Requests
<1>3. \A o \in DOMAIN calls' : o.id <= c.id
  <2>1. \A o \in kept : o.id \in 1..issued /\ issued \in Nat
    BY DEF VisitType
  <2>2. \A o \in New(new) : o.id = issued + 1
    BY NewFacts
  <2>3. DOMAIN calls' = kept \cup New(new)
    BY DEF Sends, Requests
  <2> HIDE DEF c
  <2>4. QED BY <1>1, <2>1, <2>2, <2>3 DEF VisitType
<1> HIDE DEF c
<1>4. QED BY <1>1, <1>2, <1>3, LatestSent

LEMMA TakesLatest ==
  ASSUME VisitType, NEW c \in Requests, NEW s, NEW dropped, NEW new, Takes(c, s, dropped, new), ~overtaken',
         Listed(calls, c.kind), NEW v, NEW x, NEW y, Latest(calls, c.kind, v, x),
         calls[c] # Waiting, calls[c] = v => y = v,
         \A o \in dropped : o.kind # c.kind, \A r \in new : r.kind # c.kind
  PROVE  Latest(calls', c.kind, v, y)
<1> DEFINE kept == (Requests \ {c}) \ dropped
<1>1. Sends(kept, new) /\ \A o \in Requests \ dropped : o.kind = c.kind => ~(o.id < c.id)
  BY TakesFacts
<1>2. \A o \in New(new) : o.kind # c.kind
  BY NewFacts
<1>3. DOMAIN calls' = kept \cup New(new) /\ \A o \in kept : calls'[o] = calls[o]
  BY <1>1 DEF Sends, Requests
<1>4. /\ \A o \in DOMAIN calls : o.kind = c.kind => ~(o.id < c.id)
      /\ \A o \in DOMAIN calls' : o.kind = c.kind => o \in DOMAIN calls \ {c}
      /\ \A o \in DOMAIN calls \ {c} : o.kind = c.kind => o \in DOMAIN calls' /\ calls'[o] = calls[o]
  BY <1>1, <1>2, <1>3 DEF Requests
<1> HIDE DEF kept
<1>5. c \in DOMAIN calls
  BY DEF Requests
<1>6. QED BY <1>4, <1>5, LatestTaken

LEMMA RepliesLatest ==
  ASSUME VisitType, NEW c \in Requests, NEW a, NEW r, Replies(c, a, r), NEW k, NEW v, NEW x,
         Latest(calls, k, v, x), c.kind = k => a = v
  PROVE  Latest(calls', k, v, x)
<1>1. DOMAIN calls' = DOMAIN calls /\ calls'[c] = a /\ \A o \in DOMAIN calls \ {c} : calls'[o] = calls[o]
  BY RepliesFacts DEF Requests
<1>2. QED BY <1>1 DEF Latest, Requests

LEMMA SendsListed ==
  ASSUME VisitType, NEW kept \in SUBSET Requests, NEW new, Sends(kept, new), NEW k,
         \A q, r \in new : q.kind = k /\ r.kind = k => q.arg = r.arg, Listed(calls, k)
  PROVE  Listed(calls', k)
<1>1. DOMAIN calls' = kept \cup New(new)
  BY DEF Sends, Requests
<1>2. ASSUME NEW c \in DOMAIN calls', NEW d \in DOMAIN calls', c.kind = k, d.kind = k, c.id = d.id
      PROVE  c = d
  <2>1. (\A o \in kept : o.id \in 1..issued) /\ issued \in Nat
    BY DEF VisitType
  <2>2. \A o \in New(new) : o.id = issued + 1 /\ Formed(o) /\ \E r \in new : o.kind = r.kind /\ o.arg = r.arg
    BY NewFacts
  <2>3. CASE c \in kept
    <3>1. d \in kept
      BY <1>1, <1>2, <2>1, <2>2, <2>3
    <3>2. QED BY <1>2, <2>3, <3>1 DEF Listed, Requests
  <2>4. CASE c \in New(new)
    <3>1. d \in New(new)
      BY <1>1, <1>2, <2>1, <2>2, <2>4
    <3>2. c.arg = d.arg /\ Formed(c) /\ Formed(d)
      BY <1>2, <2>2, <2>4, <3>1
    <3>3. QED BY <1>2, <3>2 DEF Formed
  <2>5. QED BY <1>1, <1>2, <2>3, <2>4
<1>3. \A c \in DOMAIN calls' : c.id \in Nat
  <2>1. \A o \in New(new) : o.id = issued + 1
    BY NewFacts
  <2>2. QED BY <1>1, <2>1 DEF VisitType
<1>4. QED BY <1>2, <1>3 DEF Listed

LEMMA MountedLatest ==
  ASSUME NEW p, NEW s, NEW new, NEW records, Mounted(p, s, new, records)
  PROVE  /\ \A r \in new : \A v, x : Latest(calls, r.kind, v, x)
         /\ \A k : (\A q, r \in new : q.kind = k /\ r.kind = k => q.arg = r.arg) => Listed(calls, k)
<1>1. /\ Requests = Numbered(1, new) /\ VisitType
      /\ \A c \in Requests : calls[c] = Waiting /\ c.id = 1 /\ \E r \in new : c.kind = r.kind /\ c.arg = r.arg
  BY MountedFacts
<1>2. ASSUME NEW r \in new, NEW v, NEW x
      PROVE  Latest(calls, r.kind, v, x)
  <2> DEFINE c == [id |-> 1, kind |-> r.kind, arg |-> r.arg]
  <2>1. c \in Requests /\ c.kind = r.kind /\ c.id = 1
    BY <1>1 DEF Numbered
  <2> HIDE DEF c
  <2>2. \A o \in Requests : o.id <= c.id
    BY <1>1, <2>1
  <2>3. QED BY <1>1, <2>1, <2>2 DEF Latest, Requests
<1>3. ASSUME NEW k, \A q, r \in new : q.kind = k /\ r.kind = k => q.arg = r.arg
      PROVE  Listed(calls, k)
  <2>1. ASSUME NEW c \in Requests, NEW d \in Requests, c.kind = k, d.kind = k
        PROVE  c = d
    <3>1. c.arg = d.arg /\ c.id = 1 /\ d.id = 1 /\ Formed(c) /\ Formed(d)
      BY <1>1, <1>3, <2>1 DEF VisitType
    <3>2. QED BY <2>1, <3>1 DEF Formed
  <2>2. QED BY <1>1, <2>1 DEF Listed, Requests
<1>4. QED BY <1>2, <1>3

\* Once nothing is in flight, what is shown is true.
LEMMA LatestSettled ==
  ASSUME NEW k, NEW v, NEW x, Latest(calls, k, v, x), Settled
  PROVE  x = v
BY DEF Latest, Settled, Requests

-----------------------------------------------------------------------------
(* Calm visits *)

Forward ==
  /\ page' = page /\ failures' = failures /\ others' = others
  /\ (overtaken => overtaken') /\ (VisitType => VisitType')

LEMMA ForwardActs == ASSUME NEW s, NEW dropped, NEW new, Acts(s, dropped, new) PROVE Forward
BY ActsFacts DEF Forward, Acts
LEMMA ForwardActsOn == ASSUME NEW r, NEW s, NEW new, ActsOn(r, s, new) PROVE Forward
BY ActsOnFacts DEF Forward, ActsOn
LEMMA ForwardFires == ASSUME NEW s, NEW dropped, NEW new, Fires(s, dropped, new) PROVE Forward
BY FiresFacts DEF Forward, Fires
LEMMA ForwardTakes == ASSUME NEW c, NEW s, NEW dropped, NEW new, Takes(c, s, dropped, new) PROVE Forward
BY TakesFacts DEF Forward, Takes
LEMMA ForwardReplies == ASSUME NEW c \in Requests, NEW a, NEW r, Replies(c, a, r) PROVE Forward
BY RepliesFacts DEF Forward, Replies

-----------------------------------------------------------------------------
(* Calm visits, step by step *)

Inside == Click \/ ServeSome \/ ArriveSome \/ TimerSome

LEMMA InsideForward == Inside => Forward
<1> USE ForwardActs, ForwardActsOn DEF Inside
<1>1. CASE KeysClick BY <1>1 DEF KeysClick
<1>2. CASE ProvidersClick BY <1>2 DEF ProvidersClick, OpenDialog, DialogAsks
<1>3. CASE OnboardingClick BY <1>3 DEF OnboardingClick, Finish
<1>4. CASE PickerClick BY <1>4 DEF PickerClick
<1>5. CASE CardClick BY <1>5 DEF CardClick
<1>6. CASE BillingClick BY <1>6 DEF BillingClick, Prefer, Restore
<1>7. CASE PricingClick BY <1>7 DEF PricingClick, ChooseTier, Pay
<1>8. CASE UsageClick BY <1>8 DEF UsageClick
<1>9. CASE PostureClick BY <1>9 DEF PostureClick, Forget
<1>10. CASE AgentClick BY <1>10 DEF AgentClick
<1>11. CASE RegistryClick BY <1>11 DEF RegistryClick, Choose, LoadMore
<1>12. CASE ItemClick BY <1>12 DEF ItemClick, Toggle, SubmitReport, CloseReport, LeaveReport
<1>13. CASE SubmitClick BY <1>13 DEF SubmitClick
<1>14. CASE AdminRegistryClick
  BY <1>14 DEF AdminRegistryClick, RowsClick, PanelsClick, BulkClick, CategoriesClick, AskList, Act, Preview, Publish
<1>15. CASE NewItemClick BY <1>15 DEF NewItemClick
<1>16. CASE EditorClick BY <1>16 DEF EditorClick, Save, EditorAct
<1>17. CASE GateClick BY <1>17 DEF GateClick, SubmitCode
<1>18. CASE FilterClick BY <1>18 DEF FilterClick
<1>19. CASE UserClick
  BY <1>19, Zenon DEF UserClick, GrantPlan, GrantSeats, QuotaOverrides, DangerZone, Asks, AsksWrongly, Quietly
<1>20. CASE ShellClick BY <1>20 DEF ShellClick, Follow
<1>21. CASE Click
  BY <1>1, <1>2, <1>3, <1>4, <1>5, <1>6, <1>7, <1>8, <1>9, <1>10, <1>11, <1>12, <1>13, <1>14, <1>15,
     <1>16, <1>17, <1>18, <1>19, <1>20, <1>21 DEF Click
<1>22. ASSUME NEW c, Arrive(c)
       PROVE  Forward
  <2> USE ForwardTakes
  <2>1. CASE KeysArrive(c) BY <2>1 DEF KeysArrive, KeysListArrives, KeyCreated, KeyRevoked, KeysCleared
  <2>2. CASE ProvidersArrive(c) BY <2>2 DEF ProvidersArrive, RosterArrives, KeySaved, ModelSaved, KeyRemoved
  <2>3. CASE OnboardingArrive(c) BY <2>3 DEF OnboardingArrive, OnboardingStatus, Redirected
  <2>4. CASE PickerArrive(c) BY <2>4 DEF PickerArrive, ReposArrive, Redirected
  <2>5. CASE CardArrive(c) BY <2>5 DEF CardArrive, CardStatus, Redirected
  <2>6. CASE BillingArrive(c) BY <2>6 DEF BillingArrive, BillingLoaded, StorageChanged
  <2>7. CASE PricingArrive(c) BY <2>7 DEF PricingArrive, PricesArrive, CheckoutCreated, ScriptLoaded, Verified
  <2>8. CASE DashboardArrive(c)
    <3>1. ScansArrive(c) => Forward
      BY DEF ScansArrive
    <3>2. DetailsArrive(c) => Forward
      BY DEF DetailsArrive
    <3>3. QED BY <2>8, <3>1, <3>2 DEF DashboardArrive, GithubArrives, MetersArrive
  <2>9. CASE UsageArrive(c) BY <2>9 DEF UsageArrive
  <2>10. CASE PostureArrive(c) BY <2>10 DEF PostureArrive, ListArrives, GrantArrives, Forgotten
  <2>11. CASE AgentArrives(c) BY <2>11 DEF AgentArrives
  <2>12. CASE RegistryArrive(c) BY <2>12 DEF RegistryArrive, FacetsArrive, PageArrives
  <2>13. CASE ItemArrive(c) BY <2>13 DEF ItemArrive, ItemArrives, Toggled, ReportSent
  <2>14. CASE SavedArrives(c) BY <2>14 DEF SavedArrives
  <2>15. CASE SubmitArrive(c) BY <2>15 DEF SubmitArrive, Suggested, SubmissionsArrive
  <2>16. CASE AdminRegistryArrive(c)
    BY <2>16 DEF AdminRegistryArrive, AdminListArrives, ActDone, BulkArrives, CategoryDone
  <2>17. CASE ItemCreated(c) BY <2>17 DEF ItemCreated
  <2>18. CASE EditorArrive(c) BY <2>18 DEF EditorArrive, ItemLoaded, EditorDone, ReloadItem
  <2>19. CASE GateArrive(c) BY <2>19 DEF GateArrive, SessionArrives, KeyArrives, CodeChecked, Enter
  <2>20. CASE RowsArrive(c) BY <2>20 DEF RowsArrive
  <2>21. CASE UserArrive(c) BY <2>21 DEF UserArrive, DetailArrives, AccountActed
  <2>22. CASE StatusArrive(c) BY <2>22 DEF StatusArrive, ProbesArrive, HistoryArrives
  <2>23. CASE ShellArrive(c) BY <2>23 DEF ShellArrive, PlanArrives, PageShown, SignedOut, Shown
  <2>24. QED
    BY <1>22, <2>1, <2>2, <2>3, <2>4, <2>5, <2>6, <2>7, <2>8, <2>9, <2>10, <2>11, <2>12, <2>13, <2>14, <2>15,
       <2>16, <2>17, <2>18, <2>19, <2>20, <2>21, <2>22, <2>23 DEF Arrive
<1>23. ASSUME NEW c \in Requests, Serve(c)
       PROVE  Forward
  <2> USE ForwardReplies
  <2>1. CASE KeysServe(c) BY <2>1 DEF KeysServe
  <2>2. CASE ProvidersServe(c) BY <2>2 DEF ProvidersServe
  <2>3. CASE InstallUrlServed(c) BY <2>3 DEF InstallUrlServed
  <2>4. CASE PricingServe(c) BY <2>4 DEF PricingServe
  <2>5. CASE DetailsServe(c) BY <2>5 DEF DetailsServe
  <2>6. CASE ReportServe(c) BY <2>6 DEF ReportServe
  <2>7. CASE AgentServe(c) BY <2>7 DEF AgentServe
  <2>8. CASE RegistryServe(c) BY <2>8 DEF RegistryServe
  <2>9. CASE ItemServe(c) BY <2>9 DEF ItemServe
  <2>10. CASE SubmitServe(c) BY <2>10 DEF SubmitServe
  <2>11. CASE AdminRegistryServe(c) BY <2>11 DEF AdminRegistryServe
  <2>12. CASE NewItemServe(c) BY <2>12 DEF NewItemServe
  <2>13. CASE EditorServe(c) BY <2>13 DEF EditorServe
  <2>14. CASE GateServe(c) BY <2>14 DEF GateServe
  <2>15. CASE FilterServe(c) BY <2>15 DEF FilterServe
  <2>16. CASE UserServe(c) BY <2>16 DEF UserServe
  <2>17. CASE StatusServe(c) BY <2>17 DEF StatusServe
  <2>18. CASE ShellServe(c) BY <2>18 DEF ShellServe
  <2>19. CASE ServeRead(c) BY <2>19 DEF ServeRead
  <2>20. QED BY <1>23, <2>1, <2>2, <2>3, <2>4, <2>5, <2>6, <2>7, <2>8, <2>9, <2>10, <2>11, <2>12, <2>13, <2>14, <2>15, <2>16, <2>17, <2>18, <2>19 DEF Serve
<1>24. CASE TimerSome BY <1>24, ForwardFires DEF TimerSome, FilterFires
<1>25. QED BY <1>21, <1>22, <1>23, <1>24 DEF ServeSome, ArriveSome

\* A calm visit has been calm, and nobody but page and server has done anything.
LEMMA Steps ==
  ASSUME VisitType, [Next]_vars
  PROVE  /\ VisitType' /\ page' = page
         /\ Calm' => Calm /\ (Inside \/ UNCHANGED vars)
<1>1. CASE Inside
  BY <1>1, InsideForward DEF Forward, Calm
<1>2. CASE FailSome
  BY <1>2, FailFacts DEF FailSome, Calm
<1>3. CASE Others
  <2>1. ASSUME NEW r, Elsewhere(r) PROVE VisitType' /\ page' = page /\ ~Calm'
    BY <2>1, ElsewhereFacts DEF Calm
  <2>2. ASSUME NEW r, NEW e, OtherTab(r, e) PROVE VisitType' /\ page' = page /\ ~Calm'
    <3>1. others' > 0 /\ page' = page /\ VisitType'
      BY <2>2, OtherTabFacts
    <3>2. QED BY <3>1 DEF Calm
  <2>3. CASE KeysElsewhere BY <2>1, <2>3 DEF KeysElsewhere
  <2>4. CASE BillingElsewhere BY <2>2, <2>4 DEF BillingElsewhere
  <2>5. CASE PostureElsewhere BY <2>1, <2>5 DEF PostureElsewhere
  <2>6. CASE EditorElsewhere BY <2>1, <2>6 DEF EditorElsewhere
  <2>7. CASE GateElsewhere BY <2>1, <2>7 DEF GateElsewhere
  <2>8. CASE StatusElsewhere BY <2>1, <2>8 DEF StatusElsewhere
  <2>9. QED BY <1>3, <2>3, <2>4, <2>5, <2>6, <2>7, <2>8 DEF Others
<1>4. CASE UNCHANGED vars
  BY <1>4 DEF vars, VisitType, Requests, Calm
<1>5. QED BY <1>1, <1>2, <1>3, <1>4 DEF Next, Inside

-----------------------------------------------------------------------------
(* What is asked for once *)

\* What is asked for once, and answered with v.
Alone(f, k, v) ==
  /\ \A c, d \in DOMAIN f : c.kind = k /\ d.kind = k => c = d
  /\ \A c \in DOMAIN f : c.kind = k => f[c] \in {Waiting, v}
Sought(f, k) == \E c \in DOMAIN f : c.kind = k

\* Requests of a step: those that were there, without some, and new ones.
Only(kept, new) == \A o \in Requests' : o \in kept \/ \E r \in new : o.kind = r.kind /\ o.arg = r.arg

LEMMA SendsAlone ==
  ASSUME VisitType, NEW kept \in SUBSET Requests, NEW new, Sends(kept, new)
  PROVE  /\ Only(kept, new)
         /\ \A k, v : Alone(calls, k, v) /\ (\A r \in new : r.kind # k) =>
              Alone(calls', k, v) /\ (Sought(calls', k) <=> \E o \in kept : o.kind = k)
<1>1. /\ \A o \in New(new) : \E r \in new : o.kind = r.kind /\ o.arg = r.arg
      /\ DOMAIN calls' = kept \cup New(new) /\ \A o \in kept : calls'[o] = calls[o]
  BY NewFacts DEF Sends, Requests
<1>2. Only(kept, new)
  BY <1>1 DEF Only, Requests
<1>3. ASSUME NEW k, NEW v, Alone(calls, k, v), \A r \in new : r.kind # k
      PROVE  Alone(calls', k, v) /\ (Sought(calls', k) <=> \E o \in kept : o.kind = k)
  BY <1>1, <1>3 DEF Alone, Sought, Requests
<1>4. QED BY <1>2, <1>3

LEMMA RenewsAlone ==
  ASSUME VisitType, NEW kept \in SUBSET Requests, NEW new, Sends(kept, new), NEW k, \A o \in kept : o.kind # k,
         \A q, r \in new : q.kind = k /\ r.kind = k => q.arg = r.arg, \E r \in new : r.kind = k
  PROVE  Sought(calls', k) /\ \A v : Alone(calls', k, v)
<1>1. /\ \A o \in New(new) : o.id = issued + 1 /\ Formed(o) /\ \E r \in new : o.kind = r.kind /\ o.arg = r.arg
      /\ DOMAIN calls' = kept \cup New(new) /\ \A o \in New(new) : calls'[o] = Waiting
  BY NewFacts DEF Sends, Requests
<1>2. ASSUME NEW c \in DOMAIN calls', NEW d \in DOMAIN calls', c.kind = k, d.kind = k
      PROVE  c = d
  <2>1. c \in New(new) /\ d \in New(new)
    BY <1>1, <1>2
  <2>2. c.arg = d.arg /\ c.id = d.id /\ Formed(c) /\ Formed(d)
    BY <1>1, <1>2, <2>1
  <2>3. QED BY <1>2, <2>2 DEF Formed
<1>3. Sought(calls', k)
  <2>1. PICK r \in new : r.kind = k
    OBVIOUS
  <2> DEFINE c == [id |-> issued + 1, kind |-> r.kind, arg |-> r.arg]
  <2>2. c \in New(new) /\ c.kind = k
    BY <2>1 DEF New, Numbered
  <2> HIDE DEF c
  <2>3. QED BY <1>1, <2>2 DEF Sought
<1>4. \A c \in DOMAIN calls' : c.kind = k => calls'[c] = Waiting
  BY <1>1
<1>5. QED BY <1>2, <1>3, <1>4 DEF Alone

LEMMA ActsAlone ==
  ASSUME VisitType, NEW s, NEW new, Acts(s, {}, new)
  PROVE  /\ st' = s /\ srv' = srv /\ Only(Requests, new)
         /\ \A k, v : Alone(calls, k, v) /\ (\A r \in new : r.kind # k) =>
              Alone(calls', k, v) /\ (Sought(calls', k) <=> Sought(calls, k))
<1>1. Requests \ {} = Requests
  OBVIOUS
<1>2. Sends(Requests, new) /\ st' = s /\ srv' = srv
  BY <1>1, ActsFacts
<1>3. QED BY <1>2, SendsAlone DEF Sought, Requests

LEMMA ActsOnAlone ==
  ASSUME VisitType, NEW records, NEW s, NEW new, ActsOn(records, s, new)
  PROVE  /\ st' = s /\ srv' = records /\ Only(Requests, new)
         /\ \A k, v : Alone(calls, k, v) /\ (\A r \in new : r.kind # k) =>
              Alone(calls', k, v) /\ (Sought(calls', k) <=> Sought(calls, k))
<1>1. Sends(Requests, new) /\ st' = s /\ srv' = records
  BY ActsOnFacts
<1>2. QED BY <1>1, SendsAlone DEF Sought, Requests

LEMMA TakesAlone ==
  ASSUME VisitType, NEW c \in Requests, NEW s, NEW new, Takes(c, s, {}, new), Answer(c) # Waiting
  PROVE  /\ st' = s /\ srv' = srv /\ Only(Requests \ {c}, new)
         /\ \A k, v : Alone(calls, k, v) /\ (\A r \in new : r.kind # k) =>
              /\ Alone(calls', k, v)
              /\ c.kind # k => (Sought(calls', k) <=> Sought(calls, k))
              /\ c.kind = k => ~Sought(calls', k) /\ Answer(c) = v
<1> DEFINE kept == Requests \ {c}
<1>1. (Requests \ {c}) \ {} = kept
  OBVIOUS
<1>2. Sends(kept, new) /\ st' = s /\ srv' = srv
  BY <1>1, TakesFacts
<1>3. ASSUME NEW k, NEW v, Alone(calls, k, v), \A r \in new : r.kind # k
      PROVE  /\ Alone(calls', k, v)
             /\ c.kind # k => (Sought(calls', k) <=> Sought(calls, k))
             /\ c.kind = k => ~Sought(calls', k) /\ Answer(c) = v
  <2>1. Alone(calls', k, v) /\ (Sought(calls', k) <=> \E o \in kept : o.kind = k)
    BY <1>2, <1>3, SendsAlone
  <2>2. QED BY <1>3, <2>1 DEF Alone, Sought, Requests, Answer
<1>4. Only(kept, new)
  BY <1>2, SendsAlone
<1>5. QED BY <1>2, <1>3, <1>4

LEMMA RepliesAlone ==
  ASSUME VisitType, NEW c \in Requests, NEW a, NEW r, Replies(c, a, r)
  PROVE  /\ st' = st /\ srv' = r /\ Requests' = Requests
         /\ \A k, v : Alone(calls, k, v) /\ (c.kind = k => a = v) =>
              Alone(calls', k, v) /\ (Sought(calls', k) <=> Sought(calls, k))
<1>1. /\ DOMAIN calls' = DOMAIN calls /\ calls'[c] = a /\ \A o \in DOMAIN calls \ {c} : calls'[o] = calls[o]
      /\ st' = st /\ srv' = r /\ Requests' = Requests
  BY RepliesFacts DEF Requests
<1>2. QED BY <1>1 DEF Alone, Sought

LEMMA MountedAlone ==
  ASSUME NEW p, NEW s, NEW new, NEW records, Mounted(p, s, new, records)
  PROVE  /\ page = p /\ st = s /\ srv \in records /\ VisitType /\ Calm
         /\ \A o \in Requests : \E r \in new : o.kind = r.kind /\ o.arg = r.arg
         /\ \A k : (\A q, r \in new : q.kind = k /\ r.kind = k => q.arg = r.arg) =>
              \A v : Alone(calls, k, v) /\ \A r \in new : r.kind = k => Sought(calls, k)
<1>1. /\ page = p /\ st = s /\ srv \in records /\ VisitType /\ Calm /\ Requests = Numbered(1, new)
      /\ \A c \in Requests : calls[c] = Waiting /\ c.id = 1 /\ \E r \in new : c.kind = r.kind /\ c.arg = r.arg
  BY MountedFacts
<1>2. ASSUME NEW k, \A q, r \in new : q.kind = k /\ r.kind = k => q.arg = r.arg
      PROVE  \A v : Alone(calls, k, v)
  <2>1. ASSUME NEW c \in Requests, NEW d \in Requests, c.kind = k, d.kind = k
        PROVE  c = d
    <3>1. c.arg = d.arg /\ c.id = 1 /\ d.id = 1 /\ Formed(c) /\ Formed(d)
      BY <1>1, <1>2, <2>1 DEF VisitType
    <3>2. QED BY <2>1, <3>1 DEF Formed
  <2>2. QED BY <1>1, <2>1 DEF Alone, Requests
<1>3. ASSUME NEW r \in new
      PROVE  Sought(calls, r.kind)
  <2>1. [id |-> 1, kind |-> r.kind, arg |-> r.arg] \in Requests
    BY <1>1 DEF Numbered
  <2>2. QED BY <2>1 DEF Sought, Requests
<1>4. QED BY <1>1, <1>2, <1>3

\* The two cases that most pages need: one request at mount, and an answer that
\* asks for nothing.
LEMMA MountedOnce ==
  ASSUME NEW p, NEW s, NEW kind, NEW records, Mounted(p, s, Load({kind}), records), NEW v
  PROVE  /\ page = p /\ st = s /\ srv \in records
         /\ \A o \in Requests : o.kind = kind
         /\ Alone(calls, kind, v) /\ Sought(calls, kind)
<1>1. \A r \in Load({kind}) : r.kind = kind /\ r.arg = None
  BY LoadFacts
<1>2. \E r \in Load({kind}) : r.kind = kind
  BY LoadFacts
<1>3. /\ page = p /\ st = s /\ srv \in records
      /\ \A o \in Requests : \E r \in Load({kind}) : o.kind = r.kind
  BY MountedAlone
<1>4. (\A q, r \in Load({kind}) : q.kind = kind /\ r.kind = kind => q.arg = r.arg) =>
        Alone(calls, kind, v) /\ \A r \in Load({kind}) : r.kind = kind => Sought(calls, kind)
  BY MountedAlone
<1>5. QED BY <1>1, <1>2, <1>3, <1>4

LEMMA TakesOnly ==
  ASSUME VisitType, NEW c \in Requests, NEW s, Takes(c, s, {}, {}), Answer(c) # Waiting,
         NEW k, NEW v, Alone(calls, k, v)
  PROVE  /\ st' = s /\ srv' = srv /\ Only(Requests \ {c}, {})
         /\ Alone(calls', k, v)
         /\ c.kind # k => (Sought(calls', k) <=> Sought(calls, k))
         /\ c.kind = k => ~Sought(calls', k) /\ Answer(c) = v
<1>1. /\ st' = s /\ srv' = srv /\ Only(Requests \ {c}, {})
      /\ (\A r \in {} : r.kind # k) =>
           /\ Alone(calls', k, v)
           /\ c.kind # k => (Sought(calls', k) <=> Sought(calls, k))
           /\ c.kind = k => ~Sought(calls', k) /\ Answer(c) = v
  BY TakesAlone
<1>2. QED BY <1>1

LEMMA SettledAlone == Settled => \A k : ~Sought(calls, k)
BY DEF Settled, Requests, Sought

-----------------------------------------------------------------------------
(* API keys *)

KeysType ==
  /\ DOMAIN st = {"keys", "creating", "secret", "revoke", "clearing"}
  /\ DOMAIN srv = {"keys"} /\ srv.keys \in KeyTables
  /\ \A c \in Requests : c.kind \in {"keys", "createKey", "revokeKey", "clearKeys"}

\* A change that was made, and whose answer will have the list loaded again.
KeysChanged == \E m \in Requests : m.kind # "keys" /\ Answered(m)

\* The list is what the server has or will be loaded again, and of several
\* answers that are under way the one asked for last will be shown.
KeysCore ==
  /\ KeysType
  /\ Listed(calls, "keys")
  /\ KeysChanged \/ Latest(calls, "keys", srv.keys, st.keys)

\* The steps that this page takes while nobody else does anything.
LEMMA KeysSteps ==
  ASSUME page = "keys", KeysCore, Inside
  PROVE  \/ KeysClick
         \/ \E c \in Requests : ServeRead(c) \/ KeysServe(c) \/ (Answer(c) # Waiting /\ KeysArrive(c))
BY DEF KeysCore, KeysType, Inside, Click, ServeSome, Serve, ArriveSome, Arrive, TimerSome, PosturePages, FilterPages,
       InstallUrlServed, DetailsServe, ReportServe, AgentServe, RegistryServe, SubmitServe, NewItemServe

\* What does not change the list, nor asks for it.
LEMMA KeysSame ==
  ASSUME VisitType, KeysCore, NEW kept \in SUBSET Requests, NEW new, Sends(kept, new),
         \A o \in Requests : o \notin kept => o.kind # "keys" /\ ~Answered(o),
         \A r \in new : r.kind \in {"createKey", "revokeKey", "clearKeys"},
         srv' = srv, DOMAIN st' = DOMAIN st, st'.keys = st.keys
  PROVE  KeysCore'
<1>1. /\ Requests' = kept \cup New(new) /\ \A o \in kept : calls'[o] = calls[o]
      /\ \A o \in New(new) : o.kind \in {"createKey", "revokeKey", "clearKeys"}
  BY NewFacts DEF Sends
<1>2. KeysType'
  BY <1>1 DEF KeysCore, KeysType
<1>3. Listed(calls', "keys")
  BY SendsListed DEF KeysCore
<1>4. KeysChanged => KeysChanged'
  BY <1>1 DEF KeysChanged, Answered, Answer
<1>5. Latest(calls, "keys", srv.keys, st.keys) => Latest(calls', "keys", srv.keys, st.keys)
  BY KeepsLatest
<1>6. QED BY <1>2, <1>3, <1>4, <1>5 DEF KeysCore

LEMMA KeysRenewed ==
  ASSUME VisitType, KeysCore, NEW kept \in SUBSET Requests, Sends(kept, Load({"keys"})),
         srv' = srv, DOMAIN st' = DOMAIN st
  PROVE  KeysCore'
<1>1. Load({"keys"}) = {Ask("keys", None)} /\ Ask("keys", None).kind = "keys"
  BY LoadOne DEF Ask
<1>2. KeysType'
  <2>1. Requests' = kept \cup New(Load({"keys"})) /\ \A o \in New(Load({"keys"})) : o.kind = "keys"
    BY <1>1, NewFacts DEF Sends
  <2>2. QED BY <2>1 DEF KeysCore, KeysType
<1>3. Listed(calls', "keys")
  BY <1>1, SendsListed DEF KeysCore
<1>4. Latest(calls', "keys", srv.keys, st'.keys)
  BY <1>1, AsksLatest
<1>5. QED BY <1>2, <1>3, <1>4 DEF KeysCore

\* Every step of a calm visit keeps it so.
LEMMA KeysCalm ==
  ASSUME page = "keys", VisitType, KeysCore, Inside, ~overtaken'
  PROVE  KeysCore'
<1>1. DOMAIN st = {"keys", "creating", "secret", "revoke", "clearing"} /\ Requests \in SUBSET Requests
  BY DEF KeysCore, KeysType
<1>2. CASE KeysClick
  <2>1. ASSUME NEW s, NEW new, Acts(s, {}, new), DOMAIN s = DOMAIN st, s.keys = st.keys,
               \A r \in new : r.kind \in {"createKey", "revokeKey", "clearKeys"}
        PROVE  KeysCore'
    <3>1. Sends(Requests, new) /\ srv' = srv /\ st' = s
      <4>1. Requests \ {} = Requests
        OBVIOUS
      <4>2. QED BY <2>1, <4>1, ActsFacts
    <3>2. QED BY <2>1, <3>1, KeysSame
  <2>2. /\ \A r \in Load({"createKey"}) : r.kind = "createKey"
        /\ \A r \in Load({"clearKeys"}) : r.kind = "clearKeys"
        /\ \A a : Ask("revokeKey", a).kind = "revokeKey"
    BY LoadFacts DEF Ask
  <2>3. CASE Acts([st EXCEPT !.creating = TRUE], {}, Load({"createKey"}))
    BY <1>1, <2>1, <2>2, <2>3
  <2>4. CASE \E k : Acts([st EXCEPT !.revoke = k], {}, {})
    BY <1>1, <2>1, <2>4
  <2>5. CASE Acts(st, {}, {Ask("revokeKey", st.revoke)})
    BY <2>1, <2>2, <2>5
  <2>6. CASE Acts([st EXCEPT !.clearing = TRUE], {}, Load({"clearKeys"}))
    BY <1>1, <2>1, <2>2, <2>6
  <2>7. QED BY <1>2, <2>3, <2>4, <2>5, <2>6 DEF KeysClick
<1>3. ASSUME NEW c \in Requests, ServeRead(c) \/ KeysServe(c)
      PROVE  KeysCore'
  <2>1. ASSUME NEW a, NEW r, Replies(c, a, r), DOMAIN r = {"keys"}, r.keys \in KeyTables,
               \/ r = srv /\ (c.kind = "keys" => a = srv.keys)
               \/ c.kind # "keys" /\ a \notin {Waiting, Failed}
        PROVE  KeysCore'
    <3>1. /\ Requests' = Requests /\ calls'[c] = a /\ \A o \in Requests \ {c} : calls'[o] = calls[o]
          /\ srv' = r /\ st' = st /\ calls[c] = Waiting
      BY <2>1, RepliesFacts
    <3>2. KeysType' /\ Listed(calls', "keys")
      BY <2>1, <3>1 DEF KeysCore, KeysType, Listed, Requests
    <3>3. KeysChanged => KeysChanged'
      BY <3>1 DEF KeysChanged, Answered, Answer
    <3>4. CASE c.kind # "keys" /\ a \notin {Waiting, Failed}
      BY <3>1, <3>2, <3>4 DEF KeysCore, KeysChanged, Answered, Answer
    <3>5. CASE r = srv /\ (c.kind = "keys" => a = srv.keys)
      <4>1. Latest(calls, "keys", srv.keys, st.keys) => Latest(calls', "keys", srv.keys, st.keys)
        BY <2>1, <3>5, RepliesLatest
      <4>2. QED BY <3>1, <3>2, <3>3, <3>5, <4>1 DEF KeysCore
    <3>6. QED BY <2>1, <3>4, <3>5
  <2>2. DOMAIN srv = {"keys"} /\ srv.keys \in [KeyIds -> {"absent", "active", "revoked"}]
    BY DEF KeysCore, KeysType, KeyTables
  <2>3. CASE ServeRead(c)
    <3>1. c.kind = "keys" /\ Replies(c, srv["keys"], srv)
      BY <2>2, <2>3 DEF ServeRead
    <3>2. QED BY <2>1, <2>2, <3>1 DEF KeyTables
  <2>4. "ok" \notin {Waiting, Failed} /\ \A k \in KeyIds : k \notin {Waiting, Failed}
    BY MarksAssumption, KeysAssumption DEF Marks
  <2>5. ASSUME NEW k \in KeyIds, NEW x \in {"absent", "active", "revoked"}
        PROVE  LET r == [keys |-> [srv.keys EXCEPT ![k] = x]] IN DOMAIN r = {"keys"} /\ r.keys \in KeyTables
    BY <2>2 DEF KeyTables
  <2>6. CASE KeysServe(c)
    <3>1. CASE c.kind = "createKey" /\ \E k \in KeysThat(srv.keys, "absent") : Replies(c, k, [keys |-> [srv.keys EXCEPT ![k] = "active"]])
      BY <2>1, <2>4, <2>5, <3>1 DEF KeysThat
    <3>2. CASE c.kind = "revokeKey" /\ srv.keys[c.arg] = "absent" /\ Replies(c, Failed, srv)
      BY <2>1, <2>2, <3>2 DEF KeyTables
    <3>3. CASE c.kind = "revokeKey" /\ Replies(c, "ok", [keys |-> [srv.keys EXCEPT ![c.arg] = "revoked"]])
      <4>1. [srv.keys EXCEPT ![c.arg] = "revoked"] \in KeyTables
        BY <2>2 DEF KeyTables
      <4>2. QED BY <2>1, <2>4, <3>3, <4>1
    <3>4. CASE c.kind = "clearKeys" /\ Replies(c, "ok", [keys |-> [k \in KeyIds |-> IF srv.keys[k] = "active" THEN "active" ELSE "absent"]])
      <4>1. [k \in KeyIds |-> IF srv.keys[k] = "active" THEN "active" ELSE "absent"] \in KeyTables
        BY DEF KeyTables
      <4>2. QED BY <2>1, <2>4, <3>4, <4>1
    <3>5. QED BY <2>6, <3>1, <3>2, <3>3, <3>4 DEF KeysServe
  <2>7. QED BY <1>3, <2>3, <2>6
<1>4. ASSUME NEW c \in Requests, Answer(c) # Waiting, KeysArrive(c)
      PROVE  KeysCore'
  <2> DEFINE kept == Requests \ {c}
  <2>1. ASSUME NEW s, NEW new, Takes(c, s, {}, new)
        PROVE  Sends(kept, new) /\ srv' = srv /\ st' = s
    <3>1. (Requests \ {c}) \ {} = kept
      OBVIOUS
    <3>2. QED BY <2>1, <3>1, TakesFacts
  <2>2. ASSUME NEW s, Takes(c, s, {}, {}), DOMAIN s = DOMAIN st, s.keys = st.keys, c.kind # "keys", ~Answered(c)
        PROVE  KeysCore'
    BY <2>1, <2>2, KeysSame
  <2>3. ASSUME NEW s, Takes(c, s, {}, Load({"keys"})), DOMAIN s = DOMAIN st
        PROVE  KeysCore'
    BY <2>1, <2>3, KeysRenewed
  <2>4. CASE KeysListArrives(c)
    <3> DEFINE x == IF Threw(c) THEN NoKeys ELSE Answer(c)
               s == [st EXCEPT !.keys = x]
    <3>1. Takes(c, s, {}, {}) /\ c.kind = "keys"
      BY <2>4 DEF KeysListArrives
    <3>2. DOMAIN s = DOMAIN st /\ s.keys = x
      BY <1>1
    <3>3. calls[c] = srv.keys => x = srv.keys
      BY KeysAssumption DEF Threw, Answer, KeysCore, KeysType, Marks
    <3> HIDE DEF s, x
    <3>4. Sends(kept, {}) /\ srv' = srv /\ st' = s
      BY <2>1, <3>1
    <3>5. Requests' = kept /\ \A o \in kept : calls'[o] = calls[o]
      BY <3>4, NumberedNone DEF Sends, New
    <3>6. KeysType'
      BY <3>2, <3>4, <3>5 DEF KeysCore, KeysType
    <3>7. Listed(calls', "keys")
      BY <3>4, SendsListed DEF KeysCore
    <3>8. KeysChanged => KeysChanged'
      BY <3>1, <3>5 DEF KeysChanged, Answered, Answer
    <3>9. ASSUME Latest(calls, "keys", srv.keys, st.keys)
          PROVE  Latest(calls', "keys", srv.keys, x)
      <4>1. /\ calls[c] # Waiting /\ Listed(calls, c.kind) /\ Latest(calls, c.kind, srv.keys, st.keys)
            /\ (calls[c] = srv.keys => x = srv.keys) /\ \A o \in {} : o.kind # c.kind
        BY <1>4, <3>1, <3>3, <3>9 DEF KeysCore, Answer
      <4>2. Latest(calls', c.kind, srv.keys, x)
        BY <3>1, <4>1, TakesLatest
      <4>3. QED BY <3>1, <4>2
    <3>10. QED BY <3>2, <3>4, <3>6, <3>7, <3>8, <3>9 DEF KeysCore
  <2>5. CASE KeyCreated(c)
    <3>1. \A y : DOMAIN [st EXCEPT !.creating = FALSE, !.secret = y] = DOMAIN st
                 /\ [st EXCEPT !.creating = FALSE, !.secret = y].keys = st.keys
      BY <1>1
    <3>2. QED BY <2>2, <2>3, <2>5, <3>1 DEF KeyCreated
  <2>6. CASE KeyRevoked(c)
    BY <1>1, <2>2, <2>3, <2>6 DEF KeyRevoked
  <2>7. CASE KeysCleared(c)
    BY <1>1, <2>2, <2>3, <2>7 DEF KeysCleared
  <2>8. QED BY <1>4, <2>4, <2>5, <2>6, <2>7 DEF KeysArrive
<1>5. QED BY <1>2, <1>3, <1>4, KeysSteps

\* It is so when the page is mounted.
LEMMA KeysStart == KeysInit => page = "keys" /\ KeysCore
<1> SUFFICES ASSUME KeysInit PROVE page = "keys" /\ KeysCore
  OBVIOUS
<1> DEFINE records == {[keys |-> [NoKeys EXCEPT !["k1"] = s]] : s \in {"absent", "active", "revoked"}}
           new == Load({"keys"})
<1>1. PICK s : Mounted("keys", s, new, records) /\ DOMAIN s = {"keys", "creating", "secret", "revoke", "clearing"}
  <2> DEFINE s == [keys |-> NoData, creating |-> FALSE, secret |-> FALSE, revoke |-> None, clearing |-> FALSE]
  <2>1. Mounted("keys", s, new, records)
    BY DEF KeysInit
  <2>2. DOMAIN s = {"keys", "creating", "secret", "revoke", "clearing"}
    OBVIOUS
  <2> HIDE DEF s, new, records
  <2>3. QED BY <2>1, <2>2
<1>2. \A r \in records : DOMAIN r = {"keys"} /\ r.keys \in KeyTables
  BY DEF NoKeys, KeyTables
<1>3. \A q \in new : q.kind = "keys" /\ q.arg = None
  BY LoadFacts
<1>4. \E q \in new : q.kind = "keys"
  BY LoadFacts
<1> HIDE DEF records, new
<1>5. page = "keys" /\ st = s /\ srv \in records /\ \A c \in Requests : \E q \in new : c.kind = q.kind
  BY <1>1, MountedFacts
<1>6. Listed(calls, "keys") /\ Latest(calls, "keys", srv.keys, st.keys)
  BY <1>1, <1>3, <1>4, MountedLatest
<1>7. QED BY <1>1, <1>2, <1>3, <1>5, <1>6 DEF KeysCore, KeysType

\* Once everything is answered, the page shows what is true.
LEMMA KeysEnd == ASSUME KeysCore, Settled PROVE KeysTrue
BY LatestSettled DEF KeysCore, KeysTrue, KeysChanged, Settled

-----------------------------------------------------------------------------
(* AI providers *)

\* The dialog, as far as requests are made of it.
DialogType(d) ==
  /\ DOMAIN d = {"of", "nr", "step", "model", "busy", "note"}
  /\ d.of # None => d.of \in Providers /\ d.model \in {"nomodel", "model"}

Roster == {"providers", "models"}
RosterShown(s, k) == IF k = "providers" THEN s.creds ELSE s.models

ProvidersType ==
  /\ DOMAIN st = {"creds", "models", "loading", "dialog", "opened"} /\ DialogType(st.dialog)
  /\ DOMAIN srv = Roster /\ srv.providers \in CredTables /\ srv.models \in SUBSET Providers
  /\ \A c \in Requests :
       /\ c.kind \in Roster \cup {"saveKey", "saveModel", "removeKey"}
       /\ c.kind \notin Roster => c.arg.of \in Providers /\ c.arg.model \in {"nomodel", "model"}

\* A change that was made, and whose answer will have the roster loaded again.
ProvidersChanged == \E m \in Requests : m.kind \notin Roster /\ Answered(m)

\* The roster is on its way or what the server has, unless a change was made
\* whose answer will have it loaded again.
ProvidersCore ==
  /\ ProvidersType
  /\ \/ ProvidersChanged
     \/ \A k \in Roster : Alone(calls, k, srv[k]) /\ (Sought(calls, k) \/ RosterShown(st, k) = srv[k])

\* The steps that this page takes while nobody else does anything.
LEMMA ProvidersSteps ==
  ASSUME page = "providers", ProvidersCore, Inside
  PROVE  \/ ProvidersClick
         \/ \E c \in Requests : \/ c.kind \in Roster /\ ServeRead(c)
                                \/ ProvidersServe(c) \/ (Answer(c) # Waiting /\ ProvidersArrive(c))
<1>1. \A c \in Requests : c.kind \in {"providers", "models", "saveKey", "saveModel", "removeKey"}
  BY DEF ProvidersCore, ProvidersType, Roster
<1>2. \A c : ServeRead(c) => c.kind \in Roster
  BY DEF ProvidersCore, ProvidersType, ServeRead
<1>3. QED
  BY <1>1, <1>2 DEF Inside, Click, ServeSome, Serve, ArriveSome, Arrive, TimerSome, PosturePages, FilterPages,
       InstallUrlServed, DetailsServe, ReportServe, AgentServe, RegistryServe, SubmitServe, NewItemServe

ProvidersAsk(r) == /\ r.kind \in {"saveKey", "saveModel", "removeKey"}
                   /\ r.arg.of \in Providers /\ r.arg.model \in {"nomodel", "model"}

\* What does not change the roster, nor asks for it.
LEMMA ProvidersSame ==
  ASSUME VisitType, ProvidersCore, NEW kept \in SUBSET Requests, NEW new, Sends(kept, new),
         \A o \in Requests : o \notin kept => o.kind \notin Roster /\ ~Answered(o), \A r \in new : ProvidersAsk(r),
         srv' = srv, DOMAIN st' = DOMAIN st, st'.creds = st.creds, st'.models = st.models, DialogType(st'.dialog)
  PROVE  ProvidersCore'
<1>1. /\ Requests' = kept \cup New(new) /\ \A o \in kept : calls'[o] = calls[o]
      /\ \A o \in New(new) : ProvidersAsk(o)
  BY NewFacts DEF Sends, ProvidersAsk
<1>2. ProvidersType'
  BY <1>1 DEF ProvidersCore, ProvidersType, ProvidersAsk, Roster
<1>3. ProvidersChanged => ProvidersChanged'
  BY <1>1 DEF ProvidersChanged, Answered, Answer
<1>4. ASSUME NEW k \in Roster, Alone(calls, k, srv[k]), Sought(calls, k) \/ RosterShown(st, k) = srv[k]
      PROVE  Alone(calls', k, srv[k]) /\ (Sought(calls', k) \/ RosterShown(st', k) = srv[k])
  <2>1. \A r \in new : r.kind # k
    BY DEF ProvidersAsk, Roster
  <2>2. Alone(calls', k, srv[k]) /\ (Sought(calls', k) <=> \E o \in kept : o.kind = k)
    BY <1>4, <2>1, SendsAlone
  <2>3. Sought(calls, k) => Sought(calls', k)
    BY <2>2 DEF Sought, Requests
  <2>4. QED BY <1>4, <2>2, <2>3 DEF RosterShown
<1>5. QED BY <1>2, <1>3, <1>4 DEF ProvidersCore

LEMMA ProvidersRenewed ==
  ASSUME VisitType, ProvidersCore, NEW kept \in SUBSET Requests, Sends(kept, Load(Roster)),
         \A o \in kept : o.kind \notin Roster, srv' = srv, DOMAIN st' = DOMAIN st, DialogType(st'.dialog)
  PROVE  ProvidersCore'
<1> DEFINE new == Load(Roster)
<1>1. (\A r \in new : r.kind \in Roster /\ r.arg = None) /\ \A k \in Roster : \E r \in new : r.kind = k
  BY LoadFacts
<1>2. Sends(kept, new)
  OBVIOUS
<1> HIDE DEF new
<1>3. Requests' = kept \cup New(new) /\ \A o \in New(new) : o.kind \in Roster
  BY <1>1, <1>2, NewFacts DEF Sends
<1>4. ProvidersType'
  BY <1>3 DEF ProvidersCore, ProvidersType
<1>5. ASSUME NEW k \in Roster
      PROVE  Sought(calls', k) /\ \A v : Alone(calls', k, v)
  <2>1. (\A q, r \in new : q.kind = k /\ r.kind = k => q.arg = r.arg) /\ (\E r \in new : r.kind = k) /\ \A o \in kept : o.kind # k
    BY <1>1
  <2>2. QED BY <1>2, <2>1, RenewsAlone
<1>6. QED BY <1>4, <1>5 DEF ProvidersCore

\* Every step of a calm visit keeps it so.
LEMMA ProvidersCalm ==
  ASSUME page = "providers", VisitType, ProvidersCore, Inside
  PROVE  ProvidersCore'
<1>1. /\ DOMAIN st = {"creds", "models", "loading", "dialog", "opened"} /\ DialogType(st.dialog)
      /\ DOMAIN srv = Roster /\ srv.providers \in CredTables /\ srv.models \in SUBSET Providers
      /\ \A c \in Requests :
           /\ c.kind \in Roster \cup {"saveKey", "saveModel", "removeKey"}
           /\ c.kind \notin Roster => c.arg.of \in Providers /\ c.arg.model \in {"nomodel", "model"}
  BY DEF ProvidersCore, ProvidersType
<1>2. CASE ProvidersClick
  <2>1. ASSUME NEW s, NEW new, Acts(s, {}, new), DOMAIN s = DOMAIN st, s.creds = st.creds, s.models = st.models,
               DialogType(s.dialog), \A r \in new : ProvidersAsk(r)
        PROVE  ProvidersCore'
    <3>1. Requests \ {} = Requests /\ Requests \in SUBSET Requests
      OBVIOUS
    <3>2. Sends(Requests, new) /\ srv' = srv /\ st' = s
      BY <2>1, <3>1, ActsFacts
    <3>3. QED BY <2>1, <3>1, <3>2, ProvidersSame
  <2>2. \A r \in {} : ProvidersAsk(r)
    OBVIOUS
  <2>3. ASSUME NEW p \in Providers, OpenDialog(p)
        PROVE  ProvidersCore'
    <3> DEFINE d == [of |-> p, nr |-> st.opened + 1,
                     step |-> IF Connected(st.creds, p) THEN "model" ELSE "key",
                     model |-> IF st.creds[p] = "model" THEN "model" ELSE "nomodel",
                     busy |-> FALSE, note |-> None]
               s == [st EXCEPT !.opened = @ + 1, !.dialog = d]
    <3>1. DialogType(d)
      BY DEF DialogType
    <3>2. Acts(s, {}, {})
      BY <2>3 DEF OpenDialog
    <3> HIDE DEF d
    <3>3. DOMAIN s = DOMAIN st /\ s.creds = st.creds /\ s.models = st.models /\ s.dialog = d
      BY <1>1
    <3> HIDE DEF s
    <3>4. QED BY <2>1, <2>2, <3>1, <3>2, <3>3
  <2>4. ASSUME NEW k \in {"saveKey", "saveModel", "removeKey"}, NEW m \in {"nomodel", "model"}, st.dialog.of # None, DialogAsks(k, m)
        PROVE  ProvidersCore'
    <3> DEFINE s == [st EXCEPT !.dialog.busy = TRUE, !.dialog.model = m, !.dialog.note = None]
               a == [of |-> st.dialog.of, nr |-> st.dialog.nr, model |-> m]
               new == {Ask(k, a)}
    <3>1. Acts(s, {}, new)
      BY <2>4 DEF DialogAsks
    <3>2. a.of = st.dialog.of /\ a.model = m /\ st.dialog.of \in Providers
      BY <1>1, <2>4 DEF DialogType
    <3> HIDE DEF a
    <3>3. \A r \in new : ProvidersAsk(r)
      BY <3>2 DEF Ask, ProvidersAsk
    <3>4. DOMAIN s = DOMAIN st /\ s.creds = st.creds /\ s.models = st.models
      BY <1>1
    <3>5. DOMAIN s.dialog = DOMAIN st.dialog /\ s.dialog.of = st.dialog.of /\ s.dialog.model = m
      BY <1>1 DEF DialogType
    <3>6. DialogType(s.dialog)
      BY <1>1, <3>2, <3>5 DEF DialogType
    <3> HIDE DEF s, new
    <3>7. QED BY <2>1, <3>1, <3>3, <3>4, <3>6
  <2>5. CASE Acts([st EXCEPT !.dialog = NoDialog], {}, {})
    <3> DEFINE s == [st EXCEPT !.dialog = NoDialog]
    <3>1. DOMAIN s = DOMAIN st /\ s.creds = st.creds /\ s.models = st.models /\ s.dialog = NoDialog
      BY <1>1
    <3>2. DialogType(NoDialog)
      BY DEF DialogType, NoDialog
    <3>3. Acts(s, {}, {})
      BY <2>5
    <3> HIDE DEF s
    <3>4. QED BY <2>1, <2>2, <3>1, <3>2, <3>3
  <2>6. CASE Acts([st EXCEPT !.dialog.step = "key", !.dialog.note = None], {}, {})
    <3> DEFINE s == [st EXCEPT !.dialog.step = "key", !.dialog.note = None]
    <3>1. /\ DOMAIN s = DOMAIN st /\ s.creds = st.creds /\ s.models = st.models
          /\ DOMAIN s.dialog = DOMAIN st.dialog /\ s.dialog.of = st.dialog.of /\ s.dialog.model = st.dialog.model
      BY <1>1 DEF DialogType
    <3>2. DialogType(s.dialog) /\ Acts(s, {}, {})
      BY <1>1, <2>6, <3>1 DEF DialogType
    <3> HIDE DEF s
    <3>3. QED BY <2>1, <2>2, <3>1, <3>2
  <2>7. st.dialog.of # None => st.dialog.model \in {"nomodel", "model"}
    BY <1>1 DEF DialogType
  <2>8. ASSUME NEW m \in {"nomodel", st.dialog.model} \cup (IF st.dialog.of \in st.models THEN {"model"} ELSE {}), st.dialog.of # None
        PROVE  m \in {"nomodel", "model"}
    BY <2>7, <2>8
  <2>9. QED BY <1>2, <2>3, <2>4, <2>5, <2>6, <2>7, <2>8 DEF ProvidersClick
<1>3. ASSUME NEW c \in Requests, NEW a, NEW r, Replies(c, a, r), DOMAIN r = Roster, r.providers \in CredTables,
             r.models \in SUBSET Providers,
             \/ r = srv /\ (c.kind \in Roster => a = srv[c.kind])
             \/ c.kind \notin Roster /\ a \notin {Waiting, Failed}
      PROVE  ProvidersCore'
  <2>1. /\ st' = st /\ srv' = r /\ Requests' = Requests /\ calls[c] = Waiting
        /\ calls'[c] = a /\ \A o \in Requests \ {c} : calls'[o] = calls[o]
    BY <1>3, RepliesFacts
  <2>2. ProvidersType'
    BY <1>1, <1>3, <2>1 DEF ProvidersType
  <2>3. ProvidersChanged => ProvidersChanged'
    BY <2>1 DEF ProvidersChanged, Answered, Answer
  <2>4. CASE c.kind \notin Roster /\ a \notin {Waiting, Failed}
    BY <2>1, <2>2, <2>4 DEF ProvidersCore, ProvidersChanged, Answered, Answer
  <2>5. CASE r = srv /\ (c.kind \in Roster => a = srv[c.kind])
    <3>1. ASSUME NEW k \in Roster, Alone(calls, k, srv[k])
          PROVE  Alone(calls', k, srv[k]) /\ (Sought(calls', k) <=> Sought(calls, k))
      BY <1>3, <2>5, <3>1, RepliesAlone
    <3>2. QED BY <2>1, <2>2, <2>3, <2>5, <3>1 DEF ProvidersCore
  <2>6. QED BY <1>3, <2>4, <2>5
<1>4. ASSUME NEW c \in Requests, (c.kind \in Roster /\ ServeRead(c)) \/ ProvidersServe(c)
      PROVE  ProvidersCore'
  <2>1. CASE c.kind \in Roster /\ ServeRead(c)
    BY <1>1, <1>3, <2>1 DEF ServeRead
  <2>2. "ok" \notin {Waiting, Failed}
    BY MarksAssumption DEF Marks
  <2>3. c.kind \in {"saveKey", "saveModel", "removeKey"} => c.arg.of \in Providers /\ c.arg.model \in {"nomodel", "model"} /\ c.kind \notin Roster
    BY <1>1 DEF Roster
  <2>4. ASSUME NEW p, NEW x \in {Unset, "nomodel", "model"}
        PROVE  [srv.providers EXCEPT ![p] = x] \in CredTables
    BY <1>1 DEF CredTables
  <2>5. ASSUME c.kind = "saveKey", NEW m \in {srv.models, srv.models \cup {c.arg.of}},
               Replies(c, "ok", [providers |-> [srv.providers EXCEPT ![c.arg.of] = c.arg.model], models |-> m])
        PROVE  ProvidersCore'
    <3> DEFINE t == [srv.providers EXCEPT ![c.arg.of] = c.arg.model]
               r == [providers |-> t, models |-> m]
    <3>1. t \in CredTables /\ m \in SUBSET Providers
      BY <1>1, <2>3, <2>4, <2>5
    <3>2. Replies(c, "ok", r)
      BY <2>5
    <3> HIDE DEF t
    <3>3. DOMAIN r = Roster /\ r.providers = t /\ r.models = m
      BY DEF Roster
    <3> HIDE DEF r
    <3>4. QED BY <1>3, <2>2, <2>3, <2>5, <3>1, <3>2, <3>3
  <2>6. ASSUME c.kind \in {"saveModel", "removeKey"}, NEW x \in {Unset, "nomodel", "model"},
               Replies(c, "ok", [srv EXCEPT !.providers[c.arg.of] = x])
        PROVE  ProvidersCore'
    <3> DEFINE t == [srv.providers EXCEPT ![c.arg.of] = x]
               r == [srv EXCEPT !.providers[c.arg.of] = x]
    <3>1. t \in CredTables
      BY <2>4
    <3>2. Replies(c, "ok", r)
      BY <2>6
    <3>3. DOMAIN r = Roster /\ r.providers = t /\ r.models = srv.models
      BY <1>1 DEF Roster
    <3> HIDE DEF t, r
    <3>4. QED BY <1>1, <1>3, <2>2, <2>3, <2>6, <3>1, <3>2, <3>3
  <2>7. CASE c.kind = "saveModel" /\ Replies(c, Failed, srv)
    BY <1>1, <1>3, <2>3, <2>7
  <2>8. QED BY <1>4, <2>1, <2>3, <2>5, <2>6, <2>7 DEF ProvidersServe
<1>5. ASSUME NEW c \in Requests, Answer(c) # Waiting, ProvidersArrive(c)
      PROVE  ProvidersCore'
  <2> DEFINE kept == Requests \ {c}
  <2>1. ASSUME NEW s, Takes(c, s, {}, {}), DOMAIN s = DOMAIN st, s.creds = st.creds, s.models = st.models,
               DialogType(s.dialog), c.kind \notin Roster, ~Answered(c)
        PROVE  ProvidersCore'
    <3>1. (Requests \ {c}) \ {} = kept /\ \A r \in {} : ProvidersAsk(r)
      OBVIOUS
    <3>2. Sends(kept, {}) /\ srv' = srv /\ st' = s
      BY <2>1, <3>1, TakesFacts
    <3>3. \A o \in Requests : o \notin kept => o.kind \notin Roster /\ ~Answered(o)
      BY <2>1
    <3>4. QED BY <2>1, <3>1, <3>2, <3>3, ProvidersSame
  <2>2. ASSUME NEW s, Takes(c, s, Reloading, Reload), DOMAIN s = DOMAIN st, DialogType(s.dialog)
        PROVE  ProvidersCore'
    <3> DEFINE rest == (Requests \ {c}) \ Reloading
    <3>1. Reload = Load(Roster) /\ (\A o \in rest : o.kind \notin Roster) /\ rest \in SUBSET Requests
      BY DEF Reload, Reloading, Asking, Roster
    <3>2. Sends(rest, Load(Roster)) /\ srv' = srv /\ st' = s
      BY <2>2, <3>1, TakesFacts
    <3> HIDE DEF rest
    <3>3. QED BY <2>2, <3>1, <3>2, ProvidersRenewed
  <2>3. ASSUME NEW s \in {st, [st EXCEPT !.dialog.busy = FALSE]}
                         \cup {[st EXCEPT !.dialog.busy = FALSE, !.dialog.note = n] : n \in {"saved", "error"}}
                         \cup {[st EXCEPT !.dialog.busy = FALSE, !.dialog.step = "model"], [st EXCEPT !.dialog = NoDialog]}
        PROVE  DOMAIN s = DOMAIN st /\ s.creds = st.creds /\ s.models = st.models /\ DialogType(s.dialog)
    <3> DEFINE free == [st EXCEPT !.dialog.busy = FALSE]
               step == [st EXCEPT !.dialog.busy = FALSE, !.dialog.step = "model"]
               note(n) == [st EXCEPT !.dialog.busy = FALSE, !.dialog.note = n]
               Same(x) == /\ DOMAIN x = DOMAIN st /\ x.creds = st.creds /\ x.models = st.models
                          /\ \/ x.dialog = NoDialog
                             \/ DOMAIN x.dialog = DOMAIN st.dialog /\ x.dialog.of = st.dialog.of /\ x.dialog.model = st.dialog.model
    <3>1. Same(st)
      OBVIOUS
    <3>2. Same(free)
      BY <1>1 DEF DialogType
    <3>3. Same(step)
      BY <1>1 DEF DialogType
    <3>4. Same([st EXCEPT !.dialog = NoDialog])
      BY <1>1
    <3>5. ASSUME NEW n PROVE Same(note(n))
      BY <1>1 DEF DialogType
    <3>6. s = st \/ s = free \/ s = step \/ s = [st EXCEPT !.dialog = NoDialog] \/ \E n : s = note(n)
      BY <2>3
    <3>7. Same(s)
      <4> HIDE DEF free, step, note, Same
      <4>1. QED BY <3>1, <3>2, <3>3, <3>4, <3>5, <3>6
    <3>8. DialogType(NoDialog)
      BY DEF DialogType, NoDialog
    <3>9. QED BY <1>1, <3>7, <3>8 DEF DialogType
  <2>4. ASSUME NEW s \in {st, [st EXCEPT !.dialog.busy = FALSE]}
                         \cup {[st EXCEPT !.dialog.busy = FALSE, !.dialog.note = n] : n \in {"saved", "error"}}
                         \cup {[st EXCEPT !.dialog.busy = FALSE, !.dialog.step = "model"], [st EXCEPT !.dialog = NoDialog]},
               IF Answered(c) THEN Takes(c, s, Reloading, Reload) ELSE Takes(c, s, {}, {}), c.kind \notin Roster
        PROVE  ProvidersCore'
    BY <2>1, <2>2, <2>3, <2>4
  <2>5. CASE KeySaved(c)
    <3> DEFINE x == [st EXCEPT !.dialog.busy = FALSE, !.dialog.step = "model"]
               y == [st EXCEPT !.dialog.busy = FALSE, !.dialog.note = "error"]
    <3>1. c.kind \notin Roster
      BY <2>5 DEF KeySaved, Roster
    <3>2. \E s \in {st, x, y} : IF Answered(c) THEN Takes(c, s, Reloading, Reload) ELSE Takes(c, s, {}, {})
      BY <2>5 DEF KeySaved
    <3>3. QED BY <2>4, <3>1, <3>2
  <2>6. CASE ModelSaved(c)
    <3> DEFINE x == [st EXCEPT !.dialog.busy = FALSE, !.dialog.note = "saved"]
               y == [st EXCEPT !.dialog.busy = FALSE, !.dialog.note = "error"]
    <3>1. c.kind \notin Roster
      BY <2>6 DEF ModelSaved, Roster
    <3>2. \E s \in {st, x, y} : IF Answered(c) THEN Takes(c, s, Reloading, Reload) ELSE Takes(c, s, {}, {})
      BY <2>6 DEF ModelSaved
    <3>3. QED BY <2>4, <3>1, <3>2
  <2>7. CASE KeyRemoved(c)
    <3>1. c.kind \notin Roster
      BY <2>7 DEF KeyRemoved, Roster
    <3>2. \E s \in {st, [st EXCEPT !.dialog.busy = FALSE], [st EXCEPT !.dialog = NoDialog]} :
            IF Answered(c) THEN Takes(c, s, Reloading, Reload) ELSE Takes(c, s, {}, {})
      BY <2>7 DEF KeyRemoved
    <3>3. QED BY <2>4, <3>1, <3>2
  <2>8. CASE RosterArrives(c)
    <3>1. PICK d \in Asking({"models"}) :
            /\ d.id = c.id /\ Answer(d) # Waiting
            /\ Takes(c, [st EXCEPT !.creds = IF Threw(c) THEN [p \in Providers |-> Unset] ELSE Answer(c),
                                   !.models = IF Threw(d) THEN {} ELSE Answer(d), !.loading = FALSE], {d}, {})
      BY <2>8 DEF RosterArrives
    <3> DEFINE x == IF Threw(c) THEN [p \in Providers |-> Unset] ELSE Answer(c)
               y == IF Threw(d) THEN {} ELSE Answer(d)
               s == [st EXCEPT !.creds = x, !.models = y, !.loading = FALSE]
               rest == (Requests \ {c}) \ {d}
    <3>2. Takes(c, s, {d}, {})
      BY <3>1
    <3>3. DOMAIN s = DOMAIN st /\ s.creds = x /\ s.models = y /\ s.dialog = st.dialog
      BY <1>1
    <3>4. c.kind = "providers" /\ d.kind = "models" /\ d \in Requests
      BY <2>8, <3>1 DEF RosterArrives, Asking
    <3>5. Alone(calls, "providers", srv["providers"]) => x = srv.providers
      BY <1>1, <1>5, <3>4, CredsAssumption DEF Alone, Threw, Answer, Marks, Requests
    <3>6. Alone(calls, "models", srv["models"]) => y = srv.models
      BY <1>1, <3>1, <3>4, CredsAssumption DEF Alone, Threw, Answer, Marks, Requests
    <3> HIDE DEF s, x, y
    <3>7. Sends(rest, {}) /\ srv' = srv /\ st' = s
      BY <3>2, TakesFacts
    <3>8. Requests' = rest /\ \A o \in rest : calls'[o] = calls[o]
      BY <3>7, NumberedNone DEF Sends, New
    <3>9. ProvidersType'
      BY <1>1, <3>3, <3>7, <3>8 DEF ProvidersType
    <3>10. ProvidersChanged => ProvidersChanged'
      BY <3>4, <3>8 DEF ProvidersChanged, Answered, Answer, Roster
    <3>11. ASSUME NEW k \in Roster, \A j \in Roster : Alone(calls, j, srv[j])
           PROVE  Alone(calls', k, srv[k]) /\ RosterShown(s, k) = srv[k]
      <4>1. "providers" \in Roster /\ "models" \in Roster
        BY DEF Roster
      <4>2. RosterShown(s, k) = srv[k]
        BY <3>3, <3>5, <3>6, <3>11, <4>1 DEF RosterShown, Roster
      <4>3. Alone(calls', k, srv[k])
        BY <3>8, <3>11 DEF Alone, Requests
      <4>4. QED BY <4>2, <4>3
    <3>12. QED BY <3>7, <3>9, <3>10, <3>11 DEF ProvidersCore
  <2>9. QED BY <1>5, <2>5, <2>6, <2>7, <2>8 DEF ProvidersArrive
<1>6. QED BY <1>2, <1>4, <1>5, ProvidersSteps

\* It is so when the page is mounted.
LEMMA ProvidersStart == ProvidersInit => page = "providers" /\ ProvidersCore
<1> SUFFICES ASSUME ProvidersInit PROVE page = "providers" /\ ProvidersCore
  OBVIOUS
<1> DEFINE s == [creds |-> [p \in Providers |-> Unset], models |-> {}, loading |-> TRUE, dialog |-> NoDialog, opened |-> 0]
           records == {[providers |-> [[p \in Providers |-> Unset] EXCEPT !["groq"] = x], models |-> m] :
                         x \in {Unset, "nomodel", "model"}, m \in {{}, {"groq"}}}
           new == Load(Roster)
<1>1. Mounted("providers", s, new, records)
  BY DEF ProvidersInit, Roster
<1>2. DOMAIN s = {"creds", "models", "loading", "dialog", "opened"} /\ DialogType(s.dialog)
  BY DEF DialogType, NoDialog
<1>3. \A r \in records : DOMAIN r = Roster /\ r.providers \in CredTables /\ r.models \in SUBSET Providers
  BY DEF Roster, CredTables, Providers
<1>4. (\A q \in new : q.kind \in Roster /\ q.arg = None) /\ \A k \in Roster : \E q \in new : q.kind = k
  BY LoadFacts
<1> HIDE DEF s, records, new
<1>5. page = "providers" /\ st = s /\ srv \in records /\ \A c \in Requests : c.kind \in Roster
  BY <1>1, <1>4, MountedAlone
<1>6. \A k \in Roster : Alone(calls, k, srv[k]) /\ Sought(calls, k)
  <2>1. ASSUME NEW k \in Roster PROVE Alone(calls, k, srv[k]) /\ Sought(calls, k)
    <3>1. \A q, r \in new : q.kind = k /\ r.kind = k => q.arg = r.arg
      BY <1>4
    <3>2. QED BY <1>1, <1>4, <3>1, MountedAlone
  <2>2. QED BY <2>1
<1>7. QED BY <1>2, <1>3, <1>5, <1>6 DEF ProvidersCore, ProvidersType

\* Once everything is answered, the page shows what is true.
LEMMA ProvidersEnd == ASSUME ProvidersCore, Settled PROVE ProvidersTrue
<1>1. \A k \in Roster : RosterShown(st, k) = srv[k]
  BY SettledAlone DEF ProvidersCore, ProvidersChanged, Settled
<1>2. QED BY <1>1 DEF Roster, RosterShown, ProvidersTrue

-----------------------------------------------------------------------------
(* Onboarding *)

\* Whoever is still here and is not being checked has no installation.
OnboardingCore ==
  /\ DOMAIN st = {"at", "checking", "step", "path", "connecting"}
  /\ DOMAIN srv = {"skip", "github"} /\ srv.github \in BOOLEAN
  /\ \A c \in Requests : c.kind \in {"github", "installUrl"}
  /\ Alone(calls, "github", srv.github)
  /\ OnboardingTrue

\* The steps that this page takes while nobody else does anything.
LEMMA OnboardingSteps ==
  ASSUME page = "onboarding", OnboardingCore, Inside
  PROVE  \/ OnboardingClick
         \/ \E c \in Requests : ServeRead(c) \/ InstallUrlServed(c) \/ (Answer(c) # Waiting /\ OnboardingArrive(c))
BY DEF OnboardingCore, Inside, Click, ServeSome, Serve, ArriveSome, Arrive, TimerSome, PosturePages, FilterPages,
       InstallUrlServed, DetailsServe, ReportServe, AgentServe, RegistryServe, SubmitServe, NewItemServe

\* Every step of a calm visit keeps it so.
LEMMA OnboardingCalm ==
  ASSUME page = "onboarding", VisitType, OnboardingCore, Inside
  PROVE  OnboardingCore'
<1>1. DOMAIN st = {"at", "checking", "step", "path", "connecting"} /\ DOMAIN srv = {"skip", "github"} /\ srv.github \in BOOLEAN
  BY DEF OnboardingCore
<1>2. ASSUME NEW r, DOMAIN r = DOMAIN srv, r.github = srv.github, srv' = r, DOMAIN st' = DOMAIN st, OnboardingTrue',
             Alone(calls', "github", srv.github), \A c \in Requests' : c.kind \in {"github", "installUrl"}
      PROVE  OnboardingCore'
  BY <1>2 DEF OnboardingCore
<1>3. CASE OnboardingClick
  <2>1. Here /\ ~st.checking /\ ~srv.github
    BY <1>3 DEF OnboardingClick, OnboardingCore, OnboardingTrue
  <2>2. ASSUME NEW s, NEW new, DOMAIN s = DOMAIN st,
               \A r \in new : r.kind = "installUrl", \/ Acts(s, {}, new) \/ ActsOn([srv EXCEPT !.skip = TRUE], s, new)
        PROVE  OnboardingCore'
    <3>1. DOMAIN [srv EXCEPT !.skip = TRUE] = DOMAIN srv /\ [srv EXCEPT !.skip = TRUE].github = srv.github
      BY <1>1
    <3> DEFINE r == [srv EXCEPT !.skip = TRUE]
    <3> HIDE DEF r
    <3>2. st' = s /\ srv' \in {srv, r} /\ Only(Requests, new) /\ Alone(calls', "github", srv.github)
      BY <2>2, ActsAlone, ActsOnAlone DEF OnboardingCore, r
    <3>3. \A c \in Requests' : c.kind \in {"github", "installUrl"}
      BY <2>2, <3>2 DEF Only, OnboardingCore
    <3>4. DOMAIN r = DOMAIN srv /\ r.github = srv.github
      BY <3>1 DEF r
    <3>5. OnboardingTrue'
      BY <2>1, <3>2, <3>4 DEF OnboardingTrue
    <3>6. QED BY <1>2, <2>2, <3>2, <3>3, <3>4, <3>5
  <2>3. /\ \A r \in Load({"installUrl"}) : r.kind = "installUrl"
        /\ \A a : DOMAIN [st EXCEPT !.at = a] = DOMAIN st
        /\ \A a, b : DOMAIN [st EXCEPT !.path = a, !.step = b] = DOMAIN st
        /\ \A a : DOMAIN [st EXCEPT !.step = a] = DOMAIN st
        /\ DOMAIN [st EXCEPT !.connecting = TRUE] = DOMAIN st
    BY <1>1, LoadFacts
  <2>4. CASE Acts([st EXCEPT !.step = @ - 1], {}, {})
    BY <2>2, <2>3, <2>4
  <2>5. CASE \E p \in Paths : Acts([st EXCEPT !.path = p, !.step = 1], {}, {})
    <3>1. PICK p : Acts([st EXCEPT !.path = p, !.step = 1], {}, {})
      BY <2>5
    <3>2. DOMAIN [st EXCEPT !.path = p, !.step = 1] = DOMAIN st
      BY <2>3
    <3> DEFINE s == [st EXCEPT !.path = p, !.step = 1]
    <3>3. Acts(s, {}, {}) /\ DOMAIN s = DOMAIN st
      BY <3>1, <3>2
    <3> HIDE DEF s
    <3>4. QED BY <2>2, <3>3
  <2>6. CASE Acts([st EXCEPT !.connecting = TRUE], {}, Load({"installUrl"}))
    BY <2>2, <2>3, <2>6
  <2>7. CASE Acts([st EXCEPT !.step = 2], {}, {})
    BY <2>2, <2>3, <2>7
  <2>8. CASE \E d : Finish(d)
    BY <2>2, <2>3, <2>8 DEF Finish
  <2>9. QED BY <1>3, <2>4, <2>5, <2>6, <2>7, <2>8 DEF OnboardingClick
<1>4. ASSUME NEW c \in Requests, ServeRead(c) \/ InstallUrlServed(c)
      PROVE  OnboardingCore'
  <2>1. PICK a : Replies(c, a, srv) /\ (c.kind = "github" => a = srv.github)
    BY <1>1, <1>4 DEF ServeRead, InstallUrlServed
  <2>2. st' = st /\ srv' = srv /\ Requests' = Requests /\ Alone(calls', "github", srv.github)
    BY <2>1, RepliesAlone DEF OnboardingCore
  <2>3. QED BY <1>2, <2>2 DEF OnboardingCore, OnboardingTrue, Here
<1>5. ASSUME NEW c \in Requests, Answer(c) # Waiting, OnboardingArrive(c)
      PROVE  OnboardingCore'
  <2>1. c.kind = "github" => Answer(c) = srv.github
    BY <1>5 DEF OnboardingCore, Alone, Answer, Requests
  <2>2. srv.github # Failed
    BY <1>1, MarksAssumption DEF Marks
  <2>3. PICK s : Takes(c, s, {}, {}) /\ DOMAIN s = DOMAIN st
                 /\ (s.at = "here" /\ ~s.checking => ~srv.github)
    <3>1. CASE OnboardingStatus(c)
      <4>1. DOMAIN [st EXCEPT !.at = "/dashboard"] = DOMAIN st /\ [st EXCEPT !.at = "/dashboard"].at # "here"
        BY <1>1
      <4>2. DOMAIN [st EXCEPT !.checking = FALSE] = DOMAIN st
        BY <1>1
      <4>3. CASE srv.github
        <5>1. Takes(c, [st EXCEPT !.at = "/dashboard"], {}, {})
          BY <1>5, <2>1, <2>2, <3>1, <4>3 DEF OnboardingStatus, Answered
        <5>2. QED BY <4>1, <5>1
      <4>4. CASE ~srv.github
        <5>1. Takes(c, [st EXCEPT !.checking = FALSE], {}, {})
          BY <2>1, <3>1, <4>4 DEF OnboardingStatus
        <5>2. QED BY <4>2, <4>4, <5>1
      <4>5. QED BY <4>3, <4>4
    <3>2. CASE Redirected(c)
      <4>1. DOMAIN [st EXCEPT !.at = "github.com"] = DOMAIN st /\ [st EXCEPT !.at = "github.com"].at # "here"
        BY <1>1
      <4>2. DOMAIN [st EXCEPT !.connecting = FALSE] = DOMAIN st /\ [st EXCEPT !.connecting = FALSE].at = st.at
            /\ [st EXCEPT !.connecting = FALSE].checking = st.checking
        BY <1>1
      <4>3. QED BY <3>2, <4>1, <4>2 DEF Redirected, OnboardingCore, OnboardingTrue, Here
    <3>3. QED BY <1>5, <3>1, <3>2 DEF OnboardingArrive
  <2>4. st' = s /\ srv' = srv /\ Only(Requests \ {c}, {}) /\ Alone(calls', "github", srv.github)
    BY <1>5, <2>3, TakesAlone DEF OnboardingCore
  <2>5. \A o \in Requests' : o.kind \in {"github", "installUrl"}
    BY <2>4 DEF Only, OnboardingCore
  <2>6. OnboardingTrue'
    BY <2>3, <2>4 DEF OnboardingTrue, Here
  <2>7. QED BY <1>2, <2>3, <2>4, <2>5, <2>6
<1>6. QED BY <1>3, <1>4, <1>5, OnboardingSteps

\* It is so when the page is mounted.
LEMMA OnboardingStart == OnboardingInit => page = "onboarding" /\ OnboardingCore
<1> SUFFICES ASSUME OnboardingInit PROVE page = "onboarding" /\ OnboardingCore
  OBVIOUS
<1>1. PICK s, new, records :
        /\ Mounted("onboarding", s, new, records)
        /\ DOMAIN s = {"at", "checking", "step", "path", "connecting"} /\ s.checking
        /\ \A r \in new : r.kind = "github" /\ r.arg = None
        /\ \A r \in records : DOMAIN r = {"skip", "github"} /\ r.github \in BOOLEAN
  BY LoadFacts DEF OnboardingInit
<1>2. /\ page = "onboarding" /\ st = s /\ srv \in records /\ Alone(calls, "github", srv.github)
      /\ \A o \in Requests : \E r \in new : o.kind = r.kind /\ o.arg = r.arg
  <2>1. \A q, r \in new : q.kind = "github" /\ r.kind = "github" => q.arg = r.arg
    BY <1>1
  <2>2. QED BY <1>1, <2>1, MountedAlone
<1>3. QED BY <1>1, <1>2 DEF OnboardingCore, OnboardingTrue

-----------------------------------------------------------------------------
(* The repository picker and the integrations card *)

\* The repositories are on their way or those that the server has.
PickerCore ==
  /\ DOMAIN st = {"at", "status", "got", "query", "connecting", "selected"}
  /\ DOMAIN srv = {"repos"} /\ srv.repos \in Grants
  /\ \A c \in Requests : c.kind \in {"repos", "installUrl"}
  /\ Alone(calls, "repos", srv.repos)
  /\ Sought(calls, "repos") \/ st.got = srv.repos

\* The steps that this page takes while nobody else does anything.
LEMMA PickerSteps ==
  ASSUME page = "picker", PickerCore, Inside
  PROVE  \/ PickerClick
         \/ \E c \in Requests : ServeRead(c) \/ InstallUrlServed(c) \/ (Answer(c) # Waiting /\ PickerArrive(c))
BY DEF PickerCore, Inside, Click, ServeSome, Serve, ArriveSome, Arrive, TimerSome, PosturePages, FilterPages,
       InstallUrlServed, DetailsServe, ReportServe, AgentServe, RegistryServe, SubmitServe, NewItemServe

\* Every step of a calm visit keeps it so.
LEMMA PickerCalm ==
  ASSUME page = "picker", VisitType, PickerCore, Inside
  PROVE  PickerCore'
<1>1. DOMAIN st = {"at", "status", "got", "query", "connecting", "selected"} /\ DOMAIN srv = {"repos"} /\ srv.repos \in Grants
  BY DEF PickerCore
<1>2. CASE PickerClick
  <2>1. PICK s, new : Acts(s, {}, new) /\ DOMAIN s = DOMAIN st /\ s.got = st.got /\ \A r \in new : r.kind = "installUrl"
    <3>1. \A r \in Load({"installUrl"}) : r.kind = "installUrl"
      BY LoadFacts
    <3>2. CASE Acts([st EXCEPT !.connecting = TRUE], {}, Load({"installUrl"}))
      <4> DEFINE s == [st EXCEPT !.connecting = TRUE]
      <4>1. Acts(s, {}, Load({"installUrl"})) /\ DOMAIN s = DOMAIN st /\ s.got = st.got
        BY <1>1, <3>2
      <4> HIDE DEF s
      <4>2. QED BY <4>1, <3>1
    <3>3. CASE \E q : Acts([st EXCEPT !.query = q], {}, {})
      <4>1. PICK q : Acts([st EXCEPT !.query = q], {}, {})
        BY <3>3
      <4> DEFINE s == [st EXCEPT !.query = q]
      <4>2. Acts(s, {}, {}) /\ DOMAIN s = DOMAIN st /\ s.got = st.got
        BY <1>1, <4>1
      <4> HIDE DEF s
      <4>3. QED BY <4>2
    <3>4. CASE \E r : Acts([st EXCEPT !.selected = r], {}, {})
      <4>1. PICK r : Acts([st EXCEPT !.selected = r], {}, {})
        BY <3>4
      <4> DEFINE s == [st EXCEPT !.selected = r]
      <4>2. Acts(s, {}, {}) /\ DOMAIN s = DOMAIN st /\ s.got = st.got
        BY <1>1, <4>1
      <4> HIDE DEF s
      <4>3. QED BY <4>2
    <3>5. QED BY <1>2, <3>2, <3>3, <3>4 DEF PickerClick
  <2>2. /\ st' = s /\ srv' = srv /\ Only(Requests, new)
        /\ Alone(calls', "repos", srv.repos) /\ (Sought(calls', "repos") <=> Sought(calls, "repos"))
    BY <2>1, ActsAlone DEF PickerCore
  <2>3. \A c \in Requests' : c.kind \in {"repos", "installUrl"}
    BY <2>1, <2>2 DEF Only, PickerCore
  <2>4. QED BY <2>1, <2>2, <2>3 DEF PickerCore
<1>3. ASSUME NEW c \in Requests, ServeRead(c) \/ InstallUrlServed(c)
      PROVE  PickerCore'
  <2>1. PICK a : Replies(c, a, srv) /\ (c.kind = "repos" => a = srv.repos)
    BY <1>1, <1>3 DEF ServeRead, InstallUrlServed
  <2>2. /\ st' = st /\ srv' = srv /\ Requests' = Requests
        /\ Alone(calls', "repos", srv.repos) /\ (Sought(calls', "repos") <=> Sought(calls, "repos"))
    BY <2>1, RepliesAlone DEF PickerCore
  <2>3. QED BY <2>2 DEF PickerCore
<1>4. ASSUME NEW c \in Requests, Answer(c) # Waiting, PickerArrive(c)
      PROVE  PickerCore'
  <2>1. c.kind = "repos" => Answer(c) = srv.repos /\ ~Threw(c)
    BY <1>1, <1>4, GrantsAssumption DEF PickerCore, Alone, Answer, Threw, Requests, Marks
  <2>2. PICK s : Takes(c, s, {}, {}) /\ DOMAIN s = DOMAIN st /\ s.got = IF c.kind = "repos" THEN srv.repos ELSE st.got
    <3>1. CASE ReposArrive(c)
      <4>1. Takes(c, [st EXCEPT !.status = "ready", !.got = Answer(c)], {}, {}) /\ c.kind = "repos"
        BY <2>1, <3>1 DEF ReposArrive
      <4> DEFINE s == [st EXCEPT !.status = "ready", !.got = Answer(c)]
      <4>2. Takes(c, s, {}, {}) /\ DOMAIN s = DOMAIN st /\ s.got = srv.repos
        BY <1>1, <2>1, <4>1
      <4> HIDE DEF s
      <4>3. QED BY <4>1, <4>2
    <3>2. CASE Redirected(c)
      <4> DEFINE s == IF Answered(c) THEN [st EXCEPT !.at = "github.com"] ELSE [st EXCEPT !.connecting = FALSE]
      <4>1. Takes(c, s, {}, {}) /\ DOMAIN s = DOMAIN st /\ s.got = st.got /\ c.kind = "installUrl"
        BY <1>1, <3>2 DEF Redirected
      <4> HIDE DEF s
      <4>2. QED BY <4>1
    <3>3. QED BY <1>4, <3>1, <3>2 DEF PickerArrive
  <2>3. /\ st' = s /\ srv' = srv /\ Only(Requests \ {c}, {}) /\ Alone(calls', "repos", srv.repos)
        /\ c.kind # "repos" => (Sought(calls', "repos") <=> Sought(calls, "repos"))
    <3>1. Alone(calls, "repos", srv.repos)
      BY DEF PickerCore
    <3>2. QED BY <1>4, <2>2, <3>1, TakesOnly
  <2>4. \A o \in Requests' : o.kind \in {"repos", "installUrl"}
    BY <2>3 DEF Only, PickerCore
  <2>5. QED BY <2>2, <2>3, <2>4 DEF PickerCore
<1>5. QED BY <1>2, <1>3, <1>4, PickerSteps

\* It is so when the page is mounted.
LEMMA PickerStart == PickerInit => page = "picker" /\ PickerCore
<1> SUFFICES ASSUME PickerInit PROVE page = "picker" /\ PickerCore
  OBVIOUS
<1>1. PICK s, records :
        /\ Mounted("picker", s, Load({"repos"}), records)
        /\ DOMAIN s = {"at", "status", "got", "query", "connecting", "selected"}
        /\ \A r \in records : DOMAIN r = {"repos"} /\ r.repos \in Grants
  BY DEF PickerInit
<1>2. /\ page = "picker" /\ st = s /\ srv \in records /\ Alone(calls, "repos", srv.repos) /\ Sought(calls, "repos")
      /\ \A o \in Requests : o.kind = "repos"
  BY <1>1, MountedOnce
<1>3. QED BY <1>1, <1>2 DEF PickerCore

\* Once everything is answered, the page shows what is true.
LEMMA PickerEnd == ASSUME PickerCore, Settled PROVE PickerTrue
BY SettledAlone DEF PickerCore, PickerTrue

\* The status is on its way or the one that the server has.
CardCore ==
  /\ DOMAIN st = {"at", "status", "connecting", "toast"}
  /\ DOMAIN srv = {"github"} /\ srv.github \in BOOLEAN
  /\ \A c \in Requests : c.kind \in {"github", "installUrl"}
  /\ Alone(calls, "github", srv.github)
  /\ Sought(calls, "github") \/ st.status = srv.github

\* The steps that this page takes while nobody else does anything.
LEMMA CardSteps ==
  ASSUME page = "integrations", CardCore, Inside
  PROVE  \/ CardClick
         \/ \E c \in Requests : ServeRead(c) \/ InstallUrlServed(c) \/ (Answer(c) # Waiting /\ CardArrive(c))
BY DEF CardCore, Inside, Click, ServeSome, Serve, ArriveSome, Arrive, TimerSome, PosturePages, FilterPages,
       InstallUrlServed, DetailsServe, ReportServe, AgentServe, RegistryServe, SubmitServe, NewItemServe

\* Every step of a calm visit keeps it so.
LEMMA CardCalm ==
  ASSUME page = "integrations", VisitType, CardCore, Inside
  PROVE  CardCore'
<1>1. DOMAIN st = {"at", "status", "connecting", "toast"} /\ DOMAIN srv = {"github"} /\ srv.github \in BOOLEAN
  BY DEF CardCore
<1>2. CASE CardClick
  <2> DEFINE s == [st EXCEPT !.connecting = TRUE]
  <2>1. Acts(s, {}, Load({"installUrl"})) /\ DOMAIN s = DOMAIN st /\ s.status = st.status
    BY <1>1, <1>2 DEF CardClick
  <2> HIDE DEF s
  <2>2. \A r \in Load({"installUrl"}) : r.kind = "installUrl"
    BY LoadFacts
  <2>3. /\ st' = s /\ srv' = srv /\ Only(Requests, Load({"installUrl"}))
        /\ Alone(calls', "github", srv.github) /\ (Sought(calls', "github") <=> Sought(calls, "github"))
    BY <2>1, <2>2, ActsAlone DEF CardCore
  <2>4. \A c \in Requests' : c.kind \in {"github", "installUrl"}
    BY <2>2, <2>3 DEF Only, CardCore
  <2>5. QED BY <2>1, <2>3, <2>4 DEF CardCore
<1>3. ASSUME NEW c \in Requests, ServeRead(c) \/ InstallUrlServed(c)
      PROVE  CardCore'
  <2>1. PICK a : Replies(c, a, srv) /\ (c.kind = "github" => a = srv.github)
    BY <1>1, <1>3 DEF ServeRead, InstallUrlServed
  <2>2. /\ st' = st /\ srv' = srv /\ Requests' = Requests
        /\ Alone(calls', "github", srv.github) /\ (Sought(calls', "github") <=> Sought(calls, "github"))
    BY <2>1, RepliesAlone DEF CardCore
  <2>3. QED BY <2>2 DEF CardCore
<1>4. ASSUME NEW c \in Requests, Answer(c) # Waiting, CardArrive(c)
      PROVE  CardCore'
  <2>1. c.kind = "github" => Answer(c) = srv.github /\ ~Threw(c)
    BY <1>1, <1>4, MarksAssumption DEF CardCore, Alone, Answer, Threw, Requests, Marks
  <2>2. PICK s : Takes(c, s, {}, {}) /\ DOMAIN s = DOMAIN st /\ s.status = IF c.kind = "github" THEN srv.github ELSE st.status
    <3>1. \A a : DOMAIN [st EXCEPT !.status = a] = DOMAIN st /\ [st EXCEPT !.status = a].status = a
      BY <1>1
    <3>2. \A a : DOMAIN [st EXCEPT !.at = a] = DOMAIN st /\ [st EXCEPT !.at = a].status = st.status
      BY <1>1
    <3>3. \A a : DOMAIN [st EXCEPT !.connecting = a] = DOMAIN st /\ [st EXCEPT !.connecting = a].status = st.status
      BY <1>1
    <3>4. QED BY <1>4, <2>1, <3>1, <3>2, <3>3 DEF CardArrive, CardStatus, Redirected
  <2>3. /\ st' = s /\ srv' = srv /\ Only(Requests \ {c}, {}) /\ Alone(calls', "github", srv.github)
        /\ c.kind # "github" => (Sought(calls', "github") <=> Sought(calls, "github"))
    <3>1. Alone(calls, "github", srv.github)
      BY DEF CardCore
    <3>2. QED BY <1>4, <2>2, <3>1, TakesOnly
  <2>4. \A o \in Requests' : o.kind \in {"github", "installUrl"}
    BY <2>3 DEF Only, CardCore
  <2>5. QED BY <2>2, <2>3, <2>4 DEF CardCore
<1>5. QED BY <1>2, <1>3, <1>4, CardSteps

\* It is so when the page is mounted.
LEMMA CardStart == CardInit => page = "integrations" /\ CardCore
<1> SUFFICES ASSUME CardInit PROVE page = "integrations" /\ CardCore
  OBVIOUS
<1>1. PICK s, records :
        /\ Mounted("integrations", s, Load({"github"}), records)
        /\ DOMAIN s = {"at", "status", "connecting", "toast"}
        /\ \A r \in records : DOMAIN r = {"github"} /\ r.github \in BOOLEAN
  BY DEF CardInit
<1>2. /\ page = "integrations" /\ st = s /\ srv \in records /\ Alone(calls, "github", srv.github) /\ Sought(calls, "github")
      /\ \A o \in Requests : o.kind = "github"
  BY <1>1, MountedOnce
<1>3. QED BY <1>1, <1>2 DEF CardCore

\* Once everything is answered, the page shows what is true.
LEMMA CardEnd == ASSUME CardCore, Settled PROVE CardTrue
BY SettledAlone DEF CardCore, CardTrue

-----------------------------------------------------------------------------
(* Billing *)

BillingFields == {"subscription", "usage", "payments", "pricing", "archived", "hidden", "showArchived"}
BillingLoads  == {"subscription", "usage", "payments", "pricing"}

\* Whatever happens: tabs agree, or this one is about to be told.
BillingShared ==
  /\ DOMAIN st = BillingFields
  /\ DOMAIN srv = BillingLoads \cup {"archived", "hidden", "writable"}
  /\ \A c \in Requests : c.kind \in BillingLoads \cup {"storage"}
  /\ srv.writable => \/ st.archived = srv.archived /\ st.hidden = srv.hidden
                     \/ Sought(calls, "storage")

\* Each part is on its way or what the server has; the history can be unfolded
\* only where there is something archived.
BillingCore ==
  /\ BillingShared
  /\ ~Sought(calls, "storage")
  /\ \A k \in BillingLoads : Alone(calls, k, srv[k]) /\ srv[k] \notin Marks
  /\ \A k \in BillingLoads : Sought(calls, k) \/ st[k] = srv[k]
  /\ Sought(calls, "payments") => st.payments = NoData /\ ~st.showArchived
  /\ st.showArchived => ArchivedRows # {}

\* The steps that this page takes while nobody else does anything.
LEMMA BillingSteps ==
  ASSUME page = "billing", BillingShared, Inside
  PROVE  BillingClick \/ \E c \in Requests : (ServeRead(c) /\ c.kind \in BillingLoads) \/ (Answer(c) # Waiting /\ BillingArrive(c))
<1>1. \A c \in Requests : c.kind \in BillingLoads \cup {"storage"}
  BY DEF BillingShared
<1>2. \A c : ServeRead(c) /\ c.kind \in BillingLoads \cup {"storage"} => c.kind \in BillingLoads
  BY DEF BillingShared, BillingLoads, ServeRead
<1>3. QED
  BY <1>1, <1>2 DEF BillingLoads, Inside, Click, ServeSome, Serve, ArriveSome, Arrive, TimerSome, PosturePages, FilterPages,
       InstallUrlServed, DetailsServe, ReportServe, AgentServe, RegistryServe, SubmitServe, NewItemServe

\* What a click does to preferences and records.
LEMMA BillingClicks ==
  ASSUME VisitType, BillingShared, BillingClick
  PROVE  \E s, r : /\ \/ ActsOn(r, s, {})
                      \/ Acts(s, {}, {}) /\ r = srv
                   /\ DOMAIN s = BillingFields /\ DOMAIN r = DOMAIN srv /\ r.writable = srv.writable
                   /\ \A k \in BillingLoads : s[k] = st[k] /\ r[k] = srv[k]
                   /\ r.writable => \/ s.archived = r.archived /\ s.hidden = r.hidden
                                    \/ r = srv /\ s.archived = st.archived /\ s.hidden = st.hidden
                   /\ st.payments # NoData
                   /\ (st.showArchived => ArchivedRows # {}) /\ s.showArchived => s.payments \cap s.archived # {}
<1>1. DOMAIN st = BillingFields /\ DOMAIN srv = BillingLoads \cup {"archived", "hidden", "writable"}
  BY DEF BillingShared
<1>2. st.payments # NoData
  BY DEF BillingClick, HasHistory
<1>3. ASSUME NEW s, Prefer(s), DOMAIN s = BillingFields, \A k \in BillingLoads : s[k] = st[k],
             (st.showArchived => ArchivedRows # {}) /\ s.showArchived => s.payments \cap s.archived # {}
      PROVE  \E r : /\ ActsOn(r, s, {})
                    /\ DOMAIN r = DOMAIN srv /\ r.writable = srv.writable
                    /\ \A k \in BillingLoads : r[k] = srv[k]
                    /\ r.writable => s.archived = r.archived /\ s.hidden = r.hidden
  <2> DEFINE r == IF srv.writable THEN [srv EXCEPT !.archived = s.archived, !.hidden = s.hidden] ELSE srv
  <2>1. ActsOn(r, s, {})
    BY <1>3 DEF Prefer
  <2>2. /\ DOMAIN r = DOMAIN srv /\ r.writable = srv.writable
        /\ \A k \in BillingLoads : r[k] = srv[k]
        /\ r.writable => s.archived = r.archived /\ s.hidden = r.hidden
    BY <1>1 DEF BillingLoads
  <2> HIDE DEF r
  <2>3. QED BY <2>1, <2>2
<1> DEFINE a == [st EXCEPT !.hidden = ~@]
           b(p) == [st EXCEPT !.archived = @ \cup {p}]
           d(p) == [st EXCEPT !.archived = @ \ {p}, !.showArchived = @ /\ ArchivedRows # {p}]
           e == [st EXCEPT !.showArchived = ~@]
           f == [st EXCEPT !.archived = {}, !.showArchived = FALSE]
<1>4. CASE Prefer(a)
  <2>1. /\ DOMAIN a = BillingFields /\ \A k \in BillingLoads : a[k] = st[k]
        /\ (st.showArchived => ArchivedRows # {}) /\ a.showArchived => a.payments \cap a.archived # {}
    BY <1>1 DEF BillingFields, BillingLoads, ArchivedRows
  <2> HIDE DEF a
  <2>2. QED BY <1>2, <1>3, <1>4, <2>1
<1>5. ASSUME NEW p, ~st.showArchived, Prefer(b(p))
      PROVE  \E s, r : /\ ActsOn(r, s, {})
                       /\ DOMAIN s = BillingFields /\ DOMAIN r = DOMAIN srv /\ r.writable = srv.writable
                       /\ \A k \in BillingLoads : s[k] = st[k] /\ r[k] = srv[k]
                       /\ r.writable => s.archived = r.archived /\ s.hidden = r.hidden
                       /\ (st.showArchived => ArchivedRows # {}) /\ s.showArchived => s.payments \cap s.archived # {}
  <2> DEFINE s == b(p)
  <2>1. /\ DOMAIN s = BillingFields /\ \A k \in BillingLoads : s[k] = st[k]
        /\ (st.showArchived => ArchivedRows # {}) /\ s.showArchived => s.payments \cap s.archived # {}
    BY <1>1, <1>5 DEF BillingFields, BillingLoads, ArchivedRows
  <2>2. Prefer(s)
    BY <1>5
  <2> HIDE DEF s
  <2>3. QED BY <1>3, <2>1, <2>2
<1>6. ASSUME NEW p \in ArchivedRows, Prefer(d(p))
      PROVE  \E s, r : /\ ActsOn(r, s, {})
                       /\ DOMAIN s = BillingFields /\ DOMAIN r = DOMAIN srv /\ r.writable = srv.writable
                       /\ \A k \in BillingLoads : s[k] = st[k] /\ r[k] = srv[k]
                       /\ r.writable => s.archived = r.archived /\ s.hidden = r.hidden
                       /\ (st.showArchived => ArchivedRows # {}) /\ s.showArchived => s.payments \cap s.archived # {}
  <2> DEFINE s == d(p)
  <2>1. /\ DOMAIN s = BillingFields /\ \A k \in BillingLoads : s[k] = st[k]
        /\ s.archived = st.archived \ {p} /\ s.showArchived = (st.showArchived /\ ArchivedRows # {p})
    BY <1>1 DEF BillingFields, BillingLoads
  <2>2. Prefer(s)
    BY <1>6
  <2> HIDE DEF s
  <2>3. s.payments \cap s.archived = ArchivedRows \ {p}
    BY <2>1 DEF ArchivedRows, BillingLoads
  <2>4. (st.showArchived => ArchivedRows # {}) /\ s.showArchived => s.payments \cap s.archived # {}
    BY <1>6, <2>1, <2>3
  <2>5. QED BY <1>3, <2>1, <2>2, <2>4
<1>7. CASE ArchivedRows # {} /\ Acts(e, {}, {})
  <2>1. /\ DOMAIN e = BillingFields /\ \A k \in BillingLoads : e[k] = st[k]
        /\ e.archived = st.archived /\ e.hidden = st.hidden
        /\ e.payments \cap e.archived # {}
    BY <1>1, <1>7 DEF BillingFields, BillingLoads, ArchivedRows
  <2> HIDE DEF e
  <2>2. QED BY <1>2, <1>7, <2>1
<1>8. CASE Prefer(f)
  <2>1. /\ DOMAIN f = BillingFields /\ \A k \in BillingLoads : f[k] = st[k]
        /\ (st.showArchived => ArchivedRows # {}) /\ f.showArchived => f.payments \cap f.archived # {}
    BY <1>1 DEF BillingFields, BillingLoads, ArchivedRows
  <2> HIDE DEF f
  <2>2. QED BY <1>2, <1>3, <1>8, <2>1
<1>9. \/ Prefer(a)
      \/ \E p : ~st.showArchived /\ Prefer(b(p))
      \/ \E p \in ArchivedRows : Prefer(d(p))
      \/ ArchivedRows # {} /\ Acts(e, {}, {})
      \/ Prefer(f)
  BY DEF BillingClick, Restore
<1> HIDE DEF a, b, d, e, f
<1>10. QED BY <1>2, <1>4, <1>5, <1>6, <1>7, <1>8, <1>9

\* What arrives on the page.
LEMMA BillingArrivals ==
  ASSUME VisitType, BillingShared, NEW c \in Requests, BillingArrive(c)
  PROVE  \E s : /\ Takes(c, s, {}, {}) /\ DOMAIN s = BillingFields
                /\ IF c.kind = "storage" THEN s.archived = srv.archived /\ s.hidden = srv.hidden
                   ELSE /\ c.kind \in BillingLoads /\ s.archived = st.archived /\ s.hidden = st.hidden
                        /\ s.showArchived = st.showArchived
                        /\ \A k \in BillingLoads : s[k] = IF k = c.kind /\ ~Threw(c) THEN Answer(c) ELSE st[k]
<1>1. DOMAIN st = BillingFields
  BY DEF BillingShared
<1>2. CASE BillingLoaded(c)
  <2> DEFINE s == IF Threw(c) THEN st ELSE [st EXCEPT ![c.kind] = Answer(c)]
  <2>1. Takes(c, s, {}, {}) /\ c.kind \in BillingLoads
    BY <1>2 DEF BillingLoaded, BillingLoads
  <2>2. /\ DOMAIN s = BillingFields /\ s.archived = st.archived /\ s.hidden = st.hidden /\ s.showArchived = st.showArchived
        /\ \A k \in BillingLoads : s[k] = IF k = c.kind /\ ~Threw(c) THEN Answer(c) ELSE st[k]
    BY <1>1, <2>1 DEF BillingFields, BillingLoads
  <2>3. c.kind # "storage"
    BY <2>1 DEF BillingLoads
  <2> HIDE DEF s
  <2>4. QED BY <2>1, <2>2, <2>3
<1>3. CASE StorageChanged(c)
  <2> DEFINE s == [st EXCEPT !.archived = srv.archived, !.hidden = srv.hidden]
  <2>1. Takes(c, s, {}, {}) /\ c.kind = "storage"
    BY <1>3 DEF StorageChanged
  <2>2. DOMAIN s = BillingFields /\ s.archived = srv.archived /\ s.hidden = srv.hidden
    BY <1>1 DEF BillingFields
  <2> HIDE DEF s
  <2>3. QED BY <2>1, <2>2
<1>4. QED BY <1>2, <1>3 DEF BillingArrive

\* Other tabs and failures too leave the tabs in agreement.
LEMMA BillingShares ==
  ASSUME page = "billing", VisitType, BillingShared, [Next]_vars
  PROVE  BillingShared'
<1>1. /\ DOMAIN st = BillingFields /\ DOMAIN srv = BillingLoads \cup {"archived", "hidden", "writable"}
      /\ \A c \in Requests : c.kind \in BillingLoads \cup {"storage"}
      /\ srv.writable => \/ st.archived = srv.archived /\ st.hidden = srv.hidden
                         \/ Sought(calls, "storage")
  BY DEF BillingShared
<1>2. ASSUME st' = st, srv' = srv, Requests' = Requests
      PROVE  BillingShared'
    BY <1>1, <1>2 DEF BillingShared, Sought, Requests
<1>3. CASE BillingClick
  <2>1. PICK s, r : /\ \/ ActsOn(r, s, {})
                       \/ Acts(s, {}, {}) /\ r = srv
                    /\ DOMAIN s = BillingFields /\ DOMAIN r = DOMAIN srv /\ r.writable = srv.writable
                    /\ r.writable => \/ s.archived = r.archived /\ s.hidden = r.hidden
                                     \/ r = srv /\ s.archived = st.archived /\ s.hidden = st.hidden
    BY <1>3, BillingClicks
  <2>2. st' = s /\ srv' = r /\ Only(Requests, {})
    BY <2>1, ActsAlone, ActsOnAlone
  <2>3. Requests' = Requests
    <3>1. Requests \ {} = Requests /\ New({}) = {} /\ Requests \cup {} = Requests
      BY NumberedNone DEF New
    <3>2. Sends(Requests, {})
      BY <2>1, <3>1, ActsFacts, ActsOnFacts
    <3>3. QED BY <3>1, <3>2 DEF Sends
  <2>4. QED BY <1>1, <2>1, <2>2, <2>3 DEF BillingShared, Sought, Requests
<1>4. ASSUME NEW c \in Requests, ServeRead(c)
      PROVE  BillingShared'
  <2>1. PICK a : Replies(c, a, srv)
    BY <1>4 DEF ServeRead
  <2>2. st' = st /\ srv' = srv /\ Requests' = Requests
    BY <2>1, RepliesFacts
  <2>3. QED BY <1>2, <2>2
<1>5. ASSUME NEW c \in Requests, BillingArrive(c)
      PROVE  BillingShared'
  <2>1. PICK s : /\ Takes(c, s, {}, {}) /\ DOMAIN s = BillingFields
                 /\ IF c.kind = "storage" THEN s.archived = srv.archived /\ s.hidden = srv.hidden
                    ELSE c.kind \in BillingLoads /\ s.archived = st.archived /\ s.hidden = st.hidden
    BY <1>5, BillingArrivals
  <2>2. st' = s /\ srv' = srv /\ Requests' = Requests \ {c}
    <3>1. New({}) = {} /\ (Requests \ {c}) \ {} = Requests \ {c} /\ (Requests \ {c}) \cup {} = Requests \ {c}
      BY NumberedNone DEF New
    <3>2. st' = s /\ srv' = srv /\ Sends((Requests \ {c}) \ {}, {})
      BY <2>1, TakesFacts
    <3>3. QED BY <3>1, <3>2 DEF Sends
  <2>3. c.kind # "storage" => (Sought(calls', "storage") <=> Sought(calls, "storage"))
    BY <2>2 DEF Sought, Requests
  <2>4. QED BY <1>1, <2>1, <2>2, <2>3 DEF BillingShared
<1>6. CASE FailSome
  BY <1>2, <1>6, FailFacts DEF FailSome
<1>7. CASE BillingElsewhere
  <2> DEFINE records == {[srv EXCEPT !.archived = a] : a \in SUBSET Payments} \cup {[srv EXCEPT !.hidden = ~@]}
  <2>1. OtherTab(records, "storage")
    BY <1>7 DEF BillingElsewhere
  <2>2. \A r \in records : DOMAIN r = DOMAIN srv
    OBVIOUS
  <2> HIDE DEF records
  <2>3. st' = st /\ srv' \in records /\ Requests' = Requests \cup New({Ask("storage", None)})
    BY <2>1, OtherTabFacts
  <2>4. Ask("storage", None).kind = "storage" /\ New({Ask("storage", None)}) = {Request(issued + 1, "storage", None)}
        /\ Request(issued + 1, "storage", None).kind = "storage"
    BY NumberedOne DEF New, Ask
  <2>5. QED BY <1>1, <2>2, <2>3, <2>4 DEF BillingShared, Sought, Requests
<1>8. CASE UNCHANGED vars
  BY <1>2, <1>8 DEF vars, Requests
<1>9. CASE Inside
  BY <1>3, <1>4, <1>5, <1>9, BillingSteps
<1>10. Next => Inside \/ FailSome \/ BillingElsewhere
  BY DEF Next, Inside, Others, PosturePages
<1>11. QED BY <1>6, <1>7, <1>8, <1>9, <1>10

\* Every step of a calm visit keeps it so.
LEMMA BillingCalm ==
  ASSUME page = "billing", VisitType, BillingCore, Inside
  PROVE  BillingCore'
<1>1. /\ BillingShared /\ ~Sought(calls, "storage")
      /\ \A k \in BillingLoads : Alone(calls, k, srv[k]) /\ srv[k] \notin Marks
      /\ \A k \in BillingLoads : Sought(calls, k) \/ st[k] = srv[k]
      /\ Sought(calls, "payments") => st.payments = NoData /\ ~st.showArchived
      /\ st.showArchived => ArchivedRows # {}
  BY DEF BillingCore
<1>2. Inside => [Next]_vars
  BY DEF Inside, Next
<1>3. BillingShared'
  BY <1>1, <1>2, BillingShares
<1>4. "payments" \in BillingLoads /\ "storage" \notin BillingLoads
  BY DEF BillingLoads
<1>5. CASE BillingClick
  <2>1. PICK s, r : /\ \/ ActsOn(r, s, {})
                       \/ Acts(s, {}, {}) /\ r = srv
                    /\ \A k \in BillingLoads : s[k] = st[k] /\ r[k] = srv[k]
                    /\ st.payments # NoData
                    /\ (st.showArchived => ArchivedRows # {}) /\ s.showArchived => s.payments \cap s.archived # {}
    BY <1>1, <1>5, BillingClicks
  <2>2. st' = s /\ srv' = r /\ Only(Requests, {})
        /\ \A k, v : Alone(calls, k, v) => Alone(calls', k, v) /\ (Sought(calls', k) <=> Sought(calls, k))
    BY <2>1, ActsAlone, ActsOnAlone
  <2>3. ~Sought(calls', "storage")
    BY <1>1, <2>2 DEF Only, Sought, Requests
  <2>4. \A k \in BillingLoads : Alone(calls', k, srv'[k]) /\ srv'[k] \notin Marks /\ (Sought(calls', k) \/ st'[k] = srv'[k])
    BY <1>1, <2>1, <2>2
  <2>5. ~Sought(calls', "payments")
    BY <1>1, <1>4, <2>1, <2>2
  <2>6. QED BY <1>1, <1>3, <2>1, <2>2, <2>3, <2>4, <2>5 DEF BillingCore, ArchivedRows
<1>6. ASSUME NEW c \in Requests, ServeRead(c), c.kind \in BillingLoads
      PROVE  BillingCore'
  <2>1. Replies(c, srv[c.kind], srv)
    BY <1>6 DEF ServeRead
  <2>2. st' = st /\ srv' = srv /\ Requests' = Requests
        /\ \A k, v : Alone(calls, k, v) /\ (c.kind = k => srv[c.kind] = v) => Alone(calls', k, v) /\ (Sought(calls', k) <=> Sought(calls, k))
    BY <2>1, RepliesAlone
  <2>3. \A k : Sought(calls', k) <=> Sought(calls, k)
    BY <2>2 DEF Sought, Requests
  <2>4. \A k \in BillingLoads : Alone(calls', k, srv[k])
    BY <1>1, <2>2
  <2>5. QED BY <1>1, <1>3, <2>2, <2>3, <2>4 DEF BillingCore, ArchivedRows
<1>7. ASSUME NEW c \in Requests, Answer(c) # Waiting, BillingArrive(c)
      PROVE  BillingCore'
  <2>1. PICK s : /\ Takes(c, s, {}, {}) /\ DOMAIN s = BillingFields
                 /\ IF c.kind = "storage" THEN s.archived = srv.archived /\ s.hidden = srv.hidden
                    ELSE /\ c.kind \in BillingLoads /\ s.archived = st.archived /\ s.hidden = st.hidden
                         /\ s.showArchived = st.showArchived
                         /\ \A k \in BillingLoads : s[k] = IF k = c.kind /\ ~Threw(c) THEN Answer(c) ELSE st[k]
    BY <1>1, <1>7, BillingArrivals
  <2>2. c.kind # "storage"
    BY <1>1 DEF Sought, Requests
  <2>3. /\ st' = s /\ srv' = srv /\ Only(Requests \ {c}, {})
        /\ \A k, v : Alone(calls, k, v) =>
             /\ Alone(calls', k, v)
             /\ c.kind # k => (Sought(calls', k) <=> Sought(calls, k))
             /\ c.kind = k => ~Sought(calls', k) /\ Answer(c) = v
    <3>1. \A k : \A q \in {} : q.kind # k
      OBVIOUS
    <3>2. Takes(c, s, {}, {})
      BY <2>1
    <3>3. QED BY <1>7, <3>1, <3>2, TakesAlone
  <2>4. Answer(c) = srv[c.kind] /\ ~Threw(c)
    BY <1>1, <2>1, <2>2, <2>3 DEF Threw, Marks
  <2>5. ~Sought(calls', "storage")
    BY <1>1, <2>3 DEF Only, Sought, Requests
  <2>6. \A k \in BillingLoads : Alone(calls', k, srv[k]) /\ (Sought(calls', k) \/ s[k] = srv[k])
    BY <1>1, <2>1, <2>2, <2>3, <2>4
  <2>7. Sought(calls', "payments") => c.kind # "payments" /\ Sought(calls, "payments")
    BY <1>1, <1>4, <2>3
  <2>8. st.showArchived => s.payments = st.payments
    BY <1>1, <1>4, <2>1, <2>2, <2>4
  <2>9. QED BY <1>1, <1>3, <1>4, <2>1, <2>2, <2>3, <2>5, <2>6, <2>7, <2>8 DEF BillingCore, ArchivedRows
<1>8. QED BY <1>1, <1>5, <1>6, <1>7, BillingSteps

\* It is so when the page is mounted.
LEMMA BillingStart == BillingInit => page = "billing" /\ BillingCore
<1> SUFFICES ASSUME BillingInit PROVE page = "billing" /\ BillingCore
  OBVIOUS
<1>1. PICK s, r :
        /\ Mounted("billing", s, Load(BillingLoads), {r})
        /\ DOMAIN s = BillingFields /\ s.archived = r.archived /\ s.hidden = r.hidden /\ s.payments = NoData /\ ~s.showArchived
        /\ DOMAIN r = BillingLoads \cup {"archived", "hidden", "writable"}
        /\ \A k \in BillingLoads : r[k] \notin Marks
  <2>1. PICK writable \in BOOLEAN, hid \in BOOLEAN, put \in SUBSET {"p1"}, p \in Plans, pay \in {{}, Payments} :
     Mounted("billing",
               [subscription |-> NoData, usage |-> NoData, payments |-> NoData, pricing |-> NoData,
                archived |-> put, hidden |-> hid, showArchived |-> FALSE],
               Load({"subscription", "usage", "payments", "pricing"}),
               {[subscription |-> p, usage |-> "used", payments |-> pay, pricing |-> "INR",
                 archived |-> put, hidden |-> hid, writable |-> writable]})
    BY DEF BillingInit
  <2> DEFINE s == [subscription |-> NoData, usage |-> NoData, payments |-> NoData, pricing |-> NoData,
                archived |-> put, hidden |-> hid, showArchived |-> FALSE]
             r == [subscription |-> p, usage |-> "used", payments |-> pay, pricing |-> "INR",
                 archived |-> put, hidden |-> hid, writable |-> writable]
  <2>2. DOMAIN s = BillingFields /\ s.archived = r.archived /\ s.hidden = r.hidden /\ s.payments = NoData /\ ~s.showArchived
    BY DEF BillingFields
  <2>3. DOMAIN r = BillingLoads \cup {"archived", "hidden", "writable"}
    BY DEF BillingLoads
  <2>4. \A k \in BillingLoads : r[k] \notin Marks
    <3>1. p \notin Marks /\ "used" \notin Marks /\ pay \notin Marks /\ "INR" \notin Marks
      BY PlansAssumption, MarksAssumption
    <3>2. r.subscription = p /\ r.usage = "used" /\ r.payments = pay /\ r.pricing = "INR"
      OBVIOUS
    <3> HIDE DEF r
    <3>3. QED BY <3>1, <3>2 DEF BillingLoads
  <2>5. Mounted("billing", s, Load(BillingLoads), {r})
    BY <2>1 DEF BillingLoads
  <2> HIDE DEF s, r
  <2>6. QED BY <2>2, <2>3, <2>4, <2>5
<1> DEFINE new == Load(BillingLoads)
           records == {r}
<1>2. (\A q \in new : q.kind \in BillingLoads /\ q.arg = None) /\ \A k \in BillingLoads : \E q \in new : q.kind = k
  BY LoadFacts
<1>3. Mounted("billing", s, new, records) /\ (srv \in records => srv = r)
  BY <1>1
<1> HIDE DEF new, records
<1>4. page = "billing" /\ st = s /\ srv = r /\ \A o \in Requests : \E q \in new : o.kind = q.kind /\ o.arg = q.arg
  BY <1>3, MountedAlone
<1>5. \A k \in BillingLoads : \A v : Alone(calls, k, v) /\ Sought(calls, k)
  <2>1. ASSUME NEW k \in BillingLoads, NEW v PROVE Alone(calls, k, v) /\ Sought(calls, k)
    <3>1. \A q, p \in new : q.kind = k /\ p.kind = k => q.arg = p.arg
      BY <1>2
    <3>2. \E q \in new : q.kind = k
      BY <1>2
    <3>3. Alone(calls, k, v) /\ \A q \in new : q.kind = k => Sought(calls, k)
      BY <1>3, <3>1, MountedAlone
    <3>4. QED BY <3>2, <3>3
  <2>2. QED BY <2>1
<1>6. \A o \in Requests : o.kind \in BillingLoads
  BY <1>2, <1>4
<1>7. ~Sought(calls, "storage")
  BY <1>6 DEF Sought, BillingLoads, Requests
<1>8. BillingShared
  BY <1>1, <1>4, <1>6 DEF BillingShared
<1>9. QED BY <1>1, <1>4, <1>5, <1>7, <1>8 DEF BillingCore

\* Once everything is answered, the page shows what is true.
LEMMA BillingEnd == ASSUME BillingCore, Settled PROVE BillingTrue
<1>1. \A k \in BillingLoads : st[k] = srv[k]
  BY SettledAlone DEF BillingCore
<1>2. st.subscription = srv.subscription /\ st.usage = srv.usage /\ st.payments = srv.payments /\ st.pricing = srv.pricing
  BY <1>1 DEF BillingLoads
<1>3. QED BY <1>2 DEF BillingCore, BillingTrue

LEMMA BillingAgrees == ASSUME BillingShared, Settled PROVE TabsAgree
BY SettledAlone DEF BillingShared, TabsAgree

-----------------------------------------------------------------------------
(* Pricing *)

OrderStates == {"none", "created", "captured", "granted"}

\* What is asked for, and what it may be answered with.
PricingAsked(c, a) ==
  /\ c.kind \in {"pricing", "checkout", "script", "verify"}
  /\ c.kind = "checkout" => a \in Orders \cup {Waiting}
  /\ c.kind \in {"script", "verify"} => c.arg.order \in Orders
  /\ c.kind = "verify" => a \in {Waiting, "active"}

\* Whoever has paid has asked for the plan, and nobody else is told of one.
PricingPaid(f, orders, told) ==
  /\ \A o \in Orders : orders[o] = "captured" =>
       \E c \in DOMAIN f : c.kind = "verify" /\ c.arg.order = o /\ f[c] = Waiting
  /\ ("active" \in told \/ \E c \in DOMAIN f : c.kind = "verify" /\ f[c] = "active") =>
       \E o \in Orders : orders[o] \in {"captured", "granted"}

\* Prices are on their way or shown; who has paid is about to be granted the
\* plan, and nobody is told of a plan who has not.
PricingCore ==
  /\ DOMAIN st = {"at", "annual", "pricing", "loading", "script", "modals", "told"}
  /\ DOMAIN srv = {"pricing", "session", "orders"} /\ srv.pricing = "INR" /\ srv.orders \in [Orders -> OrderStates]
  /\ \A c \in Requests : PricingAsked(c, calls[c])
  /\ Alone(calls, "pricing", "INR")
  /\ Sought(calls, "pricing") \/ st.pricing = "INR"
  /\ \A m \in st.modals : m.order \in Orders
  /\ PricingPaid(calls, srv.orders, st.told)

\* The steps that this page takes while nobody else does anything.
LEMMA PricingSteps ==
  ASSUME page = "pricing", PricingCore, Inside
  PROVE  \/ PricingClick
         \/ \E c \in Requests : ServeRead(c) \/ PricingServe(c) \/ (Answer(c) # Waiting /\ PricingArrive(c))
<1>1. \A c \in Requests : c.kind \in {"pricing", "checkout", "script", "verify"}
  BY DEF PricingCore, PricingAsked
<1>2. QED
  BY <1>1 DEF Inside, Click, ServeSome, Serve, ArriveSome, Arrive, TimerSome, PosturePages, FilterPages,
       InstallUrlServed, DetailsServe, ReportServe, AgentServe, RegistryServe, SubmitServe, NewItemServe

\* The requests after some were kept and some sent.
LEMMA PricingSent ==
  ASSUME VisitType, PricingCore, NEW kept \in SUBSET Requests, NEW new, Sends(kept, new),
         \A r \in new : r.kind \in {"checkout", "script", "verify"} /\ (r.kind # "checkout" => r.arg.order \in Orders)
  PROVE  /\ \A c \in Requests' : PricingAsked(c, calls'[c])
         /\ \A c \in kept : c \in DOMAIN calls' /\ calls'[c] = calls[c]
         /\ \A c \in DOMAIN calls' : calls'[c] = Waiting \/ (c \in kept /\ calls'[c] = calls[c])
<1>1. /\ \A c \in New(new) : \E r \in new : c.kind = r.kind /\ c.arg = r.arg
      /\ DOMAIN calls' = kept \cup New(new) /\ Requests' = kept \cup New(new)
      /\ \A c \in kept : calls'[c] = calls[c]
      /\ \A c \in New(new) : calls'[c] = Waiting
  BY NewFacts DEF Sends, Requests
<1>2. \A c \in New(new) : PricingAsked(c, Waiting)
  BY <1>1 DEF PricingAsked
<1>3. QED BY <1>1, <1>2 DEF PricingCore

\* Every step of a calm visit keeps it so.
LEMMA PricingCalm ==
  ASSUME page = "pricing", VisitType, PricingCore, Inside
  PROVE  PricingCore'
<1>1. /\ DOMAIN st = {"at", "annual", "pricing", "loading", "script", "modals", "told"}
      /\ DOMAIN srv = {"pricing", "session", "orders"} /\ srv.pricing = "INR" /\ srv.orders \in [Orders -> OrderStates]
      /\ \A c \in Requests : PricingAsked(c, calls[c])
      /\ Alone(calls, "pricing", "INR")
      /\ Sought(calls, "pricing") \/ st.pricing = "INR"
      /\ \A m \in st.modals : m.order \in Orders
      /\ PricingPaid(calls, srv.orders, st.told)
  BY DEF PricingCore
<1>2. ASSUME NEW s, NEW new, Acts(s, {}, new), DOMAIN s = DOMAIN st, s.pricing = st.pricing, s.told = st.told,
             s.modals \subseteq st.modals, \A r \in new : r.kind = "checkout"
      PROVE  PricingCore'
  <2>1. Requests \ {} = Requests /\ Requests \in SUBSET Requests /\ DOMAIN calls = Requests
    BY DEF Requests
  <2>2. st' = s /\ srv' = srv /\ Sends(Requests, new)
    BY <1>2, <2>1, ActsFacts
  <2>3. /\ Alone(calls', "pricing", "INR") /\ (Sought(calls', "pricing") <=> Sought(calls, "pricing"))
    BY <1>1, <1>2, ActsAlone
  <2>4. /\ \A c \in Requests' : PricingAsked(c, calls'[c])
        /\ \A c \in Requests : c \in DOMAIN calls' /\ calls'[c] = calls[c]
        /\ \A c \in DOMAIN calls' : calls'[c] = Waiting \/ (c \in Requests /\ calls'[c] = calls[c])
    BY <1>2, <2>1, <2>2, PricingSent
  <2>5. Waiting # "active"
    BY PlansAssumption DEF Marks
  <2>6. PricingPaid(calls', srv.orders, st.told)
    BY <1>1, <2>1, <2>4, <2>5 DEF PricingPaid
  <2>7. QED BY <1>1, <1>2, <2>2, <2>3, <2>4, <2>6 DEF PricingCore
<1>3. CASE PricingClick
  <2>1. ASSUME NEW m \in st.modals, Pay(m)
        PROVE  PricingCore'
    <3> DEFINE r == [srv EXCEPT !.orders[m.order] = "captured"]
               s == [st EXCEPT !.modals = @ \ {m}]
               new == {Ask("verify", m)}
    <3>1. ActsOn(r, s, new)
      BY <2>1 DEF Pay
    <3>2. /\ DOMAIN r = DOMAIN srv /\ r.pricing = "INR"
          /\ m.order \in Orders /\ r.orders = [srv.orders EXCEPT ![m.order] = "captured"]
      BY <1>1
    <3>3. DOMAIN s = DOMAIN st /\ s.pricing = st.pricing /\ s.told = st.told /\ s.modals \subseteq st.modals
      BY <1>1
    <3>4. (\A q \in new : q.kind = "verify" /\ q.arg = m) /\ \E q \in new : q.kind = "verify"
      BY DEF Ask
    <3>5. [id |-> issued + 1, kind |-> "verify", arg |-> m] \in New(new)
      BY DEF New, Numbered, Ask
    <3> HIDE DEF r, s, new
    <3>6. st' = s /\ srv' = r /\ Sends(Requests, new) /\ DOMAIN calls = Requests
      BY <3>1, ActsOnFacts DEF Requests
    <3>7. Alone(calls', "pricing", "INR") /\ (Sought(calls', "pricing") <=> Sought(calls, "pricing"))
      BY <1>1, <3>1, <3>4, ActsOnAlone
    <3>8. /\ \A c \in Requests' : PricingAsked(c, calls'[c])
          /\ \A c \in Requests : c \in DOMAIN calls' /\ calls'[c] = calls[c]
          /\ \A c \in DOMAIN calls' : calls'[c] = Waiting \/ (c \in Requests /\ calls'[c] = calls[c])
      BY <3>2, <3>4, <3>6, PricingSent
    <3>9. \E c \in DOMAIN calls' : c.kind = "verify" /\ c.arg.order = m.order /\ calls'[c] = Waiting
      <4> DEFINE c == [id |-> issued + 1, kind |-> "verify", arg |-> m]
      <4>1. c \in DOMAIN calls' /\ calls'[c] = Waiting /\ c.kind = "verify" /\ c.arg = m
        BY <3>5, <3>6 DEF Sends, Requests
      <4> HIDE DEF c
      <4>2. QED BY <4>1
    <3>10. /\ r.orders \in [Orders -> OrderStates] /\ r.orders[m.order] = "captured"
           /\ \A o \in Orders \ {m.order} : r.orders[o] = srv.orders[o]
      BY <1>1, <3>2 DEF OrderStates
    <3>11. PricingPaid(calls', r.orders, st.told)
      BY <1>1, <3>2, <3>6, <3>8, <3>9, <3>10 DEF PricingPaid
    <3>12. QED BY <1>1, <3>2, <3>3, <3>6, <3>7, <3>8, <3>10, <3>11 DEF PricingCore
  <2>2. ASSUME NEW t, ChooseTier(t)
        PROVE  PricingCore'
    <3>1. \A a : \A q \in {Ask("checkout", a)} : q.kind = "checkout"
      BY DEF Ask
    <3>2. \A q \in {} : q.kind = "checkout"
      OBVIOUS
    <3> DEFINE x == [st EXCEPT !.at = "/login?next=/pricing"]
               y == [st EXCEPT !.loading = t]
    <3>3. Acts(x, {}, {}) \/ \E a : Acts(y, {}, {Ask("checkout", a)})
      BY <2>2 DEF ChooseTier
    <3>4. /\ DOMAIN x = DOMAIN st /\ x.pricing = st.pricing /\ x.told = st.told /\ x.modals = st.modals
          /\ DOMAIN y = DOMAIN st /\ y.pricing = st.pricing /\ y.told = st.told /\ y.modals = st.modals
      BY <1>1
    <3> HIDE DEF x, y
    <3>5. x.modals \subseteq st.modals /\ y.modals \subseteq st.modals
      BY <3>4
    <3>6. CASE Acts(x, {}, {})
      BY <1>2, <3>2, <3>4, <3>5, <3>6
    <3>7. ASSUME NEW a, Acts(y, {}, {Ask("checkout", a)})
          PROVE  PricingCore'
      BY <1>2, <3>1, <3>4, <3>5, <3>7
    <3>8. QED BY <3>3, <3>6, <3>7
  <2>3. ASSUME NEW a, Acts([st EXCEPT !.annual = a], {}, {}) \/ Acts([st EXCEPT !.at = a], {}, {})
        PROVE  PricingCore'
    <3> DEFINE x == [st EXCEPT !.annual = a]
               y == [st EXCEPT !.at = a]
    <3>1. /\ DOMAIN x = DOMAIN st /\ x.pricing = st.pricing /\ x.told = st.told /\ x.modals \subseteq st.modals
          /\ DOMAIN y = DOMAIN st /\ y.pricing = st.pricing /\ y.told = st.told /\ y.modals \subseteq st.modals
      BY <1>1
    <3>2. (\A q \in {} : q.kind = "checkout") /\ (Acts(x, {}, {}) \/ Acts(y, {}, {}))
      BY <2>3
    <3> HIDE DEF x, y
    <3>3. QED BY <1>2, <3>1, <3>2
  <2>4. ASSUME NEW m, Acts([st EXCEPT !.modals = @ \ {m}], {}, {})
        PROVE  PricingCore'
    <3> DEFINE x == [st EXCEPT !.modals = @ \ {m}]
    <3>1. DOMAIN x = DOMAIN st /\ x.pricing = st.pricing /\ x.told = st.told /\ x.modals \subseteq st.modals
      BY <1>1
    <3>2. (\A q \in {} : q.kind = "checkout") /\ Acts(x, {}, {})
      BY <2>4
    <3> HIDE DEF x
    <3>3. QED BY <1>2, <3>1, <3>2
  <2>5. QED BY <1>3, <2>1, <2>2, <2>3, <2>4 DEF PricingClick
<1>4. ASSUME NEW c \in Requests, NEW a, NEW r, Replies(c, a, r), DOMAIN r = DOMAIN srv, r.pricing = "INR",
             r.orders \in [Orders -> OrderStates], c.kind = "pricing" => a = "INR", PricingAsked(c, a),
             \A o \in Orders : r.orders[o] = "captured" => srv.orders[o] = "captured" /\ ~(c.kind = "verify" /\ c.arg.order = o),
             \A o \in Orders : srv.orders[o] \in {"captured", "granted"} => r.orders[o] \in {"captured", "granted"},
             c.kind = "verify" => \E o \in Orders : r.orders[o] \in {"captured", "granted"}
      PROVE  PricingCore'
  <2>1. /\ st' = st /\ srv' = r /\ Requests' = Requests /\ DOMAIN calls' = DOMAIN calls
        /\ calls'[c] = a /\ \A o \in Requests \ {c} : calls'[o] = calls[o]
    BY <1>4, RepliesFacts DEF Requests
  <2>2. Alone(calls', "pricing", "INR") /\ (Sought(calls', "pricing") <=> Sought(calls, "pricing"))
    BY <1>1, <1>4, RepliesAlone
  <2>3. \A o \in Requests' : PricingAsked(o, calls'[o])
    BY <1>1, <1>4, <2>1
  <2>4. PricingPaid(calls', r.orders, st.told)
    <3>1. ASSUME NEW o \in Orders, r.orders[o] = "captured"
          PROVE  \E d \in DOMAIN calls' : d.kind = "verify" /\ d.arg.order = o /\ calls'[d] = Waiting
      <4>1. PICK d \in DOMAIN calls : d.kind = "verify" /\ d.arg.order = o /\ calls[d] = Waiting
        BY <1>1, <1>4, <3>1 DEF PricingPaid
      <4>2. d # c
        BY <1>4, <3>1, <4>1
      <4>3. QED BY <2>1, <4>1, <4>2 DEF Requests
    <3>2. ASSUME "active" \in st.told \/ \E d \in DOMAIN calls' : d.kind = "verify" /\ calls'[d] = "active"
          PROVE  \E o \in Orders : r.orders[o] \in {"captured", "granted"}
      <4>1. CASE "active" \in st.told \/ \E d \in DOMAIN calls : d.kind = "verify" /\ calls[d] = "active"
        BY <1>1, <1>4, <4>1 DEF PricingPaid
      <4>2. CASE c.kind = "verify"
        BY <1>4, <4>2
      <4>3. QED BY <2>1, <3>2, <4>1, <4>2 DEF Requests
    <3>3. QED BY <3>1, <3>2 DEF PricingPaid
  <2>5. QED BY <1>1, <1>4, <2>1, <2>2, <2>3, <2>4 DEF PricingCore
<1>5. ASSUME NEW c \in Requests, ServeRead(c) \/ PricingServe(c)
      PROVE  PricingCore'
  <2>1. c.kind \in {"pricing", "checkout", "script", "verify"} /\ PricingAsked(c, calls[c])
    BY <1>1 DEF PricingAsked
  <2>2. CASE ServeRead(c) \/ (c.kind = "script" /\ Replies(c, "loaded", srv))
    <3>1. \E a : Replies(c, a, srv) /\ (c.kind = "pricing" => a = "INR") /\ c.kind \in {"pricing", "script"}
      BY <1>1, <2>1, <2>2 DEF ServeRead
    <3>2. PICK a : Replies(c, a, srv) /\ (c.kind = "pricing" => a = "INR") /\ c.kind \in {"pricing", "script"} /\ PricingAsked(c, a)
      BY <2>1, <3>1 DEF PricingAsked
    <3>3. QED BY <1>1, <1>4, <3>2
  <2>3. ASSUME c.kind = "checkout", NEW o \in Orders, srv.orders[o] = "none", Replies(c, o, [srv EXCEPT !.orders[o] = "created"])
        PROVE  PricingCore'
    <3> DEFINE r == [srv EXCEPT !.orders[o] = "created"]
    <3>1. DOMAIN r = DOMAIN srv /\ r.pricing = "INR" /\ r.orders = [srv.orders EXCEPT ![o] = "created"]
      BY <1>1
    <3>2. Replies(c, o, r)
      BY <2>3
    <3> HIDE DEF r
    <3>3. /\ r.orders \in [Orders -> OrderStates] /\ r.orders[o] = "created"
          /\ \A p \in Orders \ {o} : r.orders[p] = srv.orders[p]
      BY <1>1, <3>1 DEF OrderStates
    <3>4. PricingAsked(c, o)
      BY <2>1, <2>3 DEF PricingAsked
    <3>5. /\ \A p \in Orders : r.orders[p] = "captured" => srv.orders[p] = "captured" /\ ~(c.kind = "verify" /\ c.arg.order = p)
          /\ \A p \in Orders : srv.orders[p] \in {"captured", "granted"} => r.orders[p] \in {"captured", "granted"}
      BY <2>3, <3>3
    <3>6. QED BY <1>4, <2>3, <3>1, <3>2, <3>3, <3>4, <3>5
  <2>4. CASE c.kind = "verify" /\ Replies(c, "active", [srv EXCEPT !.orders[c.arg.order] = "granted"])
    <3> DEFINE o == c.arg.order
               r == [srv EXCEPT !.orders[o] = "granted"]
    <3>1. DOMAIN r = DOMAIN srv /\ r.pricing = "INR" /\ r.orders = [srv.orders EXCEPT ![o] = "granted"]
      BY <1>1
    <3>2. Replies(c, "active", r) /\ o \in Orders /\ PricingAsked(c, "active")
      BY <2>1, <2>4 DEF PricingAsked
    <3> HIDE DEF r
    <3>3. /\ r.orders \in [Orders -> OrderStates] /\ r.orders[o] = "granted"
          /\ \A p \in Orders \ {o} : r.orders[p] = srv.orders[p]
      BY <1>1, <3>1, <3>2 DEF OrderStates
    <3>4. /\ \A p \in Orders : r.orders[p] = "captured" => srv.orders[p] = "captured" /\ ~(c.kind = "verify" /\ o = p)
          /\ \A p \in Orders : srv.orders[p] \in {"captured", "granted"} => r.orders[p] \in {"captured", "granted"}
          /\ \E p \in Orders : r.orders[p] \in {"captured", "granted"}
      BY <3>2, <3>3
    <3>5. QED BY <1>4, <2>4, <3>1, <3>2, <3>3, <3>4
  <2>5. QED BY <1>5, <2>2, <2>3, <2>4 DEF PricingServe
<1>6. ASSUME NEW c \in Requests, Answer(c) # Waiting, PricingArrive(c)
      PROVE  PricingCore'
  <2> DEFINE kept == Requests \ {c}
  <2>1. ASSUME NEW s, NEW new, Takes(c, s, {}, new), DOMAIN s = DOMAIN st, \A m \in s.modals : m.order \in Orders,
               IF c.kind = "pricing" THEN s.pricing = "INR" ELSE s.pricing = st.pricing,
               "active" \in s.told => "active" \in st.told \/ (c.kind = "verify" /\ calls[c] = "active"),
               \A r \in new : r.kind = "script" /\ r.arg.order \in Orders
        PROVE  PricingCore'
    <3>1. (Requests \ {c}) \ {} = kept /\ kept \in SUBSET Requests /\ DOMAIN calls = Requests
      BY DEF Requests
    <3>2. st' = s /\ srv' = srv /\ Sends(kept, new)
      BY <2>1, <3>1, TakesFacts
    <3>3. /\ Alone(calls', "pricing", "INR")
          /\ c.kind # "pricing" => (Sought(calls', "pricing") <=> Sought(calls, "pricing"))
          /\ c.kind = "pricing" => ~Sought(calls', "pricing")
      <4>1. \A r \in new : r.kind # "pricing"
        BY <2>1
      <4>2. QED BY <1>1, <1>6, <2>1, <4>1, TakesAlone
    <3>4. \A r \in new : r.kind \in {"checkout", "script", "verify"} /\ (r.kind # "checkout" => r.arg.order \in Orders)
      BY <2>1
    <3>5. /\ \A o \in Requests' : PricingAsked(o, calls'[o])
          /\ \A o \in kept : o \in DOMAIN calls' /\ calls'[o] = calls[o]
          /\ \A o \in DOMAIN calls' : calls'[o] = Waiting \/ (o \in kept /\ calls'[o] = calls[o])
      <4> HIDE DEF kept
      <4>1. QED BY <3>1, <3>2, <3>4, PricingSent
    <3>6. Waiting # "active" /\ calls[c] # Waiting
      BY <1>6, PlansAssumption DEF Marks, Answer
    <3>7. PricingPaid(calls', srv.orders, s.told)
      BY <1>1, <2>1, <3>1, <3>5, <3>6 DEF PricingPaid
    <3>8. QED BY <1>1, <2>1, <3>2, <3>3, <3>5, <3>7 DEF PricingCore
  <2>2. ASSUME NEW s, Takes(c, s, {}, {}), DOMAIN s = DOMAIN st, \A m \in s.modals : m.order \in Orders,
               IF c.kind = "pricing" THEN s.pricing = "INR" ELSE s.pricing = st.pricing,
               "active" \in s.told => "active" \in st.told \/ (c.kind = "verify" /\ calls[c] = "active")
        PROVE  PricingCore'
    <3>1. \A r \in {} : r.kind = "script" /\ r.arg.order \in Orders
      OBVIOUS
    <3>2. QED BY <2>1, <2>2, <3>1
  <2>3. CASE PricesArrive(c)
    <3>1. Answer(c) = "INR" /\ ~Threw(c) /\ c.kind = "pricing"
      <4>1. c.kind = "pricing" /\ Answer(c) = "INR"
        BY <1>1, <1>6, <2>3 DEF PricesArrive, Alone, Answer, Requests
      <4>2. QED BY <4>1, PlansAssumption DEF Threw, Marks
    <3> DEFINE s == [st EXCEPT !.pricing = Answer(c)]
    <3>2. Takes(c, s, {}, {}) /\ DOMAIN s = DOMAIN st /\ s.pricing = "INR" /\ s.modals = st.modals /\ s.told = st.told
      BY <1>1, <2>3, <3>1 DEF PricesArrive
    <3> HIDE DEF s
    <3>3. QED BY <1>1, <2>2, <3>1, <3>2
  <2>4. ASSUME NEW o \in Orders, NEW t, NEW x, c.kind # "pricing",
               Takes(c, Opened(o, t), {}, {}) \/ Takes(c, [Opened(o, t) EXCEPT !.script = x], {}, {})
        PROVE  PricingCore'
    <3> DEFINE m == [order |-> o, tier |-> t]
               s == Opened(o, t)
               z == [s EXCEPT !.script = x]
    <3>1. m.order = o
      OBVIOUS
    <3>2. DOMAIN s = DOMAIN st /\ s.pricing = st.pricing /\ s.told = st.told /\ s.modals = st.modals \cup {m}
      BY <1>1 DEF Opened
    <3> HIDE DEF m, s
    <3>3. DOMAIN z = DOMAIN st /\ z.pricing = st.pricing /\ z.told = st.told /\ z.modals = st.modals \cup {m}
      BY <1>1, <3>2
    <3>4. \A n \in st.modals \cup {m} : n.order \in Orders
      BY <1>1, <3>1
    <3>5. Takes(c, s, {}, {}) \/ Takes(c, z, {}, {})
      BY <2>4 DEF s
    <3> HIDE DEF z
    <3>6. QED BY <2>2, <2>4, <3>2, <3>3, <3>4, <3>5
  <2>5. ASSUME NEW x, c.kind # "pricing", Takes(c, NotStarted, {}, {}) \/ Takes(c, [NotStarted EXCEPT !.script = x], {}, {})
        PROVE  PricingCore'
    <3> DEFINE s == NotStarted
               z == [s EXCEPT !.script = x]
    <3>1. DOMAIN s = DOMAIN st /\ s.pricing = st.pricing /\ s.told = st.told \cup {"could not start"} /\ s.modals = st.modals
      BY <1>1 DEF NotStarted
    <3> HIDE DEF s
    <3>2. DOMAIN z = DOMAIN st /\ z.pricing = st.pricing /\ z.told = st.told \cup {"could not start"} /\ z.modals = st.modals
      BY <1>1, <3>1
    <3>3. Takes(c, s, {}, {}) \/ Takes(c, z, {}, {})
      BY <2>5 DEF s
    <3> HIDE DEF z
    <3>4. QED BY <1>1, <2>2, <2>5, <3>1, <3>2, <3>3
  <2>6. CASE CheckoutCreated(c)
    <3>1. c.kind = "checkout" /\ Answer(c) \in Orders
      BY <1>1, <1>6, <2>6 DEF CheckoutCreated, PricingAsked, Answer
    <3>2. CASE Takes(c, NotStarted, {}, {})
      BY <2>5, <3>1, <3>2
    <3>3. CASE Takes(c, Opened(Answer(c), c.arg.tier), {}, {})
      BY <2>4, <3>1, <3>3
    <3>4. CASE Takes(c, [st EXCEPT !.script = "loading"], {}, {Ask("script", [order |-> Answer(c), tier |-> c.arg.tier])})
      <4> DEFINE s == [st EXCEPT !.script = "loading"]
                 new == {Ask("script", [order |-> Answer(c), tier |-> c.arg.tier])}
      <4>1. DOMAIN s = DOMAIN st /\ s.pricing = st.pricing /\ s.told = st.told /\ s.modals = st.modals
        BY <1>1
      <4>2. \A r \in new : r.kind = "script" /\ r.arg.order \in Orders
        BY <3>1 DEF Ask
      <4>3. Takes(c, s, {}, new)
        BY <3>4
      <4> HIDE DEF s, new
      <4>4. QED BY <1>1, <2>1, <3>1, <4>1, <4>2, <4>3
    <3>5. QED BY <2>6, <3>2, <3>3, <3>4 DEF CheckoutCreated
  <2>7. CASE ScriptLoaded(c)
    <3>1. c.kind = "script" /\ c.arg.order \in Orders
      BY <1>1, <2>7 DEF ScriptLoaded, PricingAsked
    <3>2. \/ Takes(c, [NotStarted EXCEPT !.script = "broken"], {}, {})
          \/ Takes(c, [Opened(c.arg.order, c.arg.tier) EXCEPT !.script = "ready"], {}, {})
      BY <2>7 DEF ScriptLoaded
    <3>3. QED BY <2>4, <2>5, <3>1, <3>2
  <2>8. CASE Verified(c)
    <3>1. c.kind = "verify" /\ calls[c] = "active"
      BY <1>1, <1>6, <2>8 DEF Verified, PricingAsked, Answer
    <3>2. PICK x : \/ Takes(c, [st EXCEPT !.told = @ \cup {"contact us"}], {}, {})
                   \/ Takes(c, [st EXCEPT !.told = @ \cup {"active"}, !.at = x], {}, {})
      BY <2>8 DEF Verified
    <3> DEFINE y == [st EXCEPT !.told = @ \cup {"contact us"}]
               z == [st EXCEPT !.told = @ \cup {"active"}, !.at = x]
    <3>3. /\ DOMAIN y = DOMAIN st /\ y.pricing = st.pricing /\ y.modals = st.modals
          /\ DOMAIN z = DOMAIN st /\ z.pricing = st.pricing /\ z.modals = st.modals
      BY <1>1
    <3>4. Takes(c, y, {}, {}) \/ Takes(c, z, {}, {})
      BY <3>2
    <3> HIDE DEF y, z
    <3>5. QED BY <1>1, <2>2, <3>1, <3>3, <3>4
  <2>9. QED BY <1>6, <2>3, <2>6, <2>7, <2>8 DEF PricingArrive
<1>7. QED BY <1>3, <1>5, <1>6, PricingSteps

\* It is so when the page is mounted.
LEMMA PricingStart == PricingInit => page = "pricing" /\ PricingCore
<1> SUFFICES ASSUME PricingInit PROVE page = "pricing" /\ PricingCore
  OBVIOUS
<1> DEFINE s == [at |-> "here", annual |-> TRUE, pricing |-> NoData, loading |-> None,
                 script |-> "absent", modals |-> {}, told |-> {}]
           records == {[pricing |-> "INR", session |-> x, orders |-> [o \in Orders |-> "none"]] : x \in BOOLEAN}
           new == Load({"pricing"})
<1>1. Mounted("pricing", s, new, records)
  BY DEF PricingInit
<1>2. DOMAIN s = {"at", "annual", "pricing", "loading", "script", "modals", "told"} /\ s.modals = {} /\ s.told = {}
  OBVIOUS
<1>3. \A r \in records : /\ DOMAIN r = {"pricing", "session", "orders"} /\ r.pricing = "INR"
                         /\ r.orders \in [Orders -> OrderStates] /\ \A o \in Orders : r.orders[o] # "captured"
  BY DEF OrderStates
<1>4. (\A q \in new : q.kind = "pricing" /\ q.arg = None) /\ \E q \in new : q.kind = "pricing"
  BY LoadFacts
<1> HIDE DEF s, records, new
<1>5. page = "pricing" /\ st = s /\ srv \in records /\ \A c \in Requests : c.kind = "pricing"
  BY <1>1, <1>4, MountedAlone
<1>6. Alone(calls, "pricing", "INR") /\ Sought(calls, "pricing")
  <2>1. \A q, r \in new : q.kind = "pricing" /\ r.kind = "pricing" => q.arg = r.arg
    BY <1>4
  <2>2. QED BY <1>1, <1>4, <2>1, MountedAlone
<1>7. \A c \in Requests : PricingAsked(c, calls[c])
  BY <1>5 DEF PricingAsked
<1>8. PricingPaid(calls, srv.orders, s.told)
  BY <1>2, <1>3, <1>5 DEF PricingPaid, Requests
<1>9. QED BY <1>2, <1>3, <1>5, <1>6, <1>7, <1>8 DEF PricingCore

\* Once everything is answered, the page shows what is true.
LEMMA PricingEnd == ASSUME PricingCore, Settled PROVE PricingTrue
<1>1. /\ st.pricing = "INR" /\ srv.pricing = "INR" /\ PricingPaid(calls, srv.orders, st.told)
      /\ DOMAIN calls = {}
  BY SettledAlone DEF PricingCore, Settled, Requests
<1>2. CardCurrency = srv.pricing
  BY <1>1, PlansAssumption DEF CardCurrency, Marks
<1>3. QED BY <1>1, <1>2 DEF PricingPaid, PricingTrue

-----------------------------------------------------------------------------
(* The dashboard *)

DashboardFields == {"scans", "summaries", "error", "github", "usage"}
DashboardRecords(h, on, u) ==
  [scans |-> [n \in DOMAIN h |-> h[n].scan], findings |-> [n \in DOMAIN h |-> h[n].findings],
   stages |-> [n \in DOMAIN h |-> h[n].stages], github |-> on, usage |-> u]

\* What the server has of each scan.
Paired == [n \in DOMAIN srv.scans |-> [scan |-> srv.scans[n], findings |-> srv.findings[n], stages |-> srv.stages[n]]]
NoDetails == \A c \in Requests : c.kind \notin {"findingsOf", "stagesOf"}

\* An answer is what the server has.
DashboardAnswers(c) ==
  /\ c.kind \in {"scans", "github", "usage", "findingsOf", "stagesOf"}
  /\ c.kind \in {"findingsOf", "stagesOf"} => c.arg \in DOMAIN srv.scans
  /\ Answer(c) \in {Waiting, CASE c.kind = "findingsOf" -> srv.findings[c.arg]
                               [] c.kind = "stagesOf" -> srv.stages[c.arg]
                               [] c.kind \in {"scans", "github", "usage"} -> srv[c.kind]}

\* The scans are on their way, or all of their details are, or the summaries
\* are what the server has.
DashboardCore ==
  /\ DOMAIN st = DashboardFields
  /\ \E h \in History, on \in BOOLEAN, u \in Usages : srv = DashboardRecords(h, on, u)
  /\ Alone(calls, "scans", srv.scans)
  /\ \A c \in Requests : DashboardAnswers(c)
  /\ Sought(calls, "github") \/ st.github = srv.github
  /\ \/ Sought(calls, "scans") /\ NoDetails
     \/ /\ ~Sought(calls, "scans") /\ st.scans = srv.scans /\ srv.scans # <<>>
        /\ \A n \in DOMAIN srv.scans, k \in {"findingsOf", "stagesOf"} : \E c \in Requests : c.kind = k /\ c.arg = n
     \/ ~Sought(calls, "scans") /\ NoDetails /\ st.summaries = Paired

LEMMA ScanFacts ==
  ASSUME NEW x \in {Clean, Triaged, Crowded, Partial, Queued}
  PROVE  IsFiniteSet(x.findings) /\ \A f \in x.findings : f.sev \in Severities /\ f.id \in 1..6
<1>1. \A i, s, t : F(i, s, t).id = i /\ F(i, s, t).sev = s
  BY DEF F
<1>2. /\ Clean.findings = {} /\ Queued.findings = {}
      /\ Triaged.findings = {F(1, "critical", "false_positive"), F(2, "info", "open")}
      /\ Partial.findings = {F(1, "medium", "open")}
  BY DEF Clean, Queued, Triaged, Partial
<1> DEFINE five == {F(i, "low", "open") : i \in 1..5}
<1>3. Crowded.findings = five \cup {F(6, "high", "open")}
  BY DEF Crowded
<1>4. \A f \in five : f.id \in 1..5 /\ f.sev = "low"
  BY <1>1
<1>5. IsFiniteSet(five)
  <2> DEFINE f == [i \in 1..5 |-> F(i, "low", "open")]
  <2>1. f \in Surjection(1..5, five)
    BY DEF Surjection
  <2>2. IsFiniteSet(1..5)
    <3>1. 1 \in Int /\ 5 \in Int
      OBVIOUS
    <3>2. QED BY <3>1, FS_Interval
  <2> HIDE DEF f, five
  <2>3. QED BY <2>1, <2>2, FS_Surjection
<1> HIDE DEF five
<1>6. /\ IsFiniteSet(Clean.findings) /\ IsFiniteSet(Queued.findings) /\ IsFiniteSet(Partial.findings)
      /\ IsFiniteSet(Crowded.findings) /\ IsFiniteSet(Triaged.findings)
  <2>1. IsFiniteSet({F(6, "high", "open")}) /\ IsFiniteSet({F(1, "medium", "open")}) /\ IsFiniteSet({F(2, "info", "open")})
    BY FS_Singleton
  <2>2. IsFiniteSet({F(2, "info", "open")} \cup {F(1, "critical", "false_positive")})
    BY <2>1, FS_AddElement
  <2>3. {F(1, "critical", "false_positive"), F(2, "info", "open")} = {F(2, "info", "open")} \cup {F(1, "critical", "false_positive")}
    OBVIOUS
  <2>4. IsFiniteSet(five \cup {F(6, "high", "open")})
    BY <1>5, <2>1, FS_Union
  <2>5. QED BY <1>2, <1>3, <2>1, <2>2, <2>3, <2>4, FS_EmptySet
<1>7. \A f \in Crowded.findings : f.sev \in {"low", "high"} /\ f.id \in 1..6
  BY <1>1, <1>3, <1>4
<1>8. \A f \in Triaged.findings : f.sev \in {"critical", "info"} /\ f.id \in 1..6
  BY <1>1, <1>2
<1>9. \A f \in Partial.findings : f.sev = "medium" /\ f.id \in 1..6
  BY <1>1, <1>2
<1>10. \A f \in x.findings : f.sev \in Severities /\ f.id \in 1..6
  BY <1>2, <1>7, <1>8, <1>9 DEF Severities
<1>11. QED BY <1>6, <1>10

LEMMA HistoryFacts ==
  ASSUME NEW h \in History
  PROVE  /\ \E k \in 0..2 : DOMAIN h = 1..k
         /\ \A n \in DOMAIN h : IsFiniteSet(h[n].findings) /\ \A f \in h[n].findings : f.sev \in Severities /\ f.id \in 1..6
<1>1. (\E k \in 0..2 : DOMAIN h = 1..k) /\ \A n \in DOMAIN h : h[n] \in {Clean, Triaged, Crowded, Partial, Queued}
  <2>1. CASE h = <<>> BY <2>1
  <2>2. CASE h = <<Clean>> BY <2>2
  <2>3. CASE h = <<Queued, Partial>> BY <2>3
  <2>4. CASE h = <<Crowded, Triaged>> BY <2>4
  <2>5. CASE h = <<Partial, Crowded>> BY <2>5
  <2>6. QED BY <2>1, <2>2, <2>3, <2>4, <2>5 DEF History
<1>2. QED BY <1>1, ScanFacts

\* The records of a visit, which nothing changes.
LEMMA DashboardRecordFacts ==
  ASSUME NEW h \in History, NEW on \in BOOLEAN, NEW u \in Usages, srv = DashboardRecords(h, on, u)
  PROVE  /\ DOMAIN srv = {"scans", "findings", "stages", "github", "usage"} /\ srv.github \in BOOLEAN /\ srv.usage = u
         /\ \E k \in 0..2 : DOMAIN srv.scans = 1..k /\ srv.scans = [n \in 1..k |-> h[n].scan]
         /\ \A n \in DOMAIN srv.scans : /\ srv.findings[n] \notin Marks /\ srv.stages[n] \notin Marks
                                        /\ IsFiniteSet(srv.findings[n])
                                        /\ \A f \in srv.findings[n] : f.sev \in Severities /\ f.id \in 1..6
         /\ srv.scans \notin Marks /\ srv.usage \notin Marks /\ srv.github \notin Marks
<1>1. PICK k \in 0..2 : DOMAIN h = 1..k
  BY HistoryFacts
<1>2. /\ DOMAIN srv = {"scans", "findings", "stages", "github", "usage"} /\ srv.github = on /\ srv.usage = u
      /\ DOMAIN srv.scans = 1..k /\ srv.scans = [n \in 1..k |-> h[n].scan]
      /\ \A n \in 1..k : srv.findings[n] = h[n].findings /\ srv.stages[n] = h[n].stages
  BY <1>1 DEF DashboardRecords
<1>3. srv.scans \notin Marks
  <2>1. CASE k = 0
    <3>1. srv.scans = <<>>
      BY <1>2, <2>1
    <3>2. QED BY <3>1, MarksAssumption
  <2>2. CASE k # 0
    <3>1. 1 \in DOMAIN h
      BY <1>1, <2>2
    <3>2. srv.scans = [i \in DOMAIN h |-> h[i].scan]
      BY <1>1, <1>2
    <3>3. QED BY <3>1, <3>2, HistoryAssumption
  <2>3. QED BY <2>1, <2>2
<1>4. \A n \in DOMAIN srv.scans : /\ srv.findings[n] \notin Marks /\ srv.stages[n] \notin Marks
                                  /\ IsFiniteSet(srv.findings[n])
                                  /\ \A f \in srv.findings[n] : f.sev \in Severities /\ f.id \in 1..6
  BY <1>1, <1>2, HistoryFacts, HistoryAssumption
<1>5. srv.usage \notin Marks /\ srv.github \notin Marks
  BY <1>2, UsagesAssumption, MarksAssumption
<1>6. QED BY <1>2, <1>3, <1>4, <1>5

\* The steps that this page takes while nobody else does anything.
LEMMA DashboardSteps ==
  ASSUME page = "dashboard", DashboardCore, Inside
  PROVE  \E c \in Requests : ServeRead(c) \/ DetailsServe(c) \/ (Answer(c) # Waiting /\ DashboardArrive(c))
<1>1. \A c \in Requests : c.kind \in {"scans", "github", "usage", "findingsOf", "stagesOf"}
  BY DEF DashboardCore, DashboardAnswers
<1>2. QED
  BY <1>1 DEF Inside, Click, ServeSome, Serve, ArriveSome, Arrive, TimerSome, PosturePages, FilterPages,
       InstallUrlServed, ReportServe, AgentServe, RegistryServe, SubmitServe, NewItemServe
\* What all steps keep of the answers.
LEMMA DashboardSends ==
  ASSUME VisitType, DashboardCore, NEW kept \in SUBSET Requests, NEW new, Sends(kept, new), srv' = srv,
         \A r \in new : /\ r.kind \in {"usage", "findingsOf", "stagesOf"}
                        /\ r.kind \in {"findingsOf", "stagesOf"} => r.arg \in DOMAIN srv.scans
  PROVE  /\ \A c \in Requests' : DashboardAnswers(c)'
         /\ Requests' = kept \cup New(new)
         /\ Alone(calls', "scans", srv.scans) /\ (Sought(calls', "scans") <=> \E o \in kept : o.kind = "scans")
         /\ Sought(calls', "github") <=> \E o \in kept : o.kind = "github"
<1>1. /\ \A o \in New(new) : calls'[o] = Waiting /\ \E r \in new : o.kind = r.kind /\ o.arg = r.arg
      /\ Requests' = kept \cup New(new) /\ \A o \in kept : calls'[o] = calls[o]
  BY NewFacts DEF Sends
<1>2. \A c \in kept : DashboardAnswers(c)'
  BY <1>1 DEF DashboardCore, DashboardAnswers, Answer
<1>3. \A c \in New(new) : DashboardAnswers(c)'
  BY <1>1 DEF DashboardAnswers, Answer
<1>4. Alone(calls', "scans", srv.scans) /\ (Sought(calls', "scans") <=> \E o \in kept : o.kind = "scans")
  BY SendsAlone DEF DashboardCore
<1>5. Sought(calls', "github") <=> \E o \in kept : o.kind = "github"
  BY <1>1 DEF Sought, Requests
<1>6. QED BY <1>1, <1>2, <1>3, <1>4, <1>5

\* Every step of a calm visit keeps it so.
LEMMA DashboardCalm ==
  ASSUME page = "dashboard", VisitType, DashboardCore, Inside
  PROVE  DashboardCore'
<1>1. PICK h \in History, on \in BOOLEAN, u \in Usages : srv = DashboardRecords(h, on, u)
  BY DEF DashboardCore
<1>2. /\ DOMAIN srv = {"scans", "findings", "stages", "github", "usage"} /\ srv.github \in BOOLEAN
      /\ \E k \in 0..2 : DOMAIN srv.scans = 1..k /\ srv.scans = [n \in 1..k |-> h[n].scan]
      /\ \A n \in DOMAIN srv.scans : srv.findings[n] \notin Marks /\ srv.stages[n] \notin Marks
      /\ srv.scans \notin Marks /\ srv.usage \notin Marks /\ srv.github \notin Marks
  BY <1>1, DashboardRecordFacts
<1>3. /\ DOMAIN st = DashboardFields /\ Alone(calls, "scans", srv.scans)
      /\ Sought(calls, "github") \/ st.github = srv.github
      /\ \A c \in Requests : DashboardAnswers(c)
  BY DEF DashboardCore
<1>4. ASSUME NEW c \in Requests, ServeRead(c) \/ DetailsServe(c)
      PROVE  DashboardCore'
  <2>1. PICK a : Replies(c, a, srv) /\ a = CASE c.kind = "findingsOf" -> srv.findings[c.arg]
                                           [] c.kind = "stagesOf" -> srv.stages[c.arg]
                                           [] c.kind \in {"scans", "github", "usage"} -> srv[c.kind]
    <3>1. CASE ServeRead(c)
      <4>1. Replies(c, srv[c.kind], srv) /\ c.kind \in DOMAIN srv
        BY <3>1 DEF ServeRead
      <4>2. c.kind \in {"scans", "github", "usage"}
        BY <1>2, <1>3, <4>1 DEF DashboardAnswers
      <4>3. QED BY <4>1, <4>2
    <3>2. CASE DetailsServe(c)
      BY <3>2 DEF DetailsServe
    <3>3. QED BY <1>4, <3>1, <3>2
  <2>2. /\ st' = st /\ srv' = srv /\ Requests' = Requests /\ Alone(calls', "scans", srv.scans)
        /\ Sought(calls', "scans") <=> Sought(calls, "scans")
    BY <1>3, <2>1, RepliesAlone
  <2>3. calls'[c] = a /\ \A o \in Requests \ {c} : calls'[o] = calls[o]
    BY <2>1, RepliesFacts
  <2>4. DashboardAnswers(c)'
    BY <1>3, <2>1, <2>2, <2>3 DEF DashboardAnswers, Answer
  <2>5. \A o \in Requests' : DashboardAnswers(o)'
    BY <1>3, <2>2, <2>3, <2>4 DEF DashboardAnswers, Answer
  <2>6. Sought(calls', "github") <=> Sought(calls, "github")
    BY <2>2 DEF Sought, Requests
  <2>7. QED BY <1>1, <1>3, <2>2, <2>5, <2>6 DEF DashboardCore, NoDetails, Paired
<1>5. ASSUME NEW c \in Requests, Answer(c) # Waiting, DashboardArrive(c)
      PROVE  DashboardCore'
  <2> DEFINE kept == Requests \ {c}
  <2>1. ASSUME NEW s, NEW new, Takes(c, s, {}, new)
        PROVE  Sends(kept, new) /\ srv' = srv /\ st' = s
    <3>1. (Requests \ {c}) \ {} = kept
      OBVIOUS
    <3>2. QED BY <2>1, <3>1, TakesFacts
  <2>2. ~Threw(c)
    BY <1>2, <1>3, <1>5, MarksAssumption DEF DashboardAnswers, Threw, Marks
  <2>3. CASE ScansArrive(c)
    <3>1. c.kind = "scans" /\ Answer(c) = srv.scans /\ \A o \in kept : o.kind # "scans"
      BY <1>3, <1>5, <2>3 DEF ScansArrive, Alone, Answer, Requests
    <3>2. NoDetails
      BY <3>1 DEF DashboardCore, Sought, Requests
    <3>3. CASE srv.scans = <<>>
      <4> DEFINE s == Summarized(<<>>, FALSE)
      <4>1. Takes(c, s, {}, Load({"usage"}))
        BY <2>2, <2>3, <3>1, <3>3 DEF ScansArrive
      <4>2. DOMAIN s = DashboardFields /\ s.github = st.github /\ s.summaries = <<>>
        BY <1>3 DEF Summarized, DashboardFields
      <4>3. Paired = <<>>
        BY <3>3 DEF Paired
      <4> HIDE DEF s
      <4>4. \A r \in Load({"usage"}) : r.kind = "usage"
        BY LoadFacts
      <4>5. Sends(kept, Load({"usage"})) /\ srv' = srv /\ st' = s
        BY <2>1, <4>1
      <4>6. /\ \A o \in Requests' : DashboardAnswers(o)'
            /\ Requests' = kept \cup New(Load({"usage"}))
            /\ Alone(calls', "scans", srv.scans) /\ (Sought(calls', "scans") <=> \E o \in kept : o.kind = "scans")
            /\ Sought(calls', "github") <=> \E o \in kept : o.kind = "github"
        BY <4>4, <4>5, DashboardSends
      <4>7. \A o \in New(Load({"usage"})) : o.kind = "usage"
        BY <4>4, NewFacts
      <4>8. NoDetails' /\ Paired' = Paired
        BY <3>2, <4>5, <4>6, <4>7 DEF NoDetails, Paired
      <4>9. Sought(calls, "github") <=> \E o \in kept : o.kind = "github"
        BY <3>1 DEF Sought, Requests
      <4>10. QED BY <1>1, <1>3, <3>1, <4>2, <4>3, <4>5, <4>6, <4>8, <4>9 DEF DashboardCore
    <3>4. CASE srv.scans # <<>>
      <4> DEFINE s == [st EXCEPT !.scans = Answer(c)]
                 new == DetailsOf(DOMAIN srv.scans)
      <4>1. Takes(c, s, {}, new)
        BY <2>2, <2>3, <3>1, <3>4 DEF ScansArrive
      <4>2. DOMAIN s = DashboardFields /\ s.github = st.github /\ s.scans = srv.scans
        BY <1>3, <3>1 DEF DashboardFields
      <4>3. /\ \A r \in new : r.kind \in {"findingsOf", "stagesOf"} /\ r.arg \in DOMAIN srv.scans
            /\ \A n \in DOMAIN srv.scans, k \in {"findingsOf", "stagesOf"} : \E r \in new : r.kind = k /\ r.arg = n
        <5>1. \A k, n : Ask(k, n).kind = k /\ Ask(k, n).arg = n
          BY DEF Ask
        <5>2. QED BY <5>1 DEF DetailsOf
      <4> HIDE DEF s, new
      <4>4. Sends(kept, new) /\ srv' = srv /\ st' = s
        BY <2>1, <4>1
      <4>5. /\ \A o \in Requests' : DashboardAnswers(o)'
            /\ Requests' = kept \cup New(new)
            /\ Alone(calls', "scans", srv.scans) /\ (Sought(calls', "scans") <=> \E o \in kept : o.kind = "scans")
            /\ Sought(calls', "github") <=> \E o \in kept : o.kind = "github"
        BY <4>3, <4>4, DashboardSends
      <4>6. \A n \in DOMAIN srv.scans, k \in {"findingsOf", "stagesOf"} : \E o \in Requests' : o.kind = k /\ o.arg = n
        <5>1. ASSUME NEW r \in new PROVE \E o \in New(new) : o.kind = r.kind /\ o.arg = r.arg
          <6>1. Request(issued + 1, r.kind, r.arg) \in New(new)
            BY DEF New, Numbered, Request
          <6>2. QED BY <6>1 DEF Request
        <5>2. New(new) \subseteq Requests'
          BY <4>5
        <5>3. ASSUME NEW n \in DOMAIN srv.scans, NEW k \in {"findingsOf", "stagesOf"}
              PROVE  \E o \in Requests' : o.kind = k /\ o.arg = n
          <6>1. PICK r \in new : r.kind = k /\ r.arg = n
            BY <4>3
          <6>2. PICK o \in New(new) : o.kind = r.kind /\ o.arg = r.arg
            BY <5>1
          <6>3. QED BY <5>2, <6>1, <6>2
        <5>4. QED BY <5>3
      <4>7. Sought(calls, "github") <=> \E o \in kept : o.kind = "github"
        BY <3>1 DEF Sought, Requests
      <4>8. QED BY <1>1, <1>3, <3>1, <3>4, <4>2, <4>4, <4>5, <4>6, <4>7 DEF DashboardCore
    <3>5. QED BY <3>3, <3>4
  <2>4. CASE DetailsArrive(c)
    <3> DEFINE batch == Asking({"findingsOf", "stagesOf"})
               rest == kept \ batch
               s == Summarized([n \in DOMAIN st.scans |->
                               [scan |-> st.scans[n], findings |-> Detail("findingsOf", n, {}),
                                stages |-> Detail("stagesOf", n, <<>>)]], FALSE)
    <3>1. c \in batch /\ (\A d \in batch : Answer(d) # Waiting) /\ Takes(c, s, batch, Load({"usage"}))
      BY <2>4 DEF DetailsArrive
    <3>2. /\ ~Sought(calls, "scans") /\ st.scans = srv.scans
          /\ \A n \in DOMAIN srv.scans, k \in {"findingsOf", "stagesOf"} : \E o \in Requests : o.kind = k /\ o.arg = n
      BY <3>1 DEF DashboardCore, NoDetails, Asking
    <3>3. ASSUME NEW n \in DOMAIN srv.scans
          PROVE  Detail("findingsOf", n, {}) = srv.findings[n] /\ Detail("stagesOf", n, <<>>) = srv.stages[n]
      <4>1. \A o \in batch : o.arg = n => Answer(o) = IF o.kind = "findingsOf" THEN srv.findings[n] ELSE srv.stages[n]
        BY <1>3, <3>1 DEF DashboardAnswers, Asking
      <4>2. \E o \in Asking({"findingsOf"}) : o.arg = n
        BY <3>2 DEF Asking
      <4>3. \E o \in Asking({"stagesOf"}) : o.arg = n
        BY <3>2 DEF Asking
      <4> DEFINE d == CHOOSE o \in Asking({"findingsOf"}) : o.arg = n
                 e == CHOOSE o \in Asking({"stagesOf"}) : o.arg = n
      <4>4. d \in Asking({"findingsOf"}) /\ d.arg = n
        BY <4>2
      <4>5. e \in Asking({"stagesOf"}) /\ e.arg = n
        BY <4>3
      <4>6. Detail("findingsOf", n, {}) = IF Threw(d) THEN {} ELSE Answer(d)
        BY DEF Detail
      <4>7. Detail("stagesOf", n, <<>>) = IF Threw(e) THEN <<>> ELSE Answer(e)
        BY DEF Detail
      <4> HIDE DEF d, e
      <4>8. d \in batch /\ d.kind = "findingsOf" /\ e \in batch /\ e.kind = "stagesOf"
        BY <4>4, <4>5 DEF Asking
      <4>9. Answer(d) = srv.findings[n] /\ Answer(e) = srv.stages[n]
        BY <4>1, <4>4, <4>5, <4>8
      <4>10. QED BY <1>2, <4>6, <4>7, <4>9 DEF Threw, Marks
    <3>4. s.summaries = Paired /\ DOMAIN s = DashboardFields /\ s.github = st.github
      <4>1. s.summaries = [n \in DOMAIN srv.scans |->
                               [scan |-> srv.scans[n], findings |-> Detail("findingsOf", n, {}),
                                stages |-> Detail("stagesOf", n, <<>>)]]
        BY <1>3, <3>2 DEF Summarized, DashboardFields
      <4>2. DOMAIN s = DashboardFields /\ s.github = st.github
        BY <1>3 DEF Summarized, DashboardFields
      <4> HIDE DEF s
      <4>3. s.summaries = Paired
        BY <3>3, <4>1 DEF Paired
      <4>4. QED BY <4>2, <4>3
    <3> HIDE DEF s
    <3>5. Sends(rest, Load({"usage"})) /\ srv' = srv /\ st' = s
      BY <3>1, TakesFacts
    <3>6. \A r \in Load({"usage"}) : r.kind = "usage"
      BY LoadFacts
    <3>7. /\ \A o \in Requests' : DashboardAnswers(o)'
          /\ Requests' = rest \cup New(Load({"usage"}))
          /\ Alone(calls', "scans", srv.scans) /\ (Sought(calls', "scans") <=> \E o \in rest : o.kind = "scans")
          /\ Sought(calls', "github") <=> \E o \in rest : o.kind = "github"
      BY <3>5, <3>6, DashboardSends
    <3>8. \A o \in New(Load({"usage"})) : o.kind = "usage"
      BY <3>6, NewFacts
    <3>9. NoDetails' /\ Paired' = Paired /\ ~Sought(calls', "scans")
      BY <3>2, <3>5, <3>7, <3>8 DEF NoDetails, Paired, Asking, Sought, Requests
    <3>10. Sought(calls, "github") <=> \E o \in rest : o.kind = "github"
      BY <3>1 DEF Sought, Requests, Asking
    <3>11. QED BY <1>1, <1>3, <3>4, <3>5, <3>7, <3>9, <3>10 DEF DashboardCore
  <2>5. CASE GithubArrives(c) \/ MetersArrive(c)
    <3>1. PICK s : /\ Takes(c, s, {}, {}) /\ DOMAIN s = DashboardFields /\ s.scans = st.scans /\ s.summaries = st.summaries
                   /\ s.github = IF c.kind = "github" THEN srv.github ELSE st.github
                   /\ c.kind \in {"github", "usage"}
      <4>1. CASE GithubArrives(c)
        <5> DEFINE s == [st EXCEPT !.github = ~Threw(c) /\ Answer(c)]
        <5>1. Answer(c) = srv.github /\ c.kind = "github"
          BY <1>3, <1>5, <4>1 DEF DashboardAnswers, GithubArrives
        <5>2. (~Threw(c) /\ Answer(c)) = srv.github
          BY <1>2, <2>2, <5>1
        <5>3. Takes(c, s, {}, {})
          BY <4>1 DEF GithubArrives
        <5>4. DOMAIN s = DashboardFields /\ s.scans = st.scans /\ s.summaries = st.summaries /\ s.github = srv.github
          BY <1>3, <5>2 DEF DashboardFields
        <5> HIDE DEF s
        <5>5. QED BY <5>1, <5>3, <5>4
      <4>2. CASE MetersArrive(c)
        <5> DEFINE s == [st EXCEPT !.usage = Answer(c)]
        <5>1. Takes(c, s, {}, {}) /\ c.kind = "usage"
          BY <2>2, <4>2 DEF MetersArrive
        <5>2. DOMAIN s = DashboardFields /\ s.scans = st.scans /\ s.summaries = st.summaries /\ s.github = st.github
          BY <1>3 DEF DashboardFields
        <5> HIDE DEF s
        <5>3. QED BY <5>1, <5>2
      <4>3. QED BY <2>5, <4>1, <4>2
    <3>2. Sends(kept, {}) /\ srv' = srv /\ st' = s
      BY <2>1, <3>1
    <3>3. New({}) = {} /\ kept \cup New({}) = kept /\ \A r \in {} : /\ r.kind \in {"usage", "findingsOf", "stagesOf"}
                        /\ r.kind \in {"findingsOf", "stagesOf"} => r.arg \in DOMAIN srv.scans
      BY NumberedNone DEF New
    <3>4. /\ \A o \in Requests' : DashboardAnswers(o)'
          /\ Requests' = kept
          /\ Alone(calls', "scans", srv.scans) /\ (Sought(calls', "scans") <=> \E o \in kept : o.kind = "scans")
          /\ Sought(calls', "github") <=> \E o \in kept : o.kind = "github"
      BY <3>2, <3>3, DashboardSends
    <3>5. (Sought(calls', "scans") <=> Sought(calls, "scans")) /\ (NoDetails => NoDetails') /\ Paired' = Paired
      BY <3>1, <3>2, <3>4 DEF Sought, Requests, NoDetails, Paired
    <3>6. \A k \in {"findingsOf", "stagesOf"} : \A n : (\E o \in Requests : o.kind = k /\ o.arg = n) => \E o \in Requests' : o.kind = k /\ o.arg = n
      BY <3>1, <3>4
    <3>7. c.kind # "github" => (Sought(calls, "github") <=> \E o \in kept : o.kind = "github")
      BY DEF Sought, Requests
    <3>8. QED BY <1>1, <1>3, <3>1, <3>2, <3>4, <3>5, <3>6, <3>7 DEF DashboardCore
  <2>6. QED BY <1>5, <2>3, <2>4, <2>5 DEF DashboardArrive
<1>6. QED BY <1>4, <1>5, DashboardSteps

\* It is so when the page is mounted.
LEMMA DashboardStart == DashboardInit => page = "dashboard" /\ DashboardCore
<1> SUFFICES ASSUME DashboardInit PROVE page = "dashboard" /\ DashboardCore
  OBVIOUS
<1>1. PICK h, on, u, s :
        /\ h \in History /\ on \in BOOLEAN /\ u \in Usages
        /\ Mounted("dashboard", s, Load({"scans", "github"}), {DashboardRecords(h, on, u)})
        /\ DOMAIN s = DashboardFields
  <2>1. PICK h \in History, on \in BOOLEAN, u \in Usages :
          Mounted("dashboard",
            [scans |-> NoData, summaries |-> NoData, error |-> FALSE, github |-> NoData, usage |-> NoData],
            Load({"scans", "github"}), {DashboardRecords(h, on, u)})
    BY DEF DashboardInit, DashboardRecords
  <2>2. DOMAIN [scans |-> NoData, summaries |-> NoData, error |-> FALSE, github |-> NoData, usage |-> NoData] = DashboardFields
    BY DEF DashboardFields
  <2>3. QED BY <2>1, <2>2
<1> DEFINE new == Load({"scans", "github"})
           records == {DashboardRecords(h, on, u)}
<1>2. /\ \A r \in new : r.kind \in {"scans", "github"} /\ r.arg = None
      /\ (\E r \in new : r.kind = "scans") /\ \E r \in new : r.kind = "github"
  BY LoadFacts
<1>3. Mounted("dashboard", s, new, records)
  BY <1>1
<1>4. srv \in records => srv = DashboardRecords(h, on, u)
  OBVIOUS
<1> HIDE DEF new, records
<1>5. /\ page = "dashboard" /\ st = s /\ srv \in records
      /\ \A c \in Requests : calls[c] = Waiting /\ \E r \in new : c.kind = r.kind
  BY <1>3, MountedFacts
<1>6. \A q, r \in new : q.kind = "scans" /\ r.kind = "scans" => q.arg = r.arg
  BY <1>2
<1>7. Alone(calls, "scans", srv.scans) /\ \A r \in new : r.kind = "scans" => Sought(calls, "scans")
  BY <1>3, <1>6, MountedAlone
<1>8. Sought(calls, "github")
  <2>1. \A q, r \in new : q.kind = "github" /\ r.kind = "github" => q.arg = r.arg
    BY <1>2
  <2>2. \A r \in new : r.kind = "github" => Sought(calls, "github")
    BY <1>3, <2>1, MountedAlone
  <2>3. QED BY <1>2, <2>2
<1>9. NoDetails /\ \A c \in Requests : DashboardAnswers(c)
  BY <1>2, <1>5 DEF NoDetails, DashboardAnswers, Answer
<1>10. QED BY <1>1, <1>2, <1>4, <1>5, <1>7, <1>8, <1>9 DEF DashboardCore

\* A set of small numbers that is not empty has a least one.
LEMMA LeastOf ==
  ASSUME NEW S \in SUBSET (0..6), S # {}
  PROVE  \E n \in S : \A m \in S : n <= m
<1>1. CASE 0 \in S BY <1>1
<1>2. CASE 0 \notin S /\ 1 \in S BY <1>2
<1>3. CASE 0 \notin S /\ 1 \notin S /\ 2 \in S BY <1>3
<1>4. CASE 0 \notin S /\ 1 \notin S /\ 2 \notin S /\ 3 \in S BY <1>4
<1>5. CASE 0 \notin S /\ 1 \notin S /\ 2 \notin S /\ 3 \notin S /\ 4 \in S BY <1>5
<1>6. CASE S \subseteq {5, 6}
  <2>1. CASE 5 \in S
    <3>1. \A m \in S : 5 <= m
      BY <1>6
    <3>2. QED BY <2>1, <3>1
  <2>2. CASE 5 \notin S
    <3>1. S = {6}
      BY <1>6, <2>2
    <3>2. QED BY <3>1
  <2>3. QED BY <2>1, <2>2
<1>7. 0 \notin S /\ 1 \notin S /\ 2 \notin S /\ 3 \notin S /\ 4 \notin S => S \subseteq {5, 6}
  OBVIOUS
<1>8. QED BY <1>1, <1>2, <1>3, <1>4, <1>5, <1>6, <1>7

\* Findings that can be compared, as many as there are.
Comparable(s) ==
  /\ IsFiniteSet(AllOpen(s))
  /\ \A o \in AllOpen(s) : Rank(o) \in 0..4 /\ o.scan \in 0..6 /\ o.of.id \in 0..6

LEMMA TopOfSome ==
  ASSUME NEW s, Comparable(s), AllOpen(s) # {}
  PROVE  TopFindings(s) # {}
<1>1. \A o \in AllOpen(s) : Rank(o) \in 0..4 /\ o.scan \in 0..6 /\ o.of.id \in 0..6
  BY DEF Comparable
<1>2. PICK a \in AllOpen(s) : \A p \in AllOpen(s) : Rank(a) <= Rank(p)
  <2> DEFINE S == {Rank(o) : o \in AllOpen(s)}
  <2>1. S \in SUBSET (0..6) /\ S # {}
    BY <1>1
  <2> HIDE DEF S
  <2>2. PICK n \in S : \A m \in S : n <= m
    BY <2>1, LeastOf
  <2>3. QED BY <2>2 DEF S
<1> DEFINE first == {o \in AllOpen(s) : Rank(o) = Rank(a)}
<1>3. PICK b \in first : \A p \in first : b.scan <= p.scan
  <2> DEFINE S == {o.scan : o \in first}
  <2>1. S \in SUBSET (0..6) /\ S # {}
    BY <1>1
  <2> HIDE DEF S
  <2>2. PICK n \in S : \A m \in S : n <= m
    BY <2>1, LeastOf
  <2>3. QED BY <2>2 DEF S
<1> DEFINE second == {o \in first : o.scan = b.scan}
<1>4. PICK o \in second : \A p \in second : o.of.id <= p.of.id
  <2> DEFINE S == {x.of.id : x \in second}
  <2>1. S \in SUBSET (0..6) /\ S # {}
    BY <1>1, <1>3
  <2> HIDE DEF S
  <2>2. PICK n \in S : \A m \in S : n <= m
    BY <2>1, LeastOf
  <2>3. QED BY <2>2 DEF S
<1>5. \A p \in AllOpen(s) : ~Worse(p, o)
  <2>1. o \in AllOpen(s) /\ Rank(o) = Rank(a) /\ o.scan = b.scan
    BY <1>4
  <2>2. ASSUME NEW p \in AllOpen(s), Worse(p, o)
        PROVE  FALSE
    <3>1. Rank(p) \in 0..4 /\ Rank(o) \in 0..4 /\ p.scan \in 0..6 /\ o.scan \in 0..6 /\ p.of.id \in 0..6 /\ o.of.id \in 0..6
      BY <1>1, <2>1
    <3>2. Rank(o) <= Rank(p) /\ (Rank(p) = Rank(o) => p \in first)
      BY <1>2, <2>1
    <3>3. Rank(p) = Rank(o) => o.scan <= p.scan
      BY <1>3, <2>1, <3>2
    <3>4. Rank(p) = Rank(o) /\ p.scan = o.scan => o.of.id <= p.of.id
      BY <1>4, <2>1, <3>2
    <3>5. QED BY <2>2, <3>1, <3>2, <3>3, <3>4 DEF Worse
  <2>3. QED BY <2>2
<1>6. {p \in AllOpen(s) : Worse(p, o)} = {}
  BY <1>5
<1>7. Cardinality({p \in AllOpen(s) : Worse(p, o)}) = 0
  BY <1>6, FS_EmptySet
<1>8. QED BY <1>4, <1>7 DEF TopFindings

LEMMA TopIsWorst ==
  ASSUME NEW s, Comparable(s), NEW o \in AllOpen(s), NEW p \in TopFindings(s), ~(Rank(p) <= Rank(o))
  PROVE  o \in TopFindings(s)
<1> DEFINE before(x) == {q \in AllOpen(s) : Worse(q, x)}
<1>1. p \in AllOpen(s) /\ Cardinality(before(p)) < 5
  BY DEF TopFindings
<1>2. before(o) \subseteq before(p)
  <2>1. Rank(o) < Rank(p)
    BY <1>1 DEF Comparable
  <2>2. ASSUME NEW q \in AllOpen(s), Worse(q, o) PROVE Worse(q, p)
    BY <1>1, <2>1, <2>2 DEF Worse, Comparable
  <2>3. QED BY <2>2
<1>3. IsFiniteSet(before(p))
  BY FS_Subset DEF Comparable
<1> HIDE DEF before
<1>4. IsFiniteSet(before(o)) /\ Cardinality(before(o)) <= Cardinality(before(p))
  BY <1>2, <1>3, FS_Subset
<1>5. Cardinality(before(o)) \in Nat /\ Cardinality(before(p)) \in Nat
  BY <1>3, <1>4, FS_CardinalityType
<1>6. Cardinality(before(o)) < 5
  BY <1>1, <1>4, <1>5
<1>7. QED BY <1>6 DEF TopFindings, before

\* None of a finite set counts as zero.
LEMMA NoneOf == ASSUME NEW S, IsFiniteSet(S), Cardinality(S) = 0 PROVE S = {}
BY FS_EmptySet

\* Once everything is answered, the page shows what is true.
LEMMA DashboardEnd == ASSUME DashboardCore, Settled PROVE DashboardTrue
<1> DEFINE s == st.summaries
           urgent(n) == \E f \in srv.findings[n] : f.triage = "open" /\ f.sev \in Urgent
<1>1. PICK h \in History, on \in BOOLEAN, u \in Usages : srv = DashboardRecords(h, on, u)
  BY DEF DashboardCore
<1>2. PICK k \in 0..2 : DOMAIN srv.scans = 1..k /\ srv.scans = [n \in 1..k |-> h[n].scan]
  BY <1>1, DashboardRecordFacts
<1>3. /\ srv.github \in BOOLEAN
      /\ \A n \in DOMAIN srv.scans : /\ IsFiniteSet(srv.findings[n])
                                     /\ \A f \in srv.findings[n] : f.sev \in Severities /\ f.id \in 1..6
  BY <1>1, DashboardRecordFacts
<1>4. s = Paired /\ st.github = srv.github
  <2>1. \A n : \A j : ~\E c \in Requests : c.kind = j /\ c.arg = n
    BY DEF Settled
  <2>2. k = 0 => srv.scans = <<>>
    <3>1. \A g : [n \in 1..0 |-> g[n].scan] = <<>>
      OBVIOUS
    <3>2. QED BY <1>2, <3>1
  <2>3. k # 0 => 1 \in DOMAIN srv.scans
    BY <1>2
  <2>4. ~(srv.scans # <<>> /\ \A n \in DOMAIN srv.scans, j \in {"findingsOf", "stagesOf"} : \E c \in Requests : c.kind = j /\ c.arg = n)
    BY <2>1, <2>2, <2>3
  <2>5. ~Sought(calls, "scans") /\ ~Sought(calls, "github")
    BY SettledAlone
  <2>6. QED BY <2>4, <2>5 DEF DashboardCore
<1>5. /\ DOMAIN s = 1..k /\ s = [n \in 1..k |-> s[n]]
      /\ \A n \in 1..k : /\ s[n].scan = srv.scans[n] /\ s[n].findings = srv.findings[n] /\ s[n].stages = srv.stages[n]
  BY <1>2, <1>4 DEF Paired
<1>6. CASE s = <<>>
  <2>1. k = 0
    <3>1. DOMAIN s = {}
      BY <1>6
    <3>2. QED BY <1>5, <3>1
  <2>2. srv.scans = <<>>
    BY <1>2, <2>1
  <2>3. SetupSteps.github = "connect" <=> ~srv.github
    BY <1>3, <1>4, MarksAssumption DEF SetupSteps, Marks
  <2>4. QED BY <1>6, <2>2, <2>3 DEF DashboardTrue
<1>7. CASE s # <<>>
  <2> HIDE DEF s
  <2>1. k # 0
    <3>1. \A g : [n \in 1..0 |-> g[n]] = <<>>
      OBVIOUS
    <3>2. QED BY <1>5, <1>7, <3>1
  <2>2. \A o \in AllOpen(s) : \E n \in 1..k : \E f \in srv.findings[n] : o.scan = n /\ o.of = f /\ f.triage = "open"
    BY <1>5 DEF AllOpen, OpenFindings
  <2>3. \A n \in 1..k : \A f \in srv.findings[n] : f.triage = "open" => [scan |-> n, of |-> f] \in AllOpen(s)
    BY <1>5 DEF AllOpen, OpenFindings
  <2>4. IsFiniteSet(AllOpen(s))
    <3> DEFINE mine(n) == {[scan |-> n, of |-> f] : f \in OpenFindings(s[n].findings)}
    <3>1. ASSUME NEW n \in 1..k PROVE IsFiniteSet(mine(n))
      <4>1. IsFiniteSet(OpenFindings(s[n].findings))
        <5>1. OpenFindings(s[n].findings) \subseteq s[n].findings /\ IsFiniteSet(s[n].findings)
          BY <1>2, <1>3, <1>5 DEF OpenFindings
        <5>2. QED BY <5>1, FS_Subset
      <4> DEFINE S == OpenFindings(s[n].findings)
                 T == mine(n)
                 g == [f \in S |-> [scan |-> n, of |-> f]]
      <4>2. g \in Surjection(S, T)
        BY DEF Surjection
      <4> HIDE DEF S, g, T
      <4>3. IsFiniteSet(T)
        BY <4>1, <4>2, FS_Surjection DEF S
      <4>4. QED BY <4>3 DEF T
    <3>2. AllOpen(s) = (IF k >= 1 THEN mine(1) ELSE {}) \cup (IF k >= 2 THEN mine(2) ELSE {})
      <4>1. AllOpen(s) = UNION {mine(n) : n \in 1..k}
        BY <1>5 DEF AllOpen
      <4> HIDE DEF mine
      <4>2. k = 0 \/ k = 1 \/ k = 2
        OBVIOUS
      <4>3. CASE k = 0 BY <4>1, <4>3
      <4>4. CASE k = 1 BY <4>1, <4>4
      <4>5. CASE k = 2 BY <4>1, <4>5
      <4>6. QED BY <4>2, <4>3, <4>4, <4>5
    <3> HIDE DEF mine
    <3>3. IsFiniteSet(IF k >= 1 THEN mine(1) ELSE {}) /\ IsFiniteSet(IF k >= 2 THEN mine(2) ELSE {})
      BY <3>1, FS_EmptySet
    <3>4. QED BY <3>2, <3>3, FS_Union
  <2>5. Comparable(s)
    <3>1. ASSUME NEW o \in AllOpen(s) PROVE Rank(o) \in 0..4 /\ o.scan \in 0..6 /\ o.of.id \in 0..6
      <4>1. o.scan \in 1..2 /\ o.of.sev \in Severities /\ o.of.id \in 1..6
        BY <1>2, <1>3, <2>2
      <4>2. QED BY <4>1 DEF Rank, SeverityRank, Severities
    <3>2. QED BY <2>4, <3>1 DEF Comparable
  <2>6. \A sevs : IsFiniteSet(OpenOf(s, sevs))
    <3>1. \A sevs : OpenOf(s, sevs) \subseteq AllOpen(s)
      BY DEF OpenOf
    <3>2. QED BY <2>4, <3>1, FS_Subset
  <2>7. ASSUME NEW n \in 1..k, urgent(n)
        PROVE  AllOpen(s) # {} /\ (OpenOf(s, {"critical"}) # {} \/ OpenOf(s, {"high"}) # {}) /\ \E o \in OpenOf(s, Urgent) : o.scan = n
    <3>1. PICK f \in srv.findings[n] : f.triage = "open" /\ f.sev \in Urgent
      BY <2>7
    <3> DEFINE o == [scan |-> n, of |-> f]
    <3>2. o \in AllOpen(s) /\ o.scan = n /\ o.of.sev = f.sev
      BY <2>3, <3>1
    <3> HIDE DEF o
    <3>3. QED BY <3>1, <3>2 DEF OpenOf, Urgent
  <2>8. NothingOpen(s) => OpenOf(s, {"critical"}) = {} /\ OpenOf(s, {"high"}) = {}
    <3>1. {"critical", "high"} \subseteq Severities \ {"info"}
      BY DEF Severities
    <3>2. NothingOpen(s) => Cardinality(OpenOf(s, {"critical"})) = 0 /\ Cardinality(OpenOf(s, {"high"})) = 0
      BY <3>1 DEF NothingOpen, Breakdown
    <3>3. QED BY <2>6, <3>2, NoneOf
  <2>9. Len(s) = Len(srv.scans)
    BY <1>2, <1>5
  <2>10. TopFindings(s) = {} \/ NothingOpen(s) => \A n \in DOMAIN srv.scans : ~urgent(n)
    BY <1>2, <2>5, <2>7, <2>8, TopOfSome
  <2>11. \A o \in AllOpen(s), p \in TopFindings(s) : o \in TopFindings(s) \/ Rank(p) <= Rank(o)
    BY <2>5, TopIsWorst
  <2>12. ASSUME NEW n \in DOMAIN s, ScanRow(s[n]).urgent = {} /\ ~ScanRow(s[n]).broken
         PROVE  ~urgent(n) /\ \A i \in DOMAIN srv.stages[n] : srv.stages[n][i] # "failed"
    BY <1>5, <2>12 DEF ScanRow, OpenFindings
  <2>13. Metrics(s).attention >= Cardinality({n \in DOMAIN srv.scans : urgent(n)})
    <3> DEFINE A == {n \in DOMAIN s : \/ s[n].scan.status \in {"failed", "incomplete"}
                                      \/ \E o \in OpenOf(s, Urgent) : o.scan = n}
               B == {n \in DOMAIN srv.scans : urgent(n)}
    <3>1. Metrics(s).attention = Cardinality(A)
      BY DEF Metrics
    <3>2. B \subseteq A
      BY <1>2, <1>5, <2>7
    <3>3. IsFiniteSet(A)
      <4>1. 1 \in Int /\ k \in Int
        OBVIOUS
      <4>2. IsFiniteSet(1..k)
        BY <4>1, FS_Interval
      <4>3. A \subseteq 1..k
        BY <1>5
      <4>4. QED BY <4>2, <4>3, FS_Subset
    <3> HIDE DEF A, B
    <3>4. IsFiniteSet(B) /\ Cardinality(B) <= Cardinality(A)
      BY <3>2, <3>3, FS_Subset
    <3>5. Cardinality(A) \in Nat /\ Cardinality(B) \in Nat
      BY <3>3, <3>4, FS_CardinalityType
    <3>6. Metrics(s).attention >= Cardinality(B)
      BY <3>1, <3>4, <3>5
    <3>7. QED BY <3>6 DEF B
  <2>14. Posture(s).partial <=> srv.scans[1].status = "incomplete"
    <3>1. Posture(s).partial = (s[1].scan.status = "incomplete")
      BY DEF Posture
    <3>2. 1 \in 1..k
      BY <2>1
    <3>3. QED BY <1>5, <3>1, <3>2
  <2>15. Metrics(s).critical + Metrics(s).high = 0 => \A t \in TopTargets(s) : t.tone = "default"
    <3>1. Metrics(s).critical = Cardinality(OpenOf(s, {"critical"})) /\ Metrics(s).high = Cardinality(OpenOf(s, {"high"}))
      BY DEF Metrics
    <3>2. Cardinality(OpenOf(s, {"critical"})) \in Nat /\ Cardinality(OpenOf(s, {"high"})) \in Nat
      BY <2>6, FS_CardinalityType
    <3>3. Metrics(s).critical + Metrics(s).high = 0 => OpenOf(s, {"critical"}) = {} /\ OpenOf(s, {"high"}) = {}
      BY <2>6, <3>1, <3>2, NoneOf
    <3>4. ASSUME OpenOf(s, {"critical"}) = {}, OpenOf(s, {"high"}) = {}, NEW t \in TopTargets(s)
          PROVE  t.tone = "default"
      <4>1. PICK a : t = [target |-> a, total |-> Cardinality({o \in AllOpen(s) : s[o.scan].scan.target = a}),
                          tone |-> IF \E o \in OpenOf(s, {"critical"}) : s[o.scan].scan.target = a THEN "critical"
                                   ELSE IF \E o \in OpenOf(s, {"high"}) : s[o.scan].scan.target = a THEN "high" ELSE "default"]
        BY DEF TopTargets
      <4>2. QED BY <3>4, <4>1
    <3>5. QED BY <3>3, <3>4
  <2>16. QED BY <1>7, <2>9, <2>10, <2>11, <2>12, <2>13, <2>14, <2>15 DEF DashboardTrue, s
<1>8. QED BY <1>6, <1>7

-----------------------------------------------------------------------------
(* Usage, favourites and one agent *)

\* The meters are on their way or those that the server has.
UsageCore ==
  /\ DOMAIN st = {"usage", "error", "source"}
  /\ DOMAIN srv = {"usage"} /\ srv.usage \in Usages
  /\ \A c \in Requests : c.kind = "usage"
  /\ Alone(calls, "usage", srv.usage)
  /\ Sought(calls, "usage") \/ st.usage = srv.usage

\* The steps that this page takes while nobody else does anything.
LEMMA UsageSteps ==
  ASSUME page = "usage", UsageCore, Inside
  PROVE  UsageClick \/ \E c \in Requests : ServeRead(c) \/ (Answer(c) # Waiting /\ UsageArrive(c))
BY DEF UsageCore, Inside, Click, ServeSome, Serve, ArriveSome, Arrive, TimerSome, PosturePages, FilterPages,
       InstallUrlServed, DetailsServe, ReportServe, AgentServe, RegistryServe, SubmitServe, NewItemServe

\* Every step of a calm visit keeps it so.
LEMMA UsageCalm ==
  ASSUME page = "usage", VisitType, UsageCore, Inside
  PROVE  UsageCore'
<1>1. DOMAIN st = {"usage", "error", "source"} /\ DOMAIN srv = {"usage"} /\ srv.usage \in Usages
  BY DEF UsageCore
<1>2. CASE UsageClick
  <2>1. PICK x : Acts([st EXCEPT !.source = x], {}, {})
    BY <1>2 DEF UsageClick
  <2> DEFINE s == [st EXCEPT !.source = x]
  <2>2. Acts(s, {}, {}) /\ DOMAIN s = DOMAIN st /\ s.usage = st.usage
    BY <1>1, <2>1
  <2> HIDE DEF s
  <2>3. /\ st' = s /\ srv' = srv /\ Only(Requests, {})
        /\ Alone(calls', "usage", srv.usage) /\ (Sought(calls', "usage") <=> Sought(calls, "usage"))
    BY <2>2, ActsAlone DEF UsageCore
  <2>4. \A c \in Requests' : c.kind = "usage"
    BY <2>3 DEF Only, UsageCore
  <2>5. QED BY <2>2, <2>3, <2>4 DEF UsageCore
<1>3. ASSUME NEW c \in Requests, ServeRead(c)
      PROVE  UsageCore'
  <2>1. c.kind = "usage" /\ Replies(c, srv.usage, srv)
    BY <1>3 DEF ServeRead, UsageCore
  <2>2. /\ st' = st /\ srv' = srv /\ Requests' = Requests
        /\ Alone(calls', "usage", srv.usage) /\ (Sought(calls', "usage") <=> Sought(calls, "usage"))
    BY <2>1, RepliesAlone DEF UsageCore
  <2>3. QED BY <2>2 DEF UsageCore
<1>4. ASSUME NEW c \in Requests, Answer(c) # Waiting, UsageArrive(c)
      PROVE  UsageCore'
  <2>1. Answer(c) = srv.usage /\ ~Threw(c) /\ c.kind = "usage"
    BY <1>1, <1>4, UsagesAssumption DEF UsageCore, Alone, Answer, Threw, Requests, Marks
  <2> DEFINE s == [st EXCEPT !.usage = Answer(c)]
  <2>2. Takes(c, s, {}, {}) /\ DOMAIN s = DOMAIN st /\ s.usage = srv.usage
    BY <1>1, <1>4, <2>1 DEF UsageArrive
  <2> HIDE DEF s
  <2>3. st' = s /\ srv' = srv /\ Only(Requests \ {c}, {}) /\ Alone(calls', "usage", srv.usage)
    <3>1. Alone(calls, "usage", srv.usage) /\ \A r \in {} : r.kind # "usage"
      BY DEF UsageCore
    <3>2. QED BY <1>4, <2>2, <3>1, TakesOnly
  <2>4. \A o \in Requests' : o.kind = "usage"
    BY <2>3 DEF Only, UsageCore
  <2>5. QED BY <2>2, <2>3, <2>4 DEF UsageCore
<1>5. QED BY <1>2, <1>3, <1>4, UsageSteps

\* It is so when the page is mounted.
LEMMA UsageStart == UsageInit => page = "usage" /\ UsageCore
<1> SUFFICES ASSUME UsageInit PROVE page = "usage" /\ UsageCore
  OBVIOUS
<1>1. PICK s, records :
        /\ Mounted("usage", s, Load({"usage"}), records)
        /\ DOMAIN s = {"usage", "error", "source"}
        /\ \A r \in records : DOMAIN r = {"usage"} /\ r.usage \in Usages
  BY DEF UsageInit
<1>2. /\ page = "usage" /\ st = s /\ srv \in records /\ Alone(calls, "usage", srv.usage) /\ Sought(calls, "usage")
      /\ \A o \in Requests : o.kind = "usage"
  BY <1>1, MountedOnce
<1>3. QED BY <1>1, <1>2 DEF UsageCore

\* Once everything is answered, the page shows what is true.
LEMMA UsageEnd == ASSUME UsageCore, Settled PROVE UsageTrue
<1>1. st.usage = srv.usage /\ srv.usage \in Usages
  BY SettledAlone DEF UsageCore
<1>2. srv.usage # NoData
  BY <1>1, UsagesAssumption DEF Marks
<1>3. UsageEmpty => srv.usage.activity \cap (IF st.source = "all" THEN Buckets ELSE {st.source}) = {}
  BY <1>1 DEF UsageEmpty, Activity
<1>4. ASSUME NoReset, NEW m \in Meters(st.usage)
      PROVE  ~m.bar
  <2>1. PICK b \in Buckets : m = [bucket |-> b, bar |-> st.usage.level[b] # Unlimited,
                                note |-> IF st.usage.level[b] = Unlimited THEN "no cap"
                                         ELSE IF st.usage.level[b] = "full" THEN "limit reached" ELSE "resets"]
    BY <1>1, <1>2 DEF Meters
  <2>2. QED BY <1>4, <2>1 DEF NoReset
<1>5. QED BY <1>3, <1>4 DEF UsageTrue

\* The favourites are on their way or those that the server has.
SavedCore ==
  /\ DOMAIN st = {"items", "loading"}
  /\ DOMAIN srv = {"favorites"} /\ srv.favorites \in Favorites
  /\ \A c \in Requests : c.kind = "favorites"
  /\ Alone(calls, "favorites", srv.favorites)
  /\ Sought(calls, "favorites") \/ st.items = srv.favorites

\* The steps that this page takes while nobody else does anything.
LEMMA SavedSteps ==
  ASSUME page = "saved", SavedCore, Inside
  PROVE  \E c \in Requests : ServeRead(c) \/ (Answer(c) # Waiting /\ SavedArrives(c))
BY DEF SavedCore, Inside, Click, ServeSome, Serve, ArriveSome, Arrive, TimerSome, PosturePages, FilterPages,
       InstallUrlServed, DetailsServe, ReportServe, AgentServe, RegistryServe, SubmitServe, NewItemServe

\* Every step of a calm visit keeps it so.
LEMMA SavedCalm ==
  ASSUME page = "saved", VisitType, SavedCore, Inside
  PROVE  SavedCore'
<1>1. DOMAIN st = {"items", "loading"} /\ DOMAIN srv = {"favorites"} /\ srv.favorites \in Favorites
  BY DEF SavedCore
<1>2. ASSUME NEW c \in Requests, ServeRead(c)
      PROVE  SavedCore'
  <2>1. c.kind = "favorites" /\ Replies(c, srv.favorites, srv)
    BY <1>2 DEF ServeRead, SavedCore
  <2>2. /\ st' = st /\ srv' = srv /\ Requests' = Requests
        /\ Alone(calls', "favorites", srv.favorites) /\ (Sought(calls', "favorites") <=> Sought(calls, "favorites"))
    BY <2>1, RepliesAlone DEF SavedCore
  <2>3. QED BY <2>2 DEF SavedCore
<1>3. ASSUME NEW c \in Requests, Answer(c) # Waiting, SavedArrives(c)
      PROVE  SavedCore'
  <2>1. Answer(c) = srv.favorites /\ ~Threw(c) /\ c.kind = "favorites"
    BY <1>1, <1>3, FavoritesAssumption DEF SavedCore, Alone, Answer, Threw, Requests, Marks
  <2> DEFINE s == [st EXCEPT !.loading = FALSE, !.items = IF Threw(c) THEN {} ELSE Answer(c)]
  <2>2. Takes(c, s, {}, {}) /\ DOMAIN s = DOMAIN st /\ s.items = srv.favorites
    BY <1>1, <1>3, <2>1 DEF SavedArrives
  <2> HIDE DEF s
  <2>3. st' = s /\ srv' = srv /\ Only(Requests \ {c}, {}) /\ Alone(calls', "favorites", srv.favorites)
    <3>1. Alone(calls, "favorites", srv.favorites)
      BY DEF SavedCore
    <3>2. QED BY <1>3, <2>2, <3>1, TakesOnly
  <2>4. \A o \in Requests' : o.kind = "favorites"
    BY <2>3 DEF Only, SavedCore
  <2>5. QED BY <2>2, <2>3, <2>4 DEF SavedCore
<1>4. QED BY <1>2, <1>3, SavedSteps

\* It is so when the page is mounted.
LEMMA SavedStart == SavedInit => page = "saved" /\ SavedCore
<1> SUFFICES ASSUME SavedInit PROVE page = "saved" /\ SavedCore
  OBVIOUS
<1>1. PICK s, records :
        /\ Mounted("saved", s, Load({"favorites"}), records)
        /\ DOMAIN s = {"items", "loading"}
        /\ \A r \in records : DOMAIN r = {"favorites"} /\ r.favorites \in Favorites
  BY DEF SavedInit
<1>2. /\ page = "saved" /\ st = s /\ srv \in records /\ Alone(calls, "favorites", srv.favorites) /\ Sought(calls, "favorites")
      /\ \A o \in Requests : o.kind = "favorites"
  BY <1>1, MountedOnce
<1>3. QED BY <1>1, <1>2 DEF SavedCore

\* Once everything is answered, the page shows what is true.
LEMMA SavedEnd == ASSUME SavedCore, Settled PROVE SavedTrue
BY SettledAlone DEF SavedCore, SavedTrue

AgentAnswer == IF srv.agents = {} THEN Failed ELSE Snapshot[st.id]

\* The agent is on its way, is the one reported, or is said to be missing
\* when there is none.
AgentCore ==
  /\ DOMAIN st = {"id", "agent", "error", "tab"} /\ st.id \in Agents
  /\ srv.agents \in {{}, {st.id}} /\ DOMAIN srv = {"agents"}
  /\ \A c \in Requests : c.kind = "agent" /\ c.arg = st.id
  /\ Alone(calls, "agent", AgentAnswer)
  /\ IF Sought(calls, "agent") THEN ~st.error
     ELSE IF srv.agents = {} THEN st.error ELSE ~st.error /\ st.agent = Snapshot[st.id]

\* The steps that this page takes while nobody else does anything.
LEMMA AgentSteps ==
  ASSUME page = "agent", AgentCore, Inside
  PROVE  AgentClick \/ \E c \in Requests : AgentServe(c) \/ (Answer(c) # Waiting /\ AgentArrives(c))
BY DEF AgentCore, Inside, Click, ServeSome, ServeRead, Serve, ArriveSome, Arrive, TimerSome, PosturePages, FilterPages,
       InstallUrlServed, DetailsServe, ReportServe, AgentServe, RegistryServe, SubmitServe, NewItemServe

\* Every step of a calm visit keeps it so.
LEMMA AgentCalm ==
  ASSUME page = "agent", VisitType, AgentCore, Inside
  PROVE  AgentCore'
<1>1. /\ DOMAIN st = {"id", "agent", "error", "tab"} /\ st.id \in Agents
      /\ srv.agents \in {{}, {st.id}} /\ DOMAIN srv = {"agents"}
  BY DEF AgentCore
<1>2. CASE AgentClick
  <2>1. PICK x : Acts([st EXCEPT !.tab = x], {}, {})
    BY <1>2 DEF AgentClick
  <2> DEFINE s == [st EXCEPT !.tab = x]
  <2>2. Acts(s, {}, {}) /\ DOMAIN s = DOMAIN st /\ s.id = st.id /\ s.error = st.error /\ s.agent = st.agent
    BY <1>1, <2>1
  <2> HIDE DEF s
  <2>3. /\ st' = s /\ srv' = srv /\ Only(Requests, {})
        /\ Alone(calls', "agent", AgentAnswer) /\ (Sought(calls', "agent") <=> Sought(calls, "agent"))
    BY <2>2, ActsAlone DEF AgentCore
  <2>4. \A c \in Requests' : c.kind = "agent" /\ c.arg = st.id
    BY <2>3 DEF Only, AgentCore
  <2>5. AgentAnswer' = AgentAnswer
    BY <2>2, <2>3 DEF AgentAnswer
  <2>6. QED BY <2>2, <2>3, <2>4, <2>5 DEF AgentCore
<1>3. ASSUME NEW c \in Requests, AgentServe(c)
      PROVE  AgentCore'
  <2>1. Replies(c, AgentAnswer, srv)
    BY <1>1, <1>3 DEF AgentServe, AgentAnswer, AgentCore
  <2>2. /\ st' = st /\ srv' = srv /\ Requests' = Requests
        /\ Alone(calls', "agent", AgentAnswer) /\ (Sought(calls', "agent") <=> Sought(calls, "agent"))
    BY <2>1, RepliesAlone DEF AgentCore
  <2>3. AgentAnswer' = AgentAnswer
    BY <2>2 DEF AgentAnswer
  <2>4. QED BY <2>2, <2>3 DEF AgentCore
<1>4. ASSUME NEW c \in Requests, Answer(c) # Waiting, AgentArrives(c)
      PROVE  AgentCore'
  <2>1. Answer(c) = AgentAnswer /\ (Threw(c) <=> srv.agents = {}) /\ c.kind = "agent" /\ ~st.error
    <3>1. Answer(c) = AgentAnswer /\ c.kind = "agent" /\ ~st.error
      BY <1>4 DEF AgentCore, Alone, Answer, Requests, Sought
    <3>2. QED BY <1>1, <3>1, SnapshotAssumption DEF AgentAnswer, Threw, Marks
  <2> DEFINE s == IF Threw(c) THEN [st EXCEPT !.error = TRUE] ELSE [st EXCEPT !.agent = Answer(c)]
  <2>2. Takes(c, s, {}, {})
    BY <1>4 DEF AgentArrives
  <2>3. /\ DOMAIN s = DOMAIN st /\ s.id = st.id
        /\ IF srv.agents = {} THEN s.error ELSE ~s.error /\ s.agent = Snapshot[st.id]
    <3>1. CASE srv.agents = {}
      BY <1>1, <2>1, <3>1
    <3>2. CASE srv.agents # {}
      BY <1>1, <2>1, <3>2 DEF AgentAnswer
    <3>3. QED BY <3>1, <3>2
  <2> HIDE DEF s
  <2>4. st' = s /\ srv' = srv /\ Only(Requests \ {c}, {}) /\ Alone(calls', "agent", AgentAnswer) /\ ~Sought(calls', "agent")
    <3>1. Alone(calls, "agent", AgentAnswer)
      BY DEF AgentCore
    <3>2. QED BY <1>4, <2>1, <2>2, <3>1, TakesOnly
  <2>5. \A o \in Requests' : o.kind = "agent" /\ o.arg = st.id
    BY <2>4 DEF Only, AgentCore
  <2>6. AgentAnswer' = AgentAnswer
    BY <2>3, <2>4 DEF AgentAnswer
  <2>7. QED BY <1>1, <2>3, <2>4, <2>5, <2>6 DEF AgentCore
<1>5. QED BY <1>2, <1>3, <1>4, AgentSteps

\* It is so when the page is mounted.
LEMMA AgentStart == AgentInit => page = "agent" /\ AgentCore
<1> SUFFICES ASSUME AgentInit PROVE page = "agent" /\ AgentCore
  OBVIOUS
<1>1. PICK a, s, records :
        /\ a \in Agents
        /\ Mounted("agent", s, {Ask("agent", a)}, records)
        /\ DOMAIN s = {"id", "agent", "error", "tab"} /\ s.id = a /\ ~s.error
        /\ \A r \in records : DOMAIN r = {"agents"} /\ r.agents \in {{}, {a}}
  <2>1. PICK a \in Agents, gone \in BOOLEAN :
          Mounted("agent", [id |-> a, agent |-> NoData, error |-> FALSE, tab |-> "capabilities"], {Ask("agent", a)},
                  {[agents |-> IF gone THEN {} ELSE {a}]})
    BY DEF AgentInit
  <2> DEFINE s == [id |-> a, agent |-> NoData, error |-> FALSE, tab |-> "capabilities"]
             records == {[agents |-> IF gone THEN {} ELSE {a}]}
  <2>2. DOMAIN s = {"id", "agent", "error", "tab"} /\ s.id = a /\ ~s.error
    OBVIOUS
  <2>3. \A r \in records : DOMAIN r = {"agents"} /\ r.agents \in {{}, {a}}
    OBVIOUS
  <2>4. Mounted("agent", s, {Ask("agent", a)}, records)
    BY <2>1
  <2> HIDE DEF s, records
  <2>5. QED BY <2>2, <2>3, <2>4
<1>2. \A r \in {Ask("agent", a)} : r.kind = "agent" /\ r.arg = a
  BY DEF Ask
<1>3. \E r \in {Ask("agent", a)} : r.kind = "agent"
  BY DEF Ask
<1> DEFINE new == {Ask("agent", a)}
<1>4. Mounted("agent", s, new, records) /\ (\A r \in new : r.kind = "agent" /\ r.arg = a) /\ \E r \in new : r.kind = "agent"
  BY <1>1, <1>2, <1>3
<1> HIDE DEF new
<1>5. /\ page = "agent" /\ st = s /\ srv \in records /\ Alone(calls, "agent", AgentAnswer) /\ Sought(calls, "agent")
      /\ \A o \in Requests : o.kind = "agent" /\ o.arg = a
  <2>1. \A q, r \in new : q.kind = "agent" /\ r.kind = "agent" => q.arg = r.arg
    BY <1>4
  <2>2. QED BY <1>4, <2>1, MountedAlone
<1>6. QED BY <1>1, <1>5 DEF AgentCore

\* Once everything is answered, the page shows what is true.
LEMMA AgentEnd == ASSUME AgentCore, Settled PROVE AgentTrue
<1>1. /\ st.id \in Agents
      /\ IF srv.agents = {} THEN st.error ELSE ~st.error /\ st.agent = Snapshot[st.id]
  BY SettledAlone DEF AgentCore
<1>2. CASE st.error
  BY <1>1, <1>2 DEF AgentTrue
<1>3. CASE ~st.error
  <2> DEFINE x == Snapshot[st.id]
  <2>1. st.agent = x
    BY <1>1, <1>3
  <2>2. TabEmpty => TabRows(x, st.tab) = {}
    BY <2>1 DEF TabEmpty
  <2>3. /\ ~x.complete => Headline(st.agent).partial
        /\ x.unattended => Headline(st.agent).unattended
    BY <2>1 DEF Headline
  <2>4. ASSUME NEW y \in x.access, y.level = "unknown"
        PROVE  \E r \in CapabilityTab(st.agent) : r.what = y.what /\ r.level = "could not tell" /\ r.reach = "counted as any"
    <3> DEFINE r == [what |-> y.what, level |-> IF y.level = "unknown" THEN "could not tell" ELSE y.level, reach |-> Reach[y.level],
                     because |-> IF y.evidence = {} THEN "no rule gave this" ELSE "rules"]
    <3>1. r \in CapabilityTab(st.agent)
      BY <2>1, <2>4 DEF CapabilityTab
    <3>2. r.what = y.what /\ r.level = "could not tell" /\ r.reach = "counted as any"
      BY <2>4 DEF Reach
    <3> HIDE DEF r
    <3>3. QED BY <3>1, <3>2
  <2>5. TabCounts(st.agent)["permissions"] <= Cardinality(x.rules)
    <3>1. IsFiniteSet(x.rules)
      <4>1. Snapshot["a1"].rules = {Rule("allow", {"shell"})} \cup {Rule("deny", {})}
        BY DEF Snapshot
      <4>2. Snapshot["a2"].rules = {Rule("ask", {"shell"})} /\ Snapshot["a3"].rules = {}
        BY DEF Snapshot
      <4>3. IsFiniteSet({Rule("allow", {"shell"})} \cup {Rule("deny", {})}) /\ IsFiniteSet({Rule("ask", {"shell"})})
        BY FS_Singleton, FS_Union
      <4>4. QED BY <1>1, <4>1, <4>2, <4>3, FS_EmptySet DEF Agents
    <3> DEFINE T == RulesTab(x)
               f == [r \in x.rules |-> RuleRow([rule |-> r, agent |-> st.id])]
    <3>2. TabRows(x, "permissions") = T
      BY DEF TabRows
    <3>3. TabCounts(x)["permissions"] = Cardinality(T)
      BY <3>2 DEF TabCounts, AgentTabs
    <3>4. f \in Surjection(x.rules, T)
      BY DEF Surjection, RulesTab
    <3> HIDE DEF f, T
    <3>5. Cardinality(T) <= Cardinality(x.rules)
      BY <3>1, <3>4, FS_Surjection
    <3>6. QED BY <2>1, <3>3, <3>5
  <2>6. QED BY <1>3, <2>2, <2>3, <2>4, <2>5, Zenon DEF AgentTrue
<1>4. QED BY <1>2, <1>3

-----------------------------------------------------------------------------
(* The posture pages *)

ListOf(agents) ==
  CASE page \in {"agents", "devices"} -> agents
    [] page = "skills" -> SkillsOf(agents)
    [] page = "inventory" -> AssetsOf(agents)
    [] page = "permissions" -> RulesOf(agents)
    [] page = "paths" -> PathsOf(agents)

\* A row that the server has removed is about to go.
Leaving(a) == \E c \in Requests : c.kind = "forget" /\ c.arg = a /\ Answered(c)

\* The rows are on their way or those of the server, but for agents that were
\* removed and whose answer will take them away.
PostureCore ==
  /\ DOMAIN st = {"rows", "error", "filter", "expanded", "removing", "may"} /\ ~st.error
  /\ DOMAIN srv = {"agents", "may"} /\ srv.agents \in SUBSET Agents /\ srv.may \in BOOLEAN
  /\ \A c \in Requests : c.kind = ListKind[page] \/ (page = "agents" /\ c.kind \in {"membership", "forget"})
  /\ Alone(calls, ListKind[page], ListOf(srv.agents))
  /\ IF Sought(calls, ListKind[page]) THEN st.rows = NoData /\ ~Sought(calls, "forget")
     ELSE IF page = "agents" THEN srv.agents \subseteq st.rows /\ \A a \in st.rows \ srv.agents : Leaving(a)
     ELSE st.rows = ListOf(srv.agents)
  /\ \A a \in srv.agents : ~Leaving(a)

\* The steps that this page takes while nobody else does anything.
LEMMA PostureSteps ==
  ASSUME page \in PosturePages, PostureCore, Inside
  PROVE  PostureClick \/ \E c \in Requests : ReportServe(c) \/ (Answer(c) # Waiting /\ PostureArrive(c))
<1>1. \A c \in Requests : c.kind \in {"listAgents", "listSkills", "listMcpServers", "listPermissions", "listAttackPaths", "membership", "forget"}
  BY DEF PostureCore, PosturePages, ListKind
<1>2. DOMAIN srv = {"agents", "may"}
  BY DEF PostureCore
<1>3. QED
  BY <1>1, <1>2 DEF Inside, Click, ServeSome, Serve, ServeRead, ArriveSome, Arrive, TimerSome, PosturePages, FilterPages,
       InstallUrlServed, DetailsServe, AgentServe, RegistryServe, SubmitServe, NewItemServe

LEMMA ListKinds ==
  ASSUME page \in PosturePages
  PROVE  /\ ListKind[page] \notin {"membership", "forget"}
         /\ page = "agents" => ListKind[page] = "listAgents"
BY DEF PosturePages, ListKind

LEMMA ListAnswers ==
  ASSUME page \in PosturePages, NEW agents \in SUBSET Agents
  PROVE  ListOf(agents) \notin Marks
BY ReportsAssumption DEF PosturePages, ListOf

\* Every step of a calm visit keeps it so.
LEMMA PostureCalm ==
  ASSUME page \in PosturePages, VisitType, PostureCore, Inside
  PROVE  PostureCore'
<1> DEFINE k == ListKind[page]
           v == ListOf(srv.agents)
<1>1. /\ DOMAIN st = {"rows", "error", "filter", "expanded", "removing", "may"} /\ ~st.error
      /\ DOMAIN srv = {"agents", "may"} /\ srv.agents \in SUBSET Agents /\ srv.may \in BOOLEAN
      /\ k \notin {"membership", "forget"} /\ v \notin Marks
      /\ \A c \in Requests : c.kind = k \/ (page = "agents" /\ c.kind \in {"membership", "forget"})
      /\ Alone(calls, k, v)
      /\ IF Sought(calls, k) THEN st.rows = NoData /\ ~Sought(calls, "forget")
         ELSE IF page = "agents" THEN srv.agents \subseteq st.rows /\ \A a \in st.rows \ srv.agents : Leaving(a)
         ELSE st.rows = v
      /\ \A a \in srv.agents : ~Leaving(a)
  BY ListKinds, ListAnswers DEF PostureCore
<1>2. page' = page
  BY InsideForward DEF Forward
<1>3. ASSUME DOMAIN st' = DOMAIN st, ~st'.error, DOMAIN srv' = DOMAIN srv, srv'.agents \in SUBSET Agents, srv'.may \in BOOLEAN,
             \A c \in Requests' : c.kind = k \/ (page = "agents" /\ c.kind \in {"membership", "forget"}),
             Alone(calls', k, ListOf(srv.agents)'),
             IF Sought(calls', k) THEN st'.rows = NoData /\ ~Sought(calls', "forget")
             ELSE IF page = "agents" THEN srv'.agents \subseteq st'.rows /\ \A a \in st'.rows \ srv'.agents : Leaving(a)'
             ELSE st'.rows = ListOf(srv.agents)',
             \A a \in srv'.agents : ~Leaving(a)'
      PROVE  PostureCore'
  BY <1>1, <1>2, <1>3 DEF PostureCore
<1>4. srv' = srv => ListOf(srv.agents)' = v
  BY <1>2 DEF ListOf
<1> HIDE DEF k, v
<1>5. CASE PostureClick
  <2>1. PICK s, new : /\ Acts(s, {}, new) /\ DOMAIN s = DOMAIN st /\ ~s.error /\ s.rows = st.rows
                      /\ \A r \in new : page = "agents" /\ r.kind = "forget"
    <3>1. CASE page = "agents" /\ \E a : Forget(a)
      <4>1. PICK a : Acts([st EXCEPT !.removing = a], {}, {Ask("forget", a)})
        BY <3>1 DEF Forget
      <4> DEFINE s == [st EXCEPT !.removing = a]
                 new == {Ask("forget", a)}
      <4>2. Acts(s, {}, new) /\ DOMAIN s = DOMAIN st /\ ~s.error /\ s.rows = st.rows /\ \A r \in new : r.kind = "forget"
        BY <1>1, <4>1 DEF Ask
      <4> HIDE DEF s, new
      <4>3. QED BY <3>1, <4>2
    <3>2. CASE \E f : Acts([st EXCEPT !.filter = f], {}, {})
      <4>1. PICK f : Acts([st EXCEPT !.filter = f], {}, {})
        BY <3>2
      <4> DEFINE s == [st EXCEPT !.filter = f]
      <4>2. Acts(s, {}, {}) /\ DOMAIN s = DOMAIN st /\ ~s.error /\ s.rows = st.rows
        BY <1>1, <4>1
      <4> HIDE DEF s
      <4>3. QED BY <4>2
    <3>3. CASE \E x : Acts([st EXCEPT !.expanded = IF @ = x.key THEN None ELSE x.key], {}, {})
      <4>1. PICK x : Acts([st EXCEPT !.expanded = IF @ = x.key THEN None ELSE x.key], {}, {})
        BY <3>3
      <4> DEFINE s == [st EXCEPT !.expanded = IF @ = x.key THEN None ELSE x.key]
      <4>2. Acts(s, {}, {}) /\ DOMAIN s = DOMAIN st /\ ~s.error /\ s.rows = st.rows
        BY <1>1, <4>1
      <4> HIDE DEF s
      <4>3. QED BY <4>2
    <3>4. QED BY <1>5, <3>1, <3>2, <3>3 DEF PostureClick
  <2>2. st.rows # NoData
    BY <1>5 DEF PostureClick
  <2>3. ~Sought(calls, k)
    BY <1>1, <2>2
  <2>4. \A r \in new : r.kind # k
    BY <1>1, <2>1
  <2>5. /\ st' = s /\ srv' = srv /\ Only(Requests, new) /\ Alone(calls', k, v) /\ ~Sought(calls', k)
    BY <1>1, <2>1, <2>3, <2>4, ActsAlone
  <2>6. \A c \in Requests' : c.kind = k \/ (page = "agents" /\ c.kind \in {"membership", "forget"})
    BY <1>1, <2>1, <2>5 DEF Only
  <2>7. \A a : Leaving(a)' <=> Leaving(a)
    <3>1. Sends(Requests, new)
      <4>1. Requests \ {} = Requests
        OBVIOUS
      <4>2. QED BY <2>1, <4>1, ActsFacts
    <3>2. /\ Requests' = Requests \cup New(new) /\ \A o \in Requests : calls'[o] = calls[o]
          /\ \A o \in New(new) : calls'[o] = Waiting
      BY <3>1 DEF Sends
    <3>3. QED BY <3>2 DEF Leaving, Answered, Answer
  <2> HIDE DEF Leaving
  <2>8. QED BY <1>1, <1>3, <1>4, <2>1, <2>3, <2>5, <2>6, <2>7
<1>6. ASSUME NEW c \in Requests, ReportServe(c)
      PROVE  PostureCore'
  <2>1. CASE \E a : Replies(c, a, srv) /\ c.kind \in {k, "membership"} /\ (c.kind = k => a = v)
    <3>1. PICK a : Replies(c, a, srv) /\ c.kind \in {k, "membership"} /\ (c.kind = k => a = v)
      BY <2>1
    <3>2. /\ st' = st /\ srv' = srv /\ Requests' = Requests /\ Alone(calls', k, v) /\ (Sought(calls', k) <=> Sought(calls, k))
          /\ \A o \in Requests \ {c} : calls'[o] = calls[o]
      BY <1>1, <3>1, RepliesAlone, RepliesFacts
    <3>3. \A b : Leaving(b)' <=> Leaving(b)
      BY <1>1, <3>1, <3>2 DEF Leaving, Answered, Answer
    <3>4. Sought(calls', "forget") <=> Sought(calls, "forget")
      BY <3>2 DEF Sought, Requests
    <3> HIDE DEF Leaving
    <3>5. QED BY <1>1, <1>3, <1>4, <3>2, <3>3, <3>4
  <2>2. CASE c.kind = "forget"
    <3>1. page = "agents" /\ ~Sought(calls, k)
      BY <1>1, <2>2 DEF Sought, Requests
    <3>2. PICK a, r : /\ Replies(c, a, r) /\ DOMAIN r = DOMAIN srv /\ r.may = srv.may /\ r.agents \in SUBSET Agents
                      /\ \/ a = Failed /\ r = srv
                         \/ a \notin {Waiting, Failed} /\ r.agents = srv.agents \ {c.arg}
      <4>1. CASE srv.may /\ c.arg \in srv.agents
        <5> DEFINE r == [srv EXCEPT !.agents = @ \ {c.arg}]
        <5>1. Replies(c, "ok", r)
          BY <1>6, <2>2, <4>1 DEF ReportServe
        <5>2. DOMAIN r = DOMAIN srv /\ r.may = srv.may /\ r.agents = srv.agents \ {c.arg} /\ r.agents \in SUBSET Agents
          BY <1>1
        <5> HIDE DEF r
        <5>3. "ok" \notin {Waiting, Failed}
          BY MarksAssumption DEF Marks
        <5>4. QED BY <5>1, <5>2, <5>3
      <4>2. CASE ~(srv.may /\ c.arg \in srv.agents)
        <5>1. Replies(c, Failed, srv)
          BY <1>6, <2>2, <4>2 DEF ReportServe
        <5>2. QED BY <1>1, <5>1
      <4>3. QED BY <4>1, <4>2
    <3>3. /\ st' = st /\ srv' = r /\ Requests' = Requests /\ calls'[c] = a /\ \A o \in Requests \ {c} : calls'[o] = calls[o]
          /\ calls[c] = Waiting
      BY <3>2, RepliesFacts
    <3>4. ~Sought(calls', k) /\ Alone(calls', k, ListOf(srv.agents)')
      BY <3>1, <3>3 DEF Sought, Alone, Requests
    <3>5. \A b : Leaving(b)' <=> Leaving(b) \/ (b = c.arg /\ a \notin {Waiting, Failed})
      BY <2>2, <3>3 DEF Leaving, Answered, Answer
    <3>6. srv'.agents \subseteq st'.rows /\ \A b \in st'.rows \ srv'.agents : Leaving(b)'
      BY <1>1, <3>1, <3>2, <3>3, <3>5
    <3>7. \A b \in srv'.agents : ~Leaving(b)'
      BY <1>1, <3>2, <3>3, <3>5
    <3> HIDE DEF Leaving
    <3>8. QED BY <1>1, <1>3, <3>1, <3>2, <3>3, <3>4, <3>6, <3>7
  <2>3. c.kind \in {k, "membership"} => \E a : Replies(c, a, srv) /\ c.kind \in {k, "membership"} /\ (c.kind = k => a = v)
    <3>1. ASSUME c.kind = k
          PROVE  Replies(c, v, srv)
      BY <1>6, <3>1 DEF ReportServe, PosturePages, ListKind, ListOf, k, v
    <3>2. ASSUME c.kind = "membership"
          PROVE  Replies(c, srv.may, srv)
      BY <1>6, <3>2 DEF ReportServe
    <3>3. QED BY <1>1, <3>1, <3>2
  <2>4. QED BY <1>1, <2>1, <2>2, <2>3
<1>7. ASSUME NEW c \in Requests, Answer(c) # Waiting, PostureArrive(c)
      PROVE  PostureCore'
  <2>1. ASSUME NEW s, Takes(c, s, {}, {}), DOMAIN s = DOMAIN st, ~s.error
        PROVE  /\ st' = s /\ srv' = srv /\ Alone(calls', k, v)
               /\ \A o \in Requests' : o.kind = k \/ (page = "agents" /\ o.kind \in {"membership", "forget"})
               /\ Requests' = Requests \ {c} /\ \A o \in Requests' : calls'[o] = calls[o]
               /\ c.kind # k => (Sought(calls', k) <=> Sought(calls, k))
               /\ c.kind = k => ~Sought(calls', k) /\ Answer(c) = v
    <3>1. \A r \in {} : r.kind # k
      OBVIOUS
    <3>2. /\ st' = s /\ srv' = srv /\ Alone(calls', k, v) /\ Only(Requests \ {c}, {})
          /\ c.kind # k => (Sought(calls', k) <=> Sought(calls, k))
          /\ c.kind = k => ~Sought(calls', k) /\ Answer(c) = v
      BY <1>1, <1>7, <2>1, <3>1, TakesAlone
    <3>3. Requests' = Requests \ {c} /\ \A o \in Requests' : calls'[o] = calls[o]
      <4>1. (Requests \ {c}) \ {} = Requests \ {c}
        OBVIOUS
      <4>2. Sends(Requests \ {c}, {})
        BY <2>1, <4>1, TakesFacts
      <4>3. QED BY <4>2, NumberedNone DEF Sends, New
    <3>4. QED BY <1>1, <3>2, <3>3
  <2>2. CASE ListArrives(c)
    <3>1. c.kind = k /\ Sought(calls, k) /\ ~Threw(c)
      BY <1>1, <1>7, <2>2 DEF ListArrives, k, Sought, Requests, Threw, Alone, Answer, Marks
    <3> DEFINE s == [st EXCEPT !.rows = Answer(c)]
    <3>2. Takes(c, s, {}, {}) /\ DOMAIN s = DOMAIN st /\ ~s.error /\ s.rows = Answer(c)
      BY <1>1, <2>2, <3>1 DEF ListArrives
    <3> HIDE DEF s
    <3>3. /\ st' = s /\ srv' = srv /\ Alone(calls', k, v)
          /\ \A o \in Requests' : o.kind = k \/ (page = "agents" /\ o.kind \in {"membership", "forget"})
          /\ Requests' = Requests \ {c} /\ \A o \in Requests' : calls'[o] = calls[o]
          /\ ~Sought(calls', k) /\ st'.rows = v
      BY <2>1, <3>1, <3>2
    <3>4. page = "agents" => v = srv.agents
      BY DEF v, ListOf
    <3>5. \A b : ~Leaving(b)'
      BY <1>1, <3>1, <3>3 DEF Leaving, Sought, Requests
    <3> HIDE DEF Leaving
    <3>6. QED BY <1>1, <1>3, <1>4, <3>2, <3>3, <3>4, <3>5
  <2>3. CASE GrantArrives(c)
    <3> DEFINE s == IF Threw(c) THEN st ELSE [st EXCEPT !.may = Answer(c)]
    <3>1. Takes(c, s, {}, {}) /\ DOMAIN s = DOMAIN st /\ ~s.error /\ s.rows = st.rows /\ c.kind = "membership"
      BY <1>1, <2>3 DEF GrantArrives
    <3> HIDE DEF s
    <3>2. /\ st' = s /\ srv' = srv /\ Alone(calls', k, v) /\ (Sought(calls', k) <=> Sought(calls, k))
          /\ \A o \in Requests' : o.kind = k \/ (page = "agents" /\ o.kind \in {"membership", "forget"})
          /\ Requests' = Requests \ {c} /\ \A o \in Requests' : calls'[o] = calls[o]
      BY <1>1, <2>1, <3>1
    <3>3. \A b : Leaving(b)' <=> Leaving(b)
      BY <3>1, <3>2 DEF Leaving, Answered, Answer
    <3>4. Sought(calls', "forget") => Sought(calls, "forget")
      BY <3>2 DEF Sought, Requests
    <3> HIDE DEF Leaving
    <3>5. QED BY <1>1, <1>3, <1>4, <3>1, <3>2, <3>3, <3>4
  <2>4. CASE Forgotten(c)
    <3> DEFINE s == [st EXCEPT !.removing = None, !.rows = IF Threw(c) THEN @ ELSE @ \ {c.arg}]
    <3>1. /\ Takes(c, s, {}, {}) /\ DOMAIN s = DOMAIN st /\ ~s.error /\ c.kind = "forget"
          /\ s.rows = IF Threw(c) THEN st.rows ELSE st.rows \ {c.arg}
      BY <1>1, <2>4 DEF Forgotten
    <3> HIDE DEF s
    <3>2. /\ st' = s /\ srv' = srv /\ Alone(calls', k, v) /\ (Sought(calls', k) <=> Sought(calls, k))
          /\ \A o \in Requests' : o.kind = k \/ (page = "agents" /\ o.kind \in {"membership", "forget"})
          /\ Requests' = Requests \ {c} /\ \A o \in Requests' : calls'[o] = calls[o]
      BY <1>1, <2>1, <3>1
    <3>3. page = "agents" /\ ~Sought(calls, k)
      BY <1>1, <3>1 DEF Sought, Requests
    <3>4. \A b : Leaving(b)' => Leaving(b)
      BY <3>2 DEF Leaving, Answered, Answer
    <3>5. \A b : Leaving(b) => Leaving(b)' \/ (~Threw(c) /\ b = c.arg)
      BY <3>2 DEF Leaving, Answered, Answer, Threw
    <3>6. ~Threw(c) => Leaving(c.arg)
      BY <1>7, <3>1 DEF Leaving, Answered, Threw
    <3> HIDE DEF Leaving
    <3>7. srv'.agents \subseteq st'.rows /\ \A b \in st'.rows \ srv'.agents : Leaving(b)'
      BY <1>1, <3>1, <3>2, <3>3, <3>5, <3>6
    <3>8. QED BY <1>1, <1>3, <1>4, <3>1, <3>2, <3>3, <3>4, <3>7
  <2>5. QED BY <1>7, <2>2, <2>3, <2>4 DEF PostureArrive
<1>8. QED BY <1>5, <1>6, <1>7, PostureSteps

\* It is so when the page is mounted.
LEMMA PostureStart == PostureInit => page \in PosturePages /\ PostureCore
<1> SUFFICES ASSUME PostureInit PROVE page \in PosturePages /\ PostureCore
  OBVIOUS
<1>1. PICK p, s, kinds :
        /\ p \in PosturePages
        /\ Mounted(p, s, Load(kinds), Reported)
        /\ DOMAIN s = {"rows", "error", "filter", "expanded", "removing", "may"} /\ ~s.error /\ s.rows = NoData
        /\ ListKind[p] \in kinds /\ \A k \in kinds : k = ListKind[p] \/ (p = "agents" /\ k = "membership")
  BY DEF PostureInit
<1> DEFINE new == Load(kinds)
<1>2. Mounted(p, s, new, Reported) /\ (\A r \in new : r.kind \in kinds /\ r.arg = None) /\ \E r \in new : r.kind = ListKind[p]
  BY <1>1, LoadFacts
<1> HIDE DEF new
<1>3. \A q, r \in new : q.kind = ListKind[p] /\ r.kind = ListKind[p] => q.arg = r.arg
  BY <1>2
<1>4. /\ page = p /\ st = s /\ srv \in Reported
      /\ \A o \in Requests : \E r \in new : o.kind = r.kind /\ o.arg = r.arg
      /\ Alone(calls, ListKind[p], ListOf(srv.agents)) /\ Sought(calls, ListKind[p])
  BY <1>2, <1>3, MountedAlone
<1>5. DOMAIN srv = {"agents", "may"} /\ srv.agents \in SUBSET Agents /\ srv.may \in BOOLEAN
  <2>1. /\ srv \in {[agents |-> a, may |-> TRUE] : a \in SUBSET Agents} \cup {[agents |-> Agents, may |-> FALSE]}
    BY <1>4 DEF Reported
  <2>2. CASE srv = [agents |-> Agents, may |-> FALSE]
    BY <2>2
  <2>3. ASSUME NEW a \in SUBSET Agents, srv = [agents |-> a, may |-> TRUE]
        PROVE  DOMAIN srv = {"agents", "may"} /\ srv.agents \in SUBSET Agents /\ srv.may \in BOOLEAN
    BY <2>3
  <2>4. QED BY <2>1, <2>2, <2>3
<1>6. \A c \in Requests : c.kind = ListKind[p] \/ (p = "agents" /\ c.kind = "membership")
  BY <1>1, <1>2, <1>4
<1>7. ~Sought(calls, "forget") /\ \A a : ~Leaving(a)
  BY <1>1, <1>4, <1>6, ListKinds DEF Sought, Leaving, Requests
<1>8. QED BY <1>1, <1>4, <1>5, <1>6, <1>7 DEF PostureCore

\* Of some agents of one computer, one has the worst risk and the least score.
LEMMA WorstAgent ==
  ASSUME NEW group \in SUBSET Agents, NEW a \in group
  PROVE  \E w \in group : \A b \in group : /\ RiskRank[Snapshot[w].risk] <= RiskRank[Snapshot[b].risk]
                                            /\ Snapshot[w].score <= Snapshot[b].score
<1>1. /\ RiskRank[Snapshot["a1"].risk] = 0 /\ Snapshot["a1"].score = 20
      /\ RiskRank[Snapshot["a2"].risk] = 3 /\ Snapshot["a2"].score = 90
      /\ RiskRank[Snapshot["a3"].risk] = 2 /\ Snapshot["a3"].score = 60
  BY DEF RiskRank, Snapshot
<1>2. group \subseteq {"a1", "a2", "a3"}
  BY DEF Agents
<1>3. CASE "a1" \in group
  BY <1>1, <1>2, <1>3
<1>4. CASE "a1" \notin group /\ "a3" \in group
  BY <1>1, <1>2, <1>4
<1>5. CASE "a1" \notin group /\ "a3" \notin group
  BY <1>1, <1>2, <1>5
<1>6. QED BY <1>3, <1>4, <1>5

LEMMA DeviceFacts ==
  ASSUME NEW agents \in SUBSET Agents, NEW a \in agents
  PROVE  \E row \in GroupByDevice(agents) :
           /\ a \in row.agents
           /\ row.score <= Snapshot[a].score /\ RiskRank[row.risk] <= RiskRank[Snapshot[a].risk]
<1> DEFINE d == Snapshot[a].device
           group == {b \in agents : Snapshot[b].device = d}
           worst == CHOOSE b \in group : \A c \in group : RiskRank[Snapshot[b].risk] <= RiskRank[Snapshot[c].risk]
           least == CHOOSE s \in {Snapshot[b].score : b \in group} : \A b \in group : s <= Snapshot[b].score
           row == DeviceRow(d, agents)
<1>1. group \in SUBSET Agents /\ a \in group
  OBVIOUS
<1>2. row \in GroupByDevice(agents)
  BY DEF GroupByDevice
<1>3. row = [device |-> d, agents |-> group, risk |-> Snapshot[worst].risk, score |-> least]
  BY DEF DeviceRow
<1> HIDE DEF group
<1>4. PICK w \in group : \A b \in group : /\ RiskRank[Snapshot[w].risk] <= RiskRank[Snapshot[b].risk]
                                          /\ Snapshot[w].score <= Snapshot[b].score
  BY <1>1, WorstAgent
<1>5. RiskRank[Snapshot[worst].risk] <= RiskRank[Snapshot[a].risk]
  BY <1>1, <1>4
<1>6. least <= Snapshot[a].score
  BY <1>1, <1>4
<1> HIDE DEF worst, least, row, d
<1>7. QED BY <1>1, <1>2, <1>3, <1>5, <1>6

\* Once everything is answered, the page shows what is true.
LEMMA PostureEnd == ASSUME page \in PosturePages, PostureCore, Settled PROVE PostureTrue
<1>1. srv.agents \in SUBSET Agents /\ ListOf(srv.agents) \notin Marks /\ ~st.error
  BY ListAnswers DEF PostureCore
<1>2. st.rows = ListOf(srv.agents)
  <2>1. \A a : ~Leaving(a)
    BY DEF Leaving, Settled
  <2>2. page = "agents" => st.rows = srv.agents
    BY <2>1, SettledAlone DEF PostureCore
  <2>3. QED BY <2>2, SettledAlone DEF PostureCore, ListOf
<1>3. page = "agents" => AgentsTrue
  BY <1>2 DEF ListOf, AgentsTrue
<1>4. page = "devices" => DevicesTrue
  BY <1>1, <1>2, DeviceFacts DEF ListOf, DevicesTrue
<1>5. ASSUME page = "skills", NEW a \in srv.agents, NEW s \in Snapshot[a].skills, st.filter \in {None, Snapshot[a].device}
      PROVE  [skill |-> s, agent |-> a] \in VisibleRows(st.rows)
  BY <1>2, <1>5 DEF ListOf, SkillsOf, VisibleRows, Matches
<1>6. ASSUME page = "inventory", NEW a \in srv.agents, NEW s \in Snapshot[a].servers, st.filter \in {None, s.scope}
      PROVE  \E x \in VisibleRows(st.rows) :
               /\ [agent |-> a, server |-> s] \in x.at
               /\ s.enabled \/ AssetRow(x).offsSomewhere
               /\ st.expanded = s.key => [agent |-> a, server |-> s] \in AssetRow(x).listed
  <2> DEFINE j == [agent |-> a, server |-> s]
             all == Installations(srv.agents)
             at == {i \in all : i.server.key = s.key}
             x == [key |-> s.key, at |-> at, scopes |-> {i.server.scope : i \in at},
                   url |-> \E i \in at : i.server.url,
                   everywhere |-> \A i \in at : i.server.enabled]
  <2>1. j \in all /\ j \in at
    BY DEF Installations
  <2>2. x \in AssetsOf(srv.agents)
    <3>1. s.key \in {i.server.key : i \in all}
      BY <2>1
    <3> DEFINE entry(k) == [key |-> k, at |-> {i \in all : i.server.key = k},
                            scopes |-> {i.server.scope : i \in {i \in all : i.server.key = k}},
                            url |-> \E i \in {i \in all : i.server.key = k} : i.server.url,
                            everywhere |-> \A i \in {i \in all : i.server.key = k} : i.server.enabled]
    <3>2. AssetsOf(srv.agents) = {entry(k) : k \in {i.server.key : i \in all}}
      BY DEF AssetsOf
    <3>3. x = entry(s.key)
      OBVIOUS
    <3> HIDE DEF entry, x, all
    <3>4. QED BY <3>1, <3>2, <3>3
  <2>3. st.rows = AssetsOf(srv.agents)
    BY <1>2, <1>6 DEF ListOf
  <2>4. s.scope \in x.scopes /\ (x.everywhere => s.enabled) /\ x.key = s.key /\ x.at = at
    BY <2>1
  <2>5. AssetRow(x).offsSomewhere = ~x.everywhere /\ (st.expanded = x.key => AssetRow(x).listed = x.at)
    BY DEF AssetRow
  <2> HIDE DEF x, at, j
  <2>6. x \in VisibleRows(st.rows)
    BY <1>6, <2>2, <2>3, <2>4 DEF VisibleRows, Matches
  <2>7. QED BY <2>1, <2>4, <2>5, <2>6 DEF j
<1>7. ASSUME page = "permissions", NEW a \in srv.agents, NEW r \in Snapshot[a].rules, st.filter \in {None, r.effect}
      PROVE  RuleRow([rule |-> r, agent |-> a]) \in {RuleRow(x) : x \in VisibleRows(st.rows)}
  <2>1. [rule |-> r, agent |-> a] \in VisibleRows(st.rows)
    BY <1>2, <1>7 DEF ListOf, RulesOf, VisibleRows, Matches
  <2>2. QED BY <2>1
<1>8. page = "paths" => st.rows = PathsOf(srv.agents)
  BY <1>2 DEF ListOf
<1>9. NoMatch => st.filter # None
  BY DEF NoMatch, VisibleRows, Matches
<1>10. ListsTrue
  BY <1>5, <1>6, <1>7, <1>8, <1>9 DEF ListsTrue
<1>11. SaysNone => CASE page = "skills" -> SkillsOf(srv.agents) = {}
                     [] page = "inventory" -> AssetsOf(srv.agents) = {}
                     [] page = "permissions" -> RulesOf(srv.agents) = {}
                     [] page = "paths" -> PathsOf(srv.agents) = {}
                     [] OTHER -> srv.agents = {}
  BY <1>2 DEF SaysNone, ListOf, PosturePages
<1>12. QED BY <1>3, <1>4, <1>10, <1>11 DEF PostureTrue

-----------------------------------------------------------------------------
(* The status page *)

StatusFields == {"services", "checked", "history"}

\* What the server has on record, and what is up: the site itself always.
StatusRecords ==
  /\ DOMAIN srv = {"up", "checks"} /\ "web" \in srv.up
  /\ \E deployed \in BOOLEAN : DOMAIN srv.checks = Monitored(deployed)
  /\ \A s \in DOMAIN srv.checks : srv.checks[s] \in DayTables
  /\ \A s \in DOMAIN srv.checks, d \in Days : srv.checks[s][d].ok <= srv.checks[s][d].checks

HistoryAnswer == IF "api" \in srv.up THEN HistoryOf(srv.checks) ELSE Failed
ProbeAnswer(s) == IF s \in srv.up THEN "ok" ELSE Failed
Probed == DOMAIN srv.checks \ {"web"}

StatusAnswers(c) ==
  \/ c.kind = "history" /\ Answer(c) \in {Waiting, HistoryAnswer}
  \/ c.kind = "probe" /\ c.arg \in Probed /\ Answer(c) \in {Waiting, ProbeAnswer(c.arg)}

\* The history is on its way or shown, and so is whether each service answers.
StatusCore ==
  /\ DOMAIN st = StatusFields
  /\ StatusRecords
  /\ \A c \in Requests : StatusAnswers(c)
  /\ \/ Sought(calls, "history")
     \/ st.history = IF "api" \in srv.up THEN HistoryOf(srv.checks) ELSE [s \in {} |-> Nothing]
  /\ \/ \A s \in Probed : \E c \in Requests : c.kind = "probe" /\ c.arg = s
     \/ /\ ~Sought(calls, "probe") /\ st.checked = TRUE
        /\ st.services = [s \in DOMAIN srv.checks |-> IF s \in srv.up THEN "operational" ELSE "down"]

\* The steps that this page takes while nobody else does anything.
LEMMA StatusSteps ==
  ASSUME page = "status", StatusCore, Inside
  PROVE  \E c \in Requests : StatusServe(c) \/ (Answer(c) # Waiting /\ StatusArrive(c))
<1>1. \A c \in Requests : c.kind \in {"history", "probe"}
  BY DEF StatusCore, StatusAnswers
<1>2. DOMAIN srv = {"up", "checks"}
  BY DEF StatusCore, StatusRecords
<1>3. QED
  BY <1>1, <1>2 DEF Inside, Click, ServeSome, Serve, ServeRead, ArriveSome, Arrive, TimerSome, PosturePages, FilterPages,
       InstallUrlServed, DetailsServe, ReportServe, AgentServe, RegistryServe, SubmitServe, NewItemServe

LEMMA Services == ASSUME NEW deployed \in BOOLEAN PROVE /\ {"web", "api", "auth"} \subseteq Monitored(deployed)
                                                         /\ Monitored(deployed) \subseteq {"web", "api", "auth", "defectdojo"}
BY DEF Monitored

\* A history can be told from a request without an answer.
LEMMA HistoryIsData ==
  ASSUME StatusRecords
  PROVE  HistoryOf(srv.checks) \notin Marks
<1> DEFINE s == {t \in DOMAIN srv.checks : Total(srv.checks[t], "checks") > 0}
<1>1. s \in SUBSET Monitored(TRUE)
  BY DEF StatusRecords, Monitored
<1>2. \A t \in s : Total(srv.checks[t], "checks") \in Nat /\ srv.checks[t] \in DayTables
  <2>1. ASSUME NEW x \in DayTables PROVE Total(x, "checks") \in Nat
    BY DEF DayTables, Total, Days
  <2>2. QED BY <2>1 DEF StatusRecords
<1>3. HistoryOf(srv.checks) = [t \in s |-> [days |-> srv.checks[t], recorded |-> Total(srv.checks[t], "checks")]]
  BY DEF HistoryOf
<1> HIDE DEF s
<1>4. HistoryOf(srv.checks) \in [s -> [days : DayTables, recorded : Nat]]
  BY <1>2, <1>3
<1>5. QED BY <1>1, <1>4, TablesAssumption

\* Every step of a calm visit keeps it so.
LEMMA StatusCalm ==
  ASSUME page = "status", VisitType, StatusCore, Inside
  PROVE  StatusCore'
<1>1. /\ DOMAIN st = StatusFields /\ StatusRecords
      /\ \A c \in Requests : StatusAnswers(c)
  BY DEF StatusCore
<1>2. ASSUME NEW c \in Requests, StatusServe(c)
      PROVE  StatusCore'
  <2>1. PICK a : Replies(c, a, srv) /\ (c.kind = "history" => a = HistoryAnswer) /\ (c.kind = "probe" => a = ProbeAnswer(c.arg))
    BY <1>2 DEF StatusServe, HistoryAnswer, ProbeAnswer
  <2>2. st' = st /\ srv' = srv /\ Requests' = Requests /\ calls'[c] = a /\ \A o \in Requests \ {c} : calls'[o] = calls[o]
    BY <2>1, RepliesFacts
  <2>3. HistoryAnswer' = HistoryAnswer /\ (\A s : ProbeAnswer(s)' = ProbeAnswer(s)) /\ Probed' = Probed /\ StatusRecords'
    BY <1>1, <2>2 DEF HistoryAnswer, ProbeAnswer, Probed, StatusRecords
  <2>4. StatusAnswers(c)'
    BY <1>1, <2>1, <2>2, <2>3 DEF StatusAnswers, Answer
  <2>5. \A o \in Requests' : StatusAnswers(o)'
    BY <1>1, <2>2, <2>3, <2>4 DEF StatusAnswers, Answer
  <2>6. \A k : Sought(calls', k) <=> Sought(calls, k)
    BY <2>2 DEF Sought, Requests
  <2>7. QED BY <1>1, <2>2, <2>3, <2>5, <2>6 DEF StatusCore
<1>3. ASSUME NEW c \in Requests, Answer(c) # Waiting, StatusArrive(c)
      PROVE  StatusCore'
  <2>1. New({}) = {}
    BY NumberedNone DEF New
  <2>2. ASSUME NEW s, NEW dropped, Takes(c, s, dropped, {})
        PROVE  /\ st' = s /\ srv' = srv /\ Requests' = (Requests \ {c}) \ dropped
               /\ \A o \in Requests' : calls'[o] = calls[o] /\ StatusAnswers(o)'
               /\ HistoryAnswer' = HistoryAnswer /\ Probed' = Probed /\ StatusRecords'
    <3>1. st' = s /\ srv' = srv /\ Sends((Requests \ {c}) \ dropped, {})
      BY <2>2, TakesFacts
    <3>2. Requests' = (Requests \ {c}) \ dropped /\ \A o \in Requests' : calls'[o] = calls[o]
      BY <2>1, <3>1 DEF Sends
    <3>3. HistoryAnswer' = HistoryAnswer /\ (\A t : ProbeAnswer(t)' = ProbeAnswer(t)) /\ Probed' = Probed /\ StatusRecords'
      BY <1>1, <3>1 DEF HistoryAnswer, ProbeAnswer, Probed, StatusRecords
    <3>4. \A o \in Requests' : StatusAnswers(o)'
      BY <1>1, <3>2, <3>3 DEF StatusAnswers, Answer
    <3>5. QED BY <3>1, <3>2, <3>3, <3>4
  <2>3. CASE ProbesArrive(c)
    <3> DEFINE batch == Asking({"probe"})
               down == {p.arg : p \in {q \in batch : Threw(q)}}
               shown == [s \in {"web"} \cup {p.arg : p \in batch} |-> IF s \in down THEN "down" ELSE "operational"]
               s == [st EXCEPT !.checked = TRUE, !.services = shown]
    <3>1. c \in batch /\ (\A p \in batch : Answer(p) # Waiting) /\ Takes(c, s, batch, {})
      BY <1>3, <2>3 DEF ProbesArrive, Asking
    <3>2. \A t \in Probed : \E o \in batch : o.arg = t
      BY <3>1 DEF StatusCore, Asking, Sought, Requests
    <3>3. \A p \in batch : p.arg \in Probed /\ (Threw(p) <=> p.arg \notin srv.up)
      <4>1. \A p \in batch : p.arg \in Probed /\ Answer(p) = ProbeAnswer(p.arg)
        BY <1>1, <3>1 DEF StatusAnswers, Asking
      <4>2. QED BY <4>1, MarksAssumption DEF Threw, ProbeAnswer, Marks
    <3>4. "web" \in DOMAIN srv.checks /\ "web" \in srv.up
      BY <1>1, Services DEF StatusRecords
    <3>5. shown = [t \in DOMAIN srv.checks |-> IF t \in srv.up THEN "operational" ELSE "down"]
      <4>1. {"web"} \cup {p.arg : p \in batch} = DOMAIN srv.checks
        BY <3>2, <3>3, <3>4 DEF Probed
      <4>2. \A t \in DOMAIN srv.checks : t \in down <=> t \notin srv.up
        BY <3>2, <3>3, <3>4 DEF Probed
      <4> HIDE DEF down, batch
      <4>3. QED BY <4>1, <4>2
    <3>6. DOMAIN s = StatusFields /\ s.checked = TRUE /\ s.services = shown /\ s.history = st.history
      BY <1>1 DEF StatusFields
    <3> HIDE DEF s, shown, down
    <3>7. /\ st' = s /\ srv' = srv /\ Requests' = (Requests \ {c}) \ batch
          /\ \A o \in Requests' : StatusAnswers(o)'
          /\ StatusRecords'
      BY <2>2, <3>1
    <3>8. ~Sought(calls', "probe") /\ (Sought(calls, "history") => Sought(calls', "history"))
      BY <3>1, <3>7 DEF Sought, Requests, Asking
    <3>9. QED BY <1>1, <3>5, <3>6, <3>7, <3>8 DEF StatusCore
  <2>4. CASE HistoryArrives(c)
    <3> DEFINE x == IF Threw(c) THEN [s \in {} |-> Nothing] ELSE Answer(c)
               s == [st EXCEPT !.history = x]
    <3>1. c.kind = "history" /\ Answer(c) = HistoryAnswer /\ Takes(c, s, {}, {})
      BY <1>1, <1>3, <2>4 DEF HistoryArrives, StatusAnswers
    <3>2. x = IF "api" \in srv.up THEN HistoryOf(srv.checks) ELSE [t \in {} |-> Nothing]
      BY <1>1, <3>1, HistoryIsData DEF HistoryAnswer, Threw, Marks
    <3>3. DOMAIN s = StatusFields /\ s.checked = st.checked /\ s.services = st.services /\ s.history = x
      BY <1>1 DEF StatusFields
    <3> HIDE DEF s, x
    <3>4. /\ st' = s /\ srv' = srv /\ Requests' = (Requests \ {c}) \ {}
          /\ \A o \in Requests' : StatusAnswers(o)'
          /\ StatusRecords' /\ Probed' = Probed
      BY <2>2, <3>1
    <3>5. /\ Sought(calls', "probe") => Sought(calls, "probe")
          /\ \A o \in Requests : o.kind = "probe" => o \in Requests'
      BY <3>1, <3>4 DEF Sought, Requests
    <3>6. QED BY <1>1, <3>2, <3>3, <3>4, <3>5 DEF StatusCore
  <2>5. QED BY <1>3, <2>3, <2>4 DEF StatusArrive
<1>4. QED BY <1>2, <1>3, StatusSteps
LEMMA UpAndChecks ==
  ASSUME NEW U, NEW T, NEW r \in [up : U, checks : T]
  PROVE  DOMAIN r = {"up", "checks"} /\ r.up \in U /\ r.checks \in T
OBVIOUS

\* It is so when the page is mounted.
LEMMA StatusStart == StatusInit => page = "status" /\ StatusCore
<1> SUFFICES ASSUME StatusInit PROVE page = "status" /\ StatusCore
  OBVIOUS
<1> DEFINE new(deployed) == Load({"history"}) \cup {Ask("probe", s) : s \in Monitored(deployed) \ {"web"}}
<1>1. PICK deployed, s : /\ deployed \in BOOLEAN /\ DOMAIN s = StatusFields
                              /\ Mounted("status", s, new(deployed), OnRecord(deployed))
  <2>1. PICK deployed \in BOOLEAN :
          Mounted("status", [services |-> [s \in Monitored(FALSE) |-> "checking"], checked |-> FALSE, history |-> NoData],
                  new(deployed), OnRecord(deployed))
    BY DEF StatusInit
  <2>2. DOMAIN [services |-> [s \in Monitored(FALSE) |-> "checking"], checked |-> FALSE, history |-> NoData] = StatusFields
    BY DEF StatusFields
  <2> HIDE DEF new
  <2>3. QED BY <2>1, <2>2
<1>2. ASSUME srv \in OnRecord(deployed)
      PROVE  /\ DOMAIN srv = {"up", "checks"} /\ "web" \in srv.up
             /\ \E auth : auth \in [Days -> AuthDays] /\ srv.checks = RecordsWith(deployed, auth)
  <2>1. \A up \in {Monitored(deployed) \ down : down \in {{}, {"api"}, {"auth"}}} : "web" \in up
    BY <1>1, Services
  <2>2. /\ DOMAIN srv = {"up", "checks"}
        /\ srv.up \in {Monitored(deployed) \ down : down \in {{}, {"api"}, {"auth"}}}
        /\ srv.checks \in {RecordsWith(deployed, auth) : auth \in {a \in [Days -> AuthDays] : a[2] \in {Nothing, Passed(Nothing)}}}
    BY <1>2, UpAndChecks DEF OnRecord
  <2>3. \E auth : auth \in [Days -> AuthDays] /\ srv.checks = RecordsWith(deployed, auth)
    BY <2>2
  <2>4. QED BY <2>1, <2>2, <2>3
<1>3. /\ \A r \in new(deployed) : r.kind = "history" \/ (r.kind = "probe" /\ r.arg \in Monitored(deployed) \ {"web"})
      /\ \E r \in new(deployed) : r.kind = "history"
      /\ \A t \in Monitored(deployed) \ {"web"} : \E r \in new(deployed) : r.kind = "probe" /\ r.arg = t
  <2>1. \A k, a : Ask(k, a).kind = k /\ Ask(k, a).arg = a
    BY DEF Ask
  <2>2. QED BY <2>1, LoadFacts
<1> HIDE DEF new
<1>4. /\ page = "status" /\ st = s /\ srv \in OnRecord(deployed) /\ Requests = Numbered(1, new(deployed))
      /\ \A c \in Requests : calls[c] = Waiting /\ \E r \in new(deployed) : c.kind = r.kind /\ c.arg = r.arg
  BY <1>1, MountedFacts
<1>5. /\ DOMAIN srv = {"up", "checks"} /\ "web" \in srv.up
      /\ \E auth : auth \in [Days -> AuthDays] /\ srv.checks = RecordsWith(deployed, auth)
  BY <1>2, <1>4
<1> PICK auth : auth \in [Days -> AuthDays] /\ srv.checks = RecordsWith(deployed, auth)
  BY <1>5
<1>6. \A x \in AuthDays : x.checks \in Nat /\ x.ok \in Nat /\ x.ok <= x.checks /\ DOMAIN x = {"checks", "ok"} /\ x = [checks |-> x.checks, ok |-> x.ok]
  BY DEF AuthDays, Nothing, Plus, Passed
<1>7. DOMAIN srv.checks = Monitored(deployed)
  BY <1>5 DEF RecordsWith
<1>8. ASSUME NEW t \in Monitored(deployed), NEW d \in Days
      PROVE  srv.checks[t][d] \in [checks : Nat, ok : Nat] /\ srv.checks[t][d].ok <= srv.checks[t][d].checks
  <2>1. auth[d] \in AuthDays
    BY <1>5
  <2>2. srv.checks[t][d] = IF t = "auth" THEN auth[d] ELSE [auth[d] EXCEPT !.ok = auth[d].checks]
    BY <1>5 DEF RecordsWith
  <2>3. QED BY <1>6, <2>1, <2>2
<1>9. ASSUME NEW t \in Monitored(deployed)
      PROVE  srv.checks[t] \in DayTables
  <2>1. srv.checks[t] = [d \in Days |-> srv.checks[t][d]]
    BY <1>5 DEF RecordsWith
  <2>2. QED BY <1>8, <2>1 DEF DayTables
<1>10. StatusRecords
  BY <1>1, <1>5, <1>7, <1>8, <1>9 DEF StatusRecords
<1>11. \A r \in new(deployed) : \E c \in Requests : c.kind = r.kind /\ c.arg = r.arg
  <2>1. ASSUME NEW r \in new(deployed)
        PROVE  \E c \in Requests : c.kind = r.kind /\ c.arg = r.arg
    <3>1. Request(1, r.kind, r.arg) \in Requests
      BY <1>4 DEF Numbered, Request
    <3>2. QED BY <3>1 DEF Request
  <2>2. QED BY <2>1
<1>12. Sought(calls, "history")
  BY <1>3, <1>11 DEF Sought, Requests
<1>13. \A t \in Probed : \E c \in Requests : c.kind = "probe" /\ c.arg = t
  <2>1. ASSUME NEW t \in Probed
        PROVE  \E c \in Requests : c.kind = "probe" /\ c.arg = t
    <3>1. PICK r \in new(deployed) : r.kind = "probe" /\ r.arg = t
      BY <1>3, <1>7 DEF Probed
    <3>2. QED BY <1>11, <3>1
  <2>2. QED BY <2>1
<1>14. \A c \in Requests : StatusAnswers(c)
  BY <1>3, <1>4, <1>7 DEF StatusAnswers, Answer, Probed
<1>15. QED BY <1>1, <1>4, <1>10, <1>12, <1>13, <1>14 DEF StatusCore

\* Once everything is answered, the page shows what is true.
LEMMA StatusEnd == ASSUME StatusCore, Settled PROVE StatusTrue
<1> DEFINE checks == srv.checks
           all == DOMAIN srv.checks
           failed == {s \in DOMAIN srv.checks : \E d \in Days : srv.checks[s][d].ok < srv.checks[s][d].checks}
<1>1. StatusRecords
  BY DEF StatusCore
<1>2. PICK deployed \in BOOLEAN : all = Monitored(deployed)
  BY <1>1 DEF StatusRecords
<1>3. {"web", "api", "auth"} \subseteq all /\ all \subseteq {"web", "api", "auth", "defectdojo"}
  BY <1>2, Services
<1>4. /\ st.checked = TRUE
      /\ st.services = [s \in all |-> IF s \in srv.up THEN "operational" ELSE "down"]
      /\ st.history = IF "api" \in srv.up THEN HistoryOf(srv.checks) ELSE [s \in {} |-> Nothing]
  <2>1. ~Sought(calls, "history")
    BY SettledAlone
  <2>2. "api" \in Probed
    BY <1>3 DEF Probed
  <2>3. QED BY <2>1, <2>2 DEF StatusCore, Settled
<1>5. ShownDown = {s \in all : s \notin srv.up} /\ DOMAIN st.services = all
  BY <1>4 DEF ShownDown
<1>6. Overall = "operational" <=> all \ {"web"} \subseteq srv.up
  BY <1>1, <1>4, <1>5 DEF Overall, StatusRecords
<1>7. Figures.now + Cardinality(ShownDown) = Cardinality(all)
  <2> DEFINE T == ShownDown
             S == all
  <2>1. IsFiniteSet(S)
    <3>1. IsFiniteSet((({"web"} \cup {"api"}) \cup {"auth"}) \cup {"defectdojo"})
      <4>1. IsFiniteSet({"web"}) BY FS_Singleton
      <4>2. IsFiniteSet({"web"} \cup {"api"}) BY <4>1, FS_AddElement
      <4>3. IsFiniteSet(({"web"} \cup {"api"}) \cup {"auth"}) BY <4>2, FS_AddElement
      <4>4. QED BY <4>3, FS_AddElement
    <3>2. S \subseteq (({"web"} \cup {"api"}) \cup {"auth"}) \cup {"defectdojo"}
      BY <1>3
    <3>3. QED BY <3>1, <3>2, FS_Subset
  <2>2. T \subseteq S
    BY <1>5
  <2>3. Figures.now = Cardinality(S \ T)
    BY <1>4, <1>5 DEF Figures
  <2> HIDE DEF T, S
  <2>4. Cardinality(S \ T) = Cardinality(S) - Cardinality(S \cap T)
    BY <2>1, FS_Difference
  <2>5. S \cap T = T
    BY <2>2
  <2>6. Cardinality(S) \in Nat /\ Cardinality(T) \in Nat
    BY <2>1, <2>2, FS_CardinalityType, FS_Subset
  <2>7. Figures.now + Cardinality(T) = Cardinality(S)
    <3>1. Figures.now = Cardinality(S) - Cardinality(T)
      BY <2>3, <2>4, <2>5
    <3> DEFINE n == Figures.now
               a == Cardinality(S)
               b == Cardinality(T)
    <3>2. n = a - b /\ a \in Nat /\ b \in Nat
      BY <2>6, <3>1
    <3> HIDE DEF n, a, b
    <3>3. n + b = a
      BY <3>2
    <3>4. QED BY <3>3 DEF n, a, b
  <2>8. QED BY <2>7 DEF T, S
<1>8. ASSUME NEW s \in all, NEW d \in Days
      PROVE  /\ checks[s][d].checks \in Nat /\ checks[s][d].ok \in Nat /\ checks[s][d].ok <= checks[s][d].checks
             /\ checks[s][d] = [checks |-> checks[s][d].checks, ok |-> checks[s][d].ok]
  <2>1. checks[s] \in [Days -> [checks : Nat, ok : Nat]]
    BY <1>1 DEF StatusRecords, DayTables
  <2>2. checks[s][d] \in [checks : Nat, ok : Nat] /\ checks[s][d].ok <= checks[s][d].checks
    BY <1>1, <2>1 DEF StatusRecords
  <2>3. QED BY <2>2
<1>9. CASE "api" \in srv.up
  <2> DEFINE known == {t \in all : Total(checks[t], "checks") > 0}
  <2>1. Recorded = [s \in known |-> [days |-> checks[s], recorded |-> Total(checks[s], "checks")]] /\ st.history # NoData
    BY <1>1, <1>4, <1>9, HistoryIsData DEF Recorded, HistoryOf, Marks
  <2>2. DOMAIN Recorded = known /\ \A s \in known : Recorded[s].days = checks[s]
    BY <2>1
  <2>3. ASSUME NEW s \in all
        PROVE  /\ Total(checks[s], "checks") = checks[s][1].checks + checks[s][2].checks
               /\ Total(checks[s], "ok") = checks[s][1].ok + checks[s][2].ok
    BY DEF Total
  <2>4. ASSUME NEW s \in all
        PROVE  /\ RecordOf(s, "checks") = checks[s][1].checks + checks[s][2].checks
               /\ RecordOf(s, "ok") = checks[s][1].ok + checks[s][2].ok
    <3>1. 1 \in Days /\ 2 \in Days
      BY DEF Days
    <3>2. /\ checks[s][1].checks \in Nat /\ checks[s][1].ok \in Nat /\ checks[s][1].ok <= checks[s][1].checks
          /\ checks[s][2].checks \in Nat /\ checks[s][2].ok \in Nat /\ checks[s][2].ok <= checks[s][2].checks
      BY <1>8, <3>1
    <3>3. CASE s \in known
      <4>1. RecordOf(s, "checks") = Total(checks[s], "checks") /\ RecordOf(s, "ok") = Total(checks[s], "ok")
        BY <2>2, <3>3 DEF RecordOf
      <4>2. QED BY <2>3, <4>1
    <3>4. CASE s \notin known
      <4>1. RecordOf(s, "checks") = 0 /\ RecordOf(s, "ok") = 0
        BY <2>2, <3>4 DEF RecordOf
      <4>2. ~(checks[s][1].checks + checks[s][2].checks > 0)
        BY <2>3, <3>4
      <4> DEFINE a == checks[s][1].checks
                 b == checks[s][2].checks
                 x == checks[s][1].ok
                 y == checks[s][2].ok
      <4>3. a \in Nat /\ b \in Nat /\ x \in Nat /\ y \in Nat /\ x <= a /\ y <= b /\ ~(a + b > 0)
        BY <3>2, <4>2
      <4> HIDE DEF a, b, x, y
      <4>4. a + b = 0 /\ x + y = 0
        BY <4>3
      <4>5. QED BY <4>1, <4>4 DEF a, b, x, y
    <3>5. QED BY <3>3, <3>4
  <2>5. \A s : s \notin all => RecordOf(s, "checks") = 0 /\ RecordOf(s, "ok") = 0
    BY <2>2 DEF RecordOf
  <2> HIDE DEF known
  <2>6. \A s : /\ RecordOf(s, "checks") \in Nat /\ RecordOf(s, "ok") \in Nat /\ RecordOf(s, "ok") <= RecordOf(s, "checks")
               /\ s \in failed => RecordOf(s, "ok") < RecordOf(s, "checks")
               /\ s \in all => (RecordOf(s, "checks") = 0 <=> \A d \in Days : checks[s][d] = Nothing)
    <3>1. ASSUME NEW s \in all
          PROVE  /\ RecordOf(s, "checks") \in Nat /\ RecordOf(s, "ok") \in Nat /\ RecordOf(s, "ok") <= RecordOf(s, "checks")
                 /\ s \in failed => RecordOf(s, "ok") < RecordOf(s, "checks")
                 /\ RecordOf(s, "checks") = 0 <=> \A d \in Days : checks[s][d] = Nothing
      <4>1. Days = {1, 2}
        BY DEF Days
      <4>2. /\ checks[s][1].checks \in Nat /\ checks[s][1].ok \in Nat /\ checks[s][1].ok <= checks[s][1].checks
            /\ checks[s][2].checks \in Nat /\ checks[s][2].ok \in Nat /\ checks[s][2].ok <= checks[s][2].checks
        BY <1>8, <4>1
      <4>3. \A d \in Days : checks[s][d] = Nothing <=> checks[s][d].checks = 0
        <5>1. ASSUME NEW d \in Days PROVE checks[s][d] = Nothing <=> checks[s][d].checks = 0
          <6>1. checks[s][d] = Nothing => checks[s][d].checks = 0
            BY DEF Nothing
          <6>2. ASSUME checks[s][d].checks = 0 PROVE checks[s][d] = Nothing
            <7>1. checks[s][d].ok = 0
              <8>1. checks[s][d].ok \in Nat /\ checks[s][d].ok <= checks[s][d].checks
                BY <1>8
              <8>2. QED BY <6>2, <8>1
            <7>2. checks[s][d] = [checks |-> 0, ok |-> 0]
              BY <1>8, <6>2, <7>1
            <7>3. QED BY <7>2 DEF Nothing
          <6>3. QED BY <6>1, <6>2
        <5>2. QED BY <5>1
      <4> DEFINE a == checks[s][1].checks
                 b == checks[s][2].checks
                 x == checks[s][1].ok
                 y == checks[s][2].ok
      <4>4. RecordOf(s, "checks") = a + b /\ RecordOf(s, "ok") = x + y
        BY <2>4
      <4>5. s \in failed => x < a \/ y < b
        BY <4>1
      <4>6. (\A d \in Days : checks[s][d] = Nothing) <=> a = 0 /\ b = 0
        BY <4>1, <4>3
      <4>7. a \in Nat /\ b \in Nat /\ x \in Nat /\ y \in Nat /\ x <= a /\ y <= b
        BY <4>2
      <4> HIDE DEF a, b, x, y, failed, checks
      <4>8. QED BY <4>4, <4>5, <4>6, <4>7
    <3>2. QED BY <2>5, <3>1
  <2>7. NothingRecorded <=> \A s \in all, d \in Days : checks[s][d] = Nothing
    <3>1. NothingRecorded <=> SumOver("checks") = 0
      BY <2>1 DEF NothingRecorded
    <3>2. SumOver("checks") = 0 <=> \A s \in {"web", "api", "auth", "defectdojo"} : RecordOf(s, "checks") = 0
      BY <2>6 DEF SumOver
    <3>3. (\A s \in {"web", "api", "auth", "defectdojo"} : RecordOf(s, "checks") = 0) <=> \A s \in all : RecordOf(s, "checks") = 0
      BY <1>3, <2>5
    <3> HIDE DEF checks, all
    <3>4. QED BY <2>6, <3>1, <3>2, <3>3
  <2>8. \A s \in failed : s \in known
    <3>1. ASSUME NEW s \in failed PROVE s \in known
      <4>1. RecordOf(s, "checks") # 0 /\ s \in all
        BY <2>6, <3>1
      <4>2. QED BY <2>2, <4>1 DEF RecordOf
    <3>2. QED BY <3>1
  <2>9. \A s \in known, d \in Days : ServiceCard(s).bars[d] = DayStatus(checks[s][d])
    BY <2>2 DEF ServiceCard
  <2>10. \A s \in failed : \E d \in Days : ServiceCard(s).bars[d] \in {"degraded", "down"}
    <3>1. ASSUME NEW s \in failed
          PROVE  \E d \in Days : ServiceCard(s).bars[d] \in {"degraded", "down"}
      <4>1. PICK d \in Days : checks[s][d].ok < checks[s][d].checks
        BY <3>1
      <4>2. s \in all /\ checks[s][d].ok \in Nat /\ checks[s][d].checks \in Nat
        BY <1>8, <3>1
      <4>3. DayStatus(checks[s][d]) \in {"degraded", "down"}
        BY <4>1, <4>2 DEF DayStatus
      <4>4. QED BY <2>8, <2>9, <3>1, <4>3
    <3>2. QED BY <3>1
  <2>11. failed # {} => Figures.uptime[1] < Figures.uptime[2]
    <3>1. ASSUME NEW s \in failed
          PROVE  Figures.uptime[1] < Figures.uptime[2]
      <4>1. s \in {"web", "api", "auth", "defectdojo"}
        BY <1>3, <3>1
      <4>2. SumOver("ok") < SumOver("checks") /\ SumOver("ok") \in Nat /\ SumOver("checks") \in Nat
        BY <2>6, <3>1, <4>1 DEF SumOver
      <4>3. Figures.uptime = <<SumOver("ok"), SumOver("checks")>>
        BY <4>2 DEF Figures
      <4>4. QED BY <4>2, <4>3
    <3>2. QED BY <3>1
  <2>12. \A s \in DOMAIN Recorded, d \in Days : ServiceCard(s).bars[d] = "operational" => checks[s][d].ok > 0
    <3>1. ASSUME NEW s \in known, NEW d \in Days, DayStatus(checks[s][d]) = "operational"
          PROVE  checks[s][d].ok > 0
      <4>1. s \in all
        BY <3>1 DEF known
      <4>2. checks[s][d].ok \in Nat /\ checks[s][d].checks \in Nat
        BY <1>8, <4>1
      <4>3. QED BY <3>1, <4>2 DEF DayStatus
    <3>2. QED BY <2>2, <2>9, <3>1
  <2>13. QED BY <1>6, <1>7, <1>9, <2>7, <2>10, <2>11, <2>12 DEF StatusTrue
<1>10. CASE "api" \notin srv.up
  BY <1>6, <1>7, <1>10 DEF StatusTrue
<1>11. QED BY <1>9, <1>10

-----------------------------------------------------------------------------
(* The gate of the administration *)

\* A session is asked for when the page is mounted, and then by those only who
\* are inside, or whose code was accepted.
GateCore ==
  /\ DOMAIN st = {"status", "secret", "busy", "error"}
  /\ DOMAIN srv = {"admin", "enrolled", "fresh", "secret", "used"}
  /\ \A c \in Requests : c.kind \in {"session", "enrolTotp", "verifyTotp"}
  /\ IF st.status = "loading"
       THEN /\ \A c \in Requests : c.kind = "session"
            /\ Sought(calls, "session") /\ Alone(calls, "session", GateFor(srv))
       ELSE /\ \A c \in Requests : c.kind = "session" => calls[c] \in {Waiting, "ready"} /\ GateFor(srv) = "ready"
            /\ \A c \in Requests : c.kind = "verifyTotp" => calls[c] \in {Waiting, Failed} \/ GateFor(srv) = "ready"
            /\ \/ st.status = GateFor(srv)
               \/ GateFor(srv) = "ready" /\ \E c \in Requests : c.kind = "session" \/ (c.kind = "verifyTotp" /\ Answered(c))

LEMMA GateValues == \A s : GateFor(s) \in {"denied", "enrol", "verify", "ready"} /\ GateFor(s) \notin Marks /\ GateFor(s) # "loading"
<1>1. \A s : GateFor(s) \in {"denied", "enrol", "verify", "ready"}
  BY DEF GateFor
<1>2. QED BY <1>1, GateAssumption

\* The steps that this page takes while nobody else does anything.
LEMMA GateSteps ==
  ASSUME page = "gate", GateCore, Inside
  PROVE  GateClick \/ \E c \in Requests : GateServe(c) \/ (Answer(c) # Waiting /\ GateArrive(c))
BY DEF GateCore, Inside, Click, ServeSome, Serve, ServeRead, ArriveSome, Arrive, TimerSome, PosturePages, FilterPages,
       InstallUrlServed, DetailsServe, ReportServe, AgentServe, RegistryServe, SubmitServe, NewItemServe

\* Every step of a calm visit keeps it so.
LEMMA GateCalm ==
  ASSUME page = "gate", VisitType, GateCore, Inside
  PROVE  GateCore'
<1>1. /\ DOMAIN st = {"status", "secret", "busy", "error"}
      /\ DOMAIN srv = {"admin", "enrolled", "fresh", "secret", "used"}
      /\ \A c \in Requests : c.kind \in {"session", "enrolTotp", "verifyTotp"}
      /\ GateFor(srv) \notin Marks /\ GateFor(srv) # "loading"
  BY GateValues DEF GateCore
<1>2. ASSUME NEW kept \in SUBSET Requests, NEW new, Sends(kept, new), srv' = srv, DOMAIN st' = DOMAIN st,
             st'.status = st.status, st.status # "loading",
             \A o \in Requests : o \notin kept => o.kind # "session" /\ ~(o.kind = "verifyTotp" /\ Answered(o)),
             \A r \in new : r.kind \in {"session", "enrolTotp", "verifyTotp"} /\ (r.kind = "session" => GateFor(srv) = "ready")
      PROVE  GateCore'
  <2>1. /\ Requests' = kept \cup New(new) /\ \A o \in kept : calls'[o] = calls[o]
        /\ \A o \in New(new) : calls'[o] = Waiting /\ \E r \in new : o.kind = r.kind
    BY <1>2, NewFacts DEF Sends
  <2>2. QED BY <1>1, <1>2, <2>1 DEF GateCore, Answered, Answer
<1>3. CASE GateClick
  <2>1. ASSUME NEW s, NEW new, Acts(s, {}, new), DOMAIN s = DOMAIN st, s.status = st.status, st.status # "loading",
             \A r \in new : r.kind \in {"session", "enrolTotp", "verifyTotp"} /\ (r.kind = "session" => GateFor(srv) = "ready")
        PROVE  GateCore'
    <3>1. Requests \ {} = Requests /\ Requests \in SUBSET Requests
      OBVIOUS
    <3>2. Sends(Requests, new) /\ srv' = srv /\ st' = s
      BY <2>1, <3>1, ActsFacts
    <3>3. QED BY <1>2, <2>1, <3>1, <3>2
  <2>2. ASSUME NEW code, SubmitCode(code), st.status # "loading"
        PROVE  GateCore'
    <3> DEFINE s == [st EXCEPT !.busy = TRUE, !.error = FALSE]
               new == {Ask("verifyTotp", [code |-> code, secret |-> st.secret])}
    <3>1. Acts(s, {}, new) /\ DOMAIN s = DOMAIN st /\ s.status = st.status
      BY <1>1, <2>2 DEF SubmitCode
    <3>2. \A r \in new : r.kind = "verifyTotp"
      BY DEF Ask
    <3> HIDE DEF s, new
    <3>3. QED BY <2>1, <2>2, <3>1, <3>2
  <2>3. CASE st.status = "ready" /\ Acts(st, {}, Load({"session"}))
    <3>1. \A r \in Load({"session"}) : r.kind = "session"
      BY LoadFacts
    <3>2. GateFor(srv) = "ready"
      BY <2>3 DEF GateCore
    <3>3. QED BY <2>1, <2>3, <3>1, <3>2
  <2>4. QED BY <1>3, <2>2, <2>3 DEF GateClick
<1>4. ASSUME NEW c \in Requests, GateServe(c)
      PROVE  GateCore'
  <2>1. ASSUME NEW a, NEW r, Replies(c, a, r)
        PROVE  /\ st' = st /\ srv' = r /\ Requests' = Requests /\ DOMAIN calls' = DOMAIN calls /\ DOMAIN calls = Requests
               /\ calls[c] = Waiting /\ calls'[c] = a /\ \A o \in Requests \ {c} : calls'[o] = calls[o]
    BY <2>1, RepliesFacts DEF Requests
  <2>2. CASE c.kind = "session" /\ Replies(c, GateFor(srv), srv)
    <3>1. CASE st.status = "loading"
      BY <1>1, <2>1, <2>2, <3>1 DEF GateCore, Sought, Alone
    <3>2. CASE st.status # "loading"
      BY <1>1, <2>1, <2>2, <3>2 DEF GateCore, Answered, Answer
    <3>3. QED BY <3>1, <3>2
  <2>3. ASSUME c.kind = "enrolTotp", NEW a, NEW r, Replies(c, a, r), DOMAIN r = DOMAIN srv, GateFor(r) = GateFor(srv)
        PROVE  GateCore'
    BY <1>1, <2>1, <2>3 DEF GateCore, Answered, Answer
  <2>4. CASE c.kind = "enrolTotp" /\ Replies(c, srv.secret + 1, [srv EXCEPT !.secret = @ + 1])
    <3> DEFINE r == [srv EXCEPT !.secret = @ + 1]
    <3>1. DOMAIN r = DOMAIN srv /\ GateFor(r) = GateFor(srv)
      BY <1>1 DEF GateFor
    <3>2. Replies(c, srv.secret + 1, r)
      BY <2>4
    <3> HIDE DEF r
    <3>3. QED BY <2>3, <2>4, <3>1, <3>2
  <2>5. CASE c.kind = "verifyTotp" /\ Replies(c, Failed, srv)
    BY <1>1, <2>1, <2>5 DEF GateCore, Answered, Answer
  <2>6. CASE c.kind = "verifyTotp" /\ srv.admin
             /\ Replies(c, "ok", [srv EXCEPT !.enrolled = TRUE, !.fresh = TRUE, !.used = @ \cup {c.arg.code}])
    <3> DEFINE r == [srv EXCEPT !.enrolled = TRUE, !.fresh = TRUE, !.used = @ \cup {c.arg.code}]
    <3>1. DOMAIN r = DOMAIN srv /\ GateFor(r) = "ready"
      BY <1>1, <2>6 DEF GateFor
    <3>2. Replies(c, "ok", r)
      BY <2>6
    <3> HIDE DEF r
    <3>3. "ok" \notin {Waiting, Failed}
      BY MarksAssumption DEF Marks
    <3>4. st.status # "loading"
      BY <2>6 DEF GateCore
    <3>5. srv' = r /\ st' = st /\ Requests' = Requests /\ calls'[c] = "ok" /\ \A o \in Requests \ {c} : calls'[o] = calls[o]
      BY <2>1, <3>2
    <3>6. QED BY <1>1, <2>6, <3>1, <3>3, <3>4, <3>5 DEF GateCore, Answered, Answer
  <2>7. CASE c.kind = "enrolTotp" /\ Replies(c, Failed, srv)
    BY <2>3, <2>7
  <2>8. QED BY <1>4, <2>2, <2>4, <2>5, <2>6, <2>7 DEF GateServe
<1>5. ASSUME NEW c \in Requests, Answer(c) # Waiting, GateArrive(c)
      PROVE  GateCore'
  <2> DEFINE kept == Requests \ {c}
  <2>1. (Requests \ {c}) \ {} = kept /\ \A o \in kept : o \in Requests
    OBVIOUS
  <2>2. CASE SessionArrives(c)
    <3> DEFINE x == IF Threw(c) THEN "denied" ELSE Answer(c)
    <3>1. c.kind = "session" /\ x = GateFor(srv)
      BY <1>1, <1>5, <2>2 DEF SessionArrives, GateCore, Alone, Threw, Answer, Requests, Marks
    <3> HIDE DEF x
    <3>2. CASE Takes(c, st, {}, {}) /\ x = st.status
      <4>1. Sends(kept, {}) /\ srv' = srv /\ st' = st
        BY <2>1, <3>2, TakesFacts
      <4>2. Requests' = kept /\ \A o \in kept : calls'[o] = calls[o]
        BY <4>1, NumberedNone DEF Sends, New
      <4>3. QED BY <1>1, <3>1, <3>2, <4>1, <4>2 DEF GateCore, Answered, Answer
    <3>3. ASSUME NEW new, Takes(c, [status |-> x, secret |-> None, busy |-> FALSE, error |-> FALSE], Asking({"enrolTotp", "verifyTotp"}), new),
                 \A r \in new : r.kind = "enrolTotp"
          PROVE  GateCore'
      <4> DEFINE s == [status |-> x, secret |-> None, busy |-> FALSE, error |-> FALSE]
                 rest == (Requests \ {c}) \ Asking({"enrolTotp", "verifyTotp"})
      <4>1. DOMAIN s = {"status", "secret", "busy", "error"} /\ s.status = x
        OBVIOUS
      <4>2. \A o \in rest : o \in Requests /\ o # c /\ o.kind = "session"
        BY <1>1 DEF Asking
      <4>3. Takes(c, s, Asking({"enrolTotp", "verifyTotp"}), new)
        BY <3>3
      <4> HIDE DEF s
      <4>4. Sends(rest, new) /\ srv' = srv /\ st' = s
        BY <4>3, TakesFacts
      <4> HIDE DEF rest
      <4>5. /\ Requests' = rest \cup New(new) /\ \A o \in rest : calls'[o] = calls[o]
            /\ \A o \in New(new) : o.kind = "enrolTotp"
        BY <3>3, <4>4, NewFacts DEF Sends
      <4>6. st.status = "loading" => rest = {}
        BY <3>1, <4>2 DEF GateCore, Alone, Requests
      <4>7. QED BY <1>1, <3>1, <4>1, <4>2, <4>4, <4>5, <4>6 DEF GateCore
    <3>4. (\A r \in Load({"enrolTotp"}) : r.kind = "enrolTotp") /\ \A r \in {} : r.kind = "enrolTotp"
      BY LoadFacts
    <3>5. Enter(c, x)
      BY <2>2 DEF SessionArrives, x
    <3>6. QED BY <3>2, <3>3, <3>4, <3>5 DEF Enter
  <2>3. ASSUME NEW s, NEW new, Takes(c, s, {}, new), DOMAIN s = DOMAIN st, s.status = st.status, c.kind # "session",
               \/ ~(c.kind = "verifyTotp" /\ Answered(c)) /\ new = {}
               \/ c.kind = "verifyTotp" /\ Answered(c) /\ new = Load({"session"})
        PROVE  GateCore'
    <3>1. Sends(kept, new) /\ srv' = srv /\ st' = s
      BY <2>1, <2>3, TakesFacts
    <3>2. st.status # "loading"
      BY <2>3 DEF GateCore
    <3>3. CASE ~(c.kind = "verifyTotp" /\ Answered(c)) /\ new = {}
      <4>1. /\ \A o \in Requests : o \notin kept => o.kind # "session" /\ ~(o.kind = "verifyTotp" /\ Answered(o))
            /\ \A r \in new : r.kind \in {"session", "enrolTotp", "verifyTotp"} /\ (r.kind = "session" => GateFor(srv) = "ready")
        BY <2>3, <3>3
      <4>2. QED BY <1>2, <2>3, <3>1, <3>2, <4>1
    <3>4. CASE c.kind = "verifyTotp" /\ Answered(c) /\ new = Load({"session"})
      <4>1. GateFor(srv) = "ready"
        BY <3>2, <3>4 DEF GateCore, Answered, Answer
      <4>2. (\A r \in new : r.kind = "session") /\ \E r \in new : r.kind = "session"
        BY <3>4, LoadFacts
      <4>3. /\ Requests' = kept \cup New(new) /\ \A o \in kept : calls'[o] = calls[o]
            /\ \A o \in New(new) : o.kind = "session" /\ calls'[o] = Waiting
        BY <3>1, <4>2, NewFacts DEF Sends
      <4>4. \E o \in New(new) : TRUE
        BY <4>2 DEF New, Numbered
      <4>5. QED BY <1>1, <2>3, <3>1, <3>2, <4>1, <4>3, <4>4 DEF GateCore
    <3>5. QED BY <2>3, <3>3, <3>4
  <2>4. CASE KeyArrives(c)
    <3> DEFINE x == [st EXCEPT !.error = TRUE]
               y == [st EXCEPT !.secret = Answer(c)]
    <3>1. /\ DOMAIN x = DOMAIN st /\ x.status = st.status /\ DOMAIN y = DOMAIN st /\ y.status = st.status
          /\ c.kind = "enrolTotp" /\ (Takes(c, x, {}, {}) \/ Takes(c, y, {}, {}))
      BY <1>1, <2>4 DEF KeyArrives
    <3> HIDE DEF x, y
    <3>2. QED BY <2>3, <3>1
  <2>5. CASE CodeChecked(c)
    <3> DEFINE x == [st EXCEPT !.error = TRUE, !.busy = FALSE]
    <3>1. /\ DOMAIN x = DOMAIN st /\ x.status = st.status /\ c.kind = "verifyTotp"
          /\ IF Answered(c) THEN Takes(c, st, {}, Load({"session"})) ELSE Takes(c, x, {}, {})
      BY <1>1, <1>5, <2>5 DEF CodeChecked, Answered, Threw
    <3> HIDE DEF x
    <3>2. QED BY <2>3, <3>1
  <2>6. QED BY <1>5, <2>2, <2>4, <2>5 DEF GateArrive
<1>6. QED BY <1>3, <1>4, <1>5, GateSteps

\* It is so when the page is mounted.
LEMMA GateStart == GateInit => page = "gate" /\ GateCore
<1> SUFFICES ASSUME GateInit PROVE page = "gate" /\ GateCore
  OBVIOUS
<1> DEFINE s == [status |-> "loading", secret |-> None, busy |-> FALSE, error |-> FALSE]
           records == {[admin |-> a, enrolled |-> e, fresh |-> FALSE, secret |-> 0, used |-> {}] : a \in BOOLEAN, e \in BOOLEAN}
           new == Load({"session"})
<1>1. Mounted("gate", s, new, records)
  BY DEF GateInit
<1>2. DOMAIN s = {"status", "secret", "busy", "error"} /\ s.status = "loading"
  OBVIOUS
<1>3. \A r \in records : DOMAIN r = {"admin", "enrolled", "fresh", "secret", "used"}
  OBVIOUS
<1>4. (\A q \in new : q.kind = "session" /\ q.arg = None) /\ \E q \in new : q.kind = "session"
  BY LoadFacts
<1> HIDE DEF s, records, new
<1>5. page = "gate" /\ st = s /\ srv \in records /\ \A c \in Requests : c.kind = "session"
  BY <1>1, <1>4, MountedAlone
<1>6. \A v : Alone(calls, "session", v) /\ Sought(calls, "session")
  <2>1. \A q, r \in new : q.kind = "session" /\ r.kind = "session" => q.arg = r.arg
    BY <1>4
  <2>2. QED BY <1>1, <1>4, <2>1, MountedAlone
<1>7. QED BY <1>2, <1>3, <1>5, <1>6 DEF GateCore

\* Once everything is answered, the page shows what is true.
LEMMA GateEnd == ASSUME GateCore, Settled PROVE GateTrue
<1>1. ~Sought(calls, "session")
  BY SettledAlone
<1>2. QED BY <1>1 DEF GateCore, GateTrue, Settled

-----------------------------------------------------------------------------
(* Accounts, audit and analytics *)

FilterRecords ==
  {[accounts |-> Accounts, log |-> AuditLog, attempts |-> Attempts], [accounts |-> {}, log |-> {}, attempts |-> {}]}
AlongAnswer == IF page = "audit" THEN srv.attempts ELSE srv.accounts

FilterAsked(c, a) ==
  /\ c.kind \in {"rows", "along"}
  /\ c.kind = "rows" => c.arg.filter \in FilterOf[page] /\ a \in {Waiting, Found(srv, c.arg)}
  /\ c.kind = "along" => a \in {Waiting, AlongAnswer}

\* The last query is asked for, or answered.
LastQuery(f, q, answer, x) ==
  \/ x = answer /\ \A o \in DOMAIN f : o.kind # "rows"
  \/ \E l \in DOMAIN f : l.kind = "rows" /\ l.arg = q /\ \A o \in DOMAIN f : o.kind = "rows" => o.id <= l.id

\* The rows are those of the query that stands, or that query is on its way or
\* about to be sent.
FilterCore ==
  /\ DOMAIN st = {"filter", "nr", "due", "got", "more", "error"} /\ st.filter \in FilterOf[page] /\ ~st.error
  /\ srv \in FilterRecords
  /\ \A c \in Requests : FilterAsked(c, calls[c])
  /\ Listed(calls, "rows")
  /\ page # "users" /\ st.got # NoData => st.more = AlongAnswer
  /\ st.due \/ LastQuery(calls, FilterQuery, Found(srv, FilterQuery), st.got)

\* The steps that this page takes while nobody else does anything.
LEMMA FilterSteps ==
  ASSUME page \in FilterPages, FilterCore, Inside
  PROVE  \/ FilterClick \/ FilterFires
         \/ \E c \in Requests : FilterServe(c) \/ (Answer(c) # Waiting /\ RowsArrive(c))
<1>1. \A c \in Requests : c.kind \in {"rows", "along"}
  BY DEF FilterCore, FilterAsked
<1>2. DOMAIN srv = {"accounts", "log", "attempts"}
  BY DEF FilterCore, FilterRecords
<1>3. page \in {"users", "audit", "analytics"}
  BY DEF FilterPages
<1>4. QED
  BY <1>1, <1>2, <1>3 DEF Inside, Click, ServeSome, Serve, ServeRead, ArriveSome, Arrive, TimerSome, PosturePages,
       InstallUrlServed, DetailsServe, ReportServe, AgentServe, RegistryServe, SubmitServe, NewItemServe

LEMMA FoundType ==
  ASSUME page \in FilterPages, NEW r \in FilterRecords, NEW q, q.filter \in FilterOf[page]
  PROVE  Found(r, q) \in Tables
<1>1. r.accounts \subseteq Accounts /\ r.log \subseteq AuditLog
  BY DEF FilterRecords
<1>2. CASE page = "users"
  <2> DEFINE them == {a \in r.accounts : q.filter \in {None, a.status}}
             rows == IF Cardinality(them) <= 2 /\ q.nr > 1 THEN {} ELSE them
             pages == IF Cardinality(them) > 2 THEN 2 ELSE 1
  <2>1. Found(r, q) = [rows |-> rows, pages |-> pages]
    BY <1>2 DEF Found
  <2>2. rows \subseteq Accounts /\ pages \in {1, 2}
    BY <1>1
  <2> HIDE DEF rows, pages
  <2>3. QED BY <2>1, <2>2 DEF Tables
<1>3. CASE page = "audit"
  <2> DEFINE rows == {e \in r.log : q.filter \in {None, e.action}}
  <2>1. Found(r, q) = [rows |-> rows, pages |-> 1]
    BY <1>3 DEF Found
  <2>2. rows \subseteq AuditLog
    BY <1>1
  <2> HIDE DEF rows
  <2>3. QED BY <2>1, <2>2 DEF Tables
<1>4. CASE page = "analytics"
  <2> DEFINE rows == {[days |-> q.filter]}
  <2>1. Found(r, q) = [rows |-> rows, pages |-> 1]
    BY <1>4 DEF Found
  <2>2. FilterOf[page] = FilterOf.analytics
    BY <1>4
  <2>3. q.filter \in FilterOf.analytics
    BY <2>2
  <2>4. [days |-> q.filter] \in Charts
    BY <2>3 DEF Charts
  <2>5. rows \in SUBSET (Accounts \cup AuditLog \cup Charts)
    BY <2>4
  <2> HIDE DEF rows
  <2>6. QED BY <2>1, <2>5 DEF Tables
<1>5. QED BY <1>2, <1>3, <1>4 DEF FilterPages

LEMMA AlongType ==
  ASSUME NEW r \in FilterRecords
  PROVE  r.attempts \notin {Waiting, Failed} /\ r.accounts \notin {Waiting, Failed}
BY FilterAssumption, MarksAssumption DEF FilterRecords, Marks

\* Every step of a calm visit keeps it so.
LEMMA FilterCalm ==
  ASSUME page \in FilterPages, VisitType, FilterCore, Inside, ~overtaken'
  PROVE  FilterCore'
<1>1. /\ DOMAIN st = {"filter", "nr", "due", "got", "more", "error"} /\ st.filter \in FilterOf[page] /\ ~st.error
      /\ srv \in FilterRecords
      /\ (\A c \in Requests : FilterAsked(c, calls[c]))
      /\ Listed(calls, "rows")
      /\ page # "users" /\ st.got # NoData => st.more = AlongAnswer
      /\ st.due \/ LastQuery(calls, FilterQuery, Found(srv, FilterQuery), st.got)
  BY DEF FilterCore
<1>2. page' = page
  BY InsideForward DEF Forward
<1>3. CASE FilterClick
  <2>1. Requests \ {} = Requests
    OBVIOUS
  <2>2. ASSUME NEW s, Acts(s, {}, {}), DOMAIN s = DOMAIN st, s.filter \in FilterOf[page], s.due, s.got = st.got, s.more = st.more,
               s.error = st.error
        PROVE  FilterCore'
    <3>1. Sends(Requests, {}) /\ srv' = srv /\ st' = s
      BY <2>1, <2>2, ActsFacts
    <3>2. Requests' = Requests /\ \A o \in Requests : calls'[o] = calls[o]
      BY <3>1, NumberedNone DEF Sends, New
    <3>3. Listed(calls', "rows")
      BY <1>1, <3>2 DEF Listed, Requests
    <3>4. QED BY <1>2, <1>1, <2>2, <3>1, <3>2, <3>3 DEF FilterCore, FilterAsked, AlongAnswer, Found
  <2>3. ASSUME NEW f \in FilterOf[page], Acts([st EXCEPT !.filter = f, !.nr = 1, !.due = TRUE], {}, {})
        PROVE  FilterCore'
    <3> DEFINE s == [st EXCEPT !.filter = f, !.nr = 1, !.due = TRUE]
    <3>1. DOMAIN s = DOMAIN st /\ s.filter = f /\ s.due = TRUE /\ s.got = st.got /\ s.more = st.more /\ s.error = st.error
          /\ Acts(s, {}, {})
      BY <1>1, <2>3
    <3> HIDE DEF s
    <3>2. QED BY <2>2, <3>1
  <2>4. ASSUME NEW n, Acts([st EXCEPT !.nr = n, !.due = TRUE], {}, {})
        PROVE  FilterCore'
    <3> DEFINE s == [st EXCEPT !.nr = n, !.due = TRUE]
    <3>1. DOMAIN s = DOMAIN st /\ s.filter = st.filter /\ s.due = TRUE /\ s.got = st.got /\ s.more = st.more /\ s.error = st.error
          /\ Acts(s, {}, {})
      BY <1>1, <2>4
    <3> HIDE DEF s
    <3>2. QED BY <1>1, <2>2, <3>1
  <2>5. QED BY <1>3, <2>3, <2>4 DEF FilterClick
<1>4. CASE FilterFires
  <2> DEFINE s == [st EXCEPT !.due = FALSE]
             q == Ask("rows", FilterQuery)
             new == {q} \cup Along
  <2>1. DOMAIN s = DOMAIN st /\ s.filter = st.filter /\ s.nr = st.nr /\ s.got = st.got /\ s.more = st.more /\ s.error = st.error
        /\ Fires(s, {}, new)
    BY <1>1, <1>4 DEF FilterFires
  <2>2. q.kind = "rows" /\ q.arg = FilterQuery /\ q.arg.filter = st.filter
    BY DEF Ask, FilterQuery
  <2>3. \A r \in Along : r.kind = "along"
    BY DEF Along, Ask
  <2> HIDE DEF s, q
  <2>4. q \in new /\ \A r \in new : r.kind = "along" \/ (r.kind = "rows" /\ r.arg = FilterQuery)
    BY <2>2, <2>3
  <2> HIDE DEF new
  <2>5. Requests \ {} = Requests
    OBVIOUS
  <2>6. Sends(Requests, new) /\ srv' = srv /\ st' = s
    BY <2>1, <2>5, FiresFacts
  <2>7. /\ \A o \in New(new) : o.id = issued + 1 /\ (o.kind = "along" \/ (o.kind = "rows" /\ o.arg = FilterQuery))
        /\ Requests' = Requests \cup New(new) /\ (\A o \in New(new) : calls'[o] = Waiting) /\ \A o \in Requests : calls'[o] = calls[o]
    BY <2>4, <2>6, NewFacts DEF Sends
  <2>8. PICK l \in New(new) : l.kind = "rows"
    <3>1. [id |-> issued + 1, kind |-> q.kind, arg |-> q.arg] \in New(new)
      BY <2>4 DEF New, Numbered
    <3>2. QED BY <2>2, <3>1
  <2>9. FilterQuery' = FilterQuery
    BY <1>2, <2>1, <2>6 DEF FilterQuery
  <2>10. LastQuery(calls', FilterQuery', Found(srv, FilterQuery)', st'.got)
    <3>1. \A o \in Requests' : o.id <= l.id
      BY <2>7, <2>8 DEF VisitType
    <3>2. l \in Requests' /\ l.arg = FilterQuery
      BY <2>7, <2>8
    <3>3. QED BY <2>8, <2>9, <3>1, <3>2 DEF LastQuery, Requests
  <2>11. Listed(calls', "rows")
    <3>1. \A r, p \in new : r.kind = "rows" /\ p.kind = "rows" => r.arg = p.arg
      BY <2>4
    <3>2. Requests \in SUBSET Requests
      OBVIOUS
    <3>3. QED BY <1>1, <2>6, <3>1, <3>2, SendsListed
  <2>12. \A c \in Requests' : (c.kind \in {"rows", "along"} /\ (c.kind = "rows" => c.arg.filter \in FilterOf[page] /\ calls'[c] \in {Waiting, Found(srv, c.arg)})
                               /\ (c.kind = "along" => calls'[c] \in {Waiting, AlongAnswer}))
    BY <1>1, <2>2, <2>7 DEF FilterAsked
  <2>13. (\A c \in Requests : FilterAsked(c, calls[c]))'
    BY <1>2, <2>6, <2>12 DEF FilterAsked, AlongAnswer, Found
  <2>14. AlongAnswer' = AlongAnswer
    BY <1>2, <2>6 DEF AlongAnswer
  <2>15. QED BY <1>2, <1>1, <2>1, <2>6, <2>10, <2>11, <2>13, <2>14 DEF FilterCore
<1>5. ASSUME NEW c \in Requests, NEW a, Replies(c, a, srv), c.kind = "rows" => a = Found(srv, c.arg), c.kind = "along" => a = AlongAnswer
      PROVE  FilterCore'
  <2>1. /\ st' = st /\ srv' = srv /\ Requests' = Requests
        /\ calls'[c] = a /\ \A o \in Requests \ {c} : calls'[o] = calls[o]
    BY <1>5, RepliesFacts
  <2>2. (\A o \in Requests : FilterAsked(o, calls[o]))'
    <3>1. \A o \in Requests : (o.kind \in {"rows", "along"} /\ (o.kind = "rows" => o.arg.filter \in FilterOf[page] /\ calls'[o] \in {Waiting, Found(srv, o.arg)})
                               /\ (o.kind = "along" => calls'[o] \in {Waiting, AlongAnswer}))
      BY <1>1, <1>5, <2>1 DEF FilterAsked
    <3>2. QED BY <1>2, <2>1, <3>1 DEF FilterAsked, AlongAnswer, Found
  <2>3. Listed(calls', "rows")
    BY <1>1, <2>1 DEF Listed, Requests
  <2>4. LastQuery(calls, FilterQuery, Found(srv, FilterQuery), st.got) => LastQuery(calls', FilterQuery, Found(srv, FilterQuery), st.got)
    BY <2>1 DEF LastQuery, Requests
  <2>5. FilterQuery' = FilterQuery /\ AlongAnswer' = AlongAnswer /\ Found(srv, FilterQuery)' = Found(srv, FilterQuery)
    BY <1>2, <2>1 DEF FilterQuery, AlongAnswer, Found
  <2>6. QED BY <1>2, <1>1, <2>1, <2>2, <2>3, <2>4, <2>5 DEF FilterCore
<1>6. ASSUME NEW c \in Requests, Answer(c) # Waiting, RowsArrive(c)
      PROVE  FilterCore'
  <2>1. \A o \in Requests : ~Threw(o)
    <3>1. ASSUME NEW o \in Requests, o.kind = "rows" PROVE ~Threw(o)
      <4>1. Found(srv, o.arg) \in Tables
        BY <1>1, <3>1, FoundType DEF FilterAsked
      <4>2. Failed \notin Tables /\ Failed # Waiting
        BY FilterAssumption, MarksAssumption DEF Marks
      <4>3. QED BY <1>1, <3>1, <4>1, <4>2 DEF FilterAsked, Threw, Answer
    <3>2. ASSUME NEW o \in Requests, o.kind = "along" PROVE ~Threw(o)
      BY <1>1, <3>2, AlongType, MarksAssumption DEF FilterAsked, Threw, Answer, AlongAnswer, Marks
    <3>3. QED BY <1>1, <3>1, <3>2 DEF FilterAsked
  <2>2. ASSUME NEW s, NEW dropped \in SUBSET Requests, Takes(c, s, dropped, {}), c.kind = "rows", \A d \in dropped : d.kind # "rows",
               DOMAIN s = DOMAIN st, s.filter = st.filter, s.nr = st.nr, s.due = st.due, ~s.error, s.got = Answer(c),
               page # "users" => s.more = AlongAnswer
        PROVE  FilterCore'
    <3> DEFINE kept == (Requests \ {c}) \ dropped
    <3>1. Sends(kept, {}) /\ srv' = srv /\ st' = s /\ \A o \in Requests \ dropped : o.kind = c.kind => ~(o.id < c.id)
      BY <2>2, TakesFacts
    <3>2. Requests' = kept /\ \A o \in kept : calls'[o] = calls[o]
      BY <3>1, NumberedNone DEF Sends, New
    <3>3. (\A o \in Requests : FilterAsked(o, calls[o]))'
      <4>1. \A o \in Requests' : (o.kind \in {"rows", "along"} /\ (o.kind = "rows" => o.arg.filter \in FilterOf[page] /\ calls'[o] \in {Waiting, Found(srv, o.arg)})
                                  /\ (o.kind = "along" => calls'[o] \in {Waiting, AlongAnswer}))
        BY <1>1, <3>2 DEF FilterAsked
      <4>2. QED BY <1>2, <3>1, <4>1 DEF FilterAsked, AlongAnswer, Found
    <3>4. Listed(calls', "rows")
      BY <1>1, <3>2 DEF Listed, Requests
    <3>5. FilterQuery' = FilterQuery /\ AlongAnswer' = AlongAnswer /\ Found(srv, FilterQuery)' = Found(srv, FilterQuery)
      BY <1>2, <2>2, <3>1 DEF FilterQuery, AlongAnswer, Found
    <3>6. ASSUME LastQuery(calls, FilterQuery, Found(srv, FilterQuery), st.got)
          PROVE  LastQuery(calls', FilterQuery, Found(srv, FilterQuery), s.got)
      <4>1. PICK l \in Requests : l.kind = "rows" /\ l.arg = FilterQuery /\ \A o \in Requests : o.kind = "rows" => o.id <= l.id
        BY <2>2, <3>6 DEF LastQuery, Requests
      <4>2. CASE l = c
        <5>1. \A o \in Requests : o.kind = "rows" => o = c
          <6>1. \A o \in Requests : o.kind = "rows" => o.id = c.id
            BY <2>2, <3>1, <4>1, <4>2 DEF VisitType
          <6>2. QED BY <1>1, <2>2, <6>1 DEF Listed, Requests
        <5>2. s.got = Found(srv, FilterQuery)
          BY <1>1, <1>6, <2>2, <4>1, <4>2 DEF FilterAsked, Answer
        <5>3. \A o \in Requests' : o.kind # "rows"
          BY <3>2, <5>1
        <5>4. QED BY <5>2, <5>3 DEF LastQuery, Requests
      <4>3. CASE l # c
        <5>1. l \in Requests' /\ \A o \in Requests' : o.kind = "rows" => o.id <= l.id
          BY <2>2, <3>2, <4>1, <4>3
        <5>2. QED BY <4>1, <5>1 DEF LastQuery, Requests
      <4>4. QED BY <4>2, <4>3
    <3> HIDE DEF kept
    <3>7. QED BY <1>2, <1>1, <2>2, <3>1, <3>3, <3>4, <3>5, <3>6 DEF FilterCore
  <2>3. CASE page = "users"
    <3> DEFINE s == [st EXCEPT !.got = Answer(c), !.error = FALSE]
    <3>1. DOMAIN s = DOMAIN st /\ s.filter = st.filter /\ s.nr = st.nr /\ s.due = st.due /\ s.error = FALSE /\ s.got = Answer(c)
      BY <1>1
    <3>2. Takes(c, s, {}, {}) /\ c.kind = "rows"
      BY <1>6, <2>1, <2>3 DEF RowsArrive
    <3> HIDE DEF s
    <3>3. {} \in SUBSET Requests /\ \A d \in {} : d.kind # "rows"
      OBVIOUS
    <3>4. QED BY <2>2, <2>3, <3>1, <3>2, <3>3
  <2>4. CASE page # "users"
    <3>1. PICK d \in Requests : /\ d.id = c.id /\ d # c /\ c.kind = "rows" /\ Answered(c) /\ Answered(d)
                                /\ Takes(c, [st EXCEPT !.got = Answer(c), !.more = Answer(d), !.error = FALSE], {d}, {})
      BY <1>6, <2>1, <2>4 DEF RowsArrive
    <3> DEFINE s == [st EXCEPT !.got = Answer(c), !.more = Answer(d), !.error = FALSE]
    <3>2. DOMAIN s = DOMAIN st /\ s.filter = st.filter /\ s.nr = st.nr /\ s.due = st.due /\ s.error = FALSE /\ s.got = Answer(c)
          /\ s.more = Answer(d) /\ Takes(c, s, {d}, {})
      BY <1>1, <3>1
    <3>3. d.kind = "along"
      BY <1>1, <3>1 DEF Listed, FilterAsked, Requests
    <3>4. Answer(d) = AlongAnswer
      BY <1>1, <3>1, <3>3 DEF FilterAsked, Answered, Answer
    <3> HIDE DEF s
    <3>5. {d} \in SUBSET Requests /\ \A o \in {d} : o.kind # "rows"
      BY <3>3
    <3>6. QED BY <2>2, <3>1, <3>2, <3>4, <3>5
  <2>5. QED BY <2>3, <2>4
<1>7. ASSUME NEW c \in Requests, FilterServe(c)
      PROVE  FilterCore'
  <2>1. CASE c.kind = "rows" /\ Replies(c, Found(srv, c.arg), srv)
    BY <1>5, <2>1
  <2>2. CASE c.kind = "along" /\ Replies(c, AlongAnswer, srv)
    BY <1>5, <2>2
  <2>3. QED BY <1>7, <2>1, <2>2 DEF FilterServe, AlongAnswer
<1>8. QED BY <1>3, <1>4, <1>6, <1>7, FilterSteps

\* It is so when the page is mounted.
LEMMA FilterStart == FilterInit => page \in FilterPages /\ FilterCore
<1> SUFFICES ASSUME FilterInit PROVE page \in FilterPages /\ FilterCore
  OBVIOUS
<1>1. PICK p \in FilterPages :
        Mounted(p, [filter |-> IF p = "analytics" THEN "30" ELSE None, nr |-> 1, due |-> TRUE, got |-> NoData, more |-> NoData,
                    error |-> FALSE], {}, FilterRecords)
  BY DEF FilterInit, FilterRecords
<1> DEFINE f == IF p = "analytics" THEN "30" ELSE None
           s == [filter |-> f, nr |-> 1, due |-> TRUE, got |-> NoData, more |-> NoData, error |-> FALSE]
<1>2. Mounted(p, s, {}, FilterRecords)
  BY <1>1
<1>3. f \in FilterOf[p]
  BY DEF FilterOf, FilterPages
<1> HIDE DEF f
<1>4. DOMAIN s = {"filter", "nr", "due", "got", "more", "error"} /\ s.filter = f /\ s.due = TRUE /\ s.got = NoData /\ s.error = FALSE
  OBVIOUS
<1> HIDE DEF s
<1>5. page = p /\ st = s /\ srv \in FilterRecords /\ Requests = {}
  BY <1>2, MountedFacts, NumberedNone
<1>6. Listed(calls, "rows")
  BY <1>5 DEF Listed, Requests
<1>7. QED BY <1>3, <1>4, <1>5, <1>6 DEF FilterCore

\* Once everything is answered, the page shows what is true.
LEMMA FilterEnd == ASSUME page \in FilterPages, FilterCore, Settled PROVE FilterTrue
<1> SUFFICES ASSUME ~st.due
             PROVE  /\ st.got = Found(srv, FilterQuery) /\ ~st.error
                    /\ page = "users" => \A a \in st.got.rows : AccountRow(a).plan = a.tier \/ AccountRow(a).stored = a.tier
                    /\ page = "audit" => FailedRecently = {a \in srv.attempts : ~a.succeeded}
                    /\ page = "analytics" => AtLimit \subseteq NearLimit /\ \A a \in srv.accounts \ NearLimit : \A b \in DOMAIN a.used : a.used[b] < 80
  BY DEF FilterTrue
<1>1. st.got = Found(srv, FilterQuery) /\ ~st.error /\ srv \in FilterRecords
  BY DEF FilterCore, LastQuery, Settled, Requests
<1>2. st.got # NoData
  <2>1. FilterQuery.filter \in FilterOf[page]
    BY DEF FilterCore, FilterQuery
  <2>2. st.got \in Tables /\ NoData \notin Tables
    BY <1>1, <2>1, FoundType, FilterAssumption DEF Marks
  <2>3. QED BY <2>2
<1>3. page # "users" => st.more = AlongAnswer
  BY <1>2 DEF FilterCore
<1>4. \A a : AccountRow(a).plan = a.tier \/ AccountRow(a).stored = a.tier
  BY DEF AccountRow
<1>5. page = "audit" => FailedRecently = {a \in srv.attempts : ~a.succeeded}
  BY <1>3 DEF FailedRecently, AlongAnswer
<1>6. CASE page = "analytics"
  <2>1. st.more = srv.accounts /\ srv.accounts \subseteq Accounts
    BY <1>1, <1>3, <1>6 DEF AlongAnswer, FilterRecords
  <2>2. \A a \in Accounts : DOMAIN a.used = {"cli", "hook"} /\ a.used["cli"] \in Nat /\ a.used["hook"] \in Nat
    BY DEF Accounts
  <2>3. \A a \in Accounts : Nearest(a) \in Nat /\ Nearest(a) >= a.used["cli"] /\ Nearest(a) >= a.used["hook"]
    BY <2>2 DEF Nearest
  <2>4. AtLimit \subseteq NearLimit
    BY <2>1, <2>3 DEF AtLimit, NearLimit
  <2>5. ASSUME NEW a \in srv.accounts \ NearLimit, NEW b \in DOMAIN a.used PROVE a.used[b] < 80
    <3>1. ~(Nearest(a) >= 80) /\ a \in Accounts
      BY <2>1 DEF NearLimit
    <3>2. b \in {"cli", "hook"}
      BY <2>2, <3>1
    <3>3. QED BY <2>2, <2>3, <3>1, <3>2
  <2>6. QED BY <1>1, <1>6, <2>4, <2>5
<1>7. QED BY <1>1, <1>4, <1>5, <1>6

-----------------------------------------------------------------------------
(* An account *)

\* What is asked for, and what it may be answered with.
UserAsked(c, a) ==
  /\ c.kind \in Asked \cup {"detail"}
  /\ c.kind = "setPlan" => c.arg.what \in {"free", "team"}
  /\ c.kind = "setSeats" => c.arg.what \in Nat
  /\ c.kind = "setAccountStatus" => c.arg.what \in {"active", "disabled", "blocked"}
  /\ c.kind = "setOverride" => c.arg.what = "unlimited"
  /\ c.kind = "detail" => a \in {Waiting, Failed} \cup AccountStates

UserType ==
  /\ DOMAIN st = {"at", "detail", "error", "seats", "busy", "told"} /\ st.seats \in Nat
  /\ st.detail \in {NoData} \cup AccountStates
  /\ srv \in AccountStates
  /\ \A c \in Requests : UserAsked(c, calls[c])

AccountNow      == IF srv.there THEN srv ELSE Failed
AccountShown(s) == IF s.error THEN Failed ELSE s.detail

\* A change that was made, and whose answer will have the account loaded again.
UserChanged == \E m \in Requests : m.kind \in Asked /\ Answered(m)

\* The account is the one that is there, or will be loaded again, and who has
\* left for the list of accounts has deleted it.
UserCore ==
  /\ UserType
  /\ Listed(calls, "detail")
  /\ st.at = "/admin" \/ (\E m \in Requests : m.kind = "deleteUser" /\ Answered(m)) => ~srv.there
  /\ st.at = "/admin" \/ UserChanged \/ Latest(calls, "detail", AccountNow, AccountShown(st))

LEMMA UserKinds == "detail" \notin Asked /\ "deleteUser" \in Asked
BY DEF Asked, Sudo

\* The steps that this page takes while nobody else does anything.
LEMMA UserSteps ==
  ASSUME page = "user", UserCore, Inside
  PROVE  UserClick \/ \E c \in Requests : UserServe(c) \/ (Answer(c) # Waiting /\ UserArrive(c))
<1>1. \A c \in Requests : c.kind \in {"detail", "setPlan", "setSeats", "setAccountStatus", "deleteUser", "setOverride", "clearOverride", "resetUsage", "sendReset"}
  BY DEF UserCore, UserType, UserAsked, Asked, Sudo
<1>2. DOMAIN srv = {"tier", "seats", "status", "override", "used", "there", "mailed"}
  BY DEF UserCore, UserType, AccountStates
<1>3. QED
  BY <1>1, <1>2 DEF Inside, Click, ServeSome, Serve, ServeRead, ArriveSome, Arrive, TimerSome, PosturePages, FilterPages,
       InstallUrlServed, DetailsServe, ReportServe, AgentServe, RegistryServe, SubmitServe, NewItemServe

\* The requests after some were kept and some sent.
LEMMA UserSent ==
  ASSUME VisitType, UserType, NEW kept \in SUBSET Requests, NEW new, Sends(kept, new), \A r \in new : UserAsked(r, Waiting)
  PROVE  \A c \in Requests' : UserAsked(c, calls'[c])
<1>1. /\ \A c \in New(new) : \E r \in new : c.kind = r.kind /\ c.arg = r.arg
      /\ Requests' = kept \cup New(new)
      /\ \A c \in kept : calls'[c] = calls[c]
      /\ \A c \in New(new) : calls'[c] = Waiting
  BY NewFacts DEF Sends
<1>2. \A c \in New(new) : UserAsked(c, Waiting)
  BY <1>1 DEF UserAsked
<1>3. QED BY <1>1, <1>2 DEF UserType

\* What does not load the account again.
LEMMA UserSame ==
  ASSUME VisitType, UserCore, NEW kept \in SUBSET Requests, NEW new, Sends(kept, new),
         \A o \in Requests : o \notin kept => o.kind # "detail" /\ (~Answered(o) \/ st'.at = "/admin"),
         \A r \in new : UserAsked(r, Waiting) /\ r.kind # "detail",
         srv' = srv, DOMAIN st' = DOMAIN st, st'.detail = st.detail, st'.error = st.error, st'.seats \in Nat,
         st'.at = st.at \/ (st'.at = "/admin" /\ ~srv.there)
  PROVE  UserCore'
<1>1. \A c \in New(new) : \E r \in new : c.kind = r.kind /\ c.arg = r.arg
  BY NewFacts
<1>2. Requests' = kept \cup New(new) /\ (\A c \in kept : calls'[c] = calls[c]) /\ \A c \in New(new) : calls'[c] = Waiting
  BY DEF Sends
<1>3. UserType'
  BY UserSent DEF UserCore, UserType
<1>4. Listed(calls', "detail")
  BY SendsListed DEF UserCore
<1>5. st'.at # "/admin" /\ UserChanged => UserChanged'
  BY <1>2 DEF UserChanged, Answered, Answer
<1>6. st'.at = "/admin" \/ (\E m \in Requests' : m.kind = "deleteUser" /\ Answered(m)') => ~srv.there
  BY <1>2 DEF UserCore, Answered, Answer
<1>7. Latest(calls, "detail", AccountNow, AccountShown(st)) => Latest(calls', "detail", AccountNow, AccountShown(st))
  BY KeepsLatest
<1>8. AccountNow' = AccountNow /\ AccountShown(st') = AccountShown(st)
  BY DEF AccountNow, AccountShown
<1>9. st'.at = "/admin" \/ UserChanged' \/ Latest(calls', "detail", AccountNow', AccountShown(st'))
  BY <1>5, <1>7, <1>8 DEF UserCore
<1>10. QED BY <1>3, <1>4, <1>6, <1>9 DEF UserCore

\* Every step of a calm visit keeps it so.
LEMMA UserCalm ==
  ASSUME page = "user", VisitType, UserCore, Inside, ~overtaken'
  PROVE  UserCore'
<1>1. /\ DOMAIN st = {"at", "detail", "error", "seats", "busy", "told"} /\ st.seats \in Nat
      /\ st.detail \in {NoData} \cup AccountStates
      /\ srv \in AccountStates
      /\ \A c \in Requests : UserAsked(c, calls[c])
      /\ st.at = "/admin" \/ (\E m \in Requests : m.kind = "deleteUser" /\ Answered(m)) => ~srv.there
  BY DEF UserCore, UserType
<1>2. CASE UserClick
  <2>1. ASSUME NEW s, NEW new, Acts(s, {}, new), DOMAIN s = DOMAIN st, s.detail = st.detail, s.error = st.error,
               s.at = st.at, s.seats \in Nat, \A r \in new : UserAsked(r, Waiting) /\ r.kind # "detail"
        PROVE  UserCore'
    <3>1. Requests \ {} = Requests /\ Requests \in SUBSET Requests
      OBVIOUS
    <3>2. Sends(Requests, new) /\ srv' = srv /\ st' = s
      BY <2>1, <3>1, ActsFacts
    <3>3. QED BY <2>1, <3>1, <3>2, UserSame
  <2>2. ASSUME NEW card, NEW k \in Asked, NEW w, NEW code,
               UserAsked(Ask(k, [card |-> card, what |-> w, code |-> code]), Waiting),
               \/ Acts([st EXCEPT !.busy[card] = TRUE], {}, {Ask(k, [card |-> card, what |-> w, code |-> code])})
               \/ Acts(st, {}, {Ask(k, [card |-> card, what |-> w, code |-> code])})
        PROVE  UserCore'
    <3> DEFINE s == [st EXCEPT !.busy[card] = TRUE]
               q == Ask(k, [card |-> card, what |-> w, code |-> code])
               new == {q}
    <3>1. DOMAIN s = DOMAIN st /\ s.detail = st.detail /\ s.error = st.error /\ s.at = st.at /\ s.seats = st.seats
      BY <1>1
    <3>2. UserAsked(q, Waiting) /\ q.kind # "detail"
      BY <2>2, UserKinds DEF Ask
    <3>3. \A r \in new : UserAsked(r, Waiting) /\ r.kind # "detail"
      BY <3>2
    <3>4. Acts(s, {}, new) \/ Acts(st, {}, new)
      BY <2>2
    <3> HIDE DEF s, new
    <3>5. QED BY <1>1, <2>1, <3>1, <3>3, <3>4
  <2>3. \A k, a : Ask(k, a).kind = k /\ Ask(k, a).arg = a
    BY DEF Ask
  <2>4. \A card, w, code : [card |-> card, what |-> w, code |-> code].what = w
    OBVIOUS
  <2>5. ASSUME NEW k \in Asked, NEW card, NEW w, NEW code,
               k = "setPlan" => w \in {"free", "team"}, k = "setSeats" => w \in Nat,
               k = "setAccountStatus" => w \in {"active", "disabled", "blocked"}, k = "setOverride" => w = "unlimited"
        PROVE  UserAsked(Ask(k, [card |-> card, what |-> w, code |-> code]), Waiting)
    <3> DEFINE q == Ask(k, [card |-> card, what |-> w, code |-> code])
    <3>1. q.kind = k /\ q.arg.what = w
      BY <2>3, <2>4
    <3> HIDE DEF q
    <3>2. UserAsked(q, Waiting)
      BY <2>5, <3>1, UserKinds DEF UserAsked
    <3>3. QED BY <3>2 DEF q
  <2>6. ASSUME NEW card, NEW k \in Asked, NEW w, Asks(card, k, w) \/ AsksWrongly(card, k, w),
               k = "setPlan" => w \in {"free", "team"}, k = "setSeats" => w \in Nat,
               k = "setAccountStatus" => w \in {"active", "disabled", "blocked"}, k = "setOverride" => w = "unlimited"
        PROVE  UserCore'
    <3>1. \A code : UserAsked(Ask(k, [card |-> card, what |-> w, code |-> code]), Waiting)
      BY <2>5, <2>6
    <3>2. CASE Asks(card, k, w)
      BY <2>2, <3>1, <3>2 DEF Asks
    <3>3. CASE AsksWrongly(card, k, w)
      BY <2>2, <3>1, <3>3 DEF AsksWrongly
    <3>4. QED BY <2>6, <3>2, <3>3
  <2>7. ASSUME NEW k \in {"clearOverride", "resetUsage"}, Quietly(k)
        PROVE  UserCore'
    <3>1. k \in Asked
      BY DEF Asked
    <3>2. UserAsked(Ask(k, [card |-> None, what |-> None, code |-> "right"]), Waiting)
      BY <2>5, <3>1
    <3>3. Acts(st, {}, {Ask(k, [card |-> None, what |-> None, code |-> "right"])})
      BY <2>7 DEF Quietly
    <3>4. QED BY <2>2, <3>1, <3>2, <3>3
  <2>8. CASE GrantPlan
    BY <2>6, <2>8 DEF GrantPlan, Asked, Sudo
  <2>9. CASE GrantSeats
    <3>1. ASSUME NEW n \in {1, 5}, Acts([st EXCEPT !.seats = n], {}, {})
          PROVE  UserCore'
      <4> DEFINE s == [st EXCEPT !.seats = n]
      <4>1. DOMAIN s = DOMAIN st /\ s.detail = st.detail /\ s.error = st.error /\ s.at = st.at /\ s.seats = n
        BY <1>1
      <4>2. (\A r \in {} : UserAsked(r, Waiting) /\ r.kind # "detail") /\ n \in Nat /\ Acts(s, {}, {})
        BY <3>1
      <4> HIDE DEF s
      <4>3. QED BY <2>1, <4>1, <4>2
    <3>2. CASE Asks("seats", "setSeats", st.seats)
      BY <1>1, <2>6, <3>2 DEF Asked, Sudo
    <3>3. QED BY <2>9, <3>1, <3>2 DEF GrantSeats
  <2>10. CASE QuotaOverrides
    BY <2>6, <2>7, <2>10 DEF QuotaOverrides, Asked, Sudo
  <2>11. CASE DangerZone
    <3>1. ASSUME NEW x \in {"disabled", "blocked", "active"}, Asks("danger", "setAccountStatus", x)
          PROVE  UserCore'
      BY <2>6, <3>1 DEF Asked, Sudo
    <3>2. CASE Asks("danger", "sendReset", None) \/ Asks("danger", "deleteUser", None)
      BY <2>6, <3>2 DEF Asked, Sudo
    <3>3. QED BY <2>11, <3>1, <3>2 DEF DangerZone
  <2>12. QED BY <1>2, <2>8, <2>9, <2>10, <2>11 DEF UserClick
<1>3. ASSUME NEW c \in Requests, NEW a, NEW r \in AccountStates, Replies(c, a, r), UserAsked(c, a),
             \/ r = srv /\ a = Failed /\ c.kind \in Asked
             \/ r = srv /\ c.kind = "detail" /\ a = AccountNow
             \/ c.kind \in Asked /\ a \notin {Waiting, Failed} /\ srv.there /\ (c.kind = "deleteUser" <=> ~r.there)
      PROVE  UserCore'
  <2>1. /\ st' = st /\ srv' = r /\ Requests' = Requests /\ calls[c] = Waiting
        /\ calls'[c] = a /\ \A o \in Requests \ {c} : calls'[o] = calls[o]
    BY <1>3, RepliesFacts
  <2>2. UserType'
    BY <1>1, <1>3, <2>1 DEF UserType
  <2>3. Listed(calls', "detail")
    BY <2>1 DEF UserCore, Listed, Requests
  <2>4. UserChanged => UserChanged'
    BY <2>1 DEF UserChanged, Answered, Answer
  <2>5. st'.at = "/admin" \/ (\E m \in Requests' : m.kind = "deleteUser" /\ Answered(m)') => ~srv'.there
    BY <1>1, <1>3, <2>1, UserKinds DEF Answered, Answer
  <2>6. CASE r = srv
    <3>1. AccountNow' = AccountNow
      BY <2>1, <2>6 DEF AccountNow
    <3>2. Latest(calls, "detail", AccountNow, AccountShown(st)) => Latest(calls', "detail", AccountNow, AccountShown(st)) \/ UserChanged'
      <4>1. CASE c.kind = "detail" => a = AccountNow
        BY <1>3, <4>1, RepliesLatest
      <4>2. CASE ~(c.kind = "detail" => a = AccountNow)
        BY <1>3, <4>2, UserKinds
      <4>3. QED BY <4>1, <4>2
    <3>3. QED BY <2>1, <2>2, <2>3, <2>4, <2>5, <3>1, <3>2 DEF UserCore
  <2>7. CASE c.kind \in Asked /\ a \notin {Waiting, Failed}
    BY <2>1, <2>2, <2>3, <2>5, <2>7 DEF UserCore, UserChanged, Answered, Answer
  <2>8. QED BY <1>3, <2>6, <2>7
<1>4. ASSUME NEW c \in Requests, UserServe(c)
      PROVE  UserCore'
  <2>1. CASE c.kind = "detail" /\ Replies(c, AccountNow, srv)
    <3>1. UserAsked(c, AccountNow)
      BY <1>1, <2>1, UserKinds DEF UserAsked, AccountNow
    <3>2. QED BY <1>1, <1>3, <2>1, <3>1
  <2>2. CASE c.kind \in Asked /\ Replies(c, Failed, srv)
    <3>1. UserAsked(c, Failed)
      BY <1>1, <2>2, UserKinds DEF UserAsked
    <3>2. QED BY <1>1, <1>3, <2>2, <3>1
  <2>3. ASSUME NEW r \in AccountStates, c.kind \in Asked, srv.there, Replies(c, "ok", r), c.kind = "deleteUser" <=> ~r.there
        PROVE  UserCore'
    <3>1. UserAsked(c, "ok")
      BY <1>1, <2>3, UserKinds DEF UserAsked
    <3>2. "ok" \notin {Waiting, Failed}
      BY MarksAssumption DEF Marks
    <3>3. QED BY <1>3, <2>3, <3>1, <3>2
  <2>4. UserAsked(c, calls[c])
    BY <1>1
  <2>5. CASE c.kind = "setPlan" /\ srv.there /\
             Replies(c, "ok", [srv EXCEPT !.tier = c.arg.what,
                                          !.seats = IF c.arg.what = "team" /\ @ < TeamMinSeats THEN TeamMinSeats ELSE @])
    <3> DEFINE n == IF c.arg.what = "team" /\ srv.seats < TeamMinSeats THEN TeamMinSeats ELSE srv.seats
               r == [srv EXCEPT !.tier = c.arg.what, !.seats = n]
    <3>1. n \in Nat /\ c.arg.what \in {"free", "team"}
      BY <1>1, <2>4, <2>5 DEF UserAsked, AccountStates, TeamMinSeats
    <3>2. Replies(c, "ok", r)
      BY <1>1, <2>5 DEF AccountStates
    <3> HIDE DEF n
    <3>3. r \in AccountStates /\ r.there = srv.there
      BY <1>1, <3>1 DEF AccountStates
    <3> HIDE DEF r
    <3>4. QED BY <2>3, <2>5, <3>2, <3>3 DEF Asked, Sudo
  <2>6. CASE c.kind = "setSeats" /\ srv.there /\ Replies(c, "ok", [srv EXCEPT !.seats = c.arg.what])
    <3>1. c.arg.what \in Nat
      BY <2>4, <2>6 DEF UserAsked
    <3>2. [srv EXCEPT !.seats = c.arg.what] \in AccountStates /\ [srv EXCEPT !.seats = c.arg.what].there = srv.there
      BY <1>1, <3>1 DEF AccountStates
    <3>3. QED BY <2>3, <2>6, <3>2 DEF Asked, Sudo
  <2>7. CASE c.kind = "setAccountStatus" /\ srv.there /\ Replies(c, "ok", [srv EXCEPT !.status = c.arg.what])
    <3>1. c.arg.what \in {"active", "disabled", "blocked"}
      BY <2>4, <2>7 DEF UserAsked
    <3>2. [srv EXCEPT !.status = c.arg.what] \in AccountStates /\ [srv EXCEPT !.status = c.arg.what].there = srv.there
      BY <1>1, <3>1 DEF AccountStates
    <3>3. QED BY <2>3, <2>7, <3>2 DEF Asked, Sudo
  <2>8. CASE c.kind = "setOverride" /\ srv.there /\ Replies(c, "ok", [srv EXCEPT !.override = c.arg.what])
    <3>1. c.arg.what = "unlimited"
      BY <2>4, <2>8 DEF UserAsked
    <3>2. [srv EXCEPT !.override = c.arg.what] \in AccountStates /\ [srv EXCEPT !.override = c.arg.what].there = srv.there
      BY <1>1, <3>1 DEF AccountStates
    <3>3. QED BY <2>3, <2>8, <3>2 DEF Asked, Sudo
  <2>9. CASE c.kind = "clearOverride" /\ srv.there /\ Replies(c, "ok", [srv EXCEPT !.override = None])
    <3>1. [srv EXCEPT !.override = None] \in AccountStates /\ [srv EXCEPT !.override = None].there = srv.there
      BY <1>1 DEF AccountStates
    <3>2. QED BY <2>3, <2>9, <3>1 DEF Asked
  <2>10. CASE c.kind = "resetUsage" /\ srv.there /\ Replies(c, "ok", [srv EXCEPT !.used = 0])
    <3>1. [srv EXCEPT !.used = 0] \in AccountStates /\ [srv EXCEPT !.used = 0].there = srv.there
      BY <1>1 DEF AccountStates
    <3>2. QED BY <2>3, <2>10, <3>1 DEF Asked
  <2>11. CASE c.kind = "sendReset" /\ srv.there /\ Replies(c, "ok", [srv EXCEPT !.mailed = TRUE])
    <3>1. [srv EXCEPT !.mailed = TRUE] \in AccountStates /\ [srv EXCEPT !.mailed = TRUE].there = srv.there
      BY <1>1 DEF AccountStates
    <3>2. QED BY <2>3, <2>11, <3>1 DEF Asked
  <2>12. CASE c.kind = "deleteUser" /\ srv.there /\ Replies(c, "ok", [srv EXCEPT !.there = FALSE])
    <3>1. [srv EXCEPT !.there = FALSE] \in AccountStates /\ ~[srv EXCEPT !.there = FALSE].there
      BY <1>1 DEF AccountStates
    <3>2. QED BY <2>3, <2>12, <3>1 DEF Asked, Sudo
  <2>13. c.kind \in Asked => c.kind \in {"setPlan", "setSeats", "setAccountStatus", "deleteUser", "setOverride", "clearOverride", "resetUsage", "sendReset"}
    BY DEF Asked, Sudo
  <2>14. CASE c.kind = "detail"
    BY <1>4, <2>1, <2>14, UserKinds DEF UserServe, AccountNow
  <2>15. CASE c.kind \in Asked
    <3>1. CASE ~srv.there \/ (c.kind \in Sudo /\ c.arg.code = "wrong")
      BY <1>4, <2>2, <2>15, <3>1, UserKinds DEF UserServe
    <3>2. CASE srv.there /\ ~(c.kind \in Sudo /\ c.arg.code = "wrong")
      BY <1>4, <2>5, <2>6, <2>7, <2>8, <2>9, <2>10, <2>11, <2>12, <2>13, <2>15, <3>2, UserKinds DEF UserServe
    <3>3. QED BY <3>1, <3>2
  <2>16. QED BY <1>4, <2>14, <2>15 DEF UserServe
<1>5. ASSUME NEW c \in Requests, Answer(c) # Waiting, UserArrive(c)
      PROVE  UserCore'
  <2> DEFINE kept == Requests \ {c}
  <2>1. (Requests \ {c}) \ {} = kept /\ \A r \in {} : UserAsked(r, Waiting) /\ r.kind # "detail"
    OBVIOUS
  <2>2. CASE AccountActed(c)
    <3>1. c.kind \in Asked /\ c.kind # "detail"
      BY <2>2, UserKinds DEF AccountActed
    <3>2. ASSUME NEW s, Takes(c, s, {}, {}), DOMAIN s = DOMAIN st, s.detail = st.detail, s.error = st.error, s.seats = st.seats,
                 s.at = st.at \/ (s.at = "/admin" /\ ~srv.there), ~Answered(c) \/ s.at = "/admin"
          PROVE  UserCore'
      <4>1. Sends(kept, {}) /\ srv' = srv /\ st' = s
        BY <2>1, <3>2, TakesFacts
      <4>2. \A o \in Requests : o \notin kept => o.kind # "detail" /\ (~Answered(o) \/ s.at = "/admin")
        BY <3>1, <3>2
      <4> HIDE DEF kept
      <4>3. kept \in SUBSET Requests
        BY DEF kept
      <4>4. QED BY <1>1, <2>1, <3>2, <4>1, <4>2, <4>3, UserSame
    <3>3. CASE Threw(c)
      <4> DEFINE s == [st EXCEPT !.busy = Freed(c.arg.card), !.told = "error"]
      <4>1. /\ DOMAIN s = DOMAIN st /\ s.detail = st.detail /\ s.error = st.error /\ s.seats = st.seats /\ s.at = st.at
            /\ Takes(c, s, {}, {})
        BY <1>1, <2>2, <3>3 DEF AccountActed
      <4>2. ~Answered(c)
        BY <3>3 DEF Threw, Answered
      <4> HIDE DEF s
      <4>3. QED BY <3>2, <4>1, <4>2
    <3>4. CASE ~Threw(c) /\ c.kind = "deleteUser"
      <4> DEFINE s == [st EXCEPT !.at = "/admin"]
      <4>1. /\ DOMAIN s = DOMAIN st /\ s.detail = st.detail /\ s.error = st.error /\ s.seats = st.seats /\ s.at = "/admin"
            /\ Takes(c, s, {}, {})
        BY <1>1, <2>2, <3>4 DEF AccountActed
      <4>2. Answered(c)
        BY <1>5, <3>4 DEF Threw, Answered
      <4> HIDE DEF s
      <4>3. QED BY <1>1, <3>2, <3>4, <4>1, <4>2
    <3>5. CASE ~Threw(c) /\ c.kind # "deleteUser"
      <4> DEFINE s == [st EXCEPT !.told = c.kind]
                 q == Ask("detail", c.arg.card)
                 new == {q}
      <4>1. /\ DOMAIN s = DOMAIN st /\ s.detail = st.detail /\ s.error = st.error /\ s.seats = st.seats /\ s.at = st.at
            /\ Takes(c, s, {}, new)
        BY <1>1, <2>2, <3>5 DEF AccountActed
      <4>2. q.kind = "detail"
        BY DEF Ask
      <4>3. UserAsked(q, Waiting)
        BY <4>2, UserKinds DEF UserAsked, Asked, Sudo
      <4> HIDE DEF s, q
      <4>4. /\ \A r \in new : UserAsked(r, Waiting) /\ r.kind = "detail"
            /\ (\A r, p \in new : r.kind = "detail" /\ p.kind = "detail" => r.arg = p.arg) /\ q \in new
        BY <4>2, <4>3
      <4> HIDE DEF new
      <4>5. Sends(kept, new) /\ srv' = srv /\ st' = s
        BY <2>1, <4>1, TakesFacts
      <4>6. UserType'
        BY <1>1, <4>1, <4>4, <4>5, UserSent DEF UserType
      <4>7. Listed(calls', "detail")
        BY <4>4, <4>5, SendsListed DEF UserCore
      <4>8. \A v, x : Latest(calls', "detail", v, x)
        BY <4>2, <4>4, <4>5, AsksLatest
      <4>9. s.at = "/admin" \/ (\E m \in Requests' : m.kind = "deleteUser" /\ Answered(m)') => ~srv.there
        <5>1. /\ Requests' = kept \cup New(new) /\ (\A o \in kept : calls'[o] = calls[o])
              /\ \A o \in New(new) : o.kind = "detail"
          BY <4>4, <4>5, NewFacts DEF Sends
        <5>2. QED BY <1>1, <4>1, <5>1 DEF Answered, Answer
      <4>10. QED BY <4>5, <4>6, <4>7, <4>8, <4>9 DEF UserCore
    <3>6. QED BY <3>3, <3>4, <3>5
  <2>3. CASE DetailArrives(c)
    <3> DEFINE b == Freed(c.arg)
               mounts == st.detail = NoData \/ st.error
               bad == [[st EXCEPT !.busy = b] EXCEPT !.error = TRUE]
               n == IF mounts THEN Answer(c).seats ELSE st.seats
               good == [[st EXCEPT !.busy = b] EXCEPT !.detail = Answer(c), !.error = FALSE, !.seats = n]
               s == IF Threw(c) THEN bad ELSE good
    <3>1. c.kind = "detail" /\ calls[c] \in {Failed} \cup AccountStates
      BY <1>1, <1>5, <2>3 DEF DetailArrives, UserAsked, Answer
    <3>2. Takes(c, s, {}, {})
      BY <1>1, <2>3 DEF DetailArrives
    <3>3. /\ DOMAIN bad = DOMAIN st /\ bad.error /\ bad.detail = st.detail /\ bad.seats = st.seats /\ bad.at = st.at
          /\ DOMAIN good = DOMAIN st /\ ~good.error /\ good.detail = Answer(c) /\ good.seats = n /\ good.at = st.at
      BY <1>1
    <3>4. ~Threw(c) => calls[c] \in AccountStates /\ n \in Nat
      BY <1>1, <3>1 DEF Threw, Answer, AccountStates
    <3> HIDE DEF bad, good, n
    <3>5. /\ DOMAIN s = DOMAIN st /\ s.seats \in Nat /\ s.at = st.at /\ s.detail \in {NoData} \cup AccountStates
          /\ IF Threw(c) THEN s.error ELSE ~s.error /\ s.detail = Answer(c)
      BY <1>1, <3>3, <3>4 DEF Answer
    <3>6. calls[c] = AccountNow => AccountShown(s) = AccountNow
      <4>1. Failed \notin AccountStates
        BY AccountsAssumption DEF Marks
      <4>2. QED BY <1>1, <3>1, <3>5, <4>1 DEF AccountNow, AccountShown, Threw, Answer
    <3> HIDE DEF s
    <3>7. Sends(kept, {}) /\ srv' = srv /\ st' = s
      BY <2>1, <3>2, TakesFacts
    <3>8. Requests' = kept /\ \A o \in kept : calls'[o] = calls[o]
      BY <3>7, NumberedNone DEF Sends, New
    <3>9. UserType'
      BY <1>1, <3>5, <3>7, <3>8 DEF UserType
    <3>10. Listed(calls', "detail")
      BY <3>7, SendsListed DEF UserCore
    <3>11. UserChanged => UserChanged'
      BY <3>1, <3>8, UserKinds DEF UserChanged, Answered, Answer
    <3>12. s.at = "/admin" \/ (\E m \in Requests' : m.kind = "deleteUser" /\ Answered(m)') => ~srv.there
      BY <1>1, <3>5, <3>8 DEF Answered, Answer
    <3>13. ASSUME Latest(calls, "detail", AccountNow, AccountShown(st))
           PROVE  Latest(calls', "detail", AccountNow, AccountShown(s))
      <4>1. /\ calls[c] # Waiting /\ Listed(calls, c.kind) /\ Latest(calls, c.kind, AccountNow, AccountShown(st))
            /\ \A o \in {} : o.kind # c.kind
        BY <1>5, <3>1, <3>13 DEF UserCore, Answer
      <4>2. Latest(calls', c.kind, AccountNow, AccountShown(s))
        BY <3>2, <3>6, <4>1, TakesLatest
      <4>3. QED BY <3>1, <4>2
    <3>14. AccountNow' = AccountNow
      BY <3>7 DEF AccountNow
    <3>15. QED BY <3>5, <3>7, <3>9, <3>10, <3>11, <3>12, <3>13, <3>14 DEF UserCore
  <2>4. QED BY <1>5, <2>2, <2>3 DEF UserArrive
<1>6. QED BY <1>2, <1>4, <1>5, UserSteps

\* It is so when the page is mounted.
LEMMA UserStart == UserInit => page = "user" /\ UserCore
<1> SUFFICES ASSUME UserInit PROVE page = "user" /\ UserCore
  OBVIOUS
<1>1. PICK t \in {"free", "team"} :
        Mounted("user",
                [at |-> "here", detail |-> NoData, error |-> FALSE, seats |-> 1, busy |-> [k \in Cards |-> FALSE], told |-> None],
                {Ask("detail", None)},
                [tier : {t}, seats : {IF t = "free" THEN 1 ELSE 5}, status : {"active"}, override : {None, "unlimited"},
                 used : {5}, there : {TRUE}, mailed : {FALSE}])
  BY DEF UserInit
<1> DEFINE s == [at |-> "here", detail |-> NoData, error |-> FALSE, seats |-> 1, busy |-> [k \in Cards |-> FALSE], told |-> None]
           records == [tier : {t}, seats : {IF t = "free" THEN 1 ELSE 5}, status : {"active"}, override : {None, "unlimited"},
                       used : {5}, there : {TRUE}, mailed : {FALSE}]
           new == {Ask("detail", None)}
<1>2. Mounted("user", s, new, records)
  BY <1>1
<1>3. DOMAIN s = {"at", "detail", "error", "seats", "busy", "told"} /\ s.seats \in Nat /\ s.detail = NoData /\ s.at = "here"
  OBVIOUS
<1>4. \A r \in records : r \in AccountStates
  <2> DEFINE n == IF t = "free" THEN 1 ELSE 5
  <2>1. n \in Nat /\ t \in {"free", "team"} /\ records = [tier : {t}, seats : {n}, status : {"active"}, override : {None, "unlimited"},
                                                       used : {5}, there : {TRUE}, mailed : {FALSE}]
    OBVIOUS
  <2> HIDE DEF n, records
  <2>2. QED BY <2>1 DEF AccountStates
<1>5. (\A q \in new : q.kind = "detail" /\ q.arg = None) /\ \E q \in new : q.kind = "detail"
  BY DEF Ask
<1> HIDE DEF s, records, new
<1>6. page = "user" /\ st = s /\ srv \in records /\ \A c \in Requests : calls[c] = Waiting /\ \E q \in new : c.kind = q.kind
  BY <1>2, MountedFacts
<1>7. Listed(calls, "detail") /\ \A v, x : Latest(calls, "detail", v, x)
  BY <1>2, <1>5, MountedLatest
<1>8. \A c \in Requests : c.kind = "detail" /\ UserAsked(c, calls[c])
  BY <1>5, <1>6, UserKinds DEF UserAsked, Asked, Sudo
<1>9. QED BY <1>3, <1>4, <1>6, <1>7, <1>8 DEF UserCore, UserType

\* Once everything is answered, the page shows what is true.
LEMMA UserEnd == ASSUME UserCore, Settled PROVE UserTrue
<1>1. /\ st.at = "/admin" => ~srv.there
      /\ st.at = "/admin" \/ AccountShown(st) = AccountNow
  BY LatestSettled DEF UserCore, UserChanged, Settled
<1>2. srv \in AccountStates /\ st.detail \in {NoData} \cup AccountStates /\ Failed \notin AccountStates /\ Failed # NoData
  BY AccountsAssumption, MarksAssumption DEF UserCore, UserType, Marks
<1>3. QED BY <1>1, <1>2 DEF AccountShown, AccountNow, UserTrue
=============================================================================
