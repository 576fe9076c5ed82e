-------------------------- MODULE UploadQuotaProofs --------------------------
(***************************************************************************)
(* Theorems about UploadQuota for any uploads, plan and faults: its type   *)
(* invariant, that each Redis instance hands out the plan's allowance at   *)
(* most once, that an answered or cached upload is complete, and that an   *)
(* outage alone admits nothing beyond the plan.                            *)
(***************************************************************************)
EXTENDS UploadQuota, FiniteSetTheorems, TLAPS

LEMMA AttemptType ==
  ASSUME NEW a \in Attempts
  PROVE  a[1] \in Uploads /\ a[2] \in Tries /\ a = <<a[1], a[2]>>
BY DEF Attempts

\* A step of one handler leaves the others where they are.
LEMMA GotoEffect ==
  ASSUME TypeOK, NEW a \in Attempts, NEW label, Goto(a, label)
  PROVE  /\ handler'[a] = [at |-> label, existing |-> FALSE, ticket |-> 0]
         /\ handler'[a].at = label
         /\ \A b \in Attempts : b # a => handler'[b] = handler[b]
BY DEF TypeOK, Goto, Unsent

LEMMA GotoType ==
  ASSUME TypeOK, NEW a \in Attempts,
         NEW label \in Busy \cup {"unsent", "done", "broken"}, Goto(a, label)
  PROVE  handler' \in [Attempts -> [at : Busy \cup {"unsent", "done", "broken"},
                                    existing : BOOLEAN, ticket : Nat]]
BY DEF TypeOK, Goto, Unsent

\* A handler that moves on with something it found or drew.
LEMMA CarryType ==
  ASSUME TypeOK, NEW a \in Attempts, NEW label \in Busy, NEW e \in BOOLEAN, NEW t \in Nat,
         \/ handler' = [handler EXCEPT ![a].at = label, ![a].existing = e] /\ t = handler[a].ticket
         \/ handler' = [handler EXCEPT ![a].at = label, ![a].ticket = t] /\ e = handler[a].existing
  PROVE  /\ handler' \in [Attempts -> [at : Busy \cup {"unsent", "done", "broken"},
                                       existing : BOOLEAN, ticket : Nat]]
         /\ handler'[a] = [at |-> label, existing |-> e, ticket |-> t]
         /\ \A b \in Attempts : b # a => handler'[b] = handler[b]
<1>1. handler'[a] = [at |-> label, existing |-> e, ticket |-> t]
  BY DEF TypeOK
<1>2. \A b \in Attempts : b # a => handler'[b] = handler[b]
  BY DEF TypeOK
<1>3. handler' = [b \in Attempts |-> handler'[b]]
  BY DEF TypeOK
<1>4. \A b \in Attempts : handler'[b] \in [at : Busy \cup {"unsent", "done", "broken"},
                                          existing : BOOLEAN, ticket : Nat]
  BY <1>1, <1>2 DEF TypeOK
<1>5. QED BY <1>1, <1>2, <1>3, <1>4

LEMMA AnswerType ==
  ASSUME TypeOK, NEW a \in Attempts, NEW r \in {"ok", "refused"}, Answer(a, r)
  PROVE  /\ result' \in [Uploads -> {"waiting", "ok", "refused"}]
         /\ \A u \in Uploads : result'[u] = result[u] \/ (u = a[1] /\ result'[u] = r)
BY AttemptType DEF TypeOK, Answer

LEMMA DrawType ==
  ASSUME TypeOK, NEW a \in Attempts, NEW s \in Sources, Draw(a, s)
  PROVE  /\ drawn' \in [Sources -> SUBSET Attempts]
         /\ drawn'[s] = drawn[s] \cup {a}
         /\ \A i \in Sources : i # s => drawn'[i] = drawn[i]
BY DEF TypeOK, Draw

-----------------------------------------------------------------------------
(* Type correctness *)

LEMMA TypeInit == Init => TypeOK
<1> SUFFICES ASSUME Init PROVE TypeOK
  OBVIOUS
<1>1. handler \in [Attempts -> [at : Busy \cup {"unsent", "done", "broken"},
                                existing : BOOLEAN, ticket : Nat]]
  BY DEF Init, Unsent
<1>2. /\ flips \in 0..MaxFlips /\ timeouts \in 0..MaxTimeouts
      /\ failures \in 0..MaxFailures /\ deletes \in 0..MaxDeletes
  BY UploadQuotaAssumption DEF Init
<1>3. count \in [Instances -> Nat] /\ drawn \in [Sources -> SUBSET Attempts]
  BY DEF Init
<1>4. tried \in [Uploads -> {0} \cup Tries] /\ result \in [Uploads -> {"waiting", "ok", "refused"}]
  BY DEF Init
<1>5. QED BY <1>1, <1>2, <1>3, <1>4 DEF Init, TypeOK

LEMMA TypeStep == TypeOK /\ [Next]_vars => TypeOK'
<1> SUFFICES ASSUME TypeOK, [Next]_vars PROVE TypeOK'
  OBVIOUS
<1> USE UploadQuotaAssumption
<1>0. early' \in SUBSET Uploads
  BY DEF Next, vars, TypeOK
<1> USE <1>0
<1>1. ASSUME NEW a \in Attempts, Send(a) \/ Resend(a) PROVE TypeOK'
  <2>1. handler' \in [Attempts -> [at : Busy \cup {"unsent", "done", "broken"},
                                   existing : BOOLEAN, ticket : Nat]]
    BY <1>1 DEF Send, Resend, Start, TypeOK, Busy
  <2>2. tried' \in [Uploads -> {0} \cup Tries]
    BY <1>1, AttemptType DEF Send, Resend, Start, TypeOK
  <2>3. overlapped' \in BOOLEAN
    BY <1>1 DEF Send, Resend, Start
  <2>4. timeouts' \in 0..MaxTimeouts
    BY <1>1 DEF Send, Resend, bounds, TypeOK
  <2>5. UNCHANGED <<count, reach, result, tables, drawn, deleted, returned, flips, failures, deletes>>
    BY <1>1 DEF Send, Resend, bounds
  <2>6. QED BY <2>1, <2>2, <2>3, <2>4, <2>5 DEF TypeOK, tables
<1>2. ASSUME NEW a \in Attempts, Select(a) PROVE TypeOK'
  <2>1. handler[a].ticket \in Nat
    BY DEF TypeOK
  <2>2. handler' \in [Attempts -> [at : Busy \cup {"unsent", "done", "broken"},
                                   existing : BOOLEAN, ticket : Nat]]
    <3>1. PICK label \in {"writing", "counting"} :
            handler' = [handler EXCEPT ![a].at = label, ![a].existing = a[1] \in rows]
      BY <1>2 DEF Select
    <3>2. (a[1] \in rows) \in BOOLEAN
      OBVIOUS
    <3>3. QED BY <2>1, <3>1, <3>2, CarryType DEF Busy
  <2>3. QED BY <1>2, <2>2 DEF Select, TypeOK, client, tables, ghosts, bounds
<1>3. ASSUME NEW a \in Attempts, CountOnPrimary(a) PROVE TypeOK'
  <2>1. count' \in [Instances -> Nat]
    BY <1>3 DEF CountOnPrimary, TypeOK, Instances
  <2>2. CASE count["primary"] + 1 <= Limit
    BY <1>3, <2>1, <2>2, GotoType, DrawType
       DEF CountOnPrimary, TypeOK, tables, ghosts, bounds, Busy, Sources, Instances
  <2>3. CASE ~(count["primary"] + 1 <= Limit)
    BY <1>3, <2>1, <2>3, GotoType, AnswerType
       DEF CountOnPrimary, Refuse, TypeOK, tables, ghosts, bounds
  <2>4. QED BY <2>2, <2>3
<1>4. ASSUME NEW done \in SUBSET Instances, NEW lost \in SUBSET Instances, Increment(done, lost)
      PROVE  count' \in [Instances -> Nat] /\ failures' \in 0..MaxFailures
  BY <1>4 DEF Increment, TypeOK
<1>5. ASSUME NEW a \in Attempts, CountOnFallback(a) PROVE TypeOK'
  <2>1. count' \in [Instances -> Nat] /\ failures' \in 0..MaxFailures
    BY <1>4, <1>5 DEF CountOnFallback, Instances
  <2>2. handler' \in [Attempts -> [at : Busy \cup {"unsent", "done", "broken"},
                                   existing : BOOLEAN, ticket : Nat]]
    <3>1. count["fallback"] + 1 \in Nat /\ handler[a].existing \in BOOLEAN
      BY DEF TypeOK, Instances
    <3>2. QED BY <1>5, <3>1, CarryType DEF CountOnFallback, Busy
  <2>3. drawn' \in [Sources -> SUBSET Attempts]
    BY <1>5, DrawType DEF CountOnFallback, TypeOK, Sources, Instances
  <2>4. QED BY <1>5, <2>1, <2>2, <2>3 DEF CountOnFallback, TypeOK, client, tables, ghosts
<1>6. ASSUME NEW a \in Attempts, CountNowhere(a) PROVE TypeOK'
  <2>1. count' \in [Instances -> Nat] /\ failures' \in 0..MaxFailures
    BY <1>4, <1>6 DEF CountNowhere
  <2>2. QED BY <1>6, <2>1, GotoType, DrawType
            DEF CountNowhere, TypeOK, client, tables, ghosts, Busy, Sources
<1>7. ASSUME NEW a \in Attempts, CheckHistory(a) PROVE TypeOK'
  <2>1. CASE handler[a].ticket <= Limit /\ Cardinality(Visible) + 1 <= Limit
    BY <1>7, <2>1, GotoType DEF CheckHistory, TypeOK, tables, ghosts, bounds, Busy
  <2>2. CASE ~(handler[a].ticket <= Limit /\ Cardinality(Visible) + 1 <= Limit)
    BY <1>7, <2>2, GotoType, AnswerType DEF CheckHistory, Refuse, TypeOK, tables, ghosts, bounds
  <2>3. QED BY <2>1, <2>2
<1>8. ASSUME NEW a \in Attempts, WriteRow(a) PROVE TypeOK'
  BY <1>8, GotoType, AttemptType DEF WriteRow, TypeOK, client, ghosts, bounds, Busy
<1>9. ASSUME NEW a \in Attempts, WriteFindings(a) PROVE TypeOK'
  BY <1>9, GotoType, AttemptType DEF WriteFindings, TypeOK, client, ghosts, bounds, Busy
<1>10. ASSUME NEW a \in Attempts, WriteCache(a) PROVE TypeOK'
  BY <1>10, GotoType, AnswerType, AttemptType DEF WriteCache, TypeOK, ghosts, bounds
<1>11. ASSUME NEW a \in Attempts, Fail(a) PROVE TypeOK'
  BY <1>11, GotoType DEF Fail, TypeOK, client, tables, ghosts
<1>12. ASSUME NEW i \in Instances, Flip(i) PROVE TypeOK'
  BY <1>12 DEF Flip, TypeOK, client, tables
<1>13. ASSUME NEW u \in Uploads, Delete(u) PROVE TypeOK'
  BY <1>13 DEF Delete, TypeOK, client, ghosts
<1>14. CASE UNCHANGED vars
  BY <1>14 DEF vars, TypeOK, client, tables, ghosts, bounds
<1>15. QED
  BY <1>1, <1>2, <1>3, <1>5, <1>6, <1>7, <1>8, <1>9, <1>10, <1>11, <1>12, <1>13, <1>14
     DEF Next, Handle

\* Every variable keeps its type for any uploads, plan and faults.
THEOREM TypeCorrect == Spec => []TypeOK
<1>1. QED BY TypeInit, TypeStep, PTL DEF Spec

-----------------------------------------------------------------------------
(* The inductive invariant *)

LEMMA DrawnType ==
  ASSUME TypeOK, NEW s \in Sources
  PROVE  IsFiniteSet(drawn[s]) /\ Cardinality(drawn[s]) \in Nat
<1>1. IsFiniteSet(Tries)
  <2>1. 1 \in Int /\ 3 \in Int
    OBVIOUS
  <2>2. QED BY <2>1, FS_Interval DEF Tries
<1>2. IsFiniteSet(Attempts)
  BY <1>1, FS_Product, UploadQuotaAssumption DEF Attempts
<1>3. drawn[s] \in SUBSET Attempts
  BY DEF TypeOK
<1>4. IsFiniteSet(drawn[s])
  BY <1>2, <1>3, FS_Subset
<1>5. QED BY <1>4, FS_CardinalityType

LEMMA InvInit == Init => IInv
<1> SUFFICES ASSUME Init PROVE IInv
  OBVIOUS
<1>1. TypeOK
  BY TypeInit
<1>2. Tickets
  <2>1. \A i \in Instances : drawn[i] = {} /\ count[i] = 0
    BY DEF Init, Instances, Sources
  <2>2. Cardinality({}) = 0
    BY FS_EmptySet
  <2>3. QED BY <2>1, <2>2, UploadQuotaAssumption DEF Tickets
<1>3. Admitted /\ Kept
  BY DEF Init, Admitted, Kept, Unsent
<1>4. AnsweredIsComplete /\ CachedHasFindings
  BY UploadQuotaAssumption DEF Init, AnsweredIsComplete, CachedHasFindings
<1>5. QED BY <1>1, <1>2, <1>3, <1>4 DEF IInv

\* A step that lets nobody through: whoever begins to insert, or has inserted,
\* was let through before.
LEMMA AdmitsNobody ==
  ASSUME TypeOK, Admitted, drawn' = drawn,
         \A u \in uploaded' : u \in uploaded \/ \E n \in Tries : Drawn(<<u, n>>),
         \A b \in Attempts :
           \/ handler'[b] = handler[b]
           \/ handler'[b].at \notin {"checking", "writing"}
           \/ handler'[b].at = "writing" /\ handler'[b].existing
           \/ handler'[b].at = "checking" /\ ~(handler'[b].ticket <= Limit)
           \/ Drawn(b)
  PROVE  Admitted'
<1>1. \A b : Drawn(b)' <=> Drawn(b)
  BY DEF Drawn
<1>2. \A u \in uploaded' : \E n \in Tries : Drawn(<<u, n>>)'
  BY <1>1 DEF Admitted
<1>3. ASSUME NEW b \in Attempts
      PROVE  /\ handler'[b].at = "checking" /\ handler'[b].ticket <= Limit => Drawn(b)
             /\ handler'[b].at = "writing" /\ ~handler'[b].existing => Drawn(b)
  BY <1>3 DEF Admitted
<1>4. QED BY <1>1, <1>2, <1>3 DEF Admitted

\* A step that lets one attempt through.
LEMMA AdmitsOne ==
  ASSUME TypeOK, Admitted, NEW a \in Attempts, NEW s \in Sources, Draw(a, s), uploaded' = uploaded,
         \A b \in Attempts : b # a => handler'[b] = handler[b]
  PROVE  Admitted'
<1>1. \A b : Drawn(b) => Drawn(b)'
  BY DrawType DEF Drawn
<1>2. Drawn(a)'
  BY DrawType DEF Drawn
<1>3. QED BY <1>1, <1>2 DEF Admitted

\* Drawing a ticket that is within the plan.
LEMMA DrawKeepsTickets ==
  ASSUME TypeOK, Tickets, NEW a \in Attempts, NEW i \in Instances, Draw(a, i),
         count' \in [Instances -> Nat], count'[i] = count[i] + 1, count[i] + 1 <= Limit,
         \A j \in Instances : count[j] <= count'[j]
  PROVE  Tickets'
<1>1. Instances \subseteq Sources
  BY DEF Sources
<1>2. \A j \in Instances : count[j] \in Nat /\ count'[j] \in Nat
  BY DEF TypeOK
<1>3. Cardinality(drawn'[i]) <= Cardinality(drawn[i]) + 1 /\ Cardinality(drawn'[i]) \in Nat
  <2>1. drawn'[i] = drawn[i] \cup {a}
    BY <1>1, DrawType
  <2>2. IsFiniteSet(drawn[i]) /\ Cardinality(drawn[i]) \in Nat
    BY <1>1, DrawnType
  <2>3. Cardinality(drawn[i] \cup {a}) = IF a \in drawn[i] THEN Cardinality(drawn[i])
                                        ELSE Cardinality(drawn[i]) + 1
    BY <2>2, FS_AddElement
  <2>4. QED BY <2>1, <2>2, <2>3
<1>4. Cardinality(drawn'[i]) <= count'[i] /\ Cardinality(drawn'[i]) <= Limit
  <2>1. Cardinality(drawn[i]) <= count[i] /\ Cardinality(drawn[i]) \in Nat
    BY <1>1, DrawnType DEF Tickets
  <2>2. QED BY <1>2, <1>3, <2>1, UploadQuotaAssumption
<1>5. ASSUME NEW j \in Instances, j # i
      PROVE  Cardinality(drawn'[j]) <= count'[j] /\ Cardinality(drawn'[j]) <= Limit
  <2>1. drawn'[j] = drawn[j]
    BY <1>1, <1>5, DrawType
  <2>2. Cardinality(drawn[j]) \in Nat
    BY <1>1, DrawnType
  <2>3. QED BY <1>2, <2>1, <2>2 DEF Tickets
<1>6. QED BY <1>4, <1>5 DEF Tickets

\* Counting without letting anybody through.
LEMMA CountKeepsTickets ==
  ASSUME TypeOK, Tickets, \A i \in Instances : drawn'[i] = drawn[i],
         count' \in [Instances -> Nat], \A j \in Instances : count[j] <= count'[j]
  PROVE  Tickets'
<1>1. ASSUME NEW j \in Instances
      PROVE  Cardinality(drawn[j]) \in Nat /\ count[j] \in Nat /\ count'[j] \in Nat
  BY DrawnType DEF TypeOK, Sources
<1>2. QED BY <1>1 DEF Tickets

Contents == Kept /\ AnsweredIsComplete /\ CachedHasFindings

\* A step that deletes nothing, answers no "ok" and begins no cache write.
LEMMA AddsOnly ==
  ASSUME TypeOK, Contents, rows \subseteq rows', stored \subseteq stored',
         UNCHANGED <<cache, deleted>>,
         \A u \in Uploads : result'[u] = "ok" => result[u] = "ok",
         \A b \in Attempts : handler'[b].at = "caching" => handler[b].at = "caching"
  PROVE  Contents'
BY DEF Contents, Kept, AnsweredIsComplete, CachedHasFindings, TypeOK

LEMMA TicketsStep == TypeOK /\ TypeOK' /\ Tickets /\ [Next]_vars => Tickets'
<1> SUFFICES ASSUME TypeOK, TypeOK', Tickets, [Next]_vars PROVE Tickets'
  OBVIOUS
<1>1. count' \in [Instances -> Nat] /\ count \in [Instances -> Nat]
  BY DEF TypeOK
<1>2. CASE UNCHANGED <<count, drawn>>
  BY <1>1, <1>2, CountKeepsTickets
<1>3. ASSUME NEW a \in Attempts, CountOnPrimary(a) PROVE Tickets'
  <2>1. /\ count'["primary"] = count["primary"] + 1
        /\ \A j \in Instances : count[j] <= count'[j]
    BY <1>1, <1>3 DEF CountOnPrimary, Instances
  <2>2. CASE count["primary"] + 1 <= Limit
    <3>1. Draw(a, "primary")
      BY <1>3, <2>2 DEF CountOnPrimary
    <3>2. QED BY <1>1, <2>1, <2>2, <3>1, DrawKeepsTickets DEF Instances
  <2>3. CASE ~(count["primary"] + 1 <= Limit)
    <3>1. drawn' = drawn
      BY <1>3, <2>3 DEF CountOnPrimary
    <3>2. QED BY <1>1, <2>1, <3>1, CountKeepsTickets
  <2>4. QED BY <2>2, <2>3
<1>4. ASSUME NEW done \in SUBSET Instances, NEW lost \in SUBSET Instances, Increment(done, lost)
      PROVE  /\ \A j \in Instances : count[j] <= count'[j]
             /\ \A j \in done : count'[j] = count[j] + 1
  BY <1>1, <1>4 DEF Increment
<1>5. ASSUME NEW a \in Attempts, CountOnFallback(a) PROVE Tickets'
  <2>1. PICK lost \in SUBSET {"primary"} : Increment({"fallback"}, lost)
    BY <1>5 DEF CountOnFallback
  <2>2. /\ count'["fallback"] = count["fallback"] + 1
        /\ \A j \in Instances : count[j] <= count'[j]
    BY <1>4, <2>1 DEF Instances
  <2>3. CASE count["fallback"] + 1 <= Limit
    <3>1. Draw(a, "fallback")
      BY <1>5, <2>3 DEF CountOnFallback
    <3>2. QED BY <1>1, <2>2, <2>3, <3>1, DrawKeepsTickets DEF Instances
  <2>4. CASE ~(count["fallback"] + 1 <= Limit)
    <3>1. drawn' = drawn
      BY <1>5, <2>4 DEF CountOnFallback
    <3>2. QED BY <1>1, <2>2, <3>1, CountKeepsTickets
  <2>5. QED BY <2>3, <2>4
<1>6. ASSUME NEW a \in Attempts, CountNowhere(a) PROVE Tickets'
  <2>1. \A j \in Instances : count[j] <= count'[j]
    BY <1>4, <1>6 DEF CountNowhere
  <2>2. \A i \in Instances : drawn'[i] = drawn[i]
    BY <1>6, DrawType DEF CountNowhere, Instances, Sources
  <2>3. QED BY <1>1, <2>1, <2>2, CountKeepsTickets
<1>7. ASSUME NEW a \in Attempts,
             \/ Send(a) \/ Resend(a) \/ Select(a) \/ CheckHistory(a) \/ WriteRow(a)
             \/ WriteFindings(a) \/ WriteCache(a) \/ Fail(a)
      PROVE  Tickets'
  BY <1>2, <1>7 DEF Send, Resend, Select, CheckHistory, WriteRow, WriteFindings, WriteCache, Fail
<1>8. ASSUME NEW i \in Instances, Flip(i) PROVE Tickets'
  BY <1>2, <1>8 DEF Flip
<1>9. ASSUME NEW u \in Uploads, Delete(u) PROVE Tickets'
  BY <1>2, <1>9 DEF Delete
<1>10. CASE UNCHANGED vars
  BY <1>2, <1>10 DEF vars
<1>11. QED BY <1>3, <1>5, <1>6, <1>7, <1>8, <1>9, <1>10 DEF Next, Handle

LEMMA AdmittedStep == TypeOK /\ Admitted /\ [Next]_vars => Admitted'
<1> SUFFICES ASSUME TypeOK, Admitted, [Next]_vars PROVE Admitted'
  OBVIOUS
<1>1. ASSUME NEW a \in Attempts, drawn' = drawn, uploaded' = uploaded,
             \A b \in Attempts : b # a => handler'[b] = handler[b],
             \/ handler'[a].at \notin {"checking", "writing"}
             \/ handler'[a].at = "writing" /\ handler'[a].existing
             \/ handler'[a].at = "checking" /\ ~(handler'[a].ticket <= Limit)
             \/ Drawn(a)
      PROVE  Admitted'
  <2>1. \A u \in uploaded' : u \in uploaded \/ \E n \in Tries : Drawn(<<u, n>>)
    BY <1>1
  <2>2. \A b \in Attempts :
           \/ handler'[b] = handler[b]
           \/ handler'[b].at \notin {"checking", "writing"}
           \/ handler'[b].at = "writing" /\ handler'[b].existing
           \/ handler'[b].at = "checking" /\ ~(handler'[b].ticket <= Limit)
           \/ Drawn(b)
    BY <1>1
  <2>3. QED BY <1>1, <2>1, <2>2, AdmitsNobody
<1>2. ASSUME NEW a \in Attempts, Send(a) \/ Resend(a) PROVE Admitted'
  <2>1. handler'[a].at = "selecting" /\ \A b \in Attempts : b # a => handler'[b] = handler[b]
    BY <1>2 DEF Send, Resend, Start, TypeOK
  <2>2. drawn' = drawn /\ uploaded' = uploaded
    BY <1>2 DEF Send, Resend, tables
  <2>3. QED BY <1>1, <2>1, <2>2
<1>3. ASSUME NEW a \in Attempts, Select(a) PROVE Admitted'
  <2>1. /\ handler'[a].at = "counting" \/ (handler'[a].at = "writing" /\ handler'[a].existing)
        /\ \A b \in Attempts : b # a => handler'[b] = handler[b]
    BY <1>3 DEF Select, TypeOK
  <2>2. drawn' = drawn /\ uploaded' = uploaded
    BY <1>3 DEF Select, tables
  <2>3. QED BY <1>1, <2>1, <2>2
<1>4. ASSUME NEW a \in Attempts, NEW label, Goto(a, label), drawn' = drawn, uploaded' = uploaded,
             label \notin {"checking", "writing"} \/ Drawn(a)
      PROVE  Admitted'
  <2>1. handler'[a].at = label /\ \A b \in Attempts : b # a => handler'[b] = handler[b]
    BY <1>4, GotoEffect
  <2>2. CASE Drawn(a)
    BY <1>1, <1>4, <2>1, <2>2
  <2>3. CASE label \notin {"checking", "writing"}
    <3>1. handler'[a].at \notin {"checking", "writing"}
      BY <2>1, <2>3
    <3>2. QED BY <1>1, <1>4, <2>1, <3>1
  <2>4. QED BY <1>4, <2>2, <2>3
<1>5. ASSUME NEW a \in Attempts, CountOnPrimary(a) PROVE Admitted'
  <2>1. uploaded' = uploaded
    BY <1>5 DEF CountOnPrimary, tables
  <2>2. CASE count["primary"] + 1 <= Limit
    <3>1. Draw(a, "primary") /\ Goto(a, "writing")
      BY <1>5, <2>2 DEF CountOnPrimary
    <3>2. \A b \in Attempts : b # a => handler'[b] = handler[b]
      BY <3>1, GotoEffect
    <3>3. QED BY <2>1, <3>1, <3>2, AdmitsOne DEF Sources, Instances
  <2>3. CASE ~(count["primary"] + 1 <= Limit)
    <3>1. Goto(a, "done") /\ drawn' = drawn
      BY <1>5, <2>3 DEF CountOnPrimary, Refuse
    <3>2. QED BY <1>4, <2>1, <3>1
  <2>4. QED BY <2>2, <2>3
<1>6. ASSUME NEW a \in Attempts, CountOnFallback(a) PROVE Admitted'
  <2>1. uploaded' = uploaded
    BY <1>6 DEF CountOnFallback, tables
  <2>2. /\ handler'[a].at = "checking" /\ handler'[a].ticket = count["fallback"] + 1
        /\ \A b \in Attempts : b # a => handler'[b] = handler[b]
    BY <1>6 DEF CountOnFallback, TypeOK
  <2>3. CASE count["fallback"] + 1 <= Limit
    <3>1. Draw(a, "fallback")
      BY <1>6, <2>3 DEF CountOnFallback
    <3>2. QED BY <2>1, <2>2, <3>1, AdmitsOne DEF Sources, Instances
  <2>4. CASE ~(count["fallback"] + 1 <= Limit)
    <3>1. drawn' = drawn
      BY <1>6, <2>4 DEF CountOnFallback
    <3>2. QED BY <1>1, <2>1, <2>2, <2>4, <3>1
  <2>5. QED BY <2>3, <2>4
<1>7. ASSUME NEW a \in Attempts, CountNowhere(a) PROVE Admitted'
  <2>1. uploaded' = uploaded /\ Draw(a, "history") /\ Goto(a, "checking")
    BY <1>7 DEF CountNowhere, tables
  <2>2. \A b \in Attempts : b # a => handler'[b] = handler[b]
    BY <2>1, GotoEffect
  <2>3. QED BY <2>1, <2>2, AdmitsOne DEF Sources
<1>8. ASSUME NEW a \in Attempts, CheckHistory(a) PROVE Admitted'
  <2>1. uploaded' = uploaded /\ drawn' = drawn
    BY <1>8 DEF CheckHistory, tables
  <2>2. CASE handler[a].ticket <= Limit
    <3>1. Drawn(a)
      BY <1>8, <2>2 DEF CheckHistory, Admitted
    <3>2. Goto(a, "writing") \/ Goto(a, "done")
      BY <1>8 DEF CheckHistory, Refuse
    <3>3. QED BY <1>4, <2>1, <3>1, <3>2
  <2>3. CASE ~(handler[a].ticket <= Limit)
    <3>1. Goto(a, "done")
      BY <1>8, <2>3 DEF CheckHistory, Refuse
    <3>2. QED BY <1>4, <2>1, <3>1
  <2>4. QED BY <2>2, <2>3
<1>9. ASSUME NEW a \in Attempts, WriteRow(a) PROVE Admitted'
  <2>1. drawn' = drawn
    BY <1>9 DEF WriteRow
  <2>2. PICK label \in {"findings", "broken"} : Goto(a, label)
    BY <1>9 DEF WriteRow
  <2>3. /\ handler'[a].at \notin {"checking", "writing"}
        /\ \A b \in Attempts : b # a => handler'[b] = handler[b]
    BY <2>2, GotoEffect
  <2>4. \A u \in uploaded' : u \in uploaded \/ \E n \in Tries : Drawn(<<u, n>>)
    <3>1. CASE handler[a].existing
      BY <1>9, <3>1 DEF WriteRow
    <3>2. CASE ~handler[a].existing
      <4>1. Drawn(<<a[1], a[2]>>) /\ a[2] \in Tries
        BY <1>9, <3>2, AttemptType DEF WriteRow, Admitted
      <4>2. uploaded' = uploaded \cup {a[1]}
        BY <1>9, <3>2 DEF WriteRow
      <4>3. QED BY <4>1, <4>2
    <3>3. QED BY <3>1, <3>2
  <2>5. QED BY <2>1, <2>3, <2>4, AdmitsNobody
<1>10. ASSUME NEW a \in Attempts, WriteFindings(a) PROVE Admitted'
  <2>1. PICK label \in {"caching", "broken"} : Goto(a, label)
    BY <1>10 DEF WriteFindings
  <2>2. drawn' = drawn /\ uploaded' = uploaded
    BY <1>10 DEF WriteFindings
  <2>3. QED BY <1>4, <2>1, <2>2
<1>11. ASSUME NEW a \in Attempts, WriteCache(a) PROVE Admitted'
  <2>1. PICK label \in {"done", "broken"} : Goto(a, label)
    BY <1>11 DEF WriteCache
  <2>2. drawn' = drawn /\ uploaded' = uploaded
    BY <1>11 DEF WriteCache
  <2>3. QED BY <1>4, <2>1, <2>2
<1>12. ASSUME NEW a \in Attempts, Fail(a) PROVE Admitted'
  BY <1>4, <1>12 DEF Fail, tables
<1>13. CASE UNCHANGED <<handler, drawn, uploaded>>
  BY <1>13, AdmitsNobody
<1>14. ASSUME NEW i \in Instances, Flip(i) PROVE Admitted'
  BY <1>13, <1>14 DEF Flip, tables
<1>15. ASSUME NEW u \in Uploads, Delete(u) PROVE Admitted'
  BY <1>13, <1>15 DEF Delete
<1>16. CASE UNCHANGED vars
  BY <1>13, <1>16 DEF vars, tables
<1>17. QED
  BY <1>2, <1>3, <1>5, <1>6, <1>7, <1>8, <1>9, <1>10, <1>11, <1>12, <1>14, <1>15, <1>16
     DEF Next, Handle
LEMMA ContentsStep == TypeOK /\ Contents /\ [Next]_vars => Contents'
<1> SUFFICES ASSUME TypeOK, Contents, [Next]_vars PROVE Contents'
  OBVIOUS
<1>1. ASSUME NEW a \in Attempts, rows \subseteq rows', stored \subseteq stored',
             cache' = cache, deleted' = deleted,
             \A u \in Uploads : result'[u] = "ok" => result[u] = "ok",
             handler'[a].at # "caching",
             \A b \in Attempts : b # a => handler'[b] = handler[b]
      PROVE  Contents'
  <2>1. \A b \in Attempts : handler'[b].at = "caching" => handler[b].at = "caching"
    BY <1>1
  <2>2. QED BY <1>1, <2>1, AddsOnly
<1>2. ASSUME NEW a \in Attempts, Send(a) \/ Resend(a) PROVE Contents'
  <2>1. handler'[a].at = "selecting" /\ \A b \in Attempts : b # a => handler'[b] = handler[b]
    BY <1>2 DEF Send, Resend, Start, TypeOK
  <2>2. UNCHANGED <<rows, stored, cache, deleted, result>>
    BY <1>2 DEF Send, Resend, tables
  <2>3. QED BY <1>1, <2>1, <2>2
<1>3. ASSUME NEW a \in Attempts, Select(a) \/ CountOnFallback(a) PROVE Contents'
  <2>1. /\ handler'[a].at \in {"writing", "counting", "checking"}
        /\ \A b \in Attempts : b # a => handler'[b] = handler[b]
    BY <1>3 DEF Select, CountOnFallback, TypeOK
  <2>2. UNCHANGED <<rows, stored, cache, deleted, result>>
    BY <1>3 DEF Select, CountOnFallback, tables, client
  <2>3. QED BY <1>1, <2>1, <2>2
<1>4. ASSUME NEW a \in Attempts, NEW label, Goto(a, label), label # "caching",
             rows \subseteq rows', stored \subseteq stored', cache' = cache, deleted' = deleted,
             result' = result \/ Answer(a, "refused")
      PROVE  Contents'
  <2>1. \A u \in Uploads : result'[u] = "ok" => result[u] = "ok"
    BY <1>4, AnswerType
  <2>2. /\ handler'[a].at # "caching"
        /\ \A b \in Attempts : b # a => handler'[b] = handler[b]
    BY <1>4, GotoEffect
  <2>3. QED BY <1>1, <1>4, <2>1, <2>2
<1>5. ASSUME NEW a \in Attempts, CountOnPrimary(a) \/ CheckHistory(a) PROVE Contents'
  <2>1. PICK label \in {"writing", "done"} :
          Goto(a, label) /\ (result' = result \/ Answer(a, "refused"))
    BY <1>5 DEF CountOnPrimary, CheckHistory, Refuse
  <2>2. UNCHANGED <<rows, stored, cache, deleted>>
    BY <1>5 DEF CountOnPrimary, CheckHistory, tables
  <2>3. QED BY <1>4, <2>1, <2>2
<1>6. ASSUME NEW a \in Attempts, CountNowhere(a) PROVE Contents'
  BY <1>4, <1>6 DEF CountNowhere, tables, client
<1>7. ASSUME NEW a \in Attempts, WriteRow(a) PROVE Contents'
  <2>1. PICK label \in {"findings", "broken"} : Goto(a, label)
    BY <1>7 DEF WriteRow
  <2>2. rows \subseteq rows' /\ UNCHANGED <<stored, cache, deleted, result>>
    BY <1>7 DEF WriteRow, client
  <2>3. QED BY <1>4, <2>1, <2>2
<1>8. ASSUME NEW a \in Attempts, WriteFindings(a) PROVE Contents'
  <2>1. UNCHANGED <<rows, cache, deleted, result>> /\ stored \subseteq stored'
    BY <1>8 DEF WriteFindings, client
  <2>2. CASE a[1] \in rows
    <3>1. a[1] \in stored'
      BY <1>8, <2>2 DEF WriteFindings
    <3>2. \A b \in Attempts : b # a => handler'[b] = handler[b]
      BY <1>8, GotoEffect DEF WriteFindings
    <3>3. Kept'
      BY <2>1, <2>2, <3>1, <3>2 DEF Contents, Kept
    <3>4. AnsweredIsComplete' /\ CachedHasFindings'
      BY <2>1 DEF Contents, AnsweredIsComplete, CachedHasFindings
    <3>5. QED BY <3>3, <3>4 DEF Contents
  <2>3. CASE a[1] \notin rows
    <3>1. Goto(a, "broken")
      BY <1>8, <2>3 DEF WriteFindings
    <3>2. QED BY <1>4, <2>1, <3>1
  <2>4. QED BY <2>2, <2>3
<1>9. ASSUME NEW a \in Attempts, WriteCache(a) PROVE Contents'
  <2>1. UNCHANGED <<rows, stored, deleted>>
    BY <1>9 DEF WriteCache
  <2>2. CASE a[1] \in rows
    <3>1. Goto(a, "done") /\ Answer(a, "ok") /\ cache' = a[1]
      BY <1>9, <2>2 DEF WriteCache
    <3>2. a[1] \notin deleted => a[1] \in rows /\ a[1] \in stored
      BY <1>9 DEF WriteCache, Contents, Kept
    <3>3. \A u \in Uploads : result'[u] = result[u] \/ u = a[1]
      BY <3>1, AnswerType
    <3>4. /\ handler'[a].at = "done"
          /\ \A b \in Attempts : b # a => handler'[b] = handler[b]
      BY <3>1, GotoEffect
    <3>5. Kept'
      BY <2>1, <3>4 DEF Contents, Kept
    <3>6. AnsweredIsComplete'
      BY <2>1, <3>2, <3>3 DEF Contents, AnsweredIsComplete
    <3>7. CachedHasFindings'
      BY <2>1, <3>1, <3>2 DEF CachedHasFindings
    <3>8. QED BY <3>5, <3>6, <3>7 DEF Contents
  <2>3. CASE a[1] \notin rows
    <3>1. Goto(a, "broken") /\ cache' = cache /\ result' = result
      BY <1>9, <2>3 DEF WriteCache
    <3>2. QED BY <1>4, <2>1, <3>1
  <2>4. QED BY <2>2, <2>3
<1>10. ASSUME NEW a \in Attempts, Fail(a) PROVE Contents'
  BY <1>4, <1>10 DEF Fail, tables, client
<1>11. CASE UNCHANGED <<handler, result, rows, stored, cache, deleted>>
  BY <1>11, AddsOnly
<1>12. ASSUME NEW i \in Instances, Flip(i) PROVE Contents'
  BY <1>11, <1>12 DEF Flip, tables, client
<1>13. ASSUME NEW u \in Uploads, Delete(u) PROVE Contents'
  <2>1. /\ UNCHANGED <<handler, result>>
        /\ deleted' = deleted \cup {u} /\ rows' = rows \ {u} /\ stored' = stored \ {u}
        /\ cache' \in {cache, NoUpload}
    BY <1>13 DEF Delete, client
  <2>2. Kept' /\ AnsweredIsComplete'
    BY <2>1 DEF Contents, Kept, AnsweredIsComplete
  <2>3. CachedHasFindings'
    BY <2>1, UploadQuotaAssumption DEF Contents, CachedHasFindings
  <2>4. QED BY <2>2, <2>3 DEF Contents
<1>14. CASE UNCHANGED vars
  BY <1>11, <1>14 DEF vars, tables, client
<1>15. QED
  BY <1>2, <1>3, <1>5, <1>6, <1>7, <1>8, <1>9, <1>10, <1>12, <1>13, <1>14 DEF Next, Handle

LEMMA InvStep == IInv /\ [Next]_vars => IInv'
<1> SUFFICES ASSUME IInv, [Next]_vars PROVE IInv'
  OBVIOUS
<1>1. TypeOK /\ TypeOK'
  BY TypeStep DEF IInv
<1>2. Tickets'
  BY <1>1, TicketsStep DEF IInv
<1>3. Admitted'
  BY <1>1, AdmittedStep DEF IInv
<1>4. Contents'
  BY <1>1, ContentsStep DEF IInv, Contents
<1>5. QED BY <1>1, <1>2, <1>3, <1>4 DEF IInv, Contents

-----------------------------------------------------------------------------
(* The properties *)

\* Whoever inserted a row was let through, so that there are no more rows than
\* attempts let through.
LEMMA UploadedWereDrawn ==
  ASSUME TypeOK, Admitted, NEW D,
         D = drawn["primary"] \cup drawn["fallback"] \cup drawn["history"], IsFiniteSet(D)
  PROVE  Cardinality(uploaded) <= Cardinality(D)
<1> DEFINE pick(u) == CHOOSE a \in D : a[1] = u
           f == [u \in uploaded |-> pick(u)]
<1>1. ASSUME NEW u \in uploaded PROVE pick(u) \in D /\ pick(u)[1] = u
  <2>1. PICK n \in Tries : Drawn(<<u, n>>)
    BY DEF Admitted
  <2>2. <<u, n>> \in D
    BY <2>1 DEF Drawn, Sources, Instances
  <2>3. \E a \in D : a[1] = u
    BY <2>2
  <2>4. QED BY <2>3
<1> HIDE DEF pick
<1>2. f \in [uploaded -> D]
  BY <1>1
<1>3. \A u, v \in uploaded : f[u] = f[v] => u = v
  BY <1>1
<1>4. f \in Injection(uploaded, D)
  BY <1>2, <1>3 DEF Injection, IsInjective
<1>5. QED BY <1>4, FS_Injection

LEMMA WithinAllowances == TypeOK /\ Tickets /\ Admitted => UploadsWithinAllowances
<1> SUFFICES ASSUME TypeOK, Tickets, Admitted PROVE UploadsWithinAllowances
  OBVIOUS
<1> DEFINE p == drawn["primary"]
           f == drawn["fallback"]
           h == drawn["history"]
           C(S) == Cardinality(S)
<1>1. /\ IsFiniteSet(p) /\ C(p) \in Nat
      /\ IsFiniteSet(f) /\ C(f) \in Nat
      /\ IsFiniteSet(h) /\ C(h) \in Nat
  BY DrawnType DEF Sources, Instances
<1>2. C(p) <= Limit /\ C(f) <= Limit /\ Limit \in Nat
  BY UploadQuotaAssumption DEF Tickets, Instances
<1>3. IsFiniteSet(p \cup f \cup h) /\ C(p \cup f \cup h) <= C(p) + C(f) + C(h)
  <2>1. IsFiniteSet(p \cup f) /\ C(p \cup f) = C(p) + C(f) - C(p \cap f)
    BY <1>1, FS_Union
  <2>2. IsFiniteSet(p \cup f \cup h) /\ C(p \cup f \cup h) = C(p \cup f) + C(h) - C((p \cup f) \cap h)
    BY <1>1, <2>1, FS_Union
  <2>3. C(p \cap f) \in Nat /\ C((p \cup f) \cap h) \in Nat
    <3>1. IsFiniteSet(p \cap f) /\ IsFiniteSet((p \cup f) \cap h)
      BY <1>1, FS_Subset
    <3>2. QED BY <3>1, FS_CardinalityType
  <2>4. QED BY <1>1, <2>1, <2>2, <2>3
<1>4. C(uploaded) <= C(p \cup f \cup h) /\ C(uploaded) \in Nat
  <2>1. C(uploaded) <= C(p \cup f \cup h)
    BY <1>3, UploadedWereDrawn
  <2>2. IsFiniteSet(uploaded)
    BY UploadQuotaAssumption, FS_Subset DEF TypeOK
  <2>3. QED BY <2>1, <2>2, FS_CardinalityType
<1>5. C(p \cup f \cup h) \in Nat
  BY <1>3, FS_CardinalityType
<1>6. C(p) + C(f) <= Allowances * Limit
  <2> DEFINE I == {i \in Instances : drawn[i] # {}}
  <2>1. C({}) = 0
    BY FS_EmptySet
  <2>2. CASE p = {} /\ f = {}
    <3>1. I = {}
      BY <2>2 DEF Instances
    <3>2. Allowances = 0
      BY <2>1, <3>1 DEF Allowances
    <3>3. QED BY <1>2, <2>1, <2>2, <3>2
  <2>3. CASE p # {} /\ f = {}
    <3>1. I = {"primary"}
      BY <2>3 DEF Instances
    <3>2. Allowances = 1
      BY <3>1, FS_Singleton DEF Allowances
    <3>3. QED BY <1>1, <1>2, <2>1, <2>3, <3>2
  <2>4. CASE p = {} /\ f # {}
    <3>1. I = {"fallback"}
      BY <2>4 DEF Instances
    <3>2. Allowances = 1
      BY <3>1, FS_Singleton DEF Allowances
    <3>3. QED BY <1>1, <1>2, <2>1, <2>4, <3>2
  <2>5. CASE p # {} /\ f # {}
    <3>1. I = {"primary"} \cup {"fallback"}
      BY <2>5 DEF Instances
    <3>2. IsFiniteSet({"primary"}) /\ Cardinality({"primary"}) = 1
      BY FS_Singleton
    <3>3. C({"primary"} \cup {"fallback"}) = 1 + 1
      BY <3>2, FS_AddElement
    <3>4. Allowances = 2
      BY <3>1, <3>3 DEF Allowances
    <3>5. QED BY <1>1, <1>2, <3>4
  <2>6. QED BY <2>2, <2>3, <2>4, <2>5
<1>7. Allowances * Limit \in Nat
  <2>1. IsFiniteSet(Instances)
    <3>1. IsFiniteSet({"primary"}) /\ Instances = {"primary"} \cup {"fallback"}
      BY FS_Singleton DEF Instances
    <3>2. QED BY <3>1, FS_AddElement
  <2>2. Allowances \in Nat
    BY <2>1, FS_Subset, FS_CardinalityType DEF Allowances
  <2>3. QED BY <1>2, <2>2
<1> HIDE DEF p, f
<1>8. C(uploaded) <= Allowances * Limit + C(h)
  BY <1>1, <1>3, <1>4, <1>5, <1>6, <1>7
<1>9. QED BY <1>8 DEF UploadsWithinAllowances

\* Each Redis instance hands out the plan's allowance at most once, for any
\* number of uploads, outages, retries and failures; what goes beyond was
\* admitted from the durable history.
THEOREM AllowanceSafety == Spec => []UploadsWithinAllowances
<1>1. IInv => UploadsWithinAllowances
  BY WithinAllowances DEF IInv
<1>2. QED BY InvInit, InvStep, <1>1, PTL DEF Spec

\* An upload that was answered with "ok" has its row and all its findings,
\* unless the user deleted it.
THEOREM CompleteSafety == Spec => []AnsweredIsComplete
<1>1. IInv => AnsweredIsComplete
  BY DEF IInv
<1>2. QED BY InvInit, InvStep, <1>1, PTL DEF Spec

\* The upload that the hook serves has its findings, unless the user deleted it.
THEOREM CachedSafety == Spec => []CachedHasFindings
<1>1. IInv => CachedHasFindings
  BY DEF IInv
<1>2. QED BY InvInit, InvStep, <1>1, PTL DEF Spec

-----------------------------------------------------------------------------
(* Uploads that come one at a time, in a period without deletions in which  *)
(* the primary does not come back                                           *)

Orderly == ~overlapped /\ ~returned /\ deleted = {}

OneAtATime == \A a, b \in Attempts : Running(a) /\ Running(b) => a = b

Inserts(a) == handler[a].at = "writing" /\ ~handler[a].existing

\* The rows dated within the period, and the one that is about to be inserted, fit the
\* plan.
RowsFit ==
  /\ Cardinality(Visible) <= Limit
  /\ \A a \in Attempts : Inserts(a) => Cardinality(Visible) + 1 <= Limit

\* The primary has counted every row as long as it has been there all the time,
\* and nobody has asked the history yet.
PrimaryKnows ==
  "primary" \in reach =>
    /\ Cardinality(Visible) <= count["primary"]
    /\ \A a \in Attempts :
         /\ Inserts(a) => Cardinality(Visible) + 1 <= count["primary"]
         /\ handler[a].at # "checking"

FitsThePlan == rows = uploaded /\ OneAtATime /\ RowsFit /\ PrimaryKnows

PlanKept == Orderly => FitsThePlan

LEMMA RowsType ==
  ASSUME TypeOK
  PROVE  IsFiniteSet(Visible) /\ Cardinality(Visible) \in Nat
<1>1. Visible \subseteq Uploads
  BY DEF TypeOK, Visible
<1>2. IsFiniteSet(Visible)
  BY <1>1, FS_Subset, UploadQuotaAssumption
<1>3. QED BY <1>2, FS_CardinalityType

\* What is out of order stays so.
LEMMA OrderlyBefore ==
  ASSUME TypeOK, [Next]_vars, Orderly'
  PROVE  Orderly
<1>1. CASE UNCHANGED vars
  BY <1>1 DEF vars, ghosts, Orderly
<1>2. ASSUME NEW a \in Attempts, Send(a) \/ Resend(a) PROVE Orderly
  <2>1. (overlapped' = (overlapped \/ \E b \in Attempts : Running(b))) /\ UNCHANGED <<returned, deleted>>
    BY <1>2 DEF Send, Resend, Start
  <2>2. overlapped \in BOOLEAN /\ ~overlapped'
    BY DEF TypeOK, Orderly
  <2>3. ~overlapped
    BY <2>1, <2>2
  <2>4. QED BY <2>1, <2>3 DEF Orderly
<1>3. ASSUME NEW a \in Attempts, Handle(a) \/ Fail(a) PROVE Orderly
  BY <1>3 DEF Handle, Select, CountOnPrimary, CountOnFallback, CountNowhere, CheckHistory,
              WriteRow, WriteFindings, WriteCache, Fail, ghosts, Orderly
<1>4. ASSUME NEW i \in Instances, Flip(i) PROVE Orderly
  BY <1>4 DEF Flip, Orderly
<1>5. ASSUME NEW u \in Uploads, Delete(u) PROVE Orderly
  BY <1>5 DEF Delete, ghosts, Orderly
<1>6. QED BY <1>1, <1>2, <1>3, <1>4, <1>5 DEF Next

\* A step that inserts nothing and lets nobody get nearer to it.
LEMMA StillFits ==
  ASSUME TypeOK, TypeOK', FitsThePlan, early' = early, UNCHANGED <<rows, uploaded>>,
         count["primary"] <= count'["primary"],
         "primary" \in reach' => "primary" \in reach,
         \A b \in Attempts :
           /\ Running(b)' => Running(b)
           /\ Inserts(b)' => Inserts(b)
           /\ handler'[b].at = "checking" => handler[b].at = "checking"
  PROVE  FitsThePlan'
<1>0. Visible' = Visible
  BY DEF Visible
<1>1. OneAtATime' /\ RowsFit'
  BY <1>0 DEF FitsThePlan, OneAtATime, RowsFit
<1>2. Cardinality(Visible) \in Nat /\ count["primary"] \in Nat /\ count'["primary"] \in Nat
  BY RowsType DEF TypeOK, Instances
<1>3. PrimaryKnows'
  BY <1>0, <1>2 DEF FitsThePlan, PrimaryKnows
<1>4. QED BY <1>1, <1>3 DEF FitsThePlan

\* A handler that steps, with what it may do next.
LEMMA StepsOn ==
  ASSUME TypeOK, NEW a \in Attempts, Running(a),
         \A b \in Attempts : b # a => handler'[b] = handler[b]
  PROVE  /\ OneAtATime => OneAtATime'
         /\ OneAtATime => \A b \in Attempts : b # a => ~Inserts(b)' /\ handler'[b].at # "checking"
<1>1. \A b \in Attempts : b # a => (Running(b)' <=> Running(b))
  BY DEF Running
<1>2. OneAtATime => \A b \in Attempts : b # a => ~Running(b)'
  BY <1>1 DEF OneAtATime
<1>3. OneAtATime => OneAtATime'
  BY <1>2 DEF OneAtATime
<1>4. \A b \in Attempts : ~Running(b)' => ~Inserts(b)' /\ handler'[b].at # "checking"
  BY DEF Running, Inserts, Busy
<1>5. QED BY <1>2, <1>3, <1>4

\* A handler that goes on to something else than inserting or asking.
LEMMA StepsAside ==
  ASSUME TypeOK, TypeOK', FitsThePlan, early' = early, NEW a \in Attempts, Running(a),
         UNCHANGED <<rows, uploaded, reach>>, count["primary"] <= count'["primary"],
         \A b \in Attempts : b # a => handler'[b] = handler[b],
         handler'[a].at # "checking", ~Inserts(a)'
  PROVE  FitsThePlan'
<1>1. ASSUME NEW b \in Attempts
      PROVE  /\ Running(b)' => Running(b)
             /\ Inserts(b)' => Inserts(b)
             /\ handler'[b].at = "checking" => handler[b].at = "checking"
  <2>1. CASE b = a
    BY <2>1
  <2>2. CASE b # a
    BY <2>2 DEF Running, Inserts
  <2>3. QED BY <2>1, <2>2
<1>2. QED BY <1>1, StillFits

LEMMA StartFits ==
  ASSUME TypeOK, TypeOK', FitsThePlan, early' = early, ~overlapped', NEW a \in Attempts, Send(a) \/ Resend(a)
  PROVE  FitsThePlan'
<1>1. \A b \in Attempts : ~Running(b)
  BY DEF Send, Resend, Start
<1>2. handler' = [handler EXCEPT ![a].at = "selecting"] /\ UNCHANGED <<count, reach, rows, uploaded>>
  BY DEF Send, Resend, Start, tables
<1>3. handler'[a].at = "selecting" /\ \A b \in Attempts : b # a => handler'[b] = handler[b]
  BY <1>2 DEF TypeOK
<1>4. \A b \in Attempts : Running(b)' => b = a
  BY <1>1, <1>3 DEF Running
<1>5. OneAtATime'
  BY <1>4 DEF OneAtATime
<1>6. \A b \in Attempts : ~Inserts(b)' /\ handler'[b].at # "checking"
  BY <1>3, <1>4 DEF Inserts, Running, Busy
<1>0. Visible' = Visible
  BY <1>2 DEF Visible
<1>7. RowsFit'
  BY <1>0, <1>6 DEF FitsThePlan, RowsFit
<1>8. PrimaryKnows'
  BY <1>0, <1>2, <1>6 DEF FitsThePlan, PrimaryKnows
<1>9. QED BY <1>2, <1>5, <1>7, <1>8 DEF FitsThePlan

LEMMA CountOnPrimaryFits ==
  ASSUME TypeOK, TypeOK', FitsThePlan, early' = early, NEW a \in Attempts, CountOnPrimary(a)
  PROVE  FitsThePlan'
<1>1. /\ count["primary"] \in Nat /\ count'["primary"] = count["primary"] + 1
      /\ UNCHANGED <<rows, uploaded, reach>> /\ "primary" \in reach /\ Running(a)
  BY DEF CountOnPrimary, tables, TypeOK, Instances, Running, Busy
<1>0. Visible' = Visible
  BY <1>1 DEF Visible
<1>2. CASE count["primary"] + 1 <= Limit
  <2>1. Goto(a, "writing")
    BY <1>2 DEF CountOnPrimary
  <2>2. \A b \in Attempts : b # a => handler'[b] = handler[b]
    BY <2>1, GotoEffect
  <2>3. /\ OneAtATime'
        /\ \A b \in Attempts : b # a => ~Inserts(b)' /\ handler'[b].at # "checking"
    BY <1>1, <2>2, StepsOn DEF FitsThePlan
  <2>4. handler'[a].at # "checking"
    <3>1. handler'[a].at = "writing"
      BY <2>1, GotoEffect
    <3>2. QED BY <3>1
  <2>5. /\ Cardinality(Visible) \in Nat /\ Cardinality(Visible) <= count["primary"]
        /\ Cardinality(Visible) + 1 <= count'["primary"] /\ Cardinality(Visible) + 1 <= Limit
    BY <1>1, <1>2, RowsType, UploadQuotaAssumption DEF FitsThePlan, PrimaryKnows
  <2>6. RowsFit'
    BY <1>0, <2>3, <2>5 DEF FitsThePlan, RowsFit
  <2>7. PrimaryKnows'
    BY <1>0, <1>1, <2>3, <2>4, <2>5 DEF PrimaryKnows
  <2>8. QED BY <1>1, <2>3, <2>6, <2>7 DEF FitsThePlan
<1>3. CASE ~(count["primary"] + 1 <= Limit)
  <2>1. Goto(a, "done")
    BY <1>3 DEF CountOnPrimary, Refuse
  <2>2. handler'[a].at = "done" /\ \A b \in Attempts : b # a => handler'[b] = handler[b]
    BY <2>1, GotoEffect
  <2>3. ~Inserts(a)' /\ handler'[a].at # "checking"
    BY <2>2 DEF Inserts
  <2>4. QED BY <1>1, <2>2, <2>3, StepsAside
<1>4. QED BY <1>2, <1>3

\* Without the primary a handler asks the history next.
LEMMA CountElsewhereFits ==
  ASSUME TypeOK, TypeOK', FitsThePlan, early' = early, NEW a \in Attempts, CountOnFallback(a) \/ CountNowhere(a)
  PROVE  FitsThePlan'
<1>1. UNCHANGED <<rows, uploaded, reach>> /\ "primary" \notin reach /\ Running(a)
  BY DEF CountOnFallback, CountNowhere, tables, Running, Busy
<1>2. handler'[a].at = "checking" /\ \A b \in Attempts : b # a => handler'[b] = handler[b]
  <2>1. CASE CountOnFallback(a)
    BY <2>1 DEF CountOnFallback, TypeOK
  <2>2. CASE CountNowhere(a)
    <3>1. Goto(a, "checking")
      BY <2>2 DEF CountNowhere
    <3>2. QED BY <3>1, GotoEffect
  <2>3. QED BY <2>1, <2>2
<1>3. OneAtATime' /\ \A b \in Attempts : b # a => ~Inserts(b)'
  BY <1>1, <1>2, StepsOn DEF FitsThePlan
<1>4. ~Inserts(a)'
  BY <1>2 DEF Inserts
<1>0. Visible' = Visible
  BY <1>1 DEF Visible
<1>5. RowsFit'
  BY <1>0, <1>3, <1>4 DEF FitsThePlan, RowsFit
<1>6. PrimaryKnows'
  BY <1>1 DEF PrimaryKnows
<1>7. QED BY <1>1, <1>3, <1>5, <1>6 DEF FitsThePlan

LEMMA CheckHistoryFits ==
  ASSUME TypeOK, TypeOK', FitsThePlan, early' = early, NEW a \in Attempts, CheckHistory(a)
  PROVE  FitsThePlan'
<1>1. UNCHANGED <<rows, uploaded, reach, count>> /\ handler[a].at = "checking" /\ Running(a)
  BY DEF CheckHistory, tables, Running, Busy
<1>2. "primary" \notin reach
  BY <1>1 DEF FitsThePlan, PrimaryKnows
<1>0. Visible' = Visible
  BY <1>1 DEF Visible
<1>3. CASE Goto(a, "writing") /\ Cardinality(Visible) + 1 <= Limit
  <2>1. \A b \in Attempts : b # a => handler'[b] = handler[b]
    BY <1>3, GotoEffect
  <2>2. OneAtATime' /\ \A b \in Attempts : b # a => ~Inserts(b)'
    BY <1>1, <2>1, StepsOn DEF FitsThePlan
  <2>3. RowsFit'
    BY <1>0, <1>3, <2>2 DEF FitsThePlan, RowsFit
  <2>4. PrimaryKnows'
    BY <1>1, <1>2 DEF PrimaryKnows
  <2>5. QED BY <1>1, <2>2, <2>3, <2>4 DEF FitsThePlan
<1>4. CASE Goto(a, "done")
  <2>1. handler'[a].at = "done" /\ \A b \in Attempts : b # a => handler'[b] = handler[b]
    BY <1>4, GotoEffect
  <2>2. ~Inserts(a)' /\ handler'[a].at # "checking"
    BY <2>1 DEF Inserts
  <2>3. count["primary"] <= count'["primary"]
    BY <1>1 DEF TypeOK, Instances
  <2>4. QED BY <1>1, <2>1, <2>2, <2>3, StepsAside
<1>5. QED BY <1>3, <1>4 DEF CheckHistory, Refuse

LEMMA WriteRowFits ==
  ASSUME TypeOK, TypeOK', FitsThePlan, early' = early, NEW a \in Attempts, WriteRow(a)
  PROVE  FitsThePlan'
<1>1. /\ UNCHANGED <<reach, count>> /\ handler[a].at = "writing" /\ Running(a)
      /\ a[1] \in Uploads
  BY AttemptType DEF WriteRow, Running, Busy
<1>2. /\ \A b \in Attempts : b # a => handler'[b] = handler[b]
      /\ handler'[a].at \in {"findings", "broken"}
  <2>1. \E label \in {"findings", "broken"} : Goto(a, label)
    BY DEF WriteRow
  <2>2. QED BY <2>1, GotoEffect
<1>3. ~Inserts(a)' /\ handler'[a].at # "checking"
  BY <1>2 DEF Inserts
<1>4. count["primary"] \in Nat
  BY DEF TypeOK, Instances
<1>5. CASE handler[a].existing
  <2>1. UNCHANGED <<rows, uploaded>>
    BY <1>5 DEF WriteRow
  <2>2. QED BY <1>1, <1>2, <1>3, <1>4, <2>1, StepsAside
<1>6. CASE ~handler[a].existing
  <2>1. Inserts(a) /\ rows' = rows \cup {a[1]} /\ uploaded' = uploaded \cup {a[1]}
    BY <1>1, <1>6 DEF Inserts, WriteRow
  <2>2. /\ OneAtATime'
        /\ \A b \in Attempts : b # a => ~Inserts(b)' /\ handler'[b].at # "checking"
    BY <1>1, <1>2, StepsOn DEF FitsThePlan
  <2>3. Cardinality(Visible') \in Nat /\ Cardinality(Visible') <= Cardinality(Visible) + 1
    <3>1. IsFiniteSet(Visible) /\ Cardinality(Visible) \in Nat
      BY RowsType
    <3>2. Visible' = Visible \/ Visible' = Visible \cup {a[1]}
      BY <2>1 DEF Visible
    <3>3. Cardinality(Visible \cup {a[1]}) = IF a[1] \in Visible THEN Cardinality(Visible)
                                            ELSE Cardinality(Visible) + 1
      BY <3>1, FS_AddElement
    <3>4. QED BY <3>1, <3>2, <3>3
  <2>4. Cardinality(Visible) \in Nat /\ Cardinality(Visible) + 1 <= Limit
    BY <2>1, RowsType DEF FitsThePlan, RowsFit
  <2>5. Cardinality(Visible') <= Limit
    BY <2>3, <2>4, UploadQuotaAssumption
  <2>6. RowsFit'
    BY <1>3, <2>2, <2>5 DEF RowsFit
  <2>7. "primary" \in reach => Cardinality(Visible') <= count["primary"]
    BY <1>4, <2>1, <2>3, <2>4 DEF FitsThePlan, PrimaryKnows
  <2>8. PrimaryKnows'
    BY <1>1, <1>3, <2>2, <2>7 DEF PrimaryKnows
  <2>9. QED BY <2>1, <2>2, <2>6, <2>8 DEF FitsThePlan
<1>7. QED BY <1>5, <1>6

LEMMA PlanStep == TypeOK /\ TypeOK' /\ PlanKept /\ [Next]_vars => PlanKept'
<1> SUFFICES ASSUME TypeOK, TypeOK', PlanKept, [Next]_vars, Orderly' PROVE FitsThePlan'
  BY DEF PlanKept
<1>0. early' = early
  BY DEF Next, vars
<1> USE <1>0
<1>1. FitsThePlan
  BY OrderlyBefore DEF PlanKept
<1>2. count["primary"] \in Nat
  BY DEF TypeOK, Instances
<1>3. ASSUME NEW a \in Attempts, Send(a) \/ Resend(a) PROVE FitsThePlan'
  BY <1>1, <1>3, StartFits DEF Orderly
<1>4. ASSUME NEW a \in Attempts, Select(a) PROVE FitsThePlan'
  <2>1. /\ handler'[a].at = "counting" \/ (handler'[a].at = "writing" /\ handler'[a].existing)
        /\ \A b \in Attempts : b # a => handler'[b] = handler[b]
    BY <1>4 DEF Select, TypeOK
  <2>2. ~Inserts(a)' /\ handler'[a].at # "checking"
    BY <2>1 DEF Inserts
  <2>3. UNCHANGED <<rows, uploaded, reach, count>> /\ Running(a)
    BY <1>4 DEF Select, tables, Running, Busy
  <2>4. QED BY <1>1, <1>2, <2>1, <2>2, <2>3, StepsAside
<1>5. ASSUME NEW a \in Attempts, WriteFindings(a) \/ WriteCache(a) \/ Fail(a) PROVE FitsThePlan'
  <2>1. \E label \in {"caching", "broken", "done"} : Goto(a, label)
    BY <1>5 DEF WriteFindings, WriteCache, Fail
  <2>2. /\ handler'[a].at \in {"caching", "broken", "done"}
        /\ \A b \in Attempts : b # a => handler'[b] = handler[b]
    BY <2>1, GotoEffect
  <2>3. ~Inserts(a)' /\ handler'[a].at # "checking"
    BY <2>2 DEF Inserts
  <2>4. UNCHANGED <<rows, uploaded, reach, count>> /\ Running(a)
    BY <1>5 DEF WriteFindings, WriteCache, Fail, tables, Running, Busy
  <2>5. QED BY <1>1, <1>2, <2>2, <2>3, <2>4, StepsAside
<1>6. ASSUME NEW i \in Instances, Flip(i) PROVE FitsThePlan'
  <2>1. "primary" \in reach' => "primary" \in reach
    BY <1>6 DEF Flip, Orderly
  <2>2. UNCHANGED <<rows, uploaded, count, handler>>
    BY <1>6 DEF Flip, tables
  <2>3. \A b \in Attempts : (Running(b)' => Running(b)) /\ (Inserts(b)' => Inserts(b))
    BY <2>2 DEF Running, Inserts
  <2>4. QED BY <1>1, <1>2, <2>1, <2>2, <2>3, StillFits
<1>7. ASSUME NEW u \in Uploads, Delete(u) PROVE FALSE
  BY <1>7 DEF Delete, Orderly
<1>8. CASE UNCHANGED vars
  <2>1. UNCHANGED <<rows, uploaded, count, handler, reach>>
    BY <1>8 DEF vars, tables
  <2>2. \A b \in Attempts : (Running(b)' => Running(b)) /\ (Inserts(b)' => Inserts(b))
    BY <2>1 DEF Running, Inserts
  <2>3. QED BY <1>1, <1>2, <2>1, <2>2, StillFits
<1>9. QED
  BY <1>1, <1>3, <1>4, <1>5, <1>6, <1>7, <1>8,
     CountOnPrimaryFits, CountElsewhereFits, CheckHistoryFits, WriteRowFits DEF Next, Handle

\* While uploads come one at a time, the primary does not come back and nothing
\* is deleted, an outage at any moment admits nothing beyond the plan of the
\* uploads that are dated within the period.
THEOREM FailoverSafety == Spec => []FailoverKeepsThePlan
<1>1. Init => PlanKept
  <2> SUFFICES ASSUME Init PROVE FitsThePlan
    BY DEF PlanKept
  <2>1. rows = {} /\ uploaded = {} /\ count["primary"] = 0
    BY DEF Init, Instances
  <2>2. Cardinality(Visible) = 0
    BY <2>1, FS_EmptySet DEF Visible
  <2>3. \A a \in Attempts : ~Running(a) /\ ~Inserts(a) /\ handler[a].at # "checking"
    BY DEF Init, Unsent, Running, Inserts, Busy
  <2>4. QED
    BY <2>1, <2>2, <2>3, UploadQuotaAssumption DEF FitsThePlan, OneAtATime, RowsFit, PrimaryKnows
<1>2. PlanKept => FailoverKeepsThePlan
  BY DEF PlanKept, FitsThePlan, Orderly, RowsFit, FailoverKeepsThePlan, Visible
<1>3. QED BY TypeCorrect, PlanStep, <1>1, <1>2, PTL DEF Spec
=============================================================================
