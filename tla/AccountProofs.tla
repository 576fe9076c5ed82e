--------------------------- MODULE AccountProofs ----------------------------
(***************************************************************************)
(* Theorems about what an account has paid for and who shares it.          *)
(*                                                                         *)
(* About Organization and WorkspacePage, for any people, roles,            *)
(* permissions, seats, and any number of requests and loads at once: the   *)
(* type invariant, that a role that someone has, or was offered, is there, *)
(* that members stay within the seats, and that a page's own revocations   *)
(* show.                                                                   *)
(*                                                                         *)
(* About Billing, for any orders, plans, channels, gifts and failures: its *)
(* type invariant, that a payment is granted once, that no plan reaches    *)
(* further than it was paid for, and that an order marked paid is granted, *)
(* on its way, or was lost with the handler that had claimed it.           *)
(***************************************************************************)
EXTENDS WorkspacePage, Billing, FiniteSetTheorems, TLAPS

Steps == {"none", "asked", "joined", "done", "refused"}

Records ==
  [by : People, op : Operations \cup {"none"}, who : People, role : Roles \cup {NoRole},
   give : Grants, step : Steps, row : BOOLEAN, held : BOOLEAN,
   passed : 0 .. 5, members : SUBSET People, number : Nat]

\* What a request about a role names is a role, and what is asked is a request.
Formed ==
  {m \in Records : /\ m.op \in {"create_role", "update_role", "delete_role"} => m.role \in Roles
                   /\ m.step = "asked" => m.op \in Operations}

IInv == OrgTypeOK /\ req \in [Slots -> Formed]

\* The type invariant without the requests.
RestTypeOK ==
  /\ role \in [People -> Roles \cup {NoRole, OwnerRole}]
  /\ invite \in [People -> {"none", "open", "expired", "accepted"}]
  /\ offered \in [People -> Roles \cup {NoRole}]
  /\ live \subseteq Roles /\ grants \in [Roles -> Grants]
  /\ seats \in {1, MaxSeats} /\ strayed \subseteq People

-----------------------------------------------------------------------------
(* Requests *)

LEMMA OperationsAre ==
  Operations = {"invite", "revoke", "accept", "set_role", "remove", "leave",
                "create_role", "update_role", "delete_role"}
BY DEF Operations, Checks

LEMMA SomeChecks ==
  ASSUME NEW op \in Operations
  PROVE  Len(Checks[op]) \in 1 .. 5
BY DEF Operations, Checks

\* The checks of an acceptance, in their order.
LEMMA AcceptChecks ==
  /\ Len(Checks["accept"]) = 5
  /\ Checks["accept"][1] = "row" /\ Checks["accept"][2] = "apart"
  /\ Checks["accept"][3] = "members" /\ Checks["accept"][4] = "invites"
  /\ Checks["accept"][5] = "limit"
BY DEF Checks

LEMMA RequestType ==
  ASSUME NEW m \in Requests
  PROVE  /\ m.op \in Operations /\ m.who \in People /\ m.give \in Grants
         /\ m.role \in Roles \cup {NoRole}
         /\ m.op \in {"create_role", "update_role", "delete_role"} => m.role \in Roles
<1> USE DEF Request
<1>1. CASE m \in {Request(op, q, NoRole, {}) : op \in {"revoke", "remove"}, q \in People}
  BY <1>1, OrganizationAssumption, OperationsAre
<1>2. CASE m \in {Request(op, Owner, NoRole, {}) : op \in {"accept", "leave"}}
  BY <1>2, OrganizationAssumption, OperationsAre
<1>3. CASE m \in {Request(op, q, r, {}) : op \in {"invite", "set_role"}, q \in People \ {Owner}, r \in Roles}
  BY <1>3, OrganizationAssumption, OperationsAre
<1>4. CASE m \in {Request(op, Owner, r, g) : op \in {"create_role", "update_role"}, r \in Roles, g \in Grants}
  BY <1>4, OrganizationAssumption, OperationsAre
<1>5. CASE m \in {Request("delete_role", Owner, r, {}) : r \in Roles}
  BY <1>5, OrganizationAssumption, OperationsAre
<1>6. QED BY <1>1, <1>2, <1>3, <1>4, <1>5 DEF Requests

LEMMA IdleType == Idle \in Formed /\ Idle.op = "none" /\ Idle.step = "none"
BY OrganizationAssumption, OperationsAre DEF Idle, Steps, Records, Formed

\* A request that ends, or of which the invitation did, keeps its shape.
LEMMA EndedType ==
  ASSUME IInv, NEW s \in Slots, NEW step \in Steps \ {"asked"}
  PROVE  Ended(s, step) \in Formed
<1>1. [req[s] EXCEPT !.step = step] \in Formed
  BY DEF IInv, Formed, Records
<1>2. QED BY <1>1, IdleType DEF Ended

LEMMA LapsedType ==
  ASSUME IInv, NEW s \in Slots, NEW people
  PROVE  Lapsed(s, people) \in Formed /\ Unrowed(s, people) \in Formed
<1>1. req[s] \in Formed
  BY DEF IInv
<1>2. /\ [req[s] EXCEPT !.held = FALSE] \in Formed
      /\ [req[s] EXCEPT !.row = FALSE, !.held = FALSE] \in Formed
  BY <1>1 DEF Formed, Records
<1>3. QED BY <1>1, <1>2 DEF Lapsed, Unrowed

LEMMA EndType ==
  ASSUME IInv, NEW s \in Slots, NEW step \in Steps \ {"asked"}, End(s, step)
  PROVE  req' \in [Slots -> Formed]
BY EndedType DEF IInv, End

LEMMA EndWithoutType ==
  ASSUME IInv, NEW s \in Slots, NEW people, EndWithout(s, people)
  PROVE  req' \in [Slots -> Formed]
BY LapsedType, EndedType DEF EndWithout, Steps

LEMMA SetTypes ==
  /\ Joined \subseteq People /\ Pending \subseteq People
  /\ IsFiniteSet(Joined) /\ IsFiniteSet(Pending)
  /\ Cardinality(Joined) \in Nat /\ Cardinality(Pending) \in Nat
<1>1. Joined \subseteq People /\ Pending \subseteq People
  BY DEF Joined, Pending
<1>2. QED BY <1>1, OrganizationAssumption, FS_Subset, FS_CardinalityType

LEMMA SeatsUsedType ==
  ASSUME NEW m \in Formed
  PROVE  /\ IsFiniteSet(m.members) /\ Cardinality(m.members) \in Nat
         /\ SeatsUsed(m) \in Nat
<1>1. m.members \subseteq People
  BY DEF Formed, Records
<1>2. IsFiniteSet(m.members) /\ Cardinality(m.members) \in Nat
  BY <1>1, OrganizationAssumption, FS_Subset, FS_CardinalityType
<1>3. QED BY <1>2, SetTypes DEF SeatsUsed

\* What a check notes is a request, the same one but for what was read.
LEMMA NotedType ==
  ASSUME IInv, NEW m \in Formed, NEW check
  PROVE  /\ Noted(m, check) \in Formed
         /\ Noted(m, check).op = m.op /\ Noted(m, check).by = m.by /\ Noted(m, check).step = m.step
         /\ Noted(m, check).passed = m.passed
<1>0. m \in Records /\ m.by \in People
  BY DEF Formed, Records
<1>1. offered[m.by] \in Roles \cup {NoRole} /\ seats \in Nat
  BY <1>0, OrganizationAssumption DEF IInv, OrgTypeOK
<1>2. CASE check = "row" /\ m.op = "accept"
  BY <1>0, <1>1, <1>2 DEF Noted, Formed, Records
<1>3. CASE check = "row" /\ m.op # "accept"
  BY <1>0, <1>3 DEF Noted, Formed, Records
<1>4. CASE check = "members"
  BY <1>0, <1>4, SetTypes DEF Noted, Formed, Records
<1>5. CASE check = "invites"
  <2> DEFINE n == IF m.op = "accept" THEN SeatsUsed(m) ELSE 0
  <2> DEFINE h == m.held /\ Complete(m)
  <2>1. n \in Nat
    BY SeatsUsedType
  <2>2. h \in BOOLEAN
    OBVIOUS
  <2>3. Noted(m, check) = [m EXCEPT !.members = {}, !.held = h, !.number = n]
    BY <1>5 DEF Noted
  <2> HIDE DEF n, h
  <2>4. QED BY <1>0, <2>1, <2>2, <2>3 DEF Formed, Records
<1>6. CASE check = "limit"
  <2> DEFINE n == IF m.op = "accept" THEN 0 ELSE seats
  <2>1. n \in Nat
    BY <1>1
  <2>2. Noted(m, check) = [m EXCEPT !.number = n]
    BY <1>6 DEF Noted
  <2> HIDE DEF n
  <2>3. QED BY <1>0, <2>1, <2>2 DEF Formed, Records
<1>7. CASE check \notin {"row", "members", "invites", "limit"}
  BY <1>0, <1>7 DEF Noted
<1>8. QED BY <1>2, <1>3, <1>4, <1>5, <1>6, <1>7

LEMMA CheckedType ==
  ASSUME IInv, NEW m \in Formed, m.op \in Operations, m.passed < Len(Checks[m.op])
  PROVE  /\ Checked(m) \in Formed
         /\ Checked(m).op = m.op /\ Checked(m).by = m.by /\ Checked(m).step = m.step
         /\ Checked(m).passed = m.passed + 1
         /\ Checked(m).held = Noted(m, NextCheck(m)).held
         /\ Checked(m).number = Noted(m, NextCheck(m)).number
<1>1. m.passed \in 0 .. 5 /\ Len(Checks[m.op]) \in 1 .. 5
  BY SomeChecks DEF Formed, Records
<1>2. m.passed + 1 \in 0 .. 5
  <2> DEFINE a == m.passed
  <2> DEFINE b == Len(Checks[m.op])
  <2>1. a \in 0 .. 5 /\ b \in 1 .. 5 /\ a < b
    BY <1>1
  <2> HIDE DEF a, b
  <2>2. a + 1 \in 0 .. 5
    BY <2>1
  <2>3. QED BY <2>2 DEF a
<1> DEFINE n == m.passed + 1
<1> DEFINE k == Noted(m, NextCheck(m))
<1>3. /\ k \in Formed
      /\ k.op = m.op /\ k.by = m.by /\ k.step = m.step
  BY NotedType
<1>4. Checked(m) = [k EXCEPT !.passed = n] /\ n \in 0 .. 5
  BY <1>2 DEF Checked
<1> HIDE DEF n, k
<1>5. /\ Checked(m) \in Formed
      /\ Checked(m).op = m.op /\ Checked(m).by = m.by /\ Checked(m).step = m.step
      /\ Checked(m).passed = n /\ Checked(m).held = k.held /\ Checked(m).number = k.number
  BY <1>3, <1>4 DEF Formed, Records
<1>6. QED BY <1>5 DEF n, k

LEMMA SentType ==
  ASSUME NEW p \in People, NEW m \in Requests
  PROVE  /\ Sent(p, m) \in Formed
         /\ Sent(p, m).op = m.op /\ Sent(p, m).by = p /\ Sent(p, m).step = "asked"
         /\ Sent(p, m).passed = 0 /\ Sent(p, m).held = FALSE
         /\ m.op \in Operations
<1>1. Sent(p, m) = [by |-> p, op |-> m.op, who |-> m.who, role |-> m.role, give |-> m.give, step |-> "asked",
                    passed |-> 0, members |-> {}, number |-> 0, row |-> FALSE, held |-> FALSE]
  BY DEF Sent
<1>2. /\ m.op \in Operations /\ m.who \in People /\ m.give \in Grants
      /\ m.role \in Roles \cup {NoRole}
      /\ m.op \in {"create_role", "update_role", "delete_role"} => m.role \in Roles
  BY RequestType
<1>3. Sent(p, m) \in Records
  BY <1>1, <1>2 DEF Records, Steps
<1>4. QED BY <1>1, <1>2, <1>3 DEF Formed

LEMMA Parts ==
  /\ IInv => RestTypeOK /\ req \in [Slots -> Formed]
  /\ RestTypeOK' /\ req' \in [Slots -> Formed] => IInv'
BY DEF IInv, OrgTypeOK, RestTypeOK, Formed, Records, Steps

-----------------------------------------------------------------------------
(* Type correctness *)

LEMMA InvInit == OrgInit => IInv
BY IdleType DEF OrgInit, IInv, OrgTypeOK, Steps, Records, Formed

LEMMA CheckStep ==
  ASSUME IInv, NEW s \in Slots, Check(s)
  PROVE  IInv'
<1>1. /\ UNCHANGED <<role, invite, offered, live, grants, seats, strayed>>
      /\ req[s].step = "asked" /\ req[s].passed < Len(Checks[req[s].op])
  BY DEF Check
<1>2. RestTypeOK /\ req \in [Slots -> Formed] /\ req[s] \in Formed
  BY Parts
<1>3. RestTypeOK'
  BY <1>1, <1>2 DEF RestTypeOK
<1>4. CASE End(s, "refused")
  BY <1>3, <1>4, EndType, Parts DEF Steps
<1>5. CASE req' = [req EXCEPT ![s] = Checked(req[s])]
  <2>1. req[s].op \in Operations
    BY <1>1, <1>2 DEF Formed
  <2>2. Checked(req[s]) \in Formed
    BY <1>1, <1>2, <2>1, CheckedType
  <2>3. QED BY <1>2, <1>3, <1>5, <2>2, Parts
<1>6. QED BY <1>4, <1>5 DEF Check

LEMMA ArriveStep ==
  ASSUME IInv, NEW s \in Slots, NEW p \in People, NEW m \in Requests, Arrive(s, p, m)
  PROVE  IInv'
<1>1. /\ UNCHANGED <<role, invite, offered, live, grants, seats, strayed>>
      /\ req' = [req EXCEPT ![s] = Checked(Sent(p, m))]
  BY DEF Arrive
<1>2. RestTypeOK /\ req \in [Slots -> Formed]
  BY Parts
<1>3. RestTypeOK'
  BY <1>1, <1>2 DEF RestTypeOK
<1> DEFINE n == Sent(p, m)
<1>4. n \in Formed /\ n.op \in Operations /\ n.passed = 0
  BY SentType
<1> HIDE DEF n
<1>5. Checked(n) \in Formed
  <2>1. Len(Checks[n.op]) \in 1 .. 5
    BY <1>4, SomeChecks
  <2>2. n.passed < Len(Checks[n.op])
    <3> DEFINE b == Len(Checks[n.op])
    <3>1. b \in 1 .. 5
      BY <2>1
    <3> HIDE DEF b
    <3>2. 0 < b
      BY <3>1
    <3>3. QED BY <1>4, <3>2 DEF b
  <2>3. QED BY <1>4, <2>2, CheckedType
<1>6. QED BY <1>1, <1>2, <1>3, <1>5, Parts DEF n

LEMMA WriteStep ==
  ASSUME IInv, NEW s \in Slots, Write(s)
  PROVE  IInv'
<1>0. RestTypeOK /\ req \in [Slots -> Formed] /\ req[s] \in Formed
  BY Parts
<1> USE DEF Steps
<1>1. CASE WriteInvite(s)
  <2>1. req' \in [Slots -> Formed]
    BY <1>1, EndType DEF WriteInvite
  <2>2. RestTypeOK'
    BY <1>0, <1>1 DEF WriteInvite, RestTypeOK, Formed, Records
  <2>3. QED BY <2>1, <2>2, Parts
<1>2. CASE WriteRevoke(s)
  <2>1. req' \in [Slots -> Formed]
    BY <1>2, EndWithoutType, EndType DEF WriteRevoke
  <2>2. RestTypeOK'
    BY <1>0, <1>2 DEF WriteRevoke, RestTypeOK
  <2>3. QED BY <2>1, <2>2, Parts
<1>3. CASE WriteJoin(s)
  <2>1. [req[s] EXCEPT !.step = "joined"] \in Formed
    BY <1>0 DEF Formed, Records
  <2>2. req' \in [Slots -> Formed]
    BY <1>0, <1>3, <2>1, EndType DEF WriteJoin
  <2>3. RestTypeOK'
    BY <1>0, <1>3 DEF WriteJoin, RestTypeOK, Formed, Records
  <2>4. QED BY <2>2, <2>3, Parts
<1>4. CASE MarkAccepted(s)
  <2>1. ASSUME req' = [o \in Slots |-> IF o = s THEN Ended(s, "done") ELSE Lapsed(o, {req[s].by})]
        PROVE  req' \in [Slots -> Formed]
    <3>1. Ended(s, "done") \in Formed
      BY EndedType
    <3>2. \A o \in Slots : Lapsed(o, {req[s].by}) \in Formed
      BY LapsedType
    <3>3. QED BY <2>1, <3>1, <3>2
  <2>2. ASSUME End(s, IF req[s].row THEN "refused" ELSE "done")
        PROVE  req' \in [Slots -> Formed]
    BY <2>2, EndType
  <2>3. req' \in [Slots -> Formed]
    BY <1>4, <2>1, <2>2 DEF MarkAccepted
  <2>4. RestTypeOK'
    BY <1>0, <1>4 DEF MarkAccepted, RestTypeOK
  <2>5. QED BY <2>3, <2>4, Parts
<1>5. CASE WriteSetRole(s)
  <2>1. req' \in [Slots -> Formed]
    BY <1>5, EndType DEF WriteSetRole
  <2>2. RestTypeOK'
    BY <1>0, <1>5 DEF WriteSetRole, RestTypeOK
  <2>3. QED BY <2>1, <2>2, Parts
<1>6. CASE WriteRemove(s)
  <2>1. req' \in [Slots -> Formed]
    BY <1>6, EndType DEF WriteRemove
  <2>2. RestTypeOK'
    BY <1>0, <1>6 DEF WriteRemove, RestTypeOK
  <2>3. QED BY <2>1, <2>2, Parts
<1>7. CASE WriteRole(s)
  <2>1. req[s].role \in Roles /\ req[s].give \in Grants
    BY <1>0, <1>7 DEF WriteRole, Writing, Formed, Records
  <2>2. req' \in [Slots -> Formed]
    BY <1>7, EndType DEF WriteRole
  <2>3. RestTypeOK'
    BY <1>0, <1>7, <2>1 DEF WriteRole, RestTypeOK
  <2>4. QED BY <2>2, <2>3, Parts
<1>8. CASE DeleteRole(s)
  <2>1. CASE \E m \in People : role[m] = req[s].role
    <3>1. End(s, "refused") /\ UNCHANGED <<role, invite, offered, live, grants, seats, strayed>>
      BY <1>8, <2>1 DEF DeleteRole
    <3>2. req' \in [Slots -> Formed]
      BY <3>1, EndType
    <3>3. RestTypeOK'
      BY <1>0, <3>1 DEF RestTypeOK
    <3>4. QED BY <3>2, <3>3, Parts
  <2>2. CASE ~ \E m \in People : role[m] = req[s].role
    <3>1. req' \in [Slots -> Formed]
      BY <1>8, <2>2, EndWithoutType DEF DeleteRole
    <3>2. live' \subseteq Roles /\ grants' \in [Roles -> Grants]
      BY <1>0, <1>8, <2>2, OrganizationAssumption DEF DeleteRole, RestTypeOK
    <3>3. /\ invite' \in [People -> {"none", "open", "expired", "accepted"}]
          /\ offered' \in [People -> Roles \cup {NoRole}]
      BY <1>0, <1>8, <2>2 DEF DeleteRole, Cascade, RestTypeOK
    <3>4. UNCHANGED <<role, seats, strayed>>
      BY <1>8 DEF DeleteRole
    <3>5. RestTypeOK'
      BY <1>0, <3>2, <3>3, <3>4 DEF RestTypeOK
    <3>6. QED BY <3>1, <3>5, Parts
  <2>3. QED BY <2>1, <2>2
<1>9. QED BY <1>1, <1>2, <1>3, <1>4, <1>5, <1>6, <1>7, <1>8 DEF Write

LEMMA InvStep == IInv /\ [OrgStep]_org => IInv'
<1> SUFFICES ASSUME IInv, [OrgStep]_org PROVE IInv'
  OBVIOUS
<1>1. CASE PlanChanges
  BY <1>1 DEF PlanChanges, IInv, OrgTypeOK
<1>2. ASSUME NEW p \in People, InviteExpires(p) PROVE IInv'
  <2>1. req' \in [Slots -> Formed]
    BY <1>2, LapsedType DEF InviteExpires
  <2>2. RestTypeOK'
    BY <1>2, Parts DEF InviteExpires, RestTypeOK
  <2>3. QED BY <2>1, <2>2, Parts
<1>3. CASE UNCHANGED org
  BY <1>3 DEF org, IInv, OrgTypeOK
<1>4. QED BY <1>1, <1>2, <1>3, CheckStep, ArriveStep, WriteStep DEF OrgStep

LEMMA Invariance == OrgSpec => []IInv
BY InvInit, InvStep, PTL DEF OrgSpec

\* Members, invitations, roles and requests keep their types whatever handlers
\* run at once.
THEOREM TypeCorrect == OrgSpec => []OrgTypeOK
BY Invariance, PTL DEF IInv

-----------------------------------------------------------------------------
(* Roles in use *)

LEMMA RolesInit == OrgInit => RolesInUseAreThere
BY OrganizationAssumption DEF OrgInit, RolesInUseAreThere

\* The writes that set a role look at it as they write; the one that deletes it
\* looks at the members and takes the invitations along.
LEMMA RolesStep == IInv /\ RolesInUseAreThere /\ [OrgStep]_org => RolesInUseAreThere'
<1> SUFFICES ASSUME IInv, RolesInUseAreThere, [OrgStep]_org PROVE RolesInUseAreThere'
  OBVIOUS
<1> USE DEF RolesInUseAreThere
<1>1. CASE PlanChanges
  BY <1>1 DEF PlanChanges
<1>2. ASSUME NEW p \in People, InviteExpires(p) PROVE RolesInUseAreThere'
  BY <1>2 DEF InviteExpires, IInv, OrgTypeOK
<1>3. ASSUME NEW s \in Slots, Check(s) \/ \E p \in People, m \in Requests : Arrive(s, p, m)
      PROVE  RolesInUseAreThere'
  BY <1>3 DEF Check, Arrive
<1>4. ASSUME NEW s \in Slots, Write(s) PROVE RolesInUseAreThere'
  <2>1. CASE WriteInvite(s)
    BY <2>1 DEF WriteInvite, IInv, OrgTypeOK
  <2>2. CASE WriteRevoke(s)
    BY <2>2 DEF WriteRevoke, IInv, OrgTypeOK
  <2>3. CASE WriteJoin(s)
    BY <2>3 DEF WriteJoin, IInv, OrgTypeOK
  <2>4. CASE MarkAccepted(s)
    BY <2>4 DEF MarkAccepted, IInv, OrgTypeOK
  <2>5. CASE WriteSetRole(s)
    BY <2>5 DEF WriteSetRole, IInv, OrgTypeOK
  <2>6. CASE WriteRemove(s)
    BY <2>6, OrganizationAssumption DEF WriteRemove, IInv, OrgTypeOK
  <2>7. CASE WriteRole(s)
    BY <2>7 DEF WriteRole
  <2>8. CASE DeleteRole(s)
    BY <2>8 DEF DeleteRole, Cascade, Offered, IInv, OrgTypeOK
  <2>9. QED BY <1>4, <2>1, <2>2, <2>3, <2>4, <2>5, <2>6, <2>7, <2>8 DEF Write
<1>5. CASE UNCHANGED org
  BY <1>5 DEF org
<1>6. QED BY <1>1, <1>2, <1>3, <1>4, <1>5 DEF OrgStep

\* Deleting a role never crosses an assignment, an invitation or an acceptance
\* that checked it before.
THEOREM RolesSafety == OrgSpec => []RolesInUseAreThere
BY Invariance, RolesInit, RolesStep, PTL DEF OrgSpec

-----------------------------------------------------------------------------
(* Seats *)

\* An acceptance holds its invitation while that stays open since it was read.
\* From its count on it has a claim to a seat if the count was within those
\* sold, whether or not it has read the limit yet.
Holds(m) == m.op = "accept" /\ m.step = "asked" /\ m.held
Counted(m) == m.passed = 5 \/ (m.passed = 4 /\ m.number <= MaxSeats)
Claims(m) == Holds(m) /\ Counted(m)
Claiming == {p \in People : \E s \in Slots : Claims(req[s]) /\ req[s].by = p}
Claimed == (Joined \ strayed) \cup Claiming

HeldAreOpen == \A s \in Slots : Holds(req[s]) => invite[req[s].by] = "open"
SeatsInv == HeldAreOpen /\ Cardinality(Claimed) <= MaxSeats

\* A step makes no acceptance hold, and no claim.
NoNewClaim ==
  \A s \in Slots :
    /\ Holds(req'[s]) => Holds(req[s]) /\ req'[s].by = req[s].by
    /\ Claims(req'[s]) => Claims(req[s])

LEMMA SeatSets ==
  /\ IsFiniteSet(Joined) /\ IsFiniteSet(Pending) /\ IsFiniteSet(Claimed)
  /\ IsFiniteSet(Joined \ strayed)
<1>1. /\ Joined \subseteq People /\ Pending \subseteq People /\ Claimed \subseteq People
      /\ Joined \ strayed \subseteq People
  BY DEF Joined, Pending, Claimed, Claiming
<1>2. QED BY <1>1, OrganizationAssumption, FS_Subset

\* What is claimed can only shrink while no check passes.
LEMMA FewerClaims ==
  ASSUME IInv, SeatsInv, NoNewClaim,
         Joined' \ strayed' \subseteq Claimed
  PROVE  Cardinality(Claimed') <= MaxSeats
<1>1. Claiming' \subseteq Claiming
  BY DEF Claiming, Claims, NoNewClaim
<1>2. Claimed' \subseteq Claimed
  BY <1>1 DEF Claimed
<1>3. /\ Cardinality(Claimed') <= Cardinality(Claimed)
      /\ Cardinality(Claimed) \in Nat /\ Cardinality(Claimed') \in Nat
  BY <1>2, SeatSets, FS_Subset, FS_CardinalityType
<1>4. QED BY <1>3, OrganizationAssumption DEF SeatsInv

LEMMA EndMakesNone ==
  ASSUME IInv, NEW s \in Slots, NEW step \in Steps \ {"asked"}, End(s, step)
  PROVE  NoNewClaim
<1>1. req[s] \in Records
  BY DEF IInv, Formed
<1>2. ~ Holds(Ended(s, step))
  BY <1>1, IdleType DEF Ended, Holds, Records, Steps
<1>3. req' = [req EXCEPT ![s] = Ended(s, step)] /\ req \in [Slots -> Formed]
  BY DEF End, IInv
<1>4. QED BY <1>2, <1>3 DEF NoNewClaim, Claims

\* An invitation that is still held was not among those that ended.
LEMMA LapsedMakesNone ==
  ASSUME IInv, NEW o \in Slots, NEW people
  PROVE  /\ Holds(Lapsed(o, people)) => Lapsed(o, people) = req[o] /\ req[o].by \notin people
         /\ Holds(Unrowed(o, people)) => Unrowed(o, people) = req[o] /\ req[o].by \notin people
<1>1. req[o] \in Records
  BY DEF IInv, Formed
<1>2. /\ ~ Holds([req[o] EXCEPT !.held = FALSE])
      /\ ~ Holds([req[o] EXCEPT !.row = FALSE, !.held = FALSE])
  BY <1>1 DEF Holds, Records
<1>3. Holds(Lapsed(o, people)) => Lapsed(o, people) = req[o] /\ req[o].by \notin people
  BY <1>2 DEF Lapsed, Accepts, Holds
<1>4. Holds(Unrowed(o, people)) => Unrowed(o, people) = req[o] /\ req[o].by \notin people
  BY <1>2 DEF Unrowed, Accepts, Holds
<1>5. QED BY <1>3, <1>4

LEMMA EndWithoutMakesNone ==
  ASSUME IInv, NEW s \in Slots, NEW people, EndWithout(s, people)
  PROVE  /\ NoNewClaim
         /\ \A o \in Slots : Holds(req'[o]) => req'[o].by \notin people
<1>1. req[s] \in Records
  BY DEF IInv, Formed
<1>2. ~ Holds(Ended(s, "done"))
  BY <1>1, IdleType DEF Ended, Holds, Records, Steps
<1>3. \A o \in Slots : req'[o] = IF o = s THEN Ended(s, "done") ELSE Unrowed(o, people)
  BY DEF EndWithout
<1>4. QED BY <1>2, <1>3, LapsedMakesNone DEF NoNewClaim, Claims

LEMMA LapseMakesNone ==
  ASSUME IInv, NEW people,
         \A o \in Slots : Holds(req'[o]) => req'[o] = Lapsed(o, people)
  PROVE  /\ NoNewClaim
         /\ \A o \in Slots : Holds(req'[o]) => req'[o].by \notin people
BY LapsedMakesNone DEF NoNewClaim, Claims

LEMMA SeatsInit == OrgInit => SeatsInv
<1> SUFFICES ASSUME OrgInit PROVE SeatsInv
  OBVIOUS
<1>1. \A s \in Slots : ~ Holds(req[s])
  BY IdleType DEF OrgInit, Holds
<1>2. Claimed = {Owner}
  BY <1>1, OrganizationAssumption DEF OrgInit, Claimed, Claiming, Claims, Joined
<1>3. Cardinality(Claimed) = 1
  BY <1>2, FS_Singleton
<1>4. QED BY <1>1, <1>3, OrganizationAssumption DEF SeatsInv, HeldAreOpen

\* A step that makes no claim and ends no invitation that is held.
LEMMA SeatsKept ==
  ASSUME IInv, SeatsInv, NoNewClaim,
         \A o \in Slots : Holds(req'[o]) => invite'[req'[o].by] = "open",
         Joined' \ strayed' \subseteq Claimed
  PROVE  SeatsInv'
BY FewerClaims DEF SeatsInv, HeldAreOpen

LEMMA SameMembers ==
  ASSUME UNCHANGED <<role, strayed>>
  PROVE  Joined' \ strayed' \subseteq Claimed
BY DEF Joined, Claimed

\* Nobody is claimed for beside those whom a complete count has counted.
LEMMA CountSuffices ==
  ASSUME IInv, SeatsInv, NEW s \in Slots, NEW m \in Formed, NEW n, n.by = m.by, n.number = SeatsUsed(m),
         req' = [req EXCEPT ![s] = n], n.passed = 4,
         Claims(n), Complete(m), m.by \in People, invite[m.by] = "open",
         UNCHANGED <<role, invite, strayed>>, HeldAreOpen'
  PROVE  Cardinality(Claimed') <= MaxSeats
<1>1. Claimed' \subseteq m.members \cup Pending
  <2>1. Joined' \ strayed' \subseteq m.members \cup Pending
    BY DEF Complete, Joined
  <2>2. Claiming' \subseteq Pending
    BY DEF Claiming, Claims, HeldAreOpen, Pending
  <2>3. QED BY <2>1, <2>2 DEF Claimed
<1>2. /\ IsFiniteSet(m.members) /\ IsFiniteSet(Pending) /\ SeatsUsed(m) \in Nat
      /\ Cardinality(m.members) \in Nat /\ Cardinality(Pending) \in Nat
  BY SeatsUsedType, SetTypes
<1>3. /\ IsFiniteSet(m.members \cup Pending)
      /\ Cardinality(m.members \cup Pending) =
           Cardinality(m.members) + Cardinality(Pending) - Cardinality(m.members \cap Pending)
  BY <1>2, FS_Union
<1>4. IsFiniteSet(m.members \cap Pending)
  BY <1>2, FS_Subset
<1>5. Cardinality(m.members \cap Pending) \in Nat
  BY <1>4, FS_CardinalityType
<1>6. Cardinality(Claimed') <= Cardinality(m.members \cup Pending) /\ IsFiniteSet(Claimed')
  BY <1>1, <1>3, FS_Subset
<1>7. Cardinality(Claimed') \in Nat
  BY <1>6, FS_CardinalityType
<1>8. Counted(n)
  BY DEF Claims
<1>9. SeatsUsed(m) <= MaxSeats
  BY <1>8 DEF Counted
<1>10. QED BY <1>2, <1>3, <1>5, <1>6, <1>7, <1>9, OrganizationAssumption DEF SeatsUsed

\* A check passes: only the one that reads the invitations makes a claim.
LEMMA SeatsPass ==
  ASSUME IInv, SeatsInv, NEW s \in Slots, NEW m \in Formed,
         m.step = "asked", m.passed < Len(Checks[m.op]), Passes(m, NextCheck(m)),
         m = req[s] \/ (m.passed = 0 /\ ~m.held),
         req' = [req EXCEPT ![s] = Checked(m)], UNCHANGED <<role, invite, offered, seats, strayed>>
  PROVE  SeatsInv'
<1> DEFINE n == Checked(m)
<1>0. /\ m.op \in Operations /\ m.by \in People /\ m.passed \in 0 .. 5 /\ m.held \in BOOLEAN
      /\ m \in Records
      /\ req \in [Slots -> Formed]
  BY DEF IInv, Formed, Records
<1>1. /\ n.op = m.op /\ n.by = m.by /\ n.step = "asked" /\ n.passed = m.passed + 1
      /\ n.held = Noted(m, NextCheck(m)).held
      /\ n.number = Noted(m, NextCheck(m)).number
  BY <1>0, CheckedType
<1>2. \A o \in Slots : req'[o] = IF o = s THEN n ELSE req[o]
  BY <1>0
<1> HIDE DEF n
<1>3. Joined' \ strayed' \subseteq Claimed
  BY DEF Joined, Claimed
<1>4. ASSUME /\ Holds(n) => Holds(req[s]) /\ n.by = req[s].by
             /\ Claims(n) => Claims(req[s])
      PROVE  SeatsInv'
  <2>1. NoNewClaim
    BY <1>2, <1>4 DEF NoNewClaim
  <2>2. HeldAreOpen'
    BY <2>1 DEF NoNewClaim, SeatsInv, HeldAreOpen
  <2>3. QED BY <1>3, <2>1, <2>2, FewerClaims DEF SeatsInv
<1>5. CASE m.op # "accept"
  BY <1>1, <1>4, <1>5 DEF Holds, Claims
<1>6. CASE m.op = "accept" /\ m.passed = 0
  <2>1. NextCheck(m) = "row"
    BY <1>6, AcceptChecks DEF NextCheck
  <2>2. invite[m.by] = "open"
    BY <1>6, <2>1 DEF Passes, RowIsThere
  <2>3. HeldAreOpen'
    BY <1>1, <1>2, <2>2 DEF HeldAreOpen, SeatsInv
  <2>4. n.passed = 1
    BY <1>1, <1>6
  <2>5. ~ Claims(n)
    BY <2>4 DEF Claims, Counted
  <2>6. Claiming' \subseteq Claiming
    BY <1>2, <2>5 DEF Claiming
  <2>7. Claimed' \subseteq Claimed
    BY <1>3, <2>6 DEF Claimed
  <2>8. /\ Cardinality(Claimed') <= Cardinality(Claimed)
        /\ Cardinality(Claimed) \in Nat /\ Cardinality(Claimed') \in Nat
    BY <2>7, SeatSets, FS_Subset, FS_CardinalityType
  <2>9. QED BY <2>3, <2>8, OrganizationAssumption DEF SeatsInv
<1>7. CASE m.op = "accept" /\ m.passed # 0
  <2>0. m = req[s] /\ m.passed \in 1 .. 4 /\ Len(Checks[m.op]) = 5
    BY <1>0, <1>7, AcceptChecks
  <2>1. CASE m.passed \in {1, 2}
    <3>1. NextCheck(m) \in {"apart", "members"} /\ n.passed \in {2, 3}
      BY <1>1, <1>7, <2>1, AcceptChecks DEF NextCheck
    <3>2. n.held = m.held
      BY <1>0, <1>1, <3>1 DEF Noted, Records
    <3>3. Holds(n) => Holds(m)
      BY <1>1, <3>2 DEF Holds
    <3>4. ~ Counted(n)
      BY <3>1 DEF Counted
    <3>5. QED BY <1>1, <1>4, <2>0, <3>3, <3>4 DEF Claims
  <2>2. CASE m.passed = 3
    <3>1. NextCheck(m) = "invites" /\ n.passed = 4
      BY <1>1, <1>7, <2>2, AcceptChecks DEF NextCheck
    <3>2. /\ n.held = (m.held /\ Complete(m))
          /\ n.number = SeatsUsed(m)
      BY <1>0, <1>1, <1>7, <3>1 DEF Noted, Records
    <3>3. Holds(n) => Holds(m) /\ Complete(m)
      BY <1>1, <3>2 DEF Holds
    <3>4. CASE Claims(n)
      <4>1. Holds(m) /\ Complete(m)
        BY <3>3, <3>4 DEF Claims
      <4>2. invite[m.by] = "open"
        BY <2>0, <4>1 DEF SeatsInv, HeldAreOpen
      <4>3. HeldAreOpen'
        BY <1>1, <1>2, <4>2 DEF SeatsInv, HeldAreOpen
      <4>4. req' = [req EXCEPT ![s] = n]
        BY DEF n
      <4>5. QED BY <1>0, <1>1, <3>1, <3>2, <3>4, <4>1, <4>2, <4>3, <4>4, CountSuffices DEF SeatsInv
    <3>5. CASE ~ Claims(n)
      BY <1>1, <1>4, <2>0, <3>3, <3>5
    <3>6. QED BY <3>4, <3>5
  <2>3. CASE m.passed = 4
    <3>1. NextCheck(m) = "limit"
      BY <1>7, <2>3, AcceptChecks DEF NextCheck
    <3>2. n.held = m.held
      BY <1>0, <1>1, <3>1 DEF Noted, Records
    <3>3. Holds(n) => Holds(m)
      BY <1>1, <3>2 DEF Holds
    <3>4. m.number <= seats
      BY <1>7, <3>1 DEF Passes, SeatIsFree
    <3>5. m.number <= MaxSeats
      BY <1>0, <3>4, OrganizationAssumption DEF IInv, OrgTypeOK, Records
    <3>6. Counted(m)
      BY <2>3, <3>5 DEF Counted
    <3>7. QED BY <1>1, <1>4, <2>0, <3>3, <3>6 DEF Claims
  <2>4. QED BY <2>0, <2>1, <2>2, <2>3
<1>8. QED BY <1>5, <1>6, <1>7

LEMMA SeatsCheck ==
  ASSUME IInv, SeatsInv, NEW s \in Slots, Check(s)
  PROVE  SeatsInv'
<1>1. CASE End(s, "refused")
  <2>1. NoNewClaim
    BY <1>1, EndMakesNone DEF Steps
  <2>2. UNCHANGED <<role, invite, strayed>>
    BY DEF Check
  <2>3. QED BY <2>1, <2>2, SeatsKept, SameMembers DEF SeatsInv, HeldAreOpen, NoNewClaim
<1>2. CASE Passes(req[s], NextCheck(req[s])) /\ req' = [req EXCEPT ![s] = Checked(req[s])]
  <2>1. req[s] \in Formed
    BY DEF IInv
  <2>2. /\ req[s].step = "asked" /\ req[s].passed < Len(Checks[req[s].op])
        /\ UNCHANGED <<role, invite, offered, seats, strayed>>
    BY DEF Check
  <2>3. QED BY <1>2, <2>1, <2>2, SeatsPass
<1>3. QED BY <1>1, <1>2 DEF Check

LEMMA SeatsArrive ==
  ASSUME IInv, SeatsInv, NEW s \in Slots, NEW p \in People, NEW m \in Requests, Arrive(s, p, m)
  PROVE  SeatsInv'
<1> DEFINE n == Sent(p, m)
<1>1. /\ n \in Formed /\ n.step = "asked" /\ n.passed = 0 /\ n.held = FALSE
      /\ n.op \in Operations
  BY SentType
<1>2. /\ Passes(n, NextCheck(n)) /\ req' = [req EXCEPT ![s] = Checked(n)]
      /\ UNCHANGED <<role, invite, offered, seats, strayed>>
  BY DEF Arrive
<1> HIDE DEF n
<1>3. n.passed < Len(Checks[n.op])
  BY <1>1, SomeChecks
<1>4. QED BY <1>1, <1>2, <1>3, SeatsPass

LEMMA SeatsWrite ==
  ASSUME IInv, SeatsInv, NEW s \in Slots, Write(s)
  PROVE  SeatsInv'
<1>0. /\ req \in [Slots -> Formed] /\ invite \in [People -> {"none", "open", "expired", "accepted"}]
      /\ role \in [People -> Roles \cup {NoRole, OwnerRole}]
      /\ \A o \in Slots : req[o].by \in People
  BY DEF IInv, OrgTypeOK
<1> USE DEF Steps
<1>1. ASSUME NoNewClaim, UNCHANGED invite, Joined' \ strayed' \subseteq Claimed
      PROVE  SeatsInv'
  BY <1>1, SeatsKept DEF SeatsInv, HeldAreOpen, NoNewClaim
<1>2. CASE WriteInvite(s)
  <2>1. NoNewClaim
    BY <1>2, EndMakesNone DEF WriteInvite
  <2>2. \A o \in Slots : Holds(req'[o]) => invite'[req'[o].by] = "open"
    BY <1>0, <1>2, <2>1 DEF WriteInvite, NoNewClaim, SeatsInv, HeldAreOpen
  <2>3. Joined' \ strayed' \subseteq Claimed
    BY <1>2, SameMembers DEF WriteInvite
  <2>4. QED BY <2>1, <2>2, <2>3, SeatsKept
<1>3. CASE WriteRevoke(s) /\ ~req[s].row
  BY <1>1, <1>3, EndMakesNone, SameMembers DEF WriteRevoke
<1>4. CASE WriteRevoke(s) /\ req[s].row
  <2>1. /\ NoNewClaim
        /\ \A o \in Slots : Holds(req'[o]) => req'[o].by # req[s].who
    BY <1>4, EndWithoutMakesNone DEF WriteRevoke
  <2>2. \A o \in Slots : Holds(req'[o]) => invite'[req'[o].by] = "open"
    BY <1>0, <1>4, <2>1 DEF WriteRevoke, NoNewClaim, SeatsInv, HeldAreOpen
  <2>3. Joined' \ strayed' \subseteq Claimed
    BY <1>4, SameMembers DEF WriteRevoke
  <2>4. QED BY <2>1, <2>2, <2>3, SeatsKept
<1>5. CASE WriteJoin(s)
  <2>1. CASE role[req[s].by] = NoRole /\ req[s].role \in live
    <3>1. req' = [req EXCEPT ![s].step = "joined"]
      BY <1>5, <2>1 DEF WriteJoin
    <3>2. ~ Holds(req'[s])
      BY <1>0, <3>1 DEF Holds, Formed, Records
    <3>3. NoNewClaim
      BY <1>0, <3>1, <3>2 DEF NoNewClaim, Claims
    <3>4. req[s].passed = 5
      BY <1>5, AcceptChecks DEF WriteJoin, Writing
    <3>5. Counted(req[s])
      BY <3>4 DEF Counted
    <3>6. req[s].held => req[s].by \in Claiming
      BY <1>0, <1>5, <3>5 DEF WriteJoin, Writing, Claiming, Claims, Holds
    <3>7. Joined' \ strayed' \subseteq (Joined \ strayed) \cup (IF req[s].held THEN {req[s].by} ELSE {})
      BY <1>0, <1>5, <2>1 DEF WriteJoin, Joined
    <3>8. Joined' \ strayed' \subseteq Claimed
      BY <3>6, <3>7 DEF Claimed
    <3>9. UNCHANGED invite
      BY <1>5 DEF WriteJoin
    <3>10. QED BY <1>1, <3>3, <3>8, <3>9
  <2>2. CASE ~(role[req[s].by] = NoRole /\ req[s].role \in live)
    <3>1. End(s, "refused") /\ UNCHANGED <<role, strayed, invite>>
      BY <1>5, <2>2 DEF WriteJoin
    <3>2. QED BY <3>1, <1>1, EndMakesNone, SameMembers
  <2>3. QED BY <2>1, <2>2
<1>6. CASE MarkAccepted(s)
  <2>1. UNCHANGED <<role, strayed>>
    BY <1>6 DEF MarkAccepted
  <2>2. CASE End(s, IF req[s].row THEN "refused" ELSE "done") /\ UNCHANGED invite
    BY <2>1, <2>2, <1>1, EndMakesNone, SameMembers
  <2>3. CASE /\ invite' = [invite EXCEPT ![req[s].by] = "accepted"]
             /\ req' = [o \in Slots |-> IF o = s THEN Ended(s, "done") ELSE Lapsed(o, {req[s].by})]
    <3>1. ~ Holds(Ended(s, "done"))
      BY <1>0, IdleType DEF Ended, Holds, Formed, Records
    <3>2. \A o \in Slots : Holds(req'[o]) => req'[o] = Lapsed(o, {req[s].by})
      BY <2>3, <3>1
    <3>3. /\ NoNewClaim
          /\ \A o \in Slots : Holds(req'[o]) => req'[o].by # req[s].by
      BY <3>2, LapseMakesNone
    <3>4. \A o \in Slots : Holds(req'[o]) => invite'[req'[o].by] = "open"
      BY <1>0, <2>3, <3>3 DEF NoNewClaim, SeatsInv, HeldAreOpen
    <3>5. QED BY <2>1, <3>3, <3>4, SeatsKept, SameMembers
  <2>4. QED BY <1>6, <2>2, <2>3 DEF MarkAccepted
<1>7. CASE WriteSetRole(s)
  <2>1. NoNewClaim /\ UNCHANGED <<invite, strayed>>
    BY <1>7, EndMakesNone DEF WriteSetRole
  <2>2. Joined' \subseteq Joined
    BY <1>0, <1>7 DEF WriteSetRole, Joined
  <2>3. Joined' \ strayed' \subseteq Claimed
    BY <2>1, <2>2 DEF Claimed
  <2>4. QED BY <1>1, <2>1, <2>3
<1>8. CASE WriteRemove(s)
  <2>1. NoNewClaim /\ UNCHANGED invite
    BY <1>8, EndMakesNone DEF WriteRemove
  <2>2. PICK q : role' = [role EXCEPT ![q] = NoRole] /\ strayed' = strayed \ {q}
    BY <1>8 DEF WriteRemove
  <2>3. Joined' \ strayed' \subseteq Claimed
    BY <1>0, <2>2 DEF Joined, Claimed
  <2>4. QED BY <1>1, <2>1, <2>3
<1>9. CASE WriteRole(s)
  BY <1>1, <1>9, EndMakesNone, SameMembers DEF WriteRole
<1>10. CASE DeleteRole(s)
  <2>1. UNCHANGED <<role, strayed>>
    BY <1>10 DEF DeleteRole
  <2>2. CASE \E m \in People : role[m] = req[s].role
    BY <1>1, <1>10, <2>1, <2>2, EndMakesNone, SameMembers DEF DeleteRole
  <2>3. CASE ~ \E m \in People : role[m] = req[s].role
    <3>1. /\ NoNewClaim
          /\ \A o \in Slots : Holds(req'[o]) => req'[o].by \notin Offered(req[s].role)
      BY <1>10, <2>3, EndWithoutMakesNone DEF DeleteRole
    <3>2. \A q \in People : q \notin Offered(req[s].role) => invite'[q] = invite[q]
      BY <1>10, <2>3 DEF DeleteRole, Cascade
    <3>3. \A o \in Slots : Holds(req'[o]) => invite'[req'[o].by] = "open"
      BY <1>0, <3>1, <3>2 DEF NoNewClaim, SeatsInv, HeldAreOpen
    <3>4. QED BY <2>1, <3>1, <3>3, SeatsKept, SameMembers
  <2>4. QED BY <2>2, <2>3
<1>11. QED BY <1>2, <1>3, <1>4, <1>5, <1>6, <1>7, <1>8, <1>9, <1>10 DEF Write

LEMMA SeatsStep == IInv /\ SeatsInv /\ [OrgStep]_org => SeatsInv'
<1> SUFFICES ASSUME IInv, SeatsInv, [OrgStep]_org PROVE SeatsInv'
  OBVIOUS
<1>1. CASE UNCHANGED <<role, invite, req, strayed>>
  <2>1. NoNewClaim
    BY <1>1 DEF NoNewClaim
  <2>2. QED BY <1>1, <2>1, SeatsKept, SameMembers DEF SeatsInv, HeldAreOpen
<1>2. ASSUME NEW p \in People, InviteExpires(p) PROVE SeatsInv'
  <2>1. \A o \in Slots : req'[o] = Lapsed(o, {p})
    BY <1>2 DEF InviteExpires
  <2>2. /\ NoNewClaim
        /\ \A o \in Slots : Holds(req'[o]) => req'[o].by # p
    BY <2>1, LapseMakesNone
  <2>3. \A o \in Slots : Holds(req'[o]) => invite'[req'[o].by] = "open"
    BY <1>2, <2>2 DEF InviteExpires, NoNewClaim, SeatsInv, HeldAreOpen, IInv, OrgTypeOK
  <2>4. UNCHANGED <<role, strayed>>
    BY <1>2 DEF InviteExpires
  <2>5. QED BY <2>2, <2>3, <2>4, SeatsKept, SameMembers
<1>3. QED BY <1>1, <1>2, SeatsCheck, SeatsArrive, SeatsWrite DEF OrgStep, PlanChanges, org

LEMMA SeatsSuffice == IInv /\ SeatsInv => MembersWithinSeats
<1> SUFFICES ASSUME IInv, SeatsInv PROVE MembersWithinSeats
  OBVIOUS
<1>1. Joined \ strayed \subseteq Claimed
  BY DEF Claimed
<1>2. /\ Cardinality(Joined \ strayed) <= Cardinality(Claimed)
      /\ Cardinality(Joined \ strayed) \in Nat /\ Cardinality(Claimed) \in Nat
  BY <1>1, SeatSets, FS_Subset, FS_CardinalityType
<1>3. QED BY <1>2, OrganizationAssumption DEF SeatsInv, MembersWithinSeats

\* Members who joined on an invitation that was still open, and on a count that
\* missed nobody, never outnumber the seats, whatever handlers ran between the
\* reads and the inserts.
THEOREM SeatsSafety == OrgSpec => []MembersWithinSeats
BY Invariance, SeatsInit, SeatsStep, SeatsSuffice, PTL DEF OrgSpec

-----------------------------------------------------------------------------
(* The page: types *)

PageLoads == [step : {"none", "asked", "membership", "read"}, got : Views]

PageTypeOK ==
  /\ view \in Views
  /\ loads \in [Loads -> PageLoads]
  /\ newest \in Loads /\ current \in BOOLEAN
  /\ gone \subseteq People

\* What it revoked is gone, from the load asked for last and from what that
\* brought.
GoneIsGone ==
  /\ \A p \in gone : invite[p] = "none"
  /\ loads[newest].got.invites \cap gone = {}
  /\ current => view.invites \cap gone = {}

PInv == IInv /\ PageTypeOK /\ GoneIsGone

LEMMA ViewTypes ==
  /\ NoView \in Views /\ NoView.invites = {}
  /\ NoLoad \in PageLoads /\ NoLoad.got.invites = {}
  /\ Unread \in PageLoads /\ Unread.got.invites = {}
<1>1. NoView \in Views /\ NoView.invites = {}
  BY DEF NoView, Views, Catalogue
<1>2. QED BY <1>1 DEF NoLoad, Unread, PageLoads

LEMMA HeldType ==
  ASSUME IInv
  PROVE  Held(Viewer) \in SUBSET Catalogue
BY OrganizationAssumption, WorkspaceAssumption DEF Held, IInv, OrgTypeOK

LEMMA MembershipType ==
  ASSUME IInv
  PROVE  Membership \in Views /\ Membership.invites = {}
<1>1. CASE role[Viewer] = NoRole
  <2>1. Membership = [NoView EXCEPT !.pending = invite[Viewer] = "open"]
    BY <1>1 DEF Membership
  <2>2. QED BY <2>1, ViewTypes DEF Views
<1>2. CASE role[Viewer] # NoRole
  BY <1>2, HeldType DEF Membership, Views
<1>3. QED BY <1>1, <1>2

\* The page's steps leave the server as it is, but for its own requests.
LEMMA OnlyRequests ==
  ASSUME IInv, UNCHANGED <<role, invite, offered, live, grants, seats, strayed>>,
         req' \in [Slots -> Formed]
  PROVE  IInv'
<1>1. RestTypeOK'
  BY Parts DEF RestTypeOK
<1>2. QED BY <1>1, Parts

-----------------------------------------------------------------------------
(* The page: steps *)

LEMMA PageInit == Init => PInv
<1> SUFFICES ASSUME Init PROVE PInv
  OBVIOUS
<1>1. IInv
  BY InvInit DEF Init
<1>2. PageTypeOK
  BY ViewTypes DEF Init, PageTypeOK
<1>3. GoneIsGone
  BY ViewTypes DEF Init, GoneIsGone
<1>4. QED BY <1>1, <1>2, <1>3 DEF PInv

LEMMA ServerKeeps ==
  ASSUME PInv, ServerStep
  PROVE  PInv'
<1>1. IInv'
  BY InvStep DEF PInv, ServerStep
<1>2. UNCHANGED <<view, loads, newest, current>> /\ gone' = {p \in gone : invite'[p] = "none"}
  BY DEF ServerStep
<1>3. PageTypeOK'
  BY <1>2 DEF PInv, PageTypeOK
<1>4. GoneIsGone'
  BY <1>2 DEF PInv, GoneIsGone
<1>5. QED BY <1>1, <1>3, <1>4 DEF PInv

LEMMA ReadKeeps ==
  ASSUME PInv, NEW l \in Loads, ReadMembership(l)
  PROVE  PInv'
<1> DEFINE new == [step |-> "membership", got |-> Membership]
<1>1. UNCHANGED org /\ UNCHANGED <<view, newest, current, gone>> /\ loads' = [loads EXCEPT ![l] = new]
  BY DEF ReadMembership
<1>2. new \in PageLoads /\ new.got.invites = {}
  BY MembershipType DEF PInv, PageLoads
<1> HIDE DEF new
<1>3. IInv'
  BY <1>1 DEF PInv, org, IInv, OrgTypeOK
<1>4. PageTypeOK'
  BY <1>1, <1>2 DEF PInv, PageTypeOK
<1>5. GoneIsGone'
  BY <1>1, <1>2 DEF PInv, PageTypeOK, GoneIsGone, org
<1>6. QED BY <1>3, <1>4, <1>5 DEF PInv

\* What a load reads lists the invitations that are open or have expired.
LEMMA InvitesKeep ==
  ASSUME PInv, NEW l \in Loads, ReadInvites(l)
  PROVE  PInv'
<1> DEFINE got == loads[l].got
<1> DEFINE listed == {p \in People : "members" \in got.held /\ invite[p] \in {"open", "expired"}}
<1> DEFINE new == [step |-> "read", got |-> [got EXCEPT !.invites = listed]]
<1>1. UNCHANGED org /\ UNCHANGED <<view, newest, current, gone>> /\ loads' = [loads EXCEPT ![l] = new]
  BY DEF ReadInvites
<1>2. got \in Views /\ listed \subseteq People
  BY DEF PInv, PageTypeOK, PageLoads
<1>3. listed \cap gone = {}
  BY DEF PInv, GoneIsGone
<1> HIDE DEF got, listed
<1>4. new \in PageLoads /\ new.got.invites = listed
  BY <1>2 DEF PageLoads, Views
<1> HIDE DEF new
<1>5. IInv'
  BY <1>1 DEF PInv, org, IInv, OrgTypeOK
<1>6. PageTypeOK'
  BY <1>1, <1>4 DEF PInv, PageTypeOK
<1>7. GoneIsGone'
  BY <1>1, <1>3, <1>4 DEF PInv, PageTypeOK, GoneIsGone, org
<1>8. QED BY <1>5, <1>6, <1>7 DEF PInv

LEMMA LoadKeeps ==
  ASSUME PInv, NEW l \in Loads, LoadAnswered(l) \/ LoadFails(l)
  PROVE  PInv'
<1>1. /\ UNCHANGED org /\ UNCHANGED <<newest, gone>> /\ loads' = [loads EXCEPT ![l] = NoLoad]
      /\ \/ view' = loads[l].got /\ current' = (l = newest)
         \/ UNCHANGED <<view, current>>
  BY DEF LoadAnswered, LoadFails
<1>2. IInv'
  BY <1>1 DEF PInv, org, IInv, OrgTypeOK
<1>3. PageTypeOK'
  <2>1. loads' \in [Loads -> PageLoads]
    BY <1>1, ViewTypes DEF PInv, PageTypeOK
  <2>2. loads[l].got \in Views
    BY DEF PInv, PageTypeOK, PageLoads
  <2>3. view' \in Views
    BY <1>1, <2>2 DEF PInv, PageTypeOK
  <2>4. current' \in BOOLEAN
    <3>1. CASE current' = (l = newest)
      BY <3>1
    <3>2. CASE UNCHANGED current
      BY <3>2 DEF PInv, PageTypeOK
    <3>3. QED BY <1>1, <3>1, <3>2
  <2>5. newest' \in Loads /\ gone' \subseteq People
    BY <1>1 DEF PInv, PageTypeOK
  <2>6. QED BY <2>1, <2>3, <2>4, <2>5 DEF PageTypeOK
<1>4. loads'[newest'].got.invites \cap gone' = {}
  <2>1. newest \in Loads /\ loads \in [Loads -> PageLoads]
    BY DEF PInv, PageTypeOK
  <2>2. loads'[newest] = IF l = newest THEN NoLoad ELSE loads[newest]
    BY <1>1, <2>1
  <2>3. QED BY <1>1, <2>2, ViewTypes DEF PInv, GoneIsGone
<1>5. current' => view'.invites \cap gone' = {}
  BY <1>1 DEF PInv, GoneIsGone
<1>6. GoneIsGone'
  BY <1>1, <1>4, <1>5 DEF PInv, GoneIsGone, org
<1>7. QED BY <1>2, <1>3, <1>6 DEF PInv

\* A revocation is withdrawn in the step that asks for the load after it.
LEMMA AnsweredKeeps ==
  ASSUME PInv, NEW s \in Slots, Answered(s)
  PROVE  PInv'
<1>1. UNCHANGED <<role, invite, offered, live, grants, seats, strayed, view>>
  BY DEF Answered
<1>2. req' = [req EXCEPT ![s] = Idle] /\ req \in [Slots -> Formed]
  BY DEF PInv, IInv, Answered
<1>3. /\ Withdrawn(s) \subseteq People
      /\ \A p \in Withdrawn(s) : invite[p] = "none"
      /\ req[s].step # "done" => Withdrawn(s) = {}
  BY <1>2 DEF Withdrawn, Formed, Records
<1>4. gone' = gone \cup Withdrawn(s)
  BY DEF Answered
<1>5. req' \in [Slots -> Formed]
  BY <1>2, IdleType
<1>6. IInv'
  BY <1>1, <1>5, OnlyRequests DEF PInv
<1>7. CASE \E l \in Loads : Ask(l)
  <2>1. PICK l \in Loads : Ask(l)
    BY <1>7
  <2>2. loads' = [loads EXCEPT ![l] = Unread] /\ newest' = l /\ current' = FALSE
    BY <2>1 DEF Ask
  <2>3. PageTypeOK'
    BY <1>1, <1>3, <1>4, <2>2, ViewTypes DEF PInv, PageTypeOK
  <2>4. GoneIsGone'
    BY <1>1, <1>3, <1>4, <2>2, ViewTypes DEF PInv, PageTypeOK, GoneIsGone
  <2>5. QED BY <1>6, <2>3, <2>4 DEF PInv
<1>8. CASE req[s].step # "done" /\ UNCHANGED <<loads, newest, current>>
  <2>1. gone' = gone
    BY <1>3, <1>4, <1>8
  <2>2. PageTypeOK' /\ GoneIsGone'
    BY <1>1, <1>8, <2>1 DEF PInv, PageTypeOK, GoneIsGone
  <2>3. QED BY <1>6, <2>2 DEF PInv
<1>9. QED BY <1>7, <1>8 DEF Answered

LEMMA ClickKeeps ==
  ASSUME PInv, NEW s \in Slots, NEW m \in Requests, Click(s, m)
  PROVE  PInv'
<1>1. UNCHANGED <<role, invite, offered, live, grants, seats, strayed, view, loads, newest, current, gone>>
  BY DEF Click, page
<1>2. req' = [req EXCEPT ![s] = Sent(Viewer, m)]
  BY DEF Click
<1>3. req' \in [Slots -> Formed]
  BY <1>2, SentType, WorkspaceAssumption DEF PInv, IInv
<1>4. IInv'
  BY <1>1, <1>3, OnlyRequests DEF PInv
<1>5. PageTypeOK' /\ GoneIsGone'
  BY <1>1 DEF PInv, PageTypeOK, GoneIsGone
<1>6. QED BY <1>4, <1>5 DEF PInv

LEMMA PageStep == PInv /\ [Next]_vars => PInv'
<1> SUFFICES ASSUME PInv, [Next]_vars PROVE PInv'
  OBVIOUS
<1>1. CASE UNCHANGED vars
  BY <1>1 DEF vars, org, page, PInv, IInv, OrgTypeOK, PageTypeOK, GoneIsGone
<1>2. QED BY <1>1, ServerKeeps, ReadKeeps, InvitesKeep, LoadKeeps, AnsweredKeeps, ClickKeeps DEF Next

\* An invitation that the page revoked, and nobody sent again, is off its list
\* once the load asked for last has been answered, however many requests and
\* loads cross and whoever else works in the workspace.
THEOREM PageSafety == Spec => []OwnChangesShow
<1>1. PInv => OwnChangesShow
  BY DEF PInv, GoneIsGone, OwnChangesShow
<1>2. QED BY <1>1, PageInit, PageStep, PTL DEF Spec

-----------------------------------------------------------------------------
(* The page and the workspace *)

\* What the page does to the server is to send a request and to take its answer.
PageOnly ==
  /\ UNCHANGED <<role, invite, offered, live, grants, seats, strayed>>
  /\ \/ UNCHANGED req
     \/ \E s \in Slots : \E m : ~ Holds(m) /\ req' = [req EXCEPT ![s] = m]

LEMMA PageOnlySteps ==
  ASSUME PInv, [Next]_vars
  PROVE  [OrgStep]_org \/ PageOnly
<1>1. CASE ServerStep
  BY <1>1 DEF ServerStep
<1>2. ASSUME NEW l \in Loads, ReadMembership(l) \/ ReadInvites(l) \/ LoadAnswered(l) \/ LoadFails(l)
      PROVE  UNCHANGED org
  BY <1>2 DEF ReadMembership, ReadInvites, LoadAnswered, LoadFails
<1>3. ASSUME NEW s \in Slots, Answered(s) PROVE PageOnly
  <2>1. ~ Holds(Idle)
    BY IdleType DEF Holds
  <2>2. QED BY <1>3, <2>1 DEF Answered, PageOnly
<1>4. ASSUME NEW s \in Slots, NEW m \in Requests, Click(s, m) PROVE PageOnly
  <2>1. Sent(Viewer, m).held = FALSE
    BY SentType, WorkspaceAssumption
  <2>2. ~ Holds(Sent(Viewer, m))
    BY <2>1 DEF Holds
  <2>3. QED BY <1>4, <2>2 DEF Click, PageOnly
<1>5. CASE UNCHANGED vars
  BY <1>5 DEF vars
<1>6. QED BY <1>1, <1>2, <1>3, <1>4, <1>5 DEF Next

LEMMA PageKeepsSeats == PInv /\ SeatsInv /\ [Next]_vars => SeatsInv'
<1> SUFFICES ASSUME PInv, SeatsInv, [Next]_vars PROVE SeatsInv'
  OBVIOUS
<1>0. IInv /\ req \in [Slots -> Formed]
  BY DEF PInv, IInv
<1>1. CASE [OrgStep]_org
  BY <1>0, <1>1, SeatsStep
<1>2. CASE PageOnly
  <2>1. UNCHANGED <<role, invite, strayed>>
    BY <1>2 DEF PageOnly
  <2>2. ASSUME NoNewClaim PROVE SeatsInv'
    BY <1>0, <2>1, <2>2, SeatsKept, SameMembers DEF SeatsInv, HeldAreOpen, NoNewClaim
  <2>3. CASE UNCHANGED req
    BY <2>2, <2>3 DEF NoNewClaim
  <2>4. ASSUME NEW s \in Slots, NEW m, ~ Holds(m), req' = [req EXCEPT ![s] = m]
        PROVE  NoNewClaim
    BY <1>0, <2>4 DEF NoNewClaim, Claims
  <2>5. QED BY <1>2, <2>2, <2>3, <2>4 DEF PageOnly
<1>3. QED BY <1>1, <1>2, PageOnlySteps

LEMMA PageKeepsRoles == PInv /\ RolesInUseAreThere /\ [Next]_vars => RolesInUseAreThere'
<1> SUFFICES ASSUME PInv, RolesInUseAreThere, [Next]_vars PROVE RolesInUseAreThere'
  OBVIOUS
<1>1. CASE [OrgStep]_org
  BY <1>1, RolesStep DEF PInv
<1>2. CASE PageOnly
  BY <1>2 DEF PageOnly, RolesInUseAreThere
<1>3. QED BY <1>1, <1>2, PageOnlySteps

\* The requests of a page, any number at once and checked long after they were
\* clicked, keep what the handlers promise: roles in use are there and members
\* stay within the seats.
THEOREM PageKeepsPromises == Spec => [](RolesInUseAreThere /\ MembersWithinSeats)
<1>1. Init => RolesInUseAreThere /\ SeatsInv
  BY RolesInit, SeatsInit DEF Init
<1>2. PInv /\ SeatsInv => MembersWithinSeats
  BY SeatsSuffice DEF PInv
<1>3. QED
  BY <1>1, <1>2, PageInit, PageStep, PageKeepsSeats, PageKeepsRoles, PTL DEF Spec

-----------------------------------------------------------------------------
(* Billing *)

\* The handlers' records, and what a plan buys.
LEMMA PlanType ==
  ASSUME NEW o \in Orders
  PROVE  Plan[o].tier \in Tiers /\ Plan[o].months \in Nat /\ Plan[o].seats \in Nat
BY BillingAssumption

LEMMA PaidUntilType ==
  ASSUME BillingTypeOK, NEW o \in Orders
  PROVE  /\ PaidUntil(account.until, Plan[o].months) \in Nat
         /\ account.until <= now + credit =>
              PaidUntil(account.until, Plan[o].months) <= now + credit + Plan[o].months
<1>1. account.until \in Nat /\ now \in Nat /\ credit \in Nat
  BY BillingAssumption DEF BillingTypeOK
<1>2. QED BY <1>1, PlanType DEF PaidUntil, Larger

LEMMA AccountAfterType ==
  ASSUME BillingTypeOK, NEW o \in Orders, NEW until \in Nat
  PROVE  /\ AccountAfter(o, until) \in [tier : Tiers, until : Nat, seats : Nat]
         /\ AccountAfter(o, until).until = until
BY PlanType DEF BillingTypeOK, AccountAfter

\* The two ways a claim can go.
LEMMA ClaimCases ==
  ASSUME NEW o \in Orders, NEW c \in Channels, Claim(o, c)
  PROVE  /\ handler[<<o, c>>].at = "claiming"
         /\ UNCHANGED <<captured, account, gift, gifts, now, granted, lost, confirmed, credit, failures>>
         /\ \/ /\ payment[o] = "created"
               /\ payment' = [payment EXCEPT ![o] = "paid"]
               /\ handler' = [handler EXCEPT ![<<o, c>>] =
                              [at |-> "granting", until |-> handler[<<o, c>>].until]]
            \/ /\ payment[o] # "created"
               /\ payment' = payment
               /\ handler' = [handler EXCEPT ![<<o, c>>] = Unclaimed(c)]
<1>1. CASE payment[o] = "created"
  BY <1>1 DEF Claim, admin
<1>2. CASE payment[o] # "created"
  BY <1>2 DEF Claim, admin
<1>3. QED BY <1>1, <1>2

\* A step of one settlement leaves the others where they are.
LEMMA OtherHandlers ==
  ASSUME BillingTypeOK, NEW o \in Orders, NEW c \in Channels, NEW new,
         handler' = [handler EXCEPT ![<<o, c>>] = new]
  PROVE  /\ handler'[<<o, c>>] = new
         /\ \A p \in Orders, d \in Channels :
              p # o \/ d # c => handler'[<<p, d>>] = handler[<<p, d>>]
BY DEF BillingTypeOK

-----------------------------------------------------------------------------
(* Type correctness *)

LEMMA TypeInit == BillingInit => BillingTypeOK
BY BillingAssumption DEF BillingInit, BillingTypeOK, NoSettlement, NoGift, Tiers, Handling

LEMMA TypeStep == BillingTypeOK /\ [BillingNext]_billingVars => BillingTypeOK'
<1> SUFFICES ASSUME BillingTypeOK, [BillingNext]_billingVars PROVE BillingTypeOK'
  OBVIOUS
<1> USE BillingAssumption
<1> DEFINE H == [at : Handling \cup {"idle"}, until : Nat]
<1>0. NoSettlement \in H
  BY DEF NoSettlement
<1>1. CASE UNCHANGED billingVars
  BY <1>1 DEF billingVars, admin, BillingTypeOK
<1>2. ASSUME NEW o \in Orders, Checkout(o) \/ Capture(o) PROVE BillingTypeOK'
  BY <1>2 DEF Checkout, Capture, BillingTypeOK, admin
<1>3. ASSUME NEW o \in Orders, NEW c \in Channels, Begin(o, c) PROVE BillingTypeOK'
  <2>1. [at |-> "claiming", until |-> PaidUntil(account.until, Plan[o].months)] \in H
    BY PaidUntilType DEF Handling
  <2>2. QED BY <1>3, <2>1 DEF Begin, BillingTypeOK, admin
<1>4. ASSUME NEW o \in Orders, NEW c \in Channels, Claim(o, c) PROVE BillingTypeOK'
  <2>1. handler[<<o, c>>] \in H
    BY DEF BillingTypeOK
  <2>2. /\ [at |-> "granting", until |-> handler[<<o, c>>].until] \in H
        /\ [at |-> "rereading", until |-> 0] \in H
    BY <2>1 DEF Handling
  <2>3. Unclaimed(c) \in H
    BY <1>0, <2>2 DEF Unclaimed
  <2>4. handler' \in [Orders \X Channels -> H]
    <3>1. PICK new \in H : handler' = [handler EXCEPT ![<<o, c>>] = new]
      BY <1>4, <2>2, <2>3, ClaimCases
    <3>2. QED BY <3>1 DEF BillingTypeOK
  <2>5. payment' \in [Orders -> {"none", "created", "paid", "failed"}]
    BY <1>4, ClaimCases DEF BillingTypeOK
  <2>6. QED BY <1>4, <2>4, <2>5, ClaimCases DEF BillingTypeOK
<1>5. ASSUME NEW o \in Orders, NEW c \in Channels, Grant(o, c) PROVE BillingTypeOK'
  <2>1. handler[<<o, c>>].until \in Nat
    BY DEF BillingTypeOK
  <2>2. account' \in [tier : Tiers, until : Nat, seats : Nat]
    BY <1>5, <2>1, AccountAfterType DEF Grant
  <2>3. credit' \in Nat
    BY <1>5, PlanType DEF Grant, BillingTypeOK
  <2>4. QED BY <1>0, <1>5, <2>2, <2>3 DEF Grant, Confirmed, BillingTypeOK, admin
<1>6. ASSUME NEW o \in Orders, NEW c \in Channels, Reread(o, c) PROVE BillingTypeOK'
  BY <1>0, <1>6 DEF Reread, BillingTypeOK, admin
<1>7. ASSUME NEW o \in Orders, NEW c \in Channels, Abort(o, c) PROVE BillingTypeOK'
  BY <1>0, <1>7 DEF Abort, BillingTypeOK, admin
<1>8. ASSUME NEW t \in GiftTiers, GiftRead(t) PROVE BillingTypeOK'
  <2>1. account.seats \in Nat
    BY DEF BillingTypeOK
  <2>2. gift' \in [tier : Tiers, seats : Nat \cup {-1}]
    BY <1>8, <2>1 DEF GiftRead
  <2>3. QED BY <1>8, <2>2 DEF GiftRead, BillingTypeOK
<1>9. ASSUME NEW n \in SeatChoices, SetSeats(n) PROVE BillingTypeOK'
  BY <1>9 DEF SetSeats, BillingTypeOK
<1>10. CASE GiftWrite
  <2>1. /\ gift.tier \in Tiers /\ gift.seats \in Nat \cup {-1}
        /\ account.seats \in Nat /\ now \in Nat /\ credit \in Nat
    BY DEF BillingTypeOK
  <2>2. Larger(gift.seats, TeamMinSeats) \in Nat
    BY <2>1 DEF Larger, TeamMinSeats
  <2>3. account' \in [tier : Tiers, until : Nat, seats : Nat]
    BY <1>10, <2>1, <2>2 DEF GiftWrite
  <2>4. NoGift \in [tier : Tiers, seats : Nat \cup {-1}]
    BY DEF NoGift, Tiers
  <2>5. credit' \in Nat
    BY <1>10, <2>1 DEF GiftWrite
  <2>6. QED BY <1>10, <2>3, <2>4, <2>5 DEF GiftWrite, BillingTypeOK
<1>11. CASE Tick
  BY <1>11 DEF Tick, BillingTypeOK, admin
<1>12. QED
  BY <1>1, <1>2, <1>3, <1>4, <1>5, <1>6, <1>7, <1>8, <1>9, <1>10, <1>11 DEF BillingNext, Settle

\* Every variable keeps its type: no row gets a status the payments table
\* refuses, no date and no seat count becomes negative.
THEOREM BillingTypeCorrect == BillingSpec => []BillingTypeOK
BY TypeInit, TypeStep, PTL DEF BillingSpec

-----------------------------------------------------------------------------
(* Where an order that is marked paid is *)

\* Every other step leaves it there: a claim marks its order paid and puts its
\* own handler on the way, and that handler takes it off the way only by the
\* grant or by its death.
LEMMA AccountedStep ==
  ASSUME BillingTypeOK, Settlements, Ghosts, OneGrantPerPayment, PaidIsAccountedFor,
         [BillingNext]_billingVars
  PROVE  PaidIsAccountedFor'
<1> DEFINE Kept(p) ==
      /\ payment'[p] = "paid" => payment[p] = "paid"
      /\ \A d \in Channels : handler'[<<p, d>>].at = "granting" <=> handler[<<p, d>>].at = "granting"
      /\ p \in granted' <=> p \in granted
      /\ p \in lost' <=> p \in lost
    Good(p) ==
      /\ payment'[p] = "paid" => p \in granted' \/ Granting(p)' \/ p \in lost'
      /\ p \in lost' => p \notin granted' /\ ~Granting(p)'
<1> SUFFICES ASSUME NEW p \in Orders PROVE Good(p)
  BY DEF PaidIsAccountedFor
<1>1. ASSUME Kept(p) PROVE Good(p)
  <2>1. Granting(p)' <=> Granting(p)
    BY <1>1 DEF Granting
  <2>2. QED BY <1>1, <2>1 DEF PaidIsAccountedFor
<1>2. CASE UNCHANGED <<payment, handler, granted, lost>>
  BY <1>1, <1>2
<1>3. ASSUME NEW o \in Orders, Checkout(o) PROVE Good(p)
  <2>1. Kept(p)
    BY <1>3 DEF Checkout, BillingTypeOK
  <2>2. QED BY <1>1, <2>1
<1>4. ASSUME NEW o \in Orders, NEW c \in Channels, NEW new,
             handler[<<o, c>>].at # "granting", new.at # "granting",
             handler' = [handler EXCEPT ![<<o, c>>] = new],
             UNCHANGED <<payment, granted, lost>>
      PROVE  Good(p)
  <2>1. \A d \in Channels :
          handler'[<<p, d>>].at = "granting" <=> handler[<<p, d>>].at = "granting"
    BY <1>4, OtherHandlers
  <2>2. QED BY <1>1, <1>4, <2>1
<1>5. ASSUME NEW o \in Orders, NEW c \in Channels, Begin(o, c) \/ Reread(o, c) PROVE Good(p)
  <2>1. CASE Begin(o, c)
    <3>1. handler[<<o, c>>].at # "granting" /\ UNCHANGED <<payment, granted, lost>>
      BY <2>1 DEF Begin, NoSettlement
    <3> DEFINE new == [at |-> "claiming", until |-> PaidUntil(account.until, Plan[o].months)]
    <3>2. handler' = [handler EXCEPT ![<<o, c>>] = new] /\ new.at # "granting"
      BY <2>1 DEF Begin
    <3> HIDE DEF new
    <3>3. QED BY <1>4, <3>1, <3>2
  <2>2. CASE Reread(o, c)
    <3>1. /\ handler[<<o, c>>].at # "granting" /\ UNCHANGED <<payment, granted, lost>>
          /\ handler' = [handler EXCEPT ![<<o, c>>] = NoSettlement]
      BY <2>2 DEF Reread
    <3>2. NoSettlement.at # "granting"
      BY DEF NoSettlement
    <3>3. QED BY <1>4, <3>1, <3>2
  <2>3. QED BY <1>5, <2>1, <2>2
<1>6. ASSUME NEW o \in Orders, NEW c \in Channels, Claim(o, c) PROVE Good(p)
  <2>1. CASE payment[o] = "created"
    <3>1. /\ payment' = [payment EXCEPT ![o] = "paid"] /\ UNCHANGED <<granted, lost>>
          /\ handler' = [handler EXCEPT ![<<o, c>>] =
                          [at |-> "granting", until |-> handler[<<o, c>>].until]]
      BY <1>6, <2>1, ClaimCases
    <3>2. CASE p = o
      <4>1. handler'[<<o, c>>] = [at |-> "granting", until |-> handler[<<o, c>>].until]
        BY <3>1, OtherHandlers
      <4>2. p \notin lost'
        BY <2>1, <3>1, <3>2 DEF Ghosts
      <4>3. QED BY <3>2, <4>1, <4>2 DEF Granting
    <3>3. CASE p # o
      <4>1. \A d \in Channels : handler'[<<p, d>>] = handler[<<p, d>>]
        BY <3>1, <3>3, OtherHandlers
      <4>2. payment'[p] = payment[p]
        BY <3>1, <3>3 DEF BillingTypeOK
      <4>3. QED BY <1>1, <3>1, <4>1, <4>2
    <3>4. QED BY <3>2, <3>3
  <2>2. CASE payment[o] # "created"
    <3>1. Unclaimed(c).at # "granting"
      BY DEF Unclaimed, NoSettlement
    <3>2. /\ handler[<<o, c>>].at # "granting"
          /\ handler' = [handler EXCEPT ![<<o, c>>] = Unclaimed(c)]
          /\ UNCHANGED <<payment, granted, lost>>
      BY <1>6, <2>2, ClaimCases
    <3>3. QED BY <1>4, <3>1, <3>2
  <2>3. QED BY <2>1, <2>2
<1>7. ASSUME NEW o \in Orders, NEW c \in Channels,
             handler[<<o, c>>].at = "granting",
             handler' = [handler EXCEPT ![<<o, c>>] = NoSettlement], payment' = payment,
             \/ granted' = granted \cup {o} /\ lost' = lost
             \/ lost' = lost \cup {o} /\ granted' = granted
      PROVE  Good(p)
  <2>1. CASE p = o
    <3>1. o \notin granted /\ o \notin lost
      BY <1>7 DEF OneGrantPerPayment, PaidIsAccountedFor, Granting
    <3>2. \A d \in Channels : handler'[<<o, d>>].at # "granting"
      <4>1. \A d \in Channels : d # c => handler[<<o, d>>].at # "granting"
        BY <1>7 DEF OneGrantPerPayment
      <4>2. NoSettlement.at # "granting"
        BY DEF NoSettlement
      <4>3. /\ handler'[<<o, c>>] = NoSettlement
            /\ \A d \in Channels : d # c => handler'[<<o, d>>] = handler[<<o, d>>]
        BY <1>7 DEF BillingTypeOK
      <4>4. QED BY <4>1, <4>2, <4>3
    <3>3. QED BY <1>7, <2>1, <3>1, <3>2 DEF Granting
  <2>2. CASE p # o
    <3>1. \A d \in Channels : handler'[<<p, d>>] = handler[<<p, d>>]
      BY <1>7, <2>2, OtherHandlers
    <3>2. QED BY <1>1, <1>7, <2>2, <3>1
  <2>3. QED BY <2>1, <2>2
<1>8. ASSUME NEW o \in Orders, NEW c \in Channels, Grant(o, c) PROVE Good(p)
  BY <1>7, <1>8 DEF Grant
<1>9. ASSUME NEW o \in Orders, NEW c \in Channels, Abort(o, c) PROVE Good(p)
  <2>1. CASE handler[<<o, c>>].at = "granting"
    BY <1>7, <1>9, <2>1 DEF Abort
  <2>2. CASE handler[<<o, c>>].at # "granting"
    <3>1. NoSettlement.at # "granting"
      BY DEF NoSettlement
    <3>2. QED BY <1>4, <1>9, <2>2, <3>1 DEF Abort
  <2>3. QED BY <2>1, <2>2
<1>10. CASE UNCHANGED billingVars
  BY <1>2, <1>10 DEF billingVars
<1>11. ASSUME NEW o \in Orders, Capture(o) PROVE Good(p)
  BY <1>2, <1>11 DEF Capture
<1>12. ASSUME NEW t \in GiftTiers, GiftRead(t) PROVE Good(p)
  BY <1>2, <1>12 DEF GiftRead
<1>13. ASSUME NEW n \in SeatChoices, SetSeats(n) PROVE Good(p)
  BY <1>2, <1>13 DEF SetSeats
<1>14. CASE GiftWrite \/ Tick
  BY <1>2, <1>14 DEF GiftWrite, Tick
<1> HIDE DEF Good
<1>15. QED
  BY <1>3, <1>5, <1>6, <1>8, <1>9, <1>10, <1>11, <1>12, <1>13, <1>14 DEF BillingNext, Settle

-----------------------------------------------------------------------------
(* The inductive invariant *)

LEMMA BillingInvInit == BillingInit => BillingInv
<1> SUFFICES ASSUME BillingInit PROVE BillingInv
  OBVIOUS
<1>1. BillingTypeOK
  BY TypeInit
<1>2. Settlements /\ OneGrantPerPayment
  BY DEF BillingInit, Settlements, OneGrantPerPayment, Granting, NoSettlement
<1>3. Ghosts /\ NoUnpaidTime /\ PaidIsAccountedFor
  BY DEF BillingInit, Ghosts, NoUnpaidTime, PaidIsAccountedFor
<1>4. QED BY <1>1, <1>2, <1>3 DEF BillingInv

LEMMA BillingInvStep == BillingInv /\ [BillingNext]_billingVars => BillingInv'
<1> SUFFICES ASSUME BillingInv, [BillingNext]_billingVars PROVE BillingInv'
  OBVIOUS
<1> USE BillingAssumption
<1>0. BillingTypeOK /\ BillingTypeOK'
  BY TypeStep DEF BillingInv
<1>a. PaidIsAccountedFor'
  BY AccountedStep DEF BillingInv
<1>1. CASE UNCHANGED billingVars
  <2>1. Settlements' /\ OneGrantPerPayment'
    BY <1>1 DEF billingVars, admin, BillingInv, Settlements, OneGrantPerPayment, Granting
  <2>2. Ghosts' /\ NoUnpaidTime'
    BY <1>1 DEF billingVars, admin, BillingInv, Ghosts, NoUnpaidTime
  <2>3. QED BY <1>0, <1>a, <2>1, <2>2 DEF BillingInv
<1>2. ASSUME NEW o \in Orders, Checkout(o) \/ Capture(o) PROVE BillingInv'
  <2>1. Settlements' /\ Ghosts'
    BY <1>0, <1>2 DEF Checkout, Capture, BillingInv, BillingTypeOK, Settlements, Ghosts
  <2>2. OneGrantPerPayment' /\ NoUnpaidTime'
    BY <1>2 DEF Checkout, Capture, BillingInv, OneGrantPerPayment, Granting, NoUnpaidTime
  <2>3. QED BY <1>0, <1>a, <2>1, <2>2 DEF BillingInv
<1>3. ASSUME NEW o \in Orders, NEW c \in Channels, Begin(o, c) PROVE BillingInv'
  <2>1. Settlements'
    BY <1>0, <1>3, PaidUntilType DEF Begin, BillingInv, BillingTypeOK, Settlements, NoUnpaidTime
  <2>2. OneGrantPerPayment'
    BY <1>0, <1>3 DEF Begin, BillingInv, BillingTypeOK, OneGrantPerPayment, Granting
  <2>3. Ghosts' /\ NoUnpaidTime'
    BY <1>3 DEF Begin, BillingInv, Ghosts, NoUnpaidTime
  <2>4. QED BY <1>0, <1>a, <2>1, <2>2, <2>3 DEF BillingInv
<1>4. ASSUME NEW o \in Orders, NEW c \in Channels, Claim(o, c) PROVE BillingInv'
  <2>1. CASE payment[o] = "created"
    <3>1. /\ payment' = [payment EXCEPT ![o] = "paid"]
          /\ handler' = [handler EXCEPT ![<<o, c>>] =
                          [at |-> "granting", until |-> handler[<<o, c>>].until]]
          /\ handler[<<o, c>>].at = "claiming"
          /\ UNCHANGED <<captured, account, now, granted, lost, confirmed, credit>>
      BY <1>4, <2>1 DEF Claim
    <3>2. o \notin granted /\ ~Granting(o)
      BY <2>1 DEF BillingInv, Ghosts, Settlements, Granting
    <3>3. Settlements'
      BY <1>0, <3>1 DEF BillingInv, BillingTypeOK, Settlements
    <3>4. OneGrantPerPayment'
      <4>1. \A p \in Orders, d \in Channels :
              handler'[<<p, d>>].at = "granting" =>
                handler[<<p, d>>].at = "granting" \/ (p = o /\ d = c)
        BY <1>0, <3>1 DEF BillingTypeOK
      <4>2. ASSUME NEW p \in Orders, p \in granted' PROVE p \in captured' /\ ~Granting(p)'
        <5>1. p \in captured /\ ~Granting(p) /\ p # o
          BY <3>1, <3>2, <4>2 DEF BillingInv, OneGrantPerPayment
        <5>2. QED BY <3>1, <4>1, <5>1 DEF Granting
      <4>3. ASSUME NEW p \in Orders, NEW d \in Channels, NEW e \in Channels,
                   handler'[<<p, d>>].at = "granting", handler'[<<p, e>>].at = "granting"
            PROVE  d = e
        <5>1. CASE p = o
          BY <3>2, <4>1, <4>3, <5>1 DEF Granting
        <5>2. CASE p # o
          BY <4>1, <4>3, <5>2 DEF BillingInv, OneGrantPerPayment
        <5>3. QED BY <5>1, <5>2
      <4>4. QED BY <4>2, <4>3 DEF OneGrantPerPayment
    <3>5. Ghosts' /\ NoUnpaidTime'
      BY <1>0, <3>1 DEF BillingInv, BillingTypeOK, Ghosts, NoUnpaidTime
    <3>6. QED BY <1>0, <1>a, <3>3, <3>4, <3>5 DEF BillingInv
  <2>2. CASE payment[o] # "created"
    <3>1. /\ handler' = [handler EXCEPT ![<<o, c>>] = Unclaimed(c)]
          /\ handler[<<o, c>>].at = "claiming"
          /\ UNCHANGED <<payment, captured, account, now, granted, lost, confirmed, credit>>
      BY <1>4, <2>2 DEF Claim
    <3>2. Unclaimed(c).at \in {"idle", "rereading"}
      BY DEF Unclaimed, NoSettlement
    <3>3. Settlements'
      BY <1>0, <3>1, <3>2 DEF BillingInv, BillingTypeOK, Settlements
    <3>4. OneGrantPerPayment'
      BY <1>0, <3>1, <3>2 DEF BillingInv, BillingTypeOK, OneGrantPerPayment, Granting
    <3>5. Ghosts' /\ NoUnpaidTime'
      BY <3>1 DEF BillingInv, Ghosts, NoUnpaidTime
    <3>6. QED BY <1>0, <1>a, <3>3, <3>4, <3>5 DEF BillingInv
  <2>3. QED BY <2>1, <2>2
<1>5. ASSUME NEW o \in Orders, NEW c \in Channels, Grant(o, c) PROVE BillingInv'
  <2>1. /\ handler[<<o, c>>].at = "granting" /\ handler[<<o, c>>].until \in Nat
        /\ handler' = [handler EXCEPT ![<<o, c>>] = NoSettlement]
        /\ granted' = granted \cup {o}
        /\ confirmed' \subseteq confirmed \cup {o}
        /\ account'.until = handler[<<o, c>>].until
        /\ UNCHANGED <<payment, captured, now, lost>>
    BY <1>0, <1>5, AccountAfterType DEF Grant, Confirmed, BillingTypeOK
  <2>2. /\ o \notin granted /\ o \in captured /\ payment[o] = "paid"
        /\ \A d \in Channels : d # c => handler[<<o, d>>].at # "granting"
        /\ handler[<<o, c>>].until <= now + credit + Plan[o].months
    BY <2>1 DEF BillingInv, Settlements, OneGrantPerPayment, Granting
  <2>3. credit' = credit + Plan[o].months /\ now \in Nat /\ credit \in Nat /\ Plan[o].months \in Nat
    BY <1>0, <1>5, <2>2, PlanType DEF Grant, BillingTypeOK
  <2>4. Settlements'
    <3> SUFFICES ASSUME NEW p \in Orders, NEW d \in Channels
                 PROVE  /\ handler'[<<p, d>>].at # "idle" => p \in captured'
                        /\ handler'[<<p, d>>].at \in {"claiming", "granting"} =>
                             handler'[<<p, d>>].until <= now' + credit' + Plan[p].months
                        /\ handler'[<<p, d>>].at = "granting" => payment'[p] = "paid"
      BY DEF Settlements
    <3>1. CASE <<p, d>> = <<o, c>>
      BY <1>0, <2>1, <3>1 DEF BillingTypeOK, NoSettlement
    <3>2. CASE <<p, d>> # <<o, c>>
      <4>1. handler'[<<p, d>>] = handler[<<p, d>>] /\ handler[<<p, d>>].until \in Nat
        BY <1>0, <2>1, <3>2 DEF BillingTypeOK
      <4>2. QED BY <2>1, <2>3, <4>1, PlanType DEF BillingInv, Settlements
    <3>3. QED BY <3>1, <3>2
  <2>5. OneGrantPerPayment'
    <3>1. handler'[<<o, c>>].at = "idle"
      <4>1. handler'[<<o, c>>] = NoSettlement
        BY <1>0, <2>1 DEF BillingTypeOK
      <4>2. QED BY <4>1 DEF NoSettlement
    <3>2. \A p \in Orders, d \in Channels :
            ~(p = o /\ d = c) => handler'[<<p, d>>] = handler[<<p, d>>]
      BY <1>0, <2>1 DEF BillingTypeOK
    <3>3. \A p \in Orders, d \in Channels :
            handler'[<<p, d>>].at = "granting" =>
              handler[<<p, d>>].at = "granting" /\ p # o
      BY <2>2, <3>1, <3>2
    <3>4. ~Granting(o)'
      BY <3>3 DEF Granting
    <3>5. \A p \in Orders : p # o /\ Granting(p)' => Granting(p)
      BY <3>3 DEF Granting
    <3>6. QED BY <2>1, <2>2, <3>3, <3>4, <3>5 DEF BillingInv, OneGrantPerPayment
  <2>6. Ghosts'
    BY <2>1, <2>2 DEF BillingInv, Ghosts
  <2>7. NoUnpaidTime'
    BY <2>1, <2>2, <2>3 DEF NoUnpaidTime
  <2>8. QED BY <1>0, <1>a, <2>4, <2>5, <2>6, <2>7 DEF BillingInv
<1>6. ASSUME NEW o \in Orders, NEW c \in Channels, Reread(o, c) \/ Abort(o, c) PROVE BillingInv'
  <2>1. /\ handler' = [handler EXCEPT ![<<o, c>>] = NoSettlement]
        /\ confirmed' = confirmed \/ (confirmed' = confirmed \cup {o} /\ payment[o] = "paid")
        /\ UNCHANGED <<payment, captured, account, now, granted, credit>>
        /\ lost' = lost \/ (lost' = lost \cup {o} /\ handler[<<o, c>>].at = "granting")
    BY <1>6 DEF Reread, Abort
  <2>2. Settlements'
    BY <1>0, <2>1 DEF BillingInv, BillingTypeOK, Settlements, NoSettlement
  <2>3. OneGrantPerPayment'
    BY <1>0, <2>1 DEF BillingInv, BillingTypeOK, OneGrantPerPayment, Granting, NoSettlement
  <2>4. Ghosts' /\ NoUnpaidTime'
    BY <2>1 DEF BillingInv, Settlements, Ghosts, NoUnpaidTime
  <2>5. QED BY <1>0, <1>a, <2>2, <2>3, <2>4 DEF BillingInv
<1>7. ASSUME NEW t \in GiftTiers, GiftRead(t) PROVE BillingInv'
  <2>1. UNCHANGED <<payment, captured, account, handler, now, granted, lost, confirmed, credit>>
    BY <1>7 DEF GiftRead
  <2>2. Settlements' /\ OneGrantPerPayment'
    BY <2>1 DEF BillingInv, Settlements, OneGrantPerPayment, Granting
  <2>3. Ghosts' /\ NoUnpaidTime'
    BY <2>1 DEF BillingInv, Ghosts, NoUnpaidTime
  <2>4. QED BY <1>0, <1>a, <2>2, <2>3 DEF BillingInv
<1>8. ASSUME NEW n \in SeatChoices, SetSeats(n) PROVE BillingInv'
  <2>1. /\ UNCHANGED <<payment, captured, handler, now, granted, lost, confirmed, credit>>
        /\ account'.until = account.until
    BY <1>0, <1>8 DEF SetSeats, BillingTypeOK
  <2>2. Settlements' /\ OneGrantPerPayment'
    BY <2>1 DEF BillingInv, Settlements, OneGrantPerPayment, Granting
  <2>3. Ghosts' /\ NoUnpaidTime'
    BY <2>1 DEF BillingInv, Ghosts, NoUnpaidTime
  <2>4. QED BY <1>0, <1>a, <2>2, <2>3 DEF BillingInv
<1>9. ASSUME GiftWrite \/ Tick PROVE BillingInv'
  <2>1. /\ UNCHANGED <<payment, captured, handler, granted, lost, confirmed>>
        /\ now \in Nat /\ credit \in Nat /\ now' \in Nat /\ credit' \in Nat
        /\ now + credit <= now' + credit'
    <3>1. now \in Nat /\ credit \in Nat
      BY <1>0 DEF BillingTypeOK
    <3>2. CASE GiftWrite
      BY <3>1, <3>2 DEF GiftWrite
    <3>3. CASE Tick
      BY <3>1, <3>3 DEF Tick, admin
    <3>4. QED BY <1>9, <3>2, <3>3
  <2>2. Settlements'
    <3> SUFFICES ASSUME NEW p \in Orders, NEW d \in Channels,
                        handler[<<p, d>>].at \in {"claiming", "granting"}
                 PROVE  handler[<<p, d>>].until <= now' + credit' + Plan[p].months
      BY <2>1 DEF BillingInv, Settlements
    <3>1. handler[<<p, d>>].until \in Nat
      BY <1>0 DEF BillingTypeOK
    <3>2. handler[<<p, d>>].until <= now + credit + Plan[p].months /\ Plan[p].months \in Nat
      BY PlanType DEF BillingInv, Settlements
    <3>3. QED BY <2>1, <3>1, <3>2
  <2>3. OneGrantPerPayment' /\ Ghosts'
    BY <2>1 DEF BillingInv, OneGrantPerPayment, Granting, Ghosts
  <2>4. NoUnpaidTime'
    <3>1. CASE Tick
      BY <1>0, <2>1, <3>1 DEF Tick, BillingInv, NoUnpaidTime, BillingTypeOK
    <3>2. CASE GiftWrite /\ gift.tier = "free"
      BY <2>1, <3>2 DEF GiftWrite, NoUnpaidTime
    <3>3. CASE GiftWrite /\ gift.tier # "free"
      <4>1. account'.until = now + GiftMonths /\ credit' = credit + GiftMonths /\ now' = now
        BY <3>3 DEF GiftWrite
      <4>2. QED BY <2>1, <4>1 DEF NoUnpaidTime
    <3>4. QED BY <1>9, <3>1, <3>2, <3>3
  <2>5. QED BY <1>0, <1>a, <2>2, <2>3, <2>4 DEF BillingInv
<1>10. QED
  BY <1>1, <1>2, <1>3, <1>4, <1>5, <1>6, <1>7, <1>8, <1>9 DEF BillingNext, Settle

LEMMA BillingInvariance == BillingSpec => []BillingInv
BY BillingInvInit, BillingInvStep, PTL DEF BillingSpec

\* However many verifies and webhooks race for an order, it is granted at most
\* once, and only after it was paid for.
THEOREM GrantSafety == BillingSpec => []OneGrantPerPayment
<1>1. BillingInv => OneGrantPerPayment
  BY DEF BillingInv
<1>2. QED BY BillingInvariance, <1>1, PTL

\* Nobody's plan reaches further than today and the months that were bought
\* or given, whichever stale readings the settlements wrote from.
THEOREM TimeSafety == BillingSpec => []NoUnpaidTime
<1>1. BillingInv => NoUnpaidTime
  BY DEF BillingInv
<1>2. QED BY BillingInvariance, <1>1, PTL

\* An order marked paid is granted, or its claimer is on the way, or it is lost
\* with its claimer; and an order is lost in no other way.
THEOREM HonourSafety == BillingSpec => []PaidIsAccountedFor
<1>1. BillingInv => PaidIsAccountedFor
  BY DEF BillingInv
<1>2. QED BY BillingInvariance, <1>1, PTL

\* So is an order that /verify answered "ok" for.
THEOREM ConfirmedSafety == BillingSpec => []ConfirmedIsHonoured
<1>1. BillingInv => ConfirmedIsHonoured
  BY DEF BillingInv, Ghosts, PaidIsAccountedFor, ConfirmedIsHonoured
<1>2. QED BY BillingInvariance, <1>1, PTL
=============================================================================
