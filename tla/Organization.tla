---------------------------- MODULE Organization ----------------------------
(***************************************************************************)
(* One workspace on the server (controllers/org_controller.py): members,   *)
(* invitations and roles, and the seats of the owner's plan.  A handler    *)
(* makes its checks one await after the other and then writes; other       *)
(* handlers run in between, and the constraints of migration 0035 are what *)
(* holds at the write.  The caller's membership, with its role, is taken   *)
(* as one read.                                                            *)
(***************************************************************************)
EXTENDS Naturals, Sequences, FiniteSets

CONSTANTS
  People,
  Owner,
  Roles,       \* ids of roles other than the owner's
  Grants,      \* sets of permissions that a role is given
  NoRole,      \* not a member
  OwnerRole,
  MaxSeats,    \* seats while the owner's Team plan is active; 1 otherwise
  Slots,       \* bound: the requests that are answered at once
  Pages,       \* those that come from the page that is modelled, if any
  Elsewhere    \* bound: the operations that others ask for

Catalogue == {"members", "roles"}

ASSUME OrganizationAssumption ==
  /\ Owner \in People /\ IsFiniteSet(People)
  /\ Grants \subseteq SUBSET Catalogue /\ {} \in Grants
  /\ NoRole \notin Roles /\ OwnerRole \notin Roles /\ NoRole # OwnerRole
  /\ MaxSeats \in Nat \ {0}
  /\ Pages \subseteq Slots

VARIABLES
  role,     \* organization_members: the role of each person
  invite,   \* organization_invites: one row per address
  offered,  \* role_id of the row
  live,     \* organization_roles
  grants,   \* their permissions
  seats,    \* seat_limit(owner)
  req,      \* the requests: by whom, what, and how far the handler is
  strayed   \* ghost: people who joined though they no longer held an invitation

org == <<role, invite, offered, live, grants, seats, req, strayed>>

\* What each handler checks, a read at a time, before it writes.
Checks ==
  [invite      |-> <<"may", "role", "limit", "members", "invites">>,
   revoke      |-> <<"may", "row">>,
   accept      |-> <<"row", "apart", "members", "invites", "limit">>,
   set_role    |-> <<"may", "role">>,
   remove      |-> <<"may", "row">>,
   leave       |-> <<"may">>,
   create_role |-> <<"may">>,
   update_role |-> <<"may", "role">>,
   delete_role |-> <<"may", "role", "unused">>]

Operations == DOMAIN Checks

\* passed: how many of its checks; members and number: what the seats are
\* counted from; row: the row of the invitation is still there; held (a
\* ghost): it has been open since it was read, and the count missed nobody.
Idle == [by |-> Owner, op |-> "none", who |-> Owner, role |-> NoRole, give |-> {}, step |-> "none",
         passed |-> 0, members |-> {}, number |-> 0, row |-> FALSE, held |-> FALSE]

OrgTypeOK ==
  /\ role \in [People -> Roles \cup {NoRole, OwnerRole}]
  /\ invite \in [People -> {"none", "open", "expired", "accepted"}]
  /\ offered \in [People -> Roles \cup {NoRole}]
  /\ live \subseteq Roles
  /\ grants \in [Roles -> Grants]
  /\ seats \in {1, MaxSeats}
  /\ req \in [Slots -> [by : People, op : Operations \cup {"none"}, who : People,
                        role : Roles \cup {NoRole}, give : Grants, row : BOOLEAN, held : BOOLEAN,
                        passed : 0 .. 5, members : SUBSET People, number : Nat,
                        step : {"none", "asked", "joined", "done", "refused"}]]
  /\ strayed \subseteq People

\* A workspace as create_organization leaves it, its owner on Team.
OrgInit ==
  /\ role = [p \in People |-> IF p = Owner THEN OwnerRole ELSE NoRole]
  /\ invite = [p \in People |-> "none"]
  /\ offered = [p \in People |-> NoRole]
  /\ live = Roles
  /\ grants \in [Roles -> Grants]
  /\ seats = MaxSeats
  /\ req = [s \in Slots |-> Idle]
  /\ strayed = {}

Joined == {p \in People : role[p] # NoRole}
Pending == {p \in People : invite[p] = "open"}

\* held_by: the owner holds the catalogue whatever their role says.
Held(p) ==
  IF p = Owner THEN Catalogue
  ELSE IF role[p] \in Roles THEN grants[role[p]] ELSE {}

-----------------------------------------------------------------------------
(* What a handler checks *)

Manages(p) == "members" \in Held(p)

\* The caller's permission, and what is known without another read.
May(m) ==
  CASE m.op \in {"create_role", "update_role", "delete_role"} -> "roles" \in Held(m.by)
    [] m.op = "leave" -> m.by # Owner /\ role[m.by] # NoRole
    [] OTHER -> Manages(m.by) /\ (m.op \in {"set_role", "remove"} => m.who # Owner)

RowIsThere(m) ==
  CASE m.op = "accept" -> invite[m.by] = "open"
    [] m.op = "revoke" -> invite[m.who] # "none"
    [] OTHER -> role[m.who] # NoRole

\* seats_used: the members as they were read, then the invitations that can
\* still be accepted.
SeatsUsed(m) == Cardinality(m.members) + Cardinality(Pending)

\* Mutated form of SeatIsFree: the seats were checked when it was sent.
SeatIsFree_AsInvited(m) == m.op = "invite" => SeatsUsed(m) < m.number

\* An invitation needs a seat beyond those in use, an acceptance has its own
\* among them: it counts first and reads the limit then.
SeatIsFree(m) == IF m.op = "invite" THEN SeatsUsed(m) < m.number ELSE m.number <= seats

Passes(m, check) ==
  CASE check = "may"     -> May(m)
    [] check = "role"    -> m.role \in live
    [] check = "row"     -> RowIsThere(m)
    [] check = "apart"   -> role[m.by] = NoRole
    [] check = "unused"  -> \A p \in People : role[p] # m.role
    [] check = "members" -> TRUE
    [] check = "invites" -> m.op = "invite" => SeatIsFree(m)
    [] check = "limit"   -> m.op = "accept" => SeatIsFree(m)

\* The count missed nobody: who has joined was read as a member or still is
\* among the invitations.
Complete(m) == Joined \ strayed \subseteq m.members \cup Pending

\* What is kept of a read for later.
Noted(m, check) ==
  CASE check = "row" /\ m.op = "accept" -> [m EXCEPT !.role = offered[m.by], !.row = TRUE, !.held = TRUE]
    [] check = "row" /\ m.op = "revoke" -> [m EXCEPT !.row = TRUE]
    [] check = "members" -> [m EXCEPT !.members = Joined]
    [] check = "invites" -> [m EXCEPT !.members = {}, !.held = m.held /\ Complete(m),
                                      !.number = IF m.op = "accept" THEN SeatsUsed(m) ELSE 0]
    [] check = "limit"   -> [m EXCEPT !.number = IF m.op = "accept" THEN 0 ELSE seats]
    [] OTHER -> m

\* An answer: the page reads its own.
Ended(s, step) == IF s \in Pages THEN [req[s] EXCEPT !.step = step] ELSE Idle
End(s, step)   == req' = [req EXCEPT ![s] = Ended(s, step)]

Request(op, q, r, g) == [op |-> op, who |-> q, role |-> r, give |-> g]

\* What may be sent: the parameters an operation has not are fixed.
Requests ==
  {Request(op, q, NoRole, {}) : op \in {"revoke", "remove"}, q \in People}
  \cup {Request(op, Owner, NoRole, {}) : op \in {"accept", "leave"}}
  \cup {Request(op, q, r, {}) : op \in {"invite", "set_role"}, q \in People \ {Owner}, r \in Roles}
  \cup {Request(op, Owner, r, g) : op \in {"create_role", "update_role"}, r \in Roles, g \in Grants}
  \cup {Request("delete_role", Owner, r, {}) : r \in Roles}

Sent(p, m) ==
  [by |-> p, op |-> m.op, who |-> m.who, role |-> m.role, give |-> m.give, step |-> "asked",
   passed |-> 0, members |-> {}, number |-> 0, row |-> FALSE, held |-> FALSE]

NextCheck(m) == Checks[m.op][m.passed + 1]
Checked(m)   == [Noted(m, NextCheck(m)) EXCEPT !.passed = m.passed + 1]

\* A request from elsewhere, which makes its first check as it arrives.
Arrive(s, p, m) ==
  /\ s \notin Pages /\ req[s] = Idle /\ m.op \in Elsewhere
  /\ Passes(Sent(p, m), NextCheck(Sent(p, m)))
  /\ req' = [req EXCEPT ![s] = Checked(Sent(p, m))]
  /\ UNCHANGED <<role, invite, offered, live, grants, seats, strayed>>

\* The next check of a handler, or of a request that a page sent.
Check(s) ==
  /\ req[s].step = "asked" /\ req[s].passed < Len(Checks[req[s].op])
  /\ IF Passes(req[s], NextCheck(req[s]))
     THEN req' = [req EXCEPT ![s] = Checked(req[s])]
     ELSE End(s, "refused")
  /\ UNCHANGED <<role, invite, offered, live, grants, seats, strayed>>

-----------------------------------------------------------------------------
(* What it writes *)

Writing(s, op) == req[s].step = "asked" /\ req[s].op = op /\ req[s].passed = Len(Checks[op])

\* The upsert on (org_id, email) opens a row again, whatever became of it.
WriteInvite(s) ==
  /\ Writing(s, "invite")
  /\ IF req[s].role \in live
     THEN /\ invite' = [invite EXCEPT ![req[s].who] = "open"]
          /\ offered' = [offered EXCEPT ![req[s].who] = req[s].role]
          /\ End(s, "done")
     ELSE End(s, "refused") /\ UNCHANGED <<invite, offered>>
  /\ UNCHANGED <<role, live, grants, seats, strayed>>

Accepts(s, people) == req[s].op = "accept" /\ req[s].by \in people
Revokes(s, people) == req[s].op = "revoke" /\ req[s].who \in people

\* An invitation that ends while an acceptance is under way.
Lapsed(s, people) == IF Accepts(s, people) THEN [req[s] EXCEPT !.held = FALSE] ELSE req[s]

\* The answer of a request that deletes the rows of some people: one that is
\* under way and has read such a row will find it gone, also when the address
\* has a new one.
Unrowed(s, people) ==
  IF Accepts(s, people) \/ Revokes(s, people) THEN [req[s] EXCEPT !.row = FALSE, !.held = FALSE] ELSE req[s]
EndWithout(s, people) == req' = [o \in Slots |-> IF o = s THEN Ended(s, "done") ELSE Unrowed(o, people)]

WriteRevoke(s) ==
  LET q == req[s].who IN
  /\ Writing(s, "revoke")
  /\ IF req[s].row
     THEN /\ invite' = [invite EXCEPT ![q] = "none"]
          /\ offered' = [offered EXCEPT ![q] = NoRole]
          /\ EndWithout(s, {q})
     ELSE End(s, "done") /\ UNCHANGED <<invite, offered>>
  /\ UNCHANGED <<role, live, grants, seats, strayed>>

\* One workspace per person, and a role that is there: the constraints.
WriteJoin(s) ==
  LET p == req[s].by IN
  /\ Writing(s, "accept")
  /\ IF role[p] = NoRole /\ req[s].role \in live
     THEN /\ role' = [role EXCEPT ![p] = req[s].role]
          /\ strayed' = IF req[s].held THEN strayed \ {p} ELSE strayed \cup {p}
          /\ req' = [req EXCEPT ![s].step = "joined"]
     ELSE End(s, "refused") /\ UNCHANGED <<role, strayed>>
  /\ UNCHANGED <<invite, offered, live, grants, seats>>

\* The second write of accept_invite; it may be lost with the member in.
MarkAccepted(s) ==
  LET p == req[s].by IN
  /\ req[s].step = "joined"
  /\ \/ /\ req[s].row
        /\ invite' = [invite EXCEPT ![p] = "accepted"]
        /\ req' = [o \in Slots |-> IF o = s THEN Ended(s, "done") ELSE Lapsed(o, {p})]
     \/ End(s, IF req[s].row THEN "refused" ELSE "done") /\ UNCHANGED invite
  /\ UNCHANGED <<role, offered, live, grants, seats, strayed>>

WriteSetRole(s) ==
  LET q == req[s].who IN
  /\ Writing(s, "set_role")
  /\ IF role[q] # NoRole /\ req[s].role \in live
     THEN role' = [role EXCEPT ![q] = req[s].role] /\ End(s, "done")
     ELSE End(s, "refused") /\ UNCHANGED role
  /\ UNCHANGED <<invite, offered, live, grants, seats, strayed>>

\* remove_member and leave_organization.
WriteRemove(s) ==
  LET q == IF req[s].op = "leave" THEN req[s].by ELSE req[s].who IN
  /\ Writing(s, "remove") \/ Writing(s, "leave")
  /\ role' = [role EXCEPT ![q] = NoRole]
  /\ strayed' = strayed \ {q}
  /\ End(s, "done")
  /\ UNCHANGED <<invite, offered, live, grants, seats>>

WriteRole(s) ==
  LET r == req[s].role IN
  /\ \/ Writing(s, "create_role") /\ r \notin live
     \/ Writing(s, "update_role")
  /\ IF Writing(s, "create_role") \/ r \in live
     THEN /\ live' = live \cup {r}
          /\ grants' = [grants EXCEPT ![r] = req[s].give]
          /\ End(s, "done")
     ELSE End(s, "refused") /\ UNCHANGED <<live, grants>>
  /\ UNCHANGED <<role, invite, offered, seats, strayed>>

\* The invitations that a deleted role takes with it (on delete cascade).
Offered(r) == {q \in People : offered[q] = r}
Cascade(r) ==
  /\ invite' = [q \in People |-> IF q \in Offered(r) THEN "none" ELSE invite[q]]
  /\ offered' = [q \in People |-> IF q \in Offered(r) THEN NoRole ELSE offered[q]]

\* Mutated form of DeleteRole: nothing is asked of the members at the delete.
DeleteRole_Unrestricted(s) ==
  LET r == req[s].role IN
  /\ Writing(s, "delete_role")
  /\ live' = live \ {r}
  /\ grants' = [grants EXCEPT ![r] = {}]
  /\ Cascade(r)
  /\ EndWithout(s, Offered(r))
  /\ UNCHANGED <<role, seats, strayed>>

\* A role that a member has is kept (on delete restrict).
DeleteRole(s) ==
  LET r == req[s].role IN
  /\ Writing(s, "delete_role")
  /\ IF \E m \in People : role[m] = r
     THEN End(s, "refused") /\ UNCHANGED <<live, grants, invite, offered>>
     ELSE /\ live' = live \ {r}
          /\ grants' = [grants EXCEPT ![r] = {}]
          /\ Cascade(r)
          /\ EndWithout(s, Offered(r))
  /\ UNCHANGED <<role, seats, strayed>>

InviteExpires(p) ==
  /\ invite[p] = "open"
  /\ invite' = [invite EXCEPT ![p] = "expired"]
  /\ req' = [o \in Slots |-> Lapsed(o, {p})]
  /\ UNCHANGED <<role, offered, live, grants, seats, strayed>>

\* The owner's Team plan ends or is bought again.
PlanChanges ==
  /\ seats' \in {1, MaxSeats} \ {seats}
  /\ UNCHANGED <<role, invite, offered, live, grants, req, strayed>>

Write(s) ==
  \/ WriteInvite(s) \/ WriteRevoke(s) \/ WriteJoin(s) \/ MarkAccepted(s)
  \/ WriteSetRole(s) \/ WriteRemove(s) \/ WriteRole(s) \/ DeleteRole(s)

OrgStep ==
  \/ PlanChanges
  \/ \E p \in People : InviteExpires(p)
  \/ \E s \in Slots : Check(s) \/ Write(s) \/ \E p \in People, m \in Requests : Arrive(s, p, m)

OrgSpec == OrgInit /\ [][OrgStep]_org

-----------------------------------------------------------------------------
(* Safety *)

\* A role that someone has, or was offered, is there: deleting one never
\* crosses an assignment, an invitation or an acceptance that checked it
\* before.
RolesInUseAreThere ==
  /\ \A p \in People : role[p] \in Roles => role[p] \in live
  /\ \A p \in People : invite[p] = "open" => offered[p] \in live

\* There are never more members than seats were sold, however the reads and
\* writes of invitations, acceptances, expiries and changes of plan interleave,
\* but for those who joined on an invitation that ended (was withdrawn, expired
\* or used) between the check and the insert, and for those whose count of the
\* seats missed somebody: seats_used reads the members and then the
\* invitations, and who joins, and whose invitation ends, in between is in
\* neither.
MembersWithinSeats == Cardinality(Joined \ strayed) <= MaxSeats
=============================================================================
