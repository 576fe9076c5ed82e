---------------------------- MODULE WorkspacePage ---------------------------
(***************************************************************************)
(* The workspace page of one person (views/workspace), over Organization.  *)
(* It shows what a load() brought, offers what that allows and loads again *)
(* after each of its own changes.  Nothing holds a click back while        *)
(* requests or loads are under way: several of each may be, and the loads  *)
(* answer in any order.                                                    *)
(***************************************************************************)
EXTENDS Organization

CONSTANTS
  Viewer,  \* whose page it is
  Clicks,  \* bound: the operations that it asks for
  Loads    \* bound: the load()s that are under way at once

ASSUME WorkspaceAssumption == Viewer \in People

VARIABLES
  view,     \* membership and invites as React state; a row of the member list
            \* is offered whether or not the person is still in it
  loads,    \* the loads under way and what they read
  newest,   \* ghost: the one asked for last
  current,  \* ghost: it has been answered, and what it brought is shown
  gone      \* ghost: invitations this page revoked and nobody sent again

page == <<view, loads, newest, current, gone>>
vars == <<org, page>>

NoView == [org |-> FALSE, held |-> {}, invites |-> {}, pending |-> FALSE]
NoLoad == [step |-> "none", got |-> NoView]
Unread == [step |-> "asked", got |-> NoView]

Views == [org : BOOLEAN, held : SUBSET Catalogue, invites : SUBSET People, pending : BOOLEAN]

TypeOK ==
  /\ OrgTypeOK
  /\ view \in Views
  /\ loads \in [Loads -> [step : {"none", "asked", "membership", "read"}, got : Views]]
  /\ newest \in Loads /\ current \in BOOLEAN
  /\ gone \subseteq People

Init ==
  /\ OrgInit
  /\ view = NoView
  /\ newest \in Loads
  /\ loads = [l \in Loads |-> IF l = newest THEN Unread ELSE NoLoad]
  /\ current = FALSE /\ gone = {}

-----------------------------------------------------------------------------
(* load() *)

\* onChanged, and the effect that loads first.
Ask(l) ==
  /\ loads[l] = NoLoad
  /\ loads' = [loads EXCEPT ![l] = Unread]
  /\ newest' = l /\ current' = FALSE

\* Two calls of fetchWorkspace decide what is offered, each taken as one
\* moment: the membership,
Membership ==
  IF role[Viewer] = NoRole THEN [NoView EXCEPT !.pending = invite[Viewer] = "open"]
  ELSE [org |-> TRUE, held |-> Held(Viewer), invites |-> {}, pending |-> FALSE]

ReadMembership(l) ==
  /\ loads[l].step = "asked"
  /\ loads' = [loads EXCEPT ![l] = [step |-> "membership", got |-> Membership]]
  /\ UNCHANGED <<org, view, newest, current, gone>>

\* and the invitations, the expired ones too, asked for with members.manage
\* alone and refused, with the whole load, when that has gone meanwhile.
ReadInvites(l) ==
  LET got == loads[l].got
      manages == "members" \in got.held
      listed == {p \in People : manages /\ invite[p] \in {"open", "expired"}} IN
  /\ loads[l].step = "membership"
  /\ manages => Manages(Viewer)
  /\ loads' = [loads EXCEPT ![l] = [step |-> "read", got |-> [got EXCEPT !.invites = listed]]]
  /\ UNCHANGED <<org, view, newest, current, gone>>

\* Whichever load answers is shown.
LoadAnswered(l) ==
  /\ loads[l].step = "read"
  /\ view' = loads[l].got
  /\ loads' = [loads EXCEPT ![l] = NoLoad]
  /\ current' = (l = newest)
  /\ UNCHANGED <<org, newest, gone>>

\* A failure keeps what was there under an alert.
LoadFails(l) ==
  /\ loads[l].step # "none"
  /\ loads' = [loads EXCEPT ![l] = NoLoad]
  /\ UNCHANGED <<org, view, newest, current, gone>>

-----------------------------------------------------------------------------
(* The panels *)

Can(permission) == view.org /\ permission \in view.held

\* Each panel's buttons, when they are there.  What disables some of them for a
\* while (a panel's own busy flag, which goes when the panel does, and seats
\* that are all taken) is left out, so more can be clicked here.
NoWorkspace == ~view.org /\ view.pending
MembersPanel(q) == Can("members") /\ q # Owner
InvitesPanel(op, q) == Can("members") /\ (op = "revoke" => q \in view.invites)
RolesPanel == Can("roles")
LeavePanel == view.org /\ Viewer # Owner

Offers(op, q) ==
  CASE op = "accept" -> NoWorkspace
    [] op = "leave"  -> LeavePanel
    [] op \in {"invite", "revoke"} -> InvitesPanel(op, q)
    [] op \in {"set_role", "remove"} -> MembersPanel(q)
    [] op \in {"create_role", "update_role", "delete_role"} -> RolesPanel

Click(s, m) ==
  /\ s \in Pages /\ req[s] = Idle /\ m.op \in Clicks
  /\ Offers(m.op, m.who)
  /\ m.op = "create_role" => m.give = {}
  /\ req' = [req EXCEPT ![s] = Sent(Viewer, m)]
  /\ UNCHANGED <<role, invite, offered, live, grants, seats, strayed, page>>

Withdrawn(s) ==
  IF req[s].op = "revoke" /\ req[s].step = "done"
  THEN {p \in {req[s].who} : invite[p] = "none"} ELSE {}

\* Mutated form of Answered: nothing is loaded after a revocation.
Answered_NoLoad(s) ==
  /\ s \in Pages /\ req[s].step \in {"done", "refused"}
  /\ req' = [req EXCEPT ![s] = Idle]
  /\ IF req[s].step = "done" /\ req[s].op # "revoke" THEN \E l \in Loads : Ask(l)
     ELSE UNCHANGED <<loads, newest, current>>
  /\ gone' = gone \cup Withdrawn(s)
  /\ UNCHANGED <<role, invite, offered, live, grants, seats, strayed, view>>

\* onChanged after a success; a refusal is a toast and no more.
Answered(s) ==
  /\ s \in Pages /\ req[s].step \in {"done", "refused"}
  /\ req' = [req EXCEPT ![s] = Idle]
  /\ IF req[s].step = "done" THEN \E l \in Loads : Ask(l) ELSE UNCHANGED <<loads, newest, current>>
  /\ gone' = gone \cup Withdrawn(s)
  /\ UNCHANGED <<role, invite, offered, live, grants, seats, strayed, view>>

ServerStep ==
  /\ OrgStep
  /\ gone' = {p \in gone : invite'[p] = "none"}
  /\ UNCHANGED <<view, loads, newest, current>>

Next ==
  \/ ServerStep
  \/ \E l \in Loads : ReadMembership(l) \/ ReadInvites(l) \/ LoadAnswered(l) \/ LoadFails(l)
  \/ \E s \in Slots : Answered(s) \/ \E m \in Requests : Click(s, m)

Spec == Init /\ [][Next]_vars

-----------------------------------------------------------------------------
(* Properties *)

\* An invitation that the page revoked, and that nobody sent again, is off its
\* list once the load it asked for last has been answered, whatever other
\* requests are under way: only when that load fails, or an older one is
\* answered after it and shown in its place, may it still be listed.
OwnChangesShow == current => view.invites \cap gone = {}
=============================================================================
