--------------------------- MODULE DeviceApproval ---------------------------
(***************************************************************************)
(* The page that approves a code (views/device), one tab per person, over  *)
(* DeviceLogin.                                                            *)
(***************************************************************************)
EXTENDS DeviceLogin

VARIABLES
  field,    \* the code that is fully typed, or NoCode
  kind,     \* the `clientKind` state
  asking,   \* the code the live info request is about
  form,     \* the `status` state
  request   \* approve_device_code: the code and how far the handler is

pages == <<field, kind, asking, form, request>>
vars == <<device, pages>>

NoRequest == [code |-> NoCode, step |-> "no"]

TypeOK ==
  /\ DeviceTypeOK
  /\ field \in [Users -> Codes \cup {NoCode}]
  /\ kind \in [Users -> {"cli", "hook", "null"}]
  /\ asking \in [Users -> Codes \cup {NoCode}]
  /\ form \in [Users -> {"entering", "approving", "approved", "error"}]
  /\ request \in [Users -> [code : Codes \cup {NoCode},
                            step : {"no", "asked", "read", "written", "approved", "refused"}]]

Init ==
  /\ DeviceInit
  /\ field = [u \in Users |-> NoCode]
  /\ kind = [u \in Users |-> "null"]
  /\ asking = [u \in Users |-> NoCode]
  /\ form = [u \in Users |-> "entering"]
  /\ request = [u \in Users |-> NoRequest]

-----------------------------------------------------------------------------
(* The form *)

\* Typing, or opening the link that carries the code.  The effect's cleanup
\* cancels the request about the code before; the answer it gave stays.
Edit(u, c) ==
  /\ form[u] # "approved" /\ field[u] # c
  /\ c # NoCode => code[c] # "none"
  /\ field' = [field EXCEPT ![u] = c]
  /\ asking' = [asking EXCEPT ![u] = c]
  /\ UNCHANGED <<kind, form, request, device>>

\* get_device_code_info; an unknown or expired code, or a failure, is null.
InfoArrives(u) ==
  LET c == asking[u] IN
  /\ c # NoCode
  /\ \/ Valid(c) /\ kind' = [kind EXCEPT ![u] = KindOf[c]] /\ UNCHANGED lost
     \/ ~Valid(c) /\ kind' = [kind EXCEPT ![u] = "null"] /\ UNCHANGED lost
     \/ Call(FALSE) /\ kind' = [kind EXCEPT ![u] = "null"]
  /\ asking' = [asking EXCEPT ![u] = NoCode]
  /\ UNCHANGED <<field, form, request, db, polls, cli>>

\* What the card says is being signed in: nothing while the code is not whole.
Label(u) == IF field[u] = NoCode THEN "null" ELSE kind[u]

HandleApprove(u) ==
  /\ field[u] # NoCode /\ form[u] \in {"entering", "error"}
  /\ form' = [form EXCEPT ![u] = "approving"]
  /\ request' = [request EXCEPT ![u] = [code |-> field[u], step |-> "asked"]]
  /\ UNCHANGED <<field, kind, asking, device>>

Answered(u, step) == request' = [request EXCEPT ![u].step = step]

ServeRead(u) ==
  /\ request[u].step = "asked"
  /\ Answered(u, IF MayApprove(request[u].code) THEN "read" ELSE "refused")
  /\ UNCHANGED <<field, kind, asking, form, device>>

\* Mutated form of ServeWrite: an update that matched no row passes for one
\* that did.
ServeWrite_Unread(u) ==
  /\ request[u].step = "read"
  /\ Answered(u, "written")
  /\ ApproveRow(request[u].code, u)
  /\ UNCHANGED <<field, kind, asking, form, polls, cli, lost>>

ServeWrite(u) ==
  /\ request[u].step = "read"
  /\ Answered(u, IF code[request[u].code] = "pending" THEN "written" ELSE "refused")
  /\ ApproveRow(request[u].code, u)
  /\ UNCHANGED <<field, kind, asking, form, polls, cli, lost>>

\* The account and the abuse signals come after the approval: one of them may
\* fail with the code approved.
ServeSignals(u) ==
  /\ request[u].step = "written"
  /\ \E ok \in BOOLEAN : Call(ok) /\ Answered(u, IF ok THEN "approved" ELSE "refused")
  /\ UNCHANGED <<field, kind, asking, form, db, polls, cli>>

ApproveAnswered(u) ==
  /\ \/ request[u].step = "approved" /\ form' = [form EXCEPT ![u] = "approved"] /\ UNCHANGED lost
     \/ request[u].step = "refused" /\ form' = [form EXCEPT ![u] = "error"] /\ UNCHANGED lost
     \/ request[u].step \in {"asked", "approved"} /\ Call(FALSE) /\ form' = [form EXCEPT ![u] = "error"]
  /\ request' = [request EXCEPT ![u].step = "no"]
  /\ UNCHANGED <<field, kind, asking, db, polls, cli>>

PageStep ==
  \E u \in Users :
    \/ \E c \in Codes \cup {NoCode} : Edit(u, c)
    \/ InfoArrives(u) \/ HandleApprove(u)
    \/ ServeRead(u) \/ ServeWrite(u) \/ ServeSignals(u) \/ ApproveAnswered(u)

Next == (DeviceStep /\ UNCHANGED pages) \/ PageStep

Spec == Init /\ [][Next]_vars

\* The terminal goes on polling and the server answers; people owe nothing.
Fairness ==
  \A c \in Codes :
    /\ WF_vars(SendPoll(c) /\ UNCHANGED pages)
    /\ WF_vars(ReadAnswer(c) /\ UNCHANGED pages)
    /\ WF_vars(Claim(c, "cli") /\ UNCHANGED pages)
    /\ WF_vars(Mint(c, "cli") /\ UNCHANGED pages)
    /\ SF_vars(ReadCode(c, "cli") /\ polls'[c]["cli"].step # "slow_down" /\ UNCHANGED pages)

FairSpec == Spec /\ Fairness

-----------------------------------------------------------------------------
(* Safety *)

\* An approval mints one key, however many polls of it race each other.
OneKeyPerApproval ==
  \A k1, k2 \in keys : k1.code = k2.code => k1 = k2

\* A code has one owner for good, and its key is that person's: of two people
\* who approve one code, the second cannot take it over between read and claim.
KeyBelongsToApprover ==
  /\ \A k \in keys : owner[k.code] = k.user
  /\ \A c \in Codes : (owner[c] # NoUser) <=> (code[c] \in {"approved", "expired"})

\* Only the owner of a code was told that the device is connected.
OneUserTold ==
  \A u \in Users : form[u] = "approved" => owner[request[u].code] = u

\* A code that was used up has its key, or the poll that used it up is about to
\* insert it, or a call failed.
NothingBurned ==
  \A c \in Codes : code[c] = "expired" =>
    \/ \E k \in keys : k.code = c
    \/ \E p \in Deliveries : polls[c][p].step = "minting"
    \/ lost > 0

-----------------------------------------------------------------------------
(* Liveness *)

\* A terminal whose code was approved in time is signed in, unless a call is
\* lost or a second delivery of its poll took the key.
LoginCompletes ==
  \A c \in Codes :
    code[c] = "approved" /\ cli[c] = "polling" ~>
      \/ cli[c] = "holding"
      \/ old[c] \/ lost > 0
      \/ polls[c]["again"].step \in {"claiming", "minting"}
=============================================================================
