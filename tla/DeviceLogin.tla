----------------------------- MODULE DeviceLogin ----------------------------
(***************************************************************************)
(* Signing in a terminal (controllers/device_controller.py, the CLI's      *)
(* services/auth.py): the CLI asks for a code, a signed-in person approves *)
(* it in a browser, and the CLI's next poll mints an API key.  A request   *)
(* to poll may reach the server twice; calls may fail or lose their        *)
(* answer.  The rate limit on polls is a "slow_down" that may come at any  *)
(* time; it fails open, so nothing may rest on it.                         *)
(***************************************************************************)
EXTENDS Naturals, FiniteSets

CONSTANTS
  Codes,   \* device codes: one per run of `aevrin login` or hook setup
  KindOf,  \* client_kind of each
  Users,   \* signed-in people who may type a code
  NoUser,
  NoCode,  \* a field that does not hold nine characters; no request
  MaxLost  \* bound: database calls and answers that are lost

ASSUME DeviceLoginAssumption ==
  /\ KindOf \in [Codes -> {"cli", "hook"}]
  /\ NoUser \notin Users /\ NoCode \notin Codes
  /\ MaxLost \in Nat

VARIABLES
  code,   \* device_codes.status; "none" before the insert
  old,    \* expires_at has passed
  owner,  \* device_codes.user_id
  keys,   \* api_keys rows minted for a code
  polls,  \* the poll requests of a code: the CLI's, and one that was delivered twice
  cli,    \* the waiting terminal
  lost    \* calls that failed

db == <<code, old, owner, keys>>
device == <<db, polls, cli, lost>>

\* Two deliveries of what one CLI sends.
Deliveries == {"cli", "again"}
Answers == {"slow_down", "expired_token", "authorization_pending", "approved", "error"}
NoPoll == [step |-> "idle", user |-> NoUser]

Key == [code : Codes, user : Users, poll : Deliveries]

DeviceTypeOK ==
  /\ code \in [Codes -> {"none", "pending", "approved", "expired"}]
  /\ old \in [Codes -> BOOLEAN]
  /\ owner \in [Codes -> Users \cup {NoUser}]
  /\ keys \in SUBSET Key
  /\ polls \in [Codes -> [Deliveries ->
       [step : {"idle", "sent", "claiming", "minting"} \cup Answers, user : Users \cup {NoUser}]]]
  /\ cli \in [Codes -> {"off", "polling", "holding", "failed"}]
  /\ lost \in 0..MaxLost

DeviceInit ==
  /\ code = [c \in Codes |-> "none"]
  /\ old = [c \in Codes |-> FALSE]
  /\ owner = [c \in Codes |-> NoUser]
  /\ keys = {}
  /\ polls = [c \in Codes |-> [p \in Deliveries |-> NoPoll]]
  /\ cli = [c \in Codes |-> "off"]
  /\ lost = 0

\* A call of the code that may fail: a failure is counted against the bound.
Call(ok) ==
  /\ ok \/ lost < MaxLost
  /\ lost' = IF ok THEN lost ELSE lost + 1

Poll(c, p, step, user) == polls' = [polls EXCEPT ![c][p] = [step |-> step, user |-> user]]

Valid(c) == code[c] # "none" /\ ~old[c]

-----------------------------------------------------------------------------
(* The terminal *)

\* request_device_code: the row is there before the CLI learns the code.  If
\* the answer is lost the CLI stops, and nobody knows the code.
Login(c) ==
  /\ cli[c] = "off" /\ code[c] = "none"
  /\ \E ok \in BOOLEAN : Call(ok) /\ cli' = [cli EXCEPT ![c] = IF ok THEN "polling" ELSE "failed"]
  /\ code' = [code EXCEPT ![c] = "pending"]
  /\ UNCHANGED <<old, owner, keys, polls>>

Expire(c) ==
  /\ Valid(c)
  /\ old' = [old EXCEPT ![c] = TRUE]
  /\ UNCHANGED <<code, owner, keys, polls, cli, lost>>

\* The loop of device_login: one request at a time.
SendPoll(c) ==
  /\ cli[c] = "polling" /\ polls[c]["cli"].step = "idle"
  /\ Poll(c, "cli", "sent", NoUser)
  /\ UNCHANGED <<db, cli, lost>>

\* The same request arrives once more.
DeliverAgain(c) ==
  /\ cli[c] # "off" /\ code[c] # "none"
  /\ polls[c]["again"].step = "idle"
  /\ Poll(c, "again", "sent", NoUser)
  /\ UNCHANGED <<db, cli, lost>>

\* `while time.monotonic() < deadline`: the deadline is that of the code.
GiveUp(c) ==
  /\ cli[c] = "polling" /\ old[c] /\ polls[c]["cli"].step = "idle"
  /\ cli' = [cli EXCEPT ![c] = "failed"]
  /\ UNCHANGED <<db, polls, lost>>

\* Mutated form of ReadAnswer: "slow_down" ends the login.
ReadAnswer_SlowDownEnds(c) ==
  LET answer == polls[c]["cli"].step IN
  /\ answer \in Answers
  /\ cli' = CASE answer = "authorization_pending" -> cli
              [] answer = "approved" -> [cli EXCEPT ![c] = "holding"]
              [] OTHER -> [cli EXCEPT ![c] = "failed"]
  /\ Poll(c, "cli", "idle", NoUser)
  /\ UNCHANGED <<db, lost>>

\* What device_login does with an answer, or with none: only a pending code
\* and "slow_down" are polled again.
ReadAnswer(c) ==
  LET answer == polls[c]["cli"].step IN
  /\ answer \in Answers \cup {"sent"}
  /\ \/ /\ answer \in {"slow_down", "authorization_pending"}
        /\ UNCHANGED <<cli, lost>>
     \/ /\ answer = "approved"
        /\ cli' = [cli EXCEPT ![c] = "holding"]
        /\ UNCHANGED lost
     \/ /\ answer \in {"expired_token", "error"}
        /\ cli' = [cli EXCEPT ![c] = "failed"]
        /\ UNCHANGED lost
     \/ /\ Call(FALSE)
        /\ cli' = [cli EXCEPT ![c] = "failed"]
  /\ Poll(c, "cli", "idle", NoUser)
  /\ UNCHANGED db

\* Nobody reads the answer to the second delivery.
DropAnswer(c) ==
  /\ polls[c]["again"].step \in Answers
  /\ Poll(c, "again", "idle", NoUser)
  /\ UNCHANGED <<db, cli, lost>>

-----------------------------------------------------------------------------
(* poll_device_token *)

\* The limiter, the select and the checks of the row it returned.
ReadCode(c, p) ==
  /\ polls[c][p].step = "sent"
  /\ \/ Poll(c, p, "slow_down", NoUser)
     \/ ~Valid(c) /\ Poll(c, p, "expired_token", NoUser)
     \/ Valid(c) /\ code[c] = "pending" /\ Poll(c, p, "authorization_pending", NoUser)
     \/ Valid(c) /\ code[c] = "approved" /\ Poll(c, p, "claiming", owner[c])
     \/ Valid(c) /\ code[c] = "expired" /\ Poll(c, p, "expired_token", NoUser)
  /\ UNCHANGED <<db, cli, lost>>

\* Mutated form of Claim: the update filters on the device code alone.
Claim_AnyStatus(c, p) ==
  /\ polls[c][p].step = "claiming"
  /\ code' = [code EXCEPT ![c] = "expired"]
  /\ Poll(c, p, "minting", polls[c][p].user)
  /\ UNCHANGED <<old, owner, keys, cli, lost>>

\* Mutated form of Claim: the limiter is asked after the code is used up.
Claim_LimiterAfter(c, p) ==
  /\ polls[c][p].step = "claiming"
  /\ code' = [code EXCEPT ![c] = "expired"]
  /\ \/ Poll(c, p, "slow_down", NoUser)
     \/ code[c] = "approved" /\ Poll(c, p, "minting", polls[c][p].user)
  /\ UNCHANGED <<old, owner, keys, cli, lost>>

\* The update that is filtered on status=approved: one poll gets a row back.
Claim(c, p) ==
  /\ polls[c][p].step = "claiming"
  /\ IF code[c] = "approved"
     THEN /\ code' = [code EXCEPT ![c] = "expired"]
          /\ Poll(c, p, "minting", polls[c][p].user)
     ELSE Poll(c, p, "expired_token", NoUser) /\ UNCHANGED code
  /\ UNCHANGED <<old, owner, keys, cli, lost>>

\* The insert into api_keys, for the user of the row that was read.
Mint(c, p) ==
  /\ polls[c][p].step = "minting"
  /\ \E ok \in BOOLEAN :
       /\ Call(ok)
       /\ keys' = IF ok THEN keys \cup {[code |-> c, user |-> polls[c][p].user, poll |-> p]}
                  ELSE keys
       /\ Poll(c, p, IF ok THEN "approved" ELSE "error", NoUser)
  /\ UNCHANGED <<code, old, owner, cli>>

DeviceStep ==
  \E c \in Codes :
    \/ Login(c) \/ Expire(c) \/ SendPoll(c) \/ DeliverAgain(c)
    \/ GiveUp(c) \/ ReadAnswer(c) \/ DropAnswer(c)
    \/ \E p \in Deliveries : ReadCode(c, p) \/ Claim(c, p) \/ Mint(c, p)

-----------------------------------------------------------------------------
(* approve_device_code: its checks, and its update filtered on pending *)

MayApprove(c) == Valid(c) /\ code[c] = "pending"

\* Mutated form of ApproveRow: the update does not look at the status again.
ApproveRow_AnyStatus(c, u) ==
  /\ code' = [code EXCEPT ![c] = "approved"]
  /\ owner' = [owner EXCEPT ![c] = u]
  /\ UNCHANGED <<old, keys>>

ApproveRow(c, u) ==
  /\ IF code[c] = "pending"
     THEN code' = [code EXCEPT ![c] = "approved"] /\ owner' = [owner EXCEPT ![c] = u]
     ELSE UNCHANGED <<code, owner>>
  /\ UNCHANGED <<old, keys>>
=============================================================================
