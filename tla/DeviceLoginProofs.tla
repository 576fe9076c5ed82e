-------------------------- MODULE DeviceLoginProofs --------------------------
(***************************************************************************)
(* Theorems about DeviceLogin and the pages of DeviceApproval, for any     *)
(* codes, people, deliveries that race each other, and calls that fail:    *)
(* their type invariant, one key per approval, the key is the approver's,  *)
(* only the owner is told, and no approval is burned.                      *)
(***************************************************************************)
EXTENDS DeviceApproval, TLAPS

-----------------------------------------------------------------------------
(* The inductive invariant *)

\* A poll past its read carries the owner of its code, which is settled by
\* then; a poll that mints has used the code up.
PollsKnowOwner ==
  \A c \in Codes, p \in Deliveries :
    /\ polls[c][p].step \in {"claiming", "minting"} =>
         polls[c][p].user = owner[c] /\ owner[c] # NoUser
    /\ polls[c][p].step = "minting" => code[c] = "expired"

\* The right to mint for a code is with one poll, or was used.
OneMinter ==
  \A c \in Codes, p \in Deliveries : polls[c][p].step = "minting" =>
    /\ \A q \in Deliveries : polls[c][q].step = "minting" => q = p
    /\ \A k \in keys : k.code # c

KeysAreUsedUp == \A k \in keys : code[k.code] = "expired"

\* A request whose update matched a row, or that was answered so, is the owner's.
RequestsKnowOwner ==
  \A u \in Users :
    /\ request[u].step # "no" => request[u].code \in Codes /\ form[u] = "approving"
    /\ request[u].step \in {"written", "approved"} => owner[request[u].code] = u
    /\ form[u] = "approved" => request[u].code \in Codes

IInv ==
  /\ TypeOK
  /\ PollsKnowOwner
  /\ OneMinter
  /\ KeysAreUsedUp
  /\ RequestsKnowOwner
  /\ OneKeyPerApproval
  /\ KeyBelongsToApprover
  /\ OneUserTold
  /\ NothingBurned

-----------------------------------------------------------------------------
(* Type correctness *)

PollStep == {"idle", "sent", "claiming", "minting"} \cup Answers

\* A poll moves on; the others stay where they are.
LEMMA PollEffect ==
  ASSUME DeviceTypeOK, NEW c \in Codes, NEW p \in Deliveries, NEW step, NEW user,
         Poll(c, p, step, user)
  PROVE  /\ polls'[c][p].step = step /\ polls'[c][p].user = user
         /\ \A d \in Codes, q \in Deliveries :
              d # c \/ q # p => polls'[d][q] = polls[d][q]
<1> DEFINE new == [step |-> step, user |-> user]
<1>1. polls' = [polls EXCEPT ![c] = [polls[c] EXCEPT ![p] = new]]
  BY DEF Poll
<1> HIDE DEF new
<1>2. /\ polls'[c] = [polls[c] EXCEPT ![p] = new]
      /\ \A d \in Codes : d # c => polls'[d] = polls[d]
  BY <1>1 DEF DeviceTypeOK
<1>3. /\ polls'[c][p] = new
      /\ \A q \in Deliveries : q # p => polls'[c][q] = polls[c][q]
  BY <1>2 DEF DeviceTypeOK
<1>4. \A d \in Codes, q \in Deliveries : d # c \/ q # p => polls'[d][q] = polls[d][q]
  BY <1>2, <1>3
<1>5. polls'[c][p].step = step /\ polls'[c][p].user = user
  BY <1>3 DEF new
<1>6. QED BY <1>4, <1>5

LEMMA PollType ==
  ASSUME DeviceTypeOK, NEW c \in Codes, NEW p \in Deliveries,
         NEW step \in PollStep, NEW user \in Users \cup {NoUser}, Poll(c, p, step, user)
  PROVE  polls' \in [Codes -> [Deliveries -> [step : PollStep, user : Users \cup {NoUser}]]]
<1> DEFINE new == [step |-> step, user |-> user]
           R == [step : PollStep, user : Users \cup {NoUser}]
<1>1. new \in R
  OBVIOUS
<1>2. polls \in [Codes -> [Deliveries -> R]]
  BY DEF DeviceTypeOK, PollStep
<1>3. polls' = [polls EXCEPT ![c] = [polls[c] EXCEPT ![p] = new]]
  BY DEF Poll
<1> HIDE DEF new, R
<1>4. [polls[c] EXCEPT ![p] = new] \in [Deliveries -> R]
  BY <1>1, <1>2
<1>5. polls' \in [Codes -> [Deliveries -> R]]
  BY <1>2, <1>3, <1>4
<1>6. QED BY <1>5 DEF R

LEMMA CallType ==
  ASSUME DeviceTypeOK, NEW ok \in BOOLEAN, Call(ok)
  PROVE  lost' \in 0..MaxLost /\ lost' >= lost /\ (~ok => lost' > 0)
BY DeviceLoginAssumption DEF DeviceTypeOK, Call

\* A call that fails, in an action that may also have none.
LEMMA LostGrows ==
  ASSUME lost \in Nat, lost' = lost \/ Call(FALSE)
  PROVE  lost' \in Nat /\ lost' >= lost
BY DEF Call

LEMMA TypeInit == Init => TypeOK
<1> SUFFICES ASSUME Init PROVE TypeOK
  OBVIOUS
<1>1. NoPoll \in [step : PollStep, user : Users \cup {NoUser}]
  BY DEF NoPoll, PollStep
<1>2. DeviceTypeOK
  BY <1>1, DeviceLoginAssumption DEF Init, DeviceInit, DeviceTypeOK, PollStep
<1>3. QED BY <1>2 DEF Init, TypeOK, NoRequest

LEMMA DeviceTypeStep == DeviceTypeOK /\ PollsKnowOwner /\ DeviceStep => DeviceTypeOK'
<1> SUFFICES ASSUME DeviceTypeOK, PollsKnowOwner, NEW c \in Codes,
                    \/ Login(c) \/ Expire(c) \/ SendPoll(c) \/ DeliverAgain(c)
                    \/ GiveUp(c) \/ ReadAnswer(c) \/ DropAnswer(c)
                    \/ \E p \in Deliveries : ReadCode(c, p) \/ Claim(c, p) \/ Mint(c, p)
             PROVE  DeviceTypeOK'
  BY DEF DeviceStep
<1>1. CASE Login(c)
  <2>1. lost' \in 0..MaxLost
    BY <1>1, CallType DEF Login
  <2>2. QED BY <1>1, <2>1 DEF Login, DeviceTypeOK
<1>2. CASE Expire(c)
  BY <1>2 DEF Expire, DeviceTypeOK
<1>3. ASSUME NEW p \in Deliveries, NEW step \in PollStep, NEW user \in Users \cup {NoUser},
             Poll(c, p, step, user), code' \in [Codes -> {"none", "pending", "approved", "expired"}],
             keys' \in SUBSET Key, cli' \in [Codes -> {"off", "polling", "holding", "failed"}],
             lost' \in 0..MaxLost, UNCHANGED <<old, owner>>
      PROVE  DeviceTypeOK'
  BY <1>3, PollType DEF DeviceTypeOK, PollStep
<1>4. CASE SendPoll(c) \/ DeliverAgain(c) \/ DropAnswer(c)
  <2>1. PICK p \in Deliveries, step \in PollStep : Poll(c, p, step, NoUser)
    BY <1>4 DEF SendPoll, DeliverAgain, DropAnswer, Deliveries, PollStep
  <2>2. UNCHANGED <<db, cli, lost>>
    BY <1>4 DEF SendPoll, DeliverAgain, DropAnswer
  <2>3. QED BY <1>3, <2>1, <2>2 DEF DeviceTypeOK, db
<1>5. CASE GiveUp(c)
  BY <1>5 DEF GiveUp, DeviceTypeOK, db
<1>6. CASE ReadAnswer(c)
  <2>1. lost' \in 0..MaxLost
    BY <1>6, CallType DEF ReadAnswer, DeviceTypeOK
  <2>2. cli' \in [Codes -> {"off", "polling", "holding", "failed"}]
    BY <1>6 DEF ReadAnswer, DeviceTypeOK
  <2>3. Poll(c, "cli", "idle", NoUser) /\ UNCHANGED db
    BY <1>6 DEF ReadAnswer
  <2>4. QED BY <1>3, <2>1, <2>2, <2>3 DEF DeviceTypeOK, db, Deliveries, PollStep
<1>7. ASSUME NEW p \in Deliveries, ReadCode(c, p) PROVE DeviceTypeOK'
  <2>1. PICK step \in PollStep, user \in Users \cup {NoUser} : Poll(c, p, step, user)
    BY <1>7 DEF ReadCode, PollStep, Answers, DeviceTypeOK
  <2>2. UNCHANGED <<db, cli, lost>>
    BY <1>7 DEF ReadCode
  <2>3. QED BY <1>3, <2>1, <2>2 DEF DeviceTypeOK, db
<1>8. ASSUME NEW p \in Deliveries, Claim(c, p) PROVE DeviceTypeOK'
  <2>1. polls[c][p].user \in Users \cup {NoUser}
    BY DEF DeviceTypeOK
  <2>2. PICK step \in PollStep, user \in Users \cup {NoUser} : Poll(c, p, step, user)
    BY <1>8, <2>1 DEF Claim, PollStep, Answers
  <2>3. code' \in [Codes -> {"none", "pending", "approved", "expired"}]
    BY <1>8 DEF Claim, DeviceTypeOK
  <2>4. UNCHANGED <<old, owner, keys, cli, lost>>
    BY <1>8 DEF Claim
  <2>5. QED BY <1>3, <2>2, <2>3, <2>4 DEF DeviceTypeOK
<1>9. ASSUME NEW p \in Deliveries, Mint(c, p) PROVE DeviceTypeOK'
  <2>0. polls[c][p].user \in Users
    BY <1>9 DEF Mint, PollsKnowOwner, DeviceTypeOK
  <2>1. PICK ok \in BOOLEAN :
          /\ Call(ok)
          /\ keys' \in {keys, keys \cup {[code |-> c, user |-> polls[c][p].user, poll |-> p]}}
          /\ Poll(c, p, IF ok THEN "approved" ELSE "error", NoUser)
    BY <1>9 DEF Mint
  <2>2. keys' \in SUBSET Key
    BY <2>0, <2>1 DEF DeviceTypeOK, Key
  <2>3. lost' \in 0..MaxLost
    BY <2>1, CallType
  <2>4. UNCHANGED <<code, old, owner, cli>>
    BY <1>9 DEF Mint
  <2>5. QED BY <1>3, <2>1, <2>2, <2>3, <2>4 DEF DeviceTypeOK, PollStep, Answers
<1>10. QED BY <1>1, <1>2, <1>4, <1>5, <1>6, <1>7, <1>8, <1>9

RequestStep == {"no", "asked", "read", "written", "approved", "refused"}

\* A request moves on; the others stay where they are.
LEMMA AnsweredEffect ==
  ASSUME TypeOK, NEW u \in Users, NEW step \in RequestStep, Answered(u, step)
  PROVE  /\ request' \in [Users -> [code : Codes \cup {NoCode}, step : RequestStep]]
         /\ request'[u].step = step /\ request'[u].code = request[u].code
         /\ \A v \in Users : v # u => request'[v] = request[v]
BY DEF TypeOK, RequestStep, Answered

\* What a page's step leaves to the server is well typed.
LEMMA ApproveRowType ==
  ASSUME DeviceTypeOK, NEW c \in Codes, NEW u \in Users, ApproveRow(c, u)
  PROVE  /\ code' \in [Codes -> {"none", "pending", "approved", "expired"}]
         /\ owner' \in [Codes -> Users \cup {NoUser}]
         /\ UNCHANGED <<old, keys>>
BY DEF DeviceTypeOK, ApproveRow

LEMMA PageTypeStep == TypeOK /\ RequestsKnowOwner /\ PageStep => TypeOK'
<1> SUFFICES ASSUME TypeOK, RequestsKnowOwner, NEW u \in Users,
                    \/ \E c \in Codes \cup {NoCode} : Edit(u, c)
                    \/ InfoArrives(u) \/ HandleApprove(u)
                    \/ ServeRead(u) \/ ServeWrite(u) \/ ServeSignals(u) \/ ApproveAnswered(u)
             PROVE  TypeOK'
  BY DEF PageStep
<1>0. DeviceTypeOK
  BY DEF TypeOK
<1>1. ASSUME NEW c \in Codes \cup {NoCode}, Edit(u, c) PROVE TypeOK'
  BY <1>0, <1>1 DEF Edit, TypeOK, device, db, DeviceTypeOK
<1>2. CASE InfoArrives(u)
  <2>1. lost' \in 0..MaxLost /\ UNCHANGED <<db, polls, cli>>
    BY <1>0, <1>2, CallType DEF InfoArrives, DeviceTypeOK
  <2>2. DeviceTypeOK'
    BY <1>0, <2>1 DEF DeviceTypeOK, db
  <2>3. kind' \in [Users -> {"cli", "hook", "null"}]
    BY <1>2, DeviceLoginAssumption DEF InfoArrives, TypeOK
  <2>4. QED BY <1>2, <2>2, <2>3 DEF InfoArrives, TypeOK
<1>3. CASE HandleApprove(u)
  BY <1>0, <1>3 DEF HandleApprove, TypeOK, device, db, DeviceTypeOK
<1>4. CASE ServeRead(u)
  <2>1. request' \in [Users -> [code : Codes \cup {NoCode}, step : RequestStep]]
    BY <1>4, AnsweredEffect DEF ServeRead, RequestStep
  <2>2. DeviceTypeOK'
    BY <1>0, <1>4 DEF ServeRead, device, db, DeviceTypeOK
  <2>3. QED BY <1>4, <2>1, <2>2 DEF ServeRead, TypeOK, RequestStep
<1>5. CASE ServeWrite(u)
  <2>1. request[u].code \in Codes
    BY <1>5 DEF ServeWrite, RequestsKnowOwner
  <2>2. DeviceTypeOK'
    BY <1>0, <1>5, <2>1, ApproveRowType DEF ServeWrite, DeviceTypeOK
  <2>3. request' \in [Users -> [code : Codes \cup {NoCode}, step : RequestStep]]
    BY <1>5, AnsweredEffect DEF ServeWrite, RequestStep
  <2>4. QED BY <1>5, <2>2, <2>3 DEF ServeWrite, TypeOK, RequestStep
<1>6. CASE ServeSignals(u)
  <2>1. lost' \in 0..MaxLost /\ UNCHANGED <<db, polls, cli>>
    BY <1>0, <1>6, CallType DEF ServeSignals
  <2>2. DeviceTypeOK'
    BY <1>0, <2>1 DEF DeviceTypeOK, db
  <2>3. request' \in [Users -> [code : Codes \cup {NoCode}, step : RequestStep]]
    BY <1>6, AnsweredEffect DEF ServeSignals, RequestStep
  <2>4. QED BY <1>6, <2>2, <2>3 DEF ServeSignals, TypeOK, RequestStep
<1>7. CASE ApproveAnswered(u)
  <2>1. lost' \in 0..MaxLost /\ UNCHANGED <<db, polls, cli>>
    BY <1>0, <1>7, CallType DEF ApproveAnswered, DeviceTypeOK
  <2>2. DeviceTypeOK'
    BY <1>0, <2>1 DEF DeviceTypeOK, db
  <2>3. QED BY <1>7, <2>2 DEF ApproveAnswered, TypeOK
<1>8. QED BY <1>1, <1>2, <1>3, <1>4, <1>5, <1>6, <1>7

LEMMA TypeStep == TypeOK /\ PollsKnowOwner /\ RequestsKnowOwner /\ [Next]_vars => TypeOK'
<1> SUFFICES ASSUME TypeOK, PollsKnowOwner, RequestsKnowOwner, [Next]_vars PROVE TypeOK'
  OBVIOUS
<1>1. CASE DeviceStep /\ UNCHANGED pages
  BY <1>1, DeviceTypeStep DEF TypeOK, pages
<1>2. CASE PageStep
  BY <1>2, PageTypeStep
<1>3. CASE UNCHANGED vars
  <2>1. DeviceTypeOK'
    BY <1>3 DEF vars, device, db, TypeOK, DeviceTypeOK
  <2>2. QED BY <1>3, <2>1 DEF vars, pages, TypeOK
<1>4. QED BY <1>1, <1>2, <1>3 DEF Next

-----------------------------------------------------------------------------
(* The invariant is kept *)

LEMMA InvInit == Init => IInv
<1> SUFFICES ASSUME Init PROVE IInv
  OBVIOUS
<1>1. TypeOK
  BY TypeInit
<1>2. PollsKnowOwner /\ OneMinter
  BY DEF Init, DeviceInit, PollsKnowOwner, OneMinter, NoPoll
<1>3. KeysAreUsedUp /\ OneKeyPerApproval /\ KeyBelongsToApprover /\ NothingBurned
  BY DEF Init, DeviceInit, KeysAreUsedUp, OneKeyPerApproval, KeyBelongsToApprover, NothingBurned
<1>4. RequestsKnowOwner /\ OneUserTold
  BY DEF Init, RequestsKnowOwner, OneUserTold, NoRequest
<1>5. QED BY <1>1, <1>2, <1>3, <1>4 DEF IInv

\* A step that neither touches a code's row or keys, nor moves a poll into or
\* out of the claim, keeps what is known of the server.
LEMMA ServerKept ==
  ASSUME IInv, UNCHANGED <<code, owner, keys>>, lost' \in Nat, lost' >= lost,
         \A c \in Codes, p \in Deliveries :
           \/ polls'[c][p] = polls[c][p]
           \/ /\ polls[c][p].step # "minting"
              /\ polls'[c][p].step \notin {"claiming", "minting"}
  PROVE  /\ PollsKnowOwner' /\ OneMinter' /\ KeysAreUsedUp'
         /\ OneKeyPerApproval' /\ KeyBelongsToApprover' /\ NothingBurned'
<1>1. PollsKnowOwner' /\ OneMinter'
  BY DEF IInv, PollsKnowOwner, OneMinter
<1>2. KeysAreUsedUp' /\ OneKeyPerApproval' /\ KeyBelongsToApprover'
  BY DEF IInv, KeysAreUsedUp, OneKeyPerApproval, KeyBelongsToApprover
<1>3. NothingBurned'
  <2>1. lost \in Nat /\ lost' >= lost
    BY DeviceLoginAssumption DEF IInv, TypeOK, DeviceTypeOK
  <2>2. lost > 0 => lost' > 0
    BY <2>1
  <2>3. QED BY <2>2 DEF IInv, NothingBurned
<1>4. QED BY <1>1, <1>2, <1>3

\* A step of the device leaves the pages' half alone as long as no owner changes.
LEMMA PagesKept ==
  ASSUME IInv, UNCHANGED pages, UNCHANGED owner
  PROVE  RequestsKnowOwner' /\ OneUserTold'
BY DEF IInv, pages, RequestsKnowOwner, OneUserTold

LEMMA DeviceInvStep == IInv /\ TypeOK' /\ DeviceStep /\ UNCHANGED pages => IInv'
<1> SUFFICES ASSUME IInv, TypeOK', UNCHANGED pages, NEW c \in Codes,
                    \/ Login(c) \/ Expire(c) \/ SendPoll(c) \/ DeliverAgain(c)
                    \/ GiveUp(c) \/ ReadAnswer(c) \/ DropAnswer(c)
                    \/ \E p \in Deliveries : ReadCode(c, p) \/ Claim(c, p) \/ Mint(c, p)
             PROVE  IInv'
  BY DEF DeviceStep
<1>0. DeviceTypeOK /\ lost \in Nat
  BY DeviceLoginAssumption DEF IInv, TypeOK, DeviceTypeOK
<1>1. CASE Login(c)
  <2>1. /\ code[c] = "none" /\ code' = [code EXCEPT ![c] = "pending"]
        /\ UNCHANGED <<owner, keys, polls>>
    BY <1>1 DEF Login
  <2>2. lost' >= lost /\ lost' \in Nat
    BY <1>0, <1>1, CallType DEF Login
  <2>3. \A d \in Codes : code'[d] = code[d] \/ (d = c /\ code'[d] = "pending")
    BY <1>0, <2>1 DEF DeviceTypeOK
  <2>4. PollsKnowOwner' /\ OneMinter'
    BY <2>1, <2>3 DEF IInv, PollsKnowOwner, OneMinter
  <2>5. KeysAreUsedUp' /\ OneKeyPerApproval' /\ KeyBelongsToApprover'
    <3>1. \A k \in keys : k.code \in Codes
      BY <1>0 DEF DeviceTypeOK, Key
    <3>2. QED BY <2>1, <2>3, <3>1 DEF IInv, KeysAreUsedUp, OneKeyPerApproval, KeyBelongsToApprover
  <2>6. NothingBurned'
    BY <1>0, <2>1, <2>2, <2>3 DEF IInv, NothingBurned
  <2>7. QED BY <2>1, <2>4, <2>5, <2>6, PagesKept DEF IInv
<1>2. CASE Expire(c) \/ GiveUp(c)
  <2>1. UNCHANGED <<code, owner, keys, polls, lost>>
    BY <1>2 DEF Expire, GiveUp, db
  <2>2. QED BY <1>0, <2>1, ServerKept, PagesKept DEF IInv
<1>3. ASSUME NEW p \in Deliveries, NEW step \in PollStep \ {"claiming", "minting"}, NEW user,
             polls[c][p].step # "minting", Poll(c, p, step, user),
             UNCHANGED <<code, owner, keys>>, lost' \in Nat, lost' >= lost
      PROVE  IInv'
  <2>1. \A d \in Codes, q \in Deliveries :
          \/ polls'[d][q] = polls[d][q]
          \/ /\ polls[d][q].step # "minting"
             /\ polls'[d][q].step \notin {"claiming", "minting"}
    BY <1>0, <1>3, PollEffect
  <2>2. QED BY <1>3, <2>1, ServerKept, PagesKept DEF IInv
<1>4. CASE SendPoll(c) \/ DeliverAgain(c) \/ DropAnswer(c)
  <2>1. PICK p \in Deliveries, step \in PollStep \ {"claiming", "minting"} :
          Poll(c, p, step, NoUser) /\ polls[c][p].step # "minting"
    BY <1>4 DEF SendPoll, DeliverAgain, DropAnswer, Deliveries, PollStep, Answers
  <2>2. UNCHANGED <<code, owner, keys, lost>>
    BY <1>4 DEF SendPoll, DeliverAgain, DropAnswer, db
  <2>3. QED BY <1>0, <1>3, <2>1, <2>2
<1>5. CASE ReadAnswer(c)
  <2>1. Poll(c, "cli", "idle", NoUser) /\ polls[c]["cli"].step # "minting"
        /\ UNCHANGED <<code, owner, keys>>
    BY <1>5 DEF ReadAnswer, db, Answers
  <2>2. lost' \in Nat /\ lost' >= lost
    <3>1. lost' = lost \/ Call(FALSE)
      BY <1>5 DEF ReadAnswer
    <3>2. QED BY <1>0, <3>1, LostGrows
  <2>3. QED BY <1>3, <2>1, <2>2 DEF Deliveries, PollStep
<1>6. ASSUME NEW p \in Deliveries, ReadCode(c, p) PROVE IInv'
  <2>1. UNCHANGED <<code, owner, keys, lost>> /\ polls[c][p].step = "sent"
    BY <1>6 DEF ReadCode, db
  <2>2. CASE \E step \in PollStep \ {"claiming", "minting"} : Poll(c, p, step, NoUser)
    BY <1>0, <1>3, <2>1, <2>2
  <2>3. CASE code[c] = "approved" /\ Poll(c, p, "claiming", owner[c])
    <3>1. owner[c] # NoUser
      BY <2>3 DEF IInv, KeyBelongsToApprover
    <3>2. /\ polls'[c][p].step = "claiming" /\ polls'[c][p].user = owner[c]
          /\ \A d \in Codes, q \in Deliveries : d # c \/ q # p => polls'[d][q] = polls[d][q]
      BY <1>0, <2>3, PollEffect
    <3>3. PollsKnowOwner' /\ OneMinter'
      BY <2>1, <3>1, <3>2 DEF IInv, PollsKnowOwner, OneMinter
    <3>4. KeysAreUsedUp' /\ OneKeyPerApproval' /\ KeyBelongsToApprover'
      BY <2>1 DEF IInv, KeysAreUsedUp, OneKeyPerApproval, KeyBelongsToApprover
    <3>5. NothingBurned'
      BY <2>1, <3>2 DEF IInv, NothingBurned
    <3>6. QED BY <2>1, <3>3, <3>4, <3>5, PagesKept DEF IInv
  <2>4. QED BY <1>6, <2>2, <2>3 DEF ReadCode, PollStep, Answers
<1>7. ASSUME NEW p \in Deliveries, Claim(c, p) PROVE IInv'
  <2>1. polls[c][p].step = "claiming" /\ UNCHANGED <<owner, keys, lost>>
    BY <1>7 DEF Claim
  <2>2. CASE code[c] # "approved"
    BY <1>0, <1>3, <1>7, <2>1, <2>2 DEF Claim, PollStep, Answers
  <2>3. CASE code[c] = "approved"
    <3>1. code' = [code EXCEPT ![c] = "expired"] /\ Poll(c, p, "minting", polls[c][p].user)
      BY <1>7, <2>3 DEF Claim
    <3>2. /\ code'[c] = "expired"
          /\ \A d \in Codes : d # c => code'[d] = code[d]
      BY <1>0, <3>1 DEF DeviceTypeOK
    <3>3. /\ polls'[c][p].step = "minting" /\ polls'[c][p].user = polls[c][p].user
          /\ \A d \in Codes, q \in Deliveries : d # c \/ q # p => polls'[d][q] = polls[d][q]
      BY <1>0, <3>1, PollEffect
    <3>4. /\ \A q \in Deliveries : polls[c][q].step # "minting"
          /\ \A k \in keys : k.code # c /\ k.code \in Codes
      BY <1>0, <2>3 DEF IInv, PollsKnowOwner, KeysAreUsedUp, DeviceTypeOK, Key
    <3>5. PollsKnowOwner'
      BY <2>1, <3>2, <3>3 DEF IInv, PollsKnowOwner
    <3>6. OneMinter'
      BY <2>1, <3>3, <3>4 DEF IInv, OneMinter
    <3>7. KeysAreUsedUp' /\ OneKeyPerApproval' /\ KeyBelongsToApprover'
      BY <2>1, <2>3, <3>2, <3>4 DEF IInv, KeysAreUsedUp, OneKeyPerApproval, KeyBelongsToApprover
    <3>8. NothingBurned'
      <4>1. \A d \in Codes, q \in Deliveries :
              polls[d][q].step = "minting" => polls'[d][q].step = "minting"
        BY <3>3
      <4>2. QED BY <2>1, <3>2, <3>3, <4>1 DEF IInv, NothingBurned
    <3>9. QED BY <2>1, <3>5, <3>6, <3>7, <3>8, PagesKept DEF IInv
  <2>4. QED BY <2>2, <2>3
<1>8. ASSUME NEW p \in Deliveries, Mint(c, p) PROVE IInv'
  <2>1. PICK ok \in BOOLEAN :
          /\ Call(ok)
          /\ keys' = IF ok THEN keys \cup {[code |-> c, user |-> polls[c][p].user, poll |-> p]}
                     ELSE keys
          /\ Poll(c, p, IF ok THEN "approved" ELSE "error", NoUser)
    BY <1>8 DEF Mint
  <2>2. /\ polls[c][p].step = "minting" /\ polls[c][p].user = owner[c]
        /\ code[c] = "expired" /\ UNCHANGED <<code, owner>>
        /\ \A q \in Deliveries : q # p => polls[c][q].step # "minting"
        /\ \A k \in keys : k.code # c
    BY <1>8 DEF Mint, IInv, PollsKnowOwner, OneMinter
  <2>3. /\ polls'[c][p].step \in {"approved", "error"}
        /\ \A d \in Codes, q \in Deliveries : d # c \/ q # p => polls'[d][q] = polls[d][q]
    BY <1>0, <2>1, PollEffect
  <2>4. lost' \in Nat /\ lost' >= lost /\ (~ok => lost' > 0)
    BY <1>0, <2>1, CallType
  <2>5. \A k \in keys' : k \in keys \/ (ok /\ k.code = c /\ k.user = owner[c])
    BY <2>1, <2>2
  <2>6. PollsKnowOwner' /\ OneMinter'
    <3>1. \A d \in Codes, q \in Deliveries :
            polls'[d][q].step \in {"claiming", "minting"} => polls'[d][q] = polls[d][q]
      BY <2>3
    <3>2. \A d \in Codes, q \in Deliveries :
            polls'[d][q].step = "minting" => polls[d][q].step = "minting" /\ d # c
      BY <2>2, <2>3
    <3>3. PollsKnowOwner'
      BY <2>2, <3>1 DEF IInv, PollsKnowOwner
    <3>4. OneMinter'
      BY <2>5, <3>2 DEF IInv, OneMinter
    <3>5. QED BY <3>3, <3>4
  <2>7. KeysAreUsedUp' /\ KeyBelongsToApprover'
    BY <2>2, <2>5 DEF IInv, KeysAreUsedUp, KeyBelongsToApprover
  <2>8. OneKeyPerApproval'
    BY <2>1, <2>2 DEF IInv, OneKeyPerApproval
  <2>9. NothingBurned'
    <3> SUFFICES ASSUME NEW d \in Codes, code'[d] = "expired", ~(lost' > 0)
                 PROVE  \/ \E k \in keys' : k.code = d
                        \/ \E q \in Deliveries : polls'[d][q].step = "minting"
      BY DEF NothingBurned
    <3>1. keys' = keys \cup {[code |-> c, user |-> polls[c][p].user, poll |-> p]}
      BY <2>1, <2>4
    <3>2. ~(lost > 0)
      BY <1>0, <2>4
    <3>3. CASE d = c
      <4> DEFINE k == [code |-> c, user |-> polls[c][p].user, poll |-> p]
      <4>1. k \in keys' /\ k.code = c
        BY <3>1
      <4>2. QED BY <3>3, <4>1
    <3>4. CASE d # c
      BY <2>2, <2>3, <3>1, <3>2, <3>4 DEF IInv, NothingBurned
    <3>5. QED BY <3>3, <3>4
  <2>10. QED BY <2>2, <2>6, <2>7, <2>8, <2>9, PagesKept DEF IInv
<1>9. QED BY <1>1, <1>2, <1>4, <1>5, <1>6, <1>7, <1>8

LEMMA PageInvStep == IInv /\ TypeOK' /\ PageStep => IInv'
<1> SUFFICES ASSUME IInv, TypeOK', NEW u \in Users,
                    \/ \E c \in Codes \cup {NoCode} : Edit(u, c)
                    \/ InfoArrives(u) \/ HandleApprove(u)
                    \/ ServeRead(u) \/ ServeWrite(u) \/ ServeSignals(u) \/ ApproveAnswered(u)
             PROVE  IInv'
  BY DEF PageStep
<1>0. TypeOK /\ DeviceTypeOK /\ lost \in Nat /\ lost' \in Nat
  BY DeviceLoginAssumption DEF IInv, TypeOK, DeviceTypeOK
\* Nothing of the server but the failures is touched: the requests remain.
<1>1. ASSUME UNCHANGED <<code, owner, keys, polls>>, lost' >= lost,
             RequestsKnowOwner', OneUserTold'
      PROVE  IInv'
  BY <1>0, <1>1, ServerKept DEF IInv
<1>2. ASSUME NEW c \in Codes \cup {NoCode}, Edit(u, c) PROVE IInv'
  <2>1. UNCHANGED <<form, request, device>>
    BY <1>2 DEF Edit
  <2>2. RequestsKnowOwner' /\ OneUserTold'
    BY <2>1 DEF device, db, IInv, RequestsKnowOwner, OneUserTold
  <2>3. QED BY <1>0, <1>1, <2>1, <2>2 DEF device, db
<1>3. CASE InfoArrives(u)
  <2>1. UNCHANGED <<form, request, db, polls>> /\ (lost' = lost \/ Call(FALSE))
    BY <1>3 DEF InfoArrives
  <2>2. lost' >= lost
    BY <1>0, <2>1, LostGrows
  <2>3. RequestsKnowOwner' /\ OneUserTold'
    BY <2>1 DEF db, IInv, RequestsKnowOwner, OneUserTold
  <2>4. QED BY <1>1, <2>1, <2>2, <2>3 DEF db
<1>4. CASE HandleApprove(u)
  <2>1. /\ field[u] \in Codes /\ form[u] \in {"entering", "error"} /\ UNCHANGED device
        /\ form' = [form EXCEPT ![u] = "approving"]
        /\ request' = [request EXCEPT ![u] = [code |-> field[u], step |-> "asked"]]
    BY <1>0, <1>4 DEF HandleApprove, TypeOK
  <2>2. /\ form'[u] = "approving" /\ request'[u].code \in Codes /\ request'[u].step = "asked"
        /\ \A v \in Users : v # u => form'[v] = form[v] /\ request'[v] = request[v]
    BY <1>0, <2>1 DEF TypeOK
  <2>3. RequestsKnowOwner' /\ OneUserTold'
    BY <2>1, <2>2 DEF device, db, IInv, RequestsKnowOwner, OneUserTold
  <2>4. QED BY <1>0, <1>1, <2>1, <2>3 DEF device, db
<1>5. ASSUME NEW step \in RequestStep, Answered(u, step), request[u].step # "no",
             step \in {"written", "approved"} => owner'[request[u].code] = u,
             \A c \in Codes : owner[c] # NoUser => owner'[c] = owner[c],
             UNCHANGED form
      PROVE  RequestsKnowOwner' /\ OneUserTold'
  <2>1. /\ request'[u].step = step /\ request'[u].code = request[u].code
        /\ \A v \in Users : v # u => request'[v] = request[v]
    BY <1>0, <1>5, AnsweredEffect
  <2>2. \A v \in Users : v # NoUser
    BY DeviceLoginAssumption
  <2>3. RequestsKnowOwner'
    BY <1>5, <2>1, <2>2 DEF IInv, RequestsKnowOwner
  <2>4. OneUserTold'
    BY <1>5, <2>1, <2>2 DEF IInv, RequestsKnowOwner, OneUserTold
  <2>5. QED BY <2>3, <2>4
<1>6. CASE ServeRead(u)
  <2>1. PICK step \in {"read", "refused"} : Answered(u, step)
    BY <1>6 DEF ServeRead
  <2>2. UNCHANGED <<form, device>> /\ request[u].step = "asked"
    BY <1>6 DEF ServeRead
  <2>3. RequestsKnowOwner' /\ OneUserTold'
    BY <1>5, <2>1, <2>2 DEF device, db, RequestStep
  <2>4. QED BY <1>0, <1>1, <2>2, <2>3 DEF device, db
<1>7. CASE ServeWrite(u)
  <2> DEFINE c == request[u].code
  <2>1. /\ c \in Codes /\ request[u].step = "read" /\ ApproveRow(c, u)
        /\ Answered(u, IF code[c] = "pending" THEN "written" ELSE "refused")
        /\ UNCHANGED <<form, polls, lost>>
    BY <1>7 DEF ServeWrite, IInv, RequestsKnowOwner
  <2> HIDE DEF c
  <2>2. CASE code[c] # "pending"
    <3>1. UNCHANGED <<code, owner, keys>>
      BY <2>1, <2>2 DEF ApproveRow
    <3>2. RequestsKnowOwner' /\ OneUserTold'
      BY <1>5, <2>1, <2>2, <3>1 DEF RequestStep
    <3>3. QED BY <1>0, <1>1, <2>1, <3>1, <3>2
  <2>3. CASE code[c] = "pending"
    <3>1. /\ code' = [code EXCEPT ![c] = "approved"] /\ owner' = [owner EXCEPT ![c] = u]
          /\ keys' = keys
      BY <2>1, <2>3 DEF ApproveRow
    <3>2. /\ code'[c] = "approved" /\ owner'[c] = u
          /\ \A d \in Codes : d # c => code'[d] = code[d] /\ owner'[d] = owner[d]
      BY <1>0, <2>1, <3>1 DEF DeviceTypeOK
    <3>3. u # NoUser /\ owner[c] = NoUser
      BY <2>1, <2>3, DeviceLoginAssumption DEF IInv, KeyBelongsToApprover
    <3>4. \A k \in keys : k.code \in Codes /\ k.code # c
      BY <1>0, <2>3 DEF IInv, KeysAreUsedUp, DeviceTypeOK, Key
    <3>5. RequestsKnowOwner' /\ OneUserTold'
      BY <1>5, <2>1, <2>3, <3>2, <3>3 DEF RequestStep, c
    <3>6. PollsKnowOwner' /\ OneMinter'
      BY <2>1, <2>3, <3>1, <3>2, <3>3 DEF IInv, PollsKnowOwner, OneMinter
    <3>7. KeysAreUsedUp' /\ OneKeyPerApproval'
      BY <3>1, <3>2, <3>4 DEF IInv, KeysAreUsedUp, OneKeyPerApproval
    <3>8. KeyBelongsToApprover'
      BY <3>1, <3>2, <3>3, <3>4 DEF IInv, KeyBelongsToApprover
    <3>9. NothingBurned'
      BY <2>1, <3>1, <3>2 DEF IInv, NothingBurned
    <3>10. QED BY <3>5, <3>6, <3>7, <3>8, <3>9 DEF IInv
  <2>4. QED BY <2>2, <2>3
<1>8. CASE ServeSignals(u)
  <2>1. PICK ok \in BOOLEAN : Call(ok) /\ Answered(u, IF ok THEN "approved" ELSE "refused")
    BY <1>8 DEF ServeSignals
  <2>2. UNCHANGED <<form, db, polls>> /\ request[u].step = "written"
    BY <1>8 DEF ServeSignals
  <2>3. lost' >= lost
    BY <1>0, <2>1, CallType
  <2>4. owner[request[u].code] = u
    BY <2>2 DEF IInv, RequestsKnowOwner
  <2>5. RequestsKnowOwner' /\ OneUserTold'
    BY <1>5, <2>1, <2>2, <2>4 DEF db, RequestStep
  <2>6. QED BY <1>1, <2>2, <2>3, <2>5 DEF db
<1>9. CASE ApproveAnswered(u)
  <2>1. /\ UNCHANGED <<db, polls>> /\ (lost' = lost \/ Call(FALSE))
        /\ request[u].step # "no" /\ request' = [request EXCEPT ![u].step = "no"]
        /\ \/ form' = [form EXCEPT ![u] = "error"]
           \/ form' = [form EXCEPT ![u] = "approved"] /\ request[u].step = "approved"
    BY <1>9 DEF ApproveAnswered
  <2>2. lost' >= lost
    BY <1>0, <2>1, LostGrows
  <2>3. /\ request'[u].step = "no" /\ request'[u].code = request[u].code
        /\ form'[u] \in {"approved", "error"}
        /\ form'[u] = "approved" => request[u].step = "approved"
        /\ \A v \in Users : v # u => request'[v] = request[v] /\ form'[v] = form[v]
    BY <1>0, <2>1 DEF TypeOK
  <2>4. RequestsKnowOwner'
    BY <2>1, <2>3 DEF db, IInv, RequestsKnowOwner
  <2>5. OneUserTold'
    BY <2>1, <2>3 DEF db, IInv, RequestsKnowOwner, OneUserTold
  <2>6. QED BY <1>1, <2>1, <2>2, <2>4, <2>5 DEF db
<1>10. QED BY <1>2, <1>3, <1>4, <1>6, <1>7, <1>8, <1>9

LEMMA InvStep == IInv /\ [Next]_vars => IInv'
<1> SUFFICES ASSUME IInv, [Next]_vars PROVE IInv'
  OBVIOUS
<1>1. TypeOK'
  BY TypeStep DEF IInv
<1>2. CASE DeviceStep /\ UNCHANGED pages
  BY <1>1, <1>2, DeviceInvStep
<1>3. CASE PageStep
  BY <1>1, <1>3, PageInvStep
<1>4. CASE UNCHANGED vars
  <2>1. UNCHANGED <<code, owner, keys, polls, lost, pages>>
    BY <1>4 DEF vars, device, db
  <2>2. lost \in Nat
    BY DeviceLoginAssumption DEF IInv, TypeOK, DeviceTypeOK
  <2>3. QED BY <1>1, <2>1, <2>2, ServerKept, PagesKept DEF IInv
<1>5. QED BY <1>2, <1>3, <1>4 DEF Next

LEMMA Invariance == Spec => []IInv
BY InvInit, InvStep, PTL DEF Spec

-----------------------------------------------------------------------------
(* The properties *)

\* Every variable of the server, the terminal and the pages keeps its type.
THEOREM TypeCorrect == Spec => []TypeOK
<1>1. IInv => TypeOK
  BY DEF IInv
<1>2. QED BY Invariance, <1>1, PTL

\* An approval mints one key, however many polls of any number of codes race
\* each other and whatever calls fail.
THEOREM KeySafety == Spec => []OneKeyPerApproval
<1>1. IInv => OneKeyPerApproval
  BY DEF IInv
<1>2. QED BY Invariance, <1>1, PTL

\* The key of a code is the person's who approved it, of any number of people
\* who approve the same code at once.
THEOREM ApproverSafety == Spec => []KeyBelongsToApprover
<1>1. IInv => KeyBelongsToApprover
  BY DEF IInv
<1>2. QED BY Invariance, <1>1, PTL

\* Only the owner of a code is told that the device is connected.
THEOREM ToldSafety == Spec => []OneUserTold
<1>1. IInv => OneUserTold
  BY DEF IInv
<1>2. QED BY Invariance, <1>1, PTL

\* A used-up code has its key, or a poll about to insert it, or a call failed.
THEOREM NothingBurnedSafety == Spec => []NothingBurned
<1>1. IInv => NothingBurned
  BY DEF IInv
<1>2. QED BY Invariance, <1>1, PTL
=============================================================================
