------------------------------- MODULE Billing -------------------------------
(***************************************************************************)
(* The orders of one account and the writers of its plan: checkout,        *)
(* /billing/verify, the payment webhooks, and the admin's comp grant and   *)
(* seat change (controllers/billing_controller.py, change_plan and         *)
(* set_seats of controllers/admin_controller.py).                          *)
(*                                                                         *)
(* A settlement is the handling of one order over one channel.  Each of    *)
(* its database calls is a step; it keeps in memory the date it computed   *)
(* from the account it read.  Time is counted in months; admins change     *)
(* plans one at a time.                                                    *)
(***************************************************************************)
EXTENDS Integers

CONSTANTS
  Orders,
  Channels,     \* "verify", and the webhook's events
  Plan,         \* what each order buys
  GiftMonths,   \* bound: the months an admin comps
  GiftTiers,    \* bound: the tiers an admin comps
  SeatChoices,  \* bound: the seats an admin sets
  MaxGifts,     \* bound: plan and seat changes by admins
  MaxNow,       \* bound: how far the clock runs
  MaxFailures   \* bound: how often a handler dies

Tiers == {"free", "hobby", "pro", "team"}
Handling == {"claiming", "granting", "rereading"}

ASSUME BillingAssumption ==
  /\ Plan \in [Orders -> [tier : Tiers \ {"free"}, months : Nat, seats : Nat]]
  /\ Channels \subseteq {"verify", "payment.captured", "order.paid"}
  /\ GiftMonths \in Nat
  /\ GiftTiers \subseteq Tiers
  /\ SeatChoices \subseteq Nat
  /\ MaxGifts \in Nat /\ MaxNow \in Nat /\ MaxFailures \in Nat

VARIABLES
  payment,   \* payments.status by order; "none" before checkout inserts the row
  captured,  \* orders the customer has paid at the gateway
  account,   \* accounts.tier, paid_until (0 is null) and seats
  handler,   \* each settlement: where it is, and the date it will write
  gift,      \* the change_plan request in flight and the seats it read
  now,
  granted,   \* orders whose account update landed
  lost,      \* orders whose claimer died before its account update
  confirmed, \* orders /verify has answered "ok" for
  credit,    \* months bought by granted orders, or given
  gifts,
  failures

admin == <<gift, gifts>>
billingVars == <<payment, captured, account, handler, admin, now, granted, lost, confirmed, credit, failures>>

NoSettlement == [at |-> "idle", until |-> 0]
NoGift == [tier |-> "free", seats |-> -1]
TeamMinSeats == 3

BillingTypeOK ==
  /\ payment \in [Orders -> {"none", "created", "paid", "failed"}]
  /\ captured \in SUBSET Orders
  /\ account \in [tier : Tiers, until : Nat, seats : Nat]
  /\ handler \in [Orders \X Channels -> [at : Handling \cup {"idle"}, until : Nat]]
  /\ gift \in [tier : Tiers, seats : Nat \cup {-1}]
  /\ now \in 0..MaxNow
  /\ granted \in SUBSET Orders
  /\ lost \in SUBSET Orders
  /\ confirmed \in SUBSET Orders
  /\ credit \in Nat
  /\ gifts \in 0..MaxGifts
  /\ failures \in 0..MaxFailures

\* A row may have been marked failed by an earlier release.
BillingInit ==
  /\ payment \in [Orders -> {"none", "failed"}]
  /\ captured = {}
  /\ account = [tier |-> "free", until |-> 0, seats |-> 1]
  /\ handler = [h \in Orders \X Channels |-> NoSettlement]
  /\ gift = NoGift
  /\ now = 0
  /\ granted = {}
  /\ lost = {}
  /\ confirmed = {}
  /\ credit = 0
  /\ gifts = 0
  /\ failures = 0

Larger(a, b) == IF a > b THEN a ELSE b

\* Mutated form of PaidUntil: what is already paid for is added to today.
PaidUntil_Adds(existing, months) == now + existing + months

\* _paid_until: from the later of now and what is already paid for.
PaidUntil(existing, months) == Larger(now, existing) + months

-----------------------------------------------------------------------------
(* The customer and the gateway *)

\* create_checkout: the row is inserted before the order id is given out.
Checkout(o) ==
  /\ payment[o] = "none"
  /\ payment' = [payment EXCEPT ![o] = "created"]
  /\ UNCHANGED <<captured, account, handler, admin, now, granted, lost, confirmed, credit, failures>>

Capture(o) ==
  /\ payment[o] # "none"
  /\ captured' = captured \cup {o}
  /\ UNCHANGED <<payment, account, handler, admin, now, granted, lost, confirmed, credit, failures>>

-----------------------------------------------------------------------------
(* Settling an order *)

\* The signature proves the capture.  The order's row and the account are
\* read, and the date is computed before anything is written.
Begin(o, c) ==
  /\ o \in captured
  /\ handler[<<o, c>>] = NoSettlement
  /\ handler' = [handler EXCEPT ![<<o, c>>] =
       [at |-> "claiming", until |-> PaidUntil(account.until, Plan[o].months)]]
  /\ UNCHANGED <<payment, captured, account, admin, now, granted, lost, confirmed, credit, failures>>

\* Where a claim that matched no row leads: the webhook answers, /verify looks
\* at the row again.
Unclaimed(c) == IF c = "verify" THEN [at |-> "rereading", until |-> 0] ELSE NoSettlement

\* Mutated forms of Claim: the update is keyed on the order alone; the date is
\* computed after it, and computing it may raise; the row gets a status of its own.
Claim_Unfiltered(o, c) ==
  /\ handler[<<o, c>>].at = "claiming"
  /\ payment' = [payment EXCEPT ![o] = "paid"]
  /\ handler' = [handler EXCEPT ![<<o, c>>] = [at |-> "granting", until |-> @.until]]
  /\ UNCHANGED <<captured, account, admin, now, granted, lost, confirmed, credit, failures>>

Claim_DatesAfter(o, c) ==
  /\ handler[<<o, c>>].at = "claiming"
  /\ IF payment[o] = "created"
     THEN /\ payment' = [payment EXCEPT ![o] = "paid"]
          /\ \/ handler' = [handler EXCEPT ![<<o, c>>] = NoSettlement]
             \/ handler' = [handler EXCEPT ![<<o, c>>] = [at |-> "granting", until |-> @.until]]
     ELSE /\ handler' = [handler EXCEPT ![<<o, c>>] = Unclaimed(c)]
          /\ UNCHANGED payment
  /\ UNCHANGED <<captured, account, admin, now, granted, lost, confirmed, credit, failures>>

Claim_OwnStatus(o, c) ==
  /\ handler[<<o, c>>].at = "claiming"
  /\ payment[o] = "created"
  /\ payment' = [payment EXCEPT ![o] = c]
  /\ handler' = [handler EXCEPT ![<<o, c>>] = [at |-> "granting", until |-> @.until]]
  /\ UNCHANGED <<captured, account, admin, now, granted, lost, confirmed, credit, failures>>

\* The compare-and-set on status = created.
Claim(o, c) ==
  /\ handler[<<o, c>>].at = "claiming"
  /\ IF payment[o] = "created"
     THEN /\ payment' = [payment EXCEPT ![o] = "paid"]
          /\ handler' = [handler EXCEPT ![<<o, c>>] = [at |-> "granting", until |-> @.until]]
     ELSE /\ handler' = [handler EXCEPT ![<<o, c>>] = Unclaimed(c)]
          /\ UNCHANGED payment
  /\ UNCHANGED <<captured, account, admin, now, granted, lost, confirmed, credit, failures>>

\* _account_update_for_payment: seats are a Team quantity.
AccountAfter(o, until) ==
  [tier |-> Plan[o].tier, until |-> until,
   seats |-> IF Plan[o].tier = "team" THEN Plan[o].seats ELSE account.seats]

Confirmed(o, c) == IF c = "verify" THEN confirmed \cup {o} ELSE confirmed

\* Mutated form of Grant: nothing is written when the account already reaches
\* further than the date the handler computed.
Grant_NeverShortens(o, c) ==
  /\ handler[<<o, c>>].at = "granting"
  /\ IF handler[<<o, c>>].until >= account.until
     THEN /\ account' = AccountAfter(o, handler[<<o, c>>].until)
          /\ granted' = granted \cup {o}
          /\ credit' = IF o \in granted THEN credit ELSE credit + Plan[o].months
     ELSE UNCHANGED <<account, granted, credit>>
  /\ confirmed' = Confirmed(o, c)
  /\ handler' = [handler EXCEPT ![<<o, c>>] = NoSettlement]
  /\ UNCHANGED <<payment, captured, admin, now, lost, failures>>

Grant(o, c) ==
  /\ handler[<<o, c>>].at = "granting"
  /\ account' = AccountAfter(o, handler[<<o, c>>].until)
  /\ granted' = granted \cup {o}
  /\ credit' = IF o \in granted THEN credit ELSE credit + Plan[o].months
  /\ confirmed' = Confirmed(o, c)
  /\ handler' = [handler EXCEPT ![<<o, c>>] = NoSettlement]
  /\ UNCHANGED <<payment, captured, admin, now, lost, failures>>

\* Mutated form of Reread: every second verify is answered "ok".
Reread_Trusting(o, c) ==
  /\ handler[<<o, c>>].at = "rereading"
  /\ confirmed' = confirmed \cup {o}
  /\ handler' = [handler EXCEPT ![<<o, c>>] = NoSettlement]
  /\ UNCHANGED <<payment, captured, account, admin, now, granted, lost, credit, failures>>

\* /verify found the order claimed: "ok" when it is paid, 409 otherwise.
Reread(o, c) ==
  /\ handler[<<o, c>>].at = "rereading"
  /\ confirmed' = IF payment[o] = "paid" THEN confirmed \cup {o} ELSE confirmed
  /\ handler' = [handler EXCEPT ![<<o, c>>] = NoSettlement]
  /\ UNCHANGED <<payment, captured, account, admin, now, granted, lost, credit, failures>>

\* A call raised or the process was replaced.  A claim that timed out after it
\* landed is a claim followed by this.
Abort(o, c) ==
  /\ handler[<<o, c>>].at # "idle"
  /\ failures < MaxFailures
  /\ failures' = failures + 1
  /\ handler' = [handler EXCEPT ![<<o, c>>] = NoSettlement]
  /\ lost' = IF handler[<<o, c>>].at = "granting" THEN lost \cup {o} ELSE lost
  /\ UNCHANGED <<payment, captured, account, admin, now, granted, confirmed, credit>>

Settle(o, c) == Claim(o, c) \/ Grant(o, c) \/ Reread(o, c)

-----------------------------------------------------------------------------
(* The admin *)

\* change_plan reads the account for the seats it will keep ...
GiftRead(t) ==
  /\ gift = NoGift /\ gifts < MaxGifts
  /\ gift' = [tier |-> t, seats |-> account.seats]
  /\ gifts' = gifts + 1
  /\ UNCHANGED <<payment, captured, account, handler, now, granted, lost, confirmed, credit, failures>>

\* ... and writes the plan, from now on, over whatever is there.
GiftWrite ==
  /\ gift # NoGift
  /\ account' =
       [tier |-> gift.tier,
        until |-> IF gift.tier = "free" THEN 0 ELSE now + GiftMonths,
        seats |-> IF gift.tier = "team" THEN Larger(gift.seats, TeamMinSeats) ELSE account.seats]
  /\ credit' = IF gift.tier = "free" THEN credit ELSE credit + GiftMonths
  /\ gift' = NoGift
  /\ UNCHANGED <<payment, captured, handler, gifts, now, granted, lost, confirmed, failures>>

SetSeats(n) ==
  /\ gifts < MaxGifts
  /\ gifts' = gifts + 1
  /\ account' = [account EXCEPT !.seats = n]
  /\ UNCHANGED <<payment, captured, handler, gift, now, granted, lost, confirmed, credit, failures>>

-----------------------------------------------------------------------------

Tick ==
  /\ now < MaxNow
  /\ now' = now + 1
  /\ UNCHANGED <<payment, captured, account, handler, admin, granted, lost, confirmed, credit, failures>>

BillingNext ==
  \/ \E o \in Orders : Checkout(o) \/ Capture(o)
  \/ \E o \in Orders, c \in Channels : Begin(o, c) \/ Settle(o, c) \/ Abort(o, c)
  \/ \E t \in GiftTiers : GiftRead(t)
  \/ \E n \in SeatChoices : SetSeats(n)
  \/ GiftWrite
  \/ Tick

BillingSpec == BillingInit /\ [][BillingNext]_billingVars

\* Handlers run to their end, and the gateway delivers its event again until
\* the order is claimed.  Nothing is assumed of the customer's browser.
Redeliver(o) == \E c \in Channels \ {"verify"} : payment[o] = "created" /\ Begin(o, c)

BillingFairness == \A o \in Orders :
  /\ WF_billingVars(Redeliver(o))
  /\ \A c \in Channels : WF_billingVars(Settle(o, c))

BillingFairSpec == BillingSpec /\ BillingFairness

-----------------------------------------------------------------------------
(* Properties *)

Granting(o) == \E c \in Channels : handler[<<o, c>>].at = "granting"

\* Of all verifies and webhooks of an order one claims it, and it was paid for:
\* none is left to grant once the order is granted, and no two are on the way.
OneGrantPerPayment ==
  \A o \in Orders :
    /\ o \in granted => o \in captured /\ ~Granting(o)
    /\ \A c, d \in Channels :
         handler[<<o, c>>].at = "granting" /\ handler[<<o, d>>].at = "granting" => c = d

\* The plan never reaches further than the months granted orders bought and
\* admins gave, counted from today, whichever settlements raced over which
\* reading of the account.
NoUnpaidTime == account.until <= now + credit

\* Of an order marked paid exactly one thing is true: it is granted, or the
\* handler that claimed it is about to grant it, or that handler died first and
\* no redelivery ever makes up for it.  No stale date, gift or other settlement
\* makes a claimed order disappear in any other way.
PaidIsAccountedFor ==
  \A o \in Orders :
    /\ payment[o] = "paid" => o \in granted \/ Granting(o) \/ o \in lost
    /\ o \in lost => o \notin granted /\ ~Granting(o)

\* /verify answers "ok" for no order that nobody will honour, the ones lost with
\* their claimer apart, which it cannot tell.
ConfirmedIsHonoured ==
  \A o \in Orders : o \in confirmed => o \in granted \/ Granting(o) \/ o \in lost

\* A payment that was made is granted, however often the browser's call and
\* the gateway's are repeated and handlers die, unless one of them died between
\* its claim and its grant.
CapturedIsGranted ==
  \A o \in Orders :
    o \in captured /\ payment[o] = "created" ~> o \in granted \/ o \in lost

-----------------------------------------------------------------------------
(* What the code's comments say, and the code does not keep *)

\* _paid_until: "paying early doesn't forfeit remaining time on the current
\* cycle".
PaymentNeverShortens ==
  [][granted' # granted => account'.until >= account.until]_billingVars

-----------------------------------------------------------------------------
(* What makes the invariants inductive *)

\* A settlement is of a captured order, and holds a date its own order pays
\* for; a claimed order is granted by its claimer only.
Settlements ==
  \A o \in Orders, c \in Channels : LET h == handler[<<o, c>>] IN
    /\ h.at # "idle" => o \in captured
    /\ h.at \in {"claiming", "granting"} => h.until <= now + credit + Plan[o].months
    /\ h.at = "granting" => payment[o] = "paid"

\* The ghost sets follow the rows.
Ghosts ==
  /\ \A o \in Orders : o \in granted \/ o \in lost \/ o \in confirmed => payment[o] = "paid"
  /\ granted \subseteq captured

BillingInv ==
  /\ BillingTypeOK
  /\ Settlements
  /\ Ghosts
  /\ OneGrantPerPayment
  /\ PaidIsAccountedFor
  /\ NoUnpaidTime
=============================================================================
