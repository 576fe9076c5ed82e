---------------------------- MODULE BillingPages ----------------------------
(***************************************************************************)
(* The billing page with its history, whose display preferences live in    *)
(* localStorage and are shared by the tabs of a browser, and the checkout  *)
(* of the pricing section.                                                 *)
(***************************************************************************)
EXTENDS Visit

-----------------------------------------------------------------------------
(* Billing *)

Payments == {"p1", "p2"}   \* bound

\* An account's plan: as stored, by itself, and with its workspace.
Plans ==
  { [tier |-> "free", own |-> "free", effective |-> "free"],
    [tier |-> "pro",  own |-> "pro",  effective |-> "pro"],
    [tier |-> "pro",  own |-> "free", effective |-> "free"],
    [tier |-> "pro",  own |-> "free", effective |-> "team"],
    [tier |-> "team", own |-> "team", effective |-> "team"] }

ASSUME PlansAssumption == \A m \in Marks : m \notin Plans /\ m \notin {"used", "INR", "active"} /\ m # Payments

Inherited(s) == s.effective # s.own
Expired(s)   == s.tier # "free" /\ s.own = "free"

\* The plan card: who pays, what is said of the period, where the button leads.
\* No price is shown before the prices have loaded, nor for a plan not bought.
PlanCard(s, price) ==
  [ plan   |-> s.effective,
    price  |-> IF Inherited(s) THEN None ELSE price,
    badge  |-> IF Inherited(s) THEN "through your workspace"
               ELSE IF Expired(s) THEN "period ended"
               ELSE IF s.effective = "free" THEN None ELSE "active",
    period |-> IF s.tier = "free" THEN "quota resets" ELSE IF Expired(s) THEN "ended" ELSE "ends",
    seats  |-> s.own = "team",
    button |-> IF Expired(s) /\ ~Inherited(s) THEN "renew"
               ELSE IF s.effective = "free" THEN "upgrade" ELSE "change",
    to     |-> IF s.tier = "team" /\ ~Inherited(s) THEN "/pricing?seats" ELSE "/pricing" ]

BillingInit ==
  \E writable, hid \in BOOLEAN, put \in SUBSET {"p1"}, s \in Plans, pay \in {{}, Payments} :
    /\ pay = {} \/ (s.own = "pro" /\ writable = ~hid)   \* bound
    /\ Mounted("billing",
               [subscription |-> NoData, usage |-> NoData, payments |-> NoData, pricing |-> NoData,
                archived |-> put, hidden |-> hid, showArchived |-> FALSE],
               Load({"subscription", "usage", "payments", "pricing"}),
               {[subscription |-> s, usage |-> "used", payments |-> pay, pricing |-> "INR",
                 archived |-> put, hidden |-> hid, writable |-> writable]})

ShowsPlan    == st.subscription # NoData /\ st.usage # NoData
HasHistory   == st.payments # NoData /\ st.payments # {}
ArchivedRows == st.payments \cap st.archived
ActiveRows   == st.payments \ st.archived

BillingEmpty == st.payments # NoData /\ st.payments = {} /\ ~st.hidden

\* What does not load leaves its skeleton for good; only a toast says so.
BillingSkeleton == ~ShowsPlan \/ st.payments = NoData

\* useBillingHistoryPrefs: the cache of this tab, and the store where it can be
\* written.
Prefer(s) ==
  ActsOn(IF srv.writable THEN [srv EXCEPT !.archived = s.archived, !.hidden = s.hidden] ELSE srv, s, {})

\* Restoring the last row leaves the archive, which has no toggle any more.
Restore(p) ==
  Prefer([st EXCEPT !.archived = @ \ {p}, !.showArchived = @ /\ ArchivedRows # {p}])

BillingClick ==
  /\ HasHistory
  /\ \/ Prefer([st EXCEPT !.hidden = ~@])
     \/ /\ ~st.hidden
        /\ \/ ~st.showArchived /\ \E p \in ActiveRows : Prefer([st EXCEPT !.archived = @ \cup {p}])
           \/ st.showArchived /\ \E p \in ArchivedRows : Restore(p)
           \/ ArchivedRows # {} /\ Acts([st EXCEPT !.showArchived = ~@], {}, {})
           \/ /\ ArchivedRows # {} /\ st.showArchived
              /\ Prefer([st EXCEPT !.archived = {}, !.showArchived = FALSE])

BillingLoaded(c) ==
  /\ c.kind \in {"subscription", "usage", "payments", "pricing"}
  /\ Takes(c, IF Threw(c) THEN st ELSE [st EXCEPT ![c.kind] = Answer(c)], {}, {})

\* The storage event drops the caches, which are read again at once.
StorageChanged(c) ==
  /\ c.kind = "storage"
  /\ Takes(c, [st EXCEPT !.archived = srv.archived, !.hidden = srv.hidden], {}, {})

BillingArrive(c) == BillingLoaded(c) \/ StorageChanged(c)

BillingElsewhere ==
  /\ srv.writable
  /\ OtherTab({[srv EXCEPT !.archived = a] : a \in SUBSET Payments} \cup {[srv EXCEPT !.hidden = ~@]}, "storage")

BillingTrue ==
  /\ PlanCard(st.subscription, st.pricing) = PlanCard(srv.subscription, srv.pricing)
  /\ st.usage = srv.usage /\ st.payments = srv.payments
  /\ st.showArchived => ArchivedRows # {}

\* This one holds whatever other tabs do.
TabsAgree == srv.writable => st.archived = srv.archived /\ st.hidden = srv.hidden

-----------------------------------------------------------------------------
(* Pricing and checkout *)

Orders == {"o1", "o2"}      \* bound
PaidTiers == {"pro", "team"}

PricingInit ==
  Mounted("pricing",
          [at |-> "here", annual |-> TRUE, pricing |-> NoData, loading |-> None,
           script |-> "absent", modals |-> {}, told |-> {}],
          Load({"pricing"}),
          {[pricing |-> "INR", session |-> s, orders |-> [o \in Orders |-> "none"]] : s \in BOOLEAN})

OnPricing   == st.at = "here"
PricingBusy == OnPricing /\ st.loading # None

\* What a card asks for: the server's table, or the placeholder until it is here.
CardCurrency == IF st.pricing = NoData THEN "USD" ELSE st.pricing

\* handleCta, up to its first request.
ChooseTier(t) ==
  IF ~srv.session
    THEN Acts([st EXCEPT !.at = "/login?next=/pricing"], {}, {})
    ELSE Acts([st EXCEPT !.loading = t], {}, {Ask("checkout", [tier |-> t, annual |-> st.annual])})

\* In the modal of the gateway: a payment calls back, a failed one or a closed
\* modal does not.
Pay(m) ==
  ActsOn([srv EXCEPT !.orders[m.order] = "captured"], [st EXCEPT !.modals = @ \ {m}], {Ask("verify", m)})

PricingClick ==
  /\ OnPricing
  /\ \/ /\ st.modals = {}
        /\ \/ Acts([st EXCEPT !.annual = ~@], {}, {})
           \/ Acts([st EXCEPT !.at = "/login"], {}, {})
           \/ \E t \in PaidTiers \ {st.loading} :
                /\ Cardinality({o \in Orders : srv.orders[o] = "none"}) > Cardinality(Asking({"checkout"}))
                /\ ChooseTier(t)
     \/ \E m \in st.modals : Pay(m)
     \/ \E m \in st.modals : Acts([st EXCEPT !.modals = @ \ {m}], {}, {})

PricingServe(c) ==
  \/ /\ c.kind = "checkout"
     /\ \E o \in Orders : srv.orders[o] = "none" /\ Replies(c, o, [srv EXCEPT !.orders[o] = "created"])
  \/ c.kind = "script" /\ Replies(c, "loaded", srv)
  \/ /\ c.kind = "verify"
     /\ Replies(c, "active", [srv EXCEPT !.orders[c.arg.order] = "granted"])

Opened(order, t) == [st EXCEPT !.loading = None, !.modals = @ \cup {[order |-> order, tier |-> t]}]
NotStarted       == [st EXCEPT !.loading = None, !.told = @ \cup {"could not start"}]

\* A script element that is there counts as loaded, though it may still be
\* loading, or have failed.
CheckoutCreated(c) ==
  /\ c.kind = "checkout"
  /\ IF Threw(c) \/ st.script \in {"loading", "broken"}
       THEN Takes(c, NotStarted, {}, {})
       ELSE IF st.script = "ready"
         THEN Takes(c, Opened(Answer(c), c.arg.tier), {}, {})
         ELSE Takes(c, [st EXCEPT !.script = "loading"], {},
                    {Ask("script", [order |-> Answer(c), tier |-> c.arg.tier])})

ScriptLoaded(c) ==
  /\ c.kind = "script"
  /\ Takes(c, IF Threw(c) THEN [NotStarted EXCEPT !.script = "broken"]
              ELSE [Opened(c.arg.order, c.arg.tier) EXCEPT !.script = "ready"], {}, {})

Verified(c) ==
  /\ c.kind = "verify"
  /\ Takes(c, IF Threw(c) THEN [st EXCEPT !.told = @ \cup {"contact us"}]
              ELSE [st EXCEPT !.told = @ \cup {"active"},
                              !.at = IF c.arg.tier = "team" THEN "/settings/team" ELSE "/dashboard"], {}, {})

PricesArrive(c) ==
  /\ c.kind = "pricing"
  /\ Takes(c, IF Threw(c) THEN st ELSE [st EXCEPT !.pricing = Answer(c)], {}, {})

PricingArrive(c) == PricesArrive(c) \/ CheckoutCreated(c) \/ ScriptLoaded(c) \/ Verified(c)

\* Whoever paid has the plan, and nobody else is told so.
PricingTrue ==
  /\ CardCurrency = srv.pricing
  /\ \A o \in Orders : srv.orders[o] # "captured"
  /\ "active" \in st.told => \E o \in Orders : srv.orders[o] = "granted"
=============================================================================
