# A TLA+ model of the Aevrin MCP scanner

Aevrin scans MCP servers before an AI agent may use them. A user asks for a
scan from the dashboard, the CLI uploads one it ran itself, and a hook inside
Claude Code asks before every install whether a target is known to be safe.
The safety of the product rests on what its rows say, and its use on what its
pages say of those rows: a verdict that belongs to another run, a page that
calls a list empty before it has asked for it, a key that was approved by one
person and minted for another are each an answer nobody earned. This project
models how rows and pages come to say what they say, checks the models with TLC
and proves with TLAPS what they say of every instance.

## 1. Inventory

Paths are relative to `src/`; `api/` is `backend/api/aevrin_api/`, `web/` is
`frontend/src/`.

| Component | State it keeps | Operations | What is hard about it | What makes it correct |
|---|---|---|---|---|
| Scan execution (`api/services/scan.py`) | `scans`, `scan_stages`, `findings`, `hook_cache` rows; `_SCAN_SLOT` | `start_scan`, `_run_and_persist`, `_ensure_terminal` | a worker thread writes the row while requests and the reaper write it; every write may be lost, or land and time out | a verdict is published once, by its own run; no row stays open |
| Scan controller and scheduler (`api/controllers/scan_controller.py`, `api/routes/scheduler.py`) | the same rows | create, cancel, delete, clear, reap | a check, an await, an unfiltered write | a cancel, a sweep or a deletion never leaves half a verdict |
| Hook gate (`api/controllers/hook_controller.py`) | `hook_cache`, `overrides`, a queued first scan | `check_cache`, `_decide_from_cache`, `create_override` | two reads that are not one snapshot; the script fails open | clean is only said of a run that earned it |
| Quota (`api/services/quota.py`, `api/integrations/redis_client.py`) | Redis counters on two instances that share nothing; the count of `scans` rows | check-and-increment, precheck | primary, fallback and durable count disagree; the count is taken before the row exists | a plan's allowance is not exceeded |
| CLI upload (`api/controllers/cli_controller.py`, `backend/cli/aevrin_cli/services/upload.py`) | a scan id minted by the client | upload, three attempts | a retry overlaps the attempt it repeats; the handler stops half way | one upload is one scan and one credit |
| Billing (`api/controllers/billing_controller.py`) | `payments`, `accounts.tier`, `paid_until`, `seats` | checkout, verify, webhook, comp grant | verify and webhook race by design; claim and grant are two writes; the new date is computed from an old read | one payment grants one cycle |
| Workspaces (`api/controllers/org_controller.py`, `web/views/workspace`) | members, invitations, roles; what the page loaded last | invite, revoke, accept, leave, remove, role and its deletion | each handler checks what it read and then writes | roles in use exist; members fit the seats; the page does not offer what it took away |
| Device login (`api/controllers/device_controller.py`, `web/views/device`) | `device_codes`, `api_keys`; the CLI's poll | start, look up, approve, poll | a poll delivered twice; two people with one code; claim and mint are two writes | one approval yields one key, for who approved |
| Sign-in (`web/views/login`, `web/app/auth`, `web/shared/lib/rate-limit.ts`, `.../supabase/proxy.ts`) | the answers of seven server actions; attempt counters on two Redis instances; the session cookie | password, sign-up, codes, reset, provider, mailed link | which card is shown is a chain of answers that are never cleared; INCR and EXPIRE are two commands | guesses within the limit; no card without its code; no lockout for good |
| Scan pages (`web/views/scan-new`, `scan-detail`, `scan-history`, `finding-detail`) | React state per page; an interval that polls | start, watch, cancel, delete, triage, explain | answers that overtake each other; a page that stops polling | it stops with the findings, hides only what is deleted |
| Account pages (`web/views/api-keys`, `ai-providers`, `onboarding`, GitHub cards) | rows, one dialog, marks of what is under way | create, revoke, rotate, remove, connect | a dialog that is closed and opened for something else while its request runs | spinners end; what is shown is what the server has |
| Billing pages (`web/views/billing`, `web/widgets/pricing`) | the plan; archive preferences in localStorage | archive, restore, hide, check out | two tabs write one localStorage key; a gateway's modal between two requests | the tabs agree; a verified order is on the plan |
| Dashboard and usage (`web/views/dashboard`, `usage`) | the join of scans, findings and stages | load | one request per scan, any of which may fail | figures add up |
| Agent posture (`web/views/agents` and its siblings; `api/controllers/agent_controller.py`) | reported computers, their servers, skills, rules, paths | list, filter, forget | an empty list about risks reads as safe | nothing is called empty before it was asked |
| Marketplace (`web/views/marketplace*`, `api/services/marketplace/`) | listings, saved marks, suggestions, reports | browse, save, report, suggest | pages asked for by a button and by a filter at once | a page shows the filter it names |
| Registry administration (`web/views/admin-marketplace*`) | drafts, published and archived items, categories, suggestions, reports | publish, archive, decide, bulk change, edit | a form that is saved long after it was filled; a preview that is confirmed later | a colleague's change survives; the bar of the preview is the bar applied |
| Account administration (`web/views/admin-*`, `api/services/admin_auth.py`, `api/controllers/admin_controller.py`) | sudo window, filters, one account | verify, enrol, filter, change plan, seats | a debounce without cancellation; a window that ends while a code is typed | the gate shows what the session is |
| Status page (`frontend-public/`, `api/services/status.py`) | hourly checks; the probes of a visitor | probe, history | an outage of the API is a gap, not a failure | a failed check is visible, a gap is no success |
| Page frame (`web/widgets/app-shell`, `public-navbar`) | the identity of the first render, groups, drawer, plan badge | navigate, sign out | the layout outlives navigation | no page that needs a session without one |
| Pipeline, grading, triage, AI calls, registry sync, agent parsing, reports, clients, CLI front end, migrations | | | | section 8 |

### How they interact

A request handler inserts a `scans` row and registers a background task; the
task waits for the one slot of the instance, runs the pipeline in a thread and
writes the result through a REST client of its own (PostgREST: each call is one
statement, and two calls are never one transaction). The hook reads
`hook_cache` and `findings` in two calls. The scheduler calls the reaper. Quota
is counted in Redis, and in the `scans` table when Redis cannot be reached.
Payments change the tier that quota and seats read. Nothing in the program holds a
database lock or a transaction across two calls, so **every await is a point
where any other actor may run**: that is the grain of the server models. Pages
hold what they last loaded; they learn of nothing else until they load again, and
the answers of their requests come in any order or not at all: that is the grain
of the page models.

## 2. Plan

| Step | Module | Question | State |
|---|---|---|---|
| 1 | `ScanLifecycle`, `VerdictBoard`, `ScanLifecycleProofs` | rows, worker, cancel, delete, clear, reaper, restarts | done, proved |
| 2 | `Billing`, `AccountProofs` | claim, grant, paid time | done, proved |
| 3 | `UploadQuota`, `UploadQuotaProofs` | CLI retries against the quota counters on two Redis instances | done, proved |
| 4 | `ScanServer`, the scan pages, `ScanTab`, `ScanTabProofs` | what a tab shows of running, deleted and triaged scans | done, proved |
| 5 | `DeviceLogin`, `DeviceApproval`, `DeviceLoginProofs` | start, approve, poll, expiry, in the terminal and the browser | done, proved |
| 6 | `AuthRateLimit`, `SignIn`, `SignInProofs` | the login page and its limiter | done, proved |
| 7 | `Organization`, `WorkspacePage`, `AccountProofs` | seats, invitations, roles; the page over them | done, proved |
| 8 | `Visit` and the modules of `Console`, `ConsolePageProofs`, `ConsoleProofs` | every other page of the console, the status page, the frame | done, proved |
| 9 | `HookGate`, `ScanLifecycleProofs` | the hook's three reads, overrides and the queued first scan against the scan service | done, proved |
| 10 | `ScanPipeline`, `ScanGrade` | stages; parsing, grouping and grading as functions against reference definitions | planned |

## 3. Modules and their code

| Module | Models | Code |
|---|---|---|
| `ScanLifecycle` | one account's scan rows, the workers, the requests and the reaper | `api/services/scan.py`, the writers of `api/controllers/scan_controller.py`, the foreign keys of `0001_init.sql` |
| `VerdictBoard` | what the scan service promises: a verdict is published once, and one that was withdrawn stays withdrawn | abstract |
| `HookGate` | the checks of the hook, overrides, triage, over `ScanLifecycle` | `hook_controller.py`, `finding_controller.py`, the CLI's `hook_script.py` |
| `Billing` | one account's orders and the writers of its plan | `api/controllers/billing_controller.py`; `change_plan` and `set_seats` of `admin_controller.py` |
| `UploadQuota` | one account's CLI uploads in one billing period, the client's retries, the counters on two Redis instances | `services/upload.py` of the CLI, `cli_controller.py`, `quota.py`, `with_redis` |
| `ScanServer` | what a browser can see of the scans: rows, findings, workers, handlers | `scan_controller.py`, `finding_controller.py`, `ai_controller.py` as the pages call them |
| `ScanDetailPage`, `ScanListPages`, `FindingPage` | one page each (the list pages are new-scan and history) over `ScanServer` | `web/views/scan-detail`, `scan-new`, `scan-history`, `finding-detail`, `web/features/ai-explain` |
| `ScanTab` | one tab that walks through these pages | composition |
| `DeviceLogin` | the rows of device codes and keys, the CLI's polls | `device_controller.py`, the CLI's `services/auth.py` |
| `DeviceApproval` | the page that approves a code, a tab per person, over `DeviceLogin` | `web/views/device` |
| `AuthRateLimit` | the fixed windows on one address, on two Redis instances | `web/shared/lib/rate-limit.ts` |
| `SignIn` | the login page, its server actions, the routes back from a provider or a mail, the proxy | `web/views/login`, `web/app/auth`, `proxy.ts` |
| `Organization` | members, invitations, roles and seats under interleaved handlers | `org_controller.py`, `membership.py` |
| `WorkspacePage` | the workspace page of one member, over `Organization` | `web/views/workspace` |
| `Visit` | what pages have in common: React state, requests in flight, a server that answers in any order | the conventions of `web/shared/api` and of React effects |
| `AccountPages` | API keys, AI providers, onboarding, repository picker, GitHub card | the views of these names, `api_key_controller.py`, `services/ai/credentials.py` |
| `BillingPages` | billing, its history and archive, checkout | `web/views/billing`, `web/entities/billing`, `web/widgets/pricing` |
| `OverviewPages` | dashboard and usage | `web/views/dashboard`, `web/views/usage` |
| `PosturePages` | agents, one agent, devices, skills, servers, rules, attack paths | the views of these names, `agent_controller.py` |
| `CatalogPages` | the public registry: browse, item, saved, suggest | `web/views/marketplace*` |
| `RegistryAdminPages` | administration of the registry and the editor of an item | `web/views/admin-marketplace*`, `api/services/marketplace` |
| `AccountAdminPages` | the admin gate, lists, one account | `web/views/admin-*`, `admin_auth.py`, `admin_controller.py` |
| `StatusPage` | the public status page and the hourly checks behind it | `frontend-public/`, `api/services/status.py` |
| `AppShell` | the frame around the pages, navigation, signing out | `web/widgets/app-shell`, `public-navbar`, `proxy.ts` |
| `Console` | one visit to any of the pages from `AccountPages` on | composition |
| `ScanLifecycleProofs` (with `HookGate`), `AccountProofs` (`Organization`, `WorkspacePage`, `Billing`), `UploadQuotaProofs`, `ScanTabProofs`, `DeviceLoginProofs`, `SignInProofs`, `ConsolePageProofs`, `ConsoleProofs` | section 6 | proofs |
| `MC*` | values of constants and symmetry of the runs | instances |

`PROJECT.json` maps every definition to the lines it stands for.

### ScanLifecycle

*State.* `status`, `graded` and `error` are columns of `scans`; `stored` says that
the critical and high findings of the scan are in `findings`; `cache` is
`hook_cache` by target; `old` is the comparison of `created_at` with
`STUCK_AFTER`. `pc`, `outcome` and `saved` are the locals of a worker, `slot` is
`_SCAN_SLOT`. `reaping`, `cancelling`, `deleting` and `clearing` are the locals of
requests that have checked something and not written yet. `lost` and `restarts`
only count against their bounds.

*Actions.* One per database call, in the code's order. A worker takes the slot
(`AcquireSlot`), patches `running` (`MarkRunning`), runs the pipeline
(`PipelineReturns`, or `PipelineRaises` and `MarkBroken`), writes the verdict
(`PersistScan`) and the cache (`UpsertCache`), or marks the row failed if the
verdict's write raised (`MarkUnsaved`), reads the row back (`VerifyTerminal`,
`ForceFailed`) and holds the slot while triage and DefectDojo run (`Enrich`).
Requests are `Create`, `CancelCheck` and `CancelWrite`, `DeleteCheck`,
`DeleteCached` and `DeleteRow`, `ClearCheck`, `ClearCached` and `ClearRows`; the
scheduler is `ReapSelect`, `ReapRow` and `ReapEnd`. `Patch` keeps the two facts
about a PostgREST `PATCH ?id=eq.x` the properties depend on: it asks nothing
about the row's status, and it succeeds without effect when the row is gone.

*Faults.* A best-effort write may be lost. The required write may also land and
time out. An insert may land and its answer be lost, which leaves a row and no
worker. `Restart` replaces the process: every worker, request and held slot is
gone, the rows stay.

*Abstractions.* The pipeline has four outcomes, which are what the verdict, the
cache and the hook tell apart. Stage rows, titles, timestamps and scores are left
out. `Age` is enabled only where half an hour can pass: in the queue behind
another scan, and on a row nobody will touch (a launch is capped at five
minutes). `Enrich` is one step, because it writes none of the modelled columns.

### HookGate

`check` is a handler of `/hook/cache` with what it has read: the cache row
(`ReadCache`), then the findings of the scan that row named (`ReadFindings`), and
only for a denial the overrides (`ReadOverrides`). Between these calls scans of
`ScanLifecycle` finish, rows are deleted and findings triaged. Without a row the
handler spends a credit (`Count`) and queues a scan (`QueueFirstScan`, which is
`ScanLifecycle!Create`). `dismissed` are scans whose severe findings were all
triaged, `waived` the targets with an override. Ghosts: `known` and `spared` of a
check, and `promised`. An override is keyed as the denial names the target; typed
otherwise it is another target. Roles are a refusal at any time. The hook lets
pass whatever is not a denial, an error and a silence included (`Denied`).

### Billing

*State.* `payment` is `payments.status` by order; `account` is the row's tier,
paid-until month and seats; `handler` is one settlement per order and channel with
the date it computed before it claimed; `gift` is the `change_plan` in flight with
the seats it read. `captured` is the gateway's. `granted`, `confirmed`, `credit`
and `lost` (the orders whose handler died between its claim and its grant) record
what happened and are read by no guard.

*Actions.* `Checkout` inserts the row before its id is known to anyone. `Begin`
reads row and account and computes the date; `Claim` is the compare-and-set on
`created`; `Grant` writes the account; `Reread` is `/verify` looking at a row it
could not claim. A channel can begin again whenever it is idle, so deliveries are
repeated at will. `Abort` is a call that raised or a process that was replaced, at
any step of a handler.

*Abstractions.* Months are numbers: that a month has 28 to 31 days, prices and
currencies are left out. The webhook's other events acknowledge and change
nothing.

### UploadQuota

*State.* `count` is the period's counter on each Redis instance and `reach` the
instances that answer. `handler` is one per attempt: where it is, whether it found
the scan's row (`existing` in the code), and the count it drew. `rows`, `stored`
and `cache` are the scan, its findings and the target's `hook_cache` row. `early`
are the uploads whose `created_at`, which the client sends, lies before the
period: the counters count them, the history (`Visible`) does not. `tried` and
`result` are the client's. `drawn`, `uploaded`, `deleted`, `overlapped` and
`returned` record what happened and are read by no guard.

*Actions.* `Send` is an attempt, the first or one after a 5xx; `Resend` is an
attempt after a timeout, while the one before goes on. A handler reads the row
(`Select`), takes a credit (`CountOnPrimary`, which decides alone;
`CountOnFallback` or `CountNowhere`, and then `CheckHistory`), writes the scan
(`WriteRow`, an insert or an update after what it found), its stages and findings
(`WriteFindings`) and the cache (`WriteCache`), which is the answer. `Fail` is a
call that raised or a process that was replaced. `Flip` is an outage or its end,
`Delete` the user.

*Abstractions.* All uploads are of one target and name at least one finding. The
plan's limit is a number; an account without one is never refused. The body was
accepted, and the request passed the rate limit. The dashboard's and the hook's
buckets run the same counting code under other keys.

### The tab over the scans

`ScanServer` has one step for each handler and keeps the order in which rows
change; `ScanLifecycle` is where the awaits inside the handlers are. A page is its
React state and its unanswered calls. `Loads` are the calls of `load()` that can
be unanswered at once: with one, the answers are in order, and the run says what
holds then; that two may cross is in section 7. `Presses` are the deletions that
can be under way at once, of one scan or of several, since the page marks the last
one alone (`deletingId`). Leaving a page discards its state
and its answers, since a setState on an unmounted component does nothing.

### DeviceLogin and DeviceApproval

*State.* `code` is `device_codes.status`, `owner` its `user_id`, `keys` the
minted rows. A poll is a record with its step, twice over: the request the
terminal sent and one delivered again. *Actions.* `ReadCode`, `Claim` and `Mint`
are the three calls of the poll handler; `ApproveRow` is the update whose filter
on `pending` decides whose code it is. `Label` is the text of the form, which
belongs to a lookup and not to the code (section 7). `DeviceTypeOK` and the page's
`TypeOK` document the state; the run checks the properties above them.

### SignIn

Next runs server actions one at a time (`running`); each keeps its last answer
(`st`) until it is submitted again, and `Screen` is the chain of early returns
that picks a card. `AuthRateLimit!Attempt` is INCR, and EXPIRE if it counted to
one, on the primary, and on the spare if the primary fails. The accounts and the
mail belong to Supabase and are modelled from how the actions use them.

### Organization and WorkspacePage

A handler is a sequence of reads and checks (`Checks`), one step each (`Check`;
`Arrive` is the first), and then of writes; other handlers run in between, and
what holds at a write are the constraints of migration 0035. The caller's
membership, with its role, is taken as one read. The seats are counted as
`seats_used` counts them: the members in one step, the open invitations in
another, the limit before or after as the handler has it. `strayed` records who
joined on an invitation that ended (was withdrawn, expired or used) between the
check and the write, or after a count that missed somebody, because they joined, and
their invitation ended, between its two reads. The ghost `held` of a request follows
both. The code allows both, and `MembersWithinSeats` excepts exactly these people.

`WorkspacePage` shows what a `load()` brought, offers what that allows
(`Offers`) and loads again after its own changes. Nothing holds a click back:
several requests (`Pages`) and several loads (`Loads`) are under way at once, and
loads answer in any order. Of the reads of `fetchWorkspace` two decide what is
offered, the membership and the invitations, each taken as one moment. The busy
flags of panels and the "no seats left" of the invitation form are left out, so
more can be clicked in the model than on the page. `gone` are the invitations the
page revoked, `newest` and `current` say which load it asked for last and whether
that one is what is shown.

### Visit and the pages of Console

A behaviour is one visit to one page. `st` is the page's state, `calls` its
requests with their answers, `srv` the records it works on, chosen at mount:
what happened before the visit is that choice. `Acts` is the reader, `Fires` a
timer, `Replies` the server, `Takes` an answer that reaches the page, `Fail` a
request that throws, `Elsewhere` and `OtherTab` other sessions. Requests that an
effect no longer listens to (its `cancelled` flag) are dropped. Two requests of
one kind may be handled, and their answers delivered, in either order:
`overtaken` remembers that this happened, because most pages do nothing about it.

The pages are checked together, by one set of promises (`ShownIsTrue`,
`EmptyIsEarned`, `BusyEnds`) that each page spells out for itself (`KeysTrue`,
`BillingEmpty`, `GateBusy`, ...), because they are written to one pattern and
promise the same thing. `ShownIsTrue` is about a page at rest, whose requests were
answered in order, none having failed and nobody else having changed anything: what
it says then must be what the server has, which fails as soon as an action forgets to
load what it changed or shows what it did not do. Two of its conjuncts hold
whatever others do; one of them says that saving an item leaves what a colleague
changed meanwhile, except that `content` is one key for nine editor fields, sent and
replaced whole (`KeyOf`, `Carried`): once one of them is typed into, the others are
written back with it (section 7).

`EmptyIsEarned` covers every list and panel. Of the registry's administration
it says less, because the page does less: what comes first, the list or the panels,
shows both, so a list on its way may say "No items yet", dimmed and marked
busy (`admin-marketplace-page.tsx:186`, 313-318), and panels on their way "Nothing
waiting". What is promised there is that no list says so unmarked, and that
nothing is said of either while neither has come. `BusyEnds` is about
every spinner and skeleton; the skeletons of the billing page and of the GitHub
card alone may stay, and only after a request has failed (section 7).

## 4. Runs

| Run | Instance | Shows |
|---|---|---|
| `ScanLifecycle` | 2 scans of 1 target, cancel and delete, reaper, 1 lost call, 1 restart | a grade is there exactly on completed rows, cached verdicts are those of their scan's run, an acknowledged verdict is never reopened, and the rows implement `VerdictBoard` |
| `HookGate` | 1 check at a time, 1 credit, a first scan and another, 3 outcomes, deletions | what a check answers agrees with what held meanwhile; the scan it promises ends with a cached verdict, or failed or deleted |
| `ScanLiveness` | 2 scans, clear, 2 lost calls, 1 restart | every open row is closed for good; whoever waits for the slot gets it |
| `Billing` | 2 orders, 2 channels, 1 admin change, 1 tick, 1 handler that dies, at any step | one grant per payment, no unpaid time; every order marked paid or confirmed is granted, about to be, or lost with the handler that claimed it, and every captured order is granted or lost that way |
| `BillingOverlap` | 2 orders | *violated*: two settlements write over each other's date |
| `UploadQuota` | 2 uploads of 3 attempts, a plan of 1, an outage and its end, 1 timeout, 1 failure, 1 delete, any of the uploads begun before the period | no more is admitted than the allowances handed out; an outage alone admits nothing beyond the plan but uploads its count cannot see; what was answered or cached is complete |
| `ScanTab` | 2 scans of which 1 reaches the slot, 1 failed call, 1 `load()` at a time, 2 deletions at once | a page stops polling only with the findings, hides only what is deleted, starts one scan per visit, keeps an explanation, and comes to rest |
| `DeviceLogin` | 1 code, 2 people, a poll delivered twice, 1 lost call | one key per approval, for who approved first, who alone is told so; an approved terminal is signed in |
| `SignIn` | limits of 1 and 2, 1 fault of Redis, paths to a public and a protected page | guesses within the limit, no card waits for a code that was not sent, lockouts end, whoever was sent to sign in lands where they wanted |
| `Organization` | 3 people, 1 role, 2 handlers at once, a read at a time, 1 or 2 seats | roles in use exist; members fit the seats, but for those named in section 3 |
| `Workspace` | the owner's page (invite, revoke) with 2 requests and 2 loads at once, 1 other handler that invites | once its newest load is what it shows, the page does not list what it revoked |
| `Console` | every page, 3 clicks, 1 failed request, 1 change from elsewhere | what is shown is what the server has; nothing is called empty before it was asked (one page excepted); every spinner ends (two skeletons after a failure excepted) |

**Why the bounds are enough.** The slot admits one worker, so two scans already
give the interesting pair: one that runs or has finished, and one that waits,
with both writing one cache row. Requests touch one scan each, except the clear,
which takes all of them. One lost call enters each failure
branch of the worker, and the second one, in `ScanLiveness`, is what it takes for
`_ensure_terminal` to find a row open (the verdict and the mark both lost); one
restart can fall between any two steps. In `ScanLifecycle` all outcomes but the clean one differ
only in data no property of that run reads; `HookGate`, whose properties read it,
has three, because a report without a grade blocks like a serious one while its
findings are open and like an incomplete one after. There the first scan and the
other one (`FirstScans`) are what it takes for a verdict to be replaced between
two reads; no call is lost (a lost write of findings does make a serious scan
read as clean, section 7), and no scan grows old. Its fairness is that threads
run: the promise needs neither the reaper nor the clock. With two channels a settlement races the other channel and, by
beginning again, its own repetition; a third channel does what the second does,
and the theorems cover it. One month on the clock separates "from now" from
"from what is paid".
In `UploadQuota` a plan of one upload makes the second one the one to refuse. One
timeout makes two attempts of a scan run at once; one failure leaves a half
written upload or a count whose answer was lost, for the next attempt to find; two
flips are an outage of either instance and its end, or of both. The theorems have
no bound.

In `ScanTab` the scan that never reaches the slot (`Started`) is the queued one
that a user deletes. In `DeviceLogin` two people and two deliveries are what each
race takes; codes share nothing but the person. `SignIn` has limits of one and two so that
the attempt that is refused comes at once and the two limits on one key differ;
counters stop where every limit is passed. `Organization` has two handlers at once
(`Slots`), which is what a check and a write, or the two reads of a count, need to
be interleaved with, any operation from anybody (`Elsewhere`), and as many seats as
are needed for the third person to be one too many; its theorems have any number
of each. In `Workspace` two requests and two loads (`Pages`, `Loads`) are what it
takes for a revocation to fall between the read of a load and its answer, and for two
loads to cross; `Clicks` and `Elsewhere` are the operations that touch the list of
invitations, and the theorem has them all. `MCView` leaves the ghosts
`strayed` and `held` out of the states that run tells apart: nothing it checks reads
them. Slots, pages' requests and loads are symmetric.

In `Console`, `MaxClicks` is three: one click to change something, one to do
something else before the answer, one to undo. Cards of an account
(`MaxCardClicks`) and rows and panels of the registry (`MaxActions`) have two.
Lists have the fewest rows that tell the cases apart (`KeyIds`, `Payments`,
`Orders`, `Catalog`, `Items`, `Worked`, `Agents`, `History`, `Urls`, `Codes`,
`Days`), pages of lists have one to three rows (`PageSize`), a bulk change
publishes one item per call (`MaxPerCall`) at one of two bars (`Bars`), and the
frame has three links out of its sidebar (`Links`). One failure meets every
request of a page; one change from elsewhere meets every step.

**Deadlock** is not checked: an instance stops when its scans are done, its
orders granted and its clock at the bound, its uploads answered, its code used
up, or its visit over.

## 5. Fairness

`ScanLifecycle!Fairness` is weak fairness of each thread (`AcquireSlot`,
`Worker`), of the clock and of the reaper, which the scheduled workflow calls
every hour. Nothing is assumed of users. Weak fairness of `AcquireSlot` is enough
on an instance with two scans, since the one that does not hold the slot is the
only one that waits for it; an asyncio semaphore serves its waiters in order,
which the model does not use. `Billing!BillingFairness` says that a handler that started
runs to its end, and that the gateway delivers its event again while the order is
unclaimed. It says nothing of `/verify`: the customer's browser may be closed.

`ScanTab!Fairness`: workers, the reaper, the interval and answers. `DeviceApproval!Fairness`:
the terminal's loop sends and reads, the server answers. It is strong for an
answer that is not "slow_down", because the rate limiter may say so at any poll
and its window passes again and again. `SignIn!FairSpec` has the expiry of
counters alone, which Redis does by itself. `Console!Fairness`: the server
handles what reaches it, browsers deliver or fail a request (fetch settles in the
end), timers run out. Nobody has to click anywhere.

## 6. Proofs

All theorems are of the specifications above, for any number of scans, targets,
checks, orders, channels, codes, people, roles, handlers, pages' calls, faults and
any clock, from the named assumptions on constants. A proof found one of them: the
hook's idle check names some target, so `HookGateAssumption` has at least one.
`WorkspaceAssumption` (a request of the workspace page is one of the requests) is
not used by the theorems of `OrgSpec`. Every inductive invariant was also
checked by TLC on the instances of section 4.

* `ScanLifecycleProofs!TypeCorrect`, `GradeSafety`, `CacheSafety`, `ClosedSafety`
  rest on `Invariance`: `Spec => []IInv`. The three properties are not inductive
  by themselves. That a cached verdict is its run's needs to know that `outcome`
  is set when the cache is written (`Phases`); that no second write of a verdict
  follows needs the worker's place (`VerdictOwned`); that the entry's scan stays
  closed needs `saved` (`CachedIsSaved`); and the single slot (`SlotHolder`) says
  which worker can be past `async with`.
* `Refinement`: `Spec => Board!Spec`. Each step moves at most one place of the
  board to a verdict, and only from `pending`, or withdraws some places.
  `VerdictOwned` is what forbids a verdict on a place that was withdrawn.
* `SparedSafety` and `AnswersSafety` of `HookGate` rest on `HookInv`, which extends
  the invariant of the scan service: every step of the gate is one of the service
  or leaves it alone. What makes three separate reads fair is that the cached
  entry can only name a scan whose run is over (`EntryIsSaved`), so its outcome no
  longer changes between the reads, and that findings disappear only with their
  row or by a person (`SevereIsStored`). The latter needs that no database call
  was lost, and so `AnswersSafety` says `lost = 0 => AnswersAreFair`: the findings
  are written best effort (section 7), and TLC finds the violation at once when one call may be
  lost. `SparedSafety` has no such hypothesis.
* `AccountProofs!GrantSafety` and `TimeSafety` rest on `Settlements` (what a
  handler in flight holds is paid for) and `Ghosts`. `TimeSafety` is the
  surprising one: settlements use stale readings, and the plan still never
  outruns what was bought, because a stale reading is never later than a fresh
  one and each claim adds its own months.
* `HonourSafety` and `ConfirmedSafety` hold with handlers dying anywhere. A claimed
  order belongs to one handler (`Settlements`, and the uniqueness that
  `OneGrantPerPayment` adds), which grants it or loses it; nothing else writes the row again,
  and nothing returns a lost order to a handler, since a later claim finds it paid.
* `UploadQuotaProofs!AllowanceSafety` rests on two facts: an instance lets
  through no more attempts than it counted, up to the plan (`Tickets`), and
  whoever inserts a row was let through by a source (`Admitted`), which survives
  the gap between the decision and the insert. An injection from uploads to
  attempts then bounds the one by the other. `CompleteSafety` and `CachedSafety` need
  `Kept`: between the findings and the cache, only a deletion removes what the
  handler wrote. `FailoverSafety` needs `FitsThePlan`: the rows the history can see fit the
  plan (`RowsFit`); while the primary has been there all the time it has counted every
  row, with the one about to be inserted (`PrimaryKnows`); once it is gone, only the
  history decides, and it is compared when nobody else is between decision and insert
  (`OneAtATime`). What breaks
  either half (overlapping attempts, a primary that returns, a deletion) is what
  the property excepts, and `OrderlyBefore` says that it stays broken.
* `ScanTabProofs` has one invariant per page and lemmas for a page that a step
  leaves alone, leaves or opens. `VisitSafety` is not inductive: `VisitCounted` says
  at which steps of the submission the next row is not yet paid for by a failure,
  and that the button is off from the click on. `DeletionSafety` needs that an answer on
  its way is still true when it arrives (`DeletionsTrue`): a row that was deleted
  never returns, though a worker may write to it, and while a clear is
  unanswered the tab is on the page that cannot start a scan (`OnePage`).
  `ExplanationSafety` needs that a short explanation is only asked for while there
  is none (`BriefFirst`).
* `DeviceLoginProofs`: `KeySafety` rests on `OneMinter`. Of all polls of a code one holds the
  right to mint, from the claim, which uses the code up, to the insert.
  `ApproverSafety` and `ToldSafety` rest on `PollsKnowOwner` and `RequestsKnowOwner`:
  a poll carries the owner it read before the claim, and a page the answer to its
  own update, and neither can be about somebody else by the time it is used,
  because the filters on `pending` and `approved` let an owner be written once.
* `SignInProofs!GuessSafety` rests on `Judged`: the guesses that were judged are at
  most what the primary counted for verifying, plus one for each attempt at which
  it failed; that the spare is asked instead, or the counter is raised and the
  answer lost, costs a fault each time. `CodeSafety` needs `CodeEarned` (the card of
  an account without a confirmed password is there because a code was mailed, or
  because a lookup failed and the answer left that open) and `VerifyAsked` (a code
  is being checked only while its card is there). `LandingSafety` needs that a
  visitor who is away at a provider has somewhere to come back to (`Heading`).
* `AccountProofs!RolesSafety` needs only the types: the writes that set a role
  look at it as they write, and the delete looks at the members. `SeatsSafety` is
  not inductive, because an acceptance counts the seats in three steps and takes one
  in a fourth. `SeatsInv` bounds the claims: the members who did not stray, and the
  acceptances whose count is within the plan while their invitation has been open since they
  read it (`Claims`; `HeldAreOpen` says it still is). The step that can add a claim
  reads the open invitations, and with the members read before them the count
  includes every claim, because `Complete` fails, and `held` with it, when
  somebody has joined and lost the invitation between the two reads. No write adds
  one, since inserting the member only turns one claim into the other. So the
  pending invitation is what keeps a seat for whoever is accepting it, and
  `invite_member` need not be atomic. `PageKeepsPromises` carries both over to the
  specification with a page, whose requests are checked when they arrive.
* `AccountProofs!PageSafety` needs that what the page revoked is gone from three
  places (`GoneIsGone`): the rows, the newest load if it has read, and the list if
  that load is the one shown. Loads and requests exclude each other nowhere; what the proof uses
  is that the answer to a revocation asks for a load that is newer than every read
  before it.
* `ConsoleProofs!EmptySafety` rests on `FirstInv`, one conjunct per page that can
  say "nothing": while the request with the number 1 is on its way, the list is
  still what the page was mounted with. Requests have numbers (`VisitType`), so a
  request that a click adds is never the first one, and an answer to a later one
  that comes before it sets `overtaken`, which the property excepts. For the registry's
  administration the conjunct is `AdminRegistryFirst`: while the first list is on its
  way the page shows none (`shown`), and while the first panels are too
  (`FirstListAwaited`) it still loads.
* `ConsoleProofs!ShownSafety` rests on `TrueInv`. `ShownIsTrue` speaks of the moment when
  nothing is under way and is not inductive for any page: what a page will show
  depends on answers that exist already. So each page has a core (`KeysCore`,
  `GateCore`, ..., gathered in `PageCore`) about calm visits: nothing failed, no
  answer was overtaken, nobody else changed anything (`Calm`). For each part of the
  page it says that it is what the server has, or that a request for it is on its way;
  and that such a request, if it was handled already, holds what the server has
  now. On a page without writes each list is asked for once (`Alone`, `Sought`). On a page that
  writes, several loads may be under way: of those the one asked for last will be
  shown last, so its answer is the one that counts (`Latest`), or a write was handled whose
  answer has yet to arrive and will ask for a new load (`KeysChanged` and its like). When no
  request is left, only "is what the server has" remains. Two conjuncts hold without calm:
  `BillingShared` (a tab knows what is in the browser, or is about to be told) and
  `EditorKept` (what the editor sends carries a colleague's field only with its key,
  and a key of one field only when that field was typed into).
  Both theorems hold for any `MaxClicks`, `MaxFailures` and `MaxOthers`; the rows of a
  page, and the clicks on account cards and registry rows, are the bounds of section 4.
* What the proofs of the pages found in the models, and was changed there: on the
  lists of posture the condition of a filter was a CASE with two arms true at once,
  of which TLC takes the first; the five worst findings were cut from a sort whose
  order was not total, where the code's sort is stable; and what the four marks
  (`NoData`, `None`, `Waiting`, `Failed`) are not equal to was nowhere said. It is
  now assumed by name (`MarksAssumption` in `Visit`, and beside the data of each
  page), and TLC evaluates these assumptions in the run `Console`. They are
  needed: a list that equals the mark of a list not loaded yet would be shown as
  skeletons forever.

Every safety invariant of every run is a theorem, `AnswersAreFair` under the
hypothesis said above. What TLC alone shows are the
liveness properties (`EveryScanCloses`, `WaitingScansStart`, `PromiseKept`,
`CapturedIsGranted`, `PageSettles`, `LoginCompletes`, `LockoutEnds`, `BusyEnds`),
which need fairness and ENABLED and are out of the prover's reach, and the counterexample of
`BillingOverlap`. The type invariants of `ScanTab`, `DeviceLogin`
and `SignIn` are theorems and in no run's list; `TypeOK` of `WorkspacePage` and
`HookTypeOK` are conjuncts of the invariants that are proved.

## 7. Where code and comments disagree

`BillingOverlap` is the run with a counterexample; its quotation is under
`findings` in `PROJECT.json`. Reading the code for the models showed more. The first
group are promises in words that the models refute; they were checked as runs of
the same modules, and are kept here as prose.

* A cancelled row is reopened by the worker's first patch, which asks nothing about
  the status (`scan_controller.py:386-387` says it stays closed).
* The reaper fails a scan whose worker is alive and waits for the slot, since it
  judges by `created_at` (`scheduler.py:146`, `scan_controller.py:322`).
* A clear leaves a cached verdict without its scan, which the hook reads as clean
  (`scan_controller.py:257`).
* A cancel that checked an open row overwrites the verdict that came between
  (`scan_controller.py:408`, `test_scan_cancel_and_reap.py:79`).
* The findings write is best effort, so a serious scan can read as clean;
  `scan.py:53-54` says that writes which determine what a scan found are not.
* A scan that is deleted between a check's two reads leaves no findings to block
  on, so the check says clean, with the grade the cache still had
  (`hook_controller.py:124`; `hook_script.py:13` says a critical or high grade
  blocks). `CleanIsEarned` excepts exactly this case.
* The primary Redis that returns has not seen what the fallback admitted
  (`quota.py:315-319`).
* A closed row on the scan page may be replaced by an older answer that says
  running, after polling has stopped (`scan-detail-page.tsx:93`).
* The label on the approval form belongs to the last lookup that answered, not
  to the code in the field (`device-approve-form.tsx:85-87`).

*Server.* An order whose claimer dies before the account update stays `paid` and
is never granted (the `lost` of `Billing`), though `/verify` answers "ok" for it. A device poll
whose insert fails after its claim uses the approval up without a key. A worker whose
pipeline raised and whose `_mark_scan_failed` was lost returns without
`_ensure_terminal`, so the row waits for the reaper (`scan.py:312`). An upload
whose first attempt was counted and died before its insert is counted again,
though `cli_controller.py:304-306` says that a retry consumes no second credit.
The count that replaces Redis asks for `created_at` in the period (`quota.py:283-288`),
which for an upload is when the client began (`cli_controller.py:176`), so each upload begun
before the period and counted in it makes room for one more during an outage.
`change_plan` keeps the larger of the seats it read, not of those that are there
when it writes (`admin_controller.py:320`). `org_controller.py`: an invitation that
is revoked while it is accepted lets the person in; `seats_used` reads the members and
then the invitations (`quota.py:190-195`), so an acceptance that falls between the two is in neither
and one more person may be let in; the mark of an accepted
invitation may be lost; `create_organization` is several writes (103-157).
`admin_auth.py`: `last_used_step` is read and then written, so one code may pass
twice. Rotating an AI provider's key nulls its temperature, token limit and
prompt. An override lets every install of its target through for ten minutes, where
`hook_script.py:17-18` and `cli/main.py:506-508` say once; and every check of a target
queues another first scan, and takes another credit, until one has been cached.

*Sign-in.* The message about a wrong code is hidden after a resend
(`login-page.tsx:153`, 259); "Back to sign in" on the provider card does
nothing (328-334) and the reset's error is not shown there; a sign-up that was
left cannot be taken up again; a reset code is used up, and the person signed in, before
`updateUser` may fail (`actions.ts:282-292`); a lookup that failed reads "no
account"; a lost EXPIRE locks an address out; passwords and code guesses count on one
key.

*Scan and workspace pages.* One `deletingId` marks deletions, so a row can be deleted again while its first deletion
runs; an error is hidden once a
row is shown; a deleted scan is polled forever; findings of the history that did not
load count as none. The role editor's `granted` is set at mount (448-452); two
`load()` may cross, and an older answer lists a revoked invitation again; "its seat is free again" (338) is said though the invitation was
accepted meanwhile.

*Registry.* A second suggestion never appears in the list, since the effect depends
on `submitted` (`submit-page.tsx:35-39`; line 100 says "You can track it below"). "Load
more" while a new filter's first page is under way appends to the wrong list. A
signed-out double click on Save ends "Saved". Any failure of an item reads
"Not found", of the saved list "Nothing saved yet". Two dialogs close without their reset. In the
administration the page appears when the list or the summary has come, and until the
other has, it says "No items yet" or "Nothing waiting"; a page past the end has no way back; a
category's name is cleared though saving it failed; any action in the
item editor replaces the form, and with it unsaved edits; saving one field of `content`
writes back the other eight as they were when the form was filled
(`admin-item-editor.tsx:282-290`, `admin.py:329-330`), over a colleague's changes.

*Other pages.* Failed loads read as empty on the API keys page and the dashboard,
and leave skeletons forever on the GitHub card and the billing page. On the dashboard "No open critical or
high findings" belongs to a card that lists every severity, and its alert branch is dead
(322-328). `useWorkspacePermission` starts as allowed. The onboarding's redirect fires after Skip. An archive
row restored in another tab leaves the archive open; two tabs overwrite each other's
preferences. `loadRazorpayScript` takes a script element that failed for one that
loaded. The admin gate turns a failed refresh into "not found", its Enter key is not
guarded; debounced lists do not cancel, so an older answer may win; an
analytics error takes the range buttons with it; a failed reload of an account
replaces the page. The status page says that nothing has been recorded when its
history could not be loaded, which is when the API is down (`status-page.tsx`
181-186, 377-398). The plan badge of the sidebar is read once per mount; pages below
an exact item (`/agents/{id}`) highlight nothing.

## 8. Not modelled

The pipeline and its grading (planned); finding triage and the AI calls behind it; the registry sync,
ranking and text normalisation; the parsing of local agent configuration and the
upsert of a report with its device limit; audit rows; calendar arithmetic, prices
and currencies; the general rate limits, the read-only precheck and the usage
meters' sums; Docker and child processes; archives; HTTP of remote services; display, themes
and text. `PROJECT.json` gives the reason for each under `components`. The models have
one API instance; the code is deployed as one (`_SCAN_SLOT` is a semaphore of the
process). A visit in `Console` is to one page; what one page leaves for another is in
the choice of records at mount, and walking through pages is in `ScanTab`, `SignIn` and
`AppShell`.
