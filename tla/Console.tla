------------------------------ MODULE Console ------------------------------
(***************************************************************************)
(* One visit to one page of the console, or to the public status page.     *)
(***************************************************************************)
EXTENDS AccountPages, BillingPages, OverviewPages, PosturePages, CatalogPages,
        RegistryAdminPages, AccountAdminPages, StatusPage, AppShell

Init ==
  \/ KeysInit \/ ProvidersInit \/ OnboardingInit \/ PickerInit \/ CardInit
  \/ BillingInit \/ PricingInit
  \/ RegistryInit \/ ItemInit \/ SavedInit \/ SubmitInit
  \/ DashboardInit \/ UsageInit \/ PostureInit \/ AgentInit
  \/ AdminRegistryInit \/ NewItemInit \/ EditorInit
  \/ GateInit \/ FilterInit \/ UserInit
  \/ StatusInit \/ ShellInit

\* The reader of the page.
Click ==
  \/ page = "keys" /\ KeysClick
  \/ page = "providers" /\ ProvidersClick
  \/ page = "onboarding" /\ OnboardingClick
  \/ page = "picker" /\ PickerClick
  \/ page = "integrations" /\ CardClick
  \/ page = "billing" /\ BillingClick
  \/ page = "pricing" /\ PricingClick
  \/ page = "usage" /\ UsageClick
  \/ page \in PosturePages /\ PostureClick
  \/ page = "agent" /\ AgentClick
  \/ page = "registry" /\ RegistryClick
  \/ page = "item" /\ ItemClick
  \/ page = "submit" /\ SubmitClick
  \/ page = "adminRegistry" /\ AdminRegistryClick
  \/ page = "newItem" /\ NewItemClick
  \/ page = "itemEditor" /\ EditorClick
  \/ page = "gate" /\ GateClick
  \/ page \in FilterPages /\ FilterClick
  \/ page = "user" /\ UserClick
  \/ page = "shell" /\ ShellClick

\* The server.
Serve(c) ==
  \/ (page \notin {"item", "itemEditor", "adminRegistry"} /\ ServeRead(c))
  \/ (page = "adminRegistry" /\ c.kind = "categories" /\ ServeRead(c))
  \/ page = "keys" /\ KeysServe(c)
  \/ page = "providers" /\ ProvidersServe(c)
  \/ InstallUrlServed(c)
  \/ page = "pricing" /\ PricingServe(c)
  \/ DetailsServe(c)
  \/ ReportServe(c)
  \/ AgentServe(c)
  \/ RegistryServe(c)
  \/ page = "item" /\ ItemServe(c)
  \/ SubmitServe(c)
  \/ page = "adminRegistry" /\ AdminRegistryServe(c)
  \/ NewItemServe(c)
  \/ page = "itemEditor" /\ EditorServe(c)
  \/ page = "gate" /\ GateServe(c)
  \/ page \in FilterPages /\ FilterServe(c)
  \/ page = "user" /\ UserServe(c)
  \/ page = "status" /\ StatusServe(c)
  \/ page = "shell" /\ ShellServe(c)

\* An answer, or an exception, reaches the page.
Arrive(c) ==
  /\ Answer(c) # Waiting
  /\ \/ page = "keys" /\ KeysArrive(c)
     \/ page = "providers" /\ ProvidersArrive(c)
     \/ page = "onboarding" /\ OnboardingArrive(c)
     \/ page = "picker" /\ PickerArrive(c)
     \/ page = "integrations" /\ CardArrive(c)
     \/ page = "billing" /\ BillingArrive(c)
     \/ page = "pricing" /\ PricingArrive(c)
     \/ page = "dashboard" /\ DashboardArrive(c)
     \/ page = "usage" /\ UsageArrive(c)
     \/ page \in PosturePages /\ PostureArrive(c)
     \/ page = "agent" /\ AgentArrives(c)
     \/ page = "registry" /\ RegistryArrive(c)
     \/ page = "item" /\ ItemArrive(c)
     \/ page = "saved" /\ SavedArrives(c)
     \/ page = "submit" /\ SubmitArrive(c)
     \/ page = "adminRegistry" /\ AdminRegistryArrive(c)
     \/ page = "newItem" /\ ItemCreated(c)
     \/ page = "itemEditor" /\ EditorArrive(c)
     \/ page = "gate" /\ GateArrive(c)
     \/ page \in FilterPages /\ RowsArrive(c)
     \/ page = "user" /\ UserArrive(c)
     \/ page = "status" /\ StatusArrive(c)
     \/ page = "shell" /\ ShellArrive(c)

Others ==
  \/ page = "keys" /\ KeysElsewhere
  \/ page = "billing" /\ BillingElsewhere
  \/ page \in PosturePages /\ PostureElsewhere
  \/ page = "itemEditor" /\ EditorElsewhere
  \/ page = "gate" /\ GateElsewhere
  \/ page = "status" /\ StatusElsewhere

ServeSome  == \E c \in Requests : Serve(c)
ArriveSome == \E c \in Requests : Arrive(c)
FailSome   == \E c \in Requests : c.kind \notin {"storage", "go"} /\ Fail(c)
TimerSome  == page \in FilterPages /\ FilterFires

Next == Click \/ ServeSome \/ ArriveSome \/ FailSome \/ TimerSome \/ Others

Spec == Init /\ [][Next]_vars

\* The server handles what reaches it, browsers deliver what comes back or fail
\* the request, and timers run out.
Fairness == WF_vars(ServeSome) /\ WF_vars(ArriveSome) /\ WF_vars(TimerSome)
FairSpec == Spec /\ Fairness

-----------------------------------------------------------------------------
(* Properties *)

PageTrue ==
  /\ page = "keys" => KeysTrue
  /\ page = "providers" => ProvidersTrue
  /\ page = "onboarding" => OnboardingTrue
  /\ page = "picker" => PickerTrue
  /\ page = "integrations" => CardTrue
  /\ page = "billing" => BillingTrue
  /\ page = "pricing" => PricingTrue
  /\ page = "dashboard" => DashboardTrue
  /\ page = "usage" => UsageTrue
  /\ page \in PosturePages => PostureTrue
  /\ page = "agent" => AgentTrue
  /\ page = "registry" => RegistryTrue
  /\ page = "item" => ItemTrue
  /\ page = "saved" => SavedTrue
  /\ page = "submit" => SubmitTrue
  /\ page = "adminRegistry" => AdminRegistryTrue
  /\ page = "newItem" => NewItemTrue
  /\ page = "itemEditor" => EditorTrue
  /\ page = "gate" => GateTrue
  /\ page \in FilterPages => FilterTrue
  /\ page = "user" => UserTrue
  /\ page = "status" => StatusTrue
  /\ page = "shell" => ShellTrue

Quiet == Settled /\ ~overtaken /\ failures = 0 /\ others = 0

\* When everything has been answered in order, and nothing failed or was
\* changed by anybody else, the page shows what the server has: no action
\* forgets to load again what it changed, or shows what it did not do. Two
\* promises hold whatever others do: two tabs of the billing page agree, and
\* saving an item leaves what a colleague changed under other keys of its form.
\* It does not promise so much of the fields of the content, which are one key:
\* who edits one of them writes back the others as they were loaded.
ShownIsTrue ==
  /\ Quiet => PageTrue
  /\ (page = "billing" /\ Settled) => TabsAgree
  /\ page = "itemEditor" => ColleagueKept

FirstListAwaited == \E d \in Requests : d.id = 1 /\ d.kind = "list"

\* A page that says there is nothing has asked: unless a request failed, nobody
\* is told so while the first answer is on its way. The administration of the
\* registry promises less, for what comes first, the list or the panels, shows
\* both: a list that has not come may say "No items yet", dimmed and marked busy,
\* and panels that have not come may say "Nothing waiting". While neither has
\* come nothing is said of either.
EmptyIsEarned ==
  failures = 0 /\ ~overtaken => \A c \in Requests : c.id = 1 =>
    /\ page = "keys" /\ c.kind = "keys" => ~KeysEmpty
    /\ page = "providers" => ~ProvidersEmpty
    /\ page = "picker" => ~PickerEmpty
    /\ page = "billing" /\ c.kind = "payments" => ~BillingEmpty
    /\ page = "dashboard" /\ c.kind = "scans" => ~DashboardEmpty
    /\ page \in PosturePages /\ c.kind = ListKind[page] => ~SaysNone
    /\ page = "agent" => ~TabEmpty
    /\ page = "registry" /\ c.kind = "browse" => ~RegistryEmpty
    /\ page = "saved" => ~SavedEmpty
    /\ page = "adminRegistry" /\ c.kind = "categories" => ~NoCategories
    /\ page = "adminRegistry" /\ c.kind = "list" => ~NoItems
    /\ page = "adminRegistry" /\ c.kind = "panels" /\ FirstListAwaited => ~RegistryThere
    /\ page = "status" /\ c.kind = "history" => ~NothingRecorded

Busy ==
  \/ page = "keys" /\ KeysBusy
  \/ page = "providers" /\ ProvidersBusy
  \/ page = "onboarding" /\ OnboardingBusy
  \/ page = "picker" /\ PickerBusy
  \/ page = "integrations" /\ CardBusy
  \/ page = "pricing" /\ PricingBusy
  \/ page = "dashboard" /\ DashboardBusy
  \/ page = "usage" /\ UsageBusy
  \/ page \in PosturePages /\ (PostureLoading \/ st.removing # None)
  \/ page = "agent" /\ AgentBusy
  \/ page = "registry" /\ RegistryBusy
  \/ page = "item" /\ ItemBusy
  \/ page = "saved" /\ st.loading
  \/ page = "submit" /\ st.submitting
  \/ page = "adminRegistry" /\ AdminRegistryBusy
  \/ page = "newItem" /\ NewItemBusy
  \/ page = "itemEditor" /\ EditorBusy
  \/ page = "gate" /\ GateBusy
  \/ page \in FilterPages /\ FilterBusy
  \/ page = "user" /\ UserBusy
  \/ page = "status" /\ StatusBusy

\* Two skeletons stay for good when what they wait for does not load.
Skeleton ==
  \/ page = "billing" /\ BillingSkeleton
  \/ page = "integrations" /\ CardSkeleton

\* Every spinner and every disabled button comes to an end, whatever fails. The
\* skeletons of the billing page and of the GitHub card end if nothing failed.
BusyEnds == []<>(~Busy /\ (Skeleton => failures > 0))
=============================================================================
