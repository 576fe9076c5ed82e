---------------------------- MODULE AccountPages ----------------------------
(***************************************************************************)
(* The pages on which an account sets itself up: API keys, AI providers,   *)
(* onboarding, the repository picker and the GitHub connection card.       *)
(***************************************************************************)
EXTENDS Visit

-----------------------------------------------------------------------------
(* API keys *)

KeyIds == {"k1", "k2"}   \* bound
NoKeys == [k \in KeyIds |-> "absent"]
KeysThat(keys, s) == {k \in KeyIds : keys[k] = s}

KeyTables == [KeyIds -> {"absent", "active", "revoked"}]
ASSUME KeysAssumption == \A m \in Marks : m \notin KeyTables /\ m \notin KeyIds

KeysInit ==
  Mounted("keys",
          [keys |-> NoData, creating |-> FALSE, secret |-> FALSE, revoke |-> None, clearing |-> FALSE],
          Load({"keys"}),
          {[keys |-> [NoKeys EXCEPT !["k1"] = s]] : s \in {"absent", "active", "revoked"}})

KeysListed == IF st.keys = NoData THEN NoKeys ELSE st.keys
KeysEmpty  == st.keys # NoData /\ st.keys = NoKeys

KeysBusy == st.keys = NoData \/ st.creating \/ st.clearing

KeysClick ==
  \/ /\ ~st.creating /\ KeysThat(srv.keys, "absent") # {}
     /\ Acts([st EXCEPT !.creating = TRUE], {}, Load({"createKey"}))
  \/ /\ st.revoke = None
     /\ \E k \in KeysThat(KeysListed, "active") : Acts([st EXCEPT !.revoke = k], {}, {})
  \/ st.revoke # None /\ Acts(st, {}, {Ask("revokeKey", st.revoke)})
  \/ st.revoke # None /\ Acts([st EXCEPT !.revoke = None], {}, {})
  \/ /\ ~st.clearing /\ KeysThat(KeysListed, "revoked") # {}
     /\ Acts([st EXCEPT !.clearing = TRUE], {}, Load({"clearKeys"}))

\* Revoking asks for the row first, and is repeated without harm.
KeysServe(c) ==
  \/ /\ c.kind = "createKey"
     /\ \E k \in KeysThat(srv.keys, "absent") : Replies(c, k, [keys |-> [srv.keys EXCEPT ![k] = "active"]])
  \/ /\ c.kind = "revokeKey"
     /\ IF srv.keys[c.arg] = "absent"
          THEN Replies(c, Failed, srv)
          ELSE Replies(c, "ok", [keys |-> [srv.keys EXCEPT ![c.arg] = "revoked"]])
  \/ /\ c.kind = "clearKeys"
     /\ Replies(c, "ok", [keys |-> [k \in KeyIds |-> IF srv.keys[k] = "active" THEN "active" ELSE "absent"]])

\* A list that does not load is shown as an empty one, next to a toast.
KeysListArrives(c) ==
  /\ c.kind = "keys"
  /\ Takes(c, [st EXCEPT !.keys = IF Threw(c) THEN NoKeys ELSE Answer(c)], {}, {})

KeyCreated(c) ==
  /\ c.kind = "createKey"
  /\ Takes(c, [st EXCEPT !.creating = FALSE, !.secret = st.secret \/ Answered(c)],
           {}, IF Answered(c) THEN Load({"keys"}) ELSE {})

\* The answer closes whichever dialog is open.
KeyRevoked(c) ==
  /\ c.kind = "revokeKey"
  /\ IF Answered(c)
       THEN Takes(c, [st EXCEPT !.revoke = None], {}, Load({"keys"}))
       ELSE Takes(c, st, {}, {})

KeysCleared(c) ==
  /\ c.kind = "clearKeys"
  /\ Takes(c, [st EXCEPT !.clearing = FALSE], {}, IF Answered(c) THEN Load({"keys"}) ELSE {})

KeysArrive(c) == KeysListArrives(c) \/ KeyCreated(c) \/ KeyRevoked(c) \/ KeysCleared(c)

KeysElsewhere ==
  Elsewhere({[keys |-> [srv.keys EXCEPT ![k] = s]] : k \in KeysThat(srv.keys, "active"), s \in {"revoked", "absent"}})

KeysTrue == st.keys = srv.keys

-----------------------------------------------------------------------------
(* AI providers: rows, and a dialog of two steps over one of them *)

Providers == {"groq", "gemini"}
\* A row of ai_provider_credentials: none, or a key with or without a model.
Unset == "unset"
Connected(creds, p) == creds[p] # Unset

CredTables == [Providers -> {Unset, "nomodel", "model"}]
ASSUME CredsAssumption == \A m \in Marks : m \notin CredTables /\ \A s \in SUBSET Providers : m # s

NoDialog == [of |-> None, nr |-> 0, step |-> None, model |-> None, busy |-> FALSE, note |-> None]

ProvidersInit ==
  Mounted("providers",
          [creds |-> [p \in Providers |-> Unset], models |-> {}, loading |-> TRUE, dialog |-> NoDialog, opened |-> 0],
          Load({"providers", "models"}),
          {[providers |-> [[p \in Providers |-> Unset] EXCEPT !["groq"] = x], models |-> m] :
             x \in {Unset, "nomodel", "model"}, m \in {{}, {"groq"}}})

Reloading  == Asking({"providers", "models"})
Reload     == Load({"providers", "models"})
DialogIs(c) == st.dialog.of # None /\ st.dialog.nr = c.arg.nr

ProvidersEmpty == ~st.loading /\ \A p \in Providers : ~Connected(st.creds, p)
ProvidersBusy  == st.loading \/ st.dialog.busy

\* A connected provider opens on the model step.
OpenDialog(p) ==
  Acts([st EXCEPT
          !.opened = @ + 1,
          !.dialog = [of |-> p, nr |-> st.opened + 1,
                      step |-> IF Connected(st.creds, p) THEN "model" ELSE "key",
                      model |-> IF st.creds[p] = "model" THEN "model" ELSE "nomodel",
                      busy |-> FALSE, note |-> None]], {}, {})

\* What the open dialog asks for: its provider, its instance, its model.
DialogAsks(kind, model) ==
  Acts([st EXCEPT !.dialog.busy = TRUE, !.dialog.model = model, !.dialog.note = None],
       {}, {Ask(kind, [of |-> st.dialog.of, nr |-> st.dialog.nr, model |-> model])})

ProvidersClick ==
  /\ ~st.loading
  /\ \/ st.dialog.of = None /\ \E p \in Providers : OpenDialog(p)
     \/ /\ st.dialog.of # None
        /\ \/ Acts([st EXCEPT !.dialog = NoDialog], {}, {})
           \/ st.dialog.step = "key" /\ ~st.dialog.busy /\ DialogAsks("saveKey", st.dialog.model)
           \/ /\ st.dialog.step = "model" /\ ~st.dialog.busy
              /\ \E m \in {"nomodel", st.dialog.model} \cup (IF st.dialog.of \in st.models THEN {"model"} ELSE {}) :
                   DialogAsks("saveModel", m)
           \/ /\ st.dialog.step = "model"
              /\ Acts([st EXCEPT !.dialog.step = "key", !.dialog.note = None], {}, {})
           \/ /\ Connected(st.creds, st.dialog.of) /\ ~st.dialog.busy
              /\ DialogAsks("removeKey", st.dialog.model)

\* Saving a key writes the whole row and reads the provider's catalogue, which
\* may fail without failing the request.
ProvidersServe(c) ==
  \/ /\ c.kind = "saveKey"
     /\ \E m \in {srv.models, srv.models \cup {c.arg.of}} :
          Replies(c, "ok", [providers |-> [srv.providers EXCEPT ![c.arg.of] = c.arg.model], models |-> m])
  \/ /\ c.kind = "saveModel"
     /\ IF Connected(srv.providers, c.arg.of)
          THEN Replies(c, "ok", [srv EXCEPT !.providers[c.arg.of] = c.arg.model])
          ELSE Replies(c, Failed, srv)
  \/ c.kind = "removeKey" /\ Replies(c, "ok", [srv EXCEPT !.providers[c.arg.of] = Unset])

\* Promise.all of the two lists, a failed one read as empty.
RosterArrives(c) ==
  /\ c.kind = "providers"
  /\ \E d \in Asking({"models"}) :
       /\ d.id = c.id /\ Answer(d) # Waiting
       /\ Takes(c, [st EXCEPT !.creds = IF Threw(c) THEN [p \in Providers |-> Unset] ELSE Answer(c),
                              !.models = IF Threw(d) THEN {} ELSE Answer(d),
                              !.loading = FALSE], {d}, {})

\* Mutated form of ModelSaved: the dialog is released on success only.
ModelSaved_NoFinally(c) ==
  /\ c.kind = "saveModel"
  /\ LET mine == [st EXCEPT !.dialog.busy = FALSE, !.dialog.note = "saved"]
     IN  IF Answered(c) THEN Takes(c, IF DialogIs(c) THEN mine ELSE st, Reloading, Reload) ELSE Takes(c, st, {}, {})

ModelSaved(c) ==
  /\ c.kind = "saveModel"
  /\ LET mine == [st EXCEPT !.dialog.busy = FALSE, !.dialog.note = IF Answered(c) THEN "saved" ELSE "error"]
     IN  Takes(c, IF DialogIs(c) THEN mine ELSE st,
               IF Answered(c) THEN Reloading ELSE {}, IF Answered(c) THEN Reload ELSE {})

KeySaved(c) ==
  /\ c.kind = "saveKey"
  /\ LET mine == IF Answered(c)
                   THEN [st EXCEPT !.dialog.busy = FALSE, !.dialog.step = "model"]
                   ELSE [st EXCEPT !.dialog.busy = FALSE, !.dialog.note = "error"]
     IN  Takes(c, IF DialogIs(c) THEN mine ELSE st,
               IF Answered(c) THEN Reloading ELSE {}, IF Answered(c) THEN Reload ELSE {})

\* A removal closes whichever dialog is open by then.
KeyRemoved(c) ==
  /\ c.kind = "removeKey"
  /\ IF Answered(c)
       THEN Takes(c, [st EXCEPT !.dialog = NoDialog], Reloading, Reload)
       ELSE Takes(c, IF DialogIs(c) THEN [st EXCEPT !.dialog.busy = FALSE] ELSE st, {}, {})

ProvidersArrive(c) == RosterArrives(c) \/ KeySaved(c) \/ ModelSaved(c) \/ KeyRemoved(c)

ProvidersTrue == st.creds = srv.providers /\ st.models = srv.models

-----------------------------------------------------------------------------
(* Onboarding *)

Paths == {"repository", "server", "developer"}
NeedsGithub(p) == p = "repository"
Destination(p) == IF p = "developer" THEN "/integrations" ELSE "/scans/new"

\* A browser that has seen the flow does not ask.
OnboardingInit ==
  \E skip, on \in BOOLEAN :
    Mounted("onboarding",
            [at |-> IF skip THEN "/dashboard" ELSE "here", checking |-> TRUE, step |-> 0, path |-> None, connecting |-> FALSE],
            IF skip THEN {} ELSE Load({"github"}),
            {[skip |-> skip, github |-> on]})

Here == st.at = "here"
OnboardingBusy == Here /\ (st.checking \/ st.connecting)
AtTheEnd == st.path # None /\ (st.step = 2 \/ (st.step = 1 /\ ~NeedsGithub(st.path)))

Finish(destination) == ActsOn([srv EXCEPT !.skip = TRUE], [st EXCEPT !.at = destination], {})

OnboardingClick ==
  /\ Here /\ ~st.checking
  /\ \/ st.step > 0 /\ Acts([st EXCEPT !.step = @ - 1], {}, {})
     \/ st.step = 0 /\ \E p \in Paths : Acts([st EXCEPT !.path = p, !.step = 1], {}, {})
     \/ /\ st.step = 1 /\ st.path # None /\ NeedsGithub(st.path)
        /\ \/ ~st.connecting /\ Acts([st EXCEPT !.connecting = TRUE], {}, Load({"installUrl"}))
           \/ Acts([st EXCEPT !.step = 2], {}, {})
     \/ AtTheEnd /\ Finish(Destination(st.path))
     \/ Finish("/dashboard")

\* The install page of GitHub: leaving this page does not stop the redirect.
InstallUrlServed(c) == c.kind = "installUrl" /\ Replies(c, "url", srv)

OnboardingStatus(c) ==
  /\ c.kind = "github"
  /\ IF Answered(c) /\ Answer(c)
       THEN Takes(c, [st EXCEPT !.at = "/dashboard"], {}, {})
       ELSE Takes(c, [st EXCEPT !.checking = FALSE], {}, {})

Redirected(c) ==
  /\ c.kind = "installUrl"
  /\ Takes(c, IF Answered(c) THEN [st EXCEPT !.at = "github.com"] ELSE [st EXCEPT !.connecting = FALSE], {}, {})

OnboardingArrive(c) == OnboardingStatus(c) \/ Redirected(c)

OnboardingTrue == Here /\ ~st.checking => ~srv.github

-----------------------------------------------------------------------------
(* The repository picker *)

Repos == {"mcp", "other"}
Grants == {[connected |-> FALSE, repos |-> {}]} \cup {[connected |-> TRUE, repos |-> r] : r \in SUBSET Repos}
ASSUME GrantsAssumption == \A m \in Marks : m \notin Grants

PickerInit ==
  Mounted("picker",
          [at |-> "here", status |-> "loading", got |-> NoData, query |-> Repos, connecting |-> FALSE, selected |-> None],
          Load({"repos"}), {[repos |-> g] : g \in Grants})

PickerReady == Here /\ st.status = "ready"
Visible     == st.got.repos \cap st.query
PickerEmpty == PickerReady /\ st.got.connected /\ st.got.repos = {}
PickerBusy  == Here /\ (st.status = "loading" \/ st.connecting)

PickerClick ==
  /\ PickerReady
  /\ \/ ~st.got.connected /\ ~st.connecting /\ Acts([st EXCEPT !.connecting = TRUE], {}, Load({"installUrl"}))
     \/ /\ st.got.repos # {}
        /\ \/ \E q \in {Repos, {"other"}} : Acts([st EXCEPT !.query = q], {}, {})
           \/ \E r \in Visible : Acts([st EXCEPT !.selected = r], {}, {})

ReposArrive(c) ==
  /\ c.kind = "repos"
  /\ Takes(c, IF Threw(c) THEN [st EXCEPT !.status = "error"] ELSE [st EXCEPT !.status = "ready", !.got = Answer(c)], {}, {})

PickerArrive(c) == ReposArrive(c) \/ Redirected(c)

PickerTrue == st.got = srv.repos

-----------------------------------------------------------------------------
(* Integrations: the GitHub connection card *)

\* The callback of GitHub comes back with its outcome in the address.
Callbacks == {"absent", "connected", "updated", "cancelled", "unknown"}
ToastOf(result) ==
  IF result \in {"absent", "unknown"} THEN None ELSE IF result \in {"connected", "updated"} THEN "success" ELSE "error"

CardInit ==
  \E result \in Callbacks :
    Mounted("integrations", [at |-> "here", status |-> NoData, connecting |-> FALSE, toast |-> ToastOf(result)],
            Load({"github"}), {[github |-> on] : on \in BOOLEAN})

CardBusy == Here /\ st.connecting

\* "Checking connection status", for good when the status does not load.
CardSkeleton == Here /\ st.status = NoData

CardClick ==
  /\ Here /\ st.status # TRUE /\ ~st.connecting
  /\ Acts([st EXCEPT !.connecting = TRUE], {}, Load({"installUrl"}))

CardStatus(c) ==
  /\ c.kind = "github"
  /\ Takes(c, [st EXCEPT !.status = IF Threw(c) THEN @ ELSE Answer(c)], {}, {})

CardArrive(c) == CardStatus(c) \/ Redirected(c)

CardTrue == st.status = srv.github
=============================================================================
