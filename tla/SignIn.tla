------------------------------- MODULE SignIn -------------------------------
(***************************************************************************)
(* Signing in with one email address: the server actions (views/login/api/ *)
(* actions.ts), the login page that shows their last answers               *)
(* (views/login/ui/login-page.tsx), the routes a provider or an emailed    *)
(* link comes back to (app/auth) and the proxy every request passes        *)
(* (shared/lib/supabase/proxy.ts), over AuthRateLimit.  Supabase keeps the *)
(* account and mails the codes.                                            *)
(***************************************************************************)
EXTENDS AuthRateLimit, FiniteSets

CONSTANTS
  Asked  \* the paths that a visitor may ask for

ASSUME SignInAssumption == Asked \subseteq {"/", "/login", "/dashboard", "/scans", "/device", "/pricing"}

VARIABLES
  account,  \* what Supabase knows of the address
  mailed,   \* codes that were mailed and not used
  session,  \* the cookie of this browser
  page,     \* where the browser is
  next,     \* the `next` search parameter of /login, or "none"
  mode,     \* the `mode` state of the form
  st,       \* the status of the last answer of each server action; an error
            \* shows the card of "idle", and is kept as that
  running,  \* the server action that runs: Next runs them one by one
  unseen,   \* ghost: lookups that failed
  guesses   \* ghost: guesses Supabase judged in the primary's window

supabase == <<account, mailed>>
form == <<mode, st, running>>
route == <<session, page, next>>
vars == <<limiter, supabase, form, route, unseen, guesses>>

Kept == {"signin", "signup", "verify", "request", "reset"}
Actions == Kept \cup {"resend", "again"}
Landings == {"/", "/dashboard", "/scans", "/device", "/onboarding"}

TypeOK ==
  /\ LimiterTypeOK
  /\ account \in {"none", "unconfirmed", "oauth", "password"}
  /\ mailed \subseteq {"signup", "recovery"}
  /\ session \in BOOLEAN
  /\ page \in Landings \cup {"/login", "/pricing", "/error", "provider"}
  /\ next \in Landings \cup {"none"}
  /\ mode \in {"signin", "signup", "reset"}
  /\ st \in [Kept -> {"idle", "verify-code", "google-only", "code-sent"}]
  /\ running \in Actions \cup {"none"}
  /\ unseen \in 0..MaxFaults
  /\ guesses \in 0..(CodeLimit + MaxFaults)

Fresh == mode' = "signin" /\ st' = [a \in Kept |-> "idle"] /\ running' = "none"

Init ==
  /\ LimiterInit
  /\ account \in {"none", "oauth"} /\ mailed = {}
  /\ session = FALSE /\ page = "/login" /\ next = "none"
  /\ mode = "signin" /\ st = [a \in Kept |-> "idle"] /\ running = "none"
  /\ unseen = 0 /\ guesses = 0

-----------------------------------------------------------------------------
(* The proxy *)

Public == {"/", "/login", "/device", "/pricing", "/error"}
Protected == {"/dashboard", "/scans", "/onboarding"}

\* updateSession, and the redirect of the device page, which is public.
Route(user, path) ==
  IF ~user /\ path \in Protected \cup {"/device"} THEN [page |-> "/login", next |-> path]
  ELSE IF user /\ path \in {"/", "/login"} THEN [page |-> "/dashboard", next |-> "none"]
  ELSE [page |-> path, next |-> "none"]

\* safeNext: no search parameter is /dashboard, and the root is onboarding.
SafeNext == IF next = "none" THEN "/dashboard" ELSE IF next = "/" THEN "/onboarding" ELSE next

\* A request for a page; the form starts over.
Visit(path) ==
  /\ page' = Route(session, path).page
  /\ next' = Route(session, path).next
  /\ Fresh
  /\ UNCHANGED <<limiter, supabase, session, unseen, guesses>>

SessionEnds ==
  /\ session /\ session' = FALSE
  /\ UNCHANGED <<limiter, supabase, form, page, next, unseen, guesses>>

\* redirect(...) at the end of a server action that signed in.
GoTo(path) == session' = TRUE /\ page' = path /\ next' = "none" /\ Fresh
Stay == UNCHANGED route

-----------------------------------------------------------------------------
(* The page *)

\* The chain of early returns of LoginForm.
Screen ==
  IF "code-sent" \in {st["reset"], st["request"]} THEN "code"
  ELSE IF mode = "reset" THEN "reset"
  ELSE IF "verify-code" \in {st["verify"], st["signup"]} THEN "verify"
  ELSE IF st["signin"] = "google-only" THEN "google"
  ELSE mode

\* The forms of each card, and the providers' buttons.
Offers ==
  CASE Screen = "code" -> {"reset", "again"}
    [] Screen = "reset" -> {"request"}
    [] Screen = "verify" -> {"verify", "resend"}
    [] Screen = "google" -> {"request"}
    [] Screen = "signin" -> {"signin"}
    [] Screen = "signup" -> {"signup"}

SetMode ==
  /\ page = "/login"
  /\ \/ Screen \in {"signin", "signup"} /\ mode' = (IF mode = "signin" THEN "signup" ELSE "signin")
     \/ Screen = "signin" /\ mode' = "reset"
     \/ Screen = "reset" /\ mode' = "signin"
  /\ UNCHANGED <<limiter, supabase, st, running, route, unseen, guesses>>

\* A form that is submitted with its required fields.  The proxy answers a
\* signed-in browser on /login with the dashboard: Visit.
Submit(a) ==
  /\ page = "/login" /\ ~session /\ running = "none" /\ a \in Offers
  /\ running' = a
  /\ UNCHANGED <<limiter, supabase, mode, st, route, unseen, guesses>>

Answer(a, status) ==
  /\ running' = "none" /\ st' = [st EXCEPT ![a] = status] /\ UNCHANGED mode

\* The two that send a code again answer with a message on the same card.
Say == running' = "none" /\ UNCHANGED <<mode, st>>

-----------------------------------------------------------------------------
(* The server actions *)

\* lookupAccount: a failure reads as "no such account".
Lookup(exists) ==
  \/ exists = (account # "none") /\ UNCHANGED unseen
  \/ ~exists /\ unseen < MaxFaults /\ unseen' = unseen + 1

SignInWithPassword ==
  /\ running = "signin"
  /\ \E over, right \in BOOLEAN :
       /\ CheckRateLimit("verify", PasswordLimit, over)
       /\ \/ over /\ Answer("signin", "idle") /\ Stay /\ UNCHANGED unseen
          \/ ~over /\ right /\ account = "password" /\ GoTo(SafeNext) /\ UNCHANGED unseen
          \/ /\ ~over /\ ~(right /\ account = "password")
             /\ \E exists \in BOOLEAN :
                  /\ Lookup(exists)
                  /\ Answer("signin", IF exists /\ account = "oauth" THEN "google-only" ELSE "idle")
             /\ Stay
  /\ UNCHANGED <<supabase, guesses>>

\* Supabase says yes to a sign-up for an address it knows, and mails nothing.
SignUpCall ==
  IF account = "none"
  THEN account' = "unconfirmed" /\ mailed' = mailed \cup {"signup"}
  ELSE UNCHANGED supabase

\* Mutated form of SignUpWithPassword: signUp without the lookup before it.
SignUpWithPassword_Blind ==
  /\ running = "signup"
  /\ \E over \in BOOLEAN :
       /\ CheckRateLimit("request", RequestLimit, over)
       /\ \/ over /\ Answer("signup", "idle") /\ UNCHANGED supabase
          \/ ~over /\ SignUpCall /\ Answer("signup", "verify-code")
  /\ UNCHANGED <<route, unseen, guesses>>

SignUpWithPassword ==
  /\ running = "signup"
  /\ \E over, exists, ok \in BOOLEAN :
       /\ CheckRateLimit("request", RequestLimit, over)
       /\ \/ over /\ Answer("signup", "idle") /\ UNCHANGED <<supabase, unseen>>
          \/ ~over /\ Lookup(exists)
             /\ IF exists \/ ~ok
                THEN Answer("signup", "idle") /\ UNCHANGED supabase
                ELSE SignUpCall /\ Answer("signup", "verify-code")
  /\ UNCHANGED <<route, guesses>>

\* A guess that passed the limit and reached Supabase.
Guess == guesses' = guesses + 1

\* Mutated form of VerifySignupCode: it leads where a reset code does.
VerifySignupCode_Onboarding ==
  /\ running = "verify"
  /\ \E over, right \in BOOLEAN :
       /\ CheckRateLimit("verify", CodeLimit, over)
       /\ \/ over /\ Answer("verify", "idle") /\ Stay /\ UNCHANGED <<supabase, guesses>>
          \/ /\ ~over /\ right /\ "signup" \in mailed /\ Guess
             /\ account' = "password" /\ mailed' = mailed \ {"signup"} /\ GoTo("/onboarding")
          \/ /\ ~over /\ ~(right /\ "signup" \in mailed) /\ Guess
             /\ Answer("verify", "verify-code") /\ Stay /\ UNCHANGED supabase
  /\ UNCHANGED unseen

VerifySignupCode ==
  /\ running = "verify"
  /\ \E over, right \in BOOLEAN :
       /\ CheckRateLimit("verify", CodeLimit, over)
       /\ \/ over /\ Answer("verify", "idle") /\ Stay /\ UNCHANGED <<supabase, guesses>>
          \/ /\ ~over /\ right /\ "signup" \in mailed /\ Guess
             /\ account' = "password" /\ mailed' = mailed \ {"signup"} /\ GoTo(SafeNext)
          \/ /\ ~over /\ ~(right /\ "signup" \in mailed) /\ Guess
             /\ Answer("verify", "verify-code") /\ Stay /\ UNCHANGED supabase
  /\ UNCHANGED unseen

ResendSignupCode ==
  /\ running = "resend"
  /\ \E over, ok \in BOOLEAN :
       /\ CheckRateLimit("request", RequestLimit, over)
       /\ mailed' = IF ~over /\ ok /\ account = "unconfirmed" THEN mailed \cup {"signup"} ELSE mailed
  /\ Say
  /\ UNCHANGED <<account, route, unseen, guesses>>

\* Supabase says yes for an address it does not know, and mails nothing.
MailRecovery(sent) ==
  mailed' = IF sent /\ account # "none" THEN mailed \cup {"recovery"} ELSE mailed

RequestPasswordReset ==
  /\ running = "request"
  /\ \E over, ok \in BOOLEAN :
       /\ CheckRateLimit("request", RequestLimit, over)
       /\ MailRecovery(~over /\ ok)
       /\ Answer("request", IF ~over /\ ok THEN "code-sent" ELSE "idle")
  /\ UNCHANGED <<account, route, unseen, guesses>>

ResendPasswordResetCode ==
  /\ running = "again"
  /\ \E over, ok \in BOOLEAN : CheckRateLimit("request", RequestLimit, over) /\ MailRecovery(~over /\ ok)
  /\ Say
  /\ UNCHANGED <<account, route, unseen, guesses>>

\* The code is used up and the session is there before the password is set.
VerifyPasswordResetCode ==
  /\ running = "reset"
  /\ \E over, right, ok \in BOOLEAN :
       /\ CheckRateLimit("verify", CodeLimit, over)
       /\ \/ over /\ Answer("reset", "idle") /\ Stay /\ UNCHANGED <<supabase, guesses>>
          \/ /\ ~over /\ right /\ "recovery" \in mailed /\ Guess
             /\ mailed' = mailed \ {"recovery"}
             /\ IF ok THEN account' = "password" /\ GoTo("/onboarding")
                ELSE /\ account' = IF account = "unconfirmed" THEN "password" ELSE account
                     /\ Answer("reset", "code-sent")
                     /\ session' = TRUE /\ UNCHANGED <<page, next>>
          \/ /\ ~over /\ ~(right /\ "recovery" \in mailed) /\ Guess
             /\ Answer("reset", "code-sent") /\ Stay /\ UNCHANGED supabase
  /\ UNCHANGED unseen

-----------------------------------------------------------------------------
(* Google and GitHub, and the routes under /auth *)

SignInWithProvider ==
  /\ page = "/login" /\ ~session /\ running = "none"
  /\ Screen \in {"signin", "signup", "google"}
  /\ page' = "provider" /\ next' = SafeNext /\ Fresh
  /\ UNCHANGED <<limiter, supabase, session, unseen, guesses>>

\* auth/callback: the exchange of the code, or an error of the provider's.
Callback ==
  /\ page = "provider"
  /\ \/ GoTo(next) /\ account' = IF account \in {"none", "unconfirmed"} THEN "oauth" ELSE account
     \/ page' = "/error" /\ next' = "none" /\ Fresh /\ UNCHANGED <<session, account>>
  /\ UNCHANGED <<limiter, mailed, unseen, guesses>>

\* auth/confirm: the link in the mail instead of the code.
Confirm(kind) ==
  /\ kind \in mailed
  /\ mailed' = mailed \ {kind}
  /\ account' = IF account = "unconfirmed" THEN "password" ELSE account
  /\ GoTo("/onboarding")
  /\ UNCHANGED <<limiter, unseen, guesses>>

-----------------------------------------------------------------------------

ServerAction ==
  \/ SignInWithPassword \/ SignUpWithPassword \/ VerifySignupCode \/ ResendSignupCode
  \/ RequestPasswordReset \/ ResendPasswordResetCode \/ VerifyPasswordResetCode

\* The guesses are counted per window of the primary.
Expiry(i, k) ==
  /\ WindowEnds(i, k)
  /\ guesses' = IF i = "primary" /\ k = "verify" THEN 0 ELSE guesses
  /\ UNCHANGED <<supabase, form, route, unseen>>

Next ==
  \/ \E path \in Asked : Visit(path)
  \/ SessionEnds \/ SetMode \/ SignInWithProvider \/ Callback
  \/ \E a \in Actions : Submit(a)
  \/ ServerAction
  \/ \E kind \in mailed : Confirm(kind)
  \/ \E i \in Instances, k \in Keys : Expiry(i, k)

Spec == Init /\ [][Next]_vars

\* Redis expires what has a window; people owe nothing.
FairSpec == Spec /\ \A i \in Instances, k \in Keys : WF_vars(Expiry(i, k))

-----------------------------------------------------------------------------
(* Properties *)

\* In one window at most CodeLimit guesses of a code reach Supabase, whatever
\* passwords were tried and codes requested in between, and one more for each
\* attempt at which the primary failed.
GuessesWithinLimit == guesses <= CodeLimit + faults

\* Nobody is left at "Check your email" for a code that was never sent: it was
\* mailed and is unused, or a lookup failed.
CodeScreenHasCode ==
  page = "/login" /\ Screen = "verify" => "signup" \in mailed \/ unseen > 0

\* An address that used up its attempts is not locked out for good, unless the
\* primary lost the command that opens the window.
LockoutEnds ==
  \A k \in Keys : hits["primary"][k] > 0 ~> hits["primary"][k] = 0 \/ faults > 0

\* Whoever was sent to sign in lands on the page that was asked for, be it by a
\* password, a sign-up code or a provider.  Only a reset code and a mailed link
\* lead elsewhere.
LandsWhereAsked ==
  [][~session /\ session' /\ page \in {"/login", "provider"} /\ next \in Protected
     => page' = next \/ running = "reset" \/ \E kind \in mailed : Confirm(kind)]_vars
=============================================================================
