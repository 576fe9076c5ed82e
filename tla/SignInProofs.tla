---------------------------- MODULE SignInProofs ----------------------------
(***************************************************************************)
(* Theorems about SignIn for any limits and faults: its type invariant,    *)
(* that no more guesses of a code are judged in one window than the limit  *)
(* and the faults of the counters admit, that the card which asks for a    *)
(* code was earned by a code, and that whoever signs in lands where they   *)
(* wanted to go.                                                           *)
(***************************************************************************)
EXTENDS SignIn, TLAPS

Counters == [Instances -> [Keys -> 0..MaxHits]]

LEMMA LimitsType ==
  /\ MaxHits \in Nat /\ CodeLimit \in Nat /\ PasswordLimit \in Nat /\ RequestLimit \in Nat
  /\ CodeLimit < MaxHits /\ PasswordLimit < MaxHits /\ RequestLimit < MaxHits
  /\ MaxFaults \in Nat /\ 0 \in 0..MaxHits
BY AuthRateLimitAssumption DEF MaxHits

-----------------------------------------------------------------------------
(* The counters *)

\* One counter goes up, or stays where every limit is passed.
LEMMA BumpEffect ==
  ASSUME NEW h \in Counters, NEW i \in Instances, NEW k \in Keys
  PROVE  /\ Bump(h, i, k) \in Counters
         /\ Bump(h, i, k)[i][k] = IF h[i][k] = MaxHits THEN h[i][k] ELSE h[i][k] + 1
         /\ \A j \in Instances, l \in Keys : (j # i \/ l # k) => Bump(h, i, k)[j][l] = h[j][l]
<1> DEFINE v == IF h[i][k] = MaxHits THEN h[i][k] ELSE h[i][k] + 1
           line == [h[i] EXCEPT ![k] = v]
<1>1. h[i] \in [Keys -> 0..MaxHits] /\ h[i][k] \in 0..MaxHits
  BY DEF Counters
<1>2. v \in 0..MaxHits
  BY <1>1, LimitsType
<1> HIDE DEF v
<1>3. line \in [Keys -> 0..MaxHits] /\ line[k] = v /\ \A l \in Keys : l # k => line[l] = h[i][l]
  BY <1>1, <1>2
<1> HIDE DEF line
<1>4. Bump(h, i, k) = [h EXCEPT ![i] = line]
  BY DEF Bump, line, v
<1>5. /\ [h EXCEPT ![i] = line] \in Counters /\ [h EXCEPT ![i] = line][i] = line
      /\ \A j \in Instances : j # i => [h EXCEPT ![i] = line][j] = h[j]
  BY <1>3 DEF Counters
<1>6. QED BY <1>3, <1>4, <1>5 DEF v

\* An attempt that is counted.
LEMMA CountedEffect ==
  ASSUME LimiterTypeOK, NEW i \in Instances, NEW k \in Keys, NEW limit \in Nat, NEW h \in Counters,
         NEW over \in BOOLEAN, Counted(i, k, limit, h, over)
  PROVE  /\ hits' \in Counters /\ ttl' \in [Instances -> [Keys -> BOOLEAN]]
         /\ hits' = Bump(h, i, k) /\ (~over => hits'[i][k] <= limit)
<1>1. hits' \in Counters /\ hits' = Bump(h, i, k)
  BY BumpEffect DEF Counted
<1>2. hits'[i][k] \in Nat
  BY <1>1, LimitsType DEF Counters
<1>3. ~over => hits'[i][k] <= limit
  <2>1. over = (hits'[i][k] > limit)
    BY DEF Counted
  <2>2. ~over => ~(hits'[i][k] > limit)
    BY <2>1, Zenon
  <2>3. QED BY <1>2, <2>2
<1>4. ttl' \in [Instances -> [Keys -> BOOLEAN]]
  BY DEF Counted, LimiterTypeOK
<1>5. QED BY <1>1, <1>3, <1>4

\* Whatever fails, no counter of the primary goes down; an attempt that is let
\* through without a fault was the primary's own within its limit.
LEMMA CheckEffect ==
  ASSUME LimiterTypeOK, NEW k \in Keys, NEW limit \in Nat, limit < MaxHits,
         NEW over \in BOOLEAN, CheckRateLimit(k, limit, over)
  PROVE  /\ LimiterTypeOK'
         /\ hits'["primary"]["verify"] >= hits["primary"]["verify"]
         /\ \/ faults' = faults + 1
            \/ /\ faults' = faults
               /\ ~over => /\ hits'["primary"][k] = hits["primary"][k] + 1
                           /\ hits'["primary"][k] <= limit
<1>1. hits \in Counters /\ "primary" \in Instances /\ "spare" \in Instances /\ "verify" \in Keys
  BY DEF LimiterTypeOK, Counters, Instances, Keys
<1>2. \A j \in Instances, l \in Keys : hits[j][l] \in Nat
  BY <1>1, LimitsType DEF Counters
<1>3. Bump(hits, "primary", k) \in Counters
  BY <1>1, BumpEffect
<1>4. ASSUME NEW h \in {hits, Bump(hits, "primary", k)}
      PROVE  h \in Counters /\ h["primary"]["verify"] >= hits["primary"]["verify"]
  <2>1. CASE h = hits
    BY <1>1, <1>2, <2>1
  <2>2. CASE h = Bump(hits, "primary", k)
    <3>1. CASE k = "verify"
      BY <1>1, <1>2, <1>3, <2>2, <3>1, BumpEffect
    <3>2. CASE k # "verify"
      <4>1. h["primary"]["verify"] = hits["primary"]["verify"]
        BY <1>1, <2>2, <3>2, BumpEffect
      <4>2. QED BY <1>1, <1>2, <1>3, <2>2, <4>1
    <3>3. QED BY <3>1, <3>2
  <2>3. QED BY <2>1, <2>2
<1>5. CASE Counted("primary", k, limit, hits, over) /\ UNCHANGED faults
  <2>1. /\ hits' \in Counters /\ ttl' \in [Instances -> [Keys -> BOOLEAN]]
        /\ hits' = Bump(hits, "primary", k) /\ (~over => hits'["primary"][k] <= limit)
    BY <1>1, <1>5, CountedEffect
  <2>2. hits'["primary"]["verify"] >= hits["primary"]["verify"]
    BY <1>4, <2>1
  <2>3. hits'["primary"][k] = IF hits["primary"][k] = MaxHits THEN hits["primary"][k]
                             ELSE hits["primary"][k] + 1
    BY <1>1, <2>1, BumpEffect
  <2>4. ~over => hits'["primary"][k] = hits["primary"][k] + 1
    BY <1>1, <1>2, <2>1, <2>3, LimitsType
  <2>5. QED BY <1>5, <2>1, <2>2, <2>4 DEF LimiterTypeOK, Counters
<1>6. CASE /\ faults < MaxFaults /\ faults' = faults + 1
           /\ \E h \in {hits, Bump(hits, "primary", k)} :
                \/ Counted("spare", k, limit, h, over)
                \/ ~over /\ hits' = h /\ UNCHANGED ttl
  <2>1. PICK h \in {hits, Bump(hits, "primary", k)} :
                \/ Counted("spare", k, limit, h, over)
                \/ ~over /\ hits' = h /\ UNCHANGED ttl
    BY <1>6
  <2>2. h \in Counters /\ h["primary"]["verify"] >= hits["primary"]["verify"]
    BY <1>4
  <2>3. ASSUME Counted("spare", k, limit, h, over)
        PROVE  /\ hits' \in Counters /\ ttl' \in [Instances -> [Keys -> BOOLEAN]]
               /\ hits'["primary"]["verify"] = h["primary"]["verify"]
    <3>1. /\ hits' \in Counters /\ ttl' \in [Instances -> [Keys -> BOOLEAN]]
          /\ hits' = Bump(h, "spare", k)
      BY <1>1, <2>2, <2>3, CountedEffect
    <3>2. hits'["primary"]["verify"] = h["primary"]["verify"]
      BY <1>1, <2>2, <3>1, BumpEffect
    <3>3. QED BY <3>1, <3>2
  <2>4. ASSUME ~over /\ hits' = h /\ UNCHANGED ttl
        PROVE  /\ hits' \in Counters /\ ttl' \in [Instances -> [Keys -> BOOLEAN]]
               /\ hits'["primary"]["verify"] = h["primary"]["verify"]
    BY <2>2, <2>4 DEF LimiterTypeOK
  <2>5. /\ hits' \in Counters /\ ttl' \in [Instances -> [Keys -> BOOLEAN]]
        /\ hits'["primary"]["verify"] >= hits["primary"]["verify"]
    BY <2>1, <2>2, <2>3, <2>4
  <2>6. faults' \in 0..MaxFaults
    BY <1>6, LimitsType DEF LimiterTypeOK
  <2>7. QED BY <1>6, <2>5, <2>6 DEF LimiterTypeOK, Counters
<1>7. QED BY <1>5, <1>6 DEF CheckRateLimit

-----------------------------------------------------------------------------
(* The inductive invariant *)

\* Each guess was counted by the primary, or the primary failed; none was let
\* through above the limit unless it did.
Judged ==
  /\ guesses <= hits["primary"]["verify"] + faults
  /\ guesses <= CodeLimit + faults

CodeCard == "verify-code" \in {st["verify"], st["signup"]}

\* A code is being checked only while its card is there.
VerifyAsked == running = "verify" => CodeCard

CodeEarned == CodeCard => "signup" \in mailed \/ unseen > 0

\* A visitor who is with a provider has somewhere to come back to.
Heading == page = "provider" => next \in Landings

IInv == TypeOK /\ Heading /\ Judged /\ VerifyAsked /\ CodeEarned

SupabaseType ==
  account \in {"none", "unconfirmed", "oauth", "password"} /\ mailed \subseteq {"signup", "recovery"}

FormType ==
  /\ mode \in {"signin", "signup", "reset"}
  /\ st \in [Kept -> {"idle", "verify-code", "google-only", "code-sent"}]
  /\ running \in Actions \cup {"none"}

RouteType ==
  /\ session \in BOOLEAN
  /\ page \in Landings \cup {"/login", "/pricing", "/error", "provider"}
  /\ next \in Landings \cup {"none"}
  /\ Heading

LEMMA TypeParts ==
  /\ TypeOK /\ Heading <=> /\ LimiterTypeOK /\ SupabaseType /\ FormType /\ RouteType
                            /\ unseen \in 0..MaxFaults /\ guesses \in 0..(CodeLimit + MaxFaults)
  /\ TypeOK' /\ Heading' <=> /\ LimiterTypeOK' /\ SupabaseType' /\ FormType' /\ RouteType'
                              /\ unseen' \in 0..MaxFaults /\ guesses' \in 0..(CodeLimit + MaxFaults)
BY DEF TypeOK, Heading, SupabaseType, FormType, RouteType

\* What is left of an invariant state when the form starts over.
LEMMA FreshStep ==
  ASSUME Fresh
  PROVE  FormType' /\ VerifyAsked' /\ CodeEarned'
<1>1. st' = [a \in Kept |-> "idle"] /\ running' = "none" /\ mode' = "signin"
  BY DEF Fresh
<1>2. st'["verify"] = "idle" /\ st'["signup"] = "idle"
  BY <1>1 DEF Kept
<1>3. FormType'
  BY <1>1 DEF FormType
<1>4. QED BY <1>1, <1>2, <1>3 DEF VerifyAsked, CodeEarned, CodeCard

LEMMA SafeNextType ==
  ASSUME RouteType
  PROVE  SafeNext \in Landings /\ (next \in Protected => SafeNext = next)
BY DEF RouteType, Heading, SafeNext, Landings, Protected

LEMMA GoToStep ==
  ASSUME NEW path \in Landings, GoTo(path)
  PROVE  FormType' /\ RouteType' /\ VerifyAsked' /\ CodeEarned'
<1>1. RouteType'
  BY DEF GoTo, RouteType, Heading, Landings
<1>2. QED BY <1>1, FreshStep DEF GoTo

\* An answer of a server action, in a state where its code was earned.
LEMMA AnswerStep ==
  ASSUME FormType, NEW a \in Kept, NEW status \in {"idle", "verify-code", "google-only", "code-sent"},
         Answer(a, status)
  PROVE  /\ FormType' /\ VerifyAsked'
         /\ CodeCard' => CodeCard \/ (a \in {"verify", "signup"} /\ status = "verify-code")
<1>1. st' = [st EXCEPT ![a] = status] /\ running' = "none" /\ mode' = mode
  BY DEF Answer
<1>2. FormType' /\ VerifyAsked'
  BY <1>1 DEF FormType, VerifyAsked
<1>3. st'[a] = status /\ \A b \in Kept : b # a => st'[b] = st[b]
  BY <1>1 DEF FormType
<1>4. "verify" \in Kept /\ "signup" \in Kept
  BY DEF Kept
<1>5. CodeCard' => CodeCard \/ (a \in {"verify", "signup"} /\ status = "verify-code")
  BY <1>3, <1>4 DEF CodeCard
<1>6. QED BY <1>2, <1>5

LEMMA SayStep ==
  ASSUME FormType, Say
  PROVE  FormType' /\ VerifyAsked' /\ (CodeCard' <=> CodeCard)
BY DEF FormType, Say, VerifyAsked, CodeCard

LEMMA LookupType ==
  ASSUME TypeOK, NEW exists \in BOOLEAN, Lookup(exists)
  PROVE  /\ unseen' \in 0..MaxFaults /\ unseen' >= unseen
         /\ exists => account # "none" /\ unseen' = unseen
         /\ ~exists => account = "none" \/ unseen' > 0
<1>1. unseen \in 0..MaxFaults /\ MaxFaults \in Nat
  BY LimitsType DEF TypeOK
<1>2. CASE exists = (account # "none") /\ UNCHANGED unseen
  <2>1. exists <=> account # "none"
    BY <1>2
  <2>2. QED BY <1>1, <1>2, <2>1
<1>3. CASE ~exists /\ unseen < MaxFaults /\ unseen' = unseen + 1
  BY <1>1, <1>3
<1>4. QED BY <1>2, <1>3 DEF Lookup

\* Only an attempt at a code that is let through is judged.
MayGuess(k, limit, over) ==
  guesses' # guesses => guesses' = guesses + 1 /\ ~over /\ k = "verify" /\ limit = CodeLimit

\* What the primary counted in its window.
Tally == hits["primary"]["verify"]

LEMMA CountsUp ==
  ASSUME CodeLimit \in Nat, guesses \in Nat, faults \in Nat, faults' \in Nat, Tally \in Nat, Tally' \in Nat,
         guesses <= Tally + faults, guesses <= CodeLimit + faults, Tally' >= Tally,
         \/ guesses' = guesses /\ faults' >= faults
         \/ guesses' = guesses + 1 /\ faults' = faults + 1
         \/ guesses' = guesses + 1 /\ faults' = faults /\ Tally' = Tally + 1 /\ Tally' <= CodeLimit
  PROVE  guesses' \in Nat /\ guesses' <= Tally' + faults' /\ guesses' <= CodeLimit + faults'
OBVIOUS

LEMMA SumWithin ==
  ASSUME NEW g \in Nat, NEW c \in Nat, NEW f \in Nat, NEW m \in Nat, g <= c + f, f <= m
  PROVE  g \in 0..(c + m)
OBVIOUS

\* An attempt that is counted keeps the guesses within what was counted.
LEMMA JudgedStep ==
  ASSUME TypeOK, Judged, NEW k \in Keys, NEW limit \in Nat, limit < MaxHits,
         NEW over \in BOOLEAN, CheckRateLimit(k, limit, over), MayGuess(k, limit, over)
  PROVE  LimiterTypeOK' /\ Judged' /\ guesses' \in 0..(CodeLimit + MaxFaults)
<1>1. /\ LimiterTypeOK'
      /\ hits'["primary"]["verify"] >= hits["primary"]["verify"]
      /\ \/ faults' = faults + 1
         \/ /\ faults' = faults
            /\ ~over => /\ hits'["primary"][k] = hits["primary"][k] + 1
                        /\ hits'["primary"][k] <= limit
  BY CheckEffect DEF TypeOK
<1>2. /\ Tally \in Nat /\ Tally' \in Nat /\ Tally' >= Tally
      /\ faults \in Nat /\ faults' \in Nat /\ faults' <= MaxFaults
  BY <1>1, LimitsType DEF TypeOK, LimiterTypeOK, Instances, Keys, Tally
<1>3. CodeLimit \in Nat /\ MaxFaults \in Nat /\ guesses \in Nat
  BY LimitsType DEF TypeOK
<1>4. guesses' \in Nat /\ guesses' <= Tally' + faults' /\ guesses' <= CodeLimit + faults'
  <2>1. guesses <= Tally + faults /\ guesses <= CodeLimit + faults
    BY DEF Judged, Tally
  <2>2. faults' >= faults
    BY <1>1, <1>2
  <2>3. ASSUME guesses' # guesses, faults' = faults PROVE Tally' = Tally + 1 /\ Tally' <= CodeLimit
    <3>1. ~over /\ k = "verify" /\ limit = CodeLimit
      BY <2>3 DEF MayGuess
    <3>2. faults' # faults + 1
      BY <1>2, <2>3
    <3>3. hits'["primary"][k] = hits["primary"][k] + 1 /\ hits'["primary"][k] <= limit
      BY <1>1, <3>1, <3>2
    <3>4. QED BY <3>1, <3>3 DEF Tally
  <2>4. guesses' # guesses => guesses' = guesses + 1
    BY DEF MayGuess
  <2>5. \/ guesses' = guesses /\ faults' >= faults
        \/ guesses' = guesses + 1 /\ faults' = faults + 1
        \/ guesses' = guesses + 1 /\ faults' = faults /\ Tally' = Tally + 1 /\ Tally' <= CodeLimit
    BY <1>1, <2>2, <2>3, <2>4
  <2>6. QED BY <1>2, <1>3, <2>1, <2>5, CountsUp
<1>5. Judged'
  BY <1>4 DEF Judged, Tally
<1>6. guesses' \in 0..(CodeLimit + MaxFaults)
  BY <1>2, <1>3, <1>4, SumWithin
<1>7. QED BY <1>1, <1>5, <1>6

LEMMA EarnedKept ==
  ASSUME CodeEarned, CodeCard' => CodeCard,
         "signup" \in mailed => "signup" \in mailed', unseen > 0 => unseen' > 0
  PROVE  CodeEarned'
BY DEF CodeEarned

\* Steps that leave the counters alone.
LEMMA UncountedStep ==
  ASSUME IInv, UNCHANGED <<limiter, unseen, guesses>>,
         SupabaseType', FormType', RouteType', VerifyAsked', CodeEarned'
  PROVE  IInv'
<1>1. LimiterTypeOK' /\ Judged'
  BY DEF IInv, TypeOK, limiter, LimiterTypeOK, Judged
<1>2. unseen' \in 0..MaxFaults /\ guesses' \in 0..(CodeLimit + MaxFaults)
  BY DEF IInv, TypeOK
<1>3. QED BY <1>1, <1>2, TypeParts DEF IInv

-----------------------------------------------------------------------------
(* The server actions *)

LEMMA SignInWithPasswordStep ==
  ASSUME IInv, SignInWithPassword
  PROVE  IInv'
<1>0. TypeOK /\ FormType /\ RouteType /\ SupabaseType /\ unseen \in 0..MaxFaults
  BY TypeParts DEF IInv
<1>1. UNCHANGED <<account, mailed, guesses>>
  BY DEF SignInWithPassword, supabase
<1>2. PICK over \in BOOLEAN, right \in BOOLEAN :
       /\ CheckRateLimit("verify", PasswordLimit, over)
       /\ \/ over /\ Answer("signin", "idle") /\ Stay /\ UNCHANGED unseen
          \/ ~over /\ right /\ account = "password" /\ GoTo(SafeNext) /\ UNCHANGED unseen
          \/ /\ ~over /\ ~(right /\ account = "password")
             /\ \E exists \in BOOLEAN :
                  /\ Lookup(exists)
                  /\ Answer("signin", IF exists /\ account = "oauth" THEN "google-only" ELSE "idle")
             /\ Stay
  BY DEF SignInWithPassword
<1>3. LimiterTypeOK' /\ Judged' /\ guesses' \in 0..(CodeLimit + MaxFaults)
  BY <1>0, <1>1, <1>2, JudgedStep, LimitsType DEF IInv, Keys, MayGuess
<1>4. SupabaseType'
  BY <1>0, <1>1 DEF SupabaseType
<1>5. ASSUME NEW status \in {"idle", "google-only"}, Answer("signin", status), Stay,
             unseen' \in 0..MaxFaults, unseen' >= unseen
      PROVE  /\ FormType' /\ RouteType' /\ VerifyAsked' /\ CodeEarned' /\ unseen' \in 0..MaxFaults
  <2>1. FormType' /\ VerifyAsked' /\ (CodeCard' => CodeCard)
    <3>1. "signin" \in Kept \ {"verify", "signup"}
      BY DEF Kept
    <3>2. QED BY <1>0, <1>5, <3>1, AnswerStep
  <2>2. RouteType'
    BY <1>0, <1>5 DEF Stay, route, RouteType, Heading
  <2>3. unseen > 0 => unseen' > 0
    BY <1>0, <1>5, LimitsType
  <2>4. CodeEarned'
    BY <1>1, <2>1, <2>3, EarnedKept DEF IInv
  <2>5. QED BY <1>5, <2>1, <2>2, <2>4
<1>6. FormType' /\ RouteType' /\ VerifyAsked' /\ CodeEarned' /\ unseen' \in 0..MaxFaults
  <2>1. CASE over /\ Answer("signin", "idle") /\ Stay /\ UNCHANGED unseen
    <3>1. unseen' >= unseen /\ unseen' \in 0..MaxFaults
      BY <1>0, <2>1, LimitsType
    <3>2. QED BY <1>5, <2>1, <3>1
  <2>2. CASE GoTo(SafeNext) /\ UNCHANGED unseen
    BY <1>0, <2>2, SafeNextType, GoToStep
  <2>3. CASE /\ \E exists \in BOOLEAN :
                  /\ Lookup(exists)
                  /\ Answer("signin", IF exists /\ account = "oauth" THEN "google-only" ELSE "idle")
             /\ Stay
    <3>1. PICK exists \in BOOLEAN :
                  /\ Lookup(exists)
                  /\ Answer("signin", IF exists /\ account = "oauth" THEN "google-only" ELSE "idle")
      BY <2>3
    <3>2. unseen' \in 0..MaxFaults /\ unseen' >= unseen
      BY <1>0, <3>1, LookupType
    <3>3. QED BY <1>5, <2>3, <3>1, <3>2
  <2>4. QED BY <1>2, <2>1, <2>2, <2>3
<1>7. QED BY <1>3, <1>4, <1>6, TypeParts DEF IInv

LEMMA SignUpStep ==
  ASSUME IInv, SignUpWithPassword
  PROVE  IInv'
<1>0. TypeOK /\ FormType /\ RouteType /\ SupabaseType /\ unseen \in 0..MaxFaults
  BY TypeParts DEF IInv
<1>1. UNCHANGED <<session, page, next, guesses>>
  BY DEF SignUpWithPassword, route
<1>2. PICK over \in BOOLEAN, exists \in BOOLEAN, ok \in BOOLEAN :
       /\ CheckRateLimit("request", RequestLimit, over)
       /\ \/ over /\ Answer("signup", "idle") /\ UNCHANGED <<supabase, unseen>>
          \/ ~over /\ Lookup(exists)
             /\ IF exists \/ ~ok
                THEN Answer("signup", "idle") /\ UNCHANGED supabase
                ELSE SignUpCall /\ Answer("signup", "verify-code")
  BY DEF SignUpWithPassword
<1>3. LimiterTypeOK' /\ Judged' /\ guesses' \in 0..(CodeLimit + MaxFaults)
  BY <1>0, <1>1, <1>2, JudgedStep, LimitsType DEF IInv, Keys, MayGuess
<1>4. RouteType'
  BY <1>0, <1>1 DEF RouteType, Heading
<1>5. unseen' \in 0..MaxFaults /\ unseen' >= unseen
  <2>1. CASE UNCHANGED unseen
    BY <1>0, <2>1, LimitsType
  <2>2. CASE Lookup(exists)
    BY <1>0, <2>2, LookupType
  <2>3. QED BY <1>2, <2>1, <2>2
<1>6. unseen > 0 => unseen' > 0
  BY <1>0, <1>5, LimitsType
<1>7. "signup" \in Kept
  BY DEF Kept
<1>8. CASE Answer("signup", "idle") /\ UNCHANGED supabase
  <2>1. FormType' /\ VerifyAsked' /\ (CodeCard' => CodeCard)
    <3>1. "idle" # "verify-code"
      OBVIOUS
    <3>2. QED BY <1>0, <1>7, <1>8, <3>1, AnswerStep
  <2>2. SupabaseType' /\ account' = account /\ mailed' = mailed
    BY <1>0, <1>8 DEF SupabaseType, supabase
  <2>3. CodeEarned'
    BY <1>6, <2>1, <2>2, EarnedKept DEF IInv
  <2>4. QED BY <1>3, <1>4, <1>5, <2>1, <2>2, <2>3, TypeParts DEF IInv
<1>9. CASE ~exists /\ Lookup(exists) /\ SignUpCall /\ Answer("signup", "verify-code")
  <2>1. FormType' /\ VerifyAsked'
    BY <1>0, <1>7, <1>9, AnswerStep
  <2>2. SupabaseType' /\ ("signup" \in mailed' \/ (account' = account /\ account # "none"))
    BY <1>0, <1>9 DEF SignUpCall, SupabaseType, supabase
  <2>3. account = "none" \/ unseen' > 0
    BY <1>0, <1>9, LookupType
  <2>4. CodeEarned'
    BY <2>2, <2>3 DEF CodeEarned
  <2>5. QED BY <1>3, <1>4, <1>5, <2>1, <2>2, <2>4, TypeParts DEF IInv
<1>10. QED BY <1>2, <1>8, <1>9

LEMMA VerifyStep ==
  ASSUME IInv, VerifySignupCode
  PROVE  IInv'
<1>0. /\ TypeOK /\ FormType /\ RouteType /\ SupabaseType /\ unseen \in 0..MaxFaults
      /\ running = "verify" /\ UNCHANGED unseen
  BY TypeParts DEF IInv, VerifySignupCode
<1>1. PICK over \in BOOLEAN, right \in BOOLEAN :
       /\ CheckRateLimit("verify", CodeLimit, over)
       /\ \/ over /\ Answer("verify", "idle") /\ Stay /\ UNCHANGED <<supabase, guesses>>
          \/ /\ ~over /\ right /\ "signup" \in mailed /\ Guess
             /\ account' = "password" /\ mailed' = mailed \ {"signup"} /\ GoTo(SafeNext)
          \/ /\ ~over /\ ~(right /\ "signup" \in mailed) /\ Guess
             /\ Answer("verify", "verify-code") /\ Stay /\ UNCHANGED supabase
  BY DEF VerifySignupCode
<1>2. LimiterTypeOK' /\ Judged' /\ guesses' \in 0..(CodeLimit + MaxFaults)
  <2>1. guesses' = guesses \/ (guesses' = guesses + 1 /\ ~over)
    BY <1>1 DEF Guess
  <2>2. QED BY <1>0, <1>1, <2>1, JudgedStep, LimitsType DEF IInv, Keys, MayGuess
<1>3. "verify" \in Kept /\ CodeCard
  BY <1>0 DEF IInv, VerifyAsked, Kept
<1>4. CASE /\ Answer("verify", "idle") \/ Answer("verify", "verify-code")
           /\ Stay /\ UNCHANGED supabase
  <2>1. FormType' /\ VerifyAsked'
    BY <1>0, <1>3, <1>4, AnswerStep
  <2>2. SupabaseType' /\ RouteType' /\ account' = account /\ mailed' = mailed
    BY <1>0, <1>4 DEF SupabaseType, supabase, Stay, route, RouteType, Heading
  <2>3. CodeEarned'
    BY <1>0, <1>3, <2>2 DEF IInv, CodeEarned
  <2>4. QED BY <1>0, <1>2, <2>1, <2>2, <2>3, TypeParts DEF IInv
<1>5. CASE account' = "password" /\ mailed' = mailed \ {"signup"} /\ GoTo(SafeNext)
  <2>1. FormType' /\ RouteType' /\ VerifyAsked' /\ CodeEarned'
    BY <1>0, <1>5, SafeNextType, GoToStep
  <2>2. SupabaseType'
    BY <1>0, <1>5 DEF SupabaseType
  <2>3. QED BY <1>0, <1>2, <2>1, <2>2, TypeParts DEF IInv
<1>6. QED BY <1>1, <1>4, <1>5

\* Sending a code again, on the card that asks for one.
LEMMA MailStep ==
  ASSUME IInv, ResendSignupCode \/ RequestPasswordReset \/ ResendPasswordResetCode
  PROVE  IInv'
<1>0. /\ TypeOK /\ FormType /\ RouteType /\ SupabaseType /\ unseen \in 0..MaxFaults
      /\ UNCHANGED <<account, session, page, next, unseen, guesses>>
  BY TypeParts DEF IInv, ResendSignupCode, RequestPasswordReset, ResendPasswordResetCode, route
<1>1. \E over \in BOOLEAN : CheckRateLimit("request", RequestLimit, over)
  BY DEF ResendSignupCode, RequestPasswordReset, ResendPasswordResetCode
<1>2. LimiterTypeOK' /\ Judged' /\ guesses' \in 0..(CodeLimit + MaxFaults)
  BY <1>0, <1>1, JudgedStep, LimitsType DEF IInv, Keys, MayGuess
<1>3. mailed \subseteq mailed' /\ mailed' \subseteq mailed \cup {"signup", "recovery"}
  BY DEF ResendSignupCode, RequestPasswordReset, ResendPasswordResetCode, MailRecovery
<1>4. SupabaseType' /\ RouteType'
  BY <1>0, <1>3 DEF SupabaseType, RouteType, Heading
<1>5. FormType' /\ VerifyAsked' /\ (CodeCard' => CodeCard)
  <2>1. CASE RequestPasswordReset
    <3>1. PICK status \in {"code-sent", "idle"} : Answer("request", status)
      BY <2>1 DEF RequestPasswordReset
    <3>2. "request" \in Kept \ {"verify", "signup"}
      BY DEF Kept
    <3>3. QED BY <1>0, <3>1, <3>2, AnswerStep
  <2>2. CASE ResendSignupCode \/ ResendPasswordResetCode
    BY <1>0, <2>2, SayStep DEF ResendSignupCode, ResendPasswordResetCode
  <2>3. QED BY <2>1, <2>2
<1>6. CodeEarned'
  BY <1>0, <1>3, <1>5, EarnedKept DEF IInv
<1>7. QED BY <1>0, <1>2, <1>4, <1>5, <1>6, TypeParts DEF IInv

LEMMA VerifyResetStep ==
  ASSUME IInv, VerifyPasswordResetCode
  PROVE  IInv'
<1>0. /\ TypeOK /\ FormType /\ RouteType /\ SupabaseType /\ unseen \in 0..MaxFaults
      /\ UNCHANGED unseen
  BY TypeParts DEF IInv, VerifyPasswordResetCode
<1>1. PICK over \in BOOLEAN, right \in BOOLEAN, ok \in BOOLEAN :
       /\ CheckRateLimit("verify", CodeLimit, over)
       /\ \/ over /\ Answer("reset", "idle") /\ Stay /\ UNCHANGED <<supabase, guesses>>
          \/ /\ ~over /\ right /\ "recovery" \in mailed /\ Guess
             /\ mailed' = mailed \ {"recovery"}
             /\ IF ok THEN account' = "password" /\ GoTo("/onboarding")
                ELSE /\ account' = IF account = "unconfirmed" THEN "password" ELSE account
                     /\ Answer("reset", "code-sent")
                     /\ session' = TRUE /\ UNCHANGED <<page, next>>
          \/ /\ ~over /\ ~(right /\ "recovery" \in mailed) /\ Guess
             /\ Answer("reset", "code-sent") /\ Stay /\ UNCHANGED supabase
  BY DEF VerifyPasswordResetCode
<1>2. LimiterTypeOK' /\ Judged' /\ guesses' \in 0..(CodeLimit + MaxFaults)
  <2>1. guesses' = guesses \/ (guesses' = guesses + 1 /\ ~over)
    BY <1>1 DEF Guess
  <2>2. QED BY <1>0, <1>1, <2>1, JudgedStep, LimitsType DEF IInv, Keys, MayGuess
<1>3. CASE account' = "password" /\ mailed' = mailed \ {"recovery"} /\ GoTo("/onboarding")
  <2>1. FormType' /\ RouteType' /\ VerifyAsked' /\ CodeEarned'
    BY <1>3, GoToStep DEF Landings
  <2>2. SupabaseType'
    BY <1>0, <1>3 DEF SupabaseType
  <2>3. QED BY <1>0, <1>2, <2>1, <2>2, TypeParts DEF IInv
<1>4. CASE /\ \E status \in {"idle", "code-sent"} : Answer("reset", status)
           /\ account' = account \/ account' = "password"
           /\ mailed' = mailed \/ mailed' = mailed \ {"recovery"}
           /\ session' \in BOOLEAN /\ UNCHANGED <<page, next>>
  <2>1. FormType' /\ VerifyAsked' /\ (CodeCard' => CodeCard)
    <3>1. "reset" \in Kept \ {"verify", "signup"}
      BY DEF Kept
    <3>2. QED BY <1>0, <1>4, <3>1, AnswerStep
  <2>2. SupabaseType' /\ RouteType'
    BY <1>0, <1>4 DEF SupabaseType, RouteType, Heading
  <2>3. "signup" \in mailed => "signup" \in mailed'
    BY <1>4
  <2>4. CodeEarned'
    BY <1>0, <1>4, <2>1, <2>3, EarnedKept DEF IInv
  <2>5. QED BY <1>0, <1>2, <2>1, <2>2, <2>4, TypeParts DEF IInv
<1>5. session \in BOOLEAN
  BY <1>0 DEF RouteType, Heading
<1>6. QED BY <1>1, <1>3, <1>4, <1>5 DEF Stay, route, supabase

-----------------------------------------------------------------------------
(* The page, the routes and the clock *)

LEMMA RouteOfType ==
  ASSUME NEW user \in BOOLEAN, NEW path \in Asked
  PROVE  /\ Route(user, path).page # "provider"
         /\ Route(user, path).page \in Landings \cup {"/login", "/pricing", "/error", "provider"}
         /\ Route(user, path).next \in Landings \cup {"none"}
BY SignInAssumption DEF Route, Landings, Protected

LEMMA BrowsingStep ==
  ASSUME IInv,
         \/ \E path \in Asked : Visit(path)
         \/ SessionEnds \/ SetMode \/ SignInWithProvider \/ Callback
         \/ \E kind \in mailed : Confirm(kind)
  PROVE  IInv'
<1>0. FormType /\ RouteType /\ SupabaseType /\ VerifyAsked /\ CodeEarned
  BY TypeParts DEF IInv
<1>1. UNCHANGED <<limiter, unseen, guesses>>
  BY DEF Visit, SessionEnds, SetMode, SignInWithProvider, Callback, Confirm
<1>2. ASSUME NEW path \in Asked, Visit(path) PROVE IInv'
  <2>1. RouteType'
    BY <1>0, <1>2, RouteOfType DEF Visit, RouteType, Heading
  <2>2. SupabaseType'
    BY <1>0, <1>2 DEF Visit, SupabaseType, supabase
  <2>3. QED BY <1>1, <1>2, <2>1, <2>2, FreshStep, UncountedStep DEF Visit
<1>3. CASE SessionEnds \/ SetMode
  <2>1. UNCHANGED <<account, mailed, st, running>>
    BY <1>3 DEF SessionEnds, SetMode, supabase, form
  <2>2. FormType' /\ RouteType' /\ SupabaseType'
    BY <1>0, <1>3, <2>1 DEF SessionEnds, SetMode, form, route, FormType, RouteType, Heading, SupabaseType
  <2>3. VerifyAsked' /\ CodeEarned'
    BY <1>0, <1>1, <2>1 DEF VerifyAsked, CodeEarned, CodeCard
  <2>4. QED BY <1>1, <2>2, <2>3, UncountedStep
<1>4. CASE SignInWithProvider
  <2>1. RouteType' /\ SupabaseType'
    BY <1>0, <1>4, SafeNextType DEF SignInWithProvider, RouteType, Heading, SupabaseType, supabase
  <2>2. QED BY <1>1, <1>4, <2>1, FreshStep, UncountedStep DEF SignInWithProvider
<1>5. CASE Callback
  <2>1. SupabaseType'
    BY <1>0, <1>5 DEF Callback, SupabaseType
  <2>2. RouteType' /\ Fresh
    BY <1>0, <1>5 DEF Callback, GoTo, RouteType, Heading, Landings
  <2>3. QED BY <1>1, <2>1, <2>2, FreshStep, UncountedStep
<1>6. ASSUME NEW kind \in mailed, Confirm(kind) PROVE IInv'
  <2>1. SupabaseType'
    BY <1>0, <1>6 DEF Confirm, SupabaseType
  <2>2. "/onboarding" \in Landings /\ GoTo("/onboarding")
    BY <1>6 DEF Confirm, Landings
  <2>3. QED BY <1>1, <2>1, <2>2, GoToStep, UncountedStep
<1>7. QED BY <1>2, <1>3, <1>4, <1>5, <1>6

LEMMA SubmitStep ==
  ASSUME IInv, NEW a \in Actions, Submit(a)
  PROVE  IInv'
<1>0. FormType /\ RouteType /\ SupabaseType /\ CodeEarned
  BY TypeParts DEF IInv
<1>1. UNCHANGED <<limiter, account, mailed, mode, st, session, page, next, unseen, guesses>>
  BY DEF Submit, supabase, route
<1>2. running' = a /\ a \in Offers
  BY DEF Submit
<1>3. a = "verify" => CodeCard
  BY <1>0, <1>2 DEF Offers, Screen, CodeCard, FormType
<1>4. FormType' /\ RouteType' /\ SupabaseType'
  BY <1>0, <1>1, <1>2 DEF FormType, RouteType, Heading, SupabaseType
<1>5. VerifyAsked' /\ CodeEarned'
  BY <1>0, <1>1, <1>2, <1>3 DEF VerifyAsked, CodeEarned, CodeCard
<1>6. QED BY <1>1, <1>4, <1>5, UncountedStep

\* The window of the primary takes its guesses along.
LEMMA ExpiryStep ==
  ASSUME IInv, NEW i \in Instances, NEW k \in Keys, Expiry(i, k)
  PROVE  IInv'
<1>0. /\ LimiterTypeOK /\ FormType /\ RouteType /\ SupabaseType /\ VerifyAsked /\ CodeEarned /\ Judged
      /\ unseen \in 0..MaxFaults /\ guesses \in 0..(CodeLimit + MaxFaults)
  BY TypeParts DEF IInv
<1>1. /\ hits' = [hits EXCEPT ![i][k] = 0] /\ ttl' = [ttl EXCEPT ![i][k] = FALSE] /\ faults' = faults
      /\ guesses' = IF i = "primary" /\ k = "verify" THEN 0 ELSE guesses
      /\ UNCHANGED <<account, mailed, mode, st, running, session, page, next, unseen>>
  BY DEF Expiry, WindowEnds, supabase, form, route
<1>2. hits' \in [Instances -> [Keys -> 0..MaxHits]]
  BY <1>0, <1>1, LimitsType DEF LimiterTypeOK
<1>3. ttl' \in [Instances -> [Keys -> BOOLEAN]] /\ faults' \in 0..MaxFaults
  BY <1>0, <1>1 DEF LimiterTypeOK
<1>4. LimiterTypeOK'
  BY <1>2, <1>3 DEF LimiterTypeOK
<1>5. "primary" \in Instances /\ "verify" \in Keys /\ faults \in Nat /\ CodeLimit \in Nat
  BY <1>0, LimitsType DEF Instances, Keys, LimiterTypeOK
<1>6. Judged' /\ guesses' \in 0..(CodeLimit + MaxFaults)
  <2>1. CASE i = "primary" /\ k = "verify"
    <3>1. guesses' = 0
      BY <1>1, <2>1
    <3>2. hits'["primary"]["verify"] \in Nat
      BY <1>2, <1>5, LimitsType
    <3>3. 0 \in 0..(CodeLimit + MaxFaults)
      BY LimitsType
    <3>4. QED BY <1>1, <1>5, <3>1, <3>2, <3>3 DEF Judged
  <2>2. CASE ~(i = "primary" /\ k = "verify")
    <3>1. hits'["primary"]["verify"] = hits["primary"]["verify"]
      BY <1>0, <1>1, <1>5, <2>2 DEF LimiterTypeOK
    <3>2. guesses' = guesses
      BY <1>1, <2>2
    <3>3. QED BY <1>0, <1>1, <3>1, <3>2 DEF Judged
  <2>3. QED BY <2>1, <2>2
<1>7. FormType' /\ RouteType' /\ SupabaseType' /\ VerifyAsked' /\ CodeEarned' /\ unseen' \in 0..MaxFaults
  BY <1>0, <1>1 DEF FormType, RouteType, Heading, SupabaseType, VerifyAsked, CodeEarned, CodeCard
<1>8. QED BY <1>4, <1>6, <1>7, TypeParts DEF IInv

-----------------------------------------------------------------------------
(* The theorems *)

LEMMA InvInit == Init => IInv
<1> SUFFICES ASSUME Init PROVE IInv
  OBVIOUS
<1>1. LimiterTypeOK
  BY LimitsType DEF Init, LimiterInit, LimiterTypeOK
<1>2. SupabaseType /\ FormType /\ RouteType
  BY DEF Init, SupabaseType, FormType, RouteType, Heading
<1>3. unseen \in 0..MaxFaults /\ guesses \in 0..(CodeLimit + MaxFaults)
  BY LimitsType DEF Init
<1>4. Judged
  <2>1. hits["primary"]["verify"] = 0 /\ faults = 0 /\ guesses = 0
    BY DEF Init, LimiterInit, Instances, Keys
  <2>2. QED BY <2>1, LimitsType DEF Judged
<1>5. VerifyAsked /\ CodeEarned
  BY DEF Init, VerifyAsked, CodeEarned, CodeCard, Kept
<1>6. QED BY <1>1, <1>2, <1>3, <1>4, <1>5, TypeParts DEF IInv

LEMMA InvStep == IInv /\ [Next]_vars => IInv'
<1> SUFFICES ASSUME IInv, [Next]_vars PROVE IInv'
  OBVIOUS
<1>1. CASE UNCHANGED vars
  <2>1. FormType' /\ RouteType' /\ SupabaseType' /\ VerifyAsked' /\ CodeEarned'
    BY <1>1, TypeParts DEF IInv, vars, supabase, form, route, FormType, RouteType, Heading, SupabaseType,
                           VerifyAsked, CodeEarned, CodeCard
  <2>2. QED BY <1>1, <2>1, UncountedStep DEF vars
<1>2. CASE ServerAction
  BY <1>2, SignInWithPasswordStep, SignUpStep, VerifyStep, MailStep, VerifyResetStep DEF ServerAction
<1>3. QED BY <1>1, <1>2, BrowsingStep, SubmitStep, ExpiryStep DEF Next

LEMMA Invariance == Spec => []IInv
BY InvInit, InvStep, PTL DEF Spec

\* Every variable keeps its type for any limits, faults and paths asked for.
THEOREM TypeCorrect == Spec => []TypeOK
<1>1. IInv => TypeOK
  BY DEF IInv
<1>2. QED BY Invariance, <1>1, PTL

\* In one window Supabase judges at most CodeLimit guesses of a code, and one
\* more for each attempt at which the primary failed: neither passwords tried
\* nor codes requested nor the spare counter make room for another.
THEOREM GuessSafety == Spec => []GuessesWithinLimit
<1>1. IInv => GuessesWithinLimit
  BY DEF IInv, Judged, GuessesWithinLimit
<1>2. QED BY Invariance, <1>1, PTL

\* Whoever is asked for a code was mailed one that is unused, unless a lookup
\* failed.
THEOREM CodeSafety == Spec => []CodeScreenHasCode
<1>1. IInv => CodeScreenHasCode
  BY DEF IInv, TypeOK, CodeEarned, CodeCard, Screen, CodeScreenHasCode
<1>2. QED BY Invariance, <1>1, PTL

Landed ==
  ~session /\ session' /\ page \in {"/login", "provider"} /\ next \in Protected
    => page' = next \/ running = "reset" \/ \E kind \in mailed : Confirm(kind)

LEMMA LandingStep == IInv /\ [Next]_vars => Landed
<1> SUFFICES ASSUME IInv, [Next]_vars, ~session, session', next \in Protected
             PROVE  page' = next \/ running = "reset" \/ \E kind \in mailed : Confirm(kind)
  BY DEF Landed
<1>1. SafeNext = next
  BY SafeNextType, TypeParts DEF IInv
<1>2. CASE SignInWithPassword
  BY <1>1, <1>2 DEF SignInWithPassword, GoTo, Stay, route
<1>3. CASE VerifySignupCode
  BY <1>1, <1>3 DEF VerifySignupCode, GoTo, Stay, route
<1>4. CASE VerifyPasswordResetCode
  BY <1>4 DEF VerifyPasswordResetCode
<1>5. CASE Callback
  BY <1>5 DEF Callback, GoTo
<1>6. CASE \E kind \in mailed : Confirm(kind)
  BY <1>6
<1>7. ASSUME \/ UNCHANGED vars \/ SessionEnds \/ SetMode \/ SignInWithProvider
             \/ \E path \in Asked : Visit(path)
             \/ \E a \in Actions : Submit(a)
             \/ SignUpWithPassword \/ ResendSignupCode
             \/ RequestPasswordReset \/ ResendPasswordResetCode
             \/ \E i \in Instances, k \in Keys : Expiry(i, k)
      PROVE  FALSE
  <2>1. session' = session \/ session' = FALSE
    BY <1>7 DEF vars, route, SessionEnds, SetMode, SignInWithProvider, Visit, Submit,
                SignUpWithPassword, ResendSignupCode, RequestPasswordReset,
                ResendPasswordResetCode, Expiry
  <2>2. QED BY <2>1
<1>8. QED BY <1>2, <1>3, <1>4, <1>5, <1>6, <1>7 DEF Next, ServerAction

\* Whoever was sent to sign in lands on the page that was asked for, by whichever
\* way but a reset code or a mailed link.
THEOREM LandingSafety == Spec => LandsWhereAsked
<1>1. IInv /\ [Next]_vars => [Landed]_vars
  BY LandingStep
<1>2. [][Landed]_vars <=> LandsWhereAsked
  BY PTL DEF Landed, LandsWhereAsked
<1>3. QED BY Invariance, <1>1, <1>2, PTL DEF Spec
=============================================================================
