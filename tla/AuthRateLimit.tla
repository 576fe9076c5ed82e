---------------------------- MODULE AuthRateLimit ---------------------------
(***************************************************************************)
(* The fixed windows that count the attempts on one email address          *)
(* (shared/lib/rate-limit.ts): a counter per key on the primary Redis,     *)
(* and another on the spare one, which is asked only when the primary      *)
(* fails.  A command that fails may have counted all the same.             *)
(***************************************************************************)
EXTENDS Naturals

CONSTANTS
  RequestLimit,  \* 5: sign-ups, new codes and reset codes
  CodeLimit,     \* 5: guesses of a code
  PasswordLimit, \* 10: passwords, on the key of the guesses
  MaxFaults      \* bound: attempts at which the primary fails

ASSUME AuthRateLimitAssumption ==
  /\ RequestLimit \in Nat \ {0} /\ CodeLimit \in Nat \ {0} /\ MaxFaults \in Nat
  /\ PasswordLimit \in Nat /\ PasswordLimit > CodeLimit /\ PasswordLimit > RequestLimit

VARIABLES
  hits,   \* the value of a counter
  ttl,    \* it expires
  faults

limiter == <<hits, ttl, faults>>

Instances == {"primary", "spare"}
Keys == {"request", "verify"}

\* Bound: a counter stops where every limit is passed.
MaxHits == PasswordLimit + 1

LimiterTypeOK ==
  /\ hits \in [Instances -> [Keys -> 0..MaxHits]]
  /\ ttl \in [Instances -> [Keys -> BOOLEAN]]
  /\ faults \in 0..MaxFaults

LimiterInit ==
  /\ hits = [i \in Instances |-> [k \in Keys |-> 0]]
  /\ ttl = [i \in Instances |-> [k \in Keys |-> FALSE]]
  /\ faults = 0

Bump(h, i, k) == [h EXCEPT ![i][k] = IF @ = MaxHits THEN @ ELSE @ + 1]

\* Mutated form of Counted: the window is set by the attempt that is refused.
Counted_LateWindow(i, k, limit, h, over) ==
  /\ hits' = Bump(h, i, k)
  /\ ttl' = [ttl EXCEPT ![i][k] = @ \/ hits'[i][k] = limit + 2]
  /\ over = (hits'[i][k] > limit)

\* Mutated form of Counted: the value before the INCR is compared.
Counted_Before(i, k, limit, h, over) ==
  /\ hits' = Bump(h, i, k)
  /\ ttl' = [ttl EXCEPT ![i][k] = @ \/ hits'[i][k] = 1]
  /\ over = (h[i][k] > limit)

\* INCR, and EXPIRE at the first; h is what the counters hold by then.
Counted(i, k, limit, h, over) ==
  /\ hits' = Bump(h, i, k)
  /\ ttl' = [ttl EXCEPT ![i][k] = @ \/ hits'[i][k] = 1]
  /\ over = (hits'[i][k] > limit)

\* checkRateLimit: the primary, else the spare, else the attempt is let
\* through.  A primary that failed after the INCR has counted, and a counter
\* whose EXPIRE was never sent keeps no window.
CheckRateLimit(k, limit, over) ==
  \/ Counted("primary", k, limit, hits, over) /\ UNCHANGED faults
  \/ /\ faults < MaxFaults /\ faults' = faults + 1
     /\ \E h \in {hits, Bump(hits, "primary", k)} :
          \/ Counted("spare", k, limit, h, over)
          \/ ~over /\ hits' = h /\ UNCHANGED ttl

WindowEnds(i, k) ==
  /\ ttl[i][k]
  /\ hits' = [hits EXCEPT ![i][k] = 0]
  /\ ttl' = [ttl EXCEPT ![i][k] = FALSE]
  /\ UNCHANGED faults
=============================================================================
