---------------------------- MODULE LoginThrottle ----------------------------
(***************************************************************************)
(* How often a password can be tried and a password reset be asked for     *)
(* (AuthAttemptService and PasswordRecoveryAttemptService).  Each counts   *)
(* in rows of auth_attempts, one for the e-mail address and one for the    *)
(* IP; a row counts within a window, and locks its key for a while when    *)
(* the count reaches its maximum.  The check of the locks, the work and    *)
(* the count are separate calls of the database, and requests run at once. *)
(*                                                                         *)
(* The two services have the same shape and rows of their own: `service`   *)
(* says which one a behavior shows.  One address and one IP are shown.     *)
(***************************************************************************)
EXTENDS Naturals, FiniteSets

CONSTANTS
    Attempters,     \* requests that can run at once
    MaxFailures,    \* the maximum of each key
    MaxLost         \* bound on the requests that fail before they are counted

Keys == {"EMAIL", "IP"}

ASSUME ThrottleParameters ==
    /\ IsFiniteSet(Attempters)
    /\ MaxFailures \in [Keys -> Nat \ {0}]
    /\ MaxLost \in Nat

VARIABLES
    service,        \* "LOGIN" or "RECOVERY"
    counter,        \* auth_attempts; a row that is not there counts like an empty one
    attempt,        \* the requests
    tried,          \* of each key: failed logins, or requests let through, in its current period
    lost            \* tries that were never counted

throttleVars == <<service, counter, attempt, tried, lost>>

\* The window and the lock: never set, still running, or over.
Spans == {"NONE", "RUNNING", "OVER"}
Counter == [attempts: Nat, window: Spans, lock: Spans]
Empty == [attempts |-> 0, window |-> "NONE", lock |-> "NONE"]

Attempt == [phase: {"IDLE", "CHECK", "COMPARE", "COUNT", "RESET"}, left: SUBSET Keys]

ThrottleTypeOK ==
    /\ service \in {"LOGIN", "RECOVERY"}
    /\ counter \in [Keys -> Counter]
    /\ attempt \in [Attempters -> Attempt]
    /\ tried \in [Keys -> Nat]
    /\ lost \in 0..MaxLost

Waiting(phase, left) == [phase |-> phase, left |-> left]
NotAsked == Waiting("IDLE", {})

ThrottleInit ==
    /\ service \in {"LOGIN", "RECOVERY"}
    /\ counter = [k \in Keys |-> Empty]
    /\ attempt = [a \in Attempters |-> NotAsked]
    /\ tried = [k \in Keys |-> 0]
    /\ lost = 0

-----------------------------------------------------------------------------
Locked(row) == row.lock = "RUNNING"

\* recordFailedAttemptAtomic: one statement.  A locked row stays as it is, one
\* whose window or lock is over counts from one again.
Restarts(row) == ~Locked(row) /\ (row.window # "RUNNING" \/ row.lock = "OVER")

\* Mutant: the lock comes one failure late.
CountedOneMore(k, row) ==
    LET n == IF Restarts(row) THEN 1 ELSE row.attempts + 1
    IN IF Locked(row) THEN row
       ELSE [attempts |-> n, window |-> "RUNNING",
             lock |-> IF n > MaxFailures[k] THEN "RUNNING" ELSE "NONE"]

Counted(k, row) ==
    LET n == IF Restarts(row) THEN 1 ELSE row.attempts + 1
    IN IF Locked(row) THEN row
       ELSE [attempts |-> n, window |-> "RUNNING",
             lock |-> IF n >= MaxFailures[k] THEN "RUNNING" ELSE "NONE"]

SetAttempt(a, next) == attempt' = [attempt EXCEPT ![a] = next]

\* What a request does next, once it has done its part for k.
Going(a, k, otherwise) ==
    LET left == attempt[a].left \ {k}
    IN IF left = {} THEN otherwise ELSE Waiting(attempt[a].phase, left)

Arrive(a) ==
    /\ attempt[a] = NotAsked
    /\ SetAttempt(a, Waiting("CHECK", Keys))
    /\ UNCHANGED <<service, counter, tried, lost>>

\* checkLoginBlocked reads the row of the IP first; consume reads both at once.
Reads(a, k) ==
    /\ attempt[a].phase = "CHECK" /\ k \in attempt[a].left
    /\ service = "LOGIN" /\ k = "EMAIL" => "IP" \notin attempt[a].left

Pass(a, k) ==
    /\ Reads(a, k) /\ ~Locked(counter[k])
    /\ SetAttempt(a, Going(a, k, IF service = "LOGIN" THEN Waiting("COMPARE", {})
                                 ELSE Waiting("COUNT", Keys)))
    /\ UNCHANGED <<service, counter, tried, lost>>

\* A login refused for the address still counts for the IP.
TooMany(a, k) ==
    /\ Reads(a, k) /\ Locked(counter[k])
    /\ SetAttempt(a, IF service = "LOGIN" /\ k = "EMAIL" THEN Waiting("COUNT", {"IP"}) ELSE NotAsked)
    /\ UNCHANGED <<service, counter, tried, lost>>

\* login: the password is compared, with a dummy hash for an unknown address.
Compare(a) ==
    /\ attempt[a].phase = "COMPARE"
    /\ \/ /\ tried' = [k \in Keys |-> tried[k] + 1]
          /\ SetAttempt(a, Waiting("COUNT", Keys))
       \/ \E found \in SUBSET Keys :      \* the rows that resetAttempt finds
              /\ \A k \in Keys \ found : counter[k] = Empty
              /\ SetAttempt(a, IF found = {} THEN NotAsked ELSE Waiting("RESET", found))
              /\ UNCHANGED tried
    /\ UNCHANGED <<service, counter, lost>>

\* The statement for one key; consume lets the request through when none of its
\* keys is locked now.
Count(a, k) ==
    /\ attempt[a].phase = "COUNT" /\ k \in attempt[a].left
    /\ counter' = [counter EXCEPT ![k] = Counted(k, counter[k])]
    /\ tried' = [tried EXCEPT ![k] =
           IF service = "RECOVERY" /\ ~Locked(counter'[k]) THEN @ + 1 ELSE @]
    /\ SetAttempt(a, Going(a, k, NotAsked))
    /\ UNCHANGED <<service, lost>>

\* resetAttempt, after a successful login: also of a row that others have counted
\* in or locked since it was read.
Reset(a, k) ==
    /\ attempt[a].phase = "RESET" /\ k \in attempt[a].left
    /\ counter' = [counter EXCEPT ![k] = Empty]
    /\ tried' = [tried EXCEPT ![k] = 0]
    /\ SetAttempt(a, Going(a, k, NotAsked))
    /\ UNCHANGED <<service, lost>>

\* The process stops or the database fails before everything is counted.
Lose(a) ==
    /\ attempt[a].phase = "COUNT" /\ lost < MaxLost
    /\ lost' = lost + 1
    /\ SetAttempt(a, NotAsked)
    /\ UNCHANGED <<service, counter, tried>>

\* Time passes: a key's window or its lock is over, and its tries belong to the past.
TimePasses(k) ==
    /\ \/ /\ counter[k].window = "RUNNING"
          /\ counter' = [counter EXCEPT ![k] = [@ EXCEPT !.window = "OVER"]]
       \/ /\ counter[k].lock = "RUNNING"
          /\ counter' = [counter EXCEPT ![k] = [@ EXCEPT !.lock = "OVER"]]
    /\ tried' = [tried EXCEPT ![k] = 0]
    /\ UNCHANGED <<service, attempt, lost>>

ThrottleNext ==
    \/ \E a \in Attempters : Arrive(a) \/ Compare(a) \/ Lose(a)
    \/ \E a \in Attempters, k \in Keys :
           Pass(a, k) \/ TooMany(a, k) \/ Count(a, k) \/ Reset(a, k)
    \/ \E k \in Keys : TimePasses(k)

ThrottleSpec == ThrottleInit /\ [][ThrottleNext]_throttleVars

-----------------------------------------------------------------------------
\* However many requests run at once: until a key's window or lock is over, or
\* a login succeeds, a wrong password is compared at most as often as the
\* maximum allows, and once more by each other request that had passed the check
\* before the lock.  A password reset is let through less often than the
\* maximum, without that margin, because the statement that counts decides.
GuessesAreBounded ==
    \A k \in Keys :
        tried[k] <= IF service = "LOGIN"
                    THEN MaxFailures[k] + Cardinality(Attempters) - 1 + lost
                    ELSE MaxFailures[k] - 1
=============================================================================
