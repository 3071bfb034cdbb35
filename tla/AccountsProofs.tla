---------------------------- MODULE AccountsProofs ----------------------------
(***************************************************************************)
(* Proofs about the parts of an account beside its sessions                *)
(* (AuthSessionsProofs): the limits on guessing, for any maxima and any    *)
(* number of requests at once; the address book, for any limit; reviews,   *)
(* wishes and what the pages count, for any number of orders; the guards   *)
(* of every route, for any branches; and all of them as the sides of       *)
(* MCAccounts.                                                             *)
(***************************************************************************)
EXTENDS MCAccounts, AuthSessionsProofs, FiniteSetTheorems

-----------------------------------------------------------------------------
(* Guessing (LoginThrottle).  The count of a key and the tries of its       *)
(* period are tied by the requests between them: those that tried and are   *)
(* not counted yet (Uncounted), and, once the key is locked, those that     *)
(* passed the check before the lock (Past).                                 *)

IsUncounted(req, k) == req.phase = "COUNT" /\ k \in req.left

IsPast(req, k) ==
    \/ req.phase = "COMPARE"
    \/ req.phase = "CHECK" /\ k \notin req.left

Uncounted(k) == {a \in Attempters : IsUncounted(attempt[a], k)}

Past(k) == {a \in Attempters : IsPast(attempt[a], k)}

CountSoFar(row) == IF Restarts(row) THEN 0 ELSE row.attempts

\* While a key is open its tries are counted or about to be; when it locks, at
\* least the request whose count locked it cannot try again.
LoginOf(k) ==
    IF Locked(counter[k])
    THEN tried[k] + Cardinality(Past(k))
             <= MaxFailures[k] + Cardinality(Attempters) - 1 + lost
    ELSE tried[k] <= CountSoFar(counter[k]) + Cardinality(Uncounted(k)) + lost

RecoveryOf(k) ==
    /\ tried[k] <= MaxFailures[k] - 1
    /\ ~Locked(counter[k]) => tried[k] <= CountSoFar(counter[k])

KeyInv(k) ==
    /\ ~Locked(counter[k]) => CountSoFar(counter[k]) <= MaxFailures[k] - 1
    /\ service = "LOGIN" => LoginOf(k)
    /\ service = "RECOVERY" => RecoveryOf(k)

NothingCompared ==
    service = "RECOVERY" => \A a \in Attempters : attempt[a].phase # "COMPARE"

ThrottleInv == ThrottleTypeOK /\ NothingCompared /\ \A k \in Keys : KeyInv(k)

-----------------------------------------------------------------------------
(* Counting requests *)

One(b) == IF b THEN 1 ELSE 0

\* A set that one element may have entered or left.
LEMMA Resized ==
    ASSUME NEW S, IsFiniteSet(S), NEW T, NEW a, T \ {a} = S \ {a}
    PROVE  /\ IsFiniteSet(T)
           /\ Cardinality(T) = Cardinality(S) + One(a \in T) - One(a \in S)
  <1> DEFINE R == S \ {a}
  <1>1. IsFiniteSet(R) /\ a \notin R
    BY FS_RemoveElement
  <1>2. IsFiniteSet(R \cup {a}) /\ Cardinality(R \cup {a}) = Cardinality(R) + 1
    BY <1>1, FS_AddElement
  <1>3. Cardinality(R) \in Nat
    BY <1>1, FS_CardinalityType
  <1>4. Cardinality(S) = Cardinality(R) + One(a \in S)
    <2>1. CASE a \in S
      <3>1. S = R \cup {a}
        BY <2>1
      <3>2. QED
        BY <1>2, <1>3, <2>1, <3>1 DEF One
    <2>2. CASE a \notin S
      <3>1. S = R
        BY <2>2
      <3>2. QED
        BY <1>3, <2>2, <3>1 DEF One
    <2>3. QED
      BY <2>1, <2>2
  <1>5. IsFiniteSet(T) /\ Cardinality(T) = Cardinality(R) + One(a \in T)
    <2>1. CASE a \in T
      <3>1. T = R \cup {a}
        BY <2>1
      <3>2. QED
        BY <1>2, <1>3, <2>1, <3>1 DEF One
    <2>2. CASE a \notin T
      <3>1. T = R
        BY <2>2
      <3>2. QED
        BY <1>1, <1>3, <2>2, <3>1 DEF One
    <2>3. QED
      BY <2>1, <2>2
  <1>6. Cardinality(S) \in Nat
    BY <1>3, <1>4 DEF One
  <1> HIDE DEF R
  <1>7. QED
    BY <1>3, <1>4, <1>5, <1>6 DEF One

\* Two sets of requests that share none and leave one out.
LEMMA OneLeftOut ==
    ASSUME NEW c \in Attempters, NEW S, NEW T, S \subseteq Attempters \ {c},
           T \subseteq Attempters \ {c}, S \cap T = {}
    PROVE  /\ Cardinality(S) \in Nat /\ Cardinality(T) \in Nat
           /\ Cardinality(S) + Cardinality(T) <= Cardinality(Attempters) - 1
  <1>1. IsFiniteSet(Attempters)
    BY ThrottleParameters
  <1>2. /\ IsFiniteSet(Attempters \ {c})
        /\ Cardinality(Attempters \ {c}) = Cardinality(Attempters) - 1
    BY <1>1, FS_RemoveElement
  <1>3. IsFiniteSet(S) /\ IsFiniteSet(T) /\ IsFiniteSet(S \cup T)
        /\ Cardinality(S \cup T) <= Cardinality(Attempters \ {c})
    <2>1. S \cup T \subseteq Attempters \ {c}
      OBVIOUS
    <2>2. QED
      BY <1>2, <2>1, FS_Subset
  <1>4. Cardinality(S \cup T) = Cardinality(S) + Cardinality(T) - Cardinality(S \cap T)
    BY <1>3, FS_Union
  <1>5. Cardinality(S \cap T) = 0
    BY FS_EmptySet
  <1>6. /\ Cardinality(S) \in Nat /\ Cardinality(T) \in Nat
        /\ Cardinality(Attempters) \in Nat /\ Cardinality(S \cup T) \in Nat
    BY <1>1, <1>3, FS_CardinalityType
  <1>7. QED
    BY <1>2, <1>3, <1>4, <1>5, <1>6

LEMMA Sizes ==
    ASSUME NEW k \in Keys
    PROVE  /\ IsFiniteSet(Uncounted(k)) /\ IsFiniteSet(Past(k))
           /\ Cardinality(Uncounted(k)) \in Nat /\ Cardinality(Past(k)) \in Nat
           /\ Cardinality(Attempters) \in Nat
           /\ Cardinality(Uncounted(k)) <= Cardinality(Attempters)
           /\ Cardinality(Past(k)) <= Cardinality(Attempters)
  <1>1. IsFiniteSet(Attempters)
    BY ThrottleParameters
  <1>2. Uncounted(k) \subseteq Attempters /\ Past(k) \subseteq Attempters
    BY DEF Uncounted, Past
  <1>3. QED
    BY <1>1, <1>2, FS_Subset, FS_CardinalityType

\* What a step of one request does to the two counts.
LEMMA RequestMoved ==
    ASSUME ThrottleTypeOK, NEW a \in Attempters, NEW req, SetAttempt(a, req), NEW k \in Keys
    PROVE  /\ Cardinality(Uncounted(k))' = Cardinality(Uncounted(k))
                + One(IsUncounted(req, k)) - One(IsUncounted(attempt[a], k))
           /\ Cardinality(Past(k))' = Cardinality(Past(k))
                + One(IsPast(req, k)) - One(IsPast(attempt[a], k))
  <1>1. /\ attempt'[a] = req
        /\ \A b \in Attempters \ {a} : attempt'[b] = attempt[b]
    BY DEF ThrottleTypeOK, SetAttempt
  <1>2. /\ Uncounted(k)' \ {a} = Uncounted(k) \ {a}
        /\ a \in Uncounted(k)' <=> IsUncounted(req, k)
        /\ a \in Uncounted(k) <=> IsUncounted(attempt[a], k)
    BY <1>1 DEF Uncounted, IsUncounted
  <1>3. /\ Past(k)' \ {a} = Past(k) \ {a}
        /\ a \in Past(k)' <=> IsPast(req, k)
        /\ a \in Past(k) <=> IsPast(attempt[a], k)
    BY <1>1 DEF Past, IsPast
  <1>4. Cardinality(Uncounted(k)') = Cardinality(Uncounted(k))
                + One(a \in Uncounted(k)') - One(a \in Uncounted(k))
    BY <1>2, Sizes, Resized
  <1>5. Cardinality(Past(k)') = Cardinality(Past(k))
                + One(a \in Past(k)') - One(a \in Past(k))
    BY <1>3, Sizes, Resized
  <1>6. QED
    BY <1>2, <1>3, <1>4, <1>5 DEF One

-----------------------------------------------------------------------------
(* Types of the limits *)

LEMMA CountedRow ==
    ASSUME NEW k \in Keys, NEW row \in Counter
    PROVE  Counted(k, row) \in Counter
  BY DEF Counted, Counter, Spans

LEMMA RequestRows ==
    /\ NotAsked \in Attempt
    /\ \A left \in SUBSET Keys, phase \in {"IDLE", "CHECK", "COMPARE", "COUNT", "RESET"} :
          Waiting(phase, left) \in Attempt
  BY DEF NotAsked, Waiting, Attempt

LEMMA GoingType ==
    ASSUME ThrottleTypeOK, NEW a \in Attempters, NEW k, NEW otherwise \in Attempt
    PROVE  Going(a, k, otherwise) \in Attempt
  <1>1. attempt[a] \in Attempt
    BY DEF ThrottleTypeOK
  <1>2. QED
    BY <1>1 DEF Going, Waiting, Attempt

LEMMA SetAttemptType ==
    ASSUME ThrottleTypeOK, NEW a \in Attempters, NEW req \in Attempt, SetAttempt(a, req)
    PROVE  attempt' \in [Attempters -> Attempt]
  BY DEF ThrottleTypeOK, SetAttempt

LEMMA ThrottleTypeStep == ThrottleTypeOK /\ [ThrottleNext]_throttleVars => ThrottleTypeOK'
  <1> SUFFICES ASSUME ThrottleTypeOK, [ThrottleNext]_throttleVars
               PROVE  ThrottleTypeOK'
    OBVIOUS
  <1>1. ASSUME NEW a \in Attempters, Arrive(a)
        PROVE  ThrottleTypeOK'
    <2>1. attempt' \in [Attempters -> Attempt]
      BY <1>1, RequestRows, SetAttemptType DEF Arrive
    <2>2. QED
      BY <1>1, <2>1 DEF Arrive, ThrottleTypeOK
  <1>2. ASSUME NEW a \in Attempters, Compare(a)
        PROVE  ThrottleTypeOK'
    <2>1. attempt' \in [Attempters -> Attempt]
      BY <1>2, RequestRows, SetAttemptType DEF Compare
    <2>2. tried' \in [Keys -> Nat]
      BY <1>2 DEF Compare, ThrottleTypeOK
    <2>3. QED
      BY <1>2, <2>1, <2>2 DEF Compare, ThrottleTypeOK
  <1>3. ASSUME NEW a \in Attempters, Lose(a)
        PROVE  ThrottleTypeOK'
    <2>1. attempt' \in [Attempters -> Attempt]
      BY <1>3, RequestRows, SetAttemptType DEF Lose
    <2>2. lost' \in 0 .. MaxLost
      BY <1>3, ThrottleParameters DEF Lose, ThrottleTypeOK
    <2>3. QED
      BY <1>3, <2>1, <2>2 DEF Lose, ThrottleTypeOK
  <1>4. ASSUME NEW a \in Attempters, NEW k \in Keys, Pass(a, k)
        PROVE  ThrottleTypeOK'
    <2>1. attempt' \in [Attempters -> Attempt]
      BY <1>4, RequestRows, GoingType, SetAttemptType DEF Pass
    <2>2. QED
      BY <1>4, <2>1 DEF Pass, ThrottleTypeOK
  <1>5. ASSUME NEW a \in Attempters, NEW k \in Keys, TooMany(a, k)
        PROVE  ThrottleTypeOK'
    <2>1. {"IP"} \in SUBSET Keys
      BY DEF Keys
    <2>2. attempt' \in [Attempters -> Attempt]
      BY <1>5, <2>1, RequestRows, SetAttemptType DEF TooMany
    <2>3. QED
      BY <1>5, <2>2 DEF TooMany, ThrottleTypeOK
  <1>6. ASSUME NEW a \in Attempters, NEW k \in Keys, Count(a, k)
        PROVE  ThrottleTypeOK'
    <2>1. attempt' \in [Attempters -> Attempt]
      BY <1>6, RequestRows, GoingType, SetAttemptType DEF Count
    <2>2. counter' \in [Keys -> Counter]
      <3>1. counter[k] \in Counter
        BY DEF ThrottleTypeOK
      <3>2. QED
        BY <1>6, <3>1, CountedRow DEF Count, ThrottleTypeOK
    <2>3. tried' \in [Keys -> Nat]
      BY <1>6 DEF Count, ThrottleTypeOK
    <2>4. QED
      BY <1>6, <2>1, <2>2, <2>3 DEF Count, ThrottleTypeOK
  <1>7. ASSUME NEW a \in Attempters, NEW k \in Keys, Reset(a, k)
        PROVE  ThrottleTypeOK'
    <2>1. attempt' \in [Attempters -> Attempt]
      BY <1>7, RequestRows, GoingType, SetAttemptType DEF Reset
    <2>2. counter' \in [Keys -> Counter] /\ tried' \in [Keys -> Nat]
      BY <1>7 DEF Reset, ThrottleTypeOK, Empty, Counter, Spans
    <2>3. QED
      BY <1>7, <2>1, <2>2 DEF Reset, ThrottleTypeOK
  <1>8. ASSUME NEW k \in Keys, TimePasses(k)
        PROVE  ThrottleTypeOK'
    <2>1. counter[k] \in Counter
      BY DEF ThrottleTypeOK
    <2>2. /\ [counter[k] EXCEPT !.window = "OVER"] \in Counter
          /\ [counter[k] EXCEPT !.lock = "OVER"] \in Counter
      BY <2>1 DEF Counter, Spans
    <2>3. counter' \in [Keys -> Counter] /\ tried' \in [Keys -> Nat]
      BY <1>8, <2>2 DEF TimePasses, ThrottleTypeOK
    <2>4. QED
      BY <1>8, <2>3 DEF TimePasses, ThrottleTypeOK
  <1>9. CASE UNCHANGED throttleVars
    BY <1>9 DEF throttleVars, ThrottleTypeOK
  <1>10. QED
    BY <1>1, <1>2, <1>3, <1>4, <1>5, <1>6, <1>7, <1>8, <1>9 DEF ThrottleNext

-----------------------------------------------------------------------------
(* The bound *)

\* A step that leaves the count of a key alone keeps its bound when it balances.
LEMMA Balanced ==
    ASSUME ThrottleTypeOK, ThrottleTypeOK', NEW k \in Keys, KeyInv(k),
           counter'[k] = counter[k], service' = service, lost' >= lost,
           tried'[k] <= tried[k] \/ service = "LOGIN",
           tried'[k] + Cardinality(Past(k))' <= tried[k] + Cardinality(Past(k)),
           tried'[k] + Cardinality(Uncounted(k)) + lost
               <= tried[k] + Cardinality(Uncounted(k))' + lost'
    PROVE  KeyInv(k)'
  <1>1. /\ tried[k] \in Nat /\ tried'[k] \in Nat /\ lost \in Nat /\ lost' \in Nat
        /\ MaxFailures[k] \in Nat /\ CountSoFar(counter[k]) \in Nat
    BY ThrottleParameters DEF ThrottleTypeOK, CountSoFar, Counter
  <1>2. /\ Cardinality(Uncounted(k)) \in Nat /\ Cardinality(Past(k)) \in Nat
        /\ Cardinality(Attempters) \in Nat
    BY Sizes
  <1>3. Cardinality(Uncounted(k))' \in Nat /\ Cardinality(Past(k))' \in Nat
    <2>1. IsFiniteSet(Attempters) /\ Uncounted(k)' \subseteq Attempters
          /\ Past(k)' \subseteq Attempters
      BY ThrottleParameters DEF Uncounted, Past
    <2>2. QED
      BY <2>1, FS_Subset, FS_CardinalityType
  <1>4. ~Locked(counter[k])' => CountSoFar(counter'[k]) <= MaxFailures[k] - 1
    BY DEF KeyInv
  <1>5. service' = "LOGIN" => LoginOf(k)'
    BY <1>1, <1>2, <1>3 DEF KeyInv, LoginOf
  <1>6. service' = "RECOVERY" => RecoveryOf(k)'
    BY <1>1 DEF KeyInv, RecoveryOf
  <1>7. QED
    BY <1>4, <1>5, <1>6 DEF KeyInv

\* A request that neither tries nor is counted, and passes no lock.
LEMMA QuietMove ==
    ASSUME ThrottleInv, ThrottleTypeOK', NEW a \in Attempters, NEW req, SetAttempt(a, req),
           UNCHANGED <<service, counter, tried, lost>>,
           \A k \in Keys :
             /\ IsUncounted(attempt[a], k) => IsUncounted(req, k)
             /\ IsPast(req, k) => IsPast(attempt[a], k) \/ ~Locked(counter[k])
    PROVE  \A k \in Keys : KeyInv(k)'
  <1> SUFFICES ASSUME NEW k \in Keys PROVE KeyInv(k)'
    OBVIOUS
  <1>1. /\ ThrottleTypeOK /\ KeyInv(k)
        /\ tried[k] \in Nat /\ lost \in Nat
    BY ThrottleParameters DEF ThrottleInv, ThrottleTypeOK
  <1>2. Cardinality(Uncounted(k)) \in Nat /\ Cardinality(Past(k)) \in Nat
    BY Sizes
  <1>3. /\ Cardinality(Uncounted(k))' = Cardinality(Uncounted(k))
                + One(IsUncounted(req, k)) - One(IsUncounted(attempt[a], k))
        /\ Cardinality(Past(k))' = Cardinality(Past(k))
                + One(IsPast(req, k)) - One(IsPast(attempt[a], k))
    BY <1>1, RequestMoved
  <1>4. Cardinality(Uncounted(k))' >= Cardinality(Uncounted(k))
    BY <1>2, <1>3 DEF One
  <1>5. CASE IsPast(req, k) => IsPast(attempt[a], k)
    <2>1. Cardinality(Past(k))' <= Cardinality(Past(k)) /\ Cardinality(Past(k))' \in Int
      BY <1>2, <1>3, <1>5 DEF One
    <2>2. Cardinality(Uncounted(k))' \in Int
      BY <1>2, <1>3 DEF One
    <2>3. QED
      BY <1>1, <1>2, <1>4, <2>1, <2>2, Balanced
  <1>6. CASE ~Locked(counter[k])
    <2>1. Cardinality(Uncounted(k))' \in Int /\ CountSoFar(counter[k]) \in Nat
      BY <1>1, <1>2, <1>3 DEF One, CountSoFar, ThrottleTypeOK, Counter
    <2>2. LoginOf(k) => LoginOf(k)'
      BY <1>1, <1>2, <1>4, <1>6, <2>1 DEF LoginOf
    <2>3. QED
      BY <1>1, <2>2 DEF KeyInv, RecoveryOf
  <1>7. QED
    BY <1>5, <1>6

LEMMA CompareBound ==
    ASSUME ThrottleInv, ThrottleTypeOK', NEW a \in Attempters, Compare(a)
    PROVE  \A k \in Keys : KeyInv(k)'
  <1>1. service = "LOGIN" /\ ThrottleTypeOK
    BY DEF Compare, ThrottleInv, NothingCompared, ThrottleTypeOK
  <1>2. ASSUME tried' = [k \in Keys |-> tried[k] + 1], SetAttempt(a, Waiting("COUNT", Keys)),
               NEW k \in Keys
        PROVE  KeyInv(k)'
    <2>1. /\ KeyInv(k) /\ tried[k] \in Nat /\ lost \in Nat
          /\ tried'[k] = tried[k] + 1
      BY <1>2, ThrottleParameters DEF ThrottleInv, ThrottleTypeOK
    <2>2. Cardinality(Uncounted(k)) \in Nat /\ Cardinality(Past(k)) \in Nat
      BY Sizes
    <2>3. /\ One(IsUncounted(Waiting("COUNT", Keys), k)) = 1
          /\ One(IsUncounted(attempt[a], k)) = 0
          /\ One(IsPast(Waiting("COUNT", Keys), k)) = 0
          /\ One(IsPast(attempt[a], k)) = 1
      BY DEF One, IsUncounted, IsPast, Waiting, Compare
    <2>4. /\ Cardinality(Uncounted(k))' = Cardinality(Uncounted(k)) + 1
          /\ Cardinality(Past(k))' = Cardinality(Past(k)) - 1
      BY <1>1, <1>2, <2>2, <2>3, RequestMoved
    <2>5. QED
      BY <1>1, <2>1, <2>2, <2>4, Balanced DEF Compare
  <1>3. ASSUME NEW found \in SUBSET Keys, UNCHANGED tried,
               SetAttempt(a, IF found = {} THEN NotAsked ELSE Waiting("RESET", found))
        PROVE  \A k \in Keys : KeyInv(k)'
    BY <1>3, QuietMove DEF Compare, IsUncounted, IsPast, NotAsked, Waiting
  <1>4. QED
    BY <1>2, <1>3 DEF Compare

LEMMA LoseBound ==
    ASSUME ThrottleInv, ThrottleTypeOK', NEW a \in Attempters, Lose(a)
    PROVE  \A k \in Keys : KeyInv(k)'
  <1> SUFFICES ASSUME NEW k \in Keys PROVE KeyInv(k)'
    OBVIOUS
  <1>1. /\ ThrottleTypeOK /\ KeyInv(k) /\ tried[k] \in Nat /\ lost \in Nat
        /\ lost' = lost + 1 /\ UNCHANGED <<service, counter, tried>>
        /\ SetAttempt(a, NotAsked)
    BY ThrottleParameters DEF ThrottleInv, ThrottleTypeOK, Lose
  <1>2. Cardinality(Uncounted(k)) \in Nat /\ Cardinality(Past(k)) \in Nat
    BY Sizes
  <1>3. /\ Cardinality(Uncounted(k))' = Cardinality(Uncounted(k))
                + One(IsUncounted(NotAsked, k)) - One(IsUncounted(attempt[a], k))
        /\ Cardinality(Past(k))' = Cardinality(Past(k))
                + One(IsPast(NotAsked, k)) - One(IsPast(attempt[a], k))
    BY <1>1, RequestMoved
  <1>4. /\ Cardinality(Uncounted(k))' >= Cardinality(Uncounted(k)) - 1
        /\ Cardinality(Uncounted(k))' \in Int
        /\ Cardinality(Past(k))' = Cardinality(Past(k))
    BY <1>2, <1>3 DEF One, IsPast, NotAsked, Waiting, Lose
  <1>5. QED
    BY <1>1, <1>2, <1>4, Balanced

\* The statement for one key, seen from that key.
LEMMA CountedBound ==
    ASSUME ThrottleInv, ThrottleTypeOK', NEW a \in Attempters, NEW k \in Keys, Count(a, k)
    PROVE  KeyInv(k)'
  <1> DEFINE row == counter[k]
             next == Going(a, k, NotAsked)
             max == MaxFailures[k]
  <1>1. /\ ThrottleTypeOK /\ KeyInv(k) /\ tried[k] \in Nat /\ lost \in Nat
        /\ max \in Nat \ {0} /\ row \in Counter
        /\ lost' = lost /\ service' = service /\ service \in {"LOGIN", "RECOVERY"}
        /\ SetAttempt(a, next)
        /\ counter'[k] = Counted(k, row)
        /\ tried'[k] = IF service = "RECOVERY" /\ ~Locked(counter'[k])
                       THEN tried[k] + 1 ELSE tried[k]
    <2>1. /\ ThrottleTypeOK /\ KeyInv(k) /\ tried[k] \in Nat /\ lost \in Nat
          /\ max \in Nat \ {0} /\ row \in Counter /\ service \in {"LOGIN", "RECOVERY"}
      BY ThrottleParameters DEF ThrottleInv, ThrottleTypeOK
    <2>2. counter'[k] = Counted(k, row)
      BY <2>1 DEF Count, ThrottleTypeOK
    <2>3. tried'[k] = IF service = "RECOVERY" /\ ~Locked(counter'[k])
                      THEN tried[k] + 1 ELSE tried[k]
      BY <2>1 DEF Count, ThrottleTypeOK
    <2>4. QED
      BY <2>1, <2>2, <2>3 DEF Count
  <1>2. /\ Cardinality(Uncounted(k)) \in Nat /\ Cardinality(Past(k)) \in Nat
        /\ Cardinality(Attempters) \in Nat
    BY Sizes
  <1>3. /\ attempt[a].phase = "COUNT" /\ k \in attempt[a].left
        /\ next = NotAsked \/ next = Waiting("COUNT", attempt[a].left \ {k})
    BY DEF Count, Going
  <1>4. /\ One(IsUncounted(next, k)) = 0 /\ One(IsUncounted(attempt[a], k)) = 1
        /\ One(IsPast(next, k)) = 0 /\ One(IsPast(attempt[a], k)) = 0
    BY <1>3 DEF One, IsUncounted, IsPast, NotAsked, Waiting
  <1> HIDE DEF next
  <1>5. /\ Cardinality(Uncounted(k))' = Cardinality(Uncounted(k)) - 1
        /\ Cardinality(Past(k))' = Cardinality(Past(k))
    BY <1>1, <1>2, <1>4, RequestMoved
  <1>6. CASE Locked(row)
    <2>1. counter'[k] = row
      BY <1>1, <1>6 DEF Counted
    <2>2. tried'[k] = tried[k]
      BY <1>1, <1>6, <2>1
    <2>3. QED
      BY <1>1, <1>2, <1>5, <1>6, <2>1, <2>2 DEF KeyInv, LoginOf, RecoveryOf
  <1>7. CASE ~Locked(row)
    <2> DEFINE n == CountSoFar(row) + 1
    <2>1. CountSoFar(row) \in Nat /\ CountSoFar(row) <= max - 1
      BY <1>1, <1>7 DEF KeyInv, CountSoFar, Counter
    <2>2. counter'[k] = [attempts |-> n, window |-> "RUNNING",
                         lock |-> IF n >= max THEN "RUNNING" ELSE "NONE"]
      <3>1. (IF Restarts(row) THEN 1 ELSE row.attempts + 1) = n
        BY <1>1 DEF CountSoFar, Counter
      <3>2. QED
        BY <1>1, <1>7, <3>1 DEF Counted
    <2> HIDE DEF row, max
    <2>3. CASE n >= max
      <3>1. Locked(counter'[k]) /\ n = max
        BY <1>1, <2>1, <2>2, <2>3 DEF Locked
      <3>2. tried'[k] = tried[k]
        BY <1>1, <3>1
      <3>3. Cardinality(Uncounted(k))' + Cardinality(Past(k))' <= Cardinality(Attempters) - 1
        <4>1. /\ a \notin Uncounted(k)' /\ a \notin Past(k)'
              /\ Uncounted(k)' \subseteq Attempters /\ Past(k)' \subseteq Attempters
              /\ Uncounted(k)' \cap Past(k)' = {}
          <5>1. attempt'[a] = next
            BY <1>1 DEF SetAttempt, ThrottleTypeOK
          <5>2. ~IsUncounted(next, k) /\ ~IsPast(next, k)
            BY <1>4 DEF One
          <5>3. QED
            BY <5>1, <5>2 DEF Uncounted, Past, IsUncounted, IsPast
        <4>2. QED
          BY <4>1, OneLeftOut
      <3>4. service = "LOGIN" => LoginOf(k)'
        <4>1. SUFFICES ASSUME service = "LOGIN" PROVE LoginOf(k)'
          OBVIOUS
        <4>2. tried[k] <= CountSoFar(row) + Cardinality(Uncounted(k)) + lost
          BY <1>1, <1>7, <4>1 DEF KeyInv, LoginOf, row
        <4>3. tried'[k] + Cardinality(Past(k))' <= max + Cardinality(Attempters) - 1 + lost'
          BY <1>1, <1>2, <1>5, <2>1, <3>1, <3>2, <3>3, <4>2
        <4>4. QED
          BY <3>1, <4>3 DEF LoginOf, max
      <3>5. service = "RECOVERY" => RecoveryOf(k)'
        BY <1>1, <3>1, <3>2 DEF KeyInv, RecoveryOf
      <3>6. QED
        BY <1>1, <3>1, <3>4, <3>5 DEF KeyInv
    <2>4. CASE ~(n >= max)
      <3>1. ~Locked(counter'[k]) /\ CountSoFar(counter'[k]) = n /\ n <= max - 1
        BY <1>1, <2>1, <2>2, <2>4 DEF Locked, CountSoFar, Restarts
      <3>2. service = "LOGIN" => LoginOf(k)'
        <4>1. SUFFICES ASSUME service = "LOGIN" PROVE LoginOf(k)'
          OBVIOUS
        <4>2. tried[k] <= CountSoFar(row) + Cardinality(Uncounted(k)) + lost
          BY <1>1, <1>7, <4>1 DEF KeyInv, LoginOf, row
        <4>3. tried'[k] <= n + Cardinality(Uncounted(k))' + lost'
          BY <1>1, <1>2, <1>5, <2>1, <4>1, <4>2
        <4>4. QED
          BY <3>1, <4>3 DEF LoginOf
      <3>3. service = "RECOVERY" => RecoveryOf(k)'
        <4>1. SUFFICES ASSUME service = "RECOVERY" PROVE RecoveryOf(k)'
          OBVIOUS
        <4>2. tried[k] <= CountSoFar(row)
          BY <1>1, <1>7, <4>1 DEF KeyInv, RecoveryOf, row
        <4>3. tried'[k] = tried[k] + 1
          BY <1>1, <3>1, <4>1
        <4>4. tried'[k] <= n
          BY <1>1, <2>1, <4>2, <4>3
        <4>5. QED
          BY <1>1, <2>1, <3>1, <4>3, <4>4 DEF RecoveryOf, max
      <3>4. QED
        BY <1>1, <3>1, <3>2, <3>3 DEF KeyInv, max
    <2>5. QED
      BY <2>3, <2>4
  <1>8. QED
    BY <1>6, <1>7

\* The other key's bound does not notice.
LEMMA CountElsewhere ==
    ASSUME ThrottleInv, ThrottleTypeOK', NEW a \in Attempters, NEW k \in Keys, Count(a, k),
           NEW j \in Keys \ {k}
    PROVE  KeyInv(j)'
  <1> DEFINE next == Going(a, k, NotAsked)
  <1>1. /\ ThrottleTypeOK /\ KeyInv(j) /\ tried[j] \in Nat /\ lost \in Nat
        /\ lost' = lost /\ service' = service /\ SetAttempt(a, next)
        /\ counter'[j] = counter[j] /\ tried'[j] = tried[j]
    BY ThrottleParameters DEF ThrottleInv, ThrottleTypeOK, Count
  <1>2. Cardinality(Uncounted(j)) \in Nat /\ Cardinality(Past(j)) \in Nat
    BY Sizes
  <1>3. /\ IsUncounted(next, j) <=> IsUncounted(attempt[a], j)
        /\ ~IsPast(next, j) /\ ~IsPast(attempt[a], j)
    BY DEF Count, Going, IsUncounted, IsPast, NotAsked, Waiting
  <1> HIDE DEF next
  <1>4. /\ Cardinality(Uncounted(j))' = Cardinality(Uncounted(j))
        /\ Cardinality(Past(j))' = Cardinality(Past(j))
    BY <1>1, <1>2, <1>3, RequestMoved DEF One
  <1>5. QED
    BY <1>1, <1>2, <1>4, Balanced

\* A key whose tries start again from none.
LEMMA StartsAgain ==
    ASSUME ThrottleTypeOK, ThrottleTypeOK', NEW k \in Keys, KeyInv(k), service' = service,
           tried'[k] = 0,
           Locked(counter'[k]) \/ CountSoFar(counter'[k]) = 0
    PROVE  KeyInv(k)'
  <1>1. /\ MaxFailures[k] \in Nat \ {0} /\ lost' \in Nat
        /\ CountSoFar(counter'[k]) \in Nat
    BY ThrottleParameters DEF ThrottleTypeOK, CountSoFar, Counter
  <1>2. /\ Cardinality(Uncounted(k))' \in Nat /\ Cardinality(Past(k))' \in Nat
        /\ Cardinality(Attempters) \in Nat
        /\ Cardinality(Past(k))' <= Cardinality(Attempters)
    <2>1. IsFiniteSet(Attempters) /\ Uncounted(k)' \subseteq Attempters
          /\ Past(k)' \subseteq Attempters
      BY ThrottleParameters DEF Uncounted, Past
    <2>2. QED
      BY <2>1, FS_Subset, FS_CardinalityType
  <1>3. LoginOf(k)'
    BY <1>1, <1>2 DEF LoginOf
  <1>4. RecoveryOf(k)'
    BY <1>1 DEF RecoveryOf
  <1>5. QED
    BY <1>1, <1>3, <1>4 DEF KeyInv

LEMMA ResetBound ==
    ASSUME ThrottleInv, ThrottleTypeOK', NEW a \in Attempters, NEW k \in Keys, Reset(a, k)
    PROVE  \A j \in Keys : KeyInv(j)'
  <1>1. KeyInv(k)'
    <2>1. counter'[k] = Empty /\ tried'[k] = 0 /\ service' = service
      BY DEF Reset, ThrottleInv, ThrottleTypeOK
    <2>2. CountSoFar(counter'[k]) = 0
      BY <2>1 DEF CountSoFar, Restarts, Empty, Locked
    <2>3. QED
      BY <2>1, <2>2, StartsAgain DEF ThrottleInv
  <1>2. ASSUME NEW j \in Keys \ {k}
        PROVE  KeyInv(j)'
    <2> DEFINE next == Going(a, k, NotAsked)
    <2>1. /\ ThrottleTypeOK /\ KeyInv(j) /\ tried[j] \in Nat /\ lost \in Nat
          /\ lost' = lost /\ service' = service /\ SetAttempt(a, next)
          /\ counter'[j] = counter[j] /\ tried'[j] = tried[j]
      BY ThrottleParameters DEF ThrottleInv, ThrottleTypeOK, Reset
    <2>2. Cardinality(Uncounted(j)) \in Nat /\ Cardinality(Past(j)) \in Nat
      BY Sizes
    <2>3. /\ ~IsUncounted(next, j) /\ ~IsUncounted(attempt[a], j)
          /\ ~IsPast(next, j) /\ ~IsPast(attempt[a], j)
      BY DEF Reset, Going, IsUncounted, IsPast, NotAsked, Waiting
    <2> HIDE DEF next
    <2>4. /\ Cardinality(Uncounted(j))' = Cardinality(Uncounted(j))
          /\ Cardinality(Past(j))' = Cardinality(Past(j))
      BY <2>1, <2>2, <2>3, RequestMoved DEF One
    <2>5. QED
      BY <2>1, <2>2, <2>4, Balanced
  <1>3. QED
    BY <1>1, <1>2

LEMMA TimeBound ==
    ASSUME ThrottleInv, ThrottleTypeOK', NEW k \in Keys, TimePasses(k)
    PROVE  \A j \in Keys : KeyInv(j)'
  <1>1. /\ ThrottleTypeOK /\ service' = service /\ lost' = lost
        /\ tried'[k] = 0 /\ counter[k] \in Counter
        /\ \A j \in Keys : Uncounted(j)' = Uncounted(j) /\ Past(j)' = Past(j)
        /\ \A j \in Keys \ {k} : tried'[j] = tried[j] /\ counter'[j] = counter[j]
    BY DEF ThrottleInv, ThrottleTypeOK, TimePasses, Uncounted, Past
  <1>2. Locked(counter'[k]) \/ CountSoFar(counter'[k]) = 0
    BY <1>1 DEF TimePasses, ThrottleTypeOK, Counter, Locked, CountSoFar, Restarts
  <1>3. KeyInv(k)'
    BY <1>1, <1>2, StartsAgain DEF ThrottleInv
  <1>4. ASSUME NEW j \in Keys \ {k}
        PROVE  KeyInv(j)'
    BY <1>1, <1>4 DEF ThrottleInv, KeyInv, LoginOf, RecoveryOf
  <1>5. QED
    BY <1>3, <1>4

LEMMA NothingComparedStep ==
    ThrottleTypeOK /\ NothingCompared /\ [ThrottleNext]_throttleVars => NothingCompared'
  <1> SUFFICES ASSUME ThrottleTypeOK, service' = "RECOVERY", [ThrottleNext]_throttleVars,
                      \A a \in Attempters : attempt[a].phase # "COMPARE",
                      NEW b \in Attempters
               PROVE  attempt'[b].phase # "COMPARE"
    BY DEF NothingCompared, ThrottleNext, throttleVars, Arrive, Compare, Lose, Pass, TooMany,
           Count, Reset, TimePasses
  <1>1. ASSUME NEW a \in Attempters, NEW req, SetAttempt(a, req), req.phase # "COMPARE"
        PROVE  attempt'[b].phase # "COMPARE"
    BY <1>1 DEF SetAttempt, ThrottleTypeOK
  <1>2. NotAsked.phase # "COMPARE" /\ \A left : Waiting("COUNT", left).phase # "COMPARE"
    BY DEF NotAsked, Waiting
  <1>3. ASSUME NEW a \in Attempters, NEW k, NEW req, req.phase # "COMPARE"
        PROVE  Going(a, k, req).phase # "COMPARE"
    BY <1>3 DEF Going, Waiting
  <1>4. ASSUME NEW a \in Attempters, Arrive(a) \/ Compare(a) \/ Lose(a)
        PROVE  attempt'[b].phase # "COMPARE"
    BY <1>1, <1>2, <1>4 DEF Arrive, Compare, Lose, Waiting
  <1>5. ASSUME NEW a \in Attempters, NEW k \in Keys, Pass(a, k)
        PROVE  attempt'[b].phase # "COMPARE"
    BY <1>1, <1>2, <1>3, <1>5 DEF Pass
  <1>6. ASSUME NEW a \in Attempters, NEW k \in Keys, TooMany(a, k)
        PROVE  attempt'[b].phase # "COMPARE"
    BY <1>1, <1>2, <1>6 DEF TooMany
  <1>7. ASSUME NEW a \in Attempters, NEW k \in Keys, Count(a, k) \/ Reset(a, k)
        PROVE  attempt'[b].phase # "COMPARE"
    BY <1>1, <1>2, <1>3, <1>7 DEF Count, Reset
  <1>8. ASSUME UNCHANGED attempt
        PROVE  attempt'[b].phase # "COMPARE"
    BY <1>8
  <1>9. QED
    BY <1>4, <1>5, <1>6, <1>7, <1>8 DEF ThrottleNext, TimePasses, throttleVars

LEMMA ThrottleStep == ThrottleInv /\ [ThrottleNext]_throttleVars => ThrottleInv'
  <1> SUFFICES ASSUME ThrottleInv, [ThrottleNext]_throttleVars PROVE ThrottleInv'
    OBVIOUS
  <1>1. ThrottleTypeOK' /\ NothingCompared'
    BY ThrottleTypeStep, NothingComparedStep DEF ThrottleInv
  <1>2. ASSUME NEW a \in Attempters, Arrive(a)
        PROVE  \A k \in Keys : KeyInv(k)'
    BY <1>1, <1>2, QuietMove DEF Arrive, IsUncounted, IsPast, NotAsked, Waiting
  <1>3. ASSUME NEW a \in Attempters, NEW k \in Keys, Pass(a, k)
        PROVE  \A j \in Keys : KeyInv(j)'
    <2> DEFINE next == Going(a, k, IF service = "LOGIN" THEN Waiting("COMPARE", {})
                                   ELSE Waiting("COUNT", Keys))
    <2>1. \A j \in Keys :
             /\ ~IsUncounted(attempt[a], j)
             /\ IsPast(next, j) => IsPast(attempt[a], j) \/ ~Locked(counter[j])
      BY <1>3 DEF Pass, Reads, Going, IsUncounted, IsPast, Waiting
    <2> HIDE DEF next
    <2>2. SetAttempt(a, next) /\ UNCHANGED <<service, counter, tried, lost>>
      BY <1>3 DEF Pass, next
    <2>3. QED
      BY <1>1, <2>1, <2>2, QuietMove
  <1>4. ASSUME NEW a \in Attempters, NEW k \in Keys, TooMany(a, k)
        PROVE  \A j \in Keys : KeyInv(j)'
    <2> DEFINE next == IF service = "LOGIN" /\ k = "EMAIL" THEN Waiting("COUNT", {"IP"})
                       ELSE NotAsked
    <2>1. \A j \in Keys : ~IsUncounted(attempt[a], j) /\ ~IsPast(next, j)
      BY <1>4 DEF TooMany, Reads, IsUncounted, IsPast, Waiting, NotAsked
    <2> HIDE DEF next
    <2>2. SetAttempt(a, next) /\ UNCHANGED <<service, counter, tried, lost>>
      BY <1>4 DEF TooMany, next
    <2>3. QED
      BY <1>1, <2>1, <2>2, QuietMove
  <1>5. ASSUME UNCHANGED throttleVars, NEW k \in Keys
        PROVE  KeyInv(k)'
    <2>1. Uncounted(k)' = Uncounted(k) /\ Past(k)' = Past(k)
      BY <1>5 DEF throttleVars, Uncounted, Past
    <2>2. QED
      BY <1>5, <2>1 DEF throttleVars, ThrottleInv, KeyInv, LoginOf, RecoveryOf
  <1>6. \A k \in Keys : KeyInv(k)'
    <2>1. ASSUME NEW a \in Attempters, NEW k \in Keys, Count(a, k), NEW j \in Keys
          PROVE  KeyInv(j)'
      BY <1>1, <2>1, CountedBound, CountElsewhere
    <2>2. CASE \E a \in Attempters : Arrive(a) \/ Compare(a) \/ Lose(a)
      BY <1>1, <1>2, <2>2, CompareBound, LoseBound
    <2>3. CASE \E a \in Attempters, k \in Keys :
                  Pass(a, k) \/ TooMany(a, k) \/ Count(a, k) \/ Reset(a, k)
      BY <1>1, <1>3, <1>4, <2>1, <2>3, ResetBound
    <2>4. CASE \E k \in Keys : TimePasses(k)
      BY <1>1, <2>4, TimeBound
    <2>5. QED
      BY <1>5, <2>2, <2>3, <2>4 DEF ThrottleNext
  <1>7. QED
    BY <1>1, <1>6 DEF ThrottleInv

LEMMA ThrottleStart == ThrottleInit => ThrottleInv
  <1> SUFFICES ASSUME ThrottleInit PROVE ThrottleInv
    OBVIOUS
  <1>1. ThrottleTypeOK
    BY ThrottleParameters, RequestRows DEF ThrottleInit, ThrottleTypeOK, Empty, Counter, Spans
  <1>2. NothingCompared
    BY DEF ThrottleInit, NothingCompared, NotAsked, Waiting
  <1>3. ASSUME NEW k \in Keys
        PROVE  KeyInv(k)
    <2>1. /\ counter[k] = Empty /\ tried[k] = 0 /\ lost = 0
          /\ MaxFailures[k] \in Nat \ {0}
      BY ThrottleParameters DEF ThrottleInit
    <2>2. ~Locked(counter[k]) /\ CountSoFar(counter[k]) = 0
      BY <2>1 DEF Empty, Locked, CountSoFar, Restarts
    <2>3. Cardinality(Uncounted(k)) \in Nat
      BY Sizes
    <2>4. QED
      BY <2>1, <2>2, <2>3 DEF KeyInv, LoginOf, RecoveryOf
  <1>4. QED
    BY <1>1, <1>2, <1>3 DEF ThrottleInv

LEMMA BoundFollows == ThrottleInv => GuessesAreBounded
  <1> SUFFICES ASSUME ThrottleInv, NEW k \in Keys
               PROVE  tried[k] <= IF service = "LOGIN"
                                  THEN MaxFailures[k] + Cardinality(Attempters) - 1 + lost
                                  ELSE MaxFailures[k] - 1
    BY DEF GuessesAreBounded
  <1>1. /\ KeyInv(k) /\ tried[k] \in Nat /\ lost \in Nat /\ MaxFailures[k] \in Nat
        /\ service \in {"LOGIN", "RECOVERY"} /\ CountSoFar(counter[k]) \in Nat
    BY ThrottleParameters DEF ThrottleInv, ThrottleTypeOK, CountSoFar, Counter
  <1>2. QED
    BY <1>1, Sizes DEF KeyInv, LoginOf, RecoveryOf

\* In every behaviour, for any maxima and any number of requests at once, the
\* two limits keep their tables in order.
THEOREM ThrottleTypeCorrect == ThrottleSpec => []ThrottleTypeOK
  <1>1. ThrottleInv => ThrottleTypeOK
    BY DEF ThrottleInv
  <1>2. QED
    BY <1>1, ThrottleStart, ThrottleStep, PTL DEF ThrottleSpec

\* However many requests run at once, a password is tried at most as often as
\* the maximum allows and once more by each other request past the check, and
\* a password reset is let through less often than the maximum.
THEOREM GuessesBounded == ThrottleSpec => []GuessesAreBounded
  BY BoundFollows, ThrottleStart, ThrottleStep, PTL DEF ThrottleSpec

-----------------------------------------------------------------------------
(* The address book (AddressBook).  That one address is the default is      *)
(* inductive with the types, which say that no address is in the book twice.*)

AddressInv == AddressTypeOK /\ OneDefaultAddress

\* Taking an address out of the book keeps the others, once each.
LEMMA WithoutOne ==
    ASSUME AddressTypeOK, NEW a \in InBook
    PROVE  /\ Without(a) \in Seq(AddressIds)
           /\ Len(Without(a)) = Len(book) - 1
           /\ \A i, j \in DOMAIN Without(a) : Without(a)[i] = Without(a)[j] => i = j
           /\ {Without(a)[i] : i \in DOMAIN Without(a)} = InBook \ {a}
  <1> DEFINE gone == CHOOSE i \in DOMAIN book : book[i] = a
             left == [i \in 1 .. Len(book) - 1 |-> book[IF i < gone THEN i ELSE i + 1]]
  <1>1. /\ book \in Seq(AddressIds) /\ Len(book) \in Nat /\ DOMAIN book = 1 .. Len(book)
        /\ \A i \in 1 .. Len(book) : book[i] \in AddressIds
        /\ \A i, j \in 1 .. Len(book) : book[i] = book[j] => i = j
    BY DEF AddressTypeOK
  <1>2. gone \in 1 .. Len(book) /\ book[gone] = a
    BY <1>1 DEF InBook
  <1>3. Without(a) = left
    BY DEF Without
  <1> HIDE DEF gone
  <1>4. Len(book) - 1 \in Nat /\ DOMAIN left = 1 .. Len(book) - 1
    BY <1>1, <1>2
  <1>5. left \in Seq(AddressIds) /\ Len(left) = Len(book) - 1
    <2>1. \A i \in 1 .. Len(book) - 1 : left[i] \in AddressIds
      BY <1>1, <1>2
    <2>2. left \in [1 .. Len(book) - 1 -> AddressIds]
      BY <2>1
    <2>3. QED
      BY <1>4, <2>2
  <1>6. \A i, j \in 1 .. Len(book) - 1 : left[i] = left[j] => i = j
    BY <1>1, <1>2
  <1>7. {left[i] : i \in 1 .. Len(book) - 1} = InBook \ {a}
    <2>1. ASSUME NEW i \in 1 .. Len(book) - 1
          PROVE  left[i] \in InBook \ {a}
      BY <1>1, <1>2 DEF InBook
    <2>2. ASSUME NEW b \in InBook \ {a}
          PROVE  \E i \in 1 .. Len(book) - 1 : left[i] = b
      <3>1. PICK i \in 1 .. Len(book) : book[i] = b /\ i # gone
        BY <1>1, <1>2 DEF InBook
      <3>2. CASE i < gone
        BY <1>1, <1>2, <3>1, <3>2
      <3>3. CASE i > gone
        <4>1. i - 1 \in 1 .. Len(book) - 1 /\ left[i - 1] = b
          BY <1>1, <1>2, <3>1, <3>3
        <4>2. QED
          BY <4>1
      <3>4. QED
        BY <1>1, <1>2, <3>1, <3>2, <3>3
    <2>3. QED
      BY <2>1, <2>2
  <1> HIDE DEF left
  <1>8. \A i, j \in DOMAIN left : left[i] = left[j] => i = j
    BY <1>4, <1>6
  <1>9. {left[i] : i \in DOMAIN left} = InBook \ {a}
    BY <1>4, <1>7
  <1>10. QED
    BY <1>3, <1>5, <1>8, <1>9

\* A mark on one address of an unchanged book.
LEMMA MarkMoved ==
    ASSUME AddressInv, NEW a \in InBook, UNCHANGED book,
           preferred' = {a} \/ preferred' = preferred
    PROVE  AddressInv'
  <1>1. book # <<>> /\ a \in AddressIds
    BY DEF InBook, AddressInv, AddressTypeOK
  <1>2. InBook' = InBook
    BY DEF InBook
  <1>3. QED
    BY <1>1, <1>2 DEF AddressInv, AddressTypeOK, OneDefaultAddress

LEMMA CreateOne ==
    ASSUME AddressInv, NEW a \in AddressIds, NEW asDefault \in BOOLEAN,
           CreateAddress(a, asDefault)
    PROVE  AddressInv'
  <1>1. /\ book \in Seq(AddressIds) /\ Len(book) \in Nat /\ DOMAIN book = 1 .. Len(book)
        /\ book' = Append(book, a) /\ a \notin InBook
    BY DEF AddressInv, AddressTypeOK, CreateAddress
  <1>2. /\ book' \in Seq(AddressIds) /\ Len(book') = Len(book) + 1
        /\ DOMAIN book' = 1 .. (Len(book) + 1) /\ book'[Len(book) + 1] = a
        /\ \A i \in 1 .. Len(book) : book'[i] = book[i]
        /\ book' # <<>>
    BY <1>1
  <1>3. InBook' = InBook \cup {a}
    BY <1>1, <1>2 DEF InBook
  <1>4. \A i, j \in DOMAIN book' : book'[i] = book'[j] => i = j
    BY <1>1, <1>2 DEF AddressInv, AddressTypeOK, InBook
  <1>5. \E b \in InBook' : preferred' = {b}
    BY <1>3 DEF CreateAddress, AddressInv, OneDefaultAddress
  <1>6. Len(book') <= AddressLimit
    BY <1>1, <1>2, AddressParameters DEF CreateAddress
  <1>7. preferred' \subseteq AddressIds
    BY DEF CreateAddress, AddressInv, AddressTypeOK
  <1>8. QED
    BY <1>2, <1>4, <1>5, <1>6, <1>7 DEF AddressInv, AddressTypeOK, OneDefaultAddress

LEMMA RemoveOne ==
    ASSUME AddressInv, NEW a \in AddressIds, RemoveAddress(a)
    PROVE  AddressInv'
  <1> DEFINE left == Without(a)
  <1>1. /\ AddressTypeOK /\ a \in InBook /\ book' = left
        /\ preferred' = (preferred \ {a}) \cup
               (IF a \in preferred /\ left # <<>> THEN {Head(left)} ELSE {})
    BY DEF AddressInv, RemoveAddress
  <1>2. /\ left \in Seq(AddressIds) /\ Len(left) = Len(book) - 1
        /\ \A i, j \in DOMAIN left : left[i] = left[j] => i = j
        /\ {left[i] : i \in DOMAIN left} = InBook \ {a}
    BY <1>1, WithoutOne
  <1> HIDE DEF left
  <1>3. InBook' = InBook \ {a}
    BY <1>1, <1>2 DEF InBook
  <1>4. PICK b \in InBook : preferred = {b}
    <2>1. book # <<>>
      BY <1>1 DEF InBook
    <2>2. QED
      BY <2>1 DEF AddressInv, OneDefaultAddress
  <1>5. left # <<>> => Head(left) \in InBook' /\ Head(left) \in AddressIds
    <2>1. left # <<>> => 1 \in DOMAIN left /\ Head(left) = left[1] /\ left[1] \in AddressIds
      BY <1>2
    <2>2. QED
      BY <1>2, <1>3, <2>1
  <1>6. left # <<>> => \E c \in InBook' : preferred' = {c}
    BY <1>1, <1>3, <1>4, <1>5
  <1>7. left = <<>> => preferred' = {}
    <2>1. left = <<>> => InBook \ {a} = {}
      BY <1>2
    <2>2. QED
      BY <1>1, <1>4, <2>1
  <1>8. preferred' \subseteq AddressIds
    BY <1>1, <1>5 DEF AddressTypeOK
  <1>9. Len(book') <= AddressLimit
    <2>1. Len(book) \in Nat /\ Len(book) <= AddressLimit
      BY DEF AddressInv, AddressTypeOK, OneDefaultAddress
    <2>2. QED
      BY <1>1, <1>2, <2>1, AddressParameters
  <1>10. QED
    BY <1>1, <1>2, <1>6, <1>7, <1>8, <1>9 DEF AddressInv, AddressTypeOK, OneDefaultAddress

LEMMA AddressStep == AddressInv /\ [AddressNext]_addressVars => AddressInv'
  <1> SUFFICES ASSUME AddressInv, [AddressNext]_addressVars PROVE AddressInv'
    OBVIOUS
  <1>1. ASSUME NEW a \in AddressIds, NEW asDefault \in BOOLEAN, UpdateAddress(a, asDefault)
        PROVE  AddressInv'
    BY <1>1, MarkMoved DEF UpdateAddress
  <1>2. ASSUME NEW a \in AddressIds, SetDefaultAddress(a) \/ ChooseInProfile(a)
        PROVE  AddressInv'
    <2>1. preferred' = {a} /\ UNCHANGED book /\ a \in InBook
      BY <1>2 DEF SetDefaultAddress, ChooseInProfile
    <2>2. QED
      BY <2>1, MarkMoved
  <1>3. CASE UNCHANGED addressVars
    BY <1>3 DEF addressVars, AddressInv, AddressTypeOK, OneDefaultAddress, InBook
  <1>4. QED
    BY <1>1, <1>2, <1>3, CreateOne, RemoveOne DEF AddressNext

LEMMA AddressStart == AddressInit => AddressInv
  BY AddressParameters
     DEF AddressInit, AddressInv, AddressTypeOK, OneDefaultAddress, InBook

\* After any sequence of additions, edits, choices and removals a customer with
\* an address has exactly one default, and no more addresses than the limit.
THEOREM OneDefaultAlways == AddressSpec => []OneDefaultAddress
  <1>1. AddressInv => OneDefaultAddress
    BY DEF AddressInv
  <1>2. QED
    BY <1>1, AddressStart, AddressStep, PTL DEF AddressSpec

-----------------------------------------------------------------------------
(* Reviews and wishes (CustomerAccount).  ReviewsBacked is kept because the *)
(* rows it speaks of are whole (Backed) and no order names a product that   *)
(* is gone (LinesOpen); the figures of the pages then follow by counting.   *)

\* One review, told by what its row says of it.
Backed(row) ==
    /\ row.by \in Buyers /\ row.about \in Purchases \X Books /\ row.stars \in Stars
    /\ purchase[row.about[1]].by = row.by
    /\ purchase[row.about[1]].stage = "COMPLETED"
    /\ row.about[2] \in purchase[row.about[1]].lines

LinesOpen == \A o \in Purchases : \A b \in purchase[o].lines : shelved[b] # "GONE"

WishesOpen == \A wish \in wishes : shelved[wish[2]] # "GONE"

WrittenOnce ==
    \A r, s \in Here : r # s /\ review[r].by = review[s].by => review[r].about # review[s].about

AllBacked == \A r \in Here : Backed(review[r])

AccountInv == AccountTypeOK /\ LinesOpen /\ WishesOpen /\ WrittenOnce /\ AllBacked

LEMMA BackedFollows == AccountInv => ReviewsBacked
  <1> SUFFICES ASSUME AccountInv PROVE ReviewsBacked
    OBVIOUS
  <1>1. ASSUME NEW r \in Here
        PROVE  LET o == review[r].about[1]
                   b == review[r].about[2]
               IN /\ purchase[o].by = review[r].by /\ purchase[o].stage = "COMPLETED"
                  /\ b \in purchase[o].lines
                  /\ shelved[b] # "GONE"
    BY <1>1 DEF AccountInv, AllBacked, Backed, LinesOpen
  <1>2. QED
    BY <1>1 DEF AccountInv, WrittenOnce, WishesOpen, ReviewsBacked

\* A step that leaves the reviews alone and the orders that have arrived.
LEMMA ReviewsKept ==
    ASSUME AccountInv, UNCHANGED review,
           \A o \in Purchases : purchase[o].stage = "COMPLETED" =>
               /\ purchase'[o].stage = "COMPLETED"
               /\ purchase'[o].by = purchase[o].by
               /\ purchase'[o].lines = purchase[o].lines
    PROVE  WrittenOnce' /\ AllBacked'
  <1>1. Here' = Here
    BY DEF Here
  <1>2. WrittenOnce'
    BY <1>1 DEF AccountInv, WrittenOnce
  <1>3. ASSUME NEW r \in Here
        PROVE  Backed(review[r])'
    <2>1. Backed(review[r]) /\ review[r].about[1] \in Purchases
      BY <1>3 DEF AccountInv, AllBacked, Backed
    <2>2. QED
      BY <2>1 DEF Backed
  <1>4. QED
    BY <1>1, <1>2, <1>3 DEF AllBacked

\* A step of one order that has not arrived.
LEMMA OrderMoved ==
    ASSUME AccountInv, NEW o \in Purchases, NEW row \in PurchaseRow,
           purchase' = [purchase EXCEPT ![o] = row],
           purchase[o].stage # "COMPLETED",
           \A b \in row.lines : shelved[b] # "GONE",
           UNCHANGED <<shelved, review, wishes, saving, moderating, requests>>
    PROVE  AccountInv'
  <1>1. purchase \in [Purchases -> PurchaseRow]
    BY DEF AccountInv, AccountTypeOK
  <1>2. AccountTypeOK'
    BY <1>1 DEF AccountInv, AccountTypeOK
  <1>3. LinesOpen'
    BY <1>1 DEF AccountInv, LinesOpen
  <1>4. WishesOpen'
    BY DEF AccountInv, WishesOpen
  <1>5. WrittenOnce' /\ AllBacked'
    BY <1>1, ReviewsKept
  <1>6. QED
    BY <1>2, <1>3, <1>4, <1>5 DEF AccountInv

\* A step of one review.
LEMMA ReviewMoved ==
    ASSUME AccountInv, NEW r \in ReviewIds, NEW row \in ReviewRow,
           review' = [review EXCEPT ![r] = row],
           row.state = "HERE" =>
               /\ Backed(row)
               /\ \A s \in Here \ {r} : review[s].by = row.by => review[s].about # row.about,
           AccountTypeOK', UNCHANGED <<purchase, shelved, wishes>>
    PROVE  AccountInv'
  <1>1. review \in [ReviewIds -> ReviewRow] /\ AccountTypeOK
    BY DEF AccountInv, AccountTypeOK
  <1>2. /\ review'[r] = row
        /\ \A s \in ReviewIds \ {r} : review'[s] = review[s]
    BY <1>1
  <1>3. /\ Here' \ {r} = Here \ {r}
        /\ r \in Here' <=> row.state = "HERE"
    BY <1>2 DEF Here
  <1>4. ASSUME NEW s \in Here'
        PROVE  Backed(review[s])'
    <2>1. s \in ReviewIds
      BY <1>4 DEF Here
    <2>2. Backed(review'[s])
      BY <1>2, <1>3, <1>4, <2>1 DEF AccountInv, AllBacked
    <2>3. QED
      BY <2>2 DEF Backed
  <1>5. WrittenOnce'
    <2>1. ASSUME NEW s \in Here', NEW t \in Here', s # t, review'[s].by = review'[t].by
          PROVE  review'[s].about # review'[t].about
      <3>1. s \in ReviewIds /\ t \in ReviewIds
        BY <2>1 DEF Here
      <3>2. CASE s = r
        BY <1>2, <1>3, <2>1, <3>1, <3>2
      <3>3. CASE t = r
        BY <1>2, <1>3, <2>1, <3>1, <3>3
      <3>4. CASE s # r /\ t # r
        BY <1>2, <1>3, <2>1, <3>1, <3>4 DEF AccountInv, WrittenOnce
      <3>5. QED
        BY <3>2, <3>3, <3>4
    <2>2. QED
      BY <2>1 DEF WrittenOnce
  <1>6. LinesOpen' /\ WishesOpen'
    BY DEF AccountInv, LinesOpen, WishesOpen
  <1>7. QED
    BY <1>4, <1>5, <1>6 DEF AccountInv, AllBacked

\* A step that moves neither orders nor reviews.
LEMMA ShelfMoved ==
    ASSUME AccountInv, AccountTypeOK', UNCHANGED <<purchase, review>>,
           LinesOpen', WishesOpen'
    PROVE  AccountInv'
  BY ReviewsKept DEF AccountInv

LEMMA OneMoreType == AccountTypeOK /\ OneMore => requests' \in 0 .. MaxRequests
  BY AccountParameters DEF AccountTypeOK, OneMore

LEMMA OrderStep ==
    ASSUME AccountInv, NEW o \in Purchases,
           \/ \E u \in Buyers, B \in SUBSET Books : Purchase(o, u, B)
           \/ Advance(o, "OPEN", "SHIPPING") \/ Advance(o, "OPEN", "CANCELLED")
           \/ Advance(o, "SHIPPING", "COMPLETED") \/ Receive(o)
    PROVE  AccountInv'
  <1>1. /\ purchase \in [Purchases -> PurchaseRow] /\ purchase[o] \in PurchaseRow
        /\ \A b \in purchase[o].lines : shelved[b] # "GONE"
    BY DEF AccountInv, AccountTypeOK, LinesOpen
  <1>2. ASSUME NEW u \in Buyers, NEW B \in SUBSET Books, Purchase(o, u, B)
        PROVE  AccountInv'
    <2> DEFINE row == [by |-> u, stage |-> "OPEN", received |-> FALSE, lines |-> B]
    <2>1. row \in PurchaseRow
      BY DEF PurchaseRow, Stages
    <2>2. \A b \in row.lines : shelved[b] # "GONE"
      BY <1>2 DEF Purchase
    <2>3. /\ purchase' = [purchase EXCEPT ![o] = row] /\ purchase[o].stage # "COMPLETED"
          /\ UNCHANGED <<shelved, review, wishes, saving, moderating, requests>>
      BY <1>2 DEF Purchase
    <2> HIDE DEF row
    <2>4. QED
      BY <2>1, <2>2, <2>3, OrderMoved
  <1>3. ASSUME NEW from \in Stages \ {"COMPLETED"}, NEW to \in Stages, Advance(o, from, to)
        PROVE  AccountInv'
    <2> DEFINE row == [purchase[o] EXCEPT !.stage = to]
    <2>1. row \in PurchaseRow /\ row.lines = purchase[o].lines
      BY <1>1 DEF PurchaseRow
    <2>2. /\ purchase' = [purchase EXCEPT ![o] = row] /\ purchase[o].stage # "COMPLETED"
          /\ UNCHANGED <<shelved, review, wishes, saving, moderating, requests>>
      BY <1>3 DEF Advance
    <2> HIDE DEF row
    <2>3. QED
      BY <1>1, <2>1, <2>2, OrderMoved
  <1>4. CASE Receive(o)
    <2> DEFINE row == [purchase[o] EXCEPT !.received = TRUE]
    <2>1. row \in PurchaseRow /\ row.lines = purchase[o].lines
      BY <1>1 DEF PurchaseRow
    <2>2. /\ purchase' = [purchase EXCEPT ![o] = row] /\ purchase[o].stage # "COMPLETED"
          /\ UNCHANGED <<shelved, review, wishes, saving, moderating, requests>>
      BY <1>4 DEF Receive
    <2> HIDE DEF row
    <2>3. QED
      BY <1>1, <2>1, <2>2, OrderMoved
  <1>5. QED
    BY <1>2, <1>3, <1>4 DEF Stages

LEMMA ReviewStep ==
    ASSUME AccountInv, NEW r \in ReviewIds, NEW u \in Buyers,
           \/ \E o \in Purchases, b \in Books, n \in Stars : CreateReview(r, u, o, b, n)
           \/ \E n \in Stars : UpdateReview(r, u, n)
           \/ RemoveReview(r, u)
    PROVE  AccountInv'
  <1>1. AccountTypeOK /\ review[r] \in ReviewRow
    BY DEF AccountInv, AccountTypeOK
  <1>2. ASSUME NEW row \in ReviewRow, OneMore, review' = [review EXCEPT ![r] = row],
               UNCHANGED <<purchase, shelved, wishes, saving, moderating>>
        PROVE  AccountTypeOK'
    BY <1>1, <1>2, OneMoreType DEF AccountTypeOK
  <1>3. ASSUME NEW o \in Purchases, NEW b \in Books, NEW n \in Stars, CreateReview(r, u, o, b, n)
        PROVE  AccountInv'
    <2> DEFINE row == [state |-> "HERE", by |-> u, about |-> <<o, b>>, stars |-> n,
                       visible |-> TRUE]
    <2>1. row \in ReviewRow
      BY DEF ReviewRow
    <2>2. Backed(row)
      BY <1>3 DEF CreateReview, MayReview, Backed
    <2>3. \A s \in Here \ {r} : review[s].by = row.by => review[s].about # row.about
      BY <1>3 DEF CreateReview, MayReview, Unwritten
    <2>4. /\ OneMore /\ review' = [review EXCEPT ![r] = row]
          /\ UNCHANGED <<purchase, shelved, wishes, saving, moderating>>
      BY <1>3 DEF CreateReview
    <2> HIDE DEF row
    <2>5. QED
      BY <1>2, <2>1, <2>2, <2>3, <2>4, ReviewMoved
  <1>4. ASSUME NEW n \in Stars, UpdateReview(r, u, n)
        PROVE  AccountInv'
    <2> DEFINE row == [review[r] EXCEPT !.stars = n]
    <2>1. row \in ReviewRow /\ row.by = review[r].by /\ row.about = review[r].about
          /\ row.stars = n
      BY <1>1 DEF ReviewRow
    <2>2. r \in Here /\ Backed(review[r])
      BY <1>4 DEF UpdateReview, AccountInv, AllBacked
    <2>3. /\ OneMore /\ review' = [review EXCEPT ![r] = row]
          /\ UNCHANGED <<purchase, shelved, wishes, saving, moderating>>
      BY <1>4 DEF UpdateReview
    <2> HIDE DEF row
    <2>4. Backed(row)
      BY <2>1, <2>2 DEF Backed
    <2>5. \A s \in Here \ {r} : review[s].by = row.by => review[s].about # row.about
      BY <2>1, <2>2 DEF AccountInv, WrittenOnce
    <2>6. QED
      BY <1>2, <2>1, <2>3, <2>4, <2>5, ReviewMoved
  <1>5. CASE RemoveReview(r, u)
    <2> DEFINE row == [EmptyReview EXCEPT !.state = "REMOVED"]
    <2>1. row \in ReviewRow /\ row.state # "HERE"
      BY DEF ReviewRow, EmptyReview
    <2>2. /\ OneMore /\ review' = [review EXCEPT ![r] = row]
          /\ UNCHANGED <<purchase, shelved, wishes, saving, moderating>>
      BY <1>5 DEF RemoveReview
    <2> HIDE DEF row
    <2>3. QED
      BY <1>2, <2>1, <2>2, ReviewMoved
  <1>6. QED
    BY <1>3, <1>4, <1>5

LEMMA ModerateStep ==
    ASSUME AccountInv, NEW r \in ReviewIds, NEW visible \in BOOLEAN,
           ReadReview(r, visible) \/ WriteVisibility(r, visible)
    PROVE  AccountInv'
  <1>1. AccountTypeOK /\ review[r] \in ReviewRow
    BY DEF AccountInv, AccountTypeOK
  <1>2. CASE ReadReview(r, visible)
    <2>1. AccountTypeOK'
      BY <1>1, <1>2, OneMoreType DEF ReadReview, AccountTypeOK
    <2>2. LinesOpen' /\ WishesOpen'
      BY <1>2 DEF ReadReview, AccountInv, LinesOpen, WishesOpen
    <2>3. UNCHANGED <<purchase, review>>
      BY <1>2 DEF ReadReview
    <2>4. QED
      BY <2>1, <2>2, <2>3, ShelfMoved
  <1>3. CASE WriteVisibility(r, visible) /\ r \in Here
    <2> DEFINE row == [review[r] EXCEPT !.visible = visible]
    <2>1. row \in ReviewRow /\ row.by = review[r].by /\ row.about = review[r].about
          /\ row.stars = review[r].stars
      BY <1>1 DEF ReviewRow
    <2>2. /\ review' = [review EXCEPT ![r] = row] /\ moderating' \subseteq moderating
          /\ UNCHANGED <<purchase, shelved, wishes, saving, requests>>
      BY <1>3 DEF WriteVisibility
    <2> HIDE DEF row
    <2>3. AccountTypeOK'
      BY <1>1, <2>1, <2>2 DEF AccountTypeOK
    <2>4. Backed(row)
      BY <1>3, <2>1 DEF AccountInv, AllBacked, Backed
    <2>5. \A s \in Here \ {r} : review[s].by = row.by => review[s].about # row.about
      BY <1>3, <2>1 DEF AccountInv, WrittenOnce
    <2>6. QED
      BY <2>1, <2>2, <2>3, <2>4, <2>5, ReviewMoved
  <1>4. CASE WriteVisibility(r, visible) /\ r \notin Here
    <2>1. UNCHANGED <<purchase, review, shelved, wishes, saving, requests>>
          /\ moderating' \subseteq moderating
      BY <1>4 DEF WriteVisibility
    <2>2. AccountTypeOK'
      BY <1>1, <2>1 DEF AccountTypeOK
    <2>3. LinesOpen' /\ WishesOpen'
      BY <2>1 DEF AccountInv, LinesOpen, WishesOpen
    <2>4. QED
      BY <2>1, <2>2, <2>3, ShelfMoved
  <1>5. QED
    BY <1>2, <1>3, <1>4

LEMMA WishStep ==
    ASSUME AccountInv, NEW u \in Buyers, NEW b \in Books,
           CheckWish(u, b) \/ SaveWish(u, b) \/ RemoveWish(u, b)
    PROVE  AccountInv'
  <1>1. AccountTypeOK
    BY DEF AccountInv
  <1>2. UNCHANGED <<purchase, review, shelved>>
    BY DEF CheckWish, SaveWish, RemoveWish
  <1>3. AccountTypeOK'
    <2>1. CASE CheckWish(u, b)
      BY <1>1, <2>1, OneMoreType DEF CheckWish, AccountTypeOK
    <2>2. CASE SaveWish(u, b)
      BY <1>1, <2>2 DEF SaveWish, AccountTypeOK
    <2>3. CASE RemoveWish(u, b)
      BY <1>1, <2>3, OneMoreType DEF RemoveWish, AccountTypeOK
    <2>4. QED
      BY <2>1, <2>2, <2>3
  <1>4. LinesOpen'
    BY <1>2 DEF AccountInv, LinesOpen
  <1>5. WishesOpen'
    BY <1>2 DEF AccountInv, WishesOpen, CheckWish, SaveWish, RemoveWish
  <1>6. QED
    BY <1>2, <1>3, <1>4, <1>5, ShelfMoved

LEMMA BookStep ==
    ASSUME AccountInv, NEW b \in Books,
           RemoveBook(b) \/ \E s \in {"DRAFT", "ACTIVE", "INACTIVE"} : Reshelve(b, s)
    PROVE  AccountInv'
  <1>1. AccountTypeOK /\ LinesOpen /\ WishesOpen
    BY DEF AccountInv
  <1>2. /\ OneMore /\ UNCHANGED <<purchase, review, wishes, saving, moderating>>
        /\ \E s \in {"DRAFT", "ACTIVE", "INACTIVE", "GONE"} :
              shelved' = [shelved EXCEPT ![b] = s] /\ (s = "GONE" => Unreferenced(b))
    BY DEF RemoveBook, Reshelve
  <1>3. AccountTypeOK'
    BY <1>1, <1>2, OneMoreType DEF AccountTypeOK
  <1>4. LinesOpen'
    BY <1>1, <1>2 DEF LinesOpen, Unreferenced, AccountTypeOK, PurchaseRow
  <1>5. WishesOpen'
    <2>1. ASSUME NEW wish \in wishes
          PROVE  shelved'[wish[2]] # "GONE"
      <3>1. /\ wish[1] \in Buyers /\ wish[2] \in Books /\ wish = <<wish[1], wish[2]>>
            /\ shelved[wish[2]] # "GONE"
        BY <1>1, <2>1 DEF AccountTypeOK, WishesOpen
      <3>2. QED
        BY <1>1, <1>2, <2>1, <3>1 DEF Unreferenced, AccountTypeOK
    <2>2. QED
      BY <1>2, <2>1 DEF WishesOpen
  <1>6. QED
    BY <1>2, <1>3, <1>4, <1>5, ShelfMoved

LEMMA AccountStep == AccountInv /\ [AccountNext]_accountVars => AccountInv'
  <1> SUFFICES ASSUME AccountInv, [AccountNext]_accountVars PROVE AccountInv'
    OBVIOUS
  <1>1. CASE UNCHANGED accountVars
    BY <1>1 DEF accountVars, AccountInv, AccountTypeOK, LinesOpen, WishesOpen, WrittenOnce,
                AllBacked, Backed, Here
  <1>2. QED
    BY <1>1, OrderStep, ReviewStep, ModerateStep, WishStep, BookStep DEF AccountNext

LEMMA AccountStart == AccountInit => AccountInv
  <1> SUFFICES ASSUME AccountInit PROVE AccountInv
    OBVIOUS
  <1>1. AccountTypeOK
    BY AccountParameters
       DEF AccountInit, AccountTypeOK, NoPurchase, PurchaseRow, Stages, EmptyReview, ReviewRow
  <1>2. Here = {}
    BY DEF AccountInit, Here, EmptyReview
  <1>3. QED
    BY <1>1, <1>2 DEF AccountInit, AccountInv, LinesOpen, WishesOpen, WrittenOnce, AllBacked,
                      NoPurchase

-----------------------------------------------------------------------------
(* What the pages count. *)

\* Sets of the same size: a function from one to the other that misses nothing
\* and joins nothing.
LEMMA SameSize ==
    ASSUME NEW S, IsFiniteSet(S), NEW T, NEW f \in [S -> T],
           \A x, y \in S : f[x] = f[y] => x = y,
           \A t \in T : \E x \in S : f[x] = t
    PROVE  IsFiniteSet(T) /\ Cardinality(T) = Cardinality(S)
  <1>1. f \in Injection(S, T) \cap Surjection(S, T)
    BY DEF Injection, IsInjective, Surjection
  <1>2. ExistsBijection(S, T)
    BY <1>1 DEF ExistsBijection, Bijection
  <1>3. QED
    BY <1>2, FS_Bijection

LEMMA FiniteParts ==
    /\ IsFiniteSet(Purchases \X Books)
    /\ \A S \in SUBSET Books : IsFiniteSet(S)
    /\ \A S \in SUBSET Here : IsFiniteSet(S)
    /\ \A S \in SUBSET (Purchases \X Books) : IsFiniteSet(S)
  <1>1. IsFiniteSet(Purchases \X Books)
    BY AccountParameters, FS_Product
  <1>2. Here \subseteq ReviewIds
    BY DEF Here
  <1>3. QED
    BY <1>1, <1>2, AccountParameters, FS_Subset

\* Lines of an order that arrived, and those of them with a review of its buyer.
Reviewed(o) == {b \in purchase[o].lines : ~Unwritten(purchase[o].by, o, b)}

LEMMA ReviewedCount ==
    ASSUME AccountInv, NEW u \in Buyers, NEW o \in Purchases, purchase[o].by = u
    PROVE  Cardinality(Reviewed(o)) = Cardinality({r \in Written(u) : review[r].about[1] = o})
  <1> DEFINE S == {r \in Written(u) : review[r].about[1] = o}
             f == [r \in S |-> review[r].about[2]]
  <1>1. ASSUME NEW r \in S
        PROVE  /\ r \in Here /\ review[r].by = u /\ Backed(review[r])
               /\ review[r].about = <<o, f[r]>> /\ f[r] \in Reviewed(o)
    <2>1. r \in Here /\ review[r].by = u /\ Backed(review[r]) /\ review[r].about[1] = o
      BY <1>1 DEF Written, AccountInv, AllBacked
    <2>2. review[r].about = <<o, review[r].about[2]>> /\ review[r].about[2] \in purchase[o].lines
      BY <2>1 DEF Backed
    <2>3. f[r] = review[r].about[2]
      BY <1>1
    <2>4. ~Unwritten(purchase[o].by, o, review[r].about[2])
      BY <2>1, <2>2 DEF Unwritten
    <2>5. QED
      BY <2>1, <2>2, <2>3, <2>4 DEF Reviewed
  <1>2. f \in [S -> Reviewed(o)]
    BY <1>1
  <1>3. ASSUME NEW r \in S, NEW s \in S, f[r] = f[s]
        PROVE  r = s
    <2> HIDE DEF S, f
    <2>1. review[r].about = review[s].about /\ review[r].by = review[s].by
          /\ r \in Here /\ s \in Here
      BY <1>1, <1>3
    <2>2. QED
      BY <2>1 DEF AccountInv, WrittenOnce
  <1>4. ASSUME NEW b \in Reviewed(o)
        PROVE  \E r \in S : f[r] = b
    <2>1. PICK r \in Here : review[r].by = u /\ review[r].about = <<o, b>>
      BY <1>4 DEF Reviewed, Unwritten
    <2>2. r \in S /\ f[r] = b
      BY <2>1 DEF Written
    <2>3. QED
      BY <2>2
  <1>5. IsFiniteSet(S)
    BY FiniteParts DEF Written
  <1> HIDE DEF S, f
  <1>6. Cardinality(Reviewed(o)) = Cardinality(S)
    BY <1>2, <1>3, <1>4, <1>5, SameSize
  <1>7. QED
    BY <1>6 DEF S

\* The lines of one order that its buyer is asked to review.
LEMMA PendingCount ==
    ASSUME AccountInv, NEW u \in Buyers, NEW o \in Purchases, purchase[o].by = u,
           purchase[o].stage = "COMPLETED"
    PROVE  /\ Cardinality({p \in PendingReviews(u) : p[1] = o})
                  = Cardinality(purchase[o].lines) - Cardinality(Reviewed(o))
           /\ Cardinality({p \in PendingReviews(u) : p[1] = o}) \in Nat
  <1> DEFINE P == {p \in PendingReviews(u) : p[1] = o}
             rest == purchase[o].lines \ Reviewed(o)
             f == [b \in rest |-> <<o, b>>]
  <1>1. purchase[o].lines \subseteq Books /\ Reviewed(o) \subseteq purchase[o].lines
    BY DEF AccountInv, AccountTypeOK, PurchaseRow, Reviewed
  <1>2. \A b \in rest : f[b] \in P /\ f[b] = <<o, b>>
    BY <1>1 DEF PendingReviews, Reviewed
  <1>3. ASSUME NEW p \in P
        PROVE  \E b \in rest : f[b] = p
    <2>1. /\ p = <<o, p[2]>> /\ p[2] \in purchase[o].lines
          /\ Unwritten(u, o, p[2])
      BY <1>3 DEF PendingReviews
    <2>2. p[2] \in rest
      BY <2>1 DEF Reviewed
    <2>3. QED
      BY <1>2, <2>1, <2>2
  <1>4. IsFiniteSet(purchase[o].lines) /\ IsFiniteSet(Reviewed(o)) /\ IsFiniteSet(rest)
    BY <1>1, FiniteParts
  <1>5. /\ Cardinality(rest) = Cardinality(purchase[o].lines)
                               - Cardinality(purchase[o].lines \cap Reviewed(o))
        /\ Cardinality(rest) \in Nat
    BY <1>4, FS_Difference, FS_CardinalityType
  <1>6. purchase[o].lines \cap Reviewed(o) = Reviewed(o)
    BY <1>1
  <1> HIDE DEF rest, P
  <1>7. f \in [rest -> P] /\ \A b, c \in rest : f[b] = f[c] => b = c
    BY <1>2
  <1> HIDE DEF f
  <1>8. Cardinality(P) = Cardinality(rest)
    BY <1>3, <1>4, <1>7, SameSize
  <1>9. QED
    BY <1>5, <1>6, <1>8 DEF P

\* What arrived with an order of u: to be reviewed or reviewed.
Arrived(u) ==
    {line \in Purchases \X Books :
        /\ line[1] \in OrdersOf(u)
        /\ purchase[line[1]].stage = "COMPLETED"
        /\ line[2] \in purchase[line[1]].lines}

LEMMA ArrivedCount ==
    ASSUME AccountInv, NEW u \in Buyers
    PROVE  Cardinality(Written(u)) + Cardinality(PendingReviews(u)) = Cardinality(Arrived(u))
  <1> DEFINE told == Arrived(u) \ PendingReviews(u)
             f == [r \in Written(u) |-> review[r].about]
  <1>1. PendingReviews(u) \subseteq Arrived(u) /\ Arrived(u) \subseteq Purchases \X Books
    BY DEF PendingReviews, Arrived, OrdersOf
  <1>2. ASSUME NEW r \in Written(u)
        PROVE  /\ r \in Here /\ review[r].by = u
               /\ f[r] = review[r].about /\ f[r] \in told
    <2>1. r \in Here /\ review[r].by = u /\ Backed(review[r]) /\ f[r] = review[r].about
      BY <1>2 DEF Written, AccountInv, AllBacked
    <2>2. review[r].about \in Arrived(u)
      BY <2>1 DEF Backed, Arrived, OrdersOf
    <2>3. review[r].about = <<review[r].about[1], review[r].about[2]>>
      BY <2>1 DEF Backed
    <2>4. review[r].about \notin PendingReviews(u)
      BY <2>1, <2>3 DEF PendingReviews, Unwritten
    <2>5. QED
      BY <2>1, <2>2, <2>4
  <1>3. f \in [Written(u) -> told] /\ \A r, s \in Written(u) : f[r] = f[s] => r = s
    BY <1>2 DEF AccountInv, WrittenOnce
  <1>4. ASSUME NEW line \in told
        PROVE  \E r \in Written(u) : f[r] = line
    <2>1. /\ line \in Purchases \X Books /\ line = <<line[1], line[2]>>
          /\ purchase[line[1]].by = u /\ purchase[line[1]].stage = "COMPLETED"
          /\ line[2] \in purchase[line[1]].lines /\ line \notin PendingReviews(u)
      BY <1>4 DEF Arrived, OrdersOf
    <2>2. ~Unwritten(u, line[1], line[2])
      BY <2>1 DEF PendingReviews
    <2>3. PICK r \in Here : review[r].by = u /\ review[r].about = <<line[1], line[2]>>
      BY <2>2 DEF Unwritten
    <2>4. r \in Written(u) /\ f[r] = line
      BY <2>1, <2>3 DEF Written
    <2>5. QED
      BY <2>4
  <1>5. IsFiniteSet(Written(u)) /\ IsFiniteSet(Arrived(u)) /\ IsFiniteSet(PendingReviews(u))
    BY <1>1, FiniteParts DEF Written
  <1> HIDE DEF f
  <1>6. Cardinality(told) = Cardinality(Written(u))
    <2> HIDE DEF told
    <2>1. QED
      BY <1>3, <1>4, <1>5, SameSize
  <1>7. Cardinality(told) = Cardinality(Arrived(u)) - Cardinality(PendingReviews(u))
    <2>1. Arrived(u) \cap PendingReviews(u) = PendingReviews(u)
      BY <1>1
    <2>2. QED
      BY <1>5, <2>1, FS_Difference
  <1> HIDE DEF told
  <1>8. /\ Cardinality(Arrived(u)) \in Nat /\ Cardinality(PendingReviews(u)) \in Nat
        /\ Cardinality(Written(u)) \in Nat
    BY <1>5, FS_CardinalityType
  <1>9. QED
    BY <1>6, <1>7, <1>8

LEMMA PendingFollows == AccountInv => PendingAgrees
  <1> SUFFICES ASSUME AccountInv, NEW u \in Buyers
               PROVE  PendingAgrees!(u)
    BY DEF PendingAgrees
  <1>1. PendingReviews(u) = {line \in Purchases \X Books : MayReview(u, line[1], line[2])}
    BY DEF PendingReviews, MayReview, AccountInv, LinesOpen
  <1>2. ASSUME NEW o \in OrdersOf(u)
        PROVE  LET here == Cardinality({p \in PendingReviews(u) : p[1] = o}) IN
               /\ ReviewAction(o).type = "WRITE" <=> here > 0
               /\ here > 0 => ReviewAction(o).count = here
               /\ ReviewAction(o).type = "VIEW" =>
                      ReviewAction(o).count =
                          Cardinality({r \in Written(u) : review[r].about[1] = o})
    <2> DEFINE here == Cardinality({p \in PendingReviews(u) : p[1] = o})
    <2>1. o \in Purchases /\ purchase[o].by = u
      BY <1>2 DEF OrdersOf
    <2>2. CASE purchase[o].stage # "COMPLETED"
      <3>1. {p \in PendingReviews(u) : p[1] = o} = {}
        BY <2>2 DEF PendingReviews
      <3>2. here = 0
        BY <3>1, FS_EmptySet
      <3>3. ReviewAction(o) = [type |-> "NONE", count |-> 0]
        BY <2>2 DEF ReviewAction
      <3>4. QED
        BY <3>2, <3>3
    <2>3. CASE purchase[o].stage = "COMPLETED"
      <3>1. here = Cardinality(purchase[o].lines) - Cardinality(Reviewed(o)) /\ here \in Nat
        BY <2>1, <2>3, PendingCount
      <3>2. ReviewAction(o) =
               IF here > 0 THEN [type |-> "WRITE", count |-> here]
               ELSE IF Reviewed(o) # {}
               THEN [type |-> "VIEW", count |-> Cardinality(Reviewed(o))]
               ELSE [type |-> "NONE", count |-> 0]
        BY <2>3, <3>1 DEF ReviewAction, Reviewed
      <3>3. Cardinality(Reviewed(o)) =
               Cardinality({r \in Written(u) : review[r].about[1] = o})
        BY <2>1, ReviewedCount
      <3> HIDE DEF here
      <3>4. /\ ReviewAction(o).type = "WRITE" <=> here > 0
            /\ here > 0 => ReviewAction(o).count = here
            /\ ReviewAction(o).type = "VIEW" => ReviewAction(o).count = Cardinality(Reviewed(o))
        BY <3>1, <3>2
      <3>5. QED
        BY <3>3, <3>4 DEF here
    <2>4. QED
      BY <2>2, <2>3
  <1>3. Dashboard(u).written + Dashboard(u).pending = Cardinality(Arrived(u))
    BY ArrivedCount DEF Dashboard
  <1>4. QED
    BY <1>1, <1>2, <1>3 DEF Arrived

LEMMA PagesFollow == AccountInv => AccountAgrees
  <1> SUFFICES ASSUME AccountInv PROVE AccountAgrees
    OBVIOUS
  <1>1. TabsPartition
    <2> SUFFICES ASSUME NEW u \in Buyers PROVE TabsPartition!(u)
      BY DEF TabsPartition
    <2>1. QED
      BY DEF ShippingTab, ReceivedTab, OrdersOf, Dashboard
  <1>2. StarsAddUp
    <2>1. ASSUME NEW b \in Books
          PROVE  UNION {ListedUnder(b, n) : n \in Stars} = VisibleReviews(b)
      <3>1. \A r \in VisibleReviews(b) : review[r].stars \in Stars
        BY DEF VisibleReviews, AccountInv, AllBacked, Backed
      <3>2. \A r \in VisibleReviews(b) : r \in ListedUnder(b, review[r].stars)
        BY DEF ListedUnder
      <3>3. \A n \in Stars : ListedUnder(b, n) \subseteq VisibleReviews(b)
        BY DEF ListedUnder
      <3>4. QED
        BY <3>1, <3>2, <3>3
    <2>2. \A b \in Books, n \in Stars : Distribution(b)[n] = Cardinality(ListedUnder(b, n))
      BY DEF Distribution, ListedUnder
    <2>3. QED
      BY <2>1, <2>2 DEF StarsAddUp
  <1>3. QED
    BY <1>1, <1>2, BackedFollows, PendingFollows DEF AccountAgrees

\* Whatever customers, moderators and the catalog do in between, the pages of a
\* customer agree with each other and with what the services accept.
THEOREM AccountPagesCorrect == AccountSpec => []AccountAgrees
  BY PagesFollow, AccountStart, AccountStep, PTL DEF AccountSpec

-----------------------------------------------------------------------------
(* Requests and their guards (AccessControl).  What the decision rests on   *)
(* is first shown of every route of the table (Proper): the guards it needs *)
(* are there and in order.                                                  *)

GuardNames == {"THROTTLE", "JWT", "SUPER", "CSRF", "BRANCH", "PERMISSIONS", "GOOGLE"}

Has(guards, g) == \E i \in DOMAIN guards : guards[i] = g

Before(guards, g, h) ==
    \A j \in DOMAIN guards : guards[j] = h => \E i \in DOMAIN guards : i < j /\ guards[i] = g

\* The order of the guards that the decisions rest on.
Ordered(guards) ==
    /\ guards \in Seq(GuardNames) /\ Len(guards) <= 5
    /\ \A i, j \in DOMAIN guards : guards[i] = guards[j] => i = j
    /\ \A h \in {"SUPER", "BRANCH", "PERMISSIONS"} : Before(guards, "JWT", h)
    /\ \A i, j \in DOMAIN guards : guards[i] = "BRANCH" /\ guards[j] = "PERMISSIONS" => i < j

Scopes == {"NONE", "OPTIONAL", "REQUIRED"}

RouteRow ==
    [guards: Seq(GuardNames), write: BOOLEAN, scope: Scopes, super: BOOLEAN,
     all: SUBSET PermissionCatalog, any: SUBSET PermissionCatalog,
     asked: SUBSET PermissionCatalog, audience: {"ANY", "STAFF", "CUSTOMER", "SUPER_ADMIN"}]

\* What a route declares is looked at by a guard of it.
Proper(r) ==
    /\ r \in RouteRow /\ Ordered(r.guards)
    /\ r.super => Has(r.guards, "SUPER")
    /\ r.write => Has(r.guards, "CSRF")
    /\ r.scope # "NONE" => Has(r.guards, "BRANCH")
    /\ r.all \cup r.any # {} => Has(r.guards, "PERMISSIONS")
    /\ r.asked # {} \/ r.audience # "ANY" => Has(r.guards, "JWT")
    /\ r.audience = "STAFF" => r.scope # "NONE"
    /\ r.any \cap DangerousCodes = {}

AllProper(table) == \A h \in DOMAIN table : Proper(table[h])

\* Guards that ask for these, in this order.
List(guards, asked) ==
    Ordered(guards) /\ \A g \in GuardNames : Has(guards, g) <=> g \in asked

LEMMA Lists ==
    /\ List(Public, {}) /\ List(Signed, {"JWT"}) /\ List(SignedCsrf, {"JWT", "CSRF"})
    /\ List(Management, {"JWT", "SUPER", "CSRF", "BRANCH", "PERMISSIONS"})
    /\ List(Permitted, {"JWT", "CSRF", "PERMISSIONS"})
    /\ List(Scoped, {"JWT", "BRANCH", "PERMISSIONS"})
    /\ List(ScopedCsrf, {"JWT", "BRANCH", "PERMISSIONS", "CSRF"})
  <1>1. List(Public, {})
    BY DEF List, Has, Ordered, Before, GuardNames, Public
  <1>2. List(Signed, {"JWT"})
    BY DEF List, Has, Ordered, Before, GuardNames, Signed
  <1>3. List(SignedCsrf, {"JWT", "CSRF"})
    BY DEF List, Has, Ordered, Before, GuardNames, SignedCsrf
  <1>4. List(Management, {"JWT", "SUPER", "CSRF", "BRANCH", "PERMISSIONS"})
    BY DEF List, Has, Ordered, Before, GuardNames, Management
  <1>5. List(Permitted, {"JWT", "CSRF", "PERMISSIONS"})
    BY DEF List, Has, Ordered, Before, GuardNames, Permitted
  <1>6. List(Scoped, {"JWT", "BRANCH", "PERMISSIONS"})
    BY DEF List, Has, Ordered, Before, GuardNames, Scoped
  <1>7. List(ScopedCsrf, {"JWT", "BRANCH", "PERMISSIONS", "CSRF"})
    BY DEF List, Has, Ordered, Before, GuardNames, ScopedCsrf, Scoped
  <1> QED
    BY <1>1, <1>2, <1>3, <1>4, <1>5, <1>6, <1>7

LEMMA OtherLists ==
    /\ List(<<"THROTTLE">>, {"THROTTLE"})
    /\ List(<<"THROTTLE", "CSRF">>, {"THROTTLE", "CSRF"})
    /\ List(<<"THROTTLE", "JWT">>, {"THROTTLE", "JWT"})
    /\ List(<<"THROTTLE", "GOOGLE">>, {"THROTTLE", "GOOGLE"})
    /\ List(<<"JWT", "CSRF", "BRANCH", "PERMISSIONS">>, {"JWT", "CSRF", "BRANCH", "PERMISSIONS"})
    /\ List(<<"JWT", "PERMISSIONS">>, {"JWT", "PERMISSIONS"})
    /\ List(<<"JWT", "SUPER">>, {"JWT", "SUPER"})
    /\ List(<<"JWT", "SUPER", "CSRF">>, {"JWT", "SUPER", "CSRF"})
    /\ List(SignedCsrf \o <<"THROTTLE">>, {"JWT", "CSRF", "THROTTLE"})
  <1>1. List(<<"THROTTLE">>, {"THROTTLE"})
    BY DEF List, Has, Ordered, Before, GuardNames
  <1>2. List(<<"THROTTLE", "CSRF">>, {"THROTTLE", "CSRF"})
    BY DEF List, Has, Ordered, Before, GuardNames
  <1>3. List(<<"THROTTLE", "JWT">>, {"THROTTLE", "JWT"})
    BY DEF List, Has, Ordered, Before, GuardNames
  <1>4. List(<<"THROTTLE", "GOOGLE">>, {"THROTTLE", "GOOGLE"})
    BY DEF List, Has, Ordered, Before, GuardNames
  <1>5. List(<<"JWT", "CSRF", "BRANCH", "PERMISSIONS">>, {"JWT", "CSRF", "BRANCH", "PERMISSIONS"})
    BY DEF List, Has, Ordered, Before, GuardNames
  <1>6. List(<<"JWT", "PERMISSIONS">>, {"JWT", "PERMISSIONS"})
    BY DEF List, Has, Ordered, Before, GuardNames
  <1>7. List(<<"JWT", "SUPER">>, {"JWT", "SUPER"})
    BY DEF List, Has, Ordered, Before, GuardNames
  <1>8. List(<<"JWT", "SUPER", "CSRF">>, {"JWT", "SUPER", "CSRF"})
    BY DEF List, Has, Ordered, Before, GuardNames
  <1>9. List(SignedCsrf \o <<"THROTTLE">>, {"JWT", "CSRF", "THROTTLE"})
    BY DEF List, Has, Ordered, Before, GuardNames, SignedCsrf
  <1> QED
    BY <1>1, <1>2, <1>3, <1>4, <1>5, <1>6, <1>7, <1>8, <1>9

LEMMA RouteProper ==
    ASSUME NEW guards, Ordered(guards), NEW write \in BOOLEAN, NEW scope \in Scopes,
           NEW codes \in SUBSET PermissionCatalog,
           write => Has(guards, "CSRF"),
           scope # "NONE" => Has(guards, "BRANCH"),
           codes # {} => Has(guards, "PERMISSIONS")
    PROVE  Proper(Route(guards, write, scope, codes))
  <1> DEFINE r == Route(guards, write, scope, codes)
  <1>1. r \in RouteRow
    BY DEF Route, RouteRow, Ordered
  <1>2. /\ r.guards = guards /\ (r.write => write) /\ r.scope = scope /\ ~r.super
        /\ r.all \cup r.any = codes /\ r.any \cap DangerousCodes = {} /\ r.asked = {}
        /\ r.audience = "ANY"
    BY DEF Route
  <1> HIDE DEF r
  <1>3. r.all \cup r.any # {} => Has(r.guards, "PERMISSIONS")
    BY <1>2
  <1>4. r.write => Has(r.guards, "CSRF")
    BY <1>2
  <1>5. Proper(r)
    BY <1>1, <1>2, <1>3, <1>4 DEF Proper
  <1>6. QED
    BY <1>5 DEF r

LEMMA ReadProper ==
    ASSUME NEW guards, NEW asked, List(guards, asked), NEW scope \in Scopes,
           NEW codes \in SUBSET PermissionCatalog,
           scope # "NONE" => "BRANCH" \in asked,
           codes # {} => "PERMISSIONS" \in asked
    PROVE  /\ Proper(Read(guards, scope, codes))
           /\ \A g \in asked \cap GuardNames : Has(Read(guards, scope, codes).guards, g)
           /\ Read(guards, scope, codes).scope = scope
  BY RouteProper DEF List, Read, GuardNames, Route

LEMMA WriteProper ==
    ASSUME NEW guards, NEW asked, List(guards, asked), "CSRF" \in asked, NEW scope \in Scopes,
           NEW codes \in SUBSET PermissionCatalog,
           scope # "NONE" => "BRANCH" \in asked,
           codes # {} => "PERMISSIONS" \in asked
    PROVE  /\ Proper(Write(guards, scope, codes))
           /\ \A g \in asked \cap GuardNames : Has(Write(guards, scope, codes).guards, g)
           /\ Write(guards, scope, codes).scope = scope
  BY RouteProper DEF List, Write, GuardNames, Route

\* What the other constructors add has its guard.
LEMMA SuperProper ==
    ASSUME NEW r, Proper(r), Has(r.guards, "SUPER")
    PROVE  Proper(SuperAdminOnly(r)) /\ SuperAdminOnly(r).guards = r.guards
  <1>1. r \in RouteRow
    BY DEF Proper
  <1>2. QED
    BY <1>1 DEF Proper, RouteRow, SuperAdminOnly

LEMMA AnyProper ==
    ASSUME NEW r, Proper(r), Has(r.guards, "PERMISSIONS"),
           NEW codes \in SUBSET PermissionCatalog, codes \cap DangerousCodes = {}
    PROVE  Proper(AnyPermissions(r, codes))
  <1>1. r \in RouteRow
    BY DEF Proper
  <1>2. QED
    BY <1>1 DEF Proper, RouteRow, AnyPermissions

LEMMA AsksProper ==
    ASSUME NEW r, Proper(r), Has(r.guards, "JWT"), NEW codes \in SUBSET PermissionCatalog
    PROVE  /\ Proper(Asks(r, codes))
           /\ Asks(r, codes).guards = r.guards /\ Asks(r, codes).scope = r.scope
  <1>1. r \in RouteRow
    BY DEF Proper
  <1>2. QED
    BY <1>1 DEF Proper, RouteRow, Asks

LEMMA MoreProper ==
    ASSUME NEW r, Proper(r), Has(r.guards, "PERMISSIONS"), NEW codes \in SUBSET PermissionCatalog
    PROVE  Proper([r EXCEPT !.all = @ \cup codes])
  <1>1. r \in RouteRow
    BY DEF Proper
  <1>2. QED
    BY <1>1 DEF Proper, RouteRow

LEMMA ServesProper ==
    ASSUME NEW r, Proper(r), Has(r.guards, "JWT"), NEW who \in {"STAFF", "CUSTOMER", "SUPER_ADMIN"},
           who = "STAFF" => r.scope # "NONE"
    PROVE  Proper(Serves(who, r))
  <1>1. r \in RouteRow
    BY DEF Proper
  <1>2. QED
    BY <1>1 DEF Proper, RouteRow, Serves

LEMMA OfficeTables ==
    \A table \in {AuthController, AuthReads, PasswordRecoveryController,
                  UsersController, RolesController, PermissionsController,
                  BranchesController, BranchAdminsController, StaffCatalogs,
                  StaffAccounts, StaffGrants, StaffPlacement} : AllProper(table)
  <1>1. AllProper(AuthController)
    BY OtherLists, WriteProper DEF AllProper, AuthController, Scopes
  <1>2. AllProper(AuthReads)
    BY OtherLists, ReadProper DEF AllProper, AuthReads, Scopes
  <1>3. AllProper(PasswordRecoveryController)
    BY OtherLists, WriteProper DEF AllProper, PasswordRecoveryController, Scopes
  <1>4. AllProper(UsersController)
    BY Lists, ReadProper, WriteProper, ServesProper
       DEF AllProper, UsersController, AllServe, Scopes, GuardNames, PermissionCatalog,
           OfficeCodes
  <1>5. AllProper(RolesController)
    BY Lists, ReadProper, WriteProper, ServesProper
       DEF AllProper, RolesController, Scopes, GuardNames, PermissionCatalog,
           RoleAndOrderCodes
  <1>6. AllProper(PermissionsController)
    BY Lists, ReadProper, WriteProper, ServesProper
       DEF AllProper, PermissionsController, Scopes, GuardNames, PermissionCatalog,
           RoleAndOrderCodes
  <1>7. AllProper(BranchesController)
    <2>1. /\ {"branches.create"} \in SUBSET PermissionCatalog
          /\ {"branches.delete"} \in SUBSET PermissionCatalog
          /\ {"branches.read"} \in SUBSET PermissionCatalog
          /\ {"branches.update"} \in SUBSET PermissionCatalog
      BY DEF PermissionCatalog, OfficeCodes
    <2>2. QED
      BY <2>1, Lists, ReadProper, WriteProper, ServesProper
         DEF AllProper, BranchesController, Scopes, GuardNames
  <1>8. AllProper(BranchAdminsController)
    <2>1. /\ {"branch_admin.assign", "branches.assign"} \in SUBSET PermissionCatalog
          /\ {"users.read", "branches.read"} \in SUBSET PermissionCatalog
      BY DEF PermissionCatalog, OfficeCodes, RoleAndOrderCodes
    <2>2. /\ Proper(Serves("SUPER_ADMIN",
                            Read(Management, "NONE", {"users.read", "branches.read"})))
          /\ Proper(Serves("SUPER_ADMIN",
                Write(Management, "NONE", {"branch_admin.assign", "branches.assign"})))
      BY <2>1, Lists, ReadProper, WriteProper, ServesProper DEF Scopes, GuardNames
    <2>3. QED
      BY <2>2 DEF AllProper, BranchAdminsController, AllServe
  <1>9. AllProper(StaffCatalogs)
    <2>1. /\ {"staff.assign_permission"} \in SUBSET PermissionCatalog
          /\ {"staff.assign_role"} \in SUBSET PermissionCatalog
          /\ {"staff.create"} \in SUBSET PermissionCatalog
          /\ {"staff.read"} \in SUBSET PermissionCatalog
      BY DEF PermissionCatalog, OfficeCodes
    <2>2. \A codes \in {{}, {"staff.create"}, {"staff.read"}} :
              /\ Proper(Read(Management, "REQUIRED", codes))
              /\ Has(Read(Management, "REQUIRED", codes).guards, "JWT")
              /\ Has(Read(Management, "REQUIRED", codes).guards, "SUPER")
      BY <2>1, Lists, ReadProper DEF Scopes, GuardNames
    <2>3. \A codes \in {{"staff.create"}, {"staff.assign_role"}, {"staff.assign_permission"}} :
              Proper(Asks(Read(Management, "REQUIRED", {}), codes))
      BY <2>1, <2>2, AsksProper
    <2>4. Proper(Serves("SUPER_ADMIN",
              SuperAdminOnly(Read(Management, "REQUIRED", {"staff.create"}))))
      BY <2>2, SuperProper, ServesProper
    <2>5. Proper(Serves("SUPER_ADMIN", Read(Management, "NONE", {"staff.read"})))
      BY <2>1, Lists, ReadProper, ServesProper DEF Scopes, GuardNames
    <2>6. QED
      BY <2>2, <2>3, <2>4, <2>5 DEF AllProper, StaffCatalogs
  <1>10. AllProper(StaffAccounts)
    <2>1. /\ {"staff.assign_branch"} \in SUBSET PermissionCatalog
          /\ {"staff.create", "branches.assign"} \in SUBSET PermissionCatalog
          /\ {"staff.create"} \in SUBSET PermissionCatalog
          /\ {"staff.delete"} \in SUBSET PermissionCatalog
          /\ {"staff.read"} \in SUBSET PermissionCatalog
          /\ {"staff.update"} \in SUBSET PermissionCatalog
      BY DEF PermissionCatalog, OfficeCodes
    <2>2. QED
      BY <2>1, Lists, ReadProper, WriteProper, SuperProper, ServesProper
         DEF AllProper, StaffAccounts, Scopes, GuardNames
  <1>11. AllProper(StaffGrants)
    BY Lists, WriteProper DEF AllProper, StaffGrants, Scopes, PermissionCatalog, OfficeCodes
  <1>12. AllProper(StaffPlacement)
    BY Lists, WriteProper, ServesProper
       DEF AllProper, StaffPlacement, Scopes, GuardNames, PermissionCatalog, OfficeCodes
  <1> QED
    BY <1>1, <1>2, <1>3, <1>4, <1>5, <1>6, <1>7, <1>8, <1>9, <1>10, <1>11, <1>12

LEMMA CatalogTables ==
    \A table \in {AuthorsController, PublishersController,
                  ProductAttributesController, CategoriesController,
                  SuppliersController, ProductsController, ProductOptions,
                  ProductVariants, ProductMediaController, OptionValueImages} : AllProper(table)
  <1>1. AllProper(AuthorsController)
    BY Lists, ReadProper, WriteProper
       DEF AllProper, AuthorsController, Register, Scopes, PermissionCatalog, ShopCodes
  <1>2. AllProper(PublishersController)
    BY Lists, ReadProper, WriteProper
       DEF AllProper, PublishersController, Register, Scopes, PermissionCatalog, ShopCodes
  <1>3. AllProper(ProductAttributesController)
    BY Lists, ReadProper, WriteProper
       DEF AllProper, ProductAttributesController, Register, Scopes, PermissionCatalog,
           ShopCodes
  <1>4. AllProper(CategoriesController)
    BY Lists, ReadProper, WriteProper
       DEF AllProper, CategoriesController, Scopes, PermissionCatalog, ShopCodes
  <1>5. AllProper(SuppliersController)
    BY OtherLists, ReadProper, WriteProper, AnyProper
       DEF AllProper, SuppliersController, Scopes, GuardNames, PermissionCatalog,
           ShopCodes, StockCodes, DangerousCodes
  <1>6. AllProper(ProductsController)
    BY Lists, ReadProper, WriteProper
       DEF AllProper, ProductsController, ProductReads, ProductWrites, Scopes,
           PermissionCatalog, ShopCodes, StockCodes
  <1>7. AllProper(ProductOptions)
    BY Lists, ReadProper, WriteProper
       DEF AllProper, ProductOptions, ProductReads, ProductWrites, Scopes,
           PermissionCatalog, ShopCodes, StockCodes
  <1>8. AllProper(ProductVariants)
    BY Lists, ReadProper, WriteProper
       DEF AllProper, ProductVariants, ProductReads, ProductWrites, Scopes,
           PermissionCatalog, ShopCodes, StockCodes
  <1>9. AllProper(ProductMediaController)
    BY Lists, ReadProper, WriteProper
       DEF AllProper, ProductMediaController, ProductReads, ProductWrites, Scopes,
           PermissionCatalog, ShopCodes, StockCodes
  <1>10. AllProper(OptionValueImages)
    BY Lists, WriteProper
       DEF AllProper, OptionValueImages, ProductWrites, Scopes, PermissionCatalog,
           StockCodes
  <1> QED
    BY <1>1, <1>2, <1>3, <1>4, <1>5, <1>6, <1>7, <1>8, <1>9, <1>10

LEMMA StockTables ==
    \A table \in {InventoryController, StockReceiptsController,
                  AdminOrdersController, DashboardController,
                  RevenueReportsController, VietMapController,
                  AdminReviewsController, CartController, CheckoutController,
                  CustomerAccountController} : AllProper(table)
  <1>1. AllProper(InventoryController)
    BY Lists, ReadProper, WriteProper, AnyProper
       DEF AllProper, InventoryController, Scopes, GuardNames, PermissionCatalog,
           ShopCodes, StockCodes, DangerousCodes
  <1>2. AllProper(StockReceiptsController)
    BY Lists, ReadProper, WriteProper
       DEF AllProper, StockReceiptsController, Scopes, PermissionCatalog, StockCodes
  <1>3. AllProper(AdminOrdersController)
    BY Lists, ReadProper, WriteProper, AsksProper, ServesProper
       DEF AllProper, AdminOrdersController, OrderWrite, Scopes, GuardNames,
           PermissionCatalog, RoleAndOrderCodes
  <1>4. AllProper(DashboardController)
    BY Lists, ReadProper
       DEF AllProper, DashboardController, Scopes, PermissionCatalog, OfficeCodes
  <1>5. AllProper(RevenueReportsController)
    <2> DEFINE reports == Read(Scoped, "OPTIONAL", {"reports.revenue.read"})
    <2>1. /\ {"reports.revenue.read"} \in SUBSET PermissionCatalog
          /\ {"reports.export"} \in SUBSET PermissionCatalog
      BY DEF PermissionCatalog, OfficeCodes
    <2>2. Proper(reports) /\ Has(reports.guards, "PERMISSIONS")
      BY <2>1, Lists, ReadProper DEF Scopes, GuardNames
    <2>3. Proper([reports EXCEPT !.all = @ \cup {"reports.export"}])
      BY <2>1, <2>2, MoreProper
    <2>4. QED
      BY <2>2, <2>3 DEF AllProper, RevenueReportsController
  <1>6. AllProper(VietMapController)
    BY OtherLists, ReadProper
       DEF AllProper, VietMapController, Scopes, PermissionCatalog, OfficeCodes
  <1>7. AllProper(AdminReviewsController)
    BY OtherLists, ReadProper, WriteProper, SuperProper
       DEF AllProper, AdminReviewsController, Scopes, GuardNames
  <1>8. AllProper(CartController)
    BY Lists, ReadProper, WriteProper, ServesProper
       DEF AllProper, CartController, CustomerWrites, CustomerReads, Scopes, GuardNames
  <1>9. AllProper(CheckoutController)
    BY Lists, OtherLists, ReadProper, WriteProper, ServesProper
       DEF AllProper, CheckoutController, CustomerWrites, Scopes, GuardNames
  <1>10. AllProper(CustomerAccountController)
    BY Lists, ReadProper, WriteProper, ServesProper
       DEF AllProper, CustomerAccountController, CustomerWrites, CustomerReads, Scopes,
           GuardNames
  <1> QED
    BY <1>1, <1>2, <1>3, <1>4, <1>5, <1>6, <1>7, <1>8, <1>9, <1>10

LEMMA CustomerTables ==
    \A table \in {CustomerAddressesController, CustomerReviewsController,
                  WishlistsController, AccountDashboardController,
                  CustomerOrdersController, PaymentsController,
                  PaymentTransactionsController, StorefrontCatalogController,
                  StorefrontBranchesController, PublicReviewsController,
                  HealthController} : AllProper(table)
  <1>1. AllProper(CustomerAddressesController)
    BY Lists, ReadProper, WriteProper, ServesProper
       DEF AllProper, CustomerAddressesController, CustomerWrites, CustomerReads, Scopes,
           GuardNames
  <1>2. AllProper(CustomerReviewsController)
    BY Lists, ReadProper, WriteProper, ServesProper
       DEF AllProper, CustomerReviewsController, CustomerWrites, CustomerReads, Scopes,
           GuardNames
  <1>3. AllProper(WishlistsController)
    BY Lists, ReadProper, WriteProper, ServesProper
       DEF AllProper, WishlistsController, CustomerWrites, CustomerReads, Scopes, GuardNames
  <1>4. AllProper(AccountDashboardController)
    BY Lists, ReadProper, ServesProper
       DEF AllProper, AccountDashboardController, Scopes, GuardNames
  <1>5. AllProper(CustomerOrdersController)
    BY Lists, ReadProper, WriteProper DEF AllProper, CustomerOrdersController, Scopes
  <1>6. AllProper(PaymentsController)
    BY Lists, ReadProper, WriteProper DEF AllProper, PaymentsController, Scopes
  <1>7. AllProper(PaymentTransactionsController)
    BY Lists, WriteProper DEF AllProper, PaymentTransactionsController, Scopes
  <1>8. AllProper(StorefrontCatalogController)
    BY Lists, ReadProper DEF AllProper, StorefrontCatalogController, Scopes
  <1>9. AllProper(StorefrontBranchesController)
    BY Lists, ReadProper DEF AllProper, StorefrontBranchesController, Scopes
  <1>10. AllProper(PublicReviewsController)
    BY Lists, ReadProper DEF AllProper, PublicReviewsController, Scopes
  <1>11. AllProper(HealthController)
    BY Lists, ReadProper DEF AllProper, HealthController, Scopes
  <1> QED
    BY <1>1, <1>2, <1>3, <1>4, <1>5, <1>6, <1>7, <1>8, <1>9, <1>10, <1>11

LEMMA RoutesProper == \A r \in Routes : Proper(r)
  BY OfficeTables, CatalogTables, StockTables, CustomerTables
     DEF Routes, Controllers, AllProper

-----------------------------------------------------------------------------
(* One request.  Before JwtAccessGuard it is nobody's; from then on its      *)
(* seats are what the tables said (and still say, while it is quiet), and    *)
(* every guard behind it has established its part.                           *)

Cleared(q, g) == \E i \in 1 .. q.passed : q.route.guards[i] = g

\* What the caller may do, and whether the branch is within his reach, by the
\* seats of the request.
SeatCodes(q) ==
    IF q.caller = "SUPER_ADMIN" THEN PermissionCatalog
    ELSE IF q.caller = "CUSTOMER" THEN RoleCodes["CUSTOMER"]
    ELSE IF q.caller = "BRANCH_USER" /\ q.route.scope # "NONE" /\ q.header \in Branches
         THEN CodesOfRole(q.seats[q.header])
    ELSE {}

SeatScope(q) ==
    q.route.scope # "NONE" =>
        /\ q.caller \in {"BRANCH_USER", "SUPER_ADMIN"}
        /\ q.header # "MALFORMED"
        /\ q.route.scope = "REQUIRED" => q.header # "NONE"
        /\ q.header \in Branches =>
               openAt[q.header] /\ (q.caller = "BRANCH_USER" => q.seats[q.header] # NoRole)

Granted(q) ==
    /\ AudienceRespected(q)
    /\ q.route.all \cup q.route.asked \subseteq SeatCodes(q)
    /\ q.route.any # {} => q.route.any \cap SeatCodes(q) # {}

Permits(q) ==
    \/ q.acting = "SUPER_ADMIN"
    \/ /\ q.route.all \subseteq CodesOfRole(q.acting)
       /\ q.route.any # {} => q.route.any \cap CodesOfRole(q.acting) # {}

\* Whose permissions count.
ActingRight(q) ==
    /\ ~Cleared(q, "JWT") => q.acting = NoRole
    /\ Cleared(q, "JWT") =>
          /\ q.caller # "NOBODY"
          /\ q.caller # "BRANCH_USER" => q.acting = q.caller
          /\ q.caller = "BRANCH_USER" =>
                q.acting = IF Cleared(q, "BRANCH") /\ q.route.scope # "NONE" /\ q.header \in Branches
                           THEN q.seats[q.header] ELSE NoRole

\* Whether it was right to let the caller in: what is still to be looked at.
LetIn(q) ==
    /\ ~Has(q.route.guards, "JWT") => q.rightful
    /\ Cleared(q, "JWT") /\ (Cleared(q, "BRANCH") \/ SeatScope(q)) /\ Granted(q) => q.rightful

Established(q) ==
    /\ Cleared(q, "SUPER") /\ q.route.super => q.acting = "SUPER_ADMIN"
    /\ Cleared(q, "CSRF") /\ q.route.write => q.token
    /\ Cleared(q, "BRANCH") /\ q.route.scope # "NONE" => q.caller # "CUSTOMER"
    /\ Cleared(q, "PERMISSIONS") => Permits(q)

Concluded(q) ==
    /\ q.outcome = "HANDLED" => q.passed = Len(q.route.guards) /\ Served(q)
    /\ q.outcome \in TurnedAway /\ q.quiet => ~Rightful(q)

UpToDateSeats(q) ==
    q.quiet /\ Cleared(q, "JWT") /\ q.caller = "BRANCH_USER" => q.seats = SeatsInForce

RequestInv(q) ==
    /\ q \in Incoming /\ q.passed <= Len(q.route.guards)
    /\ ActingRight(q) /\ LetIn(q) /\ Established(q) /\ Concluded(q) /\ UpToDateSeats(q)

AccessInv == AccessTypeOK /\ \A q \in incoming : RequestInv(q)

-----------------------------------------------------------------------------
LEMMA RoleFacts ==
    /\ "SUPER_ADMIN" \notin PostRoles \cup {NoRole} /\ "CUSTOMER" \notin PostRoles \cup {NoRole}
    /\ CodesOfRole("SUPER_ADMIN") = PermissionCatalog
    /\ CodesOfRole("CUSTOMER") = RoleCodes["CUSTOMER"]
    /\ CodesOfRole(NoRole) = {}
    /\ \A r \in PostRoles \cup {NoRole, "CUSTOMER"} : CodesOfRole(r) \cap DangerousCodes = {}
  <1>1. /\ DOMAIN RoleCodes = {"BRANCH_ADMIN", "STAFF", "CASHIER", "INVENTORY", "CUSTOMER"}
        /\ \A r \in DOMAIN RoleCodes : RoleCodes[r] \cap DangerousCodes = {}
    BY DEF RoleCodes, DangerousCodes, FigureCodes, OrderCodes, InventoryCodes
  <1>2. QED
    BY <1>1, AccessAssumption DEF CodesOfRole

LEMMA RouteFacts ==
    ASSUME NEW q \in Incoming
    PROVE  /\ Proper(q.route) /\ q.route \in RouteRow
           /\ q.route.guards \in Seq(GuardNames) /\ Len(q.route.guards) \in Nat
           /\ q.passed \in Nat
           /\ DOMAIN q.route.guards = 1 .. Len(q.route.guards)
  <1>1. q.route \in Routes /\ q.passed \in Nat
    BY DEF Incoming
  <1>2. Proper(q.route)
    BY <1>1, RoutesProper
  <1>3. QED
    BY <1>1, <1>2 DEF Proper, Ordered

\* The guard that is due is the next one of the list.
LEMMA DueNext ==
    ASSUME NEW q \in Incoming, NEW g, Due(q, g)
    PROVE  /\ q.outcome = "PENDING" /\ q.passed < Len(q.route.guards)
           /\ q.route.guards[q.passed + 1] = g
  BY RouteFacts DEF Due, Left, RouteOf

LEMMA NoneLeft ==
    ASSUME NEW q \in Incoming, q.passed <= Len(q.route.guards), Left(q) = <<>>
    PROVE  /\ q.passed = Len(q.route.guards)
           /\ \A g : Has(q.route.guards, g) => Cleared(q, g)
  <1>1. q.passed = Len(q.route.guards)
    <2>1. /\ q.route.guards \in Seq(GuardNames) /\ q.passed \in Nat
          /\ Len(q.route.guards) \in Nat
      BY RouteFacts
    <2>2. Len(SubSeq(q.route.guards, q.passed + 1, Len(q.route.guards)))
             = Len(q.route.guards) - q.passed
      BY <2>1
    <2>3. SubSeq(q.route.guards, q.passed + 1, Len(q.route.guards)) = <<>>
      BY DEF Left, RouteOf
    <2>4. Len(q.route.guards) - q.passed = 0
      BY <2>2, <2>3
    <2>5. QED
      BY <2>1, <2>4
  <1>2. QED
    BY <1>1, RouteFacts DEF Has, Cleared

LEMMA ClearedOnce ==
    ASSUME NEW q \in Incoming, NEW g, Due(q, g), NEW next, next.route = q.route,
           next.passed = q.passed + 1
    PROVE  /\ \A h : Cleared(next, h) <=> Cleared(q, h) \/ h = g
           /\ ~Cleared(q, g)
           /\ g \in {"SUPER", "BRANCH", "PERMISSIONS"} => Cleared(q, "JWT")
           /\ g = "JWT" => ~Cleared(next, "SUPER") /\ ~Cleared(next, "BRANCH")
                           /\ ~Cleared(next, "PERMISSIONS")
           /\ g = "BRANCH" => ~Cleared(next, "PERMISSIONS")
           /\ g = "PERMISSIONS" /\ Has(q.route.guards, "BRANCH") => Cleared(q, "BRANCH")
  <1> DEFINE guards == q.route.guards
             n == q.passed
  <1>1. /\ n \in Nat /\ Len(guards) \in Nat /\ n < Len(guards) /\ guards[n + 1] = g
        /\ DOMAIN guards = 1 .. Len(guards) /\ Ordered(guards)
    BY DueNext, RouteFacts DEF Proper
  <1>2. \A h : Cleared(next, h) <=> \E i \in 1 .. (n + 1) : guards[i] = h
    BY DEF Cleared
  <1>3. \A h : Cleared(q, h) <=> \E i \in 1 .. n : guards[i] = h
    BY DEF Cleared
  <1>4. /\ \A i, j \in 1 .. Len(guards) : guards[i] = guards[j] => i = j
        /\ \A h \in {"SUPER", "BRANCH", "PERMISSIONS"} : \A j \in 1 .. Len(guards) :
              guards[j] = h => \E i \in 1 .. Len(guards) : i < j /\ guards[i] = "JWT"
        /\ \A i, j \in 1 .. Len(guards) :
              guards[i] = "BRANCH" /\ guards[j] = "PERMISSIONS" => i < j
    BY <1>1 DEF Ordered, Before
  <1>5. Has(guards, "BRANCH") <=> \E i \in 1 .. Len(guards) : guards[i] = "BRANCH"
    BY <1>1 DEF Has
  <1> HIDE DEF guards, n
  <1>6. \A h : Cleared(next, h) <=> Cleared(q, h) \/ h = g
    BY <1>1, <1>2, <1>3
  <1>7. ~Cleared(q, g)
    BY <1>1, <1>3, <1>4
  <1>8. g \in {"SUPER", "BRANCH", "PERMISSIONS"} => Cleared(q, "JWT")
    BY <1>1, <1>3, <1>4
  <1>9. g = "JWT" => \A h \in {"SUPER", "BRANCH", "PERMISSIONS"} : ~Cleared(next, h)
    BY <1>1, <1>2, <1>4
  <1>10. g = "BRANCH" => ~Cleared(next, "PERMISSIONS")
    BY <1>1, <1>2, <1>4
  <1>11. g = "PERMISSIONS" /\ Has(guards, "BRANCH") => Cleared(q, "BRANCH")
    BY <1>1, <1>3, <1>4, <1>5
  <1>12. QED
    BY <1>6, <1>7, <1>8, <1>9, <1>10, <1>11 DEF guards

\* Nobody but a Super Admin acts as one.
LEMMA ActsAsHimself ==
    ASSUME NEW q \in Incoming, ActingRight(q), Cleared(q, "JWT")
    PROVE  /\ q.caller \in {"CUSTOMER", "BRANCH_USER", "SUPER_ADMIN"}
           /\ q.acting = "SUPER_ADMIN" <=> q.caller = "SUPER_ADMIN"
           /\ q.acting = "CUSTOMER" <=> q.caller = "CUSTOMER"
           /\ q.acting \in PostRoles \cup {NoRole, "CUSTOMER", "SUPER_ADMIN"}
  <1>1. /\ q.caller \in Callers /\ q.seats \in [Branches -> PostRoles \cup {NoRole}]
        /\ q.acting \in PostRoles \cup {NoRole, "CUSTOMER", "SUPER_ADMIN"}
    BY DEF Incoming
  <1>2. QED
    BY <1>1, RoleFacts DEF ActingRight, Callers

\* Once the branch is settled, whose permissions count are those of the seats.
LEMMA ActingCodes ==
    ASSUME NEW q \in Incoming, ActingRight(q), Cleared(q, "JWT"),
           q.route.scope # "NONE" => Cleared(q, "BRANCH")
    PROVE  CodesOfRole(q.acting) = SeatCodes(q)
  BY ActsAsHimself, RoleFacts DEF ActingRight, SeatCodes

\* A step that clears a guard and changes nothing else of the request.
LEMMA Passing ==
    ASSUME NEW q \in incoming, RequestInv(q), NEW g \in GuardNames \ {"JWT", "BRANCH"}, Due(q, g),
           g = "SUPER" /\ q.route.super => q.acting = "SUPER_ADMIN",
           g = "CSRF" /\ q.route.write => q.token,
           g = "PERMISSIONS" => Permits(q)
    PROVE  RequestInv([q EXCEPT !.passed = @ + 1])
  <1> DEFINE next == [q EXCEPT !.passed = @ + 1]
  <1>1. /\ q \in Incoming /\ q.outcome = "PENDING" /\ q.passed < Len(q.route.guards)
        /\ q.passed \in Nat /\ Len(q.route.guards) \in Nat /\ Len(q.route.guards) <= 5
    BY DueNext, RouteFacts DEF RequestInv, Proper, Ordered
  <1>2. next \in Incoming
    BY <1>1 DEF Incoming
  <1>3. /\ next.route = q.route /\ next.passed = q.passed + 1 /\ next.caller = q.caller
        /\ next.header = q.header /\ next.token = q.token /\ next.seats = q.seats
        /\ next.acting = q.acting /\ next.outcome = q.outcome /\ next.rightful = q.rightful
        /\ next.quiet = q.quiet
    BY <1>1 DEF Incoming
  <1> HIDE DEF next
  <1>4. \A h : Cleared(next, h) <=> Cleared(q, h) \/ h = g
    BY <1>1, <1>3, ClearedOnce
  <1>5. ActingRight(next) /\ UpToDateSeats(next)
    BY <1>3, <1>4 DEF RequestInv, ActingRight, UpToDateSeats
  <1>6. (SeatScope(next) <=> SeatScope(q)) /\ (Granted(next) <=> Granted(q))
    BY <1>3 DEF SeatScope, Granted, SeatCodes, AudienceRespected, RouteOf
  <1>7. LetIn(next)
    BY <1>3, <1>4, <1>6 DEF RequestInv, LetIn
  <1>8. Established(next)
    BY <1>3, <1>4 DEF RequestInv, Established, Permits
  <1>9. Concluded(next)
    BY <1>1, <1>3 DEF Concluded, TurnedAway
  <1>10. RequestInv(next)
    BY <1>1, <1>2, <1>3, <1>5, <1>7, <1>8, <1>9 DEF RequestInv
  <1>11. QED
    BY <1>10 DEF next

\* A step that answers.
LEMMA Stopping ==
    ASSUME NEW q \in incoming, RequestInv(q), NEW why \in Outcomes,
           why = "HANDLED" => q.passed = Len(q.route.guards) /\ Served(q),
           why \in TurnedAway /\ q.quiet => ~Rightful(q)
    PROVE  RequestInv([q EXCEPT !.outcome = why])
  <1> DEFINE next == [q EXCEPT !.outcome = why]
  <1>1. q \in Incoming
    BY DEF RequestInv
  <1>2. next \in Incoming
    BY <1>1 DEF Incoming
  <1>3. /\ next.route = q.route /\ next.passed = q.passed /\ next.caller = q.caller
        /\ next.header = q.header /\ next.token = q.token /\ next.seats = q.seats
        /\ next.acting = q.acting /\ next.outcome = why /\ next.rightful = q.rightful
        /\ next.quiet = q.quiet
    BY <1>1 DEF Incoming
  <1> HIDE DEF next
  <1>4. \A h : Cleared(next, h) <=> Cleared(q, h)
    BY <1>3 DEF Cleared
  <1>5. ActingRight(next) /\ UpToDateSeats(next)
    BY <1>3, <1>4 DEF RequestInv, ActingRight, UpToDateSeats
  <1>6. (SeatScope(next) <=> SeatScope(q)) /\ (Granted(next) <=> Granted(q))
    BY <1>3 DEF SeatScope, Granted, SeatCodes, AudienceRespected, RouteOf
  <1>7. LetIn(next)
    BY <1>3, <1>4, <1>6 DEF RequestInv, LetIn
  <1>8. Established(next)
    BY <1>3, <1>4 DEF RequestInv, Established, Permits
  <1>9. (Served(next) <=> Served(q)) /\ (Rightful(next) <=> Rightful(q))
    BY <1>3 DEF Served, RouteOf, Rightful, ScopeRespected, AudienceRespected, PermissionsHeld,
                Entitlement
  <1>10. Concluded(next)
    BY <1>3, <1>9 DEF Concluded
  <1>11. RequestInv(next)
    BY <1>2, <1>3, <1>5, <1>7, <1>8, <1>10 DEF RequestInv
  <1>12. QED
    BY <1>11 DEF next

\* JwtAccessGuard: the seats are what the tables say, and so is who is let in.
LEMMA Authenticating ==
    ASSUME NEW q \in incoming, RequestInv(q), Due(q, "JWT"), q.caller # "NOBODY", AccessTypeOK
    PROVE  RequestInv(Authenticated(q))
  <1> DEFINE next == Authenticated(q)
  <1>1. /\ q \in Incoming /\ q.outcome = "PENDING" /\ q.passed < Len(q.route.guards)
        /\ q.passed \in Nat /\ Len(q.route.guards) \in Nat /\ Len(q.route.guards) <= 5
        /\ q.route.guards[q.passed + 1] = "JWT" /\ q.caller \in Callers
        /\ DOMAIN q.route.guards = 1 .. Len(q.route.guards)
    BY DueNext, RouteFacts DEF RequestInv, Proper, Ordered, Incoming
  <1>2. SeatsInForce \in [Branches -> PostRoles \cup {NoRole}] /\ Rightful(q) \in BOOLEAN
    BY DEF AccessTypeOK, SeatsInForce, Rightful
  <1>3. next \in Incoming
    <2> DEFINE seats == IF q.caller = "BRANCH_USER" THEN SeatsInForce ELSE q.seats
               acting == IF q.caller = "BRANCH_USER" THEN NoRole ELSE q.caller
    <2>1. /\ seats \in [Branches -> PostRoles \cup {NoRole}]
          /\ acting \in PostRoles \cup {NoRole, "CUSTOMER", "SUPER_ADMIN"}
          /\ q.passed + 1 \in 0 .. 5
      BY <1>1, <1>2 DEF Incoming, Callers
    <2>2. next = [q EXCEPT !.passed = @ + 1, !.seats = seats, !.acting = acting,
                           !.rightful = Rightful(q)]
      BY DEF Authenticated
    <2> HIDE DEF seats, acting, next
    <2>3. QED
      BY <1>1, <1>2, <2>1, <2>2 DEF Incoming
  <1>4. /\ next.route = q.route /\ next.passed = q.passed + 1 /\ next.caller = q.caller
        /\ next.header = q.header /\ next.token = q.token
        /\ next.outcome = q.outcome /\ next.quiet = q.quiet
        /\ q.caller = "BRANCH_USER" => next.seats = SeatsInForce /\ next.acting = NoRole
        /\ q.caller # "BRANCH_USER" => next.acting = q.caller
        /\ next.rightful <=> Rightful(q)
    BY <1>1 DEF Incoming, Authenticated
  <1> HIDE DEF next
  <1>5. /\ \A h : Cleared(next, h) <=> Cleared(q, h) \/ h = "JWT"
        /\ ~Cleared(next, "SUPER") /\ ~Cleared(next, "BRANCH") /\ ~Cleared(next, "PERMISSIONS")
    BY <1>1, <1>4, ClearedOnce
  <1>6. ActingRight(next) /\ UpToDateSeats(next)
    BY <1>1, <1>4, <1>5 DEF ActingRight, UpToDateSeats
  <1>7. Has(q.route.guards, "JWT")
    BY <1>1 DEF Has
  <1>8. ASSUME SeatScope(next), Granted(next)
        PROVE  Rightful(q)
    <2>1. ScopeRespected(q)
      BY <1>4, <1>8 DEF SeatScope, ScopeRespected, RouteOf, SeatsInForce
    <2>2. SeatCodes(next) = Entitlement(q)
      BY <1>4, <1>8 DEF SeatScope, SeatCodes, Entitlement, RouteOf, SeatsInForce, Employed
    <2>3. AudienceRespected(q)
      BY <1>4, <1>8 DEF Granted, AudienceRespected, RouteOf
    <2>4. PermissionsHeld(q)
      BY <1>4, <1>8, <2>2 DEF Granted, PermissionsHeld, RouteOf
    <2>5. QED
      BY <1>1, <2>1, <2>3, <2>4 DEF Rightful
  <1>9. LetIn(next)
    BY <1>4, <1>5, <1>7, <1>8 DEF LetIn
  <1>10. Established(next)
    BY <1>4, <1>5 DEF RequestInv, Established
  <1>11. Concluded(next)
    BY <1>1, <1>4 DEF Concluded, TurnedAway
  <1>12. RequestInv(next)
    BY <1>1, <1>3, <1>4, <1>6, <1>9, <1>10, <1>11 DEF RequestInv
  <1>13. QED
    BY <1>12 DEF next

\* BranchScopeGuard, where it lets a request pass.
LEMMA Selecting ==
    ASSUME NEW q \in incoming, RequestInv(q), Due(q, "BRANCH"), SeatScope(q),
           NEW acting,
           acting = IF q.caller = "BRANCH_USER" /\ q.route.scope # "NONE" /\ q.header \in Branches
                    THEN q.seats[q.header] ELSE q.acting
    PROVE  RequestInv([q EXCEPT !.passed = @ + 1, !.acting = acting])
  <1> DEFINE next == [q EXCEPT !.passed = @ + 1, !.acting = acting]
  <1>1. /\ q \in Incoming /\ q.outcome = "PENDING" /\ q.passed < Len(q.route.guards)
        /\ q.passed \in Nat /\ Len(q.route.guards) \in Nat /\ Len(q.route.guards) <= 5
        /\ q.seats \in [Branches -> PostRoles \cup {NoRole}]
    BY DueNext, RouteFacts DEF RequestInv, Proper, Ordered, Incoming
  <1>2. next \in Incoming
    <2>1. acting \in PostRoles \cup {NoRole, "CUSTOMER", "SUPER_ADMIN"}
      BY <1>1 DEF Incoming
    <2>2. q.passed + 1 \in 0 .. 5
      BY <1>1
    <2>3. QED
      BY <1>1, <2>1, <2>2 DEF Incoming
  <1>3. /\ next.route = q.route /\ next.passed = q.passed + 1 /\ next.caller = q.caller
        /\ next.header = q.header /\ next.token = q.token /\ next.seats = q.seats
        /\ next.acting = acting /\ next.outcome = q.outcome /\ next.rightful = q.rightful
        /\ next.quiet = q.quiet
    BY <1>1 DEF Incoming
  <1> HIDE DEF next
  <1>4. /\ \A h : Cleared(next, h) <=> Cleared(q, h) \/ h = "BRANCH"
        /\ ~Cleared(q, "BRANCH") /\ Cleared(q, "JWT") /\ ~Cleared(next, "PERMISSIONS")
    BY <1>1, <1>3, ClearedOnce
  <1>5. ActingRight(next) /\ UpToDateSeats(next)
    BY <1>3, <1>4 DEF RequestInv, ActingRight, UpToDateSeats
  <1>6. Granted(next) <=> Granted(q)
    BY <1>3 DEF Granted, SeatCodes, AudienceRespected, RouteOf
  <1>7. LetIn(next)
    BY <1>3, <1>4, <1>6 DEF RequestInv, LetIn
  <1>8. Established(next)
    <2>1. q.acting = "SUPER_ADMIN" => acting = "SUPER_ADMIN"
      BY <1>1, <1>4, ActsAsHimself DEF RequestInv
    <2>2. q.route.scope # "NONE" => q.caller # "CUSTOMER"
      BY DEF SeatScope
    <2>3. QED
      BY <1>3, <1>4, <2>1, <2>2 DEF RequestInv, Established
  <1>9. Concluded(next)
    BY <1>1, <1>3 DEF Concluded, TurnedAway
  <1>10. RequestInv(next)
    BY <1>1, <1>2, <1>3, <1>5, <1>7, <1>8, <1>9 DEF RequestInv
  <1>11. QED
    BY <1>10 DEF next

-----------------------------------------------------------------------------
(* A request that is turned away in quiet had no right. *)

\* In quiet the seats are the tables.
LEMMA QuietCodes ==
    ASSUME NEW q \in incoming, RequestInv(q), q.quiet, Cleared(q, "JWT"), ScopeRespected(q)
    PROVE  Entitlement(q) = SeatCodes(q)
  BY DEF RequestInv, UpToDateSeats, ScopeRespected, Entitlement, SeatCodes, RouteOf,
         SeatsInForce, Employed

LEMMA BehindJwt ==
    ASSUME NEW q \in Incoming, NEW g \in {"SUPER", "BRANCH", "PERMISSIONS"}, Due(q, g)
    PROVE  Cleared(q, "JWT")
  <1>1. /\ [q EXCEPT !.passed = @ + 1].route = q.route
        /\ [q EXCEPT !.passed = @ + 1].passed = q.passed + 1
    BY DEF Incoming
  <1>2. QED
    BY <1>1, ClearedOnce

LEMMA NotSuper ==
    ASSUME NEW q \in incoming, RequestInv(q), Due(q, "SUPER"), q.route.super,
           q.acting # "SUPER_ADMIN"
    PROVE  ~Rightful(q)
  <1>1. Cleared(q, "JWT") /\ q \in Incoming
    <2>1. q \in Incoming
      BY DEF RequestInv
    <2>2. QED
      BY <2>1, BehindJwt
  <1>2. q.caller # "SUPER_ADMIN"
    BY <1>1, ActsAsHimself DEF RequestInv
  <1>3. QED
    BY <1>2 DEF Rightful, AudienceRespected, RouteOf

LEMMA NotPermitted ==
    ASSUME NEW q \in incoming, RequestInv(q), Due(q, "PERMISSIONS"), ~Permits(q), q.quiet
    PROVE  ~Rightful(q)
  <1> SUFFICES ASSUME Rightful(q) PROVE FALSE
    OBVIOUS
  <1>1. /\ q \in Incoming /\ Cleared(q, "JWT")
        /\ q.route.scope # "NONE" => Cleared(q, "BRANCH")
    <2>1. q \in Incoming /\ Proper(q.route)
      BY RouteFacts DEF RequestInv
    <2>2. /\ [q EXCEPT !.passed = @ + 1].route = q.route
          /\ [q EXCEPT !.passed = @ + 1].passed = q.passed + 1
      BY <2>1 DEF Incoming
    <2>3. QED
      BY <2>1, <2>2, ClearedOnce DEF Proper
  <1>2. ScopeRespected(q) /\ PermissionsHeld(q)
    BY DEF Rightful
  <1>3. Entitlement(q) = CodesOfRole(q.acting)
    BY <1>1, <1>2, QuietCodes, ActingCodes DEF RequestInv
  <1>4. QED
    BY <1>2, <1>3 DEF PermissionsHeld, Permits, RouteOf

LEMMA NotInReach ==
    ASSUME NEW q \in incoming, RequestInv(q), Due(q, "BRANCH"), q.quiet, ~SeatScope(q)
    PROVE  ~Rightful(q)
  <1>1. Cleared(q, "JWT")
    BY BehindJwt DEF RequestInv
  <1>2. ScopeRespected(q) => SeatScope(q)
    BY <1>1 DEF RequestInv, UpToDateSeats, ScopeRespected, SeatScope, RouteOf, SeatsInForce,
                Employed
  <1>3. QED
    BY <1>2 DEF Rightful

\* At the end of the list: whom the service serves, and nobody else, was let in
\* by right.
LEMMA AtTheEnd ==
    ASSUME NEW q \in incoming, RequestInv(q), Left(q) = <<>>, Cleared(q, "JWT")
    PROVE  /\ q.route.scope # "NONE" => Cleared(q, "BRANCH")
           /\ CodesOfRole(q.acting) = SeatCodes(q)
           /\ \A g : Has(q.route.guards, g) => Cleared(q, g)
  <1>1. q \in Incoming /\ Proper(q.route)
    BY RouteFacts DEF RequestInv
  <1>2. \A g : Has(q.route.guards, g) => Cleared(q, g)
    BY <1>1, NoneLeft DEF RequestInv
  <1>3. q.route.scope # "NONE" => Cleared(q, "BRANCH")
    BY <1>1, <1>2 DEF Proper
  <1>4. QED
    BY <1>1, <1>2, <1>3, ActingCodes DEF RequestInv

LEMMA NotServed ==
    ASSUME NEW q \in incoming, RequestInv(q), Left(q) = <<>>, ~Served(q), q.quiet
    PROVE  ~Rightful(q)
  <1> SUFFICES ASSUME Rightful(q) PROVE FALSE
    OBVIOUS
  <1>1. /\ q \in Incoming /\ Proper(q.route)
        /\ ScopeRespected(q) /\ AudienceRespected(q) /\ PermissionsHeld(q)
    BY RouteFacts DEF RequestInv, Rightful
  <1>2. Cleared(q, "JWT")
    <2>1. q.route.asked # {} \/ q.route.audience # "ANY"
      BY <1>1 DEF Served, RouteOf
    <2>2. QED
      BY <1>1, <2>1, NoneLeft DEF Proper, RequestInv
  <1>3. Entitlement(q) = CodesOfRole(q.acting)
    BY <1>1, <1>2, QuietCodes, AtTheEnd
  <1>4. q.acting = "SUPER_ADMIN" \/ q.route.asked \subseteq CodesOfRole(q.acting)
    BY <1>1, <1>3 DEF PermissionsHeld, RouteOf
  <1>5. /\ q.acting = "SUPER_ADMIN" <=> q.caller = "SUPER_ADMIN"
        /\ q.acting = "CUSTOMER" <=> q.caller = "CUSTOMER"
    BY <1>1, <1>2, ActsAsHimself DEF RequestInv
  <1>6. QED
    BY <1>1, <1>4, <1>5 DEF Served, AudienceRespected, RouteOf

LEMMA ServedByRight ==
    ASSUME NEW q \in incoming, RequestInv(q), q.passed = Len(q.route.guards), Served(q)
    PROVE  q.rightful
  <1>1. /\ q \in Incoming /\ Proper(q.route) /\ q.route \in RouteRow
        /\ DOMAIN q.route.guards = 1 .. q.passed
    BY RouteFacts DEF RequestInv
  <1>2. \A g : Has(q.route.guards, g) <=> Cleared(q, g)
    BY <1>1 DEF Has, Cleared
  <1>3. CASE ~Has(q.route.guards, "JWT")
    BY <1>3 DEF RequestInv, LetIn
  <1>4. CASE Has(q.route.guards, "JWT")
    <2>1. Cleared(q, "JWT") /\ (q.route.scope # "NONE" => Cleared(q, "BRANCH"))
      BY <1>1, <1>2, <1>4 DEF Proper
    <2>2. CodesOfRole(q.acting) = SeatCodes(q)
      BY <1>1, <2>1, ActingCodes DEF RequestInv
    <2>3. /\ q.acting = "SUPER_ADMIN" <=> q.caller = "SUPER_ADMIN"
          /\ q.acting = "CUSTOMER" <=> q.caller = "CUSTOMER"
          /\ q.caller \in {"CUSTOMER", "BRANCH_USER", "SUPER_ADMIN"}
      BY <1>1, <2>1, ActsAsHimself DEF RequestInv
    <2>4. q.acting = "SUPER_ADMIN" => SeatCodes(q) = PermissionCatalog
      BY <2>3 DEF SeatCodes
    <2>5. q.route.all \cup q.route.any # {} => Permits(q)
      BY <1>1, <1>2 DEF Proper, RequestInv, Established
    <2>6. /\ q.route.all \subseteq PermissionCatalog /\ q.route.any \subseteq PermissionCatalog
          /\ q.route.asked \subseteq PermissionCatalog
      BY <1>1 DEF RouteRow
    <2>7. /\ q.route.all \subseteq SeatCodes(q)
          /\ q.route.any # {} => q.route.any \cap SeatCodes(q) # {}
      BY <2>2, <2>4, <2>5, <2>6 DEF Permits
    <2>8. q.route.asked \subseteq SeatCodes(q)
      BY <2>2, <2>4, <2>6 DEF Served, RouteOf
    <2>9. AudienceRespected(q)
      <3>1. q.route.super => q.caller = "SUPER_ADMIN"
        BY <1>1, <1>2, <2>3 DEF Proper, RequestInv, Established
      <3>2. q.route.audience = "STAFF" => q.caller = "BRANCH_USER"
        BY <1>1, <1>2, <2>3 DEF Served, RouteOf, Proper, RequestInv, Established
      <3>3. q.route.audience \in {"CUSTOMER", "SUPER_ADMIN"} => q.caller = q.route.audience
        BY <2>3 DEF Served, RouteOf
      <3>4. QED
        BY <2>3, <3>1, <3>2, <3>3 DEF AudienceRespected, RouteOf
    <2>10. Granted(q)
      BY <2>7, <2>8, <2>9 DEF Granted
    <2>11. Cleared(q, "BRANCH") \/ SeatScope(q)
      BY <2>1 DEF SeatScope
    <2>12. QED
      BY <2>1, <2>10, <2>11 DEF RequestInv, LetIn
  <1>5. QED
    BY <1>3, <1>4

-----------------------------------------------------------------------------
(* The steps. *)

\* While the tables stay, so does what was said of a request.
LEMMA TablesSame ==
    ASSUME NEW q, RequestInv(q), UNCHANGED <<post, openAt>>
    PROVE  RequestInv(q)'
  <1>1. /\ Rightful(q)' <=> Rightful(q)
        /\ SeatScope(q)' <=> SeatScope(q)
        /\ SeatsInForce' = SeatsInForce
    BY DEF Rightful, ScopeRespected, PermissionsHeld, Entitlement, SeatScope, SeatsInForce, Employed
  <1>2. QED
    BY <1>1 DEF RequestInv, LetIn, Concluded, UpToDateSeats

LEMMA OneRequest ==
    ASSUME AccessInv, NEW next, RequestInv(next), incoming' = {next},
           UNCHANGED <<post, openAt, moves>>
    PROVE  AccessInv'
  <1>1. RequestInv(next)'
    BY TablesSame
  <1>2. next \in Incoming
    BY DEF RequestInv
  <1>3. QED
    BY <1>1, <1>2 DEF AccessInv, AccessTypeOK

\* Assignments and branches change; branches only close.
LEMMA Disturbing ==
    ASSUME NEW q \in incoming, RequestInv(q), \A b \in Branches : openAt'[b] => openAt[b]
    PROVE  RequestInv([q EXCEPT !.quiet = FALSE])'
  <1> DEFINE next == [q EXCEPT !.quiet = FALSE]
  <1>1. q \in Incoming
    BY DEF RequestInv
  <1>2. next \in Incoming
    BY <1>1 DEF Incoming
  <1>3. /\ next.route = q.route /\ next.passed = q.passed /\ next.caller = q.caller
        /\ next.header = q.header /\ next.token = q.token /\ next.seats = q.seats
        /\ next.acting = q.acting /\ next.outcome = q.outcome /\ next.rightful = q.rightful
        /\ ~next.quiet
    BY <1>1 DEF Incoming
  <1> HIDE DEF next
  <1>4. \A h : Cleared(next, h) <=> Cleared(q, h)
    BY <1>3 DEF Cleared
  <1>5. ActingRight(next) /\ UpToDateSeats(next)'
    BY <1>3, <1>4 DEF RequestInv, ActingRight, UpToDateSeats
  <1>6. (SeatScope(next)' => SeatScope(q)) /\ (Granted(next) <=> Granted(q))
    BY <1>3 DEF SeatScope, Granted, SeatCodes, AudienceRespected, RouteOf
  <1>7. LetIn(next)'
    BY <1>3, <1>4, <1>6 DEF RequestInv, LetIn
  <1>8. Established(next)
    BY <1>3, <1>4 DEF RequestInv, Established, Permits
  <1>9. Concluded(next)'
    BY <1>3 DEF RequestInv, Concluded, Served, RouteOf
  <1>10. RequestInv(next)'
    BY <1>2, <1>3, <1>5, <1>7, <1>8, <1>9 DEF RequestInv
  <1>11. QED
    BY <1>10 DEF next

LEMMA MoveStep ==
    ASSUME AccessInv,
           \/ \E b \in Branches, r \in PostRoles \cup {NoRole} : MoveUser(b, r)
           \/ \E b \in Branches : CloseBranch(b)
    PROVE  AccessInv'
  <1>1. /\ post' \in [Branches -> PostRoles \cup {NoRole}] /\ openAt' \in [Branches -> BOOLEAN]
        /\ moves' \in 0 .. MaxMoves
    <2>1. AccessTypeOK /\ MaxMoves \in Nat
      BY AccessAssumption DEF AccessInv
    <2>2. ASSUME NEW b \in Branches, NEW r \in PostRoles \cup {NoRole}, MoveUser(b, r)
          PROVE  /\ post' \in [Branches -> PostRoles \cup {NoRole}]
                 /\ openAt' \in [Branches -> BOOLEAN] /\ moves' \in 0 .. MaxMoves
      BY <2>1, <2>2 DEF AccessTypeOK, MoveUser
    <2>3. ASSUME NEW b \in Branches, CloseBranch(b)
          PROVE  /\ post' \in [Branches -> PostRoles \cup {NoRole}]
                 /\ openAt' \in [Branches -> BOOLEAN] /\ moves' \in 0 .. MaxMoves
      BY <2>1, <2>3 DEF AccessTypeOK, CloseBranch
    <2>4. QED
      BY <2>2, <2>3
  <1>2. incoming' = Disturbed /\ \A b \in Branches : openAt'[b] => openAt[b]
    BY DEF AccessInv, AccessTypeOK, MoveUser, CloseBranch
  <1>3. ASSUME NEW q \in incoming
        PROVE  RequestInv([q EXCEPT !.quiet = FALSE])'
    BY <1>2, Disturbing DEF AccessInv
  <1>4. \A q \in incoming' : RequestInv(q)'
    BY <1>2, <1>3 DEF Disturbed
  <1>5. \A q \in incoming' : q \in Incoming
    BY <1>4 DEF RequestInv
  <1>6. QED
    BY <1>1, <1>4, <1>5 DEF AccessInv, AccessTypeOK

\* A route without JwtAccessGuard asks nothing that would need it.
LEMMA OpenToAll ==
    ASSUME NEW r \in Routes, ~Has(r.guards, "JWT")
    PROVE  /\ r.scope = "NONE" /\ ~r.super /\ r.audience = "ANY"
           /\ r.all = {} /\ r.any = {} /\ r.asked = {}
  <1>1. Proper(r) /\ r \in RouteRow
    BY RoutesProper DEF Proper
  <1>2. \A h \in {"SUPER", "BRANCH", "PERMISSIONS"} : ~Has(r.guards, h)
    BY <1>1 DEF Proper, Ordered, Before, Has
  <1>3. r.all \cup r.any = {}
    BY <1>1, <1>2 DEF Proper
  <1>4. QED
    BY <1>1, <1>2, <1>3 DEF Proper

LEMMA EnterStep ==
    ASSUME AccessInv, NEW c \in Callers, NEW h \in Headers, NEW t \in BOOLEAN, NEW r \in Routes,
           Enter(c, h, t, r)
    PROVE  AccessInv'
  <1> DEFINE q == [caller |-> c, header |-> h, token |-> t, route |-> r,
                   passed |-> 0, seats |-> [b \in Branches |-> NoRole],
                   acting |-> NoRole, outcome |-> "PENDING", rightful |-> TRUE, quiet |-> TRUE]
             next == [q EXCEPT !.rightful = Rightful(q)]
  <1>1. q \in Incoming /\ next \in Incoming
    <2>1. q \in Incoming
      BY DEF Incoming, Outcomes
    <2>2. Rightful(q) \in BOOLEAN
      BY DEF Rightful
    <2> HIDE DEF q
    <2>3. QED
      BY <2>1, <2>2 DEF Incoming
  <1>2. incoming' = {next} /\ UNCHANGED <<post, openAt, moves>>
    BY DEF Enter
  <1>3. /\ next.route = r /\ next.passed = 0 /\ next.acting = NoRole
        /\ next.outcome = "PENDING" /\ (next.rightful <=> Rightful(q))
        /\ q.route = r /\ q.caller = c
    OBVIOUS
  <1> HIDE DEF next, q
  <1>4. \A g : ~Cleared(next, g)
    BY <1>3 DEF Cleared
  <1>5. ~Has(r.guards, "JWT") => Rightful(q)
    BY <1>3, OpenToAll
       DEF Rightful, SignInAsked, Has, ScopeRespected, AudienceRespected, PermissionsHeld, RouteOf
  <1>6. Len(next.route.guards) \in Nat
    BY <1>1, RouteFacts
  <1>7. RequestInv(next)
    BY <1>1, <1>3, <1>4, <1>5, <1>6
       DEF RequestInv, ActingRight, LetIn, Established, Concluded, TurnedAway, UpToDateSeats
  <1>8. QED
    BY <1>2, <1>7, OneRequest

LEMMA Went ==
    ASSUME AccessInv, NEW q \in incoming, GoOn(q), RequestInv([q EXCEPT !.passed = @ + 1])
    PROVE  AccessInv'
  BY OneRequest DEF GoOn

LEMMA Stopped ==
    ASSUME AccessInv, NEW q \in incoming, NEW why \in Outcomes, Stop(q, why),
           why = "HANDLED" => q.passed = Len(q.route.guards) /\ Served(q),
           why \in TurnedAway /\ q.quiet => ~Rightful(q)
    PROVE  AccessInv'
  <1>1. RequestInv(q)
    BY DEF AccessInv
  <1>2. RequestInv([q EXCEPT !.outcome = why])
    BY <1>1, Stopping
  <1>3. QED
    BY <1>2, OneRequest DEF Stop

LEMMA BranchStep ==
    ASSUME AccessInv, NEW q \in incoming, BranchScopeGuard(q)
    PROVE  AccessInv'
  <1>1. /\ RequestInv(q) /\ q \in Incoming /\ Due(q, "BRANCH") /\ Cleared(q, "JWT")
        /\ ActingRight(q) /\ q.header \in Headers
    BY BehindJwt DEF AccessInv, RequestInv, BranchScopeGuard, Incoming
  <1>2. /\ q.caller \in {"CUSTOMER", "BRANCH_USER", "SUPER_ADMIN"}
        /\ q.acting = "SUPER_ADMIN" <=> q.caller = "SUPER_ADMIN"
    BY <1>1, ActsAsHimself
  <1>3. "NONE" \notin Branches /\ "MALFORMED" \notin Branches
    BY AccessAssumption
  <1>4. ASSUME GoOn(q), SeatScope(q),
               q.route.scope = "NONE" \/ q.caller = "SUPER_ADMIN" \/ q.header \notin Branches
        PROVE  AccessInv'
    <2>1. ~(q.caller = "BRANCH_USER" /\ q.route.scope # "NONE" /\ q.header \in Branches)
      BY <1>4
    <2>2. RequestInv([q EXCEPT !.passed = @ + 1, !.acting = q.acting])
      BY <1>1, <1>4, <2>1, Selecting
    <2>3. [q EXCEPT !.passed = @ + 1, !.acting = q.acting] = [q EXCEPT !.passed = @ + 1]
      BY <1>1 DEF Incoming
    <2>4. QED
      BY <1>4, <2>2, <2>3, Went
  <1>5. ASSUME NEW why \in {"BRANCH_ACCESS_DENIED", "BRANCH_SELECTION_REQUIRED", "BRANCH_NOT_FOUND"},
               Stop(q, why), q.quiet => ~SeatScope(q)
        PROVE  AccessInv'
    <2>1. q.quiet => ~Rightful(q)
      BY <1>1, <1>5, NotInReach
    <2>2. why \in Outcomes /\ why # "HANDLED"
      BY DEF Outcomes
    <2>3. QED
      BY <1>5, <2>1, <2>2, Stopped
  <1>6. CASE q.route.scope = "NONE"
    <2>1. GoOn(q) /\ SeatScope(q)
      BY <1>6 DEF BranchScopeGuard, RouteOf, SeatScope
    <2>2. QED
      BY <1>4, <1>6, <2>1
  <1>7. CASE q.route.scope # "NONE" /\ q.caller = "CUSTOMER"
    <2>1. Stop(q, "BRANCH_ACCESS_DENIED") /\ ~SeatScope(q)
      BY <1>7 DEF BranchScopeGuard, RouteOf, SeatScope
    <2>2. QED
      BY <1>5, <2>1
  <1>8. CASE q.route.scope # "NONE" /\ q.caller # "CUSTOMER" /\ q.header = "NONE"
    <2>1. \/ q.route.scope = "OPTIONAL" /\ GoOn(q)
          \/ q.route.scope # "OPTIONAL" /\ Stop(q, "BRANCH_SELECTION_REQUIRED")
      BY <1>3, <1>8 DEF BranchScopeGuard, RouteOf, PassIf
    <2>2. CASE q.route.scope = "OPTIONAL" /\ GoOn(q)
      <3>1. SeatScope(q)
        BY <1>2, <1>3, <1>8, <2>2 DEF SeatScope
      <3>2. QED
        BY <1>3, <1>4, <1>8, <2>2, <3>1
    <2>3. CASE q.route.scope # "OPTIONAL" /\ Stop(q, "BRANCH_SELECTION_REQUIRED")
      <3>1. q.route.scope = "REQUIRED"
        BY <1>1, <1>8, <2>3, RouteFacts DEF RouteRow, Scopes
      <3>2. ~SeatScope(q)
        BY <1>8, <3>1 DEF SeatScope
      <3>3. QED
        BY <1>5, <2>3, <3>2
    <2>4. QED
      BY <2>1, <2>2, <2>3
  <1>9. CASE q.route.scope # "NONE" /\ q.caller # "CUSTOMER" /\ q.header = "MALFORMED"
    <2>1. Stop(q, "BRANCH_SELECTION_REQUIRED") /\ ~SeatScope(q)
      BY <1>3, <1>9 DEF BranchScopeGuard, RouteOf, SeatScope
    <2>2. QED
      BY <1>5, <2>1
  <1>10. CASE q.route.scope # "NONE" /\ q.caller # "CUSTOMER" /\ q.header \in Branches
    <2>1. SelectBranch(q)
      BY <1>3, <1>10 DEF BranchScopeGuard, RouteOf
    <2>2. CASE ~openAt[q.header] /\ Stop(q, "BRANCH_NOT_FOUND")
      <3>1. ~SeatScope(q)
        BY <1>10, <2>2 DEF SeatScope
      <3>2. QED
        BY <1>5, <2>2, <3>1
    <2>3. CASE openAt[q.header] /\ q.acting = "SUPER_ADMIN" /\ GoOn(q)
      <3>1. SeatScope(q) /\ q.caller = "SUPER_ADMIN"
        BY <1>2, <1>3, <1>10, <2>3 DEF SeatScope
      <3>2. QED
        BY <1>4, <2>3, <3>1
    <2>4. CASE /\ q.acting # "SUPER_ADMIN" /\ q.seats[q.header] = NoRole
               /\ Stop(q, "BRANCH_ACCESS_DENIED")
      <3>1. ~SeatScope(q)
        BY <1>2, <1>10, <2>4 DEF SeatScope
      <3>2. QED
        BY <1>5, <2>4, <3>1
    <2>5. CASE /\ openAt[q.header] /\ q.acting # "SUPER_ADMIN" /\ q.seats[q.header] # NoRole
               /\ incoming' = {[q EXCEPT !.passed = @ + 1, !.acting = ActingAt(q)]}
               /\ UNCHANGED <<post, openAt, moves>>
      <3>1. SeatScope(q) /\ q.caller = "BRANCH_USER"
        BY <1>2, <1>3, <1>10, <2>5 DEF SeatScope
      <3>2. RequestInv([q EXCEPT !.passed = @ + 1, !.acting = ActingAt(q)])
        BY <1>1, <1>10, <3>1, Selecting DEF ActingAt
      <3>3. QED
        BY <2>5, <3>2, OneRequest
    <2>6. QED
      BY <2>1, <2>2, <2>3, <2>4, <2>5 DEF SelectBranch
  <1>11. QED
    BY <1>1, <1>6, <1>7, <1>8, <1>9, <1>10 DEF Headers

LEMMA GuardStepKeeps ==
    ASSUME AccessInv, NEW q \in incoming, GuardStep(q)
    PROVE  AccessInv'
  <1>1. RequestInv(q) /\ q \in Incoming /\ AccessTypeOK
    BY DEF AccessInv, RequestInv
  <1>2. CASE Throttle(q)
    <2>1. CASE GoOn(q)
      BY <1>1, <1>2, <2>1, Passing, Went DEF Throttle, GuardNames
    <2>2. CASE Stop(q, "THROTTLED")
      BY <2>2, Stopped DEF Outcomes, TurnedAway
    <2>3. QED
      BY <1>2, <2>1, <2>2 DEF Throttle
  <1>3. CASE Google(q)
    BY <1>1, <1>3, Passing, Went DEF Google, GuardNames
  <1>4. CASE Authenticate(q)
    <2>1. CASE q.caller = "NOBODY" /\ Stop(q, "UNAUTHORIZED")
      <3>1. SignInAsked(RouteOf(q))
        BY <1>1, <1>4, DueNext, RouteFacts DEF Authenticate, SignInAsked, RouteOf
      <3>2. ~Rightful(q)
        BY <2>1, <3>1 DEF Rightful
      <3>3. QED
        BY <2>1, <3>2, Stopped DEF Outcomes
    <2>2. CASE /\ q.caller # "NOBODY" /\ incoming' = {Authenticated(q)}
               /\ UNCHANGED <<post, openAt, moves>>
      <3>1. RequestInv(Authenticated(q))
        BY <1>1, <1>4, <2>2, Authenticating DEF Authenticate
      <3>2. QED
        BY <2>2, <3>1, OneRequest
    <2>3. QED
      BY <1>4, <2>1, <2>2 DEF Authenticate
  <1>5. CASE SuperAdminGuard(q)
    <2>1. CASE GoOn(q) /\ (q.route.super => q.acting = "SUPER_ADMIN")
      BY <1>1, <1>5, <2>1, Passing, Went DEF SuperAdminGuard, GuardNames
    <2>2. CASE Stop(q, "NOT_SUPER_ADMIN") /\ q.route.super /\ q.acting # "SUPER_ADMIN"
      <3>1. ~Rightful(q)
        BY <1>1, <1>5, <2>2, NotSuper DEF SuperAdminGuard
      <3>2. QED
        BY <2>2, <3>1, Stopped DEF Outcomes
    <2>3. QED
      BY <1>5, <2>1, <2>2 DEF SuperAdminGuard, PassIf, RouteOf
  <1>6. CASE CsrfGuard(q)
    <2>1. CASE GoOn(q) /\ (q.route.write => q.token)
      BY <1>1, <1>6, <2>1, Passing, Went DEF CsrfGuard, GuardNames
    <2>2. CASE Stop(q, "CSRF_INVALID")
      BY <2>2, Stopped DEF Outcomes, TurnedAway
    <2>3. QED
      BY <1>6, <2>1, <2>2 DEF CsrfGuard, PassIf, RouteOf
  <1>7. CASE PermissionsGuard(q)
    <2>1. CASE GoOn(q) /\ Permits(q)
      BY <1>1, <1>7, <2>1, Passing, Went DEF PermissionsGuard, GuardNames
    <2>2. CASE Stop(q, "PERMISSION_DENIED") /\ ~Permits(q)
      <3>1. q.quiet => ~Rightful(q)
        BY <1>1, <1>7, <2>2, NotPermitted DEF PermissionsGuard
      <3>2. QED
        BY <2>2, <3>1, Stopped DEF Outcomes
    <2>3. QED
      BY <1>7, <2>1, <2>2 DEF PermissionsGuard, PassIf, RouteOf, Permits
  <1>8. CASE Serve(q)
    <2>1. q.passed = Len(q.route.guards)
      BY <1>1, <1>8, NoneLeft DEF Serve, RequestInv
    <2>2. CASE Served(q)
      <3>1. Stop(q, "HANDLED")
        BY <1>8, <2>2 DEF Serve
      <3>2. QED
        BY <2>1, <2>2, <3>1, Stopped DEF Outcomes, TurnedAway
    <2>3. CASE ~Served(q)
      <3>1. Stop(q, "NOT_SERVED")
        BY <1>8, <2>3 DEF Serve
      <3>2. q.quiet => ~Rightful(q)
        BY <1>1, <1>8, <2>3, NotServed DEF Serve
      <3>3. QED
        BY <3>1, <3>2, Stopped DEF Outcomes
    <2>4. QED
      BY <2>2, <2>3
  <1>9. CASE Respond(q)
    BY <1>9 DEF Respond, AccessInv, AccessTypeOK
  <1>10. QED
    BY <1>2, <1>3, <1>4, <1>5, <1>6, <1>7, <1>8, <1>9, BranchStep DEF GuardStep

LEMMA AccessStep == AccessInv /\ [AccessNext]_accessVars => AccessInv'
  <1> SUFFICES ASSUME AccessInv, [AccessNext]_accessVars PROVE AccessInv'
    OBVIOUS
  <1>1. CASE UNCHANGED accessVars
    <2>1. UNCHANGED <<post, openAt, incoming, moves>>
      BY <1>1 DEF accessVars
    <2>2. \A q \in incoming : RequestInv(q)'
      BY <2>1, TablesSame DEF AccessInv
    <2>3. QED
      BY <2>1, <2>2 DEF AccessInv, AccessTypeOK
  <1>2. QED
    BY <1>1, EnterStep, GuardStepKeeps, MoveStep DEF AccessNext

LEMMA AccessStart == AccessInit => AccessInv
  BY AccessAssumption DEF AccessInit, AccessInv, AccessTypeOK

LEMMA DecisionFollows == AccessInv => RequestsDecided
  <1> SUFFICES ASSUME AccessInv, NEW q \in incoming
               PROVE  DecidedByRight(q) /\ WritesAreMeant(q) /\ AsksWhatExists(q)
    BY DEF RequestsDecided
  <1>1. /\ RequestInv(q) /\ q \in Incoming /\ Proper(q.route) /\ q.route \in RouteRow
        /\ DOMAIN q.route.guards = 1 .. Len(q.route.guards)
    BY RouteFacts DEF AccessInv, RequestInv
  <1>2. DecidedByRight(q)
    BY <1>1, ServedByRight DEF DecidedByRight, RequestInv, Concluded
  <1>3. AsksWhatExists(q)
    BY <1>1 DEF AsksWhatExists, Asked, RouteOf, RouteRow
  <1>4. ASSUME q.outcome = "HANDLED"
        PROVE  /\ q.route.write => q.token
               /\ Asked(q.route) \cap DangerousCodes # {} => q.caller = "SUPER_ADMIN"
    <2>1. q.passed = Len(q.route.guards) /\ Served(q)
      BY <1>1, <1>4 DEF RequestInv, Concluded
    <2>2. \A g : Has(q.route.guards, g) => Cleared(q, g)
      BY <1>1, <2>1 DEF Has, Cleared
    <2>3. q.route.write => q.token
      BY <1>1, <2>2 DEF Proper, RequestInv, Established
    <2>4. ASSUME Asked(q.route) \cap DangerousCodes # {}
          PROVE  q.caller = "SUPER_ADMIN"
      <3>1. (q.route.all \cup q.route.asked) \cap DangerousCodes # {}
        BY <1>1, <2>4 DEF Asked, Proper
      <3>2. q.route.all # {} => Has(q.route.guards, "PERMISSIONS")
        BY <1>1 DEF Proper
      <3>3. Cleared(q, "JWT")
        <4>1. Has(q.route.guards, "PERMISSIONS") => Has(q.route.guards, "JWT")
          BY <1>1 DEF Proper, Ordered, Before, Has
        <4>2. q.route.asked # {} => Has(q.route.guards, "JWT")
          BY <1>1 DEF Proper
        <4>3. QED
          BY <2>2, <3>1, <3>2, <4>1, <4>2
      <3>4. /\ q.acting = "SUPER_ADMIN" <=> q.caller = "SUPER_ADMIN"
            /\ q.acting \in PostRoles \cup {NoRole, "CUSTOMER", "SUPER_ADMIN"}
        BY <1>1, <3>3, ActsAsHimself DEF RequestInv
      <3>5. \/ q.acting = "SUPER_ADMIN"
            \/ q.route.all \cup q.route.asked \subseteq CodesOfRole(q.acting)
        <4>1. q.route.all # {} => Permits(q)
          BY <1>1, <2>2, <3>2 DEF RequestInv, Established
        <4>2. q.acting = "SUPER_ADMIN" \/ q.route.asked \subseteq CodesOfRole(q.acting)
          BY <2>1 DEF Served, RouteOf
        <4>3. QED
          BY <4>1, <4>2 DEF Permits
      <3>6. QED
        BY <3>1, <3>4, <3>5, RoleFacts
    <2>5. QED
      BY <2>3, <2>4
  <1>5. WritesAreMeant(q)
    BY <1>4 DEF WritesAreMeant, RouteOf
  <1>6. QED
    BY <1>2, <1>3, <1>5

\* For every route of the API, whatever assignments and branches change between
\* two guards: a request that is handled had the right when it was authenticated,
\* one that is turned away while nothing changed had none, nothing is written
\* without a token, and only a Super Admin does what is dangerous.
THEOREM RequestsDecidedAlways == AccessSpec => []RequestsDecided
  BY DecisionFollows, AccessStart, AccessStep, PTL DEF AccessSpec

-----------------------------------------------------------------------------
(* The sides of MCAccounts.  Each behaves as its own specification says, so *)
(* what is proved of it holds of the composition.                           *)

\* A step of the composition is a step or a stutter of every side.
LEMMA SideStep ==
    [AccountsNext]_<<side, vars, throttleVars, addressVars, accountVars, accessVars>> =>
        /\ [Next]_vars /\ [ThrottleNext]_throttleVars /\ [AddressNext]_addressVars
        /\ [AccountNext]_accountVars /\ [AccessNext]_accessVars
  BY DEF AccountsNext

\* The composition hides no operation of a part and adds none.
THEOREM SidesImplemented ==
    AccountsSpec => Spec /\ ThrottleSpec /\ AddressSpec /\ AccountSpec /\ AccessSpec
  <1>1. AccountsInit => Init /\ ThrottleInit /\ AddressInit /\ AccountInit /\ AccessInit
    BY DEF AccountsInit
  <1>2. QED
    BY <1>1, SideStep, PTL
       DEF AccountsSpec, Spec, ThrottleSpec, AddressSpec, AccountSpec, AccessSpec

\* Every table of an account keeps its types, whoever works on it.
THEOREM AccountsTypeCorrect == AccountsSpec => []AccountsTypeOK
  <1>1. AddressSpec => []AddressTypeOK
    <2>1. AddressInv => AddressTypeOK
      BY DEF AddressInv
    <2>2. QED
      BY <2>1, AddressStart, AddressStep, PTL DEF AddressSpec
  <1>2. AccountSpec => []AccountTypeOK
    <2>1. AccountInv => AccountTypeOK
      BY DEF AccountInv
    <2>2. QED
      BY <2>1, AccountStart, AccountStep, PTL DEF AccountSpec
  <1>3. AccessSpec => []AccessTypeOK
    <2>1. AccessInv => AccessTypeOK
      BY DEF AccessInv
    <2>2. QED
      BY <2>1, AccessStart, AccessStep, PTL DEF AccessSpec
  <1>4. /\ TypeOK /\ ThrottleTypeOK /\ AddressTypeOK /\ AccountTypeOK /\ AccessTypeOK
        => AccountsTypeOK
    BY DEF AccountsTypeOK
  <1>5. QED
    BY <1>1, <1>2, <1>3, <1>4, SidesImplemented, SessionTypeCorrect, ThrottleTypeCorrect, PTL

\* The pages of a customer and his address book agree, in every behaviour of
\* the composition.
THEOREM AccountPagesAgreeAlways == AccountsSpec => []AccountPagesAgree
  <1>1. AccountAgrees /\ OneDefaultAddress => AccountPagesAgree
    BY DEF AccountPagesAgree
  <1>2. QED
    BY <1>1, SidesImplemented, AccountPagesCorrect, OneDefaultAlways, PTL

\* What is proved of sessions, links, passwords, guesses and requests holds in
\* every behaviour of the composition too.
THEOREM AccountsCorrect ==
    AccountsSpec => [](/\ NoSessionOutlivesRevocation /\ OnlyLastLinkWorks
                       /\ PasswordsAccountedFor /\ GuessesAreBounded /\ RequestsDecided)
  BY SidesImplemented, RevocationCorrect, LinksCorrect, PasswordsCorrect, GuessesBounded,
     RequestsDecidedAlways, PTL
=============================================================================
