--------------------------- MODULE CheckoutProofs ---------------------------
(***************************************************************************)
(* Proofs about the gateway and a purchase seen from the browser, for any  *)
(* number of people, requests, keys and seats, any limits and any window.  *)
(***************************************************************************)
EXTENDS Checkout, FiniteSetTheorems, WellFoundedInduction, NaturalsInduction, TLAPS

-----------------------------------------------------------------------------
(* The rate limiter.                                                       *)

Ages == 0..(Window - 1)

LimitTypes ==
  /\ DOMAIN counter = Metered /\ DOMAIN passed = Metered
  /\ \A k \in Metered : counter[k] \in [count : Nat, ttl : Int] /\ passed[k] \in [Ages -> Nat]

\* The attempts of some ages are at most n.
AtMost(k, ages, n) == IsFiniteSet(Through(k, ages)) /\ Cardinality(Through(k, ages)) <= n

(* The attempts younger than cut were counted by the present counter, the  *)
(* others by the one before it; a counter outlives those before its        *)
(* predecessor, since it lives for a window.                               *)
SplitAt(k, cut) ==
  /\ AtMost(k, 0..(cut - 1), counter[k].count) /\ AtMost(k, 0..(cut - 1), LimitOf[k[1]])
  /\ AtMost(k, cut..(Window - 1), LimitOf[k[1]])
  /\ counter[k].ttl > 0 => cut + counter[k].ttl > Window
  /\ counter[k].count > 0 => cut > 0
  /\ counter[k].count = 0 => cut = 0 /\ passed[k][0] = 0

WindowInv(k) ==
  /\ counter[k].count <= LimitOf[k[1]] + 1
  /\ counter[k].count = 0 <=> counter[k].ttl = 0
  /\ \E cut \in 0..Window : SplitAt(k, cut)

LimiterInv == LimitTypes /\ \A k \in Metered : WindowInv(k)

\* Fewer ages, fewer attempts.
LEMMA FewerAges ==
  ASSUME NEW k, NEW old, NEW ages \in SUBSET old, NEW n \in Nat, AtMost(k, old, n)
  PROVE  AtMost(k, ages, n)
<1>1. Through(k, ages) \subseteq Through(k, old)
  BY Zenon DEF Through
<1>2. /\ IsFiniteSet(Through(k, ages)) /\ Cardinality(Through(k, old)) \in Nat
      /\ Cardinality(Through(k, ages)) <= Cardinality(Through(k, old))
      /\ Cardinality(Through(k, ages)) \in Nat
  BY <1>1, FS_Subset, FS_CardinalityType, Zenon DEF AtMost
<1>3. QED
  BY <1>2 DEF AtMost

\* All attempts are the younger ones and the older ones.
LEMMA BothParts ==
  ASSUME NEW k, NEW cut \in 0..Window, NEW n \in Nat,
         AtMost(k, 0..(cut - 1), n), AtMost(k, cut..(Window - 1), n)
  PROVE  Cardinality(Through(k, Ages)) <= 2 * n
<1> DEFINE Y == Through(k, 0..(cut - 1))
           O == Through(k, cut..(Window - 1))
<1>1. Ages \subseteq (0..(cut - 1)) \cup (cut..(Window - 1))
  BY GatewayConstantsOK DEF Ages
<1>2. (0..(cut - 1)) \cup (cut..(Window - 1)) \subseteq Ages
  BY GatewayConstantsOK DEF Ages
<1>3. Through(k, Ages) = Y \cup O
  <2>1. Ages = (0..(cut - 1)) \cup (cut..(Window - 1))
    BY <1>1, <1>2, Zenon
  <2>2. QED
    BY <2>1, Zenon DEF Through
<1>4. IsFiniteSet(Y) /\ IsFiniteSet(O) /\ Cardinality(Y) <= n /\ Cardinality(O) <= n
  BY Zenon DEF AtMost
<1> HIDE DEF Y, O
<1>5. /\ Cardinality(Y) \in Nat /\ Cardinality(O) \in Nat /\ Cardinality(Y \cap O) \in Nat
      /\ Cardinality(Y \cup O) = Cardinality(Y) + Cardinality(O) - Cardinality(Y \cap O)
  BY <1>4, FS_Union, FS_Intersection, FS_CardinalityType, Zenon
<1>6. QED
  BY <1>3, <1>4, <1>5

\* A function's values are at most as many as its arguments.
LEMMA ImageBound ==
  ASSUME NEW S, IsFiniteSet(S), NEW T, NEW f \in [S -> T], \A y \in T : \E x \in S : f[x] = y
  PROVE  IsFiniteSet(T) /\ Cardinality(T) <= Cardinality(S)
<1>1. f \in Surjection(S, T)
  BY Zenon DEF Surjection
<1>2. QED
  BY <1>1, FS_Surjection, Zenon

\* What an attempt is: an age and a number.
LEMMA Attempts ==
  ASSUME NEW k, NEW ages
  PROVE  \A x : x \in Through(k, ages)
                  <=> \E age \in ages : \E j \in 1..passed[k][age] : x = <<age, j>>
  BY DEF Through

\* A tick makes every attempt one older; the newest age is empty after it.
LEMMA Older ==
  ASSUME NEW k, NEW before \in SUBSET Ages, NEW ages \in SUBSET Ages, NEW n \in Nat,
         AtMost(k, before, n), \A age \in ages : age = 0 \/ age - 1 \in before,
         passed'[k] = [age \in Ages |-> IF age = 0 THEN 0 ELSE passed[k][age - 1]]
  PROVE  AtMost(k, ages, n)'
<1> DEFINE S == Through(k, before)
           f == [x \in S |-> <<x[1] + 1, x[2]>>]
           T == {f[x] : x \in S}
<1>1. IsFiniteSet(S) /\ Cardinality(S) <= n
  BY Zenon DEF AtMost
<1>2. IsFiniteSet(T) /\ Cardinality(T) <= Cardinality(S)
  <2>1. f \in [S -> T] /\ \A y \in T : \E x \in S : f[x] = y
    BY Zenon
  <2> HIDE DEF T, S, f
  <2>2. QED
    BY <1>1, <2>1, ImageBound, Zenon
<1>3. Through(k, ages)' \subseteq T
  <2>1. SUFFICES ASSUME NEW x \in Through(k, ages)' PROVE x \in T
    BY Zenon
  <2>2. PICK age \in ages : \E j \in 1..passed'[k][age] : x = <<age, j>>
    BY <2>1, Attempts DEF Through
  <2>3. PICK j \in 1..passed'[k][age] : x = <<age, j>>
    BY <2>2, Zenon
  <2>4. age # 0
    <3>1. SUFFICES ASSUME age = 0 PROVE FALSE
      OBVIOUS
    <3>2. passed'[k][age] = 0
      BY <3>1, Zenon DEF Ages
    <3>3. QED
      BY <2>3, <3>2
  <2>5. passed'[k][age] = passed[k][age - 1]
    BY <2>4, Zenon
  <2>6. age - 1 \in before
    BY <2>4, Zenon
  <2>7. <<age - 1, j>> \in S
    BY <2>3, <2>5, <2>6, Attempts, Zenon
  <2>8. (age - 1) + 1 = age
    BY DEF Ages
  <2>9. f[<<age - 1, j>>] = x
    BY <2>3, <2>7, <2>8, Zenon
  <2>10. QED
    BY <2>7, <2>9, Zenon
<1> HIDE DEF T, S
<1>4. /\ IsFiniteSet(Through(k, ages)') /\ Cardinality(Through(k, ages)') <= Cardinality(T)
      /\ Cardinality(Through(k, ages)') \in Nat /\ Cardinality(T) \in Nat /\ Cardinality(S) \in Nat
  BY <1>1, <1>2, <1>3, FS_Subset, FS_CardinalityType, Zenon
<1>5. Cardinality(Through(k, ages)') <= n
  BY <1>1, <1>2, <1>4
<1>6. QED
  BY <1>4, <1>5, Zenon DEF AtMost

\* One more attempt is let through now.
LEMMA OneMore ==
  ASSUME LimitTypes, NEW k \in Metered, NEW ages \in SUBSET Ages, NEW n \in Nat,
         AtMost(k, ages, n), passed'[k] = [passed[k] EXCEPT ![0] = @ + 1]
  PROVE  AtMost(k, ages, n + 1)'
<1> DEFINE S == Through(k, ages)
           x == <<0, passed[k][0] + 1>>
<1>1. passed[k] \in [Ages -> Nat] /\ 0 \in Ages
  BY GatewayConstantsOK DEF LimitTypes, Ages
<1>2. Through(k, ages)' \subseteq S \cup {x}
  <2>1. SUFFICES ASSUME NEW y \in Through(k, ages)', y # x PROVE y \in S
    BY Zenon
  <2>2. PICK age \in ages : \E j \in 1..passed'[k][age] : y = <<age, j>>
    BY <2>1, Attempts DEF Through
  <2>3. PICK j \in 1..passed'[k][age] : y = <<age, j>>
    BY <2>2, Zenon
  <2>4. j \in 1..passed[k][age]
    <3>1. CASE age = 0
      <4>1. passed'[k][age] = passed[k][0] + 1 /\ passed[k][0] \in Nat
        BY <1>1, <3>1, Zenon
      <4>2. j # passed[k][0] + 1
        BY <2>1, <2>3, <3>1, Zenon
      <4>3. QED
        BY <2>3, <3>1, <4>1, <4>2
    <3>2. CASE age # 0
      BY <1>1, <2>3, <3>2, Zenon
    <3>3. QED
      BY <3>1, <3>2, Zenon
  <2>5. QED
    BY <2>3, <2>4, Attempts, Zenon
<1>3. IsFiniteSet(S) /\ Cardinality(S) <= n
  BY Zenon DEF AtMost
<1> HIDE DEF S, x
<1>4. /\ IsFiniteSet(S \cup {x}) /\ Cardinality(S) \in Nat
      /\ Cardinality(S \cup {x}) = IF x \in S THEN Cardinality(S) ELSE Cardinality(S) + 1
  BY <1>3, FS_AddElement, FS_CardinalityType, Zenon
<1>5. /\ IsFiniteSet(Through(k, ages)') /\ Cardinality(Through(k, ages)') <= Cardinality(S \cup {x})
      /\ Cardinality(Through(k, ages)') \in Nat
  BY <1>2, <1>4, FS_Subset, FS_CardinalityType, Zenon
<1>6. Cardinality(Through(k, ages)') <= n + 1
  BY <1>3, <1>4, <1>5
<1>7. QED
  BY <1>5, <1>6, Zenon DEF AtMost

\* What the limiter knows of other people does not change.
LEMMA OtherWindow ==
  ASSUME NEW k, WindowInv(k), counter'[k] = counter[k], passed'[k] = passed[k]
  PROVE  WindowInv(k)'
<1>1. \A ages : Through(k, ages)' = Through(k, ages)
  BY Zenon DEF Through
<1>2. \A ages, n : AtMost(k, ages, n)' <=> AtMost(k, ages, n)
  BY <1>1, Zenon DEF AtMost
<1>3. \A cut : SplitAt(k, cut)' <=> SplitAt(k, cut)
  BY <1>2, Zenon DEF SplitAt
<1>4. QED
  BY <1>3, Zenon DEF WindowInv

\* The lesser of two numbers.
LEMMA LesserOfTwo ==
  ASSUME NEW a \in Int, NEW b \in Int
  PROVE  Min({a, b}) = IF a <= b THEN a ELSE b
<1> DEFINE m == IF a <= b THEN a ELSE b
<1>1. m \in {a, b} /\ \A y \in {a, b} : m =< y
  OBVIOUS
<1>2. \A z \in {a, b} : (\A y \in {a, b} : z =< y) => z = m
  OBVIOUS
<1> HIDE DEF m
<1>3. Min({a, b}) = m
  BY <1>1, <1>2, Zenon DEF Min
<1>4. QED
  BY <1>3, Zenon DEF m

\* The script counts an attempt and lets it through, or refuses it.
LEMMA AttemptKeeps ==
  ASSUME LimiterInv, NEW k \in Metered, counter' = [counter EXCEPT ![k] = allowScript(k)],
         IF WithinLimit(k) THEN passed' = [passed EXCEPT ![k][0] = @ + 1] ELSE passed' = passed
  PROVE  LimiterInv'
<1>1. /\ counter[k] \in [count : Nat, ttl : Int] /\ passed[k] \in [Ages -> Nat]
      /\ LimitOf[k[1]] \in Nat /\ 0 \in Ages /\ Window \in Nat \ {0} /\ WindowInv(k)
  BY GatewayConstantsOK DEF LimiterInv, LimitTypes, Ages
<1>2. PICK c \in Nat, t \in Int, L \in Nat :
        c = counter[k].count /\ t = counter[k].ttl /\ L = LimitOf[k[1]]
  BY <1>1, Zenon
<1>3. /\ DOMAIN counter' = Metered /\ counter'[k] = allowScript(k)
      /\ \A x \in Metered : x # k => counter'[x] = counter[x]
  BY Zenon DEF LimiterInv, LimitTypes
<1>4. /\ DOMAIN passed' = Metered /\ \A x \in Metered : x # k => passed'[x] = passed[x]
      /\ passed'[k] = IF WithinLimit(k) THEN [passed[k] EXCEPT ![0] = @ + 1] ELSE passed[k]
  BY Zenon DEF LimiterInv, LimitTypes
<1>5. passed'[k] \in [Ages -> Nat] /\ \A age \in Ages : age # 0 => passed'[k][age] = passed[k][age]
  BY <1>1, <1>4
<1>6. PICK d \in Nat : d = Counted(k) /\ d = IF c + 1 <= L + 1 THEN c + 1 ELSE L + 1
  <2>1. c + 1 \in Int /\ L + 1 \in Int
    OBVIOUS
  <2>2. Min({c + 1, L + 1}) = IF c + 1 <= L + 1 THEN c + 1 ELSE L + 1
    BY <2>1, LesserOfTwo, Zenon
  <2>3. Counted(k) = Min({c + 1, L + 1})
    BY <1>2, Zenon DEF Counted
  <2>4. QED
    BY <2>2, <2>3
<1>7. /\ counter'[k] \in [count : Nat, ttl : Int] /\ counter'[k].count = d
      /\ counter'[k].ttl = IF c = 0 \/ t < 0 THEN Window ELSE t
  BY <1>1, <1>2, <1>3, <1>6 DEF allowScript
<1>8. LimitTypes'
  BY <1>3, <1>4, <1>5, <1>7, Zenon DEF LimiterInv, LimitTypes
<1>9. /\ c <= L + 1 /\ (c = 0 <=> t = 0) /\ d > 0 /\ d <= L + 1 /\ d >= c
      /\ WithinLimit(k) => d = c + 1 /\ d <= L
  BY <1>1, <1>2, <1>6 DEF WindowInv, WithinLimit
<1>10. PICK old \in 0..Window : SplitAt(k, old)
  BY <1>1, Zenon DEF WindowInv
<1>11. /\ AtMost(k, 0..(old - 1), c) /\ AtMost(k, 0..(old - 1), L)
       /\ AtMost(k, old..(Window - 1), L)
       /\ (t > 0 => old + t > Window) /\ (c > 0 => old > 0)
       /\ (c = 0 => old = 0 /\ passed[k][0] = 0)
  BY <1>2, <1>10, Zenon DEF SplitAt
<1>12. PICK cut \in 0..Window : cut = IF c = 0 THEN 1 ELSE old
  BY <1>1
<1>13. /\ cut > 0 /\ 0..(cut - 1) \subseteq Ages /\ cut..(Window - 1) \subseteq Ages \ {0}
       /\ cut..(Window - 1) \subseteq old..(Window - 1)
       /\ counter'[k].ttl > 0 => cut + counter'[k].ttl > Window
  <2>1. Window \in Nat /\ Window > 0 /\ old \in Int /\ 0 <= old /\ old <= Window
    BY <1>1
  <2>2. cut \in Int /\ 0 < cut /\ cut <= Window /\ old <= cut
    BY <1>11, <1>12, <2>1
  <2>3. /\ 0..(cut - 1) \subseteq Ages /\ cut..(Window - 1) \subseteq Ages \ {0}
        /\ cut..(Window - 1) \subseteq old..(Window - 1)
    BY <2>1, <2>2 DEF Ages
  <2>4. PICK u \in Int : u = counter'[k].ttl
    BY <1>7, Zenon
  <2>5. u = IF c = 0 \/ t < 0 THEN Window ELSE t
    BY <1>7, <2>4, Zenon
  <2>6. u > 0 => cut + u > Window
    BY <1>11, <1>12, <2>1, <2>2, <2>5
  <2>7. QED
    BY <2>2, <2>3, <2>4, <2>6, Zenon
<1>14. AtMost(k, 0..(cut - 1), c) /\ AtMost(k, 0..(cut - 1), L)
  <2>1. CASE c = 0
    <3>1. Through(k, 0..(cut - 1)) = {}
      <4>1. 0..(cut - 1) = {0} /\ passed[k][0] = 0
        BY <1>11, <1>12, <2>1
      <4>2. 1..passed[k][0] = {}
        BY <4>1
      <4>3. QED
        BY <4>1, <4>2, Attempts
    <3>2. IsFiniteSet({}) /\ Cardinality({}) <= c /\ Cardinality({}) <= L
      BY FS_EmptySet
    <3>3. QED
      BY <3>1, <3>2, Zenon DEF AtMost
  <2>2. CASE c # 0
    BY <1>11, <1>12, <2>2, Zenon
  <2>3. QED
    BY <2>1, <2>2, Zenon
<1>15. AtMost(k, cut..(Window - 1), L)
  <2>1. cut..(Window - 1) \in SUBSET (old..(Window - 1))
    BY <1>13, Zenon
  <2>2. AtMost(k, old..(Window - 1), L) /\ L \in Nat
    BY <1>11, Zenon
  <2>3. QED
    BY <2>1, <2>2, FewerAges, Zenon
<1>16. AtMost(k, 0..(cut - 1), d)' /\ AtMost(k, 0..(cut - 1), L)'
  <2>1. CASE WithinLimit(k)
    <3>1. AtMost(k, 0..(cut - 1), c + 1)'
      BY <1>4, <1>13, <1>14, <2>1, OneMore, Zenon DEF LimiterInv
    <3>2. Cardinality(Through(k, 0..(cut - 1))') \in Nat
      BY <3>1, FS_CardinalityType, Zenon DEF AtMost
    <3>3. QED
      BY <1>9, <2>1, <3>1, <3>2 DEF AtMost
  <2>2. CASE ~WithinLimit(k)
    <3>1. Through(k, 0..(cut - 1))' = Through(k, 0..(cut - 1))
      BY <1>4, <2>2, Zenon DEF Through
    <3>2. Cardinality(Through(k, 0..(cut - 1))) \in Nat
      BY <1>14, FS_CardinalityType, Zenon DEF AtMost
    <3>3. QED
      BY <1>9, <1>14, <3>1, <3>2 DEF AtMost
  <2>3. QED
    BY <2>1, <2>2, Zenon
<1>17. AtMost(k, cut..(Window - 1), L)'
  <2>1. \A age \in cut..(Window - 1) : passed'[k][age] = passed[k][age]
    BY <1>5, <1>13, Zenon
  <2>2. Through(k, cut..(Window - 1))' = Through(k, cut..(Window - 1))
    BY <2>1, Zenon DEF Through
  <2>3. QED
    BY <1>15, <2>2, Zenon DEF AtMost
<1>18. SplitAt(k, cut)'
  BY <1>2, <1>7, <1>9, <1>13, <1>16, <1>17 DEF SplitAt
<1>19. WindowInv(k)'
  <2>1. counter'[k].count <= LimitOf[k[1]] + 1 /\ (counter'[k].count = 0 <=> counter'[k].ttl = 0)
    BY <1>1, <1>2, <1>7, <1>9
  <2>2. QED
    BY <1>18, <2>1, Zenon DEF WindowInv
<1>20. QED
  BY <1>3, <1>4, <1>8, <1>19, OtherWindow, Zenon DEF LimiterInv

\* Time passes, and with it perhaps the time of a counter.
LEMMA TickKeeps ==
  ASSUME LimiterInv, Tick
  PROVE  LimiterInv'
<1>1. /\ counter' = [k \in Metered |->
                   IF counter[k].ttl = 1 THEN [count |-> 0, ttl |-> 0]
                   ELSE [counter[k] EXCEPT !.ttl = IF @ > 0 THEN @ - 1 ELSE @]]
      /\ passed' = [k \in Metered |->
                  [age \in Ages |-> IF age = 0 THEN 0 ELSE passed[k][age - 1]]]
  BY Zenon DEF Tick, Ages
<1>2. ASSUME NEW k \in Metered
      PROVE  /\ WindowInv(k)' /\ counter'[k] \in [count : Nat, ttl : Int]
             /\ passed'[k] \in [Ages -> Nat]
  <2>1. /\ counter[k] \in [count : Nat, ttl : Int] /\ passed[k] \in [Ages -> Nat]
        /\ LimitOf[k[1]] \in Nat /\ 0 \in Ages /\ Window \in Nat \ {0} /\ WindowInv(k)
    BY GatewayConstantsOK DEF LimiterInv, LimitTypes, Ages
  <2>2. PICK c \in Nat, t \in Int, L \in Nat :
          c = counter[k].count /\ t = counter[k].ttl /\ L = LimitOf[k[1]]
    BY <2>1, Zenon
  <2>3. passed'[k] = [age \in Ages |-> IF age = 0 THEN 0 ELSE passed[k][age - 1]]
    BY <1>1, Zenon
  <2>4. passed'[k] \in [Ages -> Nat] /\ passed'[k][0] = 0
    <3>1. \A age \in Ages : age = 0 \/ age - 1 \in Ages
      BY <2>1 DEF Ages
    <3>2. QED
      BY <2>1, <2>3, <3>1
  <2>5. /\ counter'[k] \in [count : Nat, ttl : Int]
        /\ counter'[k].count = IF t = 1 THEN 0 ELSE c
        /\ counter'[k].ttl = IF t > 0 THEN t - 1 ELSE t
    <3>1. counter'[k] = IF counter[k].ttl = 1 THEN [count |-> 0, ttl |-> 0]
                        ELSE [counter[k] EXCEPT !.ttl = IF @ > 0 THEN @ - 1 ELSE @]
      BY <1>1, Zenon
    <3>2. QED
      BY <2>1, <2>2, <3>1
  <2>6. PICK old \in 0..Window : SplitAt(k, old)
    BY <2>1, Zenon DEF WindowInv
  <2>7. /\ AtMost(k, 0..(old - 1), c) /\ AtMost(k, 0..(old - 1), L)
        /\ AtMost(k, old..(Window - 1), L)
        /\ (t > 0 => old + t > Window) /\ (c > 0 => old > 0) /\ (c = 0 => old = 0)
        /\ c <= L + 1 /\ (c = 0 <=> t = 0)
    BY <2>1, <2>2, <2>6, Zenon DEF SplitAt, WindowInv
  <2>8. 0..(old - 1) \subseteq Ages /\ old..(Window - 1) \subseteq Ages
    BY <2>1 DEF Ages
  <2>9. PICK cut \in 0..Window :
          cut = IF t = 1 \/ c = 0 THEN 0 ELSE IF old = Window THEN Window ELSE old + 1
    BY <2>1
  <2>10. 0..(cut - 1) \subseteq Ages /\ cut..(Window - 1) \subseteq Ages
    BY <2>1 DEF Ages
  <2>11. AtMost(k, 0..(cut - 1), L)'
    <3>1. CASE t = 1 \/ c = 0
      <4>1. 0..(cut - 1) = {}
        BY <2>9, <3>1
      <4>2. Through(k, 0..(cut - 1))' = {}
        BY <4>1, Zenon DEF Through
      <4>3. IsFiniteSet({}) /\ Cardinality({}) <= L
        BY FS_EmptySet
      <4>4. QED
        BY <4>2, <4>3, Zenon DEF AtMost
    <3>2. CASE ~(t = 1 \/ c = 0)
      <4>1. \A age \in 0..(cut - 1) : age = 0 \/ age - 1 \in 0..(old - 1)
        BY <2>9, <3>2
      <4>2. QED
        BY <2>3, <2>7, <2>8, <2>10, <4>1, Older, Zenon
    <3>3. QED
      BY <3>1, <3>2, Zenon
  <2>12. ASSUME ~(t = 1 \/ c = 0) PROVE AtMost(k, 0..(cut - 1), c)'
    <3>1. \A age \in 0..(cut - 1) : age = 0 \/ age - 1 \in 0..(old - 1)
      BY <2>9, <2>12
    <3>2. QED
      BY <2>3, <2>7, <2>8, <2>10, <3>1, Older, Zenon
  <2>13. ASSUME t = 1 \/ c = 0 PROVE AtMost(k, 0..(cut - 1), 0)'
    <3>1. 0..(cut - 1) = {}
      BY <2>9, <2>13
    <3>2. Through(k, 0..(cut - 1))' = {}
      BY <3>1, Zenon DEF Through
    <3>3. QED
      BY <3>2, FS_EmptySet DEF AtMost
  <2>14. AtMost(k, cut..(Window - 1), L)'
    <3>1. CASE t = 1
      <4>1. old = Window
        BY <2>1, <2>7, <3>1
      <4>2. \A age \in cut..(Window - 1) : age = 0 \/ age - 1 \in 0..(old - 1)
        BY <2>9, <3>1, <4>1
      <4>3. QED
        BY <2>3, <2>7, <2>8, <2>10, <4>2, Older, Zenon
    <3>2. CASE t # 1
      <4>1. \A age \in cut..(Window - 1) : age = 0 \/ age - 1 \in old..(Window - 1)
        BY <2>1, <2>7, <2>9, <3>2
      <4>2. QED
        BY <2>3, <2>7, <2>8, <2>10, <4>1, Older, Zenon
    <3>3. QED
      BY <3>1, <3>2, Zenon
  <2>15. SplitAt(k, cut)'
    <3>1. AtMost(k, 0..(cut - 1), counter[k].count)'
      BY <2>5, <2>12, <2>13, <2>7, Zenon DEF AtMost
    <3>2. /\ counter'[k].ttl > 0 => cut + counter'[k].ttl > Window
          /\ counter'[k].count > 0 => cut > 0
          /\ counter'[k].count = 0 => cut = 0
      BY <2>1, <2>5, <2>7, <2>9
    <3>3. QED
      BY <2>2, <2>4, <2>11, <2>14, <3>1, <3>2, Zenon DEF SplitAt
  <2>16. counter'[k].count <= LimitOf[k[1]] + 1 /\ (counter'[k].count = 0 <=> counter'[k].ttl = 0)
    BY <2>2, <2>5, <2>7
  <2>17. QED
    BY <2>4, <2>5, <2>15, <2>16, Zenon DEF WindowInv
<1>3. QED
  BY <1>1, <1>2, Zenon DEF LimiterInv, LimitTypes

\* A counter loses its expiry and stays until the next attempt.
LEMMA ExpiryLostKeeps ==
  ASSUME LimiterInv, NEW k \in Metered, ExpiryLost(k)
  PROVE  LimiterInv'
<1>1. /\ DOMAIN counter' = Metered /\ passed' = passed /\ counter[k].ttl > 0
      /\ counter[k] \in [count : Nat, ttl : Int] /\ counter'[k] = [counter[k] EXCEPT !.ttl = -1]
      /\ \A x \in Metered : x # k => counter'[x] = counter[x]
  BY Zenon DEF LimiterInv, LimitTypes, ExpiryLost
<1>2. /\ counter'[k] \in [count : Nat, ttl : Int] /\ counter'[k].count = counter[k].count
      /\ counter'[k].ttl = -1
  BY <1>1
<1>3. LimitTypes'
  BY <1>1, <1>2, Zenon DEF LimiterInv, LimitTypes
<1>4. WindowInv(k)'
  <2>1. PICK cut \in 0..Window : SplitAt(k, cut)
    BY Zenon DEF LimiterInv, WindowInv
  <2>2. \A ages, n : AtMost(k, ages, n)' <=> AtMost(k, ages, n)
    <3>1. ASSUME NEW ages PROVE Through(k, ages)' = Through(k, ages)
      BY <1>1, Zenon DEF Through
    <3>2. QED
      BY <3>1, Zenon DEF AtMost
  <2>3. ~(-1 > 0) /\ -1 # 0
    OBVIOUS
  <2>4. SplitAt(k, cut)'
    BY <1>1, <1>2, <2>1, <2>2, <2>3, Zenon DEF SplitAt
  <2>5. counter[k].ttl # 0
    BY <1>1
  <2>6. QED
    BY <1>1, <1>2, <2>3, <2>4, <2>5, Zenon DEF LimiterInv, WindowInv
<1>5. QED
  BY <1>1, <1>3, <1>4, OtherWindow, Zenon DEF LimiterInv

\* Nothing was let through at the start.
LEMMA LimiterStarts ==
  ASSUME GatewayInit
  PROVE  LimiterInv
<1>1. 0 \in Nat /\ 0 \in Int /\ 0 \in 0..Window /\ 0 \in Ages
  BY GatewayConstantsOK DEF Ages
<1>2. LimitTypes
  <2>1. \A k \in Metered : counter[k] = [count |-> 0, ttl |-> 0] /\ passed[k] = [age \in Ages |-> 0]
    BY Zenon DEF GatewayInit, Ages
  <2>2. \A k \in Metered : counter[k] \in [count : Nat, ttl : Int] /\ passed[k] \in [Ages -> Nat]
    BY <2>1
  <2>3. QED
    BY <2>2, Zenon DEF GatewayInit, LimitTypes
<1>3. ASSUME NEW k \in Metered PROVE WindowInv(k)
  <2>1. /\ counter[k].count = 0 /\ counter[k].ttl = 0 /\ LimitOf[k[1]] \in Nat
        /\ passed[k] = [age \in Ages |-> 0]
    BY GatewayConstantsOK, Zenon DEF GatewayInit, Ages
  <2>2. ASSUME NEW ages \in SUBSET Ages, NEW n \in Nat PROVE AtMost(k, ages, n)
    <3>1. \A age \in ages : 1..passed[k][age] = {}
      BY <2>1
    <3>2. Through(k, ages) = {}
      BY <3>1, Attempts, Zenon
    <3>3. IsFiniteSet({}) /\ Cardinality({}) <= n
      BY FS_EmptySet
    <3>4. QED
      BY <3>2, <3>3, Zenon DEF AtMost
  <2>3. /\ 0..(0 - 1) \subseteq Ages /\ 0..(Window - 1) \subseteq Ages
        /\ 0 <= LimitOf[k[1]] + 1 /\ ~(0 > 0)
    BY <2>1 DEF Ages
  <2>4. passed[k][0] = 0
    BY <1>1, <2>1, Zenon
  <2>5. SplitAt(k, 0)
    BY <1>1, <2>1, <2>2, <2>3, <2>4, Zenon DEF SplitAt
  <2>6. QED
    BY <1>1, <2>1, <2>3, <2>5, Zenon DEF WindowInv
<1>4. QED
  BY <1>2, <1>3, Zenon DEF LimiterInv

\* Whatever does not touch the limiter.
LEMMA LimiterSteady ==
  ASSUME LimiterInv, UNCHANGED limits
  PROVE  LimiterInv'
<1>1. counter' = counter /\ passed' = passed
  BY Zenon DEF limits
<1>2. QED
  BY <1>1, OtherWindow, Zenon DEF LimiterInv, LimitTypes

\* Every step keeps the limiter's invariant.
LEMMA LimiterStep ==
  ASSUME LimiterInv, [CheckoutNext]_vars
  PROVE  LimiterInv'
<1>1. CASE UNCHANGED vars
  <2>1. UNCHANGED limits
    BY <1>1, Zenon DEF vars, gatewayVars, limits
  <2>2. QED
    BY <2>1, LimiterSteady, Zenon
<1>2. ASSUME NEW p \in People, PageStep(p) PROVE UNCHANGED limits
  <2>1. CASE buy(p) \/ PollOrder(p)
    BY <2>1, Zenon DEF buy, PollOrder
  <2>2. CASE SubmitEvent(p) \/ LoadAnalytics(p) \/ LoadEvents(p)
    BY <2>2, Zenon DEF SubmitEvent, LoadAnalytics, LoadEvents
  <2>3. CASE \E s \in Seats : toggle(p, s)
    BY <2>3, Zenon DEF toggle, gatewayVars, limits
  <2>4. QED
    BY <1>2, <2>1, <2>2, <2>3, Zenon DEF PageStep
<1>3. ASSUME NEW r \in Reqs, Receive(r) \/ Resend(r) \/ ConnectionDrops(r) PROVE UNCHANGED limits
  BY <1>3, Zenon DEF Receive, Resend, ConnectionDrops
<1>4. ASSUME NEW r \in Reqs, OrderService(r) PROVE UNCHANGED limits
  <2>1. CASE createOrder(r) \/ InsertFails(r) \/ OrderShown(r)
    BY <2>1, Zenon DEF createOrder, InsertFails, OrderShown
  <2>2. CASE Confirm(r) \/ Refuse(r) \/ Break(r) \/ Unfinished(r) \/ Replies(r)
    BY <2>2, Zenon DEF Confirm, Refuse, Break, Unfinished, Replies, Leaves
  <2>3. QED
    BY <1>4, <2>1, <2>2, Zenon DEF OrderService
<1>5. ASSUME NEW r \in Reqs, GatewayStep(r) PROVE LimiterInv'
  <2>1. CASE Serve(r)
    <3>1. \/ UNCHANGED limits
          \/ \E k \in Metered :
               /\ counter' = [counter EXCEPT ![k] = allowScript(k)]
               /\ IF WithinLimit(k) THEN passed' = [passed EXCEPT ![k][0] = @ + 1]
                                    ELSE passed' = passed
      BY <2>1, Zenon DEF Serve, limits
    <3>2. QED
      BY <3>1, LimiterSteady, AttemptKeeps, Zenon
  <2>2. ASSUME ~Serve(r) PROVE UNCHANGED limits
    BY <1>5, <2>2, Zenon DEF GatewayStep, HandlerStep, DeadlinePasses, CallCancelled, Fails,
       EventCreated, EventsListed, EventShown, StatsListed, NamesListed, limits
  <2>3. QED
    BY <2>1, <2>2, LimiterSteady, Zenon
<1>6. CASE Life
  <2>1. UNCHANGED limits
    BY <1>6, Zenon DEF Life, Drained, StartGateway, limits
  <2>2. QED
    BY <2>1, LimiterSteady, Zenon
<1>7. CASE Clock
  BY <1>7, TickKeeps, Zenon DEF Clock
<1>8. CASE Trouble
  <2>1. CASE Drain
    BY <2>1, LimiterSteady, Zenon DEF Drain, limits
  <2>2. CASE \E k \in Metered : ExpiryLost(k)
    BY <2>2, ExpiryLostKeeps, Zenon
  <2>3. CASE \E r \in Reqs : GatewayFault(r)
    BY <2>3, LimiterSteady, Zenon DEF GatewayFault, ServeUnlimited, CallBreaks, HandlerPanics,
       Fails, limits
  <2>4. QED
    BY <1>8, <2>1, <2>2, <2>3, Zenon DEF Trouble
<1>9. QED
  BY <1>1, <1>2, <1>3, <1>4, <1>5, <1>6, <1>7, <1>8, LimiterSteady, Zenon DEF CheckoutNext

(* The limiter's bookkeeping is always right: every attempt let through    *)
(* within the last window was counted by the present counter or by the one *)
(* before it, and neither has let through more than the limit.             *)
THEOREM LimiterAgrees == CheckoutSpec => []LimiterInv
<1>1. CheckoutInit => LimiterInv
  BY LimiterStarts, Zenon DEF CheckoutInit
<1>2. LimiterInv /\ [CheckoutNext]_vars => LimiterInv'
  BY LimiterStep, Zenon
<1>3. QED
  BY <1>1, <1>2, PTL DEF CheckoutSpec

(* Within any stretch as long as the window at most twice the limit passes *)
(* for a person and bucket, for every limit and length of the window.      *)
THEOREM BurstCorrect == CheckoutSpec => []BurstBound
<1>1. LimiterInv => BurstBound
  <2>1. SUFFICES ASSUME LimiterInv, NEW k \in Metered
                 PROVE  Cardinality(Through(k, 0..(Window - 1))) <= 2 * LimitOf[k[1]]
    BY Zenon DEF BurstBound
  <2>2. PICK cut \in 0..Window : SplitAt(k, cut)
    BY <2>1, Zenon DEF LimiterInv, WindowInv
  <2>3. LimitOf[k[1]] \in Nat
    BY GatewayConstantsOK, Zenon
  <2>4. QED
    BY <2>2, <2>3, BothParts, Zenon DEF SplitAt, Ages
<1>2. QED
  BY <1>1, LimiterAgrees, PTL

-----------------------------------------------------------------------------
(* A purchase.  First what is true of every request, page and order.       *)

AnyKey == Keys \cup {Foreign, NoKey}

RouteNames ==
  {"none", "create_order", "get_order", "create_event", "analytics", "list_events", "get_event"}
Reasons == {"none", "SEATS_UNAVAILABLE", "PAYMENT_DECLINED", "SERVICE_UNAVAILABLE"}
Codes ==
  {"none", "network", "ok", "created", "pending", "confirmed", "failed",
   "seats_unavailable", "payment_declined", "service_unavailable", "request_in_progress",
   "idempotency_key_reused", "invalid_argument", "not_found", "timeout", "canceled", "internal",
   "unauthenticated", "permission_denied", "rate_limited", "already_exists", "conflict", "cut_off"}

AnswerRec == [status : Int, code : Codes]

ReqRec ==
  [stage : {"free", "sent", "calling", "naming", "answered"}, from : People \cup {NoReq},
   route : RouteNames, token : BOOLEAN, seats : SUBSET Seats, key : AnyKey, n : Int, rows : Int,
   awaited : BOOLEAN, answer : AnswerRec,
   pc : {"none", "insert", "saga"} \cup Outcomes]

PageRec ==
  [at : {"closed", "event", "order", "organizer"}, selected : SUBSET Seats,
   pending : Reqs \cup {NoReq}, key : Keys \cup {NoKey}, kseats : SUBSET Seats, mine : AnyKey,
   seen : Codes, clicks : Int]

OrderRec ==
  [status : {"NONE", "PENDING", "CONFIRMED", "FAILED"}, reason : Reasons, seats : SUBSET Seats,
   charged : BOOLEAN]

ReqTypes == DOMAIN req = Reqs /\ \A r \in Reqs : req[r] \in ReqRec
PageTypes == DOMAIN page = People /\ \A p \in People : page[p] \in PageRec
ShopTypes ==
  /\ DOMAIN order = Keys \cup {Foreign} /\ \A k \in Keys \cup {Foreign} : order[k] \in OrderRec
  /\ sold \in [Seats -> Keys \cup {NoKey}]

\* What a request asks for fits its route, and a list fits its ceiling.
ReqOK(q) ==
  /\ q.route = "create_order" => q.key \in Keys
  /\ q.route = "get_order" => q.key # NoKey
  /\ q.route \notin {"create_order", "get_order"} => q.key = NoKey
  /\ q.pc # "none" => q.route = "create_order"
  /\ q.stage = "naming" => q.route = "analytics"
  /\ q.rows <= IF q.route = "analytics" THEN 100 ELSE 200

\* The page of an order knows which one it shows.
PageOK(pg) == pg.at = "order" => pg.mine # NoKey

\* Only one call carries out a purchase, and nothing is decided before it ends.
SagaInv ==
  /\ \A r \in Reqs : req[r].pc = "saga" =>
       order[req[r].key].status = "PENDING" /\ ~order[req[r].key].charged
  /\ \A r1, r2 \in Reqs :
       req[r1].pc = "saga" /\ req[r2].pc = "saga" /\ req[r1].key = req[r2].key => r1 = r2

Declined == {"SEATS_UNAVAILABLE", "PAYMENT_DECLINED"}

\* What order-svc records is so.
RecordInv(k) ==
  /\ order[k].status = "CONFIRMED" =>
       order[k].charged /\ \A s \in order[k].seats : sold[s] = k
  /\ order[k].status = "FAILED" /\ order[k].reason \in Declined => ~order[k].charged
  /\ order[k].status = "NONE" => ~order[k].charged

\* A key stands for one choice of seats, wherever it turns up.
KeysAgree(want) ==
  /\ \A r \in Reqs : req[r].route = "create_order" => req[r].seats = want[req[r].key]
  /\ \A p \in People : page[p].key # NoKey => page[p].kseats = want[page[p].key]
  /\ \A k \in Keys : order[k].status # "NONE" => order[k].seats = want[k]

Refused == {"seats_unavailable", "payment_declined"}

\* An answer that is out is true and stays true.
Truthful(q) ==
  q.stage = "answered" /\ q.key # NoKey =>
    /\ q.answer.status = 201 =>
         q.route = "create_order" /\ order[q.key].status = "CONFIRMED"
    /\ q.answer.code \in Refused =>
         /\ q.route = "create_order" /\ ~order[q.key].charged
         /\ order[q.key].status \in {"PENDING", "FAILED"} /\ ~Working(q.key)
    /\ q.route = "get_order" /\ q.answer.status = 200 =>
         q.key # Foreign \/ RoleOf[q.from] = "admin"
    /\ q.answer.code # "idempotency_key_reused"

\* What the service is about to say of the order of key k is true and stays true.
Pledge(k, outcome) ==
  /\ outcome = "created" => order[k].status = "CONFIRMED"
  /\ outcome \in Declined =>
       ~order[k].charged /\ order[k].status \in {"PENDING", "FAILED"} /\ ~Working(k)
  /\ outcome # "IDEMPOTENCY_KEY_REUSED"

CheckTypes == ReqTypes /\ PageTypes /\ ShopTypes

DecidedInv ==
  /\ SagaInv
  /\ \A r \in Reqs : ReqOK(req[r]) /\ Truthful(req[r]) /\ Pledge(req[r].key, req[r].pc)
  /\ \A p \in People : PageOK(page[p])
  /\ \A k \in Keys : RecordInv(k)

CheckInv ==
  /\ CheckTypes /\ DecidedInv
  /\ \E want \in [Keys -> SUBSET Seats] : KeysAgree(want)

\* Answers that claim nothing about an order.
Quiet(a) ==
  /\ a \in AnswerRec /\ a.status \notin {200, 201}
  /\ a.code \notin Refused /\ a.code # "idempotency_key_reused"

\* Errors that decide nothing, whatever the service or the middleware has found.
LEMMA QuietAnswers ==
  /\ \A o \in {"REQUEST_IN_PROGRESS", "SERVICE_UNAVAILABLE", "InvalidArgument", "NotFound",
               "Unavailable", "DeadlineExceeded", "Canceled", "Internal"} : Quiet(httpError[o])
  /\ Quiet(NoAnswer) /\ Quiet(Dropped) /\ Quiet(CutOff)
  /\ Quiet(Http(400, "invalid_argument")) /\ Quiet(Http(429, "rate_limited"))
  /\ Quiet(Http(401, "unauthenticated")) /\ Quiet(Http(403, "permission_denied"))
<1>1. \A o \in {"REQUEST_IN_PROGRESS", "SERVICE_UNAVAILABLE", "InvalidArgument", "NotFound",
               "Unavailable", "DeadlineExceeded", "Canceled", "Internal"} : Quiet(httpError[o])
  BY DEF Quiet, AnswerRec, Codes, httpError, Http, Refused
<1>2. Quiet(NoAnswer) /\ Quiet(Dropped) /\ Quiet(CutOff)
  BY DEF Quiet, AnswerRec, Codes, NoAnswer, Dropped, CutOff, Refused
<1>3. /\ Quiet(Http(400, "invalid_argument")) /\ Quiet(Http(429, "rate_limited"))
      /\ Quiet(Http(401, "unauthenticated")) /\ Quiet(Http(403, "permission_denied"))
  BY DEF Quiet, AnswerRec, Codes, Http, Refused
<1>4. QED
  BY <1>1, <1>2, <1>3, Zenon

\* The same person asks for the same.
SameAsk(e, q) == e.from = q.from /\ e.route = q.route /\ e.seats = q.seats /\ e.key = q.key

Answered(q, a) == [q EXCEPT !.stage = "answered", !.answer = a]

\* An answer is written: nothing else of the request changes.
LEMMA AnsweredFields ==
  ASSUME NEW q \in ReqRec, NEW a \in AnswerRec
  PROVE  LET e == Answered(q, a)
         IN  /\ e \in ReqRec /\ SameAsk(e, q) /\ e.rows = q.rows /\ e.pc = q.pc
             /\ e.stage = "answered" /\ e.answer = a /\ e.awaited = q.awaited
<1> DEFINE e == [q EXCEPT !.stage = "answered", !.answer = a]
<1>1. e \in ReqRec
  BY Zenon DEF ReqRec
<1>2. SameAsk(e, q)
  BY Zenon DEF ReqRec, SameAsk
<1>3. /\ e.rows = q.rows /\ e.pc = q.pc /\ e.stage = "answered"
      /\ e.answer = a /\ e.awaited = q.awaited
  BY Zenon DEF ReqRec
<1>4. QED
  BY <1>1, <1>2, <1>3, Zenon DEF Answered

\* A free slot for a request.
LEMMA UnsentFields ==
  /\ Unsent \in ReqRec /\ ReqOK(Unsent) /\ Unsent.route = "none" /\ Unsent.stage = "free"
  /\ Unsent.pc = "none" /\ Unsent.key = NoKey /\ Unsent.rows = 0 /\ Unsent.seats = {}
<1>1. NoAnswer \in AnswerRec
  BY QuietAnswers, ZenonT(60) DEF Quiet
<1>2. Unsent \in ReqRec
  BY <1>1 DEF Unsent, ReqRec, AnyKey, RouteNames
<1>3. /\ Unsent.route = "none" /\ Unsent.stage = "free" /\ Unsent.rows = 0 /\ Unsent.seats = {}
      /\ Unsent.pc = "none" /\ Unsent.key = NoKey
  BY Zenon DEF Unsent
<1>4. ReqOK(Unsent)
  BY <1>3 DEF ReqOK
<1>5. QED
  BY <1>2, <1>3, <1>4, Zenon

\* A request that is not answered, or quietly, claims nothing.
LEMMA QuietTruth ==
  ASSUME NEW q, q.stage = "answered" => Quiet(q.answer)
  PROVE  Truthful(q)
  BY Zenon DEF Truthful, Quiet

\* A call that is not about to say anything pledges nothing.
LEMMA NoPledge ==
  /\ \A k : Pledge(k, "none") /\ Pledge(k, "insert") /\ Pledge(k, "saga")
  /\ "none" \notin Outcomes /\ "insert" \notin Outcomes /\ "saga" \notin Outcomes
<1>1. \A k : Pledge(k, "none") /\ Pledge(k, "insert") /\ Pledge(k, "saga")
  BY DEF Pledge, Declined
<1>2. "none" \notin Outcomes /\ "insert" \notin Outcomes /\ "saga" \notin Outcomes
  BY DEF Outcomes, httpError
<1>3. QED
  BY <1>1, <1>2, Zenon

-----------------------------------------------------------------------------
(* One request changes and no order does.                                  *)

\* The other requests, the orders and what was said about them stay right.
LEMMA OneReq ==
  ASSUME CheckTypes, DecidedInv, NEW r \in Reqs, NEW e \in ReqRec, req' = [req EXCEPT ![r] = e],
         UNCHANGED shop, ReqOK(e), Truthful(e), Pledge(e.key, e.pc),
         e.pc = "saga" => req[r].pc = "saga" /\ e.key = req[r].key
  PROVE  /\ ReqTypes' /\ ShopTypes' /\ SagaInv' /\ \A k \in Keys : RecordInv(k)'
         /\ \A x \in Reqs : ReqOK(req[x])' /\ Truthful(req[x])' /\ Pledge(req[x].key, req[x].pc)'
<1>1. order' = order /\ sold' = sold
  BY Zenon DEF shop
<1>2. DOMAIN req' = Reqs /\ req'[r] = e /\ \A x \in Reqs : x # r => req'[x] = req[x]
  BY Zenon DEF CheckTypes, ReqTypes
<1>3. ReqTypes' /\ ShopTypes'
  BY <1>1, <1>2, Zenon DEF CheckTypes, ReqTypes, ShopTypes
<1>4. \A x \in Reqs : req'[x].pc = "saga" => req[x].pc = "saga" /\ req'[x].key = req[x].key
  BY <1>2, Zenon
<1>5. SagaInv'
  BY <1>1, <1>4, ZenonT(60) DEF DecidedInv, SagaInv
<1>6. \A k : Working(k)' => Working(k)
  BY <1>4, Zenon DEF Working, InSaga
<1>7. \A k \in Keys : RecordInv(k)'
  BY <1>1, Zenon DEF DecidedInv, RecordInv
<1>8. ASSUME NEW x \in Reqs
      PROVE  ReqOK(req[x])' /\ Truthful(req[x])' /\ Pledge(req[x].key, req[x].pc)'
  <2>1. CASE x = r
    <3>1. req'[x] = e
      BY <1>2, <2>1, Zenon
    <3>2. ReqOK(req[x])'
      BY <3>1 DEF ReqOK
    <3>3. Truthful(req[x])'
      BY <1>1, <1>6, <3>1 DEF Truthful
    <3>4. Pledge(req[x].key, req[x].pc)'
      BY <1>1, <1>6, <3>1, Zenon DEF Pledge
    <3>5. QED
      BY <3>2, <3>3, <3>4, Zenon
  <2>2. CASE x # r
    <3>1. /\ req'[x] = req[x] /\ ReqOK(req[x]) /\ Truthful(req[x])
          /\ Pledge(req[x].key, req[x].pc)
      BY <1>2, <2>2, Zenon DEF DecidedInv
    <3>2. ReqOK(req[x])'
      BY <3>1 DEF ReqOK
    <3>3. Truthful(req[x])'
      BY <1>1, <1>6, <3>1 DEF Truthful
    <3>4. Pledge(req[x].key, req[x].pc)'
      BY <1>1, <1>6, <3>1, Zenon DEF Pledge
    <3>5. QED
      BY <3>2, <3>3, <3>4, Zenon
  <2>3. QED
    BY <2>1, <2>2, Zenon
<1>9. QED
  BY <1>3, <1>5, <1>7, <1>8, Zenon

\* The keeper has its key, or has let it go.
KeyKept(e, pg) == e.key = NoKey \/ (e.key = pg.key /\ e.kseats = pg.kseats)

\* Pages that keep their keys or let them go.
PagesKeep ==
  PageTypes' /\ \A p \in People : PageOK(page'[p]) /\ KeyKept(page'[p], page[p])

\* The page stays as it is.
LEMMA PagesSteady ==
  ASSUME CheckInv, page' = page
  PROVE  PagesKeep
  BY Zenon DEF CheckInv, CheckTypes, PageTypes, DecidedInv, PagesKeep, KeyKept

\* A request moves on, or is forgotten.
LEMMA ReqStep ==
  ASSUME CheckInv, PagesKeep, NEW r \in Reqs, NEW x \in ReqRec, NEW e, e = x \/ e = Unsent,
         req' = [req EXCEPT ![r] = e], UNCHANGED shop, SameAsk(x, req[r]), ReqOK(x), Truthful(x),
         x.pc = req[r].pc \/ (x.pc # "saga" /\ Pledge(x.key, x.pc))
  PROVE  CheckInv'
<1>1. CheckTypes /\ DecidedInv
  BY Zenon DEF CheckInv
<1>2. e \in ReqRec /\ ReqOK(e) /\ Truthful(e)
  <2>1. Truthful(Unsent)
    BY UnsentFields, Zenon DEF Truthful
  <2>2. QED
    BY <2>1, UnsentFields, Zenon
<1>3. e.pc = "saga" => req[r].pc = "saga" /\ e.key = req[r].key
  <2>1. "none" # "saga"
    OBVIOUS
  <2>2. QED
    BY <2>1, UnsentFields, Zenon DEF SameAsk
<1>9. Pledge(e.key, e.pc)
  <2>1. Pledge(req[r].key, req[r].pc)
    BY <1>1, Zenon DEF DecidedInv
  <2>2. Pledge(x.key, x.pc)
    BY <2>1, Zenon DEF SameAsk
  <2>3. Pledge(Unsent.key, Unsent.pc)
    BY UnsentFields, NoPledge, Zenon
  <2>4. QED
    BY <2>2, <2>3, Zenon
<1>4. /\ ReqTypes' /\ ShopTypes' /\ SagaInv' /\ \A k \in Keys : RecordInv(k)'
      /\ \A y \in Reqs : ReqOK(req[y])' /\ Truthful(req[y])' /\ Pledge(req[y].key, req[y].pc)'
  BY <1>1, <1>2, <1>3, <1>9, OneReq, Zenon
<1>5. PageTypes' /\ \A p \in People : PageOK(page[p])'
  BY Zenon DEF PagesKeep, PageOK
<1>6. PICK want \in [Keys -> SUBSET Seats] : KeysAgree(want)
  BY Zenon DEF CheckInv
<1>7. KeysAgree(want)'
  <2>1. req'[r] = e /\ \A y \in Reqs : y # r => req'[y] = req[y]
    BY <1>1, Zenon DEF CheckTypes, ReqTypes
  <2>2. ASSUME NEW y \in Reqs, req'[y].route = "create_order"
        PROVE  req'[y].seats = want[req'[y].key]
    <3>1. CASE y = r
      <4>1. "none" # "create_order" /\ req'[y] = e
        BY <2>1, <3>1, Zenon
      <4>2. req'[y] = x
        BY <2>2, <4>1, UnsentFields, Zenon
      <4>3. x.route = req[r].route /\ x.seats = req[r].seats /\ x.key = req[r].key
        BY Zenon DEF SameAsk
      <4>4. QED
        BY <1>6, <2>2, <4>2, <4>3, Zenon DEF KeysAgree
    <3>2. CASE y # r
      BY <1>6, <2>1, <2>2, <3>2, Zenon DEF KeysAgree
    <3>3. QED
      BY <3>1, <3>2, Zenon
  <2>3. \A p \in People : page'[p].key # NoKey => page'[p].kseats = want[page'[p].key]
    BY <1>6, Zenon DEF KeysAgree, PagesKeep, KeyKept
  <2>4. order' = order
    BY Zenon DEF shop
  <2>5. QED
    BY <1>6, <2>2, <2>3, <2>4, Zenon DEF KeysAgree
<1>8. QED
  BY <1>4, <1>5, <1>7, Zenon DEF CheckInv, CheckTypes, DecidedInv

\* The answer to a request is quiet, or claims what is so.
LEMMA AnswerKeeps ==
  ASSUME CheckInv, NEW r \in Reqs, NEW a \in AnswerRec, req' = Answer(r, a),
         Truthful(Answered(req[r], a)), UNCHANGED <<page, shop>>
  PROVE  CheckInv'
<1> DEFINE x == Answered(req[r], a)
<1>1. req[r] \in ReqRec /\ ReqOK(req[r])
  BY Zenon DEF CheckInv, CheckTypes, ReqTypes, DecidedInv
<1>2. /\ x \in ReqRec /\ SameAsk(x, req[r]) /\ x.rows = req[r].rows /\ x.pc = req[r].pc
      /\ x.stage = "answered"
  BY <1>1, AnsweredFields, Zenon
<1>3. req' = [req EXCEPT ![r] = Kept(x)]
  BY Zenon DEF Answer, Answered
<1> HIDE DEF x
<1>4. Kept(x) = x \/ Kept(x) = Unsent
  BY Zenon DEF Kept
<1>5. ReqOK(x)
  BY <1>1, <1>2 DEF ReqOK, SameAsk
<1>6. PagesKeep /\ UNCHANGED shop
  BY PagesSteady, Zenon
<1>7. QED
  BY <1>2, <1>3, <1>4, <1>5, <1>6, ReqStep, Zenon DEF x

\* The same when the answer claims nothing.
LEMMA QuietKeeps ==
  ASSUME CheckInv, NEW r \in Reqs, NEW a, Quiet(a), req' = Answer(r, a), UNCHANGED <<page, shop>>
  PROVE  CheckInv'
<1>1. req[r] \in ReqRec /\ a \in AnswerRec
  BY Zenon DEF CheckInv, CheckTypes, ReqTypes, Quiet
<1>2. Answered(req[r], a).answer = a
  BY <1>1, AnsweredFields, Zenon
<1>3. Truthful(Answered(req[r], a))
  BY <1>2, QuietTruth, Zenon
<1>4. QED
  BY <1>1, <1>3, AnswerKeeps, Zenon

\* The handler calls the service, or refuses what it cannot accept.
LEMMA HandledKeeps ==
  ASSUME CheckInv, NEW r \in Reqs, req' = Handled(r), UNCHANGED <<page, shop>>
  PROVE  CheckInv'
<1> DEFINE q == req[r]
           pc == IF q.route = "create_order" THEN "insert" ELSE q.pc
           x == [q EXCEPT !.stage = "calling", !.pc = pc]
<1>1. q \in ReqRec /\ ReqOK(q)
  BY Zenon DEF CheckInv, CheckTypes, ReqTypes, DecidedInv
<1>2. CASE BodyOK(q)
  <2>1. req' = [req EXCEPT ![r] = x]
    BY <1>1, <1>2, Zenon DEF Handled, CheckInv, CheckTypes, ReqTypes, ReqRec
  <2>2. /\ pc \in {"none", "insert", "saga"} \cup Outcomes
        /\ pc = q.pc \/ (pc # "saga" /\ Pledge(x.key, pc))
    <3>1. "insert" # "saga" /\ Pledge(x.key, "insert")
      BY NoPledge, Zenon
    <3>2. QED
      BY <1>1, <3>1, Zenon DEF ReqRec
  <2> HIDE DEF pc
  <2>3. x \in ReqRec
    BY <1>1, <2>2, Zenon DEF ReqRec
  <2>4. SameAsk(x, q) /\ x.rows = q.rows /\ x.pc = pc /\ x.stage = "calling"
    BY <1>1, Zenon DEF ReqRec, SameAsk
  <2>5. ReqOK(x)
    BY <1>1, <2>4 DEF ReqOK, SameAsk, pc
  <2>6. Truthful(x)
    BY <2>4, QuietTruth, Zenon
  <2> HIDE DEF x
  <2>7. PagesKeep /\ UNCHANGED shop
    BY PagesSteady, Zenon
  <2>8. QED
    BY <2>1, <2>2, <2>3, <2>4, <2>5, <2>6, <2>7, ReqStep, Zenon
<1>3. CASE ~BodyOK(q)
  <2>1. Quiet(Http(400, "invalid_argument"))
    BY QuietAnswers, Zenon
  <2>2. req' = Answer(r, Http(400, "invalid_argument"))
    BY <1>3, Zenon DEF Handled
  <2>3. QED
    BY <2>1, <2>2, QuietKeeps, Zenon
<1>4. QED
  BY <1>2, <1>3, Zenon

\* The middleware's refusals are quiet.
LEMMA RefusalQuiet ==
  ASSUME NEW q
  PROVE  Quiet(Refusal(q))
  BY QuietAnswers, Zenon DEF Refusal

\* The middleware lets the request pass or answers it.
LEMMA ServeKeeps ==
  ASSUME CheckInv, NEW r \in Reqs, Serve(r) \/ ServeUnlimited(r), UNCHANGED <<page, shop>>
  PROVE  CheckInv'
<1>1. \/ req' = Answer(r, Refusal(req[r])) \/ req' = Handled(r)
      \/ req' = Answer(r, Http(429, "rate_limited"))
  BY Zenon DEF Serve, ServeUnlimited
<1>2. CASE req' = Answer(r, Refusal(req[r]))
  <2>1. Quiet(Refusal(req[r]))
    BY RefusalQuiet, Zenon
  <2>2. QED
    BY <1>2, <2>1, QuietKeeps, Zenon
<1>3. CASE req' = Handled(r)
  BY <1>3, HandledKeeps, Zenon
<1>4. CASE req' = Answer(r, Http(429, "rate_limited"))
  <2>1. Quiet(Http(429, "rate_limited"))
    BY QuietAnswers, Zenon
  <2>2. QED
    BY <1>4, <2>1, QuietKeeps, Zenon
<1>5. QED
  BY <1>1, <1>2, <1>3, <1>4, Zenon

\* The call to a service fails.
LEMMA FailsKeeps ==
  ASSUME CheckInv, NEW r \in Reqs, UNCHANGED <<page, shop>>,
         NEW o \in {"DeadlineExceeded", "Unavailable", "Internal", "Canceled"}, Fails(r, o)
  PROVE  CheckInv'
<1>1. Quiet(httpError[o])
  BY QuietAnswers, Zenon
<1>2. req' = Answer(r, httpError[o])
  BY Zenon DEF Fails
<1>3. QED
  BY <1>1, <1>2, QuietKeeps, Zenon

\* A request without a key claims nothing about an order.
LEMMA KeylessTruth ==
  ASSUME CheckInv, NEW r \in Reqs, req[r].route \notin {"create_order", "get_order"},
         NEW x, SameAsk(x, req[r])
  PROVE  Truthful(x)
<1>1. req[r].key = NoKey
  BY Zenon DEF CheckInv, DecidedInv, ReqOK
<1>2. QED
  BY <1>1, Zenon DEF Truthful, SameAsk

\* An event is created, or shown.
LEMMA EventKeeps ==
  ASSUME CheckInv, NEW r \in Reqs, EventCreated(r) \/ EventShown(r), UNCHANGED <<page, shop>>
  PROVE  CheckInv'
<1>1. Http(201, "created") \in AnswerRec /\ Http(200, "ok") \in AnswerRec
  BY DEF AnswerRec, Codes, Http
<1>2. httpError["InvalidArgument"] \in AnswerRec /\ httpError["NotFound"] \in AnswerRec
  BY QuietAnswers, ZenonT(60) DEF Quiet
<1>3. PICK a \in AnswerRec : req' = Answer(r, a)
  <2>1. CASE EventCreated(r)
    BY <1>1, <1>2, <2>1, Zenon DEF EventCreated
  <2>2. CASE EventShown(r)
    BY <1>1, <1>2, <2>2, Zenon DEF EventShown, GetEvent
  <2>3. QED
    BY <2>1, <2>2, Zenon
<1>4. req[r].route \notin {"create_order", "get_order"}
  <2>1. req[r].route = "create_event" \/ req[r].route = "get_event"
    BY Zenon DEF EventCreated, EventShown
  <2>2. QED
    BY <2>1
<1>5. SameAsk(Answered(req[r], a), req[r])
  BY AnsweredFields, Zenon DEF CheckInv, CheckTypes, ReqTypes
<1>6. QED
  BY <1>3, <1>4, <1>5, KeylessTruth, AnswerKeeps, Zenon

\* Neither list is longer than its ceiling.
LEMMA ListBounds ==
  ASSUME NEW n \in Int
  PROVE  /\ ListEvents(n) \in Int /\ ListEvents(n) <= 200
         /\ ListEventStats(n) \in Int /\ ListEventStats(n) <= 100
<1>1. clampEventLimit(n) \in Int /\ clampEventLimit(n) <= 200
  <2>1. Min({n, 200}) = IF n <= 200 THEN n ELSE 200
    BY LesserOfTwo
  <2>2. QED
    BY <2>1 DEF clampEventLimit
<1>2. clampLimit(n) \in Int /\ clampLimit(n) <= 100
  <2>1. Min({n, 100}) = IF n <= 100 THEN n ELSE 100
    BY LesserOfTwo
  <2>2. QED
    BY <2>1 DEF clampLimit
<1>3. EventRows \in Int
  BY GatewayConstantsOK
<1>4. ListEvents(n) = IF clampEventLimit(n) <= EventRows THEN clampEventLimit(n) ELSE EventRows
  BY <1>1, <1>3, LesserOfTwo, Zenon DEF ListEvents
<1>5. ListEventStats(n) = IF clampLimit(n) <= EventRows THEN clampLimit(n) ELSE EventRows
  BY <1>2, <1>3, LesserOfTwo, Zenon DEF ListEventStats
<1>6. QED
  BY <1>1, <1>2, <1>3, <1>4, <1>5

\* The rows of a list are written.
LEMMA AnswerRowsKeep ==
  ASSUME CheckInv, NEW r \in Reqs, UNCHANGED <<page, shop>>, NEW rows \in Int,
         rows <= IF req[r].route = "analytics" THEN 100 ELSE 200, req' = AnswerRows(r, rows),
         req[r].route \notin {"create_order", "get_order"}
  PROVE  CheckInv'
<1> DEFINE q == req[r]
           a == Http(200, "ok")
           x == [q EXCEPT !.stage = "answered", !.answer = a, !.rows = rows]
<1>1. q \in ReqRec /\ ReqOK(q)
  BY Zenon DEF CheckInv, CheckTypes, ReqTypes, DecidedInv
<1>2. a \in AnswerRec
  BY DEF AnswerRec, Codes, Http
<1>3. req' = [req EXCEPT ![r] = Kept(x)]
  BY Zenon DEF AnswerRows
<1> HIDE DEF a
<1>4. x \in ReqRec
  BY <1>1, <1>2, Zenon DEF ReqRec
<1>5. SameAsk(x, q) /\ x.rows = rows /\ x.pc = q.pc /\ x.stage = "answered"
  BY <1>1, Zenon DEF ReqRec, SameAsk
<1> HIDE DEF x
<1>6. ReqOK(x)
  BY <1>1, <1>5 DEF ReqOK, SameAsk
<1>7. Truthful(x)
  BY <1>5, KeylessTruth, Zenon
<1>8. Kept(x) = x \/ Kept(x) = Unsent
  BY Zenon DEF Kept
<1>9. PagesKeep /\ UNCHANGED shop
  BY PagesSteady, Zenon
<1>10. QED
  BY <1>3, <1>4, <1>5, <1>6, <1>7, <1>8, <1>9, ReqStep, Zenon

\* The numbers of the events have come, their names are fetched.
LEMMA StatsKeep ==
  ASSUME CheckInv, NEW r \in Reqs, UNCHANGED <<page, shop>>, StatsListed(r)
  PROVE  CheckInv'
<1> DEFINE q == req[r]
           rows == ListEventStats(q.n)
           x == [q EXCEPT !.stage = "naming", !.rows = rows]
<1>1. q \in ReqRec /\ ReqOK(q)
  BY Zenon DEF CheckInv, CheckTypes, ReqTypes, DecidedInv
<1>2. rows \in Int /\ rows <= 100
  BY <1>1, ListBounds, Zenon DEF ReqRec
<1>3. req' = [req EXCEPT ![r] = x] /\ q.route = "analytics"
  BY <1>1, Zenon DEF StatsListed, CheckInv, CheckTypes, ReqTypes, ReqRec
<1> HIDE DEF rows
<1>4. x \in ReqRec
  BY <1>1, <1>2, Zenon DEF ReqRec
<1>5. SameAsk(x, q) /\ x.rows = rows /\ x.pc = q.pc /\ x.stage = "naming"
  BY <1>1, Zenon DEF ReqRec, SameAsk
<1> HIDE DEF x
<1>6. ReqOK(x)
  BY <1>1, <1>2, <1>3, <1>5 DEF ReqOK, SameAsk
<1>7. Truthful(x)
  BY <1>5, QuietTruth, Zenon
<1>8. PagesKeep /\ UNCHANGED shop
  BY PagesSteady, Zenon
<1>9. QED
  BY <1>3, <1>4, <1>5, <1>6, <1>7, <1>8, ReqStep, Zenon

\* A list is written, with names or without.
LEMMA ListsKeep ==
  ASSUME CheckInv, NEW r \in Reqs, UNCHANGED <<page, shop>>, EventsListed(r) \/ NamesListed(r)
  PROVE  CheckInv'
<1>1. req[r] \in ReqRec /\ ReqOK(req[r])
  BY Zenon DEF CheckInv, CheckTypes, ReqTypes, DecidedInv
<1>2. CASE EventsListed(r)
  <2>1. req[r].route = "list_events" /\ req' = AnswerRows(r, ListEvents(req[r].n))
    BY <1>2, Zenon DEF EventsListed
  <2>2. ListEvents(req[r].n) \in Int /\ ListEvents(req[r].n) <= 200
    BY <1>1, ListBounds, Zenon DEF ReqRec
  <2>3. QED
    BY <2>1, <2>2, AnswerRowsKeep, Zenon
<1>3. CASE NamesListed(r)
  <2>1. req[r].route = "analytics" /\ req' = AnswerRows(r, req[r].rows)
    BY <1>1, <1>3, Zenon DEF NamesListed, ReqOK
  <2>2. req[r].rows \in Int /\ req[r].rows <= 100
    BY <1>1, <2>1, Zenon DEF ReqRec, ReqOK
  <2>3. QED
    BY <2>1, <2>2, AnswerRowsKeep, Zenon
<1>4. QED
  BY <1>2, <1>3, Zenon

\* The gateway's part in a purchase keeps the invariant.
LEMMA GatewayKeeps ==
  ASSUME CheckInv, NEW r \in Reqs, HandlerStep(r) \/ GatewayFault(r), UNCHANGED <<page, shop>>
  PROVE  CheckInv'
<1>1. CASE Serve(r) \/ ServeUnlimited(r)
  BY <1>1, ServeKeeps, Zenon
<1>2. CASE DeadlinePasses(r) \/ CallCancelled(r) \/ CallBreaks(r) \/ HandlerPanics(r)
  <2>1. PICK o \in {"DeadlineExceeded", "Unavailable", "Internal", "Canceled"} : Fails(r, o)
    BY <1>2, Zenon DEF DeadlinePasses, CallCancelled, CallBreaks, HandlerPanics
  <2>2. QED
    BY <2>1, FailsKeeps, Zenon
<1>3. CASE EventCreated(r) \/ EventShown(r)
  BY <1>3, EventKeeps, Zenon
<1>4. CASE StatsListed(r)
  BY <1>4, StatsKeep, Zenon
<1>5. CASE EventsListed(r) \/ NamesListed(r)
  BY <1>5, ListsKeep, Zenon
<1>6. QED
  BY <1>1, <1>2, <1>3, <1>4, <1>5, Zenon DEF HandlerStep, GatewayFault

-----------------------------------------------------------------------------
(* The page hears of an answer.                                            *)

\* The request is sent once more with a new access token.
LEMMA ResendKeeps ==
  ASSUME CheckInv, NEW r \in Reqs, Resend(r)
  PROVE  CheckInv'
<1> DEFINE q == req[r]
           x == [q EXCEPT !.stage = "sent", !.token = TRUE, !.answer = NoAnswer]
<1>1. q \in ReqRec /\ ReqOK(q)
  BY Zenon DEF CheckInv, CheckTypes, ReqTypes, DecidedInv
<1>2. NoAnswer \in AnswerRec
  BY QuietAnswers, ZenonT(60) DEF Quiet
<1>3. req' = [req EXCEPT ![r] = x]
  BY <1>1, Zenon DEF Resend, CheckInv, CheckTypes, ReqTypes, ReqRec
<1>4. x \in ReqRec
  BY <1>1, <1>2, ZenonT(30) DEF ReqRec
<1>5. SameAsk(x, q) /\ x.rows = q.rows /\ x.pc = q.pc /\ x.stage = "sent"
  BY <1>1, Zenon DEF ReqRec, SameAsk
<1> HIDE DEF x
<1>6. ReqOK(x)
  BY <1>1, <1>5 DEF ReqOK, SameAsk
<1>7. Truthful(x)
  BY <1>5, QuietTruth, Zenon
<1>8. PagesKeep /\ UNCHANGED shop
  BY PagesSteady, Zenon DEF Resend
<1>9. QED
  BY <1>3, <1>4, <1>5, <1>6, <1>7, <1>8, ReqStep, Zenon

\* What the page shows of an answer, and where a purchase leads.
LEMMA ShownFields ==
  ASSUME NEW pg \in PageRec, PageOK(pg), NEW a \in AnswerRec
  PROVE  Shown(pg, a) \in PageRec /\ PageOK(Shown(pg, a)) /\ KeyKept(Shown(pg, a), pg)
<1> DEFINE s == CASE a.status = 200 -> a.code
                  [] a.status = 404 -> "not_found"
                  [] OTHER -> pg.seen
           e == [pg EXCEPT !.seen = s]
<1>1. s \in Codes
  BY DEF AnswerRec, PageRec, Codes
<1>2. Shown(pg, a) = e
  BY Zenon DEF Shown
<1> HIDE DEF s
<1>3. e \in PageRec
  BY <1>1, Zenon DEF PageRec
<1>4. e.at = pg.at /\ e.mine = pg.mine /\ e.key = pg.key /\ e.kseats = pg.kseats
  BY Zenon DEF PageRec
<1>5. QED
  BY <1>2, <1>3, <1>4, Zenon DEF PageOK, KeyKept

\* A page that was just opened.
LEMMA OpenedFields ==
  ASSUME NEW at \in {"closed", "event", "order", "organizer"}, NEW mine \in AnyKey
  PROVE  LET e == [Opened(at) EXCEPT !.mine = mine]
         IN  e \in PageRec /\ e.at = at /\ e.mine = mine /\ e.key = NoKey
<1>1. 0 \in Int
  OBVIOUS
<1>2. QED
  BY <1>1, Zenon DEF Opened, PageRec, AnyKey, Codes

\* Where a purchase leads.
LEMMA BoughtFields ==
  ASSUME NEW pg \in PageRec, PageOK(pg), NEW q \in ReqRec, q.key \in Keys, NEW a \in AnswerRec
  PROVE  Bought(pg, q, a) \in PageRec /\ PageOK(Bought(pg, q, a)) /\ KeyKept(Bought(pg, q, a), pg)
<1>1. CASE a.status = 201
  <2> DEFINE e == [Opened("order") EXCEPT !.mine = q.key]
  <2>1. Bought(pg, q, a) = e
    BY <1>1, Zenon DEF Bought
  <2>2. q.key \in AnyKey /\ q.key # NoKey
    BY GatewayConstantsOK, Zenon DEF AnyKey
  <2>3. e \in PageRec /\ e.mine = q.key /\ e.key = NoKey
    BY <2>2, OpenedFields, Zenon
  <2>4. QED
    BY <2>1, <2>2, <2>3, Zenon DEF PageOK, KeyKept
<1>2. CASE a.status # 201 /\ Settles(a)
  <2> DEFINE e == [pg EXCEPT !.selected = {}]
  <2>1. Bought(pg, q, a) = e
    BY <1>2, Zenon DEF Bought
  <2>2. e \in PageRec
    BY Zenon DEF PageRec
  <2>3. e.at = pg.at /\ e.mine = pg.mine /\ e.key = pg.key /\ e.kseats = pg.kseats
    BY Zenon DEF PageRec
  <2>4. QED
    BY <2>1, <2>2, <2>3, Zenon DEF PageOK, KeyKept
<1>3. CASE a.status # 201 /\ ~Settles(a)
  <2>1. Bought(pg, q, a) = pg
    BY <1>3, Zenon DEF Bought
  <2>2. QED
    BY <2>1, Zenon DEF KeyKept
<1>4. QED
  BY <1>1, <1>2, <1>3, Zenon

\* Whatever the page hears, it keeps its key or lets it go.
LEMMA ToldFields ==
  ASSUME NEW pg \in PageRec, PageOK(pg), NEW r, NEW q \in ReqRec, ReqOK(q), NEW a \in AnswerRec
  PROVE  /\ Told(pg, r, q, a) \in PageRec /\ PageOK(Told(pg, r, q, a))
         /\ KeyKept(Told(pg, r, q, a), pg)
<1> DEFINE let == [pg EXCEPT !.key = NoKey, !.kseats = {}]
           kept == IF q.route = "create_order" /\ Settles(a) THEN let ELSE pg
           idle == [kept EXCEPT !.pending = NoReq]
<1>1. let \in PageRec
  BY Zenon DEF PageRec
<1>2. let.at = pg.at /\ let.mine = pg.mine /\ let.key = NoKey
  BY Zenon DEF PageRec
<1>3. kept \in PageRec /\ PageOK(kept) /\ KeyKept(kept, pg)
  BY <1>1, <1>2, Zenon DEF PageOK, KeyKept
<1>4. Told(pg, r, q, a) = CASE pg.pending # r -> kept
                            [] pg.pending = r /\ q.route = "create_order" -> Bought(idle, q, a)
                            [] pg.pending = r /\ q.route = "get_order" -> Shown(idle, a)
                            [] OTHER -> idle
  BY Zenon DEF Told
<1> HIDE DEF kept
<1>5. idle \in PageRec
  BY <1>3, Zenon DEF PageRec
<1>6. idle.at = kept.at /\ idle.mine = kept.mine /\ idle.key = kept.key /\ idle.kseats = kept.kseats
  BY <1>3, Zenon DEF PageRec
<1>7. PageOK(idle) /\ KeyKept(idle, pg)
  BY <1>3, <1>6, Zenon DEF PageOK, KeyKept
<1> HIDE DEF idle
<1>8. \A e : KeyKept(e, idle) => KeyKept(e, pg)
  BY <1>7, Zenon DEF KeyKept
<1>9. CASE pg.pending # r
  BY <1>3, <1>4, <1>9, Zenon
<1>10. CASE pg.pending = r /\ q.route = "create_order"
  <2>1. Told(pg, r, q, a) = Bought(idle, q, a) /\ q.key \in Keys
    BY <1>4, <1>10, Zenon DEF ReqOK
  <2>2. QED
    BY <1>5, <1>7, <1>8, <2>1, BoughtFields, Zenon
<1>11. CASE pg.pending = r /\ q.route = "get_order"
  <2>1. Told(pg, r, q, a) = Shown(idle, a)
    <3>1. q.route # "create_order"
      BY <1>11, Zenon
    <3>2. QED
      BY <1>4, <1>11, <3>1, Zenon
  <2>2. QED
    BY <1>5, <1>7, <1>8, <2>1, ShownFields, Zenon
<1>12. CASE pg.pending = r /\ q.route # "create_order" /\ q.route # "get_order"
  <2>1. Told(pg, r, q, a) = idle
    BY <1>4, <1>12, Zenon
  <2>2. QED
    BY <1>5, <1>7, <2>1, Zenon
<1>13. QED
  BY <1>9, <1>10, <1>11, <1>12, Zenon

\* The answer arrives, or the connection drops while the browser waits.
LEMMA HearsKeeps ==
  ASSUME CheckInv, NEW r \in Reqs, Receive(r) \/ ConnectionDrops(r)
  PROVE  CheckInv'
<1> DEFINE q == req[r]
           x == [q EXCEPT !.awaited = FALSE]
<1>1. q \in ReqRec /\ ReqOK(q) /\ Truthful(q)
  BY Zenon DEF CheckInv, CheckTypes, ReqTypes, DecidedInv
<1>2. PICK a \in AnswerRec : page' = [page EXCEPT ![q.from] = Told(@, r, q, a)]
  <2>1. q.answer \in AnswerRec /\ Dropped \in AnswerRec /\ CutOff \in AnswerRec
    BY <1>1, QuietAnswers, ZenonT(60) DEF ReqRec, Quiet
  <2>2. QED
    BY <2>1, Zenon DEF Receive, ConnectionDrops, Hears
<1>3. req' = [req EXCEPT ![r] = Kept(x)] /\ UNCHANGED shop
  BY Zenon DEF Receive, ConnectionDrops
<1>4. PagesKeep
  <2>1. PageTypes /\ \A p \in People : PageOK(page[p])
    BY Zenon DEF CheckInv, CheckTypes, DecidedInv
  <2>2. DOMAIN page' = People
    BY <1>2, <2>1, Zenon DEF PageTypes
  <2>3. ASSUME NEW p \in People
        PROVE  page'[p] \in PageRec /\ PageOK(page'[p]) /\ KeyKept(page'[p], page[p])
    <3>1. page[p] \in PageRec /\ PageOK(page[p])
      BY <2>1, Zenon DEF PageTypes
    <3>2. CASE p = q.from
      <4>1. page'[p] = Told(page[p], r, q, a)
        BY <1>2, <2>1, <3>2, Zenon DEF PageTypes
      <4>2. QED
        BY <1>1, <1>2, <3>1, <4>1, ToldFields, Zenon
    <3>3. CASE p # q.from
      <4>1. page'[p] = page[p]
        BY <1>2, <2>1, <3>3, Zenon DEF PageTypes
      <4>2. QED
        BY <3>1, <4>1, Zenon DEF KeyKept
    <3>4. QED
      BY <3>2, <3>3, Zenon
  <2>4. QED
    BY <2>2, <2>3, Zenon DEF PagesKeep, PageTypes
<1>5. x \in ReqRec
  BY <1>1, Zenon DEF ReqRec
<1>6. /\ SameAsk(x, q) /\ x.rows = q.rows /\ x.pc = q.pc /\ x.stage = q.stage
      /\ x.answer = q.answer
  BY <1>1, Zenon DEF ReqRec, SameAsk
<1> HIDE DEF x
<1>7. ReqOK(x)
  BY <1>1, <1>6 DEF ReqOK, SameAsk
<1>8. Truthful(x)
  BY <1>1, <1>6 DEF Truthful, SameAsk
<1>9. Kept(x) = x \/ Kept(x) = Unsent
  BY Zenon DEF Kept
<1>10. QED
  BY <1>3, <1>4, <1>5, <1>6, <1>7, <1>8, <1>9, ReqStep, Zenon

-----------------------------------------------------------------------------
(* The page acts.                                                          *)

\* Only pages change.
LEMMA PageStepKeeps ==
  ASSUME CheckInv, PagesKeep, UNCHANGED <<req, shop>>
  PROVE  CheckInv'
<1>1. req' = req /\ order' = order /\ sold' = sold
  BY Zenon DEF shop
<1>2. CheckTypes'
  BY <1>1, Zenon DEF CheckInv, CheckTypes, ReqTypes, ShopTypes, PagesKeep
<1>3. SagaInv' /\ \A k \in Keys : RecordInv(k)'
  BY <1>1, ZenonT(60) DEF CheckInv, DecidedInv, SagaInv, RecordInv
<1>4. \A k : Working(k)' <=> Working(k)
  BY <1>1, Zenon DEF Working, InSaga
<1>5. ASSUME NEW r \in Reqs
      PROVE  ReqOK(req[r])' /\ Truthful(req[r])' /\ Pledge(req[r].key, req[r].pc)'
  <2>1. ReqOK(req[r]) /\ Truthful(req[r]) /\ Pledge(req[r].key, req[r].pc)
    BY Zenon DEF CheckInv, DecidedInv
  <2>2. ReqOK(req[r])'
    BY <1>1, <2>1 DEF ReqOK
  <2>3. Truthful(req[r])'
    BY <1>1, <1>4, <2>1 DEF Truthful
  <2>4. Pledge(req[r].key, req[r].pc)'
    BY <1>1, <1>4, <2>1, Zenon DEF Pledge
  <2>5. QED
    BY <2>2, <2>3, <2>4, Zenon
<1>6. \A p \in People : PageOK(page[p])'
  BY Zenon DEF PagesKeep, PageOK
<1>7. \E want \in [Keys -> SUBSET Seats] : KeysAgree(want)'
  <2>1. PICK want \in [Keys -> SUBSET Seats] : KeysAgree(want)
    BY Zenon DEF CheckInv
  <2>2. KeysAgree(want)'
    BY <1>1, <2>1, Zenon DEF KeysAgree, PagesKeep, KeyKept
  <2>3. QED
    BY <2>2, Zenon
<1>8. QED
  BY <1>2, <1>3, <1>5, <1>6, <1>7, Zenon DEF CheckInv, DecidedInv

\* A seat is selected or no longer selected.
LEMMA ToggleKeeps ==
  ASSUME CheckInv, NEW p \in People, NEW s \in Seats, toggle(p, s)
  PROVE  CheckInv'
<1> DEFINE pg == page[p]
           now == CASE s \in pg.selected -> pg.selected \ {s}
                    [] s \notin pg.selected /\ Cardinality(pg.selected) < MaxSeatsPerOrder
                         -> pg.selected \cup {s}
                    [] OTHER -> pg.selected
           e == [pg EXCEPT !.pending = NoReq, !.selected = now]
<1>1. PageTypes /\ pg \in PageRec /\ \A x \in People : PageOK(page[x])
  BY Zenon DEF CheckInv, CheckTypes, PageTypes, DecidedInv
<1>2. now \in SUBSET Seats
  <2>1. pg.selected \in SUBSET Seats
    BY <1>1, Zenon DEF PageRec
  <2>2. QED
    BY <2>1, Zenon
<1>3. page' = [page EXCEPT ![p] = e] /\ UNCHANGED <<req, shop>>
  BY <1>1, Zenon DEF toggle, PageTypes, PageRec, gatewayVars
<1> HIDE DEF now
<1>4. e \in PageRec
  BY <1>1, <1>2, Zenon DEF PageRec
<1>5. e.at = pg.at /\ e.mine = pg.mine /\ e.key = pg.key /\ e.kseats = pg.kseats
  BY <1>1, Zenon DEF PageRec
<1> HIDE DEF e
<1>6. page'[p] = e /\ DOMAIN page' = People /\ \A x \in People : x # p => page'[x] = page[x]
  BY <1>1, <1>3, Zenon DEF PageTypes
<1>7. ASSUME NEW x \in People
      PROVE  page'[x] \in PageRec /\ PageOK(page'[x]) /\ KeyKept(page'[x], page[x])
  <2>1. CASE x = p
    BY <1>1, <1>4, <1>5, <1>6, <2>1, Zenon DEF PageOK, KeyKept
  <2>2. CASE x # p
    BY <1>1, <1>6, <2>2, Zenon DEF PageTypes, KeyKept
  <2>3. QED
    BY <2>1, <2>2, Zenon
<1>8. PagesKeep
  BY <1>6, <1>7, Zenon DEF PagesKeep, PageTypes
<1>9. QED
  BY <1>3, <1>8, PageStepKeeps, Zenon

\* A request leaves the browser; the key of a purchase stands for its seats.
LEMMA SendKeeps ==
  ASSUME CheckTypes, DecidedInv, NEW want \in [Keys -> SUBSET Seats], KeysAgree(want),
         NEW p \in People, NEW route \in RouteNames, NEW seats \in SUBSET Seats,
         NEW key \in AnyKey, NEW n \in Int, Send(p, route, seats, key, n), UNCHANGED shop,
         route = "create_order" => key \in Keys /\ seats = want[key],
         route = "get_order" => key # NoKey,
         route \notin {"create_order", "get_order"} => key = NoKey
  PROVE  CheckInv'
<1>1. PICK r \in Reqs, token \in BOOLEAN, st \in {"sent", "answered"}, a \in AnswerRec :
        /\ Quiet(a)
        /\ req' = [req EXCEPT ![r] =
                 [Unsent EXCEPT !.stage = st, !.answer = a,
                                !.from = p, !.route = route, !.token = token,
                                !.seats = seats, !.key = key, !.n = n, !.awaited = TRUE]]
        /\ page' = [page EXCEPT ![p].pending = r,
                            ![p].key = IF route = "create_order" THEN key ELSE @,
                            ![p].clicks = IF route = "create_order" THEN @ + 1 ELSE @,
                            ![p].kseats = IF route = "create_order" THEN seats ELSE @]
  <2>1. PICK r \in Reqs, token \in BOOLEAN :
        /\ req' = [req EXCEPT ![r] =
                 [Unsent EXCEPT !.stage = IF gw = "up" THEN "sent" ELSE "answered",
                                !.answer = IF gw = "up" THEN NoAnswer ELSE Dropped,
                                !.from = p, !.route = route, !.token = token,
                                !.seats = seats, !.key = key, !.n = n, !.awaited = TRUE]]
        /\ page' = [page EXCEPT ![p].pending = r,
                            ![p].key = IF route = "create_order" THEN key ELSE @,
                            ![p].clicks = IF route = "create_order" THEN @ + 1 ELSE @,
                            ![p].kseats = IF route = "create_order" THEN seats ELSE @]
    BY Zenon DEF Send
  <2>2. Quiet(NoAnswer) /\ Quiet(Dropped) /\ NoAnswer \in AnswerRec /\ Dropped \in AnswerRec
    BY QuietAnswers, ZenonT(60) DEF Quiet
  <2>3. CASE gw = "up"
    BY <2>1, <2>2, <2>3, Zenon
  <2>4. CASE gw # "up"
    BY <2>1, <2>2, <2>4, Zenon
  <2>5. QED
    BY <2>3, <2>4, Zenon
<1> DEFINE e == [Unsent EXCEPT !.stage = st, !.answer = a,
                               !.from = p, !.route = route, !.token = token,
                               !.seats = seats, !.key = key, !.n = n, !.awaited = TRUE]
           pg == page[p]
           key2 == IF route = "create_order" THEN key ELSE pg.key
           seats2 == IF route = "create_order" THEN seats ELSE pg.kseats
           clicks2 == IF route = "create_order" THEN pg.clicks + 1 ELSE pg.clicks
           f == [pg EXCEPT !.pending = r, !.key = key2, !.clicks = clicks2, !.kseats = seats2]
<1>2. e \in ReqRec
  BY <1>1, UnsentFields, Zenon DEF ReqRec
<1>3. e.stage = st /\ e.answer = a /\ e.route = route /\ e.seats = seats /\ e.key = key
  BY <1>1, UnsentFields, Zenon DEF ReqRec
<1>4. e.pc = "none" /\ e.rows = 0
  BY UnsentFields, Zenon DEF ReqRec
<1>5. req' = [req EXCEPT ![r] = e]
  BY <1>1, Zenon
<1> HIDE DEF e
<1>6. ReqOK(e)
  BY <1>1, <1>3, <1>4 DEF ReqOK
<1>7. Truthful(e)
  BY <1>1, <1>3, QuietTruth, Zenon
<1>8. e.pc # "saga" /\ Pledge(e.key, e.pc)
  BY <1>4, NoPledge, Zenon
<1>9. /\ ReqTypes' /\ ShopTypes' /\ SagaInv' /\ \A k \in Keys : RecordInv(k)'
      /\ \A y \in Reqs : ReqOK(req[y])' /\ Truthful(req[y])' /\ Pledge(req[y].key, req[y].pc)'
  BY <1>2, <1>5, <1>6, <1>7, <1>8, OneReq, Zenon
<1>10. PageTypes /\ pg \in PageRec /\ \A x \in People : PageOK(page[x])
  BY Zenon DEF CheckTypes, PageTypes, DecidedInv
<1>11. page' = [page EXCEPT ![p] = f]
  BY <1>1, <1>10, Zenon DEF PageTypes, PageRec
<1>12. key2 \in Keys \cup {NoKey} /\ seats2 \in SUBSET Seats /\ clicks2 \in Int
  <2>1. pg.clicks \in Int /\ (pg.clicks \in Int => pg.clicks + 1 \in Int)
    <3>1. pg.clicks \in Int
      BY <1>10, Zenon DEF PageRec
    <3>2. QED
      BY <3>1
  <2>2. QED
    BY <1>10, <2>1, Zenon DEF PageRec
<1>13. key2 # NoKey => seats2 = want[key2]
  BY Zenon DEF KeysAgree
<1> HIDE DEF key2, seats2, clicks2
<1>14. f \in PageRec
  BY <1>10, <1>12, Zenon DEF PageRec
<1>15. f.at = pg.at /\ f.mine = pg.mine /\ f.key = key2 /\ f.kseats = seats2
  BY <1>10, Zenon DEF PageRec
<1> HIDE DEF f
<1>16. page'[p] = f /\ DOMAIN page' = People /\ \A x \in People : x # p => page'[x] = page[x]
  BY <1>10, <1>11, Zenon DEF PageTypes
<1>17. ASSUME NEW x \in People
       PROVE  /\ page'[x] \in PageRec /\ PageOK(page'[x])
              /\ page'[x].key # NoKey => page'[x].kseats = want[page'[x].key]
  <2>1. CASE x = p
    BY <1>10, <1>13, <1>14, <1>15, <1>16, <2>1, Zenon DEF PageOK
  <2>2. CASE x # p
    BY <1>10, <1>16, <2>2, Zenon DEF PageTypes, KeysAgree
  <2>3. QED
    BY <2>1, <2>2, Zenon
<1>18. PageTypes' /\ \A x \in People : PageOK(page[x])'
  BY <1>16, <1>17, Zenon DEF PageTypes, PageOK
<1>19. KeysAgree(want)'
  <2>1. req'[r] = e /\ \A y \in Reqs : y # r => req'[y] = req[y]
    BY <1>5, Zenon DEF CheckTypes, ReqTypes
  <2>2. ASSUME NEW y \in Reqs, req'[y].route = "create_order"
        PROVE  req'[y].seats = want[req'[y].key]
    <3>1. CASE y = r
      BY <1>3, <2>1, <2>2, <3>1, Zenon
    <3>2. CASE y # r
      BY <2>1, <2>2, <3>2, Zenon DEF KeysAgree
    <3>3. QED
      BY <3>1, <3>2, Zenon
  <2>3. order' = order
    BY Zenon DEF shop
  <2>4. QED
    BY <1>17, <2>2, <2>3, Zenon DEF KeysAgree
<1>20. QED
  BY <1>9, <1>18, <1>19, Zenon DEF CheckInv, CheckTypes, DecidedInv

\* A set of numbers has a least one.
LEMMA LeastIsIn ==
  ASSUME NEW S \in SUBSET Nat, S # {}
  PROVE  Min(S) \in S
<1>1. PICK x \in S : \A y \in S : ~(<<y, x>> \in OpToRel(<, Nat))
  BY WFMin, NatLessThanWellFounded, Zenon
<1>2. ASSUME NEW y \in S PROVE x =< y
  <2>1. ~(y < x)
    BY <1>1, Zenon DEF OpToRel
  <2>2. QED
    BY <2>1
<1>3. \E z \in S : \A y \in S : z =< y
  BY <1>2, Zenon
<1>4. QED
  BY <1>3, Zenon DEF Min

\* A fresh key may stand for any seats: nobody has used it.
LEMMA FreshWant ==
  ASSUME CheckTypes, DecidedInv, NEW want \in [Keys -> SUBSET Seats], KeysAgree(want),
         NEW k \in FreshKeys, NEW seats \in SUBSET Seats
  PROVE  LET w == [want EXCEPT ![k] = seats]
         IN  w \in [Keys -> SUBSET Seats] /\ KeysAgree(w) /\ w[k] = seats
<1> DEFINE w == [want EXCEPT ![k] = seats]
<1>1. /\ k \in Keys /\ order[k].status = "NONE" /\ \A r \in Reqs : req[r].key # k
      /\ \A p \in People : page[p].key # k
  BY Zenon DEF FreshKeys
<1>2. w \in [Keys -> SUBSET Seats] /\ w[k] = seats /\ \A x \in Keys : x # k => w[x] = want[x]
  BY <1>1, Zenon
<1> HIDE DEF w
<1>3. \A r \in Reqs : req[r].route = "create_order" => req[r].seats = w[req[r].key]
  BY <1>1, <1>2, Zenon DEF KeysAgree, DecidedInv, ReqOK
<1>4. \A p \in People : page[p].key # NoKey => page[p].kseats = w[page[p].key]
  <2>1. \A p \in People : page[p].key # NoKey => page[p].key \in Keys
    BY Zenon DEF CheckTypes, PageTypes, PageRec
  <2>2. QED
    BY <1>1, <1>2, <2>1, Zenon DEF KeysAgree
<1>5. \A x \in Keys : order[x].status # "NONE" => order[x].seats = w[x]
  BY <1>1, <1>2, Zenon DEF KeysAgree
<1>6. QED
  BY <1>2, <1>3, <1>4, <1>5, Zenon DEF KeysAgree, w

\* A purchase: the key kept for the same seats, or a fresh one.
LEMMA BuyKeeps ==
  ASSUME CheckInv, NEW p \in People, buy(p)
  PROVE  CheckInv'
<1>1. PICK chosen \in Chosen(p) :
        /\ page[p].key = NoKey \/ page[p].kseats # chosen => FreshKeys # {}
        /\ Send(p, "create_order", chosen, keyFor(p, chosen), 0)
  BY Zenon DEF buy
<1>2. CheckTypes /\ DecidedInv /\ page[p] \in PageRec /\ UNCHANGED shop
  BY Zenon DEF CheckInv, CheckTypes, PageTypes, buy
<1>3. chosen \in SUBSET Seats
  <2>1. page[p].selected \in SUBSET Seats
    BY <1>2, Zenon DEF PageRec
  <2>2. QED
    BY <2>1, Zenon DEF Chosen
<1>4. PICK want \in [Keys -> SUBSET Seats] : KeysAgree(want)
  BY Zenon DEF CheckInv
<1>5. PICK k : k = keyFor(p, chosen)
  BY Zenon
<1>6. \E w \in [Keys -> SUBSET Seats] : KeysAgree(w) /\ k \in Keys /\ chosen = w[k]
  <2>1. CASE page[p].key # NoKey /\ page[p].kseats = chosen
    <3>1. k = page[p].key
      BY <1>5, <2>1, Zenon DEF keyFor
    <3>2. k \in Keys /\ chosen = want[k]
      BY <1>2, <1>4, <2>1, <3>1, Zenon DEF KeysAgree, PageRec
    <3>3. QED
      BY <1>4, <3>2, Zenon
  <2>2. CASE ~(page[p].key # NoKey /\ page[p].kseats = chosen)
    <3>1. k = Min(FreshKeys) /\ FreshKeys # {}
      BY <1>1, <1>5, <2>2, Zenon DEF keyFor
    <3>2. FreshKeys \in SUBSET Keys /\ Keys \in SUBSET Nat
      BY GatewayConstantsOK, Zenon DEF FreshKeys
    <3>3. k \in FreshKeys /\ k \in Keys
      BY <3>1, <3>2, LeastIsIn, Zenon
    <3>4. QED
      BY <1>2, <1>3, <1>4, <3>3, FreshWant, Zenon
  <2>3. QED
    BY <2>1, <2>2, Zenon
<1>7. PICK w \in [Keys -> SUBSET Seats] : KeysAgree(w) /\ k \in Keys /\ chosen = w[k]
  BY <1>6, Zenon
<1>8. /\ "create_order" \in RouteNames /\ 0 \in Int /\ k \in AnyKey
      /\ "create_order" # "get_order" /\ "create_order" \in {"create_order", "get_order"}
  BY <1>7 DEF RouteNames, AnyKey
<1>9. Send(p, "create_order", chosen, k, 0)
  BY <1>1, <1>5, Zenon
<1>10. QED
  BY <1>2, <1>3, <1>7, <1>8, <1>9, SendKeeps, Zenon

\* Any other request of a page.
LEMMA AskKeeps ==
  ASSUME CheckInv, NEW p \in People,
         PollOrder(p) \/ SubmitEvent(p) \/ LoadAnalytics(p) \/ LoadEvents(p)
  PROVE  CheckInv'
<1>1. CheckTypes /\ DecidedInv /\ page[p] \in PageRec /\ PageOK(page[p]) /\ {} \in SUBSET Seats
  BY Zenon DEF CheckInv, CheckTypes, PageTypes, DecidedInv
<1>2. PICK want \in [Keys -> SUBSET Seats] : KeysAgree(want)
  BY Zenon DEF CheckInv
<1>3. CASE PollOrder(p)
  <2>1. PICK k \in AnyKey : k = page[p].mine /\ k # NoKey
    BY <1>1, <1>3, Zenon DEF PageRec, PageOK, PollOrder
  <2>2. Send(p, "get_order", {}, k, 0) /\ UNCHANGED shop
    BY <1>3, <2>1, Zenon DEF PollOrder
  <2>3. /\ "get_order" \in RouteNames /\ 0 \in Int /\ "get_order" # "create_order"
        /\ "get_order" \in {"create_order", "get_order"}
    BY DEF RouteNames
  <2>4. QED
    BY <1>1, <1>2, <2>1, <2>2, <2>3, SendKeeps, Zenon
<1>4. CASE SubmitEvent(p) \/ LoadAnalytics(p) \/ LoadEvents(p)
  <2>1. \E route \in {"create_event", "analytics", "list_events", "get_event"},
           n \in SeatCounts \cup ListLimits : Send(p, route, {}, NoKey, n)
    BY <1>4, Zenon DEF SubmitEvent, LoadAnalytics, LoadEvents
  <2>2. PICK route \in {"create_event", "analytics", "list_events", "get_event"},
             n \in SeatCounts \cup ListLimits : Send(p, route, {}, NoKey, n)
    BY <2>1, Zenon
  <2>3. UNCHANGED shop
    BY <1>4, Zenon DEF SubmitEvent, LoadAnalytics, LoadEvents
  <2>4. route \in RouteNames /\ route # "create_order" /\ route # "get_order"
    BY <2>2, Zenon DEF RouteNames
  <2>5. n \in Int /\ NoKey \in AnyKey
    BY CheckoutConstantsOK, Zenon DEF AnyKey
  <2>6. QED
    BY <1>1, <1>2, <2>2, <2>3, <2>4, <2>5, SendKeeps, Zenon
<1>5. QED
  BY <1>3, <1>4, Zenon

-----------------------------------------------------------------------------
(* order-svc.                                                              *)

\* Two requests that ask and are answered alike are equally true.
LEMMA TruthSame ==
  ASSUME NEW x, NEW y, SameAsk(x, y), x.stage = y.stage, x.answer = y.answer, Truthful(y)
  PROVE  Truthful(x)
  BY DEF Truthful, SameAsk

\* The status of an order is shown to its owner and to admins only.
LEMMA OrderShownKeeps ==
  ASSUME CheckInv, NEW r \in Reqs, OrderShown(r)
  PROVE  CheckInv'
<1> DEFINE q == req[r]
           k == q.key
           st == order[k].status
<1>1. q \in ReqRec /\ ReqOK(q) /\ q.route = "get_order"
  BY Zenon DEF CheckInv, CheckTypes, ReqTypes, DecidedInv, OrderShown
<1>2. k \in Keys \cup {Foreign}
  BY <1>1, Zenon DEF ReqOK, ReqRec, AnyKey
<1>3. st \in {"NONE", "PENDING", "CONFIRMED", "FAILED"}
  BY <1>2, Zenon DEF CheckInv, CheckTypes, ShopTypes, OrderRec
<1>4. UNCHANGED <<page, shop>>
  BY Zenon DEF OrderShown
<1>5. CASE GetOrder(k) # "NotFound" /\ (k # Foreign \/ AtLeast(RoleOf[q.from], "admin"))
  <2>1. st # "NONE" /\ GetOrder(k) = st
    BY <1>5, Zenon DEF GetOrder
  <2>2. PICK name \in {"pending", "confirmed", "failed"} : name = orderStatusName[GetOrder(k)]
    BY <1>3, <2>1 DEF orderStatusName
  <2>3. PICK a \in AnswerRec : a = Http(200, name)
    <3>1. Http(200, name) \in AnswerRec
      BY DEF Http, AnswerRec, Codes
    <3>2. QED
      BY <3>1, Zenon
  <2>4. a.status = 200 /\ a.code \notin Refused /\ a.code # "idempotency_key_reused"
    BY <2>3, Zenon DEF Http, Refused
  <2>5. req' = Answer(r, a)
    BY <1>5, <2>2, <2>3, Zenon DEF OrderShown
  <2> DEFINE x == Answered(q, a)
  <2>6. SameAsk(x, q) /\ x.answer = a
    BY <1>1, AnsweredFields, Zenon
  <2> HIDE DEF x
  <2>7. q.key # Foreign \/ RoleOf[q.from] = "admin"
    BY <1>5 DEF AtLeast, rank
  <2>8. Truthful(x)
    BY <1>1, <2>4, <2>6, <2>7 DEF Truthful, SameAsk
  <2>9. QED
    BY <1>4, <2>5, <2>8, AnswerKeeps, Zenon DEF x
<1>6. CASE ~(GetOrder(k) # "NotFound" /\ (k # Foreign \/ AtLeast(RoleOf[q.from], "admin")))
  <2>1. req' = Answer(r, httpError["NotFound"])
    BY <1>6, Zenon DEF OrderShown
  <2>2. Quiet(httpError["NotFound"])
    BY QuietAnswers, Zenon
  <2>3. QED
    BY <1>4, <2>1, <2>2, QuietKeeps, Zenon
<1>7. QED
  BY <1>5, <1>6, Zenon

\* What the service's outcomes turn into at the gateway.
LEMMA RepliesTell ==
  \A o \in Outcomes :
    /\ ReplyOf(o) \in AnswerRec /\ ReplyOf(o).status # 200
    /\ ReplyOf(o).status = 201 => o = "created"
    /\ ReplyOf(o).code \in Refused => o \in Declined
    /\ ReplyOf(o).code = "idempotency_key_reused" => o = "IDEMPOTENCY_KEY_REUSED"
<1>1. Outcomes = {"created", "SEATS_UNAVAILABLE", "PAYMENT_DECLINED", "SERVICE_UNAVAILABLE",
                  "REQUEST_IN_PROGRESS", "IDEMPOTENCY_KEY_REUSED", "InvalidArgument",
                  "Unauthenticated", "PermissionDenied", "NotFound", "AlreadyExists",
                  "FailedPrecondition", "ResourceExhausted", "Unavailable", "DeadlineExceeded",
                  "Canceled", "Internal"}
  BY DEF Outcomes, httpError
<1>2. SUFFICES ASSUME NEW o \in Outcomes
               PROVE  /\ ReplyOf(o) \in AnswerRec /\ ReplyOf(o).status # 200
                      /\ ReplyOf(o).status = 201 => o = "created"
                      /\ ReplyOf(o).code \in Refused => o \in Declined
                      /\ ReplyOf(o).code = "idempotency_key_reused" => o = "IDEMPOTENCY_KEY_REUSED"
  BY Zenon
<1>3. CASE o = "created"
  BY <1>3 DEF ReplyOf, Http, AnswerRec, Codes, Refused
<1>4. CASE o \in Declined
  BY <1>4 DEF ReplyOf, httpError, Http, AnswerRec, Codes, Refused, Declined
<1>5. CASE o # "created" /\ o \notin Declined
  BY <1>1, <1>5 DEF ReplyOf, httpError, Http, AnswerRec, Codes, Refused, Declined
<1>6. QED
  BY <1>3, <1>4, <1>5, Zenon

Returned(r, outcome) == [req[r] EXCEPT !.pc = IF Alive(r) THEN outcome ELSE "none"]

\* The call is over but for its reply, if somebody still waits for one.
LEMMA ReturnedFields ==
  ASSUME CheckTypes, NEW r \in Reqs, NEW outcome \in Outcomes, Returns(r, outcome)
  PROVE  LET x == Returned(r, outcome)
         IN  /\ x \in ReqRec /\ SameAsk(x, req[r]) /\ x.rows = req[r].rows
             /\ x.stage = req[r].stage /\ x.answer = req[r].answer
             /\ x.pc = (IF Alive(r) THEN outcome ELSE "none")
             /\ \E e : (e = x \/ e = Unsent) /\ req' = [req EXCEPT ![r] = e]
<1> DEFINE q == req[r]
           pc == IF Alive(r) THEN outcome ELSE "none"
           x == [q EXCEPT !.pc = pc]
<1>1. q \in ReqRec
  BY Zenon DEF CheckTypes, ReqTypes
<1>2. pc \in {"none", "insert", "saga"} \cup Outcomes
  BY Zenon
<1>3. Returned(r, outcome) = x
  BY Zenon DEF Returned
<1>4. \E e : (e = x \/ e = Unsent) /\ req' = [req EXCEPT ![r] = e]
  <2>1. CASE Alive(r)
    <3>1. req' = [req EXCEPT ![r] = x]
      BY <2>1, Zenon DEF Returns
    <3>2. QED
      BY <3>1, Zenon
  <2>2. CASE ~Alive(r)
    <3>1. req' = [req EXCEPT ![r] = Kept(x)]
      BY <2>2, Zenon DEF Returns
    <3>2. QED
      BY <3>1, Zenon DEF Kept
  <2>3. QED
    BY <2>1, <2>2, Zenon
<1> HIDE DEF pc
<1>5. x \in ReqRec
  BY <1>1, <1>2, Zenon DEF ReqRec
<1>6. /\ SameAsk(x, q) /\ x.rows = q.rows /\ x.pc = pc /\ x.stage = q.stage
      /\ x.answer = q.answer
  BY <1>1, Zenon DEF ReqRec, SameAsk
<1>7. QED
  BY <1>3, <1>4, <1>5, <1>6, Zenon DEF pc

\* A call returns that has changed no order.
LEMMA ReturnsKeeps ==
  ASSUME CheckInv, NEW r \in Reqs, req[r].pc # "none", NEW outcome \in Outcomes,
         Returns(r, outcome), UNCHANGED <<page, shop>>, Pledge(req[r].key, outcome)
  PROVE  CheckInv'
<1> DEFINE q == req[r]
           x == Returned(r, outcome)
<1>1. q \in ReqRec /\ ReqOK(q) /\ Truthful(q) /\ CheckTypes
  BY Zenon DEF CheckInv, CheckTypes, ReqTypes, DecidedInv
<1>2. /\ x \in ReqRec /\ SameAsk(x, q) /\ x.rows = q.rows
      /\ x.stage = q.stage /\ x.answer = q.answer
      /\ x.pc = (IF Alive(r) THEN outcome ELSE "none")
      /\ \E e : (e = x \/ e = Unsent) /\ req' = [req EXCEPT ![r] = e]
  BY <1>1, ReturnedFields, Zenon
<1> HIDE DEF x
<1>3. PICK e : (e = x \/ e = Unsent) /\ req' = [req EXCEPT ![r] = e]
  BY <1>2, Zenon
<1>4. ReqOK(x)
  BY <1>1, <1>2, Zenon DEF ReqOK, SameAsk
<1>5. Truthful(x)
  BY <1>1, <1>2, TruthSame, Zenon
<1>6. x.pc # "saga" /\ Pledge(x.key, x.pc)
  <2>1. CASE Alive(r)
    BY <1>2, <2>1, NoPledge, Zenon DEF SameAsk
  <2>2. CASE ~Alive(r)
    BY <1>2, <2>2, NoPledge, Zenon
  <2>3. QED
    BY <2>1, <2>2, Zenon
<1>7. PagesKeep /\ UNCHANGED shop
  BY PagesSteady, Zenon
<1>8. QED
  BY <1>2, <1>3, <1>4, <1>5, <1>6, <1>7, ReqStep, Zenon

\* What the service said arrives at the gateway, which passes it on.
LEMMA RepliesKeep ==
  ASSUME CheckInv, NEW r \in Reqs, Replies(r)
  PROVE  CheckInv'
<1> DEFINE q == req[r]
           a == ReplyOf(q.pc)
           over == [q EXCEPT !.pc = "none"]
           x == IF Alive(r) THEN Answered(over, a) ELSE over
<1>1. /\ q \in ReqRec /\ ReqOK(q) /\ Truthful(q) /\ Pledge(q.key, q.pc) /\ CheckTypes
      /\ q.pc \in Outcomes
  BY Zenon DEF CheckInv, CheckTypes, ReqTypes, DecidedInv, Replies
<1>2. /\ a \in AnswerRec /\ a.status # 200
      /\ a.status = 201 => q.pc = "created"
      /\ a.code \in Refused => q.pc \in Declined
      /\ a.code = "idempotency_key_reused" => q.pc = "IDEMPOTENCY_KEY_REUSED"
  BY <1>1, RepliesTell, Zenon
<1>3. req' = [req EXCEPT ![r] = Kept(x)]
  <2>1. CASE Alive(r)
    BY <2>1, Zenon DEF Replies, Answered
  <2>2. CASE ~Alive(r)
    BY <2>2, Zenon DEF Replies
  <2>3. QED
    BY <2>1, <2>2, Zenon
<1> HIDE DEF a
<1>4. over \in ReqRec
  BY <1>1, Zenon DEF ReqRec
<1>5. /\ SameAsk(over, q) /\ over.rows = q.rows /\ over.pc = "none" /\ over.stage = q.stage
      /\ over.answer = q.answer
  BY <1>1, Zenon DEF ReqRec, SameAsk
<1> HIDE DEF over
<1>6. /\ Answered(over, a) \in ReqRec /\ SameAsk(Answered(over, a), over)
      /\ Answered(over, a).rows = over.rows /\ Answered(over, a).pc = over.pc
      /\ Answered(over, a).answer = a
  BY <1>2, <1>4, AnsweredFields, Zenon
<1>7. /\ x \in ReqRec /\ SameAsk(x, q) /\ x.rows = q.rows /\ x.pc = "none"
      /\ IF Alive(r) THEN x.answer = a ELSE x.stage = q.stage /\ x.answer = q.answer
  <2>1. CASE Alive(r)
    BY <1>5, <1>6, <2>1, Zenon DEF SameAsk
  <2>2. CASE ~Alive(r)
    BY <1>4, <1>5, <2>2, Zenon
  <2>3. QED
    BY <2>1, <2>2, Zenon
<1> HIDE DEF x
<1>8. Truthful(x)
  <2>1. CASE Alive(r)
    <3>1. q.route = "create_order" /\ "create_order" # "get_order"
      <4>1. q.pc # "none"
        BY <1>1, NoPledge, Zenon
      <4>2. QED
        BY <1>1, <4>1, Zenon DEF ReqOK
    <3>2. /\ x.answer = a /\ x.key = q.key /\ x.route = "create_order"
      BY <1>7, <2>1, <3>1, Zenon DEF SameAsk
    <3>3. /\ a.status = 201 => order[q.key].status = "CONFIRMED"
          /\ a.code \in Refused => /\ ~order[q.key].charged /\ ~Working(q.key)
                                   /\ order[q.key].status \in {"PENDING", "FAILED"}
          /\ a.code # "idempotency_key_reused"
      BY <1>1, <1>2, Zenon DEF Pledge
    <3>4. /\ x.answer.status = 201 => order[x.key].status = "CONFIRMED"
          /\ x.answer.code \in Refused => /\ ~order[x.key].charged /\ ~Working(x.key)
                                          /\ order[x.key].status \in {"PENDING", "FAILED"}
          /\ x.answer.code # "idempotency_key_reused" /\ x.route # "get_order"
      BY <3>1, <3>2, <3>3
    <3>5. QED
      BY <3>2, <3>4, Zenon DEF Truthful
  <2>2. CASE ~Alive(r)
    BY <1>1, <1>7, <2>2, TruthSame, Zenon
  <2>3. QED
    BY <2>1, <2>2, Zenon
<1>9. ReqOK(x)
  <2>1. q.stage = "naming" => q.route = "analytics"
    BY <1>1, Zenon DEF ReqOK
  <2>2. x.stage = "naming" => q.route = "analytics"
    <3>1. CASE Alive(r)
      <4>1. Answered(over, a).stage = "answered" /\ x = Answered(over, a) /\ "answered" # "naming"
        BY <1>2, <1>4, <3>1, AnsweredFields, Zenon DEF x
      <4>2. QED
        BY <4>1, Zenon
    <3>2. CASE ~Alive(r)
      BY <1>7, <2>1, <3>2, Zenon
    <3>3. QED
      BY <3>1, <3>2, Zenon
  <2>3. QED
    BY <1>1, <1>7, <2>2, Zenon DEF ReqOK, SameAsk
<1>10. Kept(x) = x \/ Kept(x) = Unsent
  BY Zenon DEF Kept
<1>11. PagesKeep /\ UNCHANGED shop /\ x.pc # "saga" /\ Pledge(x.key, x.pc)
  <2>1. x.pc # "saga" /\ Pledge(x.key, x.pc)
    BY <1>7, NoPledge, Zenon
  <2>2. QED
    BY <2>1, PagesSteady, Zenon DEF Replies
<1>12. QED
  BY <1>3, <1>7, <1>8, <1>9, <1>10, <1>11, ReqStep, Zenon

\* A sold seat stays sold.
SoldKept ==
  /\ sold' \in [Seats -> Keys \cup {NoKey}]
  /\ \A s \in Seats : sold[s] # NoKey => sold'[s] = sold[s]

\* What may be recorded of the order k.
RecordOK(k, o) ==
  /\ o.status = "CONFIRMED" => o.charged /\ \A s \in o.seats : sold'[s] = k
  /\ o.status = "FAILED" /\ o.reason \in Declined => ~o.charged
  /\ o.status = "NONE" => ~o.charged

\* What the service may be about to say of an order that is now o.
Fits(outcome, o) ==
  /\ outcome = "created" => o.status = "CONFIRMED"
  /\ outcome \in Declined => ~o.charged /\ o.status \in {"PENDING", "FAILED"}
  /\ outcome # "IDEMPOTENCY_KEY_REUSED"

\* What the request x may say, now or soon, of an order that is now o.
SaysOf(x, o) ==
  /\ x.stage = "answered" =>
       /\ x.answer.status = 201 => o.status = "CONFIRMED"
       /\ x.answer.code \in Refused =>
            ~o.charged /\ o.status \in {"PENDING", "FAILED"} /\ x.pc # "saga"
       /\ x.answer.code # "idempotency_key_reused"
  /\ Fits(x.pc, o)

(* A call changes its order.  Either nobody had used the key yet or the    *)
(* call is the one that carries the purchase out, so that no other request *)
(* with this key was told of a decision.                                   *)
LEMMA OrderStep ==
  ASSUME CheckInv, NEW r \in Reqs, req[r].route = "create_order", NEW k \in Keys, k = req[r].key,
         order[k].status = "NONE" \/ req[r].pc = "saga",
         NEW o \in OrderRec, order' = [order EXCEPT ![k] = o], SoldKept, RecordOK(k, o),
         o.status # "NONE" => o.seats = req[r].seats,
         NEW x \in ReqRec, SameAsk(x, req[r]), ReqOK(x), SaysOf(x, o),
         x.pc = "saga" => order[k].status = "NONE" /\ o.status = "PENDING" /\ ~o.charged,
         NEW e, e = x \/ e = Unsent, req' = [req EXCEPT ![r] = e], page' = page
  PROVE  CheckInv'
<1>1. CheckTypes /\ DecidedInv /\ SagaInv
  BY Zenon DEF CheckInv, DecidedInv
<1>2. /\ DOMAIN req' = Reqs /\ req'[r] = e /\ e \in ReqRec
      /\ \A y \in Reqs : y # r => req'[y] = req[y]
  BY <1>1, UnsentFields, Zenon DEF CheckTypes, ReqTypes
<1>3. /\ DOMAIN order' = Keys \cup {Foreign} /\ order'[k] = o
      /\ \A j \in Keys \cup {Foreign} : j # k => order'[j] = order[j]
  BY <1>1, Zenon DEF CheckTypes, ShopTypes
<1>4. CheckTypes'
  <2>1. ReqTypes'
    BY <1>1, <1>2, Zenon DEF CheckTypes, ReqTypes
  <2>2. ShopTypes'
    BY <1>1, <1>3, Zenon DEF CheckTypes, ShopTypes, SoldKept
  <2>3. PageTypes'
    BY <1>1, Zenon DEF CheckTypes, PageTypes
  <2>4. QED
    BY <2>1, <2>2, <2>3, Zenon DEF CheckTypes
<1>5. ASSUME NEW y \in Reqs, y # r, req[y].pc = "saga" PROVE req[y].key # k
  <2>1. "PENDING" # "NONE"
    OBVIOUS
  <2>2. QED
    BY <1>1, <1>5, <2>1, Zenon DEF SagaInv
<1>6. ASSUME NEW y \in Reqs, req[y].pc = "saga" PROVE req[y].key \in Keys
  <2>1. ReqOK(req[y]) /\ "saga" # "none"
    BY <1>1, Zenon DEF DecidedInv
  <2>2. QED
    BY <1>6, <2>1, Zenon DEF ReqOK
<1>7. SagaInv'
  <2>1. e.pc = "saga" => e.key = k /\ o.status = "PENDING" /\ ~o.charged
    BY UnsentFields, Zenon DEF SameAsk
  <2>2. ASSUME NEW y \in Reqs, req'[y].pc = "saga"
        PROVE  order'[req'[y].key].status = "PENDING" /\ ~order'[req'[y].key].charged
    <3>1. CASE y = r
      BY <1>2, <1>3, <2>1, <2>2, <3>1, Zenon
    <3>2. CASE y # r
      <4>1. req'[y] = req[y] /\ req[y].key \in Keys /\ req[y].key # k
        BY <1>2, <1>5, <1>6, <2>2, <3>2, Zenon
      <4>2. order'[req[y].key] = order[req[y].key]
        BY <1>3, <4>1, Zenon
      <4>3. QED
        BY <1>1, <2>2, <4>1, <4>2, Zenon DEF SagaInv
    <3>3. QED
      BY <3>1, <3>2, Zenon
  <2>3. ASSUME NEW y \in Reqs, NEW z \in Reqs, req'[y].pc = "saga", req'[z].pc = "saga",
               req'[y].key = req'[z].key, y # z
        PROVE  FALSE
    <3>1. CASE y = r
      BY <1>2, <1>5, <2>1, <2>3, <3>1, Zenon
    <3>2. CASE z = r
      BY <1>2, <1>5, <2>1, <2>3, <3>2, Zenon
    <3>3. CASE y # r /\ z # r
      BY <1>1, <1>2, <2>3, <3>3, Zenon DEF SagaInv
    <3>4. QED
      BY <3>1, <3>2, <3>3, Zenon
  <2>4. QED
    BY <2>2, <2>3, Zenon DEF SagaInv
<1>8. ASSUME NEW j \in Keys PROVE RecordInv(j)'
  <2>1. CASE j = k
    BY <1>3, <2>1, Zenon DEF RecordInv, RecordOK
  <2>2. CASE j # k
    <3>1. order'[j] = order[j] /\ RecordInv(j) /\ j # NoKey /\ order[j].seats \in SUBSET Seats
      BY <1>1, <1>3, <2>2, GatewayConstantsOK, Zenon DEF DecidedInv, CheckTypes, ShopTypes, OrderRec
    <3>2. \A s \in order[j].seats : sold[s] = j => sold'[s] = j
      BY <3>1, Zenon DEF SoldKept
    <3>3. QED
      BY <3>1, <3>2, Zenon DEF RecordInv
  <2>3. QED
    BY <2>1, <2>2, Zenon
<1>9. ASSUME NEW j, j # k PROVE Working(j)' => Working(j)
  BY <1>2, <1>9, UnsentFields, ZenonT(60) DEF Working, InSaga, SameAsk
<1>10. ReqOK(e) /\ PageTypes
  BY <1>1, UnsentFields, Zenon DEF CheckTypes
<1>11. ASSUME NEW y \in Reqs PROVE ReqOK(req'[y])
  <2>1. ReqOK(req[y])
    BY <1>1, Zenon DEF DecidedInv
  <2>2. QED
    BY <1>2, <1>10, <2>1, Zenon
<1>12. Truthful(req[r])'
  <2>1. CASE e = Unsent
    <3>1. req'[r].stage = "free"
      BY <1>2, <2>1, UnsentFields, Zenon
    <3>2. QED
      BY <3>1, Zenon DEF Truthful
  <2>2. CASE e = x
    <3>1. x.route = "create_order" /\ x.key = k /\ req'[r] = x /\ order'[x.key] = o
      BY <1>2, <1>3, <2>2, Zenon DEF SameAsk
    <3>2. x.pc # "saga" => ~Working(k)'
      <4>1. SUFFICES ASSUME x.pc # "saga", NEW y \in Reqs, req'[y].key = k, req'[y].pc = "saga"
                     PROVE  FALSE
        BY Zenon DEF Working, InSaga
      <4>2. y # r
        BY <3>1, <4>1, Zenon
      <4>3. QED
        BY <1>2, <1>5, <4>1, <4>2, Zenon
    <3>3. "create_order" # "get_order"
      OBVIOUS
    <3>4. QED
      BY <3>1, <3>2, <3>3 DEF Truthful, SaysOf
  <2>3. QED
    BY <2>1, <2>2, Zenon
<1>13. ASSUME NEW y \in Reqs, y # r PROVE Truthful(req[y])'
  <2>1. req'[y] = req[y] /\ Truthful(req[y]) /\ ReqOK(req[y]) /\ req[y] \in ReqRec
    BY <1>1, <1>2, <1>13, Zenon DEF DecidedInv, CheckTypes, ReqTypes
  <2>2. CASE req[y].key # k
    <3>1. CASE req[y].key = NoKey
      BY <2>1, <3>1, Zenon DEF Truthful
    <3>2. CASE req[y].key # NoKey
      <4>1. order'[req[y].key] = order[req[y].key]
        BY <1>3, <2>1, <2>2, <3>2, Zenon DEF ReqRec, AnyKey
      <4>2. Working(req[y].key)' => Working(req[y].key)
        <5>1. PICK j : j = req[y].key
          BY Zenon
        <5>2. Working(j)' => Working(j)
          BY <1>9, <2>2, <5>1, Zenon
        <5>3. QED
          BY <2>1, <5>1, <5>2, Zenon DEF Working
      <4>3. QED
        BY <2>1, <4>1, <4>2 DEF Truthful
    <3>3. QED
      BY <3>1, <3>2, Zenon
  <2>3. CASE req[y].key = k
    <3>1. req[y].stage = "answered" /\ req[y].key # NoKey =>
            req[y].answer.status # 201 /\ req[y].answer.code \notin Refused
      <4>1. CASE order[k].status = "NONE"
        BY <2>1, <2>3, <4>1, Zenon DEF Truthful
      <4>2. CASE req[r].pc = "saga"
        <5>1. Working(k) /\ order[k].status = "PENDING"
          BY <1>1, <4>2, Zenon DEF Working, InSaga, SagaInv
        <5>2. QED
          BY <2>1, <2>3, <5>1, Zenon DEF Truthful
      <4>3. QED
        BY <4>1, <4>2, Zenon
    <3>2. QED
      BY <2>1, <3>1 DEF Truthful
  <2>4. QED
    BY <2>2, <2>3, Zenon
<1>19. Pledge(req[r].key, req[r].pc)'
  <2>1. CASE e = Unsent
    <3>1. req'[r].pc = "none"
      BY <1>2, <2>1, UnsentFields, Zenon
    <3>2. QED
      BY <3>1 DEF Pledge, Declined
  <2>2. CASE e = x
    <3>1. x.key = k /\ req'[r] = x /\ order'[k] = o
      BY <1>2, <1>3, <2>2, Zenon DEF SameAsk
    <3>2. x.pc # "saga" => ~Working(k)'
      <4>1. SUFFICES ASSUME x.pc # "saga", NEW y \in Reqs, req'[y].key = k, req'[y].pc = "saga"
                     PROVE  FALSE
        BY Zenon DEF Working, InSaga
      <4>2. y # r
        BY <3>1, <4>1, Zenon
      <4>3. QED
        BY <1>2, <1>5, <4>1, <4>2, Zenon
    <3>3. x.pc \in Declined => x.pc # "saga"
      BY Zenon DEF Declined
    <3>4. QED
      BY <3>1, <3>2, <3>3, Zenon DEF Pledge, SaysOf, Fits
  <2>3. QED
    BY <2>1, <2>2, Zenon
<1>20. ASSUME NEW y \in Reqs, y # r PROVE Pledge(req[y].key, req[y].pc)'
  <2>1. req'[y] = req[y] /\ Pledge(req[y].key, req[y].pc) /\ ReqOK(req[y])
    BY <1>1, <1>2, <1>20, Zenon DEF DecidedInv
  <2>2. PICK j : j = req[y].key
    BY Zenon
  <2>3. CASE req[y].pc \notin Declined \cup {"created"}
    BY <2>1, <2>3, Zenon DEF Pledge
  <2>4. CASE req[y].pc \in Declined \cup {"created"} /\ j # k
    <3>1. j \in Keys
      <4>1. req[y].pc # "none"
        BY <2>4, Zenon DEF Declined
      <4>2. QED
        BY <2>1, <2>2, <4>1, Zenon DEF ReqOK
    <3>2. order'[j] = order[j] /\ (Working(j)' => Working(j))
      BY <1>3, <1>9, <2>4, <3>1, Zenon
    <3>3. Working(req[y].key)' => Working(j)
      BY <2>1, <2>2, <3>2, Zenon DEF Working
    <3>4. QED
      BY <2>1, <2>2, <3>2, <3>3, Zenon DEF Pledge
  <2>5. CASE req[y].pc \in Declined \cup {"created"} /\ j = k
    <3>1. CASE order[k].status = "NONE"
      BY <2>1, <2>2, <2>5, <3>1, Zenon DEF Pledge
    <3>2. CASE req[r].pc = "saga"
      <4>1. Working(k) /\ order[k].status = "PENDING"
        BY <1>1, <3>2, Zenon DEF Working, InSaga, SagaInv
      <4>2. QED
        BY <2>1, <2>2, <2>5, <4>1, Zenon DEF Pledge
    <3>3. QED
      BY <3>1, <3>2, Zenon
  <2>6. QED
    BY <2>3, <2>4, <2>5, Zenon
<1>14. PICK want \in [Keys -> SUBSET Seats] : KeysAgree(want)
  BY Zenon DEF CheckInv
<1>15. KeysAgree(want)'
  <2>1. ASSUME NEW y \in Reqs, req'[y].route = "create_order"
        PROVE  req'[y].seats = want[req'[y].key]
    <3>1. CASE y = r
      <4>1. e = x /\ req'[y] = x
        BY <1>2, <2>1, <3>1, UnsentFields, Zenon
      <4>2. x.seats = req[r].seats /\ x.key = req[r].key /\ req[r].seats = want[req[r].key]
        BY <1>14, Zenon DEF KeysAgree, SameAsk
      <4>3. QED
        BY <4>1, <4>2, Zenon
    <3>2. CASE y # r
      BY <1>2, <1>14, <2>1, <3>2, Zenon DEF KeysAgree
    <3>3. QED
      BY <3>1, <3>2, Zenon
  <2>2. ASSUME NEW j \in Keys, order'[j].status # "NONE" PROVE order'[j].seats = want[j]
    <3>1. CASE j = k
      BY <1>3, <1>14, <2>2, <3>1, Zenon DEF KeysAgree
    <3>2. CASE j # k
      BY <1>3, <1>14, <2>2, <3>2, Zenon DEF KeysAgree
    <3>3. QED
      BY <3>1, <3>2, Zenon
  <2>3. QED
    BY <1>14, <2>1, <2>2, Zenon DEF KeysAgree
<1>16. \A p \in People : PageOK(page[p])'
  BY <1>1, Zenon DEF DecidedInv, PageOK
<1>17. DecidedInv'
  BY <1>7, <1>8, <1>11, <1>12, <1>13, <1>16, <1>19, <1>20, Zenon DEF DecidedInv
<1>18. QED
  BY <1>4, <1>15, <1>17, Zenon DEF CheckInv

\* Of an order that exists a call with its key says what was decided.
LEMMA ReplayTruth ==
  ASSUME CheckInv, NEW r \in Reqs, req[r].route = "create_order",
         order[req[r].key].status # "NONE"
  PROVE  LET outcome == replay(req[r].key, req[r].seats)
         IN  outcome \in Outcomes /\ Pledge(req[r].key, outcome)
<1>1. PICK k \in Keys : k = req[r].key
  BY Zenon DEF CheckInv, DecidedInv, ReqOK
<1>2. order[k] \in OrderRec /\ RecordInv(k) /\ SagaInv
  BY Zenon DEF CheckInv, CheckTypes, ShopTypes, DecidedInv
<1>3. order[k].seats = req[r].seats
  BY <1>1, Zenon DEF CheckInv, KeysAgree
<1>4. PICK a : a = replay(k, req[r].seats)
  BY Zenon
<1>5. /\ "created" \in Outcomes /\ Declined \subseteq Outcomes
      /\ "REQUEST_IN_PROGRESS" \in Outcomes /\ "SERVICE_UNAVAILABLE" \in Outcomes
  BY DEF Outcomes, httpError, Declined
<1>6. CASE order[k].status = "CONFIRMED"
  <2>1. a = "created"
    BY <1>3, <1>4, <1>6, Zenon DEF replay
  <2>2. Pledge(k, a)
    BY <1>6, <2>1, Zenon DEF Pledge, Declined
  <2>3. QED
    BY <1>1, <1>4, <1>5, <2>1, <2>2, Zenon
<1>7. CASE order[k].status = "FAILED" /\ order[k].reason \in Declined
  <2>1. a = order[k].reason
    <3>1. order[k].reason # "none" /\ order[k].status # "CONFIRMED"
      BY <1>7, Zenon DEF Declined
    <3>2. QED
      BY <1>3, <1>4, <1>7, <3>1, Zenon DEF replay, failureFor
  <2>2. ~order[k].charged /\ ~Working(k)
    <3>1. ~order[k].charged
      BY <1>2, <1>7, Zenon DEF RecordInv
    <3>2. order[k].status # "PENDING"
      BY <1>7, Zenon
    <3>3. QED
      BY <1>2, <3>1, <3>2, Zenon DEF SagaInv, Working, InSaga
  <2>3. a # "created" /\ a # "IDEMPOTENCY_KEY_REUSED"
    BY <1>7, <2>1, Zenon DEF Declined
  <2>4. Pledge(k, a)
    BY <1>7, <2>2, <2>3, Zenon DEF Pledge
  <2>5. QED
    BY <1>1, <1>4, <1>5, <1>7, <2>1, <2>4, Zenon
<1>8. CASE \/ order[k].status = "PENDING"
           \/ order[k].status = "FAILED" /\ order[k].reason \notin Declined
  <2>1. a = "REQUEST_IN_PROGRESS" \/ a = "SERVICE_UNAVAILABLE"
    <3>1. CASE order[k].status = "PENDING"
      <4>1. order[k].status # "CONFIRMED" /\ order[k].status # "FAILED"
        BY <3>1, Zenon
      <4>2. QED
        BY <1>3, <1>4, <4>1, Zenon DEF replay
    <3>2. CASE order[k].status = "FAILED" /\ order[k].reason \notin Declined
      <4>1. order[k].reason \in {"none", "SERVICE_UNAVAILABLE"} /\ order[k].status # "CONFIRMED"
        BY <1>2, <3>2, Zenon DEF OrderRec, Reasons, Declined
      <4>2. QED
        BY <1>3, <1>4, <3>2, <4>1, Zenon DEF replay, failureFor
    <3>3. QED
      BY <1>8, <3>1, <3>2, Zenon
  <2>2. Pledge(k, a)
    BY <2>1 DEF Pledge, Declined
  <2>3. QED
    BY <1>1, <1>4, <1>5, <2>1, <2>2, Zenon
<1>9. order[k].status \in {"PENDING", "CONFIRMED", "FAILED"}
  BY <1>1, <1>2, Zenon DEF OrderRec
<1>10. QED
  BY <1>6, <1>7, <1>8, <1>9, Zenon

\* An error that decides nothing may be returned at any time.
LEMMA NothingSaid ==
  ASSUME NEW k, NEW outcome \in {"InvalidArgument", "Internal", "SERVICE_UNAVAILABLE"}
  PROVE  /\ outcome \in Outcomes /\ Pledge(k, outcome) /\ outcome # "created"
         /\ outcome \notin Declined /\ outcome # "IDEMPOTENCY_KEY_REUSED"
<1>1. outcome \in Outcomes
  BY DEF Outcomes, httpError
<1>2. outcome # "created" /\ outcome \notin Declined /\ outcome # "IDEMPOTENCY_KEY_REUSED"
  BY Zenon DEF Declined
<1>3. QED
  BY <1>1, <1>2, Zenon DEF Pledge

\* The insert takes the key, or finds it taken.
LEMMA CreateKeeps ==
  ASSUME CheckInv, NEW r \in Reqs, createOrder(r)
  PROVE  CheckInv'
<1> DEFINE q == req[r]
<1>1. q \in ReqRec /\ ReqOK(q) /\ Truthful(q) /\ CheckTypes
  BY Zenon DEF CheckInv, CheckTypes, ReqTypes, DecidedInv
<1>2. q.pc = "insert" /\ q.route = "create_order" /\ page' = page /\ sold' = sold
  <2>1. q.pc = "insert" /\ "insert" # "none"
    BY Zenon DEF createOrder
  <2>2. QED
    BY <1>1, <2>1, Zenon DEF createOrder, ReqOK
<1>3. PICK k \in Keys : k = q.key
  BY <1>1, <1>2, Zenon DEF ReqOK
<1>4. CASE validateCreateOrder(q) /\ order[k].status = "NONE"
  <2> DEFINE o == [order[k] EXCEPT !.status = "PENDING", !.seats = q.seats]
             x == [q EXCEPT !.pc = "saga"]
  <2>1. order[k] \in OrderRec /\ DOMAIN order = Keys \cup {Foreign} /\ DOMAIN req = Reqs
        /\ RecordInv(k)
    BY Zenon DEF CheckInv, CheckTypes, ShopTypes, ReqTypes, DecidedInv
  <2>2. order' = [order EXCEPT ![k] = o] /\ req' = [req EXCEPT ![r] = x]
    BY <1>1, <1>3, <1>4, <2>1, Zenon DEF createOrder, Inserts, OrderRec, ReqRec
  <2>3. q.seats \in SUBSET Seats
    BY <1>1, Zenon DEF ReqRec
  <2>4. o \in OrderRec
    BY <2>1, <2>3, Zenon DEF OrderRec
  <2>5. o.status = "PENDING" /\ o.seats = q.seats /\ o.charged = order[k].charged
    BY <2>1, Zenon DEF OrderRec
  <2>6. x \in ReqRec
    BY <1>1, Zenon DEF ReqRec
  <2>7. /\ SameAsk(x, q) /\ x.rows = q.rows /\ x.stage = q.stage /\ x.answer = q.answer
        /\ x.pc = "saga"
    BY <1>1, Zenon DEF ReqRec, SameAsk
  <2> HIDE DEF o, x
  <2>8. ~o.charged
    BY <1>4, <2>1, <2>5, Zenon DEF RecordInv
  <2>9. ReqOK(x)
    BY <1>1, <1>2, <2>7, Zenon DEF ReqOK, SameAsk
  <2>10. RecordOK(k, o) /\ SoldKept
    BY <1>1, <1>2, <2>5, <2>8, Zenon DEF RecordOK, SoldKept, CheckTypes, ShopTypes
  <2>11. SaysOf(x, o)
    <3>1. k # NoKey
      BY GatewayConstantsOK, Zenon
    <3>2. q.stage = "answered" => /\ q.answer.status # 201 /\ q.answer.code \notin Refused
                                  /\ q.answer.code # "idempotency_key_reused"
      BY <1>1, <1>3, <1>4, <3>1, Zenon DEF Truthful
    <3>3. Fits(x.pc, o)
      BY <2>7, Zenon DEF Fits, Declined
    <3>4. QED
      BY <2>7, <3>2, <3>3, Zenon DEF SaysOf
  <2>12. QED
    BY <1>2, <1>3, <1>4, <2>2, <2>4, <2>5, <2>6, <2>7, <2>8, <2>9, <2>10, <2>11, OrderStep, Zenon
<1>5. CASE ~(validateCreateOrder(q) /\ order[k].status = "NONE")
  <2>1. UNCHANGED <<page, shop>>
    BY <1>2, <1>3, <1>5, Zenon DEF createOrder, Replays, shop
  <2>2. CASE validateCreateOrder(q)
    <3>1. Returns(r, replay(q.key, q.seats)) /\ order[q.key].status # "NONE"
      BY <1>3, <1>5, <2>2, Zenon DEF createOrder, Replays
    <3>2. replay(q.key, q.seats) \in Outcomes /\ Pledge(q.key, replay(q.key, q.seats))
      BY <1>2, <3>1, ReplayTruth, Zenon
    <3>3. q.pc # "none"
      BY <1>2, Zenon
    <3>4. QED
      BY <2>1, <3>1, <3>2, <3>3, ReturnsKeeps, Zenon
  <2>3. CASE ~validateCreateOrder(q)
    <3>1. Returns(r, "InvalidArgument") /\ q.pc # "none"
      BY <1>2, <1>3, <2>3, Zenon DEF createOrder, Replays
    <3>2. "InvalidArgument" \in Outcomes /\ Pledge(q.key, "InvalidArgument")
      BY NothingSaid, Zenon
    <3>3. QED
      BY <2>1, <3>1, <3>2, ReturnsKeeps, Zenon
  <2>4. QED
    BY <2>2, <2>3, Zenon
<1>6. QED
  BY <1>4, <1>5, Zenon

\* A call returns and leaves its order changed.
LEMMA ReturnStep ==
  ASSUME CheckInv, NEW r \in Reqs, req[r].pc # "none", NEW k \in Keys, k = req[r].key,
         order[k].status = "NONE" \/ req[r].pc = "saga",
         NEW o \in OrderRec, order' = [order EXCEPT ![k] = o], SoldKept, RecordOK(k, o),
         o.status # "NONE" => o.seats = req[r].seats, NEW outcome \in Outcomes,
         Returns(r, outcome), page' = page, Fits(outcome, o)
  PROVE  CheckInv'
<1> DEFINE q == req[r]
           x == Returned(r, outcome)
<1>1. /\ q \in ReqRec /\ ReqOK(q) /\ Truthful(q) /\ CheckTypes /\ SagaInv
      /\ q.route = "create_order" /\ k # NoKey
  BY GatewayConstantsOK, Zenon DEF CheckInv, CheckTypes, ReqTypes, DecidedInv, ReqOK
<1>2. /\ x \in ReqRec /\ SameAsk(x, q) /\ x.rows = q.rows
      /\ x.stage = q.stage /\ x.answer = q.answer
      /\ x.pc = (IF Alive(r) THEN outcome ELSE "none")
      /\ \E e : (e = x \/ e = Unsent) /\ req' = [req EXCEPT ![r] = e]
  BY <1>1, ReturnedFields, Zenon
<1> HIDE DEF x
<1>3. PICK e : (e = x \/ e = Unsent) /\ req' = [req EXCEPT ![r] = e]
  BY <1>2, Zenon
<1>4. ReqOK(x)
  BY <1>1, <1>2, Zenon DEF ReqOK, SameAsk
<1>5. x.pc # "saga" /\ Fits(x.pc, o)
  <2>1. Fits("none", o)
    BY Zenon DEF Fits, Declined
  <2>2. QED
    BY <1>2, <2>1, NoPledge, Zenon
<1>6. SaysOf(x, o)
  <2>1. q.stage = "answered" => /\ q.answer.status # 201 /\ q.answer.code \notin Refused
                                /\ q.answer.code # "idempotency_key_reused"
    <3>1. CASE order[k].status = "NONE"
      BY <1>1, <3>1, Zenon DEF Truthful
    <3>2. CASE q.pc = "saga"
      <4>1. Working(k) /\ order[k].status = "PENDING"
        BY <1>1, <3>2, Zenon DEF Working, InSaga, SagaInv
      <4>2. QED
        BY <1>1, <4>1, Zenon DEF Truthful
    <3>3. QED
      BY <3>1, <3>2, Zenon
  <2>2. QED
    BY <1>2, <1>5, <2>1, Zenon DEF SaysOf
<1>7. QED
  BY <1>1, <1>2, <1>3, <1>4, <1>5, <1>6, OrderStep, Zenon

\* The insert fails, or only its reply is lost, or the first attempt cannot be read.
LEMMA InsertFailsKeeps ==
  ASSUME CheckInv, NEW r \in Reqs, InsertFails(r)
  PROVE  CheckInv'
<1> DEFINE q == req[r]
<1>1. q \in ReqRec /\ ReqOK(q) /\ CheckTypes
  BY Zenon DEF CheckInv, CheckTypes, ReqTypes, DecidedInv
<1>2. q.pc = "insert" /\ q.pc # "none" /\ page' = page /\ sold' = sold
  <2>1. q.pc = "insert" /\ "insert" # "none"
    BY Zenon DEF InsertFails
  <2>2. QED
    BY <2>1, Zenon DEF InsertFails
<1>3. PICK k \in Keys : k = q.key
  BY <1>1, <1>2, Zenon DEF ReqOK
<1>4. PICK outcome \in Outcomes : /\ Returns(r, outcome) /\ Pledge(q.key, outcome)
                                  /\ \A o : Fits(outcome, o)
  <2>1. /\ "Internal" \in Outcomes /\ Pledge(q.key, "Internal") /\ "Internal" # "created"
        /\ "Internal" \notin Declined /\ "Internal" # "IDEMPOTENCY_KEY_REUSED"
    BY NothingSaid, Zenon
  <2>2. \A o : Fits("Internal", o)
    BY <2>1, Zenon DEF Fits
  <2>3. QED
    BY <2>1, <2>2, Zenon DEF InsertFails
<1>5. CASE UNCHANGED order
  <2>1. UNCHANGED <<page, shop>>
    BY <1>2, <1>5, Zenon DEF shop
  <2>2. QED
    BY <1>2, <1>4, <2>1, ReturnsKeeps, Zenon
<1>6. CASE order[q.key].status = "NONE" /\ Inserts(r)
  <2> DEFINE o == [order[k] EXCEPT !.status = "PENDING", !.seats = q.seats]
  <2>1. /\ order[k] \in OrderRec /\ RecordInv(k) /\ order[k].status = "NONE"
        /\ DOMAIN order = Keys \cup {Foreign}
    BY <1>3, <1>6, Zenon DEF CheckInv, CheckTypes, ShopTypes, DecidedInv
  <2>2. order' = [order EXCEPT ![k] = o]
    BY <1>3, <1>6, <2>1, Zenon DEF Inserts, OrderRec
  <2>3. q.seats \in SUBSET Seats
    BY <1>1, Zenon DEF ReqRec
  <2>4. o \in OrderRec
    BY <2>1, <2>3, Zenon DEF OrderRec
  <2>5. o.status = "PENDING" /\ o.seats = q.seats /\ o.charged = order[k].charged
    BY <2>1, Zenon DEF OrderRec
  <2> HIDE DEF o
  <2>6. ~o.charged
    BY <2>1, <2>5, Zenon DEF RecordInv
  <2>7. RecordOK(k, o) /\ SoldKept
    BY <1>1, <1>2, <2>5, <2>6, Zenon DEF RecordOK, SoldKept, CheckTypes, ShopTypes
  <2>8. QED
    BY <1>2, <1>3, <1>4, <2>1, <2>2, <2>4, <2>5, <2>7, ReturnStep, Zenon
<1>7. QED
  BY <1>5, <1>6, Zenon DEF InsertFails

\* What the saga leaves behind, and what its call returns.
LEMMA LeavesKeeps ==
  ASSUME CheckInv, NEW r \in Reqs, InSaga(r), NEW st \in {"PENDING", "CONFIRMED", "FAILED"},
         NEW reason \in Reasons, NEW charged \in BOOLEAN, NEW sells \in BOOLEAN,
         Leaves(r, st, reason, charged, sells), NEW outcome \in Outcomes, Returns(r, outcome),
         st = "CONFIRMED" => charged /\ sells, st = "FAILED" /\ reason \in Declined => ~charged,
         outcome = "created" => st = "CONFIRMED", outcome # "IDEMPOTENCY_KEY_REUSED",
         outcome \in Declined => ~charged /\ st \in {"PENDING", "FAILED"}
  PROVE  CheckInv'
<1> DEFINE q == req[r]
<1>1. q \in ReqRec /\ ReqOK(q) /\ CheckTypes /\ SagaInv
  BY Zenon DEF CheckInv, CheckTypes, ReqTypes, DecidedInv
<1>2. q.pc = "saga" /\ q.pc # "none" /\ page' = page
  <2>1. q.pc = "saga" /\ "saga" # "none"
    BY Zenon DEF InSaga
  <2>2. QED
    BY <2>1, Zenon DEF Leaves
<1>3. PICK k \in Keys : k = q.key /\ q.route = "create_order"
  BY <1>1, <1>2, Zenon DEF ReqOK
<1>4. order[k] \in OrderRec /\ order[k].status = "PENDING"
  BY <1>1, <1>2, <1>3, Zenon DEF CheckTypes, ShopTypes, SagaInv
<1>5. order[k].seats = q.seats
  <2>1. "PENDING" # "NONE"
    OBVIOUS
  <2>2. QED
    BY <1>3, <1>4, <2>1, Zenon DEF CheckInv, KeysAgree
<1> DEFINE o == [order[k] EXCEPT !.status = st, !.reason = reason, !.charged = charged]
<1>6. order' = [order EXCEPT ![k] = o]
  BY <1>3, Zenon DEF Leaves
<1>7. o \in OrderRec
  BY <1>4, Zenon DEF OrderRec
<1>8. o.status = st /\ o.reason = reason /\ o.charged = charged /\ o.seats = order[k].seats
  BY <1>4, Zenon DEF OrderRec
<1> HIDE DEF o
<1>9. /\ sells => \A s \in q.seats : sold[s] = NoKey
      /\ sold' = IF sells THEN [s \in Seats |-> IF s \in q.seats THEN k ELSE sold[s]] ELSE sold
  BY <1>3, Zenon DEF Leaves
<1>10. sold \in [Seats -> Keys \cup {NoKey}] /\ q.seats \in SUBSET Seats
  BY <1>1, Zenon DEF CheckTypes, ShopTypes, ReqRec
<1>11. SoldKept
  <2>1. CASE sells
    BY <1>9, <1>10, <2>1, Zenon DEF SoldKept
  <2>2. CASE ~sells
    BY <1>9, <1>10, <2>2, Zenon DEF SoldKept
  <2>3. QED
    BY <2>1, <2>2, Zenon
<1>12. RecordOK(k, o)
  <2>1. st = "CONFIRMED" => \A s \in o.seats : sold'[s] = k
    BY <1>5, <1>8, <1>9, <1>10, Zenon
  <2>2. st # "NONE"
    OBVIOUS
  <2>3. QED
    BY <1>8, <2>1, <2>2, Zenon DEF RecordOK
<1>13. QED
  <2>1. Fits(outcome, o)
    BY <1>8, Zenon DEF Fits
  <2>2. QED
    BY <1>2, <1>3, <1>5, <1>6, <1>7, <1>8, <1>11, <1>12, <2>1, ReturnStep, Zenon

\* The saga ends undecided, failed or even confirmed, and its call claims nothing.
LEMMA QuietLeaves ==
  ASSUME CheckInv, NEW r \in Reqs, InSaga(r), NEW st \in {"PENDING", "CONFIRMED", "FAILED"},
         NEW reason \in Reasons, NEW charged \in BOOLEAN, NEW sells \in BOOLEAN,
         Leaves(r, st, reason, charged, sells),
         NEW outcome \in {"InvalidArgument", "Internal", "SERVICE_UNAVAILABLE"},
         Returns(r, outcome), reason \notin Declined, st = "CONFIRMED" => charged /\ sells
  PROVE  CheckInv'
<1>1. /\ outcome \in Outcomes /\ outcome # "created"
      /\ outcome \notin Declined /\ outcome # "IDEMPOTENCY_KEY_REUSED"
  BY NothingSaid, Zenon
<1>2. QED
  BY <1>1, LeavesKeeps, Zenon

\* The saga ends, whether or not the gateway still waits.
LEMMA SagaEndsKeep ==
  ASSUME CheckInv, NEW r \in Reqs, Confirm(r) \/ Refuse(r) \/ Break(r) \/ Unfinished(r)
  PROVE  CheckInv'
<1>1. /\ "none" \in Reasons /\ "SERVICE_UNAVAILABLE" \in Reasons /\ Declined \subseteq Reasons
      /\ "none" \notin Declined /\ "SERVICE_UNAVAILABLE" \notin Declined
  BY Zenon DEF Reasons, Declined
<1>2. /\ "PENDING" \in {"PENDING", "CONFIRMED", "FAILED"} /\ "PENDING" # "CONFIRMED"
      /\ "FAILED" \in {"PENDING", "CONFIRMED", "FAILED"} /\ "FAILED" # "CONFIRMED"
      /\ "CONFIRMED" \in {"PENDING", "CONFIRMED", "FAILED"} /\ "PENDING" # "FAILED"
      /\ "PENDING" \in {"PENDING", "FAILED"} /\ "FAILED" \in {"PENDING", "FAILED"}
      /\ TRUE \in BOOLEAN /\ FALSE \in BOOLEAN
      /\ "Internal" \in {"InvalidArgument", "Internal", "SERVICE_UNAVAILABLE"}
      /\ "SERVICE_UNAVAILABLE" \in {"InvalidArgument", "Internal", "SERVICE_UNAVAILABLE"}
  BY Zenon
<1>3. /\ "created" \in Outcomes /\ "created" \notin Declined
      /\ "created" # "IDEMPOTENCY_KEY_REUSED" /\ Declined \subseteq Outcomes
      /\ "IDEMPOTENCY_KEY_REUSED" \notin Declined
  BY DEF Outcomes, httpError, Declined
<1>4. CASE Confirm(r)
  <2>1. InSaga(r) /\ Leaves(r, "CONFIRMED", "none", TRUE, TRUE)
    BY <1>4, Zenon DEF Confirm
  <2>2. PICK st \in {"PENDING", "CONFIRMED", "FAILED"}, reason \in Reasons, yes \in BOOLEAN :
          Leaves(r, st, reason, yes, yes) /\ st = "CONFIRMED" /\ reason \notin Declined /\ yes
    BY <1>1, <1>2, <2>1, Zenon
  <2>3. CASE Returns(r, "created")
    <3>1. PICK outcome \in Outcomes : outcome = "created" /\ Returns(r, outcome)
      BY <1>3, <2>3, Zenon
    <3>2. /\ outcome = "created" => st = "CONFIRMED" /\ outcome # "IDEMPOTENCY_KEY_REUSED"
          /\ outcome \in Declined => ~yes /\ st \in {"PENDING", "FAILED"}
          /\ outcome # "IDEMPOTENCY_KEY_REUSED"
      BY <1>3, <2>2, <3>1, Zenon
    <3>3. QED
      BY <2>1, <2>2, <3>1, <3>2, LeavesKeeps, Zenon
  <2>4. CASE Returns(r, "Internal")
    BY <1>2, <2>1, <2>2, <2>4, QuietLeaves, Zenon
  <2>5. QED
    BY <1>4, <2>3, <2>4, Zenon DEF Confirm
<1>5. CASE Refuse(r)
  <2>1. PICK reason \in Declined :
          /\ InSaga(r) /\ Returns(r, reason)
          /\ \/ Leaves(r, "FAILED", reason, FALSE, FALSE)
             \/ Leaves(r, "PENDING", "none", FALSE, FALSE)
    BY <1>5, Zenon DEF Refuse, Declined
  <2>2. /\ reason \in Outcomes /\ reason \in Reasons /\ reason # "created"
        /\ reason # "IDEMPOTENCY_KEY_REUSED"
    BY <1>1, <1>3, Zenon
  <2>3. CASE Leaves(r, "FAILED", reason, FALSE, FALSE)
    BY <1>2, <2>1, <2>2, <2>3, LeavesKeeps, Zenon
  <2>4. CASE Leaves(r, "PENDING", "none", FALSE, FALSE)
    BY <1>1, <1>2, <2>1, <2>2, <2>4, LeavesKeeps, Zenon
  <2>5. QED
    BY <2>1, <2>3, <2>4, Zenon
<1>6. CASE Break(r)
  <2>1. PICK charged \in BOOLEAN :
          /\ InSaga(r) /\ Returns(r, "SERVICE_UNAVAILABLE")
          /\ \/ Leaves(r, "FAILED", "SERVICE_UNAVAILABLE", charged, FALSE)
             \/ Leaves(r, "PENDING", "none", charged, FALSE)
    BY <1>6, Zenon DEF Break
  <2>2. CASE Leaves(r, "FAILED", "SERVICE_UNAVAILABLE", charged, FALSE)
    BY <1>1, <1>2, <2>1, <2>2, QuietLeaves, Zenon
  <2>3. CASE Leaves(r, "PENDING", "none", charged, FALSE)
    BY <1>1, <1>2, <2>1, <2>3, QuietLeaves, Zenon
  <2>4. QED
    BY <2>1, <2>2, <2>3, Zenon
<1>7. CASE Unfinished(r)
  <2>1. PICK sells \in BOOLEAN :
          /\ InSaga(r) /\ Returns(r, "Internal")
          /\ Leaves(r, "PENDING", "none", TRUE, sells)
    BY <1>7, Zenon DEF Unfinished
  <2>2. QED
    BY <1>1, <1>2, <2>1, QuietLeaves, Zenon
<1>8. QED
  BY <1>4, <1>5, <1>6, <1>7, Zenon

-----------------------------------------------------------------------------
(* The invariant of a purchase, over all steps.                            *)

\* Nothing is bought at the start.
LEMMA CheckStarts ==
  ASSUME CheckoutInit
  PROVE  CheckInv
<1>1. PICK p \in People : \E at \in Visit[p].pages :
        page = [q \in People |->
                  IF q # p THEN Opened("closed")
                  ELSE [Opened(at) EXCEPT !.mine = IF at = "order" THEN Foreign ELSE @]]
  BY Zenon DEF CheckoutInit
<1>2. PICK at \in {"event", "order", "organizer"} :
        page = [q \in People |->
                  IF q # p THEN Opened("closed")
                  ELSE [Opened(at) EXCEPT !.mine = IF at = "order" THEN Foreign ELSE @]]
  BY <1>1, CheckoutConstantsOK, Zenon
<1>3. ASSUME NEW q \in People
      PROVE  page[q] \in PageRec /\ page[q].key = NoKey /\ PageOK(page[q])
  <2>1. CASE q # p
    <3>1. page[q] = Opened("closed")
      BY <1>2, <2>1, Zenon
    <3>2. QED
      BY <3>1 DEF Opened, PageRec, AnyKey, Codes, PageOK
  <2>2. CASE q = p
    <3>1. page[q] = [Opened(at) EXCEPT !.mine = IF at = "order" THEN Foreign ELSE @]
      BY <1>2, <2>2, Zenon
    <3>2. Foreign # NoKey /\ 0 \in Int
      BY CheckoutConstantsOK
    <3>3. QED
      BY <3>1, <3>2, Zenon DEF Opened, PageRec, AnyKey, Codes, PageOK
  <2>3. QED
    BY <2>1, <2>2, Zenon
<1>4. PageTypes
  BY <1>2, <1>3, Zenon DEF PageTypes
<1>5. req = [r \in Reqs |-> Unsent]
  BY Zenon DEF CheckoutInit, GatewayInit
<1>6. \A r \in Reqs : req[r] = Unsent
  BY <1>5, Zenon
<1>7. ReqTypes
  BY <1>5, <1>6, UnsentFields, Zenon DEF ReqTypes
<1>8. DOMAIN order = Keys \cup {Foreign} /\ sold = [s \in Seats |-> NoKey]
  BY Zenon DEF CheckoutInit
<1>9. ASSUME NEW k \in Keys
      PROVE  order[k] = NewOrder /\ order[k] \in OrderRec /\ order[k].status = "NONE"
             /\ ~order[k].charged
  <2>1. order[k] = NewOrder
    BY CheckoutConstantsOK, Zenon DEF CheckoutInit
  <2>2. QED
    BY <2>1 DEF NewOrder, OrderRec, Reasons
<1>10. order[Foreign] \in OrderRec
  <2>1. order[Foreign] = [NewOrder EXCEPT !.status = "CONFIRMED"]
    BY Zenon DEF CheckoutInit
  <2>2. QED
    BY <2>1, Zenon DEF NewOrder, OrderRec, Reasons
<1>11. ShopTypes
  <2>1. sold \in [Seats -> Keys \cup {NoKey}]
    BY <1>8, Zenon
  <2>2. QED
    BY <1>8, <1>9, <1>10, <2>1, Zenon DEF ShopTypes
<1>12. \A r \in Reqs : /\ ReqOK(req[r]) /\ Truthful(req[r]) /\ Pledge(req[r].key, req[r].pc)
                       /\ req[r].pc # "saga"
  <2>1. Truthful(Unsent) /\ Pledge(Unsent.key, Unsent.pc) /\ Unsent.pc # "saga"
    BY UnsentFields, NoPledge, Zenon DEF Truthful
  <2>2. QED
    BY <1>6, <2>1, UnsentFields, Zenon
<1>13. SagaInv
  BY <1>12, Zenon DEF SagaInv
<1>14. \A k \in Keys : RecordInv(k)
  BY <1>9, Zenon DEF RecordInv
<1>15. KeysAgree([k \in Keys |-> {}]) /\ [k \in Keys |-> {}] \in [Keys -> SUBSET Seats]
  <2>1. \A r \in Reqs : req[r].route # "create_order"
    BY <1>6, UnsentFields, Zenon
  <2>2. [k \in Keys |-> {}] \in [Keys -> SUBSET Seats]
    OBVIOUS
  <2>3. QED
    BY <1>3, <1>9, <2>1, <2>2, Zenon DEF KeysAgree
<1>16. QED
  BY <1>3, <1>4, <1>7, <1>11, <1>12, <1>13, <1>14, <1>15, Zenon
     DEF CheckInv, CheckTypes, DecidedInv

\* Steps that neither a request, nor a page, nor an order takes part in.
LEMMA CheckSteady ==
  ASSUME CheckInv, UNCHANGED <<req, page, shop>>
  PROVE  CheckInv'
  BY PagesSteady, PageStepKeeps, Zenon

\* Every step keeps what is true of a purchase.
LEMMA CheckStep ==
  ASSUME CheckInv, [CheckoutNext]_vars
  PROVE  CheckInv'
<1>1. CASE UNCHANGED vars
  BY <1>1, CheckSteady, Zenon DEF vars, gatewayVars, shop
<1>2. ASSUME NEW p \in People, PageStep(p) PROVE CheckInv'
  BY <1>2, BuyKeeps, AskKeeps, ToggleKeeps, Zenon DEF PageStep
<1>3. ASSUME NEW r \in Reqs, Receive(r) \/ Resend(r) \/ ConnectionDrops(r) PROVE CheckInv'
  BY <1>3, HearsKeeps, ResendKeeps, Zenon
<1>4. ASSUME NEW r \in Reqs, OrderService(r) PROVE CheckInv'
  BY <1>4, CreateKeeps, InsertFailsKeeps, SagaEndsKeep, RepliesKeep, OrderShownKeeps, Zenon
     DEF OrderService
<1>5. ASSUME NEW r \in Reqs, GatewayStep(r) PROVE CheckInv'
  BY <1>5, GatewayKeeps, Zenon DEF GatewayStep
<1>6. CASE Life
  BY <1>6, CheckSteady, Zenon DEF Life, Drained, StartGateway
<1>7. CASE Clock
  BY <1>7, CheckSteady, Zenon DEF Clock, Tick
<1>8. CASE Trouble
  <2>1. CASE Drain \/ \E k \in Metered : ExpiryLost(k)
    BY <1>8, <2>1, CheckSteady, Zenon DEF Trouble, Drain, ExpiryLost
  <2>2. CASE \E r \in Reqs : GatewayFault(r)
    BY <1>8, <2>2, GatewayKeeps, Zenon DEF Trouble
  <2>3. QED
    BY <1>8, <2>1, <2>2, Zenon DEF Trouble
<1>9. QED
  BY <1>1, <1>2, <1>3, <1>4, <1>5, <1>6, <1>7, <1>8, Zenon DEF CheckoutNext

(* Pages, requests and orders always fit together: a key stands for one    *)
(* choice of seats on the page, in the requests and in the order it named, *)
(* at most one call carries out the purchase of a key, also when nobody    *)
(* waits for it any more, and what a call is about to say of its order     *)
(* stays true until the gateway hears it, or has given up.                 *)
THEOREM PurchaseAgrees == CheckoutSpec => []CheckInv
<1>1. CheckoutInit => CheckInv
  BY CheckStarts, Zenon
<1>2. CheckInv /\ [CheckoutNext]_vars => CheckInv'
  BY CheckStep, Zenon
<1>3. QED
  BY <1>1, <1>2, PTL DEF CheckoutSpec

(* What the buyer is told is so and stays so, for any number of people,    *)
(* seats, keys and requests in flight: 201 only for an order that is       *)
(* confirmed, paid and has its seats, a refusal only for one that was not  *)
(* charged and never will be confirmed, an order only to its owner or an   *)
(* admin, no key for two purchases, no list beyond its ceiling.            *)
THEOREM AnswersTrueCorrect == CheckoutSpec => []AnswersAreTrue
<1>1. CheckInv => AnswersAreTrue
  <2>1. SUFFICES ASSUME CheckInv, NEW r \in Reqs
                 PROVE  LET q == req[r]
                            o == order[q.key]
                        IN /\ q.rows <= IF q.route = "analytics" THEN 100 ELSE 200
                           /\ q.stage = "answered" /\ q.awaited /\ q.key # NoKey =>
                             /\ q.answer.status = 201 =>
                                  /\ o.status = "CONFIRMED" /\ o.charged /\ o.seats = q.seats
                                  /\ \A s \in q.seats : sold[s] = q.key
                             /\ q.answer.code \in {"seats_unavailable", "payment_declined"} =>
                                  ~o.charged /\ o.status # "CONFIRMED" /\ ~Working(q.key)
                             /\ q.route = "get_order" /\ q.answer.status = 200 =>
                                  q.key # Foreign \/ RoleOf[q.from] = "admin"
                             /\ q.answer.code # "idempotency_key_reused"
    BY Zenon DEF AnswersAreTrue
  <2> DEFINE q == req[r]
             o == order[q.key]
  <2>2. ReqOK(q) /\ Truthful(q) /\ \A k \in Keys : RecordInv(k)
    BY <2>1, Zenon DEF CheckInv, DecidedInv
  <2>3. q.rows <= IF q.route = "analytics" THEN 100 ELSE 200
    BY <2>2, Zenon DEF ReqOK
  <2>4. ASSUME q.stage = "answered", q.key # NoKey, q.answer.status = 201
        PROVE  /\ o.status = "CONFIRMED" /\ o.charged /\ o.seats = q.seats
               /\ \A s \in q.seats : sold[s] = q.key
    <3>1. q.route = "create_order" /\ o.status = "CONFIRMED"
      BY <2>2, <2>4, Zenon DEF Truthful
    <3>2. q.key \in Keys /\ o.status # "NONE"
      BY <2>2, <3>1, Zenon DEF ReqOK
    <3>3. o.seats = q.seats
      BY <2>1, <3>1, <3>2, Zenon DEF CheckInv, KeysAgree
    <3>4. QED
      BY <2>2, <3>1, <3>2, <3>3, Zenon DEF RecordInv
  <2>5. ASSUME q.stage = "answered", q.key # NoKey,
               q.answer.code \in {"seats_unavailable", "payment_declined"}
        PROVE  ~o.charged /\ o.status # "CONFIRMED" /\ ~Working(q.key)
    <3>1. ~o.charged /\ o.status \in {"PENDING", "FAILED"} /\ ~Working(q.key)
      BY <2>2, <2>5, Zenon DEF Truthful, Refused
    <3>2. QED
      BY <3>1, Zenon
  <2>6. q.stage = "answered" /\ q.key # NoKey =>
          /\ q.route = "get_order" /\ q.answer.status = 200 =>
               q.key # Foreign \/ RoleOf[q.from] = "admin"
          /\ q.answer.code # "idempotency_key_reused"
    BY <2>2, Zenon DEF Truthful
  <2>7. QED
    BY <2>3, <2>4, <2>5, <2>6, Zenon
<1>2. QED
  BY <1>1, PurchaseAgrees, PTL

-----------------------------------------------------------------------------
(* A key stands for one purchase: the checkout implements module Purchase. *)

\* What may be left of a purchase when its saga ends.
Outcome(st, reason, charged, sells) ==
  /\ st \in {"PENDING", "CONFIRMED", "FAILED"} /\ reason \in Reasons
  /\ charged \in BOOLEAN /\ sells \in BOOLEAN
  /\ sells => charged /\ st # "FAILED"
  /\ st = "CONFIRMED" => charged /\ sells
  /\ reason \in Declined => st = "FAILED" /\ ~charged

\* The order of key k is inserted.
Starts(k) ==
  /\ order[k].status = "NONE" /\ sold' = sold
  /\ \E S \in SUBSET Seats :
       order' = [order EXCEPT ![k] = [order[k] EXCEPT !.status = "PENDING", !.seats = S]]

\* The saga of key k ends, with this outcome.
EndsWith(k, st, reason, charged, sells) ==
  /\ Outcome(st, reason, charged, sells)
  /\ order' = [order EXCEPT ![k] = [order[k] EXCEPT !.status = st, !.reason = reason,
                                                    !.charged = charged]]
  /\ sells => \A s \in order[k].seats : sold[s] = NoKey
  /\ sold' = IF sells THEN [s \in Seats |-> IF s \in order[k].seats THEN k ELSE sold[s]]
             ELSE sold

Finishes(k) ==
  /\ order[k].status = "PENDING" /\ ~order[k].charged
  /\ \E st, reason, charged, sells : EndsWith(k, st, reason, charged, sells)

\* A saga that leaves something behind finishes the purchase of its key.
LEMMA LeavesFinishes ==
  ASSUME CheckInv, NEW r \in Reqs, InSaga(r), NEW st, NEW reason, NEW charged, NEW sells,
         Leaves(r, st, reason, charged, sells), Outcome(st, reason, charged, sells)
  PROVE  \E k \in Keys : Finishes(k)
<1> DEFINE q == req[r]
<1>1. ReqOK(q) /\ SagaInv
  BY Zenon DEF CheckInv, DecidedInv
<1>2. q.pc = "saga" /\ "saga" # "none"
  BY Zenon DEF InSaga
<1>3. PICK k \in Keys : k = q.key /\ q.route = "create_order"
  BY <1>1, <1>2, Zenon DEF ReqOK
<1>4. order[k].status = "PENDING" /\ ~order[k].charged /\ "PENDING" # "NONE"
  BY <1>1, <1>2, <1>3, Zenon DEF SagaInv
<1>5. order[k].seats = q.seats
  BY <1>3, <1>4, Zenon DEF CheckInv, KeysAgree
<1>6. /\ order' = [order EXCEPT ![k] = [order[k] EXCEPT !.status = st, !.reason = reason,
                                                        !.charged = charged]]
      /\ sells => \A s \in order[k].seats : sold[s] = NoKey
      /\ sold' = IF sells THEN [s \in Seats |-> IF s \in order[k].seats THEN k ELSE sold[s]]
                 ELSE sold
  BY <1>3, <1>5, Zenon DEF Leaves
<1>7. EndsWith(k, st, reason, charged, sells)
  BY <1>6, Zenon DEF EndsWith
<1>8. QED
  BY <1>4, <1>7, Zenon DEF Finishes

\* The ways a saga may end.
LEMMA SagaOutcomes ==
  /\ Outcome("CONFIRMED", "none", TRUE, TRUE)
  /\ \A reason \in Declined : Outcome("FAILED", reason, FALSE, FALSE)
  /\ \A charged \in BOOLEAN : /\ Outcome("FAILED", "SERVICE_UNAVAILABLE", charged, FALSE)
                              /\ Outcome("PENDING", "none", charged, FALSE)
  /\ \A sells \in BOOLEAN : Outcome("PENDING", "none", TRUE, sells)
<1>1. Outcome("CONFIRMED", "none", TRUE, TRUE)
  BY Zenon DEF Outcome, Reasons, Declined
<1>2. \A reason \in Declined : Outcome("FAILED", reason, FALSE, FALSE)
  BY Zenon DEF Outcome, Reasons, Declined
<1>3. \A charged \in BOOLEAN : /\ Outcome("FAILED", "SERVICE_UNAVAILABLE", charged, FALSE)
                               /\ Outcome("PENDING", "none", charged, FALSE)
  BY Zenon DEF Outcome, Reasons, Declined
<1>4. \A sells \in BOOLEAN : Outcome("PENDING", "none", TRUE, sells)
  BY Zenon DEF Outcome, Reasons, Declined
<1>5. QED
  BY <1>1, <1>2, <1>3, <1>4, Zenon

\* Only the insert and the end of a saga change what is bought.
LEMMA ShopSteps ==
  ASSUME CheckInv, [CheckoutNext]_vars
  PROVE  UNCHANGED shop \/ \E k \in Keys : Starts(k) \/ Finishes(k)
<1>1. CASE UNCHANGED vars
  BY <1>1, Zenon DEF vars, shop
<1>2. ASSUME NEW p \in People, PageStep(p) PROVE UNCHANGED shop
  BY <1>2, Zenon DEF PageStep, buy, PollOrder, SubmitEvent, LoadAnalytics, LoadEvents, toggle
<1>3. ASSUME NEW r \in Reqs, Receive(r) \/ Resend(r) \/ ConnectionDrops(r) PROVE UNCHANGED shop
  BY <1>3, Zenon DEF Receive, Resend, ConnectionDrops
<1>4. ASSUME NEW r \in Reqs, GatewayStep(r) PROVE UNCHANGED shop
  BY <1>4, Zenon DEF GatewayStep
<1>5. CASE Life \/ Clock \/ Trouble
  BY <1>5, Zenon DEF Life, Clock, Trouble
<1>6. ASSUME NEW r \in Reqs, createOrder(r) \/ InsertFails(r)
      PROVE  UNCHANGED shop \/ \E k \in Keys : Starts(k)
  <2> DEFINE q == req[r]
  <2>1. q \in ReqRec /\ ReqOK(q) /\ q.pc = "insert" /\ "insert" # "none" /\ sold' = sold
    BY <1>6, Zenon DEF CheckInv, CheckTypes, ReqTypes, DecidedInv, createOrder, InsertFails
  <2>2. PICK k \in Keys : k = q.key
    BY <2>1, Zenon DEF ReqOK
  <2>3. q.seats \in SUBSET Seats
    BY <2>1, Zenon DEF ReqRec
  <2>4. order[k] \in OrderRec /\ DOMAIN order = Keys \cup {Foreign}
    BY Zenon DEF CheckInv, CheckTypes, ShopTypes
  <2>5. order' = order \/ (order[k].status = "NONE" /\ Inserts(r))
    BY <1>6, <2>2, Zenon DEF createOrder, InsertFails, Replays
  <2>6. CASE order[k].status = "NONE" /\ Inserts(r)
    <3>1. order' = [order EXCEPT ![k] = [order[k] EXCEPT !.status = "PENDING", !.seats = q.seats]]
      BY <2>2, <2>4, <2>6, Zenon DEF Inserts, OrderRec
    <3>2. QED
      BY <2>1, <2>3, <2>6, <3>1, Zenon DEF Starts
  <2>7. QED
    BY <2>1, <2>5, <2>6, Zenon DEF shop
<1>7. ASSUME NEW r \in Reqs, OrderService(r)
      PROVE  UNCHANGED shop \/ \E k \in Keys : Starts(k) \/ Finishes(k)
  <2>1. CASE Confirm(r)
    BY <2>1, SagaOutcomes, LeavesFinishes, Zenon DEF Confirm
  <2>2. CASE Refuse(r)
    <3>1. FALSE \in BOOLEAN
      BY Zenon
    <3>2. QED
      BY <2>2, <3>1, SagaOutcomes, LeavesFinishes, Zenon DEF Refuse, Declined
  <2>3. CASE Break(r)
    BY <2>3, SagaOutcomes, LeavesFinishes, Zenon DEF Break
  <2>4. CASE Unfinished(r)
    BY <2>4, SagaOutcomes, LeavesFinishes, Zenon DEF Unfinished
  <2>5. CASE Replies(r)
    BY <2>5, Zenon DEF Replies
  <2>6. CASE OrderShown(r)
    BY <2>6, Zenon DEF OrderShown
  <2>7. QED
    BY <1>6, <1>7, <2>1, <2>2, <2>3, <2>4, <2>5, <2>6, Zenon DEF OrderService
<1>8. QED
  BY <1>1, <1>2, <1>3, <1>4, <1>5, <1>7, Zenon DEF CheckoutNext

\* A key that was never inserted has no reason for a failure.
ReasonInv == \A k \in Keys : order[k].status = "NONE" => order[k].reason = "none"

\* What a key shows is made of the four fields of its order.
LEMMA ShownOrder ==
  ASSUME NEW o
  PROVE  /\ PurchaseOf(o).status = o.status /\ PurchaseOf(o).reason = o.reason
         /\ PurchaseOf(o).seats = (IF o.status = "NONE" THEN {} ELSE o.seats)
         /\ PurchaseOf(o).paid = o.charged
BY Zenon DEF PurchaseOf

\* One order changes: its key shows the new one, the others what they did.
LEMMA OneOrder ==
  ASSUME CheckTypes, NEW k \in Keys, NEW o \in OrderRec, order' = [order EXCEPT ![k] = o]
  PROVE  /\ order'[k] = o /\ \A j \in Keys : j # k => order'[j] = order[j]
         /\ PurchaseView[k] = PurchaseOf(order[k]) /\ PurchaseView'[k] = PurchaseOf(o)
         /\ PurchaseView' = [PurchaseView EXCEPT ![k] = PurchaseView'[k]]
         /\ PurchaseView'[k] \in Keyed!APurchase
<1>1. DOMAIN order = Keys \cup {Foreign}
  BY Zenon DEF CheckTypes, ShopTypes
<1>2. order'[k] = o /\ \A j \in Keys : j # k => order'[j] = order[j]
  BY <1>1, Zenon
<1>3. PurchaseView[k] = PurchaseOf(order[k]) /\ PurchaseView'[k] = PurchaseOf(o)
  BY <1>2, Zenon DEF PurchaseView
<1>4. /\ PurchaseView = [j \in Keys |-> PurchaseOf(order[j])]
      /\ PurchaseView' = [j \in Keys |-> PurchaseOf(order'[j])]
  BY Zenon DEF PurchaseView
<1>5. PurchaseView' = [PurchaseView EXCEPT ![k] = PurchaseView'[k]]
  BY <1>2, <1>4
<1>6. PurchaseOf(o) \in Keyed!APurchase
  <2>1. /\ o.status \in {"NONE", "PENDING", "CONFIRMED", "FAILED"} /\ o.reason \in Reasons
        /\ o.seats \in SUBSET Seats /\ o.charged \in BOOLEAN /\ {} \in SUBSET Seats
    BY Zenon DEF OrderRec
  <2>2. Reasons \subseteq Keyed!NotCharged \cup {"none", "SERVICE_UNAVAILABLE"}
    BY Zenon DEF Reasons, Keyed!NotCharged
  <2>3. QED
    BY <2>1, <2>2, Zenon DEF PurchaseOf, Keyed!APurchase
<1>7. QED
  BY <1>2, <1>3, <1>5, <1>6, Zenon

\* An insert begins a purchase.
LEMMA StartsStep ==
  ASSUME CheckInv, ReasonInv, NEW k \in Keys, Starts(k)
  PROVE  [Keyed!PurchaseNext]_<<PurchaseView, sold>> /\ ReasonInv'
<1>1. PICK S \in SUBSET Seats :
        order' = [order EXCEPT ![k] = [order[k] EXCEPT !.status = "PENDING", !.seats = S]]
  BY Zenon DEF Starts
<1> DEFINE o == [order[k] EXCEPT !.status = "PENDING", !.seats = S]
<1>2. /\ order[k] \in OrderRec /\ CheckTypes /\ order[k].status = "NONE" /\ sold' = sold
      /\ order[k].reason = "none" /\ ~order[k].charged /\ order[k].charged \in BOOLEAN
  BY Zenon DEF CheckInv, CheckTypes, ShopTypes, DecidedInv, RecordInv, ReasonInv, Starts, OrderRec
<1>3. o \in OrderRec
  BY <1>1, <1>2, Zenon DEF OrderRec
<1>4. /\ o.status = "PENDING" /\ o.seats = S /\ o.reason = order[k].reason
      /\ o.charged = order[k].charged
  BY <1>2, Zenon DEF OrderRec
<1>5. order' = [order EXCEPT ![k] = o]
  BY <1>1, Zenon
<1> HIDE DEF o
<1>6. /\ order'[k] = o /\ \A j \in Keys : j # k => order'[j] = order[j]
      /\ PurchaseView[k] = PurchaseOf(order[k]) /\ PurchaseView'[k] = PurchaseOf(o)
      /\ PurchaseView' = [PurchaseView EXCEPT ![k] = PurchaseView'[k]]
      /\ PurchaseView'[k] \in Keyed!APurchase
  BY <1>2, <1>3, <1>5, OneOrder, Zenon
<1>7. ReasonInv'
  BY <1>2, <1>4, <1>6, Zenon DEF ReasonInv
<1>8. PurchaseOf(order[k]) = Keyed!Nothing
  <2>1. order[k].charged = FALSE
    BY <1>2, Zenon
  <2>2. QED
    BY <1>2, <2>1, Zenon DEF PurchaseOf, Keyed!Nothing
<1>9. Keyed!Begins(PurchaseOf(order[k]), PurchaseOf(o))
  BY <1>2, <1>4, <1>8, ShownOrder, Zenon DEF Keyed!Begins
<1>10. PurchaseOf(o).status # "CONFIRMED"
  BY <1>4, ShownOrder, Zenon
<1>11. Keyed!Step(k, PurchaseView[k], PurchaseView'[k])
  BY <1>2, <1>6, <1>9, <1>10, Zenon DEF Keyed!Step
<1>12. QED
  BY <1>7, <1>11, Zenon DEF Keyed!PurchaseNext

\* The end of a saga charges, sells and decides as the purchase may.
LEMMA FinishesStep ==
  ASSUME CheckInv, ReasonInv, NEW k \in Keys, Finishes(k)
  PROVE  [Keyed!PurchaseNext]_<<PurchaseView, sold>> /\ ReasonInv'
<1>1. PICK st, reason, charged, sells : EndsWith(k, st, reason, charged, sells)
  BY Zenon DEF Finishes
<1> DEFINE o == [order[k] EXCEPT !.status = st, !.reason = reason, !.charged = charged]
<1>2. /\ order[k] \in OrderRec /\ CheckTypes /\ order[k].status = "PENDING" /\ ~order[k].charged
      /\ order[k].seats \in SUBSET Seats
  BY Zenon DEF CheckInv, CheckTypes, ShopTypes, Finishes, OrderRec
<1>3. /\ st \in {"PENDING", "CONFIRMED", "FAILED"} /\ reason \in Reasons
      /\ charged \in BOOLEAN /\ sells \in BOOLEAN
      /\ sells => charged /\ st # "FAILED"
      /\ st = "CONFIRMED" => charged /\ sells
      /\ reason \in Declined => st = "FAILED" /\ ~charged
  BY <1>1, Zenon DEF EndsWith, Outcome
<1>4. o \in OrderRec
  BY <1>2, <1>3, Zenon DEF OrderRec
<1>5. o.status = st /\ o.seats = order[k].seats /\ o.reason = reason /\ o.charged = charged
  BY <1>2, Zenon DEF OrderRec
<1>6. /\ order' = [order EXCEPT ![k] = o]
      /\ sells => \A s \in order[k].seats : sold[s] = NoKey
      /\ sold' = IF sells THEN [s \in Seats |-> IF s \in order[k].seats THEN k ELSE sold[s]]
                 ELSE sold
  BY <1>1, Zenon DEF EndsWith
<1> HIDE DEF o
<1>7. /\ order'[k] = o /\ \A j \in Keys : j # k => order'[j] = order[j]
      /\ PurchaseView[k] = PurchaseOf(order[k]) /\ PurchaseView'[k] = PurchaseOf(o)
      /\ PurchaseView' = [PurchaseView EXCEPT ![k] = PurchaseView'[k]]
      /\ PurchaseView'[k] \in Keyed!APurchase
  BY <1>2, <1>4, <1>6, OneOrder, Zenon
<1>8. st # "NONE" /\ order[k].status # "NONE"
  BY <1>2, <1>3
<1>9. ReasonInv'
  BY <1>5, <1>7, <1>8, Zenon DEF ReasonInv
<1>10. /\ PurchaseOf(o).status = st /\ PurchaseOf(o).reason = reason
       /\ PurchaseOf(o).paid = charged /\ PurchaseOf(o).seats = order[k].seats
       /\ PurchaseOf(order[k]).status = "PENDING" /\ ~PurchaseOf(order[k]).paid
       /\ PurchaseOf(order[k]).seats = order[k].seats
  BY <1>2, <1>5, <1>8, ShownOrder, Zenon
<1>11. Keyed!GoesOn(PurchaseOf(order[k]), PurchaseOf(o))
  <2>1. Keyed!NotCharged = Declined
    BY Zenon DEF Keyed!NotCharged, Declined
  <2>2. QED
    BY <1>2, <1>3, <1>8, <1>10, <2>1, Zenon DEF Keyed!GoesOn
<1>12. Keyed!Step(k, PurchaseView[k], PurchaseView'[k])
  <2>1. CASE sells
    <3>1. sold' = [s \in Seats |-> IF s \in order[k].seats THEN k ELSE sold[s]]
      BY <1>6, <2>1, Zenon
    <3>2. \A s \in order[k].seats : sold'[s] = k
      BY <1>2, <3>1, Zenon
    <3>3. Keyed!Sell(k, PurchaseOf(o).seats)
      BY <1>6, <1>10, <2>1, <3>1, Zenon DEF Keyed!Sell
    <3>4. PurchaseOf(o).paid /\ PurchaseOf(o).status # "FAILED"
      BY <1>3, <1>10, <2>1, Zenon
    <3>5. QED
      BY <1>7, <1>10, <1>11, <3>2, <3>3, <3>4, Zenon DEF Keyed!Step
  <2>2. CASE ~sells
    <3>1. sold' = sold /\ PurchaseOf(o).status # "CONFIRMED"
      BY <1>3, <1>6, <1>10, <2>2, Zenon
    <3>2. QED
      BY <1>7, <1>11, <3>1, Zenon DEF Keyed!Step
  <2>3. QED
    BY <2>1, <2>2, Zenon
<1>13. QED
  BY <1>9, <1>12, Zenon DEF Keyed!PurchaseNext

(* As the browser sees it, through timeouts, retries and calls that go on  *)
(* alone, a key stands for one purchase: the promise that the saga of      *)
(* order-svc implements is the one the checkout is built on.               *)
THEOREM CheckoutRefinesPurchase == CheckoutSpec => RefinesPurchase
<1>1. CheckoutInit => Keyed!PurchaseInit /\ ReasonInv
  <2> SUFFICES ASSUME CheckoutInit PROVE Keyed!PurchaseInit /\ ReasonInv
    OBVIOUS
  <2>1. \A k \in Keys : order[k] = NewOrder
    BY CheckoutConstantsOK, Zenon DEF CheckoutInit
  <2>2. NewOrder.reason = "none"
    BY Zenon DEF NewOrder
  <2>3. PurchaseOf(NewOrder) = Keyed!Nothing
    BY DEF PurchaseOf, NewOrder, Keyed!Nothing
  <2>4. PurchaseView = [k \in Keys |-> Keyed!Nothing]
    BY <2>1, <2>3, Zenon DEF PurchaseView
  <2>5. sold = [s \in Seats |-> NoKey]
    BY Zenon DEF CheckoutInit
  <2>6. QED
    BY <2>1, <2>2, <2>4, <2>5, Zenon DEF Keyed!PurchaseInit, ReasonInv
<1>2. CheckInv /\ ReasonInv /\ [CheckoutNext]_vars =>
        [Keyed!PurchaseNext]_<<PurchaseView, sold>> /\ ReasonInv'
  <2> SUFFICES ASSUME CheckInv, ReasonInv, [CheckoutNext]_vars
               PROVE  [Keyed!PurchaseNext]_<<PurchaseView, sold>> /\ ReasonInv'
    OBVIOUS
  <2>1. CASE UNCHANGED shop
    BY <2>1, Zenon DEF shop, PurchaseView, ReasonInv
  <2>2. QED
    BY <2>1, ShopSteps, StartsStep, FinishesStep, Zenon
<1>3. QED
  BY <1>1, <1>2, PurchaseAgrees, PTL
     DEF CheckoutSpec, RefinesPurchase, Keyed!PurchaseSpec, Keyed!purchaseVars
=============================================================================
