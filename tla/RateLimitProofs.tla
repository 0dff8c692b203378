-------------------------- MODULE RateLimitProofs --------------------------
(***************************************************************************)
(* Theorems about RateLimit, for any clients, limit, window, unit of       *)
(* Retry-After and bounds.                                                 *)
(***************************************************************************)
EXTENDS RateLimit, WellFoundedInduction, TLAPS

\* What a client has got through in the current window.
InWindow(c) == IF counts[c] <= Limit THEN counts[c] ELSE Limit

\* What got through since the window began is in the window, and the other way
\* round; and of the last n ticks, n up to the time of one window, the current
\* window, the one before it and each that a restart began hold the limit each.
BurstInv ==
    \A c \in Clients :
      /\ Younger(passed[c], elapsed) <= InWindow(c)
      /\ elapsed < Window => InWindow(c) <= Younger(passed[c], elapsed + 1)
      /\ \A n \in 0..Window :
           Younger(passed[c], n) <= InWindow(c) + Limit * (1 + Younger(restarts, n))

\* Who was refused waits beyond the end of the window, unless it was renewed.
WaitInv ==
    \A c \in Clients :
      wait[c] # None => elapsed = Window \/ wait[c] > Window - elapsed \/ counts[c] = 0

\* The inductive invariant.
Inv == TypeOK /\ BurstInv /\ WaitInv

-----------------------------------------------------------------------------
(* Sums over ages.                                                         *)

\* Induction, on the set of the numbers that have a property.
LEMMA Least ==
    ASSUME NEW S \in SUBSET Nat, S # {}
    PROVE  \E n \in S : \A m \in S : n <= m
<1> DEFINE R == OpToRel(<, Nat)
<1>1. IsWellFoundedOn(R, Nat)
  BY NatLessThanWellFounded
<1>2. \A x, y \in Nat : <<x, y>> \in R <=> x < y
  BY DEF OpToRel
<1> HIDE DEF R
<1>3. PICK n \in S : \A m \in S : ~ (<<m, n>> \in R)
  BY <1>1, WFMin
<1>4. ASSUME NEW m \in S PROVE n <= m
  <2>1. m \in Nat /\ n \in Nat /\ ~ (<<m, n>> \in R)
    BY <1>3
  <2>2. ~ (m < n)
    BY <2>1, <1>2, Zenon
  <2> QED BY <2>1, <2>2
<1> QED BY <1>4

LEMMA Induction ==
    ASSUME NEW S \in SUBSET Nat, 0 \in S, \A n \in S : n + 1 \in S
    PROVE  S = Nat
<1> SUFFICES ASSUME Nat \ S # {} PROVE FALSE
  OBVIOUS
<1>1. PICK n \in Nat \ S : \A m \in Nat \ S : n <= m
  BY Least
<1>2. n - 1 \in Nat \ S
  BY <1>1
<1> QED BY <1>1, <1>2

\* h holds the sums of the first values of f.
Sums(h, f, n) ==
    /\ DOMAIN h = 0..n
    /\ h[0] = 0
    /\ \A k \in 1..n : h[k] = h[k - 1] + f[k - 1]

LEMMA SumsUnique ==
    ASSUME NEW f, NEW g, NEW h, NEW m \in Nat, NEW n \in Nat, Sums(g, f, m), Sums(h, f, n)
    PROVE  \A k \in Nat : k <= m /\ k <= n => g[k] = h[k]
<1> DEFINE S == {k \in Nat : k <= m /\ k <= n => g[k] = h[k]}
<1>1. 0 \in S
  BY DEF Sums
<1>2. ASSUME NEW k \in S, k + 1 <= m, k + 1 <= n PROVE g[k + 1] = h[k + 1]
  <2>1. g[k] = h[k] /\ k + 1 \in 1..m /\ k + 1 \in 1..n /\ (k + 1) - 1 = k
    BY <1>2
  <2> QED BY <2>1 DEF Sums
<1>3. \A k \in S : k + 1 \in S
  BY <1>2
<1> HIDE DEF S
<1>4. S = Nat
  <2>1. S \in SUBSET Nat
    BY DEF S
  <2> QED BY <1>1, <1>3, <2>1, Induction
<1> QED BY <1>4 DEF S

LEMMA SumsExist ==
    ASSUME NEW f
    PROVE  \A n \in Nat : \E h : Sums(h, f, n)
<1> DEFINE S == {n \in Nat : \E h : Sums(h, f, n)}
<1>1. 0 \in S
  <2>1. Sums([k \in 0..0 |-> 0], f, 0)
    BY DEF Sums
  <2> QED BY <2>1
<1>2. ASSUME NEW n \in S PROVE n + 1 \in S
  <2>1. PICK h : Sums(h, f, n)
    OBVIOUS
  <2> DEFINE g == [k \in 0..(n + 1) |-> IF k = n + 1 THEN h[n] + f[n] ELSE h[k]]
  <2>2. g[0] = 0
    BY <2>1 DEF Sums
  <2>3. ASSUME NEW k \in 1..(n + 1) PROVE g[k] = g[k - 1] + f[k - 1]
    <3>1. CASE k = n + 1
      BY <3>1
    <3>2. CASE k # n + 1
      <4>1. k \in 1..n /\ g[k] = h[k] /\ g[k - 1] = h[k - 1]
        BY <3>2
      <4> QED BY <4>1, <2>1 DEF Sums
    <3> QED BY <3>1, <3>2
  <2>4. Sums(g, f, n + 1)
    BY <2>2, <2>3 DEF Sums
  <2> QED BY <2>4
<1> HIDE DEF S
<1>3. S = Nat
  <2>1. S \in SUBSET Nat
    BY DEF S
  <2> QED BY <1>1, <1>2, <2>1, Induction
<1> QED BY <1>3 DEF S

\* Younger adds one age after the other.
LEMMA YoungerStep ==
    ASSUME NEW f
    PROVE  /\ Younger(f, 0) = 0
           /\ \A n \in Nat : Younger(f, n + 1) = Younger(f, n) + f[n]
<1> DEFINE Sum(k) == CHOOSE h : Sums(h, f, k)
           total == [k \in Nat |-> Sum(k)[k]]
           step(g) == [k \in Nat |-> IF k = 0 THEN 0 ELSE g[k - 1] + f[k - 1]]
<1>1. \A k \in Nat : Sums(Sum(k), f, k)
  BY SumsExist
<1> HIDE DEF Sum
<1>2. ASSUME NEW k \in Nat PROVE total[k] = step(total)[k]
  <2>1. CASE k = 0
    BY <1>1, <2>1 DEF Sums
  <2>2. CASE k # 0
    <3>1. k - 1 \in Nat /\ k \in 1..k
      BY <2>2
    <3>2. Sum(k)[k - 1] = Sum(k - 1)[k - 1]
      BY <1>1, <3>1, SumsUnique
    <3>3. Sum(k)[k] = Sum(k)[k - 1] + f[k - 1]
      BY <1>1, <3>1 DEF Sums
    <3> QED BY <2>2, <3>1, <3>2, <3>3
  <2> QED BY <2>1, <2>2
<1>3. total = step(total)
  BY <1>2
<1> DEFINE chosen == CHOOSE g : g = step(g)
<1>4. chosen = step(chosen)
  <2> HIDE DEF total, step
  <2> QED BY <1>3
<1>5. \A n : Younger(f, n) = chosen[n]
  BY DEF Younger
<1> HIDE DEF chosen, total
<1>6. ASSUME NEW n \in Nat PROVE chosen[n + 1] = chosen[n] + f[n]
  <2>1. chosen[n + 1] = step(chosen)[n + 1]
    BY <1>4
  <2> QED BY <2>1
<1>7. chosen[0] = 0
  <2>1. chosen[0] = step(chosen)[0]
    BY <1>4
  <2> QED BY <2>1
<1> QED BY <1>5, <1>6, <1>7

\* What counts ages is a natural number, and grows with the age.
LEMMA YoungerType ==
    ASSUME NEW f \in [Ages -> Nat]
    PROVE  \A n \in 0..Window : Younger(f, n) \in Nat
<1> DEFINE S == {n \in Nat : n <= Window => Younger(f, n) \in Nat}
<1>1. 0 \in S
  BY YoungerStep
<1>2. ASSUME NEW n \in S PROVE n + 1 \in S
  <2> SUFFICES ASSUME n + 1 <= Window PROVE Younger(f, n + 1) \in Nat
    OBVIOUS
  <2>1. Younger(f, n) \in Nat /\ f[n] \in Nat
    BY LimitAssumption DEF Ages
  <2> QED BY <2>1, YoungerStep
<1> HIDE DEF S
<1>3. S = Nat
  <2>1. S \in SUBSET Nat
    BY DEF S
  <2> QED BY <1>1, <1>2, <2>1, Induction
<1> QED BY <1>3, LimitAssumption DEF S

LEMMA YoungerGrows ==
    ASSUME NEW f \in [Ages -> Nat], NEW m \in 0..Window, NEW n \in 0..Window, m <= n
    PROVE  Younger(f, m) <= Younger(f, n)
<1> DEFINE S == {k \in Nat : m + k <= Window => Younger(f, m) <= Younger(f, m + k)}
<1>1. 0 \in S
  BY YoungerType
<1>2. ASSUME NEW k \in S PROVE k + 1 \in S
  <2> SUFFICES ASSUME m + (k + 1) <= Window
               PROVE  Younger(f, m) <= Younger(f, m + (k + 1))
    OBVIOUS
  <2>1. m + k \in 0..Window /\ m + k \in Ages /\ m + (k + 1) = (m + k) + 1
    BY LimitAssumption DEF Ages
  <2>2. Younger(f, m + (k + 1)) = Younger(f, m + k) + f[m + k]
    BY <2>1, YoungerStep
  <2>3. Younger(f, m) <= Younger(f, m + k)
    BY <2>1
  <2> QED BY <2>1, <2>2, <2>3, YoungerType
<1> HIDE DEF S
<1>3. S = Nat
  <2>1. S \in SUBSET Nat
    BY DEF S
  <2> QED BY <1>1, <1>2, <2>1, Induction
<1>4. n - m \in Nat /\ m + (n - m) = n /\ n <= Window
  BY LimitAssumption
<1> QED BY <1>3, <1>4 DEF S

LEMMA YoungerNone ==
    ASSUME NEW n \in 0..Window
    PROVE  Younger([a \in Ages |-> 0], n) = 0
<1> DEFINE f == [a \in Ages |-> 0]
           S == {k \in Nat : k <= Window => Younger(f, k) = 0}
<1>1. 0 \in S
  BY YoungerStep
<1>2. ASSUME NEW k \in S PROVE k + 1 \in S
  <2> SUFFICES ASSUME k + 1 <= Window PROVE Younger(f, k + 1) = 0
    OBVIOUS
  <2>1. Younger(f, k) = 0 /\ f[k] = 0
    BY LimitAssumption DEF Ages
  <2>2. Younger(f, k + 1) = Younger(f, k) + f[k]
    BY YoungerStep
  <2> QED BY <2>1, <2>2
<1> HIDE DEF S, f
<1>3. S = Nat
  <2>1. S \in SUBSET Nat
    BY DEF S
  <2> QED BY <1>1, <1>2, <2>1, Induction
<1> QED BY <1>3, LimitAssumption DEF S, f

\* A tick moves everything on by one age.
LEMMA YoungerOlder ==
    ASSUME NEW f \in [Ages -> Nat], NEW n \in Nat, n < Window
    PROVE  Younger(Older(f), n + 1) = Younger(f, n)
<1> DEFINE S == {k \in Nat : k < Window => Younger(Older(f), k + 1) = Younger(f, k)}
<1>1. 0 \in S
  <2>1. Older(f)[0] = 0
    BY LimitAssumption DEF Older, Ages
  <2>2. Younger(Older(f), 0 + 1) = Younger(Older(f), 0) + Older(f)[0]
    BY YoungerStep
  <2> QED BY <2>1, <2>2, YoungerStep
<1>2. ASSUME NEW k \in S PROVE k + 1 \in S
  <2> SUFFICES ASSUME k + 1 < Window
               PROVE  Younger(Older(f), (k + 1) + 1) = Younger(f, k + 1)
    OBVIOUS
  <2>1. Older(f)[k + 1] = f[k]
    BY LimitAssumption DEF Older, Ages
  <2>2. Younger(Older(f), (k + 1) + 1) = Younger(Older(f), k + 1) + Older(f)[k + 1]
    BY YoungerStep
  <2>3. Younger(f, k + 1) = Younger(f, k) + f[k]
    BY YoungerStep
  <2>4. Younger(Older(f), k + 1) = Younger(f, k)
    BY LimitAssumption
  <2> QED BY <2>1, <2>2, <2>3, <2>4
<1> HIDE DEF S
<1>3. S = Nat
  <2>1. S \in SUBSET Nat
    BY DEF S
  <2> QED BY <1>1, <1>2, <2>1, Induction
<1> QED BY <1>3 DEF S

\* One more that happens now counts at every age but zero.
LEMMA YoungerNow ==
    ASSUME NEW f \in [Ages -> Nat], NEW n \in 1..Window
    PROVE  Younger([f EXCEPT ![0] = @ + 1], n) = Younger(f, n) + 1
<1> DEFINE g == [f EXCEPT ![0] = @ + 1]
           S == {k \in Nat : k + 1 <= Window => Younger(g, k + 1) = Younger(f, k + 1) + 1}
<1>1. 0 \in Ages /\ g \in [Ages -> Nat] /\ g[0] = f[0] + 1 /\ f[0] \in Nat
  BY LimitAssumption DEF Ages
<1>2. 0 \in S
  <2>1. Younger(g, 0 + 1) = Younger(g, 0) + g[0] /\ Younger(g, 0) = 0
    <3> HIDE DEF g
    <3> QED BY YoungerStep
  <2>2. Younger(f, 0 + 1) = Younger(f, 0) + f[0] /\ Younger(f, 0) = 0
    BY YoungerStep
  <2> QED BY <1>1, <2>1, <2>2
<1>3. ASSUME NEW k \in S PROVE k + 1 \in S
  <2> SUFFICES ASSUME (k + 1) + 1 <= Window
               PROVE  Younger(g, (k + 1) + 1) = Younger(f, (k + 1) + 1) + 1
    OBVIOUS
  <2>1. /\ Younger(g, (k + 1) + 1) = Younger(g, k + 1) + g[k + 1]
        /\ Younger(f, (k + 1) + 1) = Younger(f, k + 1) + f[k + 1]
    <3> HIDE DEF g
    <3> QED BY YoungerStep
  <2>2. g[k + 1] = f[k + 1] /\ f[k + 1] \in Nat
    BY LimitAssumption DEF Ages
  <2>3. Younger(g, k + 1) = Younger(f, k + 1) + 1 /\ Younger(f, k + 1) \in Nat
    BY YoungerType, LimitAssumption
  <2> QED BY <2>1, <2>2, <2>3
<1> HIDE DEF S, g
<1>4. S = Nat
  <2>1. S \in SUBSET Nat
    BY DEF S
  <2> QED BY <1>2, <1>3, <2>1, Induction
<1>5. n - 1 \in S /\ (n - 1) + 1 = n /\ n <= Window
  BY <1>4, LimitAssumption
<1> QED BY <1>5 DEF S, g

-----------------------------------------------------------------------------
(* The operators of a request.                                             *)

\* Whatever a client sends, it is counted under the address the proxy saw.
LEMMA ClientIsPeer ==
    ASSUME NEW c \in Clients, NEW sent \in Sent
    PROVE  clientIP(Forwarded(sent, c), None) = c
<1>1. CASE sent = <<>>
  BY <1>1 DEF clientIP, Forwarded, Last
<1>2. ASSUME NEW d \in Clients, sent = <<<<d>>>>
      PROVE  clientIP(Forwarded(sent, c), None) = c
  <2>1. Forwarded(sent, c) = <<<<d, c>>>>
    BY <1>2 DEF Forwarded
  <2> QED BY <2>1 DEF clientIP, Last
<1>3. ASSUME NEW d \in Clients, sent = <<<<d>>, <<>>>>
      PROVE  clientIP(Forwarded(sent, c), None) = c
  <2>1. Forwarded(sent, c) = <<<<d>>, <<c>>>>
    BY <1>3 DEF Forwarded
  <2> QED BY <2>1 DEF clientIP, Last
<1> QED BY <1>1, <1>2, <1>3 DEF Sent

\* Retry-After is longer than what is left, by a second at most.
LEMMA RetryAfterLasts ==
    ASSUME NEW left \in Nat
    PROVE  /\ RetryAfter(left) * Second \in Nat
           /\ left < RetryAfter(left) * Second
           /\ RetryAfter(left) * Second <= left + Second
<1> DEFINE d == left \div Second
<1>1. /\ d \in Nat /\ left % Second \in 0..(Second - 1)
      /\ left = Second * d + (left % Second) /\ Second \in Nat \ {0}
  BY LimitAssumption
<1> HIDE DEF d
<1>2. (d + 1) * Second = Second * d + Second
  BY <1>1
<1>3. (d + 1) * Second \in Nat
  BY <1>1
<1> QED BY <1>1, <1>2, <1>3 DEF RetryAfter, d

\* The facts about the constants and a request that the proofs use.
LEMMA Constants ==
    /\ Limit \in Nat \ {0} /\ Window \in Nat \ {0} /\ Second \in Nat \ {0}
    /\ MaxCount \in Nat /\ MaxRestarts \in Nat /\ None \notin Nat
    /\ 0 \in Ages
BY LimitAssumption DEF Ages

LEMMA Shares ==
    ASSUME NEW n \in Nat
    PROVE  /\ Limit * (1 + n) \in Nat /\ Limit <= Limit * (1 + n)
           /\ Limit * (1 + (n + 1)) = Limit * (1 + n) + Limit
           /\ Limit * (2 + n) = Limit * (1 + n) + Limit
<1>1. Limit \in Nat
  BY Constants
<1>2. Limit * n \in Nat
  BY <1>1
<1>3. /\ Limit * (1 + n) = Limit + Limit * n
      /\ Limit * (1 + (n + 1)) = Limit + Limit + Limit * n
      /\ Limit * (2 + n) = Limit + Limit + Limit * n
  BY <1>1
<1> QED BY <1>1, <1>2, <1>3

LEMMA RequestFacts ==
    ASSUME TypeOK, NEW c \in Clients, Request(c)
    PROVE  /\ Counted(c)[c] <= MaxCount
           /\ elapsed' = Renewed /\ counts' = Counted(c) /\ restarts' = restarts
           /\ \/ /\ Counted(c)[c] <= Limit
                 /\ passed' = [passed EXCEPT ![c][0] = @ + 1]
                 /\ wait' = [wait EXCEPT ![c] = None]
              \/ /\ Counted(c)[c] > Limit
                 /\ wait' = [wait EXCEPT ![c] = RetryAfter(Window - Renewed) * Second]
                 /\ passed' = passed
<1>1. PICK sent \in Sent :
        LET ip == clientIP(Forwarded(sent, c), None)
            after == Counted(ip) IN
        /\ after[ip] <= MaxCount
        /\ elapsed' = Renewed
        /\ counts' = after
        /\ \/ /\ after[ip] <= Limit
              /\ passed' = [passed EXCEPT ![c][0] = @ + 1]
              /\ wait' = [wait EXCEPT ![c] = None]
           \/ /\ after[ip] > Limit
              /\ wait' = [wait EXCEPT ![c] = RetryAfter(Window - Renewed) * Second]
              /\ UNCHANGED passed
        /\ UNCHANGED restarts
  BY DEF Request
<1>2. clientIP(Forwarded(sent, c), None) = c
  BY ClientIsPeer
<1> QED BY <1>1, <1>2

-----------------------------------------------------------------------------
(* Every action keeps the invariant.                                       *)

LEMMA InitInv == Init => Inv
<1> SUFFICES ASSUME Init PROVE Inv
  OBVIOUS
<1>1. TypeOK
  BY Constants DEF Init, TypeOK
<1>2. ASSUME NEW c \in Clients, NEW n \in 0..Window
      PROVE  Younger(passed[c], n) = 0 /\ Younger(restarts, n) = 0
  BY YoungerNone DEF Init
<1>3. BurstInv
  <2> SUFFICES ASSUME NEW c \in Clients
               PROVE  /\ Younger(passed[c], elapsed) <= InWindow(c)
                      /\ InWindow(c) <= Younger(passed[c], elapsed + 1)
                      /\ \A n \in 0..Window :
                           Younger(passed[c], n)
                             <= InWindow(c) + Limit * (1 + Younger(restarts, n))
    BY DEF BurstInv
  <2>1. elapsed \in 0..Window /\ elapsed + 1 \in 0..Window
    BY Constants DEF Init
  <2>2. InWindow(c) = 0
    BY Constants DEF Init, InWindow
  <2>3. Limit * (1 + 0) \in Nat
    BY Shares
  <2> QED BY <1>2, <2>1, <2>2, <2>3
<1>4. WaitInv
  BY DEF Init, WaitInv
<1> QED BY <1>1, <1>3, <1>4 DEF Inv

LEMMA TickInv == ASSUME Inv, Tick PROVE Inv'
<1>1. /\ elapsed \in 0..Window /\ elapsed' \in 0..Window
      /\ \A c \in Clients : passed[c] \in [Ages -> Nat] /\ passed'[c] = Older(passed[c])
      /\ restarts \in [Ages -> Nat] /\ restarts' = Older(restarts)
      /\ counts' = counts
  BY Constants DEF Tick, Inv, TypeOK
<1>2. TypeOK'
  <2>1. \A f \in [Ages -> Nat] : Older(f) \in [Ages -> Nat]
    BY Constants DEF Older, Ages
  <2>2. Older(restarts) \in [Ages -> 0..MaxRestarts]
    BY Constants DEF Older, Ages, Inv, TypeOK
  <2>3. wait' \in [Clients -> (0..(Window + Second)) \cup {None}]
    <3>1. ASSUME NEW w \in 0..(Window + Second), w # 0 PROVE w - 1 \in 0..(Window + Second)
      BY <3>1, Constants
    <3> QED BY <3>1, Constants DEF Tick, Inv, TypeOK
  <2>4. passed' \in [Clients -> [Ages -> Nat]]
    BY <2>1 DEF Tick, Inv, TypeOK
  <2> QED BY <1>1, <2>2, <2>3, <2>4 DEF Inv, TypeOK
<1>3. BurstInv'
  <2> SUFFICES ASSUME NEW c \in Clients
               PROVE  /\ Younger(Older(passed[c]), elapsed') <= InWindow(c)
                      /\ elapsed' < Window =>
                           InWindow(c) <= Younger(Older(passed[c]), elapsed' + 1)
                      /\ \A n \in 0..Window :
                           Younger(Older(passed[c]), n)
                             <= InWindow(c) + Limit * (1 + Younger(Older(restarts), n))
    BY <1>1 DEF BurstInv, InWindow
  <2>1. InWindow(c) \in Nat
    BY Constants DEF InWindow, Inv, TypeOK
  <2>2. Younger(Older(passed[c]), elapsed') <= InWindow(c)
    <3>1. CASE elapsed < Window
      <4>1. elapsed' = elapsed + 1 /\ elapsed \in Nat
        BY <1>1, <3>1, Constants DEF Tick
      <4>2. Younger(Older(passed[c]), elapsed + 1) = Younger(passed[c], elapsed)
        BY <1>1, <3>1, <4>1, YoungerOlder
      <4> QED BY <4>1, <4>2 DEF Inv, BurstInv
    <3>2. CASE elapsed = Window
      <4> DEFINE w == Window - 1
      <4>1. w \in Nat /\ w < Window /\ w + 1 = Window /\ w \in 0..Window /\ Window \in 0..Window
        BY Constants
      <4>2. elapsed' = w + 1
        BY <3>2, <4>1, Constants DEF Tick
      <4>3. Younger(Older(passed[c]), w + 1) = Younger(passed[c], w)
        BY <1>1, <4>1, YoungerOlder
      <4>4. Younger(passed[c], w) <= Younger(passed[c], Window)
        BY <1>1, <4>1, YoungerGrows
      <4>5. Younger(passed[c], w) \in Nat /\ Younger(passed[c], Window) \in Nat
        BY <1>1, <4>1, YoungerType
      <4>6. Younger(passed[c], Window) <= InWindow(c)
        BY <3>2 DEF Inv, BurstInv
      <4> QED BY <2>1, <4>2, <4>3, <4>4, <4>5, <4>6
    <3> QED BY <1>1, <3>1, <3>2, Constants
  <2>3. ASSUME elapsed' < Window
        PROVE  InWindow(c) <= Younger(Older(passed[c]), elapsed' + 1)
    <3>1. elapsed < Window /\ elapsed' = elapsed + 1 /\ elapsed + 1 \in Nat
      BY <1>1, <2>3, Constants DEF Tick
    <3>2. Younger(Older(passed[c]), elapsed' + 1) = Younger(passed[c], elapsed + 1)
      BY <1>1, <2>3, <3>1, YoungerOlder
    <3> QED BY <3>1, <3>2 DEF Inv, BurstInv
  <2>4. ASSUME NEW n \in 0..Window
        PROVE  Younger(Older(passed[c]), n)
                 <= InWindow(c) + Limit * (1 + Younger(Older(restarts), n))
    <3>1. CASE n = 0
      <4>1. Younger(Older(passed[c]), 0) = 0 /\ Younger(Older(restarts), 0) = 0
        BY YoungerStep
      <4>2. Limit * (1 + 0) \in Nat
        BY Shares
      <4> QED BY <2>1, <3>1, <4>1, <4>2
    <3>2. CASE n # 0
      <4> DEFINE m == n - 1
      <4>1. m \in Nat /\ m < Window /\ n = m + 1 /\ m \in 0..Window
        BY <3>2, Constants
      <4>2. /\ Younger(Older(passed[c]), n) = Younger(passed[c], m)
            /\ Younger(Older(restarts), n) = Younger(restarts, m)
        BY <1>1, <4>1, YoungerOlder
      <4>3. Younger(passed[c], m) <= InWindow(c) + Limit * (1 + Younger(restarts, m))
        BY <4>1 DEF Inv, BurstInv
      <4> QED BY <4>2, <4>3
    <3> QED BY <3>1, <3>2
  <2> QED BY <2>2, <2>3, <2>4
<1>4. WaitInv'
  BY Constants DEF Tick, Inv, TypeOK, WaitInv
<1> QED BY <1>2, <1>3, <1>4 DEF Inv

LEMMA RestartInv == ASSUME Inv, Restart PROVE Inv'
<1>1. /\ restarts \in [Ages -> Nat] /\ \A c \in Clients : passed[c] \in [Ages -> Nat]
      /\ restarts' = [restarts EXCEPT ![0] = @ + 1] /\ passed' = passed
      /\ elapsed' = 0 /\ \A c \in Clients : counts'[c] = 0
  BY Constants DEF Restart, Inv, TypeOK
<1>2. TypeOK'
  <2>1. restarts[0] <= Younger(restarts, Window) /\ Younger(restarts, Window) \in Nat
    <3>1. Younger(restarts, 0 + 1) = Younger(restarts, 0) + restarts[0] /\ Younger(restarts, 0) = 0
      BY YoungerStep
    <3>2. 0 + 1 \in 0..Window /\ Window \in 0..Window /\ 0 + 1 <= Window
      BY Constants
    <3>3. Younger(restarts, 0 + 1) <= Younger(restarts, Window)
      BY <1>1, <3>2, YoungerGrows
    <3> QED BY <1>1, <3>1, <3>2, <3>3, YoungerType, Constants
  <2>2. restarts[0] + 1 \in 0..MaxRestarts
    BY <1>1, <2>1, Constants DEF Restart, Total
  <2> QED BY <1>1, <2>2, Constants DEF Restart, Inv, TypeOK
<1>3. BurstInv'
  <2> SUFFICES ASSUME NEW c \in Clients
               PROVE  /\ Younger(passed[c], 0) <= 0
                      /\ 0 <= Younger(passed[c], 0 + 1)
                      /\ \A n \in 0..Window :
                           Younger(passed[c], n) <= Limit * (1 + Younger(restarts', n))
    <3>1. \A c \in Clients : InWindow(c)' = 0
      BY <1>1, Constants DEF InWindow
    <3>2. \A n \in 0..Window : Younger(restarts', n) \in Nat
      BY <1>2, YoungerType, Constants DEF TypeOK
    <3>3. \A n \in 0..Window :
            0 + Limit * (1 + Younger(restarts', n)) = Limit * (1 + Younger(restarts', n))
      BY <3>2, Shares
    <3> QED BY <1>1, <3>1, <3>3 DEF BurstInv
  <2>1. Younger(passed[c], 0) = 0
    BY YoungerStep
  <2>2. 0 <= Younger(passed[c], 0 + 1)
    BY <1>1, YoungerType, Constants
  <2>3. ASSUME NEW n \in 0..Window
        PROVE  Younger(passed[c], n) <= Limit * (1 + Younger(restarts', n))
    <3>1. Younger(restarts, n) \in Nat /\ Younger(passed[c], n) \in Nat
      BY <1>1, YoungerType
    <3>2. CASE n = 0
      <4>1. Younger(restarts', 0) = 0
        BY YoungerStep
      <4> QED BY <2>1, <3>2, <4>1, Constants
    <3>3. CASE n # 0
      <4>1. Younger(restarts', n) = Younger(restarts, n) + 1
        <5>1. n \in 1..Window
          BY <3>3
        <5> QED BY <1>1, <5>1, YoungerNow
      <4>2. Younger(passed[c], n) <= InWindow(c) + Limit * (1 + Younger(restarts, n))
        BY DEF Inv, BurstInv
      <4>3. InWindow(c) \in Nat /\ InWindow(c) <= Limit
        BY Constants DEF InWindow, Inv, TypeOK
      <4> QED BY <3>1, <4>1, <4>2, <4>3, Shares, Constants
    <3> QED BY <3>2, <3>3
  <2> QED BY <2>1, <2>2, <2>3
<1>4. WaitInv'
  BY <1>1 DEF WaitInv
<1> QED BY <1>2, <1>3, <1>4 DEF Inv

\* The first request after a window: nothing passed since it ended.
LEMMA RenewalFacts ==
    ASSUME Inv, elapsed = Window, NEW d \in Clients, NEW n \in 0..Window
    PROVE  Younger(passed[d], n) \in Nat /\ Younger(passed[d], n) <= Limit
<1>1. passed[d] \in [Ages -> Nat] /\ Window \in 0..Window /\ n <= Window
  BY Constants DEF Inv, TypeOK
<1>2. Younger(passed[d], n) <= Younger(passed[d], Window)
  BY <1>1, YoungerGrows
<1>3. Younger(passed[d], Window) <= InWindow(d)
  BY DEF Inv, BurstInv
<1>4. InWindow(d) \in Nat /\ InWindow(d) <= Limit
  BY Constants DEF InWindow, Inv, TypeOK
<1>5. Younger(passed[d], n) \in Nat /\ Younger(passed[d], Window) \in Nat
  BY <1>1, YoungerType
<1> QED BY <1>2, <1>3, <1>4, <1>5, Constants

LEMMA RequestInv == ASSUME Inv, NEW c \in Clients, Request(c) PROVE Inv'
<1>1. TypeOK /\ BurstInv /\ WaitInv
  BY DEF Inv
<1>2. /\ elapsed \in 0..Window /\ restarts \in [Ages -> Nat]
      /\ \A d \in Clients : passed[d] \in [Ages -> Nat] /\ counts[d] \in 0..MaxCount
      /\ \A d \in Clients : InWindow(d) \in Nat /\ InWindow(d) <= Limit
  BY <1>1, Constants DEF TypeOK, InWindow
<1>3. /\ Counted(c)[c] <= MaxCount
      /\ elapsed' = Renewed /\ counts' = Counted(c) /\ restarts' = restarts
      /\ \/ /\ Counted(c)[c] <= Limit
            /\ passed' = [passed EXCEPT ![c][0] = @ + 1]
            /\ wait' = [wait EXCEPT ![c] = None]
         \/ /\ Counted(c)[c] > Limit
            /\ wait' = [wait EXCEPT ![c] = RetryAfter(Window - Renewed) * Second]
            /\ passed' = passed
  BY <1>1, RequestFacts
<1>4. /\ Renewed \in Nat /\ Renewed < Window
      /\ elapsed = Window => Renewed = 0
      /\ elapsed # Window => Renewed = elapsed
  BY <1>2, Constants DEF Renewed
<1>5. /\ counts' \in [Clients -> 0..MaxCount]
      /\ \A d \in Clients :
           counts'[d] = (IF elapsed = Window THEN 0 ELSE counts[d]) + (IF d = c THEN 1 ELSE 0)
  <2>1. ASSUME NEW d \in Clients
        PROVE  Counted(c)[d] = (IF elapsed = Window THEN 0 ELSE counts[d]) + (IF d = c THEN 1 ELSE 0)
    BY <1>2, Constants DEF Counted
  <2>2. ASSUME NEW d \in Clients PROVE Counted(c)[d] \in 0..MaxCount
    BY <1>2, <1>3, <2>1, Constants
  <2>3. DOMAIN Counted(c) = Clients /\ Counted(c) = [d \in Clients |-> Counted(c)[d]]
    BY DEF Counted
  <2> QED BY <1>3, <2>1, <2>2, <2>3
<1>6. \A n \in 0..Window : Younger(restarts, n) \in Nat
  BY <1>2, YoungerType
<1>7. \A n \in 0..Window : /\ Limit * (1 + Younger(restarts, n)) \in Nat
                           /\ Limit <= Limit * (1 + Younger(restarts, n))
  BY <1>6, Shares
<1>8. TypeOK'
  <2>1. passed' \in [Clients -> [Ages -> Nat]]
    <3>1. passed \in [Clients -> [Ages -> Nat]]
      BY <1>1 DEF TypeOK
    <3>2. [passed[c] EXCEPT ![0] = @ + 1] \in [Ages -> Nat]
      BY <3>1, Constants
    <3>3. [passed EXCEPT ![c] = [passed[c] EXCEPT ![0] = @ + 1]] \in [Clients -> [Ages -> Nat]]
      BY <3>1, <3>2
    <3> QED BY <1>3, <3>1, <3>3
  <2>2. RetryAfter(Window - Renewed) * Second \in 0..(Window + Second)
    <3>1. Window - Renewed \in Nat /\ Window - Renewed <= Window
      BY <1>4, Constants
    <3> QED BY <3>1, RetryAfterLasts, Constants
  <2>3. wait' \in [Clients -> (0..(Window + Second)) \cup {None}]
    BY <1>1, <1>3, <2>2 DEF TypeOK
  <2> QED BY <1>1, <1>3, <1>4, <1>5, <2>1, <2>3, Constants DEF TypeOK
<1>9. BurstInv'
  <2> SUFFICES ASSUME NEW d \in Clients
               PROVE  /\ Younger(passed'[d], Renewed) <= InWindow(d)'
                      /\ InWindow(d)' <= Younger(passed'[d], Renewed + 1)
                      /\ \A n \in 0..Window :
                           Younger(passed'[d], n)
                             <= InWindow(d)' + Limit * (1 + Younger(restarts, n))
    BY <1>3 DEF BurstInv
  <2>1. InWindow(d)' = IF counts'[d] <= Limit THEN counts'[d] ELSE Limit
    BY DEF InWindow
  <2>2. Renewed \in 0..Window /\ Renewed + 1 \in 0..Window /\ Renewed + 1 \in 1..Window
    BY <1>4, Constants
  <2>3. Younger(passed'[d], 0) = 0 /\ Younger(passed[d], 0) = 0
    BY YoungerStep
  <2>4. \A n \in 0..Window : Younger(passed[d], n) \in Nat
    BY <1>2, YoungerType
  \* What had passed, held against the window the request falls in.
  <2> DEFINE before == IF elapsed = Window THEN 0 ELSE InWindow(d)
  <2>5. /\ before \in Nat
        /\ Renewed = 0 \/ Younger(passed[d], Renewed) <= before
        /\ before <= Younger(passed[d], Renewed + 1)
        /\ \A n \in 0..Window :
             Younger(passed[d], n) <= before + Limit * (1 + Younger(restarts, n))
    <3>1. CASE elapsed = Window
      <4>1. before = 0 /\ Renewed = 0
        BY <1>4, <3>1
      <4>2. \A n \in 0..Window : Younger(passed[d], n) <= Limit
        BY <3>1, RenewalFacts
      <4> HIDE DEF before
      <4> QED BY <4>1, <4>2, <2>2, <2>4, <1>7, Constants
    <3>2. CASE elapsed # Window
      <4>1. before = InWindow(d) /\ Renewed = elapsed /\ elapsed < Window
        BY <1>2, <1>4, <3>2
      <4> HIDE DEF before
      <4> QED BY <4>1, <1>1, <1>2 DEF BurstInv
    <3> QED BY <3>1, <3>2
  <2>6. CASE passed'[d] = passed[d] /\ InWindow(d)' = before
    <3> HIDE DEF before
    <3>1. Renewed = 0 => Younger(passed[d], Renewed) <= before
      BY <2>3, <2>5
    <3> QED BY <2>5, <2>6, <3>1
  <2>7. CASE passed'[d] = [passed[d] EXCEPT ![0] = @ + 1] /\ InWindow(d)' = before + 1
    <3> HIDE DEF before
    <3>1. \A n \in 1..Window : Younger(passed'[d], n) = Younger(passed[d], n) + 1
      BY <1>2, <2>7, YoungerNow
    <3>2. Younger(passed'[d], Renewed) <= InWindow(d)'
      <4>1. CASE Renewed = 0
        BY <2>3, <2>5, <2>7, <4>1
      <4>2. CASE Renewed # 0
        <5>1. Renewed \in 1..Window
          BY <2>2, <4>2
        <5> QED BY <2>2, <2>4, <2>5, <2>7, <3>1, <4>2, <5>1
      <4> QED BY <4>1, <4>2
    <3>3. InWindow(d)' <= Younger(passed'[d], Renewed + 1)
      BY <2>2, <2>4, <2>5, <2>7, <3>1
    <3>4. ASSUME NEW n \in 0..Window
          PROVE  Younger(passed'[d], n) <= InWindow(d)' + Limit * (1 + Younger(restarts, n))
      <4>1. CASE n = 0
        BY <1>7, <2>3, <2>5, <2>7, <4>1
      <4>2. CASE n # 0
        <5>1. n \in 1..Window
          BY <4>2
        <5> QED BY <1>7, <2>4, <2>5, <2>7, <3>1, <5>1
      <4> QED BY <4>1, <4>2
    <3> QED BY <3>2, <3>3, <3>4
  <2>8. CASE d # c
    <3>1. passed'[d] = passed[d]
      BY <1>1, <1>3, <2>8 DEF TypeOK
    <3>2. InWindow(d)' = before
      BY <1>2, <1>5, <2>1, <2>8, Constants DEF InWindow
    <3> QED BY <2>6, <3>1, <3>2
  <2>9. CASE d = c /\ Counted(c)[c] <= Limit
    <3>1. passed'[d] = [passed[d] EXCEPT ![0] = @ + 1]
      <4>1. passed' = [passed EXCEPT ![c][0] = @ + 1]
        BY <1>2, <1>3, <1>5, <2>9, Constants
      <4> QED BY <1>1, <2>9, <4>1 DEF TypeOK
    <3>2. InWindow(d)' = before + 1
      BY <1>2, <1>3, <1>5, <2>1, <2>9, Constants DEF InWindow
    <3> QED BY <2>7, <3>1, <3>2
  <2>10. CASE d = c /\ ~ (Counted(c)[c] <= Limit)
    <3>1. passed'[d] = passed[d]
      BY <1>3, <2>10
    <3>2. InWindow(d)' = before
      <4>1. counts'[d] \in Nat /\ counts'[d] > Limit
        BY <1>3, <1>5, <2>10, Constants
      <4>2. elapsed # Window /\ counts'[d] = counts[d] + 1
        BY <1>2, <1>5, <2>10, <4>1, Constants
      <4> QED BY <1>2, <2>1, <2>10, <4>1, <4>2, Constants DEF InWindow
    <3> QED BY <2>6, <3>1, <3>2
  <2> QED BY <2>8, <2>9, <2>10
<1>10. WaitInv'
  <2> SUFFICES ASSUME NEW d \in Clients, wait'[d] # None
               PROVE  wait'[d] > Window - Renewed \/ counts'[d] = 0
    BY <1>3 DEF WaitInv
  <2>1. CASE d # c
    <3>1. wait'[d] = wait[d] /\ wait[d] \in Nat
      BY <1>1, <1>3, <2>1, Constants DEF TypeOK
    <3>2. CASE elapsed = Window
      BY <1>5, <2>1, <3>2
    <3>3. CASE elapsed # Window
      BY <1>1, <1>2, <1>4, <1>5, <2>1, <3>1, <3>3 DEF WaitInv
    <3> QED BY <3>2, <3>3
  <2>2. CASE d = c
    <3>1. wait'[d] = RetryAfter(Window - Renewed) * Second
      BY <1>1, <1>3, <2>2 DEF TypeOK
    <3>2. Window - Renewed \in Nat
      BY <1>4, Constants
    <3>3. /\ RetryAfter(Window - Renewed) * Second \in Nat
          /\ Window - Renewed < RetryAfter(Window - Renewed) * Second
      BY <3>2, RetryAfterLasts
    <3> QED BY <3>1, <3>2, <3>3
  <2> QED BY <2>1, <2>2
<1> QED BY <1>8, <1>9, <1>10 DEF Inv

LEMMA NextInv == Inv /\ [Next]_vars => Inv'
<1> SUFFICES ASSUME Inv, [Next]_vars PROVE Inv'
  OBVIOUS
<1>1. CASE UNCHANGED vars
  BY <1>1 DEF vars, Inv, TypeOK, BurstInv, WaitInv, InWindow
<1>2. CASE Tick
  BY <1>2, TickInv
<1>3. CASE Restart
  BY <1>3, RestartInv
<1>4. ASSUME NEW c \in Clients, Request(c) PROVE Inv'
  BY <1>4, RequestInv
<1> QED BY <1>1, <1>2, <1>3, <1>4 DEF Next

-----------------------------------------------------------------------------
(* Theorems.                                                               *)

\* In every state what a client got through fits the windows it fell in, and
\* who was refused waits beyond the end of the window.
THEOREM Inductive == Spec => []Inv
<1>1. Init => Inv
  BY InitInv
<1>2. Inv /\ [Next]_vars => Inv'
  BY NextInv
<1> QED BY <1>1, <1>2, PTL DEF Spec

\* The variables keep their types; no Retry-After is longer than a window and
\* a second.
THEOREM Typed == Spec => []TypeOK
<1>1. Inv => TypeOK
  BY DEF Inv
<1> QED BY <1>1, Inductive, PTL

\* In the time of one window a client gets through at most twice the limit,
\* and the limit once more for every restart in it (RateLimit in middleware.go).
THEOREM BurstsAreBounded == Spec => []BurstBound
<1>1. ASSUME Inv PROVE BurstBound
  <2> SUFFICES ASSUME NEW c \in Clients
               PROVE  Total(passed[c]) <= Limit * (2 + Total(restarts))
    BY DEF BurstBound
  <2>1. /\ Window \in 0..Window /\ passed[c] \in [Ages -> Nat] /\ restarts \in [Ages -> Nat]
        /\ InWindow(c) \in Nat /\ InWindow(c) <= Limit
    BY <1>1, Constants DEF Inv, TypeOK, InWindow
  <2>2. Total(passed[c]) <= InWindow(c) + Limit * (1 + Total(restarts))
    BY <1>1, <2>1 DEF Inv, BurstInv, Total
  <2>3. Total(restarts) \in Nat /\ Total(passed[c]) \in Nat
    BY <2>1, YoungerType DEF Total
  <2>4. /\ Limit * (1 + Total(restarts)) \in Nat
        /\ Limit * (2 + Total(restarts)) = Limit * (1 + Total(restarts)) + Limit
    BY <2>3, Shares
  <2> QED BY <2>1, <2>2, <2>3, <2>4, Constants
<1> QED BY <1>1, Inductive, PTL

\* Nobody can use up another client's share: who is refused has itself got
\* through Limit times within the time of one window, whatever anyone sends as
\* X-Forwarded-For (clientIP).
THEOREM RefusalsAreEarned == Spec => RefusedOnlyAfterLimit
<1>1. ASSUME Inv, [Next]_vars
      PROVE  [\A c \in Clients :
                counts'[c] > counts[c] /\ counts'[c] > Limit => Total(passed[c]) >= Limit]_vars
  <2> SUFFICES ASSUME NEW c \in Clients, counts'[c] > counts[c], counts'[c] > Limit
               PROVE  Total(passed[c]) >= Limit
    OBVIOUS
  <2>1. /\ counts[c] \in 0..MaxCount /\ elapsed \in 0..Window /\ passed[c] \in [Ages -> Nat]
        /\ TypeOK
    BY <1>1 DEF Inv, TypeOK
  <2>2. PICK d \in Clients : Request(d)
    BY <1>1, <2>1, Constants DEF Next, Tick, Restart, vars
  <2>3. counts'[c] = (IF elapsed >= Window THEN 0 ELSE counts[c]) + (IF c = d THEN 1 ELSE 0)
    BY <2>1, <2>2, RequestFacts DEF Counted
  <2>4. elapsed < Window /\ counts[c] >= Limit
    BY <2>1, <2>3, Constants
  <2>5. InWindow(c) = Limit
    BY <2>1, <2>4, Constants DEF InWindow
  <2>6. Limit <= Younger(passed[c], elapsed + 1)
    BY <1>1, <2>4, <2>5 DEF Inv, BurstInv
  <2>7. elapsed + 1 \in 0..Window /\ Window \in 0..Window /\ elapsed + 1 <= Window
    BY <2>1, <2>4, Constants
  <2>8. /\ Younger(passed[c], elapsed + 1) <= Total(passed[c])
        /\ Younger(passed[c], elapsed + 1) \in Nat /\ Total(passed[c]) \in Nat
    BY <2>1, <2>7, YoungerGrows, YoungerType DEF Total
  <2> QED BY <2>6, <2>8, Constants
<1> QED BY <1>1, Inductive, PTL DEF Spec, RefusedOnlyAfterLimit

\* Retry-After is enough: who waited for so long gets through.
THEOREM RetryAfterIsHonoured == Spec => []RetryAfterHonoured
<1>1. ASSUME Inv PROVE RetryAfterHonoured
  <2> SUFFICES ASSUME NEW c \in Clients, wait[c] = 0
               PROVE  elapsed = Window \/ counts[c] < Limit
    BY DEF RetryAfterHonoured
  <2>1. elapsed = Window \/ 0 > Window - elapsed \/ counts[c] = 0
    BY <1>1, Constants DEF Inv, WaitInv
  <2>2. elapsed \in 0..Window /\ counts[c] \in 0..MaxCount
    BY <1>1 DEF Inv, TypeOK
  <2> QED BY <2>1, <2>2, Constants
<1> QED BY <1>1, Inductive, PTL
=============================================================================
