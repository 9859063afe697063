-------------------------- MODULE OrchestratorProofs --------------------------
(***************************************************************************)
(* Proofs about Orchestrator, and about the numbers of ports and lines and *)
(* the digits that Scenarios computes: any number of scenarios, any        *)
(* configuration.                                                          *)
(***************************************************************************)
EXTENDS Orchestrator, Integers, WellFoundedInduction, TLAPS

-----------------------------------------------------------------------------
(***************************************************************************)
(* Numbers of ports and lines.                                             *)
(***************************************************************************)
\* Division with a remainder.
LEMMA DivMod ==
  ASSUME NEW a \in Nat, NEW b \in Nat \ {0}
  PROVE  a \div b \in Nat /\ a % b \in 0 .. b-1 /\ a = b * (a \div b) + (a % b)
OBVIOUS

LEMMA MulMono ==
  ASSUME NEW a \in Int, NEW b \in Int, NEW c \in Nat, a <= b
  PROVE  a * c <= b * c
OBVIOUS

\* A set of natural numbers has a least element.
LEMMA LeastNumber ==
  ASSUME NEW S, S \subseteq Nat, S # {}
  PROVE  \E m \in S : \A n \in S : m <= n
<1> DEFINE R == {p \in Nat \X Nat : p[1] < p[2]}
<1>1. IsWellFoundedOn(R, Nat)
  BY NatLessThanWellFounded DEF OpToRel
<1>2. PICK m \in S : \A n \in S : <<n, m>> \notin R
  <2> HIDE DEF R
  <2> QED BY <1>1, WFMin
<1>3. \A n \in S : ~(n < m)
  BY <1>2
<1> QED BY <1>3

\* The ceiling is not less than the quotient.
LEMMA CeilDivBound ==
  ASSUME NEW a \in Nat, NEW b \in Nat \ {0}
  PROVE  CeilDiv(a, b) \in Nat /\ CeilDiv(a, b) * b >= a
<1>1. a + b - 1 \in Nat
  OBVIOUS
<1> QED BY <1>1, DivMod DEF CeilDiv

\* Two calls that use the same of n lines are n calls apart.
LEMMA SameLine ==
  ASSUME NEW n \in Nat \ {0}, NEW k \in Nat, NEW m \in Nat, k < m, k % n = m % n
  PROVE  m - k >= n
<1> DEFINE q == k \div n 
           r == m \div n
<1>1. /\ q \in Nat /\ k % n \in 0 .. n - 1 /\ k = n * q + (k % n)
      /\ r \in Nat /\ m % n \in 0 .. n - 1 /\ m = n * r + (m % n)
  <2>1. q \in Nat /\ k % n \in 0 .. n - 1 /\ k = n * q + (k % n)
    BY DivMod
  <2>2. r \in Nat /\ m % n \in 0 .. n - 1 /\ m = n * r + (m % n)
    BY DivMod
  <2> QED BY <2>1, <2>2
<1>2. m - k = n * r - n * q
  BY <1>1
<1>3. r > q
  <2> SUFFICES ASSUME r <= q PROVE FALSE
    BY <1>1
  <2>1. r * n <= q * n
    BY <1>1, MulMono
  <2> QED BY <1>1, <1>2, <2>1
<1>4. (r - q) * n >= 1 * n
  BY <1>1, <1>3, MulMono
<1> QED BY <1>1, <1>2, <1>4

\* Calls that are that far apart leave more than a second between them.
LEMMA GapKept ==
  ASSUME NEW calls \in Nat \ {0}, NEW secs \in Nat \ {0}, NEW duration \in Nat,
         NEW n \in Nat, NEW d \in Nat, d >= n,
         n * secs >= calls * ((duration \div 1000) + 2)
  PROVE  d * secs * 1000 > calls * (duration + 1000)
<1> DEFINE S == duration \div 1000
<1>1. S \in Nat /\ duration < 1000 * S + 1000
  BY DivMod
<1>2. d * secs >= n * secs
  BY MulMono
<1>3. d * secs >= calls * (S + 2)
  BY <1>1, <1>2
<1>4. calls * (duration + 1000) < calls * (1000 * S + 2000)
  BY <1>1
<1>5. calls * (1000 * S + 2000) = calls * (S + 2) * 1000
  BY <1>1
<1> HIDE DEF S
<1> QED BY <1>1, <1>3, <1>4, <1>5

\* What a description of a scenario holds, as far as it is used here.
IsLoad(c) ==
  /\ c.calls \in Nat \ {0} /\ c.secs \in Nat \ {0} /\ c.duration \in Nat
  /\ c.endpoints \in Nat /\ c.total \in Nat

\* A scenario has lines.
LEMMA NPortsType ==
  ASSUME NEW c, IsLoad(c)
  PROVE  NPorts(c) \in Nat \ {0}
<1> DEFINE x == c.calls * (Seconds(c) + INTERCALL_GAP_SEC)
           needed == CeilDiv(x, c.secs)
<1>1. Seconds(c) \in Nat
  BY DivMod DEF IsLoad, Seconds
<1>2. x \in Nat \ {0}
  BY <1>1 DEF IsLoad, INTERCALL_GAP_SEC
<1>3. needed \in Nat /\ needed * c.secs >= x
  <2> HIDE DEF x
  <2> QED BY <1>2, CeilDivBound DEF IsLoad
<1>4. needed # 0
  <2> SUFFICES ASSUME needed = 0 PROVE FALSE
    OBVIOUS
  <2> HIDE DEF x, needed
  <2> QED BY <1>2, <1>3 DEF IsLoad
<1> HIDE DEF x, needed
<1> QED BY <1>3, <1>4 DEF IsLoad, NPorts, x, needed

\* A line is used again more than a second after the call that had it is due to
\* end, whatever the rate, the duration and the limit of calls are.
THEOREM LinesRest ==
  ASSUME NEW c, IsLoad(c), c.endpoints = 0,
         NEW k \in Nat, NEW m \in Nat, k < m, c.total # 0 => m < c.total,
         k % NPorts(c) = m % NPorts(c)
  PROVE  (m - k) * c.secs * 1000 > c.calls * (c.duration + 1000)
<1> DEFINE x == c.calls * (Seconds(c) + INTERCALL_GAP_SEC)
           n == NPorts(c)
<1>1. n \in Nat \ {0} /\ m - k >= n /\ m - k \in Nat
  BY NPortsType, SameLine
<1>2. n = CeilDiv(x, c.secs)
  BY <1>1 DEF NPorts, IsLoad
<1>3. x \in Nat
  <2>1. Seconds(c) \in Nat
    BY DivMod DEF IsLoad, Seconds
  <2> QED BY <2>1 DEF IsLoad, INTERCALL_GAP_SEC
<1>4. n * c.secs >= x
  <2> HIDE DEF x, n
  <2> QED BY <1>2, <1>3, CeilDivBound DEF IsLoad
<1>5. x = c.calls * ((c.duration \div 1000) + 2)
  BY DEF Seconds, INTERCALL_GAP_SEC
<1> HIDE DEF x, n
<1> QED BY <1>1, <1>4, <1>5, GapKept DEF IsLoad

-----------------------------------------------------------------------------
(***************************************************************************)
(* Powers of ten, and the digits of numbers, however many there are.       *)
(***************************************************************************)
\* Induction, for a set of numbers.
LEMMA SetInduction ==
  ASSUME NEW S, 0 \in S, \A n \in Nat : n \in S => n + 1 \in S
  PROVE  Nat \subseteq S
<1> SUFFICES ASSUME Nat \ S # {} PROVE FALSE
  OBVIOUS
<1>1. PICK m \in Nat \ S : \A n \in Nat \ S : m <= n
  BY LeastNumber, Zenon
<1>2. m # 0 /\ m - 1 \in Nat /\ ~(m <= m - 1) /\ (m - 1) + 1 = m
  BY <1>1, SMT
<1>3. m - 1 \in S
  BY <1>1, <1>2, Zenon
<1> QED BY <1>1, <1>2, <1>3, Zenon

\* The powers of ten up to 10^n.
PowersUpTo(n) ==
  {f \in [0 .. n -> Nat] : f[0] = 1 /\ \A d \in 1 .. n : f[d] = 10 * f[d - 1]}

\* There is such a function for every n.
LEMMA PowersExist == \A n \in Nat : PowersUpTo(n) # {}
<1> DEFINE S == {n \in Nat : PowersUpTo(n) # {}}
<1>1. 0 \in S
  <2>1. [d \in 0 .. 0 |-> 1] \in PowersUpTo(0)
    BY SMT DEF PowersUpTo
  <2> QED BY <2>1, SMT
<1>2. ASSUME NEW n \in Nat, n \in S PROVE n + 1 \in S
  <2>1. PICK f \in PowersUpTo(n) : TRUE
    BY <1>2
  <2> DEFINE g == [d \in 0 .. n + 1 |-> IF d = n + 1 THEN 10 * f[n] ELSE f[d]]
  <2>2. /\ f \in [0 .. n -> Nat] /\ f[0] = 1
        /\ \A d \in 1 .. n : f[d] = 10 * f[d - 1]
    BY <2>1 DEF PowersUpTo
  <2>3. g \in [0 .. n + 1 -> Nat]
    BY <2>2, SMT
  <2>4. g[0] = 1
    BY <2>2, SMT
  <2>5. ASSUME NEW d \in 1 .. n + 1 PROVE g[d] = 10 * g[d - 1]
    <3>1. CASE d = n + 1
      <4>1. d \in 0 .. n + 1 /\ d - 1 \in 0 .. n + 1 /\ d - 1 # n + 1 /\ d - 1 = n
        BY <3>1, SMT
      <4> QED BY <3>1, <4>1
    <3>2. CASE d # n + 1
      <4>1. d \in 0 .. n + 1 /\ d - 1 \in 0 .. n + 1 /\ d - 1 # n + 1 /\ d \in 1 .. n
        BY <3>2, SMT
      <4>2. g[d] = f[d] /\ g[d - 1] = f[d - 1]
        BY <3>2, <4>1, Zenon
      <4> QED BY <2>2, <4>1, <4>2, Zenon
    <3> QED BY <3>1, <3>2
  <2>6. g \in PowersUpTo(n + 1)
    BY <2>3, <2>4, <2>5, Zenon DEF PowersUpTo
  <2> QED BY <2>6, SMT
<1>3. Nat \subseteq S
  <2> HIDE DEF S
  <2> QED BY <1>1, <1>2, SetInduction, Zenon
<1> QED BY <1>3

\* Any two such functions agree where both are defined.
LEMMA PowersAgree ==
  ASSUME NEW m \in Nat, NEW n \in Nat, m <= n,
         NEW f \in PowersUpTo(m), NEW g \in PowersUpTo(n), NEW d \in 0 .. m
  PROVE  f[d] = g[d]
<1> DEFINE S == {e \in Nat : e <= m => f[e] = g[e]}
<1>1. 0 \in S
  BY DEF PowersUpTo
<1>2. ASSUME NEW e \in Nat, e \in S PROVE e + 1 \in S
  <2> SUFFICES ASSUME e + 1 <= m PROVE f[e + 1] = g[e + 1]
    OBVIOUS
  <2>1. e + 1 \in 1 .. m /\ e + 1 \in 1 .. n /\ (e + 1) - 1 = e /\ f[e] = g[e]
    BY <1>2, SMT
  <2>2. f[e + 1] = 10 * f[(e + 1) - 1] /\ g[e + 1] = 10 * g[(e + 1) - 1]
    BY <2>1, Zenon DEF PowersUpTo
  <2> QED BY <2>1, <2>2
<1>3. Nat \subseteq S
  <2> HIDE DEF S
  <2> QED BY <1>1, <1>2, SetInduction, Zenon
<1> QED BY <1>3

\* The definition of TenTo says what it looks like.
LEMMA TenToIs == TenTo = [d \in Nat |-> IF d = 0 THEN 1 ELSE 10 * TenTo[d - 1]]
<1> DEFINE P(n) == CHOOSE f \in PowersUpTo(n) : TRUE
           g == [d \in Nat |-> P(d)[d]]
<1>1. \A n \in Nat : P(n) \in PowersUpTo(n)
  BY PowersExist
<1>2. ASSUME NEW d \in Nat PROVE g[d] = IF d = 0 THEN 1 ELSE 10 * g[d - 1]
  <2>1. CASE d = 0
    <3>1. P(0)[0] = 1
      BY <1>1 DEF PowersUpTo
    <3> HIDE DEF P
    <3> QED BY <2>1, <3>1
  <2>2. CASE d # 0
    <3>1. d - 1 \in Nat /\ d - 1 <= d /\ d - 1 \in 0 .. d - 1 /\ d \in 1 .. d
      BY <2>2, SMT
    <3> HIDE DEF P
    <3>2. P(d - 1)[d - 1] = P(d)[d - 1]
      BY <1>1, <3>1, PowersAgree
    <3>3. P(d)[d] = 10 * P(d)[d - 1]
      BY <1>1, <3>1 DEF PowersUpTo
    <3>4. g[d] = P(d)[d] /\ g[d - 1] = P(d - 1)[d - 1]
      BY <3>1
    <3> QED BY <2>2, <3>2, <3>3, <3>4
  <2> QED BY <2>1, <2>2
<1>3. g = [d \in Nat |-> IF d = 0 THEN 1 ELSE 10 * g[d - 1]]
  <2>1. g = [d \in Nat |-> g[d]]
    OBVIOUS
  <2> HIDE DEF g
  <2> QED BY <1>2, <2>1, Zenon
<1>4. TenTo = CHOOSE f : f = [d \in Nat |-> IF d = 0 THEN 1 ELSE 10 * f[d - 1]]
  BY Zenon DEF TenTo
<1> HIDE DEF g
<1> QED BY <1>3, <1>4, Zenon

\* The first power, and the next one.
LEMMA TenToNext ==
  /\ TenTo[0] = 1
  /\ \A d \in Nat : TenTo[d + 1] = 10 * TenTo[d]
<1>1. TenTo[0] = 1
  BY TenToIs
<1>2. ASSUME NEW d \in Nat PROVE TenTo[d + 1] = 10 * TenTo[d]
  <2>1. d + 1 \in Nat /\ d + 1 # 0 /\ (d + 1) - 1 = d
    OBVIOUS
  <2>2. TenTo[d + 1] = IF d + 1 = 0 THEN 1 ELSE 10 * TenTo[(d + 1) - 1]
    BY <2>1, TenToIs, Zenon
  <2> QED BY <2>1, <2>2
<1> QED BY <1>1, <1>2

\* What they are good for.
LEMMA TenType == \A a \in Nat : TenTo[a] \in Nat \ {0} /\ a < TenTo[a]
<1> DEFINE S == {a \in Nat : TenTo[a] \in Nat \ {0} /\ a < TenTo[a]}
<1>1. 0 \in S
  BY TenToNext
<1>2. ASSUME NEW a \in Nat, a \in S PROVE a + 1 \in S
  <2>1. TenTo[a + 1] = 10 * TenTo[a] /\ TenTo[a] \in Nat \ {0} /\ a < TenTo[a]
    BY <1>2, TenToNext
  <2> QED BY <2>1
<1>3. Nat \subseteq S
  <2> HIDE DEF S
  <2> QED BY <1>1, <1>2, SetInduction, Zenon
<1> QED BY <1>3

LEMMA TenSplit ==
  ASSUME NEW a \in Nat, NEW b \in Nat
  PROVE  TenTo[a + b] = TenTo[a] * TenTo[b]
<1> DEFINE S == {e \in Nat : TenTo[a + e] = TenTo[a] * TenTo[e]}
<1>1. 0 \in S
  <2>1. a + 0 = a /\ TenTo[a] \in Nat
    BY TenType
  <2> QED BY <2>1, TenToNext
<1>2. ASSUME NEW e \in Nat, e \in S PROVE e + 1 \in S
  <2>1. a + (e + 1) = (a + e) + 1 /\ a + e \in Nat
    OBVIOUS
  <2>2. TenTo[(a + e) + 1] = 10 * TenTo[a + e] /\ TenTo[e + 1] = 10 * TenTo[e]
    BY <2>1, TenToNext
  <2>3. TenTo[a] \in Nat /\ TenTo[e] \in Nat
    BY TenType
  <2>4. 10 * (TenTo[a] * TenTo[e]) = TenTo[a] * (10 * TenTo[e])
    BY <2>3, SMT
  <2>5. TenTo[a + e] = TenTo[a] * TenTo[e] /\ e + 1 \in Nat
    BY <1>2
  <2>6. TenTo[a + (e + 1)] = TenTo[a] * TenTo[e + 1]
    BY <2>1, <2>2, <2>4, <2>5, Zenon
  <2> QED BY <2>5, <2>6
<1>3. Nat \subseteq S
  <2> HIDE DEF S
  <2> QED BY <1>1, <1>2, SetInduction, Zenon
<1> QED BY <1>3

LEMMA TenGrows ==
  ASSUME NEW a \in Nat, NEW b \in Nat, a <= b
  PROVE  TenTo[a] <= TenTo[b]
<1>1. b - a \in Nat /\ a + (b - a) = b
  OBVIOUS
<1>2. TenTo[b] = TenTo[a] * TenTo[b - a]
  BY <1>1, TenSplit
<1>3. TenTo[a] \in Nat \ {0} /\ TenTo[b - a] \in Nat \ {0}
  BY <1>1, TenType
<1> QED BY <1>2, <1>3, SMT

\* Division.
LEMMA DivDiv ==
  ASSUME NEW x \in Nat, NEW a \in Nat \ {0}, NEW b \in Nat \ {0}
  PROVE  (x \div a) \div b = x \div (a * b)
BY SMT

LEMMA DivUnique ==
  ASSUME NEW x \in Int, NEW q \in Int, NEW d \in Nat \ {0}, d * q <= x, x < d * q + d
  PROVE  x \div d = q
BY SMT

\* A number has as many digits as NDigits says, and no other.
HasDigits(x, d) == d \in Nat \ {0} /\ x < TenTo[d] /\ (d = 1 \/ x >= TenTo[d - 1])

LEMMA NDigitsIs ==
  ASSUME NEW x \in Nat
  PROVE  HasDigits(x, NDigits(x))
<1> DEFINE S == {d \in Nat \ {0} : x < TenTo[d]}
<1>1. x + 1 \in S
  <2>1. x + 1 \in Nat /\ x + 1 # 0 /\ x < x + 1
    OBVIOUS
  <2>2. TenTo[x + 1] \in Nat /\ x + 1 < TenTo[x + 1]
    BY <2>1, TenType
  <2> QED BY <2>1, <2>2
<1>2. PICK d \in S : \A e \in S : d <= e
  <2>1. S \subseteq Nat /\ S # {}
    BY <1>1
  <2> HIDE DEF S
  <2> QED BY <2>1, LeastNumber
<1>3. d \in 1 .. x + 1
  <2>1. d \in Nat \ {0} /\ d <= x + 1
    BY <1>1, <1>2
  <2> QED BY <2>1
<1>4. d = 1 \/ x >= TenTo[d - 1]
  <2> SUFFICES ASSUME d # 1 PROVE x >= TenTo[d - 1]
    OBVIOUS
  <2>1. d - 1 \in Nat \ {0} /\ ~(d <= d - 1)
    BY <1>2
  <2>2. d - 1 \notin S
    BY <1>2, <2>1, Zenon
  <2>3. TenTo[d - 1] \in Nat
    BY <2>1, TenType
  <2> QED BY <2>1, <2>2, <2>3
<1>5. \E e \in 1 .. x + 1 : x < TenTo[e] /\ (e = 1 \/ x >= TenTo[e - 1])
  BY <1>2, <1>3, <1>4
<1>6. NDigits(x) \in 1 .. x + 1
        /\ x < TenTo[NDigits(x)] /\ (NDigits(x) = 1 \/ x >= TenTo[NDigits(x) - 1])
  BY <1>5, Zenon DEF NDigits
<1>7. \A e \in 1 .. x + 1 : e \in Nat \ {0}
  BY SMT
<1> QED BY <1>6, <1>7, Zenon DEF HasDigits

LEMMA HasDigitsGrows ==
  ASSUME NEW x \in Nat, NEW y \in Nat, x <= y,
         NEW d, NEW e, HasDigits(x, d), HasDigits(y, e)
  PROVE  d <= e
<1> SUFFICES ASSUME e < d PROVE FALSE
  BY SMT DEF HasDigits
<1>1. e <= d - 1 /\ e \in Nat /\ d - 1 \in Nat /\ d # 1
  BY SMT DEF HasDigits
<1>2. TenTo[e] <= TenTo[d - 1] /\ TenTo[e] \in Nat /\ TenTo[d - 1] \in Nat
  BY <1>1, TenGrows, TenType
<1>3. y < TenTo[e] /\ x >= TenTo[d - 1]
  BY <1>1 DEF HasDigits
<1> QED BY <1>2, <1>3, SMT

\* A number below a power of ten has no more digits.
LEMMA HasFewDigits ==
  ASSUME NEW x \in Nat, NEW d, HasDigits(x, d),
         NEW s \in Nat \ {0}, x < TenTo[s]
  PROVE  d <= s
<1> SUFFICES ASSUME s < d PROVE FALSE
  BY SMT DEF HasDigits
<1>1. s <= d - 1 /\ d - 1 \in Nat /\ d # 1
  BY SMT DEF HasDigits
<1>2. TenTo[s] <= TenTo[d - 1] /\ TenTo[s] \in Nat /\ TenTo[d - 1] \in Nat
  BY <1>1, TenGrows, TenType
<1>3. x >= TenTo[d - 1]
  BY <1>1 DEF HasDigits
<1> QED BY <1>2, <1>3, SMT

\* The digit at a place, if d of them are printed.
Digit(x, d, i) == (x \div TenTo[d - i]) % 10

LEMMA PrintedIs ==
  ASSUME NEW x \in Nat, NEW d, HasDigits(x, d), d = NDigits(x), NEW w \in Nat
  PROVE  Printed(x, w) = [i \in 1 .. (IF d > w THEN d ELSE w) |->
                            Digit(x, IF d > w THEN d ELSE w, i)]
BY Zenon DEF Printed, Digit

LEMMA DigitsAre ==
  ASSUME NEW x \in Nat
  PROVE  Digits(x) = [i \in 1 .. NDigits(x) |-> Digit(x, NDigits(x), i)]
<1> DEFINE d == NDigits(x)
<1>1. HasDigits(x, d)
  BY NDigitsIs
<1> HIDE DEF d
<1>2. (IF d > 1 THEN d ELSE 1) = d
  BY <1>1, SMT DEF HasDigits
<1>3. Printed(x, 1) = [i \in 1 .. d |-> Digit(x, d, i)]
  BY <1>1, <1>2, PrintedIs DEF d
<1> QED BY <1>3 DEF Digits, d

LEMMA PrintedShort ==
  ASSUME NEW x \in Nat, NEW s \in Nat \ {0}, x < TenTo[s]
  PROVE  Printed(x, s) = [i \in 1 .. s |-> Digit(x, s, i)]
<1> DEFINE d == NDigits(x)
<1>1. HasDigits(x, d)
  BY NDigitsIs
<1> HIDE DEF d
<1>2. d <= s
  BY <1>1, HasFewDigits
<1>3. (IF d > s THEN d ELSE s) = s
  BY <1>1, <1>2, SMT DEF HasDigits
<1> QED BY <1>1, <1>3, PrintedIs DEF d

\* The first digits of the two numbers, as far as the prefix goes, are the same.
LEMMA PrefixIs ==
  ASSUME NEW start \in Nat, NEW n \in Nat \ {0}
  PROVE  /\ PrefixLength(start, n) \in 0 .. NDigits(start) - 1
         /\ \A i \in 1 .. PrefixLength(start, n) :
              Digit(start, NDigits(start), i) = Digit(start + n, NDigits(start + n), i)
<1> DEFINE d == NDigits(start)
           e == NDigits(start + n)
           a == Digits(start)
           b == Digits(start + n)
           differ == {i \in 1 .. Len(a) : a[i] # b[i]}
<1>1. start + n \in Nat /\ start <= start + n
  BY SMT
<1>2. HasDigits(start, d) /\ HasDigits(start + n, e)
  BY <1>1, NDigitsIs
<1>3. d \in Nat \ {0} /\ e \in Nat \ {0} /\ d <= e
  <2>1. d <= e
    <3> HIDE DEF d, e
    <3> QED BY <1>1, <1>2, HasDigitsGrows, SMT
  <2> QED BY <1>2, <2>1, Zenon DEF HasDigits
<1>4. a = [i \in 1 .. d |-> Digit(start, d, i)] /\ b = [i \in 1 .. e |-> Digit(start + n, e, i)]
  BY <1>1, DigitsAre, Zenon
<1> HIDE DEF a, b, d, e
<1>5. Len(a) = d
  BY <1>3, <1>4, SMT
<1>6. \A i \in 1 .. d : a[i] = Digit(start, d, i) /\ b[i] = Digit(start + n, e, i)
  BY <1>3, <1>4, SMT
<1>7. PrefixLength(start, n) =
        IF differ = {} THEN Len(a) - 1
                       ELSE (CHOOSE i \in differ : \A j \in differ : i <= j) - 1
  BY Zenon DEF PrefixLength, a, b
<1>8. PrefixLength(start, n) \in 0 .. d - 1
         /\ \A i \in 1 .. PrefixLength(start, n) : a[i] = b[i]
  <2>1. CASE differ = {}
    <3>1. PrefixLength(start, n) = d - 1
      BY <1>5, <1>7, <2>1
    <3>2. \A i \in 1 .. d : a[i] = b[i]
      BY <1>5, <2>1
    <3> QED BY <1>3, <3>1, <3>2, SMT
  <2>2. CASE differ # {}
    <3>1. differ \subseteq Nat
      BY <1>3, <1>5, SMT
    <3> DEFINE least == CHOOSE i \in differ : \A j \in differ : i <= j
    <3>2. least \in differ /\ \A j \in differ : least <= j
      <4> HIDE DEF differ
      <4>1. \E i \in differ : \A j \in differ : i <= j
        BY <2>2, <3>1, LeastNumber
      <4> QED BY <4>1, Zenon DEF least
    <3>3. PrefixLength(start, n) = least - 1
      BY <1>7, <2>2, Zenon
    <3> HIDE DEF least
    <3>4. least \in 1 .. d /\ \A i \in 1 .. d : a[i] # b[i] => least <= i
      BY <1>5, <3>2, Zenon
    <3> QED BY <1>3, <3>3, <3>4, SMT
  <2> QED BY <2>1, <2>2
<1>9. \A i \in 1 .. PrefixLength(start, n) : i \in 1 .. d
  <2> DEFINE P == PrefixLength(start, n)
  <2>1. P \in 0 .. d - 1
    BY <1>8
  <2> HIDE DEF P
  <2>2. \A i \in 1 .. P : i \in 1 .. d
    BY <1>3, <2>1, SMT
  <2> QED BY <2>2 DEF P
<1>10. \A i \in 1 .. PrefixLength(start, n) :
         Digit(start, d, i) = Digit(start + n, e, i)
  BY <1>6, <1>8, <1>9, Zenon
<1> QED BY <1>8, <1>10, Zenon DEF d, e

\* Numbers with the same first digits are the same but for the digits that follow.
LEMMA SamePrefix ==
  ASSUME NEW x \in Nat, NEW y \in Nat, NEW d \in Nat \ {0}, NEW P \in 0 .. d,
         x < TenTo[d], y < TenTo[d],
         \A i \in 1 .. P : Digit(x, d, i) = Digit(y, d, i)
  PROVE  x \div TenTo[d - P] = y \div TenTo[d - P]
<1> DEFINE Same(j) == x \div TenTo[d - j] = y \div TenTo[d - j]
           Bad == {j \in 0 .. P : ~Same(j)}
<1> SUFFICES ASSUME Bad # {} PROVE FALSE
  <2>1. P \in 0 .. P
    BY SMT
  <2> QED BY <2>1, Zenon
<1>1. PICK j \in Bad : \A i \in Bad : j <= i
  <2>1. Bad \subseteq Nat
    BY SMT
  <2> HIDE DEF Bad
  <2> QED BY <2>1, LeastNumber
<1>2. j \in 0 .. P /\ j \in Nat /\ j <= d /\ ~Same(j)
  BY <1>1, SMT
<1>3. j # 0
  <2>1. TenTo[d] \in Nat \ {0}
    BY TenType, SMT
  <2>2. x \div TenTo[d] = 0 /\ y \div TenTo[d] = 0
    BY <2>1, DivUnique, SMT
  <2>3. Same(0)
    BY <2>2, SMT
  <2> QED BY <1>2, <2>3, Zenon
<1>4. Same(j - 1)
  <2>1. j - 1 \in 0 .. P /\ ~(j <= j - 1)
    BY <1>2, <1>3, SMT
  <2> QED BY <1>1, <2>1, Zenon
<1> DEFINE t == TenTo[d - j]
<1>5. t \in Nat \ {0} /\ TenTo[d - (j - 1)] = t * 10
  <2>1. d - j \in Nat /\ d - (j - 1) = (d - j) + 1
    BY <1>2, <1>3, SMT
  <2>2. TenTo[(d - j) + 1] = TenTo[d - j] * TenTo[1]
    BY <2>1, TenSplit, SMT
  <2>3. t \in Nat \ {0}
    BY <2>1, TenType, Zenon
  <2> QED BY <2>1, <2>2, <2>3, TenToNext
<1>6. (x \div t) \div 10 = (y \div t) \div 10
  <2>1. x \div (t * 10) = y \div (t * 10)
    BY <1>4, <1>5, Zenon
  <2> HIDE DEF t
  <2>2. 10 \in Nat \ {0}
    BY SMT
  <2>3. (x \div t) \div 10 = x \div (t * 10) /\ (y \div t) \div 10 = y \div (t * 10)
    BY <1>5, <2>2, DivDiv, Zenon
  <2> QED BY <2>1, <2>3, Zenon
<1>7. (x \div t) % 10 = (y \div t) % 10
  <2>1. j \in 1 .. P
    BY <1>2, <1>3, SMT
  <2> QED BY <2>1, Zenon DEF Digit
<1>8. x \div t = y \div t
  <2> HIDE DEF t
  <2>1. x \div t \in Nat /\ y \div t \in Nat
    BY <1>5, DivMod
  <2> QED BY <1>6, <1>7, <2>1, SMT
<1> QED BY <1>2, <1>8, Zenon

\* A digit depends only on what is left of the number without the digits after it ...
LEMMA DigitOfPrefix ==
  ASSUME NEW x \in Nat, NEW d \in Nat \ {0}, NEW P \in 0 .. d, NEW i \in 1 .. P
  PROVE  Digit(x, d, i) = ((x \div TenTo[d - P]) \div TenTo[P - i]) % 10
<1>1. /\ d - P \in Nat /\ P - i \in Nat
      /\ (d - P) + (P - i) = d - i
  BY SMT
<1>2. /\ TenTo[d - i] = TenTo[d - P] * TenTo[P - i]
      /\ TenTo[d - P] \in Nat \ {0} /\ TenTo[P - i] \in Nat \ {0}
  BY <1>1, TenSplit, TenType, Zenon
<1>3. (x \div TenTo[d - P]) \div TenTo[P - i] = x \div TenTo[d - i]
  BY <1>2, DivDiv
<1> QED BY <1>3 DEF Digit

\* ... or on the digits from it on.
LEMMA DigitOfSuffix ==
  ASSUME NEW q \in Nat, NEW s \in Nat \ {0}, NEW m \in Nat, NEW i \in 1 .. s
  PROVE  ((q * TenTo[s] + m) \div TenTo[s - i]) % 10 = Digit(m, s, i)
<1> DEFINE u == TenTo[s - i]
           v == TenTo[i - 1]
           w == m \div u
<1>1. /\ s - i \in Nat /\ i - 1 \in Nat /\ i \in Nat
      /\ (s - i) + i = s /\ (i - 1) + 1 = i
  BY SMT
<1>2. u \in Nat \ {0} /\ v \in Nat \ {0} /\ TenTo[s] = u * (v * 10)
  <2>1. TenTo[s] = u * TenTo[i]
    BY <1>1, TenSplit, Zenon
  <2>2. TenTo[i] = v * TenTo[1]
    BY <1>1, TenSplit, SMT
  <2>3. u \in Nat \ {0} /\ v \in Nat \ {0}
    BY <1>1, TenType, Zenon
  <2>4. TenTo[1] = 10
    BY TenToNext
  <2>5. TenTo[s] = u * (v * 10)
    BY <2>1, <2>2, <2>4
  <2> QED BY <2>3, <2>5
<1>3. w \in Nat /\ u * w <= m /\ m < u * w + u
  <2> HIDE DEF u
  <2>1. m \div u \in Nat /\ m % u \in 0 .. u - 1 /\ m = u * (m \div u) + (m % u)
    BY <1>2, DivMod
  <2> QED BY <1>2, <2>1, SMT
<1> DEFINE z == q * (v * 10)
<1>4. (q * TenTo[s] + m) \div u = z + w
  <2> HIDE DEF u, v, w
  <2>1. q * TenTo[s] + m = u * z + m /\ u * (z + w) = u * z + u * w
    BY <1>2, <1>3, SMT
  <2>2. z + w \in Nat /\ u * z \in Nat /\ u * w \in Nat
    BY <1>2, <1>3, SMT
  <2> HIDE DEF z
  <2>3. u * (z + w) <= u * z + m /\ u * z + m < u * (z + w) + u
    BY <1>2, <1>3, <2>1, <2>2, SMT
  <2> DEFINE y == u * z + m
  <2>4. y \in Int /\ z + w \in Int
    BY <2>2, SMT
  <2> HIDE DEF y
  <2>5. y \div u = z + w
    BY <1>2, <2>3, <2>4, DivUnique, Zenon DEF y
  <2> QED BY <2>1, <2>5, Zenon DEF y
<1>5. (z + w) % 10 = w % 10
  <2> HIDE DEF u, v, w
  <2>1. q * v \in Nat /\ z = (q * v) * 10
    BY <1>2, SMT
  <2> HIDE DEF z
  <2> DEFINE p == q * v
  <2> HIDE DEF p
  <2>2. p \in Nat /\ z = p * 10
    BY <2>1 DEF p
  <2> QED BY <1>3, <2>2, SMT
<1> QED BY <1>4, <1>5, Zenon DEF Digit

\* As many lines as the prefix leaves room for: line k holds the number start + k.
LEMMA Announced ==
  ASSUME NEW start \in Nat, NEW n \in Nat \ {0},
         NDigits(start + n) = NDigits(start), NEW k \in 0 .. n - 1
  PROVE  Dn(start, n, k) = Digits(start + k)
<1> DEFINE d == NDigits(start)
           P == PrefixLength(start, n)
           S == SuffixLength(start, n)
           t == TenTo[d - P]
           q == start \div t
           m == (start % t) + k
           x == start + k
<1>1. start + n \in Nat /\ x \in Nat /\ x <= start + n
        /\ start <= x /\ k \in Nat /\ k < n
  BY SMT
<1>2. HasDigits(start, d) /\ HasDigits(start + n, d) /\ HasDigits(x, NDigits(x))
  BY <1>1, NDigitsIs, Zenon
<1>3. NDigits(x) = d
  <2>1. d <= NDigits(x) /\ NDigits(x) <= d
    BY <1>1, <1>2, HasDigitsGrows
  <2>2. d \in Nat \ {0} /\ NDigits(x) \in Nat \ {0}
    BY <1>2, Zenon DEF HasDigits
  <2> HIDE DEF d, x
  <2> QED BY <2>1, <2>2, SMT
<1>4. d \in Nat \ {0} /\ P \in 0 .. d - 1
  BY <1>1, <1>2, PrefixIs, Zenon DEF HasDigits
<1>5. \A i \in 1 .. P : Digit(start, d, i) = Digit(start + n, d, i)
  BY <1>1, PrefixIs, Zenon
<1> HIDE DEF d, P
<1>6. d - P \in Nat \ {0} /\ P \in 0 .. d /\ P \in Nat /\ d \in Nat
        /\ P + (d - P) = d
  BY <1>4, SMT
<1>7. t \in Nat \ {0}
  BY <1>6, TenType
<1>8. q = (start + n) \div t
  <2>1. start < TenTo[d] /\ start + n < TenTo[d]
    BY <1>2, Zenon DEF HasDigits
  <2> QED BY <1>1, <1>4, <1>5, <1>6, <2>1, SamePrefix
<1>9. m \in Nat /\ m < t /\ q \in Nat /\ x = q * t + m
  <2> HIDE DEF t
  <2>1. /\ start \div t \in Nat /\ start % t \in 0 .. t - 1
        /\ start = t * (start \div t) + (start % t)
    BY <1>7, DivMod
  <2>2. /\ (start + n) % t \in 0 .. t - 1
        /\ start + n = t * ((start + n) \div t) + ((start + n) % t)
    BY <1>1, <1>7, DivMod
  <2> DEFINE r == start % t
             r2 == (start + n) % t
  <2>3. r \in 0 .. t - 1 /\ r2 \in 0 .. t - 1 /\ q \in Nat /\ start = t * q + r /\ start + n = t * q + r2
    BY <1>8, <2>1, <2>2
  <2>4. m = r + k
    OBVIOUS
  <2> HIDE DEF r, r2, q, m
  <2>5. t * q \in Nat
    BY <1>7, <2>3, SMT
  <2>6. n = r2 - r
    BY <1>7, <2>3, <2>5, SMT
  <2>7. m \in Nat /\ m < t
    BY <1>1, <1>7, <2>3, <2>4, <2>6, SMT
  <2>8. x = q * t + m
    BY <1>1, <1>7, <2>3, <2>4, SMT
  <2> QED BY <2>3, <2>7, <2>8
<1>10. x \div t = q
  <2> HIDE DEF x, m, t, q
  <2> QED BY <1>1, <1>7, <1>9, DivUnique, SMT
<1>11. S = d - P
  <2>1. Digits(start + n) = [i \in 1 .. d |-> Digit(start + n, d, i)]
    BY <1>1, DigitsAre, Zenon DEF d
  <2>2. Len(Digits(start + n)) = d
    BY <1>4, <2>1, SMT
  <2> QED BY <2>2, Zenon DEF SuffixLength, P
<1>12. Printed(m, S) = [i \in 1 .. S |-> Digit(m, S, i)]
  <2>1. S \in Nat \ {0} /\ m < TenTo[S]
    BY <1>6, <1>9, <1>11, SMT
  <2> QED BY <1>9, <2>1, PrintedShort
<1>13. Digits(start) = [i \in 1 .. d |-> Digit(start, d, i)]
  BY <1>1, DigitsAre DEF d
<1>14. Digits(x) = [i \in 1 .. d |-> Digit(x, d, i)]
  BY <1>1, <1>3, DigitsAre
<1>15. Dn(start, n, k) = SubSeq(Digits(start), 1, P) \o Printed(m, S)
  <2>1. t = TenTo[S]
    BY <1>11, Zenon
  <2> QED BY <2>1, Zenon DEF Dn, P, S
<1> DEFINE pre == SubSeq(Digits(start), 1, P)
           suf == Printed(m, S)
<1>16. pre = [i \in 1 .. P |-> Digit(start, d, i)]
  <2> HIDE DEF x, m
  <2> QED BY <1>4, <1>6, <1>13, SMT
<1>17. pre \o suf = [i \in 1 .. d |-> IF i <= P THEN Digit(start, d, i) ELSE Digit(m, S, i - P)]
  <2> HIDE DEF x, m, S, t, pre
  <2>1. suf = [i \in 1 .. d - P |-> Digit(m, d - P, i)]
    BY <1>11, <1>12
  <2> HIDE DEF suf
  <2> QED BY <1>6, <1>11, <1>16, <2>1, SMT
<1>18. ASSUME NEW i \in 1 .. d
       PROVE  Digit(x, d, i) = IF i <= P THEN Digit(start, d, i) ELSE Digit(m, S, i - P)
  <2>1. CASE i <= P
    <3>1. i \in 1 .. P
      BY <1>6, <2>1, SMT
    <3>2. Digit(x, d, i) = (q \div TenTo[P - i]) % 10
      <4> HIDE DEF x, q
      <4>1. Digit(x, d, i) = ((x \div t) \div TenTo[P - i]) % 10
        BY <1>1, <1>4, <1>6, <3>1, DigitOfPrefix
      <4> QED BY <1>10, <4>1, Zenon
    <3>3. Digit(start, d, i) = (q \div TenTo[P - i]) % 10
      BY <1>4, <1>6, <3>1, DigitOfPrefix
    <3> QED BY <2>1, <3>2, <3>3
  <2>2. CASE ~(i <= P)
    <3>1. i - P \in 1 .. d - P /\ (d - P) - (i - P) = d - i
      BY <1>6, <2>2, SMT
    <3>2. ((q * TenTo[d - P] + m) \div TenTo[(d - P) - (i - P)]) % 10 = Digit(m, d - P, i - P)
      BY <1>6, <1>9, <3>1, DigitOfSuffix
    <3>3. Digit(x, d, i) = Digit(m, d - P, i - P)
      BY <1>9, <3>1, <3>2, Zenon DEF Digit
    <3> QED BY <1>11, <2>2, <3>3, Zenon
  <2> QED BY <2>1, <2>2
<1>19. Digits(x) = [i \in 1 .. d |-> IF i <= P THEN Digit(start, d, i) ELSE Digit(m, S, i - P)]
  <2> HIDE DEF x, m, S
  <2> QED BY <1>14, <1>18, Zenon
<1> QED BY <1>15, <1>17, <1>19, Zenon

\* A number past the last one that has more digits than the first: the first line
\* holds more digits than the first number has.
LEMMA NotAnnounced ==
  ASSUME NEW start \in Nat, NEW n \in Nat \ {0},
         NDigits(start + n) # NDigits(start)
  PROVE  Dn(start, n, 0) # Digits(start)
<1> DEFINE d == NDigits(start)
           e == NDigits(start + n)
           P == PrefixLength(start, n)
           S == SuffixLength(start, n)
           m == (start % TenTo[S]) + 0
<1>1. start + n \in Nat /\ start <= start + n
  BY SMT
<1>2. HasDigits(start, d) /\ HasDigits(start + n, e)
  BY <1>1, NDigitsIs, Zenon
<1>3. d \in Nat \ {0} /\ e \in Nat \ {0} /\ d < e
  <2>1. d <= e
    BY <1>1, <1>2, HasDigitsGrows
  <2>2. d \in Nat \ {0} /\ e \in Nat \ {0}
    BY <1>2, Zenon DEF HasDigits
  <2> HIDE DEF d, e
  <2>3. d # e
    BY DEF d, e
  <2> QED BY <2>1, <2>2, <2>3, SMT
<1>4. P \in 0 .. d - 1
  BY <1>1, PrefixIs, Zenon
<1>5. Digits(start) = [i \in 1 .. d |-> Digit(start, d, i)]
  BY <1>1, DigitsAre
<1>6. Digits(start + n) = [i \in 1 .. e |-> Digit(start + n, e, i)]
  BY <1>1, DigitsAre
<1>7. S = e - P
  <2>1. S = Len(Digits(start + n)) - P
    BY DEF SuffixLength
  <2> HIDE DEF d, e, P, S
  <2>2. Len(Digits(start + n)) = e
    BY <1>3, <1>6, SMT
  <2> QED BY <2>1, <2>2
<1>8. Dn(start, n, 0) = SubSeq(Digits(start), 1, P) \o Printed(m, S)
  BY Zenon DEF Dn
<1> HIDE DEF d, e, P
<1>9. S \in Nat \ {0}
  <2> HIDE DEF S
  <2> QED BY <1>3, <1>4, <1>7, SMT
<1>10. m \in Nat /\ m < TenTo[S]
  <2>1. TenTo[S] \in Nat \ {0}
    BY <1>9, TenType
  <2> DEFINE r == start % TenTo[S]
  <2>2. r \in 0 .. TenTo[S] - 1
    BY <2>1, DivMod
  <2>3. m = r + 0
    OBVIOUS
  <2> HIDE DEF m, r, S
  <2> QED BY <2>1, <2>2, <2>3, SMT
<1>11. Printed(m, S) = [i \in 1 .. S |-> Digit(m, S, i)]
  BY <1>9, <1>10, PrintedShort
<1> HIDE DEF m, S
<1>12. Len(SubSeq(Digits(start), 1, P) \o Printed(m, S)) = e
  <2> DEFINE pre == SubSeq(Digits(start), 1, P)
             suf == Printed(m, S)
  <2>1. pre = [i \in 1 .. P |-> Digit(start, d, i)]
    BY <1>3, <1>4, <1>5, SMT
  <2> HIDE DEF pre, suf
  <2>2. Len(pre \o suf) = P + S
    BY <1>4, <1>9, <1>11, <2>1, SMT DEF suf
  <2> QED BY <1>3, <1>4, <1>7, <2>2, SMT DEF pre, suf
<1>13. Len(Digits(start)) = d
  BY <1>3, <1>5, SMT
<1>14. e # d
  BY <1>3, SMT
<1> QED BY <1>8, <1>12, <1>13, <1>14, Zenon

\* The lines of the numbers file are the numbers that are announced, start ..
\* start + n - 1 (sippscen.py:232), if and only if the number past the last one has as
\* many digits as the first one (dn_prefix): any first number, and any number of lines.
THEOREM NumbersAreAnnounced ==
  ASSUME NEW start \in Nat, NEW n \in Nat \ {0}
  PROVE  (\A k \in 0 .. n - 1 : Dn(start, n, k) = Digits(start + k))
           <=> NDigits(start + n) = NDigits(start)
<1>1. NDigits(start + n) = NDigits(start)
        => \A k \in 0 .. n - 1 : Dn(start, n, k) = Digits(start + k)
  BY Announced, Zenon
<1>2. NDigits(start + n) # NDigits(start)
        => ~ \A k \in 0 .. n - 1 : Dn(start, n, k) = Digits(start + k)
  <2>1. 0 \in 0 .. n - 1 /\ start + 0 = start
    BY SMT
  <2> QED BY <2>1, NotAnnounced, Zenon
<1> QED BY <1>1, <1>2, Zenon

-----------------------------------------------------------------------------
(***************************************************************************)
(* The sorted ranges.                                                      *)
(***************************************************************************)
\* Numbers of ports are integers, and so are first and last ports.
LEMMA RangeType ==
  ASSUME NEW c \in Config
  PROVE  IsLoad(c) /\ First(c) \in Nat /\ Last(c) \in Int
<1>1. IsLoad(c) /\ c.offset \in Nat
  BY OrchestratorAssumption DEF IsLoad
<1> QED BY <1>1, NPortsType DEF First, Last

\* check_overlap compares neighbours only, and that is enough: if it finds nothing,
\* no two ranges of a media server have a port in common.
LEMMA NeighboursSuffice ==
  ASSUME config \in [Scenario -> Config], claims \subseteq Scenario, ~Overlap,
         NEW s \in claims, NEW t \in claims,
         config[s].ms = config[t].ms, Before(s, t)
  PROVE  Last(config[s]) < First(config[t])
<1> DEFINE ms == config[s].ms
           After == {u \in PortRanges(ms) : Before(s, u)}
           Firsts == {First(config[u]) : u \in After}
<1>1. \A u \in claims : /\ u \in Nat /\ config[u] \in Config
                        /\ First(config[u]) \in Nat /\ Last(config[u]) \in Int
  BY RangeType, OrchestratorAssumption DEF Scenario
<1>2. After \subseteq claims /\ t \in After
  BY DEF PortRanges
<1>3. PICK f \in Firsts : \A g \in Firsts : f <= g
  <2>1. Firsts \subseteq Nat /\ First(config[t]) \in Firsts
    BY <1>1, <1>2
  <2> HIDE DEF Firsts
  <2> QED BY <2>1, LeastNumber
<1> DEFINE Least == {u \in After : First(config[u]) = f}
<1>4. PICK u \in Least : \A v \in Least : u <= v
  <2>1. Least \subseteq Nat /\ Least # {}
    BY <1>1, <1>2, <1>3
  <2> HIDE DEF Least
  <2> QED BY <2>1, LeastNumber
<1>5. u \in PortRanges(ms) /\ s \in PortRanges(ms) /\ Before(s, u)
  BY DEF PortRanges
<1>6. \A v \in PortRanges(ms) : ~(Before(s, v) /\ Before(v, u))
  <2> SUFFICES ASSUME NEW v \in PortRanges(ms), Before(s, v), Before(v, u) PROVE FALSE
    OBVIOUS
  <2>1. v \in After /\ First(config[v]) \in Firsts /\ f <= First(config[v])
    BY <1>3
  <2>2. v \in Nat /\ u \in Nat /\ First(config[v]) \in Nat /\ First(config[u]) = f
    BY <1>1, <1>2, <2>1
  <2>3. f \in Nat
    BY <1>1, <1>2, <2>2
  <2>4. First(config[v]) = f /\ v < u
    BY <2>1, <2>2, <2>3 DEF Before
  <2> QED BY <1>4, <2>1, <2>2, <2>4
<1>7. ~(First(config[u]) <= Last(config[s]))
  BY <1>5, <1>6 DEF Overlap
<1>8. First(config[u]) <= First(config[t])
  BY <1>2, <1>3
<1> QED
  <2>1. u \in claims /\ First(config[u]) \in Nat /\ First(config[t]) \in Nat
        /\ Last(config[s]) \in Int
    BY <1>1, <1>2
  <2> QED BY <1>7, <1>8, <2>1

\* What the validation lets through has disjoint ports and SIP sockets.
NoConflict ==
  \A s, t \in dScenarios : s # t =>
    /\ config[s].sip # config[t].sip
    /\ \/ config[s].ms # config[t].ms
       \/ Last(config[s]) < First(config[t]) \/ Last(config[t]) < First(config[s])

LEMMA ValidMeansDisjoint ==
  ASSUME TypeOK, ~Overlap, ~Duplicate
  PROVE  NoConflict
<1>0. /\ config \in [Scenario -> Config] /\ claims \subseteq Scenario
      /\ dScenarios \subseteq claims /\ dScenarios \subseteq sockets
  BY DEF TypeOK
<1> SUFFICES ASSUME NEW s \in dScenarios, NEW t \in dScenarios, s # t, config[s].ms = config[t].ms
             PROVE  \/ Last(config[s]) < First(config[t])
                    \/ Last(config[t]) < First(config[s])
  BY <1>0 DEF NoConflict, Duplicate
<1>1. /\ s \in Nat /\ t \in Nat
      /\ First(config[s]) \in Nat /\ First(config[t]) \in Nat
  BY <1>0, RangeType, OrchestratorAssumption DEF Scenario
<1>2. Before(s, t) \/ Before(t, s)
  BY <1>1 DEF Before
<1> QED BY <1>0, <1>2, NeighboursSuffice

-----------------------------------------------------------------------------
(***************************************************************************)
(* Type correctness.  A process that is waited for has checks left.        *)
(***************************************************************************)
TypeInv ==
  /\ TypeOK
  /\ \A s \in Scenario : stop[s] = "wait" => checks[s] > 0

LEMMA TypeInitially == Init => TypeInv
BY OrchestratorAssumption DEF Init, TypeInv, TypeOK, Scenario, Running

\* The steps of one coroutine.
LEMMA StopTypeStep ==
  ASSUME TypeInv, NEW s \in Scenario, StopScenario(s) PROVE TypeInv'
<1> USE OrchestratorAssumption DEF TypeInv, TypeOK, Ended, Running, dicts, Turn, StopStep
<1>1. CASE NoPid(s)
  BY <1>1 DEF NoPid
<1>2. CASE Quit(s)
  BY <1>2 DEF Quit
<1>3. CASE Check(s)
  <2>1. stop[s] = "wait" /\ checks[s] \in 1 .. Checks
    BY <1>3 DEF Check
  <2>2. checks' = [checks EXCEPT ![s] = @ - 1]
    BY <1>3 DEF Check
  <2>3. checks' \in [Scenario -> 0 .. Checks]
    BY <2>1, <2>2
  <2>4. /\ stop' \in [Scenario -> {"none", "wait", "term", "termed", "kill", "killed",
                                   "returned"}]
        /\ \A t \in Scenario : stop'[t] = "wait" => checks'[t] > 0
    BY <1>3, <2>1, <2>2, <2>3 DEF Check
  <2> QED BY <1>3, <2>3, <2>4 DEF Check
<1>4. CASE Sigterm(s)
  BY <1>4 DEF Sigterm, Kill
<1>5. CASE CheckTerm(s)
  BY <1>5 DEF CheckTerm
<1>6. CASE Sigkill(s)
  BY <1>6 DEF Sigkill, Kill
<1>7. CASE CheckKill(s)
  BY <1>7 DEF CheckKill
<1> QED BY <1>1, <1>2, <1>3, <1>4, <1>5, <1>6, <1>7 DEF StopScenario

\* A loop stays in its phase or goes on to the next one.
LEMMA LoopStep ==
  ASSUME at \in Scenario, NEW newPhase, NextScenario(newPhase)
  PROVE  at' \in Scenario /\ phase' \in {phase, newPhase}
BY OrchestratorAssumption DEF NextScenario, Scenario

LEMMA TypeStep == TypeInv /\ [Next]_vars => TypeInv'
<1> SUFFICES ASSUME TypeInv, [Next]_vars PROVE TypeInv'
  OBVIOUS
<1> USE OrchestratorAssumption DEF TypeInv, TypeOK, Ended, Running, dicts
<1>1. ASSUME NEW s \in Scenario, PrepareSkips(s) \/ PrepareFails(s) \/ Prepare(s)
      PROVE  TypeInv'
  <2>1. at' \in Scenario /\ phase' \in {phase, "validate"}
    BY <1>1, LoopStep DEF PrepareSkips, PrepareFails, Prepare
  <2>2. CASE PrepareSkips(s)
    BY <2>1, <2>2 DEF PrepareSkips
  <2>3. CASE PrepareFails(s)
    BY <2>1, <2>3 DEF PrepareFails
  <2>4. CASE Prepare(s)
    BY <2>1, <2>4 DEF Prepare
  <2> QED BY <1>1, <2>2, <2>3, <2>4
<1>2. ASSUME NEW s \in Scenario, Register(s) \/ RegisterFails(s) \/ Unregister(s)
      PROVE  TypeInv'
  <2>1. CASE Register(s)
    <3>1. at' \in Scenario /\ phase' \in {phase, "start"}
      BY <2>1, LoopStep DEF Register
    <3> QED BY <2>1, <3>1 DEF Register
  <2>2. CASE RegisterFails(s)
    BY <2>2 DEF RegisterFails
  <2>3. CASE Unregister(s)
    <3>1. at' \in Scenario /\ phase' \in {phase, "done"}
      BY <2>3, LoopStep DEF Unregister
    <3> QED BY <2>3, <3>1 DEF Unregister
  <2> QED BY <1>2, <2>1, <2>2, <2>3
<1>3. ASSUME NEW s \in Scenario, Start(s) \/ StartFails(s) \/ Ends(s)
      PROVE  TypeInv'
  <2>1. CASE Start(s)
    <3>1. at' \in Scenario /\ phase' \in {phase, "run"}
      BY <2>1, LoopStep DEF Start
    <3> QED BY <2>1, <3>1 DEF Start
  <2>2. CASE StartFails(s)
    <3>1. at' \in Scenario /\ phase' \in {phase, "run"}
      BY <2>2, LoopStep DEF StartFails
    <3> QED BY <2>2, <3>1 DEF StartFails
  <2>3. CASE Ends(s)
    BY <2>3 DEF Ends
  <2> QED BY <1>3, <2>1, <2>2, <2>3
<1>4. CASE Validate \/ ExitEarly \/ Run \/ ChangeRate \/ Terminated
  BY <1>4 DEF Validate, ExitEarly, Run, ChangeRate, Terminated
<1>5. CASE UNCHANGED vars
  BY <1>5 DEF vars
<1> QED BY <1>1, <1>2, <1>3, <1>4, <1>5, StopTypeStep DEF Next, MainNext, Main

\* The variables have the types TypeOK gives them, and the dictionaries of main are
\* subsets of one another as its loops build them.
THEOREM TypeCorrect == Spec => []TypeOK
<1>1. TypeInv => TypeOK
  BY DEF TypeInv
<1> QED BY <1>1, TypeInitially, TypeStep, PTL DEF Spec

\* The numbers and ports of a scenario that has been prepared rest for more than a
\* second between two calls, for every description it may have (sippscen.py:208-212).
THEOREM NumbersAreRested == Spec => []NumbersRest
<1>1. TypeInv => NumbersRest
  <2> SUFFICES ASSUME TypeInv, NEW s \in claims, config[s].endpoints = 0,
                      NEW k \in 0 .. (IF config[s].total # 0 THEN config[s].total - 1
                                       ELSE 2 * NPorts(config[s])),
                      NEW m \in 0 .. (IF config[s].total # 0 THEN config[s].total - 1
                                       ELSE 2 * NPorts(config[s])),
                      k < m, k % NPorts(config[s]) = m % NPorts(config[s])
               PROVE  (m - k) * config[s].secs * 1000
                        > config[s].calls * (config[s].duration + 1000)
    BY DEF NumbersRest
  <2> DEFINE c == config[s]
  <2>1. IsLoad(c)
    BY RangeType DEF TypeInv, TypeOK
  <2>2. k \in Nat /\ m \in Nat /\ (c.total # 0 => m < c.total)
    BY <2>1, NPortsType DEF IsLoad
  <2> QED BY <2>1, <2>2, LinesRest
<1> QED BY <1>1, TypeInitially, TypeStep, PTL DEF Spec

-----------------------------------------------------------------------------
(***************************************************************************)
(* Ports and registration: what is known of the scenarios that have been   *)
(* prepared, and of the dictionaries, by the phase.                        *)
(***************************************************************************)
\* Nothing has been started yet, or nothing ever will.
NotStarted == phase \in {"prepare", "validate", "register", "exited"} => pids = {}

\* What was let through has no conflict, and is not added to.
ValidInv == phase \notin {"prepare", "validate", "exited"} => NoConflict

RegisterInv ==
  /\ \A s \in dScenarios : config[s].register # "no" => s \in dRegistrations
  /\ phase = "validate" => at = 1
  /\ phase = "register" => \A s \in dRegistrations : s < at => s \in registered
  /\ phase \in {"start", "run", "clients", "servers", "crashed"} =>
       dRegistrations \subseteq registered

StartInv == TypeInv /\ NotStarted /\ ValidInv /\ RegisterInv

LEMMA StartInitially == Init => StartInv
BY TypeInitially DEF Init, StartInv, NotStarted, ValidInv, RegisterInv

LEMMA StartStep == StartInv /\ [Next]_vars => StartInv'
<1> SUFFICES ASSUME StartInv, [Next]_vars PROVE NotStarted' /\ ValidInv' /\ RegisterInv'
  BY TypeStep DEF StartInv
<1>0. TypeOK
  BY DEF StartInv, TypeInv
<1> USE <1>0 DEF NotStarted, StartInv
<1>1. ASSUME NEW s \in Scenario, PrepareSkips(s) \/ PrepareFails(s) \/ Prepare(s)
      PROVE  NotStarted' /\ ValidInv' /\ RegisterInv'
  <2>1. phase' \in {"prepare", "validate"} /\ UNCHANGED <<config, pids>> /\ phase = "prepare"
    BY <1>1, LoopStep DEF PrepareSkips, PrepareFails, Prepare, TypeOK
  <2>2. \A t \in dScenarios' : config[t].register # "no" => t \in dRegistrations'
    <3>1. CASE PrepareSkips(s)
      BY <3>1 DEF PrepareSkips, dicts, RegisterInv
    <3>2. CASE PrepareFails(s)
      BY <3>2 DEF PrepareFails, RegisterInv
    <3>3. CASE Prepare(s)
      BY <3>3 DEF Prepare, RegisterInv
    <3> QED BY <1>1, <3>1, <3>2, <3>3
  <2>3. phase' = "validate" => at' = 1
    BY <1>1, <2>1 DEF PrepareSkips, PrepareFails, Prepare, NextScenario
  <2> QED BY <2>1, <2>2, <2>3 DEF ValidInv, RegisterInv
<1>2. CASE Validate \/ ExitEarly
  <2>1. CASE Validate
    <3>1. /\ phase = "validate" /\ phase' \in {"exited", "register"}
          /\ UNCHANGED <<config, at, dicts, registered, pids>>
      BY <2>1 DEF Validate
    <3>2. phase' = "register" => NoConflict
      BY <2>1, ValidMeansDisjoint DEF Validate, TypeOK
    <3>3. ValidInv'
      BY <3>1, <3>2 DEF ValidInv, NoConflict, dicts
    <3>4. \A t \in dRegistrations' : t < at' => t \in registered'
      BY <3>1, OrchestratorAssumption DEF RegisterInv, TypeOK, dicts, Scenario
    <3> QED BY <3>1, <3>3, <3>4 DEF RegisterInv, dicts
  <2>2. CASE ExitEarly
    BY <2>2 DEF ExitEarly, ValidInv, RegisterInv, dicts
  <2> QED BY <1>2, <2>1, <2>2
<1>3. ASSUME NEW s \in Scenario, Register(s)
      PROVE  NotStarted' /\ ValidInv' /\ RegisterInv'
  <2>1. /\ phase = "register" /\ at = s /\ phase' \in {"register", "start"}
        /\ registered' = registered \cup ({s} \cap dRegistrations)
        /\ UNCHANGED <<config, dicts, pids>>
    BY <1>3, LoopStep DEF Register, TypeOK
  <2>2. \A t \in dRegistrations : t <= s => t \in registered'
    BY <2>1, OrchestratorAssumption DEF RegisterInv, TypeOK, Scenario
  <2>3. \/ s = N /\ phase' = "start"
        \/ at' = s + 1 /\ phase' = "register"
    BY <1>3, <2>1 DEF Register, NextScenario
  <2>4. RegisterInv'
    BY <2>1, <2>2, <2>3, OrchestratorAssumption DEF RegisterInv, TypeOK, dicts, Scenario
  <2> QED BY <2>1, <2>4 DEF ValidInv, NoConflict, dicts
<1>4. ASSUME NEW s \in Scenario, RegisterFails(s) \/ Unregister(s)
      PROVE  NotStarted' /\ ValidInv' /\ RegisterInv'
  <2>1. CASE RegisterFails(s)
    BY <2>1 DEF RegisterFails, ValidInv, RegisterInv, dicts
  <2>2. CASE Unregister(s)
    <3>1. phase' \in {"unregister", "done"} /\ UNCHANGED <<config, dicts, pids>>
          /\ phase = "unregister"
      BY <2>2, LoopStep DEF Unregister, TypeOK
    <3> QED BY <3>1 DEF ValidInv, NoConflict, RegisterInv, dicts
  <2> QED BY <1>4, <2>1, <2>2
<1>5. ASSUME NEW s \in Scenario, Start(s) \/ StartFails(s)
      PROVE  NotStarted' /\ ValidInv' /\ RegisterInv'
  <2>1. /\ phase = "start" /\ phase' \in {"start", "run"}
        /\ UNCHANGED <<config, dicts, registered>>
    BY <1>5, LoopStep DEF Start, StartFails, TypeOK
  <2> QED BY <2>1 DEF ValidInv, NoConflict, RegisterInv, dicts
<1>6. CASE Run \/ ChangeRate \/ Terminated
  BY <1>6 DEF Run, ChangeRate, Terminated, ValidInv, NoConflict, RegisterInv, dicts
<1>7. ASSUME NEW s \in Scenario, StopScenario(s)
      PROVE  NotStarted' /\ ValidInv' /\ RegisterInv'
  <2>1. /\ phase \in {"clients", "servers"} /\ phase' \in {phase, "crashed"}
        /\ UNCHANGED <<config, dicts, registered, pids>>
    BY <1>7 DEF StopScenario, NoPid, Quit, Check, Sigterm, CheckTerm, Sigkill, CheckKill,
                Kill, Turn, Stopping, StopStep
  <2> QED BY <2>1 DEF ValidInv, NoConflict, RegisterInv, dicts
<1>8. ASSUME NEW s \in Scenario, Ends(s)
      PROVE  NotStarted' /\ ValidInv' /\ RegisterInv'
  BY <1>8 DEF Ends, ValidInv, NoConflict, RegisterInv, dicts
<1>9. CASE UNCHANGED vars
  BY <1>9 DEF vars, ValidInv, NoConflict, RegisterInv, dicts
<1> QED BY <1>1, <1>2, <1>3, <1>4, <1>5, <1>6, <1>7, <1>8, <1>9 DEF Next, MainNext, Main

LEMMA StartInvariant == Spec => []StartInv
BY StartInitially, StartStep, PTL DEF Spec

\* No two scenarios that have been started use the same port of a media server, or
\* the same SIP socket (sippscen_utils.py:86-131).
THEOREM PortsAreDisjoint == Spec => []PortsDisjoint
<1>1. StartInv => PortsDisjoint
  BY DEF StartInv, TypeInv, TypeOK, NotStarted, ValidInv, NoConflict, PortsDisjoint
<1> QED BY <1>1, StartInvariant, PTL

\* A scenario that registers its numbers does not start before they are registered
\* (sippscen.py:352-363).
THEOREM RegisteredBeforeStart == Spec => []RegisteredFirst
<1>1. StartInv => RegisteredFirst
  BY DEF StartInv, TypeInv, TypeOK, NotStarted, RegisterInv, RegisteredFirst, Ended
<1> QED BY <1>1, StartInvariant, PTL

-----------------------------------------------------------------------------
(***************************************************************************)
(* Termination: what a coroutine leaves behind when it returns, and which  *)
(* coroutines have returned, by the phase.                                 *)
(***************************************************************************)
\* The process has ended, or nothing more can be done to it.
Gone(s) == sipp[s] \in {"none", "ended", "kill"}

GoneInv ==
  \A s \in Scenario :
    /\ stop[s] \in {"killed", "returned"} => Gone(s)
    /\ phase \notin {"clients", "servers", "unregister", "done", "crashed"} =>
         stop[s] = "none"

AllReturned(type) ==
  \A s \in dScenarios : config[s].type = type => stop[s] = "returned"

OrderInv ==
  /\ phase \in {"servers", "unregister", "done"} => AllReturned("client")
  /\ phase \in {"unregister", "done"} => AllReturned("server")
  /\ \/ \A s \in dScenarios : config[s].type = "server" => stop[s] = "none"
     \/ AllReturned("client")

StopInv == StartInv /\ GoneInv /\ OrderInv

LEMMA StopInitially == Init => StopInv
BY StartInitially DEF Init, StopInv, GoneInv, OrderInv

\* A step of the coroutine of s is one of a scenario that is being stopped, and has
\* not returned; it changes nothing of the others.
LEMMA CoroutineStep ==
  ASSUME StopInv, NEW s \in Scenario, StopScenario(s)
  PROVE  /\ s \in Stopping /\ stop[s] # "returned"
         /\ phase \in {"clients", "servers"} /\ phase' \in {phase, "crashed"}
         /\ UNCHANGED <<config, dScenarios, pids>>
         /\ \A t \in Scenario \ {s} : stop'[t] = stop[t] /\ sipp'[t] = sipp[t]
         /\ stop'[s] \in {"killed", "returned"} => Gone(s)'
<1>0. TypeOK /\ GoneInv
  BY DEF StopInv, StartInv, TypeInv
<1> USE <1>0 DEF TypeOK, GoneInv, Gone, Turn, StopStep, Stopping, Running, dicts
<1>1. CASE NoPid(s)
  BY <1>1 DEF NoPid
<1>2. CASE Quit(s)
  BY <1>2 DEF Quit
<1>3. CASE Check(s)
  BY <1>3 DEF Check
<1>4. CASE Sigterm(s)
  BY <1>4 DEF Sigterm, Kill
<1>5. CASE CheckTerm(s)
  BY <1>5 DEF CheckTerm
<1>6. CASE Sigkill(s)
  BY <1>6 DEF Sigkill, Kill
<1>7. CASE CheckKill(s)
  BY <1>7 DEF CheckKill
<1> QED BY <1>1, <1>2, <1>3, <1>4, <1>5, <1>6, <1>7 DEF StopScenario

LEMMA StopStepInv == StopInv /\ [Next]_vars => StopInv'
<1> SUFFICES ASSUME StopInv, [Next]_vars PROVE GoneInv' /\ OrderInv'
  BY StartStep DEF StopInv
<1>0. TypeOK
  BY DEF StopInv, StartInv, TypeInv
<1> USE <1>0 DEF StopInv
<1>1. ASSUME NEW s \in Scenario, PrepareSkips(s) \/ PrepareFails(s) \/ Prepare(s)
      PROVE  GoneInv' /\ OrderInv'
  <2>1. /\ phase = "prepare" /\ phase' \in {"prepare", "validate"}
        /\ UNCHANGED <<config, pids, sipp, stop>> /\ dScenarios' \subseteq Scenario
    BY <1>1, LoopStep DEF PrepareSkips, PrepareFails, Prepare, TypeOK, dicts
  <2> QED BY <2>1 DEF GoneInv, Gone, OrderInv, AllReturned, TypeOK
<1>2. ASSUME NEW s \in Scenario,
             Register(s) \/ RegisterFails(s) \/ Start(s) \/ StartFails(s)
      PROVE  GoneInv' /\ OrderInv'
  <2>1. /\ phase \in {"register", "start"}
        /\ phase' \in {"register", "start", "run", "exited"}
        /\ UNCHANGED <<config, dScenarios, stop>>
    BY <1>2, LoopStep DEF Register, RegisterFails, Start, StartFails, TypeOK, dicts
  <2> QED BY <2>1 DEF GoneInv, OrderInv, AllReturned
<1>3. ASSUME NEW s \in Scenario, Unregister(s) PROVE GoneInv' /\ OrderInv'
  <2>1. /\ phase = "unregister" /\ phase' \in {"unregister", "done"}
        /\ UNCHANGED <<config, dScenarios, sipp, stop>>
    BY <1>3, LoopStep DEF Unregister, TypeOK, dicts
  <2> QED BY <2>1 DEF GoneInv, Gone, OrderInv, AllReturned
<1>4. CASE Validate \/ ExitEarly \/ Run \/ ChangeRate
  BY <1>4 DEF Validate, ExitEarly, Run, ChangeRate, dicts, GoneInv, Gone, OrderInv,
              AllReturned
<1>5. CASE Terminated
  <2>1. /\ phase \in {"clients", "servers"}
        /\ phase' = IF phase = "clients" THEN "servers" ELSE "unregister"
        /\ UNCHANGED <<config, dScenarios, sipp, stop>>
    BY <1>5 DEF Terminated, dicts
  <2>2. AllReturned(IF phase = "clients" THEN "client" ELSE "server")
    BY <1>5 DEF Terminated, Stopping, AllReturned
  <2> QED BY <2>1, <2>2 DEF GoneInv, Gone, OrderInv, AllReturned
<1>6. ASSUME NEW s \in Scenario, StopScenario(s) PROVE GoneInv' /\ OrderInv'
  <2>1. GoneInv'
    BY <1>6, CoroutineStep DEF GoneInv, Gone
  <2>2. CASE phase = "clients"
    <3>1. ~AllReturned("client") /\ config[s].type # "server"
      BY <1>6, <2>2, CoroutineStep DEF Stopping, AllReturned
    <3>2. \A t \in dScenarios' : config'[t].type = "server" => stop'[t] = "none"
      BY <1>6, <3>1, CoroutineStep DEF OrderInv, TypeOK
    <3> QED BY <1>6, <2>1, <2>2, <3>2, CoroutineStep DEF OrderInv
  <2>3. CASE phase = "servers"
    <3>1. AllReturned("client") /\ config[s].type # "client"
      BY <1>6, <2>3, CoroutineStep DEF Stopping, OrderInv
    <3>2. AllReturned("client")'
      BY <1>6, <3>1, CoroutineStep DEF AllReturned, TypeOK
    <3> QED BY <1>6, <2>1, <2>3, <3>2, CoroutineStep DEF OrderInv
  <2> QED BY <1>6, <2>2, <2>3, CoroutineStep
<1>7. ASSUME NEW s \in Scenario, Ends(s) PROVE GoneInv' /\ OrderInv'
  BY <1>7 DEF Ends, dicts, GoneInv, Gone, OrderInv, AllReturned, TypeOK
<1>8. CASE UNCHANGED vars
  BY <1>8 DEF vars, dicts, GoneInv, Gone, OrderInv, AllReturned
<1> QED BY <1>1, <1>2, <1>3, <1>4, <1>5, <1>6, <1>7, <1>8 DEF Next, MainNext, Main

LEMMA StopInvariant == Spec => []StopInv
BY StopInitially, StopStepInv, PTL DEF Spec

\* No server is told to stop before every client has ended or has been sent SIGKILL
\* (sippscen.py:447-450).
THEOREM ClientsStopBeforeServers == Spec => []ClientsStopFirst
<1>1. StopInv => ClientsStopFirst
  <2> SUFFICES ASSUME StopInv, NEW s \in dScenarios, NEW c \in dScenarios,
                      config[s].type = "server", stop[s] # "none",
                      config[c].type = "client"
               PROVE  Gone(c)
    BY DEF ClientsStopFirst, Gone
  <2>1. stop[c] = "returned" /\ c \in Scenario
    BY DEF StopInv, StartInv, TypeInv, TypeOK, OrderInv, AllReturned
  <2> QED BY <2>1 DEF StopInv, GoneInv
<1> QED BY <1>1, StopInvariant, PTL

\* Nothing is unregistered before every process has ended or has been sent SIGKILL
\* (sippscen.py:447-461).
THEOREM StoppedWhenUnregistering == Spec => []StoppedBeforeUnregistering
<1>1. StopInv => StoppedBeforeUnregistering
  <2> SUFFICES ASSUME StopInv, phase \in {"unregister", "done"}, NEW s \in pids
               PROVE  sipp[s] \in {"ended", "kill"}
    BY DEF StoppedBeforeUnregistering
  <2>1. TypeOK /\ s \in dScenarios /\ s \in Scenario
    BY DEF StopInv, StartInv, TypeInv, TypeOK
  <2>2. config[s].type \in {"client", "server"}
    BY <2>1, OrchestratorAssumption DEF TypeOK
  <2>3. stop[s] = "returned"
    BY <2>1, <2>2 DEF StopInv, OrderInv, AllReturned
  <2> QED BY <2>1, <2>3 DEF StopInv, GoneInv, Gone, TypeOK
<1> QED BY <1>1, StopInvariant, PTL

=============================================================================
