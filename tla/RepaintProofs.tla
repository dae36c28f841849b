--------------------------- MODULE RepaintProofs ---------------------------
(***************************************************************************)
(* A number that was shown is shown again as long as the rows it rests on  *)
(* are there: NeverRepaints of IndicatorService, for every series, number  *)
(* of bars and window. The facts about lists, and that what is shown was   *)
(* computed from some number of rows, are those of SeriesProofs.           *)
(***************************************************************************)
EXTENDS SeriesProofs

(***************************************************************************)
(* Series that grow                                                        *)
(***************************************************************************)
(* A list of n places, and one of m that begins like it.                   *)
Grows(s, t, n, m) == s \in Lists(n) /\ t \in Lists(m) /\ \A i \in 1..n : s[i] = t[i]

(* Each operator of BarSeries carries growing lists to growing lists.      *)
LEMMA GrownFacts ==
  ASSUME NEW n \in Nat, NEW m \in Nat, NEW s, NEW t, Grows(s, t, n, m)
  PROVE  /\ s \in Lists(n) /\ t \in Lists(m)
         /\ Len(s) = n /\ Len(t) = m /\ DOMAIN s = 1..n /\ DOMAIN t = 1..m
         /\ \A i \in 1..n : s[i] = t[i]
BY ListFacts DEF Grows

LEMMA SpanGrows ==
  ASSUME NEW n \in Nat, NEW m \in Nat, NEW s, NEW t, Grows(s, t, n, m),
         NEW a \in Nat \ {0}, NEW b \in 1..n
  PROVE  Base!Span(s, a, b) = Base!Span(t, a, b)
<1>1. \A i \in a..b : s[i] = t[i]
  BY DEF Grows
<1>2. {s[i] : i \in a..b} = {t[i] : i \in a..b}
  BY <1>1
<1>3. s[b] = t[b]
  BY DEF Grows
<1> QED BY <1>2, <1>3 DEF Base!Span

LEMMA ColumnGrows ==
  ASSUME NEW n \in Nat, NEW m \in Nat, n <= m
  PROVE  Grows(Base!Column(n), Base!Column(m), n, m)
<1>1. \A i \in 1..n : i \in 1..m
  OBVIOUS
<1> QED BY <1>1, ColumnList DEF Grows

LEMMA ZipGrows ==
  ASSUME NEW n \in Nat, NEW m \in Nat, n <= m,
         NEW s, NEW t, Grows(s, t, n, m), NEW r, NEW u, Grows(r, u, n, m)
  PROVE  Grows(Base!Zip(s, r), Base!Zip(t, u), n, m)
<1>1. s \in Lists(n) /\ t \in Lists(m) /\ r \in Lists(n) /\ u \in Lists(m)
  BY DEF Grows
<1>2. /\ Base!Zip(s, r) \in Lists(n) /\ Base!Zip(t, u) \in Lists(m)
      /\ \A i \in 1..n : Base!Zip(s, r)[i] = Base!Joint({s[i], r[i]})
      /\ \A i \in 1..m : Base!Zip(t, u)[i] = Base!Joint({t[i], u[i]})
  BY <1>1, ZipEven
<1>3. ASSUME NEW i \in 1..n PROVE Base!Zip(s, r)[i] = Base!Zip(t, u)[i]
  <2>1. s[i] = t[i] /\ r[i] = u[i] /\ i \in 1..m
    BY DEF Grows
  <2> QED BY <1>2, <2>1
<1> QED BY <1>2, <1>3 DEF Grows

LEMMA RollingGrows ==
  ASSUME NEW n \in Nat, NEW m \in Nat, n <= m, NEW s, NEW t, Grows(s, t, n, m),
         NEW w \in Nat \ {0}
  PROVE  Grows(Base!Rolling(s, w), Base!Rolling(t, w), n, m)
<1>1. s \in Lists(n) /\ t \in Lists(m)
  BY DEF Grows
<1>2. Base!Rolling(s, w) \in Lists(n) /\ Base!Rolling(t, w) \in Lists(m)
  BY <1>1, RollingList
<1>3. ASSUME NEW i \in 1..n PROVE Base!Rolling(s, w)[i] = Base!Rolling(t, w)[i]
  <2>1. i \in 1..m
    OBVIOUS
  <2>2. CASE i < w
    BY <1>1, <2>1, <2>2, RollingList
  <2>3. CASE i >= w
    <3>1. /\ Base!Rolling(s, w)[i] = Base!Span(s, i - w + 1, i)
          /\ Base!Rolling(t, w)[i] = Base!Span(t, i - w + 1, i)
      BY <1>1, <2>1, <2>3, RollingList
    <3>2. i - w + 1 \in Nat \ {0}
      BY <2>3
    <3> QED BY <3>1, <3>2, SpanGrows
  <2> QED BY <2>2, <2>3
<1> QED BY <1>2, <1>3 DEF Grows

LEMMA BlankGrows ==
  ASSUME NEW n \in Nat, NEW m \in Nat, n <= m, NEW s, NEW t, Grows(s, t, n, m), NEW k \in Int
  PROVE  /\ Grows(Base!Blank(s, k), Base!Blank(t, k), n, m)
         /\ Grows(Base!Zeros(s, k), Base!Zeros(t, k), n, m)
<1>1. s \in Lists(n) /\ t \in Lists(m)
  BY DEF Grows
<1>2. /\ Base!Blank(s, k) \in Lists(n) /\ Base!Blank(t, k) \in Lists(m)
      /\ Base!Zeros(s, k) \in Lists(n) /\ Base!Zeros(t, k) \in Lists(m)
  BY <1>1, BlankList, ZerosList
<1>3. ASSUME NEW i \in 1..n
      PROVE  Base!Blank(s, k)[i] = Base!Blank(t, k)[i] /\ Base!Zeros(s, k)[i] = Base!Zeros(t, k)[i]
  <2>1. s[i] = t[i] /\ i \in 1..m
    BY DEF Grows
  <2>2. Base!Blank(s, k)[i] = Base!Blank(t, k)[i]
    BY <1>1, <2>1, BlankList, SMTT(30)
  <2>3. Base!Zeros(s, k)[i] = Base!Zeros(t, k)[i]
    BY <1>1, <2>1, ZerosList, SMTT(30)
  <2> QED BY <2>2, <2>3
<1> QED BY <1>2, <1>3 DEF Grows

LEMMA BeforeGrows ==
  ASSUME NEW n \in Nat, NEW m \in Nat, n <= m, NEW s, NEW t, Grows(s, t, n, m), NEW k \in Nat
  PROVE  Grows(Base!Before(s, k), Base!Before(t, k), n, m)
<1>1. s \in Lists(n) /\ t \in Lists(m)
  BY DEF Grows
<1>2. Base!Before(s, k) \in Lists(n) /\ Base!Before(t, k) \in Lists(m)
  BY <1>1, BeforeList
<1>3. ASSUME NEW i \in 1..n PROVE Base!Before(s, k)[i] = Base!Before(t, k)[i]
  <2>1. i \in 1..m
    OBVIOUS
  <2>2. CASE i <= k
    BY <1>1, <2>1, <2>2, BeforeList
  <2>3. CASE i > k
    <3>1. i - k \in 1..n
      BY <2>3
    <3>2. s[i - k] = t[i - k]
      BY <3>1 DEF Grows
    <3> QED BY <1>1, <2>1, <2>3, <3>2, BeforeList
  <2> QED BY <2>2, <2>3
<1> QED BY <1>2, <1>3 DEF Grows

LEMMA ChangesGrow ==
  ASSUME NEW n \in Nat, NEW m \in Nat, n <= m, NEW s, NEW t, Grows(s, t, n + 1, m + 1)
  PROVE  Grows(Base!Changes(s), Base!Changes(t), n, m)
<1>1. /\ s \in Lists(n + 1) /\ t \in Lists(m + 1) /\ n + 1 \in Nat /\ m + 1 \in Nat
      /\ n = (IF n + 1 = 0 THEN 0 ELSE n + 1 - 1) /\ m = (IF m + 1 = 0 THEN 0 ELSE m + 1 - 1)
  BY DEF Grows
<1>2. /\ Base!Changes(s) \in Lists(n) /\ \A i \in 1..n : Base!Changes(s)[i] = Base!Span(s, i, i + 1)
      /\ Base!Changes(t) \in Lists(m) /\ \A i \in 1..m : Base!Changes(t)[i] = Base!Span(t, i, i + 1)
  <2> DEFINE k == n + 1
             l == m + 1
  <2> HIDE DEF k, l
  <2>1. /\ s \in Lists(k) /\ t \in Lists(l) /\ k \in Nat /\ l \in Nat
        /\ n = (IF k = 0 THEN 0 ELSE k - 1) /\ m = (IF l = 0 THEN 0 ELSE l - 1)
    BY <1>1 DEF k, l
  <2> QED BY <2>1, ChangesList
<1>3. ASSUME NEW i \in 1..n PROVE Base!Changes(s)[i] = Base!Changes(t)[i]
  <2>1. i \in 1..m /\ i \in Nat \ {0} /\ i + 1 \in 1..(n + 1)
    OBVIOUS
  <2>2. Base!Span(s, i, i + 1) = Base!Span(t, i, i + 1)
    BY <1>1, <2>1, SpanGrows
  <2> QED BY <1>2, <2>1, <2>2
<1> QED BY <1>2, <1>3 DEF Grows

LEMMA AheadGrows ==
  ASSUME NEW n \in Nat, NEW m \in Nat, n <= m, NEW s, NEW t, Grows(s, t, n, m), NEW v \in Entries
  PROVE  Grows(<<v>> \o s, <<v>> \o t, n + 1, m + 1)
<1> DEFINE a == <<v>> \o s
           b == <<v>> \o t
<1>1. /\ a \in Lists(n + 1) /\ a[1] = v /\ \A i \in 1..n : a[i + 1] = s[i]
      /\ b \in Lists(m + 1) /\ b[1] = v /\ \A i \in 1..m : b[i + 1] = t[i]
  BY AheadList DEF Grows
<1> HIDE DEF a, b
<1>2. ASSUME NEW i \in 1..(n + 1) PROVE a[i] = b[i]
  <2>1. CASE i = 1
    BY <1>1, <2>1
  <2>2. CASE i # 1
    <3>1. i - 1 \in 1..n /\ i - 1 \in 1..m /\ (i - 1) + 1 = i
      BY <2>2
    <3>2. a[(i - 1) + 1] = s[i - 1] /\ b[(i - 1) + 1] = t[i - 1]
      BY <1>1, <3>1
    <3>3. s[i - 1] = t[i - 1]
      BY <3>1 DEF Grows
    <3> QED BY <3>1, <3>2, <3>3
  <2> QED BY <2>1, <2>2
<1>3. Grows(a, b, n + 1, m + 1)
  BY <1>1, <1>2 DEF Grows
<1> QED BY <1>3 DEF a, b

LEMMA EwmGrows ==
  ASSUME NEW n \in Nat, NEW m \in Nat, n <= m, NEW s, NEW t, Grows(s, t, n, m)
  PROVE  Grows(Base!Ewm(s), Base!Ewm(t), n, m)
<1> DEFINE There(l) == {i \in 1..Len(l) : l[i] # None}
           Entry(l, i) == IF There(l) \cap (1..i) = {} THEN None
                          ELSE Base!Span(l, Base!Min(There(l)), i)
<1>1. s \in Lists(n) /\ t \in Lists(m) /\ Len(s) = n /\ Len(t) = m
  BY DEF Grows, Lists
<1>2. ASSUME NEW k \in Nat, NEW l \in Lists(k)
      PROVE  \A i \in 1..k : Base!Ewm(l)[i] = Entry(l, i)
  <2>1. Len(l) = k
    BY DEF Lists
  <2>2. Base!Ewm(l) = [i \in 1..(IF k < 1 THEN 0 ELSE k - 1 + 1) |-> Entry(l, 1 + i - 1)]
    BY <2>1 DEF Base!Ewm, Base!Pick, Base!Each
  <2> HIDE DEF Entry
  <2>3. (IF k < 1 THEN 0 ELSE k - 1 + 1) = k /\ \A i \in 1..k : 1 + i - 1 = i
    OBVIOUS
  <2> QED BY <2>2, <2>3
<1>3. There(s) \in SUBSET (0..n) /\ There(t) \in SUBSET (0..m)
  BY <1>1
<1>4. \A i \in 1..n : i \in There(s) <=> i \in There(t)
  BY <1>1 DEF Grows
<1>5. /\ Base!Min(There(s)) = Least(There(s)) /\ Base!Min(There(t)) = Least(There(t))
      /\ There(s) \subseteq 1..n /\ There(t) \subseteq 1..m
  BY <1>1 DEF Base!Min, Least
<1> DEFINE S == There(s)
           T == There(t)
<1> HIDE DEF There, S, T
<1>6. ASSUME NEW i \in 1..n PROVE Entry(s, i) = Entry(t, i)
  <2>1. S \cap (1..i) = T \cap (1..i)
    BY <1>4 DEF S, T
  <2>2. CASE S \cap (1..i) = {}
    BY <2>1, <2>2 DEF S, T
  <2>3. CASE S \cap (1..i) # {}
    <3>1. PICK x \in 1..i : x \in S /\ x \in T
      BY <2>1, <2>3
    <3>2. Least(S) \in S /\ \A y \in S : Least(S) <= y
      BY <1>3, <3>1, LeastExists DEF S
    <3>3. Least(T) \in T /\ \A y \in T : Least(T) <= y
      BY <1>3, <3>1, LeastExists DEF T
    <3>4. S \subseteq 1..n /\ T \subseteq 1..m /\ \A j \in 1..n : j \in S <=> j \in T
      BY <1>4, <1>5 DEF S, T
    <3>5. Least(S) \in 1..n /\ Least(T) \in 1..m /\ Least(T) <= x
      BY <3>1, <3>2, <3>3, <3>4
    <3>6. Least(T) \in 1..n
      BY <3>1, <3>5
    <3>7. Least(S) \in T /\ Least(T) \in S
      BY <3>2, <3>3, <3>4, <3>5, <3>6
    <3>8. Least(S) = Least(T)
      BY <3>2, <3>3, <3>5, <3>7
    <3>9. Base!Span(s, Least(S), i) = Base!Span(t, Least(S), i)
      BY <3>5, SpanGrows
    <3> QED BY <1>5, <2>1, <2>3, <3>8, <3>9 DEF S, T
  <2> QED BY <2>2, <2>3
<1> HIDE DEF Entry
<1>7. ASSUME NEW i \in 1..n PROVE Base!Ewm(s)[i] = Base!Ewm(t)[i]
  <2>1. i \in 1..m
    OBVIOUS
  <2>2. Base!Ewm(s)[i] = Entry(s, i) /\ Base!Ewm(t)[i] = Entry(t, i)
    BY <1>1, <1>2, <2>1
  <2> QED BY <1>6, <2>2
<1>8. Base!Ewm(s) \in Lists(n) /\ Base!Ewm(t) \in Lists(m)
  BY <1>1, EwmList
<1> QED BY <1>7, <1>8 DEF Grows

(* The columns that every indicator starts from.                           *)
LEMMA RangesGrow ==
  ASSUME NEW n \in Nat \ {0}, NEW m \in Nat, n <= m
  PROVE  /\ Grows(Base!Column(n), Base!Column(m), n, m)
         /\ Grows(Base!Diff(n), Base!Diff(m), n, m)
         /\ Grows(Base!TrueRange(n), Base!TrueRange(m), n, m)
         /\ Grows(Base!Atr(n), Base!Atr(m), n, m)
         /\ Grows(Base!Adx(n), Base!Adx(m), n, m)
<1> DEFINE k == n - 1
           l == m - 1
           s == Base!Changes(Base!Column(n))
           t == Base!Changes(Base!Column(m))
<1>1. k \in Nat /\ l \in Nat /\ k <= l /\ k + 1 = n /\ l + 1 = m
  OBVIOUS
<1>2. Grows(Base!Column(n), Base!Column(m), n, m)
  BY ColumnGrows
<1> HIDE DEF k, l
<1>3. Grows(s, t, k, l)
  BY <1>1, <1>2, ChangesGrow
<1> HIDE DEF s, t
<1>4. None \in Entries /\ Base!Column(n)[1] \in Entries /\ Base!Column(n)[1] = Base!Column(m)[1]
  <2>1. 1 \in 1..n /\ n \in Nat
    OBVIOUS
  <2> QED BY <1>2, <2>1, GrownFacts, ListFacts DEF Entries
<1>5. Grows(<<None>> \o s, <<None>> \o t, n, m)
  BY <1>1, <1>3, <1>4, AheadGrows
<1>6. Grows(<<Base!Column(n)[1]>> \o s, <<Base!Column(m)[1]>> \o t, n, m)
  BY <1>1, <1>3, <1>4, AheadGrows
<1>7. Grows(Base!Diff(n), Base!Diff(m), n, m)
  BY <1>5 DEF Base!Diff, s, t
<1>8. Grows(Base!TrueRange(n), Base!TrueRange(m), n, m)
  BY <1>6 DEF Base!TrueRange, s, t
<1>9. Grows(Base!Atr(n), Base!Atr(m), n, m)
  BY <1>8, EwmGrows DEF Base!Atr
<1>10. Grows(Base!Ewm(Base!Diff(n)), Base!Ewm(Base!Diff(m)), n, m)
  BY <1>7, EwmGrows
<1>11. Grows(Base!Adx(n), Base!Adx(m), n, m)
  BY <1>9, <1>10, ZipGrows, EwmGrows DEF Base!Adx
<1> QED BY <1>2, <1>7, <1>8, <1>9, <1>11

(***************************************************************************)
(* Layer 0's indicators, the features and the strategies grow              *)
(***************************************************************************)
(* No number given before is another one now.                              *)
Alike(s, t, n) == \A i \in (1..n) \cap DOMAIN s \cap DOMAIN t : s[i] = t[i]

Unchanged(before, now, n) ==
  \A f \in DOMAIN before \cap DOMAIN now : Alike(before[f], now[f], n)

LEMMA GrownAlike ==
  ASSUME NEW n, NEW m, NEW s, NEW t, Grows(s, t, n, m)
  PROVE  Alike(s, t, n)
BY DEF Grows, Alike

LEMMA OneUnchanged ==
  ASSUME NEW n \in Nat, NEW m \in Nat, NEW s, NEW t, Grows(s, t, n, m)
  PROVE  Unchanged([values |-> s], [values |-> t], n)
BY GrownAlike DEF Unchanged

LEMMA ResearchRest ==
  /\ \A s, k : Research!Before(s, k) = Base!Before(s, k)
  /\ \A s, a, b : Research!Span(s, a, b) = Base!Span(s, a, b)
  /\ \A vs : Research!Joint(vs) = Base!Joint(vs)
<1>1. \A s, k : Research!Before(s, k) = Base!Before(s, k)
  BY DEF Research!Before, Base!Before, Research!Pick, Base!Pick, Research!Each, Base!Each
<1>2. \A s, a, b : Research!Span(s, a, b) = Base!Span(s, a, b)
  BY DEF Research!Span, Base!Span
<1>3. \A vs : Research!Joint(vs) = Base!Joint(vs)
  BY DEF Research!Joint, Base!Joint
<1> QED BY <1>1, <1>2, <1>3

LEMMA SumsGrow ==
  ASSUME NEW n \in Nat, NEW m \in Nat, n <= m, NEW s, NEW t, Grows(s, t, n, m),
         NEW x, x = [i \in 1..n |-> Base!Span(s, 1, i)],
         NEW y, y = [i \in 1..m |-> Base!Span(t, 1, i)]
  PROVE  Grows(x, y, n, m)
<1>1. s \in Lists(n) /\ t \in Lists(m)
  BY DEF Grows
<1>2. \A i \in 1..n : Base!Span(s, 1, i) \in Entries
  <2> SUFFICES ASSUME NEW i \in 1..n PROVE Base!Span(s, 1, i) \in Entries
    OBVIOUS
  <2>1. 1 \in 1..n /\ i \in 1..n
    OBVIOUS
  <2> QED BY <1>1, <2>1, SpanFacts
<1>3. \A i \in 1..m : Base!Span(t, 1, i) \in Entries
  <2> SUFFICES ASSUME NEW i \in 1..m PROVE Base!Span(t, 1, i) \in Entries
    OBVIOUS
  <2>1. 1 \in 1..m /\ i \in 1..m
    OBVIOUS
  <2> QED BY <1>1, <2>1, SpanFacts
<1>4. x \in Lists(n) /\ y \in Lists(m)
  BY <1>2, <1>3, AList
<1>5. \A i \in 1..n : x[i] = y[i]
  <2> SUFFICES ASSUME NEW i \in 1..n PROVE x[i] = y[i]
    OBVIOUS
  <2>1. Base!Span(s, 1, i) = Base!Span(t, 1, i)
    BY SpanGrows
  <2> QED BY <2>1
<1> QED BY <1>4, <1>5 DEF Grows

(* A loop over all bars.                                                   *)
LEMMA Picked ==
  ASSUME NEW n \in Nat
  PROVE  (IF n < 1 THEN 0 ELSE n - 1 + 1) = n /\ \A i \in 1..n : 1 + i - 1 = i
OBVIOUS

LEMMA VwapGrows ==
  ASSUME NEW n \in Nat \ {0}, NEW m \in Nat, n <= m
  PROVE  /\ Grows(Research!Vwap(n), Research!Vwap(m), n, m)
         /\ Grows(Research!Supertrend(n), Research!Supertrend(m), n, m)
<1>1. ASSUME NEW k \in Nat
      PROVE  Research!Vwap(k) = [i \in 1..k |-> Base!Span(Base!Column(k), 1, i)]
  <2>1. Research!Vwap(k) = [i \in 1..(IF k < 1 THEN 0 ELSE k - 1 + 1) |->
                              Research!Span(Research!Column(k), 1, 1 + i - 1)]
    BY DEF Research!Vwap, Research!Pick, Research!Each
  <2> QED BY <2>1, Picked, ResearchBase, ResearchRest
<1> DEFINE Band(k) == Base!Zip(Base!Column(k), Base!Atr(k))
<1>2. ASSUME NEW k \in Nat
      PROVE  Research!Supertrend(k) = [i \in 1..k |-> Base!Span(Band(k), 1, i)]
  <2>1. Research!Supertrend(k) = [i \in 1..(IF k < 1 THEN 0 ELSE k - 1 + 1) |->
          Research!Span(Research!Zip(Research!Column(k), Research!Atr(k)), 1, 1 + i - 1)]
    BY DEF Research!Supertrend, Research!Pick, Research!Each
  <2> QED BY <2>1, Picked, ResearchBase, ResearchRest
<1>3. Grows(Base!Column(n), Base!Column(m), n, m) /\ Grows(Base!Atr(n), Base!Atr(m), n, m)
  BY RangesGrow
<1>4. Grows(Band(n), Band(m), n, m)
  BY <1>3, ZipGrows
<1> HIDE DEF Band
<1> QED BY <1>1, <1>2, <1>3, <1>4, SumsGrow, SMTT(30)

LEMMA ChannelsGrow ==
  ASSUME NEW n \in Nat \ {0}, NEW m \in Nat, n <= m, NEW p \in Nat \ {0}
  PROVE  /\ Grows(Research!Column(n), Research!Column(m), n, m)
         /\ Grows(Research!Ema(Research!Column(n)), Research!Ema(Research!Column(m)), n, m)
         /\ Grows(Research!Atr(n), Research!Atr(m), n, m)
         /\ Grows(Research!Adx(n), Research!Adx(m), n, m)
         /\ Grows(Research!Donchian(n, p), Research!Donchian(m, p), n, m)
         /\ Grows(Research!Bollinger(n, p), Research!Bollinger(m, p), n, m)
         /\ Grows(Research!Rsi(n), Research!Rsi(m), n, m)
<1>0. n \in Nat
  OBVIOUS
<1> DEFINE c == Base!Column(n)
           d == Base!Column(m)
<1>1. /\ Grows(c, d, n, m) /\ Grows(Base!Atr(n), Base!Atr(m), n, m)
      /\ Grows(Base!Adx(n), Base!Adx(m), n, m)
      /\ Grows(Base!TrueRange(n), Base!TrueRange(m), n, m)
  BY RangesGrow
<1> HIDE DEF c, d
<1>2. Grows(Base!Ewm(c), Base!Ewm(d), n, m)
  BY <1>0, <1>1, EwmGrows
<1>3. Grows(Base!Rolling(c, p), Base!Rolling(d, p), n, m)
  BY <1>0, <1>1, RollingGrows
<1>4. Grows(Base!Zip(Base!Rolling(c, p), Base!Rolling(c, p)),
            Base!Zip(Base!Rolling(d, p), Base!Rolling(d, p)), n, m)
  BY <1>0, <1>3, ZipGrows
<1>5. Grows(Base!Ewm(Base!TrueRange(n)), Base!Ewm(Base!TrueRange(m)), n, m)
  BY <1>0, <1>1, EwmGrows
<1>6. Grows(Base!Blank(Base!Ewm(Base!TrueRange(n)), 1),
            Base!Blank(Base!Ewm(Base!TrueRange(m)), 1), n, m)
  BY <1>0, <1>5, BlankGrows
<1>7. /\ Research!Ema(Research!Column(n)) = Base!Ewm(c)
      /\ Research!Ema(Research!Column(m)) = Base!Ewm(d)
  BY ResearchBase DEF Research!Ema, c, d
<1>8. /\ Research!Donchian(n, p) = Base!Rolling(c, p)
      /\ Research!Donchian(m, p) = Base!Rolling(d, p)
  BY ResearchBase DEF Research!Donchian, c, d
<1>9. /\ Research!Bollinger(n, p) = Base!Zip(Base!Rolling(c, p), Base!Rolling(c, p))
      /\ Research!Bollinger(m, p) = Base!Zip(Base!Rolling(d, p), Base!Rolling(d, p))
  BY ResearchBase DEF Research!Bollinger, Research!Sma, c, d
<1>10. /\ Research!Rsi(n) = Base!Blank(Base!Ewm(Base!TrueRange(n)), 1)
       /\ Research!Rsi(m) = Base!Blank(Base!Ewm(Base!TrueRange(m)), 1)
  BY ResearchBase DEF Research!Rsi
<1> QED BY <1>1, <1>2, <1>3, <1>4, <1>6, <1>7, <1>8, <1>9, <1>10, ResearchBase DEF c, d

(* What is put together from growing lists grows.                          *)
LEMMA ResearchGrown ==
  ASSUME NEW n \in Nat, NEW m \in Nat, n <= m, NEW s, NEW t, Grows(s, t, n, m)
  PROVE  /\ \A r, u : Grows(r, u, n, m) => Grows(Research!Zip(s, r), Research!Zip(t, u), n, m)
         /\ Grows(Research!Ewm(s), Research!Ewm(t), n, m)
         /\ \A w \in Nat \ {0} : Grows(Research!Rolling(s, w), Research!Rolling(t, w), n, m)
         /\ \A k \in Int : Grows(Research!Blank(s, k), Research!Blank(t, k), n, m)
         /\ \A k \in Nat : Grows(Research!Before(s, k), Research!Before(t, k), n, m)
<1>1. \A r, u : Grows(r, u, n, m) => Grows(Research!Zip(s, r), Research!Zip(t, u), n, m)
  BY ZipGrows, ResearchBase
<1>2. Grows(Research!Ewm(s), Research!Ewm(t), n, m)
  BY EwmGrows, ResearchBase
<1>3. \A w \in Nat \ {0} : Grows(Research!Rolling(s, w), Research!Rolling(t, w), n, m)
  BY RollingGrows, ResearchBase
<1>4. \A k \in Int : Grows(Research!Blank(s, k), Research!Blank(t, k), n, m)
  BY BlankGrows, ResearchBase
<1>5. \A k \in Nat : Grows(Research!Before(s, k), Research!Before(t, k), n, m)
  BY BeforeGrows, ResearchRest
<1> QED BY <1>1, <1>2, <1>3, <1>4, <1>5

LEMMA ChannelFeaturesGrow ==
  ASSUME NEW n \in Nat \ {0}, NEW m \in Nat, n <= m, NEW p \in Nat \ {0}
  PROVE  /\ Grows(Research!Zscore(Research!Column(n), p), Research!Zscore(Research!Column(m), p), n, m)
         /\ Grows(Research!WilliamsR(n, p), Research!WilliamsR(m, p), n, m)
         /\ Grows(Research!Cci(n, p), Research!Cci(m, p), n, m)
         /\ Grows(Research!Keltner(n), Research!Keltner(m), n, m)
         /\ Grows(Research!Chandelier(n, p), Research!Chandelier(m, p), n, m)
         /\ Grows(Research!VolumeProfile(n, p), Research!VolumeProfile(m, p), n, m)
         /\ Grows(Research!VolatilityContraction(n, p), Research!VolatilityContraction(m, p), n, m)
<1>0. n \in Nat
  OBVIOUS
<1>1. /\ Grows(Research!Column(n), Research!Column(m), n, m)
      /\ Grows(Research!Ema(Research!Column(n)), Research!Ema(Research!Column(m)), n, m)
      /\ Grows(Research!Atr(n), Research!Atr(m), n, m)
  BY ChannelsGrow
<1>2. Grows(Research!Rolling(Research!Column(n), p), Research!Rolling(Research!Column(m), p), n, m)
  BY <1>0, <1>1, ResearchGrown
<1>3. Grows(Research!Zscore(Research!Column(n), p), Research!Zscore(Research!Column(m), p), n, m)
  BY <1>0, <1>1, <1>2, ResearchGrown DEF Research!Zscore
<1>4. Grows(Research!WilliamsR(n, p), Research!WilliamsR(m, p), n, m)
  BY <1>0, <1>1, <1>2, ResearchGrown DEF Research!WilliamsR
<1>5. Grows(Research!Cci(n, p), Research!Cci(m, p), n, m)
  BY <1>3 DEF Research!Cci
<1>6. Grows(Research!Keltner(n), Research!Keltner(m), n, m)
  BY <1>0, <1>1, ResearchGrown DEF Research!Keltner
<1>7. Grows(Research!Chandelier(n, p), Research!Chandelier(m, p), n, m)
  BY <1>0, <1>1, <1>2, ResearchGrown DEF Research!Chandelier
<1>8. Grows(Research!VolumeProfile(n, p), Research!VolumeProfile(m, p), n, m)
  BY <1>0, <1>2, VwapGrows, ResearchGrown DEF Research!VolumeProfile
<1>9. Grows(Research!VolatilityContraction(n, p), Research!VolatilityContraction(m, p), n, m)
  <2> DEFINE Share(k) == Research!Zip(Research!Rolling(Research!Atr(k), p), Research!Column(k))
  <2>1. Grows(Research!Rolling(Research!Atr(n), p), Research!Rolling(Research!Atr(m), p), n, m)
    BY <1>0, <1>1, ResearchGrown
  <2>2. Grows(Share(n), Share(m), n, m)
    BY <1>0, <1>1, <2>1, ResearchGrown
  <2>3. Grows(Research!Rolling(Share(n), p), Research!Rolling(Share(m), p), n, m)
    <3> HIDE DEF Share
    <3> QED BY <1>0, <2>2, ResearchGrown
  <2>4. Grows(Research!Zip(Research!Atr(n), Research!Column(n)),
              Research!Zip(Research!Atr(m), Research!Column(m)), n, m)
    BY <1>0, <1>1, ResearchGrown
  <2>5. \A k : Research!VolatilityContraction(k, p)
               = Research!Zip(Research!Zip(Research!Atr(k), Research!Column(k)),
                              Research!Rolling(Share(k), p))
    BY DEF Research!VolatilityContraction
  <2> HIDE DEF Share
  <2> QED BY <1>0, <2>3, <2>4, <2>5, ResearchGrown
<1> QED BY <1>3, <1>4, <1>5, <1>6, <1>7, <1>8, <1>9

(* A bar of the slower timeframe that a bar sees was there when it came.   *)
LEMMA DailyGrows ==
  ASSUME NEW n \in Nat \ {0}, NEW m \in Nat, n <= m, NEW q \in Nat \ {0}
  PROVE  Unchanged([values |-> Research!AlignDaily(n, q)], [values |-> Research!AlignDaily(m, q)], n)
<1> DEFINE Bar(j) == [of |-> ((j - 1) * q + 1)..(j * q), on |-> 1..(j * q)]
           Seen(i) == IF (i - 1) \div q < 1 THEN None ELSE Bar((i - 1) \div q)
<1>1. ASSUME NEW k \in Nat
      PROVE  Research!AlignDaily(k, q) = [i \in 1..k |-> Seen(i)]
  <2> DEFINE slow == Research!Slower(k, q)
             c == k \div q
  <2>1. c \in Nat /\ q * c <= k
    OBVIOUS
  <2>2. slow = [j \in 1..c |-> Bar(j)]
    <3>1. slow = [j \in 1..(IF c < 1 THEN 0 ELSE c - 1 + 1) |-> Bar(1 + j - 1)]
      BY DEF Research!Slower, Research!Pick, Research!Each
    <3> HIDE DEF c, Bar
    <3> QED BY <2>1, <3>1, Picked
  <2>3. Len(slow) = c
    <3> HIDE DEF c, Bar, slow
    <3> QED BY <2>1, <2>2
  <2>4. ASSUME NEW i \in 1..k
        PROVE  Research!LastUpTo(slow, (i - 1) \div q) = Seen(i)
    <3> DEFINE j == (i - 1) \div q
    <3>1. j \in Nat /\ j <= c
      <4>1. i - 1 \in Nat /\ i - 1 <= k
        OBVIOUS
      <4> QED BY <4>1
    <3>2. CASE j < 1
      BY <3>2 DEF Research!LastUpTo
    <3>3. CASE ~(j < 1)
      <4>1. c >= 1 /\ j \in 1..c
        BY <2>1, <3>1, <3>3
      <4>2. Research!Min({j, c}) = j
        <5>1. Base!Min({j, c}) = j
          <6> HIDE DEF j, c
          <6> QED BY <2>1, <3>1, LessOfTwo
        <5>2. Research!Min({j, c}) = Base!Min({j, c})
          BY DEF Research!Min, Base!Min
        <5> QED BY <5>1, <5>2
      <4>3. slow # << >>
        <5> HIDE DEF slow, c
        <5> QED BY <2>3, <4>1
      <4>4. Research!LastUpTo(slow, j) = slow[j]
        <5> HIDE DEF slow, c, j
        <5> QED BY <2>3, <3>3, <4>2, <4>3 DEF Research!LastUpTo
      <4>5. slow[j] = Bar(j)
        <5> HIDE DEF slow, c, j, Bar
        <5> QED BY <2>2, <4>1
      <4> QED BY <3>3, <4>4, <4>5
    <3> QED BY <3>2, <3>3
  <2>5. Research!AlignDaily(k, q) = [i \in 1..(IF k < 1 THEN 0 ELSE k - 1 + 1) |->
          Research!LastUpTo(slow, (1 + i - 1 - 1) \div q)]
    BY DEF Research!AlignDaily, Research!Pick, Research!Each
  <2> HIDE DEF slow, c, Seen
  <2>6. Research!AlignDaily(k, q) = [i \in 1..k |-> Research!LastUpTo(slow, (i - 1) \div q)]
    BY <2>5, Picked
  <2> QED BY <2>4, <2>6
<1> HIDE DEF Seen
<1>2. /\ Research!AlignDaily(n, q) = [i \in 1..n |-> Seen(i)]
      /\ Research!AlignDaily(m, q) = [i \in 1..m |-> Seen(i)]
  BY <1>1
<1> QED BY <1>2 DEF Unchanged, Alike

(* MACD, the stochastic lines and the features as stored.                  *)
LEMMA SlowLinesGrow ==
  ASSUME NEW n \in Nat \ {0}, NEW m \in Nat, n <= m, NEW p \in Nat \ {0}, NEW q \in Nat \ {0}
  PROVE  /\ Unchanged(Research!Macd(n), Research!Macd(m), n)
         /\ Grows(Research!Stochastic(n, p, q).k, Research!Stochastic(m, p, q).k, n, m)
         /\ Grows(Research!Stochastic(n, p, q).d, Research!Stochastic(m, p, q).d, n, m)
         /\ Unchanged(Research!Stochastic(n, p, q), Research!Stochastic(m, p, q), n)
<1>0. n \in Nat
  OBVIOUS
<1> DEFINE Line(k) == Research!Zip(Research!Ema(Research!Column(k)), Research!Ema(Research!Column(k)))
<1>1. /\ Grows(Research!Column(n), Research!Column(m), n, m)
      /\ Grows(Research!Ema(Research!Column(n)), Research!Ema(Research!Column(m)), n, m)
  BY ChannelsGrow
<1>2. Grows(Line(n), Line(m), n, m)
  BY <1>0, <1>1, ResearchGrown
<1>3. \A k : Research!Macd(k) = [macd |-> Line(k), signal |-> Research!Ewm(Line(k)),
                                  histogram |-> Research!Zip(Line(k), Research!Ewm(Line(k)))]
  BY DEF Research!Macd, Research!Ema
<1> HIDE DEF Line
<1>4. Grows(Research!Ewm(Line(n)), Research!Ewm(Line(m)), n, m)
  BY <1>0, <1>2, ResearchGrown
<1>5. Grows(Research!Zip(Line(n), Research!Ewm(Line(n))),
            Research!Zip(Line(m), Research!Ewm(Line(m))), n, m)
  BY <1>0, <1>2, <1>4, ResearchGrown
<1>6. Unchanged(Research!Macd(n), Research!Macd(m), n)
  BY <1>2, <1>3, <1>4, <1>5, GrownAlike DEF Unchanged
<1> DEFINE Fast(k) == Research!Rolling(Research!Column(k), p)
<1>7. Grows(Fast(n), Fast(m), n, m)
  BY <1>0, <1>1, ResearchGrown
<1>8. \A k : Research!Stochastic(k, p, q) = [k |-> Fast(k), d |-> Research!Rolling(Fast(k), q)]
  BY DEF Research!Stochastic
<1> HIDE DEF Fast
<1>9. Grows(Research!Rolling(Fast(n), q), Research!Rolling(Fast(m), q), n, m)
  BY <1>0, <1>7, ResearchGrown
<1>10. /\ Grows(Research!Stochastic(n, p, q).k, Research!Stochastic(m, p, q).k, n, m)
       /\ Grows(Research!Stochastic(n, p, q).d, Research!Stochastic(m, p, q).d, n, m)
  BY <1>7, <1>8, <1>9
<1>11. Unchanged(Research!Stochastic(n, p, q), Research!Stochastic(m, p, q), n)
  BY <1>7, <1>8, <1>9, GrownAlike DEF Unchanged
<1> QED BY <1>6, <1>10, <1>11

LEMMA FeaturesGrow ==
  ASSUME NEW n \in Nat \ {0}, NEW m \in Nat, n <= m, NEW p \in Nat \ {0}, NEW q \in Nat \ {0}
  PROVE  /\ DOMAIN Base!ComputeFeatures(n, p, q) = DOMAIN Base!ComputeFeatures(m, p, q)
         /\ \A f \in DOMAIN Base!ComputeFeatures(n, p, q) :
              Grows(Base!ComputeFeatures(n, p, q)[f], Base!ComputeFeatures(m, p, q)[f], n, m)
<1>0. n \in Nat /\ p - 1 \in Int /\ 2 * p - 1 \in Int
  OBVIOUS
<1>1. /\ Grows(Base!Column(n), Base!Column(m), n, m) /\ Grows(Base!Diff(n), Base!Diff(m), n, m)
      /\ Grows(Base!Atr(n), Base!Atr(m), n, m) /\ Grows(Base!Adx(n), Base!Adx(m), n, m)
  BY RangesGrow
<1>2. Grows(Base!Blank(Base!Atr(n), p - 1), Base!Blank(Base!Atr(m), p - 1), n, m)
  BY <1>0, <1>1, BlankGrows
<1>3. Grows(Base!Blank(Base!Adx(n), 2 * p - 1), Base!Blank(Base!Adx(m), 2 * p - 1), n, m)
  BY <1>0, <1>1, BlankGrows
<1>4. Grows(Base!Rolling(Base!Column(n), q), Base!Rolling(Base!Column(m), q), n, m)
  BY <1>0, <1>1, RollingGrows
<1>5. Grows(Base!Zip(Base!Column(n), Base!Rolling(Base!Column(n), q)),
            Base!Zip(Base!Column(m), Base!Rolling(Base!Column(m), q)), n, m)
  BY <1>0, <1>1, <1>4, ZipGrows
<1>6. Grows(Base!Rolling(Base!Diff(n), q), Base!Rolling(Base!Diff(m), q), n, m)
  BY <1>0, <1>1, RollingGrows
<1> QED BY <1>1, <1>2, <1>3, <1>5, <1>6 DEF Base!ComputeFeatures

LEMMA ResearchFeaturesGrow ==
  ASSUME NEW n \in Nat \ {0}, NEW m \in Nat, n <= m, NEW p \in Nat \ {0}, NEW q \in Nat \ {0}
  PROVE  Unchanged(Research!ComputeFeatures(n, p, q), Research!ComputeFeatures(m, p, q), n)
BY FeaturesGrow, ResearchFeatures, GrownAlike DEF Unchanged

FeatureIndicators ==
  {"features", "bollinger", "rsi", "stochastic", "donchian", "macd", "zscore", "vwap",
   "williams_r", "cci", "keltner", "chandelier", "supertrend", "vci", "profile", "swing",
   "daily", "four_hour"}

LEMMA FeatureSeriesGrow ==
  ASSUME NEW n \in Nat \ {0}, NEW m \in Nat, n <= m, NEW r,
         r.indicator \in FeatureIndicators \ {"swing", "four_hour"},
         r.p \in Nat \ {0}, r.q \in Nat \ {0}
  PROVE  Unchanged(FeatureSeries(r, n), FeatureSeries(r, m), n)
<1> DEFINE p == r.p
           q == r.q
<1>0. n \in Nat /\ p \in Nat \ {0} /\ q \in Nat \ {0}
  OBVIOUS
<1>1. ASSUME NEW s, NEW t, Grows(s, t, n, m)
      PROVE  Unchanged([values |-> s], [values |-> t], n)
  BY <1>0, <1>1, OneUnchanged
<1> HIDE DEF p, q
<1>2. CASE r.indicator = "features"
  <2>1. \A k : FeatureSeries(r, k) = Research!ComputeFeatures(k, p, q)
    BY <1>2 DEF FeatureSeries, p, q
  <2> QED BY <1>0, <2>1, ResearchFeaturesGrow
<1>3. CASE r.indicator = "stochastic"
  <2>1. \A k : FeatureSeries(r, k) = Research!Stochastic(k, p, q)
    BY <1>3 DEF FeatureSeries, p, q
  <2> QED BY <1>0, <2>1, SlowLinesGrow
<1>4. CASE r.indicator = "macd"
  <2>1. \A k : FeatureSeries(r, k) = Research!Macd(k)
    BY <1>4 DEF FeatureSeries
  <2> QED BY <1>0, <2>1, SlowLinesGrow
<1>5. CASE r.indicator = "daily"
  <2>1. \A k : FeatureSeries(r, k) = [values |-> Research!AlignDaily(k, q)]
    BY <1>5 DEF FeatureSeries, q
  <2> QED BY <1>0, <2>1, DailyGrows
<1>6. CASE r.indicator \in {"bollinger", "rsi", "donchian"}
  <2>1. /\ Grows(Research!Donchian(n, p), Research!Donchian(m, p), n, m)
        /\ Grows(Research!Bollinger(n, p), Research!Bollinger(m, p), n, m)
        /\ Grows(Research!Rsi(n), Research!Rsi(m), n, m)
    BY <1>0, ChannelsGrow
  <2>2. \A k : FeatureSeries(r, k) =
           [values |-> CASE r.indicator = "bollinger" -> Research!Bollinger(k, p)
                         [] r.indicator = "rsi"       -> Research!Rsi(k)
                         [] r.indicator = "donchian"  -> Research!Donchian(k, p)]
    BY <1>6 DEF FeatureSeries, p
  <2> QED BY <1>1, <1>6, <2>1, <2>2
<1>7. CASE r.indicator \in {"vwap", "supertrend"}
  <2>1. \A k : FeatureSeries(r, k) =
           [values |-> IF r.indicator = "vwap" THEN Research!Vwap(k) ELSE Research!Supertrend(k)]
    BY <1>7 DEF FeatureSeries
  <2> QED BY <1>1, <1>7, <2>1, VwapGrows
<1>8. CASE r.indicator \in {"zscore", "williams_r", "cci", "keltner"}
  <2>1. /\ Grows(Research!Zscore(Research!Column(n), p), Research!Zscore(Research!Column(m), p), n, m)
        /\ Grows(Research!WilliamsR(n, p), Research!WilliamsR(m, p), n, m)
        /\ Grows(Research!Cci(n, p), Research!Cci(m, p), n, m)
        /\ Grows(Research!Keltner(n), Research!Keltner(m), n, m)
    BY <1>0, ChannelFeaturesGrow
  <2>2. \A k : FeatureSeries(r, k) =
           [values |-> CASE r.indicator = "zscore"     -> Research!Zscore(Research!Column(k), p)
                         [] r.indicator = "williams_r" -> Research!WilliamsR(k, p)
                         [] r.indicator = "cci"        -> Research!Cci(k, p)
                         [] r.indicator = "keltner"    -> Research!Keltner(k)]
    BY <1>8 DEF FeatureSeries, p
  <2> QED BY <1>1, <1>8, <2>1, <2>2
<1>9. CASE r.indicator \in {"chandelier", "vci", "profile"}
  <2>1. /\ Grows(Research!Chandelier(n, p), Research!Chandelier(m, p), n, m)
        /\ Grows(Research!VolumeProfile(n, p), Research!VolumeProfile(m, p), n, m)
        /\ Grows(Research!VolatilityContraction(n, p), Research!VolatilityContraction(m, p), n, m)
    BY <1>0, ChannelFeaturesGrow
  <2>2. \A k : FeatureSeries(r, k) =
           [values |-> CASE r.indicator = "chandelier" -> Research!Chandelier(k, p)
                         [] r.indicator = "vci"        -> Research!VolatilityContraction(k, p)
                         [] r.indicator = "profile"    -> Research!VolumeProfile(k, p)]
    BY <1>9 DEF FeatureSeries, p
  <2> QED BY <1>1, <1>9, <2>1, <2>2
<1> QED BY <1>2, <1>3, <1>4, <1>5, <1>6, <1>7, <1>8, <1>9 DEF FeatureIndicators

(* What decides a signal of a strategy: one condition and not another, and *)
(* the swings, breakouts and squeezes of the bars before.                  *)
LEMMA UnlessGrows ==
  ASSUME NEW n \in Nat, NEW m \in Nat, n <= m,
         NEW s, NEW t, Grows(s, t, n, m), NEW r, NEW u, Grows(r, u, n, m)
  PROVE  Grows(Research!Unless(s, r), Research!Unless(t, u), n, m)
<1> DEFINE Entry(a, b, i) == IF b[i] = None THEN a[i] ELSE Base!Joint({a[i], b[i]})
<1>1. ASSUME NEW k \in Nat, NEW a \in Lists(k), NEW b \in Lists(k)
      PROVE  /\ Research!Unless(a, b) = [i \in 1..k |-> Entry(a, b, i)]
             /\ Research!Unless(a, b) \in Lists(k)
  <2>1. Len(a) = k
    BY DEF Lists
  <2>2. Research!Unless(a, b) = [i \in 1..(IF k < 1 THEN 0 ELSE k - 1 + 1) |-> Entry(a, b, 1 + i - 1)]
    BY <2>1, ResearchRest DEF Research!Unless, Research!Pick, Research!Each
  <2>3. ASSUME NEW i \in 1..k PROVE Entry(a, b, i) \in Entries
    <3>1. a[i] \in Entries /\ b[i] \in Entries
      BY ListFacts
    <3> QED BY <3>1, JointFacts
  <2> HIDE DEF Entry
  <2>4. Research!Unless(a, b) = [i \in 1..k |-> Entry(a, b, i)]
    BY <2>2, Picked
  <2> QED BY <2>3, <2>4, AList
<1>2. \A i \in 1..n : s[i] = t[i] /\ r[i] = u[i]
  BY DEF Grows
<1>3. \A i \in 1..n : Entry(s, r, i) = Entry(t, u, i)
  BY <1>2
<1>4. s \in Lists(n) /\ r \in Lists(n) /\ t \in Lists(m) /\ u \in Lists(m)
  BY DEF Grows
<1> HIDE DEF Entry
<1>5. \A i \in 1..n : i \in 1..m
  OBVIOUS
<1> QED BY <1>1, <1>3, <1>4, <1>5 DEF Grows

LEMMA RecentlyGrows ==
  ASSUME NEW n \in Nat, NEW m \in Nat, n <= m, NEW s, NEW t, Grows(s, t, n, m),
         NEW w \in Nat \ {0}
  PROVE  Grows(Research!Recently(s, w), Research!Recently(t, w), n, m)
<1> DEFINE Known(a, i) == {a[j] : j \in {k \in (i - w + 1)..i : k >= 1}} \ {None}
           Entry(a, i) == IF i < w \/ Known(a, i) = {} THEN None ELSE Base!Joint(Known(a, i))
<1>1. ASSUME NEW k \in Nat, NEW a \in Lists(k)
      PROVE  /\ Research!Recently(a, w) = [i \in 1..k |-> Entry(a, i)]
             /\ Research!Recently(a, w) \in Lists(k)
  <2>1. Len(a) = k
    BY DEF Lists
  <2>2. Research!Recently(a, w) = [i \in 1..(IF k < 1 THEN 0 ELSE k - 1 + 1) |-> Entry(a, 1 + i - 1)]
    BY <2>1, ResearchRest DEF Research!Recently, Research!Pick, Research!Each
  <2>3. ASSUME NEW i \in 1..k PROVE Entry(a, i) \in Entries
    <3>1. \A j \in {x \in (i - w + 1)..i : x >= 1} : j \in 1..k
      OBVIOUS
    <3>2. Known(a, i) \in SUBSET Entries
      BY <3>1, ListFacts
    <3> HIDE DEF Known
    <3>3. Base!Joint(Known(a, i)) \in Entries
      BY <3>2, JointFacts
    <3> QED BY <3>3 DEF Entries
  <2> HIDE DEF Entry
  <2>4. Research!Recently(a, w) = [i \in 1..k |-> Entry(a, i)]
    BY <2>2, Picked
  <2> QED BY <2>3, <2>4, AList
<1>2. ASSUME NEW i \in 1..n PROVE Known(s, i) = Known(t, i)
  <2>1. \A j \in {x \in (i - w + 1)..i : x >= 1} : j \in 1..n
    OBVIOUS
  <2>2. \A j \in {x \in (i - w + 1)..i : x >= 1} : s[j] = t[j]
    BY <2>1 DEF Grows
  <2> QED BY <2>2
<1>3. \A i \in 1..n : Entry(s, i) = Entry(t, i)
  BY <1>2
<1>4. s \in Lists(n) /\ t \in Lists(m)
  BY DEF Grows
<1> HIDE DEF Entry
<1>5. \A i \in 1..n : i \in 1..m
  OBVIOUS
<1> QED BY <1>1, <1>3, <1>4, <1>5 DEF Grows

LEMMA LevelsGrow ==
  ASSUME NEW n \in Nat, NEW m \in Nat, n <= m, NEW p \in Nat \ {0}, NEW q \in Nat \ {0}
  PROVE  Grows(Research!FindLevels(n, p, q), Research!FindLevels(m, p, q), n, m)
<1> DEFINE Entry(i) == IF i <= p \/ p < 2 * q + 1 THEN None
                       ELSE [of |-> {i}, on |-> (i - p)..(i - 1)]
<1>1. ASSUME NEW k \in Nat
      PROVE  /\ Research!FindLevels(k, p, q) = [i \in 1..k |-> Entry(i)]
             /\ Research!FindLevels(k, p, q) \in Lists(k)
  <2>1. Research!FindLevels(k, p, q) = [i \in 1..(IF k < 1 THEN 0 ELSE k - 1 + 1) |-> Entry(1 + i - 1)]
    BY DEF Research!FindLevels, Research!Pick, Research!Each
  <2>2. ASSUME NEW i \in 1..k PROVE Entry(i) \in Entries
    <3>1. CASE i <= p
      BY <3>1 DEF Entries
    <3>2. CASE i > p
      <4>1. (i - p)..(i - 1) \in SUBSET Nat /\ {i} \in SUBSET Nat
        BY <3>2
      <4> QED BY <4>1 DEF Entries, Figures
    <3> QED BY <3>1, <3>2
  <2> HIDE DEF Entry
  <2>3. Research!FindLevels(k, p, q) = [i \in 1..k |-> Entry(i)]
    BY <2>1, Picked
  <2> QED BY <2>2, <2>3, AList
<1> HIDE DEF Entry
<1>2. \A i \in 1..n : i \in 1..m
  OBVIOUS
<1> QED BY <1>1, <1>2 DEF Grows

(* The parts of the strategies' conditions.                                *)
LEMMA ConditionsGrow ==
  ASSUME NEW n \in Nat, NEW m \in Nat, n <= m, NEW s, NEW t, Grows(s, t, n, m)
  PROVE  /\ \A r, u : Grows(r, u, n, m) => Grows(Research!Both(s, r), Research!Both(t, u), n, m)
         /\ \A r, u, x, y : Grows(r, u, n, m) /\ Grows(x, y, n, m) =>
              Grows(Research!All3(s, r, x), Research!All3(t, u, y), n, m)
         /\ \A w \in Nat \ {0} : Grows(Research!Width(s, w), Research!Width(t, w), n, m)
         /\ Grows(Research!Crosses(s), Research!Crosses(t), n, m)
         /\ Grows(Research!Before(s, 1), Research!Before(t, 1), n, m)
<1>1. \A r, u : Grows(r, u, n, m) => Grows(Research!Zip(s, r), Research!Zip(t, u), n, m)
  BY ResearchGrown
<1>2. ASSUME NEW r, NEW u, Grows(r, u, n, m), NEW x, NEW y, Grows(x, y, n, m)
      PROVE  Grows(Research!Zip(s, Research!Zip(r, x)), Research!Zip(t, Research!Zip(u, y)), n, m)
  <2>1. Grows(Research!Zip(r, x), Research!Zip(u, y), n, m)
    BY <1>2, ResearchGrown
  <2> QED BY <1>1, <2>1
<1>3. \A w \in Nat \ {0} : Grows(Research!Rolling(s, w), Research!Rolling(t, w), n, m)
  BY ResearchGrown
<1>4. Grows(Research!Before(s, 1), Research!Before(t, 1), n, m)
  BY ResearchGrown
<1> QED BY <1>1, <1>2, <1>3, <1>4 DEF Research!Both, Research!All3, Research!Width, Research!Crosses

(* What the strategies share.                                              *)
LEMMA BreakoutsGrow ==
  ASSUME NEW n \in Nat \ {0}, NEW m \in Nat, n <= m, NEW p \in Nat \ {0}, NEW q \in Nat \ {0}
  PROVE  /\ Grows(Research!Breakout(n, p), Research!Breakout(m, p), n, m)
         /\ Grows(Research!TrendUp(n), Research!TrendUp(m), n, m)
         /\ Grows(Research!StochasticK(n, p, q), Research!StochasticK(m, p, q), n, m)
         /\ Grows(Research!RecentSqueeze(n, p), Research!RecentSqueeze(m, p), n, m)
<1>0. n \in Nat /\ RecentWindow \in Nat \ {0}
  BY SeriesAssumption
<1>1. /\ Grows(Research!Column(n), Research!Column(m), n, m)
      /\ Grows(Research!Ema(Research!Column(n)), Research!Ema(Research!Column(m)), n, m)
      /\ Grows(Research!Atr(n), Research!Atr(m), n, m)
      /\ Grows(Research!Donchian(n, p), Research!Donchian(m, p), n, m)
  BY ChannelsGrow
<1>2. Grows(Research!Breakout(n, p), Research!Breakout(m, p), n, m)
  <2>1. Grows(Research!Before(Research!Donchian(n, p), 1), Research!Before(Research!Donchian(m, p), 1), n, m)
    BY <1>0, <1>1, ConditionsGrow
  <2> QED BY <1>0, <1>1, <2>1, ConditionsGrow DEF Research!Breakout
<1>3. Grows(Research!TrendUp(n), Research!TrendUp(m), n, m)
  BY <1>0, <1>1, ConditionsGrow DEF Research!TrendUp
<1>4. Grows(Research!StochasticK(n, p, q), Research!StochasticK(m, p, q), n, m)
  <2>1. Grows(Research!Stochastic(n, p, q).k, Research!Stochastic(m, p, q).k, n, m)
    BY SlowLinesGrow
  <2> QED BY <1>0, <2>1, ResearchGrown DEF Research!StochasticK
<1>5. Grows(Research!RecentSqueeze(n, p), Research!RecentSqueeze(m, p), n, m)
  <2> DEFINE Share(k) == Research!Both(Research!Atr(k), Research!Column(k))
             Wide(k)  == Research!Both(Research!Donchian(k, p), Research!Column(k))
  <2>1. Grows(Share(n), Share(m), n, m) /\ Grows(Wide(n), Wide(m), n, m)
    BY <1>0, <1>1, ConditionsGrow
  <2>2. \A k : Research!FullSqueeze(k, p)
               = Research!Both(Research!Width(Share(k), p), Research!Width(Wide(k), p))
    BY DEF Research!FullSqueeze
  <2> HIDE DEF Share, Wide
  <2>3. /\ Grows(Research!Width(Share(n), p), Research!Width(Share(m), p), n, m)
        /\ Grows(Research!Width(Wide(n), p), Research!Width(Wide(m), p), n, m)
    BY <1>0, <2>1, ConditionsGrow
  <2>4. Grows(Research!FullSqueeze(n, p), Research!FullSqueeze(m, p), n, m)
    BY <1>0, <2>2, <2>3, ConditionsGrow
  <2>5. Grows(Research!Recently(Research!FullSqueeze(n, p), RecentWindow),
              Research!Recently(Research!FullSqueeze(m, p), RecentWindow), n, m)
    BY <1>0, <2>4, RecentlyGrows
  <2> QED BY <1>0, <2>5, ConditionsGrow DEF Research!RecentSqueeze
<1> QED BY <1>2, <1>3, <1>4, <1>5

LEMMA TrendsGrow ==
  ASSUME NEW n \in Nat \ {0}, NEW m \in Nat, n <= m, NEW p \in Nat \ {0}
  PROVE  /\ Grows(Research!TrendEmaAdx(n), Research!TrendEmaAdx(m), n, m)
         /\ Grows(Research!TrendDonchian(n, p), Research!TrendDonchian(m, p), n, m)
         /\ Grows(Research!TrendDonchianVCP(n, p), Research!TrendDonchianVCP(m, p), n, m)
<1>0. n \in Nat /\ RecentWindow \in Nat \ {0} /\ SqueezeWindow \in Nat \ {0} /\ 1 \in Nat \ {0}
  BY SeriesAssumption
<1>1. /\ Grows(Research!Ema(Research!Column(n)), Research!Ema(Research!Column(m)), n, m)
      /\ Grows(Research!Adx(n), Research!Adx(m), n, m)
      /\ Grows(Research!Donchian(n, p), Research!Donchian(m, p), n, m)
      /\ Grows(Research!Breakout(n, p), Research!Breakout(m, p), n, m)
  BY <1>0, ChannelsGrow, BreakoutsGrow
<1>2. Grows(Research!TrendEmaAdx(n), Research!TrendEmaAdx(m), n, m)
  <2> DEFINE Alignment(k) == Research!Both(Research!Ema(Research!Column(k)), Research!Ema(Research!Column(k)))
  <2>1. Grows(Alignment(n), Alignment(m), n, m)
    BY <1>0, <1>1, ConditionsGrow
  <2>2. \A k : Research!TrendEmaAdx(k) = Research!Both(Research!Crosses(Alignment(k)), Research!Adx(k))
    BY DEF Research!TrendEmaAdx
  <2> HIDE DEF Alignment
  <2>3. Grows(Research!Crosses(Alignment(n)), Research!Crosses(Alignment(m)), n, m)
    BY <1>0, <2>1, ConditionsGrow
  <2> QED BY <1>0, <1>1, <2>2, <2>3, ConditionsGrow
<1>3. Grows(Research!Width(Research!Donchian(n, p), SqueezeWindow),
            Research!Width(Research!Donchian(m, p), SqueezeWindow), n, m)
  BY <1>0, <1>1, ConditionsGrow
<1>4. Grows(Research!TrendDonchian(n, p), Research!TrendDonchian(m, p), n, m)
  <2>1. Grows(Research!Both(Research!Breakout(n, p), Research!Adx(n)),
              Research!Both(Research!Breakout(m, p), Research!Adx(m)), n, m)
    BY <1>0, <1>1, ConditionsGrow
  <2> QED BY <1>0, <1>3, <2>1, UnlessGrows DEF Research!TrendDonchian
<1>5. Grows(Research!TrendDonchianVCP(n, p), Research!TrendDonchianVCP(m, p), n, m)
  <2> DEFINE Squeeze(k) ==
        Research!Recently(Research!Width(Research!Donchian(k, p), SqueezeWindow), RecentWindow)
  <2>1. Grows(Squeeze(n), Squeeze(m), n, m)
    BY <1>0, <1>3, RecentlyGrows
  <2>2. \A k : Research!TrendDonchianVCP(k, p)
               = Research!All3(Research!Breakout(k, p), Research!Before(Squeeze(k), 1), Research!Adx(k))
    BY DEF Research!TrendDonchianVCP
  <2> HIDE DEF Squeeze
  <2>3. Grows(Research!Before(Squeeze(n), 1), Research!Before(Squeeze(m), 1), n, m)
    BY <1>0, <2>1, ConditionsGrow
  <2> QED BY <1>0, <1>1, <2>2, <2>3, ConditionsGrow
<1> QED BY <1>2, <1>4, <1>5

LEMMA SidewaysGrow ==
  ASSUME NEW n \in Nat \ {0}, NEW m \in Nat, n <= m, NEW p \in Nat \ {0}, NEW q \in Nat \ {0}
  PROVE  /\ Grows(Research!RangeBollinger(n, p), Research!RangeBollinger(m, p), n, m)
         /\ Grows(Research!RangeStochastic(n, p, q), Research!RangeStochastic(m, p, q), n, m)
         /\ Grows(Research!SupportResistance(n, p, q), Research!SupportResistance(m, p, q), n, m)
         /\ Grows(Research!SupportResistanceBreakout(n, p, q),
                  Research!SupportResistanceBreakout(m, p, q), n, m)
<1>0. n \in Nat /\ SqueezeWindow \in Nat \ {0}
  BY SeriesAssumption
<1>1. /\ Grows(Research!Column(n), Research!Column(m), n, m)
      /\ Grows(Research!Atr(n), Research!Atr(m), n, m)
      /\ Grows(Research!Bollinger(n, p), Research!Bollinger(m, p), n, m)
      /\ Grows(Research!Rsi(n), Research!Rsi(m), n, m)
      /\ Grows(Research!StochasticK(n, p, q), Research!StochasticK(m, p, q), n, m)
      /\ Grows(Research!Stochastic(n, p, q).d, Research!Stochastic(m, p, q).d, n, m)
      /\ Grows(Research!FindLevels(n, p, q), Research!FindLevels(m, p, q), n, m)
  BY <1>0, ChannelsGrow, BreakoutsGrow, SlowLinesGrow, LevelsGrow
<1>2. Grows(Research!RangeBollinger(n, p), Research!RangeBollinger(m, p), n, m)
  <2> DEFINE Touch(k) == Research!Both(Research!Column(k), Research!Bollinger(k, p))
             Filter(k) == Research!Width(Research!Bollinger(k, p), SqueezeWindow)
  <2>1. Grows(Touch(n), Touch(m), n, m) /\ Grows(Filter(n), Filter(m), n, m)
    BY <1>0, <1>1, ConditionsGrow
  <2>2. \A k : Research!RangeBollinger(k, p)
               = Research!Both(Research!Unless(Research!Both(Touch(k), Research!Rsi(k)), Filter(k)),
                               Research!Before(Touch(k), 1))
    BY DEF Research!RangeBollinger
  <2> HIDE DEF Touch, Filter
  <2>3. /\ Grows(Research!Both(Touch(n), Research!Rsi(n)), Research!Both(Touch(m), Research!Rsi(m)), n, m)
        /\ Grows(Research!Before(Touch(n), 1), Research!Before(Touch(m), 1), n, m)
    BY <1>0, <1>1, <2>1, ConditionsGrow
  <2>4. Grows(Research!Unless(Research!Both(Touch(n), Research!Rsi(n)), Filter(n)),
              Research!Unless(Research!Both(Touch(m), Research!Rsi(m)), Filter(m)), n, m)
    BY <1>0, <2>1, <2>3, UnlessGrows
  <2> QED BY <1>0, <2>2, <2>3, <2>4, ConditionsGrow
<1>3. Grows(Research!RangeStochastic(n, p, q), Research!RangeStochastic(m, p, q), n, m)
  <2>1. Grows(Research!Crosses(Research!StochasticK(n, p, q)),
              Research!Crosses(Research!StochasticK(m, p, q)), n, m)
    BY <1>0, <1>1, ConditionsGrow
  <2> QED BY <1>0, <1>1, <2>1, ConditionsGrow DEF Research!RangeStochastic
<1>4. Grows(Research!SupportResistance(n, p, q), Research!SupportResistance(m, p, q), n, m)
  <2>1. Grows(Research!AtLevel(n, p, q), Research!AtLevel(m, p, q), n, m)
    BY <1>0, <1>1, ConditionsGrow DEF Research!AtLevel
  <2> QED BY <1>0, <1>1, <2>1, ConditionsGrow DEF Research!SupportResistance
<1>5. Grows(Research!SupportResistanceBreakout(n, p, q),
            Research!SupportResistanceBreakout(m, p, q), n, m)
  <2> DEFINE Ago(k)   == Research!Before(Research!FindLevels(k, p, q), 1)
             Above(k) == Research!Both(Research!Column(k), Ago(k))
             Below(k) == Research!Both(Research!Before(Research!Column(k), 1), Ago(k))
  <2>1. /\ Grows(Ago(n), Ago(m), n, m)
        /\ Grows(Research!Before(Research!Column(n), 1), Research!Before(Research!Column(m), 1), n, m)
    BY <1>0, <1>1, ConditionsGrow
  <2>2. \A k : Research!SupportResistanceBreakout(k, p, q)
               = Research!All3(Above(k), Below(k), Research!FindLevels(k, p, q))
    BY DEF Research!SupportResistanceBreakout
  <2> HIDE DEF Ago
  <2>3. Grows(Above(n), Above(m), n, m) /\ Grows(Below(n), Below(m), n, m)
    BY <1>0, <1>1, <2>1, ConditionsGrow
  <2> HIDE DEF Above, Below
  <2> QED BY <1>0, <1>1, <2>2, <2>3, ConditionsGrow
<1> QED BY <1>2, <1>3, <1>4, <1>5

LEMMA ContractionsGrow ==
  ASSUME NEW n \in Nat \ {0}, NEW m \in Nat, n <= m, NEW p \in Nat \ {0}
  PROVE  /\ Grows(Research!VCPBreakout(n, p), Research!VCPBreakout(m, p), n, m)
         /\ Grows(Research!VCPAggressive(n, p), Research!VCPAggressive(m, p), n, m)
<1>0. n \in Nat /\ 1 \in Nat \ {0}
  OBVIOUS
<1>1. /\ Grows(Research!Column(n), Research!Column(m), n, m)
      /\ Grows(Research!Ema(Research!Column(n)), Research!Ema(Research!Column(m)), n, m)
      /\ Grows(Research!Adx(n), Research!Adx(m), n, m)
      /\ Grows(Research!Breakout(n, p), Research!Breakout(m, p), n, m)
      /\ Grows(Research!TrendUp(n), Research!TrendUp(m), n, m)
      /\ Grows(Research!RecentSqueeze(n, p), Research!RecentSqueeze(m, p), n, m)
  BY <1>0, ChannelsGrow, BreakoutsGrow
<1>2. Grows(Research!VCPBreakout(n, p), Research!VCPBreakout(m, p), n, m)
  <2>1. Grows(Research!All3(Research!Breakout(n, p), Research!RecentSqueeze(n, p), Research!TrendUp(n)),
              Research!All3(Research!Breakout(m, p), Research!RecentSqueeze(m, p), Research!TrendUp(m)), n, m)
    BY <1>0, <1>1, ConditionsGrow
  <2> QED BY <1>0, <1>1, <2>1, ConditionsGrow DEF Research!VCPBreakout
<1>3. Grows(Research!VCPAggressive(n, p), Research!VCPAggressive(m, p), n, m)
  <2> DEFINE Side(k) == Research!Both(Research!Column(k), Research!Ema(Research!Column(k)))
             All(k)  == Research!All3(Research!RecentSqueeze(k, p), Research!TrendUp(k),
                                        Research!Crosses(Side(k)))
  <2>1. Grows(Side(n), Side(m), n, m)
    BY <1>0, <1>1, ConditionsGrow
  <2>2. \A k : Research!VCPAggressive(k, p) = Research!Both(All(k), Research!Adx(k))
    BY DEF Research!VCPAggressive
  <2> HIDE DEF Side
  <2>3. Grows(Research!Crosses(Side(n)), Research!Crosses(Side(m)), n, m)
    BY <1>0, <2>1, ConditionsGrow
  <2>4. Grows(All(n), All(m), n, m)
    BY <1>0, <1>1, <2>3, ConditionsGrow
  <2> HIDE DEF All
  <2> QED BY <1>0, <1>1, <2>2, <2>4, ConditionsGrow
<1> QED BY <1>2, <1>3

StrategyNames ==
  {"trend_ema_adx", "trend_donchian", "trend_donchian_vcp", "range_bollinger",
   "range_stochastic", "divergence", "support_resistance", "sr_breakout", "vcp_breakout",
   "vcp_aggressive"}

LEMMA SignalsGrow ==
  ASSUME NEW n \in Nat \ {0}, NEW m \in Nat, n <= m, NEW r,
         r.indicator \in StrategyNames \ {"divergence"}, r.p \in Nat \ {0}, r.q \in Nat \ {0}
  PROVE  Unchanged(Signals(r, n), Signals(r, m), n)
<1> DEFINE p == r.p
           q == r.q
<1>0. n \in Nat /\ p \in Nat \ {0} /\ q \in Nat \ {0}
  OBVIOUS
<1> HIDE DEF p, q
<1>1. CASE r.indicator \in {"trend_ema_adx", "trend_donchian", "trend_donchian_vcp"}
  <2>1. \A k : Signals(r, k) =
           [values |-> CASE r.indicator = "trend_ema_adx"      -> Research!TrendEmaAdx(k)
                         [] r.indicator = "trend_donchian"     -> Research!TrendDonchian(k, p)
                         [] r.indicator = "trend_donchian_vcp" -> Research!TrendDonchianVCP(k, p)]
    BY <1>1 DEF Signals, p
  <2> QED BY <1>0, <1>1, <2>1, OneUnchanged, TrendsGrow
<1>2. CASE r.indicator \in {"range_bollinger", "range_stochastic", "support_resistance", "sr_breakout"}
  <2>1. \A k : Signals(r, k) =
           [values |-> CASE r.indicator = "range_bollinger"    -> Research!RangeBollinger(k, p)
                         [] r.indicator = "range_stochastic"   -> Research!RangeStochastic(k, p, q)
                         [] r.indicator = "support_resistance" -> Research!SupportResistance(k, p, q)
                         [] r.indicator = "sr_breakout"        -> Research!SupportResistanceBreakout(k, p, q)]
    BY <1>2 DEF Signals, p, q
  <2> QED BY <1>0, <1>2, <2>1, OneUnchanged, SidewaysGrow
<1>3. CASE r.indicator \in {"vcp_breakout", "vcp_aggressive"}
  <2>1. \A k : Signals(r, k) =
           [values |-> IF r.indicator = "vcp_breakout" THEN Research!VCPBreakout(k, p)
                       ELSE Research!VCPAggressive(k, p)]
    BY <1>3 DEF Signals, p
  <2> QED BY <1>0, <1>3, <2>1, OneUnchanged, ContractionsGrow
<1> QED BY <1>1, <1>2, <1>3 DEF StrategyNames

(***************************************************************************)
(* The rules grow                                                          *)
(***************************************************************************)
LEMMA CompareGrows ==
  ASSUME NEW n \in Nat, NEW m \in Nat, n <= m,
         NEW s, NEW t, Grows(s, t, n, m), NEW r, NEW u, Grows(r, u, n, m)
  PROVE  Grows(Rules!Compare(s, r), Rules!Compare(t, u), n, m)
<1> DEFINE Entry(a, b, i) == IF None \in {a[i], b[i]} THEN None
                             ELSE [of |-> a[i].of, on |-> a[i].on \cup b[i].on]
<1>1. ASSUME NEW k \in Nat, NEW a \in Lists(k), NEW b \in Lists(k)
      PROVE  /\ Rules!Compare(a, b) = [i \in 1..k |-> Entry(a, b, i)]
             /\ Rules!Compare(a, b) \in Lists(k)
  <2>1. Len(a) = k
    BY DEF Lists
  <2>2. Rules!Compare(a, b) = [i \in 1..(IF k < 1 THEN 0 ELSE k - 1 + 1) |-> Entry(a, b, 1 + i - 1)]
    BY <2>1 DEF Rules!Compare, Rules!Pick, Rules!Each
  <2>3. ASSUME NEW i \in 1..k PROVE Entry(a, b, i) \in Entries
    <3>1. CASE None \in {a[i], b[i]}
      BY <3>1 DEF Entries
    <3>2. CASE None \notin {a[i], b[i]}
      <4>1. a[i] \in Figures /\ b[i] \in Figures
        BY <3>2, ListFacts DEF Entries
      <4> QED BY <3>2, <4>1 DEF Entries, Figures
    <3> QED BY <3>1, <3>2
  <2> HIDE DEF Entry
  <2>4. Rules!Compare(a, b) = [i \in 1..k |-> Entry(a, b, i)]
    BY <2>2, Picked
  <2> QED BY <2>3, <2>4, AList
<1>2. \A i \in 1..n : s[i] = t[i] /\ r[i] = u[i]
  BY DEF Grows
<1>3. \A i \in 1..n : Entry(s, r, i) = Entry(t, u, i)
  BY <1>2
<1>4. s \in Lists(n) /\ r \in Lists(n) /\ t \in Lists(m) /\ u \in Lists(m)
  BY DEF Grows
<1> HIDE DEF Entry
<1>5. \A i \in 1..n : i \in 1..m
  OBVIOUS
<1> QED BY <1>1, <1>3, <1>4, <1>5 DEF Grows

LEMMA AllAnyGrow ==
  ASSUME NEW n \in Nat, NEW m \in Nat, n <= m,
         NEW s, NEW t, Grows(s, t, n, m), NEW r, NEW u, Grows(r, u, n, m)
  PROVE  /\ Alike(Rules!All(<<s, r>>), Rules!All(<<t, u>>), n)
         /\ Alike(Rules!Any(<<s, r>>), Rules!Any(<<t, u>>), n)
<1> DEFINE AllOf(a, b, i) == Base!Joint({a[i], b[i]})
           Known(a, b, i) == {a[i], b[i]} \ {None}
           AnyOf(a, b, i) == IF Known(a, b, i) = {} THEN None ELSE Base!Joint(Known(a, b, i))
<1>1. ASSUME NEW k \in Nat, NEW a \in Lists(k), NEW b
      PROVE  /\ Rules!All(<<a, b>>) = [i \in 1..k |-> AllOf(a, b, i)]
             /\ Rules!Any(<<a, b>>) = [i \in 1..k |-> AnyOf(a, b, i)]
  <2> DEFINE pair == <<a, b>>
             Those(i) == {pair[c][i] : c \in DOMAIN pair}
             Either(i) == IF Those(i) \ {None} = {} THEN None ELSE Base!Joint(Those(i) \ {None})
  <2>1. Len(a) = k /\ pair[1] = a
    BY DEF Lists
  <2>2. Rules!All(pair) = [i \in 1..(IF k < 1 THEN 0 ELSE k - 1 + 1) |-> Base!Joint(Those(1 + i - 1))]
    BY <2>1, RulesBase DEF Rules!All, Rules!Pick, Rules!Each
  <2>3. Rules!Any(pair) = [i \in 1..(IF k < 1 THEN 0 ELSE k - 1 + 1) |-> Either(1 + i - 1)]
    BY <2>1, RulesBase DEF Rules!Any, Rules!Pick, Rules!Each
  <2>4. \A i : Those(i) = {a[i], b[i]}
    BY OfTwo
  <2> HIDE DEF pair, Those
  <2>5. Rules!All(pair) = [i \in 1..k |-> Base!Joint(Those(i))]
    BY <2>2, Picked
  <2>6. Rules!Any(pair) = [i \in 1..k |-> Either(i)]
    <3> HIDE DEF Either
    <3> QED BY <2>3, Picked
  <2>7. Rules!All(pair) = [i \in 1..k |-> AllOf(a, b, i)]
    BY <2>4, <2>5
  <2>8. Rules!Any(pair) = [i \in 1..k |-> AnyOf(a, b, i)]
    BY <2>4, <2>6
  <2> QED BY <2>7, <2>8 DEF pair
<1>2. \A i \in 1..n : s[i] = t[i] /\ r[i] = u[i] /\ i \in 1..m
  BY DEF Grows
<1>3. \A i \in 1..n : AllOf(s, r, i) = AllOf(t, u, i) /\ AnyOf(s, r, i) = AnyOf(t, u, i)
  BY <1>2
<1>4. s \in Lists(n) /\ t \in Lists(m)
  BY DEF Grows
<1> HIDE DEF AllOf, AnyOf
<1>5. /\ Rules!All(<<s, r>>) = [i \in 1..n |-> AllOf(s, r, i)]
      /\ Rules!Any(<<s, r>>) = [i \in 1..n |-> AnyOf(s, r, i)]
      /\ Rules!All(<<t, u>>) = [i \in 1..m |-> AllOf(t, u, i)]
      /\ Rules!Any(<<t, u>>) = [i \in 1..m |-> AnyOf(t, u, i)]
  BY <1>1, <1>4
<1>6. \A i \in 1..n : /\ Rules!All(<<s, r>>)[i] = Rules!All(<<t, u>>)[i]
                     /\ Rules!Any(<<s, r>>)[i] = Rules!Any(<<t, u>>)[i]
  BY <1>2, <1>3, <1>5
<1> QED BY <1>6 DEF Alike

LEMMA RuleRowsGrow ==
  ASSUME NEW n \in Nat \ {0}, NEW m \in Nat, n <= m, NEW key \in Rules!Registry,
         NEW w \in Nat \ {0}, NEW given \in BOOLEAN
  PROVE  /\ Grows(Rules!Rows(key, n, w, given).price, Rules!Rows(key, m, w, given).price, n, m)
         /\ Grows(Rules!Rows(key, n, w, given).value, Rules!Rows(key, m, w, given).value, n, m)
<1> DEFINE warmup == Rules!WarmupPeriod(key, w, given)
           c == Base!Column(n)
           d == Base!Column(m)
           value == Rules!Indicator(key, n, w)
           later == Rules!Indicator(key, m, w)
<1>0. n \in Nat /\ w - 1 \in Int /\ 2 * w - 1 \in Int
  OBVIOUS
<1>1. warmup \in Int
  BY SeriesAssumption DEF Rules!WarmupPeriod
<1>2. Grows(c, d, n, m)
  BY RangesGrow
<1>3. /\ Rules!Rows(key, n, w, given).price = Base!Blank(c, warmup)
      /\ Rules!Rows(key, n, w, given).value = Base!Blank(value, warmup)
      /\ Rules!Rows(key, m, w, given).price = Base!Blank(d, warmup)
      /\ Rules!Rows(key, m, w, given).value = Base!Blank(later, warmup)
  BY RulesBase DEF Rules!Rows
<1> HIDE DEF warmup
<1>4. /\ value = CASE key \in {"BB", "DONCHIAN"} -> Base!Rolling(c, w)
                   [] key \in {"EMA", "RSI"} -> Base!Blank(Base!Ewm(c), w - 1)
                   [] key = "ADX"   -> Base!Zeros(Base!Ewm(c), 2 * w - 1)
                   [] key = "ATR"   -> Base!Zeros(Base!Ewm(c), w - 1)
                   [] key = "STOCH" -> Base!Rolling(Base!Rolling(c, w), SmoothWindow)
      /\ later = CASE key \in {"BB", "DONCHIAN"} -> Base!Rolling(d, w)
                   [] key \in {"EMA", "RSI"} -> Base!Blank(Base!Ewm(d), w - 1)
                   [] key = "ADX"   -> Base!Zeros(Base!Ewm(d), 2 * w - 1)
                   [] key = "ATR"   -> Base!Zeros(Base!Ewm(d), w - 1)
                   [] key = "STOCH" -> Base!Rolling(Base!Rolling(d, w), SmoothWindow)
  BY RulesBase DEF Rules!Indicator, Rules!TaBand, Rules!TaEma, Rules!TaRsi, Rules!TaAdx,
     Rules!TaAtr, Rules!Registry
<1> HIDE DEF c, d, value, later
<1>5. Grows(Base!Ewm(c), Base!Ewm(d), n, m) /\ Grows(Base!Rolling(c, w), Base!Rolling(d, w), n, m)
  BY <1>0, <1>2, EwmGrows, RollingGrows
<1>6. Grows(Base!Rolling(Base!Rolling(c, w), SmoothWindow),
            Base!Rolling(Base!Rolling(d, w), SmoothWindow), n, m)
  BY <1>0, <1>5, RollingGrows, SeriesAssumption
<1>7. /\ Grows(Base!Blank(Base!Ewm(c), w - 1), Base!Blank(Base!Ewm(d), w - 1), n, m)
      /\ Grows(Base!Zeros(Base!Ewm(c), w - 1), Base!Zeros(Base!Ewm(d), w - 1), n, m)
      /\ Grows(Base!Zeros(Base!Ewm(c), 2 * w - 1), Base!Zeros(Base!Ewm(d), 2 * w - 1), n, m)
  BY <1>0, <1>5, BlankGrows
<1>8. Grows(value, later, n, m)
  BY <1>4, <1>5, <1>6, <1>7 DEF Rules!Registry
<1> QED BY <1>0, <1>1, <1>2, <1>3, <1>8, BlankGrows

LEMMA RulesGrow ==
  ASSUME NEW n \in Nat \ {0}, NEW m \in Nat, n <= m, NEW key \in Rules!Registry,
         NEW w \in Nat \ {0}, NEW given \in BOOLEAN
  PROVE  Unchanged(Rules!ProcessStrategy(key, n, w, given), Rules!ProcessStrategy(key, m, w, given), n)
<1> DEFINE Price(k) == Rules!Rows(key, k, w, given).price
           Value(k) == Rules!Rows(key, k, w, given).value
           Above(k) == Rules!Compare(Price(k), Value(k))
           Ago(k)   == Rules!Compare(Value(k), Base!Before(Value(k), 1))
           Cross(k) == Rules!Compare(Above(k), Base!Before(Price(k), 1))
<1>0. n \in Nat
  OBVIOUS
<1>1. \A k : Rules!ProcessStrategy(key, k, w, given) =
        [level |-> Value(k), above |-> Above(k), ago |-> Ago(k), cross |-> Cross(k),
         both |-> Rules!All(<<Value(k), Ago(k)>>), either |-> Rules!Any(<<Value(k), Ago(k)>>)]
  BY RulesBase DEF Rules!ProcessStrategy, Rules!Cross, Rules!Previous
<1>2. Grows(Price(n), Price(m), n, m) /\ Grows(Value(n), Value(m), n, m)
  BY RuleRowsGrow
<1> HIDE DEF Price, Value
<1>3. /\ Grows(Base!Before(Value(n), 1), Base!Before(Value(m), 1), n, m)
      /\ Grows(Base!Before(Price(n), 1), Base!Before(Price(m), 1), n, m)
  BY <1>0, <1>2, BeforeGrows
<1>4. Grows(Above(n), Above(m), n, m) /\ Grows(Ago(n), Ago(m), n, m)
  BY <1>0, <1>2, <1>3, CompareGrows
<1> HIDE DEF Above, Ago
<1>5. Grows(Cross(n), Cross(m), n, m)
  BY <1>0, <1>3, <1>4, CompareGrows
<1> HIDE DEF Cross
<1>6. /\ Alike(Rules!All(<<Value(n), Ago(n)>>), Rules!All(<<Value(m), Ago(m)>>), n)
      /\ Alike(Rules!Any(<<Value(n), Ago(n)>>), Rules!Any(<<Value(m), Ago(m)>>), n)
  BY <1>0, <1>2, <1>4, AllAnyGrow
<1> DEFINE both == Rules!All(<<Value(n), Ago(n)>>)
           both2 == Rules!All(<<Value(m), Ago(m)>>)
           either == Rules!Any(<<Value(n), Ago(n)>>)
           either2 == Rules!Any(<<Value(m), Ago(m)>>)
<1>7. Alike(both, both2, n) /\ Alike(either, either2, n)
  BY <1>6
<1> HIDE DEF both, both2, either, either2
<1>8. /\ Rules!ProcessStrategy(key, n, w, given) =
           [level |-> Value(n), above |-> Above(n), ago |-> Ago(n), cross |-> Cross(n),
            both |-> both, either |-> either]
      /\ Rules!ProcessStrategy(key, m, w, given) =
           [level |-> Value(m), above |-> Above(m), ago |-> Ago(m), cross |-> Cross(m),
            both |-> both2, either |-> either2]
  BY <1>1 DEF both, both2, either, either2
<1> QED BY <1>2, <1>4, <1>5, <1>7, <1>8, GrownAlike DEF Unchanged

(***************************************************************************)
(* Features and labels of the regimes                                      *)
(***************************************************************************)
GrowsAll(a, b, n, m) ==
  DOMAIN a = DOMAIN b /\ \A f \in DOMAIN a : Grows(a[f], b[f], n, m)

LEMMA MarketGrows ==
  ASSUME NEW n \in Nat \ {0}, NEW m \in Nat, n <= m, NEW p \in Nat \ {0}, NEW q \in Nat \ {0}
  PROVE  GrowsAll(Regimes!MarketColumns(n, p, q), Regimes!MarketColumns(m, p, q), n, m)
<1> DEFINE Atr(k) == Base!Zeros(Base!Ewm(Base!Column(k)), p - 1)
           Adx(k) == Base!Zeros(Base!Ewm(Base!Column(k)), 2 * p - 1)
           Scored(s, w) == Base!Zip(s, Base!Rolling(s, w))
<1>0. n \in Nat /\ 2 \in Nat \ {0} /\ p - 1 \in Int /\ 2 * p - 1 \in Int
  OBVIOUS
<1>1. \A k : Regimes!MarketColumns(k, p, q) =
        [atr |-> Atr(k), adx |-> Adx(k), adx_delta |-> Base!Rolling(Adx(k), 2),
         trend_ratio |-> Base!Rolling(Base!Diff(k), p),
         realized_vol_z |-> Scored(Base!Rolling(Base!Diff(k), q), q),
         session_volume_z |-> Scored(Base!Column(k), p), atr_z |-> Scored(Atr(k), q),
         bb_width_z |-> Scored(Base!Rolling(Base!Column(k), p), q),
         vol_persistence |-> Base!Rolling(Atr(k), p)]
  BY RegimesBase DEF Regimes!MarketColumns, Regimes!MarketColumnsOf, Regimes!TaAtr,
                     Regimes!TaAdx, Regimes!TaBand, Regimes!Zscore
<1>2. Grows(Base!Column(n), Base!Column(m), n, m) /\ Grows(Base!Diff(n), Base!Diff(m), n, m)
  BY RangesGrow
<1>3. Grows(Base!Ewm(Base!Column(n)), Base!Ewm(Base!Column(m)), n, m)
  BY <1>0, <1>2, EwmGrows
<1>4. Grows(Atr(n), Atr(m), n, m) /\ Grows(Adx(n), Adx(m), n, m)
  BY <1>0, <1>3, BlankGrows
<1> HIDE DEF Atr, Adx
<1>5. ASSUME NEW s, NEW t, Grows(s, t, n, m), NEW w \in Nat \ {0}
      PROVE  Grows(Base!Rolling(s, w), Base!Rolling(t, w), n, m)
  BY <1>0, <1>5, RollingGrows
<1>6. ASSUME NEW s, NEW t, Grows(s, t, n, m), NEW w \in Nat \ {0}
      PROVE  Grows(Scored(s, w), Scored(t, w), n, m)
  BY <1>0, <1>5, <1>6, ZipGrows
<1> HIDE DEF Scored
<1>7. /\ Grows(Base!Rolling(Base!Diff(n), p), Base!Rolling(Base!Diff(m), p), n, m)
      /\ Grows(Base!Rolling(Base!Diff(n), q), Base!Rolling(Base!Diff(m), q), n, m)
      /\ Grows(Base!Rolling(Base!Column(n), p), Base!Rolling(Base!Column(m), p), n, m)
      /\ Grows(Base!Rolling(Adx(n), 2), Base!Rolling(Adx(m), 2), n, m)
      /\ Grows(Base!Rolling(Atr(n), p), Base!Rolling(Atr(m), p), n, m)
  BY <1>0, <1>2, <1>4, <1>5
<1>8. /\ Grows(Scored(Base!Rolling(Base!Diff(n), q), q), Scored(Base!Rolling(Base!Diff(m), q), q), n, m)
      /\ Grows(Scored(Base!Column(n), p), Scored(Base!Column(m), p), n, m)
      /\ Grows(Scored(Atr(n), q), Scored(Atr(m), q), n, m)
      /\ Grows(Scored(Base!Rolling(Base!Column(n), p), q),
               Scored(Base!Rolling(Base!Column(m), p), q), n, m)
  BY <1>2, <1>4, <1>6, <1>7
<1> QED BY <1>1, <1>4, <1>7, <1>8 DEF GrowsAll

LEMMA RegimeColumnsGrow ==
  ASSUME NEW n \in Nat \ {0}, NEW m \in Nat, n <= m, NEW p \in Nat \ {0}, NEW q \in Nat \ {0}
  PROVE  GrowsAll(Regimes!RegimeColumns(n, p, q), Regimes!RegimeColumns(m, p, q), n, m)
<1> DEFINE Features(k) == Base!ComputeFeatures(k, p, q)
<1>0. n \in Nat
  OBVIOUS
<1>1. \A k : Regimes!ComputeFeatures(k, p, q) = Features(k)
  BY RegimesBase DEF Regimes!ComputeFeatures, Base!ComputeFeatures
<1>2. \A k : Regimes!RegimeColumns(k, p, q) =
        [atr |-> Features(k).atr, adx |-> Features(k).adx,
         volatility |-> Features(k).volatility, returns_1 |-> Features(k).returns_1,
         trend |-> Base!Rolling(Features(k).returns_1, q)]
  BY <1>1, RegimesBase DEF Regimes!RegimeColumns, Regimes!RegimeColumnsOf
<1>3. {"atr", "adx", "volatility", "returns_1"} \subseteq DOMAIN Features(n)
  BY DEF Base!ComputeFeatures
<1> HIDE DEF Features
<1>4. /\ Grows(Features(n).atr, Features(m).atr, n, m)
      /\ Grows(Features(n).adx, Features(m).adx, n, m)
      /\ Grows(Features(n).volatility, Features(m).volatility, n, m)
      /\ Grows(Features(n).returns_1, Features(m).returns_1, n, m)
  BY <1>3, FeaturesGrow DEF Features
<1>5. Grows(Base!Rolling(Features(n).returns_1, q), Base!Rolling(Features(m).returns_1, q), n, m)
  BY <1>0, <1>4, RollingGrows
<1> QED BY <1>2, <1>4, <1>5 DEF GrowsAll

(* Whether a past bar is a row does not depend on later ones.              *)
Agreed(rows, later, n, m) ==
  /\ rows \subseteq 1..n /\ later \subseteq 1..m
  /\ \A i \in 1..n : i \in rows <=> i \in later

LEMMA CompleteGrows ==
  ASSUME NEW n \in Nat, NEW m \in Nat, n <= m, NEW a, NEW b, GrowsAll(a, b, n, m)
  PROVE  Agreed(Regimes!Complete(a, n), Regimes!Complete(b, m), n, m)
<1>1. \A f \in DOMAIN a : \A i \in 1..n : a[f][i] = b[f][i]
  BY DEF GrowsAll, Grows
<1>2. DOMAIN a = DOMAIN b /\ \A i \in 1..n : i \in 1..m
  BY DEF GrowsAll
<1> QED BY <1>1, <1>2 DEF Regimes!Complete, Agreed

LEMMA KeptGrows ==
  ASSUME NEW n \in Nat, NEW m \in Nat, n <= m, NEW a, NEW b, GrowsAll(a, b, n, m),
         NEW rows, NEW later, Agreed(rows, later, n, m)
  PROVE  Unchanged(Regimes!Kept(a, n, rows), Regimes!Kept(b, m, later), n)
<1> DEFINE Entry(c, z, f, i) == IF i \in z THEN c[f][i] ELSE None
<1>1. ASSUME NEW k \in Nat, NEW c, NEW z
      PROVE  Regimes!Kept(c, k, z) = [f \in DOMAIN c |-> [i \in 1..k |-> Entry(c, z, f, i)]]
  <2>1. Regimes!Kept(c, k, z) =
          [f \in DOMAIN c |->
             [i \in 1..(IF k < 1 THEN 0 ELSE k - 1 + 1) |-> Entry(c, z, f, 1 + i - 1)]]
    BY DEF Regimes!Kept, Regimes!Pick, Regimes!Each
  <2> HIDE DEF Entry
  <2> QED BY <2>1, Picked
<1>2. \A f \in DOMAIN a : \A i \in 1..n : Entry(a, rows, f, i) = Entry(b, later, f, i)
  BY DEF GrowsAll, Grows, Agreed
<1> HIDE DEF Entry
<1>3. /\ Regimes!Kept(a, n, rows) = [f \in DOMAIN a |-> [i \in 1..n |-> Entry(a, rows, f, i)]]
      /\ Regimes!Kept(b, m, later) = [f \in DOMAIN b |-> [i \in 1..m |-> Entry(b, later, f, i)]]
  BY <1>1
<1>4. DOMAIN a = DOMAIN b
  BY DEF GrowsAll
<1> QED BY <1>2, <1>3, <1>4 DEF Unchanged, Alike

LEMMA MarketRowsGrow ==
  ASSUME NEW n \in Nat, NEW m \in Nat, n <= m, NEW p, NEW q, NEW a, NEW b, GrowsAll(a, b, n, m)
  PROVE  Agreed(Regimes!MarketRows(a, n, p, q), Regimes!MarketRows(b, m, p, q), n, m)
<1> DEFINE least == Regimes!Max({p, q}) + 1
<1>1. Agreed(Regimes!Complete(a, n), Regimes!Complete(b, m), n, m)
  BY CompleteGrows
<1>2. /\ Regimes!MarketRows(a, n, p, q) = {i \in Regimes!Complete(a, n) : i > least}
      /\ Regimes!MarketRows(b, m, p, q) = {i \in Regimes!Complete(b, m) : i > least}
  BY DEF Regimes!MarketRows
<1> HIDE DEF least
<1> QED BY <1>1, <1>2 DEF Agreed

(* A number given before may come, but not change.                         *)
Keeps(s, t, n) == \A i \in (1..n) \cap DOMAIN s \cap DOMAIN t : s[i] = None \/ s[i] = t[i]

Remain(before, now, n) ==
  \A f \in DOMAIN before \cap DOMAIN now : Keeps(before[f], now[f], n)

(* Two windows of a bar are one.                                           *)
LEMMA OneStart ==
  ASSUME NEW y \in Nat \ {0}, NEW x \in Nat, x % y = 0, NEW z \in Nat, z % y = 0, x < z
  PROVE  x + y <= z
<1> DEFINE a == x \div y
           b == z \div y
           d == b - a
<1>1. x = y * a /\ a \in Int /\ z = y * b /\ b \in Int
  OBVIOUS
<1> HIDE DEF a, b
<1>2. d \in Int /\ z - x = y * d
  BY <1>1
<1> HIDE DEF d
<1>3. d <= 0 => y * d <= 0
  BY <1>2
<1>4. d >= 1 => y * d >= y
  BY <1>2
<1> QED BY <1>2, <1>3, <1>4

LEMMA Starts ==
  ASSUME NEW n \in Nat, NEW rows \in SUBSET (1..n), rows # {}
  PROVE  /\ Least(rows) \in rows /\ Greatest(rows) \in rows
         /\ \A i \in rows : Least(rows) <= i /\ i <= Greatest(rows)
         /\ Regimes!FoldStarts(rows)
              = {s \in Least(rows) + MinTrain .. Greatest(rows) - 1 :
                   (s - Least(rows) - MinTrain) % Step = 0}
<1>1. rows \in SUBSET (0..n)
  OBVIOUS
<1>2. /\ Least(rows) \in rows /\ \A y \in rows : Least(rows) <= y
      /\ Greatest(rows) \in rows /\ \A y \in rows : Greatest(rows) >= y
  BY <1>1, LeastExists, GreatestExists
<1>3. \A i \in rows : Greatest(rows) >= i => i <= Greatest(rows)
  BY <1>2
<1>4. Regimes!FoldStarts(rows)
        = {s \in Least(rows) + MinTrain .. Greatest(rows) - 1 :
             (s - Least(rows) - MinTrain) % Step = 0}
  BY LeastMost DEF Regimes!FoldStarts, Regimes!Fold!OosStarts, Regimes!First, Regimes!Last
<1> QED BY <1>2, <1>3, <1>4

(* The windows of the folds do not overlap.                                *)
LEMMA OneFold ==
  ASSUME NEW n \in Nat, NEW rows \in SUBSET (1..n), NEW i,
         NEW s \in Regimes!FoldOf(rows, i), NEW u \in Regimes!FoldOf(rows, i)
  PROVE  s = u
<1>1. s \in Regimes!FoldStarts(rows) /\ u \in Regimes!FoldStarts(rows) /\ rows # {}
  BY DEF Regimes!FoldOf, Regimes!FoldStarts
<1> DEFINE a == Least(rows) + MinTrain
           l == Greatest(rows)
<1>2. /\ Least(rows) \in 1..n /\ l \in 1..n
      /\ s \in a..l - 1 /\ (s - Least(rows) - MinTrain) % Step = 0
      /\ u \in a..l - 1 /\ (u - Least(rows) - MinTrain) % Step = 0
  BY <1>1, Starts
<1>3. MinTrain \in Nat /\ Step \in Nat \ {0}
  BY TrialAssumption, SeriesAssumption
<1>4. i \in rows /\ s <= i /\ u <= i
      /\ i < Regimes!Min({s + Step, Regimes!Last(rows)})
      /\ i < Regimes!Min({u + Step, Regimes!Last(rows)})
  BY DEF Regimes!FoldOf, Regimes!WindowOf
<1>5. a \in Nat /\ s - a \in Nat /\ u - a \in Nat
      /\ s - Least(rows) - MinTrain = s - a /\ u - Least(rows) - MinTrain = u - a
  BY <1>2, <1>3
<1> DEFINE Ends(x) == Least({x + Step, l})
<1>6. /\ Regimes!Min({s + Step, Regimes!Last(rows)}) = Ends(s)
      /\ Regimes!Min({u + Step, Regimes!Last(rows)}) = Ends(u)
  BY LeastMost DEF Regimes!Last
<1> HIDE DEF a, l
<1>7. ASSUME NEW x \in Nat PROVE Ends(x) \in Int /\ Ends(x) <= x + Step /\ Ends(x) <= l
  <2>1. x + Step \in Int /\ l \in Int
    BY <1>2, <1>3
  <2> DEFINE z == x + Step
  <2> HIDE DEF z
  <2>2. Least({z, l}) \in Int /\ Least({z, l}) <= z /\ Least({z, l}) <= l
    <3>1. CASE z <= l
      <4>1. \A y \in {z, l} : z <= y
        BY <2>1, <3>1 DEF z
      <4> QED BY <2>1, <3>1, <4>1 DEF Least, z
    <3>2. CASE l < z
      <4>1. \A y \in {z, l} : l <= y
        BY <2>1, <3>2 DEF z
      <4> QED BY <2>1, <3>2, <4>1 DEF Least, z
    <3> QED BY <2>1, <3>1, <3>2 DEF z
  <2> QED BY <2>2 DEF z
<1>8. s \in Nat /\ u \in Nat /\ i \in Int
  BY <1>2, <1>4, <1>5
<1>9. i < s + Step /\ i < u + Step
  <2>1. i < Ends(s) /\ i < Ends(u)
    BY <1>4, <1>6
  <2> HIDE DEF Ends
  <2>2. Ends(s) \in Int /\ Ends(s) <= s + Step /\ Ends(u) \in Int /\ Ends(u) <= u + Step
    BY <1>7, <1>8
  <2> QED BY <1>3, <1>8, <2>1, <2>2
<1>10. ~(s < u)
  <2> SUFFICES ASSUME s < u PROVE FALSE
    OBVIOUS
  <2>1. s - a < u - a
    BY <1>5, <1>8
  <2>2. (s - a) + Step <= u - a
    BY <1>2, <1>3, <1>5, <2>1, OneStart
  <2> QED BY <1>3, <1>4, <1>5, <1>8, <1>9, <2>2
<1>11. ~(u < s)
  <2> SUFFICES ASSUME u < s PROVE FALSE
    OBVIOUS
  <2>1. u - a < s - a
    BY <1>5, <1>8
  <2>2. (u - a) + Step <= s - a
    BY <1>2, <1>3, <1>5, <2>1, OneStart
  <2> QED BY <1>3, <1>4, <1>5, <1>8, <1>9, <2>2
<1> QED BY <1>8, <1>10, <1>11

(* A row belongs to the fold it belonged to, and the labels of a fold are  *)
(* from the rows before it.                                                *)
LEMMA LesserOf ==
  ASSUME NEW a \in Int, NEW b \in Int
  PROVE  Least({a, b}) \in {a, b} /\ Least({a, b}) <= a /\ Least({a, b}) <= b
<1>1. CASE a <= b
  <2>1. \A y \in {a, b} : a <= y
    BY <1>1
  <2> QED BY <1>1, <2>1 DEF Least
<1>2. CASE b < a
  <2>1. \A y \in {a, b} : b <= y
    BY <1>2
  <2> QED BY <1>2, <2>1 DEF Least
<1> QED BY <1>1, <1>2

(* Nor does the fold of a bar, once it has one.                            *)
LEMMA FoldStays ==
  ASSUME NEW n \in Nat, NEW m \in Nat, n <= m, NEW rows, NEW later, Agreed(rows, later, n, m),
         NEW i \in 1..n, NEW s \in Regimes!FoldOf(rows, i)
  PROVE  s \in Regimes!FoldOf(later, i)
<1>1. /\ rows \in SUBSET (1..n) /\ later \in SUBSET (1..m)
      /\ s \in Regimes!FoldStarts(rows) /\ rows # {} /\ i \in rows /\ i \in later /\ s <= i
      /\ i < Regimes!Min({s + Step, Regimes!Last(rows)})
  BY DEF Agreed, Regimes!FoldOf, Regimes!FoldStarts, Regimes!WindowOf
<1>2. MinTrain \in Nat /\ Step \in Nat \ {0}
  BY TrialAssumption, SeriesAssumption
<1>3. /\ Least(rows) \in rows /\ Greatest(rows) \in rows
      /\ \A j \in rows : Least(rows) <= j /\ j <= Greatest(rows)
      /\ s \in Least(rows) + MinTrain .. Greatest(rows) - 1
      /\ (s - Least(rows) - MinTrain) % Step = 0
  BY <1>1, Starts
<1>4. /\ Least(later) \in later /\ Greatest(later) \in later
      /\ \A j \in later : Least(later) <= j /\ j <= Greatest(later)
      /\ Regimes!FoldStarts(later)
           = {u \in Least(later) + MinTrain .. Greatest(later) - 1 :
                (u - Least(later) - MinTrain) % Step = 0}
  BY <1>1, Starts
<1> DEFINE f == Least(rows)
           g == Greatest(rows)
           h == Greatest(later)
<1>5. f \in 1..n /\ g \in 1..n /\ Least(later) \in 1..m /\ h \in 1..m
  BY <1>1, <1>3, <1>4
<1>6. f \in later /\ g \in later
  BY <1>3, <1>5 DEF Agreed
<1>7. Least(later) = f
  <2>1. Least(later) <= f
    BY <1>4, <1>6
  <2>2. Least(later) \in 1..n
    BY <1>5, <2>1
  <2>3. Least(later) \in rows
    BY <1>4, <2>2 DEF Agreed
  <2>4. f <= Least(later)
    BY <1>3, <2>3
  <2> QED BY <1>5, <2>1, <2>4
<1>8. g <= h
  BY <1>4, <1>6
<1>9. s \in f + MinTrain .. g - 1 /\ (s - f - MinTrain) % Step = 0
  BY <1>3
<1>10. Regimes!FoldStarts(later) = {u \in f + MinTrain .. h - 1 : (u - f - MinTrain) % Step = 0}
  BY <1>4, <1>7
<1>11. /\ Regimes!Min({s + Step, Regimes!Last(rows)}) = Least({s + Step, g})
       /\ Regimes!Min({s + Step, Regimes!Last(later)}) = Least({s + Step, h})
  BY LeastMost DEF Regimes!Last
<1> HIDE DEF f, g, h
<1>12. s \in f + MinTrain .. h - 1 /\ s \in Int
  BY <1>2, <1>5, <1>8, <1>9
<1>13. s \in Regimes!FoldStarts(later)
  BY <1>9, <1>10, <1>12
<1>14. i < Least({s + Step, h})
  <2> DEFINE e == s + Step
  <2>1. e \in Int /\ g \in Int /\ h \in Int
    BY <1>2, <1>5, <1>12
  <2> HIDE DEF e
  <2>2. Least({e, g}) \in {e, g} /\ Least({e, g}) <= e /\ Least({e, g}) <= g
    BY <2>1, LesserOf
  <2>3. Least({e, h}) \in {e, h}
    BY <2>1, LesserOf
  <2>4. i < Least({e, g})
    BY <1>1, <1>11 DEF e
  <2>5. i < e /\ i < g
    BY <2>1, <2>2, <2>4
  <2>6. i < h
    BY <1>8, <2>1, <2>5
  <2> QED BY <2>3, <2>5, <2>6 DEF e
<1> QED BY <1>1, <1>11, <1>13, <1>14 DEF Regimes!FoldOf, Regimes!WindowOf

LEMMA GroundStays ==
  ASSUME NEW n \in Nat, NEW m \in Nat, NEW a, NEW b, GrowsAll(a, b, n, m),
         NEW seen \in SUBSET (1..n)
  PROVE  Regimes!Ground(a, seen) = Regimes!Ground(b, seen)
<1> DEFINE On(c) == {c[f][i].on : f \in DOMAIN c, i \in seen}
<1>1. \A f \in DOMAIN a : \A i \in seen : a[f][i] = b[f][i]
  BY DEF GrowsAll, Grows
<1>2. DOMAIN a = DOMAIN b
  BY DEF GrowsAll
<1>3. On(a) = On(b)
  <2>1. ASSUME NEW x \in On(a) PROVE x \in On(b)
    <3>1. PICK f \in DOMAIN a, i \in seen : x = a[f][i].on
      BY <2>1
    <3>2. f \in DOMAIN b /\ a[f][i] = b[f][i]
      BY <1>1, <1>2
    <3> QED BY <3>1, <3>2
  <2>2. ASSUME NEW x \in On(b) PROVE x \in On(a)
    <3>1. PICK f \in DOMAIN b, i \in seen : x = b[f][i].on
      BY <2>2
    <3>2. f \in DOMAIN a /\ a[f][i] = b[f][i]
      BY <1>1, <1>2
    <3> QED BY <3>1, <3>2
  <2> HIDE DEF On
  <2> QED BY <2>1, <2>2
<1>4. \A c : Regimes!Ground(c, seen) = UNION On(c)
  BY DEF Regimes!Ground
<1> HIDE DEF On
<1> QED BY <1>3, <1>4

(* What a label looks at: the rows before its window, and those up to it.  *)
CausalLabel(columns, rows, i) ==
  IF Regimes!FoldOf(rows, i) = {} THEN None
  ELSE [of |-> {i},
        on |-> Regimes!Ground(columns,
                 Regimes!TrainOf(rows, CHOOSE s \in Regimes!FoldOf(rows, i) : TRUE)
                   \cup Regimes!Visible(rows, i))]

LEMMA LabelledBars ==
  ASSUME NEW n \in Nat, NEW columns, NEW rows, Regimes!FoldStarts(rows) # {}
  PROVE  Regimes!CausallyLabelled(columns, n, rows) = [i \in 1..n |-> CausalLabel(columns, rows, i)]
<1>1. Regimes!CausallyLabelled(columns, n, rows)
        = [i \in 1..(IF n < 1 THEN 0 ELSE n - 1 + 1) |-> CausalLabel(columns, rows, 1 + i - 1)]
  BY DEF Regimes!CausallyLabelled, Regimes!Pick, Regimes!Each, CausalLabel
<1> HIDE DEF CausalLabel
<1> QED BY <1>1, Picked

LEMMA CausalKeeps ==
  ASSUME NEW n \in Nat, NEW m \in Nat, n <= m, NEW a, NEW b, GrowsAll(a, b, n, m),
         NEW rows, NEW later, Agreed(rows, later, n, m), Regimes!FoldStarts(rows) # {}
  PROVE  Keeps(Regimes!CausallyLabelled(a, n, rows), Regimes!CausallyLabelled(b, m, later), n)
<1> DEFINE Of(z, i) == CHOOSE s \in Regimes!FoldOf(z, i) : TRUE
           Seen(z, i) == Regimes!TrainOf(z, Of(z, i)) \cup Regimes!Visible(z, i)
<1>1. rows \in SUBSET (1..n) /\ later \in SUBSET (1..m)
  BY DEF Agreed
<1>2. ASSUME NEW i \in 1..n, Regimes!FoldOf(rows, i) # {}
      PROVE  CausalLabel(a, rows, i) = CausalLabel(b, later, i)
  <2>1. PICK s : s \in Regimes!FoldOf(rows, i)
    BY <1>2
  <2>2. s \in Regimes!FoldOf(later, i)
    BY <2>1, FoldStays
  <2>3. Regimes!FoldOf(rows, i) = {s} /\ Regimes!FoldOf(later, i) = {s}
    <3>1. \A u \in Regimes!FoldOf(rows, i) : u = s
      BY <1>1, <2>1, OneFold
    <3>2. \A u \in Regimes!FoldOf(later, i) : u = s
      BY <1>1, <2>2, OneFold
    <3> QED BY <2>1, <2>2, <3>1, <3>2
  <2>4. Of(rows, i) = s /\ Of(later, i) = s
    BY <2>3
  <2>5. i \in rows /\ s <= i
    BY <2>1 DEF Regimes!FoldOf, Regimes!WindowOf
  <2>6. s \in Int
    <3>1. s \in Regimes!FoldStarts(rows) /\ rows # {}
      BY <2>1 DEF Regimes!FoldOf, Regimes!FoldStarts
    <3>2. s \in Least(rows) + MinTrain .. Greatest(rows) - 1 /\ Least(rows) \in rows
          /\ Greatest(rows) \in rows
      BY <1>1, <3>1, Starts
    <3>3. MinTrain \in Nat
      BY TrialAssumption
    <3> QED BY <1>1, <3>2, <3>3
  <2>7. \A j \in later : j < s \/ j <= i => j \in rows
    <3> SUFFICES ASSUME NEW j \in later, j < s \/ j <= i PROVE j \in rows
      OBVIOUS
    <3>1. j \in 1..m
      BY <1>1
    <3>2. j \in 1..n
      BY <2>5, <2>6, <3>1
    <3> QED BY <3>2 DEF Agreed
  <2>8. \A j \in rows : j \in later
    BY <1>1 DEF Agreed
  <2>9. Seen(rows, i) = Seen(later, i) /\ Seen(rows, i) \in SUBSET (1..n)
    <3>1. /\ Regimes!TrainOf(rows, s) = Regimes!TrainOf(later, s)
          /\ Regimes!Visible(rows, i) = Regimes!Visible(later, i)
      BY <2>7, <2>8 DEF Regimes!TrainOf, Regimes!Visible
    <3>2. Regimes!TrainOf(rows, s) \subseteq rows /\ Regimes!Visible(rows, i) \subseteq rows
      BY DEF Regimes!TrainOf, Regimes!Visible
    <3> QED BY <1>1, <2>4, <3>1, <3>2
  <2>10. /\ CausalLabel(a, rows, i) = [of |-> {i}, on |-> Regimes!Ground(a, Seen(rows, i))]
         /\ CausalLabel(b, later, i) = [of |-> {i}, on |-> Regimes!Ground(b, Seen(later, i))]
    BY <2>1, <2>2 DEF CausalLabel
  <2> HIDE DEF Seen
  <2>11. Regimes!Ground(a, Seen(rows, i)) = Regimes!Ground(b, Seen(rows, i))
    BY <2>9, GroundStays
  <2> QED BY <2>9, <2>10, <2>11
<1>3. Regimes!FoldStarts(later) # {}
  <2>1. PICK s : s \in Regimes!FoldStarts(rows)
    OBVIOUS
  <2>2. rows # {}
    BY <2>1 DEF Regimes!FoldStarts
  <2>3. /\ Least(rows) \in rows /\ Greatest(rows) \in rows
        /\ \A j \in rows : Least(rows) <= j /\ j <= Greatest(rows)
        /\ s \in Least(rows) + MinTrain .. Greatest(rows) - 1
    BY <1>1, <2>1, <2>2, Starts
  <2>4. later # {} /\ \A j \in rows : j \in later
    BY <1>1, <2>2 DEF Agreed
  <2>5. /\ Least(later) \in later /\ Greatest(later) \in later
        /\ \A j \in later : Least(later) <= j /\ j <= Greatest(later)
        /\ Regimes!FoldStarts(later)
             = {u \in Least(later) + MinTrain .. Greatest(later) - 1 :
                  (u - Least(later) - MinTrain) % Step = 0}
    BY <1>1, <2>4, Starts
  <2> DEFINE f == Least(rows)
             g == Greatest(rows)
             e == Least(later)
             h == Greatest(later)
  <2>6. e <= f /\ g <= h /\ e \in Int /\ f \in Int /\ g \in Int /\ h \in Int
        /\ s \in f + MinTrain .. g - 1
    <3>1. \A j \in rows : j \in Int
      BY <1>1
    <3>2. \A j \in later : j \in Int
      BY <1>1
    <3>3. f \in later /\ g \in later
      BY <2>3, <2>4
    <3>4. e <= f /\ g <= h
      BY <2>5, <3>3
    <3> QED BY <2>3, <2>5, <3>1, <3>2, <3>4
  <2>7. Regimes!FoldStarts(later)
          = {u \in e + MinTrain .. h - 1 : (u - e - MinTrain) % Step = 0}
    BY <2>5
  <2>8. MinTrain \in Nat /\ Step \in Nat \ {0}
    BY TrialAssumption, SeriesAssumption
  <2> HIDE DEF e, f, g, h
  <2>9. e + MinTrain \in e + MinTrain .. h - 1 /\ (e + MinTrain) - e - MinTrain = 0
    BY <2>6, <2>8
  <2>10. 0 % Step = 0
    BY <2>8
  <2> QED BY <2>7, <2>9, <2>10
<1>4. /\ Regimes!CausallyLabelled(a, n, rows) = [i \in 1..n |-> CausalLabel(a, rows, i)]
      /\ Regimes!CausallyLabelled(b, m, later) = [i \in 1..m |-> CausalLabel(b, later, i)]
  BY <1>3, LabelledBars
<1>5. \A i \in 1..n : CausalLabel(a, rows, i) = None
                      \/ CausalLabel(a, rows, i) = CausalLabel(b, later, i)
  BY <1>2 DEF CausalLabel
<1> HIDE DEF CausalLabel
<1> QED BY <1>4, <1>5 DEF Keeps

LEMMA RegimesGrow ==
  ASSUME NEW n \in Nat \ {0}, NEW m \in Nat, n <= m, NEW r,
         r.p \in Nat \ {0}, r.q \in Nat \ {0}
  PROVE  /\ r.indicator \in {"market_features", "features"} =>
              Unchanged(RegimeLists(r, n), RegimeLists(r, m), n)
         /\ r.indicator = "causal"
              /\ Regimes!FoldStarts(Regimes!RegimeRows(n, r.p, r.q)) # {} =>
              Remain(RegimeLists(r, n), RegimeLists(r, m), n)
<1> DEFINE p == r.p
           q == r.q
           Market(k) == Regimes!MarketColumns(k, p, q)
           Columns(k) == Regimes!RegimeColumns(k, p, q)
<1>0. n \in Nat /\ p \in Nat \ {0} /\ q \in Nat \ {0}
  OBVIOUS
<1>1. GrowsAll(Market(n), Market(m), n, m) /\ GrowsAll(Columns(n), Columns(m), n, m)
  BY <1>0, MarketGrows, RegimeColumnsGrow
<1>2. CASE r.indicator = "market_features"
  <2>1. \A k : RegimeLists(r, k)
               = Regimes!Kept(Market(k), k, Regimes!MarketRows(Market(k), k, p, q))
    BY <1>2 DEF RegimeLists, Regimes!CalculateFeatures, Regimes!MarketFeatures
  <2> HIDE DEF Market, p, q
  <2>2. Agreed(Regimes!MarketRows(Market(n), n, p, q), Regimes!MarketRows(Market(m), m, p, q), n, m)
    BY <1>0, <1>1, MarketRowsGrow
  <2> QED BY <1>0, <1>1, <1>2, <2>1, <2>2, KeptGrows
<1>3. Agreed(Regimes!Complete(Columns(n), n), Regimes!Complete(Columns(m), m), n, m)
  <2> HIDE DEF Columns
  <2> QED BY <1>0, <1>1, CompleteGrows
<1>4. CASE r.indicator = "features"
  <2>1. \A k : RegimeLists(r, k) = Regimes!Kept(Columns(k), k, Regimes!Complete(Columns(k), k))
    BY <1>4 DEF RegimeLists, Regimes!LoadFeatures
  <2> HIDE DEF Columns, p, q
  <2> QED BY <1>0, <1>1, <1>3, <1>4, <2>1, KeptGrows
<1>5. ASSUME r.indicator = "causal",
             Regimes!FoldStarts(Regimes!RegimeRows(n, p, q)) # {}
      PROVE  Remain(RegimeLists(r, n), RegimeLists(r, m), n)
  <2>1. \A k : RegimeLists(r, k) =
          [values |-> Regimes!CausallyLabelled(Columns(k), k, Regimes!Complete(Columns(k), k))]
    BY <1>5 DEF RegimeLists, Regimes!CausalLabels
  <2>2. Regimes!FoldStarts(Regimes!Complete(Columns(n), n)) # {}
    BY <1>5 DEF Regimes!RegimeRows
  <2> HIDE DEF Columns, p, q
  <2>3. Keeps(Regimes!CausallyLabelled(Columns(n), n, Regimes!Complete(Columns(n), n)),
              Regimes!CausallyLabelled(Columns(m), m, Regimes!Complete(Columns(m), m)), n)
    BY <1>0, <1>1, <1>3, <2>2, CausalKeeps
  <2> QED BY <2>1, <2>3 DEF Remain
<1> QED BY <1>2, <1>4, <1>5

(***************************************************************************)
(* What the server's and the browser's lists are made of                   *)
(***************************************************************************)
LEMMA GrowsKeeps ==
  ASSUME NEW c, NEW d, NEW s, NEW t, Grows(s, t, c, d), NEW n
  PROVE  Keeps(s, t, n)
<1>1. s \in Seq(Entries) /\ Len(s) = c /\ \A i \in 1..c : s[i] = t[i]
  BY DEF Grows, Lists
<1>2. DOMAIN s = 1..c
  BY <1>1
<1> QED BY <1>1, <1>2 DEF Keeps

LEMMA NonesKeep ==
  ASSUME NEW k \in Nat, NEW t, NEW n
  PROVE  Keeps(Base!Nones(k), t, n)
<1>1. DOMAIN Base!Nones(k) = 1..k /\ \A i \in 1..k : Base!Nones(k)[i] = None
  BY NonesList, ListFacts
<1> QED BY <1>1 DEF Keeps

LEMMA ZipKeeps ==
  ASSUME NEW n \in Nat, NEW m \in Nat, n <= m,
         NEW s \in Lists(n), NEW t \in Lists(m), Keeps(s, t, n),
         NEW r \in Lists(n), NEW u \in Lists(m), Keeps(r, u, n)
  PROVE  /\ Keeps(Base!Zip(s, r), Base!Zip(t, u), n)
         /\ Base!Zip(s, r) \in Lists(n) /\ Base!Zip(t, u) \in Lists(m)
<1>1. /\ Base!Zip(s, r) \in Lists(n)
      /\ \A i \in 1..n : /\ Base!Zip(s, r)[i] = Base!Joint({s[i], r[i]})
                         /\ Base!Zip(s, r)[i] = None <=> s[i] = None \/ r[i] = None
  BY ZipEven
<1>2. /\ Base!Zip(t, u) \in Lists(m)
      /\ \A i \in 1..m : Base!Zip(t, u)[i] = Base!Joint({t[i], u[i]})
  BY ZipEven
<1>3. ASSUME NEW i \in 1..n
      PROVE  Base!Zip(s, r)[i] = None \/ Base!Zip(s, r)[i] = Base!Zip(t, u)[i]
  <2>1. i \in 1..m /\ i \in DOMAIN s /\ i \in DOMAIN t /\ i \in DOMAIN r /\ i \in DOMAIN u
    <3>1. i \in 1..m
      OBVIOUS
    <3> QED BY <3>1, ListFacts
  <2>2. (s[i] = None \/ s[i] = t[i]) /\ (r[i] = None \/ r[i] = u[i])
    BY <2>1 DEF Keeps
  <2> QED BY <1>1, <1>2, <2>1, <2>2
<1>4. DOMAIN Base!Zip(s, r) = 1..n
  BY <1>1, ListFacts
<1>5. Keeps(Base!Zip(s, r), Base!Zip(t, u), n)
  <2> DEFINE z == Base!Zip(s, r)
             y == Base!Zip(t, u)
  <2> HIDE DEF z, y
  <2>1. \A i \in 1..n : z[i] = None \/ z[i] = y[i]
    BY <1>3 DEF z, y
  <2>2. Keeps(z, y, n)
    BY <2>1 DEF Keeps
  <2> QED BY <2>2 DEF z, y
<1> QED BY <1>1, <1>2, <1>5

LEMMA LedGrows ==
  ASSUME NEW k \in Nat, NEW c \in Nat, NEW d \in Nat, c <= d, NEW t, NEW u, Grows(t, u, c, d)
  PROVE  Grows(Base!Nones(k) \o t, Base!Nones(k) \o u, k + c, k + d)
<1> DEFINE x == Base!Nones(k) \o t
           y == Base!Nones(k) \o u
<1>1. t \in Lists(c) /\ u \in Lists(d) /\ \A i \in 1..c : t[i] = u[i]
  BY DEF Grows
<1>2. /\ x \in Lists(k + c)
      /\ \A i \in 1..k : x[i] = None
      /\ \A i \in 1..c : x[k + i] = t[i]
  BY <1>1, Led
<1>3. /\ y \in Lists(k + d)
      /\ \A i \in 1..k : y[i] = None
      /\ \A i \in 1..d : y[k + i] = u[i]
  BY <1>1, Led
<1> HIDE DEF x, y
<1>4. ASSUME NEW i \in 1..(k + c) PROVE x[i] = y[i]
  <2>1. CASE i <= k
    <3>1. i \in 1..k
      BY <2>1
    <3> QED BY <1>2, <1>3, <3>1
  <2>2. CASE i > k
    <3>1. i - k \in 1..c /\ i - k \in 1..d /\ k + (i - k) = i
      BY <2>2
    <3>2. x[k + (i - k)] = t[i - k] /\ y[k + (i - k)] = u[i - k]
      BY <1>2, <1>3, <3>1
    <3> QED BY <1>1, <3>1, <3>2
  <2> QED BY <2>1, <2>2
<1>5. Grows(x, y, k + c, k + d)
  BY <1>2, <1>3, <1>4 DEF Grows
<1> QED BY <1>5 DEF x, y

(* The same loop over more bars.                                           *)
LEMMA WindowsGrow ==
  ASSUME NEW n \in Nat, NEW m \in Nat, n <= m, NEW s, NEW v, Grows(s, v, n, m),
         NEW a \in 1..(n + 1), NEW w \in 1..a,
         NEW t, WindowLoop(t, s, a, n, w), NEW u, WindowLoop(u, v, a, m, w)
  PROVE  /\ Grows(t, u, n - a + 1, m - a + 1)
         /\ n - a + 1 \in Nat /\ m - a + 1 \in Nat /\ n - a + 1 <= m - a + 1
<1> DEFINE c == n - a + 1
           d == m - a + 1
<1>1. /\ c \in Nat /\ d \in Nat /\ c <= d
      /\ (IF n < a THEN 0 ELSE n - a + 1) = c /\ (IF m < a THEN 0 ELSE m - a + 1) = d
  OBVIOUS
<1>2. /\ t = [i \in 1..c |-> Base!Span(s, a + i - 1 - w + 1, a + i - 1)]
      /\ u = [i \in 1..d |-> Base!Span(v, a + i - 1 - w + 1, a + i - 1)]
  BY <1>1 DEF WindowLoop
<1>3. s \in Lists(n) /\ v \in Lists(m)
  BY DEF Grows
<1>4. ASSUME NEW i \in 1..c
      PROVE  Base!Span(s, a + i - 1 - w + 1, a + i - 1) = Base!Span(v, a + i - 1 - w + 1, a + i - 1)
             /\ Base!Span(s, a + i - 1 - w + 1, a + i - 1) \in Entries
  <2> DEFINE lo == a + i - 1 - w + 1
             hi == a + i - 1
  <2>1. lo \in Nat \ {0} /\ hi \in 1..n /\ lo \in 1..n /\ hi \in lo..n
    OBVIOUS
  <2> HIDE DEF lo, hi
  <2>2. Base!Span(s, lo, hi) = Base!Span(v, lo, hi) /\ Base!Span(s, lo, hi) \in Entries
    BY <1>3, <2>1, SpanGrows, SpanFacts
  <2> QED BY <2>2 DEF lo, hi
<1>5. ASSUME NEW i \in 1..d PROVE Base!Span(v, a + i - 1 - w + 1, a + i - 1) \in Entries
  <2> DEFINE lo == a + i - 1 - w + 1
             hi == a + i - 1
  <2>1. lo \in 1..m /\ hi \in lo..m
    OBVIOUS
  <2> HIDE DEF lo, hi
  <2>2. Base!Span(v, lo, hi) \in Entries
    BY <1>3, <2>1, SpanFacts
  <2> QED BY <2>2 DEF lo, hi
<1> HIDE DEF c, d
<1>6. t \in Lists(c) /\ u \in Lists(d)
  BY <1>1, <1>2, <1>4, <1>5, AList
<1>7. ASSUME NEW i \in 1..c PROVE t[i] = u[i]
  <2>1. i \in 1..d
    BY <1>1
  <2>2. Base!Span(s, a + i - 1 - w + 1, a + i - 1) = Base!Span(v, a + i - 1 - w + 1, a + i - 1)
    BY <1>4
  <2> QED BY <1>2, <2>1, <2>2
<1>8. Grows(t, u, c, d)
  BY <1>6, <1>7 DEF Grows
<1> QED BY <1>1, <1>8 DEF c, d

LEMMA PrefixesGrow ==
  ASSUME NEW n \in Nat, NEW m \in Nat, n <= m, NEW s, NEW v, Grows(s, v, n, m),
         NEW a \in 1..(n + 1), NEW t, PrefixLoop(t, s, a, n), NEW u, PrefixLoop(u, v, a, m)
  PROVE  /\ Grows(t, u, n - a + 1, m - a + 1)
         /\ n - a + 1 \in Nat /\ m - a + 1 \in Nat /\ n - a + 1 <= m - a + 1
<1> DEFINE c == n - a + 1
           d == m - a + 1
<1>1. /\ c \in Nat /\ d \in Nat /\ c <= d
      /\ (IF n < a THEN 0 ELSE n - a + 1) = c /\ (IF m < a THEN 0 ELSE m - a + 1) = d
  OBVIOUS
<1>2. /\ t = [i \in 1..c |-> Base!Span(s, 1, a + i - 1)]
      /\ u = [i \in 1..d |-> Base!Span(v, 1, a + i - 1)]
  BY <1>1 DEF PrefixLoop
<1>3. s \in Lists(n) /\ v \in Lists(m)
  BY DEF Grows
<1>4. ASSUME NEW i \in 1..c
      PROVE  Base!Span(s, 1, a + i - 1) = Base!Span(v, 1, a + i - 1)
             /\ Base!Span(s, 1, a + i - 1) \in Entries
  <2> DEFINE hi == a + i - 1
  <2>1. 1 \in Nat \ {0} /\ hi \in 1..n /\ 1 \in 1..n
    OBVIOUS
  <2> HIDE DEF hi
  <2>2. Base!Span(s, 1, hi) = Base!Span(v, 1, hi) /\ Base!Span(s, 1, hi) \in Entries
    BY <1>3, <2>1, SpanGrows, SpanFacts
  <2> QED BY <2>2 DEF hi
<1>5. ASSUME NEW i \in 1..d PROVE Base!Span(v, 1, a + i - 1) \in Entries
  <2> DEFINE hi == a + i - 1
  <2>1. 1 \in 1..m /\ hi \in 1..m
    OBVIOUS
  <2> HIDE DEF hi
  <2>2. Base!Span(v, 1, hi) \in Entries
    BY <1>3, <2>1, SpanFacts
  <2> QED BY <2>2 DEF hi
<1> HIDE DEF c, d
<1>6. t \in Lists(c) /\ u \in Lists(d)
  BY <1>1, <1>2, <1>4, <1>5, AList
<1>7. ASSUME NEW i \in 1..c PROVE t[i] = u[i]
  <2>1. i \in 1..d
    BY <1>1
  <2>2. Base!Span(s, 1, a + i - 1) = Base!Span(v, 1, a + i - 1)
    BY <1>4
  <2> QED BY <1>2, <2>1, <2>2
<1>8. Grows(t, u, c, d)
  BY <1>6, <1>7 DEF Grows
<1> QED BY <1>1, <1>8 DEF c, d

(* With the nones that the list begins with.                               *)
LEMMA LedWindowsGrow ==
  ASSUME NEW n \in Nat, NEW m \in Nat, n <= m, NEW s, NEW v, Grows(s, v, n, m), NEW k \in Nat,
         NEW a \in 1..(n + 1), NEW w \in 1..a,
         NEW t, WindowLoop(t, s, a, n, w), NEW u, WindowLoop(u, v, a, m, w)
  PROVE  Grows(Base!Nones(k) \o t, Base!Nones(k) \o u, k + (n - a + 1), k + (m - a + 1))
<1> DEFINE c == n - a + 1
           d == m - a + 1
<1>1. Grows(t, u, c, d) /\ c \in Nat /\ d \in Nat /\ c <= d
  BY WindowsGrow
<1> HIDE DEF c, d
<1>2. Grows(Base!Nones(k) \o t, Base!Nones(k) \o u, k + c, k + d)
  BY <1>1, LedGrows
<1> QED BY <1>2 DEF c, d

LEMMA LedPrefixesGrow ==
  ASSUME NEW n \in Nat, NEW m \in Nat, n <= m, NEW s, NEW v, Grows(s, v, n, m), NEW k \in Nat,
         NEW a \in 1..(n + 1), NEW t, PrefixLoop(t, s, a, n), NEW u, PrefixLoop(u, v, a, m)
  PROVE  Grows(Base!Nones(k) \o t, Base!Nones(k) \o u, k + (n - a + 1), k + (m - a + 1))
<1> DEFINE c == n - a + 1
           d == m - a + 1
<1>1. Grows(t, u, c, d) /\ c \in Nat /\ d \in Nat /\ c <= d
  BY PrefixesGrow
<1> HIDE DEF c, d
<1>2. Grows(Base!Nones(k) \o t, Base!Nones(k) \o u, k + c, k + d)
  BY <1>1, LedGrows
<1> QED BY <1>2 DEF c, d

(* The numbers of two lists that begin with as many nones.                 *)
Begins(s, n, k) == \A i \in 1..n : s[i] = None <=> i <= k

LEMMA KnownGrows ==
  ASSUME NEW n \in Nat, NEW m \in Nat, n <= m, NEW s, NEW t, Grows(s, t, n, m), NEW k \in 0..n,
         Begins(s, n, k), Begins(t, m, k)
  PROVE  /\ Grows(Base!Known(s), Base!Known(t), n - k, m - k)
         /\ Full(Base!Known(s)) /\ Full(Base!Known(t))
<1> DEFINE x == Base!Known(s)
           y == Base!Known(t)
<1>1. s \in Lists(n) /\ t \in Lists(m) /\ \A i \in 1..n : s[i] = t[i]
  BY DEF Grows
<1>2. /\ \A i \in 1..k : s[i] = None
      /\ \A i \in (k + 1)..n : s[i] # None
      /\ \A i \in 1..k : t[i] = None
      /\ \A i \in (k + 1)..m : t[i] # None
  BY DEF Begins
<1>3. k \in 0..m /\ n - k \in Nat /\ m - k \in Nat
  OBVIOUS
<1>4. x \in Lists(n - k) /\ \A i \in 1..(n - k) : x[i] = s[k + i]
  BY <1>1, <1>2, KnownList
<1>5. y \in Lists(m - k) /\ \A i \in 1..(m - k) : y[i] = t[k + i]
  <2> HIDE DEF y
  <2>1. /\ \A i \in 1..k : t[i] = None
        /\ \A i \in (k + 1)..m : t[i] # None
    BY <1>2
  <2> QED BY ONLY <1>1, <1>3, <2>1, m \in Nat, KnownList DEF y
<1> HIDE DEF x, y
<1>6. \A i \in 1..(n - k) : i \in 1..(m - k) /\ k + i \in (k + 1)..n /\ k + i \in 1..n
  OBVIOUS
<1>7. \A i \in 1..(m - k) : k + i \in (k + 1)..m
  OBVIOUS
<1>8. \A i \in 1..(n - k) : x[i] = y[i] /\ x[i] # None
  BY <1>1, <1>2, <1>4, <1>5, <1>6
<1>9. \A i \in 1..(m - k) : y[i] # None
  BY <1>2, <1>5, <1>7
<1>10. DOMAIN x = 1..(n - k) /\ DOMAIN y = 1..(m - k)
  BY <1>3, <1>4, <1>5, ListFacts
<1>11. Full(x) /\ Full(y) /\ Grows(x, y, n - k, m - k)
  BY <1>4, <1>5, <1>8, <1>9, <1>10 DEF Full, Grows
<1> QED BY <1>11 DEF x, y

(***************************************************************************)
(* The server's lists grow                                                 *)
(***************************************************************************)
LEMMA SmaAt ==
  ASSUME NEW m \in Nat, NEW s \in Lists(m), NEW p \in Nat \ {0}
  PROVE  /\ Server!Sma(s, p) \in Lists(m)
         /\ \A i \in 1..m : Server!Sma(s, p)[i] =
              IF i < p THEN None ELSE Base!Span(s, i - p + 1, i)
<1> DEFINE t == [i \in 1..(IF m < p THEN 0 ELSE m - p + 1) |->
                   Base!Span(s, p + i - 1 - p + 1, p + i - 1)]
           sma == Server!Sma(s, p)
<1>1. Len(s) = m
  BY DEF Lists
<1>2. CASE m < p
  <2>1. sma = Base!Nones(m)
    BY <1>1, <1>2, ServerBase DEF Server!Sma
  <2> HIDE DEF sma
  <2>2. sma \in Lists(m) /\ \A i \in 1..m : sma[i] = None /\ i < p
    BY <1>2, <2>1, NonesList
  <2>3. \A i \in 1..m : sma[i] = IF i < p THEN None ELSE Base!Span(s, i - p + 1, i)
    BY <2>2
  <2> QED BY <2>2, <2>3 DEF sma
<1>3. CASE m >= p
  <2> DEFINE k == p - 1
             c == m - p + 1
  <2>1. sma = Base!Nones(k) \o t
    <3>1. sma = Server!Nones(p - 1)
            \o [i \in 1..(IF Len(s) < p THEN 0 ELSE Len(s) - p + 1) |->
                  Server!Span(s, p + i - 1 - p + 1, p + i - 1)]
      BY <1>1, <1>3 DEF Server!Sma, Server!Each
    <3>2. t = [i \in 1..(IF Len(s) < p THEN 0 ELSE Len(s) - p + 1) |->
                 Server!Span(s, p + i - 1 - p + 1, p + i - 1)]
      BY <1>1, ServerBase
    <3> QED BY <3>1, <3>2, ServerBase
  <2>2. k \in Nat /\ c \in Nat /\ k + c = m
    BY <1>3
  <2>3. t = [i \in 1..c |-> Base!Span(s, i, p + i - 1)]
    <3>1. (IF m < p THEN 0 ELSE m - p + 1) = c /\ \A i \in 1..c : p + i - 1 - p + 1 = i
      BY <1>3
    <3> HIDE DEF c
    <3> QED BY <3>1
  <2> HIDE DEF t, sma
  <2>4. ASSUME NEW i \in 1..c PROVE Base!Span(s, i, p + i - 1) \in Entries
    <3>1. i \in 1..m /\ p + i - 1 \in i..m
      BY <1>3
    <3> QED BY <3>1, SpanFacts
  <2>5. t \in Lists(c)
    BY <2>2, <2>3, <2>4, AList
  <2> HIDE DEF k, c
  <2>6. /\ sma \in Lists(k + c)
        /\ \A i \in 1..k : sma[i] = None
        /\ \A i \in 1..c : sma[k + i] = t[i]
    <3>1. /\ Base!Nones(k) \o t \in Lists(k + c)
          /\ \A i \in 1..k : (Base!Nones(k) \o t)[i] = None
          /\ \A i \in 1..c : (Base!Nones(k) \o t)[k + i] = t[i]
      BY ONLY <2>2, <2>5, Led, ZenonT(30)
    <3> QED BY <2>1, <3>1
  <2>7. ASSUME NEW i \in 1..m
        PROVE  sma[i] = IF i < p THEN None ELSE Base!Span(s, i - p + 1, i)
    <3>1. CASE i < p
      <4>1. i \in 1..k
        BY <3>1 DEF k
      <4> QED BY <2>6, <3>1, <4>1
    <3>2. CASE ~(i < p)
      <4> DEFINE j == i - k
      <4>1. j \in 1..c /\ k + j = i /\ j = i - p + 1 /\ p + j - 1 = i
        BY <1>3, <3>2 DEF k, c
      <4> HIDE DEF j
      <4>2. sma[i] = t[j]
        BY <2>6, <4>1
      <4>3. t[j] = Base!Span(s, j, p + j - 1)
        BY <2>3, <4>1
      <4> QED BY <3>2, <4>1, <4>2, <4>3
    <3> QED BY <3>1, <3>2
  <2> QED BY <2>2, <2>6, <2>7 DEF sma
<1> QED BY <1>2, <1>3

LEMMA EmaAt ==
  ASSUME NEW m \in Nat, NEW s \in Lists(m), NEW p \in Nat \ {0}
  PROVE  /\ Server!Ema(s, p) \in Lists(m)
         /\ \A i \in 1..m : Server!Ema(s, p)[i] = IF i < p THEN None ELSE Base!Span(s, 1, i)
<1> DEFINE t == [i \in 1..(IF m < p THEN 0 ELSE m - p + 1) |-> Base!Span(s, 1, p + i - 1)]
           ema == Server!Ema(s, p)
<1>1. Len(s) = m
  BY DEF Lists
<1>2. CASE m < p
  <2>1. ema = Base!Nones(m)
    BY <1>1, <1>2, ServerBase DEF Server!Ema
  <2> HIDE DEF ema
  <2>2. ema \in Lists(m) /\ \A i \in 1..m : ema[i] = None /\ i < p
    BY <1>2, <2>1, NonesList
  <2>3. \A i \in 1..m : ema[i] = IF i < p THEN None ELSE Base!Span(s, 1, i)
    BY <2>2
  <2> QED BY <2>2, <2>3 DEF ema
<1>3. CASE m >= p
  <2> DEFINE k == p - 1
             c == m - p + 1
  <2>1. ema = Base!Nones(k) \o t
    <3>1. ema = Server!Nones(p - 1)
            \o [i \in 1..(IF Len(s) < p THEN 0 ELSE Len(s) - p + 1) |->
                  Server!Span(s, 1, p + i - 1)]
      BY <1>1, <1>3 DEF Server!Ema, Server!Each
    <3>2. t = [i \in 1..(IF Len(s) < p THEN 0 ELSE Len(s) - p + 1) |->
                 Server!Span(s, 1, p + i - 1)]
      BY <1>1, ServerBase
    <3> QED BY <3>1, <3>2, ServerBase
  <2>2. k \in Nat /\ c \in Nat /\ k + c = m
    BY <1>3
  <2>3. t = [i \in 1..c |-> Base!Span(s, 1, p + i - 1)]
    <3>1. (IF m < p THEN 0 ELSE m - p + 1) = c
      BY <1>3
    <3> HIDE DEF c
    <3> QED BY <3>1
  <2> HIDE DEF t, ema
  <2>4. ASSUME NEW i \in 1..c PROVE Base!Span(s, 1, p + i - 1) \in Entries
    <3>1. 1 \in 1..m /\ p + i - 1 \in 1..m
      BY <1>3
    <3> QED BY <3>1, SpanFacts
  <2>5. t \in Lists(c)
    BY <2>2, <2>3, <2>4, AList
  <2> HIDE DEF k, c
  <2>6. /\ ema \in Lists(k + c)
        /\ \A i \in 1..k : ema[i] = None
        /\ \A i \in 1..c : ema[k + i] = t[i]
    <3>1. /\ Base!Nones(k) \o t \in Lists(k + c)
          /\ \A i \in 1..k : (Base!Nones(k) \o t)[i] = None
          /\ \A i \in 1..c : (Base!Nones(k) \o t)[k + i] = t[i]
      BY ONLY <2>2, <2>5, Led, ZenonT(30)
    <3> QED BY <2>1, <3>1
  <2>7. ASSUME NEW i \in 1..m
        PROVE  ema[i] = IF i < p THEN None ELSE Base!Span(s, 1, i)
    <3>1. CASE i < p
      <4>1. i \in 1..k
        BY <3>1 DEF k
      <4> QED BY <2>6, <3>1, <4>1
    <3>2. CASE ~(i < p)
      <4> DEFINE j == i - k
      <4>1. j \in 1..c /\ k + j = i /\ p + j - 1 = i
        BY <1>3, <3>2 DEF k, c
      <4> HIDE DEF j
      <4>2. ema[i] = t[j]
        BY <2>6, <4>1
      <4>3. t[j] = Base!Span(s, 1, p + j - 1)
        BY <2>3, <4>1
      <4> QED BY <3>2, <4>1, <4>2, <4>3
    <3> QED BY <3>1, <3>2
  <2> QED BY <2>2, <2>6, <2>7 DEF ema
<1> QED BY <1>2, <1>3

LEMMA AveragesGrow ==
  ASSUME NEW n \in Nat, NEW m \in Nat, n <= m, NEW s, NEW t, Grows(s, t, n, m),
         NEW p \in Nat \ {0}
  PROVE  /\ Grows(Server!Sma(s, p), Server!Sma(t, p), n, m)
         /\ Grows(Server!Ema(s, p), Server!Ema(t, p), n, m)
         /\ Full(s) => Begins(Server!Ema(s, p), n, p - 1)
         /\ Full(s) => Begins(Server!Sma(s, p), n, p - 1)
<1>1. s \in Lists(n) /\ t \in Lists(m)
  BY DEF Grows
<1>2. /\ Server!Sma(s, p) \in Lists(n) /\ Server!Sma(t, p) \in Lists(m)
      /\ Server!Ema(s, p) \in Lists(n) /\ Server!Ema(t, p) \in Lists(m)
  BY <1>1, SmaAt, EmaAt
<1>3. ASSUME NEW i \in 1..n
      PROVE  /\ Server!Sma(s, p)[i] = Server!Sma(t, p)[i]
             /\ Server!Ema(s, p)[i] = Server!Ema(t, p)[i]
             /\ Full(s) => (Server!Ema(s, p)[i] = None <=> i <= p - 1)
             /\ Full(s) => (Server!Sma(s, p)[i] = None <=> i <= p - 1)
  <2>1. i \in 1..m /\ 1 \in 1..n /\ 1 \in Nat \ {0}
    OBVIOUS
  <2>2. /\ Server!Sma(s, p)[i] = IF i < p THEN None ELSE Base!Span(s, i - p + 1, i)
        /\ Server!Ema(s, p)[i] = IF i < p THEN None ELSE Base!Span(s, 1, i)
    BY <1>1, SmaAt, EmaAt
  <2>3. /\ Server!Sma(t, p)[i] = IF i < p THEN None ELSE Base!Span(t, i - p + 1, i)
        /\ Server!Ema(t, p)[i] = IF i < p THEN None ELSE Base!Span(t, 1, i)
    BY <1>1, <2>1, SmaAt, EmaAt
  <2>4. Base!Span(s, 1, i) = Base!Span(t, 1, i)
    BY <2>1, SpanGrows
  <2>5. ~(i < p) => /\ i - p + 1 \in Nat \ {0} /\ i - p + 1 \in 1..n
                    /\ i \in (i - p + 1)..n
    OBVIOUS
  <2>6. ~(i < p) => Base!Span(s, i - p + 1, i) = Base!Span(t, i - p + 1, i)
    BY <2>5, SpanGrows
  <2>7. \A j \in 1..n : Full(s) => s[j] # None
    BY <1>1, ListFacts DEF Full
  <2>8. Full(s) => Base!Span(s, 1, i) # None
    <3>1. i \in 1..n /\ 1..i \subseteq 1..n
      OBVIOUS
    <3> QED BY <1>1, <2>1, <2>7, <3>1, SpanFacts
  <2>9. Full(s) /\ ~(i < p) => Base!Span(s, i - p + 1, i) # None
    <3>1. ~(i < p) => (i - p + 1)..i \subseteq 1..n
      OBVIOUS
    <3> QED BY <1>1, <2>5, <2>7, <3>1, SpanFacts
  <2>10. i < p <=> i <= p - 1
    OBVIOUS
  <2> QED BY <2>2, <2>3, <2>4, <2>6, <2>8, <2>9, <2>10
<1>4. Grows(Server!Sma(s, p), Server!Sma(t, p), n, m)
  BY <1>2, <1>3 DEF Grows
<1>5. Grows(Server!Ema(s, p), Server!Ema(t, p), n, m)
  BY <1>2, <1>3 DEF Grows
<1>6. Full(s) => Begins(Server!Ema(s, p), n, p - 1)
  BY <1>3 DEF Begins
<1>7. Full(s) => Begins(Server!Sma(s, p), n, p - 1)
  BY <1>3 DEF Begins
<1> QED BY <1>4, <1>5, <1>6, <1>7

LEMMA ChangesGrown ==
  ASSUME NEW n \in Nat \ {0}, NEW m \in Nat, n <= m
  PROVE  /\ Grows(Base!Changes(Base!Column(n)), Base!Changes(Base!Column(m)), n - 1, m - 1)
         /\ Grows(Base!Column(n), Base!Column(m), n, m)
         /\ n - 1 \in Nat /\ m - 1 \in Nat /\ n - 1 <= m - 1
<1> DEFINE k == n - 1
           l == m - 1
<1>1. k \in Nat /\ l \in Nat /\ k <= l /\ k + 1 = n /\ l + 1 = m /\ n \in Nat
  OBVIOUS
<1>2. Grows(Base!Column(n), Base!Column(m), n, m)
  BY <1>1, ColumnGrows
<1> HIDE DEF k, l
<1>3. Grows(Base!Changes(Base!Column(n)), Base!Changes(Base!Column(m)), k, l)
  BY <1>1, <1>2, ChangesGrow
<1> QED BY <1>1, <1>2, <1>3 DEF k, l

(* A list that has nothing while the bars are too few.                     *)
LEMMA OneRemains ==
  ASSUME NEW s, NEW t, NEW n, Keeps(s, t, n)
  PROVE  Remain(Server!One(s), Server!One(t), n)
BY DEF Remain, Server!One

LEMMA ServerChangesGrow ==
  ASSUME NEW n \in Nat \ {0}, NEW m \in Nat, n <= m,
         NEW v, v = Server!Changes(Server!Column(n)), NEW x, x = Server!Changes(Server!Column(m))
  PROVE  /\ Grows(v, x, n - 1, m - 1) /\ n - 1 \in Nat /\ m - 1 \in Nat /\ n - 1 <= m - 1
         /\ Len(v) = n - 1 /\ Len(x) = m - 1
<1>1. v = Base!Changes(Base!Column(n)) /\ x = Base!Changes(Base!Column(m))
  BY ServerBase
<1>2. Grows(v, x, n - 1, m - 1) /\ n - 1 \in Nat /\ m - 1 \in Nat /\ n - 1 <= m - 1
  BY <1>1, ChangesGrown
<1> QED BY <1>2 DEF Grows, Lists

LEMMA AtrKeeps ==
  ASSUME NEW n \in Nat \ {0}, NEW m \in Nat, n <= m, NEW p \in Nat \ {0}
  PROVE  Keeps(Server!Atr(n, p), Server!Atr(m, p), n)
<1> DEFINE v == Server!Changes(Server!Column(n))
           x == Server!Changes(Server!Column(m))
           u == [i \in 1..(IF Len(v) < p THEN 0 ELSE Len(v) - p + 1) |->
                   Server!Span(v, 1, p + i - 1)]
           w == [i \in 1..(IF Len(x) < p THEN 0 ELSE Len(x) - p + 1) |->
                   Server!Span(x, 1, p + i - 1)]
<1>1. /\ Grows(v, x, n - 1, m - 1) /\ n - 1 \in Nat /\ m - 1 \in Nat /\ n - 1 <= m - 1
      /\ Len(v) = n - 1 /\ Len(x) = m - 1 /\ n \in Nat
  BY ServerChangesGrow, ZenonT(30)
<1>2. CASE n < p + 1
  <2>1. Len(v) < p
    BY <1>1, <1>2
  <2>2. Server!Atr(n, p) = Base!Nones(n)
    BY <1>2, <2>1, ServerBase DEF Server!Atr
  <2> QED BY <1>1, <2>2, NonesKeep
<1>3. CASE ~(n < p + 1)
  <2>0. ~(Len(v) < p) /\ ~(Len(x) < p) /\ ~(m < p + 1)
    BY <1>1, <1>3
  <2>1. Server!Atr(n, p) = Server!Nones(p) \o u /\ Server!Atr(m, p) = Server!Nones(p) \o w
    <3>1. Server!Atr(n, p) = Server!Nones(p) \o u
      BY <1>3, <2>0 DEF Server!Atr, Server!Each
    <3>2. Server!Atr(m, p) = Server!Nones(p) \o w
      BY <2>0 DEF Server!Atr, Server!Each
    <3> QED BY <3>1, <3>2
  <2>2. PrefixLoop(u, v, p, n - 1) /\ PrefixLoop(w, x, p, m - 1)
    BY <1>1, ServerBase DEF PrefixLoop
  <2> HIDE DEF u, v, w, x
  <2>3. p \in 1..(n - 1 + 1) /\ p \in 1..(p) /\ p \in Nat
    BY <1>3
  <2>4. Grows(Base!Nones(p) \o u, Base!Nones(p) \o w,
              p + (n - 1 - (p) + 1), p + (m - 1 - (p) + 1))
    <3> DEFINE k == n - 1
               l == m - 1
               a == p
    <3>1. /\ k \in Nat /\ l \in Nat /\ k <= l /\ Grows(v, x, k, l) /\ a \in 1..(k + 1) /\ p \in 1..a
          /\ PrefixLoop(u, v, a, k) /\ PrefixLoop(w, x, a, l)
      BY <1>1, <2>2, <2>3
    <3> HIDE DEF k, l, a
    <3>2. Grows(Base!Nones(p) \o u, Base!Nones(p) \o w, p + (k - a + 1), p + (l - a + 1))
      BY <2>3, <3>1, LedPrefixesGrow
    <3> QED BY <3>2 DEF k, l, a
  <2>5. Server!Nones(p) = Base!Nones(p)
    BY ServerBase
  <2> QED BY <2>1, <2>4, <2>5, GrowsKeeps
<1> QED BY <1>2, <1>3

LEMMA MfiKeeps ==
  ASSUME NEW n \in Nat \ {0}, NEW m \in Nat, n <= m, NEW p \in Nat \ {0}
  PROVE  Keeps(Server!Mfi(n, p), Server!Mfi(m, p), n)
<1> DEFINE v == Server!Changes(Server!Column(n))
           x == Server!Changes(Server!Column(m))
           u == [i \in 1..(IF Len(v) < p THEN 0 ELSE Len(v) - p + 1) |->
                   Server!Span(v, p + i - 1 - p + 1, p + i - 1)]
           w == [i \in 1..(IF Len(x) < p THEN 0 ELSE Len(x) - p + 1) |->
                   Server!Span(x, p + i - 1 - p + 1, p + i - 1)]
<1>1. /\ Grows(v, x, n - 1, m - 1) /\ n - 1 \in Nat /\ m - 1 \in Nat /\ n - 1 <= m - 1
      /\ Len(v) = n - 1 /\ Len(x) = m - 1 /\ n \in Nat
  BY ServerChangesGrow, ZenonT(30)
<1>2. CASE n < p + 1
  <2>1. Len(v) < p
    BY <1>1, <1>2
  <2>2. Server!Mfi(n, p) = Base!Nones(n)
    BY <1>2, <2>1, ServerBase DEF Server!Mfi
  <2> QED BY <1>1, <2>2, NonesKeep
<1>3. CASE ~(n < p + 1)
  <2>0. ~(Len(v) < p) /\ ~(Len(x) < p) /\ ~(m < p + 1)
    BY <1>1, <1>3
  <2>1. Server!Mfi(n, p) = Server!Nones(p) \o u /\ Server!Mfi(m, p) = Server!Nones(p) \o w
    <3>1. Server!Mfi(n, p) = Server!Nones(p) \o u
      BY <1>3, <2>0 DEF Server!Mfi, Server!Each
    <3>2. Server!Mfi(m, p) = Server!Nones(p) \o w
      BY <2>0 DEF Server!Mfi, Server!Each
    <3> QED BY <3>1, <3>2
  <2>2. WindowLoop(u, v, p, n - 1, p) /\ WindowLoop(w, x, p, m - 1, p)
    BY <1>1, ServerBase DEF WindowLoop
  <2> HIDE DEF u, v, w, x
  <2>3. p \in 1..(n - 1 + 1) /\ p \in 1..(p) /\ p \in Nat
    BY <1>3
  <2>4. Grows(Base!Nones(p) \o u, Base!Nones(p) \o w,
              p + (n - 1 - (p) + 1), p + (m - 1 - (p) + 1))
    <3> DEFINE k == n - 1
               l == m - 1
               a == p
    <3>1. /\ k \in Nat /\ l \in Nat /\ k <= l /\ Grows(v, x, k, l) /\ a \in 1..(k + 1) /\ p \in 1..a
          /\ WindowLoop(u, v, a, k, p) /\ WindowLoop(w, x, a, l, p)
      BY <1>1, <2>2, <2>3
    <3> HIDE DEF k, l, a
    <3>2. Grows(Base!Nones(p) \o u, Base!Nones(p) \o w, p + (k - a + 1), p + (l - a + 1))
      BY <2>3, <3>1, LedWindowsGrow
    <3> QED BY <3>2 DEF k, l, a
  <2>5. Server!Nones(p) = Base!Nones(p)
    BY ServerBase
  <2> QED BY <2>1, <2>4, <2>5, GrowsKeeps
<1> QED BY <1>2, <1>3

LEMMA RsiKeeps ==
  ASSUME NEW n \in Nat \ {0}, NEW m \in Nat, n <= m, NEW p \in Nat \ {0}
  PROVE  Keeps(Server!Rsi(n, p), Server!Rsi(m, p), n)
<1> DEFINE v == Server!Changes(Server!Column(n))
           x == Server!Changes(Server!Column(m))
           u == [i \in 1..(IF Len(v) < p + 1 THEN 0 ELSE Len(v) - (p + 1) + 1) |->
                   Server!Span(v, 1, p + 1 + i - 1)]
           w == [i \in 1..(IF Len(x) < p + 1 THEN 0 ELSE Len(x) - (p + 1) + 1) |->
                   Server!Span(x, 1, p + 1 + i - 1)]
<1>1. /\ Grows(v, x, n - 1, m - 1) /\ n - 1 \in Nat /\ m - 1 \in Nat /\ n - 1 <= m - 1
      /\ Len(v) = n - 1 /\ Len(x) = m - 1 /\ n \in Nat
  BY ServerChangesGrow, ZenonT(30)
<1>2. CASE n < p + 1
  <2>1. Len(v) < p
    BY <1>1, <1>2
  <2>2. Server!Rsi(n, p) = Base!Nones(n)
    BY <1>2, <2>1, ServerBase DEF Server!Rsi
  <2> QED BY <1>1, <2>2, NonesKeep
<1>3. CASE ~(n < p + 1)
  <2>0. ~(Len(v) < p) /\ ~(Len(x) < p) /\ ~(m < p + 1)
    BY <1>1, <1>3
  <2>1. Server!Rsi(n, p) = Server!Nones(p) \o u /\ Server!Rsi(m, p) = Server!Nones(p) \o w
    <3>1. Server!Rsi(n, p) = Server!Nones(p) \o u
      BY <1>3, <2>0 DEF Server!Rsi, Server!Each
    <3>2. Server!Rsi(m, p) = Server!Nones(p) \o w
      BY <2>0 DEF Server!Rsi, Server!Each
    <3> QED BY <3>1, <3>2
  <2>2. PrefixLoop(u, v, p + 1, n - 1) /\ PrefixLoop(w, x, p + 1, m - 1)
    BY <1>1, ServerBase DEF PrefixLoop
  <2> HIDE DEF u, v, w, x
  <2>3. p + 1 \in 1..(n - 1 + 1) /\ p \in 1..(p + 1) /\ p \in Nat
    BY <1>3
  <2>4. Grows(Base!Nones(p) \o u, Base!Nones(p) \o w,
              p + (n - 1 - (p + 1) + 1), p + (m - 1 - (p + 1) + 1))
    <3> DEFINE k == n - 1
               l == m - 1
               a == p + 1
    <3>1. /\ k \in Nat /\ l \in Nat /\ k <= l /\ Grows(v, x, k, l) /\ a \in 1..(k + 1) /\ p \in 1..a
          /\ PrefixLoop(u, v, a, k) /\ PrefixLoop(w, x, a, l)
      BY <1>1, <2>2, <2>3
    <3> HIDE DEF k, l, a
    <3>2. Grows(Base!Nones(p) \o u, Base!Nones(p) \o w, p + (k - a + 1), p + (l - a + 1))
      BY <2>3, <3>1, LedPrefixesGrow
    <3> QED BY <3>2 DEF k, l, a
  <2>5. Server!Nones(p) = Base!Nones(p)
    BY ServerBase
  <2> QED BY <2>1, <2>4, <2>5, GrowsKeeps
<1> QED BY <1>2, <1>3

LEMMA HistoricalKeeps ==
  ASSUME NEW n \in Nat \ {0}, NEW m \in Nat, n <= m, NEW p \in Nat \ {0}
  PROVE  Keeps(Server!HistoricalVolatility(n, p), Server!HistoricalVolatility(m, p), n)
<1> DEFINE v == Server!Changes(Server!Column(n))
           x == Server!Changes(Server!Column(m))
           u == [i \in 1..(IF Len(v) < p + 1 THEN 0 ELSE Len(v) - (p + 1) + 1) |->
                   Server!Span(v, p + 1 + i - 1 - p + 1, p + 1 + i - 1)]
           w == [i \in 1..(IF Len(x) < p + 1 THEN 0 ELSE Len(x) - (p + 1) + 1) |->
                   Server!Span(x, p + 1 + i - 1 - p + 1, p + 1 + i - 1)]
<1>1. /\ Grows(v, x, n - 1, m - 1) /\ n - 1 \in Nat /\ m - 1 \in Nat /\ n - 1 <= m - 1
      /\ Len(v) = n - 1 /\ Len(x) = m - 1 /\ n \in Nat
  BY ServerChangesGrow, ZenonT(30)
<1>2. CASE n < p + 1
  <2>1. Len(v) < p
    BY <1>1, <1>2
  <2>2. Server!HistoricalVolatility(n, p) = Base!Nones(n)
    BY <1>2, <2>1, ServerBase DEF Server!HistoricalVolatility
  <2> QED BY <1>1, <2>2, NonesKeep
<1>3. CASE ~(n < p + 1)
  <2>0. ~(Len(v) < p) /\ ~(Len(x) < p) /\ ~(m < p + 1)
    BY <1>1, <1>3
  <2>1. /\ Server!HistoricalVolatility(n, p) = <<None>> \o Server!Nones(p) \o u
        /\ Server!HistoricalVolatility(m, p) = <<None>> \o Server!Nones(p) \o w
    <3>1. Server!HistoricalVolatility(n, p) = <<None>> \o Server!Nones(p) \o u
      BY <1>3, <2>0, SMTT(30) DEF Server!HistoricalVolatility, Server!Each
    <3>2. Server!HistoricalVolatility(m, p) = <<None>> \o Server!Nones(p) \o w
      BY <2>0, SMTT(30) DEF Server!HistoricalVolatility, Server!Each
    <3> QED BY <3>1, <3>2
  <2>2. WindowLoop(u, v, p + 1, n - 1, p) /\ WindowLoop(w, x, p + 1, m - 1, p)
    BY <1>1, ServerBase DEF WindowLoop
  <2> HIDE DEF u, v, w, x
  <2>3. p + 1 \in 1..(n - 1 + 1) /\ p \in 1..(p + 1) /\ p + 1 \in Nat
    BY <1>3
  <2>4. Grows(Base!Nones(p + 1) \o u, Base!Nones(p + 1) \o w,
              p + 1 + (n - 1 - (p + 1) + 1), p + 1 + (m - 1 - (p + 1) + 1))
    <3> DEFINE k == n - 1
               l == m - 1
               a == p + 1
    <3>1. /\ k \in Nat /\ l \in Nat /\ k <= l /\ Grows(v, x, k, l) /\ a \in 1..(k + 1) /\ p \in 1..a
          /\ WindowLoop(u, v, a, k, p) /\ WindowLoop(w, x, a, l, p)
      BY <1>1, <2>2, <2>3
    <3> HIDE DEF k, l, a
    <3>2. Grows(Base!Nones(p + 1) \o u, Base!Nones(p + 1) \o w, p + 1 + (k - a + 1), p + 1 + (l - a + 1))
      BY <2>3, <3>1, LedWindowsGrow
    <3> QED BY <3>2 DEF k, l, a
  <2>5. <<None>> \o Server!Nones(p) = Base!Nones(p + 1)
    BY OneMore, ServerBase
  <2> QED BY <2>1, <2>4, <2>5, GrowsKeeps
<1> QED BY <1>2, <1>3

(* Both begin as one list of the bars there are.                           *)
LEMMA ServerColumnGrows ==
  ASSUME NEW n \in Nat \ {0}, NEW m \in Nat, n <= m, NEW c, c = Server!Column(n),
         NEW d, d = Server!Column(m)
  PROVE  /\ Grows(c, d, n, m) /\ n \in Nat
         /\ Len(c) = n /\ Len(d) = m /\ Full(c) /\ Full(d)
<1>1. c = Base!Column(n) /\ d = Base!Column(m) /\ n \in Nat /\ m \in Nat \ {0}
  BY ServerBase
<1>2. Grows(c, d, n, m)
  BY <1>1, ChangesGrown
<1>3. Full(c) /\ Full(d)
  BY <1>1, FullColumn
<1> QED BY <1>1, <1>2, <1>3 DEF Grows, Lists

(* The range's place of a close and the mean of a window's closes are from *)
(* the same bars.                                                          *)
LEMMA AsSma ==
  ASSUME NEW n \in Nat, NEW p \in Nat \ {0}
  PROVE  /\ Server!Wma(Server!Column(n), p) = Server!Sma(Server!Column(n), p)
         /\ Server!WilliamsR(n, p) = Server!Sma(Server!Column(n), p)
         /\ Server!Vhf(n, p) = Server!Sma(Server!Column(n), p)
         /\ ~(n < p) => Server!RawK(n, p) = Server!Sma(Server!Column(n), p)
<1> DEFINE u == [i \in 1..(IF n < p THEN 0 ELSE n - p + 1) |->
                   Server!Span(Server!Column(n), p + i - 1 - p + 1, p + i - 1)]
<1>1. Len(Server!Column(n)) = n
  BY ServerBase, ColumnList DEF Lists
<1>2. Server!Sma(Server!Column(n), p) =
        IF n < p THEN Server!Nones(n) ELSE Server!Nones(p - 1) \o u
  BY <1>1 DEF Server!Sma, Server!Each
<1>3. Server!Wma(Server!Column(n), p) = Server!Sma(Server!Column(n), p)
  BY DEF Server!Wma, Server!Sma, Server!Each
<1>4. Server!WilliamsR(n, p) = IF n < p THEN Server!Nones(n) ELSE Server!Nones(p - 1) \o u
  BY DEF Server!WilliamsR, Server!Each
<1>5. Server!Vhf(n, p) = IF n < p THEN Server!Nones(n) ELSE Server!Nones(p - 1) \o u
  BY DEF Server!Vhf, Server!Each
<1>6. Server!RawK(n, p) = Server!Nones(p - 1) \o u
  BY DEF Server!RawK, Server!Each
<1> HIDE DEF u
<1> QED BY <1>2, <1>3, <1>4, <1>5, <1>6

(* Windows and loops of the server's lists, led by the nones of its warm-  *)
(* up.                                                                     *)
LEMMA WindowedKeep ==
  ASSUME NEW n \in Nat \ {0}, NEW m \in Nat, n <= m, NEW p \in Nat \ {0}
  PROVE  /\ Keeps(Server!Sma(Server!Column(n), p), Server!Sma(Server!Column(m), p), n)
         /\ Keeps(Server!Ema(Server!Column(n), p), Server!Ema(Server!Column(m), p), n)
         /\ Keeps(Server!Wma(Server!Column(n), p), Server!Wma(Server!Column(m), p), n)
         /\ Keeps(Server!WilliamsR(n, p), Server!WilliamsR(m, p), n)
         /\ Keeps(Server!Vhf(n, p), Server!Vhf(m, p), n)
         /\ Keeps(Server!Qstick(n, p), Server!Qstick(m, p), n)
<1> DEFINE c == Server!Column(n)
           d == Server!Column(m)
<1>1. Grows(c, d, n, m) /\ n \in Nat
  BY ServerColumnGrows
<1>2. /\ Server!Wma(c, p) = Server!Sma(c, p) /\ Server!Wma(d, p) = Server!Sma(d, p)
      /\ Server!WilliamsR(n, p) = Server!Sma(c, p) /\ Server!WilliamsR(m, p) = Server!Sma(d, p)
      /\ Server!Vhf(n, p) = Server!Sma(c, p) /\ Server!Vhf(m, p) = Server!Sma(d, p)
  BY <1>1, AsSma
<1>3. Server!Qstick(n, p) = Server!Sma(c, p) /\ Server!Qstick(m, p) = Server!Sma(d, p)
  BY DEF Server!Qstick
<1> HIDE DEF c, d
<1>4. Grows(Server!Sma(c, p), Server!Sma(d, p), n, m) /\ Grows(Server!Ema(c, p), Server!Ema(d, p), n, m)
  BY <1>1, AveragesGrow
<1>5. Keeps(Server!Sma(c, p), Server!Sma(d, p), n) /\ Keeps(Server!Ema(c, p), Server!Ema(d, p), n)
  BY <1>4, GrowsKeeps
<1> QED BY <1>2, <1>3, <1>5 DEF c, d

(* A loop over places of its own.                                          *)
LEMMA LoopKeeps ==
  ASSUME NEW k \in Nat, NEW c \in Nat, NEW d \in Nat, c <= d, NEW n,
         NEW t, NEW u, DOMAIN t = 1..c, DOMAIN u = 1..d, \A i \in 1..d : u[i] \in Entries,
         \A i \in 1..c : t[i] = u[i],
         t = [i \in 1..c |-> t[i]], u = [i \in 1..d |-> u[i]]
  PROVE  Keeps(Base!Nones(k) \o t, Base!Nones(k) \o u, n)
<1>1. \A i \in 1..c : i \in 1..d
  OBVIOUS
<1>2. t \in Lists(c) /\ u \in Lists(d)
  <2>1. t \in [1..c -> Entries]
    BY <1>1
  <2>2. u \in [1..d -> Entries]
    OBVIOUS
  <2> QED BY <2>1, <2>2, AList
<1>3. Grows(t, u, c, d)
  BY <1>2 DEF Grows
<1>4. Grows(Base!Nones(k) \o t, Base!Nones(k) \o u, k + c, k + d)
  BY <1>3, LedGrows
<1> QED BY <1>4, GrowsKeeps

LEMMA RocKeeps ==
  ASSUME NEW n \in Nat \ {0}, NEW m \in Nat, n <= m, NEW p \in Nat \ {0}
  PROVE  /\ Keeps(Server!Roc(n, p), Server!Roc(m, p), n)
         /\ Keeps(Server!VolumeRoc(n, p), Server!VolumeRoc(m, p), n)
<1>0. n \in Nat /\ p \in Nat
  OBVIOUS
<1>1. Keeps(Server!Roc(n, p), Server!Roc(m, p), n)
  <2>1. CASE n < p + 1
    <3>1. Server!Roc(n, p) = Base!Nones(n)
      BY <2>1, ServerBase DEF Server!Roc
    <3> QED BY <1>0, <3>1, NonesKeep
  <2>2. CASE ~(n < p + 1)
    <3> DEFINE u(k) == [i \in 1..(IF k < p + 1 THEN 0 ELSE k - (p + 1) + 1) |->
                          [of |-> {p + 1 + i - 1}, on |-> {p + 1 + i - 1, p + 1 + i - 1 - p}]]
               w(k) == [i \in 1..(k - p) |-> [of |-> {p + i}, on |-> {p + i, i}]]
    <3>0. ~(m < p + 1) /\ n - p \in Nat /\ m - p \in Nat /\ n - p <= m - p
      BY <2>2
    <3>1. Server!Roc(n, p) = Server!Nones(p) \o u(n)
      BY <2>2 DEF Server!Roc, Server!Each
    <3>2. Server!Roc(m, p) = Server!Nones(p) \o u(m)
      BY <3>0 DEF Server!Roc, Server!Each
    <3>3. ASSUME NEW k \in Nat, ~(k < p + 1) PROVE u(k) = w(k)
      <4>1. (IF k < p + 1 THEN 0 ELSE k - (p + 1) + 1) = k - p
        BY <3>3
      <4>2. \A i \in 1..(k - p) : p + 1 + i - 1 = p + i /\ p + 1 + i - 1 - p = i
        OBVIOUS
      <4> QED BY <4>1, <4>2
    <3>4. u(n) = w(n) /\ u(m) = w(m)
      BY <1>0, <2>2, <3>0, <3>3
    <3>5. \A i \in 1..(m - p) : w(m)[i] \in Entries
      BY DEF Entries, Figures
    <3>6. \A i \in 1..(n - p) : w(n)[i] = w(m)[i]
      BY <3>0
    <3>7. /\ DOMAIN w(n) = 1..(n - p) /\ DOMAIN w(m) = 1..(m - p)
          /\ w(n) = [i \in 1..(n - p) |-> w(n)[i]] /\ w(m) = [i \in 1..(m - p) |-> w(m)[i]]
      OBVIOUS
    <3> HIDE DEF u, w
    <3> DEFINE c == n - p
               d == m - p
    <3>8. /\ c \in Nat /\ d \in Nat /\ c <= d
          /\ \A i \in 1..d : w(m)[i] \in Entries
          /\ \A i \in 1..c : w(n)[i] = w(m)[i]
          /\ DOMAIN w(n) = 1..c /\ DOMAIN w(m) = 1..d
          /\ w(n) = [i \in 1..c |-> w(n)[i]] /\ w(m) = [i \in 1..d |-> w(m)[i]]
      BY <3>0, <3>5, <3>6, <3>7
    <3> HIDE DEF c, d
    <3>9. Keeps(Base!Nones(p) \o w(n), Base!Nones(p) \o w(m), n)
      BY <1>0, <3>8, LoopKeeps
    <3> QED BY <3>1, <3>2, <3>4, <3>9, ServerBase
  <2> QED BY <2>1, <2>2
<1> QED BY <1>1 DEF Server!VolumeRoc

LEMMA CciIs ==
  ASSUME NEW n \in Nat \ {0}, NEW p \in Nat \ {0}, ~(n < p)
  PROVE  Server!Cci(n, p) = Server!Nones(p - 1) \o
           [i \in 1..(IF n < p THEN 0 ELSE n - p + 1) |->
              Server!Joint({Server!Span(Server!Column(n), p + i - 1 - p + 1, p + i - 1),
                            Server!Sma(Server!Column(n), p)[p + i - 1]})]
BY SMTT(30) DEF Server!Cci, Server!Each

LEMMA CciKeeps ==
  ASSUME NEW n \in Nat \ {0}, NEW m \in Nat, n <= m, NEW p \in Nat \ {0}
  PROVE  Keeps(Server!Cci(n, p), Server!Cci(m, p), n)
<1>0. n \in Nat /\ p - 1 \in Nat
  OBVIOUS
<1>1. CASE n < p
  <2>1. Server!Cci(n, p) = Base!Nones(n)
    BY <1>1, ServerBase DEF Server!Cci
  <2> QED BY <1>0, <2>1, NonesKeep
<1>2. CASE ~(n < p)
  <2> DEFINE col(k) == Server!Column(k)
             sma(k) == Server!Sma(col(k), p)
             u(k) == [i \in 1..(IF k < p THEN 0 ELSE k - p + 1) |->
                        Server!Joint({Server!Span(col(k), p + i - 1 - p + 1, p + i - 1),
                                      sma(k)[p + i - 1]})]
             w(k) == [i \in 1..(k - p + 1) |->
                        Base!Joint({Base!Span(col(k), i, p + i - 1), sma(k)[p + i - 1]})]
  <2>0. /\ ~(m < p) /\ n - p + 1 \in Nat /\ m - p + 1 \in Nat /\ n - p + 1 <= m - p + 1
    BY <1>2
  <2>1. Server!Cci(n, p) = Server!Nones(p - 1) \o u(n)
    BY <1>2, CciIs
  <2>2. Server!Cci(m, p) = Server!Nones(p - 1) \o u(m)
    <3>1. m \in Nat \ {0}
      OBVIOUS
    <3> QED BY <2>0, <3>1, CciIs
  <2>3. Grows(col(n), col(m), n, m)
    BY ServerColumnGrows
  <2> HIDE DEF col
  <2>4. Grows(sma(n), sma(m), n, m)
    BY <1>0, <2>3, AveragesGrow
  <2> HIDE DEF sma
  <2>5. ASSUME NEW k \in Nat, ~(k < p) PROVE u(k) = w(k)
    <3>1. (IF k < p THEN 0 ELSE k - p + 1) = k - p + 1
      BY <2>5
    <3>2. \A i \in 1..(k - p + 1) : p + i - 1 - p + 1 = i
      OBVIOUS
    <3> QED BY <3>1, <3>2, ServerBase
  <2>6. u(n) = w(n) /\ u(m) = w(m)
    BY <1>0, <1>2, <2>0, <2>5
  <2> HIDE DEF u
  <2>7. ASSUME NEW i \in 1..(m - p + 1) PROVE w(m)[i] \in Entries
    <3> DEFINE b == p + i - 1
    <3>1. i \in 1..m /\ b \in i..m /\ b \in 1..m
      BY <2>0
    <3>2. w(m)[i] = Base!Joint({Base!Span(col(m), i, b), sma(m)[b]})
      OBVIOUS
    <3> HIDE DEF b, w
    <3>3. col(m) \in Lists(m) /\ sma(m) \in Lists(m)
      BY <2>3, <2>4 DEF Grows
    <3>4. Base!Span(col(m), i, b) \in Entries /\ sma(m)[b] \in Entries
      BY <3>1, <3>3, SpanFacts, ListFacts
    <3> QED BY <3>2, <3>4, JointFacts
  <2>8. ASSUME NEW i \in 1..(n - p + 1) PROVE w(n)[i] = w(m)[i]
    <3> DEFINE b == p + i - 1
    <3>1. i \in Nat \ {0} /\ b \in 1..n /\ i \in 1..(m - p + 1)
      BY <2>0
    <3>2. /\ w(n)[i] = Base!Joint({Base!Span(col(n), i, b), sma(n)[b]})
          /\ w(m)[i] = Base!Joint({Base!Span(col(m), i, b), sma(m)[b]})
      BY <3>1
    <3> HIDE DEF b, w
    <3>3. Base!Span(col(n), i, b) = Base!Span(col(m), i, b)
      BY <1>0, <2>3, <3>1, SpanGrows
    <3>4. sma(n)[b] = sma(m)[b]
      BY <2>4, <3>1 DEF Grows
    <3> QED BY <3>2, <3>3, <3>4
  <2>9. /\ DOMAIN w(n) = 1..(n - p + 1) /\ DOMAIN w(m) = 1..(m - p + 1)
        /\ w(n) = [i \in 1..(n - p + 1) |-> w(n)[i]] /\ w(m) = [i \in 1..(m - p + 1) |-> w(m)[i]]
    OBVIOUS
  <2> HIDE DEF w
  <2> DEFINE c == n - p + 1
             d == m - p + 1
             l == p - 1
  <2>10. /\ c \in Nat /\ d \in Nat /\ c <= d /\ l \in Nat
         /\ \A i \in 1..d : w(m)[i] \in Entries
         /\ \A i \in 1..c : w(n)[i] = w(m)[i]
         /\ DOMAIN w(n) = 1..c /\ DOMAIN w(m) = 1..d
         /\ w(n) = [i \in 1..c |-> w(n)[i]] /\ w(m) = [i \in 1..d |-> w(m)[i]]
    BY <1>0, <2>0, <2>7, <2>8, <2>9
  <2> HIDE DEF c, d, l
  <2>12. Keeps(Base!Nones(l) \o w(n), Base!Nones(l) \o w(m), n)
    BY <2>10, LoopKeeps
  <2> QED BY <2>1, <2>2, <2>6, <2>12, ServerBase DEF l
<1> QED BY <1>1, <1>2

(* The bands and the ribbon.                                               *)
LEMMA BollingerRemains ==
  ASSUME NEW n \in Nat \ {0}, NEW m \in Nat, n <= m, NEW p \in Nat \ {0}
  PROVE  Remain(Server!Bollinger(n, p), Server!Bollinger(m, p), n)
<1> DEFINE col(k) == Server!Column(k)
           sma(k) == Server!Sma(col(k), p)
           band(k) == [i \in 1..(IF k < 1 THEN 0 ELSE k - 1 + 1) |->
                         IF 1 + i - 1 < p THEN None
                         ELSE Server!Joint({sma(k)[1 + i - 1],
                                            Server!Span(col(k), 1 + i - 1 - p + 1, 1 + i - 1)})]
<1>0. n \in Nat
  OBVIOUS
<1>1. /\ Server!Bollinger(n, p) = [upper |-> band(n), middle |-> sma(n), lower |-> band(n)]
      /\ Server!Bollinger(m, p) = [upper |-> band(m), middle |-> sma(m), lower |-> band(m)]
  BY DEF Server!Bollinger, Server!Each
<1>2. Grows(col(n), col(m), n, m)
  BY ServerColumnGrows
<1> HIDE DEF col
<1>3. Grows(sma(n), sma(m), n, m)
  BY <1>0, <1>2, AveragesGrow
<1> HIDE DEF sma
<1>4. ASSUME NEW k \in Nat, NEW i \in 1..k
      PROVE  band(k)[i] = IF i < p THEN None
                          ELSE Base!Joint({sma(k)[i], Base!Span(col(k), i - p + 1, i)})
  <2>1. (IF k < 1 THEN 0 ELSE k - 1 + 1) = k /\ 1 + i - 1 = i
    OBVIOUS
  <2> QED BY <2>1, ServerBase
<1> HIDE DEF band
<1>5. ASSUME NEW i \in 1..n PROVE band(n)[i] = band(m)[i]
  <2>1. i \in 1..m
    OBVIOUS
  <2>2. /\ band(n)[i] = IF i < p THEN None
                        ELSE Base!Joint({sma(n)[i], Base!Span(col(n), i - p + 1, i)})
        /\ band(m)[i] = IF i < p THEN None
                        ELSE Base!Joint({sma(m)[i], Base!Span(col(m), i - p + 1, i)})
    BY <1>0, <1>4, <2>1
  <2>3. CASE i < p
    BY <2>2, <2>3
  <2>4. CASE ~(i < p)
    <3>1. i - p + 1 \in Nat \ {0}
      BY <2>4
    <3>2. Base!Span(col(n), i - p + 1, i) = Base!Span(col(m), i - p + 1, i)
      BY <1>0, <1>2, <3>1, SpanGrows
    <3>3. sma(n)[i] = sma(m)[i]
      BY <1>3 DEF Grows
    <3> QED BY <2>2, <2>4, <3>2, <3>3
  <2> QED BY <2>3, <2>4
<1>6. Keeps(band(n), band(m), n)
  BY <1>5 DEF Keeps
<1>7. Keeps(sma(n), sma(m), n)
  BY <1>3, GrowsKeeps
<1> QED BY <1>1, <1>6, <1>7 DEF Remain

LEMMA SumsKeep ==
  ASSUME NEW n \in Nat \ {0}, NEW m \in Nat, n <= m, NEW dry
  PROVE  /\ Keeps(Server!Obv(n), Server!Obv(m), n)
         /\ Keeps(Server!AccumulationDistribution(n), Server!AccumulationDistribution(m), n)
         /\ Keeps(Server!Vwap(n, dry), Server!Vwap(m, dry), n)
<1> DEFINE c(k) == Base!Column(k)
<1>0. n \in Nat
  OBVIOUS
<1>1. ASSUME NEW i \in 1..n PROVE Base!Span(c(n), 1, i) = Base!Span(c(m), 1, i)
  <2>1. Grows(c(n), c(m), n, m)
    BY <1>0, ColumnGrows
  <2> HIDE DEF c
  <2>2. 1 \in Nat \ {0}
    OBVIOUS
  <2> QED BY <1>0, <2>1, <2>2, SpanGrows
<1>2. ASSUME NEW k \in Nat \ {0}, NEW i \in 1..k
      PROVE  /\ Server!Obv(k)[i] = Base!Span(c(k), 1, i)
             /\ Server!Vwap(k, dry)[i] = IF i <= dry THEN None ELSE Base!Span(c(k), 1, i)
  <2>0. (IF k < 1 THEN 0 ELSE k - 1 + 1) = k /\ 1 + i - 1 = i
    OBVIOUS
  <2>1. Server!Obv(k)[i] = Base!Span(c(k), 1, i)
    <3> DEFINE u == Server!Obv(k)
    <3>1. u = [j \in 1..(IF k < 1 THEN 0 ELSE k - 1 + 1) |->
                 Server!Span(Server!Column(k), 1, 1 + j - 1)]
      BY DEF Server!Obv, Server!Each
    <3> HIDE DEF u, c
    <3>2. u[i] = Base!Span(c(k), 1, i)
      BY <2>0, <3>1, ServerBase DEF c
    <3> QED BY <3>2 DEF u
  <2>2. Server!Vwap(k, dry)[i] = IF i <= dry THEN None ELSE Base!Span(c(k), 1, i)
    <3> DEFINE u == Server!Vwap(k, dry)
    <3>1. u = [j \in 1..(IF k < 1 THEN 0 ELSE k - 1 + 1) |->
                 IF 1 + j - 1 <= dry THEN None
                 ELSE Server!Span(Server!Column(k), 1, 1 + j - 1)]
      BY DEF Server!Vwap, Server!Each
    <3> HIDE DEF u, c
    <3>2. u[i] = IF i <= dry THEN None ELSE Base!Span(c(k), 1, i)
      BY <2>0, <3>1, ServerBase DEF c
    <3> QED BY <3>2 DEF u
  <2> QED BY <2>1, <2>2
<1> HIDE DEF c
<1>3. ASSUME NEW i \in 1..n
      PROVE  Server!Obv(n)[i] = Server!Obv(m)[i] /\ Server!Vwap(n, dry)[i] = Server!Vwap(m, dry)[i]
  <2>1. i \in 1..m /\ m \in Nat \ {0}
    OBVIOUS
  <2> QED BY <1>1, <1>2, <2>1
<1>4. Keeps(Server!Obv(n), Server!Obv(m), n) /\ Keeps(Server!Vwap(n, dry), Server!Vwap(m, dry), n)
  BY <1>3 DEF Keeps
<1>5. \A k : Server!AccumulationDistribution(k) = Server!Obv(k)
  BY DEF Server!AccumulationDistribution, Server!Obv, Server!Each
<1> QED BY <1>4, <1>5

LEMMA BandsRemain ==
  ASSUME NEW n \in Nat \ {0}, NEW m \in Nat, n <= m, NEW p \in Nat \ {0}
  PROVE  /\ Remain(Server!Keltner(n, p), Server!Keltner(m, p), n)
         /\ Keeps(Server!Natr(n, p), Server!Natr(m, p), n)
<1> DEFINE col(k) == Server!Column(k)
           ema(k) == Server!Ema(col(k), p)
           atr(k) == Server!Atr(k, p)
           band(k) == Base!Zip(ema(k), atr(k))
           natr(k) == Base!Zip(atr(k), col(k))
<1>0. n \in Nat /\ m \in Nat \ {0}
  OBVIOUS
<1>1. Grows(col(n), col(m), n, m)
  BY ServerColumnGrows
<1>2. Grows(ema(n), ema(m), n, m)
  BY <1>0, <1>1, AveragesGrow
<1>3. /\ ema(n) \in Lists(n) /\ ema(m) \in Lists(m) /\ Keeps(ema(n), ema(m), n)
      /\ col(n) \in Lists(n) /\ col(m) \in Lists(m) /\ Keeps(col(n), col(m), n)
  <2> HIDE DEF col, ema
  <2> QED BY <1>1, <1>2, GrowsKeeps DEF Grows
<1>4. atr(n) \in Lists(n) /\ atr(m) \in Lists(m) /\ Keeps(atr(n), atr(m), n)
  BY <1>0, ServerAtr, AtrKeeps DEF InPlace
<1>5. /\ \A k : Server!Keltner(k, p) = [upper |-> band(k), middle |-> ema(k), lower |-> band(k)]
      /\ \A k : Server!Natr(k, p) = natr(k)
  BY ServerBase DEF Server!Keltner, Server!Natr
<1> HIDE DEF col, ema, atr
<1>6. Keeps(band(n), band(m), n) /\ Keeps(natr(n), natr(m), n)
  BY <1>0, <1>3, <1>4, ZipKeeps
<1> HIDE DEF band, natr
<1> QED BY <1>3, <1>5, <1>6 DEF Remain

LEMMA RibbonRemains ==
  ASSUME NEW n \in Nat \ {0}, NEW m \in Nat, n <= m, NEW p \in Nat \ {0}, NEW q
  PROVE  Remain(Server!One(Server!Ribbon(n, p, q).ema_p), Server!One(Server!Ribbon(m, p, q).ema_p), n)
<1>1. \A k : Server!Ribbon(k, p, q).ema_p = Server!Ema(Server!Column(k), p)
  BY DEF Server!Ribbon
<1>2. Keeps(Server!Ema(Server!Column(n), p), Server!Ema(Server!Column(m), p), n)
  BY WindowedKeep
<1> QED BY <1>1, <1>2, OneRemains

(* The signal line of MACD begins where both averages have.                *)
LEMMA BeginsTogether ==
  ASSUME NEW n \in Nat, NEW s \in Lists(n), NEW r \in Lists(n), NEW j \in Int, NEW k \in Int,
         Begins(s, n, j), Begins(r, n, k), NEW l, l = IF j < k THEN k ELSE j
  PROVE  Begins(Base!Zip(s, r), n, l)
<1>1. \A i \in 1..n : Base!Zip(s, r)[i] = None <=> s[i] = None \/ r[i] = None
  BY ZipNones DEF NoneWithEither
<1> DEFINE z == Base!Zip(s, r)
<1> HIDE DEF z
<1>2. \A i \in 1..n : z[i] = None <=> i <= l
  BY <1>1 DEF Begins, z
<1>3. Begins(z, n, l)
  BY <1>2 DEF Begins
<1> QED BY <1>3 DEF z

(* The signal line, an average of the numbers that the macd has.           *)
SignalLine(macd, p) ==
  Server!Nones(Len(macd) - Len(Server!Known(macd))) \o Server!Ema(Server!Known(macd), p)

LEMMA SignalKeeps ==
  ASSUME NEW n \in Nat, NEW m \in Nat, n <= m, NEW s, NEW t, Grows(s, t, n, m),
         NEW k \in Nat, Begins(s, n, k), Begins(t, m, k), NEW p \in Nat \ {0}
  PROVE  Keeps(SignalLine(s, p), SignalLine(t, p), n)
<1>1. s \in Lists(n) /\ t \in Lists(m) /\ Len(s) = n /\ Len(t) = m
  BY DEF Grows, Lists
<1>2. CASE n <= k
  <2> DEFINE e == Server!Ema(Base!Known(s), p)
  <2>1. Base!Known(s) \in Lists(0)
    <3>1. \A i \in 1..n : s[i] = None
      BY <1>2 DEF Begins
    <3>2. /\ n \in 0..n /\ \A i \in (n + 1)..n : s[i] # None
          /\ n - n = 0
      OBVIOUS
    <3>3. Base!Known(s) \in Lists(n - n)
      BY <1>1, <3>1, <3>2, KnownList
    <3> QED BY <3>2, <3>3
  <2>2. e \in Lists(0)
    BY <2>1, EmaAt
  <2>3. Len(Base!Known(s)) = 0
    BY <2>1 DEF Lists
  <2> HIDE DEF e
  <2>4. SignalLine(s, p) = Base!Nones(n) \o e
    BY <1>1, <2>3, ServerBase DEF SignalLine, e
  <2>5. \A i \in 1..n : (Base!Nones(n) \o e)[i] = None
    <3>1. n \in Nat /\ 0 \in Nat
      OBVIOUS
    <3> QED BY ONLY <2>2, <3>1, Led
  <2> QED BY <2>4, <2>5 DEF Keeps
<1>3. CASE ~(n <= k)
  <2> DEFINE x == Base!Known(s)
             y == Base!Known(t)
             c == n - k
             d == m - k
  <2>0. c \in Nat /\ d \in Nat /\ c <= d /\ k \in 0..n /\ n - c = k /\ m - d = k
    BY <1>3
  <2>1. Grows(x, y, c, d)
    BY <2>0, KnownGrows
  <2> HIDE DEF x, y, c, d
  <2>2. Grows(Server!Ema(x, p), Server!Ema(y, p), c, d)
    BY <2>0, <2>1, AveragesGrow
  <2>3. Len(x) = c /\ Len(y) = d
    BY <2>1 DEF Grows, Lists
  <2>4. /\ SignalLine(s, p) = Base!Nones(k) \o Server!Ema(x, p)
        /\ SignalLine(t, p) = Base!Nones(k) \o Server!Ema(y, p)
    BY <1>1, <2>0, <2>3, ServerBase DEF SignalLine, x, y
  <2>5. Grows(Base!Nones(k) \o Server!Ema(x, p), Base!Nones(k) \o Server!Ema(y, p), k + c, k + d)
    BY <2>0, <2>2, LedGrows
  <2> QED BY <2>4, <2>5, GrowsKeeps
<1> QED BY <1>2, <1>3

LEMMA MacdRemains ==
  ASSUME NEW n \in Nat \ {0}, NEW m \in Nat, n <= m,
         NEW a \in Nat \ {0}, NEW b \in Nat \ {0}, NEW p \in Nat \ {0}
  PROVE  Remain(Server!Macd(n, a, b, p), Server!Macd(m, a, b, p), n)
<1> DEFINE col(x) == Server!Column(x)
           short(x) == Server!Ema(col(x), a)
           long(x) == Server!Ema(col(x), b)
           macd(x) == Base!Zip(short(x), long(x))
           sig(x) == SignalLine(macd(x), p)
           k == IF a - 1 < b - 1 THEN b - 1 ELSE a - 1
<1>0. n \in Nat /\ m \in Nat \ {0} /\ k \in Nat /\ a - 1 \in Int /\ b - 1 \in Int
  OBVIOUS
<1>1. \A x : Server!Macd(x, a, b, p) =
               [macd |-> macd(x), signal |-> sig(x), histogram |-> Base!Zip(macd(x), sig(x))]
  BY ServerBase DEF Server!Macd, SignalLine
<1>2. Grows(col(n), col(m), n, m) /\ Full(col(n)) /\ Full(col(m))
  BY ServerColumnGrows
<1>3. sig(n) \in Lists(n) /\ sig(m) \in Lists(m)
  <2> HIDE DEF macd, sig
  <2>1. ASSUME NEW x \in Nat \ {0} PROVE sig(x) \in Lists(x)
    <3> DEFINE all == Server!Macd(x, a, b, p)
    <3>1. "signal" \in DOMAIN all /\ all["signal"] = sig(x)
      BY <1>1
    <3>2. \A f \in DOMAIN all : InPlace(all[f], x)
      BY ServerMacd
    <3> HIDE DEF all
    <3> QED BY <3>1, <3>2 DEF InPlace
  <2> QED BY <1>0, <2>1
<1> HIDE DEF col
<1>4. /\ Grows(short(n), short(m), n, m) /\ Grows(long(n), long(m), n, m)
      /\ Begins(short(n), n, a - 1) /\ Begins(long(n), n, b - 1)
  BY <1>0, <1>2, AveragesGrow
<1>5. Begins(short(m), m, a - 1) /\ Begins(long(m), m, b - 1)
  <2>1. Grows(col(m), col(m), m, m)
    BY <1>2 DEF Grows
  <2> QED BY <1>0, <1>2, <2>1, AveragesGrow
<1> HIDE DEF short, long
<1>6. Grows(macd(n), macd(m), n, m)
  BY <1>0, <1>4, ZipGrows
<1>7. /\ short(n) \in Lists(n) /\ long(n) \in Lists(n)
      /\ short(m) \in Lists(m) /\ long(m) \in Lists(m)
  BY <1>4 DEF Grows
<1>8. Begins(macd(n), n, k) /\ Begins(macd(m), m, k)
  <2> HIDE DEF macd
  <2>1. Begins(macd(n), n, k)
    BY <1>0, <1>4, <1>7, BeginsTogether DEF macd
  <2>2. Begins(macd(m), m, k)
    BY <1>0, <1>5, <1>7, BeginsTogether DEF macd
  <2> QED BY <2>1, <2>2
<1> HIDE DEF k, macd
<1>9. Keeps(sig(n), sig(m), n)
  BY <1>0, <1>6, <1>8, SignalKeeps
<1> HIDE DEF sig
<1>10. Keeps(macd(n), macd(m), n) /\ macd(n) \in Lists(n) /\ macd(m) \in Lists(m)
  BY <1>6, GrowsKeeps DEF Grows
<1>11. Keeps(Base!Zip(macd(n), sig(n)), Base!Zip(macd(m), sig(m)), n)
  BY <1>0, <1>3, <1>9, <1>10, ZipKeeps
<1> QED BY <1>1, <1>9, <1>10, <1>11 DEF Remain

(* The stochastic lines, smoothed over the numbers that are there.         *)
LEMMA LedBegins ==
  ASSUME NEW k \in Nat, NEW c \in Nat, NEW t \in Lists(c), NEW j \in Int, j >= 0, Begins(t, c, j)
  PROVE  /\ Base!Nones(k) \o t \in Lists(k + c)
         /\ Begins(Base!Nones(k) \o t, k + c, k + j)
<1> DEFINE s == Base!Nones(k) \o t
<1>1. /\ s \in Lists(k + c)
      /\ \A i \in 1..k : s[i] = None
      /\ \A i \in 1..c : s[k + i] = t[i]
  BY Led
<1> HIDE DEF s
<1>2. ASSUME NEW i \in 1..(k + c) PROVE s[i] = None <=> i <= k + j
  <2>1. CASE i <= k
    <3>1. i \in 1..k /\ i <= k + j
      BY <2>1
    <3> QED BY <1>1, <3>1
  <2>2. CASE i > k
    <3>1. i - k \in 1..c /\ k + (i - k) = i /\ (i - k <= j <=> i <= k + j)
      BY <2>2
    <3>2. s[k + (i - k)] = t[i - k]
      BY <1>1, <3>1
    <3>3. t[i - k] = None <=> i - k <= j
      BY <3>1 DEF Begins
    <3> QED BY <3>1, <3>2, <3>3
  <2> QED BY <2>1, <2>2
<1>3. Begins(s, k + c, k + j)
  BY <1>2 DEF Begins
<1> QED BY <1>1, <1>3 DEF s

(* The mean of the numbers that a list has.                                *)
SmoothKeeps(s, t, n, l, p) ==
  Keeps(Base!Nones(l) \o Server!Sma(Base!Known(s), p),
        Base!Nones(l) \o Server!Sma(Base!Known(t), p), n)

LEMMA SmoothedKeeps ==
  ASSUME NEW n \in Nat, NEW m \in Nat, n <= m, NEW s, NEW t, Grows(s, t, n, m),
         NEW k \in Nat, Begins(s, n, k), Begins(t, m, k), NEW l \in Nat, NEW p \in Nat \ {0}
  PROVE  SmoothKeeps(s, t, n, l, p)
<1>1. s \in Lists(n) /\ t \in Lists(m)
  BY DEF Grows
<1>2. CASE n <= k
  <2> DEFINE e == Server!Sma(Base!Known(s), p)
  <2>1. Base!Known(s) \in Lists(0)
    <3>1. \A i \in 1..n : s[i] = None
      BY <1>2 DEF Begins
    <3>2. /\ n \in 0..n /\ \A i \in (n + 1)..n : s[i] # None
          /\ n - n = 0
      OBVIOUS
    <3>3. Base!Known(s) \in Lists(n - n)
      BY <1>1, <3>1, <3>2, KnownList
    <3> QED BY <3>2, <3>3
  <2>2. e \in Lists(0)
    BY <2>1, SmaAt
  <2> HIDE DEF e
  <2> DEFINE x == Base!Nones(l) \o e
  <2>3. x \in Lists(l + 0) /\ \A i \in 1..l : x[i] = None
    <3>1. 0 \in Nat
      OBVIOUS
    <3> QED BY ONLY <2>2, <3>1, l \in Nat, Led, ZenonT(30)
  <2> HIDE DEF x
  <2>4. DOMAIN x = 1..l
    BY <2>3, ListFacts
  <2> HIDE DEF x
  <2>5. \A y : Keeps(x, y, n)
    BY <2>3, <2>4 DEF Keeps
  <2> QED BY <2>5 DEF SmoothKeeps, x, e
<1>3. CASE ~(n <= k)
  <2> DEFINE x == Base!Known(s)
             y == Base!Known(t)
             c == n - k
             d == m - k
  <2>0. c \in Nat /\ d \in Nat /\ c <= d /\ k \in 0..n
    BY <1>3
  <2>1. Grows(x, y, c, d)
    BY <2>0, KnownGrows
  <2> HIDE DEF x, y, c, d
  <2>2. Grows(Server!Sma(x, p), Server!Sma(y, p), c, d)
    BY <2>0, <2>1, AveragesGrow
  <2>5. Grows(Base!Nones(l) \o Server!Sma(x, p), Base!Nones(l) \o Server!Sma(y, p), l + c, l + d)
    BY <2>0, <2>2, LedGrows
  <2> QED BY <2>5, GrowsKeeps DEF SmoothKeeps, x, y
<1> QED BY <1>2, <1>3

LEMMA StochasticRemains ==
  ASSUME NEW n \in Nat \ {0}, NEW m \in Nat, n <= m, NEW p \in Nat \ {0}, NEW q \in Nat \ {0}
  PROVE  Remain(Server!Stochastic(n, p, q, q), Server!Stochastic(m, p, q, q), n)
<1> DEFINE raw(x) == Server!RawK(x, p)
           fast(x) == IF q > 1 THEN Base!Nones(p - 1) \o Server!Sma(Base!Known(raw(x)), q) ELSE raw(x)
           slow(x) == Base!Nones(p - 1) \o Server!Sma(Base!Known(fast(x)), q)
           none(x) == Base!Nones(x)
<1>0. n \in Nat /\ m \in Nat \ {0} /\ p - 1 \in Nat /\ q - 1 \in Nat
  OBVIOUS
<1>1. \A x : Server!Stochastic(x, p, q, q) =
               IF x < p THEN [k |-> none(x), d |-> none(x)] ELSE [k |-> fast(x), d |-> slow(x)]
  BY ServerBase DEF Server!Stochastic
<1>2. CASE n < p
  <2>1. Server!Stochastic(n, p, q, q) = [k |-> none(n), d |-> none(n)]
    <3> HIDE DEF fast, slow, none
    <3> QED BY <1>1, <1>2
  <2>2. \A t : Keeps(none(n), t, n)
    BY <1>0, NonesKeep
  <2> HIDE DEF none
  <2> QED BY <2>1, <2>2 DEF Remain
<1>3. CASE ~(n < p)
  <2> DEFINE col(x) == Server!Column(x)
             c == n - (p - 1)
             d == m - (p - 1)
             l == p - 1
             k == q - 1
  <2>0. /\ ~(m < p) /\ c \in Nat /\ d \in Nat /\ c <= d /\ l \in Nat /\ k \in Nat /\ k >= 0 /\ k \in Int
        /\ l \in 0..n /\ l \in 0..m /\ l + c = n /\ l + d = m /\ l + k \in Nat
        /\ (~(q > 1) => k = 0) /\ l + 0 = l
    BY <1>3
  <2>1. raw(n) = Server!Sma(col(n), p) /\ raw(m) = Server!Sma(col(m), p)
    BY <1>0, <1>3, <2>0, AsSma
  <2>2. Grows(col(n), col(m), n, m) /\ Full(col(n)) /\ Full(col(m))
    BY ServerColumnGrows
  <2>12. Grows(col(m), col(m), m, m)
    BY <2>2 DEF Grows
  <2> HIDE DEF col
  <2>3. Grows(raw(n), raw(m), n, m) /\ Begins(raw(n), n, l) /\ Begins(raw(m), m, l)
    <3>1. Grows(Server!Sma(col(n), p), Server!Sma(col(m), p), n, m) /\ Begins(Server!Sma(col(n), p), n, l)
      BY <1>0, <2>2, AveragesGrow
    <3>2. Begins(Server!Sma(col(m), p), m, l)
      BY <1>0, <2>2, <2>12, AveragesGrow
    <3> HIDE DEF raw, l
    <3> QED BY <2>1, <3>1, <3>2
  <2> DEFINE x == Base!Known(raw(n))
             y == Base!Known(raw(m))
  <2>4. Grows(x, y, c, d) /\ Full(x) /\ Full(y)
    <3>1. Grows(x, y, n - l, m - l) /\ Full(x) /\ Full(y)
      <4> HIDE DEF raw, l
      <4> QED BY <1>0, <2>0, <2>3, KnownGrows
    <3> HIDE DEF x, y
    <3> QED BY <3>1 DEF c, d, l
  <2>14. Grows(y, y, d, d)
    <3> HIDE DEF x, y, c, d
    <3> QED BY <2>4 DEF Grows
  <2> HIDE DEF raw
  <2>5. Grows(fast(n), fast(m), n, m) /\ Begins(fast(n), n, l + k) /\ Begins(fast(m), m, l + k)
    <3>1. CASE q > 1
      <4>1. /\ fast(n) = Base!Nones(l) \o Server!Sma(x, q)
            /\ fast(m) = Base!Nones(l) \o Server!Sma(y, q)
        BY <3>1
      <4> HIDE DEF fast, x, y, c, d, l, k
      <4>2. /\ Grows(Server!Sma(x, q), Server!Sma(y, q), c, d)
            /\ Begins(Server!Sma(x, q), c, k)
        BY <2>0, <2>4, AveragesGrow DEF k
      <4>3. Begins(Server!Sma(y, q), d, k)
        BY <2>0, <2>4, <2>14, AveragesGrow DEF k
      <4>4. Grows(fast(n), fast(m), l + c, l + d)
        BY <2>0, <4>1, <4>2, LedGrows
      <4>5. Server!Sma(x, q) \in Lists(c) /\ Server!Sma(y, q) \in Lists(d)
        BY <4>2 DEF Grows
      <4>6. Begins(fast(n), l + c, l + k)
        BY <2>0, <4>1, <4>2, <4>5, LedBegins
      <4>7. Begins(fast(m), l + d, l + k)
        BY <2>0, <4>1, <4>3, <4>5, LedBegins
      <4> QED BY <2>0, <4>4, <4>6, <4>7
    <3>2. CASE ~(q > 1)
      <4>1. fast(n) = raw(n) /\ fast(m) = raw(m)
        BY <3>2
      <4> HIDE DEF fast, c, d, l, k
      <4> QED BY <2>0, <2>3, <3>2, <4>1
    <3> QED BY <3>1, <3>2
  <2> HIDE DEF fast, l, k, c, d
  <2>6. SmoothKeeps(fast(n), fast(m), n, l, q)
    BY <1>0, <2>0, <2>5, SmoothedKeeps
  <2>7. Keeps(slow(n), slow(m), n)
    BY <2>6 DEF SmoothKeeps, l
  <2>8. Keeps(fast(n), fast(m), n)
    BY <2>5, GrowsKeeps
  <2>9. /\ Server!Stochastic(n, p, q, q) = [k |-> fast(n), d |-> slow(n)]
        /\ Server!Stochastic(m, p, q, q) = [k |-> fast(m), d |-> slow(m)]
    <3> HIDE DEF slow, none
    <3> QED BY <1>1, <1>3, <2>0
  <2> HIDE DEF slow
  <2> QED BY <2>7, <2>8, <2>9 DEF Remain
<1> QED BY <1>2, <1>3

(* The directional index, and the average of an average.                   *)
LEMMA AdxRemains ==
  ASSUME NEW n \in Nat \ {0}, NEW m \in Nat, n <= m, NEW p \in Nat \ {0}
  PROVE  Remain(Server!Adx(n, p), Server!Adx(m, p), n)
<1> DEFINE di(x) == Server!DirectionalIndex(x, p)
           dx(x) == Server!Known(di(x))
           late(x) == IF Len(dx(x)) >= p
                      THEN [i \in 1..(IF Len(dx(x)) < p THEN 0 ELSE Len(dx(x)) - p + 1) |->
                              Server!Span(dx(x), 1, p + i - 1)]
                      ELSE <<>>
           adx(x) == Server!Nones(2 * p - 1) \o late(x)
           none(x) == [plus_di |-> Server!Nones(x), minus_di |-> Server!Nones(x),
                       adx |-> Server!Nones(x)]
           all(x) == [plus_di |-> di(x), minus_di |-> di(x), adx |-> adx(x)]
<1>0. n \in Nat /\ m \in Nat \ {0} /\ p \in Nat
  OBVIOUS
<1>1. \A x : Server!Adx(x, p) = IF x < p + 1 THEN none(x) ELSE all(x)
  BY DEF Server!Adx, Server!Each
<1>2. CASE n < p + 1
  <2>1. Server!Adx(n, p) = none(n)
    <3> HIDE DEF none, all
    <3> QED BY <1>1, <1>2
  <2>2. \A t : Keeps(Server!Nones(n), t, n)
    BY <1>0, NonesKeep, ServerBase
  <2> QED BY <2>1, <2>2 DEF Remain
<1>3. CASE ~(n < p + 1)
  <2> DEFINE moves(x) == <<Server!Column(x)[1]>> \o Server!Changes(Server!Column(x))
             u(x) == [i \in 1..(IF x < p + 1 THEN 0 ELSE x - (p + 1) + 1) |->
                        Server!Span(moves(x), 1, p + 1 + i - 1)]
  <2>0. ~(m < p + 1)
    BY <1>3
  <2>1. \A x : di(x) = Server!Nones(p) \o u(x)
    BY DEF Server!DirectionalIndex, Server!Each
  <2>2. \A x : moves(x) = Base!TrueRange(x)
    BY ServerBase DEF Base!TrueRange
  <2>3. Grows(moves(n), moves(m), n, m)
    BY <2>2, RangesGrow
  <2>4. /\ By(moves(n), 0) /\ Full(moves(n))
        /\ By(moves(m), 0) /\ Full(moves(m))
    BY <1>0, <2>2, TrueRangeInPlace, TrueRangeFull DEF InPlace
  <2>5. PrefixLoop(u(n), moves(n), p + 1, n) /\ PrefixLoop(u(m), moves(m), p + 1, m)
    BY ServerBase DEF PrefixLoop
  <2> HIDE DEF moves, u
  <2> DEFINE c == n - (p + 1) + 1
             d == m - (p + 1) + 1
             a == p + 1
  <2>6. /\ a \in 1..(n + 1) /\ a \in 1..(m + 1) /\ c \in Nat /\ d \in Nat /\ c <= d /\ 0 \in Int
    BY <1>3
  <2>7. Grows(u(n), u(m), c, d) /\ Full(u(n)) /\ Full(u(m))
    <3>1. Grows(u(n), u(m), c, d)
      <4>1. PrefixLoop(u(n), moves(n), a, n) /\ PrefixLoop(u(m), moves(m), a, m)
        BY <2>5
      <4> HIDE DEF a
      <4>2. Grows(u(n), u(m), n - a + 1, m - a + 1)
        BY <1>0, <2>3, <2>6, <4>1, PrefixesGrow
      <4> QED BY <4>2 DEF a
    <3>2. moves(n) \in Lists(n) /\ moves(m) \in Lists(m)
      BY <2>3 DEF Grows
    <3>3. Full(u(n)) /\ Full(u(m))
      <4>1. PrefixLoop(u(n), moves(n), a, n) /\ PrefixLoop(u(m), moves(m), a, m)
        BY <2>5
      <4> HIDE DEF a, c, d
      <4> QED BY <1>0, <2>4, <2>6, <3>2, <4>1, Prefixes
    <3> QED BY <3>1, <3>3
  <2> HIDE DEF c, d, a
  <2>8. u(n) \in Lists(c) /\ u(m) \in Lists(d)
    BY <2>7 DEF Grows
  <2>9. di(n) = Base!Nones(p) \o u(n) /\ di(m) = Base!Nones(p) \o u(m)
    BY <2>1, ServerBase
  <2>10. dx(n) = u(n) /\ dx(m) = u(m)
    <3> HIDE DEF di
    <3> QED BY <1>0, <2>6, <2>7, <2>8, <2>9, KnownOfLed, ServerBase
  <2> HIDE DEF di
  <2>11. Keeps(di(n), di(m), n)
    <3>1. Grows(di(n), di(m), p + c, p + d)
      BY <1>0, <2>6, <2>7, <2>9, LedGrows
    <3> QED BY <3>1, GrowsKeeps
  <2> HIDE DEF dx
  <2>12. Len(dx(n)) = c /\ Len(dx(m)) = d
    BY <2>8, <2>10 DEF Lists
  <2> DEFINE l == 2 * p - 1
  <2>13. l \in Nat
    OBVIOUS
  <2>14. adx(n) = Base!Nones(l) \o late(n) /\ adx(m) = Base!Nones(l) \o late(m)
    BY ServerBase
  <2>15. Keeps(adx(n), adx(m), n)
    <3>1. CASE c >= p
      <4>1. PrefixLoop(late(n), u(n), p, c) /\ PrefixLoop(late(m), u(m), p, d)
        <5>1. d >= p
          BY <2>6, <3>1
        <5> QED BY <2>10, <2>12, <3>1, <5>1, ServerBase DEF PrefixLoop
      <4> HIDE DEF late, adx, l
      <4>2. p \in 1..(c + 1)
        BY <1>0, <2>6, <3>1
      <4>3. Grows(adx(n), adx(m), l + (c - p + 1), l + (d - p + 1))
        BY <2>6, <2>7, <2>13, <2>14, <4>1, <4>2, LedPrefixesGrow
      <4> QED BY <4>3, GrowsKeeps
    <3>2. CASE ~(c >= p)
      <4>1. late(n) = <<>>
        BY <2>12, <3>2
      <4> HIDE DEF late, l
      <4>2. late(n) \in Lists(0)
        BY <4>1 DEF Lists
      <4> HIDE DEF adx
      <4>3. adx(n) \in Lists(l + 0) /\ \A i \in 1..l : adx(n)[i] = None
        <5>1. 0 \in Nat
          OBVIOUS
        <5>2. /\ Base!Nones(l) \o late(n) \in Lists(l + 0)
              /\ \A i \in 1..l : (Base!Nones(l) \o late(n))[i] = None
          BY ONLY <2>13, <4>2, <5>1, Led
        <5> QED BY <2>14, <5>2
      <4>4. DOMAIN adx(n) = 1..l
        BY <2>13, <4>3, ListFacts
      <4> QED BY <4>3, <4>4 DEF Keeps
    <3> QED BY <3>1, <3>2
  <2>16. Server!Adx(n, p) = all(n) /\ Server!Adx(m, p) = all(m)
    <3> HIDE DEF none, all
    <3> QED BY <1>1, <1>3, <2>0
  <2> HIDE DEF adx
  <2> QED BY <2>11, <2>15, <2>16 DEF Remain
<1> QED BY <1>2, <1>3

(* The numbers of an exponential average.                                  *)
EmaOf(s, p) == Server!Known(Server!Ema(s, p))

LEMMA EmaOfGrows ==
  ASSUME NEW n \in Nat, NEW m \in Nat, n <= m, NEW s, NEW t, Grows(s, t, n, m),
         Full(s), Full(t), NEW p \in Nat \ {0}, p <= n
  PROVE  /\ Grows(EmaOf(s, p), EmaOf(t, p), n - p + 1, m - p + 1)
         /\ Full(EmaOf(s, p)) /\ Full(EmaOf(t, p))
         /\ n - p + 1 \in Nat /\ m - p + 1 \in Nat /\ n - p + 1 <= m - p + 1
<1> DEFINE k == p - 1
<1>1. k \in 0..n /\ n - k = n - p + 1 /\ m - k = m - p + 1
  OBVIOUS
<1>2. Grows(t, t, m, m)
  BY DEF Grows
<1>3. /\ Grows(Server!Ema(s, p), Server!Ema(t, p), n, m)
      /\ Begins(Server!Ema(s, p), n, k)
  BY AveragesGrow
<1>4. Begins(Server!Ema(t, p), m, k)
  BY <1>2, AveragesGrow
<1> HIDE DEF k
<1>5. /\ Grows(Base!Known(Server!Ema(s, p)), Base!Known(Server!Ema(t, p)), n - k, m - k)
      /\ Full(Base!Known(Server!Ema(s, p))) /\ Full(Base!Known(Server!Ema(t, p)))
  BY <1>1, <1>3, <1>4, KnownGrows
<1>6. EmaOf(s, p) = Base!Known(Server!Ema(s, p)) /\ EmaOf(t, p) = Base!Known(Server!Ema(t, p))
  BY ServerBase DEF EmaOf
<1> QED BY <1>1, <1>5, <1>6

LEMMA EmaOfFew ==
  ASSUME NEW n \in Nat, NEW s \in Lists(n), NEW p \in Nat \ {0}, n < p
  PROVE  EmaOf(s, p) \in Lists(0)
<1> DEFINE e == Server!Ema(s, p)
<1>1. e \in Lists(n) /\ \A i \in 1..n : e[i] = IF i < p THEN None ELSE Base!Span(s, 1, i)
  BY EmaAt
<1> HIDE DEF e
<1>2. \A i \in 1..n : e[i] = None
  BY <1>1
<1>3. n \in 0..n /\ n - n = 0 /\ \A i \in (n + 1)..n : e[i] # None
  OBVIOUS
<1>4. Base!Known(e) \in Lists(n - n)
  BY <1>1, <1>2, <1>3, KnownList
<1> QED BY <1>3, <1>4, ServerBase DEF EmaOf, e

LEMMA LeastOne ==
  ASSUME NEW S, NEW x \in S, S \in SUBSET Int, \A y \in S : x <= y
  PROVE  Server!Min(S) = x
<1>1. Server!Min(S) = CHOOSE z \in S : \A y \in S : z <= y
  BY DEF Server!Min
<1>2. Server!Min(S) \in S /\ \A y \in S : Server!Min(S) <= y
  BY <1>1
<1>3. Server!Min(S) <= x /\ x <= Server!Min(S) /\ x \in Int /\ Server!Min(S) \in Int
  BY <1>2
<1> QED BY <1>3

LEMMA DemaKeeps ==
  ASSUME NEW n \in Nat \ {0}, NEW m \in Nat, n <= m, NEW p \in Nat \ {0}
  PROVE  Keeps(Server!Dema(Server!Column(n), p), Server!Dema(Server!Column(m), p), n)
<1> DEFINE col(x) == Server!Column(x)
           one(x) == EmaOf(col(x), p)
           two(x) == EmaOf(one(x), p)
           least(x) == Server!Min({Len(one(x)), Len(two(x))})
           u(x) == [i \in 1..(IF least(x) < 1 THEN 0 ELSE least(x) - 1 + 1) |->
                      Server!Joint({one(x)[1 + i - 1], two(x)[1 + i - 1]})]
<1>0. n \in Nat /\ m \in Nat \ {0}
  OBVIOUS
<1>1. \A x : Server!Dema(col(x), p) =
               IF Len(col(x)) < 2 * p THEN Server!Nones(Len(col(x)))
               ELSE Server!Nones(Len(col(x)) - least(x)) \o u(x)
  BY DEF Server!Dema, Server!Each, EmaOf
<1>2. Grows(col(n), col(m), n, m) /\ Full(col(n)) /\ Full(col(m)) /\ Len(col(n)) = n /\ Len(col(m)) = m
  BY ServerColumnGrows
<1> HIDE DEF col
<1>3. CASE n < 2 * p
  <2>1. Server!Dema(col(n), p) = Base!Nones(n)
    <3> HIDE DEF least, u
    <3> QED BY <1>1, <1>2, <1>3, ServerBase
  <2> QED BY <1>0, <2>1, NonesKeep DEF col
<1>4. CASE ~(n < 2 * p)
  <2> DEFINE c == n - p + 1
             d == m - p + 1
             e == c - p + 1
             f == d - p + 1
             l == 2 * p - 2
  <2>0. /\ p <= n /\ p <= c /\ e <= c /\ f <= d /\ ~(m < 2 * p)
        /\ l \in Nat /\ n - e = l /\ m - f = l
    BY <1>4
  <2>1. Grows(one(n), one(m), c, d) /\ Full(one(n)) /\ Full(one(m)) /\ c \in Nat /\ d \in Nat /\ c <= d
    BY <1>0, <1>2, <2>0, EmaOfGrows
  <2> HIDE DEF one, c, d
  <2>2. Grows(two(n), two(m), e, f) /\ Full(two(n)) /\ Full(two(m)) /\ e \in Nat /\ f \in Nat /\ e <= f
    BY <2>0, <2>1, EmaOfGrows
  <2> HIDE DEF two, e, f, l
  <2>3. Len(one(n)) = c /\ Len(one(m)) = d /\ Len(two(n)) = e /\ Len(two(m)) = f
    BY <2>1, <2>2 DEF Grows, Lists
  <2>4. least(n) = e /\ least(m) = f
    <3>1. least(n) = Server!Min({c, e}) /\ least(m) = Server!Min({d, f})
      BY <2>3
    <3>2. Server!Min({c, e}) = e
      <4>1. e \in {c, e} /\ {c, e} \in SUBSET Int /\ \A y \in {c, e} : e <= y
        BY <2>0, <2>1, <2>2
      <4> QED BY ONLY <4>1, LeastOne
    <3>3. Server!Min({d, f}) = f
      <4>1. f \in {d, f} /\ {d, f} \in SUBSET Int /\ \A y \in {d, f} : f <= y
        BY <2>0, <2>1, <2>2
      <4> QED BY ONLY <4>1, LeastOne
    <3> QED BY <3>1, <3>2, <3>3
  <2> HIDE DEF least
  <2>5. /\ Server!Dema(col(n), p) = Base!Nones(l) \o u(n)
        /\ Server!Dema(col(m), p) = Base!Nones(l) \o u(m)
    <3> HIDE DEF u
    <3> QED BY <1>1, <1>2, <1>4, <2>0, <2>4, ServerBase
  <2> DEFINE w(x, k) == [i \in 1..k |-> Base!Joint({one(x)[i], two(x)[i]})]
  <2>6. u(n) = w(n, e) /\ u(m) = w(m, f)
    <3>1. ASSUME NEW x, least(x) \in Nat PROVE u(x) = w(x, least(x))
      <4>1. (IF least(x) < 1 THEN 0 ELSE least(x) - 1 + 1) = least(x)
        BY <3>1
      <4>2. \A i \in 1..least(x) : 1 + i - 1 = i
        OBVIOUS
      <4> QED BY <4>1, <4>2, ServerBase
    <3> HIDE DEF u, w
    <3> QED BY <2>2, <2>4, <3>1
  <2> HIDE DEF u
  <2>7. \A i \in 1..f : w(m, f)[i] \in Entries
    <3> SUFFICES ASSUME NEW i \in 1..f PROVE w(m, f)[i] \in Entries
      OBVIOUS
    <3>1. i \in 1..d
      BY <2>0, <2>1, <2>2
    <3>2. one(m)[i] \in Entries /\ two(m)[i] \in Entries
      BY <2>1, <2>2, <3>1, ListFacts DEF Grows
    <3> QED BY <3>2, JointFacts
  <2>8. \A i \in 1..e : w(n, e)[i] = w(m, f)[i]
    <3> SUFFICES ASSUME NEW i \in 1..e PROVE w(n, e)[i] = w(m, f)[i]
      OBVIOUS
    <3>1. i \in 1..c /\ i \in 1..f
      BY <2>0, <2>1, <2>2
    <3>2. one(n)[i] = one(m)[i] /\ two(n)[i] = two(m)[i]
      BY <2>1, <2>2, <3>1 DEF Grows
    <3> QED BY <3>1, <3>2
  <2>9. /\ DOMAIN w(n, e) = 1..e /\ DOMAIN w(m, f) = 1..f
        /\ w(n, e) = [i \in 1..e |-> w(n, e)[i]] /\ w(m, f) = [i \in 1..f |-> w(m, f)[i]]
    OBVIOUS
  <2> HIDE DEF w
  <2>10. Keeps(Base!Nones(l) \o w(n, e), Base!Nones(l) \o w(m, f), n)
    BY <2>0, <2>2, <2>7, <2>8, <2>9, LoopKeeps
  <2> QED BY <2>5, <2>6, <2>10 DEF col
<1> QED BY <1>3, <1>4

(* The average of an average of an average, and the mass index.            *)
LEMMA TemaKeeps ==
  ASSUME NEW n \in Nat \ {0}, NEW m \in Nat, n <= m, NEW p \in Nat \ {0}
  PROVE  Keeps(Server!Tema(Server!Column(n), p), Server!Tema(Server!Column(m), p), n)
<1> DEFINE col(x) == Server!Column(x)
           one(x) == EmaOf(col(x), p)
           two(x) == EmaOf(one(x), p)
           three(x) == EmaOf(two(x), p)
           least(x) == Server!Min({Len(one(x)), Len(two(x)), Len(three(x))})
           u(x) == [i \in 1..(IF least(x) < 1 THEN 0 ELSE least(x) - 1 + 1) |->
                      Server!Joint({one(x)[1 + i - 1], two(x)[1 + i - 1],
                                     three(x)[1 + i - 1]})]
<1>0. n \in Nat /\ m \in Nat \ {0}
  OBVIOUS
<1>1. \A x : Server!Tema(col(x), p) =
               IF Len(col(x)) < 3 * p THEN Server!Nones(Len(col(x)))
               ELSE Server!Nones(Len(col(x)) - least(x)) \o u(x)
  BY DEF Server!Tema, Server!Each, EmaOf
<1>2. Grows(col(n), col(m), n, m) /\ Full(col(n)) /\ Full(col(m)) /\ Len(col(n)) = n /\ Len(col(m)) = m
  BY ServerColumnGrows
<1> HIDE DEF col
<1>3. CASE n < 3 * p
  <2>1. Server!Tema(col(n), p) = Base!Nones(n)
    <3> HIDE DEF least, u
    <3> QED BY <1>1, <1>2, <1>3, ServerBase
  <2> QED BY <1>0, <2>1, NonesKeep DEF col
<1>4. CASE ~(n < 3 * p)
  <2> DEFINE c == n - p + 1
             d == m - p + 1
             e == c - p + 1
             f == d - p + 1
             g == e - p + 1
             h == f - p + 1
             l == 3 * p - 3
  <2>0. /\ p <= n /\ p <= c /\ p <= e /\ e <= c /\ f <= d /\ g <= e /\ h <= f /\ ~(m < 3 * p)
        /\ l \in Nat /\ n - g = l /\ m - h = l
    BY <1>4
  <2>1. Grows(one(n), one(m), c, d) /\ Full(one(n)) /\ Full(one(m)) /\ c \in Nat /\ d \in Nat /\ c <= d
    BY <1>0, <1>2, <2>0, EmaOfGrows
  <2> HIDE DEF one, c, d
  <2>2. Grows(two(n), two(m), e, f) /\ Full(two(n)) /\ Full(two(m)) /\ e \in Nat /\ f \in Nat /\ e <= f
    BY <2>0, <2>1, EmaOfGrows
  <2> HIDE DEF two, e, f
  <2>11. /\ Grows(three(n), three(m), g, h) /\ Full(three(n)) /\ Full(three(m))
         /\ g \in Nat /\ h \in Nat /\ g <= h
    BY <2>0, <2>2, EmaOfGrows
  <2> HIDE DEF three, g, h, l
  <2>3. /\ Len(one(n)) = c /\ Len(one(m)) = d /\ Len(two(n)) = e /\ Len(two(m)) = f
        /\ Len(three(n)) = g /\ Len(three(m)) = h
    BY <2>1, <2>2, <2>11 DEF Grows, Lists
  <2>4. least(n) = g /\ least(m) = h
    <3>1. least(n) = Server!Min({c, e, g}) /\ least(m) = Server!Min({d, f, h})
      BY <2>3
    <3>2. Server!Min({c, e, g}) = g
      <4>1. g \in {c, e, g} /\ {c, e, g} \in SUBSET Int /\ \A y \in {c, e, g} : g <= y
        BY <2>0, <2>1, <2>2, <2>11
      <4> QED BY ONLY <4>1, LeastOne
    <3>3. Server!Min({d, f, h}) = h
      <4>1. h \in {d, f, h} /\ {d, f, h} \in SUBSET Int /\ \A y \in {d, f, h} : h <= y
        BY <2>0, <2>1, <2>2, <2>11
      <4> QED BY ONLY <4>1, LeastOne
    <3> QED BY <3>1, <3>2, <3>3
  <2> HIDE DEF least
  <2>5. /\ Server!Tema(col(n), p) = Base!Nones(l) \o u(n)
        /\ Server!Tema(col(m), p) = Base!Nones(l) \o u(m)
    <3> HIDE DEF u
    <3> QED BY <1>1, <1>2, <1>4, <2>0, <2>4, ServerBase
  <2> DEFINE w(x, k) == [i \in 1..k |-> Base!Joint({one(x)[i], two(x)[i], three(x)[i]})]
  <2>6. u(n) = w(n, g) /\ u(m) = w(m, h)
    <3>1. ASSUME NEW x, least(x) \in Nat PROVE u(x) = w(x, least(x))
      <4>1. (IF least(x) < 1 THEN 0 ELSE least(x) - 1 + 1) = least(x)
        BY <3>1
      <4>2. \A i \in 1..least(x) : 1 + i - 1 = i
        OBVIOUS
      <4> QED BY <4>1, <4>2, ServerBase
    <3> HIDE DEF u, w
    <3> QED BY <2>4, <2>11, <3>1
  <2> HIDE DEF u
  <2>7. \A i \in 1..h : w(m, h)[i] \in Entries
    <3> SUFFICES ASSUME NEW i \in 1..h PROVE w(m, h)[i] \in Entries
      OBVIOUS
    <3>1. i \in 1..d /\ i \in 1..f
      BY <2>0, <2>1, <2>2, <2>11
    <3>2. one(m)[i] \in Entries /\ two(m)[i] \in Entries /\ three(m)[i] \in Entries
      BY <2>1, <2>2, <2>11, <3>1, ListFacts DEF Grows
    <3> QED BY <3>2, JointFacts
  <2>8. \A i \in 1..g : w(n, g)[i] = w(m, h)[i]
    <3> SUFFICES ASSUME NEW i \in 1..g PROVE w(n, g)[i] = w(m, h)[i]
      OBVIOUS
    <3>1. i \in 1..c /\ i \in 1..e /\ i \in 1..h
      BY <2>0, <2>1, <2>2, <2>11
    <3>2. one(n)[i] = one(m)[i] /\ two(n)[i] = two(m)[i] /\ three(n)[i] = three(m)[i]
      BY <2>1, <2>2, <2>11, <3>1 DEF Grows
    <3> QED BY <3>1, <3>2
  <2>9. /\ DOMAIN w(n, g) = 1..g /\ DOMAIN w(m, h) = 1..h
        /\ w(n, g) = [i \in 1..g |-> w(n, g)[i]] /\ w(m, h) = [i \in 1..h |-> w(m, h)[i]]
    OBVIOUS
  <2> HIDE DEF w
  <2>10. Keeps(Base!Nones(l) \o w(n, g), Base!Nones(l) \o w(m, h), n)
    BY <2>0, <2>7, <2>8, <2>9, <2>11, LoopKeeps
  <2> QED BY <2>5, <2>6, <2>10 DEF col
<1> QED BY <1>3, <1>4

LEMMA ZipOf ==
  ASSUME NEW n \in Nat, NEW s \in Lists(n), NEW k \in Nat, NEW r \in Lists(k), k <= n
  PROVE  /\ Base!Zip(s, r) \in Lists(k)
         /\ \A i \in 1..k : Base!Zip(s, r)[i] = Base!Joint({s[i], r[i]})
<1>0. k <= k
  OBVIOUS
<1>1. \A i \in 1..k : Base!Zip(s, r)[i] = Base!Joint({s[i], r[i]})
  BY <1>0, ZipList
<1>2. Base!Zip(s, r) \in Lists(k)
  BY ZipList
<1> QED BY <1>1, <1>2

LEMMA WindowEach ==
  ASSUME NEW s \in Seq(Entries), NEW a \in Nat
  PROVE  Server!Each(a, Len(s), LAMBDA i : Server!Span(s, i - a + 1, i)) =
           [i \in 1..(IF Len(s) < a THEN 0 ELSE Len(s) - a + 1) |->
              Server!Span(s, a + i - 1 - a + 1, a + i - 1)]
BY DEF Server!Each

LEMMA MassIndexKeeps ==
  ASSUME NEW n \in Nat \ {0}, NEW m \in Nat, n <= m, NEW p \in Nat \ {0}
  PROVE  Keeps(Server!MassIndex(n, p), Server!MassIndex(m, p), n)
<1> DEFINE col(x) == Server!Column(x)
           one(x) == EmaOf(col(x), p)
           two(x) == EmaOf(one(x), p)
           ratios(x) == Base!Zip(one(x), two(x))
           u(x) == [i \in 1..(IF Len(ratios(x)) < MassPeriod THEN 0
                              ELSE Len(ratios(x)) - MassPeriod + 1) |->
                      Base!Span(ratios(x), MassPeriod + i - 1 - MassPeriod + 1, MassPeriod + i - 1)]
<1>0. n \in Nat /\ m \in Nat \ {0} /\ MassPeriod \in Nat \ {0}
  BY SeriesAssumption
<1>1. ASSUME NEW x, NEW k \in Nat, ratios(x) \in Lists(k)
      PROVE  Server!MassIndex(x, p) =
               IF Len(ratios(x)) < MassPeriod THEN Base!Nones(x)
               ELSE Base!Nones(x - Len(ratios(x)) + MassPeriod - 1) \o u(x)
  <2> DEFINE raw == Server!Zip(one(x), two(x))
             us == [i \in 1..(IF Len(raw) < MassPeriod THEN 0 ELSE Len(raw) - MassPeriod + 1) |->
                      Server!Span(raw, MassPeriod + i - 1 - MassPeriod + 1, MassPeriod + i - 1)]
  <2>1. CASE Len(raw) < MassPeriod
    <3>1. Server!MassIndex(x, p) = Server!Nones(x)
      BY <2>1 DEF Server!MassIndex, EmaOf
    <3>2. raw = ratios(x)
      BY ServerBase
    <3> HIDE DEF raw, ratios, u
    <3> QED BY <2>1, <3>1, <3>2, ServerBase
  <2>2. CASE ~(Len(raw) < MassPeriod)
    <3>1. Server!MassIndex(x, p) =
            Server!Nones(x - Len(raw) + MassPeriod - 1)
            \o Server!Each(MassPeriod, Len(raw), LAMBDA i : Server!Span(raw, i - MassPeriod + 1, i))
      BY <2>2 DEF Server!MassIndex, EmaOf
    <3>2. raw = ratios(x)
      BY ServerBase
    <3> HIDE DEF raw, ratios
    <3>3. raw \in Seq(Entries) /\ MassPeriod \in Nat
      BY <1>0, <1>1, <3>2 DEF Lists
    <3>4. Server!Each(MassPeriod, Len(raw), LAMBDA i : Server!Span(raw, i - MassPeriod + 1, i)) = us
      BY <3>3, WindowEach
    <3>5. us = u(x)
      BY <3>2, ServerBase
    <3> HIDE DEF us, u
    <3> QED BY <2>2, <3>1, <3>2, <3>4, <3>5, ServerBase
  <2> QED BY <2>1, <2>2
<1>2. Grows(col(n), col(m), n, m) /\ Full(col(n)) /\ Full(col(m))
  BY ServerColumnGrows
<1>3. col(n) \in Lists(n)
  BY <1>2 DEF Grows
<1> HIDE DEF col
<1>4. CASE n < 2 * p - 1
  <2>1. PICK c \in Nat : one(n) \in Lists(c) /\ c < p
    <3>1. CASE n < p
      <4>1. one(n) \in Lists(0)
        BY <1>0, <1>3, <3>1, EmaOfFew
      <4> QED BY <4>1
    <3>2. CASE ~(n < p)
      <4> DEFINE e == n - p + 1
      <4>1. p <= n /\ e \in Nat /\ e < p
        BY <1>4, <3>2
      <4>2. one(n) \in Lists(e)
        BY <1>0, <1>2, <4>1, EmaOfGrows DEF Grows
      <4> QED BY <4>1, <4>2
    <3> QED BY <3>1, <3>2
  <2> HIDE DEF one
  <2>2. two(n) \in Lists(0)
    BY <2>1, EmaOfFew
  <2> HIDE DEF two
  <2>3. ratios(n) \in Lists(0)
    <3>1. 0 \in Nat /\ 0 <= c
      BY <2>1
    <3> QED BY <2>1, <2>2, <3>1, ZipList
  <2>4. Len(ratios(n)) = 0
    BY <2>3 DEF Lists
  <2> HIDE DEF ratios
  <2>5. Server!MassIndex(n, p) = Base!Nones(n)
    <3> HIDE DEF u
    <3>1. Len(ratios(n)) < MassPeriod
      BY <1>0, <2>4
    <3>2. 0 \in Nat
      OBVIOUS
    <3> QED BY <1>1, <2>3, <3>1, <3>2
  <2> QED BY <1>0, <2>5, NonesKeep
<1>5. CASE ~(n < 2 * p - 1)
  <2> DEFINE c == n - p + 1
             d == m - p + 1
             e == c - p + 1
             f == d - p + 1
             l == 2 * p - 2 + MassPeriod - 1
  <2>0. /\ p <= n /\ p <= c /\ e <= c /\ f <= d
        /\ l \in Nat /\ n - e + MassPeriod - 1 = l /\ m - f + MassPeriod - 1 = l
    BY <1>0, <1>5
  <2>1. Grows(one(n), one(m), c, d) /\ Full(one(n)) /\ Full(one(m)) /\ c \in Nat /\ d \in Nat /\ c <= d
    BY <1>0, <1>2, <2>0, EmaOfGrows
  <2> HIDE DEF one, c, d
  <2>2. Grows(two(n), two(m), e, f) /\ e \in Nat /\ f \in Nat /\ e <= f
    BY <2>0, <2>1, EmaOfGrows
  <2> HIDE DEF two, e, f, l
  <2>3. one(n) \in Lists(c) /\ one(m) \in Lists(d) /\ two(n) \in Lists(e) /\ two(m) \in Lists(f)
    BY <2>1, <2>2 DEF Grows
  <2>4. ratios(n) \in Lists(e) /\ \A i \in 1..e : ratios(n)[i] = Base!Joint({one(n)[i], two(n)[i]})
    BY ONLY <2>0, <2>1, <2>2, <2>3, ZipOf DEF ratios
  <2>5. ratios(m) \in Lists(f) /\ \A i \in 1..f : ratios(m)[i] = Base!Joint({one(m)[i], two(m)[i]})
    BY ONLY <2>0, <2>1, <2>2, <2>3, ZipOf DEF ratios
  <2> HIDE DEF ratios
  <2>6. Grows(ratios(n), ratios(m), e, f)
    <3>1. ASSUME NEW i \in 1..e PROVE ratios(n)[i] = ratios(m)[i]
      <4>1. i \in 1..c /\ i \in 1..f
        BY <2>0, <2>1, <2>2
      <4>2. one(n)[i] = one(m)[i] /\ two(n)[i] = two(m)[i]
        BY <2>1, <2>2, <4>1 DEF Grows
      <4> QED BY <2>4, <2>5, <4>1, <4>2
    <3> QED BY <2>4, <2>5, <3>1 DEF Grows
  <2>7. Len(ratios(n)) = e /\ Len(ratios(m)) = f
    BY <2>4, <2>5 DEF Lists
  <2>8. CASE e < MassPeriod
    <3>1. Server!MassIndex(n, p) = Base!Nones(n)
      <4> HIDE DEF u
      <4> QED BY <1>1, <2>2, <2>4, <2>7, <2>8
    <3> QED BY <1>0, <3>1, NonesKeep
  <2>9. CASE ~(e < MassPeriod)
    <3>0. ~(f < MassPeriod) /\ MassPeriod \in 1..(e + 1) /\ MassPeriod \in 1..MassPeriod
      BY <1>0, <2>2, <2>9
    <3>1. Server!MassIndex(n, p) = Base!Nones(l) \o u(n) /\ Server!MassIndex(m, p) = Base!Nones(l) \o u(m)
      <4> HIDE DEF u
      <4> QED BY <1>1, <2>0, <2>2, <2>4, <2>5, <2>7, <2>9, <3>0
    <3>2. /\ WindowLoop(u(n), ratios(n), MassPeriod, e, MassPeriod)
          /\ WindowLoop(u(m), ratios(m), MassPeriod, f, MassPeriod)
      BY <2>7 DEF WindowLoop
    <3> HIDE DEF u
    <3>3. Grows(Base!Nones(l) \o u(n), Base!Nones(l) \o u(m),
                l + (e - MassPeriod + 1), l + (f - MassPeriod + 1))
      BY <1>0, <2>0, <2>2, <2>6, <3>0, <3>2, LedWindowsGrow
    <3> QED BY <3>1, <3>3, GrowsKeeps
  <2> QED BY <2>8, <2>9
<1> QED BY <1>4, <1>5

(***************************************************************************)
(* The server: a number that was given is given again                      *)
(***************************************************************************)
LEMMA ServerKeeps ==
  ASSUME NEW n \in Nat \ {0}, NEW m \in Nat, n <= m, NEW r, NEW p \in Nat \ {0}, NEW q \in Nat \ {0},
         r.p = p, r.q = q, r.indicator \in Server!Registry
  PROVE  Remain(ServerResult(r, n), ServerResult(r, m), n)
<1>1. CASE r.indicator = "rsi"
  <2>1. /\ ServerResult(r, n) = Server!One(Server!Rsi(n, p))
        /\ ServerResult(r, m) = Server!One(Server!Rsi(m, p))
    BY <1>1 DEF ServerResult, Server!Calculate
  <2>2. Keeps(Server!Rsi(n, p), Server!Rsi(m, p), n)
    BY RsiKeeps
  <2>3. Remain(Server!One(Server!Rsi(n, p)), Server!One(Server!Rsi(m, p)), n)
    BY <2>2, OneRemains
  <2> QED BY ONLY <2>1, <2>3
<1>2. CASE r.indicator = "roc"
  <2>1. /\ ServerResult(r, n) = Server!One(Server!Roc(n, p))
        /\ ServerResult(r, m) = Server!One(Server!Roc(m, p))
    BY <1>2 DEF ServerResult, Server!Calculate
  <2>2. Keeps(Server!Roc(n, p), Server!Roc(m, p), n)
    BY RocKeeps
  <2>3. Remain(Server!One(Server!Roc(n, p)), Server!One(Server!Roc(m, p)), n)
    BY <2>2, OneRemains
  <2> QED BY ONLY <2>1, <2>3
<1>3. CASE r.indicator = "volume_roc"
  <2>1. /\ ServerResult(r, n) = Server!One(Server!VolumeRoc(n, p))
        /\ ServerResult(r, m) = Server!One(Server!VolumeRoc(m, p))
    BY <1>3 DEF ServerResult, Server!Calculate
  <2>2. Keeps(Server!VolumeRoc(n, p), Server!VolumeRoc(m, p), n)
    BY RocKeeps
  <2>3. Remain(Server!One(Server!VolumeRoc(n, p)), Server!One(Server!VolumeRoc(m, p)), n)
    BY <2>2, OneRemains
  <2> QED BY ONLY <2>1, <2>3
<1>4. CASE r.indicator = "cci"
  <2>1. /\ ServerResult(r, n) = Server!One(Server!Cci(n, p))
        /\ ServerResult(r, m) = Server!One(Server!Cci(m, p))
    BY <1>4 DEF ServerResult, Server!Calculate
  <2>2. Keeps(Server!Cci(n, p), Server!Cci(m, p), n)
    BY CciKeeps
  <2>3. Remain(Server!One(Server!Cci(n, p)), Server!One(Server!Cci(m, p)), n)
    BY <2>2, OneRemains
  <2> QED BY ONLY <2>1, <2>3
<1>5. CASE r.indicator = "williams_r"
  <2>1. /\ ServerResult(r, n) = Server!One(Server!WilliamsR(n, p))
        /\ ServerResult(r, m) = Server!One(Server!WilliamsR(m, p))
    BY <1>5 DEF ServerResult, Server!Calculate
  <2>2. Keeps(Server!WilliamsR(n, p), Server!WilliamsR(m, p), n)
    BY WindowedKeep
  <2>3. Remain(Server!One(Server!WilliamsR(n, p)), Server!One(Server!WilliamsR(m, p)), n)
    BY <2>2, OneRemains
  <2> QED BY ONLY <2>1, <2>3
<1>6. CASE r.indicator = "sma"
  <2>1. /\ ServerResult(r, n) = Server!One(Server!Sma(Server!Column(n), p))
        /\ ServerResult(r, m) = Server!One(Server!Sma(Server!Column(m), p))
    BY <1>6 DEF ServerResult, Server!Calculate
  <2>2. Keeps(Server!Sma(Server!Column(n), p), Server!Sma(Server!Column(m), p), n)
    BY WindowedKeep
  <2>3. Remain(Server!One(Server!Sma(Server!Column(n), p)), Server!One(Server!Sma(Server!Column(m), p)), n)
    BY <2>2, OneRemains
  <2> QED BY ONLY <2>1, <2>3
<1>7. CASE r.indicator = "ema"
  <2>1. /\ ServerResult(r, n) = Server!One(Server!Ema(Server!Column(n), p))
        /\ ServerResult(r, m) = Server!One(Server!Ema(Server!Column(m), p))
    BY <1>7 DEF ServerResult, Server!Calculate
  <2>2. Keeps(Server!Ema(Server!Column(n), p), Server!Ema(Server!Column(m), p), n)
    BY WindowedKeep
  <2>3. Remain(Server!One(Server!Ema(Server!Column(n), p)), Server!One(Server!Ema(Server!Column(m), p)), n)
    BY <2>2, OneRemains
  <2> QED BY ONLY <2>1, <2>3
<1>8. CASE r.indicator = "wma"
  <2>1. /\ ServerResult(r, n) = Server!One(Server!Wma(Server!Column(n), p))
        /\ ServerResult(r, m) = Server!One(Server!Wma(Server!Column(m), p))
    BY <1>8 DEF ServerResult, Server!Calculate
  <2>2. Keeps(Server!Wma(Server!Column(n), p), Server!Wma(Server!Column(m), p), n)
    BY WindowedKeep
  <2>3. Remain(Server!One(Server!Wma(Server!Column(n), p)), Server!One(Server!Wma(Server!Column(m), p)), n)
    BY <2>2, OneRemains
  <2> QED BY ONLY <2>1, <2>3
<1>9. CASE r.indicator = "tema"
  <2>1. /\ ServerResult(r, n) = Server!One(Server!Tema(Server!Column(n), p))
        /\ ServerResult(r, m) = Server!One(Server!Tema(Server!Column(m), p))
    BY <1>9 DEF ServerResult, Server!Calculate
  <2>2. Keeps(Server!Tema(Server!Column(n), p), Server!Tema(Server!Column(m), p), n)
    BY TemaKeeps
  <2>3. Remain(Server!One(Server!Tema(Server!Column(n), p)), Server!One(Server!Tema(Server!Column(m), p)), n)
    BY <2>2, OneRemains
  <2> QED BY ONLY <2>1, <2>3
<1>10. CASE r.indicator = "dema"
  <2>1. /\ ServerResult(r, n) = Server!One(Server!Dema(Server!Column(n), p))
        /\ ServerResult(r, m) = Server!One(Server!Dema(Server!Column(m), p))
    BY <1>10 DEF ServerResult, Server!Calculate
  <2>2. Keeps(Server!Dema(Server!Column(n), p), Server!Dema(Server!Column(m), p), n)
    BY DemaKeeps
  <2>3. Remain(Server!One(Server!Dema(Server!Column(n), p)), Server!One(Server!Dema(Server!Column(m), p)), n)
    BY <2>2, OneRemains
  <2> QED BY ONLY <2>1, <2>3
<1>11. CASE r.indicator = "atr"
  <2>1. /\ ServerResult(r, n) = Server!One(Server!Atr(n, p))
        /\ ServerResult(r, m) = Server!One(Server!Atr(m, p))
    BY <1>11 DEF ServerResult, Server!Calculate
  <2>2. Keeps(Server!Atr(n, p), Server!Atr(m, p), n)
    BY AtrKeeps
  <2>3. Remain(Server!One(Server!Atr(n, p)), Server!One(Server!Atr(m, p)), n)
    BY <2>2, OneRemains
  <2> QED BY ONLY <2>1, <2>3
<1>12. CASE r.indicator = "natr"
  <2>1. /\ ServerResult(r, n) = Server!One(Server!Natr(n, p))
        /\ ServerResult(r, m) = Server!One(Server!Natr(m, p))
    BY <1>12 DEF ServerResult, Server!Calculate
  <2>2. Keeps(Server!Natr(n, p), Server!Natr(m, p), n)
    BY BandsRemain
  <2>3. Remain(Server!One(Server!Natr(n, p)), Server!One(Server!Natr(m, p)), n)
    BY <2>2, OneRemains
  <2> QED BY ONLY <2>1, <2>3
<1>13. CASE r.indicator = "historical_volatility"
  <2>1. /\ ServerResult(r, n) = Server!One(Server!HistoricalVolatility(n, p))
        /\ ServerResult(r, m) = Server!One(Server!HistoricalVolatility(m, p))
    BY <1>13 DEF ServerResult, Server!Calculate
  <2>2. Keeps(Server!HistoricalVolatility(n, p), Server!HistoricalVolatility(m, p), n)
    BY HistoricalKeeps
  <2>3. Remain(Server!One(Server!HistoricalVolatility(n, p)),
               Server!One(Server!HistoricalVolatility(m, p)), n)
    BY <2>2, OneRemains
  <2> QED BY ONLY <2>1, <2>3
<1>14. CASE r.indicator = "obv"
  <2>1. /\ ServerResult(r, n) = Server!One(Server!Obv(n))
        /\ ServerResult(r, m) = Server!One(Server!Obv(m))
    BY <1>14 DEF ServerResult, Server!Calculate
  <2>2. Keeps(Server!Obv(n), Server!Obv(m), n)
    BY SumsKeep
  <2>3. Remain(Server!One(Server!Obv(n)), Server!One(Server!Obv(m)), n)
    BY <2>2, OneRemains
  <2> QED BY ONLY <2>1, <2>3
<1>15. CASE r.indicator = "vwap"
  <2>1. /\ ServerResult(r, n) = Server!One(Server!Vwap(n, q))
        /\ ServerResult(r, m) = Server!One(Server!Vwap(m, q))
    BY <1>15 DEF ServerResult, Server!Calculate
  <2>2. Keeps(Server!Vwap(n, q), Server!Vwap(m, q), n)
    BY SumsKeep
  <2>3. Remain(Server!One(Server!Vwap(n, q)), Server!One(Server!Vwap(m, q)), n)
    BY <2>2, OneRemains
  <2> QED BY ONLY <2>1, <2>3
<1>16. CASE r.indicator = "accumulation_distribution"
  <2>1. /\ ServerResult(r, n) = Server!One(Server!AccumulationDistribution(n))
        /\ ServerResult(r, m) = Server!One(Server!AccumulationDistribution(m))
    BY <1>16 DEF ServerResult, Server!Calculate
  <2>2. Keeps(Server!AccumulationDistribution(n), Server!AccumulationDistribution(m), n)
    BY SumsKeep
  <2>3. Remain(Server!One(Server!AccumulationDistribution(n)),
               Server!One(Server!AccumulationDistribution(m)), n)
    BY <2>2, OneRemains
  <2> QED BY ONLY <2>1, <2>3
<1>17. CASE r.indicator = "mfi"
  <2>1. /\ ServerResult(r, n) = Server!One(Server!Mfi(n, p))
        /\ ServerResult(r, m) = Server!One(Server!Mfi(m, p))
    BY <1>17 DEF ServerResult, Server!Calculate
  <2>2. Keeps(Server!Mfi(n, p), Server!Mfi(m, p), n)
    BY MfiKeeps
  <2>3. Remain(Server!One(Server!Mfi(n, p)), Server!One(Server!Mfi(m, p)), n)
    BY <2>2, OneRemains
  <2> QED BY ONLY <2>1, <2>3
<1>18. CASE r.indicator = "qstick"
  <2>1. /\ ServerResult(r, n) = Server!One(Server!Qstick(n, p))
        /\ ServerResult(r, m) = Server!One(Server!Qstick(m, p))
    BY <1>18 DEF ServerResult, Server!Calculate
  <2>2. Keeps(Server!Qstick(n, p), Server!Qstick(m, p), n)
    BY WindowedKeep
  <2>3. Remain(Server!One(Server!Qstick(n, p)), Server!One(Server!Qstick(m, p)), n)
    BY <2>2, OneRemains
  <2> QED BY ONLY <2>1, <2>3
<1>19. CASE r.indicator = "vhf"
  <2>1. /\ ServerResult(r, n) = Server!One(Server!Vhf(n, p))
        /\ ServerResult(r, m) = Server!One(Server!Vhf(m, p))
    BY <1>19 DEF ServerResult, Server!Calculate
  <2>2. Keeps(Server!Vhf(n, p), Server!Vhf(m, p), n)
    BY WindowedKeep
  <2>3. Remain(Server!One(Server!Vhf(n, p)), Server!One(Server!Vhf(m, p)), n)
    BY <2>2, OneRemains
  <2> QED BY ONLY <2>1, <2>3
<1>20. CASE r.indicator = "mass_index"
  <2>1. /\ ServerResult(r, n) = Server!One(Server!MassIndex(n, p))
        /\ ServerResult(r, m) = Server!One(Server!MassIndex(m, p))
    BY <1>20 DEF ServerResult, Server!Calculate
  <2>2. Keeps(Server!MassIndex(n, p), Server!MassIndex(m, p), n)
    BY MassIndexKeeps
  <2>3. Remain(Server!One(Server!MassIndex(n, p)), Server!One(Server!MassIndex(m, p)), n)
    BY <2>2, OneRemains
  <2> QED BY ONLY <2>1, <2>3
<1>21. CASE r.indicator = "macd"
  <2>1. ServerResult(r, n) = Server!Macd(n, q, p, q) /\ ServerResult(r, m) = Server!Macd(m, q, p, q)
    BY <1>21 DEF ServerResult, Server!Calculate
  <2>2. Remain(Server!Macd(n, q, p, q), Server!Macd(m, q, p, q), n)
    BY MacdRemains
  <2> QED BY ONLY <2>1, <2>2
<1>22. CASE r.indicator = "stochastic"
  <2>1. /\ ServerResult(r, n) = Server!Stochastic(n, p, q, q)
        /\ ServerResult(r, m) = Server!Stochastic(m, p, q, q)
    BY <1>22 DEF ServerResult, Server!Calculate
  <2>2. Remain(Server!Stochastic(n, p, q, q), Server!Stochastic(m, p, q, q), n)
    BY StochasticRemains
  <2> QED BY ONLY <2>1, <2>2
<1>23. CASE r.indicator = "adx"
  <2>1. ServerResult(r, n) = Server!Adx(n, p) /\ ServerResult(r, m) = Server!Adx(m, p)
    BY <1>23 DEF ServerResult, Server!Calculate
  <2>2. Remain(Server!Adx(n, p), Server!Adx(m, p), n)
    BY AdxRemains
  <2> QED BY ONLY <2>1, <2>2
<1>24. CASE r.indicator = "bollinger_bands"
  <2>1. ServerResult(r, n) = Server!Bollinger(n, p) /\ ServerResult(r, m) = Server!Bollinger(m, p)
    BY <1>24 DEF ServerResult, Server!Calculate
  <2>2. Remain(Server!Bollinger(n, p), Server!Bollinger(m, p), n)
    BY BollingerRemains
  <2> QED BY ONLY <2>1, <2>2
<1>25. CASE r.indicator = "keltner_channel"
  <2>1. ServerResult(r, n) = Server!Keltner(n, p) /\ ServerResult(r, m) = Server!Keltner(m, p)
    BY <1>25 DEF ServerResult, Server!Calculate
  <2>2. Remain(Server!Keltner(n, p), Server!Keltner(m, p), n)
    BY BandsRemain
  <2> QED BY ONLY <2>1, <2>2
<1>26. CASE r.indicator = "ma_ribbon"
  <2>1. /\ ServerResult(r, n) = Server!One(Server!Ribbon(n, q, p).ema_p)
        /\ ServerResult(r, m) = Server!One(Server!Ribbon(m, q, p).ema_p)
    BY <1>26 DEF ServerResult, Server!Calculate
  <2>2. Remain(Server!One(Server!Ribbon(n, q, p).ema_p), Server!One(Server!Ribbon(m, q, p).ema_p), n)
    BY RibbonRemains
  <2> QED BY ONLY <2>1, <2>2
<1> QED
  BY <1>1, <1>2, <1>3, <1>4, <1>5, <1>6, <1>7, <1>8, <1>9, <1>10, <1>11, <1>12, <1>13,
     <1>14, <1>15, <1>16, <1>17, <1>18, <1>19, <1>20, <1>21, <1>22, <1>23, <1>24, <1>25, <1>26
  DEF Server!Registry

(***************************************************************************)
(* The browser's lists                                                     *)
(***************************************************************************)
LEMMA RefusedRemains == ASSUME NEW now, NEW n PROVE Remain(Browser!Refused, now, n)
  BY DEF Browser!Refused, Remain

LEMMA BrowserOneRemains ==
  ASSUME NEW s, NEW t, NEW n, Keeps(s, t, n)
  PROVE  Remain(Browser!One(s), Browser!One(t), n)
BY DEF Remain, Browser!One

LEMMA StillUsable ==
  ASSUME NEW n \in Nat, NEW m \in Nat, n <= m, NEW p \in Nat, Browser!Usable(n, p)
  PROVE  Browser!Usable(m, p) /\ p \in 1..(n + 1) /\ p \in 1..n /\ p \in Nat \ {0} /\ p - 1 \in Nat
BY DEF Browser!Usable

LEMMA BrowserWindowsGrow ==
  ASSUME NEW n \in Nat \ {0}, NEW m \in Nat, n <= m, NEW p \in Nat \ {0}, Browser!Usable(n, p)
  PROVE  Grows(Browser!Windowed(n, p), Browser!Windowed(m, p), n, m)
<1> DEFINE t(x) == [i \in 1..(IF x < p THEN 0 ELSE x - p + 1) |->
                      Browser!Span(Browser!Column(x), p + i - 1 - p + 1, p + i - 1)]
           k == p - 1
<1>1. Browser!Windowed(n, p) = Base!Nones(k) \o t(n) /\ Browser!Windowed(m, p) = Base!Nones(k) \o t(m)
  <2>1. Browser!Windowed(n, p) = Browser!Nones(p - 1) \o t(n)
    BY DEF Browser!Windowed, Browser!Each
  <2>2. Browser!Windowed(m, p) = Browser!Nones(p - 1) \o t(m)
    BY DEF Browser!Windowed, Browser!Each
  <2> HIDE DEF t
  <2> QED BY <2>1, <2>2, BrowserBase
<1>2. /\ WindowLoop(t(n), Base!Column(n), p, n, p)
      /\ WindowLoop(t(m), Base!Column(m), p, m, p)
  BY BrowserBase DEF WindowLoop
<1> HIDE DEF t
<1>3. p \in 1..(n + 1) /\ p \in 1..p /\ n \in Nat /\ k \in Nat /\ k + (n - p + 1) = n /\ k + (m - p + 1) = m
  BY DEF Browser!Usable
<1>4. Grows(Base!Column(n), Base!Column(m), n, m)
  BY <1>3, ColumnGrows
<1> HIDE DEF k
<1>5. Grows(Base!Nones(k) \o t(n), Base!Nones(k) \o t(m), k + (n - p + 1), k + (m - p + 1))
  BY <1>2, <1>3, <1>4, LedWindowsGrow
<1> QED BY <1>1, <1>3, <1>5

LEMMA BrowserPrefixesGrow ==
  ASSUME NEW n \in Nat \ {0}, NEW m \in Nat, n <= m, NEW p \in Nat \ {0}, p <= n,
         NEW s, NEW r, Grows(s, r, n, m), NEW t, NEW u,
         t = [i \in 1..(IF n < p THEN 0 ELSE n - p + 1) |-> Browser!Span(s, 1, p + i - 1)],
         u = [i \in 1..(IF m < p THEN 0 ELSE m - p + 1) |-> Browser!Span(r, 1, p + i - 1)]
  PROVE  Grows(Browser!Nones(p - 1) \o t, Browser!Nones(p - 1) \o u, n, m)
<1> DEFINE k == p - 1
<1>1. PrefixLoop(t, s, p, n) /\ PrefixLoop(u, r, p, m)
  BY BrowserBase DEF PrefixLoop
<1>2. p \in 1..(n + 1) /\ n \in Nat /\ k \in Nat /\ k + (n - p + 1) = n /\ k + (m - p + 1) = m
  OBVIOUS
<1> HIDE DEF k
<1>3. Grows(Base!Nones(k) \o t, Base!Nones(k) \o u, k + (n - p + 1), k + (m - p + 1))
  BY <1>1, <1>2, LedPrefixesGrow
<1> QED BY <1>2, <1>3, BrowserBase DEF k

LEMMA BrowserSMAKeeps ==
  ASSUME NEW n \in Nat \ {0}, NEW m \in Nat, n <= m, NEW p \in Nat \ {0}
  PROVE  /\ Remain(Browser!CalculateSMA(n, p), Browser!CalculateSMA(m, p), n)
         /\ Remain(Browser!CalculateWMA(n, p), Browser!CalculateWMA(m, p), n)
         /\ Remain(Browser!CalculateBollingerBands(n, p), Browser!CalculateBollingerBands(m, p), n)
<1> DEFINE band(x) == Browser!Windowed(x, p)
<1>0. \A x : Browser!CalculateWMA(x, p) = Browser!CalculateSMA(x, p)
  BY DEF Browser!CalculateSMA, Browser!CalculateWMA
<1>1. CASE Browser!Usable(n, p)
  <2>1. Browser!Usable(m, p)
    BY <1>1, StillUsable
  <2>2. /\ Browser!CalculateSMA(n, p) = Browser!One(band(n))
        /\ Browser!CalculateSMA(m, p) = Browser!One(band(m))
    BY <1>1, <2>1 DEF Browser!CalculateSMA
  <2>3. /\ Browser!CalculateBollingerBands(n, p) = [middle |-> band(n), upper |-> band(n), lower |-> band(n)]
        /\ Browser!CalculateBollingerBands(m, p) = [middle |-> band(m), upper |-> band(m), lower |-> band(m)]
    BY <1>1, <2>1 DEF Browser!CalculateBollingerBands
  <2>4. Keeps(band(n), band(m), n)
    BY <1>1, BrowserWindowsGrow, GrowsKeeps
  <2> HIDE DEF band
  <2>5. Remain(Browser!CalculateSMA(n, p), Browser!CalculateSMA(m, p), n)
    BY <2>2, <2>4, BrowserOneRemains
  <2>6. Remain(Browser!CalculateBollingerBands(n, p), Browser!CalculateBollingerBands(m, p), n)
    BY <2>3, <2>4 DEF Remain
  <2> QED BY <1>0, <2>5, <2>6
<1>2. CASE ~Browser!Usable(n, p)
  <2>1. /\ Browser!CalculateSMA(n, p) = Browser!Refused
        /\ Browser!CalculateBollingerBands(n, p) = Browser!Refused
    BY <1>2 DEF Browser!CalculateSMA, Browser!CalculateBollingerBands
  <2> QED BY <1>0, <2>1, RefusedRemains
<1> QED BY <1>1, <1>2

LEMMA BrowserEMAKeeps ==
  ASSUME NEW n \in Nat \ {0}, NEW m \in Nat, n <= m, NEW p \in Nat \ {0}
  PROVE  /\ Remain(Browser!CalculateEMA(n, p), Browser!CalculateEMA(m, p), n)
         /\ Browser!Usable(n, p) =>
              Grows(Browser!CalculateEMA(n, p).values, Browser!CalculateEMA(m, p).values, n, m)
<1> DEFINE t(x) == [i \in 1..(IF x < p THEN 0 ELSE x - p + 1) |->
                      Browser!Span(Browser!Column(x), 1, p + i - 1)]
           s(x) == Browser!Nones(p - 1) \o t(x)
<1>1. \A x : Browser!CalculateEMA(x, p) =
               IF ~Browser!Usable(x, p) THEN Browser!Refused ELSE Browser!One(s(x))
  BY DEF Browser!CalculateEMA, Browser!Each
<1>2. CASE Browser!Usable(n, p)
  <2>0. p <= n /\ n \in Nat
    BY <1>2 DEF Browser!Usable
  <2>1. Browser!Usable(m, p)
    BY <1>2, StillUsable
  <2>2. Grows(Browser!Column(n), Browser!Column(m), n, m)
    BY <2>0, ColumnGrows, BrowserBase
  <2>3. Grows(s(n), s(m), n, m)
    BY <2>0, <2>2, BrowserPrefixesGrow
  <2> HIDE DEF s
  <2>4. Browser!CalculateEMA(n, p) = Browser!One(s(n)) /\ Browser!CalculateEMA(m, p) = Browser!One(s(m))
    BY <1>1, <1>2, <2>1
  <2>5. Browser!One(s(n)).values = s(n) /\ Browser!One(s(m)).values = s(m)
    BY DEF Browser!One
  <2>6. Keeps(s(n), s(m), n)
    BY <2>3, GrowsKeeps
  <2> QED BY <2>3, <2>4, <2>5, <2>6, BrowserOneRemains
<1>3. CASE ~Browser!Usable(n, p)
  <2> HIDE DEF s
  <2> QED BY <1>1, <1>3, RefusedRemains
<1> QED BY <1>2, <1>3

LEMMA BrowserATRKeeps ==
  ASSUME NEW n \in Nat \ {0}, NEW m \in Nat, n <= m, NEW p \in Nat \ {0}
  PROVE  Remain(Browser!CalculateATR(n, p), Browser!CalculateATR(m, p), n)
<1> DEFINE ranges(x) == <<Browser!Column(x)[1]>> \o Browser!Changes(Browser!Column(x))
           t(x) == [i \in 1..(IF x < p THEN 0 ELSE x - p + 1) |-> Browser!Span(ranges(x), 1, p + i - 1)]
           s(x) == Browser!Nones(p - 1) \o t(x)
<1>1. \A x : Browser!CalculateATR(x, p) =
               IF ~Browser!Usable(x, p) THEN Browser!Refused ELSE Browser!One(s(x))
  BY DEF Browser!CalculateATR, Browser!Each
<1>2. CASE Browser!Usable(n, p)
  <2>0. p <= n /\ n \in Nat
    BY <1>2 DEF Browser!Usable
  <2>1. Browser!Usable(m, p)
    BY <1>2, StillUsable
  <2>2. \A x : ranges(x) = Base!TrueRange(x)
    BY BrowserBase DEF Base!TrueRange
  <2>3. Grows(ranges(n), ranges(m), n, m)
    BY <2>2, RangesGrow
  <2> HIDE DEF ranges
  <2>4. Grows(s(n), s(m), n, m)
    BY <2>0, <2>3, BrowserPrefixesGrow
  <2> HIDE DEF s
  <2>5. Browser!CalculateATR(n, p) = Browser!One(s(n)) /\ Browser!CalculateATR(m, p) = Browser!One(s(m))
    BY <1>1, <1>2, <2>1
  <2>6. Keeps(s(n), s(m), n)
    BY <2>4, GrowsKeeps
  <2> QED BY <2>5, <2>6, BrowserOneRemains
<1>3. CASE ~Browser!Usable(n, p)
  <2> HIDE DEF s
  <2> QED BY <1>1, <1>3, RefusedRemains
<1> QED BY <1>2, <1>3

LEMMA BrowserVWAPKeeps ==
  ASSUME NEW n \in Nat \ {0}, NEW m \in Nat, n <= m, NEW q \in Nat \ {0}
  PROVE  /\ Remain(Browser!CalculateVWAP(n, q), Browser!CalculateVWAP(m, q), n)
         /\ Remain(Browser!CalculateOBV(n), Browser!CalculateOBV(m), n)
<1> DEFINE c(x) == Base!Column(x)
           u(x) == [i \in 1..(IF x < 1 THEN 0 ELSE x - 1 + 1) |->
                      Browser!Span(Browser!Column(x), (1 + i - 1) - (((1 + i - 1) - 1) % q), 1 + i - 1)]
           w(x) == [i \in 1..(IF x < 1 THEN 0 ELSE x - 1 + 1) |->
                      Browser!Span(Browser!Column(x), 1, 1 + i - 1)]
<1>0. n \in Nat
  OBVIOUS
<1>1. /\ \A x : Browser!CalculateVWAP(x, q) = [values |-> u(x)]
      /\ \A x : Browser!CalculateOBV(x) = [values |-> w(x)]
  BY DEF Browser!CalculateVWAP, Browser!CalculateOBV, Browser!One, Browser!Each
<1>2. Grows(c(n), c(m), n, m)
  BY <1>0, ColumnGrows
<1>3. ASSUME NEW x \in Nat \ {0}, NEW i \in 1..x
      PROVE  /\ u(x)[i] = Base!Span(c(x), i - ((i - 1) % q), i)
             /\ w(x)[i] = Base!Span(c(x), 1, i)
  <2>0. (IF x < 1 THEN 0 ELSE x - 1 + 1) = x
    OBVIOUS
  <2>1. /\ u(x)[i] = Base!Span(c(x), (1 + i - 1) - (((1 + i - 1) - 1) % q), 1 + i - 1)
        /\ w(x)[i] = Base!Span(c(x), 1, 1 + i - 1)
    BY <2>0, BrowserBase
  <2>2. 1 + i - 1 = i
    OBVIOUS
  <2> HIDE DEF u, w, c
  <2> QED BY <2>1, <2>2
<1> HIDE DEF u, w, c
<1>4. ASSUME NEW i \in 1..n PROVE u(n)[i] = u(m)[i] /\ w(n)[i] = w(m)[i]
  <2>1. m \in Nat \ {0} /\ i \in 1..m /\ 1 \in Nat \ {0}
    OBVIOUS
  <2>2. i - ((i - 1) % q) \in Nat \ {0}
    <3> DEFINE j == i - 1
               r == j % q
    <3>1. j \in Nat /\ r \in 0..(q - 1) /\ r <= j
      OBVIOUS
    <3> HIDE DEF r
    <3> QED BY <3>1
  <2>3. Base!Span(c(n), i - ((i - 1) % q), i) = Base!Span(c(m), i - ((i - 1) % q), i)
    BY <1>0, <1>2, <2>2, SpanGrows
  <2>4. Base!Span(c(n), 1, i) = Base!Span(c(m), 1, i)
    BY <1>0, <1>2, <2>1, SpanGrows
  <2> QED BY <1>3, <2>1, <2>3, <2>4
<1>5. Keeps(u(n), u(m), n) /\ Keeps(w(n), w(m), n)
  BY <1>4 DEF Keeps
<1> QED BY <1>1, <1>5 DEF Remain

(* A figure of a list that keeps its numbers keeps to them.                *)
LEMMA SpanKeeps ==
  ASSUME NEW n \in Nat, NEW m \in Nat, n <= m, NEW s \in Lists(n), NEW t \in Lists(m), Keeps(s, t, n),
         NEW a \in 1..n, NEW b \in a..n
  PROVE  Base!Span(s, a, b) = None \/ Base!Span(s, a, b) = Base!Span(t, a, b)
<1>1. DOMAIN s = 1..n /\ DOMAIN t = 1..m /\ a..b \subseteq 1..n /\ b \in a..b /\ 1..n \subseteq 1..m
  BY ListFacts
<1>2. CASE \E i \in a..b : s[i] = None
  BY <1>2, SpanFacts
<1>3. CASE \A i \in a..b : s[i] # None
  <2>1. \A i \in a..b : s[i] = t[i]
    BY <1>1, <1>3 DEF Keeps
  <2>2. {s[i] : i \in a..b} = {t[i] : i \in a..b}
    BY <2>1
  <2>3. s[b] = t[b]
    BY <1>1, <2>1
  <2> QED BY <2>2, <2>3 DEF Base!Span
<1> QED BY <1>2, <1>3

(* A list without numbers before place late, and from there on computed    *)
(* from those of s from place low[i] on.                                   *)
LateOf(u, s, low, late, n) ==
  \A i \in 1..n : u[i] = IF i < late THEN None ELSE Base!Span(s, low[i], i)

Lows(low, late, n) == \A i \in late..n : i >= 1 => low[i] \in 1..i

LEMMA LateKeeps ==
  ASSUME NEW n \in Nat, NEW m \in Nat, n <= m, NEW s \in Lists(n), NEW t \in Lists(m), Keeps(s, t, n),
         NEW late \in Nat, NEW low, Lows(low, late, n), NEW u, NEW w,
         LateOf(u, s, low, late, n), LateOf(w, t, low, late, m)
  PROVE  Keeps(u, w, n)
<1>1. ASSUME NEW i \in 1..n PROVE u[i] = None \/ u[i] = w[i]
  <2>1. i \in 1..m
    OBVIOUS
  <2>2. CASE i < late
    BY <2>2 DEF LateOf
  <2>3. CASE ~(i < late)
    <3>1. low[i] \in 1..n /\ i \in low[i]..n
      BY <2>3 DEF Lows
    <3>2. Base!Span(s, low[i], i) = None \/ Base!Span(s, low[i], i) = Base!Span(t, low[i], i)
      BY <3>1, SpanKeeps
    <3> QED BY <2>1, <2>3, <3>2 DEF LateOf
  <2> QED BY <2>2, <2>3
<1> QED BY <1>1 DEF Keeps

LEMMA BrowserStochasticKeeps ==
  ASSUME NEW n \in Nat \ {0}, NEW m \in Nat, n <= m, NEW p \in Nat \ {0}, NEW q \in Nat \ {0}
  PROVE  Remain(Browser!CalculateStochastic(n, p, q), Browser!CalculateStochastic(m, p, q), n)
<1> DEFINE fast(x) == Browser!Windowed(x, p)
           slow(x) == [i \in 1..(IF x < 1 THEN 0 ELSE x - 1 + 1) |->
                         IF 1 + i - 1 < p + q - 1 THEN None
                         ELSE Browser!Span(fast(x), 1 + i - 1 - q + 1, 1 + i - 1)]
           both(x) == [k |-> fast(x), d |-> slow(x)]
<1>1. \A x : Browser!CalculateStochastic(x, p, q) =
               IF ~Browser!Usable(x, p) THEN Browser!Refused ELSE both(x)
  BY DEF Browser!CalculateStochastic, Browser!Each
<1>2. CASE Browser!Usable(n, p)
  <2>0. Browser!Usable(m, p) /\ n \in Nat
    BY <1>2, StillUsable
  <2>1. Grows(fast(n), fast(m), n, m)
    BY <1>2, BrowserWindowsGrow
  <2> HIDE DEF fast
  <2> DEFINE late == p + q - 1
             deep == [i \in Int |-> i - q + 1]
  <2>2. late \in Nat /\ Lows(deep, late, n)
    BY DEF Lows
  <2>3. ASSUME NEW x \in Nat, NEW i \in 1..x
        PROVE  slow(x)[i] = IF i < late THEN None ELSE Base!Span(fast(x), deep[i], i)
    <3>1. (IF x < 1 THEN 0 ELSE x - 1 + 1) = x /\ 1 + i - 1 = i /\ 1 + i - 1 - q + 1 = deep[i]
      OBVIOUS
    <3> QED BY <3>1, BrowserBase
  <2> HIDE DEF slow, deep, late
  <2>4. LateOf(slow(n), fast(n), deep, late, n) /\ LateOf(slow(m), fast(m), deep, late, m)
    BY <2>0, <2>3 DEF LateOf
  <2>5. Keeps(fast(n), fast(m), n) /\ fast(n) \in Lists(n) /\ fast(m) \in Lists(m)
    BY <2>1, GrowsKeeps DEF Grows
  <2>6. Keeps(slow(n), slow(m), n)
    BY <2>0, <2>2, <2>4, <2>5, LateKeeps
  <2>7. Remain(both(n), both(m), n)
    BY <2>5, <2>6 DEF Remain
  <2> HIDE DEF both
  <2> QED BY <1>1, <1>2, <2>0, <2>7
<1>3. CASE ~Browser!Usable(n, p)
  <2> HIDE DEF both
  <2> QED BY <1>1, <1>3, RefusedRemains
<1> QED BY <1>2, <1>3

LEMMA BrowserMACDKeeps ==
  ASSUME NEW n \in Nat \ {0}, NEW m \in Nat, n <= m,
         NEW a \in Nat \ {0}, NEW b \in Nat \ {0}, NEW q \in Nat \ {0}
  PROVE  Remain(Browser!CalculateMACD(n, a, b, q), Browser!CalculateMACD(m, a, b, q), n)
<1> DEFINE Average(x, p) == IF Browser!Usable(x, p) THEN Browser!CalculateEMA(x, p).values
                            ELSE Browser!Nones(x)
           macd(x) == Base!Zip(Average(x, a), Average(x, b))
           line(x) == [i \in 1..(IF x < 1 THEN 0 ELSE x - 1 + 1) |->
                         IF 1 + i - 1 < b + q - 1 THEN None
                         ELSE Browser!Span(macd(x), b, 1 + i - 1)]
           all(x) == [macd |-> macd(x), signal |-> line(x), histogram |-> Base!Zip(macd(x), line(x))]
<1>0. n \in Nat /\ m \in Nat \ {0}
  OBVIOUS
<1>1. \A x : Browser!CalculateMACD(x, a, b, q) = IF b <= a THEN Browser!Refused ELSE all(x)
  <2> DEFINE zip(x) == Browser!Zip(Average(x, a), Average(x, b))
             late(x) == [i \in 1..(IF x < 1 THEN 0 ELSE x - 1 + 1) |->
                           IF 1 + i - 1 < b + q - 1 THEN None
                           ELSE Browser!Span(zip(x), b, 1 + i - 1)]
             each(x) == [macd |-> zip(x), signal |-> late(x), histogram |-> Browser!Zip(zip(x), late(x))]
  <2>1. \A x : Browser!CalculateMACD(x, a, b, q) = IF b <= a THEN Browser!Refused ELSE each(x)
    BY DEF Browser!CalculateMACD, Browser!Each
  <2> HIDE DEF Average
  <2>2. \A x : zip(x) = macd(x)
    BY BrowserBase
  <2> HIDE DEF zip, macd
  <2>3. \A x : late(x) = line(x)
    BY <2>2
  <2> HIDE DEF late, line
  <2>4. \A x : each(x) = all(x)
    BY <2>2, <2>3, BrowserBase
  <2> HIDE DEF each, all
  <2> QED BY <2>1, <2>4
<1>2. ASSUME NEW p \in Nat \ {0}
      PROVE  /\ Keeps(Average(n, p), Average(m, p), n)
             /\ Average(n, p) \in Lists(n) /\ Average(m, p) \in Lists(m)
  <2>1. CASE Browser!Usable(n, p)
    <3>1. Browser!Usable(m, p)
      BY <1>0, <2>1, StillUsable
    <3>2. Grows(Browser!CalculateEMA(n, p).values, Browser!CalculateEMA(m, p).values, n, m)
      BY <2>1, BrowserEMAKeeps
    <3>3. /\ Average(n, p) = Browser!CalculateEMA(n, p).values
          /\ Average(m, p) = Browser!CalculateEMA(m, p).values
      BY <2>1, <3>1
    <3> QED BY <3>2, <3>3, GrowsKeeps DEF Grows
  <2>2. CASE ~Browser!Usable(n, p)
    <3>1. Average(n, p) = Base!Nones(n)
      BY <2>2, BrowserBase
    <3>2. Base!Nones(n) \in Lists(n) /\ Base!Nones(m) \in Lists(m) /\ Keeps(Base!Nones(n), Average(m, p), n)
      BY <1>0, NonesList, NonesKeep
    <3>3. Average(m, p) \in Lists(m)
      BY <1>0, <3>2, BrowserEMA, BrowserBase DEF InPlace
    <3> QED BY <3>1, <3>2, <3>3
  <2> QED BY <2>1, <2>2
<1>3. /\ Keeps(macd(n), macd(m), n) /\ macd(n) \in Lists(n) /\ macd(m) \in Lists(m)
  <2>1. /\ Keeps(Average(n, a), Average(m, a), n)
        /\ Average(n, a) \in Lists(n) /\ Average(m, a) \in Lists(m)
        /\ Keeps(Average(n, b), Average(m, b), n)
        /\ Average(n, b) \in Lists(n) /\ Average(m, b) \in Lists(m)
    BY <1>2
  <2> HIDE DEF Average
  <2> QED BY <1>0, <2>1, ZipKeeps
<1> DEFINE low == [i \in Int |-> b]
           late == b + q - 1
<1> HIDE DEF macd
<1>4. late \in Nat /\ Lows(low, late, n) /\ Lows(low, late, m)
  BY DEF Lows
<1>5. ASSUME NEW x \in Nat, NEW i \in 1..x
      PROVE  line(x)[i] = IF i < late THEN None ELSE Base!Span(macd(x), low[i], i)
  <2>1. (IF x < 1 THEN 0 ELSE x - 1 + 1) = x /\ 1 + i - 1 = i /\ b = low[i]
    OBVIOUS
  <2> QED BY <2>1, BrowserBase
<1>6. ASSUME NEW x \in Nat \ {0}, macd(x) \in Lists(x), Lows(low, late, x)
      PROVE line(x) \in Lists(x)
  <2>1. ASSUME NEW i \in 1..x PROVE line(x)[i] \in Entries
    <3>1. CASE i < late
      BY <1>5, <3>1 DEF Entries
    <3>2. CASE ~(i < late)
      <4>1. low[i] \in 1..x /\ i \in low[i]..x
        BY <1>4, <1>6, <3>2 DEF Lows
      <4> HIDE DEF line
      <4> QED BY <1>5, <1>6, <3>2, <4>1, SpanFacts
    <3> QED BY <3>1, <3>2
  <2>2. line(x) = [i \in 1..x |-> line(x)[i]]
    <3>1. (IF x < 1 THEN 0 ELSE x - 1 + 1) = x
      OBVIOUS
    <3> QED BY <3>1
  <2> HIDE DEF line
  <2>3. line(x) \in [1..x -> Entries]
    BY <2>1, <2>2
  <2> QED BY <2>3, AList
<1> HIDE DEF line, low, late
<1>7. LateOf(line(n), macd(n), low, late, n) /\ LateOf(line(m), macd(m), low, late, m)
  BY <1>0, <1>5 DEF LateOf
<1>8. Keeps(line(n), line(m), n)
  BY <1>0, <1>3, <1>4, <1>7, LateKeeps
<1>9. line(n) \in Lists(n) /\ line(m) \in Lists(m)
  BY <1>0, <1>3, <1>4, <1>6
<1>10. Keeps(Base!Zip(macd(n), line(n)), Base!Zip(macd(m), line(m)), n)
  BY <1>0, <1>3, <1>8, <1>9, ZipKeeps
<1>11. Remain(all(n), all(m), n)
  BY <1>3, <1>8, <1>10 DEF Remain
<1> HIDE DEF all
<1> QED BY <1>1, <1>11, RefusedRemains

(* What each place of two lists in a row is.                               *)
LEMMA Joined ==
  ASSUME NEW S, NEW a \in Seq(S), NEW b \in Seq(S), NEW z, z = a \o b
  PROVE  /\ z \in Seq(S) /\ Len(z) = Len(a) + Len(b)
         /\ \A i \in 1..Len(a) : z[i] = a[i]
         /\ \A i \in 1..Len(b) : z[Len(a) + i] = b[i]
OBVIOUS

(* A list, one more entry, and the entries of a loop.                      *)
Follows(s, a, b, u) == \E ab : ab = a \o b /\ s = ab \o u

LEMMA ThreeJoined ==
  ASSUME NEW T, NEW k \in Nat, NEW c \in Nat, NEW a \in Seq(T), Len(a) = k, NEW b \in Seq(T), Len(b) = 1,
         NEW u \in Seq(T), Len(u) = c, NEW s, Follows(s, a, b, u)
  PROVE  /\ \A i \in 1..k : s[i] = a[i]
         /\ s[k + 1] = b[1]
         /\ \A i \in 1..c : s[k + 1 + i] = u[i]
<1>0. PICK ab : ab = a \o b /\ s = ab \o u
  BY DEF Follows
<1>1. /\ ab \in Seq(T) /\ Len(ab) = Len(a) + Len(b)
      /\ \A i \in 1..Len(a) : ab[i] = a[i]
      /\ \A i \in 1..Len(b) : ab[Len(a) + i] = b[i]
  BY ONLY <1>0, a \in Seq(T), b \in Seq(T), Joined
<1>3. /\ \A i \in 1..Len(ab) : s[i] = ab[i]
      /\ \A i \in 1..Len(u) : s[Len(ab) + i] = u[i]
  BY ONLY <1>0, <1>1, u \in Seq(T), Joined
<1>4. Len(ab) = k + 1 /\ 1 \in 1..Len(b)
  BY <1>1
<1>5. s[k + 1] = b[1]
  <2>1. k + 1 \in 1..Len(ab)
    BY <1>4
  <2> QED BY <1>1, <1>3, <1>4, <2>1
<1>6. ASSUME NEW i \in 1..k PROVE s[i] = a[i]
  <2>1. i \in 1..Len(ab)
    BY <1>4
  <2> QED BY <1>1, <1>3, <2>1
<1> QED BY <1>3, <1>4, <1>5, <1>6

LEMMA AnySequence ==
  ASSUME NEW c \in Nat, NEW T, NEW f \in [1..c -> T]
  PROVE  f \in Seq(T) /\ Len(f) = c
OBVIOUS

Parts(s, k, v, u) == Follows(s, Base!Nones(k), <<v>>, u)

InParts(s, k, v, u, c) ==
  /\ \A i \in 1..k : s[i] = None
  /\ s[k + 1] = v
  /\ \A i \in 1..c : s[k + 1 + i] = u[i]

LEMMA ThreeParts ==
  ASSUME NEW k \in Nat, NEW v, NEW c \in Nat, NEW T, NEW u \in Seq(T), Len(u) = c,
         NEW s, Parts(s, k, v, u)
  PROVE  InParts(s, k, v, u, c)
<1>1. PICK a : a = Base!Nones(k)
  OBVIOUS
<1>2. PICK b : b = <<v>>
  OBVIOUS
<1>7. PICK S : S = {None, v} \cup T
  OBVIOUS
<1>8. /\ a \in [1..k -> S] /\ \A i \in 1..k : a[i] = None
  BY <1>1, <1>7 DEF Base!Nones
<1>9. b \in [1..1 -> S] /\ b[1] = v
  BY <1>2, <1>7
<1>10. Follows(s, a, b, u)
  BY <1>1, <1>2 DEF Parts
<1>3. a \in Seq(S) /\ Len(a) = k
  BY ONLY <1>8, k \in Nat, AnySequence
<1>4. b \in Seq(S) /\ Len(b) = 1
  <2>1. 1 \in Nat
    OBVIOUS
  <2> QED BY ONLY <1>9, <2>1, AnySequence
<1>5. u \in Seq(S) /\ Len(u) = c
  BY <1>7
<1>6. /\ \A i \in 1..k : s[i] = a[i]
      /\ s[k + 1] = b[1]
      /\ \A i \in 1..c : s[k + 1 + i] = u[i]
  BY ONLY k \in Nat, c \in Nat, <1>10, <1>3, <1>4, <1>5, ThreeJoined
<1> QED BY <1>6, <1>8, <1>9 DEF InParts

(* What changes from bar to bar.                                           *)
LEMMA MovesGrow ==
  ASSUME NEW n \in Nat \ {0}, NEW m \in Nat, n <= m
  PROVE  Grows(Browser!Changes(Browser!Column(n)), Browser!Changes(Browser!Column(m)), n - 1, m - 1)
<1> DEFINE k == n - 1
           l == m - 1
<1>1. k \in Nat /\ l \in Nat /\ k <= l /\ k + 1 = n /\ l + 1 = m
  OBVIOUS
<1>2. Grows(Base!Column(n), Base!Column(m), n, m)
  BY ColumnGrows
<1> HIDE DEF k, l
<1>3. Grows(Base!Changes(Base!Column(n)), Base!Changes(Base!Column(m)), k, l)
  BY <1>1, <1>2, ChangesGrow
<1> QED BY <1>3, BrowserBase DEF k, l

(* The two lists that stand out of step keep their numbers all the same.   *)
LEMMA BrowserRSIKeeps ==
  ASSUME NEW n \in Nat \ {0}, NEW m \in Nat, n <= m, NEW p \in Nat \ {0}
  PROVE  Remain(Browser!CalculateRSI(n, p), Browser!CalculateRSI(m, p), n)
<1> DEFINE moves(x) == Browser!Changes(Browser!Column(x))
           first(x) == IF p <= Len(moves(x)) THEN Browser!Span(moves(x), 1, p) ELSE None
           later(x, k) == [of |-> moves(x)[k].of,
                           on |-> UNION {moves(x)[j].on : j \in (1..k) \ {p + 1}}]
           u(x) == [i \in 1..(IF Len(moves(x)) < p + 2 THEN 0 ELSE Len(moves(x)) - (p + 2) + 1) |->
                      later(x, p + 2 + i - 1)]
           s(x) == Browser!Nones(p + 1) \o <<first(x)>> \o u(x)
<1>1. \A x : Browser!CalculateRSI(x, p) =
               IF ~Browser!Usable(x, p) THEN Browser!Refused ELSE Browser!One(s(x))
  BY DEF Browser!CalculateRSI, Browser!Each
<1>2. CASE Browser!Usable(n, p)
  <2>0. p <= n /\ n \in Nat /\ Browser!Usable(m, p) /\ m \in Nat \ {0}
    <3>1. p <= n /\ n \in Nat
      BY <1>2 DEF Browser!Usable
    <3> QED BY <1>2, <3>1, StillUsable
  <2>1. Grows(moves(n), moves(m), n - 1, m - 1)
    BY MovesGrow
  <2> HIDE DEF moves
  <2>2. /\ Len(moves(n)) = n - 1 /\ Len(moves(m)) = m - 1
        /\ \A i \in 1..(n - 1) : moves(n)[i] = moves(m)[i]
    BY <2>1 DEF Grows, Lists
  <2>3. ASSUME NEW x \in Nat, Len(moves(x)) = x - 1, NEW i \in 1..x
        PROVE  /\ i <= p + 1 => s(x)[i] = None
               /\ i = p + 2 => s(x)[i] = first(x)
               /\ i > p + 2 => s(x)[i] = later(x, i - 1)
    <3> DEFINE k == p + 1
               c == IF x - 1 < p + 2 THEN 0 ELSE x - 1 - (p + 2) + 1
    <3>1. k \in Nat /\ c \in Nat
      OBVIOUS
    <3>2. u(x) = [j \in 1..c |-> later(x, p + 2 + j - 1)]
      BY <2>3
    <3>3. s(x) = Base!Nones(k) \o <<first(x)>> \o u(x)
      BY BrowserBase
    <3> HIDE DEF c, k, later, first, u, s
    <3>4. u(x) = [j \in 1..c |-> u(x)[j]]
      BY <3>2
    <3>5. /\ \A j \in 1..k : s(x)[j] = None
          /\ s(x)[k + 1] = first(x)
          /\ \A j \in 1..c : s(x)[k + 1 + j] = u(x)[j]
      <4> DEFINE v == first(x)
                 w == u(x)
                 T == {w[j] : j \in 1..c}
                 z == s(x)
      <4> HIDE DEF v, w
      <4>1. k \in Nat /\ c \in Nat /\ w \in [1..c -> T] /\ s(x) = Base!Nones(k) \o <<v>> \o w
        BY <3>1, <3>3, <3>4 DEF v, w
      <4> HIDE DEF T, z
      <4>2. /\ \A j \in 1..k : s(x)[j] = None
            /\ s(x)[k + 1] = v
            /\ \A j \in 1..c : s(x)[k + 1 + j] = w[j]
        <5>1. Parts(z, k, v, w) /\ w \in Seq(T) /\ Len(w) = c
          BY <4>1, AnySequence DEF z, Follows, Parts
        <5>0. k \in Nat /\ c \in Nat
          BY <3>1
        <5>2. InParts(z, k, v, w, c)
          BY ONLY <5>0, <5>1, ThreeParts
        <5> QED BY <5>2 DEF z, InParts
      <4> QED BY <4>2 DEF v, w
    <3>6. i <= p + 1 => s(x)[i] = None
      BY <3>5 DEF k
    <3>7. i = p + 2 => s(x)[i] = first(x)
      <4>1. i = p + 2 => i = k + 1
        BY DEF k
      <4> QED BY <3>5, <4>1
    <3>8. ASSUME i > p + 2 PROVE s(x)[i] = later(x, i - 1)
      <4> DEFINE j == i - (p + 2)
      <4>1. j \in 1..c /\ k + 1 + j = i /\ p + 2 + j - 1 = i - 1
        BY <3>8 DEF c, k
      <4> HIDE DEF j
      <4>2. s(x)[i] = u(x)[j]
        BY <3>5, <4>1
      <4>3. u(x)[j] = later(x, i - 1)
        BY <3>2, <4>1
      <4> QED BY <4>2, <4>3
    <3> QED BY <3>6, <3>7, <3>8
  <2>4. ASSUME NEW i \in 1..n PROVE s(n)[i] = None \/ s(n)[i] = s(m)[i]
    <3>0. i \in 1..m
      OBVIOUS
    <3>1. CASE i <= p + 1
      <4> HIDE DEF s, first, later
      <4> QED BY <2>0, <2>2, <2>3, <3>1
    <3>2. CASE i = p + 2
      <4>1. p \in 1..(n - 1) /\ p <= n - 1 /\ p <= m - 1
        BY <3>2
      <4>2. Base!Span(moves(n), 1, p) = Base!Span(moves(m), 1, p)
        <5> DEFINE k == n - 1
                   l == m - 1
        <5>1. k \in Nat /\ l \in Nat /\ p \in 1..k /\ Grows(moves(n), moves(m), k, l) /\ 1 \in Nat \ {0}
          BY <2>1, <4>1
        <5> HIDE DEF k, l
        <5> QED BY <5>1, SpanGrows
      <4>3. first(n) = first(m)
        BY <2>2, <4>1, <4>2, BrowserBase
      <4> HIDE DEF s, first, later
      <4>4. s(n)[i] = first(n) /\ s(m)[i] = first(m)
        BY <2>0, <2>2, <2>3, <3>0, <3>2
      <4> QED BY <4>3, <4>4
    <3>3. CASE i > p + 2
      <4>1. i - 1 \in 1..(n - 1) /\ \A j \in 1..(i - 1) : j \in 1..(n - 1)
        BY <3>3
      <4>2. /\ moves(n)[i - 1] = moves(m)[i - 1]
            /\ \A j \in 1..(i - 1) : moves(n)[j] = moves(m)[j]
        BY <2>2, <4>1
      <4>3. {moves(n)[j].on : j \in (1..(i - 1)) \ {p + 1}} =
              {moves(m)[j].on : j \in (1..(i - 1)) \ {p + 1}}
        BY <4>2
      <4>4. later(n, i - 1) = later(m, i - 1)
        BY <4>2, <4>3
      <4> HIDE DEF s, first, later
      <4>5. s(n)[i] = later(n, i - 1) /\ s(m)[i] = later(m, i - 1)
        BY <2>0, <2>2, <2>3, <3>0, <3>3
      <4> QED BY <4>4, <4>5
    <3> HIDE DEF s, first, later
    <3> QED BY <3>1, <3>2, <3>3
  <2> HIDE DEF s
  <2>5. Keeps(s(n), s(m), n)
    BY <2>4 DEF Keeps
  <2> QED BY <1>1, <1>2, <2>0, <2>5, BrowserOneRemains
<1>3. CASE ~Browser!Usable(n, p)
  <2> HIDE DEF s
  <2> QED BY <1>1, <1>3, RefusedRemains
<1> QED BY <1>2, <1>3

LEMMA BrowserADXKeeps ==
  ASSUME NEW n \in Nat \ {0}, NEW m \in Nat, n <= m, NEW p \in Nat \ {0}
  PROVE  Remain(Browser!CalculateADX(n, p), Browser!CalculateADX(m, p), n)
<1> DEFINE moves(x) == Browser!Changes(Browser!Column(x))
           t(x) == [i \in 1..(IF x - 1 < p THEN 0 ELSE x - 1 - p + 1) |->
                      Browser!Span(moves(x), 1, p + i - 1)]
           di(x) == <<None>> \o (IF x = p THEN <<None>> ELSE t(x))
           there(x, a, b) == {di(x)[i] : i \in (a..b) \cap (1..Len(di(x)))} \ {None}
           late(x, i) == Browser!Joint(there(x, 2, p + 1) \cup there(x, p + 1, i - p))
           end(x) == IF x > 2 * p THEN x ELSE 2 * p
           adx(x) == [i \in 1..(IF end(x) < 1 THEN 0 ELSE end(x) - 1 + 1) |->
                        IF 1 + i - 1 < 2 * p THEN None ELSE late(x, 1 + i - 1)]
           all(x) == [adx |-> adx(x), plus_di |-> di(x), minus_di |-> di(x)]
<1>1. \A x : Browser!CalculateADX(x, p) =
               IF ~Browser!Usable(x, p) THEN Browser!Refused ELSE all(x)
  BY DEF Browser!CalculateADX, Browser!Each
<1>2. CASE Browser!Usable(n, p)
  <2>0. p <= n /\ n \in Nat /\ Browser!Usable(m, p) /\ m \in Nat \ {0}
    <3>1. p <= n /\ n \in Nat
      BY <1>2 DEF Browser!Usable
    <3> QED BY <1>2, <3>1, StillUsable
  <2>1. Grows(moves(n), moves(m), n - 1, m - 1)
    BY MovesGrow
  <2>2. ASSUME n # p
        PROVE  Grows(di(n), di(m), n - p + 1, m - p + 1)
    <3> DEFINE k == n - 1
               l == m - 1
               c == k - p + 1
               d == l - p + 1
    <3>1. /\ k \in Nat /\ l \in Nat /\ k <= l /\ p \in 1..(k + 1)
          /\ c + 1 = n - p + 1 /\ d + 1 = m - p + 1 /\ m # p
          /\ Grows(moves(n), moves(m), k, l)
      BY <2>0, <2>1, <2>2
    <3>2. PrefixLoop(t(n), moves(n), p, k) /\ PrefixLoop(t(m), moves(m), p, l)
      BY BrowserBase DEF PrefixLoop
    <3>3. di(n) = <<None>> \o t(n) /\ di(m) = <<None>> \o t(m)
      BY <2>2, <3>1
    <3> HIDE DEF t, moves, k, l, di
    <3>4. Grows(t(n), t(m), c, d) /\ c \in Nat /\ d \in Nat /\ c <= d
      BY <3>1, <3>2, PrefixesGrow
    <3>5. None \in Entries
      BY DEF Entries
    <3> HIDE DEF c, d
    <3>6. Grows(<<None>> \o t(n), <<None>> \o t(m), c + 1, d + 1)
      BY <3>4, <3>5, AheadGrows
    <3> QED BY <3>1, <3>3, <3>6
  <2>3. Keeps(di(n), di(m), n)
    <3>1. CASE n = p
      <4>1. di(n) = <<None>> \o <<None>>
        BY <3>1
      <4> DEFINE a == <<None>>
                 N == {None}
      <4>2. a \in Seq(N)
        OBVIOUS
      <4> HIDE DEF di, a
      <4>3. a \o a \in Seq(N)
        BY <4>2
      <4> DEFINE b == a \o a
      <4> HIDE DEF b
      <4>4. \A i \in DOMAIN b : b[i] \in N
        BY <4>3 DEF b
      <4>5. \A i \in DOMAIN b : b[i] = None
        BY <4>4
      <4>6. Keeps(b, di(m), n)
        BY <4>5 DEF Keeps
      <4> QED BY <4>1, <4>6 DEF a, b
    <3>2. CASE n # p
      <4> HIDE DEF di
      <4> QED BY <2>2, <3>2, GrowsKeeps
    <3> QED BY <3>1, <3>2
  <2> HIDE DEF di
  <2>4. ASSUME NEW i \in 1..n, i >= 2 * p PROVE late(n, i) = late(m, i)
    <3> DEFINE c == n - p + 1
               d == m - p + 1
    <3>1. n # p /\ c \in Nat /\ d \in Nat /\ c <= d /\ p + 1 <= c /\ i - p <= c
      BY <2>0, <2>4
    <3>2. Len(di(n)) = c /\ Len(di(m)) = d /\ \A j \in 1..c : di(n)[j] = di(m)[j]
      BY <2>2, <3>1 DEF Grows, Lists
    <3> HIDE DEF c, d
    <3>3. ASSUME NEW a \in Nat \ {0}, NEW b \in Int, b <= c
          PROVE  there(n, a, b) = there(m, a, b)
      <4>1. /\ (a..b) \cap (1..Len(di(n))) = a..b
            /\ (a..b) \cap (1..Len(di(m))) = a..b
            /\ a..b \subseteq 1..c
        BY <3>1, <3>2, <3>3
      <4>2. {di(n)[j] : j \in a..b} = {di(m)[j] : j \in a..b}
        BY <3>2, <4>1
      <4> QED BY <4>1, <4>2
    <3>4. 2 \in Nat \ {0} /\ p + 1 \in Nat \ {0} /\ p + 1 \in Int /\ i - p \in Int
      OBVIOUS
    <3> HIDE DEF there
    <3>5. there(n, 2, p + 1) = there(m, 2, p + 1) /\ there(n, p + 1, i - p) = there(m, p + 1, i - p)
      BY <3>1, <3>3, <3>4
    <3> QED BY <3>5
  <2>5. ASSUME NEW x \in Nat \ {0}, NEW i \in 1..x
        PROVE  adx(x)[i] = IF i < 2 * p THEN None ELSE late(x, i)
    <3> HIDE DEF late
    <3>1. i \in 1..(IF end(x) < 1 THEN 0 ELSE end(x) - 1 + 1) /\ 1 + i - 1 = i
      OBVIOUS
    <3> QED BY <3>1
  <2> HIDE DEF late, adx
  <2>6. ASSUME NEW i \in 1..n PROVE adx(n)[i] = None \/ adx(n)[i] = adx(m)[i]
    <3>1. i \in 1..m
      OBVIOUS
    <3> QED BY <2>0, <2>4, <2>5, <3>1
  <2>7. Keeps(adx(n), adx(m), n)
    BY <2>6 DEF Keeps
  <2>8. Remain(all(n), all(m), n)
    BY <2>3, <2>7 DEF Remain
  <2> HIDE DEF all
  <2> QED BY <1>1, <1>2, <2>0, <2>8
<1>3. CASE ~Browser!Usable(n, p)
  <2> HIDE DEF all
  <2> QED BY <1>1, <1>3, RefusedRemains
<1> QED BY <1>2, <1>3

(* Whatever the browser computes, a number that was given is given again.  *)
LEMMA BrowserKeeps ==
  ASSUME NEW n \in Nat \ {0}, NEW m \in Nat, n <= m, NEW r, NEW p \in Nat \ {0}, NEW q \in Nat \ {0},
         r.p = p, r.q = q
  PROVE  Remain(Browser!CalculateIndicator(r, n), Browser!CalculateIndicator(r, m), n)
<1>1. CASE r.indicator = "sma"
  <2>1. /\ Browser!CalculateIndicator(r, n) = Browser!CalculateSMA(n, p)
        /\ Browser!CalculateIndicator(r, m) = Browser!CalculateSMA(m, p)
    BY <1>1 DEF Browser!CalculateIndicator
  <2>2. Remain(Browser!CalculateSMA(n, p), Browser!CalculateSMA(m, p), n)
    BY BrowserSMAKeeps
  <2> QED BY <2>1, <2>2
<1>2. CASE r.indicator = "ema"
  <2>1. /\ Browser!CalculateIndicator(r, n) = Browser!CalculateEMA(n, p)
        /\ Browser!CalculateIndicator(r, m) = Browser!CalculateEMA(m, p)
    BY <1>2 DEF Browser!CalculateIndicator
  <2>2. Remain(Browser!CalculateEMA(n, p), Browser!CalculateEMA(m, p), n)
    BY BrowserEMAKeeps
  <2> QED BY <2>1, <2>2
<1>3. CASE r.indicator = "wma"
  <2>1. /\ Browser!CalculateIndicator(r, n) = Browser!CalculateWMA(n, p)
        /\ Browser!CalculateIndicator(r, m) = Browser!CalculateWMA(m, p)
    BY <1>3 DEF Browser!CalculateIndicator
  <2>2. Remain(Browser!CalculateWMA(n, p), Browser!CalculateWMA(m, p), n)
    BY BrowserSMAKeeps
  <2> QED BY <2>1, <2>2
<1>4. CASE r.indicator = "rsi"
  <2>1. /\ Browser!CalculateIndicator(r, n) = Browser!CalculateRSI(n, p)
        /\ Browser!CalculateIndicator(r, m) = Browser!CalculateRSI(m, p)
    BY <1>4 DEF Browser!CalculateIndicator
  <2>2. Remain(Browser!CalculateRSI(n, p), Browser!CalculateRSI(m, p), n)
    BY BrowserRSIKeeps
  <2> QED BY <2>1, <2>2
<1>5. CASE r.indicator = "macd"
  <2>1. /\ Browser!CalculateIndicator(r, n) = Browser!CalculateMACD(n, q, p, q)
        /\ Browser!CalculateIndicator(r, m) = Browser!CalculateMACD(m, q, p, q)
    BY <1>5 DEF Browser!CalculateIndicator
  <2>2. Remain(Browser!CalculateMACD(n, q, p, q), Browser!CalculateMACD(m, q, p, q), n)
    BY BrowserMACDKeeps
  <2> QED BY <2>1, <2>2
<1>6. CASE r.indicator = "bollinger"
  <2>1. /\ Browser!CalculateIndicator(r, n) = Browser!CalculateBollingerBands(n, p)
        /\ Browser!CalculateIndicator(r, m) = Browser!CalculateBollingerBands(m, p)
    BY <1>6 DEF Browser!CalculateIndicator
  <2>2. Remain(Browser!CalculateBollingerBands(n, p), Browser!CalculateBollingerBands(m, p), n)
    BY BrowserSMAKeeps
  <2> QED BY <2>1, <2>2
<1>7. CASE r.indicator = "atr"
  <2>1. /\ Browser!CalculateIndicator(r, n) = Browser!CalculateATR(n, p)
        /\ Browser!CalculateIndicator(r, m) = Browser!CalculateATR(m, p)
    BY <1>7 DEF Browser!CalculateIndicator
  <2>2. Remain(Browser!CalculateATR(n, p), Browser!CalculateATR(m, p), n)
    BY BrowserATRKeeps
  <2> QED BY <2>1, <2>2
<1>8. CASE r.indicator = "stochastic"
  <2>1. /\ Browser!CalculateIndicator(r, n) = Browser!CalculateStochastic(n, p, q)
        /\ Browser!CalculateIndicator(r, m) = Browser!CalculateStochastic(m, p, q)
    BY <1>8 DEF Browser!CalculateIndicator
  <2>2. Remain(Browser!CalculateStochastic(n, p, q), Browser!CalculateStochastic(m, p, q), n)
    BY BrowserStochasticKeeps
  <2> QED BY <2>1, <2>2
<1>9. CASE r.indicator = "adx"
  <2>1. /\ Browser!CalculateIndicator(r, n) = Browser!CalculateADX(n, p)
        /\ Browser!CalculateIndicator(r, m) = Browser!CalculateADX(m, p)
    BY <1>9 DEF Browser!CalculateIndicator
  <2>2. Remain(Browser!CalculateADX(n, p), Browser!CalculateADX(m, p), n)
    BY BrowserADXKeeps
  <2> QED BY <2>1, <2>2
<1>10. CASE r.indicator = "vwap"
  <2>1. /\ Browser!CalculateIndicator(r, n) = Browser!CalculateVWAP(n, q)
        /\ Browser!CalculateIndicator(r, m) = Browser!CalculateVWAP(m, q)
    BY <1>10 DEF Browser!CalculateIndicator
  <2>2. Remain(Browser!CalculateVWAP(n, q), Browser!CalculateVWAP(m, q), n)
    BY BrowserVWAPKeeps
  <2> QED BY <2>1, <2>2
<1>11. CASE r.indicator = "obv"
  <2>1. /\ Browser!CalculateIndicator(r, n) = Browser!CalculateOBV(n)
        /\ Browser!CalculateIndicator(r, m) = Browser!CalculateOBV(m)
    BY <1>11 DEF Browser!CalculateIndicator
  <2>2. Remain(Browser!CalculateOBV(n), Browser!CalculateOBV(m), n)
    BY BrowserVWAPKeeps
  <2> QED BY <2>1, <2>2
<1>12. CASE r.indicator \notin {"sma", "ema", "wma", "rsi", "macd", "bollinger",
                                  "atr", "stochastic", "adx", "vwap", "obv"}
  <2>1. /\ Browser!CalculateIndicator(r, n) = Browser!Refused
        /\ Browser!CalculateIndicator(r, m) = Browser!Refused
    BY <1>12 DEF Browser!CalculateIndicator
  <2> QED BY <2>1, RefusedRemains
<1> QED
  BY <1>1, <1>2, <1>3, <1>4, <1>5, <1>6, <1>7, <1>8, <1>9, <1>10, <1>11, <1>12

(***************************************************************************)
(* Lists of a window: the same wherever the window stands                  *)
(***************************************************************************)
(* Nothing at the first k places, and from there on a number of places at  *)
(* fixed distances.                                                        *)
Across(i, os) == [of |-> {i}, on |-> {i - o : o \in os}]

Banded(s, n, k, os) ==
  s \in Lists(n) /\ \A i \in 1..n : s[i] = IF i <= k THEN None ELSE Across(i, os)

LEMMA BandPlaces ==
  ASSUME NEW k \in Nat, NEW i \in Nat, k < i
  PROVE  Across(i, 0..k) = [of |-> {i}, on |-> (i - k)..i]
<1>1. ASSUME NEW b \in (i - k)..i PROVE \E o \in 0..k : b = i - o
  <2>1. i - b \in 0..k /\ b = i - (i - b)
    OBVIOUS
  <2> QED BY <2>1
<1>2. ASSUME NEW o \in 0..k PROVE i - o \in (i - k)..i
  OBVIOUS
<1>3. {i - o : o \in 0..k} = (i - k)..i
  BY <1>1, <1>2
<1> QED BY <1>3 DEF Across

LEMMA AcrossIsEntry ==
  ASSUME NEW k \in Nat, NEW i \in Nat, k < i, NEW os \in SUBSET (0..k)
  PROVE  Across(i, os) \in Figures /\ Across(i, os) # None
<1>1. \A o \in os : i - o \in Nat
  OBVIOUS
<1>2. Across(i, os) \in Figures
  BY <1>1 DEF Across, Figures
<1> QED BY <1>2, NoneIsNoFigure

LEMMA NonesBanded ==
  ASSUME NEW n \in Nat, NEW k \in Nat, n <= k, NEW os
  PROVE  Banded(Base!Nones(n), n, k, os)
<1>1. \A i \in 1..n : i <= k
  OBVIOUS
<1> QED BY <1>1, NonesList DEF Banded

LEMMA LedBanded ==
  ASSUME NEW k \in Nat, NEW c \in Nat, NEW os \in SUBSET (0..k), NEW t,
         t = [i \in 1..c |-> t[i]], \A i \in 1..c : t[i] = Across(k + i, os)
  PROVE  Banded(Base!Nones(k) \o t, k + c, k, os)
<1> DEFINE list == Base!Nones(k) \o t
<1>1. \A i \in 1..c : t[i] \in Entries
  <2>1. ASSUME NEW i \in 1..c PROVE t[i] \in Entries
    <3>1. k + i \in Nat /\ k < k + i
      OBVIOUS
    <3> QED BY <3>1, AcrossIsEntry DEF Entries
  <2> QED BY <2>1
<1>2. t \in Lists(c)
  BY <1>1, AList
<1>3. /\ list \in Lists(k + c)
      /\ \A i \in 1..k : list[i] = None
      /\ \A i \in 1..c : list[k + i] = t[i]
  BY <1>2, Led
<1> HIDE DEF list
<1>4. ASSUME NEW i \in 1..(k + c), k < i PROVE list[i] = Across(i, os)
  <2>1. i - k \in 1..c /\ k + (i - k) = i
    BY <1>4
  <2> QED BY <1>3, <2>1
<1>5. ASSUME NEW i \in 1..(k + c), i <= k PROVE list[i] = None
  BY <1>3, <1>5
<1>6. \A i \in 1..(k + c) : i <= k \/ k < i
  OBVIOUS
<1> QED BY <1>3, <1>4, <1>5, <1>6 DEF Banded, list

Alongside(s, n, t, m) ==
  \E k \in Nat : \E os \in SUBSET (0..k) :
    k \in os /\ Banded(s, n, k, os) /\ Banded(t, m, k, os)

\* What stands in a list and whatever it rests on stand in another as far from
\* each other: the number is the same.
LEMMA BandMoves ==
  ASSUME NEW n \in Nat, NEW m \in Nat, NEW s, NEW t, Alongside(s, n, t, m),
         NEW before, NEW now, DOMAIN now = 1..m,
         NEW i \in 1..n, NEW j \in 1..m, s[i] # None, StillThere(s[i], before, now, i, j)
  PROVE  t[j] = Moved(s[i], j - i)
<1>a. PICK k \in Nat : \E os \in SUBSET (0..k) :
        k \in os /\ Banded(s, n, k, os) /\ Banded(t, m, k, os)
  BY DEF Alongside
<1>0. PICK os \in SUBSET (0..k) : k \in os /\ Banded(s, n, k, os) /\ Banded(t, m, k, os)
  BY <1>a
<1>1. k < i /\ s[i] = Across(i, os)
  BY <1>0 DEF Banded
<1>2. i - k \in s[i].on
  BY <1>0, <1>1 DEF Across
<1>3. (i - k) + (j - i) \in 1..m
  BY <1>2 DEF StillThere
<1>4. k < j
  BY <1>3
<1>5. t[j] = Across(j, os)
  BY <1>0, <1>4 DEF Banded
<1>6. {b + (j - i) : b \in {i}} = {j}
  OBVIOUS
<1>7. {b + (j - i) : b \in {i - o : o \in os}} = {j - o : o \in os}
  <2>1. \A o \in os : (i - o) + (j - i) = j - o
    OBVIOUS
  <2> QED BY <2>1
<1>8. /\ s[i].of = {i} /\ s[i].on = {i - o : o \in os}
      /\ t[j] = [of |-> {j}, on |-> {j - o : o \in os}]
  BY <1>1, <1>5 DEF Across
<1> QED BY <1>6, <1>7, <1>8 DEF Moved

(* A column's bars from a to b.                                            *)
LEMMA ColumnSpan ==
  ASSUME NEW n \in Nat, NEW a \in 1..n, NEW b \in a..n
  PROVE  Base!Span(Base!Column(n), a, b) = [of |-> {b}, on |-> a..b]
<1> DEFINE c == Base!Column(n)
           vs == {c[i] : i \in a..b}
<1>0. \A i \in 1..n : c[i] = [of |-> {i}, on |-> {i}] /\ c[i] # None
  BY ColumnList, ZenonT(30)
<1> HIDE DEF c
<1>1. ASSUME NEW i \in a..b
      PROVE  c[i] = [of |-> {i}, on |-> {i}] /\ c[i] # None /\ c[i].of = {i} /\ c[i].on = {i}
  <2>1. i \in 1..n
    OBVIOUS
  <2>2. c[i] = [of |-> {i}, on |-> {i}] /\ c[i] # None
    BY <1>0, <2>1
  <2> QED BY <2>2
<1>2. b \in a..b
  OBVIOUS
<1>3. None \notin vs
  BY <1>1
<1>4. UNION {v.on : v \in vs} = a..b
  <2>1. ASSUME NEW x \in UNION {v.on : v \in vs} PROVE x \in a..b
    <3>1. PICK i \in a..b : x \in c[i].on
      OBVIOUS
    <3> QED BY <1>1, <3>1
  <2>2. ASSUME NEW x \in a..b PROVE x \in UNION {v.on : v \in vs}
    <3>1. c[x] \in vs /\ x \in c[x].on
      BY <1>1
    <3> HIDE DEF vs
    <3> QED BY <3>1
  <2> QED BY <2>1, <2>2
<1>5. c[b].of = {b}
  BY <1>1, <1>2
<1> QED BY <1>3, <1>4, <1>5 DEF Base!Span, c

LEMMA SmaBanded ==
  ASSUME NEW n \in Nat, NEW p \in Nat \ {0}
  PROVE  Banded(Server!Sma(Server!Column(n), p), n, p - 1, 0..(p - 1))
<1> DEFINE sma == Server!Sma(Base!Column(n), p)
<1>1. /\ sma \in Lists(n)
      /\ \A i \in 1..n : sma[i] =
           IF i < p THEN None ELSE Base!Span(Base!Column(n), i - p + 1, i)
  BY ColumnList, SmaAt
<1> HIDE DEF sma
<1>2. ASSUME NEW i \in 1..n
      PROVE  sma[i] = IF i <= p - 1 THEN None ELSE Across(i, 0..(p - 1))
  <2>1. CASE i <= p - 1
    BY <1>1, <2>1
  <2>2. CASE ~(i <= p - 1)
    <3>1. /\ i - p + 1 \in 1..n /\ i \in (i - p + 1)..n /\ p - 1 \in Nat /\ i \in Nat
          /\ p - 1 < i /\ i - (p - 1) = i - p + 1 /\ ~(i < p)
      BY <2>2
    <3>2. Base!Span(Base!Column(n), i - p + 1, i) = [of |-> {i}, on |-> (i - p + 1)..i]
      BY <3>1, ColumnSpan
    <3>3. Across(i, 0..(p - 1)) = [of |-> {i}, on |-> (i - p + 1)..i]
      BY <3>1, BandPlaces
    <3> QED BY <1>1, <2>2, <3>1, <3>2, <3>3
  <2> QED BY <2>1, <2>2
<1>3. sma = Server!Sma(Server!Column(n), p)
  BY ServerBase DEF sma
<1> QED BY <1>1, <1>2, <1>3 DEF Banded

LEMMA RocBanded ==
  ASSUME NEW n \in Nat, NEW p \in Nat \ {0}
  PROVE  Banded(Server!Roc(n, p), n, p, {0, p})
<1>1. CASE n < p + 1
  <2>1. Server!Roc(n, p) = Server!Nones(n)
    BY <1>1 DEF Server!Roc, Server!Each
  <2>2. n <= p /\ p \in Nat
    BY <1>1
  <2>3. Server!Nones(n) = Base!Nones(n)
    BY ServerBase
  <2> QED BY <2>1, <2>2, <2>3, NonesBanded
<1>2. CASE ~(n < p + 1)
  <2> DEFINE c == n - p
             t == [i \in 1..(IF n < p + 1 THEN 0 ELSE n - (p + 1) + 1) |->
                     [of |-> {p + 1 + i - 1}, on |-> {p + 1 + i - 1, p + 1 + i - 1 - p}]]
             w == [i \in 1..c |-> Across(p + i, {0, p})]
  <2>1. Server!Roc(n, p) = Server!Nones(p) \o t
    BY <1>2 DEF Server!Roc, Server!Each
  <2>2. c \in Nat /\ p + c = n /\ p \in Nat /\ {0, p} \in SUBSET (0..p)
    BY <1>2
  <2>3. t = w
    <3>1. (IF n < p + 1 THEN 0 ELSE n - (p + 1) + 1) = c
      BY <1>2
    <3>2. ASSUME NEW i \in 1..c
          PROVE  [of |-> {p + 1 + i - 1}, on |-> {p + 1 + i - 1, p + 1 + i - 1 - p}]
                   = Across(p + i, {0, p})
      <4>1. p + 1 + i - 1 = p + i /\ p + 1 + i - 1 - p = p + i - p /\ p + i - 0 = p + i
        OBVIOUS
      <4>2. {p + i - o : o \in {0, p}} = {p + i - 0, p + i - p}
        OBVIOUS
      <4>3. {p + i - o : o \in {0, p}} = {p + 1 + i - 1, p + 1 + i - 1 - p}
        BY <4>1, <4>2
      <4>4. {p + i} = {p + 1 + i - 1}
        BY <4>1
      <4> QED BY <4>3, <4>4 DEF Across
    <3> HIDE DEF c
    <3> QED BY <3>1, <3>2
  <2>4. w = [i \in 1..c |-> w[i]] /\ \A i \in 1..c : w[i] = Across(p + i, {0, p})
    OBVIOUS
  <2> HIDE DEF t, w, c
  <2>5. Banded(Base!Nones(p) \o w, p + c, p, {0, p})
    BY <2>2, <2>4, LedBanded
  <2> QED BY <2>1, <2>2, <2>3, <2>5, ServerBase
<1> QED BY <1>1, <1>2

LEMMA JointOfOne == ASSUME NEW v \in Figures PROVE Base!Joint({v, v}) = v
<1>1. v = [of |-> v.of, on |-> v.on] /\ v # None
  BY NoneIsNoFigure DEF Figures
<1>2. {v, v} = {v} /\ None \notin {v, v}
  BY <1>1
<1>3. UNION {x.of : x \in {v}} = v.of /\ UNION {x.on : x \in {v}} = v.on
  OBVIOUS
<1> QED BY <1>1, <1>2, <1>3 DEF Base!Joint

(* A mean and something else of the same window.                           *)
LEMMA MeanAndWindow ==
  ASSUME NEW n \in Nat, NEW p \in Nat \ {0}, NEW i \in p..n
  PROVE  Base!Joint({Server!Sma(Server!Column(n), p)[i],
                     Base!Span(Base!Column(n), i - p + 1, i)}) = Across(i, 0..(p - 1))
<1> DEFINE v == Across(i, 0..(p - 1))
<1>1. /\ i - p + 1 \in 1..n /\ i \in (i - p + 1)..n /\ p - 1 \in Nat /\ i \in Nat /\ i \in 1..n
      /\ p - 1 < i /\ i - (p - 1) = i - p + 1 /\ ~(i <= p - 1)
  OBVIOUS
<1>2. Server!Sma(Server!Column(n), p)[i] = v
  BY <1>1, SmaBanded DEF Banded
<1>3. Base!Span(Base!Column(n), i - p + 1, i) = v
  BY <1>1, ColumnSpan, BandPlaces
<1>4. v \in Figures
  BY <1>1, AcrossIsEntry
<1> HIDE DEF v
<1> QED BY <1>2, <1>3, <1>4, JointOfOne DEF v

LEMMA BollingerBanded ==
  ASSUME NEW n \in Nat \ {0}, NEW p \in Nat \ {0}
  PROVE  \A f \in DOMAIN Server!Bollinger(n, p) :
           Banded(Server!Bollinger(n, p)[f], n, p - 1, 0..(p - 1))
<1> DEFINE sma == Server!Sma(Server!Column(n), p)
           band == [i \in 1..(IF n < 1 THEN 0 ELSE n - 1 + 1) |->
                      IF 1 + i - 1 < p THEN None
                      ELSE Server!Joint({sma[1 + i - 1],
                             Server!Span(Server!Column(n), 1 + i - 1 - p + 1, 1 + i - 1)})]
           list == [i \in 1..n |-> IF i <= p - 1 THEN None ELSE Across(i, 0..(p - 1))]
<1>1. Server!Bollinger(n, p) = [upper |-> band, middle |-> sma, lower |-> band]
  BY DEF Server!Bollinger, Server!Each
<1>2. Banded(sma, n, p - 1, 0..(p - 1))
  BY SmaBanded
<1> HIDE DEF sma
<1>3. ASSUME NEW i \in 1..n
      PROVE  (IF 1 + i - 1 < p THEN None
              ELSE Server!Joint({sma[1 + i - 1],
                     Server!Span(Server!Column(n), 1 + i - 1 - p + 1, 1 + i - 1)}))
               = IF i <= p - 1 THEN None ELSE Across(i, 0..(p - 1))
  <2>1. 1 + i - 1 = i /\ (i < p <=> i <= p - 1)
    OBVIOUS
  <2>2. CASE i <= p - 1
    BY <2>1, <2>2
  <2>3. CASE ~(i <= p - 1)
    <3>1. i \in p..n /\ n \in Nat
      BY <2>3
    <3>2. Server!Joint({sma[i], Server!Span(Server!Column(n), i - p + 1, i)})
            = Across(i, 0..(p - 1))
      BY <3>1, MeanAndWindow, ServerBase DEF sma
    <3> QED BY <2>1, <2>3, <3>2
  <2> QED BY <2>2, <2>3
<1>4. band = list
  <2>1. (IF n < 1 THEN 0 ELSE n - 1 + 1) = n
    OBVIOUS
  <2> QED BY <1>3, <2>1
<1> HIDE DEF band
<1>5. Banded(list, n, p - 1, 0..(p - 1))
  <2>1. ASSUME NEW i \in 1..n PROVE list[i] \in Entries
    <3>1. CASE i <= p - 1
      BY <3>1 DEF Entries
    <3>2. CASE ~(i <= p - 1)
      <4>1. i \in Nat /\ p - 1 \in Nat /\ p - 1 < i
        BY <3>2
      <4> QED BY <3>2, <4>1, AcrossIsEntry DEF Entries
    <3> QED BY <3>1, <3>2
  <2>2. list \in [1..n -> Entries]
    BY <2>1
  <2> QED BY <2>2, AList DEF Banded
<1> HIDE DEF list
<1>6. /\ Banded(Server!Bollinger(n, p).upper, n, p - 1, 0..(p - 1))
      /\ Banded(Server!Bollinger(n, p).middle, n, p - 1, 0..(p - 1))
      /\ Banded(Server!Bollinger(n, p).lower, n, p - 1, 0..(p - 1))
  BY <1>1, <1>2, <1>4, <1>5
<1>7. DOMAIN Server!Bollinger(n, p) = {"upper", "middle", "lower"}
  BY <1>1
<1>8. ASSUME NEW f \in {"upper", "middle", "lower"}
      PROVE  Banded(Server!Bollinger(n, p)[f], n, p - 1, 0..(p - 1))
  BY <1>6
<1> QED BY <1>7, <1>8

LEMMA CciBanded ==
  ASSUME NEW n \in Nat \ {0}, NEW p \in Nat \ {0}
  PROVE  Banded(Server!Cci(n, p), n, p - 1, 0..(p - 1))
<1>1. CASE n < p
  <2>1. Server!Cci(n, p) = Base!Nones(n) /\ n <= p - 1 /\ p - 1 \in Nat /\ n \in Nat
    BY <1>1, ServerBase DEF Server!Cci
  <2> QED BY <2>1, NonesBanded
<1>2. CASE ~(n < p)
  <2> DEFINE k == p - 1
             c == n - p + 1
             os == 0..(p - 1)
             Entry(i) == Server!Joint({Server!Span(Server!Column(n), p + i - 1 - p + 1, p + i - 1),
                                       Server!Sma(Server!Column(n), p)[p + i - 1]})
             t == [i \in 1..(IF n < p THEN 0 ELSE n - p + 1) |-> Entry(i)]
             w == [i \in 1..c |-> Across(k + i, os)]
  <2>1. Server!Cci(n, p) = Server!Nones(k) \o t
    BY <1>2, CciIs
  <2>2. c \in Nat /\ k + c = n /\ k \in Nat /\ os \in SUBSET (0..k)
    BY <1>2
  <2>3. ASSUME NEW i \in 1..c PROVE Entry(i) = Across(k + i, os)
    <3> DEFINE b == p + i - 1
    <3>1. b \in p..n /\ n \in Nat /\ b = k + i
      BY <1>2
    <3> HIDE DEF b
    <3>2. Base!Joint({Server!Sma(Server!Column(n), p)[b],
                      Base!Span(Base!Column(n), b - p + 1, b)}) = Across(b, os)
      BY <3>1, MeanAndWindow
    <3>3. Base!Joint({Base!Span(Base!Column(n), b - p + 1, b),
                      Server!Sma(Server!Column(n), p)[b]}) = Across(b, os)
      <4>1. \A x, y : {x, y} = {y, x}
        OBVIOUS
      <4> HIDE DEF os
      <4> QED BY <3>2, <4>1
    <3>4. Entry(i) = Server!Joint({Server!Span(Server!Column(n), b - p + 1, b),
                                   Server!Sma(Server!Column(n), p)[b]})
      BY DEF b
    <3> HIDE DEF Entry, os, k
    <3> QED BY <3>1, <3>3, <3>4, ServerBase
  <2>4. (IF n < p THEN 0 ELSE n - p + 1) = c
    BY <1>2
  <2> HIDE DEF Entry, os, k, c
  <2>5. t = w
    BY <2>3, <2>4
  <2>6. w = [i \in 1..c |-> w[i]] /\ \A i \in 1..c : w[i] = Across(k + i, os)
    OBVIOUS
  <2> HIDE DEF t, w
  <2>7. Banded(Base!Nones(k) \o w, k + c, k, os)
    BY <2>2, <2>6, LedBanded
  <2>8. Banded(Server!Cci(n, p), n, k, os)
    BY <2>1, <2>2, <2>5, <2>7, ServerBase
  <2> QED BY <2>8 DEF k, os
<1> QED BY <1>1, <1>2

(* A flow is of two bars, and p of them are of one bar more.               *)
LEMMA FlowsSpan ==
  ASSUME NEW n \in Nat \ {0}, NEW a \in 1..(n - 1), NEW b \in a..(n - 1)
  PROVE  Base!Span(Base!Changes(Base!Column(n)), a, b) = [of |-> {b + 1}, on |-> a..(b + 1)]
<1> DEFINE c == Base!Column(n)
           x == Base!Changes(c)
           vs == {x[i] : i \in a..b}
<1>1. \A i \in 1..(n - 1) : x[i] = Base!Span(c, i, i + 1)
  <2>1. n \in Nat /\ n - 1 \in Nat /\ n - 1 = IF n = 0 THEN 0 ELSE n - 1
    OBVIOUS
  <2> QED BY <2>1, ColumnList, ChangesList
<1>2. ASSUME NEW i \in 1..(n - 1)
      PROVE  /\ x[i] = [of |-> {i + 1}, on |-> {i, i + 1}]
             /\ x[i].of = {i + 1} /\ x[i].on = {i, i + 1}
  <2>1. i \in 1..n /\ i + 1 \in i..n /\ n \in Nat /\ i..(i + 1) = {i, i + 1}
    OBVIOUS
  <2>2. Base!Span(c, i, i + 1) = [of |-> {i + 1}, on |-> i..(i + 1)]
    BY <2>1, ColumnSpan
  <2>3. x[i] = [of |-> {i + 1}, on |-> {i, i + 1}]
    BY <1>1, <2>1, <2>2
  <2> HIDE DEF x
  <2> QED BY <2>3
<1> HIDE DEF x, c
<1>3. a..b \subseteq 1..(n - 1) /\ b \in a..b
  OBVIOUS
<1>4. None \notin vs
  <2>1. ASSUME NEW i \in a..b PROVE x[i] \in Figures
    <3>1. i \in 1..(n - 1) /\ {i + 1} \in SUBSET Nat /\ {i, i + 1} \in SUBSET Nat
      BY <1>3
    <3>2. x[i] = [of |-> {i + 1}, on |-> {i, i + 1}]
      BY <1>2, <3>1
    <3>3. [of |-> {i + 1}, on |-> {i, i + 1}] \in Figures
      BY <3>1 DEF Figures
    <3> QED BY <3>2, <3>3
  <2> QED BY <2>1, NoneIsNoFigure
<1>5. UNION {v.on : v \in vs} = a..(b + 1)
  <2>1. ASSUME NEW y \in UNION {v.on : v \in vs} PROVE y \in a..(b + 1)
    <3>1. PICK i \in a..b : y \in x[i].on
      OBVIOUS
    <3>2. y \in {i, i + 1}
      BY <1>2, <1>3, <3>1
    <3> QED BY <3>2
  <2>2. ASSUME NEW y \in a..(b + 1) PROVE y \in UNION {v.on : v \in vs}
    <3>1. PICK i \in a..b : y \in {i, i + 1}
      <4>1. CASE y \in a..b
        BY <4>1
      <4>2. CASE y \notin a..b
        <5>1. y = b + 1 /\ b \in a..b
          BY <4>2
        <5> QED BY <5>1
      <4> QED BY <4>1, <4>2
    <3>2. y \in x[i].on /\ x[i] \in vs
      BY <1>2, <1>3, <3>1
    <3> QED BY <3>2
  <2> QED BY <2>1, <2>2
<1>6. x[b].of = {b + 1}
  BY <1>2, <1>3
<1> QED BY <1>4, <1>5, <1>6 DEF Base!Span, x, c

LEMMA MfiBanded ==
  ASSUME NEW n \in Nat \ {0}, NEW p \in Nat \ {0}
  PROVE  Banded(Server!Mfi(n, p), n, p, 0..p)
<1> DEFINE x == Server!Changes(Server!Column(n))
<1>1. x = Base!Changes(Base!Column(n)) /\ Len(x) = n - 1
  <2>1. x = Base!Changes(Base!Column(n))
    BY ServerBase
  <2> QED BY <2>1, ColumnChanges DEF Lists
<1>2. CASE n < p + 1
  <2>1. Server!Mfi(n, p) = Base!Nones(n) /\ n <= p /\ p \in Nat /\ n \in Nat
    BY <1>2, ServerBase DEF Server!Mfi
  <2> QED BY <2>1, NonesBanded
<1>3. CASE ~(n < p + 1)
  <2>0. ~(Len(x) < p)
    BY <1>1, <1>3
  <2> DEFINE c == n - p
             os == 0..p
             t == [i \in 1..(IF Len(x) < p THEN 0 ELSE Len(x) - p + 1) |->
                     Server!Span(x, p + i - 1 - p + 1, p + i - 1)]
             w == [i \in 1..c |-> Across(p + i, os)]
  <2>1. Server!Mfi(n, p) = Server!Nones(p) \o t
    BY <1>3, <2>0 DEF Server!Mfi, Server!Each
  <2>2. c \in Nat /\ p + c = n /\ p \in Nat /\ os \in SUBSET (0..p)
    BY <1>3
  <2>3. ASSUME NEW i \in 1..c
        PROVE  Server!Span(x, p + i - 1 - p + 1, p + i - 1) = Across(p + i, os)
    <3>1. /\ p + i - 1 - p + 1 = i /\ i \in 1..(n - 1) /\ p + i - 1 \in i..(n - 1)
          /\ p + i - 1 + 1 = p + i /\ p + i \in Nat /\ p < p + i /\ p + i - p = i
      BY <1>3
    <3>2. Base!Span(x, i, p + i - 1) = [of |-> {p + i}, on |-> i..(p + i)]
      BY <1>1, <3>1, FlowsSpan
    <3>3. Across(p + i, os) = [of |-> {p + i}, on |-> i..(p + i)]
      BY <3>1, BandPlaces
    <3> HIDE DEF x, os
    <3> QED BY <3>1, <3>2, <3>3, ServerBase
  <2>4. (IF Len(x) < p THEN 0 ELSE Len(x) - p + 1) = c
    BY <1>1, <1>3
  <2> HIDE DEF x, os, c
  <2>5. t = w
    BY <2>3, <2>4
  <2>6. w = [i \in 1..c |-> w[i]] /\ \A i \in 1..c : w[i] = Across(p + i, os)
    OBVIOUS
  <2> HIDE DEF t, w
  <2>7. Banded(Base!Nones(p) \o w, p + c, p, os)
    BY <2>2, <2>6, LedBanded
  <2>8. Banded(Server!Mfi(n, p), n, p, os)
    BY <2>1, <2>2, <2>5, <2>7, ServerBase
  <2> QED BY <2>8 DEF os
<1> QED BY <1>2, <1>3

LEMMA BrowserBanded ==
  ASSUME NEW n \in Nat \ {0}, NEW p \in Nat \ {0}, Browser!Usable(n, p)
  PROVE  Banded(Browser!Windowed(n, p), n, p - 1, 0..(p - 1))
<1> DEFINE k == p - 1
           c == n - p + 1
           os == 0..(p - 1)
           t == [i \in 1..(IF n < p THEN 0 ELSE n - p + 1) |->
                   Browser!Span(Browser!Column(n), p + i - 1 - p + 1, p + i - 1)]
           w == [i \in 1..c |-> Across(k + i, os)]
<1>1. Browser!Windowed(n, p) = Browser!Nones(p - 1) \o t
  BY DEF Browser!Windowed, Browser!Each
<1>2. p <= n /\ c \in Nat /\ k + c = n /\ k \in Nat /\ os \in SUBSET (0..k)
  BY DEF Browser!Usable
<1>3. ASSUME NEW i \in 1..c
      PROVE  Browser!Span(Browser!Column(n), p + i - 1 - p + 1, p + i - 1) = Across(k + i, os)
  <2>1. /\ p + i - 1 - p + 1 = i /\ i \in 1..n /\ p + i - 1 \in i..n /\ n \in Nat
        /\ p + i - 1 = k + i /\ k + i \in Nat /\ k < k + i /\ k + i - k = i /\ k \in Nat
    BY <1>2
  <2>2. Base!Span(Base!Column(n), i, p + i - 1) = [of |-> {p + i - 1}, on |-> i..(p + i - 1)]
    BY <2>1, ColumnSpan
  <2>3. Across(k + i, 0..k) = [of |-> {k + i}, on |-> i..(k + i)]
    <3> HIDE DEF k
    <3> QED BY <2>1, BandPlaces
  <2> QED BY <2>1, <2>2, <2>3, BrowserBase
<1>4. (IF n < p THEN 0 ELSE n - p + 1) = c
  BY <1>2
<1> HIDE DEF k, c, os
<1>5. t = w
  BY <1>3, <1>4
<1>6. w = [i \in 1..c |-> w[i]] /\ \A i \in 1..c : w[i] = Across(k + i, os)
  OBVIOUS
<1> HIDE DEF t, w
<1>7. Banded(Base!Nones(k) \o w, k + c, k, os)
  BY <1>2, <1>6, LedBanded
<1>8. Browser!Nones(p - 1) = Base!Nones(k)
  BY BrowserBase DEF k
<1>9. Banded(Browser!Windowed(n, p), n, k, os)
  BY <1>1, <1>2, <1>5, <1>7, <1>8
<1> QED BY <1>9 DEF k, os

(* How many places have nothing, and from which distances the others are.  *)
Before(r) == IF r.indicator \in {"roc", "volume_roc", "mfi"} THEN r.p ELSE r.p - 1

Distances(r) == IF r.indicator \in {"roc", "volume_roc"} THEN {0, r.p} ELSE 0..Before(r)

AllBanded(lists, n, r) ==
  \A f \in DOMAIN lists : Banded(lists[f], n, Before(r), Distances(r))

LEMMA OneBanded ==
  ASSUME NEW s, NEW n, NEW r, Banded(s, n, Before(r), Distances(r))
  PROVE  AllBanded(Server!One(s), n, r) /\ AllBanded(Browser!One(s), n, r)
BY DEF AllBanded, Server!One, Browser!One

LEMMA ServerBanded ==
  ASSUME NEW r, r.p \in Nat \ {0}, NEW n \in Nat \ {0},
         r.indicator \in {"sma", "wma", "williams_r", "vhf", "qstick", "roc", "volume_roc",
                          "bollinger_bands", "cci", "mfi"}
  PROVE  AllBanded(ServerResult(r, n), n, r)
<1> DEFINE p == r.p
           c == Server!Column(n)
           lists == Server!Calculate(r, n)
<1>0. p \in Nat \ {0} /\ n \in Nat
  OBVIOUS
<1>1. ServerResult(r, n) = lists
  BY DEF ServerResult
<1> HIDE DEF lists
<1>2. CASE r.indicator \in {"sma", "wma", "williams_r", "vhf", "qstick"}
  <2>1. lists = Server!One(Server!Sma(c, p))
    <3>1. /\ Server!Wma(c, p) = Server!Sma(c, p) /\ Server!WilliamsR(n, p) = Server!Sma(c, p)
          /\ Server!Vhf(n, p) = Server!Sma(c, p) /\ Server!Qstick(n, p) = Server!Sma(c, p)
      BY <1>0, AsSma DEF Server!Qstick
    <3>2. lists \in {Server!One(Server!Sma(c, p)), Server!One(Server!Wma(c, p)),
                     Server!One(Server!WilliamsR(n, p)), Server!One(Server!Vhf(n, p)),
                     Server!One(Server!Qstick(n, p))}
      <4>1. CASE r.indicator = "sma"
        BY <4>1 DEF lists, Server!Calculate
      <4>2. CASE r.indicator = "wma"
        BY <4>2 DEF lists, Server!Calculate
      <4>3. CASE r.indicator = "williams_r"
        BY <4>3 DEF lists, Server!Calculate
      <4>4. CASE r.indicator = "vhf"
        BY <4>4 DEF lists, Server!Calculate
      <4>5. CASE r.indicator = "qstick"
        BY <4>5 DEF lists, Server!Calculate
      <4> QED BY <1>2, <4>1, <4>2, <4>3, <4>4, <4>5
    <3> QED BY <3>1, <3>2
  <2>2. Banded(Server!Sma(c, p), n, p - 1, 0..(p - 1))
    BY <1>0, SmaBanded
  <2>3. Before(r) = p - 1 /\ Distances(r) = 0..(p - 1)
    BY <1>2 DEF Before, Distances
  <2> HIDE DEF c, p
  <2>4. Banded(Server!Sma(c, p), n, Before(r), Distances(r))
    BY <2>2, <2>3
  <2> QED BY <1>1, <2>1, <2>4, OneBanded
<1>3. CASE r.indicator \in {"roc", "volume_roc"}
  <2>1. lists = Server!One(Server!Roc(n, p))
    <3>1. CASE r.indicator = "roc"
      BY <3>1 DEF lists, Server!Calculate
    <3>2. CASE r.indicator = "volume_roc"
      BY <3>2 DEF lists, Server!Calculate, Server!VolumeRoc
    <3> QED BY <1>3, <3>1, <3>2
  <2>2. Banded(Server!Roc(n, p), n, p, {0, p})
    BY <1>0, RocBanded
  <2>3. Before(r) = p /\ Distances(r) = {0, p}
    BY <1>3 DEF Before, Distances
  <2> HIDE DEF p
  <2>4. Banded(Server!Roc(n, p), n, Before(r), Distances(r))
    BY <2>2, <2>3
  <2> QED BY <1>1, <2>1, <2>4, OneBanded
<1>4. CASE r.indicator = "bollinger_bands"
  <2>1. lists = Server!Bollinger(n, p)
    BY <1>4 DEF lists, Server!Calculate
  <2>2. Before(r) = p - 1 /\ Distances(r) = 0..(p - 1)
    BY <1>4 DEF Before, Distances
  <2> QED BY <1>0, <1>1, <2>1, <2>2, BollingerBanded DEF AllBanded
<1>5. CASE r.indicator = "cci"
  <2>1. lists = Server!One(Server!Cci(n, p))
    BY <1>5 DEF lists, Server!Calculate
  <2>2. Before(r) = p - 1 /\ Distances(r) = 0..(p - 1)
    BY <1>5 DEF Before, Distances
  <2>3. Banded(Server!Cci(n, p), n, Before(r), Distances(r))
    BY <1>0, <2>2, CciBanded
  <2> QED BY <1>1, <2>1, <2>3, OneBanded
<1>6. CASE r.indicator = "mfi"
  <2>1. lists = Server!One(Server!Mfi(n, p))
    BY <1>6 DEF lists, Server!Calculate
  <2>2. Before(r) = p /\ Distances(r) = 0..p
    BY <1>6 DEF Before, Distances
  <2>3. Banded(Server!Mfi(n, p), n, Before(r), Distances(r))
    BY <1>0, <2>2, MfiBanded
  <2> QED BY <1>1, <2>1, <2>3, OneBanded
<1> QED BY <1>2, <1>3, <1>4, <1>5, <1>6

LEMMA ClientBanded ==
  ASSUME NEW r, r.p \in Nat \ {0}, NEW n \in Nat \ {0},
         r.indicator \in {"sma", "wma", "bollinger"}
  PROVE  AllBanded(Browser!CalculateIndicator(r, n), n, r)
<1> DEFINE p == r.p
           band == Browser!Windowed(n, p)
           lists == Browser!CalculateIndicator(r, n)
<1>0. p \in Nat \ {0}
  OBVIOUS
<1>1. /\ r.indicator = "sma" => lists = Browser!CalculateSMA(n, p)
      /\ r.indicator = "wma" => lists = Browser!CalculateWMA(n, p)
      /\ r.indicator = "bollinger" => lists = Browser!CalculateBollingerBands(n, p)
  BY DEF Browser!CalculateIndicator
<1>2. CASE ~Browser!Usable(n, p)
  <2>1. lists = Browser!Refused
    BY <1>1, <1>2 DEF Browser!CalculateSMA, Browser!CalculateWMA, Browser!CalculateBollingerBands
  <2> QED BY <2>1 DEF Browser!Refused, AllBanded
<1>3. CASE Browser!Usable(n, p)
  <2>1. \/ lists = Browser!One(band)
        \/ lists = [middle |-> band, upper |-> band, lower |-> band]
    BY <1>1, <1>3 DEF Browser!CalculateSMA, Browser!CalculateWMA, Browser!CalculateBollingerBands
  <2>2. Before(r) = p - 1 /\ Distances(r) = 0..(p - 1)
    BY DEF Before, Distances
  <2>3. Banded(band, n, Before(r), Distances(r))
    BY <1>0, <1>3, <2>2, BrowserBanded
  <2> HIDE DEF lists, band
  <2> QED BY <2>1, <2>3, OneBanded DEF AllBanded, lists
<1> QED BY <1>2, <1>3

LEMMA WindowsBanded ==
  ASSUME OfAWindow, request \in Requests, NEW n \in Nat \ {0}
  PROVE  /\ AllBanded(Result(request, n), n, request)
         /\ Before(request) \in Nat /\ Before(request) \in Distances(request)
         /\ Distances(request) \in SUBSET (0..Before(request))
<1>1. request.p \in Nat \ {0}
  BY RequestAssumption
<1>2. /\ Before(request) \in Nat /\ Before(request) \in Distances(request)
      /\ Distances(request) \in SUBSET (0..Before(request))
  BY <1>1 DEF Before, Distances
<1>3. CASE Is("server", {"sma", "wma", "williams_r", "vhf", "qstick", "roc", "volume_roc",
                         "bollinger_bands", "cci", "mfi"})
  <2>1. Result(request, n) = ServerResult(request, n)
    BY <1>3 DEF Is, Result
  <2> QED BY <1>1, <1>2, <1>3, <2>1, ServerBanded DEF Is
<1>4. CASE Is("browser", {"sma", "wma", "bollinger"})
  <2>1. Result(request, n) = Browser!CalculateIndicator(request, n)
    BY <1>4 DEF Is, Result
  <2> QED BY <1>1, <1>2, <1>4, <2>1, ClientBanded DEF Is
<1> QED BY <1>3, <1>4 DEF OfAWindow

(***************************************************************************)
(* What is shown, computed again                                           *)
(***************************************************************************)
Agree(before, now, n) ==
  \A f \in DOMAIN before \cap DOMAIN now :
    \A i \in (1..n) \cap DOMAIN before[f] \cap DOMAIN now[f] : Kept(before[f][i], now[f][i])

LEMMA UnchangedAgrees ==
  ASSUME NEW before, NEW now, NEW n, Unchanged(before, now, n) PROVE Agree(before, now, n)
BY DEF Unchanged, Alike, Agree, Kept

LEMMA RemainAgrees ==
  ASSUME MayCome, NEW before, NEW now, NEW n, Remain(before, now, n) PROVE Agree(before, now, n)
BY DEF Remain, Keeps, Agree, Kept

LEMMA SaidAgainFact ==
  ASSUME ~LooksAhead, NEW n \in Nat \ {0}, NEW m \in Nat, n <= m, shown # None, Count(shown) = n,
         request \in Requests
  PROVE  Agree(Result(request, n), Result(request, m), n)
<1> DEFINE r == request
           p == r.p
           q == r.q
           Said == Agree(Result(r, n), Result(r, m), n)
<1>0. p \in Nat \ {0} /\ q \in Nat /\ (r.where # "rules" => q \in Nat \ {0})
  BY RequestAssumption
<1>1. CASE r.where = "server"
  <2>1. r.indicator \in Server!Registry /\ MayCome
    BY <1>1, RequestAssumption DEF MayCome, OfDashboard
  <2>2. Remain(ServerResult(r, n), ServerResult(r, m), n)
    <3> DEFINE a == r.p
               b == r.q
    <3>1. a \in Nat \ {0} /\ b \in Nat \ {0} /\ r.p = a /\ r.q = b
      BY <1>0, <1>1
    <3> HIDE DEF a, b
    <3> QED BY <2>1, <3>1, ServerKeeps
  <2>3. Result(r, n) = ServerResult(r, n) /\ Result(r, m) = ServerResult(r, m)
    BY <1>1 DEF Result
  <2> QED BY <2>1, <2>2, <2>3, RemainAgrees
<1>2. CASE r.where = "browser"
  <2>1. MayCome
    BY <1>2 DEF MayCome, OfDashboard
  <2>2. Remain(Browser!CalculateIndicator(r, n), Browser!CalculateIndicator(r, m), n)
    <3> DEFINE a == r.p
               b == r.q
    <3>1. a \in Nat \ {0} /\ b \in Nat \ {0} /\ r.p = a /\ r.q = b
      BY <1>0, <1>2
    <3> HIDE DEF a, b
    <3> QED BY <3>1, BrowserKeeps
  <2>3. /\ Result(r, n) = Browser!CalculateIndicator(r, n)
        /\ Result(r, m) = Browser!CalculateIndicator(r, m)
    BY <1>2 DEF Result
  <2> QED BY <2>1, <2>2, <2>3, RemainAgrees
<1>3. CASE r.where = "features"
  <2>1. r.indicator \in FeatureIndicators \ {"swing", "four_hour"}
    BY <1>3, RequestAssumption DEF LooksAhead, Is, FeatureIndicators
  <2>2. Unchanged(FeatureSeries(r, n), FeatureSeries(r, m), n)
    BY <1>0, <1>3, <2>1, FeatureSeriesGrow
  <2>3. Result(r, n) = FeatureSeries(r, n) /\ Result(r, m) = FeatureSeries(r, m)
    BY <1>3 DEF Result
  <2> QED BY <2>2, <2>3, UnchangedAgrees
<1>4. CASE r.where = "strategy"
  <2>1. r.indicator \in StrategyNames \ {"divergence"}
    BY <1>4, RequestAssumption DEF LooksAhead, Is, StrategyNames
  <2>2. Unchanged(Signals(r, n), Signals(r, m), n)
    BY <1>0, <1>4, <2>1, SignalsGrow
  <2>3. Result(r, n) = Signals(r, n) /\ Result(r, m) = Signals(r, m)
    BY <1>4 DEF Result
  <2> QED BY <2>2, <2>3, UnchangedAgrees
<1>5. CASE r.where = "regime"
  <2>1. Result(r, n) = RegimeLists(r, n) /\ Result(r, m) = RegimeLists(r, m)
    BY <1>5 DEF Result
  <2>2. r.indicator \in {"market_features", "features", "causal"}
    BY <1>5, RequestAssumption DEF LooksAhead, Is
  <2>3. CASE r.indicator \in {"market_features", "features"}
    <3>1. Unchanged(RegimeLists(r, n), RegimeLists(r, m), n)
      BY <1>0, <1>5, <2>3, RegimesGrow
    <3> QED BY <2>1, <3>1, UnchangedAgrees
  <2>4. CASE r.indicator = "causal"
    <3>1. MayCome /\ Regimes!FoldStarts(Regimes!RegimeRows(n, r.p, r.q)) # {}
      BY <1>5, <2>4 DEF LooksAhead, Is, MayCome
    <3>2. Remain(RegimeLists(r, n), RegimeLists(r, m), n)
      BY <1>0, <1>5, <2>4, <3>1, RegimesGrow
    <3> QED BY <2>1, <3>1, <3>2, RemainAgrees
  <2> QED BY <2>2, <2>3, <2>4
<1>6. CASE r.where = "rules"
  <2>1. r.indicator \in Rules!Registry /\ GivesWindow(r) \in BOOLEAN
    BY <1>6, RequestAssumption DEF GivesWindow
  <2>2. Unchanged(Rules!ProcessStrategy(r.indicator, n, r.p, GivesWindow(r)),
                  Rules!ProcessStrategy(r.indicator, m, r.p, GivesWindow(r)), n)
    BY <1>0, <2>1, RulesGrow
  <2>3. /\ Result(r, n) = Rules!ProcessStrategy(r.indicator, n, r.p, GivesWindow(r))
        /\ Result(r, m) = Rules!ProcessStrategy(r.indicator, m, r.p, GivesWindow(r))
    BY <1>6 DEF Result
  <2> QED BY <2>2, <2>3, UnchangedAgrees
<1>7. r.where # "training"
  BY RequestAssumption DEF LooksAhead, Is
<1>8. CASE r.where = "trial"
  <2>1. Result(r, n) = <<>> /\ Result(r, m) = <<>>
    BY <1>8 DEF Result
  <2>2. Unchanged(<<>>, <<>>, n)
    BY DEF Unchanged
  <2> QED BY <2>1, <2>2, UnchangedAgrees
<1> QED
  BY <1>1, <1>2, <1>3, <1>4, <1>5, <1>6, <1>7, <1>8, RequestAssumption

LEMMA NeverRepaintsStep ==
  ASSUME FreshInv, [ServiceNext]_serviceVars
  PROVE  [Computed /\ ~LooksAhead => SaidAgain]_serviceVars
<1> SUFFICES ASSUME Computed, ~LooksAhead PROVE SaidAgain
  OBVIOUS
<1> DEFINE n == Count(shown)
           m == Len(shown'.rows)
           before == shown.rows
           now == shown'.rows
<1>1. FreshInv' /\ shown # None /\ shown' # None /\ request \in Requests
  BY FreshNext DEF Computed, FreshInv, BarsBorn
<1>2. n \in Nat \ {0} /\ n = Len(before) /\ DOMAIN before = 1..n
  BY <1>1, CountOfShown DEF Count
<1>3. m \in Nat \ {0} /\ DOMAIN now = 1..m
  <2>1. now \in Seq(Nat) /\ now # <<>>
    BY <1>1 DEF FreshInv, ShownCovers, Readings
  <2> QED BY <2>1, LenProperties, EmptySeq
<1>4. request' = request
  <2>1. CASE UNCHANGED serviceVars
    BY <2>1 DEF serviceVars
  <2>2. CASE NewBar \/ SlowerBar \/ Slide \/ Compute \/ Clear \/ Tick
    BY <2>2 DEF NewBar, SlowerBar, Comes, Slide, Compute, Clear, Tick
  <2>3. ASSUME NEW t \in Threads,
               \/ \E kind \in Kinds : Ask(t, kind)
               \/ Hit(t) \/ Miss(t) \/ Read(t) \/ Finish(t) \/ Answer(t)
        PROVE  request' = request
    BY <2>3 DEF Ask, Hit, Miss, Read, Finish, Answer
  <2> QED BY <2>1, <2>2, <2>3 DEF ServiceNext
<1>5. Given(shown) = Result(request, n) /\ Given(shown') = Result(request, m)
  BY <1>4 DEF Given, Count
<1>6. n <= m => Agree(Result(request, n), Result(request, m), n)
  <2> HIDE DEF n, m
  <2> QED BY <1>1, <1>2, <1>3, SaidAgainFact DEF n
<1> HIDE DEF n, m, before, now
<1> DEFINE s(f) == Result(request, n)[f]
           t(f) == Result(request, m)[f]
<1>7. ASSUME NEW f \in DOMAIN Result(request, n) \cap DOMAIN Result(request, m)
      PROVE  /\ \A i \in DOMAIN before \cap DOMAIN now \cap DOMAIN s(f) \cap DOMAIN t(f) :
                  SameFirst(before, now, i) => Kept(s(f)[i], t(f)[i])
             /\ OfAWindow =>
                  \A i \in DOMAIN before \cap DOMAIN s(f), j \in DOMAIN now \cap DOMAIN t(f) :
                    s(f)[i] # None /\ StillThere(s(f)[i], before, now, i, j)
                      => t(f)[j] = Moved(s(f)[i], j - i)
  <2>1. ASSUME NEW i \in DOMAIN before \cap DOMAIN now \cap DOMAIN s(f) \cap DOMAIN t(f),
               SameFirst(before, now, i)
        PROVE  Kept(s(f)[i], t(f)[i])
    <3>1. n <= m
      BY <1>2, <2>1 DEF SameFirst, m, now
    <3> QED BY <1>2, <1>6, <1>7, <2>1, <3>1 DEF Agree
  <2>2. ASSUME OfAWindow,
               NEW i \in DOMAIN before \cap DOMAIN s(f), NEW j \in DOMAIN now \cap DOMAIN t(f),
               s(f)[i] # None, StillThere(s(f)[i], before, now, i, j)
        PROVE  t(f)[j] = Moved(s(f)[i], j - i)
    <3> DEFINE k == Before(request)
               os == Distances(request)
    <3>1. /\ k \in Nat /\ k \in os /\ os \in SUBSET (0..k)
          /\ Banded(s(f), n, k, os) /\ Banded(t(f), m, k, os)
      BY <1>1, <1>2, <1>3, <1>7, <2>2, WindowsBanded DEF AllBanded
    <3>2. i \in 1..n /\ j \in 1..m /\ n \in Nat /\ m \in Nat
      BY <1>2, <1>3, <2>2
    <3> DEFINE was == s(f)
               is == t(f)
    <3>3. Alongside(was, n, is, m)
      BY <3>1 DEF Alongside
    <3>4. was[i] # None /\ StillThere(was[i], before, now, i, j)
      BY <2>2
    <3> HIDE DEF k, os, s, t, was, is
    <3>5. is[j] = Moved(was[i], j - i)
      BY <1>3, <3>2, <3>3, <3>4, BandMoves
    <3> QED BY <3>5 DEF was, is
  <2> QED BY <2>1, <2>2
<1> QED BY <1>5, <1>7 DEF SaidAgain, before, now

(* However many bars come between two answers and whatever is asked: of    *)
(* what rests on the same rows as before the later answer says what the    *)
(* earlier one said. The rows of research, rules and regimes are read from *)
(* a fixed first one on, so that no feature, signal or label becomes       *)
(* another one or comes later, but for the causal labels that were not     *)
(* there yet. Those of the charts are the last thirty days, and bars of    *)
(* other granularities come in between: a number of a window stays beside  *)
(* its bar as long as the window's bars stay, wherever they now stand, and *)
(* any other as long as all rows up to it do. Left out are those that      *)
(* LooksAhead names, which the code computes from later bars.              *)
THEOREM SeriesNeverRepaint ==
  ServiceSpec => NeverRepaints
BY FreshInit, FreshNext, NeverRepaintsStep, PTL DEF ServiceSpec, NeverRepaints
=============================================================================
