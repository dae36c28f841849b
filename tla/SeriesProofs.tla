---------------------------- MODULE SeriesProofs ----------------------------
(***************************************************************************)
(* Theorems about IndicatorService, for any requests, threads, times and   *)
(* sizes: how old an answer of the endpoints may be, what the designs hold *)
(* out, and that the series stand beside their bars. That they say the     *)
(* same again once more bars are there is proved in RepaintProofs.         *)
(***************************************************************************)
EXTENDS IndicatorService, FiniteSetTheorems, WellFoundedInduction, SequenceTheorems, TLAPS

(***************************************************************************)
(* The indicator endpoints (IndicatorService), for any requests, threads   *)
(* and times: how old an answer may be.                                    *)
(***************************************************************************)
(* All bars that came before time are among the first upto.                *)
Covers(upto, time) == \A b \in 1..bars : born[b] < time => b <= upto

(* What a reading gives: some rows.                                        *)
Readings == Seq(Nat) \ {<<>>}

RowsRead == reading \in Readings

BarsBorn ==
  /\ request \in Requests
  /\ bars \in 1..MaxBars
  /\ born \in [1..bars -> 0..MaxClock]
  /\ clock \in 0..MaxClock
  /\ \A b \in 1..bars : born[b] <= clock

(* A kept result covers the time at which its request can have been made.  *)
CacheCovers ==
  cache # None =>
    /\ cache \in [rows : Readings, upto : 1..bars, expires : Nat]
    /\ cache.expires <= clock + Ttl
    /\ Covers(cache.upto, cache.expires - Ttl - Handling)

ThreadSteps ==
  [kind : {"calculate", "batch", "skip"}, step : {"lookup", "read", "compute", "answer"},
   rows : Seq(Nat), upto : Nat, asked : Nat]

HasRead(call) ==
  call.step \in {"compute", "answer"} \/ (call.step = "lookup" /\ call.kind = "batch")

(* What it knows came before it was asked. What waits to be given may have *)
(* been found: it was kept by one that was asked no longer before than a   *)
(* result is kept and an endpoint takes.                                   *)
Since(call) ==
  IF call.step = "answer" THEN call.asked + 1 - Ttl - Handling ELSE call.asked

(* A thread is answered in time, and what it has read covers that time.    *)
ThreadCovers(t) ==
  thread[t] # None =>
    /\ thread[t].asked <= clock
    /\ clock <= thread[t].asked + Handling
    /\ thread[t].upto <= bars
    /\ thread[t].step = "lookup" => thread[t].kind # "skip"
    /\ HasRead(thread[t]) =>
         /\ thread[t].upto >= 1 /\ thread[t].rows # <<>>
         /\ Covers(thread[t].upto, Since(thread[t]))

ThreadsCover ==
  /\ thread \in [Threads -> ThreadSteps \cup {None}]
  /\ \A t \in Threads : ThreadCovers(t)

ShownCovers ==
  shown # None =>
    /\ shown \in [rows : Readings, upto : 1..bars, at : 0..clock]
    /\ \A b \in 1..bars : born[b] + Ttl + 2 * Handling <= shown.at => b <= shown.upto

FreshInv == BarsBorn /\ RowsRead /\ CacheCovers /\ ThreadsCover /\ ShownCovers

\* A bar that comes now takes nothing from what covers the past.
LEMMA NewBarIsLater ==
  ASSUME BarsBorn, Comes,
         NEW upto \in Int, NEW time \in Int, time <= clock, Covers(upto, time)
  PROVE  /\ bars' = bars + 1 /\ bars' \in 1..MaxBars
         /\ born' \in [1..bars' -> 0..MaxClock]
         /\ \A b \in 1..bars : born'[b] = born[b]
         /\ born'[bars + 1] = clock
         /\ \A b \in 1..bars' : born'[b] < time => b <= upto
<1>1. /\ bars < MaxBars /\ bars' = bars + 1 /\ born' = Append(born, clock)
      /\ bars \in 1..MaxBars /\ clock \in 0..MaxClock /\ born \in [1..bars -> 0..MaxClock]
      /\ MaxBars \in Nat /\ bars \in Nat
  BY ServiceAssumption DEF Comes, BarsBorn
<1>2. bars' \in 1..MaxBars
  BY <1>1
<1>3. born \in Seq(0..MaxClock) /\ Len(born) = bars
  <2>1. born \in Seq(0..MaxClock)
    <3>1. [1..bars -> 0..MaxClock] \in {[1..n -> 0..MaxClock] : n \in Nat}
      BY <1>1
    <3> QED BY <1>1, <3>1, SeqDef
  <2>2. DOMAIN born = 1..bars /\ DOMAIN born = 1..Len(born) /\ Len(born) \in Nat
    BY <1>1, <2>1, LenProperties
  <2> QED BY <1>1, <2>1, <2>2
<1>4. /\ born' \in Seq(0..MaxClock) /\ Len(born') = bars + 1
      /\ \A b \in 1..bars : born'[b] = born[b]
      /\ born'[bars + 1] = clock
  BY <1>1, <1>3, AppendProperties
<1>5. born' \in [1..bars' -> 0..MaxClock]
  BY <1>1, <1>4, LenProperties
<1> QED BY <1>1, <1>2, <1>4, <1>5 DEF Covers

\* Everything that came before a time not in the future is among the bars.
LEMMA AllBarsCover == ASSUME BarsBorn, NEW time PROVE Covers(bars, time)
BY DEF BarsBorn, Covers

LEMMA FreshInit == ASSUME ServiceInit PROVE FreshInv
<1>1. bars \in 1..MaxBars /\ request \in Requests
  BY ServiceAssumption DEF ServiceInit
<1>2. reading \in Readings
  <2>1. reading = [b \in 1..bars |-> b] /\ bars \in Nat /\ bars >= 1
    BY <1>1, ServiceAssumption DEF ServiceInit
  <2>2. reading \in [1..bars -> Nat] /\ reading \in Seq(Nat)
    BY <2>1, SeqDef
  <2>3. 1 \in DOMAIN reading /\ DOMAIN <<>> = {}
    BY <2>1
  <2> QED BY <2>2, <2>3 DEF Readings
<1> QED BY <1>1, <1>2, ServiceAssumption DEF ServiceInit, FreshInv, BarsBorn, RowsRead,
                    CacheCovers, ThreadsCover, ThreadCovers, ShownCovers

LEMMA ComesFresh == ASSUME FreshInv, Comes, RowsRead' PROVE FreshInv'
<1> USE ServiceAssumption
<1>1. UNCHANGED <<request, clock, cache, thread, shown>>
  BY DEF Comes
<1>2. BarsBorn /\ clock \in 0..MaxClock
  BY DEF FreshInv, BarsBorn
<1>3. BarsBorn'
  <2>1. Covers(bars, 0)
    BY <1>2, AllBarsCover
  <2>2. /\ bars' = bars + 1 /\ bars' \in 1..MaxBars
        /\ born' \in [1..bars' -> 0..MaxClock]
        /\ \A b \in 1..bars : born'[b] = born[b]
        /\ born'[bars + 1] = clock
    BY <1>2, <2>1, NewBarIsLater DEF BarsBorn
  <2> QED BY <1>1, <1>2, <2>2 DEF BarsBorn
<1>4. CacheCovers'
  <2>1. SUFFICES ASSUME cache # None PROVE CacheCovers'
    BY <1>1 DEF CacheCovers
  <2>2. /\ cache \in [rows : Readings, upto : 1..bars, expires : Nat]
        /\ cache.expires <= clock + Ttl
        /\ Covers(cache.upto, cache.expires - Ttl - Handling)
    BY <2>1 DEF FreshInv, CacheCovers
  <2> DEFINE time == cache.expires - Ttl - Handling
  <2>3. time \in Int /\ time <= clock /\ cache.upto \in Int
    BY <1>2, <2>2
  <2>4. bars' = bars + 1 /\ \A b \in 1..bars' : born'[b] < time => b <= cache.upto
    <3> HIDE DEF time
    <3> QED BY <1>2, <2>2, <2>3, NewBarIsLater DEF time
  <2> QED BY <1>1, <1>2, <2>2, <2>4 DEF CacheCovers, Covers, BarsBorn
<1>5. ThreadsCover'
  <2>1. SUFFICES ASSUME NEW t \in Threads PROVE ThreadCovers(t)'
    BY <1>1 DEF FreshInv, ThreadsCover
  <2>2. bars' = bars + 1
    BY <1>2 DEF Comes
  <2>3. CASE thread[t] = None
    BY <1>1, <2>3 DEF ThreadCovers
  <2>4. CASE thread[t] # None /\ ~HasRead(thread[t])
    BY <1>1, <1>2, <2>2, <2>4 DEF FreshInv, ThreadsCover, ThreadCovers, HasRead, ThreadSteps,
       BarsBorn
  <2>5. CASE thread[t] # None /\ HasRead(thread[t])
    <3>1. /\ thread[t] \in ThreadSteps /\ thread[t].asked <= clock
          /\ clock <= thread[t].asked + Handling
          /\ thread[t].upto <= bars /\ thread[t].upto >= 1 /\ thread[t].rows # <<>>
          /\ Covers(thread[t].upto, Since(thread[t]))
      BY <2>5 DEF FreshInv, ThreadsCover, ThreadCovers
    <3>2. /\ thread[t].upto \in Int /\ thread[t].asked \in Int
          /\ Since(thread[t]) \in Int /\ Since(thread[t]) <= clock
      BY <1>2, <3>1 DEF ThreadSteps, Since
    <3>3. \A b \in 1..bars' : born'[b] < Since(thread[t]) => b <= thread[t].upto
      BY <1>2, <3>1, <3>2, NewBarIsLater
    <3>4. (\A b \in 1..bars : born[b] < Since(thread[t]) => b <= thread[t].upto)'
      BY <1>1, <3>3
    <3>5. ThreadCovers(t)
      BY <2>1 DEF FreshInv, ThreadsCover
    <3> QED BY <1>1, <1>2, <2>2, <3>1, <3>2, <3>4, <3>5 DEF ThreadCovers, Covers, BarsBorn
  <2> QED BY <2>3, <2>4, <2>5
<1>6. ShownCovers'
  <2>1. SUFFICES ASSUME shown # None PROVE ShownCovers'
    BY <1>1 DEF ShownCovers
  <2>2. /\ shown \in [rows : Readings, upto : 1..bars, at : 0..clock]
        /\ \A b \in 1..bars : born[b] + Ttl + 2 * Handling <= shown.at => b <= shown.upto
    BY <2>1 DEF FreshInv, ShownCovers
  <2> DEFINE time == shown.at - Ttl - 2 * Handling + 1
  <2>3. time \in Int /\ time <= clock /\ shown.upto \in Int
    BY <1>2, <2>2
  <2>4. ASSUME NEW b \in 1..bars, born[b] < time PROVE b <= shown.upto
    <3>1. born[b] \in Nat /\ shown.at \in Nat
      BY <1>2, <2>2 DEF BarsBorn
    <3>2. born[b] + Ttl + 2 * Handling <= shown.at
      BY <2>4, <3>1
    <3> QED BY <2>2, <3>2
  <2>5. bars' = bars + 1 /\ \A b \in 1..bars' : born'[b] < time => b <= shown.upto
    <3> HIDE DEF time
    <3> QED BY <1>2, <2>3, <2>4, NewBarIsLater DEF Covers
  <2>6. ASSUME NEW b \in 1..bars', born'[b] + Ttl + 2 * Handling <= shown.at PROVE b <= shown.upto
    <3>1. born'[b] \in Nat /\ shown.at \in Nat
      BY <1>2, <1>3, <2>2 DEF BarsBorn
    <3>2. born'[b] < time
      BY <2>6, <3>1
    <3> QED BY <2>5, <3>2
  <2>7. shown \in [rows : Readings, upto : 1..bars', at : 0..clock]
    BY <1>2, <2>2, <2>5 DEF BarsBorn
  <2> QED BY <1>1, <2>6, <2>7 DEF ShownCovers
<1> QED BY <1>3, <1>4, <1>5, <1>6 DEF FreshInv

\* A bar comes at the end, or before some of the rows.
LEMMA NewBarFresh == ASSUME FreshInv, NewBar PROVE FreshInv'
<1>1. reading \in Seq(Nat) /\ bars + 1 \in Nat /\ reading' = Append(reading, bars + 1) /\ Comes
  BY ServiceAssumption DEF FreshInv, RowsRead, Readings, BarsBorn, NewBar
<1>2. reading' \in Seq(Nat) /\ reading' # <<>>
  BY <1>1, AppendProperties
<1> QED BY <1>1, <1>2, ComesFresh DEF RowsRead, Readings

LEMMA SlowerBarFresh == ASSUME FreshInv, SlowerBar PROVE FreshInv'
<1>1. reading \in Seq(Nat) /\ bars + 1 \in Nat /\ Comes
  BY ServiceAssumption DEF FreshInv, RowsRead, Readings, BarsBorn, SlowerBar
<1>2. PICK i \in 1..Len(reading) :
        reading' = SubSeq(reading, 1, i - 1) \o <<bars + 1>> \o SubSeq(reading, i, Len(reading))
  BY DEF SlowerBar
<1> DEFINE left == SubSeq(reading, 1, i - 1)
           right == SubSeq(reading, i, Len(reading))
<1>3. Len(reading) \in Nat /\ i \in Nat
  BY <1>1, LenProperties
<1>4. left \in Seq(Nat) /\ right \in Seq(Nat) /\ <<bars + 1>> \in Seq(Nat)
  <2>1. \A j \in 1..(i - 1) : reading[j] \in Nat
    BY <1>1, <1>3, ElementOfSeq
  <2>2. \A j \in i..Len(reading) : reading[j] \in Nat
    BY <1>1, <1>3, ElementOfSeq
  <2>3. left \in Seq(Nat)
    BY <1>1, <1>3, <2>1, SubSeqProperties
  <2>4. right \in Seq(Nat)
    BY <1>1, <1>3, <2>2, SubSeqProperties
  <2>5. <<bars + 1>> \in Seq(Nat)
    BY <1>1
  <2> QED BY <2>3, <2>4, <2>5
<1>5. /\ left \o <<bars + 1>> \in Seq(Nat)
      /\ Len(left \o <<bars + 1>>) = Len(left) + 1
  BY <1>4, ConcatProperties, LenProperties
<1> DEFINE most == left \o <<bars + 1>>
<1>6. most \o right \in Seq(Nat) /\ Len(most \o right) = Len(most) + Len(right)
  <2> HIDE DEF most, right
  <2> QED BY <1>4, <1>5, ConcatProperties DEF most
<1>7. reading' \in Seq(Nat) /\ Len(reading') # 0
  <2>1. Len(left) \in Nat /\ Len(right) \in Nat
    BY <1>4, LenProperties
  <2> QED BY <1>2, <1>5, <1>6, <2>1
<1>8. reading' # <<>>
  BY <1>7, EmptySeq
<1> QED BY <1>1, <1>7, <1>8, ComesFresh DEF RowsRead, Readings

\* The bars stay and the clock as well: what holds of a kept result, of a
\* thread or of an answer that stay holds still.
LEMMA FreshFrame ==
  ASSUME FreshInv, UNCHANGED <<request, bars, born, clock>>
  PROVE  /\ BarsBorn'
         /\ UNCHANGED reading => RowsRead'
         /\ UNCHANGED cache => CacheCovers'
         /\ UNCHANGED thread => ThreadsCover'
         /\ UNCHANGED shown => ShownCovers'
<1>1. BarsBorn'
  BY DEF FreshInv, BarsBorn
<1>2. UNCHANGED reading => RowsRead'
  BY DEF FreshInv, RowsRead
<1>3. UNCHANGED cache => CacheCovers'
  BY DEF FreshInv, CacheCovers, Covers
<1>4. UNCHANGED thread => ThreadsCover'
  BY DEF FreshInv, ThreadsCover, ThreadCovers, Covers
<1>5. UNCHANGED shown => ShownCovers'
  BY DEF FreshInv, ShownCovers
<1> QED BY <1>1, <1>2, <1>3, <1>4, <1>5

\* The first row leaves.
LEMMA SlideFresh == ASSUME FreshInv, Slide PROVE FreshInv'
<1>1. /\ UNCHANGED <<request, bars, born, clock, cache, thread, shown>>
      /\ reading \in Seq(Nat) /\ reading # <<>> /\ Len(reading) > 1 /\ reading' = Tail(reading)
  BY DEF FreshInv, RowsRead, Readings, Slide
<1>2. reading' \in Seq(Nat) /\ Len(reading') = Len(reading) - 1 /\ Len(reading) \in Nat
  BY <1>1, HeadTailProperties, LenProperties
<1>3. Len(reading') # 0
  <2> DEFINE len == Len(reading)
             left == Len(reading')
  <2>1. left = len - 1 /\ len > 1 /\ len \in Nat
    BY <1>1, <1>2
  <2> HIDE DEF len, left
  <2>2. left # 0
    BY <2>1
  <2> QED BY <2>2 DEF left
<1>4. reading' # <<>>
  BY <1>3, EmptySeq
<1>5. RowsRead'
  BY <1>2, <1>4 DEF RowsRead, Readings
<1> QED BY <1>1, <1>5, FreshFrame DEF FreshInv

LEMMA ComputeFresh == ASSUME FreshInv, Compute PROVE FreshInv'
<1> USE ServiceAssumption
<1>1. /\ UNCHANGED <<request, bars, born, reading, clock, cache, thread>>
      /\ shown' = [rows |-> reading, upto |-> bars, at |-> clock]
  BY DEF Compute, Shows
<1>2. ShownCovers'
  BY <1>1 DEF FreshInv, BarsBorn, RowsRead, ShownCovers
<1> QED BY <1>1, <1>2, FreshFrame DEF FreshInv

LEMMA ClearFresh == ASSUME FreshInv, Clear PROVE FreshInv'
<1>1. cache' = None /\ UNCHANGED <<request, bars, born, reading, clock, thread, shown>>
  BY DEF Clear
<1>2. CacheCovers'
  BY <1>1 DEF CacheCovers
<1> QED BY <1>1, <1>2, FreshFrame DEF FreshInv

\* Time passes only while every call can still be answered in time.
LEMMA TickFresh == ASSUME FreshInv, Tick PROVE FreshInv'
<1> USE ServiceAssumption
<1>1. /\ UNCHANGED <<request, bars, born, reading, cache, thread, shown>>
      /\ clock < MaxClock /\ clock' = clock + 1
      /\ \A t \in Threads : thread[t] # None => clock < thread[t].asked + Handling
  BY DEF Tick
<1>2. BarsBorn' /\ RowsRead' /\ clock \in Nat
  BY <1>1 DEF FreshInv, BarsBorn, RowsRead
<1>3. CacheCovers'
  BY <1>1, <1>2 DEF FreshInv, CacheCovers, Covers
<1>4. ThreadsCover'
  <2>1. SUFFICES ASSUME NEW t \in Threads, thread[t] # None PROVE ThreadCovers(t)'
    BY <1>1 DEF FreshInv, ThreadsCover, ThreadCovers
  <2>2. thread[t].asked \in Nat /\ ThreadCovers(t) /\ clock < thread[t].asked + Handling
    BY <1>1, <2>1 DEF FreshInv, ThreadsCover, ThreadSteps
  <2> QED BY <1>1, <1>2, <2>1, <2>2 DEF ThreadCovers, Covers
<1>5. ShownCovers'
  BY <1>1, <1>2 DEF FreshInv, ShownCovers
<1> QED BY <1>2, <1>3, <1>4, <1>5 DEF FreshInv

\* A step of thread t that leaves the bars and the time.
LEMMA ThreadSet ==
  ASSUME FreshInv, NEW t \in Threads, NEW call \in ThreadSteps \cup {None},
         thread' = [thread EXCEPT ![t] = call], ThreadCovers(t)',
         UNCHANGED <<request, bars, born, clock>>
  PROVE  ThreadsCover'
BY DEF FreshInv, ThreadsCover, ThreadCovers, Covers

LEMMA AskFresh ==
  ASSUME FreshInv, NEW t \in Threads, NEW kind \in Kinds,
         Ask(t, kind)
  PROVE  FreshInv'
<1> DEFINE call == [kind |-> kind, step |-> IF kind = "calculate" THEN "lookup" ELSE "read",
                    rows |-> <<>>, upto |-> 0, asked |-> clock]
<1>1. /\ thread' = [thread EXCEPT ![t] = call]
      /\ UNCHANGED <<request, bars, born, reading, clock, cache, shown>>
  BY DEF Ask
<1>2. /\ clock \in Nat /\ bars \in Nat /\ Handling \in Nat
      /\ thread \in [Threads -> ThreadSteps \cup {None}]
  BY ServiceAssumption DEF FreshInv, BarsBorn, ThreadsCover
<1>3. call \in ThreadSteps /\ ~HasRead(call) /\ (call.step = "lookup" => call.kind # "skip")
  <2>1. <<>> \in Seq(Nat)
    BY EmptySeq
  <2> QED BY <1>2, <2>1 DEF ThreadSteps, HasRead, Kinds
<1>4. thread'[t] = call
  BY <1>1, <1>2
<1>5. ThreadCovers(t)'
  BY <1>1, <1>2, <1>3, <1>4 DEF ThreadCovers
<1>6. ThreadsCover'
  <2> HIDE DEF call
  <2> QED BY <1>1, <1>3, <1>5, ThreadSet
<1> QED BY <1>1, <1>6, FreshFrame DEF FreshInv

\* A call that knows what it has to.
LEMMA ThreadReady ==
  ASSUME FreshInv, NEW t \in Threads, NEW call \in ThreadSteps,
         thread' = [thread EXCEPT ![t] = call], UNCHANGED <<request, bars, born, clock>>,
         call.asked <= clock, clock <= call.asked + Handling, call.upto <= bars,
         call.step = "lookup" => call.kind # "skip",
         HasRead(call) =>
           call.upto >= 1 /\ call.rows # <<>> /\ Covers(call.upto, Since(call))
  PROVE  ThreadsCover'
<1>1. thread'[t] = call
  BY DEF FreshInv, ThreadsCover
<1>2. HasRead(call) => Covers(call.upto, Since(call))'
  BY DEF Covers, Since
<1>3. ThreadCovers(t)'
  BY <1>1, <1>2 DEF ThreadCovers
<1> QED BY <1>3, ThreadSet

\* What is going to be answered: rows that were read or found.
LEMMA ToAnswer ==
  ASSUME FreshInv, NEW t \in Threads, NEW call \in ThreadSteps, thread[t] # None,
         thread' = [thread EXCEPT ![t] = call],
         UNCHANGED <<request, bars, born, clock>>,
         call.step = "answer", call.asked = thread[t].asked, call.rows # <<>>,
         call.upto \in 1..bars, Covers(call.upto, call.asked + 1 - Ttl - Handling)
  PROVE  ThreadsCover'
<1>1. ThreadCovers(t) /\ bars \in Nat
  BY ServiceAssumption DEF FreshInv, ThreadsCover, BarsBorn
<1>2. Since(call) = call.asked + 1 - Ttl - Handling
  BY DEF Since
<1>3. call.asked <= clock /\ clock <= call.asked + Handling
  BY <1>1 DEF ThreadCovers
<1>4. call.upto <= bars /\ call.upto >= 1
  BY <1>1
<1> QED BY <1>2, <1>3, <1>4, ThreadReady

\* A result found before it expires covers what came longer ago.
LEMMA HitFresh ==
  ASSUME FreshInv, NEW t \in Threads, Hit(t) PROVE FreshInv'
<1> USE ServiceAssumption
<1> DEFINE call == [thread[t] EXCEPT !.rows = cache.rows, !.upto = cache.upto, !.step = "answer"]
<1>1. /\ cache # None /\ cache.expires > clock /\ thread[t] # None
      /\ thread' = [thread EXCEPT
           ![t].rows = cache.rows, ![t].upto = cache.upto, ![t].step = "answer"]
      /\ UNCHANGED <<request, bars, born, reading, clock, cache, shown>>
  BY DEF Hit, Live, At
<1>2. /\ cache \in [rows : Readings, upto : 1..bars, expires : Nat] /\ clock \in Nat
      /\ born \in [1..bars -> 0..MaxClock] /\ bars \in Nat
      /\ \A b \in 1..bars : born[b] < cache.expires - Ttl - Handling => b <= cache.upto
  BY <1>1 DEF FreshInv, CacheCovers, Covers, BarsBorn
<1>3. /\ thread \in [Threads -> ThreadSteps \cup {None}] /\ thread[t] \in ThreadSteps
      /\ thread[t].asked \in Nat /\ thread[t].asked <= clock
  BY <1>1 DEF FreshInv, ThreadsCover, ThreadCovers, ThreadSteps
<1>4. thread' = [thread EXCEPT ![t] = call]
  BY <1>1, <1>3 DEF ThreadSteps
<1>5. cache.rows \in Seq(Nat) /\ cache.rows # <<>> /\ cache.upto \in 1..bars
  BY <1>2 DEF Readings
<1>6. /\ call \in ThreadSteps /\ call.step = "answer" /\ call.asked = thread[t].asked
      /\ call.rows = cache.rows /\ call.upto = cache.upto
  <2> DEFINE found == cache.rows
             upto == cache.upto
  <2>1. found \in Seq(Nat) /\ upto \in Nat
    BY <1>2, <1>5
  <2> HIDE DEF found, upto
  <2>2. [thread[t] EXCEPT !.rows = found, !.upto = upto, !.step = "answer"] \in ThreadSteps
    BY <1>3, <2>1 DEF ThreadSteps
  <2> QED BY <1>3, <2>2 DEF ThreadSteps, found, upto
<1>7. Covers(cache.upto, thread[t].asked + 1 - Ttl - Handling)
  <2>1. SUFFICES ASSUME NEW b \in 1..bars, born[b] < thread[t].asked + 1 - Ttl - Handling
                 PROVE  b <= cache.upto
    BY DEF Covers
  <2>2. born[b] \in Nat /\ cache.expires \in Nat
    BY <1>2
  <2>3. /\ thread[t].asked \in Nat /\ clock \in Nat /\ Ttl \in Nat /\ Handling \in Nat
        /\ thread[t].asked <= clock /\ clock < cache.expires
    BY <1>1, <1>2, <1>3
  <2>4. born[b] < cache.expires - Ttl - Handling
    BY <2>1, <2>2, <2>3
  <2> QED BY <1>2, <2>4
<1>8. ThreadsCover'
  <2> HIDE DEF call
  <2> QED BY <1>1, <1>4, <1>5, <1>6, <1>7, ToAnswer
<1> QED BY <1>1, <1>8, FreshFrame DEF FreshInv

LEMMA MissFresh == ASSUME FreshInv, NEW t \in Threads, Miss(t) PROVE FreshInv'
<1> DEFINE call == [thread[t] EXCEPT !.step =
                      IF thread[t].kind = "calculate" THEN "read" ELSE "compute"]
<1>1. /\ cache' = None /\ thread[t] # None /\ thread[t].step = "lookup"
      /\ thread' = [thread EXCEPT ![t] = call]
      /\ UNCHANGED <<request, bars, born, reading, clock, shown>>
  BY DEF Miss, At
<1>2. /\ thread \in [Threads -> ThreadSteps \cup {None}] /\ thread[t] \in ThreadSteps
      /\ ThreadCovers(t)
  BY <1>1 DEF FreshInv, ThreadsCover
<1>3. /\ call \in ThreadSteps /\ call.rows = thread[t].rows
      /\ call.upto = thread[t].upto /\ call.asked = thread[t].asked
      /\ call.step \notin {"lookup", "answer"}
      /\ call.step = "compute" => HasRead(thread[t])
  BY <1>1, <1>2 DEF ThreadSteps, ThreadCovers, HasRead
<1>4. Since(call) = Since(thread[t]) /\ (HasRead(call) => HasRead(thread[t]))
  <2> HIDE DEF call
  <2> QED BY <1>1, <1>3 DEF Since, HasRead
<1>5. /\ call.asked <= clock /\ clock <= call.asked + Handling /\ call.upto <= bars
      /\ HasRead(call) =>
           call.upto >= 1 /\ call.rows # <<>> /\ Covers(call.upto, Since(call))
  <2> HIDE DEF call
  <2> QED BY <1>1, <1>2, <1>3, <1>4 DEF ThreadCovers
<1>7. ThreadsCover'
  <2> HIDE DEF call
  <2> QED BY <1>1, <1>3, <1>5, ThreadReady
<1>8. CacheCovers'
  BY <1>1 DEF CacheCovers
<1> QED BY <1>1, <1>7, <1>8, FreshFrame DEF FreshInv

LEMMA ReadFresh == ASSUME FreshInv, NEW t \in Threads, Read(t) PROVE FreshInv'
<1> DEFINE call == [thread[t] EXCEPT !.rows = reading, !.upto = bars,
                      !.step = IF thread[t].kind = "batch" THEN "lookup" ELSE "compute"]
<1>1. /\ thread[t] # None /\ thread[t].step = "read"
      /\ thread' = [thread EXCEPT ![t].rows = reading, ![t].upto = bars,
                      ![t].step = IF thread[t].kind = "batch" THEN "lookup" ELSE "compute"]
      /\ UNCHANGED <<request, bars, born, reading, clock, cache, shown>>
  BY DEF Read, At
<1>2. /\ thread \in [Threads -> ThreadSteps \cup {None}] /\ thread[t] \in ThreadSteps
      /\ ThreadCovers(t) /\ bars \in Nat /\ bars >= 1 /\ BarsBorn
      /\ reading \in Seq(Nat) /\ reading # <<>>
  BY <1>1, ServiceAssumption DEF FreshInv, ThreadsCover, BarsBorn, RowsRead, Readings
<1>3. thread' = [thread EXCEPT ![t] = call]
  BY <1>1, <1>2 DEF ThreadSteps
<1>4. /\ call \in ThreadSteps /\ call.upto = bars /\ call.asked = thread[t].asked
      /\ call.rows = reading /\ call.step # "answer"
      /\ call.step = "lookup" => call.kind # "skip"
  BY <1>2 DEF ThreadSteps
<1>5. Covers(call.upto, Since(call))
  <2> HIDE DEF call
  <2> QED BY <1>2, <1>4, AllBarsCover
<1>6. /\ call.asked <= clock /\ clock <= call.asked + Handling /\ call.upto <= bars
      /\ call.upto >= 1 /\ call.rows # <<>>
  <2> HIDE DEF call
  <2> QED BY <1>1, <1>2, <1>4 DEF ThreadCovers
<1>8. ThreadsCover'
  <2> HIDE DEF call
  <2> QED BY <1>1, <1>3, <1>4, <1>5, <1>6, ThreadReady
<1> QED BY <1>1, <1>8, FreshFrame DEF FreshInv

\* What is kept covers the time of its call, which is not longer ago than an
\* endpoint takes.
LEMMA FinishFresh ==
  ASSUME FreshInv, NEW t \in Threads, Finish(t) PROVE FreshInv'
<1> USE ServiceAssumption
<1> DEFINE upto == thread[t].upto
           asked == thread[t].asked
           given == thread[t].rows
           call == [thread[t] EXCEPT !.step = "answer"]
<1>1. /\ thread[t] # None /\ thread[t].step = "compute"
      /\ thread' = [thread EXCEPT ![t].step = "answer"]
      /\ UNCHANGED <<request, bars, born, reading, clock, shown>>
      /\ \/ cache' = cache
         \/ cache' = [rows |-> given, upto |-> upto, expires |-> clock + Ttl]
  BY DEF Finish, At, Keep
<1>2. /\ upto \in 1..bars /\ asked \in Nat /\ clock \in Nat /\ given \in Readings
      /\ clock <= asked + Handling
      /\ born \in [1..bars -> 0..MaxClock]
      /\ \A b \in 1..bars : born[b] < asked => b <= upto
  <2>1. /\ thread[t] \in ThreadSteps /\ ThreadCovers(t) /\ HasRead(thread[t])
        /\ Since(thread[t]) = asked
    BY <1>1 DEF FreshInv, ThreadsCover, HasRead, Since
  <2>2. /\ upto >= 1 /\ upto <= bars /\ given # <<>> /\ Covers(upto, asked)
        /\ clock <= asked + Handling
    BY <1>1, <2>1 DEF ThreadCovers
  <2> QED BY <2>1, <2>2 DEF FreshInv, ThreadSteps, Covers, BarsBorn, Readings
<1>3. thread[t] \in ThreadSteps /\ thread \in [Threads -> ThreadSteps \cup {None}]
  BY <1>1 DEF FreshInv, ThreadsCover
<1>4. thread' = [thread EXCEPT ![t] = call]
  BY <1>1, <1>3 DEF ThreadSteps
<1>5. /\ call \in ThreadSteps /\ call.step = "answer" /\ call.asked = asked
      /\ call.rows = given /\ call.upto = upto
  BY <1>3 DEF ThreadSteps
<1>6. Covers(upto, asked + 1 - Ttl - Handling)
  <2>1. SUFFICES ASSUME NEW b \in 1..bars, born[b] < asked + 1 - Ttl - Handling
                 PROVE  born[b] < asked
    BY <1>2 DEF Covers
  <2>2. born[b] \in Nat
    BY <1>2
  <2> HIDE DEF upto, asked, given, call
  <2> QED BY <1>2, <2>1, <2>2
<1>7. ThreadsCover'
  <2>1. given # <<>>
    BY <1>2 DEF Readings
  <2> HIDE DEF call
  <2> QED BY <1>1, <1>2, <1>4, <1>5, <1>6, <2>1, ToAnswer
<1> HIDE DEF upto, asked, given, call
<1>8. CacheCovers'
  <2>1. CASE cache' = cache
    BY <1>1, <2>1, FreshFrame
  <2>2. CASE cache' = [rows |-> given, upto |-> upto, expires |-> clock + Ttl]
    <3>1. cache'.upto = upto /\ cache'.expires = clock + Ttl
      BY <2>2
    <3>2. \A b \in 1..bars : born[b] < cache'.expires - Ttl - Handling => b <= cache'.upto
      <4>1. SUFFICES ASSUME NEW b \in 1..bars, born[b] < clock + Ttl - Ttl - Handling
                     PROVE  born[b] < asked
        BY <1>2, <3>1
      <4> QED BY <1>2, <4>1
    <3>3. cache' \in [rows : Readings, upto : 1..bars, expires : Nat]
      BY <1>2, <2>2
    <3> QED BY <1>1, <1>2, <3>1, <3>2, <3>3 DEF CacheCovers, Covers
  <2> QED BY <1>1, <2>1, <2>2
<1> QED BY <1>1, <1>7, <1>8, FreshFrame DEF FreshInv

\* What is given was kept when one was asked, or read, and that one and this
\* one took no longer than an endpoint takes.
LEMMA AnswerFresh ==
  ASSUME FreshInv, NEW t \in Threads, Answer(t) PROVE FreshInv'
<1> USE ServiceAssumption
<1> DEFINE upto == thread[t].upto
           asked == thread[t].asked
           given == thread[t].rows
<1>1. /\ thread[t] # None /\ thread[t].step = "answer"
      /\ shown' = [rows |-> given, upto |-> upto, at |-> clock]
      /\ thread' = [thread EXCEPT ![t] = None]
      /\ UNCHANGED <<request, bars, born, reading, clock, cache>>
  BY DEF Answer, At, Shows
<1>2. /\ upto \in 1..bars /\ asked \in Nat /\ clock \in Nat /\ given \in Readings
      /\ clock <= asked + Handling
      /\ born \in [1..bars -> 0..MaxClock]
      /\ \A b \in 1..bars : born[b] < asked + 1 - Ttl - Handling => b <= upto
  <2>1. /\ thread[t] \in ThreadSteps /\ ThreadCovers(t) /\ HasRead(thread[t])
        /\ Since(thread[t]) = asked + 1 - Ttl - Handling
    BY <1>1 DEF FreshInv, ThreadsCover, HasRead, Since
  <2>2. /\ upto >= 1 /\ upto <= bars /\ given # <<>>
        /\ Covers(upto, asked + 1 - Ttl - Handling) /\ clock <= asked + Handling
    BY <1>1, <2>1 DEF ThreadCovers
  <2> QED BY <2>1, <2>2 DEF FreshInv, ThreadSteps, Covers, BarsBorn, Readings
<1>3. ThreadsCover'
  <2>1. thread'[t] = None
    BY <1>1 DEF FreshInv, ThreadsCover
  <2>2. ThreadCovers(t)'
    BY <2>1 DEF ThreadCovers
  <2> QED BY <1>1, <2>2, ThreadSet
<1> HIDE DEF upto, asked, given
<1>4. \A b \in 1..bars : born[b] + Ttl + 2 * Handling <= clock => b <= upto
  <2>1. SUFFICES ASSUME NEW b \in 1..bars, born[b] + Ttl + 2 * Handling <= clock
                 PROVE  born[b] < asked + 1 - Ttl - Handling
    BY <1>2
  <2>2. born[b] \in Nat
    BY <1>2
  <2> QED BY <1>2, <2>1, <2>2
<1>5. ShownCovers'
  BY <1>1, <1>2, <1>4 DEF ShownCovers
<1> QED BY <1>1, <1>3, <1>5, FreshFrame DEF FreshInv

LEMMA FreshNext ==
  ASSUME FreshInv, [ServiceNext]_serviceVars PROVE FreshInv'
<1>1. CASE UNCHANGED serviceVars
  BY <1>1, FreshFrame DEF serviceVars, FreshInv
<1>2. CASE ServiceNext
  BY <1>2, NewBarFresh, SlowerBarFresh, SlideFresh, ComputeFresh, ClearFresh, TickFresh,
     AskFresh, HitFresh, MissFresh, ReadFresh, FinishFresh, AnswerFresh DEF ServiceNext
<1> QED BY <1>1, <1>2

\* The variables of the indicator service keep their types: what is kept,
\* read and shown is of bars that there are (routes/indicators.py).
THEOREM EndpointsTyped ==
  ServiceSpec => []ServiceTypeOK
<1>1. FreshInv => ServiceTypeOK
  <2> SUFFICES ASSUME FreshInv PROVE ServiceTypeOK
    OBVIOUS
  <2>1. \A t \in Threads : thread[t] = None \/ thread[t].upto \in 0..bars
    BY DEF FreshInv, ThreadsCover, ThreadCovers, ThreadSteps, BarsBorn
  <2> QED BY <2>1 DEF FreshInv, BarsBorn, RowsRead, Readings, CacheCovers, ShownCovers,
             ServiceTypeOK
<1> QED BY <1>1, FreshInit, FreshNext, PTL DEF ServiceSpec

\* An answer knows every bar that came longer ago than a result is kept and two
\* endpoints take, the one that kept it and the one that gives it, at once or
\* after the rest of a batch, whatever threads run at once, and however their
\* lookups, reads and writes of the cache are interleaved (_get_cached_result,
\* _set_cached_result, calculate_indicators_batch).
THEOREM AnswersAreFresh ==
  ServiceSpec => []FreshWithinTTL
<1>1. FreshInv => FreshWithinTTL
  BY DEF FreshInv, ShownCovers, FreshWithinTTL
<1> QED BY <1>1, FreshInit, FreshNext, PTL DEF ServiceSpec

(***************************************************************************)
(* The trials: every design holds out what it judges on                    *)
(***************************************************************************)

Greatest(S) == CHOOSE x \in S : \A y \in S : x >= y
Least(S) == CHOOSE x \in S : \A y \in S : x <= y

LEMMA GreatestExists ==
  ASSUME NEW n \in Nat, NEW S \in SUBSET (0..n), S # {}
  PROVE  Greatest(S) \in S /\ \A y \in S : Greatest(S) >= y
<1> DEFINE T == {x..n : x \in S}
<1>1. IsFiniteSet(0..n)
  BY FS_Interval
<1>2. IsWellFoundedOn(StrictSubsetOrdering(0..n), SUBSET (0..n))
  BY <1>1, FS_StrictSubsetOrderingWellFounded, FS_FiniteSubsetsOfFinite
<1>3. T \subseteq SUBSET (0..n) /\ T # {}
  <2>1. \A x \in S : x..n \subseteq 0..n
    OBVIOUS
  <2> QED BY <2>1
<1>4. PICK fewest \in T : \A other \in T : ~(<<other, fewest>> \in StrictSubsetOrdering(0..n))
  BY <1>2, <1>3, WFMin
<1>5. PICK m \in S : fewest = m..n
  OBVIOUS
<1>6. \A x \in S : m >= x
  <2> SUFFICES ASSUME NEW x \in S, m < x PROVE FALSE
    OBVIOUS
  <2>1. m \in m..n /\ m \notin x..n /\ x..n \subseteq m..n
    OBVIOUS
  <2>2. x..n \in T /\ x..n # m..n
    BY <2>1
  <2> QED BY <1>3, <1>4, <1>5, <2>1, <2>2 DEF StrictSubsetOrdering
<1> QED BY <1>6 DEF Greatest

LEMMA LeastExists ==
  ASSUME NEW n \in Nat, NEW S \in SUBSET (0..n), S # {}
  PROVE  Least(S) \in S /\ \A y \in S : Least(S) <= y
<1> DEFINE R == {n - x : x \in S}
<1>1. R \in SUBSET (0..n) /\ R # {}
  <2>1. \A x \in S : n - x \in 0..n
    OBVIOUS
  <2> QED BY <2>1
<1>2. Greatest(R) \in R /\ \A y \in R : Greatest(R) >= y
  BY <1>1, GreatestExists
<1>3. PICK m \in S : Greatest(R) = n - m
  BY <1>2
<1>4. \A x \in S : m <= x
  <2> SUFFICES ASSUME NEW x \in S PROVE m <= x
    OBVIOUS
  <2>1. n - m >= n - x
    BY <1>2, <1>3
  <2> QED BY <2>1
<1> QED BY <1>4 DEF Least

(* The operators of FiniteSetsExt, as the designs and the folds use them.  *)
LEMMA LeastMost ==
  /\ \A S : Designs!Min(S) = Least(S)
  /\ \A S : Designs!Max(S) = Greatest(S)
  /\ \A S : Regimes!Min(S) = Least(S)
  /\ \A S : Regimes!Max(S) = Greatest(S)
BY DEF Designs!Min, Designs!Max, Regimes!Min, Regimes!Max,
       Least, Greatest

LEMMA LeastOfTwo == ASSUME NEW a \in Int, NEW b \in Int PROVE Least({a, b}) \in Int
<1>1. CASE a <= b
  <2>1. \A y \in {a, b} : a <= y
    BY <1>1
  <2> QED BY <2>1 DEF Least
<1>2. CASE b < a
  <2>1. \A y \in {a, b} : b <= y
    BY <1>2
  <2> QED BY <2>1 DEF Least
<1> QED BY <1>1, <1>2

(* What is judged begins where what was seen ends.                         *)
LEMMA ChampionUnseen ==
  ASSUME NEW n \in Nat PROVE LaterThanSeen(Designs!ChampionTrials(n))
<1> DEFINE end(k) == Designs!BlockEnd(n, k)
           cut(k) == Designs!FourFifths(end(k))
<1>1. ASSUME NEW k \in Int PROVE end(k) \in Int
  <2> DEFINE blocks == Sizes.n_folds + 1
             rest == n % blocks
             whole == n \div blocks
  <2>1. blocks \in Nat \ {0}
    BY TrialAssumption
  <2> HIDE DEF blocks
  <2>2. rest \in Int /\ whole \in Int
    BY <2>1
  <2>3. end(k) = k * whole + Least({k, rest})
    BY LeastMost DEF Designs!BlockEnd, blocks
  <2> HIDE DEF rest, whole
  <2>4. Least({k, rest}) \in Int
    BY <2>2, LeastOfTwo
  <2> QED BY <2>2, <2>3, <2>4
<1>2. ASSUME NEW k \in 1..Sizes.n_folds, NEW t \in Designs!ChampionFold(n, k)
      PROVE  \A i \in t.saw, j \in t.judged : i < j
  <2>1. k \in Int /\ (k + 1) - 1 = k /\ k + 1 \in Int
    BY TrialAssumption
  <2>2. end(k) \in Int /\ end(k + 1) \in Int /\ end((k + 1) - 1) = end(k)
    BY <1>1, <2>1
  <2>3. \/ t = [saw |-> 1..cut(k), judged |-> cut(k) + 1 .. end(k)]
        \/ t = [saw |-> 1..end(k), judged |-> end(k) + 1 .. end(k + 1)]
    BY <1>2, <2>2 DEF Designs!ChampionFold, Designs!Trial,
                      Designs!Upto, Designs!Block
  <2>4. cut(k) \in Int
    BY <2>2 DEF Designs!FourFifths
  <2> HIDE DEF end, cut
  <2> QED BY <2>2, <2>3, <2>4
<1> QED BY <1>2 DEF Designs!ChampionTrials, LaterThanSeen

LEMMA SplitsUnseen ==
  ASSUME NEW n \in Int, NEW splits \in Nat, NEW gap \in Nat
  PROVE  LaterThanSeen(Designs!TimeSeriesSplit(n, splits, gap))
<1> DEFINE size == Designs!FoldSize(n, splits)
<1>1. size \in Int
  BY DEF Designs!FoldSize
<1> SUFFICES ASSUME NEW t \in Designs!TimeSeriesSplit(n, splits, gap)
             PROVE  \A i \in t.saw, j \in t.judged : i < j
  BY DEF LaterThanSeen
<1>2. PICK s \in {n - k * size : k \in 1..splits} :
        t = [saw |-> 1..s - gap, judged |-> s + 1 .. s + size]
  BY DEF Designs!TimeSeriesSplit, Designs!Trial, Designs!Upto
<1> HIDE DEF size
<1>3. s \in Int
  BY <1>1, <1>2
<1>4. \A i \in 1..s - gap, j \in s + 1 .. s + size : i < j
  BY <1>1, <1>3
<1> QED BY <1>2, <1>4

LEMMA TuningUnseen ==
  ASSUME NEW n \in Nat PROVE LaterThanSeen(Designs!TuningTrials(n))
<1> DEFINE rows == Designs!FourFifths(n)
           wide == Sizes.embargo_gap
           gaps == {wide, wide \div 2, 0}
           most == Least({Sizes.cv_splits, rows - 1})
           pairs == {p \in (2..most) \X gaps : Designs!Splittable(rows, p[1], p[2])}
           counts == {p[1] : p \in pairs}
           splits == Greatest(counts)
           allowed == {p[2] : p \in {q \in pairs : q[1] = splits}}
           gap == Greatest(allowed)
<1>1. rows \in Int /\ rows - 1 \in Int /\ Sizes.cv_splits \in Int /\ wide \in Nat
  BY TrialAssumption DEF Designs!FourFifths
<1>2. most \in Int
  BY <1>1, LeastOfTwo
<1>3. \/ Designs!TuningTrials(n) = {}
      \/ pairs # {} /\ Designs!TuningTrials(n)
                         = Designs!TimeSeriesSplit(rows, splits, gap)
  BY LeastMost DEF Designs!TuningTrials, Designs!MakeTimeSeriesSplit
<1> HIDE DEF rows, most
<1>4. CASE pairs # {}
  <2>1. \A x \in gaps : x \in 0..wide
    BY <1>1
  <2> HIDE DEF gaps, wide
  <2>2. \A p \in pairs : p[1] \in 2..most /\ p[2] \in gaps
    OBVIOUS
  <2> HIDE DEF pairs
  <2>3. counts \in SUBSET (0..most) /\ counts # {} /\ most \in Nat
    <3>1. \A p \in pairs : p[1] \in 0..most /\ most \in Nat
      BY <1>2, <2>2
    <3> QED BY <1>4, <3>1
  <2>4. splits \in counts
    BY <2>3, GreatestExists
  <2>5. splits \in Nat
    BY <2>3, <2>4
  <2> HIDE DEF splits
  <2>6. PICK q \in pairs : q[1] = splits
    BY <2>4
  <2>7. q[2] \in allowed
    BY <2>6
  <2>8. \A x \in allowed : x \in 0..wide
    BY <2>1, <2>2
  <2> HIDE DEF allowed
  <2>9. gap \in allowed
    BY <1>1, <2>7, <2>8, GreatestExists
  <2>10. gap \in Nat
    BY <1>1, <2>8, <2>9
  <2> QED BY <1>1, <1>3, <2>5, <2>10, SplitsUnseen DEF LaterThanSeen
<1>5. CASE pairs = {}
  BY <1>3, <1>5 DEF LaterThanSeen
<1> QED BY <1>4, <1>5

LEMMA TestUnseen ==
  ASSUME NEW n \in Nat
  PROVE  /\ LaterThanSeen(Designs!TestTrials(n))
         /\ LaterThanSeen(Designs!LstmTrials(n))
<1> DEFINE cut == Designs!FourFifths(n)
<1>1. cut \in Int
  BY DEF Designs!FourFifths
<1>2. Designs!TrainRows(n) = 1..cut /\ Designs!TestRows(n) = 1..n \ 1..cut
  BY DEF Designs!TrainRows, Designs!TestRows, Designs!Upto
<1> HIDE DEF cut
<1>3. \A i \in 1..cut, j \in 1..n \ 1..cut : i < j
  BY <1>1
<1>4. \A i \in Designs!TrainRows(n), j \in Designs!TestRows(n) : i < j
  BY <1>2, <1>3
<1>5. \A t \in Designs!TestTrials(n) :
        t.saw = Designs!TrainRows(n) /\ t.judged = Designs!TestRows(n)
  BY DEF Designs!TestTrials, Designs!Trial
<1>6. \A t \in Designs!LstmTrials(n) :
        t.saw = Designs!TrainRows(n) /\ t.judged \subseteq Designs!TestRows(n)
  BY DEF Designs!LstmTrials, Designs!Trial
<1> QED BY <1>4, <1>5, <1>6 DEF LaterThanSeen

LEMMA CausalUnseen ==
  ASSUME NEW n \in Nat, NEW p, NEW q
  PROVE  LaterThanSeen(Regimes!CausalTrials(n, p, q))
<1> DEFINE rows == Regimes!RegimeRows(n, p, q)
<1>1. rows \in SUBSET (0..n)
  <2>1. rows \subseteq 1..n
    BY DEF Regimes!RegimeRows, Regimes!Complete
  <2> QED BY <2>1
<1> SUFFICES ASSUME NEW t \in Regimes!CausalTrials(n, p, q)
             PROVE  \A i \in t.saw, j \in t.judged : i < j
  BY DEF LaterThanSeen
<1>2. PICK s \in Regimes!FoldStarts(rows) :
        /\ t.saw = Regimes!TrainOf(rows, s)
        /\ t.judged = Regimes!WindowOf(rows, s)
  BY DEF Regimes!CausalTrials, Regimes!TrialsOf
<1>3. /\ \A i \in t.saw : i \in rows /\ i < s
      /\ \A j \in t.judged : j \in rows /\ s <= j
  BY <1>2 DEF Regimes!TrainOf, Regimes!WindowOf
<1> HIDE DEF rows
<1>4. rows # {} /\ s \in Least(rows) + MinTrain .. Greatest(rows) - 1
  BY <1>2, LeastMost DEF Regimes!FoldStarts, Regimes!Fold!OosStarts,
         Regimes!First, Regimes!Last
<1>5. Least(rows) \in rows /\ Greatest(rows) \in rows
  BY <1>1, <1>4, LeastExists, GreatestExists
<1>6. \A i \in rows : i \in Int
  BY <1>1
<1>7. s \in Int
  BY <1>4, <1>5, <1>6, TrialAssumption
<1> QED BY <1>3, <1>6, <1>7

LEMMA PerformanceEarlier ==
  ASSUME NEW n \in Nat, NEW w
  PROVE  FromEarlier(Designs!StrategyPerformance(n, w))
<1> DEFINE values == Designs!StrategyPerformance(n, w)
           places == 1..(IF n < 1 THEN 0 ELSE (n - 1) + 1)
           value(i) == IF n < Sizes.min_trades THEN [of |-> {i}, on |-> {}]
                       ELSE IF Designs!Cardinality(Designs!Past(i, w))
                                 < Sizes.min_periods THEN None
                       ELSE [of |-> {i}, on |-> Designs!Past(i, w)]
<1>1. values = [i \in places |-> value((1 + i) - 1)]
  BY DEF Designs!StrategyPerformance, Designs!Each
<1>2. \A i \in Nat : \A j \in Designs!Past(i, w) : j < i
  BY DEF Designs!Past
<1>3. \A i \in Nat : value(i) = None \/ \A j \in value(i).on : j < i
  BY <1>2
<1> HIDE DEF values, value
<1>4. \A i \in places : values[i] = value(i) /\ i \in Nat
  BY <1>1
<1>5. DOMAIN values = places
  BY <1>1
<1> QED BY <1>3, <1>4, <1>5 DEF FromEarlier, values

\* An answer is of some rows.
LEMMA CountOfShown ==
  ASSUME FreshInv, shown # None
  PROVE  /\ shown.rows \in Seq(Nat) /\ Count(shown) \in Nat \ {0}
         /\ DOMAIN shown.rows = 1..Count(shown)
<1>1. shown.rows \in Seq(Nat) /\ shown.rows # <<>>
  BY DEF FreshInv, ShownCovers, Readings
<1> QED BY <1>1, LenProperties, EmptySeq DEF Count

LEMMA UnseenFact ==
  ASSUME FreshInv PROVE JudgedOnUnseen
<1> SUFFICES ASSUME shown # None PROVE JudgedOnUnseen
  BY DEF JudgedOnUnseen
<1> DEFINE n == Count(shown)
<1>1. n \in Nat /\ request \in Requests
  BY CountOfShown DEF FreshInv, BarsBorn
<1> HIDE DEF n
<1>2. ASSUME request.where = "trial", ~Peeks
      PROVE  LaterThanSeen(Trials(request, n))
  <2>1. request.indicator \in {"champion", "tuning", "test", "lstm_test", "causal_folds"}
    BY <1>1, <1>2, TrialAssumption DEF Peeks, Is
  <2>2. CASE request.indicator = "champion"
    BY <1>1, <2>2, ChampionUnseen DEF Trials
  <2>3. CASE request.indicator = "tuning"
    BY <1>1, <2>3, TuningUnseen DEF Trials
  <2>4. CASE request.indicator = "test"
    BY <1>1, <2>4, TestUnseen DEF Trials
  <2>5. CASE request.indicator = "lstm_test"
    BY <1>1, <2>5, TestUnseen DEF Trials
  <2>6. CASE request.indicator = "causal_folds"
    BY <1>1, <2>6, CausalUnseen DEF Trials
  <2> QED BY <2>1, <2>2, <2>3, <2>4, <2>5, <2>6
<1> QED BY <1>1, <1>2, PerformanceEarlier DEF JudgedOnUnseen, n

(* However many rows there are and whatever the sizes of the designs: each *)
(* row that the champion of a block, the parameters tuned on a split by    *)
(* time, a test or a causal fold is judged on comes after all rows it was  *)
(* made from, and a trade's features are from earlier trades               *)
(* (gatekeeper/train.py, train_ml_gatekeeper.py, hmm_regime.py). Peeks     *)
(* names the trials of which this is not so: among them the search for the *)
(* champion's parameters and the calibration, which judge each third of    *)
(* the rows by the other two.                                              *)
THEOREM DesignsHoldOut ==
  ServiceSpec => []JudgedOnUnseen
BY FreshInit, FreshNext, UnseenFact, PTL DEF ServiceSpec

(***************************************************************************)
(* Lists, and what each step of a computation leaves in place              *)
(***************************************************************************)
Base == INSTANCE ResearchIndicators

Figures == [of : SUBSET Nat, on : SUBSET Nat]
Entries == Figures \cup {None}
Lists(n) == {s \in Seq(Entries) : Len(s) = n}

LEMMA NoneIsNoFigure == None \notin Figures
  BY SeriesAssumption DEF Figures

(* Each number is of the bar d places after its own.                       *)
By(s, d) == \A i \in DOMAIN s : BesideItsBar(s[i], i + d)

(* A list with a number everywhere.                                        *)
Full(s) == \A i \in DOMAIN s : s[i] # None

LEMMA ListFacts ==
  ASSUME NEW n \in Nat, NEW s \in Lists(n)
  PROVE  /\ s \in Seq(Entries) /\ Len(s) = n /\ DOMAIN s = 1..n
         /\ \A i \in 1..n : s[i] \in Entries
BY DEF Lists

LEMMA AList ==
  ASSUME NEW n \in Nat, NEW s \in [1..n -> Entries]
  PROVE  s \in Lists(n)
<1>1. s \in Seq(Entries)
  OBVIOUS
<1> QED BY <1>1 DEF Lists

LEMMA ByOf ==
  ASSUME NEW n \in Nat, NEW s \in Lists(n), NEW d \in Int,
         \A i \in 1..n : BesideItsBar(s[i], i + d)
  PROVE  By(s, d)
BY ListFacts DEF By

LEMMA ByAt ==
  ASSUME NEW n \in Nat, NEW s \in Lists(n), NEW d \in Int, By(s, d), NEW i \in 1..n
  PROVE  BesideItsBar(s[i], i + d)
BY ListFacts DEF By

LEMMA SameCount == \A S : Base!Cardinality(S) = Cardinality(S)
  BY DEF Base!Cardinality, Cardinality

LEMMA NonesList ==
  ASSUME NEW n \in Nat
  PROVE  Base!Nones(n) \in Lists(n) /\ \A i \in 1..n : Base!Nones(n)[i] = None
<1>1. Base!Nones(n) = [i \in 1..n |-> None]
  BY DEF Base!Nones
<1> QED BY <1>1, AList DEF Entries

LEMMA ColumnList ==
  ASSUME NEW n \in Nat
  PROVE  /\ Base!Column(n) \in Lists(n)
         /\ By(Base!Column(n), 0)
         /\ \A i \in 1..n : /\ Base!Column(n)[i] = [of |-> {i}, on |-> {i}]
                            /\ Base!Column(n)[i] # None
<1> DEFINE c == Base!Column(n)
<1>1. c = [t \in 1..n |-> [of |-> {t}, on |-> {t}]]
  BY DEF Base!Column
<1> HIDE DEF c
<1>2. ASSUME NEW i \in 1..n
      PROVE  /\ c[i] = [of |-> {i}, on |-> {i}]
             /\ c[i] \in Figures
             /\ BesideItsBar(c[i], i + 0)
  <2>1. c[i] = [of |-> {i}, on |-> {i}]
    BY <1>1
  <2>2. i \in Nat /\ i # 0 /\ i + 0 = i
    OBVIOUS
  <2> QED BY <2>1, <2>2 DEF Figures, BesideItsBar
<1>3. c \in [1..n -> Entries]
  BY <1>1, <1>2 DEF Entries
<1>4. By(c, 0)
  BY <1>1, <1>2 DEF By
<1> QED BY <1>2, <1>3, <1>4, AList, NoneIsNoFigure DEF c

(* Some nones in front.                                                    *)
LEMMA Led ==
  ASSUME NEW k \in Nat, NEW m \in Nat, NEW t \in Lists(m)
  PROVE  /\ Base!Nones(k) \o t \in Lists(k + m)
         /\ \A i \in 1..k : (Base!Nones(k) \o t)[i] = None
         /\ \A i \in 1..m : (Base!Nones(k) \o t)[k + i] = t[i]
<1>1. Base!Nones(k) \in Seq(Entries) /\ Len(Base!Nones(k)) = k /\ t \in Seq(Entries) /\ Len(t) = m
  BY NonesList DEF Lists
<1>2. /\ Base!Nones(k) \o t \in Seq(Entries)
      /\ Len(Base!Nones(k) \o t) = k + m
      /\ \A i \in 1..k : (Base!Nones(k) \o t)[i] = Base!Nones(k)[i]
      /\ \A i \in 1..m : (Base!Nones(k) \o t)[k + i] = t[i]
  BY <1>1
<1> QED BY <1>2, NonesList DEF Lists

LEMMA LedBy ==
  ASSUME NEW k \in Nat, NEW m \in Nat, NEW t \in Lists(m), NEW d \in Int, By(t, k + d)
  PROVE  By(Base!Nones(k) \o t, d)
<1> DEFINE s == Base!Nones(k) \o t
<1>1. /\ s \in Lists(k + m)
      /\ \A i \in 1..k : s[i] = None
      /\ \A i \in 1..m : s[k + i] = t[i]
  BY Led
<1> HIDE DEF s
<1>2. DOMAIN s = 1..(k + m)
  BY <1>1 DEF Lists
<1>3. ASSUME NEW i \in 1..(k + m) PROVE BesideItsBar(s[i], i + d)
  <2>1. CASE i <= k
    <3>1. s[i] = None
      BY <1>1, <2>1
    <3> QED BY <3>1 DEF BesideItsBar
  <2>2. CASE i > k
    <3>1. i - k \in 1..m /\ k + (i - k) = i /\ (i - k) + (k + d) = i + d
      BY <2>2
    <3>2. s[i] = t[i - k]
      BY <1>1, <3>1
    <3>3. BesideItsBar(t[i - k], (i - k) + (k + d))
      BY <3>1, ListFacts DEF By
    <3> QED BY <3>1, <3>2, <3>3
  <2> QED BY <2>1, <2>2
<1>4. By(s, d)
  BY <1>2, <1>3 DEF By
<1> QED BY <1>4 DEF s

LEMMA SpanFacts ==
  ASSUME NEW n \in Nat, NEW s \in Lists(n), NEW a \in 1..n, NEW b \in a..n
  PROVE  /\ Base!Span(s, a, b) \in Entries
         /\ Base!Span(s, a, b) = None <=> \E i \in a..b : s[i] = None
         /\ Base!Span(s, a, b) # None =>
              /\ Base!Span(s, a, b).of = s[b].of
              /\ \A x : x \in Base!Span(s, a, b).on <=> \E i \in a..b : x \in s[i].on
<1> DEFINE vs == {s[i] : i \in a..b}
           fig == [of |-> s[b].of, on |-> UNION {v.on : v \in vs}]
<1>1. Base!Span(s, a, b) = IF None \in vs THEN None ELSE fig
  BY DEF Base!Span
<1>2. a..b \subseteq 1..n /\ b \in a..b
  OBVIOUS
<1>3. None \in vs <=> \E i \in a..b : s[i] = None
  OBVIOUS
<1>4. ASSUME None \notin vs PROVE fig \in Figures
  <2>1. \A i \in a..b : s[i] \in Figures
    BY <1>2, <1>4, ListFacts DEF Entries
  <2>2. \A v \in vs : v.on \in SUBSET Nat
    BY <2>1 DEF Figures
  <2>3. s[b].of \in SUBSET Nat
    BY <2>1, <1>2 DEF Figures
  <2> QED BY <2>2, <2>3 DEF Figures
<1>5. \A x : x \in fig.on <=> \E i \in a..b : x \in s[i].on
  OBVIOUS
<1>6. fig.of = s[b].of
  OBVIOUS
<1> HIDE DEF fig, vs
<1> QED BY <1>1, <1>3, <1>4, <1>5, <1>6, NoneIsNoFigure DEF Entries

LEMMA SpanPart ==
  ASSUME NEW n \in Nat, NEW s \in Lists(n), NEW d \in Int,
         NEW a \in 1..n, NEW b \in a..n, \A i \in a..b : BesideItsBar(s[i], i + d)
  PROVE  BesideItsBar(Base!Span(s, a, b), b + d)
BY SpanFacts DEF BesideItsBar

LEMMA SpanBeside ==
  ASSUME NEW n \in Nat, NEW s \in Lists(n), NEW d \in Int, By(s, d),
         NEW a \in 1..n, NEW b \in a..n
  PROVE  BesideItsBar(Base!Span(s, a, b), b + d)
<1>1. \A i \in a..b : BesideItsBar(s[i], i + d)
  BY ListFacts DEF By
<1> QED BY <1>1, SpanPart

LEMMA JointFacts ==
  ASSUME NEW vs \in SUBSET Entries
  PROVE  /\ Base!Joint(vs) \in Entries
         /\ Base!Joint(vs) = None <=> None \in vs
         /\ Base!Joint(vs) # None =>
              /\ \A x : x \in Base!Joint(vs).of <=> \E v \in vs : x \in v.of
              /\ \A x : x \in Base!Joint(vs).on <=> \E v \in vs : x \in v.on
<1> DEFINE fig == [of |-> UNION {v.of : v \in vs}, on |-> UNION {v.on : v \in vs}]
<1>1. Base!Joint(vs) = IF None \in vs THEN None ELSE fig
  BY DEF Base!Joint
<1>2. ASSUME None \notin vs PROVE fig \in Figures
  <2>1. \A v \in vs : v.of \in SUBSET Nat /\ v.on \in SUBSET Nat
    BY <1>2 DEF Entries, Figures
  <2> QED BY <2>1 DEF Figures
<1>3. /\ \A x : x \in fig.of <=> \E v \in vs : x \in v.of
      /\ \A x : x \in fig.on <=> \E v \in vs : x \in v.on
  OBVIOUS
<1> HIDE DEF fig
<1> QED BY <1>1, <1>2, <1>3, NoneIsNoFigure DEF Entries

LEMMA JointBeside ==
  ASSUME NEW vs \in SUBSET Entries, vs # {}, NEW b, \A v \in vs : BesideItsBar(v, b)
  PROVE  BesideItsBar(Base!Joint(vs), b)
<1> SUFFICES ASSUME Base!Joint(vs) # None PROVE BesideItsBar(Base!Joint(vs), b)
  BY DEF BesideItsBar
<1> DEFINE j == Base!Joint(vs)
<1>1. \A v \in vs : v.of = {b} /\ 0 \notin v.on
  BY JointFacts DEF BesideItsBar
<1>2. /\ \A x : x \in j.of <=> \E v \in vs : x \in v.of
      /\ \A x : x \in j.on <=> \E v \in vs : x \in v.on
      /\ j \in Figures
  BY JointFacts DEF Entries
<1> HIDE DEF j
<1>3. \A x : x \in j.of <=> x = b
  BY <1>1, <1>2
<1>4. j.of = {b}
  BY <1>3
<1>5. 0 \notin j.on
  BY <1>1, <1>2
<1> QED BY <1>4, <1>5 DEF BesideItsBar, j

LEMMA LessOfTwo ==
  ASSUME NEW n \in Nat, NEW m \in Nat
  PROVE  Base!Min({n, m}) = IF n <= m THEN n ELSE m
<1>1. Base!Min({n, m}) = CHOOSE x \in {n, m} : \A y \in {n, m} : x <= y
  BY DEF Base!Min
<1>2. CASE n <= m
  BY <1>1, <1>2
<1>3. CASE m < n
  BY <1>1, <1>3
<1> QED BY <1>2, <1>3

LEMMA ZipList ==
  ASSUME NEW n \in Nat, NEW s \in Lists(n), NEW m \in Nat, NEW r \in Lists(m),
         NEW k \in Nat, k <= n, k <= m, k = n \/ k = m
  PROVE  /\ Base!Zip(s, r) \in Lists(k)
         /\ \A i \in 1..k : /\ Base!Zip(s, r)[i] = Base!Joint({s[i], r[i]})
                            /\ Base!Zip(s, r)[i] = None <=> s[i] = None \/ r[i] = None
<1> DEFINE zip == Base!Zip(s, r)
<1>1. Len(s) = n /\ Len(r) = m /\ Base!Min({n, m}) = k
  BY LessOfTwo DEF Lists
<1>2. zip = [i \in 1..(IF k < 1 THEN 0 ELSE k - 1 + 1) |->
               Base!Joint({s[1 + i - 1], r[1 + i - 1]})]
  BY <1>1 DEF Base!Zip, Base!Each
<1> HIDE DEF zip
<1>3. (IF k < 1 THEN 0 ELSE k - 1 + 1) = k /\ \A i \in 1..k : 1 + i - 1 = i
  OBVIOUS
<1>4. zip = [i \in 1..k |-> Base!Joint({s[i], r[i]})]
  BY <1>2, <1>3
<1>5. ASSUME NEW i \in 1..k
      PROVE  /\ Base!Joint({s[i], r[i]}) \in Entries
             /\ Base!Joint({s[i], r[i]}) = None <=> s[i] = None \/ r[i] = None
  <2>1. s[i] \in Entries /\ r[i] \in Entries
    BY ListFacts
  <2> QED BY <2>1, JointFacts
<1>6. zip \in Lists(k)
  BY <1>4, <1>5, AList
<1>7. \A i \in 1..k : zip[i] = Base!Joint({s[i], r[i]})
  BY <1>4
<1>8. \A i \in 1..k : /\ zip[i] = Base!Joint({s[i], r[i]})
                      /\ zip[i] = None <=> s[i] = None \/ r[i] = None
  BY <1>5, <1>7
<1> QED BY <1>6, <1>8 DEF zip

NoneWithEither(z, s, r, n) == \A i \in 1..n : z[i] = None <=> s[i] = None \/ r[i] = None

LEMMA ZipEven ==
  ASSUME NEW n \in Nat, NEW s \in Lists(n), NEW r \in Lists(n)
  PROVE  /\ Base!Zip(s, r) \in Lists(n)
         /\ \A i \in 1..n : /\ Base!Zip(s, r)[i] = Base!Joint({s[i], r[i]})
                            /\ Base!Zip(s, r)[i] = None <=> s[i] = None \/ r[i] = None
<1>1. Base!Zip(s, r) \in Lists(n)
  BY ZipList
<1>2. \A i \in 1..n : Base!Zip(s, r)[i] = Base!Joint({s[i], r[i]})
  BY ZipList
<1>3. ASSUME NEW i \in 1..n
      PROVE  Base!Joint({s[i], r[i]}) = None <=> s[i] = None \/ r[i] = None
  BY ListFacts, JointFacts
<1> QED BY <1>1, <1>2, <1>3

LEMMA ZipNones ==
  ASSUME NEW n \in Nat, NEW s \in Lists(n), NEW r \in Lists(n)
  PROVE  NoneWithEither(Base!Zip(s, r), s, r, n)
BY ZipEven DEF NoneWithEither

LEMMA ZipBy ==
  ASSUME NEW n \in Nat, NEW s \in Lists(n), NEW r \in Lists(n), NEW d \in Int,
         By(s, d), By(r, d)
  PROVE  /\ Base!Zip(s, r) \in Lists(n)
         /\ By(Base!Zip(s, r), d)
<1>1. /\ Base!Zip(s, r) \in Lists(n)
      /\ \A i \in 1..n : Base!Zip(s, r)[i] = Base!Joint({s[i], r[i]})
  BY ZipList
<1>2. ASSUME NEW i \in 1..n PROVE BesideItsBar(Base!Joint({s[i], r[i]}), i + d)
  <2>1. s[i] \in Entries /\ r[i] \in Entries
    BY ListFacts
  <2>2. BesideItsBar(s[i], i + d) /\ BesideItsBar(r[i], i + d)
    BY ListFacts DEF By
  <2> QED BY <2>1, <2>2, JointBeside
<1> QED BY <1>1, <1>2, ByOf

LEMMA ChangesList ==
  ASSUME NEW n \in Nat, NEW s \in Lists(n), NEW m \in Nat, m = IF n = 0 THEN 0 ELSE n - 1
  PROVE  /\ Base!Changes(s) \in Lists(m)
         /\ \A i \in 1..m : /\ Base!Changes(s)[i] = Base!Span(s, i, i + 1)
                            /\ Base!Changes(s)[i] = None <=> s[i] = None \/ s[i + 1] = None
<1> DEFINE list == Base!Changes(s)
<1>1. Len(s) = n
  BY DEF Lists
<1>2. list = [i \in 1..(IF n < 2 THEN 0 ELSE n - 2 + 1) |->
                Base!Span(s, 2 + i - 1 - 1, 2 + i - 1)]
  BY <1>1 DEF Base!Changes, Base!Each
<1> HIDE DEF list
<1>3. (IF n < 2 THEN 0 ELSE n - 2 + 1) = m
      /\ \A i \in 1..m : 2 + i - 1 - 1 = i /\ 2 + i - 1 = i + 1
  OBVIOUS
<1>4. list = [i \in 1..m |-> Base!Span(s, i, i + 1)]
  BY <1>2, <1>3
<1>5. ASSUME NEW i \in 1..m
      PROVE  /\ Base!Span(s, i, i + 1) \in Entries
             /\ Base!Span(s, i, i + 1) = None <=> s[i] = None \/ s[i + 1] = None
  <2>1. i \in 1..n /\ i + 1 \in i..n /\ i..(i + 1) = {i, i + 1}
    OBVIOUS
  <2> QED BY <2>1, SpanFacts
<1>6. list \in Lists(m)
  BY <1>4, <1>5, AList
<1> QED BY <1>4, <1>5, <1>6 DEF list

LEMMA ChangesBy ==
  ASSUME NEW n \in Nat, NEW s \in Lists(n), NEW d \in Int, By(s, d),
         NEW m \in Nat, m = IF n = 0 THEN 0 ELSE n - 1
  PROVE  By(Base!Changes(s), d + 1)
<1>1. /\ Base!Changes(s) \in Lists(m)
      /\ \A i \in 1..m : Base!Changes(s)[i] = Base!Span(s, i, i + 1)
  BY ChangesList
<1>2. ASSUME NEW i \in 1..m PROVE BesideItsBar(Base!Span(s, i, i + 1), i + (d + 1))
  <2>1. i \in 1..n /\ i + 1 \in i..n /\ (i + 1) + d = i + (d + 1)
    OBVIOUS
  <2>2. BesideItsBar(Base!Span(s, i, i + 1), (i + 1) + d)
    BY <2>1, SpanBeside
  <2> QED BY <2>1, <2>2
<1> QED BY <1>1, <1>2, ByOf

(* The numbers that are there, where only the first ones are not.          *)
LEMMA KnownList ==
  ASSUME NEW n \in Nat, NEW s \in Lists(n), NEW k \in 0..n,
         \A i \in 1..k : s[i] = None, \A i \in (k + 1)..n : s[i] # None
  PROVE  /\ Base!Known(s) \in Lists(n - k)
         /\ \A i \in 1..(n - k) : Base!Known(s)[i] = s[k + i]
<1> DEFINE there == {i \in DOMAIN s : s[i] # None}
           known == Base!Known(s)
           place(p) == CHOOSE i \in there : Base!Cardinality({j \in there : j <= i}) = p
<1>1. there = (k + 1)..n
  BY ListFacts
<1>2. Base!Cardinality(there) = n - k
  <2>1. Cardinality((k + 1)..n) = n - k
    <3>1. k \in Int /\ n \in Int /\ k + 1 \in Int /\ k <= n
      OBVIOUS
    <3>2. Cardinality((k + 1)..n) = IF k + 1 > n THEN 0 ELSE n - (k + 1) + 1
      BY <3>1, FS_Interval
    <3> QED BY <3>1, <3>2
  <2> QED BY <1>1, <2>1, SameCount
<1>3. ASSUME NEW i \in (k + 1)..n
      PROVE  Base!Cardinality({j \in there : j <= i}) = i - k
  <2>1. {j \in there : j <= i} = (k + 1)..i
    BY <1>1
  <2>2. Cardinality((k + 1)..i) = i - k
    BY FS_Interval
  <2> QED BY <2>1, <2>2, SameCount
<1>4. known = [p \in 1..Base!Cardinality(there) |-> s[place(p)]]
  BY DEF Base!Known
<1> HIDE DEF there, known
<1>5. ASSUME NEW p \in 1..(n - k) PROVE place(p) = k + p
  <2>1. k + p \in there /\ Base!Cardinality({j \in there : j <= k + p}) = p
    BY <1>1, <1>3
  <2>2. \A i \in there : Base!Cardinality({j \in there : j <= i}) = p => i = k + p
    BY <1>1, <1>3
  <2> QED BY <2>1, <2>2
<1>6. known = [p \in 1..(n - k) |-> s[k + p]]
  <2> HIDE DEF place
  <2>1. known = [p \in 1..(n - k) |-> s[place(p)]]
    BY <1>2, <1>4
  <2> QED BY <1>5, <2>1
<1>7. \A p \in 1..(n - k) : s[k + p] \in Entries
  BY ListFacts
<1>8. known \in Lists(n - k)
  BY <1>6, <1>7, AList
<1> QED BY <1>6, <1>8 DEF known

LEMMA RollingList ==
  ASSUME NEW n \in Nat, NEW s \in Lists(n), NEW w \in Nat \ {0}
  PROVE  /\ Base!Rolling(s, w) \in Lists(n)
         /\ \A i \in 1..n :
              Base!Rolling(s, w)[i] = IF i < w THEN None ELSE Base!Span(s, i - w + 1, i)
<1> DEFINE list == Base!Rolling(s, w)
           Entry(i) == IF i < w THEN None ELSE Base!Span(s, i - w + 1, i)
<1>1. Len(s) = n
  BY DEF Lists
<1>2. list = [i \in 1..(IF n < 1 THEN 0 ELSE n - 1 + 1) |-> Entry(1 + i - 1)]
  BY <1>1 DEF Base!Rolling, Base!Pick, Base!Each
<1>3. ASSUME NEW i \in 1..n PROVE Entry(i) \in Entries
  <2>1. CASE i < w
    BY <2>1 DEF Entries
  <2>2. CASE i >= w
    <3>1. i - w + 1 \in 1..n /\ i \in (i - w + 1)..n
      BY <2>2
    <3> QED BY <2>2, <3>1, SpanFacts
  <2> QED BY <2>1, <2>2
<1> HIDE DEF list, Entry
<1>4. (IF n < 1 THEN 0 ELSE n - 1 + 1) = n /\ \A i \in 1..n : 1 + i - 1 = i
  OBVIOUS
<1>5. list = [i \in 1..n |-> Entry(i)]
  BY <1>2, <1>4
<1>6. list \in Lists(n)
  BY <1>3, <1>5, AList
<1> QED BY <1>5, <1>6 DEF list, Entry

LEMMA RollingBy ==
  ASSUME NEW n \in Nat, NEW s \in Lists(n), NEW w \in Nat \ {0}, NEW d \in Int, By(s, d)
  PROVE  By(Base!Rolling(s, w), d)
<1>1. ASSUME NEW i \in 1..n PROVE BesideItsBar(Base!Rolling(s, w)[i], i + d)
  <2>1. CASE i < w
    BY <2>1, RollingList DEF BesideItsBar
  <2>2. CASE i >= w
    <3>1. i - w + 1 \in 1..n /\ i \in (i - w + 1)..n
      BY <2>2
    <3> QED BY <2>2, <3>1, RollingList, SpanBeside
  <2> QED BY <2>1, <2>2
<1>2. Base!Rolling(s, w) \in Lists(n)
  BY RollingList
<1> QED BY <1>1, <1>2, ByOf

LEMMA BlankList ==
  ASSUME NEW n \in Nat, NEW s \in Lists(n), NEW k \in Int
  PROVE  /\ Base!Blank(s, k) \in Lists(n)
         /\ \A i \in 1..n : Base!Blank(s, k)[i] = IF i <= k THEN None ELSE s[i]
<1> DEFINE list == Base!Blank(s, k)
           Entry(i) == IF i <= k THEN None ELSE s[i]
<1>1. Len(s) = n
  BY DEF Lists
<1>2. list = [i \in 1..(IF n < 1 THEN 0 ELSE n - 1 + 1) |-> Entry(1 + i - 1)]
  BY <1>1 DEF Base!Blank, Base!Pick, Base!Each
<1>3. \A i \in 1..n : Entry(i) \in Entries
  BY ListFacts DEF Entries
<1> HIDE DEF list, Entry
<1>4. (IF n < 1 THEN 0 ELSE n - 1 + 1) = n /\ \A i \in 1..n : 1 + i - 1 = i
  OBVIOUS
<1>5. list = [i \in 1..n |-> Entry(i)]
  BY <1>2, <1>4
<1>6. list \in Lists(n)
  BY <1>3, <1>5, AList
<1> QED BY <1>5, <1>6 DEF list, Entry

LEMMA BlankBy ==
  ASSUME NEW n \in Nat, NEW s \in Lists(n), NEW k \in Int, NEW d \in Int, By(s, d)
  PROVE  By(Base!Blank(s, k), d)
<1>1. ASSUME NEW i \in 1..n PROVE BesideItsBar(Base!Blank(s, k)[i], i + d)
  <2>1. CASE i <= k
    BY <2>1, BlankList DEF BesideItsBar
  <2>2. CASE ~(i <= k)
    <3>1. Base!Blank(s, k)[i] = s[i]
      BY <2>2, BlankList
    <3> QED BY <3>1, ByAt
  <2> QED BY <2>1, <2>2
<1> QED BY <1>1, BlankList, ByOf

LEMMA EwmList ==
  ASSUME NEW n \in Nat, NEW s \in Lists(n)
  PROVE  /\ Base!Ewm(s) \in Lists(n)
         /\ \A i \in 1..n : Base!Ewm(s)[i] # None =>
              \E m \in 1..i : Base!Ewm(s)[i] = Base!Span(s, m, i)
         /\ \A i \in 1..n : s[1] # None => Base!Ewm(s)[i] = Base!Span(s, 1, i)
<1> DEFINE list == Base!Ewm(s)
           there == {i \in 1..Len(s) : s[i] # None}
           Entry(i) == IF there \cap (1..i) = {} THEN None
                       ELSE Base!Span(s, Base!Min(there), i)
<1>1. Len(s) = n
  BY DEF Lists
<1>2. list = [i \in 1..(IF n < 1 THEN 0 ELSE n - 1 + 1) |-> Entry(1 + i - 1)]
  BY <1>1 DEF Base!Ewm, Base!Pick, Base!Each
<1>3. there \in SUBSET (1..n) /\ there \in SUBSET (0..n)
  BY <1>1
<1>4. s[1] # None /\ n > 0 => 1 \in there
  BY <1>1
<1>5. Base!Min(there) = Least(there)
  BY DEF Base!Min, Least
<1> HIDE DEF list, there
<1>6. ASSUME NEW i \in 1..n, there \cap (1..i) # {}
      PROVE  Base!Min(there) \in 1..i /\ Base!Span(s, Base!Min(there), i) \in Entries
  <2>1. Least(there) \in there /\ \A y \in there : Least(there) <= y
    BY <1>3, <1>6, LeastExists
  <2>2. Least(there) \in 1..i
    <3>1. PICK y \in there : y \in 1..i
      BY <1>6
    <3>2. Least(there) <= y /\ Least(there) \in 1..n
      BY <1>3, <2>1
    <3> QED BY <3>1, <3>2
  <2>3. Least(there) \in 1..n /\ i \in Least(there)..n
    BY <2>2
  <2> QED BY <1>5, <2>2, <2>3, SpanFacts
<1>7. ASSUME NEW i \in 1..n PROVE Entry(i) \in Entries
  <2>1. CASE there \cap (1..i) = {}
    BY <2>1 DEF Entries
  <2>2. CASE there \cap (1..i) # {}
    BY <1>6, <2>2
  <2> QED BY <2>1, <2>2
<1>8. ASSUME NEW i \in 1..n, s[1] # None PROVE Entry(i) = Base!Span(s, 1, i)
  <2>1. 1 \in there /\ 1 \in 1..i
    BY <1>4, <1>8
  <2>2. \A y \in there : Least(there) <= y
    BY <1>3, <2>1, LeastExists
  <2>3. Least(there) \in 1..n
    BY <1>3, <2>1, LeastExists
  <2>4. Least(there) = 1
    BY <2>1, <2>2, <2>3
  <2> QED BY <1>5, <2>1, <2>4
<1>9. \A i \in 1..n : Entry(i) # None => \E m \in 1..i : Entry(i) = Base!Span(s, m, i)
  BY <1>6
<1> HIDE DEF Entry
<1>10. list = [i \in 1..n |-> Entry(i)]
  <2>1. (IF n < 1 THEN 0 ELSE n - 1 + 1) = n /\ \A i \in 1..n : 1 + i - 1 = i
    OBVIOUS
  <2> QED BY <1>2, <2>1
<1>11. list \in Lists(n)
  BY <1>7, <1>10, AList
<1> QED BY <1>8, <1>9, <1>10, <1>11 DEF list

LEMMA EwmBy ==
  ASSUME NEW n \in Nat, NEW s \in Lists(n), NEW d \in Int, By(s, d)
  PROVE  By(Base!Ewm(s), d)
<1>1. ASSUME NEW i \in 1..n PROVE BesideItsBar(Base!Ewm(s)[i], i + d)
  <2>1. CASE Base!Ewm(s)[i] = None
    BY <2>1 DEF BesideItsBar
  <2>2. CASE Base!Ewm(s)[i] # None
    <3>1. PICK m \in 1..i : Base!Ewm(s)[i] = Base!Span(s, m, i)
      BY <2>2, EwmList
    <3>2. m \in 1..n /\ i \in m..n
      OBVIOUS
    <3> QED BY <3>1, <3>2, SpanBeside
  <2> QED BY <2>1, <2>2
<1> QED BY <1>1, EwmList, ByOf

LEMMA ZerosList ==
  ASSUME NEW n \in Nat, NEW s \in Lists(n), NEW k \in Int
  PROVE  /\ Base!Zeros(s, k) \in Lists(n)
         /\ \A i \in 1..n : Base!Zeros(s, k)[i] = IF i <= k THEN Base!Zero ELSE s[i]
<1> DEFINE list == Base!Zeros(s, k)
           Entry(i) == IF i <= k THEN Base!Zero ELSE s[i]
<1>1. Len(s) = n
  BY DEF Lists
<1>2. list = [i \in 1..(IF n < 1 THEN 0 ELSE n - 1 + 1) |-> Entry(1 + i - 1)]
  BY <1>1 DEF Base!Zeros, Base!Pick, Base!Each
<1>3. Base!Zero \in Entries
  BY DEF Base!Zero, Entries, Figures
<1>4. \A i \in 1..n : Entry(i) \in Entries
  BY <1>3, ListFacts
<1> HIDE DEF list, Entry
<1>5. (IF n < 1 THEN 0 ELSE n - 1 + 1) = n /\ \A i \in 1..n : 1 + i - 1 = i
  OBVIOUS
<1>6. list = [i \in 1..n |-> Entry(i)]
  BY <1>2, <1>5
<1>7. list \in Lists(n)
  BY <1>4, <1>6, AList
<1> QED BY <1>6, <1>7 DEF list, Entry

(* One entry in front of the changes.                                      *)
LEMMA AheadList ==
  ASSUME NEW n \in Nat, NEW v \in Entries, NEW t \in Lists(n)
  PROVE  /\ <<v>> \o t \in Lists(n + 1)
         /\ (<<v>> \o t)[1] = v
         /\ \A i \in 1..n : (<<v>> \o t)[i + 1] = t[i]
<1>1. <<v>> \in Seq(Entries) /\ Len(<<v>>) = 1 /\ t \in Seq(Entries) /\ Len(t) = n
  BY DEF Lists
<1>2. <<v>>[1] = v
  OBVIOUS
<1> DEFINE one == <<v>>
           list == one \o t
<1> HIDE DEF one
<1>3. list \in Seq(Entries) /\ Len(list) = 1 + n
  BY <1>1 DEF one
<1>4. list[1] = one[1]
  BY <1>1 DEF one
<1>5. \A i \in 1..n : list[1 + i] = t[i]
  BY <1>1 DEF one
<1>6. 1 + n = n + 1 /\ \A i \in 1..n : 1 + i = i + 1
  OBVIOUS
<1> QED BY <1>2, <1>3, <1>4, <1>5, <1>6 DEF Lists, one

LEMMA AheadBy ==
  ASSUME NEW n \in Nat, NEW v \in Entries, NEW t \in Lists(n),
         BesideItsBar(v, 1), By(t, 1)
  PROVE  By(<<v>> \o t, 0)
<1> DEFINE list == <<v>> \o t
<1>1. list \in Lists(n + 1) /\ list[1] = v /\ \A i \in 1..n : list[i + 1] = t[i]
  BY AheadList
<1> HIDE DEF list
<1>2. ASSUME NEW i \in 1..(n + 1) PROVE BesideItsBar(list[i], i + 0)
  <2>1. CASE i = 1
    BY <1>1, <2>1
  <2>2. CASE i # 1
    <3>1. i - 1 \in 1..n /\ (i - 1) + 1 = i /\ i + 0 = i
      BY <2>2
    <3>2. list[i] = t[i - 1]
      BY <1>1, <3>1
    <3> QED BY <3>1, <3>2, ByAt
  <2> QED BY <2>1, <2>2
<1>3. By(list, 0)
  BY <1>1, <1>2, ByOf
<1> QED BY <1>3 DEF list

(***************************************************************************)
(* Layer 0's indicators and System 1's features stand beside their bars    *)
(***************************************************************************)
(* A list of n numbers, each beside its bar.                               *)
InPlace(s, n) == s \in Lists(n) /\ By(s, 0)

LEMMA ColumnInPlace == ASSUME NEW n \in Nat PROVE InPlace(Base!Column(n), n)
  BY ColumnList DEF InPlace

LEMMA InPlaceKept ==
  ASSUME NEW n \in Nat, NEW s, NEW r, InPlace(s, n), InPlace(r, n), NEW w \in Nat \ {0},
         NEW k \in Int
  PROVE  /\ InPlace(Base!Zip(s, r), n)
         /\ InPlace(Base!Rolling(s, w), n)
         /\ InPlace(Base!Ewm(s), n)
         /\ InPlace(Base!Blank(s, k), n)
<1> USE DEF InPlace
<1>1. InPlace(Base!Zip(s, r), n)
  BY ZipBy
<1>2. InPlace(Base!Rolling(s, w), n)
  BY RollingList, RollingBy
<1>3. InPlace(Base!Ewm(s), n)
  BY EwmList, EwmBy
<1>4. InPlace(Base!Blank(s, k), n)
  BY BlankList, BlankBy
<1> QED BY <1>1, <1>2, <1>3, <1>4

LEMMA ColumnChanges ==
  ASSUME NEW n \in Nat \ {0}
  PROVE  /\ Base!Changes(Base!Column(n)) \in Lists(n - 1)
         /\ By(Base!Changes(Base!Column(n)), 1)
         /\ \A i \in 1..(n - 1) : Base!Changes(Base!Column(n))[i] # None
<1>1. n \in Nat /\ n - 1 \in Nat /\ n - 1 = (IF n = 0 THEN 0 ELSE n - 1)
  OBVIOUS
<1>2. Base!Column(n) \in Lists(n) /\ By(Base!Column(n), 0)
  BY <1>1, ColumnList
<1> DEFINE c == Base!Column(n)
<1>3. \A i \in 1..n : c[i] # None
  BY <1>1, ColumnList
<1> HIDE DEF c
<1>4. /\ Base!Changes(c) \in Lists(n - 1)
      /\ \A i \in 1..(n - 1) : Base!Changes(c)[i] = None <=> c[i] = None \/ c[i + 1] = None
  BY <1>1, <1>2, ChangesList DEF c
<1>5. By(Base!Changes(c), 0 + 1)
  BY <1>1, <1>2, ChangesBy DEF c
<1>6. \A i \in 1..(n - 1) : Base!Changes(c)[i] # None
  <2>1. \A i \in 1..(n - 1) : i \in 1..n /\ i + 1 \in 1..n
    OBVIOUS
  <2> QED BY <1>3, <1>4, <2>1
<1> QED BY <1>4, <1>5, <1>6 DEF c

LEMMA DiffInPlace ==
  ASSUME NEW n \in Nat \ {0}
  PROVE  /\ InPlace(Base!Diff(n), n)
         /\ Base!Diff(n)[1] = None
<1>1. None \in Entries /\ BesideItsBar(None, 1)
  BY DEF Entries, BesideItsBar
<1>2. n - 1 \in Nat /\ (n - 1) + 1 = n
  OBVIOUS
<1> DEFINE t == Base!Changes(Base!Column(n))
<1>3. t \in Lists(n - 1) /\ By(t, 1)
  BY ColumnChanges
<1>4. Base!Diff(n) = <<None>> \o t
  BY DEF Base!Diff
<1> HIDE DEF t
<1>5. /\ <<None>> \o t \in Lists((n - 1) + 1)
      /\ (<<None>> \o t)[1] = None
  BY <1>1, <1>2, <1>3, AheadList
<1>6. By(<<None>> \o t, 0)
  BY <1>1, <1>2, <1>3, AheadBy
<1> QED BY <1>2, <1>4, <1>5, <1>6 DEF InPlace

LEMMA TrueRangeInPlace ==
  ASSUME NEW n \in Nat \ {0}
  PROVE  InPlace(Base!TrueRange(n), n)
<1> DEFINE v == Base!Column(n)[1]
           t == Base!Changes(Base!Column(n))
<1>1. v \in Entries /\ BesideItsBar(v, 1)
  <2>1. n \in Nat /\ 1 \in 1..n /\ 1 + 0 = 1
    OBVIOUS
  <2>2. Base!Column(n) \in Lists(n) /\ By(Base!Column(n), 0)
    BY <2>1, ColumnList
  <2> QED BY <2>1, <2>2, ListFacts, ByAt
<1>2. n - 1 \in Nat /\ (n - 1) + 1 = n
  OBVIOUS
<1>3. t \in Lists(n - 1) /\ By(t, 1)
  BY ColumnChanges
<1>4. Base!TrueRange(n) = <<v>> \o t
  BY DEF Base!TrueRange
<1> HIDE DEF t, v
<1>5. <<v>> \o t \in Lists((n - 1) + 1)
  BY <1>1, <1>2, <1>3, AheadList
<1>6. By(<<v>> \o t, 0)
  BY <1>1, <1>2, <1>3, AheadBy
<1> QED BY <1>2, <1>4, <1>5, <1>6 DEF InPlace

LEMMA AtrAdxInPlace ==
  ASSUME NEW n \in Nat \ {0}
  PROVE  InPlace(Base!Atr(n), n) /\ InPlace(Base!Adx(n), n)
<1>1. InPlace(Base!TrueRange(n), n) /\ InPlace(Base!Diff(n), n) /\ n \in Nat
  BY TrueRangeInPlace, DiffInPlace
<1>2. InPlace(Base!Atr(n), n)
  BY <1>1, InPlaceKept DEF Base!Atr
<1>3. InPlace(Base!Ewm(Base!Diff(n)), n)
  BY <1>1, InPlaceKept
<1>4. InPlace(Base!Zip(Base!Ewm(Base!Diff(n)), Base!Atr(n)), n)
  BY <1>1, <1>2, <1>3, InPlaceKept
<1> QED BY <1>1, <1>2, <1>4, InPlaceKept DEF Base!Adx

LEMMA ResearchBase ==
  /\ \A n : Research!Column(n) = Base!Column(n)
  /\ \A s, r : Research!Zip(s, r) = Base!Zip(s, r)
  /\ \A s : Research!Changes(s) = Base!Changes(s)
  /\ \A s, w : Research!Rolling(s, w) = Base!Rolling(s, w)
  /\ \A s : Research!Ewm(s) = Base!Ewm(s)
  /\ \A s, k : Research!Blank(s, k) = Base!Blank(s, k)
  /\ \A n : Research!Diff(n) = Base!Diff(n)
  /\ \A n : Research!TrueRange(n) = Base!TrueRange(n)
  /\ \A n : Research!Atr(n) = Base!Atr(n)
  /\ \A n : Research!Adx(n) = Base!Adx(n)
<1>1. \A n : Research!Column(n) = Base!Column(n)
  BY DEF Research!Column, Base!Column
<1>2. \A s, r : Research!Zip(s, r) = Base!Zip(s, r)
  BY DEF Research!Zip, Base!Zip, Research!Each, Base!Each, Research!Min,
         Base!Min, Research!Joint, Base!Joint
<1>3. \A s : Research!Changes(s) = Base!Changes(s)
  BY DEF Research!Changes, Base!Changes, Research!Each, Base!Each,
         Research!Span, Base!Span
<1>4. \A s, w : Research!Rolling(s, w) = Base!Rolling(s, w)
  BY DEF Research!Rolling, Base!Rolling, Research!Pick, Base!Pick,
         Research!Each, Base!Each, Research!Span, Base!Span
<1>5. \A s : Research!Ewm(s) = Base!Ewm(s)
  BY DEF Research!Ewm, Base!Ewm, Research!Pick, Base!Pick, Research!Each,
         Base!Each, Research!Span, Base!Span, Research!Min, Base!Min
<1>6. \A s, k : Research!Blank(s, k) = Base!Blank(s, k)
  BY DEF Research!Blank, Base!Blank, Research!Pick, Base!Pick,
         Research!Each, Base!Each
<1>7. \A n : Research!Diff(n) = Base!Diff(n)
  BY DEF Research!Diff, Base!Diff, Research!Column, Base!Column,
         Research!Changes, Base!Changes, Research!Each, Base!Each,
         Research!Span, Base!Span
<1>8. \A n : Research!TrueRange(n) = Base!TrueRange(n)
  BY DEF Research!TrueRange, Base!TrueRange, Research!Column, Base!Column,
         Research!Changes, Base!Changes, Research!Each, Base!Each,
         Research!Span, Base!Span
<1>9. \A n : Research!Atr(n) = Base!Atr(n)
  BY <1>5, <1>8 DEF Research!Atr, Base!Atr
<1>10. \A n : Research!Adx(n) = Base!Adx(n)
  BY <1>5, <1>2, <1>7, <1>9 DEF Research!Adx, Base!Adx
<1> QED BY <1>1, <1>2, <1>3, <1>4, <1>5, <1>6, <1>7, <1>8, <1>9, <1>10

LEMMA AllInPlace ==
  ASSUME NEW n \in Nat, NEW lists, \A f \in DOMAIN lists : By(lists[f], 0)
  PROVE  BesideTheirBars(lists, n)
<1>1. ASSUME NEW f \in DOMAIN lists, NEW i \in (1..n) \cap DOMAIN lists[f]
      PROVE  BesideItsBar(lists[f][i], i)
  <2>1. i + 0 = i
    OBVIOUS
  <2> QED BY <2>1 DEF By
<1> QED BY <1>1 DEF BesideTheirBars

LEMMA FeaturesInPlace ==
  ASSUME NEW n \in Nat \ {0}, NEW p \in Nat \ {0}, NEW q \in Nat \ {0},
         NEW f \in DOMAIN Base!ComputeFeatures(n, p, q)
  PROVE  InPlace(Base!ComputeFeatures(n, p, q)[f], n)
<1>1. n \in Nat /\ p - 1 \in Int /\ 2 * p - 1 \in Int
  OBVIOUS
<1>2. /\ InPlace(Base!Diff(n), n) /\ InPlace(Base!Column(n), n)
      /\ InPlace(Base!Atr(n), n) /\ InPlace(Base!Adx(n), n)
  BY <1>1, DiffInPlace, ColumnInPlace, AtrAdxInPlace
<1>3. InPlace(Base!Blank(Base!Atr(n), p - 1), n)
  BY <1>1, <1>2, InPlaceKept
<1>4. InPlace(Base!Blank(Base!Adx(n), 2 * p - 1), n)
  BY <1>1, <1>2, InPlaceKept
<1>5. InPlace(Base!Rolling(Base!Column(n), q), n)
  BY <1>1, <1>2, InPlaceKept
<1>6. InPlace(Base!Zip(Base!Column(n), Base!Rolling(Base!Column(n), q)), n)
  BY <1>1, <1>2, <1>5, InPlaceKept
<1>7. InPlace(Base!Rolling(Base!Diff(n), q), n)
  BY <1>1, <1>2, InPlaceKept
<1> QED BY <1>2, <1>3, <1>4, <1>6, <1>7 DEF Base!ComputeFeatures

LEMMA ResearchFeatures ==
  ASSUME NEW n, NEW p, NEW q
  PROVE  Research!ComputeFeatures(n, p, q) = Base!ComputeFeatures(n, p, q)
BY ResearchBase DEF Research!ComputeFeatures, Base!ComputeFeatures

LEMMA MacdInPlace ==
  ASSUME NEW n \in Nat \ {0}, NEW f \in DOMAIN Research!Macd(n)
  PROVE  InPlace(Research!Macd(n)[f], n)
<1> DEFINE e == Base!Ewm(Base!Column(n))
           line == Base!Zip(e, e)
<1>0. n \in Nat
  OBVIOUS
<1>1. InPlace(Base!Column(n), n)
  BY <1>0, ColumnInPlace
<1>2. InPlace(e, n)
  BY <1>0, <1>1, InPlaceKept
<1>3. InPlace(line, n)
  BY <1>0, <1>2, InPlaceKept
<1>4. InPlace(Base!Ewm(line), n)
  BY <1>0, <1>3, InPlaceKept
<1>5. InPlace(Base!Zip(line, Base!Ewm(line)), n)
  BY <1>0, <1>3, <1>4, InPlaceKept
<1>6. Research!Macd(n) = [macd |-> line, signal |-> Base!Ewm(line),
                          histogram |-> Base!Zip(line, Base!Ewm(line))]
  BY ResearchBase DEF Research!Macd, Research!Ema
<1> HIDE DEF line
<1> QED BY <1>3, <1>4, <1>5, <1>6

LEMMA ResearchStochastic ==
  ASSUME NEW n \in Nat \ {0}, NEW p \in Nat \ {0}, NEW q \in Nat \ {0},
         NEW f \in DOMAIN Research!Stochastic(n, p, q)
  PROVE  InPlace(Research!Stochastic(n, p, q)[f], n)
<1> DEFINE fast == Base!Rolling(Base!Column(n), p)
<1>0. n \in Nat
  OBVIOUS
<1>1. InPlace(fast, n)
  BY <1>0, ColumnInPlace, InPlaceKept
<1>2. InPlace(Base!Rolling(fast, q), n)
  BY <1>0, <1>1, InPlaceKept
<1>3. Research!Stochastic(n, p, q) = [k |-> fast, d |-> Base!Rolling(fast, q)]
  BY ResearchBase DEF Research!Stochastic
<1> HIDE DEF fast
<1> QED BY <1>1, <1>2, <1>3

(***************************************************************************)
(* The rules                                                               *)
(***************************************************************************)
LEMMA RulesBase ==
  /\ \A n : Rules!Column(n) = Base!Column(n)
  /\ \A vs : Rules!Joint(vs) = Base!Joint(vs)
  /\ \A s, w : Rules!Rolling(s, w) = Base!Rolling(s, w)
  /\ \A s : Rules!Ewm(s) = Base!Ewm(s)
  /\ \A s, k : Rules!Blank(s, k) = Base!Blank(s, k)
  /\ \A s, k : Rules!Before(s, k) = Base!Before(s, k)
  /\ \A s, k : Rules!Zeros(s, k) = Base!Zeros(s, k)
<1>1. \A n : Rules!Column(n) = Base!Column(n)
  BY DEF Rules!Column, Base!Column
<1>2. \A vs : Rules!Joint(vs) = Base!Joint(vs)
  BY DEF Rules!Joint, Base!Joint
<1>3. \A s, w : Rules!Rolling(s, w) = Base!Rolling(s, w)
  BY DEF Rules!Rolling, Base!Rolling, Rules!Pick, Base!Pick, Rules!Each,
         Base!Each, Rules!Span, Base!Span
<1>4. \A s : Rules!Ewm(s) = Base!Ewm(s)
  BY DEF Rules!Ewm, Base!Ewm, Rules!Pick, Base!Pick, Rules!Each, Base!Each,
         Rules!Span, Base!Span, Rules!Min, Base!Min
<1>5. \A s, k : Rules!Blank(s, k) = Base!Blank(s, k)
  BY DEF Rules!Blank, Base!Blank, Rules!Pick, Base!Pick, Rules!Each,
         Base!Each
<1>6. \A s, k : Rules!Before(s, k) = Base!Before(s, k)
  BY DEF Rules!Before, Base!Before, Rules!Pick, Base!Pick, Rules!Each,
         Base!Each
<1>7. \A s, k : Rules!Zeros(s, k) = Base!Zeros(s, k)
  BY DEF Rules!Zeros, Base!Zeros, Rules!Pick, Base!Pick, Rules!Each,
         Base!Each, Rules!Zero, Base!Zero
<1> QED BY <1>1, <1>2, <1>3, <1>4, <1>5, <1>6, <1>7

(* A list of n numbers, none of them a stopgap.                            *)
Clean(s, n) == s \in Lists(n) /\ \A i \in 1..n : s[i] = None \/ 0 \notin s[i].on

LEMMA BeforeList ==
  ASSUME NEW n \in Nat, NEW s \in Lists(n), NEW k \in Nat
  PROVE  /\ Base!Before(s, k) \in Lists(n)
         /\ \A i \in 1..n : Base!Before(s, k)[i] = IF i <= k THEN None ELSE s[i - k]
<1> DEFINE list == Base!Before(s, k)
           Entry(i) == IF i <= k THEN None ELSE s[i - k]
<1>1. Len(s) = n
  BY DEF Lists
<1>2. list = [i \in 1..(IF n < 1 THEN 0 ELSE n - 1 + 1) |-> Entry(1 + i - 1)]
  BY <1>1 DEF Base!Before, Base!Pick, Base!Each
<1>3. ASSUME NEW i \in 1..n PROVE Entry(i) \in Entries
  <2>1. CASE i <= k
    BY <2>1 DEF Entries
  <2>2. CASE i > k
    <3>1. i - k \in 1..n
      BY <2>2
    <3> QED BY <2>2, <3>1, ListFacts
  <2> QED BY <2>1, <2>2
<1> HIDE DEF list, Entry
<1>4. (IF n < 1 THEN 0 ELSE n - 1 + 1) = n /\ \A i \in 1..n : 1 + i - 1 = i
  OBVIOUS
<1>5. list = [i \in 1..n |-> Entry(i)]
  BY <1>2, <1>4
<1>6. list \in Lists(n)
  BY <1>3, <1>5, AList
<1> QED BY <1>5, <1>6 DEF list, Entry

LEMMA BeforeClean ==
  ASSUME NEW n \in Nat, NEW s, Clean(s, n), NEW k \in Nat
  PROVE  Clean(Base!Before(s, k), n)
<1>1. s \in Lists(n)
  BY DEF Clean
<1>2. ASSUME NEW i \in 1..n
      PROVE  Base!Before(s, k)[i] = None \/ 0 \notin Base!Before(s, k)[i].on
  <2>1. CASE i <= k
    BY <1>1, <2>1, BeforeList
  <2>2. CASE i > k
    <3>1. i - k \in 1..n
      BY <2>2
    <3>2. Base!Before(s, k)[i] = s[i - k]
      BY <1>1, <2>2, BeforeList
    <3> QED BY <3>1, <3>2 DEF Clean
  <2> QED BY <2>1, <2>2
<1> QED BY <1>1, <1>2, BeforeList DEF Clean

LEMMA InPlaceClean ==
  ASSUME NEW n \in Nat, NEW s, InPlace(s, n)
  PROVE  Clean(s, n)
BY ByAt DEF InPlace, Clean, BesideItsBar

LEMMA CompareInPlace ==
  ASSUME NEW n \in Nat, NEW s, NEW r, InPlace(s, n), Clean(r, n)
  PROVE  InPlace(Rules!Compare(s, r), n)
<1> DEFINE list == Rules!Compare(s, r)
           Entry(i) == IF None \in {s[i], r[i]} THEN None
                       ELSE [of |-> s[i].of, on |-> s[i].on \cup r[i].on]
<1>1. s \in Lists(n) /\ r \in Lists(n) /\ By(s, 0) /\ Len(s) = n
  BY DEF InPlace, Clean, Lists
<1>2. list = [i \in 1..(IF n < 1 THEN 0 ELSE n - 1 + 1) |-> Entry(1 + i - 1)]
  BY <1>1 DEF Rules!Compare, Rules!Pick, Rules!Each
<1>3. ASSUME NEW i \in 1..n PROVE Entry(i) \in Entries /\ BesideItsBar(Entry(i), i + 0)
  <2>1. CASE None \in {s[i], r[i]}
    BY <2>1 DEF Entries, BesideItsBar
  <2>2. CASE None \notin {s[i], r[i]}
    <3>1. s[i] \in Figures /\ r[i] \in Figures
      BY <1>1, <2>2, ListFacts DEF Entries
    <3>2. s[i].of = {i + 0} /\ 0 \notin s[i].on /\ 0 \notin r[i].on
      BY <1>1, <2>2, ByAt DEF BesideItsBar, Clean
    <3>3. Entry(i) = [of |-> s[i].of, on |-> s[i].on \cup r[i].on]
      BY <2>2
    <3>4. Entry(i) \in Figures
      BY <3>1, <3>3 DEF Figures
    <3> QED BY <3>2, <3>3, <3>4 DEF BesideItsBar, Entries
  <2> QED BY <2>1, <2>2
<1> HIDE DEF list, Entry
<1>4. (IF n < 1 THEN 0 ELSE n - 1 + 1) = n /\ \A i \in 1..n : 1 + i - 1 = i
  OBVIOUS
<1>5. list = [i \in 1..n |-> Entry(i)]
  BY <1>2, <1>4
<1>6. list \in Lists(n)
  BY <1>3, <1>5, AList
<1>7. \A i \in 1..n : BesideItsBar(list[i], i + 0)
  BY <1>3, <1>5
<1>8. By(list, 0)
  BY <1>6, <1>7, ByOf
<1> QED BY <1>6, <1>8 DEF InPlace, list

LEMMA ZerosBlanked ==
  ASSUME NEW n \in Nat, NEW s, InPlace(s, n), NEW k \in Int, NEW j \in Int, k <= j
  PROVE  InPlace(Base!Blank(Base!Zeros(s, k), j), n)
<1> DEFINE zeros == Base!Zeros(s, k)
           list == Base!Blank(zeros, j)
<1>1. s \in Lists(n) /\ By(s, 0)
  BY DEF InPlace
<1>2. zeros \in Lists(n) /\ \A i \in 1..n : zeros[i] = IF i <= k THEN Base!Zero ELSE s[i]
  BY <1>1, ZerosList
<1> HIDE DEF zeros
<1>3. list \in Lists(n) /\ \A i \in 1..n : list[i] = IF i <= j THEN None ELSE zeros[i]
  BY <1>2, BlankList
<1> HIDE DEF list
<1>4. ASSUME NEW i \in 1..n PROVE BesideItsBar(list[i], i + 0)
  <2>1. CASE i <= j
    BY <1>3, <2>1 DEF BesideItsBar
  <2>2. CASE i > j
    <3>1. ~(i <= k) /\ ~(i <= j)
      BY <2>2
    <3>2. list[i] = s[i]
      BY <1>2, <1>3, <3>1
    <3> QED BY <1>1, <3>2, ByAt
  <2> QED BY <2>1, <2>2
<1> QED BY <1>3, <1>4, ByOf DEF InPlace, list, zeros

LEMMA OfTwo ==
  ASSUME NEW a, NEW b, NEW i
  PROVE  {<<a, b>>[c][i] : c \in DOMAIN <<a, b>>} = {a[i], b[i]}
<1>1. DOMAIN <<a, b>> = {1, 2} /\ <<a, b>>[1] = a /\ <<a, b>>[2] = b
  OBVIOUS
<1> QED BY <1>1

LEMMA AllAnyInPlace ==
  ASSUME NEW n \in Nat, NEW s, NEW r, InPlace(s, n), InPlace(r, n)
  PROVE  /\ By(Rules!All(<<s, r>>), 0)
         /\ By(Rules!Any(<<s, r>>), 0)
<1> DEFINE all == Rules!All(<<s, r>>)
           any == Rules!Any(<<s, r>>)
           pair == <<s, r>>
           known(i) == {pair[c][i] : c \in DOMAIN pair} \ {None}
           Either(i) == IF known(i) = {} THEN None ELSE Base!Joint(known(i))
<1>1. s \in Lists(n) /\ r \in Lists(n) /\ By(s, 0) /\ By(r, 0) /\ Len(s) = n /\ pair[1] = s
  BY DEF InPlace, Lists
<1>2. (IF n < 1 THEN 0 ELSE n - 1 + 1) = n /\ \A i \in 1..n : 1 + i - 1 = i
  OBVIOUS
<1>3. all = [i \in 1..(IF n < 1 THEN 0 ELSE n - 1 + 1) |->
               Base!Joint({pair[c][1 + i - 1] : c \in DOMAIN pair})]
  BY <1>1, RulesBase DEF Rules!All, Rules!Pick, Rules!Each
<1>4. any = [i \in 1..(IF n < 1 THEN 0 ELSE n - 1 + 1) |-> Either(1 + i - 1)]
  BY <1>1, RulesBase DEF Rules!Any, Rules!Pick, Rules!Each
<1>5. ASSUME NEW i \in 1..n
      PROVE  /\ s[i] \in Entries /\ r[i] \in Entries
             /\ BesideItsBar(s[i], i) /\ BesideItsBar(r[i], i)
             /\ {pair[c][i] : c \in DOMAIN pair} = {s[i], r[i]}
  <2>1. i + 0 = i
    OBVIOUS
  <2>2. BesideItsBar(s[i], i) /\ BesideItsBar(r[i], i)
    BY <1>1, <2>1, ByAt
  <2> QED BY <1>1, <2>2, ListFacts, OfTwo
<1> HIDE DEF all, any, pair
<1>6. ASSUME NEW i \in 1..n PROVE BesideItsBar(all[i], i + 0)
  <2>1. all[i] = Base!Joint({s[i], r[i]})
    <3>1. all[i] = Base!Joint({pair[c][i] : c \in DOMAIN pair})
      BY <1>2, <1>3
    <3> QED BY <1>5, <3>1
  <2>2. BesideItsBar(Base!Joint({s[i], r[i]}), i)
    BY <1>5, JointBeside
  <2> QED BY <2>1, <2>2
<1>7. ASSUME NEW i \in 1..n PROVE BesideItsBar(any[i], i + 0)
  <2>1. any[i] = Either(i)
    BY <1>2, <1>4
  <2>2. known(i) \in SUBSET Entries /\ \A v \in known(i) : BesideItsBar(v, i)
    BY <1>5
  <2> HIDE DEF known
  <2>3. CASE known(i) = {}
    BY <2>1, <2>3 DEF BesideItsBar
  <2>4. CASE known(i) # {}
    <3>1. BesideItsBar(Base!Joint(known(i)), i)
      BY <2>2, <2>4, JointBeside
    <3> QED BY <2>1, <2>4, <3>1
  <2> QED BY <2>3, <2>4
<1>8. DOMAIN all = 1..n /\ DOMAIN any = 1..n
  BY <1>2, <1>3, <1>4
<1> QED BY <1>6, <1>7, <1>8 DEF By, all, any

LEMMA RuleRows ==
  ASSUME NEW n \in Nat \ {0}, NEW key \in Rules!Registry, NEW w \in Nat \ {0}, NEW given \in BOOLEAN,
         key = "ADX" => ~given /\ AdxWarmup >= 2 * w - 1
  PROVE  /\ InPlace(Rules!Rows(key, n, w, given).price, n)
         /\ InPlace(Rules!Rows(key, n, w, given).value, n)
<1> DEFINE warmup == Rules!WarmupPeriod(key, w, given)
           c == Base!Column(n)
           value == Rules!Indicator(key, n, w)
<1>0. n \in Nat /\ w - 1 \in Int /\ 2 * w - 1 \in Int
  OBVIOUS
<1>1. warmup \in Int /\ (key # "ADX" => warmup = w) /\ (key = "ADX" => warmup = AdxWarmup)
  BY SeriesAssumption DEF Rules!WarmupPeriod
<1>2. InPlace(c, n)
  BY <1>0, ColumnInPlace
<1>3. InPlace(Base!Ewm(c), n) /\ InPlace(Base!Rolling(c, w), n)
  BY <1>0, <1>2, InPlaceKept
<1>4. /\ Rules!Rows(key, n, w, given).price = Base!Blank(c, warmup)
      /\ Rules!Rows(key, n, w, given).value = Base!Blank(value, warmup)
  BY RulesBase DEF Rules!Rows
<1> HIDE DEF c, warmup
<1>5. InPlace(Base!Blank(c, warmup), n)
  BY <1>0, <1>1, <1>2, InPlaceKept
<1>6. InPlace(Base!Blank(value, warmup), n)
  <2>1. CASE key \in {"BB", "DONCHIAN"}
    <3>1. value = Base!Rolling(c, w)
      BY <2>1, RulesBase DEF Rules!Indicator, Rules!TaBand, c
    <3> QED BY <1>0, <1>1, <1>3, <3>1, InPlaceKept
  <2>2. CASE key \in {"EMA", "RSI"}
    <3>1. value = Base!Blank(Base!Ewm(c), w - 1)
      BY <2>2, RulesBase DEF Rules!Indicator, Rules!TaEma, Rules!TaRsi, c
    <3>2. InPlace(value, n)
      BY <1>0, <1>3, <3>1, InPlaceKept
    <3> QED BY <1>0, <1>1, <3>2, InPlaceKept
  <2>3. CASE key = "ADX"
    <3>1. value = Base!Zeros(Base!Ewm(c), 2 * w - 1)
      BY <2>3, RulesBase DEF Rules!Indicator, Rules!TaAdx, c
    <3>2. 2 * w - 1 <= warmup
      BY <1>1, <2>3
    <3> QED BY <1>0, <1>1, <1>3, <3>1, <3>2, ZerosBlanked
  <2>4. CASE key = "ATR"
    <3>1. value = Base!Zeros(Base!Ewm(c), w - 1)
      BY <2>4, RulesBase DEF Rules!Indicator, Rules!TaAtr, c
    <3>2. w - 1 <= warmup
      BY <1>1, <2>4
    <3> QED BY <1>0, <1>1, <1>3, <3>1, <3>2, ZerosBlanked
  <2>5. CASE key = "STOCH"
    <3>1. value = Base!Rolling(Base!Rolling(c, w), SmoothWindow)
      BY <2>5, RulesBase DEF Rules!Indicator, Rules!TaBand, c
    <3>2. InPlace(value, n)
      BY <1>0, <1>3, <3>1, InPlaceKept, SeriesAssumption, ZenonT(30)
    <3> QED BY <1>0, <1>1, <3>2, InPlaceKept
  <2> QED BY <2>1, <2>2, <2>3, <2>4, <2>5 DEF Rules!Registry
<1> QED BY <1>4, <1>5, <1>6

LEMMA RulesInPlace ==
  ASSUME NEW n \in Nat \ {0}, NEW key \in Rules!Registry, NEW w \in Nat \ {0}, NEW given \in BOOLEAN,
         key = "ADX" => ~given /\ AdxWarmup >= 2 * w - 1,
         NEW f \in DOMAIN Rules!ProcessStrategy(key, n, w, given)
  PROVE  By(Rules!ProcessStrategy(key, n, w, given)[f], 0)
<1> DEFINE rows == Rules!Rows(key, n, w, given)
           level == rows.value
           above == Rules!Compare(rows.price, rows.value)
           ago == Rules!Compare(rows.value, Rules!Previous(rows.value))
           cross == Rules!Cross(rows.price, rows.value)
<1>0. n \in Nat
  OBVIOUS
<1>1. InPlace(rows.price, n) /\ InPlace(level, n)
  BY RuleRows
<1>2. Clean(rows.price, n) /\ Clean(level, n)
  BY <1>0, <1>1, InPlaceClean
<1>3. Clean(Rules!Previous(rows.price), n) /\ Clean(Rules!Previous(level), n)
  BY <1>0, <1>2, BeforeClean, RulesBase DEF Rules!Previous
<1>4. InPlace(above, n) /\ InPlace(ago, n)
  BY <1>0, <1>1, <1>2, <1>3, CompareInPlace
<1>5. InPlace(cross, n)
  BY <1>0, <1>3, <1>4, CompareInPlace DEF Rules!Cross
<1>6. By(Rules!All(<<level, ago>>), 0) /\ By(Rules!Any(<<level, ago>>), 0)
  BY <1>0, <1>1, <1>4, AllAnyInPlace
<1>7. Rules!ProcessStrategy(key, n, w, given) =
        [level |-> level, above |-> above, ago |-> ago, cross |-> cross,
         both |-> Rules!All(<<level, ago>>), either |-> Rules!Any(<<level, ago>>)]
  BY DEF Rules!ProcessStrategy
<1> HIDE DEF level, above, ago, cross
<1> QED BY <1>1, <1>4, <1>5, <1>6, <1>7 DEF InPlace

(***************************************************************************)
(* The regimes                                                             *)
(***************************************************************************)
LEMMA RegimesBase ==
  /\ \A n : Regimes!Column(n) = Base!Column(n)
  /\ \A s, r : Regimes!Zip(s, r) = Base!Zip(s, r)
  /\ \A s : Regimes!Changes(s) = Base!Changes(s)
  /\ \A s, w : Regimes!Rolling(s, w) = Base!Rolling(s, w)
  /\ \A s : Regimes!Ewm(s) = Base!Ewm(s)
  /\ \A s, k : Regimes!Blank(s, k) = Base!Blank(s, k)
  /\ \A n : Regimes!Diff(n) = Base!Diff(n)
  /\ \A n : Regimes!TrueRange(n) = Base!TrueRange(n)
  /\ \A n : Regimes!Atr(n) = Base!Atr(n)
  /\ \A n : Regimes!Adx(n) = Base!Adx(n)
  /\ \A s, k : Regimes!Zeros(s, k) = Base!Zeros(s, k)
  /\ \A k : Regimes!Nones(k) = Base!Nones(k)
<1>1. \A n : Regimes!Column(n) = Base!Column(n)
  BY DEF Regimes!Column, Base!Column
<1>2. \A s, r : Regimes!Zip(s, r) = Base!Zip(s, r)
  BY DEF Regimes!Zip, Base!Zip, Regimes!Each, Base!Each, Regimes!Min,
         Base!Min, Regimes!Joint, Base!Joint
<1>3. \A s : Regimes!Changes(s) = Base!Changes(s)
  BY DEF Regimes!Changes, Base!Changes, Regimes!Each, Base!Each,
         Regimes!Span, Base!Span
<1>4. \A s, w : Regimes!Rolling(s, w) = Base!Rolling(s, w)
  BY DEF Regimes!Rolling, Base!Rolling, Regimes!Pick, Base!Pick,
         Regimes!Each, Base!Each, Regimes!Span, Base!Span
<1>5. \A s : Regimes!Ewm(s) = Base!Ewm(s)
  BY DEF Regimes!Ewm, Base!Ewm, Regimes!Pick, Base!Pick, Regimes!Each,
         Base!Each, Regimes!Span, Base!Span, Regimes!Min, Base!Min
<1>6. \A s, k : Regimes!Blank(s, k) = Base!Blank(s, k)
  BY DEF Regimes!Blank, Base!Blank, Regimes!Pick, Base!Pick, Regimes!Each,
         Base!Each
<1>7. \A n : Regimes!Diff(n) = Base!Diff(n)
  BY DEF Regimes!Diff, Base!Diff, Regimes!Column, Base!Column,
         Regimes!Changes, Base!Changes, Regimes!Each, Base!Each,
         Regimes!Span, Base!Span
<1>8. \A n : Regimes!TrueRange(n) = Base!TrueRange(n)
  BY DEF Regimes!TrueRange, Base!TrueRange, Regimes!Column, Base!Column,
         Regimes!Changes, Base!Changes, Regimes!Each, Base!Each,
         Regimes!Span, Base!Span
<1>9. \A n : Regimes!Atr(n) = Base!Atr(n)
  BY <1>5, <1>8 DEF Regimes!Atr, Base!Atr
<1>10. \A n : Regimes!Adx(n) = Base!Adx(n)
  BY <1>5, <1>2, <1>7, <1>9 DEF Regimes!Adx, Base!Adx
<1>11. \A s, k : Regimes!Zeros(s, k) = Base!Zeros(s, k)
  BY DEF Regimes!Zeros, Base!Zeros, Regimes!Pick, Base!Pick, Regimes!Each,
         Base!Each, Regimes!Zero, Base!Zero
<1>12. \A k : Regimes!Nones(k) = Base!Nones(k)
  BY DEF Regimes!Nones, Base!Nones
<1> QED BY <1>1, <1>2, <1>3, <1>4, <1>5, <1>6, <1>7, <1>8, <1>9, <1>10, <1>11, <1>12

(* Numbers that are there and beside their bars at each of the rows.       *)
Sound(columns, n, rows) ==
  /\ rows \subseteq 1..n
  /\ \A f \in DOMAIN columns : \A i \in rows :
       columns[f][i] # None /\ BesideItsBar(columns[f][i], i)

LEMMA KeptInPlace ==
  ASSUME NEW n \in Nat, NEW columns, NEW rows, Sound(columns, n, rows)
  PROVE  BesideTheirBars(Regimes!Kept(columns, n, rows), n)
<1> DEFINE kept == Regimes!Kept(columns, n, rows)
           Entry(f, i) == IF i \in rows THEN columns[f][i] ELSE None
<1>1. (IF n < 1 THEN 0 ELSE n - 1 + 1) = n /\ \A i \in 1..n : 1 + i - 1 = i
  OBVIOUS
<1>2. kept = [f \in DOMAIN columns |->
                [i \in 1..(IF n < 1 THEN 0 ELSE n - 1 + 1) |-> Entry(f, 1 + i - 1)]]
  BY DEF Regimes!Kept, Regimes!Pick, Regimes!Each
<1>3. \A f \in DOMAIN columns : \A i \in 1..n : BesideItsBar(Entry(f, i), i)
  BY DEF Sound, BesideItsBar
<1> HIDE DEF kept, Entry
<1>4. \A f \in DOMAIN columns : \A i \in 1..n : kept[f][i] = Entry(f, i)
  BY <1>1, <1>2
<1>5. DOMAIN kept = DOMAIN columns
  BY <1>2
<1>6. BesideTheirBars(kept, n)
  BY <1>3, <1>4, <1>5 DEF BesideTheirBars
<1> QED BY <1>6 DEF kept

LEMMA GroundClean ==
  ASSUME NEW n, NEW columns, NEW rows, Sound(columns, n, rows), NEW seen \in SUBSET rows
  PROVE  0 \notin Regimes!Ground(columns, seen)
<1>1. \A f \in DOMAIN columns : \A i \in seen : 0 \notin columns[f][i].on
  BY DEF Sound, BesideItsBar
<1> QED BY <1>1 DEF Regimes!Ground

(* Each row's label is beside it, whatever rows of the table it rests on.  *)
LEMMA LabelsInPlace ==
  ASSUME NEW n \in Nat, NEW columns, NEW rows, Sound(columns, n, rows)
  PROVE  /\ By(Regimes!Clustered(columns, n, rows), 0)
         /\ By(Regimes!Decoded(columns, n, rows), 0)
         /\ By(Regimes!CausallyLabelled(columns, n, rows), 0)
<1>1. (IF n < 1 THEN 0 ELSE n - 1 + 1) = n /\ \A i \in 1..n : 1 + i - 1 = i /\ i + 0 = i
  OBVIOUS
<1>2. By(Regimes!Nones(n), 0)
  <2>1. \A i \in 1..n : BesideItsBar(Base!Nones(n)[i], i + 0)
    BY NonesList DEF BesideItsBar
  <2> QED BY <2>1, NonesList, ByOf, RegimesBase
<1>3. ASSUME NEW seen \in SUBSET rows, NEW b
      PROVE  BesideItsBar([of |-> {b}, on |-> Regimes!Ground(columns, seen)], b)
  BY GroundClean DEF BesideItsBar
<1>4. By(Regimes!Labelled(columns, n, rows, rows, LAMBDA i : {i}), 0)
  <2> DEFINE Label(i) == IF i \notin rows THEN None
                         ELSE [of |-> {i}, on |-> Regimes!Ground(columns, rows \cup {i})]
             list == Regimes!Labelled(columns, n, rows, rows, LAMBDA i : {i})
  <2>1. list = [i \in 1..(IF n < 1 THEN 0 ELSE n - 1 + 1) |-> Label(1 + i - 1)]
    BY DEF Regimes!Labelled, Regimes!Pick, Regimes!Each
  <2>2. ASSUME NEW i \in 1..n PROVE BesideItsBar(Label(i), i)
    <3>1. CASE i \notin rows
      BY <3>1 DEF BesideItsBar
    <3>2. CASE i \in rows
      <4>1. rows \cup {i} \in SUBSET rows
        BY <3>2
      <4> QED BY <1>3, <3>2, <4>1
    <3> QED BY <3>1, <3>2
  <2> HIDE DEF Label, list
  <2>3. DOMAIN list = 1..n /\ \A i \in 1..n : list[i] = Label(i)
    BY <1>1, <2>1
  <2>4. By(list, 0)
    BY <1>1, <2>2, <2>3 DEF By
  <2> QED BY <2>4 DEF list
<1>5. By(Regimes!Clustered(columns, n, rows), 0)
  BY <1>2, <1>4 DEF Regimes!Clustered
<1>6. By(Regimes!Decoded(columns, n, rows), 0)
  <2> DEFINE Label(i) == IF i \notin rows THEN None
                         ELSE [of |-> {i}, on |-> Regimes!Ground(columns, rows \cup rows)]
             list == Regimes!Decoded(columns, n, rows)
  <2>1. list = [i \in 1..(IF n < 1 THEN 0 ELSE n - 1 + 1) |-> Label(1 + i - 1)]
    BY DEF Regimes!Decoded, Regimes!Labelled, Regimes!Pick, Regimes!Each
  <2>2. \A i \in 1..n : BesideItsBar(Label(i), i)
    <3>1. rows \cup rows \in SUBSET rows
      OBVIOUS
    <3> QED BY <1>3, <3>1 DEF BesideItsBar
  <2> HIDE DEF Label, list
  <2>3. DOMAIN list = 1..n /\ \A i \in 1..n : list[i] = Label(i)
    BY <1>1, <2>1
  <2>4. By(list, 0)
    BY <1>1, <2>2, <2>3 DEF By
  <2> QED BY <2>4 DEF list
<1>7. By(Regimes!CausallyLabelled(columns, n, rows), 0)
  <2> DEFINE Start(i) == CHOOSE s \in Regimes!FoldOf(rows, i) : TRUE
             Seen(i) == Regimes!TrainOf(rows, Start(i)) \cup Regimes!Visible(rows, i)
             Label(i) == IF Regimes!FoldOf(rows, i) = {} THEN None
                         ELSE [of |-> {i}, on |-> Regimes!Ground(columns, Seen(i))]
             list == Regimes!CausallyLabelled(columns, n, rows)
  <2>1. CASE Regimes!FoldStarts(rows) = {}
    BY <1>4, <2>1 DEF Regimes!CausallyLabelled
  <2>2. CASE Regimes!FoldStarts(rows) # {}
    <3>1. list = [i \in 1..(IF n < 1 THEN 0 ELSE n - 1 + 1) |-> Label(1 + i - 1)]
      BY <2>2 DEF Regimes!CausallyLabelled, Regimes!Pick, Regimes!Each
    <3>2. \A i : Seen(i) \in SUBSET rows
      BY DEF Regimes!TrainOf, Regimes!Visible
    <3> HIDE DEF Seen
    <3>3. \A i \in 1..n : BesideItsBar(Label(i), i)
      BY <1>3, <3>2 DEF BesideItsBar
    <3> HIDE DEF Label, list
    <3>4. DOMAIN list = 1..n /\ \A i \in 1..n : list[i] = Label(i)
      BY <1>1, <3>1
    <3>5. By(list, 0)
      BY <1>1, <3>3, <3>4 DEF By
    <3> QED BY <3>5 DEF list
  <2> QED BY <2>1, <2>2
<1> QED BY <1>5, <1>6, <1>7

LEMMA RollingPart ==
  ASSUME NEW n \in Nat, NEW s \in Lists(n), NEW w \in Nat \ {0}, NEW i \in 1..n,
         \A j \in 1..n : i - w < j /\ j <= i => BesideItsBar(s[j], j)
  PROVE  BesideItsBar(Base!Rolling(s, w)[i], i)
<1>1. CASE i < w
  BY <1>1, RollingList DEF BesideItsBar
<1>2. CASE i >= w
  <2> DEFINE a == i - w + 1
  <2>1. a \in 1..n /\ i \in a..n /\ i + 0 = i /\ 0 \in Int
    BY <1>2
  <2>2. \A j \in a..i : j \in 1..n /\ i - w < j /\ j <= i /\ j + 0 = j
    BY <2>1
  <2>3. \A j \in a..i : BesideItsBar(s[j], j + 0)
    BY <2>2
  <2>4. Base!Rolling(s, w)[i] = Base!Span(s, a, i)
    BY <1>2, RollingList
  <2> HIDE DEF a
  <2>5. BesideItsBar(Base!Span(s, a, i), i + 0)
    BY <2>1, <2>3, SpanPart
  <2> QED BY <2>1, <2>4, <2>5
<1> QED BY <1>1, <1>2

LEMMA ZipPart ==
  ASSUME NEW n \in Nat, NEW s \in Lists(n), NEW r \in Lists(n), NEW i \in 1..n,
         BesideItsBar(s[i], i), BesideItsBar(r[i], i)
  PROVE  BesideItsBar(Base!Zip(s, r)[i], i)
<1>1. Base!Zip(s, r)[i] = Base!Joint({s[i], r[i]})
  BY ZipList
<1>2. s[i] \in Entries /\ r[i] \in Entries
  BY ListFacts
<1> QED BY <1>1, <1>2, JointBeside

(* A zscore of the rolling deviation of what begins at place 2 takes two   *)
(* windows to begin.                                                       *)
LEMMA TwoWindows ==
  ASSUME NEW n \in Nat, NEW s \in Lists(n), s[1] = None, NEW q \in Nat \ {0}, NEW i \in 1..n,
         Base!Zip(Base!Rolling(s, q), Base!Rolling(Base!Rolling(s, q), q))[i] # None
  PROVE  i >= 2 * q
<1> DEFINE r == Base!Rolling(s, q)
           rr == Base!Rolling(r, q)
<1>1. r \in Lists(n) /\ \A j \in 1..n : r[j] = IF j < q THEN None ELSE Base!Span(s, j - q + 1, j)
  BY RollingList
<1>2. rr \in Lists(n) /\ \A j \in 1..n : rr[j] = IF j < q THEN None ELSE Base!Span(r, j - q + 1, j)
  BY <1>1, RollingList
<1> HIDE DEF r, rr
<1>3. rr[i] # None
  <2>1. Base!Zip(r, rr)[i] # None
    BY DEF r, rr
  <2> QED BY <1>1, <1>2, <2>1, ZipEven
<1>4. i >= q /\ Base!Span(r, i - q + 1, i) # None
  BY <1>2, <1>3
<1> DEFINE a == i - q + 1
<1>5. a \in 1..n /\ i \in a..n /\ a \in a..i
  BY <1>4
<1>6. r[a] # None
  BY <1>1, <1>4, <1>5, SpanFacts
<1>7. a >= q /\ Base!Span(s, a - q + 1, a) # None
  BY <1>1, <1>5, <1>6
<1> DEFINE b == a - q + 1
<1>8. b \in 1..n /\ a \in b..n /\ b \in b..a
  BY <1>5, <1>7
<1>9. s[b] # None
  BY <1>7, <1>8, SpanFacts
<1>10. b # 1
  BY <1>9
<1> QED BY <1>8, <1>10

LEMMA MarketSound ==
  ASSUME NEW n \in Nat \ {0}, NEW p \in Nat \ {0}, NEW q \in Nat, p < q
  PROVE  Sound(Regimes!MarketColumns(n, p, q), n,
               Regimes!MarketRows(Regimes!MarketColumns(n, p, q), n, p, q))
<1> DEFINE c == Base!Column(n)
           d == Base!Diff(n)
           atr == Base!Zeros(Base!Ewm(c), p - 1)
           adx == Base!Zeros(Base!Ewm(c), 2 * p - 1)
           Scored(s, w) == Base!Zip(s, Base!Rolling(s, w))
           columns == Regimes!MarketColumns(n, p, q)
           rows == Regimes!MarketRows(columns, n, p, q)
<1>0. n \in Nat /\ q \in Nat \ {0} /\ 2 \in Nat \ {0} /\ p - 1 \in Int /\ 2 * p - 1 \in Int
  OBVIOUS
<1>1. columns =
        [atr |-> atr, adx |-> adx, adx_delta |-> Base!Rolling(adx, 2),
         trend_ratio |-> Base!Rolling(d, p),
         realized_vol_z |-> Scored(Base!Rolling(d, q), q),
         session_volume_z |-> Scored(c, p), atr_z |-> Scored(atr, q),
         bb_width_z |-> Scored(Base!Rolling(c, p), q),
         vol_persistence |-> Base!Rolling(atr, p)]
  BY RegimesBase DEF Regimes!MarketColumns, Regimes!MarketColumnsOf, Regimes!TaAtr,
                     Regimes!TaAdx, Regimes!TaBand, Regimes!Zscore
<1>2. InPlace(c, n) /\ InPlace(d, n) /\ d[1] = None
  BY <1>0, ColumnInPlace, DiffInPlace
<1> HIDE DEF c, d
<1>3. /\ InPlace(Base!Rolling(d, p), n) /\ InPlace(Base!Rolling(d, q), n)
      /\ InPlace(Base!Rolling(c, p), n) /\ InPlace(Base!Ewm(c), n)
  BY <1>0, <1>2, InPlaceKept
<1>4. /\ InPlace(Base!Rolling(Base!Rolling(d, q), q), n)
      /\ InPlace(Base!Rolling(Base!Rolling(c, p), q), n)
  BY <1>0, <1>3, InPlaceKept
<1>5. /\ InPlace(Scored(Base!Rolling(d, q), q), n)
      /\ InPlace(Scored(Base!Rolling(c, p), q), n)
      /\ InPlace(Scored(c, p), n)
  BY <1>0, <1>2, <1>3, <1>4, InPlaceKept
<1>6. /\ atr \in Lists(n)
      /\ \A i \in 1..n : i >= p => BesideItsBar(atr[i], i)
  <2>1. /\ atr \in Lists(n)
        /\ \A i \in 1..n : i >= p => atr[i] = Base!Ewm(c)[i]
    <3> DEFINE k == p - 1
    <3>1. k \in Int /\ \A i \in 1..n : i >= p => ~(i <= k)
      BY <1>0
    <3>2. Base!Ewm(c) \in Lists(n)
      BY <1>3 DEF InPlace
    <3> DEFINE e == Base!Ewm(c)
    <3>3. atr = Base!Zeros(e, k) /\ e \in Lists(n) /\ k \in Int /\ n \in Nat
      BY <1>0, <3>1, <3>2
    <3> HIDE DEF k, atr, e
    <3>4. /\ Base!Zeros(e, k) \in Lists(n)
          /\ \A i \in 1..n : Base!Zeros(e, k)[i] = IF i <= k THEN Base!Zero ELSE e[i]
      BY ONLY <3>3, ZerosList
    <3>5. atr \in Lists(n) /\ \A i \in 1..n : ~(i <= k) => atr[i] = e[i]
      BY <3>3, <3>4
    <3> QED BY <3>1, <3>5 DEF e
  <2>2. \A i \in 1..n : BesideItsBar(Base!Ewm(c)[i], i)
    <3>1. \A i \in 1..n : i + 0 = i
      OBVIOUS
    <3> QED BY <1>0, <1>3, <3>1, ByAt DEF InPlace
  <2> HIDE DEF atr
  <2> QED BY <2>1, <2>2
<1>7. /\ adx \in Lists(n)
      /\ \A i \in 1..n : i >= 2 * p => BesideItsBar(adx[i], i)
  <2>1. /\ adx \in Lists(n)
        /\ \A i \in 1..n : i >= 2 * p => adx[i] = Base!Ewm(c)[i]
    <3> DEFINE k == 2 * p - 1
    <3>1. k \in Int /\ \A i \in 1..n : i >= 2 * p => ~(i <= k)
      BY <1>0
    <3>2. Base!Ewm(c) \in Lists(n)
      BY <1>3 DEF InPlace
    <3> DEFINE e == Base!Ewm(c)
    <3>3. adx = Base!Zeros(e, k) /\ e \in Lists(n) /\ k \in Int /\ n \in Nat
      BY <1>0, <3>1, <3>2
    <3> HIDE DEF k, adx, e
    <3>4. /\ Base!Zeros(e, k) \in Lists(n)
          /\ \A i \in 1..n : Base!Zeros(e, k)[i] = IF i <= k THEN Base!Zero ELSE e[i]
      BY ONLY <3>3, ZerosList
    <3>5. adx \in Lists(n) /\ \A i \in 1..n : ~(i <= k) => adx[i] = e[i]
      BY <3>3, <3>4
    <3> QED BY <3>1, <3>5 DEF e
  <2>2. \A i \in 1..n : BesideItsBar(Base!Ewm(c)[i], i)
    <3>1. \A i \in 1..n : i + 0 = i
      OBVIOUS
    <3> QED BY <1>0, <1>3, <3>1, ByAt DEF InPlace
  <2> HIDE DEF adx
  <2> QED BY <2>1, <2>2
<1>8. /\ rows \subseteq 1..n
      /\ \A f \in DOMAIN columns : \A i \in rows : columns[f][i] # None
  BY DEF Regimes!MarketRows, Regimes!Complete
<1> HIDE DEF rows, columns, atr, adx
<1>9. ASSUME NEW i \in rows PROVE i \in 1..n /\ i >= 2 * q
  <2>1. Scored(Base!Rolling(d, q), q)[i] # None /\ i \in 1..n
    <3>1. "realized_vol_z" \in DOMAIN columns
      BY <1>1
    <3> QED BY <1>1, <1>8, <3>1
  <2>2. i >= 2 * q
    BY <1>0, <1>2, <2>1, TwoWindows DEF InPlace
  <2> QED BY <2>1, <2>2
<1>10. ASSUME NEW i \in rows, NEW s, InPlace(s, n) PROVE BesideItsBar(s[i], i)
  <2>1. i \in 1..n /\ i + 0 = i
    BY <1>9
  <2> QED BY <1>0, <1>10, <2>1, ByAt DEF InPlace
<1>11. ASSUME NEW i \in rows
       PROVE  /\ BesideItsBar(atr[i], i)
              /\ BesideItsBar(adx[i], i)
              /\ BesideItsBar(Base!Rolling(adx, 2)[i], i)
              /\ BesideItsBar(Base!Rolling(atr, p)[i], i)
              /\ BesideItsBar(Base!Rolling(atr, q)[i], i)
  <2>1. i \in 1..n /\ i >= 2 * q
    BY <1>9
  <2>2. BesideItsBar(atr[i], i) /\ BesideItsBar(adx[i], i)
    BY <1>6, <1>7, <2>1
  <2>3. BesideItsBar(Base!Rolling(adx, 2)[i], i)
    <3>1. \A j \in 1..n : i - 2 < j /\ j <= i => BesideItsBar(adx[j], j)
      BY <1>7, <2>1
    <3> QED BY <1>0, <1>7, <2>1, <3>1, RollingPart
  <2>4. BesideItsBar(Base!Rolling(atr, p)[i], i)
    <3>1. \A j \in 1..n : i - p < j /\ j <= i => BesideItsBar(atr[j], j)
      BY <1>6, <2>1
    <3> QED BY <1>0, <1>6, <2>1, <3>1, RollingPart
  <2>5. BesideItsBar(Base!Rolling(atr, q)[i], i)
    <3>1. \A j \in 1..n : i - q < j /\ j <= i => BesideItsBar(atr[j], j)
      BY <1>6, <2>1
    <3> QED BY <1>0, <1>6, <2>1, <3>1, RollingPart
  <2> QED BY <2>2, <2>3, <2>4, <2>5
<1>12. ASSUME NEW i \in rows PROVE BesideItsBar(Scored(atr, q)[i], i)
  <2>1. Base!Rolling(atr, q) \in Lists(n)
    BY <1>0, <1>6, RollingList
  <2> QED BY <1>0, <1>6, <1>9, <1>11, <2>1, ZipPart
<1> HIDE DEF Scored
<1>13. \A f \in DOMAIN columns : \A i \in rows : BesideItsBar(columns[f][i], i)
  <2>1. ASSUME NEW i \in rows
        PROVE  /\ BesideItsBar(Base!Rolling(d, p)[i], i)
               /\ BesideItsBar(Scored(Base!Rolling(d, q), q)[i], i)
               /\ BesideItsBar(Scored(c, p)[i], i)
               /\ BesideItsBar(Scored(Base!Rolling(c, p), q)[i], i)
    BY <1>3, <1>5, <1>10
  <2> QED BY <1>1, <1>11, <1>12, <2>1
<1> QED BY <1>8, <1>13 DEF Sound, rows, columns

LEMMA RegimeSound ==
  ASSUME NEW n \in Nat \ {0}, NEW p \in Nat \ {0}, NEW q \in Nat \ {0}
  PROVE  Sound(Regimes!RegimeColumns(n, p, q), n,
               Regimes!Complete(Regimes!RegimeColumns(n, p, q), n))
<1> DEFINE features == Base!ComputeFeatures(n, p, q)
           columns == Regimes!RegimeColumns(n, p, q)
           rows == Regimes!Complete(columns, n)
<1>0. n \in Nat
  OBVIOUS
<1>1. features = Regimes!ComputeFeatures(n, p, q)
  BY RegimesBase DEF Regimes!ComputeFeatures, Base!ComputeFeatures
<1>2. columns = [atr |-> features.atr, adx |-> features.adx,
                 volatility |-> features.volatility, returns_1 |-> features.returns_1,
                 trend |-> Base!Rolling(features.returns_1, q)]
  BY <1>1, RegimesBase DEF Regimes!RegimeColumns, Regimes!RegimeColumnsOf
<1>3. /\ InPlace(features.atr, n) /\ InPlace(features.adx, n)
      /\ InPlace(features.volatility, n) /\ InPlace(features.returns_1, n)
  <2>1. {"atr", "adx", "volatility", "returns_1"} \subseteq DOMAIN features
    BY DEF Base!ComputeFeatures
  <2> QED BY <2>1, FeaturesInPlace
<1> HIDE DEF features, columns
<1>4. InPlace(Base!Rolling(features.returns_1, q), n)
  BY <1>0, <1>3, InPlaceKept
<1>5. \A f \in DOMAIN columns : InPlace(columns[f], n)
  BY <1>2, <1>3, <1>4
<1>6. \A f \in DOMAIN columns : \A i \in 1..n : BesideItsBar(columns[f][i], i)
  <2>1. \A i \in 1..n : i + 0 = i
    OBVIOUS
  <2> QED BY <1>0, <1>5, <2>1, ByAt DEF InPlace
<1>7. rows \subseteq 1..n /\ \A f \in DOMAIN columns : \A i \in rows : columns[f][i] # None
  BY DEF Regimes!Complete
<1> QED BY <1>6, <1>7 DEF Sound, columns

LEMMA RegimesInPlace ==
  ASSUME NEW n \in Nat \ {0}, NEW r,
         r.indicator \in {"market_features", "clusters", "features", "production", "causal"},
         r.p \in Nat \ {0}, r.q \in Nat \ {0},
         r.indicator \in {"market_features", "clusters"} => r.p < r.q
  PROVE  BesideTheirBars(RegimeLists(r, n), n)
<1> DEFINE p == r.p
           q == r.q
           market == Regimes!MarketColumns(n, p, q)
           columns == Regimes!RegimeColumns(n, p, q)
<1>0. n \in Nat
  OBVIOUS
<1>1. ASSUME NEW s, By(s, 0) PROVE BesideTheirBars([values |-> s], n)
  BY <1>0, <1>1, AllInPlace
<1>2. CASE r.indicator = "market_features"
  <2>1. Sound(market, n, Regimes!MarketRows(market, n, p, q))
    BY <1>2, MarketSound
  <2>2. RegimeLists(r, n) = Regimes!Kept(market, n, Regimes!MarketRows(market, n, p, q))
    BY <1>2 DEF RegimeLists, Regimes!CalculateFeatures, Regimes!MarketFeatures
  <2> QED BY <1>0, <2>1, <2>2, KeptInPlace
<1>3. CASE r.indicator = "clusters"
  <2>1. Sound(market, n, Regimes!MarketRows(market, n, p, q))
    BY <1>3, MarketSound
  <2>2. RegimeLists(r, n) =
          [values |-> Regimes!Clustered(market, n, Regimes!MarketRows(market, n, p, q))]
    BY <1>3 DEF RegimeLists, Regimes!ClusterAndLabel
  <2> QED BY <1>0, <1>1, <2>1, <2>2, LabelsInPlace
<1>4. Sound(columns, n, Regimes!Complete(columns, n))
  BY RegimeSound
<1>5. CASE r.indicator = "features"
  <2>1. RegimeLists(r, n) = Regimes!Kept(columns, n, Regimes!Complete(columns, n))
    BY <1>5 DEF RegimeLists, Regimes!LoadFeatures
  <2> QED BY <1>0, <1>4, <2>1, KeptInPlace
<1>6. CASE r.indicator = "production"
  <2>1. RegimeLists(r, n) =
          [values |-> Regimes!Decoded(columns, n, Regimes!Complete(columns, n))]
    BY <1>6 DEF RegimeLists, Regimes!ProcessGranularity
  <2> QED BY <1>0, <1>1, <1>4, <2>1, LabelsInPlace
<1>7. CASE r.indicator = "causal"
  <2>1. RegimeLists(r, n) =
          [values |-> Regimes!CausallyLabelled(columns, n, Regimes!Complete(columns, n))]
    BY <1>7 DEF RegimeLists, Regimes!CausalLabels
  <2> QED BY <1>0, <1>1, <1>4, <2>1, LabelsInPlace
<1> QED BY <1>2, <1>3, <1>5, <1>6, <1>7

(***************************************************************************)
(* The server's indicators                                                 *)
(***************************************************************************)
(* Figures t of the places of s from a on, each computed from those that   *)
(* precede it, from the place that low gives.                              *)
Loop(t, s, a, m, low) ==
  /\ low \in [a..m -> 1..m] /\ \A b \in a..m : low[b] <= b
  /\ t = [i \in 1..(m - a + 1) |-> t[i]]
  /\ \A i \in 1..(m - a + 1) : t[i] = Base!Span(s, low[a + i - 1], a + i - 1)

LEMMA FiguresFrom ==
  ASSUME NEW m \in Nat, NEW s \in Lists(m), NEW e \in Int, By(s, e),
         NEW a \in 1..(m + 1), NEW low, NEW t, Loop(t, s, a, m, low)
  PROVE  /\ t \in Lists(m - a + 1)
         /\ By(t, a - 1 + e)
         /\ Full(s) => Full(t)
<1>0. m - a + 1 \in Nat /\ a - 1 + e \in Int
  OBVIOUS
<1>1. ASSUME NEW i \in 1..(m - a + 1)
      PROVE  /\ t[i] \in Entries
             /\ BesideItsBar(t[i], i + (a - 1 + e))
             /\ Full(s) => t[i] # None
  <2> DEFINE b == a + i - 1
  <2>1. b \in a..m /\ low[b] \in 1..m /\ b \in low[b]..m /\ low[b]..b \subseteq 1..m
    <3>1. b \in a..m
      OBVIOUS
    <3> QED BY <3>1 DEF Loop
  <2>2. t[i] = Base!Span(s, low[b], b)
    BY DEF Loop
  <2>3. b + e = i + (a - 1 + e)
    OBVIOUS
  <2> HIDE DEF b
  <2>4. BesideItsBar(t[i], b + e)
    BY <2>1, <2>2, SpanBeside
  <2>5. /\ Base!Span(s, low[b], b) \in Entries
        /\ Base!Span(s, low[b], b) = None <=> \E j \in low[b]..b : s[j] = None
    BY <2>1, SpanFacts
  <2>6. DOMAIN s = 1..m
    BY ListFacts
  <2> QED BY <2>1, <2>2, <2>3, <2>4, <2>5, <2>6 DEF Full
<1>2. DOMAIN t = 1..(m - a + 1) /\ t = [i \in 1..(m - a + 1) |-> t[i]]
  BY DEF Loop
<1>3. t \in Lists(m - a + 1)
  BY <1>0, <1>1, <1>2, AList
<1>4. By(t, a - 1 + e)
  BY <1>0, <1>1, <1>3, ByOf
<1>5. Full(s) => Full(t)
  BY <1>1, <1>2 DEF Full
<1> QED BY <1>3, <1>4, <1>5

(* A loop over windows of w places, and one over all places so far.        *)
WindowLoop(t, s, a, m, w) ==
  t = [i \in 1..(IF m < a THEN 0 ELSE m - a + 1) |->
         Base!Span(s, a + i - 1 - w + 1, a + i - 1)]

PrefixLoop(t, s, a, m) ==
  t = [i \in 1..(IF m < a THEN 0 ELSE m - a + 1) |-> Base!Span(s, 1, a + i - 1)]

LEMMA Windows ==
  ASSUME NEW m \in Nat, NEW s \in Lists(m), NEW e \in Int, By(s, e),
         NEW a \in 1..(m + 1), NEW w \in 1..a,
         NEW t, WindowLoop(t, s, a, m, w)
  PROVE  /\ t \in Lists(m - a + 1)
         /\ By(t, a - 1 + e)
         /\ Full(s) => Full(t)
<1> DEFINE low == [b \in a..m |-> b - w + 1]
<1>1. (IF m < a THEN 0 ELSE m - a + 1) = m - a + 1
  OBVIOUS
<1>2. low \in [a..m -> 1..m] /\ \A b \in a..m : low[b] <= b
  <2>1. \A b \in a..m : b - w + 1 \in 1..m /\ b - w + 1 <= b
    OBVIOUS
  <2> QED BY <2>1
<1>3. \A i \in 1..(m - a + 1) : a + i - 1 \in a..m
  OBVIOUS
<1>4. \A i \in 1..(m - a + 1) : low[a + i - 1] = a + i - 1 - w + 1
  BY <1>3
<1> HIDE DEF low
<1>5. /\ t = [i \in 1..(m - a + 1) |-> t[i]]
      /\ \A i \in 1..(m - a + 1) : t[i] = Base!Span(s, low[a + i - 1], a + i - 1)
  BY <1>1, <1>4 DEF WindowLoop
<1>6. Loop(t, s, a, m, low)
  BY <1>2, <1>5 DEF Loop
<1> QED BY <1>6, FiguresFrom

LEMMA Prefixes ==
  ASSUME NEW m \in Nat, NEW s \in Lists(m), NEW e \in Int, By(s, e),
         NEW a \in 1..(m + 1),
         NEW t, PrefixLoop(t, s, a, m)
  PROVE  /\ t \in Lists(m - a + 1)
         /\ By(t, a - 1 + e)
         /\ Full(s) => Full(t)
<1> DEFINE low == [b \in a..m |-> 1]
<1>1. (IF m < a THEN 0 ELSE m - a + 1) = m - a + 1
  OBVIOUS
<1>2. low \in [a..m -> 1..m] /\ \A b \in a..m : low[b] <= b
  <2>1. \A b \in a..m : 1 \in 1..m /\ 1 <= b
    OBVIOUS
  <2> QED BY <2>1
<1>3. \A i \in 1..(m - a + 1) : a + i - 1 \in a..m
  OBVIOUS
<1>4. \A i \in 1..(m - a + 1) : low[a + i - 1] = 1
  BY <1>3
<1> HIDE DEF low
<1>5. /\ t = [i \in 1..(m - a + 1) |-> t[i]]
      /\ \A i \in 1..(m - a + 1) : t[i] = Base!Span(s, low[a + i - 1], a + i - 1)
  BY <1>1, <1>4 DEF PrefixLoop
<1>6. Loop(t, s, a, m, low)
  BY <1>2, <1>5 DEF Loop
<1> QED BY <1>6, FiguresFrom

LEMMA ServerBase ==
  /\ \A n : Server!Column(n) = Base!Column(n)
  /\ \A k : Server!Nones(k) = Base!Nones(k)
  /\ \A s, a, b : Server!Span(s, a, b) = Base!Span(s, a, b)
  /\ \A vs : Server!Joint(vs) = Base!Joint(vs)
  /\ \A s, r : Server!Zip(s, r) = Base!Zip(s, r)
  /\ \A s : Server!Known(s) = Base!Known(s)
  /\ \A s : Server!Changes(s) = Base!Changes(s)
<1>1. \A n : Server!Column(n) = Base!Column(n)
  BY DEF Server!Column, Base!Column
<1>2. \A k : Server!Nones(k) = Base!Nones(k)
  BY DEF Server!Nones, Base!Nones
<1>3. \A s, a, b : Server!Span(s, a, b) = Base!Span(s, a, b)
  BY DEF Server!Span, Base!Span
<1>4. \A vs : Server!Joint(vs) = Base!Joint(vs)
  BY DEF Server!Joint, Base!Joint
<1>5. \A s, r : Server!Zip(s, r) = Base!Zip(s, r)
  BY DEF Server!Zip, Base!Zip, Server!Each, Base!Each, Server!Min,
         Base!Min, Server!Joint, Base!Joint
<1>6. \A s : Server!Known(s) = Base!Known(s)
  BY DEF Server!Known, Base!Known, Server!Cardinality, Base!Cardinality
<1>7. \A s : Server!Changes(s) = Base!Changes(s)
  BY DEF Server!Changes, Base!Changes, Server!Each, Base!Each, Server!Span,
         Base!Span
<1> QED BY <1>1, <1>2, <1>3, <1>4, <1>5, <1>6, <1>7

LEMMA NonesBy == ASSUME NEW n \in Nat, NEW d \in Int PROVE By(Base!Nones(n), d)
<1>1. \A i \in 1..n : BesideItsBar(Base!Nones(n)[i], i + d)
  BY NonesList DEF BesideItsBar
<1> QED BY <1>1, NonesList, ByOf

LEMMA SmaBy ==
  ASSUME NEW m \in Nat, NEW s \in Lists(m), NEW e \in Int, By(s, e), NEW p \in Nat \ {0}
  PROVE  Server!Sma(s, p) \in Lists(m) /\ By(Server!Sma(s, p), e)
<1> DEFINE t == [i \in 1..(IF m < p THEN 0 ELSE m - p + 1) |->
                   Base!Span(s, p + i - 1 - p + 1, p + i - 1)]
<1>1. Len(s) = m
  BY DEF Lists
<1>2. CASE m < p
  <2>1. Server!Sma(s, p) = Base!Nones(m)
    BY <1>1, <1>2, ServerBase DEF Server!Sma
  <2> QED BY <2>1, NonesList, NonesBy
<1>3. CASE m >= p
  <2>1. Server!Sma(s, p) = Base!Nones(p - 1) \o t
    <3>1. Server!Sma(s, p) = Server!Nones(p - 1)
            \o [i \in 1..(IF Len(s) < p THEN 0 ELSE Len(s) - p + 1) |->
                  Server!Span(s, p + i - 1 - p + 1, p + i - 1)]
      BY <1>1, <1>3 DEF Server!Sma, Server!Each
    <3>2. t = [i \in 1..(IF Len(s) < p THEN 0 ELSE Len(s) - p + 1) |->
                 Server!Span(s, p + i - 1 - p + 1, p + i - 1)]
      BY <1>1, ServerBase
    <3> QED BY <3>1, <3>2, ServerBase
  <2>2. p \in 1..(m + 1) /\ p \in 1..p
    BY <1>3
  <2>3. t \in Lists(m - p + 1) /\ By(t, p - 1 + e)
    <3>1. WindowLoop(t, s, p, m, p)
      BY DEF WindowLoop
    <3> QED BY <2>2, <3>1, Windows
  <2> HIDE DEF t
  <2>4. p - 1 \in Nat /\ m - p + 1 \in Nat /\ (p - 1) + (m - p + 1) = m
    BY <1>3
  <2>5. Base!Nones(p - 1) \o t \in Lists((p - 1) + (m - p + 1))
    BY <2>3, <2>4, Led
  <2>6. By(Base!Nones(p - 1) \o t, e)
    BY <2>3, <2>4, LedBy
  <2> QED BY <2>1, <2>4, <2>5, <2>6
<1> QED BY <1>2, <1>3

LEMMA EmaBy ==
  ASSUME NEW m \in Nat, NEW s \in Lists(m), NEW e \in Int, By(s, e), NEW p \in Nat \ {0}
  PROVE  /\ Server!Ema(s, p) \in Lists(m)
         /\ By(Server!Ema(s, p), e)
         /\ Full(s) => \A i \in 1..m : Server!Ema(s, p)[i] = None <=> i < p
<1> DEFINE t == [i \in 1..(IF m < p THEN 0 ELSE m - p + 1) |-> Base!Span(s, 1, p + i - 1)]
           ema == Server!Ema(s, p)
<1>1. Len(s) = m
  BY DEF Lists
<1>2. CASE m < p
  <2>1. ema = Base!Nones(m)
    BY <1>1, <1>2, ServerBase DEF Server!Ema
  <2> HIDE DEF ema
  <2>2. \A i \in 1..m : ema[i] = None /\ i < p
    BY <1>2, <2>1, NonesList
  <2>3. ema \in Lists(m) /\ By(ema, e)
    BY <2>1, NonesList, NonesBy
  <2> QED BY <2>2, <2>3 DEF ema
<1>3. CASE m >= p
  <2>1. ema = Base!Nones(p - 1) \o t
    <3>1. ema = Server!Nones(p - 1) \o [i \in 1..(IF Len(s) < p THEN 0 ELSE Len(s) - p + 1) |->
                                           Server!Span(s, 1, p + i - 1)]
      BY <1>1, <1>3 DEF Server!Ema, Server!Each
    <3>2. t = [i \in 1..(IF Len(s) < p THEN 0 ELSE Len(s) - p + 1) |->
                 Server!Span(s, 1, p + i - 1)]
      BY <1>1, ServerBase
    <3> QED BY <3>1, <3>2, ServerBase
  <2>2. p \in 1..(m + 1)
    BY <1>3
  <2>3. /\ t \in Lists(m - p + 1) /\ By(t, p - 1 + e)
        /\ Full(s) => Full(t)
    <3>1. PrefixLoop(t, s, p, m)
      BY DEF PrefixLoop
    <3> QED BY <2>2, <3>1, Prefixes
  <2> HIDE DEF t, ema
  <2>4. p - 1 \in Nat /\ m - p + 1 \in Nat /\ (p - 1) + (m - p + 1) = m
    BY <1>3
  <2>5. /\ ema \in Lists(m) /\ By(ema, e)
        /\ \A i \in 1..(p - 1) : ema[i] = None
        /\ \A i \in 1..(m - p + 1) : ema[(p - 1) + i] = t[i]
    <3>1. /\ ema \in Lists((p - 1) + (m - p + 1))
          /\ \A i \in 1..(p - 1) : ema[i] = None
          /\ \A i \in 1..(m - p + 1) : ema[(p - 1) + i] = t[i]
      <4> DEFINE k == p - 1
                 c == m - p + 1
      <4>1. k \in Nat /\ c \in Nat /\ t \in Lists(c)
        BY <2>3, <2>4
      <4> HIDE DEF k, c
      <4>2. /\ Base!Nones(k) \o t \in Lists(k + c)
            /\ \A i \in 1..k : (Base!Nones(k) \o t)[i] = None
            /\ \A i \in 1..c : (Base!Nones(k) \o t)[k + i] = t[i]
        BY <4>1, Led
      <4> QED BY <2>1, <4>2 DEF k, c
    <3>2. By(ema, e)
      BY <2>1, <2>3, <2>4, LedBy
    <3> QED BY <2>4, <3>1, <3>2
  <2>6. ASSUME Full(s), NEW i \in 1..m
        PROVE  ema[i] = None <=> i < p
    <3>1. CASE i < p
      <4>1. i \in 1..(p - 1)
        BY <3>1
      <4> QED BY <2>5, <3>1, <4>1
    <3>2. CASE i >= p
      <4>1. i - (p - 1) \in 1..(m - p + 1) /\ (p - 1) + (i - (p - 1)) = i
        BY <3>2
      <4>2. ema[i] = t[i - (p - 1)]
        BY <2>5, <4>1
      <4>3. i - (p - 1) \in DOMAIN t
        BY <2>3, <2>4, <4>1, ListFacts
      <4> QED BY <2>3, <2>6, <3>2, <4>2, <4>3 DEF Full
    <3> QED BY <3>1, <3>2
  <2> QED BY <2>5, <2>6 DEF ema
<1> QED BY <1>2, <1>3

LEMMA NonesInPlace == ASSUME NEW n \in Nat PROVE InPlace(Base!Nones(n), n)
  BY NonesList, NonesBy DEF InPlace

LEMMA LedInPlace ==
  ASSUME NEW n \in Nat, NEW k \in 0..n, NEW t, t \in Lists(n - k), By(t, k)
  PROVE  InPlace(Base!Nones(k) \o t, n)
<1> DEFINE c == n - k
<1>1. k \in Nat /\ c \in Nat /\ k + c = n /\ t \in Lists(c) /\ By(t, k + 0)
  OBVIOUS
<1> HIDE DEF c
<1>2. Base!Nones(k) \o t \in Lists(k + c)
  BY <1>1, Led
<1>3. By(Base!Nones(k) \o t, 0)
  BY <1>1, LedBy
<1> QED BY <1>1, <1>2, <1>3 DEF InPlace

LEMMA LedWindows ==
  ASSUME NEW m \in Nat, NEW e \in Nat, NEW s \in Lists(m), By(s, e),
         NEW a \in 1..(m + 1), NEW w \in 1..a,
         NEW t, WindowLoop(t, s, a, m, w)
  PROVE  InPlace(Base!Nones(a - 1 + e) \o t, m + e)
<1>1. t \in Lists(m - a + 1) /\ By(t, a - 1 + e)
  BY Windows
<1>2. m + e \in Nat /\ a - 1 + e \in 0..(m + e) /\ m - a + 1 = (m + e) - (a - 1 + e)
  OBVIOUS
<1> QED BY <1>1, <1>2, LedInPlace

LEMMA LedPrefixes ==
  ASSUME NEW m \in Nat, NEW e \in Nat, NEW s \in Lists(m), By(s, e),
         NEW a \in 1..(m + 1),
         NEW t, PrefixLoop(t, s, a, m)
  PROVE  InPlace(Base!Nones(a - 1 + e) \o t, m + e)
<1>1. t \in Lists(m - a + 1) /\ By(t, a - 1 + e)
  BY Prefixes
<1>2. m + e \in Nat /\ a - 1 + e \in 0..(m + e) /\ m - a + 1 = (m + e) - (a - 1 + e)
  OBVIOUS
<1> QED BY <1>1, <1>2, LedInPlace

LEMMA FullColumn ==
  ASSUME NEW n \in Nat \ {0}
  PROVE  /\ Base!Column(n) \in Lists(n) /\ By(Base!Column(n), 0) /\ Full(Base!Column(n))
         /\ Base!Changes(Base!Column(n)) \in Lists(n - 1)
         /\ By(Base!Changes(Base!Column(n)), 1) /\ Full(Base!Changes(Base!Column(n)))
<1>1. n \in Nat /\ n - 1 \in Nat
  OBVIOUS
<1>2. Base!Column(n) \in Lists(n) /\ By(Base!Column(n), 0) /\ Full(Base!Column(n))
  BY <1>1, ColumnList, ListFacts DEF Full
<1> QED BY <1>1, <1>2, ColumnChanges, ListFacts DEF Full

LEMMA ServerAverages ==
  ASSUME NEW n \in Nat \ {0}, NEW p \in Nat \ {0}
  PROVE  /\ InPlace(Server!Sma(Server!Column(n), p), n)
         /\ InPlace(Server!Ema(Server!Column(n), p), n)
         /\ InPlace(Server!Wma(Server!Column(n), p), n)
<1>1. n \in Nat /\ 0 \in Int
  OBVIOUS
<1>2. /\ InPlace(Server!Sma(Base!Column(n), p), n)
      /\ InPlace(Server!Ema(Base!Column(n), p), n)
  BY <1>1, FullColumn, SmaBy, EmaBy DEF InPlace
<1>3. Server!Wma(Base!Column(n), p) = Server!Sma(Base!Column(n), p)
  BY DEF Server!Wma, Server!Sma, Server!Each
<1> QED BY <1>2, <1>3, ServerBase

LEMMA ServerWilliams ==
  ASSUME NEW n \in Nat \ {0}, NEW p \in Nat \ {0}
  PROVE  /\ InPlace(Server!WilliamsR(n, p), n)
         /\ InPlace(Server!Vhf(n, p), n)
<1> DEFINE c == Base!Column(n)
           t == [i \in 1..(IF n < p THEN 0 ELSE n - p + 1) |->
                   Base!Span(c, p + i - 1 - p + 1, p + i - 1)]
<1>0. n \in Nat
  OBVIOUS
<1>1. CASE n < p
  <2>1. Server!WilliamsR(n, p) = Base!Nones(n) /\ Server!Vhf(n, p) = Base!Nones(n)
    BY <1>1, ServerBase DEF Server!WilliamsR, Server!Vhf
  <2> QED BY <1>0, <2>1, NonesInPlace
<1>2. CASE n >= p
  <2>1. /\ Server!WilliamsR(n, p) = Base!Nones(p - 1) \o t
        /\ Server!Vhf(n, p) = Base!Nones(p - 1) \o t
    <3> DEFINE u == [i \in 1..(IF n < p THEN 0 ELSE n - p + 1) |->
                       Server!Span(Server!Column(n), p + i - 1 - p + 1, p + i - 1)]
    <3>1. Server!WilliamsR(n, p) = Server!Nones(p - 1) \o u
      BY <1>2 DEF Server!WilliamsR, Server!Each
    <3>2. Server!Vhf(n, p) = Server!Nones(p - 1) \o u
      BY <1>2 DEF Server!Vhf, Server!Each
    <3>3. u = t
      BY ServerBase
    <3> HIDE DEF u, t
    <3> QED BY <3>1, <3>2, <3>3, ServerBase
  <2>2. c \in Lists(n) /\ By(c, 0)
    BY FullColumn
  <2> HIDE DEF c
  <2>3. p \in 1..(n + 1) /\ p \in 1..p /\ p - 1 + 0 = p - 1 /\ n + 0 = n
    BY <1>2
  <2>4. InPlace(Base!Nones(p - 1 + 0) \o t, n + 0)
    <3>1. WindowLoop(t, c, p, n, p)
      BY DEF WindowLoop
    <3> QED BY <1>0, <2>2, <2>3, <3>1, LedWindows
  <2> QED BY <2>1, <2>3, <2>4
<1> QED BY <1>1, <1>2

LEMMA ServerChanges ==
  ASSUME NEW n \in Nat \ {0}, NEW v, v = Server!Changes(Server!Column(n))
  PROVE  /\ v \in Lists(n - 1) /\ By(v, 1) /\ Full(v) /\ Len(v) = n - 1
         /\ n - 1 \in Nat
BY FullColumn, ServerBase DEF Lists

LEMMA ServerAtr ==
  ASSUME NEW n \in Nat \ {0}, NEW p \in Nat \ {0}
  PROVE  InPlace(Server!Atr(n, p), n)
<1> DEFINE v == Server!Changes(Server!Column(n))
           u == [i \in 1..(IF Len(v) < p THEN 0 ELSE Len(v) - p + 1) |->
                   Server!Span(v, 1, p + i - 1)]
<1>1. v \in Lists(n - 1) /\ By(v, 1) /\ Len(v) = n - 1 /\ n - 1 \in Nat /\ n \in Nat
  BY ServerChanges
<1>2. CASE Len(v) < p
  <2>1. Server!Atr(n, p) = Base!Nones(n)
    BY <1>2, ServerBase DEF Server!Atr
  <2> QED BY <1>1, <2>1, NonesInPlace
<1>3. CASE ~(Len(v) < p)
  <2>1. Server!Atr(n, p) = Server!Nones(p) \o u
    BY <1>3 DEF Server!Atr, Server!Each
  <2>2. PrefixLoop(u, v, p, n - 1)
    BY <1>1, ServerBase DEF PrefixLoop
  <2> HIDE DEF u, v
  <2>3. p \in 1..(n - 1 + 1) /\ 1 \in Nat /\ p - 1 + 1 = p /\ n - 1 + 1 = n
    BY <1>1, <1>3
  <2>4. InPlace(Base!Nones(p - 1 + 1) \o u, n - 1 + 1)
    BY <1>1, <2>2, <2>3, LedPrefixes
  <2> QED BY <2>1, <2>3, <2>4, ServerBase
<1> QED BY <1>2, <1>3

LEMMA ServerMfi ==
  ASSUME NEW n \in Nat \ {0}, NEW p \in Nat \ {0}
  PROVE  InPlace(Server!Mfi(n, p), n)
<1> DEFINE v == Server!Changes(Server!Column(n))
           u == [i \in 1..(IF Len(v) < p THEN 0 ELSE Len(v) - p + 1) |->
                   Server!Span(v, p + i - 1 - p + 1, p + i - 1)]
<1>1. v \in Lists(n - 1) /\ By(v, 1) /\ Len(v) = n - 1 /\ n - 1 \in Nat /\ n \in Nat
  BY ServerChanges
<1>2. CASE n < p + 1
  <2>1. Server!Mfi(n, p) = Base!Nones(n)
    BY <1>2, ServerBase DEF Server!Mfi
  <2> QED BY <1>1, <2>1, NonesInPlace
<1>3. CASE ~(n < p + 1)
  <2>1. Server!Mfi(n, p) = Server!Nones(p) \o u
    BY <1>3 DEF Server!Mfi, Server!Each
  <2>2. WindowLoop(u, v, p, n - 1, p)
    BY <1>1, ServerBase DEF WindowLoop
  <2> HIDE DEF u, v
  <2>3. p \in 1..(n - 1 + 1) /\ p \in 1..p /\ 1 \in Nat /\ p - 1 + 1 = p /\ n - 1 + 1 = n
    BY <1>1, <1>3
  <2>4. InPlace(Base!Nones(p - 1 + 1) \o u, n - 1 + 1)
    BY <1>1, <2>2, <2>3, LedWindows
  <2> QED BY <2>1, <2>3, <2>4, ServerBase
<1> QED BY <1>2, <1>3

LEMMA OneMore ==
  ASSUME NEW k \in Nat
  PROVE  <<None>> \o Base!Nones(k) = Base!Nones(k + 1)
<1> DEFINE s == <<None>> \o Base!Nones(k)
           r == Base!Nones(k + 1)
<1>1. None \in Entries /\ Base!Nones(k) \in Lists(k) /\ k + 1 \in Nat
  BY NonesList DEF Entries
<1>2. /\ s \in Lists(k + 1)
      /\ s[1] = None
      /\ \A i \in 1..k : s[i + 1] = Base!Nones(k)[i]
  BY <1>1, AheadList
<1>3. r \in Lists(k + 1) /\ \A i \in 1..(k + 1) : r[i] = None
  BY <1>1, NonesList
<1> HIDE DEF s, r
<1>4. ASSUME NEW i \in 1..(k + 1) PROVE s[i] = r[i]
  <2>1. CASE i = 1
    BY <1>2, <1>3, <2>1
  <2>2. CASE i # 1
    <3>1. i - 1 \in 1..k /\ (i - 1) + 1 = i
      BY <2>2
    <3>2. s[i] = Base!Nones(k)[i - 1]
      BY <1>2, <3>1
    <3> QED BY <1>3, <3>1, <3>2, NonesList
  <2> QED BY <2>1, <2>2
<1>5. s = [i \in 1..(k + 1) |-> s[i]] /\ r = [i \in 1..(k + 1) |-> r[i]]
  BY <1>2, <1>3 DEF Lists
<1> QED BY <1>4, <1>5 DEF s, r

LEMMA ServerHistorical ==
  ASSUME NEW n \in Nat \ {0}, NEW p \in Nat \ {0}
  PROVE  InPlace(Server!HistoricalVolatility(n, p), n)
<1> DEFINE v == Server!Changes(Server!Column(n))
           u == [i \in 1..(IF Len(v) < p + 1 THEN 0 ELSE Len(v) - (p + 1) + 1) |->
                   Server!Span(v, p + 1 + i - 1 - p + 1, p + 1 + i - 1)]
<1>1. v \in Lists(n - 1) /\ By(v, 1) /\ Len(v) = n - 1 /\ n - 1 \in Nat /\ n \in Nat
  BY ServerChanges
<1>2. CASE n < p + 1
  <2>1. Server!HistoricalVolatility(n, p) = Base!Nones(n)
    BY <1>2, ServerBase DEF Server!HistoricalVolatility
  <2> QED BY <1>1, <2>1, NonesInPlace
<1>3. CASE ~(n < p + 1)
  <2>1. Server!HistoricalVolatility(n, p) = <<None>> \o Server!Nones(p) \o u
    BY <1>3 DEF Server!HistoricalVolatility, Server!Each
  <2>2. WindowLoop(u, v, p + 1, n - 1, p)
    BY <1>1, ServerBase DEF WindowLoop
  <2> HIDE DEF u, v
  <2>3. /\ p + 1 \in 1..(n - 1 + 1) /\ p \in 1..(p + 1) /\ 1 \in Nat
        /\ p + 1 - 1 + 1 = p + 1 /\ n - 1 + 1 = n
    BY <1>1, <1>3
  <2>4. InPlace(Base!Nones(p + 1 - 1 + 1) \o u, n - 1 + 1)
    BY <1>1, <2>2, <2>3, LedWindows
  <2>5. <<None>> \o Server!Nones(p) = Base!Nones(p + 1)
    BY OneMore, ServerBase
  <2> QED BY <2>1, <2>3, <2>4, <2>5
<1> QED BY <1>2, <1>3

LEMMA ServerRoc ==
  ASSUME NEW n \in Nat \ {0}, NEW p \in Nat \ {0}
  PROVE  InPlace(Server!Roc(n, p), n)
<1> DEFINE u == [i \in 1..(IF n < p + 1 THEN 0 ELSE n - (p + 1) + 1) |->
                   [of |-> {p + 1 + i - 1}, on |-> {p + 1 + i - 1, p + 1 + i - 1 - p}]]
<1>0. n \in Nat
  OBVIOUS
<1>1. CASE n < p + 1
  <2>1. Server!Roc(n, p) = Base!Nones(n)
    BY <1>1, ServerBase DEF Server!Roc
  <2> QED BY <1>0, <2>1, NonesInPlace
<1>2. CASE ~(n < p + 1)
  <2>1. Server!Roc(n, p) = Server!Nones(p) \o u
    BY <1>2 DEF Server!Roc, Server!Each
  <2>2. u = [i \in 1..(n - p) |-> [of |-> {p + i}, on |-> {p + i, i}]]
    <3>1. (IF n < p + 1 THEN 0 ELSE n - (p + 1) + 1) = n - p
      BY <1>2
    <3>2. \A i \in 1..(n - p) : p + 1 + i - 1 = p + i /\ p + 1 + i - 1 - p = i
      OBVIOUS
    <3> QED BY <3>1, <3>2
  <2> HIDE DEF u
  <2>3. ASSUME NEW i \in 1..(n - p)
        PROVE  u[i] \in Entries /\ BesideItsBar(u[i], i + p)
    <3>1. u[i] = [of |-> {p + i}, on |-> {p + i, i}]
      BY <2>2
    <3>2. p + i \in Nat /\ i \in Nat /\ 0 \notin {p + i, i} /\ i + p = p + i
      OBVIOUS
    <3> QED BY <3>1, <3>2 DEF Entries, Figures, BesideItsBar
  <2>4. n - p \in Nat /\ p \in 0..n
    BY <1>2
  <2>5. u \in Lists(n - p)
    BY <2>2, <2>3, <2>4, AList
  <2>6. By(u, p)
    BY <2>3, <2>4, <2>5, ByOf
  <2> QED BY <1>0, <2>1, <2>4, <2>5, <2>6, LedInPlace, ServerBase
<1> QED BY <1>1, <1>2

LEMMA ServerCci ==
  ASSUME NEW n \in Nat \ {0}, NEW p \in Nat \ {0}
  PROVE  InPlace(Server!Cci(n, p), n)
<1> DEFINE c == Server!Column(n)
           sma == Server!Sma(c, p)
           u == [i \in 1..(IF n < p THEN 0 ELSE n - p + 1) |->
                   Server!Joint({Server!Span(c, p + i - 1 - p + 1, p + i - 1), sma[p + i - 1]})]
<1>0. n \in Nat /\ 0 \in Int
  OBVIOUS
<1>1. CASE n < p
  <2> HIDE DEF u
  <2>1. Server!Cci(n, p) = Base!Nones(n)
    BY <1>1, ServerBase DEF Server!Cci
  <2> QED BY <1>0, <2>1, NonesInPlace
<1>2. CASE ~(n < p)
  <2>1. Server!Cci(n, p) = Server!Nones(p - 1) \o u
    BY <1>2, SMTT(30) DEF Server!Cci, Server!Each
  <2>2. c \in Lists(n) /\ By(c, 0)
    BY FullColumn, ServerBase
  <2>3. sma \in Lists(n) /\ By(sma, 0)
    BY <1>0, <2>2, SmaBy
  <2> HIDE DEF c, sma
  <2>4. u = [i \in 1..(n - p + 1) |-> Base!Joint({Base!Span(c, i, p + i - 1), sma[p + i - 1]})]
    <3>1. (IF n < p THEN 0 ELSE n - p + 1) = n - p + 1
      BY <1>2
    <3>2. \A i \in 1..(n - p + 1) : p + i - 1 - p + 1 = i
      OBVIOUS
    <3> QED BY <3>1, <3>2, ServerBase
  <2> HIDE DEF u
  <2>5. ASSUME NEW i \in 1..(n - p + 1)
        PROVE  u[i] \in Entries /\ BesideItsBar(u[i], i + (p - 1))
    <3> DEFINE b == p + i - 1
    <3>1. b \in 1..n /\ i \in 1..n /\ b \in i..n /\ b + 0 = i + (p - 1)
      BY <1>2
    <3>2. u[i] = Base!Joint({Base!Span(c, i, b), sma[b]})
      BY <2>4
    <3> HIDE DEF b
    <3>3. Base!Span(c, i, b) \in Entries /\ BesideItsBar(Base!Span(c, i, b), b + 0)
      BY <1>0, <2>2, <3>1, SpanFacts, SpanBeside
    <3>4. sma[b] \in Entries /\ BesideItsBar(sma[b], b + 0)
      BY <1>0, <2>3, <3>1, ListFacts, ByAt
    <3>5. BesideItsBar(u[i], b + 0) /\ u[i] \in Entries
      BY <3>2, <3>3, <3>4, JointBeside, JointFacts
    <3> QED BY <3>1, <3>5
  <2>6. n - p + 1 \in Nat /\ p - 1 \in 0..n /\ n - p + 1 = n - (p - 1)
    BY <1>2
  <2>7. u \in Lists(n - p + 1)
    BY <2>4, <2>5, <2>6, AList
  <2>8. By(u, p - 1)
    BY <2>5, <2>6, <2>7, ByOf
  <2> QED BY <1>0, <2>1, <2>6, <2>7, <2>8, LedInPlace, ServerBase
<1> QED BY <1>1, <1>2

LEMMA ServerBollinger ==
  ASSUME NEW n \in Nat \ {0}, NEW p \in Nat \ {0}, NEW f \in DOMAIN Server!Bollinger(n, p)
  PROVE  By(Server!Bollinger(n, p)[f], 0)
<1> DEFINE c == Server!Column(n)
           sma == Server!Sma(c, p)
           band == [i \in 1..(IF n < 1 THEN 0 ELSE n - 1 + 1) |->
                      IF 1 + i - 1 < p THEN None
                      ELSE Server!Joint({sma[1 + i - 1],
                                         Server!Span(c, 1 + i - 1 - p + 1, 1 + i - 1)})]
<1>0. n \in Nat /\ 0 \in Int
  OBVIOUS
<1>1. Server!Bollinger(n, p) = [upper |-> band, middle |-> sma, lower |-> band]
  BY DEF Server!Bollinger, Server!Each
<1>2. c \in Lists(n) /\ By(c, 0)
  BY FullColumn, ServerBase
<1>3. sma \in Lists(n) /\ By(sma, 0)
  BY <1>0, <1>2, SmaBy
<1> HIDE DEF c, sma
<1>4. /\ DOMAIN band = 1..n
      /\ \A i \in 1..n : band[i] = IF i < p THEN None
                                   ELSE Base!Joint({sma[i], Base!Span(c, i - p + 1, i)})
  <2>1. (IF n < 1 THEN 0 ELSE n - 1 + 1) = n /\ \A i \in 1..n : 1 + i - 1 = i
    OBVIOUS
  <2> QED BY <2>1, ServerBase
<1> HIDE DEF band
<1>5. ASSUME NEW i \in 1..n PROVE BesideItsBar(band[i], i + 0)
  <2>1. CASE i < p
    BY <1>4, <2>1 DEF BesideItsBar
  <2>2. CASE ~(i < p)
    <3> DEFINE a == i - p + 1
    <3>1. a \in 1..n /\ i \in a..n
      BY <2>2
    <3>2. band[i] = Base!Joint({sma[i], Base!Span(c, a, i)})
      BY <1>4, <2>2
    <3> HIDE DEF a
    <3>3. Base!Span(c, a, i) \in Entries /\ BesideItsBar(Base!Span(c, a, i), i + 0)
      BY <1>0, <1>2, <3>1, SpanFacts, SpanBeside
    <3>4. sma[i] \in Entries /\ BesideItsBar(sma[i], i + 0)
      BY <1>0, <1>3, ListFacts, ByAt
    <3> QED BY <3>2, <3>3, <3>4, JointBeside
  <2> QED BY <2>1, <2>2
<1>6. By(band, 0)
  BY <1>4, <1>5 DEF By
<1> QED BY <1>1, <1>3, <1>6

LEMMA ServerSums ==
  ASSUME NEW n \in Nat \ {0}, NEW dry
  PROVE  /\ By(Server!Obv(n), 0)
         /\ By(Server!AccumulationDistribution(n), 0)
         /\ By(Server!Vwap(n, dry), 0)
<1> DEFINE c == Base!Column(n)
<1>0. /\ n \in Nat /\ 0 \in Int
      /\ (IF n < 1 THEN 0 ELSE n - 1 + 1) = n /\ \A i \in 1..n : 1 + i - 1 = i
  OBVIOUS
<1>1. ASSUME NEW i \in 1..n PROVE BesideItsBar(Base!Span(c, 1, i), i + 0)
  <2>1. c \in Lists(n) /\ By(c, 0)
    BY FullColumn
  <2> HIDE DEF c
  <2>2. 1 \in 1..n /\ i \in 1..n
    OBVIOUS
  <2> QED BY <1>0, <2>1, <2>2, SpanBeside
<1>2. By(Server!Obv(n), 0)
  <2> DEFINE u == Server!Obv(n)
  <2>1. u = [i \in 1..(IF n < 1 THEN 0 ELSE n - 1 + 1) |->
               Server!Span(Server!Column(n), 1, 1 + i - 1)]
    BY DEF Server!Obv, Server!Each
  <2> HIDE DEF u, c
  <2>2. DOMAIN u = 1..n /\ \A i \in 1..n : u[i] = Base!Span(c, 1, i)
    BY <1>0, <2>1, ServerBase DEF c
  <2>3. By(u, 0)
    BY <1>1, <2>2 DEF By
  <2> QED BY <2>3 DEF u
<1>3. Server!AccumulationDistribution(n) = Server!Obv(n)
  BY DEF Server!AccumulationDistribution, Server!Obv, Server!Each
<1>4. By(Server!Vwap(n, dry), 0)
  <2> DEFINE u == Server!Vwap(n, dry)
  <2>1. u = [i \in 1..(IF n < 1 THEN 0 ELSE n - 1 + 1) |->
               IF 1 + i - 1 <= dry THEN None
               ELSE Server!Span(Server!Column(n), 1, 1 + i - 1)]
    BY DEF Server!Vwap, Server!Each
  <2> HIDE DEF u, c
  <2>2. /\ DOMAIN u = 1..n
        /\ \A i \in 1..n : u[i] = IF i <= dry THEN None ELSE Base!Span(c, 1, i)
    BY <1>0, <2>1, ServerBase DEF c
  <2>3. By(u, 0)
    BY <1>1, <2>2 DEF By, BesideItsBar
  <2> QED BY <2>3 DEF u
<1> QED BY <1>2, <1>3, <1>4

LEMMA ServerBands ==
  ASSUME NEW n \in Nat \ {0}, NEW p \in Nat \ {0}
  PROVE  /\ \A f \in DOMAIN Server!Keltner(n, p) : InPlace(Server!Keltner(n, p)[f], n)
         /\ InPlace(Server!Natr(n, p), n)
<1>0. n \in Nat
  OBVIOUS
<1>1. /\ InPlace(Server!Atr(n, p), n)
      /\ InPlace(Server!Ema(Server!Column(n), p), n)
      /\ InPlace(Server!Column(n), n)
  BY <1>0, ServerAtr, ServerAverages, ColumnInPlace, ServerBase
<1>2. /\ InPlace(Server!Zip(Server!Ema(Server!Column(n), p), Server!Atr(n, p)), n)
      /\ InPlace(Server!Zip(Server!Atr(n, p), Server!Column(n)), n)
  BY <1>0, <1>1, InPlaceKept, ServerBase
<1> QED BY <1>1, <1>2 DEF Server!Keltner, Server!Natr

(* Of a list that begins with nones and has all its numbers after them,    *)
(* the numbers are what came after.                                        *)
LEMMA KnownOfLed ==
  ASSUME NEW k \in Nat, NEW c \in Nat, NEW t \in Lists(c), Full(t)
  PROVE  Base!Known(Base!Nones(k) \o t) = t
<1> DEFINE s == Base!Nones(k) \o t
           known == Base!Known(s)
<1>1. /\ s \in Lists(k + c)
      /\ \A i \in 1..k : s[i] = None
      /\ \A i \in 1..c : s[k + i] = t[i]
  BY Led
<1>2. \A i \in 1..c : t[i] # None
  BY ListFacts DEF Full
<1>3. k + c \in Nat /\ k \in 0..(k + c) /\ (k + c) - k = c
  OBVIOUS
<1> HIDE DEF s
<1>4. \A i \in (k + 1)..(k + c) : s[i] # None
  <2> SUFFICES ASSUME NEW i \in (k + 1)..(k + c) PROVE s[i] # None
    OBVIOUS
  <2>1. i - k \in 1..c /\ k + (i - k) = i
    OBVIOUS
  <2> QED BY <1>1, <1>2, <2>1
<1> DEFINE n == k + c
<1>5. n \in Nat /\ s \in Lists(n) /\ k \in 0..n /\ n - k = c
      /\ \A i \in (k + 1)..n : s[i] # None
  BY <1>1, <1>3, <1>4
<1> HIDE DEF n
<1>6. /\ known \in Lists(n - k)
      /\ \A i \in 1..(n - k) : known[i] = s[k + i]
  BY <1>1, <1>5, KnownList
<1> HIDE DEF known
<1>7. known \in Lists(c) /\ \A i \in 1..c : known[i] = t[i]
  BY <1>1, <1>5, <1>6
<1>8. known = [i \in 1..c |-> known[i]] /\ t = [i \in 1..c |-> t[i]]
  BY <1>7 DEF Lists
<1>9. known = t
  BY <1>7, <1>8
<1> QED BY <1>9 DEF known, s

LEMMA ServerStochastic ==
  ASSUME NEW n \in Nat \ {0}, NEW p \in Nat \ {0}
  PROVE  \A f \in DOMAIN Server!Stochastic(n, p, 1, 1) :
           InPlace(Server!Stochastic(n, p, 1, 1)[f], n)
<1> DEFINE c == Server!Column(n)
           u == [i \in 1..(IF n < p THEN 0 ELSE n - p + 1) |->
                   Server!Span(c, p + i - 1 - p + 1, p + i - 1)]
           raw == Server!RawK(n, p)
           fast == IF 1 > 1 THEN Server!Nones(p - 1) \o Server!Sma(Server!Known(raw), 1) ELSE raw
           slow == Server!Nones(p - 1) \o Server!Sma(Server!Known(fast), 1)
<1>0. n \in Nat
  OBVIOUS
<1>1. CASE n < p
  <2>1. Server!Stochastic(n, p, 1, 1) = [k |-> Base!Nones(n), d |-> Base!Nones(n)]
    BY <1>1, ServerBase DEF Server!Stochastic
  <2> QED BY <1>0, <2>1, NonesInPlace
<1>2. CASE ~(n < p)
  <2> DEFINE both == [k |-> fast, d |-> slow]
  <2>1. Server!Stochastic(n, p, 1, 1) =
          IF n < p THEN [k |-> Server!Nones(n), d |-> Server!Nones(n)] ELSE both
    BY DEF Server!Stochastic
  <2>2. Server!Stochastic(n, p, 1, 1) = both
    BY <1>2, <2>1
  <2>3. fast = raw
    <3> HIDE DEF raw
    <3> QED OBVIOUS
  <2> HIDE DEF fast
  <2>0. raw = Server!Nones(p - 1) \o u
    BY DEF Server!RawK, Server!Each
  <2>4. c \in Lists(n) /\ By(c, 0) /\ Full(c)
    BY FullColumn, ServerBase
  <2>5. WindowLoop(u, c, p, n, p)
    BY ServerBase DEF WindowLoop
  <2> HIDE DEF c, u
  <2>6. /\ p \in 1..(n + 1) /\ p \in 1..p /\ p - 1 + 0 = p - 1 /\ n - p + 1 = n - (p - 1)
        /\ p - 1 \in 0..n /\ p - 1 \in Nat /\ n - p + 1 \in Nat /\ 0 \in Int /\ 1 \in Nat \ {0}
        /\ p - 1 \in Int
    BY <1>2
  <2>7. u \in Lists(n - p + 1) /\ By(u, p - 1 + 0) /\ Full(u)
    BY <1>0, <2>4, <2>5, <2>6, Windows
  <2>8. raw = Base!Nones(p - 1) \o u
    BY <2>0, ServerBase
  <2> HIDE DEF raw
  <2>9. InPlace(raw, n)
    BY <1>0, <2>6, <2>7, <2>8, LedInPlace
  <2>10. Server!Known(fast) = u
    BY <2>3, <2>6, <2>7, <2>8, KnownOfLed, ServerBase
  <2>11. Server!Sma(u, 1) \in Lists(n - p + 1) /\ By(Server!Sma(u, 1), p - 1)
    BY <2>6, <2>7, SmaBy
  <2>12. slow = Base!Nones(p - 1) \o Server!Sma(u, 1)
    BY <2>10, ServerBase
  <2> HIDE DEF slow
  <2>13. InPlace(slow, n)
    BY <1>0, <2>6, <2>11, <2>12, LedInPlace
  <2>14. DOMAIN both = {"k", "d"} /\ both.k = raw /\ both.d = slow
    BY <2>3
  <2> HIDE DEF both
  <2> QED BY <2>2, <2>9, <2>13, <2>14
<1> QED BY <1>1, <1>2

LEMMA ServerMacd ==
  ASSUME NEW n \in Nat \ {0}, NEW a \in Nat \ {0}, NEW b \in Nat \ {0}, NEW p \in Nat \ {0},
         NEW f \in DOMAIN Server!Macd(n, a, b, p)
  PROVE  InPlace(Server!Macd(n, a, b, p)[f], n)
<1> DEFINE c == Server!Column(n)
           short == Server!Ema(c, a)
           long == Server!Ema(c, b)
           macd == Server!Zip(short, long)
           known == Server!Known(macd)
           sig == Server!Nones(Len(macd) - Len(known)) \o Server!Ema(known, p)
           longer == IF a < b THEN b ELSE a
           k == IF longer - 1 < n THEN longer - 1 ELSE n
<1>0. n \in Nat /\ 0 \in Int /\ k \in 0..n /\ n - k \in Nat /\ k \in Int
  OBVIOUS
<1>1. c \in Lists(n) /\ By(c, 0) /\ Full(c)
  BY FullColumn, ServerBase
<1>2. Server!Macd(n, a, b, p) = [macd |-> macd, signal |-> sig, histogram |-> Server!Zip(macd, sig)]
  BY DEF Server!Macd
<1> HIDE DEF c
<1>3. /\ short \in Lists(n) /\ By(short, 0)
      /\ \A i \in 1..n : short[i] = None <=> i < a
      /\ long \in Lists(n) /\ By(long, 0)
      /\ \A i \in 1..n : long[i] = None <=> i < b
  BY <1>0, <1>1, EmaBy
<1> HIDE DEF short, long
<1>14. macd = Base!Zip(short, long)
  BY ServerBase
<1> HIDE DEF macd
<1>4. macd \in Lists(n) /\ By(macd, 0)
  BY <1>0, <1>3, <1>14, ZipBy
<1>5. \A i \in 1..n : macd[i] = None <=> i < longer
  <2>0. short \in Lists(n) /\ long \in Lists(n) /\ n \in Nat
    BY <1>0, <1>3
  <2>1. \A i \in 1..n : macd[i] = None <=> short[i] = None \/ long[i] = None
    <3>1. NoneWithEither(macd, short, long, n)
      BY ONLY <2>0, <1>14, ZipNones
    <3> QED BY ONLY <3>1 DEF NoneWithEither
  <2> QED BY <1>3, <2>1
<1>6. /\ \A i \in 1..k : macd[i] = None
      /\ \A i \in (k + 1)..n : macd[i] # None
  <2>1. \A i \in 1..k : i \in 1..n /\ i < longer
    OBVIOUS
  <2>2. \A i \in (k + 1)..n : i \in 1..n /\ ~(i < longer)
    OBVIOUS
  <2> QED BY <1>5, <2>1, <2>2
<1> HIDE DEF k
<1>15. known = Base!Known(macd)
  BY ServerBase
<1>7. known \in Lists(n - k) /\ \A i \in 1..(n - k) : known[i] = macd[k + i]
  <2> HIDE DEF known
  <2>1. n \in Nat /\ macd \in Lists(n) /\ k \in 0..n
    BY <1>0, <1>4
  <2> QED BY ONLY <1>6, <1>15, <2>1, KnownList, ZenonT(30)
<1> HIDE DEF known
<1>8. By(known, k)
  <2>1. ASSUME NEW i \in 1..(n - k) PROVE BesideItsBar(known[i], i + k)
    <3>1. k + i \in 1..n /\ (k + i) + 0 = i + k
      BY <1>0
    <3>2. BesideItsBar(macd[k + i], (k + i) + 0)
      BY <1>0, <1>4, <3>1, ByAt
    <3> QED BY <1>7, <3>1, <3>2
  <2> QED BY <1>0, <1>7, <2>1, ByOf
<1>9. Server!Ema(known, p) \in Lists(n - k) /\ By(Server!Ema(known, p), k)
  BY <1>0, <1>7, <1>8, EmaBy
<1>10. Len(macd) - Len(known) = k
  <2>1. Len(macd) = n /\ Len(known) = n - k
    BY <1>0, <1>4, <1>7, ListFacts
  <2> QED BY <1>0, <2>1
<1>11. InPlace(sig, n)
  BY <1>0, <1>9, <1>10, LedInPlace, ServerBase
<1>12. InPlace(macd, n)
  BY <1>4 DEF InPlace
<1> HIDE DEF sig
<1>13. InPlace(Server!Zip(macd, sig), n)
  BY <1>0, <1>11, <1>12, InPlaceKept, ServerBase
<1> QED BY <1>2, <1>11, <1>12, <1>13

LEMMA TrueRangeFull ==
  ASSUME NEW n \in Nat \ {0}
  PROVE  Full(Base!TrueRange(n))
<1> DEFINE v == Base!Column(n)[1]
           t == Base!Changes(Base!Column(n))
           r == Base!TrueRange(n)
<1>1. n - 1 \in Nat /\ (n - 1) + 1 = n /\ n \in Nat /\ 1 \in 1..n
  OBVIOUS
<1>2. v \in Entries /\ v # None
  BY <1>1, ColumnList, ListFacts
<1>3. t \in Lists(n - 1) /\ Full(t) /\ DOMAIN t = 1..(n - 1)
  BY <1>1, FullColumn, ListFacts
<1>4. r = <<v>> \o t
  BY DEF Base!TrueRange
<1> HIDE DEF v, t, r
<1>5. /\ r \in Lists((n - 1) + 1)
      /\ r[1] = v
      /\ \A i \in 1..(n - 1) : r[i + 1] = t[i]
  BY <1>1, <1>2, <1>3, <1>4, AheadList
<1>6. DOMAIN r = 1..n
  BY <1>1, <1>5, ListFacts
<1>7. ASSUME NEW i \in 1..n PROVE r[i] # None
  <2>1. CASE i = 1
    BY <1>2, <1>5, <2>1
  <2>2. CASE i # 1
    <3>1. i - 1 \in 1..(n - 1) /\ (i - 1) + 1 = i
      BY <2>2
    <3> QED BY <1>3, <1>5, <3>1 DEF Full
  <2> QED BY <2>1, <2>2
<1> QED BY <1>6, <1>7 DEF Full, r

LEMMA ServerAdx ==
  ASSUME NEW n \in Nat \ {0}, NEW p \in Nat \ {0}
  PROVE  \A f \in DOMAIN Server!Adx(n, p) : By(Server!Adx(n, p)[f], 0)
<1> DEFINE di == Server!DirectionalIndex(n, p)
           dx == Server!Known(di)
           late == IF Len(dx) >= p
                   THEN [i \in 1..(IF Len(dx) < p THEN 0 ELSE Len(dx) - p + 1) |->
                           Server!Span(dx, 1, p + i - 1)]
                   ELSE <<>>
           adx == Server!Nones(2 * p - 1) \o late
           none == [plus_di |-> Server!Nones(n), minus_di |-> Server!Nones(n),
                    adx |-> Server!Nones(n)]
           all == [plus_di |-> di, minus_di |-> di, adx |-> adx]
<1>0. n \in Nat /\ 0 \in Int
  OBVIOUS
<1>1. Server!Adx(n, p) = IF n < p + 1 THEN none ELSE all
  BY DEF Server!Adx, Server!Each
<1>2. CASE n < p + 1
  <2>1. By(Server!Nones(n), 0)
    BY <1>0, NonesBy, ServerBase
  <2> QED BY <1>1, <1>2, <2>1
<1>3. CASE ~(n < p + 1)
  <2> DEFINE moves == <<Server!Column(n)[1]>> \o Server!Changes(Server!Column(n))
             u == [i \in 1..(IF n < p + 1 THEN 0 ELSE n - (p + 1) + 1) |->
                     Server!Span(moves, 1, p + 1 + i - 1)]
  <2>1. di = Server!Nones(p) \o u
    BY DEF Server!DirectionalIndex, Server!Each
  <2>2. moves = Base!TrueRange(n)
    BY ServerBase DEF Base!TrueRange
  <2>3. moves \in Lists(n) /\ By(moves, 0) /\ Full(moves)
    BY <2>2, TrueRangeInPlace, TrueRangeFull DEF InPlace
  <2>4. PrefixLoop(u, moves, p + 1, n)
    BY <1>3, ServerBase DEF PrefixLoop
  <2> HIDE DEF moves, u
  <2>5. /\ p + 1 \in 1..(n + 1) /\ n - (p + 1) + 1 = n - p /\ p + 1 - 1 + 0 = p
        /\ p \in Nat /\ p \in Int /\ n - p \in Nat /\ p = p + 0
    BY <1>3
  <2>6. u \in Lists(n - p) /\ By(u, p) /\ Full(u)
    BY <1>0, <2>3, <2>4, <2>5, Prefixes
  <2>7. di = Base!Nones(p) \o u
    BY <2>1, ServerBase
  <2>8. dx = u
    BY <2>5, <2>6, <2>7, KnownOfLed, ServerBase
  <2> HIDE DEF di
  <2>9. By(di, 0)
    BY <1>0, <2>5, <2>6, <2>7, LedBy
  <2> HIDE DEF dx
  <2>10. Len(dx) = n - p
    BY <2>5, <2>6, <2>8, ListFacts
  <2>11. PICK c \in Nat : late \in Lists(c) /\ By(late, 2 * p - 1)
    <3>1. CASE n - p >= p
      <4>1. PrefixLoop(late, u, p, n - p)
        BY <2>8, <2>10, <3>1, ServerBase DEF PrefixLoop
      <4> HIDE DEF late
      <4>2. /\ p \in 1..(n - p + 1) /\ n - p - p + 1 \in Nat /\ p - 1 + p = 2 * p - 1
        BY <3>1
      <4> QED BY <2>5, <2>6, <4>1, <4>2, Prefixes
    <3>2. CASE ~(n - p >= p)
      <4>1. late = <<>>
        BY <2>10, <3>2
      <4> HIDE DEF late
      <4>2. late \in Lists(0) /\ DOMAIN late = {}
        BY <4>1 DEF Lists
      <4> QED BY <4>2 DEF By
    <3> QED BY <3>1, <3>2
  <2> HIDE DEF late
  <2>12. adx = Base!Nones(2 * p - 1) \o late
    BY ServerBase
  <2>13. 2 * p - 1 \in Nat /\ 2 * p - 1 = 2 * p - 1 + 0
    OBVIOUS
  <2> HIDE DEF adx
  <2>14. By(adx, 0)
    BY <1>0, <2>11, <2>12, <2>13, LedBy
  <2>15. /\ DOMAIN all = {"plus_di", "minus_di", "adx"}
         /\ all.plus_di = di /\ all.minus_di = di /\ all.adx = adx
    OBVIOUS
  <2>16. Server!Adx(n, p) = all
    BY <1>1, <1>3
  <2> HIDE DEF all
  <2> QED BY <2>9, <2>14, <2>15, <2>16
<1> QED BY <1>2, <1>3

LEMMA OneBy ==
  ASSUME NEW n, NEW s, InPlace(s, n) \/ By(s, 0)
  PROVE  \A f \in DOMAIN Server!One(s) : By(Server!One(s)[f], 0)
BY DEF Server!One, InPlace

(* The server's lists, but those that OutOfStep names, stand beside their  *)
(* bars.                                                                   *)
LEMMA ServerInPlace ==
  ASSUME NEW n \in Nat \ {0}, NEW r, NEW p \in Nat \ {0}, NEW q \in Nat \ {0},
         r.p = p, r.q = q,
         r.indicator \in Server!Registry \ {"rsi", "tema", "dema", "mass_index"},
         r.indicator = "stochastic" => q = 1
  PROVE  \A f \in DOMAIN ServerResult(r, n) : By(ServerResult(r, n)[f], 0)
<1> DEFINE lists == ServerResult(r, n)
           Placed(result) == \A f \in DOMAIN result : By(result[f], 0)
<1>1. CASE r.indicator = "roc"
  <2>1. lists = Server!One(Server!Roc(n, p))
    BY <1>1 DEF ServerResult, Server!Calculate
  <2> HIDE DEF lists
  <2>2. InPlace(Server!Roc(n, p), n) \/ By(Server!Roc(n, p), 0)
    BY ServerRoc
  <2>3. Placed(Server!One(Server!Roc(n, p)))
    BY <2>2, OneBy
  <2> HIDE DEF Placed
  <2>4. Placed(lists)
    BY <2>1, <2>3
  <2> QED BY <2>4 DEF Placed, lists
<1>2. CASE r.indicator = "volume_roc"
  <2>1. lists = Server!One(Server!Roc(n, p))
    BY <1>2 DEF ServerResult, Server!Calculate, Server!VolumeRoc
  <2> HIDE DEF lists
  <2>2. InPlace(Server!Roc(n, p), n) \/ By(Server!Roc(n, p), 0)
    BY ServerRoc
  <2>3. Placed(Server!One(Server!Roc(n, p)))
    BY <2>2, OneBy
  <2> HIDE DEF Placed
  <2>4. Placed(lists)
    BY <2>1, <2>3
  <2> QED BY <2>4 DEF Placed, lists
<1>3. CASE r.indicator = "cci"
  <2>1. lists = Server!One(Server!Cci(n, p))
    BY <1>3 DEF ServerResult, Server!Calculate
  <2> HIDE DEF lists
  <2>2. InPlace(Server!Cci(n, p), n) \/ By(Server!Cci(n, p), 0)
    BY ServerCci
  <2>3. Placed(Server!One(Server!Cci(n, p)))
    BY <2>2, OneBy
  <2> HIDE DEF Placed
  <2>4. Placed(lists)
    BY <2>1, <2>3
  <2> QED BY <2>4 DEF Placed, lists
<1>4. CASE r.indicator = "williams_r"
  <2>1. lists = Server!One(Server!WilliamsR(n, p))
    BY <1>4 DEF ServerResult, Server!Calculate
  <2> HIDE DEF lists
  <2>2. InPlace(Server!WilliamsR(n, p), n) \/ By(Server!WilliamsR(n, p), 0)
    BY ServerWilliams
  <2>3. Placed(Server!One(Server!WilliamsR(n, p)))
    BY <2>2, OneBy
  <2> HIDE DEF Placed
  <2>4. Placed(lists)
    BY <2>1, <2>3
  <2> QED BY <2>4 DEF Placed, lists
<1>5. CASE r.indicator = "sma"
  <2>1. lists = Server!One(Server!Sma(Server!Column(n), p))
    BY <1>5 DEF ServerResult, Server!Calculate
  <2> HIDE DEF lists
  <2>2. InPlace(Server!Sma(Server!Column(n), p), n) \/ By(Server!Sma(Server!Column(n), p), 0)
    BY ServerAverages
  <2>3. Placed(Server!One(Server!Sma(Server!Column(n), p)))
    BY <2>2, OneBy
  <2> HIDE DEF Placed
  <2>4. Placed(lists)
    BY <2>1, <2>3
  <2> QED BY <2>4 DEF Placed, lists
<1>6. CASE r.indicator = "ema"
  <2>1. lists = Server!One(Server!Ema(Server!Column(n), p))
    BY <1>6 DEF ServerResult, Server!Calculate
  <2> HIDE DEF lists
  <2>2. InPlace(Server!Ema(Server!Column(n), p), n) \/ By(Server!Ema(Server!Column(n), p), 0)
    BY ServerAverages
  <2>3. Placed(Server!One(Server!Ema(Server!Column(n), p)))
    BY <2>2, OneBy
  <2> HIDE DEF Placed
  <2>4. Placed(lists)
    BY <2>1, <2>3
  <2> QED BY <2>4 DEF Placed, lists
<1>7. CASE r.indicator = "wma"
  <2>1. lists = Server!One(Server!Wma(Server!Column(n), p))
    BY <1>7 DEF ServerResult, Server!Calculate
  <2> HIDE DEF lists
  <2>2. InPlace(Server!Wma(Server!Column(n), p), n) \/ By(Server!Wma(Server!Column(n), p), 0)
    BY ServerAverages
  <2>3. Placed(Server!One(Server!Wma(Server!Column(n), p)))
    BY <2>2, OneBy
  <2> HIDE DEF Placed
  <2>4. Placed(lists)
    BY <2>1, <2>3
  <2> QED BY <2>4 DEF Placed, lists
<1>8. CASE r.indicator = "atr"
  <2>1. lists = Server!One(Server!Atr(n, p))
    BY <1>8 DEF ServerResult, Server!Calculate
  <2> HIDE DEF lists
  <2>2. InPlace(Server!Atr(n, p), n) \/ By(Server!Atr(n, p), 0)
    BY ServerAtr
  <2>3. Placed(Server!One(Server!Atr(n, p)))
    BY <2>2, OneBy
  <2> HIDE DEF Placed
  <2>4. Placed(lists)
    BY <2>1, <2>3
  <2> QED BY <2>4 DEF Placed, lists
<1>9. CASE r.indicator = "natr"
  <2>1. lists = Server!One(Server!Natr(n, p))
    BY <1>9 DEF ServerResult, Server!Calculate
  <2> HIDE DEF lists
  <2>2. InPlace(Server!Natr(n, p), n) \/ By(Server!Natr(n, p), 0)
    BY ServerBands
  <2>3. Placed(Server!One(Server!Natr(n, p)))
    BY <2>2, OneBy
  <2> HIDE DEF Placed
  <2>4. Placed(lists)
    BY <2>1, <2>3
  <2> QED BY <2>4 DEF Placed, lists
<1>10. CASE r.indicator = "historical_volatility"
  <2>1. lists = Server!One(Server!HistoricalVolatility(n, p))
    BY <1>10 DEF ServerResult, Server!Calculate
  <2> HIDE DEF lists
  <2>2. InPlace(Server!HistoricalVolatility(n, p), n) \/ By(Server!HistoricalVolatility(n, p), 0)
    BY ServerHistorical
  <2>3. Placed(Server!One(Server!HistoricalVolatility(n, p)))
    BY <2>2, OneBy
  <2> HIDE DEF Placed
  <2>4. Placed(lists)
    BY <2>1, <2>3
  <2> QED BY <2>4 DEF Placed, lists
<1>11. CASE r.indicator = "obv"
  <2>1. lists = Server!One(Server!Obv(n))
    BY <1>11 DEF ServerResult, Server!Calculate
  <2> HIDE DEF lists
  <2>2. InPlace(Server!Obv(n), n) \/ By(Server!Obv(n), 0)
    BY ServerSums
  <2>3. Placed(Server!One(Server!Obv(n)))
    BY <2>2, OneBy
  <2> HIDE DEF Placed
  <2>4. Placed(lists)
    BY <2>1, <2>3
  <2> QED BY <2>4 DEF Placed, lists
<1>12. CASE r.indicator = "vwap"
  <2>1. lists = Server!One(Server!Vwap(n, q))
    BY <1>12 DEF ServerResult, Server!Calculate
  <2> HIDE DEF lists
  <2>2. InPlace(Server!Vwap(n, q), n) \/ By(Server!Vwap(n, q), 0)
    BY ServerSums
  <2>3. Placed(Server!One(Server!Vwap(n, q)))
    BY <2>2, OneBy
  <2> HIDE DEF Placed
  <2>4. Placed(lists)
    BY <2>1, <2>3
  <2> QED BY <2>4 DEF Placed, lists
<1>13. CASE r.indicator = "accumulation_distribution"
  <2>1. lists = Server!One(Server!AccumulationDistribution(n))
    BY <1>13 DEF ServerResult, Server!Calculate
  <2> HIDE DEF lists
  <2>2. InPlace(Server!AccumulationDistribution(n), n) \/ By(Server!AccumulationDistribution(n), 0)
    BY ServerSums
  <2>3. Placed(Server!One(Server!AccumulationDistribution(n)))
    BY <2>2, OneBy
  <2> HIDE DEF Placed
  <2>4. Placed(lists)
    BY <2>1, <2>3
  <2> QED BY <2>4 DEF Placed, lists
<1>14. CASE r.indicator = "mfi"
  <2>1. lists = Server!One(Server!Mfi(n, p))
    BY <1>14 DEF ServerResult, Server!Calculate
  <2> HIDE DEF lists
  <2>2. InPlace(Server!Mfi(n, p), n) \/ By(Server!Mfi(n, p), 0)
    BY ServerMfi
  <2>3. Placed(Server!One(Server!Mfi(n, p)))
    BY <2>2, OneBy
  <2> HIDE DEF Placed
  <2>4. Placed(lists)
    BY <2>1, <2>3
  <2> QED BY <2>4 DEF Placed, lists
<1>15. CASE r.indicator = "qstick"
  <2>1. lists = Server!One(Server!Sma(Server!Column(n), p))
    BY <1>15 DEF ServerResult, Server!Calculate, Server!Qstick
  <2> HIDE DEF lists
  <2>2. InPlace(Server!Sma(Server!Column(n), p), n) \/ By(Server!Sma(Server!Column(n), p), 0)
    BY ServerAverages
  <2>3. Placed(Server!One(Server!Sma(Server!Column(n), p)))
    BY <2>2, OneBy
  <2> HIDE DEF Placed
  <2>4. Placed(lists)
    BY <2>1, <2>3
  <2> QED BY <2>4 DEF Placed, lists
<1>16. CASE r.indicator = "vhf"
  <2>1. lists = Server!One(Server!Vhf(n, p))
    BY <1>16 DEF ServerResult, Server!Calculate
  <2> HIDE DEF lists
  <2>2. InPlace(Server!Vhf(n, p), n) \/ By(Server!Vhf(n, p), 0)
    BY ServerWilliams
  <2>3. Placed(Server!One(Server!Vhf(n, p)))
    BY <2>2, OneBy
  <2> HIDE DEF Placed
  <2>4. Placed(lists)
    BY <2>1, <2>3
  <2> QED BY <2>4 DEF Placed, lists
<1>17. CASE r.indicator = "ma_ribbon"
  <2>1. lists = Server!One(Server!Ema(Server!Column(n), q))
    BY <1>17 DEF ServerResult, Server!Calculate, Server!Ribbon
  <2> HIDE DEF lists
  <2>2. InPlace(Server!Ema(Server!Column(n), q), n) \/ By(Server!Ema(Server!Column(n), q), 0)
    BY ServerAverages
  <2>3. Placed(Server!One(Server!Ema(Server!Column(n), q)))
    BY <2>2, OneBy
  <2> HIDE DEF Placed
  <2>4. Placed(lists)
    BY <2>1, <2>3
  <2> QED BY <2>4 DEF Placed, lists
<1>18. CASE r.indicator = "macd"
  <2>1. lists = Server!Macd(n, q, p, q)
    BY <1>18 DEF ServerResult, Server!Calculate
  <2> HIDE DEF lists
  <2>3. Placed(Server!Macd(n, q, p, q))
    BY ServerMacd DEF InPlace
  <2> HIDE DEF Placed
  <2>4. Placed(lists)
    BY <2>1, <2>3
  <2> QED BY <2>4 DEF Placed, lists
<1>19. CASE r.indicator = "stochastic"
  <2>1. lists = Server!Stochastic(n, p, 1, 1)
    BY <1>19 DEF ServerResult, Server!Calculate
  <2> HIDE DEF lists
  <2>3. Placed(Server!Stochastic(n, p, 1, 1))
    BY ServerStochastic DEF InPlace
  <2> HIDE DEF Placed
  <2>4. Placed(lists)
    BY <2>1, <2>3
  <2> QED BY <2>4 DEF Placed, lists
<1>20. CASE r.indicator = "adx"
  <2>1. lists = Server!Adx(n, p)
    BY <1>20 DEF ServerResult, Server!Calculate
  <2> HIDE DEF lists
  <2>3. Placed(Server!Adx(n, p))
    BY ServerAdx DEF InPlace
  <2> HIDE DEF Placed
  <2>4. Placed(lists)
    BY <2>1, <2>3
  <2> QED BY <2>4 DEF Placed, lists
<1>21. CASE r.indicator = "bollinger_bands"
  <2>1. lists = Server!Bollinger(n, p)
    BY <1>21 DEF ServerResult, Server!Calculate
  <2> HIDE DEF lists
  <2>3. Placed(Server!Bollinger(n, p))
    BY ServerBollinger DEF InPlace
  <2> HIDE DEF Placed
  <2>4. Placed(lists)
    BY <2>1, <2>3
  <2> QED BY <2>4 DEF Placed, lists
<1>22. CASE r.indicator = "keltner_channel"
  <2>1. lists = Server!Keltner(n, p)
    BY <1>22 DEF ServerResult, Server!Calculate
  <2> HIDE DEF lists
  <2>3. Placed(Server!Keltner(n, p))
    BY ServerBands DEF InPlace
  <2> HIDE DEF Placed
  <2>4. Placed(lists)
    BY <2>1, <2>3
  <2> QED BY <2>4 DEF Placed, lists
<1> QED
  BY <1>1, <1>2, <1>3, <1>4, <1>5, <1>6, <1>7, <1>8, <1>9, <1>10, <1>11, <1>12, <1>13, <1>14,
     <1>15, <1>16, <1>17, <1>18, <1>19, <1>20, <1>21, <1>22 DEF Server!Registry

(***************************************************************************)
(* The browser's indicators                                                *)
(***************************************************************************)
LEMMA BrowserBase ==
  /\ \A n : Browser!Column(n) = Base!Column(n)
  /\ \A k : Browser!Nones(k) = Base!Nones(k)
  /\ \A s, a, b : Browser!Span(s, a, b) = Base!Span(s, a, b)
  /\ \A vs : Browser!Joint(vs) = Base!Joint(vs)
  /\ \A s, r : Browser!Zip(s, r) = Base!Zip(s, r)
  /\ \A s : Browser!Changes(s) = Base!Changes(s)
<1>1. \A n : Browser!Column(n) = Base!Column(n)
  BY DEF Browser!Column, Base!Column
<1>2. \A k : Browser!Nones(k) = Base!Nones(k)
  BY DEF Browser!Nones, Base!Nones
<1>3. \A s, a, b : Browser!Span(s, a, b) = Base!Span(s, a, b)
  BY DEF Browser!Span, Base!Span
<1>4. \A vs : Browser!Joint(vs) = Base!Joint(vs)
  BY DEF Browser!Joint, Base!Joint
<1>5. \A s, r : Browser!Zip(s, r) = Base!Zip(s, r)
  BY DEF Browser!Zip, Base!Zip, Browser!Each, Base!Each, Browser!Min,
         Base!Min, Browser!Joint, Base!Joint
<1>6. \A s : Browser!Changes(s) = Base!Changes(s)
  BY DEF Browser!Changes, Base!Changes, Browser!Each, Base!Each,
         Browser!Span, Base!Span
<1> QED BY <1>1, <1>2, <1>3, <1>4, <1>5, <1>6

LEMMA NothingRefused == \A f \in DOMAIN Browser!Refused : By(Browser!Refused[f], 0)
  BY DEF Browser!Refused

LEMMA BrowserOne ==
  ASSUME NEW n, NEW s, InPlace(s, n) \/ By(s, 0)
  PROVE  \A f \in DOMAIN Browser!One(s) : By(Browser!One(s)[f], 0)
BY DEF Browser!One, InPlace

LEMMA BrowserWindows ==
  ASSUME NEW n \in Nat \ {0}, NEW p \in Nat \ {0}, Browser!Usable(n, p)
  PROVE  InPlace(Browser!Windowed(n, p), n)
<1> DEFINE t == [i \in 1..(IF n < p THEN 0 ELSE n - p + 1) |->
                   Browser!Span(Browser!Column(n), p + i - 1 - p + 1, p + i - 1)]
<1>1. Browser!Windowed(n, p) = Browser!Nones(p - 1) \o t
  BY DEF Browser!Windowed, Browser!Each
<1>2. WindowLoop(t, Base!Column(n), p, n, p)
  BY BrowserBase DEF WindowLoop
<1> HIDE DEF t
<1>3. p \in 1..(n + 1) /\ p \in 1..p /\ n \in Nat /\ 0 \in Nat /\ p - 1 + 0 = p - 1 /\ n + 0 = n
  BY DEF Browser!Usable
<1>4. InPlace(Base!Nones(p - 1 + 0) \o t, n + 0)
  BY <1>2, <1>3, FullColumn, LedWindows
<1> QED BY <1>1, <1>3, <1>4, BrowserBase

LEMMA BrowserPrefixes ==
  ASSUME NEW n \in Nat \ {0}, NEW p \in Nat \ {0}, p <= n, NEW s, InPlace(s, n), NEW t,
         t = [i \in 1..(IF n < p THEN 0 ELSE n - p + 1) |-> Browser!Span(s, 1, p + i - 1)]
  PROVE  InPlace(Browser!Nones(p - 1) \o t, n)
<1>1. PrefixLoop(t, s, p, n)
  BY BrowserBase DEF PrefixLoop
<1>2. p \in 1..(n + 1) /\ 0 \in Nat /\ p - 1 + 0 = p - 1 /\ n + 0 = n
  OBVIOUS
<1>3. InPlace(Base!Nones(p - 1 + 0) \o t, n + 0)
  BY <1>1, <1>2, LedPrefixes DEF InPlace
<1> QED BY <1>2, <1>3, BrowserBase

LEMMA BrowserSMA ==
  ASSUME NEW n \in Nat \ {0}, NEW p \in Nat \ {0}
  PROVE  /\ \A f \in DOMAIN Browser!CalculateSMA(n, p) : By(Browser!CalculateSMA(n, p)[f], 0)
         /\ Browser!CalculateWMA(n, p) = Browser!CalculateSMA(n, p)
<1>1. Browser!CalculateWMA(n, p) = Browser!CalculateSMA(n, p)
  BY DEF Browser!CalculateSMA, Browser!CalculateWMA
<1>2. CASE Browser!Usable(n, p)
  <2>1. Browser!CalculateSMA(n, p) = Browser!One(Browser!Windowed(n, p))
    BY <1>2 DEF Browser!CalculateSMA
  <2> QED BY <1>1, <1>2, <2>1, BrowserWindows, BrowserOne
<1>3. CASE ~Browser!Usable(n, p)
  <2>1. Browser!CalculateSMA(n, p) = Browser!Refused
    BY <1>3 DEF Browser!CalculateSMA
  <2> QED BY <1>1, <2>1, NothingRefused
<1> QED BY <1>2, <1>3

LEMMA BrowserEMA ==
  ASSUME NEW n \in Nat \ {0}, NEW p \in Nat \ {0}
  PROVE  /\ \A f \in DOMAIN Browser!CalculateEMA(n, p) : By(Browser!CalculateEMA(n, p)[f], 0)
         /\ Browser!Usable(n, p) => InPlace(Browser!CalculateEMA(n, p).values, n)
<1> DEFINE t == [i \in 1..(IF n < p THEN 0 ELSE n - p + 1) |->
                   Browser!Span(Browser!Column(n), 1, p + i - 1)]
           s == Browser!Nones(p - 1) \o t
<1>1. Browser!CalculateEMA(n, p) = IF ~Browser!Usable(n, p) THEN Browser!Refused ELSE Browser!One(s)
  BY DEF Browser!CalculateEMA, Browser!Each
<1>2. CASE Browser!Usable(n, p)
  <2>1. p <= n /\ InPlace(Browser!Column(n), n)
    BY <1>2, ColumnInPlace, BrowserBase DEF Browser!Usable
  <2>2. InPlace(s, n)
    BY <2>1, BrowserPrefixes
  <2> HIDE DEF s
  <2>3. Browser!One(s).values = s
    BY DEF Browser!One
  <2> QED BY <1>1, <1>2, <2>2, <2>3, BrowserOne
<1>3. CASE ~Browser!Usable(n, p)
  <2> HIDE DEF s
  <2> QED BY <1>1, <1>3, NothingRefused
<1> QED BY <1>2, <1>3

LEMMA BrowserBollinger ==
  ASSUME NEW n \in Nat \ {0}, NEW p \in Nat \ {0}
  PROVE  \A f \in DOMAIN Browser!CalculateBollingerBands(n, p) :
           By(Browser!CalculateBollingerBands(n, p)[f], 0)
<1> DEFINE band == Browser!Windowed(n, p)
<1>1. CASE Browser!Usable(n, p)
  <2>1. Browser!CalculateBollingerBands(n, p) = [middle |-> band, upper |-> band, lower |-> band]
    BY <1>1 DEF Browser!CalculateBollingerBands
  <2>2. By(band, 0)
    BY <1>1, BrowserWindows DEF InPlace
  <2> HIDE DEF band
  <2> QED BY <2>1, <2>2
<1>2. CASE ~Browser!Usable(n, p)
  <2>1. Browser!CalculateBollingerBands(n, p) = Browser!Refused
    BY <1>2 DEF Browser!CalculateBollingerBands
  <2> QED BY <2>1, NothingRefused
<1> QED BY <1>1, <1>2

LEMMA BrowserATR ==
  ASSUME NEW n \in Nat \ {0}, NEW p \in Nat \ {0}
  PROVE  \A f \in DOMAIN Browser!CalculateATR(n, p) : By(Browser!CalculateATR(n, p)[f], 0)
<1> DEFINE ranges == <<Browser!Column(n)[1]>> \o Browser!Changes(Browser!Column(n))
           t == [i \in 1..(IF n < p THEN 0 ELSE n - p + 1) |-> Browser!Span(ranges, 1, p + i - 1)]
           s == Browser!Nones(p - 1) \o t
<1>1. Browser!CalculateATR(n, p) = IF ~Browser!Usable(n, p) THEN Browser!Refused ELSE Browser!One(s)
  BY DEF Browser!CalculateATR, Browser!Each
<1>2. CASE Browser!Usable(n, p)
  <2>1. ranges = Base!TrueRange(n)
    BY BrowserBase DEF Base!TrueRange
  <2>2. p <= n /\ InPlace(ranges, n)
    BY <1>2, <2>1, TrueRangeInPlace DEF Browser!Usable
  <2> HIDE DEF ranges
  <2>3. InPlace(s, n)
    BY <2>2, BrowserPrefixes
  <2> HIDE DEF s
  <2> QED BY <1>1, <1>2, <2>3, BrowserOne
<1>3. CASE ~Browser!Usable(n, p)
  <2> HIDE DEF s
  <2> QED BY <1>1, <1>3, NothingRefused
<1> QED BY <1>2, <1>3

LEMMA BrowserSums ==
  ASSUME NEW n \in Nat \ {0}, NEW q \in Nat \ {0}
  PROVE  /\ \A f \in DOMAIN Browser!CalculateVWAP(n, q) : By(Browser!CalculateVWAP(n, q)[f], 0)
         /\ \A f \in DOMAIN Browser!CalculateOBV(n) : By(Browser!CalculateOBV(n)[f], 0)
<1> DEFINE c == Base!Column(n)
<1>0. /\ n \in Nat /\ 0 \in Int
      /\ (IF n < 1 THEN 0 ELSE n - 1 + 1) = n /\ \A i \in 1..n : 1 + i - 1 = i
  OBVIOUS
<1>1. ASSUME NEW i \in 1..n, NEW a \in 1..i PROVE BesideItsBar(Base!Span(c, a, i), i + 0)
  <2>1. c \in Lists(n) /\ By(c, 0)
    BY FullColumn
  <2> HIDE DEF c
  <2>2. a \in 1..n /\ i \in a..n
    OBVIOUS
  <2> QED BY <1>0, <2>1, <2>2, SpanBeside
<1>2. ASSUME NEW i \in 1..n PROVE i - ((i - 1) % q) \in 1..i
  <2> DEFINE j == i - 1
             r == j % q
  <2>1. j \in Nat /\ r \in 0..(q - 1) /\ r <= j
    OBVIOUS
  <2> HIDE DEF r
  <2> QED BY <2>1
<1>3. By(Browser!CalculateVWAP(n, q).values, 0) /\ DOMAIN Browser!CalculateVWAP(n, q) = {"values"}
  <2> DEFINE u == [i \in 1..(IF n < 1 THEN 0 ELSE n - 1 + 1) |->
                     Browser!Span(Browser!Column(n), (1 + i - 1) - (((1 + i - 1) - 1) % q), 1 + i - 1)]
  <2>1. Browser!CalculateVWAP(n, q) = [values |-> u]
    BY DEF Browser!CalculateVWAP, Browser!One, Browser!Each
  <2>2. /\ DOMAIN u = 1..n
        /\ \A i \in 1..n : u[i] = Base!Span(c, i - ((i - 1) % q), i)
    <3>1. /\ DOMAIN u = 1..n
          /\ \A i \in 1..n : u[i] = Base!Span(c, (1 + i - 1) - (((1 + i - 1) - 1) % q), 1 + i - 1)
      BY <1>0, BrowserBase
    <3>2. ASSUME NEW i \in 1..n
          PROVE  1 + i - 1 = i /\ (1 + i - 1) - (((1 + i - 1) - 1) % q) = i - ((i - 1) % q)
      <4>1. 1 + i - 1 = i
        OBVIOUS
      <4> QED BY <4>1
    <3> HIDE DEF u, c
    <3> QED BY <3>1, <3>2
  <2> HIDE DEF u, c
  <2>3. By(u, 0)
    BY <1>1, <1>2, <2>2 DEF By
  <2> QED BY <2>1, <2>3
<1>4. By(Browser!CalculateOBV(n).values, 0) /\ DOMAIN Browser!CalculateOBV(n) = {"values"}
  <2> DEFINE u == [i \in 1..(IF n < 1 THEN 0 ELSE n - 1 + 1) |->
                     Browser!Span(Browser!Column(n), 1, 1 + i - 1)]
  <2>1. Browser!CalculateOBV(n) = [values |-> u]
    BY DEF Browser!CalculateOBV, Browser!One, Browser!Each
  <2>2. /\ DOMAIN u = 1..n
        /\ \A i \in 1..n : u[i] = Base!Span(c, 1, i) /\ 1 \in 1..i
    BY <1>0, BrowserBase
  <2> HIDE DEF u, c
  <2>3. By(u, 0)
    BY <1>1, <2>2 DEF By
  <2> QED BY <2>1, <2>3
<1> QED BY <1>3, <1>4

(* A list that is missing up to a place and computed from the numbers of   *)
(* another afterwards.                                                     *)
LEMMA LateFigures ==
  ASSUME NEW n \in Nat, NEW s, InPlace(s, n), NEW late \in Nat, NEW low,
         \A i \in late..n : i >= 1 => low[i] \in 1..i, NEW u,
         u = [i \in 1..n |-> IF i < late THEN None ELSE Base!Span(s, low[i], i)]
  PROVE  InPlace(u, n)
<1>1. s \in Lists(n) /\ By(s, 0) /\ 0 \in Int
  BY DEF InPlace
<1>2. ASSUME NEW i \in 1..n PROVE u[i] \in Entries /\ BesideItsBar(u[i], i + 0)
  <2>1. CASE i < late
    BY <2>1 DEF Entries, BesideItsBar
  <2>2. CASE ~(i < late)
    <3>1. low[i] \in 1..n /\ i \in low[i]..n /\ u[i] = Base!Span(s, low[i], i)
      BY <2>2
    <3> QED BY <1>1, <3>1, SpanFacts, SpanBeside
  <2> QED BY <2>1, <2>2
<1>3. u \in Lists(n)
  BY <1>2, AList
<1> QED BY <1>1, <1>2, <1>3, ByOf DEF InPlace

LEMMA BrowserStochastic ==
  ASSUME NEW n \in Nat \ {0}, NEW p \in Nat \ {0}, NEW q \in Nat \ {0}
  PROVE  \A f \in DOMAIN Browser!CalculateStochastic(n, p, q) :
           By(Browser!CalculateStochastic(n, p, q)[f], 0)
<1> DEFINE fast == Browser!Windowed(n, p)
           slow == [i \in 1..(IF n < 1 THEN 0 ELSE n - 1 + 1) |->
                      IF 1 + i - 1 < p + q - 1 THEN None
                      ELSE Browser!Span(fast, 1 + i - 1 - q + 1, 1 + i - 1)]
           both == [k |-> fast, d |-> slow]
<1>1. Browser!CalculateStochastic(n, p, q) =
        IF ~Browser!Usable(n, p) THEN Browser!Refused ELSE both
  BY DEF Browser!CalculateStochastic, Browser!Each
<1>2. CASE Browser!Usable(n, p)
  <2>1. InPlace(fast, n)
    BY <1>2, BrowserWindows
  <2> DEFINE low == [i \in 1..n |-> i - q + 1]
             late == p + q - 1
  <2>2. /\ slow = [i \in 1..n |-> IF i < late THEN None ELSE Base!Span(fast, low[i], i)]
        /\ n \in Nat /\ late \in Nat
        /\ \A i \in late..n : i >= 1 => low[i] \in 1..i
    <3> HIDE DEF fast
    <3>1. (IF n < 1 THEN 0 ELSE n - 1 + 1) = n /\ \A i \in 1..n : 1 + i - 1 = i /\ 1 + i - 1 - q + 1 = low[i]
      OBVIOUS
    <3>2. late \in Nat /\ \A i \in late..n : i >= 1 => low[i] \in 1..i
      OBVIOUS
    <3> QED BY <3>1, <3>2, BrowserBase
  <2> HIDE DEF fast, slow, low, late
  <2>3. InPlace(slow, n)
    BY <2>1, <2>2, LateFigures
  <2> QED BY <1>1, <1>2, <2>1, <2>3 DEF InPlace
<1>3. CASE ~Browser!Usable(n, p)
  <2> HIDE DEF both
  <2> QED BY <1>1, <1>3, NothingRefused
<1> QED BY <1>2, <1>3

LEMMA BrowserMACD ==
  ASSUME NEW n \in Nat \ {0}, NEW a \in Nat \ {0}, NEW b \in Nat \ {0}, NEW q \in Nat \ {0}
  PROVE  \A f \in DOMAIN Browser!CalculateMACD(n, a, b, q) :
           By(Browser!CalculateMACD(n, a, b, q)[f], 0)
<1> DEFINE Average(x) == IF Browser!Usable(n, x) THEN Browser!CalculateEMA(n, x).values
                         ELSE Browser!Nones(n)
           macd == Browser!Zip(Average(a), Average(b))
           line == [i \in 1..(IF n < 1 THEN 0 ELSE n - 1 + 1) |->
                      IF 1 + i - 1 < b + q - 1 THEN None
                      ELSE Browser!Span(macd, b, 1 + i - 1)]
           all == [macd |-> macd, signal |-> line, histogram |-> Browser!Zip(macd, line)]
<1>0. n \in Nat /\ 0 \in Int /\ 1 \in Nat \ {0}
  OBVIOUS
<1>1. Browser!CalculateMACD(n, a, b, q) = IF b <= a THEN Browser!Refused ELSE all
  BY DEF Browser!CalculateMACD, Browser!Each
<1>2. ASSUME NEW x \in Nat \ {0} PROVE InPlace(Average(x), n)
  BY <1>0, BrowserEMA, NonesInPlace, BrowserBase
<1>3. InPlace(macd, n)
  <2>1. InPlace(Average(a), n) /\ InPlace(Average(b), n)
    BY <1>2
  <2> HIDE DEF Average
  <2> QED BY <1>0, <2>1, InPlaceKept, BrowserBase
<1> DEFINE low == [i \in 1..n |-> b]
           late == b + q - 1
<1>4. /\ line = [i \in 1..n |-> IF i < late THEN None ELSE Base!Span(macd, low[i], i)]
      /\ late \in Nat
      /\ \A i \in late..n : i >= 1 => low[i] \in 1..i
  <2> HIDE DEF macd
  <2>1. (IF n < 1 THEN 0 ELSE n - 1 + 1) = n /\ \A i \in 1..n : 1 + i - 1 = i /\ b = low[i]
    OBVIOUS
  <2>2. late \in Nat /\ \A i \in late..n : i >= 1 => low[i] \in 1..i
    OBVIOUS
  <2> QED BY <2>1, <2>2, BrowserBase
<1> HIDE DEF macd, line, low, late
<1>5. InPlace(line, n)
  BY <1>0, <1>3, <1>4, LateFigures
<1>6. InPlace(Browser!Zip(macd, line), n)
  BY <1>0, <1>3, <1>5, InPlaceKept, BrowserBase
<1>7. \A f \in DOMAIN all : By(all[f], 0)
  BY <1>3, <1>5, <1>6 DEF InPlace
<1> HIDE DEF all
<1> QED BY <1>1, <1>7, NothingRefused

(* The browser's lists, but those that OutOfStep names, stand beside their *)
(* bars.                                                                   *)
LEMMA BrowserInPlace ==
  ASSUME NEW n \in Nat \ {0}, NEW r, NEW p \in Nat \ {0}, NEW q \in Nat \ {0},
         r.p = p, r.q = q, r.indicator \notin {"rsi", "adx"}
  PROVE  \A f \in DOMAIN Browser!CalculateIndicator(r, n) :
           By(Browser!CalculateIndicator(r, n)[f], 0)
<1> DEFINE lists == Browser!CalculateIndicator(r, n)
           Placed(result) == \A f \in DOMAIN result : By(result[f], 0)
<1>1. CASE r.indicator = "sma"
  <2>1. lists = Browser!CalculateSMA(n, p)
    BY <1>1 DEF Browser!CalculateIndicator
  <2> HIDE DEF lists
  <2>2. Placed(Browser!CalculateSMA(n, p))
    BY BrowserSMA
  <2> HIDE DEF Placed
  <2>3. Placed(lists)
    BY <2>1, <2>2
  <2> QED BY <2>3 DEF Placed, lists
<1>2. CASE r.indicator = "ema"
  <2>1. lists = Browser!CalculateEMA(n, p)
    BY <1>2 DEF Browser!CalculateIndicator
  <2> HIDE DEF lists
  <2>2. Placed(Browser!CalculateEMA(n, p))
    BY BrowserEMA
  <2> HIDE DEF Placed
  <2>3. Placed(lists)
    BY <2>1, <2>2
  <2> QED BY <2>3 DEF Placed, lists
<1>3. CASE r.indicator = "wma"
  <2>1. lists = Browser!CalculateWMA(n, p)
    BY <1>3 DEF Browser!CalculateIndicator
  <2> HIDE DEF lists
  <2>2. Placed(Browser!CalculateWMA(n, p))
    BY BrowserSMA
  <2> HIDE DEF Placed
  <2>3. Placed(lists)
    BY <2>1, <2>2
  <2> QED BY <2>3 DEF Placed, lists
<1>4. CASE r.indicator = "macd"
  <2>1. lists = Browser!CalculateMACD(n, q, p, q)
    BY <1>4 DEF Browser!CalculateIndicator
  <2> HIDE DEF lists
  <2>2. Placed(Browser!CalculateMACD(n, q, p, q))
    BY BrowserMACD
  <2> HIDE DEF Placed
  <2>3. Placed(lists)
    BY <2>1, <2>2
  <2> QED BY <2>3 DEF Placed, lists
<1>5. CASE r.indicator = "bollinger"
  <2>1. lists = Browser!CalculateBollingerBands(n, p)
    BY <1>5 DEF Browser!CalculateIndicator
  <2> HIDE DEF lists
  <2>2. Placed(Browser!CalculateBollingerBands(n, p))
    BY BrowserBollinger
  <2> HIDE DEF Placed
  <2>3. Placed(lists)
    BY <2>1, <2>2
  <2> QED BY <2>3 DEF Placed, lists
<1>6. CASE r.indicator = "atr"
  <2>1. lists = Browser!CalculateATR(n, p)
    BY <1>6 DEF Browser!CalculateIndicator
  <2> HIDE DEF lists
  <2>2. Placed(Browser!CalculateATR(n, p))
    BY BrowserATR
  <2> HIDE DEF Placed
  <2>3. Placed(lists)
    BY <2>1, <2>2
  <2> QED BY <2>3 DEF Placed, lists
<1>7. CASE r.indicator = "stochastic"
  <2>1. lists = Browser!CalculateStochastic(n, p, q)
    BY <1>7 DEF Browser!CalculateIndicator
  <2> HIDE DEF lists
  <2>2. Placed(Browser!CalculateStochastic(n, p, q))
    BY BrowserStochastic
  <2> HIDE DEF Placed
  <2>3. Placed(lists)
    BY <2>1, <2>2
  <2> QED BY <2>3 DEF Placed, lists
<1>8. CASE r.indicator = "vwap"
  <2>1. lists = Browser!CalculateVWAP(n, q)
    BY <1>8 DEF Browser!CalculateIndicator
  <2> HIDE DEF lists
  <2>2. Placed(Browser!CalculateVWAP(n, q))
    BY BrowserSums
  <2> HIDE DEF Placed
  <2>3. Placed(lists)
    BY <2>1, <2>2
  <2> QED BY <2>3 DEF Placed, lists
<1>9. CASE r.indicator = "obv"
  <2>1. lists = Browser!CalculateOBV(n)
    BY <1>9 DEF Browser!CalculateIndicator
  <2> HIDE DEF lists
  <2>2. Placed(Browser!CalculateOBV(n))
    BY BrowserSums
  <2> HIDE DEF Placed
  <2>3. Placed(lists)
    BY <2>1, <2>2
  <2> QED BY <2>3 DEF Placed, lists
<1>10. CASE r.indicator \notin {"sma", "ema", "wma", "macd", "bollinger", "atr", "stochastic", "vwap", "obv"}
  <2>1. lists = Browser!Refused
    BY <1>10 DEF Browser!CalculateIndicator
  <2> HIDE DEF lists
  <2>2. Placed(lists)
    BY <2>1, NothingRefused
  <2> QED BY <2>2 DEF Placed, lists
<1> QED
  BY <1>1, <1>2, <1>3, <1>4, <1>5, <1>6, <1>7, <1>8, <1>9, <1>10

(***************************************************************************)
(* What is shown                                                           *)
(***************************************************************************)
LEMMA FeatureSeriesInPlace ==
  ASSUME NEW n \in Nat \ {0}, NEW r, r.p \in Nat \ {0}, r.q \in Nat \ {0},
         r.indicator \in {"features", "macd", "stochastic"}
  PROVE  \A f \in DOMAIN FeatureSeries(r, n) : By(FeatureSeries(r, n)[f], 0)
<1>1. CASE r.indicator = "features"
  <2>1. FeatureSeries(r, n) = Base!ComputeFeatures(n, r.p, r.q)
    BY <1>1, ResearchFeatures DEF FeatureSeries
  <2> QED BY <2>1, FeaturesInPlace DEF InPlace
<1>2. CASE r.indicator = "macd"
  <2>1. FeatureSeries(r, n) = Research!Macd(n)
    BY <1>2 DEF FeatureSeries
  <2> QED BY <2>1, MacdInPlace DEF InPlace
<1>3. CASE r.indicator = "stochastic"
  <2>1. FeatureSeries(r, n) = Research!Stochastic(n, r.p, r.q)
    BY <1>3 DEF FeatureSeries
  <2> QED BY <2>1, ResearchStochastic DEF InPlace
<1> QED BY <1>1, <1>2, <1>3

LEMMA InStepFact ==
  ASSUME FreshInv PROVE InStep
<1> SUFFICES ASSUME shown # None, ~OutOfStep,
                    \/ request.where \in {"server", "browser", "regime", "rules"}
                    \/ Is("features", {"features", "macd", "stochastic"})
             PROVE  BesideTheirBars(Result(request, Count(shown)), Count(shown))
  BY DEF InStep, StandsBesideItsBars, Given
<1> DEFINE n == Count(shown)
           r == request
           lists == Result(r, n)
<1>1. n \in Nat \ {0} /\ r \in Requests
  BY CountOfShown DEF FreshInv, BarsBorn
<1> HIDE DEF n
<1>2. r.p \in Nat \ {0} /\ r.q \in Nat /\ n \in Nat
  BY <1>1, RequestAssumption
<1>3. ASSUME \A f \in DOMAIN lists : By(lists[f], 0)
      PROVE  BesideTheirBars(lists, n)
  BY <1>2, <1>3, AllInPlace
<1>4. CASE r.where = "server"
  <2>1. /\ r.q \in Nat \ {0}
        /\ r.indicator \in Server!Registry \ {"rsi", "tema", "dema", "mass_index"}
        /\ r.indicator = "stochastic" => r.q = 1
    BY <1>1, <1>4, RequestAssumption DEF OutOfStep, Is
  <2>2. lists = ServerResult(r, n)
    BY <1>4 DEF Result
  <2>3. \A f \in DOMAIN ServerResult(r, n) : By(ServerResult(r, n)[f], 0)
    BY <1>1, <1>2, <2>1, ServerInPlace
  <2> QED BY <1>3, <2>2, <2>3 DEF n
<1>5. CASE r.where = "browser"
  <2>1. r.q \in Nat \ {0} /\ r.indicator \notin {"rsi", "adx"}
    BY <1>1, <1>5, RequestAssumption DEF OutOfStep, Is
  <2>2. lists = Browser!CalculateIndicator(r, n)
    BY <1>5 DEF Result
  <2>3. \A f \in DOMAIN Browser!CalculateIndicator(r, n) :
          By(Browser!CalculateIndicator(r, n)[f], 0)
    BY <1>1, <1>2, <2>1, BrowserInPlace
  <2> QED BY <1>3, <2>2, <2>3 DEF n
<1>6. CASE r.where = "regime"
  <2>1. /\ r.q \in Nat \ {0}
        /\ r.indicator \in {"market_features", "clusters", "features", "production", "causal"}
        /\ r.indicator \in {"market_features", "clusters"} => r.p < r.q
    BY <1>1, <1>6, RequestAssumption
  <2>2. lists = RegimeLists(r, n)
    BY <1>6 DEF Result
  <2>3. BesideTheirBars(RegimeLists(r, n), n)
    BY <1>1, <1>2, <2>1, RegimesInPlace
  <2> QED BY <2>2, <2>3 DEF n
<1>7. CASE r.where = "rules"
  <2>1. /\ r.indicator \in Rules!Registry
        /\ GivesWindow(r) \in BOOLEAN
        /\ r.indicator = "ADX" => ~GivesWindow(r) /\ AdxWarmup >= 2 * r.p - 1
    BY <1>1, <1>7, RequestAssumption DEF OutOfStep, Is, GivesWindow
  <2>2. lists = Rules!ProcessStrategy(r.indicator, n, r.p, GivesWindow(r))
    BY <1>7 DEF Result
  <2>3. \A f \in DOMAIN Rules!ProcessStrategy(r.indicator, n, r.p, GivesWindow(r)) :
          By(Rules!ProcessStrategy(r.indicator, n, r.p, GivesWindow(r))[f], 0)
    BY <1>1, <1>2, <2>1, RulesInPlace
  <2> QED BY <1>3, <2>2, <2>3 DEF n
<1>8. CASE Is("features", {"features", "macd", "stochastic"})
  <2>1. r.where = "features" /\ r.indicator \in {"features", "macd", "stochastic"}
    BY <1>8 DEF Is
  <2>2. r.q \in Nat \ {0}
    BY <1>1, <2>1, RequestAssumption
  <2>3. lists = FeatureSeries(r, n)
    BY <2>1 DEF Result
  <2>4. \A f \in DOMAIN FeatureSeries(r, n) : By(FeatureSeries(r, n)[f], 0)
    BY <1>1, <1>2, <2>1, <2>2, FeatureSeriesInPlace
  <2> QED BY <1>3, <2>3, <2>4 DEF n
<1> QED BY <1>4, <1>5, <1>6, <1>7, <1>8 DEF n

(* However many bars there are and whatever is asked, a number drawn at a  *)
(* bar is of that bar: on the server, in the browser, of a feature, of a   *)
(* regime and its label, and in the rows a rule is evaluated on. The lists *)
(* that OutOfStep names are left out, which the code counts from where     *)
(* they begin.                                                             *)
THEOREM SeriesInStep ==
  ServiceSpec => []InStep
BY FreshInit, FreshNext, InStepFact, PTL DEF ServiceSpec
=============================================================================
