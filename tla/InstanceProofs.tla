----------------------------- MODULE InstanceProofs -----------------------------
(***************************************************************************)
(* Theorems about the service in its Lambda environment, whatever the      *)
(* number of requests, logs, spans and restarts, and however late and in   *)
(* whatever batches the platform delivers its telemetry: that it is the    *)
(* pipe of LogPipe for the function logs, and that it pairs invoke events  *)
(* with telemetry rightly, although it goes by order alone                 *)
(* (process_telemetry_events).                                             *)
(*                                                                         *)
(* The first part is about the operators of the processor: what each puts  *)
(* out and holds back of the logs it is given.                             *)
(***************************************************************************)
EXTENDS InstanceProperties, TelemetryServiceProofs, WellFoundedInduction

-----------------------------------------------------------------------------
(* Filtered sequences.  Induction is by the least counterexample.          *)

\* A set of numbers has a least element.
LEMMA LeastNumber ==
  ASSUME NEW T, T \subseteq Nat, T # {}
  PROVE  \E x \in T : \A y \in T : x <= y
<1> DEFINE R == {ss \in Nat \X Nat : ss[1] < ss[2]}
<1>1. IsWellFoundedOn(R, Nat)
  BY NatLessThanWellFounded DEF OpToRel
<1> HIDE DEF R
<1>2. PICK x \in T : \A y \in T : ~(<<y, x>> \in R)
  BY <1>1, WFMin
<1>3. \A y \in T : ~(y < x)
  BY <1>2 DEF R
<1> QED
  BY <1>3

\* f maps each i up to n to what FilterSeq makes of the first i elements of xs.
FiltersPrefixes(f, xs, S, n) ==
  f = [i \in 0..n |->
         IF i = 0 THEN <<>>
         ELSE IF xs[i] \in S THEN Append(f[i - 1], xs[i]) ELSE f[i - 1]]

\* The recursive function of FilterSeq exists, so that it is what its equation says.
LEMMA FilterExists ==
  ASSUME NEW xs, NEW S, NEW n \in Nat
  PROVE  \E f : FiltersPrefixes(f, xs, S, n)
<1> DEFINE Bad == {m \in Nat : ~\E f : FiltersPrefixes(f, xs, S, m)}
<1>1. SUFFICES Bad = {}
  OBVIOUS
<1>2. SUFFICES ASSUME Bad # {} PROVE FALSE
  OBVIOUS
<1>3. PICK m \in Bad : \A k \in Bad : m <= k
  BY <1>2, LeastNumber
<1>4. m # 0
  <2>1. FiltersPrefixes([i \in 0..0 |-> <<>>], xs, S, 0)
    BY DEF FiltersPrefixes
  <2> QED
    BY <1>3, <2>1
<1>5. m \in Nat /\ m - 1 \in Nat /\ m - 1 \notin Bad
  BY <1>3, <1>4
<1>6. PICK f : FiltersPrefixes(f, xs, S, m - 1)
  BY <1>5
<1> DEFINE last == IF xs[m] \in S THEN Append(f[m - 1], xs[m]) ELSE f[m - 1]
           g == [i \in 0..m |-> IF i = m THEN last ELSE f[i]]
<1>7. FiltersPrefixes(g, xs, S, m)
  <2>1. \A i \in 0..(m - 1) : g[i] = f[i]
    BY <1>5
  <2>2. ASSUME NEW i \in 0..m
        PROVE  g[i] = IF i = 0 THEN <<>>
                      ELSE IF xs[i] \in S THEN Append(g[i - 1], xs[i]) ELSE g[i - 1]
    <3>1. CASE i = m
      <4>1. i # 0 /\ g[i] = last /\ g[i - 1] = f[m - 1]
        BY <1>4, <1>5, <2>1, <3>1
      <4> QED
        BY <3>1, <4>1
    <3>2. CASE i # m
      <4>1. i \in 0..(m - 1) /\ g[i] = f[i] /\ (i # 0 => g[i - 1] = f[i - 1])
        BY <1>5, <2>1, <3>2
      <4>2. f[i] = IF i = 0 THEN <<>>
                   ELSE IF xs[i] \in S THEN Append(f[i - 1], xs[i]) ELSE f[i - 1]
        BY <1>6, <4>1 DEF FiltersPrefixes
      <4> QED
        BY <4>1, <4>2
    <3> QED
      BY <3>1, <3>2
  <2>3. g = [i \in 0..m |-> g[i]]
    OBVIOUS
  <2> HIDE DEF g
  <2> QED
    BY <2>2, <2>3 DEF FiltersPrefixes
<1> QED
  BY <1>3, <1>7

\* FilterSeq is the value at Len(xs) of a function that satisfies its equation.
LEMMA FilterIs ==
  ASSUME NEW T, NEW xs \in Seq(T), NEW S
  PROVE  \E f : FiltersPrefixes(f, xs, S, Len(xs)) /\ FilterSeq(xs, S) = f[Len(xs)]
<1>1. \E f : FiltersPrefixes(f, xs, S, Len(xs))
  BY FilterExists, LenProperties
<1> DEFINE h == CHOOSE f : FiltersPrefixes(f, xs, S, Len(xs))
<1>2. FiltersPrefixes(h, xs, S, Len(xs))
  BY <1>1
<1>3. FilterSeq(xs, S) = h[Len(xs)]
  BY DEF FilterSeq, FiltersPrefixes
<1> QED
  BY <1>2, <1>3

\* What the first n elements give does not depend on those that follow.
LEMMA FilterPrefix ==
  ASSUME NEW xs, NEW ys, NEW S, NEW m \in Nat, NEW n \in Nat, NEW f, NEW g,
         FiltersPrefixes(f, xs, S, m), FiltersPrefixes(g, ys, S, n),
         NEW k \in Nat, k <= m, k <= n, \A i \in 1..k : xs[i] = ys[i]
  PROVE  f[k] = g[k]
<1>9. \A i \in 0..m : f[i] = IF i = 0 THEN <<>>
                ELSE IF xs[i] \in S THEN Append(f[i - 1], xs[i]) ELSE f[i - 1]
  BY DEF FiltersPrefixes
<1>10. \A i \in 0..n : g[i] = IF i = 0 THEN <<>>
                ELSE IF ys[i] \in S THEN Append(g[i - 1], ys[i]) ELSE g[i - 1]
  BY DEF FiltersPrefixes
<1> DEFINE Bad == {i \in 0..k : f[i] # g[i]}
<1>1. SUFFICES ASSUME Bad # {} PROVE FALSE
  OBVIOUS
<1>2. PICK i \in Bad : \A j \in Bad : i <= j
  <2>1. Bad \subseteq Nat
    OBVIOUS
  <2> HIDE DEF Bad
  <2> QED
    BY <1>1, <2>1, LeastNumber
<1> USE <1>2
<1>3. i \in 0..m /\ i \in 0..n /\ f[i] # g[i]
  BY <1>2
<1>7. f[i] = IF i = 0 THEN <<>>
             ELSE IF xs[i] \in S THEN Append(f[i - 1], xs[i]) ELSE f[i - 1]
  BY <1>3, <1>9
<1>8. g[i] = IF i = 0 THEN <<>>
             ELSE IF ys[i] \in S THEN Append(g[i - 1], ys[i]) ELSE g[i - 1]
  BY <1>3, <1>10
<1>4. i # 0
  BY <1>3, <1>7, <1>8
<1>5. i - 1 \in 0..k /\ i - 1 \notin Bad /\ i \in 1..k
  BY <1>2, <1>4
<1>6. f[i - 1] = g[i - 1] /\ xs[i] = ys[i]
  BY <1>5
<1> QED
  BY <1>3, <1>4, <1>6, <1>7, <1>8

\* Nothing is left of nothing.
LEMMA FilterEmpty ==
  ASSUME NEW S PROVE FilterSeq(<<>>, S) = <<>>
<1>1. <<>> \in Seq({}) /\ Len(<<>>) = 0
  OBVIOUS
<1>2. PICK f : FiltersPrefixes(f, <<>>, S, 0) /\ FilterSeq(<<>>, S) = f[0]
  BY <1>1, FilterIs
<1> QED
  BY <1>2 DEF FiltersPrefixes

\* What FilterSeq does with one more element.
LEMMA FilterAppend ==
  ASSUME NEW T, NEW xs \in Seq(T), NEW e \in T, NEW S
  PROVE  FilterSeq(Append(xs, e), S) =
           IF e \in S THEN Append(FilterSeq(xs, S), e) ELSE FilterSeq(xs, S)
<1> DEFINE ys == Append(xs, e)
           n == Len(xs)
<1>1. /\ ys \in Seq(T) /\ Len(ys) = n + 1 /\ n \in Nat
      /\ ys[n + 1] = e /\ \A i \in 1..n : xs[i] = ys[i]
  BY AppendProperties, LenProperties
<1> HIDE DEF ys, n
<1>2. PICK f : FiltersPrefixes(f, xs, S, n) /\ FilterSeq(xs, S) = f[n]
  BY FilterIs DEF n
<1>3. PICK g : FiltersPrefixes(g, ys, S, n + 1) /\ FilterSeq(ys, S) = g[n + 1]
  BY <1>1, FilterIs
<1>4. f[n] = g[n]
  BY <1>1, <1>2, <1>3, FilterPrefix
<1>5. g[n + 1] = IF ys[n + 1] \in S THEN Append(g[n], ys[n + 1]) ELSE g[n]
  <2>1. n + 1 \in 0..(n + 1) /\ n + 1 # 0 /\ (n + 1) - 1 = n
    BY <1>1
  <2> QED
    BY <1>3, <2>1 DEF FiltersPrefixes
<1> QED
  BY <1>1, <1>2, <1>3, <1>4, <1>5 DEF ys

\* Induction over the length of a sequence: of the counterexamples, one is shortest.
LEMMA SequenceSplits ==
  ASSUME NEW T, NEW Bad \in SUBSET Seq(T), Bad # {}, <<>> \notin Bad
  PROVE  \E xs \in Seq(T), e \in T : xs \notin Bad /\ Append(xs, e) \in Bad
<1> DEFINE Lens == {Len(xs) : xs \in Bad}
<1>1. PICK n \in Lens : \A k \in Lens : n <= k
  <2>1. \A xs \in Bad : Len(xs) \in Nat
    OBVIOUS
  <2>2. Lens \subseteq Nat /\ Lens # {}
    BY <2>1
  <2> HIDE DEF Lens
  <2> QED
    BY <2>2, LeastNumber
<1>2. PICK s \in Bad : Len(s) = n
  BY <1>1
<1>3. PICK xs \in Seq(T), e \in T : s = Append(xs, e)
  BY <1>2, SequenceEmptyOrAppend
<1>4. Len(xs) \in Nat /\ n = Len(xs) + 1
  BY <1>2, <1>3, AppendProperties, LenProperties
<1>5. xs \notin Bad
  BY <1>1, <1>4
<1> QED
  BY <1>2, <1>3, <1>5

\* What is left has the type of what was there.
LEMMA FilterType ==
  ASSUME NEW T, NEW xs \in Seq(T), NEW S
  PROVE  FilterSeq(xs, S) \in Seq(T)
<1> DEFINE Bad == {ys \in Seq(T) : FilterSeq(ys, S) \notin Seq(T)}
<1>1. SUFFICES ASSUME Bad # {} PROVE FALSE
  OBVIOUS
<1>2. <<>> \notin Bad
  BY FilterEmpty
<1>3. PICK ys \in Seq(T), e \in T : ys \notin Bad /\ Append(ys, e) \in Bad
  <2>1. Bad \in SUBSET Seq(T)
    OBVIOUS
  <2> HIDE DEF Bad
  <2> QED BY <1>1, <1>2, <2>1, SequenceSplits
<1>4. FilterSeq(ys, S) \in Seq(T) /\ FilterSeq(Append(ys, e), S) \notin Seq(T)
  BY <1>3
<1>5. Append(FilterSeq(ys, S), e) \in Seq(T)
  BY <1>4, AppendProperties
<1>6. FilterSeq(Append(ys, e), S) \in {Append(FilterSeq(ys, S), e), FilterSeq(ys, S)}
  BY FilterAppend
<1> QED
  BY <1>4, <1>5, <1>6

\* A sequence can be filtered in two parts.
LEMMA FilterConcat ==
  ASSUME NEW T, NEW xs \in Seq(T), NEW ys \in Seq(T), NEW S
  PROVE  FilterSeq(xs \o ys, S) = FilterSeq(xs, S) \o FilterSeq(ys, S)
<1> DEFINE Bad == {zs \in Seq(T) : FilterSeq(xs \o zs, S) # FilterSeq(xs, S) \o FilterSeq(zs, S)}
<1>1. SUFFICES ASSUME Bad # {} PROVE FALSE
  OBVIOUS
<1>2. <<>> \notin Bad
  BY FilterEmpty, FilterType, ConcatEmptySeq
<1>3. PICK zs \in Seq(T), e \in T : zs \notin Bad /\ Append(zs, e) \in Bad
  <2>1. Bad \in SUBSET Seq(T)
    OBVIOUS
  <2> HIDE DEF Bad
  <2> QED BY <1>1, <1>2, <2>1, SequenceSplits
<1>4. FilterSeq(xs \o zs, S) = FilterSeq(xs, S) \o FilterSeq(zs, S)
  BY <1>3
<1>5. xs \o Append(zs, e) = Append(xs \o zs, e) /\ xs \o zs \in Seq(T)
  <2>1. /\ Append(zs, e) = zs \o <<e>> /\ Append(xs \o zs, e) = (xs \o zs) \o <<e>>
        /\ <<e>> \in Seq(T) /\ xs \o zs \in Seq(T)
    BY AppendIsConcat, ConcatProperties
  <2> QED BY <2>1, ConcatAssociative
<1>6. /\ FilterSeq(xs \o Append(zs, e), S) =
           IF e \in S THEN Append(FilterSeq(xs \o zs, S), e) ELSE FilterSeq(xs \o zs, S)
      /\ FilterSeq(Append(zs, e), S) =
           IF e \in S THEN Append(FilterSeq(zs, S), e) ELSE FilterSeq(zs, S)
  BY <1>5, FilterAppend
<1>7. FilterSeq(xs, S) \o Append(FilterSeq(zs, S), e) = Append(FilterSeq(xs, S) \o FilterSeq(zs, S), e)
  <2>1. /\ FilterSeq(xs, S) \in Seq(T) /\ FilterSeq(zs, S) \in Seq(T) /\ <<e>> \in Seq(T)
    BY FilterType
  <2>2. /\ Append(FilterSeq(zs, S), e) = FilterSeq(zs, S) \o <<e>>
        /\ Append(FilterSeq(xs, S) \o FilterSeq(zs, S), e) = (FilterSeq(xs, S) \o FilterSeq(zs, S)) \o <<e>>
    BY <2>1, AppendIsConcat, ConcatProperties
  <2> QED BY <2>1, <2>2, ConcatAssociative
<1> QED
  BY <1>3, <1>4, <1>6, <1>7

\* Filtering twice is filtering once for both.
LEMMA FilterTwice ==
  ASSUME NEW T, NEW xs \in Seq(T), NEW A, NEW B
  PROVE  FilterSeq(FilterSeq(xs, A), B) = FilterSeq(xs, A \cap B)
<1> DEFINE Bad == {zs \in Seq(T) : FilterSeq(FilterSeq(zs, A), B) # FilterSeq(zs, A \cap B)}
<1>1. SUFFICES ASSUME Bad # {} PROVE FALSE
  OBVIOUS
<1>2. <<>> \notin Bad
  BY FilterEmpty
<1>3. PICK zs \in Seq(T), e \in T : zs \notin Bad /\ Append(zs, e) \in Bad
  <2>1. Bad \in SUBSET Seq(T)
    OBVIOUS
  <2> HIDE DEF Bad
  <2> QED BY <1>1, <1>2, <2>1, SequenceSplits
<1> DEFINE both == A \cap B
           more == Append(zs, e)
<1>4. FilterSeq(zs, A) \in Seq(T) /\ FilterSeq(FilterSeq(zs, A), B) = FilterSeq(zs, both)
  BY <1>3, FilterType
<1>5. FilterSeq(FilterSeq(more, A), B) # FilterSeq(more, both)
  BY <1>3
<1> HIDE DEF both
<1>6. \A U : \A us \in Seq(T) :
        FilterSeq(Append(us, e), U) = IF e \in U THEN Append(FilterSeq(us, U), e) ELSE FilterSeq(us, U)
  BY FilterAppend
<1>7. CASE e \in A
  <2>1. FilterSeq(FilterSeq(more, A), B) =
          IF e \in B THEN Append(FilterSeq(FilterSeq(zs, A), B), e)
          ELSE FilterSeq(FilterSeq(zs, A), B)
    BY <1>4, <1>6, <1>7
  <2>2. e \in both <=> e \in B
    BY <1>7 DEF both
  <2> QED
    BY <1>4, <1>5, <1>6, <2>1, <2>2
<1>8. CASE e \notin A
  BY <1>4, <1>5, <1>6, <1>8 DEF both
<1> QED
  BY <1>7, <1>8

\* Only the elements of the sequence matter.
LEMMA FilterAgree ==
  ASSUME NEW T, NEW xs \in Seq(T), NEW A, NEW B, \A e \in T : e \in A <=> e \in B
  PROVE  FilterSeq(xs, A) = FilterSeq(xs, B)
<1> DEFINE Bad == {zs \in Seq(T) : FilterSeq(zs, A) # FilterSeq(zs, B)}
<1>1. SUFFICES ASSUME Bad # {} PROVE FALSE
  OBVIOUS
<1>2. <<>> \notin Bad
  BY FilterEmpty
<1>3. PICK zs \in Seq(T), e \in T : zs \notin Bad /\ Append(zs, e) \in Bad
  <2>1. Bad \in SUBSET Seq(T)
    OBVIOUS
  <2> HIDE DEF Bad
  <2> QED BY <1>1, <1>2, <2>1, SequenceSplits
<1>4. /\ FilterSeq(zs, A) = FilterSeq(zs, B)
      /\ FilterSeq(Append(zs, e), A) # FilterSeq(Append(zs, e), B)
  BY <1>3
<1>5. \A S : FilterSeq(Append(zs, e), S) =
               IF e \in S THEN Append(FilterSeq(zs, S), e) ELSE FilterSeq(zs, S)
  BY FilterAppend
<1> QED
  BY <1>4, <1>5

-----------------------------------------------------------------------------
(* The ids of the function logs in a sequence.                             *)

LogItem == Event \cup LogRecord

\* Events and log records have ids, and sequences of either are sequences of both.
LEMMA LogItems ==
  /\ \A x \in LogItem : x.id \in Nat
  /\ \A xs \in Seq(Event) : xs \in Seq(LogItem)
  /\ \A xs \in Seq(LogRecord) : xs \in Seq(LogItem)
<1>1. Event \subseteq LogItem /\ LogRecord \subseteq LogItem
  BY DEF LogItem
<1>2. \A x \in LogItem : x.id \in Nat
  BY DEF LogItem, Event, LogRecord
<1> QED
  BY <1>1, <1>2, SeqMonotonic

\* The ids are numbers, one for each log that is left.
LEMMA LogIdsType ==
  ASSUME NEW xs \in Seq(LogItem)
  PROVE  FunctionLogIds(xs) \in Seq(Nat)
<1> DEFINE logs == FilterSeq(xs, FunctionLogs)
<1>1. logs \in Seq(LogItem)
  BY FilterType
<1> HIDE DEF logs
<1>2. DOMAIN logs = 1..Len(logs) /\ Len(logs) \in Nat /\ \A i \in 1..Len(logs) : logs[i].id \in Nat
  BY <1>1, LogItems
<1> QED
  BY <1>2 DEF FunctionLogIds, Ids, logs

\* In no events there is no log.
LEMMA LogIdsEmpty == FunctionLogIds(<<>>) = <<>>
  BY FilterEmpty DEF FunctionLogIds, Ids

\* Ids takes the elements one by one.
LEMMA IdsType ==
  ASSUME NEW xs \in Seq(LogItem)
  PROVE  /\ Ids(xs) \in Seq(Nat) /\ Len(Ids(xs)) = Len(xs) /\ Len(xs) \in Nat
         /\ \A i \in 1..Len(xs) : Ids(xs)[i] = xs[i].id
<1>1. DOMAIN xs = 1..Len(xs) /\ Len(xs) \in Nat /\ \A i \in 1..Len(xs) : xs[i].id \in Nat
  BY LogItems
<1>2. Ids(xs) \in [1..Len(xs) -> Nat]
  BY <1>1 DEF Ids
<1> QED
  BY <1>1, <1>2 DEF Ids

\* The ids of a concatenation.
LEMMA IdsConcat ==
  ASSUME NEW xs \in Seq(LogItem), NEW ys \in Seq(LogItem)
  PROVE  Ids(xs \o ys) = Ids(xs) \o Ids(ys)
<1>1. /\ xs \o ys \in Seq(LogItem) /\ Len(xs \o ys) = Len(xs) + Len(ys)
      /\ \A i \in 1..(Len(xs) + Len(ys)) :
           (xs \o ys)[i] = IF i <= Len(xs) THEN xs[i] ELSE ys[i - Len(xs)]
  BY ConcatProperties
<1>2. /\ Ids(xs) \in Seq(Nat) /\ Len(Ids(xs)) = Len(xs) /\ Len(xs) \in Nat
      /\ Ids(ys) \in Seq(Nat) /\ Len(Ids(ys)) = Len(ys) /\ Len(ys) \in Nat
      /\ Ids(xs \o ys) \in Seq(Nat) /\ Len(Ids(xs \o ys)) = Len(xs) + Len(ys)
  BY <1>1, IdsType
<1>3. /\ Ids(xs) \o Ids(ys) \in Seq(Nat) /\ Len(Ids(xs) \o Ids(ys)) = Len(xs) + Len(ys)
      /\ \A i \in 1..(Len(xs) + Len(ys)) :
           (Ids(xs) \o Ids(ys))[i] = IF i <= Len(xs) THEN Ids(xs)[i] ELSE Ids(ys)[i - Len(xs)]
  <2> DEFINE a == Ids(xs)
             b == Ids(ys)
  <2>1. a \in Seq(Nat) /\ b \in Seq(Nat) /\ Len(a) = Len(xs) /\ Len(b) = Len(ys)
    BY <1>2
  <2> HIDE DEF a, b
  <2>2. a \o b \in Seq(Nat) /\ Len(a \o b) = Len(a) + Len(b)
    BY <2>1, ConcatProperties
  <2>3. \A i \in 1..(Len(a) + Len(b)) :
          (a \o b)[i] = IF i <= Len(a) THEN a[i] ELSE b[i - Len(a)]
    BY <2>1, ConcatProperties, Zenon
  <2>4. \A i \in 1..(Len(xs) + Len(ys)) :
          (a \o b)[i] = IF i <= Len(xs) THEN a[i] ELSE b[i - Len(xs)]
    BY <2>1, <2>3
  <2> QED
    BY <2>1, <2>2, <2>4 DEF a, b
<1>4. ASSUME NEW i \in 1..(Len(xs) + Len(ys))
      PROVE  Ids(xs \o ys)[i] = (Ids(xs) \o Ids(ys))[i]
  <2>1. Ids(xs \o ys)[i] = (xs \o ys)[i].id
    BY <1>1, IdsType
  <2>2. CASE i <= Len(xs)
    <3>1. i \in 1..Len(xs)
      BY <1>2, <2>2
    <3>2. Ids(xs)[i] = xs[i].id
      BY <3>1, IdsType
    <3> QED
      BY <1>1, <1>3, <2>1, <2>2, <3>2
  <2>3. CASE ~(i <= Len(xs))
    <3>1. i - Len(xs) \in 1..Len(ys)
      BY <1>2, <2>3
    <3>2. Ids(ys)[i - Len(xs)] = ys[i - Len(xs)].id
      BY <3>1, IdsType
    <3> QED
      BY <1>1, <1>3, <2>1, <2>3, <3>2
  <2> QED
    BY <2>2, <2>3
<1> QED
  BY <1>2, <1>3, <1>4, SeqEqual

\* The logs of two sequences are those of the first and those of the second.
LEMMA LogIdsConcat ==
  ASSUME NEW xs \in Seq(LogItem), NEW ys \in Seq(LogItem)
  PROVE  FunctionLogIds(xs \o ys) = FunctionLogIds(xs) \o FunctionLogIds(ys)
<1> DEFINE F(s) == FilterSeq(s, FunctionLogs)
<1>1. F(xs) \in Seq(LogItem) /\ F(ys) \in Seq(LogItem)
  BY FilterType
<1>2. F(xs \o ys) = F(xs) \o F(ys)
  BY FilterConcat
<1> HIDE DEF F
<1>3. Ids(F(xs \o ys)) = Ids(F(xs)) \o Ids(F(ys))
  BY <1>1, <1>2, IdsConcat
<1> QED
  BY <1>3 DEF FunctionLogIds, F

\* What one event or record counts for.
LEMMA LogIdsOne ==
  ASSUME NEW x \in LogItem
  PROVE  FunctionLogIds(<<x>>) = IF IsFunctionLog(x) THEN <<x.id>> ELSE <<>>
<1>1. x \in FunctionLogs <=> IsFunctionLog(x)
  BY DEF FunctionLogs, LogItem
<1>2. <<>> \in Seq(LogItem) /\ Append(<<>>, x) = <<x>>
  OBVIOUS
<1>4. FilterSeq(Append(<<>>, x), FunctionLogs) =
        IF x \in FunctionLogs THEN Append(FilterSeq(<<>>, FunctionLogs), x)
        ELSE FilterSeq(<<>>, FunctionLogs)
  BY <1>2, FilterAppend
<1>3. FilterSeq(<<x>>, FunctionLogs) = IF IsFunctionLog(x) THEN <<x>> ELSE <<>>
  BY <1>1, <1>2, <1>4, FilterEmpty
<1> QED
  BY <1>3 DEF FunctionLogIds, Ids

\* Logs that become records keep their ids.
LEMMA LogIdsOfRecords ==
  ASSUME NEW inv \in InvocationProcessingState, NEW logs \in Seq(Event)
  PROVE  /\ [i \in 1..Len(logs) |-> MakeLog(inv, logs[i])] \in Seq(LogRecord)
         /\ FunctionLogIds([i \in 1..Len(logs) |-> MakeLog(inv, logs[i])]) = FunctionLogIds(logs)
<1> DEFINE Made(s) == [i \in 1..Len(s) |-> MakeLog(inv, s[i])]
           Bad == {s \in Seq(Event) : FunctionLogIds(Made(s)) # FunctionLogIds(s)}
<1>1. ASSUME NEW s \in Seq(Event) PROVE Made(s) \in Seq(LogRecord)
  <2>1. \A i \in 1..Len(s) : MakeLog(inv, s[i]) \in LogRecord
    BY MakeLogType
  <2> QED
    BY <2>1
<1>2. SUFFICES ASSUME Bad # {} PROVE FALSE
  BY <1>1
<1>3. <<>> \notin Bad
  <2>1. Made(<<>>) = <<>>
    OBVIOUS
  <2> QED
    BY <2>1
<1>4. PICK s \in Seq(Event), e \in Event : s \notin Bad /\ Append(s, e) \in Bad
  <2>1. Bad \in SUBSET Seq(Event)
    OBVIOUS
  <2> HIDE DEF Bad
  <2> QED
    BY <1>2, <1>3, <2>1, SequenceSplits
<1> DEFINE log == MakeLog(inv, e)
<1>5. log \in LogRecord /\ log.id = e.id /\ (IsFunctionLog(log) <=> IsFunctionLog(e))
  BY MakeLogType DEF MakeLog, IsFunctionLog
<1>6. Made(Append(s, e)) = Made(s) \o <<log>> /\ Append(s, e) = s \o <<e>>
  <2>1. /\ Append(s, e) \in Seq(Event) /\ Len(Append(s, e)) = Len(s) + 1 /\ Len(s) \in Nat
        /\ \A i \in 1..Len(s) : Append(s, e)[i] = s[i]
        /\ Append(s, e)[Len(s) + 1] = e
    OBVIOUS
  <2>2. /\ Made(s) \in Seq(LogRecord) /\ <<log>> \in Seq(LogRecord)
        /\ Made(Append(s, e)) \in Seq(LogRecord)
    BY <1>1, <1>5, <2>1
  <2>3. /\ Len(Made(s) \o <<log>>) = Len(s) + 1 /\ Made(s) \o <<log>> \in Seq(LogRecord)
        /\ Len(Made(Append(s, e))) = Len(s) + 1
    BY <2>1, <2>2
  <2>4. \A i \in 1..(Len(s) + 1) : Made(Append(s, e))[i] = (Made(s) \o <<log>>)[i]
    BY <2>1, <2>2
  <2> HIDE DEF Made, log
  <2>5. Made(Append(s, e)) = Made(s) \o <<log>>
    BY <2>2, <2>3, <2>4, SeqEqual
  <2> QED
    BY <2>5, AppendIsConcat
<1>7. /\ FunctionLogIds(Made(s)) = FunctionLogIds(s)
      /\ FunctionLogIds(Made(s) \o <<log>>) # FunctionLogIds(s \o <<e>>)
  BY <1>4, <1>6
<1>8. /\ Made(s) \in Seq(LogItem) /\ s \in Seq(LogItem)
      /\ <<log>> \in Seq(LogItem) /\ <<e>> \in Seq(LogItem)
      /\ log \in LogItem /\ e \in LogItem
  BY <1>1, <1>5, LogItems DEF LogItem
<1> HIDE DEF Made, log, Bad
<1>9. FunctionLogIds(<<log>>) = FunctionLogIds(<<e>>)
  BY <1>5, <1>8, LogIdsOne
<1>10. FunctionLogIds(Made(s) \o <<log>>) = FunctionLogIds(Made(s)) \o FunctionLogIds(<<log>>)
  BY <1>8, LogIdsConcat
<1>11. FunctionLogIds(s \o <<e>>) = FunctionLogIds(s) \o FunctionLogIds(<<e>>)
  BY <1>8, LogIdsConcat
<1> QED
  BY <1>7, <1>9, <1>10, <1>11

\* Sequences of ids are concatenated in any grouping.
LEMMA IdsAssociate ==
  ASSUME NEW a \in Seq(Nat), NEW b \in Seq(Nat), NEW c \in Seq(Nat)
  PROVE  (a \o b) \o c = a \o (b \o c)
  BY ConcatAssociative

-----------------------------------------------------------------------------
(* What the operators of the processor do to the logs.                     *)

\* The function logs that were made or are held, in the order of their events.
LogsOf(p) == FunctionLogIds(p.out.logs) \o FunctionLogIds(p.inv.logs)

\* Logs are held only while they are delayed.
HoldsOnlyDelayed(inv) == inv.delaying_logs \/ inv.logs = <<>>

\* From p to q the logs in ids were processed: records were only added, and what is
\* held follows what was made.
Flows(p, q, ids) ==
  /\ LogsOf(q) = LogsOf(p) \o ids
  /\ \E more \in Seq(LogRecord) : q.out.logs = p.out.logs \o more
  /\ HoldsOnlyDelayed(q.inv)
  /\ q.inv.req = p.inv.req

\* The logs of a state of the processor.
LEMMA LogsOfType ==
  ASSUME NEW p \in ProcessingType
  PROVE  /\ p.out.logs \in Seq(LogRecord) /\ p.inv.logs \in Seq(Event)
         /\ p.out.logs \in Seq(LogItem) /\ p.inv.logs \in Seq(LogItem)
         /\ FunctionLogIds(p.out.logs) \in Seq(Nat) /\ FunctionLogIds(p.inv.logs) \in Seq(Nat)
         /\ LogsOf(p) \in Seq(Nat)
<1>1. p.out.logs \in Seq(LogRecord) /\ p.inv.logs \in Seq(Event)
  BY DEF ProcessingType, OutputBuffers, InvocationProcessingState
<1>2. p.out.logs \in Seq(LogItem) /\ p.inv.logs \in Seq(LogItem)
  BY <1>1, LogItems
<1>3. FunctionLogIds(p.out.logs) \in Seq(Nat) /\ FunctionLogIds(p.inv.logs) \in Seq(Nat)
  BY <1>2, LogIdsType
<1> QED
  BY <1>1, <1>2, <1>3, ConcatProperties DEF LogsOf

\* What leaves the logs alone.
LEMMA FlowsNothing ==
  ASSUME NEW p \in ProcessingType, NEW q, HoldsOnlyDelayed(p.inv),
         q.out.logs = p.out.logs, q.inv.logs = p.inv.logs,
         q.inv.delaying_logs = p.inv.delaying_logs, q.inv.req = p.inv.req
  PROVE  Flows(p, q, <<>>)
<1>1. p.out.logs \in Seq(LogRecord) /\ LogsOf(p) \in Seq(Nat) /\ <<>> \in Seq(LogRecord)
  BY LogsOfType
<1>2. p.out.logs = p.out.logs \o <<>> /\ LogsOf(p) \o <<>> = LogsOf(p)
  BY <1>1, ConcatEmptySeq
<1>3. LogsOf(q) = LogsOf(p)
  BY DEF LogsOf
<1> QED
  BY <1>1, <1>2, <1>3 DEF Flows, HoldsOnlyDelayed

\* One step after another.
LEMMA FlowsOn ==
  ASSUME NEW p \in ProcessingType, NEW q, NEW r, NEW a \in Seq(Nat), NEW b \in Seq(Nat),
         Flows(p, q, a), Flows(q, r, b)
  PROVE  Flows(p, r, a \o b)
<1>1. PICK m \in Seq(LogRecord) : q.out.logs = p.out.logs \o m
  BY DEF Flows
<1>2. PICK n \in Seq(LogRecord) : r.out.logs = q.out.logs \o n
  BY DEF Flows
<1>3. p.out.logs \in Seq(LogRecord) /\ LogsOf(p) \in Seq(Nat)
  BY LogsOfType
<1>4. r.out.logs = p.out.logs \o (m \o n) /\ m \o n \in Seq(LogRecord)
  <2> DEFINE o == p.out.logs
  <2>1. r.out.logs = (o \o m) \o n
    BY <1>1, <1>2
  <2>3. o \in Seq(LogRecord)
    BY <1>3
  <2> HIDE DEF o
  <2>2. (o \o m) \o n = o \o (m \o n)
    BY ONLY <2>3, m \in Seq(LogRecord), n \in Seq(LogRecord), ConcatAssociative
  <2> QED
    BY <2>1, <2>2, ConcatProperties DEF o
<1>5. LogsOf(r) = LogsOf(p) \o (a \o b)
  <2>1. LogsOf(r) = (LogsOf(p) \o a) \o b
    BY DEF Flows
  <2> QED
    BY <1>3, <2>1, ConcatAssociative
<1> QED
  BY <1>4, <1>5 DEF Flows

\* ... that adds nothing.
LEMMA FlowsOnNothing ==
  ASSUME NEW p \in ProcessingType, NEW q, NEW r, NEW ids \in Seq(Nat)
  PROVE  /\ Flows(p, q, ids) /\ Flows(q, r, <<>>) => Flows(p, r, ids)
         /\ Flows(p, q, <<>>) /\ Flows(q, r, ids) => Flows(p, r, ids)
<1>1. <<>> \in Seq(Nat) /\ ids \o <<>> = ids /\ <<>> \o ids = ids
  BY ConcatEmptySeq
<1> QED
  BY <1>1, FlowsOn

\* Records are made of events that come after all that is held.
LEMMA FlowsEmit ==
  ASSUME NEW p \in ProcessingType, NEW logs \in Seq(LogRecord), HoldsOnlyDelayed(p.inv),
         p.inv.logs = <<>> \/ FunctionLogIds(logs) = <<>>
  PROVE  Flows(p, EmitLogs(p, logs), FunctionLogIds(logs))
<1> DEFINE q == EmitLogs(p, logs)
           made == FunctionLogIds(p.out.logs)
           held == FunctionLogIds(p.inv.logs)
           ids == FunctionLogIds(logs)
<1>1. /\ p.out.logs \in Seq(LogItem) /\ logs \in Seq(LogItem)
      /\ made \in Seq(Nat) /\ held \in Seq(Nat) /\ ids \in Seq(Nat)
  BY LogsOfType, LogItems, LogIdsType
<1>2. q.inv = p.inv /\ q.out.logs = p.out.logs \o logs
  BY EmitLogsType DEF EmitLogs, ProcessingType, OutputBuffers
<1>3. LogsOf(q) = (made \o ids) \o held
  BY <1>1, <1>2, LogIdsConcat DEF LogsOf
<1> HIDE DEF q, made, held, ids
<1>4. (made \o ids) \o held = (made \o held) \o ids
  <2>1. CASE ids = <<>>
    BY <1>1, <2>1, ConcatEmptySeq, ConcatProperties
  <2>2. CASE held = <<>>
    BY <1>1, <2>2, ConcatEmptySeq, ConcatProperties
  <2> QED
    BY <2>1, <2>2, LogIdsEmpty DEF ids, held
<1> QED
  BY <1>2, <1>3, <1>4 DEF Flows, q, LogsOf, made, held, ids

\* Platform logs are not logs of the function.
LEMMA FlowsPlatformLog ==
  ASSUME NEW p \in ProcessingType, NEW e \in Event, ~IsFunctionLog(e), HoldsOnlyDelayed(p.inv)
  PROVE  Flows(p, EmitPlatformLog(p, e), <<>>)
<1> DEFINE log == MakeLog(p.inv, e)
<1>1. log \in LogRecord /\ ~IsFunctionLog(log)
  BY MakeLogType, ProcessingFields DEF MakeLog, IsFunctionLog
<1>2. log \in LogItem
  BY <1>1 DEF LogItem
<1> HIDE DEF log
<1>6. <<log>> \in Seq(LogRecord)
  BY <1>1
<1>3. FunctionLogIds(<<log>>) = <<>>
  BY <1>1, <1>2, LogIdsOne
<1>4. Flows(p, EmitLogs(p, <<log>>), <<>>)
  BY <1>3, <1>6, FlowsEmit
<1>5. Flows(p, p, <<>>)
  BY FlowsNothing
<1> QED
  BY <1>4, <1>5 DEF EmitPlatformLog, log

\* take() of the held logs: they become records, before any later log does.
LEMMA FlowsEmitHeld ==
  ASSUME NEW p \in ProcessingType
  PROVE  /\ Flows(p, EmitHeldLogs(p), <<>>)
         /\ EmitHeldLogs(p).inv = [p.inv EXCEPT !.logs = <<>>]
         /\ EmitHeldLogs(p).inv.logs = <<>>
<1> DEFINE logs == [i \in 1..Len(p.inv.logs) |-> MakeLog(p.inv, p.inv.logs[i])]
           q == EmitHeldLogs(p)
<1>1. /\ p.inv \in InvocationProcessingState /\ p.inv.logs \in Seq(Event)
      /\ p.out.logs \in Seq(LogItem) /\ FunctionLogIds(p.out.logs) \in Seq(Nat)
      /\ FunctionLogIds(p.inv.logs) \in Seq(Nat)
  BY LogsOfType, ProcessingFields
<1>2. logs \in Seq(LogRecord) /\ FunctionLogIds(logs) = FunctionLogIds(p.inv.logs)
  BY <1>1, LogIdsOfRecords
<1>3. logs \in Seq(LogItem)
  BY <1>2, LogItems
<1>4. EmitLogs(p, logs) \in ProcessingType /\ EmitLogs(p, logs).inv = p.inv
  BY <1>2, EmitLogsType
<1>5. EmitLogs(p, logs).out.logs = p.out.logs \o logs
  BY DEF EmitLogs, ProcessingType, OutputBuffers
<1>6. q = [EmitLogs(p, logs) EXCEPT !.inv.logs = <<>>]
  BY DEF EmitHeldLogs
<1> HIDE DEF logs, q
<1>7. q.out = EmitLogs(p, logs).out /\ q.inv = [p.inv EXCEPT !.logs = <<>>]
  BY <1>4, <1>6 DEF ProcessingType
<1>8. q.inv.logs = <<>> /\ q.inv.req = p.inv.req
  BY <1>1, <1>7 DEF InvocationProcessingState
<1>9. LogsOf(q) = LogsOf(p) \o <<>>
  <2>1. FunctionLogIds(q.out.logs) = FunctionLogIds(p.out.logs) \o FunctionLogIds(p.inv.logs)
    <3>1. FunctionLogIds(p.out.logs \o logs) = FunctionLogIds(p.out.logs) \o FunctionLogIds(logs)
      BY <1>1, <1>3, LogIdsConcat
    <3> QED
      BY <1>2, <1>5, <1>7, <3>1
  <2>2. LogsOf(p) \in Seq(Nat) /\ FunctionLogIds(q.inv.logs) = <<>>
    BY <1>8, LogsOfType, LogIdsEmpty
  <2> QED
    BY <2>1, <2>2, ConcatEmptySeq DEF LogsOf
<1> QED
  BY <1>2, <1>5, <1>7, <1>8, <1>9 DEF Flows, HoldsOnlyDelayed, q

\* The start log that process_delayed_logs makes is not a log of the function.
LEMMA StartLogsAreNotFunctionLogs ==
  ASSUME NEW inv \in InvocationProcessingState
  PROVE  /\ StartLogs(inv) \in Seq(LogRecord) /\ FunctionLogIds(StartLogs(inv)) = <<>>
<1>1. CASE ~(Has(inv, "PlatformStart") /\ "PlatformStart" \in PlatformLogSet)
  <2>1. StartLogs(inv) = <<>>
    BY <1>1 DEF StartLogs
  <2>2. <<>> \in Seq(LogRecord)
    OBVIOUS
  <2> QED
    BY <2>1, <2>2, LogIdsEmpty
<1>2. CASE Has(inv, "PlatformStart") /\ "PlatformStart" \in PlatformLogSet
  <2> DEFINE d == CHOOSE d \in inv.data : d.kind = "PlatformStart"
             log == MakeLog(inv, d)
  <2>1. d \in inv.data /\ d.kind = "PlatformStart"
    BY <1>2 DEF Has
  <2>2. d \in Event
    BY <2>1, InvocationFields
  <2>3. log \in LogRecord /\ ~IsFunctionLog(log)
    BY <2>1, <2>2, MakeLogType DEF MakeLog, IsFunctionLog
  <2>4. StartLogs(inv) = <<log>>
    BY <1>2 DEF StartLogs
  <2> HIDE DEF log, d
  <2>5. log \in LogItem /\ <<log>> \in Seq(LogRecord)
    BY <2>3 DEF LogItem
  <2>6. FunctionLogIds(<<log>>) = <<>>
    BY <2>3, <2>5, LogIdsOne
  <2> QED
    BY <2>4, <2>5, <2>6
<1> QED
  BY <1>1, <1>2

\* process_delayed_logs: the held logs become records, and later logs are not held.
LEMMA FlowsRelease ==
  ASSUME NEW p \in ProcessingType
  PROVE  /\ Flows(p, ReleaseDelayedLogs(p), <<>>)
         /\ ReleaseDelayedLogs(p).inv = [p.inv EXCEPT !.delaying_logs = FALSE, !.logs = <<>>]
         /\ ReleaseDelayedLogs(p).inv.logs = <<>>
         /\ ReleaseDelayedLogs(p).inv.delaying_logs = FALSE
<1> DEFINE a == [p EXCEPT !.inv.delaying_logs = FALSE]
           start == StartLogs(a.inv)
           b == EmitLogs(a, start)
           c == EmitHeldLogs(b)
<1>1. /\ a \in ProcessingType /\ a.out = p.out
      /\ a.inv = [p.inv EXCEPT !.delaying_logs = FALSE]
      /\ a.inv.logs = p.inv.logs /\ a.inv.req = p.inv.req /\ a.inv.delaying_logs = FALSE
  BY DEF ProcessingType, InvocationProcessingState
<1>2. start \in Seq(LogRecord) /\ FunctionLogIds(start) = <<>>
  BY <1>1, ProcessingFields, StartLogsAreNotFunctionLogs
<1>3. b \in ProcessingType /\ b.inv = a.inv
  BY <1>1, <1>2, EmitLogsType
<1>4. b.out.logs = p.out.logs \o start
  BY <1>1 DEF EmitLogs, ProcessingType, OutputBuffers
<1>5. ReleaseDelayedLogs(p) = c
  BY DEF ReleaseDelayedLogs
<1> HIDE DEF a, start, b
<1>6. LogsOf(b) = LogsOf(p)
  <2>1. /\ p.out.logs \in Seq(LogItem) /\ start \in Seq(LogItem)
        /\ FunctionLogIds(p.out.logs) \in Seq(Nat)
    BY <1>2, LogsOfType, LogItems
  <2>2. FunctionLogIds(p.out.logs \o start) = FunctionLogIds(p.out.logs) \o FunctionLogIds(start)
    BY <2>1, LogIdsConcat
  <2>3. FunctionLogIds(p.out.logs) \o <<>> = FunctionLogIds(p.out.logs)
    BY <2>1, ConcatEmptySeq
  <2> QED
    BY <1>1, <1>2, <1>3, <1>4, <2>2, <2>3 DEF LogsOf
<1>7. /\ Flows(b, c, <<>>)
      /\ c.inv = [b.inv EXCEPT !.logs = <<>>] /\ c.inv.logs = <<>>
  BY <1>3, FlowsEmitHeld
<1> HIDE DEF c
<1>8. PICK m \in Seq(LogRecord) : c.out.logs = b.out.logs \o m
  BY <1>7 DEF Flows
<1>9. /\ c.inv = [p.inv EXCEPT !.delaying_logs = FALSE, !.logs = <<>>]
      /\ c.inv.delaying_logs = FALSE
  BY <1>1, <1>3, <1>7, ProcessingFields DEF InvocationProcessingState
<1>10. c.out.logs = p.out.logs \o (start \o m) /\ start \o m \in Seq(LogRecord)
  <2> DEFINE o == p.out.logs
  <2>1. o \in Seq(LogRecord)
    BY LogsOfType
  <2>2. c.out.logs = (o \o start) \o m
    BY <1>4, <1>8
  <2>4. start \in Seq(LogRecord)
    BY <1>2
  <2> HIDE DEF o
  <2>3. (o \o start) \o m = o \o (start \o m)
    BY ONLY <2>1, <2>4, m \in Seq(LogRecord), ConcatAssociative
  <2> QED
    BY <1>2, <2>2, <2>3, ConcatProperties DEF o
<1> QED
  BY <1>1, <1>3, <1>5, <1>6, <1>7, <1>9, <1>10 DEF Flows

\* What only adds to the platform spans, the spans of the function, the traces, the
\* platform events seen or the metrics.
LEMMA FlowsKeep ==
  ASSUME NEW p \in ProcessingType, NEW e \in Event, HoldsOnlyDelayed(p.inv), NEW modes,
         NEW spans, NEW traces, NEW out, out.logs = p.out.logs
  PROVE  /\ Flows(p, Record(p, e), <<>>)
         /\ Flows(p, CountInMetrics(p, e, modes), <<>>)
         /\ Flows(p, [p EXCEPT !.out.spans = spans], <<>>)
         /\ Flows(p, [p EXCEPT !.out.epsagonTraces = traces], <<>>)
         /\ Flows(p, [p EXCEPT !.out = out], <<>>)
<1>1. p.inv \in InvocationProcessingState /\ p.out \in OutputBuffers
  BY ProcessingFields
<1>2. Flows(p, Record(p, e), <<>>)
  BY <1>1, FlowsNothing DEF Record, RecordData, ProcessingType, InvocationProcessingState
<1>3. Flows(p, CountInMetrics(p, e, modes), <<>>)
  <2>1. CountInMetrics(p, e, modes).inv = p.inv /\ CountInMetrics(p, e, modes).out = p.out
    BY DEF CountInMetrics, ProcessingType
  <2> QED
    BY <2>1, FlowsNothing
<1>4. Flows(p, [p EXCEPT !.out.spans = spans], <<>>)
  <2> DEFINE q == [p EXCEPT !.out.spans = spans]
  <2>1. q.out.logs = p.out.logs /\ q.inv = p.inv
    BY DEF ProcessingType, OutputBuffers
  <2> HIDE DEF q
  <2>2. Flows(p, q, <<>>)
    BY <2>1, FlowsNothing
  <2> QED
    BY <2>2 DEF q
<1>5. Flows(p, [p EXCEPT !.out.epsagonTraces = traces], <<>>)
  <2> DEFINE q == [p EXCEPT !.out.epsagonTraces = traces]
  <2>1. q.out.logs = p.out.logs /\ q.inv = p.inv
    BY DEF ProcessingType, OutputBuffers
  <2> HIDE DEF q
  <2>2. Flows(p, q, <<>>)
    BY <2>1, FlowsNothing
  <2> QED
    BY <2>2 DEF q
<1>6. Flows(p, [p EXCEPT !.out = out], <<>>)
  <2> DEFINE q == [p EXCEPT !.out = out]
  <2>1. q.out.logs = p.out.logs /\ q.inv = p.inv
    BY DEF ProcessingType
  <2> HIDE DEF q
  <2>2. Flows(p, q, <<>>)
    BY <2>1, FlowsNothing
  <2> QED
    BY <2>2 DEF q
<1> QED
  BY <1>2, <1>3, <1>4, <1>5, <1>6

\* The arm for function logs: a log becomes a record, or is held after the others.
LEMMA FlowsFunctionLog ==
  ASSUME NEW p \in ProcessingType, NEW e \in Event, LogMode = "Structured",
         HoldsOnlyDelayed(p.inv), e.kind \in {"Function", "EpsagonTrace"}
  PROVE  Flows(p, OnFunctionLog(p, e), FunctionLogIds(<<e>>))
<1>1. e \in LogItem /\ e.id \in Nat
  BY LogItems DEF LogItem
<1>2. FunctionLogIds(<<e>>) = IF e.kind = "Function" THEN <<e.id>> ELSE <<>>
  BY <1>1, LogIdsOne DEF IsFunctionLog
<1>3. CASE e.kind = "EpsagonTrace"
  <2> DEFINE traces == Append(p.out.epsagonTraces, e.id)
  <2>1. OnFunctionLog(p, e) = [p EXCEPT !.out.epsagonTraces = traces]
    BY <1>3 DEF OnFunctionLog
  <2> HIDE DEF traces
  <2>2. Flows(p, [p EXCEPT !.out.epsagonTraces = traces], <<>>)
    BY FlowsKeep
  <2> QED
    BY <1>2, <1>3, <2>1, <2>2
<1>4. CASE e.kind = "Function" /\ p.inv.delaying_logs
  <2> DEFINE q == OnFunctionLog(p, e)
             held == p.inv.logs
             ids == <<e.id>>
             made == FunctionLogIds(p.out.logs)
             heldIds == FunctionLogIds(held)
  <2>1. q = [p EXCEPT !.inv.logs = Append(held, e)]
    BY <1>4 DEF OnFunctionLog
  <2>2. /\ held \in Seq(Event) /\ held \in Seq(LogItem)
        /\ made \in Seq(Nat) /\ heldIds \in Seq(Nat) /\ ids \in Seq(Nat)
    BY <1>1, LogsOfType
  <2>3. q.out = p.out /\ q.inv = [p.inv EXCEPT !.logs = Append(held, e)]
    BY <2>1 DEF ProcessingType
  <2>4. /\ q.inv.logs = Append(held, e) /\ q.inv.delaying_logs /\ q.inv.req = p.inv.req
    BY <1>4, <2>3, ProcessingFields DEF InvocationProcessingState
  <2>5. <<e>> \in Seq(LogItem) /\ Append(held, e) = held \o <<e>>
    BY <1>1, <2>2, AppendIsConcat
  <2> HIDE DEF held
  <2>6. FunctionLogIds(held \o <<e>>) = heldIds \o ids
    <3>1. FunctionLogIds(held \o <<e>>) = FunctionLogIds(held) \o FunctionLogIds(<<e>>)
      BY <2>2, <2>5, LogIdsConcat
    <3> QED
      BY <1>2, <1>4, <3>1
  <2>7. LogsOf(q) = made \o (heldIds \o ids)
    BY <2>3, <2>4, <2>5, <2>6 DEF LogsOf
  <2>8. LogsOf(p) \o ids = (made \o heldIds) \o ids
    BY DEF LogsOf, held
  <2>13. made \in Seq(Nat)
    BY <2>2
  <2>14. heldIds \in Seq(Nat)
    BY <2>2
  <2>15. ids \in Seq(Nat)
    BY <2>2
  <2> HIDE DEF made, heldIds, ids
  <2>9. (made \o heldIds) \o ids = made \o (heldIds \o ids)
    BY ONLY <2>13, <2>14, <2>15, IdsAssociate
  <2>10. LogsOf(q) = LogsOf(p) \o ids
    BY <2>7, <2>8, <2>9
  <2>11. q.out.logs = p.out.logs \o <<>> /\ <<>> \in Seq(LogRecord)
    BY <2>3, LogsOfType, ConcatEmptySeq
  <2> HIDE DEF q
  <2>12. Flows(p, q, ids)
    BY <2>4, <2>10, <2>11 DEF Flows, HoldsOnlyDelayed
  <2> QED
    BY <1>2, <1>4, <2>12 DEF q, ids
<1>5. CASE e.kind = "Function" /\ ~p.inv.delaying_logs
  <2> DEFINE log == MakeLog(p.inv, e)
  <2>1. log \in LogRecord /\ IsFunctionLog(log) /\ log.id = e.id
    BY <1>5, MakeLogType, ProcessingFields DEF MakeLog, IsFunctionLog
  <2>2. OnFunctionLog(p, e) = EmitLogs(p, <<log>>)
    BY <1>5 DEF OnFunctionLog
  <2> HIDE DEF log
  <2>3. log \in LogItem /\ <<log>> \in Seq(LogRecord)
    BY <2>1 DEF LogItem
  <2>4. FunctionLogIds(<<log>>) = <<e.id>>
    BY <2>1, <2>3, LogIdsOne
  <2>5. Flows(p, EmitLogs(p, <<log>>), FunctionLogIds(<<log>>))
    BY <1>5, <2>3, FlowsEmit DEF HoldsOnlyDelayed
  <2> QED
    BY <1>2, <1>5, <2>2, <2>4, <2>5
<1> QED
  BY <1>3, <1>4, <1>5

\* The arms for PlatformStart and PlatformInitReport.
LEMMA FlowsStart ==
  ASSUME NEW p \in ProcessingType, NEW e \in Event, HoldsOnlyDelayed(p.inv), ~IsFunctionLog(e)
  PROVE  Flows(p, OnStart(p, e), <<>>) /\ Flows(p, OnInitReport(p, e), <<>>)
<1>1. <<>> \in Seq(Nat)
  OBVIOUS
<1>2. Flows(p, OnStart(p, e), <<>>)
  <2> DEFINE a == IF p.inv.delaying_logs THEN p ELSE EmitPlatformLog(p, e)
             b == Record(a, e)
  <2>1. Flows(p, a, <<>>) /\ a \in ProcessingType
    BY FlowsPlatformLog, FlowsNothing, EmitPlatformLogType
  <2>2. OnStart(p, e) = b
    BY DEF OnStart
  <2> HIDE DEF a
  <2>3. Flows(a, b, <<>>)
    BY <2>1, FlowsKeep DEF Flows
  <2> HIDE DEF b
  <2> QED
    BY <1>1, <2>1, <2>2, <2>3, FlowsOnNothing
<1>3. Flows(p, OnInitReport(p, e), <<>>)
  <2> DEFINE a == CountInMetrics(p, e, {"PlatformV2"})
             b == Record(a, e)
  <2>1. Flows(p, a, <<>>) /\ a \in ProcessingType
    BY FlowsKeep, CountInMetricsType
  <2>2. OnInitReport(p, e) = b
    BY DEF OnInitReport
  <2> HIDE DEF a
  <2>3. Flows(a, b, <<>>)
    BY <2>1, FlowsKeep DEF Flows
  <2> HIDE DEF b
  <2> QED
    BY <1>1, <2>1, <2>2, <2>3, FlowsOnNothing
<1> QED
  BY <1>2, <1>3

\* What the arms for PlatformRuntimeDone and PlatformReport do after they let go of the
\* held logs.
LEMMA FlowsPlatformEvent ==
  ASSUME NEW p \in ProcessingType, NEW e \in Event, HoldsOnlyDelayed(p.inv),
         ~IsFunctionLog(e), NEW modes
  PROVE  LET q == Record(CountInMetrics(EmitPlatformLog(p, e), e, modes), e)
         IN  Flows(p, q, <<>>) /\ q \in ProcessingType
<1> DEFINE a == EmitPlatformLog(p, e)
           b == CountInMetrics(a, e, modes)
           c == Record(b, e)
<1>1. Flows(p, a, <<>>) /\ a \in ProcessingType
  BY FlowsPlatformLog, EmitPlatformLogType
<1> HIDE DEF a
<1>2. Flows(a, b, <<>>) /\ b \in ProcessingType
  <2>1. b \in ProcessingType
    BY <1>1, CountInMetricsType
  <2>2. HoldsOnlyDelayed(a.inv)
    BY <1>1 DEF Flows
  <2> QED
    BY <1>1, <2>1, <2>2, FlowsKeep
<1> HIDE DEF b
<1>3. Flows(b, c, <<>>) /\ c \in ProcessingType
  <2>1. c \in ProcessingType
    BY <1>2, RecordType
  <2>2. HoldsOnlyDelayed(b.inv)
    BY <1>2 DEF Flows
  <2> QED
    BY <1>2, <2>1, <2>2, FlowsKeep
<1> HIDE DEF c
<1>4. <<>> \in Seq(Nat)
  OBVIOUS
<1>5. Flows(p, b, <<>>)
  BY <1>1, <1>2, <1>4, FlowsOnNothing
<1>6. Flows(p, c, <<>>)
  BY <1>3, <1>4, <1>5, FlowsOnNothing
<1> QED
  BY <1>3, <1>6 DEF a, b, c

\* The arm for PlatformRuntimeDone: what was delayed is released.
LEMMA FlowsRuntimeDone ==
  ASSUME NEW p \in ProcessingType, NEW e \in Event, LogMode = "Structured",
         HoldsOnlyDelayed(p.inv), ~IsFunctionLog(e)
  PROVE  Flows(p, OnRuntimeDone(p, e), <<>>)
<1> DEFINE released == IF LogMode = "Structured" /\ p.inv.delaying_logs
                       THEN ReleaseDelayedLogs(p) ELSE p
           q == Record(CountInMetrics(EmitPlatformLog(released, e), e, {"PlatformV2"}), e)
           out == IF TracingMode = "OtelInstrumentation"
                  THEN AddFunctionSpans(q.out, TriggerAndInvocationSpans(q.inv)) ELSE q.out
           more == out.spans \o SpansAfterInvocation(q.inv)
           new == [out EXCEPT !.spans = more]
           r == [q EXCEPT !.out = new]
<1>1. Flows(p, released, <<>>) /\ released \in ProcessingType
  BY FlowsRelease, FlowsNothing, ReleaseDelayedLogsType
<1>2. OnRuntimeDone(p, e) = IF ShouldProduceSpans(q.inv) /\ TracingMode # "Disabled" THEN r ELSE q
  BY DEF OnRuntimeDone
<1> HIDE DEF released
<1>3. Flows(released, q, <<>>) /\ q \in ProcessingType
  <2>1. HoldsOnlyDelayed(released.inv)
    BY <1>1 DEF Flows
  <2> QED
    BY <1>1, <2>1, FlowsPlatformEvent
<1> HIDE DEF q
<1>4. q.out \in OutputBuffers /\ q.inv \in InvocationProcessingState /\ HoldsOnlyDelayed(q.inv)
  BY <1>3, ProcessingFields DEF Flows
<1>5. out \in OutputBuffers /\ out.logs = q.out.logs
  <2> DEFINE spans == TriggerAndInvocationSpans(q.inv)
  <2>1. AddFunctionSpans(q.out, spans) \in OutputBuffers
    BY <1>4, TriggerSpansType, AddFunctionSpansType
  <2>2. AddFunctionSpans(q.out, spans).logs = q.out.logs
    BY <1>4 DEF AddFunctionSpans, OutputBuffers
  <2> QED
    BY <1>4, <2>1, <2>2
<1> HIDE DEF out, more
<1>6. new.logs = q.out.logs
  BY <1>5 DEF OutputBuffers
<1> HIDE DEF new
<1>7. Flows(q, r, <<>>)
  BY <1>3, <1>4, <1>6, FlowsKeep
<1> HIDE DEF r
<1>8. <<>> \in Seq(Nat)
  OBVIOUS
<1>9. Flows(p, q, <<>>)
  BY <1>1, <1>3, <1>8, FlowsOnNothing
<1>10. Flows(p, r, <<>>)
  BY <1>7, <1>8, <1>9, FlowsOnNothing
<1> QED
  BY <1>2, <1>9, <1>10

\* The arm for PlatformReport: the held logs become records.
LEMMA FlowsReport ==
  ASSUME NEW p \in ProcessingType, NEW e \in Event, LogMode = "Structured",
         HoldsOnlyDelayed(p.inv), ~IsFunctionLog(e)
  PROVE  Flows(p, OnReport(p, e), <<>>)
<1> DEFINE flushed == IF LogMode = "Structured" THEN EmitHeldLogs(p) ELSE p
           q == Record(CountInMetrics(EmitPlatformLog(flushed, e), e,
                                      {"PlatformReport", "PlatformV2"}), e)
           spans == q.out.spans \o SpansAfterReport(q.inv)
           r == [q EXCEPT !.out.spans = spans]
<1>1. Flows(p, flushed, <<>>) /\ flushed \in ProcessingType
  BY FlowsEmitHeld, EmitHeldLogsType
<1>2. OnReport(p, e) = IF ShouldProduceSpans(q.inv) /\ TracingMode = "TelemetryApi" THEN r ELSE q
  BY DEF OnReport
<1> HIDE DEF flushed
<1>3. Flows(flushed, q, <<>>) /\ q \in ProcessingType
  <2>1. HoldsOnlyDelayed(flushed.inv)
    BY <1>1 DEF Flows
  <2> QED
    BY <1>1, <2>1, FlowsPlatformEvent
<1> HIDE DEF q, spans
<1>4. Flows(q, r, <<>>)
  <2>1. HoldsOnlyDelayed(q.inv)
    BY <1>3 DEF Flows
  <2> QED
    BY <1>3, <2>1, FlowsKeep
<1> HIDE DEF r
<1>5. <<>> \in Seq(Nat)
  OBVIOUS
<1>6. Flows(p, q, <<>>)
  BY <1>1, <1>3, <1>5, FlowsOnNothing
<1>7. Flows(p, r, <<>>)
  BY <1>4, <1>5, <1>6, FlowsOnNothing
<1> QED
  BY <1>2, <1>6, <1>7

\* process_telemetry: whatever the event, its log, if it is one, follows those before it.
LEMMA FlowsTelemetry ==
  ASSUME NEW p \in ProcessingType, NEW e \in Event, LogMode = "Structured",
         HoldsOnlyDelayed(p.inv)
  PROVE  Flows(p, ProcessTelemetry(p, e), FunctionLogIds(<<e>>))
<1>1. e.kind \in EventKinds /\ e \in LogItem
  BY DEF Event, LogItem
<1>2. ~IsFunctionLog(e) => FunctionLogIds(<<e>>) = <<>>
  BY <1>1, LogIdsOne
<1>3. CASE e.kind \in {"Function", "EpsagonTrace"}
  BY <1>3, FlowsFunctionLog DEF ProcessTelemetry
<1>4. CASE e.kind \in {"PlatformInitStart", "PlatformInitRuntimeDone"}
  BY <1>2, <1>4, FlowsKeep DEF ProcessTelemetry, IsFunctionLog
<1>5. CASE e.kind \in {"PlatformInitReport", "PlatformStart"}
  BY <1>2, <1>5, FlowsStart DEF ProcessTelemetry, IsFunctionLog
<1>6. CASE e.kind = "PlatformRuntimeDone"
  BY <1>2, <1>6, FlowsRuntimeDone DEF ProcessTelemetry, IsFunctionLog
<1>7. CASE e.kind = "PlatformReport"
  BY <1>2, <1>7, FlowsReport DEF ProcessTelemetry, IsFunctionLog
<1>8. CASE e.kind = "Other"
  BY <1>2, <1>8, FlowsNothing DEF ProcessTelemetry, IsFunctionLog
<1> QED
  BY <1>1, <1>3, <1>4, <1>5, <1>6, <1>7, <1>8 DEF EventKinds

\* What process_telemetry does to the state of the invocation besides its logs: the
\* event is recorded, and the end of the runtime ends the delay.
RecordsEvent(p, q, e) ==
  /\ q.inv.captured = p.inv.captured
  /\ q.inv.req = p.inv.req
  /\ q.inv.data = IF e.kind \in {"Function", "EpsagonTrace", "Other"} THEN p.inv.data
                  ELSE {d \in p.inv.data : d.kind # e.kind} \cup {e}
  /\ LogMode = "Structured" =>
       /\ q.inv.delaying_logs = (p.inv.delaying_logs /\ e.kind # "PlatformRuntimeDone")
       /\ e.kind = "PlatformReport" => q.inv.logs = <<>>

\* The platform log, the count and the record change no more of the invocation than its data.
LEMMA PlatformEventRecorded ==
  ASSUME NEW p \in ProcessingType, NEW e \in Event, NEW modes
  PROVE  /\ Record(p, e).inv = RecordData(p.inv, e)
         /\ Record(CountInMetrics(p, e, modes), e).inv = RecordData(p.inv, e)
         /\ Record(EmitPlatformLog(p, e), e).inv = RecordData(p.inv, e)
         /\ Record(CountInMetrics(EmitPlatformLog(p, e), e, modes), e).inv = RecordData(p.inv, e)
<1>1. ASSUME NEW a \in ProcessingType PROVE Record(a, e).inv = RecordData(a.inv, e)
  BY DEF Record, ProcessingType
<1>2. ASSUME NEW a \in ProcessingType PROVE CountInMetrics(a, e, modes).inv = a.inv
  BY DEF CountInMetrics, ProcessingType
<1> DEFINE a == EmitPlatformLog(p, e)
           b == CountInMetrics(a, e, modes)
           c == CountInMetrics(p, e, modes)
<1>3. a \in ProcessingType /\ a.inv = p.inv
  BY EmitPlatformLogType
<1>4. c \in ProcessingType /\ c.inv = p.inv
  BY <1>2, CountInMetricsType
<1> HIDE DEF a, c
<1>5. b \in ProcessingType /\ b.inv = a.inv
  BY <1>2, <1>3, CountInMetricsType
<1> HIDE DEF b
<1> QED
  BY <1>1, <1>3, <1>4, <1>5 DEF a, b, c

\* process_telemetry records what it processes.
LEMMA TelemetryRecorded ==
  ASSUME NEW p \in ProcessingType, NEW e \in Event
  PROVE  RecordsEvent(p, ProcessTelemetry(p, e), e)
<1>1. e.kind \in EventKinds /\ p.inv \in InvocationProcessingState
  BY ProcessingFields DEF Event
<1>2. ASSUME NEW inv \in InvocationProcessingState
      PROVE  /\ RecordData(inv, e).delaying_logs = inv.delaying_logs
             /\ RecordData(inv, e).captured = inv.captured
             /\ RecordData(inv, e).req = inv.req
             /\ RecordData(inv, e).logs = inv.logs
             /\ RecordData(inv, e).data = {d \in inv.data : d.kind # e.kind} \cup {e}
  BY DEF RecordData, InvocationProcessingState
<1>3. CASE e.kind \in {"Function", "EpsagonTrace"}
  <2>1. ProcessTelemetry(p, e) = OnFunctionLog(p, e)
    BY <1>3 DEF ProcessTelemetry
  <2> DEFINE log == MakeLog(p.inv, e)
  <2>2. <<log>> \in Seq(LogRecord)
    BY <1>1, MakeLogType
  <2>3. EmitLogs(p, <<log>>).inv = p.inv
    BY <2>2, EmitLogsType
  <2>4. [p EXCEPT !.inv.logs = Append(@, e)].inv = [p.inv EXCEPT !.logs = Append(@, e)]
    BY DEF ProcessingType
  <2>5. [p EXCEPT !.out.epsagonTraces = Append(@, e.id)].inv = p.inv
    BY DEF ProcessingType
  <2>6. \/ OnFunctionLog(p, e).inv = p.inv
        \/ OnFunctionLog(p, e).inv = [p.inv EXCEPT !.logs = Append(@, e)]
    BY <2>3, <2>4, <2>5 DEF OnFunctionLog
  <2> QED
    BY <1>1, <1>3, <2>1, <2>6 DEF RecordsEvent, InvocationProcessingState
<1>4. CASE e.kind \in {"PlatformInitStart", "PlatformInitRuntimeDone", "PlatformInitReport",
                       "PlatformStart"}
  <2>1. ProcessTelemetry(p, e).inv = RecordData(p.inv, e)
    BY <1>4, PlatformEventRecorded DEF ProcessTelemetry, OnInitReport, OnStart
  <2>2. p.inv.delaying_logs \in BOOLEAN
    BY <1>1, InvocationFields
  <2> QED
    BY <1>1, <1>2, <1>4, <2>1, <2>2 DEF RecordsEvent
<1>5. CASE e.kind = "PlatformRuntimeDone"
  <2> DEFINE released == IF LogMode = "Structured" /\ p.inv.delaying_logs
                         THEN ReleaseDelayedLogs(p) ELSE p
             q == Record(CountInMetrics(EmitPlatformLog(released, e), e, {"PlatformV2"}), e)
             out == IF TracingMode = "OtelInstrumentation"
                    THEN AddFunctionSpans(q.out, TriggerAndInvocationSpans(q.inv)) ELSE q.out
             r == [q EXCEPT !.out = [out EXCEPT !.spans = @ \o SpansAfterInvocation(q.inv)]]
  <2>1. ProcessTelemetry(p, e) = IF ShouldProduceSpans(q.inv) /\ TracingMode # "Disabled" THEN r ELSE q
    BY <1>5 DEF ProcessTelemetry, OnRuntimeDone
  <2>2. /\ released \in ProcessingType
        /\ LogMode = "Structured" => released.inv.delaying_logs = FALSE
        /\ released.inv.captured = p.inv.captured /\ released.inv.data = p.inv.data
        /\ released.inv.req = p.inv.req
    BY <1>1, InvocationFields, FlowsRelease, ReleaseDelayedLogsType DEF InvocationProcessingState
  <2> HIDE DEF released
  <2>3. q.inv = RecordData(released.inv, e)
    BY <2>2, PlatformEventRecorded
  <2>4. q \in ProcessingType
    BY <2>2, EmitPlatformLogType, CountInMetricsType, RecordType
  <2> HIDE DEF q, out
  <2>5. r.inv = q.inv
    BY <2>4 DEF ProcessingType
  <2>6. released.inv \in InvocationProcessingState
    BY <2>2, ProcessingFields
  <2>7. /\ LogMode = "Structured" => ProcessTelemetry(p, e).inv.delaying_logs = FALSE
        /\ ProcessTelemetry(p, e).inv.captured = p.inv.captured
        /\ ProcessTelemetry(p, e).inv.req = p.inv.req
        /\ ProcessTelemetry(p, e).inv.data = {d \in p.inv.data : d.kind # e.kind} \cup {e}
    BY <1>2, <2>1, <2>2, <2>3, <2>5, <2>6
  <2> QED
    BY <1>5, <2>7 DEF RecordsEvent
<1>6. CASE e.kind = "PlatformReport"
  <2> DEFINE flushed == IF LogMode = "Structured" THEN EmitHeldLogs(p) ELSE p
             q == Record(CountInMetrics(EmitPlatformLog(flushed, e), e,
                                        {"PlatformReport", "PlatformV2"}), e)
             r == [q EXCEPT !.out.spans = @ \o SpansAfterReport(q.inv)]
  <2>1. ProcessTelemetry(p, e) = IF ShouldProduceSpans(q.inv) /\ TracingMode = "TelemetryApi" THEN r ELSE q
    BY <1>6 DEF ProcessTelemetry, OnReport
  <2>2. /\ flushed.inv = IF LogMode = "Structured" THEN [p.inv EXCEPT !.logs = <<>>] ELSE p.inv
        /\ flushed \in ProcessingType
    BY FlowsEmitHeld, EmitHeldLogsType
  <2> HIDE DEF flushed
  <2>3. q.inv = RecordData(flushed.inv, e)
    BY <2>2, PlatformEventRecorded
  <2>4. q \in ProcessingType
    BY <2>2, EmitPlatformLogType, CountInMetricsType, RecordType
  <2> HIDE DEF q
  <2>5. r.inv = q.inv
    BY <2>4 DEF ProcessingType
  <2>6. /\ flushed.inv \in InvocationProcessingState
        /\ LogMode = "Structured" => flushed.inv.logs = <<>>
        /\ flushed.inv.delaying_logs = p.inv.delaying_logs /\ flushed.inv.req = p.inv.req
        /\ flushed.inv.captured = p.inv.captured /\ flushed.inv.data = p.inv.data
        /\ p.inv.delaying_logs \in BOOLEAN
    BY <1>1, <2>2, ProcessingFields, InvocationFields DEF InvocationProcessingState
  <2>7. /\ ProcessTelemetry(p, e).inv.delaying_logs = p.inv.delaying_logs
        /\ ProcessTelemetry(p, e).inv.captured = p.inv.captured
        /\ ProcessTelemetry(p, e).inv.req = p.inv.req
        /\ ProcessTelemetry(p, e).inv.data = {d \in p.inv.data : d.kind # e.kind} \cup {e}
        /\ LogMode = "Structured" => ProcessTelemetry(p, e).inv.logs = <<>>
    BY <1>2, <2>1, <2>3, <2>5, <2>6
  <2> QED
    BY <1>6, <2>6, <2>7 DEF RecordsEvent
<1>7. CASE e.kind = "Other"
  BY <1>1, <1>7, InvocationFields DEF ProcessTelemetry, RecordsEvent
<1> QED
  BY <1>1, <1>3, <1>4, <1>5, <1>6, <1>7 DEF EventKinds

\* A report has been seen exactly when one was processed.
LEMMA ReportRecorded ==
  ASSUME NEW p, NEW q, NEW e, RecordsEvent(p, q, e)
  PROVE  Has(q.inv, "PlatformReport") <=>
           Has(p.inv, "PlatformReport") \/ e.kind = "PlatformReport"
  BY DEF RecordsEvent, Has

\* process_function_spans: spans may release the held logs, and change none of the rest.
LEMMA FlowsFunctionSpans ==
  ASSUME NEW p \in ProcessingType, NEW spans \in Seq(Span), HoldsOnlyDelayed(p.inv)
  PROVE  LET q == ProcessFunctionSpans(p, spans)
         IN  /\ Flows(p, q, <<>>)
             /\ q.inv.data = p.inv.data
             /\ q.inv.delaying_logs => p.inv.delaying_logs
             /\ p.inv.logs = <<>> => q.inv.logs = <<>>
<1> DEFINE inv == [p.inv EXCEPT !.captured = @ \cup NewlyCaptured(@, spans)]
           out == IF ShouldProduceSpans(inv) /\ TracingMode = "OtelInstrumentation"
                  THEN AddFunctionSpans(p.out, PassedOn(p.inv.captured, spans)) ELSE p.out
           a == [p EXCEPT !.inv = inv, !.out = out]
<1>1. p.inv \in InvocationProcessingState /\ p.out \in OutputBuffers
  BY ProcessingFields
<1>2. /\ inv \in InvocationProcessingState
      /\ inv.logs = p.inv.logs /\ inv.delaying_logs = p.inv.delaying_logs
      /\ inv.req = p.inv.req /\ inv.data = p.inv.data
  <2> DEFINE captured == p.inv.captured \cup NewlyCaptured(p.inv.captured, spans)
  <2>1. captured \in SUBSET Span /\ IsFiniteSet(captured)
    BY <1>1, CapturedType, InvocationFields, FS_Union
  <2>2. inv = [p.inv EXCEPT !.captured = captured]
    OBVIOUS
  <2> HIDE DEF captured, inv
  <2> QED
    BY <1>1, <2>1, <2>2 DEF InvocationProcessingState
<1>3. out \in OutputBuffers /\ out.logs = p.out.logs
  <2> DEFINE passed == PassedOn(p.inv.captured, spans)
  <2>1. AddFunctionSpans(p.out, passed) \in OutputBuffers
    BY <1>1, CapturedType, AddFunctionSpansType
  <2>2. AddFunctionSpans(p.out, passed).logs = p.out.logs
    BY <1>1 DEF AddFunctionSpans, OutputBuffers
  <2> QED
    BY <1>1, <2>1, <2>2
<1>4. ProcessFunctionSpans(p, spans) =
        IF LogMode = "Structured" /\ inv.delaying_logs /\ HasCaptured(inv, "CxEarlyInvocation")
        THEN ReleaseDelayedLogs(a) ELSE a
  BY DEF ProcessFunctionSpans
<1> HIDE DEF inv, out
<1>5. a \in ProcessingType /\ a.inv = inv /\ a.out = out
  BY <1>2, <1>3 DEF ProcessingType
<1> HIDE DEF a
<1>6. Flows(p, a, <<>>)
  BY <1>2, <1>3, <1>5, FlowsNothing
<1> DEFINE b == ReleaseDelayedLogs(a)
<1>7. /\ Flows(a, b, <<>>)
      /\ b.inv.logs = <<>> /\ b.inv.delaying_logs = FALSE /\ b.inv.data = inv.data
  BY <1>2, <1>5, FlowsRelease DEF InvocationProcessingState
<1> HIDE DEF b
<1>8. <<>> \in Seq(Nat)
  OBVIOUS
<1>9. Flows(p, b, <<>>)
  BY <1>6, <1>7, <1>8, FlowsOnNothing
<1> QED
  BY <1>2, <1>4, <1>5, <1>6, <1>7, <1>9 DEF b

\* process_telemetry_in_degraded_mode: the log, if it is one, becomes a record at once.
LEMMA DegradedFlows ==
  ASSUME NEW out \in OutputBuffers, NEW initDone, NEW e \in Event, LogMode = "Structured"
  PROVE  LET q == ProcessDegraded(out, initDone, e)
         IN  /\ DegradedLogs(e) \in Seq(LogRecord)
             /\ q.logs = out.logs \o DegradedLogs(e)
             /\ FunctionLogIds(DegradedLogs(e)) = FunctionLogIds(<<e>>)
<1> DEFINE log == DegradedLog(e)
<1>1. e \in LogItem /\ <<>> \in Seq(LogRecord)
  BY DEF LogItem
<1>2. log \in LogRecord /\ log.id = e.id /\ (IsFunctionLog(log) <=> IsFunctionLog(e))
  BY DEF DegradedLog, Event, LogRecord, SpanRefs, IsFunctionLog
<1>3. ProcessDegraded(out, initDone, e).logs = out.logs \o DegradedLogs(e)
  BY DEF ProcessDegraded, OutputBuffers
<1>4. /\ DegradedLogs(e) = <<log>> \/ DegradedLogs(e) = <<>>
      /\ IsFunctionLog(e) => DegradedLogs(e) = <<log>>
  BY DEF DegradedLogs, IsFunctionLog
<1> HIDE DEF log
<1>5. log \in LogItem /\ <<log>> \in Seq(LogRecord)
  BY <1>2 DEF LogItem
<1>6. FunctionLogIds(<<log>>) = FunctionLogIds(<<e>>)
  BY <1>1, <1>2, <1>5, LogIdsOne
<1>7. ~IsFunctionLog(e) => FunctionLogIds(<<e>>) = <<>>
  BY <1>1, LogIdsOne
<1> QED
  BY <1>1, <1>3, <1>4, <1>5, <1>6, <1>7, LogIdsEmpty

-----------------------------------------------------------------------------
(* The log records that processing makes, one by one.                      *)

Emits(p, q, logs) ==
  /\ logs \in Seq(LogRecord) /\ q \in ProcessingType
  /\ q.out.logs = p.out.logs \o logs

\* Most operators make no log.
LEMMA EmitsNothing ==
  ASSUME NEW p \in ProcessingType, NEW q \in ProcessingType, q.out.logs = p.out.logs
  PROVE  Emits(p, q, <<>>)
<1>1. p.out.logs \in Seq(LogRecord) /\ <<>> \in Seq(LogRecord)
  BY DEF ProcessingType, OutputBuffers
<1> QED
  BY <1>1, ConcatEmptySeq DEF Emits

\* One operator after the other.
LEMMA EmitsOn ==
  ASSUME NEW p \in ProcessingType, NEW q, NEW r, NEW a, NEW b, Emits(p, q, a), Emits(q, r, b)
  PROVE  Emits(p, r, a \o b)
<1> DEFINE o == p.out.logs
<1>1. o \in Seq(LogRecord) /\ a \in Seq(LogRecord) /\ b \in Seq(LogRecord)
  BY DEF Emits, ProcessingType, OutputBuffers
<1>2. r.out.logs = (o \o a) \o b /\ r \in ProcessingType
  BY DEF Emits
<1> HIDE DEF o
<1>3. (o \o a) \o b = o \o (a \o b) /\ a \o b \in Seq(LogRecord)
  BY ONLY <1>1, ConcatAssociative, ConcatProperties
<1> QED
  BY <1>2, <1>3 DEF Emits, o

\* What comes before or after nothing.
LEMMA NoRecords ==
  ASSUME NEW a \in Seq(LogRecord)
  PROVE  a \o <<>> = a /\ <<>> \o a = a /\ <<>> \in Seq(LogRecord)
  BY ConcatEmptySeq

\* The records made of the logs that are held.
HeldRecords(inv) == [i \in 1..Len(inv.logs) |-> MakeLog(inv, inv.logs[i])]

\* A log does not depend on the logs that are held, or on whether they are delayed.
LEMMA SameMaker ==
  ASSUME NEW a, NEW b, b.req = a.req, b.data = a.data, b.captured = a.captured
  PROVE  /\ \A e : MakeLog(b, e) = MakeLog(a, e)
         /\ StartLogs(b) = StartLogs(a)
<1>1. CurrentSpan(b) = CurrentSpan(a)
  BY DEF CurrentSpan, Has, HasCaptured
<1>2. \A e : MakeLog(b, e) = MakeLog(a, e)
  BY <1>1 DEF MakeLog
<1> QED
  BY <1>2 DEF StartLogs, Has

\* take() of the held logs.
LEMMA HeldEmitted ==
  ASSUME NEW p \in ProcessingType
  PROVE  /\ Emits(p, EmitHeldLogs(p), HeldRecords(p.inv))
         /\ EmitHeldLogs(p).metrics = p.metrics
         /\ EmitHeldLogs(p).inv = [p.inv EXCEPT !.logs = <<>>]
<1> DEFINE logs == HeldRecords(p.inv)
           q == EmitHeldLogs(p)
<1>1. p.inv \in InvocationProcessingState /\ p.inv.logs \in Seq(Event)
  BY ProcessingFields, InvocationFields
<1>2. logs \in Seq(LogRecord)
  <2>1. \A i \in 1..Len(p.inv.logs) : MakeLog(p.inv, p.inv.logs[i]) \in LogRecord
    BY <1>1, MakeLogType
  <2> QED
    BY <1>1, <2>1 DEF HeldRecords
<1>3. q = [EmitLogs(p, logs) EXCEPT !.inv.logs = <<>>]
  BY DEF EmitHeldLogs, HeldRecords
<1> HIDE DEF logs
<1>4. EmitLogs(p, logs) \in ProcessingType /\ EmitLogs(p, logs).inv = p.inv
  BY <1>2, EmitLogsType
<1>5. EmitLogs(p, logs).out.logs = p.out.logs \o logs /\ EmitLogs(p, logs).metrics = p.metrics
  BY DEF EmitLogs, ProcessingType, OutputBuffers
<1>6. q \in ProcessingType
  BY EmitHeldLogsType
<1> HIDE DEF q
<1>7. q.out = EmitLogs(p, logs).out /\ q.metrics = p.metrics
  BY <1>3, <1>4, <1>5 DEF ProcessingType
<1>8. q.inv = [p.inv EXCEPT !.logs = <<>>]
  BY FlowsEmitHeld DEF q
<1> QED
  BY <1>2, <1>5, <1>6, <1>7, <1>8 DEF Emits, q, logs

\* process_delayed_logs: the log of the start, then those that are held.
LEMMA DelayedEmitted ==
  ASSUME NEW p \in ProcessingType
  PROVE  /\ Emits(p, ReleaseDelayedLogs(p), StartLogs(p.inv) \o HeldRecords(p.inv))
         /\ ReleaseDelayedLogs(p).metrics = p.metrics
<1> DEFINE a == [p EXCEPT !.inv.delaying_logs = FALSE]
           start == StartLogs(a.inv)
           b == EmitLogs(a, start)
           c == EmitHeldLogs(b)
<1>1. /\ a \in ProcessingType /\ a.out = p.out /\ a.metrics = p.metrics
      /\ a.inv.logs = p.inv.logs /\ a.inv.req = p.inv.req /\ a.inv.data = p.inv.data
      /\ a.inv.captured = p.inv.captured
  BY DEF ProcessingType, InvocationProcessingState
<1>2. start \in Seq(LogRecord) /\ start = StartLogs(p.inv)
  BY <1>1, ProcessingFields, StartLogsAreNotFunctionLogs, SameMaker
<1>3. b \in ProcessingType /\ b.inv = a.inv
  BY <1>1, <1>2, EmitLogsType
<1>4. b.out.logs = p.out.logs \o start /\ b.metrics = p.metrics
  BY <1>1 DEF EmitLogs, ProcessingType, OutputBuffers
<1>5. ReleaseDelayedLogs(p) = c
  BY DEF ReleaseDelayedLogs
<1>6. HeldRecords(a.inv) = HeldRecords(p.inv)
  <2> DEFINE inv2 == a.inv
             inv1 == p.inv
  <2>1. inv2.logs = inv1.logs /\ inv2.req = inv1.req /\ inv2.data = inv1.data
        /\ inv2.captured = inv1.captured
    BY <1>1
  <2> HIDE DEF inv1, inv2, a
  <2>2. \A e : MakeLog(inv2, e) = MakeLog(inv1, e)
    BY <2>1, SameMaker
  <2>3. HeldRecords(inv2) = HeldRecords(inv1)
    BY <2>1, <2>2 DEF HeldRecords
  <2> QED
    BY <2>3 DEF inv1, inv2
<1> HIDE DEF a, start, b
<1>7. Emits(p, b, start)
  BY <1>2, <1>3, <1>4 DEF Emits
<1>8. Emits(b, c, HeldRecords(p.inv)) /\ c.metrics = p.metrics
  BY <1>3, <1>4, <1>6, HeldEmitted
<1> HIDE DEF c
<1> QED
  BY <1>2, <1>5, <1>7, <1>8, EmitsOn

\* A platform log is made if the configuration asks for it.
OwnLog(inv, e) == IF PlatformLogEnabled(e.kind) THEN <<MakeLog(inv, e)>> ELSE <<>>

\* A log made of one event.
LEMMA OneRecord ==
  ASSUME NEW p \in ProcessingType, NEW e \in Event
  PROVE  /\ <<MakeLog(p.inv, e)>> \in Seq(LogRecord)
         /\ Emits(p, EmitLogs(p, <<MakeLog(p.inv, e)>>), <<MakeLog(p.inv, e)>>)
         /\ EmitLogs(p, <<MakeLog(p.inv, e)>>).inv = p.inv
         /\ EmitLogs(p, <<MakeLog(p.inv, e)>>).metrics = p.metrics
<1> DEFINE log == MakeLog(p.inv, e)
<1>1. log \in LogRecord
  BY MakeLogType, ProcessingFields
<1> HIDE DEF log
<1>2. <<log>> \in Seq(LogRecord)
  BY <1>1
<1>3. EmitLogs(p, <<log>>).out.logs = p.out.logs \o <<log>> /\ EmitLogs(p, <<log>>).metrics = p.metrics
  BY DEF EmitLogs, ProcessingType, OutputBuffers
<1> QED
  BY <1>2, <1>3, EmitLogsType DEF Emits, log

\* make_platform_*_log makes at most one.
LEMMA PlatformLogEmitted ==
  ASSUME NEW p \in ProcessingType, NEW e \in Event
  PROVE  /\ Emits(p, EmitPlatformLog(p, e), OwnLog(p.inv, e))
         /\ EmitPlatformLog(p, e).inv = p.inv
         /\ EmitPlatformLog(p, e).metrics = p.metrics
<1>1. Emits(p, p, <<>>)
  BY EmitsNothing
<1> QED
  BY <1>1, OneRecord DEF EmitPlatformLog, OwnLog

\* What is kept of a platform event.
LEMMA DataRecorded ==
  ASSUME NEW inv \in InvocationProcessingState, NEW e \in Event
  PROVE  LET r == RecordData(inv, e)
         IN  /\ r.req = inv.req /\ r.captured = inv.captured
             /\ r.logs = inv.logs /\ r.delaying_logs = inv.delaying_logs
             /\ r.data = {d \in inv.data : d.kind # e.kind} \cup {e}
  BY DEF RecordData, InvocationProcessingState

\* The part that the arms for platform events share.
LEMMA EventRecorded ==
  ASSUME NEW p \in ProcessingType, NEW e \in Event, NEW modes
  PROVE  LET q == Record(CountInMetrics(EmitPlatformLog(p, e), e, modes), e)
         IN  /\ Emits(p, q, OwnLog(p.inv, e))
             /\ q.inv = RecordData(p.inv, e)
             /\ q.metrics = p.metrics \cup (IF PlatformMetricsMode \in modes THEN {e.id} ELSE {})
<1> DEFINE a == EmitPlatformLog(p, e)
           b == CountInMetrics(a, e, modes)
           q == Record(b, e)
<1>1. /\ Emits(p, a, OwnLog(p.inv, e)) /\ a.inv = p.inv /\ a.metrics = p.metrics
      /\ a \in ProcessingType
  BY PlatformLogEmitted DEF Emits
<1> HIDE DEF a
<1>2. /\ b \in ProcessingType /\ b.inv = a.inv /\ b.out = a.out
      /\ b.metrics = a.metrics \cup (IF PlatformMetricsMode \in modes THEN {e.id} ELSE {})
  BY <1>1, CountInMetricsType DEF CountInMetrics, ProcessingType
<1> HIDE DEF b
<1>3. /\ q \in ProcessingType /\ q.inv = RecordData(b.inv, e) /\ q.out = b.out
      /\ q.metrics = b.metrics
  BY <1>2, RecordType DEF Record, ProcessingType
<1> HIDE DEF q
<1> QED
  BY <1>1, <1>2, <1>3 DEF Emits, a, b, q

\* What process_telemetry does with the logs: the arms that let go of those that are held,
\* the one that holds them, and those that make a log of the event itself.
Releases(p, e) ==
  LogMode = "Structured" /\ p.inv.delaying_logs /\ e.kind = "PlatformRuntimeDone"
LetsGo(p, e) ==
  \/ Releases(p, e)
  \/ LogMode = "Structured" /\ e.kind = "PlatformReport"
SetsAside(p, e) == LogMode = "Structured" /\ p.inv.delaying_logs /\ e.kind = "Function"
MakesOwn(p, e) ==
  \/ LogMode = "Structured" /\ ~p.inv.delaying_logs /\ e.kind = "Function"
  \/ PlatformLogEnabled(e.kind) /\ (e.kind = "PlatformStart" => ~p.inv.delaying_logs)

StartPart(p, e) == IF Releases(p, e) THEN StartLogs(p.inv) ELSE <<>>
HeldPart(p, e) == IF LetsGo(p, e) THEN HeldRecords(p.inv) ELSE <<>>
OwnPart(p, e) == IF MakesOwn(p, e) THEN <<MakeLog(p.inv, e)>> ELSE <<>>

\* The events that the platform metrics count.
Counted(e) ==
  \/ /\ PlatformMetricsMode = "PlatformV2"
     /\ e.kind \in {"PlatformInitReport", "PlatformRuntimeDone", "PlatformReport"}
  \/ PlatformMetricsMode = "PlatformReport" /\ e.kind = "PlatformReport"

Ignored == {"Function", "EpsagonTrace", "Other"}

\* q is what is left of p when e was processed.
Processes(p, q, e) ==
  /\ Emits(p, q, StartPart(p, e) \o (HeldPart(p, e) \o OwnPart(p, e)))
  /\ q.inv.req = p.inv.req /\ q.inv.captured = p.inv.captured
  /\ q.inv.delaying_logs = (p.inv.delaying_logs /\ ~Releases(p, e))
  /\ q.inv.logs = IF LetsGo(p, e) THEN <<>>
                  ELSE IF SetsAside(p, e) THEN Append(p.inv.logs, e) ELSE p.inv.logs
  /\ q.inv.data = IF e.kind \in Ignored THEN p.inv.data
                  ELSE {d \in p.inv.data : d.kind # e.kind} \cup {e}
  /\ q.metrics = p.metrics \cup (IF Counted(e) THEN {e.id} ELSE {})

\* The arm for function logs.
LEMMA FunctionLogProcessed ==
  ASSUME NEW p \in ProcessingType, NEW e \in Event, e.kind \in {"Function", "EpsagonTrace"}
  PROVE  Processes(p, OnFunctionLog(p, e), e)
<1> DEFINE q == OnFunctionLog(p, e)
<1>1. /\ ~Releases(p, e) /\ ~LetsGo(p, e) /\ ~Counted(e) /\ e.kind \in Ignored
      /\ ~PlatformLogEnabled(e.kind) /\ q \in ProcessingType
  BY ProcessorAssumption, OnFunctionLogType
  DEF Releases, LetsGo, Counted, Ignored, PlatformLogEnabled
<1>2. OwnPart(p, e) \in Seq(LogRecord)
  BY OneRecord, EmptySeq DEF OwnPart
<1>3. StartPart(p, e) \o (HeldPart(p, e) \o OwnPart(p, e)) = OwnPart(p, e)
  BY <1>1, <1>2, NoRecords DEF StartPart, HeldPart
<1>4. p.inv.logs \in Seq(Event) /\ p.inv \in InvocationProcessingState
  BY ProcessingFields, InvocationFields
<1>5. CASE SetsAside(p, e)
  <2> DEFINE held == Append(p.inv.logs, e)
  <2>1. q = [p EXCEPT !.inv.logs = held] /\ OwnPart(p, e) = <<>>
    BY <1>1, <1>5 DEF OnFunctionLog, SetsAside, OwnPart, MakesOwn
  <2> HIDE DEF held, q
  <2>2. q.out = p.out /\ q.metrics = p.metrics /\ q.inv = [p.inv EXCEPT !.logs = held]
    BY <2>1 DEF ProcessingType
  <2>3. Emits(p, q, <<>>)
    BY <1>1, <2>2, EmitsNothing DEF q
  <2>4. /\ q.inv.req = p.inv.req /\ q.inv.captured = p.inv.captured /\ q.inv.data = p.inv.data
        /\ q.inv.delaying_logs = p.inv.delaying_logs /\ q.inv.logs = held
    BY <1>4, <2>2 DEF InvocationProcessingState
  <2>5. q.inv.delaying_logs = (p.inv.delaying_logs /\ ~Releases(p, e))
    BY <1>1, <1>4, <2>4, InvocationFields
  <2> QED
    BY <1>1, <1>3, <1>5, <2>1, <2>2, <2>3, <2>4, <2>5 DEF Processes, q, held
<1>6. CASE ~SetsAside(p, e)
  <2>1. Emits(p, q, OwnPart(p, e)) /\ q.inv = p.inv /\ q.metrics = p.metrics
    <3>1. CASE MakesOwn(p, e)
      <4>1. q = EmitLogs(p, <<MakeLog(p.inv, e)>>)
        BY <1>1, <3>1 DEF OnFunctionLog, MakesOwn
      <4> QED
        BY <3>1, <4>1, OneRecord DEF OwnPart
    <3>2. CASE ~MakesOwn(p, e) /\ e.kind = "EpsagonTrace" /\ LogMode = "Structured"
      <4> DEFINE traces == Append(p.out.epsagonTraces, e.id)
      <4>1. q = [p EXCEPT !.out.epsagonTraces = traces]
        BY <3>2 DEF OnFunctionLog
      <4> HIDE DEF traces, q
      <4>2. q.inv = p.inv /\ q.metrics = p.metrics /\ q.out.logs = p.out.logs
        BY <4>1 DEF ProcessingType, OutputBuffers
      <4> QED
        BY <1>1, <3>2, <4>2, EmitsNothing DEF OwnPart, q
    <3>3. CASE ~MakesOwn(p, e) /\ ~(e.kind = "EpsagonTrace" /\ LogMode = "Structured")
      <4>1. q = p
        BY <1>6, <3>3 DEF OnFunctionLog, MakesOwn, SetsAside
      <4> QED
        BY <3>3, <4>1, EmitsNothing DEF OwnPart
    <3> QED
      BY <3>1, <3>2, <3>3
  <2> HIDE DEF q
  <2>2. q.inv.delaying_logs = (p.inv.delaying_logs /\ ~Releases(p, e))
    BY <1>1, <1>4, <2>1, InvocationFields
  <2> QED
    BY <1>1, <1>3, <1>6, <2>1, <2>2 DEF Processes, q
<1> QED
  BY <1>5, <1>6

\* The arms that only record the event, and the one that ignores it.
LEMMA EventKept ==
  ASSUME NEW p \in ProcessingType, NEW e \in Event
  PROVE  /\ e.kind \in {"PlatformInitStart", "PlatformInitRuntimeDone"} => Processes(p, Record(p, e), e)
         /\ e.kind = "Other" => Processes(p, p, e)
<1> SUFFICES ASSUME e.kind \in {"PlatformInitStart", "PlatformInitRuntimeDone", "Other"}
             PROVE  /\ e.kind # "Other" => Processes(p, Record(p, e), e)
                    /\ e.kind = "Other" => Processes(p, p, e)
  OBVIOUS
<1>1. /\ ~Releases(p, e) /\ ~LetsGo(p, e) /\ ~SetsAside(p, e) /\ ~MakesOwn(p, e) /\ ~Counted(e)
      /\ e.kind \in Ignored <=> e.kind = "Other"
  BY ProcessorAssumption
  DEF Releases, LetsGo, SetsAside, MakesOwn, Counted, Ignored, PlatformLogEnabled
<1>2. StartPart(p, e) \o (HeldPart(p, e) \o OwnPart(p, e)) = <<>>
  BY <1>1, NoRecords, EmptySeq DEF StartPart, HeldPart, OwnPart
<1>3. p.inv \in InvocationProcessingState /\ p.inv.delaying_logs \in BOOLEAN
  BY ProcessingFields, InvocationFields
<1>4. e.kind = "Other" => Processes(p, p, e)
  BY <1>1, <1>2, <1>3, EmitsNothing DEF Processes
<1>5. e.kind # "Other" => Processes(p, Record(p, e), e)
  <2> DEFINE q == Record(p, e)
  <2>1. q.inv = RecordData(p.inv, e) /\ q.out = p.out /\ q.metrics = p.metrics /\ q \in ProcessingType
    BY RecordType DEF Record, ProcessingType
  <2> HIDE DEF q
  <2>2. /\ q.inv.req = p.inv.req /\ q.inv.captured = p.inv.captured
        /\ q.inv.logs = p.inv.logs /\ q.inv.delaying_logs = p.inv.delaying_logs
        /\ q.inv.data = {d \in p.inv.data : d.kind # e.kind} \cup {e}
    BY <1>3, <2>1, DataRecorded
  <2>3. Emits(p, q, <<>>)
    BY <2>1, EmitsNothing
  <2> QED
    BY <1>1, <1>2, <1>3, <2>1, <2>2, <2>3 DEF Processes, q
<1> QED
  BY <1>4, <1>5

\* The arms for PlatformStart and PlatformInitReport.
LEMMA StartProcessed ==
  ASSUME NEW p \in ProcessingType, NEW e \in Event
  PROVE  /\ e.kind = "PlatformStart" => Processes(p, OnStart(p, e), e)
         /\ e.kind = "PlatformInitReport" => Processes(p, OnInitReport(p, e), e)
<1> SUFFICES ASSUME e.kind \in {"PlatformStart", "PlatformInitReport"}
             PROVE  /\ e.kind = "PlatformStart" => Processes(p, OnStart(p, e), e)
                    /\ e.kind = "PlatformInitReport" => Processes(p, OnInitReport(p, e), e)
  OBVIOUS
<1> DEFINE a == IF e.kind = "PlatformInitReport" THEN CountInMetrics(p, e, {"PlatformV2"})
                ELSE IF p.inv.delaying_logs THEN p ELSE EmitPlatformLog(p, e)
           q == Record(a, e)
<1>1. /\ ~Releases(p, e) /\ ~LetsGo(p, e) /\ ~SetsAside(p, e) /\ e.kind \notin Ignored
      /\ Counted(e) <=> PlatformMetricsMode = "PlatformV2" /\ e.kind = "PlatformInitReport"
  BY DEF Releases, LetsGo, SetsAside, Counted, Ignored
<1>2. OwnPart(p, e) \in Seq(LogRecord)
  BY OneRecord, EmptySeq DEF OwnPart
<1>3. StartPart(p, e) \o (HeldPart(p, e) \o OwnPart(p, e)) = OwnPart(p, e)
  BY <1>1, <1>2, NoRecords DEF StartPart, HeldPart
<1>4. p.inv \in InvocationProcessingState /\ p.inv.delaying_logs \in BOOLEAN
  BY ProcessingFields, InvocationFields
<1>5. /\ Emits(p, a, OwnPart(p, e)) /\ a.inv = p.inv
      /\ a.metrics = p.metrics \cup (IF Counted(e) THEN {e.id} ELSE {})
  <2>1. CASE e.kind = "PlatformInitReport"
    <3>1. a.inv = p.inv /\ a.out = p.out /\ a \in ProcessingType
      BY <2>1, CountInMetricsType DEF CountInMetrics, ProcessingType
    <3>2. a.metrics = p.metrics \cup (IF Counted(e) THEN {e.id} ELSE {})
      BY <1>1, <2>1 DEF CountInMetrics, ProcessingType
    <3>3. OwnPart(p, e) = <<>>
      BY <2>1, ProcessorAssumption DEF OwnPart, MakesOwn, PlatformLogEnabled
    <3> HIDE DEF a
    <3> QED
      BY <3>1, <3>2, <3>3, EmitsNothing
  <2>2. CASE e.kind = "PlatformStart" /\ p.inv.delaying_logs
    BY <1>1, <2>2, EmitsNothing DEF OwnPart, MakesOwn
  <2>3. CASE e.kind = "PlatformStart" /\ ~p.inv.delaying_logs
    <3>1. OwnPart(p, e) = OwnLog(p.inv, e)
      BY <2>3 DEF OwnPart, MakesOwn, OwnLog
    <3> QED
      BY <1>1, <2>3, <3>1, PlatformLogEmitted
  <2> QED
    BY <2>1, <2>2, <2>3
<1>6. /\ e.kind = "PlatformStart" => q = OnStart(p, e)
      /\ e.kind = "PlatformInitReport" => q = OnInitReport(p, e)
  BY DEF OnStart, OnInitReport
<1> HIDE DEF a
<1>7. a \in ProcessingType
  BY <1>5 DEF Emits
<1>8. q.inv = RecordData(a.inv, e) /\ q.out = a.out /\ q.metrics = a.metrics /\ q \in ProcessingType
  BY <1>7, RecordType DEF Record, ProcessingType
<1> HIDE DEF q
<1>9. /\ q.inv.req = p.inv.req /\ q.inv.captured = p.inv.captured
      /\ q.inv.logs = p.inv.logs /\ q.inv.delaying_logs = p.inv.delaying_logs
      /\ q.inv.data = {d \in p.inv.data : d.kind # e.kind} \cup {e}
  BY <1>4, <1>5, <1>8, DataRecorded
<1>10. Emits(p, q, OwnPart(p, e))
  BY <1>5, <1>8 DEF Emits
<1>11. Processes(p, q, e)
  BY <1>1, <1>3, <1>4, <1>5, <1>8, <1>9, <1>10 DEF Processes
<1> QED
  BY <1>6, <1>11

\* The arms for PlatformRuntimeDone and PlatformReport, up to the spans they make.
LEMMA EndProcessed ==
  ASSUME NEW p \in ProcessingType, NEW e \in Event,
         e.kind \in {"PlatformRuntimeDone", "PlatformReport"},
         NEW a \in ProcessingType, Emits(p, a, StartPart(p, e) \o HeldPart(p, e)),
         a.inv.req = p.inv.req, a.inv.data = p.inv.data, a.inv.captured = p.inv.captured,
         a.inv.delaying_logs = (p.inv.delaying_logs /\ ~Releases(p, e)),
         a.inv.logs = IF LetsGo(p, e) THEN <<>> ELSE p.inv.logs,
         a.metrics = p.metrics,
         NEW modes, PlatformMetricsMode \in modes <=> Counted(e),
         NEW r \in ProcessingType
  PROVE  LET q == Record(CountInMetrics(EmitPlatformLog(a, e), e, modes), e)
         IN  r.inv = q.inv /\ r.metrics = q.metrics /\ r.out.logs = q.out.logs => Processes(p, r, e)
<1> DEFINE q == Record(CountInMetrics(EmitPlatformLog(a, e), e, modes), e)
<1>1. /\ Emits(a, q, OwnLog(a.inv, e)) /\ q.inv = RecordData(a.inv, e)
      /\ q.metrics = a.metrics \cup (IF Counted(e) THEN {e.id} ELSE {})
  BY EventRecorded
<1> HIDE DEF q
<1> SUFFICES ASSUME r.inv = q.inv, r.metrics = q.metrics, r.out.logs = q.out.logs
             PROVE  Processes(p, r, e)
  BY DEF q
<1>2. OwnLog(a.inv, e) = OwnPart(p, e)
  <2>1. MakeLog(a.inv, e) = MakeLog(p.inv, e)
    BY SameMaker
  <2> QED
    BY <2>1 DEF OwnLog, OwnPart, MakesOwn
<1>3. Emits(p, r, (StartPart(p, e) \o HeldPart(p, e)) \o OwnPart(p, e))
  <2>1. Emits(p, q, (StartPart(p, e) \o HeldPart(p, e)) \o OwnPart(p, e))
    BY <1>1, <1>2, EmitsOn
  <2> QED
    BY <2>1 DEF Emits
<1>4. /\ StartPart(p, e) \in Seq(LogRecord) /\ HeldPart(p, e) \in Seq(LogRecord)
      /\ OwnPart(p, e) \in Seq(LogRecord)
  <2>1. p.inv \in InvocationProcessingState /\ <<>> \in Seq(LogRecord)
    BY ProcessingFields, EmptySeq
  <2>2. StartLogs(p.inv) \in Seq(LogRecord) /\ HeldRecords(p.inv) \in Seq(LogRecord)
    BY <2>1, StartLogsAreNotFunctionLogs, HeldEmitted DEF Emits
  <2> QED
    BY <2>1, <2>2, OneRecord DEF StartPart, HeldPart, OwnPart
<1>5. (StartPart(p, e) \o HeldPart(p, e)) \o OwnPart(p, e)
        = StartPart(p, e) \o (HeldPart(p, e) \o OwnPart(p, e))
  BY ONLY <1>4, ConcatAssociative
<1>6. a.inv \in InvocationProcessingState
  BY ProcessingFields
<1>7. /\ q.inv.req = a.inv.req /\ q.inv.captured = a.inv.captured
      /\ q.inv.logs = a.inv.logs /\ q.inv.delaying_logs = a.inv.delaying_logs
      /\ q.inv.data = {d \in a.inv.data : d.kind # e.kind} \cup {e}
  BY <1>1, <1>6, DataRecorded
<1>8. ~SetsAside(p, e) /\ e.kind \notin Ignored
  BY DEF SetsAside, Ignored
<1> QED
  BY <1>1, <1>3, <1>5, <1>7, <1>8 DEF Processes

\* What is let go of before.
LEMMA LetGo ==
  ASSUME NEW p \in ProcessingType, NEW e \in Event,
         e.kind \in {"PlatformRuntimeDone", "PlatformReport"}
  PROVE  LET a == IF LetsGo(p, e)
                  THEN IF Releases(p, e) THEN ReleaseDelayedLogs(p) ELSE EmitHeldLogs(p)
                  ELSE p
         IN  /\ a \in ProcessingType /\ Emits(p, a, StartPart(p, e) \o HeldPart(p, e))
             /\ a.inv.req = p.inv.req /\ a.inv.data = p.inv.data /\ a.inv.captured = p.inv.captured
             /\ a.inv.delaying_logs = (p.inv.delaying_logs /\ ~Releases(p, e))
             /\ a.inv.logs = IF LetsGo(p, e) THEN <<>> ELSE p.inv.logs
             /\ a.metrics = p.metrics
<1> DEFINE a == IF LetsGo(p, e)
                THEN IF Releases(p, e) THEN ReleaseDelayedLogs(p) ELSE EmitHeldLogs(p)
                ELSE p
           Goal == /\ a \in ProcessingType /\ Emits(p, a, StartPart(p, e) \o HeldPart(p, e))
                   /\ a.inv.req = p.inv.req /\ a.inv.data = p.inv.data
                   /\ a.inv.captured = p.inv.captured
                   /\ a.inv.delaying_logs = (p.inv.delaying_logs /\ ~Releases(p, e))
                   /\ a.inv.logs = IF LetsGo(p, e) THEN <<>> ELSE p.inv.logs
                   /\ a.metrics = p.metrics
<1>1. /\ p.inv \in InvocationProcessingState /\ p.inv.delaying_logs \in BOOLEAN
      /\ HeldRecords(p.inv) \in Seq(LogRecord) /\ StartLogs(p.inv) \in Seq(LogRecord)
  BY ProcessingFields, InvocationFields, HeldEmitted, StartLogsAreNotFunctionLogs DEF Emits
<1>2. CASE Releases(p, e)
  <2>1. a = ReleaseDelayedLogs(p) /\ LetsGo(p, e)
    BY <1>2 DEF LetsGo
  <2> HIDE DEF a
  <2>2. a.inv = [p.inv EXCEPT !.delaying_logs = FALSE, !.logs = <<>>]
    BY <2>1, FlowsRelease
  <2>3. /\ a.inv.req = p.inv.req /\ a.inv.data = p.inv.data /\ a.inv.captured = p.inv.captured
        /\ a.inv.delaying_logs = FALSE /\ a.inv.logs = <<>>
    BY <1>1, <2>2 DEF InvocationProcessingState
  <2>4. Emits(p, a, StartPart(p, e) \o HeldPart(p, e)) /\ a.metrics = p.metrics
    BY <1>2, <2>1, DelayedEmitted DEF StartPart, HeldPart
  <2>5. Goal
    BY <1>2, <2>1, <2>3, <2>4 DEF Emits
  <2> QED
    BY <2>5 DEF a
<1>3. CASE ~Releases(p, e) /\ LetsGo(p, e)
  <2>1. a = EmitHeldLogs(p) /\ StartPart(p, e) \o HeldPart(p, e) = HeldRecords(p.inv)
    BY <1>1, <1>3, NoRecords DEF StartPart, HeldPart
  <2> HIDE DEF a
  <2>2. a.inv = [p.inv EXCEPT !.logs = <<>>]
    BY <2>1, HeldEmitted
  <2>3. /\ a.inv.req = p.inv.req /\ a.inv.data = p.inv.data /\ a.inv.captured = p.inv.captured
        /\ a.inv.delaying_logs = p.inv.delaying_logs /\ a.inv.logs = <<>>
    BY <1>1, <2>2 DEF InvocationProcessingState
  <2>4. Emits(p, a, StartPart(p, e) \o HeldPart(p, e)) /\ a.metrics = p.metrics
    BY <2>1, HeldEmitted
  <2>5. Goal
    BY <1>1, <1>3, <2>3, <2>4 DEF Emits
  <2> QED
    BY <2>5 DEF a
<1>4. CASE ~LetsGo(p, e)
  <2>1. a = p /\ ~Releases(p, e) /\ StartPart(p, e) \o HeldPart(p, e) = <<>>
    BY <1>4, NoRecords, EmptySeq DEF LetsGo, StartPart, HeldPart
  <2> QED
    BY <1>1, <1>4, <2>1, EmitsNothing
<1> QED
  BY <1>2, <1>3, <1>4 DEF LetsGo

\* The arm for PlatformRuntimeDone.
LEMMA RuntimeDoneProcessed ==
  ASSUME NEW p \in ProcessingType, NEW e \in Event, e.kind = "PlatformRuntimeDone"
  PROVE  Processes(p, OnRuntimeDone(p, e), e)
<1> DEFINE a == IF LetsGo(p, e)
                THEN IF Releases(p, e) THEN ReleaseDelayedLogs(p) ELSE EmitHeldLogs(p)
                ELSE p
           q == Record(CountInMetrics(EmitPlatformLog(a, e), e, {"PlatformV2"}), e)
           out == IF TracingMode = "OtelInstrumentation"
                  THEN AddFunctionSpans(q.out, TriggerAndInvocationSpans(q.inv)) ELSE q.out
           more == out.spans \o SpansAfterInvocation(q.inv)
           new == [out EXCEPT !.spans = more]
           r == OnRuntimeDone(p, e)
<1>1. a = IF LogMode = "Structured" /\ p.inv.delaying_logs THEN ReleaseDelayedLogs(p) ELSE p
  BY DEF LetsGo, Releases
<1>2. r = IF ShouldProduceSpans(q.inv) /\ TracingMode # "Disabled" THEN [q EXCEPT !.out = new] ELSE q
  BY <1>1 DEF OnRuntimeDone
<1>3. /\ a \in ProcessingType /\ Emits(p, a, StartPart(p, e) \o HeldPart(p, e))
      /\ a.inv.req = p.inv.req /\ a.inv.data = p.inv.data /\ a.inv.captured = p.inv.captured
      /\ a.inv.delaying_logs = (p.inv.delaying_logs /\ ~Releases(p, e))
      /\ a.inv.logs = IF LetsGo(p, e) THEN <<>> ELSE p.inv.logs
      /\ a.metrics = p.metrics
  BY LetGo
<1> HIDE DEF a
<1>4. q \in ProcessingType
  BY <1>3, EventRecorded DEF Emits
<1> HIDE DEF q
<1>5. out.logs = q.out.logs /\ new.logs = out.logs
  BY <1>4 DEF AddFunctionSpans, ProcessingType, OutputBuffers
<1> HIDE DEF new, out
<1>6. r.inv = q.inv /\ r.metrics = q.metrics /\ r.out.logs = q.out.logs
  BY <1>2, <1>4, <1>5 DEF ProcessingType
<1>7. r \in ProcessingType /\ (PlatformMetricsMode \in {"PlatformV2"} <=> Counted(e))
  BY OnRuntimeDoneType DEF Counted
<1> HIDE DEF r
<1> QED
  BY <1>3, <1>6, <1>7, EndProcessed DEF q, r

\* The arm for PlatformReport.
LEMMA ReportProcessed ==
  ASSUME NEW p \in ProcessingType, NEW e \in Event, e.kind = "PlatformReport"
  PROVE  Processes(p, OnReport(p, e), e)
<1> DEFINE a == IF LetsGo(p, e)
                THEN IF Releases(p, e) THEN ReleaseDelayedLogs(p) ELSE EmitHeldLogs(p)
                ELSE p
           modes == {"PlatformReport", "PlatformV2"}
           q == Record(CountInMetrics(EmitPlatformLog(a, e), e, modes), e)
           more == q.out.spans \o SpansAfterReport(q.inv)
           r == OnReport(p, e)
<1>1. a = IF LogMode = "Structured" THEN EmitHeldLogs(p) ELSE p
  BY DEF LetsGo, Releases
<1>2. r = IF ShouldProduceSpans(q.inv) /\ TracingMode = "TelemetryApi"
          THEN [q EXCEPT !.out.spans = more] ELSE q
  BY <1>1 DEF OnReport
<1>3. /\ a \in ProcessingType /\ Emits(p, a, StartPart(p, e) \o HeldPart(p, e))
      /\ a.inv.req = p.inv.req /\ a.inv.data = p.inv.data /\ a.inv.captured = p.inv.captured
      /\ a.inv.delaying_logs = (p.inv.delaying_logs /\ ~Releases(p, e))
      /\ a.inv.logs = IF LetsGo(p, e) THEN <<>> ELSE p.inv.logs
      /\ a.metrics = p.metrics
  BY LetGo
<1> HIDE DEF a
<1>4. q \in ProcessingType
  BY <1>3, EventRecorded DEF Emits
<1> HIDE DEF q, more
<1>6. r.inv = q.inv /\ r.metrics = q.metrics /\ r.out.logs = q.out.logs
  BY <1>2, <1>4 DEF ProcessingType, OutputBuffers
<1>7. r \in ProcessingType /\ (PlatformMetricsMode \in modes <=> Counted(e))
  BY OnReportType DEF Counted
<1> HIDE DEF r, modes
<1> QED
  BY <1>3, <1>6, <1>7, EndProcessed DEF q, r

\* process_telemetry, for every event: which logs it makes, in which order, and what it
\* leaves of the state of the invocation.
THEOREM TelemetryProcessed ==
  ASSUME NEW p \in ProcessingType, NEW e \in Event
  PROVE  Processes(p, ProcessTelemetry(p, e), e)
<1>1. e.kind \in EventKinds
  BY DEF Event
<1>2. CASE e.kind \in {"Function", "EpsagonTrace"}
  BY <1>2, FunctionLogProcessed DEF ProcessTelemetry
<1>3. CASE e.kind \in {"PlatformInitStart", "PlatformInitRuntimeDone"}
  <2>1. ProcessTelemetry(p, e) = Record(p, e)
    BY <1>3 DEF ProcessTelemetry
  <2> QED
    BY <1>3, <2>1, EventKept
<1>4. CASE e.kind = "PlatformInitReport"
  <2>1. ProcessTelemetry(p, e) = OnInitReport(p, e)
    BY <1>4 DEF ProcessTelemetry
  <2> QED
    BY <1>4, <2>1, StartProcessed
<1>5. CASE e.kind = "PlatformStart"
  <2>1. ProcessTelemetry(p, e) = OnStart(p, e)
    BY <1>5 DEF ProcessTelemetry
  <2> QED
    BY <1>5, <2>1, StartProcessed
<1>6. CASE e.kind = "PlatformRuntimeDone"
  <2>1. ProcessTelemetry(p, e) = OnRuntimeDone(p, e)
    BY <1>6 DEF ProcessTelemetry
  <2> QED
    BY <1>6, <2>1, RuntimeDoneProcessed
<1>7. CASE e.kind = "PlatformReport"
  <2>1. ProcessTelemetry(p, e) = OnReport(p, e)
    BY <1>7 DEF ProcessTelemetry
  <2> QED
    BY <1>7, <2>1, ReportProcessed
<1>8. CASE e.kind = "Other"
  <2>1. ProcessTelemetry(p, e) = p
    BY <1>8 DEF ProcessTelemetry
  <2> QED
    BY <1>8, <2>1, EventKept
<1> QED
  BY <1>1, <1>2, <1>3, <1>4, <1>5, <1>6, <1>7, <1>8 DEF EventKinds

\* Spans of the function: the logs that waited for the early invocation span are made once
\* it is there, under the state that has it.
SpansProcessed(p, q) ==
  LET inv == [p.inv EXCEPT !.captured = q.inv.captured]
      released == /\ LogMode = "Structured" /\ p.inv.delaying_logs
                  /\ HasCaptured(q.inv, "CxEarlyInvocation")
  IN  /\ Emits(p, q, IF released THEN StartLogs(inv) \o HeldRecords(inv) ELSE <<>>)
      /\ q.inv.req = p.inv.req /\ q.inv.data = p.inv.data /\ q.metrics = p.metrics
      /\ q.inv.delaying_logs = (p.inv.delaying_logs /\ ~released)
      /\ q.inv.logs = IF released THEN <<>> ELSE p.inv.logs

\* process_function_spans, for every batch.
LEMMA FunctionSpansProcessed ==
  ASSUME NEW p \in ProcessingType, NEW spans \in Seq(Span)
  PROVE  LET q == ProcessFunctionSpans(p, spans)
         IN  /\ SpansProcessed(p, q)
             /\ q.inv.captured = p.inv.captured \cup NewlyCaptured(p.inv.captured, spans)
<1> DEFINE captured == p.inv.captured \cup NewlyCaptured(p.inv.captured, spans)
           inv == [p.inv EXCEPT !.captured = captured]
           out == IF ShouldProduceSpans(inv) /\ TracingMode = "OtelInstrumentation"
                  THEN AddFunctionSpans(p.out, PassedOn(p.inv.captured, spans)) ELSE p.out
           a == [p EXCEPT !.inv = inv, !.out = out]
           released == /\ LogMode = "Structured" /\ p.inv.delaying_logs
                       /\ HasCaptured(inv, "CxEarlyInvocation")
           q == ProcessFunctionSpans(p, spans)
<1>1. /\ p.inv \in InvocationProcessingState /\ p.out \in OutputBuffers
      /\ p.inv.delaying_logs \in BOOLEAN
  BY ProcessingFields, InvocationFields
<1>2. captured \in SUBSET Span /\ IsFiniteSet(captured)
  BY <1>1, CapturedType, InvocationFields, FS_Union
<1> HIDE DEF captured
<1>3. /\ inv \in InvocationProcessingState /\ inv.captured = captured
      /\ inv.logs = p.inv.logs /\ inv.delaying_logs = p.inv.delaying_logs
      /\ inv.req = p.inv.req /\ inv.data = p.inv.data
  BY <1>1, <1>2 DEF InvocationProcessingState
<1>4. out \in OutputBuffers /\ out.logs = p.out.logs
  <2> DEFINE passed == PassedOn(p.inv.captured, spans)
  <2>1. AddFunctionSpans(p.out, passed) \in OutputBuffers
    BY <1>1, CapturedType, AddFunctionSpansType
  <2>2. AddFunctionSpans(p.out, passed).logs = p.out.logs
    BY <1>1 DEF AddFunctionSpans, OutputBuffers
  <2> QED
    BY <1>1, <2>1, <2>2
<1>5. q = IF LogMode = "Structured" /\ inv.delaying_logs /\ HasCaptured(inv, "CxEarlyInvocation")
          THEN ReleaseDelayedLogs(a) ELSE a
  BY DEF ProcessFunctionSpans, captured
<1>6. q = IF released THEN ReleaseDelayedLogs(a) ELSE a
  BY <1>3, <1>5
<1> HIDE DEF out, inv
<1>7. a \in ProcessingType /\ a.inv = inv /\ a.out = out /\ a.metrics = p.metrics
  BY <1>3, <1>4 DEF ProcessingType
<1> HIDE DEF a
<1>8. Emits(p, a, <<>>)
  BY <1>4, <1>7, EmitsNothing
<1>9. /\ q.inv.req = p.inv.req /\ q.inv.data = p.inv.data /\ q.metrics = p.metrics
      /\ q.inv.captured = captured
      /\ q.inv.delaying_logs = (p.inv.delaying_logs /\ ~released)
      /\ q.inv.logs = IF released THEN <<>> ELSE p.inv.logs
      /\ Emits(p, q, IF released THEN StartLogs(inv) \o HeldRecords(inv) ELSE <<>>)
  <2>1. CASE released
    <3>1. q = ReleaseDelayedLogs(a)
      BY <1>6, <2>1
    <3>2. q.inv = [inv EXCEPT !.delaying_logs = FALSE, !.logs = <<>>]
      BY <1>7, <3>1, FlowsRelease
    <3>3. /\ q.inv.req = p.inv.req /\ q.inv.data = p.inv.data
          /\ q.inv.captured = captured /\ q.inv.delaying_logs = FALSE /\ q.inv.logs = <<>>
      BY <1>3, <3>2 DEF InvocationProcessingState
    <3>4. Emits(a, q, StartLogs(inv) \o HeldRecords(inv)) /\ q.metrics = p.metrics
      BY <1>7, <3>1, DelayedEmitted
    <3>5. StartLogs(inv) \o HeldRecords(inv) \in Seq(LogRecord)
      BY <3>4 DEF Emits
    <3>6. Emits(p, q, StartLogs(inv) \o HeldRecords(inv))
      <4> DEFINE logs == StartLogs(inv) \o HeldRecords(inv)
      <4>1. logs \in Seq(LogRecord) /\ Emits(a, q, logs)
        BY <3>4, <3>5
      <4> HIDE DEF logs
      <4>2. Emits(p, q, <<>> \o logs) /\ <<>> \o logs = logs
        BY <1>8, <4>1, EmitsOn, NoRecords
      <4> QED
        BY <4>2 DEF logs
    <3> QED
      BY <2>1, <3>3, <3>4, <3>6
  <2>2. CASE ~released
    <3>1. q = a
      BY <1>6, <2>2
    <3> HIDE DEF q
    <3> QED
      BY <1>1, <1>3, <1>7, <1>8, <2>2, <3>1
  <2> QED
    BY <2>1, <2>2
<1>10. HasCaptured(q.inv, "CxEarlyInvocation") = HasCaptured(inv, "CxEarlyInvocation")
  BY <1>3, <1>9 DEF HasCaptured
<1> HIDE DEF q
<1>11. SpansProcessed(p, q)
  BY <1>9, <1>10 DEF SpansProcessed, inv
<1> QED
  BY <1>9, <1>11 DEF q, captured

-----------------------------------------------------------------------------
(* The service in its environment. *)

Phases == {"init", "idle", "running", "over", "stopped"}

\* The state of the platform.  An event is identified by its position in the stream.
PlatformInv ==
  /\ phase \in Phases
  /\ current \in 0..NumRequests
  /\ phase \in {"running", "over"} => current \in Requests
  /\ stream \in Seq(Event)
  /\ \A i \in 1..Len(stream) : stream[i].id = i
  /\ delivered \in 0..Len(stream)
  /\ spans_sent \in Seq(Span)
  /\ metrics_sent \in Nat

InstanceTypeInv == TypeInv /\ PlatformInv

\* The events that are added to a stream are events, and their ids are their positions.
LEMMA EventsAfterType ==
  ASSUME NEW events \in Seq(Event), NEW kinds \in Seq(EventKinds),
         NEW req \in Requests \cup {NoRequest}, NEW bad
  PROVE  LET new == EventsAfter(events, kinds, req, bad)
         IN  /\ new \in Seq(Event) /\ Len(new) = Len(kinds)
             /\ \A i \in 1..Len(kinds) :
                  /\ new[i].kind = kinds[i] /\ new[i].req = req
                  /\ new[i].id = Len(events) + i
                  /\ new[i].ok = (Len(events) + i \notin bad)
<1> DEFINE new == EventsAfter(events, kinds, req, bad)
<1>1. Len(events) \in Nat /\ Len(kinds) \in Nat
  OBVIOUS
<1>2. new = [i \in 1..Len(kinds) |-> MakeEvent(kinds[i], req, Len(events) + i, bad)]
  BY DEF EventsAfter
<1>3. ASSUME NEW i \in 1..Len(kinds)
      PROVE  /\ MakeEvent(kinds[i], req, Len(events) + i, bad) \in Event
             /\ new[i] = MakeEvent(kinds[i], req, Len(events) + i, bad)
  <2>1. kinds[i] \in EventKinds /\ Len(events) + i \in Nat
    BY <1>1
  <2> QED
    BY <1>2, <2>1 DEF MakeEvent, Event
<1> HIDE DEF new
<1>4. new \in Seq(Event) /\ Len(new) = Len(kinds)
  BY <1>1, <1>2, <1>3
<1>5. ASSUME NEW i \in 1..Len(kinds)
      PROVE  /\ new[i].kind = kinds[i] /\ new[i].req = req
             /\ new[i].id = Len(events) + i
             /\ new[i].ok = (Len(events) + i \notin bad)
  <2> DEFINE id == Len(events) + i
  <2>1. new[i] = [kind |-> kinds[i], req |-> req, id |-> id, ok |-> id \notin bad]
    BY <1>3 DEF MakeEvent
  <2> HIDE DEF id
  <2>2. new[i].kind = kinds[i] /\ new[i].req = req /\ new[i].id = id
    BY <2>1
  <2>3. new[i].ok = (id \notin bad)
    BY <2>1
  <2> QED
    BY <2>2, <2>3 DEF id
<1> QED
  BY <1>4, <1>5 DEF new

\* A stream grows at its end, and each event keeps its place.
LEMMA StreamGrows ==
  ASSUME NEW events \in Seq(Event), \A i \in 1..Len(events) : events[i].id = i,
         NEW kinds \in Seq(EventKinds), NEW req \in Requests \cup {NoRequest}, NEW bad
  PROVE  LET new == EventsAfter(events, kinds, req, bad)
             all == events \o new
         IN  /\ all \in Seq(Event)
             /\ Len(all) = Len(events) + Len(kinds)
             /\ \A i \in 1..Len(events) : all[i] = events[i]
             /\ \A i \in 1..Len(kinds) : all[Len(events) + i] = new[i]
             /\ \A i \in 1..Len(all) : all[i].id = i
<1> DEFINE new == EventsAfter(events, kinds, req, bad)
           all == events \o new
<1>1. /\ new \in Seq(Event) /\ Len(new) = Len(kinds)
      /\ \A i \in 1..Len(kinds) : new[i].id = Len(events) + i
      /\ Len(events) \in Nat /\ Len(kinds) \in Nat
  BY EventsAfterType
<1> HIDE DEF new
<1>2. /\ all \in Seq(Event) /\ Len(all) = Len(events) + Len(kinds)
      /\ \A i \in 1..(Len(events) + Len(kinds)) :
           all[i] = IF i <= Len(events) THEN events[i] ELSE new[i - Len(events)]
  BY <1>1, ConcatProperties
<1> HIDE DEF all
<1>3. \A i \in 1..Len(events) : all[i] = events[i]
  BY <1>1, <1>2
<1>4. \A i \in 1..Len(kinds) : all[Len(events) + i] = new[i]
  BY <1>1, <1>2
<1>5. ASSUME NEW i \in 1..Len(all) PROVE all[i].id = i
  <2>1. CASE i <= Len(events)
    BY <1>1, <1>2, <2>1
  <2>2. CASE ~(i <= Len(events))
    <3>1. i - Len(events) \in 1..Len(kinds)
      BY <1>1, <1>2, <2>2
    <3> QED
      BY <1>1, <1>2, <2>2, <3>1
  <2> QED
    BY <2>1, <2>2
<1> QED
  BY <1>2, <1>3, <1>4, <1>5 DEF new, all

\* What a step of the platform does to the stream.
Grows(kinds, req) ==
  /\ stream' \in Seq(Event)
  /\ Len(stream') = Len(stream) + Len(kinds)
  /\ \A i \in 1..Len(stream) : stream'[i] = stream[i]
  /\ \A i \in 1..Len(kinds) :
       /\ stream'[Len(stream) + i].kind = kinds[i]
       /\ stream'[Len(stream) + i].req = req
       /\ CorruptEvents = {} => stream'[Len(stream) + i].ok
  /\ \A i \in 1..Len(stream') : stream'[i].id = i

\* An event that happens may be recorded, twice, or not at all.
LEMMA HappensGrows ==
  ASSUME PlatformInv, NEW kinds \in Seq(EventKinds), NEW req \in Requests \cup {NoRequest},
         Happens(kinds, req)
  PROVE  Grows(kinds, req)
<1>1. PICK bad \in SUBSET CorruptEvents : stream' = stream \o EventsAfter(stream, kinds, req, bad)
  BY DEF Happens
<1> DEFINE new == EventsAfter(stream, kinds, req, bad)
<1>2. stream \in Seq(Event) /\ \A i \in 1..Len(stream) : stream[i].id = i
  BY DEF PlatformInv
<1>3. \A i \in 1..Len(kinds) :
        /\ new[i].kind = kinds[i] /\ new[i].req = req
        /\ new[i].ok = (Len(stream) + i \notin bad)
  BY <1>2, EventsAfterType
<1> DEFINE all == stream \o new
<1>4. /\ all \in Seq(Event)
      /\ Len(all) = Len(stream) + Len(kinds)
      /\ \A i \in 1..Len(stream) : all[i] = stream[i]
      /\ \A i \in 1..Len(kinds) : all[Len(stream) + i] = new[i]
      /\ \A i \in 1..Len(all) : all[i].id = i
  BY <1>2, StreamGrows
<1>6. stream' = all
  BY <1>1
<1> HIDE DEF new, all
<1>5. CorruptEvents = {} => \A i \in 1..Len(kinds) : new[i].ok
  BY <1>1, <1>3
<1> QED
  BY <1>3, <1>4, <1>5, <1>6 DEF Grows

\* The steps of the platform and the function that record telemetry, each with the events
\* it adds to the stream.
Recording ==
  \/ InitRestarts \/ InitEnds \/ InvokeFunction \/ WriteLog \/ FunctionEnds \/ InvocationEnds

\* Each action that records extends the stream by events.
LEMMA RecordingGrows ==
  ASSUME PlatformInv, Recording
  PROVE  /\ UNCHANGED <<serviceVars, delivered, spans_sent, metrics_sent>>
         /\ InitRestarts => Grows(<<"PlatformInitStart">>, NoRequest)
         /\ InitEnds => Grows(<<"PlatformInitRuntimeDone", "PlatformInitReport">>, NoRequest)
         /\ InvokeFunction => current + 1 \in Requests /\ Grows(<<"PlatformStart">>, current + 1)
         /\ WriteLog => LET writer == IF phase = "init" THEN NoRequest ELSE current IN
              \E kind \in {"Function", "EpsagonTrace"} : Grows(<<kind>>, writer)
         /\ FunctionEnds => Grows(<<"PlatformRuntimeDone">>, current)
         /\ InvocationEnds => Grows(<<"PlatformReport">>, current)
         /\ \E kinds \in Seq(EventKinds), req \in Requests \cup {NoRequest} : Grows(kinds, req)
<1>1. /\ phase \in Phases /\ current \in 0..NumRequests
      /\ phase \in {"running", "over"} => current \in Requests
      /\ NumRequests \in Nat /\ Requests = 1..NumRequests
  BY InstanceAssumption DEF PlatformInv
<1>2. UNCHANGED <<serviceVars, delivered, spans_sent, metrics_sent>>
  BY DEF Recording, InitRestarts, InitEnds, InvokeFunction, WriteLog, FunctionEnds,
         InvocationEnds, Happens
<1>3. /\ \A kind \in EventKinds : <<kind>> \in Seq(EventKinds)
      /\ <<"PlatformInitRuntimeDone", "PlatformInitReport">> \in Seq(EventKinds)
  BY DEF EventKinds
<1>4. {"Function", "EpsagonTrace", "PlatformInitStart", "PlatformStart", "PlatformRuntimeDone",
       "PlatformReport"} \subseteq EventKinds
  BY DEF EventKinds
<1>5. InitRestarts => Grows(<<"PlatformInitStart">>, NoRequest)
  BY <1>3, <1>4, HappensGrows DEF InitRestarts
<1>6. InitEnds => Grows(<<"PlatformInitRuntimeDone", "PlatformInitReport">>, NoRequest)
  BY <1>3, HappensGrows DEF InitEnds
<1>7. InvokeFunction => current + 1 \in Requests /\ Grows(<<"PlatformStart">>, current + 1)
  <2> SUFFICES ASSUME InvokeFunction
               PROVE  current + 1 \in Requests /\ Grows(<<"PlatformStart">>, current + 1)
    OBVIOUS
  <2>1. current + 1 \in Requests
    BY <1>1 DEF InvokeFunction
  <2> QED
    BY <1>3, <1>4, <2>1, HappensGrows DEF InvokeFunction
<1>8. WriteLog => LET writer == IF phase = "init" THEN NoRequest ELSE current IN
              \E kind \in {"Function", "EpsagonTrace"} : Grows(<<kind>>, writer)
  <2> SUFFICES ASSUME WriteLog
               PROVE  LET writer == IF phase = "init" THEN NoRequest ELSE current IN
                      \E kind \in {"Function", "EpsagonTrace"} : Grows(<<kind>>, writer)
    OBVIOUS
  <2> DEFINE writer == IF phase = "init" THEN NoRequest ELSE current
  <2>1. writer \in Requests \cup {NoRequest}
    BY <1>1 DEF WriteLog
  <2>2. PICK kind \in LogKinds : Happens(<<kind>>, writer)
    BY DEF WriteLog
  <2>3. kind \in {"Function", "EpsagonTrace"}
    BY InstanceAssumption
  <2> HIDE DEF writer
  <2>4. Grows(<<kind>>, writer)
    BY <1>3, <1>4, <2>1, <2>2, <2>3, HappensGrows
  <2> QED
    BY <2>3, <2>4 DEF writer
<1>9. FunctionEnds => Grows(<<"PlatformRuntimeDone">>, current)
  BY <1>1, <1>3, <1>4, HappensGrows DEF FunctionEnds
<1>10. InvocationEnds => Grows(<<"PlatformReport">>, current)
  BY <1>1, <1>3, <1>4, HappensGrows DEF InvocationEnds
<1>11. \E kinds \in Seq(EventKinds), req \in Requests \cup {NoRequest} : Grows(kinds, req)
  <2>1. InvocationEnds \/ FunctionEnds => current \in Requests
    BY <1>1 DEF InvocationEnds, FunctionEnds
  <2>2. WriteLog => (IF phase = "init" THEN NoRequest ELSE current) \in Requests \cup {NoRequest}
    BY <1>1 DEF WriteLog
  <2>3. CASE InitRestarts
    BY <1>3, <1>4, <1>5, <2>3
  <2>4. CASE InitEnds
    BY <1>3, <1>6, <2>4
  <2>5. CASE InvokeFunction
    BY <1>3, <1>4, <1>7, <2>5
  <2>6. CASE WriteLog
    BY <1>3, <1>4, <1>8, <2>2, <2>6
  <2>7. CASE FunctionEnds
    BY <1>3, <1>4, <1>9, <2>1, <2>7
  <2>8. CASE InvocationEnds
    BY <1>3, <1>4, <1>10, <2>1, <2>8
  <2> QED
    BY <2>3, <2>4, <2>5, <2>6, <2>7, <2>8 DEF Recording
<1> QED
  BY <1>2, <1>5, <1>6, <1>7, <1>8, <1>9, <1>10, <1>11

\* The events that a delivery of the next n takes from the stream, and what is left of
\* them when those in lost are dropped.
Batch(n) == SubSeq(stream, delivered + 1, delivered + n)
Kept(n, lost) == FilterSeq(Batch(n), ToSet(Batch(n)) \ lost)

\* A delivery is one of some next events, of which those in lost were dropped.
Delivers(n, lost, age) ==
  /\ Batch(n) \in Seq(Event) /\ Kept(n, lost) \in Seq(Event)
  /\ HandleIncomingTelemetry(Kept(n, lost), age)
  /\ delivered' = delivered + n
  /\ UNCHANGED <<phase, current, stream, spans_sent, metrics_sent>>

\* The events a delivery takes from the stream.
LEMMA BatchType ==
  ASSUME PlatformInv, NEW n \in Nat, delivered + n <= Len(stream)
  PROVE  /\ Batch(n) \in Seq(Event) /\ Len(Batch(n)) = n
         /\ \A i \in 1..n : Batch(n)[i] = stream[delivered + i]
<1>1. /\ stream \in Seq(Event) /\ delivered \in Nat /\ Len(stream) \in Nat
      /\ delivered + 1 \in Int /\ delivered + n \in Int
  BY DEF PlatformInv
<1>2. \A i \in delivered + 1..delivered + n : stream[i] \in Event
  BY <1>1
<1>3. /\ Batch(n) \in Seq(Event)
      /\ Len(Batch(n)) = IF delivered + 1 <= delivered + n
                         THEN (delivered + n) - (delivered + 1) + 1 ELSE 0
      /\ \A i \in 1..((delivered + n) - (delivered + 1) + 1) :
           Batch(n)[i] = stream[(delivered + 1) + i - 1]
  BY <1>1, <1>2, SubSeqProperties DEF Batch
<1>4. (delivered + n) - (delivered + 1) + 1 = n
  BY <1>1
<1>5. Len(Batch(n)) = n
  BY <1>1, <1>3
<1>6. ASSUME NEW i \in 1..n PROVE Batch(n)[i] = stream[delivered + i]
  <2>1. (delivered + 1) + i - 1 = delivered + i
    BY <1>1
  <2> QED
    BY <1>3, <1>4, <2>1
<1> QED
  BY <1>3, <1>5, <1>6

\* A delivery is a call of a handler of the open service.
LEMMA TelemetryDelivered ==
  ASSUME TypeOK, PlatformInv, DeliverTelemetry
  PROVE  \E n \in 1..(Len(stream) - delivered), lost \in SUBSET {e \in Event : e.kind \in LossyKinds},
            age \in 0..(now + ReportingDelay) : Delivers(n, lost, age)
<1>1. /\ stream \in Seq(Event) /\ delivered \in 0..Len(stream) /\ Len(stream) \in Nat
      /\ now \in Nat /\ ReportingDelay \in Nat
  BY ServiceAssumption DEF PlatformInv, TypeOK
<1>2. PICK n \in BatchSizes \cup {Len(stream) - delivered}, age \in EventAges :
       LET events == SubSeq(stream, delivered + 1, delivered + n) IN
       /\ delivered + n <= Len(stream)
       /\ age <= now + ReportingDelay
       /\ \E lost \in SUBSET {e \in ToSet(events) : e.kind \in LossyKinds} :
            HandleIncomingTelemetry(FilterSeq(events, ToSet(events) \ lost), age)
       /\ delivered' = delivered + n
  BY DEF DeliverTelemetry
<1>3. n \in 1..(Len(stream) - delivered) /\ n \in Nat /\ delivered + n <= Len(stream)
  <2>1. delivered < Len(stream)
    BY DEF DeliverTelemetry
  <2>2. n \in Nat \ {0}
    BY <1>1, <1>2, <2>1, InstanceAssumption
  <2>3. delivered + n <= Len(stream)
    BY <1>2
  <2> QED
    BY <1>1, <2>2, <2>3
<1>4. age \in 0..(now + ReportingDelay)
  <2>1. age \in Nat
    BY InstanceAssumption
  <2> QED
    BY <1>1, <1>2, <2>1
<1>5. PICK lost \in SUBSET {e \in ToSet(Batch(n)) : e.kind \in LossyKinds} :
        HandleIncomingTelemetry(Kept(n, lost), age)
  BY <1>2 DEF Batch, Kept
<1>6. Batch(n) \in Seq(Event)
  BY <1>3, BatchType
<1>7. Kept(n, lost) \in Seq(Event)
  BY <1>6, FilterType DEF Kept
<1>8. lost \in SUBSET {e \in Event : e.kind \in LossyKinds}
  BY <1>6 DEF ToSet
<1>9. UNCHANGED <<phase, current, stream, spans_sent, metrics_sent>>
  BY DEF DeliverTelemetry
<1>10. Delivers(n, lost, age)
  BY <1>2, <1>5, <1>6, <1>7, <1>9 DEF Delivers
<1> QED
  BY <1>3, <1>4, <1>8, <1>10

\* Every step of the environment is a step of the service, or leaves it alone.
LEMMA InstanceStepIsServiceStep ==
  ASSUME TypeOK, PlatformInv, [InstanceNext]_vars
  PROVE  [Next]_serviceVars
<1>1. CASE Recording
  BY <1>1, RecordingGrows
<1>2. CASE DeliverInvoke
  <2>1. current \in Requests
    BY <1>2 DEF DeliverInvoke, PlatformInv
  <2> QED
    BY <1>2, <2>1 DEF DeliverInvoke, Next, Receive
<1>3. CASE DeliverShutdown
  BY <1>3 DEF DeliverShutdown, Next, Receive
<1>4. CASE DeliverTelemetry
  BY <1>4, TelemetryDelivered DEF Delivers, Next, Receive
<1>5. CASE ExportSpan
  <2>1. PICK c \in SpanCategories :
          HandleOtlpSpans(<<[category |-> c, req |-> current, id |-> Len(spans_sent) + 1]>>)
    BY <1>5 DEF ExportSpan
  <2> DEFINE s == [category |-> c, req |-> current, id |-> Len(spans_sent) + 1]
  <2>2. c \in SpanCategorization /\ current \in Requests /\ Len(spans_sent) + 1 \in Nat
    BY <1>5, InstanceAssumption DEF ExportSpan, PlatformInv
  <2>3. s \in Span
    BY <2>2 DEF Span
  <2> HIDE DEF s
  <2>4. <<s>> \in Seq(Span)
    BY <2>3
  <2>5. HandleOtlpSpans(<<s>>)
    BY <2>1 DEF s
  <2> QED
    BY <2>4, <2>5 DEF Next, Receive
<1>6. CASE ExportMetric
  <2>1. metrics_sent + 1 \in Nat
    BY DEF PlatformInv
  <2> QED
    BY <1>6, <2>1 DEF ExportMetric, Next, Receive
<1>7. CASE ServiceStep
  BY <1>7 DEF ServiceStep, Next
<1>8. CASE AdvanceClock
  BY <1>8 DEF AdvanceClock, Next
<1>9. CASE Terminated
  BY <1>9 DEF Terminated, vars
<1>10. CASE UNCHANGED vars
  BY <1>10 DEF vars
<1> QED
  BY <1>1, <1>2, <1>3, <1>4, <1>5, <1>6, <1>7, <1>8, <1>9, <1>10 DEF InstanceNext, Recording

\* The state of the platform stays what it should be.
LEMMA PlatformStep ==
  ASSUME TypeOK, PlatformInv, [InstanceNext]_vars
  PROVE  PlatformInv'
<1>1. /\ phase \in Phases /\ current \in 0..NumRequests
      /\ phase \in {"running", "over"} => current \in Requests
      /\ stream \in Seq(Event) /\ \A i \in 1..Len(stream) : stream[i].id = i
      /\ delivered \in 0..Len(stream) /\ Len(stream) \in Nat
      /\ spans_sent \in Seq(Span) /\ metrics_sent \in Nat
      /\ NumRequests \in Nat /\ Requests = 1..NumRequests
  BY InstanceAssumption DEF PlatformInv
<1>2. CASE Recording
  <2>1. PICK kinds \in Seq(EventKinds), req \in Requests \cup {NoRequest} : Grows(kinds, req)
    BY <1>2, RecordingGrows
  <2>2. /\ stream' \in Seq(Event) /\ \A i \in 1..Len(stream') : stream'[i].id = i
        /\ delivered' \in 0..Len(stream')
        /\ spans_sent' \in Seq(Span) /\ metrics_sent' \in Nat
    BY <1>1, <1>2, <2>1, RecordingGrows DEF Grows
  <2>3. /\ phase' \in Phases /\ current' \in 0..NumRequests
        /\ phase' \in {"running", "over"} => current' \in Requests
    <3>1. InvokeFunction => current + 1 \in Requests
      BY <1>2, RecordingGrows
    <3> QED
      BY <1>1, <1>2, <3>1
      DEF Recording, InitRestarts, InitEnds, InvokeFunction, WriteLog, FunctionEnds,
          InvocationEnds, Phases
  <2> QED
    BY <2>2, <2>3 DEF PlatformInv
<1>3. CASE DeliverTelemetry
  <2>1. PICK n \in 1..(Len(stream) - delivered), lost \in SUBSET {e \in Event : e.kind \in LossyKinds},
            age \in 0..(now + ReportingDelay) : Delivers(n, lost, age)
    BY <1>3, TelemetryDelivered
  <2>2. delivered' \in 0..Len(stream)
    BY <1>1, <2>1 DEF Delivers
  <2> QED
    BY <1>1, <2>1, <2>2 DEF Delivers, PlatformInv
<1>4. CASE DeliverShutdown
  BY <1>1, <1>4 DEF DeliverShutdown, PlatformInv, Phases
<1>5. CASE ExportSpan
  <2>1. PICK c \in SpanCategories :
          spans_sent' = Append(spans_sent,
                               [category |-> c, req |-> current, id |-> Len(spans_sent) + 1])
    BY <1>5 DEF ExportSpan
  <2>2. c \in SpanCategorization /\ current \in Requests /\ Len(spans_sent) + 1 \in Nat
    BY <1>5, InstanceAssumption DEF ExportSpan, PlatformInv
  <2>3. [category |-> c, req |-> current, id |-> Len(spans_sent) + 1] \in Span
    BY <2>2 DEF Span
  <2>4. spans_sent' \in Seq(Span)
    BY <1>1, <2>1, <2>3, AppendProperties
  <2> QED
    BY <1>1, <1>5, <2>4 DEF ExportSpan, PlatformInv
<1>6. CASE ExportMetric
  BY <1>1, <1>6 DEF ExportMetric, PlatformInv
<1>7. CASE UNCHANGED platformVars
  BY <1>7 DEF platformVars, PlatformInv
<1> QED
  BY <1>2, <1>3, <1>4, <1>5, <1>6, <1>7
  DEF InstanceNext, Recording, DeliverInvoke, ServiceStep, AdvanceClock, Terminated, vars

\* What a previous instance left, and the first PlatformInitStart, are well formed.
LEMMA FirstStream ==
  ASSUME InstanceInit
  PROVE  /\ stream \in Seq(Event) /\ Len(stream) \in Nat \ {0}
         /\ \A i \in 1..Len(stream) :
              /\ stream[i].id = i /\ stream[i].req = NoRequest
              /\ CorruptEvents = {} => stream[i].ok
         /\ stream[Len(stream)].kind = "PlatformInitStart"
         /\ \A i \in 1..(Len(stream) - 1) : i < Len(stream)
<1>1. PICK left \in Leftovers, bad \in SUBSET CorruptEvents :
        stream = EventsAfter(<<>>, Append(left, "PlatformInitStart"), NoRequest, bad)
  BY DEF InstanceInit
<1> DEFINE kinds == Append(left, "PlatformInitStart")
<1>2. left \in Seq(EventKinds) /\ "PlatformInitStart" \in EventKinds
  BY InstanceAssumption DEF EventKinds
<1>3. kinds \in Seq(EventKinds) /\ Len(kinds) = Len(left) + 1 /\ kinds[Len(left) + 1] = "PlatformInitStart"
      /\ Len(left) \in Nat
  BY <1>2, AppendProperties
<1> DEFINE none == <<>>
<1>4. none \in Seq(Event) /\ Len(none) = 0
  OBVIOUS
<1> DEFINE new == EventsAfter(none, kinds, NoRequest, bad)
<1>7. stream = new
  BY <1>1
<1>11. NoRequest \in Requests \cup {NoRequest}
  OBVIOUS
<1> HIDE DEF kinds, none
<1>12. ASSUME NEW ev \in Seq(Event), NEW ks \in Seq(EventKinds), NEW r \in Requests \cup {NoRequest}
       PROVE  LET after == EventsAfter(ev, ks, r, bad)
              IN  /\ after \in Seq(Event) /\ Len(after) = Len(ks)
                  /\ \A i \in 1..Len(ks) :
                       /\ after[i].kind = ks[i] /\ after[i].req = r
                       /\ after[i].id = Len(ev) + i
                       /\ after[i].ok = (Len(ev) + i \notin bad)
  BY EventsAfterType
<1>13. kinds \in Seq(EventKinds)
  BY <1>3
<1>14. none \in Seq(Event)
  BY <1>4
<1>5. new \in Seq(Event) /\ Len(new) = Len(kinds)
  BY <1>11, <1>12, <1>13, <1>14
<1>6. \A i \in 1..Len(kinds) :
                  /\ new[i].kind = kinds[i] /\ new[i].req = NoRequest
                  /\ new[i].id = Len(none) + i
                  /\ new[i].ok = (Len(none) + i \notin bad)
  BY <1>11, <1>12, <1>13, <1>14
<1> HIDE DEF new
<1>8. stream \in Seq(Event) /\ Len(stream) = Len(left) + 1
  BY <1>3, <1>5, <1>7
<1>9. ASSUME NEW i \in 1..Len(stream)
      PROVE  /\ stream[i].kind = kinds[i] /\ stream[i].id = i /\ stream[i].req = NoRequest
  BY <1>3, <1>4, <1>6, <1>7, <1>8
<1>10. ASSUME CorruptEvents = {}, NEW i \in 1..Len(stream) PROVE stream[i].ok
  BY <1>1, <1>3, <1>6, <1>7, <1>8, <1>10
<1> QED
  BY <1>3, <1>8, <1>9, <1>10

\* The types of the service and of the platform, at the start and from step to step.
LEMMA InstanceInitTypes ==
  ASSUME InstanceInit
  PROVE  InstanceTypeInv
<1>1. TypeInv
  BY InitTypes DEF InstanceInit
<1>2. PlatformInv
  <2>1. <<>> \in Seq(Span)
    OBVIOUS
  <2>2. NumRequests \in Nat
    BY InstanceAssumption
  <2> QED
    BY <2>1, <2>2, FirstStream DEF InstanceInit, PlatformInv, Phases
<1> QED
  BY <1>1, <1>2 DEF InstanceTypeInv

\* Each step keeps the types, and is a step of the open service.
LEMMA InstanceStepTypes ==
  ASSUME InstanceTypeInv, [InstanceNext]_vars
  PROVE  InstanceTypeInv' /\ [Next]_serviceVars
<1>1. [Next]_serviceVars
  BY InstanceStepIsServiceStep DEF InstanceTypeInv, TypeInv
<1> QED
  BY <1>1, TypeStep, PlatformStep DEF InstanceTypeInv, TypeInv

\* TelemetryService is written for any events, spans and invoke events: what the Lambda
\* platform and the function do is a special case of it.
THEOREM InstanceImplementsService == InstanceSpec => Spec
<1>1. InstanceInit => InstanceTypeInv /\ Init
  BY InstanceInitTypes DEF InstanceInit
<1>2. InstanceTypeInv /\ [InstanceNext]_vars => InstanceTypeInv' /\ [Next]_serviceVars
  BY InstanceStepTypes
<1> QED
  BY <1>1, <1>2, PTL DEF InstanceSpec, Spec

\* What holds of the service with any input holds in the Lambda environment: the types,
\* and what its coordination promises (handle_invoke_event, signal_should_send_by).
THEOREM InstanceCoordination ==
  InstanceSpec => [](TypeOK /\ NoLostWakeup /\ DeadlineHasTimer)
  BY InstanceImplementsService, TypeCorrect, CoordinationCorrect, PTL

-----------------------------------------------------------------------------
(* Sequences of events, the sets of their elements, and their order.       *)

\* The events come in the order in which they were recorded.
Ordered(xs) == \A i, j \in 1..Len(xs) : i < j => xs[i].id < xs[j].id

Before(X, Y) == \A x \in X, y \in Y : x.id < y.id

\* The elements of a sequence.
LEMMA Elements ==
  ASSUME NEW T, NEW xs \in Seq(T)
  PROVE  /\ ToSet(xs) = {xs[i] : i \in 1..Len(xs)}
         /\ ToSet(xs) \subseteq T
         /\ xs = <<>> <=> ToSet(xs) = {}
         /\ \A i \in 1..Len(xs) : xs[i] \in ToSet(xs)
<1>1. ToSet(xs) = {xs[i] : i \in 1..Len(xs)} /\ Len(xs) \in Nat
  BY DEF ToSet
<1>2. \A i \in 1..Len(xs) : xs[i] \in T
  OBVIOUS
<1>3. xs # <<>> => 1 \in 1..Len(xs)
  BY <1>1, EmptySeq
<1>4. xs = <<>> => Len(xs) = 0
  OBVIOUS
<1> QED
  BY <1>1, <1>2, <1>3, <1>4

\* The elements of a sequence with one more at its end.
LEMMA ElementsAppend ==
  ASSUME NEW T, NEW xs \in Seq(T), NEW e \in T
  PROVE  ToSet(Append(xs, e)) = ToSet(xs) \cup {e}
<1> DEFINE ys == Append(xs, e)
<1>1. /\ ys \in Seq(T) /\ Len(ys) = Len(xs) + 1 /\ ys[Len(xs) + 1] = e
      /\ \A i \in 1..Len(xs) : ys[i] = xs[i]
      /\ Len(xs) \in Nat
  BY AppendProperties
<1> HIDE DEF ys
<1>2. /\ ToSet(ys) = {ys[i] : i \in 1..Len(ys)} /\ ToSet(xs) = {xs[i] : i \in 1..Len(xs)}
  BY <1>1, Elements
<1>3. 1..Len(ys) = 1..Len(xs) \cup {Len(xs) + 1}
  BY <1>1
<1> QED
  BY <1>1, <1>2, <1>3 DEF ys

\* The elements of two sequences, one after the other.
LEMMA ElementsConcat ==
  ASSUME NEW T, NEW xs \in Seq(T), NEW ys \in Seq(T)
  PROVE  ToSet(xs \o ys) = ToSet(xs) \cup ToSet(ys)
<1> DEFINE zs == xs \o ys
<1>1. /\ zs \in Seq(T) /\ Len(zs) = Len(xs) + Len(ys)
      /\ Len(xs) \in Nat /\ Len(ys) \in Nat
      /\ \A i \in 1..(Len(xs) + Len(ys)) :
           zs[i] = IF i <= Len(xs) THEN xs[i] ELSE ys[i - Len(xs)]
  BY ConcatProperties
<1> HIDE DEF zs
<1>2. /\ ToSet(zs) = {zs[i] : i \in 1..Len(zs)} /\ ToSet(xs) = {xs[i] : i \in 1..Len(xs)}
      /\ ToSet(ys) = {ys[i] : i \in 1..Len(ys)}
  BY <1>1, Elements
<1>3. ASSUME NEW i \in 1..Len(xs) PROVE i \in 1..Len(zs) /\ zs[i] = xs[i]
  BY <1>1
<1>4. ASSUME NEW i \in 1..Len(ys) PROVE Len(xs) + i \in 1..Len(zs) /\ zs[Len(xs) + i] = ys[i]
  <2>1. /\ Len(xs) + i \in 1..(Len(xs) + Len(ys)) /\ ~(Len(xs) + i <= Len(xs))
        /\ (Len(xs) + i) - Len(xs) = i
    BY <1>1
  <2> QED
    BY <1>1, <2>1
<1>5. ASSUME NEW i \in 1..Len(zs), ~(i <= Len(xs))
      PROVE  i - Len(xs) \in 1..Len(ys) /\ zs[i] = ys[i - Len(xs)]
  BY <1>1, <1>5
<1>6. ASSUME NEW i \in 1..Len(zs), i <= Len(xs)
      PROVE  i \in 1..Len(xs) /\ zs[i] = xs[i]
  BY <1>1, <1>6
<1>7. ToSet(zs) \subseteq ToSet(xs) \cup ToSet(ys)
  BY <1>2, <1>5, <1>6
<1>8. ToSet(xs) \subseteq ToSet(zs)
  BY <1>2, <1>3
<1>9. ToSet(ys) \subseteq ToSet(zs)
  BY <1>2, <1>4
<1> QED
  BY <1>7, <1>8, <1>9 DEF zs

\* The elements of a sequence without its first.
LEMMA ElementsTail ==
  ASSUME NEW T, NEW xs \in Seq(T), xs # <<>>
  PROVE  /\ ToSet(xs) = {Head(xs)} \cup ToSet(Tail(xs))
         /\ Head(xs) \in ToSet(xs) /\ ToSet(Tail(xs)) \subseteq ToSet(xs)
<1> DEFINE ys == Tail(xs)
<1>1. /\ ys \in Seq(T) /\ Len(ys) = Len(xs) - 1 /\ Len(xs) \in Nat \ {0} /\ Len(ys) \in Nat
      /\ \A i \in 1..Len(ys) : ys[i] = xs[i + 1]
      /\ Head(xs) = xs[1]
  BY HeadTailProperties, EmptySeq
<1> HIDE DEF ys
<1>2. /\ ToSet(ys) = {ys[i] : i \in 1..Len(ys)} /\ ToSet(xs) = {xs[i] : i \in 1..Len(xs)}
  BY <1>1, Elements
<1>3. ASSUME NEW i \in 1..Len(xs), i # 1 PROVE i - 1 \in 1..Len(ys) /\ xs[i] = ys[i - 1]
  BY <1>1, <1>3
<1>4. ASSUME NEW i \in 1..Len(ys) PROVE i + 1 \in 1..Len(xs) /\ ys[i] = xs[i + 1]
  BY <1>1
<1>5. ToSet(xs) \subseteq {Head(xs)} \cup ToSet(ys)
  BY <1>1, <1>2, <1>3
<1>6. {Head(xs)} \subseteq ToSet(xs)
  BY <1>1, <1>2
<1>7. ToSet(ys) \subseteq ToSet(xs)
  BY <1>2, <1>4
<1> QED
  BY <1>5, <1>6, <1>7 DEF ys

\* A sequence stays in order without its first element, and with one that comes later.
LEMMA OrderTail ==
  ASSUME NEW xs \in Seq(Event), xs # <<>>, Ordered(xs)
  PROVE  /\ Ordered(Tail(xs)) /\ Before({Head(xs)}, ToSet(Tail(xs)))
<1> DEFINE ys == Tail(xs)
<1>1. /\ ys \in Seq(Event) /\ Len(ys) = Len(xs) - 1 /\ Len(xs) \in Nat \ {0} /\ Len(ys) \in Nat
      /\ \A i \in 1..Len(ys) : ys[i] = xs[i + 1]
      /\ Head(xs) = xs[1]
  BY HeadTailProperties, EmptySeq
<1> HIDE DEF ys
<1>2. ToSet(ys) = {ys[i] : i \in 1..Len(ys)}
  BY <1>1, Elements
<1>3. ASSUME NEW i \in 1..Len(ys), NEW j \in 1..Len(ys), i < j PROVE ys[i].id < ys[j].id
  <2>1. i + 1 \in 1..Len(xs) /\ j + 1 \in 1..Len(xs) /\ i + 1 < j + 1
    BY <1>1, <1>3
  <2> QED
    BY <1>1, <2>1 DEF Ordered
<1>4. ASSUME NEW i \in 1..Len(ys) PROVE xs[1].id < ys[i].id
  <2>1. i + 1 \in 1..Len(xs) /\ 1 \in 1..Len(xs) /\ 1 < i + 1
    BY <1>1
  <2> QED
    BY <1>1, <2>1 DEF Ordered
<1> QED
  BY <1>1, <1>2, <1>3, <1>4 DEF Ordered, Before, ys

\* Two ordered sequences, one before the other, are one ordered sequence.
LEMMA OrderConcat ==
  ASSUME NEW xs \in Seq(Event), NEW ys \in Seq(Event), Ordered(xs), Ordered(ys),
         Before(ToSet(xs), ToSet(ys))
  PROVE  Ordered(xs \o ys)
<1> DEFINE zs == xs \o ys
<1>1. /\ zs \in Seq(Event) /\ Len(zs) = Len(xs) + Len(ys)
      /\ Len(xs) \in Nat /\ Len(ys) \in Nat
      /\ \A i \in 1..(Len(xs) + Len(ys)) :
           zs[i] = IF i <= Len(xs) THEN xs[i] ELSE ys[i - Len(xs)]
  BY ConcatProperties
<1> HIDE DEF zs
<1>2. /\ \A i \in 1..Len(xs) : xs[i] \in ToSet(xs)
      /\ \A i \in 1..Len(ys) : ys[i] \in ToSet(ys)
  BY Elements
<1>3. ASSUME NEW i \in 1..Len(zs), NEW j \in 1..Len(zs), i < j PROVE zs[i].id < zs[j].id
  <2>1. CASE j <= Len(xs)
    <3>1. i \in 1..Len(xs) /\ j \in 1..Len(xs) /\ i <= Len(xs)
      BY <1>1, <1>3, <2>1
    <3>2. zs[i] = xs[i] /\ zs[j] = xs[j]
      BY <1>1, <2>1, <3>1
    <3> QED
      BY <1>3, <3>1, <3>2 DEF Ordered
  <2>2. CASE ~(j <= Len(xs)) /\ i <= Len(xs)
    <3>1. /\ i \in 1..Len(xs) /\ j - Len(xs) \in 1..Len(ys)
          /\ zs[i] = xs[i] /\ zs[j] = ys[j - Len(xs)]
      BY <1>1, <1>3, <2>2
    <3>2. zs[i] \in ToSet(xs) /\ zs[j] \in ToSet(ys)
      BY <1>2, <3>1
    <3> QED
      BY <3>2 DEF Before
  <2>3. CASE ~(i <= Len(xs))
    <3>1. /\ i - Len(xs) \in 1..Len(ys) /\ j - Len(xs) \in 1..Len(ys)
          /\ i - Len(xs) < j - Len(xs)
          /\ zs[i] = ys[i - Len(xs)] /\ zs[j] = ys[j - Len(xs)]
      BY <1>1, <1>3, <2>3
    <3> QED
      BY <3>1 DEF Ordered
  <2> QED
    BY <2>1, <2>2, <2>3
<1> QED
  BY <1>3 DEF Ordered, zs

\* A sequence of one element is ordered.
LEMMA OrderOne ==
  ASSUME NEW e \in Event
  PROVE  /\ <<e>> \in Seq(Event) /\ Ordered(<<e>>) /\ ToSet(<<e>>) = {e}
         /\ Ordered(<<>>) /\ ToSet(<<>>) = {}
<1>1. <<e>> \in Seq(Event) /\ Len(<<e>>) = 1 /\ <<e>>[1] = e /\ <<>> \in Seq(Event) /\ Len(<<>>) = 0
  OBVIOUS
<1>2. 1..Len(<<e>>) = {1} /\ 1..Len(<<>>) = {}
  BY <1>1
<1>3. Ordered(<<e>>) /\ Ordered(<<>>)
  BY <1>2 DEF Ordered
<1>4. ToSet(<<e>>) = {e} /\ ToSet(<<>>) = {}
  BY DEF ToSet
<1> QED
  BY <1>1, <1>3, <1>4

\* What FilterSeq keeps, and that it keeps the order.
LEMMA FilterElements ==
  ASSUME NEW T, NEW xs \in Seq(T), NEW S
  PROVE  ToSet(FilterSeq(xs, S)) = ToSet(xs) \cap S
<1> DEFINE Bad == {s \in Seq(T) : ToSet(FilterSeq(s, S)) # ToSet(s) \cap S}
<1> SUFFICES ASSUME Bad # {} PROVE FALSE
  BY DEF Bad
<1>1. <<>> \in Seq(T) /\ ToSet(<<>>) = {} /\ FilterSeq(<<>>, S) = <<>>
  BY FilterEmpty DEF ToSet
<1>2. Bad \in SUBSET Seq(T) /\ <<>> \notin Bad
  BY <1>1
<1> HIDE DEF Bad
<1>3. PICK s \in Seq(T), e \in T : s \notin Bad /\ Append(s, e) \in Bad
  BY <1>2, SequenceSplits
<1>4. /\ ToSet(FilterSeq(s, S)) = ToSet(s) \cap S
      /\ ToSet(FilterSeq(Append(s, e), S)) # ToSet(Append(s, e)) \cap S
  BY <1>3 DEF Bad
<1>5. FilterSeq(Append(s, e), S) = IF e \in S THEN Append(FilterSeq(s, S), e) ELSE FilterSeq(s, S)
  BY FilterAppend
<1>6. ToSet(Append(s, e)) = ToSet(s) \cup {e}
  BY ElementsAppend
<1>7. ToSet(Append(FilterSeq(s, S), e)) = ToSet(FilterSeq(s, S)) \cup {e}
  BY FilterType, ElementsAppend
<1> QED
  BY <1>4, <1>5, <1>6, <1>7

\* What is selected from an ordered sequence is ordered.
LEMMA FilterOrdered ==
  ASSUME NEW xs \in Seq(Event), Ordered(xs), NEW S
  PROVE  Ordered(FilterSeq(xs, S))
<1> DEFINE Bad == {s \in Seq(Event) : Ordered(s) /\ ~Ordered(FilterSeq(s, S))}
<1> SUFFICES ASSUME Bad # {} PROVE FALSE
  BY DEF Bad
<1>1. <<>> \in Seq(Event) /\ Ordered(<<>>) /\ FilterSeq(<<>>, S) = <<>>
  BY FilterEmpty DEF Ordered
<1>2. Bad \in SUBSET Seq(Event) /\ <<>> \notin Bad
  BY <1>1
<1> HIDE DEF Bad
<1>3. PICK s \in Seq(Event), e \in Event : s \notin Bad /\ Append(s, e) \in Bad
  BY <1>2, SequenceSplits
<1>4. Ordered(Append(s, e)) /\ ~Ordered(FilterSeq(Append(s, e), S))
  BY <1>3 DEF Bad
<1>5. FilterSeq(Append(s, e), S) = IF e \in S THEN Append(FilterSeq(s, S), e) ELSE FilterSeq(s, S)
  BY FilterAppend
<1>6. Ordered(s) /\ Before(ToSet(s), {e})
  <2> DEFINE t == Append(s, e)
  <2>1. /\ t \in Seq(Event) /\ Len(t) = Len(s) + 1 /\ t[Len(s) + 1] = e
        /\ \A i \in 1..Len(s) : t[i] = s[i]
        /\ Len(s) \in Nat
    BY AppendProperties
  <2> HIDE DEF t
  <2>2. \A i, j \in 1..Len(t) : i < j => t[i].id < t[j].id
    BY <1>4 DEF t, Ordered
  <2>3. Ordered(s)
    BY <2>1, <2>2 DEF Ordered
  <2>4. ToSet(s) = {s[i] : i \in 1..Len(s)}
    BY Elements
  <2>5. \A i \in 1..Len(s) : s[i].id < e.id
    BY <2>1, <2>2
  <2> QED
    BY <2>3, <2>4, <2>5 DEF Before
<1>7. Ordered(FilterSeq(s, S))
  BY <1>3, <1>6 DEF Bad
<1>8. ToSet(FilterSeq(s, S)) \subseteq ToSet(s) /\ FilterSeq(s, S) \in Seq(Event)
  BY FilterElements, FilterType
<1>9. Ordered(Append(FilterSeq(s, S), e))
  <2> DEFINE f == FilterSeq(s, S)
             one == <<e>>
  <2>1. f \in Seq(Event)
    BY <1>8
  <2>2. one \in Seq(Event)
    BY OrderOne
  <2>3. Before(ToSet(f), ToSet(one)) /\ Ordered(f) /\ Ordered(one)
    BY <1>6, <1>7, <1>8, OrderOne DEF Before
  <2>4. Append(f, e) = f \o one
    BY <1>8, AppendIsConcat
  <2> HIDE DEF f, one
  <2>5. Ordered(f \o one)
    BY <2>1, <2>2, <2>3, OrderConcat
  <2> QED
    BY <2>4, <2>5 DEF f
<1> QED
  BY <1>4, <1>5, <1>7, <1>9

-----------------------------------------------------------------------------
(* The order in which events wait, and in which the platform records them. *)

\* The PlatformInitStart that waits while what came before it is degraded.
Held == IF section = "degrade" THEN {held_event} ELSE {}

Waiting ==
  ToSet(pending_events) \cup Held \cup ToSet(half_processed_event_buffer)
    \cup ToSet(telemetry_event_queue)

\* Each event that waits is one that was delivered, and it is processed before those that
\* the platform recorded after it.
InLine ==
  /\ Ordered(pending_events)
  /\ Ordered(half_processed_event_buffer)
  /\ Ordered(telemetry_event_queue)
  /\ Before(ToSet(pending_events) \cup Held \cup ToSet(half_processed_event_buffer),
            ToSet(telemetry_event_queue))
  /\ Before(ToSet(pending_events), Held)
  /\ \A x \in Waiting : x.id \in 1..delivered /\ stream[x.id] = x

\* What the loops of process_telemetry_events rely on besides LoopInv.
LoopShape ==
  /\ section \in {"free", "events"} => pending_events = <<>>
  /\ section = "degrade" =>
       /\ ~init_handled /\ half_processed_event_buffer = <<>>
       /\ held_event \in Event /\ held_event.kind = "PlatformInitStart"
  /\ section = "replay" => init_handled
  /\ init_handled => half_processed_event_buffer = <<>>
  /\ section = "flush" => shutdown_flush_started
  /\ shutdown_flush_started => section \in {"free", "flush"} /\ phase = "stopped"
  /\ pc \in {"grace", "flush", "flushing", "awaitLast", "done"} => phase = "stopped"

\* What the platform records: inits come before all invocations, the end of a runtime
\* before the reports, and what a previous instance left before an init.
StreamInv ==
  /\ \A i, j \in 1..Len(stream) :
       stream[i].kind = "PlatformInitStart" /\ stream[j].req \in Requests => i < j
  /\ \A i \in 1..Len(stream) :
       stream[i].kind = "PlatformReport" =>
         IF stream[i].req \in Requests
         THEN \E j \in 1..(i - 1) :
                stream[j].kind = "PlatformRuntimeDone" /\ stream[j].req \in Requests
         ELSE \E j \in (i + 1)..Len(stream) :
                stream[j].kind = "PlatformInitStart"
  /\ phase = "init" => \A i \in 1..Len(stream) : stream[i].req = NoRequest
  /\ phase = "over" =>
       \E j \in 1..Len(stream) :
         stream[j].kind = "PlatformRuntimeDone" /\ stream[j].req \in Requests
  /\ CorruptEvents = {} => \A i \in 1..Len(stream) : stream[i].ok

-----------------------------------------------------------------------------
(* The steps of the instance, by what they do to events and logs.          *)

\* Steps that leave the events and the logs where they are.
Quiet ==
  /\ UNCHANGED <<telemetry_event_queue, half_processed_event_buffer, loop, initFlags,
                 shutdown_flush_started, invocation_state, metrics_state, stream, delivered>>
  /\ output_buffers'.logs = output_buffers.logs
  /\ sent'.logs = sent.logs

\* The steps of the service that do not, one by one.
Moving ==
  \/ ProcessingStep \/ EnqueueInvokeEvent \/ CheckShouldSend
  \/ FlushEnqueuedTelemetry \/ SendFlushed

\* The steps that the proofs below tell apart.
LEMMA StepsOfTheInstance ==
  ASSUME TypeOK, PlatformInv, [InstanceNext]_vars
  PROVE  \/ Quiet
         \/ Recording
         \/ DeliverTelemetry
         \/ ExportSpan
         \/ Moving /\ UNCHANGED platformVars
<1>1. output_buffers \in OutputBuffers /\ sent \in OutputBuffers
  BY DEF TypeOK, ProcessingTypes, SendTypes
<1>2. CASE DeliverInvoke \/ DeliverShutdown
  BY <1>2 DEF DeliverInvoke, DeliverShutdown, StartInvoke, StartShutdown, Quiet, inputs, processing,
              flags, sends, platformVars
<1>3. CASE ExportMetric
  <2>1. PICK m : HandleOtlpMetrics(m)
    BY <1>3 DEF ExportMetric
  <2>2. output_buffers'.logs = output_buffers.logs
    BY <1>1, <2>1 DEF HandleOtlpMetrics, OutputBuffers
  <2> QED
    BY <1>3, <2>1, <2>2 DEF ExportMetric, HandleOtlpMetrics, Quiet, inputs, flags, sends
<1>4. CASE ServiceStep
  <2>1. CASE HandlerStep /\ ~Moving
    BY <1>4, <2>1
    DEF ServiceStep, platformVars, Moving, HandlerStep, ObtainFunctionContext,
        FailToObtainFunctionContext, DrainSignals, ReceiveSignal, ForbidOtel, AwaitInFlightSends,
        AwaitTimesOut, PermitOtel, GraceElapses, FinishShutdown, Quiet, inputs, processing,
        flags, sends
  <2>2. CASE \E t \in timers : TimerFires(t)
    BY <1>4, <2>2 DEF ServiceStep, platformVars, TimerFires, Quiet, inputs, processing, flags, sends
  <2>3. CASE SendEnds
    BY <1>4, <2>3 DEF ServiceStep, platformVars, SendEnds, Quiet, inputs, processing, flags, sends
  <2> QED
    BY <1>4, <2>1, <2>2, <2>3 DEF ServiceStep, Moving
<1>5. CASE AdvanceClock
  BY <1>5 DEF AdvanceClock, Tick, platformVars, Quiet, inputs, processing, flags, sends
<1>6. CASE UNCHANGED vars
  BY <1>6 DEF vars, serviceVars, platformVars, Quiet, inputs, processing, flags, sends
<1> QED
  BY <1>2, <1>3, <1>4, <1>5, <1>6 DEF InstanceNext, Recording, Terminated

\* What the loops rely on stays true.
LEMMA LoopShapeStep ==
  ASSUME TypeInv, PlatformInv, LoopShape, [InstanceNext]_vars
  PROVE  LoopShape'
<1> USE DEF TypeInv
<1>1. CASE Recording
  BY <1>1, RecordingGrows
  DEF LoopShape, serviceVars, loop, initFlags, handler, flags, Recording, InitRestarts, InitEnds,
      InvokeFunction, WriteLog, FunctionEnds, InvocationEnds
<1>2. CASE DeliverTelemetry
  <2>1. PICK n, lost, age : Delivers(n, lost, age)
    BY <1>2, TelemetryDelivered
  <2> QED
    BY <2>1 DEF Delivers, HandleIncomingTelemetry, LoopShape, MutexFree, EnterLoop, initFlags,
                handler, flags
<1>3. CASE DeliverInvoke \/ DeliverShutdown
  BY <1>3 DEF DeliverInvoke, DeliverShutdown, StartInvoke, StartShutdown, LoopShape, loop,
              initFlags, flags, platformVars
<1>4. CASE ExportSpan \/ ExportMetric
  <2>1. PICK s, m : HandleOtlpSpans(<<s>>) \/ HandleOtlpMetrics(m)
    BY <1>4 DEF ExportSpan, ExportMetric
  <2> QED
    BY <1>4, <2>1 DEF ExportSpan, ExportMetric, HandleOtlpSpans, HandleOtlpMetrics, LoopShape, loop,
                      initFlags, handler, flags
<1>5. CASE AdvanceClock \/ Terminated \/ UNCHANGED vars
  BY <1>5 DEF AdvanceClock, Terminated, vars, serviceVars, Tick, platformVars, LoopShape, loop,
              initFlags, handler, flags
<1>6. CASE ServiceStep
  <2>1. UNCHANGED platformVars
    BY <1>6 DEF ServiceStep
  <2>2. CASE HandlerStep
    BY <2>1, <2>2
    DEF platformVars, HandlerStep, ObtainFunctionContext,
        FailToObtainFunctionContext, DrainSignals, ReceiveSignal, ForbidOtel, AwaitInFlightSends,
        AwaitTimesOut, PermitOtel, GraceElapses, FinishShutdown, EnqueueInvokeEvent,
        CheckShouldSend, FlushEnqueuedTelemetry, SendFlushed, LeaveLoop, EnterLoop, MutexFree,
        LoopShape, loop, initFlags, flags
  <2>3. CASE (\E t \in timers : TimerFires(t)) \/ SendEnds
    BY <2>1, <2>3 DEF platformVars, TimerFires, SendEnds, LoopShape, loop, initFlags, handler, flags
  <2>4. CASE ProcessingStep
    <3>1. CASE TakeInvokeEvent \/ ProcessEvent
      BY <2>1, <3>1 DEF platformVars, TakeInvokeEvent, ProcessEvent, LoopShape, loop, initFlags,
                        handler, flags
    <3>2. CASE RejectInvokeEvent \/ RejectEvent \/ FinishProcessing
      BY <2>1, <3>2 DEF platformVars, RejectInvokeEvent, RejectEvent, FinishProcessing, HasNextEvent,
                        AbortLoop, LeaveLoop, LoopShape, initFlags, handler, flags
    <3>3. CASE HandleInitStart
      <4>1. NextEvent \in Event
        BY <3>3, LoopFacts DEF HandleInitStart, HasNextEvent
      <4> QED
        BY <2>1, <3>3, <4>1 DEF platformVars, HandleInitStart, HasNextEvent, LoopShape, loop, initFlags,
                        handler, flags
    <3>4. CASE BufferInitEvent \/ FinishInit
      BY <2>1, <3>4 DEF platformVars, BufferInitEvent, FinishInit, HasNextEvent, LoopShape, loop,
                        initFlags, handler, flags
    <3>5. CASE ReplayInitEvent \/ ReplayEnds
      BY <2>1, <3>5 DEF platformVars, ReplayInitEvent, ReplayEnds, AbortLoop, LeaveLoop, LoopShape,
                        initFlags, handler, flags
    <3>6. CASE DegradeEvent \/ DegradeEnds
      BY <2>1, <3>6 DEF platformVars, DegradeEvent, DegradeEnds, AbortLoop, LeaveLoop, LoopShape,
                        initFlags, handler, flags
    <3> QED
      BY <2>4, <3>1, <3>2, <3>3, <3>4, <3>5, <3>6 DEF ProcessingStep
  <2> QED
    BY <1>6, <2>2, <2>3, <2>4 DEF ServiceStep
<1> QED
  BY <1>1, <1>2, <1>3, <1>4, <1>5, <1>6 DEF InstanceNext, Recording

-----------------------------------------------------------------------------
(* The stream keeps its order.                                             *)

\* Events of the kinds in K, of a request, are added to the stream.
Adds(K, req) ==
  /\ Len(stream) \in Nat /\ Len(stream') \in Nat /\ Len(stream) <= Len(stream')
  /\ \A i \in 1..Len(stream) : i \in 1..Len(stream') /\ stream'[i] = stream[i]
  /\ \A i \in 1..Len(stream') :
       i \notin 1..Len(stream) =>
         /\ i > Len(stream)
         /\ stream'[i].kind \in K /\ stream'[i].req = req
         /\ CorruptEvents = {} => stream'[i].ok

\* Events that are recorded are of the given kinds, and nothing else changes.
LEMMA GrowsAdds ==
  ASSUME PlatformInv, NEW kinds \in Seq(EventKinds), NEW req, Grows(kinds, req),
         NEW K, \A i \in 1..Len(kinds) : kinds[i] \in K
  PROVE  Adds(K, req)
<1>1. /\ stream \in Seq(Event) /\ stream' \in Seq(Event)
      /\ Len(stream) \in Nat /\ Len(stream') \in Nat /\ Len(kinds) \in Nat
      /\ Len(stream') = Len(stream) + Len(kinds)
      /\ \A i \in 1..Len(stream) : stream'[i] = stream[i]
      /\ \A i \in 1..Len(kinds) :
           /\ stream'[Len(stream) + i].kind = kinds[i]
           /\ stream'[Len(stream) + i].req = req
           /\ CorruptEvents = {} => stream'[Len(stream) + i].ok
  BY DEF PlatformInv, Grows
<1>2. ASSUME NEW i \in 1..Len(stream'), i \notin 1..Len(stream)
      PROVE  /\ i > Len(stream)
             /\ stream'[i].kind \in K /\ stream'[i].req = req
             /\ CorruptEvents = {} => stream'[i].ok
  <2> DEFINE k == i - Len(stream)
  <2>1. k \in 1..Len(kinds) /\ i = Len(stream) + k /\ i > Len(stream)
    BY <1>1, <1>2
  <2> HIDE DEF k
  <2> QED
    BY <1>1, <2>1
<1> QED
  BY <1>1, <1>2 DEF Adds

\* What each action of the environment records.
LEMMA RecordingAdds ==
  ASSUME PlatformInv, Recording
  PROVE  /\ InitRestarts => Adds({"PlatformInitStart"}, NoRequest)
         /\ InitEnds => Adds({"PlatformInitRuntimeDone", "PlatformInitReport"}, NoRequest)
         /\ InvokeFunction => current + 1 \in Requests /\ Adds({"PlatformStart"}, current + 1)
         /\ WriteLog =>
              Adds({"Function", "EpsagonTrace"}, IF phase = "init" THEN NoRequest ELSE current)
         /\ FunctionEnds => Adds({"PlatformRuntimeDone"}, current)
         /\ InvocationEnds => Adds({"PlatformReport"}, current)
<1>1. ASSUME NEW k \in EventKinds, NEW req, Grows(<<k>>, req) PROVE Adds({k}, req)
  <2>1. <<k>> \in Seq(EventKinds) /\ \A i \in 1..Len(<<k>>) : <<k>>[i] \in {k}
    OBVIOUS
  <2> QED
    BY <1>1, <2>1, GrowsAdds
<1>2. {"Function", "EpsagonTrace", "PlatformInitStart", "PlatformStart", "PlatformRuntimeDone",
       "PlatformReport", "PlatformInitRuntimeDone", "PlatformInitReport"} \subseteq EventKinds
  BY DEF EventKinds
<1>3. InitRestarts => Adds({"PlatformInitStart"}, NoRequest)
  BY <1>1, <1>2, RecordingGrows
<1>4. InitEnds => Adds({"PlatformInitRuntimeDone", "PlatformInitReport"}, NoRequest)
  <2> DEFINE ks == <<"PlatformInitRuntimeDone", "PlatformInitReport">>
  <2>1. ks \in Seq(EventKinds)
        /\ \A i \in 1..Len(ks) : ks[i] \in {"PlatformInitRuntimeDone", "PlatformInitReport"}
    BY <1>2
  <2>2. InitEnds => Grows(ks, NoRequest)
    BY RecordingGrows
  <2> HIDE DEF ks
  <2> QED
    BY <2>1, <2>2, GrowsAdds
<1>5. InvokeFunction => current + 1 \in Requests /\ Adds({"PlatformStart"}, current + 1)
  BY <1>1, <1>2, RecordingGrows
<1>6. WriteLog => Adds({"Function", "EpsagonTrace"}, IF phase = "init" THEN NoRequest ELSE current)
  <2> SUFFICES ASSUME WriteLog
               PROVE  Adds({"Function", "EpsagonTrace"}, IF phase = "init" THEN NoRequest ELSE current)
    OBVIOUS
  <2> DEFINE writer == IF phase = "init" THEN NoRequest ELSE current
  <2>1. PICK k \in {"Function", "EpsagonTrace"} : Grows(<<k>>, writer)
    BY RecordingGrows
  <2> HIDE DEF writer
  <2>2. Adds({k}, writer)
    BY <1>1, <1>2, <2>1
  <2> QED
    BY <2>2 DEF Adds, writer
<1>7. FunctionEnds => Adds({"PlatformRuntimeDone"}, current)
  BY <1>1, <1>2, RecordingGrows
<1>8. InvocationEnds => Adds({"PlatformReport"}, current)
  BY <1>1, <1>2, RecordingGrows
<1> QED
  BY <1>3, <1>4, <1>5, <1>6, <1>7, <1>8

\* The stream begins with leftovers and the start of an init.
LEMMA StreamInit == ASSUME InstanceInit PROVE StreamInv
<1>1. /\ Len(stream) \in Nat \ {0}
      /\ \A i \in 1..Len(stream) : stream[i].req = NoRequest /\ (CorruptEvents = {} => stream[i].ok)
      /\ stream[Len(stream)].kind = "PlatformInitStart"
      /\ phase = "init"
  BY FirstStream DEF InstanceInit
<1>2. NoRequest \notin Requests
  BY ProcessorAssumption
<1>3. ASSUME NEW i \in 1..Len(stream), stream[i].kind = "PlatformReport"
      PROVE  \E j \in (i + 1)..Len(stream) : stream[j].kind = "PlatformInitStart"
  <2>1. i # Len(stream)
    BY <1>1, <1>3
  <2>2. Len(stream) \in (i + 1)..Len(stream)
    BY <1>1, <2>1
  <2> QED
    BY <1>1, <2>2
<1> QED
  BY <1>1, <1>2, <1>3 DEF StreamInv

\* Each step keeps what is known of the stream.
LEMMA StreamStep ==
  ASSUME TypeOK, PlatformInv, StreamInv, [InstanceNext]_vars
  PROVE  StreamInv'
<1>1. CASE Recording
  <2>1. PICK K, r : Adds(K, r)
    BY <1>1, RecordingAdds DEF Recording
  <2>2. NoRequest \notin Requests /\ phase \in Phases
    BY ProcessorAssumption DEF PlatformInv
  <2>3. (\E i \in 1..Len(stream') : stream'[i].kind = "PlatformInitStart" /\ i \notin 1..Len(stream))
          => \A j \in 1..Len(stream') : stream'[j].req \notin Requests
    <3>1. InitRestarts => \A j \in 1..Len(stream') : stream'[j].req \notin Requests
      <4> SUFFICES ASSUME InitRestarts, NEW j \in 1..Len(stream')
                   PROVE  stream'[j].req \notin Requests
        OBVIOUS
      <4>1. Adds({"PlatformInitStart"}, NoRequest) /\ phase = "init"
        BY <1>1, RecordingAdds DEF InitRestarts
      <4> QED
        BY <2>2, <4>1 DEF Adds, StreamInv
    <3>2. ~InitRestarts =>
            \A i \in 1..Len(stream') :
              i \notin 1..Len(stream) => stream'[i].kind # "PlatformInitStart"
      BY <1>1, RecordingAdds DEF Adds, Recording
    <3> QED
      BY <3>1, <3>2
  <2>4. \A i, j \in 1..Len(stream') :
          stream'[i].kind = "PlatformInitStart" /\ stream'[j].req \in Requests => i < j
    BY <2>1, <2>3 DEF Adds, StreamInv
  <2>5. ASSUME NEW i \in 1..Len(stream'), stream'[i].kind = "PlatformReport"
        PROVE  IF stream'[i].req \in Requests
               THEN \E j \in 1..(i - 1) :
                      stream'[j].kind = "PlatformRuntimeDone" /\ stream'[j].req \in Requests
               ELSE \E j \in (i + 1)..Len(stream') :
                      stream'[j].kind = "PlatformInitStart"
    <3>1. CASE i \in 1..Len(stream)
      <4>1. stream'[i] = stream[i]
        BY <2>1, <3>1 DEF Adds
      <4>2. IF stream[i].req \in Requests
            THEN \E j \in 1..(i - 1) :
                   stream[j].kind = "PlatformRuntimeDone" /\ stream[j].req \in Requests
            ELSE \E j \in (i + 1)..Len(stream) :
                   stream[j].kind = "PlatformInitStart"
        BY <2>5, <3>1, <4>1 DEF StreamInv
      <4>3. \A j \in 1..Len(stream) : stream'[j] = stream[j]
        BY <2>1 DEF Adds
      <4>4. Len(stream) \in Nat /\ Len(stream') \in Nat /\ Len(stream) <= Len(stream')
        BY <2>1 DEF Adds
      <4> QED
        BY <3>1, <4>1, <4>2, <4>3, <4>4
    <3>2. CASE i \notin 1..Len(stream)
      <4>1. InvocationEnds /\ Adds({"PlatformReport"}, current)
        BY <1>1, <2>5, <3>2, RecordingAdds DEF Adds, Recording
      <4>2. phase = "over" /\ current \in Requests
        BY <4>1 DEF InvocationEnds, PlatformInv
      <4>3. PICK j \in 1..Len(stream) :
              stream[j].kind = "PlatformRuntimeDone" /\ stream[j].req \in Requests
        BY <4>2 DEF StreamInv
      <4>4. stream'[j] = stream[j] /\ j \in 1..(i - 1) /\ stream'[i].req = current
        BY <3>2, <4>1 DEF Adds
      <4> QED
        BY <4>2, <4>3, <4>4
    <3> QED
      BY <3>1, <3>2
  <2>6. ASSUME phase' = "init", NEW i \in 1..Len(stream') PROVE stream'[i].req = NoRequest
    <3>1. /\ phase = "init"
          /\ \E L : Adds(L, NoRequest)
      BY <1>1, <2>2, <2>6, RecordingAdds
      DEF Recording, InitRestarts, InitEnds, InvokeFunction, WriteLog, FunctionEnds,
          InvocationEnds, Phases
    <3> QED
      BY <3>1 DEF Adds, StreamInv
  <2>7. ASSUME phase' = "over"
        PROVE  \E j \in 1..Len(stream') :
                 stream'[j].kind = "PlatformRuntimeDone" /\ stream'[j].req \in Requests
    <3>1. CASE FunctionEnds
      <4>1. current \in Requests /\ Grows(<<"PlatformRuntimeDone">>, current)
        BY <1>1, <3>1, RecordingGrows DEF FunctionEnds, PlatformInv
      <4>2. /\ Len(stream) \in Nat
            /\ Len(stream') = Len(stream) + Len(<<"PlatformRuntimeDone">>)
            /\ \A i \in 1..Len(<<"PlatformRuntimeDone">>) :
                 /\ stream'[Len(stream) + i].kind = <<"PlatformRuntimeDone">>[i]
                 /\ stream'[Len(stream) + i].req = current
        BY <4>1 DEF Grows, PlatformInv
      <4>3. /\ Len(stream') = Len(stream) + 1
            /\ stream'[Len(stream) + 1].kind = "PlatformRuntimeDone"
            /\ stream'[Len(stream) + 1].req = current
        BY <4>2
      <4> QED
        BY <4>1, <4>2, <4>3
    <3>2. CASE ~FunctionEnds
      <4>1. phase = "over"
        BY <1>1, <2>7, <3>2
        DEF Recording, InitRestarts, InitEnds, InvokeFunction, WriteLog, InvocationEnds
      <4> QED
        BY <2>1, <4>1 DEF Adds, StreamInv
    <3> QED
      BY <3>1, <3>2
  <2>8. ASSUME CorruptEvents = {}, NEW i \in 1..Len(stream') PROVE stream'[i].ok
    BY <2>1, <2>8 DEF Adds, StreamInv
  <2> QED
    BY <2>4, <2>5, <2>6, <2>7, <2>8 DEF StreamInv
<1>2. CASE ~Recording
  <2>1. stream' = stream /\ (phase' = phase \/ phase' = "stopped")
    BY <1>2 DEF InstanceNext, Recording, DeliverInvoke, DeliverShutdown, DeliverTelemetry, ExportSpan,
                ExportMetric, ServiceStep, AdvanceClock, Terminated, vars, platformVars
  <2> QED
    BY <2>1 DEF StreamInv
<1> QED
  BY <1>1, <1>2

-----------------------------------------------------------------------------
(* Events stay in line.                                                    *)

\* The first event, and the others, of a sequence of events.
LEMMA SequenceFacts ==
  ASSUME TypeOK
  PROVE  /\ pending_events \in Seq(Event) /\ half_processed_event_buffer \in Seq(Event)
         /\ telemetry_event_queue \in Seq(Event)
  BY DEF TypeOK, LoopTypes, InputTypes

\* Taking events away, or recording more of them, disturbs nobody's place.
LEMMA FewerInLine ==
  ASSUME InLine,
         Ordered(pending_events'), ToSet(pending_events') \subseteq ToSet(pending_events),
         Held' \subseteq Held,
         half_processed_event_buffer' = half_processed_event_buffer,
         Ordered(telemetry_event_queue'),
         ToSet(telemetry_event_queue') \subseteq ToSet(telemetry_event_queue),
         delivered' = delivered, \A i \in 1..delivered : stream'[i] = stream[i]
  PROVE  InLine'
<1>1. Waiting' \subseteq Waiting
  BY DEF Waiting
<1>2. Ordered(half_processed_event_buffer)'
  BY DEF InLine
<1>3. /\ Before(ToSet(pending_events) \cup Held \cup ToSet(half_processed_event_buffer),
                ToSet(telemetry_event_queue))'
      /\ Before(ToSet(pending_events), Held)'
  BY DEF InLine, Before
<1>4. \A x \in Waiting' : x.id \in 1..delivered' /\ stream'[x.id] = x
  BY <1>1 DEF InLine
<1> QED
  BY <1>2, <1>3, <1>4 DEF InLine

\* What is left of a sequence of events when some of its first are taken.
LEMMA FewerEvents ==
  ASSUME NEW xs \in Seq(Event), Ordered(xs), NEW ys,
         ys \in {xs, <<>>} \/ (xs # <<>> /\ ys = Tail(xs))
  PROVE  Ordered(ys) /\ ToSet(ys) \subseteq ToSet(xs)
<1>1. CASE ys = <<>>
  BY <1>1 DEF Ordered, ToSet
<1>2. CASE xs # <<>> /\ ys = Tail(xs)
  BY <1>2, OrderTail, ElementsTail
<1> QED
  BY <1>1, <1>2

\* The steps that only take events from the front of the queue or of the inner loop.
LEMMA TakingInLine ==
  ASSUME TypeOK, InLine,
         pending_events' \in {pending_events, <<>>}
           \/ (pending_events # <<>> /\ pending_events' = Tail(pending_events)),
         telemetry_event_queue' = telemetry_event_queue
           \/ (telemetry_event_queue # <<>> /\ telemetry_event_queue' = Tail(telemetry_event_queue)),
         section' # "degrade" \/ (section' = section /\ held_event' = held_event),
         half_processed_event_buffer' = half_processed_event_buffer,
         delivered' = delivered, stream' = stream
  PROVE  InLine'
<1>1. Ordered(pending_events') /\ ToSet(pending_events') \subseteq ToSet(pending_events)
  BY SequenceFacts, FewerEvents DEF InLine
<1>2. Ordered(telemetry_event_queue') /\ ToSet(telemetry_event_queue') \subseteq ToSet(telemetry_event_queue)
  BY SequenceFacts, FewerEvents DEF InLine
<1>3. Held' \subseteq Held
  BY DEF Held
<1> QED
  BY <1>1, <1>2, <1>3, FewerInLine

\* The next events are delivered in the order in which they were recorded.
LEMMA BatchInLine ==
  ASSUME PlatformInv, NEW n \in Nat, delivered + n <= Len(stream), NEW S
  PROVE  LET kept == FilterSeq(Batch(n), S)
         IN  /\ kept \in Seq(Event) /\ Ordered(kept)
             /\ \A x \in ToSet(kept) : x.id \in (delivered + 1)..(delivered + n) /\ stream[x.id] = x
<1>1. /\ stream \in Seq(Event) /\ delivered \in Nat /\ Len(stream) \in Nat
      /\ \A i \in 1..Len(stream) : stream[i].id = i
  BY DEF PlatformInv
<1>2. /\ Batch(n) \in Seq(Event) /\ Len(Batch(n)) = n
      /\ \A i \in 1..n : Batch(n)[i] = stream[delivered + i]
  BY BatchType
<1>3. \A i \in 1..n : Batch(n)[i].id = delivered + i
  <2>1. \A i \in 1..n : delivered + i \in 1..Len(stream)
    BY <1>1
  <2> QED
    BY <1>1, <1>2, <2>1
<1>4. Ordered(Batch(n))
  BY <1>1, <1>2, <1>3 DEF Ordered
<1>5. ToSet(Batch(n)) = {Batch(n)[i] : i \in 1..n}
  BY <1>2, Elements
<1>6. \A x \in ToSet(Batch(n)) : x.id \in (delivered + 1)..(delivered + n) /\ stream[x.id] = x
  <2> SUFFICES ASSUME NEW i \in 1..n
               PROVE  /\ Batch(n)[i].id \in (delivered + 1)..(delivered + n)
                      /\ stream[Batch(n)[i].id] = Batch(n)[i]
    BY <1>5
  <2> QED
    BY <1>1, <1>2, <1>3
<1> QED
  BY <1>2, <1>4, <1>6, FilterType, FilterOrdered, FilterElements

\* A delivery keeps the events in line.
LEMMA DeliveryInLine ==
  ASSUME TypeOK, PlatformInv, LoopShape, InLine, DeliverTelemetry
  PROVE  InLine'
<1>1. PICK n \in 1..(Len(stream) - delivered), lost \in SUBSET {e \in Event : e.kind \in LossyKinds},
            age \in 0..(now + ReportingDelay) : Delivers(n, lost, age)
  BY TelemetryDelivered
<1>2. delivered \in Nat /\ Len(stream) \in Nat /\ n \in Nat /\ delivered + n <= Len(stream)
  BY DEF PlatformInv
<1> DEFINE kept == Kept(n, lost)
<1>3. /\ kept \in Seq(Event) /\ Ordered(kept)
      /\ \A x \in ToSet(kept) : x.id \in (delivered + 1)..(delivered + n) /\ stream[x.id] = x
  BY <1>2, BatchInLine DEF Kept
<1>4. /\ telemetry_event_queue' = telemetry_event_queue \o kept
      /\ pending_events' = pending_events /\ Held' = {} /\ Held = {}
      /\ half_processed_event_buffer' = half_processed_event_buffer
      /\ delivered' = delivered + n /\ stream' = stream
  BY <1>1 DEF Delivers, HandleIncomingTelemetry, EnqueueEvents, MutexFree, EnterLoop, Held
<1> HIDE DEF kept
<1>5. \A x \in Waiting : x.id \in 1..delivered /\ stream[x.id] = x
  BY DEF InLine
<1>6. Before(Waiting, ToSet(kept))
  BY <1>2, <1>3, <1>5 DEF Before
<1>7. telemetry_event_queue \in Seq(Event) /\ ToSet(telemetry_event_queue) \subseteq Waiting
  BY SequenceFacts DEF Waiting
<1>8. ToSet(telemetry_event_queue') = ToSet(telemetry_event_queue) \cup ToSet(kept)
  BY <1>3, <1>4, <1>7, ElementsConcat
<1>9. Ordered(telemetry_event_queue')
  <2>1. Before(ToSet(telemetry_event_queue), ToSet(kept))
    BY <1>6, <1>7 DEF Before
  <2> QED
    BY <1>3, <1>4, <1>7, <2>1, OrderConcat DEF InLine
<1>10. Before(ToSet(pending_events) \cup Held \cup ToSet(half_processed_event_buffer),
              ToSet(telemetry_event_queue))'
  BY <1>4, <1>6, <1>8 DEF InLine, Before, Waiting
<1>11. Waiting' \subseteq Waiting \cup ToSet(kept)
  BY <1>4, <1>8 DEF Waiting
<1>12. \A x \in Waiting' : x.id \in 1..delivered' /\ stream'[x.id] = x
  BY <1>2, <1>3, <1>4, <1>5, <1>11
<1> QED
  BY <1>4, <1>9, <1>10, <1>12 DEF InLine, Before

\* The steps of process_telemetry_events that move events.
LEMMA MovingInLine ==
  ASSUME TypeOK, LoopShape, InLine, UNCHANGED platformVars,
         \/ HandleInitStart \/ BufferInitEvent \/ FinishInit \/ DegradeEnds \/ FlushEnqueuedTelemetry
  PROVE  InLine'
<1> DEFINE P == ToSet(pending_events)
           B == ToSet(half_processed_event_buffer)
           Q == ToSet(telemetry_event_queue)
           e == NextEvent
           tail == Tail(telemetry_event_queue)
<1>1. /\ Ordered(pending_events) /\ Ordered(half_processed_event_buffer)
      /\ Ordered(telemetry_event_queue)
      /\ Before(P \cup Held \cup B, Q) /\ Before(P, Held)
      /\ \A x \in P \cup Held \cup B \cup Q : x.id \in 1..delivered /\ stream[x.id] = x
  BY DEF InLine, Waiting
<1>2. telemetry_event_queue # <<>> =>
        /\ e \in Event /\ Q = {e} \cup ToSet(tail) /\ Ordered(tail) /\ Before({e}, ToSet(tail))
  BY <1>1, SequenceFacts, LoopFacts, ElementsTail, OrderTail DEF NextEvent
<1>3. delivered' = delivered /\ stream' = stream
  BY DEF platformVars
<1>4. Ordered(<<>>) /\ ToSet(<<>>) = {}
  BY DEF Ordered, ToSet
<1>5. CASE HandleInitStart
  <2>1. /\ telemetry_event_queue # <<>> /\ telemetry_event_queue' = tail /\ section = "events"
        /\ pending_events = <<>>
    BY <1>5 DEF HandleInitStart, HasNextEvent, LoopShape
  <2>2. CASE half_processed_event_buffer = <<>>
    <3>1. half_processed_event_buffer' = <<e>> /\ pending_events' = <<>> /\ Held' = {}
      BY <1>5, <2>1, <2>2 DEF HandleInitStart, loop, Held
    <3>2. Ordered(<<e>>) /\ ToSet(<<e>>) = {e}
      BY <1>2, <2>1, OrderOne
    <3> HIDE DEF e, tail
    <3> QED
      BY <1>1, <1>2, <1>3, <1>4, <2>1, <3>1, <3>2 DEF InLine, Waiting, Before
  <2>3. CASE half_processed_event_buffer # <<>>
    <3>1. /\ half_processed_event_buffer' = <<>> /\ Held' = {e}
          /\ pending_events' = half_processed_event_buffer
      BY <1>5, <2>1, <2>3 DEF HandleInitStart, loop, Held
    <3>2. /\ ToSet(pending_events') = B /\ Ordered(pending_events')
          /\ ToSet(half_processed_event_buffer') = {} /\ Ordered(half_processed_event_buffer')
          /\ ToSet(telemetry_event_queue') = ToSet(tail) /\ Ordered(telemetry_event_queue')
      BY <1>1, <1>2, <1>4, <2>1, <3>1
    <3> HIDE DEF e, tail, B, Q, P
    <3>3. Before(B \cup {e} \cup {}, ToSet(tail)) /\ Before(B, {e})
      BY <1>1, <1>2, <2>1 DEF Before
    <3>4. \A x \in B \cup {e} \cup {} \cup ToSet(tail) : x.id \in 1..delivered /\ stream[x.id] = x
      BY <1>1, <1>2, <2>1
    <3> QED
      BY <1>3, <3>1, <3>2, <3>3, <3>4 DEF InLine, Waiting
  <2> QED
    BY <2>2, <2>3
<1>6. CASE BufferInitEvent
  <2>1. /\ telemetry_event_queue # <<>> /\ telemetry_event_queue' = tail /\ section = "events"
        /\ half_processed_event_buffer' = Append(half_processed_event_buffer, e)
        /\ pending_events' = pending_events /\ pending_events = <<>> /\ Held' = {}
    BY <1>6 DEF BufferInitEvent, HasNextEvent, LoopShape, loop, Held
  <2>2. ToSet(half_processed_event_buffer') = B \cup {e}
    BY <1>2, <2>1, SequenceFacts, ElementsAppend
  <2>3. Ordered(half_processed_event_buffer')
    <3> DEFINE half == half_processed_event_buffer
               one == <<e>>
    <3>1. half \in Seq(Event) /\ one \in Seq(Event) /\ ToSet(one) = {e} /\ Ordered(one) /\ Ordered(half)
      BY <1>1, <1>2, <2>1, SequenceFacts, OrderOne
    <3>2. Before(ToSet(half), ToSet(one))
      BY <1>1, <1>2, <2>1, <3>1 DEF Before
    <3>3. half_processed_event_buffer' = half \o one
      BY <1>2, <2>1, SequenceFacts, AppendIsConcat
    <3> HIDE DEF half, one
    <3>4. Ordered(half \o one)
      BY <3>1, <3>2, OrderConcat
    <3> QED
      BY <3>3, <3>4
  <2>4. /\ ToSet(telemetry_event_queue') = ToSet(tail) /\ Ordered(telemetry_event_queue')
        /\ ToSet(pending_events') = {} /\ Ordered(pending_events')
    BY <1>2, <1>4, <2>1
  <2> HIDE DEF e, tail, B, Q, P
  <2>5. Before({} \cup {} \cup (B \cup {e}), ToSet(tail)) /\ Before({}, {})
    BY <1>1, <1>2, <2>1 DEF Before
  <2>6. \A x \in {} \cup {} \cup (B \cup {e}) \cup ToSet(tail) : x.id \in 1..delivered /\ stream[x.id] = x
    BY <1>1, <1>2, <2>1
  <2> QED
    BY <1>3, <2>1, <2>2, <2>3, <2>4, <2>5, <2>6 DEF InLine, Waiting
<1>7. CASE FinishInit
  <2>1. /\ pending_events' = half_processed_event_buffer /\ half_processed_event_buffer' = <<>>
        /\ telemetry_event_queue' = telemetry_event_queue /\ Held' = {}
    BY <1>7 DEF FinishInit, inputs, Held
  <2>2. /\ ToSet(pending_events') = B /\ Ordered(pending_events')
        /\ ToSet(half_processed_event_buffer') = {} /\ Ordered(half_processed_event_buffer')
        /\ ToSet(telemetry_event_queue') = Q /\ Ordered(telemetry_event_queue')
    BY <1>1, <1>4, <2>1
  <2>3. /\ Before(B \cup {} \cup {}, Q) /\ Before(B, {})
        /\ \A x \in B \cup {} \cup {} \cup Q : x.id \in 1..delivered /\ stream[x.id] = x
    BY <1>1 DEF Before
  <2> HIDE DEF B, Q
  <2> QED
    BY <1>3, <2>1, <2>2, <2>3 DEF InLine, Waiting
<1>8. CASE DegradeEnds
  <2>1. /\ pending_events' = pending_events /\ pending_events = <<>>
        /\ half_processed_event_buffer' = <<held_event>> /\ half_processed_event_buffer = <<>>
        /\ telemetry_event_queue' = telemetry_event_queue /\ Held' = {} /\ Held = {held_event}
        /\ held_event \in Event
    BY <1>8 DEF DegradeEnds, inputs, Held, LoopShape
  <2>2. Ordered(<<held_event>>) /\ ToSet(<<held_event>>) = {held_event}
    BY <2>1, OrderOne
  <2>3. /\ ToSet(pending_events') = {} /\ Ordered(pending_events')
        /\ ToSet(half_processed_event_buffer') = {held_event} /\ Ordered(half_processed_event_buffer')
        /\ ToSet(telemetry_event_queue') = Q /\ Ordered(telemetry_event_queue')
    BY <1>1, <1>4, <2>1, <2>2
  <2>4. /\ Before({} \cup {} \cup {held_event}, Q) /\ Before({}, {})
        /\ \A x \in {} \cup {} \cup {held_event} \cup Q : x.id \in 1..delivered /\ stream[x.id] = x
    BY <1>1, <2>1 DEF Before
  <2> HIDE DEF Q
  <2> QED
    BY <1>3, <2>1, <2>3, <2>4 DEF InLine, Waiting
<1>9. CASE FlushEnqueuedTelemetry
  <2>1. /\ pending_events' = telemetry_event_queue /\ telemetry_event_queue' = <<>>
        /\ half_processed_event_buffer' = half_processed_event_buffer /\ Held' = {}
    BY <1>9 DEF FlushEnqueuedTelemetry, Held
  <2>2. /\ ToSet(pending_events') = Q /\ Ordered(pending_events')
        /\ ToSet(half_processed_event_buffer') = B /\ Ordered(half_processed_event_buffer')
        /\ ToSet(telemetry_event_queue') = {} /\ Ordered(telemetry_event_queue')
    BY <1>1, <1>4, <2>1
  <2>3. /\ Before(Q \cup {} \cup B, {}) /\ Before(Q, {})
        /\ \A x \in Q \cup {} \cup B \cup {} : x.id \in 1..delivered /\ stream[x.id] = x
    BY <1>1 DEF Before
  <2> HIDE DEF Q, B
  <2> QED
    BY <1>3, <2>1, <2>2, <2>3 DEF InLine, Waiting
<1> QED
  BY <1>5, <1>6, <1>7, <1>8, <1>9

\* Each step keeps the events in line.
LEMMA InLineStep ==
  ASSUME TypeOK, PlatformInv, LoopShape, InLine, [InstanceNext]_vars
  PROVE  InLine'
<1>1. CASE Quiet
  BY <1>1, TakingInLine DEF Quiet, loop
<1>2. CASE Recording
  <2>1. /\ telemetry_event_queue' = telemetry_event_queue /\ pending_events' = pending_events
        /\ half_processed_event_buffer' = half_processed_event_buffer
        /\ Held' = Held /\ delivered' = delivered
    BY <1>2, RecordingGrows DEF serviceVars, inputs, loop, Held
  <2>2. \A i \in 1..delivered : stream'[i] = stream[i]
    BY <1>2, RecordingAdds DEF Adds, PlatformInv, Recording
  <2> QED
    BY <2>1, <2>2, FewerInLine DEF InLine
<1>3. CASE DeliverTelemetry
  BY <1>3, DeliveryInLine
<1>4. CASE ExportSpan
  BY <1>4, TakingInLine
  DEF ExportSpan, HandleOtlpSpans, loop
<1>5. CASE Moving /\ UNCHANGED platformVars
  <2>1. delivered' = delivered /\ stream' = stream
    BY <1>5 DEF platformVars
  <2>2. CASE HandleInitStart \/ BufferInitEvent \/ FinishInit \/ DegradeEnds \/ FlushEnqueuedTelemetry
    BY <1>5, <2>2, MovingInLine
  <2>3. CASE TakeInvokeEvent \/ ProcessEvent
    BY <2>1, <2>3, TakingInLine DEF TakeInvokeEvent, ProcessEvent, HasNextEvent, loop
  <2>4. CASE RejectInvokeEvent \/ RejectEvent \/ FinishProcessing
    BY <2>1, <2>4, TakingInLine
    DEF RejectInvokeEvent, RejectEvent, FinishProcessing, HasNextEvent, AbortLoop, LeaveLoop, inputs
  <2>5. CASE ReplayInitEvent \/ ReplayEnds
    BY <2>1, <2>5, TakingInLine DEF ReplayInitEvent, ReplayEnds, AbortLoop, LeaveLoop, inputs
  <2>6. CASE DegradeEvent
    BY <2>1, <2>6, TakingInLine DEF DegradeEvent, AbortLoop, LeaveLoop, inputs
  <2>7. CASE EnqueueInvokeEvent \/ CheckShouldSend
    BY <2>1, <2>7, TakingInLine DEF EnqueueInvokeEvent, CheckShouldSend, EnterLoop, inputs, loop
  <2>8. CASE SendFlushed
    BY <2>1, <2>8, TakingInLine DEF SendFlushed, LeaveLoop, inputs
  <2> QED
    BY <1>5, <2>2, <2>3, <2>4, <2>5, <2>6, <2>7, <2>8 DEF Moving, ProcessingStep
<1> QED
  BY <1>1, <1>2, <1>3, <1>4, <1>5, StepsOfTheInstance

-----------------------------------------------------------------------------
(* What waits until the init phase ends, and the logs that are held.       *)

\* What the platform must deliver in good order.  A timestamp that cannot be converted is an
\* error that drops what is processed with it.  Without the end of a runtime, or the start of
\* an init, the events set aside during the init may have a report that ends an invocation
\* whose logs are still held.
DeliveryConditions ==
  /\ CorruptEvents = {}
  /\ LossyKinds \cap {"PlatformRuntimeDone", "PlatformInitStart"} = {}

\* The conditions under which the service is a pipe for function logs.  Without structured
\* logging it drops all of them, and what the platform drops never reaches the service.
PipeConditions == LogMode = "Structured" /\ "Function" \notin LossyKinds /\ DeliveryConditions

\* What waits while the init phase is not over.
WaitingForInit == Held \cup ToSet(half_processed_event_buffer) \cup ToSet(telemetry_event_queue)

\* Until the init phase ends no end of a runtime is processed, and what waits from before
\* an init waits only until that init starts.
InitWaits ==
  ~init_handled /\ ~shutdown_flush_started =>
    /\ \A k \in 1..delivered :
         stream[k].kind = "PlatformRuntimeDone" /\ stream[k].req \in Requests
           => stream[k] \in WaitingForInit
    /\ \A k \in 1..delivered :
         stream[k].kind = "PlatformInitStart" =>
           \/ stream[k] \in ToSet(telemetry_event_queue)
           \/ \A x \in WaitingForInit : k <= x.id

\* Each report in xs comes after the end of a runtime.
EndsDelay(xs) ==
  \A i \in 1..Len(xs) : xs[i].kind = "PlatformReport" =>
    \E j \in 1..(i - 1) : xs[j].kind = "PlatformRuntimeDone"

\* When the state of an invocation is dropped, no logs are held in it.
HeldInv ==
  invocation_state # NoInvocation =>
    /\ HoldsOnlyDelayed(invocation_state)
    /\ ~init_handled => invocation_state.logs = <<>>
    /\ invocation_state.delaying_logs => ~Has(invocation_state, "PlatformReport")
    /\ section = "replay" /\ invocation_state.delaying_logs => EndsDelay(pending_events)

\* No event that waits has a timestamp that cannot be converted.
LEMMA WaitingAreOk ==
  ASSUME PlatformInv, StreamInv, InLine, DeliveryConditions
  PROVE  \A x \in Waiting : x.ok
<1>1. \A i \in 1..Len(stream) : stream[i].ok
  BY DEF StreamInv, DeliveryConditions
<1>2. \A x \in Waiting : x.id \in 1..Len(stream) /\ stream[x.id] = x
  BY DEF InLine, PlatformInv
<1> QED
  BY <1>1, <1>2

\* The first event of the queue, or of the inner loop, is one that waits.
LEMMA FirstWaits ==
  ASSUME TypeOK
  PROVE  /\ telemetry_event_queue # <<>> =>
              NextEvent \in Waiting /\ NextEvent \in ToSet(telemetry_event_queue)
         /\ pending_events # <<>> => Head(pending_events) \in Waiting
  BY SequenceFacts, ElementsTail DEF Waiting, NextEvent

\* Nothing that matters to InitWaits is lost on the way to the service.
LEMMA DeliveryInitWaits ==
  ASSUME TypeOK, PlatformInv, InLine, InitWaits, DeliverTelemetry,
         LossyKinds \cap {"PlatformRuntimeDone", "PlatformInitStart"} = {}
  PROVE  InitWaits'
<1>1. PICK n \in 1..(Len(stream) - delivered), lost \in SUBSET {e \in Event : e.kind \in LossyKinds},
            age \in 0..(now + ReportingDelay) : Delivers(n, lost, age)
  BY TelemetryDelivered
<1>2. delivered \in Nat /\ Len(stream) \in Nat /\ n \in Nat /\ delivered + n <= Len(stream)
  BY DEF PlatformInv
<1> DEFINE kept == Kept(n, lost)
           Q == ToSet(telemetry_event_queue)
<1>3. /\ kept \in Seq(Event)
      /\ \A x \in ToSet(kept) : x.id \in (delivered + 1)..(delivered + n)
  BY <1>2, BatchInLine DEF Kept
<1>4. /\ telemetry_event_queue' = telemetry_event_queue \o kept
      /\ Held' = {} /\ Held = {}
      /\ half_processed_event_buffer' = half_processed_event_buffer
      /\ delivered' = delivered + n /\ stream' = stream
      /\ init_handled' = init_handled /\ shutdown_flush_started' = shutdown_flush_started
  BY <1>1 DEF Delivers, HandleIncomingTelemetry, EnqueueEvents, MutexFree, EnterLoop, Held, initFlags,
              flags
<1>5. ToSet(telemetry_event_queue') = Q \cup ToSet(kept)
  BY <1>3, <1>4, SequenceFacts, ElementsConcat
<1>6. ASSUME NEW k \in (delivered + 1)..(delivered + n),
             stream[k].kind \in {"PlatformRuntimeDone", "PlatformInitStart"}
      PROVE  stream[k] \in ToSet(kept)
  <2>1. /\ Batch(n) \in Seq(Event) /\ Len(Batch(n)) = n
        /\ \A i \in 1..n : Batch(n)[i] = stream[delivered + i]
    BY <1>2, BatchType
  <2>2. ToSet(kept) = ToSet(Batch(n)) \cap (ToSet(Batch(n)) \ lost)
    BY <2>1, FilterElements DEF Kept
  <2>3. k - delivered \in 1..n /\ Batch(n)[k - delivered] = stream[k]
    BY <1>2, <2>1
  <2>4. stream[k] \in ToSet(Batch(n))
    BY <2>1, <2>3, Elements
  <2>5. stream[k].kind \notin LossyKinds
    BY <1>6
  <2>6. stream[k] \notin lost
    BY <1>1, <2>5
  <2> QED
    BY <2>2, <2>4, <2>6
<1>7. WaitingForInit' = WaitingForInit \cup ToSet(kept)
  BY <1>4, <1>5 DEF WaitingForInit
<1> HIDE DEF kept, Q
<1> SUFFICES ASSUME ~init_handled, ~shutdown_flush_started PROVE InitWaits'
  BY <1>4 DEF InitWaits
<1>8. ASSUME NEW k \in 1..(delivered + n), stream[k].kind = "PlatformRuntimeDone",
             stream[k].req \in Requests
      PROVE  stream[k] \in WaitingForInit'
  <2>1. CASE k \in 1..delivered
    BY <1>7, <1>8, <2>1 DEF InitWaits
  <2>2. CASE k \notin 1..delivered
    <3>1. k \in (delivered + 1)..(delivered + n)
      BY <1>2, <2>2
    <3> QED
      BY <1>6, <1>7, <1>8, <3>1
  <2> QED
    BY <2>1, <2>2
<1>9. ASSUME NEW k \in 1..(delivered + n), stream[k].kind = "PlatformInitStart"
      PROVE  \/ stream[k] \in ToSet(telemetry_event_queue')
             \/ \A x \in WaitingForInit' : k <= x.id
  <2>1. CASE k \in 1..delivered
    <3>1. CASE stream[k] \in Q
      BY <1>5, <3>1
    <3>2. CASE \A x \in WaitingForInit : k <= x.id
      <4>1. \A x \in ToSet(kept) : k <= x.id
        BY <1>2, <1>3, <2>1
      <4> QED
        BY <1>7, <3>2, <4>1
    <3> QED
      BY <1>9, <2>1, <3>1, <3>2 DEF InitWaits, Q
  <2>2. CASE k \notin 1..delivered
    <3>1. k \in (delivered + 1)..(delivered + n)
      BY <1>2, <2>2
    <3> QED
      BY <1>5, <1>6, <1>9, <3>1
  <2> QED
    BY <2>1, <2>2
<1> QED
  BY <1>4, <1>8, <1>9 DEF InitWaits

\* A PlatformInitStart finds no end of a runtime among what was set aside.
LEMMA InitStartInitWaits ==
  ASSUME TypeOK, PlatformInv, StreamInv, LoopShape, InLine, InitWaits, UNCHANGED platformVars,
         HandleInitStart
  PROVE  InitWaits'
<1> DEFINE e == NextEvent
           Q == ToSet(telemetry_event_queue)
           B == ToSet(half_processed_event_buffer)
           tail == Tail(telemetry_event_queue)
<1>1. /\ ~init_handled /\ init_handled' = init_handled
      /\ shutdown_flush_started' = shutdown_flush_started
      /\ section = "events" /\ Held = {}
      /\ telemetry_event_queue # <<>> /\ telemetry_event_queue' = tail
      /\ e.kind = "PlatformInitStart"
  BY DEF HandleInitStart, HasNextEvent, Held, flags
<1>2. delivered' = delivered /\ stream' = stream
  BY DEF platformVars
<1>3. /\ e \in Event /\ Q = {e} \cup ToSet(tail) /\ Before({e}, ToSet(tail))
      /\ e \in Q
  BY <1>1, SequenceFacts, ElementsTail, OrderTail DEF NextEvent, InLine
<1>4. /\ e.id \in 1..delivered /\ stream[e.id] = e /\ e.id \in 1..Len(stream)
      /\ \A x \in B \cup Q : x.id \in 1..delivered /\ stream[x.id] = x
      /\ \A x \in B, y \in Q : x.id < y.id
  BY <1>3 DEF InLine, Waiting, Before, PlatformInv
<1>5. WaitingForInit = B \cup Q
  BY <1>1 DEF WaitingForInit
<1>6. ToSet(half_processed_event_buffer') \cup Held' = {e}
  <2>1. CASE half_processed_event_buffer = <<>>
    <3>1. half_processed_event_buffer' = <<e>> /\ Held' = {}
      BY <1>1, <2>1 DEF HandleInitStart, loop, Held
    <3> QED
      BY <1>3, <3>1, OrderOne
  <2>2. CASE half_processed_event_buffer # <<>>
    <3>1. half_processed_event_buffer' = <<>> /\ Held' = {e}
      BY <1>1, <2>2 DEF HandleInitStart, loop, Held
    <3> QED
      BY <1>3, <3>1, OrderOne
  <2> QED
    BY <2>1, <2>2
<1>7. WaitingForInit' = Q
  BY <1>1, <1>3, <1>6 DEF WaitingForInit
<1> SUFFICES ASSUME ~shutdown_flush_started PROVE InitWaits'
  BY <1>1 DEF InitWaits
<1> HIDE DEF e, Q, B, tail
<1>8. ASSUME NEW k \in 1..delivered, stream[k].kind = "PlatformRuntimeDone",
             stream[k].req \in Requests
      PROVE  stream[k] \in Q
  <2>1. stream[k] \in B \cup Q
    BY <1>1, <1>5, <1>8 DEF InitWaits
  <2>2. k \in 1..Len(stream) /\ stream[k].id = k /\ k \in Nat
    BY DEF PlatformInv
  <2>3. e.id < k
    BY <1>1, <1>4, <1>8, <2>2 DEF StreamInv
  <2>4. stream[k] \notin B
    <3>1. stream[k] \in B => k < e.id
      BY <1>3, <1>4, <2>2
    <3> QED
      BY <1>4, <2>2, <2>3, <3>1
  <2> QED
    BY <2>1, <2>4
<1>9. ASSUME NEW k \in 1..delivered, stream[k].kind = "PlatformInitStart"
      PROVE  stream[k] \in ToSet(tail) \/ \A x \in Q : k <= x.id
  <2>1. stream[k] \in Q \/ \A x \in Q : k <= x.id
    BY <1>1, <1>5, <1>9 DEF InitWaits, Q
  <2>2. ASSUME stream[k] = e, NEW x \in Q PROVE k <= x.id
    <3>1. k = e.id
      BY <2>2 DEF PlatformInv
    <3>2. x = e \/ e.id < x.id
      BY <1>3 DEF Before
    <3> QED
      BY <1>4, <3>1, <3>2
  <2> QED
    BY <1>3, <2>1, <2>2
<1> QED
  BY <1>1, <1>2, <1>7, <1>8, <1>9 DEF InitWaits

\* The steps that leave all that waits for the init where it is.
LEMMA SameInitWaits ==
  ASSUME InitWaits,
         ~init_handled' => ~init_handled,
         ~shutdown_flush_started' => ~shutdown_flush_started,
         ~init_handled /\ ~init_handled' /\ ~shutdown_flush_started' =>
           /\ WaitingForInit' = WaitingForInit
           /\ \A k \in 1..delivered : stream[k].kind = "PlatformInitStart" =>
                (stream[k] \in ToSet(telemetry_event_queue)
                   => stream[k] \in ToSet(telemetry_event_queue')),
         delivered' = delivered, \A i \in 1..delivered : stream'[i] = stream[i]
  PROVE  InitWaits'
  BY DEF InitWaits

\* Each step keeps the init waiting until it is handled.
LEMMA InitWaitsStep ==
  ASSUME TypeOK, PlatformInv, StreamInv, LoopShape, InLine, InitWaits, \A x \in Waiting : x.ok,
         LossyKinds \cap {"PlatformRuntimeDone", "PlatformInitStart"} = {},
         [InstanceNext]_vars
  PROVE  InitWaits'
<1>1. CASE Quiet
  BY <1>1, SameInitWaits DEF Quiet, loop, initFlags, WaitingForInit, Held
<1>2. CASE Recording
  <2>1. UNCHANGED <<init_handled, shutdown_flush_started, telemetry_event_queue,
                    half_processed_event_buffer, section, held_event, delivered>>
    BY <1>2, RecordingGrows DEF serviceVars, inputs, loop, initFlags, flags
  <2>2. \A i \in 1..delivered : stream'[i] = stream[i]
    BY <1>2, RecordingAdds DEF Adds, PlatformInv, Recording
  <2> QED
    BY <2>1, <2>2, SameInitWaits DEF WaitingForInit, Held
<1>3. CASE DeliverTelemetry
  BY <1>3, DeliveryInitWaits
<1>4. CASE ExportSpan
  BY <1>4, SameInitWaits
  DEF ExportSpan, HandleOtlpSpans, loop, initFlags, flags, WaitingForInit, Held
<1>5. CASE Moving /\ UNCHANGED platformVars
  <2>1. delivered' = delivered /\ stream' = stream
    BY <1>5 DEF platformVars
  <2>2. CASE HandleInitStart
    BY <1>5, <2>2, InitStartInitWaits
  <2>3. CASE BufferInitEvent
    <3> DEFINE Q == ToSet(telemetry_event_queue)
               B == ToSet(half_processed_event_buffer)
    <3>1. /\ telemetry_event_queue # <<>>
          /\ telemetry_event_queue' = Tail(telemetry_event_queue)
          /\ NextEvent.kind # "PlatformInitStart"
          /\ half_processed_event_buffer' = Append(half_processed_event_buffer, NextEvent)
          /\ Held' = Held /\ init_handled' = init_handled
          /\ shutdown_flush_started' = shutdown_flush_started
      BY <2>3 DEF BufferInitEvent, HasNextEvent, loop, initFlags, flags, Held
    <3>2. Q = {NextEvent} \cup ToSet(telemetry_event_queue') /\ NextEvent \in Event
      BY <3>1, SequenceFacts, LoopFacts, ElementsTail DEF NextEvent
    <3>3. ToSet(half_processed_event_buffer') = B \cup {NextEvent}
      BY <3>1, <3>2, SequenceFacts, ElementsAppend
    <3> QED
      BY <2>1, <3>1, <3>2, <3>3, SameInitWaits DEF WaitingForInit
  <2>4. CASE FinishInit \/ ProcessEvent \/ RejectEvent \/ ReplayInitEvent \/ ReplayEnds
    <3>1. init_handled' /\ (shutdown_flush_started' = shutdown_flush_started)
      BY <2>4 DEF FinishInit, ProcessEvent, RejectEvent, ReplayInitEvent, ReplayEnds, initFlags, flags,
                  LoopShape
    <3> QED
      BY <3>1 DEF InitWaits
  <2>5. CASE DegradeEnds
    <3>1. /\ half_processed_event_buffer' = <<held_event>> /\ half_processed_event_buffer = <<>>
          /\ telemetry_event_queue' = telemetry_event_queue /\ Held' = {} /\ Held = {held_event}
          /\ held_event \in Event /\ init_handled' = init_handled
          /\ shutdown_flush_started' = shutdown_flush_started
      BY <2>5 DEF DegradeEnds, inputs, Held, LoopShape, flags
    <3>2. ToSet(half_processed_event_buffer') = {held_event} /\ ToSet(half_processed_event_buffer) = {}
      BY <3>1, OrderOne
    <3> QED
      BY <2>1, <3>1, <3>2, SameInitWaits DEF WaitingForInit
  <2>6. CASE DegradeEvent
    <3>1. Head(pending_events).ok
      BY <2>6, FirstWaits DEF DegradeEvent
    <3> QED
      BY <2>1, <2>6, <3>1, SameInitWaits
      DEF DegradeEvent, inputs, initFlags, flags, Held, WaitingForInit
  <2>7. CASE TakeInvokeEvent \/ RejectInvokeEvent \/ FinishProcessing
    BY <2>1, <2>7, SameInitWaits
    DEF TakeInvokeEvent, RejectInvokeEvent, FinishProcessing, AbortLoop, LeaveLoop, inputs, loop,
        initFlags, flags, Held, WaitingForInit
  <2>8. CASE EnqueueInvokeEvent \/ CheckShouldSend
    BY <2>1, <2>8, SameInitWaits
    DEF EnqueueInvokeEvent, CheckShouldSend, EnterLoop, MutexFree, inputs, loop, initFlags, flags, Held,
        WaitingForInit
  <2>9. CASE FlushEnqueuedTelemetry \/ SendFlushed
    <3>1. shutdown_flush_started'
      BY <2>9 DEF FlushEnqueuedTelemetry, SendFlushed, flags, LoopShape
    <3> QED
      BY <3>1 DEF InitWaits
  <2> QED
    BY <1>5, <2>2, <2>3, <2>4, <2>5, <2>6, <2>7, <2>8, <2>9 DEF Moving, ProcessingStep
<1> QED
  BY <1>1, <1>2, <1>3, <1>4, <1>5, StepsOfTheInstance

\* The events set aside during the init, in the order in which they are replayed.
LEMMA ReplayEndsDelay ==
  ASSUME TypeOK, PlatformInv, StreamInv, LoopShape, InLine, InitWaits, FinishInit
  PROVE  EndsDelay(half_processed_event_buffer)
<1> DEFINE e == NextEvent
           xs == half_processed_event_buffer
           Q == ToSet(telemetry_event_queue)
           B == ToSet(half_processed_event_buffer)
<1>1. /\ ~init_handled /\ ~shutdown_flush_started /\ Held = {}
      /\ telemetry_event_queue # <<>> /\ e.req = invocation_state.req
      /\ invocation_state # NoInvocation
  BY DEF FinishInit, HasNextEvent, Held, LoopShape, EndsInit
<1>2. e.req \in Requests /\ NoRequest \notin Requests
  BY <1>1, ProcessorAssumption DEF TypeOK, ProcessingTypes, InvocationProcessingState
<1>3. /\ e \in Event /\ e \in Q /\ \A x \in Q : e.id <= x.id
  <2>1. /\ e \in Event /\ Q = {e} \cup ToSet(Tail(telemetry_event_queue))
        /\ Before({e}, ToSet(Tail(telemetry_event_queue))) /\ e \in Q
    BY <1>1, SequenceFacts, ElementsTail, OrderTail DEF NextEvent, InLine
  <2>2. \A x \in Q : x.id \in Nat
    BY DEF InLine, Waiting
  <2> QED
    BY <2>1, <2>2 DEF Before
<1>4. /\ \A x \in B \cup Q : x.id \in 1..delivered /\ stream[x.id] = x
      /\ \A x \in B, y \in Q : x.id < y.id
  BY DEF InLine, Waiting, Before
<1>5. WaitingForInit = B \cup Q
  BY <1>1 DEF WaitingForInit
<1>6. /\ xs \in Seq(Event) /\ B = {xs[i] : i \in 1..Len(xs)} /\ Len(xs) \in Nat
      /\ \A i, j \in 1..Len(xs) : i < j => xs[i].id < xs[j].id
  BY SequenceFacts, Elements DEF InLine, Ordered
<1>7. delivered \in 0..Len(stream) /\ Len(stream) \in Nat /\ \A i \in 1..Len(stream) : stream[i].id = i
  BY DEF PlatformInv
<1> SUFFICES ASSUME NEW i \in 1..Len(xs), xs[i].kind = "PlatformReport"
             PROVE  \E j \in 1..(i - 1) : xs[j].kind = "PlatformRuntimeDone"
  BY DEF EndsDelay
<1> DEFINE k == xs[i].id
<1>8. k \in 1..delivered /\ stream[k] = xs[i] /\ k < e.id /\ xs[i] \in B /\ k \in 1..Len(stream)
  BY <1>3, <1>4, <1>6, <1>7
<1>9. e.id \in 1..delivered /\ stream[e.id] = e /\ e.id \in 1..Len(stream)
  BY <1>3, <1>4, <1>7
<1> HIDE DEF e, xs, Q, B, k
<1>10. CASE xs[i].req \in Requests
  <2>1. PICK j \in 1..(k - 1) : stream[j].kind = "PlatformRuntimeDone" /\ stream[j].req \in Requests
    <3>1. IF stream[k].req \in Requests
          THEN \E j \in 1..(k - 1) :
                 stream[j].kind = "PlatformRuntimeDone" /\ stream[j].req \in Requests
          ELSE \E j \in (k + 1)..Len(stream) : stream[j].kind = "PlatformInitStart"
      BY <1>8 DEF StreamInv
    <3> QED
      BY <1>8, <1>10, <3>1
  <2>2. j \in 1..delivered /\ j \in 1..Len(stream) /\ stream[j].id = j /\ j < k
    BY <1>7, <1>8, <2>1
  <2>3. stream[j] \in B \cup Q
    BY <1>1, <1>5, <2>1, <2>2 DEF InitWaits
  <2>4. stream[j] \notin Q
    BY <1>3, <1>8, <1>9, <2>2
  <2>5. PICK m \in 1..Len(xs) : xs[m] = stream[j]
    BY <1>6, <2>3, <2>4
  <2>6. m < i
    <3>1. m # i /\ ~(i < m)
      BY <1>6, <1>8, <2>1, <2>2, <2>5 DEF k
    <3> QED
      BY <3>1
  <2>7. m \in 1..(i - 1) /\ xs[m].kind = "PlatformRuntimeDone"
    BY <2>1, <2>5, <2>6
  <2> QED
    BY <2>7
<1>11. CASE xs[i].req \notin Requests
  <2>1. PICK j \in (k + 1)..Len(stream) : stream[j].kind = "PlatformInitStart"
    <3>1. IF stream[k].req \in Requests
          THEN \E j \in 1..(k - 1) :
                 stream[j].kind = "PlatformRuntimeDone" /\ stream[j].req \in Requests
          ELSE \E j \in (k + 1)..Len(stream) : stream[j].kind = "PlatformInitStart"
      BY <1>8 DEF StreamInv
    <3> QED
      BY <1>8, <1>11, <3>1
  <2>2. j \in 1..Len(stream) /\ j > k /\ j < e.id /\ j \in 1..delivered /\ stream[j].id = j
    <3>1. j \in 1..Len(stream) /\ j > k
      BY <1>7, <1>8, <2>1
    <3>2. j < e.id
      BY <1>2, <1>9, <2>1, <3>1 DEF StreamInv
    <3> QED
      BY <1>7, <1>9, <3>1, <3>2
  <2>3. stream[j] \in Q \/ \A x \in B \cup Q : j <= x.id
    BY <1>1, <1>5, <2>1, <2>2 DEF InitWaits, Q
  <2>4. stream[j] \notin Q
    BY <1>3, <1>9, <2>2
  <2>5. ~(j <= xs[i].id)
    BY <1>8, <2>2 DEF k
  <2> QED
    BY <1>8, <2>3, <2>4, <2>5
<1> QED
  BY <1>10, <1>11

\* Of what is replayed, the rest still has each report after the end of a runtime, or the
\* end of a runtime was just processed.
LEMMA EndsDelayTail ==
  ASSUME NEW xs \in Seq(Event), xs # <<>>, EndsDelay(xs)
  PROVE  /\ Head(xs).kind # "PlatformReport"
         /\ Head(xs).kind # "PlatformRuntimeDone" => EndsDelay(Tail(xs))
<1> DEFINE ys == Tail(xs)
<1>1. /\ Len(ys) = Len(xs) - 1 /\ Len(xs) \in Nat \ {0} /\ Len(ys) \in Nat
      /\ \A i \in 1..Len(ys) : ys[i] = xs[i + 1]
      /\ Head(xs) = xs[1]
  BY HeadTailProperties, EmptySeq
<1> HIDE DEF ys
<1>2. xs[1].kind # "PlatformReport"
  <2>1. 1 \in 1..Len(xs) /\ 1..(1 - 1) = {}
    BY <1>1
  <2> QED
    BY <2>1 DEF EndsDelay
<1>3. ASSUME xs[1].kind # "PlatformRuntimeDone", NEW i \in 1..Len(ys), ys[i].kind = "PlatformReport"
      PROVE  \E j \in 1..(i - 1) : ys[j].kind = "PlatformRuntimeDone"
  <2>1. i + 1 \in 1..Len(xs) /\ xs[i + 1].kind = "PlatformReport"
    BY <1>1, <1>3
  <2>2. PICK j \in 1..((i + 1) - 1) : xs[j].kind = "PlatformRuntimeDone"
    BY <2>1 DEF EndsDelay
  <2>3. j - 1 \in 1..(i - 1) /\ j - 1 \in 1..Len(ys) /\ (j - 1) + 1 = j
    BY <1>1, <1>3, <2>2
  <2>4. ys[j - 1] = xs[j]
    BY <1>1, <2>3
  <2> QED
    BY <2>2, <2>3, <2>4
<1> QED
  BY <1>1, <1>2, <1>3 DEF EndsDelay, ys

\* The spans that wait for an invocation release no logs: it holds none yet.
LEMMA TakeInvokeHolds ==
  ASSUME TypeOK, TakeInvokeEvent
  PROVE  LET p == Processing(NewInvocationState(Head(invoke_event_queue).req), output_buffers,
                             metrics_state)
         IN  /\ p \in ProcessingType /\ p.inv.logs = <<>>
             /\ \E q : /\ SetProcessing(q) /\ Flows(p, q, <<>>) /\ q \in ProcessingType
                       /\ q.inv.logs = <<>> /\ q.inv.data = {}
<1> DEFINE invoke == Head(invoke_event_queue)
           new == NewInvocationState(invoke.req)
           p == Processing(new, output_buffers, metrics_state)
           once == ProcessFunctionSpans(p, function_spans_buffer)
           twice == ProcessFunctionSpans(once, invoke.spans)
<1>1. InputTypes /\ ProcessingTypes
  BY DEF TypeOK
<1>2. invoke \in InvokeEventDataWithSpans
  BY <1>1, HeadTailProperties DEF TakeInvokeEvent, InputTypes
<1>3. invoke.req \in Requests /\ invoke.spans \in Seq(Span) /\ function_spans_buffer \in Seq(Span)
  BY <1>1, <1>2 DEF InvokeEventDataWithSpans, InputTypes
<1>4. new \in InvocationProcessingState /\ new.logs = <<>> /\ new.data = {}
  BY <1>3, NewInvocationStateType DEF NewInvocationState
<1>5. p \in ProcessingType /\ p.inv = new
  BY <1>1, <1>4 DEF Processing, ProcessingType, ProcessingTypes
<1>6. HoldsOnlyDelayed(p.inv)
  BY <1>4, <1>5 DEF HoldsOnlyDelayed
<1>7. SetProcessing(twice)
  BY DEF TakeInvokeEvent
<1> HIDE DEF invoke, new, p
<1>8. /\ Flows(p, once, <<>>) /\ once \in ProcessingType
      /\ once.inv.data = {} /\ once.inv.logs = <<>>
  BY <1>3, <1>4, <1>5, <1>6, FlowsFunctionSpans, ProcessFunctionSpansType
<1> HIDE DEF once
<1>9. HoldsOnlyDelayed(once.inv)
  BY <1>8 DEF HoldsOnlyDelayed
<1>10. /\ Flows(once, twice, <<>>) /\ twice \in ProcessingType
       /\ twice.inv.data = {} /\ twice.inv.logs = <<>>
  BY <1>3, <1>8, <1>9, FlowsFunctionSpans, ProcessFunctionSpansType
<1> HIDE DEF twice
<1>11. Flows(p, twice, <<>>)
  <2>1. <<>> \in Seq(Nat)
    OBVIOUS
  <2> QED
    BY <1>5, <1>8, <1>10, <2>1, FlowsOnNothing
<1> QED
  BY <1>4, <1>5, <1>7, <1>10, <1>11 DEF p, new, invoke

\* An event is processed under the current invocation.
LEMMA ProcessingHolds ==
  ASSUME TypeOK, HeldInv, PipeConditions, invocation_state # NoInvocation, NEW e \in Event
  PROVE  LET q == ProcessTelemetry(ProcessingState, e)
         IN  /\ ProcessingState \in ProcessingType /\ q \in ProcessingType
             /\ Flows(ProcessingState, q, FunctionLogIds(<<e>>))
             /\ RecordsEvent(ProcessingState, q, e)
             /\ Has(q.inv, "PlatformReport") => q.inv.logs = <<>>
<1> DEFINE q == ProcessTelemetry(ProcessingState, e)
<1>1. ProcessingState \in ProcessingType /\ ProcessingState.inv = invocation_state
  BY ProcessingStateType DEF ProcessingState, Processing
<1>2. HoldsOnlyDelayed(ProcessingState.inv)
  BY <1>1 DEF HeldInv
<1>3. /\ q \in ProcessingType /\ Flows(ProcessingState, q, FunctionLogIds(<<e>>))
      /\ RecordsEvent(ProcessingState, q, e)
  BY <1>1, <1>2, ProcessTelemetryType, FlowsTelemetry, TelemetryRecorded DEF PipeConditions
<1> HIDE DEF q
<1>4. ASSUME Has(q.inv, "PlatformReport"), e.kind # "PlatformReport" PROVE q.inv.logs = <<>>
  <2>1. Has(invocation_state, "PlatformReport")
    BY <1>1, <1>3, <1>4, ReportRecorded
  <2>2. ~q.inv.delaying_logs
    BY <1>1, <1>3, <2>1 DEF HeldInv, RecordsEvent, PipeConditions
  <2> QED
    BY <1>3, <2>2 DEF Flows, HoldsOnlyDelayed
<1>5. e.kind = "PlatformReport" => q.inv.logs = <<>>
  BY <1>3 DEF RecordsEvent, PipeConditions
<1> QED
  BY <1>1, <1>3, <1>4, <1>5 DEF q

\* The steps that leave the invocation alone, and do not begin or continue a replay.
LEMMA SameHeld ==
  ASSUME HeldInv, invocation_state' = invocation_state, ~init_handled' => ~init_handled,
         section' # "replay" \/ (section' = section /\ pending_events' = pending_events)
  PROVE  HeldInv'
  BY DEF HeldInv

\* Each step keeps what is known of the logs that are held.
LEMMA HeldStep ==
  ASSUME TypeInv, PlatformInv, StreamInv, LoopShape, InLine, InitWaits, HeldInv, PipeConditions,
         [InstanceNext]_vars
  PROVE  HeldInv'
<1> USE DEF TypeInv
<1>1. CASE Quiet
  BY <1>1, SameHeld DEF Quiet, loop, initFlags
<1>2. CASE Recording
  BY <1>2, RecordingGrows, SameHeld DEF serviceVars, processing, loop, initFlags
<1>3. CASE DeliverTelemetry
  <2>1. PICK n \in 1..(Len(stream) - delivered), lost \in SUBSET {e \in Event : e.kind \in LossyKinds},
            age \in 0..(now + ReportingDelay) : Delivers(n, lost, age)
    BY <1>3, TelemetryDelivered
  <2> QED
    BY <2>1, SameHeld DEF Delivers, HandleIncomingTelemetry, EnterLoop, processing, initFlags
<1>4. CASE ExportSpan
  <2>1. PICK c \in SpanCategories :
          HandleOtlpSpans(<<[category |-> c, req |-> current, id |-> Len(spans_sent) + 1]>>)
    BY <1>4 DEF ExportSpan
  <2> DEFINE spans == <<[category |-> c, req |-> current, id |-> Len(spans_sent) + 1]>>
  <2>2. spans \in Seq(Span)
    <3>1. c \in SpanCategorization /\ current \in Requests /\ Len(spans_sent) + 1 \in Nat
      BY <1>4, InstanceAssumption DEF ExportSpan, PlatformInv
    <3>2. [category |-> c, req |-> current, id |-> Len(spans_sent) + 1] \in Span
      BY <3>1 DEF Span
    <3> QED
      BY <3>2
  <2>3. HandleOtlpSpans(spans)
    BY <2>1
  <2> HIDE DEF spans
  <2>4. section' = section /\ section = "free" /\ init_handled' = init_handled
    BY <2>3 DEF HandleOtlpSpans, MutexFree, loop, initFlags
  <2>5. CASE invocation_state' = invocation_state
    BY <2>4, <2>5, SameHeld
  <2>6. CASE SpansForRunningInvoke(spans)
    <3> DEFINE q == ProcessFunctionSpans(ProcessingState, spans)
    <3>1. invocation_state # NoInvocation /\ SetProcessing(q)
      BY <2>6 DEF SpansForRunningInvoke, InvocationRuns
    <3>2. ProcessingState \in ProcessingType /\ ProcessingState.inv = invocation_state
      BY <3>1, ProcessingStateType DEF ProcessingState, Processing
    <3>3. HoldsOnlyDelayed(ProcessingState.inv)
      BY <3>1, <3>2 DEF HeldInv
    <3>4. /\ Flows(ProcessingState, q, <<>>) /\ q.inv.data = invocation_state.data
          /\ q.inv.delaying_logs => invocation_state.delaying_logs
          /\ invocation_state.logs = <<>> => q.inv.logs = <<>>
      BY <2>2, <3>2, <3>3, FlowsFunctionSpans
    <3>5. invocation_state' = q.inv
      BY <3>1 DEF SetProcessing
    <3> HIDE DEF q
    <3> QED
      BY <2>4, <3>1, <3>4, <3>5 DEF HeldInv, Flows, Has
  <2> QED
    BY <2>3, <2>5, <2>6 DEF HandleOtlpSpans, SpansForQueuedInvoke, SpansForNextInvoke, processing
<1>5. CASE Moving /\ UNCHANGED platformVars
  <2>1. CASE HandleInitStart \/ BufferInitEvent \/ DegradeEnds
    BY <2>1, SameHeld DEF HandleInitStart, BufferInitEvent, DegradeEnds, HasNextEvent, processing, loop,
                          initFlags
  <2>2. CASE FinishInit
    <3>1. /\ pending_events' = half_processed_event_buffer /\ init_handled'
          /\ invocation_state' = invocation_state
      BY <2>2 DEF FinishInit, processing
    <3>2. EndsDelay(pending_events')
      BY <2>2, <3>1, ReplayEndsDelay
    <3> QED
      BY <3>1, <3>2 DEF HeldInv
  <2>3. CASE TakeInvokeEvent
    <3> DEFINE p == Processing(NewInvocationState(Head(invoke_event_queue).req), output_buffers,
                             metrics_state)
    <3>1. PICK q : /\ SetProcessing(q) /\ Flows(p, q, <<>>) /\ q \in ProcessingType
                   /\ q.inv.logs = <<>> /\ q.inv.data = {}
      BY <2>3, TakeInvokeHolds
    <3>2. invocation_state' = q.inv /\ section' = "events"
      BY <2>3, <3>1 DEF SetProcessing, TakeInvokeEvent, loop
    <3> QED
      BY <3>1, <3>2 DEF HeldInv, HoldsOnlyDelayed, Has
  <2>4. CASE ProcessEvent
    <3> DEFINE q == ProcessTelemetry(ProcessingState, NextEvent)
    <3>1. /\ invocation_state # NoInvocation /\ NextEvent \in Event /\ section = "events"
          /\ init_handled /\ init_handled' = init_handled /\ section' = section
          /\ telemetry_event_queue # <<>>
      BY <2>4, LoopFacts DEF ProcessEvent, HasNextEvent, initFlags
    <3>2. Flows(ProcessingState, q, FunctionLogIds(<<NextEvent>>))
      BY <3>1, ProcessingHolds
    <3>3. CASE EndsInvocation(q.inv)
      BY <2>4, <3>3 DEF ProcessEvent, SetProcessing, HeldInv
    <3>4. CASE ~EndsInvocation(q.inv)
      <4>1. invocation_state' = q.inv
        BY <2>4, <3>4 DEF ProcessEvent, SetProcessing
      <4> HIDE DEF q
      <4> QED
        BY <3>1, <3>2, <3>4, <4>1 DEF HeldInv, Flows, EndsInvocation
    <3> QED
      BY <3>3, <3>4
  <2>5. CASE ReplayInitEvent
    <3> DEFINE e == Head(pending_events)
               q == ProcessTelemetry(ProcessingState, e)
    <3>1. /\ e \in Event /\ section = "replay" /\ pending_events # <<>> /\ e.ok
      BY <2>5, LoopFacts, WaitingAreOk, FirstWaits DEF ReplayInitEvent, PipeConditions
    <3>2. /\ invocation_state' = q.inv /\ pending_events' = Tail(pending_events) /\ init_handled'
          /\ section' = section
      BY <2>5, <3>1 DEF ReplayInitEvent, SetProcessing, initFlags, LoopShape
    <3>3. invocation_state # NoInvocation
      BY <3>1 DEF LoopInv
    <3>4. /\ Flows(ProcessingState, q, FunctionLogIds(<<e>>))
          /\ RecordsEvent(ProcessingState, q, e)
          /\ ProcessingState.inv = invocation_state
      BY <3>1, <3>3, ProcessingHolds DEF ProcessingState, Processing
    <3> HIDE DEF q, e
    <3>5. HoldsOnlyDelayed(q.inv)
      BY <3>4 DEF Flows
    <3>6. ASSUME q.inv.delaying_logs
          PROVE  ~Has(q.inv, "PlatformReport") /\ EndsDelay(pending_events')
      <4>1. invocation_state.delaying_logs /\ e.kind # "PlatformRuntimeDone"
        BY <3>4, <3>6 DEF RecordsEvent, PipeConditions
      <4>2. EndsDelay(pending_events) /\ ~Has(invocation_state, "PlatformReport")
        BY <3>1, <3>3, <4>1 DEF HeldInv
      <4>3. e.kind # "PlatformReport" /\ EndsDelay(Tail(pending_events))
        BY <3>1, <4>1, <4>2, SequenceFacts, EndsDelayTail DEF e
      <4> QED
        BY <3>2, <3>4, <4>2, <4>3, ReportRecorded
    <3> QED
      BY <3>2, <3>5, <3>6 DEF HeldInv
  <2>6. CASE RejectInvokeEvent \/ RejectEvent \/ FinishProcessing \/ ReplayEnds
    BY <2>6, SameHeld DEF RejectInvokeEvent, RejectEvent, FinishProcessing, ReplayEnds, AbortLoop,
                          LeaveLoop, processing, initFlags
  <2>7. CASE DegradeEvent
    BY <2>7, SameHeld DEF DegradeEvent, AbortLoop, LeaveLoop, processing, initFlags
  <2>8. CASE EnqueueInvokeEvent \/ CheckShouldSend \/ FlushEnqueuedTelemetry \/ SendFlushed
    BY <2>8, SameHeld DEF EnqueueInvokeEvent, CheckShouldSend, FlushEnqueuedTelemetry, SendFlushed,
                          EnterLoop, LeaveLoop, MutexFree, processing, loop, initFlags
  <2> QED
    BY <1>5, <2>1, <2>2, <2>3, <2>4, <2>5, <2>6, <2>7, <2>8 DEF Moving, ProcessingStep
<1> QED
  BY <1>1, <1>2, <1>3, <1>4, <1>5, StepsOfTheInstance

-----------------------------------------------------------------------------
(* The logs in the pipe, as LogsArePiped maps them.                        *)

ReceivedLogs == FunctionLogIds(SubSeq(stream, 1, delivered))

OpenLogs ==
  FunctionLogIds(HeldLogs) \o FunctionLogIds(pending_events)
    \o FunctionLogIds(half_processed_event_buffer) \o FunctionLogIds(telemetry_event_queue)

WaitingLogs == IF shutdown_flush_started THEN FunctionLogIds(pending_events) ELSE OpenLogs

BatchLogs == FunctionLogIds(output_buffers.logs)

SentLogs == FunctionLogIds(sent.logs)

\* What the steps of the service do to them.
ProcessesLogs ==
  /\ \E logs \in Seq(Nat) : BatchLogs' = BatchLogs \o logs /\ WaitingLogs = logs \o WaitingLogs'
  /\ UNCHANGED <<ReceivedLogs, SentLogs, shutdown_flush_started>>

ReceivesLogs ==
  /\ ~shutdown_flush_started
  /\ \E logs \in Seq(Nat) :
       ReceivedLogs' = ReceivedLogs \o logs /\ WaitingLogs' = WaitingLogs \o logs
  /\ UNCHANGED <<BatchLogs, SentLogs, shutdown_flush_started>>

SendsLogs ==
  /\ SentLogs' = SentLogs \o BatchLogs /\ BatchLogs' = <<>>
  /\ UNCHANGED <<ReceivedLogs, WaitingLogs, shutdown_flush_started>>

ClosesPipe ==
  /\ ~shutdown_flush_started /\ shutdown_flush_started'
  /\ \E logs \in Seq(Nat) : WaitingLogs = logs \o WaitingLogs'
  /\ UNCHANGED <<ReceivedLogs, BatchLogs, SentLogs>>

IgnoresLogs ==
  /\ shutdown_flush_started
  /\ \E logs \in Seq(Nat) : ReceivedLogs' = ReceivedLogs \o logs
  /\ UNCHANGED <<WaitingLogs, BatchLogs, SentLogs, shutdown_flush_started>>

FlowStep == ProcessesLogs \/ ReceivesLogs \/ SendsLogs \/ ClosesPipe \/ IgnoresLogs

\* The ids are numbers, wherever the logs are.
LEMMA LogIdTypes ==
  ASSUME TypeOK, PlatformInv
  PROVE  /\ FunctionLogIds(HeldLogs) \in Seq(Nat)
         /\ FunctionLogIds(pending_events) \in Seq(Nat)
         /\ FunctionLogIds(half_processed_event_buffer) \in Seq(Nat)
         /\ FunctionLogIds(telemetry_event_queue) \in Seq(Nat)
         /\ OpenLogs \in Seq(Nat) /\ WaitingLogs \in Seq(Nat)
         /\ ReceivedLogs \in Seq(Nat) /\ SubSeq(stream, 1, delivered) \in Seq(Event)
         /\ BatchLogs \in Seq(Nat) /\ SentLogs \in Seq(Nat)
<1>1. HeldLogs \in Seq(Event)
  <2>1. <<>> \in Seq(Event)
    OBVIOUS
  <2> QED
    BY <2>1 DEF HeldLogs, TypeOK, ProcessingTypes, InvocationProcessingState
<1>2. output_buffers.logs \in Seq(LogRecord) /\ sent.logs \in Seq(LogRecord)
  BY DEF TypeOK, ProcessingTypes, SendTypes, OutputBuffers
<1>3. SubSeq(stream, 1, delivered) \in Seq(Event)
  <2>1. stream \in Seq(Event) /\ delivered \in 0..Len(stream) /\ Len(stream) \in Nat
    BY DEF PlatformInv
  <2>2. \A i \in 1..delivered : stream[i] \in Event
    BY <2>1
  <2> QED
    BY <2>1, <2>2, SubSeqProperties
<1>4. /\ FunctionLogIds(HeldLogs) \in Seq(Nat)
      /\ FunctionLogIds(pending_events) \in Seq(Nat)
      /\ FunctionLogIds(half_processed_event_buffer) \in Seq(Nat)
      /\ FunctionLogIds(telemetry_event_queue) \in Seq(Nat)
      /\ ReceivedLogs \in Seq(Nat) /\ BatchLogs \in Seq(Nat) /\ SentLogs \in Seq(Nat)
  BY <1>1, <1>2, <1>3, SequenceFacts, LogItems, LogIdsType DEF ReceivedLogs, BatchLogs, SentLogs
<1>5. OpenLogs \in Seq(Nat)
  BY <1>4, ConcatProperties DEF OpenLogs
<1> QED
  BY <1>3, <1>4, <1>5 DEF WaitingLogs

\* A common beginning of two sequences can be left out.
LEMMA CancelIds ==
  ASSUME NEW a \in Seq(Nat), NEW b \in Seq(Nat), NEW c \in Seq(Nat), a \o b = a \o c
  PROVE  b = c
  BY ConcatSimplifications

\* An empty sequence adds nothing.
LEMMA NoIds ==
  ASSUME NEW a \in Seq(Nat)
  PROVE  a \o <<>> = a /\ <<>> \o a = a /\ <<>> \in Seq(Nat)
  BY ConcatEmptySeq

\* What is processed leaves the front of what waits and comes to the end of the batch.
LEMMA FlowsMove ==
  ASSUME NEW p \in ProcessingType, NEW q \in ProcessingType, NEW ids \in Seq(Nat), Flows(p, q, ids)
  PROVE  \E m \in Seq(Nat) :
           /\ FunctionLogIds(q.out.logs) = FunctionLogIds(p.out.logs) \o m
           /\ FunctionLogIds(p.inv.logs) \o ids = m \o FunctionLogIds(q.inv.logs)
<1> DEFINE F(s) == FunctionLogIds(s)
<1>1. PICK more \in Seq(LogRecord) : q.out.logs = p.out.logs \o more
  BY DEF Flows
<1> DEFINE po == F(p.out.logs)
           pi == F(p.inv.logs)
           qi == F(q.inv.logs)
           m == F(more)
<1>2. po \in Seq(Nat) /\ pi \in Seq(Nat) /\ qi \in Seq(Nat) /\ p.out.logs \in Seq(LogItem)
  BY LogsOfType
<1>3. more \in Seq(LogItem) /\ m \in Seq(Nat)
  BY LogItems, LogIdsType
<1>4. F(q.out.logs) = po \o m
  BY <1>1, <1>2, <1>3, LogIdsConcat
<1>5. F(q.out.logs) \o qi = (po \o pi) \o ids
  BY DEF Flows, LogsOf
<1> HIDE DEF po, pi, qi, m, F
<1>6. po \o (m \o qi) = po \o (pi \o ids)
  <2>1. (po \o m) \o qi = po \o (m \o qi)
    BY <1>2, <1>3, IdsAssociate
  <2>2. (po \o pi) \o ids = po \o (pi \o ids)
    BY <1>2, IdsAssociate
  <2> QED
    BY <1>4, <1>5, <2>1, <2>2
<1>7. m \o qi \in Seq(Nat) /\ pi \o ids \in Seq(Nat)
  BY <1>2, <1>3, ConcatProperties
<1>8. m \o qi = pi \o ids
  BY <1>2, <1>6, <1>7, CancelIds
<1> QED
  BY <1>3, <1>4, <1>8 DEF po, pi, qi, F

\* What one event counts for is taken from the front of a sequence.
LEMMA LogIdsHead ==
  ASSUME NEW xs \in Seq(Event), xs # <<>>
  PROVE  /\ Head(xs) \in Event /\ Tail(xs) \in Seq(Event)
         /\ FunctionLogIds(xs) = FunctionLogIds(<<Head(xs)>>) \o FunctionLogIds(Tail(xs))
         /\ FunctionLogIds(<<Head(xs)>>) \in Seq(Nat) /\ FunctionLogIds(Tail(xs)) \in Seq(Nat)
         /\ ~IsFunctionLog(Head(xs)) =>
              /\ FunctionLogIds(<<Head(xs)>>) = <<>>
              /\ FunctionLogIds(xs) = FunctionLogIds(Tail(xs))
<1> DEFINE x == Head(xs)
           ys == Tail(xs)
           one == <<x>>
<1>1. x \in Event /\ ys \in Seq(Event)
  BY HeadTailProperties
<1>2. xs = one \o ys /\ one \in Seq(Event)
  <2>1. /\ Len(ys) = Len(xs) - 1 /\ Len(xs) \in Nat \ {0} /\ Len(ys) \in Nat
        /\ \A i \in 1..Len(ys) : ys[i] = xs[i + 1]
        /\ x = xs[1]
    BY HeadTailProperties, EmptySeq
  <2>2. one \in Seq(Event) /\ Len(one) = 1 /\ one[1] = x
    BY <1>1
  <2> HIDE DEF x, ys, one
  <2>3. /\ one \o ys \in Seq(Event) /\ Len(one \o ys) = 1 + Len(ys)
        /\ \A i \in 1..(Len(one) + Len(ys)) :
             (one \o ys)[i] = IF i <= Len(one) THEN one[i] ELSE ys[i - Len(one)]
    BY <1>1, <2>2, ConcatProperties
  <2>4. \A i \in 1..Len(xs) : xs[i] = (one \o ys)[i]
    BY <2>1, <2>2, <2>3
  <2>5. xs = one \o ys
    BY <2>1, <2>3, <2>4, SeqEqual
  <2> QED
    BY <2>2, <2>5
<1> HIDE DEF x, ys
<1>3. one \in Seq(LogItem) /\ ys \in Seq(LogItem) /\ x \in LogItem
  BY <1>1, <1>2, LogItems DEF LogItem
<1>4. ~IsFunctionLog(x) => FunctionLogIds(one) = <<>>
  BY <1>3, LogIdsOne
<1> HIDE DEF one
<1>5. FunctionLogIds(xs) = FunctionLogIds(one) \o FunctionLogIds(ys)
  BY <1>2, <1>3, LogIdsConcat
<1>6. FunctionLogIds(one) \in Seq(Nat) /\ FunctionLogIds(ys) \in Seq(Nat)
  BY <1>3, LogIdsType
<1>7. ~IsFunctionLog(x) => FunctionLogIds(xs) = FunctionLogIds(ys)
  BY <1>4, <1>5, <1>6, NoIds
<1> QED
  BY <1>1, <1>4, <1>5, <1>6, <1>7 DEF x, ys, one
\* The logs in m leave the front of what waits: y of the parts before the buffer remains.
Leaves(m, y, buf, r) == ((m \o y) \o buf) \o r = m \o ((y \o buf) \o r)

\* What leaves the front of what waits leaves what is behind it in order.
LEMMA FrontMoves ==
  ASSUME NEW m \in Seq(Nat), NEW y \in Seq(Nat), NEW buf \in Seq(Nat), NEW r \in Seq(Nat)
  PROVE  Leaves(m, y, buf, r)
<1>1. (m \o y) \o buf = m \o (y \o buf) /\ y \o buf \in Seq(Nat)
  BY IdsAssociate, ConcatProperties
<1>2. (m \o (y \o buf)) \o r = m \o ((y \o buf) \o r)
  BY <1>1, IdsAssociate
<1> QED
  BY <1>1, <1>2 DEF Leaves

\* A step that moves no logs.
LEMMA NoFlow ==
  ASSUME TypeOK, PlatformInv,
         UNCHANGED <<ReceivedLogs, SentLogs, BatchLogs, WaitingLogs, shutdown_flush_started>>
  PROVE  FlowStep
<1>1. /\ BatchLogs \in Seq(Nat) /\ WaitingLogs \in Seq(Nat)
      /\ BatchLogs' = BatchLogs /\ WaitingLogs' = WaitingLogs
  BY LogIdTypes
<1> DEFINE none == <<>>
<1>2. none \in Seq(Nat) /\ BatchLogs' = BatchLogs \o none /\ WaitingLogs = none \o WaitingLogs'
  BY <1>1, NoIds
<1> HIDE DEF none
<1> QED
  BY <1>2 DEF FlowStep, ProcessesLogs

\* The logs received do not change, nor does what was delivered of the stream.
LEMMA SameReceived ==
  ASSUME PlatformInv, PlatformInv', delivered' = delivered,
         \A i \in 1..delivered : stream'[i] = stream[i]
  PROVE  ReceivedLogs' = ReceivedLogs
<1>1. /\ stream \in Seq(Event) /\ delivered \in 0..Len(stream) /\ Len(stream) \in Nat
      /\ stream' \in Seq(Event) /\ delivered \in 0..Len(stream') /\ Len(stream') \in Nat
  BY DEF PlatformInv
<1> DEFINE a == SubSeq(stream, 1, delivered)
           b == SubSeq(stream', 1, delivered)
<1>2. \A i \in 1..delivered : stream[i] \in Event /\ stream'[i] \in Event
  BY <1>1
<1>3. /\ a \in Seq(Event) /\ Len(a) = delivered /\ \A i \in 1..delivered : a[i] = stream[i]
  <2>1. (1 <= delivered => delivered - 1 + 1 = delivered)
    BY <1>1
  <2> QED
    BY <1>1, <1>2, SubSeqProperties
<1>4. /\ b \in Seq(Event) /\ Len(b) = delivered /\ \A i \in 1..delivered : b[i] = stream'[i]
  BY <1>1, <1>2, SubSeqProperties
<1> HIDE DEF a, b
<1>5. a = b
  BY <1>1, <1>3, <1>4, SeqEqual
<1> QED
  BY <1>5 DEF ReceivedLogs, a, b
\* What the platform drops of a delivery is not the log of a function.
LEMMA KeptLogs ==
  ASSUME PlatformInv, PipeConditions, NEW n \in Nat, delivered + n <= Len(stream),
         NEW lost \in SUBSET {e \in Event : e.kind \in LossyKinds}
  PROVE  FunctionLogIds(Kept(n, lost)) = FunctionLogIds(Batch(n))
<1> DEFINE events == Batch(n)
           T == ToSet(events)
<1>1. events \in Seq(Event)
  BY BatchType
<1> HIDE DEF events
<1>2. events \in Seq(T)
  <2>1. Len(events) \in Nat /\ events = [i \in 1..Len(events) |-> events[i]]
    BY <1>1
  <2>2. \A i \in 1..Len(events) : events[i] \in T
    BY <1>1, Elements
  <2> QED
    BY <2>1, <2>2
<1>3. \A e \in T : e \in (T \ lost) \cap FunctionLogs <=> e \in FunctionLogs
  <2>1. ASSUME NEW e \in T, e \in FunctionLogs PROVE e \notin lost
    BY <2>1 DEF FunctionLogs, IsFunctionLog, PipeConditions, DeliveryConditions
  <2> QED
    BY <2>1
<1> DEFINE S == T \ lost
<1>4. FilterSeq(FilterSeq(events, S), FunctionLogs) = FilterSeq(events, S \cap FunctionLogs)
  BY <1>2, FilterTwice
<1> HIDE DEF T
<1>5. FilterSeq(events, S \cap FunctionLogs) = FilterSeq(events, FunctionLogs)
  BY <1>2, <1>3, FilterAgree
<1>6. FilterSeq(FilterSeq(events, S), FunctionLogs) = FilterSeq(events, FunctionLogs)
  BY <1>4, <1>5
<1> QED
  BY <1>6 DEF FunctionLogIds, Kept, events, T, S

\* What was delivered, and what is delivered next.
LEMMA DeliveredSoFar ==
  ASSUME PlatformInv, NEW n \in Nat, delivered + n <= Len(stream)
  PROVE  /\ FunctionLogIds(SubSeq(stream, 1, delivered + n)) = ReceivedLogs \o FunctionLogIds(Batch(n))
         /\ FunctionLogIds(Batch(n)) \in Seq(Nat)
<1>1. /\ stream \in Seq(Event) /\ Len(stream) \in Nat /\ 1 \in 1..Len(stream) + 1
      /\ delivered \in (1 - 1)..Len(stream) /\ delivered + n \in delivered..Len(stream)
      /\ delivered \in Nat
  BY DEF PlatformInv
<1> DEFINE a == SubSeq(stream, 1, delivered)
           b == Batch(n)
           c == SubSeq(stream, 1, delivered + n)
<1>2. a \o b = c
  BY <1>1, ConcatAdjacentSubSeq DEF Batch
<1>3. a \in Seq(Event)
  <2>1. \A i \in 1..delivered : stream[i] \in Event
    BY <1>1
  <2> QED
    BY <1>1, <2>1, SubSeqProperties
<1>4. b \in Seq(Event)
  BY BatchType
<1> HIDE DEF a, b, c
<1>5. FunctionLogIds(c) = FunctionLogIds(a) \o FunctionLogIds(b) /\ FunctionLogIds(b) \in Seq(Nat)
  BY <1>2, <1>3, <1>4, LogItems, LogIdsConcat, LogIdsType
<1> QED
  BY <1>5 DEF ReceivedLogs, a, b, c

\* A delivery keeps what is in the pipe in order.
LEMMA DeliveryFlow ==
  ASSUME TypeOK, PlatformInv, PipeConditions, DeliverTelemetry
  PROVE  FlowStep
<1>1. PICK n \in 1..(Len(stream) - delivered), lost \in SUBSET {e \in Event : e.kind \in LossyKinds},
            age \in 0..(now + ReportingDelay) : Delivers(n, lost, age)
  BY TelemetryDelivered
<1>2. delivered \in Nat /\ Len(stream) \in Nat /\ n \in Nat /\ delivered + n <= Len(stream)
  BY DEF PlatformInv
<1> DEFINE ids == FunctionLogIds(Batch(n))
           q == FunctionLogIds(telemetry_event_queue)
<1>3. /\ telemetry_event_queue' = telemetry_event_queue \o Kept(n, lost)
      /\ Kept(n, lost) \in Seq(Event)
      /\ UNCHANGED <<half_processed_event_buffer, pending_events, invocation_state, output_buffers,
                     sent, shutdown_flush_started, stream>>
      /\ delivered' = delivered + n
  BY <1>1 DEF Delivers, HandleIncomingTelemetry, EnqueueEvents, EnterLoop, processing, flags, sends
<1>4. ids \in Seq(Nat) /\ ReceivedLogs' = ReceivedLogs \o ids
  BY <1>2, <1>3, DeliveredSoFar DEF ReceivedLogs
<1>5. q' = q \o ids
  <2>1. FunctionLogIds(Kept(n, lost)) = ids
    BY <1>2, KeptLogs
  <2>2. telemetry_event_queue \in Seq(LogItem) /\ Kept(n, lost) \in Seq(LogItem)
    BY <1>3, SequenceFacts, LogItems
  <2> HIDE DEF ids
  <2> QED
    BY <1>3, <2>1, <2>2, LogIdsConcat
<1>6. /\ UNCHANGED <<BatchLogs, SentLogs, HeldLogs, shutdown_flush_started>>
      /\ FunctionLogIds(half_processed_event_buffer') = FunctionLogIds(half_processed_event_buffer)
      /\ FunctionLogIds(pending_events') = FunctionLogIds(pending_events)
      /\ FunctionLogIds(HeldLogs') = FunctionLogIds(HeldLogs)
  BY <1>3 DEF BatchLogs, SentLogs, HeldLogs
<1> DEFINE x == (FunctionLogIds(HeldLogs) \o FunctionLogIds(pending_events))
                  \o FunctionLogIds(half_processed_event_buffer)
<1>7. OpenLogs' = OpenLogs \o ids
  <2>1. q \in Seq(Nat) /\ x \in Seq(Nat)
    BY LogIdTypes, ConcatProperties
  <2>2. OpenLogs = x \o q /\ OpenLogs' = x \o (q \o ids)
    BY <1>5, <1>6 DEF OpenLogs
  <2> HIDE DEF x, q, ids
  <2> QED
    BY <1>4, <2>1, <2>2, IdsAssociate
<1> HIDE DEF ids, q, x
<1>8. CASE shutdown_flush_started
  BY <1>4, <1>6, <1>8 DEF FlowStep, IgnoresLogs, WaitingLogs
<1>9. CASE ~shutdown_flush_started
  BY <1>4, <1>6, <1>7, <1>9 DEF FlowStep, ReceivesLogs, WaitingLogs
<1> QED
  BY <1>8, <1>9
\* An event of the queue is processed under the current invocation.
LEMMA ProcessFlow ==
  ASSUME TypeOK, PlatformInv, StreamInv, LoopShape, InLine, HeldInv, PipeConditions, ProcessEvent,
         UNCHANGED platformVars
  PROVE  FlowStep
<1> DEFINE q == ProcessTelemetry(ProcessingState, NextEvent)
           ids == FunctionLogIds(<<NextEvent>>)
           rest == FunctionLogIds(Tail(telemetry_event_queue))
<1>1. /\ invocation_state # NoInvocation /\ NextEvent \in Event /\ section = "events" /\ init_handled
      /\ telemetry_event_queue # <<>> /\ telemetry_event_queue' = Tail(telemetry_event_queue)
      /\ UNCHANGED <<half_processed_event_buffer, pending_events, sent, stream, delivered,
                     shutdown_flush_started>>
      /\ ~shutdown_flush_started
  BY LoopFacts DEF ProcessEvent, HasNextEvent, flags, sends, platformVars, LoopShape
<1>2. pending_events = <<>> /\ half_processed_event_buffer = <<>>
  BY <1>1 DEF LoopShape
<1>3. /\ ProcessingState \in ProcessingType /\ q \in ProcessingType
      /\ Flows(ProcessingState, q, ids)
      /\ Has(q.inv, "PlatformReport") => q.inv.logs = <<>>
      /\ ProcessingState.inv = invocation_state /\ ProcessingState.out = output_buffers
  BY <1>1, ProcessingHolds DEF ProcessingState, Processing
<1>4. output_buffers' = q.out /\ HeldLogs' = q.inv.logs
  <2>1. CASE EndsInvocation(q.inv)
    <3>1. invocation_state' = NoInvocation /\ output_buffers' = q.out
      BY <1>3, <2>1 DEF ProcessEvent, SetProcessing, ProcessingType
    <3> HIDE DEF q
    <3> QED
      BY <1>3, <2>1, <3>1 DEF HeldLogs, EndsInvocation
  <2>2. CASE ~EndsInvocation(q.inv)
    <3>1. invocation_state' = q.inv /\ output_buffers' = q.out
      BY <2>2 DEF ProcessEvent, SetProcessing
    <3>2. q.inv # NoInvocation
      BY <1>3, ServiceAssumption DEF ProcessingType
    <3> HIDE DEF q
    <3> QED
      BY <3>1, <3>2 DEF HeldLogs
  <2> QED
    BY <2>1, <2>2
<1>5. /\ NextEvent = Head(telemetry_event_queue)
      /\ FunctionLogIds(telemetry_event_queue) = ids \o rest /\ ids \in Seq(Nat) /\ rest \in Seq(Nat)
  BY <1>1, SequenceFacts, LogIdsHead DEF NextEvent
<1> HIDE DEF q, ids
<1>6. PICK m \in Seq(Nat) : /\ FunctionLogIds(q.out.logs) = FunctionLogIds(output_buffers.logs) \o m
                            /\ FunctionLogIds(invocation_state.logs) \o ids
                                 = m \o FunctionLogIds(q.inv.logs)
  BY <1>3, <1>5, FlowsMove
<1> DEFINE h == FunctionLogIds(HeldLogs)
           k == FunctionLogIds(q.inv.logs)
<1>7. h = FunctionLogIds(invocation_state.logs) /\ h \in Seq(Nat) /\ k \in Seq(Nat)
  BY <1>1, <1>3, LogIdTypes, LogsOfType DEF HeldLogs
<1>8. WaitingLogs = h \o (ids \o rest)
  <2>1. /\ FunctionLogIds(pending_events) = <<>>
        /\ FunctionLogIds(half_processed_event_buffer) = <<>>
    BY <1>2, LogIdsEmpty
  <2>2. OpenLogs = ((h \o <<>>) \o <<>>) \o (ids \o rest)
    BY <1>5, <2>1 DEF OpenLogs
  <2> HIDE DEF h
  <2> QED
    BY <1>1, <1>7, <2>2, NoIds DEF WaitingLogs
<1>9. WaitingLogs' = k \o rest
  <2>1. /\ FunctionLogIds(pending_events') = <<>>
        /\ FunctionLogIds(half_processed_event_buffer') = <<>>
    BY <1>1, <1>2, LogIdsEmpty
  <2>2. OpenLogs' = ((k \o <<>>) \o <<>>) \o rest
    BY <1>1, <1>4, <2>1 DEF OpenLogs
  <2> HIDE DEF k
  <2> QED
    BY <1>1, <1>7, <2>2, NoIds DEF WaitingLogs
<1>10. h \o ids = m \o k
  BY <1>6, <1>7
<1> HIDE DEF h, k, rest
<1>11. WaitingLogs = m \o WaitingLogs'
  <2>1. (h \o ids) \o rest = h \o (ids \o rest)
    BY <1>5, <1>7, IdsAssociate
  <2>2. (m \o k) \o rest = m \o (k \o rest)
    BY <1>5, <1>7, IdsAssociate
  <2> QED
    BY <1>8, <1>9, <1>10, <2>1, <2>2
<1>12. UNCHANGED <<ReceivedLogs, SentLogs, shutdown_flush_started>> /\ BatchLogs' = BatchLogs \o m
  BY <1>1, <1>4, <1>6 DEF ReceivedLogs, SentLogs, BatchLogs
<1> QED
  BY <1>11, <1>12 DEF FlowStep, ProcessesLogs

\* An event that was set aside during the init is processed.
LEMMA ReplayFlow ==
  ASSUME TypeInv, PlatformInv, StreamInv, LoopShape, InLine, HeldInv, PipeConditions, ReplayInitEvent,
         UNCHANGED platformVars
  PROVE  FlowStep
<1> USE DEF TypeInv
<1> DEFINE e == Head(pending_events)
           q == ProcessTelemetry(ProcessingState, e)
           ids == FunctionLogIds(<<e>>)
           rest == FunctionLogIds(Tail(pending_events))
<1>1. /\ e \in Event /\ section = "replay" /\ pending_events # <<>> /\ e.ok
  BY LoopFacts, WaitingAreOk, FirstWaits DEF ReplayInitEvent, PipeConditions
<1>2. /\ invocation_state' = q.inv /\ output_buffers' = q.out
      /\ pending_events' = Tail(pending_events)
      /\ UNCHANGED <<half_processed_event_buffer, telemetry_event_queue, sent, stream, delivered,
                     shutdown_flush_started>>
  BY <1>1 DEF ReplayInitEvent, SetProcessing, inputs, flags, sends, platformVars
<1>3. invocation_state # NoInvocation
  BY <1>1 DEF LoopInv
<1>4. /\ ~shutdown_flush_started
  BY <1>1 DEF LoopShape
<1>5. /\ ProcessingState \in ProcessingType /\ q \in ProcessingType
      /\ Flows(ProcessingState, q, ids)
      /\ ProcessingState.inv = invocation_state /\ ProcessingState.out = output_buffers
  BY <1>1, <1>3, ProcessingHolds DEF ProcessingState, Processing
<1>6. HeldLogs' = q.inv.logs
  <2>1. q.inv # NoInvocation
    BY <1>5, ServiceAssumption DEF ProcessingType
  <2> HIDE DEF q
  <2> QED
    BY <1>2, <2>1 DEF HeldLogs
<1>7. FunctionLogIds(pending_events) = ids \o rest /\ ids \in Seq(Nat) /\ rest \in Seq(Nat)
  BY <1>1, SequenceFacts, LogIdsHead
<1> HIDE DEF q, ids, e
<1>8. PICK m \in Seq(Nat) : /\ FunctionLogIds(q.out.logs) = FunctionLogIds(output_buffers.logs) \o m
                            /\ FunctionLogIds(invocation_state.logs) \o ids
                                 = m \o FunctionLogIds(q.inv.logs)
  BY <1>5, <1>7, FlowsMove
<1> DEFINE h == FunctionLogIds(HeldLogs)
           k == FunctionLogIds(q.inv.logs)
           buf == FunctionLogIds(half_processed_event_buffer)
           r == FunctionLogIds(telemetry_event_queue)
<1>9. /\ h = FunctionLogIds(invocation_state.logs) /\ h \in Seq(Nat) /\ k \in Seq(Nat)
      /\ buf \in Seq(Nat) /\ r \in Seq(Nat)
  BY <1>3, <1>5, LogIdTypes, LogsOfType DEF HeldLogs
<1>10. WaitingLogs = ((h \o (ids \o rest)) \o buf) \o r /\ WaitingLogs' = ((k \o rest) \o buf) \o r
  BY <1>2, <1>4, <1>6, <1>7 DEF WaitingLogs, OpenLogs
<1>11. h \o ids = m \o k
  BY <1>8, <1>9
<1>12. UNCHANGED <<ReceivedLogs, SentLogs, shutdown_flush_started>> /\ BatchLogs' = BatchLogs \o m
  BY <1>2, <1>5, <1>8 DEF ReceivedLogs, SentLogs, BatchLogs
<1> HIDE DEF h, k, buf, r, rest
<1>13. /\ h \in Seq(Nat) /\ ids \in Seq(Nat) /\ rest \in Seq(Nat) /\ k \in Seq(Nat)
       /\ m \in Seq(Nat) /\ buf \in Seq(Nat) /\ r \in Seq(Nat)
  BY <1>7, <1>9
<1>14. h \o (ids \o rest) = m \o (k \o rest)
  <2>1. (h \o ids) \o rest = h \o (ids \o rest)
    BY <1>13
  <2>2. (m \o k) \o rest = m \o (k \o rest)
    BY <1>13, IdsAssociate
  <2> QED
    BY <1>11, <2>1, <2>2
<1> DEFINE after == k \o rest
<1>15. after \in Seq(Nat)
  BY <1>13, ConcatProperties
<1>16. WaitingLogs = m \o WaitingLogs'
  <2> HIDE DEF after
  <2>1. Leaves(m, after, buf, r)
    BY <1>13, <1>15, FrontMoves
  <2> QED
    BY <1>10, <1>14, <2>1 DEF Leaves, after
<1> QED
  BY <1>12, <1>13, <1>16 DEF FlowStep, ProcessesLogs
\* An event is processed in degraded mode, before an init or by the flush at shutdown.
LEMMA DegradeFlow ==
  ASSUME TypeOK, PlatformInv, StreamInv, LoopShape, InLine, HeldInv, PipeConditions, DegradeEvent,
         UNCHANGED platformVars
  PROVE  FlowStep
<1> DEFINE e == Head(pending_events)
           ids == FunctionLogIds(<<e>>)
           rest == FunctionLogIds(Tail(pending_events))
           buf == FunctionLogIds(half_processed_event_buffer)
           r == FunctionLogIds(telemetry_event_queue)
<1>1. /\ e \in Event /\ section \in {"degrade", "flush"} /\ pending_events # <<>> /\ e.ok
  BY LoopFacts, WaitingAreOk, FirstWaits, SequenceFacts, LogIdsHead DEF DegradeEvent, PipeConditions
<1>2. /\ output_buffers' = ProcessDegraded(output_buffers, init_done, e)
      /\ pending_events' = Tail(pending_events)
      /\ UNCHANGED <<invocation_state, half_processed_event_buffer, telemetry_event_queue, sent,
                     stream, delivered, shutdown_flush_started>>
  BY <1>1 DEF DegradeEvent, inputs, flags, sends, platformVars
<1>3. FunctionLogIds(pending_events) = ids \o rest /\ ids \in Seq(Nat) /\ rest \in Seq(Nat)
  BY <1>1, SequenceFacts, LogIdsHead
<1>4. BatchLogs' = BatchLogs \o ids
  <2>1. output_buffers \in OutputBuffers
    BY DEF TypeOK, ProcessingTypes
  <2>2. /\ DegradedLogs(e) \in Seq(LogRecord)
        /\ output_buffers'.logs = output_buffers.logs \o DegradedLogs(e)
        /\ FunctionLogIds(DegradedLogs(e)) = ids
    BY <1>1, <1>2, <2>1, DegradedFlows DEF PipeConditions
  <2>3. output_buffers.logs \in Seq(LogItem) /\ DegradedLogs(e) \in Seq(LogItem)
    BY <2>1, <2>2, LogItems DEF OutputBuffers
  <2> HIDE DEF ids
  <2> QED
    BY <2>2, <2>3, LogIdsConcat DEF BatchLogs
<1>5. WaitingLogs = ids \o WaitingLogs'
  <2>1. CASE section = "flush"
    BY <1>2, <1>3, <2>1 DEF LoopShape, WaitingLogs
  <2>2. CASE section = "degrade"
    <3>1. ~shutdown_flush_started /\ ~init_handled
      BY <2>2 DEF LoopShape
    <3>2. HeldLogs = <<>> /\ HeldLogs' = <<>>
      BY <1>2, <3>1 DEF HeldInv, HeldLogs
    <3>3. FunctionLogIds(HeldLogs) = <<>> /\ FunctionLogIds(HeldLogs') = <<>>
      BY <3>2, LogIdsEmpty
    <3>4. /\ WaitingLogs = ((<<>> \o (ids \o rest)) \o buf) \o r
          /\ WaitingLogs' = ((<<>> \o rest) \o buf) \o r
      BY <1>2, <1>3, <3>1, <3>3 DEF WaitingLogs, OpenLogs
    <3>5. /\ buf \in Seq(Nat) /\ r \in Seq(Nat) /\ ids \o rest \in Seq(Nat)
          /\ ids \in Seq(Nat) /\ rest \in Seq(Nat)
      BY <1>3, LogIdTypes, ConcatProperties
    <3> HIDE DEF ids, rest, buf, r
    <3>6. WaitingLogs = ((ids \o rest) \o buf) \o r /\ WaitingLogs' = (rest \o buf) \o r
      BY <1>3, <3>4, <3>5, NoIds
    <3>7. Leaves(ids, rest, buf, r)
      BY <3>5, FrontMoves
    <3> QED
      BY <3>6, <3>7 DEF Leaves
  <2> QED
    BY <1>1, <2>1, <2>2
<1>6. UNCHANGED <<ReceivedLogs, SentLogs, shutdown_flush_started>>
  BY <1>2 DEF ReceivedLogs, SentLogs
<1> QED
  BY <1>3, <1>4, <1>5, <1>6 DEF FlowStep, ProcessesLogs

\* Spans may release the logs that are held.
LEMMA ReleaseFlow ==
  ASSUME TypeOK, PlatformInv,
         NEW p \in ProcessingType, NEW q \in ProcessingType, Flows(p, q, <<>>),
         p.out = output_buffers, p.inv.logs = HeldLogs,
         output_buffers' = q.out, HeldLogs' = q.inv.logs, ~shutdown_flush_started,
         UNCHANGED <<half_processed_event_buffer, telemetry_event_queue, pending_events, sent,
                     stream, delivered, shutdown_flush_started>>
  PROVE  FlowStep
<1> DEFINE h == FunctionLogIds(HeldLogs)
           k == FunctionLogIds(q.inv.logs)
           w == FunctionLogIds(pending_events)
           buf == FunctionLogIds(half_processed_event_buffer)
           r == FunctionLogIds(telemetry_event_queue)
<1>1. <<>> \in Seq(Nat)
  OBVIOUS
<1>2. PICK m \in Seq(Nat) : /\ FunctionLogIds(q.out.logs) = FunctionLogIds(output_buffers.logs) \o m
                            /\ h \o <<>> = m \o k
  BY <1>1, FlowsMove
<1>3. h \in Seq(Nat) /\ k \in Seq(Nat) /\ w \in Seq(Nat) /\ buf \in Seq(Nat) /\ r \in Seq(Nat)
  BY LogIdTypes, LogsOfType
<1>4. WaitingLogs = ((h \o w) \o buf) \o r /\ WaitingLogs' = ((k \o w) \o buf) \o r
  BY DEF WaitingLogs, OpenLogs
<1>5. UNCHANGED <<ReceivedLogs, SentLogs, shutdown_flush_started>> /\ BatchLogs' = BatchLogs \o m
  BY <1>2 DEF ReceivedLogs, SentLogs, BatchLogs
<1> HIDE DEF h, k, w, buf, r
<1>6. h \o w = m \o (k \o w)
  <2>1. h \o <<>> = h
    BY <1>3, NoIds
  <2>2. (m \o k) \o w = m \o (k \o w)
    BY <1>3, IdsAssociate
  <2> QED
    BY <1>2, <2>1, <2>2
<1> DEFINE after == k \o w
<1>7. after \in Seq(Nat)
  BY <1>3, ConcatProperties
<1>8. WaitingLogs = m \o WaitingLogs'
  <2> HIDE DEF after
  <2>1. Leaves(m, after, buf, r)
    BY <1>3, <1>7, FrontMoves
  <2> QED
    BY <1>4, <1>6, <2>1 DEF Leaves, after
<1> QED
  BY <1>5, <1>8 DEF FlowStep, ProcessesLogs

\* Taking an invoke event moves no log.
LEMMA TakeInvokeFlow ==
  ASSUME TypeOK, PlatformInv, LoopShape, TakeInvokeEvent, UNCHANGED platformVars
  PROVE  FlowStep
<1> DEFINE p == Processing(NewInvocationState(Head(invoke_event_queue).req), output_buffers,
                           metrics_state)
<1>1. p \in ProcessingType /\ p.inv.logs = <<>> /\ p.out = output_buffers
  BY TakeInvokeHolds DEF Processing
<1>2. PICK q : SetProcessing(q) /\ Flows(p, q, <<>>) /\ q \in ProcessingType /\ q.inv.logs = <<>>
  BY TakeInvokeHolds
<1> HIDE DEF p
<1>3. q.inv # NoInvocation
  BY <1>2, ServiceAssumption DEF ProcessingType
<1>4. HeldLogs = <<>> /\ HeldLogs' = q.inv.logs /\ output_buffers' = q.out
  BY <1>2, <1>3 DEF TakeInvokeEvent, HeldLogs, SetProcessing
<1>5. UNCHANGED <<half_processed_event_buffer, telemetry_event_queue, pending_events, sent, stream,
                  delivered, shutdown_flush_started>>
  BY DEF TakeInvokeEvent, loop, sends, flags, platformVars
<1>6. ~shutdown_flush_started
  BY DEF TakeInvokeEvent, LoopShape
<1> QED
  BY <1>1, <1>2, <1>4, <1>5, <1>6, ReleaseFlow

\* Spans of the function that come while logs are held release them.
LEMMA ExportFlow ==
  ASSUME TypeInv, PlatformInv, LoopShape, HeldInv, ExportSpan
  PROVE  FlowStep
<1> USE DEF TypeInv
<1>1. PICK c \in SpanCategories :
        HandleOtlpSpans(<<[category |-> c, req |-> current, id |-> Len(spans_sent) + 1]>>)
  BY DEF ExportSpan
<1> DEFINE spans == <<[category |-> c, req |-> current, id |-> Len(spans_sent) + 1]>>
<1>2. spans \in Seq(Span)
  <2>1. c \in SpanCategorization /\ current \in Requests /\ Len(spans_sent) + 1 \in Nat
    BY InstanceAssumption DEF ExportSpan, PlatformInv
  <2>2. [category |-> c, req |-> current, id |-> Len(spans_sent) + 1] \in Span
    BY <2>1 DEF Span
  <2> QED
    BY <2>2
<1>3. HandleOtlpSpans(spans)
  BY <1>1
<1> HIDE DEF spans
<1>4. /\ UNCHANGED <<half_processed_event_buffer, telemetry_event_queue, pending_events, sent, stream,
                     delivered, shutdown_flush_started>>
      /\ ~shutdown_flush_started
  BY <1>3 DEF ExportSpan, HandleOtlpSpans, loop, flags, sends, LoopShape
<1>5. CASE UNCHANGED processing
  BY <1>4, <1>5, NoFlow DEF processing, ReceivedLogs, SentLogs, BatchLogs, WaitingLogs, OpenLogs, HeldLogs
<1>6. CASE SpansForRunningInvoke(spans)
  <2> DEFINE q == ProcessFunctionSpans(ProcessingState, spans)
  <2>1. invocation_state # NoInvocation /\ SetProcessing(q)
    BY <1>6 DEF SpansForRunningInvoke, InvocationRuns
  <2>2. /\ ProcessingState \in ProcessingType /\ ProcessingState.inv = invocation_state
        /\ ProcessingState.out = output_buffers
    BY <2>1, ProcessingStateType DEF ProcessingState, Processing
  <2>3. HoldsOnlyDelayed(ProcessingState.inv)
    BY <2>1, <2>2 DEF HeldInv
  <2>4. Flows(ProcessingState, q, <<>>) /\ q \in ProcessingType
    BY <1>2, <2>2, <2>3, FlowsFunctionSpans, ProcessFunctionSpansType
  <2>5. q.inv # NoInvocation
    BY <2>4, ServiceAssumption DEF ProcessingType
  <2>6. invocation_state' = q.inv /\ output_buffers' = q.out
    BY <2>1 DEF SetProcessing
  <2> HIDE DEF q
  <2>7. HeldLogs = ProcessingState.inv.logs /\ HeldLogs' = q.inv.logs
    BY <2>1, <2>2, <2>5, <2>6 DEF HeldLogs
  <2> QED
    BY <1>4, <2>2, <2>4, <2>6, <2>7, ReleaseFlow
<1> QED
  BY <1>3, <1>5, <1>6 DEF HandleOtlpSpans, SpansForQueuedInvoke, SpansForNextInvoke
\* The steps that only move events among the queue, the buffers and the inner loop.
LEMMA ShiftFlow ==
  ASSUME TypeOK, PlatformInv, LoopShape, UNCHANGED platformVars,
         \/ HandleInitStart \/ BufferInitEvent \/ FinishInit \/ DegradeEnds
  PROVE  FlowStep
<1> DEFINE h == FunctionLogIds(HeldLogs)
           p == FunctionLogIds(pending_events)
           b == FunctionLogIds(half_processed_event_buffer)
           q == FunctionLogIds(telemetry_event_queue)
<1>1. /\ UNCHANGED <<invocation_state, output_buffers, sent, stream, delivered, shutdown_flush_started>>
      /\ ~shutdown_flush_started
  BY DEF HandleInitStart, BufferInitEvent, FinishInit, DegradeEnds, HasNextEvent, processing, sends,
         flags, platformVars, LoopShape
<1>2. /\ UNCHANGED <<ReceivedLogs, SentLogs, BatchLogs, HeldLogs, shutdown_flush_started>>
      /\ FunctionLogIds(HeldLogs') = h
  BY <1>1 DEF ReceivedLogs, SentLogs, BatchLogs, HeldLogs
<1>3. h \in Seq(Nat) /\ p \in Seq(Nat) /\ b \in Seq(Nat) /\ q \in Seq(Nat)
  BY LogIdTypes
<1>4. WaitingLogs = OpenLogs /\ WaitingLogs' = OpenLogs'
  BY <1>1 DEF WaitingLogs
<1>5. OpenLogs = ((h \o p) \o b) \o q
  BY DEF OpenLogs
<1>6. ASSUME NEW e \in Event, ~IsFunctionLog(e) PROVE FunctionLogIds(<<e>>) = <<>>
  BY <1>6, LogIdsOne DEF LogItem
<1>7. CASE HandleInitStart /\ half_processed_event_buffer = <<>>
  <2>1. /\ telemetry_event_queue # <<>> /\ telemetry_event_queue' = Tail(telemetry_event_queue)
        /\ half_processed_event_buffer' = <<NextEvent>> /\ pending_events' = pending_events
        /\ NextEvent.kind = "PlatformInitStart" /\ NextEvent \in Event
    BY <1>7, LoopFacts DEF HandleInitStart, HasNextEvent, loop
  <2>2. FunctionLogIds(telemetry_event_queue') = q
    BY <2>1, SequenceFacts, LogIdsHead DEF NextEvent, IsFunctionLog
  <2>3. FunctionLogIds(half_processed_event_buffer') = <<>> /\ b = <<>>
    BY <1>6, <1>7, <2>1, LogIdsEmpty DEF IsFunctionLog
  <2>4. OpenLogs' = OpenLogs
    BY <1>2, <2>1, <2>2, <2>3 DEF OpenLogs
  <2> QED
    BY <1>2, <1>4, <2>4, NoFlow
<1>8. CASE HandleInitStart /\ half_processed_event_buffer # <<>>
  <2>1. /\ telemetry_event_queue # <<>> /\ telemetry_event_queue' = Tail(telemetry_event_queue)
        /\ half_processed_event_buffer' = <<>> /\ pending_events' = half_processed_event_buffer
        /\ pending_events = <<>>
        /\ NextEvent.kind = "PlatformInitStart" /\ NextEvent \in Event
    BY <1>8, LoopFacts DEF HandleInitStart, HasNextEvent, LoopShape
  <2>2. FunctionLogIds(telemetry_event_queue') = q
    BY <2>1, SequenceFacts, LogIdsHead DEF NextEvent, IsFunctionLog
  <2>3. /\ FunctionLogIds(half_processed_event_buffer') = <<>> /\ p = <<>>
        /\ FunctionLogIds(pending_events') = b
    BY <2>1, LogIdsEmpty
  <2>4. OpenLogs' = ((h \o b) \o <<>>) \o q /\ OpenLogs = ((h \o <<>>) \o b) \o q
    BY <1>2, <2>2, <2>3 DEF OpenLogs
  <2>5. h \o b \in Seq(Nat)
    BY <1>3, ConcatProperties
  <2> HIDE DEF h, p, b, q
  <2>6. OpenLogs' = OpenLogs
    BY <1>3, <2>4, <2>5, NoIds
  <2> QED
    BY <1>2, <1>4, <2>6, NoFlow
<1>9. CASE BufferInitEvent
  <2> DEFINE ids == FunctionLogIds(<<NextEvent>>)
             rest == FunctionLogIds(Tail(telemetry_event_queue))
             x == h \o p
  <2>1. /\ telemetry_event_queue # <<>> /\ telemetry_event_queue' = Tail(telemetry_event_queue)
        /\ half_processed_event_buffer' = Append(half_processed_event_buffer, NextEvent)
        /\ pending_events' = pending_events /\ NextEvent \in Event
    BY <1>9, LoopFacts DEF BufferInitEvent, HasNextEvent, loop
  <2>2. q = ids \o rest /\ ids \in Seq(Nat) /\ rest \in Seq(Nat)
    BY <2>1, SequenceFacts, LogIdsHead DEF NextEvent
  <2>3. FunctionLogIds(half_processed_event_buffer') = b \o ids
    <3>1. half_processed_event_buffer \in Seq(Event) /\ half_processed_event_buffer \in Seq(LogItem)
      BY SequenceFacts, LogItems
    <3>2. <<NextEvent>> \in Seq(LogItem)
      BY <2>1 DEF LogItem
    <3>3. half_processed_event_buffer' = half_processed_event_buffer \o <<NextEvent>>
      BY <2>1, <3>1, AppendIsConcat
    <3> QED
      BY <3>1, <3>2, <3>3, LogIdsConcat
  <2>4. OpenLogs' = (x \o (b \o ids)) \o rest /\ OpenLogs = (x \o b) \o (ids \o rest)
    BY <1>2, <2>1, <2>2, <2>3 DEF OpenLogs
  <2>5. x \in Seq(Nat)
    BY <1>3, ConcatProperties
  <2> HIDE DEF h, p, b, q, x, ids, rest
  <2>6. x \o b \in Seq(Nat)
    BY <1>3, <2>5, ConcatProperties
  <2>7. x \o (b \o ids) = (x \o b) \o ids
    BY <1>3, <2>2, <2>5, IdsAssociate
  <2>8. ((x \o b) \o ids) \o rest = (x \o b) \o (ids \o rest)
    BY <2>2, <2>6, IdsAssociate
  <2>9. OpenLogs' = OpenLogs
    BY <2>4, <2>7, <2>8
  <2> QED
    BY <1>2, <1>4, <2>9, NoFlow
<1>10. CASE FinishInit
  <2>1. /\ telemetry_event_queue' = telemetry_event_queue
        /\ half_processed_event_buffer' = <<>> /\ pending_events' = half_processed_event_buffer
        /\ pending_events = <<>>
    BY <1>10 DEF FinishInit, HasNextEvent, LoopShape, inputs
  <2>2. /\ FunctionLogIds(half_processed_event_buffer') = <<>> /\ p = <<>>
        /\ FunctionLogIds(pending_events') = b /\ FunctionLogIds(telemetry_event_queue') = q
    BY <2>1, LogIdsEmpty
  <2>3. OpenLogs' = ((h \o b) \o <<>>) \o q /\ OpenLogs = ((h \o <<>>) \o b) \o q
    BY <1>2, <2>2 DEF OpenLogs
  <2>4. h \o b \in Seq(Nat)
    BY <1>3, ConcatProperties
  <2> HIDE DEF h, p, b, q
  <2>5. OpenLogs' = OpenLogs
    BY <1>3, <2>3, <2>4, NoIds
  <2> QED
    BY <1>2, <1>4, <2>5, NoFlow
<1>11. CASE DegradeEnds
  <2>1. /\ telemetry_event_queue' = telemetry_event_queue /\ pending_events' = pending_events
        /\ half_processed_event_buffer' = <<held_event>> /\ half_processed_event_buffer = <<>>
        /\ held_event \in Event /\ held_event.kind = "PlatformInitStart"
    BY <1>11 DEF DegradeEnds, LoopShape, inputs
  <2>2. FunctionLogIds(half_processed_event_buffer') = <<>> /\ b = <<>>
    BY <1>6, <2>1, LogIdsEmpty DEF IsFunctionLog
  <2>3. OpenLogs' = OpenLogs
    BY <1>2, <2>1, <2>2 DEF OpenLogs
  <2> QED
    BY <1>2, <1>4, <2>3, NoFlow
<1> QED
  BY <1>7, <1>8, <1>9, <1>10, <1>11

\* A batch is sent.
LEMMA SendFlow ==
  ASSUME TypeOK, PlatformInv, UNCHANGED platformVars,
         CheckShouldSend \/ SendFlushed
  PROVE  FlowStep
<1>1. /\ UNCHANGED <<invocation_state, half_processed_event_buffer, telemetry_event_queue, stream,
                     delivered, shutdown_flush_started>>
      /\ pending_events' = pending_events
  BY DEF CheckShouldSend, SendFlushed, LeaveLoop, inputs, flags, loop, platformVars
<1>2. UNCHANGED <<ReceivedLogs, WaitingLogs, shutdown_flush_started>>
  BY <1>1 DEF ReceivedLogs, WaitingLogs, OpenLogs, HeldLogs
<1>3. CASE UNCHANGED <<output_buffers, sends>>
  BY <1>2, <1>3, NoFlow DEF SentLogs, BatchLogs, sends
<1>4. CASE SendTelemetry
  <2>1. sent \in OutputBuffers /\ output_buffers \in OutputBuffers
    BY DEF TypeOK, ProcessingTypes, SendTypes
  <2>2. sent'.logs = sent.logs \o output_buffers.logs /\ output_buffers'.logs = <<>>
    BY <1>4 DEF SendTelemetry, Merge, EmptyBuffers
  <2>3. sent.logs \in Seq(LogItem) /\ output_buffers.logs \in Seq(LogItem)
    BY <2>1, LogItems DEF OutputBuffers
  <2>4. SentLogs' = SentLogs \o BatchLogs
    BY <2>2, <2>3, LogIdsConcat DEF SentLogs, BatchLogs
  <2>5. BatchLogs' = <<>>
    BY <2>2, LogIdsEmpty DEF BatchLogs
  <2> QED
    BY <1>2, <2>4, <2>5 DEF FlowStep, SendsLogs
<1> QED
  BY <1>3, <1>4 DEF CheckShouldSend, SendFlushed

\* The flush at shutdown begins once.
FlushOnce == shutdown_flush_started => pc \in {"flushing", "awaitLast", "done"}

\* Each step keeps what is known of the flush.
LEMMA FlushOnceStep ==
  ASSUME TypeOK, PlatformInv, FlushOnce, [InstanceNext]_vars
  PROVE  FlushOnce'
<1>1. CASE \/ \E events, age : HandleIncomingTelemetry(events, age)
           \/ \E spans : HandleOtlpSpans(spans)
           \/ \E m : HandleOtlpMetrics(m)
  BY <1>1 DEF HandleIncomingTelemetry, HandleOtlpSpans, HandleOtlpMetrics, FlushOnce, flags, handler
<1>2. CASE (\E r : StartInvoke(r)) \/ StartShutdown
  BY <1>2 DEF StartInvoke, StartShutdown, FlushOnce, flags
<1>3. CASE ProcessingStep
  <2>1. shutdown_flush_started' = shutdown_flush_started /\ pc' = pc
    BY <1>3 DEF ProcessingStep, TakeInvokeEvent, RejectInvokeEvent, HandleInitStart, BufferInitEvent,
                FinishInit, ProcessEvent, RejectEvent, ReplayInitEvent, ReplayEnds, DegradeEvent,
                DegradeEnds, FinishProcessing, flags, handler
  <2> QED
    BY <2>1 DEF FlushOnce
<1>4. CASE HandlerStep
  BY <1>4
  DEF HandlerStep, ObtainFunctionContext, FailToObtainFunctionContext, DrainSignals, ReceiveSignal,
      ForbidOtel, AwaitInFlightSends, AwaitTimesOut, PermitOtel, GraceElapses, FinishShutdown,
      EnqueueInvokeEvent, CheckShouldSend, FlushEnqueuedTelemetry, SendFlushed, FlushOnce, flags
<1>5. CASE (\E t \in timers : TimerFires(t)) \/ SendEnds \/ Tick
  BY <1>5 DEF TimerFires, SendEnds, Tick, FlushOnce, flags, handler
<1>6. CASE UNCHANGED serviceVars
  BY <1>6 DEF serviceVars, FlushOnce, flags, handler
<1>7. [Next]_serviceVars
  BY InstanceStepIsServiceStep
<1> QED
  BY <1>1, <1>2, <1>3, <1>4, <1>5, <1>6, <1>7 DEF Next, Receive

\* The flush at shutdown leaves behind what is held and what was set aside.
LEMMA FlushFlow ==
  ASSUME TypeOK, PlatformInv, FlushOnce, FlushEnqueuedTelemetry, UNCHANGED platformVars
  PROVE  FlowStep
<1> DEFINE h == FunctionLogIds(HeldLogs)
           p == FunctionLogIds(pending_events)
           b == FunctionLogIds(half_processed_event_buffer)
           q == FunctionLogIds(telemetry_event_queue)
           x == (h \o p) \o b
<1>1. ~shutdown_flush_started /\ shutdown_flush_started'
  BY DEF FlushEnqueuedTelemetry, FlushOnce
<1>2. UNCHANGED <<ReceivedLogs, BatchLogs, SentLogs>>
  BY DEF FlushEnqueuedTelemetry, processing, sends, platformVars, ReceivedLogs, BatchLogs, SentLogs
<1>3. WaitingLogs = x \o q /\ WaitingLogs' = q
  <2>1. pending_events' = telemetry_event_queue
    BY DEF FlushEnqueuedTelemetry
  <2> QED
    BY <1>1, <2>1 DEF WaitingLogs, OpenLogs
<1>4. x \in Seq(Nat)
  BY LogIdTypes, ConcatProperties
<1> HIDE DEF x, q
<1> QED
  BY <1>1, <1>2, <1>3, <1>4 DEF FlowStep, ClosesPipe

\* Every step of the instance is one of those.
LEMMA FlowSteps ==
  ASSUME TypeInv, PlatformInv, PlatformInv', StreamInv, LoopShape, InLine, HeldInv, FlushOnce,
         PipeConditions, [InstanceNext]_vars
  PROVE  FlowStep
<1> USE DEF TypeInv
<1>1. CASE Quiet
  <2>1. HeldLogs' = HeldLogs
    BY <1>1 DEF Quiet, HeldLogs
  <2> QED
    BY <1>1, <2>1, NoFlow DEF Quiet, loop, ReceivedLogs, SentLogs, BatchLogs, WaitingLogs, OpenLogs
<1>2. CASE Recording
  <2>1. UNCHANGED <<serviceVars, delivered>>
    BY <1>2, RecordingGrows
  <2>2. \A i \in 1..delivered : stream'[i] = stream[i]
    BY <1>2, RecordingAdds DEF Adds, PlatformInv, Recording
  <2>3. ReceivedLogs' = ReceivedLogs
    BY <2>1, <2>2, SameReceived
  <2> QED
    BY <2>1, <2>3, NoFlow DEF serviceVars, inputs, processing, loop, flags, sends, SentLogs, BatchLogs,
                              WaitingLogs, OpenLogs, HeldLogs
<1>3. CASE DeliverTelemetry
  BY <1>3, DeliveryFlow
<1>4. CASE ExportSpan
  BY <1>4, ExportFlow
<1>5. CASE Moving /\ UNCHANGED platformVars
  <2>1. CASE HandleInitStart \/ BufferInitEvent \/ FinishInit \/ DegradeEnds
    BY <1>5, <2>1, ShiftFlow
  <2>2. CASE TakeInvokeEvent
    BY <1>5, <2>2, TakeInvokeFlow
  <2>3. CASE ProcessEvent
    BY <1>5, <2>3, ProcessFlow
  <2>4. CASE ReplayInitEvent
    BY <1>5, <2>4, ReplayFlow
  <2>5. CASE DegradeEvent
    BY <1>5, <2>5, DegradeFlow
  <2>6. CASE RejectEvent
    BY <2>6, WaitingAreOk, FirstWaits DEF RejectEvent, HasNextEvent, PipeConditions
  <2>7. CASE RejectInvokeEvent \/ FinishProcessing \/ ReplayEnds \/ EnqueueInvokeEvent
    <3>1. UNCHANGED <<telemetry_event_queue, half_processed_event_buffer, pending_events,
                      invocation_state, output_buffers, sent, stream, delivered,
                      shutdown_flush_started>>
      BY <1>5, <2>7 DEF RejectInvokeEvent, FinishProcessing, ReplayEnds, EnqueueInvokeEvent, AbortLoop,
                        LeaveLoop, EnterLoop, LoopShape, inputs, processing, sends, flags, platformVars
    <3> QED
      BY <3>1, NoFlow DEF ReceivedLogs, SentLogs, BatchLogs, WaitingLogs, OpenLogs, HeldLogs
  <2>8. CASE CheckShouldSend \/ SendFlushed
    BY <1>5, <2>8, SendFlow
  <2>9. CASE FlushEnqueuedTelemetry
    BY <1>5, <2>9, FlushFlow
  <2> QED
    BY <1>5, <2>1, <2>2, <2>3, <2>4, <2>5, <2>6, <2>7, <2>8, <2>9 DEF Moving, ProcessingStep
<1> QED
  BY <1>1, <1>2, <1>3, <1>4, <1>5, StepsOfTheInstance

-----------------------------------------------------------------------------
(* The service implements the pipe.                                        *)

\* What the first part of a sequence is.
LEMMA FirstPart ==
  ASSUME NEW xs \in Seq(Nat), NEW n \in 0..Len(xs)
  PROVE  /\ SubSeq(xs, 1, n) \in Seq(Nat) /\ Len(SubSeq(xs, 1, n)) = n
         /\ \A i \in 1..n : SubSeq(xs, 1, n)[i] = xs[i]
<1>1. n \in Int /\ Len(xs) \in Nat /\ \A i \in 1..n : xs[i] \in Nat
  OBVIOUS
<1>2. /\ SubSeq(xs, 1, n) \in Seq(Nat)
      /\ Len(SubSeq(xs, 1, n)) = IF 1 <= n THEN n - 1 + 1 ELSE 0
      /\ \A i \in 1..(n - 1 + 1) : SubSeq(xs, 1, n)[i] = xs[1 + i - 1]
  BY <1>1, SubSeqProperties
<1>3. n - 1 + 1 = n /\ \A i \in 1..n : 1 + i - 1 = i
  BY <1>1
<1> QED
  BY <1>2, <1>3

\* A sequence made of two: its parts, which are a prefix and a suffix of it.
LEMMA Parts ==
  ASSUME NEW m \in Seq(Nat), NEW w \in Seq(Nat)
  PROVE  /\ m \o w \in Seq(Nat) /\ Len(m \o w) = Len(m) + Len(w)
         /\ SubSeq(m \o w, 1, Len(m)) = m
         /\ SubSeq(m \o w, Len(m) + 1, Len(m \o w)) = w
         /\ Pipe!IsPrefix(m, m \o w)
         /\ Pipe!IsSuffix(w, m \o w)
<1> DEFINE c == m \o w
<1>1. /\ c \in Seq(Nat) /\ Len(c) = Len(m) + Len(w) /\ Len(m) \in Nat /\ Len(w) \in Nat
      /\ \A i \in 1..Len(m) : c[i] = m[i]
      /\ \A i \in 1..Len(w) : c[Len(m) + i] = w[i]
  OBVIOUS
<1> HIDE DEF c
<1>2. SubSeq(c, 1, Len(m)) = m
  <2> DEFINE d == SubSeq(c, 1, Len(m))
  <2>1. /\ d \in Seq(Nat) /\ Len(d) = Len(m) /\ \A i \in 1..Len(m) : d[i] = c[i]
    BY <1>1, SubSeqProperties
  <2> HIDE DEF d
  <2>2. d = m
    BY <1>1, <2>1, SeqEqual
  <2> QED
    BY <2>2 DEF d
<1>3. SubSeq(c, Len(m) + 1, Len(c)) = w
  <2> DEFINE d == SubSeq(c, Len(m) + 1, Len(c))
  <2>1. \A i \in Len(m) + 1..Len(c) : c[i] \in Nat
    BY <1>1
  <2>2. /\ d \in Seq(Nat) /\ Len(d) = Len(w)
        /\ \A i \in 1..Len(w) : d[i] = c[Len(m) + 1 + i - 1]
    BY <1>1, <2>1, SubSeqProperties
  <2>3. \A i \in 1..Len(w) : d[i] = w[i]
    <3>1. ASSUME NEW i \in 1..Len(w) PROVE Len(m) + 1 + i - 1 = Len(m) + i
      BY <1>1
    <3> HIDE DEF d
    <3> QED
      BY <1>1, <2>2, <3>1
  <2> HIDE DEF d
  <2>4. d = w
    BY <1>1, <2>2, <2>3, SeqEqual
  <2> QED
    BY <2>4 DEF d
<1>4. Pipe!IsPrefix(m, c)
  BY <1>1, <1>2, SubSeqFull DEF Pipe!IsPrefix
<1>5. Pipe!IsSuffix(w, c)
  <2> DEFINE rw == Pipe!Reverse(w)
             rc == Pipe!Reverse(c)
  <2>1. /\ rw \in Seq(Nat) /\ Len(rw) = Len(w)
        /\ \A i \in 1..Len(w) : rw[i] = w[Len(w) - i + 1]
    <3>1. \A i \in 1..Len(w) : Len(w) - i + 1 \in 1..Len(w)
      BY <1>1
    <3>2. \A i \in 1..Len(w) : w[i] \in Nat
      OBVIOUS
    <3>3. ASSUME NEW i \in 1..Len(w) PROVE w[Len(w) - i + 1] \in Nat
      <4>1. Len(w) - i + 1 \in 1..Len(w)
        BY <3>1
      <4> QED
        BY <3>2, <4>1
    <3> QED
      BY <1>1, <3>3 DEF Pipe!Reverse
  <2>2. /\ rc \in Seq(Nat) /\ Len(rc) = Len(c)
        /\ \A i \in 1..Len(c) : rc[i] = c[Len(c) - i + 1]
    BY <1>1 DEF Pipe!Reverse
  <2>3. ASSUME NEW i \in 1..Len(w) PROVE rc[i] = rw[i]
    <3>1. /\ Len(w) - i + 1 \in 1..Len(w) /\ i \in 1..Len(c)
          /\ Len(c) - i + 1 = Len(m) + (Len(w) - i + 1)
      BY <1>1
    <3> HIDE DEF rw, rc
    <3> QED
      BY <1>1, <2>1, <2>2, <3>1
  <2> HIDE DEF rw, rc
  <2> DEFINE d == SubSeq(rc, 1, Len(w))
  <2>4. d \in Seq(Nat) /\ Len(d) = Len(w) /\ \A i \in 1..Len(w) : d[i] = rc[i]
    <3>1. Len(w) \in 0..Len(rc)
      BY <1>1, <2>2
    <3> QED
      BY <2>2, <3>1, FirstPart
  <2> HIDE DEF d
  <2>5. d = rw
    <3>1. \A i \in 1..Len(d) : d[i] = rw[i]
      BY <2>3, <2>4
    <3> QED
      BY <2>1, <2>4, <3>1, SeqEqual
  <2>6. SubSeq(rw, 1, Len(rw)) = rw /\ Len(rw) <= Len(rc)
    BY <1>1, <2>1, <2>2, SubSeqFull
  <2>7. Pipe!IsPrefix(rw, rc)
    BY <2>1, <2>5, <2>6 DEF Pipe!IsPrefix, d
  <2> QED
    BY <2>7 DEF Pipe!IsSuffix, rw, rc
<1> QED
  BY <1>1, <1>2, <1>3, <1>4, <1>5 DEF c

\* The ids of logs are numbers.
LEMMA LogIdsAre ==
  TypeOK /\ PlatformInv => WaitingLogs \in Seq(Nat) /\ ReceivedLogs \in Seq(Nat)
  BY LogIdTypes

\* And in the next state.
LEMMA LogIdsStay ==
  (TypeOK /\ PlatformInv)' => (WaitingLogs \in Seq(Nat) /\ ReceivedLogs \in Seq(Nat))'
  BY LogIdsAre, PTL

\* The steps of the service, as steps of the pipe.
LEMMA FlowStepIsPipeStep ==
  ASSUME TypeOK, PlatformInv, TypeOK', PlatformInv', FlowStep
  PROVE  [Pipe!Next]_Pipe!vars
<1>1. /\ ReceivedLogs \in Seq(Nat) /\ WaitingLogs \in Seq(Nat) /\ BatchLogs \in Seq(Nat)
      /\ SentLogs \in Seq(Nat) /\ WaitingLogs' \in Seq(Nat) /\ ReceivedLogs' \in Seq(Nat)
  BY LogIdTypes, LogIdsStay
<1>2. CASE ProcessesLogs
  <2>1. PICK m \in Seq(Nat) : BatchLogs' = BatchLogs \o m /\ WaitingLogs = m \o WaitingLogs'
    BY <1>2 DEF ProcessesLogs
  <2>2. UNCHANGED <<ReceivedLogs, SentLogs, shutdown_flush_started>>
    BY <1>2 DEF ProcessesLogs
  <2>3. CASE m = <<>>
    <3>1. BatchLogs' = BatchLogs /\ WaitingLogs' = WaitingLogs
      BY <1>1, <2>1, <2>3, NoIds
    <3> QED
      BY <2>2, <3>1 DEF Pipe!vars, ReceivedLogs, SentLogs, BatchLogs, WaitingLogs, OpenLogs
  <2>4. CASE m # <<>>
    <3> DEFINE n == Len(m)
    <3>1. /\ n \in 1..Len(WaitingLogs)
          /\ m = SubSeq(WaitingLogs, 1, n)
          /\ WaitingLogs' = SubSeq(WaitingLogs, n + 1, Len(WaitingLogs))
      <4>1. n \in Nat /\ n # 0
        BY <2>4, EmptySeq
      <4>2. /\ Len(WaitingLogs) = Len(m) + Len(WaitingLogs')
            /\ m = SubSeq(WaitingLogs, 1, n)
            /\ WaitingLogs' = SubSeq(WaitingLogs, n + 1, Len(WaitingLogs))
        BY <1>1, <2>1, Parts
      <4>3. Len(WaitingLogs') \in Nat
        BY <1>1
      <4> QED
        BY <4>1, <4>2, <4>3
    <3> HIDE DEF n
    <3>2. \E k \in 1..Len(WaitingLogs) :
            /\ BatchLogs' = BatchLogs \o SubSeq(WaitingLogs, 1, k)
            /\ WaitingLogs' = SubSeq(WaitingLogs, k + 1, Len(WaitingLogs))
      BY <2>1, <3>1
    <3> QED
      BY <2>2, <3>2 DEF Pipe!Next, Pipe!Process, ReceivedLogs, SentLogs, BatchLogs, WaitingLogs, OpenLogs
  <2> QED
    BY <2>3, <2>4
<1>3. CASE ReceivesLogs
  <2>1. PICK m \in Seq(Nat) : ReceivedLogs' = ReceivedLogs \o m /\ WaitingLogs' = WaitingLogs \o m
    BY <1>3 DEF ReceivesLogs
  <2>2. /\ Pipe!IsPrefix(ReceivedLogs, ReceivedLogs')
        /\ m = SubSeq(ReceivedLogs', Len(ReceivedLogs) + 1, Len(ReceivedLogs'))
    BY <1>1, <2>1, Parts
  <2>3. /\ ~shutdown_flush_started /\ UNCHANGED <<BatchLogs, SentLogs, shutdown_flush_started>>
        /\ WaitingLogs' = WaitingLogs \o SubSeq(ReceivedLogs', Len(ReceivedLogs) + 1, Len(ReceivedLogs'))
    BY <1>3, <2>1, <2>2 DEF ReceivesLogs
  <2> QED
    BY <1>1, <2>2, <2>3
    DEF Pipe!Next, Pipe!Receive, ReceivedLogs, SentLogs, BatchLogs, WaitingLogs, OpenLogs
<1>4. CASE SendsLogs
  <2>1. CASE BatchLogs = <<>>
    <3>1. UNCHANGED <<ReceivedLogs, WaitingLogs, BatchLogs, SentLogs, shutdown_flush_started>>
      BY <1>1, <1>4, <2>1, NoIds DEF SendsLogs
    <3> QED
      BY <3>1 DEF Pipe!vars, ReceivedLogs, SentLogs, BatchLogs, WaitingLogs, OpenLogs
  <2>2. CASE BatchLogs # <<>>
    BY <1>4, <2>2
    DEF SendsLogs, Pipe!Next, Pipe!Send, ReceivedLogs, SentLogs, BatchLogs, WaitingLogs, OpenLogs
  <2> QED
    BY <2>1, <2>2
<1>5. CASE ClosesPipe
  <2>1. Pipe!IsSuffix(WaitingLogs', WaitingLogs)
    BY <1>1, <1>5, Parts DEF ClosesPipe
  <2> QED
    BY <1>5, <2>1
    DEF ClosesPipe, Pipe!Next, Pipe!Close, ReceivedLogs, SentLogs, BatchLogs, WaitingLogs, OpenLogs
<1>6. CASE IgnoresLogs
  <2>1. Pipe!IsPrefix(ReceivedLogs, ReceivedLogs')
    BY <1>1, <1>6, Parts DEF IgnoresLogs
  <2> QED
    BY <1>6, <2>1
    DEF IgnoresLogs, Pipe!Next, Pipe!GiveUp, ReceivedLogs, SentLogs, BatchLogs, WaitingLogs, OpenLogs
<1> QED
  BY <1>2, <1>3, <1>4, <1>5, <1>6 DEF FlowStep

\* All that the flow of the logs relies on.
FlowInv ==
  /\ InstanceTypeInv
  /\ StreamInv /\ LoopShape /\ InLine
  /\ InitWaits /\ HeldInv /\ FlushOnce

\* Initially, all logs that were delivered are in the pipe.
LEMMA FlowInit == ASSUME InstanceInit PROVE FlowInv
<1>1. InstanceTypeInv
  BY InstanceInitTypes
<1>2. StreamInv
  BY StreamInit
<1>3. LoopShape
  BY DEF InstanceInit, Init, LoopShape
<1>4. InLine
  <2>1. ToSet(<<>>) = {} /\ Len(<<>>) = 0
    BY DEF ToSet
  <2> QED
    BY <2>1 DEF InstanceInit, Init, InLine, Ordered, Before, Waiting, Held
<1>5. InitWaits
  <2>1. delivered = 0 /\ 1..0 = {}
    BY DEF InstanceInit
  <2> QED
    BY <2>1 DEF InitWaits
<1>6. HeldInv /\ FlushOnce
  BY DEF InstanceInit, Init, HeldInv, FlushOnce
<1> QED
  BY <1>1, <1>2, <1>3, <1>4, <1>5, <1>6 DEF FlowInv

\* Each step keeps what is in the pipe in order.
LEMMA FlowInvStep ==
  ASSUME FlowInv, PipeConditions, [InstanceNext]_vars
  PROVE  FlowInv'
<1> USE DEF FlowInv, InstanceTypeInv, TypeInv
<1>1. InstanceTypeInv'
  BY InstanceStepTypes
<1>2. StreamInv'
  BY StreamStep
<1>3. LoopShape'
  BY LoopShapeStep
<1>4. InLine'
  BY InLineStep
<1>5. InitWaits'
  BY WaitingAreOk, InitWaitsStep DEF PipeConditions, DeliveryConditions
<1>6. HeldInv'
  BY HeldStep
<1>7. FlushOnce'
  BY FlushOnceStep
<1> QED
  BY <1>1, <1>2, <1>3, <1>4, <1>5, <1>6, <1>7

\* The service implements the pipe, whatever the number of requests and logs, and however
\* late and in whatever pieces its telemetry is delivered, unless logs are lost or cannot be
\* processed: handle_incoming_telemetry receives, process_telemetry_events processes,
\* send_telemetry sends, and flush_enqueued_telemetry closes the pipe.
THEOREM ServiceIsPipe == PipeConditions /\ InstanceSpec => LogsArePiped
<1> SUFFICES ASSUME PipeConditions PROVE InstanceSpec => LogsArePiped
  OBVIOUS
<1>1. InstanceInit => Pipe!Init
  <2> SUFFICES ASSUME InstanceInit PROVE Pipe!Init
    OBVIOUS
  <2>1. SubSeq(stream, 1, delivered) = <<>>
    <3>1. delivered = 0
      BY DEF InstanceInit
    <3> QED
      BY <3>1
  <2>2. /\ ~shutdown_flush_started
        /\ HeldLogs = <<>> /\ pending_events = <<>> /\ half_processed_event_buffer = <<>>
        /\ telemetry_event_queue = <<>> /\ output_buffers.logs = <<>> /\ sent.logs = <<>>
    BY DEF InstanceInit, Init, HeldLogs, EmptyBuffers
  <2>3. <<>> \o <<>> = <<>>
    OBVIOUS
  <2> QED
    BY <2>1, <2>2, <2>3, LogIdsEmpty DEF Pipe!Init
<1>2. InstanceInit => FlowInv
  BY FlowInit
<1>3. FlowInv /\ [InstanceNext]_vars => FlowInv'
  BY FlowInvStep
<1>4. FlowInv /\ FlowInv' /\ [InstanceNext]_vars => [Pipe!Next]_Pipe!vars
  BY FlowSteps, FlowStepIsPipeStep DEF FlowInv, InstanceTypeInv, TypeInv
<1> QED
  BY <1>1, <1>2, <1>3, <1>4, PTL DEF InstanceSpec, LogsArePiped, Pipe!Spec

\* Before the flush at shutdown the logs sent, in the output buffer, held, and waiting are
\* the logs that were received, in order: none is lost, duplicated or overtaken by another
\* (process_telemetry_events, process_in_degraded_mode, process_delayed_logs).
THEOREM LogsInOrder == PipeConditions /\ InstanceSpec => []LogsFlowInOrder
<1> SUFFICES ASSUME PipeConditions PROVE InstanceSpec => []LogsFlowInOrder
  OBVIOUS
<1>1. InstanceSpec => LogsArePiped
  BY ServiceIsPipe
<1>2. LogsArePiped => []Pipe!NothingLost
  BY Pipe!PipeLosesNothing DEF LogsArePiped
<1>3. FlowInv /\ Pipe!NothingLost => LogsFlowInOrder
  <2> SUFFICES ASSUME FlowInv, Pipe!NothingLost, ~shutdown_flush_started
               PROVE  LogsFlowInOrder
    BY DEF LogsFlowInOrder
  <2> DEFINE a == FunctionLogIds(AllLogs)
             h == FunctionLogIds(HeldLogs)
             p == FunctionLogIds(pending_events)
             buf == FunctionLogIds(half_processed_event_buffer)
             r == FunctionLogIds(telemetry_event_queue)
  <2>1. (SentLogs \o BatchLogs) \o OpenLogs = ReceivedLogs
    BY DEF Pipe!NothingLost, SentLogs, BatchLogs, OpenLogs, ReceivedLogs
  <2>2. a = SentLogs \o BatchLogs
    <3>1. sent.logs \in Seq(LogItem) /\ output_buffers.logs \in Seq(LogItem)
      BY LogItems DEF FlowInv, InstanceTypeInv, TypeInv, TypeOK, SendTypes, ProcessingTypes,
                      OutputBuffers
    <3> QED
      BY <3>1, LogIdsConcat DEF AllLogs, SentLogs, BatchLogs
  <2>3. /\ SentLogs \in Seq(Nat) /\ BatchLogs \in Seq(Nat)
        /\ h \in Seq(Nat) /\ p \in Seq(Nat) /\ buf \in Seq(Nat) /\ r \in Seq(Nat)
    BY LogIdTypes DEF FlowInv, InstanceTypeInv, TypeInv
  <2>4. OpenLogs = ((h \o p) \o buf) \o r
    BY DEF OpenLogs
  <2>5. (((a \o h) \o p) \o buf) \o r = ReceivedLogs => LogsFlowInOrder
    BY DEF LogsFlowInOrder, ReceivedLogs
  <2> HIDE DEF a, h, p, buf, r
  <2>6. a \in Seq(Nat)
    BY <2>2, <2>3
  <2>7. (a \o h) \o p = a \o (h \o p)
    BY <2>3, <2>6, IdsAssociate
  <2> DEFINE hp == h \o p
  <2>8. hp \in Seq(Nat)
    BY <2>3
  <2> HIDE DEF hp
  <2>9. Leaves(a, hp, buf, r)
    BY <2>3, <2>6, <2>8, FrontMoves
  <2> QED
    BY <2>1, <2>2, <2>4, <2>5, <2>7, <2>9 DEF Leaves, hp
<1>4. InstanceInit => FlowInv
  BY FlowInit
<1>5. FlowInv /\ [InstanceNext]_vars => FlowInv'
  BY FlowInvStep
<1> QED
  BY <1>1, <1>2, <1>3, <1>4, <1>5, PTL DEF InstanceSpec

-----------------------------------------------------------------------------
(* The requests in the stream of the platform.                             *)

\* The request of an event of the stream, 0 if it has none.
ReqAt(k) == IF stream[k].req \in Requests THEN stream[k].req ELSE 0

Is(k, kind, r) == stream[k].kind = kind /\ ReqAt(k) = r

\* The events of an invocation that say where it is.
Milestones == {"PlatformStart", "PlatformRuntimeDone", "PlatformReport"}

\* The events of a request come after the report of the request before, its start is the
\* first of them and its report the last.  What has no request comes before all that has one.
RequestsInOrder ==
  /\ \A i \in 1..Len(stream) : ReqAt(i) <= current
  /\ \A i, j \in 1..Len(stream) : i < j => ReqAt(i) <= ReqAt(j)
  /\ \A i, j \in 1..Len(stream) : i < j /\ Is(i, "PlatformReport", ReqAt(j)) => ReqAt(j) = 0
  /\ \A j \in 1..Len(stream) : ReqAt(j) > 0 =>
       \E i \in 1..j : Is(i, "PlatformStart", ReqAt(j))
  /\ \A j \in 1..Len(stream) : \A r \in 1..(ReqAt(j) - 1) :
       \E i \in 1..(j - 1) : Is(i, "PlatformReport", r)

\* A runtime is done once.
DoneOnce ==
  \A i, j \in 1..Len(stream) :
    /\ stream[i].kind = "PlatformRuntimeDone" /\ stream[j].kind = "PlatformRuntimeDone"
    /\ ReqAt(i) = ReqAt(j) /\ ReqAt(i) > 0
    => i = j

\* An instance begins with its init, after what a previous one left.
InitRecorded ==
  /\ \A i \in 1..Len(stream) : stream[i].kind \in Milestones /\ ReqAt(i) = 0 =>
       \E j \in (i + 1)..Len(stream) : stream[j].kind = "PlatformInitStart"
  /\ \E j \in 1..Len(stream) : stream[j].kind = "PlatformInitStart"

\* What the phase says of the current request.
PhaseRecorded ==
  /\ phase = "init" => current = 0
  /\ phase \in {"idle", "stopped"} =>
       \A r \in 1..current : \E i \in 1..Len(stream) : Is(i, "PlatformReport", r)
  /\ phase = "running" => \A i \in 1..Len(stream) : ~Is(i, "PlatformRuntimeDone", current)
  /\ phase \in {"running", "over"} =>
       /\ \E i \in 1..Len(stream) : Is(i, "PlatformStart", current)
       /\ \A i \in 1..Len(stream) : ~Is(i, "PlatformReport", current)

PairedStream == RequestsInOrder /\ DoneOnce /\ InitRecorded /\ PhaseRecorded

\* Requests are numbers, and 0 is none of them.
LEMMA RequestNumbers ==
  ASSUME PlatformInv
  PROVE  /\ NumRequests \in Nat /\ Requests = 1..NumRequests /\ NoRequest \notin Requests
         /\ current \in Nat /\ Len(stream) \in Nat /\ delivered \in Nat
         /\ delivered <= Len(stream)
         /\ \A k \in 1..Len(stream) : ReqAt(k) \in 0..NumRequests
         /\ \A k \in 1..Len(stream) : ReqAt(k) > 0 => stream[k].req = ReqAt(k)
         /\ phase \in {"running", "over"} => current > 0
  BY InstanceAssumption, ProcessorAssumption DEF PlatformInv, ReqAt

\* What a step that records telemetry adds to the stream.
LEMMA RecordedRequests ==
  ASSUME PlatformInv, NEW K, NEW req \in Requests \cup {NoRequest}, Adds(K, req)
  PROVE  /\ Len(stream) \in Nat /\ Len(stream') \in Nat /\ Len(stream) <= Len(stream')
         /\ \A k \in 1..Len(stream) :
              k \in 1..Len(stream') /\ stream'[k] = stream[k] /\ ReqAt(k)' = ReqAt(k)
         /\ \A k \in 1..Len(stream') : k \notin 1..Len(stream) =>
              /\ k > Len(stream) /\ stream'[k].kind \in K
              /\ ReqAt(k)' = IF req \in Requests THEN req ELSE 0
  BY DEF Adds, ReqAt

\* The stream begins with an init, and without a request.
LEMMA PairedInit == ASSUME InstanceInit PROVE PairedStream
<1>1. /\ Len(stream) \in Nat \ {0}
      /\ \A i \in 1..Len(stream) : ReqAt(i) = 0
      /\ stream[Len(stream)].kind = "PlatformInitStart"
      /\ phase = "init" /\ current = 0
  BY FirstStream, ProcessorAssumption DEF InstanceInit, ReqAt
<1>2. RequestsInOrder
  <2>1. \A j \in 1..Len(stream) : 1..(ReqAt(j) - 1) = {}
    BY <1>1
  <2> QED
    BY <1>1, <2>1 DEF RequestsInOrder
<1>3. DoneOnce
  BY <1>1 DEF DoneOnce
<1>4. InitRecorded
  <2>1. ASSUME NEW i \in 1..Len(stream), stream[i].kind \in Milestones
        PROVE  Len(stream) \in (i + 1)..Len(stream)
    BY <1>1, <2>1 DEF Milestones
  <2> QED
    BY <1>1, <2>1 DEF InitRecorded
<1> QED
  BY <1>1, <1>2, <1>3, <1>4 DEF PairedStream, PhaseRecorded

\* During the init nothing that is recorded has a request.
LEMMA InitRecording ==
  ASSUME PlatformInv, PairedStream, phase = "init", phase' \in {"init", "idle"},
         current' = current,
         NEW K, K \cap Milestones = {}, Adds(K, NoRequest)
  PROVE  PairedStream'
<1>1. current = 0 /\ NoRequest \notin Requests
  BY RequestNumbers DEF PairedStream, PhaseRecorded
<1>2. /\ Len(stream) \in Nat /\ Len(stream') \in Nat /\ Len(stream) <= Len(stream')
      /\ \A k \in 1..Len(stream) :
           k \in 1..Len(stream') /\ stream'[k] = stream[k] /\ ReqAt(k)' = ReqAt(k)
      /\ \A k \in 1..Len(stream') : k \notin 1..Len(stream) =>
           k > Len(stream) /\ stream'[k].kind \in K /\ ReqAt(k)' = 0
  BY <1>1, RecordedRequests
<1>3. \A k \in 1..Len(stream) : ReqAt(k) = 0
  BY <1>1, RequestNumbers DEF PairedStream, RequestsInOrder
<1>4. \A k \in 1..Len(stream') : ReqAt(k)' = 0
  BY <1>2, <1>3
<1>5. RequestsInOrder'
  <2>1. \A j \in 1..Len(stream') : 1..(ReqAt(j)' - 1) = {}
    BY <1>4
  <2> QED
    BY <1>1, <1>4, <2>1 DEF RequestsInOrder
<1>6. DoneOnce'
  BY <1>4 DEF DoneOnce
<1>7. InitRecorded'
  <2>1. ASSUME NEW i \in 1..Len(stream'), stream'[i].kind \in Milestones
        PROVE  \E j \in (i + 1)..Len(stream') : stream'[j].kind = "PlatformInitStart"
    <3>1. i \in 1..Len(stream)
      BY <1>2, <2>1
    <3>2. PICK j \in (i + 1)..Len(stream) : stream[j].kind = "PlatformInitStart"
      BY <1>2, <1>3, <2>1, <3>1 DEF PairedStream, InitRecorded
    <3>3. j \in 1..Len(stream) /\ j \in (i + 1)..Len(stream')
      BY <1>2, <3>2
    <3> QED
      BY <1>2, <3>2, <3>3
  <2> QED
    BY <1>2, <2>1 DEF PairedStream, InitRecorded
<1>8. PhaseRecorded'
  BY <1>1 DEF PhaseRecorded
<1> QED
  BY <1>5, <1>6, <1>7, <1>8 DEF PairedStream

\* What is recorded of a request keeps the order of requests, if it belongs there.
LEMMA RequestRecorded ==
  ASSUME PlatformInv, PairedStream, NEW K, NEW req \in Requests, Adds(K, req),
         current' = req,
         req \in {current, current + 1},
         \A i \in 1..Len(stream) : ~Is(i, "PlatformReport", req),
         \A r \in 1..(req - 1) : \E i \in 1..Len(stream) : Is(i, "PlatformReport", r),
         K = {"PlatformStart"} \/ (\E i \in 1..Len(stream) : Is(i, "PlatformStart", req)),
         "PlatformReport" \in K => Len(stream') = Len(stream) + 1
  PROVE  RequestsInOrder' /\ InitRecorded'
<1>1. /\ Len(stream) \in Nat /\ Len(stream') \in Nat /\ Len(stream) <= Len(stream')
      /\ \A k \in 1..Len(stream) :
           k \in 1..Len(stream') /\ stream'[k] = stream[k] /\ ReqAt(k)' = ReqAt(k)
      /\ \A k \in 1..Len(stream') : k \notin 1..Len(stream) =>
           k > Len(stream) /\ stream'[k].kind \in K /\ ReqAt(k)' = req
  BY RecordedRequests
<1>2. /\ req \in Nat /\ req > 0 /\ current \in Nat
      /\ \A k \in 1..Len(stream) : ReqAt(k) \in Nat /\ ReqAt(k) <= current
  BY RequestNumbers DEF PairedStream, RequestsInOrder
<1>3. \A k \in 1..Len(stream') : ReqAt(k)' \in Nat /\ ReqAt(k)' <= req
  <2>1. \A k \in 1..Len(stream) : ReqAt(k)' \in Nat /\ ReqAt(k)' <= req
    BY <1>1, <1>2
  <2> QED
    BY <1>1, <1>2, <2>1
<1>4. ASSUME NEW i \in 1..Len(stream'), NEW j \in 1..Len(stream'), i < j
      PROVE  ReqAt(i)' <= ReqAt(j)'
  <2>1. CASE j \in 1..Len(stream)
    BY <1>1, <1>4, <2>1 DEF PairedStream, RequestsInOrder
  <2>2. CASE j \notin 1..Len(stream)
    BY <1>1, <1>3, <2>2
  <2> QED
    BY <2>1, <2>2
<1>5. ASSUME NEW i \in 1..Len(stream'), NEW j \in 1..Len(stream'), i < j,
             stream'[i].kind = "PlatformReport", ReqAt(i)' = ReqAt(j)'
      PROVE  ReqAt(j)' = 0
  <2>1. CASE j \in 1..Len(stream)
    <3>1. i \in 1..Len(stream)
      BY <1>1, <1>5, <2>1
    <3> QED
      BY <1>1, <1>5, <2>1, <3>1 DEF PairedStream, RequestsInOrder, Is
  <2>2. CASE j \notin 1..Len(stream) /\ i \in 1..Len(stream)
    <3>1. ReqAt(i) = req /\ stream[i].kind = "PlatformReport"
      BY <1>1, <1>5, <2>2
    <3> QED
      BY <1>2, <2>2, <3>1 DEF Is
  <2>3. CASE i \notin 1..Len(stream)
    <3>1. stream'[i].kind \in K /\ i > Len(stream)
      BY <1>1, <2>3
    <3>2. Len(stream') = Len(stream) + 1
      BY <1>5, <3>1
    <3> QED
      BY <1>1, <1>5, <3>1, <3>2
  <2> QED
    BY <2>1, <2>2, <2>3
<1>6. ASSUME NEW j \in 1..Len(stream'), ReqAt(j)' > 0
      PROVE  \E i \in 1..j : stream'[i].kind = "PlatformStart" /\ ReqAt(i)' = ReqAt(j)'
  <2>1. CASE j \in 1..Len(stream)
    <3>1. PICK i \in 1..j : Is(i, "PlatformStart", ReqAt(j))
      BY <1>1, <1>6, <2>1 DEF PairedStream, RequestsInOrder
    <3> QED
      BY <1>1, <2>1, <3>1 DEF Is
  <2>2. CASE j \notin 1..Len(stream)
    <3>1. j > Len(stream) /\ ReqAt(j)' = req /\ stream'[j].kind \in K
      BY <1>1, <2>2
    <3>2. CASE K = {"PlatformStart"}
      BY <3>1, <3>2
    <3>3. CASE K # {"PlatformStart"}
      <4>1. PICK i \in 1..Len(stream) : Is(i, "PlatformStart", req)
        BY <3>3
      <4>2. i \in 1..j
        BY <1>1, <3>1, <4>1
      <4> QED
        BY <1>1, <3>1, <4>1, <4>2 DEF Is
    <3> QED
      BY <3>2, <3>3
  <2> QED
    BY <2>1, <2>2
<1>7. ASSUME NEW j \in 1..Len(stream'), NEW r \in 1..(ReqAt(j)' - 1)
      PROVE  \E i \in 1..(j - 1) : stream'[i].kind = "PlatformReport" /\ ReqAt(i)' = r
  <2>1. CASE j \in 1..Len(stream)
    <3>0. r \in 1..(ReqAt(j) - 1)
      BY <1>1, <2>1
    <3>1. PICK i \in 1..(j - 1) : Is(i, "PlatformReport", r)
      BY <2>1, <3>0 DEF PairedStream, RequestsInOrder
    <3>2. i \in 1..Len(stream)
      BY <1>1, <2>1
    <3> QED
      BY <1>1, <3>1, <3>2 DEF Is
  <2>2. CASE j \notin 1..Len(stream)
    <3>1. j > Len(stream) /\ r \in 1..(req - 1)
      BY <1>1, <2>2
    <3>2. PICK i \in 1..Len(stream) : Is(i, "PlatformReport", r)
      BY <1>2, <3>1
    <3>3. i \in 1..(j - 1)
      BY <1>1, <3>1, <3>2
    <3> QED
      BY <1>1, <3>2, <3>3 DEF Is
  <2> QED
    BY <2>1, <2>2
<1>8. RequestsInOrder'
  BY <1>3, <1>4, <1>5, <1>6, <1>7 DEF RequestsInOrder, Is
<1>9. InitRecorded'
  <2>1. ASSUME NEW i \in 1..Len(stream'), stream'[i].kind \in Milestones, ReqAt(i)' = 0
        PROVE  \E j \in (i + 1)..Len(stream') : stream'[j].kind = "PlatformInitStart"
    <3>1. i \in 1..Len(stream)
      BY <1>1, <1>2, <2>1
    <3>2. PICK j \in (i + 1)..Len(stream) : stream[j].kind = "PlatformInitStart"
      BY <1>1, <2>1, <3>1 DEF PairedStream, InitRecorded
    <3>3. j \in 1..Len(stream) /\ j \in (i + 1)..Len(stream')
      BY <1>1, <3>2
    <3> QED
      BY <1>1, <3>2, <3>3
  <2> QED
    BY <1>1, <2>1 DEF PairedStream, InitRecorded
<1> QED
  BY <1>8, <1>9

\* The current invocation goes on: what the platform records of it.
LEMMA InvocationRecording ==
  ASSUME PlatformInv, PairedStream, phase \in {"running", "over"},
         WriteLog \/ FunctionEnds \/ InvocationEnds
  PROVE  PairedStream'
<1> DEFINE K == IF FunctionEnds THEN {"PlatformRuntimeDone"}
                ELSE IF InvocationEnds THEN {"PlatformReport"} ELSE {"Function", "EpsagonTrace"}
<1>1. /\ current \in Requests /\ current' = current
      /\ FunctionEnds => phase = "running" /\ phase' = "over"
      /\ InvocationEnds => phase = "over" /\ phase' = "idle"
      /\ WriteLog => phase' = phase
      /\ ~(FunctionEnds /\ InvocationEnds)
  BY DEF PlatformInv, WriteLog, FunctionEnds, InvocationEnds
<1>2. /\ FunctionEnds => Grows(<<"PlatformRuntimeDone">>, current)
      /\ InvocationEnds => Grows(<<"PlatformReport">>, current)
  BY RecordingGrows DEF Recording
<1>3. Adds(K, current)
  BY <1>1, RecordingAdds DEF Recording
<1>4. FunctionEnds \/ InvocationEnds => Len(stream') = Len(stream) + 1
  <2>1. Len(<<"PlatformRuntimeDone">>) = 1 /\ Len(<<"PlatformReport">>) = 1
    OBVIOUS
  <2> QED
    BY <1>2, <2>1 DEF Grows
<1>5. /\ "PlatformReport" \in K => Len(stream') = Len(stream) + 1
      /\ "PlatformRuntimeDone" \in K => Len(stream') = Len(stream) + 1
      /\ FunctionEnds <=> "PlatformRuntimeDone" \in K
      /\ ~FunctionEnds => (InvocationEnds <=> "PlatformReport" \in K)
  BY <1>4
<1>6. /\ Len(stream) \in Nat /\ Len(stream') \in Nat /\ Len(stream) <= Len(stream')
      /\ \A k \in 1..Len(stream) :
           k \in 1..Len(stream') /\ stream'[k] = stream[k] /\ ReqAt(k)' = ReqAt(k)
      /\ \A k \in 1..Len(stream') : k \notin 1..Len(stream) =>
           k > Len(stream) /\ stream'[k].kind \in K /\ ReqAt(k)' = current
  BY <1>1, <1>3, RecordedRequests
<1> HIDE DEF K
<1>7. /\ \A i \in 1..Len(stream) : ~Is(i, "PlatformReport", current)
      /\ \E i \in 1..Len(stream) : Is(i, "PlatformStart", current)
  BY DEF PairedStream, PhaseRecorded
<1>8. \A r \in 1..(current - 1) : \E i \in 1..Len(stream) : Is(i, "PlatformReport", r)
  <2> SUFFICES ASSUME NEW r \in 1..(current - 1)
               PROVE  \E i \in 1..Len(stream) : Is(i, "PlatformReport", r)
    OBVIOUS
  <2>1. PICK j \in 1..Len(stream) : Is(j, "PlatformStart", current)
    BY <1>7
  <2>2. PICK i \in 1..(j - 1) : Is(i, "PlatformReport", r)
    BY <2>1 DEF PairedStream, RequestsInOrder, Is
  <2> QED
    BY <1>6, <2>1, <2>2
<1>9. RequestsInOrder' /\ InitRecorded'
  BY <1>1, <1>3, <1>5, <1>7, <1>8, RequestRecorded
<1>10. DoneOnce'
  <2> SUFFICES ASSUME NEW i \in 1..Len(stream'), NEW j \in 1..Len(stream'),
                      stream'[i].kind = "PlatformRuntimeDone", stream'[j].kind = "PlatformRuntimeDone",
                      ReqAt(i)' = ReqAt(j)', ReqAt(i)' > 0
               PROVE  i = j
    BY DEF DoneOnce
  <2>1. CASE i \in 1..Len(stream) /\ j \in 1..Len(stream)
    BY <1>6, <2>1 DEF PairedStream, DoneOnce
  <2>2. CASE FunctionEnds
    <3>1. \A k \in 1..Len(stream) : ~Is(k, "PlatformRuntimeDone", current)
      BY <1>1, <2>2 DEF PairedStream, PhaseRecorded
    <3>2. Len(stream') = Len(stream) + 1
      BY <1>4, <2>2
    <3> QED
      BY <1>6, <2>1, <3>1, <3>2 DEF Is
  <2>3. CASE ~FunctionEnds
    BY <1>5, <1>6, <2>1, <2>3
  <2> QED
    BY <2>2, <2>3
<1>11. PhaseRecorded'
  <2>1. phase' # "init"
    BY <1>1
  <2>2. ASSUME phase' \in {"idle", "stopped"}, NEW r \in 1..current'
        PROVE  \E i \in 1..Len(stream') : stream'[i].kind = "PlatformReport" /\ ReqAt(i)' = r
    <3>1. InvocationEnds
      BY <1>1, <2>2
    <3>2. CASE r = current
      <4>1. Len(stream') = Len(stream) + 1 /\ K = {"PlatformReport"}
        BY <1>1, <1>4, <3>1 DEF K
      <4>2. Len(stream') \in 1..Len(stream') /\ Len(stream') \notin 1..Len(stream)
        BY <1>6, <4>1
      <4> QED
        BY <1>6, <3>2, <4>1, <4>2
    <3>3. CASE r # current
      <4>0. r \in 1..(current - 1)
        BY <1>1, <2>2, <3>3, RequestNumbers
      <4>1. PICK i \in 1..Len(stream) : Is(i, "PlatformReport", r)
        BY <1>8, <4>0
      <4> QED
        BY <1>6, <4>1 DEF Is
    <3> QED
      BY <3>2, <3>3
  <2>3. ASSUME phase' = "running", NEW i \in 1..Len(stream')
        PROVE  ~(stream'[i].kind = "PlatformRuntimeDone" /\ ReqAt(i)' = current)
    <3>1. ~FunctionEnds /\ phase = "running"
      BY <1>1, <2>3
    <3>2. CASE i \in 1..Len(stream)
      BY <1>6, <3>1, <3>2 DEF PairedStream, PhaseRecorded, Is
    <3>3. CASE i \notin 1..Len(stream)
      BY <1>5, <1>6, <3>1, <3>3
    <3> QED
      BY <3>2, <3>3
  <2>4. ASSUME phase' \in {"running", "over"}
        PROVE  /\ \E i \in 1..Len(stream') : stream'[i].kind = "PlatformStart" /\ ReqAt(i)' = current
               /\ \A i \in 1..Len(stream') : ~(stream'[i].kind = "PlatformReport" /\ ReqAt(i)' = current)
    <3>1. ~InvocationEnds /\ "PlatformReport" \notin K
      BY <1>1, <2>4 DEF K
    <3> QED
      BY <1>6, <1>7, <3>1 DEF Is
  <2> QED
    BY <1>1, <2>1, <2>2, <2>3, <2>4 DEF PhaseRecorded, Is
<1> QED
  BY <1>9, <1>10, <1>11 DEF PairedStream

\* A new invocation begins.
LEMMA InvokeRecording ==
  ASSUME PlatformInv, PairedStream, InvokeFunction
  PROVE  PairedStream'
<1>1. /\ current + 1 \in Requests /\ current' = current + 1 /\ phase = "idle" /\ phase' = "running"
      /\ Adds({"PlatformStart"}, current + 1) /\ Grows(<<"PlatformStart">>, current + 1)
      /\ current \in Nat
  BY RecordingAdds, RecordingGrows, RequestNumbers DEF Recording, InvokeFunction
<1>2. /\ Len(stream) \in Nat /\ Len(stream') \in Nat /\ Len(stream) <= Len(stream')
      /\ \A k \in 1..Len(stream) :
           k \in 1..Len(stream') /\ stream'[k] = stream[k] /\ ReqAt(k)' = ReqAt(k)
      /\ \A k \in 1..Len(stream') : k \notin 1..Len(stream) =>
           k > Len(stream) /\ stream'[k].kind \in {"PlatformStart"} /\ ReqAt(k)' = current + 1
  BY <1>1, RecordedRequests
<1>3. \A k \in 1..Len(stream) : ReqAt(k) \in Nat /\ ReqAt(k) <= current
  BY RequestNumbers DEF PairedStream, RequestsInOrder
<1>4. \A r \in 1..current : \E i \in 1..Len(stream) : Is(i, "PlatformReport", r)
  BY <1>1 DEF PairedStream, PhaseRecorded
<1>5. \A i \in 1..Len(stream) : ~Is(i, "PlatformReport", current + 1)
  BY <1>1, <1>3 DEF Is
<1>6. RequestsInOrder' /\ InitRecorded'
  <2> DEFINE K == {"PlatformStart"}
             r == current + 1
  <2>1. /\ r \in Requests /\ Adds(K, r) /\ current' = r /\ r \in {current, current + 1}
        /\ \A i \in 1..Len(stream) : ~Is(i, "PlatformReport", r)
        /\ \A q \in 1..(r - 1) : \E i \in 1..Len(stream) : Is(i, "PlatformReport", q)
        /\ K = {"PlatformStart"} /\ "PlatformReport" \notin K
    BY <1>1, <1>4, <1>5
  <2> HIDE DEF K, r
  <2> QED
    BY <2>1, RequestRecorded
<1>7. DoneOnce'
  BY <1>2 DEF DoneOnce, PairedStream
<1>8. PhaseRecorded'
  <2>1. Len(stream') = Len(stream) + 1
    <3>1. Len(<<"PlatformStart">>) = 1
      OBVIOUS
    <3> QED
      BY <1>1, <3>1 DEF Grows
  <2>2. \E i \in 1..Len(stream') : stream'[i].kind = "PlatformStart" /\ ReqAt(i)' = current'
    <3>1. Len(stream') \in 1..Len(stream') /\ Len(stream') \notin 1..Len(stream)
      BY <1>2, <2>1
    <3> QED
      BY <1>1, <1>2, <3>1
  <2>3. \A i \in 1..Len(stream') :
          ReqAt(i)' = current' => stream'[i].kind \notin {"PlatformRuntimeDone", "PlatformReport"}
    BY <1>1, <1>2, <1>3
  <2> QED
    BY <1>1, <2>2, <2>3 DEF PhaseRecorded, Is
<1> QED
  BY <1>6, <1>7, <1>8 DEF PairedStream

\* The stream of the platform stays well paired.
LEMMA PairedStep ==
  ASSUME PlatformInv, PairedStream, [InstanceNext]_vars
  PROVE  PairedStream'
<1>1. CASE InitRestarts \/ InitEnds \/ (WriteLog /\ phase = "init")
  <2>1. /\ phase = "init" /\ phase' \in {"init", "idle"} /\ current' = current
        /\ \E K : K \cap Milestones = {} /\ Adds(K, NoRequest)
    <3>1. CASE InitRestarts
      <4>1. Adds({"PlatformInitStart"}, NoRequest) /\ {"PlatformInitStart"} \cap Milestones = {}
        BY <3>1, RecordingAdds DEF Recording, Milestones
      <4> QED
        BY <3>1, <4>1 DEF InitRestarts
    <3>2. CASE InitEnds
      <4> DEFINE K == {"PlatformInitRuntimeDone", "PlatformInitReport"}
      <4>1. Adds(K, NoRequest) /\ K \cap Milestones = {}
        BY <3>2, RecordingAdds DEF Recording, Milestones
      <4> QED
        BY <3>2, <4>1 DEF InitEnds
    <3>3. CASE WriteLog /\ phase = "init"
      <4> DEFINE K == {"Function", "EpsagonTrace"}
      <4>1. Adds(K, NoRequest) /\ K \cap Milestones = {}
        BY <3>3, RecordingAdds DEF Recording, Milestones
      <4> QED
        BY <3>3, <4>1 DEF WriteLog
    <3> QED
      BY <1>1, <3>1, <3>2, <3>3
  <2> QED
    BY <2>1, InitRecording
<1>2. CASE (WriteLog /\ phase # "init") \/ FunctionEnds \/ InvocationEnds
  BY <1>2, InvocationRecording DEF WriteLog, FunctionEnds, InvocationEnds
<1>3. CASE InvokeFunction
  BY <1>3, InvokeRecording
<1>4. CASE ~Recording
  <2>1. stream' = stream /\ current' = current /\ (phase' = phase \/ DeliverShutdown)
    BY <1>4 DEF InstanceNext, Recording, DeliverInvoke, DeliverShutdown, DeliverTelemetry, ExportSpan,
                ExportMetric, ServiceStep, AdvanceClock, Terminated, vars, platformVars
  <2>2. \A k : ReqAt(k)' = ReqAt(k)
    BY <2>1 DEF ReqAt
  <2>3. PhaseRecorded'
    <3>1. CASE phase' = phase
      BY <2>1, <2>2, <3>1 DEF PairedStream, PhaseRecorded, Is
    <3>2. CASE DeliverShutdown
      <4>1. phase \in {"init", "idle"} /\ phase' = "stopped"
        BY <3>2 DEF DeliverShutdown
      <4>2. phase = "init" => 1..current = {}
        BY DEF PairedStream, PhaseRecorded
      <4>3. \A r \in 1..current : \E i \in 1..Len(stream) : Is(i, "PlatformReport", r)
        BY <4>1, <4>2 DEF PairedStream, PhaseRecorded
      <4> QED
        BY <2>1, <2>2, <4>1, <4>3 DEF PhaseRecorded, Is
    <3> QED
      BY <2>1, <3>1, <3>2
  <2>4. RequestsInOrder' /\ DoneOnce' /\ InitRecorded'
    BY <2>1, <2>2 DEF PairedStream, RequestsInOrder, DoneOnce, InitRecorded, Is
  <2> QED
    BY <2>3, <2>4 DEF PairedStream
<1> QED
  BY <1>1, <1>2, <1>3, <1>4 DEF Recording

-----------------------------------------------------------------------------
(* The invoke events.                                                      *)

\* The last request the handler was called with, the last one it put in the queue, and the
\* last one that was taken from it.
Handled == IF handling \in Requests THEN handling ELSE 0

Enqueued == IF pc \in {"context", "drain", "enqueue"} THEN Handled - 1 ELSE Handled

Taken == Enqueued - Len(invoke_event_queue)

ShutdownSteps == {"grace", "flush", "flushing", "awaitLast", "done"}

\* The handler is called with each request in turn.
HandlerInv ==
  /\ Handled \in {current, current - 1}
  /\ Handled # current => pc = "ready" /\ phase \in {"running", "over"}
  /\ pc \notin {"ready"} \cup ShutdownSteps => phase \in {"running", "over"}

\* Requests wait in the queue in their order.
QueueInv ==
  /\ Len(invoke_event_queue) <= Enqueued
  /\ \A i \in 1..Len(invoke_event_queue) : invoke_event_queue[i].req = Taken + i

\* The handler's requests are numbers.
LEMMA HandlerNumbers ==
  ASSUME TypeOK, PlatformInv, HandlerInv
  PROVE  /\ Handled \in Nat /\ Enqueued \in Int /\ current \in Nat
         /\ Len(invoke_event_queue) \in Nat /\ Taken \in Int
         /\ pc \notin {"ready"} \cup ShutdownSteps => Handled = current /\ current > 0
         /\ pc \in {"context", "drain", "enqueue"} => Enqueued = Handled - 1
         /\ pc \notin {"context", "drain", "enqueue"} => Enqueued = Handled
         /\ Enqueued \in Nat
<1>1. /\ Handled \in Nat /\ Len(invoke_event_queue) \in Nat /\ current \in Nat
      /\ phase \in {"running", "over"} => current > 0
  BY RequestNumbers DEF Handled, TypeOK, InputTypes
<1>2. pc \notin {"ready"} \cup ShutdownSteps => Handled = current /\ current > 0
  BY <1>1 DEF HandlerInv
<1>3. pc \in {"context", "drain", "enqueue"} => pc \notin {"ready"} \cup ShutdownSteps
  BY DEF ShutdownSteps
<1>4. Enqueued \in Nat
  BY <1>1, <1>2, <1>3 DEF Enqueued
<1> QED
  BY <1>1, <1>2, <1>4 DEF Enqueued, Taken

\* At the start no request was handled.
LEMMA InvocationInit == ASSUME InstanceInit PROVE HandlerInv /\ QueueInv /\ Taken = 0
<1>1. handling \notin Requests /\ pc = "ready" /\ current = 0 /\ invoke_event_queue = <<>>
  BY ProcessorAssumption DEF InstanceInit, Init
<1>2. Handled = 0 /\ Enqueued = 0 /\ Len(invoke_event_queue) = 0
  <2>1. Handled = 0 /\ Len(<<>>) = 0
    BY <1>1 DEF Handled
  <2> QED
    BY <1>1, <2>1 DEF Enqueued
<1>3. HandlerInv
  BY <1>1, <1>2 DEF HandlerInv
<1>4. Taken = 0
  BY <1>2 DEF Taken
<1>5. QueueInv
  <2>1. 1..0 = {}
    OBVIOUS
  <2> QED
    BY <1>2, <2>1 DEF QueueInv
<1> QED
  BY <1>3, <1>4, <1>5

\* The steps that leave the handler where it is.
LEMMA OthersLeaveHandler ==
  ASSUME [InstanceNext]_vars, ~InvokeFunction, ~FunctionEnds, ~InvocationEnds, ~InitEnds,
         ~DeliverInvoke, ~DeliverShutdown, ~(ServiceStep /\ HandlerStep)
  PROVE  UNCHANGED <<pc, handling, current, phase>>
<1>1. ASSUME ServiceStep PROVE UNCHANGED <<pc, handling, current, phase>>
  BY <1>1
  DEF ServiceStep, platformVars, ProcessingStep, TakeInvokeEvent, RejectInvokeEvent, HandleInitStart,
      BufferInitEvent, FinishInit, ProcessEvent, RejectEvent, ReplayInitEvent, ReplayEnds,
      DegradeEvent, DegradeEnds, FinishProcessing, TimerFires, SendEnds, handler
<1>2. ASSUME InitRestarts \/ WriteLog PROVE UNCHANGED <<pc, handling, current, phase>>
  BY <1>2 DEF InitRestarts, WriteLog, Happens, serviceVars, handler
<1>3. ASSUME DeliverTelemetry PROVE UNCHANGED <<pc, handling, current, phase>>
  BY <1>3 DEF DeliverTelemetry, HandleIncomingTelemetry, handler
<1>4. ASSUME ExportSpan \/ ExportMetric PROVE UNCHANGED <<pc, handling, current, phase>>
  BY <1>4 DEF ExportSpan, ExportMetric, HandleOtlpSpans, HandleOtlpMetrics, handler
<1>5. ASSUME AdvanceClock \/ Terminated \/ UNCHANGED vars
      PROVE  UNCHANGED <<pc, handling, current, phase>>
  BY <1>5 DEF AdvanceClock, Tick, Terminated, vars, serviceVars, platformVars, handler
<1> QED
  BY <1>1, <1>2, <1>3, <1>4, <1>5 DEF InstanceNext

\* The handler is called with every request.
LEMMA HandlerInvStep ==
  ASSUME TypeOK, PlatformInv, LoopShape, HandlerInv, [InstanceNext]_vars
  PROVE  HandlerInv'
<1>1. CASE InvokeFunction \/ FunctionEnds \/ InvocationEnds \/ InitEnds
  <2>1. UNCHANGED <<pc, handling>> /\ current \in Nat
    BY <1>1, RecordingGrows, RequestNumbers DEF Recording, serviceVars, handler
  <2>2. Handled' = Handled
    BY <2>1 DEF Handled
  <2>3. CASE InvokeFunction
    BY <2>1, <2>2, <2>3 DEF InvokeFunction, HandlerInv
  <2>4. CASE FunctionEnds \/ InitEnds
    BY <2>1, <2>2, <2>4 DEF FunctionEnds, InitEnds, HandlerInv
  <2>5. CASE InvocationEnds
    <3>1. handling = current /\ current \in Requests /\ phase' = "idle" /\ pc = "ready"
          /\ current' = current
      BY <2>5 DEF InvocationEnds, PlatformInv
    <3>2. Handled = current
      BY <3>1 DEF Handled
    <3> QED
      BY <2>1, <2>2, <3>1, <3>2 DEF HandlerInv
  <2> QED
    BY <1>1, <2>3, <2>4, <2>5
<1>2. CASE DeliverInvoke
  <2>1. /\ phase \in {"running", "over"} /\ current \in Requests /\ handling' = current
        /\ UNCHANGED <<phase, current>> /\ pc' = "context"
    BY <1>2 DEF DeliverInvoke, StartInvoke, PlatformInv, platformVars
  <2>2. Handled' = current
    BY <2>1 DEF Handled
  <2> QED
    BY <2>1, <2>2 DEF HandlerInv
<1>3. CASE DeliverShutdown
  <2>1. /\ phase \in {"init", "idle"} /\ UNCHANGED <<handling, current>>
        /\ pc' \in {"grace", "flush"} /\ phase' = "stopped"
    BY <1>3 DEF DeliverShutdown, StartShutdown
  <2>2. Handled' = Handled
    BY <2>1 DEF Handled
  <2> QED
    BY <2>1, <2>2 DEF HandlerInv, ShutdownSteps
<1>4. CASE ServiceStep /\ HandlerStep
  <2>1. UNCHANGED <<handling, current, phase>>
    BY <1>4
    DEF ServiceStep, platformVars, HandlerStep, ObtainFunctionContext,
        FailToObtainFunctionContext, DrainSignals, ReceiveSignal, ForbidOtel, AwaitInFlightSends,
        AwaitTimesOut, PermitOtel, GraceElapses, FinishShutdown, EnqueueInvokeEvent,
        CheckShouldSend, FlushEnqueuedTelemetry, SendFlushed
  <2>2. \/ pc \notin {"ready"} \cup ShutdownSteps
        \/ pc \in ShutdownSteps /\ pc' \in ShutdownSteps
        \/ phase = "stopped" /\ pc' \in ShutdownSteps
    BY <1>4
    DEF HandlerStep, ObtainFunctionContext,
        FailToObtainFunctionContext, DrainSignals, ReceiveSignal, ForbidOtel, AwaitInFlightSends,
        AwaitTimesOut, PermitOtel, GraceElapses, FinishShutdown, EnqueueInvokeEvent,
        CheckShouldSend, FlushEnqueuedTelemetry, SendFlushed, ShutdownSteps, LoopShape
  <2>3. Handled' = Handled
    BY <2>1 DEF Handled
  <2> QED
    BY <2>1, <2>2, <2>3 DEF HandlerInv, ShutdownSteps
<1>5. CASE UNCHANGED <<pc, handling, current, phase>>
  BY <1>5 DEF HandlerInv, Handled
<1> QED
  BY <1>1, <1>2, <1>3, <1>4, <1>5, OthersLeaveHandler

\* What the pairing of invoke events with telemetry needs: an event whose timestamp cannot be
\* converted, and an invoke event whose ARN does not parse, are dropped with an error, and an
\* event of an invocation that the platform drops is missing when its time comes.
PairingConditions ==
  /\ CorruptEvents = {}
  /\ UnparsableArns = {}
  /\ LossyKinds \cap (Milestones \cup {"PlatformInitStart"}) = {}

\* What the steps need of these conditions: nothing that waits to be processed fails.
Orderly ==
  /\ \A x \in Waiting : x.ok
  /\ handling \notin UnparsableArns
  /\ \A i \in 1..Len(invoke_event_queue) : invoke_event_queue[i].req \notin UnparsableArns
  /\ LossyKinds \cap (Milestones \cup {"PlatformInitStart"}) = {}

\* A request is put in the queue once.
LEMMA EnqueuedStep ==
  ASSUME TypeOK, PlatformInv, LoopShape, HandlerInv, Orderly, [InstanceNext]_vars
  PROVE  Enqueued' = IF EnqueueInvokeEvent THEN Enqueued + 1 ELSE Enqueued
<1>1. CASE InvokeFunction \/ FunctionEnds \/ InvocationEnds \/ InitEnds
  <2>1. UNCHANGED <<pc, handling>>
    BY <1>1, RecordingGrows DEF Recording, serviceVars, handler
  <2>2. ~EnqueueInvokeEvent
    BY <2>1 DEF EnqueueInvokeEvent
  <2> QED
    BY <2>1, <2>2 DEF Enqueued, Handled
<1>2. CASE DeliverInvoke
  <2>1. /\ phase \in {"running", "over"} /\ current \in Requests /\ handling' = current
        /\ pc = "ready" /\ pc' = "context" /\ handling # current
    BY <1>2 DEF DeliverInvoke, StartInvoke, PlatformInv
  <2>2. Handled' = current /\ Handled # current
    BY <2>1, RequestNumbers DEF Handled
  <2>3. Handled = current - 1 /\ ~EnqueueInvokeEvent
    BY <2>1, <2>2 DEF HandlerInv, EnqueueInvokeEvent
  <2> QED
    BY <2>1, <2>2, <2>3 DEF Enqueued
<1>3. CASE DeliverShutdown
  BY <1>3 DEF DeliverShutdown, StartShutdown, Enqueued, Handled, EnqueueInvokeEvent
<1>4. CASE ServiceStep /\ HandlerStep
  <2>1. UNCHANGED <<handling, current, phase>>
    BY <1>4
    DEF ServiceStep, platformVars, HandlerStep, ObtainFunctionContext,
        FailToObtainFunctionContext, DrainSignals, ReceiveSignal, ForbidOtel, AwaitInFlightSends,
        AwaitTimesOut, PermitOtel, GraceElapses, FinishShutdown, EnqueueInvokeEvent,
        CheckShouldSend, FlushEnqueuedTelemetry, SendFlushed
  <2>2. Handled' = Handled
    BY <2>1 DEF Handled
  <2>3. CASE EnqueueInvokeEvent
    <3>1. pc = "enqueue" /\ pc' = "check"
      BY <2>3 DEF EnqueueInvokeEvent
    <3> QED
      BY <2>2, <2>3, <3>1, HandlerNumbers DEF Enqueued
  <2>4. CASE SendFlushed
    <3>1. phase = "stopped" /\ pc' = "awaitLast" /\ ~EnqueueInvokeEvent
      BY <2>4 DEF SendFlushed, LoopShape, EnqueueInvokeEvent
    <3>2. pc \notin {"context", "drain", "enqueue"}
      BY <3>1 DEF HandlerInv, ShutdownSteps
    <3> QED
      BY <2>2, <3>1, <3>2 DEF Enqueued
  <2>5. CASE ~SendFlushed /\ ~EnqueueInvokeEvent
    <3>1. pc' \in {"context", "drain", "enqueue"} <=> pc \in {"context", "drain", "enqueue"}
      BY <1>4, <2>5
      DEF HandlerStep, ObtainFunctionContext,
          FailToObtainFunctionContext, DrainSignals, ReceiveSignal, ForbidOtel, AwaitInFlightSends,
          AwaitTimesOut, PermitOtel, GraceElapses, FinishShutdown,
          CheckShouldSend, FlushEnqueuedTelemetry, Orderly
    <3> QED
      BY <2>2, <2>5, <3>1 DEF Enqueued
  <2> QED
    BY <2>3, <2>4, <2>5
<1>5. CASE UNCHANGED <<pc, handling, current, phase>>
  BY <1>5 DEF Enqueued, Handled, EnqueueInvokeEvent
<1> QED
  BY <1>1, <1>2, <1>3, <1>4, <1>5, OthersLeaveHandler

\* Other steps than the two at its ends leave the requests in the queue as they are.
LEMMA QueueKeeps ==
  ASSUME TypeOK, PlatformInv, Orderly, [InstanceNext]_vars,
         ~TakeInvokeEvent, ~EnqueueInvokeEvent
  PROVE  /\ Len(invoke_event_queue') = Len(invoke_event_queue)
         /\ \A i \in 1..Len(invoke_event_queue) :
              invoke_event_queue'[i].req = invoke_event_queue[i].req
<1>1. invoke_event_queue \in Seq(InvokeEventDataWithSpans)
  BY DEF TypeOK, InputTypes
<1>2. CASE ExportSpan
  <2>1. PICK s : HandleOtlpSpans(<<s>>)
    BY <1>2 DEF ExportSpan
  <2>2. CASE SpansForQueuedInvoke(<<s>>)
    <3> DEFINE n == Len(invoke_event_queue)
    <3>1. /\ n \in 1..n
          /\ invoke_event_queue' = [invoke_event_queue EXCEPT ![n].spans = @ \o <<s>>]
      BY <1>1, <2>2 DEF SpansForQueuedInvoke
    <3>2. \A i \in 1..n : invoke_event_queue[i] \in InvokeEventDataWithSpans
      BY <1>1
    <3>3. Len(invoke_event_queue') = n
      BY <1>1, <3>1
    <3>4. \A i \in 1..n : invoke_event_queue'[i].req = invoke_event_queue[i].req
      BY <1>1, <3>1, <3>2 DEF InvokeEventDataWithSpans
    <3> QED
      BY <3>3, <3>4
  <2>3. CASE ~SpansForQueuedInvoke(<<s>>)
    BY <2>1, <2>3 DEF HandleOtlpSpans, SpansForNextInvoke, SpansForRunningInvoke
  <2> QED
    BY <2>2, <2>3
<1>3. CASE ~ExportSpan
  <2>1. CASE Recording \/ DeliverTelemetry \/ DeliverInvoke \/ DeliverShutdown \/ ExportMetric
               \/ AdvanceClock \/ Terminated \/ UNCHANGED vars
    BY <2>1, RecordingGrows
    DEF DeliverTelemetry, HandleIncomingTelemetry, DeliverInvoke, StartInvoke, DeliverShutdown,
        StartShutdown, ExportMetric, HandleOtlpMetrics, AdvanceClock, Tick, Terminated, vars,
        serviceVars, inputs
  <2>2. CASE ServiceStep
    <3>1. ~RejectInvokeEvent
      BY DEF RejectInvokeEvent, Orderly
    <3> QED
      BY <2>2, <3>1
      DEF ServiceStep, ProcessingStep, HandleInitStart,
          BufferInitEvent, FinishInit, ProcessEvent, RejectEvent, ReplayInitEvent, ReplayEnds,
          DegradeEvent, DegradeEnds, FinishProcessing, TimerFires, SendEnds, inputs,
          HandlerStep, ObtainFunctionContext,
          FailToObtainFunctionContext, DrainSignals, ReceiveSignal, ForbidOtel, AwaitInFlightSends,
          AwaitTimesOut, PermitOtel, GraceElapses, FinishShutdown,
          CheckShouldSend, FlushEnqueuedTelemetry, SendFlushed
  <2> QED
    BY <1>3, <2>1, <2>2 DEF InstanceNext, Recording
<1> QED
  BY <1>2, <1>3

\* Requests are put in the queue, and taken from it, in their order.
LEMMA QueueStep ==
  ASSUME TypeOK, PlatformInv, LoopShape, HandlerInv, QueueInv, Orderly,
         [InstanceNext]_vars
  PROVE  /\ QueueInv'
         /\ Taken' = IF TakeInvokeEvent THEN Taken + 1 ELSE Taken
         /\ TakeInvokeEvent => Head(invoke_event_queue).req = Taken + 1
<1> DEFINE q == invoke_event_queue
<1>1. /\ q \in Seq(InvokeEventDataWithSpans) /\ Len(q) \in Nat
      /\ Enqueued \in Nat /\ Taken = Enqueued - Len(q)
      /\ Enqueued' = IF EnqueueInvokeEvent THEN Enqueued + 1 ELSE Enqueued
  BY HandlerNumbers, EnqueuedStep DEF TypeOK, InputTypes, Taken
<1>2. Taken' = Enqueued' - Len(q')
  BY DEF Taken
<1>3. Len(q) <= Enqueued /\ \A i \in 1..Len(q) : q[i].req = Taken + i
  BY DEF QueueInv
<1>4. CASE TakeInvokeEvent
  <2>1. q # <<>> /\ q' = Tail(q) /\ ~EnqueueInvokeEvent
    BY <1>4 DEF TakeInvokeEvent, EnqueueInvokeEvent, MutexFree
  <2>2. Len(q') = Len(q) - 1 /\ Head(q) = q[1] /\ Len(q) > 0
    BY <1>1, <2>1
  <2>3. ASSUME NEW i \in 1..Len(q') PROVE q'[i].req = Taken + 1 + i
    <3>1. q'[i] = q[i + 1] /\ i + 1 \in 1..Len(q)
      BY <1>1, <2>1, <2>2
    <3> QED
      BY <1>1, <1>3, <3>1
  <2>4. Taken' = Taken + 1
    BY <1>1, <1>2, <2>1, <2>2
  <2>5. q[1].req = Taken + 1
    BY <1>1, <1>3, <2>2
  <2>6. QueueInv'
    BY <1>1, <1>3, <2>1, <2>2, <2>3, <2>4 DEF QueueInv
  <2> QED
    BY <1>4, <2>2, <2>4, <2>5, <2>6
<1>5. CASE EnqueueInvokeEvent
  <2>1. /\ q' = Append(q, [req |-> handling, spans |-> <<>>]) /\ ~TakeInvokeEvent
        /\ pc = "enqueue"
    BY <1>5 DEF TakeInvokeEvent, EnqueueInvokeEvent, MutexFree
  <2>2. handling = Enqueued + 1
    <3>1. Handled = current /\ current > 0 /\ Enqueued = Handled - 1 /\ Handled \in Nat
      BY <2>1, HandlerNumbers DEF ShutdownSteps
    <3>2. handling = Handled
      BY <3>1 DEF Handled
    <3> QED
      BY <3>1, <3>2
  <2>3. Len(q') = Len(q) + 1
    BY <1>1, <2>1
  <2>4. Taken' = Taken /\ Taken \in Int
    BY <1>1, <1>2, <1>5, <2>3
  <2>5. ASSUME NEW i \in 1..Len(q') PROVE q'[i].req = Taken + i
    <3>1. CASE i \in 1..Len(q)
      BY <1>1, <1>3, <2>1, <3>1
    <3>2. CASE i \notin 1..Len(q)
      <4>1. i = Len(q) + 1 /\ q'[i].req = handling
        BY <1>1, <2>1, <2>3, <3>2
      <4> QED
        BY <1>1, <2>2, <4>1
    <3> QED
      BY <3>1, <3>2
  <2>6. Len(q') <= Enqueued'
    BY <1>1, <1>3, <1>5, <2>3
  <2> QED
    BY <2>1, <2>4, <2>5, <2>6 DEF QueueInv
<1>6. CASE ~TakeInvokeEvent /\ ~EnqueueInvokeEvent
  <2>1. Len(q') = Len(q) /\ \A i \in 1..Len(q) : q'[i].req = q[i].req
    BY <1>6, QueueKeeps
  <2>2. Taken' = Taken
    BY <1>1, <1>2, <1>6, <2>1
  <2> QED
    BY <1>1, <1>3, <1>6, <2>1, <2>2 DEF QueueInv
<1> QED
  BY <1>4, <1>5, <1>6

-----------------------------------------------------------------------------
(* The events that were taken from the queue.                              *)

\* How many events of the stream are behind the front of the queue.
Pos ==
  IF telemetry_event_queue = <<>> THEN delivered ELSE Head(telemetry_event_queue).id - 1

\* An event of the kind, of the request, was taken from the queue.
Seen(kind, r) == \E k \in 1..Pos : Is(k, kind, r)

\* The events by which the service finds its way.
Marks == Milestones \cup {"PlatformInitStart"}

\* The marks that were delivered and not taken yet wait in the queue.
MarksWait ==
  ~shutdown_flush_started =>
    \A k \in 1..delivered :
      k > Pos /\ stream[k].kind \in Marks => stream[k] \in ToSet(telemetry_event_queue)

\* What is taken from the queue beyond the position is no mark.
Passes(from) ==
  /\ Pos' \in Nat /\ from <= Pos' /\ Pos' <= delivered'
  /\ \A k \in (from + 1)..Pos' : stream'[k].kind \notin Marks

\* The steps that take an event from the queue.
Takes == (HandleInitStart \/ BufferInitEvent \/ ProcessEvent) /\ UNCHANGED platformVars

\* The first event of the queue is the next one in the stream.
LEMMA PosFacts ==
  ASSUME TypeOK, PlatformInv, InLine
  PROVE  /\ Pos \in Nat /\ delivered \in Nat /\ Len(stream) \in Nat
         /\ Pos <= delivered /\ delivered <= Len(stream)
         /\ telemetry_event_queue = <<>> => Pos = delivered
         /\ telemetry_event_queue # <<>> =>
              /\ NextEvent \in Event /\ NextEvent.id = Pos + 1 /\ stream[Pos + 1] = NextEvent
              /\ Pos + 1 \in 1..delivered /\ NextEvent \in ToSet(telemetry_event_queue)
         /\ \A x \in ToSet(telemetry_event_queue) :
              x.id > Pos /\ x.id \in 1..delivered /\ stream[x.id] = x
<1> DEFINE Q == ToSet(telemetry_event_queue)
<1>1. /\ delivered \in Nat /\ Len(stream) \in Nat /\ delivered <= Len(stream)
      /\ \A x \in Q : x.id \in 1..delivered /\ stream[x.id] = x
  BY DEF PlatformInv, InLine, Waiting
<1>2. CASE telemetry_event_queue = <<>>
  <2>1. Q = {}
    BY <1>2, SequenceFacts, Elements
  <2> QED
    BY <1>1, <1>2, <2>1 DEF Pos
<1>3. CASE telemetry_event_queue # <<>>
  <2>1. /\ NextEvent \in Event /\ Q = {NextEvent} \cup ToSet(Tail(telemetry_event_queue))
        /\ Before({NextEvent}, ToSet(Tail(telemetry_event_queue)))
    BY <1>3, SequenceFacts, ElementsTail, OrderTail DEF NextEvent, InLine
  <2>2. NextEvent.id \in 1..delivered /\ stream[NextEvent.id] = NextEvent /\ Pos = NextEvent.id - 1
    BY <1>1, <1>3, <2>1 DEF Pos, NextEvent
  <2>3. \A x \in Q : x.id > Pos
    BY <1>1, <2>1, <2>2 DEF Before
  <2> QED
    BY <1>1, <1>3, <2>1, <2>2, <2>3
<1> QED
  BY <1>2, <1>3

\* An event is taken from the queue.
LEMMA PosTakes ==
  ASSUME TypeOK, PlatformInv, InLine, MarksWait, telemetry_event_queue # <<>>,
         telemetry_event_queue' = Tail(telemetry_event_queue),
         delivered' = delivered, stream' = stream, shutdown_flush_started' = shutdown_flush_started,
         ~shutdown_flush_started
  PROVE  MarksWait' /\ Passes(Pos + 1)
<1> DEFINE tail == Tail(telemetry_event_queue)
           Q == ToSet(telemetry_event_queue)
<1>1. /\ Pos \in Nat /\ delivered \in Nat /\ Pos <= delivered
      /\ NextEvent.id = Pos + 1 /\ stream[Pos + 1] = NextEvent /\ Pos + 1 \in 1..delivered
      /\ \A x \in Q : x.id > Pos /\ x.id \in 1..delivered /\ stream[x.id] = x
      /\ \A k \in 1..delivered : stream[k].id = k
  BY PosFacts DEF PlatformInv
<1>2. /\ tail \in Seq(Event) /\ Q = {NextEvent} \cup ToSet(tail)
      /\ Before({NextEvent}, ToSet(tail)) /\ Ordered(tail)
  BY SequenceFacts, ElementsTail, OrderTail DEF NextEvent, InLine
<1>3. ASSUME NEW k \in 1..delivered, k > Pos + 1, stream[k].kind \in Marks
      PROVE  stream[k] \in ToSet(tail)
  <2>1. stream[k] \in Q /\ stream[k].id = k
    BY <1>1, <1>3 DEF MarksWait
  <2> QED
    BY <1>1, <1>2, <1>3, <2>1
<1>4. CASE tail = <<>>
  <2>1. Pos' = delivered /\ ToSet(tail) = {}
    BY <1>2, <1>4, Elements DEF Pos
  <2>2. \A k \in (Pos + 2)..delivered : stream[k].kind \notin Marks
    BY <1>1, <1>3, <2>1
  <2>3. Passes(Pos + 1)
    BY <1>1, <2>1, <2>2 DEF Passes
  <2>4. MarksWait'
    BY <1>1, <2>1 DEF MarksWait
  <2> QED
    BY <2>3, <2>4
<1>5. CASE tail # <<>>
  <2>1. /\ Head(tail) \in ToSet(tail) /\ ToSet(tail) = {Head(tail)} \cup ToSet(Tail(tail))
        /\ Before({Head(tail)}, ToSet(Tail(tail)))
    BY <1>2, <1>5, ElementsTail, OrderTail
  <2>2. Pos' = Head(tail).id - 1
    BY <1>5 DEF Pos
  <2> DEFINE h == Head(tail).id
  <2>8. Pos' = h - 1
    BY <2>2
  <2>3. h \in 1..delivered /\ h > Pos + 1
    <3>1. Head(tail) \in Q /\ NextEvent.id < Head(tail).id
      BY <1>2, <2>1 DEF Before
    <3> QED
      BY <1>1, <3>1
  <2>4. \A x \in ToSet(tail) : x.id = h \/ h < x.id
    BY <2>1 DEF Before
  <2> HIDE DEF h
  <2>5. ASSUME NEW k \in (Pos + 2)..(h - 1) PROVE stream[k].kind \notin Marks
    <3>1. k \in 1..delivered /\ k > Pos + 1 /\ k < h
      BY <1>1, <2>3
    <3>2. stream[k].id = k
      BY <1>1, <3>1
    <3>3. ~(h < k) /\ k # h
      BY <2>3, <3>1
    <3>4. stream[k] \notin ToSet(tail)
      BY <2>4, <3>2, <3>3
    <3> QED
      BY <1>3, <3>1, <3>4
  <2>6. Passes(Pos + 1)
    BY <1>1, <2>3, <2>5, <2>8 DEF Passes
  <2>7. MarksWait'
    <3>1. \A k \in 1..delivered : k > Pos' => k > Pos + 1
      BY <1>1, <2>3, <2>8
    <3> QED
      BY <1>1, <1>3, <3>1 DEF MarksWait
  <2> QED
    BY <2>6, <2>7
<1> QED
  BY <1>4, <1>5

\* No mark is lost on the way to the service.
LEMMA KeptMarks ==
  ASSUME PlatformInv, Orderly, NEW n \in Nat, delivered + n <= Len(stream),
         NEW lost \in SUBSET {e \in Event : e.kind \in LossyKinds},
         NEW k \in (delivered + 1)..(delivered + n), stream[k].kind \in Marks
  PROVE  stream[k] \in ToSet(Kept(n, lost))
<1>1. /\ Batch(n) \in Seq(Event) /\ Len(Batch(n)) = n
      /\ \A i \in 1..n : Batch(n)[i] = stream[delivered + i]
  BY BatchType
<1>2. ToSet(Kept(n, lost)) = ToSet(Batch(n)) \cap (ToSet(Batch(n)) \ lost)
  BY <1>1, FilterElements DEF Kept
<1>3. k - delivered \in 1..n /\ Batch(n)[k - delivered] = stream[k]
  BY <1>1, RequestNumbers
<1>4. stream[k] \in ToSet(Batch(n))
  BY <1>1, <1>3, Elements
<1>5. stream[k] \notin lost
  BY DEF Orderly, Marks
<1> QED
  BY <1>2, <1>4, <1>5

\* A delivery puts events behind those that wait.
LEMMA PosDelivers ==
  ASSUME TypeOK, PlatformInv, InLine, MarksWait, Orderly, DeliverTelemetry,
         ~shutdown_flush_started
  PROVE  MarksWait' /\ Passes(Pos)
<1>1. PICK n \in 1..(Len(stream) - delivered), lost \in SUBSET {e \in Event : e.kind \in LossyKinds},
            age \in 0..(now + ReportingDelay) : Delivers(n, lost, age)
  BY TelemetryDelivered
<1>2. /\ delivered \in Nat /\ Len(stream) \in Nat /\ n \in Nat /\ delivered + n <= Len(stream)
      /\ Pos \in Nat /\ Pos <= delivered /\ (telemetry_event_queue = <<>> => Pos = delivered)
  BY PosFacts
<1> DEFINE kept == Kept(n, lost)
           Q == ToSet(telemetry_event_queue)
<1>3. /\ kept \in Seq(Event) /\ Ordered(kept)
      /\ \A x \in ToSet(kept) : x.id \in (delivered + 1)..(delivered + n)
  BY <1>2, BatchInLine DEF Kept
<1>4. /\ telemetry_event_queue' = telemetry_event_queue \o kept
      /\ delivered' = delivered + n /\ stream' = stream
      /\ shutdown_flush_started' = shutdown_flush_started
  BY <1>1 DEF Delivers, HandleIncomingTelemetry, EnqueueEvents, flags
<1>5. ToSet(telemetry_event_queue') = Q \cup ToSet(kept)
  BY <1>3, <1>4, SequenceFacts, ElementsConcat
<1>6. \A k \in (delivered + 1)..(delivered + n) : stream[k].kind \in Marks => stream[k] \in ToSet(kept)
  BY <1>2, KeptMarks
<1>7. \A k \in 1..Len(stream) : stream[k].id = k
  BY DEF PlatformInv
<1> HIDE DEF kept
<1>8. CASE telemetry_event_queue # <<>>
  <2>1. Head(telemetry_event_queue') = Head(telemetry_event_queue) /\ telemetry_event_queue' # <<>>
    BY <1>3, <1>4, <1>8, SequenceFacts
  <2>2. Pos' = Pos
    BY <1>8, <2>1 DEF Pos
  <2>3. Passes(Pos)
    BY <1>2, <1>4, <2>2 DEF Passes
  <2>4. ASSUME NEW k \in 1..(delivered + n), k > Pos, stream[k].kind \in Marks
        PROVE  stream[k] \in Q \cup ToSet(kept)
    <3>1. CASE k \in 1..delivered
      BY <2>4, <3>1 DEF MarksWait
    <3>2. CASE k \notin 1..delivered
      BY <1>2, <1>6, <2>4, <3>2
    <3> QED
      BY <3>1, <3>2
  <2>5. MarksWait'
    BY <1>4, <1>5, <2>2, <2>4 DEF MarksWait
  <2> QED
    BY <2>3, <2>5
<1>9. CASE telemetry_event_queue = <<>>
  <2>1. telemetry_event_queue' = kept /\ Pos = delivered
    BY <1>2, <1>3, <1>4, <1>9
  <2>2. CASE kept = <<>>
    <3>1. Pos' = delivered + n /\ ToSet(kept) = {}
      BY <1>3, <1>4, <2>1, <2>2, Elements DEF Pos
    <3>2. \A k \in (delivered + 1)..(delivered + n) : stream[k].kind \notin Marks
      BY <1>6, <3>1
    <3>3. Passes(Pos)
      BY <1>2, <1>4, <2>1, <3>1, <3>2 DEF Passes
    <3>4. MarksWait'
      BY <1>2, <1>4, <3>1 DEF MarksWait
    <3> QED
      BY <3>3, <3>4
  <2>3. CASE kept # <<>>
    <3> DEFINE h == Head(kept).id
    <3>1. /\ Head(kept) \in ToSet(kept) /\ ToSet(kept) = {Head(kept)} \cup ToSet(Tail(kept))
          /\ Before({Head(kept)}, ToSet(Tail(kept)))
      BY <1>3, <2>3, ElementsTail, OrderTail
    <3>2. h \in (delivered + 1)..(delivered + n) /\ \A x \in ToSet(kept) : x.id = h \/ h < x.id
      BY <1>3, <3>1 DEF Before
    <3>3. Pos' = h - 1
      BY <2>1, <2>3 DEF Pos
    <3> HIDE DEF h
    <3>4. ASSUME NEW k \in (delivered + 1)..(h - 1) PROVE stream[k].kind \notin Marks
      <4>1. k \in (delivered + 1)..(delivered + n) /\ k < h /\ k \in 1..Len(stream)
        BY <1>2, <3>2
      <4>2. stream[k].id = k /\ ~(h < k) /\ k # h
        BY <1>7, <3>2, <4>1
      <4> QED
        BY <1>6, <3>2, <4>1, <4>2
    <3>5. Passes(Pos)
      BY <1>2, <1>4, <2>1, <3>2, <3>3, <3>4 DEF Passes
    <3>6. MarksWait'
      <4>1. \A k \in 1..(delivered + n) : k > h - 1 => k \in (delivered + 1)..(delivered + n)
        BY <1>2, <3>2
      <4> QED
        BY <1>4, <1>5, <1>6, <3>3, <4>1 DEF MarksWait
    <3> QED
      BY <3>5, <3>6
  <2> QED
    BY <2>2, <2>3
<1> QED
  BY <1>8, <1>9

\* What a step does to the front of the queue.
LEMMA PosStep ==
  ASSUME TypeOK, PlatformInv, StreamInv, InLine, MarksWait, Orderly,
         ~shutdown_flush_started', [InstanceNext]_vars
  PROVE  /\ MarksWait'
         /\ IF Takes
            THEN /\ telemetry_event_queue # <<>>
                 /\ telemetry_event_queue' = Tail(telemetry_event_queue)
                 /\ Passes(Pos + 1)
            ELSE Passes(Pos)
         /\ ~Takes /\ ~DeliverTelemetry => Pos' = Pos
         /\ ~shutdown_flush_started
         /\ \A k \in 1..Len(stream) : k \in 1..Len(stream') /\ stream'[k] = stream[k]
<1>1. /\ Pos \in Nat /\ delivered \in Nat /\ Len(stream) \in Nat
      /\ Pos <= delivered /\ delivered <= Len(stream)
  BY PosFacts
<1>2. ~shutdown_flush_started
  BY DEF InstanceNext, vars, serviceVars, flags, InitRestarts, InitEnds, InvokeFunction, WriteLog,
         FunctionEnds, InvocationEnds, Happens, DeliverInvoke, StartInvoke, DeliverShutdown,
         StartShutdown, DeliverTelemetry, HandleIncomingTelemetry, ExportSpan, HandleOtlpSpans,
         ExportMetric, HandleOtlpMetrics, AdvanceClock, Tick, Terminated, ServiceStep,
         TimerFires, SendEnds,
         ProcessingStep, TakeInvokeEvent, RejectInvokeEvent, HandleInitStart, BufferInitEvent,
         FinishInit, ProcessEvent, RejectEvent, ReplayInitEvent, ReplayEnds, DegradeEvent,
         DegradeEnds, FinishProcessing, HandlerStep, ObtainFunctionContext,
         FailToObtainFunctionContext, DrainSignals, EnqueueInvokeEvent, CheckShouldSend,
         ReceiveSignal, ForbidOtel, AwaitInFlightSends, AwaitTimesOut, PermitOtel, GraceElapses,
         FlushEnqueuedTelemetry, SendFlushed, FinishShutdown
<1>3. ASSUME telemetry_event_queue' = telemetry_event_queue, delivered' = delivered, ~Takes,
             \A k \in 1..Len(stream) : k \in 1..Len(stream') /\ stream'[k] = stream[k]
      PROVE  MarksWait' /\ Passes(Pos) /\ Pos' = Pos
  <2>1. Pos' = Pos
    BY <1>3 DEF Pos
  <2>2. MarksWait'
    BY <1>1, <1>2, <1>3, <2>1 DEF MarksWait
  <2>3. Passes(Pos)
    BY <1>1, <1>3, <2>1 DEF Passes
  <2> QED
    BY <2>1, <2>2, <2>3
<1>4. CASE Takes
  <2>1. /\ telemetry_event_queue # <<>> /\ telemetry_event_queue' = Tail(telemetry_event_queue)
        /\ shutdown_flush_started' = shutdown_flush_started
    BY <1>4 DEF Takes, HandleInitStart, BufferInitEvent, ProcessEvent, HasNextEvent, flags
  <2>2. delivered' = delivered /\ stream' = stream
    BY <1>4 DEF Takes, platformVars
  <2> QED
    BY <1>2, <1>4, <2>1, <2>2, PosTakes
<1>5. CASE DeliverTelemetry /\ ~Takes
  BY <1>2, <1>5, PosDelivers DEF DeliverTelemetry
<1>6. CASE Recording /\ ~Takes
  <2>1. telemetry_event_queue' = telemetry_event_queue /\ delivered' = delivered
    BY <1>6, RecordingGrows DEF serviceVars, inputs
  <2>2. \A k \in 1..Len(stream) : k \in 1..Len(stream') /\ stream'[k] = stream[k]
    BY <1>6, RecordingAdds DEF Adds, Recording
  <2> QED
    BY <1>2, <1>3, <1>6, <2>1, <2>2
<1>7. CASE ~Takes /\ ~DeliverTelemetry /\ ~Recording
  <2>1. ~FlushEnqueuedTelemetry
    BY DEF FlushEnqueuedTelemetry
  <2>2. ~RejectEvent
    BY FirstWaits DEF RejectEvent, HasNextEvent, Orderly
  <2>3. telemetry_event_queue' = telemetry_event_queue /\ delivered' = delivered /\ stream' = stream
    BY <1>7, <2>1, <2>2
    DEF Takes, Recording, InstanceNext, vars, serviceVars, platformVars, inputs, DeliverInvoke, StartInvoke,
        DeliverShutdown, StartShutdown, ExportSpan, HandleOtlpSpans, SpansForQueuedInvoke,
        ExportMetric, HandleOtlpMetrics, AdvanceClock, Tick, Terminated, ServiceStep, TimerFires, SendEnds,
        ProcessingStep, TakeInvokeEvent, RejectInvokeEvent, FinishInit, ReplayInitEvent,
        ReplayEnds, DegradeEvent, DegradeEnds, FinishProcessing, HandlerStep, ObtainFunctionContext,
        FailToObtainFunctionContext, DrainSignals, EnqueueInvokeEvent, CheckShouldSend,
        ReceiveSignal, ForbidOtel, AwaitInFlightSends, AwaitTimesOut, PermitOtel, GraceElapses,
        SendFlushed, FinishShutdown
  <2> QED
    BY <1>2, <1>3, <1>7, <2>3
<1> QED
  BY <1>2, <1>4, <1>5, <1>6, <1>7

-----------------------------------------------------------------------------
(* The state of the invocation that is being processed.                    *)

\* process_function_spans sets spans aside, and may release the held logs.
LEMMA FunctionSpansRecorded ==
  ASSUME NEW p \in ProcessingType, NEW spans \in Seq(Span)
  PROVE  LET q == ProcessFunctionSpans(p, spans)
         IN  /\ q.inv.req = p.inv.req /\ q.inv.data = p.inv.data
             /\ q.inv.captured = p.inv.captured \cup NewlyCaptured(p.inv.captured, spans)
<1> DEFINE captured == p.inv.captured \cup NewlyCaptured(p.inv.captured, spans)
           inv == [p.inv EXCEPT !.captured = @ \cup NewlyCaptured(@, spans)]
           out == IF ShouldProduceSpans(inv) /\ TracingMode = "OtelInstrumentation"
                  THEN AddFunctionSpans(p.out, PassedOn(p.inv.captured, spans)) ELSE p.out
           a == [p EXCEPT !.inv = inv, !.out = out]
<1>1. p.inv \in InvocationProcessingState /\ p.out \in OutputBuffers
  BY ProcessingFields
<1>2. /\ inv \in InvocationProcessingState
      /\ inv.req = p.inv.req /\ inv.data = p.inv.data /\ inv.captured = captured
  <2>1. captured \in SUBSET Span /\ IsFiniteSet(captured)
    BY <1>1, CapturedType, InvocationFields, FS_Union
  <2>2. inv = [p.inv EXCEPT !.captured = captured]
    OBVIOUS
  <2> HIDE DEF captured, inv
  <2> QED
    BY <1>1, <2>1, <2>2 DEF InvocationProcessingState
<1>3. out \in OutputBuffers
  BY <1>1, CapturedType, AddFunctionSpansType
<1>4. ProcessFunctionSpans(p, spans) =
        IF LogMode = "Structured" /\ inv.delaying_logs /\ HasCaptured(inv, "CxEarlyInvocation")
        THEN ReleaseDelayedLogs(a) ELSE a
  BY DEF ProcessFunctionSpans
<1> HIDE DEF inv, out, captured
<1>5. a \in ProcessingType /\ a.inv = inv
  BY <1>2, <1>3 DEF ProcessingType
<1> HIDE DEF a
<1>6. /\ ReleaseDelayedLogs(a).inv.req = inv.req /\ ReleaseDelayedLogs(a).inv.data = inv.data
      /\ ReleaseDelayedLogs(a).inv.captured = inv.captured
  BY <1>2, <1>5, FlowsRelease DEF InvocationProcessingState
<1> QED
  BY <1>2, <1>4, <1>5, <1>6 DEF captured

\* An invoke event is taken: nothing is known of its invocation yet.
LEMMA InvokeTaken ==
  ASSUME TypeOK, TakeInvokeEvent
  PROVE  /\ invocation_state' \in InvocationProcessingState
         /\ invocation_state'.req = Head(invoke_event_queue).req
         /\ invocation_state'.data = {}
<1> DEFINE invoke == Head(invoke_event_queue)
           new == NewInvocationState(invoke.req)
           p == Processing(new, output_buffers, metrics_state)
           once == ProcessFunctionSpans(p, function_spans_buffer)
           twice == ProcessFunctionSpans(once, invoke.spans)
<1>1. InputTypes /\ ProcessingTypes
  BY DEF TypeOK
<1>2. invoke \in InvokeEventDataWithSpans
  BY <1>1, HeadTailProperties DEF TakeInvokeEvent, InputTypes
<1>3. invoke.req \in Requests /\ invoke.spans \in Seq(Span) /\ function_spans_buffer \in Seq(Span)
  BY <1>1, <1>2 DEF InvokeEventDataWithSpans, InputTypes
<1>4. new \in InvocationProcessingState /\ new.req = invoke.req /\ new.data = {}
  BY <1>3, NewInvocationStateType DEF NewInvocationState
<1>5. p \in ProcessingType /\ p.inv = new
  BY <1>1, <1>4 DEF Processing, ProcessingType, ProcessingTypes
<1>6. invocation_state' = twice.inv
  BY DEF TakeInvokeEvent, SetProcessing
<1> HIDE DEF invoke, new, p
<1>7. once \in ProcessingType /\ once.inv.req = invoke.req /\ once.inv.data = {}
  BY <1>3, <1>4, <1>5, FunctionSpansRecorded, ProcessFunctionSpansType
<1> HIDE DEF once
<1>8. twice \in ProcessingType /\ twice.inv.req = invoke.req /\ twice.inv.data = {}
  BY <1>3, <1>7, FunctionSpansRecorded, ProcessFunctionSpansType
<1> HIDE DEF twice
<1> QED
  BY <1>6, <1>8, ProcessingFields DEF invoke

\* What is known before the init phase ends: the service has not seen an invocation start.
BeforeInit ==
  /\ Taken \in {0, 1}
  /\ invocation_state # NoInvocation <=> Taken = 1
  /\ ~init_handling_started =>
       \A k \in 1..Pos : stream[k].kind = "PlatformInitStart" => stream[k] \in Held
  /\ \A k \in 1..Pos : stream[k].kind \in Milestones => ReqAt(k) = 0
  /\ invocation_state # NoInvocation => invocation_state.data = {}

\* What is known after it: all that was seen belongs to the requests taken so far, what is
\* still to come to the last of them or to later ones, and the state of an invocation is kept
\* until its report is seen.
AfterInit ==
  /\ Taken \in Nat \ {0}
  /\ \A k \in 1..Pos : stream[k].kind \in Milestones => ReqAt(k) <= Taken
  /\ \A k \in 1..Len(stream) : k > Pos => ReqAt(k) >= Taken
  /\ invocation_state = NoInvocation <=> Seen("PlatformReport", Taken)

\* The state is that of the last request taken, and knows where its invocation is.
OwnState ==
  invocation_state # NoInvocation =>
    /\ invocation_state.req = Taken
    /\ ~Has(invocation_state, "PlatformReport")
    /\ Has(invocation_state, "PlatformRuntimeDone") <=> Seen("PlatformRuntimeDone", Taken)

\* What is set aside during the init belongs to no request.
InitEvents ==
  /\ \A x \in ToSet(half_processed_event_buffer) \cup ToSet(pending_events) : x.req \notin Requests
  /\ section = "replay" =>
       /\ Taken = 1 /\ invocation_state # NoInvocation
       /\ \A x \in ToSet(pending_events) : x.kind \notin Milestones

\* The service knows which invocation the next event of the queue belongs to.
PairInv ==
  ~shutdown_flush_started =>
    /\ ~init_handled => BeforeInit
    /\ init_handled => AfterInit
    /\ OwnState
    /\ InitEvents

\* All that the pairing relies on.
PairingBase ==
  /\ TypeInv /\ PlatformInv /\ StreamInv /\ LoopShape /\ InLine /\ InitWaits
  /\ PairedStream /\ HandlerInv /\ QueueInv /\ MarksWait

\* Under the conditions nothing ever fails.
LEMMA AlwaysOrderly ==
  ASSUME PairingBase, PairingConditions
  PROVE  Orderly
<1>1. DeliveryConditions
  BY DEF PairingConditions, DeliveryConditions, Milestones
<1> QED
  BY <1>1, WaitingAreOk DEF PairingBase, PairingConditions, Orderly

\* Before an event of a request the stream has the reports of the requests before.
LEMMA EarlierReports ==
  ASSUME PlatformInv, PairedStream, NEW j \in 1..Len(stream), NEW r \in 1..(ReqAt(j) - 1)
  PROVE  \E i \in 1..(j - 1) : Is(i, "PlatformReport", r)
  BY DEF PairedStream, RequestsInOrder

\* When an event is processed after the init it belongs to the invocation that is processed.
LEMMA HeadPaired ==
  ASSUME PairingBase, PairInv, ~shutdown_flush_started, init_handled, HasNextEvent
  PROVE  ReqAt(Pos + 1) = Taken /\ Pos + 1 \in 1..Len(stream) /\ stream[Pos + 1] = NextEvent
<1>1. /\ Pos \in Nat /\ delivered \in Nat /\ Len(stream) \in Nat /\ delivered <= Len(stream)
      /\ Pos + 1 \in 1..delivered /\ stream[Pos + 1] = NextEvent
  BY PosFacts DEF PairingBase, TypeInv, HasNextEvent
<1>2. Pos + 1 \in 1..Len(stream) /\ Pos + 1 > Pos /\ ReqAt(Pos + 1) \in Nat
  BY <1>1, RequestNumbers DEF PairingBase
<1>3. Taken \in Nat \ {0} /\ ReqAt(Pos + 1) >= Taken /\ ~Seen("PlatformReport", Taken)
  BY <1>2 DEF PairInv, AfterInit, HasNextEvent
<1>4. ASSUME ReqAt(Pos + 1) > Taken PROVE FALSE
  <2>1. Taken \in 1..(ReqAt(Pos + 1) - 1)
    BY <1>2, <1>3, <1>4
  <2> DEFINE j == Pos + 1
  <2>0. j \in 1..Len(stream) /\ Taken \in 1..(ReqAt(j) - 1)
    BY <1>2, <2>1
  <2> HIDE DEF j
  <2>2. PICK i \in 1..(j - 1) : Is(i, "PlatformReport", Taken)
    BY <2>0, EarlierReports DEF PairingBase
  <2>3. i \in 1..Pos
    BY <1>1, <2>2 DEF j
  <2> QED
    BY <1>3, <2>2, <2>3 DEF Seen
<1> QED
  BY <1>1, <1>2, <1>3, <1>4

\* Before that it belongs to no invocation, or is the start of the first.
LEMMA HeadBeforeInit ==
  ASSUME PairingBase, PairInv, ~shutdown_flush_started, ~init_handled, HasNextEvent
  PROVE  /\ Pos + 1 \in 1..Len(stream) /\ stream[Pos + 1] = NextEvent
         /\ \/ ReqAt(Pos + 1) = 0
            \/ ReqAt(Pos + 1) = 1 /\ EndsInit(NextEvent)
<1>1. /\ Pos \in Nat /\ delivered \in Nat /\ Len(stream) \in Nat /\ delivered <= Len(stream)
      /\ Pos + 1 \in 1..delivered /\ stream[Pos + 1] = NextEvent
  BY PosFacts DEF PairingBase, TypeInv, HasNextEvent
<1>2. Pos + 1 \in 1..Len(stream) /\ ReqAt(Pos + 1) \in Nat
  BY <1>1, RequestNumbers DEF PairingBase
<1>3. /\ Taken = 1 /\ invocation_state.req = 1 /\ Held = {}
      /\ \A k \in 1..Pos : stream[k].kind \in Milestones => ReqAt(k) = 0
      /\ ~init_handling_started => \A k \in 1..Pos : stream[k].kind # "PlatformInitStart"
  BY DEF PairInv, BeforeInit, OwnState, HasNextEvent, Held
<1>4. ASSUME ReqAt(Pos + 1) > 0 PROVE ReqAt(Pos + 1) = 1 /\ EndsInit(NextEvent)
  <2>1. PICK i \in 1..(Pos + 1) : Is(i, "PlatformStart", ReqAt(Pos + 1))
    BY <1>2, <1>4 DEF PairingBase, PairedStream, RequestsInOrder
  <2>2. i = Pos + 1
    <3>1. i \notin 1..Pos
      BY <1>3, <1>4, <2>1 DEF Is, Milestones
    <3> QED
      BY <1>1, <2>1, <3>1
  <2>3. ReqAt(Pos + 1) = 1
    <3>1. ASSUME ReqAt(Pos + 1) # 1 PROVE FALSE
      <4>1. 1 \in 1..(ReqAt(Pos + 1) - 1)
        BY <1>2, <1>4, <3>1
      <4> DEFINE k == Pos + 1
      <4>0. k \in 1..Len(stream) /\ 1 \in 1..(ReqAt(k) - 1)
        BY <1>2, <4>1
      <4> HIDE DEF k
      <4>2. PICK j \in 1..(k - 1) : Is(j, "PlatformReport", 1)
        BY <4>0, EarlierReports DEF PairingBase
      <4>3. j \in 1..Pos
        BY <1>1, <4>2 DEF k
      <4> QED
        BY <1>3, <4>2, <4>3 DEF Is, Milestones
    <3> QED
      BY <3>1
  <2>4. NextEvent.kind = "PlatformStart" /\ NextEvent.req = 1 /\ NextEvent.req \in Requests
    <3>1. stream[Pos + 1].req = ReqAt(Pos + 1) /\ stream[Pos + 1].req \in Requests
      BY <1>4 DEF ReqAt
    <3> QED
      BY <1>1, <2>1, <2>2, <2>3, <3>1 DEF Is
  <2>5. init_handling_started
    <3>1. PICK j \in 1..Len(stream) : stream[j].kind = "PlatformInitStart"
      BY DEF PairingBase, PairedStream, InitRecorded
    <3>2. j < Pos + 1
      BY <1>1, <1>2, <2>4, <3>1 DEF PairingBase, StreamInv
    <3>3. j \in 1..Pos
      BY <1>1, <3>1, <3>2
    <3> QED
      BY <1>3, <3>1, <3>3
  <2> QED
    BY <1>3, <2>3, <2>4, <2>5 DEF EndsInit
<1> QED
  BY <1>1, <1>2, <1>4

\* Where the front of the queue is once an event was taken from it.
Passed == IF Takes THEN Pos + 1 ELSE Pos

\* What a step keeps of the stream, and what it puts behind the front of the queue.
FrontMovesOn ==
  /\ Taken \in Nat /\ Pos \in Nat /\ Pos' \in Nat
  /\ Len(stream) \in Nat /\ Len(stream') \in Nat
  /\ Passed \in 0..Len(stream) /\ Pos <= Passed /\ Passed <= Pos'
  /\ \A k \in 1..Len(stream) :
       k \in 1..Len(stream') /\ stream'[k] = stream[k] /\ ReqAt(k)' = ReqAt(k)
         /\ ReqAt(k) \in Nat
  /\ \A k \in 1..Pos' : stream'[k].kind \in Marks => k \in 1..Passed
  /\ \A k \in 1..Len(stream') : k \notin 1..Len(stream) => ReqAt(k)' \in Nat /\ ReqAt(k)' >= Taken

\* Requests are numbers.
Numbered == \A i \in 1..Len(stream) : ReqAt(i) \in Nat

\* Every event of the stream has a request, or 0.
LEMMA RequestsAreNumbers == PlatformInv => Numbered
  BY RequestNumbers DEF Numbered

\* And in the next state.
LEMMA RequestsStayNumbers == PlatformInv' => Numbered'
  BY RequestsAreNumbers, PTL

\* What is recorded belongs to no request before the last one taken.
LEMMA LaterRequests ==
  ASSUME PairingBase, PlatformInv', PairedStream', ~shutdown_flush_started,
         Len(stream) \in Nat, Len(stream') \in Nat,
         \A k \in 1..Len(stream) : k \in 1..Len(stream') /\ ReqAt(k)' = ReqAt(k),
         NEW k \in 1..Len(stream'), k \notin 1..Len(stream)
  PROVE  ReqAt(k)' \in Nat /\ ReqAt(k)' >= Taken
<1>1. ReqAt(k)' \in Nat
  BY RequestsStayNumbers DEF Numbered
<1>2. Taken \in Int /\ current \in Nat /\ Taken <= current
  <2>1. /\ Handled \in Nat /\ Enqueued \in Int /\ current \in Nat
        /\ Len(invoke_event_queue) \in Nat /\ Enqueued <= Handled
    BY HandlerNumbers DEF PairingBase, TypeInv, Enqueued
  <2>2. Handled <= current
    BY <2>1 DEF PairingBase, HandlerInv
  <2> QED
    BY <2>1, <2>2 DEF Taken
<1>3. CASE current = 0
  BY <1>1, <1>2, <1>3
<1>4. CASE current > 0
  <2>1. PICK i \in 1..Len(stream) : ReqAt(i) = current
    <3>1. phase \in {"idle", "stopped", "running", "over"}
      BY <1>4 DEF PairingBase, PairedStream, PhaseRecorded, PlatformInv, Phases
    <3>2. current \in 1..current
      BY <1>2, <1>4
    <3> QED
      BY <3>1, <3>2 DEF PairingBase, PairedStream, PhaseRecorded, Is
  <2>2. i < k /\ i \in 1..Len(stream') /\ ReqAt(i)' = current
    BY <2>1
  <2>3. ReqAt(i)' <= ReqAt(k)'
    BY <2>2 DEF PairedStream, RequestsInOrder
  <2> QED
    BY <1>1, <1>2, <2>2, <2>3
<1> QED
  BY <1>2, <1>3, <1>4

\* Every step moves on in the stream like that.
LEMMA MovesOn ==
  ASSUME PairingBase, Orderly, TypeOK', PlatformInv', InLine', PairedStream',
         ~shutdown_flush_started', [InstanceNext]_vars
  PROVE  /\ FrontMovesOn
         /\ ~shutdown_flush_started
         /\ MarksWait'
         /\ Taken' = IF TakeInvokeEvent THEN Taken + 1 ELSE Taken
         /\ TakeInvokeEvent => Head(invoke_event_queue).req = Taken + 1
         /\ QueueInv'
<1>1. /\ Pos \in Nat /\ Len(stream) \in Nat /\ Pos <= Len(stream) /\ delivered <= Len(stream)
      /\ telemetry_event_queue # <<>> => Pos + 1 \in 1..delivered
      /\ delivered \in Nat
  BY PosFacts DEF PairingBase, TypeInv
<1>2. /\ MarksWait'
      /\ IF Takes
         THEN /\ telemetry_event_queue # <<>>
              /\ telemetry_event_queue' = Tail(telemetry_event_queue)
              /\ Passes(Pos + 1)
         ELSE Passes(Pos)
      /\ ~shutdown_flush_started
      /\ \A k \in 1..Len(stream) : k \in 1..Len(stream') /\ stream'[k] = stream[k]
  BY PosStep DEF PairingBase, TypeInv
<1>3. /\ QueueInv'
      /\ Taken' = IF TakeInvokeEvent THEN Taken + 1 ELSE Taken
      /\ TakeInvokeEvent => Head(invoke_event_queue).req = Taken + 1
  BY QueueStep DEF PairingBase, TypeInv
<1>4. Taken \in Nat
  <2>1. Enqueued \in Nat /\ Len(invoke_event_queue) \in Nat
    BY HandlerNumbers DEF PairingBase, TypeInv
  <2> QED
    BY <2>1 DEF PairingBase, QueueInv, Taken
<1>5. \A k \in 1..Len(stream) : ReqAt(k) \in Nat
  BY RequestNumbers DEF PairingBase
<1>6. \A k \in 1..Len(stream) :
        k \in 1..Len(stream') /\ stream'[k] = stream[k] /\ ReqAt(k)' = ReqAt(k)
  BY <1>2 DEF ReqAt
<1>7. Len(stream') \in Nat
  BY DEF PlatformInv
<1>8. ASSUME NEW k \in 1..Len(stream'), k \notin 1..Len(stream)
      PROVE  ReqAt(k)' \in Nat /\ ReqAt(k)' >= Taken
  BY <1>1, <1>2, <1>6, <1>7, <1>8, LaterRequests
<1>9. Passes(Passed) /\ Passed \in 0..Len(stream) /\ Pos <= Passed
  BY <1>1, <1>2 DEF Passed
<1>10. /\ Pos' \in Nat /\ Passed <= Pos'
       /\ \A k \in 1..Pos' : stream'[k].kind \in Marks => k \in 1..Passed
  <2>1. /\ Pos' \in Nat /\ Passed <= Pos'
        /\ \A k \in (Passed + 1)..Pos' : stream'[k].kind \notin Marks
    BY <1>9 DEF Passes
  <2>2. ASSUME NEW k \in 1..Pos', stream'[k].kind \in Marks PROVE k \in 1..Passed
    BY <1>9, <2>1, <2>2
  <2> QED
    BY <2>1, <2>2
<1>11. FrontMovesOn
  BY <1>1, <1>4, <1>5, <1>6, <1>7, <1>8, <1>9, <1>10 DEF FrontMovesOn
<1> QED
  BY <1>2, <1>3, <1>11

\* What was seen after a step.
LEMMA SeenAfter ==
  ASSUME FrontMovesOn, NEW kind \in Marks, NEW r
  PROVE  Seen(kind, r)' <=> \E k \in 1..Passed : Is(k, kind, r)
<1>1. ASSUME NEW k \in 1..Pos', stream'[k].kind = kind, ReqAt(k)' = r
      PROVE  k \in 1..Passed /\ Is(k, kind, r)
  BY <1>1 DEF FrontMovesOn, Is
<1>2. ASSUME NEW k \in 1..Passed, Is(k, kind, r)
      PROVE  k \in 1..Pos' /\ stream'[k].kind = kind /\ ReqAt(k)' = r
  BY <1>2 DEF FrontMovesOn, Is
<1> QED
  BY <1>1, <1>2 DEF Seen, Is

\* Steps that keep what is known of the invocation.
LEMMA PairKeeps ==
  ASSUME PairInv, ~shutdown_flush_started, FrontMovesOn, Passed = Pos, Taken' = Taken,
         init_handled' = init_handled,
         ~init_handling_started' => ~init_handling_started /\ Held \subseteq Held',
         invocation_state' = NoInvocation <=> invocation_state = NoInvocation,
         invocation_state # NoInvocation =>
           /\ invocation_state'.req = invocation_state.req
           /\ ~Has(invocation_state', "PlatformReport")
           /\ Has(invocation_state', "PlatformRuntimeDone")
                <=> Has(invocation_state, "PlatformRuntimeDone")
           /\ ~init_handled => invocation_state'.data = invocation_state.data
  PROVE  /\ ~init_handled' => BeforeInit'
         /\ init_handled' => AfterInit'
         /\ OwnState'
<1>1. \A k \in 1..Pos' : stream'[k].kind \in Marks =>
        k \in 1..Pos /\ stream'[k] = stream[k] /\ ReqAt(k)' = ReqAt(k)
  BY DEF FrontMovesOn
<1>2. /\ Seen("PlatformReport", Taken)' <=> Seen("PlatformReport", Taken)
      /\ Seen("PlatformRuntimeDone", Taken)' <=> Seen("PlatformRuntimeDone", Taken)
  <2> DEFINE n == Taken
  <2>1. n' = n
    OBVIOUS
  <2>2. \A kind \in {"PlatformReport", "PlatformRuntimeDone"} :
          (\E k \in 1..Pos' : stream'[k].kind = kind /\ ReqAt(k)' = Taken)
            <=> (\E k \in 1..Pos : stream[k].kind = kind /\ ReqAt(k) = Taken)
    <3>1. \A k \in 1..Pos : k \in 1..Pos' /\ stream'[k] = stream[k] /\ ReqAt(k)' = ReqAt(k)
      BY DEF FrontMovesOn
    <3> QED
      BY <1>1, <3>1 DEF Marks, Milestones
  <2> QED
    BY <2>2 DEF Seen, Is
<1>3. OwnState'
  BY <1>2 DEF PairInv, OwnState
<1>4. ASSUME ~init_handled' PROVE BeforeInit'
  <2>1. BeforeInit
    BY <1>4 DEF PairInv
  <2>2. ASSUME ~init_handling_started', NEW k \in 1..Pos', stream'[k].kind = "PlatformInitStart"
        PROVE  stream'[k] \in Held'
    BY <1>1, <2>1, <2>2 DEF BeforeInit, Marks
  <2>3. \A k \in 1..Pos' : stream'[k].kind \in Milestones => ReqAt(k)' = 0
    BY <1>1, <2>1 DEF BeforeInit, Marks
  <2>4. invocation_state' # NoInvocation => invocation_state'.data = {}
    BY <1>4, <2>1 DEF BeforeInit
  <2> QED
    BY <2>1, <2>2, <2>3, <2>4 DEF BeforeInit
<1>5. ASSUME init_handled' PROVE AfterInit'
  <2>1. AfterInit
    BY <1>5 DEF PairInv
  <2>2. \A k \in 1..Pos' : stream'[k].kind \in Milestones => ReqAt(k)' <= Taken
    BY <1>1, <2>1 DEF AfterInit, Marks
  <2>3. ASSUME NEW k \in 1..Len(stream'), k > Pos' PROVE ReqAt(k)' >= Taken
    <3>1. CASE k \in 1..Len(stream)
      BY <2>1, <2>3, <3>1 DEF AfterInit, FrontMovesOn
    <3>2. CASE k \notin 1..Len(stream)
      BY <3>2 DEF FrontMovesOn
    <3> QED
      BY <3>1, <3>2
  <2> QED
    BY <1>2, <2>1, <2>2, <2>3 DEF AfterInit
<1> QED
  BY <1>3, <1>4, <1>5

\* An event of the init phase is set aside.
LEMMA InitEventPaired ==
  ASSUME PairingBase, PairInv, ~shutdown_flush_started, FrontMovesOn, Taken' = Taken,
         (HandleInitStart \/ BufferInitEvent) /\ UNCHANGED platformVars
  PROVE  /\ ~init_handled' => BeforeInit'
         /\ init_handled' => AfterInit'
         /\ OwnState'
<1> DEFINE p == Pos + 1
<1>1. /\ HasNextEvent /\ ~init_handled /\ ~init_handled' /\ ~EndsInit(NextEvent)
      /\ invocation_state' = invocation_state
      /\ NextEvent.kind = "PlatformInitStart" /\ ~init_handling_started' =>
           ~init_handling_started /\ Held' = {NextEvent}
      /\ NextEvent.kind # "PlatformInitStart" =>
           init_handling_started' = init_handling_started
  BY DEF HandleInitStart, BufferInitEvent, EndsInit, processing, initFlags, Held
<1>2. /\ p \in 1..Len(stream) /\ stream[p] = NextEvent /\ ReqAt(p) = 0 /\ Passed = p
  BY <1>1, HeadBeforeInit DEF Passed, Takes
<1> HIDE DEF p
<1>3. /\ Taken = 1 /\ invocation_state.req = 1 /\ BeforeInit /\ Held = {}
  BY <1>1 DEF PairInv, BeforeInit, OwnState, HasNextEvent, Held
<1>4. /\ \A k \in 1..Pos' : stream'[k].kind \in Marks =>
           (k \in 1..Pos \/ k = p) /\ stream'[k] = stream[k] /\ ReqAt(k)' = ReqAt(k)
      /\ \A k \in 1..Pos : k \in 1..Pos' /\ stream'[k] = stream[k] /\ ReqAt(k)' = ReqAt(k)
  BY <1>2 DEF FrontMovesOn, p
<1>5. BeforeInit'
  <2>1. \A k \in 1..Pos' : stream'[k].kind \in Milestones => ReqAt(k)' = 0
    BY <1>2, <1>3, <1>4 DEF BeforeInit, Marks
  <2>2. ASSUME ~init_handling_started', NEW k \in 1..Pos', stream'[k].kind = "PlatformInitStart"
        PROVE  stream'[k] \in Held'
    <3>1. k = p
      BY <1>1, <1>3, <1>4, <2>2 DEF BeforeInit, Marks
    <3> QED
      BY <1>1, <1>2, <1>4, <2>2, <3>1 DEF Marks
  <2> QED
    BY <1>1, <1>3, <2>1, <2>2 DEF BeforeInit
<1>6. OwnState'
  <2>1. \A k \in 1..Pos' : ~(stream'[k].kind = "PlatformRuntimeDone" /\ ReqAt(k)' = Taken')
    BY <1>2, <1>3, <1>4 DEF BeforeInit, Marks, Milestones
  <2>2. ~Seen("PlatformRuntimeDone", Taken)'
    BY <2>1 DEF Seen, Is
  <2>3. ~Seen("PlatformRuntimeDone", Taken)
    BY <1>3 DEF Seen, Is, BeforeInit, Milestones
  <2> QED
    BY <1>1, <2>2, <2>3 DEF PairInv, OwnState
<1> QED
  BY <1>1, <1>5, <1>6

\* What process_telemetry does to the state of the invocation.
LEMMA ProcessedState ==
  ASSUME TypeOK, invocation_state # NoInvocation, NEW e \in Event
  PROVE  LET q == ProcessTelemetry(ProcessingState, e)
         IN  /\ q \in ProcessingType /\ q.inv \in InvocationProcessingState
             /\ q.inv.req = invocation_state.req
             /\ \A kind \in Milestones :
                  Has(q.inv, kind) <=> Has(invocation_state, kind) \/ e.kind = kind
<1> DEFINE q == ProcessTelemetry(ProcessingState, e)
<1>1. /\ ProcessingState \in ProcessingType /\ ProcessingState.inv = invocation_state
      /\ q \in ProcessingType /\ RecordsEvent(ProcessingState, q, e)
  BY ProcessingStateType, ProcessTelemetryType, TelemetryRecorded DEF ProcessingState, Processing
<1> HIDE DEF q
<1>2. q.inv \in InvocationProcessingState
  BY <1>1, ProcessingFields
<1>3. \A kind \in Milestones : Has(q.inv, kind) <=> Has(invocation_state, kind) \/ e.kind = kind
  BY <1>1 DEF RecordsEvent, Has, Milestones
<1>4. q.inv.req = invocation_state.req
  BY <1>1 DEF RecordsEvent
<1> QED
  BY <1>1, <1>2, <1>3, <1>4 DEF q

\* An event of the invocation that is processed.
LEMMA ProcessedPaired ==
  ASSUME PairingBase, PairInv, ~shutdown_flush_started, FrontMovesOn, Taken' = Taken,
         ProcessEvent, UNCHANGED platformVars
  PROVE  /\ ~init_handled' => BeforeInit'
         /\ init_handled' => AfterInit'
         /\ OwnState'
<1> DEFINE p == Pos + 1
           q == ProcessTelemetry(ProcessingState, NextEvent)
<1>1. /\ HasNextEvent /\ init_handled /\ init_handled' /\ NextEvent \in Event
      /\ invocation_state # NoInvocation
      /\ SetProcessing(IF EndsInvocation(q.inv) THEN [q EXCEPT !.inv = NoInvocation] ELSE q)
  BY LoopFacts DEF ProcessEvent, HasNextEvent, initFlags, PairingBase, TypeInv
<1>2. /\ p \in 1..Len(stream) /\ stream[p] = NextEvent /\ ReqAt(p) = Taken /\ Passed = p
  BY <1>1, HeadPaired DEF Passed, Takes
<1>3. /\ q \in ProcessingType /\ q.inv \in InvocationProcessingState
      /\ q.inv.req = invocation_state.req
      /\ \A kind \in Milestones :
           Has(q.inv, kind) <=> Has(invocation_state, kind) \/ NextEvent.kind = kind
  BY <1>1, ProcessedState DEF PairingBase, TypeInv
<1> HIDE DEF p, q
<1>4. AfterInit /\ OwnState /\ Taken \in Nat \ {0}
  BY <1>1 DEF PairInv, AfterInit
<1>5. /\ \A k \in 1..Pos' : stream'[k].kind \in Marks =>
           (k \in 1..Pos \/ k = p) /\ stream'[k] = stream[k] /\ ReqAt(k)' = ReqAt(k)
      /\ \A k \in 1..p : k \in 1..Pos' /\ stream'[k] = stream[k] /\ ReqAt(k)' = ReqAt(k)
      /\ p \in 1..p /\ \A k \in 1..Pos : k \in 1..p
  BY <1>2 DEF FrontMovesOn, p
<1>6. \A kind \in Milestones :
        (\E k \in 1..Pos' : stream'[k].kind = kind /\ ReqAt(k)' = Taken)
          <=> (\E k \in 1..Pos : stream[k].kind = kind /\ ReqAt(k) = Taken)
                \/ NextEvent.kind = kind
  BY <1>2, <1>5 DEF Marks
<1>7. /\ Seen("PlatformReport", Taken)' <=>
           Seen("PlatformReport", Taken) \/ NextEvent.kind = "PlatformReport"
      /\ Seen("PlatformRuntimeDone", Taken)' <=>
           Seen("PlatformRuntimeDone", Taken) \/ NextEvent.kind = "PlatformRuntimeDone"
  BY <1>6 DEF Seen, Is, Milestones
<1>8. /\ ~Has(invocation_state, "PlatformReport") /\ ~Seen("PlatformReport", Taken)
      /\ Has(invocation_state, "PlatformRuntimeDone") <=> Seen("PlatformRuntimeDone", Taken)
      /\ invocation_state.req = Taken
  BY <1>1, <1>4 DEF AfterInit, OwnState
<1>9. /\ EndsInvocation(q.inv) <=> NextEvent.kind = "PlatformReport"
      /\ Has(q.inv, "PlatformRuntimeDone") <=> Seen("PlatformRuntimeDone", Taken)'
  BY <1>3, <1>7, <1>8 DEF EndsInvocation, Milestones
<1>10. /\ EndsInvocation(q.inv) => invocation_state' = NoInvocation
       /\ ~EndsInvocation(q.inv) => invocation_state' = q.inv /\ q.inv # NoInvocation
  BY <1>1, <1>3, ServiceAssumption DEF SetProcessing, ProcessingType
<1>11. OwnState'
  BY <1>3, <1>8, <1>9, <1>10 DEF OwnState, EndsInvocation
<1>12. AfterInit'
  <2>1. \A k \in 1..Pos' : stream'[k].kind \in Milestones => ReqAt(k)' <= Taken
    <3>1. ASSUME NEW k \in 1..Pos', stream'[k].kind \in Milestones PROVE ReqAt(k)' <= Taken
      <4>1. (k \in 1..Pos \/ k = p) /\ stream'[k] = stream[k] /\ ReqAt(k)' = ReqAt(k)
        BY <1>5, <3>1 DEF Marks
      <4>2. CASE k \in 1..Pos
        BY <1>4, <3>1, <4>1, <4>2 DEF AfterInit
      <4>3. CASE k = p
        BY <1>2, <1>4, <4>1, <4>3
      <4> QED
        BY <4>1, <4>2, <4>3
    <3> QED
      BY <3>1
  <2>2. ASSUME NEW k \in 1..Len(stream'), k > Pos' PROVE ReqAt(k)' >= Taken
    <3>1. CASE k \in 1..Len(stream)
      <4>1. k > Pos /\ ReqAt(k)' = ReqAt(k)
        BY <2>2, <3>1 DEF FrontMovesOn
      <4> QED
        BY <1>4, <3>1, <4>1 DEF AfterInit
    <3>2. CASE k \notin 1..Len(stream)
      BY <3>2 DEF FrontMovesOn
    <3> QED
      BY <3>1, <3>2
  <2>3. invocation_state' = NoInvocation <=> Seen("PlatformReport", Taken)'
    BY <1>7, <1>8, <1>9, <1>10
  <2> QED
    BY <1>4, <2>1, <2>2, <2>3 DEF AfterInit
<1> QED
  BY <1>1, <1>11, <1>12

\* An invoke event is taken when the report of the invocation before it was seen.
LEMMA TakenPaired ==
  ASSUME PairingBase, PairInv, ~shutdown_flush_started, FrontMovesOn, Taken' = Taken + 1,
         Head(invoke_event_queue).req = Taken + 1, TakeInvokeEvent, UNCHANGED platformVars
  PROVE  /\ ~init_handled' => BeforeInit'
         /\ init_handled' => AfterInit'
         /\ OwnState'
<1>1. /\ section = "events" /\ invocation_state = NoInvocation
      /\ UNCHANGED <<init_handled, init_handling_started, section, stream>>
      /\ Held = {} /\ Held' = {}
  BY DEF TakeInvokeEvent, initFlags, loop, platformVars, Held
<1>2. /\ invocation_state' # NoInvocation /\ invocation_state'.req = Taken + 1
      /\ invocation_state'.data = {}
  BY InvokeTaken, ServiceAssumption DEF PairingBase, TypeInv
<1>3. ~Has(invocation_state', "PlatformReport") /\ ~Has(invocation_state', "PlatformRuntimeDone")
  BY <1>2 DEF Has
<1>4. Passed = Pos
  BY <1>1 DEF Passed, Takes, HandleInitStart, BufferInitEvent, ProcessEvent, HasNextEvent
<1>5. /\ Taken \in Nat /\ Len(stream) \in Nat
      /\ \A k \in 1..Pos' : stream'[k].kind \in Marks =>
           k \in 1..Pos /\ stream'[k] = stream[k] /\ ReqAt(k)' = ReqAt(k)
      /\ \A k \in 1..Len(stream) : ReqAt(k)' = ReqAt(k) /\ ReqAt(k) \in Nat
      /\ Pos \in Nat /\ Pos' \in Nat /\ Pos <= Pos' /\ Pos <= Len(stream)
  BY <1>1, <1>4 DEF FrontMovesOn
<1>6. ASSUME \A k \in 1..Pos : stream[k].kind \in Milestones => ReqAt(k) <= Taken
      PROVE  ~Seen("PlatformReport", Taken)' /\ ~Seen("PlatformRuntimeDone", Taken)'
  <2>1. \A k \in 1..Pos' : stream'[k].kind \in Milestones => ReqAt(k)' # Taken + 1
    BY <1>5, <1>6 DEF Marks
  <2> QED
    BY <2>1 DEF Seen, Is, Milestones
<1>7. CASE ~init_handled
  <2>1. BeforeInit /\ Taken = 0
    BY <1>1, <1>5, <1>7 DEF PairInv, BeforeInit
  <2>2. \A k \in 1..Pos' : stream'[k].kind \in Milestones => ReqAt(k)' = 0
    BY <1>5, <2>1 DEF BeforeInit, Marks
  <2>3. ASSUME ~init_handling_started', NEW k \in 1..Pos', stream'[k].kind = "PlatformInitStart"
        PROVE  stream'[k] \in Held'
    BY <1>1, <1>5, <2>1, <2>3 DEF BeforeInit, Marks
  <2>4. BeforeInit'
    BY <1>2, <2>1, <2>2, <2>3 DEF BeforeInit
  <2>5. OwnState'
    BY <1>2, <1>3, <1>6, <2>1 DEF BeforeInit, OwnState
  <2> QED
    BY <1>1, <1>7, <2>4, <2>5
<1>8. CASE init_handled
  <2>1. AfterInit /\ Taken \in Nat \ {0}
    BY <1>8 DEF PairInv, AfterInit
  <2>2. ~Seen("PlatformReport", Taken)' /\ ~Seen("PlatformRuntimeDone", Taken)'
    BY <1>6, <2>1 DEF AfterInit
  <2>3. \A k \in 1..Pos' : stream'[k].kind \in Milestones => ReqAt(k)' <= Taken + 1
    <3>1. \A k \in 1..Pos : stream[k].kind \in Milestones => ReqAt(k) <= Taken
      BY <2>1 DEF AfterInit
    <3>2. \A k \in 1..Pos : ReqAt(k) \in Nat
      BY <1>5
    <3> QED
      BY <1>5, <3>1, <3>2 DEF Marks
  <2>4. PICK i \in 1..Pos : Is(i, "PlatformReport", Taken)
    BY <1>1, <2>1 DEF AfterInit, Seen
  <2>5. ASSUME NEW k \in 1..Len(stream'), k > Pos' PROVE ReqAt(k)' >= Taken + 1
    <3>1. k \in 1..Len(stream) /\ i \in 1..Len(stream) /\ i < k /\ k > Pos
      BY <1>1, <1>5, <2>5
    <3>2. ReqAt(k) \in Nat /\ ReqAt(k) >= Taken
      BY <1>5, <2>1, <3>1 DEF AfterInit
    <3>3. ReqAt(k) = Taken => ReqAt(k) = 0
      BY <2>4, <3>1 DEF PairingBase, PairedStream, RequestsInOrder
    <3> QED
      BY <1>5, <2>1, <3>1, <3>2, <3>3
  <2>6. AfterInit'
    BY <1>2, <2>1, <2>2, <2>3, <2>5 DEF AfterInit
  <2>7. OwnState'
    BY <1>2, <1>3, <2>2 DEF OwnState
  <2> QED
    BY <1>1, <1>8, <2>6, <2>7
<1> QED
  BY <1>7, <1>8

\* The init phase ends with the start of the first invocation.
LEMMA FinishInitPaired ==
  ASSUME PairingBase, PairInv, ~shutdown_flush_started, FrontMovesOn, Taken' = Taken,
         FinishInit, UNCHANGED platformVars
  PROVE  /\ ~init_handled' => BeforeInit'
         /\ init_handled' => AfterInit'
         /\ OwnState'
<1> DEFINE p == Pos + 1
<1>1. /\ HasNextEvent /\ ~init_handled /\ init_handled' /\ EndsInit(NextEvent)
      /\ invocation_state' = invocation_state /\ invocation_state # NoInvocation
      /\ stream' = stream
  BY DEF FinishInit, HasNextEvent, processing, platformVars
<1>2. BeforeInit /\ OwnState /\ Taken = 1 /\ invocation_state.req = 1
  BY <1>1 DEF PairInv, BeforeInit, OwnState
<1>3. Passed = Pos
  BY <1>1 DEF Passed, Takes, HandleInitStart, BufferInitEvent, ProcessEvent, EndsInit
<1>4. p \in 1..Len(stream) /\ stream[p] = NextEvent
  BY <1>1, HeadBeforeInit
<1>5. ReqAt(p) = 1
  <2>1. 1 \in Requests \/ invocation_state.req \notin Requests
    BY <1>2
  <2>2. invocation_state.req \in Requests
    BY <1>1 DEF PairingBase, TypeInv, TypeOK, ProcessingTypes, InvocationProcessingState
  <2> QED
    BY <1>1, <1>2, <1>4, <2>1, <2>2 DEF ReqAt, EndsInit
<1> HIDE DEF p
<1>6. /\ \A k \in 1..Pos' : stream'[k].kind \in Marks =>
           k \in 1..Pos /\ stream'[k] = stream[k] /\ ReqAt(k)' = ReqAt(k)
      /\ \A k \in 1..Len(stream) : ReqAt(k)' = ReqAt(k) /\ ReqAt(k) \in Nat
      /\ Pos \in Nat /\ Pos' \in Nat /\ Pos <= Pos' /\ Len(stream) \in Nat
  BY <1>3 DEF FrontMovesOn
<1>7. \A k \in 1..Pos' : stream'[k].kind \in Milestones => ReqAt(k)' = 0
  BY <1>2, <1>6 DEF BeforeInit, Marks
<1>8. ~Seen("PlatformReport", Taken)' /\ ~Seen("PlatformRuntimeDone", Taken)'
  BY <1>2, <1>7 DEF Seen, Is, Milestones
<1>9. ASSUME NEW k \in 1..Len(stream'), k > Pos' PROVE ReqAt(k)' >= 1
  <2>1. k \in 1..Len(stream) /\ (k = p \/ p < k)
    BY <1>1, <1>4, <1>6, <1>9 DEF p
  <2>2. ReqAt(p) <= ReqAt(k)
    BY <1>4, <1>5, <1>6, <2>1 DEF PairingBase, PairedStream, RequestsInOrder
  <2> QED
    BY <1>5, <1>6, <2>1, <2>2
<1>10. AfterInit'
  <2>1. \A k \in 1..Pos' : stream'[k].kind \in Milestones => ReqAt(k)' <= 1
    BY <1>7
  <2> QED
    BY <1>1, <1>2, <1>8, <1>9, <2>1 DEF AfterInit
<1>11. OwnState'
  <2>1. ~Has(invocation_state, "PlatformReport") /\ ~Has(invocation_state, "PlatformRuntimeDone")
    BY <1>1, <1>2 DEF BeforeInit, Has
  <2> QED
    BY <1>1, <1>2, <1>8, <2>1 DEF OwnState
<1> QED
  BY <1>1, <1>10, <1>11

\* Spans of the function that runs.
LEMMA ExportPaired ==
  ASSUME TypeOK, ExportSpan, PlatformInv
  PROVE  /\ invocation_state' = NoInvocation <=> invocation_state = NoInvocation
         /\ invocation_state # NoInvocation =>
              /\ invocation_state'.req = invocation_state.req
              /\ invocation_state'.data = invocation_state.data
         /\ UNCHANGED <<init_handled, init_handling_started, section, pending_events,
                        half_processed_event_buffer, held_event>>
<1>1. PICK c \in SpanCategories :
        HandleOtlpSpans(<<[category |-> c, req |-> current, id |-> Len(spans_sent) + 1]>>)
  BY DEF ExportSpan
<1> DEFINE s == [category |-> c, req |-> current, id |-> Len(spans_sent) + 1]
<1>2. <<s>> \in Seq(Span)
  <2>1. c \in SpanCategorization /\ current \in Requests /\ Len(spans_sent) + 1 \in Nat
    BY InstanceAssumption DEF ExportSpan, PlatformInv
  <2>2. s \in Span
    BY <2>1 DEF Span
  <2> HIDE DEF s
  <2> QED
    BY <2>2
<1>3. HandleOtlpSpans(<<s>>)
  BY <1>1
<1> HIDE DEF s
<1>4. CASE SpansForRunningInvoke(<<s>>)
  <2> DEFINE q == ProcessFunctionSpans(ProcessingState, <<s>>)
  <2>1. invocation_state # NoInvocation /\ invocation_state' = q.inv
    BY <1>4 DEF SpansForRunningInvoke, InvocationRuns, SetProcessing
  <2>2. ProcessingState \in ProcessingType /\ ProcessingState.inv = invocation_state
    BY <2>1, ProcessingStateType DEF ProcessingState, Processing
  <2>3. q \in ProcessingType /\ q.inv.req = invocation_state.req /\ q.inv.data = invocation_state.data
    BY <1>2, <2>2, FunctionSpansRecorded, ProcessFunctionSpansType
  <2> HIDE DEF q
  <2>4. q.inv # NoInvocation
    BY <2>3, ProcessingFields, ServiceAssumption
  <2> QED
    BY <1>3, <2>1, <2>3, <2>4 DEF HandleOtlpSpans, initFlags, loop
<1>5. CASE ~SpansForRunningInvoke(<<s>>)
  BY <1>3, <1>5 DEF HandleOtlpSpans, SpansForQueuedInvoke, SpansForNextInvoke, processing, initFlags, loop
<1> QED
  BY <1>4, <1>5

\* The steps that leave the state of the invocation as it is, and the queue.
LEMMA OthersLeaveState ==
  ASSUME PairingBase, Orderly, ~shutdown_flush_started', [InstanceNext]_vars,
         ~ExportSpan,
         UNCHANGED platformVars =>
           /\ ~TakeInvokeEvent /\ ~FinishInit /\ ~ProcessEvent /\ ~HandleInitStart
           /\ ~BufferInitEvent /\ ~ReplayInitEvent
  PROVE  /\ UNCHANGED <<init_handled, invocation_state>>
         /\ ~init_handling_started' => ~init_handling_started /\ Held \subseteq Held'
         /\ Passed = Pos
         /\ section' = "replay" => section = "replay" /\ pending_events' = pending_events
         /\ \A x \in ToSet(half_processed_event_buffer') \cup ToSet(pending_events') :
              \/ x \in ToSet(half_processed_event_buffer) \cup ToSet(pending_events)
              \/ x \in Held
<1>0. TypeOK /\ PlatformInv /\ ~Takes /\ Passed = Pos
  BY DEF PairingBase, TypeInv, Takes, Passed
<1>1. CASE Quiet
  BY <1>0, <1>1 DEF Quiet, loop, initFlags, Held
<1>2. CASE Recording
  BY <1>0, <1>2, RecordingGrows DEF serviceVars, inputs, loop, initFlags, processing, Held
<1>3. CASE DeliverTelemetry
  BY <1>0, <1>3 DEF DeliverTelemetry, HandleIncomingTelemetry, EnterLoop, MutexFree, initFlags, processing, Held
<1>4. CASE Moving /\ UNCHANGED platformVars
  <2>1. CASE DegradeEvent
    <3>1. Head(pending_events).ok /\ pending_events # <<>>
      BY <2>1, FirstWaits DEF DegradeEvent, PairingBase, TypeInv, Orderly
    <3>2. /\ UNCHANGED <<init_handled, init_handling_started, invocation_state, section,
                         held_event, half_processed_event_buffer>>
          /\ section # "replay" /\ pending_events' = Tail(pending_events)
      BY <2>1, <3>1 DEF DegradeEvent, initFlags
    <3>3. ToSet(pending_events') \subseteq ToSet(pending_events)
      BY <1>0, <3>1, <3>2, SequenceFacts, ElementsTail
    <3> QED
      BY <1>0, <3>2, <3>3 DEF Held
  <2>2. CASE DegradeEnds
    <3>1. /\ UNCHANGED <<init_handled, invocation_state, pending_events>>
          /\ init_handling_started' /\ section' # "replay" /\ half_processed_event_buffer' = <<held_event>>
          /\ held_event \in Event /\ section = "degrade"
      BY <2>2 DEF DegradeEnds, processing, PairingBase, LoopShape
    <3>2. ToSet(half_processed_event_buffer') = {held_event} /\ Held = {held_event}
      BY <3>1, OrderOne DEF Held
    <3> QED
      BY <1>0, <3>1, <3>2
  <2>3. CASE ReplayEnds \/ FinishProcessing \/ EnqueueInvokeEvent \/ CheckShouldSend
    <3>1. /\ UNCHANGED <<init_handled, init_handling_started, invocation_state,
                         half_processed_event_buffer>>
          /\ section # "degrade" /\ section' # "replay"
      BY <2>3 DEF ReplayEnds, FinishProcessing, EnqueueInvokeEvent, CheckShouldSend, LeaveLoop, EnterLoop,
                  loop, initFlags, processing, MutexFree
    <3>2. ToSet(pending_events') \subseteq ToSet(pending_events)
      BY <2>3, Elements DEF ReplayEnds, FinishProcessing, EnqueueInvokeEvent, CheckShouldSend, LeaveLoop,
                  EnterLoop, loop, ToSet
    <3> QED
      BY <1>0, <3>1, <3>2 DEF Held
  <2>4. ~RejectEvent /\ ~RejectInvokeEvent /\ ~FlushEnqueuedTelemetry /\ ~SendFlushed
    <3>1. ~RejectEvent
      BY FirstWaits DEF RejectEvent, HasNextEvent, Orderly, PairingBase, TypeInv
    <3>2. ~RejectInvokeEvent /\ ~FlushEnqueuedTelemetry
      BY DEF RejectInvokeEvent, Orderly, FlushEnqueuedTelemetry
    <3>3. ~SendFlushed
      BY DEF SendFlushed, PairingBase, LoopShape, flags
    <3> QED
      BY <3>1, <3>2, <3>3
  <2> QED
    BY <1>4, <2>1, <2>2, <2>3, <2>4 DEF Moving, ProcessingStep
<1> QED
  BY <1>0, <1>1, <1>2, <1>3, <1>4, StepsOfTheInstance

\* What waits for the init phase to end belongs to no request.
LEMMA WaitingNumbers ==
  ASSUME PairingBase
  PROVE  /\ \A x \in Waiting : x.id \in 1..delivered /\ x.id \in 1..Len(stream) /\ stream[x.id] = x
         /\ \A x \in Waiting : ReqAt(x.id) = 0 <=> x.req \notin Requests
         /\ \A x \in Waiting : x.kind = "PlatformInitStart" => x.req \notin Requests
<1>1. Requests = 1..NumRequests /\ delivered \in Nat /\ Len(stream) \in Nat /\ delivered <= Len(stream)
  BY RequestNumbers DEF PairingBase
<1>2. \A x \in Waiting : x.id \in 1..delivered /\ x.id \in 1..Len(stream) /\ stream[x.id] = x
  BY <1>1 DEF PairingBase, InLine
<1>3. \A x \in Waiting : ReqAt(x.id) = 0 <=> x.req \notin Requests
  BY <1>1, <1>2 DEF ReqAt
<1>4. ASSUME NEW x \in Waiting, x.kind = "PlatformInitStart", x.req \in Requests PROVE FALSE
  <2>1. stream[x.id].kind = "PlatformInitStart" /\ stream[x.id].req \in Requests
        /\ x.id \in 1..Len(stream)
    BY <1>2, <1>4
  <2>2. x.id < x.id
    BY <2>1 DEF PairingBase, StreamInv
  <2> QED
    BY <1>1, <2>1, <2>2
<1> QED
  BY <1>2, <1>3, <1>4

\* No event of an invocation was set aside when the init phase ends.
LEMMA NoMilestoneWaits ==
  ASSUME PairingBase, PairInv, ~shutdown_flush_started, FinishInit
  PROVE  \A x \in ToSet(half_processed_event_buffer) : x.kind \notin Milestones
<1> SUFFICES ASSUME NEW x \in ToSet(half_processed_event_buffer), x.kind \in Milestones
             PROVE  FALSE
  OBVIOUS
<1>1. /\ HasNextEvent /\ ~init_handled /\ EndsInit(NextEvent)
      /\ Pos + 1 \in 1..Len(stream) /\ stream[Pos + 1] = NextEvent
      /\ Pos \in Nat /\ delivered \in Nat /\ Pos <= delivered /\ Len(stream) \in Nat
  BY HeadBeforeInit, PosFacts DEF FinishInit, PairingBase, TypeInv
<1>2. invocation_state.req \in Requests
  BY <1>1 DEF HasNextEvent, PairingBase, TypeInv, TypeOK, ProcessingTypes, InvocationProcessingState
<1>3. x \in Waiting /\ x \in WaitingForInit
  BY DEF Waiting, WaitingForInit
<1>4. /\ x.id \in 1..Len(stream) /\ stream[x.id] = x /\ ReqAt(x.id) = 0
      /\ x.id \in 1..delivered
  BY <1>3, WaitingNumbers DEF PairInv, InitEvents
<1>5. PICK j \in (x.id + 1)..Len(stream) : stream[j].kind = "PlatformInitStart"
  BY <1>4 DEF PairingBase, PairedStream, InitRecorded
<1>6. j < Pos + 1
  <2>1. j \in 1..Len(stream) /\ stream[Pos + 1].req \in Requests
    BY <1>1, <1>2, <1>4, <1>5 DEF EndsInit
  <2> QED
    BY <1>1, <1>5, <2>1 DEF PairingBase, StreamInv
<1>7. j \in 1..delivered /\ j \in 1..Len(stream) /\ x.id < j /\ j <= Pos
  BY <1>1, <1>4, <1>5, <1>6
<1>8. stream[j] \in ToSet(telemetry_event_queue) \/ j <= x.id
  BY <1>1, <1>3, <1>5, <1>7 DEF PairingBase, InitWaits
<1>9. stream[j] \in ToSet(telemetry_event_queue) => stream[j].id > Pos
  BY PosFacts DEF PairingBase, TypeInv
<1>10. stream[j].id = j
  BY <1>7 DEF PairingBase, PlatformInv
<1> QED
  BY <1>1, <1>4, <1>7, <1>8, <1>9, <1>10

\* What is set aside during the init belongs to no request.
LEMMA InitEventsStep ==
  ASSUME PairingBase, PairInv, Orderly, ~shutdown_flush_started,
         ~shutdown_flush_started', [InstanceNext]_vars, TypeOK',
         Taken' = IF TakeInvokeEvent THEN Taken + 1 ELSE Taken
  PROVE  InitEvents'
<1> DEFINE half == ToSet(half_processed_event_buffer)
           pending == ToSet(pending_events)
<1>1. InitEvents /\ TypeOK
  BY DEF PairInv, PairingBase, TypeInv
<1>2. \A x \in half \cup pending : x.req \notin Requests
  BY <1>1 DEF InitEvents
<1>3. CASE (HandleInitStart \/ BufferInitEvent) /\ UNCHANGED platformVars
  <2>1. /\ HasNextEvent /\ ~init_handled /\ ~EndsInit(NextEvent) /\ NextEvent \in Event
        /\ section = "events"
        /\ telemetry_event_queue # <<>>
    BY <1>1, <1>3, LoopFacts DEF HandleInitStart, BufferInitEvent, EndsInit, HasNextEvent,
                       PairingBase, TypeInv
  <2>2. NextEvent.req \notin Requests
    <3>1. ReqAt(Pos + 1) = 0 /\ stream[Pos + 1] = NextEvent
      BY <2>1, HeadBeforeInit
    <3>2. 0 \notin Requests
      BY InstanceAssumption
    <3> QED
      BY <3>1, <3>2 DEF ReqAt
  <2>3. /\ ToSet(Append(half_processed_event_buffer, NextEvent)) = half \cup {NextEvent}
        /\ ToSet(<<NextEvent>>) = {NextEvent} /\ ToSet(<<>>) = {}
    <3>1. ToSet(<<>>) = {}
      BY DEF ToSet
    <3> QED
      BY <1>1, <2>1, <3>1, SequenceFacts, ElementsAppend, OrderOne
  <2>4. pending = {}
    BY <2>1, <2>3 DEF PairingBase, LoopShape
  <2>5. /\ section' # "replay"
        /\ \/ half_processed_event_buffer' = <<NextEvent>> /\ pending_events' = pending_events
           \/ /\ half_processed_event_buffer' = Append(half_processed_event_buffer, NextEvent)
              /\ pending_events' = pending_events
           \/ /\ half_processed_event_buffer' = <<>>
              /\ pending_events' = half_processed_event_buffer
    BY <1>3, <2>1 DEF HandleInitStart, BufferInitEvent, loop
  <2> QED
    BY <1>2, <2>2, <2>3, <2>4, <2>5 DEF InitEvents
<1>4. CASE FinishInit /\ UNCHANGED platformVars
  <2>1. /\ pending_events' = half_processed_event_buffer /\ half_processed_event_buffer' = <<>>
        /\ invocation_state' = invocation_state /\ invocation_state # NoInvocation
        /\ ~init_handled /\ ~TakeInvokeEvent
    BY <1>4 DEF FinishInit, processing, HasNextEvent, TakeInvokeEvent
  <2>2. Taken = 1
    BY <2>1 DEF PairInv, BeforeInit
  <2>3. \A x \in ToSet(pending_events') : x.kind \notin Milestones
    BY <1>4, <2>1, NoMilestoneWaits
  <2>4. ToSet(<<>>) = {}
    BY DEF ToSet
  <2> QED
    BY <1>2, <2>1, <2>2, <2>3, <2>4 DEF InitEvents
<1>5. CASE (ProcessEvent \/ TakeInvokeEvent) /\ UNCHANGED platformVars
  <2>1. UNCHANGED <<half_processed_event_buffer, pending_events, section>> /\ section = "events"
    BY <1>5 DEF ProcessEvent, TakeInvokeEvent, HasNextEvent, loop
  <2> QED
    BY <1>2, <2>1 DEF InitEvents
<1>6. CASE ReplayInitEvent /\ UNCHANGED platformVars
  <2> DEFINE e == Head(pending_events)
             q == ProcessTelemetry(ProcessingState, e)
  <2>1. /\ e \in Event /\ section = "replay" /\ pending_events # <<>> /\ e.ok
    BY <1>1, <1>6, LoopFacts, FirstWaits DEF ReplayInitEvent, PairingBase, TypeInv,
        Orderly
  <2>2. /\ invocation_state # NoInvocation /\ Taken = 1
        /\ \A x \in pending : x.kind \notin Milestones
    BY <1>1, <2>1 DEF InitEvents
  <2>3. /\ UNCHANGED <<half_processed_event_buffer, section>>
        /\ pending_events' = Tail(pending_events) /\ invocation_state' = q.inv
    BY <1>6, <2>1 DEF ReplayInitEvent, SetProcessing
  <2>4. q.inv \in InvocationProcessingState
    BY <1>1, <2>1, <2>2, ProcessedState
  <2> HIDE DEF e, q
  <2>5. invocation_state' # NoInvocation
    BY <2>3, <2>4, ServiceAssumption
  <2>6. ToSet(pending_events') \subseteq pending
    BY <1>1, <2>1, <2>3, SequenceFacts, ElementsTail
  <2>7. ~TakeInvokeEvent
    BY <2>1 DEF TakeInvokeEvent
  <2> QED
    BY <1>2, <2>2, <2>3, <2>5, <2>6, <2>7 DEF InitEvents
<1>7. CASE ExportSpan
  <2>1. /\ UNCHANGED <<half_processed_event_buffer, pending_events, section>>
        /\ invocation_state' = NoInvocation <=> invocation_state = NoInvocation
    BY <1>1, <1>7, ExportPaired DEF PairingBase
  <2>2. section = "replay" => ~TakeInvokeEvent
    BY DEF TakeInvokeEvent
  <2> QED
    BY <1>1, <2>1, <2>2 DEF InitEvents
<1>8. CASE /\ ~ExportSpan
           /\ UNCHANGED platformVars =>
                /\ ~TakeInvokeEvent /\ ~FinishInit /\ ~ProcessEvent /\ ~HandleInitStart
                /\ ~BufferInitEvent /\ ~ReplayInitEvent
  <2>1. /\ invocation_state' = invocation_state
        /\ section' = "replay" => section = "replay" /\ pending_events' = pending_events
        /\ \A x \in ToSet(half_processed_event_buffer') \cup ToSet(pending_events') :
             x \in half \cup pending \/ x \in Held
    BY <1>8, OthersLeaveState
  <2>2. \A x \in Held : x.req \notin Requests
    <3>1. \A x \in Held : x.kind = "PlatformInitStart" /\ x \in Waiting
      BY DEF Held, PairingBase, LoopShape, Waiting
    <3> QED
      BY <3>1, WaitingNumbers
  <2>3. section = "replay" => ~TakeInvokeEvent
    BY DEF TakeInvokeEvent
  <2> QED
    BY <1>1, <1>2, <2>1, <2>2, <2>3 DEF InitEvents
<1> QED
  BY <1>3, <1>4, <1>5, <1>6, <1>7, <1>8

\* The service goes on knowing which invocation the next event belongs to.
LEMMA PairInvStep ==
  ASSUME PairingBase, PairInv, Orderly, TypeOK', PlatformInv', InLine', PairedStream',
         [InstanceNext]_vars
  PROVE  PairInv'
<1> SUFFICES ASSUME ~shutdown_flush_started'
             PROVE  /\ ~init_handled' => BeforeInit'
                    /\ init_handled' => AfterInit'
                    /\ OwnState'
                    /\ InitEvents'
  BY DEF PairInv
<1>1. /\ FrontMovesOn /\ ~shutdown_flush_started
      /\ Taken' = IF TakeInvokeEvent THEN Taken + 1 ELSE Taken
      /\ TakeInvokeEvent => Head(invoke_event_queue).req = Taken + 1
  BY MovesOn
<1>2. InitEvents'
  BY <1>1, InitEventsStep
<1>3. OwnState /\ TypeOK /\ PlatformInv
  BY <1>1 DEF PairInv, PairingBase, TypeInv
<1>4. CASE TakeInvokeEvent /\ UNCHANGED platformVars
  BY <1>1, <1>2, <1>4, TakenPaired
<1>5. CASE (HandleInitStart \/ BufferInitEvent) /\ UNCHANGED platformVars
  <2>1. ~TakeInvokeEvent
    BY <1>5 DEF TakeInvokeEvent, HandleInitStart, BufferInitEvent, HasNextEvent
  <2> QED
    BY <1>1, <1>2, <1>5, <2>1, InitEventPaired
<1>6. CASE FinishInit /\ UNCHANGED platformVars
  <2>1. ~TakeInvokeEvent
    BY <1>6 DEF TakeInvokeEvent, FinishInit, HasNextEvent
  <2> QED
    BY <1>1, <1>2, <1>6, <2>1, FinishInitPaired
<1>7. CASE ProcessEvent /\ UNCHANGED platformVars
  <2>1. ~TakeInvokeEvent
    BY <1>7 DEF TakeInvokeEvent, ProcessEvent, HasNextEvent
  <2> QED
    BY <1>1, <1>2, <1>7, <2>1, ProcessedPaired
<1>8. CASE ReplayInitEvent /\ UNCHANGED platformVars
  <2> DEFINE e == Head(pending_events)
             q == ProcessTelemetry(ProcessingState, e)
  <2>1. /\ e \in Event /\ section = "replay" /\ pending_events # <<>> /\ e.ok
        /\ e \in ToSet(pending_events)
    BY <1>3, <1>8, LoopFacts, FirstWaits, SequenceFacts, ElementsTail
    DEF ReplayInitEvent, PairingBase, TypeInv, Orderly
  <2>2. invocation_state # NoInvocation /\ e.kind \notin Milestones /\ init_handled
    BY <1>1, <2>1 DEF PairInv, InitEvents, PairingBase, LoopShape
  <2>3. /\ UNCHANGED <<init_handled, init_handling_started, section, held_event>>
        /\ invocation_state' = q.inv
    BY <1>8, <2>1 DEF ReplayInitEvent, SetProcessing, initFlags
  <2>4. /\ q.inv \in InvocationProcessingState /\ q.inv.req = invocation_state.req
        /\ \A kind \in Milestones : Has(q.inv, kind) <=> Has(invocation_state, kind)
    BY <1>3, <2>1, <2>2, ProcessedState
  <2> HIDE DEF e, q
  <2>5. invocation_state' # NoInvocation
    BY <2>3, <2>4, ServiceAssumption
  <2>6. ~TakeInvokeEvent /\ Passed = Pos /\ Held' = Held
    BY <2>1, <2>3 DEF TakeInvokeEvent, Passed, Takes, HandleInitStart, BufferInitEvent, ProcessEvent,
                HasNextEvent, Held
  <2> QED
    BY <1>1, <1>2, <1>3, <2>2, <2>3, <2>4, <2>5, <2>6, PairKeeps DEF OwnState, Milestones
<1>9. CASE ExportSpan
  <2>1. /\ invocation_state' = NoInvocation <=> invocation_state = NoInvocation
        /\ invocation_state # NoInvocation =>
             /\ invocation_state'.req = invocation_state.req
             /\ invocation_state'.data = invocation_state.data
        /\ UNCHANGED <<init_handled, init_handling_started, section, held_event>>
    BY <1>3, <1>9, ExportPaired
  <2>2. Held' = Held
    BY <2>1 DEF Held
  <2>3. MutexFree
    BY <1>9 DEF ExportSpan, HandleOtlpSpans
  <2>4. ~TakeInvokeEvent /\ Passed = Pos
    BY <2>3 DEF TakeInvokeEvent, Passed, Takes, HandleInitStart, BufferInitEvent, ProcessEvent,
                HasNextEvent, MutexFree
  <2>5. \A kind : invocation_state # NoInvocation =>
          (Has(invocation_state', kind) <=> Has(invocation_state, kind))
    BY <2>1 DEF Has
  <2> QED
    BY <1>1, <1>2, <1>3, <2>1, <2>2, <2>4, <2>5, PairKeeps DEF OwnState
<1>10. CASE /\ ~ExportSpan
            /\ UNCHANGED platformVars =>
                 /\ ~TakeInvokeEvent /\ ~FinishInit /\ ~ProcessEvent /\ ~HandleInitStart
                 /\ ~BufferInitEvent /\ ~ReplayInitEvent
  <2>1. /\ init_handled' = init_handled /\ invocation_state' = invocation_state
        /\ ~init_handling_started' => ~init_handling_started /\ Held \subseteq Held'
        /\ Passed = Pos
    BY <1>10, OthersLeaveState
  <2>2. ~TakeInvokeEvent
    <3>1. ASSUME TakeInvokeEvent PROVE FALSE
      <4>1. invocation_state' \in InvocationProcessingState /\ invocation_state = NoInvocation
        BY <1>3, <3>1, InvokeTaken DEF TakeInvokeEvent
      <4> QED
        BY <2>1, <4>1, ServiceAssumption
    <3> QED
      BY <3>1
  <2> QED
    BY <1>1, <1>2, <1>3, <2>1, <2>2, PairKeeps DEF OwnState
<1> QED
  BY <1>4, <1>5, <1>6, <1>7, <1>8, <1>9, <1>10

\* At the start nothing was taken and nothing waits.
LEMMA PairInit == ASSUME InstanceInit PROVE PairInv /\ MarksWait
<1>1. /\ telemetry_event_queue = <<>> /\ half_processed_event_buffer = <<>>
      /\ pending_events = <<>> /\ delivered = 0 /\ section = "free"
      /\ ~init_handled /\ invocation_state = NoInvocation
  BY DEF InstanceInit, Init
<1>2. Taken = 0
  BY InvocationInit
<1>3. Pos = 0 /\ 1..0 = {} /\ ToSet(<<>>) = {}
  <2>1. ToSet(<<>>) = {}
    BY DEF ToSet
  <2> QED
    BY <1>1, <2>1 DEF Pos
<1>4. MarksWait
  BY <1>1, <1>3 DEF MarksWait
<1>5. BeforeInit
  BY <1>1, <1>2, <1>3 DEF BeforeInit
<1>6. OwnState /\ InitEvents
  BY <1>1, <1>3 DEF OwnState, InitEvents
<1> QED
  BY <1>1, <1>4, <1>5, <1>6 DEF PairInv

-----------------------------------------------------------------------------
(* The signals.                                                            *)

\* The last request whose function is known to have returned, once the handler stops waiting.
Answered == IF pc \in {"context", "drain", "enqueue", "check", "recv"} THEN Handled - 1 ELSE Handled

HasDone(s) == \E i \in 1..Len(s) : s[i] = "InvocationDone"

OneDone(s) ==
  \A i, j \in 1..Len(s) : s[i] = "InvocationDone" /\ s[j] = "InvocationDone" => i = j

\* An InvocationDone is on its way only while the handler waits for it, at most one, and it is
\* about the invocation the handler waits for: the runtime of that invocation is done.
SignalInv ==
  SendAfterInvocation /\ ~shutdown_flush_started =>
    /\ \A r \in 1..Answered : Seen("PlatformRuntimeDone", r)
    /\ OneDone(signals)
    /\ invocation_done => ~HasDone(signals)
    /\ invocation_done \/ HasDone(signals) =>
         pc \in {"check", "recv"} /\ Seen("PlatformRuntimeDone", Handled)

\* What the operations of the channel do to the InvocationDone in it.
LEMMA DoneAppend ==
  ASSUME NEW s \in Seq(Signal)
  PROVE  /\ HasDone(Append(s, "ShouldSend")) <=> HasDone(s)
         /\ OneDone(s) => OneDone(Append(s, "ShouldSend"))
<1> DEFINE t == Append(s, "ShouldSend")
<1>1. /\ Len(s) \in Nat /\ Len(t) = Len(s) + 1 /\ t[Len(s) + 1] = "ShouldSend"
      /\ \A i \in 1..Len(s) : t[i] = s[i]
  OBVIOUS
<1> HIDE DEF t
<1>2. \A i \in 1..Len(t) : t[i] = "InvocationDone" => i \in 1..Len(s) /\ s[i] = "InvocationDone"
  <2>1. ASSUME NEW i \in 1..Len(t), t[i] = "InvocationDone" PROVE i \in 1..Len(s)
    <3>1. i # Len(s) + 1
      BY <1>1, <2>1
    <3> QED
      BY <1>1, <3>1
  <2> QED
    BY <1>1, <2>1
<1>3. \A i \in 1..Len(s) : i \in 1..Len(t)
  BY <1>1
<1>4. HasDone(t) <=> HasDone(s)
  BY <1>1, <1>2, <1>3 DEF HasDone
<1>5. OneDone(s) => OneDone(t)
  BY <1>2 DEF OneDone
<1> QED
  BY <1>4, <1>5 DEF t

\* A signal that is received leaves no second one for its invocation.
LEMMA DoneTail ==
  ASSUME NEW s \in Seq(Signal), s # <<>>, OneDone(s)
  PROVE  /\ OneDone(Tail(s))
         /\ HasDone(Tail(s)) => HasDone(s)
         /\ Head(s) = "InvocationDone" => HasDone(s) /\ ~HasDone(Tail(s))
<1> DEFINE t == Tail(s)
<1>1. /\ Len(s) \in Nat /\ Len(t) = Len(s) - 1 /\ Head(s) = s[1] /\ 1 \in 1..Len(s)
      /\ \A i \in 1..Len(t) : t[i] = s[i + 1] /\ i + 1 \in 1..Len(s)
  OBVIOUS
<1> HIDE DEF t
<1>2. ASSUME NEW i \in 1..Len(t), NEW j \in 1..Len(t),
             t[i] = "InvocationDone", t[j] = "InvocationDone"
      PROVE  i = j
  <2>1. i + 1 = j + 1
    BY <1>1, <1>2 DEF OneDone
  <2> QED
    BY <2>1
<1>3. HasDone(t) => HasDone(s)
  BY <1>1 DEF HasDone
<1>4. ASSUME Head(s) = "InvocationDone", NEW i \in 1..Len(t), t[i] = "InvocationDone" PROVE FALSE
  <2>1. 1 = i + 1
    BY <1>1, <1>4 DEF OneDone
  <2> QED
    BY <2>1
<1>5. OneDone(t)
  BY <1>2 DEF OneDone
<1>6. Head(s) = "InvocationDone" => HasDone(s) /\ ~HasDone(t)
  BY <1>1, <1>4 DEF HasDone
<1> QED
  BY <1>3, <1>5, <1>6 DEF t

\* A signal that is added is the only one of its kind.
LEMMA DoneAdded ==
  ASSUME NEW s \in Seq(Signal), ~HasDone(s)
  PROVE  s \o DoneSignals \in Seq(Signal) /\ OneDone(s \o DoneSignals)
<1> DEFINE t == s \o DoneSignals
<1>1. /\ Len(s) \in Nat /\ Len(t) = Len(s) + 2
      /\ t[Len(s) + 1] = "ShouldSend" /\ t[Len(s) + 2] = "InvocationDone"
      /\ \A i \in 1..Len(s) : t[i] = s[i] /\ s[i] # "InvocationDone"
      /\ t \in Seq(Signal)
  <2>1. DoneSignals \in Seq(Signal) /\ Len(DoneSignals) = 2
        /\ DoneSignals[1] = "ShouldSend" /\ DoneSignals[2] = "InvocationDone"
    BY DEF DoneSignals, Signal
  <2> HIDE DEF DoneSignals
  <2> DEFINE d == DoneSignals
  <2>2. d \in Seq(Signal) /\ Len(d) = 2
    BY <2>1
  <2> HIDE DEF d
  <2>3. Len(s) \in Nat
    OBVIOUS
  <2>4. /\ t \in Seq(Signal) /\ Len(t) = Len(s) + Len(d)
        /\ \A i \in 1..(Len(s) + Len(d)) : t[i] = IF i <= Len(s) THEN s[i] ELSE d[i - Len(s)]
    BY <2>2, ConcatProperties, Zenon DEF d
  <2>5. Len(s) + 1 - Len(s) = 1 /\ Len(s) + 2 - Len(s) = 2
    BY <2>3
  <2> HIDE DEF t
  <2>6. t[Len(s) + 1] = d[1] /\ t[Len(s) + 2] = d[2]
    BY <2>2, <2>3, <2>4, <2>5
  <2> QED
    BY <2>1, <2>2, <2>3, <2>4, <2>6 DEF HasDone, d
<1> HIDE DEF t
<1>2. \A i \in 1..Len(t) : t[i] = "InvocationDone" => i = Len(s) + 2
  <2> SUFFICES ASSUME NEW i \in 1..Len(t), t[i] = "InvocationDone" PROVE i = Len(s) + 2
    OBVIOUS
  <2>1. i \notin 1..Len(s) /\ i # Len(s) + 1
    BY <1>1
  <2> QED
    BY <1>1, <2>1
<1>3. OneDone(t)
  BY <1>2 DEF OneDone
<1> QED
  BY <1>1, <1>3 DEF t

\* What was seen stays seen.
LEMMA SeenStays ==
  ASSUME FrontMovesOn, NEW r, Seen("PlatformRuntimeDone", r)
  PROVE  Seen("PlatformRuntimeDone", r)'
<1>1. \E k \in 1..Passed : Is(k, "PlatformRuntimeDone", r)
  <2>1. \A k \in 1..Pos : k \in 1..Passed
    BY DEF FrontMovesOn
  <2> QED
    BY <2>1 DEF Seen
<1>2. "PlatformRuntimeDone" \in Marks
  BY DEF Marks, Milestones
<1> QED
  BY <1>1, <1>2, SeenAfter

\* The steps that tell the handler nothing new.
LEMMA SignalKeeps ==
  ASSUME TypeOK, SendAfterInvocation, ~shutdown_flush_started, SignalInv, FrontMovesOn,
         Handled' = Handled, Answered' = Answered,
         pc \in {"check", "recv"} => pc' \in {"check", "recv"},
         invocation_done' => invocation_done,
         \/ signals' = signals
         \/ signals' = Append(signals, "ShouldSend")
         \/ signals' = <<>>
         \/ signals # <<>> /\ signals' = Tail(signals)
  PROVE  SignalInv'
<1>1. /\ signals \in Seq(Signal) /\ OneDone(signals)
      /\ \A r \in 1..Answered : Seen("PlatformRuntimeDone", r)
      /\ invocation_done => ~HasDone(signals)
      /\ invocation_done \/ HasDone(signals) =>
           pc \in {"check", "recv"} /\ Seen("PlatformRuntimeDone", Handled)
  BY DEF SignalInv, TypeOK, CoordinationTypes
<1>2. OneDone(signals') /\ (HasDone(signals') => HasDone(signals))
  <2>1. OneDone(<<>>) /\ ~HasDone(<<>>)
    BY DEF OneDone, HasDone
  <2> QED
    BY <1>1, <2>1, DoneAppend, DoneTail
<1>3. \A r \in 1..Answered' : Seen("PlatformRuntimeDone", r)'
  BY <1>1, SeenStays
<1>4. Seen("PlatformRuntimeDone", Handled) => Seen("PlatformRuntimeDone", Handled)'
  <2>1. Seen("PlatformRuntimeDone", Handled) => \E k \in 1..Passed : Is(k, "PlatformRuntimeDone", Handled)
    <3>1. \A k \in 1..Pos : k \in 1..Passed
      BY DEF FrontMovesOn
    <3> QED
      BY <3>1 DEF Seen
  <2>2. "PlatformRuntimeDone" \in Marks
    BY DEF Marks, Milestones
  <2> DEFINE h == Handled
  <2>3. h' = h
    OBVIOUS
  <2> HIDE DEF h
  <2>4. Seen("PlatformRuntimeDone", h)' <=> \E k \in 1..Passed : Is(k, "PlatformRuntimeDone", h)
    BY <2>2, <2>3, SeenAfter
  <2> QED
    BY <2>1, <2>4 DEF h
<1> QED
  BY <1>1, <1>2, <1>3, <1>4 DEF SignalInv

\* Such steps.
NothingNew ==
  /\ Handled' = Handled /\ Answered' = Answered
  /\ pc \in {"check", "recv"} => pc' \in {"check", "recv"}
  /\ invocation_done' => invocation_done
  /\ \/ signals' = signals
     \/ signals' = Append(signals, "ShouldSend")
     \/ signals' = <<>>
     \/ signals # <<>> /\ signals' = Tail(signals)

\* The steps of the handler, but for the one that receives an InvocationDone.
LEMMA HandlerSignals ==
  ASSUME PairingBase, Orderly, SendAfterInvocation, HandlerStep,
         ~shutdown_flush_started', ~(ReceiveSignal /\ Head(signals) = "InvocationDone")
  PROVE  NothingNew
<1>1. ~FailToObtainFunctionContext /\ ~FlushEnqueuedTelemetry /\ ~SendFlushed
  BY DEF FailToObtainFunctionContext, Orderly, FlushEnqueuedTelemetry, SendFlushed,
         PairingBase, LoopShape, flags
<1>2. signals \in Seq(Signal)
  BY DEF PairingBase, TypeInv, TypeOK, CoordinationTypes
<1>3. CASE ReceiveSignal
  <2>1. signals # <<>> /\ Head(signals) = "ShouldSend"
    <3>1. signals # <<>>
      BY <1>3 DEF ReceiveSignal
    <3>2. Head(signals) \in Signal
      BY <1>2, <3>1
    <3> QED
      BY <1>3, <3>1, <3>2 DEF Signal
  <2>2. /\ pc = "recv" /\ pc' = "check" /\ handling' = handling /\ signals' = Tail(signals)
        /\ invocation_done' = invocation_done
    BY <1>3, <2>1 DEF ReceiveSignal, loop
  <2>3. Handled' = Handled
    BY <2>2 DEF Handled
  <2>4. Answered' = Answered
    BY <2>2, <2>3 DEF Answered
  <2> QED
    BY <2>1, <2>2, <2>3, <2>4 DEF NothingNew
<1>4. CASE ~ReceiveSignal
  <2>1. /\ handling' = handling
        /\ invocation_done' => invocation_done
        /\ signals' = signals \/ signals' = <<>>
    BY <1>1, <1>4
    DEF HandlerStep, ObtainFunctionContext, DrainSignals, EnqueueInvokeEvent, CheckShouldSend,
        SendTelemetry, ForbidOtel, AwaitInFlightSends, AwaitTimesOut, PermitOtel, GraceElapses,
        FinishShutdown, EnterLoop, loop, coordination
  <2>2. /\ pc \in {"check", "recv"} => pc' \in {"check", "recv"}
        /\ \/ /\ pc \in {"context", "drain", "enqueue", "check", "recv"}
              /\ pc' \in {"context", "drain", "enqueue", "check", "recv"}
           \/ /\ pc \notin {"context", "drain", "enqueue", "check", "recv"}
              /\ pc' \notin {"context", "drain", "enqueue", "check", "recv"}
    BY <1>1, <1>4
    DEF HandlerStep, ObtainFunctionContext, DrainSignals, EnqueueInvokeEvent, CheckShouldSend,
        ForbidOtel, AwaitInFlightSends, AwaitTimesOut, PermitOtel, GraceElapses,
        FinishShutdown, SendAfterInvocation
  <2>3. Handled' = Handled
    BY <2>1 DEF Handled
  <2>4. Answered' = Answered
    BY <2>2, <2>3 DEF Answered
  <2> QED
    BY <2>1, <2>2, <2>3, <2>4 DEF NothingNew
<1> QED
  BY <1>3, <1>4

\* The steps of all others, but for those that process the end of a runtime.
LEMMA OtherSignals ==
  ASSUME PairingBase, Orderly, [InstanceNext]_vars, ~shutdown_flush_started',
         ~(ServiceStep /\ HandlerStep), ~DeliverInvoke,
         ~(ProcessEvent /\ UNCHANGED platformVars /\ IsInvocationDone(NextEvent)),
         ~(FinishProcessing /\ invocation_done)
  PROVE  NothingNew
<1>1. ASSUME handling' = handling, pc' = pc, invocation_done' => invocation_done,
             signals' = signals \/ signals' = Append(signals, "ShouldSend")
      PROVE  NothingNew
  <2>1. Handled' = Handled /\ Answered' = Answered
    BY <1>1 DEF Handled, Answered
  <2> QED
    BY <1>1, <2>1 DEF NothingNew
<1>2. CASE DeliverShutdown
  <2>1. /\ pc = "ready" /\ pc' \in {"grace", "flush"} /\ handling' = handling
        /\ signals' = signals /\ invocation_done' = invocation_done
    BY <1>2 DEF DeliverShutdown, StartShutdown, loop, coordination
  <2>2. Handled' = Handled /\ Answered' = Answered
    BY <2>1 DEF Handled, Answered
  <2> QED
    BY <2>1, <2>2 DEF NothingNew
<1>3. CASE DeliverTelemetry
  <2>1. /\ handling' = handling /\ pc' = pc /\ invocation_done' = invocation_done
        /\ signals' = signals \/ signals' = Append(signals, "ShouldSend")
    BY <1>3 DEF DeliverTelemetry, HandleIncomingTelemetry, EnterLoop, handler, SignalShouldSendBy,
                SignalShouldSend, coordination
  <2> QED
    BY <1>1, <2>1
<1>4. CASE ExportSpan \/ ExportMetric
  <2>1. /\ handling' = handling /\ pc' = pc /\ invocation_done' = invocation_done
        /\ signals' = signals \/ signals' = Append(signals, "ShouldSend")
    BY <1>4 DEF ExportSpan, HandleOtlpSpans, SpansForQueuedInvoke, SpansForNextInvoke,
                SpansForRunningInvoke, ExportMetric, HandleOtlpMetrics, SignalAfterDelay,
                handler, loop, SignalShouldSendBy, SignalShouldSend, coordination
  <2> QED
    BY <1>1, <2>1
<1>5. CASE Recording \/ AdvanceClock \/ UNCHANGED vars
  <2>1. /\ handling' = handling /\ pc' = pc /\ invocation_done' = invocation_done
        /\ signals' = signals
    BY <1>5, RecordingGrows DEF PairingBase, TypeInv, AdvanceClock, Tick, vars, serviceVars, handler,
                loop, coordination
  <2> QED
    BY <1>1, <2>1
<1>6. CASE ServiceStep /\ ((\E t \in timers : TimerFires(t)) \/ SendEnds)
  <2>1. /\ handling' = handling /\ pc' = pc /\ invocation_done' = invocation_done
        /\ signals' = signals \/ signals' = Append(signals, "ShouldSend")
    BY <1>6 DEF TimerFires, ServeDeadline, SignalShouldSend, SendEnds, handler, loop, coordination
  <2> QED
    BY <1>1, <2>1
<1>7. CASE ServiceStep /\ ProcessingStep
  <2>1. ~RejectEvent /\ ~RejectInvokeEvent
    BY FirstWaits DEF RejectEvent, RejectInvokeEvent, HasNextEvent,
       Orderly, PairingBase, TypeInv
  <2>2. (ReplayInitEvent \/ DegradeEvent) => Head(pending_events).ok
    BY FirstWaits DEF ReplayInitEvent, DegradeEvent,
       Orderly, PairingBase, TypeInv
  <2>3. /\ handling' = handling /\ pc' = pc
        /\ invocation_done' => invocation_done
        /\ signals' = signals
    <3>1. CASE ProcessEvent
      <4>1. ~IsInvocationDone(NextEvent)
        BY <1>7, <3>1 DEF ServiceStep
      <4> QED
        BY <3>1, <4>1, Zenon DEF ProcessEvent, handler, coordination
    <3>2. CASE FinishProcessing
      <4>1. ~invocation_done
        BY <3>2
      <4>2. signals' = signals /\ invocation_done' = FALSE /\ handling' = handling /\ pc' = pc
        BY <3>2, <4>1 DEF FinishProcessing, LeaveLoop, handler
      <4> QED
        BY <4>2
    <3>3. CASE ~ProcessEvent /\ ~FinishProcessing
      BY <1>7, <2>1, <2>2, <3>3
      DEF ProcessingStep, TakeInvokeEvent, HandleInitStart, BufferInitEvent, FinishInit,
          ReplayInitEvent, ReplayEnds, DegradeEvent, DegradeEnds, handler, loop, coordination
    <3> QED
      BY <3>1, <3>2, <3>3
  <2> QED
    BY <1>1, <2>3
<1> QED
  BY <1>2, <1>3, <1>4, <1>5, <1>6, <1>7 DEF InstanceNext, Recording, ServiceStep, Terminated

\* The end of a runtime is processed while the handler waits for it.
LEMMA DoneProcessed ==
  ASSUME PairingBase, PairInv, SignalInv, SendAfterInvocation, ~shutdown_flush_started,
         FrontMovesOn, ProcessEvent, UNCHANGED platformVars, IsInvocationDone(NextEvent)
  PROVE  SignalInv'
<1> DEFINE p == Pos + 1
<1>1. /\ p \in 1..Len(stream) /\ stream[p].kind = "PlatformRuntimeDone" /\ ReqAt(p) = Taken
      /\ Passed = p /\ Pos \in Nat /\ Len(stream) \in Nat
  BY HeadPaired DEF ProcessEvent, IsInvocationDone, Passed, Takes, FrontMovesOn
<1>2. Taken \in Nat \ {0}
  BY DEF PairInv, AfterInit, ProcessEvent
<1>3. ~Seen("PlatformRuntimeDone", Taken)
  <2>1. ASSUME NEW k \in 1..Pos, Is(k, "PlatformRuntimeDone", Taken) PROVE FALSE
    <3>1. k \in 1..Len(stream) /\ k # p
      BY <1>1, <2>1
    <3> QED
      BY <1>1, <1>2, <2>1, <3>1 DEF Is, PairingBase, PairedStream, DoneOnce
  <2> QED
    BY <2>1 DEF Seen
<1>4. /\ \A r \in 1..Answered : Seen("PlatformRuntimeDone", r)
      /\ OneDone(signals)
      /\ invocation_done \/ HasDone(signals) => Seen("PlatformRuntimeDone", Handled)
  BY DEF SignalInv
<1>5. pc \in {"check", "recv"} /\ Handled = Taken
  <2>1. /\ Handled \in Nat /\ Enqueued \in Nat /\ Len(invoke_event_queue) \in Nat
        /\ pc \in {"context", "drain", "enqueue"} => Enqueued = Handled - 1
        /\ pc \notin {"context", "drain", "enqueue"} => Enqueued = Handled
    BY HandlerNumbers DEF PairingBase, TypeInv
  <2>2. Taken <= Enqueued
    BY <2>1 DEF Taken
  <2>3. ~(Taken <= Answered)
    <3>1. Answered \in Int
      BY <2>1 DEF Answered
    <3> QED
      BY <1>2, <1>3, <1>4, <3>1
  <2> QED
    BY <1>2, <2>1, <2>2, <2>3 DEF Answered
<1>6. /\ signals' = signals /\ pc' = pc /\ handling' = handling
  BY DEF ProcessEvent, coordination, handler
<1>7. Handled' = Handled /\ Answered' = Answered /\ ~HasDone(signals)
  BY <1>3, <1>4, <1>5, <1>6 DEF Handled, Answered
<1>8. \A r \in 1..Answered : Seen("PlatformRuntimeDone", r)'
  BY <1>4, SeenStays
<1>9. Seen("PlatformRuntimeDone", Handled)'
  <2> DEFINE h == Handled
  <2>1. h' = h
    BY <1>7
  <2> HIDE DEF h
  <2>2. "PlatformRuntimeDone" \in Marks
    BY DEF Marks, Milestones
  <2>3. Seen("PlatformRuntimeDone", h)' <=> \E k \in 1..Passed : Is(k, "PlatformRuntimeDone", h)
    BY <2>1, <2>2, SeenAfter
  <2>4. p \in 1..Passed /\ Is(p, "PlatformRuntimeDone", h)
    BY <1>1, <1>5 DEF Is, h
  <2> QED
    BY <2>3, <2>4 DEF h
<1> QED
  BY <1>4, <1>5, <1>6, <1>7, <1>8, <1>9 DEF SignalInv

\* The handler is told that the invocation is done, hears it, and goes on to the next.
LEMMA DoneTold ==
  ASSUME TypeOK, PlatformInv, HandlerInv, SignalInv, SendAfterInvocation, ~shutdown_flush_started, FrontMovesOn,
         \/ FinishProcessing /\ invocation_done
         \/ ReceiveSignal /\ Head(signals) = "InvocationDone"
         \/ DeliverInvoke
  PROVE  SignalInv'
<1>1. /\ signals \in Seq(Signal) /\ OneDone(signals)
      /\ \A r \in 1..Answered : Seen("PlatformRuntimeDone", r)
      /\ invocation_done => ~HasDone(signals)
      /\ invocation_done \/ HasDone(signals) =>
           pc \in {"check", "recv"} /\ Seen("PlatformRuntimeDone", Handled)
  BY DEF SignalInv, TypeOK, CoordinationTypes
<1>2. \A r \in 1..Answered : Seen("PlatformRuntimeDone", r)'
  BY <1>1, SeenStays
<1>3. ASSUME Handled' = Handled, Seen("PlatformRuntimeDone", Handled)
      PROVE  Seen("PlatformRuntimeDone", Handled)'
  <2> DEFINE h == Handled
  <2>1. h' = h /\ Seen("PlatformRuntimeDone", h)
    BY <1>3
  <2> HIDE DEF h
  <2>2. Seen("PlatformRuntimeDone", h)'
    BY <2>1, SeenStays
  <2> QED
    BY <2>2 DEF h
<1>4. /\ Handled \in Nat /\ Handled' \in Nat
      /\ pc \notin {"ready"} \cup ShutdownSteps => Handled = current
  <2>1. Handled \in Nat /\ Handled' \in Nat
    BY RequestNumbers DEF Handled
  <2> QED
    BY <2>1, HandlerNumbers
<1>5. CASE FinishProcessing /\ invocation_done
  <2>1. /\ signals' = signals \o DoneSignals /\ pc' = pc /\ handling' = handling
        /\ ~invocation_done'
    BY <1>5 DEF FinishProcessing, LeaveLoop, handler
  <2>2. Handled' = Handled /\ Answered' = Answered /\ OneDone(signals')
    BY <1>1, <1>5, <2>1, DoneAdded DEF Handled, Answered
  <2>3. Seen("PlatformRuntimeDone", Handled)'
    BY <1>1, <1>3, <1>5, <2>2
  <2> QED
    BY <1>1, <1>2, <1>5, <2>1, <2>2, <2>3 DEF SignalInv
<1>6. CASE ReceiveSignal /\ Head(signals) = "InvocationDone"
  <2>1. /\ pc = "recv" /\ pc' = "settle" /\ signals # <<>> /\ signals' = Tail(signals)
        /\ handling' = handling /\ invocation_done' = invocation_done
    BY <1>6 DEF ReceiveSignal, loop
  <2>2. OneDone(signals') /\ ~HasDone(signals') /\ HasDone(signals) /\ ~invocation_done
    BY <1>1, <1>6, <2>1, DoneTail
  <2>3. Handled' = Handled /\ Answered = Handled - 1 /\ Answered' = Handled
    BY <2>1 DEF Handled, Answered
  <2>4. \A r \in 1..Handled : Seen("PlatformRuntimeDone", r)'
    <3>1. ASSUME NEW r \in 1..Handled, r = Handled PROVE Seen("PlatformRuntimeDone", r)'
      BY <1>1, <2>2, <3>1, SeenStays
    <3>2. \A r \in 1..Handled : r \in 1..Answered \/ r = Handled
      BY <1>4, <2>3
    <3> QED
      BY <1>2, <3>1, <3>2
  <2> QED
    BY <2>1, <2>2, <2>3, <2>4 DEF SignalInv
<1>7. CASE DeliverInvoke
  <2>1. /\ pc = "ready" /\ pc' = "context" /\ handling # current /\ handling' = current
        /\ signals' = signals /\ invocation_done' = invocation_done
        /\ current \in Requests
    BY <1>7 DEF DeliverInvoke, StartInvoke, loop, coordination, PlatformInv
  <2>2. Handled' = current /\ Handled # current
    BY <2>1, RequestNumbers DEF Handled
  <2>3. Handled = current - 1 /\ Answered = Handled /\ Answered' = Handled' - 1
    BY <2>1, <2>2 DEF HandlerInv, Answered
  <2>4. Answered' = Answered
    BY <2>2, <2>3
  <2>5. ~invocation_done /\ ~HasDone(signals)
    BY <1>1, <2>1
  <2> QED
    BY <1>1, <1>2, <2>1, <2>4, <2>5 DEF SignalInv
<1> QED
  BY <1>5, <1>6, <1>7

\* Each step keeps what is known of the signals.
LEMMA SignalInvStep ==
  ASSUME PairingBase, PairInv, SignalInv, Orderly, TypeOK', PlatformInv', InLine',
         PairedStream', [InstanceNext]_vars
  PROVE  SignalInv'
<1> SUFFICES ASSUME SendAfterInvocation, ~shutdown_flush_started' PROVE SignalInv'
  BY DEF SignalInv
<1>1. FrontMovesOn /\ ~shutdown_flush_started
  BY MovesOn
<1>2. TypeOK /\ PlatformInv /\ HandlerInv
  BY DEF PairingBase, TypeInv
<1>3. CASE NothingNew
  BY <1>1, <1>2, <1>3, SignalKeeps DEF NothingNew
<1>4. CASE DeliverInvoke
  BY <1>1, <1>2, <1>4, DoneTold
<1>5. CASE ServiceStep /\ HandlerStep
  <2>1. CASE ReceiveSignal /\ Head(signals) = "InvocationDone"
    BY <1>1, <1>2, <2>1, DoneTold
  <2> QED
    BY <1>3, <1>5, <2>1, HandlerSignals
<1>6. CASE ProcessEvent /\ UNCHANGED platformVars /\ IsInvocationDone(NextEvent)
  BY <1>1, <1>6, DoneProcessed
<1>7. CASE FinishProcessing /\ invocation_done
  BY <1>1, <1>2, <1>7, DoneTold
<1> QED
  BY <1>1, <1>3, <1>4, <1>5, <1>6, <1>7, OtherSignals

-----------------------------------------------------------------------------
(* The theorems.                                                           *)

\* All that the answers of the handler rely on.
AnswerInv == PairingBase /\ FlushOnce /\ PairInv /\ SignalInv

\* Initially, nothing was paired and nothing is signalled.
LEMMA AnswerInit == ASSUME InstanceInit PROVE AnswerInv
<1>1. FlowInv
  BY FlowInit
<1>2. PairedStream /\ HandlerInv /\ QueueInv /\ PairInv /\ MarksWait
  BY PairedInit, InvocationInit, PairInit
<1>3. PairingBase
  BY <1>1, <1>2 DEF FlowInv, InstanceTypeInv, PairingBase
<1>4. SignalInv
  <2>1. /\ handling \notin Requests /\ pc = "ready" /\ signals = <<>> /\ ~invocation_done
    BY ProcessorAssumption DEF InstanceInit, Init
  <2>2. Answered = 0 /\ 1..0 = {} /\ Len(<<>>) = 0
    BY <2>1 DEF Answered, Handled
  <2> QED
    BY <2>1, <2>2 DEF SignalInv, OneDone, HasDone
<1> QED
  BY <1>1, <1>3, <1>4, <1>2 DEF AnswerInv, FlowInv

\* All parts of the argument are kept together: each rests on the others.
LEMMA AnswerStep ==
  ASSUME AnswerInv, Orderly, [InstanceNext]_vars
  PROVE  AnswerInv'
<1> USE DEF AnswerInv, PairingBase
<1>1. /\ \A x \in Waiting : x.ok
      /\ LossyKinds \cap {"PlatformRuntimeDone", "PlatformInitStart"} = {}
  BY DEF Orderly, Milestones
<1>2. TypeOK /\ PlatformInv /\ TypeInv
  BY DEF TypeInv
<1>3. InstanceTypeInv'
  BY <1>2, InstanceStepTypes DEF InstanceTypeInv
<1>4. TypeInv' /\ PlatformInv' /\ TypeOK'
  BY <1>3 DEF InstanceTypeInv, TypeInv
<1>5. StreamInv'
  BY <1>2, StreamStep
<1>6. LoopShape'
  BY <1>2, LoopShapeStep
<1>7. InLine'
  BY <1>2, InLineStep
<1>8. InitWaits'
  BY <1>1, <1>2, InitWaitsStep
<1>9. PairedStream'
  BY <1>2, PairedStep
<1>10. HandlerInv'
  BY <1>2, HandlerInvStep
<1>11. QueueInv'
  BY <1>2, QueueStep
<1>12. MarksWait'
  <2>1. ~shutdown_flush_started' => MarksWait'
    BY <1>4, <1>7, <1>9, MovesOn
  <2> QED
    BY <2>1 DEF MarksWait
<1>13. PairInv'
  BY <1>4, <1>7, <1>9, PairInvStep
<1>14. SignalInv'
  BY <1>4, <1>7, <1>9, SignalInvStep
<1>15. FlushOnce'
  BY <1>2, FlushOnceStep
<1> QED
  BY <1>4, <1>5, <1>6, <1>7, <1>8, <1>9, <1>10, <1>11, <1>12, <1>13, <1>14, <1>15

\* The invariant of the pairing.
LEMMA AnswersArePaired == PairingConditions /\ InstanceSpec => []AnswerInv
<1> SUFFICES ASSUME PairingConditions PROVE InstanceSpec => []AnswerInv
  OBVIOUS
<1>1. InstanceInit => AnswerInv
  BY AnswerInit
<1>2. AnswerInv /\ [InstanceNext]_vars => AnswerInv'
  BY AlwaysOrderly, AnswerStep DEF AnswerInv
<1> QED
  BY <1>1, <1>2, PTL DEF InstanceSpec

\* The handler stops waiting for an invocation only when the function has returned, and the
\* invocation is the one it was called with: no signal of an earlier one ends the wait
\* (handle_invoke_event, Signal::InvocationDone), however late telemetry arrives and whatever
\* the number of requests.
THEOREM AnswersAfterRuntimeDone ==
  PairingConditions /\ InstanceSpec => []ReadyOnlyAfterRuntimeDone
<1>1. AnswerInv => ReadyOnlyAfterRuntimeDone
  <2> SUFFICES ASSUME AnswerInv, SendAfterInvocation, HandlerKnowsItIsDone
               PROVE  phase = "over" /\ handling = current
    BY DEF ReadyOnlyAfterRuntimeDone
  <2>1. PairingBase /\ TypeOK /\ PlatformInv /\ HandlerInv
    BY DEF AnswerInv, PairingBase, TypeInv
  <2>2. /\ pc \notin {"ready"} \cup ShutdownSteps
        /\ pc \notin {"context", "drain", "enqueue", "check", "recv"}
        /\ ~shutdown_flush_started
    BY DEF AnswerInv, FlushOnce, HandlerKnowsItIsDone, ShutdownSteps
  <2>3. Handled = current /\ current > 0 /\ current \in Nat /\ phase \in {"running", "over"}
    BY <2>1, <2>2, HandlerNumbers DEF HandlerInv
  <2>4. handling = current
    BY <2>3 DEF Handled
  <2>5. Answered = current
    BY <2>2, <2>3 DEF Answered
  <2>6. Seen("PlatformRuntimeDone", current)
    BY <2>2, <2>3, <2>5 DEF AnswerInv, SignalInv
  <2>7. PICK k \in 1..Pos : Is(k, "PlatformRuntimeDone", current)
    BY <2>6 DEF Seen
  <2>8. k \in 1..Len(stream)
    BY <2>1, <2>7, PosFacts DEF PairingBase
  <2>9. phase # "running"
    BY <2>1, <2>7, <2>8 DEF PairingBase, PairedStream, PhaseRecorded
  <2> QED
    BY <2>3, <2>4, <2>9
<1> QED
  BY <1>1, AnswersArePaired, PTL

\* When the handler asks for the next event, and until it waits for that invocation, no
\* InvocationDone of an earlier one is left in the channel (handle_invoke_event drains it
\* only in LowOverhead).
THEOREM ChannelIsCleared == PairingConditions /\ InstanceSpec => []NoStaleInvocationDone
<1>1. AnswerInv => NoStaleInvocationDone
  <2> SUFFICES ASSUME AnswerInv, SendAfterInvocation, pc \in {"ready", "context", "enqueue"}
               PROVE  ~HasSignal("InvocationDone")
    BY DEF NoStaleInvocationDone
  <2>1. ~shutdown_flush_started /\ pc \notin {"check", "recv"}
    BY DEF AnswerInv, FlushOnce
  <2>2. ~HasDone(signals)
    BY <2>1 DEF AnswerInv, SignalInv
  <2>3. DOMAIN signals = 1..Len(signals)
    BY DEF AnswerInv, PairingBase, TypeInv, TypeOK, CoordinationTypes
  <2> QED
    BY <2>2, <2>3 DEF HasSignal, HasDone
<1> QED
  BY <1>1, AnswersArePaired, PTL

=============================================================================
