--------------------------- MODULE OtelMetricsProofs ---------------------------
(***************************************************************************)
(* What the accumulator of OTel metrics keeps of a metric, for any number  *)
(* of series and points, whatever their values and times and wherever the  *)
(* reports are cut: all that OtelMetrics promises.                         *)
(*                                                                         *)
(* The reports and the points that wait are two ends of one series: the    *)
(* invariant ties the previous point to the end of what was reported, and  *)
(* an induction over the points that wait carries what holds of the        *)
(* reported series through the loop of take_and_inflate_data_points.       *)
(***************************************************************************)
EXTENDS OtelMetrics, SequenceTheorems, WellFoundedInduction, TLAPS

-----------------------------------------------------------------------------
(* The inductive invariant. *)

\* A rate over these points is right.
RateWorksOver(e) ==
  /\ e # <<>> => e[1].value = 0
  /\ \A i \in 1..Len(e) - 1 :
       /\ e[i].time <= e[i + 1].time
       /\ e[i].value # e[i + 1].value => e[i + 1].time <= e[i].time + MaxTimeBetweenData

\* Only a gap has its last value repeated, before the point that ends it.
RepeatsAcrossGaps(e) ==
  \A i \in 1..Len(e) - 1 :
    e[i].value = e[i + 1].value =>
      /\ i + 2 <= Len(e)
      /\ e[i + 2].value # e[i + 1].value
      /\ e[i + 2].time = e[i + 1].time + ReportLastTime
      /\ e[i + 2].time > e[i].time + MaxTimeBetweenData

\* Each of the points differs from the one before it.
AllDiffer(points) == \A i \in 1..Len(points) - 1 : points[i].value # points[i + 1].value

\* The points come in the order of time, none from after t.
InOrder(points, t) ==
  /\ \A i \in 1..Len(points) - 1 : points[i].time <= points[i + 1].time
  /\ \A i \in 1..Len(points) : points[i].time <= t

\* Nothing is known of a metric that did not come.
NothingBeforeFirst ==
  temporality = "new" =>
    /\ ~mixed
    /\ \A s \in Series :
         time_series[s] = EmptySeries /\ observed[s] = <<>> /\ exported[s] = <<>>

\* The previous point is the last one reported, e being what was reported.
PreviousIsLast(e, previous) ==
  IF previous = <<>> THEN e = <<>> ELSE e # <<>> /\ e[Len(e)] = previous[1]

\* What holds of a cumulative series: ts is what the accumulator has of it, o the points
\* observed and e those reported.
CumulativeKept(mixes, ts, o, e) ==
  /\ PreviousIsLast(e, ts.previous_point)
  /\ RateWorksOver(e)
  /\ Course(e \o ts.new_points) = Course(o)
  /\ ~mixes => RepeatsAcrossGaps(e) /\ AllDiffer(KnownPoints(ts))

\* What holds of any series at a time t.
SeriesKept(cumulative, mixes, t, ts, o, e) ==
  /\ Len(ts.previous_point) <= 1
  /\ InOrder(KnownPoints(ts), t)
  /\ cumulative => CumulativeKept(mixes, ts, o, e)
  /\ ~cumulative /\ ~mixes => e \o ts.new_points = o

IInv ==
  /\ TypeOK
  /\ NothingBeforeFirst
  /\ \A s \in Series :
       SeriesKept(Cumulative, mixed, now, time_series[s], observed[s], exported[s])

-----------------------------------------------------------------------------
(* The course of values.  Induction is by the least counterexample.        *)

\* A set of numbers has a least element.
LEMMA LeastNumber ==
  ASSUME NEW T, T \subseteq Nat, T # {}
  PROVE  \E x \in T : \A y \in T : x <= y
<1> DEFINE R == {ss \in Nat \X Nat : ss[1] < ss[2]}
<1>1. IsWellFoundedOn(R, Nat)
  BY NatLessThanWellFounded DEF OpToRel
<1> HIDE DEF R
<1>2. PICK x \in T : \A y \in T : ~(<<y, x>> \in R)
  BY <1>1, WFMin
<1>3. \A y \in T : ~(y < x)
  BY <1>2 DEF R
<1> QED BY <1>3

Values == 0..MaxValue

\* A course that goes on to a value.
GoOn(course, value) == IF Last(course) = value THEN course ELSE Append(course, value)

\* f maps each i up to n to the course of the first i points.
CoursesUpTo(f, points, n) ==
  f = [i \in 0..n |->
         IF i = 0 THEN <<0>>
         ELSE IF Last(f[i - 1]) = points[i].value THEN f[i - 1]
         ELSE Append(f[i - 1], points[i].value)]

\* The equation, at a place.
LEMMA CourseStep ==
  ASSUME NEW f, NEW points, NEW n \in Nat, CoursesUpTo(f, points, n), NEW i \in 0..n
  PROVE  f[i] = IF i = 0 THEN <<0>> ELSE GoOn(f[i - 1], points[i].value)
BY DEF CoursesUpTo, GoOn

\* The recursive function of Course exists, so that it is what its equation says.
LEMMA CoursesExist ==
  ASSUME NEW points, NEW n \in Nat
  PROVE  \E f : CoursesUpTo(f, points, n)
<1> DEFINE Bad == {m \in Nat : ~\E f : CoursesUpTo(f, points, m)}
<1> SUFFICES ASSUME Bad # {} PROVE FALSE
  OBVIOUS
<1>1. PICK m \in Bad : \A k \in Bad : m <= k
  BY LeastNumber
<1>2. m # 0
  <2>1. CoursesUpTo([i \in 0..0 |-> <<0>>], points, 0)
    BY DEF CoursesUpTo
  <2> QED BY <1>1, <2>1
<1>3. m \in Nat /\ m - 1 \in Nat /\ m - 1 \notin Bad
  BY <1>1, <1>2
<1>4. PICK f : CoursesUpTo(f, points, m - 1)
  BY <1>3
<1> DEFINE last == GoOn(f[m - 1], points[m].value)
           g == [i \in 0..m |-> IF i = m THEN last ELSE f[i]]
<1>5. CoursesUpTo(g, points, m)
  <2>1. \A i \in 0..(m - 1) : g[i] = f[i]
    BY <1>3
  <2>2. ASSUME NEW i \in 0..m
        PROVE  g[i] = IF i = 0 THEN <<0>>
                      ELSE IF Last(g[i - 1]) = points[i].value THEN g[i - 1]
                      ELSE Append(g[i - 1], points[i].value)
    <3>1. CASE i = m
      <4>1. i # 0 /\ g[i] = last /\ g[i - 1] = f[m - 1]
        BY <1>2, <1>3, <2>1, <3>1
      <4> QED BY <3>1, <4>1 DEF GoOn
    <3>2. CASE i # m
      <4>1. i \in 0..(m - 1) /\ g[i] = f[i] /\ (i # 0 => g[i - 1] = f[i - 1])
        BY <1>3, <2>1, <3>2
      <4>2. f[i] = IF i = 0 THEN <<0>> ELSE GoOn(f[i - 1], points[i].value)
        BY <1>3, <1>4, <4>1, CourseStep
      <4> QED BY <4>1, <4>2 DEF GoOn
    <3> QED BY <3>1, <3>2
  <2>3. g = [i \in 0..m |-> g[i]]
    OBVIOUS
  <2> HIDE DEF g
  <2> QED BY <2>2, <2>3 DEF CoursesUpTo
<1> QED BY <1>1, <1>5

\* Course is the value at Len(points) of a function that satisfies its equation.
LEMMA CourseIs ==
  ASSUME NEW points \in Seq(Point)
  PROVE  \E f : CoursesUpTo(f, points, Len(points)) /\ Course(points) = f[Len(points)]
<1>1. \E f : CoursesUpTo(f, points, Len(points))
  BY CoursesExist, LenProperties
<1> DEFINE h == CHOOSE f : CoursesUpTo(f, points, Len(points))
<1>2. CoursesUpTo(h, points, Len(points))
  BY <1>1
<1>3. Course(points) = h[Len(points)]
  BY DEF Course, CoursesUpTo
<1> QED BY <1>2, <1>3

\* What the first k points give does not depend on those that follow.
LEMMA CoursePrefix ==
  ASSUME NEW xs, NEW ys, NEW m \in Nat, NEW n \in Nat, NEW f, NEW g,
         CoursesUpTo(f, xs, m), CoursesUpTo(g, ys, n),
         NEW k \in Nat, k <= m, k <= n, \A i \in 1..k : xs[i] = ys[i]
  PROVE  f[k] = g[k]
<1> DEFINE Bad == {i \in 0..k : f[i] # g[i]}
<1>1. SUFFICES ASSUME Bad # {} PROVE FALSE
  OBVIOUS
<1>2. PICK i \in Bad : \A j \in Bad : i <= j
  <2>1. Bad \subseteq Nat
    OBVIOUS
  <2> HIDE DEF Bad
  <2> QED BY <1>1, <2>1, LeastNumber
<1>3. i \in 0..m /\ i \in 0..n /\ f[i] # g[i]
  BY <1>2
<1>4. /\ f[i] = IF i = 0 THEN <<0>> ELSE GoOn(f[i - 1], xs[i].value)
      /\ g[i] = IF i = 0 THEN <<0>> ELSE GoOn(g[i - 1], ys[i].value)
  BY <1>3, CourseStep
<1>5. i # 0
  BY <1>3, <1>4
<1>6. i - 1 \in 0..k /\ i - 1 \notin Bad /\ i \in 1..k
  BY <1>2, <1>5
<1>7. f[i - 1] = g[i - 1] /\ xs[i] = ys[i]
  BY <1>6
<1> QED BY <1>3, <1>4, <1>5, <1>7

\* What a point adds to the course.
LEMMA CourseAppend ==
  ASSUME NEW points \in Seq(Point), NEW p \in Point
  PROVE  Course(Append(points, p)) = GoOn(Course(points), p.value)
<1> DEFINE more == Append(points, p)
           n == Len(points)
<1>1. /\ more \in Seq(Point) /\ Len(more) = n + 1 /\ n \in Nat
      /\ more[n + 1] = p /\ \A i \in 1..n : points[i] = more[i]
  BY AppendProperties, LenProperties
<1> HIDE DEF more, n
<1>2. PICK f : CoursesUpTo(f, points, n) /\ Course(points) = f[n]
  BY CourseIs DEF n
<1>3. PICK g : CoursesUpTo(g, more, n + 1) /\ Course(more) = g[n + 1]
  BY <1>1, CourseIs
<1>4. f[n] = g[n]
  BY <1>1, <1>2, <1>3, CoursePrefix
<1>5. g[n + 1] = GoOn(g[n], more[n + 1].value)
  <2>1. n + 1 \in Nat /\ n + 1 \in 0..(n + 1) /\ n + 1 # 0 /\ (n + 1) - 1 = n
    BY <1>1
  <2> QED BY <1>3, <2>1, CourseStep
<1> QED BY <1>1, <1>2, <1>3, <1>4, <1>5 DEF more

\* No point, no change.
LEMMA CourseEmpty == Course(<<>>) = <<0>>
<1>1. <<>> \in Seq(Point) /\ Len(<<>>) = 0
  BY EmptySeq
<1>2. PICK f : CoursesUpTo(f, <<>>, 0) /\ Course(<<>>) = f[0]
  BY <1>1, CourseIs
<1>3. f[0] = <<0>>
  BY <1>2, CourseStep
<1> QED BY <1>2, <1>3

\* The value a series is at, from zero.
LastValue(points) == IF points = <<>> THEN 0 ELSE points[Len(points)].value

\* A course that went on is at the value it went on to.
LEMMA GoOnType ==
  ASSUME NEW c \in Seq(Values), c # <<>>, NEW v \in Values
  PROVE  GoOn(c, v) \in Seq(Values) /\ GoOn(c, v) # <<>> /\ Last(GoOn(c, v)) = v
<1>1. CASE Last(c) = v
  BY <1>1 DEF GoOn
<1>2. CASE Last(c) # v
  <2>1. /\ Append(c, v) \in Seq(Values) /\ Append(c, v) # <<>>
        /\ Len(Append(c, v)) = Len(c) + 1 /\ Append(c, v)[Len(c) + 1] = v
    BY AppendProperties
  <2>2. GoOn(c, v) = Append(c, v)
    BY <1>2 DEF GoOn
  <2> QED BY <2>1, <2>2 DEF Last
<1> QED BY <1>1, <1>2

CourseTyped(points) ==
  /\ Course(points) \in Seq(Values) /\ Course(points) # <<>>
  /\ Last(Course(points)) = LastValue(points)

\* A course ends at the value of the last point.
LEMMA CourseLast ==
  ASSUME NEW points \in Seq(Point)
  PROVE  CourseTyped(points)
<1> DEFINE Bad == {m \in Nat : \E xs \in Seq(Point) : Len(xs) = m /\ ~CourseTyped(xs)}
<1>1. SUFFICES ASSUME Bad # {} PROVE FALSE
  <2>1. Len(points) \in Nat
    BY LenProperties
  <2> QED BY <2>1
<1>2. PICK m \in Bad : \A k \in Bad : m <= k
  <2>1. Bad \subseteq Nat
    OBVIOUS
  <2> HIDE DEF Bad
  <2> QED BY <1>1, <2>1, LeastNumber
<1>3. PICK xs \in Seq(Point) : Len(xs) = m /\ ~CourseTyped(xs)
  BY <1>2
<1>4. xs # <<>>
  <2>1. 0 \in Values
    BY OtelMetricsAssumption DEF Values
  <2>2. <<0>> \in Seq(Values) /\ <<0>> # <<>> /\ Last(<<0>>) = 0
    BY <2>1 DEF Last
  <2>3. CourseTyped(<<>>)
    BY <2>2, CourseEmpty DEF CourseTyped, LastValue
  <2> QED BY <1>3, <2>3
<1>5. PICK ys \in Seq(Point), p \in Point : xs = Append(ys, p)
  BY <1>4, SequenceEmptyOrAppend
<1>6. Len(ys) \in Nat /\ Len(xs) = Len(ys) + 1 /\ xs # <<>> /\ xs[Len(ys) + 1] = p
  BY <1>5, AppendProperties, LenProperties
<1>7. CourseTyped(ys)
  <2>1. Len(ys) \notin Bad
    BY <1>2, <1>3, <1>6
  <2> QED BY <1>6, <2>1
<1>8. p.value \in Values
  BY DEF Point, Values
<1>9. Course(xs) = GoOn(Course(ys), p.value)
  BY <1>5, CourseAppend
<1>10. /\ Course(xs) \in Seq(Values) /\ Course(xs) # <<>>
       /\ Last(Course(xs)) = p.value
  BY <1>7, <1>8, <1>9, GoOnType DEF CourseTyped
<1>11. LastValue(xs) = p.value
  BY <1>6 DEF LastValue
<1> QED BY <1>3, <1>10, <1>11 DEF CourseTyped

-----------------------------------------------------------------------------
(* One more point. *)

\* A point that comes in time can follow the last one.
LEMMA RateAppend ==
  ASSUME NEW e \in Seq(Point), e # <<>>, RateWorksOver(e), NEW p \in Point,
         e[Len(e)].time <= p.time,
         e[Len(e)].value # p.value => p.time <= e[Len(e)].time + MaxTimeBetweenData
  PROVE  RateWorksOver(Append(e, p))
<1> DEFINE more == Append(e, p)
           n == Len(e)
<1>1. /\ n \in Nat /\ n # 0 /\ more \in Seq(Point) /\ Len(more) = n + 1
      /\ more[n + 1] = p /\ \A i \in 1..n : more[i] = e[i]
  BY AppendProperties, LenProperties, EmptySeq
<1> HIDE DEF more
<1>2. more[1].value = 0
  BY <1>1 DEF RateWorksOver
<1>3. ASSUME NEW i \in 1..Len(more) - 1
      PROVE  /\ more[i].time <= more[i + 1].time
             /\ more[i].value # more[i + 1].value
                  => more[i + 1].time <= more[i].time + MaxTimeBetweenData
  <2>1. i \in 1..n
    BY <1>1
  <2>2. CASE i = n
    BY <1>1, <2>1, <2>2
  <2>3. CASE i # n
    <3>1. i \in 1..Len(e) - 1 /\ i + 1 \in 1..n
      BY <1>1, <2>1, <2>3
    <3>2. more[i] = e[i] /\ more[i + 1] = e[i + 1]
      BY <1>1, <2>1, <3>1
    <3> QED BY <3>1, <3>2 DEF RateWorksOver
  <2> QED BY <2>2, <2>3
<1> QED BY <1>2, <1>3 DEF RateWorksOver, more

\* A point with another value repeats nothing.
LEMMA RepeatsAppend ==
  ASSUME NEW e \in Seq(Point), RepeatsAcrossGaps(e), NEW p \in Point,
         e # <<>> => e[Len(e)].value # p.value
  PROVE  RepeatsAcrossGaps(Append(e, p))
<1> DEFINE more == Append(e, p)
           n == Len(e)
<1>1. /\ n \in Nat /\ more \in Seq(Point) /\ Len(more) = n + 1
      /\ more[n + 1] = p /\ \A i \in 1..n : more[i] = e[i]
  BY AppendProperties, LenProperties
<1>0. n # 0 => e # <<>>
  BY EmptySeq
<1> HIDE DEF more
<1>2. ASSUME NEW i \in 1..Len(more) - 1, more[i].value = more[i + 1].value
      PROVE  /\ i + 2 <= Len(more)
             /\ more[i + 2].value # more[i + 1].value
             /\ more[i + 2].time = more[i + 1].time + ReportLastTime
             /\ more[i + 2].time > more[i].time + MaxTimeBetweenData
  <2>1. i \in 1..n
    BY <1>1
  <2>2. i # n
    BY <1>0, <1>1, <1>2, <2>1
  <2>3. i \in 1..Len(e) - 1 /\ i + 1 \in 1..n
    BY <1>1, <2>1, <2>2
  <2>4. more[i] = e[i] /\ more[i + 1] = e[i + 1]
    BY <1>1, <2>1, <2>3
  <2>5. e[i].value = e[i + 1].value
    BY <1>2, <2>4
  <2>6. /\ i + 2 <= Len(e)
        /\ e[i + 2].value # e[i + 1].value
        /\ e[i + 2].time = e[i + 1].time + ReportLastTime
        /\ e[i + 2].time > e[i].time + MaxTimeBetweenData
    BY <2>3, <2>5 DEF RepeatsAcrossGaps
  <2>7. more[i + 2] = e[i + 2]
    BY <1>1, <2>1, <2>6
  <2> QED BY <1>1, <2>4, <2>6, <2>7
<1> QED BY <1>2 DEF RepeatsAcrossGaps, more

\* The last point repeated before one that comes after a gap.
Bridge(q, p) == CloneWithTimestamp(q, SaturatingSub(p.time, ReportLastTime))

\* The copy is dated ReportLastTime before the point, which is after the point it copies.
LEMMA BridgeType ==
  ASSUME NEW q \in Point, NEW p \in Point, p.time > q.time + MaxTimeBetweenData
  PROVE  /\ Bridge(q, p) \in Point /\ Bridge(q, p).value = q.value
         /\ p.time = Bridge(q, p).time + ReportLastTime
         /\ q.time <= Bridge(q, p).time
<1>1. p.time \in 0..MaxTime /\ q.time \in 0..MaxTime /\ q.value \in 0..MaxValue
  BY DEF Point
<1>2. /\ MaxTime \in Nat /\ ReportLastTime \in Nat /\ MaxTimeBetweenData \in Nat
      /\ ReportLastTime < MaxTimeBetweenData
  BY OtelMetricsAssumption
<1> DEFINE t == p.time - ReportLastTime
<1>3. SaturatingSub(p.time, ReportLastTime) = t
  BY <1>1, <1>2 DEF SaturatingSub
<1>4. t \in 0..MaxTime /\ q.time <= t /\ p.time = t + ReportLastTime
  BY <1>1, <1>2
<1> HIDE DEF t
<1>5. Bridge(q, p) = [value |-> q.value, time |-> t]
  BY <1>3 DEF Bridge, CloneWithTimestamp, Point
<1> QED BY <1>1, <1>4, <1>5 DEF Point

\* A gap is bridged by a repetition of its last value.
LEMMA RepeatsBridge ==
  ASSUME NEW e \in Seq(Point), e # <<>>, RepeatsAcrossGaps(e), NEW p \in Point,
         e[Len(e)].value # p.value, p.time > e[Len(e)].time + MaxTimeBetweenData
  PROVE  RepeatsAcrossGaps(Append(Append(e, Bridge(e[Len(e)], p)), p))
<1> DEFINE n == Len(e)
           c == Bridge(e[n], p)
           more == Append(Append(e, c), p)
<1>1. n \in Nat /\ n # 0 /\ n \in 1..n /\ e[n] \in Point
  BY LenProperties, EmptySeq, ElementOfSeq
<1>2. /\ c \in Point /\ c.value = e[n].value /\ p.time = c.time + ReportLastTime
  BY <1>1, BridgeType
<1> HIDE DEF c
<1>3. /\ Append(e, c) \in Seq(Point) /\ Len(Append(e, c)) = n + 1
      /\ Append(e, c)[n + 1] = c /\ \A i \in 1..n : Append(e, c)[i] = e[i]
  BY <1>2, AppendProperties
<1>4. /\ more \in Seq(Point) /\ Len(more) = n + 2 /\ more[n + 2] = p
      /\ \A i \in 1..n + 1 : more[i] = Append(e, c)[i]
  <2>1. (n + 1) + 1 = n + 2
    BY <1>1
  <2> QED BY <1>3, <2>1, AppendProperties
<1>5. more[n + 1] = c /\ \A i \in 1..n : more[i] = e[i]
  BY <1>1, <1>3, <1>4
<1> HIDE DEF more
<1>6. ASSUME NEW i \in 1..Len(more) - 1, more[i].value = more[i + 1].value
      PROVE  /\ i + 2 <= Len(more)
             /\ more[i + 2].value # more[i + 1].value
             /\ more[i + 2].time = more[i + 1].time + ReportLastTime
             /\ more[i + 2].time > more[i].time + MaxTimeBetweenData
  <2>1. i \in 1..n + 1 /\ n \in Nat
    BY <1>1, <1>4
  <2>2. i # n + 1
    <3>1. SUFFICES ASSUME i = n + 1 PROVE FALSE
      OBVIOUS
    <3>2. i + 1 = n + 2
      BY <1>1, <3>1
    <3>3. more[i] = c /\ more[i + 1] = p
      BY <1>4, <1>5, <3>1, <3>2
    <3> QED BY <1>2, <1>6, <3>3
  <2>3. CASE i = n
    <3>1. more[i] = e[n] /\ more[i + 1] = c /\ more[i + 2] = p
      BY <1>1, <1>4, <1>5, <2>3
    <3>2. i + 2 <= Len(more)
      BY <1>1, <1>4, <2>3
    <3> QED BY <1>2, <3>1, <3>2
  <2>4. CASE i # n
    <3>1. i \in 1..Len(e) - 1 /\ i + 1 \in 1..n
      BY <2>1, <2>2, <2>4
    <3>2. more[i] = e[i] /\ more[i + 1] = e[i + 1]
      BY <1>5, <2>1, <2>2, <3>1
    <3>3. e[i].value = e[i + 1].value
      BY <1>6, <3>2
    <3>4. /\ i + 2 <= Len(e)
          /\ e[i + 2].value # e[i + 1].value
          /\ e[i + 2].time = e[i + 1].time + ReportLastTime
          /\ e[i + 2].time > e[i].time + MaxTimeBetweenData
      BY <3>1, <3>3 DEF RepeatsAcrossGaps
    <3>5. i + 2 \in 1..n
      BY <2>1, <3>4
    <3>6. more[i + 2] = e[i + 2] /\ i + 2 <= Len(more)
      BY <1>1, <1>4, <1>5, <3>4, <3>5
    <3> QED BY <3>2, <3>4, <3>6
  <2> QED BY <2>3, <2>4
<1> QED BY <1>6 DEF RepeatsAcrossGaps, more, c

\* more is e with p at its end, and a rate over it is right if it was right over e.
Extension(e, p, more) ==
  /\ more \in Seq(Point) /\ more # <<>> /\ more[Len(more)] = p
  /\ RateWorksOver(more)
  /\ Course(more) = GoOn(Course(e), p.value)

\* A turn of the loop puts a point at the end of the series.
LEMMA InflateExtends ==
  ASSUME NEW e \in Seq(Point), e # <<>>, RateWorksOver(e), NEW p \in Point,
         e[Len(e)].time <= p.time
  PROVE  /\ Inflate(e[Len(e)], p) \in Seq(Point)
         /\ Extension(e, p, e \o Inflate(e[Len(e)], p))
         /\ RepeatsAcrossGaps(e) /\ e[Len(e)].value # p.value
              => RepeatsAcrossGaps(e \o Inflate(e[Len(e)], p))
<1> DEFINE n == Len(e)
           q == e[n]
           c == Bridge(q, p)
<1>1. n \in Nat /\ n # 0 /\ n \in 1..n /\ q \in Point
  BY LenProperties, EmptySeq, ElementOfSeq
<1>2. /\ p.time \in Nat /\ q.time \in Nat /\ MaxTimeBetweenData \in Nat /\ ReportLastTime \in Nat
      /\ ReportLastTime < MaxTimeBetweenData
  BY <1>1, OtelMetricsAssumption DEF Point
<1>3. CASE ~(p.time > q.time + MaxTimeBetweenData)
  <2>1. Inflate(q, p) = <<p>> /\ <<p>> \in Seq(Point)
    BY <1>3 DEF Inflate
  <2>2. e \o <<p>> = Append(e, p)
    BY AppendIsConcat
  <2>3. /\ Append(e, p) \in Seq(Point) /\ Append(e, p) # <<>>
        /\ Append(e, p)[Len(Append(e, p))] = p
    BY <1>1, AppendProperties
  <2>4. RateWorksOver(Append(e, p))
    BY <1>2, <1>3, RateAppend
  <2>5. Course(Append(e, p)) = GoOn(Course(e), p.value)
    BY CourseAppend
  <2>6. RepeatsAcrossGaps(e) /\ q.value # p.value => RepeatsAcrossGaps(Append(e, p))
    BY RepeatsAppend
  <2> QED BY <2>1, <2>2, <2>3, <2>4, <2>5, <2>6 DEF Extension
<1>4. CASE p.time > q.time + MaxTimeBetweenData
  <2> DEFINE e1 == Append(e, c)
             more == Append(e1, p)
  <2>1. c \in Point /\ c.value = q.value /\ p.time = c.time + ReportLastTime /\ q.time <= c.time
    BY <1>1, <1>4, BridgeType
  <2>2. Inflate(q, p) = <<c, p>> /\ c.time \in Nat
    BY <1>4, <2>1 DEF Inflate, Bridge, Point
  <2> HIDE DEF c
  <2>3. <<c, p>> \in Seq(Point)
    BY <2>1
  <2>4. /\ e1 \in Seq(Point) /\ e1 # <<>> /\ e1[Len(e1)] = c
    BY <1>1, <2>1, AppendProperties
  <2>5. /\ more \in Seq(Point) /\ more # <<>> /\ more[Len(more)] = p
    <3>1. Len(e1) \in Nat
      BY <2>4, LenProperties
    <3> HIDE DEF e1
    <3> QED BY <2>4, <3>1, AppendProperties
  <2>6. e \o <<c, p>> = more
    <3>1. e1 = e \o <<c>> /\ more = e1 \o <<p>>
      BY <2>1, <2>4, AppendIsConcat
    <3>2. <<c>> \in Seq(Point) /\ <<p>> \in Seq(Point)
      BY <2>1
    <3>3. <<c>> \o <<p>> = <<c, p>>
      <4>1. <<c>> \o <<p>> = Append(<<c>>, p)
        BY <3>2, AppendIsConcat
      <4>2. /\ Append(<<c>>, p) \in Seq(Point) /\ <<c, p>> \in Seq(Point)
            /\ Len(Append(<<c>>, p)) = 2 /\ Len(<<c, p>>) = 2
            /\ Append(<<c>>, p)[1] = c /\ Append(<<c>>, p)[2] = p
        <5>1. Len(<<c>>) = 1 /\ <<c>>[1] = c
          OBVIOUS
        <5> QED BY <2>3, <3>2, <5>1, AppendProperties
      <4>3. \A i \in 1..2 : Append(<<c>>, p)[i] = <<c, p>>[i]
        BY <4>2
      <4> QED BY <4>1, <4>2, <4>3, SeqEqual
    <3> HIDE DEF e1, more
    <3> QED BY <3>1, <3>2, <3>3, ConcatAssociative
  <2>7. RateWorksOver(e1)
    BY <1>1, <2>1, RateAppend
  <2>8. RateWorksOver(more)
    <3>1. c.time <= p.time /\ p.time <= c.time + MaxTimeBetweenData
      BY <1>2, <2>1, <2>2
    <3> HIDE DEF e1
    <3> QED BY <2>4, <2>7, <3>1, RateAppend
  <2>9. Course(e1) = Course(e)
    <3>1. Course(e1) = GoOn(Course(e), q.value)
      BY <2>1, CourseAppend
    <3>2. Last(Course(e)) = q.value
      BY CourseLast DEF CourseTyped, LastValue
    <3> QED BY <3>1, <3>2 DEF GoOn
  <2>10. Course(more) = GoOn(Course(e), p.value)
    <3> HIDE DEF e1
    <3> QED BY <2>4, <2>9, CourseAppend
  <2>11. RepeatsAcrossGaps(e) /\ q.value # p.value => RepeatsAcrossGaps(more)
    BY <1>4, RepeatsBridge DEF c
  <2> HIDE DEF more
  <2> QED BY <2>2, <2>3, <2>5, <2>6, <2>8, <2>10, <2>11 DEF Extension
<1> QED BY <1>3, <1>4

\* The first point of a series comes after a zero, unless it is one.
LEMMA ZeroExtends ==
  ASSUME NEW p \in Point
  PROVE  /\ WithZero(p) \in Seq(Point)
         /\ Extension(<<>>, p, WithZero(p))
         /\ RepeatsAcrossGaps(WithZero(p))
<1>1. Course(<<>>) = <<0>> /\ <<>> \in Seq(Point) /\ Len(<<>>) = 0
  BY CourseEmpty, EmptySeq
<1>2. /\ Append(<<>>, p) = <<p>> /\ <<p>> \in Seq(Point) /\ Len(<<p>>) = 1 /\ <<p>>[1] = p
      /\ <<p>> # <<>>
  OBVIOUS
<1>3. CASE p.value = 0
  <2>1. WithZero(p) = <<p>>
    BY <1>3 DEF WithZero
  <2>2. RateWorksOver(<<p>>) /\ RepeatsAcrossGaps(<<p>>)
    BY <1>2, <1>3 DEF RateWorksOver, RepeatsAcrossGaps
  <2>3. Course(<<p>>) = GoOn(Course(<<>>), p.value)
    BY <1>1, <1>2, CourseAppend
  <2> QED BY <1>2, <2>1, <2>2, <2>3 DEF Extension
<1>4. CASE p.value # 0
  <2> DEFINE t == SaturatingSub(p.time, ReportLastTime)
             z == [value |-> 0, time |-> t]
  <2>1. p.time \in 0..MaxTime /\ MaxTime \in Nat /\ MaxValue \in Nat
    BY OtelMetricsAssumption DEF Point
  <2>2. t \in 0..MaxTime /\ t <= p.time /\ p.time <= t + MaxTimeBetweenData
    BY <2>1, OtelMetricsAssumption DEF SaturatingSub
  <2> HIDE DEF t
  <2>3. z \in Point /\ z.value = 0 /\ z.time = t
    BY <2>1, <2>2 DEF Point
  <2> HIDE DEF z
  <2>4. WithZero(p) = <<z, p>>
    BY <1>4 DEF WithZero, z, t
  <2>5. <<z>> \in Seq(Point) /\ Len(<<z>>) = 1 /\ <<z>>[1] = z /\ <<z>> # <<>>
    BY <2>3
  <2>6. Append(<<>>, z) = <<z>>
    OBVIOUS
  <2>7. RateWorksOver(<<z>>) /\ RepeatsAcrossGaps(<<z>>)
    BY <2>3, <2>5 DEF RateWorksOver, RepeatsAcrossGaps
  <2> DEFINE more == Append(<<z>>, p)
  <2>8. /\ more \in Seq(Point) /\ more # <<>> /\ Len(more) = 2
        /\ more[1] = z /\ more[2] = p
    BY <2>5, AppendProperties
  <2>9. RateWorksOver(more)
    BY <2>2, <2>3, <2>5, <2>7, RateAppend
  <2>10. RepeatsAcrossGaps(more)
    BY <1>4, <2>3, <2>5, <2>7, RepeatsAppend
  <2>11. Course(more) = GoOn(Course(<<>>), p.value)
    <3>1. Course(more) = GoOn(Course(<<z>>), p.value)
      BY <2>5, CourseAppend
    <3>2. Course(<<z>>) = GoOn(<<0>>, 0)
      BY <1>1, <2>3, <2>6, CourseAppend
    <3>3. GoOn(<<0>>, 0) = <<0>>
      BY DEF GoOn, Last
    <3> QED BY <1>1, <3>1, <3>2, <3>3
  <2> HIDE DEF more
  <2>12. <<z, p>> \in Seq(Point) /\ Len(<<z, p>>) = 2
    BY <2>3
  <2>13. <<z, p>> = more
    <3>1. \A i \in 1..2 : <<z, p>>[i] = more[i]
      BY <2>8
    <3> QED BY <2>8, <2>12, <3>1, SeqEqual
  <2> QED BY <2>4, <2>8, <2>9, <2>10, <2>11, <2>12, <2>13 DEF Extension
<1> QED BY <1>3, <1>4

-----------------------------------------------------------------------------
(* The loop over the known points. *)

\* f maps each i up to n to what is put out for the first i points.
OutputsUpTo(f, a, K, n) ==
  f = [i \in 0..n |->
         IF i = 0 THEN <<>>
         ELSE IF i = 1
              THEN (IF a # <<>> THEN <<>> ELSE WithZero(K[1]))
         ELSE f[i - 1] \o Inflate(K[i - 1], K[i])]

\* What a turn makes of the output so far.
Turn(a, K, i, output) ==
  IF i = 0 THEN <<>>
  ELSE IF i = 1 THEN (IF a # <<>> THEN <<>> ELSE WithZero(K[1]))
  ELSE output \o Inflate(K[i - 1], K[i])

\* The equation, at a place.
LEMMA OutputStep ==
  ASSUME NEW f, NEW a, NEW K, NEW n \in Nat, OutputsUpTo(f, a, K, n), NEW i \in 0..n
  PROVE  f[i] = Turn(a, K, i, f[i - 1])
BY DEF OutputsUpTo, Turn

\* The recursive function of InflatedPoints exists.
LEMMA OutputsExist ==
  ASSUME NEW a, NEW K, NEW n \in Nat
  PROVE  \E f : OutputsUpTo(f, a, K, n)
<1> DEFINE Bad == {m \in Nat : ~\E f : OutputsUpTo(f, a, K, m)}
<1> SUFFICES ASSUME Bad # {} PROVE FALSE
  OBVIOUS
<1>1. PICK m \in Bad : \A k \in Bad : m <= k
  BY LeastNumber
<1>2. m # 0
  <2>1. OutputsUpTo([i \in 0..0 |-> <<>>], a, K, 0)
    BY DEF OutputsUpTo
  <2> QED BY <1>1, <2>1
<1>3. m \in Nat /\ m - 1 \in Nat /\ m - 1 \notin Bad
  BY <1>1, <1>2
<1>4. PICK f : OutputsUpTo(f, a, K, m - 1)
  BY <1>3
<1> DEFINE last == Turn(a, K, m, f[m - 1])
           g == [i \in 0..m |-> IF i = m THEN last ELSE f[i]]
<1>5. OutputsUpTo(g, a, K, m)
  <2>1. \A i \in 0..(m - 1) : g[i] = f[i]
    BY <1>3
  <2>2. ASSUME NEW i \in 0..m
        PROVE  g[i] = Turn(a, K, i, g[i - 1])
    <3>1. CASE i = m
      <4>1. g[i] = last /\ g[i - 1] = f[m - 1]
        BY <1>2, <1>3, <2>1, <3>1
      <4> QED BY <3>1, <4>1
    <3>2. CASE i # m
      <4>1. i \in 0..(m - 1) /\ g[i] = f[i] /\ (i # 0 => g[i - 1] = f[i - 1])
        BY <1>3, <2>1, <3>2
      <4>2. f[i] = Turn(a, K, i, f[i - 1])
        BY <1>3, <1>4, <4>1, OutputStep
      <4> QED BY <4>1, <4>2 DEF Turn
    <3> QED BY <3>1, <3>2
  <2>3. g = [i \in 0..m |-> g[i]]
    OBVIOUS
  <2>4. g = [i \in 0..m |-> Turn(a, K, i, g[i - 1])]
    <3> HIDE DEF g
    <3> QED BY <2>2, <2>3
  <2> HIDE DEF g
  <2> QED BY <2>4 DEF OutputsUpTo, Turn
<1> QED BY <1>1, <1>5

\* InflatedPoints is the value of such a function at the number of known points.
LEMMA InflatedIs ==
  ASSUME NEW ts, NEW a, NEW K, a = ts.previous_point, K = KnownPoints(ts), Len(K) \in Nat
  PROVE  \E f : OutputsUpTo(f, a, K, Len(K)) /\ InflatedPoints(ts) = f[Len(K)]
<1> DEFINE h == CHOOSE f : OutputsUpTo(f, a, K, Len(K))
<1>1. OutputsUpTo(h, a, K, Len(K))
  BY OutputsExist
<1>2. InflatedPoints(ts) = h[Len(K)]
  BY DEF InflatedPoints, OutputsUpTo
<1> QED BY <1>1, <1>2

\* The known points are the previous one, if there is one, and then the new ones.
KnownAs(K, a, b) ==
  /\ K \in Seq(Point) /\ Len(K) = Len(a) + Len(b)
  /\ \A i \in 1..Len(a) : K[i] = a[i]
  /\ \A i \in 1..Len(b) : K[Len(a) + i] = b[i]

\* So they are, whatever is before and after.
LEMMA KnownType ==
  ASSUME NEW a \in Seq(Point), NEW b \in Seq(Point)
  PROVE  KnownAs(a \o b, a, b)
<1>1. Len(a) \in Nat /\ Len(b) \in Nat
  BY LenProperties
<1> DEFINE K == a \o b
<1>2. /\ K \in Seq(Point) /\ Len(K) = Len(a) + Len(b)
      /\ \A i \in 1..Len(a) + Len(b) : K[i] = IF i <= Len(a) THEN a[i] ELSE b[i - Len(a)]
  BY ConcatProperties
<1> HIDE DEF K
<1>3. \A i \in 1..Len(a) : K[i] = a[i]
  BY <1>1, <1>2
<1>4. \A i \in 1..Len(b) : K[Len(a) + i] = b[i]
  <2>1. TAKE i \in 1..Len(b)
  <2>2. /\ Len(a) + i \in 1..Len(a) + Len(b) /\ ~(Len(a) + i <= Len(a))
        /\ (Len(a) + i) - Len(a) = i
    BY <1>1, <2>1
  <2> QED BY <1>2, <2>2
<1> QED BY <1>2, <1>3, <1>4 DEF KnownAs, K

\* What is reported of a series goes on to what is known of it.
Ready(e, a, K) ==
  /\ Len(a) <= 1
  /\ PreviousIsLast(e, a)
  /\ RateWorksOver(e)
  /\ \A i \in 1..Len(K) - 1 : K[i].time <= K[i + 1].time

\* The series with what was put out for the first n known points.
PutOut(e, a, b, K, n, output) ==
  /\ output \in Seq(Point)
  /\ IF n = 0 THEN e \o output = <<>>
     ELSE e \o output # <<>> /\ (e \o output)[Len(e \o output)] = K[n]
  /\ RateWorksOver(e \o output)
  /\ Course(e \o output) = Course(e \o SubSeq(b, 1, n - Len(a)))
  /\ RepeatsAcrossGaps(e) /\ AllDiffer(K) => RepeatsAcrossGaps(e \o output)

\* Before a turn with a new point, nothing was put out.
LEMMA PutOutFirst ==
  ASSUME NEW e \in Seq(Point), NEW a \in Seq(Point), NEW b \in Seq(Point),
         NEW K, KnownAs(K, a, b), Ready(e, a, K), NEW f, OutputsUpTo(f, a, K, Len(K))
  PROVE  PutOut(e, a, b, K, Len(a), f[Len(a)])
<1> DEFINE n == Len(a)
<1>1. n \in Nat /\ n <= 1 /\ n \in 0..Len(K) /\ Len(K) \in Nat
  BY LenProperties DEF KnownAs, Ready, PreviousIsLast
<1>2. a = <<>> <=> n = 0
  BY EmptySeq
<1>3. f[n] = <<>>
  <2>1. f[n] = Turn(a, K, n, f[n - 1])
    BY <1>1, OutputStep
  <2> HIDE DEF n
  <2>2. n = 0 \/ n = 1
    BY <1>1
  <2>3. CASE n = 0
    BY <2>1, <2>3 DEF Turn
  <2>4. CASE n = 1
    <3>1. a # <<>>
      BY <1>2, <2>4
    <3>2. Turn(a, K, 1, f[n - 1]) = <<>>
      BY <3>1 DEF Turn
    <3> QED BY <2>1, <2>4, <3>2
  <2> QED BY <2>2, <2>3, <2>4
<1>4. e \o <<>> = e /\ <<>> \in Seq(Point)
  BY ConcatEmptySeq, EmptySeq
<1>5. SubSeq(b, 1, n - n) = <<>>
  BY <1>1, SubSeqEmpty
<1>6. IF n = 0 THEN e = <<>> ELSE e # <<>> /\ e[Len(e)] = K[n]
  BY <1>1, <1>2 DEF KnownAs, Ready, PreviousIsLast
<1>7. RateWorksOver(e)
  BY DEF Ready
<1> QED BY <1>3, <1>4, <1>5, <1>6, <1>7 DEF PutOut

\* The turn with the point after the first n.
LEMMA PutOutNext ==
  ASSUME NEW e \in Seq(Point), NEW a \in Seq(Point), NEW b \in Seq(Point),
         NEW K, KnownAs(K, a, b), Ready(e, a, K), NEW f, OutputsUpTo(f, a, K, Len(K)),
         NEW n \in Nat, Len(a) <= n, n < Len(K),
         PutOut(e, a, b, K, n, f[n])
  PROVE  PutOut(e, a, b, K, n + 1, f[n + 1])
<1> DEFINE p == K[n + 1]
           before == e \o f[n]
           m == n - Len(a)
           waited == SubSeq(b, 1, m)
<1>1. /\ K \in Seq(Point) /\ Len(K) \in Nat /\ n + 1 \in 1..Len(K) /\ p \in Point
      /\ Len(a) \in Nat
  BY LenProperties, ElementOfSeq DEF KnownAs
<1>2. f[n + 1] = Turn(a, K, n + 1, f[n])
  <2>1. n + 1 \in 0..Len(K) /\ (n + 1) - 1 = n
    BY <1>1
  <2> QED BY <1>1, <2>1, OutputStep
<1>3. f[n] \in Seq(Point) /\ before \in Seq(Point)
  BY ConcatProperties DEF PutOut
<1>4. Course(e \o SubSeq(b, 1, m + 1)) = GoOn(Course(before), p.value)
  <2>0. Len(b) \in Nat /\ Len(K) = Len(a) + Len(b)
    BY LenProperties DEF KnownAs
  <2>1. /\ m \in Nat /\ m + 1 \in 1..Len(b) /\ (m + 1) - 1 = m
        /\ Len(a) + (m + 1) = n + 1
    BY <1>1, <2>0
  <2>2. p = b[m + 1]
    <3>1. K[Len(a) + (m + 1)] = b[m + 1]
      BY <2>1 DEF KnownAs
    <3>2. Len(a) + (m + 1) = n + 1
      BY <2>1
    <3> HIDE DEF m
    <3> QED BY <3>1, <3>2
  <2> HIDE DEF p
  <2>3. SubSeq(b, 1, m + 1) = waited \o <<p>>
    <3>1. 1 \in 1..Len(b) /\ m + 1 \in 1..Len(b)
      BY <2>0, <2>1
    <3> QED BY <2>1, <2>2, <3>1, SubSeqRecursiveSecond
  <2>4. waited \in Seq(Point)
    <3>1. \A i \in 1..m : b[i] \in Point
      BY <2>0, <2>1, ElementOfSeq
    <3>2. 1 \in Int /\ m \in Int
      BY <2>1
    <3> HIDE DEF m
    <3> QED BY <3>1, <3>2, SubSeqProperties
  <2>5. e \o (waited \o <<p>>) = Append(e \o waited, p) /\ e \o waited \in Seq(Point)
    <3> HIDE DEF waited
    <3>1. <<p>> \in Seq(Point) /\ p \in Point
      BY <1>1
    <3>2. e \o waited \in Seq(Point)
      BY <2>4, ConcatProperties
    <3>3. (e \o waited) \o <<p>> = e \o (waited \o <<p>>)
      <4> DEFINE one == <<p>>
      <4>1. e \in Seq(Point) /\ waited \in Seq(Point) /\ one \in Seq(Point)
        BY <2>4, <3>1
      <4> HIDE DEF one
      <4>2. (e \o waited) \o one = e \o (waited \o one)
        BY ONLY <4>1, ConcatAssociative
      <4> QED BY <4>2 DEF one
    <3>4. Append(e \o waited, p) = (e \o waited) \o <<p>>
      BY <3>1, <3>2, AppendIsConcat
    <3> QED BY <3>2, <3>3, <3>4
  <2>6. Course(Append(e \o waited, p)) = GoOn(Course(e \o waited), p.value)
    <3>1. p \in Point
      BY <1>1
    <3> HIDE DEF waited
    <3> QED BY <2>5, <3>1, CourseAppend
  <2>7. Course(before) = Course(e \o waited)
    BY DEF PutOut
  <2> HIDE DEF waited, before, m
  <2> QED BY <2>3, <2>5, <2>6, <2>7
<1>5. (n + 1) - Len(a) = m + 1 /\ n + 1 # 0
  BY <1>1
<1>6. SUFFICES /\ f[n + 1] \in Seq(Point)
               /\ Extension(before, p, e \o f[n + 1])
               /\ RepeatsAcrossGaps(e) /\ AllDiffer(K) => RepeatsAcrossGaps(e \o f[n + 1])
  BY <1>4, <1>5 DEF Extension, PutOut
<1>7. CASE n = 0
  <2>1. a = <<>> /\ e = <<>>
    <3>1. Len(a) = 0
      BY <1>1, <1>7
    <3>2. a = <<>>
      BY <3>1, EmptySeq
    <3> QED BY <3>2 DEF Ready, PreviousIsLast
  <2>2. f[n + 1] = WithZero(p)
    BY <1>2, <1>7, <2>1 DEF Turn
  <2>3. before = <<>>
    BY <1>7 DEF PutOut
  <2>4. WithZero(p) \in Seq(Point) /\ Extension(<<>>, p, WithZero(p)) /\ RepeatsAcrossGaps(WithZero(p))
    BY <1>1, ZeroExtends
  <2>5. e \o WithZero(p) = WithZero(p)
    BY <2>1, <2>4, ConcatEmptySeq
  <2> HIDE DEF p, before
  <2> QED BY <2>2, <2>3, <2>4, <2>5
<1>8. CASE n # 0
  <2>1. f[n + 1] = f[n] \o Inflate(K[n], p)
    <3>1. n + 1 # 0 /\ n + 1 # 1 /\ (n + 1) - 1 = n
      BY <1>8
    <3> HIDE DEF p
    <3>2. Turn(a, K, n + 1, f[n]) = f[n] \o Inflate(K[n], p)
      BY <3>1 DEF Turn, p
    <3> QED BY <1>2, <3>2
  <2>2. /\ before # <<>> /\ before[Len(before)] = K[n] /\ RateWorksOver(before)
        /\ RepeatsAcrossGaps(e) /\ AllDiffer(K) => RepeatsAcrossGaps(before)
    BY <1>8 DEF PutOut
  <2>3. n \in 1..Len(K) - 1
    BY <1>1, <1>8
  <2>4. K[n].time <= p.time
    BY <2>3 DEF Ready
  <2>5. AllDiffer(K) => K[n].value # p.value
    BY <2>3 DEF AllDiffer
  <2> HIDE DEF p, before
  <2>6. /\ Inflate(K[n], p) \in Seq(Point)
        /\ Extension(before, p, before \o Inflate(K[n], p))
        /\ RepeatsAcrossGaps(before) /\ K[n].value # p.value
             => RepeatsAcrossGaps(before \o Inflate(K[n], p))
    BY <1>1, <1>3, <2>2, <2>4, InflateExtends
  <2>7. /\ f[n] \o Inflate(K[n], p) \in Seq(Point)
        /\ before \o Inflate(K[n], p) = e \o (f[n] \o Inflate(K[n], p))
    <3> DEFINE turn == Inflate(K[n], p)
               output == f[n]
    <3>1. turn \in Seq(Point) /\ output \in Seq(Point)
      BY <1>3, <2>6
    <3> HIDE DEF turn, output
    <3>2. output \o turn \in Seq(Point)
      BY <3>1, ConcatProperties
    <3>3. (e \o output) \o turn = e \o (output \o turn)
      BY <3>1, ConcatAssociative
    <3> QED BY <3>2, <3>3 DEF before, turn, output
  <2> QED BY <2>1, <2>2, <2>5, <2>6, <2>7
<1> QED BY <1>7, <1>8

\* A report takes the series on to the last known point.
Taken(e, ts, output) ==
  /\ output \in Seq(Point) /\ e \o output \in Seq(Point)
  /\ KnownPoints(ts) # <<>>
       => /\ e \o output # <<>>
          /\ (e \o output)[Len(e \o output)] = KnownPoints(ts)[Len(KnownPoints(ts))]
  /\ KnownPoints(ts) = <<>> => e \o output = <<>>
  /\ RateWorksOver(e \o output)
  /\ Course(e \o output) = Course(e \o ts.new_points)
  /\ RepeatsAcrossGaps(e) /\ AllDiffer(KnownPoints(ts)) => RepeatsAcrossGaps(e \o output)

\* The loop does so.
LEMMA InflatedTaken ==
  ASSUME NEW e \in Seq(Point), NEW ts \in TimeSeries,
         Ready(e, ts.previous_point, KnownPoints(ts))
  PROVE  Taken(e, ts, InflatedPoints(ts))
<1> DEFINE a == ts.previous_point
           b == ts.new_points
           K == KnownPoints(ts)
<1>1. a \in Seq(Point) /\ b \in Seq(Point) /\ K = a \o b
  BY DEF TimeSeries, KnownPoints
<1>2. a = ts.previous_point /\ b = ts.new_points /\ K = KnownPoints(ts) /\ Ready(e, a, K)
  OBVIOUS
<1> HIDE DEF a, b, K
<1>3. Len(a) \in Nat /\ Len(b) \in Nat /\ KnownAs(K, a, b)
  BY <1>1, LenProperties, KnownType
<1>4. K \in Seq(Point) /\ Len(K) = Len(a) + Len(b) /\ Len(K) \in Nat
  BY <1>3 DEF KnownAs
<1>5. PICK f : OutputsUpTo(f, a, K, Len(K)) /\ InflatedPoints(ts) = f[Len(K)]
  BY <1>2, <1>4, InflatedIs
<1> DEFINE Good(n) == PutOut(e, a, b, K, n, f[n])
           Bad == {n \in Len(a)..Len(K) : ~Good(n)}
<1>6. Good(Len(K))
  <2>1. SUFFICES ASSUME Bad # {} PROVE FALSE
    <3>1. Len(K) \in Len(a)..Len(K)
      BY <1>3, <1>4
    <3> HIDE DEF Good
    <3> QED BY <3>1
  <2>2. PICK n \in Bad : \A k \in Bad : n <= k
    <3>1. Bad \subseteq Nat
      BY <1>3, <1>4
    <3> HIDE DEF Bad
    <3> QED BY <2>1, <3>1, LeastNumber
  <2> HIDE DEF Good
  <2>3. n \in Nat /\ Len(a) <= n /\ n <= Len(K) /\ ~Good(n)
    BY <1>3, <1>4, <2>2
  <2>4. n # Len(a)
    BY <1>2, <1>3, <1>5, <2>3, PutOutFirst, <1>1 DEF Good
  <2>5. n - 1 \in Nat /\ Len(a) <= n - 1 /\ n - 1 < Len(K) /\ (n - 1) + 1 = n
    BY <1>3, <1>4, <2>3, <2>4
  <2>6. Good(n - 1)
    <3>1. n - 1 \in Len(a)..Len(K) /\ ~(n <= n - 1)
      BY <1>3, <1>4, <2>3, <2>5
    <3> QED BY <2>2, <3>1
  <2> DEFINE m == n - 1
  <2>7. m \in Nat /\ Len(a) <= m /\ m < Len(K) /\ Good(m) /\ m + 1 = n
    BY <2>5, <2>6
  <2> HIDE DEF m
  <2>8. PutOut(e, a, b, K, m + 1, f[m + 1])
    BY <1>1, <1>2, <1>3, <1>5, <2>7, PutOutNext DEF Good
  <2> QED BY <2>3, <2>7, <2>8 DEF Good
<1>7. SubSeq(b, 1, Len(K) - Len(a)) = b
  <2>1. Len(K) - Len(a) = Len(b)
    BY <1>3, <1>4
  <2> QED BY <1>1, <2>1, SubSeqFull
<1> DEFINE output == f[Len(K)]
<1>8. /\ output \in Seq(Point)
      /\ IF Len(K) = 0 THEN e \o output = <<>>
         ELSE e \o output # <<>> /\ (e \o output)[Len(e \o output)] = K[Len(K)]
      /\ RateWorksOver(e \o output)
      /\ Course(e \o output) = Course(e \o b)
      /\ RepeatsAcrossGaps(e) /\ AllDiffer(K) => RepeatsAcrossGaps(e \o output)
  BY <1>6, <1>7 DEF PutOut
<1>9. K = <<>> <=> Len(K) = 0
  BY <1>4, EmptySeq
<1>10. InflatedPoints(ts) = output
  BY <1>5
<1> HIDE DEF output
<1>11. e \o output \in Seq(Point)
  BY <1>8, ConcatProperties
<1>12. Taken(e, ts, output)
  BY <1>2, <1>8, <1>9, <1>11 DEF Taken
<1> QED BY <1>10, <1>12

-----------------------------------------------------------------------------
(* What happens to one series. *)

\* A series of which nothing is known.
LEMMA NothingKept ==
  ASSUME NEW cumulative \in BOOLEAN, NEW mixes \in BOOLEAN, NEW t \in Nat
  PROVE  SeriesKept(cumulative, mixes, t, EmptySeries, <<>>, <<>>)
<1>1. <<>> \in Seq(Point) /\ Len(<<>>) = 0 /\ <<>> \o <<>> = <<>>
  BY EmptySeq, ConcatEmptySeq
<1>2. EmptySeries.previous_point = <<>> /\ EmptySeries.new_points = <<>>
  BY DEF EmptySeries
<1>3. KnownPoints(EmptySeries) = <<>>
  BY <1>1, <1>2 DEF KnownPoints
<1>4. InOrder(<<>>, t) /\ RateWorksOver(<<>>) /\ RepeatsAcrossGaps(<<>>) /\ AllDiffer(<<>>)
  BY <1>1 DEF InOrder, RateWorksOver, RepeatsAcrossGaps, AllDiffer
<1>5. CumulativeKept(mixes, EmptySeries, <<>>, <<>>)
  BY <1>1, <1>2, <1>3, <1>4 DEF CumulativeKept, PreviousIsLast
<1> QED BY <1>1, <1>2, <1>3, <1>4, <1>5 DEF SeriesKept

\* The last value of the points that wait, or else of those reported, is that of the
\* points that are known.
LEMMA LastKnown ==
  ASSUME NEW e \in Seq(Point), NEW ts \in TimeSeries, Len(ts.previous_point) <= 1,
         PreviousIsLast(e, ts.previous_point)
  PROVE  /\ KnownPoints(ts) \in Seq(Point) /\ e \o ts.new_points \in Seq(Point)
         /\ KnownPoints(ts) = <<>> => ts = EmptySeries /\ e = <<>>
         /\ KnownPoints(ts) # <<>>
              => LastValue(e \o ts.new_points) = KnownPoints(ts)[Len(KnownPoints(ts))].value
<1> DEFINE a == ts.previous_point
           b == ts.new_points
           K == KnownPoints(ts)
<1>1. /\ a \in Seq(Point) /\ b \in Seq(Point) /\ K = a \o b /\ Len(a) <= 1
      /\ PreviousIsLast(e, a)
      /\ ts = [previous_point |-> a, new_points |-> b]
  BY DEF TimeSeries, KnownPoints
<1>2. KnownPoints(ts) = K /\ ts.new_points = b
  OBVIOUS
<1> HIDE DEF a, b, K
<1>3. Len(a) \in Nat /\ Len(b) \in Nat /\ KnownAs(K, a, b) /\ Len(e) \in Nat
  BY <1>1, LenProperties, KnownType
<1>4. K \in Seq(Point) /\ Len(K) = Len(a) + Len(b) /\ Len(K) \in Nat
  BY <1>3 DEF KnownAs
<1>5. /\ e \o b \in Seq(Point) /\ Len(e \o b) = Len(e) + Len(b)
      /\ \A i \in 1..Len(e) + Len(b) : (e \o b)[i] = IF i <= Len(e) THEN e[i] ELSE b[i - Len(e)]
  BY <1>1, ConcatProperties
<1>6. ASSUME K = <<>> PROVE ts = EmptySeries /\ e = <<>>
  <2>1. Len(a) = 0 /\ Len(b) = 0
    BY <1>3, <1>4, <1>6, EmptySeq
  <2>2. a = <<>> /\ b = <<>>
    BY <1>1, <2>1, EmptySeq
  <2> QED BY <1>1, <2>2 DEF PreviousIsLast, EmptySeries
<1>7. ASSUME K # <<>> PROVE LastValue(e \o b) = K[Len(K)].value
  <2> DEFINE more == e \o b
  <2>1. CASE Len(b) # 0
    <3>1. Len(b) \in 1..Len(b) /\ Len(e) + Len(b) \in 1..Len(e) + Len(b)
          /\ ~(Len(e) + Len(b) <= Len(e)) /\ (Len(e) + Len(b)) - Len(e) = Len(b)
      BY <1>3, <2>1
    <3>2. K[Len(K)] = b[Len(b)]
      BY <1>3, <1>4, <3>1 DEF KnownAs
    <3>3. more[Len(more)] = b[Len(b)] /\ Len(more) # 0
      BY <1>3, <1>5, <2>1, <3>1
    <3>4. more # <<>>
      BY <3>3, EmptySeq
    <3> HIDE DEF more
    <3>5. LastValue(more) = more[Len(more)].value
      BY <3>4 DEF LastValue
    <3> QED BY <3>2, <3>3, <3>5 DEF more
  <2>2. CASE Len(b) = 0
    <3>1. b = <<>>
      BY <1>1, <2>2, EmptySeq
    <3>2. more = e
      BY <3>1, ConcatEmptySeq
    <3>3. Len(a) # 0
      BY <1>3, <1>4, <1>7, <2>2, EmptySeq
    <3>4. Len(a) = 1 /\ Len(K) = 1 /\ a # <<>>
      BY <1>1, <1>3, <1>4, <2>2, <3>3, EmptySeq
    <3>5. K[1] = a[1]
      BY <3>4, <1>3 DEF KnownAs
    <3>6. e # <<>> /\ e[Len(e)] = a[1]
      BY <1>1, <3>4 DEF PreviousIsLast
    <3>7. LastValue(e) = e[Len(e)].value
      BY <3>6 DEF LastValue
    <3> QED BY <3>2, <3>4, <3>5, <3>6, <3>7
  <2> QED BY <1>3, <2>1, <2>2
<1> QED BY <1>2, <1>4, <1>5, <1>6, <1>7

\* A point in order after others.
LEMMA InOrderAppend ==
  ASSUME NEW points \in Seq(Point), NEW p \in Point, InOrder(points, p.time)
  PROVE  InOrder(Append(points, p), p.time)
<1> DEFINE more == Append(points, p)
           n == Len(points)
<1>1. /\ n \in Nat /\ more \in Seq(Point) /\ Len(more) = n + 1
      /\ more[n + 1] = p /\ \A i \in 1..n : more[i] = points[i]
  BY AppendProperties, LenProperties
<1>2. p.time \in Nat
  BY OtelMetricsAssumption DEF Point
<1> HIDE DEF more
<1>3. \A i \in 1..n : points[i].time <= p.time
  BY DEF InOrder
<1>4. ASSUME NEW i \in 1..Len(more) PROVE more[i].time <= p.time
  <2>1. CASE i = n + 1
    BY <1>1, <1>2, <2>1
  <2>2. CASE i # n + 1
    BY <1>1, <1>3, <2>2
  <2> QED BY <2>1, <2>2
<1>5. ASSUME NEW i \in 1..Len(more) - 1 PROVE more[i].time <= more[i + 1].time
  <2>1. i \in 1..n
    BY <1>1
  <2>2. CASE i = n
    BY <1>1, <1>3, <2>1, <2>2
  <2>3. CASE i # n
    <3>1. i \in 1..Len(points) - 1 /\ i + 1 \in 1..n
      BY <1>1, <2>1, <2>3
    <3>2. more[i] = points[i] /\ more[i + 1] = points[i + 1]
      BY <1>1, <2>1, <3>1
    <3> QED BY <3>1, <3>2 DEF InOrder
  <2> QED BY <2>2, <2>3
<1> QED BY <1>4, <1>5 DEF InOrder, more

\* A point that differs from the last one.
LEMMA DifferAppend ==
  ASSUME NEW points \in Seq(Point), NEW p \in Point, AllDiffer(points),
         points # <<>> => points[Len(points)].value # p.value
  PROVE  AllDiffer(Append(points, p))
<1> DEFINE more == Append(points, p)
           n == Len(points)
<1>1. /\ n \in Nat /\ more \in Seq(Point) /\ Len(more) = n + 1
      /\ more[n + 1] = p /\ \A i \in 1..n : more[i] = points[i]
      /\ n # 0 => points # <<>>
  BY AppendProperties, LenProperties, EmptySeq
<1> HIDE DEF more
<1>2. ASSUME NEW i \in 1..Len(more) - 1 PROVE more[i].value # more[i + 1].value
  <2>1. i \in 1..n
    BY <1>1
  <2>2. CASE i = n
    BY <1>1, <2>1, <2>2
  <2>3. CASE i # n
    <3>1. i \in 1..Len(points) - 1 /\ i + 1 \in 1..n
      BY <1>1, <2>1, <2>3
    <3>2. more[i] = points[i] /\ more[i + 1] = points[i + 1]
      BY <1>1, <2>1, <3>1
    <3> QED BY <3>1, <3>2 DEF AllDiffer
  <2> QED BY <2>2, <2>3
<1> QED BY <1>2 DEF AllDiffer, more

\* A point that is kept is the last of the known ones.
LEMMA AsIsKnown ==
  ASSUME NEW ts \in TimeSeries, NEW p \in Point
  PROVE  /\ AccumulateAsIs(ts, p) \in TimeSeries
         /\ AccumulateAsIs(ts, p).previous_point = ts.previous_point
         /\ KnownPoints(AccumulateAsIs(ts, p)) = Append(KnownPoints(ts), p)
         /\ \A e \in Seq(Point) :
              /\ e \o ts.new_points \in Seq(Point)
              /\ e \o AccumulateAsIs(ts, p).new_points = Append(e \o ts.new_points, p)
<1> DEFINE a == ts.previous_point
           b == ts.new_points
<1>1. a \in Seq(Point) /\ b \in Seq(Point) /\ ts = [previous_point |-> a, new_points |-> b]
  BY DEF TimeSeries
<1>3. KnownPoints(ts) = a \o b /\ ts.new_points = b /\ ts.previous_point = a
  BY DEF KnownPoints
<1> HIDE DEF a, b
<1>2. AccumulateAsIs(ts, p) = [previous_point |-> a, new_points |-> Append(b, p)]
  <2> DEFINE c == Append(b, p)
  <2>1. AccumulateAsIs(ts, p) = [ts EXCEPT !.new_points = c]
    BY <1>3 DEF AccumulateAsIs
  <2> HIDE DEF c
  <2>2. [ts EXCEPT !.new_points = c] = [previous_point |-> a, new_points |-> c]
    BY <1>1
  <2> QED BY <2>1, <2>2 DEF c
<1>4. Append(b, p) \in Seq(Point)
  BY <1>1, AppendProperties
<1>5. ASSUME NEW e \in Seq(Point)
      PROVE  e \o b \in Seq(Point) /\ e \o Append(b, p) = Append(e \o b, p)
  <2>1. e \o b \in Seq(Point) /\ <<p>> \in Seq(Point)
    BY <1>1, ConcatProperties
  <2>2. (e \o b) \o <<p>> = e \o (b \o <<p>>)
    BY <1>1, <2>1, ConcatAssociative
  <2>3. Append(b, p) = b \o <<p>> /\ Append(e \o b, p) = (e \o b) \o <<p>>
    BY <1>1, <2>1, AppendIsConcat
  <2> QED BY <2>1, <2>2, <2>3
<1>6. /\ AccumulateAsIs(ts, p).previous_point = a
      /\ AccumulateAsIs(ts, p).new_points = Append(b, p)
  BY <1>2
<1>7. KnownPoints(AccumulateAsIs(ts, p)) = Append(a \o b, p)
  BY <1>1, <1>5, <1>6 DEF KnownPoints
<1>8. AccumulateAsIs(ts, p) \in TimeSeries
  BY <1>1, <1>2, <1>4 DEF TimeSeries
<1> QED BY <1>3, <1>5, <1>6, <1>7, <1>8

\* Time goes on.
LEMMA LaterKept ==
  ASSUME NEW cumulative \in BOOLEAN, NEW mixes \in BOOLEAN, NEW t \in Nat,
         NEW mixed2 \in BOOLEAN, mixes => mixed2, NEW t2 \in Nat, t <= t2,
         NEW ts \in TimeSeries, NEW o, NEW e, SeriesKept(cumulative, mixes, t, ts, o, e)
  PROVE  SeriesKept(cumulative, mixed2, t2, ts, o, e)
<1>1. InOrder(KnownPoints(ts), t2)
  <2> DEFINE K == KnownPoints(ts)
  <2>1. K \in Seq(Point) /\ InOrder(K, t)
    BY ConcatProperties DEF TimeSeries, KnownPoints, SeriesKept
  <2> HIDE DEF K
  <2>2. ASSUME NEW i \in 1..Len(K) PROVE K[i].time <= t2
    <3>1. K[i] \in Point
      BY <2>1, ElementOfSeq
    <3>2. K[i].time \in Nat
      BY <3>1, OtelMetricsAssumption DEF Point
    <3>3. K[i].time <= t
      BY <2>1 DEF InOrder
    <3> QED BY <3>2, <3>3
  <2>3. InOrder(K, t2)
    BY <2>1, <2>2 DEF InOrder
  <2> QED BY <2>3 DEF K
<1> QED BY <1>1 DEF SeriesKept, CumulativeKept

\* A point that is kept.
LEMMA AsIsKept ==
  ASSUME NEW cumulative \in BOOLEAN, NEW mixes \in BOOLEAN, NEW mixed2 \in BOOLEAN,
         mixes => mixed2, NEW ts \in TimeSeries, NEW p \in Point,
         NEW o \in Seq(Point), NEW e \in Seq(Point),
         SeriesKept(cumulative, mixes, p.time, ts, o, e),
         cumulative /\ ~mixed2 /\ KnownPoints(ts) # <<>>
           => KnownPoints(ts)[Len(KnownPoints(ts))].value # p.value
  PROVE  SeriesKept(cumulative, mixed2, p.time, AccumulateAsIs(ts, p), Append(o, p), e)
<1> DEFINE K == KnownPoints(ts)
           ts2 == AccumulateAsIs(ts, p)
           waiting == e \o ts.new_points
<1>1. K \in Seq(Point)
  BY ConcatProperties DEF TimeSeries, KnownPoints
<1>2. /\ ts2.previous_point = ts.previous_point /\ KnownPoints(ts2) = Append(K, p)
      /\ waiting \in Seq(Point) /\ e \o ts2.new_points = Append(waiting, p)
  BY AsIsKnown
<1> HIDE DEF ts2
<1>3. Len(ts2.previous_point) <= 1
  BY <1>2 DEF SeriesKept
<1>4. InOrder(KnownPoints(ts2), p.time)
  <2>1. InOrder(K, p.time)
    BY DEF SeriesKept
  <2> HIDE DEF K
  <2> QED BY <1>1, <1>2, <2>1, InOrderAppend
<1>5. ASSUME cumulative PROVE CumulativeKept(mixed2, ts2, Append(o, p), e)
  <2>1. CumulativeKept(mixes, ts, o, e)
    BY <1>5 DEF SeriesKept
  <2>2. Course(e \o ts2.new_points) = Course(Append(o, p))
    <3>1. Course(waiting) = Course(o)
      BY <2>1 DEF CumulativeKept
    <3> HIDE DEF waiting
    <3>2. /\ Course(Append(waiting, p)) = GoOn(Course(waiting), p.value)
          /\ Course(Append(o, p)) = GoOn(Course(o), p.value)
      BY <1>2, CourseAppend
    <3> QED BY <1>2, <3>1, <3>2
  <2>3. ASSUME ~mixed2 PROVE AllDiffer(KnownPoints(ts2)) /\ RepeatsAcrossGaps(e)
    <3>1. AllDiffer(K) /\ RepeatsAcrossGaps(e)
      BY <2>1, <2>3 DEF CumulativeKept
    <3>2. K # <<>> => K[Len(K)].value # p.value
      BY <1>5, <2>3
    <3> HIDE DEF K
    <3> QED BY <1>1, <1>2, <3>1, <3>2, DifferAppend
  <2> QED BY <1>2, <2>1, <2>2, <2>3 DEF CumulativeKept
<1>6. ASSUME ~cumulative, ~mixed2 PROVE e \o ts2.new_points = Append(o, p)
  <2>1. waiting = o
    BY <1>6 DEF SeriesKept
  <2> QED BY <1>2, <2>1
<1>7. SeriesKept(cumulative, mixed2, p.time, ts2, Append(o, p), e)
  BY <1>3, <1>4, <1>5, <1>6 DEF SeriesKept
<1> QED BY <1>7 DEF ts2

\* A point that is discarded, for its value is that of the last one.
LEMMA DiscardKept ==
  ASSUME NEW cumulative \in BOOLEAN, NEW mixes \in BOOLEAN, NEW mixed2 \in BOOLEAN,
         mixes => mixed2, cumulative \/ mixed2, NEW ts \in TimeSeries, NEW p \in Point,
         NEW o \in Seq(Point), NEW e \in Seq(Point),
         SeriesKept(cumulative, mixes, p.time, ts, o, e),
         KnownPoints(ts) # <<>>, KnownPoints(ts)[Len(KnownPoints(ts))].value = p.value
  PROVE  SeriesKept(cumulative, mixed2, p.time, ts, Append(o, p), e)
<1>1. ASSUME cumulative PROVE CumulativeKept(mixed2, ts, Append(o, p), e)
  <2>1. CumulativeKept(mixes, ts, o, e)
    BY <1>1 DEF SeriesKept
  <2>2. Course(e \o ts.new_points) = Course(Append(o, p))
    <3>1. Course(e \o ts.new_points) = Course(o) /\ PreviousIsLast(e, ts.previous_point)
      BY <2>1 DEF CumulativeKept
    <3>2. Len(ts.previous_point) <= 1
      BY DEF SeriesKept
    <3>3. e \o ts.new_points \in Seq(Point) /\ LastValue(e \o ts.new_points) = p.value
      BY <3>1, <3>2, LastKnown
    <3>4. Last(Course(e \o ts.new_points)) = p.value
      BY <3>3, CourseLast DEF CourseTyped
    <3>5. Course(Append(o, p)) = GoOn(Course(o), p.value)
      BY CourseAppend
    <3> QED BY <3>1, <3>4, <3>5 DEF GoOn
  <2> QED BY <2>1, <2>2 DEF CumulativeKept
<1> QED BY <1>1 DEF SeriesKept

\* A point that comes, whatever is done with it.
LEMMA AccumulatedKept ==
  ASSUME NEW cumulative \in BOOLEAN, NEW mixes \in BOOLEAN, NEW mixed2 \in BOOLEAN,
         mixes => mixed2, NEW t,
         ~mixed2 => (cumulative <=> TreatedAs(t) = "cumulative"),
         NEW ts \in TimeSeries, NEW p \in Point,
         NEW o \in Seq(Point), NEW e \in Seq(Point),
         SeriesKept(cumulative, mixes, p.time, ts, o, e)
  PROVE  /\ AccumulatedBy(t, ts, p) \in TimeSeries
         /\ SeriesKept(cumulative, mixed2, p.time, AccumulatedBy(t, ts, p), Append(o, p), e)
<1> DEFINE repeats == KnownPoints(ts) # <<>> /\ KnownPoints(ts)[Len(KnownPoints(ts))].value = p.value
<1>1. CASE TreatedAs(t) = "cumulative" /\ repeats
  <2>1. AccumulatedBy(t, ts, p) = ts
    BY <1>1 DEF AccumulatedBy, AccumulateIfDifferent, Last
  <2>2. SeriesKept(cumulative, mixed2, p.time, ts, Append(o, p), e)
    BY <1>1, DiscardKept
  <2> QED BY <2>1, <2>2
<1>2. CASE ~(TreatedAs(t) = "cumulative" /\ repeats)
  <2>1. AccumulatedBy(t, ts, p) = AccumulateAsIs(ts, p)
    BY <1>2 DEF AccumulatedBy, AccumulateIfDifferent, Last
  <2>2. SeriesKept(cumulative, mixed2, p.time, AccumulateAsIs(ts, p), Append(o, p), e)
    BY <1>2, AsIsKept
  <2>3. AccumulateAsIs(ts, p) \in TimeSeries
    BY AsIsKnown
  <2> QED BY <2>1, <2>2, <2>3
<1> QED BY <1>1, <1>2

\* What is known of a series after a report: the last point, if its points are reduced.
LEMMA AfterExportKnown ==
  ASSUME NEW ts \in TimeSeries, Len(ts.previous_point) <= 1
  PROVE  /\ AfterExport(ts) \in TimeSeries
         /\ AfterExport(ts).new_points = <<>>
         /\ KnownPoints(AfterExport(ts)) = AfterExport(ts).previous_point
         /\ Cumulative => AfterExport(ts).previous_point
              = IF KnownPoints(ts) = <<>> THEN <<>> ELSE <<KnownPoints(ts)[Len(KnownPoints(ts))]>>
         /\ ~Cumulative => AfterExport(ts).previous_point = ts.previous_point
<1> DEFINE a == ts.previous_point
           b == ts.new_points
           K == KnownPoints(ts)
           ts2 == AfterExport(ts)
           previous == IF Cumulative /\ b # <<>> THEN <<Last(b)>> ELSE a
<1>1. a \in Seq(Point) /\ b \in Seq(Point) /\ K = a \o b /\ Len(a) <= 1
  BY DEF TimeSeries, KnownPoints
<1>2. ts2 = [previous_point |-> previous, new_points |-> <<>>]
  BY DEF AfterExport, Cumulative
<1>3. KnownPoints(ts) = K /\ ts.previous_point = a /\ AfterExport(ts) = ts2
  OBVIOUS
<1> HIDE DEF a, b, K, ts2
<1>4. Len(a) \in Nat /\ Len(b) \in Nat /\ KnownAs(K, a, b)
  BY <1>1, LenProperties, KnownType
<1>5. K \in Seq(Point) /\ Len(K) = Len(a) + Len(b) /\ Len(K) \in Nat
  BY <1>4 DEF KnownAs
<1>6. CASE b # <<>>
  <2>1. Len(b) # 0 /\ Len(b) \in 1..Len(b)
    BY <1>1, <1>4, <1>6, EmptySeq
  <2>2. b[Len(b)] \in Point /\ K[Len(K)] = b[Len(b)] /\ K # <<>>
    BY <1>1, <1>4, <1>5, <2>1, ElementOfSeq, EmptySeq DEF KnownAs
  <2>3. previous = IF Cumulative THEN <<K[Len(K)]>> ELSE a
    BY <1>6, <2>2 DEF Last
  <2>4. previous \in Seq(Point)
    BY <1>1, <2>2, <2>3
  <2> HIDE DEF previous
  <2>5. /\ ts2 \in TimeSeries /\ ts2.new_points = <<>> /\ ts2.previous_point = previous
    BY <1>2, <2>4, EmptySeq DEF TimeSeries
  <2>6. KnownPoints(ts2) = previous
    BY <2>4, <2>5, ConcatEmptySeq DEF KnownPoints
  <2> QED BY <1>3, <2>2, <2>3, <2>5, <2>6
<1>7. CASE b = <<>>
  <2>1. previous = a /\ K = a
    BY <1>1, <1>7, ConcatEmptySeq
  <2>2. a = IF K = <<>> THEN <<>> ELSE <<K[Len(K)]>>
    <3>1. CASE K = <<>>
      BY <2>1, <3>1
    <3>2. CASE K # <<>>
      <4>1. Len(a) = 1
        <5>1. a # <<>>
          BY <2>1, <3>2
        <5>2. a \in Seq(Point) /\ Len(a) \in Nat /\ Len(a) <= 1
          BY <1>1, <1>4
        <5>3. Len(a) # 0
          BY ONLY <5>1, <5>2, EmptySeq
        <5> DEFINE n == Len(a)
        <5>4. n \in Nat /\ n <= 1 /\ n # 0
          BY ONLY <5>2, <5>3
        <5> HIDE DEF n
        <5>5. n = 1
          BY ONLY <5>4
        <5> QED BY ONLY <5>5 DEF n
      <4>2. a[1] \in Point
        <5>1. a \in Seq(Point) /\ 1 \in 1..Len(a)
          BY ONLY <1>1, <4>1
        <5> QED BY ONLY <5>1, ElementOfSeq
      <4>3. <<a[1]>> \in Seq(Point) /\ Len(<<a[1]>>) = 1 /\ <<a[1]>>[1] = a[1]
        BY <4>2
      <4>4. a = <<a[1]>>
        <5>1. \A i \in 1..1 : a[i] = <<a[1]>>[i]
          BY <4>3
        <5> DEFINE one == <<a[1]>>
        <5>2. one \in Seq(Point) /\ Len(one) = 1 /\ \A i \in 1..1 : a[i] = one[i]
          BY <4>3, <5>1
        <5> HIDE DEF one
        <5>3. a = one
          BY <1>1, <4>1, <5>2, SeqEqual
        <5> QED BY <5>3 DEF one
      <4> QED BY <2>1, <3>2, <4>1, <4>4
    <3> QED BY <3>1, <3>2
  <2> HIDE DEF previous
  <2>3. /\ ts2 \in TimeSeries /\ ts2.new_points = <<>> /\ ts2.previous_point = a
    BY <1>1, <1>2, <2>1, EmptySeq DEF TimeSeries
  <2>4. KnownPoints(ts2) = a
    BY <1>1, <2>3, ConcatEmptySeq DEF KnownPoints
  <2> QED BY <1>3, <2>2, <2>3, <2>4
<1> QED BY <1>6, <1>7

\* One point is in order and repeats nothing.
LEMMA OnePoint ==
  ASSUME NEW p \in Point, NEW t, p.time <= t
  PROVE  InOrder(<<p>>, t) /\ AllDiffer(<<p>>)
<1>1. Len(<<p>>) = 1 /\ <<p>>[1] = p
  OBVIOUS
<1> DEFINE one == <<p>>
<1>2. Len(one) = 1 /\ one[1] = p
  BY <1>1
<1> HIDE DEF one
<1>3. InOrder(one, t) /\ AllDiffer(one)
  BY <1>2 DEF InOrder, AllDiffer
<1> QED BY <1>3 DEF one

\* A series is taken into a report.
LEMMA ExportedKept ==
  ASSUME NEW mixes \in BOOLEAN, NEW t \in Nat, NEW ts \in TimeSeries,
         NEW o \in Seq(Point), NEW e \in Seq(Point),
         SeriesKept(Cumulative, mixes, t, ts, o, e)
  PROVE  /\ AfterExport(ts) \in TimeSeries
         /\ e \o ExportedPoints(ts) \in Seq(Point)
         /\ SeriesKept(Cumulative, mixes, t, AfterExport(ts), o, e \o ExportedPoints(ts))
<1> DEFINE K == KnownPoints(ts)
           ts2 == AfterExport(ts)
<1>1. ts.new_points \in Seq(Point) /\ ts.previous_point \in Seq(Point)
  BY DEF TimeSeries
<1>2. K \in Seq(Point)
  BY <1>1, ConcatProperties DEF KnownPoints
<1>3. Len(ts.previous_point) <= 1 /\ InOrder(K, t)
  BY DEF SeriesKept
<1>4. /\ ts2 \in TimeSeries /\ ts2.new_points = <<>> /\ KnownPoints(ts2) = ts2.previous_point
      /\ Cumulative => ts2.previous_point = IF K = <<>> THEN <<>> ELSE <<K[Len(K)]>>
      /\ ~Cumulative => ts2.previous_point = ts.previous_point
  BY <1>3, AfterExportKnown
<1>5. Len(K) \in Nat /\ (K # <<>> => Len(K) \in 1..Len(K) /\ K[Len(K)] \in Point
                                     /\ K[Len(K)].time <= t)
  <2> HIDE DEF K
  <2>1. Len(K) \in Nat /\ (K # <<>> => Len(K) \in 1..Len(K))
    BY <1>2, LenProperties, EmptySeq
  <2>2. K # <<>> => K[Len(K)] \in Point
    BY <1>2, <2>1, ElementOfSeq
  <2>3. K # <<>> => K[Len(K)].time <= t
    BY <1>3, <2>1 DEF InOrder
  <2> QED BY <2>1, <2>2, <2>3
<1> DEFINE last == <<K[Len(K)]>>
<1>6. InOrder(<<>>, t) /\ AllDiffer(<<>>) /\ Len(<<>>) = 0
  BY EmptySeq DEF InOrder, AllDiffer
<1>7. K # <<>> => /\ InOrder(last, t) /\ AllDiffer(last)
                  /\ Len(last) = 1 /\ last # <<>> /\ last[1] = K[Len(K)]
  BY <1>5, OnePoint
<1>8. CASE Cumulative
  <2> DEFINE more == e \o InflatedPoints(ts)
  <2>1. CumulativeKept(mixes, ts, o, e)
    BY <1>8 DEF SeriesKept
  <2>2. Taken(e, ts, InflatedPoints(ts))
    <3>1. Ready(e, ts.previous_point, K)
      BY <1>3, <2>1 DEF Ready, CumulativeKept, InOrder
    <3> QED BY <3>1, InflatedTaken
  <2>3. ExportedPoints(ts) = InflatedPoints(ts)
    BY <1>8 DEF ExportedPoints, Cumulative
  <2>4. /\ more \in Seq(Point)
        /\ K # <<>> => more # <<>> /\ more[Len(more)] = K[Len(K)]
        /\ K = <<>> => more = <<>>
        /\ RateWorksOver(more)
        /\ Course(more) = Course(e \o ts.new_points)
        /\ RepeatsAcrossGaps(e) /\ AllDiffer(K) => RepeatsAcrossGaps(more)
    BY <2>2 DEF Taken
  <2> HIDE DEF more, K, last, ts2
  <2>5. /\ InOrder(KnownPoints(ts2), t) /\ AllDiffer(KnownPoints(ts2))
        /\ Len(ts2.previous_point) <= 1 /\ PreviousIsLast(more, ts2.previous_point)
    <3>1. CASE K = <<>>
      BY <1>4, <1>6, <1>8, <2>4, <3>1 DEF PreviousIsLast
    <3>2. CASE K # <<>>
      <4>1. ts2.previous_point = last
        BY <1>4, <1>8, <3>2 DEF last
      <4>2. InOrder(last, t) /\ AllDiffer(last) /\ Len(last) = 1 /\ last # <<>> /\ last[1] = K[Len(K)]
        BY <1>7, <3>2
      <4>3. Len(last) <= 1
        BY ONLY <4>2
      <4>4. PreviousIsLast(more, last)
        BY <2>4, <3>2, <4>2 DEF PreviousIsLast
      <4>5. KnownPoints(ts2) = last
        BY <1>4, <4>1
      <4> QED BY ONLY <4>1, <4>2, <4>3, <4>4, <4>5
    <3> QED BY <3>1, <3>2
  <2>6. more \o ts2.new_points = more
    BY <1>4, <2>4, ConcatEmptySeq
  <2>7. Course(more \o ts2.new_points) = Course(o)
    BY <2>1, <2>4, <2>6 DEF CumulativeKept
  <2>8. ~mixes => RepeatsAcrossGaps(more)
    BY <2>1, <2>4 DEF CumulativeKept, K
  <2>9. CumulativeKept(mixes, ts2, o, more)
    BY <2>4, <2>5, <2>7, <2>8 DEF CumulativeKept
  <2>10. SeriesKept(Cumulative, mixes, t, ts2, o, more)
    BY <1>8, <2>5, <2>9 DEF SeriesKept
  <2> QED BY <1>4, <2>3, <2>4, <2>10 DEF more, ts2
<1>9. CASE ~Cumulative
  <2> DEFINE more == e \o ts.new_points
             a == ts.previous_point
  <2>1. ExportedPoints(ts) = ts.new_points
    BY <1>9 DEF ExportedPoints, Cumulative
  <2>2. more \in Seq(Point)
    BY <1>1, ConcatProperties
  <2>3. ~mixes => more = o
    BY <1>9 DEF SeriesKept
  <2> HIDE DEF more
  <2>4. more \o ts2.new_points = more
    BY <1>4, <2>2, ConcatEmptySeq
  <2>5. InOrder(a, t)
    <3>1. KnownAs(K, a, ts.new_points)
      BY <1>1, KnownType DEF KnownPoints
    <3>2. a \in Seq(Point) /\ Len(a) <= 1 /\ Len(ts.new_points) \in Nat
      BY <1>1, <1>3, LenProperties
    <3> DEFINE b == ts.new_points
    <3> HIDE DEF a, b, K
    <3>3. Len(a) \in Nat
      BY <3>2, LenProperties
    <3>4. Len(K) = Len(a) + Len(b) /\ \A i \in 1..Len(a) : K[i] = a[i]
      BY <3>1 DEF KnownAs, b
    <3>5. ASSUME NEW i \in 1..Len(a) PROVE a[i].time <= t
      <4>1. i \in 1..Len(K)
        BY <3>2, <3>3, <3>4 DEF b
      <4> QED BY <1>3, <3>4, <4>1 DEF InOrder
    <3>6. \A i \in 1..Len(a) - 1 : FALSE
      BY <3>2, <3>3
    <3> QED BY <3>5, <3>6 DEF InOrder
  <2> HIDE DEF K, last, ts2
  <2>6. SeriesKept(Cumulative, mixes, t, ts2, o, more)
    BY <1>3, <1>4, <1>9, <2>3, <2>4, <2>5 DEF SeriesKept
  <2> QED BY <1>4, <2>1, <2>2, <2>6 DEF more, ts2
<1> QED BY <1>8, <1>9

-----------------------------------------------------------------------------
(* The actions. *)

\* The state that the types describe, as the lemmas above take it.
LEMMA Typed ==
  ASSUME TypeOK
  PROVE  /\ Cumulative \in BOOLEAN /\ mixed \in BOOLEAN /\ now \in Nat /\ now \in 0..MaxTime
         /\ received \in Nat /\ dropped_datapoints \in 0..received
         /\ \A s \in Series : /\ time_series[s] \in TimeSeries
                              /\ observed[s] \in Seq(Point) /\ exported[s] \in Seq(Point)
BY OtelMetricsAssumption DEF TypeOK, Cumulative

\* A metric has one of two temporalities for the accumulator.
LEMMA TreatedType ==
  ASSUME TypeOK, NEW t \in Temporalities
  PROVE  TreatedAs(t) \in Temporalities
BY DEF TypeOK, Kinds, Temporalities, TreatedAs

\* The invariant holds before any point comes.
LEMMA InitInv == Init => IInv
<1> SUFFICES ASSUME Init PROVE IInv
  OBVIOUS
<1>1. <<>> \in Seq(Point) /\ EmptySeries \in TimeSeries
  BY EmptySeq DEF EmptySeries, TimeSeries
<1>2. \A s \in Series :
        time_series[s] = EmptySeries /\ observed[s] = <<>> /\ exported[s] = <<>>
  BY DEF Init, NoPoints
<1>3. TypeOK
  <2>1. 0 \in 0..MaxPoints /\ 0 \in 0..MaxTime /\ 0 \in 0..0
    BY OtelMetricsAssumption
  <2>2. NoPoints \in [Series -> Seq(Point)]
    BY <1>1 DEF NoPoints
  <2>3. [s \in Series |-> EmptySeries] \in [Series -> TimeSeries]
    BY <1>1
  <2>4. /\ dropped_datapoints \in 0..received /\ received \in 0..MaxPoints /\ now \in 0..MaxTime
        /\ mixed \in BOOLEAN /\ temporality \in Temporalities \cup {"new"}
    BY <2>1 DEF Init
  <2> QED BY <2>2, <2>3, <2>4 DEF Init, TypeOK
<1>4. NothingBeforeFirst
  BY <1>2 DEF Init, NothingBeforeFirst
<1>5. \A s \in Series :
        SeriesKept(Cumulative, mixed, now, time_series[s], observed[s], exported[s])
  BY <1>2, <1>3, Typed, NothingKept
<1> QED BY <1>3, <1>4, <1>5 DEF IInv

\* A metric that comes is taken with the temporality it is treated as.
LEMMA AccumulateInv ==
  ASSUME IInv, NEW s \in Series, NEW t \in Temporalities, NEW v \in 0..MaxValue,
         Accumulate(s, t, v)
  PROVE  IInv'
<1> DEFINE p == [value |-> v, time |-> now]
<1>0. TypeOK
  BY DEF IInv
<1>1. p \in Point /\ p.time = now
  BY <1>0 DEF TypeOK, Point
<1> HIDE DEF p
<1>2. /\ received < MaxPoints /\ received' = received + 1
      /\ temporality' = IF temporality = "new" THEN TreatedAs(t) ELSE temporality
      /\ time_series' = [time_series EXCEPT ![s] = AccumulatedBy(t, @, p)]
      /\ observed' = [observed EXCEPT ![s] = Append(@, p)]
      /\ mixed' = (mixed \/ temporality \notin {"new", TreatedAs(t)})
      /\ kind' = kind /\ dropped_datapoints' = dropped_datapoints /\ now' = now
      /\ exported' = exported
  BY DEF Accumulate, p
<1>3. TreatedAs(t) \in Temporalities /\ temporality' \in Temporalities
  <2>1. TreatedAs(t) \in Temporalities
    BY <1>0, TreatedType
  <2> QED BY <1>0, <1>2, <2>1 DEF TypeOK
<1>4. /\ Cumulative' \in BOOLEAN /\ mixed \in BOOLEAN /\ mixed' \in BOOLEAN /\ (mixed => mixed')
      /\ ~mixed' => (Cumulative' <=> TreatedAs(t) = "cumulative")
  <2>1. mixed \in BOOLEAN
    BY <1>0, Typed
  <2>2. mixed' \in BOOLEAN /\ (mixed => mixed')
    BY <1>2, <2>1
  <2>3. ~mixed' => temporality' = TreatedAs(t)
    BY <1>2
  <2> QED BY <2>1, <2>2, <2>3 DEF Cumulative
<1>5. ASSUME NEW r \in Series
      PROVE  SeriesKept(Cumulative', mixed, now, time_series[r], observed[r], exported[r])
  <2>1. CASE temporality = "new"
    <3>1. time_series[r] = EmptySeries /\ observed[r] = <<>> /\ exported[r] = <<>>
      BY <2>1 DEF IInv, NothingBeforeFirst
    <3>2. now \in Nat
      BY <1>0, Typed
    <3> QED BY <1>4, <3>1, <3>2, NothingKept
  <2>2. CASE temporality # "new"
    <3>1. Cumulative' = Cumulative
      BY <1>2, <2>2 DEF Cumulative
    <3> QED BY <3>1 DEF IInv
  <2> QED BY <2>1, <2>2
<1>6. ASSUME NEW r \in Series
      PROVE  /\ time_series[r] \in TimeSeries
             /\ observed[r] \in Seq(Point) /\ exported[r] \in Seq(Point)
  BY <1>0, Typed
<1>7. /\ AccumulatedBy(t, time_series[s], p) \in TimeSeries
      /\ SeriesKept(Cumulative', mixed', now, AccumulatedBy(t, time_series[s], p),
                    Append(observed[s], p), exported[s])
  <2> DEFINE c == Cumulative'
             m2 == mixed'
             ts == time_series[s]
             o == observed[s]
             e == exported[s]
  <2>1. /\ c \in BOOLEAN /\ mixed \in BOOLEAN /\ m2 \in BOOLEAN /\ (mixed => m2)
        /\ ~m2 => (c <=> TreatedAs(t) = "cumulative")
        /\ ts \in TimeSeries /\ o \in Seq(Point) /\ e \in Seq(Point)
        /\ SeriesKept(c, mixed, p.time, ts, o, e)
    BY <1>1, <1>4, <1>5, <1>6
  <2> HIDE DEF c, m2, ts, o, e
  <2>2. /\ AccumulatedBy(t, ts, p) \in TimeSeries
        /\ SeriesKept(c, m2, p.time, AccumulatedBy(t, ts, p), Append(o, p), e)
    BY <1>1, <2>1, AccumulatedKept
  <2> QED BY <1>1, <2>2 DEF c, m2, ts, o, e
<1>8. Append(observed[s], p) \in Seq(Point)
  BY <1>1, <1>6, AppendProperties
<1>9. TypeOK'
  <2>1. time_series' \in [Series -> TimeSeries] /\ observed' \in [Series -> Seq(Point)]
    BY <1>0, <1>2, <1>7, <1>8 DEF TypeOK
  <2>2. received' \in 0..MaxPoints /\ dropped_datapoints' \in 0..received'
    BY <1>0, <1>2, OtelMetricsAssumption DEF TypeOK
  <2> QED BY <1>0, <1>2, <1>3, <1>4, <2>1, <2>2 DEF TypeOK
<1>10. NothingBeforeFirst'
  BY <1>3 DEF NothingBeforeFirst, Temporalities
<1>11. ASSUME NEW r \in Series
       PROVE  SeriesKept(Cumulative', mixed', now', time_series'[r], observed'[r], exported'[r])
  <2>1. CASE r = s
    <3>1. /\ time_series'[s] = AccumulatedBy(t, time_series[s], p)
          /\ observed'[s] = Append(observed[s], p)
          /\ exported'[s] = exported[s]
      BY <1>0, <1>2 DEF TypeOK
    <3> QED BY <1>2, <1>7, <2>1, <3>1
  <2>2. CASE r # s
    <3>1. time_series'[r] = time_series[r] /\ observed'[r] = observed[r] /\ exported'[r] = exported[r]
      BY <1>0, <1>2, <2>2 DEF TypeOK
    <3>2. SeriesKept(Cumulative', mixed', now, time_series[r], observed[r], exported[r])
      <4> DEFINE c == Cumulative'
                 m2 == mixed'
      <4>1. /\ c \in BOOLEAN /\ m2 \in BOOLEAN /\ mixed \in BOOLEAN /\ (mixed => m2)
            /\ SeriesKept(c, mixed, now, time_series[r], observed[r], exported[r])
            /\ now \in Nat /\ now <= now
        BY <1>0, <1>4, <1>5, Typed
      <4> HIDE DEF c, m2
      <4>2. SeriesKept(c, m2, now, time_series[r], observed[r], exported[r])
        BY <1>6, <4>1, LaterKept
      <4> QED BY <4>2 DEF c, m2
    <3> QED BY <1>2, <3>1, <3>2
  <2> QED BY <2>1, <2>2
<1> QED BY <1>9, <1>10, <1>11 DEF IInv

\* A report takes everything that waits.
LEMMA ExportInv == IInv /\ Export => IInv'
<1> SUFFICES ASSUME IInv, Export PROVE IInv'
  OBVIOUS
<1>0. TypeOK
  BY DEF IInv
<1>1. /\ exported' = [s \in Series |-> exported[s] \o ExportedPoints(time_series[s])]
      /\ time_series' = [s \in Series |-> AfterExport(time_series[s])]
      /\ kind' = kind /\ temporality' = temporality /\ dropped_datapoints' = dropped_datapoints
      /\ now' = now /\ received' = received /\ observed' = observed /\ mixed' = mixed
  BY DEF Export
<1>2. ASSUME NEW s \in Series
      PROVE  /\ AfterExport(time_series[s]) \in TimeSeries
             /\ exported[s] \o ExportedPoints(time_series[s]) \in Seq(Point)
             /\ SeriesKept(Cumulative, mixed, now, AfterExport(time_series[s]), observed[s],
                           exported[s] \o ExportedPoints(time_series[s]))
  <2>1. SeriesKept(Cumulative, mixed, now, time_series[s], observed[s], exported[s])
    BY DEF IInv
  <2>2. /\ mixed \in BOOLEAN /\ now \in Nat /\ time_series[s] \in TimeSeries
        /\ observed[s] \in Seq(Point) /\ exported[s] \in Seq(Point)
    BY <1>0, Typed
  <2> QED BY <2>1, <2>2, ExportedKept
<1>3. TypeOK'
  BY <1>0, <1>1, <1>2 DEF TypeOK
<1>4. NothingBeforeFirst'
  <2>1. temporality # "new"
    <3>1. PICK s \in Series : time_series[s].new_points # <<>>
      BY DEF Export
    <3>2. EmptySeries.new_points = <<>>
      BY DEF EmptySeries
    <3> QED BY <3>1, <3>2 DEF IInv, NothingBeforeFirst
  <2> QED BY <1>1, <2>1 DEF NothingBeforeFirst
<1>5. Cumulative' = Cumulative
  BY <1>1 DEF Cumulative
<1>6. ASSUME NEW s \in Series
      PROVE  SeriesKept(Cumulative', mixed', now', time_series'[s], observed'[s], exported'[s])
  <2>1. /\ time_series'[s] = AfterExport(time_series[s])
        /\ exported'[s] = exported[s] \o ExportedPoints(time_series[s])
    BY <1>1
  <2> QED BY <1>1, <1>2, <1>5, <2>1
<1> QED BY <1>3, <1>4, <1>6 DEF IInv

\* The clock goes on.
LEMMA TickInv == IInv /\ Tick => IInv'
<1> SUFFICES ASSUME IInv, Tick PROVE IInv'
  OBVIOUS
<1>0. TypeOK
  BY DEF IInv
<1>1. /\ now < MaxTime /\ now' = now + 1
      /\ kind' = kind /\ temporality' = temporality /\ time_series' = time_series
      /\ dropped_datapoints' = dropped_datapoints /\ received' = received
      /\ observed' = observed /\ exported' = exported /\ mixed' = mixed
  BY DEF Tick, state
<1>2. now' \in 0..MaxTime /\ now \in Nat /\ now' \in Nat /\ now <= now'
  BY <1>0, <1>1, OtelMetricsAssumption DEF TypeOK
<1>3. TypeOK'
  BY <1>0, <1>1, <1>2 DEF TypeOK
<1>4. NothingBeforeFirst'
  BY <1>1 DEF IInv, NothingBeforeFirst
<1>5. Cumulative' = Cumulative
  BY <1>1 DEF Cumulative
<1>6. ASSUME NEW s \in Series
      PROVE  SeriesKept(Cumulative', mixed', now', time_series'[s], observed'[s], exported'[s])
  <2>1. SeriesKept(Cumulative, mixed, now, time_series[s], observed[s], exported[s])
    BY DEF IInv
  <2>2. Cumulative \in BOOLEAN /\ mixed \in BOOLEAN /\ time_series[s] \in TimeSeries
    BY <1>0, Typed
  <2> DEFINE t2 == now'
  <2>3. t2 \in Nat /\ now \in Nat /\ now <= t2
    BY <1>2
  <2> HIDE DEF t2
  <2>4. SeriesKept(Cumulative, mixed, t2, time_series[s], observed[s], exported[s])
    BY <2>1, <2>2, <2>3, LaterKept
  <2> QED BY <1>1, <1>5, <2>4 DEF t2
<1> QED BY <1>3, <1>4, <1>6 DEF IInv

\* A step that leaves all that the invariant speaks of, but the counts of points.
LEMMA UnchangedInv ==
  ASSUME IInv, TypeOK',
         UNCHANGED <<temporality, time_series, now, observed, exported, mixed>>
  PROVE  IInv'
<1>1. NothingBeforeFirst'
  BY DEF IInv, NothingBeforeFirst
<1>2. Cumulative' = Cumulative
  BY DEF Cumulative
<1>3. \A s \in Series :
        SeriesKept(Cumulative', mixed', now', time_series'[s], observed'[s], exported'[s])
  BY <1>2 DEF IInv
<1> QED BY <1>1, <1>3 DEF IInv

\* Points of a kind that is not handled are counted.
LEMMA DropInv == IInv /\ DropExponentialHistogram => IInv'
<1> SUFFICES ASSUME IInv, DropExponentialHistogram PROVE IInv'
  OBVIOUS
<1>1. TypeOK'
  BY OtelMetricsAssumption DEF IInv, TypeOK, DropExponentialHistogram
<1> QED BY <1>1, UnchangedInv DEF DropExponentialHistogram

\* The invariant is inductive.
LEMMA StepInv == IInv /\ [Next]_vars => IInv'
<1> SUFFICES ASSUME IInv, [Next]_vars PROVE IInv'
  OBVIOUS
<1>1. CASE \E s \in Series, t \in Temporalities, v \in 0..MaxValue : Accumulate(s, t, v)
  BY <1>1, AccumulateInv
<1>2. CASE DropExponentialHistogram
  BY <1>2, DropInv
<1>3. CASE Export
  BY <1>3, ExportInv
<1>4. CASE Tick
  BY <1>4, TickInv
<1>5. CASE UNCHANGED vars
  <2>1. TypeOK'
    BY <1>5 DEF IInv, TypeOK, vars, state
  <2> QED BY <1>5, <2>1, UnchangedInv DEF vars, state
<1> QED BY <1>1, <1>2, <1>3, <1>4, <1>5 DEF Next, ClockStops

-----------------------------------------------------------------------------
(* The theorems. *)

\* The inductive invariant holds throughout.
LEMMA InvariantHolds == Spec => []IInv
BY InitInv, StepInv, PTL DEF Spec

\* The accumulator keeps its types: no more points are dropped than were received.
THEOREM AccumulatorTyped == Spec => []TypeOK
<1>1. IInv => TypeOK
  BY DEF IInv
<1> QED BY <1>1, InvariantHolds, PTL

\* A rate over what the reports of an instance make up of a cumulative series is right,
\* however its points are spread over the reports and whatever their times: export,
\* take_and_inflate_data_points.
THEOREM RateIsRight == Spec => []RateWorks
<1>1. IInv => RateWorks
  <2> SUFFICES ASSUME IInv, Cumulative, NEW s \in Series
               PROVE  RateWorksOver(exported[s])
    BY DEF RateWorks, RateWorksOver
  <2> QED BY DEF IInv, SeriesKept, CumulativeKept
<1> QED BY <1>1, InvariantHolds, PTL

\* Discarding the points that repeat the last one and putting others in loses and adds no
\* change of a cumulative metric, nor does it change their order: accumulate_if_different,
\* take_and_inflate_data_points.
THEOREM ChangesKept == Spec => []CoursePreserved
<1>1. IInv => CoursePreserved
  BY DEF IInv, SeriesKept, CumulativeKept, CoursePreserved
<1> QED BY <1>1, InvariantHolds, PTL

\* What is repeated of a cumulative metric bridges a gap, over every boundary of two
\* reports: accumulate_if_different, take_and_inflate_data_points.
THEOREM RepeatsBridgeGaps == Spec => []RepeatedOnlyAcrossGaps
<1>1. IInv => RepeatedOnlyAcrossGaps
  <2> SUFFICES ASSUME IInv, Cumulative, ~mixed, NEW s \in Series
               PROVE  RepeatsAcrossGaps(exported[s])
    BY DEF RepeatedOnlyAcrossGaps, RepeatsAcrossGaps
  <2> QED BY DEF IInv, SeriesKept, CumulativeKept
<1> QED BY <1>1, InvariantHolds, PTL

\* Every point of a gauge or of a delta metric is reported once, in order: accumulate_as_is.
THEOREM DeltasComplete == Spec => []DeltasPassThrough
<1>1. IInv => DeltasPassThrough
  BY DEF IInv, SeriesKept, DeltasPassThrough
<1> QED BY <1>1, InvariantHolds, PTL

=============================================================================
