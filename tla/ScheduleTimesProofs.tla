------------------------ MODULE ScheduleTimesProofs ------------------------
(***************************************************************************)
(* Theorems about ScheduleTimes, for any calendar of minutes, hours and    *)
(* days, any cycles, any settings of the expiry, and any lateness of Beat. *)
(***************************************************************************)
EXTENDS ScheduleTimes, NumberLemmas

Crontabs == {c \in Cycle : c.kind = "crontab"}
Everys   == {c \in Cycle : c.kind = "every"}

LEMMA Ticks ==
    /\ Second \in Nat /\ Margin \in Nat /\ MaxSkew \in Nat /\ MaxClock \in Nat
    /\ MaxEdits \in Nat /\ MaxSkew < Margin /\ Margin < Second /\ Second > 1
BY TickAssumption

LEMMA Kinds ==
    /\ Cycle = Crontabs \cup Everys
    /\ \A c \in Crontabs : /\ c.kind = "crontab" /\ c \in Cycle
                           /\ c.minute \in Field(Hour \div Minute)
                           /\ c.hour \in Field(Day \div Hour)
    /\ \A c \in Everys : c.kind = "every" /\ c \in Cycle /\ c.seconds \in Nat \ {0}
BY CycleAssumption DEF Crontabs, Everys

-----------------------------------------------------------------------------
(* The calendar: the slots of a crontab are numbered by their minutes. *)

Slots == Minute * Second      \* ticks in a minute
InHour == Hour \div Minute    \* minutes in an hour
InDay == Day \div Hour        \* hours in a day
DayTicks == Day * Second

LEMMA Calendar ==
    /\ Second \in Nat \ {0} /\ Minute \in Nat \ {0} /\ Hour \in Nat \ {0} /\ Day \in Nat \ {0}
    /\ InHour \in Nat \ {0} /\ InDay \in Nat \ {0} /\ Slots \in Nat \ {0} /\ DayTicks \in Nat \ {0}
    /\ Hour = InHour * Minute /\ Day = InDay * Hour
    /\ DayTicks = (InDay * InHour) * Slots
<1>1. /\ Second \in Nat \ {0} /\ Minute \in Nat \ {0} /\ Hour \in Nat \ {0} /\ Day \in Nat \ {0}
      /\ Hour % Minute = 0 /\ Day % Hour = 0
  BY Ticks, CalendarAssumption
<1>2. Hour = InHour * Minute /\ InHour \in Nat
  BY <1>1, Division DEF InHour
<1>3. Day = InDay * Hour /\ InDay \in Nat
  BY <1>1, Division DEF InDay
<1>4. InHour # 0 /\ InDay # 0
  BY <1>1, <1>2, <1>3
<1>5. Slots \in Nat \ {0} /\ DayTicks \in Nat \ {0}
  BY <1>1 DEF Slots, DayTicks
<1>6. DayTicks = (InDay * InHour) * Slots
  BY <1>1, <1>2, <1>3 DEF Slots, DayTicks
<1>7. QED
  BY <1>1, <1>2, <1>3, <1>4, <1>5, <1>6

\* Crontab c fires in minute k.
SlotAt(c, k) == Matches(c.minute, k % InHour) /\ Matches(c.hour, (k \div InHour) % InDay)

\* A crontab fires at the beginning of the minutes it matches.
LEMMA FiresInMinute ==
    ASSUME NEW c, NEW k \in Nat
    PROVE  FiresAt(c, k * Slots) <=> SlotAt(c, k)
<1> DEFINE t == k * Slots
           s == t \div Second
<1>1. t \in Nat /\ t % Slots = 0
  BY Calendar, Multiple
<1>2. t = (k * Minute) * Second
  BY Calendar DEF Slots
<1>3. s = k * Minute
  <2>1. k * Minute \in Nat
    BY Calendar
  <2>2. ((k * Minute) * Second) \div Second = k * Minute
    BY <2>1, Calendar, Multiple
  <2>3. QED
    BY <1>2, <2>2
<1>4. s \div Minute = k
  BY <1>3, Calendar, Multiple
<1>5. s \div Hour = k \div InHour
  <2>1. (k * Minute) \div (InHour * Minute) = k \div InHour
    BY Calendar, DivideByProduct
  <2>2. QED
    BY <1>3, <2>1, Calendar
<1> HIDE DEF t
<1>6. FiresAt(c, t) <=> SlotAt(c, k)
  BY <1>1, <1>4, <1>5 DEF FiresAt, SlotAt, Slots, InHour, InDay
<1>7. QED
  BY <1>6 DEF t

LEMMA FiresOnMinutes ==
    ASSUME NEW c, NEW t \in Nat, FiresAt(c, t)
    PROVE  \E k \in Nat : t = k * Slots
<1>1. t % Slots = 0
  BY DEF FiresAt, Slots
<1>2. t = (t \div Slots) * Slots + (t % Slots) /\ t \div Slots \in Nat
  BY Calendar, Division
<1>3. t = (t \div Slots) * Slots
  BY <1>1, <1>2, Calendar
<1>4. QED
  BY <1>2, <1>3

\* The slots repeat every day.
LEMMA SlotsRepeat ==
    ASSUME NEW c, NEW k \in Nat, NEW n \in Nat
    PROVE  SlotAt(c, k + n * (InDay * InHour)) <=> SlotAt(c, k)
<1>1. n * (InDay * InHour) = (n * InDay) * InHour /\ n * InDay \in Nat
  BY Calendar
<1>2. /\ (k + (n * InDay) * InHour) % InHour = k % InHour
      /\ (k + (n * InDay) * InHour) \div InHour = (k \div InHour) + n * InDay
  <2>1. \A m \in Nat : /\ (k + m * InHour) % InHour = k % InHour
                       /\ (k + m * InHour) \div InHour = (k \div InHour) + m
    BY Calendar, Periodic
  <2>2. QED
    BY <1>1, <2>1
<1>3. k \div InHour \in Nat
  BY Calendar, Division
<1>4. ((k \div InHour) + n * InDay) % InDay = (k \div InHour) % InDay
  BY <1>3, Calendar, Periodic
<1>5. QED
  BY <1>1, <1>2, <1>4 DEF SlotAt

LEMMA FiresDaily ==
    ASSUME NEW c, NEW t \in Nat, NEW n \in Nat
    PROVE  FiresAt(c, t + n * DayTicks) <=> FiresAt(c, t)
<1>1. n * DayTicks = (n * (InDay * InHour)) * Slots /\ n * (InDay * InHour) \in Nat
  BY Calendar
<1>2. ASSUME NEW k \in Nat, t = k * Slots
      PROVE  FiresAt(c, t + n * DayTicks) <=> FiresAt(c, t)
  <2>1. t + n * DayTicks = (k + n * (InDay * InHour)) * Slots
    BY <1>1, <1>2, Calendar
  <2>2. k + n * (InDay * InHour) \in Nat
    BY <1>1
  <2>3. FiresAt(c, t + n * DayTicks) <=> SlotAt(c, k + n * (InDay * InHour))
    BY <2>1, <2>2, FiresInMinute
  <2>4. QED
    BY <1>2, <2>3, FiresInMinute, SlotsRepeat
<1>3. ASSUME FiresAt(c, t + n * DayTicks) PROVE \E k \in Nat : t = k * Slots
  <2>1. t + n * DayTicks \in Nat
    BY Calendar
  <2>2. PICK j \in Nat : t + n * DayTicks = j * Slots
    BY <1>3, <2>1, FiresOnMinutes
  <2>3. t = (j - n * (InDay * InHour)) * Slots
    BY <1>1, <2>2, Calendar
  <2>4. j - n * (InDay * InHour) \in Nat
    BY <1>1, <2>3, Calendar
  <2>5. QED
    BY <2>3, <2>4
<1>4. QED
  BY <1>2, <1>3, FiresOnMinutes

\* A crontab fires once a day at least.
LEMMA FiresSomeMinute ==
    ASSUME NEW c \in Crontabs
    PROVE  \E k \in 0 .. InDay * InHour - 1 : SlotAt(c, k)
<1>1. c.minute \in Field(InHour) /\ c.hour \in Field(InDay)
  BY Kinds DEF InHour, InDay
<1>2. ASSUME NEW count \in Nat \ {0}, NEW f \in Field(count)
      PROVE  \E v \in 0 .. count - 1 : Matches(f, v)
  <2>1. CASE f.form = "any"
    BY <2>1 DEF Matches
  <2>2. CASE f.form = "step"
    <3>1. f.n \in Nat \ {0}
      BY <1>2, <2>2 DEF Field
    <3>2. 0 % f.n = 0
      BY <3>1
    <3>3. QED
      BY <2>2, <3>2 DEF Matches
  <2>3. CASE f.form = "list"
    BY <1>2, <2>3 DEF Matches, Field
  <2>4. QED
    BY <1>2, <2>1, <2>2, <2>3 DEF Field
<1>3. PICK v \in 0 .. InHour - 1 : Matches(c.minute, v)
  BY <1>1, <1>2, Calendar
<1>4. PICK h \in 0 .. InDay - 1 : Matches(c.hour, h)
  BY <1>1, <1>2, Calendar
<1> DEFINE k == h * InHour + v
<1>5. k % InHour = v /\ k \div InHour = h
  BY Calendar, DivisionUnique
<1>6. h % InDay = h
  BY Calendar
<1>7. k \in 0 .. InDay * InHour - 1
  BY Calendar
<1>8. QED
  BY <1>3, <1>4, <1>5, <1>6, <1>7 DEF SlotAt

LEMMA FiresWithinADay ==
    ASSUME NEW c \in Crontabs, NEW t \in Nat
    PROVE  \E u \in t + 1 .. t + DayTicks : FiresAt(c, u)
<1>1. PICK k \in 0 .. InDay * InHour - 1 : SlotAt(c, k)
  BY FiresSomeMinute
<1> DEFINE o == k * Slots
           a == (t + DayTicks) - o
           n == a \div DayTicks
           u == o + n * DayTicks
<1>2. o \in Nat /\ o < DayTicks
  <2>1. k \in Nat /\ k < InDay * InHour /\ InDay * InHour \in Nat
    BY Calendar
  <2>2. k * Slots < (InDay * InHour) * Slots
    BY <2>1, Calendar
  <2>3. QED
    BY <2>1, <2>2, Calendar
<1>3. FiresAt(c, o)
  BY <1>1, Calendar, FiresInMinute
<1> HIDE DEF o
<1>4. a \in Nat
  BY <1>2, Calendar
<1> HIDE DEF a
<1>5. a = n * DayTicks + (a % DayTicks) /\ a % DayTicks \in 0 .. DayTicks - 1 /\ n \in Nat
  BY <1>4, Calendar, Division
<1> HIDE DEF n
<1>6. FiresAt(c, u)
  BY <1>2, <1>3, <1>5, FiresDaily
<1>7. n * DayTicks \in Nat /\ u = (t + DayTicks) - (a % DayTicks)
  BY <1>2, <1>5, Calendar DEF a
<1> HIDE DEF u
<1>8. u \in t + 1 .. t + DayTicks
  BY <1>5, <1>7, Calendar
<1>9. QED
  BY <1>6, <1>8

\* NextSlot is the first slot after t.
LEMMA NextSlotIsFirst ==
    ASSUME NEW c \in Crontabs, NEW t \in Nat
    PROVE  /\ NextSlot(c, t) \in Nat /\ NextSlot(c, t) > t /\ FiresAt(c, NextSlot(c, t))
           /\ \A w \in t + 1 .. NextSlot(c, t) - 1 : ~ FiresAt(c, w)
           /\ \A w \in Nat : w > t /\ FiresAt(c, w) => NextSlot(c, t) <= w
<1> DEFINE S == {u \in t + 1 .. t + DayTicks : FiresAt(c, u)}
<1>1. S \subseteq Nat /\ S # {}
  <2>1. S # {}
    BY FiresWithinADay
  <2>2. t + 1 \in Nat /\ t + DayTicks \in Nat
    BY Calendar
  <2>3. QED
    BY <2>1, <2>2
<1>2. PICK u \in S : \A w \in S : u <= w
  BY <1>1, LeastNumber
<1>3. u \in Nat /\ u <= t + DayTicks
  BY <1>1, Calendar
<1>4. \A w \in t + 1 .. u - 1 : ~ FiresAt(c, w)
  BY <1>2, <1>3, Calendar
<1>5. \E x \in t + 1 .. t + Day * Second :
        FiresAt(c, x) /\ \A w \in t + 1 .. x - 1 : ~ FiresAt(c, w)
  BY <1>4 DEF DayTicks
<1>6. /\ NextSlot(c, t) \in t + 1 .. t + Day * Second /\ FiresAt(c, NextSlot(c, t))
      /\ \A w \in t + 1 .. NextSlot(c, t) - 1 : ~ FiresAt(c, w)
  BY <1>5 DEF NextSlot
<1>7. NextSlot(c, t) \in Nat /\ NextSlot(c, t) > t
  BY <1>6, Calendar DEF DayTicks
<1>8. QED
  BY <1>6, <1>7

\* A task is due after its last run, and the later the later that run was.
LEMMA DueAfter ==
    ASSUME NEW c \in Cycle, NEW t \in Nat
    PROVE  Due(c, t) \in Nat /\ Due(c, t) > t
<1>1. CASE c \in Crontabs
  BY <1>1, Kinds, NextSlotIsFirst DEF Due
<1>2. CASE c \in Everys
  <2>1. c.seconds * Second \in Nat \ {0}
    BY <1>2, Kinds, Calendar
  <2>2. QED
    BY <1>2, <2>1, Kinds DEF Due
<1>3. QED
  BY <1>1, <1>2, Kinds

LEMMA DueMonotone ==
    ASSUME NEW c \in Cycle, NEW t \in Nat, NEW u \in Nat, t <= u
    PROVE  Due(c, t) <= Due(c, u)
<1>1. CASE c \in Crontabs
  <2>1. /\ NextSlot(c, u) \in Nat /\ NextSlot(c, u) > t /\ FiresAt(c, NextSlot(c, u))
    BY <1>1, NextSlotIsFirst
  <2>2. NextSlot(c, t) <= NextSlot(c, u)
    BY <1>1, <2>1, NextSlotIsFirst
  <2>3. QED
    BY <1>1, <2>2, Kinds DEF Due
<1>2. CASE c \in Everys
  <2>1. c.seconds * Second \in Nat
    BY <1>2, Kinds, Calendar
  <2>2. QED
    BY <1>2, <2>1, Kinds DEF Due
<1>3. QED
  BY <1>1, <1>2, Kinds

\* What comes after a slot comes a gap later at least.
LEMMA GapAfterSlot ==
    ASSUME NEW c \in Crontabs, NEW t \in Nat, FiresAt(c, t)
    PROVE  ShortestGap(c) * Second <= NextSlot(c, t) - t /\ ShortestGap(c) \in Nat
<1> DEFINE r == t % DayTicks
           n == t \div DayTicks
           G == {NextSlot(c, x) - x : x \in {u \in 0 .. Day * Second - 1 : FiresAt(c, u)}}
           g == Min(G)
<1>1. t = n * DayTicks + r /\ r \in 0 .. DayTicks - 1 /\ n \in Nat /\ n * DayTicks \in Nat
  <2>1. t = n * DayTicks + r /\ r \in 0 .. DayTicks - 1 /\ n \in Nat
    BY Calendar, Division
  <2>2. n * DayTicks \in Nat
    BY <2>1, Calendar
  <2>3. QED
    BY <2>1, <2>2
<1> HIDE DEF r, n
<1>2. r \in Nat /\ t = r + n * DayTicks
  BY <1>1, Calendar
<1>3. FiresAt(c, r)
  BY <1>1, <1>2, FiresDaily
<1>4. NextSlot(c, r) - r <= NextSlot(c, t) - t
  <2> DEFINE w == NextSlot(c, t) - n * DayTicks
  <2>1. NextSlot(c, t) \in Nat /\ NextSlot(c, t) > t /\ FiresAt(c, NextSlot(c, t))
    BY NextSlotIsFirst
  <2>2. w \in Nat /\ w > r /\ NextSlot(c, t) = w + n * DayTicks
    BY <1>1, <1>2, <2>1
  <2> HIDE DEF w
  <2>3. FiresAt(c, w)
    BY <1>1, <2>1, <2>2, FiresDaily
  <2>4. NextSlot(c, r) <= w /\ NextSlot(c, r) \in Nat
    BY <1>2, <2>2, <2>3, NextSlotIsFirst
  <2>5. QED
    BY <1>1, <1>2, <2>2, <2>4
<1>5. G \subseteq Nat
  <2>1. \A x \in Nat : NextSlot(c, x) \in Nat /\ NextSlot(c, x) > x
    BY NextSlotIsFirst
  <2>2. QED
    BY <2>1, Calendar DEF DayTicks
<1>6. NextSlot(c, r) - r \in G
  BY <1>1, <1>3 DEF DayTicks
<1>7. \E x \in G : \A y \in G : x <= y
  BY <1>5, <1>6, LeastNumber
<1>8. ShortestGap(c) = g \div Second
  BY DEF ShortestGap
<1> HIDE DEF G
<1>9. g \in G /\ \A y \in G : g <= y
  BY <1>7 DEF Min
<1>10. g \in Nat /\ g <= NextSlot(c, t) - t
  <2>1. g \in Nat /\ NextSlot(c, r) - r \in Nat
    BY <1>5, <1>6, <1>9
  <2>2. g <= NextSlot(c, r) - r
    BY <1>6, <1>9
  <2>3. NextSlot(c, t) \in Nat
    BY NextSlotIsFirst
  <2>4. QED
    BY <1>4, <2>1, <2>2, <2>3
<1> HIDE DEF g
<1>11. /\ g = (g \div Second) * Second + (g % Second) /\ g % Second \in 0 .. Second - 1
       /\ g \div Second \in Nat
  BY <1>10, Calendar, Division
<1>12. QED
  BY <1>8, <1>10, <1>11, NextSlotIsFirst, Calendar

\* Slots are whole seconds; truncation takes less than a second off.
LEMMA TruncatedSlot ==
    ASSUME NEW c, NEW t \in Nat, FiresAt(c, t), NEW d \in Nat, d < Second
    PROVE  Truncated(t + d) = t
<1>1. PICK k \in Nat : t = k * Slots
  BY FiresOnMinutes
<1>2. t = (k * Minute) * Second /\ k * Minute \in Nat
  BY <1>1, Calendar DEF Slots
<1>3. ((k * Minute) * Second + d) % Second = d
  BY <1>2, Calendar, DivisionUnique
<1>4. QED
  BY <1>2, <1>3 DEF Truncated

LEMMA TruncatedBounds ==
    ASSUME NEW t \in Nat
    PROVE  Truncated(t) \in Nat /\ Truncated(t) \in t - Second + 1 .. t
<1>1. t = (t \div Second) * Second + (t % Second) /\ t % Second \in 0 .. Second - 1
      /\ t \div Second \in Nat
  BY Calendar, Division
<1>2. t % Second <= t
  BY <1>1, Calendar
<1>3. QED
  BY <1>1, <1>2, Calendar DEF Truncated

LEMMA EstimateIsNat == \A c \in Cycle : EstimatePeriod(c) \in Nat
<1> SUFFICES ASSUME NEW c \in Cycle PROVE EstimatePeriod(c) \in Nat
  OBVIOUS
<1>1. CASE c \in Everys
  BY <1>1, Kinds DEF EstimatePeriod
<1>2. CASE c \in Crontabs
  <2>1. /\ c.minute.form \in {"any", "step", "list"} /\ c.hour.form \in {"any", "step", "list"}
        /\ c.minute.form = "step" => c.minute.n \in Nat
        /\ c.hour.form = "step" => c.hour.n \in Nat
    BY <1>2, Kinds DEF Field
  <2>2. QED
    BY <1>2, <2>1, Kinds, Calendar DEF EstimatePeriod
<1>3. QED
  BY <1>1, <1>2, Kinds

\* The expiry is positive and, for a spaced cycle, below the estimate.
LEMMA ExpireBounds ==
    ASSUME NEW c \in Cycle
    PROVE  /\ CalcExpire(c) \in Nat \ {0}
           /\ Spaced(c) => CalcExpire(c) < EstimatePeriod(c)
<1> DEFINE e == EstimatePeriod(c) - SafetyMargin
           m == Min({MaxExpire, e})
<1>1. EstimatePeriod(c) \in Nat
  BY EstimateIsNat
<1>2. e \in Int /\ e < EstimatePeriod(c) /\ {SafetyMargin, MinExpire, MaxExpire} \subseteq Nat \ {0}
  BY <1>1, ExpireAssumption
<1> HIDE DEF e
<1>3. m = IF MaxExpire <= e THEN MaxExpire ELSE e
  BY <1>2 DEF Min
<1>4. CalcExpire(c) = Max({MinExpire, m})
  BY DEF CalcExpire, e
<1>5. m \in Int
  BY <1>2, <1>3
<1> HIDE DEF m
<1>6. Max({MinExpire, m}) = IF m <= MinExpire THEN MinExpire ELSE m
  BY <1>2, <1>5 DEF Max
<1>7. CalcExpire(c) \in Nat \ {0}
  BY <1>2, <1>4, <1>5, <1>6
<1>8. Spaced(c) => MinExpire <= e
  BY DEF Spaced, e
<1>9. QED
  BY <1>1, <1>2, <1>3, <1>4, <1>5, <1>6, <1>7, <1>8

-----------------------------------------------------------------------------
(* The messages. *)

\* A message of a spaced cycle that was sent in time has expired when the task is due again.
LEMMA ExpiredWhenDue ==
    ASSUME NEW c \in Cycle, Spaced(c), NEW t \in Nat,
           c.kind = "crontab" => FiresAt(c, t)
    PROVE  t + CalcExpire(c) * Second < Due(c, t)
<1> DEFINE x == CalcExpire(c)
           e == EstimatePeriod(c)
<1>1. x \in Nat /\ x < e
  BY ExpireBounds
<1>2. e \in Nat /\ t + e * Second <= Due(c, t)
  <2>1. CASE c \in Everys
    <3>1. e = c.seconds /\ Due(c, t) = t + c.seconds * Second /\ c.seconds \in Nat
      BY <2>1, Kinds DEF Due, EstimatePeriod
    <3>2. c.seconds * Second \in Nat
      BY <3>1, Calendar
    <3> HIDE DEF e
    <3>3. QED
      BY <3>1, <3>2
  <2>2. CASE c \in Crontabs
    <3> DEFINE g == ShortestGap(c)
    <3>1. g \in Nat /\ g * Second <= NextSlot(c, t) - t
      BY <2>2, Kinds, GapAfterSlot
    <3>2. e <= g
      BY <2>2, Kinds DEF Spaced
    <3>3. e \in Nat
      BY <2>2, EstimateIsNat, Kinds
    <3> HIDE DEF g, e
    <3>4. e * Second <= g * Second
      BY <3>1, <3>2, <3>3, Calendar
    <3>5. NextSlot(c, t) \in Nat /\ Due(c, t) = NextSlot(c, t)
      BY <2>2, Kinds, NextSlotIsFirst DEF Due
    <3>6. QED
      BY <3>1, <3>3, <3>4, <3>5, Calendar
  <2>3. QED
    BY <2>1, <2>2, Kinds
<1> HIDE DEF x, e
<1>3. x * Second < e * Second
  BY <1>1, <1>2, Calendar
<1>4. Due(c, t) \in Nat
  BY DueAfter
<1>5. t + x * Second < Due(c, t)
  BY <1>1, <1>2, <1>3, <1>4, Calendar
<1>6. QED
  BY <1>5 DEF x

\* Messages of the present schedule were sent until its last run, with the expiry of
\* its cycle; one that was sent in time was sent in a slot.
SentFor(m, c, run) ==
    /\ run # None /\ m.sent <= run
    /\ m.until = m.sent + CalcExpire(c) * Second
    /\ c.kind = "crontab" => m.late \/ FiresAt(c, m.sent)
Queued ==
    \A m \in queue :
      /\ m.sent \in Nat /\ m.until \in Nat /\ m.edit \in Nat /\ m.sent <= clock
      /\ m.edit = edits => SentFor(m, cycle, last)

\* What is reported comes before anything that is due later than now; it comes before
\* the next run too, unless a run that was due has still to be made.
Reported ==
    /\ report \in [time : Int, overdue : BOOLEAN, new : BOOLEAN, early : {0, 1}]
    /\ report = NoReport \/
         /\ \A t \in Nat : clock <= t => report.time - Margin <= Due(cycle, t)
         /\ report.early = 1 => report.overdue \/ report.new
         /\ report.early = 1 \/ ~ (report.overdue \/ report.new) =>
              last # None /\ report.time - Margin <= Due(cycle, last)

IInv == TypeOK /\ Queued /\ ExpiresBeforeNext /\ Reported

LEMMA Anchored ==
    ASSUME TypeOK
    PROVE  /\ LastRun \in Nat /\ LastRun <= clock /\ clock \in Nat /\ cycle \in Cycle
           /\ last # None => LastRun = last /\ last \in Nat
           /\ IsOverdue <=> Due(cycle, LastRun) <= clock
BY DEF TypeOK, LastRun, None, New, IsOverdue

\* A message that is sent finds those of the same schedule expired.
LEMMA SentAfterExpiry ==
    ASSUME IInv, IsDue, Spaced(cycle),
           NEW m \in queue, m.edit = edits
    PROVE  m.until < clock \/ (cycle.kind = "crontab" /\ m.late)
<1>1. /\ last # None /\ m.sent \in Nat /\ m.sent <= last
      /\ m.until = m.sent + CalcExpire(cycle) * Second
      /\ cycle.kind = "crontab" => m.late \/ FiresAt(cycle, m.sent)
  BY DEF IInv, Queued, SentFor
<1>2. last \in Nat /\ clock \in Nat /\ cycle \in Cycle /\ Due(cycle, last) <= clock
  BY <1>1, Anchored DEF IInv, IsDue, New
<1>3. Due(cycle, m.sent) <= Due(cycle, last) /\ Due(cycle, m.sent) \in Nat /\ Due(cycle, last) \in Nat
  BY <1>1, <1>2, DueMonotone, DueAfter
<1>4. CASE cycle.kind = "crontab" => FiresAt(cycle, m.sent)
  <2>1. m.sent + CalcExpire(cycle) * Second < Due(cycle, m.sent)
    BY <1>1, <1>2, <1>4, ExpiredWhenDue
  <2>2. m.until < Due(cycle, m.sent) /\ m.until \in Nat
    BY <1>1, <2>1 DEF IInv, Queued
  <2>3. QED
    BY <1>2, <1>3, <2>2
<1>5. QED
  BY <1>1, <1>4

-----------------------------------------------------------------------------
(* The answers of get_next_run_time. *)

\* An answer is the truncated time of the due run, or, when that has passed, of the
\* run that would be due if the task ran now.
LEMMA AnswerIs ==
    ASSUME TypeOK, NEW s1 \in 0 .. MaxSkew, NEW s2 \in 0 .. MaxSkew
    PROVE  LET time == NextRunTime(clock, s1, s2)
           IN  \/ /\ Due(cycle, LastRun) + (Margin - s1) > clock
                  /\ time = Truncated(Due(cycle, LastRun) + (Margin - s1))
               \/ /\ Due(cycle, LastRun) + (Margin - s1) <= clock
                  /\ time = Truncated(Due(cycle, clock) + (Margin - s2))
<1>1. /\ LastRun \in Nat /\ clock \in Nat
      /\ Due(cycle, LastRun) \in Nat /\ Due(cycle, clock) \in Nat
  BY Anchored, DueAfter
<1>2. Margin \in Nat /\ s1 \in Nat /\ s2 \in Nat
  BY Ticks
<1>3. FirstGuess(clock, s1) = Due(cycle, LastRun) + (Margin - s1)
  BY <1>1, <1>2 DEF FirstGuess, RemainingFrom
<1>4. Anew(clock, s2) = Due(cycle, clock) + (Margin - s2)
  BY <1>1, <1>2 DEF Anew, RemainingFrom
<1>5. QED
  BY <1>1, <1>2, <1>3, <1>4 DEF NextRunTime

\* How far it is from the run it stands for.
LEMMA AnswerBounds ==
    ASSUME TypeOK, NEW s1 \in 0 .. MaxSkew, NEW s2 \in 0 .. MaxSkew
    PROVE  LET time == NextRunTime(clock, s1, s2)
           IN  /\ time \in Nat
               /\ \/ /\ Due(cycle, LastRun) > clock - Margin
                     /\ time - Margin <= Due(cycle, LastRun)
                     /\ time > Due(cycle, LastRun) - Second
                  \/ /\ Due(cycle, LastRun) <= clock
                     /\ time - Margin <= Due(cycle, clock)
                     /\ time > Due(cycle, clock) - Second
<1> DEFINE time == NextRunTime(clock, s1, s2)
           d == Due(cycle, LastRun)
           n == Due(cycle, clock)
<1>1. d \in Nat /\ n \in Nat /\ clock \in Nat
  BY Anchored, DueAfter
<1>2. /\ Margin - s1 \in Nat /\ Margin - s1 > 0 /\ Margin - s1 <= Margin
      /\ Margin - s2 \in Nat /\ Margin - s2 > 0 /\ Margin - s2 <= Margin
      /\ Margin \in Nat /\ Second \in Nat
  BY Ticks
<1>3. \/ d + (Margin - s1) > clock /\ time = Truncated(d + (Margin - s1))
      \/ d + (Margin - s1) <= clock /\ time = Truncated(n + (Margin - s2))
  BY AnswerIs
<1>4. /\ Truncated(d + (Margin - s1)) \in Nat
      /\ Truncated(d + (Margin - s1)) \in d + (Margin - s1) - Second + 1 .. d + (Margin - s1)
      /\ Truncated(n + (Margin - s2)) \in Nat
      /\ Truncated(n + (Margin - s2)) \in n + (Margin - s2) - Second + 1 .. n + (Margin - s2)
  BY <1>1, <1>2, TruncatedBounds
<1> HIDE DEF time, d, n
<1>5. CASE d + (Margin - s1) > clock /\ time = Truncated(d + (Margin - s1))
  <2>1. time \in Nat /\ d > clock - Margin /\ time - Margin <= d /\ time > d - Second
    BY <1>1, <1>2, <1>4, <1>5
  <2>2. QED
    BY <2>1 DEF time, d, n
<1>6. CASE d + (Margin - s1) <= clock /\ time = Truncated(n + (Margin - s2))
  <2>1. time \in Nat /\ d <= clock /\ time - Margin <= n /\ time > n - Second
    BY <1>1, <1>2, <1>4, <1>6
  <2>2. QED
    BY <2>1 DEF time, d, n
<1>7. QED
  BY <1>3, <1>5, <1>6

\* A new answer is what Report gave.
LEMMA ReportIs ==
    ASSUME TypeOK, Report
    PROVE  \E s1, s2 \in 0 .. MaxSkew :
             /\ report'.time = NextRunTime(clock, s1, s2)
             /\ report'.overdue = IsOverdue /\ report'.new = New
             /\ report'.early = 0
             /\ report' \in [time : Nat, overdue : BOOLEAN, new : BOOLEAN, early : {0}]
<1>1. PICK s1, s2 \in 0 .. MaxSkew :
         report' = [time |-> NextRunTime(clock, s1, s2), overdue |-> IsOverdue,
                    new |-> New, early |-> 0]
  BY Zenon DEF Report
<1>2. NextRunTime(clock, s1, s2) \in Nat
  BY AnswerBounds
<1>3. IsOverdue \in BOOLEAN /\ New \in BOOLEAN
  BY DEF IsOverdue, New
<1>4. /\ report'.time = NextRunTime(clock, s1, s2)
      /\ report'.overdue = IsOverdue /\ report'.new = New
      /\ report'.early = 0
  BY <1>1, Zenon
<1>5. report' \in [time : Nat, overdue : BOOLEAN, new : BOOLEAN, early : {0}]
  BY <1>1, <1>2, <1>3
<1>6. QED
  BY <1>4, <1>5

-----------------------------------------------------------------------------
(* The invariant. *)

LEMMA NoReportIsReported == ASSUME report' = NoReport PROVE Reported'
<1>1. NoReport \in [time : Int, overdue : BOOLEAN, new : BOOLEAN, early : {0, 1}]
  BY DEF NoReport, None
<1>2. QED
  BY <1>1 DEF Reported

LEMMA TimesStart == Init => IInv
<1> SUFFICES ASSUME Init PROVE IInv
  OBVIOUS
<1>1. TypeOK
  BY Ticks DEF Init, TypeOK
<1>2. Queued /\ ExpiresBeforeNext
  BY DEF Init, Queued, ExpiresBeforeNext
<1>3. Reported
  BY DEF Init, Reported, NoReport, None
<1>4. QED
  BY <1>1, <1>2, <1>3 DEF IInv

\* Steps that leave the schedule and the queue alone.
LEMMA QueueStays ==
    ASSUME IInv, UNCHANGED <<cycle, enabled, last, start, edits>>,
           queue' \subseteq queue, clock' \in Nat, clock <= clock'
    PROVE  TypeOK' /\ Queued' /\ ExpiresBeforeNext'
<1>1. TypeOK'
  BY DEF IInv, TypeOK
<1>2. Queued'
  <2> SUFFICES ASSUME NEW m \in queue'
               PROVE  /\ m.sent \in Nat /\ m.until \in Nat /\ m.edit \in Nat /\ m.sent <= clock'
                      /\ m.edit = edits' => SentFor(m, cycle', last')
    BY DEF Queued
  <2>1. m \in queue /\ clock \in Nat
    BY DEF IInv, TypeOK
  <2>2. QED
    BY <2>1 DEF IInv, Queued
<1>3. ExpiresBeforeNext'
  BY DEF IInv, ExpiresBeforeNext
<1>4. QED
  BY <1>1, <1>2, <1>3

LEMMA ReportSafe == ASSUME IInv, Report PROVE IInv'
<1>1. PICK s1, s2 \in 0 .. MaxSkew :
         /\ report'.time = NextRunTime(clock, s1, s2)
         /\ report'.overdue = IsOverdue /\ report'.new = New
         /\ report'.early = 0
         /\ report' \in [time : Nat, overdue : BOOLEAN, new : BOOLEAN, early : {0}]
  BY ReportIs DEF IInv
<1>2. UNCHANGED <<clock, cycle, enabled, last, start, queue, edits>>
  BY DEF Report
<1>3. TypeOK' /\ Queued' /\ ExpiresBeforeNext'
  BY <1>2, QueueStays DEF IInv, TypeOK
<1>4. LastRun \in Nat /\ clock \in Nat /\ LastRun <= clock /\ cycle \in Cycle
      /\ Due(cycle, LastRun) \in Nat /\ Due(cycle, clock) \in Nat /\ Margin \in Nat
      /\ (last # None => LastRun = last) /\ (IsOverdue <=> Due(cycle, LastRun) <= clock)
  BY Anchored, DueAfter, Ticks DEF IInv
<1>5. \/ /\ Due(cycle, LastRun) > clock - Margin
         /\ report'.time - Margin <= Due(cycle, LastRun)
      \/ /\ Due(cycle, LastRun) <= clock
         /\ report'.time - Margin <= Due(cycle, clock)
  BY <1>1, AnswerBounds DEF IInv
<1>6. Due(cycle, LastRun) <= Due(cycle, clock)
  BY <1>4, DueMonotone
<1>7. ASSUME NEW t \in Nat, clock <= t PROVE report'.time - Margin <= Due(cycle, t)
  <2>1. Due(cycle, clock) <= Due(cycle, t) /\ Due(cycle, t) \in Nat
    BY <1>4, <1>7, DueMonotone, DueAfter
  <2>2. report'.time \in Nat
    BY <1>1
  <2>3. QED
    BY <1>4, <1>5, <1>6, <2>1, <2>2
<1>8. ~ (report'.overdue \/ report'.new) =>
        last # None /\ report'.time - Margin <= Due(cycle, last)
  BY <1>1, <1>4, <1>5 DEF New
<1>9. Reported'
  <2>1. report' \in [time : Int, overdue : BOOLEAN, new : BOOLEAN, early : {0, 1}]
    BY <1>1
  <2>2. \A t \in Nat : clock' <= t => report'.time - Margin <= Due(cycle', t)
    BY <1>2, <1>7
  <2>3. report'.early = 0
    BY <1>1
  <2>4. ~ (report'.overdue \/ report'.new) =>
          last' # None /\ report'.time - Margin <= Due(cycle', last')
    BY <1>2, <1>8
  <2>5. QED
    BY <2>1, <2>2, <2>3, <2>4 DEF Reported
<1>10. QED
  BY <1>3, <1>9 DEF IInv

LEMMA ReportFailsSafe == ASSUME IInv, ReportFails PROVE IInv'
<1>1. UNCHANGED <<clock, cycle, enabled, last, start, queue, edits>> /\ report' = NoReport
  BY DEF ReportFails
<1>2. TypeOK' /\ Queued' /\ ExpiresBeforeNext'
  BY <1>1, QueueStays DEF IInv, TypeOK
<1>3. QED
  BY <1>1, <1>2, NoReportIsReported DEF IInv

\* A new schedule has no messages yet.
LEMMA EditSafe == ASSUME IInv, Edit PROVE IInv'
<1>1. edits' = edits + 1 /\ edits < MaxEdits /\ queue' = queue /\ clock' = clock /\ start' = start
      /\ last' = (IF enabled' THEN clock ELSE None) /\ report' = NoReport
      /\ cycle' \in Cycle /\ enabled' \in BOOLEAN
  BY DEF Edit, IInv, TypeOK
<1>2. \A m \in queue : m.edit \in Nat /\ m.edit <= edits /\ m.edit # edits'
  BY <1>1, Ticks DEF IInv, TypeOK, Queued
<1>3. TypeOK'
  BY <1>1, <1>2, Ticks DEF IInv, TypeOK, None
<1>4. Queued' /\ ExpiresBeforeNext'
  BY <1>1, <1>2 DEF IInv, Queued, ExpiresBeforeNext
<1>5. QED
  BY <1>1, <1>3, <1>4, NoReportIsReported DEF IInv

LEMMA BeatSafe == ASSUME IInv, Beat PROVE IInv'
<1> DEFINE x == [sent |-> clock, until |-> clock + CalcExpire(cycle) * Second,
                 late |-> New \/ Due(cycle, last) < clock, edit |-> edits]
<1>1. /\ IsDue /\ last' = clock /\ queue' = queue \cup {x}
      /\ UNCHANGED <<clock, cycle, enabled, start, edits>>
  BY DEF Beat
<1>2. /\ clock \in Nat /\ cycle \in Cycle /\ edits \in Nat
      /\ last # None => last \in Nat /\ Due(cycle, last) \in Nat
  BY Anchored, DueAfter, Ticks DEF IInv, TypeOK
<1>3. /\ CalcExpire(cycle) * Second \in Nat \ {0}
  BY <1>2, ExpireBounds, Calendar
<1>4. /\ x.sent = clock /\ x.until = clock + CalcExpire(cycle) * Second /\ x.edit = edits
      /\ x.late = (New \/ Due(cycle, last) < clock)
  BY Zenon
<1>5. cycle.kind = "crontab" => x.late \/ FiresAt(cycle, x.sent)
  <2>1. CASE last # None /\ Due(cycle, last) = clock /\ cycle.kind = "crontab"
    <3>1. cycle \in Crontabs
      BY <1>2, <2>1 DEF Crontabs
    <3>2. FiresAt(cycle, Due(cycle, last))
      BY <1>2, <2>1, <3>1, NextSlotIsFirst DEF Due
    <3>3. QED
      BY <1>4, <2>1, <3>2
  <2>2. CASE last = None \/ Due(cycle, last) < clock
    BY <1>4, <2>2 DEF New
  <2>3. QED
    BY <1>1, <1>2, <2>1, <2>2 DEF IsDue, New
<1>6. \A m \in queue : m.sent <= clock /\ m.sent \in Nat
  BY DEF IInv, Queued
<1> HIDE DEF x
<1>7. TypeOK'
  BY <1>1, <1>2, <1>3, <1>4 DEF IInv, TypeOK
<1>8. Queued'
  <2> SUFFICES ASSUME NEW m \in queue'
               PROVE  /\ m.sent \in Nat /\ m.until \in Nat /\ m.edit \in Nat /\ m.sent <= clock'
                      /\ m.edit = edits' => SentFor(m, cycle', last')
    BY DEF Queued
  <2>1. CASE m = x
    BY <1>1, <1>2, <1>3, <1>4, <1>5, <2>1 DEF None, SentFor
  <2>2. CASE m \in queue
    BY <1>1, <1>2, <2>2 DEF IInv, Queued, None, SentFor
  <2>3. QED
    BY <1>1, <2>1, <2>2
<1>9. ExpiresBeforeNext'
  <2> SUFFICES ASSUME NEW m \in queue', NEW n \in queue', m.edit = edits, n.edit = edits,
                      m.sent < n.sent, Spaced(cycle)
               PROVE  m.until < n.sent \/ (cycle.kind = "crontab" /\ m.late)
    BY <1>1 DEF ExpiresBeforeNext, Spaced
  <2>1. m \in queue
    BY <1>1, <1>2, <1>4, <1>6
  <2>2. CASE n \in queue
    BY <2>1, <2>2 DEF IInv, ExpiresBeforeNext
  <2>3. CASE n = x
    BY <1>1, <1>4, <2>1, <2>3, SentAfterExpiry
  <2>4. QED
    BY <1>1, <2>2, <2>3
<1>10. Reported'
  <2>1. CASE report' = NoReport
    BY <2>1, NoReportIsReported
  <2>2. CASE report # NoReport /\ clock < report.time - Margin
    <3>1. report' = [report EXCEPT !.early = @ + 1]
      BY <2>2 DEF Beat
    <3>2. /\ report \in [time : Int, overdue : BOOLEAN, new : BOOLEAN, early : {0, 1}]
          /\ \A t \in Nat : clock <= t => report.time - Margin <= Due(cycle, t)
          /\ report.early = 1 \/ ~ (report.overdue \/ report.new) =>
               last # None /\ report.time - Margin <= Due(cycle, last)
      BY <2>2 DEF IInv, Reported
    <3>3. report.time \in Int /\ Margin \in Nat
      BY <3>2, Ticks
    <3>4. ~ (last # None /\ report.time - Margin <= Due(cycle, last))
      BY <1>1, <1>2, <2>2, <3>3 DEF IsDue, New
    <3>5. report.early = 0 /\ (report.overdue \/ report.new)
      BY <3>2, <3>4
    <3>6. /\ report' \in [time : Int, overdue : BOOLEAN, new : BOOLEAN, early : {0, 1}]
          /\ report'.time = report.time
          /\ report'.overdue = report.overdue /\ report'.new = report.new
      <4>1. report' = [report EXCEPT !.early = 1]
        BY <3>1, <3>5
      <4>2. QED
        BY <3>2, <4>1
    <3>7. last' = clock /\ last' # None
      BY <1>1, <1>2 DEF None
    <3>8. QED
      BY <1>1, <1>2, <3>2, <3>5, <3>6, <3>7 DEF Reported
  <2>3. QED
    BY <2>1, <2>2 DEF Beat
<1>11. QED
  BY <1>7, <1>8, <1>9, <1>10 DEF IInv

\* The report stays as it is, and nothing is due earlier than it was.
LEMMA ReportStays ==
    ASSUME IInv, UNCHANGED <<cycle, enabled, last, start, report>>,
           clock' \in Nat, clock <= clock'
    PROVE  Reported'
<1>1. last' = last /\ clock \in Nat
  BY DEF IInv, TypeOK
<1>2. CASE report = NoReport
  BY <1>2, NoReportIsReported
<1>3. CASE report # NoReport
  BY <1>1, <1>3 DEF IInv, Reported
<1>4. QED
  BY <1>2, <1>3

LEMMA TimesStep == IInv /\ [Next]_vars => IInv'
<1> SUFFICES ASSUME IInv, [Next]_vars PROVE IInv'
  OBVIOUS
<1>1. clock \in Nat
  BY DEF IInv, TypeOK
<1>2. CASE Take
  <2>1. queue' \subseteq queue /\ UNCHANGED <<clock, cycle, enabled, last, start, report, edits>>
    BY <1>2 DEF Take
  <2>2. QED
    BY <1>1, <2>1, QueueStays, ReportStays DEF IInv
<1>3. CASE Tick
  <2>1. UNCHANGED <<cycle, enabled, last, start, queue, edits>> /\ clock' = clock + 1
        /\ report' \in {report, NoReport}
    BY <1>3 DEF Tick
  <2>2. QED
    BY <1>1, <2>1, QueueStays, ReportStays, NoReportIsReported DEF IInv
<1>4. CASE UNCHANGED vars
  BY <1>1, <1>4, QueueStays, ReportStays DEF IInv, vars
<1>5. QED
  BY <1>2, <1>3, <1>4, ReportSafe, ReportFailsSafe, EditSafe, BeatSafe DEF Next

LEMMA TimesInductive == Spec => []IInv
BY TimesStart, TimesStep, PTL DEF Spec

-----------------------------------------------------------------------------
(* The theorems. *)

\* Clock, schedule and queue keep their types, and no message expires before it is
\* sent, whatever the settings of the expiry (sync.py:13 to 22).
THEOREM TimesTypeCorrect == Spec => []TypeOK
<1>1. IInv => TypeOK
  BY DEF IInv
<1>2. QED
  BY <1>1, TimesInductive, PTL

\* With any calendar, cycles and settings, and workers away for as long as they like,
\* a message of a spaced cycle has expired when the next one is sent, unless it was
\* itself sent late (the purpose of _calc_expire).
THEOREM NoMessagesPileUp == Spec => []ExpiresBeforeNext
<1>1. IInv => ExpiresBeforeNext
  BY DEF IInv
<1>2. QED
  BY <1>1, TimesInductive, PTL

\* No run comes before the time get_next_run_time reported, but the one that was due
\* then: of an overdue task (schedule.py:49 to 52), or of one that had never run.
THEOREM ReportedTimeIsKept == Spec => []NoEarlyRun
<1>1. IInv => NoEarlyRun
  BY DEF IInv, Reported, NoEarlyRun, NoReport
<1>2. QED
  BY <1>1, TimesInductive, PTL

\* Only a call of get_next_run_time makes a new answer.
LEMMA AnsweredByReport ==
    ASSUME IInv, [Next]_vars, Answered
    PROVE  Report
<1>1. report' # report /\ report' # NoReport /\ report'.early = 0
  BY DEF Answered, NoReport
<1>2. ~ ReportFails /\ ~ Edit /\ ~ Take /\ ~ Tick /\ ~ UNCHANGED vars
  BY <1>1 DEF ReportFails, Edit, Take, Tick, vars
<1>3. ~ Beat
  <2> SUFFICES ASSUME Beat PROVE FALSE
    OBVIOUS
  <2>1. report' = [report EXCEPT !.early = @ + 1]
    BY <1>1 DEF Beat
  <2>2. report.early \in {0, 1} /\ report'.early = report.early + 1
    BY <2>1 DEF IInv, Reported
  <2>3. QED
    BY <1>1, <2>2
<1>4. QED
  BY <1>2, <1>3 DEF Next

\* For a crontab the answer is a slot, and the first one from now on, or the one that
\* is due already (schedule.py:5 to 8).
THEOREM ReportedTimeIsASlot == Spec => ReportIsNextSlot
<1> DEFINE NextOne == Answered /\ cycle.kind = "crontab" =>
                        /\ FiresAt(cycle, report'.time)
                        /\ \A t \in clock + 1 .. report'.time - 1 : ~ FiresAt(cycle, t)
<1>1. ASSUME IInv, [Next]_vars PROVE NextOne
  <2> SUFFICES ASSUME Answered, cycle.kind = "crontab"
               PROVE  /\ FiresAt(cycle, report'.time)
                      /\ \A t \in clock + 1 .. report'.time - 1 : ~ FiresAt(cycle, t)
    OBVIOUS
  <2>1. PICK s1, s2 \in 0 .. MaxSkew : report'.time = NextRunTime(clock, s1, s2)
    BY <1>1, AnsweredByReport, ReportIs DEF IInv
  <2>2. /\ LastRun \in Nat /\ clock \in Nat /\ LastRun <= clock /\ cycle \in Crontabs
    BY <1>1, Anchored DEF IInv, Crontabs
  <2>3. Due(cycle, LastRun) = NextSlot(cycle, LastRun) /\ Due(cycle, clock) = NextSlot(cycle, clock)
    BY DEF Due
  <2>4. /\ Margin - s1 \in Nat /\ Margin - s1 < Second
        /\ Margin - s2 \in Nat /\ Margin - s2 < Second
    BY Ticks
  <2>5. /\ NextSlot(cycle, LastRun) \in Nat /\ FiresAt(cycle, NextSlot(cycle, LastRun))
        /\ \A w \in LastRun + 1 .. NextSlot(cycle, LastRun) - 1 : ~ FiresAt(cycle, w)
        /\ NextSlot(cycle, clock) \in Nat /\ FiresAt(cycle, NextSlot(cycle, clock))
        /\ \A w \in clock + 1 .. NextSlot(cycle, clock) - 1 : ~ FiresAt(cycle, w)
    BY <2>2, NextSlotIsFirst
  <2>6. /\ Truncated(NextSlot(cycle, LastRun) + (Margin - s1)) = NextSlot(cycle, LastRun)
        /\ Truncated(NextSlot(cycle, clock) + (Margin - s2)) = NextSlot(cycle, clock)
    BY <2>4, <2>5, TruncatedSlot
  <2>7. report'.time \in {NextSlot(cycle, LastRun), NextSlot(cycle, clock)}
    BY <1>1, <2>1, <2>3, <2>6, AnswerIs DEF IInv
  <2>8. QED
    BY <2>2, <2>5, <2>7
<1>2. IInv /\ [Next]_vars => [NextOne]_vars
  BY <1>1
<1>3. QED
  BY TimesInductive, <1>2, PTL DEF ReportIsNextSlot, Spec

\* check_celery_status leaves out no task whose time it can compute but those after
\* the tenth and one that is due within a second, or was due less than the margin ago,
\* however late Beat is.
THEOREM OnlyImminentRunsAreUnlisted == Spec => UnlistedIsImminent
<1> DEFINE Listed ==
             \A skew \in 0 .. MaxSkew, ahead \in 0 .. ListLength :
               Answered /\ ~ Printed(report'.time, clock - skew, ahead) =>
                 \/ ahead = ListLength
                 \/ \E t \in {LastRun, clock} : Due(cycle, t) - clock \in 1 - Margin .. Second - 1
<1>1. ASSUME IInv, [Next]_vars PROVE Listed
  <2> SUFFICES ASSUME NEW skew \in 0 .. MaxSkew, NEW ahead \in 0 .. ListLength,
                      Answered, ~ Printed(report'.time, clock - skew, ahead),
                      ahead # ListLength
               PROVE  \E t \in {LastRun, clock} : Due(cycle, t) - clock \in 1 - Margin .. Second - 1
    OBVIOUS
  <2>1. PICK s1, s2 \in 0 .. MaxSkew : report'.time = NextRunTime(clock, s1, s2)
    BY <1>1, AnsweredByReport, ReportIs DEF IInv
  <2>2. /\ LastRun \in Nat /\ clock \in Nat
        /\ Due(cycle, LastRun) \in Nat /\ Due(cycle, clock) \in Nat /\ Due(cycle, clock) > clock
        /\ Margin \in Nat /\ Second \in Nat /\ skew \in Nat
    BY <1>1, Anchored, DueAfter, Ticks DEF IInv
  <2>3. report'.time \in Nat /\ report'.time <= clock
    <3>1. NextRunTime(clock, s1, s2) \in Nat
      BY <1>1, AnswerBounds DEF IInv
    <3>2. report'.time # None /\ ahead < ListLength
      BY DEF Answered, ListLength
    <3>3. ~ (report'.time > clock - skew)
      BY <3>2 DEF Printed, Upcoming
    <3>4. QED
      BY <2>1, <2>2, <3>1, <3>3
  <2>4. \/ /\ Due(cycle, LastRun) > clock - Margin
           /\ report'.time > Due(cycle, LastRun) - Second
        \/ report'.time > Due(cycle, clock) - Second
    BY <1>1, <2>1, AnswerBounds DEF IInv
  <2>5. QED
    BY <2>2, <2>3, <2>4
<1>2. IInv /\ [Next]_vars => [Listed]_vars
  BY <1>1
<1>3. QED
  BY TimesInductive, <1>2, PTL DEF UnlistedIsImminent, Spec
=============================================================================
