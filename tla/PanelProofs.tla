----------------------------- MODULE PanelProofs -----------------------------
(***************************************************************************)
(* What the panel sets on a device and what it shows.  A feeder's plan,    *)
(* for days, minutes and weeks of any length, any number of changes and a  *)
(* clock that runs to any horizon: what the feeder holds is what the       *)
(* schedule asks for until it asks again, at the times of day that the     *)
(* user meant.  The settings of a device, for any number of changes made   *)
(* here and on it: whatever messages cross, what is stored is what the     *)
(* device does once nothing is on its way and nothing was lost.  And the   *)
(* timeline, for any reports in any order: each row is on one line of one  *)
(* card, a visit counts once, and what is told beside the table agrees     *)
(* with it.                                                                *)
(***************************************************************************)
EXTENDS FeedPlan, Settings, Visits, FiniteSetTheorems, FunctionTheorems,
        WellFoundedInduction, TLAPS

(* A set of numbers has a least one.                                       *)
LEMMA LeastNat ==
  ASSUME NEW T, T \subseteq Nat, T # {} PROVE \E x \in T : \A y \in T : x <= y
  <1> DEFINE R == OpToRel(<, Nat)
  <1>1. IsWellFoundedOn(R, Nat) BY NatLessThanWellFounded
  <1> HIDE DEF R
  <1>2. PICK x \in T : \A y \in T : ~ (<<y, x>> \in R) BY <1>1, WFMin
  <1>3. \A y \in T : ~ (y < x) BY <1>2 DEF R, OpToRel
  <1> QED BY <1>3

-----------------------------------------------------------------------------
(* Days and minutes                                                        *)

LEMMA Positive == Day \in Nat /\ Day >= 1 /\ Minute \in Nat /\ Minute >= 1 /\ Week \in Nat /\ Week >= 1
                  /\ EmptyTick \in Nat /\ EmptyTick < Day /\ Horizon \in Nat /\ MaxEdits \in Nat
BY FeedAssumption

\* A product grows with each factor.
LEMMA Grows ==
  ASSUME NEW a \in Int, NEW b \in Int, NEW n \in Nat, a < b
  PROVE  a * n + n =< b * n
<1>1. b - a - 1 \in Nat
  OBVIOUS
<1>2. (b - a - 1) * n >= 0
  BY <1>1
<1>3. (b - a - 1) * n = b * n - a * n - n
  OBVIOUS
<1> QED BY <1>2, <1>3

LEMMA Quotient ==
  ASSUME NEW x \in Nat, NEW n \in Nat, n >= 1
  PROVE  /\ x \div n \in Nat /\ x % n \in 0..(n - 1)
         /\ x = (x \div n) * n + (x % n)
OBVIOUS

LEMMA MinutesInDay ==
  ASSUME NEW t \in Nat, t < Day \div Minute
  PROVE  t * Minute \in 0..(Day - 1)
<1> DEFINE q == Day \div Minute
<1>0. q \in Nat /\ Day % Minute \in Nat /\ Day = q * Minute + (Day % Minute)
  BY Positive, Quotient
<1>1. t * Minute + Minute =< q * Minute
  <2> HIDE DEF q
  <2> QED BY <1>0, Positive, Grows, t < q
<1>2. q * Minute =< Day
  <2> HIDE DEF q
  <2>1. q * Minute \in Nat
    BY <1>0, Positive
  <2> QED BY <1>0, <2>1, Positive
<1>3. t * Minute \in Nat
  BY Positive
<1> QED BY <1>1, <1>2, <1>3, Positive

\* A moment of a day, taken apart again.
LEMMA MomentOfDay ==
  ASSUME NEW d \in Nat, NEW t \in 0..(Day - 1)
  PROVE  /\ Midnight(d) + t \in Nat
         /\ (Midnight(d) + t) \div Day = d
         /\ (Midnight(d) + t) % Day = t
<1> DEFINE x == d * Day + t
           q == x \div Day
<1>0. x \in Nat
  BY Positive
<1>1. q \in Nat /\ x % Day \in 0..(Day - 1) /\ x = q * Day + (x % Day)
  <2> HIDE DEF x
  <2> QED BY <1>0, Positive, Quotient
<1>2. ~(d < q)
  <2> SUFFICES ASSUME d < q PROVE FALSE
    OBVIOUS
  <2>1. d * Day + Day =< q * Day
    BY <1>1, Positive, Grows
  <2> HIDE DEF q
  <2> QED BY <1>1, <2>1, Positive
<1>3. ~(q < d)
  <2> SUFFICES ASSUME q < d PROVE FALSE
    OBVIOUS
  <2>1. q * Day + Day =< d * Day
    BY <1>1, Positive, Grows
  <2> HIDE DEF q
  <2> QED BY <1>1, <2>1, Positive
<1>4. q = d
  BY <1>1, <1>2, <1>3
<1>5. x % Day = t
  <2> HIDE DEF q
  <2> QED BY <1>1, <1>4, Positive
<1> QED BY <1>0, <1>4, <1>5 DEF Midnight

-----------------------------------------------------------------------------
(* What is stored, and what a plan is made of                              *)

Entries == [kind : {"s", "d"}, at : Nat, want : 0..(Day - 1)]

\* The meals come at the time the user meant once the schedule is converted.
Sound(s) == \A m \in MigrateSchedule(s).meals : m.t = m.want

LEMMA MigrateKeeps ==
  ASSUME NEW s \in Schedules
  PROVE  /\ MigrateSchedule(s) \in Schedules /\ MigrateSchedule(s).v = 2
         /\ s.v = 2 => MigrateSchedule(s) = s
<1>1. CASE s.v = 2
  BY <1>1 DEF MigrateSchedule
<1>2. CASE s.v # 2
  <2>1. CASE \A m \in s.meals : InMinutes(m)
    <3>1. ASSUME NEW m \in s.meals PROVE [m EXCEPT !.t = @ * Minute] \in Meals
      <4>1. m \in Meals /\ m.t \in Nat /\ m.t < Day \div Minute
        BY <2>1, Positive DEF Schedules, Meals, InMinutes
      <4>2. m.t * Minute \in 0..(Day - 1)
        BY <4>1, MinutesInDay
      <4> QED BY <4>1, <4>2 DEF Meals
    <3> QED BY <1>2, <2>1, <3>1 DEF MigrateSchedule, Schedules
  <2>2. CASE ~ \A m \in s.meals : InMinutes(m)
    BY <1>2, <2>2 DEF MigrateSchedule, Schedules
  <2> QED BY <2>1, <2>2
<1> QED BY <1>1, <1>2

\* The conversion leaves alone what cannot be mistaken.
LEMMA MigrateLeaves ==
  ASSUME NEW s \in Schedules, Unmistakable(s)
  PROVE  MigrateSchedule(s).meals = s.meals
<1>1. CASE s.v = 2 \/ ~ \A m \in s.meals : InMinutes(m)
  BY <1>1 DEF MigrateSchedule, Schedules
<1>2. CASE s.v # 2 /\ \A m \in s.meals : InMinutes(m)
  <2>1. ASSUME NEW m \in s.meals PROVE ~(m.t * Minute >= Day)
    <3>1. m.t \in Nat /\ m.t < Day \div Minute
      BY <1>2, Positive DEF Schedules, Meals, InMinutes
    <3>2. m.t * Minute \in 0..(Day - 1)
      BY <3>1, MinutesInDay
    <3> QED BY <3>2, Positive
  <2>2. ASSUME NEW m \in s.meals PROVE [m EXCEPT !.t = @ * Minute] = m
    <3>1. m.t = 0 /\ 0 * Minute = 0 /\ m \in Meals
      BY <1>2, <2>1, Positive DEF Unmistakable, Schedules
    <3> QED BY <3>1 DEF Meals
  <2>3. MigrateSchedule(s).meals = {[m EXCEPT !.t = @ * Minute] : m \in s.meals}
    BY <1>2 DEF MigrateSchedule, Schedules
  <2> QED BY <2>2, <2>3
<1> QED BY <1>1, <1>2

\* A meal at midnight was meant for midnight, whatever it counts.
LEMMA AtMidnight ==
  ASSUME NEW s \in Schedules, Sound(s), NEW m \in s.meals, m.t = 0
  PROVE  m.want = 0
<1>1. CASE MigrateSchedule(s).meals = s.meals
  BY <1>1 DEF Sound
<1>2. CASE MigrateSchedule(s).meals # s.meals
  <2>1. MigrateSchedule(s).meals = {[x EXCEPT !.t = @ * Minute] : x \in s.meals}
    BY <1>2 DEF MigrateSchedule, Schedules
  <2>2. [m EXCEPT !.t = @ * Minute].t = m.t * Minute /\ [m EXCEPT !.t = @ * Minute].want = m.want
    BY DEF Schedules, Meals
  <2>3. m.t * Minute = 0
    BY Positive
  <2> QED BY <2>1, <2>2, <2>3 DEF Sound
<1> QED BY <1>1, <1>2

LEMMA PruneKeeps ==
  ASSUME NEW s \in Schedules
  PROVE  /\ Prune(s) \in Schedules /\ Prune(s).v = s.v /\ Prune(s).meals = s.meals
         /\ Prune(s).deferred = {at \in s.deferred : at > now}
BY DEF Prune, Schedules

\* What is sound depends on the stamp and the meals alone.
LEMMA SoundMeals ==
  ASSUME NEW s \in Schedules, NEW r \in Schedules, s.v = r.v, s.meals = r.meals
  PROVE  Sound(s) <=> Sound(r)
<1>1. MigrateSchedule(s).meals = MigrateSchedule(r).meals
  BY DEF MigrateSchedule, Schedules
<1> QED BY <1>1 DEF Sound

LEMMA StampedSound ==
  ASSUME NEW s \in Schedules, s.v = 2
  PROVE  Sound(s) <=> \A m \in s.meals : m.t = m.want
BY MigrateKeeps DEF Sound

\* Today and the end of tomorrow.
LEMMA TodayIs ==
  ASSUME now \in 0..Horizon
  PROVE  /\ Today \in Nat /\ Today =< Horizon \div Day
         /\ Midnight(Today) =< now /\ now + Day < Midnight(Today + 2)
         /\ Midnight(Today + 2) \in Nat /\ Midnight(Today + 2) =< now + 2 * Day
<1> DEFINE q == now \div Day
           h == Horizon \div Day
<1>0. now \in Nat /\ now =< Horizon
  BY Positive
<1>1. q \in Nat /\ now % Day \in 0..(Day - 1) /\ now = q * Day + (now % Day)
  BY <1>0, Positive, Quotient
<1>2. h \in Nat /\ Horizon % Day \in 0..(Day - 1) /\ Horizon = h * Day + (Horizon % Day)
  BY Positive, Quotient
<1> HIDE DEF q, h
<1>3. q =< h
  <2> SUFFICES ASSUME h < q PROVE FALSE
    BY <1>1, <1>2
  <2>1. h * Day + Day =< q * Day
    BY <1>1, <1>2, Positive, Grows
  <2>2. h * Day \in Nat /\ q * Day \in Nat
    BY <1>1, <1>2, Positive
  <2> QED BY <1>0, <1>1, <1>2, <2>1, <2>2, Positive
<1>4. (q + 2) * Day = q * Day + 2 * Day /\ q * Day \in Nat
  BY <1>1, Positive
<1> QED BY <1>0, <1>1, <1>3, <1>4, Positive DEF Today, Midnight, q, h

\* A moment of a schedule before the end of tomorrow falls on today or tomorrow.
LEMMA TwoDays ==
  ASSUME now \in 0..Horizon, NEW d \in Nat, NEW t \in 0..(Day - 1),
         now < Midnight(d) + t, Midnight(d) + t < Midnight(Today + 2)
  PROVE  d \in {Today, Today + 1}
<1>1. Today \in Nat /\ now \in Nat /\ now % Day \in 0..(Day - 1)
       /\ now = Today * Day + (now % Day)
  <2> DEFINE q == now \div Day
  <2>1. now \in Nat
    BY Positive
  <2>2. q \in Nat /\ now % Day \in 0..(Day - 1) /\ now = q * Day + (now % Day)
    BY <2>1, Positive, Quotient
  <2> QED BY <2>1, <2>2 DEF Today
<1>2. ~(d < Today)
  <2> SUFFICES ASSUME d < Today PROVE FALSE
    OBVIOUS
  <2>1. d * Day + Day =< Today * Day
    BY <1>1, Positive, Grows
  <2>2. d * Day \in Nat /\ Today * Day \in Nat
    BY <1>1, Positive
  <2> QED BY <1>1, <2>1, <2>2, Positive DEF Midnight
<1>3. ~(d > Today + 1)
  <2> SUFFICES ASSUME d > Today + 1 PROVE FALSE
    OBVIOUS
  <2>1. CASE d = Today + 2
    BY <2>1, MomentOfDay, Positive, <1>1 DEF Midnight
  <2>2. CASE d > Today + 2
    <3>1. (Today + 2) * Day + Day =< d * Day
      BY <2>2, <1>1, Positive, Grows
    <3>2. d * Day \in Nat /\ (Today + 2) * Day \in Nat
      BY <1>1, Positive
    <3> QED BY <3>1, <3>2, Positive DEF Midnight
  <2> QED BY <2>1, <2>2, <1>1
<1> QED BY <1>1, <1>2, <1>3

LEMMA WeeklyIs ==
  ASSUME now \in 0..Horizon, NEW s \in Schedules
  PROVE  /\ Weekly(s) \subseteq Entries
         /\ \A at \in Int : now < at /\ at < Midnight(Today + 2) =>
              ((\E e \in Weekly(s) : e.at = at) <=>
               \E d \in 0..(Horizon \div Day + 2) : \E m \in s.meals :
                 d % Week \in m.days /\ at = Midnight(d) + m.t)
<1>1. \A m \in s.meals : m.t \in 0..(Day - 1) /\ m.want \in 0..(Day - 1)
  BY DEF Schedules, Meals
<1>2. Today \in Nat /\ Today =< Horizon \div Day /\ Horizon \div Day \in Nat
  BY TodayIs, Positive, Quotient
<1>3. Weekly(s) \subseteq Entries
  <2> SUFFICES ASSUME NEW d \in {Today, Today + 1}, NEW m \in s.meals
               PROVE  Entry("s", Midnight(d) + m.t, m.want) \in Entries
    BY DEF Weekly, OnWeekday
  <2>1. Midnight(d) + m.t \in Nat
    BY <1>1, <1>2, MomentOfDay
  <2> QED BY <2>1, <1>1 DEF Entry, Entries
<1>4. ASSUME NEW at \in Int, now < at, at < Midnight(Today + 2)
      PROVE (\E e \in Weekly(s) : e.at = at) <=>
              \E d \in 0..(Horizon \div Day + 2) : \E m \in s.meals :
                d % Week \in m.days /\ at = Midnight(d) + m.t
  <2>1. ASSUME NEW e \in Weekly(s), e.at = at
        PROVE \E d \in 0..(Horizon \div Day + 2) : \E m \in s.meals :
                d % Week \in m.days /\ at = Midnight(d) + m.t
    <3>1. PICK d \in {Today, Today + 1} : \E m \in OnWeekday(s, d) :
                 e = Entry("s", Midnight(d) + m.t, m.want)
      BY <2>1 DEF Weekly
    <3>2. d \in 0..(Horizon \div Day + 2)
      BY <1>2
    <3> QED BY <2>1, <3>1, <3>2 DEF OnWeekday, Entry
  <2>2. ASSUME NEW d \in 0..(Horizon \div Day + 2), NEW m \in s.meals,
               d % Week \in m.days, at = Midnight(d) + m.t
        PROVE \E e \in Weekly(s) : e.at = at
    <3>1. d \in {Today, Today + 1}
      BY <1>1, <1>2, <1>4, <2>2, TwoDays
    <3>2. Entry("s", Midnight(d) + m.t, m.want) \in Weekly(s)
      BY <2>2, <3>1 DEF Weekly, OnWeekday
    <3> QED BY <2>2, <3>2 DEF Entry
  <2> QED BY <2>1, <2>2
<1> QED BY <1>3, <1>4

-----------------------------------------------------------------------------
(* The answer to the feeder                                                *)

LEMMA FiresIs ==
  ASSUME NEW s, NEW at
  PROVE  at \in Fires(s) <=>
           \/ \E d \in 0..(Horizon \div Day + 2) : \E m \in s.meals :
                d % Week \in m.days /\ at = Midnight(d) + m.t
           \/ at \in s.deferred
<1> DEFINE on(d) == {meal \in s.meals : d % Week \in meal.days}
           days == 0..(Horizon \div Day + 2)
           moments == UNION {{Midnight(d) + m.t : m \in on(d)} : d \in days}
<1>1. at \in moments <=> \E d \in days : \E m \in on(d) : at = Midnight(d) + m.t
  <2> HIDE DEF days, on
  <2> QED OBVIOUS
<1>2. Fires(s) = moments \cup s.deferred
  BY DEF Fires
<1>3. \A d \in days : (\E m \in on(d) : at = Midnight(d) + m.t) <=>
        \E m \in s.meals : d % Week \in m.days /\ at = Midnight(d) + m.t
  OBVIOUS
<1> HIDE DEF moments
<1> QED BY <1>1, <1>2, <1>3

LEMMA FiresAreMoments ==
  ASSUME NEW s \in Schedules
  PROVE  Fires(s) \subseteq Nat
<1> SUFFICES ASSUME NEW at \in Fires(s) PROVE at \in Nat
  OBVIOUS
<1>1. CASE at \in s.deferred
  BY <1>1 DEF Schedules
<1>2. ASSUME NEW d \in 0..(Horizon \div Day + 2), NEW m \in s.meals, at = Midnight(d) + m.t
      PROVE  at \in Nat
  <2>1. m.t \in 0..(Day - 1)
    BY DEF Schedules, Meals
  <2>2. Horizon \div Day \in Nat
    BY Positive, Quotient
  <2>3. d \in Nat
    BY <2>2
  <2> QED BY <1>2, <2>1, <2>3, MomentOfDay
<1> QED BY <1>1, <1>2, FiresIs

\* Before the end of tomorrow the feeds listed are those the schedule asks for.
LEMMA LatestIs ==
  ASSUME now \in 0..Horizon, NEW s \in Schedules
  PROVE  /\ BuildLatest(s) \subseteq Entries
         /\ \A e \in BuildLatest(s) : now < e.at /\ e.at < Midnight(Today + 2)
         /\ \A at \in Int : now < at /\ at < Midnight(Today + 2) =>
              ((\E e \in BuildLatest(s) : e.at = at) <=> at \in Fires(Prune(s)))
<1> DEFINE cutoff == Midnight(Today + 2)
           kept == {at \in s.deferred : at > now}
           oneoff == {Entry("d", at, at % Day) : at \in {x \in kept : x < cutoff}}
           near == {e \in Weekly(s) : now < e.at /\ e.at < cutoff}
<1>1. Prune(s).deferred = kept /\ Prune(s).meals = s.meals
  BY PruneKeeps
<1>2. BuildLatest(s) = near \cup oneoff
  BY <1>1 DEF BuildLatest
<1>3. ASSUME NEW e \in oneoff
      PROVE e \in Entries /\ now < e.at /\ e.at < cutoff /\ e.at \in kept
  <2>1. PICK at \in kept : at < cutoff /\ e = Entry("d", at, at % Day)
    OBVIOUS
  <2>2. at \in Nat /\ now < at
    BY Positive DEF Schedules
  <2>3. at % Day \in 0..(Day - 1)
    BY <2>2, Positive, Quotient
  <2> QED BY <2>1, <2>2, <2>3 DEF Entry, Entries
<1>4. near \subseteq Entries
  BY WeeklyIs
<1>5. ASSUME NEW at \in Int, now < at, at < cutoff
      PROVE (\E e \in near \cup oneoff : e.at = at) <=> at \in Fires(Prune(s))
  <2>1. (\E e \in near : e.at = at) <=>
          \E d \in 0..(Horizon \div Day + 2) : \E m \in s.meals :
            d % Week \in m.days /\ at = Midnight(d) + m.t
    BY <1>5, WeeklyIs
  <2>2. (\E e \in oneoff : e.at = at) <=> at \in kept
    <3>1. at \in kept => Entry("d", at, at % Day) \in oneoff
      BY <1>5
    <3> QED BY <3>1, <1>3 DEF Entry
  <2>3. at \in Fires(Prune(s)) <=>
          \/ \E d \in 0..(Horizon \div Day + 2) : \E m \in s.meals :
               d % Week \in m.days /\ at = Midnight(d) + m.t
          \/ at \in kept
    BY <1>1, FiresIs
  <2> HIDE DEF near, oneoff, kept
  <2> QED BY <2>1, <2>2, <2>3
<1>6. \A e \in near : now < e.at /\ e.at < cutoff
  OBVIOUS
<1> HIDE DEF near, oneoff
<1> QED BY <1>2, <1>3, <1>4, <1>5, <1>6

\* The last of the feeds listed is one of them, and it is before the cutoff.
LEMMA NextTickIs ==
  ASSUME NEW latest \in SUBSET Entries, latest # {}, NEW cutoff \in Nat, now \in Nat,
         \A e \in latest : now < e.at /\ e.at < cutoff
  PROVE  \E e \in latest : /\ \A f \in latest : f.at =< e.at
                           /\ now + ComputeNextTick(latest) = e.at
<1> DEFINE left == {cutoff - e.at : e \in latest}
<1>1. \A e \in latest : e.at \in Nat
  BY DEF Entries
<1>2. left \subseteq Nat /\ left # {}
  BY <1>1
<1>3. PICK n \in left : \A k \in left : n =< k
  <2> HIDE DEF left
  <2> QED BY <1>2, LeastNat
<1>4. PICK last \in latest : n = cutoff - last.at
  BY <1>3
<1>5. \A f \in latest : f.at =< last.at
  <2>1. \A f \in latest : cutoff - f.at \in left
    OBVIOUS
  <2> HIDE DEF left
  <2> QED BY <2>1, <1>1, <1>3, <1>4
<1> DEFINE chosen == CHOOSE e \in latest : \A f \in latest : f.at <= e.at
<1>6. chosen \in latest /\ \A f \in latest : f.at =< chosen.at
  BY <1>5
<1>7. ComputeNextTick(latest) = chosen.at - now
  BY DEF ComputeNextTick
<1> HIDE DEF chosen
<1>8. now + ComputeNextTick(latest) = chosen.at
  BY <1>1, <1>6, <1>7
<1> QED BY <1>6, <1>8

LEMMA LatestOnTime ==
  ASSUME now \in 0..Horizon, NEW s \in Schedules, \A m \in s.meals : m.t = m.want
  PROVE  \A e \in BuildLatest(s) : e.at % Day = e.want
<1>1. ASSUME NEW e \in Weekly(s) PROVE e.at % Day = e.want
  <2>1. PICK d \in {Today, Today + 1} : \E m \in OnWeekday(s, d) :
               e = Entry("s", Midnight(d) + m.t, m.want)
    BY <1>1 DEF Weekly
  <2>2. PICK m \in s.meals : e = Entry("s", Midnight(d) + m.t, m.want)
    BY <2>1 DEF OnWeekday
  <2>3. d \in Nat /\ m.t \in 0..(Day - 1)
    BY TodayIs DEF Schedules, Meals
  <2>4. (Midnight(d) + m.t) % Day = m.t
    BY <2>3, MomentOfDay
  <2> QED BY <2>2, <2>4 DEF Entry
<1>2. ASSUME NEW at PROVE Entry("d", at, at % Day).at % Day = Entry("d", at, at % Day).want
  BY DEF Entry
<1> QED BY <1>1, <1>2 DEF BuildLatest

-----------------------------------------------------------------------------
(* The invariant                                                           *)

Timely ==
  /\ fetched.v = 2
  /\ intact => /\ Sound(feed) /\ Sound(copy) /\ Sound(fetched)
               /\ \A e \in plan : e.at % Day = e.want

FeedInv == FeedTypeOK /\ PlanComplete /\ Timely

LEMMA FeedStarts == FeedInit => FeedInv
<1> SUFFICES ASSUME FeedInit PROVE FeedInv
  OBVIOUS
<1>1. NoFeed \in Schedules /\ Sound(NoFeed) /\ NoFeed.v = 2 /\ NoFeed.meals = {}
  BY DEF NoFeed, Schedule, Schedules, Sound, MigrateSchedule
<1>2. feed \in Schedules /\ Sound(feed)
  <2>1. CASE feed = NoFeed
    BY <2>1, <1>1
  <2>2. ASSUME NEW t \in 0..(Day \div Minute - 1),
               feed = Schedule(0, {Meal(Weekdays, t, t * Minute)}, {})
        PROVE  feed \in Schedules /\ Sound(feed)
    <3> DEFINE m == Meal(Weekdays, t, t * Minute)
    <3>1. Day \div Minute \in Nat
      BY Positive, Quotient
    <3>2. t \in Nat /\ t < Day \div Minute /\ t * Minute \in 0..(Day - 1)
      BY <3>1, MinutesInDay
    <3>3. t =< t * Minute
      BY <3>2, Positive
    <3>4. t \in 0..(Day - 1)
      BY <3>2, <3>3, Positive
    <3>5. m \in Meals /\ InMinutes(m) /\ m.t = t /\ m.want = t * Minute
      BY <3>2, <3>4 DEF Meal, Meals, InMinutes
    <3>6. feed \in Schedules /\ feed.v = 0 /\ feed.meals = {m}
      BY <2>2, <3>5 DEF Schedule, Schedules
    <3>7. MigrateSchedule(feed).meals = {[meal EXCEPT !.t = @ * Minute] : meal \in feed.meals}
      BY <3>5, <3>6 DEF MigrateSchedule, Schedules
    <3>8. \A meal \in feed.meals : [meal EXCEPT !.t = @ * Minute].t = t * Minute
                                   /\ [meal EXCEPT !.t = @ * Minute].want = t * Minute
      BY <3>5, <3>6 DEF Meals
    <3> HIDE DEF m
    <3> QED BY <3>6, <3>7, <3>8 DEF Sound
  <2> QED BY <2>1, <2>2 DEF FeedInit
<1>3. FeedTypeOK
  BY <1>1, <1>2, Positive DEF FeedInit, FeedTypeOK
<1>4. PlanComplete
  <2>1. fetched \in Schedules /\ Fires(fetched) \subseteq Nat
    BY <1>1, FiresAreMoments DEF FeedInit
  <2>2. now = 0 /\ next = 0 /\ plan = {}
    BY DEF FeedInit
  <2> QED BY <2>1, <2>2 DEF PlanComplete
<1>5. Timely
  BY <1>1, <1>2 DEF FeedInit, Timely
<1> QED BY <1>3, <1>4, <1>5 DEF FeedInv

\* dev_feed_get: the plan is the schedule's, up to the moment the feeder asks again.
LEMMA FeedGetKeeps ==
  ASSUME FeedInv, FeedGet
  PROVE  FeedInv'
<1> DEFINE migrated == MigrateSchedule(feed)
           latest == BuildLatest(migrated)
           cutoff == Midnight(Today + 2)
<1>1. /\ now \in 0..Horizon /\ feed \in Schedules /\ copy \in Schedules
      /\ edits \in 0..MaxEdits /\ command \in {"none", "queued", "asked"} /\ intact \in BOOLEAN
  BY DEF FeedInv, FeedTypeOK
<1>2. /\ feed' = Prune(migrated) /\ fetched' = Prune(migrated) /\ plan' = latest
      /\ next' = now + ComputeNextTick(latest)
      /\ now' = now /\ copy' = copy /\ intact' = intact /\ edits' = edits
      /\ command' \in {"none", "queued", "asked"}
  BY <1>1 DEF FeedGet
<1>3. migrated \in Schedules /\ migrated.v = 2
  BY <1>1, MigrateKeeps
<1> HIDE DEF migrated
<1>4. Prune(migrated) \in Schedules /\ Prune(migrated).v = 2 /\ Prune(migrated).meals = migrated.meals
  BY <1>3, PruneKeeps
<1>5. /\ now \in Nat /\ cutoff \in Nat /\ now + Day < cutoff /\ cutoff =< now + 2 * Day
  BY <1>1, TodayIs, Positive
<1>6. /\ latest \subseteq Entries
      /\ \A e \in latest : now < e.at /\ e.at < cutoff
      /\ \A at \in Int : now < at /\ at < cutoff =>
           ((\E e \in latest : e.at = at) <=> at \in Fires(Prune(migrated)))
  BY <1>1, <1>3, LatestIs
<1> HIDE DEF latest, cutoff
<1>7. \A e \in latest : e.at \in Nat
  BY <1>6 DEF Entries
<1>8. /\ next' \in Nat /\ next' < cutoff
      /\ \A e \in latest : e.at =< next'
  <2>1. CASE latest = {}
    BY <2>1, <1>2, <1>5, Positive DEF ComputeNextTick
  <2>2. CASE latest # {}
    <3>1. PICK e \in latest : (\A f \in latest : f.at =< e.at) /\ now + ComputeNextTick(latest) = e.at
      BY <2>2, <1>5, <1>6, NextTickIs
    <3> QED BY <3>1, <1>2, <1>6, <1>7
  <2> QED BY <2>1, <2>2
<1>9. Fires(Prune(migrated)) \subseteq Nat
  BY <1>4, FiresAreMoments
<1>10. FeedTypeOK'
  BY <1>1, <1>2, <1>4, <1>5, <1>6, <1>8, Positive DEF FeedTypeOK, Entries
<1>11. PlanComplete'
  <2>1. Fires(fetched)' = Fires(Prune(migrated))
    BY <1>2 DEF Fires, Midnight
  <2>2. ASSUME NEW e \in latest
        PROVE  e.at \in Fires(Prune(migrated)) /\ now < e.at /\ e.at =< next'
    BY <1>6, <1>7, <1>8
  <2>3. ASSUME NEW at \in Fires(Prune(migrated)), now < at, at =< next'
        PROVE  \E e \in latest : e.at = at
    BY <2>3, <1>5, <1>6, <1>8, <1>9
  <2>4. {e.at : e \in latest} = {at \in Fires(Prune(migrated)) : now < at /\ at =< next'}
    BY <2>2, <2>3
  <2> QED BY <2>1, <2>4, <1>2 DEF PlanComplete
<1>12. Timely'
  <2>1. fetched'.v = 2
    BY <1>2, <1>4
  <2>2. ASSUME intact
        PROVE  Sound(feed') /\ Sound(copy') /\ Sound(fetched') /\ \A e \in latest : e.at % Day = e.want
    <3>1. \A m \in migrated.meals : m.t = m.want
      BY <2>2 DEF FeedInv, Timely, Sound, migrated
    <3>2. \A e \in latest : e.at % Day = e.want
      BY <3>1, <1>1, <1>3, LatestOnTime DEF latest
    <3>3. Sound(Prune(migrated)) /\ Sound(copy)
      BY <3>1, <1>4, <2>2, StampedSound DEF FeedInv, Timely
    <3> QED BY <3>2, <3>3, <1>2
  <2>3. intact' = intact /\ plan' = latest
    BY <1>2
  <2>4. (Sound(feed)' <=> Sound(feed')) /\ (Sound(copy)' <=> Sound(copy'))
         /\ (Sound(fetched)' <=> Sound(fetched'))
    BY DEF Sound, MigrateSchedule, InMinutes
  <2> QED BY <2>1, <2>2, <2>3, <2>4 DEF Timely
<1> QED BY <1>10, <1>11, <1>12 DEF FeedInv

\* The clock: a feed whose time has come leaves the plan as its moment leaves what is to come.
LEMMA PassKeeps ==
  ASSUME FeedInv, Pass
  PROVE  FeedInv'
<1>1. /\ now' = now + 1 /\ now \in 0..Horizon /\ now < Horizon
      /\ plan' = {e \in plan : e.at > now + 1} /\ plan \subseteq Entries
      /\ UNCHANGED <<feed, copy, command, next, fetched, intact, edits>>
  BY DEF FeedInv, FeedTypeOK, Pass, Entries
<1>2. FeedTypeOK'
  BY <1>1, Positive DEF FeedInv, FeedTypeOK
<1>3. PlanComplete'
  <2>1. Fires(fetched)' = Fires(fetched) /\ next' = next
    BY <1>1 DEF Fires, Midnight
  <2>2. Fires(fetched) \subseteq Nat
    BY FiresAreMoments DEF FeedInv, FeedTypeOK
  <2>3. \A e \in plan : e.at \in Nat
    BY <1>1 DEF Entries
  <2>4. {e.at : e \in plan} = {at \in Fires(fetched) : now < at /\ at <= next}
    BY DEF FeedInv, PlanComplete
  <2>5. ASSUME NEW e \in plan, e.at > now + 1
        PROVE  e.at \in Fires(fetched) /\ now + 1 < e.at /\ e.at =< next
    BY <2>3, <2>4, <2>5, <1>1
  <2>6. ASSUME NEW at \in Fires(fetched), now + 1 < at, at =< next
        PROVE  \E e \in plan : e.at > now + 1 /\ e.at = at
    <3>1. now < at
      BY <2>2, <2>6, <1>1
    <3>2. at \in {e.at : e \in plan}
      BY <2>4, <2>6, <3>1
    <3> QED BY <3>2, <2>6, <2>2, <1>1
  <2>7. {e.at : e \in {e \in plan : e.at > now + 1}}
          = {at \in Fires(fetched) : now + 1 < at /\ at <= next}
    BY <2>5, <2>6
  <2> QED BY <1>1, <2>1, <2>7 DEF PlanComplete
<1>4. Timely'
  <2>1. (Sound(feed)' <=> Sound(feed)) /\ (Sound(copy)' <=> Sound(copy))
         /\ (Sound(fetched)' <=> Sound(fetched))
    BY <1>1 DEF Sound, MigrateSchedule, InMinutes
  <2> QED BY <1>1, <2>1 DEF FeedInv, Timely
<1> QED BY <1>2, <1>3, <1>4 DEF FeedInv

\* What the plan was made from stays, when only the stored schedule and the copy change.
LEMMA PlanStays ==
  ASSUME FeedInv, UNCHANGED <<now, plan, next, fetched>>
  PROVE  PlanComplete' /\ (Sound(fetched)' <=> Sound(fetched))
<1>1. Fires(fetched)' = Fires(fetched)
  BY DEF Fires, Midnight
<1>2. Sound(fetched)' <=> Sound(fetched)
  BY DEF Sound, MigrateSchedule, InMinutes
<1> QED BY <1>1, <1>2 DEF FeedInv, PlanComplete

LEMMA StoreKeeps ==
  ASSUME FeedInv, NEW s \in Schedules, Store(s), intact' \in BOOLEAN,
         intact' => intact /\ Sound(s)
  PROVE  FeedInv'
<1>1. /\ feed' = s /\ edits' = edits + 1 /\ edits < MaxEdits
      /\ command' \in {"asked", "queued"}
      /\ UNCHANGED <<now, copy, plan, next, fetched>>
  BY DEF Store
<1>2. FeedTypeOK'
  BY <1>1, Positive DEF FeedInv, FeedTypeOK
<1>3. (Sound(feed)' <=> Sound(s)) /\ (Sound(copy)' <=> Sound(copy))
  BY <1>1 DEF Sound, MigrateSchedule, InMinutes
<1> QED BY <1>1, <1>2, <1>3, PlanStays DEF FeedInv, Timely

\* A meal that the conversion leaves alone is written in seconds.
LEMMA SaveKeeps ==
  ASSUME FeedInv, SaveSchedule
  PROVE  FeedInv'
<1>1. PICK kept \in SUBSET copy.meals, added \in SUBSET Meals :
         SaveMeals(kept, added) /\ \A m \in added : m.t = m.want
  <2>1. PICK kept \in SUBSET copy.meals :
          \/ SaveMeals(kept, {})
          \/ \E d \in Weekdays, t \in 0..(Day - 1) : SaveMeals(kept, {Meal({d}, t, t)})
    BY DEF SaveSchedule
  <2>2. ASSUME NEW d \in Weekdays, NEW t \in 0..(Day - 1)
        PROVE  Meal({d}, t, t) \in Meals /\ Meal({d}, t, t).t = Meal({d}, t, t).want
    BY DEF Meal, Meals
  <2>3. CASE SaveMeals(kept, {})
    BY <2>3
  <2>4. ASSUME NEW d \in Weekdays, NEW t \in 0..(Day - 1), SaveMeals(kept, {Meal({d}, t, t)})
        PROVE  \E added \in SUBSET Meals : SaveMeals(kept, added) /\ \A m \in added : m.t = m.want
    <3> DEFINE one == {Meal({d}, t, t)}
    <3>1. one \in SUBSET Meals /\ \A m \in one : m.t = m.want
      BY <2>2
    <3> HIDE DEF one
    <3> QED BY <2>4, <3>1 DEF one
  <2> QED BY <2>1, <2>3, <2>4
<1> DEFINE s == Schedule(2, kept \cup added, copy.deferred)
<1>3. copy \in Schedules /\ intact \in BOOLEAN
  BY DEF FeedInv, FeedTypeOK
<1>4. s \in Schedules /\ s.v = 2 /\ s.meals = kept \cup added
  <2>1. kept \cup added \subseteq Meals /\ copy.deferred \subseteq Nat
    BY <1>1, <1>3 DEF Schedules
  <2> QED BY <2>1 DEF Schedule, Schedules
<1> HIDE DEF s
<1>5. Prune(s) \in Schedules /\ Prune(s).v = 2 /\ Prune(s).meals = kept \cup added
  BY <1>4, PruneKeeps
<1>6. ASSUME intact' PROVE intact /\ Sound(Prune(s))
  <2>0. intact /\ Sound(copy) /\ (Unmistakable(copy) \/ \A m \in kept : m.t = 0)
    BY <1>1, <1>6 DEF SaveMeals, FeedInv, Timely
  <2>1. \A m \in kept : m.t = m.want
    <3>1. CASE Unmistakable(copy)
      BY <3>1, <2>0, <1>1, <1>3, MigrateLeaves DEF Sound
    <3>2. CASE \A m \in kept : m.t = 0
      BY <3>2, <2>0, <1>1, <1>3, AtMidnight
    <3> QED BY <2>0, <3>1, <3>2
  <2> QED BY <2>0, <2>1, <1>1, <1>5, StampedSound
<1>7. intact' \in BOOLEAN
  BY <1>1, <1>3 DEF SaveMeals
<1> QED BY <1>1, <1>5, <1>6, <1>7, StoreKeeps DEF SaveMeals, s

LEMMA TextKeeps ==
  ASSUME FeedInv, TextCommand
  PROVE  FeedInv'
<1>1. PICK t \in 0..(Day - 1) :
         Store(Prune(Schedule(2, {Meal(Weekdays, t, t)}, {}))) /\ UNCHANGED intact
  BY DEF TextCommand
<1> DEFINE s == Schedule(2, {Meal(Weekdays, t, t)}, {})
<1>2. s \in Schedules /\ s.v = 2 /\ \A m \in s.meals : m.t = m.want
  BY DEF Schedule, Schedules, Meal, Meals
<1>3. Prune(s) \in Schedules /\ Sound(Prune(s))
  BY <1>2, PruneKeeps, StampedSound
<1>4. intact' = intact /\ intact' \in BOOLEAN
  BY <1>1 DEF FeedInv, FeedTypeOK
<1> QED BY <1>1, <1>3, <1>4, StoreKeeps

LEMMA DeferredKeeps ==
  ASSUME FeedInv, AddDeferred \/ DeleteDeferred
  PROVE  FeedInv'
<1>1. PICK deferred \in SUBSET Nat : Store([feed EXCEPT !.deferred = deferred]) /\ UNCHANGED intact
  <2>1. feed \in Schedules /\ now \in Nat
    BY Positive DEF FeedInv, FeedTypeOK
  <2>2. CASE AddDeferred
    <3>1. PICK at \in (now + 1)..Horizon :
            Store([feed EXCEPT !.deferred = @ \cup {at}]) /\ UNCHANGED intact
      BY <2>2 DEF AddDeferred
    <3>2. feed.deferred \cup {at} \in SUBSET Nat
      BY <2>1, Positive DEF Schedules
    <3> QED BY <3>1, <3>2
  <2>3. CASE DeleteDeferred
    <3>1. PICK at \in feed.deferred :
            Store([feed EXCEPT !.deferred = @ \ {at}]) /\ UNCHANGED intact
      BY <2>3 DEF DeleteDeferred
    <3>2. feed.deferred \ {at} \in SUBSET Nat
      BY <2>1 DEF Schedules
    <3> QED BY <3>1, <3>2
  <2> QED BY <2>2, <2>3
<1> DEFINE s == [feed EXCEPT !.deferred = deferred]
<1>2. feed \in Schedules /\ s \in Schedules /\ s.v = feed.v /\ s.meals = feed.meals
  BY DEF FeedInv, FeedTypeOK, Schedules
<1>3. intact' = intact /\ intact' \in BOOLEAN
  BY <1>1 DEF FeedInv, FeedTypeOK
<1>4. intact => Sound(s)
  BY <1>2, SoundMeals DEF FeedInv, Timely
<1> HIDE DEF s
<1> QED BY <1>1, <1>2, <1>3, <1>4, StoreKeeps DEF s

\* The feeder's post has lost the stamp, and is excused if its meals would be converted again.
LEMMA SyncKeeps ==
  ASSUME FeedInv, SyncFromDevice
  PROVE  FeedInv'
<1> DEFINE s == Schedule(0, fetched.meals, {})
<1>1. /\ feed' = s /\ edits' = edits + 1 /\ edits < MaxEdits
      /\ intact' = (intact /\ Unmistakable(s))
      /\ UNCHANGED <<now, copy, command, plan, next, fetched>>
  <2>1. Unmistakable(feed') <=> Unmistakable(s)
    BY DEF SyncFromDevice
  <2> QED BY <2>1 DEF SyncFromDevice
<1>2. fetched \in Schedules /\ s \in Schedules
  BY DEF FeedInv, FeedTypeOK, Schedule, Schedules
<1>3. ASSUME intact' PROVE intact /\ Sound(s)
  <2>1. \A m \in fetched.meals : m.t = m.want
    BY <1>1, <1>2, <1>3, StampedSound DEF FeedInv, Timely
  <2>2. MigrateSchedule(s).meals = fetched.meals
    BY <1>1, <1>2, <1>3, MigrateLeaves DEF Schedule
  <2> QED BY <1>1, <1>3, <2>1, <2>2 DEF Sound
<1>4. FeedTypeOK'
  BY <1>1, <1>2, Positive DEF FeedInv, FeedTypeOK
<1>5. (Sound(feed)' <=> Sound(feed')) /\ (Sound(copy)' <=> Sound(copy))
  BY <1>1 DEF Sound, MigrateSchedule, InMinutes
<1> HIDE DEF s
<1> QED BY <1>1, <1>3, <1>4, <1>5, PlanStays DEF FeedInv, Timely

LEMMA FeedKeeps == FeedInv /\ [FeedNext]_feedVars => FeedInv'
<1> SUFFICES ASSUME FeedInv, [FeedNext]_feedVars PROVE FeedInv'
  OBVIOUS
<1>1. CASE FeedGet
  BY <1>1, FeedGetKeeps
<1>2. CASE Pass
  BY <1>2, PassKeeps
<1>3. CASE TakeCommand
  <2>1. FeedTypeOK'
    BY <1>3 DEF TakeCommand, FeedInv, FeedTypeOK
  <2>2. (Sound(feed)' <=> Sound(feed)) /\ (Sound(copy)' <=> Sound(copy))
    BY <1>3 DEF TakeCommand, Sound, MigrateSchedule, InMinutes
  <2> QED BY <1>3, <2>1, <2>2, PlanStays DEF TakeCommand, FeedInv, Timely
<1>4. CASE OpenEditor
  <2>1. FeedTypeOK'
    BY <1>4 DEF OpenEditor, FeedInv, FeedTypeOK
  <2>2. (Sound(feed)' <=> Sound(feed)) /\ (Sound(copy)' <=> Sound(feed))
    BY <1>4 DEF OpenEditor, Sound, MigrateSchedule, InMinutes
  <2> QED BY <1>4, <2>1, <2>2, PlanStays DEF OpenEditor, FeedInv, Timely
<1>5. CASE SaveSchedule
  BY <1>5, SaveKeeps
<1>6. CASE TextCommand
  BY <1>6, TextKeeps
<1>7. CASE AddDeferred \/ DeleteDeferred
  BY <1>7, DeferredKeeps
<1>8. CASE SyncFromDevice
  BY <1>8, SyncKeeps
<1>9. CASE UNCHANGED feedVars
  <2>1. FeedTypeOK'
    BY <1>9 DEF feedVars, FeedInv, FeedTypeOK
  <2>2. (Sound(feed)' <=> Sound(feed)) /\ (Sound(copy)' <=> Sound(copy))
    BY <1>9 DEF feedVars, Sound, MigrateSchedule, InMinutes
  <2> QED BY <1>9, <2>1, <2>2, PlanStays DEF feedVars, FeedInv, Timely
<1> QED BY <1>1, <1>2, <1>3, <1>4, <1>5, <1>6, <1>7, <1>8, <1>9 DEF FeedNext

-----------------------------------------------------------------------------
(* Theorems                                                                *)

LEMMA FeedInvariant == FeedSpec => []FeedInv
BY FeedStarts, FeedKeeps, PTL DEF FeedSpec

\* Types, for a day of any length.
THEOREM FeedTypeCorrect == FeedSpec => []FeedTypeOK
<1>1. FeedInv => FeedTypeOK
  BY DEF FeedInv
<1> QED BY <1>1, FeedInvariant, PTL

\* A feeder out of reach holds every feed of the schedule it asked for until it asks again, and
\* no other: the two days of _build_latest reach beyond the tick of _compute_next_tick.
THEOREM PlanIsComplete == FeedSpec => []PlanComplete
<1>1. FeedInv => PlanComplete
  BY DEF FeedInv
<1> QED BY <1>1, FeedInvariant, PTL

\* Meals come at the time of day the user meant, whoever changed the schedule, unless an editor
\* has stamped as seconds what it loaded in minutes, or a post of the feeder has taken the stamp
\* off meals in seconds that the next conversion takes for minutes.
THEOREM MealsAreOnTime == FeedSpec => []MealsOnTime
<1>1. FeedInv => MealsOnTime
  BY DEF FeedInv, Timely, MealsOnTime
<1> QED BY <1>1, FeedInvariant, PTL

-----------------------------------------------------------------------------
(* Settings as functions                                                   *)

LEMMA PartialIs ==
  ASSUME NEW s
  PROVE  s \in PartialSettings <=>
           /\ DOMAIN s \subseteq Fields /\ s = [f \in DOMAIN s |-> s[f]]
           /\ \A f \in DOMAIN s : s[f] \in Values[f]
<1>1. ASSUME s \in PartialSettings
      PROVE  /\ DOMAIN s \subseteq Fields /\ s = [f \in DOMAIN s |-> s[f]]
             /\ \A f \in DOMAIN s : s[f] \in Values[f]
  <2>1. PICK some \in SUBSET Fields : s \in [some -> AnyValue]
    BY <1>1 DEF PartialSettings
  <2>2. \A f \in DOMAIN s : s[f] \in Values[f]
    BY <1>1 DEF PartialSettings
  <2> QED BY <2>1, <2>2
<1>2. ASSUME DOMAIN s \subseteq Fields, s = [f \in DOMAIN s |-> s[f]],
             \A f \in DOMAIN s : s[f] \in Values[f]
      PROVE  s \in PartialSettings
  <2>1. \A f \in DOMAIN s : s[f] \in AnyValue
    BY <1>2 DEF AnyValue
  <2>2. s \in [DOMAIN s -> AnyValue]
    BY <1>2, <2>1
  <2> QED BY <1>2, <2>2 DEF PartialSettings
<1> QED BY <1>1, <1>2

LEMMA FullIs ==
  ASSUME NEW s
  PROVE  s \in FullSettings <=>
           /\ s = [f \in Fields |-> s[f]]
           /\ \A f \in Fields : s[f] \in Values[f]
BY PartialIs DEF FullSettings

LEMMA OverIs ==
  ASSUME NEW new \in PartialSettings, NEW old \in PartialSettings
  PROVE  /\ Over(new, old) \in PartialSettings
         /\ DOMAIN Over(new, old) = DOMAIN new \cup DOMAIN old
         /\ \A f \in DOMAIN new : Over(new, old)[f] = new[f]
         /\ \A f \in DOMAIN old \ DOMAIN new : Over(new, old)[f] = old[f]
<1> DEFINE o == Over(new, old)
<1>1. o = [f \in DOMAIN new \cup DOMAIN old |-> IF f \in DOMAIN new THEN new[f] ELSE old[f]]
  BY DEF Over
<1>2. /\ DOMAIN o = DOMAIN new \cup DOMAIN old
      /\ \A f \in DOMAIN new : o[f] = new[f]
      /\ \A f \in DOMAIN old \ DOMAIN new : o[f] = old[f]
  BY <1>1
<1>3. DOMAIN o \subseteq Fields /\ \A f \in DOMAIN o : o[f] \in Values[f]
  BY <1>2, PartialIs
<1>4. o = [f \in DOMAIN o |-> o[f]]
  BY <1>1
<1> HIDE DEF o
<1>5. o \in PartialSettings
  BY <1>3, <1>4, PartialIs
<1> QED BY <1>2, <1>5 DEF o

LEMMA OverAll ==
  ASSUME NEW new \in PartialSettings, NEW old \in FullSettings
  PROVE  Over(new, old) \in FullSettings
BY OverIs, PartialIs DEF FullSettings

LEMMA SettingIs ==
  ASSUME NEW f \in Fields, NEW v \in Values[f]
  PROVE  Setting(f, v) \in PartialSettings /\ DOMAIN Setting(f, v) = {f} /\ Setting(f, v)[f] = v
<1> DEFINE s == Setting(f, v)
<1>1. s = [g \in {f} |-> v]
  BY DEF Setting
<1>2. DOMAIN s = {f} /\ s[f] = v /\ s = [g \in DOMAIN s |-> s[g]]
  BY <1>1
<1> HIDE DEF s
<1>3. s \in PartialSettings
  BY <1>2, PartialIs
<1> QED BY <1>2, <1>3 DEF s

LEMMA SpecialSettings ==
  /\ Nothing \in PartialSettings /\ DOMAIN Nothing = {}
  /\ DefaultSettings \in FullSettings /\ Nothing \notin FullSettings
<1>1. DOMAIN Nothing = {} /\ Nothing = [f \in DOMAIN Nothing |-> Nothing[f]]
  BY DEF Nothing
<1>2. Nothing \in PartialSettings
  BY <1>1, PartialIs
<1>3. DefaultSettings \in FullSettings
  BY FullIs DEF DefaultSettings, Fields, Values
<1>4. Nothing \notin FullSettings
  BY <1>1 DEF FullSettings, Fields
<1> QED BY <1>1, <1>2, <1>3, <1>4

LEMMA CommandSets ==
  ASSUME NEW c \in Commands
  PROVE  HandleHaCommand(c[1], c[2]) \in PartialSettings
<1> DEFINE f == c[1]
           payload == c[2]
<1>1. CASE f = "light"
  <2>1. CoerceSwitch(payload) \in Values["light"] /\ "light" \in Fields
    BY DEF CoerceSwitch, Values, Fields
  <2> QED BY <1>1, <2>1, SettingIs DEF HandleHaCommand
<1>2. CASE f = "volume"
  <2>1. CASE payload # Junk /\ WithinBounds("volume", payload)
    <3>1. payload \in Values["volume"] /\ "volume" \in Fields
      BY <2>1 DEF WithinBounds, Fields
    <3> QED BY <1>2, <2>1, <3>1, SettingIs DEF HandleHaCommand
  <2>2. CASE ~(payload # Junk /\ WithinBounds("volume", payload))
    BY <1>2, <2>2, SpecialSettings DEF HandleHaCommand
  <2> QED BY <2>1, <2>2
<1>3. CASE f = "surplusControl"
  <2>1. CASE payload = 0
    <3>1. payload \in Values["surplusControl"] /\ "surplusControl" \in Fields
      BY <2>1 DEF Values, Fields
    <3>2. payload \notin DOMAIN SURPLUS_CONTROL_TO_STANDARD
      BY <2>1 DEF SURPLUS_CONTROL_TO_STANDARD
    <3> QED BY <1>3, <2>1, <3>1, <3>2, SettingIs DEF HandleHaCommand
  <2>2. CASE payload \in {30, 60}
    <3> DEFINE standard == SURPLUS_CONTROL_TO_STANDARD[payload]
    <3>1. /\ payload \in Values["surplusControl"] /\ "surplusControl" \in Fields
          /\ "surplusStandard" \in Fields /\ Values["surplusStandard"] = 1..2 /\ payload # 0
      BY <2>2 DEF Values, Fields
    <3>2. payload \in DOMAIN SURPLUS_CONTROL_TO_STANDARD /\ standard \in 1..2
      BY <2>2 DEF SURPLUS_CONTROL_TO_STANDARD
    <3>3. Over(Setting("surplusControl", payload), Setting("surplusStandard", standard))
            \in PartialSettings
      BY <3>1, <3>2, SettingIs, OverIs
    <3>4. HandleHaCommand(f, payload) =
            Over(Setting("surplusControl", payload), Setting("surplusStandard", standard))
      BY <1>3, <3>1, <3>2 DEF HandleHaCommand
    <3> QED BY <3>3, <3>4
  <2>3. CASE payload # 0 /\ payload \notin {30, 60}
    BY <1>3, <2>3, SpecialSettings DEF HandleHaCommand, SURPLUS_CONTROL_TO_STANDARD
  <2> QED BY <2>1, <2>2, <2>3
<1>4. f \in {"light", "volume", "surplusControl"}
  BY DEF Commands
<1> QED BY <1>1, <1>2, <1>3, <1>4

-----------------------------------------------------------------------------
(* The last message that says something of a field                         *)

\* The last one of a list that says something of a field gives it this value.
SaysLast(list, f, value) ==
  \E i \in Saying(list, f) : list[i][f] = value /\ \A j \in Saying(list, f) : j =< i

LEMMA SaysAppended ==
  ASSUME NEW list \in Seq(PartialSettings), NEW set \in PartialSettings, NEW f, NEW value
  PROVE  /\ f \in DOMAIN set => SaysLast(Append(list, set), f, set[f])
         /\ f \notin DOMAIN set /\ SaysLast(list, f, value) => SaysLast(Append(list, set), f, value)
<1> DEFINE longer == Append(list, set)
           n == Len(list) + 1
<1>1. n \in Nat \ {0} /\ DOMAIN longer = 1..n /\ DOMAIN list = 1..(n - 1) /\ longer[n] = set
       /\ \A i \in 1..(n - 1) : longer[i] = list[i]
  <2>1. Len(list) \in Nat /\ DOMAIN list = 1..Len(list) /\ Len(longer) = Len(list) + 1
    OBVIOUS
  <2>2. longer \in Seq(PartialSettings)
    OBVIOUS
  <2>3. DOMAIN longer = 1..Len(longer)
    BY <2>2
  <2>4. longer[n] = set /\ \A i \in 1..Len(list) : longer[i] = list[i]
    OBVIOUS
  <2>5. n - 1 = Len(list) /\ n \in Nat \ {0}
    BY <2>1
  <2> HIDE DEF longer, n
  <2> QED BY <2>1, <2>3, <2>4, <2>5
<1> HIDE DEF longer, n
<1>2. ASSUME f \in DOMAIN set PROVE SaysLast(longer, f, set[f])
  <2>1. n \in Saying(longer, f) /\ \A j \in Saying(longer, f) : j =< n
    BY <1>1, <1>2 DEF Saying
  <2> QED BY <1>1, <2>1 DEF SaysLast
<1>3. ASSUME f \notin DOMAIN set, SaysLast(list, f, value) PROVE SaysLast(longer, f, value)
  <2>1. Saying(longer, f) = Saying(list, f)
    BY <1>1, <1>3 DEF Saying
  <2>2. \A i \in Saying(list, f) : longer[i] = list[i]
    BY <1>1 DEF Saying
  <2> QED BY <2>1, <2>2, <1>3 DEF SaysLast
<1> QED BY <1>2, <1>3 DEF longer

LEMMA SaysLater ==
  ASSUME NEW list \in Seq(PartialSettings), list # <<>>, NEW f, NEW value, SaysLast(list, f, value)
  PROVE  SaysLast(Tail(list), f, value) \/ (f \in DOMAIN Head(list) /\ Head(list)[f] = value)
<1> DEFINE rest == Tail(list)
           n == Len(list)
<1>1. n \in Nat \ {0} /\ DOMAIN list = 1..n /\ DOMAIN rest = 1..(n - 1) /\ Head(list) = list[1]
       /\ \A i \in 1..(n - 1) : rest[i] = list[i + 1]
  OBVIOUS
<1>2. PICK i \in Saying(list, f) : list[i][f] = value /\ \A j \in Saying(list, f) : j =< i
  BY DEF SaysLast
<1> HIDE DEF rest, n
<1>3. i \in 1..n /\ f \in DOMAIN list[i]
  BY <1>1, <1>2 DEF Saying
<1>4. CASE i = 1
  BY <1>1, <1>2, <1>3, <1>4
<1>5. CASE i > 1
  <2>1. i - 1 \in 1..(n - 1) /\ rest[i - 1] = list[i]
    BY <1>1, <1>3, <1>5
  <2>2. i - 1 \in Saying(rest, f)
    BY <1>1, <1>3, <2>1 DEF Saying
  <2>3. ASSUME NEW j \in Saying(rest, f) PROVE j =< i - 1
    <3>1. j \in 1..(n - 1) /\ f \in DOMAIN list[j + 1]
      BY <1>1 DEF Saying
    <3>2. j + 1 \in Saying(list, f)
      BY <1>1, <3>1 DEF Saying
    <3> QED BY <1>2, <1>3, <3>1, <3>2, <1>1
  <2>4. SaysLast(rest, f, value)
    BY <1>2, <2>1, <2>2, <2>3 DEF SaysLast
  <2> QED BY <2>4 DEF rest
<1> QED BY <1>1, <1>3, <1>4, <1>5

LEMMA LastIs ==
  ASSUME NEW list \in Seq(PartialSettings), NEW f, Saying(list, f) # {}
  PROVE  /\ Last(list, f) \in Saying(list, f)
         /\ \A j \in Saying(list, f) : j =< Last(list, f)
<1> DEFINE n == Len(list)
           left == {n - i : i \in Saying(list, f)}
<1>1. n \in Nat /\ \A i \in Saying(list, f) : i \in 1..n
  BY DEF Saying
<1> HIDE DEF n
<1>2. left \subseteq Nat /\ left # {}
  BY <1>1
<1> HIDE DEF left
<1>4. PICK k \in left : \A l \in left : k <= l
  BY <1>2, LeastNat
<1>5. PICK i \in Saying(list, f) : k = n - i
  BY <1>4 DEF left
<1>6. ASSUME NEW j \in Saying(list, f) PROVE j <= i
  <2>1. n - j \in left /\ n - j \in Nat /\ k \in Nat
    BY <1>2, <1>4 DEF left
  <2>2. ~(n - j < k)
    BY <1>4, <2>1
  <2> QED BY <1>1, <1>5, <2>1, <2>2
<1> QED BY <1>6 DEF Last

LEMMA SaysFinally ==
  ASSUME NEW list \in Seq(PartialSettings), NEW f, NEW value, SaysLast(list, f, value)
  PROVE  Saying(list, f) # {} /\ list[Last(list, f)][f] = value
<1>1. PICK i \in Saying(list, f) : list[i][f] = value /\ \A j \in Saying(list, f) : j =< i
  BY DEF SaysLast
<1>2. Last(list, f) \in Saying(list, f) /\ i =< Last(list, f) /\ Last(list, f) =< i
  BY <1>1, LastIs
<1>3. i \in Nat /\ Last(list, f) \in Nat
  BY <1>2 DEF Saying
<1> QED BY <1>1, <1>2, <1>3

LEMMA AfterAllIs ==
  ASSUME SettingsTypeOK, NEW list \in Seq(PartialSettings)
  PROVE  AfterAll(list) \in FullSettings
<1>1. ASSUME NEW f \in Fields
      PROVE  (IF Saying(list, f) = {} THEN actual[f] ELSE list[Last(list, f)][f]) \in Values[f]
  <2>1. CASE Saying(list, f) = {}
    BY <2>1, FullIs DEF SettingsTypeOK
  <2>2. CASE Saying(list, f) # {}
    <3>1. Last(list, f) \in DOMAIN list /\ f \in DOMAIN list[Last(list, f)]
      BY <2>2, LastIs DEF Saying
    <3>2. list[Last(list, f)] \in PartialSettings
      BY <3>1
    <3> QED BY <2>2, <3>1, <3>2, PartialIs
  <2> QED BY <2>1, <2>2
<1> DEFINE after == AfterAll(list)
<1>2. after = [f \in Fields |-> after[f]] /\ \A f \in Fields : after[f] \in Values[f]
  BY <1>1 DEF AfterAll
<1> HIDE DEF after
<1>3. after \in FullSettings
  BY <1>2, FullIs
<1> QED BY <1>3 DEF after

-----------------------------------------------------------------------------
(* The invariant                                                           *)

Mentioning(f) == {i \in DOMAIN posts : f \in DOMAIN posts[i]}

\* The last post on its way that has a field has it as it is on the device, until that posts it
\* again.
Posted ==
  \A f \in Fields \ unposted : \A i \in Mentioning(f) :
    (\A j \in Mentioning(f) : j =< i) => posts[i][f] = actual[f]

\* What is stored of a field and not as on the device is on its way there.
UnderWay(f) ==
  \/ settings[f] = actual[f]
  \/ SaysLast(mqtt, f, settings[f]) \/ SaysLast(waiting, f, settings[f])

\* Unless there is a doubt, that goes for every shown field no post has.
Settled ==
  \A f \in Shown \ doubtful : f \notin unposted /\ Mentioning(f) = {} => UnderWay(f)

\* Of a field that is not shown whatever is on its way has the value that is stored.
Agreed(list, f) == \A i \in Saying(list, f) : list[i][f] = settings[f]
Alone(f) ==
  /\ UnderWay(f) /\ Agreed(mqtt, f) /\ Agreed(waiting, f)
  /\ answer # Nothing => answer[f] = settings[f]
Aligned == \A f \in (Fields \ Shown) \ doubtful : Alone(f)

SettingsInv == SettingsTypeOK /\ Posted /\ Settled /\ Aligned

LEMMA SettingsStarts == SettingsInit => SettingsInv
<1> SUFFICES ASSUME SettingsInit PROVE SettingsInv
  OBVIOUS
<1>1. SettingsTypeOK
  <2>1. settings \in FullSettings /\ actual \in FullSettings /\ answer \in FullSettings \cup {Nothing}
    BY SpecialSettings, ShippedAssumption DEF SettingsInit
  <2>2. /\ mqtt = <<>> /\ waiting = <<>> /\ posts = <<>> /\ unposted = {}
        /\ doubtful \subseteq Fields
    BY DEF SettingsInit
  <2>3. writes \in 0..MaxWrites /\ changes \in 0..MaxChanges /\ pulls \in 0..MaxPulls
    BY SettingsAssumption DEF SettingsInit
  <2>4. <<>> \in Seq(PartialSettings)
    OBVIOUS
  <2> QED BY <2>1, <2>2, <2>3, <2>4 DEF SettingsTypeOK
<1>2. posts = <<>> /\ mqtt = <<>> /\ waiting = <<>> /\ answer = Nothing
      /\ \A f \in Fields \ doubtful : settings[f] = actual[f]
  BY DEF SettingsInit
<1>3. Posted
  BY <1>2 DEF Posted, Mentioning
<1>4. \A f \in Fields \ doubtful : Alone(f)
  BY <1>2 DEF Alone, UnderWay, Agreed, Saying
<1> QED BY <1>1, <1>3, <1>4 DEF SettingsInv, Settled, Aligned, Alone, Shown

LEMMA Implies == SettingsInv => SettingsAgree
<1> SUFFICES ASSUME SettingsInv, mqtt = <<>>, waiting = <<>>, answer = Nothing, posts = <<>>,
                    unposted = {}, NEW f \in Fields \ doubtful
             PROVE  settings[f] = actual[f]
  BY DEF SettingsAgree
<1>1. UnderWay(f)
  BY DEF SettingsInv, Settled, Aligned, Alone, Mentioning
<1>2. ~SaysLast(mqtt, f, settings[f]) /\ ~SaysLast(waiting, f, settings[f])
  BY DEF SaysLast, Saying
<1> QED BY <1>1, <1>2 DEF UnderWay

-----------------------------------------------------------------------------
(* The steps                                                               *)

LEMMA AgreedAppended ==
  ASSUME NEW list \in Seq(PartialSettings), NEW set \in PartialSettings, NEW f, NEW value,
         \A i \in Saying(list, f) : list[i][f] = value,
         f \in DOMAIN set => set[f] = value
  PROVE  \A i \in Saying(Append(list, set), f) : Append(list, set)[i][f] = value
<1> DEFINE longer == Append(list, set)
<1>1. /\ Len(list) \in Nat /\ DOMAIN list = 1..Len(list) /\ Len(longer) = Len(list) + 1
      /\ longer \in Seq(PartialSettings)
  OBVIOUS
<1>2. DOMAIN longer = 1..Len(longer)
  BY <1>1
<1>3. longer[Len(list) + 1] = set /\ \A i \in 1..Len(list) : longer[i] = list[i]
  OBVIOUS
<1> HIDE DEF longer
<1>4. ASSUME NEW i \in Saying(longer, f) PROVE longer[i][f] = value
  <2>1. i \in 1..(Len(list) + 1) /\ f \in DOMAIN longer[i]
    BY <1>1, <1>2 DEF Saying
  <2>2. CASE i = Len(list) + 1
    BY <1>3, <2>1, <2>2
  <2>3. CASE i # Len(list) + 1
    <3>1. i \in Saying(list, f) /\ longer[i] = list[i]
      BY <1>1, <1>3, <2>1, <2>3 DEF Saying
    <3> QED BY <3>1
  <2> QED BY <2>2, <2>3
<1> QED BY <1>4 DEF longer

LEMMA AgreedLater ==
  ASSUME NEW list \in Seq(PartialSettings), list # <<>>, NEW f, NEW value,
         \A i \in Saying(list, f) : list[i][f] = value
  PROVE  /\ \A i \in Saying(Tail(list), f) : Tail(list)[i][f] = value
         /\ f \in DOMAIN Head(list) => Head(list)[f] = value
<1> DEFINE rest == Tail(list)
           n == Len(list)
<1>1. n \in Nat \ {0} /\ DOMAIN list = 1..n /\ DOMAIN rest = 1..(n - 1) /\ Head(list) = list[1]
       /\ \A i \in 1..(n - 1) : rest[i] = list[i + 1]
  OBVIOUS
<1> HIDE DEF rest, n
<1>2. ASSUME NEW i \in Saying(rest, f) PROVE rest[i][f] = value
  <2>1. i \in 1..(n - 1) /\ f \in DOMAIN list[i + 1] /\ rest[i] = list[i + 1]
    BY <1>1 DEF Saying
  <2>2. i + 1 \in Saying(list, f)
    BY <1>1, <2>1 DEF Saying
  <2> QED BY <2>1, <2>2
<1>3. f \in DOMAIN Head(list) => Head(list)[f] = value
  BY <1>1 DEF Saying
<1> QED BY <1>2, <1>3 DEF rest

\* What stays under way when neither the messages nor what is stored of a field changes.
LEMMA UnderWayStays ==
  ASSUME NEW f, UNCHANGED <<mqtt, waiting>>, settings'[f] = settings[f], actual'[f] = actual[f]
  PROVE  /\ UnderWay(f) => UnderWay(f)'
         /\ answer' \in {answer, Nothing} /\ Alone(f) => Alone(f)'
<1>1. (SaysLast(mqtt, f, settings[f])' <=> SaysLast(mqtt, f, settings[f]))
       /\ (SaysLast(waiting, f, settings[f])' <=> SaysLast(waiting, f, settings[f]))
  BY DEF SaysLast, Saying
<1>2. UnderWay(f) => UnderWay(f)'
  BY <1>1 DEF UnderWay
<1>3. (Agreed(mqtt, f)' <=> Agreed(mqtt, f)) /\ (Agreed(waiting, f)' <=> Agreed(waiting, f))
  BY DEF Agreed, Saying
<1> QED BY <1>2, <1>3 DEF Alone

LEMMA CommandKeeps ==
  ASSUME SettingsInv, Command
  PROVE  SettingsInv'
<1>1. PICK set \in PartialSettings :
         /\ settings' = Over(set, settings)
         /\ \/ mqtt' = Append(mqtt, set) /\ UNCHANGED waiting
            \/ waiting' = Append(waiting, set) /\ UNCHANGED mqtt
         /\ doubtful' = doubtful \cup
              {f \in DOMAIN set \ Shown : Commanded(f) \/ answer # Nothing}
  BY CommandSets DEF Command
<1>2. /\ writes' = writes + 1 /\ writes < MaxWrites
      /\ UNCHANGED <<actual, answer, posts, unposted, changes, pulls>>
  BY DEF Command
<1>3. /\ SettingsTypeOK /\ settings \in PartialSettings /\ DOMAIN settings = Fields
      /\ mqtt \in Seq(PartialSettings) /\ waiting \in Seq(PartialSettings)
  BY DEF SettingsInv, SettingsTypeOK, FullSettings
<1>4. settings' \in FullSettings /\ mqtt' \in Seq(PartialSettings) /\ waiting' \in Seq(PartialSettings)
  <2>1. Append(mqtt, set) \in Seq(PartialSettings) /\ Append(waiting, set) \in Seq(PartialSettings)
    BY <1>3
  <2>2. Over(set, settings) \in FullSettings
    BY <1>3, OverAll DEF SettingsTypeOK
  <2> QED BY <1>1, <1>3, <2>1, <2>2
<1>5. SettingsTypeOK'
  <2>1. writes' \in 0..MaxWrites
    BY <1>2, <1>3, SettingsAssumption DEF SettingsTypeOK
  <2>2. doubtful' \subseteq Fields
    BY <1>1, <1>3, PartialIs DEF SettingsTypeOK
  <2> QED BY <1>2, <1>3, <1>4, <2>1, <2>2 DEF SettingsTypeOK
<1>6. Posted' /\ \A f : Mentioning(f)' = Mentioning(f)
  BY <1>2 DEF SettingsInv, Posted, Mentioning
<1>7. /\ \A f \in DOMAIN set : settings'[f] = set[f]
      /\ \A f \in Fields \ DOMAIN set : settings'[f] = settings[f]
  BY <1>1, <1>3, OverIs
<1>8. ASSUME NEW f \in DOMAIN set PROVE UnderWay(f)'
  <2>1. SaysLast(mqtt', f, set[f]) \/ SaysLast(waiting', f, set[f])
    BY <1>1, <1>3, SaysAppended
  <2> QED BY <1>7, <2>1 DEF UnderWay, SaysLast, Saying
<1>9. ASSUME NEW f \in Fields \ DOMAIN set, UnderWay(f) PROVE UnderWay(f)'
  <2>1. SaysLast(mqtt, f, settings[f]) => SaysLast(mqtt', f, settings[f])
    BY <1>1, <1>3, SaysAppended
  <2>2. SaysLast(waiting, f, settings[f]) => SaysLast(waiting', f, settings[f])
    BY <1>1, <1>3, SaysAppended
  <2>3. (SaysLast(mqtt, f, settings[f])' <=> SaysLast(mqtt', f, settings[f]))
         /\ (SaysLast(waiting, f, settings[f])' <=> SaysLast(waiting', f, settings[f]))
    BY <1>7 DEF SaysLast, Saying
  <2> QED BY <1>2, <1>7, <1>9, <2>1, <2>2, <2>3 DEF UnderWay
<1>10. Settled'
  <2> SUFFICES ASSUME NEW f \in Shown \ doubtful', f \notin unposted, Mentioning(f) = {}
               PROVE  UnderWay(f)'
    BY <1>2, <1>6 DEF Settled
  <2>1. f \in Fields \ doubtful
    BY <1>1 DEF Shown
  <2>2. UnderWay(f)
    BY <2>1 DEF SettingsInv, Settled
  <2> QED BY <1>8, <1>9, <2>1, <2>2
<1>11. Aligned'
  <2> SUFFICES ASSUME NEW f \in (Fields \ Shown) \ doubtful' PROVE Alone(f)'
    BY DEF Aligned
  <2>1. f \in Fields \ doubtful /\ Alone(f)
    BY <1>1 DEF SettingsInv, Aligned
  <2>2. UnderWay(f)'
    BY <1>8, <1>9, <2>1 DEF Alone
  <2>3. answer' # Nothing => answer'[f] = settings'[f]
    BY <1>1, <1>2, <1>7, <2>1 DEF Alone
  <2>4. /\ \A i \in Saying(mqtt, f) : mqtt[i][f] = settings'[f]
        /\ \A i \in Saying(waiting, f) : waiting[i][f] = settings'[f]
    <3>1. CASE f \in DOMAIN set
      <4>1. Saying(mqtt, f) = {} /\ Saying(waiting, f) = {}
        BY <1>1, <3>1 DEF Commanded
      <4> QED BY <4>1
    <3>2. CASE f \notin DOMAIN set
      BY <1>7, <2>1, <3>2 DEF Alone, Agreed
    <3> QED BY <3>1, <3>2
  <2>5. f \in DOMAIN set => set[f] = settings'[f]
    BY <1>7
  <2>6. /\ \A i \in Saying(mqtt', f) : mqtt'[i][f] = settings'[f]
        /\ \A i \in Saying(waiting', f) : waiting'[i][f] = settings'[f]
    BY <1>1, <1>3, <2>4, <2>5, AgreedAppended
  <2>7. Agreed(mqtt, f)' /\ Agreed(waiting, f)'
    BY <2>6 DEF Agreed, Saying
  <2> QED BY <2>2, <2>3, <2>7 DEF Alone
<1> QED BY <1>5, <1>6, <1>10, <1>11 DEF SettingsInv

\* A field that the device has not to post again after it took settings over has not changed.
LEMMA AdoptKeeps ==
  ASSUME SettingsInv, NEW new \in FullSettings, Adopt(new), UNCHANGED posts
  PROVE  /\ actual' \in FullSettings /\ unposted' \in SUBSET Fields /\ Posted'
         /\ \A f : Mentioning(f)' = Mentioning(f)
         /\ \A f \in Fields : actual'[f] = new[f]
         /\ \A f \in Fields \ unposted' :
              f \notin unposted /\ actual'[f] = actual[f] /\ new[f] = actual[f]
<1>1. actual' = new /\ unposted' = unposted \cup {f \in Fields : new[f] # actual[f]}
  BY DEF Adopt
<1>2. \A f : Mentioning(f)' = Mentioning(f)
  BY DEF Mentioning
<1>3. \A f \in Fields \ unposted' :
        f \notin unposted /\ actual'[f] = actual[f] /\ new[f] = actual[f]
  BY <1>1
<1>4. Posted'
  BY <1>2, <1>3 DEF SettingsInv, Posted
<1>5. unposted' \in SUBSET Fields
  BY <1>1 DEF SettingsInv, SettingsTypeOK
<1> QED BY <1>1, <1>2, <1>3, <1>4, <1>5

LEMMA ArriveKeeps ==
  ASSUME SettingsInv, ArriveOverMqtt
  PROVE  SettingsInv'
<1>1. /\ mqtt # <<>> /\ mqtt' = Tail(mqtt)
      /\ UNCHANGED <<settings, waiting, answer, posts, writes, changes, pulls>>
  BY DEF ArriveOverMqtt
<1>2. SettingsTypeOK /\ mqtt \in Seq(PartialSettings) /\ Head(mqtt) \in PartialSettings
       /\ mqtt' \in Seq(PartialSettings)
  BY <1>1 DEF SettingsInv, SettingsTypeOK
\* Of a field the message did not have what was said last is still to come.
<1>3. ASSUME NEW f, UnderWay(f), actual'[f] = actual[f],
             f \in DOMAIN Head(mqtt) => Head(mqtt)[f] = actual[f]
      PROVE  UnderWay(f)'
  <2>1. (SaysLast(mqtt, f, settings[f])' <=> SaysLast(mqtt', f, settings[f]))
        /\ (SaysLast(waiting, f, settings[f])' <=> SaysLast(waiting, f, settings[f]))
    BY <1>1 DEF SaysLast, Saying
  <2>2. SaysLast(mqtt, f, settings[f]) => SaysLast(mqtt', f, settings[f]) \/ settings[f] = actual[f]
    BY <1>1, <1>2, <1>3, SaysLater
  <2> QED BY <1>1, <1>3, <2>1, <2>2 DEF UnderWay
<1>4. ASSUME NEW f, Alone(f)
      PROVE  /\ Agreed(mqtt, f)' /\ Agreed(waiting, f)' /\ (answer' # Nothing => answer'[f] = settings'[f])
             /\ f \in DOMAIN Head(mqtt) => Head(mqtt)[f] = settings[f]
  <2>1. /\ \A i \in Saying(mqtt', f) : mqtt'[i][f] = settings[f]
        /\ f \in DOMAIN Head(mqtt) => Head(mqtt)[f] = settings[f]
    BY <1>1, <1>2, <1>4, AgreedLater DEF Alone, Agreed
  <2> QED BY <1>1, <1>4, <2>1 DEF Alone, Agreed, Saying
<1>5. CASE Lose(DOMAIN Head(mqtt))
  <2>1. doubtful' = doubtful \cup DOMAIN Head(mqtt) /\ UNCHANGED <<actual, unposted>>
    BY <1>5 DEF Lose
  <2>2. SettingsTypeOK'
    BY <1>1, <1>2, <2>1, PartialIs DEF SettingsTypeOK
  <2>3. Posted'
    BY <1>1, <2>1 DEF SettingsInv, Posted, Mentioning
  <2>4. Settled'
    BY <1>1, <1>3, <2>1 DEF SettingsInv, Settled, Mentioning
  <2>5. Aligned'
    BY <1>3, <1>4, <2>1 DEF SettingsInv, Aligned, Alone
  <2> QED BY <2>2, <2>3, <2>4, <2>5 DEF SettingsInv
<1>6. CASE Adopt(Over(Head(mqtt), actual)) /\ UNCHANGED doubtful
  <2> DEFINE new == Over(Head(mqtt), actual)
  <2>1. new \in FullSettings
    BY <1>2, OverAll DEF SettingsTypeOK
  <2>2. /\ \A f \in DOMAIN Head(mqtt) : new[f] = Head(mqtt)[f]
        /\ \A f \in Fields \ DOMAIN Head(mqtt) : new[f] = actual[f]
    <3>1. actual \in PartialSettings /\ DOMAIN actual = Fields
      BY <1>2 DEF SettingsTypeOK, FullSettings
    <3>2. /\ \A f \in DOMAIN Head(mqtt) : new[f] = Head(mqtt)[f]
          /\ \A f \in DOMAIN actual \ DOMAIN Head(mqtt) : new[f] = actual[f]
      BY <1>2, <3>1, OverIs
    <3> QED BY <3>1, <3>2
  <2> HIDE DEF new
  <2>3. /\ actual' \in FullSettings /\ unposted' \in SUBSET Fields /\ Posted'
        /\ \A f : Mentioning(f)' = Mentioning(f)
        /\ \A f \in Fields : actual'[f] = new[f]
        /\ \A f \in Fields \ unposted' :
             f \notin unposted /\ actual'[f] = actual[f] /\ new[f] = actual[f]
    BY <1>1, <1>6, <2>1, AdoptKeeps DEF new
  <2>4. SettingsTypeOK'
    BY <1>1, <1>2, <1>6, <2>3 DEF SettingsTypeOK
  <2>5. Settled'
    <3> SUFFICES ASSUME NEW f \in Shown \ doubtful, f \notin unposted', Mentioning(f) = {}
                 PROVE  UnderWay(f)'
      BY <1>6, <2>3 DEF Settled
    <3>1. f \in Fields /\ f \notin unposted /\ actual'[f] = actual[f] /\ new[f] = actual[f]
      BY <2>3 DEF Shown
    <3>2. UnderWay(f)
      BY <3>1 DEF SettingsInv, Settled
    <3> QED BY <1>3, <2>2, <3>1, <3>2
  <2>6. Aligned'
    <3> SUFFICES ASSUME NEW f \in (Fields \ Shown) \ doubtful PROVE Alone(f)'
      BY <1>6 DEF Aligned
    <3>1. Alone(f)
      BY DEF SettingsInv, Aligned
    <3>2. CASE f \in DOMAIN Head(mqtt)
      <4>1. actual'[f] = settings'[f]
        BY <1>1, <1>4, <2>2, <2>3, <3>1, <3>2
      <4> QED BY <1>4, <3>1, <4>1 DEF Alone, UnderWay
    <3>3. CASE f \notin DOMAIN Head(mqtt)
      <4>1. actual'[f] = actual[f]
        BY <2>2, <2>3, <3>3
      <4> QED BY <1>3, <1>4, <3>1, <3>3, <4>1 DEF Alone
    <3> QED BY <3>2, <3>3
  <2> QED BY <2>3, <2>4, <2>5, <2>6 DEF SettingsInv
<1> QED BY <1>5, <1>6 DEF ArriveOverMqtt

LEMMA HeartbeatKeeps ==
  ASSUME SettingsInv, Heartbeat
  PROVE  SettingsInv'
<1>1. /\ waiting' = <<>> /\ UNCHANGED <<settings, mqtt, answer, posts, writes, changes, pulls>>
  BY DEF Heartbeat
<1>2. SettingsTypeOK /\ waiting \in Seq(PartialSettings) /\ waiting' \in Seq(PartialSettings)
  BY <1>1 DEF SettingsInv, SettingsTypeOK
<1>3. ASSUME NEW f, UnderWay(f), actual'[f] = actual[f], ~SaysLast(waiting, f, settings[f])
      PROVE  UnderWay(f)'
  <2>1. SaysLast(mqtt, f, settings[f])' <=> SaysLast(mqtt, f, settings[f])
    BY <1>1 DEF SaysLast, Saying
  <2> QED BY <1>1, <1>3, <2>1 DEF UnderWay
<1>4. \A f : Saying(waiting, f) = {} => ~SaysLast(waiting, f, settings[f])
  BY DEF SaysLast
<1>5. ASSUME NEW f, Alone(f)
      PROVE  /\ Agreed(mqtt, f)' /\ Agreed(waiting, f)' /\ (answer' # Nothing => answer'[f] = settings'[f])
  BY <1>1, <1>5 DEF Alone, Agreed, Saying
<1>6. CASE Lose({f \in Fields : Saying(waiting, f) # {}})
  <2>1. /\ doubtful' = doubtful \cup {f \in Fields : Saying(waiting, f) # {}}
        /\ UNCHANGED <<actual, unposted>>
    BY <1>6 DEF Lose
  <2>2. SettingsTypeOK'
    BY <1>1, <1>2, <2>1 DEF SettingsTypeOK
  <2>3. Posted'
    BY <1>1, <2>1 DEF SettingsInv, Posted, Mentioning
  <2>4. Settled'
    BY <1>1, <1>3, <1>4, <2>1 DEF SettingsInv, Settled, Mentioning, Shown
  <2>5. Aligned'
    BY <1>3, <1>4, <1>5, <2>1 DEF SettingsInv, Aligned, Alone
  <2> QED BY <2>2, <2>3, <2>4, <2>5 DEF SettingsInv
<1>7. CASE Adopt(AfterAll(waiting)) /\ UNCHANGED doubtful
  <2> DEFINE new == AfterAll(waiting)
  <2>1. new \in FullSettings
    BY <1>2, AfterAllIs
  <2>2. \A f \in Fields :
          new[f] = IF Saying(waiting, f) = {} THEN actual[f] ELSE waiting[Last(waiting, f)][f]
    BY DEF AfterAll
  <2> HIDE DEF new
  <2>3. /\ actual' \in FullSettings /\ unposted' \in SUBSET Fields /\ Posted'
        /\ \A f : Mentioning(f)' = Mentioning(f)
        /\ \A f \in Fields : actual'[f] = new[f]
        /\ \A f \in Fields \ unposted' :
             f \notin unposted /\ actual'[f] = actual[f] /\ new[f] = actual[f]
    BY <1>1, <1>7, <2>1, AdoptKeeps DEF new
  <2>4. SettingsTypeOK'
    BY <1>1, <1>2, <1>7, <2>3 DEF SettingsTypeOK
  <2>5. Settled'
    <3> SUFFICES ASSUME NEW f \in Shown \ doubtful, f \notin unposted', Mentioning(f) = {}
                 PROVE  UnderWay(f)'
      BY <1>7, <2>3 DEF Settled
    <3>1. f \in Fields /\ f \notin unposted /\ actual'[f] = actual[f] /\ new[f] = actual[f]
      BY <2>3 DEF Shown
    <3>2. UnderWay(f)
      BY <3>1 DEF SettingsInv, Settled
    <3>3. CASE SaysLast(waiting, f, settings[f])
      <4>1. settings[f] = actual[f]
        BY <1>2, <2>2, <3>1, <3>3, SaysFinally
      <4> QED BY <1>1, <3>1, <4>1 DEF UnderWay
    <3> QED BY <1>3, <3>1, <3>2, <3>3
  <2>6. Aligned'
    <3> SUFFICES ASSUME NEW f \in (Fields \ Shown) \ doubtful PROVE Alone(f)'
      BY <1>7 DEF Aligned
    <3>1. Alone(f)
      BY DEF SettingsInv, Aligned
    <3>2. CASE Saying(waiting, f) # {}
      <4>1. Last(waiting, f) \in Saying(waiting, f)
        BY <1>2, <3>2, LastIs
      <4>2. actual'[f] = settings'[f]
        BY <1>1, <2>2, <2>3, <3>1, <3>2, <4>1 DEF Alone, Agreed
      <4> QED BY <1>5, <3>1, <4>2 DEF Alone, UnderWay
    <3>3. CASE Saying(waiting, f) = {}
      <4>1. actual'[f] = actual[f]
        BY <2>2, <2>3, <3>3
      <4> QED BY <1>3, <1>4, <1>5, <3>1, <3>3, <4>1 DEF Alone
    <3> QED BY <3>2, <3>3
  <2> QED BY <2>3, <2>4, <2>5, <2>6 DEF SettingsInv
<1> QED BY <1>6, <1>7 DEF Heartbeat

LEMMA DeviceChangesKeeps ==
  ASSUME SettingsInv, DeviceChanges
  PROVE  SettingsInv'
<1>1. /\ changes' = changes + 1 /\ changes < MaxChanges
      /\ UNCHANGED <<settings, mqtt, waiting, answer, posts, doubtful, writes, pulls>>
  BY DEF DeviceChanges
<1>2. PICK new \in FullSettings : Adopt(new) /\ \A f \in Fields \ Shown : new[f] = actual[f]
  <2>1. PICK f \in {"light", "volume"}, v \in 0..2 :
          v \in Values[f] \ {actual[f]} /\ Adopt(Over(Setting(f, v), actual))
    BY DEF DeviceChanges
  <2>2. f \in Fields /\ f \in Shown /\ Setting(f, v) \in PartialSettings /\ DOMAIN Setting(f, v) = {f}
    BY <2>1, SettingIs DEF Fields, Shown
  <2>3. Over(Setting(f, v), actual) \in FullSettings
    BY <2>2, OverAll DEF SettingsInv, SettingsTypeOK
  <2>4. \A g \in Fields \ Shown : Over(Setting(f, v), actual)[g] = actual[g]
    <3>1. actual \in PartialSettings /\ DOMAIN actual = Fields
      BY DEF SettingsInv, SettingsTypeOK, FullSettings
    <3> DEFINE set == Setting(f, v)
    <3>2. set \in PartialSettings /\ DOMAIN set = {f}
      BY <2>2
    <3> HIDE DEF set
    <3>3. \A g \in DOMAIN actual \ DOMAIN set : Over(set, actual)[g] = actual[g]
      BY <3>1, <3>2, OverIs
    <3>4. \A g \in Fields \ Shown : Over(set, actual)[g] = actual[g]
      BY <2>2, <3>1, <3>2, <3>3
    <3> QED BY <3>4 DEF set
  <2> QED BY <2>1, <2>3, <2>4
<1>3. /\ actual' \in FullSettings /\ unposted' \in SUBSET Fields /\ Posted'
      /\ \A f : Mentioning(f)' = Mentioning(f)
      /\ \A f \in Fields : actual'[f] = new[f]
      /\ \A f \in Fields \ unposted' : f \notin unposted /\ actual'[f] = actual[f]
  BY <1>1, <1>2, AdoptKeeps
<1>4. SettingsTypeOK'
  <2>1. changes' \in 0..MaxChanges
    BY <1>1, SettingsAssumption DEF SettingsInv, SettingsTypeOK
  <2> QED BY <1>1, <1>3, <2>1 DEF SettingsInv, SettingsTypeOK
<1>5. Settled'
  <2> SUFFICES ASSUME NEW f \in Shown \ doubtful, f \notin unposted', Mentioning(f) = {}
               PROVE  UnderWay(f)'
    BY <1>1, <1>3 DEF Settled
  <2>1. f \notin unposted /\ actual'[f] = actual[f]
    BY <1>3 DEF Shown
  <2>2. UnderWay(f)
    BY <2>1 DEF SettingsInv, Settled
  <2> QED BY <1>1, <2>1, <2>2, UnderWayStays
<1>6. Aligned'
  BY <1>1, <1>2, <1>3, UnderWayStays DEF SettingsInv, Aligned
<1> QED BY <1>3, <1>4, <1>5, <1>6 DEF SettingsInv

LEMMA PostKeeps ==
  ASSUME SettingsInv, Post
  PROVE  SettingsInv'
<1>1. PICK sent \in {unposted, Fields} : posts' = Append(posts, [f \in sent |-> actual[f]])
  BY DEF Post
<1>2. /\ unposted' = {}
      /\ UNCHANGED <<settings, actual, mqtt, waiting, answer, doubtful, writes, changes, pulls>>
  BY DEF Post
<1> DEFINE set == [f \in sent |-> actual[f]]
           n == Len(posts) + 1
<1>3. SettingsTypeOK /\ posts \in Seq(PartialSettings)
  BY DEF SettingsInv, SettingsTypeOK
<1>4. sent \subseteq Fields /\ unposted \subseteq sent
  BY <1>3 DEF SettingsTypeOK
<1>5. set \in PartialSettings /\ DOMAIN set = sent /\ \A f \in sent : set[f] = actual[f]
  <2>1. DOMAIN set = sent /\ (\A f \in sent : set[f] = actual[f]) /\ set = [f \in DOMAIN set |-> set[f]]
    OBVIOUS
  <2>2. \A f \in sent : actual[f] \in Values[f]
    BY <1>3, <1>4, FullIs DEF SettingsTypeOK
  <2> HIDE DEF set
  <2>3. set \in PartialSettings
    BY <1>4, <2>1, <2>2, PartialIs
  <2> QED BY <2>1, <2>3
<1>6. posts' = Append(posts, set)
  BY <1>1
<1> HIDE DEF set
<1>7. posts' \in Seq(PartialSettings)
  BY <1>3, <1>5, <1>6
<1>8. n \in Nat \ {0} /\ DOMAIN posts' = 1..n /\ DOMAIN posts = 1..(n - 1) /\ posts'[n] = set
       /\ \A i \in 1..(n - 1) : posts'[i] = posts[i]
  <2>1. Len(posts) \in Nat /\ DOMAIN posts = 1..Len(posts) /\ Len(posts') = Len(posts) + 1
    BY <1>3, <1>5, <1>6
  <2>2. DOMAIN posts' = 1..Len(posts')
    BY <1>7
  <2>3. posts'[n] = set /\ \A i \in 1..Len(posts) : posts'[i] = posts[i]
    BY <1>3, <1>5, <1>6
  <2> QED BY <2>1, <2>2, <2>3
<1> HIDE DEF n
<1>9. SettingsTypeOK'
  BY <1>2, <1>3, <1>7 DEF SettingsTypeOK
<1>10. \A f : Mentioning(f)' = IF f \in sent THEN Mentioning(f) \cup {n} ELSE Mentioning(f)
  BY <1>5, <1>8 DEF Mentioning
<1>11. \A f : Mentioning(f) \subseteq 1..(n - 1)
  BY <1>8 DEF Mentioning
<1>12. Posted'
  <2> SUFFICES ASSUME NEW f \in Fields, NEW i \in Mentioning(f)', \A j \in Mentioning(f)' : j =< i
               PROVE  posts'[i][f] = actual[f]
    BY <1>2 DEF Posted
  <2>1. CASE f \in sent
    <3>1. n \in Mentioning(f)' /\ n =< i
      BY <2>1, <1>10
    <3>2. i \in 1..n
      BY <1>8 DEF Mentioning
    <3>3. i = n
      BY <1>8, <3>1, <3>2
    <3> QED BY <2>1, <3>3, <1>5, <1>8
  <2>2. CASE f \notin sent
    <3>1. i \in Mentioning(f) /\ (\A j \in Mentioning(f) : j =< i) /\ posts'[i] = posts[i]
      BY <2>2, <1>8, <1>10, <1>11
    <3> QED BY <2>2, <3>1, <1>4 DEF SettingsInv, Posted
  <2> QED BY <2>1, <2>2
<1>13. Settled'
  <2> SUFFICES ASSUME NEW f \in Shown \ doubtful, Mentioning(f)' = {}
               PROVE  UnderWay(f)'
    BY <1>2 DEF Settled
  <2>1. f \notin sent /\ Mentioning(f) = {}
    BY <1>10
  <2>2. UnderWay(f)
    BY <2>1, <1>4 DEF SettingsInv, Settled
  <2> QED BY <1>2, <2>2, UnderWayStays
<1>14. Aligned'
  BY <1>2, UnderWayStays DEF SettingsInv, Aligned
<1> QED BY <1>9, <1>12, <1>13, <1>14 DEF SettingsInv

LEMMA HandledKeeps ==
  ASSUME SettingsInv, PostHandled
  PROVE  SettingsInv'
<1> DEFINE n == Len(posts)
           set == Head(posts)
<1>1. /\ posts # <<>> /\ posts' = Tail(posts)
      /\ UNCHANGED <<actual, mqtt, waiting, answer, unposted, writes, changes, pulls>>
  BY DEF PostHandled
<1>2. SettingsTypeOK /\ posts \in Seq(PartialSettings)
  BY DEF SettingsInv, SettingsTypeOK
<1>3. /\ n \in Nat \ {0} /\ DOMAIN posts = 1..n /\ DOMAIN posts' = 1..(n - 1)
      /\ set = posts[1] /\ \A i \in 1..(n - 1) : posts'[i] = posts[i + 1]
  BY <1>1, <1>2
<1>4. posts' \in Seq(PartialSettings) /\ set \in PartialSettings
  BY <1>1, <1>2
<1> HIDE DEF n, set
<1>5. ASSUME NEW f, NEW i \in Mentioning(f)'
      PROVE  i \in 1..(n - 1) /\ i + 1 \in Mentioning(f) /\ posts'[i] = posts[i + 1]
  <2>1. i \in 1..(n - 1) /\ f \in DOMAIN posts'[i]
    BY <1>3 DEF Mentioning
  <2> QED BY <2>1, <1>3 DEF Mentioning
<1>6. ASSUME NEW f, NEW i \in Mentioning(f)
      PROVE  (i = 1 /\ f \in DOMAIN set) \/ (i > 1 /\ i \in 1..n /\ i - 1 \in Mentioning(f)')
  <2>1. i \in 1..n /\ f \in DOMAIN posts[i]
    BY <1>3 DEF Mentioning
  <2>2. CASE i = 1
    BY <2>1, <2>2, <1>3
  <2>3. CASE i # 1
    <3>1. i - 1 \in 1..(n - 1) /\ posts'[i - 1] = posts[i]
      BY <2>1, <2>3, <1>3
    <3> QED BY <2>1, <2>3, <3>1, <1>3 DEF Mentioning
  <2> QED BY <2>2, <2>3
<1>7. Posted'
  <2> SUFFICES ASSUME NEW f \in Fields \ unposted, NEW i \in Mentioning(f)',
                      \A j \in Mentioning(f)' : j =< i
               PROVE  posts'[i][f] = actual[f]
    BY <1>1 DEF Posted
  <2>1. i \in 1..(n - 1) /\ i + 1 \in Mentioning(f) /\ posts'[i] = posts[i + 1]
    BY <1>5
  <2>2. ASSUME NEW j \in Mentioning(f) PROVE j =< i + 1
    <3>1. CASE j = 1
      BY <2>1, <3>1, <1>3
    <3>2. CASE j > 1 /\ j \in 1..n /\ j - 1 \in Mentioning(f)'
      <4>1. j - 1 =< i
        BY <3>2
      <4> QED BY <4>1, <3>2, <2>1, <1>3
    <3> QED BY <3>1, <3>2, <1>6
  <2> QED BY <2>1, <2>2 DEF SettingsInv, Posted
<1>8. \A f : f \notin DOMAIN set /\ Mentioning(f)' = {} => Mentioning(f) = {}
  BY <1>6
<1>9. CASE doubtful' = doubtful \cup (Shown \cap DOMAIN set) /\ UNCHANGED settings
  <2>1. SettingsTypeOK'
    BY <1>1, <1>2, <1>4, <1>9 DEF SettingsTypeOK, Shown
  <2>2. Settled'
    BY <1>1, <1>8, <1>9, UnderWayStays DEF SettingsInv, Settled
  <2>3. Aligned'
    BY <1>1, <1>9, UnderWayStays DEF SettingsInv, Aligned
  <2> QED BY <1>7, <2>1, <2>2, <2>3 DEF SettingsInv
<1>10. CASE /\ settings' = SyncSettingsFromDevice(set)
            /\ doubtful' = doubtful \ (Shown \cap DOMAIN set)
  <2>1. /\ settings' = [f \in Fields |-> settings'[f]]
        /\ \A f \in Shown \cap DOMAIN set : settings'[f] = set[f]
        /\ \A f \in Fields \ (Shown \cap DOMAIN set) : settings'[f] = settings[f]
    BY <1>10 DEF SyncSettingsFromDevice, Shown
  <2>2. settings' \in FullSettings
    <3>1. /\ \A f \in DOMAIN set : set[f] \in Values[f]
          /\ \A f \in Fields : settings[f] \in Values[f]
      BY <1>2, <1>4, PartialIs, FullIs DEF SettingsTypeOK
    <3>2. \A f \in Fields : settings'[f] \in Values[f]
      BY <2>1, <3>1
    <3> QED BY <2>1, <3>2, FullIs
  <2>3. SettingsTypeOK'
    BY <1>1, <1>2, <1>4, <1>10, <2>2 DEF SettingsTypeOK
  <2>4. Settled'
    <3> SUFFICES ASSUME NEW f \in Shown \ doubtful', f \notin unposted, Mentioning(f)' = {}
                 PROVE  UnderWay(f)'
      BY <1>1 DEF Settled
    <3>1. f \in Fields
      BY DEF Shown
    <3>2. CASE f \in DOMAIN set
      <4>1. 1 \in Mentioning(f) /\ \A j \in Mentioning(f) : j =< 1
        BY <1>3, <1>6, <3>2 DEF Mentioning
      <4>2. posts[1][f] = actual[f]
        BY <3>1, <4>1 DEF SettingsInv, Posted
      <4> QED BY <1>1, <1>3, <2>1, <3>2, <4>2 DEF UnderWay
    <3>3. CASE f \notin DOMAIN set
      <4>1. Mentioning(f) = {} /\ f \notin doubtful /\ settings'[f] = settings[f]
        BY <1>8, <1>10, <2>1, <3>1, <3>3
      <4>2. UnderWay(f)
        BY <4>1 DEF SettingsInv, Settled
      <4> QED BY <1>1, <4>1, <4>2, UnderWayStays
    <3> QED BY <3>2, <3>3
  <2>5. Aligned'
    BY <1>1, <1>10, <2>1, UnderWayStays DEF SettingsInv, Aligned
  <2> QED BY <1>7, <2>3, <2>4, <2>5 DEF SettingsInv
<1> QED BY <1>9, <1>10 DEF PostHandled, set

LEMMA InfoKeeps ==
  ASSUME SettingsInv, DeviceInfo
  PROVE  SettingsInv'
<1>1. /\ pulls < MaxPulls /\ pulls' = pulls + 1 /\ answer' = Over(settings, DefaultSettings)
      /\ UNCHANGED <<settings, actual, mqtt, waiting, posts, unposted, doubtful, writes, changes>>
  BY DEF DeviceInfo
<1>2. SettingsTypeOK
  BY DEF SettingsInv
<1>3. answer' \in FullSettings /\ \A f \in Fields : answer'[f] = settings[f]
  <2>1. /\ settings \in PartialSettings /\ DOMAIN settings = Fields
        /\ DefaultSettings \in FullSettings /\ DefaultSettings \in PartialSettings
    BY <1>2, SpecialSettings DEF SettingsTypeOK, FullSettings
  <2> QED BY <1>1, <2>1, OverAll, OverIs
<1>4. SettingsTypeOK'
  <2>1. pulls' \in 0..MaxPulls
    BY <1>1, <1>2, SettingsAssumption DEF SettingsTypeOK
  <2> QED BY <1>1, <1>2, <1>3, <2>1 DEF SettingsTypeOK
<1>5. Posted'
  BY <1>1 DEF SettingsInv, Posted, Mentioning
<1>6. Settled'
  BY <1>1, UnderWayStays DEF SettingsInv, Settled, Mentioning
<1>7. Aligned'
  <2> SUFFICES ASSUME NEW f \in (Fields \ Shown) \ doubtful PROVE Alone(f)'
    BY <1>1 DEF Aligned
  <2>1. Alone(f)
    BY DEF SettingsInv, Aligned
  <2>2. UnderWay(f)'
    BY <1>1, <2>1, UnderWayStays DEF Alone
  <2>3. Agreed(mqtt, f)' /\ Agreed(waiting, f)'
    BY <1>1, <2>1 DEF Alone, Agreed, Saying
  <2> QED BY <1>1, <1>3, <2>2, <2>3 DEF Alone
<1> QED BY <1>4, <1>5, <1>6, <1>7 DEF SettingsInv

LEMMA TakenKeeps ==
  ASSUME SettingsInv, AnswerTaken
  PROVE  SettingsInv'
<1>1. /\ answer # Nothing /\ answer' = Nothing
      /\ UNCHANGED <<settings, mqtt, waiting, posts, writes, changes, pulls>>
  BY DEF AnswerTaken
<1>2. SettingsTypeOK /\ answer \in FullSettings
  BY <1>1 DEF SettingsInv, SettingsTypeOK
<1>3. CASE Lose({})
  <2>1. UNCHANGED <<actual, unposted, doubtful>>
    BY <1>3 DEF Lose
  <2>2. SettingsTypeOK'
    BY <1>1, <1>2, <2>1 DEF SettingsTypeOK
  <2>3. Posted'
    BY <1>1, <2>1 DEF SettingsInv, Posted, Mentioning
  <2>4. Settled'
    BY <1>1, <2>1, UnderWayStays DEF SettingsInv, Settled, Mentioning
  <2>5. Aligned'
    BY <1>1, <2>1, UnderWayStays DEF SettingsInv, Aligned
  <2> QED BY <2>2, <2>3, <2>4, <2>5 DEF SettingsInv
<1>4. CASE /\ Adopt(answer)
           /\ doubtful' = {f \in doubtful : Commanded(f) \/ answer[f] # settings[f]}
  <2>1. /\ actual' \in FullSettings /\ unposted' \in SUBSET Fields /\ Posted'
        /\ \A f : Mentioning(f)' = Mentioning(f)
        /\ \A f \in Fields : actual'[f] = answer[f]
        /\ \A f \in Fields \ unposted' :
             f \notin unposted /\ actual'[f] = actual[f] /\ answer[f] = actual[f]
    BY <1>1, <1>2, <1>4, AdoptKeeps
  <2>2. SettingsTypeOK'
    BY <1>1, <1>2, <1>4, <2>1 DEF SettingsTypeOK
  <2>3. \A f \in Fields : answer[f] = settings[f] => UnderWay(f)'
    BY <1>1, <2>1 DEF UnderWay
  <2>4. Settled'
    <3> SUFFICES ASSUME NEW f \in Shown \ doubtful', f \notin unposted', Mentioning(f) = {}
                 PROVE  UnderWay(f)'
      BY <2>1 DEF Settled
    <3>1. f \in Fields /\ f \notin unposted /\ actual'[f] = actual[f]
      BY <2>1 DEF Shown
    <3>2. CASE f \in doubtful
      BY <1>4, <2>3, <3>1, <3>2
    <3>3. CASE f \notin doubtful
      <4>1. UnderWay(f)
        BY <3>1, <3>3 DEF SettingsInv, Settled
      <4> QED BY <1>1, <3>1, <4>1, UnderWayStays
    <3> QED BY <3>2, <3>3
  <2>5. Aligned'
    <3> SUFFICES ASSUME NEW f \in (Fields \ Shown) \ doubtful' PROVE Alone(f)'
      BY DEF Aligned
    <3>1. answer[f] = settings[f] /\ Agreed(mqtt, f) /\ Agreed(waiting, f)
      <4>1. CASE f \in doubtful
        BY <1>4, <4>1 DEF Commanded, Agreed
      <4>2. CASE f \notin doubtful
        BY <1>1, <4>2 DEF SettingsInv, Aligned, Alone
      <4> QED BY <4>1, <4>2
    <3>2. Agreed(mqtt, f)' /\ Agreed(waiting, f)'
      BY <1>1, <3>1 DEF Agreed, Saying
    <3> QED BY <1>1, <2>3, <3>1, <3>2 DEF Alone
  <2> QED BY <2>1, <2>2, <2>4, <2>5 DEF SettingsInv
<1> QED BY <1>3, <1>4 DEF AnswerTaken

LEMMA SettingsKeeps == SettingsInv /\ [SettingsNext]_settingsVars => SettingsInv'
<1> SUFFICES ASSUME SettingsInv, [SettingsNext]_settingsVars PROVE SettingsInv'
  OBVIOUS
<1>1. CASE Command
  BY <1>1, CommandKeeps
<1>2. CASE ArriveOverMqtt
  BY <1>2, ArriveKeeps
<1>3. CASE Heartbeat
  BY <1>3, HeartbeatKeeps
<1>4. CASE DeviceChanges
  BY <1>4, DeviceChangesKeeps
<1>5. CASE Post
  BY <1>5, PostKeeps
<1>6. CASE PostHandled
  BY <1>6, HandledKeeps
<1>7. CASE DeviceInfo
  BY <1>7, InfoKeeps
<1>8. CASE AnswerTaken
  BY <1>8, TakenKeeps
<1>9. CASE UNCHANGED settingsVars
  <2>1. SettingsTypeOK'
    BY <1>9 DEF settingsVars, SettingsInv, SettingsTypeOK
  <2>2. Posted'
    BY <1>9 DEF settingsVars, SettingsInv, Posted, Mentioning
  <2>3. Settled'
    BY <1>9, UnderWayStays DEF settingsVars, SettingsInv, Settled, Mentioning
  <2>4. Aligned'
    BY <1>9, UnderWayStays DEF settingsVars, SettingsInv, Aligned
  <2> QED BY <2>1, <2>2, <2>3, <2>4 DEF SettingsInv
<1> QED BY <1>1, <1>2, <1>3, <1>4, <1>5, <1>6, <1>7, <1>8, <1>9 DEF SettingsNext

-----------------------------------------------------------------------------
(* Theorems                                                                *)

LEMMA SettingsInvariant == SettingsSpec => []SettingsInv
BY SettingsStarts, SettingsKeeps, PTL DEF SettingsSpec

\* What is stored, sent and posted are settings with values they may have.
THEOREM SettingsTypeCorrect == SettingsSpec => []SettingsTypeOK
<1>1. SettingsInv => SettingsTypeOK
  BY DEF SettingsInv
<1> QED BY <1>1, SettingsInvariant, PTL

\* Changes made here and on the device may cross in any number and any order.  Once nothing is on
\* its way, config["settings"] is what the device does in every field an entity shows, unless it
\* was lost and not posted since, and in surplusStandard, which the add-on stores from no post,
\* unless a command of it was lost or crossed another one, and no answer of dev_device_info put
\* it right.
THEOREM SettingsDoAgree == SettingsSpec => []SettingsAgree
BY Implies, SettingsInvariant, PTL

-----------------------------------------------------------------------------
(* The timeline.  Rows have times, so a set of them has an oldest and, as   *)
(* none is newer than the clock, a newest.                                  *)
LEMMA OldestIn ==
  ASSUME rows \in [Uids -> Nat], NEW us, us \subseteq Uids, us # {}
  PROVE  Oldest(us) \in us /\ \A v \in us : rows[Oldest(us)] <= rows[v]
  <1> DEFINE T == {rows[u] : u \in us}
  <1>1. T \subseteq Nat /\ T # {} OBVIOUS
  <1> HIDE DEF T
  <1>3. PICK x \in T : \A y \in T : x <= y BY <1>1, LeastNat
  <1>2. \E u \in us : \A v \in us : rows[u] <= rows[v] BY <1>3 DEF T
  <1> QED BY <1>2 DEF Oldest

LEMMA NewestIn ==
  ASSUME rows \in [Uids -> Nat], NEW us, us \subseteq Uids, us # {},
         NEW n \in Nat, \A u \in us : rows[u] <= n
  PROVE  Newest(us) \in us /\ \A v \in us : rows[Newest(us)] >= rows[v]
  <1> DEFINE T == {n - rows[u] : u \in us}
  <1>1. T \subseteq Nat /\ T # {} OBVIOUS
  <1> HIDE DEF T
  <1>3. PICK x \in T : \A y \in T : x <= y BY <1>1, LeastNat
  <1>2. \E u \in us : \A v \in us : rows[u] >= rows[v]
    <2>1. PICK u \in us : x = n - rows[u] BY <1>3 DEF T
    <2>2. \A v \in us : n - rows[u] <= n - rows[v] BY <1>3, <2>1 DEF T
    <2> QED BY <2>2
  <1> QED BY <1>2 DEF Newest

-----------------------------------------------------------------------------
(* The passes of group_sessions().  After each of them the cards are filed: *)
(* their lines are rows of the page, no row is on two cards or twice on     *)
(* one, and each stands newer to rows of its own device.                     *)
OnPage(shown) ==
  /\ rows \in [Uids -> Nat] /\ clock \in Nat
  /\ shown \subseteq Uids /\ \A u \in shown : rows[u] <= clock

Filed(cards, shown) ==
  /\ \A c \in cards : /\ c = Card(c.kind, c.head, c.steps)
                      /\ Lines(c) \subseteq shown
                      /\ c.head \notin c.steps
                      /\ \A u \in c.steps : Dev(u) = Dev(c.head)
  /\ \A c, d \in cards : c # d => Lines(c) \cap Lines(d) = {}

(* What does not change when rows are attached to cards.                    *)
Heads(cards) == {<<c.kind, c.head>> : c \in cards}

LEMMA CardParts ==
  ASSUME NEW kind, NEW head, NEW steps
  PROVE  LET c == Card(kind, head, steps) IN
         /\ c.kind = kind /\ c.head = head /\ c.steps = steps
         /\ c = Card(c.kind, c.head, c.steps)
         /\ Lines(c) = {head} \cup steps
  BY DEF Card, Lines

LEMMA CardGrows ==
  ASSUME NEW c, c = Card(c.kind, c.head, c.steps), NEW more
  PROVE  [c EXCEPT !.steps = @ \cup more] = Card(c.kind, c.head, c.steps \cup more)
  <1>1. c \in [kind : {c.kind}, head : {c.head}, steps : {c.steps}] BY DEF Card
  <1> QED BY <1>1 DEF Card

(* Two sets of filed cards without a common row make one.                   *)
LEMMA FiledUnion ==
  ASSUME NEW shown, NEW A, NEW B, Filed(A, shown), Filed(B, shown),
         \A c \in B : Lines(c) \cap Used(A) = {}
  PROVE  Filed(A \cup B, shown)
  <1>1. \A c \in A, d \in B : Lines(c) \cap Lines(d) = {} BY DEF Used
  <1> QED BY <1>1 DEF Filed

(* Rows that are on no card may be attached to cards of their device.       *)
LEMMA FiledAttach ==
  ASSUME NEW shown, NEW cards, Filed(cards, shown),
         NEW S, S \subseteq shown \ Used(cards), NEW place \in [S -> cards],
         \A u \in S : Dev(u) = Dev(place[u].head)
  PROVE  /\ Filed(Attach(cards, place), shown)
         /\ Heads(Attach(cards, place)) = Heads(cards)
         /\ Used(cards) \subseteq Used(Attach(cards, place))
  <1> DEFINE X(c) == {u \in DOMAIN place : place[u] = c}
             G(c) == [c EXCEPT !.steps = @ \cup X(c)]
  <1>1. Attach(cards, place) = {G(c) : c \in cards} BY DEF Attach
  <1>2. \A c \in cards : /\ G(c) = Card(c.kind, c.head, c.steps \cup X(c))
                         /\ G(c).kind = c.kind /\ G(c).head = c.head
                         /\ G(c).steps = c.steps \cup X(c)
                         /\ G(c) = Card(G(c).kind, G(c).head, G(c).steps)
                         /\ Lines(G(c)) = Lines(c) \cup X(c)
    <2> SUFFICES ASSUME NEW c \in cards PROVE
          /\ G(c) = Card(c.kind, c.head, c.steps \cup X(c))
          /\ G(c).kind = c.kind /\ G(c).head = c.head
          /\ G(c).steps = c.steps \cup X(c)
          /\ G(c) = Card(G(c).kind, G(c).head, G(c).steps)
          /\ Lines(G(c)) = Lines(c) \cup X(c)
      OBVIOUS
    <2>1. c = Card(c.kind, c.head, c.steps) BY DEF Filed
    <2> HIDE DEF X
    <2>3. G(c) = Card(c.kind, c.head, c.steps \cup X(c)) BY <2>1, CardGrows
    <2>4. Lines(c) = {c.head} \cup c.steps BY DEF Lines
    <2> HIDE DEF G
    <2> QED BY <2>3, <2>4, CardParts
  <1>3. \A c \in cards : X(c) \cap Used(cards) = {} /\ X(c) \subseteq shown OBVIOUS
  <1>4. \A c, d \in cards : c # d => X(c) \cap X(d) = {} OBVIOUS
  <1>5. \A c \in cards : \A u \in X(c) : Dev(u) = Dev(c.head) OBVIOUS
  <1>6. \A c \in cards : Lines(c) \subseteq Used(cards) BY DEF Used
  <1> HIDE DEF G, X
  <1>7. Filed({G(c) : c \in cards}, shown)
    <2>1. ASSUME NEW c \in cards
          PROVE  /\ G(c) = Card(G(c).kind, G(c).head, G(c).steps)
                 /\ Lines(G(c)) \subseteq shown
                 /\ G(c).head \notin G(c).steps
                 /\ \A u \in G(c).steps : Dev(u) = Dev(G(c).head)
      <3>1. c.head \in Lines(c) BY DEF Lines
      <3>2. /\ Lines(c) \subseteq shown /\ c.head \notin c.steps
            /\ \A u \in c.steps : Dev(u) = Dev(c.head)
        BY DEF Filed
      <3>3. c.head \notin X(c) BY <1>3, <1>6, <3>1
      <3>4. \A u \in c.steps \cup X(c) : Dev(u) = Dev(c.head) BY <1>5, <3>2
      <3>5. /\ G(c) = Card(G(c).kind, G(c).head, G(c).steps) /\ G(c).head = c.head
            /\ G(c).steps = c.steps \cup X(c) /\ Lines(G(c)) = Lines(c) \cup X(c)
        BY <1>2
      <3> QED BY <1>3, <3>2, <3>3, <3>4, <3>5
    <2>2. ASSUME NEW c \in cards, NEW d \in cards, G(c) # G(d)
          PROVE  Lines(G(c)) \cap Lines(G(d)) = {}
      <3>1. c # d BY <2>2
      <3>2. Lines(c) \cap Lines(d) = {} BY <3>1 DEF Filed
      <3> QED BY <1>2, <1>3, <1>4, <1>6, <3>1, <3>2
    <2> QED BY <2>1, <2>2 DEF Filed
  <1>8. Heads({G(c) : c \in cards}) = Heads(cards) 
    <2>1. \A c \in cards : <<G(c).kind, G(c).head>> = <<c.kind, c.head>> BY <1>2
    <2> QED BY <2>1 DEF Heads
  <1>9. Used(cards) \subseteq Used({G(c) : c \in cards})
    <2>1. \A c \in cards : Lines(c) \subseteq Lines(G(c)) BY <1>2
    <2> QED BY <2>1 DEF Used
  <1> QED BY <1>1, <1>7, <1>8, <1>9

LEMMA EpisodeCard ==
  ASSUME NEW shown, OnPage(shown), NEW group, group \subseteq shown, group # {}
  PROVE  /\ CardOfEpisode(group).head \in group
         /\ CardOfEpisode(group).steps = group \ {CardOfEpisode(group).head}
         /\ CardOfEpisode(group)
              = Card(CardOfEpisode(group).kind, CardOfEpisode(group).head,
                     CardOfEpisode(group).steps)
         /\ Lines(CardOfEpisode(group)) = group
         /\ CardOfEpisode(group).kind =
              IF \E u \in group : Kind(u) = "toilet_visit" THEN "visit"
              ELSE Kind(CardOfEpisode(group).head)
  <1> DEFINE heads == group \cap Anchors
             head == IF heads # {} THEN Oldest(heads) ELSE Newest(group)
             kind == IF \E u \in group : Kind(u) = "toilet_visit" THEN "visit" ELSE Kind(head)
  <1>1. head \in group
    <2>1. CASE heads # {}
      <3>1. heads \subseteq Uids BY DEF OnPage
      <3> QED BY <2>1, <3>1, OldestIn DEF OnPage
    <2>2. CASE heads = {} BY <2>2, NewestIn DEF OnPage
    <2> QED BY <2>1, <2>2
  <1>2. CardOfEpisode(group) = Card(kind, head, group \ {head}) BY DEF CardOfEpisode
  <1> HIDE DEF head
  <1> DEFINE card == CardOfEpisode(group)
  <1>3. /\ card.kind = kind /\ card.head = head /\ card.steps = group \ {head}
        /\ card = Card(card.kind, card.head, card.steps)
        /\ Lines(card) = {head} \cup (group \ {head})
    BY <1>2, CardParts
  <1> HIDE DEF card
  <1>4. card.kind = IF \E u \in group : Kind(u) = "toilet_visit" THEN "visit" ELSE Kind(card.head)
    BY <1>3
  <1>5. /\ card.head \in group /\ card.steps = group \ {card.head}
        /\ card = Card(card.kind, card.head, card.steps) /\ Lines(card) = group
    BY <1>1, <1>3
  <1> QED BY <1>4, <1>5 DEF card

LEMMA SameDevice ==
  ASSUME NEW u \in Uids, NEW v \in Uids, Rel(u) = Rel(v), Rel(u) # None
  PROVE  Dev(u) = Dev(v)
  BY Catalogue DEF Rel, Dev

(* The groups of reports of the anchors' episodes.                          *)
LEMMA Episodes ==
  ASSUME NEW shown, OnPage(shown)
  PROVE  /\ \A g \in EpisodesOf(AnchorEvents(shown)) :
              /\ g \subseteq shown /\ g # {}
              /\ \A u, v \in g : Rel(u) = Rel(v) /\ Rel(u) # None /\ Dev(u) = Dev(v)
         /\ \A g, h \in EpisodesOf(AnchorEvents(shown)) :
              \A u \in g, v \in h : Rel(u) = Rel(v) => g = h
         /\ \A u \in AnchorEvents(shown) : Rel(u) # None =>
              \E g \in EpisodesOf(AnchorEvents(shown)) : u \in g
  <1>1. AnchorEvents(shown) \subseteq shown BY DEF AnchorEvents
  <1>2. \A u, v \in shown : Rel(u) = Rel(v) /\ Rel(u) # None => Dev(u) = Dev(v)
    BY SameDevice DEF OnPage
  <1> DEFINE A == AnchorEvents(shown)
             G(u) == {v \in A : Rel(v) = Rel(u)}
             told == {w \in A : Rel(w) # None}
  <1>3. EpisodesOf(A) = {G(u) : u \in told} BY DEF EpisodesOf
  <1>4. \A u \in told : /\ G(u) \subseteq shown /\ u \in G(u)
                        /\ \A v \in G(u) : Rel(v) = Rel(u) /\ Rel(v) # None /\ v \in shown
    BY <1>1
  <1>5. \A u, w \in told : Rel(u) = Rel(w) => G(u) = G(w) OBVIOUS
  <1>6. \A u \in A : Rel(u) # None => u \in told OBVIOUS
  <1> HIDE DEF A, G, told
  <1>7. \A g \in EpisodesOf(A) : /\ g \subseteq shown /\ g # {}
                                  /\ \A u, v \in g : Rel(u) = Rel(v) /\ Rel(u) # None
                                                     /\ Dev(u) = Dev(v)
    BY <1>2, <1>3, <1>4
  <1>8. \A g, h \in EpisodesOf(A) : \A u \in g, v \in h : Rel(u) = Rel(v) => g = h
    BY <1>3, <1>4, <1>5
  <1>9. \A u \in A : Rel(u) # None => \E g \in EpisodesOf(A) : u \in g
    BY <1>3, <1>4, <1>6
  <1> QED BY <1>7, <1>8, <1>9 DEF A

LEMMA EpisodesFiled ==
  ASSUME NEW shown, OnPage(shown)
  PROVE  Filed(CardsFromEpisodes(shown), shown)
  <1> DEFINE groups == EpisodesOf(AnchorEvents(shown))
  <1>1. CardsFromEpisodes(shown) = {CardOfEpisode(g) : g \in groups} BY DEF CardsFromEpisodes
  <1>2. \A g \in groups :
          /\ CardOfEpisode(g).head \in g
          /\ CardOfEpisode(g).steps = g \ {CardOfEpisode(g).head}
          /\ CardOfEpisode(g) = Card(CardOfEpisode(g).kind, CardOfEpisode(g).head,
                                     CardOfEpisode(g).steps)
          /\ Lines(CardOfEpisode(g)) = g
    BY EpisodeCard, Episodes
  <1>3. \A g, h \in groups : g # h => g \cap h = {} BY Episodes
  <1>4. \A g \in groups : g \subseteq shown /\ \A u, v \in g : Dev(u) = Dev(v) BY Episodes
  <1> HIDE DEF groups
  <1> QED BY <1>1, <1>2, <1>3, <1>4 DEF Filed

LEMMA LooseFiled ==
  ASSUME NEW shown, OnPage(shown)
  PROVE  /\ Filed(CardsFromLooseVisits(shown), shown)
         /\ \A c \in CardsFromLooseVisits(shown) :
              Lines(c) \cap Used(CardsFromEpisodes(shown)) = {}
  <1> DEFINE loose == {u \in AnchorEvents(shown) : Rel(u) = None /\ Kind(u) = "toilet_visit"}
  <1>1. CardsFromLooseVisits(shown) = {Card("visit", u, {}) : u \in loose}
    BY DEF CardsFromLooseVisits
  <1>2. loose \subseteq shown BY DEF AnchorEvents
  <1>3. \A u \in loose : /\ Card("visit", u, {}).head = u /\ Card("visit", u, {}).steps = {}
                         /\ Lines(Card("visit", u, {})) = {u}
                         /\ Card("visit", u, {})
                              = Card(Card("visit", u, {}).kind, Card("visit", u, {}).head,
                                     Card("visit", u, {}).steps)
    <2>1. \A u \in loose : {u} \cup {} = {u} OBVIOUS
    <2> QED BY <2>1, CardParts
  <1>4. Filed({Card("visit", u, {}) : u \in loose}, shown)
    <2> HIDE DEF loose
    <2> QED BY <1>2, <1>3 DEF Filed
  <1>5. \A u \in Used(CardsFromEpisodes(shown)) : Rel(u) # None
    <2>1. \A g \in EpisodesOf(AnchorEvents(shown)) :
            Lines(CardOfEpisode(g)) = g /\ \A u \in g : Rel(u) # None
      BY EpisodeCard, Episodes
    <2> QED BY <2>1 DEF Used, CardsFromEpisodes
  <1>6. \A u \in loose : Rel(u) = None OBVIOUS
  <1> HIDE DEF loose
  <1> QED BY <1>1, <1>3, <1>4, <1>5, <1>6

(* Each pass that attaches leaves the cards filed and the same heads.       *)
LEMMA LinkedFiled ==
  ASSUME NEW shown, NEW cards, Filed(cards, shown)
  PROVE  /\ Filed(AttachLinkedFollowups(shown, cards), shown)
         /\ Heads(AttachLinkedFollowups(shown, cards)) = Heads(cards)
         /\ Used(cards) \subseteq Used(AttachLinkedFollowups(shown, cards))
  <1> DEFINE mine(u) == {c \in cards : /\ Rel(c.head) # None
                                       /\ Rel(c.head) = ParentOf(u, shown)
                                       /\ Dev(c.head) = Dev(u)}
             linked == {u \in shown \ Used(cards) :
                          /\ Kind(u) \in {"cleaning", "pet", "motion", "error"}
                          /\ mine(u) # {}}
             place == [u \in linked |-> CHOOSE c \in mine(u) : TRUE]
  <1>1. \A u \in linked : place[u] \in mine(u) OBVIOUS
  <1>2. \A u \in linked : place[u] \in cards /\ Dev(u) = Dev(place[u].head) BY <1>1
  <1>3. AttachLinkedFollowups(shown, cards) = Attach(cards, place)
    BY DEF AttachLinkedFollowups
  <1>4. linked \subseteq shown \ Used(cards) OBVIOUS
  <1>5. place \in [linked -> cards] BY <1>2
  <1> HIDE DEF mine, linked, place
  <1> QED BY <1>2, <1>3, <1>4, <1>5, FiledAttach

LEMMA NearbyFiled ==
  ASSUME NEW shown, OnPage(shown), NEW cards, Filed(cards, shown)
  PROVE  /\ Filed(AttachNearbyCleanings(shown, cards), shown)
         /\ Heads(AttachNearbyCleanings(shown, cards)) = Heads(cards)
         /\ Used(cards) \subseteq Used(AttachNearbyCleanings(shown, cards))
  <1> DEFINE near == {u \in Unplaced(shown, cards) : NearVisits(u, cards) # {}}
             newest(u) == CHOOSE c \in NearVisits(u, cards) :
                            \A d \in NearVisits(u, cards) : rows[c.head] >= rows[d.head]
             place == [u \in near |-> newest(u)]
  <1>1. \A u \in near : newest(u) \in NearVisits(u, cards)
    <2> SUFFICES ASSUME NEW u \in near PROVE newest(u) \in NearVisits(u, cards) OBVIOUS
    <2> DEFINE heads == {c.head : c \in NearVisits(u, cards)}
    <2>1. NearVisits(u, cards) \subseteq cards BY DEF NearVisits
    <2>2. heads \subseteq shown /\ heads # {} BY <2>1 DEF Filed, Lines
    <2>3. Newest(heads) \in heads /\ \A v \in heads : rows[Newest(heads)] >= rows[v]
      BY <2>2, NewestIn DEF OnPage
    <2>4. \E c \in NearVisits(u, cards) :
            \A d \in NearVisits(u, cards) : rows[c.head] >= rows[d.head]
      BY <2>3
    <2> QED BY <2>4
  <1>2. \A u \in near : place[u] \in cards /\ Dev(u) = Dev(place[u].head)
    BY <1>1 DEF NearVisits
  <1>3. AttachNearbyCleanings(shown, cards) = Attach(cards, place)
    BY DEF AttachNearbyCleanings
  <1>4. near \subseteq shown \ Used(cards) BY DEF Unplaced
  <1>5. place \in [near -> cards] BY <1>2
  <1> HIDE DEF near, place
  <1> QED BY <1>2, <1>3, <1>4, <1>5, FiledAttach

LEMMA OrphansFiled ==
  ASSUME NEW shown, OnPage(shown), NEW cards
  PROVE  /\ Filed(CardsFromOrphanCleanings(shown, cards), shown)
         /\ \A c \in CardsFromOrphanCleanings(shown, cards) :
              Lines(c) \cap Used(cards) = {} /\ c.kind = "cleaning"
  <1> DEFINE orphans == {u \in Unplaced(shown, cards) : Rel(u) # None}
             closed == orphans \cap PrimaryDone
             group(rel) == {u \in orphans : Rel(u) = rel}
             head(rel) == Oldest(group(rel) \cap closed)
             card(rel) == Card("cleaning", head(rel), group(rel) \ {head(rel)})
             rels == {Rel(u) : u \in closed}
  <1>1. CardsFromOrphanCleanings(shown, cards) = {card(rel) : rel \in rels}
    BY DEF CardsFromOrphanCleanings
  <1>2. orphans \subseteq shown \ Used(cards) BY DEF Unplaced
  <1>3. \A rel \in rels : head(rel) \in group(rel)
    <2> SUFFICES ASSUME NEW rel \in rels PROVE head(rel) \in group(rel) OBVIOUS
    <2>1. group(rel) \cap closed # {} OBVIOUS
    <2>2. group(rel) \cap closed \subseteq Uids BY <1>2 DEF OnPage
    <2> DEFINE gc == group(rel) \cap closed
    <2>3. gc # {} /\ gc \subseteq Uids BY <2>1, <2>2
    <2>4. gc \subseteq group(rel) OBVIOUS
    <2> HIDE DEF gc
    <2>5. Oldest(gc) \in gc BY <2>3, OldestIn DEF OnPage
    <2> QED BY <2>4, <2>5 DEF gc
  <1>4. \A rel \in rels : \A u \in group(rel) : u \in orphans /\ Rel(u) = rel OBVIOUS
  <1>5. \A rel \in rels : \A u, v \in group(rel) : Dev(u) = Dev(v)
    <2> SUFFICES ASSUME NEW rel \in rels, NEW u \in group(rel), NEW v \in group(rel)
                 PROVE  Dev(u) = Dev(v)
      OBVIOUS
    <2>1. u \in orphans /\ v \in orphans /\ Rel(u) = Rel(v) BY <1>4
    <2>2. u \in Uids /\ v \in Uids BY <1>2, <2>1 DEF OnPage
    <2>3. Rel(u) # None BY <2>1
    <2> QED BY <2>1, <2>2, <2>3, SameDevice
  <1> HIDE DEF rels, group, head, orphans
  <1>6. \A rel \in rels : /\ card(rel).kind = "cleaning" /\ card(rel).head = head(rel)
                          /\ card(rel).steps = group(rel) \ {head(rel)}
                          /\ card(rel) = Card(card(rel).kind, card(rel).head, card(rel).steps)
                          /\ Lines(card(rel)) = group(rel)
    <2> SUFFICES ASSUME NEW rel \in rels
                 PROVE  /\ card(rel).kind = "cleaning" /\ card(rel).head = head(rel)
                        /\ card(rel).steps = group(rel) \ {head(rel)}
                        /\ card(rel) = Card(card(rel).kind, card(rel).head, card(rel).steps)
                        /\ Lines(card(rel)) = group(rel)
      OBVIOUS
    <2>1. /\ card(rel).kind = "cleaning" /\ card(rel).head = head(rel)
          /\ card(rel).steps = group(rel) \ {head(rel)}
          /\ card(rel) = Card(card(rel).kind, card(rel).head, card(rel).steps)
          /\ Lines(card(rel)) = {head(rel)} \cup (group(rel) \ {head(rel)})
      BY CardParts
    <2>2. {head(rel)} \cup (group(rel) \ {head(rel)}) = group(rel) BY <1>3
    <2> QED BY <2>1, <2>2
  <1> HIDE DEF card
  <1>7. \A rel, other \in rels : rel # other => group(rel) \cap group(other) = {} BY <1>4
  <1>8. Filed({card(rel) : rel \in rels}, shown)
    BY <1>2, <1>3, <1>4, <1>5, <1>6, <1>7 DEF Filed
  <1> QED BY <1>1, <1>2, <1>4, <1>6, <1>8

LEMMA TailsFiled ==
  ASSUME NEW shown, OnPage(shown), NEW cards, Filed(cards, shown)
  PROVE  /\ Filed(AttachCycleTails(shown, cards), shown)
         /\ Heads(AttachCycleTails(shown, cards)) = Heads(cards)
         /\ Used(cards) \subseteq Used(AttachCycleTails(shown, cards))
  <1> DEFINE near(u) == {c \in cards : /\ c.kind = "cleaning" /\ Dev(c.head) = Dev(u)
                                       /\ Rel(c.head) # Rel(u)
                                       /\ Apart(u, c) <= CYCLE_TAIL_WINDOW_SEC}
             tails == {u \in Unplaced(shown, cards) : near(u) # {}}
             closest(u) == {c \in near(u) : \A d \in near(u) : Apart(u, c) <= Apart(u, d)}
             first(u) == CHOOSE c \in closest(u) :
               \A d \in closest(u) : rows[Newest(Lines(c))] >= rows[Newest(Lines(d))]
             place == [u \in tails |-> first(u)]
  <1>1. tails \subseteq shown \ Used(cards) BY DEF Unplaced
  <1>2. \A c \in cards : /\ c.head \in Uids /\ Lines(c) \subseteq Uids /\ Lines(c) # {}
                         /\ \A u \in Lines(c) : rows[u] <= clock
    BY DEF Filed, Lines, OnPage
  <1>3. \A u \in tails : closest(u) # {}
    <2> SUFFICES ASSUME NEW u \in tails PROVE closest(u) # {} OBVIOUS
    <2>1. near(u) # {} /\ near(u) \subseteq cards OBVIOUS
    <2>2. u \in Uids BY <1>1 DEF OnPage
    <2>3. \A c \in cards : Apart(u, c) \in Nat BY <1>2, <2>2 DEF Apart, OnPage
    <2> HIDE DEF near
    <2> DEFINE T == {Apart(u, c) : c \in near(u)}
    <2>4. T \subseteq Nat /\ T # {} BY <2>1, <2>3
    <2>5. PICK x \in T : \A y \in T : x <= y
      <3> HIDE DEF T
      <3> QED BY <2>4, LeastNat
    <2>6. \E c \in near(u) : \A d \in near(u) : Apart(u, c) <= Apart(u, d) BY <2>5
    <2> QED BY <2>6
  <1>4. \A u \in tails : first(u) \in closest(u)
    <2> SUFFICES ASSUME NEW u \in tails PROVE first(u) \in closest(u) OBVIOUS
    <2>1. closest(u) # {} BY <1>3
    <2>2. closest(u) \subseteq cards OBVIOUS
    <2> HIDE DEF closest
    <2> DEFINE tops == {Newest(Lines(c)) : c \in closest(u)}
    <2>3. \A c \in cards : Newest(Lines(c)) \in Lines(c) BY <1>2, NewestIn DEF OnPage
    <2>4. tops # {} /\ tops \subseteq Uids /\ \A v \in tops : rows[v] <= clock
      BY <1>2, <2>1, <2>2, <2>3
    <2>5. Newest(tops) \in tops /\ \A v \in tops : rows[Newest(tops)] >= rows[v]
      <3> HIDE DEF tops
      <3> QED BY <2>4, NewestIn DEF OnPage
    <2>6. \E c \in closest(u) :
            \A d \in closest(u) : rows[Newest(Lines(c))] >= rows[Newest(Lines(d))]
      BY <2>5
    <2> QED BY <2>6
  <1>5. \A u \in tails : place[u] \in cards /\ Dev(u) = Dev(place[u].head) BY <1>4
  <1>6. AttachCycleTails(shown, cards) = Attach(cards, place) BY DEF AttachCycleTails
  <1>7. place \in [tails -> cards] BY <1>5
  <1> HIDE DEF tails, place
  <1> QED BY <1>1, <1>5, <1>6, <1>7, FiledAttach

LEMMA StandaloneFiled ==
  ASSUME NEW shown, NEW cards, Filed(cards, shown)
  PROVE  /\ Filed(cards \cup StandaloneRows(shown, cards), shown)
         /\ \A c \in StandaloneRows(shown, cards) : c.kind = "event" /\ c.head \notin Used(cards)
         /\ \A u \in shown : \E c \in cards \cup StandaloneRows(shown, cards) : u \in Lines(c)
  <1> DEFINE rest == shown \ Used(cards)
             card(u) == Card("event", u, {})
  <1>1. StandaloneRows(shown, cards) = {card(u) : u \in rest} BY DEF StandaloneRows
  <1>2. \A u \in rest : /\ card(u).kind = "event" /\ card(u).head = u /\ card(u).steps = {}
                        /\ card(u) = Card(card(u).kind, card(u).head, card(u).steps)
                        /\ Lines(card(u)) = {u}
    BY CardParts
  <1> HIDE DEF card
  <1>3. Filed({card(u) : u \in rest}, shown) BY <1>2 DEF Filed
  <1>4. \A c \in {card(u) : u \in rest} : Lines(c) \cap Used(cards) = {} BY <1>2
  <1>5. \A u \in shown : u \in Used(cards) => \E c \in cards : u \in Lines(c) BY DEF Used
  <1>6. Filed(cards \cup {card(u) : u \in rest}, shown) BY <1>3, <1>4, FiledUnion
  <1> QED BY <1>1, <1>2, <1>5, <1>6

(* The passes one after the other.                                          *)
LEMMA Grouped ==
  ASSUME NEW shown, OnPage(shown)
  PROVE  LET cards == GroupSessions(shown)
             visits == CardsFromEpisodes(shown) \cup CardsFromLooseVisits(shown)
         IN /\ Filed(cards, shown)
            /\ \A u \in shown : \E c \in cards : u \in Lines(c)
            /\ \A c \in cards : \/ <<c.kind, c.head>> \in Heads(visits)
                                \/ c.kind = "cleaning"
                                \/ c.kind = "event" /\ c.head \notin Used(visits)
            /\ Heads(visits) \subseteq Heads(cards)
  <1> DEFINE visits == CardsFromEpisodes(shown) \cup CardsFromLooseVisits(shown)
             linked == AttachLinkedFollowups(shown, visits)
             near == AttachNearbyCleanings(shown, linked)
             orphans == CardsFromOrphanCleanings(shown, near)
             all == AttachCycleTails(shown, near \cup orphans)
             rest == StandaloneRows(shown, all)
  <1>1. GroupSessions(shown) = all \cup rest BY DEF GroupSessions
  <1>2. Filed(visits, shown) BY EpisodesFiled, LooseFiled, FiledUnion
  <1> HIDE DEF visits
  <1>3. /\ Filed(linked, shown) /\ Heads(linked) = Heads(visits)
        /\ Used(visits) \subseteq Used(linked)
    BY <1>2, LinkedFiled
  <1> HIDE DEF linked
  <1>4. /\ Filed(near, shown) /\ Heads(near) = Heads(visits)
        /\ Used(visits) \subseteq Used(near)
    BY <1>3, NearbyFiled
  <1> HIDE DEF near
  <1>5. /\ Filed(orphans, shown)
        /\ \A c \in orphans : Lines(c) \cap Used(near) = {} /\ c.kind = "cleaning"
    BY OrphansFiled
  <1> HIDE DEF orphans
  <1>6. Filed(near \cup orphans, shown) BY <1>4, <1>5, FiledUnion
  <1>7. /\ Filed(all, shown) /\ Heads(all) = Heads(near \cup orphans)
        /\ Used(near \cup orphans) \subseteq Used(all)
    BY <1>6, TailsFiled
  <1> HIDE DEF all
  <1>8. /\ Filed(all \cup rest, shown)
        /\ \A c \in rest : c.kind = "event" /\ c.head \notin Used(all)
        /\ \A u \in shown : \E c \in all \cup rest : u \in Lines(c)
    BY <1>7, StandaloneFiled
  <1>9. Used(visits) \subseteq Used(all)
    <2>1. Used(near) \subseteq Used(near \cup orphans) BY DEF Used
    <2> QED BY <1>4, <1>7, <2>1
  <1>10. \A c \in all : <<c.kind, c.head>> \in Heads(visits) \/ c.kind = "cleaning"
    <2>1. \A c \in all : <<c.kind, c.head>> \in Heads(near \cup orphans) BY <1>7 DEF Heads
    <2>2. \A h \in Heads(near \cup orphans) : h \in Heads(near) \/ h[1] = "cleaning"
      BY <1>5 DEF Heads
    <2> QED BY <1>4, <2>1, <2>2 DEF visits
  <1>11. Heads(visits) \subseteq Heads(all \cup rest)
    <2>1. Heads(near) \subseteq Heads(near \cup orphans) BY DEF Heads
    <2>2. Heads(all) \subseteq Heads(all \cup rest) BY DEF Heads
    <2> QED BY <1>4, <1>7, <2>1, <2>2
  <1>12. \A c \in all \cup rest : \/ <<c.kind, c.head>> \in Heads(visits)
                                  \/ c.kind = "cleaning"
                                  \/ c.kind = "event" /\ c.head \notin Used(visits)
    BY <1>8, <1>9, <1>10
  <1> HIDE DEF rest
  <1> QED BY <1>1, <1>8, <1>11, <1>12 DEF visits

-----------------------------------------------------------------------------
(* The timeline's types, and a row is never newer than the clock.           *)
TimelineInv == TimelineTypeOK /\ \A u \in Uids : rows[u] <= clock

LEMMA BoundsAreNat == MaxResends \in Nat /\ MaxRestarts \in Nat
  BY Catalogue, Zenon

LEMMA NothingHeard ==
  Unheard \in [clean : Nat, visit : Nat, feed : Nat, totals : [day : Nat, times : Nat]]
  <1>1. NoTotals \in [day : Nat, times : Nat] BY DEF NoTotals, NoDay
  <1> QED BY <1>1 DEF Unheard

LEMMA TimelineStarts == ASSUME TimelineInit PROVE TimelineInv
  <1>1. derived \in [Devices -> [clean : Nat, visit : Nat, feed : Nat,
                                totals : [day : Nat, times : Nat]]]
    <2>1. derived = [d \in Devices |-> Unheard] BY DEF TimelineInit
    <2> QED BY <2>1, NothingHeard
  <1>2. /\ story \in Stories /\ rows \in [Uids -> Nat] /\ clock \in Nat
        /\ \A u \in Uids : rows[u] <= clock
    BY DEF TimelineInit
  <1>3. /\ heard \subseteq story /\ doubled \subseteq story /\ late \in BOOLEAN
        /\ resends \in 0..MaxResends /\ restarts \in 0..MaxRestarts
    <2>1. heard = {} /\ doubled = {} /\ late = FALSE /\ resends = 0 /\ restarts = 0
      BY DEF TimelineInit
    <2>2. resends \in 0..MaxResends /\ restarts \in 0..MaxRestarts BY <2>1, BoundsAreNat
    <2>3. heard \subseteq story /\ doubled \subseteq story /\ late \in BOOLEAN BY <2>1
    <2> QED BY <2>2, <2>3
  <1> QED BY <1>1, <1>2, <1>3 DEF TimelineInv, TimelineTypeOK

LEMMA DerivedTypes ==
  ASSUME NEW u \in Uids, NEW moment \in Nat,
         NEW was \in [clean : Nat, visit : Nat, feed : Nat, totals : [day : Nat, times : Nat]]
  PROVE  ApplyDerivedState(was, u, moment)
           \in [clean : Nat, visit : Nat, feed : Nat, totals : [day : Nat, times : Nat]]
  <1>1. Totals(was.totals, u) \in [day : Nat, times : Nat]
    <2>1. Report[u].day \in Nat BY Catalogue
    <2> QED BY <2>1 DEF Totals
  <1> HIDE DEF Totals
  <1> QED BY <1>1 DEF ApplyDerivedState

LEMMA TimelineKeeps ==
  ASSUME TimelineInv, [TimelineNext]_timelineVars
  PROVE  TimelineInv'
  <1>1. ASSUME NEW u \in story, NEW gap \in Gaps, Receive(u, gap) PROVE TimelineInv'
    <2>1. u \in Uids /\ Dev(u) \in Devices /\ gap \in Nat /\ clock \in Nat
      BY Catalogue DEF TimelineInv, TimelineTypeOK, Dev
    <2>2. clock' \in Nat /\ clock' >= clock BY <1>1, <2>1 DEF Receive
    <2>3. rows' \in [Uids -> Nat] /\ \A v \in Uids : rows'[v] <= clock'
      BY <1>1, <2>1, <2>2 DEF Receive, Upsert, TimelineInv, TimelineTypeOK
    <2>4. derived' \in [Devices -> [clean : Nat, visit : Nat, feed : Nat,
                                    totals : [day : Nat, times : Nat]]]
      <3>1. ApplyDerivedState(derived[Dev(u)], u, clock')
              \in [clean : Nat, visit : Nat, feed : Nat, totals : [day : Nat, times : Nat]]
        BY <2>1, <2>2, DerivedTypes DEF TimelineInv, TimelineTypeOK
      <3>2. derived' = [derived EXCEPT ![Dev(u)] = ApplyDerivedState(derived[Dev(u)], u, clock')]
        BY <1>1 DEF Receive
      <3> DEFINE D == [clean : Nat, visit : Nat, feed : Nat, totals : [day : Nat, times : Nat]]
                 newer == ApplyDerivedState(derived[Dev(u)], u, clock')
      <3>3. newer \in D BY <3>1
      <3>4. derived \in [Devices -> D] BY DEF TimelineInv, TimelineTypeOK
      <3>5. derived' = [derived EXCEPT ![Dev(u)] = newer] BY <3>2
      <3> HIDE DEF D, newer
      <3>6. derived' \in [Devices -> D] BY <3>3, <3>4, <3>5
      <3> QED BY <3>6 DEF D
    <2>5. resends' \in 0..MaxResends /\ restarts' \in 0..MaxRestarts
      BY <1>1, BoundsAreNat DEF Receive, TimelineInv, TimelineTypeOK
    <2>6. /\ story' \in Stories /\ heard' \subseteq story' /\ doubled' \subseteq story'
          /\ late' \in BOOLEAN
      BY <1>1 DEF Receive, TimelineInv, TimelineTypeOK
    <2> QED BY <2>2, <2>3, <2>4, <2>5, <2>6 DEF TimelineInv, TimelineTypeOK
  <1>2. ASSUME Restart PROVE TimelineInv'
    <2>1. derived' \in [Devices -> [clean : Nat, visit : Nat, feed : Nat,
                                    totals : [day : Nat, times : Nat]]]
      <3>1. derived' = [d \in Devices |-> Unheard] BY <1>2 DEF Restart
      <3> QED BY <3>1, NothingHeard
    <2>2. resends' \in 0..MaxResends /\ restarts' \in 0..MaxRestarts
      BY <1>2, BoundsAreNat DEF Restart, TimelineInv, TimelineTypeOK
    <2>3. /\ story' \in Stories /\ heard' \subseteq story' /\ doubled' \subseteq story'
          /\ late' \in BOOLEAN /\ rows' \in [Uids -> Nat] /\ clock' \in Nat
          /\ \A u \in Uids : rows'[u] <= clock'
      BY <1>2 DEF Restart, TimelineInv, TimelineTypeOK
    <2> QED BY <2>1, <2>2, <2>3 DEF TimelineInv, TimelineTypeOK
  <1>3. CASE UNCHANGED timelineVars
    BY <1>3 DEF TimelineInv, TimelineTypeOK, timelineVars
  <1> QED BY <1>1, <1>2, <1>3 DEF TimelineNext

LEMMA TimelineInvariant == TimelineSpec => []TimelineInv
  BY TimelineStarts, TimelineKeeps, PTL DEF TimelineSpec

(* The timeline is always of its types.                                     *)
THEOREM TimelineTypeCorrect == TimelineSpec => []TimelineTypeOK
  BY TimelineInvariant, PTL DEF TimelineInv

LEMMA PagesAreOn ==
  ASSUME TimelineInv PROVE \A from : OnPage(Page(from))
  BY Catalogue DEF TimelineInv, TimelineTypeOK, OnPage, Page

LEMMA OneLineShows ==
  ASSUME NEW card, NEW rel, NEW u \in Lines(card), Rel(u) = rel
  PROVE  Cardinality(Showing(card, rel)) = 1
  <1> DEFINE steps == {v \in card.steps : Rel(v) = rel}
  <1>1. CASE Rel(card.head) = rel
    <2>1. Showing(card, rel) = {card.head} BY <1>1 DEF Showing
    <2> QED BY <2>1, FS_Singleton
  <1>2. CASE Rel(card.head) # rel
    <2>1. steps # {} BY <1>2 DEF Lines
    <2>2. Showing(card, rel) = Carrier(steps) BY <1>2, <2>1 DEF Showing
    <2>3. \E x : Carrier(steps) = {x} BY DEF Carrier
    <2> QED BY <2>2, <2>3, FS_Singleton
  <1> QED BY <1>1, <1>2

LEMMA PageComplete ==
  ASSUME NEW shown, OnPage(shown)
  PROVE  LET cards == GroupSessions(shown) IN
         /\ \A u \in shown : Cardinality({c \in cards : u \in Lines(c)}) = 1
         /\ \A c \in cards :
              /\ c.head \notin c.steps
              /\ \A u \in c.steps : Dev(u) = Dev(c.head)
              /\ \A rel : (\E u \in Lines(c) : Rel(u) = rel)
                            => Cardinality(Showing(c, rel)) = 1
  <1> DEFINE cards == GroupSessions(shown)
  <1>1. Filed(cards, shown) /\ \A u \in shown : \E c \in cards : u \in Lines(c) BY Grouped
  <1> HIDE DEF cards
  <1>2. \A u \in shown : Cardinality({c \in cards : u \in Lines(c)}) = 1
    <2> SUFFICES ASSUME NEW u \in shown PROVE Cardinality({c \in cards : u \in Lines(c)}) = 1
      OBVIOUS
    <2>1. PICK c \in cards : u \in Lines(c) BY <1>1
    <2>2. \A d \in cards : u \in Lines(d) => d = c BY <1>1, <2>1 DEF Filed
    <2>3. {d \in cards : u \in Lines(d)} = {c} BY <2>1, <2>2
    <2> QED BY <2>3, FS_Singleton
  <1>3. \A c \in cards : c.head \notin c.steps /\ \A u \in c.steps : Dev(u) = Dev(c.head)
    BY <1>1 DEF Filed
  <1>4. \A c \in cards : \A rel : (\E u \in Lines(c) : Rel(u) = rel)
                                => Cardinality(Showing(c, rel)) = 1
    BY OneLineShows
  <1> QED BY <1>2, <1>3, <1>4 DEF cards

(* Whatever was reported when, each row of a page is on one line of one     *)
(* card, beside rows of its own device, and the pictures of an episode are  *)
(* shown on one line of a card: the passes of group_sessions() lose nothing *)
(* and file nothing twice.                                                  *)
THEOREM NothingIsLostFromThePage == TimelineSpec => []CardsComplete
  <1>1. ASSUME TimelineInv PROVE CardsComplete
    <2>1. \A shown \in Pages : OnPage(shown) BY <1>1, PagesAreOn DEF Pages
    <2> SUFFICES ASSUME NEW shown \in Pages
                 PROVE  LET cards == GroupSessions(shown) IN
                   /\ \A u \in shown : Cardinality({c \in cards : u \in Lines(c)}) = 1
                   /\ \A c \in cards :
                        /\ c.head \notin c.steps
                        /\ \A u \in c.steps : Dev(u) = Dev(c.head)
                        /\ shown = Page(1) => \A rel \in Pictured :
                             (\E u \in Lines(c) : Rel(u) = rel)
                               => Cardinality(Showing(c, rel)) = 1
      BY DEF CardsComplete
    <2>2. OnPage(shown) BY <2>1
    <2> QED BY <2>2, PageComplete
  <1> QED BY <1>1, TimelineInvariant, PTL

-----------------------------------------------------------------------------
(* Visits are counted once.  A kind is one of the tables' or of those that  *)
(* the content may spell out: never the name of another sort of card.       *)
LEMMA KindNames ==
  ASSUME NEW u \in Uids PROVE Kind(u) # "visit" /\ Kind(u) # "event"
  <1>1. Kind(u) = ClassifyEventKind(Code(u), Report[u].says, Type(u)) BY DEF Kind, Kinds
  <1>2. CASE Report[u].says # ""
    <2>1. Kind(u) = Report[u].says BY <1>1, <1>2 DEF ClassifyEventKind
    <2>2. Report[u].says \in {"", "toilet_visit", "cleaning", "motion", "pet"} BY Catalogue
    <2> QED BY <1>2, <2>1, <2>2
  <1>3. CASE Report[u].says = ""
    <2> DEFINE table == Table(Code(u), Type(u))
               known == table.kind
    <2>1. CASE Code(u) \in Codes(table)
      <3>1. \E k \in DOMAIN known : Code(u) \in known[k] BY <2>1 DEF Codes
      <3>2. Kind(u) = CHOOSE k \in DOMAIN known : Code(u) \in known[k]
        BY <1>1, <1>3, <2>1 DEF ClassifyEventKind
      <3>3. Kind(u) \in DOMAIN known BY <3>1, <3>2
      <3>4. table \in {Litter, Feeder, Fountain, Purifier, Topics} BY DEF Table, Category
      <3> HIDE DEF table
      <3>5. /\ DOMAIN Litter.kind = {"error", "toilet_visit", "pet", "cleaning", "system"}
            /\ DOMAIN Feeder.kind = {"feeding", "motion", "pet"}
            /\ DOMAIN Fountain.kind = {"drinking", "pet"}
            /\ DOMAIN Purifier.kind = {"system"}
            /\ DOMAIN Topics.kind = {"cleaning", "toilet_visit", "pet", "feeding", "drinking",
                                     "motion", "error", "system"}
        BY DEF Litter, Feeder, Fountain, Purifier, Topics
      <3> QED BY <3>3, <3>4, <3>5
    <2>2. CASE Code(u) \notin Codes(table)
      <3>1. Kind(u) = "other" BY <1>1, <1>3, <2>2 DEF ClassifyEventKind
      <3> QED BY <3>1
    <2> QED BY <2>1, <2>2
  <1> QED BY <1>2, <1>3

(* What the first pass makes of the visits of a page.                       *)
LEMMA VisitCards ==
  ASSUME NEW shown, OnPage(shown)
  PROVE  LET cards == CardsFromEpisodes(shown) \cup CardsFromLooseVisits(shown)
             visits == {u \in shown : Kind(u) = "toilet_visit"}
         IN /\ \A c \in cards : /\ c.kind # "event" /\ c.kind # "toilet_visit"
                                /\ c.kind = "visit" =>
                                     IF Rel(c.head) = None THEN c.head \in visits
                                     ELSE \E u \in visits : Rel(u) = Rel(c.head)
            /\ \A c, d \in cards :
                 Rel(c.head) = Rel(d.head) /\ Rel(c.head) # None => c = d
            /\ \A u \in visits : \E c \in cards :
                 c.kind = "visit" /\ u \in Lines(c)
                   /\ IF Rel(u) = None THEN c.head = u ELSE Rel(c.head) = Rel(u)
  <1> DEFINE groups == EpisodesOf(AnchorEvents(shown))
             visits == {u \in shown : Kind(u) = "toilet_visit"}
             loose == {u \in AnchorEvents(shown) : Rel(u) = None /\ Kind(u) = "toilet_visit"}
             card(u) == Card("visit", u, {})
  <1>1. CardsFromEpisodes(shown) = {CardOfEpisode(g) : g \in groups} BY DEF CardsFromEpisodes
  <1>2. CardsFromLooseVisits(shown) = {card(u) : u \in loose} BY DEF CardsFromLooseVisits
  <1>3. visits \subseteq AnchorEvents(shown) BY DEF AnchorEvents
  <1>4. \A u \in loose : /\ card(u).kind = "visit" /\ card(u).head = u
                         /\ Lines(card(u)) = {u}
                         /\ u \in visits /\ Rel(u) = None
    <2>1. \A u \in loose : u \in visits /\ Rel(u) = None BY DEF AnchorEvents
    <2> QED BY <2>1, CardParts
  <1>5. \A u \in visits : Rel(u) = None => u \in loose BY <1>3
  <1>6. \A g \in groups :
          /\ CardOfEpisode(g).head \in g /\ Lines(CardOfEpisode(g)) = g
          /\ CardOfEpisode(g).kind = IF \E u \in g : Kind(u) = "toilet_visit" THEN "visit"
                                     ELSE Kind(CardOfEpisode(g).head)
    BY EpisodeCard, Episodes
  <1>7. \A g \in groups : /\ g \subseteq shown
                          /\ \A u, v \in g : Rel(u) = Rel(v) /\ Rel(u) # None
    BY Episodes
  <1>8. \A g, h \in groups : \A u \in g, v \in h : Rel(u) = Rel(v) => g = h BY Episodes
  <1>9. \A u \in visits : Rel(u) # None => \E g \in groups : u \in g BY <1>3, Episodes
  <1>10. \A u \in shown : Kind(u) # "visit" /\ Kind(u) # "event" BY KindNames DEF OnPage
  <1>11. \A u \in visits : u \in shown /\ Kind(u) = "toilet_visit" OBVIOUS
  <1>12. \A u \in shown : Kind(u) = "toilet_visit" => u \in visits OBVIOUS
  <1> DEFINE cards == {CardOfEpisode(g) : g \in groups} \cup {card(u) : u \in loose}
  <1> HIDE DEF groups, visits, loose, card
  <1>13. \A c \in cards : /\ c.kind # "event" /\ c.kind # "toilet_visit"
                          /\ c.kind = "visit" =>
                               IF Rel(c.head) = None THEN c.head \in visits
                               ELSE \E u \in visits : Rel(u) = Rel(c.head)
    <2>1. ASSUME NEW g \in groups, NEW c, c = CardOfEpisode(g)
          PROVE  /\ c.kind # "event" /\ c.kind # "toilet_visit"
                 /\ Rel(c.head) # None
                 /\ c.kind = "visit" => \E u \in visits : Rel(u) = Rel(c.head)
      BY <1>6, <1>7, <1>10, <1>12, <2>1
    <2>2. ASSUME NEW u \in loose, NEW c, c = card(u)
          PROVE  c.kind = "visit" /\ Rel(c.head) = None /\ c.head \in visits
      BY <1>4, <2>2
    <2> QED BY <2>1, <2>2
  <1>14. \A c, d \in cards : Rel(c.head) = Rel(d.head) /\ Rel(c.head) # None => c = d
    <2>1. \A u \in loose : Rel(card(u).head) = None BY <1>4
    <2>2. \A g, h \in groups : Rel(CardOfEpisode(g).head) = Rel(CardOfEpisode(h).head) => g = h
      BY <1>6, <1>8
    <2> QED BY <2>1, <2>2
  <1>15. \A u \in visits : \E c \in cards :
           c.kind = "visit" /\ u \in Lines(c)
             /\ IF Rel(u) = None THEN c.head = u ELSE Rel(c.head) = Rel(u)
    <2> SUFFICES ASSUME NEW u \in visits
                 PROVE  \E c \in cards :
                   c.kind = "visit" /\ u \in Lines(c)
                     /\ IF Rel(u) = None THEN c.head = u ELSE Rel(c.head) = Rel(u)
      OBVIOUS
    <2>1. CASE Rel(u) = None BY <1>4, <1>5, <2>1
    <2>2. CASE Rel(u) # None
      <3>1. PICK g \in groups : u \in g BY <1>9, <2>2
      <3>2. CardOfEpisode(g) \in cards BY <3>1
      <3>3. CardOfEpisode(g).kind = "visit" /\ Rel(CardOfEpisode(g).head) = Rel(u)
        BY <1>6, <1>7, <1>11, <3>1
      <3> QED BY <1>6, <2>2, <3>1, <3>2, <3>3
    <2> QED BY <2>1, <2>2
  <1> QED BY <1>1, <1>2, <1>13, <1>14, <1>15 DEF cards, visits

(* The cards counted as toileting are those that the first pass made of     *)
(* visits.                                                                  *)
LEMMA ToiletingCards ==
  ASSUME NEW shown, OnPage(shown), NEW c \in GroupSessions(shown)
  PROVE  LET visits == CardsFromEpisodes(shown) \cup CardsFromLooseVisits(shown)
         IN FilterBucket(c) = "toileting"
              <=> c.kind = "visit" /\ <<c.kind, c.head>> \in Heads(visits)
  <1> DEFINE visits == CardsFromEpisodes(shown) \cup CardsFromLooseVisits(shown)
  <1>1. \/ <<c.kind, c.head>> \in Heads(visits)
        \/ c.kind = "cleaning"
        \/ c.kind = "event" /\ c.head \notin Used(visits)
    BY Grouped
  <1>2. /\ \A d \in visits : d.kind # "event" /\ d.kind # "toilet_visit"
        /\ \A u \in {v \in shown : Kind(v) = "toilet_visit"} : \E d \in visits : u \in Lines(d)
    BY VisitCards
  <1>3. c.head \in shown BY Grouped DEF Filed, Lines
  <1> HIDE DEF visits
  <1>4. CASE c.kind = "visit"
    <2>1. FilterBucket(c) = "toileting" BY <1>4 DEF FilterBucket
    <2>2. <<c.kind, c.head>> \in Heads(visits) BY <1>1, <1>4
    <2> QED BY <1>4, <2>1, <2>2 DEF visits
  <1>5. CASE c.kind = "event"
    <2>1. \A h \in Heads(visits) : h[1] # "event" BY <1>2 DEF Heads
    <2>2. c.head \notin Used(visits) BY <1>1, <1>5, <2>1
    <2>3. Kind(c.head) # "toilet_visit" BY <1>2, <1>3, <2>2 DEF Used
    <2>4. FilterBucket(c) # "toileting" BY <1>5, <2>3 DEF FilterBucket, None
    <2> QED BY <1>5, <2>4
  <1>6. CASE c.kind # "visit" /\ c.kind # "event"
    <2>1. c.kind # "toilet_visit"
      <3>1. \A h \in Heads(visits) : h[1] # "toilet_visit" BY <1>2 DEF Heads
      <3> QED BY <1>1, <3>1
    <2>2. FilterBucket(c) # "toileting" BY <1>6, <2>1 DEF FilterBucket, None
    <2> QED BY <1>6, <2>2
  <1> QED BY <1>4, <1>5, <1>6 DEF visits

LEMMA CountedOnce ==
  ASSUME NEW shown, OnPage(shown)
  PROVE  LET visits == {u \in shown : Kind(u) = "toilet_visit"} IN
         FilterCount(GroupSessions(shown), "toileting")
           = Cardinality({Rel(u) : u \in visits} \ {None})
             + Cardinality({u \in visits : Rel(u) = None})
  <1> DEFINE cards == GroupSessions(shown)
             first == CardsFromEpisodes(shown) \cup CardsFromLooseVisits(shown)
             visits == {u \in shown : Kind(u) = "toilet_visit"}
             told == {u \in visits : Rel(u) # None}
             episodes == {Rel(u) : u \in visits} \ {None}
             loose == {u \in visits : Rel(u) = None}
             counted == {c \in cards : FilterBucket(c) = "toileting"}
             ofEpisodes == {c \in counted : Rel(c.head) # None}
             ofLoose == {c \in counted : Rel(c.head) = None}
  <1>1. IsFiniteSet(visits)
    <2>1. IsFiniteSet(Uids) BY Catalogue, Zenon
    <2>2. visits \in SUBSET Uids BY DEF OnPage
    <2> HIDE DEF visits
    <2> QED BY <2>1, <2>2, FS_Subset
  <1>2. IsFiniteSet(loose)
    <2>1. loose \in SUBSET visits OBVIOUS
    <2> HIDE DEF visits, loose
    <2> QED BY <1>1, <2>1, FS_Subset
  <1>3. IsFiniteSet(episodes)
    <2> DEFINE f == [u \in told |-> Rel(u)]
    <2>1. told \in SUBSET visits OBVIOUS
    <2>2. f \in [told -> episodes] /\ \A e \in episodes : \E u \in told : f[u] = e OBVIOUS
    <2> HIDE DEF visits, told, episodes, f
    <2>3. f \in Surjection(told, episodes) BY <2>2, Fun_IsSurj
    <2>4. IsFiniteSet(told) BY <1>1, <2>1, FS_Subset
    <2> QED BY <2>3, <2>4, FS_Surjection
  <1>4. \A c \in counted : c.kind = "visit" /\ \E d \in first : d.kind = "visit" /\ d.head = c.head
    <2>1. \A c \in counted : c.kind = "visit" /\ <<c.kind, c.head>> \in Heads(first)
      BY ToiletingCards
    <2> HIDE DEF first, counted
    <2> QED BY <2>1 DEF Heads
  <1>5. \A d \in first : d.kind = "visit" => \E c \in counted : c.head = d.head
    <2> SUFFICES ASSUME NEW d \in first, d.kind = "visit"
                 PROVE  \E c \in counted : c.head = d.head
      OBVIOUS
    <2>1. <<d.kind, d.head>> \in Heads(cards)
      <3>1. Heads(first) \subseteq Heads(cards) BY Grouped
      <3> HIDE DEF first, cards
      <3> QED BY <3>1 DEF Heads
    <2>2. PICK c \in cards : c.kind = "visit" /\ c.head = d.head
      <3> HIDE DEF first, cards
      <3> QED BY <2>1 DEF Heads
    <2>3. FilterBucket(c) = "toileting" BY <2>2 DEF FilterBucket
    <2>4. c \in counted
      <3> HIDE DEF cards
      <3> QED BY <2>2, <2>3
    <2> HIDE DEF counted
    <2> QED BY <2>2, <2>4
  <1>6. \A c, d \in counted : c.head = d.head => c = d
    <2>1. Filed(cards, shown) BY Grouped
    <2> HIDE DEF cards
    <2> QED BY <2>1 DEF Filed, Lines
  <1>7. /\ \A d \in first : d.kind = "visit" =>
             IF Rel(d.head) = None THEN d.head \in visits
             ELSE \E u \in visits : Rel(u) = Rel(d.head)
        /\ \A c, d \in first : Rel(c.head) = Rel(d.head) /\ Rel(c.head) # None => c = d
        /\ \A u \in visits : \E d \in first :
             d.kind = "visit" /\ IF Rel(u) = None THEN d.head = u ELSE Rel(d.head) = Rel(u)
    BY VisitCards
  <1>8. IsFiniteSet(ofEpisodes) /\ Cardinality(ofEpisodes) = Cardinality(episodes)
    <2> DEFINE f == [c \in ofEpisodes |-> Rel(c.head)]
    <2>1. \A c \in ofEpisodes : Rel(c.head) \in episodes
      <3> HIDE DEF first, cards
      <3> QED BY <1>4, <1>7
    <2>2. \A e \in episodes : \E c \in ofEpisodes : Rel(c.head) = e
      <3> SUFFICES ASSUME NEW u \in visits, Rel(u) # None
                   PROVE  \E c \in ofEpisodes : Rel(c.head) = Rel(u)
        OBVIOUS
      <3>1. PICK d \in first : d.kind = "visit" /\ Rel(d.head) = Rel(u) BY <1>7
      <3>2. PICK c \in counted : c.head = d.head BY <1>5, <3>1
      <3> QED BY <3>1, <3>2
    <2>3. \A c, d \in ofEpisodes : Rel(c.head) = Rel(d.head) => c = d
      <3> SUFFICES ASSUME NEW c \in ofEpisodes, NEW d \in ofEpisodes, Rel(c.head) = Rel(d.head)
                   PROVE  c = d
        OBVIOUS
      <3>1. PICK b \in first : b.head = c.head BY <1>4
      <3>2. PICK e \in first : e.head = d.head BY <1>4
      <3>3. b = e BY <1>7, <3>1, <3>2
      <3> QED BY <1>6, <3>1, <3>2, <3>3
    <2>4. f \in [ofEpisodes -> episodes] BY <2>1
    <2>5. /\ \A c, d \in ofEpisodes : f[c] = f[d] => c = d
          /\ \A e \in episodes : \E c \in ofEpisodes : f[c] = e
      BY <2>2, <2>3
    <2> HIDE DEF ofEpisodes, episodes, f
    <2>6. f \in Injection(ofEpisodes, episodes) BY <2>4, <2>5, Fun_IsInj
    <2>7. f \in Surjection(ofEpisodes, episodes) BY <2>4, <2>5, Fun_IsSurj
    <2> QED BY <1>3, <2>6, <2>7, FS_Injection
  <1>9. IsFiniteSet(ofLoose) /\ Cardinality(ofLoose) = Cardinality(loose)
    <2> DEFINE f == [c \in ofLoose |-> c.head]
    <2>1. \A c \in ofLoose : c.head \in loose
      <3> HIDE DEF first, cards
      <3> QED BY <1>4, <1>7
    <2>2. \A u \in loose : \E c \in ofLoose : c.head = u
      <3> SUFFICES ASSUME NEW u \in loose PROVE \E c \in ofLoose : c.head = u OBVIOUS
      <3>1. PICK d \in first : d.kind = "visit" /\ d.head = u BY <1>7
      <3>2. PICK c \in counted : c.head = d.head BY <1>5, <3>1
      <3> QED BY <3>1, <3>2
    <2>3. \A c, d \in ofLoose : c.head = d.head => c = d BY <1>6
    <2>4. f \in [ofLoose -> loose] BY <2>1
    <2>5. /\ \A c, d \in ofLoose : f[c] = f[d] => c = d
          /\ \A e \in loose : \E c \in ofLoose : f[c] = e
      BY <2>2, <2>3
    <2> HIDE DEF ofLoose, loose, f
    <2>6. f \in Injection(ofLoose, loose) BY <2>4, <2>5, Fun_IsInj
    <2>7. f \in Surjection(ofLoose, loose) BY <2>4, <2>5, Fun_IsSurj
    <2> QED BY <1>2, <2>6, <2>7, FS_Injection
  <1>10. counted = ofEpisodes \cup ofLoose /\ ofEpisodes \cap ofLoose = {} OBVIOUS
  <1>11. FilterCount(cards, "toileting") = Cardinality(counted) BY DEF FilterCount
  <1>12. Cardinality(episodes) \in Nat /\ Cardinality(loose) \in Nat
    <2> HIDE DEF episodes, loose
    <2> QED BY <1>2, <1>3, FS_CardinalityType
  <1> HIDE DEF counted, ofEpisodes, ofLoose
  <1>13. Cardinality(counted) = Cardinality(ofEpisodes) + Cardinality(ofLoose)
    <2>1. Cardinality(ofEpisodes \cap ofLoose) = 0 BY <1>10, FS_EmptySet
    <2>2. Cardinality(counted) = Cardinality(ofEpisodes) + Cardinality(ofLoose) - 0
      BY <1>8, <1>9, <1>10, <2>1, FS_Union
    <2> QED BY <1>8, <1>9, <1>12, <2>2
  <1> QED BY <1>8, <1>9, <1>11, <1>13

(* A visit makes one card of the toileting filter, however many reports it  *)
(* made and in whichever order they came.                                   *)
THEOREM VisitsAreCountedOnce == TimelineSpec => []VisitsCountedOnce
  <1>1. ASSUME TimelineInv PROVE VisitsCountedOnce
    <2>1. OnPage(Page(1)) BY <1>1, PagesAreOn
    <2> QED BY <2>1, CountedOnce DEF VisitsCountedOnce
  <1> QED BY <1>1, TimelineInvariant, PTL

-----------------------------------------------------------------------------
(* What the events alone tell.  A report moves what is of its kind and      *)
(* nothing else.                                                            *)
DerivedValues ==
  [clean : Nat, visit : Nat, feed : Nat, totals : [day : Nat, times : Nat]]

LEMMA Applied ==
  ASSUME NEW u \in Uids, NEW moment \in Nat, NEW was \in DerivedValues
  PROVE  LET is == ApplyDerivedState(was, u, moment) IN
         /\ is.clean = IF u \in Cleans THEN moment ELSE was.clean
         /\ is.visit = IF u \in Summaries THEN moment ELSE was.visit
         /\ is.totals = IF u \in Dispenses THEN Totals(was.totals, u) ELSE was.totals
  <1> DEFINE kind == ClassifyEventKind(Code(u), "", Type(u))
  <1>1. /\ u \in Cleans => kind = "cleaning"
        /\ u \in Summaries => kind = "toilet_visit"
        /\ u \in Feeds => kind = "feeding"
    <2> DEFINE f(field) == Table(Code(u), Type(u))[field]
    <2>1. \A k, field : u \in Tells(k, field) => kind = k BY DEF Tells
    <2> QED BY <2>1 DEF Cleans, Summaries, Feeds
  <1>2. u \in Dispenses => u \in Feeds BY DEF Dispenses, Feeds
  <1>3. u \notin Dispenses => Totals(was.totals, u) = was.totals BY DEF Totals
  <1>4. Totals(was.totals, u) \in [day : Nat, times : Nat]
    <2>1. Report[u].day \in Nat BY Catalogue
    <2> QED BY <2>1 DEF Totals, DerivedValues
  <1> DEFINE t == Totals(was.totals, u)
  <1> HIDE DEF kind, t
  <1>5. CASE u \in Cleans
    <2>1. u \notin Summaries /\ u \notin Feeds BY <1>1, <1>5
    <2>2. ApplyDerivedState(was, u, moment) = [was EXCEPT !.clean = moment]
      BY <1>5, <2>1 DEF ApplyDerivedState
    <2> QED BY <1>2, <1>5, <2>1, <2>2 DEF DerivedValues
  <1>6. CASE u \in Summaries
    <2>1. u \notin Cleans /\ u \notin Feeds BY <1>1, <1>6
    <2>2. ApplyDerivedState(was, u, moment) = [was EXCEPT !.visit = moment]
      BY <1>6, <2>1 DEF ApplyDerivedState
    <2> QED BY <1>2, <1>6, <2>1, <2>2 DEF DerivedValues
  <1>7. CASE u \in Feeds
    <2>1. u \notin Cleans /\ u \notin Summaries BY <1>1, <1>7
    <2>2. ApplyDerivedState(was, u, moment) = [was EXCEPT !.feed = moment, !.totals = t]
      BY <1>7, <2>1 DEF ApplyDerivedState, t
    <2>3. t \in [day : Nat, times : Nat] BY <1>4 DEF t
    <2>4. u \notin Dispenses => t = was.totals BY <1>3 DEF t
    <2>5. /\ ApplyDerivedState(was, u, moment).clean = was.clean
          /\ ApplyDerivedState(was, u, moment).visit = was.visit
          /\ ApplyDerivedState(was, u, moment).totals = t
      BY <2>2, <2>3 DEF DerivedValues
    <2> QED BY <1>2, <1>3, <1>7, <2>1, <2>4, <2>5 DEF t
  <1>8. CASE u \notin Cleans /\ u \notin Summaries /\ u \notin Feeds
    <2>1. ApplyDerivedState(was, u, moment) = was BY <1>8 DEF ApplyDerivedState
    <2> QED BY <1>2, <1>8, <2>1
  <1> QED BY <1>5, <1>6, <1>7, <1>8

LEMMA DerivedNext ==
  ASSUME TimelineInv, NEW u \in story, NEW gap \in Gaps, Receive(u, gap)
  PROVE  /\ u \in Uids /\ clock' \in Nat /\ clock' > clock
         /\ rows' = [rows EXCEPT ![u] = clock'] /\ rows \in [Uids -> Nat]
         /\ \A d \in Devices : d # Dev(u) => derived'[d] = derived[d]
         /\ Dev(u) \in Devices /\ derived[Dev(u)] \in DerivedValues
         /\ derived'[Dev(u)].clean = IF u \in Cleans THEN clock' ELSE derived[Dev(u)].clean
         /\ derived'[Dev(u)].visit = IF u \in Summaries THEN clock' ELSE derived[Dev(u)].visit
         /\ derived'[Dev(u)].totals = IF u \in Dispenses THEN Totals(derived[Dev(u)].totals, u)
                                                         ELSE derived[Dev(u)].totals
  <1>1. u \in Uids /\ Dev(u) \in Devices /\ gap \in Nat \ {0} /\ clock \in Nat
    BY Catalogue DEF TimelineInv, TimelineTypeOK, Dev
  <1>2. clock' \in Nat /\ clock' > clock BY <1>1 DEF Receive
  <1>3. rows' = [rows EXCEPT ![u] = clock'] /\ rows \in [Uids -> Nat]
    BY DEF Receive, Upsert, TimelineInv, TimelineTypeOK
  <1>4. derived \in [Devices -> DerivedValues]
    BY DEF TimelineInv, TimelineTypeOK, DerivedValues
  <1> DEFINE newer == ApplyDerivedState(derived[Dev(u)], u, clock')
  <1>5. derived' = [derived EXCEPT ![Dev(u)] = newer] BY DEF Receive
  <1>6. /\ newer.clean = IF u \in Cleans THEN clock' ELSE derived[Dev(u)].clean
        /\ newer.visit = IF u \in Summaries THEN clock' ELSE derived[Dev(u)].visit
        /\ newer.totals = IF u \in Dispenses THEN Totals(derived[Dev(u)].totals, u)
                                            ELSE derived[Dev(u)].totals
    BY <1>1, <1>2, <1>4, Applied
  <1> HIDE DEF newer
  <1>7. derived'[Dev(u)] = newer /\ \A d \in Devices : d # Dev(u) => derived'[d] = derived[d]
    BY <1>1, <1>4, <1>5
  <1> QED BY <1>1, <1>2, <1>3, <1>4, <1>6, <1>7

(* What is kept for a device is the newest row among those of a kind.       *)
Agrees(what, telling, d) ==
  LET seen == {u \in heard \cap telling : Dev(u) = d}
  IN seen # {} => (\A u \in seen : what >= rows[u]) /\ \E u \in seen : what = rows[u]

LEMMA AgreesKept ==
  ASSUME TimelineInv, NEW u \in story, NEW gap \in Gaps, Receive(u, gap),
         NEW telling, NEW d \in Devices, NEW what, NEW what2, Agrees(what, telling, d),
         what2 = IF u \in telling /\ Dev(u) = d THEN clock' ELSE what
  PROVE  LET seen == {v \in heard' \cap telling : Dev(v) = d}
         IN seen # {} => (\A v \in seen : what2 >= rows'[v]) /\ \E v \in seen : what2 = rows'[v]
  <1> DEFINE old == {v \in heard \cap telling : Dev(v) = d}
             new == {v \in heard' \cap telling : Dev(v) = d}
  <1>1. heard' = heard \cup {u} BY DEF Receive
  <1>2. /\ u \in Uids /\ clock' \in Nat /\ clock' > clock /\ clock \in Nat
        /\ rows' = [rows EXCEPT ![u] = clock'] /\ rows \in [Uids -> Nat]
    BY DerivedNext DEF TimelineInv, TimelineTypeOK
  <1>3. heard \subseteq Uids BY Catalogue DEF TimelineInv, TimelineTypeOK
  <1>4. \A v \in Uids : rows[v] <= clock BY DEF TimelineInv
  <1>5. CASE u \in telling /\ Dev(u) = d
    <2>1. u \in new /\ \A v \in new : v \in Uids BY <1>1, <1>2, <1>3, <1>5
    <2>2. rows'[u] = clock' /\ \A v \in Uids : rows'[v] <= clock' BY <1>2, <1>4
    <2>3. what2 = clock' BY <1>5
    <2> QED BY <1>2, <2>1, <2>2, <2>3
  <1>6. CASE ~(u \in telling /\ Dev(u) = d)
    <2>1. new = old /\ u \notin old BY <1>1, <1>6
    <2>2. \A v \in old : rows'[v] = rows[v] BY <1>2, <1>3, <2>1
    <2>3. what2 = what BY <1>6
    <2>4. old # {} => (\A v \in old : what >= rows[v]) /\ \E v \in old : what = rows[v]
      BY DEF Agrees
    <2> HIDE DEF old, new
    <2> QED BY <2>1, <2>2, <2>3, <2>4 DEF new
  <1> QED BY <1>5, <1>6

(* Last Visit and Last Clean are the times of the newest rows of their kind *)
(* since the start, whatever was reported again.                            *)
THEOREM LastSeenIsNewest == TimelineSpec => []LastSeenAgrees
  <1>1. TimelineInit => LastSeenAgrees BY DEF TimelineInit, LastSeenAgrees
  <1>2. ASSUME TimelineInv, LastSeenAgrees, [TimelineNext]_timelineVars
        PROVE  LastSeenAgrees'
    <2>1. LastSeenAgrees <=> \A d \in Devices : /\ Agrees(derived[d].visit, Summaries, d)
                                               /\ Agrees(derived[d].clean, Cleans, d)
      BY DEF LastSeenAgrees, Agrees
    <2>2. ASSUME NEW u \in story, NEW gap \in Gaps, Receive(u, gap) PROVE LastSeenAgrees'
      <3> SUFFICES ASSUME NEW d \in Devices
                   PROVE  /\ Agrees(derived[d].visit, Summaries, d)'
                          /\ Agrees(derived[d].clean, Cleans, d)'
        BY DEF LastSeenAgrees, Agrees
      <3>1. /\ derived'[d].visit = IF u \in Summaries /\ Dev(u) = d THEN clock'
                                   ELSE derived[d].visit
            /\ derived'[d].clean = IF u \in Cleans /\ Dev(u) = d THEN clock'
                                   ELSE derived[d].clean
        BY <1>2, <2>2, DerivedNext
      <3>2. Agrees(derived[d].visit, Summaries, d) /\ Agrees(derived[d].clean, Cleans, d)
        BY <1>2, <2>1
      <3>3. LET seen == {v \in heard' \cap Summaries : Dev(v) = d}
            IN seen # {} => /\ \A v \in seen : derived'[d].visit >= rows'[v]
                            /\ \E v \in seen : derived'[d].visit = rows'[v]
        BY <1>2, <2>2, <3>1, <3>2, AgreesKept
      <3>4. LET seen == {v \in heard' \cap Cleans : Dev(v) = d}
            IN seen # {} => /\ \A v \in seen : derived'[d].clean >= rows'[v]
                            /\ \E v \in seen : derived'[d].clean = rows'[v]
        BY <1>2, <2>2, <3>1, <3>2, AgreesKept
      <3> QED BY <3>3, <3>4 DEF Agrees
    <2>3. ASSUME Restart PROVE LastSeenAgrees' BY <2>3 DEF Restart, LastSeenAgrees
    <2>4. CASE UNCHANGED timelineVars BY <1>2, <2>4 DEF LastSeenAgrees, timelineVars
    <2> QED BY <1>2, <2>2, <2>3, <2>4 DEF TimelineNext
  <1> QED BY <1>1, <1>2, TimelineInvariant, PTL DEF TimelineSpec

(* The running totals of a feeder: of the newest day that was reported, and *)
(* of all feeds of that day.                                                *)
FeedsOf(d) == {u \in heard \cap Dispenses : Dev(u) = d}

Regular(d) ==   \* none late, none twice, none without its day
  /\ ~late /\ doubled \cap FeedsOf(d) = {}
  /\ \A u \in FeedsOf(d) : Report[u].day # NoDay

Running(d) ==
  LET totals == derived[d].totals
  IN Regular(d) =>
       IF FeedsOf(d) = {} THEN totals = NoTotals
       ELSE /\ totals.day # NoDay
            /\ \A u \in FeedsOf(d) : Report[u].day <= totals.day
            /\ totals.times = Cardinality({u \in FeedsOf(d) : Report[u].day = totals.day})

TotalsInv == TimelineInv /\ \A d \in Devices : Running(d)

LEMMA TotalsStart == ASSUME TimelineInit PROVE TotalsInv
  BY TimelineStarts DEF TimelineInit, TotalsInv, Running, FeedsOf, Unheard

(* A feed of a regular series is counted.                                   *)
LEMMA FeedCounted ==
  ASSUME NEW feeds, IsFiniteSet(feeds), NEW u, u \notin feeds,
         \A v \in feeds \cup {u} : Report[v].day \in Nat \ {0},
         NEW totals \in [day : Nat, times : Nat],
         u \in Dispenses, ~ (Report[u].day \in 1..(totals.day - 1)),
         IF feeds = {} THEN totals = NoTotals
         ELSE /\ totals.day # NoDay
              /\ \A v \in feeds : Report[v].day <= totals.day
              /\ totals.times = Cardinality({v \in feeds : Report[v].day = totals.day}),
         NEW newer, newer = Totals(totals, u)
  PROVE  /\ newer.day # NoDay
         /\ \A v \in feeds \cup {u} : Report[v].day <= newer.day
         /\ newer.times = Cardinality({v \in feeds \cup {u} : Report[v].day = newer.day})
  <1> DEFINE day == Report[u].day
             today(when) == {v \in feeds \cup {u} : Report[v].day = when}
  <1>1. day \in Nat \ {0} OBVIOUS
  <1>2. CASE feeds # {} /\ totals.day = day
    <2>1. totals # NoTotals BY <1>1, <1>2 DEF NoTotals, NoDay
    <2>2. newer.day = day /\ newer.times = totals.times + 1
      BY <1>2, <2>1 DEF Totals
    <2> DEFINE before == {v \in feeds : Report[v].day = day}
    <2>3. today(day) = before \cup {u} /\ u \notin before OBVIOUS
    <2>4. IsFiniteSet(before)
      <3>1. before \in SUBSET feeds OBVIOUS
      <3> HIDE DEF before
      <3> QED BY <3>1, FS_Subset
    <2>5. totals.times = Cardinality(before) BY <1>2
    <2> HIDE DEF before
    <2>6. Cardinality(before \cup {u}) = Cardinality(before) + 1 BY <2>3, <2>4, FS_AddElement
    <2>7. \A v \in feeds \cup {u} : Report[v].day <= newer.day BY <1>1, <1>2, <2>2
    <2>8. newer.times = Cardinality(today(newer.day)) BY <2>2, <2>3, <2>5, <2>6
    <2> QED BY <1>1, <2>2, <2>7, <2>8 DEF NoDay
  <1>3. CASE ~(feeds # {} /\ totals.day = day)
    <2>1. newer.day = day /\ newer.times = 1
      <3>1. CASE feeds = {} BY <3>1 DEF Totals
      <3>2. CASE feeds # {}
        <4>1. totals.day # day /\ day # NoDay BY <1>1, <1>3, <3>2 DEF NoDay
        <4> QED BY <4>1 DEF Totals
      <3> QED BY <3>1, <3>2
    <2>2. \A v \in feeds : Report[v].day < day
      <3>1. CASE feeds = {} BY <3>1
      <3>2. CASE feeds # {}
        <4>1. totals.day # day /\ totals.day \in Nat BY <1>3, <3>2
        <4>2. totals.day < day BY <1>1, <4>1
        <4> QED BY <1>1, <3>2, <4>1, <4>2
      <3> QED BY <3>1, <3>2
    <2>3. today(day) = {u} BY <1>1, <2>2
    <2>4. \A v \in feeds \cup {u} : Report[v].day <= newer.day BY <1>1, <2>1, <2>2
    <2>5. newer.times = Cardinality(today(newer.day))
      <3>1. today(newer.day) = {u} BY <2>1, <2>3
      <3> HIDE DEF today
      <3> QED BY <2>1, <3>1, FS_Singleton
    <2> QED BY <1>1, <2>1, <2>4, <2>5 DEF NoDay
  <1> QED BY <1>2, <1>3

LEMMA TotalsKept ==
  ASSUME TotalsInv, [TimelineNext]_timelineVars
  PROVE  TotalsInv'
  <1>1. TimelineInv' BY TimelineKeeps DEF TotalsInv
  <1>2. ASSUME NEW u \in story, NEW gap \in Gaps, Receive(u, gap), NEW d \in Devices
        PROVE  Running(d)'
    <2>1. /\ u \in Uids
          /\ \A e \in Devices : e # Dev(u) => derived'[e] = derived[e]
          /\ derived[Dev(u)] \in DerivedValues
          /\ derived'[Dev(u)].totals = IF u \in Dispenses THEN Totals(derived[Dev(u)].totals, u)
                                                          ELSE derived[Dev(u)].totals
      BY <1>2, DerivedNext DEF TotalsInv
    <2>2. heard' = heard \cup {u} BY <1>2 DEF Receive
    <2>3. doubled \subseteq doubled' /\ (u \in heard => u \in doubled') BY <1>2 DEF Receive
    <2>4. /\ late => late'
          /\ u \in Dispenses /\ Report[u].day \in 1..(derived[Dev(u)].totals.day - 1) => late'
      BY <1>2 DEF Receive
    <2>5. Running(d) BY DEF TotalsInv
    <2>6. CASE ~(u \in Dispenses /\ Dev(u) = d)
      <3>1. FeedsOf(d)' = FeedsOf(d) BY <2>2, <2>6 DEF FeedsOf
      <3>2. derived'[d].totals = derived[d].totals BY <2>1, <2>6
      <3>3. Regular(d)' => Regular(d) BY <2>3, <2>4, <3>1 DEF Regular
      <3> QED BY <2>5, <3>1, <3>2, <3>3 DEF Running
    <2>7. CASE u \in Dispenses /\ Dev(u) = d
      <3> SUFFICES ASSUME Regular(d)' PROVE Running(d)' BY DEF Running
      <3>1. FeedsOf(d)' = FeedsOf(d) \cup {u} BY <2>2, <2>7 DEF FeedsOf
      <3>2. Regular(d) BY <2>3, <2>4, <3>1 DEF Regular
      <3>3. u \notin FeedsOf(d)
        <4>1. doubled' \cap FeedsOf(d)' = {} BY DEF Regular
        <4>2. u \in FeedsOf(d) => u \in heard BY DEF FeedsOf
        <4> QED BY <2>3, <3>1, <4>1, <4>2
      <3>4. IsFiniteSet(FeedsOf(d))
        <4>1. IsFiniteSet(Uids) BY Catalogue, Zenon
        <4>2. FeedsOf(d) \in SUBSET Uids BY DEF FeedsOf, Dispenses, Tells
        <4> QED BY <4>1, <4>2, FS_Subset
      <3>5. \A v \in FeedsOf(d) \cup {u} : Report[v].day \in Nat \ {0}
        <4>1. FeedsOf(d) \subseteq Uids BY DEF FeedsOf, Dispenses, Tells
        <4>2. \A v \in Uids : Report[v].day \in Nat BY Catalogue
        <4>3. \A v \in FeedsOf(d) \cup {u} : Report[v].day # 0 BY <3>1 DEF Regular, NoDay
        <4> QED BY <2>1, <4>1, <4>2, <4>3
      <3>6. ~ (Report[u].day \in 1..(derived[d].totals.day - 1)) BY <2>4, <2>7 DEF Regular
      <3>7. derived[d].totals \in [day : Nat, times : Nat] BY <2>1, <2>7 DEF DerivedValues
      <3>8. IF FeedsOf(d) = {} THEN derived[d].totals = NoTotals
            ELSE /\ derived[d].totals.day # NoDay
                 /\ \A v \in FeedsOf(d) : Report[v].day <= derived[d].totals.day
                 /\ derived[d].totals.times
                      = Cardinality({v \in FeedsOf(d) : Report[v].day = derived[d].totals.day})
        BY <2>5, <3>2 DEF Running
      <3>9. derived'[d].totals = Totals(derived[d].totals, u) BY <2>1, <2>7
      <3> DEFINE feeds == FeedsOf(d)
                 totals == derived[d].totals
                 newer == Totals(totals, u)
      <3>10. /\ newer.day # NoDay
             /\ \A v \in feeds \cup {u} : Report[v].day <= newer.day
             /\ newer.times = Cardinality({v \in feeds \cup {u} : Report[v].day = newer.day})
        <4>1. IF feeds = {} THEN totals = NoTotals
              ELSE /\ totals.day # NoDay
                   /\ \A v \in feeds : Report[v].day <= totals.day
                   /\ totals.times = Cardinality({v \in feeds : Report[v].day = totals.day})
          BY <3>8
        <4>2. /\ IsFiniteSet(feeds) /\ u \notin feeds /\ totals \in [day : Nat, times : Nat]
              /\ \A v \in feeds \cup {u} : Report[v].day \in Nat \ {0}
              /\ u \in Dispenses /\ ~ (Report[u].day \in 1..(totals.day - 1))
          BY <2>7, <3>3, <3>4, <3>5, <3>6, <3>7
        <4>3. newer = Totals(totals, u) OBVIOUS
        <4> HIDE DEF feeds, totals, newer
        <4> QED BY <4>1, <4>2, <4>3, FeedCounted, SMTT(60)
      <3> HIDE DEF newer
      <3>11. derived'[d].totals = newer BY <3>9 DEF newer
      <3> QED BY <3>1, <3>10, <3>11 DEF Running
    <2> QED BY <2>6, <2>7
  <1>3. ASSUME Restart, NEW d \in Devices PROVE Running(d)'
    BY <1>3 DEF Restart, Running, FeedsOf, Unheard
  <1>4. ASSUME UNCHANGED timelineVars, NEW d \in Devices PROVE Running(d)'
    BY <1>4 DEF timelineVars, TotalsInv, Running, FeedsOf, Regular
  <1> QED BY <1>1, <1>2, <1>3, <1>4 DEF TimelineNext, TotalsInv

(* The totals of a feeder's day count its feeds, as long as none was        *)
(* reported twice, late or without its day.                                 *)
THEOREM TotalsCountTheDay == TimelineSpec => []FeedTotals
  <1>1. ASSUME TotalsInv PROVE FeedTotals
    <2> SUFFICES ASSUME NEW d \in Devices, Regular(d)
                 PROVE  derived[d].totals.times
                          = Cardinality({u \in FeedsOf(d) : Report[u].day = derived[d].totals.day})
      BY DEF FeedTotals, Regular, FeedsOf
    <2>1. Running(d) BY <1>1 DEF TotalsInv
    <2>2. CASE FeedsOf(d) = {}
      <3>1. derived[d].totals.times = 0 BY <2>1, <2>2 DEF Running, NoTotals
      <3>2. {u \in FeedsOf(d) : Report[u].day = derived[d].totals.day} = {} BY <2>2
      <3> QED BY <3>1, <3>2, FS_EmptySet
    <2>3. CASE FeedsOf(d) # {} BY <2>1, <2>3 DEF Running
    <2> QED BY <2>2, <2>3
  <1> QED BY <1>1, TotalsStart, TotalsKept, PTL DEF TimelineSpec
=============================================================================
