------------------------------ MODULE FeedPlan ------------------------------
(* The meals of one feeder (http/handlers/feed.py, web/api/schedules.py,   *)
(* the schedule's text entity in ha/commands.py, mqtt/bridge.py).  The     *)
(* feeder dispenses on its own clock from the plan it fetched last: the    *)
(* feeds of today and tomorrow, and when to ask again.  A weekly schedule  *)
(* counts seconds; one saved by an old panel counts minutes, has no stamp, *)
(* and is converted when the feeder asks.                                  *)
(*                                                                         *)
(* A tick stands for a second, so a countdown is exact, and every day has  *)
(* Day ticks.  The groups of a schedule are flattened: a meal has the      *)
(* weekdays of its group.  `want' is the time of day the user meant.  What *)
(* a feeder makes of a schedule pushed as a property is not known: the     *)
(* push is left out, its command to ask again is not.                      *)
EXTENDS Integers

CONSTANTS
  Day,        \* the ticks of a day
  Minute,     \* the ticks of a minute
  Week,       \* the days of a week
  EmptyTick,  \* when to ask again if nothing is planned
  Horizon,    \* bound: the last tick
  MaxEdits    \* bound: how often the schedule is changed

ASSUME FeedAssumption ==
  /\ {Day, Minute, Week, EmptyTick} \subseteq Nat \ {0}
  /\ Horizon \in Nat /\ MaxEdits \in Nat
  /\ EmptyTick < Day

VARIABLES
  now,       \* the clock
  feed,      \* config["feed_schedule"]; its stamp v is 0 where the key is missing
  copy,      \* the schedule the panel's editor works on
  command,   \* the feed_get command: "none", "queued", or "asked" once the feeder has it
  plan,      \* the feeds the feeder will dispense
  next,      \* when it asks again
  fetched,   \* the schedule that answer was made from
  intact,    \* no editor has stamped minutes as seconds, and no post of the feeder has
             \* taken the stamp off seconds that could be minutes
  edits

feedVars == <<now, feed, copy, command, plan, next, fetched, intact, edits>>

Weekdays == 0..(Week - 1)
Meal(days, t, want) == [days |-> days, t |-> t, want |-> want]
Meals == [days : SUBSET Weekdays, t : 0..(Day - 1), want : 0..(Day - 1)]
Schedule(v, meals, deferred) == [v |-> v, meals |-> meals, deferred |-> deferred]
Schedules == [v : {0, 2}, meals : SUBSET Meals, deferred : SUBSET Nat]
NoFeed == Schedule(2, {}, {})
\* The feeds of a plan: a recurring one has the day it falls on, a one-off one is named by
\* the moment it was asked for.
Entry(kind, at, want) == [kind |-> kind, at |-> at, want |-> want]

FeedTypeOK ==
  /\ now \in 0..Horizon /\ next \in 0..(Horizon + 2 * Day) /\ edits \in 0..MaxEdits
  /\ {feed, copy, fetched} \subseteq Schedules
  /\ command \in {"none", "queued", "asked"} /\ intact \in BOOLEAN
  /\ plan \subseteq [kind : {"s", "d"}, at : Nat, want : 0..(Day - 1)]

-----------------------------------------------------------------------------

Midnight(day) == day * Day
Today == now \div Day

\* Everything an old editor could store is below a day's minutes.
UpToMinutes(m) == m.t =< Day \div Minute
InMinutes(m) == m.t < Day \div Minute
MigrateSchedule(s) ==
  IF s.v = 2 THEN s
  ELSE [s EXCEPT !.v = 2,
                 !.meals = IF \A m \in @ : InMinutes(m)
                           THEN {[m EXCEPT !.t = @ * Minute] : m \in @}
                           ELSE @]

\* Meals that come to the same in minutes and in seconds, or that no day has the minutes for.
Unmistakable(s) ==
  \/ s.v = 2
  \/ \A m \in s.meals : m.t = 0
  \/ \E m \in s.meals : m.t * Minute >= Day

OnWeekday(s, day) == {m \in s.meals : day % Week \in m.days}

WeeklyTodayOnly(s) == {Entry("s", Midnight(Today) + m.t, m.want) : m \in OnWeekday(s, Today)}
Weekly(s) ==
  UNION {{Entry("s", Midnight(d) + m.t, m.want) : m \in OnWeekday(s, d)} : d \in {Today, Today + 1}}

\* One-off feeds that are over are dropped from the schedule itself.
Prune(s) == [s EXCEPT !.deferred = {at \in @ : at > now}]

BuildLatest(s) ==
  LET cutoff == Midnight(Today + 2) IN
  {e \in Weekly(s) : now < e.at /\ e.at < cutoff}
    \cup {Entry("d", at, at % Day) : at \in {x \in Prune(s).deferred : x < cutoff}}

\* The countdown of the last feed listed.
ComputeNextTick(latest) ==
  IF latest = {} THEN EmptyTick
  ELSE (CHOOSE e \in latest : \A f \in latest : f.at <= e.at).at - now

-----------------------------------------------------------------------------

FeedInit ==
  /\ now = 0
  /\ feed \in {NoFeed} \cup {Schedule(0, {Meal(Weekdays, t, t * Minute)}, {}) :
                               t \in 0..(Day \div Minute - 1)}
  /\ copy = feed /\ command = "none" /\ plan = {} /\ next = 0 /\ fetched = NoFeed
  /\ intact = TRUE /\ edits = 0

\* dev_feed_get: asked because the time has come, because a heartbeat told the feeder to, or
\* because it has just started.
FeedGet ==
  LET migrated == MigrateSchedule(feed)
      latest == BuildLatest(migrated) IN
  /\ feed' = Prune(migrated)
  /\ fetched' = feed'
  /\ plan' = latest
  /\ next' = now + ComputeNextTick(latest)
  /\ command' = IF command = "asked" THEN "none" ELSE command
  /\ UNCHANGED <<now, copy, intact, edits>>

\* The feeder's clock: it asks before it lets the moment pass at which it should, and a feed
\* whose time has come is dispensed.
Pass ==
  /\ now < Horizon /\ now < next
  /\ now' = now + 1
  /\ plan' = {e \in plan : e.at > now'}
  /\ UNCHANGED <<feed, copy, command, next, fetched, intact, edits>>

\* A heartbeat takes the queue, and its answer may be lost.
TakeCommand ==
  /\ command = "queued"
  /\ command' \in {"asked", "none"}
  /\ UNCHANGED <<now, feed, copy, plan, next, fetched, intact, edits>>

\* The stored schedule changes, and the feeder is told to ask.
Store(s) ==
  /\ edits < MaxEdits /\ edits' = edits + 1
  /\ feed' = s
  /\ command' = IF command = "asked" THEN "asked" ELSE "queued"
  /\ UNCHANGED <<now, copy, plan, next, fetched>>

OpenEditor ==
  /\ copy' = feed
  /\ UNCHANGED <<now, feed, command, plan, next, fetched, intact, edits>>

\* The editor's copy, with meals taken away and perhaps one added, is stored as a whole.
SaveMeals(kept, added) ==
  /\ Store(Prune(Schedule(2, kept \cup added, copy.deferred)))
  /\ intact' = (intact /\ (Unmistakable(copy) \/ \A m \in kept : m.t = 0))
SaveSchedule ==
  \E kept \in SUBSET copy.meals :
    \/ SaveMeals(kept, {})
    \/ \E d \in Weekdays, t \in 0..(Day - 1) : SaveMeals(kept, {Meal({d}, t, t)})

\* The text entity holds the whole document, written in seconds.
TextCommand ==
  \E t \in 0..(Day - 1) :
    Store(Prune(Schedule(2, {Meal(Weekdays, t, t)}, {}))) /\ UNCHANGED intact

\* A one-off feed is added to what is stored, or taken out of it.
AddDeferred ==
  \E at \in (now + 1)..Horizon :
    Store([feed EXCEPT !.deferred = @ \cup {at}]) /\ UNCHANGED intact
DeleteDeferred ==
  \E at \in feed.deferred :
    Store([feed EXCEPT !.deferred = @ \ {at}]) /\ UNCHANGED intact

\* A property post of the feeder carries the schedule it was given, without the stamp and
\* without the one-off feeds, and replaces what is stored: meals in seconds that could be
\* minutes will be taken for minutes.  The feeder is not told to ask.
SyncFromDevice ==
  /\ edits < MaxEdits /\ edits' = edits + 1
  /\ feed' = Schedule(0, fetched.meals, {})
  /\ intact' = (intact /\ Unmistakable(feed'))
  /\ UNCHANGED <<now, copy, command, plan, next, fetched>>

FeedNext ==
  \/ FeedGet \/ Pass \/ TakeCommand \/ OpenEditor \/ SaveSchedule \/ TextCommand
  \/ AddDeferred \/ DeleteDeferred \/ SyncFromDevice

FeedSpec == FeedInit /\ [][FeedNext]_feedVars

-----------------------------------------------------------------------------

\* Every moment at which a schedule asks for food.
Fires(s) ==
  (UNION {{Midnight(d) + m.t : m \in {meal \in s.meals : d % Week \in meal.days}} :
            d \in 0..(Horizon \div Day + 2)})
    \cup s.deferred

\* A feeder is out of reach at feeding time: until it asks again its plan holds every feed of
\* the schedule it asked for, and none that schedule does not ask for.  (_build_latest lists
\* two days and _compute_next_tick must bring the feeder back before a third begins.)
PlanComplete ==
  {e.at : e \in plan} = {at \in Fires(fetched) : now < at /\ at <= next}

\* Meals come at the time of day the user meant: minutes are converted once, and seconds
\* never.  Two histories are excused (intact).  An editor saves meals that it loaded before
\* they were converted, with the stamp that says seconds.  And the feeder posts meals in
\* seconds that all come so early in the day that they could be minutes: the post takes the
\* place of the stamped schedule, and the next dev_feed_get multiplies them again, although
\* such a schedule "carries the stamp and is left alone" (feed.py 62-63).
MealsOnTime == intact => \A e \in plan : e.at % Day = e.want
=============================================================================
