-------------------------- MODULE EventForm_proofs --------------------------
(***************************************************************************)
(* Theorems about EventForm for every length of the day, every time zone    *)
(* whose offset changes once, and every instant.                            *)
(***************************************************************************)
EXTENDS EventForm, TLAPS

\* The local time that the two inputs make is the one that was split, less its
\* seconds.
LEMMA FieldsMeet ==
  ASSUME NEW local \in Int
  PROVE  Fields(local).date * Day + Fields(local).time = local - (local % 2)
<1>1. Day \in Nat /\ Day > 0
  BY ClockOK
<1>2. /\ Fields(local).date = local \div Day
      /\ Fields(local).time = (local % Day) - (local % 2)
  BY DEF Fields
<1>3. PICK days \in Int, rest \in Int, second \in Int :
        days = (local \div Day) * Day /\ rest = local % Day /\ second = local % 2
  BY <1>1
<1>4. (local \div Day) * Day + (local % Day) = local
  BY <1>1
<1>5. days + rest = local
  BY <1>3, <1>4
<1>6. Fields(local).date * Day = days /\ Fields(local).time = rest - second
  BY <1>2, <1>3
<1>7. days + (rest - second) = local - second
  BY <1>5
<1>. QED
  BY <1>3, <1>6, <1>7

\* Whole minutes leave the seconds as they are.
LEMMA Parity ==
  /\ \A a, b \in Int : b % 2 = 0 => (a + b) % 2 = a % 2 /\ (a - b) % 2 = a % 2
  /\ \A a \in Int : a % 2 \in 0..1 /\ (a - (a % 2)) % 2 = 0
OBVIOUS

LEMMA LocalTimes ==
  ASSUME NEW zone \in Zone, NEW t \in Int
  PROVE  /\ zone.before \in Int /\ zone.after \in Int /\ zone.change \in Int
         /\ LocalTime(zone, t) \in Int /\ LocalTime(zone, t) % 2 = t % 2
         /\ \/ t < zone.change /\ LocalTime(zone, t) = t + zone.before
            \/ t >= zone.change /\ LocalTime(zone, t) = t + zone.after
<1>1. /\ zone.before \in Int /\ zone.after \in Int /\ zone.change \in Int
      /\ zone.before % 2 = 0 /\ zone.after % 2 = 0
  BY ClockOK
<1>2. \/ t < zone.change /\ LocalTime(zone, t) = t + zone.before
      \/ t >= zone.change /\ LocalTime(zone, t) = t + zone.after
  BY <1>1 DEF LocalTime, Offset
<1>3. (t + zone.before) % 2 = t % 2 /\ (t + zone.after) % 2 = t % 2
  BY <1>1, Parity
<1>4. CASE t < zone.change /\ LocalTime(zone, t) = t + zone.before
  <2>1. LocalTime(zone, t) \in Int
    BY <1>1, <1>4
  <2>2. LocalTime(zone, t) % 2 = (t + zone.before) % 2
    BY <1>4
  <2>. QED
    BY <1>1, <1>3, <1>4, <2>1, <2>2, Zenon
<1>5. CASE t >= zone.change /\ LocalTime(zone, t) = t + zone.after
  <2>1. LocalTime(zone, t) \in Int
    BY <1>1, <1>5
  <2>2. LocalTime(zone, t) % 2 = (t + zone.after) % 2
    BY <1>5
  <2>. QED
    BY <1>1, <1>3, <1>5, <2>1, <2>2, Zenon
<1>. QED
  BY <1>2, <1>4, <1>5

\* What was entered is an instant with that local time, the first if there are
\* two; if the clocks skip it, it is read with the offset before the change.
LEMMA Reading ==
  ASSUME NEW zone \in Zone, NEW parts, NEW local \in Int, NEW t,
         local = parts.date * Day + parts.time, t = Combined(zone, parts)
  PROVE  /\ t \in Int
         /\ \/ /\ LocalTime(zone, t) = local
               /\ \A s \in Int : LocalTime(zone, s) = local => t <= s
            \/ /\ t = local - zone.before
               /\ \A s \in Int : LocalTime(zone, s) # local
<1>1. zone.before \in Int /\ zone.after \in Int /\ zone.change \in Int
  BY ClockOK
<1> DEFINE first    == local - zone.before
           second   == local - zone.after
           readings == {s \in {first, second} : LocalTime(zone, s) = local}
<1>2. first \in Int /\ second \in Int
  BY <1>1
<1>3. \A s \in Int : LocalTime(zone, s) = local => s \in readings
  BY <1>1 DEF LocalTime, Offset
<1>4. t = IF readings = {} THEN first ELSE CHOOSE r \in readings : \A s \in readings : r <= s
  BY DEF Combined
<1>5. CASE readings = {}
  BY <1>2, <1>3, <1>4, <1>5
<1>6. CASE readings # {}
  <2>1. readings \subseteq Int
    BY <1>2
  <2>2. \E r \in readings : \A s \in readings : r <= s
    <3>1. CASE first \in readings /\ second \in readings
      BY <1>2, <3>1
    <3>2. CASE first \notin readings \/ second \notin readings
      BY <1>2, <1>6, <3>2
    <3>. QED
      BY <3>1, <3>2
  <2>3. t \in readings /\ \A s \in readings : t <= s
    BY <1>4, <1>6, <2>2
  <2>. QED
    BY <1>3, <2>1, <2>3
<1>. QED
  BY <1>5, <1>6

\* A start without seconds that is the first of its local time comes back.
LEMMA FirstReadingsReturn ==
  ASSUME NEW zone \in Zone, NEW t \in Int
  PROVE  /\ Resubmitted(zone, t) \in Int
         /\ Resubmitted(zone, t) = t <=> t % 2 = 0 /\ ~SecondReading(zone, t)
<1>1. /\ zone.before \in Int /\ zone.after \in Int /\ zone.change \in Int
      /\ zone.before % 2 = 0 /\ zone.after % 2 = 0
  BY ClockOK
<1> DEFINE local == LocalTime(zone, t)
           whole == local - (local % 2)
           back  == Resubmitted(zone, t)
<1>2. local \in Int /\ whole \in Int /\ local % 2 = t % 2 /\ whole % 2 = 0
  BY LocalTimes, Parity
<1>3. whole = LocalParts(zone, t).date * Day + LocalParts(zone, t).time
  BY <1>2, FieldsMeet DEF LocalParts
<1>4. /\ back \in Int
      /\ \/ /\ LocalTime(zone, back) = whole
            /\ \A s \in Int : LocalTime(zone, s) = whole => back <= s
         \/ /\ back = whole - zone.before
            /\ \A s \in Int : LocalTime(zone, s) # whole
  BY <1>2, <1>3, Reading DEF Resubmitted
<1>5. back % 2 = 0
  <2>1. (whole - zone.before) % 2 = 0
    BY <1>1, <1>2, Parity
  <2>. QED
    BY <1>2, <1>4, <2>1, LocalTimes
<1>6. ASSUME t % 2 = 0, ~SecondReading(zone, t)
      PROVE  back = t
  <2>1. whole = local
    BY <1>2, <1>6
  <2>2. LocalTime(zone, back) = local /\ back <= t
    BY <1>4, <2>1
  <2>3. back = t \/ back = t + zone.after - zone.before
    <3>1. \/ back < zone.change /\ local = back + zone.before
          \/ back >= zone.change /\ local = back + zone.after
      BY <1>4, <2>2, LocalTimes
    <3>2. \/ t < zone.change /\ local = t + zone.before
          \/ t >= zone.change /\ local = t + zone.after
      BY LocalTimes
    <3>3. back \in Int /\ local \in Int /\ back <= t
      BY <1>2, <1>4, <2>2
    <3> HIDE DEF back, local
    <3>. QED
      BY <1>1, <3>1, <3>2, <3>3
  <2>. QED
    BY <1>4, <1>6, <2>2, <2>3 DEF SecondReading
<1>7. ASSUME t % 2 = 0, SecondReading(zone, t)
      PROVE  back # t
  <2>1. PICK s \in Int : s < t /\ LocalTime(zone, s) = local
    BY <1>1, <1>7 DEF SecondReading
  <2>2. whole = local
    BY <1>2, <1>7
  <2>. QED
    BY <1>4, <2>1, <2>2
<1>. QED
  BY <1>4, <1>5, <1>6, <1>7

\* What is entered in the form comes back when the form is opened and submitted
\* again, also a time that is repeated, and one that the clocks skip.
LEMMA EnteredReturns ==
  ASSUME NEW zone \in Zone, NEW local \in Int, NEW entered, entered = Combined(zone, Fields(local))
  PROVE  Resubmitted(zone, entered) = entered
<1>1. /\ zone.before \in Int /\ zone.after \in Int /\ zone.change \in Int
      /\ zone.before % 2 = 0 /\ zone.after % 2 = 0
  BY ClockOK
<1> DEFINE whole == local - (local % 2)
<1>2. whole \in Int /\ whole % 2 = 0 /\ whole = Fields(local).date * Day + Fields(local).time
  BY FieldsMeet
<1>3. /\ entered \in Int
      /\ \/ /\ LocalTime(zone, entered) = whole
            /\ \A s \in Int : LocalTime(zone, s) = whole => entered <= s
         \/ /\ entered = whole - zone.before
            /\ \A s \in Int : LocalTime(zone, s) # whole
  BY <1>2, Reading
<1>4. entered % 2 = 0
  <2>1. (whole - zone.before) % 2 = 0
    BY <1>1, <1>2, Parity
  <2>. QED
    BY <1>2, <1>3, <2>1, LocalTimes
<1>5. ~SecondReading(zone, entered)
  <2>1. CASE LocalTime(zone, entered) = whole /\ \A s \in Int : LocalTime(zone, s) = whole => entered <= s
    BY <1>1, <1>3, <2>1 DEF SecondReading
  <2>2. CASE entered = whole - zone.before /\ \A s \in Int : LocalTime(zone, s) # whole
    <3>1. LocalTime(zone, whole - zone.before) # whole /\ LocalTime(zone, whole - zone.after) # whole
      BY <1>1, <1>2, <2>2
    <3>2. zone.after > zone.before
      BY <1>1, <1>2, <3>1 DEF LocalTime, Offset
    <3>. QED
      BY <1>1, <1>3, <3>2 DEF SecondReading
  <2>. QED
    BY <1>3, <2>1, <2>2
<1>. QED
  BY <1>3, <1>4, <1>5, FirstReadingsReturn

\* Saving a form in which the start was left alone keeps the start, exactly if it
\* has no seconds and is no second reading of its local time; and keeps whatever
\* was entered in this form (EventForm.tsx:20-27, 61).
THEOREM FormKeepsTheStart ==
  \A zone \in Zone, t \in Instant :
    /\ Resubmitted(zone, t) = t <=> t % 2 = 0 /\ ~SecondReading(zone, t)
    /\ LET entered == Combined(zone, Fields(t)) IN Resubmitted(zone, entered) = entered
BY ClockOK, FirstReadingsReturn, EnteredReturns
===========================================================================
