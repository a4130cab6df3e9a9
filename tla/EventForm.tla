----------------------------- MODULE EventForm -----------------------------
(***************************************************************************)
(* The start of an event in the form of EventForm.tsx: an instant becomes a  *)
(* local date and a local time of whole minutes, and these become an instant *)
(* again when the form is submitted.                                        *)
(*                                                                         *)
(* Times count half minutes, so that a start may have seconds.  A time zone  *)
(* is an offset that changes once: clocks go forward, or back.              *)
(*                                                                         *)
(* PartsOfUTCDate is a mistake one could make in LocalParts; nothing uses  *)
(* it.                                                                     *)
(***************************************************************************)
EXTENDS Integers

CONSTANTS
  Day,       \* half minutes of a day, an even number
  Zone,      \* time zones: offsets before and after the instant of the change
  Instant    \* an interval of instants, around the change

\* Offsets are whole minutes.
ASSUME ClockOK ==
  /\ Day \in Nat \ {0} /\ Day % 2 = 0
  /\ Instant \subseteq Int
  /\ \A z \in Zone : /\ z \in [before : Int, after : Int, change : Int]
                     /\ z.before % 2 = 0 /\ z.after % 2 = 0

Offset(zone, t) == IF t < zone.change THEN zone.before ELSE zone.after
LocalTime(zone, t) == t + Offset(zone, t)

\* A date and a time of day in whole minutes, as the inputs hold them.
Fields(local) == [date |-> local \div Day, time |-> (local % Day) - (local % 2)]

\* toLocalParts()
PartsOfUTCDate(zone, t) == [Fields(LocalTime(zone, t)) EXCEPT !.date = t \div Day]
LocalParts(zone, t)     == Fields(LocalTime(zone, t))

\* new Date(`${date}T${time}`): of two readings the first; a time the clocks skip
\* is read with the offset before the change (ECMAScript).
Combined(zone, parts) ==
  LET local    == parts.date * Day + parts.time
      readings == {t \in {local - zone.before, local - zone.after} : LocalTime(zone, t) = local}
  IN IF readings = {} THEN local - zone.before
     ELSE CHOOSE t \in readings : \A s \in readings : t <= s

\* handleSubmit() on a form nobody touched.
Resubmitted(zone, t) == Combined(zone, LocalParts(zone, t))

\* Whether an instant is the second one of a local time that is repeated.
SecondReading(zone, t) ==
  LET s == t + zone.after - zone.before IN s < t /\ LocalTime(zone, s) = LocalTime(zone, t)
===========================================================================
