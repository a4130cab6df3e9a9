------------------------------ MODULE Schema ------------------------------
(***************************************************************************)
(* The columns of the database that the services decide on, for one event  *)
(* (backend/prisma/schema.prisma).  A participant is named by the          *)
(* normalised e-mail address: Registration is unique on (eventId, email)   *)
(* and its rows are never deleted, so the address also names the row.      *)
(*                                                                         *)
(* OverwrittenByAbsent, KeyWithoutRegistration and KeyWithoutStart are     *)
(* mistakes one could make in Patched and Key; nothing uses them.          *)
(***************************************************************************)
EXTENDS Naturals, FiniteSets

CONSTANTS Email,      \* the addresses that may register
          StartTime,  \* the values startsAt may take
          NoTime,     \* a startsAt that a request or an e-mail does not carry
          Capacity,   \* the capacities an organizer may ask for
          MaxPos      \* the largest value of the INTEGER column waitlistPos

ASSUME EmailFinite  == IsFiniteSet(Email)
ASSUME TimeAbsent   == NoTime \notin StartTime
ASSUME CapacityOK   == Capacity \subseteq Nat \ {0}
ASSUME MaxPosOK     == MaxPos \in Nat \ {0}

NoCapacity == 0      \* a PATCH body without capacity
NoPos      == 0      \* waitlistPos IS NULL
NoCode     == 0      \* no Ticket row

EventStatus        == {"ACTIVE", "CANCELLED"}
RegistrationStatus == {"NONE", "REGISTERED", "WAITLISTED", "CANCELLED"}  \* NONE: no row
EmailType          == {"REGISTRATION_TICKET", "WAITLIST_PROMOTED",
                       "EVENT_REMINDER", "EVENT_RESCHEDULED", "EVENT_CANCELLED"}

\* The fields of the PATCH body that reach the decision, each possibly absent.
Patch == [capacity : Capacity \cup {NoCapacity}, startsAt : StartTime \cup {NoTime}]

\* An `undefined` field of a Prisma update leaves its column alone.
OverwrittenByAbsent(old, new, absent) == new
Patched(old, new, absent)             == IF new = absent THEN old ELSE new

(***************************************************************************)
(* A row of EmailLog.  `at` is the new start a reschedule announces, `code` *)
(* the ticket code in the payload; the n-th code minted for one address is *)
(* the number n.                                                           *)
(***************************************************************************)
Mail == [type : EmailType, to : Email, at : StartTime \cup {NoTime}, code : Nat]

TicketMail(p, code)   == [type |-> "REGISTRATION_TICKET", to |-> p, at |-> NoTime, code |-> code]
PromotedMail(p, code) == [type |-> "WAITLIST_PROMOTED",   to |-> p, at |-> NoTime, code |-> code]
RescheduledMail(p, t) == [type |-> "EVENT_RESCHEDULED",   to |-> p, at |-> t, code |-> NoCode]
CancelledMail(p)      == [type |-> "EVENT_CANCELLED",     to |-> p, at |-> NoTime, code |-> NoCode]

\* deduplicationKey: registration-ticket:<reg>, waitlist-promoted:<reg>,
\* event-rescheduled:<event>:<reg>:<start>, event-cancelled:<event>:<reg>.
KeyWithoutRegistration(m) == <<m.type, m.at>>
KeyWithoutStart(m)        == <<m.type, m.to>>
Key(m)                    == <<m.type, m.to, m.at>>

\* createMany with skipDuplicates on the unique deduplicationKey.
Recorded(log, mails) ==
  log \cup {m \in mails : \A n \in log : Key(n) # Key(m)}
===========================================================================
