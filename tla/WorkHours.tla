----------------------------- MODULE WorkHours -----------------------------
(* TimeContextEnricher (enrichers/__init__.py): what an operator wrote of  *)
(* business hours and of one maintenance window, in whatever state, is     *)
(* brought into a usable form when it is loaded, and each alert is scored  *)
(* by where its time, in the configured zone, falls.  A day is a row of    *)
(* slots; a time is the number of its slot in the week.                    *)
EXTENDS Integers, FiniteSets

CONSTANTS
  LastDay, LastSlot,    \* days 0..LastDay of a week, slots 0..LastSlot of a day
  Weekend,
  DefaultDays, DefaultStart, DefaultEnd,
  Zones                 \* how many slots the zone is ahead of UTC

Days == 0..LastDay
Slots == 0..LastSlot

\* What the proofs ask of an instance.
HoursAssumption ==
  /\ {LastDay, LastSlot} \subseteq Nat /\ Zones \subseteq Int
  /\ DefaultDays \subseteq Days /\ {DefaultStart, DefaultEnd} \subseteq Slots

Week == (LastDay + 1) * (LastSlot + 1)

\* A time or a multiplier that is no such, and one that is not given.
Unusable == -1
NotSet == -2
Times == Slots \cup {Unusable}

VARIABLES
  zone,
  hours,       \* business_hours as written; Absent if there is no block
  window,      \* a maintenance window as written
  outside,     \* outside_business_hours_multiplier as written, in tenths
  now          \* the alert's time, in UTC

weekVars == <<zone, hours, window, outside, now>>

Block == [days : SUBSET Days, start : Times, end : Times]
Absent == [days |-> {}, start |-> NotSet, end |-> NotSet]

\* One block at a time is of interest.
Init ==
  /\ zone \in Zones /\ now = 0
  /\ \/ hours \in Block /\ window = Absent /\ outside \in {NotSet, Unusable, 20}
     \/ window \in Block /\ hours = Absent /\ outside = NotSet
Next == now < Week - 1 /\ now' = now + 1 /\ UNCHANGED <<zone, hours, window, outside>>
-----------------------------------------------------------------------------
(* What is made of the configuration.                                      *)

\* Broken variant of OrElse: an unusable time is kept.
AsWritten(time, default) == time
OrElse(time, default) == IF time \in Slots THEN time ELSE default

\* _validate_business_hours.
Business ==
  [days |-> IF hours.days = {} THEN DefaultDays ELSE hours.days,
   start |-> OrElse(hours.start, DefaultStart), end |-> OrElse(hours.end, DefaultEnd)]

\* _validate_maintenance_windows drops a window that lacks a day or a time.
Usable == window.days # {} /\ window.start \in Slots /\ window.end \in Slots

\* _validate_risk_adjustments.
OutsideRisk == IF outside < 0 THEN 15 ELSE outside
-----------------------------------------------------------------------------
(* An alert.                                                               *)

\* Broken variant of Local: hours are compared with UTC.
AsInUtc == now
Local == (now + zone) % Week
Day == Local \div (LastSlot + 1)
Slot == Local % (LastSlot + 1)

\* Broken variant of Within: ends are left out.
Between(start, end) == start < Slot /\ Slot < end
Within(start, end) == start <= Slot /\ Slot <= end

\* _is_business_hours.
InHours == hours = Absent \/ (Day \in Business.days /\ Within(Business.start, Business.end))

\* Broken variant of Overnight: a window past midnight is empty.
NeverOver(start, end) == FALSE
Overnight(start, end) == start > end /\ (Slot >= start \/ Slot <= end)
\* _is_maintenance_window.
InWindow ==
  Usable /\ Day \in window.days
  /\ (Within(window.start, window.end) \/ Overnight(window.start, window.end))

\* The multiplier of enrich, in hundredths.
Risk ==
  (IF InWindow THEN 3 ELSE IF InHours THEN 10 ELSE OutsideRisk)
  * (IF Day \in Weekend THEN 13 ELSE 10)
-----------------------------------------------------------------------------
(* What an operator means: from the start on a named day on to the end,    *)
(* the next day if the end comes before the start, on the clock of the     *)
(* zone.                                                                   *)

From(d, start, end) ==
  LET first == d * (LastSlot + 1) + start
      length == IF start <= end THEN end - start ELSE end - start + LastSlot + 1
  IN {(first + i + Week - zone) % Week : i \in 0..length}
Meant(days, start, end) == \E d \in days : now \in From(d, start, end)

TypeOK == now \in 0..Week - 1 /\ Slot \in Slots /\ Day \in Days

\* Hours of one day are taken as meant, in their zone (enrichers/__init__.py:782);
\* what is unusable in them is replaced by the default, and not by all day or
\* never (enrichers/__init__.py:1189).  Hours that go past midnight are never.
HoursAsMeant ==
  LET days == IF hours.days = {} THEN DefaultDays ELSE hours.days
      start == IF hours.start = Unusable THEN DefaultStart ELSE hours.start
      end == IF hours.end = Unusable THEN DefaultEnd ELSE hours.end
  IN hours # Absent =>
       (InHours <=> IF start <= end THEN Meant(days, start, end) ELSE FALSE)

\* So is a window (enrichers/__init__.py:1218), also past midnight if it is for
\* every day; otherwise its part after midnight is that of the day it is named
\* for, and not of the next.
WindowAsMeant ==
  Usable =>
    /\ window.start <= window.end \/ window.days = Days =>
         (InWindow <=> Meant(window.days, window.start, window.end))
    /\ InWindow => Day \in window.days

\* An alert outside the hours is never scored below one inside them, unless a
\* window was configured for its time, nor above without hours to be outside of
\* (enrichers/__init__.py:1186).
RiskAsMeant ==
  /\ Risk < 100 => window # Absent /\ Usable
  /\ hours = Absent /\ ~Usable => Risk = IF Day \in Weekend THEN 130 ELSE 100
  /\ hours # Absent /\ ~InHours => Risk >= 150
=============================================================================
