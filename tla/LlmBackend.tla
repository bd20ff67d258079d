----------------------------- MODULE LlmBackend -----------------------------
(***************************************************************************)
(* One LLMBackend (agents/claude_backend.py) shared by the triage workers  *)
(* of a process.  A caller reserves the next start slot under a lock,      *)
(* sleeps until it comes, passes a semaphore, asks the provider, takes the *)
(* token counts that the provider left in its attribute last_usage, writes *)
(* a usage row and parses the answer; a call that raises is repeated.      *)
(* Each caller makes one call.                                             *)
(***************************************************************************)
EXTENDS Integers, FiniteSets

CONSTANTS
  Callers,
  Permits,   \* values of max_concurrent_calls
  Cooldown,  \* cooldown_seconds, above 0
  Attempts,  \* stop_after_attempt(3)
  Nobody,    \* no call
  MaxFailed, \* bound on attempts that raise
  MaxTime    \* bound on time in which nobody waits for a slot

BackendAssumption ==
  /\ IsFiniteSet(Callers) /\ Permits \subseteq Nat \ {0}
  /\ Cooldown \in Nat \ {0} /\ Attempts \in Nat \ {0}
  /\ MaxFailed \in Nat /\ MaxTime \in Nat

VARIABLES
  permits,    \* max_concurrent_calls of this process
  now, last,  \* the clock, and _last_call_time
  step,       \* "idle", "asleep", "calling", "answered", "billed", "done"
  slot,       \* start slot each caller reserved
  attempt,    \* attempts each caller has begun
  lastUsage,  \* provider.last_usage: the caller whose tokens it counts
  taken,      \* the usage each caller took
  paid,       \* usage rows with success = TRUE of each caller
  charged,    \* pairs of a caller and whose tokens its row counts
  answers,    \* history: answers each caller got
  together,   \* history: pairs of callers that were in the semaphore together
  starts,     \* history: calls that left the rate limiter
  failed      \* attempts that raised

llmVars == <<permits, now, last, step, slot, attempt, lastUsage, taken, paid, charged,
             answers, together, starts, failed>>
clock == <<permits, now, last, slot>>
bills == <<paid, charged>>
seen == <<answers, together, starts>>

Init ==
  /\ permits \in Permits
  /\ now = 0 /\ last = -Cooldown /\ slot = [c \in Callers |-> 0]
  /\ step = [c \in Callers |-> "idle"] /\ attempt = [c \in Callers |-> 0]
  /\ lastUsage = Nobody /\ taken = [c \in Callers |-> Nobody]
  /\ paid = [c \in Callers |-> 0] /\ charged = {}
  /\ answers = [c \in Callers |-> 0] /\ together = {} /\ starts = 0
  /\ failed = 0

Goto(c, s) == step' = [step EXCEPT ![c] = s]
Inside == {c \in Callers : step[c] \in {"calling", "answered"}}

Fail == failed < MaxFailed /\ failed' = failed + 1

Tick ==
  /\ now < MaxTime \/ \E c \in Callers : step[c] = "asleep" /\ now < slot[c]
  /\ now' = now + 1
  /\ UNCHANGED <<permits, last, slot, step, attempt, lastUsage, taken, bills, seen, failed>>

\* Broken variant of NextSlot: callers that come together get the same slot.
SharedSlot == now

\* _rate_limit, under its lock.
NextSlot == IF now > last + Cooldown THEN now ELSE last + Cooldown

\* call, and each repetition of it.
Reserve(c) ==
  /\ step[c] = "idle" /\ attempt[c] < Attempts
  /\ slot' = [slot EXCEPT ![c] = NextSlot] /\ last' = NextSlot
  /\ attempt' = [attempt EXCEPT ![c] = @ + 1] /\ Goto(c, "asleep")
  /\ UNCHANGED <<permits, now, lastUsage, taken, bills, seen, failed>>

\* The slot has come and the semaphore has a permit.
Start(c) ==
  /\ step[c] = "asleep" /\ now >= slot[c] /\ Cardinality(Inside) < permits
  /\ Goto(c, "calling")
  /\ together' = together \cup ({c} \X Inside) \cup (Inside \X {c})
  /\ starts' = starts + 1
  /\ UNCHANGED <<clock, attempt, lastUsage, taken, bills, answers, failed>>

\* The provider answers and leaves the counts of this call behind.
Answer(c) ==
  /\ step[c] = "calling" /\ lastUsage' = c
  /\ answers' = [answers EXCEPT ![c] = @ + 1] /\ Goto(c, "answered")
  /\ UNCHANGED <<clock, attempt, taken, bills, together, starts, failed>>

\* The counts are read before the semaphore is left.
TakeUsage(c) ==
  /\ step[c] = "answered" /\ taken' = [taken EXCEPT ![c] = lastUsage]
  /\ Goto(c, "billed")
  /\ UNCHANGED <<clock, attempt, lastUsage, bills, seen, failed>>

\* Broken variant of UsageOf: the counts are read when the row is written.
UsageWhenWritten(c) == lastUsage

UsageOf(c) == taken[c]

\* Broken variant of Track: only an answer that was understood counts.
TrackParsed(c, parsed) ==
  IF parsed THEN paid' = [paid EXCEPT ![c] = @ + 1] ELSE UNCHANGED paid

\* _track: the answer is paid for whether or not it can be parsed.
Track(c, parsed) == paid' = [paid EXCEPT ![c] = @ + 1]

\* Broken variant of Raise: the last failure is repeated as well.
RaiseAlways(c) == Goto(c, "idle")

\* tenacity: another attempt, or the exception reaches the caller.
Raise(c) == Goto(c, IF attempt[c] = Attempts THEN "done" ELSE "idle")

\* The row, and _parse_json_response, which may raise; the row that follows
\* then has success = FALSE and no counts.
Finish(c, parsed) ==
  /\ step[c] = "billed" /\ Track(c, parsed)
  /\ charged' = charged \cup {<<c, UsageOf(c)>>}
  /\ IF parsed THEN Goto(c, "done") /\ UNCHANGED failed ELSE Raise(c) /\ Fail
  /\ UNCHANGED <<clock, attempt, lastUsage, taken, seen>>

\* The provider raises or times out; its row has success = FALSE.
CallFails(c) ==
  /\ step[c] = "calling" /\ Raise(c) /\ Fail
  /\ UNCHANGED <<clock, attempt, lastUsage, taken, bills, seen>>

CallStep(c) ==
  \/ Reserve(c) \/ Start(c) \/ TakeUsage(c)
  \/ Answer(c) \/ CallFails(c)
  \/ \E parsed \in BOOLEAN : Finish(c, parsed)

Next == Tick \/ \E c \in Callers : CallStep(c)
-----------------------------------------------------------------------------
(* Properties.                                                             *)

TypeOK ==
  /\ permits \in Permits
  /\ now \in 0..(MaxTime + Cooldown * Attempts * Cardinality(Callers))
  /\ last \in -Cooldown..(now + Cooldown * Cardinality(Callers))
  /\ step \in [Callers -> {"idle", "asleep", "calling", "answered", "billed", "done"}]
  /\ attempt \in [Callers -> 0..Attempts]
  /\ lastUsage \in Callers \cup {Nobody} /\ taken \in [Callers -> Callers \cup {Nobody}]
  /\ charged \subseteq Callers \X Callers

\* claude_backend.py:145: however many workers call at once, and however long
\* one sleeps or waits, calls start at the configured pace.
CallsArePaced == starts <= now \div Cooldown + 1

\* claude_backend.py:180: the tokens of a call are charged to another one only
\* if both were inside the semaphore together; with one permit never.
UsageStaysInside == \A p \in charged : p[1] # p[2] => p \in together

\* Every answer the provider gave is paid for once, through failed parses and
\* repetitions.
AnswersArePaid ==
  \A c \in Callers :
    paid[c] = answers[c] - IF step[c] \in {"answered", "billed"} THEN 1 ELSE 0

\* A call ends, with an answer or an exception, if the provider answers or
\* times out.
CallsEnd == \A c \in Callers : step[c] = "asleep" ~> step[c] = "done"
=============================================================================
