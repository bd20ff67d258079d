--------------------------- MODULE TenantBackend ---------------------------
(***************************************************************************)
(* One tenant's MultiProviderLLMBackend (llm_providers/multi_provider.py): *)
(* triage workers call its only provider through a circuit breaker.  The   *)
(* provider and its breaker are created by the first call, without a lock; *)
(* a caller looks the breaker up before it has a provider and reports to   *)
(* the breaker it looked up, if any.  The breaker has no lock either: its  *)
(* count is read and written in two steps.  Pacing and permits are those   *)
(* of LlmBackend.                                                          *)
(***************************************************************************)
EXTENDS Integers, FiniteSets

CONSTANTS
  Callers,
  Threshold,  \* failure_threshold
  MaxOutages  \* bound on outages of the provider

BreakerAssumption ==
  IsFiniteSet(Callers) /\ Threshold \in Nat \ {0} /\ MaxOutages \in Nat

VARIABLES
  up,       \* the provider answers
  made,     \* breakers created so far
  breaker,  \* the one in circuit_breakers, 0 for none
  state,    \* of each breaker
  count,    \* failure_count of each breaker, Threshold standing for more
  rested,   \* recovery_timeout has passed since the breaker's last failure
  at,       \* "idle", "admitted", "creating", "calling" or "failed"
  held,     \* the breaker each caller looked up, 0 for none
  read,     \* the count a failed caller has read
  outages

backendVars == <<up, made, breaker, state, count, rested, at, held, read,
                 outages>>
world == <<up, outages>>
breakers == <<made, breaker, state, count, rested>>

Breakers == 1..Cardinality(Callers)

Init ==
  /\ up = TRUE /\ outages = 0
  /\ made = 0 /\ breaker = 0 /\ state = [b \in Breakers |-> "closed"]
  /\ count = [b \in Breakers |-> 0] /\ rested = [b \in Breakers |-> FALSE]
  /\ at = [c \in Callers |-> "idle"] /\ held = [c \in Callers |-> 0]
  /\ read = [c \in Callers |-> 0]

Goto(c, s) == at' = [at EXCEPT ![c] = s]

GoesDown ==
  /\ up /\ outages < MaxOutages /\ outages' = outages + 1
  /\ up' = FALSE
  /\ UNCHANGED <<breakers, at, held, read>>

ComesUp ==
  /\ ~up /\ up' = TRUE
  /\ UNCHANGED <<outages, breakers, at, held, read>>

Rest(b) ==
  /\ state[b] = "open" /\ ~rested[b] /\ rested' = [rested EXCEPT ![b] = TRUE]
  /\ UNCHANGED <<world, made, breaker, state, count, at, held, read>>

\* Broken variant of Lookup: what the caller saw the first time.
LookupFirst(c) == 0

Lookup(c) == breaker

\* Broken variant of CanCall: an open breaker stays open.
CanCallClosed(b) == state[b] = "closed"

CanCall(b) == state[b] = "open" => rested[b]

\* can_call: a breaker that has rested lets everybody through until a call
\* ends.  A call that is not admitted raises.
Ask(c) ==
  LET b == Lookup(c) IN
  /\ at[c] = "idle"
  /\ b # 0 => CanCall(b)
  /\ held' = [held EXCEPT ![c] = b]
  /\ state' = IF b # 0 /\ state[b] = "open" THEN [state EXCEPT ![b] = "half_open"]
              ELSE state
  /\ Goto(c, "admitted")
  /\ UNCHANGED <<world, made, breaker, count, rested, read>>

\* _get_or_create_provider.
FindProvider(c) ==
  /\ at[c] = "admitted"
  /\ Goto(c, IF breaker = 0 THEN "creating" ELSE "calling")
  /\ UNCHANGED <<world, breakers, held, read>>

\* Broken variant of CreateProvider: a new one for every call.
CreateEachTime(c) ==
  /\ at[c] \in {"creating", "admitted"}
  /\ made' = made + 1 /\ breaker' = made + 1
  /\ Goto(c, "calling")
  /\ UNCHANGED <<world, state, count, rested, held, read>>

CreateProvider(c) ==
  /\ at[c] = "creating"
  /\ made' = made + 1 /\ breaker' = made + 1
  /\ Goto(c, "calling")
  /\ UNCHANGED <<world, state, count, rested, held, read>>

\* record_success.
Close(b) ==
  /\ state' = [state EXCEPT ![b] = "closed"] /\ count' = [count EXCEPT ![b] = 0]

Succeed(c) ==
  /\ at[c] = "calling" /\ up
  /\ IF held[c] = 0 THEN UNCHANGED <<state, count>> ELSE Close(held[c])
  /\ Goto(c, "idle")
  /\ UNCHANGED <<world, made, breaker, rested, held, read>>

Fails(c) ==
  /\ at[c] = "calling" /\ ~up
  /\ read' = [read EXCEPT ![c] = IF held[c] = 0 THEN 0 ELSE count[held[c]]]
  /\ Goto(c, IF held[c] = 0 THEN "idle" ELSE "failed")
  /\ UNCHANGED <<world, breakers, held>>

\* record_failure.
RecordFailure(c) ==
  LET b == held[c]
      n == IF read[c] < Threshold THEN read[c] + 1 ELSE Threshold IN
  /\ at[c] = "failed"
  /\ count' = [count EXCEPT ![b] = n] /\ rested' = [rested EXCEPT ![b] = FALSE]
  /\ state' = IF n = Threshold THEN [state EXCEPT ![b] = "open"] ELSE state
  /\ Goto(c, "idle")
  /\ UNCHANGED <<world, made, breaker, held, read>>

CallStep(c) ==
  \/ Ask(c) \/ FindProvider(c) \/ CreateProvider(c)
  \/ Succeed(c) \/ Fails(c) \/ RecordFailure(c)

Next ==
  \/ GoesDown \/ ComesUp
  \/ \E b \in Breakers : Rest(b)
  \/ \E c \in Callers : CallStep(c)
-----------------------------------------------------------------------------
(* Properties.                                                             *)

TypeOK ==
  /\ up \in BOOLEAN /\ outages \in 0..MaxOutages
  /\ made \in {0} \cup Breakers /\ breaker \in {0} \cup Breakers
  /\ state \in [Breakers -> {"closed", "open", "half_open"}]
  /\ count \in [Breakers -> 0..Threshold] /\ rested \in [Breakers -> BOOLEAN]
  /\ at \in [Callers -> {"idle", "admitted", "creating", "calling", "failed"}]
  /\ held \in [Callers -> {0} \cup Breakers] /\ read \in [Callers -> 0..Threshold]

Rejects == breaker # 0 /\ state[breaker] = "open" /\ ~rested[breaker]

\* multi_provider.py:49: a provider that is down is left alone in the end,
\* although counts of concurrent failures can be lost, first calls are not
\* counted and a second first call replaces the breaker.
EventuallyRejects == ~up ~> (up \/ Rejects)

\* multi_provider.py:32: a provider that is back is used again.
EventuallyCloses == up ~> (~up \/ breaker = 0 \/ state[breaker] = "closed")
=============================================================================
