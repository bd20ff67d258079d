---------------------------- MODULE MCModelCalls ----------------------------
(* What happens around a call of the language model, on small instances:   *)
(* the budget (BudgetGuard), the backend of the process (LlmBackend) and   *)
(* the backend of a tenant with its breaker (TenantBackend).  They share   *)
(* no state, so that a run checks one of them at a time: part says which.  *)
EXTENDS BudgetGuard, TLC

CONSTANTS
  w1, w2, c1, c2,
  Callers,                                             \* of either backend
  Permits, Cooldown, Attempts, MaxFailed, MaxTime,     \* of LlmBackend
  Threshold, MaxOutages                                \* of TenantBackend

TwoWorkers == {w1, w2}
TwoCallers == {c1, c2}

VARIABLES part,
  permits, now, last, step, slot, attempt, lastUsage, taken, paid, charged,
  answers, together, starts, failed,
  up, made, breaker, state, count, rested, at, held, read, outages

Llm == INSTANCE LlmBackend
Tenant == INSTANCE TenantBackend
ASSUME CallsAssumption == Llm!BackendAssumption /\ Tenant!BreakerAssumption

llmVars == <<permits, now, last, step, slot, attempt, lastUsage, taken, paid,
             charged, answers, together, starts, failed>>
tenantVars == <<up, made, breaker, state, count, rested, at, held, read, outages>>
allVars == <<part, vars, llmVars, tenantVars>>

AllInit ==
  /\ part \in {"budget", "llm", "tenant"}
  /\ Init /\ Llm!Init /\ Tenant!Init
  /\ part # "llm" => permits = 1

BudgetPart ==
  part = "budget" /\ Next /\ UNCHANGED <<part, llmVars, tenantVars>>
LlmPart ==
  part = "llm" /\ Llm!Next /\ UNCHANGED <<part, vars, tenantVars>>
TenantPart ==
  part = "tenant" /\ Tenant!Next /\ UNCHANGED <<part, vars, llmVars>>
\* Both calls have ended.
Ended ==
  /\ part = "llm" /\ \A c \in Callers : step[c] = "done"
  /\ UNCHANGED allVars
AllNext == BudgetPart \/ LlmPart \/ TenantPart \/ Ended

\* The fairness of each part, for runs of that part.
AllFair ==
  /\ \A w \in Workers :
       /\ SF_vars(part = "budget" /\ ReadSpend(w))
       /\ WF_vars(part = "budget" /\ (Admit(w) \/ Refuse(w)))
       /\ WF_vars(part = "budget" /\ Release(w))
  /\ WF_llmVars(part = "llm" /\ Llm!Tick)
  /\ \A c \in Callers :
       /\ WF_llmVars(part = "llm" /\ Llm!CallStep(c))
       /\ SF_llmVars(part = "llm" /\ Llm!Start(c))
  /\ \A b \in Tenant!Breakers : WF_tenantVars(part = "tenant" /\ Tenant!Rest(b))
  /\ \A c \in Callers : WF_tenantVars(part = "tenant" /\ Tenant!CallStep(c))

AllSpec == AllInit /\ [][AllNext]_allVars /\ AllFair
-----------------------------------------------------------------------------
(* Properties.                                                             *)

\* Types of all parts.  However many workers call at once, calls start at the
\* configured pace (claude_backend.py:145), the tokens of a call are charged to
\* another one only if both were inside the semaphore together
\* (claude_backend.py:180), and every answer of the provider is paid for once
\* (claude_backend.py:224).
CallsHold ==
  /\ TypeOK /\ Llm!TypeOK /\ Tenant!TypeOK
  /\ Llm!CallsArePaced /\ Llm!UsageStaysInside /\ Llm!AnswersArePaid

\* A call that waits for its slot ends, with an answer or an exception; a
\* provider that is down is left alone in the end (multi_provider.py:49), and
\* one that is back is used again (multi_provider.py:32).
CallsEnd == Llm!CallsEnd /\ Tenant!EventuallyRejects /\ Tenant!EventuallyCloses
=============================================================================
