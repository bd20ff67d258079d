---------------------------- MODULE TenantSwitch ----------------------------
(* Whose data a request of the API reads (middleware.py): that of the      *)
(* tenant in its token, or, for an administrator of the provider, of one   *)
(* that a header names, if it can be read and is active.  Changes of that  *)
(* tenant are paced, and noted in the audit log when they take effect.     *)
(* The event loop runs a request up to its handler without interruption.   *)
EXTENDS Integers, FiniteSets

CONSTANTS
  Actors, Providers,   \* accounts; those with the role mssp_admin
  Tenants, Home,       \* client_id of every token here
  Nobody,              \* no header
  Window, MaxSwitches, \* _TENANT_SWITCH_WINDOW, _TENANT_SWITCH_MAX
  MaxTime, MaxFaults

\* What the proofs ask of an instance.
SwitchAssumption == Home \in Tenants /\ {Window, MaxSwitches} \subseteq Nat

VARIABLES
  clock, active,
  switches,    \* _tenant_switch_log: the stamps of each actor's switches
  last,        \* its _last_ entry: the tenant asked for last
  served,      \* the tenant of each actor's last request, Nobody if refused
  stay,        \* history: the last tenant in effect other than Home
  moved,       \* history: the stamps of when that became another one
  noted,       \* history: the tenant of each actor's last note in the audit log
  missed,      \* history: the tenant asked for last whose first request stayed at
               \* home, or whose note failed
  faults

switchVars == <<clock, active, switches, last, served, stay, moved, noted, missed, faults>>

Init ==
  /\ clock = 0 /\ active = Tenants /\ faults = 0
  /\ switches = [a \in Actors |-> {}] /\ moved = switches
  /\ last = [a \in Actors |-> Nobody] /\ served = [a \in Actors |-> Home] /\ stay = last
  /\ noted = last /\ missed = last

Tick ==
  /\ clock < MaxTime /\ clock' = clock + 1
  /\ UNCHANGED <<active, switches, last, served, stay, moved, noted, missed, faults>>
\* update_tenant
Flip(t) ==
  /\ t # Home
  /\ active' = IF t \in active THEN active \ {t} ELSE active \cup {t}
  /\ UNCHANGED <<clock, switches, last, served, stay, moved, noted, missed, faults>>

\* Broken variant of Override: the header is taken from everybody.
AsAsked(a, asked) == IF asked = Home THEN Nobody ELSE asked
Override(a, asked) == IF a \in Providers THEN AsAsked(a, asked) ELSE Nobody

\* time.monotonic() stamps no two switches of an actor alike.
Within(log) == {s \in log : clock - s.when < Window}
Stamped(log) ==
  log \cup {CHOOSE s \in [when : {clock}, n : 0..Cardinality(log)] : s \notin log}

Recent(a) == Within(switches[a])
\* Broken variant of Refused: one switch too many goes through.
OneMore(a) == Cardinality(Recent(a)) > MaxSwitches
Refused(a) == Cardinality(Recent(a)) >= MaxSwitches

\* Broken variant of Allowed: the record is not asked whether it is active.
Known(t) == TRUE
Allowed(t) == t \in active

\* The request runs for t.
Serve(a, t) ==
  /\ served' = [served EXCEPT ![a] = t]
  /\ IF t \in {stay[a], Home} THEN UNCHANGED <<stay, moved>>
     ELSE /\ stay' = [stay EXCEPT ![a] = t]
          /\ moved' = [moved EXCEPT ![a] = Stamped(Within(@))]

\* Broken variant of IsNew: one stay abroad is known from another no more.
OnlyTheFirst(a, t) == last[a] = Nobody
IsNew(a, t) == last[a] # t

\* dispatch, without a header that counts.
AtHome(a, asked) ==
  /\ Override(a, asked) = Nobody /\ Serve(a, Home)
  /\ UNCHANGED <<clock, active, switches, last, noted, missed, faults>>

TooMany(a, t) ==
  /\ IsNew(a, t) /\ Refused(a)
  /\ switches' = [switches EXCEPT ![a] = Recent(a)]
  /\ served' = [served EXCEPT ![a] = Nobody]
  /\ UNCHANGED <<clock, active, last, stay, moved, noted, missed, faults>>

\* The pace is kept before the tenant is looked up.
Count(a, t) ==
  /\ ~(IsNew(a, t) /\ Refused(a))
  /\ IF IsNew(a, t)
     THEN /\ switches' = [switches EXCEPT ![a] = Stamped(Recent(a))]
          /\ last' = [last EXCEPT ![a] = t]
     ELSE UNCHANGED <<switches, last>>

\* A tenant that cannot be read, or is not active, leaves the request at home.
LeftAtHome(a, t) ==
  /\ Count(a, t) /\ Serve(a, Home)
  /\ \/ ~Allowed(t) /\ UNCHANGED faults
     \/ faults < MaxFaults /\ faults' = faults + 1
  /\ IF IsNew(a, t)
     THEN missed' = [missed EXCEPT ![a] = t] ELSE UNCHANGED missed
  /\ UNCHANGED <<clock, active, noted>>

\* log_audit may fail, which is swallowed.
Abroad(a, t) ==
  /\ Count(a, t) /\ Allowed(t) /\ Serve(a, t)
  /\ IF ~IsNew(a, t) THEN UNCHANGED <<noted, missed, faults>>
     ELSE \/ /\ noted' = [noted EXCEPT ![a] = t]
             /\ missed' = [missed EXCEPT ![a] = Nobody] /\ UNCHANGED faults
          \/ /\ faults < MaxFaults /\ faults' = faults + 1
             /\ missed' = [missed EXCEPT ![a] = t] /\ UNCHANGED noted
  /\ UNCHANGED <<clock, active>>

Request(a, asked) ==
  \/ AtHome(a, asked)
  \/ /\ Override(a, asked) # Nobody
     /\ TooMany(a, asked) \/ LeftAtHome(a, asked) \/ Abroad(a, asked)

Next ==
  \/ Tick \/ \E t \in Tenants : Flip(t)
  \/ \E a \in Actors, asked \in Tenants \cup {Nobody} : Request(a, asked)
-----------------------------------------------------------------------------
TypeOK ==
  /\ active \subseteq Tenants /\ last \in [Actors -> Tenants \cup {Nobody}]
  /\ served \in [Actors -> Tenants \cup {Nobody}]

\* However switches, refusals and unreadable tenants follow each other, an actor is
\* moved to another tenant at most MaxSwitches times in a window, and once more
\* for a switch that was counted before it and took effect in it
\* (middleware.py:104).
SwitchesArePaced ==
  \A a \in Actors : Cardinality(Within(moved[a])) <= MaxSwitches + 1

\* A provider's stay at another tenant is in the audit log, even after requests
\* at home in between, unless its first request could not read the tenant or
\* the note failed (middleware.py:140).
StaysAreNoted ==
  \A a \in Actors : served[a] \notin {Home, Nobody} => served[a] \in {noted[a], missed[a]}

\* A tenant that is switched off serves nobody who asks for it, and nobody but a
\* provider is served by another tenant than the own one (middleware.py:90, 139).
NoneAbroad ==
  [][\A a \in Actors :
       served'[a] \notin {Home, Nobody} /\ served'[a] # served[a] =>
         a \in Providers /\ served'[a] \in active]_switchVars
=============================================================================
