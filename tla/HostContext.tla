---------------------------- MODULE HostContext ----------------------------
(* What an alert is told of its host (VulnerabilityContextEnricher and     *)
(* HostIntegrityContextEnricher of enrichers/__init__.py): its open        *)
(* vulnerabilities, from an index that all tenants share, its failed       *)
(* checks, or its open findings and changed files, from the tenant's own   *)
(* manager.  The answer sharpens the risk score and is cached for some     *)
(* minutes.  Every failure ends in an empty answer: an enrichment may be   *)
(* silent, but is not to tell a tenant of a host of another one, nor to    *)
(* keep what a failed look gave.                                           *)
EXTENDS Integers, FiniteSets

CONSTANTS
  Tenants, Nobody,   \* Nobody: no tenant in context, or all of them
  Agents, Enrolled,  \* whose manager each agent reports to
  Threads,
  MaxChanges, MaxFaults

VARIABLES
  look,      \* which of the two: "vuln" or "integrity"
  host,      \* what is wrong with each agent
  mapped,    \* get_tenant_agent_ids: agents whose tenant is recorded
  cache,     \* the TTL cache, per tenant and agent
  work,      \* the alert each thread enriches
  changes, faults

\* What the proofs ask of an instance.
AgentsAssumption == Agents # {}

hostVars == <<look, host, mapped, cache, work, changes, faults>>

\* From the index, and from the manager; in this order.
Sources == IF look = "vuln" THEN <<"cve", "sca">> ELSE <<"rootcheck", "fim">>
Kinds == {Sources[1], Sources[2]}

Nothing == [found |-> {}, missed |-> {}, old |-> FALSE]
None == [Nothing EXCEPT !.missed = {"no entry"}]
Idle == [at |-> "idle", tenant |-> Nobody, agent |-> CHOOSE a \in Agents : TRUE,
         scoped |-> FALSE, result |-> Nothing]

Init ==
  /\ look \in {"vuln", "integrity"}
  /\ host = [a \in Agents |-> Kinds] /\ mapped = Agents
  /\ cache = [k \in Tenants \X Agents |-> None]
  /\ work = [th \in Threads |-> Idle]
  /\ changes = 0 /\ faults = 0

\* The environment: hosts fall ill and are repaired, agents are mapped and
\* removed; what was read before is then old.
Outdated(a) ==
  /\ cache' = [k \in DOMAIN cache |->
       IF k[2] = a /\ cache[k] # None THEN [cache[k] EXCEPT !.old = TRUE] ELSE cache[k]]
  /\ work' = [th \in Threads |->
       IF work[th].at # "idle" /\ work[th].agent = a
       THEN [work[th] EXCEPT !.result.old = TRUE] ELSE work[th]]
Change(a) ==
  /\ changes < MaxChanges /\ changes' = changes + 1
  /\ \/ \E k \in Kinds :
          /\ host' = [host EXCEPT ![a] = IF k \in host[a] THEN @ \ {k} ELSE @ \cup {k}]
          /\ UNCHANGED mapped
     \/ /\ look = "vuln" /\ UNCHANGED host
        /\ mapped' = IF a \in mapped THEN mapped \ {a} ELSE mapped \cup {a}
  /\ Outdated(a)
  /\ UNCHANGED <<look, faults>>
Expire(k) ==
  /\ cache[k] # None /\ cache' = [cache EXCEPT ![k] = None]
  /\ UNCHANGED <<look, host, mapped, work, changes, faults>>
-----------------------------------------------------------------------------
Fault == faults < MaxFaults /\ faults' = faults + 1
Missed(th, what) == [work[th].result EXCEPT !.missed = @ \cup {what}]
\* An empty answer, which no cache keeps.
Degrades(th) ==
  work' = [work EXCEPT ![th].at = "told",
                       ![th].result = [Nothing EXCEPT !.missed = {"all"}]]

\* Broken variant of Key: an agent's entry serves every tenant.
SharedKey(t, a) == <<CHOOSE u \in Tenants : TRUE, a>>
Key(t, a) == <<t, a>>

\* enrich, up to the cache: the tenant's client may be refused
\* (TenantConfigUnavailable), and without a tenant there is none.
Start(th) ==
  /\ work[th].at = "idle"
  /\ \E t \in Tenants \cup {Nobody}, a \in Agents :
       LET new == [Idle EXCEPT !.tenant = t, !.agent = a] IN
       \/ /\ t = Nobody /\ UNCHANGED faults
          /\ work' = [work EXCEPT ![th] = [new EXCEPT !.at = "told",
                                             !.result.missed = {"all"}]]
       \/ /\ t # Nobody /\ Fault
          /\ work' = [work EXCEPT ![th] = [new EXCEPT !.at = "told",
                                             !.result.missed = {"all"}]]
       \/ /\ t # Nobody /\ UNCHANGED faults
          /\ work' = [work EXCEPT ![th] =
               IF cache[Key(t, a)] # None
               THEN [new EXCEPT !.at = "told", !.result = cache[Key(t, a)]]
               ELSE [new EXCEPT !.at = IF look = "vuln" THEN "scope" ELSE "first"]]
  /\ UNCHANGED <<look, host, mapped, cache, changes>>

\* Broken variant of Allows: the alert's word is taken for its agent.
AnyAgent(t, a) == TRUE
\* _resolve_vuln_scope: agents mapped to the tenant.
Allows(t, a) == a \in mapped /\ Enrolled[a] = t

\* A mapping that cannot be read is an empty one: nothing is found then, and
\* that is cached.
Scope(th) ==
  /\ work[th].at = "scope"
  /\ \/ /\ UNCHANGED faults
        /\ work' = [work EXCEPT ![th].at = "first",
                      ![th].scoped = Allows(work[th].tenant, work[th].agent)]
     \/ /\ Fault
        /\ work' = [work EXCEPT ![th].at = "first", ![th].result = Missed(th, Sources[1])]
  /\ UNCHANGED <<look, host, mapped, cache, changes>>

\* What a source says of the agent: the index of any in scope, a manager of its own.
Says(th, kind) ==
  LET w == work[th] IN
  IF (kind = "cve" /\ w.scoped) \/ (kind # "cve" /\ Enrolled[w.agent] = w.tenant)
  THEN host[w.agent] \cap {kind} ELSE {}
Found(th, kind) == [work[th].result EXCEPT !.found = @ \cup Says(th, kind)]

\* Broken variant of OnFailedSearch: a failed search is one without a hit.
NoHit(th) ==
  work' = [work EXCEPT ![th].at = "second", ![th].result = Missed(th, "search")]
\* _fetch_vulns raises what is not a missing index.
OnFailedSearch(th) == Degrades(th)

First(th) ==
  /\ work[th].at = "first"
  /\ \/ /\ UNCHANGED faults
        /\ work' = [work EXCEPT ![th].at = "second",
                                ![th].result = Found(th, Sources[1])]
     \/ /\ Fault
        /\ IF look = "vuln" THEN OnFailedSearch(th)
           ELSE work' = [work EXCEPT ![th].at = "second",
                                     ![th].result = Missed(th, Sources[1])]
  /\ UNCHANGED <<look, host, mapped, cache, changes>>

\* The manager's client answers a failed call with an empty list; what _compute
\* returns is cached.
Second(th) ==
  LET Keeps(result) ==
        /\ work' = [work EXCEPT ![th].at = "told", ![th].scoped = FALSE,
                                ![th].result = result]
        /\ cache' = [cache EXCEPT ![Key(work[th].tenant, work[th].agent)] = result] IN
  /\ work[th].at = "second"
  /\ \/ UNCHANGED faults /\ Keeps(Found(th, Sources[2]))
     \/ Fault /\ Keeps(Missed(th, Sources[2]))
  /\ UNCHANGED <<look, host, mapped, changes>>

Done(th) ==
  /\ work[th].at = "told" /\ work' = [work EXCEPT ![th] = Idle]
  /\ UNCHANGED <<look, host, mapped, cache, changes, faults>>

Next ==
  \/ \E a \in Agents : Change(a)
  \/ \E k \in DOMAIN cache : Expire(k)
  \/ \E th \in Threads :
       Start(th) \/ Scope(th) \/ First(th) \/ Second(th) \/ Done(th)
-----------------------------------------------------------------------------
(* The multiplier of an answer, in hundredths and with the default         *)
(* settings: a product of what was found, up to a ceiling.  Of the         *)
(* vulnerabilities some are critical (1.5) and some high (1.2).            *)

Factor(kind) == CASE kind = "cve" -> 180 [] kind = "sca" -> 130
                  [] kind = "rootcheck" -> 130 [] OTHER -> 115
Ceiling == IF look = "vuln" THEN 180 ELSE 150
Product(found) ==
  (IF Sources[1] \in found THEN Factor(Sources[1]) ELSE 100)
  * (IF Sources[2] \in found THEN Factor(Sources[2]) ELSE 100)
\* Broken variant of Capped: factors stack without a ceiling.
Stacked(product) == product \div 100
Capped(product) == IF product > 100 * Ceiling THEN Ceiling ELSE product \div 100
Multiplier(found) == Capped(Product(found))
-----------------------------------------------------------------------------
Told == {w \in {work[th] : th \in Threads} : w.at = "told"}

TypeOK ==
  /\ mapped \subseteq Agents
  /\ \A w \in Told : w.result.found \subseteq Kinds /\ w.tenant \in Tenants \cup {Nobody}

\* No tenant is told of another tenant's host, whatever agent an alert names, and
\* from the cache neither (enrichers/__init__.py:1266, 1465).
OwnHostsOnly == \A w \in Told : w.result.found # {} => Enrolled[w.agent] = w.tenant

\* What is told of a host is so, but for what was missed in the look that found
\* it, and what has changed since (enrichers/__init__.py:1481).
ToldAsItIs ==
  \A w \in Told :
    w.tenant # Nobody /\ Enrolled[w.agent] = w.tenant /\ ~w.result.old
    /\ "all" \notin w.result.missed =>
      w.result.found = (IF w.agent \in mapped THEN host[w.agent]
                        ELSE host[w.agent] \ {"cve"}) \ w.result.missed

\* A look that failed is not kept as a host without findings
\* (enrichers/__init__.py:1489); but for the sources whose failure is taken for an
\* empty answer.
FailureIsNotKept ==
  \A k \in DOMAIN cache : cache[k] # None =>
    cache[k].missed \subseteq {"cve", "sca", "rootcheck", "fim"}

\* What is told sharpens a score only so far, and never lowers it
\* (enrichers/__init__.py:1289).
SharpenedOnly == \A w \in Told : Multiplier(w.result.found) \in 100..Ceiling
=============================================================================
