-------------------------- MODULE AssetInventory --------------------------
(* What one process knows of the hosts of its tenants (enrichers/__init__  *)
(* .py, service.py, routes/admin.py): the inventory that a tenant keeps in *)
(* the database is loaded at the start, for the configured tenant only,    *)
(* when an administrator asks for it, and again some time after a load     *)
(* that failed.  Until it is loaded, and beside it, an inventory file and  *)
(* name patterns serve all tenants.  An alert is told the tier of its host *)
(* and whether that can be trusted; the verdict guard lets nothing be      *)
(* dismissed on a tier that cannot.                                        *)
EXTENDS Integers, FiniteSets

CONSTANTS
  Tenants,
  Home,        \* client_id of the configuration
  Hosts,
  Patterned,   \* hosts that asset_criticality has a pattern for
  Threads,     \* triage threads and API requests that load
  MaxEdits, MaxLoads, MaxFaults

Unlisted == "unlisted"
Unknown == "unknown"
Critical == "tier 1"
Nowhere == [h \in Hosts |-> Unlisted]

\* What the proofs ask of an instance.
AssetsAssumption == Home \in Tenants

VARIABLES
  inventory,   \* assets: the tier of each host, per tenant
  slice,       \* _assets_by_tenant
  shared,      \* _shared_assets, of the file
  failed,      \* _reload_failed_tenants
  cooling,     \* tenants whose _asset_reload_retry_after is to come
  job,         \* the load each thread is at
  lost,        \* history: tenants whose last load to end had failed
  behind,      \* history: tenants whose rows are not those last kept
  edits, loads, faults

inventoryVars == <<inventory, slice, shared, failed, cooling, job, lost, behind,
                   edits, loads, faults>>

Idle == [at |-> "idle", tenant |-> Home, got |-> Nowhere, fresh |-> TRUE]

\* The constructor loads the file, and the database for the tenant in context.
Init ==
  /\ inventory \in [Tenants -> {Nowhere, [h \in Hosts |-> Critical]}]
  /\ shared \in {Nowhere, [h \in Hosts |-> IF h \in Patterned THEN Unlisted ELSE Unknown]}
  /\ slice = [t \in Tenants |-> Nowhere]
  /\ failed = {} /\ cooling = {} /\ lost = {} /\ behind = Tenants
  /\ \E th \in Threads : job = [u \in Threads |->
       IF u = th THEN [Idle EXCEPT !.at = "read"] ELSE Idle]
  /\ edits = 0 /\ loads = 0 /\ faults = 0
-----------------------------------------------------------------------------
(* The inventory in the database.                                          *)

Edited(t, rows) ==
  /\ edits < MaxEdits /\ edits' = edits + 1
  /\ inventory' = [inventory EXCEPT ![t] = rows]
  /\ behind' = IF rows = inventory[t] THEN behind ELSE behind \cup {t}
  /\ job' = [th \in Threads |->
       IF job[th].at = "keep" /\ job[th].tenant = t /\ rows # inventory[t]
       THEN [job[th] EXCEPT !.fresh = FALSE] ELSE job[th]]
  /\ UNCHANGED <<slice, shared, failed, cooling, lost, loads, faults>>

\* create_asset, update_asset, delete_asset: save_asset takes what it is given,
\* for a host that is listed too.
Classify(t) ==
  \E h \in Hosts, tier \in {Unlisted, Unknown, Critical} :
    Edited(t, [inventory[t] EXCEPT ![h] = tier])

\* Broken variant of Discovered: what a person said of a host is written over.
Overwritten(t, found) == [h \in Hosts |-> IF h \in found THEN Unknown ELSE inventory[t][h]]
\* upsert_discovered_asset of every agent found: new hosts only.
Discovered(t, found) ==
  [h \in Hosts |-> IF h \in found /\ inventory[t][h] = Unlisted THEN Unknown
                   ELSE inventory[t][h]]
\* An empty answer of the manager changes nothing.
Discover(t) == \E found \in (SUBSET Hosts) \ {{}} : Edited(t, Discovered(t, found))
-----------------------------------------------------------------------------
(* Loading.                                                                *)

Begin(th, t) ==
  /\ job[th].at = "idle" /\ loads < MaxLoads /\ loads' = loads + 1
  /\ job' = [job EXCEPT ![th] = [Idle EXCEPT !.at = "read", !.tenant = t]]
  /\ UNCHANGED <<inventory, slice, shared, failed, lost, behind, edits, faults>>

\* reload_enrichers.
AskReload(th, t) == Begin(th, t) /\ UNCHANGED cooling

\* _maybe_self_heal_assets, with an alert of the tenant; the next attempt is
\* put off before this one is made.
Heal(th, t) ==
  /\ t \in failed /\ t \notin cooling
  /\ Begin(th, t) /\ cooling' = cooling \cup {t}
CoolsDown(t) ==
  /\ t \in cooling /\ cooling' = cooling \ {t}
  /\ UNCHANGED <<inventory, slice, shared, failed, job, lost, behind, edits, loads,
                 faults>>

\* Broken variant of Failing: one flag for all, which the next load resets.
Unsaid(t) == failed
Failing(t) == failed \cup {t}

\* get_assets_as_dict.
Read(th) ==
  LET t == job[th].tenant IN
  /\ job[th].at = "read"
  /\ \/ /\ job' = [job EXCEPT ![th].at = "keep", ![th].got = inventory[t]]
        /\ UNCHANGED <<failed, lost, faults>>
     \/ /\ faults < MaxFaults /\ faults' = faults + 1
        /\ failed' = Failing(t) /\ lost' = lost \cup {t}
        /\ job' = [job EXCEPT ![th] = Idle]
  /\ UNCHANGED <<inventory, slice, shared, cooling, behind, edits, loads>>

\* Broken variant of SliceOf: one inventory for the process (before WO-S11).
OneForAll(t) == Home
\* _tenant_slice_key.
SliceOf(t) == t

\* The rest of reload_from_db: an empty inventory leaves what is there, and the
\* flag of an earlier failure with it.
Keep(th) ==
  LET t == job[th].tenant IN
  /\ job[th].at = "keep" /\ job' = [job EXCEPT ![th] = Idle]
  /\ IF job[th].got = Nowhere
     THEN UNCHANGED <<slice, failed>>
     ELSE /\ slice' = [slice EXCEPT ![SliceOf(t)] = job[th].got]
          /\ failed' = failed \ {t}
  /\ lost' = lost \ {t}
  /\ behind' = IF job[th].fresh THEN behind \ {t} ELSE behind \cup {t}
  /\ UNCHANGED <<inventory, shared, cooling, edits, loads, faults>>

Next ==
  \/ \E t \in Tenants :
       \/ Classify(t) \/ Discover(t) \/ CoolsDown(t)
       \/ \E th \in Threads : AskReload(th, t) \/ Heal(th, t)
  \/ \E th \in Threads : Read(th) \/ Keep(th)
-----------------------------------------------------------------------------
(* AssetEnricher.enrich.                                                   *)

\* _lookup.
Found(t, h) ==
  IF slice[SliceOf(t)][h] # Unlisted THEN slice[SliceOf(t)][h] ELSE shared[h]
ByPattern(t, h) == Found(t, h) = Unlisted /\ h \in Patterned
Tier(t, h) ==
  IF ByPattern(t, h) THEN Critical ELSE IF Found(t, h) = Unlisted THEN Unknown
  ELSE Found(t, h)

\* Broken variant of Trusted: a host that is found is known.
FoundIsKnown(t, h) == ByPattern(t, h) \/ Found(t, h) # Unlisted
\* Broken variant of Trusted: no load failed.
NothingRaised(t, h) == t \notin failed
\* asset_lookup_ok.
Trusted(t, h) ==
  \/ ByPattern(t, h)
  \/ /\ t \notin failed
     /\ Found(t, h) # Unlisted \/ slice[SliceOf(t)] # Nowhere \/ shared # Nowhere
-----------------------------------------------------------------------------
(* IdentityEnricher.enrich: the users of an alert come as a set, so in any *)
(* order.  A user is the tenths of its risk multiplier, 0 if not listed.   *)

Multipliers == {0, 10, 12, 20}
Stranger == 15

\* Broken variant of WithStranger: an unknown user is worth 1.5, whoever else.
JustStranger(acc) == [acc EXCEPT !.multiplier = Stranger]
WithStranger(acc) ==
  [acc EXCEPT !.multiplier = IF acc.most > Stranger THEN acc.most ELSE Stranger]
WithUser(acc, user) ==
  IF user = 0 THEN WithStranger(acc)
  ELSE IF user > acc.most THEN [most |-> user, multiplier |-> user] ELSE acc
UserRisk(first, second) ==
  WithUser(WithUser([most |-> 10, multiplier |-> 10], first), second).multiplier
-----------------------------------------------------------------------------
TypeOK ==
  /\ failed \subseteq Tenants /\ cooling \subseteq Tenants
  /\ \A t \in Tenants : slice[t] \in [Hosts -> {Unlisted, Unknown, Critical}]

\* A tier that can be trusted is that of the tenant's own rows, if it has any and
\* they were not changed since the last load that was kept (enrichers/__init__
\* .py:235); a host that has none has that of the file or of a pattern.
TrustedIsRecorded ==
  \A t \in Tenants \ behind, h \in Hosts :
    Trusted(t, h) /\ inventory[t] # Nowhere =>
      Tier(t, h) = IF inventory[t][h] # Unlisted THEN inventory[t][h]
                   ELSE IF shared[h] # Unlisted THEN shared[h]
                   ELSE IF h \in Patterned THEN Critical ELSE Unknown

\* After a load that failed no tier is trusted but one that is computed afresh
\* (enrichers/__init__.py:174), nor where nothing was ever listed
\* (enrichers/__init__.py:207).
DoubtIsSaid ==
  \A t \in Tenants, h \in Hosts :
    Trusted(t, h) /\ h \notin Patterned =>
      t \notin lost /\ (slice[t] # Nowhere \/ shared # Nowhere)

\* What a person said of a host stays until a person says otherwise: found again
\* by discovery it keeps its tier (store.py:7350).
DiscoveryAddsOnly ==
  \A t \in Tenants, found \in SUBSET Hosts, h \in Hosts :
    inventory[t][h] # Unlisted => Discovered(t, found)[h] = inventory[t][h]

\* In whatever order they come, no user hides the risk of another that is listed
\* (enrichers/__init__.py:355); that of an unknown one a listed one may hide.
NoUserIsHidden ==
  \A u, v \in Multipliers : UserRisk(u, v) >= u /\ UserRisk(u, v) >= v
=============================================================================
