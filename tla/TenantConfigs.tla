--------------------------- MODULE TenantConfigs ---------------------------
(***************************************************************************)
(* The encrypted configuration of one tenant: the master keys and their    *)
(* generations (tenant_crypto.py), the administrator's updates (admin.py,  *)
(* which read the row, await the request's body, and write), and the       *)
(* registry that builds the tenant's backends from it (tenant_registry.py).*)
(* A configuration is the set of fields it has.  Environment variables     *)
(* change when the process is restarted.                                   *)
(***************************************************************************)
EXTENDS Integers

CONSTANTS
  Fields,       \* what updates add to a configuration; "llm" is there already
  Admins,       \* updates in progress
  Builders,     \* threads that ask the registry for a backend
  MaxKeys,      \* bound on the keys the operator generates
  MaxRestarts,
  MaxFaults     \* bound on reads of the tenant's row that fail

Missing == 0
Invalid == -1
Stray == -2     \* a key made for --rotate-tenant-key, then discarded
MadeUp == -3      \* a key the process made up: it is nowhere else
Unread == {"unread"}

\* The first key is one of those counted.
ConfigsAssumption == MaxKeys \in Nat \ {0}

VARIABLES
  multi,     \* more than one tenant: no key is made up
  genCur, keyCur, keyOld,  \* TENANT_KEY_GENERATION, ..._KEY and ..._KEY_OLD
  safe,      \* the keys and the generation the operator has on file
  row,       \* the row: generation, key, and the fields encrypted
  cachedCfg, \* _config_cache
  backend,   \* _llm_backends: None, "global", or the configuration it was built from
  building,  \* what a thread has read and not stored yet
  basis,     \* the row an update has read
  acked,     \* fields of the updates answered with success
  restarts, readFaults,
  mixed,     \* history: two updates overlapped
  crossed    \* history: a reload ran while a thread was building
configVars == <<multi, genCur, keyCur, keyOld, safe, row, cachedCfg, backend,
                building, basis, acked, restarts, readFaults, mixed, crossed>>
env == <<multi, genCur, keyCur, keyOld, safe>>
registry == <<cachedCfg, backend, building>>
history == <<mixed, crossed>>

Nil == {"nil"}
NoRow == [gen |-> 0, key |-> Missing, fields |-> {}]

Init ==
  /\ multi \in BOOLEAN
  /\ genCur = 1 /\ keyCur = 1 /\ keyOld = Missing
  /\ safe = [gen |-> 1, key |-> 1, old |-> Missing, made |-> 1]
  /\ row \in {NoRow, [gen |-> 1, key |-> 1, fields |-> {"llm"}]}
  /\ cachedCfg = Nil /\ backend = Nil /\ building = [b \in Builders |-> Nil]
  /\ basis = [a \in Admins |-> NoRow]
  /\ acked = row.fields /\ restarts = 0 /\ readFaults = 0
  /\ mixed = FALSE /\ crossed = FALSE
-----------------------------------------------------------------------------
(* tenant_crypto.py                                                        *)

\* _master_key_for_gen
KeyFor(g) == IF g = genCur THEN keyCur ELSE IF g = genCur - 1 THEN keyOld ELSE Missing

\* decrypt_config tries the generation of the tag, the current one and the last.
Opens(r) == \E g \in {r.gen, genCur, genCur - 1} : KeyFor(g) = r.key

\* Broken variant of Decrypt: what cannot be read counts as empty.
DecryptOrEmpty(r) == IF Opens(r) THEN r.fields ELSE {}
\* decrypt_config raises for what no key opens.
Decrypt(r) == IF Opens(r) THEN r.fields ELSE Unread

\* _get_fernet, which every reading attempt calls: a single-tenant process
\* without a key makes one up and puts it into its environment.
KeyAfterUse == IF keyCur = Missing /\ ~multi THEN MadeUp ELSE keyCur

\* Broken variant of Writable: any key the environment has will do.
HasKey == keyCur \notin {Missing, Invalid}
\* _assert_master_key_writable
Writable == keyCur \notin {Missing, Invalid, MadeUp}

\* Broken variant of IsCurrent: what can be read need not be rewritten.
StillOpens(r) == Opens(r)
\* is_current_generation
IsCurrent(r) == r.gen = genCur /\ r.key = keyCur

Encrypted(fields) ==
  [gen |-> genCur, key |-> keyCur, fields |-> fields]
-----------------------------------------------------------------------------
(* The registry.                                                           *)

\* Broken variant of Reload: the backends built so far stay.
ReloadConfigOnly == cachedCfg' = Nil /\ UNCHANGED backend
\* reload_tenant
Reload == cachedCfg' = Nil /\ backend' = Nil

\* get_llm_backend, first half: _get_config reads the row unless it is cached,
\* and raises when the row or its contents cannot be read.
Fetch(b) ==
  /\ row # NoRow /\ backend = Nil /\ building[b] = Nil
  /\ \/ /\ cachedCfg # Nil
        /\ building' = [building EXCEPT ![b] = cachedCfg]
        /\ UNCHANGED <<keyCur, readFaults>>
     \/ /\ cachedCfg = Nil
        /\ keyCur' = KeyAfterUse
        /\ Decrypt(row) # Unread
        /\ building' = [building EXCEPT ![b] = Decrypt(row)]
        /\ UNCHANGED readFaults
     \/ /\ cachedCfg = Nil /\ Decrypt(row) = Unread
        /\ keyCur' = KeyAfterUse /\ keyCur' # keyCur
        /\ UNCHANGED <<building, readFaults>>
     \/ /\ cachedCfg = Nil /\ readFaults < MaxFaults  \* TenantRecordUnavailable
        /\ readFaults' = readFaults + 1
        /\ UNCHANGED <<keyCur, building>>
  /\ UNCHANGED <<multi, genCur, keyOld, safe, row, cachedCfg, backend, basis,
                 acked, restarts, history>>

\* The second half caches the configuration and the backend made from it; a
\* tenant without a model of its own gets the global one.
Keep(b) ==
  /\ building[b] # Nil
  /\ cachedCfg' = building[b]
  /\ backend' = IF "llm" \in building[b] THEN building[b] ELSE {"global"}
  /\ building' = [building EXCEPT ![b] = Nil]
  /\ UNCHANGED <<env, row, basis, acked, restarts, readFaults, history>>
-----------------------------------------------------------------------------
(* POST and PUT /api/admin/tenants; main.py makes the first tenant so.      *)

Create ==
  /\ row = NoRow /\ Writable
  /\ row' = Encrypted({"llm"}) /\ acked' = {"llm"}
  /\ UNCHANGED <<env, registry, basis, restarts, readFaults, history>>

\* Reading any other tenant's row uses the key of the process too.
UseKey ==
  /\ keyCur' = KeyAfterUse /\ keyCur' # keyCur
  /\ UNCHANGED <<multi, genCur, keyOld, safe, row, registry, basis, acked,
                 restarts, readFaults, history>>

BeginUpdate(a) ==
  /\ row # NoRow /\ basis[a] = NoRow
  /\ basis' = [basis EXCEPT ![a] = row]
  /\ mixed' = (mixed \/ \E o \in Admins \ {a} : basis[o] # NoRow)
  /\ UNCHANGED <<env, row, registry, acked, restarts, readFaults, crossed>>

\* After the body: merge into the row read before, encrypt, write, reload.
FinishUpdate(a, f) ==
  LET old == Decrypt(basis[a]) IN
  /\ basis[a] # NoRow
  /\ keyCur' = KeyAfterUse
  /\ basis' = [basis EXCEPT ![a] = NoRow]
  /\ IF old # Unread /\ Writable
     THEN /\ row' = Encrypted(old \cup {f})
          /\ acked' = acked \cup {f}
          /\ Reload
          /\ crossed' = (crossed \/ \E b \in Builders : building[b] # Nil)
     ELSE UNCHANGED <<row, acked, cachedCfg, backend, crossed>>
  /\ UNCHANGED <<multi, genCur, keyOld, safe, building, restarts, readFaults, mixed>>
-----------------------------------------------------------------------------
(* The operator.  The tool that rewrites rows under the current generation *)
(* is not in the repository: it follows is_current_generation.             *)

\* The process starts again with another environment, everything in it gone.
Restart(gen, key, old) ==
  /\ restarts < MaxRestarts /\ restarts' = restarts + 1
  /\ genCur' = gen /\ keyCur' = key /\ keyOld' = old
  /\ cachedCfg' = Nil /\ backend' = Nil
  /\ building' = [b \in Builders |-> Nil] /\ basis' = [a \in Admins |-> NoRow]
  /\ UNCHANGED <<multi, row, acked, readFaults, history>>

\* With the right keys, with none, with a damaged one, or with a new one in
\* place of the key on file (deploy.sh --rotate-tenant-key).
RestartWith(key) ==
  Restart(safe.gen, key, safe.old) /\ UNCHANGED safe

\* Rotate: a new key, the last one kept as the old; only when every row has
\* been rewritten under the current generation.
Rotate ==
  /\ row # NoRow /\ keyCur = safe.key /\ safe.made < MaxKeys /\ IsCurrent(row)
  /\ safe' = [gen |-> safe.gen + 1, key |-> safe.made + 1, old |-> safe.key,
              made |-> safe.made + 1]
  /\ Restart(safe'.gen, safe'.key, safe'.old)

Rewrite ==
  /\ row # NoRow /\ keyCur = safe.key /\ ~IsCurrent(row) /\ Decrypt(row) # Unread
  /\ \A a \in Admins : basis[a] = NoRow
  /\ row' = Encrypted(Decrypt(row))
  /\ UNCHANGED <<env, registry, basis, acked, restarts, readFaults, history>>

Next ==
  \/ \E b \in Builders : Fetch(b) \/ Keep(b)
  \/ \E a \in Admins : BeginUpdate(a) \/ \E f \in Fields : FinishUpdate(a, f)
  \/ \E k \in {safe.key, Missing, Invalid, Stray} : RestartWith(k)
  \/ Create \/ UseKey \/ Rotate \/ Rewrite

Spec == Init /\ [][Next]_configVars
-----------------------------------------------------------------------------
TypeOK ==
  /\ keyCur \in {Missing, Invalid, MadeUp, Stray} \cup 1..MaxKeys
  /\ keyOld \in 0..MaxKeys /\ genCur \in 1..MaxKeys
  /\ row.fields \subseteq Fields \cup {"llm"}
  /\ backend = Nil \/ backend = {"global"} \/ backend \subseteq Fields \cup {"llm"}

\* No row is ever written under a key that the process made up and that ends
\* with it (tenant_crypto.py:242).
NeverUnderOwnKey == row.key # MadeUp

\* With the keys on file every row can be read, however often they were rotated
\* (tenant_crypto.py:411); unless an administrator wrote under a stray key.
RotationKeepsRows ==
  row # NoRow /\ keyCur = safe.key /\ row.key # Stray => Opens(row)

\* An update keeps the fields it was not given: a row that could not be read is
\* not replaced by the new fields alone (admin.py:637).  Two updates that
\* overlap are another matter: the later one writes over the earlier.
FieldsSurvive == ~mixed => acked \subseteq row.fields

\* A tenant with a model of its own never falls back to the global one because
\* its configuration could not be read (tenant_registry.py:113).
NeverGlobalByFault == backend # {"global"}

\* After an update the registry serves the new configuration, unless a thread
\* was building from the old one when the caches were cleared
\* (tenant_registry.py:154).
ServesTheNew == ~crossed /\ backend # Nil => backend = row.fields
=============================================================================
