------------------------------ MODULE Sessions ------------------------------
(***************************************************************************)
(* Sign-in, sign-out and tokens (api/auth.py, routes/auth.py).  A token    *)
(* carries its subject, its role and its expiry and is checked without the *)
(* database, except that each replica keeps the tokens it saw signed out:  *)
(* in memory, loaded from the store when it starts.                        *)
(***************************************************************************)
EXTENDS Integers

CONSTANTS
  Users, Replicas,
  Ids,          \* tokens that can be issued
  Lifetime,     \* token_expiry_hours
  MaxTime, MaxStarts, MaxFailures

\* What the proofs ask of an instance.
SessionsAssumption == Lifetime \in Nat /\ MaxTime \in Nat \ {0}

VARIABLES
  clock,
  enabled,    \* is_active, as a clock value: 0, or when it was switched off
  password,   \* how often it was changed
  token,      \* issued tokens: subject and expiry
  out,        \* _revoked_hashes of each replica
  stored,     \* revoked_tokens: the expiry stored with each revoked token
  told,       \* history: <<token, replica>> of the sign-outs answered with success
  blind,      \* history: replicas that could not load the table when they started
  starts, failures
sessionVars == <<clock, enabled, password, token, out, stored, told, blind,
                 starts, failures>>
people == <<enabled, password>>
counts == <<starts, failures>>

NoToken == [sub |-> "nobody", exp |-> 0]

Init ==
  /\ clock = 1 /\ enabled = [u \in Users |-> 0] /\ password = [u \in Users |-> 0]
  /\ token = [i \in Ids |-> NoToken]
  /\ out = [r \in Replicas |-> {}] /\ stored = [i \in Ids |-> 0]
  /\ told = {} /\ blind = {} /\ starts = 0 /\ failures = 0

Tick ==
  /\ clock < MaxTime /\ clock' = clock + 1
  /\ UNCHANGED <<people, token, out, stored, told, blind, counts>>

\* decode_token: not signed out here, and not expired.
Accepts(i, r) == token[i] # NoToken /\ i \notin out[r] /\ clock < token[i].exp

\* Broken variant of MaySignIn: an account that was switched off still works.
AnyoneMay(u) == TRUE
\* login asks for an active row.
MaySignIn(u) == enabled[u] = 0

Login(u, i) ==
  /\ MaySignIn(u) /\ token[i] = NoToken
  /\ token' = [token EXCEPT ![i] = [sub |-> u, exp |-> clock + Lifetime]]
  /\ UNCHANGED <<clock, people, out, stored, told, blind, counts>>

\* Broken variant of Kept: revoked at this replica only.
NotKept(i) == stored
\* Broken variant of Kept: until a new token would end.
KeptTooLong(i) == [stored EXCEPT ![i] = token[i].exp + Lifetime]
\* store.revoke_token, with the token's own expiry.
Kept(i) == [stored EXCEPT ![i] = token[i].exp]

\* revoke_token: in memory first, then in the store, whose failure is an error.
Revoke(i, r) ==
  /\ out' = [out EXCEPT ![r] = @ \cup {i}]
  /\ \/ stored' = Kept(i) /\ told' = told \cup {<<i, r>>} /\ UNCHANGED failures
     \/ /\ failures < MaxFailures /\ failures' = failures + 1
        /\ UNCHANGED <<stored, told>>

Logout(i, r) ==
  /\ Accepts(i, r) /\ Revoke(i, r)
  /\ UNCHANGED <<clock, people, token, blind, starts>>

\* change_my_password: the account must be active; the token used is revoked.
ChangePassword(i, r) ==
  LET u == token[i].sub IN
  /\ Accepts(i, r) /\ enabled[u] = 0 /\ password[u] = 0
  /\ password' = [password EXCEPT ![u] = @ + 1]
  /\ Revoke(i, r)
  /\ UNCHANGED <<clock, enabled, token, blind, starts>>

\* update_user switches an account off, or on again; its tokens are not looked at.
Switch(u) ==
  /\ enabled' = [enabled EXCEPT ![u] = IF @ = 0 THEN clock ELSE 0]
  /\ UNCHANGED <<clock, password, token, out, stored, told, blind, counts>>

\* Broken variant of Prune: what expires next is pruned too.
PruneEarly == [i \in Ids |-> IF stored[i] <= clock + 1 THEN 0 ELSE stored[i]]
\* prune_expired_revocations
Prune == [i \in Ids |-> IF stored[i] <= clock THEN 0 ELSE stored[i]]

\* init_auth at the start of a replica: prune, then load; a failure is only logged.
Start(r) ==
  /\ starts < MaxStarts /\ starts' = starts + 1
  /\ \/ /\ stored' = Prune
        /\ out' = [out EXCEPT ![r] = {i \in Ids : stored'[i] > clock}]
        /\ blind' = blind \ {r} /\ UNCHANGED failures
     \/ /\ failures < MaxFailures /\ failures' = failures + 1
        /\ out' = [out EXCEPT ![r] = {}] /\ blind' = blind \cup {r}
        /\ UNCHANGED stored
  /\ UNCHANGED <<clock, people, token, told>>

Next ==
  \/ Tick
  \/ \E u \in Users : Switch(u) \/ \E i \in Ids : Login(u, i)
  \/ \E r \in Replicas :
       Start(r) \/ \E i \in Ids : Logout(i, r) \/ ChangePassword(i, r)
-----------------------------------------------------------------------------
TypeOK ==
  /\ clock \in 1..MaxTime /\ enabled \in [Users -> 0..MaxTime]
  /\ \A i \in Ids : token[i] = NoToken \/ token[i].sub \in Users
  /\ out \in [Replicas -> SUBSET Ids] /\ stored \in [Ids -> 0..MaxTime + Lifetime]
  /\ told \subseteq Ids \X Replicas /\ blind \subseteq Replicas

\* A token that was signed out with success is never accepted again by that
\* replica, however often it starts, as long as it could load the table
\* (auth.py:128, 169).
SignedOutStaysOut ==
  \A t \in told : t[2] \in blind \/ ~Accepts(t[1], t[2])

\* A sign-out reaches the other replicas when they start: after that, none of
\* them accepts the token (init_auth, auth.py:128).
SpreadsByStart ==
  [][\A r \in Replicas : starts' > starts /\ out'[r] # out[r] /\ r \notin blind' =>
       \A t \in told : ~Accepts(t[1], r)']_sessionVars

\* An account that was switched off is out within the lifetime of a token: no
\* later sign-in, and no restart, gives it a longer one (auth.py:139).
SwitchedOffLeaves ==
  \A i \in Ids, r \in Replicas :
    Accepts(i, r) /\ enabled[token[i].sub] # 0 =>
      token[i].exp <= enabled[token[i].sub] + Lifetime
=============================================================================
