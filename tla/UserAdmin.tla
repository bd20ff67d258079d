----------------------------- MODULE UserAdmin -----------------------------
(***************************************************************************)
(* Accounts, their roles and the licensed number of them (routes/admin.py, *)
(* feature_gates.py, licensing.py).  An actor is judged by the role in its *)
(* token, which is the one it signed in with.  Creating an account counts  *)
(* first and inserts later; replicas do not wait for each other.           *)
(***************************************************************************)
EXTENDS Integers, FiniteSets

CONSTANTS
  Accounts,      \* names of accounts that can exist
  Mssp, Admin,   \* the two that exist at first
  Replicas,
  MaxUsers,      \* lic.max_users, 0 for no limit
  Community,     \* the tier of the license is "community"
  MaxSteps       \* bound on changes

\* The license allows the accounts there are at first.
AccountsAssumption ==
  /\ IsFiniteSet(Accounts) /\ Mssp \in Accounts /\ Admin \in Accounts
  /\ "none" \notin Accounts /\ MaxSteps \in Nat
  /\ MaxUsers \in Nat /\ (MaxUsers # 0 => MaxUsers >= Cardinality({Mssp, Admin}))

Roles == {"analyst", "senior_analyst", "admin", "mssp_admin"}
RankOf(role) == CASE role = "analyst" -> 1 [] role = "senior_analyst" -> 2
                  [] role = "admin" -> 3 [] role = "mssp_admin" -> 4

VARIABLES
  role,      \* of each account, "none" if it does not exist
  active,
  card,      \* the role in the token of an account, "none" if it has none
  gate,      \* create_user between its checks and its insert: who asks
  grantor,   \* history: the rank of whoever last gave an account its role
  slack,     \* history: accounts switched on again, and inserts that overlapped
  steps
userVars == <<role, active, card, gate, grantor, slack, steps>>

Exists == {u \in Accounts : role[u] # "none"}
Active == {u \in Exists : active[u]}
Step == steps < MaxSteps /\ steps' = steps + 1

Init ==
  /\ role = [u \in Accounts |-> IF u = Mssp THEN "mssp_admin"
                                ELSE IF u = Admin THEN "admin" ELSE "none"]
  /\ active = [u \in Accounts |-> TRUE] /\ card = [u \in Accounts |-> "none"]
  /\ gate = [r \in Replicas |-> "none"]
  /\ grantor = [u \in Accounts |-> 5] /\ slack = 0 /\ steps = 0

SignIn(u) ==
  /\ u \in Active /\ card[u] # role[u]
  /\ card' = [card EXCEPT ![u] = role[u]]
  /\ UNCHANGED <<role, active, gate, grantor, slack, steps>>

\* Broken variant of Assignable: an actor hands out roles up to its own.
UpToOwn(c) == {r \in Roles : c # "none" /\ RankOf(r) <= RankOf(c)}
\* _get_assignable_roles
Assignable(c) ==
  LET all == CASE c = "mssp_admin" -> {"admin", "senior_analyst", "analyst"}
               [] c = "admin" -> {"senior_analyst", "analyst"}
               [] OTHER -> {}
  IN IF Community THEN all \cap {"analyst"} ELSE all

\* require_role("admin"), which an mssp_admin passes too.
MayManage(u) == card[u] \in {"admin", "mssp_admin"}

\* Broken variant of BelowLimit: as many again as one too many.
AtLimit(n) == MaxUsers = 0 \/ n <= MaxUsers
\* check_user_limit
BelowLimit(n) == MaxUsers = 0 \/ n < MaxUsers

\* create_user: the quota gate counts the active accounts.
AskCreate(r, u) ==
  /\ gate[r] = "none" /\ MayManage(u)
  /\ BelowLimit(Cardinality(Active))
  /\ gate' = [gate EXCEPT ![r] = u]
  /\ UNCHANGED <<role, active, card, grantor, slack, steps>>

\* Then the role, the name, and the insert.
Insert(r, u, as) ==
  LET actor == gate[r]
      \* another insert got in between this one's count and now
      others == \E q \in Replicas \ {r} : gate[q] # "none"
  IN
  /\ actor # "none" /\ Step
  /\ gate' = [gate EXCEPT ![r] = "none"]
  /\ IF as \in Assignable(card[actor]) /\ role[u] = "none"
     THEN /\ role' = [role EXCEPT ![u] = as]
          /\ active' = [active EXCEPT ![u] = TRUE]
          /\ grantor' = [grantor EXCEPT ![u] = RankOf(card[actor])]
          /\ slack' = IF others THEN slack + 1 ELSE slack
     ELSE UNCHANGED <<role, active, grantor, slack>>
  /\ UNCHANGED card

\* Broken variant of MayTouch: any account of the tenant.
AnyTarget(a, u) == TRUE
\* _validate_target_privilege: one's own account, or one of a lower rank.
MayTouch(a, u) ==
  card[a] = "mssp_admin" \/ a = u \/ RankOf(role[u]) < RankOf(card[a])

\* update_user
SetRole(a, u, as) ==
  /\ MayManage(a) /\ u \in Exists /\ Step
  /\ as \in Assignable(card[a]) /\ MayTouch(a, u)
  /\ role' = [role EXCEPT ![u] = as]
  /\ grantor' = [grantor EXCEPT ![u] = RankOf(card[a])]
  /\ UNCHANGED <<active, card, gate, slack>>

\* update_user, is_active: switching an account on again asks no quota.
SetActive(a, u) ==
  /\ MayManage(a) /\ u \in Exists /\ MayTouch(a, u) /\ Step
  /\ active' = [active EXCEPT ![u] = ~@]
  /\ slack' = IF active[u] THEN slack ELSE slack + 1
  /\ UNCHANGED <<role, card, gate, grantor>>

Next ==
  \E u \in Accounts :
    \/ SignIn(u)
    \/ \E r \in Replicas : AskCreate(r, u) \/ \E as \in Roles : Insert(r, u, as)
    \/ \E a \in Accounts : SetActive(a, u) \/ \E as \in Roles : SetRole(a, u, as)
-----------------------------------------------------------------------------
TypeOK ==
  /\ role \in [Accounts -> Roles \cup {"none"}] /\ active \in [Accounts -> BOOLEAN]
  /\ card \in [Accounts -> Roles \cup {"none"}] /\ steps \in 0..MaxSteps

\* Nobody gives an account a role of the giver's own rank or above, whatever
\* chain of creations, promotions and stale tokens led there (admin.py:110).
NoPeerIsMade == \A u \in Exists : RankOf(role[u]) < grantor[u]

\* An account of the highest rank is changed by nobody below it: it stays as it
\* is until an mssp_admin has signed in (admin.py:140).
TopUntouched ==
  card[Mssp] = "none" => role[Mssp] = "mssp_admin" /\ active[Mssp]

\* The active accounts exceed the licensed number by no more than were switched
\* on again, which asks no quota, or inserted while another insert was between
\* its count and its insert (feature_gates.py:208).
WithinQuota == MaxUsers = 0 \/ Cardinality(Active) <= MaxUsers + slack
=============================================================================
