----------------------------- MODULE CaseHands -----------------------------
(* Who has a case in hand (routes/incidents.py, routes/triage.py and the   *)
(* store): an incident is assigned or claimed, handed to a higher tier,    *)
(* and given evidence and notes; a decision is claimed and released.  Each *)
(* request looks first and writes in a later statement; only the writes of *)
(* a decision's owner say in their WHERE what they rest on.  One API       *)
(* process runs a handler without interruption, so the users here are      *)
(* served by different replicas.                                           *)
EXTENDS Integers, FiniteSets

CONSTANTS
  Analysts,     \* role analyst
  Seniors,      \* senior analysts and administrators
  Nobody,
  MaxRequests, MaxFaults

\* What the proofs ask of an instance.
HandsAssumption == Nobody \notin Analysts \cup Seniors

VARIABLES
  owner, tier,  \* of the incident: assigned_to, and the tier, L1 being 1
  chain, notes, \* evidence_chain, and notes of the timeline: who added one
  claimed,      \* claimed_by of the decision
  req,          \* the request of each user under way
  holds,        \* what each user was told to have in hand and did not give back
  acked,        \* <<what, user>> of pieces that were answered with ok
  overlapped,   \* history: fields written between another's look and write
  requests, faults

handVars == <<owner, tier, chain, notes, claimed, req, holds, acked,
              overlapped, requests, faults>>
incident == <<owner, tier, chain, notes>>
history == <<holds, acked>>

Users == Analysts \cup Seniors
Away == [at |-> "away", saw |-> 0, to |-> 0]

Init ==
  /\ owner = Nobody /\ tier = 1 /\ chain = {} /\ notes = {} /\ claimed = Nobody
  /\ req = [u \in Users |-> Away] /\ holds = [u \in Users |-> {}]
  /\ acked = {} /\ overlapped = {}
  /\ requests = 0 /\ faults = 0

\* A request that has passed its checks.
Ask(u, at, saw, to) ==
  /\ req[u].at = "away" /\ requests < MaxRequests /\ requests' = requests + 1
  /\ req' = [req EXCEPT ![u] = [at |-> at, saw |-> saw, to |-> to]]
  /\ UNCHANGED <<incident, claimed, history, overlapped, faults>>
Answered(u) == req' = [req EXCEPT ![u] = Away]
\* The write of a field that others have looked at, and will write.
Writes(u, at) ==
  overlapped' = IF \E v \in Users \ {u} : req[v].at = at THEN overlapped \cup {at}
                ELSE overlapped
-----------------------------------------------------------------------------
(* The incident.                                                           *)

\* Broken variant of MayAssign: an analyst may claim what is owned.
SelfOnly(u, to) == u \in Seniors \/ to = u
\* An analyst may only claim for himself what nobody else owns.
MayAssign(u, to) == u \in Seniors \/ (to = u /\ owner \in {Nobody, u})
AskAssign(u) == \E to \in Users : MayAssign(u, to) /\ Ask(u, "assign", 0, to)

\* assign_incident: an UPDATE without a condition, and its timeline entry.
Assign(u) ==
  /\ req[u].at = "assign" /\ Answered(u) /\ Writes(u, "assign")
  /\ owner' = req[u].to
  /\ holds' = [v \in Users |-> IF v = req[u].to THEN holds[v] \cup {"incident"}
                               ELSE IF u \in Seniors THEN holds[v] \ {"incident"}
                               ELSE holds[v]]
  /\ UNCHANGED <<tier, chain, notes, claimed, acked, requests, faults>>

\* Broken variant of MayRaise: any tier will do.
AnyTier(t) == TRUE
\* escalate_tier: never to the same tier or a lower one ...
MayRaise(t) == t > tier
AskRaise(u) == \E t \in {2, 3} : MayRaise(t) /\ Ask(u, "raise", tier, t)
\* ... than the one it saw.
Raise(u) ==
  /\ req[u].at = "raise" /\ Answered(u) /\ Writes(u, "raise")
  /\ tier' = req[u].to
  /\ UNCHANGED <<owner, chain, notes, claimed, history, requests, faults>>

\* _check_incident_access.
MayTouch(u) == u \in Seniors \/ owner = u

AskEvidence(u) == MayTouch(u) /\ Ask(u, "evidence", 0, 0)
ReadChain(u) ==
  /\ req[u].at = "evidence" /\ <<"evidence", u>> \notin acked
  /\ req' = [req EXCEPT ![u].at = "chain", ![u].saw = chain]
  /\ UNCHANGED <<incident, claimed, history, overlapped, requests, faults>>

\* Broken variant of Appended: the chain is the new piece.
OnlyNew(saw, u) == {u}
Appended(saw, u) == saw \cup {u}
\* add_incident_evidence writes the whole chain; a write that fails is said so.
WriteChain(u) ==
  /\ req[u].at = "chain" /\ Answered(u)
  /\ \/ /\ chain' = Appended(req[u].saw, u) /\ Writes(u, "chain")
        /\ acked' = acked \cup {<<"evidence", u>>} /\ UNCHANGED faults
     \/ /\ faults < MaxFaults /\ faults' = faults + 1
        /\ UNCHANGED <<chain, acked, overlapped>>
  /\ UNCHANGED <<owner, tier, notes, claimed, holds, requests>>

AskNote(u) == MayTouch(u) /\ Ask(u, "note", 0, 0)
\* add_incident_note inserts a row.
Note(u) ==
  /\ req[u].at = "note" /\ Answered(u)
  /\ notes' = notes \cup {u} /\ acked' = acked \cup {<<"note", u>>}
  /\ UNCHANGED <<owner, tier, chain, claimed, holds, overlapped, requests, faults>>
-----------------------------------------------------------------------------
(* The decision.                                                           *)

AskClaim(u) == claimed \in {Nobody, u} /\ Ask(u, "claim", 0, 0)

\* Broken variant of Unowned: the request's own look is trusted.
AsSeen(u) == TRUE
\* claim_decision says in its WHERE who may own the decision by now.
Unowned(u) == claimed \in {Nobody, u}
Claim(u) ==
  /\ req[u].at = "claim" /\ Answered(u)
  /\ IF Unowned(u)
     THEN /\ claimed' = u /\ holds' = [holds EXCEPT ![u] = @ \cup {"decision"}]
     ELSE UNCHANGED <<claimed, holds>>
  /\ UNCHANGED <<incident, acked, overlapped, requests, faults>>

AskRelease(u) == claimed = u /\ Ask(u, "release", 0, 0)
Release(u) ==
  /\ req[u].at = "release" /\ Answered(u)
  /\ claimed' = IF claimed = u THEN Nobody ELSE claimed
  /\ holds' = [holds EXCEPT ![u] = @ \ {"decision"}]
  /\ UNCHANGED <<incident, acked, overlapped, requests, faults>>

UserStep(u) ==
  \/ AskAssign(u) \/ Assign(u) \/ AskRaise(u) \/ Raise(u)
  \/ AskEvidence(u) \/ ReadChain(u) \/ WriteChain(u) \/ AskNote(u) \/ Note(u)
  \/ AskClaim(u) \/ Claim(u) \/ AskRelease(u) \/ Release(u)
Next == \E u \in Users : UserStep(u)
-----------------------------------------------------------------------------
TypeOK ==
  /\ owner \in Users \cup {Nobody} /\ claimed \in Users \cup {Nobody}
  /\ tier \in 1..3 /\ chain \subseteq Users /\ notes \subseteq Users

\* No two analysts were both told that a decision is in their hands; of an
\* incident they were only if two assignments overlapped (incidents.py:285,
\* store.py:2867).
OneOwner ==
  \A u, v \in Users : u # v =>
    /\ "decision" \notin holds[u] \cap holds[v]
    /\ "incident" \in holds[u] \cap holds[v] => "assign" \in overlapped

\* What a decision's owner was told is so (store.py:2888).
OwnerIsOwner == \A u \in Users : "decision" \in holds[u] => claimed = u

\* A note that was acknowledged is there, and so is evidence, unless two pieces
\* were added at once (store.py:5625).
AckedIsKept ==
  \A u \in Users :
    /\ <<"note", u>> \in acked => u \in notes
    /\ <<"evidence", u>> \in acked => u \in chain \/ "chain" \in overlapped

\* No case goes back to a lower tier, unless two escalations overlapped
\* (sla.py:132).
TierNeverFalls == [][tier' >= tier \/ "raise" \in overlapped]_handVars
=============================================================================
