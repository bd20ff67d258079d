------------------------------ MODULE Licence ------------------------------
(* The licence file and the gates that ask it (licensing.py,               *)
(* feature_gates.py).  A file is a payload signed by the vendor; a field   *)
(* that the payload leaves out is Absent, one that is null is Null.        *)
EXTENDS Integers, TLC

CONSTANTS Absent, Null

\* What the proofs ask of an instance: neither is a value a payload gives.
LicenceAssumption ==
  /\ Absent # Null
  /\ \A x \in {Absent, Null} :
       /\ x \notin {"community", "team", "enterprise", "other"} /\ x \notin 0..100
       /\ x \notin {{}, {"hunt"}, {"full"}, {"full", "hunt"}}

\* TIER_PRESETS, with one feature, tab or channel for each that differs.
Preset ==
  [community  |-> [features |-> {"triage"}, users |-> 5, tabs |-> {"overview"},
                   actions |-> {}, channels |-> {}, tenants |-> FALSE],
   team       |-> [features |-> {"triage", "detection", "notifications_full"},
                   users |-> 25, tabs |-> {"all"},
                   actions |-> {}, channels |-> {"email"}, tenants |-> FALSE],
   enterprise |-> [features |-> {"triage", "detection", "notifications_full",
                                 "hunt", "active_response_full"},
                   users |-> 0, tabs |-> {"all"},
                   actions |-> {"block_ip"}, channels |-> {"email"}, tenants |-> TRUE]]
AllTabs == {"overview", "hunt"}

\* validate() in its order: the file, its form, its signature over the whole
\* payload, the required fields, the expiry.
Verdict(f) ==
  CASE f.state = "missing" -> "missing"
    [] f.state \in {"malformed", "unsigned", "incomplete"} -> "malformed"
    [] f.state = "signed" /\ f.left = 0 -> "expired"
    [] OTHER -> "valid"

\* A payload without a tier, or of the first schema, is of the team tier.
Tier(p) == IF p.version = 1 \/ p.tier = Absent THEN "team" ELSE p.tier
Defaults(p) == IF Tier(p) \in DOMAIN Preset THEN Preset[Tier(p)] ELSE Preset["team"]

\* Broken variant of Features: the placeholder "full" stays in the list.
AsListed(p) == IF p.features = Absent THEN Defaults(p).features ELSE p.features
Features(p) ==
  IF p.features = Absent \/ "full" \in p.features THEN Defaults(p).features
  ELSE p.features

\* Every other field is the payload's own, null included, or the preset's.
Resolve(p) ==
  [version |-> p.version, tier |-> Tier(p), features |-> Features(p),
   daily |-> IF p.daily = Absent THEN 0 ELSE p.daily,
   agents |-> IF p.agents = Absent THEN 0 ELSE p.agents,
   users |-> IF p.users = Absent THEN Defaults(p).users ELSE p.users,
   tabs |-> Defaults(p).tabs, actions |-> Defaults(p).actions,
   channels |-> Defaults(p).channels, tenants |-> Defaults(p).tenants]

\* What a process without a file runs on.
Community ==
  [version |-> 2, tier |-> "community", daily |-> 0, agents |-> 0] @@ Preset["community"]
-----------------------------------------------------------------------------
(* The gates.  A limit of null or zero is none.                            *)

Has(lic, feature) ==
  \/ feature \in lic.features
  \/ /\ "full" \in lic.features
     /\ \/ lic.version < 2
        \/ lic.tier \in DOMAIN Preset /\ feature \in Preset[lic.tier].features

Unlimited(limit) == limit \in {Null, 0}
UnderLimit(limit, count) == Unlimited(limit) \/ count < limit
AgentsCovered(lic, active) == Unlimited(lic.agents) \/ active <= lic.agents
ActionAllowed(lic, action) ==
  Has(lic, "active_response_full") \/ action \in lic.actions
ChannelAllowed(lic, channel) ==
  Has(lic, "notifications_full") \/ channel \in lic.channels
TabAllowed(lic, tab) ==
  tab \in IF "all" \in lic.tabs THEN AllTabs ELSE lic.tabs
-----------------------------------------------------------------------------
Payloads ==
  [state : {"signed"}, left : {1}, version : {1, 2},
   tier : {Absent, "community", "team", "enterprise", "other"},
   features : {Absent, {}, {"hunt"}, {"full"}, {"full", "hunt"}},
   daily : {Absent, Null, 0, 1}, agents : {Absent}, users : {Absent, Null, 2}]

\* No gate opens for what the signed payload neither lists nor has by its tier,
\* not even for the placeholder "full" of the first schema (licensing.py:470);
\* and a limit of null never stops anybody (licensing.py:271).
GatesStayInTier ==
  \A p \in Payloads :
    LET lic == Resolve(p)
        listed == IF p.features = Absent THEN {} ELSE p.features
        paid == listed \cup Defaults(p).features
    IN /\ \A f \in Preset["enterprise"].features : Has(lic, f) => f \in paid
       /\ ActionAllowed(lic, "block_ip") =>
            "active_response_full" \in paid \/ "block_ip" \in Defaults(p).actions
       /\ ChannelAllowed(lic, "email") =>
            "notifications_full" \in paid \/ "email" \in Defaults(p).channels
       /\ TabAllowed(lic, "hunt") => Tier(p) # "community"
       /\ p.users = Null => UnderLimit(lic.users, 100)
       /\ p.users = 2 => ~UnderLimit(lic.users, 2)
=============================================================================
