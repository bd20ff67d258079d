---------------------------- MODULE AlertLedger ----------------------------
(***************************************************************************)
(* What the platform promises about one tenant's alerts, whatever its      *)
(* queues, threads and crashes do: an alert is handled once, for ever, and *)
(* being handled means either one triage decision or, for an alert too     *)
(* quiet to triage, none (store.py save_decision and mark_alert_processed).*)
(***************************************************************************)
EXTENDS Naturals

CONSTANTS Alerts, Quiet

VARIABLES
  handled,   \* alerts with a row in processed_alerts
  verdicts   \* number of decision rows of each alert

ledger == <<handled, verdicts>>

LedgerInit == handled = {} /\ verdicts = [a \in Alerts |-> 0]

Decide(a) ==
  /\ a \notin handled /\ a \notin Quiet
  /\ handled' = handled \cup {a}
  /\ verdicts' = [verdicts EXCEPT ![a] = 1]

Skip(a) ==
  /\ a \notin handled /\ a \in Quiet
  /\ handled' = handled \cup {a}
  /\ UNCHANGED verdicts

LedgerNext == \E a \in Alerts : Decide(a) \/ Skip(a)

LedgerSpec == LedgerInit /\ [][LedgerNext]_ledger
=============================================================================
