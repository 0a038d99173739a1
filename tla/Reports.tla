------------------------------ MODULE Reports ------------------------------
(***************************************************************************)
(* The operator's reports over the orchestrator's database (db.rs): the    *)
(* integrity check, the delivery guarantee report and the SLO metrics with *)
(* their alerts.  A report is a series of SELECTs on one connection        *)
(* without a transaction, so every other operation may commit between two  *)
(* of them.  One report runs at a time.  Its window is fixed when it       *)
(* starts: which letters are older than that is chosen freely then, and    *)
(* those written later are not.                                            *)
(*                                                                         *)
(* The syntactic checks of the integrity check repeat the normalisation    *)
(* every write went through and are left out; so are ages and averages.    *)
(***************************************************************************)
EXTENDS Workflow, Sequences

CONSTANTS
    SentThreshold,      \* SloAlertThresholds.outbox_sent_unacked_total
    PendingThreshold,   \* SloAlertThresholds.outbox_pending_total
    DeadThreshold,      \* SloAlertThresholds.dead_letter_window_total
    MaxReports          \* bound: reports started

ASSUME ReportsConstants == {SentThreshold, PendingThreshold, DeadThreshold} \subseteq Nat

VARIABLES
    report,     \* the report: its kind and what its SELECTs returned so far
    begun,      \* letters before its window; history: workflow and dead items at its start
    touched,    \* history: items written since it started
    reports     \* reports started

reportVars == <<report, begun, touched, reports>>

IntegrityReads == <<"workflow_ids", "proposals", "proofs">>

DeliveryReads == <<"pending", "sent", "acked", "dead_letter", "sent_stale", "steps", "step_keys">>

(* Mutated form: the dead letters are counted before the rows.             *)
SloReadsSwapped == <<"active", "pending", "sent", "dead_letters", "dead_letter">>

SloReads == <<"active", "pending", "sent", "dead_letter", "dead_letters">>

Reads(kind) == CASE kind = "integrity" -> IntegrityReads
                 [] kind = "delivery"  -> DeliveryReads
                 [] kind = "slo"       -> SloReads

Idle == [kind |-> "none", got |-> <<>>]

ReportsInit ==
    /\ WorkflowInit
    /\ report = Idle
    /\ begun = [workflow |-> FALSE, dead |-> {}, old |-> {}]
    /\ touched = {} /\ reports = 0

-----------------------------------------------------------------------------
Workflows == {w \in {state} : w # None}

Active == {w \in {state} : w \notin {None, "confirmed", Failed}}

WithStatus(status) == {i \in Items : Has(i, {status})}

(* The keys that more than one accepted step holds.                        *)
DuplicateStepKeys == {s \in steps : \E t \in steps : t # s /\ SameKey(s, t)}

(* What a SELECT may return.  Sent rows are stale by their age, which a    *)
(* row written during the report does not have; dead letters are counted   *)
(* from the start of the window on (created_at_ms >= since).               *)
Results(q) ==
    CASE q = "workflow_ids" -> {Workflows}
      [] q = "active"       -> {Active}
      [] q = "proposals"    -> {{proposal} \ {None}}
      [] q = "proofs"       -> {proofs}
      [] q \in {"pending", "sent", "acked", "dead_letter"} -> {WithStatus(q)}
      [] q = "sent_stale"   -> SUBSET (WithStatus("sent") \ touched)
      [] q = "steps"        -> {steps}
      [] q = "step_keys"    -> {DuplicateStepKeys}
      [] q = "dead_letters" -> {deadLetters \ begun.old}

(* Only whether a table held a row matters to the findings, except for the *)
(* outbox and the dead letters, whose rows are counted.                    *)
Abridged(q, rows) ==
    IF q \in {"pending", "sent", "acked", "dead_letter", "sent_stale", "dead_letters"}
      THEN rows ELSE rows # {}

StartReport(kind) ==
    /\ report = Idle /\ reports < MaxReports
    /\ report' = [kind |-> kind, got |-> <<>>]
    /\ \E old \in SUBSET deadLetters :
           begun' = [workflow |-> state # None, dead |-> WithStatus("dead_letter"), old |-> old]
    /\ touched' = {}
    /\ reports' = reports + 1
    /\ UNCHANGED workflowVars

InProgress == report # Idle /\ Len(report.got) < Len(Reads(report.kind))

ReadNext ==
    /\ InProgress
    /\ LET q == Reads(report.kind)[Len(report.got) + 1]
       IN  \E rows \in Results(q) : report' = [report EXCEPT !.got = Append(@, Abridged(q, rows))]
    /\ UNCHANGED <<begun, touched, reports>> /\ UNCHANGED workflowVars

Finished(kind) == report.kind = kind /\ Len(report.got) = Len(Reads(kind))

Publish ==
    /\ report # Idle /\ ~InProgress
    /\ report' = Idle
    /\ UNCHANGED <<begun, touched, reports>> /\ UNCHANGED workflowVars

(* Every other operation of the database goes on meanwhile.                *)
Elsewhere ==
    /\ WorkflowNext
    /\ touched' = IF report = Idle THEN touched
                  ELSE touched \cup {i \in Items : outbox'[i] # outbox[i]}
    /\ UNCHANGED <<report, begun, reports>>

ReportsNext ==
    \/ Elsewhere
    \/ \E kind \in {"integrity", "delivery", "slo"} : StartReport(kind)
    \/ ReadNext
    \/ Publish

ReportsSpec == ReportsInit /\ [][ReportsNext]_<<workflowVars, reportVars>>

-----------------------------------------------------------------------------
(* What the report's SELECT q returned.                                    *)
Got(q) == LET k == CHOOSE k \in 1 .. Len(Reads(report.kind)) : Reads(report.kind)[k] = q
          IN  report.got[k]

(* integrity_check: rows without a workflow.                               *)
Orphans == {q \in {"proposals", "proofs"} : Got(q) /\ ~Got("workflow_ids")}

(* delivery_guarantee_report: the findings.                                *)
DeliveryFindings ==
    {f \in {"duplicate_step_keys", "sent_stale", "dead_letter", "no_ack_evidence"} :
        CASE f = "duplicate_step_keys" -> Got("step_keys")
          [] f = "sent_stale"          -> Got("sent_stale") # {}
          [] f = "dead_letter"         -> Got("dead_letter") # {}
          [] f = "no_ack_evidence"     -> Got("steps") /\ Got("acked") = {}}

(* build_slo_alert_report: the alerts that do not depend on the age of     *)
(* workflows.  A step conflict met again is another row in the table and   *)
(* none in the set, so the real dead-letter count is never lower.          *)
Alerts ==
    {a \in {"outbox_pending", "outbox_sent_unacked", "dead_letter_window"} :
        CASE a = "outbox_pending"      -> Cardinality(Got("pending")) > PendingThreshold
          [] a = "outbox_sent_unacked" -> Cardinality(Got("sent")) > SentThreshold
          [] a = "dead_letter_window"  -> Cardinality(Got("dead_letters")) > DeadThreshold}

(* The rows counted as dead-lettered that died within the window.          *)
DiedInWindow ==
    {i \in Got("dead_letter") : \A n \in 1 .. MaxAttempts : Undelivered(i, n) \notin begun.old}

(* Reports read table after table while the workflow goes on, and say      *)
(* nothing false all the same:                                             *)
(*  - the integrity check reports a row as orphaned only if its workflow   *)
(*    was created after the check had read the workflows;                  *)
(*  - a delivery report counts a row that nobody touched under exactly one *)
(*    status, finds every dead letter that was there, invents none, and    *)
(*    sees no duplicate key;                                               *)
(*  - an SLO report that counts more rows which died within its window     *)
(*    than the threshold allows raises the dead-letter alert, although     *)
(*    rows and letters are read apart.                                     *)
ReportsAreHonest ==
    /\ Finished("integrity") /\ begun.workflow => Orphans = {}
    /\ Finished("delivery") =>
           /\ \A i \in Items \ touched : outbox[i] # None =>
                  Cardinality({q \in {"pending", "sent", "acked", "dead_letter"} : i \in Got(q)}) = 1
           /\ begun.dead \subseteq Got("dead_letter")
           /\ \A i \in Got("dead_letter") : Has(i, {"dead_letter"})
           /\ "duplicate_step_keys" \notin DeliveryFindings
    /\ Finished("slo") /\ Cardinality(DiedInWindow) > DeadThreshold =>
           "dead_letter_window" \in Alerts
=============================================================================
