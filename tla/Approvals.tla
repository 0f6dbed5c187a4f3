------------------------------ MODULE Approvals ------------------------------
(***************************************************************************)
(* How a payment is approved before it is made: the approvers of the       *)
(* signer (a VelocityApprover, which asks the next one when too much has   *)
(* been approved by itself; a MemoApprover, which knows what was approved  *)
(* beforehand; and one that says yes, says no or shows a screen) and the   *)
(* node, which keeps the approved invoices under a velocity control of its *)
(* own.  Only the node's part is persisted.                                *)
(***************************************************************************)
EXTENDS SpendingLog, FiniteSets

CONSTANTS
    Hashes,         \* payment hashes
    InvoiceIds,     \* invoice hashes: two invoices may share a payment hash
    Amounts,        \* the amounts of invoices and keysends
    NodeLimit,      \* the limit of the node's control
    ApproverLimit,  \* the limit of the approver's control
    MaxInvoices,    \* policy.max_invoices
    Memorized       \* bound: the payments that are ever approved beforehand

ASSUME ApprovalsAssumption ==
    /\ Amounts \subseteq Nat
    /\ {NodeLimit, ApproverLimit} \subseteq 0..U64Max
    /\ MaxInvoices \in Nat
    /\ \A p \in Memorized : {"hash", "id", "amount"} = DOMAIN p

VARIABLES
    approver,   \* the approver's control
    node,       \* the node: its control, and the approved payments
    disk,       \* the payments as last persisted
    memo,       \* MemoApprover.approvals
    given,      \* history: the approvals given beforehand that may still be used
    auto,       \* history: what passed without a word since the word was last given
    remembered  \* history: what the node took since it last started

approvers == <<approver, memo, given, auto>>
approvalsVars == <<now, approver, node, disk, memo, given, auto, remembered>>

\* A keysend is identified by its payment hash, whatever its amount.
Invoice(h, id, amount) == [hash |-> h, id |-> <<"invoice", id>>, amount |-> amount]
Keysend(h, amount) == [hash |-> h, id |-> <<"keysend", h>>, amount |-> amount]
Onchain == [hash |-> {}, id |-> <<"onchain", {}>>, amount |-> 0]

ApprovalsInit ==
    /\ now = 0
    /\ approver = new_with_intervals(ApproverLimit)
    /\ node = [control |-> new_with_intervals(NodeLimit), invoices |-> {}]
    /\ disk = {}
    /\ memo = {} /\ given = {}
    /\ auto = Nothing
    /\ remembered = Nothing

------------------------------------------------------------------------------
(* The node                                                                 *)

\* A payment with the hash is known, as this invoice (approved) or as another (an
\* error): either way nobody is asked and nothing changes.
has_payment(p) == \E q \in node.invoices : q.hash = p.hash

\* Node::add_invoice and Node::add_keysend; ok: the invoice has not expired.
add_payment(p, ok) ==
    IF ~ok \/ Cardinality(node.invoices) >= MaxInvoices \/ has_payment(p)
    THEN UNCHANGED <<node, disk, remembered>>
    ELSE IF insert_ok(node.control, now, p.amount)
    THEN /\ node' = [control |-> insert(node.control, now, p.amount),
                     invoices |-> node.invoices \cup {p}]
         /\ disk' = node'.invoices
         /\ remembered' = Log(remembered, p.amount)
    ELSE /\ node' = [node EXCEPT !.control = insert(@, now, p.amount)]
         /\ UNCHANGED <<disk, remembered>>

------------------------------------------------------------------------------
(* The approver                                                             *)

\* What the last approver may say; that of the screen is up to a person.
PositiveApprover == {TRUE}
WarningPositiveApprover == {TRUE}
NegativeApprover == {FALSE}
ScreenApprover == BOOLEAN

Words == PositiveApprover \cup WarningPositiveApprover \cup NegativeApprover \cup ScreenApprover

\* Mutant: an approval stays until others are set.
BugMemoStays(p) == UNCHANGED memo

\* The memory is drained by any request, also by one that it has no approval for.
drain(p) == memo' = {}

\* MemoApprover: an equal invoice, keysend or transaction, or the word of the next.
Delegated(p, word) == p \in memo \/ word

Approved(p, word) == insert_ok(approver, now, p.amount) \/ Delegated(p, word)

\* VelocityApprover: the delegate is asked when the control refuses, and its approval
\* clears the control.
approve(p, word) ==
    IF insert_ok(approver, now, p.amount)
    THEN /\ approver' = insert(approver, now, p.amount)
         /\ auto' = Log(auto, p.amount)
         /\ UNCHANGED <<memo, given>>
    ELSE LET refused == insert(approver, now, p.amount) IN
         /\ approver' = IF Delegated(p, word) THEN clear(refused) ELSE refused
         /\ auto' = IF word \/ p \in given THEN Nothing
                    ELSE IF Delegated(p, word) THEN Log(auto, p.amount) ELSE auto
         /\ drain(p)
         /\ given' = {}

PreapproveInvoice(h, id, amount, allowlisted, word, ok) ==
    LET p == Invoice(h, id, amount) IN
    /\ UNCHANGED now
    /\ CASE has_payment(p) -> UNCHANGED <<approvers, node, disk, remembered>>
         [] ~has_payment(p) /\ allowlisted ->
               add_payment(p, ok) /\ UNCHANGED approvers
         [] OTHER ->
               /\ approve(p, word)
               /\ IF Approved(p, word) THEN add_payment(p, ok)
                  ELSE UNCHANGED <<node, disk, remembered>>

\* The allowlist is not asked for a keysend.
PreapproveKeysend(h, amount, word) ==
    LET p == Keysend(h, amount) IN
    /\ UNCHANGED now
    /\ IF has_payment(p) THEN UNCHANGED <<approvers, node, disk, remembered>>
       ELSE /\ approve(p, word)
            /\ IF Approved(p, word) THEN add_payment(p, TRUE)
               ELSE UNCHANGED <<node, disk, remembered>>

\* A transaction that pays to an unknown destination goes past the velocity control; what
\* is done with it is not of this module.
approve_onchain ==
    /\ drain(Onchain)
    /\ given' = {}
    /\ UNCHANGED <<now, approver, node, disk, auto, remembered>>

\* MemoApprover::approve: what was approved before is overwritten.
Memorize(approvals) ==
    /\ memo' = approvals
    /\ given' = approvals
    /\ UNCHANGED <<now, approver, node, disk, auto, remembered>>

------------------------------------------------------------------------------
(* Time and restarts                                                        *)

\* The clock is not set back (VelocityControl would then forget what it holds).
SetClock(t) ==
    /\ t > now
    /\ now' = t
    /\ UNCHANGED <<approvers, node, disk, remembered>>

\* Node::new_full replaces the restored control by a new one.
RestartSigner ==
    /\ node' = [control |-> new_with_intervals(NodeLimit), invoices |-> disk]
    /\ approver' = new_with_intervals(ApproverLimit)
    /\ memo' = {} /\ given' = {}
    /\ auto' = Nothing
    /\ remembered' = Nothing
    /\ UNCHANGED <<now, disk>>

ApprovalsNext ==
    \/ \E h \in Hashes, id \in InvoiceIds, amount \in Amounts,
          allowlisted, ok \in BOOLEAN, word \in Words :
          PreapproveInvoice(h, id, amount, allowlisted, word, ok)
    \/ \E h \in Hashes, amount \in Amounts, word \in Words :
          PreapproveKeysend(h, amount, word)
    \/ approve_onchain
    \/ \E p \in Memorized : Memorize({p})
    \/ \E t \in Seconds : SetClock(t)
    \/ RestartSigner

ApprovalsSpec == ApprovalsInit /\ [][ApprovalsNext]_approvalsVars

------------------------------------------------------------------------------
(* Properties                                                               *)

UnderLimit(log, limit) ==
    limit < U64Max =>
        \A t \in Seconds : SumIn(log, t - Window, t) <= limit

\* "If the limit would be exceeded, the given velocity is not inserted": what the
\* node takes stays within its limit in every window since it started.
NodeUnderLimitSinceStart == UnderLimit(remembered, NodeLimit)

\* What passes without a word stays within the approver's limit; a word given beforehand
\* is good for one payment, and only for the one it was given for.
AutoApprovedUnderLimit == UnderLimit(auto, ApproverLimit)

\* The node refuses nothing else: it takes an amount exactly when what it took since
\* the bucket of NumBuckets - 1 intervals ago began leaves room for it.
TakesWhatFits ==
    \A amount \in Amounts :
        insert_ok(node.control, now, amount)
          <=> LET bucket == now - (now % BucketInterval)
                  total == SumIn(remembered, bucket - Window, now) + amount
              IN  NodeLimit = U64Max \/ total <= NodeLimit

==============================================================================
