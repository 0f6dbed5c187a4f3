----------------------------- MODULE NodePayments -----------------------------
(***************************************************************************)
(* The payments of a node across its channels: the invoices it may pay,    *)
(* the ones it has issued, and for each payment hash what comes in and     *)
(* goes out in every channel.  A commitment is taken only if no payment is *)
(* sent that an invoice or an incoming payment does not cover.             *)
(*                                                                         *)
(* The channels are durable (see module Channel; a commitment that was not *)
(* persisted was not answered), the node's own state only in part: it is   *)
(* written when an invoice is added, and rebuilt from the channels.        *)
(* Amounts are in satoshi.  enforce_balance is off, as in every policy     *)
(* that the code makes, so that excess_amount plays no part.               *)
(***************************************************************************)
EXTENDS Integers, FiniteSets, FiniteSetsExt, Functions

CONSTANTS
    Hashes,         \* payment hashes
    Channels,       \* the ready channels
    InvoiceAmounts, \* the amounts of invoices
    HtlcAmounts,    \* what the HTLCs of one payment in one commitment sum up to, with 0
    MaxRoutingFee,  \* policy.max_routing_fee_msat
    MaxInvoices     \* policy.max_invoices

ASSUME NodePaymentsAssumption ==
    /\ IsFiniteSet(Channels)
    /\ InvoiceAmounts \subseteq Nat
    /\ HtlcAmounts \subseteq Nat /\ 0 \in HtlcAmounts
    /\ {MaxRoutingFee, MaxInvoices} \subseteq Nat

VARIABLES
    node,      \* NodeState: invoices, issued_invoices, payments
    channels,  \* the current commitments of each channel
    disk,      \* NodeStateEntry as last written
    paid,      \* the hashes whose preimage was ever given
    status     \* "up", or "panic" when an expect has failed

vars == <<node, channels, disk, paid, status>>

\* The HTLCs of a commitment, seen from the holder, whoever broadcasts it.
Commitments == [offered : [Hashes -> HtlcAmounts], received : [Hashes -> HtlcAmounts]]
NoHtlcs == [offered |-> [h \in Hashes |-> 0], received |-> [h \in Hashes |-> 0]]

RoutedPayment_new ==
    [incoming |-> [c \in Channels |-> 0], outgoing |-> [c \in Channels |-> 0],
     preimage |-> FALSE]

Total(amounts) == SumFunctionOnSet(amounts, Channels)

is_no_incoming(p) == Total(p.incoming) = 0
is_no_outgoing(p) == Total(p.outgoing) = 0

------------------------------------------------------------------------------
(* Summaries of a channel with commitments new, where cur are its current ones *)

\* What is sent is what either commitment says, what is received is what both say.
payments_summary(new, h) ==
    IF new.holder.offered[h] >= new.counterparty.offered[h]
    THEN new.holder.offered[h] ELSE new.counterparty.offered[h]

incoming_payments_summary(new, h) ==
    IF new.holder.received[h] <= new.counterparty.received[h]
    THEN new.holder.received[h] ELSE new.counterparty.received[h]

\* The hashes in either summary: an HTLC that is gone is listed with 0.
Summarized(cur, new) ==
    {h \in Hashes :
        \/ payments_summary(new, h) > 0
        \/ incoming_payments_summary(new, h) > 0
        \/ \E tx \in {cur.holder, cur.counterparty} : tx.offered[h] + tx.received[h] > 0}

------------------------------------------------------------------------------
(* NodeState                                                                *)

PaymentOf(payments, h) == IF h \in DOMAIN payments THEN payments[h] ELSE RoutedPayment_new

updated_incoming(p, c, amount) == Total([p.incoming EXCEPT ![c] = amount])
updated_outgoing(p, c, amount) == Total([p.outgoing EXCEPT ![c] = amount])

Invoiced(h) == h \in DOMAIN node.invoices

validate_payment_balance(h, incoming, outgoing) ==
    incoming + (IF Invoiced(h) THEN node.invoices[h] + MaxRoutingFee ELSE 0) >= outgoing

\* Mutant: only the channel at hand is looked at.
BugValidatesOneChannel(c, new) ==
    \A h \in Summarized(channels[c], new) :
        \/ validate_payment_balance(h, incoming_payments_summary(new, h),
                                    payments_summary(new, h))
        \/ h \in DOMAIN node.payments /\ ~Invoiced(h)

\* A payment that exists and has no invoice may go out of balance (issue 331).
validate_payments(c, new) ==
    \A h \in Summarized(channels[c], new) :
        LET p == PaymentOf(node.payments, h)
        IN  \/ validate_payment_balance(
                   h, updated_incoming(p, c, incoming_payments_summary(new, h)),
                      updated_outgoing(p, c, payments_summary(new, h)))
            \/ h \in DOMAIN node.payments /\ ~Invoiced(h)

\* The payments with those of the channel's summaries entered.
apply_payments(payments, c, cur, new) ==
    [h \in DOMAIN payments \cup Summarized(cur, new) |->
        LET p == PaymentOf(payments, h)
        IN  IF h \in Summarized(cur, new)
            THEN [p EXCEPT !.incoming[c] = incoming_payments_summary(new, h),
                           !.outgoing[c] = payments_summary(new, h)]
            ELSE p]

------------------------------------------------------------------------------
(* The requests                                                             *)

Init ==
    /\ node = [invoices |-> <<>>, issued_invoices |-> {}, payments |-> <<>>]
    /\ channels = [c \in Channels |-> [holder |-> NoHtlcs, counterparty |-> NoHtlcs]]
    /\ disk = [invoices |-> <<>>, issued_invoices |-> {}, preimages |-> {}]
    /\ paid = {}
    /\ status = "up"

NewCommitment(c, new) ==
    /\ status = "up"
    /\ validate_payments(c, new)
    /\ node' = [node EXCEPT !.payments = apply_payments(@, c, channels[c], new)]
    /\ channels' = [channels EXCEPT ![c] = new]
    /\ UNCHANGED <<disk, paid, status>>

\* A refused commitment changes nothing.
ValidateHolderCommitmentTx(c, tx) ==
    NewCommitment(c, [channels[c] EXCEPT !.holder = tx])

SignCounterpartyCommitmentTx(c, tx) ==
    NewCommitment(c, [channels[c] EXCEPT !.counterparty = tx])

Put(f, k, v) == [x \in {k} \cup DOMAIN f |-> IF x = k THEN v ELSE f[x]]

Entry(n) ==
    [invoices |-> n.invoices, issued_invoices |-> n.issued_invoices,
     preimages |-> {h \in DOMAIN n.payments : n.payments[h].preimage}]

\* Node::add_invoice and add_keysend, after the approval and the velocity control.
AddInvoice(h, amount) ==
    /\ status = "up"
    /\ Cardinality(DOMAIN node.invoices) < MaxInvoices
    /\ ~Invoiced(h)
    /\ node' = [node EXCEPT
                  !.invoices = Put(@, h, amount),
                  !.payments = Put(@, h, PaymentOf(@, h))]
    /\ disk' = Entry(node')
    /\ UNCHANGED <<channels, paid, status>>

\* Node::sign_invoice does not write the node.
SignInvoice(h) ==
    /\ status = "up"
    /\ Cardinality(node.issued_invoices) < MaxInvoices
    /\ h \notin node.issued_invoices
    /\ node' = [node EXCEPT !.issued_invoices = @ \cup {h}]
    /\ UNCHANGED <<channels, disk, paid, status>>

htlc_fulfilled(h) ==
    /\ status = "up"
    /\ h \in DOMAIN node.payments
    /\ ~node.payments[h].preimage
    /\ node' = [node EXCEPT !.payments[h].preimage = TRUE]
    /\ paid' = paid \cup {h}
    /\ UNCHANGED <<channels, disk, status>>

------------------------------------------------------------------------------
(* The heartbeat prunes                                                     *)

\* overdue are the hashes whose invoice is past its prune time.
is_invoice_prunable(overdue, h) ==
    /\ h \in overdue
    /\ node.payments[h].preimage \/ is_no_outgoing(node.payments[h])

is_forwarded_payment_prunable(invoices, issued, payments, h) ==
    /\ h \notin DOMAIN invoices \cup issued
    /\ is_no_incoming(payments[h])
    /\ is_no_outgoing(payments[h])

\* prune_invoices, prune_issued_invoices, prune_forwarded_payments; nothing is written.
\* Every invoice has a time of its own, so any of them may be overdue.
GetHeartbeat(overdue, overdue_issued) ==
    /\ status = "up"
    /\ IF DOMAIN node.invoices \subseteq DOMAIN node.payments
       THEN LET prune == {h \in DOMAIN node.invoices : is_invoice_prunable(overdue, h)}
                invoices == Restrict(node.invoices, DOMAIN node.invoices \ prune)
                issued == node.issued_invoices \ overdue_issued
                payments == Restrict(node.payments, DOMAIN node.payments \ prune)
                ended == {h \in DOMAIN payments :
                             is_forwarded_payment_prunable(invoices, issued, payments, h)}
            IN  /\ node' = [invoices |-> invoices, issued_invoices |-> issued,
                            payments |-> Restrict(payments, DOMAIN payments \ ended)]
                /\ UNCHANGED status
       ELSE status' = "panic" /\ UNCHANGED node
    /\ UNCHANGED <<channels, disk, paid>>

------------------------------------------------------------------------------
(* Restart                                                                  *)

\* Mutant: the invoices are restored without a payment of their own.
BugRestoresNoPayment(entry) ==
    [h \in entry.preimages |-> [RoutedPayment_new EXCEPT !.preimage = TRUE]]

\* A preimage of an invoice is overwritten by the empty payment made for the invoice.
RestoredPayments(entry) ==
    [h \in entry.preimages \cup DOMAIN entry.invoices |->
        IF h \in DOMAIN entry.invoices THEN RoutedPayment_new
        ELSE [RoutedPayment_new EXCEPT !.preimage = TRUE]]

\* Mutant: the payments in flight are not entered again.
BugForgetsInFlight(payments) == payments

\* Channel::restore_payments of every channel: each enters its own part.
restore_payments(payments) ==
    LET Has(c, h) == h \in Summarized(channels[c], channels[c])
    IN  [h \in DOMAIN payments \cup {g \in Hashes : \E c \in Channels : Has(c, g)} |->
            LET p == PaymentOf(payments, h)
            IN  [p EXCEPT
                  !.incoming = [c \in Channels |->
                      IF Has(c, h) THEN incoming_payments_summary(channels[c], h) ELSE @[c]],
                  !.outgoing = [c \in Channels |->
                      IF Has(c, h) THEN payments_summary(channels[c], h) ELSE @[c]]]]

Restart ==
    /\ status' = "up"
    /\ node' = [invoices |-> disk.invoices, issued_invoices |-> disk.issued_invoices,
                payments |-> restore_payments(RestoredPayments(disk))]
    /\ UNCHANGED <<channels, disk, paid>>

Next ==
    \/ \E c \in Channels, tx \in Commitments :
          \/ ValidateHolderCommitmentTx(c, tx)
          \/ SignCounterpartyCommitmentTx(c, tx)
    \/ \E h \in Hashes, amount \in InvoiceAmounts : AddInvoice(h, amount)
    \/ \E h \in Hashes : SignInvoice(h) \/ htlc_fulfilled(h)
    \/ \E overdue \in SUBSET DOMAIN node.invoices,
          overdue_issued \in SUBSET node.issued_invoices :
          GetHeartbeat(overdue, overdue_issued)
    \/ Restart

Spec == Init /\ [][Next]_vars

------------------------------------------------------------------------------
(* Properties                                                               *)

\* What is in flight in a channel for a payment: the worse of its two current commitments,
\* as the code counts it.  The counterparty's previous commitment, which it can publish until
\* it has revoked it, and HTLCs that were settled and are gone are not counted.
MayLose(c, h) == Max({channels[c].holder.offered[h], channels[c].counterparty.offered[h]})
SureToGet(c, h) == Min({channels[c].holder.received[h], channels[c].counterparty.received[h]})

NetInFlight(h) == Total([c \in Channels |-> MayLose(c, h)])
                    - Total([c \in Channels |-> SureToGet(c, h)])

\* policy-commitment-payment-invoiced: no commitment, in any channel, after any restart
\* and any pruning, raises what is in flight at once for an invoice that is not yet paid
\* above its amount and the routing fee.
InFlightWithinInvoice ==
    [][ \A h \in DOMAIN node.invoices \ paid :
            NetInFlight(h)' > NetInFlight(h) =>
                NetInFlight(h)' <= node.invoices[h] + MaxRoutingFee ]_vars

\* What is in flight is on record: no payment that is not yet paid goes out of a
\* channel without the node counting it.
InFlightIsRecorded ==
    \A h \in Hashes \ paid, c \in Channels :
        MayLose(c, h) > 0 =>
            /\ h \in DOMAIN node.payments
            /\ node.payments[h].outgoing[c] = MayLose(c, h)

\* prune_invoices finds a payment for every invoice ("missing payments struct").
PruningNeverPanics == status # "panic"

==============================================================================
