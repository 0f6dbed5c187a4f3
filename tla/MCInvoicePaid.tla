----------------------------- MODULE MCInvoicePaid -----------------------------
(* The payments of a node with what its peers have claimed: an offered HTLC *)
(* that both commitments of a channel carried, and that then leaves both,   *)
(* was failed or settled.  The signer is not told which: no handler calls   *)
(* htlcs_fulfilled.                                                         *)
EXTENDS NodePayments

VARIABLES
    carried,  \* for each channel and payment, the HTLCs that both commitments have carried
    settled   \* for each payment, what was sent in HTLCs that were settled and are gone

InBoth(c, h) == Min({channels[c].holder.offered[h], channels[c].counterparty.offered[h]})

SettlingInit ==
    /\ Init
    /\ carried = [c \in Channels |-> [h \in Hashes |-> 0]]
    /\ settled = [h \in Hashes |-> 0]

SettlingNext ==
    /\ Next
    /\ carried' = [c \in Channels |-> [h \in Hashes |->
                      IF MayLose(c, h)' = 0 THEN 0 ELSE Max({carried[c][h], InBoth(c, h)'})]]
    /\ \E claimed \in SUBSET {<<c, h>> \in Channels \X Hashes : MayLose(c, h)' = 0} :
          settled' = [h \in Hashes |->
              settled[h] + Total([c \in Channels |->
                               IF <<c, h>> \in claimed THEN carried[c][h] ELSE 0])]

SettlingSpec == SettlingInit /\ [][SettlingNext]_<<vars, carried, settled>>

\* NodeState::validate_payments allows "no overpayment for any invoice": what was settled for an
\* invoice and what both commitments carry for it now stay within its amount and the routing fee.
NoOverpayment ==
    \A h \in DOMAIN node.invoices :
        settled[h] + Total([c \in Channels |-> InBoth(c, h) - SureToGet(c, h)])
            <= node.invoices[h] + MaxRoutingFee

==============================================================================
