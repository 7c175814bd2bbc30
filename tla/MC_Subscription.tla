-------------------------- MODULE MC_Subscription --------------------------
(***************************************************************************)
(* An instance of Subscription for TLC: an id that is delivered twice, one *)
(* that is delivered once, and of each provider a payment, a failure, a    *)
(* cancellation and something else.                                        *)
(***************************************************************************)
EXTENDS Subscription, TLC

CONSTANTS d1, d2, d3, e1, e2

EventOfDelivery == (d1 :> e1) @@ (d2 :> e1) @@ (d3 :> e2)

Says(by, event, status, account, id) ==
    [by |-> by, event |-> event, status |-> status, account |-> account, id |-> id]

Sent == { Says("stripe", "checkout.session.completed", "", TRUE, TRUE),
          Says("stripe", "invoice.payment_failed", "", TRUE, TRUE),
          Says("stripe", "customer.subscription.deleted", "", TRUE, TRUE),
          Says("stripe", "invoice.paid", "", FALSE, TRUE),
          Says("paystack", "charge.success", "", TRUE, TRUE),
          Says("paystack", "invoice.payment_failed", "", TRUE, TRUE),
          Says("paystack", "subscription.disable", "", TRUE, FALSE),
          Says("paystack", "subscription.create", "", FALSE, FALSE),
          Says("flutterwave", "charge.completed", "successful", TRUE, TRUE),
          Says("flutterwave", "charge.completed", "failed", TRUE, TRUE),
          Says("flutterwave", "subscription.cancelled", "", TRUE, TRUE),
          Says("flutterwave", "charge.completed", "pending", TRUE, TRUE) }
=============================================================================
