--------------------------- MODULE CatalogPayments ---------------------------
(***************************************************************************)
(* Payments in ao/catalog/process.lua: intents, 3DS challenges, capture,   *)
(* refund, the payment webhook, and what they do to checkouts and orders.  *)
(*                                                                         *)
(* Every provider is "internal": no handler lets Provider through          *)
(* require_no_extras.  HandlePaymentProviderWebhook applies nothing: it    *)
(* replaces the type of an event by its normal form and then looks the     *)
(* normal form up among the provider's own names.  Amounts, times, the     *)
(* paymentStatus of a checkout and the status of an order are stored and   *)
(* reported, never read.  Messages without effect (refusals, captures of   *)
(* what is captured) are stutters.  CatalogStock has the stock of a        *)
(* checkout; StartCheckout is left out because it throws before it writes. *)
(***************************************************************************)
EXTENDS Integers, FiniteSets

CONSTANTS
    Payments,       \* identifiers of payments
    Checkouts,      \* identifiers of checkouts
    Orders,         \* identifiers of orders
    Statuses,       \* bound: statuses the webhook reports of payments
    EventStatuses,  \* bound: statuses the write process reports of orders; any is taken
    None            \* Lua's nil

VARIABLES
    env,            \* PSP_ALLOW_STUB and SCA_FORCE
    payments,       \* state.payments
    checkouts,      \* state.checkouts
    orders,         \* state.orders: the paymentStatus of each, "unset" before it has one
    reported,       \* history: orders that have their paymentStatus from the write process
    captured,       \* history: payments that have been captured
    challenged,     \* history: payments captured by Complete3DSChallenge
    vouched         \* history: payments CapturePayment was told are challenged,
                    \* or the webhook has reported captured

history == <<captured, challenged, vouched>>
orderVars == <<orders, reported>>
vars == <<env, payments, checkouts, orderVars, history>>

PayStatus == {"requires_action", "authorized", "captured", "failed", "disputed", "refunded"}

Payment == [checkoutId : Checkouts \cup {None}, orderId : Orders \cup {None},
            status : PayStatus, requiresAction : BOOLEAN,
            challenge : {"unlimited", "open", "expired"}]
Checkout == [status : PayStatus \cup {"pending_payment", "manual_review", "paid"},
             paymentIntent : Payments \cup {None}, risky : BOOLEAN]
OrderStatus == PayStatus \cup {"unset", "paid"} \cup EventStatuses

ASSUME PaymentsAssumption ==
    /\ None \notin Payments \cup Checkouts \cup Orders
    /\ None \notin Payment \cup Checkout \cup OrderStatus
    /\ Statuses \subseteq PayStatus

Init ==
    /\ env \in [stub : BOOLEAN, sca : BOOLEAN]
    /\ payments = [p \in Payments |-> None]
    /\ checkouts = [c \in Checkouts |-> None]
    /\ orders = [o \in Orders |-> None]
    /\ captured = {} /\ challenged = {} /\ vouched = {} /\ reported = {}

-----------------------------------------------------------------------------
(***************************************************************************)
(* Intents                                                                 *)
(***************************************************************************)

Exists(p) == payments[p] # None

\* The order a payment names gets a payment status.
Informed(p, status) ==
    LET o == payments[p].orderId IN
    IF o = None \/ orders[o] = None THEN orders ELSE [orders EXCEPT ![o] = status]

Inform(p, status) ==
    /\ orders' = Informed(p, status)
    /\ reported' = reported \ {payments[p].orderId}

Intent(c, o, action, challenge) ==
    [checkoutId |-> c, orderId |-> o, requiresAction |-> action, challenge |-> challenge,
     status |-> IF action THEN "requires_action" ELSE "authorized"]

\* create_payment_intent_internal with a fresh identifier.  Without the stub it
\* returns nil, and every caller throws on it.
CreateIntent(p, c, o, action, challenge) ==
    /\ env.stub /\ ~Exists(p)
    /\ payments' = [payments EXCEPT ![p] = Intent(c, o, action, challenge)]

WithIntent(c, p) == IF c = None THEN checkouts ELSE [checkouts EXCEPT ![c].paymentIntent = p]

\* CheckoutPurchaseOrder: the checkout stays when creating its intent throws.
NewCheckout(c, p, require3ds, risky) ==
    /\ checkouts[c] = None
    /\ IF env.stub
       THEN CreateIntent(p, c, None, require3ds \/ env.sca, "unlimited")
       ELSE UNCHANGED payments
    /\ checkouts' = [checkouts EXCEPT ![c] =
          [status |-> "pending_payment", risky |-> risky,
           paymentIntent |-> IF env.stub THEN p ELSE None]]
    /\ UNCHANGED <<env, orderVars, history>>

CreatePaymentIntent(p, c, o, require3ds) ==
    LET action == require3ds \/ env.sca IN
    /\ c # None => checkouts[c] # None
    /\ o # None => orders[o] # None
    /\ CreateIntent(p, c, o, action, IF action THEN "open" ELSE "unlimited")
    /\ checkouts' = WithIntent(c, p)
    /\ orders' = IF o = None THEN orders
                 ELSE [orders EXCEPT ![o] = payments'[p].status]
    /\ reported' = reported \ {o}
    /\ UNCHANGED <<env, history>>

-----------------------------------------------------------------------------
(***************************************************************************)
(* Capture, refund, challenge                                              *)
(***************************************************************************)

\* ChallengeCompleted is not among the fields CompleteCheckout accepts.
Completable(pay) == ~pay.requiresAction

\* CompleteCheckout for a checkout with an intent, whatever became of the intent.
CompleteWith(c, p, pays) ==
    IF ~Completable(pays[p])
    THEN payments' = pays /\ UNCHANGED captured /\ checkouts' = WithIntent(c, p)
    ELSE IF checkouts[c].risky
    THEN /\ payments' = pays /\ UNCHANGED captured
         /\ checkouts' = [WithIntent(c, p) EXCEPT ![c].status = "manual_review"]
    ELSE /\ payments' = [pays EXCEPT ![p].status = "captured"]
         /\ captured' = captured \cup {p}
         /\ checkouts' = [WithIntent(c, p) EXCEPT ![c].status = "paid"]

CompleteCheckout(c, p) ==
    /\ checkouts[c] # None /\ checkouts[c].status = "pending_payment"
    /\ IF checkouts[c].paymentIntent = None
       THEN /\ env.stub /\ ~Exists(p)
            /\ CompleteWith(c, p,
                 [payments EXCEPT ![p] = Intent(c, None, env.sca, "unlimited")])
       ELSE p = checkouts[c].paymentIntent /\ Exists(p) /\ CompleteWith(c, p, payments)
    /\ UNCHANGED <<env, orderVars, challenged, vouched>>

\* The checkout is left as it is.
Complete3DSChallenge(p) ==
    /\ Exists(p)
    /\ payments[p].status = "requires_action" /\ payments[p].challenge # "expired"
    /\ payments' = [payments EXCEPT ![p].status = "captured"]
    /\ captured' = captured \cup {p}
    /\ challenged' = challenged \cup {p}
    /\ UNCHANGED <<env, checkouts, orderVars, vouched>>

\* Wrong: the checkout is left to the webhook.
SettledNever(p, status) == checkouts

\* The checkout a payment names gets a status.
Settled(p, status) ==
    LET c == payments[p].checkoutId IN
    IF c = None \/ checkouts[c] = None THEN checkouts
    ELSE [checkouts EXCEPT ![c].status = status]

\* Wrong: only captured payments are left alone.
FinishedCaptured(status) == status = "captured"

Finished(status) == status \in {"captured", "refunded"}

CapturePayment(p, completed) ==
    /\ Exists(p) /\ ~Finished(payments[p].status)
    /\ payments[p].requiresAction => completed
    /\ payments' = [payments EXCEPT ![p].status = "captured"]
    /\ captured' = captured \cup {p}
    /\ vouched' = IF completed THEN vouched \cup {p} ELSE vouched
    /\ Inform(p, "paid")
    /\ checkouts' = Settled(p, "paid")
    /\ UNCHANGED <<env, challenged>>

\* Any payment, captured or not, and more than once; its checkout stays paid.
RefundPayment(p) ==
    /\ Exists(p)
    /\ payments' = [payments EXCEPT ![p].status = "refunded"]
    /\ Inform(p, "refunded")
    /\ UNCHANGED <<env, checkouts, history>>

\* Wrong: an authorized payment counts as paid.
CheckoutStatusEarly(status) == IF status \in {"captured", "authorized"} THEN "paid" ELSE status

CheckoutStatus(status) == IF status = "captured" THEN "paid" ELSE status

\* Whatever the payment, its checkout and its order have come to, the status of
\* the message replaces it.
HandlePaymentWebhook(p, status) ==
    /\ Exists(p)
    /\ payments' = [payments EXCEPT ![p].status = status]
    /\ captured' = IF status = "captured" THEN captured \cup {p} ELSE captured
    /\ vouched' = IF status = "captured" THEN vouched \cup {p} ELSE vouched
    /\ Inform(p, status)
    /\ checkouts' = Settled(p, CheckoutStatus(status))
    /\ UNCHANGED <<env, challenged>>

\* CHALLENGE_TTL seconds pass.
ChallengeExpires(p) ==
    /\ Exists(p) /\ payments[p].challenge = "open"
    /\ payments' = [payments EXCEPT ![p].challenge = "expired"]
    /\ UNCHANGED <<env, checkouts, orderVars, history>>

Lapsed(pay) == pay # None /\ pay.status = "requires_action" /\ pay.challenge = "expired"

CleanupRetention ==
    /\ payments' = [p \in Payments |->
          IF Lapsed(payments[p]) THEN [payments[p] EXCEPT !.status = "failed"] ELSE payments[p]]
    /\ UNCHANGED <<env, checkouts, orderVars, history>>

-----------------------------------------------------------------------------
(***************************************************************************)
(* ApplyOrderEvent                                                         *)
(***************************************************************************)

\* OrderCreated replaces the order, OrderStatusUpdated adds a missing one.
OrderCreated(o) ==
    /\ orders' = [orders EXCEPT ![o] = "unset"]
    /\ reported' = reported \ {o}
    /\ UNCHANGED <<env, payments, checkouts, history>>

OrderStatusUpdated(o) == orders[o] = None /\ OrderCreated(o)

\* Whatever status the event gives is stored, "paid" among others; an event without
\* one does what OrderStatusUpdated does.
PaymentStatusChanged(o, status) ==
    /\ orders' = [orders EXCEPT ![o] = status]
    /\ reported' = reported \cup {o}
    /\ UNCHANGED <<env, payments, checkouts, history>>

Next ==
    \/ \E c \in Checkouts, p \in Payments, require3ds \in BOOLEAN, risky \in BOOLEAN :
          NewCheckout(c, p, require3ds, risky)
    \/ \E p \in Payments, c \in Checkouts \cup {None}, o \in Orders \cup {None},
          require3ds \in BOOLEAN : CreatePaymentIntent(p, c, o, require3ds)
    \/ \E c \in Checkouts, p \in Payments : CompleteCheckout(c, p)
    \/ \E p \in Payments, completed \in BOOLEAN : CapturePayment(p, completed)
    \/ \E p \in Payments :
          Complete3DSChallenge(p) \/ RefundPayment(p) \/ ChallengeExpires(p)
    \/ \E p \in Payments, status \in Statuses : HandlePaymentWebhook(p, status)
    \/ CleanupRetention
    \/ \E o \in Orders : OrderCreated(o) \/ OrderStatusUpdated(o)
    \/ \E o \in Orders, status \in EventStatuses : PaymentStatusChanged(o, status)

Spec == Init /\ [][Next]_vars

-----------------------------------------------------------------------------

\* Payments, checkouts and orders have the fields and statuses handlers give them.
TypeOK ==
    /\ env \in [stub : BOOLEAN, sca : BOOLEAN]
    /\ payments \in [Payments -> {None} \cup Payment]
    /\ checkouts \in [Checkouts -> {None} \cup Checkout]
    /\ orders \in [Orders -> {None} \cup OrderStatus]
    /\ captured \subseteq Payments /\ challenged \subseteq Payments /\ vouched \subseteq Payments
    /\ reported \subseteq Orders

Of(c) == {p \in Payments : Exists(p) /\ payments[p].checkoutId = c}

PaidHere(o) == orders[o] = "paid" /\ o \notin reported

\* Nobody gets goods for nothing: a checkout says paid only when a payment that
\* names it has been captured, whoever captured it; so does an order, unless the
\* write process has said paid and no payment has spoken since.
PaidMeansCaptured ==
    /\ \A c \in Checkouts : checkouts[c] # None /\ checkouts[c].status = "paid" =>
          \E p \in Of(c) : p \in captured
    /\ \A o \in Orders : PaidHere(o) =>
          \E p \in Payments : Exists(p) /\ payments[p].orderId = o /\ p \in captured

\* A captured payment settles its checkout in the same step, except when the
\* customer captured it by completing the 3DS challenge.
CaptureSettles ==
    \A c \in Checkouts : checkouts[c] # None /\ checkouts[c].status = "pending_payment" =>
        \A p \in Of(c) : payments[p].status = "captured" => p \in challenged

\* A payment that needs a challenge is captured only after the challenge, on the
\* word of CapturePayment's caller, or when the webhook has reported it.
ChallengedFirst ==
    \A p \in captured : payments[p].requiresAction =>
        p \in challenged \cup vouched

\* The intent a checkout will be completed with is a payment for that checkout.
IntentBelongs ==
    \A c \in Checkouts : checkouts[c] # None /\ checkouts[c].paymentIntent # None =>
        checkouts[c].paymentIntent \in Of(c)

Completing(p) ==
    \E c \in Checkouts : /\ checkouts[c] # None /\ checkouts[c].paymentIntent = p
                         /\ checkouts[c].status = "pending_payment"
                         /\ checkouts'[c].status = "paid"

\* A refund is undone only by the webhook or by the completion of the checkout
\* that has the payment as its intent, not by a late capture or clean-up.
RefundStays ==
    [][\A p \in Payments :
          Exists(p) /\ payments[p].status = "refunded" /\ payments'[p].status # "refunded" =>
              (\E status \in Statuses : HandlePaymentWebhook(p, status)) \/ Completing(p)]_vars

=============================================================================
