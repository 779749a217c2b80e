----------------------- MODULE CatalogPaymentsProofs -----------------------
(***************************************************************************)
(* Proofs about CatalogPayments for any sets of payments, checkouts and    *)
(* orders.                                                                 *)
(*                                                                         *)
(* A checkout is paid by one step and the payment behind it captured by    *)
(* the same or an earlier one, reached through two references that point   *)
(* at each other: paymentIntent and checkoutId.  The invariant therefore   *)
(* needs the references to agree (IntentBelongs), captures to be captures  *)
(* of payments that exist, and payments to name checkouts that exist, or a *)
(* new checkout could inherit a captured payment.                          *)
(***************************************************************************)
EXTENDS CatalogPayments, TLAPS

\* What is captured exists, and so does the checkout a payment names.
NamesExist ==
    /\ \A p \in captured : Exists(p)
    /\ \A p \in Payments : Exists(p) /\ payments[p].checkoutId # None =>
          checkouts[payments[p].checkoutId] # None

IInv ==
    /\ TypeOK /\ NamesExist /\ PaidMeansCaptured /\ CaptureSettles
    /\ ChallengedFirst /\ IntentBelongs

\* A step keeps payments, what they name and whether they need a challenge.
Kept ==
    /\ \A p \in Payments : Exists(p) =>
          /\ payments'[p] # None
          /\ payments'[p].checkoutId = payments[p].checkoutId
          /\ payments'[p].orderId = payments[p].orderId
          /\ payments'[p].requiresAction = payments[p].requiresAction
    /\ \A c \in Checkouts : checkouts[c] # None => checkouts'[c] # None
    /\ captured \subseteq captured' /\ challenged \subseteq challenged'
    /\ vouched \subseteq vouched'

-----------------------------------------------------------------------------
(***************************************************************************)
(* Type correctness                                                        *)
(***************************************************************************)

LEMMA InitType == Init => TypeOK
BY DEF Init, TypeOK

LEMMA InformedType ==
    ASSUME TypeOK, NEW p \in Payments, NEW status \in OrderStatus
    PROVE  Informed(p, status) \in [Orders -> {None} \cup OrderStatus]
BY DEF Informed, TypeOK

LEMMA SettledType ==
    ASSUME TypeOK, NEW p \in Payments, NEW status \in PayStatus \cup {"paid"}
    PROVE  Settled(p, status) \in [Checkouts -> {None} \cup Checkout]
<1> DEFINE c == payments[p].checkoutId
<1>1. CASE c = None \/ checkouts[c] = None
  BY <1>1 DEF Settled, TypeOK
<1>2. CASE ~(c = None \/ checkouts[c] = None)
  <2>1. Settled(p, status) = [checkouts EXCEPT ![c].status = status]
    BY <1>2 DEF Settled
  <2>2. ASSUME NEW d \in Checkouts
        PROVE  [checkouts EXCEPT ![c].status = status][d] \in {None} \cup Checkout
    BY <1>2, <2>2 DEF TypeOK, Checkout, PayStatus
  <2>3. QED
    BY <2>1, <2>2 DEF TypeOK
<1>3. QED
  BY <1>1, <1>2

LEMMA PaymentType ==
    ASSUME TypeOK, NEW p \in Payments, Exists(p), NEW status \in PayStatus
    PROVE  [payments EXCEPT ![p].status = status] \in [Payments -> {None} \cup Payment]
BY DEF TypeOK, Exists, Payment, PayStatus

LEMMA IntentType ==
    ASSUME NEW c \in Checkouts \cup {None}, NEW o \in Orders \cup {None},
           NEW action \in BOOLEAN, NEW challenge \in {"unlimited", "open", "expired"}
    PROVE  Intent(c, o, action, challenge) \in Payment
BY DEF Intent, Payment, PayStatus

LEMMA LinkType ==
    ASSUME TypeOK, NEW c \in Checkouts \cup {None}, c # None => checkouts[c] # None,
           NEW p \in Payments
    PROVE  WithIntent(c, p) \in [Checkouts -> {None} \cup Checkout]
BY DEF WithIntent, TypeOK, Checkout

LEMMA CreateType ==
    ASSUME TypeOK, NEW p \in Payments, NEW c \in Checkouts \cup {None},
           NEW o \in Orders \cup {None}, NEW action \in BOOLEAN,
           NEW challenge \in {"unlimited", "open", "expired"},
           CreateIntent(p, c, o, action, challenge)
    PROVE  /\ payments' \in [Payments -> {None} \cup Payment]
           /\ payments'[p].status \in PayStatus
<1>1. Intent(c, o, action, challenge) \in Payment
  BY IntentType
<1>2. payments'[p] = Intent(c, o, action, challenge)
  BY DEF CreateIntent, TypeOK
<1>3. QED
  BY <1>1, <1>2 DEF CreateIntent, TypeOK, Payment

LEMMA NewCheckoutType ==
    ASSUME TypeOK, NEW c \in Checkouts, NEW p \in Payments, NEW require3ds \in BOOLEAN,
           NEW risky \in BOOLEAN, NewCheckout(c, p, require3ds, risky)
    PROVE  TypeOK'
<1>1. payments' \in [Payments -> {None} \cup Payment]
  <2>1. CASE env.stub
    <3>1. require3ds \/ env.sca \in BOOLEAN
      BY DEF TypeOK
    <3>2. CreateIntent(p, c, None, require3ds \/ env.sca, "unlimited")
      BY <2>1 DEF NewCheckout
    <3>3. QED
      BY <3>1, <3>2, CreateType
  <2>2. CASE ~env.stub
    BY <2>2 DEF NewCheckout, TypeOK
  <2>3. QED
    BY <2>1, <2>2
<1>2. [status |-> "pending_payment", risky |-> risky,
       paymentIntent |-> IF env.stub THEN p ELSE None] \in Checkout
  BY DEF Checkout
<1>3. checkouts' \in [Checkouts -> {None} \cup Checkout]
  BY <1>2 DEF NewCheckout, TypeOK
<1>4. QED
  BY <1>1, <1>3 DEF NewCheckout, TypeOK, orderVars, history

LEMMA CreatePaymentIntentType ==
    ASSUME TypeOK, NEW p \in Payments, NEW c \in Checkouts \cup {None},
           NEW o \in Orders \cup {None}, NEW require3ds \in BOOLEAN,
           CreatePaymentIntent(p, c, o, require3ds)
    PROVE  TypeOK'
<1> DEFINE action == require3ds \/ env.sca
<1> DEFINE challenge == IF action THEN "open" ELSE "unlimited"
<1>1. action \in BOOLEAN /\ challenge \in {"unlimited", "open", "expired"}
  BY DEF TypeOK
<1>2. CreateIntent(p, c, o, action, challenge)
  BY DEF CreatePaymentIntent
<1> HIDE DEF action, challenge
<1>3. payments' \in [Payments -> {None} \cup Payment] /\ payments'[p].status \in PayStatus
  BY <1>1, <1>2, CreateType
<1>4. checkouts' \in [Checkouts -> {None} \cup Checkout]
  BY LinkType DEF CreatePaymentIntent
<1>5. orders' \in [Orders -> {None} \cup OrderStatus]
  BY <1>3 DEF CreatePaymentIntent, TypeOK, OrderStatus
<1>6. QED
  BY <1>3, <1>4, <1>5 DEF CreatePaymentIntent, TypeOK, orderVars, history

\* The intents CompleteCheckout finds or makes.
LEMMA CompleteWithType ==
    ASSUME TypeOK, NEW c \in Checkouts, checkouts[c] # None, NEW p \in Payments,
           NEW pays \in [Payments -> {None} \cup Payment], pays[p] # None,
           CompleteWith(c, p, pays)
    PROVE  /\ payments' \in [Payments -> {None} \cup Payment]
           /\ checkouts' \in [Checkouts -> {None} \cup Checkout]
           /\ captured' \in SUBSET Payments
<1>1. pays[p] \in Payment
  OBVIOUS
<1>2. [pays EXCEPT ![p].status = "captured"] \in [Payments -> {None} \cup Payment]
  BY <1>1 DEF Payment, PayStatus
<1>3. WithIntent(c, p) \in [Checkouts -> {None} \cup Checkout] /\ WithIntent(c, p)[c] \in Checkout
  BY PaymentsAssumption DEF WithIntent, TypeOK, Checkout
<1>4. ASSUME NEW status \in {"paid", "manual_review"}
      PROVE  [WithIntent(c, p) EXCEPT ![c].status = status] \in [Checkouts -> {None} \cup Checkout]
  BY <1>3 DEF Checkout
<1>5. captured \in SUBSET Payments
  BY DEF TypeOK
<1>6. QED
  BY <1>2, <1>3, <1>4, <1>5 DEF CompleteWith


LEMMA CompleteCheckoutType ==
    ASSUME TypeOK, NEW c \in Checkouts, NEW p \in Payments, CompleteCheckout(c, p)
    PROVE  TypeOK'
<1> DEFINE made == [payments EXCEPT ![p] = Intent(c, None, env.sca, "unlimited")]
<1>1. Intent(c, None, env.sca, "unlimited") \in Payment
  BY IntentType DEF TypeOK
<1>2. made \in [Payments -> {None} \cup Payment] /\ made[p] # None
  BY <1>1, PaymentsAssumption DEF TypeOK
<1>3. checkouts[c] # None
  BY DEF CompleteCheckout
<1>4. /\ payments' \in [Payments -> {None} \cup Payment]
      /\ checkouts' \in [Checkouts -> {None} \cup Checkout]
      /\ captured' \in SUBSET Payments
  <2>1. CASE checkouts[c].paymentIntent = None
    <3>1. CompleteWith(c, p, made)
      BY <2>1 DEF CompleteCheckout
    <3> HIDE DEF made
    <3>2. QED
      BY <1>2, <1>3, <3>1, CompleteWithType
  <2>2. CASE checkouts[c].paymentIntent # None
    <3>1. CompleteWith(c, p, payments) /\ payments[p] # None
      BY <2>2 DEF CompleteCheckout, Exists
    <3>2. QED
      BY <1>3, <2>2, <3>1, CompleteWithType DEF TypeOK
  <2>3. QED
    BY <2>1, <2>2
<1>5. QED
  BY <1>4 DEF CompleteCheckout, TypeOK, orderVars, history

LEMMA ReportType ==
    ASSUME TypeOK, NEW p \in Payments, NEW status \in Statuses, HandlePaymentWebhook(p, status)
    PROVE  TypeOK'
<1>1. status \in PayStatus /\ status \in OrderStatus /\ CheckoutStatus(status) \in PayStatus \cup {"paid"}
  BY PaymentsAssumption DEF OrderStatus, CheckoutStatus
<1>2. payments' \in [Payments -> {None} \cup Payment]
  BY <1>1, PaymentType DEF HandlePaymentWebhook
<1>3. orders' \in [Orders -> {None} \cup OrderStatus]
  BY <1>1, InformedType DEF HandlePaymentWebhook, Inform
<1>4. checkouts' \in [Checkouts -> {None} \cup Checkout]
  BY <1>1, SettledType DEF HandlePaymentWebhook
<1>5. QED
  BY <1>2, <1>3, <1>4 DEF HandlePaymentWebhook, Inform, TypeOK

LEMMA CaptureType ==
    ASSUME TypeOK, NEW p \in Payments, NEW completed \in BOOLEAN, CapturePayment(p, completed)
    PROVE  TypeOK'
<1>1. "captured" \in PayStatus /\ "paid" \in OrderStatus
  BY DEF PayStatus, OrderStatus
<1>2. payments' \in [Payments -> {None} \cup Payment]
  BY <1>1, PaymentType DEF CapturePayment
<1>3. orders' \in [Orders -> {None} \cup OrderStatus]
  BY <1>1, InformedType DEF CapturePayment, Inform
<1>4. checkouts' \in [Checkouts -> {None} \cup Checkout]
  BY SettledType DEF CapturePayment
<1>5. QED
  BY <1>2, <1>3, <1>4 DEF CapturePayment, Inform, TypeOK

LEMMA CleanupType ==
    ASSUME TypeOK, CleanupRetention
    PROVE  TypeOK'
<1>1. ASSUME NEW q \in Payments
      PROVE  payments'[q] \in {None} \cup Payment
  <2>1. CASE Lapsed(payments[q])
    BY <2>1, <1>1 DEF CleanupRetention, Lapsed, TypeOK, Payment, PayStatus
  <2>2. CASE ~Lapsed(payments[q])
    BY <2>2, <1>1 DEF CleanupRetention, TypeOK
  <2>3. QED
    BY <2>1, <2>2
<1>2. payments' \in [Payments -> {None} \cup Payment]
  BY <1>1 DEF CleanupRetention
<1>3. QED
  BY <1>2 DEF CleanupRetention, TypeOK, orderVars, history

LEMMA TypeStep == TypeOK /\ [Next]_vars => TypeOK'
<1> SUFFICES ASSUME TypeOK, [Next]_vars PROVE TypeOK'
  OBVIOUS
<1>1. ASSUME NEW c \in Checkouts, NEW p \in Payments, NEW require3ds \in BOOLEAN,
             NEW risky \in BOOLEAN, NewCheckout(c, p, require3ds, risky)
      PROVE  TypeOK'
  BY <1>1, NewCheckoutType
<1>2. ASSUME NEW p \in Payments, NEW c \in Checkouts \cup {None}, NEW o \in Orders \cup {None},
             NEW require3ds \in BOOLEAN, CreatePaymentIntent(p, c, o, require3ds)
      PROVE  TypeOK'
  BY <1>2, CreatePaymentIntentType
<1>3. ASSUME NEW c \in Checkouts, NEW p \in Payments, CompleteCheckout(c, p)
      PROVE  TypeOK'
  BY <1>3, CompleteCheckoutType
<1>4. ASSUME NEW p \in Payments, NEW completed \in BOOLEAN, CapturePayment(p, completed)
      PROVE  TypeOK'
  BY <1>4, CaptureType
<1>5. ASSUME NEW p \in Payments, Complete3DSChallenge(p)
      PROVE  TypeOK'
  <2>1. payments' \in [Payments -> {None} \cup Payment]
    BY <1>5, PaymentType DEF Complete3DSChallenge, PayStatus
  <2>2. QED
    BY <1>5, <2>1 DEF Complete3DSChallenge, orderVars, TypeOK
<1>6. ASSUME NEW p \in Payments, RefundPayment(p)
      PROVE  TypeOK'
  <2>1. "refunded" \in PayStatus /\ "refunded" \in OrderStatus
    BY DEF PayStatus, OrderStatus
  <2>2. payments' \in [Payments -> {None} \cup Payment]
    BY <1>6, <2>1, PaymentType DEF RefundPayment
  <2>3. orders' \in [Orders -> {None} \cup OrderStatus]
    BY <1>6, <2>1, InformedType DEF RefundPayment, Inform
  <2>4. QED
    BY <1>6, <2>2, <2>3 DEF RefundPayment, Inform, TypeOK, orderVars, history
<1>7. ASSUME NEW p \in Payments, ChallengeExpires(p)
      PROVE  TypeOK'
  <2>1. payments' \in [Payments -> {None} \cup Payment]
    BY <1>7 DEF ChallengeExpires, Exists, TypeOK, Payment
  <2>2. QED
    BY <1>7, <2>1 DEF ChallengeExpires, TypeOK, orderVars, history
<1>8. ASSUME NEW p \in Payments, NEW status \in Statuses, HandlePaymentWebhook(p, status)
      PROVE  TypeOK'
  BY <1>8, ReportType
<1>9. CASE CleanupRetention
  BY <1>9, CleanupType
<1>10. ASSUME NEW o \in Orders, OrderCreated(o) \/ OrderStatusUpdated(o)
       PROVE  TypeOK'
  BY <1>10 DEF OrderCreated, OrderStatusUpdated, TypeOK, OrderStatus, history
<1>11. ASSUME NEW o \in Orders, NEW status \in EventStatuses, PaymentStatusChanged(o, status)
       PROVE  TypeOK'
  BY <1>11, PaymentsAssumption DEF PaymentStatusChanged, TypeOK, OrderStatus, history
<1>12. CASE UNCHANGED vars
  BY <1>12 DEF vars, orderVars, history, TypeOK
<1>13. QED
  BY <1>1, <1>2, <1>3, <1>4, <1>5, <1>6, <1>7, <1>8, <1>9, <1>10, <1>11, <1>12 DEF Next

\* Payments, checkouts and orders keep their shape.
THEOREM TypeCorrect == Spec => []TypeOK
BY InitType, TypeStep, PTL DEF Spec


-----------------------------------------------------------------------------
(***************************************************************************)
(* What one step can do.  Each formula says which new facts of a kind a    *)
(* step may establish; together with Kept they preserve the invariant.     *)
(***************************************************************************)

\* What becomes paid names, or is named by, a payment that is captured by now.
PaysStep ==
    /\ \A c \in Checkouts : checkouts'[c] # None /\ checkouts'[c].status = "paid" =>
          \/ checkouts[c] # None /\ checkouts[c].status = "paid"
          \/ \E p \in captured' : payments'[p] # None /\ payments'[p].checkoutId = c
    /\ \A o \in Orders : PaidHere(o)' =>
          \/ PaidHere(o)
          \/ \E p \in captured' : payments'[p] # None /\ payments'[p].orderId = o

\* A payment that becomes captured under a pending checkout was challenged.
SettlesStep ==
    \A c \in Checkouts, p \in Payments :
        ( /\ checkouts'[c] # None /\ checkouts'[c].status = "pending_payment"
          /\ payments'[p] # None /\ payments'[p].checkoutId = c
          /\ payments'[p].status = "captured" ) =>
            \/ /\ checkouts[c] # None /\ checkouts[c].status = "pending_payment"
               /\ Exists(p) /\ payments[p].status = "captured"
            \/ p \in challenged'

\* What becomes captured exists, and was challenged or vouched for if it must.
CapturesStep ==
    \A p \in captured' : p \in captured \/
        /\ payments'[p] # None
        /\ payments'[p].requiresAction => p \in challenged' \cup vouched'

\* A checkout gets an intent that names it.
IntendsStep ==
    \A c \in Checkouts : checkouts'[c] # None /\ checkouts'[c].paymentIntent # None =>
        \/ checkouts[c] # None /\ checkouts'[c].paymentIntent = checkouts[c].paymentIntent
        \/ LET p == checkouts'[c].paymentIntent IN
           p \in Payments /\ payments'[p] # None /\ payments'[p].checkoutId = c

\* A new payment names a checkout that is there.
NamesStep ==
    \A p \in Payments : payments'[p] # None /\ ~Exists(p) /\ payments'[p].checkoutId # None =>
        checkouts'[payments'[p].checkoutId] # None

Effects == PaysStep /\ SettlesStep /\ CapturesStep /\ IntendsStep /\ NamesStep


LEMMA Preserved == IInv /\ TypeOK' /\ Kept /\ Effects => IInv'
<1> SUFFICES ASSUME IInv, TypeOK', Kept, Effects PROVE IInv'
  OBVIOUS
<1>1. NamesExist'
  <2>1. ASSUME NEW p \in captured'
        PROVE  payments'[p] # None
    BY <2>1 DEF IInv, NamesExist, Kept, Effects, CapturesStep, Exists, TypeOK
  <2>2. ASSUME NEW p \in Payments, payments'[p] # None, payments'[p].checkoutId # None
        PROVE  checkouts'[payments'[p].checkoutId] # None
    <3>1. CASE Exists(p)
      <4>1. payments[p].checkoutId \in Checkouts /\ payments[p].checkoutId # None
        BY <2>2, <3>1 DEF IInv, TypeOK, Payment, Exists, Kept
      <4>2. checkouts[payments[p].checkoutId] # None
        BY <2>2, <3>1, <4>1 DEF IInv, NamesExist
      <4>3. QED
        BY <2>2, <3>1, <4>1, <4>2 DEF Kept
    <3>2. CASE ~Exists(p)
      BY <2>2, <3>2 DEF Effects, NamesStep
    <3>3. QED
      BY <3>1, <3>2
  <2>3. QED
    BY <2>1, <2>2 DEF NamesExist, Exists
<1>2. PaidMeansCaptured'
  BY DEF IInv, PaidMeansCaptured, Of, Kept, Effects, PaysStep, Exists, TypeOK
<1>3. CaptureSettles'
  BY DEF IInv, CaptureSettles, Of, Kept, Effects, SettlesStep, Exists, TypeOK
<1>4. ChallengedFirst'
  BY DEF IInv, ChallengedFirst, NamesExist, Kept, Effects, CapturesStep, Exists, TypeOK
<1>5. IntentBelongs'
  BY DEF IInv, IntentBelongs, Of, Kept, Effects, IntendsStep, Exists, TypeOK
<1>6. QED
  BY <1>1, <1>2, <1>3, <1>4, <1>5 DEF IInv


LEMMA PaidSame ==
    ASSUME UNCHANGED orderVars
    PROVE  \A o \in Orders : PaidHere(o)' => PaidHere(o)
BY DEF PaidHere, orderVars

\* Only "paid" makes an order paid, and only the order the payment names.
LEMMA InformPaid ==
    ASSUME TypeOK, NEW p \in Payments, Exists(p), NEW status, Inform(p, status),
           NEW o \in Orders, PaidHere(o)'
    PROVE  PaidHere(o) \/ (status = "paid" /\ payments[p].orderId = o)
<1> DEFINE named == payments[p].orderId
<1>1. orders' = IF named = None \/ orders[named] = None THEN orders
                ELSE [orders EXCEPT ![named] = status]
  BY DEF Inform, Informed
<1>2. reported' = reported \ {named} /\ orders'[o] = "paid" /\ o \notin reported'
  BY DEF Inform, PaidHere
<1>3. o \in DOMAIN orders /\ None \notin Orders /\ "paid" # None
  BY PaymentsAssumption DEF TypeOK, OrderStatus
<1> HIDE DEF named
<1>4. CASE o = named
  BY <1>1, <1>2, <1>3, <1>4 DEF named
<1>5. CASE o # named
  BY <1>1, <1>2, <1>3, <1>5 DEF PaidHere
<1>6. QED
  BY <1>4, <1>5

\* Steps that leave payments, checkouts and what is known of captures alone.
LEMMA QuietEffects ==
    ASSUME IInv, UNCHANGED <<payments, checkouts, history>>,
           \A o \in Orders : PaidHere(o)' => PaidHere(o)
    PROVE  Kept /\ Effects
BY DEF IInv, NamesExist, Exists, Kept, Effects, PaysStep, SettlesStep, CapturesStep, IntendsStep,
       NamesStep, history

\* Steps that only rewrite the status of payments, and capture none.
LEMMA StatusEffects ==
    ASSUME IInv, UNCHANGED <<checkouts, history>>,
           \A o \in Orders : PaidHere(o)' => PaidHere(o),
           \A q \in Payments :
              /\ payments'[q] # None => payments[q] # None
              /\ payments[q] # None =>
                 /\ payments'[q] # None
                 /\ payments'[q].checkoutId = payments[q].checkoutId
                 /\ payments'[q].orderId = payments[q].orderId
                 /\ payments'[q].requiresAction = payments[q].requiresAction
                 /\ payments'[q].status = "captured" => payments[q].status = "captured"
    PROVE  Kept /\ Effects
<1>1. Kept
  BY DEF Kept, Exists, history
<1>2. PaysStep
  BY DEF PaysStep, history
<1>3. SettlesStep
  BY DEF SettlesStep, Exists, history
<1>4. CapturesStep /\ IntendsStep /\ NamesStep
  BY DEF CapturesStep, IntendsStep, NamesStep, Exists, history
<1>5. QED
  BY <1>1, <1>2, <1>3, <1>4 DEF Effects

\* An intent only adds a payment.
LEMMA Created ==
    ASSUME TypeOK, NEW p \in Payments, NEW c \in Checkouts \cup {None},
           NEW o \in Orders \cup {None}, NEW action \in BOOLEAN,
           NEW challenge \in {"unlimited", "open", "expired"},
           CreateIntent(p, c, o, action, challenge)
    PROVE  /\ ~Exists(p) /\ payments'[p] # None
           /\ payments'[p].checkoutId = c /\ payments'[p].status \in {"requires_action", "authorized"}
           /\ \A q \in Payments : q # p => payments'[q] = payments[q]
<1>1. payments'[p] = Intent(c, o, action, challenge) /\ ~Exists(p)
  BY DEF CreateIntent, TypeOK
<1>2. payments'[p] # None
  BY <1>1, IntentType, PaymentsAssumption
<1>3. \A q \in Payments : q # p => payments'[q] = payments[q]
  BY DEF CreateIntent, TypeOK
<1>4. QED
  BY <1>1, <1>2, <1>3 DEF Intent

LEMMA NewCheckoutEffects ==
    ASSUME IInv, NEW c \in Checkouts, NEW p \in Payments, NEW require3ds \in BOOLEAN,
           NEW risky \in BOOLEAN, NewCheckout(c, p, require3ds, risky)
    PROVE  Kept /\ Effects
<1>1. TypeOK /\ checkouts[c] = None /\ UNCHANGED <<orderVars, captured, challenged, vouched>>
  BY DEF IInv, NewCheckout, history
<1>2. /\ checkouts'[c] # None /\ checkouts'[c].status = "pending_payment"
      /\ checkouts'[c].paymentIntent = IF env.stub THEN p ELSE None
      /\ \A d \in Checkouts : d # c => checkouts'[d] = checkouts[d]
  <2>1. [status |-> "pending_payment", risky |-> risky,
         paymentIntent |-> IF env.stub THEN p ELSE None] \in Checkout
    BY DEF Checkout
  <2>2. QED
    BY <1>1, <2>1, PaymentsAssumption DEF NewCheckout, TypeOK
<1>3. /\ \A q \in Payments : q # p \/ Exists(q) => payments'[q] = payments[q]
      /\ env.stub => /\ ~Exists(p) /\ payments'[p] # None /\ payments'[p].checkoutId = c
                     /\ payments'[p].status # "captured"
      /\ ~env.stub => payments' = payments
  <2>1. CASE env.stub
    <3>1. require3ds \/ env.sca \in BOOLEAN
      BY <1>1 DEF TypeOK
    <3>2. CreateIntent(p, c, None, require3ds \/ env.sca, "unlimited")
      BY <2>1 DEF NewCheckout
    <3>3. QED
      BY <1>1, <2>1, <3>1, <3>2, Created
  <2>2. CASE ~env.stub
    BY <2>2 DEF NewCheckout
  <2>3. QED
    BY <2>1, <2>2
<1>4. \A q \in Payments : Exists(q) => payments[q].checkoutId # c
  BY <1>1, PaymentsAssumption DEF IInv, NamesExist
<1>5. Kept
  BY <1>1, <1>2, <1>3 DEF Kept, Exists
<1>6. PaysStep
  BY <1>1, <1>2 DEF PaysStep, PaidHere, orderVars
<1>7. SettlesStep
  BY <1>1, <1>2, <1>3, <1>4 DEF SettlesStep, Exists
<1>8. CapturesStep /\ NamesStep
  BY <1>1, <1>2, <1>3 DEF CapturesStep, NamesStep, Exists
<1>9. IntendsStep
  BY <1>1, <1>2, <1>3 DEF IntendsStep
<1>10. QED
  BY <1>5, <1>6, <1>7, <1>8, <1>9 DEF Effects


LEMMA CreatePaymentIntentEffects ==
    ASSUME IInv, NEW p \in Payments, NEW c \in Checkouts \cup {None},
           NEW o \in Orders \cup {None}, NEW require3ds \in BOOLEAN,
           CreatePaymentIntent(p, c, o, require3ds)
    PROVE  Kept /\ Effects
<1> DEFINE action == require3ds \/ env.sca
<1> DEFINE challenge == IF action THEN "open" ELSE "unlimited"
<1>1. TypeOK /\ UNCHANGED <<captured, challenged, vouched>> /\ (c # None => checkouts[c] # None)
  BY DEF IInv, CreatePaymentIntent, history
<1>2. action \in BOOLEAN /\ challenge \in {"unlimited", "open", "expired"}
  BY <1>1 DEF TypeOK
<1>3. CreateIntent(p, c, o, action, challenge)
  BY DEF CreatePaymentIntent
<1> HIDE DEF action, challenge
<1>4. /\ ~Exists(p) /\ payments'[p] # None
      /\ payments'[p].checkoutId = c /\ payments'[p].status \in {"requires_action", "authorized"}
      /\ \A q \in Payments : q # p => payments'[q] = payments[q]
  BY <1>1, <1>2, <1>3, Created
<1>5. /\ \A d \in Checkouts : d # c => checkouts'[d] = checkouts[d]
      /\ c # None => /\ checkouts'[c] # None /\ checkouts'[c].status = checkouts[c].status
                     /\ checkouts'[c].paymentIntent = p
  BY <1>1, PaymentsAssumption DEF CreatePaymentIntent, WithIntent, TypeOK, Checkout
<1>6. \A x \in Orders : PaidHere(x)' => PaidHere(x)
  BY <1>1, <1>4, PaymentsAssumption DEF CreatePaymentIntent, PaidHere, TypeOK
<1>7. Kept
  BY <1>1, <1>4, <1>5, PaymentsAssumption DEF Kept, Exists
<1>8. PaysStep
  BY <1>1, <1>5, <1>6, PaymentsAssumption DEF PaysStep
<1>9. SettlesStep
  BY <1>1, <1>4, <1>5, PaymentsAssumption DEF SettlesStep, Exists
<1>10. CapturesStep
  BY <1>1 DEF CapturesStep
<1>11. IntendsStep /\ NamesStep
  BY <1>1, <1>4, <1>5, PaymentsAssumption DEF IntendsStep, NamesStep, Exists
<1>12. QED
  BY <1>7, <1>8, <1>9, <1>10, <1>11 DEF Effects

\* CompleteCheckout: the intent it finds, or makes, names the checkout.
LEMMA CompleteEffects ==
    ASSUME IInv, NEW c \in Checkouts, NEW p \in Payments, CompleteCheckout(c, p)
    PROVE  Kept /\ Effects
<1>1. /\ TypeOK /\ checkouts[c] # None /\ checkouts[c].status = "pending_payment"
      /\ UNCHANGED <<orderVars, challenged, vouched>>
  BY DEF IInv, CompleteCheckout
<1>2. PICK pays \in [Payments -> {None} \cup Payment] :
        /\ CompleteWith(c, p, pays)
        /\ pays[p] # None /\ pays[p].checkoutId = c
        /\ \A q \in Payments : q # p \/ Exists(q) => pays[q] = payments[q]
        /\ ~Exists(p) => pays[p].status # "captured"
        /\ checkouts[c].paymentIntent # None => checkouts[c].paymentIntent = p /\ Exists(p)
  <2>1. CASE checkouts[c].paymentIntent = None
    <3> DEFINE made == [payments EXCEPT ![p] = Intent(c, None, env.sca, "unlimited")]
    <3>1. Intent(c, None, env.sca, "unlimited") \in Payment
      BY <1>1, IntentType DEF TypeOK
    <3>2. made \in [Payments -> {None} \cup Payment] /\ made[p] # None
      BY <1>1, <3>1, PaymentsAssumption DEF TypeOK
    <3>3. made[p].checkoutId = c /\ made[p].status # "captured"
      BY <1>1 DEF TypeOK, Intent
    <3>4. CompleteWith(c, p, made) /\ ~Exists(p)
      BY <2>1 DEF CompleteCheckout
    <3>5. \A q \in Payments : q # p => made[q] = payments[q]
      BY <1>1 DEF TypeOK
    <3> HIDE DEF made
    <3>6. QED
      BY <2>1, <3>2, <3>3, <3>4, <3>5
  <2>2. CASE checkouts[c].paymentIntent # None
    <3>1. CompleteWith(c, p, payments) /\ Exists(p) /\ checkouts[c].paymentIntent = p
      BY <2>2 DEF CompleteCheckout
    <3>2. payments[p].checkoutId = c
      BY <1>1, <2>2, <3>1 DEF IInv, IntentBelongs, Of
    <3>3. QED
      BY <1>1, <3>1, <3>2 DEF TypeOK, Exists
  <2>3. QED
    BY <2>1, <2>2
<1>3. pays[p] \in Payment
  BY <1>2
<1>4. /\ \A d \in Checkouts : d # c => checkouts'[d] = checkouts[d]
      /\ checkouts'[c] # None /\ checkouts'[c].paymentIntent = p
      /\ checkouts'[c].status \in {"pending_payment", "manual_review", "paid"}
  <2>1. /\ WithIntent(c, p) \in [Checkouts -> {None} \cup Checkout]
        /\ WithIntent(c, p)[c] \in Checkout /\ WithIntent(c, p)[c].paymentIntent = p
        /\ WithIntent(c, p)[c].status = "pending_payment"
        /\ \A d \in Checkouts : d # c => WithIntent(c, p)[d] = checkouts[d]
    BY <1>1, PaymentsAssumption DEF WithIntent, TypeOK, Checkout
  <2>2. ASSUME NEW status \in {"paid", "manual_review"},
               checkouts' = [WithIntent(c, p) EXCEPT ![c].status = status]
        PROVE  /\ checkouts'[c] \in Checkout /\ checkouts'[c].paymentIntent = p
               /\ checkouts'[c].status = status
               /\ \A d \in Checkouts : d # c => checkouts'[d] = checkouts[d]
    BY <2>1, <2>2 DEF Checkout
  <2>3. \/ checkouts' = WithIntent(c, p)
        \/ \E status \in {"paid", "manual_review"} :
              checkouts' = [WithIntent(c, p) EXCEPT ![c].status = status]
    BY <1>2 DEF CompleteWith
  <2>4. QED
    BY <2>1, <2>2, <2>3, PaymentsAssumption
<1>5. CASE payments' = pays /\ captured' = captured /\ checkouts'[c].status # "paid"
  <2>1. Kept
    BY <1>1, <1>2, <1>4, <1>5 DEF Kept, Exists
  <2>2. PaysStep
    BY <1>1, <1>4, <1>5, PaidSame DEF PaysStep
  <2>3. SettlesStep
    BY <1>1, <1>2, <1>4, <1>5 DEF SettlesStep, Exists
  <2>4. CapturesStep
    BY <1>5 DEF CapturesStep
  <2>5. IntendsStep /\ NamesStep
    BY <1>2, <1>4, <1>5 DEF IntendsStep, NamesStep, Exists
  <2>6. QED
    BY <2>1, <2>2, <2>3, <2>4, <2>5 DEF Effects
<1>6. CASE /\ ~pays[p].requiresAction /\ payments' = [pays EXCEPT ![p].status = "captured"]
           /\ captured' = captured \cup {p} /\ checkouts'[c].status = "paid"
  <2>1. /\ payments'[p] \in Payment /\ payments'[p].checkoutId = c
        /\ payments'[p].orderId = pays[p].orderId
        /\ payments'[p].requiresAction = pays[p].requiresAction
        /\ \A q \in Payments : q # p => payments'[q] = pays[q]
    BY <1>2, <1>3, <1>6 DEF Payment, PayStatus
  <2>2. payments'[p] # None
    BY <2>1, PaymentsAssumption
  <2>3. Kept
    BY <1>1, <1>2, <1>4, <1>6, <2>1, <2>2 DEF Kept, Exists
  <2>4. PaysStep
    BY <1>1, <1>4, <1>6, <2>1, <2>2, PaidSame DEF PaysStep
  <2>5. SettlesStep
    BY <1>1, <1>2, <1>4, <1>6, <2>1 DEF SettlesStep, Exists
  <2>6. CapturesStep
    BY <1>6, <2>1, <2>2 DEF CapturesStep
  <2>7. IntendsStep /\ NamesStep
    BY <1>2, <1>4, <1>6, <2>1, <2>2 DEF IntendsStep, NamesStep, Exists
  <2>8. QED
    BY <2>3, <2>4, <2>5, <2>6, <2>7 DEF Effects
<1>7. QED
  <2>1. /\ WithIntent(c, p)[c].status = "pending_payment"
        /\ [WithIntent(c, p) EXCEPT ![c].status = "manual_review"][c].status = "manual_review"
        /\ [WithIntent(c, p) EXCEPT ![c].status = "paid"][c].status = "paid"
    BY <1>1, PaymentsAssumption DEF WithIntent, TypeOK, Checkout
  <2>2. QED
    BY <1>2, <1>5, <1>6, <2>1 DEF CompleteWith, Completable


\* What Settled changes.
LEMMA SettledFacts ==
    ASSUME TypeOK, NEW p \in Payments, NEW status \in PayStatus \cup {"paid"}, NEW d \in Checkouts
    PROVE  /\ (checkouts[d] = None) = (Settled(p, status)[d] = None)
           /\ payments[p].checkoutId # d => Settled(p, status)[d] = checkouts[d]
           /\ checkouts[d] # None =>
                 Settled(p, status)[d].paymentIntent = checkouts[d].paymentIntent
           /\ payments[p].checkoutId = d /\ checkouts[d] # None =>
                 Settled(p, status)[d].status = status
<1> DEFINE c == payments[p].checkoutId
<1>1. CASE c = None \/ checkouts[c] = None
  BY <1>1, PaymentsAssumption DEF Settled
<1>2. CASE ~(c = None \/ checkouts[c] = None)
  <2>1. Settled(p, status) = [checkouts EXCEPT ![c].status = status]
    BY <1>2 DEF Settled
  <2>2. CASE d # c
    BY <2>1, <2>2 DEF TypeOK
  <2>3. CASE d = c
    <3>1. checkouts[d] \in Checkout
      BY <1>2, <2>3 DEF TypeOK
    <3>2. Settled(p, status)[d] = [checkouts[d] EXCEPT !.status = status]
      BY <2>1, <2>3 DEF TypeOK
    <3>3. [checkouts[d] EXCEPT !.status = status] \in Checkout
      BY <3>1 DEF Checkout, PayStatus
    <3>4. QED
      BY <2>3, <3>1, <3>2, <3>3, PaymentsAssumption DEF Checkout
  <2>4. QED
    BY <2>2, <2>3
<1>3. QED
  BY <1>1, <1>2

\* What a change of a payment's status leaves alone.
LEMMA StatusFacts ==
    ASSUME TypeOK, NEW p \in Payments, Exists(p), NEW status \in PayStatus,
           payments' = [payments EXCEPT ![p].status = status]
    PROVE  /\ payments'[p] # None /\ payments'[p].status = status
           /\ payments'[p].checkoutId = payments[p].checkoutId
           /\ payments'[p].orderId = payments[p].orderId
           /\ payments'[p].requiresAction = payments[p].requiresAction
           /\ \A q \in Payments : q # p => payments'[q] = payments[q]
<1>1. payments[p] \in Payment
  BY DEF TypeOK, Exists
<1>2. payments'[p] = [payments[p] EXCEPT !.status = status]
  BY DEF TypeOK
<1>3. [payments[p] EXCEPT !.status = status] \in Payment
  BY <1>1 DEF Payment
<1>4. QED
  BY <1>1, <1>2, <1>3, PaymentsAssumption DEF TypeOK, Payment

\* CapturePayment and the webhook: the payment, its order and its checkout get
\* their statuses in one step.
LEMMA SettleEffects ==
    ASSUME IInv, NEW p \in Payments, Exists(p), NEW status \in PayStatus,
           NEW order \in OrderStatus, NEW checkout \in PayStatus \cup {"paid"},
           payments' = [payments EXCEPT ![p].status = status],
           Inform(p, order),
           checkouts' = Settled(p, checkout),
           captured' = IF status = "captured" THEN captured \cup {p} ELSE captured,
           challenged \subseteq challenged', vouched \subseteq vouched',
           order = "paid" => status = "captured",
           checkout = "paid" <=> status = "captured",
           status = "captured" /\ payments[p].requiresAction => p \in challenged' \cup vouched'
    PROVE  Kept /\ Effects
<1>1. TypeOK
  BY DEF IInv
<1>2. /\ payments'[p] # None /\ payments'[p].status = status
      /\ payments'[p].checkoutId = payments[p].checkoutId
      /\ payments'[p].orderId = payments[p].orderId
      /\ payments'[p].requiresAction = payments[p].requiresAction
      /\ \A q \in Payments : q # p => payments'[q] = payments[q]
  BY <1>1, StatusFacts
<1>3. \A d \in Checkouts :
         /\ (checkouts[d] = None) = (checkouts'[d] = None)
         /\ payments[p].checkoutId # d => checkouts'[d] = checkouts[d]
         /\ checkouts[d] # None => checkouts'[d].paymentIntent = checkouts[d].paymentIntent
         /\ payments[p].checkoutId = d /\ checkouts[d] # None => checkouts'[d].status = checkout
  BY <1>1, SettledFacts
<1>4. Kept
  BY <1>1, <1>2, <1>3 DEF Kept, Exists
<1>5. PaysStep
  <2>1. ASSUME NEW c \in Checkouts, checkouts'[c] # None, checkouts'[c].status = "paid"
        PROVE  \/ checkouts[c] # None /\ checkouts[c].status = "paid"
               \/ \E q \in captured' : payments'[q] # None /\ payments'[q].checkoutId = c
    BY <1>2, <1>3, <2>1
  <2>2. ASSUME NEW o \in Orders, PaidHere(o)'
        PROVE  \/ PaidHere(o)
               \/ \E q \in captured' : payments'[q] # None /\ payments'[q].orderId = o
    BY <1>1, <1>2, <2>2, InformPaid
  <2>3. QED
    BY <2>1, <2>2 DEF PaysStep
<1>6. SettlesStep
  BY <1>2, <1>3 DEF SettlesStep, Exists, PayStatus
<1>7. CapturesStep
  BY <1>2 DEF CapturesStep
<1>8. IntendsStep /\ NamesStep
  BY <1>2, <1>3 DEF IntendsStep, NamesStep, Exists
<1>9. QED
  BY <1>4, <1>5, <1>6, <1>7, <1>8 DEF Effects

LEMMA ChallengeEffects ==
    ASSUME IInv, NEW p \in Payments, Complete3DSChallenge(p)
    PROVE  Kept /\ Effects
<1>1. /\ TypeOK /\ UNCHANGED <<checkouts, orderVars, vouched>> /\ Exists(p)
      /\ captured' = captured \cup {p} /\ challenged' = challenged \cup {p}
  BY DEF IInv, Complete3DSChallenge
<1>2. /\ payments'[p] # None /\ payments'[p].status = "captured"
      /\ payments'[p].checkoutId = payments[p].checkoutId
      /\ payments'[p].orderId = payments[p].orderId
      /\ payments'[p].requiresAction = payments[p].requiresAction
      /\ \A q \in Payments : q # p => payments'[q] = payments[q]
  BY <1>1, StatusFacts DEF Complete3DSChallenge, PayStatus
<1>3. Kept
  BY <1>1, <1>2 DEF Kept, Exists
<1>4. PaysStep /\ CapturesStep /\ IntendsStep /\ NamesStep
  BY <1>1, <1>2 DEF PaysStep, PaidHere, orderVars, CapturesStep, IntendsStep, NamesStep, Exists
<1>5. SettlesStep
  BY <1>1, <1>2 DEF SettlesStep, Exists
<1>6. QED
  BY <1>3, <1>4, <1>5 DEF Effects


LEMMA InitInv == Init => IInv
BY InitType, PaymentsAssumption DEF Init, IInv, NamesExist, PaidMeansCaptured, CaptureSettles,
   ChallengedFirst, IntentBelongs, Of, Exists, PaidHere, OrderStatus

LEMMA StepEffects == IInv /\ [Next]_vars => Kept /\ Effects
<1> SUFFICES ASSUME IInv, [Next]_vars PROVE Kept /\ Effects
  OBVIOUS
<1>0. TypeOK
  BY DEF IInv
<1>1. ASSUME NEW c \in Checkouts, NEW p \in Payments, NEW require3ds \in BOOLEAN,
             NEW risky \in BOOLEAN, NewCheckout(c, p, require3ds, risky)
      PROVE  Kept /\ Effects
  BY <1>1, NewCheckoutEffects
<1>2. ASSUME NEW p \in Payments, NEW c \in Checkouts \cup {None}, NEW o \in Orders \cup {None},
             NEW require3ds \in BOOLEAN, CreatePaymentIntent(p, c, o, require3ds)
      PROVE  Kept /\ Effects
  BY <1>2, CreatePaymentIntentEffects
<1>3. ASSUME NEW c \in Checkouts, NEW p \in Payments, CompleteCheckout(c, p)
      PROVE  Kept /\ Effects
  BY <1>3, CompleteEffects
<1>4. ASSUME NEW p \in Payments, NEW completed \in BOOLEAN, CapturePayment(p, completed)
      PROVE  Kept /\ Effects
  <2>1. /\ Exists(p)
        /\ payments' = [payments EXCEPT ![p].status = "captured"]
        /\ Inform(p, "paid") /\ checkouts' = Settled(p, "paid")
        /\ captured' = captured \cup {p}
        /\ challenged \subseteq challenged' /\ vouched \subseteq vouched'
        /\ payments[p].requiresAction => p \in challenged' \cup vouched'
    BY <1>4 DEF CapturePayment
  <2>2. "captured" \in PayStatus /\ "paid" \in OrderStatus /\ "paid" \in PayStatus \cup {"paid"}
    BY DEF PayStatus, OrderStatus
  <2>3. QED
    BY <2>1, <2>2, SettleEffects
<1>5. ASSUME NEW p \in Payments, Complete3DSChallenge(p)
      PROVE  Kept /\ Effects
  BY <1>5, ChallengeEffects
<1>6. ASSUME NEW p \in Payments, RefundPayment(p)
      PROVE  Kept /\ Effects
  <2>1. payments' = [payments EXCEPT ![p].status = "refunded"] /\ Exists(p)
        /\ UNCHANGED <<checkouts, history>> /\ Inform(p, "refunded")
    BY <1>6 DEF RefundPayment
  <2>2. /\ payments'[p] # None /\ payments'[p].status = "refunded"
        /\ payments'[p].checkoutId = payments[p].checkoutId
        /\ payments'[p].orderId = payments[p].orderId
        /\ payments'[p].requiresAction = payments[p].requiresAction
        /\ \A q \in Payments : q # p => payments'[q] = payments[q]
    BY <1>0, <2>1, StatusFacts DEF PayStatus
  <2>3. \A o \in Orders : PaidHere(o)' => PaidHere(o)
    BY <1>0, <2>1, InformPaid
  <2>4. QED
    BY <2>1, <2>2, <2>3, StatusEffects DEF Exists
<1>7. ASSUME NEW p \in Payments, ChallengeExpires(p)
      PROVE  Kept /\ Effects
  <2>1. /\ payments'[p] = [payments[p] EXCEPT !.challenge = "expired"]
        /\ payments[p] \in Payment
        /\ \A q \in Payments : q # p => payments'[q] = payments[q]
        /\ UNCHANGED <<checkouts, orderVars, history>>
    BY <1>0, <1>7 DEF ChallengeExpires, Exists, TypeOK
  <2>2. /\ payments'[p] \in Payment /\ payments'[p].status = payments[p].status
        /\ payments'[p].checkoutId = payments[p].checkoutId
        /\ payments'[p].orderId = payments[p].orderId
        /\ payments'[p].requiresAction = payments[p].requiresAction
    BY <2>1 DEF Payment
  <2>3. QED
    BY <2>1, <2>2, StatusEffects, PaidSame, PaymentsAssumption
<1>8. ASSUME NEW p \in Payments, NEW status \in Statuses, HandlePaymentWebhook(p, status)
      PROVE  Kept /\ Effects
  <2>1. /\ Exists(p)
        /\ payments' = [payments EXCEPT ![p].status = status]
        /\ Inform(p, status) /\ checkouts' = Settled(p, CheckoutStatus(status))
        /\ captured' = IF status = "captured" THEN captured \cup {p} ELSE captured
        /\ challenged \subseteq challenged' /\ vouched \subseteq vouched'
        /\ status = "captured" => p \in challenged' \cup vouched'
    BY <1>8 DEF HandlePaymentWebhook
  <2>2. status \in PayStatus /\ status \in OrderStatus /\ status # "paid"
    BY PaymentsAssumption DEF PayStatus, OrderStatus
  <2>3. /\ CheckoutStatus(status) \in PayStatus \cup {"paid"}
        /\ CheckoutStatus(status) = "paid" <=> status = "captured"
    BY <2>2 DEF CheckoutStatus
  <2>4. QED
    BY <2>1, <2>2, <2>3, SettleEffects
<1>9. CASE CleanupRetention
  <2>1. ASSUME NEW q \in Payments
        PROVE  /\ (payments'[q] = None) = (payments[q] = None)
               /\ payments[q] # None =>
                  /\ payments'[q].checkoutId = payments[q].checkoutId
                  /\ payments'[q].orderId = payments[q].orderId
                  /\ payments'[q].requiresAction = payments[q].requiresAction
                  /\ payments'[q].status = "captured" => payments[q].status = "captured"
    <3>1. CASE Lapsed(payments[q])
      <4>1. payments[q] \in Payment /\ payments'[q] = [payments[q] EXCEPT !.status = "failed"]
        BY <1>0, <1>9, <3>1 DEF CleanupRetention, Lapsed, TypeOK
      <4>2. [payments[q] EXCEPT !.status = "failed"] \in Payment
        BY <4>1 DEF Payment, PayStatus
      <4>3. QED
        BY <4>1, <4>2, PaymentsAssumption DEF Payment
    <3>2. CASE ~Lapsed(payments[q])
      BY <1>9, <3>2 DEF CleanupRetention
    <3>3. QED
      BY <3>1, <3>2
  <2>2. UNCHANGED <<checkouts, orderVars, history>>
    BY <1>9 DEF CleanupRetention
  <2>3. QED
    BY <2>1, <2>2, StatusEffects, PaidSame
<1>10. ASSUME NEW o \in Orders, OrderCreated(o) \/ OrderStatusUpdated(o)
       PROVE  Kept /\ Effects
  BY <1>0, <1>10, QuietEffects DEF OrderCreated, OrderStatusUpdated, PaidHere, TypeOK
<1>11. ASSUME NEW o \in Orders, NEW status \in EventStatuses, PaymentStatusChanged(o, status)
       PROVE  Kept /\ Effects
  BY <1>0, <1>11, QuietEffects DEF PaymentStatusChanged, PaidHere, TypeOK
<1>12. CASE UNCHANGED vars
  BY <1>12, QuietEffects DEF vars, orderVars, PaidHere
<1>13. QED
  BY <1>1, <1>2, <1>3, <1>4, <1>5, <1>6, <1>7, <1>8, <1>9, <1>10, <1>11, <1>12 DEF Next

LEMMA Inductive == Spec => []IInv
<1>1. IInv /\ [Next]_vars => IInv'
  BY StepEffects, TypeStep, Preserved DEF IInv
<1>2. QED
  BY InitInv, <1>1, PTL DEF Spec

\* Nothing is paid without a captured payment that names it.
THEOREM PaidCorrect == Spec => []PaidMeansCaptured
<1>1. IInv => PaidMeansCaptured
  BY DEF IInv
<1>2. QED
  BY Inductive, <1>1, PTL

\* A capture settles its checkout, except a customer's own 3DS capture.
THEOREM SettlesCorrect == Spec => []CaptureSettles
<1>1. IInv => CaptureSettles
  BY DEF IInv
<1>2. QED
  BY Inductive, <1>1, PTL

\* A payment that needs a challenge is not captured by a checkout's completion.
THEOREM ChallengedCorrect == Spec => []ChallengedFirst
<1>1. IInv => ChallengedFirst
  BY DEF IInv
<1>2. QED
  BY Inductive, <1>1, PTL

\* A checkout is completed with a payment of its own.
THEOREM IntentCorrect == Spec => []IntentBelongs
<1>1. IInv => IntentBelongs
  BY DEF IInv
<1>2. QED
  BY Inductive, <1>1, PTL


\* A refund is undone only by the webhook or by completing its checkout.
THEOREM RefundCorrect == Spec => RefundStays
<1>1. IInv /\ [Next]_vars =>
        \A p \in Payments :
          Exists(p) /\ payments[p].status = "refunded" /\ payments'[p].status # "refunded" =>
              (\E status \in Statuses : HandlePaymentWebhook(p, status)) \/ Completing(p)
  <2> SUFFICES ASSUME IInv, [Next]_vars, NEW p \in Payments, Exists(p),
                      payments[p].status = "refunded", payments'[p].status # "refunded"
               PROVE  (\E status \in Statuses : HandlePaymentWebhook(p, status)) \/ Completing(p)
    OBVIOUS
  <2>1. TypeOK
    BY DEF IInv
  <2>2. ASSUME NEW q \in Payments, NEW x, payments' = [payments EXCEPT ![q] = x]
        PROVE  q = p
    BY <2>1, <2>2 DEF TypeOK
  <2>3. ASSUME NEW c \in Checkouts, NEW q \in Payments, NEW require3ds \in BOOLEAN,
               NEW risky \in BOOLEAN, NewCheckout(c, q, require3ds, risky)
        PROVE  FALSE
    BY <2>1, <2>2, <2>3 DEF NewCheckout, CreateIntent
  <2>4. ASSUME NEW q \in Payments, NEW c \in Checkouts \cup {None}, NEW o \in Orders \cup {None},
               NEW require3ds \in BOOLEAN, CreatePaymentIntent(q, c, o, require3ds)
        PROVE  FALSE
    BY <2>1, <2>2, <2>4 DEF CreatePaymentIntent, CreateIntent
  <2>5. ASSUME NEW c \in Checkouts, NEW q \in Payments, CompleteCheckout(c, q)
        PROVE  Completing(p)
    <3>1. checkouts[c] # None /\ checkouts[c].status = "pending_payment"
      BY <2>5 DEF CompleteCheckout
    <3>2. CASE checkouts[c].paymentIntent = None
      <4> DEFINE made == [payments EXCEPT ![q] = Intent(c, None, env.sca, "unlimited")]
      <4>1. CompleteWith(c, q, made) /\ q # p
        BY <2>5, <3>2 DEF CompleteCheckout
      <4>2. made \in [Payments -> {None} \cup Payment] /\ made[p] = payments[p]
        BY <2>1, <4>1, IntentType DEF TypeOK
      <4> HIDE DEF made
      <4>3. QED
        BY <4>1, <4>2 DEF CompleteWith
    <3>3. CASE checkouts[c].paymentIntent # None
      <4>1. CompleteWith(c, q, payments) /\ q = checkouts[c].paymentIntent
        BY <2>5, <3>3 DEF CompleteCheckout
      <4>2. payments' # payments
        OBVIOUS
      <4>3. checkouts' = [WithIntent(c, q) EXCEPT ![c].status = "paid"] /\ q = p
        BY <2>1, <4>1, <4>2 DEF CompleteWith, TypeOK
      <4>4. checkouts'[c].status = "paid"
        BY <2>1, <3>1, <4>3, PaymentsAssumption DEF WithIntent, TypeOK, Checkout
      <4>5. QED
        BY <3>1, <4>1, <4>3, <4>4 DEF Completing
    <3>4. QED
      BY <3>2, <3>3
  <2>6. ASSUME NEW q \in Payments, NEW completed \in BOOLEAN, CapturePayment(q, completed)
        PROVE  FALSE
    BY <2>1, <2>6 DEF CapturePayment, Finished, TypeOK
  <2>7. ASSUME NEW q \in Payments,
               Complete3DSChallenge(q) \/ RefundPayment(q) \/ ChallengeExpires(q)
        PROVE  FALSE
    <3>1. CASE Complete3DSChallenge(q)
      BY <2>1, <3>1 DEF Complete3DSChallenge, TypeOK
    <3>2. CASE RefundPayment(q)
      BY <2>1, <3>2 DEF RefundPayment, Inform, TypeOK, Payment, Exists
    <3>3. CASE ChallengeExpires(q)
      BY <2>1, <3>3 DEF ChallengeExpires, TypeOK, Payment, Exists
    <3>4. QED
      BY <2>7, <3>1, <3>2, <3>3
  <2>8. ASSUME NEW q \in Payments, NEW status \in Statuses, HandlePaymentWebhook(q, status)
        PROVE  \E s \in Statuses : HandlePaymentWebhook(p, s)
    <3>1. q = p
      BY <2>1, <2>8 DEF HandlePaymentWebhook, Inform, TypeOK
    <3>2. QED
      BY <2>8, <3>1
  <2>9. CASE CleanupRetention
    BY <2>9 DEF CleanupRetention, Lapsed
  <2>10. ASSUME UNCHANGED payments
         PROVE  FALSE
    BY <2>10
  <2>11. QED
    BY <2>3, <2>4, <2>5, <2>6, <2>7, <2>8, <2>9, <2>10
       DEF Next, vars, OrderCreated, OrderStatusUpdated, PaymentStatusChanged
<1>2. QED
  BY Inductive, <1>1, PTL DEF Spec, RefundStays


=============================================================================
