---------------------------- MODULE CatalogStock ----------------------------
(***************************************************************************)
(* The stock of one site in ao/catalog/process.lua and everything that     *)
(* moves it: SetInventory, purchase orders with their approval, credit and *)
(* checkout, reservations shipped and returned, returns.                   *)
(*                                                                         *)
(* A handler runs to its end or throws; route then neither records nor     *)
(* saves anything, but what the handler has already written stays in       *)
(* memory.  Two calls throw because a local function is declared ahead and *)
(* defined later as another local: push_low_stock in SetInventory and      *)
(* deliver_stock_alert in push_low_stock.                                  *)
(*                                                                         *)
(* StartCheckout throws for the same reason (parse_set) before it writes   *)
(* anything, so checkouts come from purchase orders only.  What orders and *)
(* checkouts say about payment is in CatalogPayments.  Unit prices are 1.  *)
(* The CSV import, which writes unchecked quantities, is left out.         *)
(***************************************************************************)
EXTENDS Integers, FiniteSets, FiniteSetsExt, Functions

CONSTANTS
    Skus,
    Warehouses,
    Default,        \* the warehouse "default"
    POs,            \* identifiers of purchase orders
    Checkouts,      \* identifiers of checkouts
    Orders,         \* identifiers of orders with a reservation
    Returns,        \* identifiers of returns
    Carts,          \* pieces of each sku a customer may order
    Counts,         \* quantities SetInventory may be told
    Thresholds,     \* values of Low-Stock-Threshold
    Limits,         \* credit limits of the company
    ReturnStatuses, \* statuses a return may be given by hand
    None,           \* Lua's nil
    MaxApprovals,   \* bound: approvals of one purchase order
    MaxStock        \* bound: pieces of a sku on one shelf

VARIABLES
    stock,          \* state.inventory[site], by sku and warehouse
    policies,       \* state.stock_policies[site]
    pos,            \* state.purchase_orders
    terms,          \* state.company_terms of the company
    checkouts,      \* state.checkouts
    backorders,     \* state.backorders[site]
    reservations,   \* state.reservations
    returns,        \* state.returns
    cleared,        \* history: back orders taken off the list
    supply,         \* history: pieces of the skus not in leaked brought in, less shipped
    leaked,         \* history: skus a handler took off the shelf and then threw
    lowered         \* history: the credit limit was put below the balance

poVars == <<pos, terms, checkouts>>
goodsVars == <<reservations, returns>>
noteVars == <<backorders, cleared>>
vars == <<stock, policies, noteVars, supply, leaked, lowered, poVars, goodsVars>>

Shelf == [Skus -> [Warehouses -> Nat]]
Terms == [limit : Nat, balance : Nat]
PurchaseOrder == [items : Carts, approved : Nat,
                  status : {"pending_approval", "approved", "rejected", "in_checkout"}]
Checkout == [poId : POs, items : Carts, reserve : Shelf, backorders : [Skus -> Nat],
             charged : BOOLEAN]

ASSUME StockAssumption ==
    /\ IsFiniteSet(Skus) /\ IsFiniteSet(Warehouses) /\ Default \in Warehouses
    /\ Carts \subseteq [Skus -> Nat]
    /\ Counts \subseteq Nat /\ Thresholds \subseteq Nat /\ Limits \subseteq Nat
    /\ MaxApprovals \in Nat /\ MaxStock \in Nat
    /\ None \notin PurchaseOrder \cup Terms \cup Checkout \cup Checkouts

Empty == [s \in Skus |-> [w \in Warehouses |-> 0]]

Total(f, S) == MapThenSumSet(LAMBDA x : f[x], S)
Sum(f) == Total(f, Warehouses)
Pieces(cart) == Total(cart, Skus)
Smaller(a, b) == IF a <= b THEN a ELSE b

Init ==
    /\ stock = Empty
    /\ policies = [s \in Skus |-> [allow_backorder |-> FALSE, low_stock_threshold |-> 0]]
    /\ pos = [o \in POs |-> None]
    /\ terms = None
    /\ checkouts = [c \in Checkouts |-> None]
    /\ backorders = {} /\ cleared = {}
    /\ reservations = [o \in Orders |-> None]
    /\ returns = [r \in Returns |-> None]
    /\ supply = Empty
    /\ leaked = {} /\ lowered = FALSE

-----------------------------------------------------------------------------
(***************************************************************************)
(* Inventory and policies                                                  *)
(***************************************************************************)

\* The shelves change to after, and the supply with them.
Moves(after) ==
    /\ stock' = after
    /\ supply' = [s \in Skus |-> [w \in Warehouses |->
                    IF s \in leaked THEN 0 ELSE supply[s][w] + after[s][w] - stock[s][w]]]

\* The quantity is written, then push_low_stock throws.
SetInventory(s, w, qty) ==
    /\ Moves([stock EXCEPT ![s][w] = qty])
    /\ UNCHANGED <<policies, noteVars, leaked, lowered, poVars, goodsVars>>

SetStockPolicy(s, allow, low) ==
    /\ policies' = [policies EXCEPT ![s] =
                      [allow_backorder |-> allow, low_stock_threshold |-> low]]
    /\ UNCHANGED <<stock, noteVars, supply, leaked, lowered, poVars, goodsVars>>

\* The notes left on the list.
Listed(left) ==
    /\ backorders' = left
    /\ cleared' = cleared \cup (backorders \ left)

\* With Clear the list is emptied, of the notes too that a filter or a page kept back.
ListBackordersClear ==
    /\ Listed({})
    /\ UNCHANGED <<stock, policies, supply, leaked, lowered, poVars, goodsVars>>

\* The notes older than the retention time are dropped.
CleanupRetention(old) ==
    /\ Listed(backorders \ old)
    /\ UNCHANGED <<stock, policies, supply, leaked, lowered, poVars, goodsVars>>

-----------------------------------------------------------------------------
(***************************************************************************)
(* reserve_inventory                                                       *)
(***************************************************************************)

OnHand(s) == Sum(stock[s])

N == Cardinality(Warehouses)

\* needed, as the loop over the warehouses leaves it after each of them; pairs puts
\* warehouse w in the place place[w].
Walks(s, qty, place) == {needed \in [0 .. N -> 0 .. qty] :
    /\ needed[0] = qty
    /\ \A w \in Warehouses :
          needed[place[w]] = needed[place[w] - 1] - Smaller(stock[s][w], needed[place[w] - 1])}

\* changes and backorders for the sku: what came off each shelf, and what is short.
Takings(s, qty, place) ==
    {[take |-> [w \in Warehouses |-> needed[place[w] - 1] - needed[place[w]]],
      short |-> needed[N]] : needed \in Walks(s, qty, place)}

\* The shelves are visited in one order for all the items.
Plans(cart) == UNION {
    {plan \in [Skus -> UNION {Takings(s, cart[s], place) : s \in Skus}] :
        \A s \in Skus : plan[s] \in Takings(s, cart[s], place)} :
    place \in Bijection(Warehouses, 1 .. N)}

Items(cart) == {s \in Skus : cart[s] > 0}

Refused(s, plan) == plan[s].short > 0 /\ ~policies[s].allow_backorder

\* push_low_stock has an alert to deliver after the deduction.
Throws(s, plan) ==
    /\ policies[s].low_stock_threshold > 0
    /\ OnHand(s) - Sum(plan[s].take) <= policies[s].low_stock_threshold

Smooth(s, plan) == ~Refused(s, plan) /\ ~Throws(s, plan)

Without(plan, skus) == [s \in Skus |-> [w \in Warehouses |->
    IF s \in skus THEN stock[s][w] - plan[s].take[w] ELSE stock[s][w]]]

Short(plan, skus) == {s \in skus : plan[s].short > 0}

\* Wrong: all the pieces ordered are noted, not those that are short.
RecordedWhole(cart, plan, skus, source, ref) ==
    {[sku |-> s, qty |-> cart[s], source |-> source, ref |-> ref] : s \in Short(plan, skus)}

\* record_backorder for what is short of skus
Recorded(cart, plan, skus, source, ref) ==
    {[sku |-> s, qty |-> plan[s].short, source |-> source, ref |-> ref] : s \in Short(plan, skus)}

\* Wrong: what was taken before the shortage is not put back.
ReserveRefusedKeeps(cart, plan, before, s) ==
    /\ before \subseteq Items(cart) \ {s} /\ \A t \in before : Smooth(t, plan)
    /\ s \in Items(cart) /\ Refused(s, plan)
    /\ stock' = Without(plan, before \cup {s})
    /\ backorders' = backorders \cup Recorded(cart, plan, before, "reserve", None)
    /\ UNCHANGED <<cleared, leaked, supply>>

\* Items before s are reserved, s is short: the shelves are filled up again, the
\* backorders of the items before s stay recorded.
ReserveRefused(cart, plan, before, s) ==
    /\ before \subseteq Items(cart) \ {s} /\ \A t \in before : Smooth(t, plan)
    /\ s \in Items(cart) /\ Refused(s, plan)
    /\ backorders' = backorders \cup Recorded(cart, plan, before, "reserve", None)
    /\ UNCHANGED <<stock, cleared, leaked, supply>>

\* Items before s are reserved, s runs low: the pieces taken so far are gone.
ReserveThrows(cart, plan, before, s) ==
    /\ before \subseteq Items(cart) \ {s} /\ \A t \in before : Smooth(t, plan)
    /\ s \in Items(cart) /\ ~Refused(s, plan) /\ Throws(s, plan)
    /\ stock' = Without(plan, before \cup {s})
    /\ backorders' = backorders \cup Recorded(cart, plan, before, "reserve", None)
    /\ leaked' = leaked \cup before \cup {s}
    /\ supply' = [t \in Skus |-> IF t \in leaked' THEN Empty[t] ELSE supply[t]]
    /\ UNCHANGED cleared

-----------------------------------------------------------------------------
(***************************************************************************)
(* Purchase orders                                                         *)
(***************************************************************************)

SetCompanyTerms(limit) ==
    /\ terms' = [limit |-> limit, balance |-> IF terms = None THEN 0 ELSE terms.balance]
    /\ lowered' = (lowered \/ limit < terms'.balance)
    /\ UNCHANGED <<stock, policies, pos, checkouts, noteVars, supply, leaked,
                   goodsVars>>

CreatePurchaseOrder(o, cart) ==
    /\ pos[o] = None
    /\ pos' = [pos EXCEPT ![o] = [items |-> cart, status |-> "pending_approval",
                                  approved |-> 0]]
    /\ UNCHANGED <<stock, policies, terms, checkouts, noteVars, supply, leaked,
                   lowered, goodsVars>>

\* Neither handler looks at the status the order has.
ApprovePurchaseOrder(o) ==
    /\ pos[o] # None /\ pos[o].approved < MaxApprovals
    /\ pos' = [pos EXCEPT ![o].status = "approved", ![o].approved = @ + 1]
    /\ UNCHANGED <<stock, policies, terms, checkouts, noteVars, supply, leaked,
                   lowered, goodsVars>>

RejectPurchaseOrder(o) ==
    /\ pos[o] # None
    /\ pos' = [pos EXCEPT ![o].status = "rejected"]
    /\ UNCHANGED <<stock, policies, terms, checkouts, noteVars, supply, leaked,
                   lowered, goodsVars>>

WithinCredit(total) == terms # None => terms.balance + total <= terms.limit

Ready(o) == pos[o] # None /\ pos[o].status = "approved" /\ WithinCredit(Pieces(pos[o].items))

\* reserve_inventory refuses the cart or throws.
CheckoutBroken(o) ==
    /\ Ready(o)
    /\ \E plan \in Plans(pos[o].items), before \in SUBSET Skus, s \in Skus :
          \/ ReserveRefused(pos[o].items, plan, before, s)
          \/ ReserveThrows(pos[o].items, plan, before, s)
    /\ UNCHANGED <<policies, lowered, poVars, goodsVars>>

\* Wrong: the status is left for the payment to change.
CheckedOutStays(o) == pos

CheckedOut(o) == [pos EXCEPT ![o].status = "in_checkout"]

Charged(total) == [terms EXCEPT !.balance = @ + total]

\* The cart is reserved and becomes a checkout, and the company is charged.  Without
\* a payment stub there is no intent and the answer throws, after all of this.
CheckoutPurchaseOrder(o, c) ==
    LET cart == pos[o].items IN
    /\ checkouts[c] = None
    /\ Ready(o)
    /\ \E plan \in Plans(cart) :
         /\ \A s \in Items(cart) : Smooth(s, plan)
         /\ stock' = Without(plan, Skus)
         /\ checkouts' = [checkouts EXCEPT ![c] =
              [poId |-> o, items |-> cart, reserve |-> [s \in Skus |-> plan[s].take],
               backorders |-> [s \in Skus |-> plan[s].short], charged |-> terms # None]]
         /\ backorders' = backorders \cup Recorded(cart, plan, Skus, "reserve", None)
                              \cup Recorded(cart, plan, Skus, "po", c)
    /\ pos' = CheckedOut(o)
    /\ terms' = IF terms # None THEN Charged(Pieces(cart)) ELSE None
    /\ UNCHANGED <<policies, cleared, supply, leaked, lowered, goodsVars>>

-----------------------------------------------------------------------------
(***************************************************************************)
(* Reservations, shipments and returns                                     *)
(***************************************************************************)

\* adjust_inventory for items that name no warehouse; a shelf does not go below 0.
Adjusted(cart, sign) == [s \in Skus |-> [stock[s] EXCEPT ![Default] =
    IF @ + sign * cart[s] < 0 THEN 0 ELSE @ + sign * cart[s]]]

Fits(after) == \A s \in Skus : after[s][Default] <= MaxStock

Reserved(cart) == [items |-> cart, released |-> FALSE, shipped |-> 0]

SetInventoryReservation(o, cart) ==
    /\ reservations' = [reservations EXCEPT ![o] = Reserved(cart)]
    /\ UNCHANGED <<stock, policies, noteVars, supply, leaked, lowered, poVars,
                   returns>>

Released(o) == [reservations EXCEPT ![o].released = TRUE, ![o].shipped = @ + 1]

\* With status shipped or delivered; any other message changes nothing.
SyncShipment(o) ==
    /\ reservations[o] # None /\ ~reservations[o].released
    /\ Moves(Adjusted(reservations[o].items, -1))
    /\ reservations' = Released(o)
    /\ UNCHANGED <<policies, noteVars, leaked, lowered, poVars, returns>>

\* With status approved or refunded; nothing remembers that it has been done.
SyncReturn(o) ==
    /\ reservations[o] # None
    /\ Fits(Adjusted(reservations[o].items, 1))
    /\ Moves(Adjusted(reservations[o].items, 1))
    /\ UNCHANGED <<policies, noteVars, leaked, lowered, poVars, goodsVars>>

RequestReturn(r, cart) ==
    /\ returns[r] = None
    /\ returns' = [returns EXCEPT ![r] = [items |-> cart, status |-> "requested"]]
    /\ UNCHANGED <<stock, policies, noteVars, supply, leaked, lowered, poVars,
                   reservations>>

\* ApproveReturn and UpdateReturnStatus
UpdateReturn(r, status) ==
    /\ returns[r] # None
    /\ returns' = [returns EXCEPT ![r].status = status]
    /\ UNCHANGED <<stock, policies, noteVars, supply, leaked, lowered, poVars,
                   reservations>>

RefundReturn(r, restock) ==
    /\ returns[r] # None
    /\ returns' = [returns EXCEPT ![r].status = "refunded"]
    /\ IF restock
       THEN /\ Fits(Adjusted(returns[r].items, 1))
            /\ Moves(Adjusted(returns[r].items, 1))
       ELSE UNCHANGED <<stock, supply>>
    /\ UNCHANGED <<policies, noteVars, leaked, lowered, poVars, reservations>>

-----------------------------------------------------------------------------

StockNext ==
    \/ \E s \in Skus, w \in Warehouses, qty \in Counts : SetInventory(s, w, qty)
    \/ \E s \in Skus, allow \in BOOLEAN, low \in Thresholds : SetStockPolicy(s, allow, low)
    \/ ListBackordersClear
    \/ \E old \in SUBSET backorders : CleanupRetention(old)

PurchaseNext ==
    \/ \E limit \in Limits : SetCompanyTerms(limit)
    \/ \E o \in POs, cart \in Carts : CreatePurchaseOrder(o, cart)
    \/ \E o \in POs :
          ApprovePurchaseOrder(o) \/ RejectPurchaseOrder(o) \/ CheckoutBroken(o)
    \/ \E o \in POs, c \in Checkouts : CheckoutPurchaseOrder(o, c)

GoodsNext ==
    \/ \E o \in Orders, cart \in Carts : SetInventoryReservation(o, cart)
    \/ \E o \in Orders : SyncShipment(o) \/ SyncReturn(o)
    \/ \E r \in Returns, cart \in Carts : RequestReturn(r, cart)
    \/ \E r \in Returns, status \in ReturnStatuses : UpdateReturn(r, status)
    \/ \E r \in Returns, restock \in BOOLEAN : RefundReturn(r, restock)

Next == StockNext \/ PurchaseNext \/ GoodsNext

Spec == Init /\ [][Next]_vars

-----------------------------------------------------------------------------

Made == {c \in Checkouts : checkouts[c] # None}

InCheckouts(s, w) == Total([c \in Made |-> checkouts[c].reserve[s][w]], Made)

\* Every piece is on its shelf or set aside for a checkout, refused carts included;
\* only a checkout that throws at a low stock alert loses pieces.  No shelf goes
\* below 0, and what is reserved for an order leaves the shelf once, however often
\* the shipment is reported.
StockAccounted ==
    /\ \A s \in Skus, w \in Warehouses : stock[s][w] >= 0
    /\ \A s \in Skus \ leaked, w \in Warehouses :
          stock[s][w] + InCheckouts(s, w) = supply[s][w]
    /\ \A o \in Orders : reservations[o] # None => reservations[o].shipped <= 1

\* For each sku of a checkout exactly one note was made of the pieces its customer is
\* still owed, those ordered less those the loop took off the shelves, and none when
\* nothing is owed, whatever carts were refused or thrown before and after; the
\* checkout itself says the same.
ReserveCovers ==
    \A c \in Made, s \in Skus :
        LET owed == checkouts[c].items[s] - Sum(checkouts[c].reserve[s])
            note == [sku |-> s, qty |-> owed, source |-> "po", ref |-> c]
        IN  /\ owed >= 0 /\ checkouts[c].backorders[s] = owed
            /\ {n \in backorders \cup cleared : n.ref = c /\ n.sku = s}
                  = IF owed = 0 THEN {} ELSE {note}

\* A purchase order reaches a checkout once for each approval, although approvals
\* and rejections are taken in any state; the company's balance is the price of
\* the checkouts charged to it, and stays within its limit unless the limit itself
\* was put below the balance.
ChargedAsApproved ==
    /\ \A o \in POs : pos[o] # None =>
          Cardinality({c \in Made : checkouts[c].poId = o}) <= pos[o].approved
    /\ terms # None =>
          /\ terms.balance = Total([c \in Made |-> Pieces(checkouts[c].items)],
                                   {c \in Made : checkouts[c].charged})
          /\ terms.balance <= terms.limit \/ lowered

=============================================================================
