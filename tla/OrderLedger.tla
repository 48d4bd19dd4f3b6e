---------------------------- MODULE OrderLedger ----------------------------
(***************************************************************************)
(* What the payment side of the gateway promises, without nodes, locks,    *)
(* transactions or callbacks: an order is worth an amount fixed when it is *)
(* placed, it becomes due when it is paid or when an administrator         *)
(* completes it, and a due order is fulfilled at most once, for exactly    *)
(* its worth.                                                              *)
(***************************************************************************)
EXTENDS Integers

CONSTANTS Orders

VARIABLES
  worth,      \* the amount of each order, NotPlaced before it exists
  due,        \* the orders paid, or completed by an administrator
  fulfilled,  \* the orders whose amount the user received
  wallet      \* everything the user received

NotPlaced == -1

ledgerVars == <<worth, due, fulfilled, wallet>>

LedgerInit ==
  /\ worth = [o \in Orders |-> NotPlaced]
  /\ due = {}
  /\ fulfilled = {}
  /\ wallet = 0

PlaceOrder(o) ==
  /\ worth[o] = NotPlaced
  /\ worth'[o] \in Nat
  /\ worth' = [worth EXCEPT ![o] = worth'[o]]
  /\ UNCHANGED <<due, fulfilled, wallet>>

Approve(o) ==
  /\ worth[o] # NotPlaced
  /\ due' = due \union {o}
  /\ UNCHANGED <<worth, fulfilled, wallet>>

Fulfil(o) ==
  /\ o \in due \ fulfilled
  /\ fulfilled' = fulfilled \union {o}
  /\ wallet' = wallet + worth[o]
  /\ UNCHANGED <<worth, due>>

LedgerNext == \E o \in Orders : PlaceOrder(o) \/ Approve(o) \/ Fulfil(o)

LedgerSpec == LedgerInit /\ [][LedgerNext]_ledgerVars
=============================================================================
