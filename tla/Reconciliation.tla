--------------------------- MODULE Reconciliation ---------------------------
(***************************************************************************)
(* What the agent does with the broker's answer to "what do you hold?".    *)
(* nq_agent/reconcile.py compares the agent's one position with what each  *)
(* account reports; Engine.reconcile in main.py acts on the comparison.    *)
(* A position is a record with a signed quantity (positive LONG, negative  *)
(* SHORT), the entry price, and whether the agent knows a stop and target  *)
(* for it (`managed`); what the broker reports has no such field.          *)
(***************************************************************************)
EXTENDS Integers

CONSTANTS
  Accounts,   \* the accounts that receive orders (order_accounts)
  Prices,     \* the entry and fill prices that are told apart
  None        \* no position

(* _consensus reads positions[0], so a reconciler over no account raises.  *)
ASSUME AccountsAssumption == Accounts # {}

Quantities == Int \ {0}

BrokerPosition == [qty : Quantities, price : Prices]
Position == [qty : Quantities, price : Prices, managed : BOOLEAN]

ASSUME NoneAssumption == None \notin BrokerPosition \cup Position

Qty(p) == IF p = None THEN 0 ELSE p.qty

(* Reconciler._compare: direction before quantity before price.            *)
Compare(agent, broker) ==
  CASE agent = None /\ broker = None -> "AGREED"
    [] agent = None /\ broker # None -> "BROKER_ONLY"
    [] agent # None /\ broker = None -> "AGENT_ONLY"
    [] OTHER ->
         CASE (agent.qty > 0) # (broker.qty > 0) -> "DIRECTION_MISMATCH"
           [] agent.qty # broker.qty /\ (agent.qty > 0) = (broker.qty > 0)
                -> "QUANTITY_MISMATCH"
           [] agent.qty = broker.qty /\ agent.price # broker.price
                -> "PRICE_MISMATCH"
           [] agent.qty = broker.qty /\ agent.price = broker.price -> "AGREED"

Blocking == {"AGENT_ONLY", "BROKER_ONLY", "QUANTITY_MISMATCH", "DIRECTION_MISMATCH"}

(* Mutant: only a divergence on every account blocks.                      *)
IsBlockingEverywhere(agent, reported) ==
  \A a \in Accounts : Compare(agent, reported[a]) \in Blocking

(* ReconciliationReport.is_blocking.                                       *)
IsBlocking(agent, reported) ==
  \E a \in Accounts : Compare(agent, reported[a]) \in Blocking

(* Mutant: the first account speaks for all.                               *)
ConsensusOfFirst(reported) == reported[CHOOSE a \in Accounts : TRUE]

(* Reconciler._consensus: the one position every account holds, or None.   *)
Consensus(reported) ==
  LET first == reported[CHOOSE a \in Accounts : TRUE]
  IN  IF \A a \in Accounts : reported[a] = first THEN first ELSE None

(* Reconciler.adoptable_position: owned, but with no stop and no target.   *)
Adopted(consensus) ==
  [qty |-> consensus.qty, price |-> consensus.price, managed |-> FALSE]

(* Engine.reconcile after a fetch that succeeded: the belief the agent is  *)
(* left with, and whether new entries are blocked.                         *)
Reconciled(agent, reported) ==
  LET consensus == Consensus(reported)
      phantom == \A a \in Accounts : Compare(agent, reported[a]) = "AGENT_ONLY"
  IN  IF IsBlocking(agent, reported)
      THEN [block |-> TRUE,
            pos |-> IF agent = None /\ consensus # None THEN Adopted(consensus)
                    ELSE IF agent # None /\ phantom THEN None
                    ELSE agent]
      ELSE [block |-> FALSE,
            pos |-> IF agent # None /\ consensus # None
                    THEN [agent EXCEPT !.price = consensus.price]
                    ELSE agent]
=============================================================================
