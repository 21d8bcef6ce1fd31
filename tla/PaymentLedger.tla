--------------------------- MODULE PaymentLedger ---------------------------
(***************************************************************************)
(* What app/services/billing.py promises of the transactions table: every  *)
(* transaction is opened, then either closed without money or paid, and    *)
(* the step that makes it paid opens exactly one subscription row for it.  *)
(* Nothing is ever taken back.                                             *)
(***************************************************************************)

CONSTANTS Txns,   \* the transactions
          Rows    \* the identities a subscription row can have

VARIABLES state,        \* state[t]: where transaction t stands
          activation    \* activation[t]: the subscription rows opened for t

vars == <<state, activation>>

States == {"absent", "open", "paid", "closed"}

TypeOK == /\ state \in [Txns -> States]
          /\ activation \in [Txns -> SUBSET Rows]

Init == /\ state = [t \in Txns |-> "absent"]
        /\ activation = [t \in Txns |-> {}]

\* The checkout is committed: the gateway's answer says whether it can be paid.
Open(t) == /\ state[t] = "absent"
           /\ state' = [state EXCEPT ![t] = "open"]
           /\ UNCHANGED activation

Refuse(t) == /\ state[t] = "absent"
             /\ state' = [state EXCEPT ![t] = "closed"]
             /\ UNCHANGED activation

Close(t) == /\ state[t] = "open"
            /\ state' = [state EXCEPT ![t] = "closed"]
            /\ UNCHANGED activation

\* Paying and opening the one subscription row are a single step.
Pay(t) == /\ state[t] = "open"
          /\ state' = [state EXCEPT ![t] = "paid"]
          /\ \E r \in Rows : activation' = [activation EXCEPT ![t] = {r}]

Next == \E t \in Txns : Open(t) \/ Refuse(t) \/ Close(t) \/ Pay(t)

Spec == Init /\ [][Next]_vars
=============================================================================
