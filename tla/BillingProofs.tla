--------------------------- MODULE BillingProofs ---------------------------
(***************************************************************************)
(* Theorems about Billing, for all values of its constants.                *)
(***************************************************************************)
EXTENDS Billing, TLAPS

-----------------------------------------------------------------------------
(* Type correctness *)

\* An account written attribute by attribute is an account.
LEMMA NetWriteType ==
  ASSUME NEW S, NEW a \in S, NEW b \in S, NEW c \in S
  PROVE  NetWrite(a, b, c) \in S
  BY DEF NetWrite

\* The initial state is well typed.
LEMMA InitTypeOK == Init => TypeOK
  BY FreeIsFree DEF Init, TypeOK, Transaction, Request, Subscription, Sweep, Closing, Account, NewUser,
     Answers, NoExpiry, Time, Plans, Statuses, OpenStatuses, TerminalStatuses

\* The checkout and the environment keep the types.
LEMMA CheckoutTypeOK ==
  ASSUME TypeOK, NEW c \in Checkouts, CheckoutStep(c) \/ UserPays(c)
  PROVE  TypeOK'
  <1> USE DEF TypeOK, Transaction, Time
  <1>1. ASSUME NEW u \in Users, NEW p \in PaidPlans, CheckoutBegin(c, u, p)
        PROVE  TypeOK'
    BY <1>1 DEF CheckoutBegin, Statuses
  <1>2. CASE CheckoutDemo(c)
    BY <1>2 DEF CheckoutDemo, Statuses, OpenStatuses
  <1>3. CASE CheckoutIssued(c)
    BY <1>3 DEF CheckoutIssued, Statuses, OpenStatuses
  <1>4. CASE CheckoutRefused(c)
    BY <1>4 DEF CheckoutRefused, Statuses, TerminalStatuses
  <1>5. CASE CheckoutLost(c)
    BY <1>5 DEF CheckoutLost, Statuses
  <1>6. CASE UserPays(c)
    BY <1>6 DEF UserPays
  <1> QED BY <1>1, <1>2, <1>3, <1>4, <1>5, <1>6 DEF CheckoutStep

\* A request is given a session record that is well typed.
LEMMA ArriveTypeOK ==
  ASSUME TypeOK, NEW d \in Deliveries, NEW c \in Checkouts, NEW answer \in Answers, Arrive(d, c, answer)
  PROVE  TypeOK'
  <1>1. txn[c].status \in Statuses /\ "absent" \in Statuses
    BY DEF TypeOK, Transaction, Statuses
  <1> DEFINE view == IF d \in DemoPays THEN txn[c].status ELSE "absent"
  <1>2. req[d] \in Request /\ view \in Statuses
    BY <1>1 DEF TypeOK
  <1>3. [req[d] EXCEPT !.pc = "waiting", !.txn = c, !.answer = answer, !.view = view] \in Request
    BY <1>2 DEF Request
  <1>4. req' \in [Deliveries -> Request]
    BY <1>2, <1>3 DEF Arrive, TypeOK
  <1> QED BY <1>4 DEF Arrive, TypeOK

\* Every step of a request keeps the types, given that its transaction exists.
LEMMA HandlerTypeOK ==
  ASSUME TypeOK, Arrived, NEW d \in Deliveries, Handler(d) \/ Abort(d)
  PROVE  TypeOK'
  <1> DEFINE t == req[d].txn
  <1>a. req[d] \in Request
    BY DEF TypeOK
  <1>b. ASSUME req[d].pc # "idle" PROVE t \in Checkouts /\ txn[t] \in Transaction
    BY <1>b DEF Arrived, TypeOK
  <1>c. [req EXCEPT ![d].pc = "done"] \in [Deliveries -> Request]
    BY <1>a DEF TypeOK, Request
  <1>1. CASE LockRow(d)
    <2>1. View(d) \in Statuses
      BY <1>1, <1>a, <1>b DEF LockRow, View, Request, Transaction
    <2> QED BY <1>1, <1>a, <2>1 DEF LockRow, TypeOK, Request
  <1>2. CASE Cancel(d)
    BY <1>2, <1>b, <1>c DEF Cancel, Finish, TypeOK, Transaction, Statuses, TerminalStatuses
  <1>3. CASE VerifyFail(d)
    <2>1. gateway' \in [Checkouts -> {"none", "open", "paid", "verified"}]
      BY <1>3 DEF VerifyFail, TypeOK
    <2> QED BY <1>3, <1>b, <1>c, <2>1
            DEF VerifyFail, Finish, TypeOK, Transaction, Statuses, TerminalStatuses
  <1>4. CASE VerifyOk(d)
    <2>1. gateway' \in [Checkouts -> {"none", "open", "paid", "verified"}]
      BY <1>4 DEF VerifyOk, TypeOK
    <2>2. Owner(d) \in Users
      BY <1>4, <1>b DEF VerifyOk, Owner, Transaction
    <2>3. PICK start \in {now} \cup {sub[x].expires : x \in Active(Owner(d))} :
            req' = [req EXCEPT ![d].pc = "activating", ![d].seen = Active(Owner(d)),
                               ![d].user = user[Owner(d)], ![d].expires = start + Duration]
      BY <1>4 DEF VerifyOk
    <2>4. start \in Nat
      BY <2>3 DEF TypeOK, Active, Subscription, Time
    <2>5. start + Duration \in Time
      BY <2>4, TimesAreNatural DEF Time
    <2>6. Active(Owner(d)) \in SUBSET Deliveries /\ user[Owner(d)] \in Account
      BY <2>2 DEF Active, TypeOK
    <2>7. req' \in [Deliveries -> Request]
      BY <1>a, <2>3, <2>5, <2>6 DEF TypeOK, Request
    <2> QED BY <1>4, <2>1, <2>7 DEF VerifyOk, TypeOK
  <1>5. CASE Commit(d)
    <2>1. t \in Checkouts /\ txn[t] \in Transaction
      BY <1>5, <1>b DEF Commit
    <2>2. txn' \in [Checkouts -> Transaction]
      BY <1>5, <2>1 DEF Commit, TypeOK, Transaction, Statuses, TerminalStatuses
    <2>3. sub' \in [Deliveries -> Subscription]
      BY <1>5, <1>a DEF Commit, TypeOK, Subscription, Request
    <2>4. user' \in [Users -> Account]
      <3>1. Owner(d) \in Users /\ PlanOf(d) \in Plans
        BY <2>1 DEF Owner, PlanOf, Transaction, Plans
      <3>2. user[Owner(d)] \in Account /\ req[d].user \in Account /\ req[d].expires \in Time
        BY <3>1, <1>a DEF TypeOK, Request
      <3>3. NetWrite(req[d].user.plan, PlanOf(d), user[Owner(d)].plan) \in Plans
        BY <3>1, <3>2 DEF NetWrite, Account
      <3>4. NetWrite(req[d].user.expires, req[d].expires, user[Owner(d)].expires) \in Time
        BY <3>1, <3>2 DEF NetWrite, Account
      <3> QED BY <1>5, <3>3, <3>4 DEF Commit, TypeOK, Account
    <2> QED BY <1>5, <1>c, <2>2, <2>3, <2>4 DEF Commit, Finish, TypeOK
  <1>6. CASE Abort(d)
    <2>1. gateway' \in [Checkouts -> {"none", "open", "paid", "verified"}]
      BY <1>6 DEF Abort, TypeOK
    <2> QED BY <1>6, <1>c, <2>1 DEF Abort, Finish, TypeOK
  <1> QED BY <1>1, <1>2, <1>3, <1>4, <1>5, <1>6 DEF Handler

\* The sweep keeps the types.
LEMMA SweepTypeOK ==
  ASSUME TypeOK, NEW s \in Sweeps, SweepRead(s) \/ SweepCommit(s)
  PROVE  TypeOK'
  <1>1. CASE SweepRead(s)
    BY <1>1 DEF SweepRead, TypeOK, Sweep
  <1>2. CASE SweepCommit(s)
    <2>1. sub' \in [Deliveries -> Subscription]
      BY <1>2 DEF SweepCommit, TypeOK, Subscription
    <2>2. user' \in [Users -> Account]
      BY <1>2 DEF SweepCommit, TypeOK, Account, NetWrite, NoExpiry, Time, Plans, Sweep
    <2> QED BY <1>2, <2>1, <2>2 DEF SweepCommit, TypeOK, Sweep
  <1> QED BY <1>1, <1>2

\* So does the admin's grant.
LEMMA AdminTypeOK ==
  ASSUME TypeOK, NEW u \in Users, NEW p \in Plans, AdminSetPlan(u, p)
  PROVE  TypeOK'
  BY DEF AdminSetPlan, TypeOK, Account

\* So does the deletion of an account.
LEMMA EraseTypeOK ==
  ASSUME TypeOK, NEW u \in Leavers, EraseRead(u) \/ EraseCommit(u)
  PROVE  TypeOK'
  <1>1. u \in Users /\ user[u] \in Account /\ closing[u] \in Closing
    BY LeaversAreUsers DEF TypeOK
  <1>2. CASE EraseRead(u)
    BY <1>1, <1>2 DEF EraseRead, TypeOK, Closing
  <1>3. CASE EraseCommit(u)
    <2>1. user' \in [Users -> Account]
      BY <1>1, <1>3 DEF EraseCommit, TypeOK, Account, Closing, NetWrite, NoExpiry, Time, Plans
    <2> QED BY <1>1, <1>3, <2>1 DEF EraseCommit, TypeOK, Closing
  <1> QED BY <1>2, <1>3

\* Type correctness of one step of the whole component.
LEMMA NextTypeOK == TypeOK /\ Arrived /\ [Next]_vars => TypeOK'
  <1> SUFFICES ASSUME TypeOK, Arrived, [Next]_vars PROVE TypeOK'
    OBVIOUS
  <1>1. CASE Tick
    BY <1>1 DEF Tick, TypeOK, Time
  <1>2. CASE \E c \in Checkouts : CheckoutStep(c) \/ UserPays(c)
    BY <1>2, CheckoutTypeOK
  <1>3. CASE \E d \in Deliveries, c \in Checkouts, answer \in Answers : Arrive(d, c, answer)
    BY <1>3, ArriveTypeOK
  <1>4. CASE \E d \in Deliveries : Handler(d) \/ Abort(d)
    BY <1>4, HandlerTypeOK
  <1>5. CASE \E s \in Sweeps : SweepRead(s) \/ SweepCommit(s)
    BY <1>5, SweepTypeOK
  <1>6. CASE \E g \in Grants : AdminSetPlan(g[1], g[2])
    BY <1>6, AdminTypeOK, GrantsAreTyped
  <1>7. CASE \E u \in Leavers : EraseRead(u) \/ EraseCommit(u)
    BY <1>7, EraseTypeOK
  <1>8. CASE UNCHANGED vars
    BY <1>8 DEF vars, TypeOK
  <1> QED BY <1>1, <1>2, <1>3, <1>4, <1>5, <1>6, <1>7, <1>8 DEF Next

-----------------------------------------------------------------------------
(* What no step undoes *)

RowKept(t) ==
  Committed(t) => Committed(t)' /\ txn'[t].user = txn[t].user /\ txn'[t].plan = txn[t].plan
SessionKept(d) ==
  /\ req[d].pc # "idle" => req'[d].pc # "idle" /\ req'[d].txn = req[d].txn
  /\ req[d].pc = "done" => req'[d].pc = "done"
SubKept(d) ==
  sub[d].status # "none" => sub'[d].status # "none" /\ sub'[d].expires = sub[d].expires

\* A committed transaction keeps its user and plan, a session its transaction,
\* a subscription row its expiry, whatever step is taken.
LEMMA NothingUndone ==
  ASSUME TypeOK, Arrived, SubsAreDone, [Next]_vars
  PROVE  /\ \A t \in Checkouts : RowKept(t)
         /\ \A d \in Deliveries : SessionKept(d) /\ SubKept(d)
         /\ now' >= now
  <1> USE DEF RowKept, SessionKept, SubKept, Committed
  <1>1. CASE Tick
    BY <1>1 DEF Tick, TypeOK, Time
  <1>2. CASE \E c \in Checkouts : CheckoutStep(c) \/ UserPays(c)
    BY <1>2 DEF CheckoutStep, CheckoutBegin, CheckoutDemo, CheckoutIssued, CheckoutRefused,
       CheckoutLost, UserPays, OpenStatuses, TypeOK, Transaction, Time
  <1>3. CASE \E d \in Deliveries, c \in Checkouts, answer \in Answers : Arrive(d, c, answer)
    BY <1>3 DEF Arrive, TypeOK, Request, Time
  <1>4. ASSUME NEW d \in Deliveries, Handler(d) \/ Abort(d)
        PROVE  /\ \A t \in Checkouts : RowKept(t)
               /\ \A e \in Deliveries : SessionKept(e) /\ SubKept(e)
               /\ now' >= now
    <2>1. \A t \in Checkouts : RowKept(t)
      BY <1>4 DEF Handler, LockRow, Cancel, VerifyFail, VerifyOk, Commit, Abort, TypeOK, Transaction
    <2>2. \A e \in Deliveries : SessionKept(e)
      <3>1. CASE LockRow(d)
        BY <3>1 DEF LockRow, TypeOK, Request
      <3>2. CASE VerifyOk(d)
        BY <3>2 DEF VerifyOk, TypeOK, Request
      <3>3. CASE Cancel(d) \/ VerifyFail(d) \/ Commit(d) \/ Abort(d)
        BY <3>3 DEF Cancel, VerifyFail, Commit, Abort, Finish, TypeOK, Request
      <3> QED BY <1>4, <3>1, <3>2, <3>3 DEF Handler
    <2>3. \A e \in Deliveries : SubKept(e)
      <3>1. CASE Commit(d)
        <4>1. sub[d].status = "none"
          BY <3>1 DEF Commit, SubsAreDone
        <4> QED BY <3>1, <4>1 DEF Commit, TypeOK, Subscription
      <3> QED BY <1>4, <3>1 DEF Handler, LockRow, Cancel, VerifyFail, VerifyOk, Abort
    <2>4. now' = now
      BY <1>4 DEF Handler, LockRow, Cancel, VerifyFail, VerifyOk, Commit, Abort
    <2> QED BY <2>1, <2>2, <2>3, <2>4 DEF TypeOK, Time
  <1>5. CASE \E s \in Sweeps : SweepRead(s) \/ SweepCommit(s)
    <2>1. UNCHANGED <<now, txn, req>>
      BY <1>5 DEF SweepRead, SweepCommit
    <2>2. sub \in [Deliveries -> Subscription] /\ now \in Nat
      BY DEF TypeOK, Time
    <2>3. \A d \in Deliveries : SubKept(d)
      BY <1>5, <2>2 DEF SweepRead, SweepCommit, Subscription
    <2> QED BY <2>1, <2>2, <2>3
  <1>6. CASE \E g \in Grants : AdminSetPlan(g[1], g[2])
    BY <1>6 DEF AdminSetPlan, TypeOK, Time
  <1>7. CASE \E u \in Leavers : EraseRead(u) \/ EraseCommit(u)
    <2>1. UNCHANGED <<now, txn, req, sub>>
      BY <1>7 DEF EraseRead, EraseCommit
    <2> QED BY <2>1 DEF TypeOK, Time
  <1>8. CASE UNCHANGED vars
    BY <1>8 DEF vars, TypeOK, Time
  <1> QED BY <1>1, <1>2, <1>3, <1>4, <1>5, <1>6, <1>7, <1>8 DEF Next

-----------------------------------------------------------------------------
(* The invariant of every configuration *)

\* Nothing has happened in the initial state.
LEMMA InitBaseInv == Init => BaseInv
  <1> SUFFICES ASSUME Init PROVE BaseInv
    OBVIOUS
  <1>1. TypeOK
    BY InitTypeOK
  <1>2. Arrived /\ Mutex /\ SubsAreDone /\ SeenIsSuperseded /\ DueHasLapsed /\ PlanIsExplained
    BY DEF Init, Arrived, Mutex, Holds, SubsAreDone, SeenIsSuperseded, DueHasLapsed,
       PlanIsExplained, NewUser
  <1> QED BY <1>1, <1>2 DEF BaseInv

\* A request's step leaves the session of every other request alone.
LEMMA OwnSessionOnly ==
  ASSUME TypeOK, NEW d \in Deliveries, Handler(d) \/ Abort(d),
         NEW e \in Deliveries, e # d
  PROVE  req'[e] = req[e]
  BY DEF Handler, LockRow, Cancel, VerifyFail, VerifyOk, Commit, Abort, Finish, TypeOK

\* Requests are served for committed transactions, one lock holder at a time,
\* and a subscription row appears only with the end of its request.
LEMMA LockingStep ==
  ASSUME BaseInv, [Next]_vars
  PROVE  Arrived' /\ Mutex' /\ SubsAreDone'
  <1> USE DEF Holds
  <1>a. TypeOK /\ Arrived /\ Mutex /\ SubsAreDone
    BY DEF BaseInv
  <1>b. /\ \A t \in Checkouts : RowKept(t)
        /\ \A d \in Deliveries : SessionKept(d)
    BY <1>a, NothingUndone
  <1>0. ASSUME UNCHANGED <<req, sub, invoices>> PROVE Arrived' /\ Mutex' /\ SubsAreDone'
    BY <1>0, <1>a, <1>b DEF Arrived, Mutex, SubsAreDone, RowKept, Committed
  <1>1. CASE Tick
    BY <1>0, <1>1 DEF Tick
  <1>2. CASE \E c \in Checkouts : CheckoutStep(c) \/ UserPays(c)
    BY <1>0, <1>2 DEF CheckoutStep, CheckoutBegin, CheckoutDemo, CheckoutIssued, CheckoutRefused,
       CheckoutLost, UserPays
  <1>3. ASSUME NEW d \in Deliveries, NEW c \in Checkouts, NEW answer \in Answers,
               Arrive(d, c, answer)
        PROVE  Arrived' /\ Mutex' /\ SubsAreDone'
    <2>1. \A e \in Deliveries : e # d => req'[e] = req[e]
      BY <1>3, <1>a DEF Arrive, TypeOK
    <2>2. req'[d].pc = "waiting" /\ req'[d].txn = c /\ Committed(c)'
      BY <1>3, <1>a DEF Arrive, TypeOK, Request, Committed
    <2>3. Arrived'
      BY <1>a, <1>b, <2>1, <2>2 DEF Arrived, RowKept, Committed
    <2>4. Mutex'
      BY <1>a, <2>1, <2>2 DEF Mutex
    <2>5. SubsAreDone'
      BY <1>3, <1>a, <2>1 DEF SubsAreDone, Arrive
    <2> QED BY <2>3, <2>4, <2>5
  <1>4. ASSUME NEW d \in Deliveries, Handler(d) \/ Abort(d)
        PROVE  Arrived' /\ Mutex' /\ SubsAreDone'
    <2>1. \A e \in Deliveries : e # d => req'[e] = req[e]
      BY <1>4, <1>a, OwnSessionOnly
    <2>2. req[d].pc # "idle" /\ req[d].txn \in Checkouts
      BY <1>4, <1>a DEF Handler, LockRow, Cancel, VerifyFail, VerifyOk, Commit, Abort, Arrived
    <2>3. Arrived'
      BY <1>a, <1>b, <2>1, <2>2 DEF Arrived, RowKept, SessionKept, Committed
    <2>4. req'[d].pc \in {"locked", "activating"} =>
             req[d].pc \in {"locked", "activating"} \/ ~Locked(req[d].txn)
      BY <1>4, <1>a DEF Handler, LockRow, Cancel, VerifyFail, VerifyOk, Commit, Abort, Finish,
         TypeOK, Request
    <2>5. Mutex'
      BY <1>a, <1>b, <2>1, <2>2, <2>4 DEF Mutex, Locked, SessionKept
    <2>6. SubsAreDone'
      <3>1. CASE Commit(d)
        <4>1. req'[d].pc = "done"
          BY <3>1, <1>a DEF Commit, Finish, TypeOK, Request
        <4>2. \A x \in req[d].seen : sub[x].status # "none"
          BY <3>1 DEF Commit, BaseInv, SeenIsSuperseded
        <4>3. \A x \in Deliveries : sub'[x].status # "none" <=> x = d \/ sub[x].status # "none"
          BY <3>1, <4>2, <1>a DEF Commit, TypeOK, Subscription
        <4> QED BY <3>1, <4>1, <4>3, <1>a, <1>b DEF Commit, SubsAreDone, SessionKept
      <3>2. CASE UNCHANGED <<sub, invoices>>
        BY <3>2, <1>a, <1>b DEF SubsAreDone, SessionKept
      <3> QED BY <1>4, <3>1, <3>2 DEF Handler, LockRow, Cancel, VerifyFail, VerifyOk, Abort
    <2> QED BY <2>3, <2>5, <2>6
  <1>5. ASSUME NEW s \in Sweeps, SweepRead(s) \/ SweepCommit(s)
        PROVE  Arrived' /\ Mutex' /\ SubsAreDone'
    <2>1. UNCHANGED <<req, txn, invoices>>
      BY <1>5 DEF SweepRead, SweepCommit
    <2>2. \A d \in Deliveries : sub'[d].status # "none" <=> sub[d].status # "none"
      <3>1. CASE SweepRead(s)
        BY <3>1 DEF SweepRead
      <3>2. CASE SweepCommit(s)
        <4>1. sweep[s].pc = "read" /\ DueHasLapsed
          BY <3>2 DEF SweepCommit, BaseInv
        <4> QED BY <3>2, <4>1 DEF SweepCommit, DueHasLapsed, TypeOK, Subscription
      <3> QED BY <1>5, <3>1, <3>2
    <2> QED BY <1>a, <2>1, <2>2 DEF Arrived, Mutex, SubsAreDone, Committed
  <1>6. CASE \E g \in Grants : AdminSetPlan(g[1], g[2])
    BY <1>0, <1>6 DEF AdminSetPlan
  <1>7. CASE \E u \in Leavers : EraseRead(u) \/ EraseCommit(u)
    BY <1>0, <1>7 DEF EraseRead, EraseCommit
  <1>8. CASE UNCHANGED vars
    BY <1>0, <1>8 DEF vars
  <1> QED BY <1>1, <1>2, <1>3, <1>4, <1>5, <1>6, <1>7, <1>8 DEF Next

\* A row keeps its owner and its plan.
LEMMA OwnerKept ==
  ASSUME BaseInv, [Next]_vars, NEW d \in Deliveries, req[d].pc # "idle"
  PROVE  Owner(d)' = Owner(d) /\ PlanOf(d)' = PlanOf(d)
  <1>1. RowKept(req[d].txn) /\ SessionKept(d) /\ Committed(req[d].txn)
    BY NothingUndone DEF BaseInv, Arrived
  <1> QED BY <1>1 DEF RowKept, SessionKept, Owner, PlanOf

\* What an activation is about to retire stays dominated by its new row, and
\* what a sweep is about to retire stays lapsed.
LEMMA RetiredStep ==
  ASSUME BaseInv, [Next]_vars
  PROVE  SeenIsSuperseded' /\ DueHasLapsed'
  <1>a. TypeOK /\ Arrived /\ SubsAreDone /\ SeenIsSuperseded /\ DueHasLapsed /\ TypeOK'
    BY NextTypeOK DEF BaseInv
  <1>b. /\ \A d \in Deliveries : SessionKept(d) /\ SubKept(d)
        /\ now' >= now
    BY <1>a, NothingUndone
  <1>c. \A d \in Deliveries : req[d].pc # "idle" => Owner(d)' = Owner(d)
    BY OwnerKept
  <1>d. \A x \in Deliveries : sub[x].status # "none" => req[x].pc # "idle"
    BY <1>a DEF SubsAreDone
  <1>1. ASSUME NEW d \in Deliveries, req'[d].pc = "activating", req'[d] = req[d]
        PROVE  \A x \in req'[d].seen : /\ sub'[x].status # "none"
                                       /\ Owner(x)' = Owner(d)'
                                       /\ req'[d].expires >= sub'[x].expires + Duration
    <2>1. \A x \in req[d].seen : x \in Deliveries
      BY <1>a DEF TypeOK, Request
    <2> QED BY <1>1, <1>a, <1>b, <1>c, <1>d, <2>1 DEF SeenIsSuperseded, SubKept
  <1>2. ASSUME NEW d \in Deliveries, req'[d].pc = "activating", VerifyOk(d)
        PROVE  \A x \in req'[d].seen : /\ sub'[x].status # "none"
                                       /\ Owner(x)' = Owner(d)'
                                       /\ req'[d].expires >= sub'[x].expires + Duration
    <2>1. PICK start \in {now} \cup {sub[x].expires : x \in Active(Owner(d))} :
            /\ \A x \in Active(Owner(d)) : start >= sub[x].expires
            /\ req' = [req EXCEPT ![d].pc = "activating", ![d].seen = Active(Owner(d)),
                                  ![d].user = user[Owner(d)], ![d].expires = start + Duration]
      BY <1>2 DEF VerifyOk
    <2>2. req'[d].seen = Active(Owner(d)) /\ req'[d].expires = start + Duration
      BY <2>1, <1>a DEF TypeOK, Request
    <2>3. UNCHANGED sub /\ req[d].pc # "idle"
      BY <1>2 DEF VerifyOk
    <2>4. \A x \in Active(Owner(d)) : /\ x \in Deliveries /\ sub[x].status # "none"
                                      /\ Owner(x) = Owner(d) /\ sub[x].expires \in Nat
      BY <1>a DEF Active, TypeOK, Subscription, Time
    <2>5. start \in Nat
      BY <2>1, <2>4, <1>a DEF TypeOK, Time
    <2>6. \A x \in Active(Owner(d)) : start + Duration >= sub[x].expires + Duration
      BY <2>1, <2>4, <2>5, TimesAreNatural
    <2> QED BY <1>c, <1>d, <2>2, <2>3, <2>4, <2>6
  <1>3. SeenIsSuperseded'
    <2>1. ASSUME NEW d \in Deliveries, req'[d].pc = "activating"
          PROVE  req'[d] = req[d] \/ VerifyOk(d)
      <3>1. CASE \E e \in Deliveries : Handler(e) \/ Abort(e)
        <4>1. CASE Handler(d) \/ Abort(d)
          <5>1. ~LockRow(d)
            BY <2>1, <1>a DEF LockRow, TypeOK, Request
          <5>2. ~(Cancel(d) \/ VerifyFail(d) \/ Commit(d) \/ Abort(d))
            BY <2>1, <1>a DEF Cancel, VerifyFail, Commit, Abort, Finish, TypeOK, Request
          <5> QED BY <4>1, <5>1, <5>2 DEF Handler
        <4> QED BY <3>1, <4>1, <1>a, OwnSessionOnly
      <3>2. CASE \E e \in Deliveries, c \in Checkouts, answer \in Answers : Arrive(e, c, answer)
        BY <2>1, <3>2, <1>a DEF Arrive, TypeOK, Request
      <3>3. CASE UNCHANGED req
        BY <3>3
      <3> QED BY <3>1, <3>2, <3>3 DEF Next, vars, Tick, CheckoutStep, CheckoutBegin, CheckoutDemo,
              CheckoutIssued, CheckoutRefused, CheckoutLost, UserPays, SweepRead, SweepCommit,
              AdminSetPlan,
              EraseRead, EraseCommit
    <2> QED BY <1>1, <1>2, <2>1 DEF SeenIsSuperseded
  <1>4. ASSUME NEW s \in Sweeps, sweep'[s].pc = "read"
        PROVE  \A x \in sweep'[s].due : sub'[x].status # "none" /\ sub'[x].expires < now'
    <2>1. CASE sweep'[s] = sweep[s]
      <3>1. \A x \in sweep[s].due : x \in Deliveries
        BY <1>a DEF TypeOK, Sweep
      <3>2. \A x \in Deliveries : sub[x].expires \in Nat
        BY <1>a DEF TypeOK, Subscription, Time
      <3>3. now \in Nat /\ now' \in Nat
        BY <1>a DEF TypeOK, Time
      <3> QED BY <1>4, <2>1, <3>1, <3>2, <3>3, <1>a, <1>b DEF DueHasLapsed, SubKept
    <2>2. CASE SweepRead(s)
      <3>1. sweep'[s].due = {d \in Deliveries : sub[d].status = "active" /\ sub[d].expires < now}
        BY <2>2, <1>a DEF SweepRead, TypeOK
      <3> QED BY <2>2, <3>1 DEF SweepRead
    <2>3. sweep'[s] = sweep[s] \/ SweepRead(s)
      <3>1. CASE \E r \in Sweeps : SweepRead(r) \/ SweepCommit(r)
        BY <1>4, <3>1, <1>a DEF SweepRead, SweepCommit, TypeOK, Sweep
      <3>2. CASE UNCHANGED sweep
        BY <3>2
      <3> QED BY <3>1, <3>2 DEF Next, vars, Tick, CheckoutStep, CheckoutBegin, CheckoutDemo,
              CheckoutIssued, CheckoutRefused, CheckoutLost, UserPays, Arrive, Handler, LockRow,
              Cancel, VerifyFail, VerifyOk, Commit, Abort, AdminSetPlan,
              EraseRead, EraseCommit
    <2> QED BY <2>1, <2>2, <2>3
  <1> QED BY <1>3, <1>4 DEF DueHasLapsed

Bought(u, p) == \E d \in Deliveries : /\ sub[d].status # "none"
                                      /\ Owner(d) = u /\ PlanOf(d) = p

\* What a user bought stays bought.
LEMMA BoughtKept ==
  ASSUME BaseInv, [Next]_vars, NEW u \in Users, NEW p \in Plans, Bought(u, p)
  PROVE  Bought(u, p)'
  <1>1. PICK d \in Deliveries : sub[d].status # "none" /\ Owner(d) = u /\ PlanOf(d) = p
    BY DEF Bought
  <1>2. req[d].pc # "idle"
    BY <1>1 DEF BaseInv, SubsAreDone
  <1>3. Owner(d)' = u /\ PlanOf(d)' = p
    BY <1>1, <1>2, OwnerKept
  <1>4. sub'[d].status # "none"
    BY <1>1, NothingUndone DEF SubKept, BaseInv
  <1> QED BY <1>3, <1>4 DEF Bought

\* An activation gives its owner only the plan it inserts a row for; a sweep
\* and an admin give what the audit log or PlanEnum.free account for.
LEMMA PlanStep ==
  ASSUME BaseInv, [Next]_vars
  PROVE  PlanIsExplained'
  <1>a. TypeOK /\ TypeOK' /\ PlanIsExplained /\ Arrived /\ SubsAreDone
    BY NextTypeOK DEF BaseInv
  <1>b. granted \subseteq granted'
    BY DEF Next, vars, Tick, CheckoutStep, CheckoutBegin, CheckoutDemo, CheckoutIssued,
       CheckoutRefused, CheckoutLost, UserPays, Arrive, Handler, LockRow, Cancel, VerifyFail,
       VerifyOk, Commit, Abort, SweepRead, SweepCommit, AdminSetPlan,
       EraseRead, EraseCommit
  <1> SUFFICES ASSUME NEW u \in Users, NEW p \in Plans, user'[u].plan = p, p # Free
               PROVE  <<u, p>> \in granted' \/ Bought(u, p)'
    BY <1>a DEF PlanIsExplained, Bought, TypeOK, Account
  <1>c. ASSUME user[u].plan = p PROVE <<u, p>> \in granted' \/ Bought(u, p)'
    BY <1>a, <1>b, <1>c, BoughtKept DEF PlanIsExplained, Bought
  <1>1. CASE UNCHANGED user
    BY <1>c, <1>1
  <1>2. ASSUME NEW d \in Deliveries, Commit(d)
        PROVE  <<u, p>> \in granted' \/ Bought(u, p)'
    <2>1. req[d].pc # "idle"
      BY <1>2 DEF Commit
    <2>2. sub'[d].status # "none" /\ Owner(d)' = Owner(d) /\ PlanOf(d)' = PlanOf(d)
      BY <1>2, <2>1, OwnerKept DEF Commit
    <2>3. CASE u = Owner(d) /\ p = PlanOf(d)
      BY <2>2, <2>3 DEF Bought
    <2>4. CASE ~(u = Owner(d) /\ p = PlanOf(d))
      <3>1. user'[u].plan \in {user[u].plan, IF u = Owner(d) THEN PlanOf(d) ELSE user[u].plan}
        BY <1>2, <1>a DEF Commit, NetWrite, TypeOK, Account
      <3> QED BY <1>c, <2>4, <3>1
    <2> QED BY <2>3, <2>4
  <1>3. ASSUME NEW s \in Sweeps, SweepCommit(s)
        PROVE  <<u, p>> \in granted' \/ Bought(u, p)'
    <2>1. user'[u].plan \in {Free, user[u].plan}
      BY <1>3, <1>a DEF SweepCommit, TypeOK, Account
    <2> QED BY <1>c, <2>1
  <1>4. ASSUME NEW g \in Grants, AdminSetPlan(g[1], g[2])
        PROVE  <<u, p>> \in granted' \/ Bought(u, p)'
    <2>1. CASE u = g[1]
      BY <1>4, <1>a, <2>1, GrantsAreTyped DEF AdminSetPlan, TypeOK, Account
    <2>2. CASE u # g[1]
      BY <1>4, <1>a, <1>c, <2>2 DEF AdminSetPlan, TypeOK, Account
    <2> QED BY <2>1, <2>2
  <1>5. ASSUME NEW w \in Leavers, EraseCommit(w)
        PROVE  <<u, p>> \in granted' \/ Bought(u, p)'
    <2>1. user'[u].plan \in {Free, user[u].plan}
      BY <1>5, <1>a DEF EraseCommit, NetWrite, TypeOK, Account
    <2> QED BY <1>c, <2>1
  <1> QED BY <1>1, <1>2, <1>3, <1>4, <1>5 DEF Next, vars, Tick, CheckoutStep, CheckoutBegin,
          CheckoutDemo, CheckoutIssued, CheckoutRefused, CheckoutLost, UserPays, Arrive, Handler,
          LockRow, Cancel, VerifyFail, VerifyOk, Abort, SweepRead, EraseRead

\* BaseInv is inductive.
LEMMA NextBaseInv == BaseInv /\ [Next]_vars => BaseInv'
  BY NextTypeOK, LockingStep, RetiredStep, PlanStep DEF BaseInv

\* Every reachable state satisfies BaseInv, for every set of requests.
THEOREM BaseInvariant == Spec => []BaseInv
  BY InitBaseInv, NextBaseInv, PTL DEF Spec

\* Type correctness of the payment component.
THEOREM TypeCorrect == Spec => []TypeOK
  <1>1. BaseInv => TypeOK
    BY DEF BaseInv
  <1> QED BY <1>1, BaseInvariant, PTL

\* A paid plan on an account was bought by its user or granted by an admin.
THEOREM PlansExplained == Spec => []PlanIsExplained
  <1>1. BaseInv => PlanIsExplained
    BY DEF BaseInv
  <1> QED BY <1>1, BaseInvariant, PTL

\* A subscription with time left is retired only by one that outlasts it by
\* Duration: a sweep retires lapsed rows, an activation the rows it has seen.
LEMMA CoverageKept == BaseInv /\ [Next]_vars => CoverageStep
  <1> SUFFICES ASSUME BaseInv, [Next]_vars,
                      NEW d \in Deliveries, Unexpired(d), sub'[d].status # "active"
               PROVE  \E e \in Deliveries : /\ sub[e].status = "none" /\ sub'[e].status = "active"
                                            /\ Owner(e) = Owner(d)
                                            /\ sub'[e].expires >= sub[d].expires + Duration
    BY DEF CoverageStep
  <1>a. TypeOK /\ SubsAreDone /\ SeenIsSuperseded /\ DueHasLapsed
    BY DEF BaseInv
  <1>1. ASSUME NEW e \in Deliveries, Commit(e)
        PROVE  /\ sub[e].status = "none" /\ sub'[e].status = "active"
               /\ Owner(e) = Owner(d)
               /\ sub'[e].expires >= sub[d].expires + Duration
    <2>1. sub[e].status = "none" /\ sub'[e] = [status |-> "active", expires |-> req[e].expires]
      BY <1>1, <1>a DEF Commit, SubsAreDone
    <2>2. d \in req[e].seen
      BY <1>1, <2>1 DEF Commit, Unexpired
    <2> QED BY <1>1, <1>a, <2>1, <2>2 DEF Commit, SeenIsSuperseded
  <1>2. ASSUME NEW s \in Sweeps, SweepCommit(s)
        PROVE  FALSE
    <2>1. d \in sweep[s].due
      BY <1>2 DEF SweepCommit, Unexpired
    <2> QED BY <1>2, <1>a, <2>1 DEF SweepCommit, DueHasLapsed, Unexpired, TypeOK, Subscription, Time
  <1>3. ~UNCHANGED sub
    BY DEF Unexpired
  <1> QED BY <1>1, <1>2, <1>3 DEF Next, vars, Tick, CheckoutStep, CheckoutBegin, CheckoutDemo,
          CheckoutIssued, CheckoutRefused, CheckoutLost, UserPays, Arrive, Handler, LockRow, Cancel,
          VerifyFail, VerifyOk, Abort, SweepRead, AdminSetPlan,
          EraseRead, EraseCommit

\* No interleaving of payments and sweeps takes paid days away.
THEOREM CoverageKeeps == Spec => CoverageNeverShrinks
  BY BaseInvariant, CoverageKept, PTL DEF Spec, CoverageNeverShrinks

-----------------------------------------------------------------------------
(* The critical invariant, when every delivery reads the row it has locked *)

\* Nothing is paid in the initial state.
LEMMA InitPayInv == Init => PayInv
  BY DEF Init, PayInv, HolderSeesOpen, ActivatingIsSettled, SubsArePaid, ActivatedOnce,
     PaidIffActivated, VerifiedBeforePaid, OpenedBy

\* A request's step changes no transaction but its own.
LEMMA OwnTransactionOnly ==
  ASSUME TypeOK, NEW d \in Deliveries, Handler(d) \/ Abort(d),
         NEW t \in Checkouts, t # req[d].txn
  PROVE  txn'[t] = txn[t] /\ gateway'[t] = gateway[t]
  BY DEF Handler, LockRow, Cancel, VerifyFail, VerifyOk, Commit, Abort, TypeOK

\* While one request holds the lock no other moves its transaction.
LEMMA HolderStep ==
  ASSUME BaseInv, PayInv, DemoPays = {}, [Next]_vars
  PROVE  HolderSeesOpen' /\ ActivatingIsSettled'
  <1>a. TypeOK /\ Arrived /\ Mutex /\ HolderSeesOpen /\ ActivatingIsSettled
    BY DEF BaseInv, PayInv
  <1>b. \A e \in Deliveries : SessionKept(e)
    BY NothingUndone DEF BaseInv
  <1>1. ASSUME NEW d \in Deliveries, Handler(d) \/ Abort(d)
        PROVE  HolderSeesOpen' /\ ActivatingIsSettled'
    <2>1. req[d].pc \in {"waiting", "locked", "activating"} /\ req[d].txn \in Checkouts
      BY <1>1, <1>a DEF Handler, LockRow, Cancel, VerifyFail, VerifyOk, Commit, Abort, Arrived
    <2>2. ASSUME NEW e \in Deliveries, e # d, req[e].pc \in {"locked", "activating"}
          PROVE  /\ req[e].txn \in Checkouts
                 /\ txn'[req[e].txn] = txn[req[e].txn]
                 /\ gateway'[req[e].txn] = gateway[req[e].txn]
      <3>1. req[e].txn \in Checkouts
        BY <2>2, <1>a DEF Arrived
      <3>2. CASE req[e].txn # req[d].txn
        BY <1>1, <1>a, <3>1, <3>2, OwnTransactionOnly
      <3>3. CASE req[e].txn = req[d].txn
        <4>1. req[d].pc = "waiting"
          BY <2>1, <2>2, <3>1, <3>3, <1>a DEF Mutex, Holds
        <4>2. UNCHANGED <<txn, gateway>>
          BY <1>1, <4>1 DEF Handler, LockRow, Cancel, VerifyFail, VerifyOk, Commit, Abort
        <4> QED BY <3>1, <4>2
      <3> QED BY <3>1, <3>2, <3>3
    <2>3. req'[d].pc \in {"locked", "activating"} => txn'[req[d].txn].status \in OpenStatuses
      <3>1. CASE LockRow(d)
        <4>1. View(d) = txn[req[d].txn].status
          BY DEF View
        <4>2. Committed(req[d].txn) /\ txn[req[d].txn].status \in Statuses
          BY <2>1, <1>a DEF Arrived, TypeOK, Transaction
        <4> QED BY <3>1, <4>1, <4>2, <1>a DEF LockRow, TypeOK, Request, Committed, Statuses
      <3>2. CASE VerifyOk(d)
        BY <3>2, <1>a DEF VerifyOk, HolderSeesOpen
      <3>3. CASE Cancel(d) \/ VerifyFail(d) \/ Commit(d) \/ Abort(d)
        BY <3>3, <1>a DEF Cancel, VerifyFail, Commit, Abort, Finish, TypeOK, Request
      <3> QED BY <1>1, <3>1, <3>2, <3>3 DEF Handler
    <2>4. req'[d].pc = "activating" => Demo \/ gateway'[req[d].txn] = "verified"
      <3>1. CASE VerifyOk(d)
        BY <3>1, <2>1, <1>a DEF VerifyOk, TypeOK
      <3>2. CASE LockRow(d)
        BY <3>2, <1>a DEF LockRow, TypeOK, Request
      <3>3. CASE Cancel(d) \/ VerifyFail(d) \/ Commit(d) \/ Abort(d)
        BY <3>3, <1>a DEF Cancel, VerifyFail, Commit, Abort, Finish, TypeOK, Request
      <3> QED BY <1>1, <3>1, <3>2, <3>3 DEF Handler
    <2>5. \A e \in Deliveries : e # d => req'[e] = req[e]
      BY <1>1, <1>a, OwnSessionOnly
    <2>6. req'[d].txn = req[d].txn
      BY <2>1, <1>b DEF SessionKept
    <2> QED BY <1>a, <2>2, <2>3, <2>4, <2>5, <2>6 DEF HolderSeesOpen, ActivatingIsSettled
  <1>2. ASSUME NEW c \in Checkouts, CheckoutStep(c) \/ UserPays(c)
        PROVE  HolderSeesOpen' /\ ActivatingIsSettled'
    <2>1. UNCHANGED req
      BY <1>2 DEF CheckoutStep, CheckoutBegin, CheckoutDemo, CheckoutIssued, CheckoutRefused,
         CheckoutLost, UserPays
    <2>2. \A t \in Checkouts : Committed(t) => txn'[t] = txn[t]
      BY <1>2, <1>a DEF CheckoutStep, CheckoutBegin, CheckoutDemo, CheckoutIssued, CheckoutRefused,
         CheckoutLost, UserPays, Committed, TypeOK
    <2>3. \A t \in Checkouts : Committed(t) /\ gateway[t] = "verified" => gateway'[t] = "verified"
      BY <1>2, <1>a DEF CheckoutStep, CheckoutBegin, CheckoutDemo, CheckoutIssued, CheckoutRefused,
         CheckoutLost, UserPays, Committed, TypeOK
    <2> QED BY <1>a, <2>1, <2>2, <2>3 DEF HolderSeesOpen, ActivatingIsSettled, Arrived
  <1>3. ASSUME NEW d \in Deliveries, NEW c \in Checkouts, NEW answer \in Answers,
               Arrive(d, c, answer)
        PROVE  HolderSeesOpen' /\ ActivatingIsSettled'
    <2>1. \A e \in Deliveries : req'[e].pc \in {"locked", "activating"} => req'[e] = req[e]
      BY <1>3, <1>a DEF Arrive, TypeOK, Request
    <2> QED BY <1>3, <1>a, <2>1 DEF Arrive, HolderSeesOpen, ActivatingIsSettled
  <1>4. CASE UNCHANGED <<txn, gateway, req>>
    BY <1>4, <1>a DEF HolderSeesOpen, ActivatingIsSettled
  <1> QED BY <1>1, <1>2, <1>3, <1>4 DEF Next, vars, Tick, SweepRead, SweepCommit, AdminSetPlan,
          EraseRead, EraseCommit

\* A commit moves an open transaction to paid and inserts its only rows; no
\* other step adds or removes one, or makes a transaction paid or unpaid.
LEMMA PaidStep ==
  ASSUME BaseInv, PayInv, DemoPays = {}, [Next]_vars
  PROVE  SubsArePaid' /\ ActivatedOnce' /\ PaidIffActivated' /\ VerifiedBeforePaid'
  <1>a. /\ TypeOK /\ Arrived /\ SubsAreDone /\ SeenIsSuperseded /\ DueHasLapsed
        /\ HolderSeesOpen /\ ActivatingIsSettled /\ SubsArePaid
        /\ ActivatedOnce /\ PaidIffActivated /\ VerifiedBeforePaid /\ SubsAreDone'
    BY LockingStep DEF BaseInv, PayInv
  <1>b. \A e \in Deliveries : SessionKept(e)
    BY <1>a, NothingUndone
  <1>c. \A t \in Checkouts : OpenedBy(t)' = {d \in invoices' : req'[d].txn = t}
    BY <1>a DEF OpenedBy, SubsAreDone
  <1>d. \A x \in Deliveries : sub[x].status # "none" => req'[x].txn = req[x].txn
    BY <1>a, <1>b DEF SubsAreDone, SessionKept
  <1>1. ASSUME \A x \in Deliveries : sub'[x].status # "none" <=> sub[x].status # "none",
               \A t \in Checkouts : txn'[t].status = "paid" <=> txn[t].status = "paid",
               \A t \in Checkouts : gateway[t] = "verified" => gateway'[t] = "verified"
                                                               \/ txn'[t].status # "paid"
        PROVE  SubsArePaid' /\ ActivatedOnce' /\ PaidIffActivated' /\ VerifiedBeforePaid'
    <2>1. \A x \in Deliveries : sub[x].status # "none" => req[x].txn \in Checkouts
      BY <1>a DEF SubsAreDone, Arrived
    <2>2. SubsArePaid'
      BY <1>1, <1>a, <1>d, <2>1 DEF SubsArePaid
    <2>3. ActivatedOnce'
      BY <1>1, <1>a, <1>d DEF ActivatedOnce
    <2>4. \A t \in Checkouts : OpenedBy(t)' = OpenedBy(t)
      BY <1>1, <1>d DEF OpenedBy
    <2>5. PaidIffActivated'
      BY <1>1, <1>a, <1>c, <2>4 DEF PaidIffActivated
    <2>6. VerifiedBeforePaid'
      BY <1>1, <1>a DEF VerifiedBeforePaid
    <2> QED BY <2>2, <2>3, <2>5, <2>6
  <1>2. ASSUME NEW d \in Deliveries, Commit(d)
        PROVE  SubsArePaid' /\ ActivatedOnce' /\ PaidIffActivated' /\ VerifiedBeforePaid'
    <2> DEFINE t == req[d].txn
    <2>1. t \in Checkouts /\ txn[t].status # "paid" /\ req'[d].txn = t
      BY <1>2, <1>a, <1>b DEF Commit, Arrived, HolderSeesOpen, OpenStatuses, SessionKept
    <2>2. \A x \in Deliveries : sub[x].status # "none" => req[x].txn \in Checkouts /\ req[x].txn # t
      BY <1>a, <2>1 DEF SubsAreDone, Arrived, SubsArePaid
    <2>3. \A x \in Deliveries : sub'[x].status # "none" <=> x = d \/ sub[x].status # "none"
      <3>1. \A x \in req[d].seen : sub[x].status # "none"
        BY <1>2, <1>a DEF Commit, SeenIsSuperseded
      <3> QED BY <1>2, <3>1, <1>a DEF Commit, TypeOK, Subscription
    <2>4. /\ txn'[t].status = "paid"
          /\ \A c \in Checkouts : c # t => txn'[c] = txn[c]
          /\ gateway' = gateway
      BY <1>2, <1>a, <2>1 DEF Commit, TypeOK, Transaction
    <2>5. SubsArePaid'
      BY <1>a, <1>d, <2>1, <2>2, <2>3, <2>4 DEF SubsArePaid
    <2>6. ActivatedOnce'
      BY <1>a, <1>d, <2>1, <2>2, <2>3 DEF ActivatedOnce
    <2>7. \A c \in Checkouts : OpenedBy(c)' = IF c = t THEN {d} ELSE OpenedBy(c)
      BY <1>d, <2>1, <2>2, <2>3 DEF OpenedBy
    <2>8. PaidIffActivated'
      BY <1>a, <1>c, <2>4, <2>7 DEF PaidIffActivated
    <2>9. VerifiedBeforePaid'
      BY <1>2, <1>a, <2>4 DEF VerifiedBeforePaid, ActivatingIsSettled, Commit
    <2> QED BY <2>5, <2>6, <2>8, <2>9
  <1>3. ASSUME NEW d \in Deliveries, Handler(d) \/ Abort(d), ~Commit(d)
        PROVE  SubsArePaid' /\ ActivatedOnce' /\ PaidIffActivated' /\ VerifiedBeforePaid'
    <2>1. UNCHANGED sub
      BY <1>3 DEF Handler, LockRow, Cancel, VerifyFail, VerifyOk, Abort
    <2>2. \A t \in Checkouts : gateway[t] = "verified" => gateway'[t] = "verified"
      BY <1>3, <1>a DEF Handler, LockRow, Cancel, VerifyFail, VerifyOk, Abort, TypeOK
    <2>3. \A t \in Checkouts : txn'[t].status = "paid" <=> txn[t].status = "paid"
      <3>1. CASE Cancel(d) \/ VerifyFail(d)
        <4>1. req[d].txn \in Checkouts /\ txn[req[d].txn].status # "paid"
          BY <3>1, <1>a DEF Cancel, VerifyFail, Arrived, HolderSeesOpen, OpenStatuses
        <4> QED BY <3>1, <4>1, <1>a DEF Cancel, VerifyFail, TypeOK, Transaction
      <3>2. CASE UNCHANGED txn
        BY <3>2
      <3> QED BY <1>3, <3>1, <3>2 DEF Handler, LockRow, VerifyOk, Abort
    <2> QED BY <1>1, <2>1, <2>2, <2>3
  <1>4. ASSUME NEW c \in Checkouts, CheckoutStep(c) \/ UserPays(c)
        PROVE  SubsArePaid' /\ ActivatedOnce' /\ PaidIffActivated' /\ VerifiedBeforePaid'
    <2>1. UNCHANGED sub
      BY <1>4 DEF CheckoutStep, CheckoutBegin, CheckoutDemo, CheckoutIssued, CheckoutRefused,
         CheckoutLost, UserPays
    <2>2. \A t \in Checkouts : txn'[t].status = "paid" <=> txn[t].status = "paid"
      BY <1>4, <1>a DEF CheckoutStep, CheckoutBegin, CheckoutDemo, CheckoutIssued, CheckoutRefused,
         CheckoutLost, UserPays, TypeOK, Transaction
    <2>3. \A t \in Checkouts : gateway[t] = "verified" => gateway'[t] = "verified"
                                                          \/ txn'[t].status # "paid"
      BY <1>4, <1>a DEF CheckoutStep, CheckoutBegin, CheckoutDemo, CheckoutIssued, CheckoutRefused,
         CheckoutLost, UserPays, TypeOK, Transaction
    <2> QED BY <1>1, <2>1, <2>2, <2>3
  <1>5. ASSUME NEW s \in Sweeps, SweepCommit(s)
        PROVE  SubsArePaid' /\ ActivatedOnce' /\ PaidIffActivated' /\ VerifiedBeforePaid'
    <2>1. \A x \in Deliveries : sub'[x].status # "none" <=> sub[x].status # "none"
      BY <1>5, <1>a DEF SweepCommit, DueHasLapsed, TypeOK, Subscription
    <2> QED BY <1>1, <1>5, <2>1 DEF SweepCommit
  <1>6. CASE UNCHANGED <<txn, gateway, sub>>
    BY <1>1, <1>6
  <1> QED BY <1>2, <1>3, <1>4, <1>5, <1>6 DEF Next, vars, Tick, Arrive, SweepRead, AdminSetPlan,
          EraseRead, EraseCommit

\* PayInv is inductive on top of BaseInv when no request brings a stale row.
LEMMA NextPayInv == DemoPays = {} /\ BaseInv /\ PayInv /\ [Next]_vars => PayInv'
  BY HolderStep, PaidStep DEF PayInv

\* Every reachable state satisfies PayInv when all deliveries are callbacks.
THEOREM PayInvariant == ASSUME DemoPays = {} PROVE Spec => []PayInv
  BY InitPayInv, BaseInvariant, NextPayInv, PTL DEF Spec

\* billing.py's critical invariant for callbacks: however many race, crash or
\* repeat, a transaction opens at most one subscription and one invoice.
THEOREM AtMostOneActivation == ASSUME DemoPays = {} PROVE Spec => []ActivatedOnce
  <1>1. PayInv => ActivatedOnce
    BY DEF PayInv
  <1> QED BY <1>1, PayInvariant, PTL

\* ... and exactly one if and only if it is paid.
THEOREM ActivationMatchesPayment == ASSUME DemoPays = {} PROVE Spec => []PaidIffActivated
  <1>1. PayInv => PaidIffActivated
    BY DEF PayInv
  <1> QED BY <1>1, PayInvariant, PTL

\* No transaction is paid that the gateway has not settled, whatever answers of
\* verify_payment were lost on the way.
THEOREM PaidWasSettled == ASSUME DemoPays = {} PROVE Spec => []VerifiedBeforePaid
  <1>1. PayInv => VerifiedBeforePaid
    BY DEF PayInv
  <1> QED BY <1>1, PayInvariant, PTL

-----------------------------------------------------------------------------
(* The ledger: steps of the code are steps of the abstract specification *)

LStep(t, from, to) ==
  /\ LedgerState(txn[t].status) = from
  /\ LedgerState(txn'[t].status) = to
  /\ \A c \in Checkouts : c # t => txn'[c].status = txn[c].status
RowsSame == \A t \in Checkouts : OpenedBy(t)' = OpenedBy(t)

\* How one step moves the statuses and the subscription rows.
LEMMA LedgerMoves ==
  ASSUME BaseInv, PayInv, DemoPays = {}, [Next]_vars
  PROVE  \/ /\ \A t \in Checkouts : LedgerState(txn'[t].status) = LedgerState(txn[t].status)
            /\ RowsSame
         \/ \E t \in Checkouts : /\ \/ LStep(t, "absent", "open") \/ LStep(t, "absent", "closed")
                                    \/ LStep(t, "open", "closed")
                                 /\ RowsSame
         \/ \E t \in Checkouts, r \in Deliveries :
              /\ LStep(t, "open", "paid")
              /\ \A c \in Checkouts : OpenedBy(c)' = IF c = t THEN {r} ELSE OpenedBy(c)
  <1> DEFINE Same == \A t \in Checkouts : LedgerState(txn'[t].status) = LedgerState(txn[t].status)
  <1>a. /\ TypeOK /\ Arrived /\ SubsAreDone /\ SeenIsSuperseded /\ DueHasLapsed
        /\ HolderSeesOpen /\ SubsArePaid
    BY DEF BaseInv, PayInv
  <1>b. \A e \in Deliveries : SessionKept(e)
    BY <1>a, NothingUndone
  <1>c. ASSUME \A x \in Deliveries : sub'[x].status # "none" <=> sub[x].status # "none"
        PROVE  RowsSame
    BY <1>a, <1>b, <1>c DEF RowsSame, OpenedBy, SubsAreDone, SessionKept
  <1>1. ASSUME NEW c \in Checkouts, CheckoutStep(c)
        PROVE  RowsSame /\ \/ Same
                           \/ LStep(c, "absent", "open") \/ LStep(c, "absent", "closed")
    <2>1. UNCHANGED sub
      BY <1>1 DEF CheckoutStep, CheckoutBegin, CheckoutDemo, CheckoutIssued, CheckoutRefused,
         CheckoutLost
    <2>2. \/ Same \/ LStep(c, "absent", "open") \/ LStep(c, "absent", "closed")
      BY <1>1, <1>a DEF CheckoutStep, CheckoutBegin, CheckoutDemo, CheckoutIssued, CheckoutRefused,
         CheckoutLost, LStep, LedgerState, OpenStatuses, TypeOK, Transaction
    <2> QED BY <1>c, <2>1, <2>2
  <1>2. ASSUME NEW d \in Deliveries, Cancel(d) \/ VerifyFail(d)
        PROVE  req[d].txn \in Checkouts /\ LStep(req[d].txn, "open", "closed") /\ RowsSame
    <2>1. req[d].txn \in Checkouts /\ txn[req[d].txn].status \in OpenStatuses
      BY <1>2, <1>a DEF Cancel, VerifyFail, Arrived, HolderSeesOpen
    <2>2. UNCHANGED sub
      BY <1>2 DEF Cancel, VerifyFail
    <2>3. LStep(req[d].txn, "open", "closed")
      BY <1>2, <1>a, <2>1 DEF Cancel, VerifyFail, LStep, LedgerState, OpenStatuses, TypeOK,
         Transaction
    <2> QED BY <1>c, <2>1, <2>2, <2>3
  <1>3. ASSUME NEW d \in Deliveries, Commit(d)
        PROVE  /\ req[d].txn \in Checkouts /\ LStep(req[d].txn, "open", "paid")
               /\ \A c \in Checkouts : OpenedBy(c)' = IF c = req[d].txn THEN {d} ELSE OpenedBy(c)
    <2>1. req[d].txn \in Checkouts /\ txn[req[d].txn].status \in OpenStatuses
      BY <1>3, <1>a DEF Commit, Arrived, HolderSeesOpen
    <2>2. LStep(req[d].txn, "open", "paid")
      BY <1>3, <1>a, <2>1 DEF Commit, LStep, LedgerState, OpenStatuses, TypeOK, Transaction
    <2>3. \A x \in Deliveries : sub'[x].status # "none" <=> x = d \/ sub[x].status # "none"
      <3>1. \A x \in req[d].seen : sub[x].status # "none"
        BY <1>3, <1>a DEF Commit, SeenIsSuperseded
      <3> QED BY <1>3, <3>1, <1>a DEF Commit, TypeOK, Subscription
    <2>4. \A x \in Deliveries : sub[x].status # "none" => req[x].txn # req[d].txn
      BY <1>a, <2>1 DEF SubsArePaid, OpenStatuses
    <2>5. /\ req'[d].txn = req[d].txn
          /\ \A x \in Deliveries : sub[x].status # "none" => req'[x].txn = req[x].txn
      BY <1>3, <1>a, <1>b DEF Commit, SubsAreDone, SessionKept
    <2> QED BY <2>1, <2>2, <2>3, <2>4, <2>5 DEF OpenedBy
  <1>4. ASSUME NEW s \in Sweeps, SweepCommit(s)
        PROVE  Same /\ RowsSame
    <2>1. \A x \in Deliveries : sub'[x].status # "none" <=> sub[x].status # "none"
      BY <1>4, <1>a DEF SweepCommit, DueHasLapsed, TypeOK, Subscription
    <2> QED BY <1>4, <1>c, <2>1 DEF SweepCommit
  <1>5. CASE UNCHANGED <<txn, sub>>
    BY <1>5, <1>c
  <1>6. \/ \E c \in Checkouts : CheckoutStep(c)
        \/ \E d \in Deliveries : Cancel(d) \/ VerifyFail(d) \/ Commit(d)
        \/ \E s \in Sweeps : SweepCommit(s)
        \/ UNCHANGED <<txn, sub>>
    BY DEF Next, vars, Tick, UserPays, Arrive, Handler, LockRow, VerifyOk, Abort, SweepRead,
       AdminSetPlan,
       EraseRead, EraseCommit
  <1> QED BY <1>1, <1>2, <1>3, <1>4, <1>5, <1>6

\* A terminal status is never left.
LEMMA TerminalKept == DemoPays = {} /\ BaseInv /\ PayInv /\ [Next]_vars => TerminalStep
  <1> SUFFICES ASSUME DemoPays = {}, BaseInv, PayInv, [Next]_vars,
                      NEW t \in Checkouts, txn[t].status \in TerminalStatuses
               PROVE  txn'[t].status = txn[t].status
    BY DEF TerminalStep
  <1>a. TypeOK /\ Arrived /\ HolderSeesOpen
    BY DEF BaseInv, PayInv
  <1>1. ASSUME NEW c \in Checkouts, CheckoutStep(c)
        PROVE  txn'[t] = txn[t]
    BY <1>1, <1>a DEF CheckoutStep, CheckoutBegin, CheckoutDemo, CheckoutIssued, CheckoutRefused,
       CheckoutLost, TypeOK, TerminalStatuses
  <1>2. ASSUME NEW d \in Deliveries, Cancel(d) \/ VerifyFail(d) \/ Commit(d)
        PROVE  txn'[t] = txn[t]
    <2>1. txn[req[d].txn].status \in OpenStatuses
      BY <1>2, <1>a DEF Cancel, VerifyFail, Commit, HolderSeesOpen
    <2>2. req[d].txn # t
      BY <2>1 DEF OpenStatuses, TerminalStatuses
    <2> QED BY <1>2, <1>a, <2>2 DEF Cancel, VerifyFail, Commit, TypeOK
  <1> QED BY <1>1, <1>2 DEF Next, vars, Tick, UserPays, Arrive, Handler, LockRow, VerifyOk, Abort,
          SweepRead, SweepCommit, AdminSetPlan,
          EraseRead, EraseCommit

\* models.py's invariant on Transaction.status, for callbacks: once paid (or
\* failed, or cancelled) it never transitions again.
THEOREM TerminalStatusIsFinal == ASSUME DemoPays = {} PROVE Spec => TerminalIsFinal
  BY BaseInvariant, PayInvariant, TerminalKept, PTL DEF Spec, TerminalIsFinal

\* The initial state is the ledger's.
LEMMA LedgerInit == Init => Ledger!Init
  <1> SUFFICES ASSUME Init PROVE Ledger!Init
    OBVIOUS
  <1>1. \A t \in Checkouts : LedgerState(txn[t].status) = "absent"
    BY DEF Init, LedgerState, OpenStatuses
  <1>2. \A t \in Checkouts : OpenedBy(t) = {}
    BY DEF Init, OpenedBy
  <1> QED BY <1>1, <1>2 DEF Ledger!Init

\* Every step of the code is a step of the ledger or leaves it alone.
LEMMA LedgerStep ==
  DemoPays = {} /\ BaseInv /\ PayInv /\ [Next]_vars => [Ledger!Next]_(Ledger!vars)
  <1> SUFFICES ASSUME DemoPays = {}, BaseInv, PayInv, [Next]_vars
               PROVE  [Ledger!Next]_(Ledger!vars)
    OBVIOUS
  <1>1. CASE /\ \A t \in Checkouts : LedgerState(txn'[t].status) = LedgerState(txn[t].status)
             /\ RowsSame
    BY <1>1 DEF Ledger!vars, RowsSame
  <1>2. ASSUME NEW t \in Checkouts, RowsSame, LStep(t, "absent", "open")
        PROVE  Ledger!Open(t)
    BY <1>2 DEF LStep, RowsSame, Ledger!Open
  <1>3. ASSUME NEW t \in Checkouts, RowsSame, LStep(t, "absent", "closed")
        PROVE  Ledger!Refuse(t)
    BY <1>3 DEF LStep, RowsSame, Ledger!Refuse
  <1>4. ASSUME NEW t \in Checkouts, RowsSame, LStep(t, "open", "closed")
        PROVE  Ledger!Close(t)
    BY <1>4 DEF LStep, RowsSame, Ledger!Close
  <1>5. ASSUME NEW t \in Checkouts, NEW r \in Deliveries, LStep(t, "open", "paid"),
               \A c \in Checkouts : OpenedBy(c)' = IF c = t THEN {r} ELSE OpenedBy(c)
        PROVE  Ledger!Pay(t)
    BY <1>5 DEF LStep, Ledger!Pay
  <1> QED BY <1>1, <1>2, <1>3, <1>4, <1>5, LedgerMoves DEF Ledger!Next

\* Without demo-pay requests the payment code implements the ledger.
THEOREM CodeImplementsLedger == ASSUME DemoPays = {} PROVE Spec => ImplementsLedger
  <1>1. Spec => [][Ledger!Next]_(Ledger!vars)
    BY BaseInvariant, PayInvariant, LedgerStep, PTL DEF Spec
  <1> QED BY <1>1, LedgerInit, PTL DEF Spec, Ledger!Spec, ImplementsLedger
=============================================================================
