--------------------------- MODULE SessionsProofs ---------------------------
(***************************************************************************)
(* Theorems about AuthSessions, for all values of its constants.  The last *)
(* two parts are the arithmetic of the bound of LockedInTheEnd, a binomial *)
(* coefficient, and the proof that the failures stay below it.             *)
(***************************************************************************)
EXTENDS AuthSessions, FiniteSetTheorems, WellFoundedInduction, TLAPS

(* The inductive invariant *)

\* replaced_by is written with revoked: who has a child is not live, and was not
\* just thought of.
ParentsAreSpent ==
  \A c \in Tokens : token[c].parent \in Tokens => token[token[c].parent].state \in {"revoked", "erased"}

\* A row not inserted yet has no parent.
FreshRowsHaveNoParent == \A t \in Tokens : token[t].state = "none" => token[t].parent = NoToken

\* What is being exchanged is a token that was presented.
ExchangedExist ==
  \A r \in Requests : req[r].pc \in {"presenting", "rotating", "revoking"} =>
    req[r].token \in Tokens /\ token[req[r].token].state # "none"

\* A login that goes on has not seen a lock that lasts.
LoginsSawNoLock ==
  \A r \in Requests : req[r].pc \in {"failing", "passing"} => req[r].locked # "future"

\* Families are finite whatever the table can hold.
FamiliesAreFinite == \A t \in Tokens : IsFiniteSet(Children(t))

SessionsInv ==
  /\ TypeOK
  /\ ParentsAreSpent
  /\ FreshRowsHaveNoParent
  /\ ExchangedExist
  /\ LoginsSawNoLock
  /\ FamiliesAreFinite
  /\ ExchangedOncePerRequest

-----------------------------------------------------------------------------
(* Type correctness *)

\* The initial state is well typed.
LEMMA InitTypeOK == Init => TypeOK
  <1> SUFFICES ASSUME Init PROVE TypeOK
    OBVIOUS
  <1>1. 0 \in Counts
    BY MaxFailedIsPositive DEF Counts
  <1>2. Idle \in Request
    BY <1>1 DEF Idle, Request, Locks, LinkRows
  <1> QED BY <1>1, <1>2 DEF Init, TypeOK, User, Token, Links, Locks

\* What the steps do to a session, one field or two at a time.
LEMMA RequestTypes ==
  ASSUME TypeOK, NEW r \in Requests
  PROVE  /\ req[r] \in Request /\ Idle \in Request
         /\ \A pc \in {"rotating", "revoking", "replaying", "erasing"} : [req[r] EXCEPT !.pc = pc] \in Request
         /\ \A pc \in {"reusing", "waiting", "deleting"}, rows \in SUBSET Tokens :
              [req[r] EXCEPT !.pc = pc, !.rows = rows] \in Request
         /\ \A t \in Tokens : [req[r] EXCEPT !.pc = "presenting", !.token = t] \in Request
         /\ \A pc \in {"unlinking", "linking"}, row \in LinkRows :
              [req[r] EXCEPT !.pc = pc, !.row = row] \in Request
         /\ \A row \in LinkRows : [req[r] EXCEPT !.row = row] \in Request
         /\ \A pc \in {"failing", "passing"}, failed \in Counts, locked \in Locks :
              [req[r] EXCEPT !.pc = pc, !.failed = failed, !.locked = locked] \in Request
         /\ \A x \in Request : [req EXCEPT ![r] = x] \in [Requests -> Request]
  <1>1. req[r] \in Request /\ req \in [Requests -> Request]
    BY DEF TypeOK
  <1>2. Idle \in Request
    BY MaxFailedIsPositive DEF Idle, Request, Locks, LinkRows, Counts
  <1> QED BY <1>1, <1>2 DEF Request

\* A row is inserted: nobody else's changes.
LEMMA IssueType ==
  ASSUME NEW ts \in [Tokens -> Token], NEW parent \in Tokens \cup {NoToken}, NEW t \in In("none")
  PROVE  /\ t \in Tokens
         /\ Issue(ts, parent, t) \in [Tokens -> Token]
         /\ Issue(ts, parent, t)[t] = [state |-> "live", parent |-> parent]
         /\ \A x \in Tokens \ {t} : Issue(ts, parent, t)[x] = ts[x]
  <1>1. t \in Tokens /\ [state |-> "live", parent |-> parent] \in Token
    BY DEF In, Token
  <1> QED BY <1>1 DEF Issue

\* Login keeps the types: the count is never more than MaxFailed.
LEMMA LoginTypeOK ==
  ASSUME TypeOK, NEW r \in Requests, Login(r)
  PROVE  TypeOK'
  <1>1. /\ user \in User /\ user.failed \in Counts /\ user.locked \in Locks /\ req[r] \in Request
        /\ token \in [Tokens -> Token] /\ tries \in Nat
    BY DEF TypeOK, User
  <1>2. CASE LoginRead(r)
    <2>1. PICK pc \in {"failing", "passing"} :
            req' = [req EXCEPT ![r] = [req[r] EXCEPT !.pc = pc, !.failed = user.failed, !.locked = user.locked]]
      BY <1>1, <1>2 DEF LoginRead, TypeOK
    <2> QED BY <1>1, <1>2, <2>1, RequestTypes DEF LoginRead, TypeOK
  <1>3. CASE LoginFail(r)
    <2>1. Failed(req[r].failed) \in Counts /\ MaxFailed \in Counts
      BY <1>1, MaxFailedIsPositive DEF Failed, Counts, Request
    <2>2. user' \in User /\ tries' \in Nat
      <3>1. \A n \in Counts, l \in Locks : [user EXCEPT !.failed = n, !.locked = l] \in User
        BY <1>1 DEF User
      <3>2. \A n \in Counts : [user EXCEPT !.failed = n] \in User
        BY <1>1 DEF User
      <3>3. "future" \in Locks /\ tries + 1 \in Nat
        BY <1>1 DEF Locks
      <3>4. CASE user' = [user EXCEPT !.failed = MaxFailed, !.locked = "future"] /\ tries' = 0
        BY <2>1, <3>1, <3>3, <3>4
      <3>5. CASE user' = [user EXCEPT !.failed = Failed(req[r].failed)] /\ tries' = tries + 1
        BY <2>1, <3>2, <3>3, <3>5
      <3> QED BY <1>3, <3>4, <3>5 DEF LoginFail
    <2> QED BY <1>1, <1>3, <2>2, RequestTypes DEF LoginFail, End, TypeOK
  <1>4. CASE LoginPass(r)
    <2>1. 0 \in Counts
      BY MaxFailedIsPositive DEF Counts
    <2>2. user' \in User /\ tries' \in Nat
      BY <1>1, <1>4, <2>1 DEF LoginPass, User, Locks
    <2>3. token' \in [Tokens -> Token]
      <3>1. PICK t \in In("none") : token' = Issue(token, NoToken, t)
        BY <1>4 DEF LoginPass
      <3> QED BY <1>1, <3>1, IssueType
    <2> QED BY <1>1, <1>4, <2>2, <2>3, RequestTypes DEF LoginPass, End, TypeOK
  <1> QED BY <1>2, <1>3, <1>4 DEF Login

\* A set of rows is revoked.
LEMMA RevokedType ==
  ASSUME TypeOK, NEW ts
  PROVE  /\ Revoked(ts) \in [Tokens -> Token]
         /\ \A t \in Tokens : /\ Revoked(ts)[t].parent = token[t].parent
                              /\ Revoked(ts)[t].state = IF t \in ts THEN "revoked" ELSE token[t].state
  BY DEF TypeOK, Token, Revoked

\* The rotation of tokens and logout keep the types.
LEMMA RefreshTypeOK ==
  ASSUME TypeOK, NEW r \in Requests, Refresh(r) \/ Logout(r)
  PROVE  TypeOK'
  <1>1. req[r] \in Request /\ Rows \subseteq Tokens /\ In("live") \subseteq Tokens
    BY DEF TypeOK, Rows, In
  <1>2. CASE RefreshRead(r)
    <2>1. CASE Go(r, "replaying")
      <3>1. req' = [req EXCEPT ![r] = [req[r] EXCEPT !.pc = "replaying"]]
        BY <2>1 DEF Go, TypeOK
      <3> QED BY <1>2, <3>1, RequestTypes DEF RefreshRead, TypeOK
    <2>2. ASSUME NEW t \in Rows, Presenting(r, t) PROVE TypeOK'
      <3>1. req' = [req EXCEPT ![r] = [req[r] EXCEPT !.pc = "presenting", !.token = t]]
        BY <2>2 DEF Presenting, TypeOK
      <3> QED BY <1>1, <1>2, <3>1, RequestTypes DEF RefreshRead, TypeOK
    <2> QED BY <1>2, <2>1, <2>2 DEF RefreshRead
  <1>3. CASE RotateRevoke(r)
    <2>1. req' = [req EXCEPT ![r] = [req[r] EXCEPT !.pc = "revoking"]] \/ req' = [req EXCEPT ![r] = Idle]
      BY <1>3 DEF RotateRevoke, Go, End, TypeOK
    <2> QED BY <1>3, <2>1, RequestTypes DEF RotateRevoke, TypeOK
  <1>4. CASE RotateCommit(r)
    <2>1. Revoked({req[r].token}) \in [Tokens -> Token] /\ req[r].token \in Tokens \cup {NoToken}
      BY <1>1, RevokedType DEF Request
    <2>2. token' \in [Tokens -> Token]
      <3>1. PICK t \in In("none") : token' = Issue(Revoked({req[r].token}), req[r].token, t)
        BY <1>4 DEF RotateCommit
      <3> QED BY <2>1, <3>1, IssueType
    <2> QED BY <1>4, <2>2, RequestTypes DEF RotateCommit, End, TypeOK
  <1>5. CASE ReuseCommit(r)
    <2>1. token' \in [Tokens -> Token]
      BY <1>5, RevokedType DEF ReuseCommit, TypeOK
    <2> QED BY <1>5, <2>1, RequestTypes DEF ReuseCommit, End, TypeOK
  <1>6. CASE Logout(r)
    BY <1>6, RevokedType DEF Logout, TypeOK
  <1>7. CASE RefreshUser(r)
    <2>1. req' = [req EXCEPT ![r] = [req[r] EXCEPT !.pc = "rotating"]] \/ req' = [req EXCEPT ![r] = Idle]
      BY <1>7 DEF RefreshUser, Go, End, TypeOK
    <2> QED BY <1>7, <2>1, RequestTypes DEF RefreshUser, TypeOK
  <1>8. CASE ReuseRead(r)
    <2>1. req' = [req EXCEPT ![r] = [req[r] EXCEPT !.pc = "reusing", !.rows = In("live")]]
      BY <1>8 DEF ReuseRead, TypeOK
    <2>2. [req[r] EXCEPT !.pc = "reusing", !.rows = In("live")] \in Request
      BY <1>1, RequestTypes
    <2> QED BY <1>8, <2>1, <2>2, RequestTypes DEF ReuseRead, TypeOK
  <1> QED BY <1>2, <1>3, <1>4, <1>5, <1>6, <1>7, <1>8 DEF Refresh

\* The deletion of the account keeps the types.
LEMMA DeleteAccountTypeOK ==
  ASSUME TypeOK, NEW r \in Requests, DeleteAccount(r)
  PROVE  TypeOK'
  <1>1. /\ req[r] \in Request /\ Rows \subseteq Tokens /\ req[r].rows \subseteq Tokens
        /\ user \in User /\ token \in [Tokens -> Token]
    BY DEF TypeOK, Rows, In, Request
  <1>2. CASE EraseRead(r)
    <2>1. req' = [req EXCEPT ![r] = [req[r] EXCEPT !.pc = "erasing"]]
      BY <1>2 DEF EraseRead, Go, TypeOK
    <2> QED BY <1>2, <2>1, RequestTypes DEF EraseRead, TypeOK
  <1>3. CASE EraseSelect(r)
    <2>1. req' = [req EXCEPT ![r] = [req[r] EXCEPT !.pc = "waiting", !.rows = Rows]]
      BY <1>3 DEF EraseSelect, TypeOK
    <2>2. [req[r] EXCEPT !.pc = "waiting", !.rows = Rows] \in Request
      BY <1>1, RequestTypes
    <2> QED BY <1>3, <2>1, <2>2, RequestTypes DEF EraseSelect, TypeOK
  <1>4. CASE EraseRows(r)
    <2>1. req' = [req EXCEPT ![r] = [req[r] EXCEPT !.pc = "deleting", !.rows = req[r].rows \cap Rows]]
      BY <1>1, <1>4 DEF EraseRows, TypeOK
    <2>2. [req[r] EXCEPT !.pc = "deleting", !.rows = req[r].rows \cap Rows] \in Request
      BY <1>1, RequestTypes
    <2> QED BY <1>4, <2>1, <2>2, RequestTypes DEF EraseRows, TypeOK
  <1>5. CASE EraseLinks(r)
    <2>1. PICK row \in {"found", "none"} :
            req' = [req EXCEPT ![r] = [req[r] EXCEPT !.pc = "unlinking", !.row = row]]
      BY <1>5 DEF EraseLinks, TypeOK
    <2> QED BY <1>5, <2>1, RequestTypes DEF EraseLinks, TypeOK, LinkRows
  <1>6. CASE EraseCommit(r)
    <2>1. token' \in [Tokens -> Token]
      BY <1>1, <1>6 DEF EraseCommit, Token
    <2>2. user' \in User /\ link' \in Links
      BY <1>1, <1>6 DEF EraseCommit, User, TypeOK, Links
    <2>3. req' \in [Requests -> Request]
      <3>1. CASE End(r)
        BY <3>1, RequestTypes DEF End
      <3>2. CASE req' = [x \in Requests |->
                           IF x = r THEN Idle
                           ELSE [req[x] EXCEPT !.row = IF At(x, "linking") /\ @ = "found" THEN "gone" ELSE @]]
        <4>1. ASSUME NEW x \in Requests
              PROVE  [req[x] EXCEPT !.row = IF At(x, "linking") /\ @ = "found" THEN "gone" ELSE @] \in Request
          BY DEF TypeOK, Request, LinkRows
        <4> QED BY <3>2, <4>1, RequestTypes
      <3> QED BY <1>6, <3>1, <3>2 DEF EraseCommit
    <2> QED BY <1>6, <2>1, <2>2, <2>3 DEF EraseCommit, TypeOK
  <1> QED BY <1>2, <1>3, <1>4, <1>5, <1>6 DEF DeleteAccount

\* Every step keeps the types.
LEMMA NextTypeOK == TypeOK /\ [Next]_vars => TypeOK'
  <1> SUFFICES ASSUME TypeOK, [Next]_vars PROVE TypeOK'
    OBVIOUS
  <1>1. ASSUME NEW r \in Requests, Start(r) PROVE TypeOK'
    <2>1. CASE LinkRead(r)
      <3>1. PICK row \in {"none", "own", "found"} :
              req' = [req EXCEPT ![r] = [req[r] EXCEPT !.pc = "linking", !.row = row]]
        <4>1. CASE link = "none"
          BY <2>1, <4>1 DEF LinkRead, TypeOK
        <4>2. CASE link = "mine"
          BY <2>1, <4>2 DEF LinkRead, TypeOK
        <4>3. CASE link = "other"
          BY <2>1, <4>3 DEF LinkRead, TypeOK
        <4> QED BY <4>1, <4>2, <4>3 DEF TypeOK, Links
      <3>2. [req[r] EXCEPT !.pc = "linking", !.row = row] \in Request
        BY RequestTypes DEF LinkRows
      <3> QED BY <2>1, <3>1, <3>2, RequestTypes DEF LinkRead, TypeOK
    <2>2. CASE LinkCommit(r)
      BY <2>2, RequestTypes DEF LinkCommit, End, TypeOK, Links
    <2> QED BY <1>1, <2>1, <2>2 DEF Start
  <1>2. ASSUME NEW r \in Requests, Die(r) PROVE TypeOK'
    BY <1>2, RequestTypes DEF Die, End, TypeOK
  <1>3. CASE LinkOther \/ SetActive \/ LockEnds
    BY <1>3 DEF LinkOther, SetActive, LockEnds, TypeOK, User, Links, Locks
  <1>4. CASE UNCHANGED vars
    BY <1>4 DEF vars, TypeOK
  <1> QED BY <1>1, <1>2, <1>3, <1>4, LoginTypeOK, RefreshTypeOK, DeleteAccountTypeOK DEF Next
-----------------------------------------------------------------------------
(* The invariant *)

\* It holds at the start.
LEMMA InitSessionsInv == Init => SessionsInv
  <1> SUFFICES ASSUME Init PROVE SessionsInv
    OBVIOUS
  <1>1. TypeOK
    BY InitTypeOK
  <1>2. \A t \in Tokens : token[t].state = "none" /\ token[t].parent = NoToken /\ Children(t) = {}
    BY DEF Init, Children
  <1>3. \A r \in Requests : req[r].pc = "idle" /\ req[r].token = NoToken
    <2>1. Idle.pc = "idle" /\ Idle.token = NoToken
      BY DEF Idle
    <2> QED BY <2>1 DEF Init
  <1>4. \A t \in Tokens : Exchanging(t) = {}
    BY <1>3, NoTokenIsNone DEF Exchanging
  <1>5. Cardinality(Requests) \in Nat
    BY RequestsAreFinite, FS_CardinalityType
  <1>6. ParentsAreSpent /\ FreshRowsHaveNoParent
    BY <1>2, NoTokenIsNone DEF ParentsAreSpent, FreshRowsHaveNoParent
  <1>7. ExchangedExist /\ LoginsSawNoLock
    BY <1>3 DEF ExchangedExist, LoginsSawNoLock
  <1>8. FamiliesAreFinite /\ ExchangedOncePerRequest
    <2>1. IsFiniteSet({}) /\ Cardinality({}) = 0
      BY FS_EmptySet
    <2>2. Cardinality({}) + Cardinality({}) <= Cardinality(Requests)
      BY <1>5, <2>1
    <2> QED BY <1>2, <1>4, <2>1, <2>2, Zenon DEF FamiliesAreFinite, ExchangedOncePerRequest
  <1> QED BY <1>1, <1>6, <1>7, <1>8 DEF SessionsInv

\* Requests that exchange a token are requests: there are no more of them.
LEMMA ExchangersAreRequests ==
  ASSUME NEW E \in SUBSET Requests
  PROVE  IsFiniteSet(E) /\ Cardinality(E) \in Nat /\ Cardinality(Requests) \in Nat
         /\ Cardinality(E) <= Cardinality(Requests)
  BY RequestsAreFinite, FS_Subset, FS_CardinalityType

\* A live token has no children: they say that it is spent.
LEMMA LiveHasNoChildren ==
  ASSUME ParentsAreSpent, NEW t \in Tokens, token[t].state \in {"none", "live"}
  PROVE  Children(t) = {}
  BY DEF ParentsAreSpent, Children

\* Exchangers that let go leave the bound as it is.
LEMMA FewerExchangers ==
  ASSUME SessionsInv, NEW t \in Tokens, NEW E \in SUBSET Exchanging(t)
  PROVE  Cardinality(Children(t)) + Cardinality(E) <= Cardinality(Requests)
  <1>1. Cardinality(Children(t)) + Cardinality(Exchanging(t)) <= Cardinality(Requests)
    BY DEF SessionsInv, ExchangedOncePerRequest
  <1>2. IsFiniteSet(Exchanging(t)) /\ Cardinality(Exchanging(t)) \in Nat /\ Cardinality(Requests) \in Nat
    BY ExchangersAreRequests DEF Exchanging
  <1>3. Cardinality(E) <= Cardinality(Exchanging(t)) /\ Cardinality(E) \in Nat
    BY <1>2, FS_Subset, FS_CardinalityType
  <1>4. Cardinality(Children(t)) \in Nat
    BY FS_CardinalityType DEF SessionsInv, FamiliesAreFinite
  <1> QED BY <1>1, <1>2, <1>3, <1>4

\* Every step that issues no token and begins no exchange keeps the invariant:
\* tokens fade, and requests let go of what they exchange.
LEMMA FadingInv ==
  ASSUME SessionsInv, TypeOK', LoginsSawNoLock',
         \A t \in Tokens : /\ token'[t].parent = token[t].parent
                           /\ token'[t].state \in {token[t].state, "revoked", "erased"},
         \A r \in Requests :
            /\ req'[r].token \in {req[r].token, NoToken}
            /\ req'[r].pc \in {"presenting", "rotating", "revoking"} =>
                 req[r].pc \in {"presenting", "rotating", "revoking"} /\ req'[r].token = req[r].token
  PROVE  SessionsInv'
  <1>1. ParentsAreSpent' /\ FreshRowsHaveNoParent'
    BY DEF SessionsInv, ParentsAreSpent, FreshRowsHaveNoParent
  <1>2. ExchangedExist'
    BY DEF SessionsInv, ExchangedExist
  <1>3. ASSUME NEW t \in Tokens
        PROVE  Children(t)' = Children(t) /\ Exchanging(t)' \subseteq Exchanging(t)
    <2>1. \A c \in Tokens : token[c].state = "none" => token[c].parent # t
      BY NoTokenIsNone DEF SessionsInv, FreshRowsHaveNoParent
    <2>2. Children(t)' = Children(t)
      BY <2>1 DEF Children
    <2>3. Exchanging(t)' \subseteq Exchanging(t)
      BY NoTokenIsNone DEF Exchanging
    <2> QED BY <2>2, <2>3
  <1>4. FamiliesAreFinite'
    BY <1>3 DEF SessionsInv, FamiliesAreFinite
  <1>5. ExchangedOncePerRequest'
    <2> SUFFICES ASSUME NEW t \in Tokens
                 PROVE  /\ token'[t].state = "live" => Children(t)' = {}
                        /\ Cardinality(Children(t)') + Cardinality(Exchanging(t)') <= Cardinality(Requests)
      BY DEF ExchangedOncePerRequest
    <2>1. token'[t].state = "live" => Children(t)' = {}
      BY <1>3 DEF SessionsInv, ExchangedOncePerRequest
    <2> QED BY <1>3, <2>1, FewerExchangers
  <1> QED BY <1>1, <1>2, <1>4, <1>5 DEF SessionsInv

\* login keeps it: a lock that lasts turns it away, and a first token has no parent.
LEMMA LoginInv ==
  ASSUME SessionsInv, NEW r \in Requests, Login(r)
  PROVE  SessionsInv'
  <1>1. /\ TypeOK' /\ req \in [Requests -> Request] /\ token \in [Tokens -> Token]
        /\ Idle.pc = "idle" /\ Idle.token = NoToken
    BY LoginTypeOK DEF SessionsInv, TypeOK, Idle
  <1>2. CASE LoginRead(r)
    <2>1. /\ token' = token
          /\ \A x \in Requests : req'[x].token = req[x].token
          /\ \A x \in Requests \ {r} : req'[x] = req[x]
          /\ req'[r].pc \in {"failing", "passing"} /\ req'[r].locked # "future"
      BY <1>1, <1>2 DEF LoginRead, Request
    <2>2. LoginsSawNoLock'
      BY <2>1 DEF SessionsInv, LoginsSawNoLock
    <2> QED BY <1>1, <2>1, <2>2, FadingInv
  <1>3. CASE LoginFail(r)
    <2>1. token' = token /\ req'[r] = Idle /\ \A x \in Requests \ {r} : req'[x] = req[x]
      BY <1>1, <1>3 DEF LoginFail, End
    <2>2. LoginsSawNoLock'
      BY <1>1, <2>1 DEF SessionsInv, LoginsSawNoLock
    <2> QED BY <1>1, <2>1, <2>2, FadingInv
  <1>4. CASE LoginPass(r)
    <2>1. PICK t \in In("none") : token' = Issue(token, NoToken, t)
      BY <1>4 DEF LoginPass
    <2>2. /\ t \in Tokens /\ token[t].state = "none"
          /\ token'[t] = [state |-> "live", parent |-> NoToken]
          /\ \A x \in Tokens \ {t} : token'[x] = token[x]
      BY <1>1, <2>1, IssueType DEF In
    <2>3. req'[r] = Idle /\ \A x \in Requests \ {r} : req'[x] = req[x]
      BY <1>1, <1>4 DEF LoginPass, End
    <2>4. ParentsAreSpent' /\ FreshRowsHaveNoParent'
      BY <2>2, NoTokenIsNone DEF SessionsInv, ParentsAreSpent, FreshRowsHaveNoParent
    <2>5. ExchangedExist' /\ LoginsSawNoLock'
      BY <1>1, <2>2, <2>3 DEF SessionsInv, ExchangedExist, LoginsSawNoLock
    <2>6. ASSUME NEW x \in Tokens PROVE Children(x)' = Children(x) /\ Exchanging(x)' \subseteq Exchanging(x)
      <3>1. token[t].parent = NoToken
        BY <2>2 DEF SessionsInv, FreshRowsHaveNoParent
      <3>2. Children(x)' = Children(x)
        BY <2>2, <3>1, NoTokenIsNone DEF Children
      <3>3. Exchanging(x)' \subseteq Exchanging(x)
        BY <1>1, <2>3, NoTokenIsNone DEF Exchanging
      <3> QED BY <3>2, <3>3
    <2>7. FamiliesAreFinite'
      BY <2>6 DEF SessionsInv, FamiliesAreFinite
    <2>8. ExchangedOncePerRequest'
      <3> SUFFICES ASSUME NEW x \in Tokens
                   PROVE  /\ token'[x].state = "live" => Children(x)' = {}
                          /\ Cardinality(Children(x)') + Cardinality(Exchanging(x)') <= Cardinality(Requests)
        BY DEF ExchangedOncePerRequest
      <3>1. token'[x].state = "live" => token[x].state \in {"none", "live"}
        BY <2>2
      <3>2. token'[x].state = "live" => Children(x)' = {}
        BY <2>6, <3>1, LiveHasNoChildren DEF SessionsInv
      <3> QED BY <2>6, <3>2, FewerExchangers
    <2> QED BY <1>1, <2>4, <2>5, <2>7, <2>8 DEF SessionsInv
  <1> QED BY <1>2, <1>3, <1>4 DEF Login
\* The rotation keeps it: a live token is taken up by any number of requests, and
\* each of them that commits leaves one child instead of itself.
LEMMA RefreshInv ==
  ASSUME SessionsInv, NEW r \in Requests, Refresh(r) \/ Logout(r)
  PROVE  SessionsInv'
  <1>1. /\ TypeOK' /\ req \in [Requests -> Request] /\ token \in [Tokens -> Token]
        /\ Idle.pc = "idle" /\ Idle.token = NoToken
        /\ In("live") \subseteq Rows /\ Rows \subseteq Tokens
    BY RefreshTypeOK DEF SessionsInv, TypeOK, Idle, Rows, In
  <1>2. ASSUME Go(r, "replaying") \/ ReuseRead(r), token' = token PROVE SessionsInv'
    <2>1. /\ req'[r].pc \in {"replaying", "reusing"} /\ req'[r].token = req[r].token
          /\ \A x \in Requests \ {r} : req'[x] = req[x]
      BY <1>1, <1>2 DEF Go, ReuseRead, Request
    <2>2. LoginsSawNoLock'
      BY <2>1 DEF SessionsInv, LoginsSawNoLock
    <2> QED BY <1>1, <1>2, <2>1, <2>2, FadingInv
  <1>3. ASSUME NEW t \in Tokens, token[t].state = "live", Presenting(r, t), token' = token
        PROVE  SessionsInv'
    <2>1. /\ req'[r].pc = "presenting" /\ req'[r].token = t
          /\ \A x \in Requests \ {r} : req'[x] = req[x]
      BY <1>1, <1>3 DEF Presenting, Request
    <2>2. /\ ParentsAreSpent' /\ FreshRowsHaveNoParent' /\ FamiliesAreFinite'
          /\ \A x \in Tokens : Children(x)' = Children(x)
      BY <1>3 DEF SessionsInv, ParentsAreSpent, FreshRowsHaveNoParent, FamiliesAreFinite, Children
    <2>3. ExchangedExist' /\ LoginsSawNoLock'
      BY <1>3, <2>1 DEF SessionsInv, ExchangedExist, LoginsSawNoLock
    <2>4. ExchangedOncePerRequest'
      <3> SUFFICES ASSUME NEW x \in Tokens
                   PROVE  /\ token'[x].state = "live" => Children(x)' = {}
                          /\ Cardinality(Children(x)') + Cardinality(Exchanging(x)') <= Cardinality(Requests)
        BY DEF ExchangedOncePerRequest
      <3>1. token'[x].state = "live" => Children(x)' = {}
        BY <1>3, <2>2 DEF SessionsInv, ExchangedOncePerRequest
      <3>2. CASE x = t
        <4>1. Children(t) = {}
          BY <1>3, LiveHasNoChildren DEF SessionsInv
        <4>2. Exchanging(x)' \in SUBSET Requests
          BY DEF Exchanging
        <4> QED BY <2>2, <3>1, <3>2, <4>1, <4>2, ExchangersAreRequests, FS_EmptySet
      <3>3. CASE x # t
        <4>1. Exchanging(x)' \subseteq Exchanging(x)
          BY <2>1, <3>3 DEF Exchanging
        <4> QED BY <2>2, <3>1, <4>1, FewerExchangers
      <3> QED BY <3>2, <3>3
    <2> QED BY <1>1, <2>2, <2>3, <2>4 DEF SessionsInv
  <1>4. CASE RefreshRead(r)
    BY <1>1, <1>2, <1>3, <1>4 DEF RefreshRead
  <1>5. CASE RotateRevoke(r)
    <2>1. /\ token' = token
          /\ \A x \in Requests \ {r} : req'[x] = req[x]
          /\ \/ req'[r] = Idle
             \/ req[r].pc = "rotating" /\ req'[r].pc = "revoking" /\ req'[r].token = req[r].token
      BY <1>1, <1>5 DEF RotateRevoke, Go, End, At, Request
    <2>2. LoginsSawNoLock'
      BY <1>1, <2>1 DEF SessionsInv, LoginsSawNoLock
    <2> QED BY <1>1, <2>1, <2>2, FadingInv
  <1>6. CASE RotateCommit(r)
    <2>1. PICK p \in Tokens : p = req[r].token /\ token[p].state # "none" /\ p # NoToken
      BY <1>6, NoTokenIsNone DEF RotateCommit, At, SessionsInv, ExchangedExist
    <2>2. PICK t \in In("none") : token' = Issue(Revoked({p}), p, t)
      BY <1>6, <2>1 DEF RotateCommit
    <2>3. t \in Tokens /\ token[t].state = "none" /\ t # p /\ token[t].parent = NoToken
      BY <2>1 DEF In, SessionsInv, FreshRowsHaveNoParent
    <2>4. PICK ts \in [Tokens -> Token] :
            /\ ts = Revoked({p})
            /\ \A x \in Tokens : /\ ts[x].parent = token[x].parent
                                 /\ ts[x].state = IF x = p THEN "revoked" ELSE token[x].state
      BY RevokedType DEF SessionsInv
    <2>5. /\ token'[t] = [state |-> "live", parent |-> p]
          /\ \A x \in Tokens \ {t} : token'[x] = ts[x]
      <3>1. token' = Issue(ts, p, t) /\ p \in Tokens \cup {NoToken}
        BY <2>2, <2>4
      <3> QED BY <3>1, IssueType
    <2>6. /\ token'[t].state = "live" /\ token'[t].parent = p
          /\ token'[p].state = "revoked"
          /\ \A x \in Tokens \ {t} : /\ token'[x].parent = token[x].parent
                                     /\ token'[x].state \in {token[x].state, "revoked"}
                                     /\ x # p => token'[x].state = token[x].state
      <3>1. token'[t].state = "live" /\ token'[t].parent = p
        BY <2>5
      <3>2. \A x \in Tokens \ {t} : /\ token'[x].parent = token[x].parent
                                    /\ token'[x].state = IF x = p THEN "revoked" ELSE token[x].state
        BY <2>4, <2>5
      <3> QED BY <2>1, <2>3, <3>1, <3>2
    <2>7. req'[r] = Idle /\ \A x \in Requests \ {r} : req'[x] = req[x]
      BY <1>1, <1>6 DEF RotateCommit, End
    <2>8. ParentsAreSpent'
      <3> SUFFICES ASSUME NEW c \in Tokens, token'[c].parent \in Tokens
                   PROVE  token'[token'[c].parent].state \in {"revoked", "erased"}
        BY DEF ParentsAreSpent
      <3>1. CASE c = t
        BY <2>1, <2>6, <3>1
      <3>2. CASE c # t
        <4>1. token[token[c].parent].state \in {"revoked", "erased"} /\ token[c].parent \in Tokens
          BY <2>6, <3>2 DEF SessionsInv, ParentsAreSpent
        <4> QED BY <2>3, <2>6, <3>2, <4>1
      <3> QED BY <3>1, <3>2
    <2>9. FreshRowsHaveNoParent'
      BY <2>1, <2>6 DEF SessionsInv, FreshRowsHaveNoParent
    <2>10. ExchangedExist' /\ LoginsSawNoLock'
      BY <1>1, <2>1, <2>6, <2>7 DEF SessionsInv, ExchangedExist, LoginsSawNoLock
    <2>11. Children(p)' = Children(p) \cup {t} /\ t \notin Children(p)
      BY <2>1, <2>3, <2>6 DEF Children
    <2>12. Exchanging(p)' = Exchanging(p) \ {r} /\ r \in Exchanging(p)
      BY <1>1, <2>1, <2>7 DEF Exchanging
    <2>13. \A x \in Tokens \ {p} : Children(x)' = Children(x) /\ Exchanging(x)' \subseteq Exchanging(x)
      <3>1. \A c \in Tokens : token[c].state = "none" => token[c].parent = NoToken
        BY DEF SessionsInv, FreshRowsHaveNoParent
      <3>2. \A x \in Tokens \ {p} : Children(x)' = Children(x)
        BY <2>1, <2>3, <2>6, <3>1, NoTokenIsNone DEF Children
      <3>3. \A x \in Tokens \ {p} : Exchanging(x)' \subseteq Exchanging(x)
        BY <1>1, <2>7, NoTokenIsNone DEF Exchanging
      <3> QED BY <3>2, <3>3
    <2>14. IsFiniteSet(Children(p)) /\ Cardinality(Children(p)) \in Nat
      BY <2>1, FS_CardinalityType DEF SessionsInv, FamiliesAreFinite
    <2>15. IsFiniteSet(Children(p)') /\ Cardinality(Children(p)') = Cardinality(Children(p)) + 1
      BY <2>11, <2>14, FS_AddElement
    <2>16. FamiliesAreFinite'
      BY <2>13, <2>15 DEF SessionsInv, FamiliesAreFinite
    <2>17. /\ Cardinality(Exchanging(p)') = Cardinality(Exchanging(p)) - 1
           /\ Cardinality(Exchanging(p)) \in Nat
      <3>1. IsFiniteSet(Exchanging(p)) /\ Cardinality(Exchanging(p)) \in Nat
        BY ExchangersAreRequests DEF Exchanging
      <3> QED BY <2>12, <3>1, FS_RemoveElement
    <2>18. ExchangedOncePerRequest'
      <3> SUFFICES ASSUME NEW x \in Tokens
                   PROVE  /\ token'[x].state = "live" => Children(x)' = {}
                          /\ Cardinality(Children(x)') + Cardinality(Exchanging(x)') <= Cardinality(Requests)
        BY DEF ExchangedOncePerRequest
      <3>1. CASE x = p
        <4>1. Cardinality(Children(p)) + Cardinality(Exchanging(p)) <= Cardinality(Requests)
          BY <2>1 DEF SessionsInv, ExchangedOncePerRequest
        <4>2. Cardinality(Children(p)') + Cardinality(Exchanging(p)') =
                Cardinality(Children(p)) + Cardinality(Exchanging(p))
          BY <2>14, <2>15, <2>17
        <4> QED BY <2>6, <3>1, <4>1, <4>2
      <3>2. CASE x # p
        <4>1. token'[x].state = "live" => token[x].state \in {"none", "live"}
          BY <2>3, <2>6, <3>2
        <4>2. token'[x].state = "live" => Children(x)' = {}
          BY <2>13, <3>2, <4>1, LiveHasNoChildren DEF SessionsInv
        <4> QED BY <2>13, <3>2, <4>2, FewerExchangers
      <3> QED BY <3>1, <3>2
    <2> QED BY <1>1, <2>8, <2>9, <2>10, <2>16, <2>18 DEF SessionsInv
  <1>7. CASE ReuseCommit(r)
    <2>1. /\ \A t \in Tokens : /\ token'[t].parent = token[t].parent
                               /\ token'[t].state \in {token[t].state, "revoked", "erased"}
          /\ req'[r] = Idle /\ \A x \in Requests \ {r} : req'[x] = req[x]
      BY <1>1, <1>7, RevokedType DEF ReuseCommit, End, SessionsInv
    <2>2. LoginsSawNoLock'
      BY <1>1, <2>1 DEF SessionsInv, LoginsSawNoLock
    <2> QED BY <1>1, <2>1, <2>2, FadingInv
  <1>8. CASE Logout(r)
    <2>1. /\ \A t \in Tokens : /\ token'[t].parent = token[t].parent
                               /\ token'[t].state \in {token[t].state, "revoked", "erased"}
          /\ req' = req
      BY <1>8, RevokedType DEF Logout, SessionsInv
    <2>2. LoginsSawNoLock'
      BY <2>1 DEF SessionsInv, LoginsSawNoLock
    <2> QED BY <1>1, <2>1, <2>2, FadingInv
  <1>9. CASE ReuseRead(r)
    BY <1>2, <1>9 DEF ReuseRead
  <1>10. CASE RefreshUser(r)
    <2>1. /\ token' = token
          /\ \A x \in Requests \ {r} : req'[x] = req[x]
          /\ \/ req'[r] = Idle
             \/ req[r].pc = "presenting" /\ req'[r].pc = "rotating" /\ req'[r].token = req[r].token
      BY <1>1, <1>10 DEF RefreshUser, Go, End, At, Request
    <2>2. LoginsSawNoLock'
      BY <1>1, <2>1 DEF SessionsInv, LoginsSawNoLock
    <2> QED BY <1>1, <2>1, <2>2, FadingInv
  <1> QED BY <1>4, <1>5, <1>6, <1>7, <1>8, <1>9, <1>10 DEF Refresh
\* The deletion of the account moves its own request alone, but for the row that
\* a request about to link has found.
LEMMA EraserMoves ==
  ASSUME TypeOK, NEW r \in Requests, DeleteAccount(r)
  PROVE  /\ \A x \in Requests \ {r} : /\ req'[x].pc = req[x].pc
                                      /\ req'[x].token = req[x].token
                                      /\ req'[x].locked = req[x].locked
         /\ req'[r].pc \in {"idle", "erasing", "waiting", "deleting", "unlinking"}
         /\ req'[r].token \in {req[r].token, NoToken}
  <1>0. req \in [Requests -> Request] /\ Idle.pc = "idle" /\ Idle.token = NoToken
    BY DEF TypeOK, Idle
  <1>1. CASE EraseRead(r) \/ EraseSelect(r) \/ EraseRows(r) \/ EraseLinks(r)
    BY <1>0, <1>1 DEF EraseRead, EraseSelect, EraseRows, EraseLinks, Go, Request
  <1>2. CASE EraseCommit(r)
    <2>1. CASE End(r)
      BY <1>0, <2>1 DEF End
    <2>2. CASE req' = [x \in Requests |->
                         IF x = r THEN Idle
                         ELSE [req[x] EXCEPT !.row = IF At(x, "linking") /\ @ = "found" THEN "gone" ELSE @]]
      <3>1. req'[r] = Idle
        BY <2>2
      <3>2. ASSUME NEW x \in Requests \ {r}
            PROVE  req'[x].pc = req[x].pc /\ req'[x].token = req[x].token /\ req'[x].locked = req[x].locked
        BY <1>0, <2>2 DEF Request
      <3> QED BY <1>0, <3>1, <3>2
    <2> QED BY <1>2, <2>1, <2>2 DEF EraseCommit
  <1> QED BY <1>1, <1>2 DEF DeleteAccount

\* The deletion of the account keeps it: its tokens are erased, none comes back.
LEMMA DeleteAccountInv ==
  ASSUME SessionsInv, NEW r \in Requests, DeleteAccount(r)
  PROVE  SessionsInv'
  <1>1. /\ TypeOK' /\ req \in [Requests -> Request] /\ token \in [Tokens -> Token]
        /\ Idle.pc = "idle" /\ Idle.token = NoToken
    BY DeleteAccountTypeOK DEF SessionsInv, TypeOK, Idle
  <1>2. \A t \in Tokens : /\ token'[t].parent = token[t].parent
                          /\ token'[t].state \in {token[t].state, "revoked", "erased"}
    <2>1. CASE EraseCommit(r)
      BY <1>1, <2>1 DEF EraseCommit, Token
    <2>2. CASE token' = token
      BY <2>2
    <2> QED BY <2>1, <2>2 DEF DeleteAccount, EraseRead, EraseSelect, EraseRows, EraseLinks
  <1>3. /\ \A x \in Requests \ {r} : /\ req'[x].pc = req[x].pc
                                     /\ req'[x].token = req[x].token
                                     /\ req'[x].locked = req[x].locked
        /\ req'[r].pc \in {"idle", "erasing", "waiting", "deleting", "unlinking"}
        /\ req'[r].token \in {req[r].token, NoToken}
    BY EraserMoves DEF SessionsInv
  <1>4. LoginsSawNoLock'
    BY <1>3 DEF SessionsInv, LoginsSawNoLock
  <1> QED BY <1>1, <1>2, <1>3, <1>4, FadingInv

\* Every step keeps it.
LEMMA NextSessionsInv == SessionsInv /\ [Next]_vars => SessionsInv'
  <1> SUFFICES ASSUME SessionsInv, [Next]_vars PROVE SessionsInv'
    OBVIOUS
  <1>1. /\ TypeOK' /\ req \in [Requests -> Request] /\ token \in [Tokens -> Token]
        /\ Idle.pc = "idle" /\ Idle.token = NoToken
    BY NextTypeOK DEF SessionsInv, TypeOK, Idle
  <1>2. ASSUME NEW r \in Requests, Start(r) \/ Die(r) PROVE SessionsInv'
    <2>1. /\ token' = token
          /\ \A x \in Requests \ {r} : req'[x] = req[x]
          /\ req'[r].pc \in {"idle", "linking"}
          /\ req'[r].token \in {req[r].token, NoToken}
      BY <1>1, <1>2 DEF Start, LinkRead, LinkCommit, Die, End, Request
    <2>2. LoginsSawNoLock'
      BY <2>1 DEF SessionsInv, LoginsSawNoLock
    <2> QED BY <1>1, <2>1, <2>2, FadingInv
  <1>3. CASE LinkOther \/ SetActive \/ LockEnds \/ UNCHANGED vars
    <2>1. token' = token /\ req' = req
      BY <1>3 DEF LinkOther, SetActive, LockEnds, vars
    <2>2. LoginsSawNoLock'
      BY <2>1 DEF SessionsInv, LoginsSawNoLock
    <2> QED BY <1>1, <2>1, <2>2, FadingInv
  <1> QED BY <1>2, <1>3, LoginInv, RefreshInv, DeleteAccountInv DEF Next

\* The sessions of an account keep their invariant, for any number of tokens and
\* of requests at a time.
THEOREM SessionsInvariant == Spec => []SessionsInv
  <1>1. Init => SessionsInv
    BY InitSessionsInv
  <1>2. SessionsInv /\ [Next]_vars => SessionsInv'
    BY NextSessionsInv
  <1> QED BY <1>1, <1>2, PTL DEF Spec

\* Type correctness.
THEOREM SessionsTypeCorrect == Spec => []TypeOK
  <1>1. SessionsInv => TypeOK
    BY DEF SessionsInv
  <1> QED BY <1>1, SessionsInvariant, PTL

\* refresh: a token that can still be presented has not been exchanged, and one
\* token is exchanged by at most as many requests as may be at work at one time.
THEOREM ExchangedOnce == Spec => []ExchangedOncePerRequest
  <1>1. SessionsInv => ExchangedOncePerRequest
    BY DEF SessionsInv
  <1> QED BY <1>1, SessionsInvariant, PTL

\* What a step may do to a lock (login), whatever it is that the step does.
LEMMA LockStep ==
  ASSUME SessionsInv, [Next]_vars, user.locked = "future", user'.locked \notin {"future", "past"}
  PROVE  \E r \in Requests : At(r, "passing") /\ req[r].locked = "past"
  <1>1. user \in User
    BY DEF SessionsInv, TypeOK
  <1>2. PICK r \in Requests : LoginPass(r)
    <2>1. ASSUME NEW r \in Requests, LoginFail(r) PROVE FALSE
      BY <1>1, <2>1 DEF LoginFail, User
    <2>2. ASSUME NEW r \in Requests, EraseCommit(r) PROVE FALSE
      BY <1>1, <2>2 DEF EraseCommit, User
    <2>3. ~SetActive /\ ~LockEnds
      BY <1>1 DEF SetActive, LockEnds, User
    <2>4. user' # user
      OBVIOUS
    <2> QED BY <2>1, <2>2, <2>3, <2>4
            DEF Next, vars, Login, LoginRead, Refresh, RefreshRead, RefreshUser, ReuseRead, RotateRevoke,
                RotateCommit, ReuseCommit, Logout, DeleteAccount, EraseRead, EraseSelect, EraseRows, EraseLinks, Die, Start, LinkRead,
                LinkCommit, LinkOther
  <1>3. At(r, "passing") /\ req[r].locked # "null"
    BY <1>1, <1>2 DEF LoginPass, User
  <1>4. req[r].locked # "future" /\ req[r].locked \in Locks
    BY <1>3 DEF SessionsInv, LoginsSawNoLock, At, TypeOK, Request
  <1> QED BY <1>3, <1>4 DEF Locks

\* A lock is taken off before its time only by a login that had read an earlier,
\* ended lock (login).
THEOREM LockOutlives == Spec => LockOutlivesOlderLogins
  <1>1. SessionsInv /\ [Next]_vars =>
          [user.locked = "future" /\ user'.locked \notin {"future", "past"} =>
             \E r \in Requests : At(r, "passing") /\ req[r].locked = "past"]_vars
    BY LockStep
  <1> QED BY <1>1, SessionsInvariant, PTL DEF Spec, LockOutlivesOlderLogins

\* Who begins to issue a token has seen an active or an undeleted account, and who
\* begins to link has seen an undeleted one.
LEMMA ClosedStep ==
  ASSUME SessionsInv, [Next]_vars, user.deleted
  PROVE  /\ ~user.active => Issuing' \subseteq Issuing
         /\ Linking' \subseteq Linking
  <1>1. req \in [Requests -> Request] /\ Idle.pc = "idle"
    BY DEF SessionsInv, TypeOK, Idle
  <1>2. ASSUME NEW r \in Requests, Login(r) \/ Refresh(r) \/ Logout(r) \/ Start(r) \/ Die(r)
        PROVE  /\ \A x \in Requests \ {r} : req'[x] = req[x]
               /\ req'[r].pc # "linking"
               /\ ~user.active /\ req'[r].pc \in {"passing", "rotating", "revoking"} =>
                    req[r].pc \in {"passing", "rotating", "revoking"}
    <2>1. CASE Login(r)
      BY <1>1, <2>1 DEF Login, LoginRead, LoginFail, LoginPass, End
    <2>2. CASE Refresh(r) \/ Logout(r)
      BY <1>1, <2>2 DEF Refresh, RefreshRead, RefreshUser, ReuseRead, Presenting, RotateRevoke,
                        RotateCommit, ReuseCommit,
                        Logout, Go, End, At, Request
    <2>3. CASE Start(r) \/ Die(r)
      BY <1>1, <2>3 DEF Start, LinkRead, LinkCommit, Die, End
    <2> QED BY <1>2, <2>1, <2>2, <2>3
  <1>3. ASSUME NEW r \in Requests, DeleteAccount(r)
        PROVE  \A x \in Requests : /\ req'[x].pc = "linking" => req[x].pc = "linking"
                                   /\ req'[x].pc \in {"passing", "rotating", "revoking"} =>
                                        req[x].pc \in {"passing", "rotating", "revoking"}
    BY <1>3, EraserMoves DEF SessionsInv
  <1>4. CASE UNCHANGED req
    BY <1>4 DEF Issuing, Linking, At
  <1>5. LinkOther \/ SetActive \/ LockEnds \/ UNCHANGED vars => UNCHANGED req
    BY DEF LinkOther, SetActive, LockEnds, vars
  <1>6. ASSUME NEW r \in Requests, Login(r) \/ Refresh(r) \/ Logout(r) \/ Start(r) \/ Die(r)
        PROVE  (~user.active => Issuing' \subseteq Issuing) /\ Linking' \subseteq Linking
    BY <1>2, <1>6 DEF Issuing, Linking, At
  <1>7. ASSUME NEW r \in Requests, DeleteAccount(r)
        PROVE  (~user.active => Issuing' \subseteq Issuing) /\ Linking' \subseteq Linking
    BY <1>3, <1>7 DEF Issuing, Linking, At
  <1> QED BY <1>4, <1>5, <1>6, <1>7 DEF Next

\* While a deleted account is not switched on again nobody begins a session for
\* it, and the bot never begins to link it (login, refresh, eitaa_webhook).
THEOREM DeletedStays == Spec => DeletedStaysClosed
  <1>1. SessionsInv /\ [Next]_vars =>
          [/\ user.deleted /\ ~user.active => Issuing' \subseteq Issuing
           /\ user.deleted => Linking' \subseteq Linking]_vars
    BY ClosedStep
  <1> QED BY <1>1, SessionsInvariant, PTL DEF Spec, DeletedStaysClosed

-----------------------------------------------------------------------------
(* Binomial coefficients *)

\* A set of naturals has a least element, which serves for induction.
LEMMA LeastOf ==
  ASSUME NEW T \in SUBSET Nat, T # {}
  PROVE  \E n \in T : \A m \in T : n <= m
  <1> DEFINE R == {ss \in Nat \X Nat : ss[1] < ss[2]}
  <1>1. IsWellFoundedOn(R, Nat)
    BY NatLessThanWellFounded DEF OpToRel
  <1> HIDE DEF R
  <1>2. PICK n \in T : \A m \in T : ~(<<m, n>> \in R)
    BY <1>1, WFMin
  <1>3. \A m \in T : ~(m < n)
    BY <1>2 DEF R
  <1> QED BY <1>2, <1>3

\* The factorials up to n.
Begins(g, n) == /\ g \in [0..n -> Nat] /\ g[0] = 1
                /\ \A i \in 1..n : g[i] = i * g[i - 1]

LEMMA FactorialsBegin == \A n \in Nat : \E g : Begins(g, n)
  <1> DEFINE Bad == {n \in Nat : ~\E g : Begins(g, n)}
  <1> SUFFICES ASSUME Bad # {} PROVE FALSE
    OBVIOUS
  <1>1. PICK n \in Bad : \A m \in Bad : n <= m
    <2> HIDE DEF Bad
    <2>1. Bad \in SUBSET Nat
      BY DEF Bad
    <2> QED BY <2>1, LeastOf
  <1>2. CASE n = 0
    <2>1. Begins([i \in 0..0 |-> 1], 0)
      BY DEF Begins
    <2> QED BY <1>1, <1>2, <2>1
  <1>3. CASE n # 0
    <2>1. n \in Nat /\ n - 1 \in Nat /\ ~(n <= n - 1)
      BY <1>1, <1>3
    <2>2. PICK g : Begins(g, n - 1)
      BY <1>1, <2>1
    <2> DEFINE h == [i \in 0..n |-> IF i = n THEN n * g[n - 1] ELSE g[i]]
    <2>3. \A i \in 0..n - 1 : g[i] \in Nat
      BY <2>2 DEF Begins
    <2>4. h \in [0..n -> Nat]
      <3>1. \A i \in 0..n : i = n \/ i \in 0..n - 1
        BY <2>1
      <3>2. n * g[n - 1] \in Nat
        BY <2>1, <2>3
      <3> QED BY <2>3, <3>1, <3>2
    <2>5. h[0] = 1
      BY <1>3, <2>1, <2>2 DEF Begins
    <2>6. \A i \in 1..n : h[i] = i * h[i - 1]
      <3> SUFFICES ASSUME NEW i \in 1..n PROVE h[i] = i * h[i - 1]
        OBVIOUS
      <3>1. i \in 0..n /\ i - 1 \in 0..n /\ i - 1 # n /\ h[i - 1] = g[i - 1]
        BY <2>1
      <3>2. CASE i = n
        BY <3>1, <3>2
      <3>3. CASE i # n
        <4>1. i \in 1..n - 1
          BY <2>1, <3>3
        <4> QED BY <2>2, <3>1, <3>3, <4>1 DEF Begins
      <3> QED BY <3>2, <3>3
    <2> HIDE DEF h
    <2>7. Begins(h, n)
      BY <2>4, <2>5, <2>6 DEF Begins
    <2> QED BY <1>1, <2>7
  <1> QED BY <1>2, <1>3

LEMMA FactorialsAgree ==
  ASSUME NEW m \in Nat, NEW n \in Nat, m <= n, NEW g, Begins(g, m), NEW h, Begins(h, n)
  PROVE  \A i \in 0..m : g[i] = h[i]
  <1> DEFINE Bad == {i \in 0..m : g[i] # h[i]}
  <1> SUFFICES ASSUME Bad # {} PROVE FALSE
    OBVIOUS
  <1>1. PICK i \in Bad : \A j \in Bad : i <= j
    <2>1. Bad \in SUBSET Nat
      OBVIOUS
    <2> HIDE DEF Bad
    <2> QED BY <2>1, LeastOf
  <1>2. i # 0
    BY <1>1 DEF Begins
  <1>3. i \in 1..m /\ i \in 1..n /\ i - 1 \in 0..m /\ ~(i <= i - 1)
    BY <1>1, <1>2
  <1>4. g[i - 1] = h[i - 1]
    BY <1>1, <1>3
  <1>5. g[i] = i * g[i - 1] /\ h[i] = i * h[i - 1]
    BY <1>3 DEF Begins
  <1> QED BY <1>1, <1>4, <1>5

\* factorial is what its definition says.
LEMMA FactorialIs == /\ factorial[0] = 1
                     /\ \A n \in Nat : factorial[n + 1] = (n + 1) * factorial[n]
                     /\ \A n \in Nat : factorial[n] \in Nat /\ factorial[n] > 0
  <1> DEFINE g(n) == CHOOSE h : Begins(h, n)
             f == [n \in Nat |-> g(n)[n]]
  <1>1. \A n \in Nat : Begins(g(n), n)
    BY FactorialsBegin
  <1> HIDE DEF g
  <1>2. f[0] = 1
    BY <1>1 DEF Begins
  <1>3. \A n \in Nat \ {0} : f[n] = n * f[n - 1]
    <2> SUFFICES ASSUME NEW n \in Nat \ {0} PROVE f[n] = n * f[n - 1]
      OBVIOUS
    <2>1. n \in Nat /\ n - 1 \in Nat /\ n - 1 <= n /\ n \in 1..n /\ n - 1 \in 0..n - 1
      OBVIOUS
    <2>2. g(n)[n] = n * g(n)[n - 1]
      BY <1>1, <2>1 DEF Begins
    <2>3. Begins(g(n), n) /\ Begins(g(n - 1), n - 1)
      BY <1>1, <2>1
    <2>4. g(n - 1)[n - 1] = g(n)[n - 1]
      BY <2>1, <2>3, FactorialsAgree
    <2> QED BY <2>1, <2>2, <2>4
  <1>4. \A n \in Nat : f[n] = IF n = 0 THEN 1 ELSE n * f[n - 1]
    BY <1>2, <1>3
  <1>5. f = [n \in Nat |-> IF n = 0 THEN 1 ELSE n * f[n - 1]]
    <2> DEFINE e == [n \in Nat |-> IF n = 0 THEN 1 ELSE n * f[n - 1]]
    <2>1. \A n \in Nat : e[n] = f[n]
      BY <1>4
    <2>2. f = [n \in Nat |-> f[n]] /\ e = [n \in Nat |-> e[n]]
      OBVIOUS
    <2> HIDE DEF f, e
    <2>3. f = e
      BY <2>1, <2>2
    <2> QED BY <2>3 DEF e
  <1> HIDE DEF f
  <1>6. factorial = [n \in Nat |-> IF n = 0 THEN 1 ELSE n * factorial[n - 1]]
    BY <1>5 DEF factorial
  <1>7. /\ factorial[0] = 1
        /\ \A n \in Nat : factorial[n + 1] = (n + 1) * factorial[n]
    <2>1. \A n \in Nat : factorial[n] = IF n = 0 THEN 1 ELSE n * factorial[n - 1]
      BY <1>6
    <2>2. \A n \in Nat : n + 1 \in Nat /\ n + 1 # 0 /\ (n + 1) - 1 = n
      OBVIOUS
    <2> QED BY <2>1, <2>2
  <1>8. \A n \in Nat : factorial[n] \in Nat /\ factorial[n] > 0
    <2> DEFINE Bad == {n \in Nat : ~(factorial[n] \in Nat /\ factorial[n] > 0)}
    <2> SUFFICES ASSUME Bad # {} PROVE FALSE
      OBVIOUS
    <2>1. PICK n \in Bad : \A m \in Bad : n <= m
      <3>1. Bad \in SUBSET Nat
        OBVIOUS
      <3> HIDE DEF Bad
      <3> QED BY <3>1, LeastOf
    <2>2. n # 0
      BY <1>7, <2>1
    <2>3. n - 1 \in Nat /\ ~(n <= n - 1) /\ (n - 1) + 1 = n
      BY <2>1, <2>2
    <2>4. factorial[n - 1] \in Nat /\ factorial[n - 1] > 0
      BY <2>1, <2>3
    <2>5. factorial[n] = n * factorial[n - 1]
      BY <1>7, <2>3
    <2>6. n * factorial[n - 1] \in Nat /\ n * factorial[n - 1] > 0
      BY <2>3, <2>4
    <2> QED BY <2>1, <2>5, <2>6
  <1> QED BY <1>7, <1>8

\* The choices of a out of m + a.
Paths(m, a) == choose(m + a, a)

\* The quotient in choose leaves no remainder.
Divides(m, a) == \E b \in Nat : factorial[m + a] = b * (factorial[a] * factorial[m])

LEMMA PathsIs ==
  ASSUME NEW m \in Nat, NEW a \in Nat, NEW b \in Nat,
         factorial[m + a] = b * (factorial[a] * factorial[m])
  PROVE  Paths(m, a) = b
  <1>1. m + a \in Nat /\ (m + a) - a = m
    OBVIOUS
  <1>2. /\ factorial[m] \in Nat /\ factorial[m] > 0
        /\ factorial[a] \in Nat /\ factorial[a] > 0
    BY FactorialIs
  <1> DEFINE d == factorial[a] * factorial[m]
  <1>3. d \in Nat /\ d > 0
    BY <1>2
  <1>4. Paths(m, a) = (b * d) \div d
    BY <1>1 DEF Paths, choose
  <1> HIDE DEF d
  <1>5. (b * d) \div d = b
    BY <1>3
  <1> QED BY <1>4, <1>5

\* Pascal's rule, on the numerators.
LEMMA Sums ==
  ASSUME NEW m \in Nat \ {0}, NEW a \in Nat, NEW b \in Nat, NEW c \in Nat,
         factorial[(m - 1) + (a + 1)] = b * (factorial[a + 1] * factorial[m - 1]),
         factorial[m + a] = c * (factorial[a] * factorial[m])
  PROVE  factorial[m + (a + 1)] = (b + c) * (factorial[a + 1] * factorial[m])
  <1> DEFINE F(n) == factorial[n]
  <1>1. /\ m - 1 \in Nat /\ m + a \in Nat /\ (m - 1) + 1 = m
        /\ (m - 1) + (a + 1) = m + a /\ m + (a + 1) = (m + a) + 1
    OBVIOUS
  <1>2. /\ F(m) = m * F(m - 1) /\ F(a + 1) = (a + 1) * F(a)
        /\ F((m + a) + 1) = ((m + a) + 1) * F(m + a)
    BY <1>1, FactorialIs
  <1>3. F(m) \in Nat /\ F(m - 1) \in Nat /\ F(a) \in Nat /\ F(a + 1) \in Nat /\ F(m + a) \in Nat
    BY <1>1, FactorialIs
  <1>4. F(m + a) = b * (F(a + 1) * F(m - 1)) /\ F(m + a) = c * (F(a) * F(m))
    BY <1>1
  <1> HIDE DEF F
  <1>5. m * F(m + a) = b * (F(a + 1) * F(m))
    <2>1. m * F(m + a) = b * (F(a + 1) * (m * F(m - 1)))
      BY <1>1, <1>3, <1>4
    <2> QED BY <1>2, <2>1
  <1>6. (a + 1) * F(m + a) = c * (F(a + 1) * F(m))
    <2>1. (a + 1) * F(m + a) = c * (((a + 1) * F(a)) * F(m))
      BY <1>1, <1>3, <1>4
    <2> QED BY <1>2, <2>1
  <1>7. F((m + a) + 1) = m * F(m + a) + (a + 1) * F(m + a)
    BY <1>1, <1>2, <1>3
  <1>8. F((m + a) + 1) = (b + c) * (F(a + 1) * F(m))
    BY <1>3, <1>5, <1>6, <1>7
  <1> QED BY <1>1, <1>8 DEF F

\* Where one of the two is zero there is one way.
LEMMA Edges == ASSUME NEW n \in Nat
               PROVE  /\ factorial[n + 0] = 1 * (factorial[0] * factorial[n])
                      /\ factorial[0 + n] = 1 * (factorial[n] * factorial[0])
  <1>1. factorial[0] = 1 /\ factorial[n] \in Nat /\ n + 0 = n /\ 0 + n = n
    BY FactorialIs
  <1> QED BY <1>1

LEMMA AlwaysDivides == \A n \in Nat : \A m, a \in Nat : m + a = n => Divides(m, a)
  <1> DEFINE Bad == {n \in Nat : ~\A m, a \in Nat : m + a = n => Divides(m, a)}
  <1> SUFFICES ASSUME Bad # {} PROVE FALSE
    OBVIOUS
  <1>1. PICK n \in Bad : \A m \in Bad : n <= m
    <2>1. Bad \in SUBSET Nat
      OBVIOUS
    <2> HIDE DEF Bad
    <2> QED BY <2>1, LeastOf
  <1>2. PICK m \in Nat, a \in Nat : m + a = n /\ ~Divides(m, a)
    BY <1>1
  <1>3. m # 0 /\ a # 0
    <2>1. Divides(m, 0) /\ Divides(0, a)
      BY Edges DEF Divides
    <2> QED BY <1>2, <2>1
  <1>4. /\ m - 1 \in Nat /\ a - 1 \in Nat /\ (a - 1) + 1 = a
        /\ (m - 1) + a = n - 1 /\ m + (a - 1) = n - 1 /\ n - 1 \in Nat /\ ~(n <= n - 1)
    BY <1>2, <1>3
  <1>5. n - 1 \notin Bad
    BY <1>1, <1>4
  <1>6. Divides(m - 1, a) /\ Divides(m, a - 1)
    BY <1>4, <1>5
  <1>7. PICK b \in Nat : factorial[(m - 1) + a] = b * (factorial[a] * factorial[m - 1])
    BY <1>6 DEF Divides
  <1>8. PICK c \in Nat : factorial[m + (a - 1)] = c * (factorial[a - 1] * factorial[m])
    BY <1>6 DEF Divides
  <1>9. factorial[m + a] = (b + c) * (factorial[a] * factorial[m])
    BY <1>3, <1>4, <1>7, <1>8, Sums
  <1> QED BY <1>2, <1>9 DEF Divides

\* Pascal's rule for choose.
LEMMA Pascal ==
  /\ \A m, a \in Nat : Paths(m, a) \in Nat
  /\ \A n \in Nat : Paths(n, 0) = 1 /\ Paths(0, n) = 1
  /\ \A m \in Nat \ {0}, a \in Nat : Paths(m, a + 1) = Paths(m - 1, a + 1) + Paths(m, a)
  <1>1. \A m, a \in Nat : \E b \in Nat : /\ factorial[m + a] = b * (factorial[a] * factorial[m])
                                         /\ Paths(m, a) = b
    <2> SUFFICES ASSUME NEW m \in Nat, NEW a \in Nat
                 PROVE  \E b \in Nat : /\ factorial[m + a] = b * (factorial[a] * factorial[m])
                                       /\ Paths(m, a) = b
      OBVIOUS
    <2>1. m + a \in Nat
      OBVIOUS
    <2>2. PICK b \in Nat : factorial[m + a] = b * (factorial[a] * factorial[m])
      BY <2>1, AlwaysDivides DEF Divides
    <2> QED BY <2>2, PathsIs
  <1>2. \A n \in Nat : Paths(n, 0) = 1 /\ Paths(0, n) = 1
    BY Edges, PathsIs
  <1>3. ASSUME NEW m \in Nat \ {0}, NEW a \in Nat
        PROVE  Paths(m, a + 1) = Paths(m - 1, a + 1) + Paths(m, a)
    <2>1. m \in Nat /\ m - 1 \in Nat /\ a + 1 \in Nat
      OBVIOUS
    <2>2. PICK b \in Nat : /\ factorial[(m - 1) + (a + 1)] = b * (factorial[a + 1] * factorial[m - 1])
                           /\ Paths(m - 1, a + 1) = b
      BY <1>1, <2>1
    <2>3. PICK c \in Nat : /\ factorial[m + a] = c * (factorial[a] * factorial[m])
                           /\ Paths(m, a) = c
      BY <1>1, <2>1
    <2>4. factorial[m + (a + 1)] = (b + c) * (factorial[a + 1] * factorial[m])
      BY <2>2, <2>3, Sums
    <2>5. Paths(m, a + 1) = b + c
      BY <2>1, <2>4, PathsIs
    <2> QED BY <2>2, <2>3, <2>5
  <1> QED BY <1>1, <1>2, <1>3

\* A part of a finite set that leaves something out is smaller.
LEMMA FewerIn ==
  ASSUME NEW T, IsFiniteSet(T), NEW S \in SUBSET T, NEW x \in T, x \notin S
  PROVE  Cardinality(S) < Cardinality(T)
  <1>1. Cardinality(S) <= Cardinality(T) /\ Cardinality(S) # Cardinality(T)
    BY FS_Subset
  <1>2. Cardinality(S) \in Nat /\ Cardinality(T) \in Nat
    BY FS_Subset, FS_CardinalityType
  <1> QED BY <1>1, <1>2

-----------------------------------------------------------------------------
(* How many failures a lock may take *)

\* The count that a request will add one to when it fails: what it has read, or
\* what it would read now if that is less.
Reads(r) == IF At(r, "failing") /\ req[r].failed < user.failed THEN req[r].failed ELSE user.failed

AtLeast(v) == {r \in Requests : Reads(r) >= v}

\* The failures that the a requests at v or above may have taken to get from below v
\* to v, if they went one after the other, each time all the others first.
Gain(v, a) == Paths(MaxFailed - v, a) - Paths(MaxFailed - v - 1, a)

\* w sums the gains up, or less than that.
Ladder(w) == /\ w[0] = 0
             /\ \A v \in 1..MaxFailed - 1 : w[v] <= w[v - 1] + Gain(v, Cardinality(AtLeast(v)))

FailuresClimb == \E w \in [0..MaxFailed - 1 -> Nat] : Ladder(w) /\ tries <= w[MaxFailed - 1]

\* One more request at v or above gains at least as much.
LEMMA GainOfOneMore ==
  ASSUME NEW v \in 1..MaxFailed - 1, NEW a \in Nat
  PROVE  /\ Gain(v, a) \in Nat /\ Gain(v, a + 1) \in Nat
         /\ Gain(v, a + 1) = Paths(MaxFailed - v, a)
         /\ Gain(v, a) <= Gain(v, a + 1)
  <1> DEFINE m == MaxFailed - v
  <1>1. m \in Nat \ {0} /\ m \in Nat /\ m - 1 \in Nat /\ MaxFailed - v - 1 = m - 1
    BY MaxFailedIsPositive
  <1> HIDE DEF m
  <1>2. /\ Paths(m, a) \in Nat /\ Paths(m - 1, a) \in Nat
        /\ Paths(m - 1, a + 1) \in Nat /\ Paths(m, a + 1) \in Nat
    <2>1. a + 1 \in Nat
      OBVIOUS
    <2>2. \A k, n \in Nat : Paths(k, n) \in Nat
      BY Pascal
    <2> QED BY <1>1, <2>1, <2>2
  <1>3. Paths(m, a + 1) = Paths(m - 1, a + 1) + Paths(m, a)
    BY <1>1, Pascal
  <1>4. /\ Gain(v, a) = Paths(m, a) - Paths(m - 1, a)
        /\ Gain(v, a + 1) = Paths(m, a + 1) - Paths(m - 1, a + 1)
    BY <1>1 DEF Gain, m
  <1>5. Gain(v, a + 1) = Paths(m, a)
    BY <1>2, <1>3, <1>4
  <1>6. CASE a = 0
    <2>1. Paths(m, a) = 1 /\ Paths(m - 1, a) = 1
      BY <1>1, <1>6, Pascal
    <2> QED BY <1>2, <1>4, <1>5, <2>1 DEF m
  <1>7. CASE a # 0
    <2>1. a - 1 \in Nat /\ (a - 1) + 1 = a
      BY <1>7
    <2>2. Paths(m, (a - 1) + 1) = Paths(m - 1, (a - 1) + 1) + Paths(m, a - 1)
      BY <1>1, <2>1, Pascal
    <2>3. Paths(m, a - 1) \in Nat
      BY <1>1, <2>1, Pascal
    <2> QED BY <1>2, <1>4, <1>5, <2>1, <2>2, <2>3 DEF m
  <1> QED BY <1>6, <1>7

LEMMA GainGrows ==
  ASSUME NEW v \in 1..MaxFailed - 1, NEW a \in Nat, NEW b \in Nat, a <= b
  PROVE  Gain(v, a) \in Nat /\ Gain(v, b) \in Nat /\ Gain(v, a) <= Gain(v, b)
  <1> DEFINE Bad == {n \in Nat : a <= n /\ ~(Gain(v, a) <= Gain(v, n))}
  <1>1. \A n \in Nat : Gain(v, n) \in Nat
    BY GainOfOneMore
  <1> SUFFICES ASSUME Bad # {} PROVE FALSE
    BY <1>1
  <1>2. PICK n \in Bad : \A m \in Bad : n <= m
    <2>1. Bad \in SUBSET Nat
      OBVIOUS
    <2> HIDE DEF Bad
    <2> QED BY <2>1, LeastOf
  <1>3. n # a
    BY <1>1, <1>2
  <1>4. n - 1 \in Nat /\ (n - 1) + 1 = n /\ a <= n - 1 /\ ~(n <= n - 1)
    BY <1>2, <1>3
  <1>5. Gain(v, a) <= Gain(v, n - 1)
    BY <1>2, <1>4
  <1>6. Gain(v, n - 1) <= Gain(v, (n - 1) + 1)
    BY <1>4, GainOfOneMore
  <1> QED BY <1>1, <1>2, <1>4, <1>5, <1>6

\* What is left above u for a requests.
LEMMA Climb ==
  ASSUME NEW u \in 0..MaxFailed - 1, NEW a \in Nat, NEW w \in [0..MaxFailed - 1 -> Nat],
         \A v \in u + 1..MaxFailed - 1 : w[v] <= w[v - 1] + Gain(v, a)
  PROVE  w[MaxFailed - 1] + 1 <= w[u] + Paths(MaxFailed - 1 - u, a)
  <1> DEFINE top(v) == w[v] + Paths(MaxFailed - 1 - v, a)
             Bad == {v \in u..MaxFailed - 1 : ~(top(v) <= top(u))}
  <1>1. \A v \in 0..MaxFailed - 1 : /\ w[v] \in Nat /\ Paths(MaxFailed - 1 - v, a) \in Nat
                                    /\ top(v) \in Nat
    <2> SUFFICES ASSUME NEW v \in 0..MaxFailed - 1
                 PROVE  w[v] \in Nat /\ Paths(MaxFailed - 1 - v, a) \in Nat
      OBVIOUS
    <2>1. MaxFailed - 1 - v \in Nat
      BY MaxFailedIsPositive
    <2> QED BY <2>1, Pascal
  <1>2. Bad = {}
    <2> SUFFICES ASSUME Bad # {} PROVE FALSE
      OBVIOUS
    <2>1. PICK v \in Bad : \A x \in Bad : v <= x
      <3>1. Bad \in SUBSET Nat
        BY MaxFailedIsPositive
      <3> HIDE DEF Bad
      <3> QED BY <3>1, LeastOf
    <2>2. v # u
      BY <1>1, <2>1
    <2>3. /\ v \in u + 1..MaxFailed - 1 /\ v \in 1..MaxFailed - 1 /\ v \in 0..MaxFailed - 1
          /\ v - 1 \in u..MaxFailed - 1 /\ v - 1 \in 0..MaxFailed - 1 /\ ~(v <= v - 1)
          /\ MaxFailed - 1 - (v - 1) = MaxFailed - v /\ MaxFailed - 1 - v = MaxFailed - v - 1
      BY <2>1, <2>2, MaxFailedIsPositive
    <2>4. top(v - 1) <= top(u)
      BY <2>1, <2>3
    <2>5. w[v] <= w[v - 1] + Gain(v, a)
      BY <2>3
    <2>6. Gain(v, a) = Paths(MaxFailed - 1 - (v - 1), a) - Paths(MaxFailed - 1 - v, a)
      BY <2>3 DEF Gain
    <2>7. top(v) <= top(v - 1)
      BY <1>1, <2>3, <2>5, <2>6
    <2>8. top(v) \in Nat /\ top(v - 1) \in Nat /\ top(u) \in Nat
      BY <1>1, <2>3
    <2> HIDE DEF top
    <2> QED BY <2>1, <2>4, <2>7, <2>8
  <1>3. MaxFailed - 1 \in u..MaxFailed - 1 /\ MaxFailed - 1 \in 0..MaxFailed - 1
        /\ MaxFailed - 1 - (MaxFailed - 1) = 0
    BY MaxFailedIsPositive
  <1>4. top(MaxFailed - 1) <= top(u)
    BY <1>2, <1>3
  <1>5. Paths(0, a) = 1
    BY Pascal
  <1> QED BY <1>3, <1>4, <1>5

LEMMA ReadsType ==
  TypeOK => \A q \in Requests : Reads(q) \in Nat /\ req[q].failed \in Nat
  BY MaxFailedIsPositive DEF TypeOK, Reads, User, Request, Counts

LEMMA ReadsTypeNext ==
  TypeOK' => \A q \in Requests : Reads(q)' \in Nat /\ req'[q].failed \in Nat
  BY MaxFailedIsPositive DEF TypeOK, Reads, User, Request, Counts

LEMMA Counted == ASSUME NEW v PROVE /\ IsFiniteSet(AtLeast(v)) /\ Cardinality(AtLeast(v)) \in Nat
                                    /\ Cardinality(AtLeast(v)) <= Cardinality(Requests)
                                    /\ Cardinality(Requests) \in Nat
  BY RequestsAreFinite, FS_Subset, FS_CardinalityType DEF AtLeast

\* The gains add up to the bound.
LEMMA TheBound == FailuresClimb /\ tries \in Nat => LockedInTheEnd
  <1> SUFFICES ASSUME tries \in Nat, NEW w \in [0..MaxFailed - 1 -> Nat], Ladder(w), tries <= w[MaxFailed - 1]
               PROVE  LockedInTheEnd
    BY DEF FailuresClimb
  <1> DEFINE R == Cardinality(Requests)
  <1>1. R \in Nat /\ 0 \in 0..MaxFailed - 1 /\ MaxFailed - 1 \in 0..MaxFailed - 1
        /\ MaxFailed - 1 - 0 = MaxFailed - 1 /\ MaxFailed - 1 \in Nat
    BY Counted, MaxFailedIsPositive
  <1>2. \A v \in 0 + 1..MaxFailed - 1 : w[v] <= w[v - 1] + Gain(v, R)
    <2> SUFFICES ASSUME NEW v \in 1..MaxFailed - 1 PROVE w[v] <= w[v - 1] + Gain(v, R)
      OBVIOUS
    <2>1. w[v] <= w[v - 1] + Gain(v, Cardinality(AtLeast(v)))
      BY DEF Ladder
    <2>2. /\ Gain(v, Cardinality(AtLeast(v))) \in Nat /\ Gain(v, R) \in Nat
          /\ Gain(v, Cardinality(AtLeast(v))) <= Gain(v, R)
      BY Counted, GainGrows
    <2>3. w[v] \in Nat /\ w[v - 1] \in Nat
      BY MaxFailedIsPositive
    <2> QED BY <2>1, <2>2, <2>3
  <1>3. w[MaxFailed - 1] + 1 <= w[0] + Paths(MaxFailed - 1 - 0, R)
    BY <1>1, <1>2, Climb
  <1>4. Paths(MaxFailed - 1, R) = choose(MaxFailed + R - 1, R) /\ Paths(MaxFailed - 1, R) \in Nat
    <2>1. (MaxFailed - 1) + R = MaxFailed + R - 1
      BY <1>1, MaxFailedIsPositive
    <2>2. Paths(MaxFailed - 1, R) = choose(MaxFailed + R - 1, R)
      BY <2>1 DEF Paths
    <2> QED BY <1>1, <2>2, Pascal
  <1>5. w[0] = 0 /\ w[MaxFailed - 1] \in Nat
    BY <1>1 DEF Ladder
  <1>6. tries < Paths(MaxFailed - 1, R)
    BY <1>1, <1>3, <1>4, <1>5
  <1> QED BY <1>4, <1>6 DEF LockedInTheEnd

\* More requests higher up: what was gained stays gained.
LEMMA LadderStays ==
  ASSUME TypeOK, TypeOK', tries' = tries, \A q \in Requests : Reads(q) <= Reads(q)', FailuresClimb
  PROVE  FailuresClimb'
  <1>1. PICK w \in [0..MaxFailed - 1 -> Nat] : Ladder(w) /\ tries <= w[MaxFailed - 1]
    BY DEF FailuresClimb
  <1>2. \A v \in 1..MaxFailed - 1 : w[v] <= w[v - 1] + Gain(v, Cardinality(AtLeast(v)'))
    <2> SUFFICES ASSUME NEW v \in 1..MaxFailed - 1
                 PROVE  w[v] <= w[v - 1] + Gain(v, Cardinality(AtLeast(v)'))
      OBVIOUS
    <2>1. AtLeast(v) \subseteq AtLeast(v)'
      <3>1. \A q \in Requests : Reads(q) \in Nat /\ Reads(q)' \in Nat
        BY ReadsType, ReadsTypeNext
      <3>2. \A q \in Requests : Reads(q) >= v => Reads(q)' >= v
        BY <3>1
      <3> QED BY <3>2 DEF AtLeast
    <2>2. Cardinality(AtLeast(v)) <= Cardinality(AtLeast(v)')
          /\ Cardinality(AtLeast(v)) \in Nat /\ Cardinality(AtLeast(v)') \in Nat
      <3>1. IsFiniteSet(AtLeast(v)')
        BY RequestsAreFinite, FS_Subset DEF AtLeast
      <3> QED BY <2>1, <3>1, FS_Subset, FS_CardinalityType
    <2>3. /\ Gain(v, Cardinality(AtLeast(v))) \in Nat /\ Gain(v, Cardinality(AtLeast(v)')) \in Nat
          /\ Gain(v, Cardinality(AtLeast(v))) <= Gain(v, Cardinality(AtLeast(v)'))
      BY <2>2, GainGrows
    <2>4. w[v] <= w[v - 1] + Gain(v, Cardinality(AtLeast(v)))
      BY <1>1 DEF Ladder
    <2>5. w[v] \in Nat /\ w[v - 1] \in Nat
      BY MaxFailedIsPositive
    <2> QED BY <2>3, <2>4, <2>5
  <1>3. Ladder(w)'
    BY <1>1, <1>2 DEF Ladder
  <1> QED BY <1>1, <1>3 DEF FailuresClimb

\* Where the count begins anew there is nothing to explain.
LEMMA LadderBegins ==
  ASSUME tries' = 0
  PROVE  FailuresClimb'
  <1>1. \A v \in 1..MaxFailed - 1 : Gain(v, Cardinality(AtLeast(v)')) \in Nat
    <2> SUFFICES ASSUME NEW v \in 1..MaxFailed - 1 PROVE Cardinality(AtLeast(v)') \in Nat
      BY GainOfOneMore
    <2> QED BY RequestsAreFinite, FS_Subset, FS_CardinalityType DEF AtLeast
  <1>2. /\ 0 \in 0..MaxFailed - 1 /\ MaxFailed - 1 \in 0..MaxFailed - 1
        /\ \A v \in 1..MaxFailed - 1 : v \in 0..MaxFailed - 1 /\ v - 1 \in 0..MaxFailed - 1
    BY MaxFailedIsPositive
  <1>3. PICK w \in [0..MaxFailed - 1 -> Nat] : \A v \in 0..MaxFailed - 1 : w[v] = 0
    <2> WITNESS [v \in 0..MaxFailed - 1 |-> 0] \in [0..MaxFailed - 1 -> Nat]
    <2> QED OBVIOUS
  <1>4. Ladder(w)'
    <2>1. w[0] = 0 /\ \A v \in 1..MaxFailed - 1 : w[v] = 0 /\ w[v - 1] = 0
      BY <1>2, <1>3
    <2> QED BY <1>1, <2>1 DEF Ladder
  <1>5. tries' <= w[MaxFailed - 1]
    BY <1>2, <1>3
  <1> QED BY <1>4, <1>5 DEF FailuresClimb

LEMMA LadderAtFirst ==
  ASSUME tries = 0
  PROVE  FailuresClimb
  <1>1. \A v \in 1..MaxFailed - 1 : Gain(v, Cardinality(AtLeast(v))) \in Nat
    BY Counted, GainOfOneMore
  <1>2. /\ 0 \in 0..MaxFailed - 1 /\ MaxFailed - 1 \in 0..MaxFailed - 1
        /\ \A v \in 1..MaxFailed - 1 : v \in 0..MaxFailed - 1 /\ v - 1 \in 0..MaxFailed - 1
    BY MaxFailedIsPositive
  <1>3. PICK w \in [0..MaxFailed - 1 -> Nat] : \A v \in 0..MaxFailed - 1 : w[v] = 0
    <2> WITNESS [v \in 0..MaxFailed - 1 |-> 0] \in [0..MaxFailed - 1 -> Nat]
    <2> QED OBVIOUS
  <1>4. Ladder(w)
    <2>1. w[0] = 0 /\ \A v \in 1..MaxFailed - 1 : w[v] = 0 /\ w[v - 1] = 0
      BY <1>2, <1>3
    <2> QED BY <1>1, <2>1 DEF Ladder
  <1>5. tries <= w[MaxFailed - 1]
    BY <1>2, <1>3
  <1> QED BY <1>4, <1>5 DEF FailuresClimb

\* A failure moves its request up one count, and the others stay where they are
\* or come down to no less than that: the gains below are kept, one is larger by
\* more than all those above were.
LEMMA FailureClimbs ==
  ASSUME TypeOK, TypeOK', FailuresClimb, NEW r \in Requests, LoginFail(r), tries' # 0
  PROVE  FailuresClimb'
  <1> DEFINE x == req[r].failed
             top == MaxFailed - 1
  <1>1. PICK u : u = Reads(r) + 1
    OBVIOUS
  <1> DEFINE a == Cardinality(AtLeast(u))
  <1>2. /\ req[r].pc = "failing" /\ x \in Nat /\ x + 1 < MaxFailed
        /\ user'.failed = x + 1 /\ tries' = tries + 1 /\ tries \in Nat
        /\ req' = [req EXCEPT ![r] = Idle] /\ req \in [Requests -> Request]
    BY MaxFailedIsPositive DEF LoginFail, At, End, Failed, TypeOK, Request, User, Counts
  <1>3. \A q \in Requests : Reads(q) \in Nat /\ req[q].failed \in Nat
    BY ReadsType
  <1>4. Reads(r) <= x /\ u \in 1..top /\ u <= x + 1
    <2>1. user.failed \in Nat /\ Reads(r) <= x
      BY <1>2 DEF Reads, At, TypeOK, User, Counts
    <2> QED BY <1>1, <1>2, <1>3, <2>1, MaxFailedIsPositive
  <1>5. \A q \in Requests : Reads(q)' >= u \/ Reads(q)' >= Reads(q)
    <2> SUFFICES ASSUME NEW q \in Requests PROVE Reads(q)' >= u \/ Reads(q)' >= Reads(q)
      OBVIOUS
    <2>1. CASE q = r \/ req[q].pc # "failing"
      <3>1. Reads(q)' = x + 1
        BY <1>2, <2>1 DEF Reads, At, Idle
      <3> QED BY <1>2, <1>3, <1>4, <3>1
    <2>2. CASE q # r /\ req[q].pc = "failing"
      <3>1. req'[q] = req[q]
        BY <1>2, <2>2
      <3>2. Reads(q)' = IF req[q].failed < x + 1 THEN req[q].failed ELSE x + 1
        BY <1>2, <2>2, <3>1 DEF Reads, At
      <3>3. Reads(q) <= req[q].failed
        BY <1>3, <2>2 DEF Reads, At, TypeOK, User, Counts
      <3> QED BY <1>2, <1>3, <1>4, <3>2, <3>3
    <2> QED BY <2>1, <2>2
  <1>6. \A q \in Requests : Reads(q)' \in Nat
    BY ReadsTypeNext
  <1>7. Reads(r)' = x + 1
    BY <1>2 DEF Reads, At, Idle
  <1> HIDE DEF x
  <1>8. \A v \in 1..u : AtLeast(v) \subseteq AtLeast(v)'
    <2> SUFFICES ASSUME NEW v \in 1..u, NEW q \in Requests, Reads(q) >= v PROVE Reads(q)' >= v
      BY DEF AtLeast
    <2>1. v \in Nat /\ v <= u /\ u \in Nat
      BY <1>4
    <2>2. Reads(q)' >= u \/ Reads(q)' >= Reads(q)
      BY <1>5
    <2> QED BY <1>3, <1>6, <2>1, <2>2
  <1>9. r \in AtLeast(u)' /\ r \notin AtLeast(u)
    <2>1. Reads(r)' >= u /\ ~(Reads(r) >= u)
      BY <1>1, <1>2, <1>3, <1>4, <1>7
    <2> QED BY <2>1 DEF AtLeast
  <1>10. \A v : /\ IsFiniteSet(AtLeast(v)) /\ Cardinality(AtLeast(v)) \in Nat
               /\ IsFiniteSet(AtLeast(v)') /\ Cardinality(AtLeast(v)') \in Nat
    <2> SUFFICES ASSUME NEW v
                 PROVE /\ IsFiniteSet(AtLeast(v)) /\ IsFiniteSet(AtLeast(v)')
      BY FS_CardinalityType
    <2> QED BY RequestsAreFinite, FS_Subset DEF AtLeast
  <1>11. \A v \in 1..u : Cardinality(AtLeast(v)) <= Cardinality(AtLeast(v)')
    BY <1>8, <1>10, FS_Subset
  <1>12. a + 1 <= Cardinality(AtLeast(u)')
    <2>1. u \in 1..u
      BY <1>4
    <2>2. AtLeast(u) \in SUBSET AtLeast(u)'
      BY <1>8, <2>1
    <2>3. Cardinality(AtLeast(u)) < Cardinality(AtLeast(u)')
      BY <1>9, <1>10, <2>2, FewerIn
    <2> QED BY <1>10, <2>3
  <1>13. \A v \in u + 1..top : Cardinality(AtLeast(v)) <= a
    <2> SUFFICES ASSUME NEW v \in u + 1..top PROVE Cardinality(AtLeast(v)) <= Cardinality(AtLeast(u))
      OBVIOUS
    <2>1. v \in Int /\ u \in Int /\ v >= u
      BY <1>4, MaxFailedIsPositive
    <2>2. AtLeast(v) \in SUBSET AtLeast(u)
      BY <1>3, <2>1 DEF AtLeast
    <2> QED BY <1>10, <2>2, FS_Subset
  <1>14. PICK w \in [0..top -> Nat] : Ladder(w) /\ tries <= w[top]
    BY DEF FailuresClimb
  <1> HIDE DEF a
  <1>15. /\ a \in Nat /\ a + 1 \in Nat /\ u \in 0..top /\ u - 1 \in 0..top
         /\ top \in Nat /\ top \in 0..top /\ 0 \in 0..top
         /\ w[u] \in Nat /\ w[u - 1] \in Nat /\ w[top] \in Nat
    BY <1>4, <1>10, MaxFailedIsPositive DEF a
  <1>16. w[top] + 1 <= w[u - 1] + Gain(u, a + 1)
    <2>1. \A v \in u + 1..top : w[v] <= w[v - 1] + Gain(v, a)
      <3> SUFFICES ASSUME NEW v \in u + 1..top PROVE w[v] <= w[v - 1] + Gain(v, a)
        OBVIOUS
      <3>1. v \in 1..top /\ v \in 0..top /\ v - 1 \in 0..top
        BY <1>4, MaxFailedIsPositive
      <3>2. /\ Gain(v, Cardinality(AtLeast(v))) \in Nat /\ Gain(v, a) \in Nat
            /\ Gain(v, Cardinality(AtLeast(v))) <= Gain(v, a)
        BY <1>10, <1>13, <1>15, <3>1, GainGrows
      <3>3. w[v] <= w[v - 1] + Gain(v, Cardinality(AtLeast(v)))
        BY <1>14, <3>1 DEF Ladder
      <3>4. w[v] \in Nat /\ w[v - 1] \in Nat
        BY <3>1
      <3> QED BY <3>2, <3>3, <3>4
    <2>2. w[top] + 1 <= w[u] + Paths(MaxFailed - 1 - u, a)
      BY <1>15, <2>1, Climb
    <2>3. w[u] <= w[u - 1] + Gain(u, a)
      BY <1>4, <1>14 DEF Ladder, a
    <2>4. Gain(u, a + 1) = Paths(MaxFailed - u, a)
      BY <1>4, <1>15, GainOfOneMore
    <2>5. MaxFailed - 1 - u = MaxFailed - u - 1 /\ MaxFailed - u - 1 \in Nat /\ MaxFailed - u \in Nat
      BY <1>4, MaxFailedIsPositive
    <2>6. Gain(u, a) = Paths(MaxFailed - u, a) - Paths(MaxFailed - 1 - u, a)
      BY <2>5 DEF Gain
    <2>7. Paths(MaxFailed - u, a) \in Nat /\ Paths(MaxFailed - 1 - u, a) \in Nat
      BY <1>15, <2>5, Pascal
    <2> QED BY <1>15, <2>2, <2>3, <2>4, <2>6, <2>7
  <1>17. PICK z \in [0..top -> Nat] : \A v \in 0..top : z[v] = IF v < u THEN w[v] ELSE w[top] + 1
    <2> DEFINE zz == [v \in 0..top |-> IF v < u THEN w[v] ELSE w[top] + 1]
    <2>1. zz \in [0..top -> Nat]
      BY <1>15
    <2> WITNESS zz \in [0..top -> Nat]
    <2> QED OBVIOUS
  <1>18. z[0] = 0 /\ z[top] = w[top] + 1
    <2>1. 0 < u /\ ~(top < u)
      BY <1>4, <1>15
    <2>2. w[0] = 0
      BY <1>14 DEF Ladder
    <2> QED BY <1>15, <1>17, <2>1, <2>2
  <1>19. \A v \in 1..top : z[v] <= z[v - 1] + Gain(v, Cardinality(AtLeast(v)'))
    <2> SUFFICES ASSUME NEW v \in 1..top
                 PROVE  z[v] <= z[v - 1] + Gain(v, Cardinality(AtLeast(v)'))
      OBVIOUS
    <2>1. /\ v \in 0..top /\ v - 1 \in 0..top /\ v \in Nat /\ u \in Nat
          /\ w[v] \in Nat /\ w[v - 1] \in Nat
      BY <1>4, <1>15, MaxFailedIsPositive
    <2>2. Gain(v, Cardinality(AtLeast(v)')) \in Nat
      BY <1>10, GainOfOneMore
    <2>3. CASE v < u
      <3>1. w[v] <= w[v - 1] + Gain(v, Cardinality(AtLeast(v)))
        BY <1>14 DEF Ladder
      <3>2. v \in 1..u
        BY <2>1, <2>3
      <3>3. /\ Gain(v, Cardinality(AtLeast(v))) \in Nat
            /\ Gain(v, Cardinality(AtLeast(v))) <= Gain(v, Cardinality(AtLeast(v)'))
        BY <1>10, <1>11, <3>2, GainGrows
      <3>4. z[v] = w[v] /\ z[v - 1] = w[v - 1]
        BY <1>17, <2>1, <2>3
      <3> QED BY <2>1, <2>2, <3>1, <3>3, <3>4
    <2>4. CASE v = u
      <3>1. Gain(u, a + 1) \in Nat /\ Gain(u, a + 1) <= Gain(u, Cardinality(AtLeast(u)'))
        BY <1>4, <1>10, <1>12, <1>15, GainGrows
      <3>2. z[v] = w[top] + 1 /\ z[v - 1] = w[u - 1]
        BY <1>17, <2>1, <2>4
      <3>3. w[top] + 1 <= w[u - 1] + Gain(v, Cardinality(AtLeast(v)'))
        BY <1>15, <1>16, <2>2, <2>4, <3>1
      <3> QED BY <3>2, <3>3
    <2>5. CASE u < v
      <3>1. z[v] = w[top] + 1 /\ z[v - 1] = w[top] + 1
        BY <1>17, <2>1, <2>5
      <3> QED BY <1>15, <2>2, <3>1
    <2> QED BY <2>1, <2>3, <2>4, <2>5
  <1>20. Ladder(z)'
    BY <1>18, <1>19 DEF Ladder
  <1>21. tries' <= z[top]
    BY <1>2, <1>14, <1>15, <1>18
  <1> QED BY <1>20, <1>21 DEF FailuresClimb

\* Whatever else happens, a request adds to no less than before.
LEMMA OthersKeepTheCount ==
  ASSUME TypeOK, TypeOK', [Next]_vars,
         ~\E r \in Requests : LoginFail(r) \/ LoginPass(r)
  PROVE  tries' = tries /\ \A q \in Requests : Reads(q) <= Reads(q)'
  <1>1. tries' = tries /\ user'.failed = user.failed
    BY DEF TypeOK, User, Next, Login, Refresh, DeleteAccount, Start, LoginRead, RefreshRead, RefreshUser, ReuseRead, RotateRevoke,
           RotateCommit, ReuseCommit, Logout, EraseRead, EraseSelect, EraseRows, EraseLinks,
           EraseCommit, LinkRead, LinkCommit, LinkOther, SetActive, LockEnds, Die, vars
  <1>2. \A q \in Requests : At(q, "failing")' =>
          req'[q].failed = user.failed \/ (At(q, "failing") /\ req'[q].failed = req[q].failed)
    <2> SUFFICES ASSUME NEW q \in Requests, req'[q].pc = "failing"
                 PROVE  req'[q].failed = user.failed
                        \/ (req[q].pc = "failing" /\ req'[q].failed = req[q].failed)
      BY DEF At
    <2>1. req \in [Requests -> Request]
      BY DEF TypeOK
    <2>2. CASE UNCHANGED req
      BY <2>2
    <2>3. ASSUME NEW r \in Requests, LoginRead(r)
          PROVE  req'[q].failed = user.failed
                 \/ (req[q].pc = "failing" /\ req'[q].failed = req[q].failed)
      BY <2>1, <2>3 DEF LoginRead, Request
    <2>4. ASSUME NEW r \in Requests,
                 Refresh(r) \/ Logout(r) \/ EraseRead(r) \/ EraseSelect(r) \/ EraseRows(r)
                 \/ EraseLinks(r) \/ Die(r) \/ Start(r)
          PROVE  req[q].pc = "failing" /\ req'[q].failed = req[q].failed
      BY <2>1, <2>4 DEF Refresh, RefreshRead, RefreshUser, ReuseRead, Presenting, RotateRevoke, RotateCommit,
           ReuseCommit, Logout, EraseRead, EraseSelect, EraseRows, EraseLinks, Die, Start,
           LinkRead, LinkCommit, Go, End, Idle, Request
    <2>5. ASSUME NEW r \in Requests, EraseCommit(r)
          PROVE  req[q].pc = "failing" /\ req'[q].failed = req[q].failed
      BY <2>1, <2>5 DEF EraseCommit, End, Idle, Request
    <2> QED BY <2>2, <2>3, <2>4, <2>5
         DEF Next, Login, DeleteAccount, LinkOther, SetActive, LockEnds, vars
  <1>3. \A q \in Requests : req[q].failed \in Nat /\ req'[q].failed \in Nat /\ user.failed \in Nat
    BY ReadsType, ReadsTypeNext, MaxFailedIsPositive DEF TypeOK, User, Counts
  <1>4. \A q \in Requests : Reads(q) <= Reads(q)'
    BY <1>1, <1>2, <1>3 DEF Reads, At
  <1> QED BY <1>1, <1>4

LEMMA NextFailuresClimb == SessionsInv /\ FailuresClimb /\ [Next]_vars => FailuresClimb'
  <1> SUFFICES ASSUME SessionsInv, FailuresClimb, [Next]_vars PROVE FailuresClimb'
    OBVIOUS
  <1>1. TypeOK /\ TypeOK'
    BY NextTypeOK DEF SessionsInv
  <1>2. CASE tries' = 0
    BY <1>2, LadderBegins
  <1>3. ASSUME NEW r \in Requests, LoginFail(r), tries' # 0 PROVE FailuresClimb'
    BY <1>1, <1>3, FailureClimbs
  <1>4. ASSUME NEW r \in Requests, LoginPass(r) PROVE FailuresClimb'
    BY <1>2, <1>4 DEF LoginPass
  <1>5. CASE ~\E r \in Requests : LoginFail(r) \/ LoginPass(r)
    BY <1>1, <1>5, OthersKeepTheCount, LadderStays
  <1> QED BY <1>2, <1>3, <1>4, <1>5

\* login: concurrent logins lose increments of failed_login_count, but however
\* many are at work, the account is locked after C(MaxFailed + R - 1, R) failures.
THEOREM LockedAtLast == Spec => []LockedInTheEnd
  <1>1. Init => FailuresClimb
    <2> SUFFICES ASSUME Init PROVE FailuresClimb
      OBVIOUS
    <2> QED BY LadderAtFirst DEF Init
  <1>2. SessionsInv /\ FailuresClimb => LockedInTheEnd
    BY TheBound DEF SessionsInv, TypeOK
  <1> QED BY <1>1, <1>2, NextFailuresClimb, SessionsInvariant, PTL DEF Spec
=============================================================================
