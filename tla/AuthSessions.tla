---------------------------- MODULE AuthSessions ----------------------------
(***************************************************************************)
(* The sessions of one account: login with its lockout, the rotation of    *)
(* refresh tokens and logout of app/routers/auth.py, delete_user_account   *)
(* of app/services/privacy_service.py, set_user_active of the admin router *)
(* and the /start message of app/routers/eitaa.py, which links one Eitaa   *)
(* account to this or to another one.                                      *)
(*                                                                         *)
(* A request reads rows, works on what it has read (the password hash is   *)
(* slow) and commits; requests interleave between the two.  An UPDATE is   *)
(* sent only for attributes that differ from what the request has read,    *)
(* it waits for a row that another transaction has changed, and an UPDATE  *)
(* that matches no row fails the request.  Left out: the expiry of tokens  *)
(* (a refresh may always be refused), the rate limiter and the register    *)
(* route, which makes the account of Init.                                 *)
(***************************************************************************)
EXTENDS Naturals, FiniteSets, Combinatorics

CONSTANTS
  Tokens,     \* rows refresh_tokens may get: a bound
  Requests,   \* database sessions at work for the account at one time
  MaxFailed,  \* MAX_FAILED_LOGINS
  NoToken

ASSUME MaxFailedIsPositive == MaxFailed \in Nat \ {0}
ASSUME RequestsAreFinite == IsFiniteSet(Requests)
ASSUME NoTokenIsNone == NoToken \notin Tokens

VARIABLES
  user,   \* the row of the account
  token,  \* the refresh_tokens table
  link,   \* the eitaa_account_links row of the Eitaa account
  req,    \* where each request stands, and what it has read
  tries   \* failed logins committed since the count began anew (history)

vars == <<user, token, link, req, tries>>

Locks == {"null", "future", "past"}   \* locked_until
\* failed_login_count beyond MaxFailed is not told apart from MaxFailed.
Counts == 0..MaxFailed

User == [active : BOOLEAN, deleted : BOOLEAN, failed : Counts, locked : Locks]
Token == [state : {"none", "live", "revoked", "erased"}, parent : Tokens \cup {NoToken}]
Links == {"none", "mine", "other"}
\* The row a /start has found: the account's own already, another's, or one that
\* has been deleted since.
LinkRows == {"none", "own", "found", "gone"}
Request == [pc : {"idle", "failing", "passing", "presenting", "rotating", "revoking", "replaying",
                  "reusing", "erasing", "waiting", "deleting", "unlinking", "linking"},
            token : Tokens \cup {NoToken},
            failed : Counts, locked : Locks,
            rows : SUBSET Tokens,
            row : LinkRows]

TypeOK == /\ user \in User
          /\ token \in [Tokens -> Token]
          /\ link \in Links
          /\ req \in [Requests -> Request]
          /\ tries \in Nat

Idle == [pc |-> "idle", token |-> NoToken, failed |-> 0, locked |-> "null", rows |-> {},
         row |-> "none"]

Init == /\ user = [active |-> TRUE, deleted |-> FALSE, failed |-> 0, locked |-> "null"]
        /\ token = [t \in Tokens |-> [state |-> "none", parent |-> NoToken]]
        /\ link \in {"none", "other"}
        /\ req = [r \in Requests |-> Idle]
        /\ tries = 0

-----------------------------------------------------------------------------
At(r, pc) == req[r].pc = pc
Go(r, pc) == req' = [req EXCEPT ![r].pc = pc]
End(r) == req' = [req EXCEPT ![r] = Idle]

In(state) == {t \in Tokens : token[t].state = state}
Rows == In("live") \cup In("revoked")
Revoked(ts) == [t \in Tokens |-> IF t \in ts THEN [token[t] EXCEPT !.state = "revoked"] ELSE token[t]]

\* Rows that an uncommitted UPDATE or DELETE of another request holds.
Held(r) == UNION {CASE At(x, "revoking") -> {req[x].token}
                    [] req[x].pc \in {"deleting", "unlinking"} -> req[x].rows
                    [] OTHER -> {} : x \in Requests \ {r}}

-----------------------------------------------------------------------------
(* login: the read and the checks, then the commit of either outcome *)

LoginRead(r) ==
  /\ At(r, "idle")
  /\ ~user.deleted                        \* the email is not found any more
  /\ user.locked # "future" /\ user.active
  /\ \E pc \in {"failing", "passing"} :
       req' = [req EXCEPT ![r].pc = pc, ![r].failed = user.failed, ![r].locked = user.locked]
  /\ UNCHANGED <<user, token, link, tries>>

\* failed_login_count is one more than what was read, whatever it is by now.
Failed(n) == IF n < MaxFailed THEN n + 1 ELSE n

\* Mutation of LoginFail: one attempt too many.
LoginFailOneMore(r) ==
  /\ At(r, "failing")
  /\ IF req[r].failed >= MaxFailed
     THEN /\ user' = [user EXCEPT !.failed = MaxFailed, !.locked = "future"]
          /\ tries' = 0
     ELSE /\ user' = [user EXCEPT !.failed = Failed(req[r].failed)]
          /\ tries' = tries + 1
  /\ End(r) /\ UNCHANGED <<token, link>>

LoginFail(r) ==
  /\ At(r, "failing")
  /\ IF Failed(req[r].failed) >= MaxFailed
     THEN /\ user' = [user EXCEPT !.failed = MaxFailed, !.locked = "future"]
          /\ tries' = 0
     ELSE /\ user' = [user EXCEPT !.failed = Failed(req[r].failed)]
          /\ tries' = tries + 1
  /\ End(r) /\ UNCHANGED <<token, link>>

Issue(ts, parent, t) ==
  [ts EXCEPT ![t] = [state |-> "live", parent |-> parent]]

\* Mutation of LoginPass: locked_until is written whether it changed or not.
LoginPassClears(r) ==
  /\ At(r, "passing")
  /\ user' = [user EXCEPT !.failed = 0, !.locked = "null"]
  /\ \E t \in In("none") : token' = Issue(token, NoToken, t)
  /\ tries' = 0
  /\ End(r) /\ UNCHANGED link

LoginPass(r) ==
  /\ At(r, "passing")
  /\ user' = [user EXCEPT !.failed = IF req[r].failed = 0 THEN @ ELSE 0,
                          !.locked = IF req[r].locked = "null" THEN @ ELSE "null"]
  /\ \E t \in In("none") : token' = Issue(token, NoToken, t)
  /\ tries' = 0
  /\ End(r) /\ UNCHANGED link

-----------------------------------------------------------------------------
(* refresh *)

Presenting(r, t) == req' = [req EXCEPT ![r].pc = "presenting", ![r].token = t]

\* Mutation of RefreshRead: no check of the token.
RefreshReadAny(r) ==
  /\ At(r, "idle")
  /\ \E t \in Rows : Presenting(r, t)
  /\ UNCHANGED <<user, token, link, tries>>

\* The token is read; replaced_by is set with revoked.
RefreshRead(r) ==
  /\ At(r, "idle")
  /\ \E t \in Rows : \/ token[t].state = "revoked" /\ Go(r, "replaying")
                     \/ token[t].state = "live" /\ Presenting(r, t)
  /\ UNCHANGED <<user, token, link, tries>>

\* Mutation of RefreshUser: no check of the account.
RefreshUserUnchecked(r) ==
  /\ At(r, "presenting") /\ Go(r, "rotating")
  /\ UNCHANGED <<user, token, link, tries>>

\* Then the account is read ...
RefreshUser(r) ==
  /\ At(r, "presenting")
  /\ IF user.active THEN Go(r, "rotating") ELSE End(r)
  /\ UNCHANGED <<user, token, link, tries>>

\* ... or, for a revoked token, the list of the account's live tokens.
ReuseRead(r) ==
  /\ At(r, "replaying")
  /\ req' = [req EXCEPT ![r].pc = "reusing", ![r].rows = In("live")]
  /\ UNCHANGED <<user, token, link, tries>>

\* The flush sends the UPDATE of the old token, by its id alone ...
RotateRevoke(r) ==
  /\ At(r, "rotating")
  /\ req[r].token \notin Held(r)
  /\ IF req[r].token \in Rows THEN Go(r, "revoking") ELSE End(r)
  /\ UNCHANGED <<user, token, link, tries>>

\* ... and the INSERT of the new one; both are committed.
RotateCommit(r) ==
  /\ At(r, "revoking")
  /\ \E t \in In("none") : token' = Issue(Revoked({req[r].token}), req[r].token, t)
  /\ End(r)
  /\ UNCHANGED <<user, link, tries>>

\* All the tokens read, or (one of them has been deleted) none.
ReuseCommit(r) ==
  /\ At(r, "reusing")
  /\ req[r].rows \cap Held(r) = {}
  /\ \/ token' = Revoked(req[r].rows \cap Rows)
     \/ ~(req[r].rows \subseteq Rows) /\ UNCHANGED token
  /\ End(r)
  /\ UNCHANGED <<user, link, tries>>

\* Revoking twice is revoking once: the read and the commit are one step.
Logout(r) ==
  /\ At(r, "idle")
  /\ \E t \in In("live") \ Held(r) : token' = Revoked({t})
  /\ UNCHANGED <<user, link, req, tries>>

-----------------------------------------------------------------------------
(* delete_my_account *)

EraseRead(r) ==
  /\ At(r, "idle")
  /\ user.active
  /\ Go(r, "erasing")
  /\ UNCHANGED <<user, token, link, tries>>

\* The DELETE of the tokens finds its rows and then waits for those held by
\* others: a token issued meanwhile is not among them.
EraseSelect(r) ==
  /\ At(r, "erasing")
  /\ req' = [req EXCEPT ![r].pc = "waiting", ![r].rows = Rows]
  /\ UNCHANGED <<user, token, link, tries>>

EraseRows(r) ==
  /\ At(r, "waiting")
  /\ req[r].rows \cap Held(r) = {}
  /\ req' = [req EXCEPT ![r].pc = "deleting", ![r].rows = @ \cap Rows]
  /\ UNCHANGED <<user, token, link, tries>>

\* The DELETE of the links; a row it has found is held until the commit.
EraseLinks(r) ==
  /\ At(r, "deleting")
  /\ req' = [req EXCEPT ![r].pc = "unlinking", ![r].row = IF link = "mine" THEN "found" ELSE "none"]
  /\ UNCHANGED <<user, token, link, tries>>

EraseCommit(r) ==
  /\ At(r, "unlinking")
  /\ token' = [t \in Tokens |-> IF t \in req[r].rows THEN [token[t] EXCEPT !.state = "erased"]
                                                     ELSE token[t]]
  /\ user' = [user EXCEPT !.active = FALSE, !.deleted = TRUE]
  /\ IF req[r].row = "found"
       THEN /\ link' = "none"
            /\ req' = [x \in Requests |->
                 IF x = r THEN Idle
                 ELSE [req[x] EXCEPT !.row = IF At(x, "linking") /\ @ = "found" THEN "gone" ELSE @]]
       ELSE UNCHANGED link /\ End(r)
  /\ UNCHANGED tries

-----------------------------------------------------------------------------
(* eitaa_webhook: /start with the id of a user *)

LinkHeld(r) == \E x \in Requests \ {r} : At(x, "unlinking") /\ req[x].row = "found"

LinkRead(r) ==
  /\ At(r, "idle")
  /\ user.active /\ ~user.deleted
  /\ req' = [req EXCEPT ![r].pc = "linking",
                        ![r].row = CASE link = "none" -> "none" [] link = "mine" -> "own"
                                     [] link = "other" -> "found"]
  /\ UNCHANGED <<user, token, link, tries>>

\* Another's row is pointed to the user, if it is still there; for the user's own
\* row user_id is not sent.  Without a row one is inserted: eitaa_user_id is unique.
LinkCommit(r) ==
  /\ At(r, "linking")
  /\ req[r].row = "own" \/ ~LinkHeld(r)
  /\ link' = IF req[r].row = "found" \/ (req[r].row = "none" /\ link = "none") THEN "mine" ELSE link
  /\ End(r)
  /\ UNCHANGED <<user, token, tries>>

\* The same Eitaa account names another user.
LinkOther ==
  /\ \A x \in Requests : ~(At(x, "unlinking") /\ req[x].row = "found")
  /\ link # "other" /\ link' = "other"
  /\ UNCHANGED <<user, token, req, tries>>

-----------------------------------------------------------------------------
\* The administrator's switch does not look at deleted_at.
SetActive == /\ \E b \in BOOLEAN : user' = [user EXCEPT !.active = b]
             /\ UNCHANGED <<token, link, req, tries>>

LockEnds == /\ user.locked = "future"
            /\ user' = [user EXCEPT !.locked = "past"]
            /\ UNCHANGED <<token, link, req, tries>>

\* A request fails, dies or is the victim of a deadlock: its rows are released.
Die(r) == /\ ~At(r, "idle")
          /\ End(r)
          /\ UNCHANGED <<user, token, link, tries>>

Login(r) == LoginRead(r) \/ LoginFail(r) \/ LoginPass(r)
Refresh(r) == \/ RefreshRead(r) \/ RefreshUser(r) \/ ReuseRead(r)
              \/ RotateRevoke(r) \/ RotateCommit(r) \/ ReuseCommit(r)
DeleteAccount(r) == EraseRead(r) \/ EraseSelect(r) \/ EraseRows(r) \/ EraseLinks(r) \/ EraseCommit(r)
Start(r) == LinkRead(r) \/ LinkCommit(r)

Next == \/ \E r \in Requests : Login(r) \/ Refresh(r) \/ Logout(r) \/ DeleteAccount(r) \/ Die(r)
        \/ \E r \in Requests : Start(r)
        \/ LinkOther \/ SetActive \/ LockEnds

Spec == Init /\ [][Next]_vars

-----------------------------------------------------------------------------
(* Properties *)

Children(t) == {c \in Tokens : token[c].state # "none" /\ token[c].parent = t}
Exchanging(t) == {r \in Requests : req[r].token = t}

\* refresh: a token that can still be presented has not been exchanged, and
\* one token is exchanged by at most as many requests as had read it before
\* the first of them committed: a later one is always taken for a reuse.
ExchangedOncePerRequest ==
  \A t \in Tokens :
    /\ token[t].state = "live" => Children(t) = {}
    /\ Cardinality(Children(t)) + Cardinality(Exchanging(t)) <= Cardinality(Requests)

\* login loses increments of failed_login_count to concurrent logins, but not
\* without limit: with R requests at a time the account is locked after at
\* most C(MaxFailed + R - 1, R) failures (MaxFailed of them if R = 1).
LockedInTheEnd ==
  tries < choose(MaxFailed + Cardinality(Requests) - 1, Cardinality(Requests))

\* A lock lasts its time, except where a login that had read an earlier, ended
\* lock succeeds: one that had read no lock leaves it alone.
LockOutlivesOlderLogins ==
  [][user.locked = "future" /\ user'.locked \notin {"future", "past"} =>
       \E r \in Requests : At(r, "passing") /\ req[r].locked = "past"]_vars

\* Sessions that will issue a token when they commit.
Issuing == {r \in Requests : req[r].pc \in {"passing", "rotating", "revoking"}}

Linking == {r \in Requests : At(r, "linking")}

\* While a deleted account is not switched on again nobody begins a session
\* for it, whatever tokens the races of the deletion have left behind; and the
\* bot never begins to link it, switched on or not.
DeletedStaysClosed ==
  [][/\ user.deleted /\ ~user.active => Issuing' \subseteq Issuing
     /\ user.deleted => Linking' \subseteq Linking]_vars
=============================================================================
