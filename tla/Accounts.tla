------------------------------ MODULE Accounts ------------------------------
(***************************************************************************)
(* Accounts and refresh tokens: routes/auth.py, create_admin_user of       *)
(* routes/admin.py and the create-admin command of manage.py.              *)
(*                                                                         *)
(* A Session is a request with its database session.  Each statement is a  *)
(* step of a READ COMMITTED transaction: it sees the rows committed when   *)
(* it starts, FOR UPDATE and UPDATE wait for row locks, and a commit or a  *)
(* rollback frees them.  Rows are written when their transaction commits.  *)
(* An account is its email, a token its hash; a password is right or       *)
(* wrong, and a token may be found to have expired.                        *)
(***************************************************************************)
EXTENDS Naturals

CONSTANTS
    Session,    \* concurrent requests
    Email,      \* addresses that may have an account
    MaxTokens,  \* bound on the refresh tokens issued
    NoOne       \* no session, no account

Token == 1..MaxTokens

ASSUME AccountConstants ==
    /\ MaxTokens \in Nat
    /\ NoOne \notin Session /\ NoOne \notin Email

VARIABLES
    \* PostgreSQL
    role,       \* users: role[e] is "none", "user" or "admin"
    active,     \* users.is_active
    owner,      \* refresh_tokens.user_id
    state,      \* refresh_tokens: "none", "live" or "revoked"
    lock,       \* row locks of refresh_tokens
    \* sessions
    pc,
    tok,        \* stored: the row of the presented token
    who,        \* the account the session acts for
    todo,       \* rows of the family the UPDATE has yet to lock
    \* history
    heirs,      \* heirs[t]: tokens issued in exchange for t
    late,       \* late[t]: issues in a row, up to t, to a disabled account
    family,     \* family[s]: tokens of the account when s detected a reuse
    condemned   \* tokens that committed logouts and family revocations cover

users == <<role, active>>
tokens == <<owner, state, heirs, late, condemned>>
locals == <<pc, tok, who, todo, family>>
vars == <<users, tokens, locals, lock>>

(* Steps between the SELECT ... FOR UPDATE of refresh and its commit. *)
Locked == {"user", "rotate", "reuse", "family"}
Waiting == {"select", "logout"}
Label == Locked \cup Waiting \cup
    {"idle", "hash", "hashAdmin", "verify", "refuse", "update"}

TypeOK ==
    /\ role \in [Email -> {"none", "user", "admin"}] /\ active \in [Email -> BOOLEAN]
    /\ owner \in [Token -> Email \cup {NoOne}]
    /\ state \in [Token -> {"none", "live", "revoked"}]
    /\ lock \in [Token -> Session \cup {NoOne}]
    /\ pc \in [Session -> Label] /\ tok \in [Session -> Token \cup {0}]
    /\ who \in [Session -> Email \cup {NoOne}] /\ todo \in [Session -> SUBSET Token]
    /\ family \in [Session -> SUBSET Token]
    /\ heirs \in [Token -> SUBSET Token] /\ late \in [Token -> Nat]
    /\ condemned \subseteq Token
    /\ \A t \in Token : owner[t] = NoOne <=> state[t] = "none"

Init ==
    /\ role = [e \in Email |-> "none"] /\ active = [e \in Email |-> TRUE]
    /\ owner = [t \in Token |-> NoOne] /\ state = [t \in Token |-> "none"]
    /\ lock = [t \in Token |-> NoOne]
    /\ pc = [s \in Session |-> "idle"] /\ tok = [s \in Session |-> 0]
    /\ who = [s \in Session |-> NoOne] /\ todo = [s \in Session |-> {}]
    /\ family = [s \in Session |-> {}]
    /\ heirs = [t \in Token |-> {}] /\ late = [t \in Token |-> 0]
    /\ condemned = {}

-----------------------------------------------------------------------------
(* Helpers *)

Issued(t) == state[t] # "none"

(* Session s goes from one step to the next. *)
Goto(s, from, to) ==
    /\ pc[s] = from
    /\ pc' = [pc EXCEPT ![s] = to]

(* A session begins at step l for account e and token t. *)
Begin(s, l, e, t) ==
    /\ Goto(s, "idle", l)
    /\ who' = [who EXCEPT ![s] = e]
    /\ tok' = [tok EXCEPT ![s] = t]
    /\ UNCHANGED <<todo, family>>

(* The rows session s has locked. *)
Mine(s) == {t \in Token : lock[t] = s}

Free(t, s) == lock[t] \in {NoOne, s}

(* The session closes: commit or rollback, both free its locks. *)
Close(s) ==
    /\ pc' = [pc EXCEPT ![s] = "idle"]
    /\ tok' = [tok EXCEPT ![s] = 0]
    /\ who' = [who EXCEPT ![s] = NoOne]
    /\ todo' = [todo EXCEPT ![s] = {}]
    /\ family' = [family EXCEPT ![s] = {}]
    /\ lock' = [t \in Token |-> IF lock[t] = s THEN NoOne ELSE lock[t]]

(* Mutant: the commit of a rotation does not revoke the old token. *)
IssueTokensKeepsOld(e, old) ==
    \E t \in Token :
        /\ ~Issued(t) /\ \A u \in Token : u < t => Issued(u)
        /\ owner' = [owner EXCEPT ![t] = e]
        /\ state' = [state EXCEPT ![t] = "live"]
        /\ heirs' = [u \in Token |-> IF u \in old THEN heirs[u] \cup {t} ELSE heirs[u]]
        /\ UNCHANGED <<late, condemned>>

(* _issue_tokens and commit: one new row for account e, in exchange for the *)
(* tokens of old, which the same commit revokes.                            *)
IssueTokens(e, old) ==
    \E t \in Token :
        /\ ~Issued(t) /\ \A u \in Token : u < t => Issued(u)
        /\ owner' = [owner EXCEPT ![t] = e]
        /\ state' = [u \in Token |-> IF u = t THEN "live"
                                     ELSE IF u \in old THEN "revoked" ELSE state[u]]
        /\ heirs' = [u \in Token |-> IF u \in old THEN heirs[u] \cup {t} ELSE heirs[u]]
        /\ late' = [late EXCEPT ![t] = IF active[e] THEN 0
                                       ELSE IF \E u \in old : late[u] > 0 THEN 2 ELSE 1]
        /\ UNCHANGED condemned

(* A committed UPDATE ... SET revoked = true for the rows S. *)
Revoke(S) ==
    /\ state' = [t \in Token |-> IF t \in S THEN "revoked" ELSE state[t]]
    /\ UNCHANGED <<owner, heirs, late>>

(* The tokens of account e that a statement sees now. *)
TokensOf(e) == {t \in Token : owner[t] = e}

-----------------------------------------------------------------------------
(* register, create_admin_user, create_admin of manage.py *)

(* register: SELECT finds no account; the password is hashed in a thread. *)
StartRegister(s, e) ==
    /\ role[e] = "none"
    /\ Begin(s, "hash", e, 0)
    /\ UNCHANGED <<users, tokens, lock>>

(* The same in create_admin_user and create_admin. *)
StartAdmin(s, e) ==
    /\ role[e] = "none"
    /\ Begin(s, "hashAdmin", e, 0)
    /\ UNCHANGED <<users, tokens, lock>>

(* Mutant: the email is not unique; the account made last is found. *)
AddUserLast(s, r) ==
    /\ role' = [role EXCEPT ![who[s]] = r]
    /\ Close(s)
    /\ UNCHANGED <<active, tokens>>

(* INSERT and commit; the unique index on the email turns the loser of a   *)
(* race into IntegrityError and its transaction into nothing.              *)
AddUser(s, r) ==
    /\ role' = [role EXCEPT ![who[s]] = IF @ = "none" THEN r ELSE @]
    /\ Close(s)
    /\ UNCHANGED <<active, tokens>>

(* The loser is answered 409, *)
InsertUser(s) == pc[s] = "hash" /\ AddUser(s, "user")

(* ... and here 500, or an error of the command. *)
InsertAdmin(s) == pc[s] = "hashAdmin" /\ AddUser(s, "admin")

-----------------------------------------------------------------------------
(* login *)

(* SELECT finds the account; the password is then verified in a thread, and *)
(* is_active of the row read before decides.                                *)
StartLogin(s, e) ==
    /\ role[e] # "none"
    /\ Begin(s, IF active[e] THEN "verify" ELSE "refuse", e, 0)
    /\ UNCHANGED <<users, tokens, lock>>

(* The right password; a wrong one is an Abort. *)
FinishLogin(s) ==
    /\ \/ pc[s] = "verify" /\ IssueTokens(who[s], {})
       \/ pc[s] = "refuse" /\ UNCHANGED tokens
    /\ Close(s)
    /\ UNCHANGED users

-----------------------------------------------------------------------------
(* refresh *)

(* A client presents a token it was given once. *)
StartRefresh(s, t) ==
    /\ Issued(t)
    /\ Begin(s, "select", NoOne, t)
    /\ UNCHANGED <<users, tokens, lock>>

(* The branches of refresh once its SELECT returned the row. *)
Branch(s) ==
    LET t == tok[s] IN
    /\ pc' = [pc EXCEPT ![s] = IF state[t] = "revoked" THEN "reuse" ELSE "user"]
    /\ who' = [who EXCEPT ![s] = owner[t]]
    /\ family' = [family EXCEPT ![s] = IF state[t] = "revoked" THEN TokensOf(owner[t]) ELSE {}]
    /\ UNCHANGED <<tok, todo>>

(* Mutant: a SELECT without FOR UPDATE. *)
SelectTokenUnlocked(s) ==
    /\ pc[s] = "select"
    /\ \/ state[tok[s]] = "live" /\ Close(s)
       \/ Branch(s) /\ UNCHANGED lock
    /\ UNCHANGED <<users, tokens>>

(* SELECT ... FOR UPDATE waits for the row lock and returns the row as it  *)
(* is then.  A live token may have expired, which rolls back.              *)
SelectToken(s) ==
    /\ pc[s] = "select" /\ Free(tok[s], s)
    /\ \/ state[tok[s]] = "live" /\ Close(s)
       \/ Branch(s) /\ lock' = [lock EXCEPT ![tok[s]] = s]
    /\ UNCHANGED <<users, tokens>>

(* Mutant: the account is not looked at again. *)
CheckUserSkipped(s) ==
    /\ Goto(s, "user", "rotate")
    /\ UNCHANGED <<users, tokens, lock, tok, who, todo, family>>

(* SELECT of the account; a disabled one is refused. *)
CheckUser(s) ==
    /\ pc[s] = "user"
    /\ \/ /\ active[who[s]] /\ Goto(s, "user", "rotate")
          /\ UNCHANGED <<lock, tok, who, todo, family>>
       \/ ~active[who[s]] /\ Close(s)
    /\ UNCHANGED <<users, tokens>>

(* stored.revoked = True, the new token and the commit. *)
Rotate(s) ==
    /\ pc[s] = "rotate"
    /\ IssueTokens(who[s], {tok[s]})
    /\ Close(s)
    /\ UNCHANGED users

(* Mutant: only the presented token is revoked. *)
StartFamilyAlone(s) ==
    /\ Goto(s, "reuse", "family")
    /\ todo' = [todo EXCEPT ![s] = {tok[s]}]
    /\ UNCHANGED <<users, tokens, lock, tok, who, family>>

(* The UPDATE of a detected reuse starts: it sees the tokens of the account *)
(* that are committed now.                                                  *)
StartFamily(s) ==
    /\ Goto(s, "reuse", "family")
    /\ todo' = [todo EXCEPT ![s] = TokensOf(who[s])]
    /\ UNCHANGED <<users, tokens, lock, tok, who, family>>

(* It locks row after row, in the order of its plan, waiting for each. *)
LockFamily(s) ==
    /\ pc[s] = "family"
    /\ \E t \in todo[s] :
        /\ Free(t, s)
        /\ lock' = [lock EXCEPT ![t] = s]
        /\ todo' = [todo EXCEPT ![s] = @ \ {t}]
    /\ UNCHANGED <<users, tokens, pc, tok, who, family>>

CommitFamily(s) ==
    /\ pc[s] = "family" /\ todo[s] = {}
    /\ Revoke(Mine(s))
    /\ condemned' = condemned \cup family[s]
    /\ Close(s)
    /\ UNCHANGED users

-----------------------------------------------------------------------------
(* logout *)

StartLogout(s, t) ==
    /\ Issued(t)
    /\ Begin(s, "logout", NoOne, t)
    /\ UNCHANGED <<users, tokens, lock>>

(* UPDATE ... WHERE token_hash: waits for the row lock. *)
LockLogout(s) ==
    /\ Goto(s, "logout", "update") /\ Free(tok[s], s)
    /\ lock' = [lock EXCEPT ![tok[s]] = s]
    /\ UNCHANGED <<users, tokens, tok, who, todo, family>>

(* Mutant: the session is never closed, its lock stays. *)
CommitLogoutLeaky(s) ==
    /\ Goto(s, "update", "idle")
    /\ Revoke(Mine(s))
    /\ condemned' = condemned \cup Mine(s)
    /\ UNCHANGED <<users, lock, tok, who, todo, family>>

CommitLogout(s) ==
    /\ pc[s] = "update"
    /\ Revoke(Mine(s))
    /\ condemned' = condemned \cup Mine(s)
    /\ Close(s)
    /\ UNCHANGED users

-----------------------------------------------------------------------------
(* The database and the world *)

(* Sessions whose row locks s waits for. *)
Blockers(s) ==
    {lock[t] : t \in IF pc[s] \in Waiting THEN {tok[s]} ELSE todo[s]} \ {NoOne, s}

(* PostgreSQL ends a cycle of waiting transactions by rolling one back. *)
DeadlockVictim(s) ==
    /\ \E C \in SUBSET Session :
        s \in C /\ \A x \in C : Blockers(x) \cap C # {}
    /\ Close(s)
    /\ UNCHANGED <<users, tokens>>

(* A wrong password, a lost connection, a client that went away. *)
Abort(s) ==
    /\ pc[s] # "idle"
    /\ Close(s)
    /\ UNCHANGED <<users, tokens>>

(* Where the bound on tokens ends a request that would issue one. *)
OutOfTokens(s) == pc[s] \in {"verify", "rotate"} /\ (\A t \in Token : Issued(t)) /\ Abort(s)

(* An operator disables an account in the database. *)
Disable(e) ==
    /\ role[e] # "none" /\ active[e]
    /\ active' = [active EXCEPT ![e] = FALSE]
    /\ UNCHANGED <<role, tokens, locals, lock>>

(* A request arrives. *)
Start(s) ==
    \/ \E e \in Email : StartRegister(s, e) \/ StartAdmin(s, e) \/ StartLogin(s, e)
    \/ \E t \in Token : StartRefresh(s, t) \/ StartLogout(s, t)

(* A request goes on. *)
Proceed(s) ==
    \/ InsertUser(s) \/ InsertAdmin(s) \/ FinishLogin(s)
    \/ SelectToken(s) \/ CheckUser(s) \/ Rotate(s)
    \/ StartFamily(s) \/ LockFamily(s) \/ CommitFamily(s)
    \/ LockLogout(s) \/ CommitLogout(s)
    \/ DeadlockVictim(s) \/ OutOfTokens(s)

Next ==
    \/ \E s \in Session : Start(s) \/ Proceed(s) \/ Abort(s)
    \/ \E e \in Email : Disable(e)

Spec == Init /\ [][Next]_vars

(* Every request goes on, and PostgreSQL grants row locks in the order in  *)
(* which they were asked for.                                              *)
FairSpec == Spec /\ \A s \in Session : SF_vars(Proceed(s))

-----------------------------------------------------------------------------
(* Properties *)

(* A refresh token is exchanged at most once, however many requests present *)
(* it at the same time: FOR UPDATE makes the second see the first's commit. *)
RotatedOnce == \A t \in Token : \A u, v \in heirs[t] : u = v

(* No token is exchanged after the commit that revoked it: a refresh that  *)
(* waits behind a logout or a family revocation is refused.                *)
NoExchangeAfterRevocation ==
    [][\A t \in Token : heirs'[t] # heirs[t] => state[t] # "revoked"]_vars

(* Once the request that detected a reuse has committed, every token the   *)
(* account had when the reuse was detected is revoked, as is the token of  *)
(* a logout.  This is what of ReuseRevokesAll holds.                       *)
FamilyRevoked == \A t \in condemned : state[t] = "revoked"

(* "revokes all of a user's refresh tokens" (ARCHITECTURE.md): the commit  *)
(* of a detected reuse also revokes what was issued in exchange for tokens *)
(* of the family.  It does not hold: the UPDATE sees the rows committed    *)
(* when it starts, and a rotation that commits while it waits for a lock   *)
(* leaves a live token, which no serial order of the two would.            *)
ReuseRevokesAll ==
    [][\A s \in Session :
          CommitFamily(s) => \A u \in family[s] : \A t \in heirs[u] : state'[t] = "revoked"]_vars

(* Disabling an account cuts its chain of refresh tokens: a request that   *)
(* read the account before may still issue one token, which buys no other. *)
DisabledChainEnds == \A t \in Token : late[t] <= 1

(* Registration never changes an account that exists, even when several    *)
(* requests and the operator's command race for one email.                 *)
AccountsKept == [][\A e \in Email : role[e] # "none" => role'[e] = role[e]]_vars

(* Every request ends: row locks are freed on every path, and the deadlock *)
(* of two family revocations, each holding the row the other waits for, is *)
(* broken by PostgreSQL.                                                   *)
SessionsEnd == \A s \in Session : pc[s] # "idle" ~> pc[s] = "idle"

-----------------------------------------------------------------------------
(* The inductive strengthening that the proofs use *)

(* A token that was exchanged, or that a committed revocation covers, is   *)
(* revoked; one issued late belongs to a disabled account; only rows that  *)
(* exist are locked.                                                       *)
RowInv ==
    \A t \in Token :
        /\ (\A u, v \in heirs[t] : u = v) /\ (heirs[t] # {} => state[t] = "revoked")
        /\ late[t] <= 1 /\ (late[t] > 0 => owner[t] \in Email /\ ~active[owner[t]])
        /\ t \in condemned => state[t] = "revoked"
        /\ lock[t] # NoOne => Issued(t)

(* From its SELECT on, refresh owns the lock of its row, which therefore   *)
(* stays as it was read; what the family's UPDATE has not locked yet is    *)
(* still to be locked.                                                     *)
SessionOk(s) ==
    /\ pc[s] \in {"hash", "hashAdmin", "verify", "refuse"} => who[s] \in Email
    /\ pc[s] \in Waiting => tok[s] \in Token /\ Issued(tok[s])
    /\ pc[s] \in Locked =>
        /\ tok[s] \in Token /\ lock[tok[s]] = s
        /\ who[s] \in Email /\ who[s] = owner[tok[s]]
    /\ pc[s] \in {"user", "rotate"} => state[tok[s]] = "live"
    /\ pc[s] = "rotate" => late[tok[s]] = 0
    /\ pc[s] = "reuse" => family[s] \subseteq TokensOf(who[s])
    /\ pc[s] = "family" => /\ family[s] \subseteq todo[s] \cup Mine(s)
                            /\ \A t \in todo[s] : Issued(t)

SessionInv == \A s \in Session : SessionOk(s)

AccountsInv == TypeOK /\ RowInv /\ SessionInv
=============================================================================
