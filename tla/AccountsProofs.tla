--------------------------- MODULE AccountsProofs ---------------------------
(***************************************************************************)
(* Proofs about Accounts, for any number of sessions, accounts and tokens: *)
(* types, one exchange per token, revocation that stays, the end of a      *)
(* disabled account's chain, and registration that overwrites nothing.     *)
(***************************************************************************)
EXTENDS Accounts, TLAPS

(* The step relation with one disjunct per action; a session that is       *)
(* rolled back, for whatever reason, is an Abort.                          *)
LEMMA Steps ==
    ASSUME Next
    PROVE  \/ \E s \in Session, e \in Email :
                StartRegister(s, e) \/ StartAdmin(s, e) \/ StartLogin(s, e)
           \/ \E s \in Session, t \in Token : StartRefresh(s, t) \/ StartLogout(s, t)
           \/ \E s \in Session :
                \/ InsertUser(s) \/ InsertAdmin(s) \/ FinishLogin(s)
                \/ SelectToken(s) \/ CheckUser(s) \/ Rotate(s)
                \/ StartFamily(s) \/ LockFamily(s) \/ CommitFamily(s)
                \/ LockLogout(s) \/ CommitLogout(s)
           \/ \E s \in Session : Close(s) /\ UNCHANGED <<users, tokens>>
           \/ \E e \in Email : Disable(e)
<1>1. ASSUME NEW s \in Session, DeadlockVictim(s) \/ OutOfTokens(s) \/ Abort(s)
      PROVE  Close(s) /\ UNCHANGED <<users, tokens>>
  BY <1>1, Zenon DEF DeadlockVictim, OutOfTokens, Abort
<1> QED
  BY <1>1, Zenon DEF Next, Start, Proceed

(* What closing a session leaves. *)
LEMMA CloseEffect ==
    ASSUME AccountsInv, NEW s \in Session, Close(s)
    PROVE  /\ pc' \in [Session -> Label] /\ pc'[s] = "idle"
           /\ tok' \in [Session -> Token \cup {0}]
           /\ who' \in [Session -> Email \cup {NoOne}]
           /\ todo' \in [Session -> SUBSET Token] /\ family' \in [Session -> SUBSET Token]
           /\ lock' \in [Token -> Session \cup {NoOne}]
           /\ \A t \in Token : lock[t] # s => lock'[t] = lock[t]
           /\ \A x \in Session \ {s} :
                /\ pc'[x] = pc[x] /\ tok'[x] = tok[x] /\ who'[x] = who[x]
                /\ todo'[x] = todo[x] /\ family'[x] = family[x]
<1>1. TypeOK /\ NoOne \notin Session
  BY AccountConstants DEF AccountsInv
<1>2. "idle" \in Label /\ 0 \in Token \cup {0}
  BY DEF Label
<1> QED
  BY <1>1, <1>2 DEF TypeOK, Close

(* What _issue_tokens leaves: one new row, and the old ones revoked. *)
LEMMA IssueEffect ==
    ASSUME AccountsInv, NEW e \in Email, NEW old \in SUBSET Token, IssueTokens(e, old),
           \A u \in old : state[u] = "live"
    PROVE  \E t \in Token :
            /\ t \notin old /\ state[t] = "none" /\ owner[t] = NoOne
            /\ state'[t] = "live" /\ owner'[t] = e /\ heirs'[t] = heirs[t]
            /\ late'[t] \in Nat /\ (late'[t] > 0 => ~active[e])
            /\ (\A u \in old : late[u] = 0) => late'[t] <= 1
            /\ condemned' = condemned
            /\ state' \in [Token -> {"none", "live", "revoked"}]
            /\ owner' \in [Token -> Email \cup {NoOne}]
            /\ heirs' \in [Token -> SUBSET Token] /\ late' \in [Token -> Nat]
            /\ \A u \in Token \ {t} :
                /\ owner'[u] = owner[u] /\ late'[u] = late[u]
                /\ u \in old => state'[u] = "revoked" /\ heirs'[u] = heirs[u] \cup {t}
                /\ u \notin old => state'[u] = state[u] /\ heirs'[u] = heirs[u]
<1>1. TypeOK
  BY DEF AccountsInv
<1>2. PICK t \in Token :
        /\ ~Issued(t)
        /\ owner' = [owner EXCEPT ![t] = e]
        /\ state' = [u \in Token |-> IF u = t THEN "live"
                                     ELSE IF u \in old THEN "revoked" ELSE state[u]]
        /\ heirs' = [u \in Token |-> IF u \in old THEN heirs[u] \cup {t} ELSE heirs[u]]
        /\ late' = [late EXCEPT ![t] = IF active[e] THEN 0
                                       ELSE IF \E u \in old : late[u] > 0 THEN 2 ELSE 1]
        /\ condemned' = condemned
  BY DEF IssueTokens
<1>3. state[t] = "none" /\ t \notin old /\ owner[t] = NoOne
  BY <1>1, <1>2 DEF Issued, TypeOK
<1>4. heirs \in [Token -> SUBSET Token] /\ late \in [Token -> Nat] /\ owner \in [Token -> Email \cup {NoOne}]
      /\ state \in [Token -> {"none", "live", "revoked"}]
  BY <1>1 DEF TypeOK
<1>5. /\ late' \in [Token -> Nat] /\ (late'[t] > 0 => ~active[e])
      /\ (\A u \in old : late[u] = 0) => late'[t] <= 1
      /\ \A u \in Token \ {t} : late'[u] = late[u]
  BY <1>2, <1>4
<1>6. /\ state' \in [Token -> {"none", "live", "revoked"}]
      /\ owner' \in [Token -> Email \cup {NoOne}] /\ heirs' \in [Token -> SUBSET Token]
  BY <1>2, <1>4
<1>7. \A u \in Token \ {t} :
        /\ owner'[u] = owner[u]
        /\ u \in old => state'[u] = "revoked" /\ heirs'[u] = heirs[u] \cup {t}
        /\ u \notin old => state'[u] = state[u] /\ heirs'[u] = heirs[u]
  BY <1>2, <1>4
<1> QED
  BY <1>2, <1>3, <1>4, <1>5, <1>6, <1>7

-----------------------------------------------------------------------------
(* Types *)

LEMMA InitInv == Init => AccountsInv
<1> SUFFICES ASSUME Init PROVE AccountsInv
  OBVIOUS
<1> USE AccountConstants
<1>1. TypeOK
  BY DEF Init, TypeOK, Label
<1>2. RowInv
  BY DEF Init, RowInv, Issued
<1>3. SessionInv
  BY DEF Init, SessionInv, SessionOk, Waiting, Locked
<1> QED
  BY <1>1, <1>2, <1>3 DEF AccountsInv

-----------------------------------------------------------------------------
(* Steps *)

(* A session that a step is not about keeps its part of the invariant: its *)
(* locks stay, and so do the rows it has locked and all issued ones but    *)
(* for their revocation.                                                   *)
LEMMA Bystander ==
    ASSUME AccountsInv, NEW x \in Session,
           /\ pc'[x] = pc[x] /\ tok'[x] = tok[x] /\ who'[x] = who[x]
           /\ todo'[x] = todo[x] /\ family'[x] = family[x],
           \A t \in Token :
                /\ lock[t] = x => lock'[t] = x /\ (state[t] # "none" => state'[t] = state[t])
                /\ state[t] # "none" => /\ state'[t] # "none" /\ owner'[t] = owner[t]
                                        /\ late'[t] = late[t]
    PROVE  SessionOk(x)'
<1>1. SessionOk(x) /\ TypeOK
  BY DEF AccountsInv, SessionInv
<1>2. \A t \in Token : owner[t] # NoOne => state[t] # "none"
  BY <1>1 DEF TypeOK
<1>3. pc[x] \in Locked => state[tok[x]] # "none"
  BY <1>1, <1>2, AccountConstants DEF SessionOk
<1>4. pc[x] = "reuse" => TokensOf(who[x]) \subseteq TokensOf(who[x])'
  BY <1>1, <1>2, AccountConstants DEF SessionOk, TokensOf, Locked
<1>5. Mine(x) \subseteq Mine(x)'
  BY DEF Mine
<1>6. pc[x] = "family" => \A t \in todo[x] : Issued(t)'
  BY <1>1 DEF SessionOk, TypeOK, Issued
<1>7. {"user", "rotate", "reuse", "family"} = Locked
  BY DEF Locked
<1> QED
  BY <1>1, <1>3, <1>4, <1>5, <1>6, <1>7 DEF SessionOk, Issued

(* A step that leaves the rows alone. *)
LEMMA SameRows ==
    ASSUME AccountsInv, UNCHANGED <<users, tokens, lock>>
    PROVE  RowInv' /\ (\A t \in Token : owner'[t] = NoOne <=> state'[t] = "none")
  BY DEF AccountsInv, TypeOK, RowInv, Issued, users, tokens

(* Sessions begin. *)
LEMMA BeginStep ==
    ASSUME AccountsInv, NEW s \in Session, NEW l \in Label, NEW e \in Email \cup {NoOne},
           NEW t \in Token \cup {0}, Begin(s, l, e, t), UNCHANGED <<users, tokens, lock>>,
           \/ l \in {"hash", "hashAdmin", "verify", "refuse"} /\ e \in Email
           \/ l \in Waiting /\ t \in Token /\ Issued(t)
    PROVE  AccountsInv'
<1>1. TypeOK
  BY DEF AccountsInv
<1>2. TypeOK'
  BY <1>1 DEF TypeOK, Begin, Goto, users, tokens
<1>3. SessionOk(s)'
  BY <1>1 DEF TypeOK, Begin, Goto, SessionOk, Issued, Waiting, Locked, tokens
<1>4. \A x \in Session \ {s} : SessionOk(x)'
  <2> SUFFICES ASSUME NEW x \in Session \ {s} PROVE SessionOk(x)'
    OBVIOUS
  <2>1. /\ pc'[x] = pc[x] /\ tok'[x] = tok[x] /\ who'[x] = who[x]
        /\ todo'[x] = todo[x] /\ family'[x] = family[x]
    BY <1>1 DEF TypeOK, Begin, Goto
  <2> QED
    BY <2>1, Bystander DEF tokens
<1> QED
  BY <1>2, <1>3, <1>4, SameRows DEF AccountsInv, SessionInv

(* A session closes without a change to tokens. *)
LEMMA CloseStep ==
    ASSUME AccountsInv, NEW s \in Session, Close(s), UNCHANGED <<active, tokens>>,
           role' \in [Email -> {"none", "user", "admin"}]
    PROVE  AccountsInv'
<1>1. TypeOK
  BY DEF AccountsInv
<1>2. TypeOK'
  BY <1>1, CloseEffect DEF TypeOK, tokens
<1>3. RowInv'
  BY <1>1, CloseEffect DEF AccountsInv, RowInv, TypeOK, Close, Issued, tokens
<1>4. \A x \in Session \ {s} : SessionOk(x)'
  BY CloseEffect, Bystander DEF tokens
<1>5. SessionOk(s)'
  BY CloseEffect DEF SessionOk, Waiting, Locked
<1> QED
  BY <1>2, <1>3, <1>4, <1>5 DEF AccountsInv, SessionInv

(* login and rotation commit. *)
LEMMA IssueStep ==
    ASSUME AccountsInv, NEW s \in Session, NEW e \in Email, NEW old \in SUBSET Token,
           IssueTokens(e, old), Close(s), UNCHANGED users,
           \A u \in old : state[u] = "live" /\ lock[u] = s /\ late[u] = 0
    PROVE  AccountsInv'
<1>1. TypeOK /\ RowInv
  BY DEF AccountsInv
<1>2. PICK t \in Token :
            /\ t \notin old /\ state[t] = "none" /\ owner[t] = NoOne
            /\ state'[t] = "live" /\ owner'[t] = e /\ heirs'[t] = heirs[t]
            /\ late'[t] \in Nat /\ (late'[t] > 0 => ~active[e]) /\ late'[t] <= 1
            /\ condemned' = condemned
            /\ state' \in [Token -> {"none", "live", "revoked"}]
            /\ owner' \in [Token -> Email \cup {NoOne}]
            /\ heirs' \in [Token -> SUBSET Token] /\ late' \in [Token -> Nat]
            /\ \A u \in Token \ {t} :
                /\ owner'[u] = owner[u] /\ late'[u] = late[u]
                /\ u \in old => state'[u] = "revoked" /\ heirs'[u] = heirs[u] \cup {t}
                /\ u \notin old => state'[u] = state[u] /\ heirs'[u] = heirs[u]
  BY IssueEffect
<1>3. \A u \in Token : owner'[u] = NoOne <=> state'[u] = "none"
  BY <1>1, <1>2, AccountConstants DEF TypeOK
<1>4. TypeOK'
  BY <1>1, <1>2, <1>3, CloseEffect DEF TypeOK, users
<1>5. \A u \in Token : /\ \A v, w \in heirs'[u] : v = w
                       /\ heirs'[u] # {} => state'[u] = "revoked"
  <2> SUFFICES ASSUME NEW u \in Token
               PROVE  /\ \A v, w \in heirs'[u] : v = w
                      /\ heirs'[u] # {} => state'[u] = "revoked"
    OBVIOUS
  <2>1. (\A v, w \in heirs[u] : v = w) /\ (heirs[u] # {} => state[u] = "revoked")
    BY <1>1 DEF RowInv
  <2>2. CASE u = t
    BY <1>2, <2>1, <2>2
  <2>3. CASE u \in old
    <3>1. heirs[u] = {}
      BY <2>1, <2>3
    <3>2. heirs'[u] = {t} /\ state'[u] = "revoked"
      BY <1>2, <2>3, <3>1
    <3> QED
      BY <3>2
  <2>4. CASE u # t /\ u \notin old
    BY <1>2, <2>1, <2>4
  <2> QED
    BY <2>2, <2>3, <2>4
<1>6. \A u \in Token : late'[u] <= 1 /\ (late'[u] > 0 => owner'[u] \in Email /\ ~active'[owner'[u]])
  BY <1>1, <1>2 DEF RowInv, users
<1>7. \A u \in Token : u \in condemned' => state'[u] = "revoked"
  BY <1>1, <1>2 DEF RowInv
<1>8. RowInv'
  <2>1. \A u \in Token : lock'[u] # NoOne => state'[u] # "none"
    BY <1>1, <1>2, AccountConstants DEF RowInv, Issued, Close
  <2> QED
    BY <1>5, <1>6, <1>7, <2>1 DEF RowInv, Issued
<1>9. SessionOk(s)'
  BY CloseEffect DEF SessionOk, Waiting, Locked
<1>10. \A x \in Session \ {s} : SessionOk(x)'
  <2> SUFFICES ASSUME NEW x \in Session \ {s} PROVE SessionOk(x)'
    OBVIOUS
  <2>1. ASSUME NEW u \in Token
        PROVE  /\ state[u] # "none" => /\ state'[u] # "none" /\ owner'[u] = owner[u]
                                       /\ late'[u] = late[u]
    BY <1>2
  <2>2. ASSUME NEW u \in Token, lock[u] = x PROVE lock'[u] = x
    BY <2>2, CloseEffect
  <2>3. ASSUME NEW u \in Token, lock[u] = x, state[u] # "none" PROVE state'[u] = state[u]
    BY <1>2, <2>3
  <2> QED
    BY <2>1, <2>2, <2>3, CloseEffect, Bystander
<1> QED
  BY <1>4, <1>8, <1>9, <1>10 DEF AccountsInv, SessionInv

(* A committed UPDATE revokes rows that s has locked. *)
LEMMA RevokeStep ==
    ASSUME AccountsInv, NEW s \in Session, Revoke(Mine(s)), Close(s), UNCHANGED users,
           condemned' \subseteq condemned \cup Mine(s)
    PROVE  AccountsInv'
<1>1. TypeOK /\ RowInv
  BY DEF AccountsInv
<1>2. /\ owner' = owner /\ heirs' = heirs /\ late' = late
      /\ state' \in [Token -> {"none", "live", "revoked"}]
      /\ \A t \in Token : state'[t] = IF lock[t] = s THEN "revoked" ELSE state[t]
  BY <1>1 DEF Revoke, Mine, TypeOK
<1>3. \A t \in Token : owner'[t] = NoOne <=> state'[t] = "none"
  BY <1>1, <1>2, AccountConstants DEF TypeOK, RowInv, Issued
<1>4. condemned' \subseteq Token
  BY <1>1 DEF TypeOK, Mine
<1>5. TypeOK'
  BY <1>1, <1>2, <1>3, <1>4, CloseEffect DEF TypeOK, users
<1>6. RowInv'
  BY <1>1, <1>2 DEF RowInv, Mine, Close, Issued, users
<1>7. SessionOk(s)'
  BY CloseEffect DEF SessionOk, Waiting, Locked
<1>8. \A x \in Session \ {s} : SessionOk(x)'
  <2> SUFFICES ASSUME NEW x \in Session \ {s} PROVE SessionOk(x)'
    OBVIOUS
  <2>1. ASSUME NEW u \in Token, lock[u] = x PROVE lock'[u] = x /\ state'[u] = state[u]
    BY <1>2, <2>1, CloseEffect
  <2>2. ASSUME NEW u \in Token, state[u] # "none"
        PROVE  state'[u] # "none" /\ owner'[u] = owner[u] /\ late'[u] = late[u]
    BY <1>2, <2>2
  <2> QED
    BY <2>1, <2>2, CloseEffect, Bystander
<1> QED
  BY <1>5, <1>6, <1>7, <1>8 DEF AccountsInv, SessionInv

(* A session takes a free row lock, and nothing else changes but s itself. *)
LEMMA LockStep ==
    ASSUME AccountsInv, NEW s \in Session, NEW t \in Token, Free(t, s),
           lock' = [lock EXCEPT ![t] = s], UNCHANGED <<users, tokens>>, Issued(t),
           \A x \in Session \ {s} :
                /\ pc'[x] = pc[x] /\ tok'[x] = tok[x] /\ who'[x] = who[x]
                /\ todo'[x] = todo[x] /\ family'[x] = family[x]
    PROVE  /\ lock' \in [Token -> Session \cup {NoOne}] /\ lock'[t] = s
           /\ Mine(s) \cup {t} \subseteq Mine(s)' /\ RowInv'
           /\ \A x \in Session \ {s} : SessionOk(x)'
<1>1. lock \in [Token -> Session \cup {NoOne}]
  BY DEF AccountsInv, TypeOK
<1>2. lock' \in [Token -> Session \cup {NoOne}] /\ lock'[t] = s
  BY <1>1
<1>3. \A u \in Token : lock[u] = s => lock'[u] = s
  BY <1>1
<1>4. ASSUME NEW x \in Session \ {s}, NEW u \in Token, lock[u] = x PROVE lock'[u] = x
  BY <1>1, <1>4, AccountConstants DEF Free
<1>5. \A x \in Session \ {s} : SessionOk(x)'
  BY <1>4, Bystander DEF tokens
<1>6. RowInv'
  BY <1>1 DEF AccountsInv, RowInv, Issued, users, tokens
<1> QED
  BY <1>2, <1>3, <1>5, <1>6 DEF Mine

(* Each action keeps the invariant. *)
LEMMA InvStep ==
    ASSUME AccountsInv, [Next]_vars
    PROVE  AccountsInv'
<1> USE AccountConstants
<1>0. TypeOK /\ RowInv /\ SessionInv
  BY DEF AccountsInv
<1>1. ASSUME NEW s \in Session, NEW e \in Email,
             StartRegister(s, e) \/ StartAdmin(s, e) \/ StartLogin(s, e)
      PROVE  AccountsInv'
  <2>1. PICK l \in {"hash", "hashAdmin", "verify", "refuse"} : Begin(s, l, e, 0)
    BY <1>1 DEF StartRegister, StartAdmin, StartLogin
  <2>2. l \in Label /\ 0 \in Token \cup {0} /\ e \in Email \cup {NoOne}
    BY DEF Label
  <2>3. UNCHANGED <<users, tokens, lock>>
    BY <1>1 DEF StartRegister, StartAdmin, StartLogin
  <2> QED
    BY <2>1, <2>2, <2>3, BeginStep
<1>2. ASSUME NEW s \in Session, NEW t \in Token, StartRefresh(s, t) \/ StartLogout(s, t)
      PROVE  AccountsInv'
  <2>1. PICK l \in Waiting : Begin(s, l, NoOne, t)
    BY <1>2 DEF StartRefresh, StartLogout, Waiting
  <2>2. l \in Label /\ t \in Token \cup {0} /\ NoOne \in Email \cup {NoOne}
    BY DEF Label
  <2>3. UNCHANGED <<users, tokens, lock>> /\ Issued(t)
    BY <1>2 DEF StartRefresh, StartLogout
  <2> QED
    BY <2>1, <2>2, <2>3, BeginStep
<1>3. ASSUME NEW s \in Session, InsertUser(s) \/ InsertAdmin(s)
      PROVE  AccountsInv'
  <2>1. role' \in [Email -> {"none", "user", "admin"}]
    BY <1>0, <1>3 DEF InsertUser, InsertAdmin, AddUser, TypeOK
  <2> QED
    BY <1>3, <2>1, CloseStep DEF InsertUser, InsertAdmin, AddUser
<1>4. ASSUME NEW s \in Session, FinishLogin(s)
      PROVE  AccountsInv'
  <2>1. CASE pc[s] = "verify" /\ IssueTokens(who[s], {})
    <3>1. who[s] \in Email
      BY <1>0, <2>1 DEF SessionInv, SessionOk
    <3> QED
      BY <1>4, <2>1, <3>1, IssueStep DEF FinishLogin
  <2>2. CASE UNCHANGED tokens
    BY <1>0, <1>4, <2>2, CloseStep DEF FinishLogin, users, TypeOK
  <2> QED
    BY <1>4, <2>1, <2>2 DEF FinishLogin
<1>5. ASSUME NEW s \in Session, SelectToken(s)
      PROVE  AccountsInv'
  <2>1. CASE Close(s)
    BY <1>0, <1>5, <2>1, CloseStep DEF SelectToken, users, TypeOK
  <2>2. CASE Branch(s) /\ lock' = [lock EXCEPT ![tok[s]] = s]
    <3>1. /\ pc[s] = "select" /\ tok[s] \in Token /\ Issued(tok[s]) /\ Free(tok[s], s)
          /\ owner[tok[s]] \in Email
      BY <1>0, <1>5 DEF SelectToken, SessionInv, SessionOk, Waiting, TypeOK, Issued
    <3>2. \A x \in Session \ {s} :
                /\ pc'[x] = pc[x] /\ tok'[x] = tok[x] /\ who'[x] = who[x]
                /\ todo'[x] = todo[x] /\ family'[x] = family[x]
      BY <1>0, <2>2 DEF Branch, TypeOK
    <3>3. UNCHANGED <<users, tokens>>
      BY <1>5 DEF SelectToken
    <3>4. /\ lock' \in [Token -> Session \cup {NoOne}] /\ lock'[tok[s]] = s
          /\ Mine(s) \cup {tok[s]} \subseteq Mine(s)' /\ RowInv'
          /\ \A x \in Session \ {s} : SessionOk(x)'
      BY <2>2, <3>1, <3>2, <3>3, LockStep
    <3>5. TypeOK'
      BY <1>0, <2>2, <3>1, <3>3, <3>4 DEF TypeOK, Branch, TokensOf, Label, Locked, users, tokens
    <3>6. SessionOk(s)'
      BY <1>0, <2>2, <3>1, <3>3, <3>4
         DEF TypeOK, Branch, TokensOf, SessionOk, Issued, Waiting, Locked, tokens
    <3> QED
      BY <3>4, <3>5, <3>6 DEF AccountsInv, SessionInv
  <2> QED
    BY <1>5, <2>1, <2>2 DEF SelectToken
<1>6. ASSUME NEW s \in Session, CheckUser(s)
      PROVE  AccountsInv'
  <2>1. CASE Close(s)
    BY <1>0, <1>6, <2>1, CloseStep DEF CheckUser, users, TypeOK
  <2>2. CASE /\ active[who[s]] /\ Goto(s, "user", "rotate")
             /\ UNCHANGED <<lock, tok, who, todo, family>>
    <3>1. UNCHANGED <<users, tokens, lock>>
      BY <1>6, <2>2 DEF CheckUser
    <3>2. TypeOK' /\ RowInv'
      BY <1>0, <2>2, <3>1, SameRows DEF TypeOK, Goto, Label, Locked, users, tokens
    <3>3. late[tok[s]] = 0 /\ tok[s] \in Token /\ state[tok[s]] = "live"
          /\ who[s] \in Email /\ who[s] = owner[tok[s]] /\ lock[tok[s]] = s
      BY <1>0, <2>2 DEF SessionInv, SessionOk, Goto, Locked, RowInv, TypeOK
    <3>4. SessionOk(s)'
      BY <1>0, <2>2, <3>1, <3>3 DEF SessionOk, Goto, TypeOK, Waiting, Locked, tokens
    <3>5. \A x \in Session \ {s} : SessionOk(x)'
      <4>1. \A x \in Session \ {s} : pc'[x] = pc[x]
        BY <1>0, <2>2 DEF Goto, TypeOK
      <4> QED
        BY <2>2, <3>1, <4>1, Bystander DEF tokens
    <3> QED
      BY <3>2, <3>4, <3>5 DEF AccountsInv, SessionInv
  <2> QED
    BY <1>6, <2>1, <2>2 DEF CheckUser
<1>7. ASSUME NEW s \in Session, Rotate(s)
      PROVE  AccountsInv'
  <2>1. /\ who[s] \in Email /\ tok[s] \in Token
        /\ state[tok[s]] = "live" /\ lock[tok[s]] = s /\ late[tok[s]] = 0
    BY <1>0, <1>7 DEF Rotate, SessionInv, SessionOk, Locked
  <2> QED
    BY <1>7, <2>1, IssueStep DEF Rotate
<1>8. ASSUME NEW s \in Session, StartFamily(s)
      PROVE  AccountsInv'
  <2>1. UNCHANGED <<users, tokens, lock, tok, who, family>> /\ pc[s] = "reuse"
    BY <1>8 DEF StartFamily, Goto
  <2>2. TypeOK' /\ RowInv'
    BY <1>0, <1>8, <2>1, SameRows DEF TypeOK, StartFamily, Goto, Label, Locked, TokensOf, users, tokens
  <2>3. /\ tok[s] \in Token /\ lock[tok[s]] = s /\ who[s] \in Email
        /\ who[s] = owner[tok[s]] /\ family[s] \subseteq TokensOf(who[s])
    BY <1>0, <2>1 DEF SessionInv, SessionOk, Locked
  <2>4. \A t \in TokensOf(who[s]) : Issued(t)
    BY <1>0, <2>3 DEF TokensOf, TypeOK, Issued
  <2>5. SessionOk(s)'
    BY <1>0, <1>8, <2>1, <2>3, <2>4
       DEF SessionOk, StartFamily, Goto, TypeOK, Waiting, Locked, Issued, tokens
  <2>6. \A x \in Session \ {s} : SessionOk(x)'
    <3>1. \A x \in Session \ {s} : pc'[x] = pc[x] /\ todo'[x] = todo[x]
      BY <1>0, <1>8 DEF StartFamily, Goto, TypeOK
    <3> QED
      BY <2>1, <3>1, Bystander DEF tokens
  <2> QED
    BY <2>2, <2>5, <2>6 DEF AccountsInv, SessionInv
<1>9. ASSUME NEW s \in Session, LockFamily(s)
      PROVE  AccountsInv'
  <2>1. PICK t \in todo[s] :
            /\ Free(t, s) /\ lock' = [lock EXCEPT ![t] = s]
            /\ todo' = [todo EXCEPT ![s] = @ \ {t}]
    BY <1>9 DEF LockFamily
  <2>2. /\ pc[s] = "family" /\ UNCHANGED <<users, tokens, pc, tok, who, family>>
    BY <1>9 DEF LockFamily
  <2>3. /\ t \in Token /\ Issued(t) /\ todo[s] \subseteq Token
        /\ \A u \in todo[s] : Issued(u)
        /\ tok[s] \in Token /\ lock[tok[s]] = s /\ who[s] \in Email
        /\ who[s] = owner[tok[s]] /\ family[s] \subseteq todo[s] \cup Mine(s)
    BY <1>0, <2>1, <2>2 DEF SessionInv, SessionOk, Locked, TypeOK
  <2>4. \A x \in Session \ {s} : todo'[x] = todo[x]
    BY <1>0, <2>1 DEF TypeOK
  <2>5. /\ lock' \in [Token -> Session \cup {NoOne}] /\ lock'[t] = s
        /\ Mine(s) \cup {t} \subseteq Mine(s)' /\ RowInv'
        /\ \A x \in Session \ {s} : SessionOk(x)'
    BY <2>1, <2>2, <2>3, <2>4, LockStep
  <2>6. TypeOK'
    BY <1>0, <2>1, <2>2, <2>5 DEF TypeOK, users, tokens
  <2>7. todo'[s] = todo[s] \ {t} /\ lock'[tok[s]] = s
    BY <1>0, <2>1, <2>3 DEF TypeOK
  <2>8. SessionOk(s)'
    BY <2>2, <2>3, <2>5, <2>7 DEF SessionOk, Waiting, Locked, Issued, tokens
  <2> QED
    BY <2>5, <2>6, <2>8 DEF AccountsInv, SessionInv
<1>10. ASSUME NEW s \in Session, CommitFamily(s)
       PROVE  AccountsInv'
  <2>1. family[s] \subseteq Mine(s)
    BY <1>0, <1>10 DEF CommitFamily, SessionInv, SessionOk
  <2> QED
    BY <1>10, <2>1, RevokeStep DEF CommitFamily
<1>11. ASSUME NEW s \in Session, LockLogout(s)
       PROVE  AccountsInv'
  <2>1. /\ pc[s] = "logout" /\ tok[s] \in Token /\ Issued(tok[s]) /\ Free(tok[s], s)
        /\ UNCHANGED <<users, tokens, tok, who, todo, family>>
        /\ lock' = [lock EXCEPT ![tok[s]] = s]
    BY <1>0, <1>11 DEF LockLogout, Goto, SessionInv, SessionOk, Waiting
  <2>2. pc' \in [Session -> Label] /\ pc'[s] = "update" /\ \A x \in Session \ {s} : pc'[x] = pc[x]
    BY <1>0, <1>11 DEF LockLogout, Goto, TypeOK, Label
  <2>3. /\ lock' \in [Token -> Session \cup {NoOne}] /\ RowInv'
        /\ \A x \in Session \ {s} : SessionOk(x)'
    BY <2>1, <2>2, LockStep
  <2>4. TypeOK'
    BY <1>0, <2>1, <2>2, <2>3 DEF TypeOK, users, tokens
  <2>5. SessionOk(s)'
    BY <2>2 DEF SessionOk, Waiting, Locked
  <2> QED
    BY <2>3, <2>4, <2>5 DEF AccountsInv, SessionInv
<1>12. ASSUME NEW s \in Session, CommitLogout(s)
       PROVE  AccountsInv'
  BY <1>12, RevokeStep DEF CommitLogout
<1>13. ASSUME NEW s \in Session, Close(s), UNCHANGED <<users, tokens>>
       PROVE  AccountsInv'
  BY <1>0, <1>13, CloseStep DEF users, TypeOK
<1>14. ASSUME NEW e \in Email, Disable(e)
       PROVE  AccountsInv'
  <2>1. active' = [active EXCEPT ![e] = FALSE] /\ UNCHANGED <<role, tokens, locals, lock>>
    BY <1>14 DEF Disable
  <2>2. TypeOK'
    BY <1>0, <2>1 DEF TypeOK, tokens, locals
  <2>3. RowInv'
    BY <1>0, <2>1 DEF TypeOK, RowInv, Issued, tokens
  <2>4. SessionInv'
    BY <2>1, Bystander DEF SessionInv, tokens, locals
  <2> QED
    BY <2>2, <2>3, <2>4 DEF AccountsInv
<1>15. CASE UNCHANGED vars
  <2>1. UNCHANGED <<users, tokens, lock, pc, tok, who, todo, family>>
    BY <1>15 DEF vars, locals
  <2>2. TypeOK' /\ RowInv'
    BY <1>0, <2>1, SameRows DEF TypeOK, users, tokens
  <2>3. SessionInv'
    BY <2>1, Bystander DEF SessionInv, tokens
  <2> QED
    BY <2>2, <2>3 DEF AccountsInv
<1>16. CASE Next
  BY <1>16, Steps, <1>1, <1>2, <1>3, <1>4, <1>5, <1>6, <1>7, <1>8, <1>9, <1>10, <1>11,
     <1>12, <1>13, <1>14
<1> QED
  BY <1>15, <1>16

(* The invariant holds throughout. *)
THEOREM AccountsCorrect == Spec => []AccountsInv
  BY InitInv, InvStep, PTL DEF Spec

(* Types, and every row has an owner exactly when it exists. *)
THEOREM AccountTypes == Spec => []TypeOK
<1>1. AccountsInv => TypeOK
  BY DEF AccountsInv
<1> QED
  BY <1>1, AccountsCorrect, PTL

(* However many requests present a token at once, refresh exchanges it at  *)
(* most once.                                                              *)
THEOREM OneExchange == Spec => []RotatedOnce
<1>1. AccountsInv => RotatedOnce
  BY DEF AccountsInv, RowInv, RotatedOnce
<1> QED
  BY <1>1, AccountsCorrect, PTL

(* The commit of a detected reuse covers the whole family as it was found, *)
(* and nothing makes a revoked token live again.                           *)
THEOREM FamilyStaysRevoked == Spec => []FamilyRevoked
<1>1. AccountsInv => FamilyRevoked
  BY DEF AccountsInv, TypeOK, RowInv, FamilyRevoked
<1> QED
  BY <1>1, AccountsCorrect, PTL

(* After an account was disabled, a request already under way may issue    *)
(* one more token, but that token is never exchanged for another.          *)
THEOREM ChainEnds == Spec => []DisabledChainEnds
<1>1. AccountsInv => DisabledChainEnds
  BY DEF AccountsInv, RowInv, DisabledChainEnds
<1> QED
  BY <1>1, AccountsCorrect, PTL

(* refresh never exchanges a token after the commit that revoked it. *)
THEOREM NoLateExchange == Spec => NoExchangeAfterRevocation
<1>1. ASSUME AccountsInv, [Next]_vars
      PROVE  [\A t \in Token : heirs'[t] # heirs[t] => state[t] # "revoked"]_vars
  <2>1. ASSUME NEW s \in Session, Rotate(s), NEW t \in Token, heirs'[t] # heirs[t]
        PROVE  state[t] # "revoked"
    <3>1. state[tok[s]] = "live" /\ who[s] \in Email /\ tok[s] \in Token
      BY <1>1, <2>1 DEF Rotate, AccountsInv, SessionInv, SessionOk, Locked
    <3>2. t = tok[s]
      BY <2>1 DEF Rotate, IssueTokens
    <3> QED
      BY <3>1, <3>2
  <2>2. ASSUME NEW s \in Session, FinishLogin(s)
        PROVE  \A t \in Token : heirs'[t] = heirs[t]
    BY <1>1, <2>2 DEF FinishLogin, IssueTokens, tokens, AccountsInv, TypeOK
  <2>3. ASSUME NEW s \in Session,
               \/ InsertUser(s) \/ InsertAdmin(s) \/ SelectToken(s) \/ CheckUser(s)
               \/ StartFamily(s) \/ LockFamily(s) \/ CommitFamily(s) \/ LockLogout(s) \/ CommitLogout(s)
        PROVE  heirs' = heirs
    BY <2>3 DEF InsertUser, InsertAdmin, AddUser, SelectToken, CheckUser, StartFamily,
                LockFamily, CommitFamily, LockLogout, CommitLogout, Revoke, tokens
  <2>4. ASSUME NEW s \in Session, NEW e \in Email,
               StartRegister(s, e) \/ StartAdmin(s, e) \/ StartLogin(s, e)
        PROVE  heirs' = heirs
    BY <2>4 DEF StartRegister, StartAdmin, StartLogin, tokens
  <2>5. ASSUME NEW s \in Session, NEW t \in Token, StartRefresh(s, t) \/ StartLogout(s, t)
        PROVE  heirs' = heirs
    BY <2>5 DEF StartRefresh, StartLogout, tokens
  <2>6. ASSUME NEW e \in Email, Disable(e)
        PROVE  heirs' = heirs
    BY <2>6 DEF Disable, tokens
  <2>7. UNCHANGED tokens => heirs' = heirs
    BY DEF tokens
  <2> QED
    BY <1>1, <2>1, <2>2, <2>3, <2>4, <2>5, <2>6, <2>7, Steps
<1> QED
  BY <1>1, AccountsCorrect, PTL DEF Spec, NoExchangeAfterRevocation

(* The unique index decides every race for an email: an account that       *)
(* exists keeps its role.                                                  *)
THEOREM RegistrationSafe == Spec => AccountsKept
<1>1. ASSUME AccountsInv, [Next]_vars
      PROVE  [\A e \in Email : role[e] # "none" => role'[e] = role[e]]_vars
  <2>1. ASSUME NEW s \in Session, InsertUser(s) \/ InsertAdmin(s), NEW e \in Email, role[e] # "none"
        PROVE  role'[e] = role[e]
    BY <1>1, <2>1 DEF InsertUser, InsertAdmin, AddUser, AccountsInv, TypeOK
  <2>2. ASSUME NEW s \in Session,
               \/ FinishLogin(s) \/ SelectToken(s) \/ CheckUser(s) \/ Rotate(s)
               \/ StartFamily(s) \/ LockFamily(s) \/ CommitFamily(s)
               \/ LockLogout(s) \/ CommitLogout(s)
        PROVE  role' = role
    BY <2>2 DEF FinishLogin, SelectToken, CheckUser, Rotate, StartFamily, LockFamily,
                CommitFamily, LockLogout, CommitLogout, users
  <2>3. ASSUME NEW s \in Session, NEW e \in Email,
               StartRegister(s, e) \/ StartAdmin(s, e) \/ StartLogin(s, e)
        PROVE  role' = role
    BY <2>3 DEF StartRegister, StartAdmin, StartLogin, users
  <2>4. ASSUME NEW s \in Session, NEW t \in Token, StartRefresh(s, t) \/ StartLogout(s, t)
        PROVE  role' = role
    BY <2>4 DEF StartRefresh, StartLogout, users
  <2>5. ASSUME NEW e \in Email, Disable(e)
        PROVE  role' = role
    BY <2>5 DEF Disable
  <2>6. UNCHANGED users => role' = role
    BY DEF users
  <2> QED
    BY <1>1, <2>1, <2>2, <2>3, <2>4, <2>5, <2>6, Steps
<1> QED
  BY <1>1, AccountsCorrect, PTL DEF Spec, AccountsKept
=============================================================================
