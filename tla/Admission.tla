----------------------------- MODULE Admission -----------------------------
(***************************************************************************)
(* What a request passes before its route runs, in the order of main.py:   *)
(* BodyLimitMiddleware buffers its body, RateLimitMiddleware counts it,    *)
(* AuthMiddleware finds out who sent it, and require_admin guards the      *)
(* routes that create and revoke API keys.                                 *)
(*                                                                         *)
(* Requests are served by any process.  What a request carries is chosen   *)
(* when the code looks at it.  Key and enabled stand for one administrator *)
(* and the keys that account may create.                                   *)
(***************************************************************************)
EXTENDS RateLimiter

CONSTANTS
    Client,     \* addresses requests come from; others may be named in headers
    Request,    \* concurrent requests
    Key,        \* API keys that may be created
    MaxBody,    \* max_request_body_bytes
    Chunk,      \* sizes of the pieces a body arrives in
    MaxSent,    \* bound on the hops a client sends itself
    MaxFaults   \* bound on failures of Redis and PostgreSQL

ASSUME AdmissionConstants ==
    /\ Client \subseteq Address \ Trusted
    /\ MaxBody \in Nat /\ Chunk \subseteq Nat \ {0} /\ MaxSent \in Nat /\ MaxFaults \in Nat

VARIABLES
    pc,
    size,     \* size[r]: bytes buffered
    key,      \* api_keys: "none", "live" or "revoked"
    enabled,  \* users.is_active of the account
    stale,    \* history: requests whose credential was void when they showed it
    faults

auth == <<key, enabled, stale>>
vars == <<limiter, pc, size, auth, faults>>

Label == {"idle", "body", "limit", "auth", "jwt", "owner", "served", "admin"}

TypeOK ==
    /\ LimiterTypes
    /\ pc \in [Request -> Label] /\ size \in [Request -> 0..MaxBody]
    /\ key \in [Key -> {"none", "live", "revoked"}] /\ enabled \in BOOLEAN
    /\ stale \subseteq Request /\ faults \in 0..MaxFaults

Init ==
    /\ LimiterInit
    /\ pc = [r \in Request |-> "idle"] /\ size = [r \in Request |-> 0]
    /\ key = [k \in Key |-> "none"] /\ enabled = TRUE
    /\ stale = {} /\ faults = 0

-----------------------------------------------------------------------------
(* Helpers *)

Fault == faults < MaxFaults /\ faults' = faults + 1

Goto(r, from, to) ==
    /\ pc[r] = from
    /\ pc' = [pc EXCEPT ![r] = to]

(* The request is answered; its buffer goes. *)
Answer(r) ==
    /\ pc' = [pc EXCEPT ![r] = "idle"]
    /\ size' = [size EXCEPT ![r] = 0]

(* A request shows a credential; void tells that it is void already. *)
Present(r, to, void) ==
    /\ Goto(r, "auth", to)
    /\ stale' = IF void THEN stale \cup {r} ELSE stale
    /\ UNCHANGED <<limiter, size, key, enabled, faults>>

-----------------------------------------------------------------------------
(* BodyLimitMiddleware *)

(* A request with a valid host and path; others are answered at once. *)
Arrive(r) ==
    /\ Goto(r, "idle", "body")
    /\ UNCHANGED <<limiter, size, auth, faults>>

(* Mutant: the size is compared before the chunk is added. *)
ReceiveLate(r) ==
    /\ pc[r] = "body"
    /\ \E n \in Chunk \cup {0}, more \in BOOLEAN :
        /\ more => n > 0
        /\ \/ size[r] > MaxBody /\ Answer(r)
           \/ /\ size[r] <= MaxBody
              /\ size' = [size EXCEPT ![r] = @ + n]
              /\ pc' = [pc EXCEPT ![r] = IF more THEN "body" ELSE "limit"]
    /\ UNCHANGED <<limiter, auth, faults>>

(* A piece of the body: 413 when it is too much, the next middleware after *)
(* the last one, which alone may be empty.                                 *)
Receive(r) ==
    /\ pc[r] = "body"
    /\ \E n \in Chunk \cup {0}, more \in BOOLEAN :
        /\ more => n > 0
        /\ \/ size[r] + n > MaxBody /\ Answer(r)
           \/ /\ size[r] + n <= MaxBody
              /\ size' = [size EXCEPT ![r] = @ + n]
              /\ pc' = [pc EXCEPT ![r] = IF more THEN "body" ELSE "limit"]
    /\ UNCHANGED <<limiter, auth, faults>>

(* The client goes away, or sends nothing for 30 seconds: 408. *)
Silent(r) ==
    /\ pc[r] = "body" /\ Answer(r)
    /\ UNCHANGED <<limiter, auth, faults>>

-----------------------------------------------------------------------------
(* RateLimitMiddleware *)

(* What a client may have put into X-Forwarded-For itself. *)
Sent == UNION {[1..n -> Address \cup {Garbage}] : n \in 0..MaxSent}

(* How a request of the client at address c reaches the gateway: directly, *)
(* or through one or two trusted proxies, each of which appends the        *)
(* address it was called from.                                             *)
Direct == {IF h = <<>> THEN <<Garbage>> ELSE h : h \in Sent}
Hops(c) == {<<c>>} \cup {<<c, p>> : p \in Trusted}
Seen(c) == ({c} \X Direct) \cup (Trusted \X {h \o v : h \in Sent, v \in Hops(c)})

(* History: whose request it is.  The chain that is too long to be walked  *)
(* leaves the counter of the proxy, which all its clients share.           *)
Sender(c, way) == IF Len(way[2]) > MaxHops /\ way[1] \in Trusted THEN {} ELSE {c}

(* The counter of the request's identity decides.  When Redis fails, the   *)
(* answer is 503 in production; elsewhere the request passes uncounted.    *)
Check(r, c) ==
    \E way \in Seen(c) :
      LET a == ClientIp(way[1], way[2]) IN
      /\ pc[r] = "limit"
      /\ \/ Admit(a, Sender(c, way)) /\ Goto(r, "limit", "auth") /\ UNCHANGED <<size, faults>>
         \/ Refuse(a) /\ Answer(r) /\ UNCHANGED faults
         \/ /\ Fault /\ RedisFails(a)
            /\ \/ TRUE \in Production /\ Answer(r)
               \/ FALSE \in Production /\ Goto(r, "limit", "auth") /\ UNCHANGED size
      /\ UNCHANGED auth

-----------------------------------------------------------------------------
(* AuthMiddleware *)

(* No credential: public routes, and require_principal stops the others.  A *)
(* credential that does not parse or verify is refused as well.             *)
Anonymous(r) ==
    /\ pc[r] = "auth" /\ Answer(r)
    /\ UNCHANGED <<limiter, auth, faults>>

(* A valid access token of the administrator; its account is then read. *)
PresentJwt(r) == Present(r, "jwt", ~enabled)

LoadUser(r) ==
    /\ pc[r] = "jwt"
    /\ \/ enabled /\ Goto(r, "jwt", "admin") /\ UNCHANGED <<size, stale, faults>>
       \/ ~enabled /\ Answer(r) /\ stale' = stale \ {r} /\ UNCHANGED faults
       \/ Fault /\ Answer(r) /\ stale' = stale \ {r}
    /\ UNCHANGED <<limiter, key, enabled>>

(* Mutant: the lookup of the key forgets is_active. *)
PresentKeyAny(r, k) ==
    /\ key[k] # "none"
    /\ Present(r, "owner", key[k] = "revoked" \/ ~enabled)

(* _verify_api_key: an active key with this hash, *)
PresentKey(r, k) ==
    /\ key[k] = "live"
    /\ Present(r, "owner", ~enabled)

(* Mutant: a key whose owner is disabled is looked up again. *)
CheckOwnerAgain(r) ==
    /\ pc[r] = "owner"
    /\ \/ enabled /\ Goto(r, "owner", "served") /\ UNCHANGED <<size, stale, faults>>
       \/ ~enabled /\ Goto(r, "owner", "auth") /\ UNCHANGED <<size, stale, faults>>
       \/ Fault /\ Answer(r) /\ stale' = stale \ {r}
    /\ UNCHANGED <<limiter, key, enabled>>

(* ... and its owner.  A key never grants admin rights. *)
CheckOwner(r) ==
    /\ pc[r] = "owner"
    /\ \/ enabled /\ Goto(r, "owner", "served") /\ UNCHANGED <<size, stale, faults>>
       \/ ~enabled /\ Answer(r) /\ stale' = stale \ {r} /\ UNCHANGED faults
       \/ Fault /\ Answer(r) /\ stale' = stale \ {r}
    /\ UNCHANGED <<limiter, key, enabled>>

-----------------------------------------------------------------------------
(* Routes *)

CreateApiKey(r, k) ==
    /\ pc[r] = "admin" /\ key[k] = "none"
    /\ key' = [key EXCEPT ![k] = "live"]
    /\ Answer(r)
    /\ UNCHANGED <<limiter, enabled, stale, faults>>

RevokeApiKey(r, k) ==
    /\ pc[r] = "admin" /\ key[k] # "none"
    /\ key' = [key EXCEPT ![k] = "revoked"]
    /\ Answer(r)
    /\ UNCHANGED <<limiter, enabled, stale, faults>>

Serve(r) ==
    /\ pc[r] \in {"served", "admin"} /\ Answer(r)
    /\ stale' = stale \ {r}
    /\ UNCHANGED <<limiter, key, enabled, faults>>

(* An operator disables the account in the database. *)
Disable ==
    /\ enabled /\ enabled' = FALSE
    /\ UNCHANGED <<limiter, pc, size, key, stale, faults>>

(* Time passes, where that changes anything. *)
Tick ==
    /\ \E a \in Address : left[a] > 0 \/ recent[a][1] # Window
    /\ LimiterTick
    /\ UNCHANGED <<pc, size, auth, faults>>

Step(r) ==
    \/ Receive(r) \/ Silent(r)
    \/ \E c \in Client : Check(r, c)
    \/ Anonymous(r) \/ PresentJwt(r) \/ LoadUser(r)
    \/ \E k \in Key : PresentKey(r, k)
    \/ CheckOwner(r)
    \/ \E k \in Key : CreateApiKey(r, k) \/ RevokeApiKey(r, k)
    \/ Serve(r)

Next ==
    \/ \E r \in Request : Arrive(r) \/ Step(r)
    \/ Disable
    \/ Tick

Spec == Init /\ [][Next]_vars

(* The event loops run every request, each await of which has a timeout,   *)
(* and time passes.                                                        *)
FairSpec == Spec /\ WF_vars(Tick) /\ \A r \in Request : WF_vars(Step(r))

-----------------------------------------------------------------------------
(* Properties *)

(* No client gets more than Limit requests counted and let through before  *)
(* its counter runs out, whatever hops it sends and over whichever proxies *)
(* it comes, as long as the chain is walked: client_ip never lets it use   *)
(* the counter of another address, and the script counts requests of any   *)
(* process.                                                                *)
LimitPerClient == \A c \in Client : passed[c] <= Limit

(* What the fixed windows promise over any span of Window ticks: at most   *)
(* twice the limit, the end of one window and the start of the next.  Of   *)
(* 2 * Limit + 1 requests let through in a row, the first is Window ticks  *)
(* ago or more.                                                            *)
SlidingBound == \A c \in Client : recent[c][2 * Limit + 1] = Window

(* A credential that was void when the middleware looked it up, the key    *)
(* revoked or its account disabled, is never acted upon, although the key  *)
(* and its owner are read by two queries.                                  *)
NoVoidCredential == \A r \in stale : pc[r] \notin {"served", "admin"}

(* A client that is refused is not refused for ever: its key always has a  *)
(* time to live, which later requests do not extend.                       *)
LimitLifts == \A c \in Client : hits[c] > Limit ~> hits[c] = 0

(* No request stays in the gateway for ever, though a client may send its  *)
(* body in as many pieces as it likes, each within the timeout.            *)
RequestsEnd == \A r \in Request : pc[r] # "idle" ~> pc[r] = "idle"

-----------------------------------------------------------------------------
(* The inductive strengthening that the proofs use *)

(* The counter of a client counts every request of that client. *)
CountInv == \A c \in Client : passed[c] <= hits[c] /\ passed[c] <= Limit

(* A credential that was void is so because its account is disabled, which *)
(* the next read will see.                                                 *)
StaleInv == stale # {} => ~enabled /\ \A r \in stale : pc[r] \in {"jwt", "owner"}

(* The last passed[c] requests belong to the window that is open, those    *)
(* before them came before it, and at most Limit to the window before.     *)
SpanInv ==
    \A c \in Client :
        /\ left[c] = 0 => hits[c] = 0
        /\ \A i \in Last : left[c] > 0 /\ i > passed[c] => recent[c][i] + left[c] >= Window
        /\ \A i \in Last : i > passed[c] + Limit => recent[c][i] = Window

AdmissionInv == TypeOK /\ CountInv /\ SpanInv /\ StaleInv
=============================================================================
