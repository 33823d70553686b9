---------------------------- MODULE RateLimiter ----------------------------
(***************************************************************************)
(* The fixed-window counters of middleware/rate_limit.py, in Redis, and    *)
(* the identity they are kept for, utils/client_identity.py.               *)
(*                                                                         *)
(* A counter is one Redis key with a time to live.  check_rate_limit is    *)
(* one Lua script, so it is one step whatever process runs it.  A counter  *)
(* saturates one above the limit, which is all the code compares it with.  *)
(***************************************************************************)
EXTENDS Naturals, Sequences

CONSTANTS
    Address,     \* addresses of clients and proxies
    Trusted,     \* those within trusted_proxy_networks
    Garbage,     \* a hop that is no address
    MaxHops,     \* 32, the longest chain that is walked
    Limit,       \* global_rate_limit
    Window,      \* global_rate_window_seconds
    Production   \* the values of settings.is_production

ASSUME LimiterConstants ==
    /\ Trusted \subseteq Address /\ Garbage \notin Address
    /\ MaxHops \in Nat
    /\ Limit \in Nat \ {0} /\ Window \in Nat \ {0}
    /\ Production \subseteq BOOLEAN

VARIABLES
    hits,    \* hits[a]: ratelimit:global:{a}; 0 when the key does not exist
    left,    \* left[a]: time left of the key
    passed,  \* history: passed[c]: requests of the client at c let through
             \* since the counter of c last ran out
    recent   \* history: recent[c][i]: ticks since the i-th last of them,
             \* Window when there are that many or it never was

limiter == <<hits, left, passed, recent>>

(* As far back as the history goes: one request more than two windows let  *)
(* through.                                                                *)
Last == 1..2 * Limit + 1

LimiterTypes ==
    /\ hits \in [Address -> 0..Limit + 1] /\ left \in [Address -> 0..Window]
    /\ passed \in [Address -> Nat]
    /\ recent \in [Address -> [Last -> 0..Window]]

LimiterInit ==
    /\ hits = [a \in Address |-> 0] /\ left = [a \in Address |-> 0]
    /\ passed = [a \in Address |-> 0]
    /\ recent = [a \in Address |-> [i \in Last |-> Window]]

-----------------------------------------------------------------------------
(* client_ip *)

(* Mutant: the leftmost hop is believed, as if every hop were trusted. *)
ClientIpLeftmost(peer, chain) ==
    IF peer \in Trusted /\ chain[1] # Garbage THEN chain[1] ELSE peer

(* The chain of X-Forwarded-For is walked from its right end, up to the    *)
(* first hop that is not trusted.  A hop that does not parse, or a chain   *)
(* that is too long, leaves the peer.  No header is <<Garbage>>.           *)
ClientIp(peer, chain) ==
    LET n == Len(chain)
        hop(i) == IF i = 0 THEN peer ELSE chain[n + 1 - i]
        end == CHOOSE i \in 0..n : /\ i = n \/ hop(i) \notin Trusted
                                   /\ \A j \in 0..i - 1 : hop(j) \in Trusted
    IN  IF n > MaxHops \/ hop(end) = Garbage THEN peer ELSE hop(end)

-----------------------------------------------------------------------------
(* check_rate_limit *)

(* Mutant: every hit starts the window anew. *)
IncrExtends(a) ==
    /\ hits' = [hits EXCEPT ![a] = IF @ > Limit THEN @ ELSE @ + 1]
    /\ left' = [left EXCEPT ![a] = Window]

(* Mutant: the key is deleted before its window is over. *)
IncrShort(a) ==
    /\ hits' = [hits EXCEPT ![a] = IF @ > Limit THEN @ ELSE @ + 1]
    /\ left' = [left EXCEPT ![a] = IF hits[a] = 0 THEN 1 ELSE @]

(* The counter of address a grows; the first hit starts its window. *)
Incr(a) ==
    /\ hits' = [hits EXCEPT ![a] = IF @ > Limit THEN @ ELSE @ + 1]
    /\ left' = [left EXCEPT ![a] = IF hits[a] = 0 THEN Window ELSE @]

(* count <= limit, for the count the script returns *)
Allowed(a) == hits[a] + 1 <= Limit

(* The history of a request of C, the set of its client or an empty set,   *)
(* that a counter lets through.                                            *)
Record(C) ==
    /\ passed' = [c \in Address |-> IF c \in C THEN passed[c] + 1 ELSE passed[c]]
    /\ recent' = [c \in Address |->
                    IF c \in C THEN [i \in Last |-> IF i = 1 THEN 0 ELSE recent[c][i - 1]]
                    ELSE recent[c]]

(* A request of C meets the counter of address a. *)
Admit(a, C) == Incr(a) /\ Allowed(a) /\ Record(C)

Refuse(a) == Incr(a) /\ ~Allowed(a) /\ UNCHANGED <<passed, recent>>

(* Redis fails, before or after the script ran: 503 in production, while   *)
(* elsewhere the request passes uncounted.                                 *)
RedisFails(a) ==
    /\ Incr(a) \/ UNCHANGED <<hits, left>>
    /\ UNCHANGED <<passed, recent>>

(* Time passes; Redis deletes the keys whose time is over. *)
LimiterTick ==
    /\ left' = [a \in Address |-> IF left[a] = 0 THEN 0 ELSE left[a] - 1]
    /\ hits' = [a \in Address |-> IF left[a] <= 1 THEN 0 ELSE hits[a]]
    /\ passed' = [a \in Address |-> IF left[a] <= 1 THEN 0 ELSE passed[a]]
    /\ recent' = [a \in Address |->
                    [i \in Last |-> IF recent[a][i] = Window THEN Window
                                    ELSE recent[a][i] + 1]]
=============================================================================
