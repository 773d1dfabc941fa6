---------------------------- MODULE RateLimits ----------------------------
(***************************************************************************)
(* The request limiters of the gateway and of pkg/middleware.  A process   *)
(* puts one of them in front of its handlers, so the kind is chosen once,  *)
(* in Init:                                                                *)
(*   "endpoint"  AdvancedRateLimiter, a token bucket per client and path,  *)
(*               dropped by a cleanup goroutine;                           *)
(*   "key"       pkg/middleware RateLimiter, a token bucket per client,    *)
(*               all of them dropped every FlushAfter ticks;               *)
(*   "window"    RateLimitMiddleware, a counter per client and window;     *)
(*   "user"      UserRateLimiter, a bucket sized by the user's tier.       *)
(* The first two look an entry up under the limiter's lock and use it      *)
(* under the entry's own lock: two steps, with a cleanup or another        *)
(* request in between.  One tick stands for the time in which a bucket     *)
(* regains Rate tokens.                                                    *)
(***************************************************************************)
EXTENDS Naturals, Sequences, FiniteSets, FiniteSetsExt, Functions

CONSTANTS Requests,      \* the requests that arrive
          HeaderOf,      \* the address headers of each request
          PathOf,        \* the path each request asks for, a sequence
          Patterns,      \* the configured endpoints: pattern -> burst
          DefaultBurst,  \* the burst of a path no pattern matches
          Rate,          \* tokens regained per tick
          ExpireAfter,   \* ticks after which cleanup drops an idle client
          FlushAfter,    \* ticks after which getBucket drops every bucket
          Minute,        \* the length of the window, in ticks
          WindowLimit,   \* requests per window
          Tiers,         \* tier -> requests, "free" among them
          TimeBound,     \* bound: ticks
          Absent         \* no header, no entry

VARIABLES limiter,   \* the kind in use
          now,       \* the clock
          table,     \* client -> index of its entry, or 0
          entries,   \* every entry ever made, in order
          req,       \* each request: its place and the entry it holds
          admitted,  \* client and path -> requests let through
          tier,      \* the user's tier, or Absent
          flushed,   \* the clock at the last flush
          drops      \* times an entry went that a request was still using,
                     \* or that could have been half empty

limVars == <<limiter, now, table, entries, req, admitted, tier, flushed,
             drops>>

(* The first of the headers that is set. *)
getClientIP(h) == IF h.forwarded # Absent THEN h.forwarded
                  ELSE IF h.real # Absent THEN h.real ELSE h.remote

Client(r) == getClientIP(HeaderOf[r])
Clients == {Client(r) : r \in Requests}
Paths == Range(PathOf)

Smaller(a, b) == IF a < b THEN a ELSE b

(* Part by part, the same number of parts, "*" for any part. *)
matchPath(pattern, path) ==
    /\ Len(pattern) = Len(path)
    /\ \A i \in DOMAIN pattern : pattern[i] \in {"*", path[i]}

(* The bursts the lookup can give: the exact entry, else any that matches  *)
(* (the map is walked in no order), else the default.                      *)
getLimitForEndpoint(path) ==
    LET matching == {p \in DOMAIN Patterns : matchPath(p, path)}
    IN IF path \in DOMAIN Patterns THEN {Patterns[path]}
       ELSE IF matching = {} THEN {DefaultBurst}
       ELSE {Patterns[p] : p \in matching}

newBucket(burst, rate) == [tokens |-> burst, max |-> burst, rate |-> rate,
                           at |-> now]

Refilled(b) == Smaller(b.max, b.tokens + (now - b.at) * b.rate)

(* A token is taken when there is one; the refill counts in any case. *)
MayPass(b) == Refilled(b) >= 1
Took(b) == [b EXCEPT !.tokens = IF MayPass(b) THEN Refilled(b) - 1
                                ELSE Refilled(b),
                     !.at = now]

Admit(c, p, ok) ==
    admitted' = IF ok THEN [admitted EXCEPT ![<<c, p>>] = @ + 1] ELSE admitted

Answered(r) == req' = [req EXCEPT ![r] = [pc |-> "done", entry |-> 0]]

------------------------------------------------------------------------
(* AdvancedRateLimiter *)

NoBuckets == [p \in Paths |-> Absent]

(* rl.mu: the client's entry, made when there is none. *)
LookupClient(r) ==
    LET c == Client(r) IN
    /\ limiter = "endpoint" /\ req[r].pc = "new"
    /\ IF table[c] # 0
       THEN UNCHANGED <<entries, table>>
       ELSE /\ entries' = Append(entries, NoBuckets)
            /\ table' = [table EXCEPT ![c] = Len(entries) + 1]
    /\ req' = [req EXCEPT ![r] = [pc |-> "held", entry |-> table'[c]]]
    /\ UNCHANGED <<limiter, now, admitted, tier, flushed, drops>>

(* client.mu: the path's bucket, made when there is none, and its token. *)
allowRequest(r) ==
    LET e == req[r].entry  p == PathOf[r] IN
    /\ limiter = "endpoint" /\ req[r].pc = "held"
    /\ \E burst \in getLimitForEndpoint(p) :
         LET b == IF entries[e][p] = Absent
                  THEN newBucket(burst, Rate) ELSE entries[e][p]
         IN /\ entries' = [entries EXCEPT ![e][p] = Took(b)]
            /\ Admit(Client(r), p, MayPass(b))
    /\ Answered(r)
    /\ UNCHANGED <<limiter, now, table, tier, flushed, drops>>

InUse(e) == \E r \in Requests : req[r].entry = e

AllExpired_Any(e) ==
    \E p \in Paths : \/ entries[e][p] = Absent
                     \/ entries[e][p].at + ExpireAfter <= now

(* A client none of whose buckets was used lately, a client with no bucket *)
(* among them.                                                             *)
AllExpired(e) ==
    \A p \in Paths : \/ entries[e][p] = Absent
                     \/ entries[e][p].at + ExpireAfter <= now

cleanup ==
    LET gone == {c \in Clients : table[c] # 0 /\ AllExpired(table[c])} IN
    /\ limiter = "endpoint" /\ gone # {}
    /\ table' = [c \in Clients |-> IF c \in gone THEN 0 ELSE table[c]]
    /\ drops' = drops + Cardinality({c \in gone : InUse(table[c])})
    /\ UNCHANGED <<limiter, now, entries, req, admitted, tier, flushed>>

------------------------------------------------------------------------
(* pkg/middleware RateLimiter *)

FlushDue == now - flushed > FlushAfter

(* rl.mu: every bucket goes when the flush is due, then the key's bucket   *)
(* is found or made.                                                       *)
getBucket(c) ==
    LET kept == IF FlushDue THEN [k \in Clients |-> 0] ELSE table IN
    /\ flushed' = IF FlushDue THEN now ELSE flushed
    /\ drops' = IF FlushDue THEN drops + 1 ELSE drops
    /\ IF kept[c] # 0
       THEN entries' = entries /\ table' = kept
       ELSE /\ entries' = Append(entries, newBucket(DefaultBurst, Rate))
            /\ table' = [kept EXCEPT ![c] = Len(entries) + 1]

RateLimiterAllow(r) ==
    /\ limiter = "key" /\ req[r].pc = "new"
    /\ getBucket(Client(r))
    /\ req' = [req EXCEPT ![r] = [pc |-> "held", entry |-> table'[Client(r)]]]
    /\ UNCHANGED <<limiter, now, admitted, tier>>

(* tb.mu *)
TokenBucketAllow(r) ==
    LET e == req[r].entry IN
    /\ limiter = "key" /\ req[r].pc = "held"
    /\ entries' = [entries EXCEPT ![e] = Took(@)]
    /\ Admit(Client(r), PathOf[r], MayPass(entries[e]))
    /\ IF MayPass(entries[e])
       THEN req' = [req EXCEPT ![r] = [pc |-> "passed", entry |-> 0]]
       ELSE Answered(r)
    /\ UNCHANGED <<limiter, now, table, tier, flushed, drops>>

(* The header of a request that passed asks for the bucket once more.      *)
Remaining(r) ==
    /\ limiter = "key" /\ req[r].pc = "passed"
    /\ getBucket(Client(r))
    /\ Answered(r)
    /\ UNCHANGED <<limiter, now, admitted, tier>>

------------------------------------------------------------------------
(* RateLimitMiddleware: one step under limiter.mu *)

Visited(v) == IF now - v.at > Minute THEN [tokens |-> 1, at |-> now]
              ELSE [v EXCEPT !.tokens = @ + 1]

RateLimitMiddleware(r) ==
    LET c == HeaderOf[r].remote
        e == table[c]
    IN
    /\ limiter = "window" /\ req[r].pc = "new"
    /\ IF e = 0
       THEN /\ entries' = Append(entries, [tokens |-> 1, at |-> now])
            /\ table' = [table EXCEPT ![c] = Len(entries) + 1]
            /\ Admit(c, PathOf[r], TRUE)
       ELSE /\ entries' = [entries EXCEPT ![e] = Visited(@)]
            /\ Admit(c, PathOf[r], ~ Visited(entries[e]).tokens > WindowLimit)
            /\ UNCHANGED table
    /\ Answered(r)
    /\ UNCHANGED <<limiter, now, tier, flushed, drops>>

(* The goroutine that forgets the visitors of past windows. *)
ForgetVisitors ==
    LET gone == {c \in Clients : table[c] # 0
                                 /\ now - entries[table[c]].at > Minute} IN
    /\ limiter = "window" /\ gone # {}
    /\ table' = [c \in Clients |-> IF c \in gone THEN 0 ELSE table[c]]
    /\ UNCHANGED <<limiter, now, entries, req, admitted, tier, flushed, drops>>

------------------------------------------------------------------------
(* UserRateLimiter: one step under rl.mu *)

SetUserTier(t) ==
    /\ limiter = "user" /\ tier # t
    /\ tier' = t
    /\ UNCHANGED <<limiter, now, table, entries, req, admitted, flushed, drops>>

(* The tier sizes the bucket when it is made, and not afterwards; a tier   *)
(* the limiter does not know has the limit 0.                              *)
AllowRequest(r) ==
    LET c == Client(r)
        t == IF tier = Absent THEN "free" ELSE tier
        limit == IF t \in DOMAIN Tiers THEN Tiers[t] ELSE 0
        b == IF table[c] = 0 THEN newBucket(limit, limit)
             ELSE entries[table[c]]
    IN
    /\ limiter = "user" /\ req[r].pc = "new"
    /\ IF table[c] = 0
       THEN /\ entries' = Append(entries, Took(b))
            /\ table' = [table EXCEPT ![c] = Len(entries) + 1]
       ELSE entries' = [entries EXCEPT ![table[c]] = Took(b)]
            /\ UNCHANGED table
    /\ Admit(c, PathOf[r], MayPass(b))
    /\ Answered(r)
    /\ UNCHANGED <<limiter, now, tier, flushed, drops>>

------------------------------------------------------------------------
Tick == /\ now < TimeBound
        /\ now' = now + 1
        /\ UNCHANGED <<limiter, table, entries, req, admitted, tier, flushed,
                       drops>>

Init == /\ limiter \in {"endpoint", "key", "window", "user"}
        /\ now = 0 /\ flushed = 0 /\ drops = 0
        /\ table = [c \in Clients |-> 0]
        /\ entries = << >>
        /\ req = [r \in Requests |-> [pc |-> "new", entry |-> 0]]
        /\ admitted = [x \in Clients \X Paths |-> 0]
        /\ tier = Absent

Next == \/ \E r \in Requests :
             \/ LookupClient(r) \/ allowRequest(r)
             \/ RateLimiterAllow(r) \/ TokenBucketAllow(r) \/ Remaining(r)
             \/ RateLimitMiddleware(r) \/ AllowRequest(r)
        \/ cleanup \/ ForgetVisitors \/ Tick
        \/ \E t \in DOMAIN Tiers \cup {"unknown"} : SetUserTier(t)

Spec == Init /\ [][Next]_limVars

------------------------------------------------------------------------
Through(c) == FoldFunction(LAMBDA a, b : a + b, 0,
                  [p \in Paths |-> admitted[<<c, p>>]])

(* What the clients of each limiter get at most:                           *)
(*  - endpoint: a burst and the refill, for each path on its own, unless   *)
(*    cleanup dropped a client while one of its requests held the entry    *)
(*    (rate_limit_advanced.go:149-160, 218-236): the request then fills a  *)
(*    bucket nobody else sees;                                             *)
(*  - key: a burst more for every flush, which also drops the buckets that *)
(*    were just emptied (ratelimit.go:107-112);                            *)
(*  - window: the limit once per window, windows more than a minute apart; *)
(*  - user: what the tier of the FIRST request allows, whatever the tier   *)
(*    is afterwards.                                                       *)
AdmitsWithinBudget ==
    \A c \in Clients :
      CASE limiter = "endpoint" ->
             \A p \in Paths :
               LET burst == CHOOSE m \in getLimitForEndpoint(p) :
                              \A n \in getLimitForEndpoint(p) : n <= m
               IN admitted[<<c, p>>] <= burst * (1 + drops) + Rate * now
        [] limiter = "key" ->
             Through(c) <= DefaultBurst * (1 + drops) + Rate * now
        [] limiter = "window" ->
             Through(c) <= WindowLimit * (1 + (now \div (Minute + 1)))
        [] limiter = "user" ->
             table[c] # 0 =>
               Through(c) <= entries[table[c]].max * (1 + now)
=============================================================================
