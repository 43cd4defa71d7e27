------------------------------ MODULE AuthCache ------------------------------
(***************************************************************************)
(* The RBAC interceptor (src/interceptors/auth.rs): tokens resolved through*)
(* the L1 cache or verified against the JWKS keys, the policy that decides *)
(* on the result, and the task that refreshes the keys.                    *)
(*                                                                         *)
(* A token stands for its text: the key that signed it, its claims and its *)
(* window of validity are fixed. Its header names its key: a token that    *)
(* does not is verified with an arbitrary key of the map, and left out.    *)
(* Times are kept relative to the present: an entry by the ticks left to   *)
(* its expires_at, a call by the ticks since it read the clock, so that    *)
(* nothing grows. A call is delayed by at most MaxDelay ticks (a bound of  *)
(* the model); an entry MaxDelay ticks past its expiry is useless to every *)
(* call and ages no further.                                               *)
(***************************************************************************)
EXTENDS Integers, Sequences

CONSTANTS
  AuthCalls,    \* worker threads
  Tokens,       \* bearer tokens
  Keys,         \* signing keys
  KeyOf,        \* the key that signed each token
  Ops,          \* operations
  PublicOps,    \* unauthenticated_ops
  MappedOps,    \* operations with required roles
  RolesFit,     \* RolesFit[t]: the mapped operations the roles of t allow
  Policy,       \* Policy[o]: the policy mode for o, by its operation type
  Capacity,     \* capacity of the L1 cache
  CacheTtl,     \* cache_ttl, in ticks
  MaxDelay,     \* bound: ticks a call may be delayed
  NoToken,      \* a request without a bearer token
  NoOp          \* not an operation

ASSUME AuthAssumption ==
  /\ KeyOf \in [Tokens -> Keys]
  /\ PublicOps \subseteq Ops /\ MappedOps \subseteq Ops
  /\ RolesFit \in [Tokens -> SUBSET MappedOps]
  /\ Policy \in [Ops -> {"AuditOnly", "PassAll", "AllowAuthenticated", "DenyUnlisted"}]
  /\ Capacity \in Nat \ {0} /\ CacheTtl \in Nat \ {0} /\ MaxDelay \in Nat
  /\ NoToken \notin Tokens /\ NoOp \notin Ops

VARIABLES
  published,  \* the keys the provider serves (external)
  keys,       \* the keys the gateway holds
  refresh,    \* where the refresh task is
  fetched,    \* the keys of the answer it has not stored yet
  timely,     \* the tokens within their window of validity
  cache,      \* the L1 cache, most recently used first
  authPc,     \* authPc[c]: where c is
  op,         \* op[c]: the operation of c's request, while c resolves its token
  token,      \* token[c]: that token
  lag,        \* lag[c]: ticks since c read the clock
  authVerdict, \* authVerdict[c]: the answer to c's last request
  gone,       \* history: ticks since t would last have been verified
  dead        \* history: t was not verifiable during c nor CacheTtl ticks before

provider == <<published, keys, refresh, fetched>>
call == <<authPc, op, token, lag, authVerdict>>
authVars == <<provider, timely, cache, call, gone, dead>>

Entries == [token : Tokens, left : -MaxDelay..CacheTtl]

AuthTypeOK ==
  /\ published \subseteq Keys /\ keys \subseteq Keys /\ fetched \subseteq Keys
  /\ refresh \in {"absent", "fetch", "store", "sleep"}
  /\ timely \subseteq Tokens
  /\ cache \in Seq(Entries)
  /\ authPc \in [AuthCalls -> {"idle", "lookup", "verify", "put"}]
  /\ op \in [AuthCalls -> Ops \union {NoOp}]
  /\ token \in [AuthCalls -> Tokens \union {NoToken}]
  /\ lag \in [AuthCalls -> 0..MaxDelay]
  /\ authVerdict \in [AuthCalls -> {"none", "Pass", "Audit", "Reject"}]
  /\ gone \in [Tokens -> 0..CacheTtl]
  /\ dead \in [AuthCalls -> BOOLEAN]

\* The task is spawned only if the provider is built inside a runtime: on a
\* reload it is, at boot, on the main thread, it is not.
AuthInit ==
  /\ published \in SUBSET Keys
  /\ keys = {} /\ refresh \in {"absent", "fetch"} /\ fetched = {}
  /\ timely = Tokens
  /\ cache = <<>>
  /\ authPc = [c \in AuthCalls |-> "idle"]
  /\ op = [c \in AuthCalls |-> NoOp]
  /\ token = [c \in AuthCalls |-> NoToken]
  /\ lag = [c \in AuthCalls |-> 0]
  /\ authVerdict = [c \in AuthCalls |-> "none"]
  /\ gone = [t \in Tokens |-> CacheTtl]
  /\ dead = [c \in AuthCalls |-> FALSE]

-----------------------------------------------------------------------------
(* The LRU cache. *)

Cached(t) == \E i \in 1..Len(cache) : cache[i].token = t
Place(t) == CHOOSE i \in 1..Len(cache) : cache[i].token = t
EntryOf(t) == cache[Place(t)]

Without(t) ==
  IF Cached(t) THEN SubSeq(cache, 1, Place(t) - 1) \o SubSeq(cache, Place(t) + 1, Len(cache))
  ELSE cache

\* Faulty variant: put forgets the capacity.
Put_Unbounded(e) == cache' = <<e>> \o Without(e.token)

\* put replaces the entry of e's token, or drops the least recently used one.
Put(e) ==
  LET rest == Without(e.token)
  IN cache' = <<e>> \o SubSeq(rest, 1, IF Len(rest) < Capacity THEN Len(rest) ELSE Capacity - 1)

(* The verdict. *)

HasPermission(o, t, known) ==
  IF o \in MappedOps THEN known /\ o \in RolesFit[t]
  ELSE Policy[o] = "PassAll" \/ (Policy[o] = "AllowAuthenticated" /\ known)

\* What intercept_request answers once the identity is known or is not.
Decide(o, t, known) ==
  IF HasPermission(o, t, known) THEN "Pass"
  ELSE CASE Policy[o] = "PassAll" -> "Pass"
         [] Policy[o] = "AuditOnly" -> "Audit"
         [] Policy[o] = "AllowAuthenticated" -> IF known THEN "Pass" ELSE "Reject"
         [] Policy[o] = "DenyUnlisted" -> "Reject"

AuthAnswer(c, v) ==
  /\ authPc' = [authPc EXCEPT ![c] = "idle"]
  /\ authVerdict' = [authVerdict EXCEPT ![c] = v]
  /\ lag' = [lag EXCEPT ![c] = 0]
  /\ op' = [op EXCEPT ![c] = NoOp]
  /\ token' = [token EXCEPT ![c] = NoToken]

-----------------------------------------------------------------------------
(* A request. *)

\* A public operation passes unseen; a request without a token is decided as it is.
Anonymous(c, o) ==
  /\ authPc[c] = "idle"
  /\ AuthAnswer(c, IF o \in PublicOps THEN "Pass" ELSE Decide(o, NoToken, FALSE))
  /\ UNCHANGED <<provider, timely, cache>>

\* A request with a token: resolve_claims_from_token reads the clock.
AuthStart(c, o, t) ==
  /\ authPc[c] = "idle" /\ o \notin PublicOps
  /\ authPc' = [authPc EXCEPT ![c] = "lookup"]
  /\ op' = [op EXCEPT ![c] = o]
  /\ token' = [token EXCEPT ![c] = t]
  /\ authVerdict' = [authVerdict EXCEPT ![c] = "none"]
  /\ UNCHANGED <<provider, timely, cache, lag>>

\* The lookup under the mutex: an entry is good if it expires after c's clock.
Lookup(c) ==
  /\ authPc[c] = "lookup"
  /\ cache' = IF Cached(token[c]) THEN <<EntryOf(token[c])>> \o Without(token[c]) ELSE cache
  /\ IF Cached(token[c]) /\ EntryOf(token[c]).left + lag[c] > 0
       THEN AuthAnswer(c, Decide(op[c], token[c], TRUE))
       ELSE authPc' = [authPc EXCEPT ![c] = "verify"] /\ UNCHANGED <<op, token, lag, authVerdict>>
  /\ UNCHANGED <<provider, timely>>

\* verify_jwt: the key is known and the token within its window.
Verifiable(t) == KeyOf[t] \in keys /\ t \in timely

Verify(c) ==
  /\ authPc[c] = "verify"
  /\ IF Verifiable(token[c])
       THEN authPc' = [authPc EXCEPT ![c] = "put"] /\ UNCHANGED <<op, token, lag, authVerdict>>
       ELSE AuthAnswer(c, Decide(op[c], token[c], FALSE))
  /\ UNCHANGED <<provider, timely, cache>>

\* Faulty variant: the entry's lifetime starts when it is stored.
PutClaims_Late(c) ==
  /\ authPc[c] = "put"
  /\ Put([token |-> token[c], left |-> CacheTtl])
  /\ AuthAnswer(c, Decide(op[c], token[c], TRUE))
  /\ UNCHANGED <<provider, timely>>

\* The claims are cached until CacheTtl after the clock c read before verifying.
PutClaims(c) ==
  /\ authPc[c] = "put"
  /\ Put([token |-> token[c], left |-> CacheTtl - lag[c]])
  /\ AuthAnswer(c, Decide(op[c], token[c], TRUE))
  /\ UNCHANGED <<provider, timely>>

-----------------------------------------------------------------------------
(* The refresh task, the provider, and time. *)

\* The provider answers the fetch with what it serves now.
FetchOk ==
  /\ refresh = "fetch" /\ refresh' = "store"
  /\ fetched' = published
  /\ UNCHANGED <<published, keys, timely, cache, call>>

\* Faulty variant: a failed fetch counts as an empty key set.
FetchFails_Clears ==
  /\ refresh = "fetch" /\ refresh' = "sleep"
  /\ keys' = {}
  /\ UNCHANGED <<published, fetched, timely, cache, call>>

\* The fetch fails; the keys stay.
FetchFails ==
  /\ refresh = "fetch" /\ refresh' = "sleep"
  /\ UNCHANGED <<published, keys, fetched, timely, cache, call>>

\* Faulty variant: the fetched keys are added to the old ones.
StoreKeys_Extends ==
  /\ refresh = "store" /\ refresh' = "sleep"
  /\ keys' = keys \union fetched /\ fetched' = {}
  /\ UNCHANGED <<published, timely, cache, call>>

\* The task replaces the keys.
StoreKeys ==
  /\ refresh = "store" /\ refresh' = "sleep"
  /\ keys' = fetched /\ fetched' = {}
  /\ UNCHANGED <<published, timely, cache, call>>

\* refresh_interval has passed.
Wake ==
  /\ refresh = "sleep" /\ refresh' = "fetch"
  /\ UNCHANGED <<published, keys, fetched, timely, cache, call>>

\* The provider rotates its keys (external).
Rotate ==
  /\ published' \in SUBSET Keys \ {published}
  /\ UNCHANGED <<keys, refresh, fetched, timely, cache, call>>

\* A token expires: exp and the clock skew are past.
Expire(t) ==
  /\ t \in timely /\ timely' = timely \ {t}
  /\ UNCHANGED <<provider, cache, call>>

\* Time passes; no call is delayed beyond MaxDelay.
AuthTick ==
  /\ \A c \in AuthCalls : authPc[c] # "idle" => lag[c] < MaxDelay
  /\ lag' = [c \in AuthCalls |-> IF authPc[c] = "idle" THEN 0 ELSE lag[c] + 1]
  /\ cache' = [i \in DOMAIN cache |->
                 [cache[i] EXCEPT !.left = IF @ > -MaxDelay THEN @ - 1 ELSE @]]
  /\ UNCHANGED <<provider, timely, authPc, op, token, authVerdict>>

\* The history of the tokens and of the calls that use them.
WatchTokens(ticks) ==
  /\ gone' = [t \in Tokens |->
                IF Verifiable(t)' THEN 0
                ELSE IF ticks /\ gone[t] < CacheTtl THEN gone[t] + 1 ELSE gone[t]]
  /\ dead' = [c \in AuthCalls |->
                /\ authPc'[c] # "idle"
                /\ IF authPc[c] = "idle" THEN gone[token'[c]] >= CacheTtl
                   ELSE dead[c] /\ ~Verifiable(token[c])']

AuthStep(c) == Lookup(c) \/ Verify(c) \/ PutClaims(c)

AuthNext ==
  \/ /\ \/ \E c \in AuthCalls, o \in Ops : Anonymous(c, o)
        \/ \E c \in AuthCalls, o \in Ops, t \in Tokens : AuthStart(c, o, t)
        \/ \E c \in AuthCalls : AuthStep(c)
        \/ FetchOk \/ FetchFails \/ StoreKeys \/ Wake \/ Rotate
        \/ \E t \in Tokens : Expire(t)
     /\ WatchTokens(FALSE)
  \/ AuthTick /\ WatchTokens(TRUE)

AuthSpec == AuthInit /\ [][AuthNext]_authVars

\* Threads and the refresh task run, time passes, and the provider answers
\* infinitely many of the fetches that are made.
AuthFairSpec ==
  /\ AuthSpec
  /\ \A c \in AuthCalls : WF_authVars(AuthStep(c) /\ WatchTokens(FALSE))
  /\ WF_authVars(AuthTick /\ WatchTokens(TRUE))
  /\ WF_authVars((StoreKeys \/ Wake) /\ WatchTokens(FALSE))
  /\ SF_authVars(FetchOk /\ WatchTokens(FALSE))

-----------------------------------------------------------------------------
(* Properties. *)

\* The cache holds at most Capacity entries, one for a token, and only of
\* tokens that were verified within CacheTtl before they expire.
CacheInv ==
  /\ AuthTypeOK
  /\ Len(cache) <= Capacity
  /\ \A i, j \in DOMAIN cache : cache[i].token = cache[j].token => i = j
  /\ \A i \in DOMAIN cache : cache[i].left > 0 => gone[cache[i].token] <= CacheTtl - cache[i].left
  /\ \A c \in AuthCalls : authPc[c] = "put" => gone[token[c]] <= lag[c]

\* Where the policy asks for an identity, a request passes only with a token
\* that would have been verified at some instant from CacheTtl before the request
\* until now, and under deny_unlisted only with a role the operation needs: a
\* revoked key or an expired token lives on in the cache no longer than that,
\* although the clock is read before the lookup and before the verification.
ZeroTrust ==
  [][\A c \in AuthCalls :
       authPc[c] # "idle" /\ authPc'[c] = "idle" /\ authVerdict'[c] = "Pass" =>
         /\ Policy[op[c]] \in {"DenyUnlisted", "AllowAuthenticated"}
              => ~dead[c] \/ Verifiable(token[c])
         /\ Policy[op[c]] = "DenyUnlisted" => op[c] \in RolesFit[token[c]]]_authVars

\* Once the provider has withdrawn a key for good, the gateway drops it and no
\* entry of a token it signed remains of use.
RevokedTokensDie ==
  \A k \in Keys :
    <>[](k \notin published)
      => <>[](/\ k \notin keys
              /\ \A i \in DOMAIN cache : KeyOf[cache[i].token] = k => cache[i].left <= -MaxDelay)

\* Once a key stays published, tokens signed with it become and stay verifiable
\* until they expire, if there is a refresh task.
NewKeysArrive ==
  refresh # "absent" => \A k \in Keys : <>[](k \in published) => <>[](k \in keys)
=============================================================================
