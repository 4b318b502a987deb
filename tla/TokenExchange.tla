--------------------------- MODULE TokenExchange ---------------------------
(* The gateway's client of an identity provider that exchanges an agent's    *)
(* token for one of a backend, and the cache in front of it.  The exchange   *)
(* awaits, so calls for one key overlap.                                     *)
EXTENDS Naturals

CONSTANTS
  XKeys,        \* the subject token's hash and the backend
  Exchanges,   \* calls of get_backend_token
  Validities,  \* for how long the provider's tokens are good
  XBuffer,      \* cache_ttl_buffer_seconds
  XReplyTime,   \* an exchange takes no longer: request_timeout_seconds
  MaxXTime     \* bound of the instance

ASSUME TokenExchangeAssumption ==
  /\ XReplyTime \in Nat /\ XBuffer \in Nat /\ XReplyTime <= XBuffer
  /\ Validities \subseteq Nat

VARIABLES
  xcache,   \* _cache
  xcall,    \* the calls, with the token each was given
  xTime

xvars == <<xcache, xcall, xTime>>

NoBackendToken == [good |-> 0, issued |-> 0, expiresIn |-> 0]
NoExchange  == [pc |-> "idle", key |-> "none", since |-> 0, token |-> NoBackendToken]

XInit ==
  /\ xcache = [k \in XKeys |-> NoBackendToken]
  /\ xcall = [c \in Exchanges |-> NoExchange]
  /\ xTime = 0

\* ExchangedToken.is_expired
XExpired(t) == t.expiresIn = 0 \/ xTime > t.issued + t.expiresIn

\* get_backend_token with a token in the cache that is not expired.
CacheHit(c, k) ==
  /\ xcall[c].pc = "idle"
  /\ xcache[k] # NoBackendToken /\ ~XExpired(xcache[k])
  /\ xcall' = [xcall EXCEPT ![c] =
                 [pc |-> "hit", key |-> k, since |-> xTime, token |-> xcache[k]]]
  /\ UNCHANGED <<xcache, xTime>>

\* get_backend_token otherwise: _get_cached drops an expired token.
CacheMiss(c, k) ==
  /\ xcall[c].pc = "idle"
  /\ xcache[k] = NoBackendToken \/ XExpired(xcache[k])
  /\ xcache' = [xcache EXCEPT ![k] = NoBackendToken]
  /\ xcall' = [xcall EXCEPT ![c] = [NoExchange EXCEPT !.pc = "asked", !.key = k, !.since = xTime]]
  /\ UNCHANGED xTime

(* The provider issues a token, good from now on. *)
ProviderIssues(c, v) ==
  /\ xcall[c].pc = "asked"
  /\ xcall' = [xcall EXCEPT ![c].pc = "issued",
                            ![c].token = [good |-> xTime + v, issued |-> 0, expiresIn |-> v]]
  /\ UNCHANGED <<xcache, xTime>>

\* _put_cache, with the token stamped when its answer was read.
CachedForItsLife(t) == [t EXCEPT !.issued = xTime]
CachedFor(t) ==
  [t EXCEPT !.issued = xTime,
            !.expiresIn = IF t.expiresIn > XBuffer THEN t.expiresIn - XBuffer ELSE 0]

TokenExchanged(c) ==
  /\ xcall[c].pc = "issued"
  /\ xcache' = [xcache EXCEPT ![xcall[c].key] = CachedFor(xcall[c].token)]
  /\ xcall' = [xcall EXCEPT ![c] = NoExchange]
  /\ UNCHANGED xTime

(* Refused, unreachable or late, or the call that was answered is over. *)
ExchangeOver(c) ==
  /\ xcall[c].pc \in {"asked", "issued", "hit"}
  /\ xcall' = [xcall EXCEPT ![c] = NoExchange]
  /\ UNCHANGED <<xcache, xTime>>

XTick ==
  /\ xTime < MaxXTime
  /\ \A c \in Exchanges :
       xcall[c].pc \in {"asked", "issued"} => xTime < xcall[c].since + XReplyTime
  /\ xTime' = xTime + 1
  /\ UNCHANGED <<xcache, xcall>>

XNext ==
  \/ \E c \in Exchanges, k \in XKeys : CacheHit(c, k) \/ CacheMiss(c, k)
  \/ \E c \in Exchanges, v \in Validities : ProviderIssues(c, v)
  \/ \E c \in Exchanges : TokenExchanged(c) \/ ExchangeOver(c)
  \/ XTick

XSpec == XInit /\ [][XNext]_xvars

(* A token from the cache has the rest of its buffer to live, however calls  *)
(* for one key overlapped: the buffer less the time its exchange may have    *)
(* taken, during which the provider had already started to count.            *)
CachedTokensLast ==
  \A c \in Exchanges :
    xcall[c].pc = "hit" => xcall[c].token.good + XReplyTime >= xcall[c].since + XBuffer
=============================================================================
