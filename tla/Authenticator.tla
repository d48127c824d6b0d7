--------------------------- MODULE Authenticator ---------------------------
(***************************************************************************)
(* Authentication of tokens: auth/tokens.Authenticator with its cache of   *)
(* claims, auth/suppliers.JwksSupplier with its cache of keys and          *)
(* KeyUriSupplier with what it discovered.  The caches are dogpile.cache   *)
(* regions: an entry that has expired is regenerated by one thread, and    *)
(* given as it is to the threads that come meanwhile; where there is none, *)
(* they wait.                                                              *)
(*                                                                         *)
(* A token is what is decoded from it: the issuer it claims, the key that  *)
(* signed it, when it is valid.  Providers rotate their keys.              *)
(***************************************************************************)
EXTENDS Naturals, FiniteSets, Sequences, SequencesExt

CONSTANTS
  Workers,      \* threads that authenticate
  Tokens, Issuers, SigningKeys,
  IssuerOf,     \* the `iss' claim of a token
  SignedWith,   \* the key a token is signed with
  Rotated,      \* bound: the keys that may be withdrawn
  OwnerOf,      \* the issuer a key belongs to
  NotBefore, Expires,  \* the clock at which a token is valid, its `nbf' and `exp'
  UriOf,        \* the jwks_uri of an issuer's provider: set, unset, or no such provider
  Methods,      \* API methods
  Allowed,      \* the tokens whose provider and audience a method allows
  Capacity,     \* cache_capacity
  TokenTtl, JwksTtl,  \* the expiration times of the two caches
  EndOfTime     \* bound: the last value of the clock

ASSUME AuthAssumption ==
  /\ IssuerOf \in [Tokens -> Issuers] /\ SignedWith \in [Tokens -> SigningKeys]
  /\ OwnerOf \in [SigningKeys -> Issuers]
  /\ NotBefore \in [Tokens -> Nat] /\ Expires \in [Tokens -> Nat]
  /\ UriOf \in [Issuers -> {"set", "unset", "unknown"}]
  /\ Allowed \in [Methods -> SUBSET Tokens]
  /\ Capacity \in Nat \ {0} /\ {TokenTtl, JwksTtl, EndOfTime} \subseteq Nat

VARIABLES
  now,       \* time.time()
  uri,       \* _issuer_uri_configs: a uri, to be discovered, or none - never
             \* given, not found by a discovery, or the issuer is not there
  jwks,      \* _jwks_cache: the keys of an issuer, and when they were retrieved
  claims,    \* _cache: when the claims of a token were put there
  lru,       \* the tokens in _cache, least recently used first
  tokenLock, \* who is creating the claims of a token
  jwksLock,  \* who is retrieving the keys of an issuer
  call,      \* the authenticate() of a worker: where it is, and with what
  revoked,   \* when the provider withdrew a key, NotYet before
  late       \* history: how long, at most, an answer was under way, and keys or
             \* claims were used after they had expired

authVars == <<now, uri, jwks, claims, lru, tokenLock, jwksLock, call, revoked, late>>
caches == <<uri, jwks, claims, lru>>
locks == <<tokenLock, jwksLock>>

Nobody == "nobody"
NotYet == EndOfTime + 1
Absent == EndOfTime + 1      \* no claims in the cache
NoKeys == [keys |-> {}, at |-> EndOfTime + 1]
Idle == {[at |-> "idle"], [at |-> "accepted"], [at |-> "rejected"]}

CallType ==
  Idle \cup [at : {"claims", "keys", "fetch", "check"}, token : Tokens]
  \cup [at : {"verify"}, token : Tokens, keys : SUBSET SigningKeys]
  \cup [at : {"answer"}, token : Tokens, keys : SUBSET SigningKeys, given : Nat]

Published(i) == {k \in SigningKeys : OwnerOf[k] = i /\ revoked[k] = NotYet}

-----------------------------------------------------------------------------
Goes(w, place) ==
  call' = [call EXCEPT ![w] = [at |-> place, token |-> @.token]]
Returns(w, result) == call' = [call EXCEPT ![w] = [at |-> result]]
Later(which, time) == late' = [late EXCEPT ![which] = IF time > @ THEN time ELSE @]
HasKeys(w, ks) ==
  call' = [call EXCEPT ![w] = [at |-> "verify", token |-> @.token, keys |-> ks]]

GivenKeys(w, ks) ==
  call' = [call EXCEPT ![w] =
             [at |-> "answer", token |-> @.token, keys |-> ks, given |-> now]]

\* LruBackend: a read makes an entry the last to go, a write makes room first.
Touch(t) == lru' = Append(RemoveFirst(lru, t), t)
\* Mutant of Cache: the claims of another token are not evicted.
CacheAll(t) ==
  /\ lru' = Append(RemoveFirst(lru, t), t)
  /\ claims' = [claims EXCEPT ![t] = now]
Cache(t) ==
  LET all  == Append(RemoveFirst(lru, t), t)
      kept == IF Len(all) > Capacity THEN Tail(all) ELSE all
  IN  /\ lru' = kept
      /\ claims' = [u \in Tokens |-> IF u = t THEN now
                                     ELSE IF Contains(kept, u) THEN claims[u] ELSE Absent]

\* _create_authenticator disables discovery: it tests a jwks_uri for None, which a
\* string of a message never is.  Others, as the tests do, may enable it.
AuthInit ==
  /\ now = 0
  /\ \E openId \in BOOLEAN :
       uri = [i \in Issuers |-> IF openId /\ UriOf[i] = "unset" THEN "discover" ELSE UriOf[i]]
  /\ jwks = [i \in Issuers |-> NoKeys]
  /\ claims = [t \in Tokens |-> Absent] /\ lru = <<>>
  /\ tokenLock = [t \in Tokens |-> Nobody] /\ jwksLock = [i \in Issuers |-> Nobody]
  /\ call = [w \in Workers |-> [at |-> "idle"]]
  /\ revoked = [k \in SigningKeys |-> NotYet]
  /\ late = [answer |-> 0, keys |-> 0, claims |-> 0]

\* time.time().  It passes while threads wait, not while they compute.
Tick ==
  /\ now < EndOfTime /\ now' = now + 1
  /\ \A w \in Workers : call[w].at \notin {"verify", "check"}
  /\ UNCHANGED <<caches, locks, call, revoked, late>>

\* A provider withdraws a key.
Revoke(k) ==
  /\ revoked[k] = NotYet /\ revoked' = [revoked EXCEPT ![k] = now]
  /\ UNCHANGED <<now, caches, locks, call, late>>

Authenticate(w, t) ==
  /\ call[w] \in Idle
  /\ call' = [call EXCEPT ![w] = [at |-> "claims", token |-> t]]
  /\ UNCHANGED <<now, caches, locks, revoked, late>>

\* Mutant of Claims: what is in the cache is not checked again.
ClaimsTrusted(w) ==
  LET t == call[w].token
      fresh == claims[t] # Absent /\ now <= claims[t] + TokenTtl
  IN  /\ call[w].at = "claims"
      /\ IF fresh
         THEN Returns(w, "accepted") /\ Touch(t) /\ UNCHANGED tokenLock
         ELSE /\ tokenLock[t] = Nobody
              /\ tokenLock' = [tokenLock EXCEPT ![t] = w]
              /\ Goes(w, "keys") /\ UNCHANGED lru
      /\ UNCHANGED <<now, uri, jwks, claims, jwksLock, revoked, late>>

\* get_jwt_claims: the claims are in the cache, or this thread creates them.
Claims(w) ==
  LET t == call[w].token
      fresh == claims[t] # Absent /\ now <= claims[t] + TokenTtl
  IN  /\ call[w].at = "claims"
      /\ IF fresh \/ (claims[t] # Absent /\ tokenLock[t] # Nobody)
         THEN /\ Goes(w, "check") /\ Later("claims", now - (claims[t] + TokenTtl))
              /\ UNCHANGED tokenLock
         ELSE /\ tokenLock[t] = Nobody
              /\ tokenLock' = [tokenLock EXCEPT ![t] = w]
              /\ Goes(w, "keys") /\ UNCHANGED late
      /\ IF claims[t] # Absent THEN Touch(t) ELSE UNCHANGED lru
      /\ UNCHANGED <<now, uri, jwks, claims, jwksLock, revoked>>

\* Mutant of Keys: the keys that were retrieved are kept.
KeysForever(w) ==
  LET i == IssuerOf[call[w].token]
  IN  /\ call[w].at = "keys"
      /\ IF jwks[i] # NoKeys
         THEN HasKeys(w, jwks[i].keys) /\ UNCHANGED jwksLock
         ELSE /\ jwksLock[i] = Nobody
              /\ jwksLock' = [jwksLock EXCEPT ![i] = w]
              /\ Goes(w, "fetch")
      /\ UNCHANGED <<now, caches, tokenLock, revoked, late>>

\* JwksSupplier.supply, the same for the keys of the claimed issuer.
Keys(w) ==
  LET i == IssuerOf[call[w].token]
      fresh == jwks[i] # NoKeys /\ now <= jwks[i].at + JwksTtl
  IN  /\ call[w].at = "keys"
      /\ IF fresh \/ (jwks[i] # NoKeys /\ jwksLock[i] # Nobody)
         THEN /\ HasKeys(w, jwks[i].keys) /\ Later("keys", now - (jwks[i].at + JwksTtl))
              /\ UNCHANGED jwksLock
         ELSE /\ jwksLock[i] = Nobody
              /\ jwksLock' = [jwksLock EXCEPT ![i] = w]
              /\ Goes(w, "fetch") /\ UNCHANGED late
      /\ UNCHANGED <<now, caches, tokenLock, revoked>>

Unlock(lock, x) == [lock EXCEPT ![x] = Nobody]

\* Mutant of Asked: the uri of the issuer is not looked for.
AskedAnywhere(w) ==
  LET i == IssuerOf[call[w].token]
  IN  /\ call[w].at = "fetch"
      /\ \E j \in Issuers : GivenKeys(w, Published(j))
      /\ UNCHANGED <<now, uri, jwks, claims, lru, locks, revoked, late>>

\* KeyUriSupplier.supply, then the request to that uri: the issuer answers with its
\* keys of that moment.
Asked(w) ==
  LET i == IssuerOf[call[w].token]
  IN  /\ call[w].at = "fetch" /\ uri[i] \in {"set", "discover"}
      /\ uri' = [uri EXCEPT ![i] = "set"]
      /\ GivenKeys(w, Published(i))
      /\ UNCHANGED <<now, jwks, claims, lru, locks, revoked, late>>

\* The answer arrives: requests.get has no timeout.
Fetched(w) ==
  LET i == IssuerOf[call[w].token]
  IN  /\ call[w].at = "answer"
      /\ jwks' = [jwks EXCEPT ![i] = [keys |-> call[w].keys, at |-> now]]
      /\ HasKeys(w, call[w].keys)
      /\ Later("answer", now - call[w].given)
      /\ jwksLock' = Unlock(jwksLock, i)
      /\ UNCHANGED <<now, uri, claims, lru, tokenLock, revoked>>

\* There is no uri, or a request fails.  A discovery that answers without a uri is
\* remembered, and not tried again.
NotFetched(w) ==
  LET i == IssuerOf[call[w].token]
  IN  /\ call[w].at \in {"fetch", "answer"}
      /\ \/ UNCHANGED uri
         \/ /\ call[w].at = "fetch" /\ uri[i] = "discover"
            /\ \E found \in {"set", "failed"} : uri' = [uri EXCEPT ![i] = found]
      /\ jwksLock' = Unlock(jwksLock, i)
      /\ tokenLock' = Unlock(tokenLock, call[w].token)
      /\ Returns(w, "rejected")
      /\ UNCHANGED <<now, jwks, claims, lru, revoked, late>>

\* verify_compact: the claims are cached only if one of the keys fits.
Verify(w) ==
  /\ call[w].at = "verify"
  /\ IF SignedWith[call[w].token] \in call[w].keys
     THEN Cache(call[w].token) /\ Goes(w, "check")
     ELSE Returns(w, "rejected") /\ UNCHANGED <<claims, lru>>
  /\ tokenLock' = Unlock(tokenLock, call[w].token)
  /\ UNCHANGED <<now, uri, jwks, jwksLock, revoked, late>>

\* _check_jwt_claims, and the rest of authenticate.
ValidFor(t, m) == now < Expires[t] /\ now >= NotBefore[t] /\ t \in Allowed[m]

\* What depends on the time and on the method that is called.
CheckClaims(w, m) ==
  /\ call[w].at = "check"
  /\ Returns(w, IF ValidFor(call[w].token, m) THEN "accepted" ELSE "rejected")
  /\ UNCHANGED <<now, caches, locks, revoked, late>>

AuthStep(w) ==
  \/ Claims(w) \/ Keys(w) \/ Asked(w) \/ Fetched(w) \/ NotFetched(w) \/ Verify(w)
  \/ \E m \in Methods : CheckClaims(w, m)

AuthNext ==
  \/ Tick
  \/ \E k \in Rotated : Revoke(k)
  \/ \E w \in Workers : AuthStep(w) \/ \E t \in Tokens : Authenticate(w, t)

AuthSpec == AuthInit /\ [][AuthNext]_authVars

-----------------------------------------------------------------------------
AuthTypeOK ==
  /\ now \in 0..EndOfTime
  /\ uri \in [Issuers -> {"set", "discover", "unset", "failed", "unknown"}]
  /\ jwks \in [Issuers -> [keys : SUBSET SigningKeys, at : 0..(EndOfTime + 1)]]
  /\ claims \in [Tokens -> 0..(EndOfTime + 1)]
  /\ lru \in Seq(Tokens) /\ Len(lru) <= Capacity
  /\ ToSet(lru) = {t \in Tokens : claims[t] # Absent}
  /\ tokenLock \in [Tokens -> Workers \cup {Nobody}]
  /\ jwksLock \in [Issuers -> Workers \cup {Nobody}]
  /\ call \in [Workers -> CallType]
  /\ revoked \in [SigningKeys -> 0..NotYet] /\ late \in [{"answer", "keys", "claims"} -> 0..EndOfTime]

Accepts(w) == call[w].at # "accepted" /\ call'[w].at = "accepted"

\* A token is accepted only while it is valid, however long ago its claims were
\* verified and cached.
AcceptedNow ==
  [][\A w \in Workers : Accepts(w) =>
       NotBefore[call[w].token] <= now /\ now < Expires[call[w].token]]_authVars

\* A token signed with a key that its provider has withdrawn is accepted for no longer
\* than the two expiration times together, and what the lateness of others adds: an
\* answer of the provider that was long under way, and keys and claims that had
\* expired and were served while another thread was replacing them.
RevocationBound ==
  [][\A w \in Workers : Accepts(w) =>
       now <= revoked[SignedWith[call[w].token]]
                + late.answer + JwksTtl + late.keys + TokenTtl + late.claims]_authVars

\* Whoever's keys are in the cache, only claims verified with a key of the issuer
\* they name are cached.
OwnKeysOnly ==
  \A t \in ToSet(lru) : OwnerOf[SignedWith[t]] = IssuerOf[t]

-----------------------------------------------------------------------------
(* What the source says of the suppliers, and the code does not do.        *)

\* wsgi.py:684 "Enable openID discovery if jwks_uri is unset": no token is refused
\* for want of a uri that could have been discovered.
UnsetIsDiscovered ==
  [][\A w \in Workers : call[w].at = "fetch" /\ call'[w].at = "rejected" =>
       uri[IssuerOf[call[w].token]] # "unset"]_authVars
=============================================================================
