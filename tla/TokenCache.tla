----------------------------- MODULE TokenCache -----------------------------
(***************************************************************************)
(* AppAuth (app_auth.rs): installation tokens, minted by GitHub on request *)
(* and cached until refresh_after. Callers are the listener's tasks; the   *)
(* lock is held for a lookup or a store, never across the mint, so several *)
(* callers may miss, mint and store the same key in any order.             *)
(*                                                                         *)
(* Two clocks matter. Instant (now) is monotonic. SystemTime is what the   *)
(* host believes the date to be: it is off by skew, and may be corrected   *)
(* at any time. GitHub's expires_at and its reading of the App JWT follow  *)
(* the true time, which is taken to run with now.                          *)
(***************************************************************************)
EXTENDS Integers

CONSTANTS
  Callers,        \* tasks that call installation_token
  Keys,           \* cache keys <<installation_id, owner, repo>>
  SKEW,           \* refresh this long before expires_at (5 min)
  FALLBACK,       \* time to refresh when expires_at is missing (50 min)
  Timeout,        \* the HTTP client's timeout (20 s)
  JwtBackdated,   \* make_jwt: iat = now - 60 s
  JwtLifetime,    \* make_jwt: exp = now + 9 min
  JwtLimit,       \* GitHub: exp at most 10 min ahead
  Lifetimes,      \* lifetimes of tokens whose expires_at GitHub states
  UnstatedLifetime, \* lifetime of a token without a readable expires_at
  Skews,          \* how far the host's clock may be ahead (> 0) or behind (< 0)
  MaxTime         \* bound: the last instant

ASSUME TokenCacheAssumption ==
  /\ SKEW \in Nat /\ FALLBACK \in Nat /\ Timeout \in Nat /\ MaxTime \in Nat
  /\ JwtBackdated \in Nat /\ JwtLifetime \in Nat /\ JwtLimit \in Nat
  /\ Lifetimes \subseteq Nat \ {0} /\ Skews \subseteq Int /\ Skews # {}
  /\ UnstatedLifetime \in Nat /\ FALLBACK + Timeout < UnstatedLifetime
  /\ \A l \in Lifetimes : Timeout < l
  /\ \A s \in Skews : s + SKEW >= 0

VARIABLES
  now,     \* Instant::now()
  skew,    \* SystemTime::now() is now + skew
  cache,   \* cache[k]: the CachedToken of key k
  pc,      \* pc[c]: where the call of c stands
  key,     \* key[c]: the key c asks for
  sentAt,  \* sentAt[c]: when c sent its mint request
  jwt,     \* jwt[c]: the claims it signed
  got      \* got[c]: the token GitHub minted for c, then the one c returned

callVars == <<pc, key, sentAt, jwt, got>>
vars == <<now, skew, cache, callVars>>

\* GitHub scopes a token to one repository of one installation.
Scope(k) == <<k[1], k[3]>>
Scopes == {Scope(k) : k \in Keys}

NoKey == <<0, 0, 0>>
NoJwt == [iat |-> 0, exp |-> 0]
NoToken == [scope |-> Scope(NoKey), exp |-> 0, stated |-> FALSE]
Token == [scope : Scopes, exp : Int, stated : BOOLEAN]
NoEntry == [cached |-> FALSE]
\* An entry, with the error of the host's clock when it was stored: no code
\* reads that.
Entry == [cached : {TRUE}, token : Token, refresh_after : Int, off : Int]
EntryFor(t, after) == [cached |-> TRUE, token |-> t, refresh_after |-> after, off |-> skew]

\* MUTANT of refresh_after: refreshed at the expiry, without the margin.
refresh_at_expiry(t) ==
  IF t.stated
  THEN LET remaining == IF t.exp > now + skew THEN t.exp - (now + skew) ELSE 0
       IN  now + remaining
  ELSE now + FALLBACK

\* Both subtractions saturate at zero.
refresh_after(t) ==
  IF t.stated
  THEN LET remaining == IF t.exp > now + skew THEN t.exp - (now + skew) ELSE 0
       IN  now + (IF remaining > SKEW THEN remaining - SKEW ELSE 0)
  ELSE now + FALLBACK

\* What make_jwt signs, and GitHub's test of it on arrival.
make_jwt == [iat |-> now + skew - JwtBackdated, exp |-> now + skew + JwtLifetime]

GitHubAccepts(j) == j.iat <= now /\ now < j.exp /\ j.exp <= now + JwtLimit

-----------------------------------------------------------------------------
Init ==
  /\ now = 0
  /\ skew \in Skews
  /\ cache = [k \in Keys |-> NoEntry]
  /\ pc = [c \in Callers |-> "idle"]
  /\ key = [c \in Callers |-> NoKey]
  /\ sentAt = [c \in Callers |-> 0]
  /\ jwt = [c \in Callers |-> NoJwt]
  /\ got = [c \in Callers |-> NoToken]

\* MUTANT of cached: a token is served one instant too long.
cached_late(k) == cache[k].cached /\ now <= cache[k].refresh_after

\* The lookup, under the lock.
cached(k) == cache[k].cached /\ now < cache[k].refresh_after

\* MUTANT of CacheKey: keyed by installation alone.
CacheKeyOfInstallation(k) == CHOOSE j \in Keys : j[1] = k[1]

\* The entry a key uses.
CacheKey(k) == k

Hit(c, k) ==
  /\ pc[c] = "idle" /\ cached(CacheKey(k))
  /\ pc' = [pc EXCEPT ![c] = "returned"]
  /\ key' = [key EXCEPT ![c] = k]
  /\ got' = [got EXCEPT ![c] = cache[CacheKey(k)].token]
  /\ UNCHANGED <<now, skew, cache, sentAt, jwt>>

\* No fresh token: sign a JWT and send the request; the lock is free again.
Miss(c, k) ==
  /\ pc[c] = "idle" /\ ~cached(CacheKey(k))
  /\ pc' = [pc EXCEPT ![c] = "minting"]
  /\ key' = [key EXCEPT ![c] = k]
  /\ sentAt' = [sentAt EXCEPT ![c] = now]
  /\ jwt' = [jwt EXCEPT ![c] = make_jwt]
  /\ UNCHANGED <<now, skew, cache, got>>

\* GitHub mints, stating the expiry or not.
GitHubMints(c) ==
  /\ pc[c] = "minting" /\ GitHubAccepts(jwt[c])
  /\ pc' = [pc EXCEPT ![c] = "minted"]
  /\ \/ \E l \in Lifetimes :
          got' = [got EXCEPT ![c] =
                    [scope |-> Scope(key[c]), exp |-> now + l, stated |-> TRUE]]
     \/ got' = [got EXCEPT ![c] = [scope |-> Scope(key[c]), exp |-> now + UnstatedLifetime,
                                   stated |-> FALSE]]
  /\ jwt' = [jwt EXCEPT ![c] = NoJwt]
  /\ UNCHANGED <<now, skew, cache, key, sentAt>>

\* MUTANT of MintReturns: stored after the token was moved to the caller.
MintReturnsEmpty(c) ==
  /\ pc[c] = "minted" /\ now <= sentAt[c] + Timeout
  /\ cache' = [cache EXCEPT ![CacheKey(key[c])] = EntryFor(NoToken, refresh_after(got[c]))]
  /\ pc' = [pc EXCEPT ![c] = "returned"]
  /\ sentAt' = [sentAt EXCEPT ![c] = 0]
  /\ UNCHANGED <<now, skew, key, jwt, got>>

\* The answer arrives in time: store, whatever another caller stored
\* meanwhile, and return the minted token.
MintReturns(c) ==
  /\ pc[c] = "minted" /\ now <= sentAt[c] + Timeout
  /\ cache' = [cache EXCEPT ![CacheKey(key[c])] = EntryFor(got[c], refresh_after(got[c]))]
  /\ pc' = [pc EXCEPT ![c] = "returned"]
  /\ sentAt' = [sentAt EXCEPT ![c] = 0]
  /\ UNCHANGED <<now, skew, key, jwt, got>>

\* The call is over and its locals with it.
Over(c) ==
  /\ pc' = [pc EXCEPT ![c] = "idle"]
  /\ key' = [key EXCEPT ![c] = NoKey]
  /\ sentAt' = [sentAt EXCEPT ![c] = 0]
  /\ jwt' = [jwt EXCEPT ![c] = NoJwt]
  /\ got' = [got EXCEPT ![c] = NoToken]
  /\ UNCHANGED <<now, skew, cache>>

\* A refused JWT, another error status, a broken connection, no answer
\* within the timeout: the error ends the event.
MintFails(c) == pc[c] \in {"minting", "minted"} /\ Over(c)

\* The task is done with its token; a later event calls again.
Done(c) == pc[c] = "returned" /\ Over(c)

Tick ==
  /\ now < MaxTime
  /\ now' = now + 1
  /\ UNCHANGED <<skew, cache, callVars>>

\* The host's clock is set.
SetClock ==
  /\ skew' \in Skews \ {skew}
  /\ UNCHANGED <<now, cache, callVars>>

-----------------------------------------------------------------------------
installation_token(c) ==
  \/ \E k \in Keys : Hit(c, k) \/ Miss(c, k)
  \/ MintReturns(c) \/ MintFails(c)

Next ==
  \/ \E c \in Callers : installation_token(c) \/ GitHubMints(c) \/ Done(c)
  \/ Tick
  \/ SetClock

Spec == Init /\ [][Next]_vars

-----------------------------------------------------------------------------
\* The shape of the state.
TypeOK ==
  /\ now \in Nat
  /\ skew \in Skews
  /\ cache \in [Keys -> Entry \cup {NoEntry}]
  /\ pc \in [Callers -> {"idle", "minting", "minted", "returned"}]
  /\ key \in [Callers -> Keys \cup {NoKey}]
  /\ sentAt \in [Callers -> Int]
  /\ jwt \in [Callers -> [iat : Int, exp : Int]]
  /\ got \in [Callers -> Token \cup {NoToken}]

\* The step in which the call of c comes back with a token.
Returns(c) == pc[c] # "returned" /\ pc'[c] = "returned"

\* A caller gets a token for its own repository and installation, whichever
\* callers minted and stored before it.
RightScope == \A c \in Callers : pc[c] = "returned" => got[c].scope = Scope(key[c])

\* "Return a valid installation token": alive when the call returns, out of
\* the cache or freshly minted, with or without a stated expiry, through
\* every order of stores and every correction of the clock.
HandedOutAlive == [][\A c \in Callers : Returns(c) => now < got'[c].exp]_vars

\* "We refresh well before expiry": a token out of the cache has more than
\* SKEW left to live if the host's clock was right when the token was stored,
\* more by as much as the clock was ahead, less by as much as it was behind;
\* what has been done to the clock since is no matter.
HitsKeepMargin ==
  [][\A c \in Callers :
       Returns(c) /\ pc[c] = "idle" /\ got'[c].stated =>
         got'[c].exp - now > SKEW + cache[CacheKey(key'[c])].off]_vars

=============================================================================
