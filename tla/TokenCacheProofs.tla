-------------------------- MODULE TokenCacheProofs --------------------------
(***************************************************************************)
(* A token handed out is for the repository asked for and is alive: for    *)
(* any callers, keys and lifetimes, every order of mints and stores, and   *)
(* any corrections of a host clock that is at most SKEW behind. And the    *)
(* calendar by which the stated expiry is read is the Gregorian one: a     *)
(* date's number is how many dates there are before it, from 1970 on.      *)
(***************************************************************************)
EXTENDS TokenCache, CivilDate, SelectionProofs

(* The strengthening.                                                      *)

\* A call in flight is for a key, and a minted token outlives the timeout of
\* the request that asked for it.
CallKnows ==
  \A c \in Callers :
    /\ sentAt[c] <= now
    /\ pc[c] # "idle" => key[c] \in Keys
    /\ pc[c] \in {"minted", "returned"} => /\ got[c] \in Token
                                           /\ got[c].scope = Scope(key[c])
    /\ pc[c] = "minted" /\ got[c].stated => sentAt[c] + Timeout < got[c].exp
    /\ pc[c] = "minted" /\ ~got[c].stated => sentAt[c] + Timeout + FALLBACK < got[c].exp

\* An entry is stale already or goes stale before its token dies: SKEW before,
\* by the clock that read its expiry.
CacheKnows ==
  \A k \in Keys : cache[k].cached =>
    /\ cache[k].token.scope = Scope(k)
    /\ cache[k].refresh_after <= now \/ cache[k].refresh_after <= cache[k].token.exp
    /\ cache[k].token.stated =>
         \/ cache[k].refresh_after <= now
         \/ cache[k].refresh_after <= cache[k].token.exp - cache[k].off - SKEW

Knows == TypeOK /\ CallKnows /\ CacheKnows

-----------------------------------------------------------------------------
\* What refresh_after gives: for a stated expiry either now, or SKEW before
\* the expiry as the host reads it, and never past the expiry itself.
LEMMA RefreshAfter ==
  ASSUME now \in Nat, skew \in Skews, NEW t \in Token
  PROVE  /\ refresh_after(t) \in Int
         /\ t.stated => \/ refresh_after(t) = now
                        \/ /\ refresh_after(t) = t.exp - skew - SKEW
                           /\ refresh_after(t) <= t.exp
         /\ ~t.stated => refresh_after(t) = now + FALLBACK
<1> USE TokenCacheAssumption
<1>1. skew \in Int /\ skew + SKEW >= 0 /\ t.exp \in Int /\ SKEW \in Nat /\ FALLBACK \in Nat
  BY DEF Token
<1>2. CASE ~t.stated
  BY <1>1, <1>2 DEF refresh_after
<1>3. CASE t.stated /\ t.exp - (now + skew) > SKEW
  <2>1. refresh_after(t) = now + ((t.exp - (now + skew)) - SKEW)
    BY <1>1, <1>3 DEF refresh_after
  <2> QED
    BY <1>1, <1>3, <2>1
<1>4. CASE t.stated /\ ~(t.exp - (now + skew) > SKEW)
  <2>1. refresh_after(t) = now
    BY <1>1, <1>4 DEF refresh_after
  <2> QED
    BY <1>4, <2>1
<1> QED
  BY <1>1, <1>2, <1>3, <1>4

LEMMA InitKnows == Init => Knows
<1> SUFFICES ASSUME Init PROVE Knows
  OBVIOUS
<1> USE TokenCacheAssumption DEF Init
<1>1. TypeOK
  BY DEF TypeOK, NoJwt
<1>2. CallKnows /\ CacheKnows
  BY DEF CallKnows, CacheKnows, NoEntry
<1> QED
  BY <1>1, <1>2 DEF Knows

LEMMA EntryOf ==
  ASSUME TypeOK, NEW k \in Keys, cache[k].cached
  PROVE  /\ cache[k] \in Entry
         /\ cache[k].refresh_after \in Int /\ cache[k].off \in Int
         /\ cache[k].token \in Token /\ cache[k].token.exp \in Int
<1>1. cache[k] \in Entry
  BY DEF TypeOK, NoEntry
<1> QED
  BY <1>1 DEF Entry, Token

\* A token GitHub mints is one, and outlives the timeout of its request.
LEMMA Minted ==
  ASSUME Knows, NEW c \in Callers, GitHubMints(c)
  PROVE  /\ got'[c] \in Token /\ got'[c].scope = Scope(key[c])
         /\ got' = [got EXCEPT ![c] = got'[c]]
         /\ got'[c].stated => sentAt[c] + Timeout < got'[c].exp
         /\ ~got'[c].stated => sentAt[c] + Timeout + FALLBACK < got'[c].exp
<1> USE TokenCacheAssumption DEF Knows, TypeOK
<1>1. Scope(key[c]) \in Scopes /\ sentAt[c] <= now /\ sentAt[c] \in Int
  BY DEF GitHubMints, CallKnows, Scopes
<1>2. ASSUME NEW l \in Lifetimes,
             got' = [got EXCEPT ![c] =
                       [scope |-> Scope(key[c]), exp |-> now + l, stated |-> TRUE]]
      PROVE  /\ got'[c] \in Token /\ got'[c].scope = Scope(key[c])
             /\ got' = [got EXCEPT ![c] = got'[c]]
             /\ got'[c].stated /\ sentAt[c] + Timeout < got'[c].exp
  <2>1. got'[c] = [scope |-> Scope(key[c]), exp |-> now + l, stated |-> TRUE]
    BY <1>2
  <2>2. l \in Nat /\ Timeout < l
    OBVIOUS
  <2>3. now + l \in Int /\ sentAt[c] + Timeout < now + l
    BY <1>1, <2>2
  <2> QED
    BY <1>1, <1>2, <2>1, <2>3 DEF Token
<1>3. ASSUME got' = [got EXCEPT ![c] = [scope |-> Scope(key[c]), exp |-> now + UnstatedLifetime,
                                        stated |-> FALSE]]
      PROVE  /\ got'[c] \in Token /\ got'[c].scope = Scope(key[c])
             /\ got' = [got EXCEPT ![c] = got'[c]]
             /\ ~got'[c].stated /\ sentAt[c] + Timeout + FALLBACK < got'[c].exp
  <2>1. got'[c] = [scope |-> Scope(key[c]), exp |-> now + UnstatedLifetime, stated |-> FALSE]
    BY <1>3
  <2>2. /\ now + UnstatedLifetime \in Int
        /\ sentAt[c] + Timeout + FALLBACK < now + UnstatedLifetime
    BY <1>1
  <2> QED
    BY <1>1, <1>3, <2>1, <2>2 DEF Token
<1> QED
  BY <1>2, <1>3 DEF GitHubMints

\* A lookup that hits returns the entry of the very key asked for.
LEMMA HitReturns ==
  ASSUME Knows, NEW c \in Callers, NEW k \in Keys, Hit(c, k)
  PROVE  /\ cache[k].cached /\ cache[k].token \in Token
         /\ got'[c] = cache[k].token /\ key'[c] = k
         /\ now < cache[k].refresh_after
<1> USE DEF Knows, TypeOK, Hit, CacheKey, cached
<1>1. cache[k] \in Entry
  BY DEF NoEntry
<1> QED
  BY <1>1 DEF Entry

LEMMA NextType == Knows /\ [Next]_vars => TypeOK'
<1> SUFFICES ASSUME Knows, [Next]_vars PROVE TypeOK'
  OBVIOUS
<1> USE TokenCacheAssumption DEF Knows, TypeOK
<1>1. ASSUME NEW c \in Callers, NEW k \in Keys, Hit(c, k) PROVE TypeOK'
  BY <1>1, HitReturns DEF Hit
<1>2. ASSUME NEW c \in Callers, NEW k \in Keys, Miss(c, k) PROVE TypeOK'
  <2>1. make_jwt \in [iat : Int, exp : Int]
    BY DEF make_jwt
  <2> QED
    BY <1>2, <2>1 DEF Miss
<1>3. ASSUME NEW c \in Callers, GitHubMints(c) PROVE TypeOK'
  <2>1. got' \in [Callers -> Token \cup {NoToken}]
    BY <1>3, Minted
  <2> QED
    BY <1>3, <2>1 DEF GitHubMints, NoJwt
<1>4. ASSUME NEW c \in Callers, MintReturns(c) PROVE TypeOK'
  <2>1. key[c] \in Keys /\ got[c] \in Token
    BY <1>4 DEF MintReturns, CallKnows
  <2>2. EntryFor(got[c], refresh_after(got[c])) \in Entry
    BY <2>1, RefreshAfter DEF Entry, EntryFor
  <2> QED
    BY <1>4, <2>1, <2>2 DEF MintReturns, CacheKey
<1>5. ASSUME NEW c \in Callers, MintFails(c) \/ Done(c) PROVE TypeOK'
  <2>1. NoJwt \in [iat : Int, exp : Int] /\ NoToken \in Token \cup {NoToken}
    BY DEF NoJwt
  <2>2. Over(c)
    BY <1>5 DEF MintFails, Done
  <2> QED
    BY <2>1, <2>2 DEF Over
<1>6. CASE Tick \/ SetClock
  BY <1>6 DEF Tick, SetClock, callVars
<1>7. CASE UNCHANGED vars
  BY <1>7 DEF vars, callVars
<1> QED
  BY <1>1, <1>2, <1>3, <1>4, <1>5, <1>6, <1>7 DEF Next, installation_token

LEMMA NextCall == Knows /\ [Next]_vars => CallKnows'
<1> SUFFICES ASSUME Knows, [Next]_vars PROVE CallKnows'
  OBVIOUS
<1> USE TokenCacheAssumption DEF Knows, TypeOK, CallKnows
<1>1. ASSUME NEW c \in Callers, NEW k \in Keys, Hit(c, k) PROVE CallKnows'
  <2>1. /\ got'[c] = cache[k].token /\ cache[k].token \in Token /\ key'[c] = k
        /\ cache[k].token.scope = Scope(k)
    BY <1>1, HitReturns DEF CacheKnows
  <2>2. /\ \A e \in Callers \ {c} : pc'[e] = pc[e] /\ key'[e] = key[e] /\ got'[e] = got[e]
        /\ pc'[c] = "returned" /\ UNCHANGED <<now, sentAt>>
    BY <1>1 DEF Hit
  <2> QED BY <2>1, <2>2
<1>2. ASSUME NEW c \in Callers, NEW k \in Keys, Miss(c, k) PROVE CallKnows'
  <2>1. /\ \A e \in Callers \ {c} : pc'[e] = pc[e] /\ key'[e] = key[e] /\ sentAt'[e] = sentAt[e]
        /\ pc'[c] = "minting" /\ key'[c] = k /\ sentAt'[c] = now
        /\ now' = now /\ got' = got
    BY <1>2 DEF Miss
  <2> QED BY <2>1
<1>3. ASSUME NEW c \in Callers, GitHubMints(c) PROVE CallKnows'
  <2>1. \A e \in Callers \ {c} : got'[e] = got[e] /\ pc'[e] = pc[e]
    BY <1>3 DEF GitHubMints
  <2>2. pc'[c] = "minted" /\ UNCHANGED <<key, sentAt, now>> /\ pc[c] = "minting"
    BY <1>3 DEF GitHubMints
  <2> QED
    BY <1>3, <2>1, <2>2, Minted
<1>4. ASSUME NEW c \in Callers, MintReturns(c) PROVE CallKnows'
  BY <1>4 DEF MintReturns
<1>5. ASSUME NEW c \in Callers, MintFails(c) \/ Done(c) PROVE CallKnows'
  BY <1>5 DEF MintFails, Done, Over
<1>6. CASE Tick \/ SetClock
  BY <1>6 DEF Tick, SetClock, callVars
<1>7. CASE UNCHANGED vars
  BY <1>7 DEF vars, callVars
<1> QED
  BY <1>1, <1>2, <1>3, <1>4, <1>5, <1>6, <1>7 DEF Next, installation_token

LEMMA NextCache == Knows /\ [Next]_vars => CacheKnows'
<1> SUFFICES ASSUME Knows, [Next]_vars PROVE CacheKnows'
  OBVIOUS
<1> USE TokenCacheAssumption DEF Knows, TypeOK, CacheKnows
<1>0. UNCHANGED <<now, cache>> => CacheKnows'
  OBVIOUS
<1>1. ASSUME NEW c \in Callers, MintReturns(c) PROVE CacheKnows'
  <2>1. /\ key[c] \in Keys /\ got[c] \in Token /\ got[c].scope = Scope(key[c])
        /\ now <= sentAt[c] + Timeout /\ sentAt[c] \in Int
        /\ got[c].stated => sentAt[c] + Timeout < got[c].exp
        /\ ~got[c].stated => sentAt[c] + Timeout + FALLBACK < got[c].exp
        /\ got[c].exp \in Int
    BY <1>1 DEF MintReturns, CallKnows, Token
  <2> DEFINE r == refresh_after(got[c])
  <2>2. /\ r \in Int
        /\ got[c].stated => r <= now \/ (r = got[c].exp - skew - SKEW /\ r <= got[c].exp)
        /\ r <= now \/ r <= got[c].exp
    BY <2>1, RefreshAfter
  <2>3. cache' = [cache EXCEPT ![key[c]] =
                    [cached |-> TRUE, token |-> got[c], refresh_after |-> r, off |-> skew]]
        /\ now' = now
    BY <1>1 DEF MintReturns, CacheKey, EntryFor
  <2> HIDE DEF r
  <2> SUFFICES ASSUME NEW k \in Keys, cache'[k].cached
               PROVE  /\ cache'[k].token.scope = Scope(k)
                      /\ cache'[k].refresh_after <= now \/
                           cache'[k].refresh_after <= cache'[k].token.exp
                      /\ cache'[k].token.stated =>
                           \/ cache'[k].refresh_after <= now
                           \/ cache'[k].refresh_after <=
                                cache'[k].token.exp - cache'[k].off - SKEW
    BY <2>3
  <2>4. CASE k = key[c]
    <3>1. cache'[k] = [cached |-> TRUE, token |-> got[c], refresh_after |-> r, off |-> skew]
      BY <2>1, <2>3, <2>4
    <3>2. got[c].stated => r <= now \/ r <= got[c].exp - skew - SKEW
      BY <2>1, <2>2
    <3> QED
      BY <2>1, <2>2, <2>4, <3>1, <3>2
  <2>5. CASE k # key[c]
    BY <2>3, <2>5
  <2> QED
    BY <2>4, <2>5
<1>2. ASSUME NEW c \in Callers, NEW k \in Keys, Hit(c, k) \/ Miss(c, k) PROVE CacheKnows'
  BY <1>0, <1>2 DEF Hit, Miss
<1>3. ASSUME NEW c \in Callers, GitHubMints(c) \/ MintFails(c) \/ Done(c) PROVE CacheKnows'
  BY <1>0, <1>3 DEF GitHubMints, MintFails, Done, Over
<1>4. CASE Tick
  <2>1. \A k \in Keys : cache[k].cached => cache[k].refresh_after \in Int
    BY EntryOf DEF TypeOK
  <2> QED
    BY <1>4, <2>1 DEF Tick
<1>5. CASE SetClock \/ UNCHANGED vars
  BY <1>0, <1>5 DEF SetClock, vars
<1> QED
  BY <1>1, <1>2, <1>3, <1>4, <1>5 DEF Next, installation_token

LEMMA KnowsInductive == Spec => []Knows
<1>1. Knows /\ [Next]_vars => Knows'
  BY NextType, NextCall, NextCache DEF Knows
<1> QED
  BY InitKnows, <1>1, PTL DEF Spec

-----------------------------------------------------------------------------
\* Every variable keeps its type.
THEOREM TypeCorrect == Spec => []TypeOK
<1>1. Knows => TypeOK
  BY DEF Knows
<1> QED
  BY <1>1, KnowsInductive, PTL

\* No caller is handed the token of another repository or installation.
THEOREM ScopeIsRight == Spec => []RightScope
<1>1. Knows => RightScope
  BY DEF Knows, CallKnows, RightScope
<1> QED
  BY <1>1, KnowsInductive, PTL

\* The two ways a call comes back with a token.
LEMMA ReturnForms ==
  ASSUME Knows, [Next]_vars, NEW c \in Callers, Returns(c)
  PROVE  \/ \E k \in Keys : Hit(c, k)
         \/ MintReturns(c)
<1> USE DEF Knows, TypeOK, Returns
<1>1. ASSUME NEW e \in Callers, NEW k \in Keys, Hit(e, k) PROVE e = c
  BY <1>1 DEF Hit
<1>2. ASSUME NEW e \in Callers, MintReturns(e) PROVE e = c
  BY <1>2 DEF MintReturns
<1>3. ASSUME NEW e \in Callers, NEW k \in Keys, Miss(e, k) PROVE FALSE
  BY <1>3 DEF Miss
<1>4. ASSUME NEW e \in Callers, GitHubMints(e) \/ MintFails(e) \/ Done(e) PROVE FALSE
  BY <1>4 DEF GitHubMints, MintFails, Done, Over
<1>5. ~(Tick \/ SetClock \/ UNCHANGED vars)
  BY DEF Tick, SetClock, vars, callVars
<1> QED
  BY <1>1, <1>2, <1>3, <1>4, <1>5 DEF Next, installation_token

\* A token is alive when it is handed out.
THEOREM TokensAreAlive == Spec => HandedOutAlive
<1>1. Knows /\ [Next]_vars => [\A c \in Callers : Returns(c) => now < got'[c].exp]_vars
  <2> SUFFICES ASSUME Knows, [Next]_vars, NEW c \in Callers, Returns(c) PROVE now < got'[c].exp
    OBVIOUS
  <2> USE TokenCacheAssumption DEF Knows, TypeOK
  <2>1. ASSUME NEW k \in Keys, Hit(c, k) PROVE now < got'[c].exp
    <3>1. /\ cache[k].cached /\ got'[c] = cache[k].token /\ now < cache[k].refresh_after
      BY <2>1, HitReturns
    <3>2. cache[k].refresh_after \in Int /\ cache[k].token.exp \in Int
      BY <3>1, EntryOf
    <3>3. cache[k].refresh_after <= now \/ cache[k].refresh_after <= cache[k].token.exp
      BY <3>1 DEF CacheKnows
    <3> QED
      BY <3>1, <3>2, <3>3
  <2>2. CASE MintReturns(c)
    <3>1. /\ got'[c] = got[c] /\ got[c] \in Token
          /\ now <= sentAt[c] + Timeout /\ sentAt[c] + Timeout < got[c].exp
      BY <2>2 DEF MintReturns, CallKnows, Token
    <3> QED
      BY <3>1 DEF Token
  <2> QED
    BY <2>1, <2>2, ReturnForms
<1> QED
  BY <1>1, KnowsInductive, PTL DEF Spec, HandedOutAlive

\* A token served from the cache keeps the margin of five minutes, more or
\* less what the host's clock was ahead or behind when the token was stored.
THEOREM HitsHaveMargin == Spec => HitsKeepMargin
<1>1. Knows /\ [Next]_vars =>
        [\A c \in Callers :
           Returns(c) /\ pc[c] = "idle" /\ got'[c].stated =>
             got'[c].exp - now > SKEW + cache[CacheKey(key'[c])].off]_vars
  <2> SUFFICES ASSUME Knows, [Next]_vars, NEW c \in Callers, Returns(c), pc[c] = "idle",
                      got'[c].stated
               PROVE  got'[c].exp - now > SKEW + cache[CacheKey(key'[c])].off
    OBVIOUS
  <2> USE TokenCacheAssumption DEF Knows, TypeOK
  <2>1. PICK k \in Keys : Hit(c, k)
    BY ReturnForms DEF MintReturns
  <2>2. /\ cache[k].cached /\ got'[c] = cache[k].token /\ now < cache[k].refresh_after
        /\ key'[c] = k
    BY <2>1, HitReturns
  <2>3. cache[k].refresh_after \in Int /\ cache[k].token.exp \in Int /\ cache[k].off \in Int
    BY <2>2, EntryOf
  <2>4. cache[k].refresh_after <= cache[k].token.exp - cache[k].off - SKEW
    BY <2>2, <2>3 DEF CacheKnows
  <2>5. cache[k].token.exp - now > SKEW + cache[k].off
    BY <2>2, <2>3, <2>4
  <2> QED
    BY <2>2, <2>5 DEF CacheKey
<1> QED
  BY <1>1, KnowsInductive, PTL DEF Spec, HitsKeepMargin

-----------------------------------------------------------------------------
(* The host's clock.                                                       *)

\* Skews a signed JWT survives, d after it was signed: it must not come from
\* the future, nor reach further ahead than GitHub allows, nor be over.
Tolerated(s, d) ==
  /\ s <= JwtBackdated + d
  /\ s <= JwtLimit - JwtLifetime + d
  /\ s > d - JwtLifetime

\* Both uses of the host's clock: up to a minute ahead and up to nine minutes
\* behind GitHub takes the JWT, but only up to SKEW behind is a token not
\* served beyond its expiry. The margin of refresh_after is used up exactly
\* there, and TokenCacheAssumption asks for no more than that.
THEOREM ClockWindow ==
  ASSUME now \in Int, skew \in Int,
         NEW t, t.stated = TRUE, t.exp \in Int, now < t.exp
  PROVE  /\ GitHubAccepts(make_jwt) <=> Tolerated(skew, 0)
         /\ refresh_after(t) <= t.exp <=> skew + SKEW >= 0
<1> USE TokenCacheAssumption
<1>1. GitHubAccepts(make_jwt) <=> Tolerated(skew, 0)
  <2> DEFINE iat == now + skew - JwtBackdated
             exp == now + skew + JwtLifetime
  <2>1. make_jwt.iat = iat /\ make_jwt.exp = exp
    BY DEF make_jwt
  <2>2. GitHubAccepts(make_jwt) <=> iat <= now /\ now < exp /\ exp <= now + JwtLimit
    BY <2>1 DEF GitHubAccepts
  <2>3. /\ iat <= now <=> skew <= JwtBackdated + 0
        /\ now < exp <=> skew > 0 - JwtLifetime
        /\ exp <= now + JwtLimit <=> skew <= JwtLimit - JwtLifetime + 0
    OBVIOUS
  <2> QED BY <2>2, <2>3 DEF Tolerated
<1>2. SKEW \in Nat
  OBVIOUS
<1>3. CASE t.exp - (now + skew) > SKEW
  <2>1. refresh_after(t) = now + ((t.exp - (now + skew)) - SKEW)
    BY <1>2, <1>3 DEF refresh_after
  <2> QED BY <1>1, <1>2, <2>1
<1>4. CASE ~(t.exp - (now + skew) > SKEW)
  <2>1. refresh_after(t) = now
    BY <1>2, <1>4 DEF refresh_after
  <2> QED BY <1>1, <1>2, <1>4, <2>1
<1> QED BY <1>3, <1>4

\* A call that waits for its token has signed with a clock the host had.
JwtKnows ==
  \A c \in Callers : pc[c] = "minting" =>
    \E s \in Skews : /\ jwt[c].iat = sentAt[c] + s - JwtBackdated
                     /\ jwt[c].exp = sentAt[c] + s + JwtLifetime

\* GitHub mints only for a host whose clock was right enough when it signed,
\* however the clock has been set since.
MintsNeedClock ==
  \A c \in Callers : GitHubMints(c) => \E s \in Skews : Tolerated(s, now - sentAt[c])

LEMMA NextJwt == TypeOK /\ JwtKnows /\ [Next]_vars => JwtKnows'
<1> SUFFICES ASSUME TypeOK, JwtKnows, [Next]_vars, NEW c \in Callers, pc'[c] = "minting"
             PROVE  \E s \in Skews : /\ jwt'[c].iat = sentAt'[c] + s - JwtBackdated
                                     /\ jwt'[c].exp = sentAt'[c] + s + JwtLifetime
  BY DEF JwtKnows
<1> USE DEF TypeOK
<1>1. CASE pc[c] = "minting" /\ jwt'[c] = jwt[c] /\ sentAt'[c] = sentAt[c]
  BY <1>1 DEF JwtKnows
<1>2. CASE \E k \in Keys : Miss(c, k)
  <2>1. sentAt'[c] = now /\ jwt'[c] = make_jwt /\ skew \in Skews
    BY <1>2 DEF Miss
  <2> QED BY <2>1 DEF make_jwt
<1>3. ASSUME NEW e \in Callers, NEW k \in Keys, Hit(e, k) \/ Miss(e, k), e # c
      PROVE  pc[c] = "minting" /\ jwt'[c] = jwt[c] /\ sentAt'[c] = sentAt[c]
  BY <1>3 DEF Hit, Miss
<1>4. ASSUME NEW k \in Keys, Hit(c, k) PROVE FALSE
  BY <1>4 DEF Hit
<1>5. ASSUME NEW e \in Callers, MintReturns(e) \/ MintFails(e) \/ GitHubMints(e) \/ Done(e)
      PROVE  pc[c] = "minting" /\ jwt'[c] = jwt[c] /\ sentAt'[c] = sentAt[c]
  BY <1>5 DEF MintReturns, MintFails, GitHubMints, Done, Over
<1>6. CASE Tick \/ SetClock \/ UNCHANGED vars
  <2>1. pc' = pc /\ jwt' = jwt /\ sentAt' = sentAt
    BY <1>6 DEF Tick, SetClock, vars, callVars
  <2> QED BY <1>1, <2>1
<1> QED BY <1>1, <1>2, <1>3, <1>4, <1>5, <1>6 DEF Next, installation_token

\* A mint tells that the clock was within its window.
THEOREM MintsTellClock == Spec => [][MintsNeedClock]_vars
<1>1. Init => JwtKnows
  BY DEF Init, JwtKnows
<1>2. TypeOK /\ JwtKnows /\ [Next]_vars => [MintsNeedClock]_vars
  <2> SUFFICES ASSUME TypeOK, JwtKnows, NEW c \in Callers, GitHubMints(c)
               PROVE  \E s \in Skews : Tolerated(s, now - sentAt[c])
    BY DEF MintsNeedClock
  <2>1. PICK s \in Skews : /\ jwt[c].iat = sentAt[c] + s - JwtBackdated
                           /\ jwt[c].exp = sentAt[c] + s + JwtLifetime
    BY DEF JwtKnows, GitHubMints
  <2>2. jwt[c].iat <= now /\ now < jwt[c].exp /\ jwt[c].exp <= now + JwtLimit
    BY DEF GitHubMints, GitHubAccepts
  <2>3. /\ now \in Int /\ sentAt[c] \in Int /\ s \in Int
        /\ JwtBackdated \in Int /\ JwtLifetime \in Int /\ JwtLimit \in Int
    BY TokenCacheAssumption DEF TypeOK
  <2>4. Tolerated(s, now - sentAt[c])
    BY <2>1, <2>2, <2>3 DEF Tolerated
  <2> QED BY <2>4
<1> QED BY <1>1, <1>2, NextJwt, TypeCorrect, PTL DEF Spec

-----------------------------------------------------------------------------
(* days_from_civil counts the days of the Gregorian calendar, in every     *)
(* year from 0 on: 1970-01-01 is day 0, and the day after any date has the *)
(* next number. The years of the algorithm start in March, so that a leap  *)
(* day is the last of its year: what is left to show of a year is where    *)
(* the next one starts.                                                    *)

\* Days from the first March of the calendar to that of year r of era q, and
\* of year y.
StartIn(q, r) == q * DAYS_PER_ERA + r * 365 + r \div 4 - r \div 100
YearStart(y) == StartIn(y \div 400, y % 400)

\* Days between the first of March of year r - 1 and of r, r not the first of
\* its era.
DaysTo(r) == IF r % 4 = 0 /\ r % 100 # 0 THEN 366 ELSE 365

-----------------------------------------------------------------------------
(* Quotients by the constants of the calendar. *)

LEMMA Cycle ==
  ASSUME NEW y \in Int
  PROVE  /\ y \div 400 \in Int /\ y % 400 \in 0..399
         /\ y - (y \div 400) * 400 = y % 400
         /\ (y % 400) % 4 = y % 4 /\ (y % 400) % 100 = y % 100
BY SMT

LEMMA YearBefore ==
  ASSUME NEW y \in Int
  PROVE  /\ y % 400 = 0 => (y - 1) \div 400 = y \div 400 - 1 /\ (y - 1) % 400 = 399
         /\ y % 400 > 0 => (y - 1) \div 400 = y \div 400 /\ (y - 1) % 400 = (y % 400) - 1
BY SMT

LEMMA Fourths ==
  ASSUME NEW r \in 1..399 PROVE r \div 4 = (r - 1) \div 4 + IF r % 4 = 0 THEN 1 ELSE 0
BY SMT

LEMMA Hundredths ==
  ASSUME NEW r \in 1..399 PROVE r \div 100 = (r - 1) \div 100 + IF r % 100 = 0 THEN 1 ELSE 0
BY SMT

LEMMA StartIsInt == \A q \in Int, r \in 0..399 : StartIn(q, r) \in Int
BY SMT DEF StartIn, DAYS_PER_ERA

-----------------------------------------------------------------------------
(* The year before r, from March to February, has the leap day of r. *)

LEMMA NextInEra ==
  ASSUME NEW q \in Int, NEW r \in 1..399
  PROVE  StartIn(q, r) = StartIn(q, r - 1) + DaysTo(r)
<1>1. r \div 4 = (r - 1) \div 4 + IF r % 4 = 0 THEN 1 ELSE 0
  BY Fourths
<1>2. r \div 100 = (r - 1) \div 100 + IF r % 100 = 0 THEN 1 ELSE 0
  BY Hundredths
<1>3. r % 100 = 0 => r % 4 = 0
  BY SMT
<1> QED BY <1>1, <1>2, <1>3, SMT DEF StartIn, DaysTo, DAYS_PER_ERA

LEMMA NextEra == ASSUME NEW q \in Int PROVE StartIn(q, 0) = StartIn(q - 1, 399) + 366
BY SMT DEF StartIn, DAYS_PER_ERA

LEMMA NextYear ==
  ASSUME NEW y \in Int
  PROVE  YearStart(y) = YearStart(y - 1) + IF IsLeap(y) THEN 366 ELSE 365
<1>1. y \div 400 \in Int /\ y % 400 \in 0..399
  BY Cycle
<1>2. CASE y % 400 = 0
  <2>1. IsLeap(y)
    BY <1>2, SMT DEF IsLeap
  <2>2. (y - 1) \div 400 = y \div 400 - 1 /\ (y - 1) % 400 = 399
    BY <1>2, YearBefore
  <2> QED BY <1>1, <1>2, <2>1, <2>2, NextEra DEF YearStart
<1>3. CASE y % 400 > 0
  <2>1. DaysTo(y % 400) = IF IsLeap(y) THEN 366 ELSE 365
    BY <1>3, SMT DEF IsLeap, DaysTo
  <2>2. (y - 1) \div 400 = y \div 400 /\ (y - 1) % 400 = (y % 400) - 1
    BY <1>3, YearBefore
  <2>3. y % 400 \in 1..399
    BY <1>1, <1>3, SMT
  <2>4. YearStart(y) = StartIn(y \div 400, y % 400)
    BY DEF YearStart
  <2>5. YearStart(y - 1) = StartIn(y \div 400, (y % 400) - 1)
    BY <2>2 DEF YearStart
  <2>6. StartIn(y \div 400, y % 400) = StartIn(y \div 400, (y % 400) - 1) + DaysTo(y % 400)
    <3> DEFINE q == y \div 400
               r == y % 400
    <3>1. q \in Int /\ r \in 1..399
      BY <1>1, <2>3
    <3> HIDE DEF q, r
    <3>2. StartIn(q, r) = StartIn(q, r - 1) + DaysTo(r)
      BY <3>1, NextInEra
    <3> QED BY <3>2 DEF q, r
  <2> QED BY <2>1, <2>4, <2>5, <2>6
<1> QED BY <1>1, <1>2, <1>3, SMT

\* The division towards zero, with its correction, is the era of the year.
LEMMA EraIs ==
  ASSUME NEW y \in Int, y >= -1
  PROVE  Quotient(IF y >= 0 THEN y ELSE y - 399, 400) = y \div 400
BY SMT DEF Quotient

LEMMA DaysAre ==
  ASSUME NEW year \in Nat, NEW month \in 1..12, NEW day \in Nat
  PROVE  days_from_civil(year, month, day)
           = YearStart(MarchYear(year, month)) + day_of_year(month, day) - DAYS_TO_1970
<1> DEFINE y == MarchYear(year, month)
           yoe == y - (y \div 400) * 400
<1>1. y \in Int /\ y >= -1
  BY SMT DEF MarchYear
<1>2. Quotient(IF y >= 0 THEN y ELSE y - 399, 400) = y \div 400
  BY <1>1, EraIs
<1>3. days_from_civil(year, month, day)
        = (y \div 400) * DAYS_PER_ERA + (yoe * 365 + Quotient(yoe, 4) - Quotient(yoe, 100)
            + day_of_year(month, day)) - DAYS_TO_1970
  BY <1>2 DEF days_from_civil
<1>4. yoe = y % 400 /\ y % 400 \in 0..399 /\ y \div 400 \in Int
  BY <1>1, Cycle
<1>5. Quotient(yoe, 4) = yoe \div 4 /\ Quotient(yoe, 100) = yoe \div 100
  BY <1>4, SMT DEF Quotient
<1>6. day_of_year(month, day) \in Int
  BY SMT DEF day_of_year, Quotient
<1> HIDE DEF y, yoe
<1>7. /\ (y \div 400) * DAYS_PER_ERA \in Int /\ yoe * 365 \in Int /\ DAYS_TO_1970 \in Int
      /\ yoe \div 4 \in Int /\ yoe \div 100 \in Int
  BY <1>4, SMT DEF DAYS_PER_ERA, DAYS_TO_1970
<1>8. YearStart(y) = (y \div 400) * DAYS_PER_ERA + yoe * 365 + yoe \div 4 - yoe \div 100
  BY <1>4 DEF YearStart, StartIn
<1>9. days_from_civil(year, month, day) = YearStart(y) + day_of_year(month, day) - DAYS_TO_1970
  BY <1>3, <1>5, <1>6, <1>7, <1>8, SMT
<1> QED BY <1>9 DEF y

-----------------------------------------------------------------------------
\* Unix time starts on 1970-01-01.
LEMMA Epoch == days_from_civil(1970, 1, 1) = 0
BY SMT DEF days_from_civil, MarchYear, day_of_year, Quotient,
           DAYS_PER_ERA, DAYS_TO_1970

\* The day after a date has the next number: through the months, the turn of
\* the year, leap days, and the centuries that have none.
THEOREM NextDay ==
  \A year, month, day :
    IsDate(year, month, day) =>
      LET t == Tomorrow(year, month, day)
      IN  /\ IsDate(t[1], t[2], t[3])
          /\ days_from_civil(t[1], t[2], t[3]) = days_from_civil(year, month, day) + 1
<1> SUFFICES ASSUME NEW year, NEW month, NEW day, IsDate(year, month, day)
             PROVE  LET t == Tomorrow(year, month, day)
                    IN  /\ IsDate(t[1], t[2], t[3])
                        /\ days_from_civil(t[1], t[2], t[3])
                             = days_from_civil(year, month, day) + 1
  OBVIOUS
<1>1. year \in Nat /\ month \in 1..12 /\ day \in 1..LastDay(year, month) /\ day \in Nat
  BY SMT DEF IsDate, LastDay
<1>2. days_from_civil(year, month, day)
        = YearStart(MarchYear(year, month)) + day_of_year(month, day) - DAYS_TO_1970
  BY <1>1, DaysAre, SMT
<1>3. DAYS_TO_1970 \in Int /\ \A y \in Int : YearStart(y) \in Int
  <2>1. DAYS_TO_1970 \in Int
    BY SMT DEF DAYS_TO_1970
  <2>2. ASSUME NEW y \in Int PROVE YearStart(y) \in Int
    <3> DEFINE q == y \div 400
               r == y % 400
    <3>1. q \in Int /\ r \in 0..399 /\ YearStart(y) = StartIn(q, r)
      BY Cycle DEF YearStart
    <3> HIDE DEF q, r
    <3> QED BY <3>1, StartIsInt
  <2> QED BY <2>1, <2>2
<1>4. day_of_year(month, day) \in Int /\ MarchYear(year, month) \in Int
  BY <1>1, SMT DEF day_of_year, Quotient, MarchYear
<1>5. CASE day < LastDay(year, month)
  <2>1. Tomorrow(year, month, day) = <<year, month, day + 1>>
    BY <1>5, SMT DEF Tomorrow
  <2>2. IsDate(year, month, day + 1)
    BY <1>1, <1>5, SMT DEF IsDate, LastDay
  <2>3. day_of_year(month, day + 1) = day_of_year(month, day) + 1
    BY <1>1, SMT DEF day_of_year, Quotient
  <2>4. days_from_civil(year, month, day + 1)
          = YearStart(MarchYear(year, month)) + day_of_year(month, day + 1) - DAYS_TO_1970
    BY <1>1, DaysAre, SMT
  <2> QED BY <1>2, <1>3, <1>4, <2>1, <2>2, <2>3, <2>4, SMT
<1>6. CASE ~(day < LastDay(year, month)) /\ month < 12
  <2>1. Tomorrow(year, month, day) = <<year, month + 1, 1>> /\ day = LastDay(year, month)
    BY <1>1, <1>6, SMT DEF Tomorrow, LastDay
  <2>2. IsDate(year, month + 1, 1) /\ month + 1 \in 1..12
    BY <1>1, <1>6, SMT DEF IsDate, LastDay
  <2>3. days_from_civil(year, month + 1, 1)
          = YearStart(MarchYear(year, month + 1)) + day_of_year(month + 1, 1) - DAYS_TO_1970
    BY <1>1, <2>2, DaysAre, SMT
  <2>4. CASE month = 2
    <3>1. MarchYear(year, month) = year - 1 /\ MarchYear(year, month + 1) = year
      BY <2>4, SMT DEF MarchYear
    <3>2. YearStart(year) = YearStart(year - 1) + IF IsLeap(year) THEN 366 ELSE 365
      BY <1>1, NextYear, SMT
    <3>3. day_of_year(month + 1, 1) = 0
      BY <2>4, SMT DEF day_of_year, Quotient
    <3>4. day_of_year(month, day) = (IF IsLeap(year) THEN 366 ELSE 365) - 1
      BY <2>1, <2>4, SMT DEF day_of_year, Quotient, LastDay
    <3>5. YearStart(year) \in Int /\ YearStart(year - 1) \in Int
      BY <1>1, <1>3, SMT
    <3>6. days_from_civil(year, month + 1, 1) = days_from_civil(year, month, day) + 1
      BY <1>2, <1>3, <2>3, <3>1, <3>2, <3>3, <3>4, <3>5, SMT
    <3> QED BY <2>1, <2>2, <3>6
  <2>5. CASE month # 2
    <3>1. MarchYear(year, month + 1) = MarchYear(year, month)
      BY <1>1, <2>5, SMT DEF MarchYear
    <3>2. day_of_year(month + 1, 1) = day_of_year(month, day) + 1
      BY <1>1, <1>6, <2>1, <2>5, SMT DEF day_of_year, Quotient, LastDay
    <3> QED BY <1>2, <1>3, <1>4, <2>1, <2>2, <2>3, <3>1, <3>2, SMT
  <2> QED BY <2>4, <2>5, SMT
<1>7. CASE ~(day < LastDay(year, month)) /\ ~(month < 12)
  <2>1. Tomorrow(year, month, day) = <<year + 1, 1, 1>> /\ month = 12 /\ day = 31
    BY <1>1, <1>7, SMT DEF Tomorrow, LastDay
  <2>2. IsDate(year + 1, 1, 1)
    BY <1>1, SMT DEF IsDate, LastDay
  <2>3. days_from_civil(year + 1, 1, 1)
          = YearStart(MarchYear(year + 1, 1)) + day_of_year(1, 1) - DAYS_TO_1970
    BY <1>1, DaysAre, SMT
  <2>4. MarchYear(year + 1, 1) = year /\ MarchYear(year, 12) = year
    BY <1>1, SMT DEF MarchYear
  <2>5. day_of_year(1, 1) = 306 /\ day_of_year(12, 31) = 305
    BY SMT DEF day_of_year, Quotient
  <2>6. YearStart(year) \in Int
    BY <1>1, <1>3, SMT
  <2>7. days_from_civil(year + 1, 1, 1) = days_from_civil(year, month, day) + 1
    BY <1>2, <1>3, <2>1, <2>3, <2>4, <2>5, <2>6, SMT
  <2> QED BY <2>1, <2>2, <2>7
<1> QED BY <1>5, <1>6, <1>7, SMT

-----------------------------------------------------------------------------
(* Every date from 1970 on is reached from the first, a day at a time.     *)

\* The number the code gives a date.
NumberOf(d) == days_from_civil(d[1], d[2], d[3])

\* Grows with the date: as if every month had 31 days.
Rank(d) == (d[1] - 1970) * 372 + (d[2] - 1) * 31 + d[3] - 1

\* The day before.
Yesterday(d) ==
  IF d[3] > 1 THEN <<d[1], d[2], d[3] - 1>>
  ELSE IF d[2] > 1 THEN <<d[1], d[2] - 1, LastDay(d[1], d[2] - 1)>>
  ELSE <<d[1] - 1, 12, 31>>

\* A month has 28 to 31 days.
LEMMA LastDays ==
  \A year \in Nat, month \in Nat : LastDay(year, month) \in 28..31 /\ LastDay(year, 12) = 31
BY SMT DEF LastDay

\* A date is its year, month and day.
LEMMA DateIs ==
  ASSUME NEW d \in Dates
  PROVE  /\ d = <<d[1], d[2], d[3]>>
         /\ d[1] \in Nat /\ d[1] >= 1970 /\ d[2] \in 1..12 /\ d[3] \in 1..LastDay(d[1], d[2])
         /\ d[2] \in Nat /\ d[3] \in Nat /\ LastDay(d[1], d[2]) \in 28..31 /\ Rank(d) \in Nat
<1>1. d = <<d[1], d[2], d[3]>> /\ d[1] \in Nat /\ d[2] \in Nat /\ d[3] \in Nat
  BY DEF Dates
<1>2. d[1] >= 1970 /\ d[2] \in 1..12 /\ d[3] \in 1..LastDay(d[1], d[2])
  BY DEF Dates, IsDate
<1>3. LastDay(d[1], d[2]) \in 28..31
  BY <1>1, LastDays
<1>4. (d[1] - 1970) * 372 \in Nat /\ (d[2] - 1) * 31 \in Nat /\ d[3] - 1 \in Nat
  BY <1>1, <1>2, <1>3
<1>5. Rank(d) \in Nat
  BY <1>1, <1>4 DEF Rank
<1> QED BY <1>1, <1>2, <1>3, <1>5

\* Every date but the first has a day before it, which is a date as well.
LEMMA YesterdayIs ==
  ASSUME NEW d \in Dates, d # <<1970, 1, 1>>
  PROVE  /\ Yesterday(d) \in Dates /\ Rank(Yesterday(d)) < Rank(d)
         /\ \A e \in Dates : Earlier(e, d) <=> Earlier(e, Yesterday(d)) \/ e = Yesterday(d)
         /\ LET y == Yesterday(d) IN Tomorrow(y[1], y[2], y[3]) = d
<1> DEFINE y == Yesterday(d)
<1>1. /\ d = <<d[1], d[2], d[3]>>
      /\ d[1] \in Nat /\ d[1] >= 1970 /\ d[2] \in 1..12 /\ d[3] \in 1..LastDay(d[1], d[2])
      /\ d[2] \in Nat /\ d[3] \in Nat /\ LastDay(d[1], d[2]) \in 28..31
  BY DateIs
<1>2. \A e \in Dates : /\ e = <<e[1], e[2], e[3]>> /\ e[1] \in Nat /\ e[2] \in 1..12 /\ e[3] \in Nat
                       /\ e[3] \in 1..LastDay(e[1], e[2]) /\ e[3] <= 31
  <2> SUFFICES ASSUME NEW e \in Dates
               PROVE  /\ e = <<e[1], e[2], e[3]>> /\ e[1] \in Nat /\ e[2] \in 1..12 /\ e[3] \in Nat
                      /\ e[3] \in 1..LastDay(e[1], e[2]) /\ e[3] <= 31
    OBVIOUS
  <2>1. /\ e = <<e[1], e[2], e[3]>> /\ e[1] \in Nat /\ e[2] \in 1..12 /\ e[3] \in Nat
        /\ e[3] \in 1..LastDay(e[1], e[2]) /\ LastDay(e[1], e[2]) \in 28..31
    BY DateIs
  <2> QED BY <2>1
<1>3. CASE d[3] > 1
  <2>1. y = <<d[1], d[2], d[3] - 1>>
    BY <1>3 DEF Yesterday
  <2>2. IsDate(d[1], d[2], d[3] - 1) /\ d[3] - 1 \in Nat
    BY <1>1, <1>3 DEF IsDate
  <2>3. y \in Dates
    BY <1>1, <2>1, <2>2 DEF Dates
  <2>4. Tomorrow(d[1], d[2], d[3] - 1) = d
    BY <1>1, <1>3 DEF Tomorrow
  <2>5. Rank(y) < Rank(d)
    BY <1>1, <2>1 DEF Rank
  <2>6. \A e \in Dates : Earlier(e, d) <=> Earlier(e, y) \/ e = y
    BY <1>1, <1>2, <1>3, <2>1 DEF Earlier
  <2> QED BY <2>1, <2>3, <2>4, <2>5, <2>6
<1>4. CASE ~(d[3] > 1) /\ d[2] > 1
  <2> DEFINE l == LastDay(d[1], d[2] - 1)
  <2>1. y = <<d[1], d[2] - 1, l>> /\ d[3] = 1
    BY <1>1, <1>4 DEF Yesterday
  <2>2. l \in 28..31 /\ d[2] - 1 \in 1..12 /\ d[2] - 1 \in Nat
    BY <1>1, <1>4, LastDays
  <2>3. IsDate(d[1], d[2] - 1, l) /\ l \in Nat
    BY <1>1, <2>2 DEF IsDate
  <2>4. y \in Dates
    BY <1>1, <2>1, <2>2, <2>3 DEF Dates
  <2>5. Tomorrow(d[1], d[2] - 1, l) = d
    BY <1>1, <1>4, <2>1, <2>2 DEF Tomorrow
  <2> HIDE DEF l
  <2>6. Rank(y) < Rank(d)
    BY <1>1, <2>1, <2>2 DEF Rank
  <2>7. \A e \in Dates : e[1] = d[1] /\ e[2] = d[2] - 1 => e[3] <= l
    BY <1>2 DEF l
  <2>8. \A e \in Dates : Earlier(e, d) <=> Earlier(e, y) \/ e = y
    BY <1>1, <1>2, <1>4, <2>1, <2>2, <2>7 DEF Earlier
  <2> QED BY <2>1, <2>4, <2>5, <2>6, <2>8
<1>5. CASE ~(d[3] > 1) /\ ~(d[2] > 1)
  <2>1. y = <<d[1] - 1, 12, 31>> /\ d[3] = 1 /\ d[2] = 1
    BY <1>1, <1>5 DEF Yesterday
  <2>2. d[1] - 1 \in Nat /\ d[1] - 1 >= 1970 /\ LastDay(d[1] - 1, 12) = 31
    <3>1. d[1] # 1970
      BY <1>1, <2>1
    <3> QED BY <1>1, <3>1, LastDays
  <2>3. y \in Dates
    BY <2>1, <2>2 DEF Dates, IsDate
  <2>4. Tomorrow(d[1] - 1, 12, 31) = d
    BY <1>1, <2>1, <2>2 DEF Tomorrow
  <2>5. Rank(y) < Rank(d)
    BY <1>1, <2>1 DEF Rank
  <2>6. \A e \in Dates : Earlier(e, d) <=> Earlier(e, y) \/ e = y
    BY <1>1, <1>2, <2>1 DEF Earlier
  <2> QED BY <2>1, <2>3, <2>4, <2>5, <2>6
<1> QED BY <1>3, <1>4, <1>5

\* The dates whose number is right.
Counted ==
  {d \in Dates : IsFiniteSet(DaysBefore(d)) /\ Cardinality(DaysBefore(d)) = NumberOf(d)}

\* There is no date before the first.
LEMMA FirstIsCounted == <<1970, 1, 1>> \in Counted
<1> DEFINE d == <<1970, 1, 1>>
<1>1. d \in Dates
  BY DEF Dates, IsDate, LastDay
<1>2. DaysBefore(d) = {}
  <2> SUFFICES ASSUME NEW e \in Dates, Earlier(e, d) PROVE FALSE
    BY DEF DaysBefore
  <2>1. e[1] \in Nat /\ e[1] >= 1970 /\ e[2] \in 1..12 /\ e[3] \in 1..LastDay(e[1], e[2])
        /\ LastDay(e[1], e[2]) \in 28..31
    BY DateIs
  <2> QED BY <2>1 DEF Earlier
<1> QED BY <1>1, <1>2, Epoch, FS_EmptySet DEF Counted, NumberOf

\* There is one more before a date than before its yesterday.
LEMMA NextIsCounted ==
  ASSUME NEW d \in Dates, d # <<1970, 1, 1>>, Yesterday(d) \in Counted
  PROVE  d \in Counted
<1> DEFINE y == Yesterday(d)
<1>1. /\ y \in Dates /\ Tomorrow(y[1], y[2], y[3]) = d
      /\ \A e \in Dates : Earlier(e, d) <=> Earlier(e, y) \/ e = y
  BY YesterdayIs
<1>2. y \in Counted
  OBVIOUS
<1> HIDE DEF y
<1>3. IsFiniteSet(DaysBefore(y)) /\ Cardinality(DaysBefore(y)) = NumberOf(y)
  BY <1>2 DEF Counted
<1>4. y \notin DaysBefore(y)
  <2>1. y[1] \in Nat /\ y[2] \in Nat /\ y[3] \in Nat
    BY <1>1, DateIs
  <2> QED BY <2>1 DEF DaysBefore, Earlier
<1>5. DaysBefore(d) = DaysBefore(y) \cup {y}
  BY <1>1 DEF DaysBefore
<1>6. IsFiniteSet(DaysBefore(d)) /\ Cardinality(DaysBefore(d)) = NumberOf(y) + 1
  BY <1>3, <1>4, <1>5, FS_AddElement
<1>7. NumberOf(d) = NumberOf(y) + 1
  <2>1. IsDate(y[1], y[2], y[3])
    BY <1>1 DEF Dates
  <2> QED BY <1>1, <2>1, NextDay DEF NumberOf
<1> QED BY <1>6, <1>7 DEF Counted

\* The number of a date is how many days there are before it, from 1970 on.
THEOREM DaysAreCounted ==
  \A d \in Dates : IsFiniteSet(DaysBefore(d)) /\ NumberOf(d) = Cardinality(DaysBefore(d))
<1> DEFINE S == {n \in Nat : \A d \in Dates : Rank(d) < n => d \in Counted}
<1>1. 0 \in S
  <2>1. ASSUME NEW d \in Dates, Rank(d) < 0 PROVE FALSE
    <3>1. Rank(d) \in Nat
      BY DateIs
    <3> QED BY <2>1, <3>1
  <2> QED BY <2>1
<1>2. ASSUME NEW n \in S \cap Nat PROVE n + 1 \in S
  <2> SUFFICES ASSUME NEW d \in Dates, Rank(d) < n + 1 PROVE d \in Counted
    OBVIOUS
  <2>1. CASE d = <<1970, 1, 1>>
    BY <2>1, FirstIsCounted
  <2>2. CASE d # <<1970, 1, 1>>
    <3>1. Yesterday(d) \in Dates /\ Rank(Yesterday(d)) < Rank(d)
      BY <2>2, YesterdayIs
    <3>2. Rank(d) \in Nat /\ Rank(Yesterday(d)) \in Nat
      BY <3>1, DateIs
    <3>3. Yesterday(d) \in Counted
      BY <3>1, <3>2
    <3> QED BY <2>2, <3>3, NextIsCounted
  <2> QED BY <2>1, <2>2
<1> HIDE DEF S
<1>3. Nat \subseteq S
  BY <1>1, <1>2, SetInduction
<1> SUFFICES ASSUME NEW d \in Dates PROVE d \in Counted
  BY DEF Counted
<1>4. Rank(d) \in Nat
  BY DateIs
<1>5. Rank(d) + 1 \in S
  BY <1>3, <1>4
<1> QED BY <1>4, <1>5 DEF S

\* A stamp with such a date is read as the seconds of these days and of the
\* time of day.
THEOREM StampsAreRead ==
  \A t \in [year : Nat, month : Nat, day : Nat, hour : Nat, min : Nat, sec : Nat] :
    <<t.year, t.month, t.day>> \in Dates =>
      parse_rfc3339_secs(t) = Cardinality(DaysBefore(<<t.year, t.month, t.day>>)) * 86400
                                + t.hour * 3600 + t.min * 60 + t.sec
<1> SUFFICES
      ASSUME NEW t \in [year : Nat, month : Nat, day : Nat, hour : Nat, min : Nat, sec : Nat],
             <<t.year, t.month, t.day>> \in Dates
      PROVE  parse_rfc3339_secs(t) = Cardinality(DaysBefore(<<t.year, t.month, t.day>>)) * 86400
                                       + t.hour * 3600 + t.min * 60 + t.sec
  OBVIOUS
<1> DEFINE d == <<t.year, t.month, t.day>>
           n == days_from_civil(t.year, t.month, t.day)
<1>1. n = Cardinality(DaysBefore(d)) /\ n \in Nat
  <2>1. IsFiniteSet(DaysBefore(d)) /\ NumberOf(d) = Cardinality(DaysBefore(d))
    BY DaysAreCounted
  <2> QED BY <2>1, FS_CardinalityType DEF NumberOf
<1>2. t.month \in 1..12 /\ t.day \in 1..31
  <2>1. /\ d[2] \in 1..12 /\ d[3] \in 1..LastDay(d[1], d[2])
        /\ LastDay(d[1], d[2]) \in 28..31 /\ d[3] \in Nat
    BY DateIs
  <2> QED BY <2>1
<1>3. parse_rfc3339_secs(t) =
        LET secs == n * 86400 + t.hour * 3600 + t.min * 60 + t.sec
        IN  IF secs < 0 THEN Refused ELSE secs
  BY <1>2 DEF parse_rfc3339_secs
<1> HIDE DEF n, d
<1>4. n * 86400 + t.hour * 3600 + t.min * 60 + t.sec \in Nat
  <2>1. t.hour \in Nat /\ t.min \in Nat /\ t.sec \in Nat
    OBVIOUS
  <2> QED BY <1>1, <2>1
<1>5. parse_rfc3339_secs(t) = n * 86400 + t.hour * 3600 + t.min * 60 + t.sec
  BY <1>3, <1>4
<1> QED BY <1>1, <1>5 DEF d

=============================================================================
