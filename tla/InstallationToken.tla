-------------------------- MODULE InstallationToken --------------------------
(***************************************************************************)
(* GitHubAppAuth as GitHubClient uses it: every request to GitHub carries  *)
(* an installation token, taken from a cache or exchanged for an app JWT.  *)
(* Container builds one GitHubAppAuth per installation, so the cache has   *)
(* one entry; the calls of concurrent reviews of the installation share    *)
(* it.  The cache is read before an await and written after it.            *)
(*                                                                         *)
(* Time is counted in seconds, and GitHub's clock is not the service's.    *)
(* What is under way between the two takes at most Latency: httpx gives    *)
(* up after its timeouts.                                                  *)
(***************************************************************************)
EXTENDS Integers

CONSTANTS
    Calls,         \* the API calls that may be under way at once
    Margin,        \* _REFRESH_MARGIN_SECONDS
    JwtLifetime,   \* _JWT_LIFETIME_SECONDS
    MaxJwtAhead,   \* GitHub's limit on a JWT's exp, ten minutes from now
    TokenLifetime, \* of the tokens GitHub issues
    Latency,       \* of a request, and of an answer
    MaxDrift,      \* between the two clocks
    MaxTime        \* bound on the service's clock

ASSUME LatencyAssumption ==
    Margin \in Nat /\ JwtLifetime \in Nat /\ MaxJwtAhead \in Nat /\ TokenLifetime \in Nat
    /\ Latency \in Nat /\ MaxDrift \in Nat /\ MaxTime \in Nat

(* What the two constants of the code are chosen for: they absorb the      *)
(* drift and the latency.                                                  *)
ASSUME MarginAssumption ==
    /\ Latency + MaxDrift <= Margin
    /\ JwtLifetime + MaxDrift <= MaxJwtAhead
    /\ Latency + MaxDrift + 1 < JwtLifetime
    /\ 2 * Latency < TokenLifetime

VARIABLES
    now,    \* the service's clock
    drift,  \* how far GitHub's clock is ahead of it
    cache,  \* when the cached token expires, if one is cached
    at,     \* where each call is: "idle", "asking" for a token, "minted"
            \* when GitHub has answered that, "sent" with a token
    since,  \* when it got there
    issued, \* when the JWT of a call that asks was issued
    token,  \* when the token of a call expires, by GitHub's clock
    latest  \* history: the latest expiry answered since the process started

vars == <<now, drift, cache, at, since, issued, token, latest>>

GitHubNow == now + drift

Init ==
    /\ now = 0
    /\ drift \in -MaxDrift..MaxDrift
    /\ cache = {}
    /\ at = [c \in Calls |-> "idle"]
    /\ since = [c \in Calls |-> 0]
    /\ issued = [c \in Calls |-> 0]
    /\ token = [c \in Calls |-> 0]
    /\ latest = -MaxDrift

Goto(c, place) ==
    /\ at' = [at EXCEPT ![c] = place]
    /\ since' = [since EXCEPT ![c] = now]
    /\ UNCHANGED <<now, drift>>

Leave(c) ==
    /\ at' = [at EXCEPT ![c] = "idle"]
    /\ since' = [since EXCEPT ![c] = 0]
    /\ issued' = [issued EXCEPT ![c] = 0]
    /\ token' = [token EXCEPT ![c] = 0]
    /\ UNCHANGED <<now, drift>>

-----------------------------------------------------------------------------
(* installation_token, up to its await or its early return.                *)

(* Seeded fault: a token is used until it expires.                         *)
UsableToTheEnd == {e \in cache : e > now}

Usable == {e \in cache : e > now + Margin}

UseCached(c) ==
    /\ at[c] = "idle"
    /\ \E e \in Usable : token' = [token EXCEPT ![c] = e]
    /\ Goto(c, "sent")
    /\ UNCHANGED <<cache, issued, latest>>

(* app_jwt cuts the fraction of a second.                                  *)
AskForToken(c) ==
    /\ at[c] = "idle"
    /\ Usable = {}
    /\ \E second \in {now - 1, now} : issued' = [issued EXCEPT ![c] = second]
    /\ Goto(c, "asking")
    /\ UNCHANGED <<cache, token, latest>>

(* Seeded fault: iat is not back-dated.                                    *)
ClaimsFromNow(second) == [iat |-> second, exp |-> second + JwtLifetime]

Claims(second) == [iat |-> second - Margin, exp |-> second + JwtLifetime]

(* GitHub refuses a JWT from its future, one that has expired, and one     *)
(* that expires too far ahead.                                             *)
JwtAccepted(claims) ==
    /\ claims.iat <= GitHubNow
    /\ GitHubNow < claims.exp
    /\ claims.exp <= GitHubNow + MaxJwtAhead

Mint(c) ==
    /\ at[c] = "asking"
    /\ JwtAccepted(Claims(issued[c]))
    /\ token' = [token EXCEPT ![c] = GitHubNow + TokenLifetime]
    /\ Goto(c, "minted")
    /\ UNCHANGED <<cache, issued, latest>>

Later(e, f) == IF e < f THEN f ELSE e

(* Seeded fault: the first token is never replaced.                        *)
CacheFirstOnly(c) ==
    /\ at[c] = "minted"
    /\ cache' = IF cache = {} THEN {token[c]} ELSE cache
    /\ latest' = Later(latest, token[c])
    /\ Goto(c, "sent")
    /\ UNCHANGED <<issued, token>>

(* Seeded fault: a token is kept beside the one it replaces.               *)
CacheBeside(c) ==
    /\ at[c] = "minted"
    /\ cache' = cache \union {token[c]}
    /\ latest' = Later(latest, token[c])
    /\ Goto(c, "sent")
    /\ UNCHANGED <<issued, token>>

(* The rest of installation_token, and the request that waited for it.     *)
CacheToken(c) ==
    /\ at[c] = "minted"
    /\ cache' = {token[c]}
    /\ latest' = Later(latest, token[c])
    /\ Goto(c, "sent")
    /\ UNCHANGED <<issued, token>>

(* GitHub handles the request.                                             *)
Serve(c) ==
    /\ at[c] = "sent"
    /\ Leave(c)
    /\ UNCHANGED <<cache, latest>>

(* An error status, a timeout, or the cancellation of the review: what     *)
(* was minted is forgotten.                                                *)
Raises(c) ==
    /\ at[c] # "idle"
    /\ Leave(c)
    /\ UNCHANGED <<cache, latest>>

Restart ==
    /\ cache' = {}
    /\ at' = [c \in Calls |-> "idle"]
    /\ since' = [c \in Calls |-> 0]
    /\ issued' = [c \in Calls |-> 0]
    /\ token' = [c \in Calls |-> 0]
    /\ latest' = -MaxDrift
    /\ UNCHANGED <<now, drift>>

Tick ==
    /\ now < MaxTime
    /\ \A c \in Calls : at[c] # "idle" => now < since[c] + Latency
    /\ now' = now + 1
    /\ UNCHANGED <<drift, cache, at, since, issued, token, latest>>

Call(c) ==
    UseCached(c) \/ AskForToken(c) \/ Mint(c) \/ CacheToken(c) \/ Serve(c) \/ Raises(c)

Next == (\E c \in Calls : Call(c)) \/ Restart \/ Tick

Spec == Init /\ [][Next]_vars

-----------------------------------------------------------------------------
(* The types of the variables.                                             *)
TypeOK ==
    /\ now \in 0..MaxTime
    /\ drift \in -MaxDrift..MaxDrift
    /\ cache \subseteq Int /\ \A e, f \in cache : e = f
    /\ at \in [Calls -> {"idle", "asking", "minted", "sent"}]
    /\ since \in [Calls -> 0..MaxTime]
    /\ issued \in [Calls -> Int] /\ token \in [Calls -> Int]
    /\ latest \in Int

(* A request is never refused for its token: whatever the drift and the    *)
(* delays, and whichever call fetched the token and when, it has not       *)
(* expired by GitHub's clock as long as the request is under way           *)
(* (client.py: "a fresh-enough installation token").                       *)
TokensAreFresh == \A c \in Calls : at[c] = "sent" => GitHubNow < token[c]

(* A request for a token is never refused for its JWT (auth.py: iat is     *)
(* back-dated to absorb the drift, exp within GitHub's limit).             *)
JwtsAreAccepted == \A c \in Calls : at[c] = "asking" => JwtAccepted(Claims(issued[c]))

(* Concurrent refreshes write the cache in any order, so an older token    *)
(* may replace a newer one, but by a request's latency at most: after an   *)
(* answer no call asks again until that long before it has to.             *)
NoEarlyRefresh ==
    [][\A c \in Calls : at[c] = "idle" /\ at'[c] = "asking" =>
            latest <= now + Margin + Latency]_vars
=============================================================================
