---------------------- MODULE InstallationTokenProofs ----------------------
(***************************************************************************)
(* Theorems about InstallationToken, for any number of concurrent calls    *)
(* and all lifetimes that satisfy MarginAssumption.                        *)
(***************************************************************************)
EXTENDS InstallationToken, TLAPS

(* Every leg of a call is over within Latency.                             *)
Punctual == \A c \in Calls : at[c] # "idle" => since[c] <= now /\ now <= since[c] + Latency

(* What a call has obtained by the time it got where it is.                *)
Obtained ==
    \A c \in Calls :
        /\ at[c] = "asking" => issued[c] = since[c] \/ issued[c] = since[c] - 1
        /\ at[c] = "minted" => token[c] = since[c] + drift + TokenLifetime
        /\ at[c] = "sent" => since[c] + drift + Latency < token[c]

(* The cached token is at most a latency older than the latest.            *)
NearlyLatest ==
    /\ latest <= now + drift + TokenLifetime
    /\ cache = {} => latest = -MaxDrift
    /\ \A e \in cache : latest <= e + Latency

IInv == TypeOK /\ Punctual /\ Obtained /\ NearlyLatest

LEMMA InitIInv == Init => IInv
BY LatencyAssumption, MarginAssumption
   DEF Init, IInv, TypeOK, Punctual, Obtained, NearlyLatest

(* Types.                                                                  *)
LEMMA NextTypeOK == TypeOK /\ [Next]_vars => TypeOK'
<1> SUFFICES ASSUME TypeOK, [Next]_vars PROVE TypeOK'
  OBVIOUS
<1> USE LatencyAssumption DEF TypeOK
<1>1. ASSUME NEW c \in Calls, UseCached(c) PROVE TypeOK'
  BY <1>1 DEF UseCached, Goto, Usable
<1>2. ASSUME NEW c \in Calls, AskForToken(c) PROVE TypeOK'
  BY <1>2 DEF AskForToken, Goto
<1>3. ASSUME NEW c \in Calls, Mint(c) PROVE TypeOK'
  BY <1>3 DEF Mint, Goto, GitHubNow
<1>4. ASSUME NEW c \in Calls, CacheToken(c) PROVE TypeOK'
  BY <1>4 DEF CacheToken, Goto, Later
<1>5. ASSUME NEW c \in Calls, Serve(c) \/ Raises(c) PROVE TypeOK'
  <2>1. Leave(c) /\ UNCHANGED <<cache, latest>>
    BY <1>5 DEF Serve, Raises
  <2>2. 0 \in 0..MaxTime
    OBVIOUS
  <2> QED
    BY <2>1, <2>2 DEF Leave
<1>6. CASE Restart
  BY <1>6 DEF Restart
<1>7. CASE Tick
  BY <1>7 DEF Tick
<1>8. CASE UNCHANGED vars
  BY <1>8 DEF vars
<1> QED
  BY <1>1, <1>2, <1>3, <1>4, <1>5, <1>6, <1>7, <1>8 DEF Next, Call

(* Each step keeps a leg within its latency: a new one begins now, and     *)
(* time waits for those under way.                                         *)
LEMMA NextPunctual == IInv /\ [Next]_vars => Punctual'
<1> SUFFICES ASSUME IInv, [Next]_vars, NEW d \in Calls, at'[d] # "idle"
             PROVE since'[d] <= now' /\ now' <= since'[d] + Latency
  BY DEF Punctual
<1> USE LatencyAssumption DEF IInv, TypeOK, Punctual
<1>1. ASSUME NEW c \in Calls, NEW place \in {"asking", "minted", "sent"}, Goto(c, place)
      PROVE since'[d] <= now' /\ now' <= since'[d] + Latency
  BY <1>1 DEF Goto
<1>2. ASSUME NEW c \in Calls, Leave(c)
      PROVE since'[d] <= now' /\ now' <= since'[d] + Latency
  BY <1>2 DEF Leave
<1>3. CASE Restart
  BY <1>3 DEF Restart
<1>4. CASE Tick
  BY <1>4 DEF Tick
<1>5. CASE UNCHANGED vars
  BY <1>5 DEF vars
<1> QED
  BY <1>1, <1>2, <1>3, <1>4, <1>5
     DEF Next, Call, UseCached, AskForToken, Mint, CacheToken, Serve, Raises

(* A token handed out from the cache has the margin left; one that was     *)
(* just fetched has nearly all of its lifetime left.                       *)
LEMMA NextObtained == IInv /\ [Next]_vars => Obtained'
<1> SUFFICES ASSUME IInv, [Next]_vars, NEW d \in Calls
             PROVE /\ at'[d] = "asking" => issued'[d] = since'[d] \/ issued'[d] = since'[d] - 1
                   /\ at'[d] = "minted" => token'[d] = since'[d] + drift' + TokenLifetime
                   /\ at'[d] = "sent" => since'[d] + drift' + Latency < token'[d]
  BY DEF Obtained
<1> USE LatencyAssumption, MarginAssumption DEF IInv, TypeOK, Obtained
<1>1. ASSUME NEW c \in Calls, UseCached(c) PROVE Obtained'
  <2>1. PICK e \in cache : e > now + Margin /\ token' = [token EXCEPT ![c] = e]
    BY <1>1 DEF UseCached, Usable
  <2>2. now + drift + Latency < e
    BY <2>1
  <2> QED
    BY <1>1, <2>1, <2>2 DEF UseCached, Goto
<1>2. ASSUME NEW c \in Calls, AskForToken(c) PROVE Obtained'
  BY <1>2 DEF AskForToken, Goto
<1>3. ASSUME NEW c \in Calls, Mint(c) PROVE Obtained'
  BY <1>3 DEF Mint, Goto, GitHubNow
<1>4. ASSUME NEW c \in Calls, CacheToken(c) PROVE Obtained'
  <2>1. now + drift + Latency < token[c]
    BY <1>4 DEF CacheToken, Punctual
  <2> QED
    BY <1>4, <2>1 DEF CacheToken, Goto
<1>5. ASSUME NEW c \in Calls, Serve(c) \/ Raises(c) PROVE Obtained'
  BY <1>5 DEF Serve, Raises, Leave
<1>6. CASE Restart
  BY <1>6 DEF Restart
<1>7. CASE Tick
  BY <1>7 DEF Tick
<1>8. CASE UNCHANGED vars
  BY <1>8 DEF vars
<1> QED
  BY <1>1, <1>2, <1>3, <1>4, <1>5, <1>6, <1>7, <1>8 DEF Next, Call

(* Only CacheToken and Restart change what is cached.                      *)
LEMMA NextNearlyLatest == IInv /\ [Next]_vars => NearlyLatest'
<1> SUFFICES ASSUME IInv, [Next]_vars PROVE NearlyLatest'
  OBVIOUS
<1> USE LatencyAssumption, MarginAssumption DEF IInv, TypeOK, NearlyLatest
<1>1. ASSUME NEW c \in Calls, CacheToken(c) PROVE NearlyLatest'
  <2>1. /\ token[c] \in Int
        /\ token[c] <= now + drift + TokenLifetime
        /\ now + drift + TokenLifetime <= token[c] + Latency
    BY <1>1 DEF CacheToken, Punctual, Obtained
  <2>2. latest <= token[c] + Latency
    BY <2>1
  <2> QED
    BY <1>1, <2>1, <2>2 DEF CacheToken, Goto, Later
<1>2. CASE Restart
  BY <1>2 DEF Restart
<1>3. CASE Tick
  BY <1>3 DEF Tick
<1>4. CASE UNCHANGED <<now, drift, cache, latest>>
  BY <1>4
<1> QED
  BY <1>1, <1>2, <1>3, <1>4
     DEF Next, Call, UseCached, AskForToken, Mint, Serve, Raises, Goto, Leave, vars

LEMMA Invariance == Spec => []IInv
<1>1. IInv /\ [Next]_vars => IInv'
  BY NextTypeOK, NextPunctual, NextObtained, NextNearlyLatest DEF IInv
<1> QED
  BY InitIInv, <1>1, PTL DEF Spec

(* TypeOK holds, whatever the constants.                                   *)
THEOREM TokenTypes == Spec => []TypeOK
<1>1. IInv => TypeOK
  BY DEF IInv
<1> QED
  BY Invariance, <1>1, PTL

(* No request is refused because its token has expired.                    *)
THEOREM TokensStayFresh == Spec => []TokensAreFresh
<1>1. IInv => TokensAreFresh
  BY LatencyAssumption, MarginAssumption
     DEF IInv, TypeOK, Punctual, Obtained, TokensAreFresh, GitHubNow
<1> QED
  BY Invariance, <1>1, PTL

(* No exchange is refused because of the times in the app JWT.             *)
THEOREM JwtsStayAccepted == Spec => []JwtsAreAccepted
<1>1. IInv => JwtsAreAccepted
  BY LatencyAssumption, MarginAssumption
     DEF IInv, TypeOK, Punctual, Obtained, JwtsAreAccepted, JwtAccepted, Claims, GitHubNow
<1> QED
  BY Invariance, <1>1, PTL

(* A refresh comes at most a latency earlier than it has to, although      *)
(* refreshes under way at once may write the cache in the wrong order.     *)
THEOREM RefreshesAreNeeded == Spec => NoEarlyRefresh
<1>1. IInv /\ [Next]_vars =>
        [\A c \in Calls : at[c] = "idle" /\ at'[c] = "asking" =>
            latest <= now + Margin + Latency]_vars
  <2> SUFFICES ASSUME IInv, [Next]_vars, NEW d \in Calls, at[d] = "idle", at'[d] = "asking"
               PROVE latest <= now + Margin + Latency
    OBVIOUS
  <2>1. Usable = {}
    BY DEF IInv, TypeOK, Next, Call, UseCached, AskForToken, Mint, CacheToken, Serve, Raises,
           Restart, Tick, Goto, Leave, vars
  <2> QED
    BY <2>1, LatencyAssumption, MarginAssumption DEF Usable, IInv, TypeOK, NearlyLatest
<1> QED
  BY Invariance, <1>1, PTL DEF Spec, NoEarlyRefresh
=============================================================================
