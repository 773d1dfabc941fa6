-------------------------------- MODULE OAuth --------------------------------
(***************************************************************************)
(* The OAuth manager: authorization states and tokens, each in a map       *)
(* behind the manager's lock or in a store, and the HTTP handlers over     *)
(* it.  The provider answers over the network, so a callback and a refresh *)
(* are two steps: what they read, and what they write after the answer.    *)
(***************************************************************************)
EXTENDS Naturals, FiniteSets

CONSTANTS
    Providers,              \* names of the known providers
    Integrations,           \* integrations that own tokens
    StateIds,               \* random ids of authorization states
    OAuthCalls,             \* requests in flight
    NoIntegration, NoState, NoToken

VARIABLES
    withStores,             \* whether the manager was given stores
    configured,             \* providers with client credentials
    states,                 \* state id -> OAuthState or NoState
    tokens,                 \* integration -> Token or NoToken
    oauthCall,              \* request -> what it does next
    exchanges,              \* history: state id -> codes exchanged with it
    shared,                 \* history: states read while another call had them
    withdrawn,              \* history: integrations revoked, not granted since
    late                    \* history: of those, written by an earlier call

oauthVars == <<withStores, configured, states, tokens, oauthCall, exchanges,
               shared, withdrawn, late>>

At(r, pc) == oauthCall[r].pc = pc
Ready == [pc |-> "ready"]
Goto(r, q) == oauthCall' = [oauthCall EXCEPT ![r] = q]
Answer(r) == Goto(r, Ready)

NewOAuthManager ==
    /\ withStores \in BOOLEAN /\ configured = {}
    /\ states = [s \in StateIds |-> NoState]
    /\ tokens = [i \in Integrations |-> NoToken]
Init ==
    /\ NewOAuthManager
    /\ oauthCall = [r \in OAuthCalls |-> Ready]
    /\ exchanges = [s \in StateIds |-> 0] /\ shared = {}
    /\ withdrawn = {} /\ late = {}

-------------------------------------------------------------------------------
ConfigureProvider(p) ==
    /\ p \notin configured
    /\ configured' = configured \union {p}
    /\ UNCHANGED <<withStores, states, tokens, oauthCall, exchanges, shared,
                   withdrawn, late>>

SaveState(s, state) == states' = [states EXCEPT ![s] = state]
DeleteState(s) == states' = [states EXCEPT ![s] = NoState]
SaveToken(i, token) == tokens' = [tokens EXCEPT ![i] = token]
DeleteToken(i) == tokens' = [tokens EXCEPT ![i] = NoToken]

\* A state's id is random: it was never given out before.
generateState(s) == states[s] = NoState /\ exchanges[s] = 0 /\ s \notin shared
GetAuthorizationURL(p, i, s) ==
    /\ p \in configured /\ generateState(s)
    /\ SaveState(s, [provider |-> p, integration |-> i, expired |-> FALSE])
StateExpires(s) ==
    /\ states[s] # NoState /\ ~states[s].expired
    /\ SaveState(s, [states[s] EXCEPT !.expired = TRUE])
    /\ UNCHANGED <<withStores, configured, tokens, oauthCall, exchanges, shared,
                   withdrawn, late>>

-------------------------------------------------------------------------------
\* With a store the state is read first and deleted when the call returns;
\* the map gives it out once.
HoldsState(q, s) == q.pc = "exchange" /\ q.state = s
TakeState_Kept(s) == UNCHANGED states
TakeState(s) == IF withStores THEN UNCHANGED states ELSE DeleteState(s)
ReturnState(s) == IF withStores THEN DeleteState(s) ELSE UNCHANGED states

HandleCallback(r, p, s) ==
    LET state == states[s] IN
    /\ state # NoState
    /\ shared' = IF \E o \in OAuthCalls : HoldsState(oauthCall[o], s)
                 THEN shared \union {s} ELSE shared
    /\ IF state.expired \/ state.provider # p
       THEN DeleteState(s) /\ UNCHANGED <<oauthCall, exchanges>>
       ELSE /\ TakeState(s)
            /\ exchanges' = [exchanges EXCEPT ![s] = @ + 1]
            /\ Goto(r, [pc |-> "exchange", state |-> s, provider |-> p,
                        id |-> state.integration, since |-> TRUE])

\* What the provider may answer with; a token may lack a refresh token.
Answers == [refresh : BOOLEAN, expired : {FALSE}]

\* The write of a call that began before the integration was revoked.
Settle(q, grants) ==
    /\ withdrawn' = IF q.since /\ grants THEN withdrawn \ {q.id} ELSE withdrawn
    /\ late' = IF q.since /\ grants THEN late \ {q.id}
               ELSE IF ~q.since THEN late \union {q.id} ELSE late

exchangeCode(r) ==
    LET q == oauthCall[r] IN
    /\ At(r, "exchange")
    /\ \/ UNCHANGED <<tokens, withdrawn, late>>
       \/ \E token \in Answers :
             /\ q.id # NoIntegration
             /\ SaveToken(q.id, token) /\ Settle(q, TRUE)
    /\ ReturnState(q.state)
    /\ Answer(r)
    /\ UNCHANGED <<withStores, configured, exchanges, shared>>

-------------------------------------------------------------------------------
RefreshToken(r, p, i) ==
    /\ tokens[i] # NoToken /\ tokens[i].refresh
    /\ p \in configured
    /\ Goto(r, [pc |-> "refresh", id |-> i, since |-> TRUE])

\* The answer's refresh token, or the one that was sent.
KeepsRefresh(token) == [token EXCEPT !.refresh = TRUE]
Refreshed(r) ==
    LET q == oauthCall[r] IN
    /\ At(r, "refresh")
    /\ \/ UNCHANGED <<tokens, withdrawn, late>>
       \/ \E token \in Answers :
             SaveToken(q.id, KeepsRefresh(token)) /\ Settle(q, FALSE)
    /\ Answer(r)
    /\ UNCHANGED <<withStores, configured, states, exchanges, shared>>

\* A token that is due within five minutes counts as expired.
IsExpired(token) == token.expired
TokenExpires(i) ==
    /\ tokens[i] # NoToken /\ ~tokens[i].expired
    /\ SaveToken(i, [tokens[i] EXCEPT !.expired = TRUE])
    /\ UNCHANGED <<withStores, configured, states, oauthCall, exchanges, shared,
                   withdrawn, late>>
GetToken(r, p, i) ==
    /\ tokens[i] # NoToken
    /\ IsExpired(tokens[i]) /\ tokens[i].refresh
    /\ RefreshToken(r, p, i)

RevokeToken_Map(i) == IF withStores THEN UNCHANGED tokens ELSE DeleteToken(i)
RevokeToken(i) == DeleteToken(i)

-------------------------------------------------------------------------------
\* The HTTP handlers; a request that is refused changes nothing.
Authorize(r) ==
    /\ At(r, "ready")
    /\ \E p \in Providers, i \in Integrations \union {NoIntegration}, s \in StateIds :
          GetAuthorizationURL(p, i, s)
    /\ UNCHANGED <<withStores, configured, tokens, oauthCall, exchanges, shared,
                   withdrawn, late>>
Callback(r) ==
    /\ At(r, "ready")
    /\ \E p \in Providers, s \in StateIds : HandleCallback(r, p, s)
    /\ UNCHANGED <<withStores, configured, tokens, withdrawn, late>>
Refresh(r) ==
    /\ At(r, "ready")
    /\ \E p \in Providers, i \in Integrations : RefreshToken(r, p, i)
    /\ UNCHANGED <<withStores, configured, states, tokens, exchanges, shared,
                   withdrawn, late>>
GetTokenHandler(r) ==
    /\ At(r, "ready")
    /\ \E p \in Providers, i \in Integrations : GetToken(r, p, i)
    /\ UNCHANGED <<withStores, configured, states, tokens, exchanges, shared,
                   withdrawn, late>>
Revoke(r) ==
    /\ At(r, "ready")
    /\ \E i \in Integrations :
          /\ RevokeToken(i)
          /\ withdrawn' = withdrawn \union {i} /\ late' = late \ {i}
          /\ oauthCall' = [o \in OAuthCalls |->
                IF ~At(o, "ready") /\ oauthCall[o].id = i
                THEN [oauthCall[o] EXCEPT !.since = FALSE] ELSE oauthCall[o]]
    /\ UNCHANGED <<withStores, configured, states, exchanges, shared>>

Next ==
    \/ \E r \in OAuthCalls :
          \/ Authorize(r) \/ Callback(r) \/ exchangeCode(r)
          \/ Refresh(r) \/ GetTokenHandler(r) \/ Refreshed(r) \/ Revoke(r)
    \/ \E p \in Providers : ConfigureProvider(p)
    \/ \E s \in StateIds : StateExpires(s)
    \/ \E i \in Integrations : TokenExpires(i)

Spec == Init /\ [][Next]_oauthVars

-------------------------------------------------------------------------------
\* A code is exchanged twice with one state only where the states are in a
\* store, which is asked for the state before it is told to delete it
\* (oauth.go:345-351), and a second callback came in between.
StateUsedOnce ==
    \A s \in StateIds : exchanges[s] > 1 => withStores /\ s \in shared

\* A token that was revoked comes back only through a new authorization, or
\* through a call that was waiting for the provider at the time and saves its
\* answer over the revocation (oauth.go:378-389, 536-546).
RevokedStaysRevoked ==
    \A i \in withdrawn : tokens[i] # NoToken => i \in late
\* Why: a state that was used and is still stored is in the hands of a call,
\* and a call that may refresh a token began after the revocation, if there
\* was one, or its token is late itself.
KnownCall(r) ==
    LET q == oauthCall[r] IN
    /\ q.pc \in {"ready", "exchange", "refresh"}
    /\ At(r, "exchange") =>
         q = [pc |-> "exchange", state |-> q.state, provider |-> q.provider, id |-> q.id, since |-> q.since]
    /\ At(r, "refresh") =>
         /\ q = [pc |-> "refresh", id |-> q.id, since |-> q.since]
         /\ q.since /\ q.id \in withdrawn => q.id \in late
Used(s) ==
    /\ exchanges[s] \in Nat
    /\ exchanges[s] > 1 => withStores /\ s \in shared
    /\ exchanges[s] > 0 /\ states[s] # NoState =>
         withStores /\ (s \in shared \/ \E r \in OAuthCalls : HoldsState(oauthCall[r], s))
OAuthInv ==
    /\ DOMAIN states = StateIds /\ DOMAIN exchanges = StateIds /\ DOMAIN tokens = Integrations
    /\ DOMAIN oauthCall = OAuthCalls /\ withdrawn \subseteq Integrations
    /\ \A r \in OAuthCalls : KnownCall(r)
    /\ \A s \in StateIds : Used(s)
    /\ RevokedStaysRevoked
===============================================================================
