-------------------------------- MODULE OAuth --------------------------------
(***************************************************************************)
(* OAuth credentials: the pending authorization flows and the check of an  *)
(* identity token against a cached key set; the refresh of a stored token  *)
(* set, single-flight within a process and written back only if nobody     *)
(* else wrote meanwhile.  The provider may consume the refresh token it is *)
(* shown, or keep it and answer without one.                               *)
(***************************************************************************)
EXTENDS Naturals, FiniteSets

CONSTANTS Resolvers,    \* gateways resolving the same secret
          FlowIds,      \* the authorizations, 1..n, in the order they start
          FLOW_CAP,     \* pending flows kept
          MaxIssued     \* bound on the token sets issued

ASSUME OAuthAssumption == /\ FLOW_CAP \in Nat \ {0} /\ MaxIssued \in Nat
                          /\ FlowIds \subseteq Nat \ {0}

VARIABLES resolving,    \* where each resolver is
          readSet,      \* the token set it read
          rotatedSet,   \* the token set it got in exchange
          together,     \* the resolvers share one process, and its flights
          storedSet,    \* the secret store's token set: grant and access token
          liveGrants,   \* the refresh tokens the provider accepts
          issued,       \* token sets issued so far
          expiredUpTo,  \* access tokens no longer fresh
          mishap,       \* a rotation was lost with a reply or a process
          refused,      \* a resolver was told the grant is invalid
          pendingFlows, \* PENDING_FLOWS
          begun,        \* flows started so far
          agedFlows,    \* the oldest flows past FLOW_TTL_SECONDS
          flowStage,    \* what became of each flow
          exchanges,    \* code exchanges made per flow
          tokenKey,     \* the key that signed the flow's identity token
          goodClaims,   \* flows whose identity token has the right claims
          signingKey,   \* the provider's current key
          cachedKeys,   \* JWKS_CACHE, empty when cold
          keysFresh,    \* its expires_at lies ahead
          unfetched     \* flows that met a failed key fetch

refreshVars == <<resolving, readSet, rotatedSet, together, storedSet, liveGrants, issued,
                 expiredUpTo, mishap, refused>>
flowVars == <<pendingFlows, begun, agedFlows, flowStage, exchanges, tokenKey, goodClaims,
              signingKey, cachedKeys, keysFresh, unfetched>>
oauthVars == <<refreshVars, flowVars>>

NoSet == [grant |-> 0, access |-> 0]

OAuthInit ==
    /\ resolving = [r \in Resolvers |-> "idle"] /\ readSet = [r \in Resolvers |-> NoSet]
    /\ rotatedSet = [r \in Resolvers |-> NoSet] /\ together \in BOOLEAN
    /\ storedSet = [grant |-> 1, access |-> 1] /\ liveGrants = {1} /\ issued = 1
    /\ expiredUpTo = 0 /\ mishap = FALSE /\ refused = FALSE
    /\ pendingFlows = {} /\ begun = 0 /\ agedFlows = 0
    /\ flowStage = [f \in FlowIds |-> "none"] /\ exchanges = [f \in FlowIds |-> 0]
    /\ tokenKey = [f \in FlowIds |-> 0] /\ goodClaims = {}
    /\ signingKey = 1 /\ cachedKeys = {} /\ keysFresh = FALSE /\ unfetched = {}

-----------------------------------------------------------------------------
\* requires_refresh_at, with the skew of OAUTH_REFRESH_SKEW_SECONDS.
RequiresRefresh(set) == set.access <= expiredUpTo

\* RefreshFlights: one resolver of a process at a time.
FlightFree(r) == \A q \in Resolvers \ {r} : together => resolving[q] = "idle"

\* Fault: the stored set is read outside the flight.
ReadStoredUnlocked(r) ==
    /\ resolving[r] = "idle" /\ RequiresRefresh(storedSet)
    /\ resolving' = [resolving EXCEPT ![r] = "exchange"]
    /\ readSet' = [readSet EXCEPT ![r] = storedSet]
    /\ UNCHANGED <<rotatedSet, together, storedSet, liveGrants, issued, expiredUpTo, mishap, refused>>

\* resolve_secret up to the exchange; a fresh set is returned and leaves no trace.
ReadStored(r) ==
    /\ resolving[r] = "idle" /\ FlightFree(r) /\ RequiresRefresh(storedSet)
    /\ resolving' = [resolving EXCEPT ![r] = "exchange"]
    /\ readSet' = [readSet EXCEPT ![r] = storedSet]
    /\ UNCHANGED <<rotatedSet, together, storedSet, liveGrants, issued, expiredUpTo, mishap, refused>>

\* token_set_from_response: what the response omits is carried over.
TokenSetFromResponse(replied, fallback) ==
    [grant |-> IF replied = 0 THEN fallback ELSE replied, access |-> issued + 1]

\* The provider's answer to a valid refresh: it consumes the token shown and
\* issues another, or keeps it.
ProviderAnswers(r, replied) ==
    /\ readSet[r].grant \in liveGrants /\ issued < MaxIssued
    /\ issued' = issued + 1 /\ replied \in {0, issued + 1}
    /\ liveGrants' = IF replied = 0 THEN liveGrants
                     ELSE (liveGrants \ {readSet[r].grant}) \cup {replied}

\* refresh_token_set_at.
Exchange(r) ==
    /\ resolving[r] = "exchange"
    /\ \E replied \in {0, issued + 1} :
          /\ ProviderAnswers(r, replied)
          /\ rotatedSet' = [rotatedSet EXCEPT ![r] = TokenSetFromResponse(replied, readSet[r].grant)]
    /\ resolving' = [resolving EXCEPT ![r] = "compare"]
    /\ UNCHANGED <<readSet, together, storedSet, expiredUpTo, mishap, refused>>

\* No refresh token, or invalid_grant: the typed credential error.
ExchangeRefused(r) ==
    /\ resolving[r] = "exchange" /\ readSet[r].grant \notin liveGrants
    /\ refused' = TRUE /\ resolving' = [resolving EXCEPT ![r] = "idle"]
    /\ UNCHANGED <<readSet, rotatedSet, together, storedSet, liveGrants, issued, expiredUpTo, mishap>>

\* The request or its reply is lost, or the caller gives up on it.
ExchangeLost(r) ==
    /\ resolving[r] = "exchange" /\ resolving' = [resolving EXCEPT ![r] = "idle"]
    /\ \/ UNCHANGED <<liveGrants, issued, mishap>>
       \/ \E replied \in {0, issued + 1} :
             ProviderAnswers(r, replied) /\ mishap' = (mishap \/ replied # 0)
    /\ UNCHANGED <<readSet, rotatedSet, together, storedSet, expiredUpTo, refused>>

\* update_if_unchanged: the comparison; on a mismatch the winner's is adopted.
CompareStored(r) ==
    /\ resolving[r] = "compare"
    /\ resolving' = [resolving EXCEPT ![r] = IF storedSet = readSet[r] THEN "write" ELSE "idle"]
    /\ UNCHANGED <<readSet, rotatedSet, together, storedSet, liveGrants, issued, expiredUpTo,
                   mishap, refused>>

\* ... and the write, which saves outside CAS_GUARD may precede.
WriteStored(r) ==
    /\ resolving[r] = "write" /\ resolving' = [resolving EXCEPT ![r] = "idle"]
    /\ storedSet' = rotatedSet[r]
    /\ UNCHANGED <<readSet, rotatedSet, together, liveGrants, issued, expiredUpTo, mishap, refused>>

\* The user authorizes anew and the account's secret is replaced.
SecretReplaced ==
    /\ issued < MaxIssued /\ issued' = issued + 1
    /\ storedSet' = [grant |-> issued + 1, access |-> issued + 1]
    /\ liveGrants' = liveGrants \cup {issued + 1}
    /\ UNCHANGED <<resolving, readSet, rotatedSet, together, expiredUpTo, mishap, refused>>

AccessExpires == /\ expiredUpTo < issued /\ expiredUpTo' = issued
                 /\ UNCHANGED <<resolving, readSet, rotatedSet, together, storedSet, liveGrants,
                                issued, mishap, refused>>

\* The process of a resolver ends with a rotated set in hand.
ResolverDies(r) ==
    /\ resolving[r] \in {"compare", "write"} /\ resolving' = [resolving EXCEPT ![r] = "idle"]
    /\ mishap' = TRUE
    /\ UNCHANGED <<readSet, rotatedSet, together, storedSet, liveGrants, issued, expiredUpTo, refused>>

RefreshNext ==
    \/ \E r \in Resolvers : \/ ReadStored(r) \/ Exchange(r) \/ ExchangeRefused(r) \/ ExchangeLost(r)
                            \/ CompareStored(r) \/ WriteStored(r) \/ ResolverDies(r)
    \/ SecretReplaced \/ AccessExpires

-----------------------------------------------------------------------------
\* prune_flows: the aged ones, then the oldest if the cap is reached.
PruneFlows(flows) ==
    LET young == {f \in flows : f > agedFlows}
    IN  IF Cardinality(young) >= FLOW_CAP THEN {f \in young : \E g \in young : g < f} ELSE young

StartFlow ==
    /\ begun + 1 \in FlowIds /\ begun' = begun + 1
    /\ pendingFlows' = PruneFlows(pendingFlows) \cup {begun + 1}
    /\ UNCHANGED <<agedFlows, flowStage, exchanges, tokenKey, goodClaims, signingKey, cachedKeys,
                   keysFresh, unfetched>>

FlowAges == /\ agedFlows < begun /\ agedFlows' = agedFlows + 1
            /\ UNCHANGED <<pendingFlows, begun, flowStage, exchanges, tokenKey, goodClaims,
                           signingKey, cachedKeys, keysFresh, unfetched>>

\* flows.remove(state): a flow is used once.
FlowTaken(f, flows) == flows \ {f}

\* complete_flow up to the exchange of the code.
CompleteFlow(f) ==
    /\ f <= begun /\ exchanges[f] < 2
    /\ LET flows == PruneFlows(pendingFlows)
           known == f \in flows
       IN  /\ pendingFlows' = FlowTaken(f, flows)
           /\ exchanges' = [exchanges EXCEPT ![f] = @ + IF known THEN 1 ELSE 0]
           /\ flowStage' = IF known THEN [flowStage EXCEPT ![f] = "verify"]
                           ELSE [flowStage EXCEPT ![f] = IF @ = "none" THEN "unknown" ELSE @]
           /\ tokenKey' = IF known THEN [tokenKey EXCEPT ![f] = signingKey] ELSE tokenKey
           /\ \/ known /\ goodClaims' = goodClaims \cup {f}
              \/ UNCHANGED goodClaims
    /\ UNCHANGED <<begun, agedFlows, signingKey, cachedKeys, keysFresh, unfetched>>

\* The provider moves to a new key and publishes both.
KeyRotates == /\ signingKey = 1 /\ signingKey' = 2
              /\ UNCHANGED <<pendingFlows, begun, agedFlows, flowStage, exchanges, tokenKey,
                             goodClaims, cachedKeys, keysFresh, unfetched>>
KeysExpire == /\ keysFresh /\ keysFresh' = FALSE
              /\ UNCHANGED <<pendingFlows, begun, agedFlows, flowStage, exchanges, tokenKey,
                             goodClaims, signingKey, cachedKeys, unfetched>>

\* jwks_for: the cache while it is fresh and no refresh is forced, else a fetch,
\* and the last good keys when the fetch fails.
JwksFor(f, force, fetched) ==
    IF ~force /\ keysFresh THEN UNCHANGED <<cachedKeys, keysFresh, unfetched>>
    ELSE IF fetched THEN /\ cachedKeys' = 1..signingKey /\ keysFresh' = TRUE /\ UNCHANGED unfetched
    ELSE UNCHANGED <<cachedKeys, keysFresh>> /\ unfetched' = unfetched \cup {f}

\* validate_identity_claims: audience, issuer, times, nonce, verified address.
IdentityAccepted(f) == f \in goodClaims

\* Fault: an unknown signing key is final.
AfterFirstLookupFinal(f, keys) ==
    IF tokenKey[f] \in keys /\ IdentityAccepted(f) THEN "accepted" ELSE "rejected"

\* verified_identity_email: an unknown signing key asks for fresh keys once.
AfterFirstLookup(f, keys) ==
    IF keys = {} THEN "rejected" ELSE IF tokenKey[f] \notin keys THEN "retry"
    ELSE IF IdentityAccepted(f) THEN "accepted" ELSE "rejected"

VerifyIdentity(f) == \E fetched \in BOOLEAN :
    /\ flowStage[f] = "verify" /\ JwksFor(f, FALSE, fetched)
    /\ flowStage' = [flowStage EXCEPT ![f] = AfterFirstLookup(f, cachedKeys')]
    /\ UNCHANGED <<pendingFlows, begun, agedFlows, exchanges, tokenKey, goodClaims, signingKey>>

RetryIdentity(f) == \E fetched \in BOOLEAN :
    /\ flowStage[f] = "retry" /\ JwksFor(f, TRUE, fetched)
    /\ flowStage' = [flowStage EXCEPT ![f] =
                        IF tokenKey[f] \in cachedKeys' /\ IdentityAccepted(f) THEN "accepted"
                        ELSE "rejected"]
    /\ UNCHANGED <<pendingFlows, begun, agedFlows, exchanges, tokenKey, goodClaims, signingKey>>

FlowNext == \/ StartFlow \/ FlowAges \/ KeyRotates \/ KeysExpire
            \/ \E f \in FlowIds : CompleteFlow(f) \/ VerifyIdentity(f) \/ RetryIdentity(f)

OAuthNext == \/ RefreshNext /\ UNCHANGED flowVars
             \/ FlowNext /\ UNCHANGED refreshVars

OAuthSpec == OAuthInit /\ [][OAuthNext]_oauthVars

-----------------------------------------------------------------------------
\* A refresh never costs the account its grant: with one process, unless a
\* rotation was lost on the way or is still in hand, the stored refresh token is
\* one the provider accepts.
GrantKept == (together /\ ~mishap /\ \A r \in Resolvers : resolving[r] \notin {"compare", "write"})
             => storedSet.grant \in liveGrants

\* Within one process nobody is told the grant is invalid while it is not: a
\* follower queued behind a refresh reads the rotated set, not the consumed one.
NoFalseRefusal == (together /\ ~mishap) => ~refused

\* A flow's code is exchanged at most once, however often it is completed.
FlowOnce == \A f \in FlowIds : exchanges[f] <= 1

\* A completion is turned away only if its flow is old or FLOW_CAP - 1 newer
\* ones were started.
FlowKept == \A f \in FlowIds : flowStage[f] = "unknown" =>
                f <= agedFlows \/ begun - f >= FLOW_CAP - 1

\* A key rotation never turns a good identity away: that takes a failed fetch.
KeyRotationTolerated ==
    \A f \in FlowIds : flowStage[f] = "rejected" => f \in unfetched \/ f \notin goodClaims

\* The account keeps its grant through concurrent refreshes, and is never told
\* otherwise.
GrantHolds == GrantKept /\ NoFalseRefusal

\* Signing in: a flow is exchanged once, a fresh one is found, and a rotated key
\* does not turn a good identity away.
SignInHolds == FlowOnce /\ FlowKept /\ KeyRotationTolerated
=============================================================================
