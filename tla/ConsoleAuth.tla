----------------------------- MODULE ConsoleAuth -----------------------------
(***************************************************************************)
(* Sign-in to the console (perpAuth.ts) and the admin's write of the       *)
(* automation's config behind it (routes/automation.ts).  Challenges and   *)
(* sessions live in memory; sessions have a copy in the database, so that  *)
(* they survive a restart.  Memory and database are a cache and a store    *)
(* that are written and read with awaits in between, by any number of      *)
(* requests at a time.                                                     *)
(*                                                                         *)
(* Who may sign in to the automation, and who may write its config, is the *)
(* vault's owner: read from the chain with an await and kept for a minute, *)
(* by every request for itself (vaultOwner).                               *)
(*                                                                         *)
(* A signature stands for its address: whoever answers a challenge signs   *)
(* it.  Line numbers without a file are perpAuth.ts.                       *)
(***************************************************************************)
EXTENDS Naturals, FiniteSets

CONSTANTS
    Addresses, Managers,            \* wallets; those of PERPL_MANAGERS
    Nonces, Tokens,                 \* random values, each drawn once
    Requests,                       \* requests in flight at a time
    NonceTtl, TokenTtl, OwnerTtl,   \* NONCE_TTL_MS, TOKEN_TTL_MS, the owner's 60 s
    ReadTime,                       \* external: longest an answer of the RPC is on its way
    NoOne,                          \* no address
    MaxTime                         \* bound of the authClock

ASSUME AuthAssumption ==
    /\ Managers \subseteq Addresses /\ NoOne \notin Addresses \cup Nonces \cup Tokens
    /\ {NonceTtl, TokenTtl, OwnerTtl, ReadTime} \subseteq Nat \ {0} /\ MaxTime \in Nat

VARIABLES
    authClock,
    challenges,         \* the map of live challenges, as records
    sessions,           \* the map of sessions in memory
    stored,             \* their copies in the database
    request,            \* what each request is waiting for
    ownerOf, ownerCache,            \* the vault's owner; what the routes cached
    origin,             \* observation: the nonce a token was minted for
    ended,              \* observation: tokens signed out with nothing in flight
    lostAt              \* observation: when an address stopped being the owner

authVars == <<authClock, challenges, sessions, stored, request, ownerOf, ownerCache,
              origin, ended, lostAt>>

None    == [address |-> NoOne, expiresAt |-> 0]
NoOwner == [at |-> 0, owner |-> NoOne]

(* What is kept between a request's awaits.  Its caller is the route: one  *)
(* of /perp, or a challenge, a verify, a read or a write of /automation.   *)
(* With an answer goes, as an observation, when the chain was read.        *)
NoRequest == [at |-> "idle", token |-> NoOne, nonce |-> NoOne, session |-> None,
              caller |-> "perp", answer |-> NoOwner]

AuthInit ==
    /\ authClock = 1
    /\ challenges = {}
    /\ sessions = [t \in Tokens |-> None]
    /\ stored = [t \in Tokens |-> None]
    /\ request = [r \in Requests |-> NoRequest]
    /\ ownerOf \in Addresses
    /\ ownerCache = NoOwner
    /\ origin = [t \in Tokens |-> NoOne]
    /\ ended = {}
    /\ lostAt = [a \in Addresses |-> 0]

-----------------------------------------------------------------------------
Live(session) == session.expiresAt > authClock

(* Every call begins by dropping what has expired from both maps.          *)
SweptChallenges == {c \in challenges : Live(c)}
SweptSessions   == [t \in Tokens |-> IF Live(sessions[t]) THEN sessions[t] ELSE None]

Finish(r) == request' = [request EXCEPT ![r] = NoRequest]

UnusedNonces == Nonces \ ({c.nonce : c \in challenges} \cup {origin[t] : t \in Tokens}
                            \cup {request[r].nonce : r \in Requests})

CreateChallenge(a) ==
    /\ \E n \in UnusedNonces :
          challenges' = SweptChallenges
                          \cup {[nonce |-> n, address |-> a, expiresAt |-> authClock + NonceTtl]}
    /\ sessions' = SweptSessions

(* POST /perp/auth/challenge: for the managers, without an await.          *)
PerpChallenge(a) ==
    /\ a \in Managers
    /\ CreateChallenge(a)
    /\ UNCHANGED <<authClock, stored, request, ownerOf, ownerCache, origin, ended, lostAt>>

(* The automation asks who owns the vault before it gives a challenge, and *)
(* for GET /automation/config, which shows the owner to anyone.            *)
AskForOwner(r, caller, a) ==
    /\ request[r] = NoRequest
    /\ request' = [request EXCEPT ![r] = [NoRequest EXCEPT !.at = "vaultOwner", !.caller = caller,
                                                           !.session.address = a]]
    /\ UNCHANGED <<authClock, challenges, sessions, stored, ownerOf, ownerCache, origin, ended, lostAt>>

Consumed_as_kept(c) == SweptChallenges
Consumed(c) == SweptChallenges \ {c}

(* verifyChallenge: the challenge is consumed before the first await, that *)
(* of the allow rule: the managers' list for the console, the owner for    *)
(* the automation.                                                         *)
Verify(r, caller) ==
    /\ request[r] = NoRequest
    /\ \E c \in SweptChallenges :
          /\ challenges' = Consumed(c)
          /\ request' = [request EXCEPT ![r] =
                 IF caller = "perp" /\ c.address \notin Managers THEN NoRequest
                 ELSE [NoRequest EXCEPT !.at = IF caller = "perp" THEN "sign" ELSE "vaultOwner",
                           !.nonce = c.nonce, !.caller = caller,
                           !.session = [address |-> c.address, expiresAt |-> authClock + TokenTtl]]]
    /\ sessions' = SweptSessions
    /\ UNCHANGED <<authClock, stored, ownerOf, ownerCache, origin, ended, lostAt>>

(* Behind another await the signature, which may be someone else's.        *)
MintSession(r) ==
    /\ request[r].at = "sign"
    /\ \/ \E t \in {u \in Tokens : origin[u] = NoOne} :
             /\ origin' = [origin EXCEPT ![t] = request[r].nonce]
             /\ sessions' = [sessions EXCEPT ![t] = request[r].session]
             /\ request' = [request EXCEPT ![r].at = "persist", ![r].token = t, ![r].nonce = NoOne]
       \/ Finish(r) /\ UNCHANGED <<origin, sessions>>
    /\ UNCHANGED <<authClock, challenges, stored, ownerOf, ownerCache, ended, lostAt>>

(* Best effort: the database may refuse, and nobody is told.               *)
Persist(r) ==
    /\ request[r].at = "persist"
    /\ \/ stored' = [stored EXCEPT ![request[r].token] = request[r].session]
       \/ UNCHANGED stored
    /\ Finish(r)
    /\ UNCHANGED <<authClock, challenges, sessions, ownerOf, ownerCache, origin, ended, lostAt>>

(* Whoever holds the token again: a read is answered, a write goes on.     *)
Admit(r, t, session, caller) ==
    request' = [request EXCEPT ![r] =
        IF caller = "perp" THEN NoRequest
        ELSE [NoRequest EXCEPT !.at = "vaultOwner", !.token = t, !.session = session,
                               !.caller = caller]]

(* sessionFor: memory first, else the database.                            *)
SessionFor(r, t, caller) ==
    /\ request[r] = NoRequest /\ origin[t] # NoOne
    /\ sessions' = SweptSessions /\ challenges' = SweptChallenges
    /\ IF Live(sessions[t])
       THEN Admit(r, t, sessions[t], caller)
       ELSE request' = [request EXCEPT ![r] = [NoRequest EXCEPT !.at = "find", !.token = t,
                                                                !.caller = caller]]
    /\ UNCHANGED <<authClock, stored, ownerOf, ownerCache, origin, ended, lostAt>>

(* The database answers: the copy, nothing, or an error that reads as nothing. *)
FindStored(r) ==
    LET found == stored[request[r].token]
    IN  /\ request[r].at = "find"
        /\ \/ Live(found) /\ request' = [request EXCEPT ![r].at = "cache", ![r].session = found]
           \/ Finish(r)
        /\ UNCHANGED <<authClock, challenges, sessions, stored, ownerOf, ownerCache, origin,
                       ended, lostAt>>

CacheSession(r) ==
    /\ request[r].at = "cache"
    /\ sessions' = [sessions EXCEPT ![request[r].token] = request[r].session]
    /\ Admit(r, request[r].token, request[r].session, request[r].caller)
    /\ UNCHANGED <<authClock, challenges, stored, ownerOf, ownerCache, origin, ended, lostAt>>

(* signout: memory at once, the database behind an await.                  *)
Revoke(r, t) ==
    /\ request[r] = NoRequest /\ origin[t] # NoOne
    /\ sessions' = [sessions EXCEPT ![t] = None]
    /\ request' = [request EXCEPT ![r] = [NoRequest EXCEPT !.at = "forget", !.token = t]]
    /\ UNCHANGED <<authClock, challenges, stored, ownerOf, ownerCache, origin, ended, lostAt>>

Alone(r) == \A q \in Requests \ {r} : request[q].token # request[r].token

Forgotten_as_kept(t) == stored
Forgotten(t) == [stored EXCEPT ![t] = None]

Forget(r) ==
    LET t == request[r].token
    IN  /\ request[r].at = "forget"
        /\ \/ stored' = Forgotten(t) /\ ended' = IF Alone(r) /\ sessions[t] = None
                                                 THEN ended \cup {t} ELSE ended
           \/ UNCHANGED <<stored, ended>>
        /\ Finish(r)
        /\ UNCHANGED <<authClock, challenges, sessions, ownerOf, ownerCache, origin, lostAt>>

-----------------------------------------------------------------------------
OwnerIsFresh_as_for_good == ownerCache.owner # NoOne
OwnerIsFresh == ownerCache.owner # NoOne /\ authClock - ownerCache.at < OwnerTtl

Onward == [verify |-> "sign", admin |-> "write"]

(* The caller's own test of the owner it got, and what it does next.       *)
Judge(r, owner) ==
    LET asker == request[r]
        passes == owner = asker.session.address
    IN  /\ IF passes /\ asker.caller = "challenge" /\ UnusedNonces # {}
           THEN CreateChallenge(asker.session.address)
           ELSE UNCHANGED <<challenges, sessions>>
        /\ request' = [request EXCEPT ![r] =
               IF passes /\ asker.caller \in DOMAIN Onward
               THEN [asker EXCEPT !.at = Onward[asker.caller], !.answer = NoOwner]
               ELSE NoRequest]

(* vaultOwner: the cached owner if it is fresh, else the chain is asked.   *)
VaultOwner(r) ==
    /\ request[r].at = "vaultOwner"
    /\ IF OwnerIsFresh
       THEN Judge(r, ownerCache.owner)
       ELSE /\ request' = [request EXCEPT ![r].at = "readContract"]
            /\ UNCHANGED <<challenges, sessions>>
    /\ UNCHANGED <<authClock, stored, ownerOf, ownerCache, origin, ended, lostAt>>

(* External: the node answers with the owner of that moment, or the call   *)
(* fails and the route with it.                                            *)
AnswerOwner(r) ==
    /\ request[r].at = "readContract"
    /\ \/ request' = [request EXCEPT ![r].at = "answered",
                                     ![r].answer = [at |-> authClock, owner |-> ownerOf]]
       \/ Finish(r)
    /\ UNCHANGED <<authClock, challenges, sessions, stored, ownerOf, ownerCache, origin, ended, lostAt>>

(* The await returns: the answer is cached as of now, over what another    *)
(* request may have cached in the meantime.                                *)
TakeOwner(r) ==
    /\ request[r].at = "answered"
    /\ ownerCache' = [at |-> authClock, owner |-> request[r].answer.owner]
    /\ Judge(r, request[r].answer.owner)
    /\ UNCHANGED <<authClock, stored, ownerOf, origin, ended, lostAt>>

(* writeConfig; AutomationRunner models what the config does.              *)
WriteConfig(r) ==
    /\ request[r].at = "write"
    /\ Finish(r)
    /\ UNCHANGED <<authClock, challenges, sessions, stored, ownerOf, ownerCache, origin, ended, lostAt>>

-----------------------------------------------------------------------------
(* An answer of the RPC is taken within ReadTime of its reading.            *)
Hour ==
    /\ authClock < MaxTime
    /\ \A r \in Requests :
          request[r].at = "answered" => authClock - request[r].answer.at < ReadTime
    /\ authClock' = authClock + 1
    /\ UNCHANGED <<challenges, sessions, stored, request, ownerOf, ownerCache, origin, ended, lostAt>>

(* External: the database drops documents past their expiry, in its time.  *)
TtlIndex(t) ==
    /\ stored[t] # None /\ ~Live(stored[t])
    /\ stored' = [stored EXCEPT ![t] = None]
    /\ UNCHANGED <<authClock, challenges, sessions, request, ownerOf, ownerCache, origin, ended, lostAt>>

Restart ==
    /\ challenges' = {}
    /\ sessions' = [t \in Tokens |-> None]
    /\ request' = [r \in Requests |-> NoRequest]
    /\ ownerCache' = NoOwner
    /\ UNCHANGED <<authClock, stored, ownerOf, origin, ended, lostAt>>

(* External: the vault changes hands.                                      *)
OwnerChanges(a) ==
    /\ a # ownerOf
    /\ ownerOf' = a
    /\ lostAt' = [lostAt EXCEPT ![ownerOf] = authClock]
    /\ UNCHANGED <<authClock, challenges, sessions, stored, request, ownerCache, origin, ended>>

AuthNext ==
    \/ \E a \in Addresses : OwnerChanges(a) \/ PerpChallenge(a)
    \/ \E r \in Requests :
          \/ \E a \in Addresses : AskForOwner(r, "challenge", a)
          \/ AskForOwner(r, "config", NoOne)
          \/ \E caller \in {"perp", "verify"} : Verify(r, caller)
          \/ \E caller \in {"perp", "admin"}, t \in Tokens : SessionFor(r, t, caller)
          \/ MintSession(r) \/ Persist(r) \/ FindStored(r) \/ CacheSession(r)
          \/ \E t \in Tokens : Revoke(r, t)
          \/ Forget(r) \/ VaultOwner(r) \/ AnswerOwner(r) \/ TakeOwner(r) \/ WriteConfig(r)
    \/ \E t \in Tokens : TtlIndex(t)
    \/ Hour \/ Restart

AuthSpec == AuthInit /\ [][AuthNext]_authVars

-----------------------------------------------------------------------------
(* A challenge opens one session, however many answers to it are being     *)
(* checked at a time (142-144, 166-168).                                   *)
ChallengeOpensOneSession ==
    \A t, u \in Tokens : origin[t] # NoOne /\ origin[t] = origin[u] => t = u

(* A session that was signed out, from memory and from the database, while *)
(* nobody else was using it, stays out: no map, no copy and no request     *)
(* holds it again, over any restart (200-224).                             *)
SignedOutStaysOut ==
    \A t \in ended :
        /\ sessions[t] = None /\ stored[t] = None
        /\ \A r \in Requests : request[r].token = t => request[r].at \in {"find", "forget"}

(* The config is only ever written for an address that owned the vault    *)
(* when the check was made, or within the owner's cache time and the time   *)
(* of one read before it (routes/automation.ts 33-64): an answer is cached *)
(* as of its arrival, and one that is overtaken by a fresher one is cached *)
(* over it.                                                                *)
ConfigIsTheOwners ==
    [][\A r \in Requests :
          request[r].at # "write" /\ request'[r].at = "write"
          => LET a == request[r].session.address
             IN  a = ownerOf \/ authClock - lostAt[a] < OwnerTtl + ReadTime]_authVars
=============================================================================
