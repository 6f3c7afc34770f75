---------------------------- MODULE SessionProofs ----------------------------
(***************************************************************************)
(* Proofs about the two kinds of session the backend keeps: ConsoleAuth,   *)
(* those of the people who sign in, and PerplSession, the one with the     *)
(* exchange.  They share no state, and each part stands alone.             *)
(***************************************************************************)
EXTENDS ConsoleAuth, PerplSession, SequenceTheorems, TLAPS

(***************************************************************************)
(* The sign-in, for any numbers of addresses, tokens, nonces and requests  *)
(* and for any lifetimes.                                                  *)
(*                                                                         *)
(* A nonce is in one place at a time: on a challenge, with the one request *)
(* that is checking it, or behind the token it was spent on.  A token that *)
(* was signed out is out of every place a session is read from, and what a *)
(* request does with it (look for it, forget it) cannot bring it back.     *)
(***************************************************************************)
Session == [address : Addresses \cup {NoOne}, expiresAt : Nat]
Answer  == [at : Nat, owner : Addresses \cup {NoOne}]

Asking  == {"vaultOwner", "readContract", "answered"}
Stages  == Asking \cup {"idle", "sign", "persist", "find", "cache", "forget", "write"}
Routes == {"perp", "challenge", "verify", "config", "admin"}

RequestType == [at : Stages, token : Tokens \cup {NoOne}, nonce : Nonces \cup {NoOne},
                session : Session, caller : Routes, answer : Answer]

(* The type invariant of the sign-in.                                      *)
AuthTypes ==
    /\ authClock \in Nat
    /\ challenges \subseteq [nonce : Nonces, address : Addresses, expiresAt : Nat]
    /\ sessions \in [Tokens -> Session] /\ stored \in [Tokens -> Session]
    /\ request \in [Requests -> RequestType]
    /\ ownerOf \in Addresses /\ lostAt \in [Addresses -> Nat]
    /\ ownerCache \in Answer
    /\ origin \in [Tokens -> Nonces \cup {NoOne}]
    /\ ended \subseteq Tokens

(* A request that may still mint a session holds a nonce; one that works   *)
(* on a session holds its token.                                           *)
WithNonce(q) == q.at = "sign" \/ (q.at \in Asking /\ q.caller = "verify")
WithToken(q) == \/ q.at \in {"persist", "find", "cache", "forget", "write"}
                \/ q.at \in Asking /\ q.caller = "admin"

(* Every nonce is in one place: on a challenge, in the hands of one        *)
(* request, or behind one token.                                           *)
NoncesApart ==
    /\ \A c, d \in challenges : c.nonce = d.nonce => c = d
    /\ \A t \in Tokens : \A c \in challenges : c.nonce # origin[t]
    /\ \A r \in Requests :
          /\ WithNonce(request[r]) => request[r].nonce # NoOne
          /\ request[r].nonce # NoOne =>
                /\ \A c \in challenges : c.nonce # request[r].nonce
                /\ \A t \in Tokens : origin[t] # request[r].nonce
                /\ \A q \in Requests \ {r} : request[q].nonce # request[r].nonce

(* A request that works on a token works on one that was minted.           *)
TokensMinted ==
    /\ \A t \in ended : origin[t] # NoOne
    /\ \A r \in Requests :
          /\ WithToken(request[r]) => request[r].token # NoOne
          /\ request[r].token # NoOne => origin[request[r].token] # NoOne
          /\ request[r].at \in {"find", "cache"} => request[r].caller \in {"perp", "admin"}

(* An answer on its way is not older than a read may take, and whoever it  *)
(* names and owns the vault no more lost it after the read.  An owner that *)
(* is cached and no longer the owner lost it no earlier than the time of a *)
(* read before the cache was filled.                                       *)
OwnerWasKnown ==
    /\ ownerCache.at <= authClock
    /\ ownerCache.owner \notin {NoOne, ownerOf} => lostAt[ownerCache.owner] + ReadTime >= ownerCache.at
    /\ \A r \in Requests : request[r].at = "answered" =>
          LET read == request[r].answer
          IN  /\ read.owner \in Addresses
              /\ read.at <= authClock /\ authClock <= read.at + ReadTime
              /\ read.owner # ownerOf => lostAt[read.owner] >= read.at

AuthInv == AuthTypes /\ NoncesApart /\ ChallengeOpensOneSession
             /\ TokensMinted /\ SignedOutStaysOut /\ OwnerWasKnown

-----------------------------------------------------------------------------
LEMMA RestingRequest ==
    /\ NoRequest \in RequestType /\ None \in Session /\ NoOwner \in Answer
    /\ NoRequest.at = "idle" /\ NoRequest.token = NoOne /\ NoRequest.nonce = NoOne
    /\ ~WithNonce(NoRequest) /\ ~WithToken(NoRequest)
  BY DEF NoRequest, None, NoOwner, RequestType, Session, Answer, Stages, Asking, Routes,
         WithNonce, WithToken

LEMMA AuthInvInit == AuthInit => AuthInv
  <1> SUFFICES ASSUME AuthInit PROVE AuthInv
    OBVIOUS
  <1> USE AuthAssumption, RestingRequest DEF AuthAssumption
  <1>1. AuthTypes
    BY DEF AuthInit, AuthTypes, None, Session
  <1>2. NoncesApart /\ ChallengeOpensOneSession /\ TokensMinted /\ SignedOutStaysOut
    BY DEF AuthInit, NoncesApart, ChallengeOpensOneSession, TokensMinted, SignedOutStaysOut
  <1>3. OwnerWasKnown
    BY DEF AuthInit, OwnerWasKnown, NoOwner
  <1> QED BY <1>1, <1>2, <1>3 DEF AuthInv

(* What every call does first keeps the types, and never brings back a     *)
(* session.                                                                *)
LEMMA SweepIsSafe ==
    ASSUME AuthTypes
    PROVE  /\ SweptChallenges \subseteq challenges
           /\ SweptSessions \in [Tokens -> Session]
           /\ \A t \in Tokens : sessions[t] = None => SweptSessions[t] = None
  BY DEF AuthTypes, SweptChallenges, SweptSessions, None, Session, Live

LEMMA ChallengeIsSafe ==
    ASSUME AuthTypes, NEW a \in Addresses, CreateChallenge(a)
    PROVE  /\ \E n \in UnusedNonces : challenges' = SweptChallenges
                  \cup {[nonce |-> n, address |-> a, expiresAt |-> authClock + NonceTtl]}
           /\ challenges' \subseteq [nonce : Nonces, address : Addresses, expiresAt : Nat]
           /\ sessions' \in [Tokens -> Session]
           /\ \A t \in Tokens : sessions[t] = None => sessions'[t] = None
  BY AuthAssumption, SweepIsSafe DEF AuthAssumption, AuthTypes, CreateChallenge, UnusedNonces

-----------------------------------------------------------------------------
(* What each step leaves of the request that takes it.  The two lookups of *)
(* a session:                                                              *)
Reading(t, session, caller) ==
    [NoRequest EXCEPT !.at = "vaultOwner", !.token = t, !.session = session, !.caller = caller]
Missing(t, caller) == [NoRequest EXCEPT !.at = "find", !.token = t, !.caller = caller]

LEMMA Lookups ==
    ASSUME NEW t \in Tokens, NEW session \in Session, NEW caller \in Routes
    PROVE  /\ Reading(t, session, caller) \in RequestType /\ Missing(t, caller) \in RequestType
           /\ Reading(t, session, caller).at = "vaultOwner" /\ Reading(t, session, caller).token = t
           /\ Reading(t, session, caller).nonce = NoOne /\ Reading(t, session, caller).caller = caller
           /\ Missing(t, caller).at = "find" /\ Missing(t, caller).token = t
           /\ Missing(t, caller).nonce = NoOne /\ Missing(t, caller).caller = caller
  BY RestingRequest DEF Reading, Missing, NoRequest, NoOwner, None, RequestType, Stages, Asking, Routes

(* What a lookup leaves: a request at rest, or one that holds the token.   *)
Holds(q, t, stages) ==
    /\ q \in RequestType /\ q.nonce = NoOne
    /\ q = NoRequest \/ (q.token = t /\ q.at \in stages /\ q.caller \in {"perp", "admin"})

LEMMA AdmitLeaves ==
    ASSUME AuthTypes, NEW r \in Requests, NEW t \in Tokens, NEW session \in Session,
           NEW caller \in {"perp", "admin"}, Admit(r, t, session, caller)
    PROVE  /\ Holds(request'[r], t, {"vaultOwner"})
           /\ request' = [request EXCEPT ![r] = request'[r]]
  <1>1. request'[r] \in {NoRequest, Reading(t, session, caller)}
        /\ request' = [request EXCEPT ![r] = request'[r]]
    BY DEF Admit, Reading, AuthTypes
  <1>2. caller \in Routes
    BY DEF Routes
  <1> QED BY <1>1, <1>2, Lookups, RestingRequest DEF Holds

LEMMA SessionForLeaves ==
    ASSUME AuthTypes, NEW r \in Requests, NEW t \in Tokens, NEW caller \in {"perp", "admin"},
           SessionFor(r, t, caller)
    PROVE  /\ Live(sessions[t])  => Holds(request'[r], t, {"vaultOwner"})
           /\ ~Live(sessions[t]) => Holds(request'[r], t, {"find"}) /\ request'[r].at = "find"
           /\ request' = [request EXCEPT ![r] = request'[r]]
  <1>1. CASE Live(sessions[t])
    <2>1. sessions[t] \in Session
      BY DEF AuthTypes
    <2> QED BY <1>1, <2>1, AdmitLeaves DEF SessionFor
  <1>2. CASE ~Live(sessions[t])
    <2>1. request' = [request EXCEPT ![r] = Missing(t, caller)] /\ request'[r] = Missing(t, caller)
      BY <1>2 DEF SessionFor, Missing, AuthTypes
    <2>2. None \in Session /\ caller \in Routes
      BY RestingRequest DEF Routes
    <2>3. /\ Missing(t, caller) \in RequestType /\ Missing(t, caller).at = "find"
          /\ Missing(t, caller).token = t /\ Missing(t, caller).nonce = NoOne
          /\ Missing(t, caller).caller = caller
      BY ONLY <2>2, Lookups, t \in Tokens
    <2>4. Holds(request'[r], t, {"find"}) /\ request'[r].at = "find"
      BY <2>1, <2>3 DEF Holds
    <2> QED BY <1>2, <2>1, <2>4
  <1> QED BY <1>1, <1>2

LEMMA VerifyLeaves ==
    ASSUME AuthTypes, NEW r \in Requests, NEW caller \in {"perp", "verify"}, Verify(r, caller)
    PROVE  \E c \in SweptChallenges :
              /\ challenges' = SweptChallenges \ {c}
              /\ request' = [request EXCEPT ![r] = request'[r]]
              /\ request'[r] \in RequestType /\ request'[r].token = NoOne
              /\ \/ request'[r] = NoRequest
                 \/ /\ request'[r].nonce = c.nonce
                    /\ request'[r].at \in {"sign", "vaultOwner"} /\ request'[r].caller \in {"perp", "verify"}
  <1> USE AuthAssumption, SweepIsSafe, RestingRequest DEF AuthAssumption, AuthTypes
  <1> DEFINE kept(c) == [NoRequest EXCEPT
                 !.at = IF caller = "perp" THEN "sign" ELSE "vaultOwner",
                 !.nonce = c.nonce, !.caller = caller,
                 !.session = [address |-> c.address, expiresAt |-> authClock + TokenTtl]]
  <1>1. PICK c \in SweptChallenges :
           /\ challenges' = Consumed(c)
           /\ request' = [request EXCEPT ![r] =
                 IF caller = "perp" /\ c.address \notin Managers THEN NoRequest ELSE kept(c)]
    BY DEF Verify
  <1>2. c.nonce \in Nonces /\ [address |-> c.address, expiresAt |-> authClock + TokenTtl] \in Session
    BY <1>1 DEF Session
  <1>3. /\ kept(c) \in RequestType /\ kept(c).token = NoOne /\ kept(c).nonce = c.nonce
        /\ kept(c).at \in {"sign", "vaultOwner"} /\ kept(c).caller \in {"perp", "verify"}
    BY <1>2 DEF NoRequest, RequestType, Stages, Asking, Routes
  <1> HIDE DEF kept
  <1>4. /\ request'[r] \in {NoRequest, kept(c)}
        /\ request' = [request EXCEPT ![r] = request'[r]]
    BY <1>1
  <1> QED BY <1>1, <1>3, <1>4 DEF Consumed

LEMMA MintLeaves ==
    ASSUME AuthTypes, NEW r \in Requests, MintSession(r)
    PROVE  /\ request' = [request EXCEPT ![r] = request'[r]]
           /\ \/ request'[r] = NoRequest /\ origin' = origin /\ sessions' = sessions
              \/ \E t \in Tokens :
                    /\ origin[t] = NoOne
                    /\ origin' = [origin EXCEPT ![t] = request[r].nonce]
                    /\ sessions' = [sessions EXCEPT ![t] = request[r].session]
                    /\ request'[r] \in RequestType
                    /\ request'[r].at = "persist" /\ request'[r].token = t /\ request'[r].nonce = NoOne
  <1>1. CASE Finish(r) /\ origin' = origin /\ sessions' = sessions
    BY <1>1 DEF Finish, AuthTypes
  <1>2. CASE \E t \in {u \in Tokens : origin[u] = NoOne} :
               /\ origin' = [origin EXCEPT ![t] = request[r].nonce]
               /\ sessions' = [sessions EXCEPT ![t] = request[r].session]
               /\ request' = [request EXCEPT ![r].at = "persist", ![r].token = t, ![r].nonce = NoOne]
    <2>1. PICK t \in Tokens :
             /\ origin[t] = NoOne
             /\ origin' = [origin EXCEPT ![t] = request[r].nonce]
             /\ sessions' = [sessions EXCEPT ![t] = request[r].session]
             /\ request' = [request EXCEPT ![r].at = "persist", ![r].token = t, ![r].nonce = NoOne]
      BY <1>2
    <2> DEFINE minted == [request[r] EXCEPT !.at = "persist", !.token = t, !.nonce = NoOne]
    <2>2. request' = [request EXCEPT ![r] = minted] /\ request'[r] = minted
      BY <2>1 DEF AuthTypes
    <2>3. /\ minted \in RequestType
          /\ minted.at = "persist" /\ minted.token = t /\ minted.nonce = NoOne
      BY DEF AuthTypes, RequestType, Stages
    <2> HIDE DEF minted
    <2> QED BY <2>1, <2>2, <2>3
  <1> QED BY <1>1, <1>2 DEF MintSession

LEMMA FindLeaves ==
    ASSUME AuthTypes, TokensMinted, NEW r \in Requests, FindStored(r)
    PROVE  /\ request' = [request EXCEPT ![r] = request'[r]]
           /\ request[r].token \in Tokens
           /\ \/ request'[r] = NoRequest
              \/ /\ Live(stored[request[r].token]) /\ request'[r] \in RequestType
                 /\ request'[r].at = "cache" /\ request'[r].token = request[r].token
                 /\ request'[r].nonce = request[r].nonce /\ request'[r].caller = request[r].caller
  <1>1. request[r].token \in Tokens
    BY DEF FindStored, AuthTypes, RequestType, TokensMinted, WithToken
  <1>2. stored[request[r].token] \in Session
    BY <1>1 DEF AuthTypes
  <1> QED BY <1>1, <1>2 DEF FindStored, Finish, AuthTypes, RequestType, Stages

LEMMA CacheLeaves ==
    ASSUME AuthTypes, TokensMinted, NEW r \in Requests, CacheSession(r)
    PROVE  /\ request[r].token \in Tokens /\ request[r].session \in Session
           /\ Holds(request'[r], request[r].token, {"vaultOwner"})
           /\ request' = [request EXCEPT ![r] = request'[r]]
  <1>1. /\ request[r].token \in Tokens /\ request[r].session \in Session
        /\ request[r].caller \in {"perp", "admin"}
    BY DEF CacheSession, AuthTypes, RequestType, TokensMinted, WithToken
  <1> QED BY <1>1, AdmitLeaves DEF CacheSession

(* The caller that gets the owner goes on with what it had, or ends.       *)
LEMMA JudgeLeaves ==
    ASSUME AuthTypes, NEW r \in Requests, NEW owner \in Addresses, Judge(r, owner)
    PROVE  /\ request' = [request EXCEPT ![r] = request'[r]]
           /\ \/ request'[r] = NoRequest
              \/ /\ request'[r] \in RequestType
                 /\ request'[r].token = request[r].token /\ request'[r].nonce = request[r].nonce
                 /\ request'[r].caller = request[r].caller
                 /\ request[r].session.address = owner
                 /\ \/ request'[r].at = "sign" /\ request[r].caller = "verify"
                    \/ request'[r].at = "write" /\ request[r].caller = "admin"
           /\ \/ challenges' = challenges /\ sessions' = sessions
              \/ \E a \in Addresses : CreateChallenge(a)
  <1> DEFINE asker == request[r]
             next  == [asker EXCEPT !.at = Onward[asker.caller], !.answer = NoOwner]
  <1>1. asker \in RequestType /\ NoOwner \in Answer
    BY RestingRequest DEF AuthTypes
  <1>2. DOMAIN Onward = {"verify", "admin"} /\ Onward["verify"] = "sign" /\ Onward["admin"] = "write"
    BY DEF Onward
  <1>3. ASSUME asker.caller \in DOMAIN Onward
        PROVE  /\ next \in RequestType /\ next.token = asker.token /\ next.nonce = asker.nonce
               /\ next.caller = asker.caller
               /\ \/ next.at = "sign" /\ asker.caller = "verify"
                  \/ next.at = "write" /\ asker.caller = "admin"
    <2>1. Onward[asker.caller] \in Stages
      BY <1>2, <1>3 DEF Stages
    <2>2. /\ next \in RequestType /\ next.token = asker.token /\ next.nonce = asker.nonce
          /\ next.caller = asker.caller /\ next.at = Onward[asker.caller]
      BY <1>1, <2>1 DEF RequestType
    <2> QED BY <1>2, <1>3, <2>2
  <1>4. request' = [request EXCEPT ![r] =
               IF owner = asker.session.address /\ asker.caller \in DOMAIN Onward
               THEN next ELSE NoRequest]
    BY DEF Judge
  <1>5. /\ request' = [request EXCEPT ![r] = request'[r]]
        /\ \/ request'[r] = NoRequest
           \/ /\ request'[r] = next
              /\ owner = asker.session.address /\ asker.caller \in DOMAIN Onward
    <2> HIDE DEF next, asker
    <2> QED BY <1>4 DEF AuthTypes
  <1>6. \/ challenges' = challenges /\ sessions' = sessions
        \/ \E a \in Addresses : CreateChallenge(a)
    BY DEF Judge
  <1>7. CASE request'[r] = NoRequest
    BY <1>5, <1>6, <1>7
  <1>8. CASE /\ request'[r] = next
             /\ owner = asker.session.address /\ asker.caller \in DOMAIN Onward
    <2> HIDE DEF next
    <2> QED BY <1>3, <1>5, <1>6, <1>8
  <1> QED BY <1>5, <1>7, <1>8

LEMMA OwnerLeaves ==
    ASSUME AuthTypes, OwnerWasKnown, NEW r \in Requests,
           VaultOwner(r) \/ AnswerOwner(r) \/ TakeOwner(r)
    PROVE  /\ request[r].at \in Asking
           /\ request' = [request EXCEPT ![r] = request'[r]]
           /\ \/ request'[r] = NoRequest
              \/ /\ request'[r] \in RequestType
                 /\ request'[r].token = request[r].token /\ request'[r].nonce = request[r].nonce
                 /\ request'[r].caller = request[r].caller
                 /\ \/ request'[r].at \in {"readContract", "answered"}
                    \/ request'[r].at = "sign" /\ request[r].caller = "verify"
                    \/ request'[r].at = "write" /\ request[r].caller = "admin"
           /\ \/ challenges' = challenges /\ sessions' = sessions
              \/ \E a \in Addresses : CreateChallenge(a)
           /\ ownerCache' \in Answer
           /\ UNCHANGED <<authClock, stored, ownerOf, origin, ended, lostAt>>
  <1> USE RestingRequest DEF Asking
  <1>1. request[r] \in RequestType /\ request \in [Requests -> RequestType]
    BY DEF AuthTypes
  <1>2. CASE VaultOwner(r) /\ OwnerIsFresh
    <2>1. ownerCache.owner \in Addresses
      BY <1>2 DEF OwnerIsFresh, AuthTypes, Answer
    <2> QED BY <1>2, <2>1, JudgeLeaves DEF VaultOwner, AuthTypes
  <1>3. CASE VaultOwner(r) /\ ~OwnerIsFresh
    BY <1>1, <1>3 DEF VaultOwner, AuthTypes, RequestType, Stages
  <1>4. CASE AnswerOwner(r)
    <2>1. [at |-> authClock, owner |-> ownerOf] \in Answer
      BY DEF Answer, AuthTypes
    <2> QED BY <1>1, <1>4, <2>1 DEF AnswerOwner, Finish, AuthTypes, RequestType, Stages
  <1>5. CASE TakeOwner(r)
    <2>1. request[r].answer.owner \in Addresses
      BY <1>5 DEF TakeOwner, OwnerWasKnown
    <2>2. ownerCache' \in Answer
      BY <1>5, <2>1 DEF TakeOwner, AuthTypes, Answer
    <2> QED BY <1>5, <2>1, <2>2, JudgeLeaves DEF TakeOwner
  <1> QED BY <1>2, <1>3, <1>4, <1>5

LEMMA AskLeaves ==
    ASSUME AuthTypes, NEW r \in Requests, NEW caller \in {"challenge", "config"},
           NEW a \in Addresses \cup {NoOne}, AskForOwner(r, caller, a)
    PROVE  /\ request' = [request EXCEPT ![r] = request'[r]]
           /\ request'[r] \in RequestType /\ request'[r].token = NoOne /\ request'[r].nonce = NoOne
           /\ request'[r].at = "vaultOwner" /\ request'[r].caller = caller
  BY DEF AskForOwner, AuthTypes, NoRequest, NoOwner, None, RequestType, Session, Answer, Stages,
         Asking, Routes

-----------------------------------------------------------------------------
(* The types, action by action.                                            *)
LEMMA TypesKept ==
    ASSUME AuthTypes, TokensMinted, OwnerWasKnown, AuthNext
    PROVE  AuthTypes'
  <1> USE AuthAssumption, SweepIsSafe, RestingRequest DEF AuthAssumption
  <1> DEFINE OneRequest == \E r \in Requests : /\ request'[r] \in RequestType
                                               /\ request' = [request EXCEPT ![r] = request'[r]]
  <1>0. ASSUME OneRequest PROVE request' \in [Requests -> RequestType]
    BY <1>0 DEF AuthTypes
  <1> HIDE DEF OneRequest
  <1>1. ASSUME NEW a \in Addresses, OwnerChanges(a) PROVE AuthTypes'
    BY <1>1 DEF OwnerChanges, AuthTypes
  <1>2. ASSUME NEW a \in Addresses, PerpChallenge(a) PROVE AuthTypes'
    BY <1>2, ChallengeIsSafe DEF PerpChallenge, AuthTypes
  <1>3. ASSUME NEW r \in Requests, NEW caller \in {"perp", "verify"}, Verify(r, caller)
        PROVE AuthTypes'
    <2>1. OneRequest /\ challenges' \subseteq challenges
      BY <1>3, VerifyLeaves DEF OneRequest
    <2> QED BY <1>0, <1>3, <2>1 DEF Verify, AuthTypes
  <1>4. ASSUME NEW r \in Requests, NEW caller \in {"perp", "admin"}, NEW t \in Tokens,
               SessionFor(r, t, caller) PROVE AuthTypes'
    <2>1. OneRequest
      BY <1>4, SessionForLeaves DEF OneRequest, Holds
    <2> QED BY <1>0, <1>4, <2>1 DEF SessionFor, AuthTypes
  <1>5. ASSUME NEW r \in Requests, MintSession(r) PROVE AuthTypes'
    <2>1. OneRequest
      BY <1>5, MintLeaves DEF OneRequest
    <2>2. request[r].session \in Session /\ request[r].nonce \in Nonces \cup {NoOne}
      BY DEF AuthTypes, RequestType
    <2>3. sessions' \in [Tokens -> Session] /\ origin' \in [Tokens -> Nonces \cup {NoOne}]
      BY <1>5, <2>2, MintLeaves DEF AuthTypes
    <2> QED BY <1>0, <1>5, <2>1, <2>3 DEF MintSession, AuthTypes
  <1>6. ASSUME NEW r \in Requests, Persist(r) \/ WriteConfig(r) PROVE AuthTypes'
    BY <1>6 DEF Persist, WriteConfig, Finish, AuthTypes, RequestType
  <1>7. ASSUME NEW r \in Requests, FindStored(r) PROVE AuthTypes'
    <2>1. OneRequest
      BY <1>7, FindLeaves DEF OneRequest
    <2> QED BY <1>0, <1>7, <2>1 DEF FindStored, AuthTypes
  <1>8. ASSUME NEW r \in Requests, CacheSession(r) PROVE AuthTypes'
    <2>1. OneRequest /\ request[r].session \in Session
      BY <1>8, CacheLeaves DEF OneRequest, Holds
    <2> QED BY <1>0, <1>8, <2>1 DEF CacheSession, AuthTypes
  <1>9. ASSUME NEW r \in Requests, NEW t \in Tokens, Revoke(r, t) PROVE AuthTypes'
    <2>1. [NoRequest EXCEPT !.at = "forget", !.token = t] \in RequestType
      BY DEF RequestType, Stages, NoRequest
    <2> QED BY <1>9, <2>1 DEF Revoke, AuthTypes
  <1>10. ASSUME NEW r \in Requests, Forget(r) PROVE AuthTypes'
    <2>1. request[r].token \in Tokens
      BY <1>10 DEF Forget, AuthTypes, RequestType, TokensMinted, WithToken
    <2>2. ended' \subseteq Tokens
      BY <1>10, <2>1 DEF Forget, AuthTypes
    <2>3. stored' \in [Tokens -> Session]
      BY <1>10 DEF Forget, Forgotten, AuthTypes
    <2> QED BY <1>10, <2>2, <2>3 DEF Forget, Finish, AuthTypes
  <1>11. ASSUME NEW r \in Requests, VaultOwner(r) \/ AnswerOwner(r) \/ TakeOwner(r)
         PROVE AuthTypes'
    <2>1. OneRequest /\ ownerCache' \in Answer
      BY <1>11, OwnerLeaves DEF OneRequest
    <2>2. /\ challenges' \subseteq [nonce : Nonces, address : Addresses, expiresAt : Nat]
          /\ sessions' \in [Tokens -> Session]
      BY <1>11, OwnerLeaves, ChallengeIsSafe DEF AuthTypes
    <2>3. UNCHANGED <<authClock, stored, ownerOf, origin, ended, lostAt>>
      BY <1>11, OwnerLeaves
    <2> QED BY <1>0, <2>1, <2>2, <2>3 DEF AuthTypes
  <1>12. ASSUME NEW r \in Requests, NEW caller \in {"challenge", "config"},
                NEW a \in Addresses \cup {NoOne}, AskForOwner(r, caller, a) PROVE AuthTypes'
    <2>1. OneRequest
      BY <1>12, AskLeaves DEF OneRequest
    <2> QED BY <1>0, <1>12, <2>1 DEF AskForOwner, AuthTypes
  <1>13. ASSUME NEW t \in Tokens, TtlIndex(t) PROVE AuthTypes'
    BY <1>13 DEF TtlIndex, AuthTypes
  <1>14. ASSUME Hour \/ Restart PROVE AuthTypes'
    BY <1>14 DEF Hour, Restart, AuthTypes
  <1> QED BY <1>1, <1>2, <1>3, <1>4, <1>5, <1>6, <1>7, <1>8, <1>9, <1>10, <1>11, <1>12, <1>13, <1>14
             DEF AuthNext

-----------------------------------------------------------------------------
(* Nonces.  Only two steps move one; for the others it is enough that      *)
(* challenges go, or one is made with an unused nonce, and that requests   *)
(* take none.                                                              *)
LEMMA NoncesStay ==
    ASSUME AuthTypes, NoncesApart, ChallengeOpensOneSession, origin' = origin,
           challenges' \subseteq challenges \/ \E a \in Addresses : CreateChallenge(a),
           \A r \in Requests : /\ request'[r].nonce \in {NoOne, request[r].nonce}
                               /\ WithNonce(request'[r]) => request'[r].nonce # NoOne
    PROVE  NoncesApart' /\ ChallengeOpensOneSession'
  <1> USE AuthAssumption DEF AuthAssumption, AuthTypes
  <1>1. ChallengeOpensOneSession'
    BY DEF ChallengeOpensOneSession
  <1>2. CASE challenges' \subseteq challenges
    BY <1>1, <1>2 DEF NoncesApart, WithNonce
  <1>3. CASE \E a \in Addresses : CreateChallenge(a)
    <2>1. PICK n \in UnusedNonces : \A c \in challenges' : c \in challenges \/ c.nonce = n
      BY <1>3, ChallengeIsSafe, SweepIsSafe
    <2>2. \A c, d \in challenges' : c.nonce = d.nonce => c = d
      BY <1>3, ChallengeIsSafe, SweepIsSafe DEF UnusedNonces, NoncesApart
    <2>3. /\ n \in Nonces /\ \A t \in Tokens : origin[t] # n
          /\ \A r \in Requests : request[r].nonce # n
      BY <2>1 DEF UnusedNonces
    <2>4. \A t \in Tokens : \A c \in challenges' : c.nonce # origin'[t]
      BY <2>1, <2>3 DEF NoncesApart
    <2>5. ASSUME NEW r \in Requests, request'[r].nonce # NoOne
          PROVE  /\ \A c \in challenges' : c.nonce # request'[r].nonce
                 /\ \A t \in Tokens : origin'[t] # request'[r].nonce
                 /\ \A q \in Requests \ {r} : request'[q].nonce # request'[r].nonce
      BY <2>1, <2>3, <2>5 DEF NoncesApart
    <2> QED BY <1>1, <2>2, <2>4, <2>5 DEF NoncesApart, WithNonce
  <1> QED BY <1>2, <1>3

(* The same, said of the one request that takes the step.                  *)
LEMMA NoncesStayOf ==
    ASSUME AuthTypes, NoncesApart, ChallengeOpensOneSession, origin' = origin,
           challenges' \subseteq challenges \/ \E a \in Addresses : CreateChallenge(a),
           NEW r \in Requests, request' = [request EXCEPT ![r] = request'[r]],
           request'[r].nonce \in {NoOne, request[r].nonce},
           WithNonce(request'[r]) => request'[r].nonce # NoOne
    PROVE  NoncesApart' /\ ChallengeOpensOneSession'
  <1>1. \A q \in Requests \ {r} : request'[q] = request[q]
    BY DEF AuthTypes
  <1>2. \A q \in Requests : /\ request'[q].nonce \in {NoOne, request[q].nonce}
                            /\ WithNonce(request'[q]) => request'[q].nonce # NoOne
    BY <1>1 DEF NoncesApart
  <1> QED BY <1>2, NoncesStay

LEMMA NoncesKept ==
    ASSUME AuthTypes, TokensMinted, OwnerWasKnown, NoncesApart, ChallengeOpensOneSession, AuthNext
    PROVE  NoncesApart' /\ ChallengeOpensOneSession'
  <1> USE RestingRequest
  <1> DEFINE Goal == NoncesApart' /\ ChallengeOpensOneSession'
  <1>1. ASSUME NEW a \in Addresses, PerpChallenge(a) PROVE Goal
    BY <1>1, NoncesStay DEF PerpChallenge, NoncesApart
  <1>2. ASSUME NEW r \in Requests, NEW caller \in {"perp", "verify"}, Verify(r, caller)
        PROVE Goal
    <2>1. PICK c \in SweptChallenges :
             /\ challenges' = SweptChallenges \ {c}
             /\ request' = [request EXCEPT ![r] = request'[r]]
             /\ request'[r] \in RequestType
             /\ \/ request'[r] = NoRequest
                \/ /\ request'[r].nonce = c.nonce
                   /\ request'[r].at \in {"sign", "vaultOwner"} /\ request'[r].caller \in {"perp", "verify"}
      BY <1>2, VerifyLeaves
    <2>2. c \in challenges /\ c.nonce \in Nonces /\ challenges' \subseteq challenges \ {c}
      BY <2>1, SweepIsSafe DEF AuthTypes
    <2>3. \A q \in Requests \ {r} : request'[q] = request[q]
      BY <2>1 DEF AuthTypes
    <2>4. origin' = origin
      BY <1>2 DEF Verify
    <2>5. CASE request'[r] = NoRequest
      BY <2>1, <2>2, <2>4, <2>5, NoncesStayOf
    <2>6. CASE request'[r].nonce = c.nonce
      <3>1. c.nonce # NoOne
        BY <2>2, AuthAssumption DEF AuthAssumption
      <3> QED BY <2>2, <2>3, <2>4, <2>6, <3>1 DEF NoncesApart, ChallengeOpensOneSession
    <2> QED BY <2>1, <2>5, <2>6
  <1>3. ASSUME NEW r \in Requests, NEW caller \in {"perp", "admin"}, NEW t \in Tokens,
               SessionFor(r, t, caller) PROVE Goal
    <2>1. challenges' \subseteq challenges /\ origin' = origin
      BY <1>3, SweepIsSafe DEF SessionFor
    <2>2. /\ request' = [request EXCEPT ![r] = request'[r]]
          /\ request'[r].nonce = NoOne /\ ~WithNonce(request'[r])
      BY <1>3, SessionForLeaves DEF Holds, WithNonce, Asking
    <2> QED BY <2>1, <2>2, NoncesStayOf
  <1>4. ASSUME NEW r \in Requests, MintSession(r) PROVE Goal
    <2>1. challenges' = challenges /\ request[r].at = "sign"
      BY <1>4 DEF MintSession
    <2>2. request' = [request EXCEPT ![r] = request'[r]]
      BY <1>4, MintLeaves
    <2>3. CASE request'[r] = NoRequest /\ origin' = origin
      BY <2>1, <2>2, <2>3, NoncesStayOf
    <2>4. CASE \E t \in Tokens : /\ origin[t] = NoOne
                                 /\ origin' = [origin EXCEPT ![t] = request[r].nonce]
                                 /\ request'[r].at = "persist" /\ request'[r].nonce = NoOne
      <3>1. PICK t \in Tokens : /\ origin[t] = NoOne
                                /\ origin' = [origin EXCEPT ![t] = request[r].nonce]
                                /\ request'[r].at = "persist" /\ request'[r].nonce = NoOne
        BY <2>4
      <3>2. request[r].nonce # NoOne /\ ~WithNonce(request'[r])
        BY <2>1, <3>1 DEF NoncesApart, WithNonce, Asking
      <3>3. \A q \in Requests \ {r} : request'[q] = request[q]
        BY <2>2 DEF AuthTypes
      <3>4. \A u \in Tokens : origin'[u] = IF u = t THEN request[r].nonce ELSE origin[u]
        BY <3>1 DEF AuthTypes
      <3>5. ChallengeOpensOneSession'
        BY <3>2, <3>4 DEF NoncesApart, ChallengeOpensOneSession
      <3>6. NoncesApart'
        BY <2>1, <3>1, <3>2, <3>3, <3>4 DEF NoncesApart
      <3> QED BY <3>5, <3>6
    <2> QED BY <1>4, <2>3, <2>4, MintLeaves
  <1>5. ASSUME NEW r \in Requests, Persist(r) \/ Forget(r) \/ WriteConfig(r) PROVE Goal
    <2>1. challenges' = challenges /\ origin' = origin
      BY <1>5 DEF Persist, Forget, WriteConfig
    <2>2. request' = [request EXCEPT ![r] = request'[r]] /\ request'[r] = NoRequest
      BY <1>5 DEF Persist, Forget, WriteConfig, Finish, AuthTypes
    <2> QED BY <2>1, <2>2, NoncesStayOf
  <1>6. ASSUME NEW r \in Requests, FindStored(r) PROVE Goal
    <2>1. challenges' = challenges /\ origin' = origin
      BY <1>6 DEF FindStored
    <2>2. /\ request' = [request EXCEPT ![r] = request'[r]]
          /\ request'[r].nonce \in {NoOne, request[r].nonce} /\ ~WithNonce(request'[r])
      BY <1>6, FindLeaves DEF WithNonce, Asking
    <2> QED BY <2>1, <2>2, NoncesStayOf
  <1>7. ASSUME NEW r \in Requests, CacheSession(r) PROVE Goal
    <2>1. challenges' = challenges /\ origin' = origin
      BY <1>7 DEF CacheSession
    <2>2. /\ request' = [request EXCEPT ![r] = request'[r]]
          /\ request'[r].nonce = NoOne /\ ~WithNonce(request'[r])
      BY <1>7, CacheLeaves DEF Holds, WithNonce, Asking
    <2> QED BY <2>1, <2>2, NoncesStayOf
  <1>8. ASSUME NEW r \in Requests, VaultOwner(r) \/ AnswerOwner(r) \/ TakeOwner(r) PROVE Goal
    <2>1. /\ origin' = origin
          /\ challenges' \subseteq challenges \/ \E a \in Addresses : CreateChallenge(a)
      BY <1>8, OwnerLeaves
    <2>2. /\ request' = [request EXCEPT ![r] = request'[r]]
          /\ request'[r].nonce \in {NoOne, request[r].nonce}
      BY <1>8, OwnerLeaves
    <2>3. WithNonce(request'[r]) => request'[r].nonce # NoOne
      BY <1>8, OwnerLeaves DEF NoncesApart, WithNonce, Asking
    <2> QED BY <2>1, <2>2, <2>3, NoncesStayOf
  <1>9. ASSUME NEW r \in Requests, NEW caller \in {"challenge", "config"},
               NEW a \in Addresses \cup {NoOne}, AskForOwner(r, caller, a) PROVE Goal
    <2>1. challenges' = challenges /\ origin' = origin
      BY <1>9 DEF AskForOwner
    <2>2. /\ request' = [request EXCEPT ![r] = request'[r]]
          /\ request'[r].nonce = NoOne /\ ~WithNonce(request'[r])
      BY <1>9, AskLeaves DEF WithNonce
    <2> QED BY <2>1, <2>2, NoncesStayOf
  <1>10. ASSUME NEW r \in Requests, NEW t \in Tokens, Revoke(r, t) PROVE Goal
    <2>1. challenges' = challenges /\ origin' = origin
      BY <1>10 DEF Revoke
    <2>2. /\ request' = [request EXCEPT ![r] = request'[r]]
          /\ request'[r].nonce = NoOne /\ ~WithNonce(request'[r])
      BY <1>10 DEF Revoke, NoRequest, AuthTypes, WithNonce, Asking
    <2> QED BY <2>1, <2>2, NoncesStayOf
  <1>11. ASSUME Restart PROVE Goal
    BY <1>11, NoncesStay DEF Restart
  <1>12. ASSUME UNCHANGED <<challenges, request, origin>> PROVE Goal
    BY <1>12 DEF NoncesApart, ChallengeOpensOneSession
  <1> QED BY <1>1, <1>2, <1>3, <1>4, <1>5, <1>6, <1>7, <1>8, <1>9, <1>10, <1>11, <1>12
             DEF AuthNext, OwnerChanges, TtlIndex, Hour

-----------------------------------------------------------------------------
(* Tokens.  What no step may do, said of one request and the maps, is      *)
(* enough for a token that was signed out to stay out.                     *)
TokenInv == TokensMinted /\ SignedOutStaysOut

LEMMA TokensLeftAlone ==
    ASSUME AuthTypes, TokenInv, NEW r \in Requests,
           origin' = origin, ended' = ended,
           \A t \in ended : sessions'[t] = None /\ stored'[t] = None,
           request' = [request EXCEPT ![r] = request'[r]],
           \/ request'[r] = NoRequest
           \/ /\ WithToken(request'[r]) => request'[r].token # NoOne
              /\ request'[r].token # NoOne => /\ request'[r].token \in Tokens
                                              /\ origin[request'[r].token] # NoOne
              /\ request'[r].token \in ended => request'[r].at \in {"find", "forget"}
              /\ request'[r].at \in {"find", "cache"} => request'[r].caller \in {"perp", "admin"}
    PROVE  TokenInv'
  <1>1. \A q \in Requests \ {r} : request'[q] = request[q]
    BY DEF AuthTypes
  <1>2. /\ WithToken(request'[r]) => request'[r].token # NoOne
        /\ request'[r].token # NoOne => /\ request'[r].token \in Tokens
                                        /\ origin[request'[r].token] # NoOne
        /\ request'[r].token \in ended => request'[r].at \in {"find", "forget"}
        /\ request'[r].at \in {"find", "cache"} => request'[r].caller \in {"perp", "admin"}
    BY RestingRequest, AuthAssumption DEF AuthAssumption, AuthTypes
  <1>3. TokensMinted'
    BY <1>1, <1>2 DEF TokenInv, TokensMinted
  <1>4. SignedOutStaysOut'
    BY <1>1, <1>2 DEF TokenInv, SignedOutStaysOut
  <1> QED BY <1>3, <1>4 DEF TokenInv

LEMMA TokensKept ==
    ASSUME AuthTypes, NoncesApart, OwnerWasKnown, TokenInv, AuthNext
    PROVE  TokenInv'
  <1> USE RestingRequest
  <1>0. TokensMinted /\ \A t \in ended : t \in Tokens /\ sessions[t] = None /\ stored[t] = None
    BY DEF TokenInv, SignedOutStaysOut, AuthTypes
  <1>1. ASSUME NEW a \in Addresses, PerpChallenge(a) PROVE TokenInv'
    BY <1>1, ChallengeIsSafe DEF PerpChallenge, TokenInv, TokensMinted, SignedOutStaysOut, AuthTypes
  <1>2. ASSUME NEW r \in Requests, NEW caller \in {"perp", "verify"}, Verify(r, caller)
        PROVE TokenInv'
    <2>1. /\ origin' = origin /\ ended' = ended
          /\ \A t \in ended : sessions'[t] = None /\ stored'[t] = None
      BY <1>0, <1>2, SweepIsSafe DEF Verify
    <2>2. /\ request' = [request EXCEPT ![r] = request'[r]]
          /\ \/ request'[r] = NoRequest
             \/ /\ request'[r].token = NoOne /\ request'[r].at \in {"sign", "vaultOwner"}
                /\ request'[r].caller \in {"perp", "verify"}
      BY <1>2, VerifyLeaves
    <2>3. NoOne \notin ended
      BY AuthAssumption DEF AuthAssumption, AuthTypes
    <2> QED BY <2>1, <2>2, <2>3, TokensLeftAlone DEF WithToken, Asking
  <1>3. ASSUME NEW r \in Requests, NEW caller \in {"perp", "admin"}, NEW t \in Tokens,
               SessionFor(r, t, caller) PROVE TokenInv'
    <2>1. /\ origin' = origin /\ ended' = ended /\ origin[t] # NoOne
          /\ \A u \in ended : sessions'[u] = None /\ stored'[u] = None
      BY <1>0, <1>3, SweepIsSafe DEF SessionFor
    <2>2. request' = [request EXCEPT ![r] = request'[r]]
      BY <1>3, SessionForLeaves
    <2>3. CASE Live(sessions[t])
      <3>1. t \notin ended
        BY <1>0, <2>3 DEF Live, None, AuthTypes
      <3>2. \/ request'[r] = NoRequest
            \/ request'[r].token = t /\ request'[r].at = "vaultOwner"
        BY <1>3, <2>3, SessionForLeaves DEF Holds
      <3>3. t # NoOne
        BY AuthAssumption DEF AuthAssumption
      <3> QED BY <2>1, <2>2, <3>1, <3>2, <3>3, TokensLeftAlone
    <2>4. CASE ~Live(sessions[t])
      <3>1. \/ request'[r] = NoRequest
            \/ /\ request'[r].token = t /\ request'[r].at = "find"
               /\ request'[r].caller \in {"perp", "admin"}
        BY <1>3, <2>4, SessionForLeaves DEF Holds
      <3>2. t # NoOne
        BY AuthAssumption DEF AuthAssumption
      <3> QED BY <2>1, <2>2, <3>1, <3>2, TokensLeftAlone
    <2> QED BY <2>3, <2>4
  <1>4. ASSUME NEW r \in Requests, MintSession(r) PROVE TokenInv'
    <2>1. stored' = stored /\ ended' = ended /\ request' = [request EXCEPT ![r] = request'[r]]
      BY <1>4, MintLeaves DEF MintSession
    <2>2. CASE request'[r] = NoRequest /\ origin' = origin /\ sessions' = sessions
      BY <1>0, <2>1, <2>2, TokensLeftAlone
    <2>3. CASE \E t \in Tokens :
                  /\ origin[t] = NoOne
                  /\ origin' = [origin EXCEPT ![t] = request[r].nonce]
                  /\ sessions' = [sessions EXCEPT ![t] = request[r].session]
                  /\ request'[r].at = "persist" /\ request'[r].token = t
      <3>1. PICK t \in Tokens :
               /\ origin[t] = NoOne
               /\ origin' = [origin EXCEPT ![t] = request[r].nonce]
               /\ sessions' = [sessions EXCEPT ![t] = request[r].session]
               /\ request'[r].at = "persist" /\ request'[r].token = t
        BY <2>3
      <3>2. request[r].nonce # NoOne /\ t \notin ended
        BY <1>0, <1>4, <3>1 DEF MintSession, NoncesApart, WithNonce, TokensMinted
      <3>3. \A q \in Requests \ {r} : request'[q] = request[q]
        BY <2>1 DEF AuthTypes
      <3>4. \A u \in Tokens : /\ origin[u] # NoOne => origin'[u] = origin[u]
                              /\ u # t => sessions'[u] = sessions[u]
        BY <3>1 DEF AuthTypes
      <3>5. origin'[t] # NoOne /\ t # NoOne
        BY <3>1, <3>2, AuthAssumption DEF AuthAssumption, AuthTypes
      <3>6. \A q \in Requests : request[q].token \in Tokens \cup {NoOne}
        BY DEF AuthTypes, RequestType
      <3>7. TokensMinted'
        BY <1>0, <2>1, <3>1, <3>3, <3>4, <3>5, <3>6 DEF TokensMinted
      <3>8. SignedOutStaysOut'
        BY <1>0, <2>1, <3>1, <3>2, <3>3, <3>4 DEF TokenInv, SignedOutStaysOut
      <3> QED BY <3>7, <3>8 DEF TokenInv
    <2> QED BY <1>4, <2>2, <2>3, MintLeaves
  <1>5. ASSUME NEW r \in Requests, Persist(r) \/ WriteConfig(r) PROVE TokenInv'
    <2>1. /\ request' = [request EXCEPT ![r] = request'[r]] /\ request'[r] = NoRequest
          /\ origin' = origin /\ ended' = ended
      BY <1>5 DEF Persist, WriteConfig, Finish, AuthTypes
    <2>2. request[r].token \notin ended
      BY <1>5 DEF Persist, WriteConfig, TokenInv, SignedOutStaysOut
    <2>3. \A t \in ended : sessions'[t] = None /\ stored'[t] = None
      BY <1>0, <1>5, <2>2 DEF Persist, WriteConfig, AuthTypes
    <2> QED BY <2>1, <2>3, TokensLeftAlone
  <1>6. ASSUME NEW r \in Requests, FindStored(r) PROVE TokenInv'
    <2>1. /\ origin' = origin /\ ended' = ended
          /\ \A t \in ended : sessions'[t] = None /\ stored'[t] = None
          /\ request' = [request EXCEPT ![r] = request'[r]]
      BY <1>0, <1>6, FindLeaves DEF FindStored
    <2>2. /\ request[r].token \in Tokens /\ request[r].token # NoOne
          /\ origin[request[r].token] # NoOne /\ request[r].caller \in {"perp", "admin"}
      BY <1>0, <1>6, FindLeaves, AuthAssumption DEF FindStored, TokensMinted, AuthAssumption
    <2>3. CASE request'[r] = NoRequest
      BY <2>1, <2>3, TokensLeftAlone
    <2>4. CASE Live(stored[request[r].token]) /\ request'[r].token = request[r].token
                 /\ request'[r].caller = request[r].caller
      <3>1. request[r].token \notin ended
        BY <1>0, <2>2, <2>4 DEF Live, None, AuthTypes
      <3> QED BY <2>1, <2>2, <2>4, <3>1, TokensLeftAlone
    <2> QED BY <1>0, <1>6, <2>3, <2>4, FindLeaves
  <1>7. ASSUME NEW r \in Requests, CacheSession(r) PROVE TokenInv'
    <2>1. /\ origin' = origin /\ ended' = ended /\ stored' = stored
          /\ request' = [request EXCEPT ![r] = request'[r]]
      BY <1>0, <1>7, CacheLeaves DEF CacheSession
    <2>2. /\ request[r].token \in Tokens \ ended /\ request[r].token # NoOne
          /\ origin[request[r].token] # NoOne
      BY <1>0, <1>7, CacheLeaves, AuthAssumption
         DEF CacheSession, TokenInv, TokensMinted, SignedOutStaysOut, AuthAssumption
    <2>3. \A t \in ended : sessions'[t] = None /\ stored'[t] = None
      BY <1>0, <1>7, <2>1, <2>2 DEF CacheSession, AuthTypes
    <2>4. \/ request'[r] = NoRequest
          \/ request'[r].token = request[r].token /\ request'[r].at = "vaultOwner"
      BY <1>0, <1>7, CacheLeaves DEF Holds
    <2> QED BY <2>1, <2>2, <2>3, <2>4, TokensLeftAlone
  <1>8. ASSUME NEW r \in Requests, VaultOwner(r) \/ AnswerOwner(r) \/ TakeOwner(r)
        PROVE TokenInv'
    <2>1. /\ origin' = origin /\ ended' = ended /\ stored' = stored
          /\ request' = [request EXCEPT ![r] = request'[r]] /\ request[r].at \in Asking
      BY <1>8, OwnerLeaves
    <2>2. \A t \in ended : sessions'[t] = None /\ stored'[t] = None
      BY <1>0, <1>8, <2>1, OwnerLeaves, ChallengeIsSafe
    <2>3. request[r].token \notin ended
      BY <2>1 DEF TokenInv, SignedOutStaysOut, Asking
    <2>4. request[r].token \in Tokens \cup {NoOne}
      BY DEF AuthTypes, RequestType
    <2>5. CASE request'[r] = NoRequest
      BY <2>1, <2>2, <2>5, TokensLeftAlone
    <2>6. CASE request'[r] # NoRequest
      <3>1. /\ request'[r].token = request[r].token
            /\ request'[r].caller = request[r].caller
            /\ \/ request'[r].at \in {"readContract", "answered"}
               \/ request'[r].at = "sign" /\ request[r].caller = "verify"
               \/ request'[r].at = "write" /\ request[r].caller = "admin"
        BY <1>8, <2>6, OwnerLeaves
      <3>2. WithToken(request'[r]) => WithToken(request[r])
        BY <2>1, <3>1 DEF WithToken, Asking
      <3>3. /\ WithToken(request[r]) => request[r].token # NoOne
            /\ request[r].token # NoOne => origin[request[r].token] # NoOne
        BY <1>0 DEF TokensMinted
      <3> QED BY <2>1, <2>2, <2>3, <2>4, <3>1, <3>2, <3>3, TokensLeftAlone
    <2> QED BY <2>5, <2>6
  <1>9. ASSUME NEW r \in Requests, NEW caller \in {"challenge", "config"},
               NEW a \in Addresses \cup {NoOne}, AskForOwner(r, caller, a) PROVE TokenInv'
    <2>1. /\ origin' = origin /\ ended' = ended
          /\ \A t \in ended : sessions'[t] = None /\ stored'[t] = None
      BY <1>0, <1>9 DEF AskForOwner
    <2>2. /\ request' = [request EXCEPT ![r] = request'[r]]
          /\ request'[r].token = NoOne /\ request'[r].at = "vaultOwner" /\ request'[r].caller # "admin"
      BY <1>9, AskLeaves
    <2>3. NoOne \notin ended
      BY AuthAssumption DEF AuthAssumption, AuthTypes
    <2> QED BY <2>1, <2>2, <2>3, TokensLeftAlone DEF WithToken, Asking
  <1>10. ASSUME NEW r \in Requests, NEW t \in Tokens, Revoke(r, t) PROVE TokenInv'
    <2>1. /\ origin' = origin /\ ended' = ended /\ origin[t] # NoOne
          /\ \A u \in ended : sessions'[u] = None /\ stored'[u] = None
      BY <1>0, <1>10 DEF Revoke, AuthTypes
    <2>2. /\ request' = [request EXCEPT ![r] = request'[r]]
          /\ request'[r].token = t /\ request'[r].at = "forget"
      BY <1>10 DEF Revoke, NoRequest, AuthTypes
    <2>3. t # NoOne
      BY AuthAssumption DEF AuthAssumption
    <2> QED BY <2>1, <2>2, <2>3, TokensLeftAlone
  <1>11. ASSUME NEW r \in Requests, Forget(r) PROVE TokenInv'
    <2>1. /\ request[r].token \in Tokens /\ origin[request[r].token] # NoOne
          /\ request[r].at = "forget"
      BY <1>0, <1>11 DEF Forget, TokensMinted, WithToken, AuthTypes, RequestType
    <2>2. /\ request'[r] = NoRequest /\ request' = [request EXCEPT ![r] = request'[r]]
          /\ origin' = origin /\ sessions' = sessions
      BY <1>11 DEF Forget, Finish, AuthTypes
    <2>3. stored' \in {stored, [stored EXCEPT ![request[r].token] = None]}
      BY <1>11 DEF Forget, Forgotten
    <2>4. \/ ended' = ended
          \/ /\ ended' = ended \cup {request[r].token} /\ Alone(r)
             /\ sessions[request[r].token] = None
             /\ stored' = [stored EXCEPT ![request[r].token] = None]
      BY <1>11 DEF Forget, Forgotten
    <2>5. \A t \in ended : sessions'[t] = None /\ stored'[t] = None
      BY <1>0, <2>2, <2>3 DEF AuthTypes
    <2>6. CASE ended' = ended
      BY <2>2, <2>5, <2>6, TokensLeftAlone
    <2>7. CASE /\ ended' = ended \cup {request[r].token} /\ Alone(r)
               /\ sessions[request[r].token] = None
               /\ stored' = [stored EXCEPT ![request[r].token] = None]
      <3>1. \A q \in Requests \ {r} :
               request'[q] = request[q] /\ request'[q].token # request[r].token
        BY <2>2, <2>7 DEF Alone, AuthTypes
      <3>2. request'[r].token = NoOne /\ NoOne # request[r].token
        BY <2>1, <2>2, AuthAssumption DEF AuthAssumption
      <3>3. TokensMinted'
        BY <1>0, <2>1, <2>2, <2>7, <3>1, <3>2 DEF TokensMinted
      <3>4. stored'[request[r].token] = None
        BY <2>1, <2>7 DEF AuthTypes
      <3>5. /\ \A t \in ended' : sessions'[t] = None /\ stored'[t] = None
            /\ \A t \in ended' : t # NoOne
        BY <1>0, <2>1, <2>2, <2>5, <2>7, <3>2, <3>4, AuthAssumption DEF AuthAssumption
      <3>6. ASSUME NEW t \in ended', NEW q \in Requests, request'[q].token = t
            PROVE  request'[q].at \in {"find", "forget"}
        BY <2>7, <3>1, <3>2, <3>5, <3>6 DEF TokenInv, SignedOutStaysOut
      <3>7. SignedOutStaysOut'
        BY <3>5, <3>6 DEF SignedOutStaysOut
      <3> QED BY <3>3, <3>7 DEF TokenInv
    <2> QED BY <2>4, <2>6, <2>7
  <1>12. ASSUME NEW t \in Tokens, TtlIndex(t) PROVE TokenInv'
    BY <1>12 DEF TtlIndex, TokenInv, TokensMinted, SignedOutStaysOut, AuthTypes
  <1>13. ASSUME Restart PROVE TokenInv'
    BY <1>0, <1>13, AuthAssumption
       DEF Restart, TokenInv, TokensMinted, SignedOutStaysOut, AuthTypes, AuthAssumption
  <1>14. ASSUME UNCHANGED <<sessions, stored, request, origin, ended>> PROVE TokenInv'
    BY <1>14 DEF TokenInv, TokensMinted, SignedOutStaysOut
  <1> QED BY <1>1, <1>2, <1>3, <1>4, <1>5, <1>6, <1>7, <1>8, <1>9, <1>10, <1>11, <1>12, <1>13, <1>14
             DEF AuthNext, OwnerChanges, Hour

-----------------------------------------------------------------------------
(* The owner.  A step that asks no chain leaves what is known of it; only  *)
(* an answer comes to a request.                                           *)
LEMMA OwnerLeftAlone ==
    ASSUME AuthTypes, OwnerWasKnown,
           UNCHANGED <<authClock, ownerOf, ownerCache, lostAt>>,
           \A r \in Requests : request'[r].at = "answered" => request'[r] = request[r]
    PROVE  OwnerWasKnown'
  BY DEF OwnerWasKnown

LEMMA OwnerKept ==
    ASSUME AuthTypes, TokensMinted, OwnerWasKnown, AuthNext
    PROVE  OwnerWasKnown'
  <1> USE RestingRequest
  <1> DEFINE Silent(r) == /\ request' = [request EXCEPT ![r] = request'[r]]
                          /\ request'[r].at # "answered"
                          /\ UNCHANGED <<authClock, ownerOf, ownerCache, lostAt>>
  <1>0. ASSUME NEW r \in Requests, Silent(r) PROVE OwnerWasKnown'
    <2>1. \A q \in Requests \ {r} : request'[q] = request[q]
      BY <1>0 DEF AuthTypes
    <2> QED BY <1>0, <2>1, OwnerLeftAlone
  <1>1. ASSUME NEW a \in Addresses, OwnerChanges(a) PROVE OwnerWasKnown'
    <2>1. lostAt' = [lostAt EXCEPT ![ownerOf] = authClock]
      BY <1>1 DEF OwnerChanges
    <2>2. \A b \in Addresses : lostAt'[b] = IF b = ownerOf THEN authClock ELSE lostAt[b]
      BY <2>1 DEF AuthTypes
    <2>3. authClock \in Nat /\ ReadTime \in Nat /\ ownerOf \in Addresses
          /\ ownerCache.owner \in Addresses \cup {NoOne} /\ ownerCache.at \in Nat
      BY AuthAssumption DEF AuthAssumption, AuthTypes, Answer
    <2> QED BY <1>1, <2>2, <2>3 DEF OwnerChanges, OwnerWasKnown
  <1>2. ASSUME NEW r \in Requests, VaultOwner(r) PROVE OwnerWasKnown'
    <2>1. CASE OwnerIsFresh
      <3>1. ownerCache.owner \in Addresses
        BY <2>1 DEF OwnerIsFresh, AuthTypes, Answer
      <3>2. Silent(r)
        BY <1>2, <2>1, <3>1, JudgeLeaves DEF VaultOwner
      <3> QED BY <1>0, <3>2
    <2>2. CASE ~OwnerIsFresh
      <3>1. Silent(r)
        BY <1>2, <2>2 DEF VaultOwner, AuthTypes, RequestType
      <3> QED BY <1>0, <3>1
    <2> QED BY <2>1, <2>2
  <1>3. ASSUME NEW r \in Requests, AnswerOwner(r) PROVE OwnerWasKnown'
    <2>1. CASE Finish(r)
      <3>1. Silent(r)
        BY <1>3, <2>1 DEF AnswerOwner, Finish, AuthTypes
      <3> QED BY <1>0, <3>1
    <2>2. CASE request' = [request EXCEPT ![r].at = "answered",
                                          ![r].answer = [at |-> authClock, owner |-> ownerOf]]
      <3>1. /\ \A q \in Requests \ {r} : request'[q] = request[q]
            /\ request'[r].answer = [at |-> authClock, owner |-> ownerOf]
        BY <2>2 DEF AuthTypes, RequestType
      <3>2. authClock \in Nat /\ ReadTime \in Nat /\ ownerOf \in Addresses
        BY AuthAssumption DEF AuthAssumption, AuthTypes
      <3> QED BY <1>3, <3>1, <3>2 DEF AnswerOwner, OwnerWasKnown
    <2> QED BY <1>3, <2>1, <2>2 DEF AnswerOwner
  <1>4. ASSUME NEW r \in Requests, TakeOwner(r) PROVE OwnerWasKnown'
    <2>1. /\ request[r].answer.owner \in Addresses /\ request[r].answer.at <= authClock
          /\ authClock <= request[r].answer.at + ReadTime
          /\ request[r].answer.owner # ownerOf => lostAt[request[r].answer.owner] >= request[r].answer.at
      BY <1>4 DEF TakeOwner, OwnerWasKnown
    <2>2. request' = [request EXCEPT ![r] = request'[r]] /\ request'[r].at # "answered"
      BY <1>4, <2>1, JudgeLeaves DEF TakeOwner
    <2>3. \A q \in Requests : request'[q].at = "answered" => request'[q] = request[q]
      BY <2>2 DEF AuthTypes
    <2>4. /\ authClock \in Nat /\ ReadTime \in Nat /\ request[r].answer.at \in Nat
          /\ lostAt[request[r].answer.owner] \in Nat
      BY <2>1, AuthAssumption DEF AuthAssumption, AuthTypes, RequestType, Answer
    <2>5. /\ ownerCache'.at = authClock /\ ownerCache'.owner = request[r].answer.owner
          /\ UNCHANGED <<authClock, ownerOf, lostAt>>
      BY <1>4 DEF TakeOwner
    <2>6. /\ ownerCache'.at <= authClock'
          /\ ownerCache'.owner # ownerOf' => lostAt'[ownerCache'.owner] + ReadTime >= ownerCache'.at
      BY <2>1, <2>4, <2>5
    <2>7. \A q \in Requests : request'[q].at = "answered" =>
            LET read == request'[q].answer
            IN  /\ read.owner \in Addresses
                /\ read.at <= authClock' /\ authClock' <= read.at + ReadTime
                /\ read.owner # ownerOf' => lostAt'[read.owner] >= read.at
      BY <2>3, <2>5 DEF OwnerWasKnown
    <2> QED BY <2>6, <2>7 DEF OwnerWasKnown
  <1>5. ASSUME Hour PROVE OwnerWasKnown'
    <2>1. \A r \in Requests : request[r].answer.at \in Nat
      BY DEF AuthTypes, RequestType, Answer
    <2>2. authClock \in Nat /\ ReadTime \in Nat /\ ownerCache.at \in Nat
      BY AuthAssumption DEF AuthAssumption, AuthTypes, Answer
    <2> QED BY <1>5, <2>1, <2>2 DEF Hour, OwnerWasKnown
  <1>6. ASSUME Restart PROVE OwnerWasKnown'
    BY <1>6 DEF Restart, OwnerWasKnown, NoOwner, AuthTypes
  <1>7. ASSUME NEW r \in Requests, NEW caller \in {"perp", "verify"}, Verify(r, caller)
        PROVE OwnerWasKnown'
    <2>1. Silent(r)
      BY <1>7, VerifyLeaves DEF Verify
    <2> QED BY <1>0, <2>1
  <1>8. ASSUME NEW r \in Requests, NEW caller \in {"perp", "admin"}, NEW t \in Tokens,
               SessionFor(r, t, caller) PROVE OwnerWasKnown'
    <2>1. Silent(r)
      BY <1>8, SessionForLeaves DEF SessionFor, Holds
    <2> QED BY <1>0, <2>1
  <1>9. ASSUME NEW r \in Requests, MintSession(r) \/ FindStored(r) \/ CacheSession(r)
        PROVE OwnerWasKnown'
    <2>1. request' = [request EXCEPT ![r] = request'[r]] /\ request'[r].at # "answered"
      BY <1>9, MintLeaves, FindLeaves, CacheLeaves DEF Holds
    <2>2. Silent(r)
      BY <1>9, <2>1 DEF MintSession, FindStored, CacheSession
    <2> QED BY <1>0, <2>2
  <1>10. ASSUME NEW r \in Requests, Persist(r) \/ Forget(r) \/ WriteConfig(r)
         PROVE OwnerWasKnown'
    <2>1. Silent(r)
      BY <1>10 DEF Persist, Forget, WriteConfig, Finish, AuthTypes
    <2> QED BY <1>0, <2>1
  <1>11. ASSUME NEW r \in Requests, NEW t \in Tokens, Revoke(r, t) PROVE OwnerWasKnown'
    <2>1. Silent(r)
      BY <1>11 DEF Revoke, NoRequest, AuthTypes
    <2> QED BY <1>0, <2>1
  <1>12. ASSUME NEW r \in Requests, NEW caller \in {"challenge", "config"},
                NEW a \in Addresses \cup {NoOne}, AskForOwner(r, caller, a) PROVE OwnerWasKnown'
    <2>1. Silent(r)
      BY <1>12, AskLeaves DEF AskForOwner
    <2> QED BY <1>0, <2>1
  <1>13. ASSUME UNCHANGED <<authClock, ownerOf, ownerCache, lostAt, request>> PROVE OwnerWasKnown'
    BY <1>13 DEF OwnerWasKnown
  <1> QED BY <1>1, <1>2, <1>3, <1>4, <1>5, <1>6, <1>7, <1>8, <1>9, <1>10, <1>11, <1>12, <1>13
             DEF AuthNext, PerpChallenge, TtlIndex

(* A write goes on only behind the check of the owner.                     *)
LEMMA OnlyTheCheckAdmits ==
    ASSUME AuthTypes, TokensMinted, OwnerWasKnown, AuthNext, NEW r \in Requests,
           request[r].at # "write", request'[r].at = "write"
    PROVE  (VaultOwner(r) /\ OwnerIsFresh) \/ TakeOwner(r)
  <1> USE RestingRequest
  <1> DEFINE Of(q) == q \in Requests /\ request' = [request EXCEPT ![q] = request'[q]]
  <1>0. ASSUME NEW q, Of(q) PROVE q = r
    BY <1>0 DEF AuthTypes
  <1>1. ASSUME NEW q \in Requests, NEW caller \in {"perp", "verify"}, Verify(q, caller) PROVE FALSE
    BY <1>0, <1>1, VerifyLeaves
  <1>2. ASSUME NEW q \in Requests, NEW caller \in {"perp", "admin"}, NEW t \in Tokens,
               SessionFor(q, t, caller) PROVE FALSE
    BY <1>0, <1>2, SessionForLeaves DEF Holds
  <1>3. ASSUME NEW q \in Requests, MintSession(q) \/ FindStored(q) \/ CacheSession(q) PROVE FALSE
    BY <1>0, <1>3, MintLeaves, FindLeaves, CacheLeaves DEF Holds
  <1>4. ASSUME NEW q \in Requests, Persist(q) \/ Forget(q) \/ WriteConfig(q) PROVE FALSE
    BY <1>4 DEF Persist, Forget, WriteConfig, Finish, AuthTypes
  <1>5. ASSUME NEW q \in Requests, NEW t \in Tokens, Revoke(q, t) PROVE FALSE
    BY <1>5 DEF Revoke, NoRequest, AuthTypes
  <1>6. ASSUME NEW q \in Requests, NEW caller \in {"challenge", "config"},
               NEW a \in Addresses \cup {NoOne}, AskForOwner(q, caller, a) PROVE FALSE
    BY <1>0, <1>6, AskLeaves
  <1>7. ASSUME Restart PROVE FALSE
    BY <1>7 DEF Restart
  <1>8. ASSUME request' = request PROVE FALSE
    BY <1>8
  <1>9. ASSUME NEW q \in Requests, AnswerOwner(q) PROVE FALSE
    BY <1>9 DEF AnswerOwner, Finish, AuthTypes, RequestType
  <1>10. ASSUME NEW q \in Requests, VaultOwner(q) PROVE VaultOwner(r) /\ OwnerIsFresh
    <2>1. q = r
      BY <1>0, <1>10, OwnerLeaves
    <2>2. ASSUME ~OwnerIsFresh PROVE FALSE
      BY <1>10, <2>1, <2>2 DEF VaultOwner, AuthTypes, RequestType
    <2> QED BY <1>10, <2>1, <2>2
  <1>11. ASSUME NEW q \in Requests, TakeOwner(q) PROVE TakeOwner(r)
    <2>1. q = r
      BY <1>0, <1>11, OwnerLeaves
    <2> QED BY <1>11, <2>1
  <1> QED BY <1>1, <1>2, <1>3, <1>4, <1>5, <1>6, <1>7, <1>8, <1>9, <1>10, <1>11
             DEF AuthNext, OwnerChanges, PerpChallenge, TtlIndex, Hour

(* It goes on only for the owner of that moment, or for one who was it     *)
(* within the cache time and a read before it.                             *)
LEMMA OwnerWrites ==
    ASSUME AuthTypes, TokensMinted, OwnerWasKnown, AuthNext, NEW r \in Requests,
           request[r].at # "write", request'[r].at = "write"
    PROVE  LET a == request[r].session.address
           IN  a = ownerOf \/ authClock - lostAt[a] < OwnerTtl + ReadTime
  <1> DEFINE a == request[r].session.address
  <1>1. /\ authClock \in Nat /\ ReadTime \in Nat \ {0} /\ OwnerTtl \in Nat \ {0} /\ ownerCache.at \in Nat
        /\ \A b \in Addresses : lostAt[b] \in Nat
    BY AuthAssumption DEF AuthAssumption, AuthTypes, Answer
  <1>2. CASE VaultOwner(r) /\ OwnerIsFresh
    <2>1. ownerCache.owner \in Addresses /\ ownerCache.owner # NoOne
      BY <1>2, AuthAssumption DEF OwnerIsFresh, AuthTypes, Answer, AuthAssumption
    <2>2. Judge(r, ownerCache.owner) /\ request'[r] # NoRequest
      BY <1>2, RestingRequest DEF VaultOwner
    <2>3. a = ownerCache.owner
      BY <2>1, <2>2, JudgeLeaves
    <2>4. authClock - ownerCache.at < OwnerTtl
      BY <1>2 DEF OwnerIsFresh
    <2>5. a # ownerOf => lostAt[a] + ReadTime >= ownerCache.at
      BY <2>1, <2>3 DEF OwnerWasKnown
    <2>6. lostAt[a] \in Nat
      BY <1>1, <2>1, <2>3
    <2> HIDE DEF a
    <2>7. a = ownerOf \/ authClock - lostAt[a] < OwnerTtl + ReadTime
      BY <1>1, <2>4, <2>5, <2>6
    <2> QED BY <2>7 DEF a
  <1>3. CASE TakeOwner(r)
    <2>1. /\ request[r].answer.owner \in Addresses
          /\ authClock <= request[r].answer.at + ReadTime
          /\ request[r].answer.owner # ownerOf => lostAt[request[r].answer.owner] >= request[r].answer.at
      BY <1>3 DEF TakeOwner, OwnerWasKnown
    <2>2. Judge(r, request[r].answer.owner) /\ request'[r] # NoRequest
      BY <1>3, RestingRequest DEF TakeOwner
    <2>3. a = request[r].answer.owner
      BY <2>1, <2>2, JudgeLeaves
    <2>4. lostAt[a] \in Nat /\ request[r].answer.at \in Nat
      BY <1>1, <2>1, <2>3 DEF AuthTypes, RequestType, Answer
    <2>5. a # ownerOf => lostAt[a] >= request[r].answer.at
      BY <2>1, <2>3
    <2> HIDE DEF a
    <2>6. a = ownerOf \/ authClock - lostAt[a] < OwnerTtl + ReadTime
      BY <1>1, <2>1, <2>4, <2>5
    <2> QED BY <2>6 DEF a
  <1> QED BY <1>2, <1>3, OnlyTheCheckAdmits

-----------------------------------------------------------------------------
LEMMA AuthInvStep == AuthInv /\ [AuthNext]_authVars => AuthInv'
  <1> SUFFICES ASSUME AuthInv, [AuthNext]_authVars PROVE AuthInv'
    OBVIOUS
  <1>1. CASE AuthNext
    BY <1>1, TypesKept, NoncesKept, TokensKept, OwnerKept DEF AuthInv, TokenInv
  <1>2. CASE UNCHANGED authVars
    BY <1>2 DEF authVars, AuthInv, AuthTypes, NoncesApart, ChallengeOpensOneSession, TokensMinted,
                SignedOutStaysOut, OwnerWasKnown
  <1> QED BY <1>1, <1>2

(* Two answers to one challenge never both open a session (perpAuth.ts     *)
(* 161-190): whatever the number of requests that check at a time.         *)
THEOREM OneSessionPerChallenge == AuthSpec => []ChallengeOpensOneSession
  <1>1. AuthInv => ChallengeOpensOneSession BY DEF AuthInv
  <1> QED BY <1>1, AuthInvInit, AuthInvStep, PTL DEF AuthSpec

(* A token that was signed out while nobody else was using it is never     *)
(* admitted again, over restarts and lookups that race (200-224).          *)
THEOREM SignedOutForGood == AuthSpec => []SignedOutStaysOut
  <1>1. AuthInv => SignedOutStaysOut BY DEF AuthInv
  <1> QED BY <1>1, AuthInvInit, AuthInvStep, PTL DEF AuthSpec

(* The admin check admits who owned the vault at the moment of the check,  *)
(* or within the owner's cache time and the time of one read before it,    *)
(* however many reads of the owner overlap (routes/automation.ts 33-64).   *)
THEOREM OnlyOwnersWrite == AuthSpec => ConfigIsTheOwners
  <1> DEFINE Checked ==
        \A r \in Requests :
            request[r].at # "write" /\ request'[r].at = "write"
            => LET a == request[r].session.address
               IN  a = ownerOf \/ authClock - lostAt[a] < OwnerTtl + ReadTime
  <1>1. AuthInv /\ [AuthNext]_authVars => [Checked]_authVars
    BY OwnerWrites DEF AuthInv
  <1>2. AuthSpec => [][Checked]_authVars
    BY <1>1, AuthInvInit, AuthInvStep, PTL DEF AuthSpec
  <1> QED BY <1>2 DEF ConfigIsTheOwners

-----------------------------------------------------------------------------
(***************************************************************************)
(* The session with Perpl, for any callers, batches and numbers of sockets *)
(* and orders: what submit tells its caller is true, whatever becomes of   *)
(* the sockets, by refinement of OrderPlacement.                           *)
(*                                                                         *)
(* Nothing in the argument is about which socket is the session's, or      *)
(* whether it is connected: answers are matched by sn.  The invariant says *)
(* that an sn is drawn once, is on its way over one socket at most, and    *)
(* that a status on its way tells what Perpl did.                          *)
(***************************************************************************)
FrameType == [rq : Nat, sn : Orders]
Message   == [mt : {"snapshot"}, lfr : Nat] \cup [mt : {"status"}, cid : Orders, ok : BOOLEAN]
Told      == {"accepted", "refused", "unanswered"}

(* The type invariant, and the numbers that were drawn.                    *)
WireTypes ==
    /\ up \in [Sockets -> Seq(FrameType)]
    /\ down \in [Sockets -> Seq(Message)]
    /\ perpl \in [lfr : Nat, placed : SUBSET Orders, refused : SUBSET Orders]

CallerTypes ==
    /\ batch \in [Callers -> Seq(FrameType)]
    /\ asked \in SUBSET Orders
    /\ answer \in [Orders -> Told \cup {"none"}]
    /\ seq \in Nat /\ requestId \in Nat /\ lastForwarded \in Nat
    /\ socket \in Sockets \cup {NoSocket}

(* A frame on its way was asked for, has no verdict yet, and is there once. *)
OnTheirWay ==
    /\ \A s \in Sockets : \A i \in DOMAIN up[s] :
          up[s][i].sn \in asked \ (perpl.placed \cup perpl.refused)
    /\ \A s, t \in Sockets : \A i \in DOMAIN up[s] : \A j \in DOMAIN up[t] :
          up[s][i].sn = up[t][j].sn => s = t /\ i = j

(* A status on its way is the verdict.                                     *)
VerdictsTrue ==
    \A s \in Sockets : \A i \in DOMAIN down[s] :
        down[s][i].mt = "status" =>
            IF down[s][i].ok THEN down[s][i].cid \in perpl.placed
                             ELSE down[s][i].cid \in perpl.refused

(* Batches share no sn, and their first frame is the one that was sent.    *)
BatchesApart ==
    /\ \A c, d \in Callers : \A i \in DOMAIN batch[c] : \A j \in DOMAIN batch[d] :
          batch[c][i].sn = batch[d][j].sn => c = d /\ i = j
    /\ \A c \in Callers : \A i \in DOMAIN batch[c] :
          batch[c][i].sn \in asked <=> i = 1

(* Nothing is said of an order before its turn, nor of one not drawn yet.  *)
AnswersOpen ==
    /\ \A c \in Callers : \A i \in DOMAIN batch[c] : answer[batch[c][i].sn] = "none"
    /\ \A o \in Orders : answer[o] # "none" => o \in asked

NumbersDrawn ==
    /\ \A o \in asked : o <= seq
    /\ \A c \in Callers : \A i \in DOMAIN batch[c] : batch[c][i].sn <= seq
    /\ perpl.placed \cup perpl.refused \subseteq asked
    /\ perpl.placed \cap perpl.refused = {}

SessionInv ==
    /\ WireTypes /\ CallerTypes
    /\ OnTheirWay /\ VerdictsTrue /\ BatchesApart /\ AnswersOpen /\ NumbersDrawn

(* A step of this module, seen as one of OrderPlacement.                   *)
PlacementStep == [Placement!PlacementNext]_(Placement!placementVars)

-----------------------------------------------------------------------------
(* The ends of a queue.                                                    *)
LEMMA TailFacts ==
    ASSUME NEW S, NEW q \in Seq(S), q # <<>>
    PROVE  /\ Head(q) = q[1] /\ Head(q) \in S /\ 1 \in DOMAIN q
           /\ Tail(q) \in Seq(S) /\ DOMAIN Tail(q) = 1 .. Len(q) - 1
           /\ \A i \in DOMAIN Tail(q) : i + 1 \in DOMAIN q /\ Tail(q)[i] = q[i + 1]
  <1>1. Len(q) \in Nat \ {0} /\ DOMAIN q = 1 .. Len(q)
    BY EmptySeq, LenProperties
  <1>2. /\ Tail(q) \in Seq(S) /\ Len(Tail(q)) = Len(q) - 1
        /\ \A i \in 1 .. Len(Tail(q)) : Tail(q)[i] = q[i + 1]
    BY HeadTailProperties
  <1>3. DOMAIN Tail(q) = 1 .. Len(Tail(q))
    BY <1>2, LenProperties
  <1> QED BY <1>1, <1>2, <1>3

LEMMA AppendFacts ==
    ASSUME NEW S, NEW q \in Seq(S), NEW e \in S
    PROVE  /\ Append(q, e) \in Seq(S)
           /\ DOMAIN Append(q, e) = DOMAIN q \cup {Len(q) + 1}
           /\ Len(q) + 1 \notin DOMAIN q
           /\ Append(q, e)[Len(q) + 1] = e
           /\ \A i \in DOMAIN q : Append(q, e)[i] = q[i]
  <1>1. Len(q) \in Nat /\ DOMAIN q = 1 .. Len(q)
    BY LenProperties
  <1>2. Append(q, e) \in Seq(S) /\ Len(Append(q, e)) = Len(q) + 1
    OBVIOUS
  <1>3. DOMAIN Append(q, e) = 1 .. Len(Append(q, e))
    BY <1>2, LenProperties
  <1> QED BY <1>1, <1>2, <1>3

LEMMA SessionInvInit == SessionInit => SessionInv /\ Placement!PlacementInit
  <1> SUFFICES ASSUME SessionInit PROVE SessionInv /\ Placement!PlacementInit
    OBVIOUS
  <1> USE DEF SessionInit
  <1>1. WireTypes /\ CallerTypes
    BY DEF WireTypes, CallerTypes
  <1>2. OnTheirWay /\ VerdictsTrue /\ BatchesApart
    BY DEF OnTheirWay, VerdictsTrue, BatchesApart
  <1>3. AnswersOpen /\ NumbersDrawn
    BY DEF AnswersOpen, NumbersDrawn
  <1>4. Placement!PlacementInit
    BY DEF Placement!PlacementInit
  <1> QED BY <1>1, <1>2, <1>3, <1>4 DEF SessionInv

(* What happens to the sockets: frames and statuses are lost or arrive,    *)
(* snapshots change the ids that are drawn.  Nobody is told anything.      *)
LEMMA SocketStep ==
    ASSUME SessionInv, UNCHANGED <<seq, requestId, perpl, batch, asked, answer>>,
           socket' \in Sockets \cup {NoSocket}, lastForwarded' \in Nat,
           up' \in [Sockets -> Seq(FrameType)], down' \in [Sockets -> Seq(Message)],
           \A s \in Sockets : up'[s] = up[s] \/ up'[s] = <<>>,
           \A s \in Sockets : \A i \in DOMAIN down'[s] :
              \/ down'[s][i].mt # "status"
              \/ \E j \in DOMAIN down[s] : down'[s][i] = down[s][j]
    PROVE  SessionInv' /\ PlacementStep
  <1>1. WireTypes' /\ CallerTypes'
    BY DEF SessionInv, WireTypes, CallerTypes
  <1>2. OnTheirWay'
    <2>1. \A s \in Sockets : \A i \in DOMAIN up'[s] : i \in DOMAIN up[s] /\ up'[s][i] = up[s][i]
      OBVIOUS
    <2> QED BY <2>1 DEF SessionInv, OnTheirWay
  <1>3. VerdictsTrue'
    BY DEF SessionInv, VerdictsTrue
  <1>4. BatchesApart' /\ AnswersOpen' /\ NumbersDrawn'
    BY DEF SessionInv, BatchesApart, AnswersOpen, NumbersDrawn
  <1>5. PlacementStep
    BY DEF PlacementStep, Placement!placementVars
  <1> QED BY <1>1, <1>2, <1>3, <1>4, <1>5 DEF SessionInv

LEMMA ReconnectIsSafe ==
    ASSUME SessionInv, Reconnect
    PROVE  SessionInv' /\ PlacementStep
  <1>1. /\ up \in [Sockets -> Seq(FrameType)] /\ down \in [Sockets -> Seq(Message)]
        /\ lastForwarded \in Nat /\ socket \in Sockets \cup {NoSocket}
    BY DEF SessionInv, WireTypes, CallerTypes
  <1>2. /\ UNCHANGED <<seq, requestId, lastForwarded, perpl, batch, asked, answer, up, down>>
        /\ socket' \in Sockets \cup {NoSocket}
    BY <1>1 DEF Reconnect, idVars, submitVars
  <1> QED BY <1>1, <1>2, SocketStep

LEMMA SocketsAreSafe ==
    ASSUME SessionInv, NEW s \in Sockets,
           SignIn(s) \/ Welcome(s) \/ ErrorEvent(s) \/ CloseEvent(s) \/ Snapshot(s)
    PROVE  SessionInv' /\ PlacementStep
  <1>1. /\ up \in [Sockets -> Seq(FrameType)] /\ down \in [Sockets -> Seq(Message)]
        /\ lastForwarded \in Nat /\ perpl.lfr \in Nat /\ socket \in Sockets \cup {NoSocket}
    BY DEF SessionInv, WireTypes, CallerTypes
  <1>2. UNCHANGED <<seq, requestId, perpl, batch, asked, answer>>
    BY DEF SignIn, Welcome, ErrorEvent, CloseEvent, Snapshot, idVars, submitVars
  <1>3. socket' \in Sockets \cup {NoSocket}
    BY <1>1 DEF SignIn, Welcome, ErrorEvent, CloseEvent, Snapshot, Drop
  <1>4. CASE SignIn(s)
    <2>1. UNCHANGED <<up, down, lastForwarded>>
      BY <1>4 DEF SignIn, idVars
    <2> QED BY <1>1, <1>2, <1>3, <2>1, SocketStep
  <1>5. CASE Welcome(s)
    <2> DEFINE m == [mt |-> "snapshot", lfr |-> perpl.lfr]
    <2>1. UNCHANGED <<up, lastForwarded>> /\ down' = [down EXCEPT ![s] = Append(down[s], m)]
      BY <1>5 DEF Welcome, idVars
    <2>2. m \in Message /\ m.mt # "status"
      BY <1>1 DEF Message
    <2> HIDE DEF m
    <2>3. /\ Append(down[s], m) \in Seq(Message)
          /\ DOMAIN Append(down[s], m) = DOMAIN down[s] \cup {Len(down[s]) + 1}
          /\ Append(down[s], m)[Len(down[s]) + 1] = m
          /\ \A i \in DOMAIN down[s] : Append(down[s], m)[i] = down[s][i]
      BY <1>1, <2>2, AppendFacts
    <2>4. down' \in [Sockets -> Seq(Message)]
      BY <1>1, <2>1, <2>3
    <2>5. \A t \in Sockets : \A i \in DOMAIN down'[t] :
             down'[t][i].mt # "status" \/ \E j \in DOMAIN down[t] : down'[t][i] = down[t][j]
      BY <1>1, <2>1, <2>2, <2>3
    <2> QED BY <1>1, <1>2, <1>3, <2>1, <2>4, <2>5, SocketStep
  <1>6. CASE ErrorEvent(s) \/ CloseEvent(s)
    <2>1. /\ up' = [up EXCEPT ![s] = <<>>] /\ down' = [down EXCEPT ![s] = <<>>]
          /\ UNCHANGED lastForwarded
      BY <1>6 DEF ErrorEvent, CloseEvent, Lost, idVars
    <2>2. <<>> \in Seq(FrameType) /\ <<>> \in Seq(Message) /\ DOMAIN <<>> = {}
      OBVIOUS
    <2>3. up' \in [Sockets -> Seq(FrameType)] /\ down' \in [Sockets -> Seq(Message)]
      BY <1>1, <2>1, <2>2
    <2>4. /\ \A t \in Sockets : up'[t] = up[t] \/ up'[t] = <<>>
          /\ \A t \in Sockets : down'[t] = down[t] \/ down'[t] = <<>>
      BY <1>1, <2>1
    <2>5. \A t \in Sockets : \A i \in DOMAIN down'[t] : \E j \in DOMAIN down[t] : down'[t][i] = down[t][j]
      BY <2>2, <2>4
    <2> QED BY <1>1, <1>2, <1>3, <2>1, <2>3, <2>4, <2>5, SocketStep
  <1>7. CASE Snapshot(s)
    <2>1. /\ UNCHANGED up /\ down[s] # <<>> /\ Head(down[s]).mt = "snapshot"
          /\ down' = [down EXCEPT ![s] = Tail(down[s])]
          /\ lastForwarded' = Head(down[s]).lfr
      BY <1>7 DEF Snapshot
    <2>2. /\ Head(down[s]) \in Message /\ Tail(down[s]) \in Seq(Message)
          /\ \A i \in DOMAIN Tail(down[s]) : i + 1 \in DOMAIN down[s] /\ Tail(down[s])[i] = down[s][i + 1]
      BY <1>1, <2>1, TailFacts
    <2>3. lastForwarded' \in Nat
      BY <2>1, <2>2 DEF Message
    <2>4. down' \in [Sockets -> Seq(Message)]
      BY <1>1, <2>1, <2>2
    <2>5. \A t \in Sockets : \A i \in DOMAIN down'[t] : \E j \in DOMAIN down[t] : down'[t][i] = down[t][j]
      BY <1>1, <2>1, <2>2
    <2> QED BY <1>1, <1>2, <1>3, <2>1, <2>3, <2>4, <2>5, SocketStep
  <1> QED BY <1>4, <1>5, <1>6, <1>7

(* The exchange's verdict on the frame it reads: the first on its way, so  *)
(* no other frame on its way is of the same order.                         *)
LEMMA ReadingIsSafe ==
    ASSUME SessionInv, NEW s \in Sockets, PerplReads(s)
    PROVE  SessionInv' /\ PlacementStep
  <1> DEFINE f == Head(up[s])
             o == f.sn
  <1>1. /\ up \in [Sockets -> Seq(FrameType)] /\ down \in [Sockets -> Seq(Message)]
        /\ perpl \in [lfr : Nat, placed : SUBSET Orders, refused : SUBSET Orders]
        /\ up[s] # <<>>
    BY DEF SessionInv, WireTypes, PerplReads
  <1>2. UNCHANGED <<socket, lastForwarded, seq, requestId, batch, asked, answer>>
    BY DEF PerplReads, idVars, submitVars
  <1>3. PICK placed \in BOOLEAN :
           /\ perpl' = IF placed THEN [perpl EXCEPT !.lfr = f.rq, !.placed = @ \cup {o}]
                                 ELSE [perpl EXCEPT !.refused = @ \cup {o}]
           /\ down' = [down EXCEPT ![s] =
                          Append(@, [mt |-> "status", cid |-> o, ok |-> placed])]
    BY DEF PerplReads
  <1>4. up' = [up EXCEPT ![s] = Tail(up[s])]
    BY DEF PerplReads
  <1>5. /\ f = up[s][1] /\ f \in FrameType /\ 1 \in DOMAIN up[s]
        /\ Tail(up[s]) \in Seq(FrameType)
        /\ \A i \in DOMAIN Tail(up[s]) :
              i \in Nat \ {0} /\ i + 1 \in DOMAIN up[s] /\ Tail(up[s])[i] = up[s][i + 1]
    BY <1>1, TailFacts
  <1>6. o \in Orders /\ f.rq \in Nat /\ o \in asked \ (perpl.placed \cup perpl.refused)
    BY <1>5 DEF FrameType, SessionInv, OnTheirWay
  <1> DEFINE m == [mt |-> "status", cid |-> o, ok |-> placed]
  <1>7. m \in Message /\ m.mt = "status" /\ m.cid = o /\ m.ok = placed
    BY <1>6 DEF Message
  <1>8. down' = [down EXCEPT ![s] = Append(down[s], m)]
    BY <1>3
  <1>9. up'[s] = Tail(up[s]) /\ \A t \in Sockets \ {s} : up'[t] = up[t]
    BY <1>1, <1>4
  <1> HIDE DEF f, m
  <1>10. /\ Append(down[s], m) \in Seq(Message)
         /\ DOMAIN Append(down[s], m) = DOMAIN down[s] \cup {Len(down[s]) + 1}
         /\ Append(down[s], m)[Len(down[s]) + 1] = m
         /\ \A i \in DOMAIN down[s] : Append(down[s], m)[i] = down[s][i]
    BY <1>1, <1>7, AppendFacts
  <1>11. /\ perpl' \in [lfr : Nat, placed : SUBSET Orders, refused : SUBSET Orders]
         /\ placed => perpl'.placed = perpl.placed \cup {o} /\ perpl'.refused = perpl.refused
         /\ ~placed => perpl'.refused = perpl.refused \cup {o} /\ perpl'.placed = perpl.placed
    BY <1>1, <1>3, <1>6
  <1>12. WireTypes'
    <2>1. up' \in [Sockets -> Seq(FrameType)]
      BY <1>1, <1>4, <1>5
    <2>2. down' \in [Sockets -> Seq(Message)]
      BY <1>1, <1>8, <1>10
    <2> QED BY <1>11, <2>1, <2>2 DEF WireTypes
  <1>13. CallerTypes'
    BY <1>2 DEF SessionInv, CallerTypes
  <1>14. OnTheirWay'
    <2>1. ASSUME NEW t \in Sockets, NEW i \in DOMAIN up'[t]
          PROVE  \E j \in DOMAIN up[t] :
                    up'[t][i] = up[t][j] /\ (t = s => j = i + 1 /\ i # 0 /\ i \in Nat) /\ (t # s => j = i)
      <3>1. CASE t = s
        <4>1. i \in DOMAIN Tail(up[s]) /\ up'[t][i] = Tail(up[s])[i]
          BY <1>9, <3>1
        <4>2. i \in Nat /\ i # 0 /\ i + 1 \in DOMAIN up[s] /\ Tail(up[s])[i] = up[s][i + 1]
          BY <1>5, <4>1
        <4> QED BY <3>1, <4>1, <4>2
      <3>2. CASE t # s
        BY <1>9, <3>2
      <3> QED BY <3>1, <3>2
    <2>2. ASSUME NEW t \in Sockets, NEW i \in DOMAIN up'[t]
          PROVE  up'[t][i].sn \in asked \ (perpl.placed \cup perpl.refused) /\ up'[t][i].sn # o
      <3>1. PICK j \in DOMAIN up[t] :
               up'[t][i] = up[t][j] /\ (t = s => j = i + 1 /\ i # 0 /\ i \in Nat) /\ (t # s => j = i)
        BY <2>1
      <3>2. up[t][j].sn # o
        BY <1>5, <3>1 DEF SessionInv, OnTheirWay
      <3> QED BY <3>1, <3>2 DEF SessionInv, OnTheirWay
    <2>3. ASSUME NEW t \in Sockets, NEW u \in Sockets,
                 NEW i \in DOMAIN up'[t], NEW k \in DOMAIN up'[u], up'[t][i].sn = up'[u][k].sn
          PROVE  t = u /\ i = k
      <3>1. PICK j \in DOMAIN up[t] :
               up'[t][i] = up[t][j] /\ (t = s => j = i + 1 /\ i # 0 /\ i \in Nat) /\ (t # s => j = i)
        BY <2>1
      <3>2. PICK l \in DOMAIN up[u] :
               up'[u][k] = up[u][l] /\ (u = s => l = k + 1 /\ k # 0 /\ k \in Nat) /\ (u # s => l = k)
        BY <2>1
      <3>3. t = u /\ j = l
        BY <2>3, <3>1, <3>2 DEF SessionInv, OnTheirWay
      <3> QED BY <3>1, <3>2, <3>3
    <2>4. asked' = asked
      BY <1>2
    <2>5. \A t \in Sockets : \A i \in DOMAIN up'[t] :
             up'[t][i].sn \in asked' \ (perpl'.placed \cup perpl'.refused)
      BY <1>11, <2>2, <2>4
    <2>6. \A t, u \in Sockets : \A i \in DOMAIN up'[t] : \A k \in DOMAIN up'[u] :
             up'[t][i].sn = up'[u][k].sn => t = u /\ i = k
      BY <2>3
    <2> QED BY <2>5, <2>6 DEF OnTheirWay
  <1>15. VerdictsTrue'
    <2> SUFFICES ASSUME NEW t \in Sockets, NEW i \in DOMAIN down'[t], down'[t][i].mt = "status"
                 PROVE  IF down'[t][i].ok THEN down'[t][i].cid \in perpl'.placed
                                          ELSE down'[t][i].cid \in perpl'.refused
      BY DEF VerdictsTrue
    <2>1. CASE t = s /\ i = Len(down[s]) + 1
      <3>1. down'[t][i] = m
        BY <1>1, <1>8, <1>10, <2>1
      <3> QED BY <1>7, <1>11, <3>1
    <2>2. CASE ~(t = s /\ i = Len(down[s]) + 1)
      <3>1. i \in DOMAIN down[t] /\ down'[t][i] = down[t][i]
        BY <1>1, <1>8, <1>10, <2>2
      <3> QED BY <1>11, <3>1 DEF SessionInv, VerdictsTrue
    <2> QED BY <2>1, <2>2
  <1>16. BatchesApart' /\ AnswersOpen'
    BY <1>2 DEF SessionInv, BatchesApart, AnswersOpen
  <1>17. NumbersDrawn'
    BY <1>2, <1>6, <1>11 DEF SessionInv, NumbersDrawn
  <1>18. PlacementStep
    <2>1. CASE placed
      BY <1>2, <1>6, <1>11, <2>1
         DEF PlacementStep, Placement!PlacementNext, Placement!Place
    <2>2. CASE ~placed
      BY <1>2, <1>6, <1>11, <2>2
         DEF PlacementStep, Placement!PlacementNext, Placement!Refuse
    <2> QED BY <2>1, <2>2
  <1> QED BY <1>12, <1>13, <1>14, <1>15, <1>16, <1>17, <1>18 DEF SessionInv

-----------------------------------------------------------------------------
(* The next frame of a batch goes out, or the batch ends.  The frames may  *)
(* be those of a new batch or the rest of one.                             *)
Ends(c) == batch' = [batch EXCEPT ![c] = <<>>] /\ asked' = asked /\ up' = up

GoesOn(c, frames) ==
    /\ batch' = [batch EXCEPT ![c] = frames]
    /\ asked' = asked \cup {frames[1].sn}
    /\ up' = up \/ \E t \in Sockets : up' = [up EXCEPT ![t] = Append(@, frames[1])]

LEMMA SendFacts ==
    ASSUME WireTypes, CallerTypes, NEW c \in Callers, NEW frames \in Seq(FrameType), frames # <<>>,
           Send(c, frames)
    PROVE  Ends(c) \/ GoesOn(c, frames)
  <1>1. Head(frames) = frames[1]
    BY TailFacts
  <1> QED BY <1>1 DEF Send, Sendable, CallerTypes, Ends, GoesOn

(* A frame that nobody asked for yet is put on its way.                    *)
LEMMA WireAfterSend ==
    ASSUME SessionInv, UNCHANGED perpl, NEW f \in FrameType, f.sn \notin asked,
           asked' = asked \cup {f.sn},
           up' = up \/ \E t \in Sockets : up' = [up EXCEPT ![t] = Append(@, f)]
    PROVE  up' \in [Sockets -> Seq(FrameType)] /\ OnTheirWay'
  <1>1. /\ up \in [Sockets -> Seq(FrameType)]
        /\ f.sn \notin perpl.placed \cup perpl.refused
    BY DEF SessionInv, WireTypes, NumbersDrawn
  <1>2. CASE up' = up
    BY <1>1, <1>2 DEF SessionInv, OnTheirWay
  <1>3. ASSUME NEW t \in Sockets, up' = [up EXCEPT ![t] = Append(@, f)]
        PROVE  up' \in [Sockets -> Seq(FrameType)] /\ OnTheirWay'
    <2>1. /\ Append(up[t], f) \in Seq(FrameType)
          /\ DOMAIN Append(up[t], f) = DOMAIN up[t] \cup {Len(up[t]) + 1}
          /\ Append(up[t], f)[Len(up[t]) + 1] = f
          /\ \A i \in DOMAIN up[t] : Append(up[t], f)[i] = up[t][i]
      BY <1>1, AppendFacts
    <2>2. up'[t] = Append(up[t], f) /\ \A u \in Sockets \ {t} : up'[u] = up[u]
      BY <1>1, <1>3
    <2>3. ASSUME NEW u \in Sockets, NEW i \in DOMAIN up'[u]
          PROVE  \/ i \in DOMAIN up[u] /\ up'[u][i] = up[u][i] /\ up'[u][i].sn # f.sn
                 \/ u = t /\ i = Len(up[t]) + 1 /\ up'[u][i] = f
      <3>1. CASE i \in DOMAIN up[u]
        <4>1. up'[u][i] = up[u][i]
          BY <2>1, <2>2, <3>1
        <4>2. up[u][i].sn \in asked
          BY <3>1 DEF SessionInv, OnTheirWay
        <4> QED BY <3>1, <4>1, <4>2
      <3>2. CASE i \notin DOMAIN up[u]
        BY <2>1, <2>2, <3>2
      <3> QED BY <3>1, <3>2
    <2>4. \A u \in Sockets : \A i \in DOMAIN up'[u] :
             up'[u][i].sn \in asked' \ (perpl'.placed \cup perpl'.refused)
      BY <1>1, <2>3 DEF SessionInv, OnTheirWay
    <2>5. ASSUME NEW u \in Sockets, NEW v \in Sockets, NEW i \in DOMAIN up'[u], NEW j \in DOMAIN up'[v],
                 up'[u][i].sn = up'[v][j].sn
          PROVE  u = v /\ i = j
      <3>1. CASE up'[u][i].sn = f.sn
        BY <2>3, <2>5, <3>1
      <3>2. CASE up'[u][i].sn # f.sn
        BY <2>3, <2>5, <3>2 DEF SessionInv, OnTheirWay
      <3> QED BY <3>1, <3>2
    <2>6. up' \in [Sockets -> Seq(FrameType)]
      BY <1>1, <1>3, <2>1
    <2>7. OnTheirWay'
      BY <2>4, <2>5 DEF OnTheirWay
    <2> QED BY <2>6, <2>7
  <1> QED BY <1>2, <1>3

(* No status arrives, one may be read.                                     *)
NoNewStatus ==
    /\ down' \in [Sockets -> Seq(Message)]
    /\ \A s \in Sockets : \A i \in DOMAIN down'[s] : \E j \in DOMAIN down[s] : down'[s][i] = down[s][j]

(* What a step that ends a batch or sends its next frame does to the rest. *)
Bystanders(c) ==
    /\ UNCHANGED <<socket, lastForwarded, perpl>> /\ NoNewStatus
    /\ seq' \in Nat /\ requestId' \in Nat /\ seq <= seq'
    /\ answer' \in [Orders -> Told \cup {"none"}]
    /\ \A d \in Callers \ {c} : \A i \in DOMAIN batch[d] : answer'[batch[d][i].sn] = "none"
    /\ \A o \in Orders : answer'[o] # "none" => o \in asked

(* Frames that were not sent, and are of no other batch.                   *)
StillToSend(c, frames) ==
    /\ \A i \in DOMAIN frames : /\ frames[i].sn \notin asked /\ frames[i].sn <= seq'
                                /\ answer'[frames[i].sn] = "none"
    /\ \A i, j \in DOMAIN frames : frames[i].sn = frames[j].sn => i = j
    /\ \A d \in Callers \ {c} : \A i \in DOMAIN frames : \A j \in DOMAIN batch[d] :
          frames[i].sn # batch[d][j].sn

LEMMA OrdersAreNumbers == Orders \subseteq Nat
  BY SessionAssumption DEF SessionAssumption, Orders

LEMMA BatchEnds ==
    ASSUME SessionInv, NEW c \in Callers, Bystanders(c),
           Ends(c) \/ (batch[c] = <<>> /\ UNCHANGED <<batch, asked, up>>)
    PROVE  SessionInv'
  <1> USE DEF Ends
  <1>1. /\ batch' \in [Callers -> Seq(FrameType)]
        /\ batch'[c] = <<>> /\ \A d \in Callers \ {c} : batch'[d] = batch[d]
    <2>1. batch \in [Callers -> Seq(FrameType)] /\ <<>> \in Seq(FrameType)
      BY DEF SessionInv, CallerTypes
    <2>2. CASE Ends(c)
      BY <2>1, <2>2
    <2>3. CASE batch[c] = <<>> /\ UNCHANGED <<batch, asked, up>>
      BY <2>1, <2>3
    <2> QED BY <2>2, <2>3
  <1>2. \A d \in Callers : \A i \in DOMAIN batch'[d] : d # c /\ i \in DOMAIN batch[d] /\ batch'[d][i] = batch[d][i]
    BY <1>1
  <1>3. WireTypes' /\ CallerTypes'
    BY <1>1 DEF SessionInv, WireTypes, CallerTypes, Bystanders, NoNewStatus
  <1>4. OnTheirWay' /\ VerdictsTrue'
    <2>1. OnTheirWay'
      BY DEF SessionInv, OnTheirWay, Bystanders
    <2>2. VerdictsTrue'
      BY DEF SessionInv, VerdictsTrue, Bystanders, NoNewStatus
    <2> QED BY <2>1, <2>2
  <1>5. BatchesApart'
    BY <1>2 DEF SessionInv, BatchesApart
  <1>6. AnswersOpen'
    BY <1>2 DEF AnswersOpen, Bystanders
  <1>7. NumbersDrawn'
    <2>1. \A o \in asked' : o \in Nat /\ o <= seq /\ seq \in Nat
      BY OrdersAreNumbers DEF SessionInv, NumbersDrawn, CallerTypes
    <2>2. ASSUME NEW d \in Callers, NEW i \in DOMAIN batch'[d]
          PROVE  batch'[d][i].sn \in Nat /\ batch'[d][i].sn <= seq
      <3>1. i \in DOMAIN batch[d] /\ batch'[d][i] = batch[d][i]
        BY <1>2
      <3>2. batch[d][i] \in FrameType
        BY <3>1, ElementOfSeq, LenProperties DEF SessionInv, CallerTypes
      <3> QED BY <3>1, <3>2, OrdersAreNumbers DEF SessionInv, NumbersDrawn, FrameType
    <2>3. seq \in Nat /\ seq' \in Nat /\ seq <= seq' /\ perpl' = perpl /\ asked' = asked
      BY DEF SessionInv, CallerTypes, Bystanders
    <2> QED BY <2>1, <2>2, <2>3 DEF SessionInv, NumbersDrawn
  <1> QED BY <1>3, <1>4, <1>5, <1>6, <1>7 DEF SessionInv

LEMMA BatchGoesOn ==
    ASSUME SessionInv, NEW c \in Callers, Bystanders(c),
           NEW frames \in Seq(FrameType), frames # <<>>, StillToSend(c, frames),
           GoesOn(c, frames)
    PROVE  SessionInv'
  <1> USE DEF StillToSend, GoesOn
  <1>1. frames[1] \in FrameType /\ 1 \in DOMAIN frames /\ frames[1].sn \in Orders
    <2>1. frames[1] \in FrameType /\ 1 \in DOMAIN frames
      BY TailFacts
    <2> QED BY <2>1 DEF FrameType
  <1>2. /\ batch' \in [Callers -> Seq(FrameType)]
        /\ batch'[c] = frames /\ \A d \in Callers \ {c} : batch'[d] = batch[d]
    BY DEF SessionInv, CallerTypes
  <1>3. WireTypes' /\ CallerTypes' /\ OnTheirWay'
    <2>1. up' \in [Sockets -> Seq(FrameType)] /\ OnTheirWay'
      BY <1>1, WireAfterSend DEF Bystanders
    <2> QED BY <1>1, <1>2, <2>1 DEF SessionInv, WireTypes, CallerTypes, Bystanders, NoNewStatus
  <1>4. VerdictsTrue'
    BY DEF SessionInv, VerdictsTrue, Bystanders, NoNewStatus
  <1>5. BatchesApart'
    <2>1. ASSUME NEW d \in Callers, NEW e \in Callers, NEW i \in DOMAIN batch'[d], NEW j \in DOMAIN batch'[e],
                 batch'[d][i].sn = batch'[e][j].sn
          PROVE  d = e /\ i = j
      <3>1. CASE d = c /\ e = c
        BY <1>2, <2>1, <3>1
      <3>2. CASE d = c /\ e # c
        BY <1>2, <2>1, <3>2
      <3>3. CASE d # c /\ e = c
        BY <1>2, <2>1, <3>3
      <3>4. CASE d # c /\ e # c
        BY <1>2, <2>1, <3>4 DEF SessionInv, BatchesApart
      <3> QED BY <3>1, <3>2, <3>3, <3>4
    <2>2. ASSUME NEW d \in Callers, NEW i \in DOMAIN batch'[d]
          PROVE  batch'[d][i].sn \in asked' <=> i = 1
      <3>1. CASE d = c
        BY <1>1, <1>2, <3>1
      <3>2. CASE d # c
        <4>1. batch'[d] = batch[d] /\ frames[1].sn # batch[d][i].sn
          BY <1>1, <1>2, <3>2
        <4> QED BY <4>1 DEF SessionInv, BatchesApart
      <3> QED BY <3>1, <3>2
    <2> QED BY <2>1, <2>2 DEF BatchesApart
  <1>6. AnswersOpen'
    <2>1. ASSUME NEW d \in Callers, NEW i \in DOMAIN batch'[d]
          PROVE  answer'[batch'[d][i].sn] = "none"
      BY <1>2 DEF Bystanders
    <2> QED BY <2>1 DEF AnswersOpen, Bystanders
  <1>7. NumbersDrawn'
    <2>1. \A o \in asked' : o <= seq'
      <3>1. \A o \in asked : o \in Nat /\ o <= seq /\ seq \in Nat
        BY OrdersAreNumbers DEF SessionInv, NumbersDrawn, CallerTypes
      <3> QED BY <1>1, <3>1 DEF Bystanders
    <2>2. ASSUME NEW d \in Callers, NEW i \in DOMAIN batch'[d]
          PROVE  batch'[d][i].sn <= seq'
      <3>1. CASE d = c
        BY <1>2, <3>1
      <3>2. CASE d # c
        <4>1. i \in DOMAIN batch[d] /\ batch'[d][i] = batch[d][i]
          BY <1>2, <3>2
        <4>2. batch[d][i] \in FrameType
          BY <4>1, ElementOfSeq, LenProperties DEF SessionInv, CallerTypes
        <4>3. batch[d][i].sn \in Nat /\ batch[d][i].sn <= seq /\ seq \in Nat
          BY <4>1, <4>2, OrdersAreNumbers DEF SessionInv, NumbersDrawn, FrameType, CallerTypes
        <4> QED BY <4>1, <4>3 DEF Bystanders
      <3> QED BY <3>1, <3>2
    <2> QED BY <2>1, <2>2 DEF SessionInv, NumbersDrawn, Bystanders
  <1> QED BY <1>3, <1>4, <1>5, <1>6, <1>7 DEF SessionInv

(* The frames of a new batch have numbers that were never drawn.           *)
LEMMA SubmitIsSafe ==
    ASSUME SessionInv, NEW c \in Callers, NEW n \in BatchSizes, Submit(c, n)
    PROVE  SessionInv' /\ PlacementStep
  <1> DEFINE ids    == NextIds(n)
             frames == [i \in 1 .. n |-> Frame(ids[i], seq + i)]
  <1>1. n \in Nat \ {0} /\ OrderBound \in Nat
    BY SessionAssumption DEF SessionAssumption
  <1>2. CallerTypes /\ WireTypes
    BY DEF SessionInv
  <1>3. /\ batch[c] = <<>> /\ seq + n <= OrderBound
        /\ requestId' = ids[n] /\ seq' = seq + n
        /\ UNCHANGED <<socket, lastForwarded, down, perpl, answer>>
        /\ Send(c, frames) \/ UNCHANGED <<batch, asked, up>>
    BY DEF Submit
  <1>4. \A i \in 1 .. n : ids[i] \in Nat
    BY <1>2 DEF NextIds, CallerTypes
  <1>5. /\ DOMAIN frames = 1 .. n
        /\ \A i \in 1 .. n : frames[i] \in FrameType /\ frames[i].sn = seq + i
    BY <1>1, <1>2, <1>3, <1>4 DEF Frame, FrameType, CallerTypes, Orders
  <1>6. frames \in [1 .. n -> FrameType]
    BY <1>5
  <1> HIDE DEF ids, frames
  <1>7. frames \in Seq(FrameType) /\ frames # <<>> /\ frames[1].sn = seq + 1
    <2>1. frames \in Seq(FrameType)
      BY <1>1, <1>6, SeqDef
    <2>2. 1 \in DOMAIN frames
      BY <1>1, <1>5
    <2> QED BY <1>1, <1>5, <2>1, <2>2
  <1>8. StillToSend(c, frames)
    <2>1. ASSUME NEW i \in DOMAIN frames
          PROVE  /\ frames[i].sn \notin asked /\ frames[i].sn <= seq'
                 /\ answer'[frames[i].sn] = "none"
      <3>1. frames[i].sn \in Orders /\ frames[i].sn > seq /\ frames[i].sn <= seq'
        BY <1>1, <1>2, <1>3, <1>5 DEF CallerTypes, FrameType
      <3>2. frames[i].sn \notin asked
        BY <1>2, <3>1 DEF SessionInv, NumbersDrawn, CallerTypes, Orders
      <3> QED BY <1>3, <3>1, <3>2 DEF SessionInv, AnswersOpen
    <2>2. ASSUME NEW d \in Callers, NEW i \in DOMAIN frames, NEW j \in DOMAIN batch[d]
          PROVE  frames[i].sn # batch[d][j].sn
      <3>1. frames[i].sn \in Nat /\ frames[i].sn > seq /\ seq \in Nat
        BY <1>1, <1>2, <1>5 DEF CallerTypes
      <3>2. batch[d][j] \in FrameType
        BY <1>2, ElementOfSeq, LenProperties DEF CallerTypes
      <3>3. batch[d][j].sn \in Nat /\ batch[d][j].sn <= seq
        BY <3>2, OrdersAreNumbers DEF SessionInv, NumbersDrawn, FrameType
      <3> QED BY <3>1, <3>3
    <2>3. \A i, j \in DOMAIN frames : frames[i].sn = frames[j].sn => i = j
      BY <1>1, <1>2, <1>5 DEF CallerTypes
    <2> QED BY <2>1, <2>2, <2>3 DEF StillToSend
  <1>9. Bystanders(c)
    BY <1>1, <1>2, <1>3, <1>4
       DEF Bystanders, NoNewStatus, CallerTypes, WireTypes, SessionInv, AnswersOpen
  <1>10. CASE UNCHANGED <<batch, asked, up>>
    <2>1. SessionInv'
      BY <1>3, <1>9, <1>10, BatchEnds
    <2>2. PlacementStep
      BY <1>3, <1>10 DEF PlacementStep, Placement!placementVars
    <2> QED BY <2>1, <2>2
  <1>11. CASE Send(c, frames)
    <2>1. Ends(c) \/ GoesOn(c, frames)
      BY <1>2, <1>7, <1>11, SendFacts
    <2>2. CASE Ends(c)
      <3>1. SessionInv'
        BY <1>9, <2>2, BatchEnds
      <3>2. PlacementStep
        BY <1>3, <2>2 DEF PlacementStep, Placement!placementVars, Ends
      <3> QED BY <3>1, <3>2
    <2>3. CASE GoesOn(c, frames)
      <3>1. SessionInv'
        BY <1>7, <1>8, <1>9, <2>3, BatchGoesOn
      <3>2. frames[1].sn \in Orders /\ frames[1].sn \notin asked
        BY <1>1, <1>5, <1>8 DEF FrameType, StillToSend
      <3>3. PlacementStep
        BY <1>3, <2>3, <3>2 DEF PlacementStep, Placement!PlacementNext, Placement!Ask, GoesOn
      <3> QED BY <3>1, <3>3
    <2> QED BY <2>1, <2>2, <2>3
  <1> QED BY <1>3, <1>10, <1>11

(* A caller is told something, and goes on with its batch or not.          *)
LEMMA ResolveIsSafe ==
    ASSUME SessionInv, NEW sn \in Orders, NEW told \in Told, Resolve(sn, told),
           told = "accepted" => sn \in perpl.placed,
           told = "refused" => sn \in perpl.refused,
           UNCHANGED <<socket, lastForwarded, seq, requestId, perpl>>, NoNewStatus
    PROVE  SessionInv' /\ PlacementStep
  <1>1. CallerTypes /\ WireTypes
    BY DEF SessionInv
  <1>2. CASE UNCHANGED <<answer, batch, asked, up>>
    BY <1>1, <1>2, SocketStep DEF WireTypes, CallerTypes, NoNewStatus
  <1>3. CASE ~UNCHANGED <<answer, batch, asked, up>>
    <2> DEFINE c    == CHOOSE d \in Callers : batch[d] # <<>> /\ Head(batch[d]).sn = sn
               rest == Tail(batch[c])
    <2>1. \E d \in Callers : batch[d] # <<>> /\ Head(batch[d]).sn = sn
      BY <1>3 DEF Resolve
    <2>2. c \in Callers /\ batch[c] # <<>> /\ Head(batch[c]).sn = sn
      BY <2>1
    <2>3. /\ answer' = [answer EXCEPT ![sn] = told]
          /\ \/ rest # <<>> /\ Send(c, rest)
             \/ batch' = [batch EXCEPT ![c] = <<>>] /\ UNCHANGED <<asked, up>>
      BY <2>1 DEF Resolve
    <2>4. /\ batch[c] \in Seq(FrameType) /\ Head(batch[c]) = batch[c][1] /\ 1 \in DOMAIN batch[c]
          /\ rest \in Seq(FrameType)
          /\ \A i \in DOMAIN rest : /\ i \in Nat \ {0} /\ i + 1 \in DOMAIN batch[c]
                                    /\ rest[i] = batch[c][i + 1]
      BY <1>1, <2>2, TailFacts DEF CallerTypes
    <2> HIDE DEF c, rest
    <2>5. sn \in asked /\ answer[sn] = "none"
      BY <2>2, <2>4 DEF SessionInv, BatchesApart, AnswersOpen
    <2>6. \A d \in Callers : \A i \in DOMAIN batch[d] : batch[d][i].sn = sn => d = c /\ i = 1
      BY <2>2, <2>4 DEF SessionInv, BatchesApart
    <2>7. answer' \in [Orders -> Told \cup {"none"}] /\ \A o \in Orders \ {sn} : answer'[o] = answer[o]
      BY <1>1, <2>3 DEF CallerTypes
    <2>8. \A d \in Callers : \A i \in DOMAIN batch[d] : batch[d][i] \in FrameType
      BY <1>1, ElementOfSeq, LenProperties DEF CallerTypes
    <2>9. Bystanders(c)
      <3>1. \A d \in Callers \ {c} : \A i \in DOMAIN batch[d] : answer'[batch[d][i].sn] = "none"
        BY <2>6, <2>7, <2>8 DEF SessionInv, AnswersOpen, FrameType
      <3>2. \A o \in Orders : answer'[o] # "none" => o \in asked
        BY <2>5, <2>7 DEF SessionInv, AnswersOpen
      <3> QED BY <1>1, <2>7, <3>1, <3>2 DEF Bystanders, CallerTypes
    <2>10. CASE Ends(c)
      <3>1. SessionInv'
        BY <2>2, <2>9, <2>10, BatchEnds
      <3>2. PlacementStep
        BY <2>3, <2>5, <2>10 DEF PlacementStep, Placement!PlacementNext, Placement!Answer, Told, Ends
      <3> QED BY <3>1, <3>2
    <2>11. CASE rest # <<>> /\ Send(c, rest)
      <3>1. Ends(c) \/ GoesOn(c, rest)
        BY <1>1, <2>2, <2>4, <2>11, SendFacts
      <3>2. CASE GoesOn(c, rest)
        <4>1. ASSUME NEW i \in DOMAIN rest
              PROVE  /\ rest[i].sn \notin asked /\ rest[i].sn <= seq'
                     /\ answer'[rest[i].sn] = "none"
          <5>1. i + 1 # 1 /\ i + 1 \in DOMAIN batch[c] /\ rest[i] = batch[c][i + 1] /\ rest[i] \in FrameType
            BY <2>2, <2>4, <2>8
          <5>2. rest[i].sn \notin asked /\ rest[i].sn # sn /\ rest[i].sn <= seq
            BY <2>2, <2>6, <5>1 DEF SessionInv, BatchesApart, NumbersDrawn
          <5>3. answer[rest[i].sn] = "none" /\ rest[i].sn \in Orders
            BY <2>2, <5>1 DEF SessionInv, AnswersOpen, FrameType
          <5> QED BY <2>7, <5>2, <5>3
        <4>2. ASSUME NEW i \in DOMAIN rest, NEW j \in DOMAIN rest, rest[i].sn = rest[j].sn
              PROVE  i = j
          <5>1. i + 1 = j + 1
            BY <2>2, <2>4, <4>2 DEF SessionInv, BatchesApart
          <5> QED BY <2>4, <5>1
        <4>3. \A d \in Callers \ {c} : \A i \in DOMAIN rest : \A j \in DOMAIN batch[d] :
                 rest[i].sn # batch[d][j].sn
          BY <2>2, <2>4 DEF SessionInv, BatchesApart
        <4>4. StillToSend(c, rest)
          BY <4>1, <4>2, <4>3 DEF StillToSend
        <4>5. SessionInv'
          BY <2>2, <2>4, <2>9, <2>11, <3>2, <4>4, BatchGoesOn
        <4>6. PlacementStep
          BY <2>3, <2>5, <3>2 DEF PlacementStep, Placement!PlacementNext, Placement!Answer, Told, GoesOn
        <4> QED BY <4>5, <4>6
      <3> QED BY <2>10, <3>1, <3>2
    <2> QED BY <2>3, <2>10, <2>11 DEF Ends
  <1> QED BY <1>2, <1>3

LEMMA StatusIsSafe ==
    ASSUME SessionInv, NEW s \in Sockets, Status(s)
    PROVE  SessionInv' /\ PlacementStep
  <1>1. down \in [Sockets -> Seq(Message)] /\ up \in [Sockets -> Seq(FrameType)] /\ CallerTypes
    BY DEF SessionInv, WireTypes
  <1>2. /\ down[s] # <<>> /\ Head(down[s]).mt = "status"
        /\ down' = [down EXCEPT ![s] = Tail(down[s])]
        /\ UNCHANGED <<socket, lastForwarded, seq, requestId, perpl>>
    BY DEF Status, idVars
  <1>3. /\ Head(down[s]) = down[s][1] /\ Head(down[s]) \in Message /\ 1 \in DOMAIN down[s]
        /\ Tail(down[s]) \in Seq(Message)
        /\ \A i \in DOMAIN Tail(down[s]) : i + 1 \in DOMAIN down[s] /\ Tail(down[s])[i] = down[s][i + 1]
    BY <1>1, <1>2, TailFacts
  <1>4. NoNewStatus
    <2>1. down' \in [Sockets -> Seq(Message)]
      BY <1>1, <1>2, <1>3
    <2>2. \A t \in Sockets : \A i \in DOMAIN down'[t] : \E j \in DOMAIN down[t] : down'[t][i] = down[t][j]
      BY <1>1, <1>2, <1>3
    <2> QED BY <2>1, <2>2 DEF NoNewStatus
  <1> DEFINE sn   == Head(down[s]).cid
             told == IF Head(down[s]).ok THEN "accepted" ELSE "refused"
  <1>5. sn \in Orders
    BY <1>2, <1>3 DEF Message
  <1>6. told \in Told /\ (told = "accepted" => sn \in perpl.placed) /\ (told = "refused" => sn \in perpl.refused)
    BY <1>2, <1>3 DEF SessionInv, VerdictsTrue, Told
  <1>7. UNCHANGED <<awaiting, batch, asked, answer, up>> \/ Resolve(sn, told)
    BY DEF Status, Settled, submitVars
  <1> HIDE DEF sn, told
  <1>8. CASE UNCHANGED <<awaiting, batch, asked, answer, up>>
    BY <1>1, <1>2, <1>4, <1>8, SocketStep DEF CallerTypes, NoNewStatus
  <1>9. CASE Resolve(sn, told)
    BY <1>2, <1>4, <1>5, <1>6, <1>9, ResolveIsSafe
  <1> QED BY <1>7, <1>8, <1>9

LEMMA TimeoutIsSafe ==
    ASSUME SessionInv, NEW sn \in Orders, AckTimeout(sn)
    PROVE  SessionInv' /\ PlacementStep
  <1>1. /\ Resolve(sn, "unanswered") /\ "unanswered" \in Told
        /\ UNCHANGED <<socket, lastForwarded, seq, requestId, down, perpl>>
    BY DEF AckTimeout, TimeoutAnswer, Told, idVars
  <1>2. NoNewStatus
    BY <1>1 DEF NoNewStatus, SessionInv, WireTypes
  <1> QED BY <1>1, <1>2, ResolveIsSafe

LEMMA SessionInvStep ==
    SessionInv /\ [SessionNext]_sessionVars => SessionInv' /\ PlacementStep
  <1> SUFFICES ASSUME SessionInv, [SessionNext]_sessionVars PROVE SessionInv' /\ PlacementStep
    OBVIOUS
  <1>1. CASE Reconnect
    BY <1>1, ReconnectIsSafe
  <1>2. ASSUME NEW s \in Sockets,
               SignIn(s) \/ Welcome(s) \/ ErrorEvent(s) \/ CloseEvent(s) \/ Snapshot(s)
        PROVE  SessionInv' /\ PlacementStep
    BY <1>2, SocketsAreSafe
  <1>3. ASSUME NEW s \in Sockets, PerplReads(s) \/ Status(s)
        PROVE  SessionInv' /\ PlacementStep
    BY <1>3, ReadingIsSafe, StatusIsSafe
  <1>4. ASSUME NEW c \in Callers, NEW n \in BatchSizes, Submit(c, n)
        PROVE  SessionInv' /\ PlacementStep
    BY <1>4, SubmitIsSafe
  <1>5. ASSUME NEW sn \in Orders, AckTimeout(sn)
        PROVE  SessionInv' /\ PlacementStep
    BY <1>5, TimeoutIsSafe
  <1>6. CASE UNCHANGED sessionVars
    <2>1. /\ UNCHANGED <<socket, lastForwarded, requestId, seq, up, down, batch, perpl, asked, answer>>
      BY <1>6 DEF sessionVars
    <2>2. \A s \in Sockets : \A i \in DOMAIN down'[s] : \E j \in DOMAIN down[s] : down'[s][i] = down[s][j]
      BY <2>1
    <2> QED BY <2>1, <2>2, SocketStep DEF SessionInv, WireTypes, CallerTypes
  <1> QED BY <1>1, <1>2, <1>3, <1>4, <1>5, <1>6 DEF SessionNext

(* Whatever the sockets do - reconnects, a late close of a socket that was *)
(* replaced, frames lost on the way, a timeout before the answer - an      *)
(* order is placed or refused once, and what submit tells of it is true    *)
(* (perplSession.ts 196-215, 304-337).                                     *)
THEOREM AnswersAreTrue == SessionSpec => ImplementsPlacement
  <1>1. SessionInit => SessionInv /\ Placement!PlacementInit
    BY SessionInvInit
  <1>2. SessionInv /\ [SessionNext]_sessionVars
           => SessionInv' /\ [Placement!PlacementNext]_(Placement!placementVars)
    BY SessionInvStep DEF PlacementStep
  <1> QED BY <1>1, <1>2, PTL DEF SessionSpec, ImplementsPlacement, Placement!PlacementSpec

(* A trigger goes out only behind an entry that was accepted, in every     *)
(* batch (perplOrders.ts 150-200, perplSession.ts 366).                    *)
THEOREM NoTriggerBeforeItsEntry == SessionSpec => []TriggersFollowTheEntry
  <1>1. SessionInv => TriggersFollowTheEntry
    <2> SUFFICES ASSUME SessionInv, NEW c \in Callers,
                        NEW i \in 1 .. Len(batch[c]), NEW j \in 1 .. Len(batch[c]), i < j
                 PROVE  batch[c][j].sn \notin asked
      BY DEF TriggersFollowTheEntry
    <2>1. j \in DOMAIN batch[c] /\ j # 1
      BY LenProperties DEF SessionInv, CallerTypes
    <2> QED BY <2>1 DEF SessionInv, BatchesApart
  <1> QED BY <1>1, SessionInvInit, SessionInvStep, PTL DEF SessionSpec

-----------------------------------------------------------------------------
(* Request ids.  They grow as they are drawn and along a batch, and no     *)
(* frame that Perpl has read was behind one that is still to be drawn.     *)
IdsDrawn ==
    /\ perpl.lfr <= requestId
    /\ \A s \in Sockets : \A i \in DOMAIN up[s] : up[s][i].rq <= requestId
    /\ \A c \in Callers : \A i \in DOMAIN batch[c] : batch[c][i].rq <= requestId
    /\ \A c \in Callers : \A i, j \in DOMAIN batch[c] : i < j => batch[c][i].rq < batch[c][j].rq

(* What waits for an answer and was sent is the first frame of a batch;    *)
(* what waits and was not sent (the send threw) is of no batch any more.   *)
AwaitedAreHeads ==
    /\ awaiting \subseteq Orders
    /\ \A o \in awaiting : o <= seq
    /\ \A o \in awaiting \cap asked :
          \E c \in Callers : 1 \in DOMAIN batch[c] /\ batch[c][1].sn = o
    /\ \A o \in awaiting \ asked : \A c \in Callers : \A i \in DOMAIN batch[c] : batch[c][i].sn # o

(* With one batch at a time the frame that is waited for is ahead of all   *)
(* that are on their way, and Perpl is behind it until it has placed it.   *)
HeadIsAhead ==
    /\ \A c, d \in Callers : 1 \in DOMAIN batch[c] /\ 1 \in DOMAIN batch[d] => c = d
    /\ \A c \in Callers : 1 \in DOMAIN batch[c] =>
          /\ \A s \in Sockets : \A i \in DOMAIN up[s] :
                IF up[s][i].sn = batch[c][1].sn THEN up[s][i].rq = batch[c][1].rq
                                                ELSE up[s][i].rq < batch[c][1].rq
          /\ perpl.lfr <= batch[c][1].rq
          /\ perpl.lfr = batch[c][1].rq => batch[c][1].sn \in perpl.placed

IdsInv == IdsDrawn /\ AwaitedAreHeads /\ (~overlapped => HeadIsAhead)

LEMMA FramesHaveIds ==
    ASSUME SessionInv
    PROVE  /\ \A s \in Sockets : \A i \in DOMAIN up[s] :
                 up[s][i] \in FrameType /\ up[s][i].rq \in Nat /\ up[s][i].sn \in Nat
           /\ \A c \in Callers : \A i \in DOMAIN batch[c] :
                 batch[c][i] \in FrameType /\ batch[c][i].rq \in Nat /\ batch[c][i].sn \in Nat
           /\ perpl.lfr \in Nat /\ requestId \in Nat /\ seq \in Nat
  <1>1. ASSUME NEW q \in Seq(FrameType), NEW i \in DOMAIN q
        PROVE  q[i] \in FrameType /\ q[i].rq \in Nat /\ q[i].sn \in Nat
    <2>1. q[i] \in FrameType
      BY ElementOfSeq, LenProperties
    <2> QED BY <2>1, OrdersAreNumbers DEF FrameType
  <1> QED BY <1>1 DEF SessionInv, WireTypes, CallerTypes

LEMMA IdsInvInit == SessionInit => IdsInv
  BY DEF SessionInit, IdsInv, IdsDrawn, AwaitedAreHeads, HeadIsAhead

(* Frames are lost, and nothing else moves.                                *)
LEMMA QuietIds ==
    ASSUME SessionInv, IdsInv,
           UNCHANGED <<requestId, seq, perpl, batch, asked, awaiting, overlapped>>,
           \A s \in Sockets : \A i \in DOMAIN up'[s] : i \in DOMAIN up[s] /\ up'[s][i] = up[s][i]
    PROVE  IdsInv'
  <1>1. IdsDrawn' /\ AwaitedAreHeads'
    BY DEF IdsInv, IdsDrawn, AwaitedAreHeads
  <1>2. HeadIsAhead => HeadIsAhead'
    BY DEF HeadIsAhead
  <1> QED BY <1>1, <1>2 DEF IdsInv

(* Perpl reads the first frame that is on its way over a socket.           *)
LEMMA ReadIds ==
    ASSUME SessionInv, IdsInv, NEW s \in Sockets, PerplReads(s)
    PROVE  IdsInv'
  <1> DEFINE f == up[s][1]
  <1>1. /\ up \in [Sockets -> Seq(FrameType)] /\ up[s] # <<>> /\ up' = [up EXCEPT ![s] = Tail(up[s])]
        /\ perpl \in [lfr : Nat, placed : SUBSET Orders, refused : SUBSET Orders]
        /\ UNCHANGED <<requestId, seq, batch, asked, awaiting, overlapped>>
    BY DEF SessionInv, WireTypes, PerplReads, idVars, submitVars
  <1>2. /\ Head(up[s]) = f /\ 1 \in DOMAIN up[s]
        /\ \A i \in DOMAIN Tail(up[s]) : i + 1 \in DOMAIN up[s] /\ Tail(up[s])[i] = up[s][i + 1]
    BY <1>1, TailFacts
  <1>3. ASSUME NEW t \in Sockets, NEW i \in DOMAIN up'[t]
        PROVE  \E j \in DOMAIN up[t] : up'[t][i] = up[t][j]
    BY <1>1, <1>2
  <1>4. \/ perpl'.lfr = perpl.lfr /\ perpl'.placed = perpl.placed
        \/ perpl'.lfr = f.rq /\ perpl'.placed = perpl.placed \cup {f.sn}
    BY <1>1, <1>2 DEF PerplReads
  <1>5. f.rq <= requestId /\ f.rq \in Nat /\ f.sn \notin perpl.placed
    BY <1>2, FramesHaveIds DEF IdsInv, IdsDrawn, SessionInv, OnTheirWay
  <1>6. IdsDrawn'
    BY <1>1, <1>3, <1>4, <1>5 DEF IdsInv, IdsDrawn
  <1>7. AwaitedAreHeads'
    BY <1>1 DEF IdsInv, AwaitedAreHeads
  <1>8. ASSUME HeadIsAhead PROVE HeadIsAhead'
    <2>1. ASSUME NEW c \in Callers, 1 \in DOMAIN batch[c]
          PROVE  /\ \A t \in Sockets : \A i \in DOMAIN up'[t] :
                       IF up'[t][i].sn = batch[c][1].sn THEN up'[t][i].rq = batch[c][1].rq
                                                        ELSE up'[t][i].rq < batch[c][1].rq
                 /\ perpl'.lfr <= batch[c][1].rq
                 /\ perpl'.lfr = batch[c][1].rq => batch[c][1].sn \in perpl'.placed
      <3>1. \A t \in Sockets : \A i \in DOMAIN up[t] :
               IF up[t][i].sn = batch[c][1].sn THEN up[t][i].rq = batch[c][1].rq
                                               ELSE up[t][i].rq < batch[c][1].rq
        BY <1>8, <2>1 DEF HeadIsAhead
      <3>2. IF f.sn = batch[c][1].sn THEN f.rq = batch[c][1].rq ELSE f.rq < batch[c][1].rq
        BY <1>2, <3>1
      <3>3. batch[c][1].rq \in Nat /\ perpl.lfr \in Nat
        BY <2>1, FramesHaveIds
      <3>4. /\ perpl.lfr <= batch[c][1].rq
            /\ perpl.lfr = batch[c][1].rq => batch[c][1].sn \in perpl.placed
        BY <1>8, <2>1 DEF HeadIsAhead
      <3>5. CASE perpl'.lfr = f.rq /\ perpl'.placed = perpl.placed \cup {f.sn}
        BY <1>3, <1>5, <3>1, <3>2, <3>3, <3>5
      <3>6. CASE perpl'.lfr = perpl.lfr /\ perpl'.placed = perpl.placed
        BY <1>3, <3>1, <3>4, <3>6
      <3> QED BY <1>4, <3>5, <3>6
    <2> QED BY <1>1, <1>8, <2>1 DEF HeadIsAhead
  <1> QED BY <1>1, <1>6, <1>7, <1>8 DEF IdsInv

(* The batch of a caller is over, or was none.                             *)
LEMMA EndIds ==
    ASSUME SessionInv, IdsInv, NEW c \in Callers,
           UNCHANGED <<up, asked, perpl>>, overlapped => overlapped',
           seq' \in Nat, requestId' \in Nat, seq <= seq', requestId <= requestId',
           \A d \in Callers : IF d = c THEN batch'[d] = <<>> ELSE batch'[d] = batch[d],
           awaiting' \subseteq Orders,
           \A o \in awaiting' :
              \/ o \in awaiting /\ (1 \in DOMAIN batch[c] => o # batch[c][1].sn)
              \/ /\ o <= seq' /\ o \notin asked
                 /\ \A d \in Callers \ {c} : \A i \in DOMAIN batch[d] : batch[d][i].sn # o
    PROVE  IdsInv'
  <1>1. \A d \in Callers : \A i \in DOMAIN batch'[d] :
           d # c /\ batch'[d] = batch[d] /\ i \in DOMAIN batch[d]
    OBVIOUS
  <1>2. IdsDrawn'
    <2>1. perpl'.lfr <= requestId'
      BY FramesHaveIds DEF IdsInv, IdsDrawn
    <2>2. \A s \in Sockets : \A i \in DOMAIN up'[s] : up'[s][i].rq <= requestId'
      BY FramesHaveIds DEF IdsInv, IdsDrawn
    <2>3. \A d \in Callers : \A i \in DOMAIN batch'[d] : batch'[d][i].rq <= requestId'
      BY <1>1, FramesHaveIds DEF IdsInv, IdsDrawn
    <2>4. \A d \in Callers : \A i, j \in DOMAIN batch'[d] : i < j => batch'[d][i].rq < batch'[d][j].rq
      BY <1>1 DEF IdsInv, IdsDrawn
    <2> QED BY <2>1, <2>2, <2>3, <2>4 DEF IdsDrawn
  <1>3. AwaitedAreHeads'
    <2>1. ASSUME NEW o \in awaiting' PROVE o <= seq'
      <3>1. o \in Nat
        BY OrdersAreNumbers
      <3>2. o \in awaiting => o <= seq
        BY DEF IdsInv, AwaitedAreHeads
      <3> QED BY <3>1, <3>2, FramesHaveIds
    <2>2. ASSUME NEW o \in awaiting' \cap asked'
          PROVE  \E d \in Callers : 1 \in DOMAIN batch'[d] /\ batch'[d][1].sn = o
      <3>1. o \in awaiting \cap asked /\ (1 \in DOMAIN batch[c] => o # batch[c][1].sn)
        BY <2>2
      <3>2. PICK d \in Callers : 1 \in DOMAIN batch[d] /\ batch[d][1].sn = o
        BY <3>1 DEF IdsInv, AwaitedAreHeads
      <3>3. d # c
        BY <3>1, <3>2
      <3> QED BY <3>2, <3>3
    <2>3. ASSUME NEW o \in awaiting' \ asked', NEW d \in Callers, NEW i \in DOMAIN batch'[d]
          PROVE  batch'[d][i].sn # o
      <3>1. d # c /\ batch'[d] = batch[d] /\ i \in DOMAIN batch[d]
        BY <1>1
      <3>2. CASE o \in awaiting
        <4>1. o \in awaiting \ asked
          BY <3>2, <2>3
        <4> QED BY <3>1, <4>1 DEF IdsInv, AwaitedAreHeads
      <3>3. CASE o \notin awaiting
        BY <3>1, <3>3
      <3> QED BY <3>2, <3>3
    <2> QED BY <2>1, <2>2, <2>3 DEF AwaitedAreHeads
  <1>4. HeadIsAhead => HeadIsAhead'
    BY <1>1 DEF HeadIsAhead
  <1> QED BY <1>2, <1>3, <1>4 DEF IdsInv

(* The next frame of a caller goes out: the first of a batch, or the first *)
(* of the rest of one.                                                     *)
LEMMA GoesOnIds ==
    ASSUME SessionInv, IdsInv, NEW c \in Callers, NEW frames \in Seq(FrameType), frames # <<>>,
           GoesOn(c, frames), UNCHANGED perpl, overlapped => overlapped',
           seq' \in Nat, requestId' \in Nat, seq <= seq', requestId <= requestId',
           frames[1].sn \notin asked, frames[1].sn <= seq',
           \A i \in DOMAIN frames : frames[i].rq <= requestId',
           \A i, j \in DOMAIN frames : i < j => frames[i].rq < frames[j].rq,
           \A i \in DOMAIN frames : i # 1 => \A o \in awaiting \ asked : frames[i].sn # o,
           \A i \in DOMAIN frames : i # 1 => frames[i].sn # frames[1].sn,
           \A d \in Callers \ {c} : \A i \in DOMAIN batch[d] : batch[d][i].sn # frames[1].sn,
           \A o \in awaiting' :
              \/ o \in awaiting /\ (1 \in DOMAIN batch[c] => o # batch[c][1].sn)
              \/ o = frames[1].sn,
           ~overlapped' =>
              /\ \A d \in Callers \ {c} : batch[d] = <<>>
              /\ perpl.lfr < frames[1].rq
              /\ \A s \in Sockets : \A i \in DOMAIN up[s] : up[s][i].rq < frames[1].rq
    PROVE  IdsInv'
  <1> DEFINE f == frames[1]
  <1>1. 1 \in DOMAIN frames /\ f \in FrameType /\ f.rq \in Nat /\ f.sn \in Orders /\ f.sn \in Nat
    <2>1. 1 \in DOMAIN frames /\ frames[1] \in FrameType
      BY TailFacts
    <2> QED BY <2>1, OrdersAreNumbers DEF FrameType
  <1>2. /\ asked' = asked \cup {f.sn}
        /\ batch'[c] = frames /\ \A d \in Callers \ {c} : batch'[d] = batch[d]
    BY DEF GoesOn, SessionInv, CallerTypes
  <1>3. ASSUME NEW s \in Sockets, NEW i \in DOMAIN up'[s]
        PROVE  \/ i \in DOMAIN up[s] /\ up'[s][i] = up[s][i]
               \/ up'[s][i] = f
    <2>1. CASE up' = up
      BY <2>1
    <2>2. ASSUME NEW t \in Sockets, up' = [up EXCEPT ![t] = Append(@, f)]
          PROVE  \/ i \in DOMAIN up[s] /\ up'[s][i] = up[s][i]
                 \/ up'[s][i] = f
      <3>1. /\ DOMAIN Append(up[t], f) = DOMAIN up[t] \cup {Len(up[t]) + 1}
            /\ Append(up[t], f)[Len(up[t]) + 1] = f
            /\ \A j \in DOMAIN up[t] : Append(up[t], f)[j] = up[t][j]
        BY <1>1, AppendFacts DEF SessionInv, WireTypes
      <3>2. up'[t] = Append(up[t], f) /\ \A u \in Sockets \ {t} : up'[u] = up[u]
        BY <2>2 DEF SessionInv, WireTypes
      <3>3. CASE s = t
        <4>1. i \in DOMAIN up[t] \cup {Len(up[t]) + 1} /\ up'[s][i] = Append(up[t], f)[i]
          BY <3>1, <3>2, <3>3
        <4> QED BY <3>1, <3>3, <4>1
      <3>4. CASE s # t
        BY <3>2, <3>4
      <3> QED BY <3>3, <3>4
    <2> QED BY <2>1, <2>2 DEF GoesOn
  <1>4. IdsDrawn'
    <2>1. perpl'.lfr <= requestId'
      BY FramesHaveIds DEF IdsInv, IdsDrawn
    <2>2. \A s \in Sockets : \A i \in DOMAIN up'[s] : up'[s][i].rq <= requestId'
      <3>1. \A s \in Sockets : \A i \in DOMAIN up[s] : up[s][i].rq <= requestId'
        BY FramesHaveIds DEF IdsInv, IdsDrawn
      <3> QED BY <1>1, <1>3, <3>1
    <2>3. ASSUME NEW d \in Callers
          PROVE  /\ \A i \in DOMAIN batch'[d] : batch'[d][i].rq <= requestId'
                 /\ \A i, j \in DOMAIN batch'[d] : i < j => batch'[d][i].rq < batch'[d][j].rq
      <3>1. CASE d = c
        BY <1>2, <3>1
      <3>2. CASE d # c
        BY <1>2, <3>2, FramesHaveIds DEF IdsInv, IdsDrawn
      <3> QED BY <3>1, <3>2
    <2> QED BY <2>1, <2>2, <2>3 DEF IdsDrawn
  <1>5. AwaitedAreHeads'
    <2>1. awaiting' \subseteq Orders
      BY <1>1 DEF IdsInv, AwaitedAreHeads
    <2>2. ASSUME NEW o \in awaiting' PROVE o <= seq'
      <3>1. o \in Nat
        BY <2>1, OrdersAreNumbers
      <3>2. o \in awaiting => o <= seq
        BY DEF IdsInv, AwaitedAreHeads
      <3> QED BY <3>1, <3>2, FramesHaveIds
    <2>3. ASSUME NEW o \in awaiting' \cap asked'
          PROVE  \E d \in Callers : 1 \in DOMAIN batch'[d] /\ batch'[d][1].sn = o
      <3>1. CASE o = f.sn
        BY <1>1, <1>2, <3>1
      <3>2. CASE o # f.sn
        <4>1. o \in awaiting \cap asked /\ (1 \in DOMAIN batch[c] => o # batch[c][1].sn)
          BY <1>2, <2>3, <3>2
        <4>2. PICK d \in Callers : 1 \in DOMAIN batch[d] /\ batch[d][1].sn = o
          BY <4>1 DEF IdsInv, AwaitedAreHeads
        <4>3. d # c
          BY <4>1, <4>2
        <4> QED BY <1>2, <4>2, <4>3
      <3> QED BY <3>1, <3>2
    <2>4. ASSUME NEW o \in awaiting' \ asked', NEW d \in Callers, NEW i \in DOMAIN batch'[d]
          PROVE  batch'[d][i].sn # o
      <3>1. o \in awaiting \ asked /\ o # f.sn
        BY <1>2, <2>4
      <3>2. CASE d = c
        BY <1>2, <3>1, <3>2
      <3>3. CASE d # c
        BY <1>2, <3>1, <3>3 DEF IdsInv, AwaitedAreHeads
      <3> QED BY <3>2, <3>3
    <2> QED BY <2>1, <2>2, <2>3, <2>4 DEF AwaitedAreHeads
  <1>6. ASSUME ~overlapped' PROVE HeadIsAhead'
    <2>1. \A d \in Callers : 1 \in DOMAIN batch'[d] => d = c
      BY <1>2, <1>6
    <2>2. ASSUME NEW s \in Sockets, NEW i \in DOMAIN up'[s]
          PROVE  IF up'[s][i].sn = f.sn THEN up'[s][i].rq = f.rq ELSE up'[s][i].rq < f.rq
      <3>1. CASE i \in DOMAIN up[s] /\ up'[s][i] = up[s][i]
        <4>1. up[s][i].sn # f.sn
          BY <3>1 DEF SessionInv, OnTheirWay
        <4> QED BY <1>6, <3>1, <4>1
      <3>2. CASE up'[s][i] = f
        BY <3>2
      <3> QED BY <1>3, <3>1, <3>2
    <2>3. perpl'.lfr < f.rq /\ perpl'.lfr \in Nat
      BY <1>6, FramesHaveIds
    <2> QED BY <1>1, <1>2, <2>1, <2>2, <2>3 DEF HeadIsAhead
  <1> QED BY <1>4, <1>5, <1>6 DEF IdsInv

LEMMA SubmitIds ==
    ASSUME SessionInv, IdsInv, NEW c \in Callers, NEW n \in BatchSizes, Submit(c, n)
    PROVE  IdsInv'
  <1> DEFINE ids    == NextIds(n)
             base   == IF requestId > lastForwarded THEN requestId ELSE lastForwarded
             frames == [i \in 1 .. n |-> Frame(ids[i], seq + i)]
  <1>1. n \in Nat \ {0} /\ OrderBound \in Nat
    BY SessionAssumption DEF SessionAssumption
  <1>2. CallerTypes /\ WireTypes
    BY DEF SessionInv
  <1>3. base \in Nat /\ base >= requestId /\ requestId \in Nat /\ seq \in Nat
    BY <1>2 DEF CallerTypes
  <1>4. \A i \in 1 .. n : ids[i] = base + i
    BY DEF NextIds
  <1>5. /\ batch[c] = <<>> /\ seq + n <= OrderBound
        /\ requestId' = ids[n] /\ seq' = seq + n /\ UNCHANGED perpl
        /\ \/ /\ Send(c, frames) /\ awaiting' = awaiting \cup {Head(frames).sn}
              /\ overlapped' = (overlapped \/ \E d \in Callers : batch[d] # <<>>)
           \/ UNCHANGED <<batch, asked, up, awaiting, overlapped>>
    BY DEF Submit
  <1>6. requestId' = base + n
    BY <1>1, <1>4, <1>5
  <1>7. /\ DOMAIN frames = 1 .. n
        /\ \A i \in 1 .. n : frames[i] \in FrameType /\ frames[i].sn = seq + i /\ frames[i].rq = base + i
    <2>1. DOMAIN frames = 1 .. n
      OBVIOUS
    <2>2. ASSUME NEW i \in 1 .. n
          PROVE  frames[i] \in FrameType /\ frames[i].sn = seq + i /\ frames[i].rq = base + i
      <3>1. frames[i] = [rq |-> base + i, sn |-> seq + i]
        BY <1>4 DEF Frame
      <3>2. base + i \in Nat /\ seq + i \in Orders
        BY <1>1, <1>3, <1>5 DEF Orders
      <3> QED BY <3>1, <3>2 DEF FrameType
    <2> QED BY <2>1, <2>2
  <1>8. frames \in [1 .. n -> FrameType]
    BY <1>7
  <1> HIDE DEF ids, base, frames
  <1>9. frames \in Seq(FrameType) /\ frames # <<>>
    BY <1>1, <1>7, <1>8, SeqDef
  <1>10. Head(frames) = frames[1] /\ 1 \in DOMAIN frames /\ frames[1].sn = seq + 1 /\ frames[1].rq = base + 1
    BY <1>1, <1>7, <1>9, TailFacts
  <1>11. /\ seq' \in Nat /\ requestId' \in Nat /\ seq <= seq' /\ requestId <= requestId'
         /\ frames[1].sn <= seq'
         /\ \A i \in DOMAIN frames : frames[i].rq <= requestId'
         /\ \A i, j \in DOMAIN frames : i < j => frames[i].rq < frames[j].rq
         /\ \A i \in DOMAIN frames : i # 1 => frames[i].sn # frames[1].sn
    BY <1>1, <1>3, <1>5, <1>6, <1>7, <1>10
  <1>12. frames[1].sn \notin asked /\ frames[1].sn \in Orders
    <2>1. \A o \in asked : o \in Nat /\ o <= seq
      BY OrdersAreNumbers DEF SessionInv, NumbersDrawn, CallerTypes
    <2>2. frames[1] \in FrameType
      BY <1>1, <1>7
    <2> QED BY <1>3, <1>10, <2>1, <2>2 DEF FrameType
  <1>13. \A d \in Callers : \A i \in DOMAIN batch[d] : batch[d][i].sn # frames[1].sn
    <2>1. \A d \in Callers : \A i \in DOMAIN batch[d] : batch[d][i].sn \in Nat /\ batch[d][i].sn <= seq
      BY FramesHaveIds DEF SessionInv, NumbersDrawn
    <2> QED BY <1>3, <1>10, <2>1
  <1>14. \A o \in awaiting : o \in Nat /\ o <= seq /\ o \in Orders
    BY OrdersAreNumbers DEF IdsInv, AwaitedAreHeads
  <1>15. 1 \notin DOMAIN batch[c]
    BY <1>5
  <1>16. CASE UNCHANGED <<batch, asked, up, awaiting, overlapped>>
    BY <1>5, <1>11, <1>14, <1>15, <1>16, EndIds
  <1>17. CASE /\ Send(c, frames) /\ awaiting' = awaiting \cup {Head(frames).sn}
              /\ overlapped' = (overlapped \/ \E d \in Callers : batch[d] # <<>>)
    <2>1. Ends(c) \/ GoesOn(c, frames)
      BY <1>2, <1>9, <1>17, SendFacts
    <2>2. awaiting' = awaiting \cup {frames[1].sn} /\ (overlapped => overlapped')
      BY <1>10, <1>17
    <2>3. CASE Ends(c)
      <3>1. \A d \in Callers : IF d = c THEN batch'[d] = <<>> ELSE batch'[d] = batch[d]
        BY <1>2, <2>3 DEF Ends, CallerTypes
      <3>2. /\ awaiting' \subseteq Orders
            /\ \A o \in awaiting' :
                  \/ o \in awaiting /\ (1 \in DOMAIN batch[c] => o # batch[c][1].sn)
                  \/ /\ o <= seq' /\ o \notin asked
                     /\ \A d \in Callers \ {c} : \A i \in DOMAIN batch[d] : batch[d][i].sn # o
        BY <1>11, <1>12, <1>13, <1>14, <1>15, <2>2
      <3> QED BY <1>5, <1>11, <2>2, <2>3, <3>1, <3>2, EndIds DEF Ends
    <2>4. CASE GoesOn(c, frames)
      <3>1. \A i \in DOMAIN frames : i # 1 => \A o \in awaiting \ asked : frames[i].sn # o
        BY <1>1, <1>3, <1>7, <1>14
      <3>2. ~overlapped' =>
               /\ \A d \in Callers \ {c} : batch[d] = <<>>
               /\ perpl.lfr < frames[1].rq
               /\ \A s \in Sockets : \A i \in DOMAIN up[s] : up[s][i].rq < frames[1].rq
        <4>1. perpl.lfr <= requestId /\ perpl.lfr \in Nat
          BY FramesHaveIds DEF IdsInv, IdsDrawn
        <4>2. \A s \in Sockets : \A i \in DOMAIN up[s] : up[s][i].rq <= requestId /\ up[s][i].rq \in Nat
          BY FramesHaveIds DEF IdsInv, IdsDrawn
        <4>3. perpl.lfr < frames[1].rq
          BY <1>3, <1>10, <4>1
        <4>4. \A s \in Sockets : \A i \in DOMAIN up[s] : up[s][i].rq < frames[1].rq
          BY <1>3, <1>10, <4>2
        <4> QED BY <1>17, <4>3, <4>4
      <3>3. \A o \in awaiting' :
               \/ o \in awaiting /\ (1 \in DOMAIN batch[c] => o # batch[c][1].sn)
               \/ o = frames[1].sn
        BY <1>15, <2>2
      <3> QED BY <1>5, <1>9, <1>11, <1>12, <1>13, <2>2, <2>4, <3>1, <3>2, <3>3, GoesOnIds
    <2> QED BY <2>1, <2>3, <2>4
  <1> QED BY <1>5, <1>16, <1>17

LEMMA ResolveIds ==
    ASSUME SessionInv, IdsInv, NEW sn \in Orders, NEW told, Resolve(sn, told),
           UNCHANGED <<seq, requestId, perpl, overlapped>>
    PROVE  IdsInv'
  <1>1. CallerTypes /\ WireTypes
    BY DEF SessionInv
  <1>2. CASE ~\E d \in Callers : batch[d] # <<>> /\ Head(batch[d]).sn = sn
    <2>1. awaiting' = awaiting \ {sn} /\ UNCHANGED <<batch, asked, up>>
      BY <1>2 DEF Resolve
    <2>2. IdsDrawn' /\ (HeadIsAhead => HeadIsAhead')
      BY <2>1 DEF IdsInv, IdsDrawn, HeadIsAhead
    <2>3. AwaitedAreHeads'
      BY <2>1 DEF IdsInv, AwaitedAreHeads
    <2> QED BY <2>2, <2>3 DEF IdsInv
  <1>3. CASE \E d \in Callers : batch[d] # <<>> /\ Head(batch[d]).sn = sn
    <2> DEFINE c    == CHOOSE d \in Callers : batch[d] # <<>> /\ Head(batch[d]).sn = sn
               rest == Tail(batch[c])
    <2>1. c \in Callers /\ batch[c] # <<>> /\ Head(batch[c]).sn = sn
      BY <1>3
    <2>2. \/ rest # <<>> /\ Send(c, rest) /\ awaiting' = (awaiting \ {sn}) \cup {Head(rest).sn}
          \/ batch' = [batch EXCEPT ![c] = <<>>] /\ UNCHANGED <<asked, up>> /\ awaiting' = awaiting \ {sn}
      BY <1>3 DEF Resolve
    <2>3. /\ batch[c] \in Seq(FrameType) /\ Head(batch[c]) = batch[c][1] /\ 1 \in DOMAIN batch[c]
          /\ rest \in Seq(FrameType)
          /\ \A i \in DOMAIN rest : /\ i \in Nat \ {0} /\ i + 1 \in DOMAIN batch[c]
                                    /\ rest[i] = batch[c][i + 1]
      BY <1>1, <2>1, TailFacts DEF CallerTypes
    <2> HIDE DEF c, rest
    <2>4. /\ sn = batch[c][1].sn /\ seq \in Nat /\ requestId \in Nat
          /\ \A o \in awaiting : o \in Orders /\ o \in Nat /\ o <= seq
      BY <2>1, <2>3, FramesHaveIds, OrdersAreNumbers DEF IdsInv, AwaitedAreHeads
    <2>5. ASSUME Ends(c), awaiting' \subseteq Orders,
                 \A o \in awaiting' :
                    \/ o \in awaiting /\ o # sn
                    \/ o <= seq /\ o \notin asked /\ \A d \in Callers \ {c} : \A i \in DOMAIN batch[d] : batch[d][i].sn # o
          PROVE  IdsInv'
      <3>1. \A d \in Callers : IF d = c THEN batch'[d] = <<>> ELSE batch'[d] = batch[d]
        BY <1>1, <2>5 DEF Ends, CallerTypes
      <3> QED BY <2>1, <2>4, <2>5, <3>1, EndIds DEF Ends
    <2>6. CASE batch' = [batch EXCEPT ![c] = <<>>] /\ UNCHANGED <<asked, up>> /\ awaiting' = awaiting \ {sn}
      BY <2>4, <2>5, <2>6 DEF Ends
    <2>7. CASE rest # <<>> /\ Send(c, rest) /\ awaiting' = (awaiting \ {sn}) \cup {Head(rest).sn}
      <3>1. Head(rest) = rest[1] /\ 1 \in DOMAIN rest
        BY <2>3, <2>7, TailFacts
      <3>2. /\ 2 \in DOMAIN batch[c] /\ rest[1] = batch[c][2] /\ rest[1] \in FrameType
            /\ rest[1].sn \in Orders /\ rest[1].sn \in Nat
        <4>1. 1 + 1 \in DOMAIN batch[c] /\ rest[1] = batch[c][1 + 1]
          BY <2>3, <3>1
        <4>2. 2 \in DOMAIN batch[c] /\ rest[1] = batch[c][2] /\ rest[1] \in FrameType
          BY <2>1, <4>1, FramesHaveIds
        <4> QED BY <4>2, OrdersAreNumbers DEF FrameType
      <3>3. /\ rest[1].sn \notin asked /\ rest[1].sn <= seq
            /\ \A d \in Callers \ {c} : \A i \in DOMAIN batch[d] : batch[d][i].sn # rest[1].sn
        BY <2>1, <3>2 DEF SessionInv, BatchesApart, NumbersDrawn
      <3>4. Ends(c) \/ GoesOn(c, rest)
        BY <1>1, <2>1, <2>3, <2>7, SendFacts
      <3>5. awaiting' = (awaiting \ {sn}) \cup {rest[1].sn}
        BY <2>7, <3>1
      <3>6. CASE Ends(c)
        BY <2>4, <2>5, <3>2, <3>3, <3>5, <3>6
      <3>7. CASE GoesOn(c, rest)
        <4>1. \A i \in DOMAIN rest : rest[i].rq <= requestId
          BY <2>1, <2>3 DEF IdsInv, IdsDrawn
        <4>2. ASSUME NEW i \in DOMAIN rest, NEW j \in DOMAIN rest, i < j
              PROVE  rest[i].rq < rest[j].rq
          <5>1. i + 1 \in DOMAIN batch[c] /\ j + 1 \in DOMAIN batch[c] /\ i + 1 < j + 1
            BY <2>3, <4>2
          <5>2. batch[c][i + 1].rq < batch[c][j + 1].rq
            BY <2>1, <5>1 DEF IdsInv, IdsDrawn
          <5> QED BY <2>3, <5>2
        <4>3. \A i \in DOMAIN rest : i # 1 => \A o \in awaiting \ asked : rest[i].sn # o
          BY <2>1, <2>3 DEF IdsInv, AwaitedAreHeads
        <4>4. ASSUME NEW i \in DOMAIN rest, i # 1 PROVE rest[i].sn # rest[1].sn
          <5>1. i + 1 \in DOMAIN batch[c] /\ i + 1 # 2 /\ rest[i] = batch[c][i + 1]
            BY <2>3, <4>4
          <5> QED BY <2>1, <3>2, <5>1 DEF SessionInv, BatchesApart
        <4>5. \A o \in awaiting' :
                 \/ o \in awaiting /\ (1 \in DOMAIN batch[c] => o # batch[c][1].sn)
                 \/ o = rest[1].sn
          BY <2>4, <3>5
        <4>6. ASSUME ~overlapped'
              PROVE  /\ \A d \in Callers \ {c} : batch[d] = <<>>
                     /\ perpl.lfr < rest[1].rq
                     /\ \A s \in Sockets : \A i \in DOMAIN up[s] : up[s][i].rq < rest[1].rq
          <5>1. HeadIsAhead
            BY <4>6 DEF IdsInv
          <5>2. batch[c][1].rq < rest[1].rq /\ batch[c][1].rq \in Nat /\ rest[1].rq \in Nat
            BY <2>1, <2>3, <3>2, FramesHaveIds DEF IdsInv, IdsDrawn
          <5>3. perpl.lfr <= batch[c][1].rq /\ perpl.lfr \in Nat
            BY <2>1, <2>3, <5>1, FramesHaveIds DEF HeadIsAhead
          <5>4. ASSUME NEW s \in Sockets, NEW i \in DOMAIN up[s]
                PROVE  up[s][i].rq <= batch[c][1].rq /\ up[s][i].rq \in Nat
            <6>1. up[s][i].rq \in Nat
              BY FramesHaveIds
            <6>2. IF up[s][i].sn = batch[c][1].sn THEN up[s][i].rq = batch[c][1].rq
                                                  ELSE up[s][i].rq < batch[c][1].rq
              BY <2>1, <2>3, <5>1 DEF HeadIsAhead
            <6> QED BY <5>2, <6>1, <6>2
          <5>5. ASSUME NEW d \in Callers \ {c} PROVE batch[d] = <<>>
            <6>1. batch[d] \in Seq(FrameType)
              BY <1>1 DEF CallerTypes
            <6>2. 1 \notin DOMAIN batch[d]
              BY <2>1, <2>3, <5>1 DEF HeadIsAhead
            <6> QED BY <6>1, <6>2, TailFacts
          <5> QED BY <5>2, <5>3, <5>4, <5>5
        <4>7. rest \in Seq(FrameType) /\ rest # <<>> /\ UNCHANGED <<perpl, seq, requestId, overlapped>>
          BY <2>3, <2>7
        <4>8. /\ seq' \in Nat /\ requestId' \in Nat /\ seq <= seq' /\ requestId <= requestId'
              /\ rest[1].sn <= seq' /\ \A i \in DOMAIN rest : rest[i].rq <= requestId'
          BY <2>4, <3>3, <4>1, <4>7
        <4> QED BY <2>1, <3>3, <3>7, <4>2, <4>3, <4>4, <4>5, <4>6, <4>7, <4>8, GoesOnIds
      <3> QED BY <3>4, <3>6, <3>7
    <2> QED BY <2>2, <2>6, <2>7
  <1> QED BY <1>2, <1>3

LEMMA IdsInvStep == SessionInv /\ IdsInv /\ [SessionNext]_sessionVars => IdsInv'
  <1> SUFFICES ASSUME SessionInv, IdsInv, [SessionNext]_sessionVars PROVE IdsInv'
    OBVIOUS
  <1>1. CASE Reconnect \/ UNCHANGED sessionVars
    BY <1>1, QuietIds DEF Reconnect, sessionVars, idVars, submitVars
  <1>2. ASSUME NEW s \in Sockets, SignIn(s) \/ Welcome(s) \/ ErrorEvent(s) \/ CloseEvent(s) \/ Snapshot(s)
        PROVE  IdsInv'
    <2>1. UNCHANGED <<requestId, seq, perpl, batch, asked, awaiting, overlapped>>
      BY <1>2 DEF SignIn, Welcome, ErrorEvent, CloseEvent, Snapshot, idVars, submitVars
    <2>2. up \in [Sockets -> Seq(FrameType)] /\ (up' = up \/ up' = [up EXCEPT ![s] = <<>>])
      BY <1>2 DEF SignIn, Welcome, ErrorEvent, CloseEvent, Snapshot, Lost, SessionInv, WireTypes
    <2>3. \A t \in Sockets : \A i \in DOMAIN up'[t] : i \in DOMAIN up[t] /\ up'[t][i] = up[t][i]
      BY <2>2
    <2> QED BY <2>1, <2>3, QuietIds
  <1>3. ASSUME NEW s \in Sockets, PerplReads(s) PROVE IdsInv'
    BY <1>3, ReadIds
  <1>4. ASSUME NEW s \in Sockets, Status(s) PROVE IdsInv'
    <2>1. UNCHANGED <<seq, requestId, perpl, overlapped>>
      BY <1>4 DEF Status, idVars
    <2>2. \/ UNCHANGED <<awaiting, batch, asked, up>>
          \/ \E sn \in awaiting, told \in Told : Resolve(sn, told)
      BY <1>4 DEF Status, Settled, submitVars, Told
    <2>3. CASE UNCHANGED <<awaiting, batch, asked, up>>
      BY <2>1, <2>3, QuietIds
    <2>4. ASSUME NEW sn \in awaiting, NEW told \in Told, Resolve(sn, told) PROVE IdsInv'
      BY <2>1, <2>4, ResolveIds DEF IdsInv, AwaitedAreHeads
    <2> QED BY <2>2, <2>3, <2>4
  <1>5. ASSUME NEW c \in Callers, NEW n \in BatchSizes, Submit(c, n) PROVE IdsInv'
    BY <1>5, SubmitIds
  <1>6. ASSUME NEW sn \in Orders, AckTimeout(sn) PROVE IdsInv'
    <2>1. Resolve(sn, TimeoutAnswer) /\ UNCHANGED <<seq, requestId, perpl, overlapped>>
      BY <1>6 DEF AckTimeout, idVars
    <2> QED BY <2>1, ResolveIds
  <1> QED BY <1>1, <1>2, <1>3, <1>4, <1>5, <1>6 DEF SessionNext

(* With one batch at a time, a frame that somebody waits for reaches Perpl *)
(* with an id that is still ahead, whatever the sockets do: an order is    *)
(* refused for its id only when it was given up or two batches were under  *)
(* way (perplSession.ts 107-111, 304-307).                                 *)
THEOREM OneBatchIsNeverLate == SessionSpec => []IdsStayAhead
  <1>1. SessionInv /\ IdsInv => IdsStayAhead
    <2> SUFFICES ASSUME SessionInv, IdsInv, ~overlapped, NEW s \in Sockets, NEW i \in 1 .. Len(up[s]),
                        up[s][i].rq <= perpl.lfr, up[s][i].sn \in awaiting
                 PROVE  FALSE
      BY DEF IdsStayAhead
    <2>1. i \in DOMAIN up[s] /\ up[s][i].sn \in asked \ perpl.placed
      BY LenProperties DEF SessionInv, WireTypes, OnTheirWay
    <2>2. PICK c \in Callers : 1 \in DOMAIN batch[c] /\ batch[c][1].sn = up[s][i].sn
      BY <2>1 DEF IdsInv, AwaitedAreHeads
    <2>3. /\ up[s][i].rq = batch[c][1].rq /\ perpl.lfr <= batch[c][1].rq
          /\ perpl.lfr # batch[c][1].rq
      BY <2>1, <2>2 DEF IdsInv, HeadIsAhead
    <2> QED BY <2>1, <2>2, <2>3, FramesHaveIds
  <1>2. SessionInit => SessionInv /\ IdsInv
    BY SessionInvInit, IdsInvInit
  <1>3. SessionInv /\ IdsInv /\ [SessionNext]_sessionVars => (SessionInv /\ IdsInv)'
    BY SessionInvStep, IdsInvStep
  <1> QED BY <1>1, <1>2, <1>3, PTL DEF SessionSpec
=============================================================================
