----------------------------- MODULE PoWService -----------------------------
(***************************************************************************)
(* pkg/pow/service.go: the table of challenges.  It is a sync.Map, whose   *)
(* operations are atomic, and a nonce is random: no two challenges share   *)
(* one.  The prefix is as random, so the nonce stands for both.            *)
(*                                                                         *)
(* A challenge's age counts the clock ticks since its creation, up to TTL; *)
(* from then on it has expired.                                            *)
(***************************************************************************)
EXTENDS Integers, GoMap

CONSTANTS
    Nonces,         \* bound: challenges that can be in use at a time
    Difficulties,   \* the difficulties callers ask for
    TTL             \* ttl, in clock ticks

ASSUME PoWAssumption ==
    /\ Difficulties \subseteq 0 .. 255
    /\ TTL \in Nat

VARIABLE challenges     \* nonce -> challenge

Challenge == [nonce : Nonces, difficulty : Difficulties \ {0}, age : 0 .. TTL]

ChallengesType == challenges \in MapsOf(Nonces, Challenge)

NoChallenges == challenges = EmptyMap

NewChallenge(nonce, difficulty) ==
    [nonce |-> nonce, difficulty |-> difficulty, age |-> 0]

\* CreateChallenge, with a random nonce; the goroutine that it starts is
\* Forget below.
CreateChallenge(nonce, difficulty) ==
    /\ difficulty # 0
    /\ nonce \notin DOMAIN challenges
    /\ challenges' = Put(challenges, nonce, NewChallenge(nonce, difficulty))

Expired(challenge) == challenge.age = TTL

\* VerifySolution, which looks the challenge up by the nonce of the solution.
\* zeros counts what the hash of prefix and solution starts with; it is zero
\* if the prefix is not that challenge's, which fails as surely.
EnoughZeros(solution, challenge) == solution.zeros >= challenge.difficulty

VerifyWithoutExpiry(solution) ==
    /\ solution.nonce \in DOMAIN challenges
    /\ EnoughZeros(solution, challenges[solution.nonce])
VerifySolution(solution) ==
    /\ solution.nonce \in DOMAIN challenges
    /\ LET challenge == challenges[solution.nonce] IN
       /\ ~Expired(challenge)
       /\ EnoughZeros(solution, challenge)

\* The goroutine of CreateChallenge has slept for the TTL.
ForgetEarly(nonce) ==
    /\ nonce \in DOMAIN challenges
    /\ challenges[nonce].age > 0
    /\ challenges' = Delete(challenges, nonce)
ForgetOnceOlder(nonce) ==
    /\ nonce \in DOMAIN challenges
    /\ challenges[nonce].age > TTL
    /\ challenges' = Delete(challenges, nonce)
Forget(nonce) ==
    /\ nonce \in DOMAIN challenges
    /\ Expired(challenges[nonce])
    /\ challenges' = Delete(challenges, nonce)

\* One clock tick passes for a challenge and for the table.
Older(challenge) ==
    IF Expired(challenge) THEN challenge ELSE [challenge EXCEPT !.age = @ + 1]
ChallengesAge ==
    challenges' = [nonce \in DOMAIN challenges |-> Older(challenges[nonce])]
=============================================================================
