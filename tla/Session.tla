------------------------------ MODULE Session -------------------------------
(***************************************************************************)
(* The exchange on a connection, as the server's handler conducts it:      *)
(* handleConnection of pkg/server/server.go with pkg/server/messages.go,   *)
(* pkg/protocol and utils.ReadFull, over the table of challenges that all  *)
(* handlers share.  How connections get to their handlers is in Server.    *)
(*                                                                         *)
(* A message of the peer is what the server makes of it.  Its header and   *)
(* its payload arrive separately.  A deadline is kept as the clock ticks   *)
(* left; at zero, reads and writes fail at once, as Go's do.               *)
(***************************************************************************)
EXTENDS PoWService, Sequences

CONSTANTS
    Conns,          \* connections
    None,           \* no message, no challenge
    Zeros,          \* bound: the zeros of the hashes tried
    ReadTimeout     \* s.cfg.ReadTimeout, in clock ticks

ASSUME SessionAssumption ==
    /\ Difficulties \subseteq Zeros
    /\ Zeros \subseteq Nat
    /\ ReadTimeout \in Nat \ {0}

\* What arrives: a solution; or a message that its header betrays, with a
\* wrong version, too large a payload or none; or another message.
Malformed == [kind : {"badHeader", "noSolution"}]
Solutions == [kind : {"solution"}, nonce : Nonces, zeros : Zeros]

\* What the server sends.
ChallengeMessages == [type : {"challenge"}, nonce : Nonces,
                      difficulty : Difficulties \ {0}]
Answers == [type : {"quote", "error"}]

ASSUME NoneAssumption ==
    None \notin Challenge \cup Malformed \cup Solutions \cup ChallengeMessages

VARIABLES
    handler,    \* the handlers, and the connections waiting for one
    held,       \* the challenge a handler has created
    readLeft, writeLeft,    \* deadlines: of the read that goes on, of writes
    toServer,   \* the peer's message, until it is verified
    arrived,    \* the parts of it that have arrived: header, payload
    toPeer      \* messages sent and not read by the peer

handlerVars == <<handler, held, readLeft, writeLeft>>
sessionVars == <<handlerVars, toServer, arrived, toPeer, challenges>>

Reading == {"header", "payload"}
Handling == {"create", "challenge", "verify", "quote", "invalid", "internal",
             "served", "failed"} \cup Reading

SessionType ==
    /\ ChallengesType
    /\ handler \in [Conns -> {"none", "backlog"} \cup Handling]
    /\ held \in [Conns -> Challenge \cup {None}]
    /\ readLeft \in [Conns -> 0 .. ReadTimeout]
    /\ writeLeft \in [Conns -> 0 .. ReadTimeout]
    /\ toServer \in [Conns -> Malformed \cup Solutions \cup {None}]
    /\ arrived \in [Conns -> 0 .. 2]
    /\ toPeer \in [Conns -> Seq(ChallengeMessages \cup Answers)]

SessionInit ==
    /\ NoChallenges
    /\ handler = [c \in Conns |-> "none"]
    /\ held = [c \in Conns |-> None]
    /\ readLeft = [c \in Conns |-> 0]
    /\ writeLeft = [c \in Conns |-> 0]
    /\ toServer = [c \in Conns |-> None]
    /\ arrived = [c \in Conns |-> 0]
    /\ toPeer = [c \in Conns |-> <<>>]

HandlerGoes(c, next) == handler' = [handler EXCEPT ![c] = next]

\* handleConnection starts.  SetDeadline covers reads too, but every read
\* sets its own deadline before it begins.
Handle(c) ==
    /\ handler[c] = "backlog"
    /\ HandlerGoes(c, "create")
    /\ writeLeft' = [writeLeft EXCEPT ![c] = ReadTimeout]
    /\ UNCHANGED <<held, readLeft, toServer, arrived, toPeer, challenges>>

\* ReadFull sets a deadline of its own, which matters as long as it reads.
StartRead(c) == readLeft' = [readLeft EXCEPT ![c] = ReadTimeout]
EndRead(c) == readLeft' = [readLeft EXCEPT ![c] = 0]

\* A random nonce is none of those that are around.
InUse(nonce) ==
    \E c \in Conns :
        \/ held[c] # None /\ held[c].nonce = nonce
        \/ toServer[c] # None /\ toServer[c].kind = "solution"
           /\ toServer[c].nonce = nonce

\* The difficulty of the moment is read and a challenge created; or it
\* cannot be, because the difficulty is zero or random bytes are lacking.
Create(c) ==
    /\ handler[c] = "create"
    /\ \/ \E difficulty \in Difficulties, nonce \in Nonces :
              /\ ~InUse(nonce)
              /\ CreateChallenge(nonce, difficulty)
              /\ held' = [held EXCEPT ![c] = NewChallenge(nonce, difficulty)]
              /\ HandlerGoes(c, "challenge")
       \/ HandlerGoes(c, "internal") /\ UNCHANGED <<held, challenges>>
    /\ UNCHANGED <<readLeft, writeLeft, toServer, arrived, toPeer>>

\* sendMessage.  A peer that is gone may be noticed or not.
WriteLost(c, peerThere, message, next) ==
    /\ HandlerGoes(c, next)
    /\ UNCHANGED <<toPeer, held, writeLeft, toServer, arrived, challenges>>
Write(c, peerThere, message, next) ==
    /\ \/ /\ writeLeft[c] > 0
          /\ HandlerGoes(c, next)
          /\ toPeer' = IF peerThere THEN [toPeer EXCEPT ![c] = Append(@, message)]
                       ELSE toPeer
       \/ /\ writeLeft[c] = 0 \/ ~peerThere
          /\ HandlerGoes(c, "failed")
          /\ UNCHANGED toPeer
    /\ UNCHANGED <<held, writeLeft, toServer, arrived, challenges>>

\* sendChallenge; the message of an expired challenge is not valid.
SendChallenge(c, peerThere) ==
    /\ handler[c] = "challenge"
    /\ ~Expired(held[c])
    /\ Write(c, peerThere,
             [type |-> "challenge", nonce |-> held[c].nonce,
              difficulty |-> held[c].difficulty], "header")
    /\ StartRead(c)

ChallengeInvalid(c) ==
    /\ handler[c] = "challenge"
    /\ Expired(held[c])
    /\ HandlerGoes(c, "failed")
    /\ UNCHANGED <<held, readLeft, writeLeft, toServer, arrived, toPeer,
                   challenges>>

\* readMessage and readSolution: the header, then the payload.
Read(c, next) ==
    /\ HandlerGoes(c, next)
    /\ IF next \in Reading THEN StartRead(c) ELSE EndRead(c)
    /\ UNCHANGED <<held, writeLeft, toServer, arrived, toPeer, challenges>>

ReadHeader(c) ==
    /\ handler[c] = "header" /\ arrived[c] > 0 /\ readLeft[c] > 0
    /\ Read(c, IF toServer[c].kind = "badHeader" THEN "failed" ELSE "payload")

ReadPayload(c) ==
    /\ handler[c] = "payload" /\ arrived[c] = 2 /\ readLeft[c] > 0
    /\ Read(c, IF toServer[c].kind = "solution" THEN "verify" ELSE "failed")

\* A read fails: its deadline has passed or the peer is gone.
ReadFailsIfGone(c, peerThere) ==
    /\ handler[c] \in Reading
    /\ ~peerThere
    /\ Read(c, "failed")
ReadFails(c, peerThere) ==
    /\ handler[c] \in Reading
    /\ readLeft[c] = 0 \/ ~peerThere
    /\ Read(c, "failed")

\* No more is read than this solution.
Verify(c) ==
    /\ handler[c] = "verify"
    /\ HandlerGoes(c, IF VerifySolution(toServer[c]) THEN "quote" ELSE "invalid")
    /\ toServer' = [toServer EXCEPT ![c] = None]
    /\ arrived' = [arrived EXCEPT ![c] = 0]
    /\ UNCHANGED <<held, readLeft, writeLeft, toPeer, challenges>>

\* sendQuote and sendError; an error that is sent counts as no failure.
Reply(c, peerThere) ==
    /\ handler[c] \in {"quote", "invalid", "internal"}
    /\ Write(c, peerThere,
             [type |-> IF handler[c] = "quote" THEN "quote" ELSE "error"],
             "served")
    /\ UNCHANGED readLeft

\* The handler's deferred Close.
Close(c) ==
    /\ handler[c] \in {"served", "failed"}
    /\ HandlerGoes(c, "none")
    /\ held' = [held EXCEPT ![c] = None]
    /\ EndRead(c)
    /\ writeLeft' = [writeLeft EXCEPT ![c] = 0]
    /\ toServer' = [toServer EXCEPT ![c] = None]
    /\ arrived' = [arrived EXCEPT ![c] = 0]
    /\ UNCHANGED <<toPeer, challenges>>

HandlerStep(c, peerThere) ==
    \/ Create(c) \/ SendChallenge(c, peerThere) \/ ChallengeInvalid(c)
    \/ ReadHeader(c) \/ ReadPayload(c) \/ ReadFails(c, peerThere)
    \/ Verify(c) \/ Reply(c, peerThere) \/ Close(c)

\* The network delivers the next part of the peer's message.
Arrive(c) ==
    /\ toServer[c] # None
    /\ arrived[c] < 2
    /\ arrived' = [arrived EXCEPT ![c] = @ + 1]
    /\ UNCHANGED <<handlerVars, toServer, toPeer, challenges>>

\* One clock tick passes for the deadlines and the challenges.
Left(deadlines) == [c \in Conns |-> IF deadlines[c] = 0 THEN 0 ELSE deadlines[c] - 1]
SessionTick ==
    /\ readLeft' = Left(readLeft)
    /\ writeLeft' = Left(writeLeft)
    /\ held' = [c \in Conns |-> IF held[c] = None THEN None ELSE Older(held[c])]
    /\ ChallengesAge
    /\ UNCHANGED <<handler, toServer, arrived, toPeer>>
=============================================================================
