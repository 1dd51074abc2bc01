------------------------------ MODULE Exchange ------------------------------
(***************************************************************************)
(* Sessions of the server and their peers: the client of pkg/client, or    *)
(* another program, which may send what it likes or nothing and leave when *)
(* it likes.  Peers come back on new connections.  The client reads every  *)
(* message of the server as the server reads its own: the header, then the *)
(* payload, each as late as the network likes.                             *)
(***************************************************************************)
EXTENDS Session

CONSTANT ClientTimeout   \* the client's ReadTimeout, in clock ticks

ASSUME ExchangeAssumption == ClientTimeout \in Nat \ {0}

VARIABLES
    peer,       \* the peer's program counter
    told,       \* the challenge the client has been told
    peerLeft    \* the deadline of the read it is at

peerVars == <<peer, told, peerLeft>>
vars == <<sessionVars, peerVars>>

Over == {"none", "gotQuote", "gotNothing"}
\* The client reads the header of a message, or its payload.
AwaitsChallenge == {"awaitChallenge", "challengePayload"}
AwaitsAnswer == {"awaitAnswer", "answerPayload"}
Waiting == AwaitsChallenge \cup AwaitsAnswer
Client == Waiting \cup {"solve", "send"}
There(c) == peer[c] \notin Over

TypeOK ==
    /\ SessionType
    /\ peer \in [Conns -> Over \cup Client \cup {"other"}]
    /\ told \in [Conns -> ChallengeMessages \cup {None}]
    /\ peerLeft \in [Conns -> 0 .. ClientTimeout]

Init ==
    /\ SessionInit
    /\ peer = [c \in Conns |-> "none"]
    /\ told = [c \in Conns |-> None]
    /\ peerLeft = [c \in Conns |-> 0]

-----------------------------------------------------------------------------

\* Connect, on a connection that no longer exists on either side.
Closed(c) == handler[c] = "none" /\ ~There(c)

Connects(c, program) ==
    /\ Closed(c)
    /\ HandlerGoes(c, "backlog")
    /\ peer' = [peer EXCEPT ![c] = program]
    /\ UNCHANGED <<told, held, readLeft, writeLeft, toServer, arrived, toPeer,
                   challenges>>

Connect(c) ==
    /\ Connects(c, "awaitChallenge")
    /\ peerLeft' = [peerLeft EXCEPT ![c] = ClientTimeout]

ConnectOther(c) ==
    /\ Connects(c, "other")
    /\ UNCHANGED peerLeft

\* The peer is done, with or without a quote, and closes the connection.
Leave(c, outcome) ==
    /\ peer' = [peer EXCEPT ![c] = outcome]
    /\ told' = [told EXCEPT ![c] = None]
    /\ peerLeft' = [peerLeft EXCEPT ![c] = 0]
    /\ toPeer' = [toPeer EXCEPT ![c] = <<>>]
    /\ UNCHANGED <<handlerVars, toServer, arrived, challenges>>

\* readMessage, up to the read of the payload, which has its own deadline.
\* Every message of the server has a payload.
ReceiveHeader(c) ==
    /\ peer[c] \in {"awaitChallenge", "awaitAnswer"}
    /\ peerLeft[c] > 0
    /\ toPeer[c] # <<>>
    /\ peer' = [peer EXCEPT ![c] = IF @ = "awaitChallenge" THEN "challengePayload"
                                   ELSE "answerPayload"]
    /\ peerLeft' = [peerLeft EXCEPT ![c] = ClientTimeout]
    /\ UNCHANGED <<sessionVars, told>>

\* The payload, and the rest of receiveChallenge
ReceiveChallenge(c) ==
    /\ peer[c] = "challengePayload"
    /\ peerLeft[c] > 0
    /\ toPeer[c] # <<>>
    /\ IF Head(toPeer[c]).type = "challenge"
       THEN /\ peer' = [peer EXCEPT ![c] = "solve"]
            /\ told' = [told EXCEPT ![c] = Head(toPeer[c])]
            /\ peerLeft' = [peerLeft EXCEPT ![c] = 0]
            /\ toPeer' = [toPeer EXCEPT ![c] = Tail(@)]
            /\ UNCHANGED <<handlerVars, toServer, arrived, challenges>>
       ELSE Leave(c, "gotNothing")

\* SolvePoW succeeds, or returns an error or no solution.
Solve(c) ==
    /\ peer[c] = "solve"
    /\ \/ /\ peer' = [peer EXCEPT ![c] = "send"]
          /\ UNCHANGED <<sessionVars, told, peerLeft>>
       \/ Leave(c, "gotNothing")

\* sendSolution and the start of receiveQuote.  What is written to a
\* connection that the server has closed is lost, noticed or not.
SendSolution(c) ==
    /\ peer[c] = "send"
    /\ \/ /\ toServer' = [toServer EXCEPT ![c] =
                 IF handler[c] = "none" THEN None
                 ELSE [kind |-> "solution", nonce |-> told[c].nonce,
                       zeros |-> told[c].difficulty]]
          /\ peer' = [peer EXCEPT ![c] = "awaitAnswer"]
          /\ peerLeft' = [peerLeft EXCEPT ![c] = ClientTimeout]
          /\ told' = [told EXCEPT ![c] = None]
          /\ UNCHANGED <<handlerVars, arrived, toPeer, challenges>>
       \/ handler[c] = "none" /\ Leave(c, "gotNothing")

\* The payload, and the rest of receiveQuote
ReceiveAnswer(c) ==
    /\ peer[c] = "answerPayload"
    /\ peerLeft[c] > 0
    /\ toPeer[c] # <<>>
    /\ Leave(c, IF Head(toPeer[c]).type = "quote" THEN "gotQuote" ELSE "gotNothing")

ClientWaitsForClose(c) ==
    /\ peer[c] \in Waiting
    /\ handler[c] = "none" /\ toPeer[c] = <<>>
    /\ Leave(c, "gotNothing")
\* A read's deadline has passed; or the server has closed the connection and
\* there is nothing left to read.
ClientTimesOut(c) ==
    /\ peer[c] \in Waiting
    /\ peerLeft[c] = 0
    /\ Leave(c, "gotNothing")
ClientFindsClosed(c) ==
    /\ peer[c] \in Waiting
    /\ handler[c] = "none" /\ toPeer[c] = <<>>
    /\ Leave(c, "gotNothing")

\* What the client does by itself, and what it does when the network lets it.
ClientGoes(c) == Solve(c) \/ SendSolution(c) \/ ClientTimesOut(c)
ClientReads(c) ==
    \/ ReceiveHeader(c) \/ ReceiveChallenge(c) \/ ReceiveAnswer(c)
    \/ ClientFindsClosed(c)

\* Another program.
SendAny(c) ==
    /\ peer[c] = "other"
    /\ toServer[c] = None
    /\ handler[c] \in {"backlog", "create", "challenge"} \cup Reading
    /\ \E message \in Malformed \cup Solutions :
           toServer' = [toServer EXCEPT ![c] = message]
    /\ UNCHANGED <<handlerVars, arrived, toPeer, challenges, peerVars>>

LeaveAnyTime(c) == peer[c] = "other" /\ Leave(c, "none")

PeerStep(c) ==
    \/ ClientGoes(c) \/ ClientReads(c)
    \/ SendAny(c) \/ LeaveAnyTime(c)

-----------------------------------------------------------------------------

Serve(c) == HandlerStep(c, There(c)) /\ UNCHANGED peerVars

Tick ==
    /\ SessionTick
    /\ peerLeft' = [c \in Conns |-> IF peerLeft[c] = 0 THEN 0 ELSE peerLeft[c] - 1]
    /\ UNCHANGED <<peer, told>>

ForgetChallenge(nonce) ==
    Forget(nonce) /\ UNCHANGED <<handlerVars, toServer, arrived, toPeer, peerVars>>

Next ==
    \/ \E c \in Conns :
           \/ Connect(c) \/ ConnectOther(c) \/ PeerStep(c)
           \/ Handle(c) /\ UNCHANGED peerVars
           \/ Arrive(c) /\ UNCHANGED peerVars
           \/ Serve(c)
    \/ \E nonce \in Nonces : ForgetChallenge(nonce)
    \/ Tick

Spec == Init /\ [][Next]_vars

\* Goroutines keep running, time passes, sleeps end, and the client program
\* runs, its solver included.  Nothing is assumed of other peers, of the
\* network in either direction, or of the server's accepting a connection.
FairSpec ==
    /\ Spec
    /\ \A c \in Conns : WF_vars(Serve(c))
    /\ \A c \in Conns : WF_vars(ClientGoes(c))
    /\ \A nonce \in Nonces : WF_vars(ForgetChallenge(nonce))
    /\ WF_vars(Tick)

-----------------------------------------------------------------------------

\* The exchange keeps the promises of QuoteService: whatever arrives in parts,
\* late or not at all, and whatever other sessions and the goroutines that
\* delete challenges do, a connection is judged once, a quote is granted for a
\* live challenge only, and a client has a quote only if it was granted one.
Stage(c) ==
    CASE handler[c] \in {"none", "backlog"} -> "idle"
      [] handler[c] \in {"create", "challenge"} -> "open"
      [] handler[c] \in {"header", "payload", "verify"} -> "challenged"
      [] handler[c] = "quote" -> "granted"
      [] handler[c] \in {"invalid", "internal"} -> "refused"
      [] handler[c] \in {"served", "failed"} -> "ended"

Work == [nonce : Nonces, difficulty : Difficulties \ {0}]
Live == {work \in Work :
            /\ work.nonce \in DOMAIN challenges
            /\ ~Expired(challenges[work.nonce])
            /\ work.difficulty = challenges[work.nonce].difficulty}
Claim(c) == {work \in Work :
                /\ toServer[c] \in Solutions
                /\ toServer[c].nonce = work.nonce
                /\ toServer[c].zeros >= work.difficulty}
Sent(c, type) == \E i \in DOMAIN toPeer[c] : toPeer[c][i].type = type
Answer(c) == IF Sent(c, "quote") THEN "quote"
             ELSE IF Sent(c, "error") THEN "error" ELSE "none"
Result(c) == IF peer[c] \in Client THEN "waiting"
             ELSE IF peer[c] = "other" THEN "none" ELSE peer[c]

stage == [c \in Conns |-> Stage(c)]
claim == [c \in Conns |-> Claim(c)]
live == Live
answer == [c \in Conns |-> Answer(c)]
result == [c \in Conns |-> Result(c)]

Service == INSTANCE QuoteService

ImplementsService == Service!Spec

\* A client that waits for its answer is not told that its solution is
\* invalid unless its challenge has expired, although the challenge is looked
\* up in a table that other goroutines add to and delete from, and the
\* server's difficulty may have changed since it was created.
SolutionHonoured ==
    [][\A c \in Conns :
           handler[c] = "verify" /\ handler'[c] = "invalid"
               => peer[c] \notin AwaitsAnswer \/ Expired(held[c])]_vars

\* The server and the client never wait for each other with nothing between
\* them that either could read.
NoMutualWait ==
    \A c \in Conns :
        handler[c] \in Reading /\ peer[c] \in Waiting
            => toPeer[c] # <<>> \/ toServer[c] # None

\* Every handler ends, whatever its peer sends or does not send.
SessionsEnd ==
    \A c \in Conns : handler[c] \in Handling ~> handler[c] = "none"

\* GetQuote returns, even if the server never accepts the connection and
\* whatever part of its messages the network holds back.
ClientReturns == \A c \in Conns : peer[c] \in Client ~> ~There(c)

\* The table does not keep a challenge for ever, solved or not.
ChallengesForgotten ==
    \A nonce \in Nonces :
        nonce \in DOMAIN challenges ~> nonce \notin DOMAIN challenges
=============================================================================
