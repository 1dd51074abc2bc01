--------------------------- MODULE ExchangeProofs ---------------------------
(***************************************************************************)
(* Proofs about Exchange and the clocks of SessionTime, for any number of  *)
(* connections and challenges, any timeouts and any TTL.                   *)
(***************************************************************************)
EXTENDS SessionTime, TLAPS

\* A message speaks of the challenge that the handler has created.
Matches(message, c) ==
    /\ held[c] # None
    /\ message.nonce = held[c].nonce
    /\ message.difficulty = held[c].difficulty

\* A challenge that has not expired is in the table as its handler holds it.
Tabled(c) ==
    held[c] # None /\ ~Expired(held[c])
        => /\ held[c].nonce \in DOMAIN challenges
           /\ challenges[held[c].nonce] = held[c]

\* Before the challenge is sent, and if it cannot be created, a client has
\* not got anything.
Early == {"backlog", "create", "challenge", "internal"}
NothingEarly(c) ==
    handler[c] \in Early
        => /\ peer[c] \notin {"solve", "send"} \cup AwaitsAnswer
           /\ peer[c] \in AwaitsChallenge => toPeer[c] = <<>>
           /\ handler[c] = "challenge" => held[c] # None

\* What a client is told is what the handler holds.
TellsHeld(c) ==
    peer[c] \in AwaitsChallenge /\ handler[c] # "none" /\ toPeer[c] # <<>>
        => \/ Head(toPeer[c]).type # "challenge"
           \/ Matches(Head(toPeer[c]), c)
ToldHeld(c) ==
    peer[c] \in {"solve", "send"}
        => told[c] # None /\ (handler[c] # "none" => Matches(told[c], c))

\* A client's message is a solution of what the handler holds.
SolvesHeld(c) ==
    peer[c] \in AwaitsAnswer /\ toServer[c] # None
        => /\ toServer[c].kind = "solution"
           /\ held[c] # None
           /\ toServer[c].nonce = held[c].nonce
           /\ toServer[c].zeros = held[c].difficulty

\* A client that has not sent its solution has sent nothing.
NothingUnsolved(c) ==
    peer[c] \in AwaitsChallenge \cup {"solve", "send"}
        => toServer[c] = None /\ handler[c] \notin {"payload", "verify", "quote", "invalid"}

\* Nothing is left on a connection that no side has.
NothingLeft(c) ==
    /\ ~There(c) => toPeer[c] = <<>>
    /\ handler[c] = "none" => toServer[c] = None
    /\ toServer[c] = None => arrived[c] = 0

\* What a waiting client's handler waits for, or the client, is on its way.
OnItsWay(c) ==
    /\ handler[c] \in Reading /\ peer[c] \in AwaitsChallenge => toPeer[c] # <<>>
    /\ handler[c] \in Reading \cup {"verify"} /\ peer[c] \in AwaitsAnswer
           => toServer[c] # None

Agreed(c) ==
    /\ NothingEarly(c) /\ TellsHeld(c) /\ ToldHeld(c) /\ SolvesHeld(c)
    /\ NothingUnsolved(c) /\ NothingLeft(c) /\ OnItsWay(c)

IndInv ==
    /\ TypeOK
    /\ \A c \in Conns : Tabled(c)
    /\ \A c \in Conns : Agreed(c)
-----------------------------------------------------------------------------
(* The table of challenges. *)

LEMMA NewChallengeType ==
    ASSUME NEW nonce \in Nonces, NEW difficulty \in Difficulties, difficulty # 0
    PROVE  NewChallenge(nonce, difficulty) \in Challenge
BY PoWAssumption DEF NewChallenge, Challenge

LEMMA DifficultyType ==
    ASSUME NEW challenge \in Challenge
    PROVE  challenge.difficulty \in Int
<1>1. challenge.difficulty \in 0 .. 255
  BY PoWAssumption DEF Challenge
<1> QED BY <1>1

LEMMA OlderType ==
    ASSUME NEW challenge \in Challenge
    PROVE  /\ Older(challenge) \in Challenge
           /\ Older(challenge).nonce = challenge.nonce
           /\ Older(challenge).difficulty = challenge.difficulty
BY PoWAssumption DEF Older, Expired, Challenge

LEMMA ChallengesTypeEquiv ==
    ChallengesType <=>
        /\ DOMAIN challenges \subseteq Nonces
        /\ challenges = [nonce \in DOMAIN challenges |-> challenges[nonce]]
        /\ \A nonce \in DOMAIN challenges : challenges[nonce] \in Challenge
BY DEF ChallengesType, MapsOf

LEMMA ChallengesTypeEquivNext ==
    ChallengesType' <=>
        /\ DOMAIN challenges' \subseteq Nonces
        /\ challenges' = [nonce \in DOMAIN challenges' |-> challenges'[nonce]]
        /\ \A nonce \in DOMAIN challenges' : challenges'[nonce] \in Challenge
BY DEF ChallengesType, MapsOf

LEMMA CreateTable ==
    ASSUME ChallengesType, NEW nonce \in Nonces, NEW difficulty \in Difficulties,
           CreateChallenge(nonce, difficulty)
    PROVE  /\ ChallengesType'
           /\ NewChallenge(nonce, difficulty) \in Challenge
           /\ nonce \in DOMAIN challenges'
           /\ challenges'[nonce] = NewChallenge(nonce, difficulty)
           /\ \A other \in DOMAIN challenges :
                  /\ other \in DOMAIN challenges'
                  /\ challenges'[other] = challenges[other]
<1>1. NewChallenge(nonce, difficulty) \in Challenge
  BY NewChallengeType DEF CreateChallenge
<1>2. challenges' = [k \in DOMAIN challenges \cup {nonce} |->
                        IF k = nonce THEN NewChallenge(nonce, difficulty)
                        ELSE challenges[k]]
  BY DEF CreateChallenge, Put
<1>3. nonce \notin DOMAIN challenges
  BY DEF CreateChallenge
<1> QED BY <1>1, <1>2, <1>3, ChallengesTypeEquiv, ChallengesTypeEquivNext

LEMMA ForgetTable ==
    ASSUME ChallengesType, NEW nonce \in Nonces, Forget(nonce)
    PROVE  /\ ChallengesType'
           /\ \A other \in DOMAIN challenges :
                  ~Expired(challenges[other])
                      => /\ other \in DOMAIN challenges'
                         /\ challenges'[other] = challenges[other]
BY ChallengesTypeEquiv, ChallengesTypeEquivNext DEF Forget, Delete

LEMMA AgeTable ==
    ASSUME ChallengesType, ChallengesAge
    PROVE  /\ ChallengesType'
           /\ DOMAIN challenges' = DOMAIN challenges
           /\ \A nonce \in DOMAIN challenges :
                  challenges'[nonce] = Older(challenges[nonce])
<1>1. \A nonce \in DOMAIN challenges : Older(challenges[nonce]) \in Challenge
  BY ChallengesTypeEquiv, OlderType
<1> QED BY <1>1, ChallengesTypeEquiv, ChallengesTypeEquivNext DEF ChallengesAge

-----------------------------------------------------------------------------
(* Type correctness. *)

LEMMA HandlerType ==
    ASSUME TypeOK, NEW c \in Conns,
           NEW next \in {"none", "backlog"} \cup Handling, HandlerGoes(c, next)
    PROVE  handler' \in [Conns -> {"none", "backlog"} \cup Handling]
BY DEF TypeOK, SessionType, HandlerGoes

LEMMA DeadlineType ==
    ASSUME TypeOK, NEW c \in Conns
    PROVE  /\ StartRead(c) => readLeft' \in [Conns -> 0 .. ReadTimeout]
           /\ EndRead(c) => readLeft' \in [Conns -> 0 .. ReadTimeout]
<1>1. 0 \in 0 .. ReadTimeout /\ ReadTimeout \in 0 .. ReadTimeout
  BY SessionAssumption
<1>2. readLeft \in [Conns -> 0 .. ReadTimeout]
  BY DEF TypeOK, SessionType
<1> QED BY <1>1, <1>2 DEF StartRead, EndRead

LEMMA WriteType ==
    ASSUME TypeOK, NEW c \in Conns, NEW peerThere \in BOOLEAN,
           NEW message \in ChallengeMessages \cup Answers,
           NEW next \in Handling, Write(c, peerThere, message, next)
    PROVE  /\ handler' \in [Conns -> {"none", "backlog"} \cup Handling]
           /\ toPeer' \in [Conns -> Seq(ChallengeMessages \cup Answers)]
<1>1. "failed" \in Handling
  BY DEF Handling
<1>2. handler' \in [Conns -> {"none", "backlog"} \cup Handling]
  BY <1>1, HandlerType DEF Write
<1>3. Append(toPeer[c], message) \in Seq(ChallengeMessages \cup Answers)
  BY DEF TypeOK, SessionType
<1>4. toPeer' \in [Conns -> Seq(ChallengeMessages \cup Answers)]
  BY <1>3 DEF Write, TypeOK, SessionType
<1> QED BY <1>2, <1>4

LEMMA LeaveType ==
    ASSUME TypeOK, NEW c \in Conns, NEW outcome \in Over, Leave(c, outcome)
    PROVE  TypeOK'
<1>1. peer' \in [Conns -> Over \cup Client \cup {"other"}]
  BY DEF Leave, TypeOK
<1>2. told' \in [Conns -> ChallengeMessages \cup {None}]
  BY DEF Leave, TypeOK
<1>3. peerLeft' \in [Conns -> 0 .. ClientTimeout]
  BY ExchangeAssumption DEF Leave, TypeOK
<1>4. toPeer' \in [Conns -> Seq(ChallengeMessages \cup Answers)]
  BY DEF Leave, TypeOK, SessionType
<1>5. ChallengesType'
  BY DEF Leave, TypeOK, SessionType, ChallengesType
<1> QED BY <1>1, <1>2, <1>3, <1>4, <1>5
        DEF Leave, handlerVars, TypeOK, SessionType
LEMMA HandlerStepType ==
    ASSUME TypeOK, NEW c \in Conns, NothingEarly(c), Serve(c)
    PROVE  TypeOK'
<1>1. There(c) \in BOOLEAN
  BY DEF There
<1>2. CASE Create(c) /\ UNCHANGED peerVars
  <2>1. handler' \in [Conns -> {"none", "backlog"} \cup Handling]
    BY <1>2, HandlerType DEF Create, Handling
  <2>2. ChallengesType' /\ held' \in [Conns -> Challenge \cup {None}]
    <3>1. ASSUME NEW difficulty \in Difficulties, NEW nonce \in Nonces,
                 CreateChallenge(nonce, difficulty),
                 held' = [held EXCEPT ![c] = NewChallenge(nonce, difficulty)]
          PROVE  ChallengesType' /\ held' \in [Conns -> Challenge \cup {None}]
      BY <3>1, CreateTable DEF TypeOK, SessionType
    <3>2. ASSUME UNCHANGED <<held, challenges>>
          PROVE  ChallengesType' /\ held' \in [Conns -> Challenge \cup {None}]
      BY <3>2 DEF TypeOK, SessionType, ChallengesType
    <3> QED BY <1>2, <3>1, <3>2 DEF Create
  <2> QED BY <1>2, <2>1, <2>2 DEF Create, peerVars, TypeOK, SessionType
<1>3. CASE SendChallenge(c, There(c)) /\ UNCHANGED peerVars
  <2> DEFINE message == [type |-> "challenge", nonce |-> held[c].nonce,
                         difficulty |-> held[c].difficulty]
  <2>1. message \in ChallengeMessages \cup Answers
    <3>1. held[c] \in Challenge
      BY <1>3 DEF SendChallenge, NothingEarly, Early, TypeOK, SessionType
    <3> QED BY <3>1 DEF Challenge, ChallengeMessages
  <2>2. Write(c, There(c), message, "header") /\ StartRead(c)
    BY <1>3 DEF SendChallenge
  <2>3. "header" \in Handling
    BY DEF Handling, Reading
  <2> HIDE DEF message
  <2>4. /\ handler' \in [Conns -> {"none", "backlog"} \cup Handling]
        /\ toPeer' \in [Conns -> Seq(ChallengeMessages \cup Answers)]
    BY <1>1, <2>1, <2>2, <2>3, WriteType
  <2>5. readLeft' \in [Conns -> 0 .. ReadTimeout]
    BY <2>2, DeadlineType
  <2> QED BY <1>3, <2>2, <2>4, <2>5
          DEF Write, peerVars, TypeOK, SessionType, ChallengesType
<1>4. CASE ChallengeInvalid(c) /\ UNCHANGED peerVars
  <2>1. handler' \in [Conns -> {"none", "backlog"} \cup Handling]
    BY <1>4, HandlerType DEF ChallengeInvalid, Handling
  <2> QED BY <1>4, <2>1
          DEF ChallengeInvalid, peerVars, TypeOK, SessionType, ChallengesType
<1>5. ASSUME NEW next \in Handling, Read(c, next), UNCHANGED peerVars
      PROVE  TypeOK'
  <2>1. handler' \in [Conns -> {"none", "backlog"} \cup Handling]
    BY <1>5, HandlerType DEF Read
  <2>2. readLeft' \in [Conns -> 0 .. ReadTimeout]
    BY <1>5, DeadlineType DEF Read
  <2> QED BY <1>5, <2>1, <2>2
          DEF Read, peerVars, TypeOK, SessionType, ChallengesType
<1>6. CASE (ReadHeader(c) \/ ReadPayload(c) \/ ReadFails(c, There(c)))
           /\ UNCHANGED peerVars
  BY <1>5, <1>6 DEF ReadHeader, ReadPayload, ReadFails, Handling, Reading
<1>7. CASE Verify(c) /\ UNCHANGED peerVars
  <2>1. handler' \in [Conns -> {"none", "backlog"} \cup Handling]
    BY <1>7, HandlerType DEF Verify, Handling
  <2>2. /\ toServer' \in [Conns -> Malformed \cup Solutions \cup {None}]
        /\ arrived' \in [Conns -> 0 .. 2]
    BY <1>7 DEF Verify, TypeOK, SessionType
  <2> QED BY <1>7, <2>1, <2>2
          DEF Verify, peerVars, TypeOK, SessionType, ChallengesType
<1>8. CASE Reply(c, There(c)) /\ UNCHANGED peerVars
  <2> DEFINE message == [type |-> IF handler[c] = "quote" THEN "quote" ELSE "error"]
  <2>1. message \in ChallengeMessages \cup Answers
    BY DEF Answers
  <2>2. Write(c, There(c), message, "served") /\ UNCHANGED readLeft
    BY <1>8 DEF Reply
  <2>3. "served" \in Handling
    BY DEF Handling
  <2> HIDE DEF message
  <2>4. /\ handler' \in [Conns -> {"none", "backlog"} \cup Handling]
        /\ toPeer' \in [Conns -> Seq(ChallengeMessages \cup Answers)]
    BY <1>1, <2>1, <2>2, <2>3, WriteType
  <2> QED BY <1>8, <2>2, <2>4
          DEF Write, peerVars, TypeOK, SessionType, ChallengesType
<1>9. CASE Close(c) /\ UNCHANGED peerVars
  <2>1. handler' \in [Conns -> {"none", "backlog"} \cup Handling]
    BY <1>9, HandlerType DEF Close
  <2>2. /\ readLeft' \in [Conns -> 0 .. ReadTimeout]
        /\ writeLeft' \in [Conns -> 0 .. ReadTimeout]
    <3>1. 0 \in 0 .. ReadTimeout
      BY SessionAssumption
    <3> QED BY <1>9, <3>1, DeadlineType DEF Close, TypeOK, SessionType
  <2> QED BY <1>9, <2>1, <2>2
          DEF Close, peerVars, TypeOK, SessionType, ChallengesType
<1> QED BY <1>2, <1>3, <1>4, <1>6, <1>7, <1>8, <1>9 DEF Serve, HandlerStep
LEMMA PeerStepType ==
    ASSUME TypeOK, NEW c \in Conns, ToldHeld(c), PeerStep(c)
    PROVE  TypeOK'
<1>1. CASE ReceiveChallenge(c)
  <2>1. CASE Head(toPeer[c]).type = "challenge"
    <3>1. toPeer[c] \in Seq(ChallengeMessages \cup Answers) /\ toPeer[c] # <<>>
      BY <1>1 DEF ReceiveChallenge, TypeOK, SessionType
    <3>2. /\ Head(toPeer[c]) \in ChallengeMessages
          /\ Tail(toPeer[c]) \in Seq(ChallengeMessages \cup Answers)
      BY <2>1, <3>1 DEF Answers
    <3>3. told' \in [Conns -> ChallengeMessages \cup {None}]
      BY <1>1, <2>1, <3>2 DEF ReceiveChallenge, TypeOK
    <3>4. toPeer' \in [Conns -> Seq(ChallengeMessages \cup Answers)]
      BY <1>1, <2>1, <3>2 DEF ReceiveChallenge, TypeOK, SessionType
    <3>5. peer' \in [Conns -> Over \cup Client \cup {"other"}]
      BY <1>1, <2>1 DEF ReceiveChallenge, TypeOK, Client
    <3>6. peerLeft' \in [Conns -> 0 .. ClientTimeout]
      <4>1. 0 \in 0 .. ClientTimeout
        BY ExchangeAssumption
      <4> QED BY <1>1, <2>1, <4>1 DEF ReceiveChallenge, TypeOK
    <3> QED BY <1>1, <2>1, <3>3, <3>4, <3>5, <3>6
            DEF ReceiveChallenge, handlerVars, TypeOK, SessionType, ChallengesType
  <2>2. CASE Head(toPeer[c]).type # "challenge"
    BY <1>1, <2>2, LeaveType DEF ReceiveChallenge, Over
  <2> QED BY <2>1, <2>2
<1>2. CASE Solve(c)
  <2>1. CASE Leave(c, "gotNothing")
    BY <2>1, LeaveType DEF Over
  <2>2. CASE /\ peer' = [peer EXCEPT ![c] = "send"]
             /\ UNCHANGED <<sessionVars, told, peerLeft>>
    BY <2>2 DEF sessionVars, handlerVars, TypeOK, SessionType, ChallengesType,
                Client
  <2> QED BY <1>2, <2>1, <2>2 DEF Solve
<1>3. CASE SendSolution(c)
  <2>1. CASE Leave(c, "gotNothing")
    BY <2>1, LeaveType DEF Over
  <2>2. CASE ~Leave(c, "gotNothing")
    <3> DEFINE message == [kind |-> "solution", nonce |-> told[c].nonce,
                           zeros |-> told[c].difficulty]
    <3>1. message \in Solutions
      <4>1. told[c] \in ChallengeMessages
        BY <1>3 DEF SendSolution, ToldHeld, TypeOK
      <4> QED BY <4>1, SessionAssumption DEF ChallengeMessages, Solutions
    <3>2. /\ toServer' = [toServer EXCEPT ![c] =
                             IF handler[c] = "none" THEN None ELSE message]
          /\ peer' = [peer EXCEPT ![c] = "awaitAnswer"]
          /\ peerLeft' = [peerLeft EXCEPT ![c] = ClientTimeout]
          /\ told' = [told EXCEPT ![c] = None]
          /\ UNCHANGED <<handlerVars, arrived, toPeer, challenges>>
      BY <1>3, <2>2 DEF SendSolution
    <3> HIDE DEF message
    <3>3. toServer' \in [Conns -> Malformed \cup Solutions \cup {None}]
      BY <3>1, <3>2 DEF TypeOK, SessionType
    <3>4. peer' \in [Conns -> Over \cup Client \cup {"other"}]
      BY <3>2 DEF TypeOK, Client, Waiting, AwaitsChallenge, AwaitsAnswer
    <3>5. peerLeft' \in [Conns -> 0 .. ClientTimeout]
      BY <3>2, ExchangeAssumption DEF TypeOK
    <3>6. told' \in [Conns -> ChallengeMessages \cup {None}]
      BY <3>2 DEF TypeOK
    <3> QED BY <3>2, <3>3, <3>4, <3>5, <3>6
            DEF handlerVars, TypeOK, SessionType, ChallengesType
  <2> QED BY <2>1, <2>2
<1>4. CASE \/ ReceiveAnswer(c) \/ ClientTimesOut(c) \/ ClientFindsClosed(c)
           \/ LeaveAnyTime(c)
  BY <1>4, LeaveType DEF ReceiveAnswer, ClientTimesOut, ClientFindsClosed, LeaveAnyTime, Over
<1>6. CASE ReceiveHeader(c)
  <2>1. peer' \in [Conns -> Over \cup Client \cup {"other"}]
    BY <1>6 DEF ReceiveHeader, TypeOK, Client, Waiting, AwaitsChallenge, AwaitsAnswer
  <2>2. peerLeft' \in [Conns -> 0 .. ClientTimeout]
    BY <1>6, ExchangeAssumption DEF ReceiveHeader, TypeOK
  <2> QED BY <1>6, <2>1, <2>2
          DEF ReceiveHeader, sessionVars, handlerVars, TypeOK, SessionType,
              ChallengesType
<1>5. CASE SendAny(c)
  <2>1. toServer' \in [Conns -> Malformed \cup Solutions \cup {None}]
    BY <1>5 DEF SendAny, TypeOK, SessionType
  <2> QED BY <1>5, <2>1
          DEF SendAny, handlerVars, peerVars, TypeOK, SessionType, ChallengesType
<1> QED BY <1>1, <1>2, <1>3, <1>4, <1>5, <1>6 DEF PeerStep, ClientGoes, ClientReads

LEMMA ConnectType ==
    ASSUME TypeOK, NEW c \in Conns, Connect(c) \/ ConnectOther(c)
    PROVE  TypeOK'
<1>1. handler' \in [Conns -> {"none", "backlog"} \cup Handling]
  BY HandlerType DEF Connect, ConnectOther, Connects
<1>2. peer' \in [Conns -> Over \cup Client \cup {"other"}]
  BY DEF Connect, ConnectOther, Connects, TypeOK, Client, Waiting, AwaitsChallenge, AwaitsAnswer
<1>3. peerLeft' \in [Conns -> 0 .. ClientTimeout]
  <2>1. ClientTimeout \in 0 .. ClientTimeout
    BY ExchangeAssumption
  <2> QED BY <2>1 DEF Connect, ConnectOther, TypeOK
<1> QED BY <1>1, <1>2, <1>3
        DEF Connect, ConnectOther, Connects, TypeOK, SessionType, ChallengesType

LEMMA HandleType ==
    ASSUME TypeOK, NEW c \in Conns, Handle(c), UNCHANGED peerVars
    PROVE  TypeOK'
<1>1. handler' \in [Conns -> {"none", "backlog"} \cup Handling]
  BY HandlerType DEF Handle, Handling
<1>2. writeLeft' \in [Conns -> 0 .. ReadTimeout]
  <2>1. ReadTimeout \in 0 .. ReadTimeout
    BY SessionAssumption
  <2> QED BY <2>1 DEF Handle, TypeOK, SessionType
<1> QED BY <1>1, <1>2
        DEF Handle, peerVars, TypeOK, SessionType, ChallengesType

LEMMA ArriveType ==
    ASSUME TypeOK, NEW c \in Conns, Arrive(c), UNCHANGED peerVars
    PROVE  TypeOK'
<1>1. arrived' \in [Conns -> 0 .. 2]
  <2> DEFINE parts == arrived[c] + 1
  <2>1. arrived \in [Conns -> 0 .. 2] /\ parts \in 0 .. 2
    <3>1. arrived \in [Conns -> 0 .. 2]
      BY DEF TypeOK, SessionType
    <3>2. arrived[c] < 2
      BY DEF Arrive
    <3> QED BY <3>1, <3>2
  <2>2. arrived' = [arrived EXCEPT ![c] = parts]
    BY DEF Arrive
  <2> HIDE DEF parts
  <2> QED BY <2>1, <2>2
<1> QED BY <1>1
        DEF Arrive, handlerVars, peerVars, TypeOK, SessionType, ChallengesType

LEMMA TickType ==
    ASSUME TypeOK, Tick
    PROVE  TypeOK'
<1>1. /\ readLeft' \in [Conns -> 0 .. ReadTimeout]
      /\ writeLeft' \in [Conns -> 0 .. ReadTimeout]
  BY SessionAssumption DEF Tick, SessionTick, Left, TypeOK, SessionType
<1>2. held' \in [Conns -> Challenge \cup {None}]
  <2>1. \A c \in Conns : held[c] # None => Older(held[c]) \in Challenge
    BY OlderType DEF TypeOK, SessionType
  <2> QED BY <2>1 DEF Tick, SessionTick
<1>3. peerLeft' \in [Conns -> 0 .. ClientTimeout]
  BY ExchangeAssumption DEF Tick, TypeOK
<1>4. ChallengesType'
  BY AgeTable DEF Tick, SessionTick, TypeOK, SessionType
<1> QED BY <1>1, <1>2, <1>3, <1>4 DEF Tick, SessionTick, TypeOK, SessionType

LEMMA ForgetType ==
    ASSUME TypeOK, NEW nonce \in Nonces, ForgetChallenge(nonce)
    PROVE  TypeOK'
<1>1. ChallengesType'
  BY ForgetTable DEF ForgetChallenge, TypeOK, SessionType
<1> QED BY <1>1 DEF ForgetChallenge, handlerVars, peerVars, TypeOK, SessionType

-----------------------------------------------------------------------------
(* The table and the handlers agree on challenges that have not expired. *)

LEMMA TabledKept ==
    ASSUME TypeOK, \A c \in Conns : Tabled(c),
           UNCHANGED <<held, challenges>>
    PROVE  \A c \in Conns : Tabled(c)'
BY DEF Tabled, Expired

LEMMA TabledServe ==
    ASSUME TypeOK, \A d \in Conns : Tabled(d), NEW c \in Conns, Serve(c)
    PROVE  \A d \in Conns : Tabled(d)'
<1>1. ASSUME Create(c), held' # held
      PROVE  \A d \in Conns : Tabled(d)'
  <2>1. PICK difficulty \in Difficulties, nonce \in Nonces :
            /\ CreateChallenge(nonce, difficulty)
            /\ held' = [held EXCEPT ![c] = NewChallenge(nonce, difficulty)]
    BY <1>1 DEF Create
  <2>2. /\ nonce \in DOMAIN challenges'
        /\ challenges'[nonce] = NewChallenge(nonce, difficulty)
        /\ \A other \in DOMAIN challenges :
               other \in DOMAIN challenges' /\ challenges'[other] = challenges[other]
    BY <2>1, CreateTable DEF TypeOK, SessionType
  <2>3. NewChallenge(nonce, difficulty).nonce = nonce
    BY DEF NewChallenge
  <2>4. SUFFICES ASSUME NEW d \in Conns PROVE Tabled(d)'
    OBVIOUS
  <2>5. held'[d] = IF d = c THEN NewChallenge(nonce, difficulty) ELSE held[d]
    BY <2>1 DEF TypeOK, SessionType
  <2> QED BY <2>2, <2>3, <2>5 DEF Tabled, Expired
<1>2. CASE Close(c)
  BY <1>2 DEF Close, Tabled, Expired, TypeOK, SessionType
<1>3. CASE UNCHANGED <<held, challenges>>
  BY <1>3, TabledKept
<1>4. CASE Create(c) /\ held' = held
  <2>1. ASSUME NEW difficulty \in Difficulties, NEW nonce \in Nonces,
               CreateChallenge(nonce, difficulty)
        PROVE  \A d \in Conns : Tabled(d)'
    BY <1>4, <2>1, CreateTable DEF Tabled, Expired, TypeOK, SessionType
  <2> QED BY <1>3, <1>4, <2>1 DEF Create
<1>5. CASE SendChallenge(c, There(c)) \/ Reply(c, There(c))
  BY <1>3, <1>5 DEF SendChallenge, Reply, Write
<1>6. CASE ReadHeader(c) \/ ReadPayload(c) \/ ReadFails(c, There(c))
  BY <1>3, <1>6 DEF ReadHeader, ReadPayload, ReadFails, Read
<1>7. CASE ChallengeInvalid(c) \/ Verify(c)
  BY <1>3, <1>7 DEF ChallengeInvalid, Verify
<1> QED BY <1>1, <1>2, <1>4, <1>5, <1>6, <1>7 DEF Serve, HandlerStep

LEMMA TabledTick ==
    ASSUME TypeOK, \A c \in Conns : Tabled(c), Tick
    PROVE  \A c \in Conns : Tabled(c)'
<1>1. SUFFICES ASSUME NEW c \in Conns, held'[c] # None, ~Expired(held'[c])
               PROVE  /\ held'[c].nonce \in DOMAIN challenges'
                      /\ challenges'[held'[c].nonce] = held'[c]
  BY DEF Tabled, Expired
<1>2. held[c] \in Challenge /\ held'[c] = Older(held[c])
  BY <1>1 DEF Tick, SessionTick, TypeOK, SessionType
<1>3. ~Expired(held[c]) /\ held[c] # None
  BY <1>1, <1>2, NoneAssumption DEF Older
<1>4. held[c].nonce \in DOMAIN challenges /\ challenges[held[c].nonce] = held[c]
  BY <1>3 DEF Tabled
<1>5. held'[c].nonce = held[c].nonce
  BY <1>2, OlderType
<1> QED BY <1>2, <1>4, <1>5, AgeTable DEF Tick, SessionTick, TypeOK, SessionType

LEMMA TabledForget ==
    ASSUME TypeOK, \A c \in Conns : Tabled(c),
           NEW nonce \in Nonces, ForgetChallenge(nonce)
    PROVE  \A c \in Conns : Tabled(c)'
BY ForgetTable
   DEF ForgetChallenge, handlerVars, Tabled, Expired, TypeOK, SessionType

-----------------------------------------------------------------------------
(* Each connection's two sides agree.  A step concerns one connection. *)

Same(d) ==
    /\ handler'[d] = handler[d] /\ held'[d] = held[d]
    /\ toServer'[d] = toServer[d] /\ arrived'[d] = arrived[d]
    /\ toPeer'[d] = toPeer[d]
    /\ peer'[d] = peer[d] /\ told'[d] = told[d]

LEMMA SameAgreed ==
    ASSUME NEW d \in Conns, Agreed(d), Same(d)
    PROVE  Agreed(d)'
BY DEF Agreed, Same, NothingEarly, TellsHeld, ToldHeld, SolvesHeld,
       NothingUnsolved, NothingLeft, OnItsWay, Matches, There

LEMMA ServeOthers ==
    ASSUME TypeOK, NEW c \in Conns, Serve(c), NEW d \in Conns \ {c}
    PROVE  Same(d)
<1> USE DEF Same, TypeOK, SessionType, HandlerGoes, peerVars
<1> UNCHANGED <<peer, told>>
  BY DEF Serve
<1>1. CASE Create(c)
  BY <1>1 DEF Create
<1>2. CASE SendChallenge(c, There(c)) \/ Reply(c, There(c))
  BY <1>2 DEF SendChallenge, Reply, Write
<1>3. CASE ReadHeader(c) \/ ReadPayload(c) \/ ReadFails(c, There(c))
  BY <1>3 DEF ReadHeader, ReadPayload, ReadFails, Read
<1>4. CASE ChallengeInvalid(c) \/ Verify(c) \/ Close(c)
  BY <1>4 DEF ChallengeInvalid, Verify, Close
<1> QED BY <1>1, <1>2, <1>3, <1>4 DEF Serve, HandlerStep

LEMMA PeerOthers ==
    ASSUME TypeOK, NEW c \in Conns,
           PeerStep(c) \/ Connect(c) \/ ConnectOther(c), NEW d \in Conns \ {c}
    PROVE  Same(d)
<1> USE DEF Same, TypeOK, SessionType, HandlerGoes, peerVars, handlerVars,
            sessionVars, Leave
<1>1. CASE ReceiveChallenge(c)
  BY <1>1 DEF ReceiveChallenge
<1>2. CASE Solve(c)
  BY <1>2 DEF Solve
<1>3. CASE SendSolution(c)
  BY <1>3 DEF SendSolution
<1>4. CASE \/ ReceiveAnswer(c) \/ ClientTimesOut(c) \/ ClientFindsClosed(c)
           \/ LeaveAnyTime(c)
  BY <1>4 DEF ReceiveAnswer, ClientTimesOut, ClientFindsClosed, LeaveAnyTime
<1>5. CASE SendAny(c)
  BY <1>5 DEF SendAny
<1>6. CASE Connect(c) \/ ConnectOther(c)
  BY <1>6 DEF Connect, ConnectOther, Connects
<1>7. CASE ReceiveHeader(c)
  BY <1>7 DEF ReceiveHeader
<1> QED BY <1>1, <1>2, <1>3, <1>4, <1>5, <1>6, <1>7 DEF PeerStep, ClientGoes, ClientReads
LEMMA ServeAgreed ==
    ASSUME TypeOK, NEW c \in Conns, Agreed(c), Serve(c)
    PROVE  Agreed(c)'
<1> USE DEF Agreed, NothingEarly, Early, TellsHeld, ToldHeld, SolvesHeld,
            NothingUnsolved, NothingLeft, OnItsWay, Matches, There, Reading,
            HandlerGoes, TypeOK, SessionType
<1>0. peer' = peer /\ told' = told
  BY DEF Serve, peerVars
<1>1. CASE Create(c)
  <2>1. ASSUME NEW difficulty \in Difficulties, NEW nonce \in Nonces,
               CreateChallenge(nonce, difficulty),
               held' = [held EXCEPT ![c] = NewChallenge(nonce, difficulty)],
               HandlerGoes(c, "challenge")
        PROVE  Agreed(c)'
    <3>1. NewChallenge(nonce, difficulty) # None
      BY <2>1, CreateTable, NoneAssumption
    <3> QED BY <1>0, <1>1, <2>1, <3>1 DEF Create
  <2>2. CASE HandlerGoes(c, "internal") /\ UNCHANGED <<held, challenges>>
    BY <1>0, <1>1, <2>2 DEF Create
  <2> QED BY <1>1, <2>1, <2>2 DEF Create
<1>2. CASE SendChallenge(c, There(c))
  <2> DEFINE message == [type |-> "challenge", nonce |-> held[c].nonce,
                         difficulty |-> held[c].difficulty]
  <2>1. /\ handler[c] = "challenge"
        /\ handler'[c] \in {"failed", "header"}
        /\ held' = held /\ toServer' = toServer /\ arrived' = arrived
    BY <1>2 DEF SendChallenge, Write
  <2>2. handler'[c] = "header" =>
            toPeer'[c] = IF There(c) THEN Append(toPeer[c], message) ELSE toPeer[c]
    BY <1>2 DEF SendChallenge, Write
  <2>3. handler'[c] = "failed" => toPeer' = toPeer
    BY <1>2 DEF SendChallenge, Write
  <2>4. /\ message.nonce = held[c].nonce
        /\ message.difficulty = held[c].difficulty
    OBVIOUS
  <2> HIDE DEF message
  <2>5. /\ Append(<<>>, message) # <<>>
        /\ Head(Append(<<>>, message)) = message
    OBVIOUS
  <2> QED BY <1>0, <2>1, <2>2, <2>3, <2>4, <2>5 DEF Over, AwaitsChallenge, AwaitsAnswer
<1>3. CASE ChallengeInvalid(c)
  BY <1>0, <1>3 DEF ChallengeInvalid
<1>4. CASE ReadHeader(c)
  BY <1>0, <1>4 DEF ReadHeader, Read
<1>5. CASE ReadPayload(c)
  BY <1>0, <1>5 DEF ReadPayload, Read
<1>6. CASE ReadFails(c, There(c))
  BY <1>0, <1>6 DEF ReadFails, Read
<1>7. CASE Verify(c)
  BY <1>0, <1>7 DEF Verify
<1>8. CASE Reply(c, There(c))
  <2> DEFINE message == [type |-> IF handler[c] = "quote" THEN "quote" ELSE "error"]
  <2>1. /\ handler[c] \in {"quote", "invalid", "internal"}
        /\ handler'[c] \in {"failed", "served"}
        /\ held' = held /\ toServer' = toServer /\ arrived' = arrived
    BY <1>8 DEF Reply, Write
  <2>2. toPeer'[c] = toPeer[c] \/ (There(c) /\ toPeer'[c] = Append(toPeer[c], message))
    BY <1>8 DEF Reply, Write
  <2>3. message.type # "challenge"
    OBVIOUS
  <2> HIDE DEF message
  <2>4. Head(Append(<<>>, message)) = message
    OBVIOUS
  <2> QED BY <1>0, <2>1, <2>2, <2>3, <2>4
<1>9. CASE Close(c)
  BY <1>0, <1>9 DEF Close
<1> QED BY <1>1, <1>2, <1>3, <1>4, <1>5, <1>6, <1>7, <1>8, <1>9
        DEF Serve, HandlerStep
LEMMA LeaveAgreed ==
    ASSUME TypeOK, NEW c \in Conns, Agreed(c), NEW outcome \in Over,
           Leave(c, outcome)
    PROVE  Agreed(c)'
BY DEF Leave, Over, AwaitsChallenge, AwaitsAnswer, handlerVars, Agreed,
       NothingEarly, TellsHeld, ToldHeld, SolvesHeld, NothingUnsolved, NothingLeft, OnItsWay, Matches, There,
       TypeOK, SessionType

LEMMA HeadChallenge ==
    ASSUME TypeOK, NEW c \in Conns, toPeer[c] # <<>>,
           Head(toPeer[c]).type = "challenge"
    PROVE  Head(toPeer[c]) \in ChallengeMessages
<1>1. toPeer[c] \in Seq(ChallengeMessages \cup Answers)
  BY DEF TypeOK, SessionType
<1> QED BY <1>1 DEF Answers

LEMMA PeerAgreed ==
    ASSUME TypeOK, NEW c \in Conns, Agreed(c),
           PeerStep(c) \/ Connect(c) \/ ConnectOther(c)
    PROVE  Agreed(c)'
<1> USE DEF Agreed, NothingEarly, Early, TellsHeld, ToldHeld, SolvesHeld,
            NothingUnsolved, NothingLeft, OnItsWay, Matches, There, Reading,
            HandlerGoes, TypeOK, SessionType, handlerVars, peerVars, Over,
            AwaitsChallenge, AwaitsAnswer
<1>1. CASE ReceiveChallenge(c)
  <2>1. CASE Head(toPeer[c]).type = "challenge"
    <3>1. /\ peer[c] = "challengePayload" /\ toPeer[c] # <<>>
          /\ peer'[c] = "solve" /\ told'[c] = Head(toPeer[c])
          /\ UNCHANGED <<handler, held, toServer, arrived>>
      BY <1>1, <2>1 DEF ReceiveChallenge
    <3>2. told'[c] # None
      <4>1. Head(toPeer[c]) \in ChallengeMessages
        BY <2>1, <3>1, HeadChallenge
      <4> QED BY <3>1, <4>1, NoneAssumption
    <3> QED BY <2>1, <3>1, <3>2
  <2>2. CASE Head(toPeer[c]).type # "challenge"
    BY <1>1, <2>2, LeaveAgreed DEF ReceiveChallenge
  <2> QED BY <2>1, <2>2
<1>2. CASE Solve(c)
  <2>1. CASE Leave(c, "gotNothing")
    BY <2>1, LeaveAgreed
  <2>2. CASE /\ peer' = [peer EXCEPT ![c] = "send"]
             /\ UNCHANGED <<sessionVars, told, peerLeft>>
    BY <1>2, <2>2 DEF Solve, sessionVars
  <2> QED BY <1>2, <2>1, <2>2 DEF Solve
<1>3. CASE SendSolution(c)
  <2>1. CASE Leave(c, "gotNothing")
    BY <2>1, LeaveAgreed
  <2>2. CASE ~Leave(c, "gotNothing")
    <3> DEFINE message == [kind |-> "solution", nonce |-> told[c].nonce,
                           zeros |-> told[c].difficulty]
    <3>1. /\ peer[c] = "send" /\ peer'[c] = "awaitAnswer"
          /\ toServer'[c] = IF handler[c] = "none" THEN None ELSE message
          /\ UNCHANGED <<handler, held, arrived, toPeer>>
      BY <1>3, <2>2 DEF SendSolution
    <3>2. message # None
      <4>1. told[c] \in ChallengeMessages
        BY <3>1
      <4>2. message \in Solutions
        BY <4>1, SessionAssumption DEF ChallengeMessages, Solutions
      <4> QED BY <4>2, NoneAssumption
    <3>3. /\ message.kind = "solution" /\ message.nonce = told[c].nonce
          /\ message.zeros = told[c].difficulty
      OBVIOUS
    <3> HIDE DEF message
    <3> QED BY <3>1, <3>2, <3>3
  <2> QED BY <2>1, <2>2
<1>4. CASE \/ ReceiveAnswer(c) \/ ClientTimesOut(c) \/ ClientFindsClosed(c)
           \/ LeaveAnyTime(c)
  BY <1>4, LeaveAgreed DEF ReceiveAnswer, ClientTimesOut, ClientFindsClosed, LeaveAnyTime
<1>5. CASE SendAny(c)
  <2>1. \A message \in Malformed \cup Solutions : message # None
    BY NoneAssumption
  <2> QED BY <1>5, <2>1 DEF SendAny
<1>6. CASE Connect(c) \/ ConnectOther(c)
  BY <1>6 DEF Connect, ConnectOther, Connects, Closed
<1>7. CASE ReceiveHeader(c)
  BY <1>7 DEF ReceiveHeader, sessionVars
<1> QED BY <1>1, <1>2, <1>3, <1>4, <1>5, <1>6, <1>7 DEF PeerStep, ClientGoes, ClientReads
LEMMA HandleAgreed ==
    ASSUME TypeOK, NEW c \in Conns, Agreed(c), Handle(c), UNCHANGED peerVars
    PROVE  Agreed(c)'
BY DEF Handle, HandlerGoes, peerVars, Agreed, NothingEarly, Early, TellsHeld,
       ToldHeld, SolvesHeld, NothingUnsolved, NothingLeft, OnItsWay, Matches,
       There, Reading, TypeOK, SessionType

LEMMA ArriveAgreed ==
    ASSUME TypeOK, NEW c \in Conns, Agreed(c), Arrive(c), UNCHANGED peerVars
    PROVE  Agreed(c)'
BY DEF Arrive, handlerVars, peerVars, Agreed, NothingEarly, TellsHeld,
       ToldHeld, SolvesHeld, NothingUnsolved, NothingLeft, OnItsWay, Matches,
       There

LEMMA TickAgreed ==
    ASSUME TypeOK, NEW c \in Conns, Agreed(c), Tick
    PROVE  Agreed(c)'
<1>1. \/ held[c] = None /\ held'[c] = None
      \/ /\ held[c] # None /\ held'[c] # None
         /\ held'[c].nonce = held[c].nonce
         /\ held'[c].difficulty = held[c].difficulty
  <2>1. held'[c] = IF held[c] = None THEN None ELSE Older(held[c])
    BY DEF Tick, SessionTick
  <2>2. held[c] # None => held[c] \in Challenge
    BY DEF TypeOK, SessionType
  <2> QED BY <2>1, <2>2, OlderType, NoneAssumption
<1>2. UNCHANGED <<handler, toServer, arrived, toPeer, peer, told>>
  BY DEF Tick, SessionTick
<1> QED BY <1>1, <1>2
        DEF Agreed, NothingEarly, TellsHeld, ToldHeld, SolvesHeld,
            NothingUnsolved, NothingLeft, OnItsWay, Matches, There

-----------------------------------------------------------------------------
(* The theorems. *)

LEMMA InitInv == Init => IndInv
<1> SUFFICES ASSUME Init PROVE IndInv
  OBVIOUS
<1>1. TypeOK
  <2>1. ChallengesType
    BY ChallengesTypeEquiv DEF Init, SessionInit, NoChallenges, EmptyMap
  <2>2. 0 \in 0 .. ReadTimeout /\ 0 \in 0 .. ClientTimeout
    BY SessionAssumption, ExchangeAssumption
  <2> QED BY <2>1, <2>2 DEF Init, SessionInit, TypeOK, SessionType, Over
<1>2. \A c \in Conns : Tabled(c)
  BY DEF Init, SessionInit, Tabled
<1>3. \A c \in Conns : Agreed(c)
  BY DEF Init, SessionInit, Agreed, NothingEarly, Early, TellsHeld, ToldHeld,
         SolvesHeld, NothingUnsolved, NothingLeft, OnItsWay, There, Reading
<1> QED BY <1>1, <1>2, <1>3 DEF IndInv

LEMMA NextInv == IndInv /\ [Next]_vars => IndInv'
<1> SUFFICES ASSUME IndInv, [Next]_vars PROVE IndInv'
  OBVIOUS
<1> USE DEF IndInv
<1>1. ASSUME NEW c \in Conns, Serve(c) PROVE IndInv'
  <2>1. TypeOK'
    BY <1>1, HandlerStepType DEF Agreed
  <2>2. \A d \in Conns : Agreed(d)'
    BY <1>1, ServeAgreed, ServeOthers, SameAgreed
  <2> QED BY <1>1, <2>1, <2>2, TabledServe
<1>2. ASSUME NEW c \in Conns, PeerStep(c) \/ Connect(c) \/ ConnectOther(c)
      PROVE  IndInv'
  <2>1. TypeOK'
    BY <1>2, PeerStepType, ConnectType DEF Agreed
  <2>2. \A d \in Conns : Agreed(d)'
    BY <1>2, PeerAgreed, PeerOthers, SameAgreed
  <2>3. UNCHANGED <<held, challenges>>
    BY <1>2 DEF PeerStep, ClientGoes, ClientReads, ReceiveHeader,
                ReceiveChallenge, Solve, SendSolution, ReceiveAnswer,
                ClientTimesOut, ClientFindsClosed, SendAny, LeaveAnyTime, Leave,
                Connect, ConnectOther, Connects, handlerVars, sessionVars
  <2> QED BY <2>1, <2>2, <2>3, TabledKept
<1>3. ASSUME NEW c \in Conns, Handle(c) \/ Arrive(c), UNCHANGED peerVars
      PROVE  IndInv'
  <2>1. TypeOK'
    BY <1>3, HandleType, ArriveType
  <2>2. \A d \in Conns \ {c} : Same(d)
    BY <1>3 DEF Handle, Arrive, HandlerGoes, handlerVars, peerVars, Same,
                TypeOK, SessionType
  <2>3. \A d \in Conns : Agreed(d)'
    BY <1>3, <2>2, HandleAgreed, ArriveAgreed, SameAgreed
  <2>4. UNCHANGED <<held, challenges>>
    BY <1>3 DEF Handle, Arrive, handlerVars
  <2> QED BY <2>1, <2>3, <2>4, TabledKept
<1>4. ASSUME NEW nonce \in Nonces, ForgetChallenge(nonce) PROVE IndInv'
  <2>1. \A d \in Conns : Same(d)
    BY <1>4 DEF ForgetChallenge, handlerVars, peerVars, Same
  <2> QED BY <1>4, <2>1, ForgetType, TabledForget, SameAgreed
<1>5. CASE Tick
  BY <1>5, TickType, TabledTick, TickAgreed
<1>6. CASE UNCHANGED vars
  <2>1. TypeOK'
    BY <1>6 DEF vars, sessionVars, handlerVars, peerVars, TypeOK, SessionType,
                ChallengesType
  <2>2. \A d \in Conns : Same(d)
    BY <1>6 DEF vars, sessionVars, handlerVars, peerVars, Same
  <2>3. UNCHANGED <<held, challenges>>
    BY <1>6 DEF vars, sessionVars, handlerVars
  <2> QED BY <2>1, <2>2, <2>3, TabledKept, SameAgreed
<1> QED BY <1>1, <1>2, <1>3, <1>4, <1>5, <1>6 DEF Next

LEMMA AlwaysIndInv == Spec => []IndInv
BY InitInv, NextInv, PTL DEF Spec

\* Type correctness: among it that every challenge in the table has a
\* positive difficulty and that no age or deadline leaves its range.
THEOREM TypeCorrect == Spec => []TypeOK
<1>1. IndInv => TypeOK
  BY DEF IndInv
<1> QED BY <1>1, AlwaysIndInv, PTL

\* A handler and a client of this library never wait for each other with
\* nothing between them, for any number of connections.
THEOREM NoMutualWaitCorrect == Spec => []NoMutualWait
<1>1. IndInv => NoMutualWait
  BY DEF IndInv, NoMutualWait, Agreed, OnItsWay, Waiting
<1> QED BY <1>1, AlwaysIndInv, PTL

\* A waiting client's solution is found invalid only if its challenge has
\* expired, whatever the other handlers and the deleting goroutines do.
THEOREM HonouredCorrect == Spec => SolutionHonoured
<1> DEFINE Honoured ==
        \A c \in Conns :
            handler[c] = "verify" /\ handler'[c] = "invalid"
                => peer[c] \notin AwaitsAnswer \/ Expired(held[c])
<1>1. IndInv /\ [Next]_vars => Honoured
  <2> SUFFICES ASSUME IndInv, [Next]_vars, NEW c \in Conns,
                      handler[c] = "verify", handler'[c] = "invalid",
                      peer[c] \in AwaitsAnswer, ~Expired(held[c])
               PROVE  FALSE
    OBVIOUS
  <2>1. Serve(c) => Verify(c)
    BY DEF Serve, HandlerStep, Create, SendChallenge, ChallengeInvalid,
           ReadHeader, ReadPayload, ReadFails, Reading, Reply, Close
  <2>2. ASSUME Verify(c) PROVE FALSE
    <3>1. /\ toServer[c].nonce = held[c].nonce
          /\ toServer[c].zeros = held[c].difficulty
          /\ held[c] # None
      BY DEF IndInv, Agreed, SolvesHeld, OnItsWay
    <3>2. /\ held[c].nonce \in DOMAIN challenges
          /\ challenges[held[c].nonce] = held[c]
      BY <3>1 DEF IndInv, Tabled
    <3>3. held[c].difficulty \in Int
      <4>1. held[c] \in Challenge
        BY <3>1 DEF IndInv, TypeOK, SessionType
      <4> QED BY <4>1, DifficultyType
    <3>4. VerifySolution(toServer[c])
      BY <3>1, <3>2, <3>3 DEF VerifySolution, EnoughZeros
    <3> QED BY <2>2, <3>4 DEF Verify, HandlerGoes, IndInv, TypeOK, SessionType
  <2>3. ASSUME NEW d \in Conns, Serve(d), d # c PROVE FALSE
    BY <2>3, ServeOthers DEF IndInv, Same
  <2>4. ASSUME NEW d \in Conns, PeerStep(d) \/ Connect(d) \/ ConnectOther(d)
        PROVE  FALSE
    BY <2>4 DEF PeerStep, ClientGoes, ClientReads, ReceiveHeader,
                ReceiveChallenge, Solve, SendSolution, ReceiveAnswer,
                ClientTimesOut, ClientFindsClosed, SendAny, LeaveAnyTime, Leave,
                Connect, ConnectOther, Connects, Closed, HandlerGoes,
                handlerVars, sessionVars, IndInv, TypeOK, SessionType
  <2>5. ASSUME NEW d \in Conns, Handle(d) \/ Arrive(d) PROVE FALSE
    BY <2>5 DEF Handle, Arrive, HandlerGoes, handlerVars, IndInv, TypeOK,
                SessionType
  <2>6. UNCHANGED handler => FALSE
    OBVIOUS
  <2> QED BY <2>1, <2>2, <2>3, <2>4, <2>5, <2>6
          DEF Next, ForgetChallenge, Tick, SessionTick, vars, sessionVars,
              handlerVars
<1>2. IndInv /\ [Next]_vars => [Honoured]_vars
  BY <1>1
<1> QED BY <1>2, AlwaysIndInv, PTL DEF Spec, SolutionHonoured

-----------------------------------------------------------------------------
(* The exchange implements QuoteService: a step maps to a step of the       *)
(* abstract specification or to none.                                       *)

\* What is verified is a solution, and no answer has been sent before it.
Unanswered(c) ==
    /\ handler[c] = "verify" => toServer[c] \in Solutions
    /\ handler[c] \notin {"none", "served", "failed"}
           => ~Sent(c, "quote") /\ ~Sent(c, "error")

LEMMA AppendSent ==
    ASSUME TypeOK, NEW c \in Conns, NEW m \in ChallengeMessages \cup Answers,
           toPeer'[c] = Append(toPeer[c], m), NEW type
    PROVE  Sent(c, type)' <=> Sent(c, type) \/ m.type = type
<1> DEFINE s == toPeer[c]
           t == Append(s, m)
<1>1. s \in Seq(ChallengeMessages \cup Answers)
  BY DEF TypeOK, SessionType
<1> HIDE DEF s
<1>2. /\ DOMAIN t = 1 .. Len(s) + 1 /\ DOMAIN s = 1 .. Len(s) /\ Len(s) \in Nat
      /\ t[Len(s) + 1] = m
      /\ \A i \in 1 .. Len(s) : t[i] = s[i]
  BY <1>1
<1> HIDE DEF t
<1>3. /\ \A i \in 1 .. Len(s) + 1 : i \in 1 .. Len(s) \/ i = Len(s) + 1
      /\ Len(s) + 1 \in 1 .. Len(s) + 1 /\ 1 .. Len(s) \subseteq 1 .. Len(s) + 1
  BY <1>2
<1>4. (\E i \in DOMAIN t : t[i].type = type)
          <=> (\E i \in DOMAIN s : s[i].type = type) \/ m.type = type
  BY <1>2, <1>3, Zenon
<1> QED BY <1>4 DEF s, t, Sent

LEMMA TailSent ==
    ASSUME TypeOK, NEW c \in Conns, toPeer[c] # <<>>,
           toPeer'[c] = Tail(toPeer[c]), NEW type, Head(toPeer[c]).type # type
    PROVE  Sent(c, type)' <=> Sent(c, type)
<1> DEFINE s == toPeer[c]
           t == Tail(s)
<1>1. s \in Seq(ChallengeMessages \cup Answers) /\ s # <<>>
  BY DEF TypeOK, SessionType
<1>2. Head(s).type # type
  OBVIOUS
<1> HIDE DEF s
<1>3. /\ DOMAIN t = 1 .. Len(s) - 1 /\ DOMAIN s = 1 .. Len(s) /\ Len(s) \in Nat
      /\ \A i \in 1 .. Len(s) - 1 : t[i] = s[i + 1]
      /\ Head(s) = s[1]
  BY <1>1
<1> HIDE DEF t
<1>4. ASSUME NEW i \in DOMAIN s, s[i].type = type
      PROVE  \E j \in DOMAIN t : t[j].type = type
  <2>1. i # 1
    BY <1>2, <1>3, <1>4
  <2>2. i - 1 \in 1 .. Len(s) - 1 /\ (i - 1) + 1 = i
    BY <1>3, <1>4, <2>1
  <2>3. t[i - 1] = s[i]
    BY <1>3, <2>2
  <2> QED BY <1>3, <1>4, <2>2, <2>3
<1>5. ASSUME NEW i \in DOMAIN t, t[i].type = type
      PROVE  \E j \in DOMAIN s : s[j].type = type
  <2>1. i + 1 \in 1 .. Len(s)
    BY <1>3, <1>5
  <2> QED BY <1>3, <1>5, <2>1
<1>6. (\E i \in DOMAIN t : t[i].type = type) <=> (\E i \in DOMAIN s : s[i].type = type)
  BY <1>4, <1>5
<1> QED BY <1>6 DEF s, t, Sent

\* A step that concerns one connection changes the abstract state there.
LEMMA OneConnection ==
    ASSUME NEW c \in Conns, \A d \in Conns \ {c} : Same(d)
    PROVE  /\ stage' = [stage EXCEPT ![c] = Stage(c)']
           /\ claim' = [claim EXCEPT ![c] = Claim(c)']
           /\ answer' = [answer EXCEPT ![c] = Answer(c)']
           /\ result' = [result EXCEPT ![c] = Result(c)']
<1>1. \A d \in Conns \ {c} : Stage(d)' = Stage(d)
  BY DEF Same, Stage
<1>2. \A d \in Conns \ {c} : Claim(d)' = Claim(d)
  BY DEF Same, Claim
<1>3. \A d \in Conns \ {c} : Answer(d)' = Answer(d)
  BY DEF Same, Answer, Sent
<1>4. \A d \in Conns \ {c} : Result(d)' = Result(d)
  BY DEF Same, Result
<1> QED BY <1>1, <1>2, <1>3, <1>4 DEF stage, claim, answer, result

LEMMA AllSame ==
    ASSUME \A d \in Conns : Same(d)
    PROVE  UNCHANGED <<stage, claim, answer, result>>
<1>1. \A d \in Conns : Stage(d)' = Stage(d)
  BY DEF Same, Stage
<1>2. \A d \in Conns : Claim(d)' = Claim(d)
  BY DEF Same, Claim
<1>3. \A d \in Conns : Answer(d)' = Answer(d)
  BY DEF Same, Answer, Sent
<1>4. \A d \in Conns : Result(d)' = Result(d)
  BY DEF Same, Result
<1> QED BY <1>1, <1>2, <1>3, <1>4 DEF stage, claim, answer, result

LEMMA AbstractShape ==
    ASSUME NEW c \in Conns
    PROVE  /\ stage[c] = Stage(c) /\ stage = [stage EXCEPT ![c] = Stage(c)]
           /\ claim[c] = Claim(c) /\ claim = [claim EXCEPT ![c] = Claim(c)]
           /\ answer[c] = Answer(c) /\ answer = [answer EXCEPT ![c] = Answer(c)]
           /\ result[c] = Result(c) /\ result = [result EXCEPT ![c] = Result(c)]
BY DEF stage, claim, answer, result

LEMMA LiveKept == ASSUME UNCHANGED challenges PROVE UNCHANGED live
BY DEF live, Live, Expired

\* A concrete step that changes one side of one connection, seen abstractly.
LEMMA HandlerOnly ==
    ASSUME NEW c \in Conns, \A d \in Conns \ {c} : Same(d),
           toServer'[c] = toServer[c], toPeer'[c] = toPeer[c], peer'[c] = peer[c]
    PROVE  /\ stage' = [stage EXCEPT ![c] = Stage(c)']
           /\ UNCHANGED <<claim, answer, result>>
<1>1. Claim(c)' = Claim(c)
  BY DEF Claim
<1>2. Answer(c)' = Answer(c)
  BY DEF Answer, Sent
<1>3. Result(c)' = Result(c)
  BY DEF Result
<1> QED BY <1>1, <1>2, <1>3, OneConnection, AbstractShape

LEMMA PeerOnly ==
    ASSUME NEW c \in Conns, \A d \in Conns \ {c} : Same(d),
           handler'[c] = handler[c], toServer'[c] = toServer[c]
    PROVE  /\ answer' = [answer EXCEPT ![c] = Answer(c)']
           /\ result' = [result EXCEPT ![c] = Result(c)']
           /\ UNCHANGED <<stage, claim>>
<1>1. Stage(c)' = Stage(c)
  BY DEF Stage
<1>2. Claim(c)' = Claim(c)
  BY DEF Claim
<1> QED BY <1>1, <1>2, OneConnection, AbstractShape

LEMMA CreateImplements ==
    ASSUME TypeOK, NEW c \in Conns, Serve(c), Create(c)
    PROVE  [Service!Next]_(Service!vars)
<1>1. /\ \A d \in Conns \ {c} : Same(d)
      /\ handler[c] = "create"
      /\ toServer'[c] = toServer[c] /\ toPeer'[c] = toPeer[c] /\ peer'[c] = peer[c]
  BY ServeOthers DEF Create, Serve, peerVars
<1>2. /\ stage' = [stage EXCEPT ![c] = Stage(c)']
      /\ UNCHANGED <<claim, answer, result>>
  BY <1>1, HandlerOnly
<1>3. stage[c] = "open" /\ stage = [stage EXCEPT ![c] = "open"]
  <2>1. Stage(c) = "open"
    BY <1>1 DEF Stage
  <2> QED BY <2>1, AbstractShape
<1>4. CASE HandlerGoes(c, "internal") /\ UNCHANGED <<held, challenges>>
  <2>1. handler'[c] = "internal"
    BY <1>4 DEF HandlerGoes, TypeOK, SessionType
  <2>2. Stage(c)' = "refused"
    BY <2>1 DEF Stage
  <2>3. UNCHANGED live
    BY <1>4, LiveKept
  <2>4. Service!Apologise(c)
    BY <1>2, <1>3, <2>2, <2>3 DEF Service!Apologise, Service!Becomes
  <2> QED BY <2>4 DEF Service!Next
<1>5. ASSUME NEW difficulty \in Difficulties, NEW nonce \in Nonces,
             CreateChallenge(nonce, difficulty), HandlerGoes(c, "challenge")
      PROVE  [Service!Next]_(Service!vars)
  <2>1. handler'[c] = "challenge"
    BY <1>5 DEF HandlerGoes, TypeOK, SessionType
  <2>2. Stage(c)' = "open"
    BY <2>1 DEF Stage
  <2>3. UNCHANGED <<stage, claim, answer, result>>
    BY <1>2, <1>3, <2>2
  <2> DEFINE work == [nonce |-> nonce, difficulty |-> difficulty]
             fresh == NewChallenge(nonce, difficulty)
  <2>4. challenges' = [k \in DOMAIN challenges \cup {nonce} |->
                          IF k = nonce THEN fresh ELSE challenges[k]]
    BY <1>5 DEF CreateChallenge, Put
  <2>5. difficulty # 0 /\ nonce \notin DOMAIN challenges
    BY <1>5 DEF CreateChallenge
  <2>6. work \in Work /\ work.nonce = nonce /\ work.difficulty = difficulty
    BY <2>5 DEF Work
  <2>7. fresh.difficulty = difficulty /\ fresh.age = 0
    BY DEF NewChallenge
  <2>8. \A other \in live : other.nonce # work.nonce
    BY <2>5, <2>6 DEF live, Live
  <2> HIDE DEF fresh
  <2>9. \A w \in Work : w \in live' <=>
            \/ w \in live
            \/ w.nonce = nonce /\ w.difficulty = difficulty /\ TTL # 0
    <3>1. \A w \in Work : w \in live <=>
              /\ w.nonce \in DOMAIN challenges
              /\ challenges[w.nonce].age # TTL
              /\ w.difficulty = challenges[w.nonce].difficulty
      BY DEF live, Live, Expired
    <3>2. \A w \in Work : w \in live' <=>
              /\ w.nonce \in DOMAIN challenges'
              /\ challenges'[w.nonce].age # TTL
              /\ w.difficulty = challenges'[w.nonce].difficulty
      BY DEF live, Live, Expired
    <3>3. DOMAIN challenges' = DOMAIN challenges \cup {nonce}
      BY <2>4
    <3>4. \A k \in DOMAIN challenges : challenges'[k] = challenges[k]
      BY <2>4, <2>5
    <3>5. challenges'[nonce] = fresh
      BY <2>4
    <3> QED BY <2>5, <2>7, <3>1, <3>2, <3>3, <3>4, <3>5
  <2>10. live \subseteq Work /\ live' \subseteq Work
    BY DEF live, Live
  <2>11. \A w \in Work : w.nonce = nonce /\ w.difficulty = difficulty => w = work
    BY DEF Work
  <2> HIDE DEF work
  <2>12. live' = live \/ live' = live \cup {work}
    <3>1. CASE TTL = 0
      BY <2>9, <2>10, <3>1
    <3>2. CASE TTL # 0
      BY <2>6, <2>9, <2>10, <2>11, <3>2
    <3> QED BY <3>1, <3>2
  <2>13. CASE live' = live
    BY <2>3, <2>13 DEF Service!vars
  <2>14. CASE live' = live \cup {work}
    <3>1. Service!Issue(c)
      BY <1>3, <2>3, <2>6, <2>8, <2>14 DEF Service!Issue
    <3> QED BY <3>1 DEF Service!Next
  <2> QED BY <2>12, <2>13, <2>14
<1> QED BY <1>4, <1>5 DEF Create

LEMMA ReadImplements ==
    ASSUME TypeOK, NEW c \in Conns, Serve(c),
           \/ ChallengeInvalid(c)
           \/ ReadHeader(c) \/ ReadPayload(c) \/ ReadFails(c, There(c))
    PROVE  [Service!Next]_(Service!vars)
<1>1. /\ \A d \in Conns \ {c} : Same(d)
      /\ toServer'[c] = toServer[c] /\ toPeer'[c] = toPeer[c] /\ peer'[c] = peer[c]
      /\ UNCHANGED challenges
  BY ServeOthers DEF Serve, peerVars, ChallengeInvalid, ReadHeader, ReadPayload,
                     ReadFails, Read
<1>2. /\ stage' = [stage EXCEPT ![c] = Stage(c)']
      /\ UNCHANGED <<claim, answer, result, live>>
  BY <1>1, HandlerOnly, LiveKept
<1>3. \/ handler'[c] = "failed" /\ handler[c] \in {"challenge", "header", "payload"}
      \/ handler'[c] \in {"payload", "verify"} /\ handler[c] \in {"header", "payload"}
  BY DEF ChallengeInvalid, ReadHeader, ReadPayload, ReadFails, Read, Reading,
         HandlerGoes, TypeOK, SessionType
<1>4. CASE handler'[c] = "failed" /\ handler[c] \in {"challenge", "header", "payload"}
  <2>1. Stage(c) # "idle" /\ Stage(c)' = "ended"
    BY <1>4 DEF Stage
  <2>2. Service!Break(c)
    BY <1>2, <2>1, AbstractShape DEF Service!Break, Service!Becomes
  <2> QED BY <2>2 DEF Service!Next
<1>5. CASE handler'[c] \in {"payload", "verify"} /\ handler[c] \in {"header", "payload"}
  <2>1. Stage(c)' = Stage(c)
    BY <1>5 DEF Stage
  <2>2. UNCHANGED stage
    BY <1>2, <2>1, AbstractShape
  <2> QED BY <1>2, <2>2 DEF Service!vars
<1> QED BY <1>3, <1>4, <1>5

LEMMA VerifyImplements ==
    ASSUME TypeOK, NEW c \in Conns, Unanswered(c), Serve(c), Verify(c)
    PROVE  [Service!Next]_(Service!vars)
<1>1. /\ \A d \in Conns \ {c} : Same(d)
      /\ handler[c] = "verify" /\ toServer'[c] = None
      /\ handler'[c] = IF VerifySolution(toServer[c]) THEN "quote" ELSE "invalid"
      /\ toPeer'[c] = toPeer[c] /\ peer'[c] = peer[c] /\ UNCHANGED challenges
  BY ServeOthers DEF Serve, peerVars, Verify, HandlerGoes, TypeOK, SessionType
<1>2. /\ Stage(c) = "challenged"
      /\ Stage(c)' = IF VerifySolution(toServer[c]) THEN "granted" ELSE "refused"
  BY <1>1 DEF Stage
<1>3. Claim(c)' = {}
  BY <1>1, NoneAssumption DEF Claim
<1>4. Answer(c)' = Answer(c) /\ Result(c)' = Result(c)
  BY <1>1 DEF Answer, Sent, Result
<1>5. VerifySolution(toServer[c]) <=> Claim(c) \cap live # {}
  <2>1. toServer[c] \in Solutions
    BY <1>1 DEF Unanswered
  <2>2. ASSUME VerifySolution(toServer[c])
        PROVE  Claim(c) \cap live # {}
    <3> DEFINE challenge == challenges[toServer[c].nonce]
               work == [nonce |-> toServer[c].nonce, difficulty |-> challenge.difficulty]
    <3>1. /\ toServer[c].nonce \in DOMAIN challenges /\ ~Expired(challenge)
          /\ toServer[c].zeros >= challenge.difficulty
      BY <2>2 DEF VerifySolution, EnoughZeros
    <3>2. challenge \in Challenge /\ toServer[c].nonce \in Nonces
      BY <2>1, <3>1, ChallengesTypeEquiv DEF TypeOK, SessionType, Solutions
    <3>3. work \in Work
      BY <3>2 DEF Work, Challenge
    <3>4. work \in Claim(c)
      BY <2>1, <3>1, <3>3 DEF Claim
    <3>5. work \in live
      BY <3>1, <3>3 DEF live, Live
    <3> QED BY <3>4, <3>5
  <2>3. ASSUME NEW work \in Claim(c) \cap live
        PROVE  VerifySolution(toServer[c])
    BY <2>3 DEF Claim, live, Live, VerifySolution, EnoughZeros
  <2> QED BY <2>2, <2>3
<1>6. Service!Judge(c)
  BY <1>1, <1>2, <1>3, <1>4, <1>5, OneConnection, AbstractShape, LiveKept
     DEF Service!Judge, Service!Becomes, Service!Solved
<1> QED BY <1>6 DEF Service!Next

LEMMA SendChallengeImplements ==
    ASSUME TypeOK, NEW c \in Conns, NothingEarly(c), Serve(c),
           SendChallenge(c, There(c))
    PROVE  [Service!Next]_(Service!vars)
<1> DEFINE message == [type |-> "challenge", nonce |-> held[c].nonce,
                       difficulty |-> held[c].difficulty]
<1>1. /\ \A d \in Conns \ {c} : Same(d)
      /\ handler[c] = "challenge"
      /\ toServer'[c] = toServer[c] /\ peer'[c] = peer[c] /\ UNCHANGED challenges
  BY ServeOthers DEF Serve, peerVars, SendChallenge, Write
<1>2. \/ handler'[c] = "failed" /\ toPeer'[c] = toPeer[c]
      \/ handler'[c] = "header" /\ toPeer'[c] = toPeer[c]
      \/ handler'[c] = "header" /\ toPeer'[c] = Append(toPeer[c], message)
  BY DEF SendChallenge, Write, HandlerGoes, TypeOK, SessionType
<1>3. message.type = "challenge" /\ message \in ChallengeMessages \cup Answers
  <2>1. held[c] \in Challenge
    BY <1>1 DEF NothingEarly, Early, TypeOK, SessionType
  <2> QED BY <2>1 DEF Challenge, ChallengeMessages
<1> HIDE DEF message
<1>4. Answer(c)' = Answer(c)
  <2>2. ASSUME NEW type \in {"quote", "error"}, toPeer'[c] = Append(toPeer[c], message)
        PROVE  Sent(c, type)' <=> Sent(c, type)
    BY <1>3, <2>2, AppendSent
  <2>3. CASE toPeer'[c] = toPeer[c]
    BY <2>3 DEF Answer, Sent
  <2>4. CASE toPeer'[c] = Append(toPeer[c], message)
    BY <2>2, <2>4 DEF Answer
  <2> QED BY <1>2, <2>3, <2>4
<1>5. Claim(c)' = Claim(c) /\ Result(c)' = Result(c)
  BY <1>1 DEF Claim, Result
<1>6. Stage(c) = "open" /\ Stage(c)' \in {"ended", "challenged"}
  <2>1. Stage(c) = "open"
    BY <1>1 DEF Stage
  <2>2. handler'[c] = "failed" => Stage(c)' = "ended"
    BY DEF Stage
  <2>3. handler'[c] = "header" => Stage(c)' = "challenged"
    BY DEF Stage
  <2> QED BY <1>2, <2>1, <2>2, <2>3
<1>7. stage' = [stage EXCEPT ![c] = Stage(c)'] /\ UNCHANGED <<claim, answer, result, live>>
  BY <1>1, <1>4, <1>5, OneConnection, AbstractShape, LiveKept
<1>8. Service!Challenge(c) \/ Service!Break(c)
  BY <1>6, <1>7, AbstractShape
     DEF Service!Challenge, Service!Break, Service!Becomes
<1> QED BY <1>8 DEF Service!Next

LEMMA ReplyImplements ==
    ASSUME TypeOK, NEW c \in Conns, Unanswered(c), Serve(c), Reply(c, There(c))
    PROVE  [Service!Next]_(Service!vars)
<1> DEFINE message == [type |-> IF handler[c] = "quote" THEN "quote" ELSE "error"]
<1>1. /\ \A d \in Conns \ {c} : Same(d)
      /\ handler[c] \in {"quote", "invalid", "internal"}
      /\ toServer'[c] = toServer[c] /\ peer'[c] = peer[c] /\ UNCHANGED challenges
  BY ServeOthers DEF Serve, peerVars, Reply, Write
<1>2. \/ handler'[c] = "failed" /\ toPeer'[c] = toPeer[c]
      \/ handler'[c] = "served" /\ toPeer'[c] = toPeer[c]
      \/ handler'[c] = "served" /\ toPeer'[c] = Append(toPeer[c], message)
  BY DEF Reply, Write, HandlerGoes, TypeOK, SessionType
<1>3. /\ message.type = IF handler[c] = "quote" THEN "quote" ELSE "error"
      /\ message \in ChallengeMessages \cup Answers
  BY DEF Answers
<1> HIDE DEF message
<1>4. ~Sent(c, "quote") /\ ~Sent(c, "error")
  BY <1>1 DEF Unanswered
<1>5. Answer(c)' = Answer(c) \/ Answer(c)' = message.type
  <2>2. ASSUME NEW type \in {"quote", "error"}, toPeer'[c] = Append(toPeer[c], message)
        PROVE  Sent(c, type)' <=> message.type = type
    BY <1>3, <1>4, <2>2, AppendSent
  <2>3. CASE toPeer'[c] = toPeer[c]
    BY <2>3 DEF Answer, Sent
  <2>4. CASE toPeer'[c] = Append(toPeer[c], message)
    <3>1. Sent(c, "quote")' <=> message.type = "quote"
      BY <2>2, <2>4
    <3>2. Sent(c, "error")' <=> message.type = "error"
      BY <2>2, <2>4
    <3> QED BY <1>3, <3>1, <3>2 DEF Answer
  <2> QED BY <1>2, <2>3, <2>4
<1>6. Claim(c)' = Claim(c) /\ Result(c)' = Result(c)
  BY <1>1 DEF Claim, Result
<1>7. Stage(c)' = "ended"
  BY <1>2 DEF Stage
<1>8. Stage(c) = IF message.type = "quote" THEN "granted" ELSE "refused"
  <2>1. handler[c] = "quote" => Stage(c) = "granted"
    BY DEF Stage
  <2>2. handler[c] \in {"invalid", "internal"} => Stage(c) = "refused"
    BY DEF Stage
  <2> QED BY <1>1, <1>3, <2>1, <2>2
<1>9. /\ stage' = [stage EXCEPT ![c] = "ended"]
      /\ UNCHANGED <<claim, result, live>>
      /\ answer' = answer \/ answer' = [answer EXCEPT ![c] = message.type]
  BY <1>1, <1>5, <1>6, <1>7, OneConnection, AbstractShape, LiveKept
<1>10. message.type \in {"quote", "error"}
  BY <1>3
<1>11. stage[c] = IF message.type = "quote" THEN "granted" ELSE "refused"
  BY <1>8, AbstractShape
<1>12. Service!Reply(c)
  BY <1>9, <1>10, <1>11, Zenon DEF Service!Reply, Service!Becomes
<1> QED BY <1>12 DEF Service!Next

LEMMA CloseImplements ==
    ASSUME TypeOK, NEW c \in Conns, Serve(c), Close(c)
    PROVE  [Service!Next]_(Service!vars)
<1>1. /\ \A d \in Conns \ {c} : Same(d)
      /\ handler[c] \in {"served", "failed"} /\ handler'[c] = "none"
      /\ toServer'[c] = None
      /\ toPeer'[c] = toPeer[c] /\ peer'[c] = peer[c] /\ UNCHANGED challenges
  BY ServeOthers DEF Serve, peerVars, Close, HandlerGoes, TypeOK, SessionType
<1>2. Stage(c) = "ended" /\ Stage(c)' = "idle"
  <2>1. Stage(c) = "ended"
    BY <1>1 DEF Stage
  <2>2. Stage(c)' = "idle"
    BY <1>1 DEF Stage
  <2> QED BY <2>1, <2>2
<1>3. Claim(c)' = {}
  BY <1>1, NoneAssumption DEF Claim
<1>4. Answer(c)' = Answer(c) /\ Result(c)' = Result(c)
  BY <1>1 DEF Answer, Sent, Result
<1>5. Service!Finish(c)
  BY <1>1, <1>2, <1>3, <1>4, OneConnection, AbstractShape, LiveKept
     DEF Service!Finish, Service!Becomes
<1> QED BY <1>5 DEF Service!Next

LEMMA ServeImplements ==
    ASSUME TypeOK, NEW c \in Conns, NothingEarly(c), Unanswered(c), Serve(c)
    PROVE  [Service!Next]_(Service!vars)
BY CreateImplements, SendChallengeImplements, ReadImplements, VerifyImplements,
   ReplyImplements, CloseImplements DEF Serve, HandlerStep

LEMMA LeaveImplements ==
    ASSUME TypeOK, NEW c \in Conns, \A d \in Conns \ {c} : Same(d),
           NEW outcome \in Over, Leave(c, outcome),
           \/ peer[c] = "other" /\ outcome = "none"
           \/ peer[c] \in Client /\ outcome = "gotNothing"
           \/ peer[c] \in Client /\ outcome = "gotQuote" /\ Sent(c, "quote")
    PROVE  [Service!Next]_(Service!vars)
<1>1. /\ handler'[c] = handler[c] /\ toServer'[c] = toServer[c]
      /\ peer'[c] = outcome /\ toPeer'[c] = <<>> /\ UNCHANGED challenges
  BY DEF Leave, handlerVars, TypeOK, SessionType
<1>2. Answer(c)' = "none"
  BY <1>1 DEF Answer, Sent
<1>3. Result(c)' = outcome
  BY <1>1 DEF Result, Over, Client, Waiting, AwaitsChallenge, AwaitsAnswer
<1>4. Service!Gone(c, outcome)
  BY <1>1, <1>2, <1>3, PeerOnly, LiveKept DEF Service!Gone
<1>5. CASE peer[c] = "other" /\ outcome = "none"
  <2>1. result[c] = "none"
    BY <1>5, AbstractShape DEF Result, Client, Waiting, AwaitsChallenge, AwaitsAnswer
  <2> QED BY <1>4, <1>5, <2>1 DEF Service!Leave, Service!Next
<1>6. CASE peer[c] \in Client
  <2>1. result[c] = "waiting"
    BY <1>6, AbstractShape DEF Result
  <2>2. Sent(c, "quote") => answer[c] = "quote"
    BY AbstractShape DEF Answer
  <2>3. CASE outcome = "gotNothing"
    BY <1>4, <2>1, <2>3 DEF Service!GetNothing, Service!Next
  <2>4. CASE outcome = "gotQuote" /\ Sent(c, "quote")
    BY <1>4, <2>1, <2>2, <2>4 DEF Service!GetQuote, Service!Next
  <2> QED BY <1>6, <2>3, <2>4 DEF Client, Waiting, AwaitsChallenge, AwaitsAnswer
<1> QED BY <1>5, <1>6

\* Nothing changes that the abstract specification knows of but the claim.
LEMMA SendImplements ==
    ASSUME NEW c \in Conns, \A d \in Conns \ {c} : Same(d),
           handler'[c] = handler[c], toPeer'[c] = toPeer[c],
           Result(c)' = Result(c), UNCHANGED challenges
    PROVE  [Service!Next]_(Service!vars)
<1>1. Stage(c)' = Stage(c)
  BY DEF Stage
<1>2. Answer(c)' = Answer(c)
  BY DEF Answer, Sent
<1>3. Claim(c)' \in SUBSET Work
  BY DEF Claim, Work
<1>4. Service!Send(c)
  BY <1>1, <1>2, <1>3, OneConnection, AbstractShape, LiveKept DEF Service!Send
<1> QED BY <1>4 DEF Service!Next

LEMMA PeerImplements ==
    ASSUME TypeOK, NEW c \in Conns, ToldHeld(c), PeerStep(c)
    PROVE  [Service!Next]_(Service!vars)
<1>1. \A d \in Conns \ {c} : Same(d)
  BY PeerOthers
<1>2. CASE ReceiveChallenge(c)
  <2>1. CASE Head(toPeer[c]).type = "challenge"
    <3>1. /\ peer[c] = "challengePayload" /\ peer'[c] = "solve"
          /\ handler' = handler /\ toServer' = toServer
          /\ toPeer[c] # <<>> /\ toPeer'[c] = Tail(toPeer[c])
          /\ UNCHANGED challenges
      BY <1>2, <2>1 DEF ReceiveChallenge, handlerVars, TypeOK, SessionType
    <3>2. Result(c)' = Result(c)
      BY <3>1 DEF Result, Client, Waiting, AwaitsChallenge, AwaitsAnswer
    <3>3. \A type \in {"quote", "error"} : Sent(c, type)' <=> Sent(c, type)
      BY <2>1, <3>1, TailSent
    <3>4. Answer(c)' = Answer(c)
      BY <3>3 DEF Answer
    <3>5. UNCHANGED <<stage, claim, answer, result, live>>
      BY <1>1, <3>1, <3>2, <3>4, PeerOnly, AbstractShape, LiveKept
    <3> QED BY <3>5 DEF Service!vars
  <2>2. CASE Head(toPeer[c]).type # "challenge"
    BY <1>1, <1>2, <2>2, LeaveImplements DEF ReceiveChallenge, Over, Client, Waiting, AwaitsChallenge, AwaitsAnswer
  <2> QED BY <2>1, <2>2
<1>3. CASE Solve(c)
  <2>1. CASE Leave(c, "gotNothing")
    BY <1>1, <1>3, <2>1, LeaveImplements DEF Solve, Over, Client
  <2>2. CASE ~Leave(c, "gotNothing")
    <3>1. /\ peer[c] = "solve" /\ peer'[c] = "send"
          /\ handler' = handler /\ toServer' = toServer /\ toPeer' = toPeer
          /\ UNCHANGED challenges
      BY <1>3, <2>2 DEF Solve, sessionVars, handlerVars, TypeOK
    <3>2. Result(c)' = Result(c)
      BY <3>1 DEF Result, Client
    <3> QED BY <1>1, <3>1, <3>2, SendImplements
  <2> QED BY <2>1, <2>2
<1>4. CASE SendSolution(c)
  <2>1. CASE Leave(c, "gotNothing")
    BY <1>1, <1>4, <2>1, LeaveImplements DEF SendSolution, Over, Client
  <2>2. CASE ~Leave(c, "gotNothing")
    <3>1. /\ peer[c] = "send" /\ peer'[c] = "awaitAnswer"
          /\ handler' = handler /\ toPeer' = toPeer
          /\ UNCHANGED challenges
      BY <1>4, <2>2 DEF SendSolution, handlerVars, TypeOK
    <3>2. Result(c)' = Result(c)
      BY <3>1 DEF Result, Client, Waiting, AwaitsChallenge, AwaitsAnswer
    <3> QED BY <1>1, <3>1, <3>2, SendImplements
  <2> QED BY <2>1, <2>2
<1>5. CASE ReceiveAnswer(c)
  <2>1. Head(toPeer[c]).type = "quote" => Sent(c, "quote")
    <3>1. /\ toPeer[c] # <<>>
          /\ toPeer[c] \in Seq(ChallengeMessages \cup Answers)
      BY <1>5 DEF ReceiveAnswer, TypeOK, SessionType
    <3>2. 1 \in DOMAIN toPeer[c] /\ Head(toPeer[c]) = toPeer[c][1]
      BY <3>1
    <3> QED BY <3>2 DEF Sent
  <2>2. CASE Head(toPeer[c]).type = "quote"
    BY <1>1, <1>5, <2>1, <2>2, LeaveImplements DEF ReceiveAnswer, Over, Client, Waiting, AwaitsChallenge, AwaitsAnswer
  <2>3. CASE Head(toPeer[c]).type # "quote"
    BY <1>1, <1>5, <2>3, LeaveImplements DEF ReceiveAnswer, Over, Client, Waiting, AwaitsChallenge, AwaitsAnswer
  <2> QED BY <2>2, <2>3
<1>6. CASE ClientTimesOut(c) \/ ClientFindsClosed(c)
  BY <1>1, <1>6, LeaveImplements DEF ClientTimesOut, ClientFindsClosed, Over, Client
<1>9. CASE ReceiveHeader(c)
  <2>1. /\ peer[c] \in Client /\ peer'[c] \in Client
        /\ handler' = handler /\ toPeer' = toPeer
        /\ UNCHANGED challenges
    BY <1>9 DEF ReceiveHeader, sessionVars, handlerVars, TypeOK, Client, Waiting,
                AwaitsChallenge, AwaitsAnswer
  <2>2. Result(c)' = Result(c)
    BY <2>1 DEF Result
  <2> QED BY <1>1, <2>1, <2>2, SendImplements
<1>7. CASE SendAny(c)
  <2>1. Result(c)' = Result(c)
    BY <1>7 DEF SendAny, peerVars, Result
  <2> QED BY <1>1, <1>7, <2>1, SendImplements DEF SendAny, handlerVars
<1>8. CASE LeaveAnyTime(c)
  BY <1>1, <1>8, LeaveImplements DEF LeaveAnyTime, Over
<1> QED BY <1>2, <1>3, <1>4, <1>5, <1>6, <1>7, <1>8, <1>9 DEF PeerStep, ClientGoes, ClientReads

LEMMA ConnectImplements ==
    ASSUME TypeOK, NEW c \in Conns, NothingLeft(c), Connect(c) \/ ConnectOther(c)
    PROVE  [Service!Next]_(Service!vars)
<1>1. \A d \in Conns \ {c} : Same(d)
  BY PeerOthers
<1>2. /\ handler[c] = "none" /\ handler'[c] = "backlog" /\ peer[c] \in Over
      /\ peer'[c] \in {"awaitChallenge", "other"}
      /\ toServer' = toServer /\ toPeer' = toPeer /\ toPeer[c] = <<>>
      /\ UNCHANGED challenges
  BY DEF Connect, ConnectOther, Connects, Closed, There, HandlerGoes,
         NothingLeft, TypeOK, SessionType
<1>3. Stage(c) = "idle" /\ Stage(c)' = "idle"
  <2>1. Stage(c) = "idle"
    BY <1>2 DEF Stage
  <2>2. Stage(c)' = "idle"
    BY <1>2 DEF Stage
  <2> QED BY <2>1, <2>2
<1>4. Claim(c)' = Claim(c) /\ Answer(c) = "none" /\ Answer(c)' = "none"
  BY <1>2 DEF Claim, Answer, Sent
<1>5. Result(c) # "waiting" /\ Result(c)' \in {"waiting", "none"}
  BY <1>2 DEF Result, Over, Client, Waiting, AwaitsChallenge, AwaitsAnswer
<1>6. Service!Connect(c)
  BY <1>1, <1>2, <1>3, <1>4, <1>5, OneConnection, AbstractShape, LiveKept
     DEF Service!Connect
<1> QED BY <1>6 DEF Service!Next

LEMMA HandleImplements ==
    ASSUME TypeOK, NEW c \in Conns, Handle(c), UNCHANGED peerVars
    PROVE  [Service!Next]_(Service!vars)
<1>1. /\ handler[c] = "backlog" /\ handler'[c] = "create"
      /\ \A d \in Conns \ {c} : Same(d)
      /\ UNCHANGED <<toServer, toPeer, peer, challenges>>
  BY DEF Handle, HandlerGoes, peerVars, Same, TypeOK, SessionType
<1>2. Stage(c) = "idle" /\ Stage(c)' = "open"
  <2>1. Stage(c) = "idle"
    BY <1>1 DEF Stage
  <2>2. Stage(c)' = "open"
    BY <1>1 DEF Stage
  <2> QED BY <2>1, <2>2
<1>3. Service!Take(c)
  BY <1>1, <1>2, HandlerOnly, AbstractShape, LiveKept
     DEF Service!Take, Service!Becomes
<1> QED BY <1>3 DEF Service!Next

LEMMA LiveMember ==
    /\ \A w \in Work : w \in live <=>
           /\ w.nonce \in DOMAIN challenges
           /\ ~Expired(challenges[w.nonce])
           /\ w.difficulty = challenges[w.nonce].difficulty
    /\ \A w \in Work : w \in live' <=>
           /\ w.nonce \in DOMAIN challenges'
           /\ ~Expired(challenges'[w.nonce])
           /\ w.difficulty = challenges'[w.nonce].difficulty
    /\ live \subseteq Work /\ live' \subseteq Work
BY DEF live, Live, Expired

LEMMA ForgetImplements ==
    ASSUME TypeOK, NEW nonce \in Nonces, ForgetChallenge(nonce)
    PROVE  [Service!Next]_(Service!vars)
<1>1. \A d \in Conns : Same(d)
  BY DEF ForgetChallenge, handlerVars, peerVars, Same
<1>2. /\ \A other \in DOMAIN challenges :
             ~Expired(challenges[other])
                 => other \in DOMAIN challenges' /\ challenges'[other] = challenges[other]
      /\ \A other \in DOMAIN challenges' :
             other \in DOMAIN challenges /\ challenges'[other] = challenges[other]
  BY ForgetTable DEF ForgetChallenge, Forget, Delete, TypeOK, SessionType
<1>3. \A w \in Work : w \in live' <=> w \in live
  BY <1>2, LiveMember
<1>4. live' = live
  BY <1>3, LiveMember
<1> QED BY <1>1, <1>4, AllSame DEF Service!vars

LEMMA TickImplements ==
    ASSUME TypeOK, Tick
    PROVE  [Service!Next]_(Service!vars)
<1>1. UNCHANGED <<stage, claim, answer, result>>
  <2>1. UNCHANGED <<handler, toServer, toPeer, peer>>
    BY DEF Tick, SessionTick
  <2>2. \A d \in Conns : Stage(d)' = Stage(d)
    BY <2>1 DEF Stage
  <2>3. \A d \in Conns : Claim(d)' = Claim(d)
    BY <2>1 DEF Claim
  <2>4. \A d \in Conns : Answer(d)' = Answer(d)
    BY <2>1 DEF Answer, Sent
  <2>5. \A d \in Conns : Result(d)' = Result(d)
    BY <2>1 DEF Result
  <2> QED BY <2>2, <2>3, <2>4, <2>5 DEF stage, claim, answer, result
<1>2. /\ DOMAIN challenges' = DOMAIN challenges
      /\ \A nonce \in DOMAIN challenges :
             challenges'[nonce] = Older(challenges[nonce])
  BY AgeTable DEF Tick, SessionTick, TypeOK, SessionType
<1>3. \A challenge : Expired(challenge) => Older(challenge) = challenge
  BY DEF Older
<1>4. \A nonce \in DOMAIN challenges :
          Older(challenges[nonce]).difficulty = challenges[nonce].difficulty
  BY ChallengesTypeEquiv, OlderType DEF TypeOK, SessionType
<1>5. \A w \in Work : w \in live' => w \in live
  BY <1>2, <1>3, <1>4, LiveMember
<1>6. live' \in SUBSET live
  BY <1>5, LiveMember
<1> QED BY <1>1, <1>6 DEF Service!Expire, Service!Next

LEMMA ServeUnanswered ==
    ASSUME TypeOK, NEW c \in Conns, Unanswered(c), NothingEarly(c), NothingLeft(c),
           Serve(c)
    PROVE  Unanswered(c)'
<1> USE DEF Unanswered, TypeOK, SessionType, HandlerGoes
<1>1. CASE Create(c)
  <2>1. handler[c] = "create" /\ handler'[c] \in {"challenge", "internal"}
        /\ toPeer' = toPeer
    BY <1>1 DEF Create
  <2> QED BY <2>1 DEF Sent
<1>2. CASE SendChallenge(c, There(c))
  <2> DEFINE message == [type |-> "challenge", nonce |-> held[c].nonce,
                         difficulty |-> held[c].difficulty]
  <2>1. /\ handler[c] = "challenge" /\ handler'[c] \in {"failed", "header"}
        /\ toPeer'[c] = toPeer[c] \/ toPeer'[c] = Append(toPeer[c], message)
    BY <1>2 DEF SendChallenge, Write
  <2>2. message.type = "challenge" /\ message \in ChallengeMessages \cup Answers
    <3>1. held[c] \in Challenge
      BY <2>1 DEF NothingEarly, Early
    <3> QED BY <3>1 DEF Challenge, ChallengeMessages
  <2> HIDE DEF message
  <2>3. CASE toPeer'[c] = toPeer[c]
    BY <2>1, <2>3 DEF Sent
  <2>4. CASE toPeer'[c] = Append(toPeer[c], message)
    <3>1. \A type \in {"quote", "error"} : Sent(c, type)' <=> Sent(c, type)
      BY <2>2, <2>4, AppendSent
    <3> QED BY <2>1, <3>1
  <2> QED BY <2>1, <2>3, <2>4
<1>3. CASE ReadHeader(c) \/ ReadPayload(c) \/ ReadFails(c, There(c))
  <2>1. /\ handler[c] \in Reading /\ UNCHANGED <<toServer, toPeer>>
        /\ handler'[c] \in {"failed", "payload", "verify"}
    BY <1>3 DEF ReadHeader, ReadPayload, ReadFails, Read, Reading
  <2>2. ASSUME handler'[c] = "verify" PROVE toServer[c] \in Solutions
    <3>1. arrived[c] = 2 /\ toServer[c].kind = "solution"
      BY <1>3, <2>2 DEF ReadHeader, ReadPayload, ReadFails, Read, Reading
    <3>2. toServer[c] # None
      BY <3>1 DEF NothingLeft
    <3>3. \A message \in Malformed : message.kind # "solution"
      BY DEF Malformed
    <3> QED BY <3>1, <3>2, <3>3
  <2> QED BY <2>1, <2>2 DEF Reading, Sent
<1>4. CASE Verify(c)
  <2>1. /\ handler[c] = "verify" /\ handler'[c] \in {"quote", "invalid"}
        /\ toPeer' = toPeer
    BY <1>4 DEF Verify
  <2> QED BY <2>1 DEF Sent
<1>5. CASE ChallengeInvalid(c) \/ Reply(c, There(c)) \/ Close(c)
  <2>1. handler'[c] \in {"failed", "served", "none"}
    BY <1>5 DEF ChallengeInvalid, Reply, Write, Close
  <2> QED BY <2>1
<1> QED BY <1>1, <1>2, <1>3, <1>4, <1>5 DEF Serve, HandlerStep

LEMMA PeerUnanswered ==
    ASSUME TypeOK, NEW c \in Conns, Agreed(c), Unanswered(c),
           PeerStep(c) \/ Connect(c) \/ ConnectOther(c)
    PROVE  Unanswered(c)'
<1> USE DEF Unanswered, TypeOK, SessionType, HandlerGoes, handlerVars
<1>1. CASE ReceiveChallenge(c)
  <2>1. CASE Head(toPeer[c]).type = "challenge"
    <3>1. /\ toPeer[c] # <<>> /\ toPeer'[c] = Tail(toPeer[c])
          /\ UNCHANGED <<handler, toServer>>
      BY <1>1, <2>1 DEF ReceiveChallenge
    <3>2. \A type \in {"quote", "error"} : Sent(c, type)' <=> Sent(c, type)
      BY <2>1, <3>1, TailSent
    <3> QED BY <3>1, <3>2
  <2>2. CASE Head(toPeer[c]).type # "challenge"
    BY <1>1, <2>2 DEF ReceiveChallenge, Leave, Sent
  <2> QED BY <2>1, <2>2
<1>2. CASE Solve(c)
  BY <1>2 DEF Solve, Leave, sessionVars, Sent
<1>3. CASE SendSolution(c)
  <2>1. /\ UNCHANGED handler /\ toPeer'[c] \in {toPeer[c], <<>>}
        /\ handler[c] # "verify"
    BY <1>3 DEF SendSolution, Leave, Agreed, NothingUnsolved
  <2> QED BY <2>1 DEF Sent
<1>4. CASE \/ ReceiveAnswer(c) \/ ClientTimesOut(c) \/ ClientFindsClosed(c)
           \/ LeaveAnyTime(c)
  BY <1>4 DEF ReceiveAnswer, ClientTimesOut, ClientFindsClosed, LeaveAnyTime, Leave, Sent
<1>5. CASE SendAny(c)
  <2>1. UNCHANGED <<handler, toPeer>> /\ handler[c] # "verify"
    BY <1>5 DEF SendAny, Reading
  <2> QED BY <2>1 DEF Sent
<1>6. CASE Connect(c) \/ ConnectOther(c)
  <2>1. handler'[c] = "backlog" /\ toPeer'[c] = <<>>
    BY <1>6 DEF Connect, ConnectOther, Connects, Closed, Agreed, NothingLeft
  <2> QED BY <2>1 DEF Sent
<1>7. CASE ReceiveHeader(c)
  BY <1>7 DEF ReceiveHeader, sessionVars, Sent
<1> QED BY <1>1, <1>2, <1>3, <1>4, <1>5, <1>6, <1>7 DEF PeerStep, ClientGoes, ClientReads

LEMMA SameUnanswered ==
    ASSUME NEW d \in Conns, Unanswered(d), Same(d)
    PROVE  Unanswered(d)'
BY DEF Unanswered, Same, Sent

ServiceInv == IndInv /\ \A c \in Conns : Unanswered(c)

LEMMA ServiceInit == Init => ServiceInv
<1> SUFFICES ASSUME Init PROVE ServiceInv
  OBVIOUS
<1>1. \A c \in Conns : handler[c] = "none"
  BY DEF Init, SessionInit
<1> QED BY <1>1, InitInv DEF ServiceInv, Unanswered

LEMMA ServiceNext ==
    ServiceInv /\ [Next]_vars => ServiceInv' /\ [Service!Next]_(Service!vars)
<1> SUFFICES ASSUME ServiceInv, [Next]_vars
             PROVE  ServiceInv' /\ [Service!Next]_(Service!vars)
  OBVIOUS
<1> USE DEF ServiceInv, IndInv
<1>0. IndInv'
  BY NextInv
<1>1. ASSUME NEW c \in Conns, Serve(c)
      PROVE  /\ \A d \in Conns : Unanswered(d)'
             /\ [Service!Next]_(Service!vars)
  BY <1>1, ServeUnanswered, ServeOthers, SameUnanswered, ServeImplements DEF Agreed
<1>2. ASSUME NEW c \in Conns, PeerStep(c) \/ Connect(c) \/ ConnectOther(c)
      PROVE  /\ \A d \in Conns : Unanswered(d)'
             /\ [Service!Next]_(Service!vars)
  <2>1. \A d \in Conns : Unanswered(d)'
    BY <1>2, PeerUnanswered, PeerOthers, SameUnanswered
  <2> QED BY <1>2, <2>1, PeerImplements, ConnectImplements DEF Agreed
<1>3. ASSUME NEW c \in Conns, Handle(c), UNCHANGED peerVars
      PROVE  /\ \A d \in Conns : Unanswered(d)'
             /\ [Service!Next]_(Service!vars)
  <2>1. \A d \in Conns \ {c} : Same(d)
    BY <1>3 DEF Handle, HandlerGoes, peerVars, Same, TypeOK, SessionType
  <2>2. Unanswered(c)'
    BY <1>3 DEF Handle, HandlerGoes, Unanswered, Sent, TypeOK, SessionType
  <2> QED BY <1>3, <2>1, <2>2, SameUnanswered, HandleImplements
<1>4. ASSUME NEW c \in Conns, Arrive(c), UNCHANGED peerVars
      PROVE  /\ \A d \in Conns : Unanswered(d)'
             /\ [Service!Next]_(Service!vars)
  <2>1. UNCHANGED <<handler, toServer, toPeer, peer, challenges>>
    BY <1>4 DEF Arrive, handlerVars, peerVars
  <2>2. \A d \in Conns : Unanswered(d)'
    BY <2>1 DEF Unanswered, Sent
  <2>3. \A d \in Conns : Stage(d)' = Stage(d)
    BY <2>1 DEF Stage
  <2>4. \A d \in Conns : Claim(d)' = Claim(d)
    BY <2>1 DEF Claim
  <2>5. \A d \in Conns : Answer(d)' = Answer(d)
    BY <2>1 DEF Answer, Sent
  <2>6. \A d \in Conns : Result(d)' = Result(d)
    BY <2>1 DEF Result
  <2>7. UNCHANGED <<stage, claim, answer, result, live>>
    BY <2>1, <2>3, <2>4, <2>5, <2>6, LiveKept DEF stage, claim, answer, result
  <2> QED BY <2>2, <2>7 DEF Service!vars
<1>5. ASSUME NEW nonce \in Nonces, ForgetChallenge(nonce)
      PROVE  /\ \A d \in Conns : Unanswered(d)'
             /\ [Service!Next]_(Service!vars)
  <2>1. \A d \in Conns : Same(d)
    BY <1>5 DEF ForgetChallenge, handlerVars, peerVars, Same
  <2> QED BY <1>5, <2>1, SameUnanswered, ForgetImplements
<1>6. ASSUME Tick
      PROVE  /\ \A d \in Conns : Unanswered(d)'
             /\ [Service!Next]_(Service!vars)
  <2>1. \A d \in Conns : Unanswered(d)'
    BY <1>6 DEF Tick, SessionTick, Unanswered, Sent
  <2> QED BY <1>6, <2>1, TickImplements
<1>7. ASSUME UNCHANGED vars
      PROVE  /\ \A d \in Conns : Unanswered(d)'
             /\ [Service!Next]_(Service!vars)
  <2>1. \A d \in Conns : Same(d)
    BY <1>7 DEF vars, sessionVars, handlerVars, peerVars, Same
  <2>2. UNCHANGED live
    BY <1>7, LiveKept DEF vars, sessionVars
  <2> QED BY <2>1, <2>2, AllSame, SameUnanswered DEF Service!vars
<1> QED BY <1>0, <1>1, <1>2, <1>3, <1>4, <1>5, <1>6, <1>7 DEF Next

\* The exchange implements QuoteService, for any number of connections and
\* challenges: a quote is granted exactly for a solution of a live challenge,
\* each connection is judged once, and no client has a quote not granted to it.
THEOREM ServiceCorrect == Spec => ImplementsService
<1>1. Init => Service!Init
  <2> SUFFICES ASSUME Init PROVE Service!Init
    OBVIOUS
  <2>1. \A c \in Conns : Stage(c) = "idle"
    BY DEF Init, SessionInit, Stage
  <2>2. \A c \in Conns : Claim(c) = {}
    BY NoneAssumption DEF Init, SessionInit, Claim
  <2>3. \A c \in Conns : Answer(c) = "none"
    BY DEF Init, SessionInit, Answer, Sent
  <2>4. \A c \in Conns : Result(c) = "none"
    BY DEF Init, Result, Client, Waiting, AwaitsChallenge, AwaitsAnswer
  <2>5. live = {}
    BY DEF Init, SessionInit, NoChallenges, EmptyMap, live, Live
  <2> QED BY <2>1, <2>2, <2>3, <2>4, <2>5
          DEF Service!Init, stage, claim, answer, result
<1> QED BY <1>1, ServiceInit, ServiceNext, PTL
        DEF Spec, ImplementsService, Service!Spec

-----------------------------------------------------------------------------
(* The time of a session. *)

\* What is left of a session is bounded by its place and its deadline.
HandlerOnTime(c) ==
    /\ reading[c] \in Nat
    /\ reading[c] < 2 * ReadTimeout
    /\ handler[c] \in {"backlog", "create", "challenge"} => reading[c] = 0
    /\ handler[c] = "header" => reading[c] + readLeft[c] <= ReadTimeout
    /\ handler[c] = "payload" => reading[c] + readLeft[c] < 2 * ReadTimeout

ClientOnTime(c) ==
    /\ waiting[c] \in Nat
    /\ waiting[c] < 4 * ClientTimeout
    /\ peer[c] = "awaitChallenge" => waiting[c] + peerLeft[c] <= ClientTimeout
    /\ peer[c] = "challengePayload" => waiting[c] + peerLeft[c] < 2 * ClientTimeout
    /\ peer[c] \in {"solve", "send"} => waiting[c] < 2 * ClientTimeout
    /\ peer[c] = "awaitAnswer" => waiting[c] + peerLeft[c] < 3 * ClientTimeout
    /\ peer[c] = "answerPayload" => waiting[c] + peerLeft[c] < 4 * ClientTimeout

TimeInv ==
    /\ IndInv
    /\ \A c \in Conns : HandlerOnTime(c) /\ ClientOnTime(c)

\* What a step of a handler does to its place and its read's deadline.
LEMMA ServeTime ==
    ASSUME TypeOK, NEW c \in Conns, Serve(c)
    PROVE  /\ UNCHANGED peerVars
           /\ handler[c] \in Handling
           /\ StepsLeft(handler'[c]) < StepsLeft(handler[c])
           /\ \A d \in Conns \ {c} : /\ handler'[d] = handler[d]
                                     /\ readLeft'[d] = readLeft[d]
           /\ handler'[c] \notin {"backlog", "create"}
           /\ handler'[c] = "challenge" => handler[c] = "create"
           /\ handler'[c] = "header" => /\ handler[c] = "challenge"
                                        /\ readLeft'[c] = ReadTimeout
           /\ handler'[c] = "payload" => /\ handler[c] = "header"
                                         /\ readLeft[c] > 0
                                         /\ readLeft'[c] = ReadTimeout
<1> USE DEF TypeOK, SessionType, HandlerGoes, StepsLeft, Handling, Reading
<1>1. HandlerStep(c, There(c)) /\ UNCHANGED peerVars
    BY DEF Serve
<1>2. CASE Create(c)
    BY <1>1, <1>2 DEF Create
<1>3. CASE SendChallenge(c, There(c))
    BY <1>1, <1>3 DEF SendChallenge, Write, StartRead
<1>4. CASE ChallengeInvalid(c)
    BY <1>1, <1>4 DEF ChallengeInvalid
<1>5. CASE ReadHeader(c)
    BY <1>1, <1>5 DEF ReadHeader, Read, StartRead, EndRead
<1>6. CASE ReadPayload(c)
    BY <1>1, <1>6 DEF ReadPayload, Read, StartRead, EndRead
<1>7. CASE ReadFails(c, There(c))
    BY <1>1, <1>7 DEF ReadFails, Read, StartRead, EndRead
<1>8. CASE Verify(c)
    BY <1>1, <1>8 DEF Verify
<1>9. CASE Reply(c, There(c))
    BY <1>1, <1>9 DEF Reply, Write
<1>10. CASE Close(c)
    BY <1>1, <1>10 DEF Close, EndRead
<1> QED BY <1>1, <1>2, <1>3, <1>4, <1>5, <1>6, <1>7, <1>8, <1>9, <1>10
        DEF HandlerStep

\* What a step of a peer does to its place and its deadline.
LEMMA PeerTime ==
    ASSUME TypeOK, NEW c \in Conns, PeerStep(c)
    PROVE  /\ UNCHANGED <<handler, readLeft>>
           /\ There(c)
           /\ \A d \in Conns \ {c} : /\ peer'[d] = peer[d]
                                     /\ peerLeft'[d] = peerLeft[d]
           /\ peer'[c] # "awaitChallenge"
           /\ peer'[c] = "challengePayload" => /\ peer[c] = "awaitChallenge"
                                               /\ peerLeft[c] > 0
                                               /\ peerLeft'[c] = ClientTimeout
           /\ peer'[c] = "solve" => peer[c] = "challengePayload"
           /\ peer'[c] = "send" => peer[c] = "solve"
           /\ peer'[c] = "awaitAnswer" => /\ peer[c] = "send"
                                          /\ peerLeft'[c] = ClientTimeout
           /\ peer'[c] = "answerPayload" => /\ peer[c] = "awaitAnswer"
                                            /\ peerLeft[c] > 0
                                            /\ peerLeft'[c] = ClientTimeout
<1> USE DEF TypeOK, There, Over, Client, Waiting, AwaitsChallenge, AwaitsAnswer, Leave, handlerVars, sessionVars,
            peerVars
<1>1. CASE ReceiveChallenge(c)
    BY <1>1 DEF ReceiveChallenge
<1>2. CASE Solve(c)
    BY <1>2 DEF Solve
<1>3. CASE SendSolution(c)
    BY <1>3 DEF SendSolution
<1>4. CASE ReceiveAnswer(c)
    BY <1>4 DEF ReceiveAnswer
<1>5. CASE ClientTimesOut(c) \/ ClientFindsClosed(c)
    BY <1>5 DEF ClientTimesOut, ClientFindsClosed
<1>6. CASE SendAny(c)
    BY <1>6 DEF SendAny
<1>7. CASE LeaveAnyTime(c)
    BY <1>7 DEF LeaveAnyTime
<1>8. CASE ReceiveHeader(c)
    BY <1>8 DEF ReceiveHeader
<1> QED BY <1>1, <1>2, <1>3, <1>4, <1>5, <1>6, <1>7, <1>8 DEF PeerStep, ClientGoes, ClientReads

\* What a step that is no tick does to the clocks of a connection.
LEMMA ClocksStand ==
    ASSUME TimeNext, ~Tick, NEW c \in Conns
    PROVE  /\ reading'[c] = IF handler[c] \notin Handling THEN 0 ELSE reading[c]
           /\ waiting'[c] = IF ~There(c) THEN 0 ELSE waiting[c]
BY DEF TimeNext

\* A connection at which nothing happens.
LEMMA HandlerStands ==
    ASSUME NEW c \in Conns, HandlerOnTime(c), handler'[c] = handler[c],
           readLeft'[c] = readLeft[c],
           reading'[c] = IF handler[c] \notin Handling THEN 0 ELSE reading[c]
    PROVE  HandlerOnTime(c)'
BY SessionAssumption DEF HandlerOnTime, Handling, Reading

LEMMA ClientStands ==
    ASSUME NEW c \in Conns, ClientOnTime(c), peer'[c] = peer[c],
           peerLeft'[c] = peerLeft[c],
           waiting'[c] = IF ~There(c) THEN 0 ELSE waiting[c]
    PROVE  ClientOnTime(c)'
BY ExchangeAssumption DEF ClientOnTime, There, Over

\* A read begins only when the one before has ended in time.
LEMMA ServeOnTime ==
    ASSUME TimeInv, TimeNext, ~Tick, NEW c \in Conns, Serve(c)
    PROVE  \A d \in Conns : HandlerOnTime(d)' /\ ClientOnTime(d)'
<1> SUFFICES ASSUME NEW d \in Conns PROVE HandlerOnTime(d)' /\ ClientOnTime(d)'
    OBVIOUS
<1>1. TypeOK /\ HandlerOnTime(d) /\ ClientOnTime(d)
    BY DEF TimeInv, IndInv
<1>2. /\ reading'[d] = IF handler[d] \notin Handling THEN 0 ELSE reading[d]
      /\ waiting'[d] = IF ~There(d) THEN 0 ELSE waiting[d]
    BY ClocksStand
<1>3. UNCHANGED <<peer, peerLeft>>
    BY <1>1, ServeTime DEF peerVars
<1>4. ClientOnTime(d)'
    BY <1>1, <1>2, <1>3, ClientStands
<1>5. CASE d # c
    <2>1. handler'[d] = handler[d] /\ readLeft'[d] = readLeft[d]
        BY <1>1, <1>5, ServeTime
    <2> QED BY <1>1, <1>2, <1>4, <2>1, HandlerStands
<1>6. CASE d = c
    <2>1. reading'[c] = reading[c]
        BY <1>1, <1>2, <1>6, ServeTime
    <2>2. readLeft[c] \in Nat
        BY <1>1 DEF TypeOK, SessionType
    <2>3. handler'[c] \notin {"backlog", "create"}
          /\ (handler'[c] = "challenge" => handler[c] = "create")
        BY <1>1, ServeTime
    <2>4. handler'[c] = "header" => reading[c] = 0 /\ readLeft'[c] = ReadTimeout
        BY <1>1, <1>6, ServeTime DEF HandlerOnTime
    <2>5. handler'[c] = "payload"
              => reading[c] < ReadTimeout /\ readLeft'[c] = ReadTimeout
        <3>1. handler'[c] = "payload"
                  => /\ handler[c] = "header" /\ readLeft[c] > 0
                     /\ readLeft'[c] = ReadTimeout
            BY <1>1, ServeTime
        <3> QED BY <1>1, <1>6, <2>2, <3>1, SessionAssumption DEF HandlerOnTime
    <2> QED BY <1>1, <1>4, <1>6, <2>1, <2>3, <2>4, <2>5, SessionAssumption
            DEF HandlerOnTime
<1> QED BY <1>5, <1>6

LEMMA PeerOnTime ==
    ASSUME TimeInv, TimeNext, ~Tick, NEW c \in Conns, PeerStep(c)
    PROVE  \A d \in Conns : HandlerOnTime(d)' /\ ClientOnTime(d)'
<1> SUFFICES ASSUME NEW d \in Conns PROVE HandlerOnTime(d)' /\ ClientOnTime(d)'
    OBVIOUS
<1>1. TypeOK /\ HandlerOnTime(d) /\ ClientOnTime(d)
    BY DEF TimeInv, IndInv
<1>2. /\ reading'[d] = IF handler[d] \notin Handling THEN 0 ELSE reading[d]
      /\ waiting'[d] = IF ~There(d) THEN 0 ELSE waiting[d]
    BY ClocksStand
<1>3. UNCHANGED <<handler, readLeft>>
    BY <1>1, PeerTime
<1>4. HandlerOnTime(d)'
    BY <1>1, <1>2, <1>3, HandlerStands
<1>5. CASE d # c
    <2>1. peer'[d] = peer[d] /\ peerLeft'[d] = peerLeft[d]
        BY <1>1, <1>5, PeerTime
    <2> QED BY <1>1, <1>2, <1>4, <2>1, ClientStands
<1>6. CASE d = c
    <2>1. waiting'[c] = waiting[c]
        BY <1>1, <1>2, <1>6, PeerTime
    <2>2. peerLeft[c] \in Nat
        BY <1>1 DEF TypeOK
    <2>3. /\ peer'[c] # "awaitChallenge"
          /\ peer'[c] = "challengePayload" => /\ peer[c] = "awaitChallenge"
                                              /\ peerLeft[c] > 0
                                              /\ peerLeft'[c] = ClientTimeout
          /\ peer'[c] = "solve" => peer[c] = "challengePayload"
          /\ peer'[c] = "send" => peer[c] = "solve"
          /\ peer'[c] = "awaitAnswer" => /\ peer[c] = "send"
                                         /\ peerLeft'[c] = ClientTimeout
          /\ peer'[c] = "answerPayload" => /\ peer[c] = "awaitAnswer"
                                           /\ peerLeft[c] > 0
                                           /\ peerLeft'[c] = ClientTimeout
        BY <1>1, PeerTime
    <2> QED BY <1>1, <1>4, <1>6, <2>1, <2>2, <2>3, ExchangeAssumption
            DEF ClientOnTime
<1> QED BY <1>5, <1>6

\* A connection begins, or is taken up: its clocks are at zero.
LEMMA BeginOnTime ==
    ASSUME TimeInv, TimeNext, ~Tick, NEW c \in Conns,
           Connect(c) \/ ConnectOther(c) \/ (Handle(c) /\ UNCHANGED peerVars)
    PROVE  \A d \in Conns : HandlerOnTime(d)' /\ ClientOnTime(d)'
<1> SUFFICES ASSUME NEW d \in Conns PROVE HandlerOnTime(d)' /\ ClientOnTime(d)'
    OBVIOUS
<1>1. TypeOK /\ HandlerOnTime(d) /\ ClientOnTime(d)
    BY DEF TimeInv, IndInv
<1>2. /\ reading'[d] = IF handler[d] \notin Handling THEN 0 ELSE reading[d]
      /\ waiting'[d] = IF ~There(d) THEN 0 ELSE waiting[d]
    BY ClocksStand
<1>3. /\ \/ handler'[d] = handler[d]
         \/ handler[d] \notin Handling /\ handler'[d] \in {"backlog", "create"}
      /\ readLeft'[d] = readLeft[d]
    BY <1>1 DEF Connect, ConnectOther, Connects, Closed, Handle, HandlerGoes,
                TypeOK, SessionType, Handling, Reading
<1>4. /\ \/ peer'[d] = peer[d]
         \/ ~There(d) /\ peer'[d] \in {"awaitChallenge", "other"}
      /\ \/ peerLeft'[d] = peerLeft[d]
         \/ ~There(d) /\ peerLeft'[d] = ClientTimeout
      /\ ~There(d) /\ peer'[d] = "awaitChallenge" => peerLeft'[d] = ClientTimeout
    BY <1>1 DEF Connect, ConnectOther, Connects, Closed, Handle, peerVars,
                TypeOK, There, Over
<1>5. HandlerOnTime(d)'
    <2>1. CASE handler'[d] = handler[d]
        BY <1>1, <1>2, <1>3, <2>1, HandlerStands
    <2>2. CASE handler[d] \notin Handling /\ handler'[d] \in {"backlog", "create"}
        BY <1>2, <2>2, SessionAssumption DEF HandlerOnTime
    <2> QED BY <1>3, <2>1, <2>2
<1>6. ClientOnTime(d)'
    <2>1. CASE There(d)
        BY <1>1, <1>2, <1>4, <2>1, ClientStands
    <2>2. CASE ~There(d)
        BY <1>2, <1>4, <2>2, ExchangeAssumption DEF ClientOnTime, There, Over
    <2> QED BY <2>1, <2>2
<1> QED BY <1>5, <1>6

\* A tick that a clock counts is one that the deadline has lost.
LEMMA TickOnTime ==
    ASSUME TimeInv, TimeNext, Tick
    PROVE  \A d \in Conns : HandlerOnTime(d)' /\ ClientOnTime(d)'
<1> SUFFICES ASSUME NEW d \in Conns PROVE HandlerOnTime(d)' /\ ClientOnTime(d)'
    OBVIOUS
<1>1. /\ HandlerOnTime(d) /\ ClientOnTime(d)
      /\ readLeft[d] \in Nat /\ peerLeft[d] \in Nat
    BY DEF TimeInv, IndInv, TypeOK, SessionType
<1>2. /\ reading'[d] = IF handler[d] \notin Handling THEN 0
                       ELSE IF HandlerWaits(d) THEN reading[d] + 1 ELSE reading[d]
      /\ waiting'[d] = IF ~There(d) THEN 0
                       ELSE IF ClientWaits(d) THEN waiting[d] + 1 ELSE waiting[d]
    BY DEF TimeNext
<1>3. /\ UNCHANGED <<handler, peer>>
      /\ readLeft'[d] = IF readLeft[d] = 0 THEN 0 ELSE readLeft[d] - 1
      /\ peerLeft'[d] = IF peerLeft[d] = 0 THEN 0 ELSE peerLeft[d] - 1
    BY DEF Tick, SessionTick, Left
<1>4. HandlerOnTime(d)'
    BY <1>1, <1>2, <1>3, SessionAssumption
       DEF HandlerOnTime, HandlerWaits, Handling, Reading
<1>5. ClientOnTime(d)'
    BY <1>1, <1>2, <1>3, ExchangeAssumption
       DEF ClientOnTime, ClientWaits, Waiting, AwaitsChallenge, AwaitsAnswer,
           There, Over
<1> QED BY <1>4, <1>5

LEMMA TimeStep == TimeInv /\ [TimeNext]_timeVars => TimeInv'
<1> SUFFICES ASSUME TimeInv, [TimeNext]_timeVars PROVE TimeInv'
    OBVIOUS
<1>1. IndInv'
    <2>1. IndInv /\ [Next]_vars
        BY DEF TimeInv, TimeNext, timeVars
    <2> QED BY <2>1, NextInv
<1>2. ASSUME TimeNext PROVE \A d \in Conns : HandlerOnTime(d)' /\ ClientOnTime(d)'
    <2>1. CASE Tick
        BY <1>2, <2>1, TickOnTime
    <2>2. ASSUME ~Tick, NEW c \in Conns, Serve(c)
          PROVE  \A d \in Conns : HandlerOnTime(d)' /\ ClientOnTime(d)'
        BY <1>2, <2>2, ServeOnTime
    <2>3. ASSUME ~Tick, NEW c \in Conns, PeerStep(c)
          PROVE  \A d \in Conns : HandlerOnTime(d)' /\ ClientOnTime(d)'
        BY <1>2, <2>3, PeerOnTime
    <2>4. ASSUME ~Tick, NEW c \in Conns,
                 Connect(c) \/ ConnectOther(c) \/ (Handle(c) /\ UNCHANGED peerVars)
          PROVE  \A d \in Conns : HandlerOnTime(d)' /\ ClientOnTime(d)'
        BY <1>2, <2>4, BeginOnTime
    <2>5. ASSUME ~Tick,
                 \/ \E c \in Conns : Arrive(c) /\ UNCHANGED peerVars
                 \/ \E nonce \in Nonces : ForgetChallenge(nonce)
          PROVE  \A d \in Conns : HandlerOnTime(d)' /\ ClientOnTime(d)'
        <3>1. UNCHANGED <<handler, readLeft, peer, peerLeft>>
            BY <2>5 DEF Arrive, ForgetChallenge, handlerVars, peerVars
        <3> SUFFICES ASSUME NEW d \in Conns
                     PROVE  HandlerOnTime(d)' /\ ClientOnTime(d)'
            OBVIOUS
        <3>2. HandlerOnTime(d) /\ ClientOnTime(d)
            BY DEF TimeInv
        <3>3. /\ reading'[d] = IF handler[d] \notin Handling THEN 0 ELSE reading[d]
              /\ waiting'[d] = IF ~There(d) THEN 0 ELSE waiting[d]
            BY <1>2, <2>5, ClocksStand
        <3> QED BY <3>1, <3>2, <3>3, HandlerStands, ClientStands
    <2>6. Next
        BY <1>2 DEF TimeNext
    <2> QED BY <2>1, <2>2, <2>3, <2>4, <2>5, <2>6 DEF Next
<1>3. ASSUME UNCHANGED timeVars
      PROVE  \A d \in Conns : HandlerOnTime(d)' /\ ClientOnTime(d)'
    BY <1>3 DEF timeVars, vars, sessionVars, handlerVars, peerVars, TimeInv,
                HandlerOnTime, ClientOnTime
<1> QED BY <1>1, <1>2, <1>3 DEF TimeInv

LEMMA AlwaysTimeInv == TimeSpec => []TimeInv
<1>1. TimeInit => TimeInv
    BY InitInv, SessionAssumption, ExchangeAssumption
       DEF TimeInit, Init, SessionInit, TimeInv, HandlerOnTime, ClientOnTime
<1> QED BY <1>1, TimeStep, PTL DEF TimeSpec

\* No peer, whatever it sends or does not send, keeps a handler waiting for two
\* read timeouts.
THEOREM ReadingCorrect == TimeSpec => []ReadingBounded
<1>1. TimeInv => ReadingBounded
    BY DEF TimeInv, HandlerOnTime, ReadingBounded
<1> QED BY <1>1, AlwaysTimeInv, PTL

\* No server and no network keep a client waiting for four of the client's read
\* timeouts: two for the two parts of each of its two messages.
THEOREM WaitingCorrect == TimeSpec => []WaitingBounded
<1>1. TimeInv => WaitingBounded
    BY DEF TimeInv, ClientOnTime, WaitingBounded
<1> QED BY <1>1, AlwaysTimeInv, PTL

\* A handler takes at most seven steps and never goes back.
THEOREM AdvanceCorrect == Spec => SessionsAdvance
<1> DEFINE Advances ==
        \A c \in Conns :
            handler[c] \in Handling
                => /\ Serve(c) => StepsLeft(handler'[c]) < StepsLeft(handler[c])
                   /\ StepsLeft(handler'[c]) <= StepsLeft(handler[c])
<1>1. IndInv /\ [Next]_vars => [Advances]_vars
    <2> SUFFICES ASSUME IndInv, Next, NEW c \in Conns, handler[c] \in Handling
                 PROVE  /\ Serve(c) => StepsLeft(handler'[c]) < StepsLeft(handler[c])
                        /\ StepsLeft(handler'[c]) <= StepsLeft(handler[c])
        OBVIOUS
    <2>1. TypeOK
        BY DEF IndInv
    <2>2. \A place : StepsLeft(place) \in Nat
        BY DEF StepsLeft
    <2>3. ASSUME NEW d \in Conns, Serve(d)
          PROVE  StepsLeft(handler'[c]) <= StepsLeft(handler[c])
        <3>1. CASE d = c
            BY <2>1, <2>2, <2>3, <3>1, ServeTime
        <3>2. CASE d # c
            <4>1. handler'[c] = handler[c]
                BY <2>1, <2>3, <3>2, ServeTime
            <4> QED BY <2>2, <4>1
        <3> QED BY <3>1, <3>2
    <2>4. CASE ~(\E d \in Conns : Serve(d))
        <3>1. handler'[c] = handler[c]
            <4>1. ASSUME NEW d \in Conns,
                         Connect(d) \/ ConnectOther(d) \/ Handle(d)
                  PROVE  handler'[c] = handler[c]
                BY <2>1, <4>1 DEF Connect, ConnectOther, Connects, Closed, Handle,
                                  HandlerGoes, TypeOK, SessionType, Handling,
                                  Reading
            <4>2. ASSUME NEW d \in Conns, PeerStep(d) PROVE handler'[c] = handler[c]
                BY <2>1, <4>2, PeerTime
            <4>3. ASSUME \/ \E d \in Conns : Arrive(d)
                         \/ \E nonce \in Nonces : ForgetChallenge(nonce)
                         \/ Tick
                  PROVE  handler'[c] = handler[c]
                BY <4>3 DEF Arrive, ForgetChallenge, Tick, SessionTick, handlerVars
            <4> QED BY <2>4, <4>1, <4>2, <4>3 DEF Next
        <3> QED BY <2>2, <2>4, <3>1
    <2> QED BY <2>1, <2>3, <2>4, ServeTime
<1> QED BY <1>1, AlwaysIndInv, PTL DEF Spec, SessionsAdvance
=============================================================================
