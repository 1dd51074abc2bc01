---------------------------- MODULE ServerProofs ----------------------------
(***************************************************************************)
(* Proofs about Server for every number of connections, every limit and    *)
(* every configuration of the connection limiter.                          *)
(***************************************************************************)
EXTENDS SlotLeaks, ConnectionLimiterProofs, FiniteSetTheorems, TLAPS

\* A connection Run is deciding on has no handler, and is not waiting to be
\* accepted: nobody else acts on it.
Ownership ==
    /\ run \in Deciding <=> inHand # NoConn
    /\ run \in Deciding => handler[inHand] = "none"
    /\ backlog \cap open = {}

\* Once Run has found room there stays room until it has taken it: the other
\* goroutines only ever lower currentConns.
Reservation ==
    /\ currentConns <= MaxConnections
    /\ run \in {"addActive", "addCurrent"} => currentConns < MaxConnections

\* The order in which a shutdown takes the server apart.
Dismantling ==
    /\ run = "init" => listener = "nil"
    /\ listener = "nil" => run \in {"init", "failed"}
    /\ run = "stopped" \/ listener = "closed" \/ waiter # "none" => ctxDone
    /\ main \in {"shutdown", "wait"} => ctxDone
    /\ main \in {"serving", "shutdown"} => waiter = "none"
    /\ waiter # "none" /\ run = "accept" => listener = "closed"

\* After the WaitGroup has reached zero only the connection that Run has in
\* hand can still be in progress.
Drained == waiter \in {"woken", "finished"} => InProgress <= 1

IndInv ==
    /\ TypeOK
    /\ Ownership
    /\ NoSocketLeak
    /\ CountersAgree
    /\ Reservation
    /\ Dismantling
    /\ Drained
-----------------------------------------------------------------------------
(* How the sets of handlers and their sizes change. *)

\* Both sets are finite, and being served includes not being done.
LEMMA HandlersFinite ==
    /\ IsFiniteSet(NotDone) /\ Cardinality(NotDone) \in Nat
    /\ IsFiniteSet(Counted) /\ Cardinality(Counted) \in Nat
<1>1. NotDone \in SUBSET Conns /\ Counted \in SUBSET Conns
    BY DEF NotDone, Counted
<1> QED BY <1>1, ServerAssumption, FS_Subset, FS_CardinalityType

\* A handler that stays on the same side of Done and of Add(-1) leaves both
\* sets as they are.
LEMMA SameSets ==
    ASSUME handler \in [Conns -> HandlerStates], NEW c \in Conns,
           NEW next \in HandlerStates,
           handler' = [handler EXCEPT ![c] = next],
           handler[c] \in Working <=> next \in Working,
           handler[c] = "decrement" <=> next = "decrement"
    PROVE  NotDone' = NotDone /\ Counted' = Counted
BY DEF NotDone, Counted

\* The handler Run starts is in both sets, and was in neither.
LEMMA StartedSets ==
    ASSUME handler \in [Conns -> HandlerStates], NEW c \in Conns,
           handler[c] = "none", handler' = [handler EXCEPT ![c] = "start"]
    PROVE  /\ Cardinality(NotDone') = Cardinality(NotDone) + 1
           /\ Cardinality(Counted') = Cardinality(Counted) + 1
<1>1. NotDone' = NotDone \cup {c} /\ c \notin NotDone
    BY DEF NotDone, Working
<1>2. Counted' = Counted \cup {c} /\ c \notin Counted
    BY DEF Counted, Working
<1> QED BY <1>1, <1>2, HandlersFinite, FS_AddElement

\* Done takes a handler out of the first set only.
LEMMA DoneSets ==
    ASSUME handler \in [Conns -> HandlerStates], NEW c \in Conns,
           handler[c] = "done", handler' = [handler EXCEPT ![c] = "decrement"]
    PROVE  /\ Cardinality(NotDone) > 0
           /\ Cardinality(NotDone') = Cardinality(NotDone) - 1
           /\ Counted' = Counted
<1>1. NotDone' = NotDone \ {c} /\ c \in NotDone
    BY DEF NotDone, Working
<1>2. Counted' = Counted
    BY DEF Counted, Working
<1>3. Cardinality(NotDone) > 0
    BY <1>1, HandlersFinite, FS_EmptySet
<1> QED BY <1>1, <1>2, <1>3, HandlersFinite, FS_RemoveElement

\* Add(-1) takes it out of the second.
LEMMA DecrementSets ==
    ASSUME handler \in [Conns -> HandlerStates], NEW c \in Conns,
           handler[c] = "decrement", handler' = [handler EXCEPT ![c] = "remove"]
    PROVE  /\ NotDone' = NotDone
           /\ Cardinality(Counted') = Cardinality(Counted) - 1
<1>1. NotDone' = NotDone
    BY DEF NotDone, Working
<1>2. Counted' = Counted \ {c} /\ c \in Counted
    BY DEF Counted, Working
<1> QED BY <1>1, <1>2, HandlersFinite, FS_RemoveElement

\* A counter that a handler is about to lower is not zero.
LEMMA PositiveCounters ==
    ASSUME TypeOK, CountersAgree, NEW c \in Conns
    PROVE  /\ handler[c] = "done" => activeConns > 0
           /\ handler[c] = "decrement" => currentConns > 0
<1>1. handler[c] = "done" => Cardinality(NotDone) # 0
    BY HandlersFinite, FS_EmptySet DEF NotDone, Working
<1>2. handler[c] = "decrement" => Cardinality(Counted) # 0
    BY HandlersFinite, FS_EmptySet DEF Counted
<1> QED BY <1>1, <1>2, HandlersFinite DEF CountersAgree, TypeOK
-----------------------------------------------------------------------------
(* Type correctness *)

\* Every operation of Run keeps the types.
LEMMA RunType ==
    ASSUME IndInv, RunStep \/ AcceptError
    PROVE  TypeOK'
<1> USE DEF IndInv, TypeOK, runVars, connVars, counterVars, loadVars, stopVars,
            RunStates, Deciding
<1>1. CASE Listen \/ ListenFails
    BY <1>1 DEF Listen, ListenFails, LimiterType
<1>2. CASE PollContext \/ Accept \/ AcceptClosed \/ AcceptError
    BY <1>2 DEF PollContext, Accept, AcceptClosed, AcceptError, LimiterType
<1>3. CASE CheckProtection \/ CheckRateLimit \/ CheckMaxConnections
    BY <1>3 DEF CheckProtection, CheckRateLimit, CheckMaxConnections, Drop, GoOn,
                LimiterType
<1>4. CASE CheckConnectionLimit
    <2>1. inHand \in Conns /\ IPOf[inHand] \in IPs
        BY <1>4, ServerAssumption DEF CheckConnectionLimit, Ownership
    <2>2. LimiterType'
        BY <1>4, <2>1, AdmitType DEF CheckConnectionLimit, Refuse, LimiterType
    <2> QED BY <1>4, <2>2 DEF CheckConnectionLimit, Drop, GoOn
<1>5. CASE AddActive \/ AddCurrent
    BY <1>5 DEF AddActive, AddCurrent, HandlerStates, Working, LimiterType
<1> QED BY <1>1, <1>2, <1>3, <1>4, <1>5 DEF RunStep

\* Every operation of a handler keeps the types: in particular no counter
\* falls below zero.
LEMMA HandlerType ==
    ASSUME IndInv, NEW c \in Conns, HandlerStep(c)
    PROVE  TypeOK'
<1> USE DEF IndInv, TypeOK, runVars, connVars, counterVars, loadVars, stopVars,
            HandlerStates, Working, HandlerGoes
<1>1. CASE SendChallenge(c) \/ Answer(c) \/ RegisterFailure(c) \/ Close(c)
    BY <1>1 DEF SendChallenge, Answer, RegisterFailure, Close, LimiterType
<1>2. CASE Done(c)
    <2>1. activeConns - 1 \in Nat
        BY <1>2, PositiveCounters DEF Done
    <2> QED BY <1>2, <2>1 DEF Done, LimiterType
<1>3. CASE Decrement(c)
    <2>1. currentConns - 1 \in Nat
        BY <1>3, PositiveCounters DEF Decrement
    <2> QED BY <1>3, <2>1 DEF Decrement, LimiterType
<1>4. CASE ReleaseSlot(c)
    <2>1. LimiterType'
        BY <1>4, ServerAssumption, RemoveConnectionType DEF ReleaseSlot
    <2> QED BY <1>4, <2>1 DEF ReleaseSlot
<1> QED BY <1>1, <1>2, <1>3, <1>4 DEF HandlerStep

\* Every step keeps the types.
LEMMA TypeStep == IndInv /\ [Next]_vars => TypeOK'
<1> SUFFICES ASSUME IndInv, [Next]_vars PROVE TypeOK'
    OBVIOUS
<1> USE DEF IndInv, TypeOK, runVars, connVars, counterVars, loadVars, stopVars,
            othersOfMain, othersOfLimiter
<1>1. ASSUME NEW c \in Conns, Dial(c) PROVE TypeOK'
    BY <1>1 DEF Dial, LimiterType
<1>2. CASE AdjusterStep
    BY <1>2, ServerAssumption
       DEF AdjusterStep, ReadLoad, SwapDifficulty, StopAdjusting, Target, LimiterType
<1>3. CASE Signal \/ MainStep \/ ShutdownTimeout
    BY <1>3 DEF Signal, MainStep, RunReturned, CloseListener, ShutdownComplete,
                Exit, ShutdownTimeout, LimiterType
<1>4. CASE WaiterStep
    BY <1>4 DEF WaiterStep, Wait, WaitReturns, LimiterType
<1>5. CASE LimiterCleanup \/ LimiterTick
    BY <1>5, CleanupType, AgeType DEF LimiterCleanup, LimiterTick
<1>6. CASE UNCHANGED vars
    BY <1>6 DEF vars, LimiterType
<1> QED BY <1>1, <1>2, <1>3, <1>4, <1>5, <1>6, RunType, HandlerType DEF Next
-----------------------------------------------------------------------------
(* Connections *)

\* Run takes connections from the backlog and lets go of them by closing them
\* or by starting a handler, a handler ends with closing its own, and nobody
\* else touches them.
LEMMA ConnectionStep == IndInv /\ [Next]_vars => Ownership' /\ NoSocketLeak'
<1> SUFFICES ASSUME IndInv, [Next]_vars PROVE Ownership' /\ NoSocketLeak'
    OBVIOUS
<1> USE ServerAssumption
    DEF IndInv, TypeOK, Ownership, NoSocketLeak, Deciding,
        runVars, connVars, counterVars, loadVars, stopVars,
        othersOfMain, othersOfLimiter
<1>1. ASSUME NEW c \in Conns, Dial(c) PROVE Ownership' /\ NoSocketLeak'
    BY <1>1 DEF Dial
<1>2. ASSUME NEW c \in Conns, HandlerStep(c) PROVE Ownership' /\ NoSocketLeak'
    <2>1. CASE Close(c)
        BY <2>1 DEF Close, HandlerGoes
    <2>2. CASE ~Close(c)
        BY <1>2, <2>2
           DEF HandlerStep, SendChallenge, Answer, RegisterFailure, Done,
               Decrement, ReleaseSlot, HandlerGoes
    <2> QED BY <2>1, <2>2
<1>3. CASE Listen \/ ListenFails \/ PollContext \/ AcceptClosed \/ AcceptError
    BY <1>3 DEF Listen, ListenFails, PollContext, AcceptClosed, AcceptError
<1>4. CASE Accept
    BY <1>4 DEF Accept
<1>5. CASE CheckProtection \/ CheckConnectionLimit \/ CheckRateLimit
           \/ CheckMaxConnections
    BY <1>5 DEF CheckProtection, CheckConnectionLimit, CheckRateLimit,
                CheckMaxConnections, Drop, GoOn
<1>6. CASE AddActive \/ AddCurrent
    BY <1>6 DEF AddActive, AddCurrent
<1>7. CASE AdjusterStep \/ LimiterCleanup \/ LimiterTick
    BY <1>7 DEF AdjusterStep, LimiterCleanup, LimiterTick
<1>8. CASE Signal \/ MainStep \/ ShutdownTimeout \/ WaiterStep
    BY <1>8 DEF Signal, MainStep, RunReturned, CloseListener, ShutdownComplete,
                Exit, ShutdownTimeout, WaiterStep, Wait, WaitReturns
<1>9. CASE UNCHANGED vars
    BY <1>9 DEF vars
<1> QED BY <1>1, <1>2, <1>3, <1>4, <1>5, <1>6, <1>7, <1>8, <1>9 DEF Next, RunStep
-----------------------------------------------------------------------------
(* Counters *)

\* A step that leaves the handlers, the counters and Run's place relative to
\* the two Add(1)s alone preserves all that is said of the counters.
LEMMA SameCounters ==
    ASSUME CountersAgree, NotDone' = NotDone, Counted' = Counted,
           UNCHANGED counterVars, run' = "addCurrent" <=> run = "addCurrent"
    PROVE  CountersAgree'
BY DEF CountersAgree, counterVars

\* Steps outside the handlers and the two Add(1)s.
LEMMA CountersElsewhere ==
    ASSUME IndInv, UNCHANGED <<handler, counterVars>>,
           run' = "addCurrent" <=> run = "addCurrent"
    PROVE  CountersAgree'
<1>1. NotDone' = NotDone /\ Counted' = Counted
    BY DEF NotDone, Counted
<1> QED BY <1>1, SameCounters DEF IndInv

\* Each step of Run keeps the counters right.
LEMMA RunCounters ==
    ASSUME IndInv, RunStep \/ AcceptError
    PROVE  CountersAgree'
<1> USE DEF IndInv, TypeOK, runVars, counterVars
<1>1. CASE AddActive
    <2>1. NotDone' = NotDone /\ Counted' = Counted
        BY <1>1 DEF AddActive, NotDone, Counted
    <2> QED BY <1>1, <2>1, HandlersFinite DEF AddActive, CountersAgree
<1>2. CASE AddCurrent
    <2>1. inHand \in Conns /\ handler[inHand] = "none"
        BY <1>2 DEF AddCurrent, Ownership, Deciding
    <2>2. /\ Cardinality(NotDone') = Cardinality(NotDone) + 1
          /\ Cardinality(Counted') = Cardinality(Counted) + 1
        BY <1>2, <2>1, StartedSets DEF AddCurrent
    <2> QED BY <1>2, <2>2, HandlersFinite DEF AddCurrent, CountersAgree
<1>3. CASE ~AddActive /\ ~AddCurrent
    <2>1. /\ UNCHANGED <<handler, counterVars>>
          /\ run' = "addCurrent" <=> run = "addCurrent"
        BY <1>3 DEF RunStep, Listen, ListenFails, PollContext, Accept,
                    AcceptClosed, AcceptError, CheckProtection,
                    CheckConnectionLimit, CheckRateLimit, CheckMaxConnections,
                    Drop, GoOn
    <2> QED BY <2>1, CountersElsewhere
<1> QED BY <1>1, <1>2, <1>3

\* Each step of a handler keeps the counters right.
LEMMA HandlerCounters ==
    ASSUME IndInv, NEW c \in Conns, HandlerStep(c)
    PROVE  CountersAgree'
<1> USE DEF IndInv, TypeOK, runVars, counterVars, HandlerGoes
<1>1. CASE Done(c)
    <2>1. /\ Cardinality(NotDone') = Cardinality(NotDone) - 1
          /\ Counted' = Counted
        BY <1>1, DoneSets DEF Done
    <2> QED BY <1>1, <2>1, HandlersFinite DEF Done, CountersAgree
<1>2. CASE Decrement(c)
    <2>1. /\ NotDone' = NotDone
          /\ Cardinality(Counted') = Cardinality(Counted) - 1
        BY <1>2, DecrementSets DEF Decrement
    <2> QED BY <1>2, <2>1, HandlersFinite DEF Decrement, CountersAgree
<1>3. CASE ~Done(c) /\ ~Decrement(c)
    <2>1. PICK next \in HandlerStates :
              /\ handler' = [handler EXCEPT ![c] = next]
              /\ handler[c] \in Working <=> next \in Working
              /\ handler[c] # "decrement" /\ next # "decrement"
        BY <1>3 DEF HandlerStep, SendChallenge, Answer, RegisterFailure,
                    ReleaseSlot, Close, HandlerStates, Working
    <2>2. NotDone' = NotDone /\ Counted' = Counted
        BY <2>1, SameSets
    <2>3. UNCHANGED counterVars /\ UNCHANGED run
        BY <1>3 DEF HandlerStep, SendChallenge, Answer, RegisterFailure,
                    ReleaseSlot, Close
    <2> QED BY <2>2, <2>3, SameCounters
<1> QED BY <1>1, <1>2, <1>3

\* Every step keeps the counters right.
LEMMA CountersStep == IndInv /\ [Next]_vars => CountersAgree'
<1> SUFFICES ASSUME IndInv, [Next]_vars PROVE CountersAgree'
    OBVIOUS
<1>1. ASSUME ~(RunStep \/ AcceptError), ~ \E c \in Conns : HandlerStep(c)
      PROVE  CountersAgree'
    <2>1. UNCHANGED <<handler, counterVars, run>>
        BY <1>1
           DEF Next, Dial, AdjusterStep, Signal, MainStep, RunReturned,
               CloseListener, ShutdownComplete, Exit, ShutdownTimeout,
               WaiterStep, Wait, WaitReturns, LimiterCleanup, LimiterTick, vars,
               runVars, othersOfMain, othersOfLimiter
    <2> QED BY <2>1, CountersElsewhere
<1> QED BY <1>1, RunCounters, HandlerCounters
\* Run enters its reservation through the capacity check and leaves it by
\* taking the place; meanwhile currentConns can only fall.
LEMMA ReservationStep == IndInv /\ [Next]_vars => Reservation'
<1> SUFFICES ASSUME IndInv, [Next]_vars PROVE Reservation'
    OBVIOUS
<1> USE ServerAssumption DEF IndInv, TypeOK, Reservation,
        runVars, counterVars, othersOfMain, othersOfLimiter
<1>1. CASE RunStep \/ AcceptError
    BY <1>1 DEF RunStep, Listen, ListenFails, PollContext, Accept, AcceptClosed,
                AcceptError, CheckProtection, CheckConnectionLimit,
                CheckRateLimit, CheckMaxConnections, AtCapacity, AddActive,
                AddCurrent, Drop, GoOn
<1>2. ASSUME NEW c \in Conns, HandlerStep(c) PROVE Reservation'
    BY <1>2 DEF HandlerStep, SendChallenge, Answer, RegisterFailure, Done,
                Decrement, ReleaseSlot, Close, HandlerGoes
<1>3. CASE ~(RunStep \/ AcceptError) /\ ~ \E c \in Conns : HandlerStep(c)
    <2>1. UNCHANGED <<run, currentConns>>
        BY <1>3
           DEF Next, Dial, AdjusterStep, Signal, MainStep, RunReturned,
               CloseListener, ShutdownComplete, Exit, ShutdownTimeout,
               WaiterStep, Wait, WaitReturns, LimiterCleanup, LimiterTick, vars
    <2> QED BY <2>1
<1> QED BY <1>1, <1>2, <1>3

-----------------------------------------------------------------------------
(* Shutdown *)

\* The listener exists from Run's Listen on, the context is cancelled before
\* anything is taken apart, and from CloseListener on Accept only fails.
LEMMA DismantlingStep == IndInv /\ [Next]_vars => Dismantling'
<1> SUFFICES ASSUME IndInv, [Next]_vars PROVE Dismantling'
    OBVIOUS
<1> USE DEF IndInv, TypeOK, Dismantling, runVars, stopVars,
            othersOfMain, othersOfLimiter
<1>1. CASE RunStep \/ AcceptError
    BY <1>1 DEF RunStep, Listen, ListenFails, PollContext, Accept, AcceptClosed,
                AcceptError, CheckProtection, CheckConnectionLimit,
                CheckRateLimit, CheckMaxConnections, AddActive, AddCurrent,
                Drop, GoOn
<1>2. ASSUME NEW c \in Conns, HandlerStep(c) PROVE Dismantling'
    BY <1>2 DEF HandlerStep, SendChallenge, Answer, RegisterFailure, Done,
                Decrement, ReleaseSlot, Close, HandlerGoes
<1>3. CASE Signal \/ MainStep \/ ShutdownTimeout
    BY <1>3 DEF Signal, MainStep, RunReturned, CloseListener, ShutdownComplete,
                Exit, ShutdownTimeout
<1>4. CASE WaiterStep
    BY <1>4 DEF WaiterStep, Wait, WaitReturns
<1>5. CASE (\E c \in Conns : Dial(c)) \/ AdjusterStep \/ LimiterCleanup
           \/ LimiterTick \/ UNCHANGED vars
    <2>1. UNCHANGED <<run, stopVars>>
        BY <1>5 DEF Dial, AdjusterStep, LimiterCleanup, LimiterTick, vars
    <2> QED BY <2>1
<1> QED BY <1>1, <1>2, <1>3, <1>4, <1>5 DEF Next

\* What is in progress when the waiter is released, and after.
LEMMA DrainedStep == IndInv /\ [Next]_vars => Drained'
<1> SUFFICES ASSUME IndInv, [Next]_vars, waiter' \in {"woken", "finished"}
             PROVE  InProgress' <= 1
    BY DEF Drained
<1> USE HandlersFinite
    DEF IndInv, TypeOK, Drained, InProgress, runVars, stopVars, counterVars,
        othersOfMain, othersOfLimiter
<1>1. ASSUME NEW c \in Conns, HandlerStep(c) PROVE InProgress' <= 1
    <2>1. CASE Done(c)
        <3>1. /\ Cardinality(NotDone) > 0
              /\ Cardinality(NotDone') = Cardinality(NotDone) - 1
            BY <2>1, DoneSets DEF Done, HandlerGoes
        <3> QED BY <2>1, <3>1 DEF Done, HandlerGoes, CountersAgree
    <2>2. CASE ~Done(c)
        <3>1. PICK next \in HandlerStates :
                  /\ handler' = [handler EXCEPT ![c] = next]
                  /\ handler[c] \in Working <=> next \in Working
            BY <1>1, <2>2
               DEF HandlerStep, SendChallenge, Answer, RegisterFailure,
                   Decrement, ReleaseSlot, Close, HandlerGoes, HandlerStates,
                   Working
        <3>2. NotDone' = NotDone
            BY <3>1 DEF NotDone
        <3>3. waiter' = waiter /\ run' = run
            <4> HIDE DEF IndInv, TypeOK, Drained, InProgress
            <4> QED BY <1>1, <2>2
                    DEF HandlerStep, SendChallenge, Answer, RegisterFailure,
                        Decrement, ReleaseSlot, Close, HandlerGoes
        <3> QED BY <3>2, <3>3
    <2> QED BY <2>1, <2>2
<1>2. CASE RunStep \/ AcceptError
    <2>1. waiter' = waiter /\ ~Accept
        BY <1>2 DEF RunStep, Listen, ListenFails, PollContext, Accept,
                    AcceptClosed, AcceptError, CheckProtection,
                    CheckConnectionLimit, CheckRateLimit, CheckMaxConnections,
                    AddActive, AddCurrent, Drop, GoOn, Dismantling
    <2>2. CASE AddCurrent
        <3>1. inHand \in Conns /\ handler[inHand] = "none"
            BY <2>2 DEF AddCurrent, Ownership, Deciding
        <3>2. Cardinality(NotDone') = Cardinality(NotDone) + 1
            BY <2>2, <3>1, StartedSets DEF AddCurrent
        <3> QED BY <2>1, <2>2, <3>2 DEF AddCurrent, Deciding
    <2>3. CASE ~AddCurrent
        <3>1. handler' = handler /\ (run' \in Deciding => run \in Deciding)
            BY <1>2, <2>1, <2>3
               DEF RunStep, Listen, ListenFails, PollContext, AcceptClosed,
                   AcceptError, CheckProtection, CheckConnectionLimit,
                   CheckRateLimit, CheckMaxConnections, AddActive, Drop, GoOn,
                   Deciding
        <3>2. NotDone' = NotDone
            BY <3>1 DEF NotDone
        <3> QED BY <2>1, <3>1, <3>2
    <2> QED BY <2>2, <2>3
<1>3. CASE WaiterStep
    <2>1. NotDone' = NotDone /\ run' = run
        BY <1>3 DEF WaiterStep, Wait, WaitReturns, NotDone
    <2> QED BY <1>3, <2>1 DEF WaiterStep, Wait, WaitReturns, CountersAgree
<1>4. CASE (\E c \in Conns : Dial(c)) \/ AdjusterStep \/ LimiterCleanup
           \/ LimiterTick \/ Signal \/ MainStep \/ ShutdownTimeout
           \/ UNCHANGED vars
    <2>1. UNCHANGED <<run, handler>> /\ (waiter' = waiter \/ waiter' = "call")
        BY <1>4 DEF Dial, AdjusterStep, LimiterCleanup, LimiterTick, Signal,
                    MainStep, RunReturned, CloseListener, ShutdownComplete,
                    Exit, ShutdownTimeout, vars
    <2>2. NotDone' = NotDone
        BY <2>1 DEF NotDone
    <2> QED BY <2>1, <2>2
<1> QED BY <1>1, <1>2, <1>3, <1>4 DEF Next

-----------------------------------------------------------------------------
(* The inductive invariant and what follows from it *)

LEMMA IndInvInit == Init => IndInv
<1> SUFFICES ASSUME Init PROVE IndInv
    OBVIOUS
<1>1. TypeOK
    <2>1. LimiterType
        BY DEF Init, LimiterType, LimiterInit, EmptyMap, MapsOf
    <2>2. difficulty \in InitialDifficulty .. InitialDifficulty + 2
        BY ServerAssumption DEF Init
    <2>3. handler \in [Conns -> HandlerStates]
        BY DEF Init, HandlerStates
    <2> QED BY <2>1, <2>2, <2>3 DEF Init, TypeOK, RunStates
<1>2. NotDone = {} /\ Counted = {}
    BY DEF Init, NotDone, Counted, Working
<1>3. CountersAgree
    BY <1>2, FS_EmptySet DEF Init, CountersAgree
<1>4. Ownership /\ NoSocketLeak /\ Reservation /\ Dismantling /\ Drained
    BY ServerAssumption
       DEF Init, Ownership, NoSocketLeak, Reservation, Dismantling, Drained,
           Deciding
<1> QED BY <1>1, <1>3, <1>4 DEF IndInv

LEMMA IndInvStep == IndInv /\ [Next]_vars => IndInv'
BY TypeStep, ConnectionStep, CountersStep, ReservationStep, DismantlingStep,
   DrainedStep DEF IndInv

LEMMA Invariance == Spec => []IndInv
BY IndInvInit, IndInvStep, PTL DEF Spec

\* Type correctness: among the rest, no counter ever falls below zero and the
\* difficulty stays within two of the initial one.
THEOREM TypeCorrect == Spec => []TypeOK
<1>1. IndInv => TypeOK
    BY DEF IndInv
<1> QED BY <1>1, Invariance, PTL

\* The WaitGroup and the atomic counter always agree with the handlers.
THEOREM CountersCorrect == Spec => []CountersAgree
<1>1. IndInv => CountersAgree
    BY DEF IndInv
<1> QED BY <1>1, Invariance, PTL

\* No interleaving of Run's check and its Add(1) with the handlers' Add(-1)
\* serves more than cfg.MaxConnections connections at once.
THEOREM CapCorrect == Spec => []ConnectionCap
<1>1. IndInv => ConnectionCap
    BY DEF IndInv, CountersAgree, Reservation, ConnectionCap
<1> QED BY <1>1, Invariance, PTL

\* The server closes every connection it does not serve, exactly when it
\* stops deciding on it or serving it.
THEOREM SocketsCorrect == Spec => []NoSocketLeak
<1>1. IndInv => NoSocketLeak
    BY DEF IndInv
<1> QED BY <1>1, Invariance, PTL

\* After the WaitGroup has reached zero in a shutdown at most one connection
\* is still to be served.
THEOREM StragglerCorrect == Spec => []AtMostOneStraggler
<1>1. IndInv => AtMostOneStraggler
    BY DEF IndInv, Drained, AtMostOneStraggler
<1> QED BY <1>1, Invariance, PTL
-----------------------------------------------------------------------------
(* The server implements ConnectionService *)

\* A step of the server that changes none of the three abstract variables.
LEMMA ServiceStutter ==
    ASSUME UNCHANGED <<main, listener, run, inHand>>, Counted' = Counted
    PROVE  UNCHANGED Service!vars
BY DEF Service!vars, Up

\* ConnectionService's Cardinality is the one of FiniteSets.
LEMMA SameCardinality == \A S : Service!Cardinality(S) = Cardinality(S)
BY DEF Service!Cardinality, Cardinality

\* Run's steps take a connection, refuse it, serve it, or change nothing.
LEMMA RunImplements ==
    ASSUME IndInv, Up, RunStep \/ AcceptError
    PROVE  Service!Next \/ UNCHANGED Service!vars
<1> USE ServerAssumption DEF Up, Deciding, runVars, stopVars
<1>0. UNCHANGED <<main, listener>> \/ Listen
    BY DEF RunStep, ListenFails, PollContext, Accept, AcceptClosed, AcceptError,
           CheckProtection, CheckConnectionLimit, CheckRateLimit,
           CheckMaxConnections, AddActive, AddCurrent, Drop, GoOn
<1>1. CASE Accept
    <2>1. PICK c \in Conns : /\ c \in backlog /\ inHand' = c
                             /\ run = "accept" /\ run' = "check"
                             /\ listener = "open"
        BY <1>1 DEF Accept, IndInv, TypeOK
    <2>2. c \notin Counted /\ Counted' = Counted
        BY <1>1, <2>1
           DEF Accept, IndInv, Ownership, NoSocketLeak, Counted, Working
    <2>3. Service!Take(c)
        BY <1>0, <1>1, <2>1, <2>2 DEF Service!Take, Listen
    <2> QED BY <2>3 DEF Service!Next
<1>2. CASE Drop /\ run \in Deciding
    <2>1. Counted' = Counted
        BY <1>2 DEF Drop, Counted
    <2>2. Service!TurnDown
        BY <1>2, <2>1 DEF Service!TurnDown, Drop
    <2> QED BY <2>2 DEF Service!Next
<1>3. CASE AddCurrent
    <2>1. inHand \in Conns /\ Counted' = Counted \cup {inHand}
        BY <1>3 DEF AddCurrent, IndInv, TypeOK, Ownership, Counted, Working
    <2>2. Cardinality(Counted) < MaxConnections
        BY <1>3 DEF AddCurrent, IndInv, Reservation, CountersAgree
    <2>3. Service!Admit
        BY <1>3, <2>1, <2>2, SameCardinality DEF Service!Admit, AddCurrent
    <2> QED BY <2>3 DEF Service!Next
<1>4. CASE Listen
    <2>1. Counted' = Counted
        BY <1>4 DEF Listen, Counted
    <2>2. UNCHANGED Service!vars
        BY <1>4, <2>1 DEF Listen, Service!vars, IndInv, Dismantling
    <2> QED BY <2>2
<1>5. CASE /\ ~Accept /\ ~AddCurrent /\ ~Listen
           /\ ~(Drop /\ run \in Deciding)
    <2>1. /\ inHand' = inHand /\ handler' = handler
          /\ run \in Deciding <=> run' \in Deciding
        BY <1>5
           DEF RunStep, ListenFails, PollContext, AcceptClosed, AcceptError,
               CheckProtection, CheckConnectionLimit, CheckRateLimit,
               CheckMaxConnections, AddActive, GoOn
    <2>2. Counted' = Counted
        BY <2>1 DEF Counted
    <2>3. UNCHANGED <<main, listener>>
        BY <1>0, <1>5
    <2> QED BY <2>1, <2>2, <2>3 DEF Service!vars
<1> QED BY <1>1, <1>2, <1>3, <1>4, <1>5

\* A handler's Add(-1) finishes its connection; its other steps show nothing.
LEMMA HandlerImplements ==
    ASSUME IndInv, Up, NEW c \in Conns, HandlerStep(c)
    PROVE  Service!Next \/ UNCHANGED Service!vars
<1> USE DEF HandlerGoes, runVars
<1>1. UNCHANGED <<main, listener, run, inHand>>
    BY DEF HandlerStep, SendChallenge, Answer, RegisterFailure, Done, Decrement,
           ReleaseSlot, Close
<1>2. CASE Decrement(c)
    <2>1. c \in Counted /\ Counted' = Counted \ {c}
        BY <1>2 DEF Decrement, IndInv, TypeOK, Counted, Working
    <2>2. Service!Finish(c)
        BY <1>1, <2>1 DEF Service!Finish, Up
    <2> QED BY <2>2 DEF Service!Next
<1>3. CASE ~Decrement(c)
    <2>1. Counted' = Counted
        BY <1>3 DEF HandlerStep, SendChallenge, Answer, RegisterFailure, Done,
                    ReleaseSlot, Close, Counted, Working, IndInv, TypeOK
    <2> QED BY <1>1, <2>1, ServiceStutter
<1> QED BY <1>2, <1>3

\* Closing the listener begins to drain; main's exits and the panic of the
\* waiter end the service.
LEMMA ShutdownImplements ==
    ASSUME IndInv, Up, Signal \/ MainStep \/ ShutdownTimeout \/ WaiterStep
    PROVE  Service!Next \/ UNCHANGED Service!vars
<1> USE DEF othersOfMain, runVars, Up
<1>1. UNCHANGED <<run, inHand>> /\ Counted' = Counted
    BY DEF Signal, MainStep, RunReturned, CloseListener, ShutdownComplete, Exit,
           ShutdownTimeout, WaiterStep, Wait, WaitReturns, Counted
<1>2. CASE ~Up'
    <2>1. Service!Halt
        BY <1>1, <1>2 DEF Service!Halt
    <2> QED BY <2>1 DEF Service!Next
<1>3. CASE Up' /\ listener # "closed" /\ listener' = "closed"
    <2>1. Service!Drain
        BY <1>1, <1>3 DEF Service!Drain
    <2> QED BY <2>1 DEF Service!Next
<1>4. CASE Up' /\ (listener' = listener \/ listener = "closed")
    <2>1. listener' = listener
        BY <1>4 DEF Signal, MainStep, RunReturned, CloseListener,
                    ShutdownComplete, Exit, ShutdownTimeout, WaiterStep, Wait,
                    WaitReturns
    <2> QED BY <1>1, <1>4, <2>1 DEF Service!vars
<1>5. listener' \in {listener, "closed"}
    BY DEF Signal, MainStep, RunReturned, CloseListener, ShutdownComplete, Exit,
           ShutdownTimeout, WaiterStep, Wait, WaitReturns
<1> QED BY <1>2, <1>3, <1>4, <1>5

\* The server keeps the promises of ConnectionService.
THEOREM ServiceCorrect == Spec => ImplementsService
<1>1. Init => Service!Init
    BY DEF Init, Service!Init, Up, Deciding, Counted, Working
<1>2. IndInv /\ [Next]_vars => [Service!Next]_(Service!vars)
    <2> SUFFICES ASSUME IndInv, [Next]_vars
                 PROVE  Service!Next \/ UNCHANGED Service!vars
        OBVIOUS
    <2>1. ASSUME Up,
                 (\E c \in Conns : Dial(c)) \/ AdjusterStep
                     \/ LimiterCleanup \/ LimiterTick
          PROVE  UNCHANGED Service!vars
        <3>1. UNCHANGED <<main, listener, run, inHand>> /\ Counted' = Counted
            BY <2>1 DEF Dial, AdjusterStep, LimiterCleanup, LimiterTick, Counted,
                        runVars, stopVars, othersOfLimiter
        <3> QED BY <3>1, ServiceStutter
    <2>2. CASE UNCHANGED vars
        <3>1. UNCHANGED <<main, listener, run, inHand>> /\ Counted' = Counted
            BY <2>2 DEF vars, Counted, runVars, stopVars
        <3> QED BY <3>1, ServiceStutter
    <2> QED BY <2>1, <2>2, RunImplements, HandlerImplements, ShutdownImplements
            DEF Next
<1> QED BY <1>1, <1>2, Invariance, PTL DEF Spec, ImplementsService, Service!Spec
-----------------------------------------------------------------------------
(* The slots of the connection limiter *)

Holding == Working \cup {"decrement", "remove"}

\* The holders of an address are among the connections.
LEMMA HoldersFinite ==
    ASSUME NEW ip
    PROVE  /\ IsFiniteSet(Holders(ip))
           /\ Cardinality(Holders(ip)) \in Nat
           /\ Cardinality(Conns) \in Nat
<1>1. Holders(ip) \in SUBSET Conns
    BY DEF Holders
<1> QED BY <1>1, ServerAssumption, FS_Subset, FS_CardinalityType

\* A step that moves neither a handler nor Run across a point where a slot is
\* taken or given back.
LEMMA SameHolders ==
    ASSUME UNCHANGED <<handler, inHand>>, run' \in Admitted <=> run \in Admitted,
           NEW ip
    PROVE  Holders(ip)' = Holders(ip)
BY DEF Holders

\* The limiter lets the connection in hand in: it holds a slot of its address
\* from then on, and did not before.
LEMMA AdmittedHolder ==
    ASSUME IndInv, run = "conLimit", run' = "rateLimit",
           UNCHANGED <<handler, inHand>>, NEW ip
    PROVE  /\ inHand \in Conns
           /\ Holders(ip)' = IF ip = IPOf[inHand] THEN Holders(ip) \cup {inHand}
                             ELSE Holders(ip)
           /\ inHand \notin Holders(ip)
           /\ inHand \in Holders(IPOf[inHand])'
<1>1. inHand \in Conns /\ handler[inHand] = "none"
    BY DEF IndInv, TypeOK, Ownership, Deciding
<1> QED BY <1>1 DEF Holders, Admitted, Working

\* The slot passes from Run to the handler it starts.
LEMMA HandedOver ==
    ASSUME IndInv, AddCurrent, NEW ip
    PROVE  Holders(ip)' = Holders(ip)
<1>1. inHand \in Conns /\ inHand' = NoConn /\ NoConn \notin Conns
    BY ServerAssumption DEF AddCurrent, IndInv, TypeOK, Ownership, Deciding
<1>2. handler \in [Conns -> HandlerStates]
    BY DEF IndInv, TypeOK
<1>3. handler' = [handler EXCEPT ![inHand] = "start"] /\ run \in Admitted
    BY DEF AddCurrent, Admitted
<1> QED BY <1>1, <1>2, <1>3 DEF Holders, Working

\* A handler that moves on without giving its slot back.
LEMMA HandlerKeepsSlot ==
    ASSUME IndInv, NEW c \in Conns, NEW next, UNCHANGED <<run, inHand>>,
           handler' = [handler EXCEPT ![c] = next],
           handler[c] \in Holding <=> next \in Holding,
           NEW ip
    PROVE  Holders(ip)' = Holders(ip)
<1>1. handler \in [Conns -> HandlerStates]
    BY DEF IndInv, TypeOK
<1> QED BY <1>1 DEF Holders, Holding

\* A handler that gives its slot back held one of its address, and no other.
LEMMA ReleasedHolder ==
    ASSUME IndInv, NEW c \in Conns, ReleaseSlot(c), NEW ip
    PROVE  /\ Holders(ip)' = Holders(ip) \ {c}
           /\ c \in Holders(ip) <=> ip = IPOf[c]
<1>1. handler \in [Conns -> HandlerStates]
    BY DEF IndInv, TypeOK
<1>2. c # inHand \/ run \notin Deciding
    BY DEF IndInv, Ownership, ReleaseSlot
<1>3. /\ handler[c] = "remove" /\ handler' = [handler EXCEPT ![c] = "close"]
      /\ UNCHANGED <<run, inHand>>
    BY DEF ReleaseSlot, HandlerGoes, runVars
<1> QED BY <1>1, <1>2, <1>3 DEF Holders, Working, Admitted, Deciding

\* What a step of the server does to the slots: it takes one for a connection
\* that is let in, gives one back for one that ends, drops one, or moves none.
SlotTaken ==
    \E ip \in IPs, c \in Conns :
        /\ Admit(ip)
        /\ c \notin Holders(ip)
        /\ \A other : Holders(other)' = IF other = ip THEN Holders(ip) \cup {c}
                                        ELSE Holders(other)
SlotReturned ==
    \E ip \in IPs, c \in Conns :
        /\ RemoveConnection(ip)
        /\ c \in Holders(ip)
        /\ \A other : Holders(other)' = IF other = ip THEN Holders(ip) \ {c}
                                        ELSE Holders(other)
SlotsKept ==
    /\ Cleanup \/ Age \/ UNCHANGED connections
    /\ \A ip : Holders(ip)' = Holders(ip)

\* The steps of Run.
LEMMA RunSlots ==
    ASSUME IndInv, RunStep \/ AcceptError
    PROVE  SlotTaken \/ LateDrop \/ SlotsKept
<1> USE DEF runVars
<1>1. CASE CheckConnectionLimit /\ Admit(IPOf[inHand])
    <2>1. run = "conLimit" /\ run' = "rateLimit" /\ UNCHANGED <<handler, inHand>>
        BY <1>1 DEF CheckConnectionLimit, GoOn, Refuse, Admit
    <2>2. inHand \in Conns /\ IPOf[inHand] \in IPs
        BY <2>1, AdmittedHolder, ServerAssumption
    <2> QED BY <1>1, <2>1, <2>2, AdmittedHolder DEF SlotTaken
<1>2. CASE CheckConnectionLimit /\ ~Admit(IPOf[inHand])
    <2>1. UNCHANGED <<connections, handler>> /\ run = "conLimit" /\ run' = "loop"
        BY <1>2 DEF CheckConnectionLimit, Drop, Refuse
    <2> QED BY <2>1 DEF SlotsKept, Holders, Admitted
<1>3. CASE CheckProtection
    BY <1>3 DEF CheckProtection, Drop, GoOn, SlotsKept, Holders, Admitted
<1>4. CASE CheckRateLimit \/ CheckMaxConnections
    <2>1. run' = "loop" => LateDrop
        BY <1>4 DEF CheckRateLimit, CheckMaxConnections, LateDrop
    <2>2. run' # "loop" => /\ UNCHANGED <<handler, inHand, connections>>
                           /\ run' \in Admitted <=> run \in Admitted
        BY <1>4 DEF CheckRateLimit, CheckMaxConnections, Drop, GoOn, Admitted
    <2> QED BY <2>1, <2>2, SameHolders DEF SlotsKept
<1>5. CASE AddCurrent
    BY <1>5, HandedOver DEF SlotsKept, AddCurrent
<1>6. CASE Accept
    BY <1>6 DEF Accept, SlotsKept, Holders, Admitted
<1>7. CASE Listen \/ ListenFails \/ PollContext \/ AcceptClosed \/ AcceptError
           \/ AddActive
    <2>1. /\ UNCHANGED <<handler, inHand, connections>>
          /\ run' \in Admitted <=> run \in Admitted
        BY <1>7 DEF Listen, ListenFails, PollContext, AcceptClosed, AcceptError,
                    AddActive, Admitted
    <2> QED BY <2>1, SameHolders DEF SlotsKept
<1> QED BY <1>1, <1>2, <1>3, <1>4, <1>5, <1>6, <1>7 DEF RunStep

\* The steps of a handler.
LEMMA HandlerSlots ==
    ASSUME IndInv, NEW c \in Conns, HandlerStep(c)
    PROVE  SlotReturned \/ SlotsKept
<1>1. CASE ReleaseSlot(c)
    <2>1. IPOf[c] \in IPs /\ RemoveConnection(IPOf[c])
        BY <1>1, ServerAssumption DEF ReleaseSlot
    <2>2. c \in Holders(IPOf[c])
        BY <1>1, ReleasedHolder
    <2>3. \A ip : Holders(ip)' = IF ip = IPOf[c] THEN Holders(IPOf[c]) \ {c}
                                 ELSE Holders(ip)
        BY <1>1, ReleasedHolder
    <2> QED BY <2>1, <2>2, <2>3 DEF SlotReturned
<1>2. CASE ~ReleaseSlot(c)
    <2>1. PICK next :
              /\ handler' = [handler EXCEPT ![c] = next]
              /\ handler[c] \in Holding <=> next \in Holding
              /\ UNCHANGED <<run, inHand, connections>>
        BY <1>2 DEF HandlerStep, SendChallenge, Answer, RegisterFailure, Done,
                    Decrement, Close, HandlerGoes, runVars, Holding, Working
    <2> QED BY <2>1, HandlerKeepsSlot DEF SlotsKept
<1> QED BY <1>1, <1>2

\* Every step does one of the four.
LEMMA SlotShape ==
    ASSUME IndInv, [Next]_vars
    PROVE  SlotTaken \/ SlotReturned \/ LateDrop \/ SlotsKept
<1>1. CASE RunStep \/ AcceptError
    BY <1>1, RunSlots
<1>2. ASSUME NEW c \in Conns, HandlerStep(c) PROVE SlotReturned \/ SlotsKept
    BY <1>2, HandlerSlots
<1>3. CASE (\E c \in Conns : Dial(c)) \/ AdjusterStep \/ Signal \/ MainStep
           \/ ShutdownTimeout \/ WaiterStep \/ LimiterCleanup \/ LimiterTick
           \/ UNCHANGED vars
    <2>1. /\ UNCHANGED <<handler, run, inHand>>
          /\ Cleanup \/ Age \/ UNCHANGED connections
        BY <1>3 DEF Dial, AdjusterStep, Signal, MainStep, RunReturned,
                    CloseListener, ShutdownComplete, Exit, ShutdownTimeout,
                    WaiterStep, Wait, WaitReturns, LimiterCleanup, LimiterTick,
                    vars, runVars, othersOfMain, othersOfLimiter
    <2> QED BY <2>1, SameHolders DEF SlotsKept
<1> QED BY <1>1, <1>2, <1>3 DEF Next

\* What SlotDiscipline's copy of the limiter does is what the limiter does.
LEMMA SameLimiter ==
    ASSUME NEW ip
    PROVE  /\ Admit(ip) => Slots!Admit(ip)
           /\ RemoveConnection(ip) => Slots!RemoveConnection(ip)
           /\ Cleanup => Slots!Cleanup
           /\ Age => Slots!Age
           /\ Slots!Full(ip) <=> Full(ip)
<1> USE DEF Current, Stored, FreshStats, Expired, Put, Delete, Retain, Older,
            Slots!Current, Slots!Stored, Slots!FreshStats, Slots!Expired,
            Slots!Put, Slots!Delete, Slots!Retain, Slots!Older
<1>1. Admit(ip) => Slots!Admit(ip)
    BY DEF Admit, Full, Slots!Admit, Slots!Full
<1>2. RemoveConnection(ip) => Slots!RemoveConnection(ip)
    BY DEF RemoveConnection, Slots!RemoveConnection
<1>3. Cleanup => Slots!Cleanup
    BY DEF Cleanup, Slots!Cleanup
<1>4. Age => Slots!Age
    BY DEF Age, Slots!Age
<1>5. Slots!Full(ip) <=> Full(ip)
    BY DEF Full, Slots!Full
<1> QED BY <1>1, <1>2, <1>3, <1>4, <1>5

Live == [ip \in IPs |-> Cardinality(Holders(ip))]

\* A slot is taken while not all connections hold one, and counted once.
LEMMA TakenIsOpen == SlotTaken => Slots!Next
<1> SUFFICES ASSUME NEW ip \in IPs, NEW c \in Conns, Admit(ip),
                    c \notin Holders(ip),
                    \A other : Holders(other)' = IF other = ip
                                                 THEN Holders(ip) \cup {c}
                                                 ELSE Holders(other)
             PROVE  Slots!Open(ip)
    BY DEF SlotTaken, Slots!Next
<1>1. Cardinality(Holders(ip)) < Cardinality(Conns)
    <2>1. Holders(ip) \subseteq Conns /\ Holders(ip) # Conns
        BY DEF Holders
    <2> QED BY <2>1, ServerAssumption, FS_Subset, HoldersFinite
<1>2. Cardinality(Holders(ip)') = Cardinality(Holders(ip)) + 1
    BY HoldersFinite, FS_AddElement
<1>3. Live' = [Live EXCEPT ![ip] = @ + 1]
    BY <1>2 DEF Live
<1> QED BY <1>1, <1>3, SameLimiter DEF Slots!Open, Live

\* A slot is given back by one of those that are counted.
LEMMA ReturnedIsClose == SlotReturned => Slots!Next
<1> SUFFICES ASSUME NEW ip \in IPs, NEW c \in Conns, RemoveConnection(ip),
                    c \in Holders(ip),
                    \A other : Holders(other)' = IF other = ip
                                                 THEN Holders(ip) \ {c}
                                                 ELSE Holders(other)
             PROVE  Slots!Close(ip)
    BY DEF SlotReturned, Slots!Next
<1>1. Cardinality(Holders(ip)) > 0
    BY HoldersFinite, FS_EmptySet
<1>2. Cardinality(Holders(ip)') = Cardinality(Holders(ip)) - 1
    BY HoldersFinite, FS_RemoveElement
<1>3. Live' = [Live EXCEPT ![ip] = @ - 1]
    BY <1>2 DEF Live
<1> QED BY <1>1, <1>3, SameLimiter DEF Slots!Close, Live

\* A step that moves no slot is one of the limiter's own, or none.
LEMMA KeptIsOwn == SlotsKept => Slots!Next \/ UNCHANGED Slots!vars
<1> SUFFICES ASSUME SlotsKept PROVE Slots!Next \/ UNCHANGED Slots!vars
    OBVIOUS
<1>1. UNCHANGED Live
    BY DEF SlotsKept, Live
<1>2. CASE Cleanup
    BY <1>1, <1>2, SameLimiter DEF Slots!Next, Slots!PeriodicCleanup, Live
<1>3. CASE Age
    BY <1>1, <1>3, SameLimiter DEF Slots!Next, Slots!Tick, Live
<1>4. CASE UNCHANGED connections
    BY <1>1, <1>4 DEF Slots!vars, Live
<1> QED BY <1>2, <1>3, <1>4 DEF SlotsKept

LEMMA SlotStep == IndInv /\ [Next]_vars => LateDrop \/ [Slots!Next]_(Slots!vars)
BY SlotShape, TakenIsOpen, ReturnedIsClose, KeptIsOwn

\* Run, the handlers and the limiter's goroutine use the limiter as
\* SlotDiscipline has its callers use it, in every step but a late drop.
THEOREM SlotsCorrect == Spec => OnlyLateDropsLeak
<1>1. IndInv /\ [Next]_vars => [LateDrop \/ [Slots!Next]_(Slots!vars)]_vars
    BY SlotStep
<1> QED BY <1>1, Invariance, PTL DEF Spec, OnlyLateDropsLeak

\* As long as no connection is dropped late the server implements
\* SlotDiscipline, however its goroutines interleave.
THEOREM SlotsImplemented == Spec /\ [][~LateDrop]_vars => Slots!Spec
<1>1. Init => Slots!Init
    <2>1. Init => \A ip \in IPs : Cardinality(Holders(ip)) = 0
        BY FS_EmptySet, ServerAssumption DEF Init, Holders, Working, Admitted
    <2> QED BY <2>1 DEF Init, Slots!Init, LimiterInit, Slots!LimiterInit,
                        EmptyMap, Slots!EmptyMap
<1>2. IndInv /\ [Next]_vars /\ [~LateDrop]_vars => [Slots!Next]_(Slots!vars)
    <2>1. UNCHANGED vars => UNCHANGED Slots!vars
        <3> SUFFICES ASSUME UNCHANGED vars PROVE UNCHANGED Slots!vars
            OBVIOUS
        <3>1. UNCHANGED <<handler, run, inHand, connections>>
            BY DEF vars, runVars
        <3>2. UNCHANGED Live
            BY <3>1 DEF Live, Holders
        <3> QED BY <3>1, <3>2 DEF Slots!vars, Live
    <2> QED BY <2>1, SlotStep
<1> QED BY <1>1, <1>2, Invariance, PTL DEF Spec, Slots!Spec
-----------------------------------------------------------------------------
(* Whom the limiter refuses *)

\* No entry of ip counts more than the connections that hold a slot of ip.
CountsOnlyHolders(ip) ==
    ip \in DOMAIN connections => connections[ip].count <= Cardinality(Holders(ip))

\* The limiter's operations keep the counts at or below the holders.
LEMMA LimiterCounts ==
    ASSUME LimiterType, NEW ip \in IPs, CountsOnlyHolders(ip),
           SlotTaken \/ SlotReturned \/ SlotsKept
    PROVE  CountsOnlyHolders(ip)'
<1> USE LimiterTypeEquiv, HoldersFinite DEF CountsOnlyHolders, ConnStats
<1>1. ASSUME NEW other \in IPs, NEW c \in Conns, Admit(other),
             c \notin Holders(other),
             \A x : Holders(x)' = IF x = other THEN Holders(other) \cup {c}
                                  ELSE Holders(x)
      PROVE  CountsOnlyHolders(ip)'
    <2>1. CASE other = ip
        <3>1. Cardinality(Holders(ip)') = Cardinality(Holders(ip)) + 1
            BY <1>1, <2>1, FS_AddElement
        <3>2. Current(ip).count <= Cardinality(Holders(ip))
            BY CurrentFacts
        <3>3. connections'[ip].count = Current(ip).count + 1
            BY <1>1, <2>1, CurrentFacts DEF Admit, Put
        <3> QED BY <3>1, <3>2, <3>3, CurrentFacts
    <2>2. CASE other # ip
        <3>1. Holders(ip)' = Holders(ip)
            BY <1>1, <2>2
        <3> QED BY <1>1, <2>2, <3>1 DEF Admit, Put
    <2> QED BY <2>1, <2>2
<1>2. ASSUME NEW other \in IPs, NEW c \in Conns, RemoveConnection(other),
             c \in Holders(other),
             \A x : Holders(x)' = IF x = other THEN Holders(other) \ {c}
                                  ELSE Holders(x)
      PROVE  CountsOnlyHolders(ip)'
    <2>1. CASE other = ip
        <3>1. Cardinality(Holders(ip)') = Cardinality(Holders(ip)) - 1
            BY <1>2, <2>1, FS_RemoveElement
        <3> QED BY <1>2, <2>1, <3>1 DEF RemoveConnection, Delete
    <2>2. CASE other # ip
        <3>1. Holders(ip)' = Holders(ip)
            BY <1>2, <2>2
        <3> QED BY <1>2, <2>2, <3>1 DEF RemoveConnection, Delete
    <2> QED BY <2>1, <2>2
<1>3. CASE SlotsKept
    <2>1. Holders(ip)' = Holders(ip)
        BY <1>3 DEF SlotsKept
    <2>2. ip \in DOMAIN connections' =>
              /\ ip \in DOMAIN connections
              /\ connections'[ip].count = connections[ip].count
        BY <1>3 DEF SlotsKept, Cleanup, Retain, Age, Older
    <2> QED BY <2>1, <2>2
<1> QED BY <1>1, <1>2, <1>3 DEF SlotTaken, SlotReturned

\* A late drop takes a holder of its own address away and leaves the table.
LEMMA LateDropCounts ==
    ASSUME IndInv, [Next]_vars, LateDrop, NEW ip \in IPs, IPOf[inHand] # ip,
           CountsOnlyHolders(ip)
    PROVE  CountsOnlyHolders(ip)'
<1>1. inHand' = NoConn /\ handler' = handler
    BY DEF LateDrop, Next, Dial, HandlerStep, SendChallenge, Answer,
           RegisterFailure, Done, Decrement, ReleaseSlot, Close, HandlerGoes,
           RunStep, Listen, ListenFails, PollContext, Accept, AcceptClosed,
           AcceptError, CheckProtection, CheckConnectionLimit, CheckRateLimit,
           CheckMaxConnections, AddActive, AddCurrent, Drop, GoOn, AdjusterStep,
           Signal, MainStep, RunReturned, CloseListener, ShutdownComplete, Exit,
           ShutdownTimeout, WaiterStep, Wait, WaitReturns, LimiterCleanup,
           LimiterTick, vars, runVars, othersOfMain, othersOfLimiter
<1>2. Holders(ip)' = Holders(ip)
    BY <1>1 DEF LateDrop, Holders, Admitted
<1> QED BY <1>2 DEF LateDrop, CountsOnlyHolders

\* Every holder of a slot is an open connection.
LEMMA HoldersOpen ==
    ASSUME IndInv, NEW ip
    PROVE  Cardinality(Holders(ip)) <= Cardinality(OpenOf(ip))
<1>1. Holders(ip) \subseteq OpenOf(ip)
    BY DEF IndInv, NoSocketLeak, Holders, OpenOf, Admitted, Deciding, Working
<1>2. IsFiniteSet(OpenOf(ip))
    <2>1. OpenOf(ip) \in SUBSET Conns
        BY DEF IndInv, TypeOK, OpenOf
    <2> QED BY <2>1, ServerAssumption, FS_Subset
<1> QED BY <1>1, <1>2, FS_Subset

\* No step but a late drop of ip raises its count above its holders.
LEMMA CountsStep ==
    ASSUME IndInv, [Next]_vars, NEW ip \in IPs, CountsOnlyHolders(ip),
           ~LateDropOf(ip)
    PROVE  CountsOnlyHolders(ip)'
<1>1. CASE LateDrop
    BY <1>1, LateDropCounts DEF LateDropOf
<1>2. CASE SlotTaken \/ SlotReturned \/ SlotsKept
    BY <1>2, LimiterCounts DEF IndInv, TypeOK
<1> QED BY <1>1, <1>2, SlotShape

\* An address whose count is that of its holders is full of open connections.
LEMMA FullIsOpen ==
    ASSUME IndInv, NEW ip \in IPs, CountsOnlyHolders(ip), Full(ip)
    PROVE  Cardinality(OpenOf(ip)) >= MaxPerIP
<1>1. LimiterType
    BY DEF IndInv, TypeOK
<1>2. Current(ip).count >= MaxPerIP /\ Current(ip).count > 0
    BY <1>1, CurrentFacts, LimiterAssumption DEF Full
<1>3. connections[ip].count >= MaxPerIP /\ connections[ip].count \in Nat
      /\ ip \in DOMAIN connections
    BY <1>1, <1>2, CurrentFacts
<1>4. Cardinality(OpenOf(ip)) \in Nat
    <2>1. OpenOf(ip) \in SUBSET Conns
        BY DEF IndInv, TypeOK, OpenOf
    <2> QED BY <2>1, ServerAssumption, FS_Subset, FS_CardinalityType
<1> QED BY <1>3, <1>4, HoldersOpen, HoldersFinite, LimiterAssumption
        DEF CountsOnlyHolders

\* The limiter's promise, kept by the whole server for every address none of
\* whose connections has been dropped late: whatever becomes of other
\* addresses' connections, it is refused only while MaxPerIP of its own are
\* open.
THEOREM RefusalsCorrect ==
    ASSUME NEW CONSTANT ip \in IPs
    PROVE  Spec /\ [][~LateDropOf(ip)]_vars
               => [](Full(ip) => Cardinality(OpenOf(ip)) >= MaxPerIP)
<1>1. Init => CountsOnlyHolders(ip)
    BY DEF Init, LimiterInit, EmptyMap, CountsOnlyHolders
<1>2. IndInv /\ CountsOnlyHolders(ip) /\ [Next]_vars /\ [~LateDropOf(ip)]_vars
          => CountsOnlyHolders(ip)'
    <2>1. UNCHANGED vars /\ CountsOnlyHolders(ip) => CountsOnlyHolders(ip)'
        BY DEF vars, runVars, CountsOnlyHolders, Holders
    <2> QED BY <2>1, CountsStep
<1>3. IndInv /\ CountsOnlyHolders(ip)
          => (Full(ip) => Cardinality(OpenOf(ip)) >= MaxPerIP)
    BY FullIsOpen
<1> QED BY <1>1, <1>2, <1>3, Invariance, PTL DEF Spec
-----------------------------------------------------------------------------
(* How long a forgotten slot costs its address *)

\* An entry that is younger than the last leak was made after it: it has
\* counted its holders from the first.
YoungerThanLeak(ip) ==
    /\ ip \in DOMAIN connections
    /\ ~Expired(connections[ip])
    /\ connections[ip].age < sinceLeak[ip]
RenewedCounts(ip) == YoungerThanLeak(ip) => CountsOnlyHolders(ip)

LeakClock == sinceLeak \in [IPs -> Ages]

\* The clock of an address, in a step.
LEMMA ClockStep ==
    ASSUME LeakClock, [LeaksNext]_leakVars, NEW ip \in IPs
    PROVE  /\ LeakClock'
           /\ \/ sinceLeak'[ip] = sinceLeak[ip]
              \/ LateDropOf(ip) /\ sinceLeak'[ip] = 0
              \/ LimiterTick /\ sinceLeak'[ip] = sinceLeak[ip] + 1
<1>1. CASE UNCHANGED leakVars
    BY <1>1 DEF LeakClock, leakVars
<1>2. CASE LeaksNext
    <2>1. LeakClock'
        BY <1>2, LimiterAssumption DEF LeakClock, LeaksNext, Ages
    <2> QED BY <1>2, <2>1 DEF LeaksNext
<1> QED BY <1>1, <1>2

\* Only AllowConnection makes an entry younger, and only one that has expired:
\* it starts anew, with the connection that is let in.
LEMMA OnlyAdmissionRenews ==
    ASSUME IndInv, [Next]_vars, NEW ip \in IPs, ip \in DOMAIN connections,
           Expired(connections[ip]), ip \in DOMAIN connections',
           ~Expired(connections[ip])'
    PROVE  CountsOnlyHolders(ip)'
<1>1. CASE SlotTaken
    <2>1. PICK other \in IPs, c \in Conns :
              /\ Admit(other)
              /\ \A x : Holders(x)' = IF x = other THEN Holders(other) \cup {c}
                                      ELSE Holders(x)
        BY <1>1 DEF SlotTaken
    <2>2. other = ip
        BY <2>1 DEF Admit, Put, Expired
    <2>3. Current(ip) = FreshStats
        BY DEF Current, Stored
    <2>4. connections'[ip].count = 1
        BY <2>1, <2>2, <2>3 DEF Admit, Put, FreshStats
    <2>5. c \in Holders(ip)'
        BY <2>1, <2>2
    <2>6. IsFiniteSet(Holders(ip)')
        BY <2>1, <2>2, HoldersFinite, FS_AddElement
    <2>7. Cardinality(Holders(ip)') \in Nat /\ Cardinality(Holders(ip)') # 0
        BY <2>5, <2>6, FS_CardinalityType, FS_EmptySet
    <2> QED BY <2>4, <2>7 DEF CountsOnlyHolders
<1>2. CASE SlotReturned
    BY <1>2 DEF SlotReturned, RemoveConnection, Delete, Expired
<1>3. CASE SlotsKept \/ LateDrop
    BY <1>3 DEF SlotsKept, LateDrop, Cleanup, Retain, Age, Older, Expired
<1> QED BY <1>1, <1>2, <1>3, SlotShape

\* An entry that has not expired does not become younger, and a tick ages it.
LEMMA EntriesAge ==
    ASSUME IndInv, [Next]_vars, NEW ip \in IPs, ip \in DOMAIN connections,
           ~Expired(connections[ip]), ip \in DOMAIN connections'
    PROVE  /\ connections'[ip].age >= connections[ip].age
           /\ LimiterTick => connections'[ip].age = connections[ip].age + 1
<1>1. /\ connections[ip].age \in Int /\ ~(connections[ip].age > TTL)
      /\ connections[ip] = [count |-> connections[ip].count,
                            age |-> connections[ip].age]
    BY LimiterTypeEquiv, LimiterAssumption
       DEF IndInv, TypeOK, ConnStats, Ages, Expired
<1>2. LimiterTick => connections'[ip].age = connections[ip].age + 1
    BY <1>1 DEF LimiterTick, Age, Older, Expired
<1>3. connections'[ip].age >= connections[ip].age
    <2>1. CASE SlotTaken
        <3>1. Current(ip) = connections[ip]
            BY DEF Current, Stored
        <3>2. PICK other \in IPs : Admit(other)
            BY <2>1 DEF SlotTaken
        <3>3. \/ connections'[ip] = [connections[ip] EXCEPT !.count = @ + 1]
              \/ connections'[ip] = connections[ip]
            BY <3>1, <3>2 DEF Admit, Put
        <3> QED BY <1>1, <3>3
    <2>2. CASE SlotReturned
        <3>1. PICK other \in IPs : RemoveConnection(other)
            BY <2>2 DEF SlotReturned
        <3>2. \/ connections'[ip] = [connections[ip] EXCEPT !.count = @ - 1]
              \/ connections'[ip] = connections[ip]
            BY <3>1, LimiterTypeEquiv
               DEF RemoveConnection, Delete, IndInv, TypeOK
        <3> QED BY <1>1, <3>2
    <2>3. CASE SlotsKept \/ LateDrop
        BY <1>1, <2>3
           DEF SlotsKept, LateDrop, Cleanup, Retain, Age, Older, Expired
    <2> QED BY <2>1, <2>2, <2>3, SlotShape
<1> QED BY <1>2, <1>3

\* The invariant: an entry is at least as old as the last leak, has expired,
\* or counts nothing but its holders.
LEMMA RenewedStep ==
    ASSUME IndInv, LeakClock, [LeaksNext]_leakVars, NEW ip \in IPs,
           RenewedCounts(ip)
    PROVE  RenewedCounts(ip)'
<1> SUFFICES ASSUME YoungerThanLeak(ip)'
             PROVE  CountsOnlyHolders(ip)'
    BY DEF RenewedCounts
<1>1. [Next]_vars
    BY DEF LeaksNext, leakVars
<1>2. LimiterType /\ LimiterType'
    BY <1>1, TypeStep DEF IndInv, TypeOK
<1>3. /\ ip \in DOMAIN connections' /\ connections'[ip].age \in Ages
      /\ sinceLeak'[ip] \in Ages /\ sinceLeak[ip] \in Ages
    <2>1. ip \in DOMAIN connections'
        BY DEF YoungerThanLeak
    <2>2. LeakClock'
        BY ClockStep
    <2> QED BY <1>2, <2>1, <2>2, LimiterTypeEquivNext DEF LeakClock, ConnStats
<1>4. ip \in DOMAIN connections => connections[ip].age \in Ages
    BY <1>2, LimiterTypeEquiv DEF ConnStats
<1>5. ~LateDropOf(ip)
    <2>1. LateDropOf(ip) => sinceLeak'[ip] = 0
        BY DEF LateDropOf, LateDrop, LeaksNext, leakVars, vars, runVars
    <2> QED BY <1>3, <2>1, LimiterAssumption DEF YoungerThanLeak, Ages
<1>6. CASE CountsOnlyHolders(ip)
    BY <1>1, <1>5, <1>6, CountsStep
<1>7. CASE ip \in DOMAIN connections /\ Expired(connections[ip])
    BY <1>1, <1>7, OnlyAdmissionRenews DEF YoungerThanLeak
<1>8. CASE /\ ip \in DOMAIN connections /\ ~Expired(connections[ip])
           /\ connections[ip].age >= sinceLeak[ip]
    <2>1. connections'[ip].age >= sinceLeak'[ip]
        BY <1>1, <1>3, <1>4, <1>5, <1>8, ClockStep, EntriesAge DEF Ages
    <2> QED BY <2>1, <1>3 DEF YoungerThanLeak, Ages
<1> QED BY <1>3, <1>4, <1>6, <1>7, <1>8
        DEF RenewedCounts, YoungerThanLeak, CountsOnlyHolders, Ages

\* Whatever the interleaving, a slot that Run forgot is forgiven a TTL later.
THEOREM LeaksHealed == LeaksSpec => []LeaksHeal
<1> DEFINE Inv == LeakClock /\ \A ip \in IPs : RenewedCounts(ip)
<1>1. LeaksInit => Inv
    BY LimiterAssumption
       DEF LeaksInit, Init, LimiterInit, EmptyMap, LeakClock, RenewedCounts,
           YoungerThanLeak, Ages
<1>2. IndInv /\ Inv /\ [LeaksNext]_leakVars => Inv'
    BY RenewedStep, ClockStep, ServerAssumption DEF LeakClock, LeaksNext, leakVars
<1>3. IndInv /\ Inv => LeaksHeal
    <2> SUFFICES ASSUME IndInv, Inv, NEW ip \in IPs, Full(ip),
                        sinceLeak[ip] > TTL
                 PROVE  Cardinality(OpenOf(ip)) >= MaxPerIP
        BY DEF LeaksHeal
    <2>1. LimiterType
        BY DEF IndInv, TypeOK
    <2>2. ip \in DOMAIN connections /\ Current(ip) = connections[ip]
        BY <2>1, CurrentFacts, LimiterAssumption DEF Full
    <2>3. Current(ip).count # 0
        BY <2>1, CurrentFacts, LimiterAssumption DEF Full
    <2>4. ~Expired(connections[ip])
        BY <2>2, <2>3 DEF Current, Stored, FreshStats
    <2>5. connections[ip].age \in Int
        BY <2>1, <2>2, LimiterTypeEquiv DEF ConnStats, Ages
    <2>6. sinceLeak[ip] \in Int
        BY DEF LeakClock, Ages
    <2>7. YoungerThanLeak(ip)
        BY <2>2, <2>4, <2>5, <2>6, LimiterAssumption DEF YoungerThanLeak, Expired
    <2> QED BY <2>7, FullIsOpen DEF RenewedCounts
<1>4. LeaksSpec => Spec
    <2>1. LeaksInit => Init
        BY DEF LeaksInit
    <2>2. [LeaksNext]_leakVars => [Next]_vars
        BY DEF LeaksNext, leakVars
    <2> QED BY <2>1, <2>2, PTL DEF LeaksSpec, Spec
<1> QED BY <1>1, <1>2, <1>3, <1>4, Invariance, PTL DEF LeaksSpec
-----------------------------------------------------------------------------
(* When a shutdown crashes *)

\* A crash finds the WaitGroup raised by one connection, after a shutdown has
\* begun to wait.
Crashed ==
    main = "panicked" => /\ waiter = "finished"
                         /\ activeConns # 0

\* Once the waiter has returned nothing of Shutdown or of main touches it,
\* and a process that has crashed takes no more steps.
LEMMA CrashedStep == IndInv /\ Crashed /\ [Next]_vars => Crashed'
<1> SUFFICES ASSUME IndInv, Crashed, [Next]_vars, main' = "panicked"
             PROVE  waiter' = "finished" /\ activeConns' # 0
    BY DEF Crashed
<1>1. CASE UNCHANGED vars
    BY <1>1 DEF vars, stopVars, counterVars, Crashed
<1>2. CASE Next /\ WaitReturns
    BY <1>2 DEF WaitReturns, othersOfMain, counterVars, Next, Up
<1>3. CASE Next /\ ~WaitReturns
    <2>1. main' # "panicked"
        BY <1>3 DEF Next, Up, Dial, HandlerStep, SendChallenge, Answer,
            RegisterFailure, Done, Decrement, ReleaseSlot, Close, HandlerGoes,
            RunStep, Listen, ListenFails, PollContext, Accept, AcceptClosed,
            AcceptError, CheckProtection, CheckConnectionLimit, CheckRateLimit,
            CheckMaxConnections, AddActive, AddCurrent, Drop, GoOn,
            AdjusterStep, Signal, MainStep, RunReturned, CloseListener,
            ShutdownComplete, Exit, ShutdownTimeout, WaiterStep, Wait,
            LimiterCleanup, LimiterTick, othersOfLimiter, stopVars
    <2> QED BY <2>1
<1> QED BY <1>1, <1>2, <1>3

\* A crash in a shutdown is the straggler's doing: there is exactly one
\* connection in progress, and the WaitGroup counts just that one.
THEOREM CrashExplained ==
    Spec => [](main = "panicked" => activeConns = 1 /\ InProgress = 1 /\ ctxDone)
<1>1. Init => Crashed
    BY DEF Init, Crashed
<1>2. IndInv /\ Crashed
          => (main = "panicked" => activeConns = 1 /\ InProgress = 1 /\ ctxDone)
    BY HandlersFinite
       DEF IndInv, TypeOK, Crashed, Drained, InProgress, CountersAgree,
           Dismantling, Deciding
<1> QED BY <1>1, <1>2, CrashedStep, Invariance, PTL DEF Spec

\* From the moment Shutdown closes the listener Run has nothing in hand, and
\* a waiter that has been released finds the WaitGroup at zero.
QuietDrain ==
    /\ waiter # "none" => run \notin Deciding
    /\ waiter \in {"woken", "finished"} => activeConns = 0
    /\ main # "panicked"

\* Without a connection in hand nothing raises the WaitGroup any more.
LEMMA QuietDrainStep ==
    ASSUME IndInv, QuietDrain, [Next]_vars, CloseListener => run \notin Deciding
    PROVE  QuietDrain'
<1> USE DEF QuietDrain, runVars, counterVars, stopVars
<1>1. CASE RunStep \/ AcceptError
    <2>1. UNCHANGED <<waiter, main>>
        BY <1>1 DEF RunStep, Listen, ListenFails, PollContext, Accept,
                    AcceptClosed, AcceptError, CheckProtection,
                    CheckConnectionLimit, CheckRateLimit, CheckMaxConnections,
                    AddActive, AddCurrent, Drop, GoOn
    <2>2. CASE waiter # "none"
        <3>1. run' \notin Deciding /\ UNCHANGED activeConns
            BY <1>1, <2>2
               DEF RunStep, Listen, ListenFails, PollContext, Accept,
                   AcceptClosed, AcceptError, CheckProtection,
                   CheckConnectionLimit, CheckRateLimit, CheckMaxConnections,
                   AddActive, AddCurrent, Drop, GoOn, IndInv, Dismantling,
                   Deciding
        <3> QED BY <2>1, <3>1
    <2> QED BY <2>1, <2>2
<1>2. ASSUME NEW c \in Conns, HandlerStep(c) PROVE QuietDrain'
    <2>1. CASE Done(c)
        BY <2>1, PositiveCounters DEF Done, HandlerGoes, IndInv, TypeOK
    <2>2. CASE ~Done(c)
        <3>1. UNCHANGED <<waiter, main, run, activeConns>>
            BY <1>2, <2>2 DEF HandlerStep, SendChallenge, Answer, Decrement,
                              RegisterFailure, ReleaseSlot, Close, HandlerGoes
        <3> QED BY <3>1
    <2> QED BY <2>1, <2>2
<1>3. CASE Signal \/ MainStep \/ ShutdownTimeout
    BY <1>3 DEF Signal, MainStep, RunReturned, CloseListener, ShutdownComplete,
                Exit, ShutdownTimeout, othersOfMain
<1>4. CASE WaiterStep
    BY <1>4 DEF WaiterStep, Wait, WaitReturns, othersOfMain
<1>5. CASE (\E c \in Conns : Dial(c)) \/ AdjusterStep \/ LimiterCleanup
           \/ LimiterTick \/ UNCHANGED vars
    <2>1. UNCHANGED <<waiter, main, run, activeConns>>
        BY <1>5 DEF Dial, AdjusterStep, LimiterCleanup, LimiterTick, vars,
                    othersOfLimiter
    <2> QED BY <2>1
<1> QED BY <1>1, <1>2, <1>3, <1>4, <1>5 DEF Next

\* The crash that the run shutdown_panic shows has one cause only: if Run is
\* deciding on no connection when Shutdown closes the listener, the server
\* does not crash, and no connection is in progress when Shutdown has seen
\* the WaitGroup at zero.
THEOREM QuietShutdown ==
    Spec /\ [][CloseListener => run \notin Deciding]_vars
        => [](NeverPanics /\ (waiter = "finished" => InProgress = 0))
<1>1. Init => QuietDrain
    BY DEF Init, QuietDrain
<1>2. IndInv /\ QuietDrain /\ [Next]_vars
          /\ [CloseListener => run \notin Deciding]_vars => QuietDrain'
    <2>1. UNCHANGED vars /\ QuietDrain => QuietDrain'
        BY DEF vars, runVars, stopVars, counterVars, QuietDrain
    <2> QED BY <2>1, QuietDrainStep
<1>3. IndInv /\ QuietDrain
          => NeverPanics /\ (waiter = "finished" => InProgress = 0)
    BY HandlersFinite DEF IndInv, QuietDrain, NeverPanics, InProgress,
                          CountersAgree, Deciding
<1> QED BY <1>1, <1>2, <1>3, Invariance, PTL DEF Spec
=============================================================================
