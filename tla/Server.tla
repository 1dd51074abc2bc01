------------------------------- MODULE Server -------------------------------
(***************************************************************************)
(* pkg/server/server.go and the shutdown sequence of cmd/server/main.go:   *)
(* the goroutines of one server process and the state they share.          *)
(*                                                                         *)
(*   run        the goroutine of Run: admission checks and hand-over       *)
(*   handler[c] the goroutine that serves connection c                     *)
(*   adjuster   the goroutine of adjustDifficulty                          *)
(*   main       the main goroutine: signal, Shutdown, exit                 *)
(*   waiter     the goroutine Shutdown starts to wait for the handlers     *)
(*                                                                         *)
(* A program counter names the operation its goroutine performs next, and  *)
(* an action is one operation on shared state.  The verdicts of protection *)
(* and of the rate limiter, and what the client makes of the exchange, are *)
(* arbitrary here: other modules model them.                               *)
(***************************************************************************)
EXTENDS ConnectionLimiter, FiniteSets

CONSTANTS
    Conns,             \* client endpoints, each with one connection at a time
    NoConn,            \* the absence of a connection
    IPOf,              \* the address of each connection
    MaxConnections,    \* cfg.MaxConnections
    InitialDifficulty  \* cfg.InitialDifficulty

ASSUME ServerAssumption ==
    /\ IsFiniteSet(Conns)
    /\ NoConn \notin Conns
    /\ IPOf \in [Conns -> IPs]
    /\ MaxConnections \in Nat
    /\ InitialDifficulty \in Nat

VARIABLES
    run, inHand,       \* Run and the connection it is deciding on
    handler,           \* handler goroutines, by connection
    backlog,           \* dialled, not accepted
    open,              \* accepted, not closed by the server
    activeConns,       \* the WaitGroup's counter
    currentConns,      \* the atomic counter
    difficulty,        \* the atomic difficulty
    adjuster, seen,    \* adjustDifficulty and the load it read
    ctxDone,           \* main has cancelled the server's context
    listener,          \* s.listener
    main, waiter       \* Shutdown and its goroutine

runVars == <<run, inHand>>
connVars == <<backlog, open>>
counterVars == <<activeConns, currentConns>>
loadVars == <<difficulty, adjuster, seen>>
stopVars == <<ctxDone, listener, main, waiter>>

vars == <<runVars, handler, connVars, counterVars, loadVars, stopVars,
          connections>>

Deciding == {"check", "conLimit", "rateLimit", "maxConns", "addActive",
             "addCurrent"}

RunStates == {"init", "loop", "accept", "stopped", "failed"} \cup Deciding

Working == {"start", "solve", "register", "done"}
HandlerStates == {"none", "decrement", "remove", "close"} \cup Working

\* activeConns counts these handlers, currentConns those.
NotDone == {c \in Conns : handler[c] \in Working}
Counted == {c \in Conns : handler[c] \in Working \cup {"decrement"}}

Init ==
    /\ run = "init"
    /\ inHand = NoConn
    /\ handler = [c \in Conns |-> "none"]
    /\ backlog = {}
    /\ open = {}
    /\ activeConns = 0
    /\ currentConns = 0
    /\ difficulty = InitialDifficulty
    /\ adjuster = "none"
    /\ seen = 0
    /\ ctxDone = FALSE
    /\ listener = "nil"
    /\ main = "serving"
    /\ waiter = "none"
    /\ LimiterInit

\* The process has neither exited nor crashed.
Up == main \notin {"exited", "panicked"}

-----------------------------------------------------------------------------
(* The client side of the network. *)

Dial(c) ==
    /\ listener = "open"
    /\ c \notin backlog \cup open
    /\ backlog' = backlog \cup {c}
    /\ UNCHANGED <<runVars, handler, open, counterVars, loadVars, stopVars,
                   connections>>

-----------------------------------------------------------------------------
(* Run *)

Listen ==
    /\ run = "init"
    /\ run' = "loop"
    /\ listener' = "open"
    /\ adjuster' = "ticking"
    /\ UNCHANGED <<inHand, handler, connVars, counterVars, difficulty, seen,
                   ctxDone, main, waiter, connections>>

ListenFails ==
    /\ run = "init"
    /\ run' = "failed"
    /\ UNCHANGED <<inHand, handler, connVars, counterVars, loadVars, stopVars,
                   connections>>

\* The select at the head of the loop.
PollContext ==
    /\ run = "loop"
    /\ run' = IF ctxDone THEN "stopped" ELSE "accept"
    /\ UNCHANGED <<inHand, handler, connVars, counterVars, loadVars, stopVars,
                   connections>>

Accept ==
    /\ run = "accept"
    /\ listener = "open"
    /\ \E c \in backlog :
           /\ inHand' = c
           /\ backlog' = backlog \ {c}
           /\ open' = open \cup {c}
    /\ run' = "check"
    /\ UNCHANGED <<handler, counterVars, loadVars, stopVars, connections>>

\* Accept returns an error: ErrClosed ends Run, another is retried.
AcceptClosed ==
    /\ run = "accept"
    /\ listener = "closed"
    /\ run' = "stopped"
    /\ UNCHANGED <<inHand, handler, connVars, counterVars, loadVars, stopVars,
                   connections>>

AcceptError ==
    /\ run = "accept"
    /\ listener = "open"
    /\ run' = "loop"
    /\ UNCHANGED <<inHand, handler, connVars, counterVars, loadVars, stopVars,
                   connections>>

DropWithoutClose ==
    /\ inHand' = NoConn
    /\ run' = "loop"
    /\ UNCHANGED <<handler, connVars, counterVars, loadVars, stopVars>>
\* conn.Close(); continue
Drop ==
    /\ open' = open \ {inHand}
    /\ inHand' = NoConn
    /\ run' = "loop"
    /\ UNCHANGED <<handler, backlog, counterVars, loadVars, stopVars>>

GoOn(next) ==
    /\ run' = next
    /\ UNCHANGED <<inHand, handler, connVars, counterVars, loadVars, stopVars>>

\* IsAllowed and ProtectedConn
CheckProtection ==
    /\ run = "check"
    /\ GoOn("conLimit") \/ Drop
    /\ UNCHANGED connections

CheckConnectionLimit ==
    /\ run = "conLimit"
    /\ \/ Admit(IPOf[inHand]) /\ GoOn("rateLimit")
       \/ Refuse(IPOf[inHand]) /\ Drop

CheckRateLimit ==
    /\ run = "rateLimit"
    /\ GoOn("maxConns") \/ Drop
    /\ UNCHANGED connections

AtCapacityOffByOne == currentConns > MaxConnections
AtCapacity == currentConns >= MaxConnections

CheckMaxConnections ==
    /\ run = "maxConns"
    /\ IF AtCapacity THEN Drop ELSE GoOn("addActive")
    /\ UNCHANGED connections

AddActiveForgotten ==
    /\ run = "addActive"
    /\ run' = "addCurrent"
    /\ UNCHANGED <<inHand, handler, connVars, counterVars, loadVars, stopVars,
                   connections>>
AddActive ==
    /\ run = "addActive"
    /\ activeConns' = activeConns + 1
    /\ run' = "addCurrent"
    /\ UNCHANGED <<inHand, handler, connVars, currentConns, loadVars, stopVars,
                   connections>>

\* currentConns.Add(1) and the go statement that starts the handler
AddCurrent ==
    /\ run = "addCurrent"
    /\ currentConns' = currentConns + 1
    /\ handler' = [handler EXCEPT ![inHand] = "start"]
    /\ inHand' = NoConn
    /\ run' = "loop"
    /\ UNCHANGED <<connVars, activeConns, loadVars, stopVars, connections>>

RunStep ==
    \/ Listen \/ ListenFails
    \/ PollContext \/ Accept \/ AcceptClosed
    \/ CheckProtection \/ CheckConnectionLimit \/ CheckRateLimit
    \/ CheckMaxConnections \/ AddActive \/ AddCurrent

-----------------------------------------------------------------------------
(* A handler: handleConnection, RegisterFailure on an error, and then the  *)
(* deferred function.                                                      *)

HandlerGoes(c, next) ==
    /\ handler' = [handler EXCEPT ![c] = next]
    /\ UNCHANGED <<runVars, backlog, loadVars, ctxDone, listener, main>>

\* The challenge is created and sent; or it is not created, which
\* CreateChallenge(0) always reports, and the client is sent an error; or
\* the message cannot be sent.
SendChallenge(c) ==
    /\ handler[c] = "start"
    /\ \/ difficulty % 256 # 0 /\ HandlerGoes(c, "solve")
       \/ HandlerGoes(c, "done")
       \/ HandlerGoes(c, "register")
    /\ UNCHANGED <<open, counterVars, waiter, connections>>

\* The solution is answered, with the quote or with INVALID_SOLUTION, and
\* both count as success; or reading or writing fails.
Answer(c) ==
    /\ handler[c] = "solve"
    /\ HandlerGoes(c, "done") \/ HandlerGoes(c, "register")
    /\ UNCHANGED <<open, counterVars, waiter, connections>>

RegisterFailureSkippingDone(c) ==
    /\ handler[c] = "register"
    /\ HandlerGoes(c, "decrement")
    /\ UNCHANGED <<open, counterVars, waiter, connections>>
RegisterFailure(c) ==
    /\ handler[c] = "register"
    /\ HandlerGoes(c, "done")
    /\ UNCHANGED <<open, counterVars, waiter, connections>>

\* activeConns.Done(), which releases the waiter when it reaches zero
Done(c) ==
    /\ handler[c] = "done"
    /\ HandlerGoes(c, "decrement")
    /\ activeConns' = activeConns - 1
    /\ waiter' = IF waiter = "parked" /\ activeConns = 1 THEN "woken"
                 ELSE waiter
    /\ UNCHANGED <<open, currentConns, connections>>

Decrement(c) ==
    /\ handler[c] = "decrement"
    /\ HandlerGoes(c, "remove")
    /\ currentConns' = currentConns - 1
    /\ UNCHANGED <<open, activeConns, waiter, connections>>

ReleaseSlotForgotten(c) ==
    /\ handler[c] = "remove"
    /\ HandlerGoes(c, "close")
    /\ UNCHANGED <<open, counterVars, waiter, connections>>
ReleaseSlot(c) ==
    /\ handler[c] = "remove"
    /\ HandlerGoes(c, "close")
    /\ RemoveConnection(IPOf[c])
    /\ UNCHANGED <<open, counterVars, waiter>>

\* protected.Close() and conn.Close() close the same connection.
Close(c) ==
    /\ handler[c] = "close"
    /\ HandlerGoes(c, "none")
    /\ open' = open \ {c}
    /\ UNCHANGED <<counterVars, waiter, connections>>

HandlerStep(c) ==
    \/ SendChallenge(c) \/ Answer(c) \/ RegisterFailure(c)
    \/ Done(c) \/ Decrement(c) \/ ReleaseSlot(c) \/ Close(c)

-----------------------------------------------------------------------------
(* adjustDifficulty *)

TargetNeverBack(load) ==
    IF load > (MaxConnections * 8) \div 10 THEN InitialDifficulty + 2
    ELSE InitialDifficulty + 1
Target(load) ==
    IF load > (MaxConnections * 8) \div 10 THEN InitialDifficulty + 2
    ELSE IF load > (MaxConnections * 5) \div 10 THEN InitialDifficulty + 1
    ELSE InitialDifficulty

ReadLoad ==
    /\ adjuster = "ticking"
    /\ adjuster' = "swap"
    /\ seen' = currentConns
    /\ UNCHANGED difficulty

SwapDifficulty ==
    /\ adjuster = "swap"
    /\ adjuster' = "ticking"
    /\ difficulty' = Target(seen)
    /\ UNCHANGED seen

StopAdjusting ==
    /\ adjuster = "ticking"
    /\ ctxDone
    /\ adjuster' = "stopped"
    /\ UNCHANGED <<difficulty, seen>>

AdjusterStep ==
    /\ ReadLoad \/ SwapDifficulty \/ StopAdjusting
    /\ UNCHANGED <<runVars, handler, connVars, counterVars, stopVars,
                   connections>>

-----------------------------------------------------------------------------
(* main, Shutdown and the goroutine that waits for the handlers *)

othersOfMain == <<runVars, handler, open, counterVars, loadVars, connections>>

\* A signal arrives and main cancels the context.
Signal ==
    /\ main = "serving"
    /\ main' = "shutdown"
    /\ ctxDone' = TRUE
    /\ UNCHANGED <<othersOfMain, backlog, listener, waiter>>

\* Run has returned: with an error main exits, otherwise it shuts down.
RunReturned ==
    /\ main = "serving"
    /\ run \in {"stopped", "failed"}
    /\ main' = IF run = "failed" THEN "exited" ELSE "shutdown"
    /\ UNCHANGED <<othersOfMain, backlog, ctxDone, listener, waiter>>

\* Shutdown up to its select.  A listener that Run has not stored yet stays
\* open; closing one resets the connections it has not accepted.
CloseListener ==
    /\ main = "shutdown"
    /\ main' = "wait"
    /\ waiter' = "call"
    /\ IF listener = "nil" THEN UNCHANGED <<listener, backlog>>
       ELSE listener' = "closed" /\ backlog' = {}
    /\ UNCHANGED <<othersOfMain, ctxDone>>

ShutdownComplete ==
    /\ main = "wait"
    /\ waiter = "finished"
    /\ main' = "complete"
    /\ UNCHANGED <<othersOfMain, backlog, ctxDone, listener, waiter>>

ShutdownTimeout ==
    /\ main = "wait"
    /\ main' = "timedOut"
    /\ UNCHANGED <<othersOfMain, backlog, ctxDone, listener, waiter>>

Exit ==
    /\ main \in {"complete", "timedOut"}
    /\ main' = "exited"
    /\ UNCHANGED <<othersOfMain, backlog, ctxDone, listener, waiter>>

MainStep == RunReturned \/ CloseListener \/ ShutdownComplete \/ Exit

\* activeConns.Wait() is called.
Wait ==
    /\ waiter = "call"
    /\ waiter' = IF activeConns = 0 THEN "finished" ELSE "parked"
    /\ UNCHANGED <<othersOfMain, backlog, ctxDone, listener, main>>

\* Wait runs again after the counter reached zero.  A WaitGroup that has
\* been added to in between panics, which ends the process.
WaitReturns ==
    /\ waiter = "woken"
    /\ waiter' = "finished"
    /\ main' = IF activeConns = 0 THEN main ELSE "panicked"
    /\ UNCHANGED <<othersOfMain, backlog, ctxDone, listener>>

WaiterStep == Wait \/ WaitReturns

-----------------------------------------------------------------------------
(* The connection limiter's goroutine and its clock *)

othersOfLimiter == <<runVars, handler, connVars, counterVars, loadVars,
                     stopVars>>

LimiterCleanup == Cleanup /\ UNCHANGED othersOfLimiter
LimiterTick == Age /\ UNCHANGED othersOfLimiter

-----------------------------------------------------------------------------

Next ==
    /\ Up
    /\ \/ \E c \in Conns : Dial(c) \/ HandlerStep(c)
       \/ RunStep \/ AcceptError
       \/ AdjusterStep
       \/ Signal \/ MainStep \/ ShutdownTimeout
       \/ WaiterStep
       \/ LimiterCleanup \/ LimiterTick

Spec == Init /\ [][Next]_vars

\* Goroutines keep running: nothing in them waits for good.  The listener's
\* Accept returns once a connection is in the backlog or the listener is
\* closed; reads and writes of a handler return at their deadline; tickers
\* tick.  Nothing is assumed of signals, of clients, of spurious errors of
\* Accept, or of the shutdown timeout.
Fairness ==
    /\ WF_vars(Up /\ RunStep)
    /\ \A c \in Conns : WF_vars(Up /\ HandlerStep(c))
    /\ WF_vars(Up /\ AdjusterStep)
    /\ WF_vars(Up /\ MainStep)
    /\ WF_vars(Up /\ WaiterStep)
    /\ WF_vars(Up /\ LimiterCleanup)
    /\ WF_vars(Up /\ LimiterTick)

FairSpec == Spec /\ Fairness

-----------------------------------------------------------------------------

TypeOK ==
    /\ run \in RunStates
    /\ inHand \in Conns \cup {NoConn}
    /\ handler \in [Conns -> HandlerStates]
    /\ backlog \in SUBSET Conns
    /\ open \in SUBSET Conns
    /\ activeConns \in Nat
    /\ currentConns \in Nat
    /\ difficulty \in InitialDifficulty .. InitialDifficulty + 2
    /\ adjuster \in {"none", "ticking", "swap", "stopped"}
    /\ seen \in Nat
    /\ ctxDone \in BOOLEAN
    /\ listener \in {"nil", "open", "closed"}
    /\ main \in {"serving", "shutdown", "wait", "complete", "timedOut",
                 "exited", "panicked"}
    /\ waiter \in {"none", "call", "parked", "woken", "finished"}
    /\ LimiterType

\* The two counters, which different operations of different goroutines
\* update, never drift from the handlers they count.
CountersAgree ==
    /\ activeConns = Cardinality(NotDone) + (IF run = "addCurrent" THEN 1 ELSE 0)
    /\ currentConns = Cardinality(Counted)

\* Run tests currentConns in one step and adds to it in another while
\* handlers take from it, and no interleaving serves more than
\* cfg.MaxConnections connections at once.
ConnectionCap == Cardinality(Counted) <= MaxConnections

\* A connection has one owner: Run while it decides, then a handler, and
\* the server holds open what these own and nothing else.  Every early
\* continue of the loop and every end of a handler has to give it back.
NoSocketLeak ==
    open = {c \in Conns : handler[c] # "none"}
           \cup (IF run \in Deciding THEN {inHand} ELSE {})

\* The connections not served yet: those the WaitGroup should count and the
\* one Run is deciding on.
InProgress == Cardinality(NotDone) + (IF run \in Deciding THEN 1 ELSE 0)

\* What Shutdown guarantees of the connections in progress: when it has
\* seen the WaitGroup at zero, at most one connection is still to be served,
\* the one Run had accepted before the listener was closed.
AtMostOneStraggler ==
    waiter = "finished" => InProgress <= 1

\* README, "Graceful shutdown": a signal never crashes the server.
NeverPanics == main # "panicked"

\* The limiter's promise to an IP, as Run uses the limiter: it is refused
\* only while MaxPerIP of its connections are open.
OpenOf(ip) == {c \in open : IPOf[c] = ip}
RefusalJustified ==
    \A ip \in IPs : Full(ip) => Cardinality(OpenOf(ip)) >= MaxPerIP

\* The connections that hold a slot of ip: the one Run is deciding on, once
\* the limiter has let it in, and those whose handler has yet to call
\* RemoveConnection.
Admitted == {"rateLimit", "maxConns", "addActive", "addCurrent"}
Holders(ip) ==
    {c \in Conns :
        /\ IPOf[c] = ip
        /\ \/ handler[c] \in Working \cup {"decrement", "remove"}
           \/ c = inHand /\ run \in Admitted}

Slots == INSTANCE SlotDiscipline WITH
    live <- [ip \in IPs |-> Cardinality(Holders(ip))],
    MaxLive <- Cardinality(Conns)

\* Run drops a connection that the limiter has let in, and says nothing to
\* the limiter.
LateDrop ==
    /\ run \in {"rateLimit", "maxConns"}
    /\ run' = "loop"
    /\ UNCHANGED connections

\* The rate limiter's and the capacity check's refusals are the only steps
\* that break the discipline the limiter is written for: everything else the
\* server does, a handler's end after an error or during a shutdown included,
\* takes a slot for a connection that lives or gives back the slot of one
\* that ends, and each connection's only once.
OnlyLateDropsLeak == [][LateDrop \/ [Slots!Next]_(Slots!vars)]_vars

\* The server keeps the promises of ConnectionService: the operations of
\* Run, of the handlers and of Shutdown, in whatever order they interleave,
\* amount to taking, refusing, serving and finishing connections one at a
\* time, and nothing is taken once the listener is closed.
Service == INSTANCE ConnectionService WITH
    phase <- IF ~Up THEN "down"
             ELSE IF listener = "closed" THEN "draining" ELSE "up",
    pending <- IF run \in Deciding THEN {inHand} ELSE {},
    serving <- Counted

ImplementsService == Service!Spec

\* Every connection the server accepts, it closes, whatever the client does
\* and even when a shutdown begins meanwhile; only the end of the process
\* pre-empts it.
EveryConnectionCloses ==
    \A c \in Conns : c \in open ~> (c \notin open \/ ~Up)

\* A shutdown ends even if its timeout never fires: the handlers drain,
\* and nothing Run still does keeps the WaitGroup from reaching zero.
ShutdownEnds == main = "shutdown" ~> main \in {"complete", "timedOut", "panicked"}

\* However the load moves between two reads of the adjuster, and although it
\* decides on a load read earlier, clients are given the initial difficulty
\* again once the load stays low.
DifficultySettles ==
    <>[](currentConns <= (MaxConnections * 5) \div 10 /\ ~ctxDone)
        => <>[](difficulty = InitialDifficulty)

\* Slots that Run never gives back (see RefusalJustified) do not lock an
\* IP out for good: over and over its entry is reset or removed.
NoPermanentLockout ==
    \A ip \in IPs : []<>(~Up \/ ~Full(ip))
=============================================================================
