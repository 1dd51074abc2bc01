--------------------------- MODULE SolvePoWProofs ---------------------------
(***************************************************************************)
(* Proofs about the search for every number of workers, every bound and    *)
(* every set of solutions.                                                 *)
(***************************************************************************)
EXTENDS SolvePoW, TLAPS

\* The channels are closed by a goroutine that has seen every worker return.
ClosedLast ==
    /\ closer # "wait" => \A w \in Workers : worker[w] = "exited"
    /\ closed # {} => closer # "wait"

\* As long as nobody has cancelled and the caller waits, a worker returns only
\* by filling the buffer, and the buffer has room for one.
OneFound ==
    ~ctxDone /\ caller = "select" =>
        /\ \A v, w \in Workers :
               worker[v] = "exited" /\ worker[w] = "exited" => v = w
        /\ \A w \in Workers : worker[w] = "exited" => resultCh # None

\* As long as nobody has cancelled, the solution of a worker that has returned
\* is in the buffer or with the caller, who has room for it until it returns.
FoundKept ==
    /\ caller = "select" => answer = None
    /\ ~ctxDone => \A w \in Workers :
                      worker[w] = "exited" => next[w] \in {resultCh, answer}

\* A worker sends a solution.
SendsSolution == \A w \in Workers : worker[w] = "send" => next[w] \in Solutions

\* Worker w is at one of the candidates w, w + NumWorkers, ...
InStride == \A w \in Workers : \E k \in Nat : next[w] = w + k * NumWorkers

Inv ==
    /\ TypeOK
    /\ ClosedLast
    /\ OneFound
    /\ FoundKept
    /\ SendsSolution
    /\ InStride
    /\ NoSolutionSkipped

\* Numbers below n are told apart by any multiples of n added to them.
LEMMA StridesApart ==
    ASSUME NEW n \in Nat, NEW v \in 0 .. n - 1, NEW w \in 0 .. n - 1,
           NEW k \in Nat, NEW l \in Nat, v + k * n = w + l * n
    PROVE  v = w
<1>1. k * n - l * n = w - v
    BY SMT
<1>2. (k - l) * n = w - v
    BY <1>1, SMT
<1>3. CASE k = l
    BY <1>2, <1>3, SMT
<1>4. CASE k > l
    <2>1. PICK d \in Nat : k = l + 1 + d
        <3>1. k - l - 1 \in Nat /\ k = l + 1 + (k - l - 1)
            BY <1>4, SMT
        <3> QED BY <3>1, Zenon
    <2>2. (1 + d) * n = n + d * n
        BY SMT
    <2>3. d * n >= 0
        BY SMT
    <2>4. k * n = l * n + n + d * n
        BY <2>1, SMT
    <2> QED BY <1>1, <2>3, <2>4, SMT
<1>5. CASE l > k
    <2>1. PICK d \in Nat : l = k + 1 + d
        <3>1. l - k - 1 \in Nat /\ l = k + 1 + (l - k - 1)
            BY <1>5, SMT
        <3> QED BY <3>1, Zenon
    <2>2. d * n >= 0
        BY SMT
    <2>3. l * n = k * n + n + d * n
        BY <2>1, SMT
    <2> QED BY <1>1, <2>2, <2>3, SMT
<1> QED BY <1>3, <1>4, <1>5, SMT

\* A number of a stride that is below another number of it is below that one
\* by a whole stride.
LEMMA StridesWhole ==
    ASSUME NEW n \in Nat \ {0}, NEW s \in Nat, NEW k \in Nat,
           (s % n) + k * n < s
    PROVE  (s % n) + k * n + n <= s
<1> DEFINE q == s \div n
           r == s % n
<1>1. q \in Nat /\ r \in 0 .. n - 1 /\ s = r + q * n
    BY SMT
<1> HIDE DEF q, r
<1>2. k * n \in Nat /\ q * n \in Nat
    BY <1>1, SMT
<1>3. CASE k >= q
    <2>1. PICK d \in Nat : k = q + d
        <3>1. k - q \in Nat /\ k = q + (k - q)
            BY <1>1, <1>3, SMT
        <3> QED BY <3>1, Zenon
    <2>2. d * n >= 0 /\ k * n = q * n + d * n
        BY <1>1, <2>1, SMT
    <2> QED BY <1>1, <1>2, <2>2 DEF r
<1>4. CASE k < q
    <2>1. PICK d \in Nat : q = k + 1 + d
        <3>1. q - k - 1 \in Nat /\ q = k + 1 + (q - k - 1)
            BY <1>1, <1>4, SMT
        <3> QED BY <3>1, Zenon
    <2>2. d * n >= 0 /\ q * n = k * n + n + d * n
        BY <1>1, <2>1, SMT
    <2> QED BY <1>1, <1>2, <2>2 DEF r
<1> QED BY <1>1, <1>3, <1>4

\* A candidate that is no solution can be left behind.
LEMMA AdvanceSkipsNothing ==
    ASSUME NEW w \in Workers, NEW j \in Nat, NEW s \in Solutions,
           \E k \in Nat : j = w + k * NumWorkers,
           s % NumWorkers = w, j <= s, j \notin Solutions
    PROVE  Advance(j) <= s
<1>1. PICK k \in Nat : j = w + k * NumWorkers
    OBVIOUS
<1>2. s \in Nat /\ NumWorkers \in Nat \ {0}
    BY SolverAssumption
<1>3. j < s
    BY <1>2
<1>4. j + NumWorkers <= s
    BY <1>1, <1>2, <1>3, StridesWhole
<1> QED BY <1>2, <1>4 DEF Advance

LEMMA InitInv == Init => Inv
<1> SUFFICES ASSUME Init PROVE Inv
    OBVIOUS
<1> USE SolverAssumption DEF Init
<1>1. TypeOK
    <2>1. \A w \in Workers : w \in Nat
        BY DEF Workers
    <2>2. next \in [Workers -> Nat] /\ worker \in [Workers -> WorkerStates]
        BY <2>1 DEF WorkerStates
    <2> QED BY <2>2 DEF TypeOK, CallerStates
<1>2. ClosedLast /\ OneFound /\ FoundKept /\ SendsSolution
    BY DEF ClosedLast, OneFound, FoundKept, SendsSolution
<1>3. InStride
    <2>1. \A w \in Workers : w = w + 0 * NumWorkers
        BY DEF Workers
    <2>2. \A w \in Workers : next[w] = w + 0 * NumWorkers
        BY <2>1
    <2> QED BY <2>2, Zenon DEF InStride
<1>4. NoSolutionSkipped
    <2> SUFFICES ASSUME NEW s \in Solutions
                 PROVE  next[s % NumWorkers] <= s
        BY DEF NoSolutionSkipped
    <2>1. s \in Nat /\ s % NumWorkers \in Workers /\ s % NumWorkers <= s
        BY SMT DEF Workers
    <2> QED BY <2>1
<1> QED BY <1>1, <1>2, <1>3, <1>4 DEF Inv

\* The next candidate is in the worker's stride.
LEMMA AdvanceInStride ==
    ASSUME NEW j \in Nat, NEW w \in Workers,
           \E k \in Nat : j = w + k * NumWorkers
    PROVE  /\ Advance(j) \in Nat
           /\ \E k \in Nat : Advance(j) = w + k * NumWorkers
<1>1. PICK k \in Nat : j = w + k * NumWorkers
    OBVIOUS
<1>2. j + NumWorkers = w + (k + 1) * NumWorkers
    BY <1>1, SolverAssumption DEF Workers
<1>3. k + 1 \in Nat /\ j + NumWorkers \in Nat
    BY SolverAssumption
<1> QED BY <1>1, <1>2, <1>3, Zenon DEF Advance

\* A worker moves without touching a channel.
LEMMA WorkerStepInv ==
    ASSUME Inv, NEW w \in Workers, WorkerStep(w)
    PROVE  Inv'
<1> USE SolverAssumption DEF Inv
<1>1. CASE Poll(w)
    BY <1>1 DEF Poll, WorkerGoes, TypeOK, WorkerStates, ClosedLast, OneFound,
                FoundKept, SendsSolution, InStride,
                NoSolutionSkipped
<1>2. CASE Hash(w)
    <2>1. CASE next[w] \in Solutions
        BY <1>2, <2>1 DEF Hash, WorkerGoes, TypeOK, WorkerStates, ClosedLast,
                          OneFound, FoundKept, SendsSolution, InStride,
                          NoSolutionSkipped
    <2>2. CASE next[w] \notin Solutions
        <3>1. next' = [next EXCEPT ![w] = Advance(next[w])]
            BY <1>2, <2>2 DEF Hash
        <3>2. /\ Advance(next[w]) \in Nat
              /\ \E k \in Nat : Advance(next[w]) = w + k * NumWorkers
            BY AdvanceInStride DEF TypeOK, InStride
        <3>3. InStride'
            BY <3>1, <3>2 DEF TypeOK, InStride
        <3>4. TypeOK'
            BY <1>2, <2>2, <3>1, <3>2 DEF Hash, WorkerGoes, TypeOK, WorkerStates
        <3>5. (ClosedLast /\ OneFound /\ FoundKept /\ SendsSolution)'
            BY <1>2, <2>2, <3>1 DEF Hash, WorkerGoes, TypeOK, ClosedLast,
                                    OneFound, FoundKept, SendsSolution
        <3>6. NoSolutionSkipped'
            <4> SUFFICES ASSUME NEW s \in Solutions
                         PROVE  next'[s % NumWorkers] <= s
                BY DEF NoSolutionSkipped
            <4>1. next[s % NumWorkers] <= s
                BY DEF NoSolutionSkipped
            <4>2. CASE s % NumWorkers = w
                <5>1. Advance(next[w]) <= s
                    BY <2>2, <4>1, <4>2, AdvanceSkipsNothing
                       DEF TypeOK, InStride
                <5> QED BY <3>1, <4>2, <5>1 DEF TypeOK
            <4>3. CASE s % NumWorkers # w
                BY <3>1, <4>1, <4>3 DEF TypeOK
            <4> QED BY <4>2, <4>3
        <3> QED BY <3>3, <3>4, <3>5, <3>6
    <2> QED BY <2>1, <2>2
<1>3. CASE Send(w)
    <2>1. (TypeOK /\ ClosedLast /\ SendsSolution /\ InStride
               /\ NoSolutionSkipped)'
        BY <1>3 DEF Send, WorkerGoes, TypeOK, WorkerStates, ClosedLast,
                    SendsSolution, InStride, NoSolutionSkipped
    <2>2. (OneFound /\ FoundKept)'
        BY <1>3 DEF Send, WorkerGoes, TypeOK, OneFound, FoundKept, SendsSolution
    <2> QED BY <2>1, <2>2
<1>4. CASE GiveUp(w)
    BY <1>4 DEF GiveUp, WorkerGoes, TypeOK, WorkerStates, ClosedLast, OneFound,
                FoundKept, SendsSolution, InStride,
                NoSolutionSkipped
<1> QED BY <1>1, <1>2, <1>3, <1>4 DEF WorkerStep

LEMMA InvStep == Inv /\ [Next]_vars => Inv'
<1> SUFFICES ASSUME Inv, [Next]_vars PROVE Inv'
    OBVIOUS
<1> USE DEF Inv
<1>1. ASSUME NEW w \in Workers, WorkerStep(w) PROVE Inv'
    BY <1>1, WorkerStepInv
<1>2. CASE CloserStep
    BY <1>2 DEF CloserStep, WorkersDone, CloseResult, CloseError, CloserGoes,
                TypeOK, ClosedLast, OneFound, FoundKept, SendsSolution,
                InStride, NoSolutionSkipped
<1>3. CASE CallerStep
    BY <1>3 DEF CallerStep, ReceiveSolution, ReceiveClosed, ReceiveError,
                ReceiveCancel, CallerReturns, TypeOK, CallerStates, ClosedLast,
                OneFound, FoundKept, SendsSolution, InStride,
                NoSolutionSkipped
<1>4. CASE Cancel
    BY <1>4 DEF Cancel, TypeOK, ClosedLast, OneFound, FoundKept, SendsSolution,
                InStride, NoSolutionSkipped
<1>5. CASE UNCHANGED vars
    BY <1>5 DEF vars, TypeOK, ClosedLast, OneFound, FoundKept, SendsSolution,
                InStride, NoSolutionSkipped
<1> QED BY <1>1, <1>2, <1>3, <1>4, <1>5 DEF Next

LEMMA Invariance == Spec => []Inv
BY InitInv, InvStep, PTL DEF Spec

\* Type correctness, which includes that what SolvePoW returns as a solution
\* is one.
THEOREM TypeCorrect == Spec => []TypeOK
<1>1. Inv => TypeOK
    BY DEF Inv
<1> QED BY <1>1, Invariance, PTL

\* No worker ever sends on a closed channel.
THEOREM SendCorrect == Spec => []NoSendOnClosed
<1>1. Inv => NoSendOnClosed
    BY DEF Inv, ClosedLast, NoSendOnClosed
<1> QED BY <1>1, Invariance, PTL

\* Different workers are at different candidates.
LEMMA InvDistinct == Inv => NoCandidateTwice
<1> SUFFICES ASSUME Inv, NEW v \in Workers, NEW w \in Workers,
                    next[v] = next[w]
             PROVE  v = w
    BY DEF NoCandidateTwice
<1>1. PICK k \in Nat : next[v] = v + k * NumWorkers
    BY DEF Inv, InStride
<1>2. PICK l \in Nat : next[w] = w + l * NumWorkers
    BY DEF Inv, InStride
<1> QED BY <1>1, <1>2, StridesApart, SolverAssumption DEF Workers

\* No two workers ever try the same candidate, however many workers there are,
\* and together they miss no solution.
THEOREM StridesCorrect == Spec => []CandidatesSharedOut
<1>1. Inv => CandidatesSharedOut
    BY InvDistinct DEF Inv, CandidatesSharedOut
<1> QED BY <1>1, Invariance, PTL

-----------------------------------------------------------------------------
(* Until the context is done *)

\* The caller's select has no other outcome than a solution: it takes a second
\* step, as the invariant excludes the others at the moment it returns.
CallerSolves == caller \notin {"select", "solved"} => ctxDone

LEMMA CallerSolvesStep ==
    ASSUME NumWorkers > 1, Inv, CallerSolves, [Next]_vars
    PROVE  CallerSolves'
<1> USE DEF CallerSolves
<1>1. ASSUME NEW w \in Workers, WorkerStep(w) PROVE CallerSolves'
    BY <1>1 DEF WorkerStep, Poll, Hash, Send, GiveUp, WorkerGoes
<1>2. CASE CloserStep
    BY <1>2 DEF CloserStep, WorkersDone, CloseResult, CloseError, CloserGoes
<1>3. CASE CallerStep
    <2>1. 0 \in Workers /\ 1 \in Workers
        BY SolverAssumption DEF Workers
    <2>2. closed # {} /\ caller = "select" => ctxDone
        BY <2>1 DEF Inv, ClosedLast, OneFound
    <2> QED BY <1>3, <2>2
            DEF CallerStep, ReceiveSolution, ReceiveClosed, ReceiveError,
                ReceiveCancel, CallerReturns
<1>4. CASE Cancel
    BY <1>4 DEF Cancel
<1>5. CASE UNCHANGED vars
    BY <1>5 DEF vars
<1> QED BY <1>1, <1>2, <1>3, <1>4, <1>5 DEF Next

\* With two workers or more the search comes back without a solution only if
\* it was cancelled, and until then no solution that was found is lost.
THEOREM SolvedCorrect ==
    ASSUME NumWorkers > 1
    PROVE  Spec => []SolvedUnlessCancelled
<1>1. Init => CallerSolves
    BY DEF Init, CallerSolves
<1>2. Inv /\ CallerSolves /\ [Next]_vars => CallerSolves'
    BY CallerSolvesStep
<1>3. Inv /\ CallerSolves => SolvedUnlessCancelled
    BY DEF Inv, TypeOK, CallerStates, FoundKept, CallerSolves,
           SolvedUnlessCancelled
<1> QED BY <1>1, <1>2, <1>3, Invariance, PTL DEF Spec

\* Two workers at most return without a cancellation: their solutions differ,
\* and there are two places for a solution.
LEMMA TwoReturn ==
    ASSUME Inv, ~ctxDone, NEW u \in Workers, NEW v \in Workers, NEW w \in Workers,
           worker[u] = "exited", worker[v] = "exited", worker[w] = "exited"
    PROVE  u = v \/ v = w \/ u = w
<1>1. {next[u], next[v], next[w]} \subseteq {resultCh, answer}
    BY DEF Inv, FoundKept
<1>2. next[u] = next[v] \/ next[v] = next[w] \/ next[u] = next[w]
    BY <1>1
<1> QED BY <1>2, InvDistinct DEF NoCandidateTwice

\* Nothing but the end of the context ends a search with three workers or
\* more: without it the goroutine that waits for the workers waits for ever,
\* long after the caller has its solution.
THEOREM OnlyCancelEnds ==
    ASSUME NumWorkers > 2
    PROVE  Spec => [](~ctxDone => /\ closer = "wait"
                                  /\ \E w \in Workers : worker[w] # "exited")
<1>1. Inv => (~ctxDone => /\ closer = "wait"
                          /\ \E w \in Workers : worker[w] # "exited")
    <2> SUFFICES ASSUME Inv, ~ctxDone
                 PROVE  \E w \in Workers : worker[w] # "exited"
        BY DEF Inv, ClosedLast
    <2>1. 0 \in Workers /\ 1 \in Workers /\ 2 \in Workers
        BY SolverAssumption DEF Workers
    <2>2. ~(worker[0] = "exited" /\ worker[1] = "exited" /\ worker[2] = "exited")
        BY <2>1, TwoReturn
    <2> QED BY <2>1, <2>2
<1> QED BY <1>1, Invariance, PTL
=============================================================================
