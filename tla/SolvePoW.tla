------------------------------ MODULE SolvePoW ------------------------------
(***************************************************************************)
(* pkg/utils/pow.go: the client's parallel search for a solution.          *)
(*                                                                         *)
(* Candidates are numbers; worker w tries w, w + NumWorkers, ... and a     *)
(* candidate is a solution or not, which the hash decides.  The search for *)
(* candidates is cut at MaxCandidate: a worker that reaches it keeps       *)
(* polling the context, as one with no solution ahead of it does.          *)
(***************************************************************************)
EXTENDS Integers, FiniteSets

CONSTANTS
    NumWorkers,     \* runtime.NumCPU()
    Solutions,      \* the candidates whose hash has the difficulty
    MaxCandidate,   \* bound: candidates tried
    None            \* the absence of a candidate

ASSUME SolverAssumption ==
    /\ NumWorkers \in Nat \ {0}
    /\ MaxCandidate \in Nat
    /\ Solutions \subseteq 0 .. MaxCandidate
    /\ None \notin Nat

Workers == 0 .. NumWorkers - 1

VARIABLES
    worker,     \* program counter of each worker
    next,       \* the candidate each worker tries next
    resultCh,   \* the buffered solution, or None
    closer,     \* the goroutine that waits for the workers
    closed,     \* the channels it has closed
    ctxDone,    \* the caller's context is done
    caller,     \* the caller's goroutine: its select, then how it returned
    answer      \* the solution it returned

vars == <<worker, next, resultCh, closer, closed, ctxDone, caller, answer>>

WorkerStates == {"poll", "hash", "send", "exited"}
CallerStates == {"select", "solved", "noSolution", "nilError", "cancelled"}

TypeOK ==
    /\ worker \in [Workers -> WorkerStates]
    /\ next \in [Workers -> Nat]
    /\ resultCh \in Solutions \cup {None}
    /\ closer \in {"wait", "closeResult", "closeError", "exited"}
    /\ closed \in SUBSET {"result", "error"}
    /\ ctxDone \in BOOLEAN
    /\ caller \in CallerStates
    /\ answer \in Solutions \cup {None}

Init ==
    /\ worker = [w \in Workers |-> "poll"]
    /\ next = [w \in Workers |-> w]
    /\ resultCh = None
    /\ closer = "wait"
    /\ closed = {}
    /\ ctxDone = FALSE
    /\ caller = "select"
    /\ answer = None

WorkerGoes(w, pc) ==
    /\ worker' = [worker EXCEPT ![w] = pc]
    /\ UNCHANGED <<closer, closed, ctxDone, caller, answer>>

\* The select at the head of the loop.
Poll(w) ==
    /\ worker[w] = "poll"
    /\ WorkerGoes(w, IF ctxDone THEN "exited" ELSE "hash")
    /\ UNCHANGED <<next, resultCh>>

\* j += numWorkers, up to the bound
AdvanceByOne(j) == IF j > MaxCandidate THEN j ELSE j + 1
AdvanceTwice(j) == IF j > MaxCandidate THEN j ELSE j + 2 * NumWorkers
Advance(j) == IF j > MaxCandidate THEN j ELSE j + NumWorkers

\* A candidate is hashed.  A solution is offered; otherwise the worker goes
\* on to its next candidate.
Hash(w) ==
    /\ worker[w] = "hash"
    /\ IF next[w] \in Solutions
       THEN WorkerGoes(w, "send") /\ UNCHANGED next
       ELSE WorkerGoes(w, "poll") /\ next' = [next EXCEPT ![w] = Advance(@)]
    /\ UNCHANGED resultCh

\* The buffer has room for one solution.
Send(w) ==
    /\ worker[w] = "send"
    /\ resultCh = None
    /\ resultCh' = next[w]
    /\ WorkerGoes(w, "exited")
    /\ UNCHANGED next

NeverGiveUp(w) ==
    /\ worker[w] = "send"
    /\ ctxDone /\ resultCh = None
    /\ WorkerGoes(w, "exited")
    /\ UNCHANGED <<next, resultCh>>
GiveUp(w) ==
    /\ worker[w] = "send"
    /\ ctxDone
    /\ WorkerGoes(w, "exited")
    /\ UNCHANGED <<next, resultCh>>

WorkerStep(w) == Poll(w) \/ Hash(w) \/ Send(w) \/ GiveUp(w)

\* wg.Wait(), and then the channels are closed one after the other.
CloserGoes(pc) ==
    /\ closer' = pc
    /\ UNCHANGED <<worker, next, resultCh, ctxDone, caller, answer>>

SomeWorkerDone ==
    /\ closer = "wait"
    /\ \E w \in Workers : worker[w] = "exited"
    /\ CloserGoes("closeResult")
    /\ UNCHANGED closed
WorkersDone ==
    /\ closer = "wait"
    /\ \A w \in Workers : worker[w] = "exited"
    /\ CloserGoes("closeResult")
    /\ UNCHANGED closed

CloseResult ==
    /\ closer = "closeResult"
    /\ closed' = closed \cup {"result"}
    /\ CloserGoes("closeError")

CloseError ==
    /\ closer = "closeError"
    /\ closed' = closed \cup {"error"}
    /\ CloserGoes("exited")

CloserStep == WorkersDone \/ CloseResult \/ CloseError

\* The caller's select takes any case that is ready.  A closed channel is
\* ready once it is empty; errorCh never holds anything, and reading it
\* closed yields a nil error.
CallerReturns(outcome) ==
    /\ caller = "select"
    /\ caller' = outcome
    /\ UNCHANGED <<worker, next, closer, closed, ctxDone>>

ReceiveSolution ==
    /\ resultCh # None
    /\ CallerReturns("solved")
    /\ answer' = resultCh
    /\ resultCh' = None

ReceiveClosed ==
    /\ resultCh = None /\ "result" \in closed
    /\ CallerReturns("noSolution")
    /\ UNCHANGED <<answer, resultCh>>

ReceiveError ==
    /\ "error" \in closed
    /\ CallerReturns("nilError")
    /\ UNCHANGED <<answer, resultCh>>

ReceiveCancel ==
    /\ ctxDone
    /\ CallerReturns("cancelled")
    /\ UNCHANGED <<answer, resultCh>>

CallerStep == ReceiveSolution \/ ReceiveClosed \/ ReceiveError \/ ReceiveCancel

\* The context given to GetQuote is cancelled or times out.
Cancel ==
    /\ ~ctxDone
    /\ ctxDone' = TRUE
    /\ UNCHANGED <<worker, next, resultCh, closer, closed, caller, answer>>

Next ==
    \/ \E w \in Workers : WorkerStep(w)
    \/ CloserStep
    \/ CallerStep
    \/ Cancel

Spec == Init /\ [][Next]_vars

\* Goroutines keep running.  A select with several ready cases picks any of
\* them, so nothing is assumed of a particular case.  The context need not
\* ever be done.
FairSpec ==
    /\ Spec
    /\ \A w \in Workers : WF_vars(WorkerStep(w))
    /\ WF_vars(CloserStep)
    /\ WF_vars(CallerStep)

-----------------------------------------------------------------------------

\* No worker can be about to send when the channel is closed, which would
\* panic: the channels are closed after every worker has returned.
NoSendOnClosed == \A w \in Workers : worker[w] = "send" => closed = {}

\* The workers share the candidates out: no two of them ever come to the same
\* one, and no solution is passed over by the one that has to try it.
NoCandidateTwice ==
    \A v, w \in Workers : v # w => next[v] # next[w]
NoSolutionSkipped ==
    \A solution \in Solutions : next[solution % NumWorkers] <= solution
CandidatesSharedOut == NoCandidateTwice /\ NoSolutionSkipped

\* Until the context is done no solution is lost.  With several workers the
\* search does not come back without one: the first worker's is taken before
\* the channels, which close when all have returned, offer their own cases to
\* the select.  (A single worker returns after its solution, and then the
\* closed errorCh may be taken instead of it.)  And a worker returns only
\* when its solution is in the buffer or with the caller: one that finds the
\* buffer full waits, after the caller has returned too.
SolvedUnlessCancelled ==
    ~ctxDone =>
        /\ caller \in {"select", "solved"}
        /\ \A w \in Workers :
               worker[w] = "exited" => next[w] \in {resultCh, answer}

\* If there is a solution to be found the caller does not wait for ever.
SearchEnds == Solutions # {} => <>(caller # "select")

\* A cancelled search leaves no goroutine behind, not even one that has found
\* a solution nobody takes.
CancelStopsAll ==
    ctxDone ~> closer = "exited" /\ \A w \in Workers : worker[w] = "exited"
=============================================================================
