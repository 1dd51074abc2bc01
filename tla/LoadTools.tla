----------------------------- MODULE LoadTools -----------------------------
(***************************************************************************)
(* The load tools: tools/ddos/main.go, and the attacks of                  *)
(* tools/protection/main.go.  Clients make requests until the context      *)
(* times out and count how they end; a reporter prints what has been       *)
(* counted since its last tick; main waits for the clients and prints the  *)
(* totals.  The clients' pauses between requests are left out, and with    *)
(* them the count of attempts, which only decides how long a pause is.     *)
(*                                                                         *)
(* A request of the library's client ends: see ClientReturns of Exchange.  *)
(***************************************************************************)
EXTENDS Integers, Sequences, FiniteSets

CONSTANTS
    Clients,
    Writers,        \* bound: the goroutines that slowloris starts
    MaxWrites,      \* how many bytes each writes (10 in the code)
    MaxRequests     \* bound: requests and writes made when one more starts

ASSUME LoadAssumption ==
    /\ IsFiniteSet(Clients) /\ IsFiniteSet(Writers)
    /\ MaxWrites \in Nat /\ MaxRequests \in Nat

VARIABLES
    tool,           \* "ddos", or the attack of the other program
    over,           \* the context has timed out
    client,         \* a client: where it is, or what it has yet to count
    held,           \* connections it keeps open
    writer,         \* a goroutine of slowloris, likewise
    writes,         \* what it has written
    stats, latencies,       \* the counters: requests, latencies added
    reporter, current, last,    \* the counter to be loaded; loaded; of last time
    main, printed,          \* the same of main
    made, reported  \* history: how requests have ended, what was printed of it

clientVars == <<client, held>>
writerVars == <<writer, writes>>
reporterVars == <<reporter, current, last, reported>>
mainVars == <<main, printed>>
counters == <<stats, latencies>>
vars == <<tool, over, clientVars, writerVars, counters, reporterVars, mainVars, made>>

Tools == {"ddos", "invalid_pow", "failed_attempts", "connection_limit", "slowloris"}
Outcomes == {"success", "failed", "blocked"}
Zero == [outcome \in Outcomes |-> 0]

\* The counters a tool has, in the order in which they are loaded.
Counters == IF tool = "ddos" THEN <<"success", "failed">>
            ELSE <<"success", "failed", "blocked">>

\* How a request that the client itself makes may end.
Ends ==
    [ddos |-> {"success", "failed"},
     invalid_pow |-> Outcomes,
     failed_attempts |-> Outcomes,
     connection_limit |-> {"success", "blocked"},
     slowloris |-> {"blocked"}]

Init ==
    /\ tool \in Tools
    /\ over = FALSE
    /\ client = [c \in Clients |-> "poll"] /\ held = [c \in Clients |-> 0]
    /\ writer = [w \in Writers |-> "none"] /\ writes = [w \in Writers |-> 0]
    /\ stats = Zero /\ latencies = 0
    /\ reporter = 0 /\ current = Zero /\ last = Zero
    /\ main = "wait" /\ printed = Zero
    /\ made = Zero /\ reported = Zero

Total(counts) == counts["success"] + counts["failed"] + counts["blocked"]
Running == main # "exited"

-----------------------------------------------------------------------------
\* A client.

\* The select at the top of the loop; a client that returns closes what
\* connections it has kept.
PollForever(c) ==
    /\ client[c] = "poll"
    /\ Total(made) + Cardinality({d \in Clients : client[d] = "request"}) < MaxRequests
    /\ client' = [client EXCEPT ![c] = "request"]
    /\ UNCHANGED <<held, writerVars, counters, made>>
Poll(c) ==
    /\ client[c] = "poll"
    /\ \/ /\ over
          /\ client' = [client EXCEPT ![c] = "returned"]
          /\ held' = [held EXCEPT ![c] = 0]
       \/ /\ ~over
          /\ Total(made) + Cardinality({d \in Clients : client[d] = "request"})
                 < MaxRequests
          /\ client' = [client EXCEPT ![c] = "request"]
          /\ UNCHANGED held
    /\ UNCHANGED <<writerVars, counters, made>>

\* connection_limit keeps its connections open.
Kept(outcome) == IF tool = "connection_limit" /\ outcome = "success" THEN 1 ELSE 0

\* The request ends.
Request(c) ==
    /\ client[c] = "request"
    /\ \E outcome \in Ends[tool] :
           /\ client' = [client EXCEPT ![c] = outcome]
           /\ made' = [made EXCEPT ![outcome] = @ + 1]
           /\ held' = [held EXCEPT ![c] = @ + Kept(outcome)]
    /\ UNCHANGED <<writerVars, counters>>

\* slowloris, connected, leaves the connection to a goroutine.
StartWriter(c) ==
    /\ tool = "slowloris"
    /\ client[c] = "request"
    /\ \E w \in Writers :
           writer[w] = "none" /\ writer' = [writer EXCEPT ![w] = "poll"]
    /\ client' = [client EXCEPT ![c] = "poll"]
    /\ UNCHANGED <<held, writes, counters, made>>

\* One counter is incremented; then, by ddos, the latency added.
Count(c) ==
    /\ client[c] \in Outcomes
    /\ stats' = [stats EXCEPT ![client[c]] = @ + 1]
    /\ client' = [client EXCEPT ![c] =
           IF tool = "ddos" /\ client[c] = "success" THEN "latency" ELSE "poll"]
    /\ UNCHANGED <<held, writerVars, latencies, made>>

AddLatency(c) ==
    /\ client[c] = "latency"
    /\ latencies' = latencies + 1
    /\ client' = [client EXCEPT ![c] = "poll"]
    /\ UNCHANGED <<held, writerVars, stats, made>>

ClientStep(c) ==
    /\ Poll(c) \/ Request(c) \/ StartWriter(c) \/ Count(c) \/ AddLatency(c)
    /\ Running
    /\ UNCHANGED <<tool, over, reporterVars, mainVars>>

-----------------------------------------------------------------------------
\* A goroutine of slowloris, which no one waits for.

WriterPollForever(w) ==
    /\ writer[w] = "poll"
    /\ writer' = [writer EXCEPT ![w] = IF writes[w] = MaxWrites THEN "ended" ELSE "write"]
    /\ UNCHANGED <<writes, stats, made>>
WriterPoll(w) ==
    /\ writer[w] = "poll"
    /\ writer' = [writer EXCEPT ![w] =
           IF over \/ writes[w] = MaxWrites THEN "ended" ELSE "write"]
    /\ UNCHANGED <<writes, stats, made>>

WriteByte(w) ==
    /\ writer[w] = "write"
    /\ \E outcome \in {"success", "failed"} :
           /\ writer' = [writer EXCEPT ![w] = outcome]
           /\ made' = [made EXCEPT ![outcome] = @ + 1]
    /\ UNCHANGED <<writes, stats>>

WriterCount(w) ==
    /\ writer[w] \in Outcomes
    /\ stats' = [stats EXCEPT ![writer[w]] = @ + 1]
    /\ IF writer[w] = "success"
       THEN /\ writer' = [writer EXCEPT ![w] = "poll"]
            /\ writes' = [writes EXCEPT ![w] = @ + 1]
       ELSE writer' = [writer EXCEPT ![w] = "ended"] /\ UNCHANGED writes
    /\ UNCHANGED made

WriterStep(w) ==
    /\ WriterPoll(w) \/ WriteByte(w) \/ WriterCount(w)
    /\ Running
    /\ UNCHANGED <<tool, over, clientVars, latencies, reporterVars, mainVars>>

-----------------------------------------------------------------------------
\* The reporter, and main.

\* A tick has come and the counters are loaded one by one; or, between ticks,
\* the context is done.
ReporterLoads ==
    /\ reporter \in 0 .. Len(Counters) - 1
    /\ LET outcome == Counters[reporter + 1] IN
           current' = [current EXCEPT ![outcome] = stats[outcome]]
    /\ reporter' = reporter + 1
    /\ UNCHANGED <<last, reported>>

\* What is kept is what was printed.
ReporterPrintsReloading ==
    /\ reporter = Len(Counters)
    /\ reported' = [outcome \in Outcomes |->
                        reported[outcome] + current[outcome] - last[outcome]]
    /\ last' = stats
    /\ reporter' = 0 /\ current' = Zero
ReporterPrints ==
    /\ reporter = Len(Counters)
    /\ reported' = [outcome \in Outcomes |->
                        reported[outcome] + current[outcome] - last[outcome]]
    /\ last' = current
    /\ reporter' = 0 /\ current' = Zero

ReporterReturns ==
    /\ reporter = 0 /\ over
    /\ reporter' = -1
    /\ UNCHANGED <<current, last, reported>>

ReporterStep ==
    /\ ReporterLoads \/ ReporterPrints \/ ReporterReturns
    /\ Running
    /\ UNCHANGED <<tool, over, clientVars, writerVars, counters, mainVars, made>>

\* wg.Wait
AllReturned ==
    /\ main = "wait"
    /\ \A c \in Clients : client[c] = "returned"
    /\ main' = Counters[1]
    /\ UNCHANGED printed

\* Then the totals, one by one, and the process ends.
PrintTotal ==
    \E i \in DOMAIN Counters :
        /\ main = Counters[i]
        /\ printed' = [printed EXCEPT ![main] = stats[main]]
        /\ main' = IF i = Len(Counters) THEN "exited" ELSE Counters[i + 1]

MainStep ==
    /\ AllReturned \/ PrintTotal
    /\ UNCHANGED <<tool, over, clientVars, writerVars, counters, reporterVars, made>>

Timeout ==
    /\ Running /\ ~over
    /\ over' = TRUE
    /\ UNCHANGED <<tool, clientVars, writerVars, counters, reporterVars, mainVars, made>>

Next ==
    \/ \E c \in Clients : ClientStep(c)
    \/ \E w \in Writers : WriterStep(w)
    \/ ReporterStep \/ MainStep \/ Timeout

Spec == Init /\ [][Next]_vars

\* The context times out, clients and main keep running.  Nothing is assumed
\* of the reporter, and of slowloris' goroutines, whose writes may block.
FairSpec ==
    /\ Spec
    /\ WF_vars(Timeout) /\ WF_vars(MainStep)
    /\ \A c \in Clients : WF_vars(ClientStep(c))

-----------------------------------------------------------------------------

TypeOK ==
    /\ tool \in Tools /\ over \in BOOLEAN
    /\ client \in [Clients -> {"poll", "request", "latency", "returned"} \cup Outcomes]
    /\ held \in [Clients -> Nat]
    /\ writer \in [Writers -> {"none", "poll", "write", "ended"} \cup Outcomes]
    /\ writes \in [Writers -> 0 .. MaxWrites]
    /\ stats \in [Outcomes -> Nat] /\ latencies \in Nat
    /\ reporter \in -1 .. Len(Counters)
    /\ current \in [Outcomes -> Nat] /\ last \in [Outcomes -> Nat]
    /\ main \in {"wait", "exited"} \cup Outcomes
    /\ printed \in [Outcomes -> Nat]
    /\ made \in [Outcomes -> Nat] /\ reported \in [Outcomes -> Nat]

\* The totals that main prints, one after the other, are of one moment, at
\* which every request has been counted and no client holds a connection.
\* Only slowloris, whose goroutines main does not wait for, may miss
\* something: what these had begun when the time was up, one write each.
FinalStatsComplete ==
    main = "exited" =>
        /\ \A c \in Clients : held[c] = 0
        /\ tool = "ddos" => latencies = printed["success"]
        /\ IF tool = "slowloris"
           THEN Total(made) - Total(printed)
                    <= Cardinality({w \in Writers : writer[w] # "none"})
           ELSE printed = made

\* The reporter's differences add up to what it has loaded, although clients
\* count while it loads one counter after the other: no request is reported
\* in two intervals or in none.
DifferencesAddUp ==
    \A outcome \in Outcomes :
        reported[outcome] = last[outcome] /\ reported[outcome] <= stats[outcome]

\* The tool ends, whatever its requests come to, even those that are under
\* way when the time is up, and those that are still being written.
ToolEnds == <>(main = "exited")
=============================================================================
