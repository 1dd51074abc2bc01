-------------------------- MODULE LoadToolsProofs ---------------------------
(***************************************************************************)
(* Proofs about the load tools for every number of clients, of goroutines  *)
(* of slowloris, of writes and of requests.                                *)
(***************************************************************************)
EXTENDS LoadTools, FiniteSetTheorems, TLAPS

ClientStates == {"poll", "request", "latency", "returned"} \cup Outcomes
WriterStates == {"none", "poll", "write", "ended"} \cup Outcomes

\* How many clients, and goroutines of slowloris, are at a place.
At(all, counter, pc) == {x \in all : counter[x] = pc}
ClientsAt(pc) == Cardinality(At(Clients, client, pc))
WritersAt(pc) == Cardinality(At(Writers, writer, pc))
Started == Cardinality({w \in Writers : writer[w] # "none"})

\* What ended has been counted, or is about to be by the one that made it.
Counted ==
    \A outcome \in Outcomes :
        made[outcome] = stats[outcome] + ClientsAt(outcome) + WritersAt(outcome)

\* The same of latencies; and what is particular to a tool.
OfTool ==
    /\ tool = "ddos" => /\ stats["success"] = latencies + ClientsAt("latency")
                        /\ made["blocked"] = 0 /\ printed["blocked"] = 0
    /\ tool # "slowloris" \/ Clients = {} => \A w \in Writers : writer[w] = "none"

\* A goroutine of slowloris that is writing has writes left.
WritesLeft ==
    \A w \in Writers : writer[w] \in {"write"} \cup Outcomes => writes[w] < MaxWrites

\* main is past wg.Wait when all clients have seen the end of the context.
Waited ==
    /\ \A c \in Clients : client[c] = "returned" => over /\ held[c] = 0
    /\ main # "wait" => \A c \in Clients : client[c] = "returned"

\* The totals that main has printed; the others are still to be loaded.
Shown(outcome) ==
    \/ main = "exited"
    \/ main = "blocked" /\ outcome # "blocked"
    \/ main = "failed" /\ outcome = "success"

ShownNow ==
    /\ tool # "slowloris" =>
           \A outcome \in Outcomes : Shown(outcome) => printed[outcome] = stats[outcome]
    /\ tool = "ddos" => main # "blocked"

\* What a total misses: all that came after it was printed, or, before, what
\* goroutines have not counted.  Each of them adds one write at most.
Missed(outcome) ==
    IF Shown(outcome) THEN made[outcome] - printed[outcome] ELSE WritersAt(outcome)
OneWriteEach ==
    /\ Started = WritersAt("poll") + WritersAt("write") + WritersAt("ended")
                 + WritersAt("success") + WritersAt("failed") + WritersAt("blocked")
    /\ main # "wait" =>
           Missed("success") + Missed("failed") + Missed("blocked") + WritersAt("write")
               <= Started

\* What the reporter has loaded was counted.
Loaded == \A outcome \in Outcomes : current[outcome] <= stats[outcome]

IndInv ==
    /\ TypeOK
    /\ Counted /\ OfTool /\ WritesLeft /\ Waited
    /\ ShownNow /\ OneWriteEach
    /\ Loaded /\ DifferencesAddUp
-----------------------------------------------------------------------------
(* How the numbers of clients and goroutines at a place change. *)

Change(from, to, pc) == (IF to = pc THEN 1 ELSE 0) - (IF from = pc THEN 1 ELSE 0)

\* Only one changes its place.
Moves(all, x, before, after) == \A y \in all : y # x => after[y] = before[y]

LEMMA OneMoves ==
    ASSUME NEW S, IsFiniteSet(S), NEW f, NEW g, NEW x \in S, Moves(S, x, f, g), NEW pc
    PROVE  /\ Cardinality(At(S, f, pc)) \in Nat
           /\ Cardinality(At(S, g, pc)) \in Nat
           /\ Cardinality(At(S, g, pc)) = Cardinality(At(S, f, pc)) + Change(f[x], g[x], pc)
<1>1. At(S, f, pc) \in SUBSET S /\ At(S, g, pc) \in SUBSET S
    BY DEF At
<1>2. /\ IsFiniteSet(At(S, f, pc))
      /\ Cardinality(At(S, f, pc)) \in Nat /\ Cardinality(At(S, g, pc)) \in Nat
    BY <1>1, FS_Subset, FS_CardinalityType
<1>3. x \in At(S, f, pc) <=> f[x] = pc
    BY DEF At
<1>4. CASE g[x] = pc
    <2>1. At(S, g, pc) = At(S, f, pc) \cup {x}
        BY <1>4 DEF At, Moves
    <2>2. Cardinality(At(S, g, pc)) = IF x \in At(S, f, pc) THEN Cardinality(At(S, f, pc))
                                      ELSE Cardinality(At(S, f, pc)) + 1
        BY <2>1, <1>2, FS_AddElement
    <2> QED BY <2>2, <1>2, <1>3, <1>4 DEF Change
<1>5. CASE g[x] # pc
    <2>1. At(S, g, pc) = At(S, f, pc) \ {x}
        BY <1>5 DEF At, Moves
    <2>2. Cardinality(At(S, g, pc)) = IF x \in At(S, f, pc) THEN Cardinality(At(S, f, pc)) - 1
                                      ELSE Cardinality(At(S, f, pc))
        BY <2>1, <1>2, FS_RemoveElement
    <2> QED BY <2>2, <1>2, <1>3, <1>5 DEF Change
<1> QED BY <1>4, <1>5

LEMMA ClientMoves ==
    ASSUME TypeOK, NEW c \in Clients, NEW to \in ClientStates,
           client' = [client EXCEPT ![c] = to], NEW pc
    PROVE  /\ ClientsAt(pc) \in Nat /\ ClientsAt(pc)' \in Nat
           /\ ClientsAt(pc)' = ClientsAt(pc) + Change(client[c], to, pc)
<1>1. client \in [Clients -> ClientStates]
    BY DEF TypeOK, ClientStates
<1>2. IsFiniteSet(Clients)
    BY LoadAssumption
<1>3. /\ Cardinality(At(Clients, client, pc)) \in Nat
      /\ Cardinality(At(Clients, client', pc)) \in Nat
      /\ Cardinality(At(Clients, client', pc))
             = Cardinality(At(Clients, client, pc)) + Change(client[c], to, pc)
    <2>1. c \in Clients /\ Moves(Clients, c, client, client') /\ client'[c] = to
        BY <1>1 DEF Moves
    <2>2. /\ Cardinality(At(Clients, client, pc)) \in Nat
          /\ Cardinality(At(Clients, client', pc)) \in Nat
          /\ Cardinality(At(Clients, client', pc))
                 = Cardinality(At(Clients, client, pc)) + Change(client[c], client'[c], pc)
        BY ONLY <1>2, <2>1, OneMoves
    <2> QED BY <2>1, <2>2
<1> QED BY <1>3 DEF ClientsAt

LEMMA WriterMoves ==
    ASSUME TypeOK, NEW w \in Writers, NEW to \in WriterStates,
           writer' = [writer EXCEPT ![w] = to], NEW pc
    PROVE  /\ WritersAt(pc) \in Nat /\ WritersAt(pc)' \in Nat
           /\ WritersAt(pc)' = WritersAt(pc) + Change(writer[w], to, pc)
<1>1. writer \in [Writers -> WriterStates]
    BY DEF TypeOK, WriterStates
<1>2. IsFiniteSet(Writers)
    BY LoadAssumption
<1>3. /\ Cardinality(At(Writers, writer, pc)) \in Nat
      /\ Cardinality(At(Writers, writer', pc)) \in Nat
      /\ Cardinality(At(Writers, writer', pc))
             = Cardinality(At(Writers, writer, pc)) + Change(writer[w], to, pc)
    <2>1. w \in Writers /\ Moves(Writers, w, writer, writer') /\ writer'[w] = to
        BY <1>1 DEF Moves
    <2>2. /\ Cardinality(At(Writers, writer, pc)) \in Nat
          /\ Cardinality(At(Writers, writer', pc)) \in Nat
          /\ Cardinality(At(Writers, writer', pc))
                 = Cardinality(At(Writers, writer, pc)) + Change(writer[w], writer'[w], pc)
        BY ONLY <1>2, <2>1, OneMoves
    <2> QED BY <2>1, <2>2
<1> QED BY <1>3 DEF WritersAt

LEMMA StartedMoves ==
    ASSUME TypeOK, NEW w \in Writers, NEW to \in WriterStates, to # "none",
           writer' = [writer EXCEPT ![w] = to]
    PROVE  /\ Started \in Nat /\ Started' \in Nat
           /\ Started' = Started + (IF writer[w] = "none" THEN 1 ELSE 0)
<1> DEFINE A == {v \in Writers : writer[v] # "none"}
           B == {v \in Writers : writer'[v] # "none"}
<1>1. writer \in [Writers -> WriterStates]
    BY DEF TypeOK, WriterStates
<1>2. A \in SUBSET Writers /\ B = A \cup {w}
    BY <1>1
<1>3. IsFiniteSet(A) /\ Cardinality(A) \in Nat
    BY <1>2, LoadAssumption, FS_Subset, FS_CardinalityType
<1>4. Cardinality(B) = IF w \in A THEN Cardinality(A) ELSE Cardinality(A) + 1
    BY <1>2, <1>3, FS_AddElement
<1> QED BY <1>3, <1>4 DEF Started

LEMMA Numbers ==
    /\ \A pc : ClientsAt(pc) \in Nat /\ WritersAt(pc) \in Nat
    /\ Started \in Nat
<1>1. \A pc : At(Clients, client, pc) \in SUBSET Clients
    BY DEF At
<1>2. \A pc : At(Writers, writer, pc) \in SUBSET Writers
    BY DEF At
<1>3. {w \in Writers : writer[w] # "none"} \in SUBSET Writers
    OBVIOUS
<1> QED BY <1>1, <1>2, <1>3, LoadAssumption, FS_Subset, FS_CardinalityType
           DEF ClientsAt, WritersAt, Started

\* Nobody at a place: none of them, if all are elsewhere.
LEMMA NoneThere ==
    ASSUME NEW pc
    PROVE  /\ (\A c \in Clients : client[c] # pc) => ClientsAt(pc) = 0
           /\ (\A w \in Writers : writer[w] # pc) => WritersAt(pc) = 0
<1>1. (\A c \in Clients : client[c] # pc) => At(Clients, client, pc) = {}
    BY DEF At
<1>2. (\A w \in Writers : writer[w] # pc) => At(Writers, writer, pc) = {}
    BY DEF At
<1> QED BY <1>1, <1>2, FS_EmptySet DEF ClientsAt, WritersAt

\* Who stays where they are is as many as before.
LEMMA SameClients ==
    ASSUME UNCHANGED client PROVE \A pc : ClientsAt(pc)' = ClientsAt(pc)
BY DEF ClientsAt, At

LEMMA SameWriters ==
    ASSUME UNCHANGED writer
    PROVE  Started' = Started /\ \A pc : WritersAt(pc)' = WritersAt(pc)
BY DEF WritersAt, Started, At

-----------------------------------------------------------------------------
(* The steps of each process keep the invariant. *)

\* While main waits nothing has been shown.
LEMMA NothingShown ==
    ASSUME main = "wait", UNCHANGED <<main, tool>> PROVE ShownNow'
BY DEF ShownNow, Shown, Outcomes

LEMMA EndsType == ASSUME TypeOK PROVE Ends[tool] \subseteq Outcomes
<1>1. \/ tool = "ddos" \/ tool = "invalid_pow" \/ tool = "failed_attempts"
      \/ tool = "connection_limit" \/ tool = "slowloris"
    BY DEF TypeOK, Tools
<1>2. /\ Ends["ddos"] = {"success", "failed"}
      /\ Ends["invalid_pow"] = Outcomes
      /\ Ends["failed_attempts"] = Outcomes
      /\ Ends["connection_limit"] = {"success", "blocked"}
      /\ Ends["slowloris"] = {"blocked"}
    BY DEF Ends
<1> QED BY <1>1, <1>2 DEF Outcomes

\* A client moves while main waits, and leaves the reporter alone.
LEMMA ClientMove ==
    ASSUME IndInv, NEW c \in Clients, NEW to \in ClientStates, client[c] # "returned",
           client' = [client EXCEPT ![c] = to],
           UNCHANGED <<tool, over, reporterVars, mainVars>>
    PROVE  /\ main = "wait" /\ main' = "wait"
           /\ ShownNow'
           /\ client \in [Clients -> ClientStates] /\ client' \in [Clients -> ClientStates]
           /\ \A pc : /\ ClientsAt(pc) \in Nat /\ WritersAt(pc) \in Nat
                      /\ ClientsAt(pc)' = ClientsAt(pc) + Change(client[c], to, pc)
<1>1. main = "wait" /\ main' = "wait"
    BY DEF IndInv, Waited, mainVars
<1>2. ShownNow'
    BY <1>1, NothingShown
<1>3. client \in [Clients -> ClientStates] /\ client' \in [Clients -> ClientStates]
    BY DEF IndInv, TypeOK, ClientStates
<1>4. \A pc : /\ ClientsAt(pc) \in Nat
              /\ ClientsAt(pc)' = ClientsAt(pc) + Change(client[c], to, pc)
    BY ClientMoves DEF IndInv
<1> QED BY <1>1, <1>2, <1>3, <1>4, Numbers

LEMMA PollInv ==
    ASSUME IndInv, NEW c \in Clients, Poll(c),
           UNCHANGED <<tool, over, reporterVars, mainVars>>
    PROVE  IndInv'
<1> USE DEF IndInv
<1>1. PICK to \in {"poll", "request", "returned"} :
          /\ client' = [client EXCEPT ![c] = to]
          /\ to = "returned" => over /\ held'[c] = 0
          /\ \A d \in Clients : d # c => held'[d] = held[d]
          /\ held' \in [Clients -> Nat]
          /\ client[c] = "poll"
          /\ UNCHANGED <<writerVars, counters, made>>
    <2>1. held \in [Clients -> Nat]
        BY DEF TypeOK
    <2>2. CASE over
        <3>1. /\ client' = [client EXCEPT ![c] = "returned"]
              /\ held' = [held EXCEPT ![c] = 0]
            BY <2>2 DEF Poll
        <3>2. held' \in [Clients -> Nat] /\ held'[c] = 0
            BY <2>1, <3>1
        <3>3. \A d \in Clients : d # c => held'[d] = held[d]
            BY <2>1, <3>1
        <3> QED BY <2>2, <3>1, <3>2, <3>3 DEF Poll
    <2>3. CASE ~over
        BY <2>1, <2>3 DEF Poll
    <2> QED BY <2>2, <2>3 DEF TypeOK
<1>2. to \in ClientStates
    BY DEF ClientStates
<1>3. /\ main = "wait" /\ main' = "wait" /\ ShownNow'
      /\ client \in [Clients -> ClientStates] /\ client' \in [Clients -> ClientStates]
      /\ \A pc : /\ ClientsAt(pc) \in Nat /\ WritersAt(pc) \in Nat
                 /\ ClientsAt(pc)' = ClientsAt(pc) + Change(client[c], to, pc)
    BY <1>1, <1>2, ClientMove
<1>4. TypeOK'
    BY <1>1, <1>3 DEF TypeOK, ClientStates, Counters, writerVars, counters, reporterVars,
                      mainVars
<1>5. \A pc : WritersAt(pc)' = WritersAt(pc) /\ Started' = Started
    BY <1>1, SameWriters DEF writerVars
<1>6. \A pc \in Outcomes \cup {"latency"} : ClientsAt(pc)' = ClientsAt(pc)
    BY <1>1, <1>3 DEF Change, Outcomes
<1>7. Counted'
    BY <1>1, <1>5, <1>6 DEF Counted, counters
<1>8. OfTool' /\ WritesLeft'
    BY <1>1, <1>6 DEF OfTool, WritesLeft, counters, writerVars, mainVars
<1>9. Waited'
    BY <1>1, <1>3 DEF Waited
<1>10. OneWriteEach'
    BY <1>3, <1>5 DEF OneWriteEach
<1>11. Loaded' /\ DifferencesAddUp'
    BY <1>1 DEF Loaded, DifferencesAddUp, counters, reporterVars
<1> QED BY <1>3, <1>4, <1>7, <1>8, <1>9, <1>10, <1>11

LEMMA RequestInv ==
    ASSUME IndInv, NEW c \in Clients, Request(c),
           UNCHANGED <<tool, over, reporterVars, mainVars>>
    PROVE  IndInv'
<1> USE DEF IndInv
<1>1. PICK to \in Ends[tool] :
          /\ client' = [client EXCEPT ![c] = to]
          /\ made' = [made EXCEPT ![to] = @ + 1]
          /\ held' = [held EXCEPT ![c] = @ + Kept(to)]
    BY DEF Request
<1>2. client[c] = "request" /\ UNCHANGED <<writerVars, counters>>
    BY DEF Request
<1>3. to \in Outcomes /\ to \in ClientStates /\ to \notin {"request", "latency"}
    BY EndsType DEF ClientStates, Outcomes
<1>4. /\ main = "wait" /\ main' = "wait" /\ ShownNow'
      /\ client \in [Clients -> ClientStates] /\ client' \in [Clients -> ClientStates]
      /\ \A pc : /\ ClientsAt(pc) \in Nat /\ WritersAt(pc) \in Nat
                 /\ ClientsAt(pc)' = ClientsAt(pc) + Change(client[c], to, pc)
    BY <1>1, <1>2, <1>3, ClientMove
<1>5. made \in [Outcomes -> Nat] /\ made' \in [Outcomes -> Nat]
    BY <1>1, <1>3 DEF TypeOK
<1>6. \A outcome \in Outcomes :
          made'[outcome] = made[outcome] + (IF outcome = to THEN 1 ELSE 0)
    BY <1>1, <1>5
<1>7. /\ held' \in [Clients -> Nat]
      /\ \A d \in Clients : d # c => held'[d] = held[d]
    <2>1. held \in [Clients -> Nat] /\ Kept(to) \in Nat
        BY DEF TypeOK, Kept
    <2> QED BY <1>1, <2>1
<1>8. TypeOK'
    BY <1>2, <1>4, <1>5, <1>7 DEF TypeOK, ClientStates, Counters, writerVars, counters,
                                  reporterVars, mainVars
<1>9. \A pc : WritersAt(pc)' = WritersAt(pc) /\ Started' = Started
    BY <1>2, SameWriters DEF writerVars
<1>10. \A outcome \in Outcomes :
           ClientsAt(outcome)' = ClientsAt(outcome) + (IF outcome = to THEN 1 ELSE 0)
    BY <1>2, <1>3, <1>4 DEF Change, Outcomes
<1>11. Counted'
    <2>1. stats' = stats /\ stats \in [Outcomes -> Nat]
        BY <1>2 DEF counters, TypeOK
    <2>2. SUFFICES ASSUME NEW outcome \in Outcomes
                   PROVE  made'[outcome] = stats[outcome] + ClientsAt(outcome)'
                                           + WritersAt(outcome)
        BY <1>9, <2>1 DEF Counted
    <2>3. made[outcome] = stats[outcome] + ClientsAt(outcome) + WritersAt(outcome)
        BY DEF Counted
    <2> QED BY <1>4, <1>5, <1>6, <1>10, <2>1, <2>3
<1>12. OfTool' /\ WritesLeft'
    <2>1. ClientsAt("latency")' = ClientsAt("latency")
        BY <1>2, <1>3, <1>4 DEF Change
    <2>2. tool = "ddos" => to # "blocked"
        BY DEF Ends
    <2>3. tool = "ddos" => made'["blocked"] = 0
        BY <1>6, <2>2 DEF Outcomes, OfTool
    <2> QED BY <1>2, <2>1, <2>3 DEF OfTool, WritesLeft, counters, writerVars, mainVars
<1>13. Waited'
    BY <1>1, <1>2, <1>3, <1>4, <1>7 DEF Waited, Outcomes
<1>14. OneWriteEach'
    BY <1>4, <1>9 DEF OneWriteEach
<1>15. Loaded' /\ DifferencesAddUp'
    BY <1>2 DEF Loaded, DifferencesAddUp, counters, reporterVars
<1> QED BY <1>4, <1>8, <1>11, <1>12, <1>13, <1>14, <1>15

LEMMA StartWriterInv ==
    ASSUME IndInv, NEW c \in Clients, StartWriter(c),
           UNCHANGED <<tool, over, reporterVars, mainVars>>
    PROVE  IndInv'
<1> USE DEF IndInv
<1>1. PICK w \in Writers : writer[w] = "none" /\ writer' = [writer EXCEPT ![w] = "poll"]
    BY DEF StartWriter
<1>2. /\ tool = "slowloris" /\ client[c] = "request"
      /\ client' = [client EXCEPT ![c] = "poll"]
      /\ UNCHANGED <<held, writes, counters, made>>
    BY DEF StartWriter
<1>3. "poll" \in ClientStates /\ "poll" \in WriterStates
    BY DEF ClientStates, WriterStates
<1>4. /\ main = "wait" /\ main' = "wait" /\ ShownNow'
      /\ client \in [Clients -> ClientStates] /\ client' \in [Clients -> ClientStates]
      /\ \A pc : /\ ClientsAt(pc) \in Nat /\ WritersAt(pc) \in Nat
                 /\ ClientsAt(pc)' = ClientsAt(pc) + Change(client[c], "poll", pc)
    BY <1>2, <1>3, ClientMove
<1>5. writer \in [Writers -> WriterStates] /\ writer' \in [Writers -> WriterStates]
    BY <1>1, <1>3 DEF TypeOK, WriterStates
<1>6. \A pc : WritersAt(pc)' = WritersAt(pc) + Change(writer[w], "poll", pc)
    BY <1>1, <1>3, WriterMoves
<1>7. Started \in Nat /\ Started' = Started + 1
    BY <1>1, <1>3, StartedMoves
<1>8. TypeOK'
    BY <1>2, <1>4, <1>5 DEF TypeOK, ClientStates, WriterStates, Counters, counters,
                            reporterVars, mainVars
<1>9. \A outcome \in Outcomes :
          ClientsAt(outcome)' = ClientsAt(outcome) /\ WritersAt(outcome)' = WritersAt(outcome)
    BY <1>1, <1>2, <1>4, <1>6 DEF Change, Outcomes
<1>10. Counted'
    BY <1>2, <1>9 DEF Counted, counters
<1>11. OfTool' /\ WritesLeft'
    BY <1>1, <1>2, <1>5 DEF OfTool, WritesLeft, Outcomes
<1>12. Waited'
    BY <1>2, <1>4 DEF Waited
<1>13. OneWriteEach'
    <2>1. /\ WritersAt("poll")' = WritersAt("poll") + 1
          /\ WritersAt("write")' = WritersAt("write") /\ WritersAt("ended")' = WritersAt("ended")
        BY <1>1, <1>4, <1>6 DEF Change
    <2> QED BY <1>4, <1>7, <1>9, <2>1 DEF OneWriteEach, Outcomes
<1>14. Loaded' /\ DifferencesAddUp'
    BY <1>2 DEF Loaded, DifferencesAddUp, counters, reporterVars
<1> QED BY <1>4, <1>8, <1>10, <1>11, <1>12, <1>13, <1>14

LEMMA CountInv ==
    ASSUME IndInv, NEW c \in Clients, Count(c),
           UNCHANGED <<tool, over, reporterVars, mainVars>>
    PROVE  IndInv'
<1> USE DEF IndInv
<1> DEFINE from == client[c]
           to == IF tool = "ddos" /\ client[c] = "success" THEN "latency" ELSE "poll"
<1>1. /\ from \in Outcomes /\ to \in {"latency", "poll"}
      /\ client' = [client EXCEPT ![c] = to]
      /\ stats' = [stats EXCEPT ![from] = @ + 1]
      /\ UNCHANGED <<held, writerVars, latencies, made>>
    BY DEF Count
<1>2. to \in ClientStates /\ from \notin {"returned", "latency"} /\ to \notin Outcomes
    BY <1>1 DEF ClientStates, Outcomes
<1>3. /\ main = "wait" /\ main' = "wait" /\ ShownNow'
      /\ client \in [Clients -> ClientStates] /\ client' \in [Clients -> ClientStates]
      /\ \A pc : /\ ClientsAt(pc) \in Nat /\ WritersAt(pc) \in Nat
                 /\ ClientsAt(pc)' = ClientsAt(pc) + Change(from, to, pc)
    BY <1>1, <1>2, ClientMove
<1>4. stats \in [Outcomes -> Nat] /\ stats' \in [Outcomes -> Nat]
    BY <1>1 DEF TypeOK
<1>5. \A outcome \in Outcomes :
          stats'[outcome] = stats[outcome] + (IF outcome = from THEN 1 ELSE 0)
    BY <1>1, <1>4
<1>6. TypeOK'
    BY <1>1, <1>3, <1>4 DEF TypeOK, ClientStates, Counters, writerVars, reporterVars, mainVars
<1>7. \A pc : WritersAt(pc)' = WritersAt(pc) /\ Started' = Started
    BY <1>1, SameWriters DEF writerVars
<1>8. \A outcome \in Outcomes :
          ClientsAt(outcome)' = ClientsAt(outcome) - (IF outcome = from THEN 1 ELSE 0)
    BY <1>1, <1>2, <1>3 DEF Change
<1>9. Counted'
    <2>1. SUFFICES ASSUME NEW outcome \in Outcomes
                   PROVE  made[outcome] = stats'[outcome] + ClientsAt(outcome)'
                                          + WritersAt(outcome)
        BY <1>1, <1>7 DEF Counted
    <2>2. made[outcome] = stats[outcome] + ClientsAt(outcome) + WritersAt(outcome)
        BY DEF Counted
    <2> QED BY <1>3, <1>4, <1>5, <1>8, <2>2
<1>10. OfTool' /\ WritesLeft'
    <2>1. "success" \in Outcomes /\ stats["success"] \in Nat /\ latencies \in Nat
        BY <1>4 DEF Outcomes, TypeOK
    <2>2. tool = "ddos" => ClientsAt("latency")'
                               = ClientsAt("latency") + (IF from = "success" THEN 1 ELSE 0)
        BY <1>2, <1>3 DEF Change
    <2>3. tool = "ddos" => stats'["success"] = latencies' + ClientsAt("latency")'
        BY <1>1, <1>3, <1>5, <2>1, <2>2 DEF OfTool
    <2> QED BY <1>1, <2>3 DEF OfTool, WritesLeft, writerVars, mainVars
<1>11. Waited'
    BY <1>1, <1>3 DEF Waited
<1>12. OneWriteEach'
    BY <1>3, <1>7 DEF OneWriteEach
<1>13. \A outcome \in Outcomes : stats[outcome] <= stats'[outcome]
    BY <1>4, <1>5
<1>14. Loaded' /\ DifferencesAddUp'
    BY <1>4, <1>13 DEF Loaded, DifferencesAddUp, reporterVars, TypeOK
<1> QED BY <1>3, <1>6, <1>9, <1>10, <1>11, <1>12, <1>14

LEMMA AddLatencyInv ==
    ASSUME IndInv, NEW c \in Clients, AddLatency(c),
           UNCHANGED <<tool, over, reporterVars, mainVars>>
    PROVE  IndInv'
<1> USE DEF IndInv
<1>1. /\ client[c] = "latency" /\ client' = [client EXCEPT ![c] = "poll"]
      /\ latencies' = latencies + 1
      /\ UNCHANGED <<held, writerVars, stats, made>>
    BY DEF AddLatency
<1>2. "poll" \in ClientStates
    BY DEF ClientStates
<1>3. /\ main = "wait" /\ main' = "wait" /\ ShownNow'
      /\ client \in [Clients -> ClientStates] /\ client' \in [Clients -> ClientStates]
      /\ \A pc : /\ ClientsAt(pc) \in Nat /\ WritersAt(pc) \in Nat
                 /\ ClientsAt(pc)' = ClientsAt(pc) + Change(client[c], "poll", pc)
    BY <1>1, <1>2, ClientMove
<1>4. latencies \in Nat /\ latencies' \in Nat
    BY <1>1 DEF TypeOK
<1>5. TypeOK'
    BY <1>1, <1>3, <1>4 DEF TypeOK, ClientStates, Counters, writerVars, reporterVars, mainVars
<1>6. \A pc : WritersAt(pc)' = WritersAt(pc) /\ Started' = Started
    BY <1>1, SameWriters DEF writerVars
<1>7. \A outcome \in Outcomes : ClientsAt(outcome)' = ClientsAt(outcome)
    BY <1>1, <1>3 DEF Change, Outcomes
<1>8. Counted'
    BY <1>1, <1>6, <1>7 DEF Counted
<1>9. OfTool' /\ WritesLeft'
    <2>1. ClientsAt("latency")' = ClientsAt("latency") - 1
        BY <1>1, <1>3 DEF Change
    <2>2. tool = "ddos" => stats'["success"] = latencies' + ClientsAt("latency")'
        BY <1>1, <1>3, <1>4, <2>1 DEF OfTool
    <2> QED BY <1>1, <2>2 DEF OfTool, WritesLeft, writerVars, mainVars
<1>10. Waited'
    BY <1>1, <1>3 DEF Waited
<1>11. OneWriteEach'
    BY <1>3, <1>6 DEF OneWriteEach
<1>12. Loaded' /\ DifferencesAddUp'
    BY <1>1 DEF Loaded, DifferencesAddUp, reporterVars
<1> QED BY <1>3, <1>5, <1>8, <1>9, <1>10, <1>11, <1>12

LEMMA ClientInv == ASSUME IndInv, NEW c \in Clients, ClientStep(c) PROVE IndInv'
BY PollInv, RequestInv, StartWriterInv, CountInv, AddLatencyInv DEF ClientStep

\* A goroutine of slowloris moves.
LEMMA WriterMove ==
    ASSUME IndInv, NEW w \in Writers, NEW to \in WriterStates,
           writer[w] # "none", to # "none", writer' = [writer EXCEPT ![w] = to],
           UNCHANGED <<tool, over, clientVars, latencies, reporterVars, mainVars>>
    PROVE  /\ Clients # {} /\ OfTool' /\ ShownNow' /\ Waited'
           /\ writer \in [Writers -> WriterStates] /\ writer' \in [Writers -> WriterStates]
           /\ Started \in Nat /\ Started' = Started
           /\ \A pc : /\ ClientsAt(pc) \in Nat /\ ClientsAt(pc)' = ClientsAt(pc)
                      /\ WritersAt(pc) \in Nat
                      /\ WritersAt(pc)' = WritersAt(pc) + Change(writer[w], to, pc)
<1>1. tool = "slowloris" /\ Clients # {}
    BY DEF IndInv, OfTool
<1>2. OfTool' /\ ShownNow'
    BY <1>1 DEF OfTool, ShownNow
<1>3. Waited'
    BY DEF IndInv, Waited, clientVars, mainVars
<1>4. writer \in [Writers -> WriterStates] /\ writer' \in [Writers -> WriterStates]
    BY DEF IndInv, TypeOK, WriterStates
<1>5. Started \in Nat /\ Started' = Started
    <2>1. TypeOK
        BY DEF IndInv
    <2>2. Started \in Nat /\ Started' = Started + (IF writer[w] = "none" THEN 1 ELSE 0)
        BY <2>1, StartedMoves
    <2> QED BY <2>2
<1>6. \A pc : /\ WritersAt(pc) \in Nat
              /\ WritersAt(pc)' = WritersAt(pc) + Change(writer[w], to, pc)
    BY WriterMoves DEF IndInv
<1>7. \A pc : ClientsAt(pc)' = ClientsAt(pc)
    BY SameClients DEF clientVars
<1> QED BY <1>1, <1>2, <1>3, <1>4, <1>5, <1>6, <1>7, Numbers

LEMMA WriterPollInv ==
    ASSUME IndInv, NEW w \in Writers, WriterPoll(w),
           UNCHANGED <<tool, over, clientVars, latencies, reporterVars, mainVars>>
    PROVE  IndInv'
<1> USE DEF IndInv
<1>1. PICK to \in {"ended", "write"} :
          /\ writer' = [writer EXCEPT ![w] = to]
          /\ to = "write" => ~over /\ writes[w] # MaxWrites
    BY DEF WriterPoll
<1>2. writer[w] = "poll" /\ UNCHANGED <<writes, stats, made>>
    BY DEF WriterPoll
<1>3. to \in WriterStates /\ to # "none"
    BY DEF WriterStates
<1>4. /\ Clients # {} /\ OfTool' /\ ShownNow' /\ Waited'
      /\ writer \in [Writers -> WriterStates] /\ writer' \in [Writers -> WriterStates]
      /\ Started \in Nat /\ Started' = Started
      /\ \A pc : /\ ClientsAt(pc) \in Nat /\ ClientsAt(pc)' = ClientsAt(pc)
                 /\ WritersAt(pc) \in Nat
                 /\ WritersAt(pc)' = WritersAt(pc) + Change(writer[w], to, pc)
    BY <1>1, <1>2, <1>3, WriterMove
<1>5. TypeOK'
    BY <1>2, <1>4 DEF TypeOK, WriterStates, Counters, clientVars, reporterVars, mainVars
<1>6. \A outcome \in Outcomes : WritersAt(outcome)' = WritersAt(outcome)
    BY <1>2, <1>4 DEF Change, Outcomes
<1>7. Counted'
    BY <1>2, <1>4, <1>6 DEF Counted
<1>8. WritesLeft'
    <2>1. writes[w] \in 0 .. MaxWrites /\ MaxWrites \in Nat
        BY LoadAssumption DEF TypeOK
    <2>2. writer'[w] = to /\ \A v \in Writers : v # w => writer'[v] = writer[v]
        BY <1>1, <1>4
    <2> QED BY <1>1, <1>2, <2>1, <2>2 DEF WritesLeft, Outcomes
<1>9. OneWriteEach'
    <2>1. main # "wait" => to = "ended"
        BY <1>1, <1>4 DEF Waited
    <2>2. /\ WritersAt("poll")' = WritersAt("poll") - 1
          /\ to = "ended" => /\ WritersAt("ended")' = WritersAt("ended") + 1
                             /\ WritersAt("write")' = WritersAt("write")
          /\ to = "write" => /\ WritersAt("ended")' = WritersAt("ended")
                             /\ WritersAt("write")' = WritersAt("write") + 1
        BY <1>2, <1>4 DEF Change
    <2>3. \A outcome \in Outcomes : Missed(outcome)' = Missed(outcome)
        BY <1>2, <1>6 DEF Missed, Shown, mainVars
    <2>4. CASE to = "ended"
        BY <1>4, <1>6, <2>2, <2>3, <2>4 DEF OneWriteEach, Outcomes, mainVars
    <2>5. CASE to = "write"
        BY <1>4, <1>6, <2>1, <2>2, <2>5 DEF OneWriteEach, Outcomes, mainVars
    <2> QED BY <2>4, <2>5
<1>10. Loaded' /\ DifferencesAddUp'
    BY <1>2 DEF Loaded, DifferencesAddUp, reporterVars
<1> QED BY <1>4, <1>5, <1>7, <1>8, <1>9, <1>10

LEMMA WriteByteInv ==
    ASSUME IndInv, NEW w \in Writers, WriteByte(w),
           UNCHANGED <<tool, over, clientVars, latencies, reporterVars, mainVars>>
    PROVE  IndInv'
<1> USE DEF IndInv
<1>1. PICK to \in {"success", "failed"} :
          /\ writer' = [writer EXCEPT ![w] = to]
          /\ made' = [made EXCEPT ![to] = @ + 1]
    BY DEF WriteByte
<1>2. writer[w] = "write" /\ UNCHANGED <<writes, stats>>
    BY DEF WriteByte
<1>3. to \in WriterStates /\ to # "none" /\ to \in Outcomes
    BY DEF WriterStates, Outcomes
<1>4. /\ Clients # {} /\ OfTool' /\ ShownNow' /\ Waited'
      /\ writer \in [Writers -> WriterStates] /\ writer' \in [Writers -> WriterStates]
      /\ Started \in Nat /\ Started' = Started
      /\ \A pc : /\ ClientsAt(pc) \in Nat /\ ClientsAt(pc)' = ClientsAt(pc)
                 /\ WritersAt(pc) \in Nat
                 /\ WritersAt(pc)' = WritersAt(pc) + Change(writer[w], to, pc)
    BY <1>1, <1>2, <1>3, WriterMove
<1>5. made \in [Outcomes -> Nat] /\ made' \in [Outcomes -> Nat]
    BY <1>1, <1>3 DEF TypeOK
<1>6. TypeOK'
    BY <1>2, <1>4, <1>5 DEF TypeOK, WriterStates, Counters, clientVars, reporterVars, mainVars
<1>7. \A outcome \in Outcomes :
          made'[outcome] = made[outcome] + (IF outcome = to THEN 1 ELSE 0)
    BY <1>1, <1>5
<1>8. \A outcome \in Outcomes :
          WritersAt(outcome)' = WritersAt(outcome) + (IF outcome = to THEN 1 ELSE 0)
    BY <1>2, <1>3, <1>4 DEF Change, Outcomes
<1>9. Counted'
    <2>1. stats \in [Outcomes -> Nat]
        BY DEF TypeOK
    <2>2. SUFFICES ASSUME NEW outcome \in Outcomes
                   PROVE  made'[outcome] = stats[outcome] + ClientsAt(outcome)
                                           + WritersAt(outcome)'
        BY <1>2, <1>4 DEF Counted
    <2>3. made[outcome] = stats[outcome] + ClientsAt(outcome) + WritersAt(outcome)
        BY DEF Counted
    <2> QED BY <1>4, <1>5, <1>7, <1>8, <2>1, <2>3
<1>10. WritesLeft'
    <2>1. \A v \in Writers : v # w => writer'[v] = writer[v]
        BY <1>1, <1>4
    <2> QED BY <1>2, <2>1 DEF WritesLeft
<1>11. OneWriteEach'
    <2>1. /\ WritersAt("write")' = WritersAt("write") - 1
          /\ WritersAt("poll")' = WritersAt("poll") /\ WritersAt("ended")' = WritersAt("ended")
        BY <1>2, <1>4 DEF Change
    <2>2. printed \in [Outcomes -> Nat] /\ printed' = printed /\ main' = main
        BY DEF TypeOK, mainVars
    <2>3. \A outcome \in Outcomes :
              /\ Missed(outcome) \in Int
              /\ Missed(outcome)' = Missed(outcome) + (IF outcome = to THEN 1 ELSE 0)
        BY <1>4, <1>5, <1>7, <1>8, <2>2 DEF Missed, Shown
    <2> QED BY <1>4, <1>8, <2>1, <2>2, <2>3 DEF OneWriteEach, Outcomes
<1>12. Loaded' /\ DifferencesAddUp'
    BY <1>2 DEF Loaded, DifferencesAddUp, reporterVars
<1> QED BY <1>4, <1>6, <1>9, <1>10, <1>11, <1>12

LEMMA WriterCountInv ==
    ASSUME IndInv, NEW w \in Writers, WriterCount(w),
           UNCHANGED <<tool, over, clientVars, latencies, reporterVars, mainVars>>
    PROVE  IndInv'
<1> USE DEF IndInv
<1> DEFINE from == writer[w]
           to == IF writer[w] = "success" THEN "poll" ELSE "ended"
<1>1. /\ from \in Outcomes /\ to \in {"poll", "ended"}
      /\ writer' = [writer EXCEPT ![w] = to]
      /\ stats' = [stats EXCEPT ![from] = @ + 1]
      /\ writes' = [writes EXCEPT ![w] = @ + 1] \/ writes' = writes
      /\ made' = made
    BY DEF WriterCount
<1>2. /\ to \in WriterStates /\ to # "none" /\ from # "none"
      /\ from \notin {"poll", "write", "ended"} /\ to \notin Outcomes
    BY <1>1 DEF WriterStates, Outcomes
<1>3. /\ Clients # {} /\ OfTool' /\ ShownNow' /\ Waited'
      /\ writer \in [Writers -> WriterStates] /\ writer' \in [Writers -> WriterStates]
      /\ Started \in Nat /\ Started' = Started
      /\ \A pc : /\ ClientsAt(pc) \in Nat /\ ClientsAt(pc)' = ClientsAt(pc)
                 /\ WritersAt(pc) \in Nat
                 /\ WritersAt(pc)' = WritersAt(pc) + Change(from, to, pc)
    BY <1>1, <1>2, WriterMove
<1>4. stats \in [Outcomes -> Nat] /\ stats' \in [Outcomes -> Nat]
    BY <1>1 DEF TypeOK
<1>5. /\ writes' \in [Writers -> 0 .. MaxWrites]
      /\ \A v \in Writers : v # w => writes'[v] = writes[v]
    <2>1. writes \in [Writers -> 0 .. MaxWrites] /\ MaxWrites \in Nat
        BY LoadAssumption DEF TypeOK
    <2>2. writes[w] < MaxWrites
        BY <1>1 DEF WritesLeft
    <2>3. writes[w] + 1 \in 0 .. MaxWrites
        BY <2>1, <2>2
    <2> QED BY <1>1, <2>1, <2>3
<1>6. TypeOK'
    BY <1>1, <1>3, <1>4, <1>5 DEF TypeOK, WriterStates, Counters, clientVars, reporterVars,
                                  mainVars
<1>7. \A outcome \in Outcomes :
          stats'[outcome] = stats[outcome] + (IF outcome = from THEN 1 ELSE 0)
    BY <1>1, <1>4
<1>8. \A outcome \in Outcomes :
          WritersAt(outcome)' = WritersAt(outcome) - (IF outcome = from THEN 1 ELSE 0)
    BY <1>1, <1>2, <1>3 DEF Change
<1>9. Counted'
    <2>1. SUFFICES ASSUME NEW outcome \in Outcomes
                   PROVE  made[outcome] = stats'[outcome] + ClientsAt(outcome)
                                          + WritersAt(outcome)'
        BY <1>1, <1>3 DEF Counted
    <2>2. made[outcome] = stats[outcome] + ClientsAt(outcome) + WritersAt(outcome)
        BY DEF Counted
    <2> QED BY <1>3, <1>4, <1>7, <1>8, <2>2
<1>10. WritesLeft'
    <2>1. writer'[w] = to /\ \A v \in Writers : v # w => writer'[v] = writer[v]
        BY <1>1, <1>3
    <2> QED BY <1>1, <1>2, <1>5, <2>1 DEF WritesLeft
<1>11. OneWriteEach'
    <2>1. /\ WritersAt("write")' = WritersAt("write")
          /\ to = "poll" => /\ WritersAt("poll")' = WritersAt("poll") + 1
                            /\ WritersAt("ended")' = WritersAt("ended")
          /\ to = "ended" => /\ WritersAt("poll")' = WritersAt("poll")
                             /\ WritersAt("ended")' = WritersAt("ended") + 1
        BY <1>1, <1>2, <1>3 DEF Change
    <2>2. /\ printed \in [Outcomes -> Nat] /\ made \in [Outcomes -> Nat]
          /\ printed' = printed /\ main' = main
        BY DEF TypeOK, mainVars
    <2>3. \A outcome \in Outcomes : /\ Missed(outcome) \in Int /\ Missed(outcome)' \in Int
                                    /\ Missed(outcome)' <= Missed(outcome)
        BY <1>1, <1>3, <1>8, <2>2 DEF Missed, Shown
    <2>4. Started' = WritersAt("poll")' + WritersAt("write")' + WritersAt("ended")'
                     + WritersAt("success")' + WritersAt("failed")' + WritersAt("blocked")'
        <3> HIDE DEF to, from
        <3>1. from = "success" \/ from = "failed" \/ from = "blocked"
            BY <1>1 DEF Outcomes
        <3>2. to = "poll" \/ to = "ended"
            BY <1>1
        <3> QED BY <1>3, <1>8, <2>1, <3>1, <3>2 DEF OneWriteEach, Outcomes
    <2>5. main # "wait" =>
              Missed("success")' + Missed("failed")' + Missed("blocked")' + WritersAt("write")'
                  <= Started'
        <3>1. {"success", "failed", "blocked"} = Outcomes
            BY DEF Outcomes
        <3> QED BY <1>3, <2>1, <2>3, <3>1 DEF OneWriteEach
    <2> QED BY <2>2, <2>4, <2>5 DEF OneWriteEach
<1>12. \A outcome \in Outcomes : stats[outcome] <= stats'[outcome]
    BY <1>4, <1>7
<1>13. Loaded' /\ DifferencesAddUp'
    BY <1>4, <1>12 DEF Loaded, DifferencesAddUp, reporterVars, TypeOK
<1> QED BY <1>3, <1>6, <1>9, <1>10, <1>11, <1>13

LEMMA WriterInv == ASSUME IndInv, NEW w \in Writers, WriterStep(w) PROVE IndInv'
BY WriterPollInv, WriteByteInv, WriterCountInv DEF WriterStep, counters

LEMMA CountersLength ==
    ASSUME TypeOK
    PROVE  /\ tool = "ddos" => Len(Counters) = 2 /\ Counters = <<"success", "failed">>
           /\ tool # "ddos" => /\ Len(Counters) = 3
                              /\ Counters = <<"success", "failed", "blocked">>
BY DEF Counters

LEMMA ReporterInv == ASSUME IndInv, ReporterStep PROVE IndInv'
<1> USE DEF IndInv
<1>1. /\ UNCHANGED <<tool, over, client, held, writer, writes, stats, latencies, main,
                     printed, made>>
      /\ Counters' = Counters
    BY DEF ReporterStep, clientVars, writerVars, counters, mainVars, Counters
<1>2. /\ current \in [Outcomes -> Nat] /\ last \in [Outcomes -> Nat]
      /\ reported \in [Outcomes -> Nat] /\ stats \in [Outcomes -> Nat]
      /\ reporter \in -1 .. Len(Counters) /\ Len(Counters) \in {2, 3}
    BY CountersLength DEF TypeOK
<1>3. Counted' /\ OfTool' /\ WritesLeft' /\ Waited' /\ ShownNow' /\ OneWriteEach'
    <2>1. /\ \A pc : ClientsAt(pc)' = ClientsAt(pc) /\ WritersAt(pc)' = WritersAt(pc)
          /\ Started' = Started
        BY <1>1, SameClients, SameWriters
    <2>2. \A outcome : Shown(outcome)' = Shown(outcome)
        BY <1>1 DEF Shown
    <2>3. \A outcome : Missed(outcome)' = Missed(outcome)
        BY <1>1, <2>1, <2>2 DEF Missed
    <2>4. Counted' /\ OfTool' /\ WritesLeft' /\ Waited'
        BY <1>1, <2>1 DEF Counted, OfTool, WritesLeft, Waited
    <2>5. ShownNow'
        BY <1>1, <2>2 DEF ShownNow
    <2>6. OneWriteEach'
        BY <1>1, <2>1, <2>3 DEF OneWriteEach
    <2> QED BY <2>4, <2>5, <2>6
<1>4. SUFFICES /\ reporter' \in -1 .. Len(Counters)
               /\ current' \in [Outcomes -> Nat] /\ last' \in [Outcomes -> Nat]
               /\ reported' \in [Outcomes -> Nat]
               /\ Loaded' /\ DifferencesAddUp'
    <2>1. TypeOK' <=> /\ reporter' \in -1 .. Len(Counters)
                      /\ current' \in [Outcomes -> Nat] /\ last' \in [Outcomes -> Nat]
                      /\ reported' \in [Outcomes -> Nat]
        BY <1>1 DEF TypeOK
    <2> QED BY <1>3, <2>1
<1>5. CASE ReporterLoads
    <2>1. /\ reporter' = reporter + 1 /\ reporter \in 0 .. Len(Counters) - 1
          /\ UNCHANGED <<last, reported>>
        BY <1>5 DEF ReporterLoads
    <2>2. PICK outcome \in Outcomes :
              current' = [current EXCEPT ![outcome] = stats[outcome]]
        <3>1. reporter = 0 \/ reporter = 1 \/ (reporter = 2 /\ Len(Counters) = 3)
            <4>1. CASE Len(Counters) = 2
                BY <2>1, <4>1
            <4>2. CASE Len(Counters) = 3
                BY <2>1, <4>2
            <4> QED BY <1>2, <4>1, <4>2
        <3>2. Counters[reporter + 1] \in Outcomes
            BY <3>1, CountersLength DEF Outcomes
        <3> QED BY <1>5, <3>2 DEF ReporterLoads
    <2>3. current' \in [Outcomes -> Nat] /\ Loaded'
        BY <1>1, <1>2, <2>2 DEF Loaded
    <2> QED BY <1>1, <1>2, <2>1, <2>3 DEF DifferencesAddUp
<1>6. CASE ReporterPrints
    <2>1. /\ reporter' = 0 /\ last' = current /\ current' = Zero
          /\ reported' = [outcome \in Outcomes |->
                              reported[outcome] + current[outcome] - last[outcome]]
        BY <1>6 DEF ReporterPrints
    <2>2. \A outcome \in Outcomes : reported'[outcome] = current[outcome]
        BY <1>2, <2>1 DEF DifferencesAddUp
    <2>3. reported' \in [Outcomes -> Nat]
        BY <1>2, <2>1, <2>2
    <2>4. Zero \in [Outcomes -> Nat] /\ \A outcome \in Outcomes : Zero[outcome] = 0
        BY DEF Zero
    <2>5. Loaded'
        BY <1>1, <1>2, <2>1, <2>4 DEF Loaded
    <2>6. DifferencesAddUp'
        BY <1>1, <2>1, <2>2 DEF DifferencesAddUp, Loaded
    <2> QED BY <1>2, <2>1, <2>3, <2>4, <2>5, <2>6
<1>7. CASE ReporterReturns
    BY <1>1, <1>2, <1>7 DEF ReporterReturns, Loaded, DifferencesAddUp
<1> QED BY <1>5, <1>6, <1>7 DEF ReporterStep

\* main past wg.Wait: all that clients have made is counted.
LEMMA AllCounted ==
    ASSUME IndInv, \A c \in Clients : client[c] = "returned", NEW outcome \in Outcomes
    PROVE  made[outcome] = stats[outcome] + WritersAt(outcome)
<1>1. ClientsAt(outcome) = 0
    BY NoneThere DEF Outcomes
<1>2. stats[outcome] \in Nat /\ WritersAt(outcome) \in Nat
    BY Numbers DEF IndInv, TypeOK
<1> QED BY <1>1, <1>2 DEF IndInv, Counted

LEMMA AllReturnedInv ==
    ASSUME IndInv, AllReturned,
           UNCHANGED <<tool, over, clientVars, writerVars, counters, reporterVars, made>>
    PROVE  IndInv'
<1> USE DEF IndInv
<1>1. /\ \A c \in Clients : client[c] = "returned"
      /\ UNCHANGED <<tool, over, client, held, writer, writes, stats, latencies, printed,
                     reporter, current, last, made, reported>>
    BY DEF AllReturned, clientVars, writerVars, counters, reporterVars
<1>2. main' = "success"
    BY CountersLength DEF AllReturned
<1>3. TypeOK'
    BY <1>1, <1>2 DEF TypeOK, Counters, Outcomes
<1>4. /\ \A pc : ClientsAt(pc)' = ClientsAt(pc) /\ WritersAt(pc)' = WritersAt(pc)
      /\ Started' = Started
    BY <1>1, SameClients, SameWriters
<1>5. Counted' /\ OfTool' /\ WritesLeft' /\ Waited'
    BY <1>1, <1>4 DEF Counted, OfTool, WritesLeft, Waited
<1>6. \A outcome \in Outcomes : ~Shown(outcome)'
    BY <1>2 DEF Shown
<1>7. ShownNow'
    BY <1>2, <1>6 DEF ShownNow
<1>8. OneWriteEach'
    <2>1. \A outcome \in Outcomes : Missed(outcome)' = WritersAt(outcome)
        BY <1>4, <1>6 DEF Missed
    <2> QED BY <1>4, <2>1, Numbers DEF OneWriteEach, Outcomes
<1>9. Loaded' /\ DifferencesAddUp'
    BY <1>1 DEF Loaded, DifferencesAddUp
<1> QED BY <1>3, <1>5, <1>7, <1>8, <1>9

LEMMA PrintTotalInv ==
    ASSUME IndInv, PrintTotal,
           UNCHANGED <<tool, over, clientVars, writerVars, counters, reporterVars, made>>
    PROVE  IndInv'
<1> USE DEF IndInv
<1>1. UNCHANGED <<tool, over, client, held, writer, writes, stats, latencies,
                  reporter, current, last, made, reported>>
    BY DEF clientVars, writerVars, counters, reporterVars
<1>2. /\ main \in Outcomes /\ printed' = [printed EXCEPT ![main] = stats[main]]
      /\ \/ main = "success" /\ main' = "failed"
         \/ main = "failed" /\ main' = IF tool = "ddos" THEN "exited" ELSE "blocked"
         \/ main = "blocked" /\ main' = "exited" /\ tool # "ddos"
    <2>1. PICK i \in DOMAIN Counters :
              /\ main = Counters[i]
              /\ printed' = [printed EXCEPT ![main] = stats[main]]
              /\ main' = IF i = Len(Counters) THEN "exited" ELSE Counters[i + 1]
        BY DEF PrintTotal
    <2>2. CASE tool = "ddos"
        <3>1. Counters = <<"success", "failed">> /\ Len(Counters) = 2
            BY <2>2, CountersLength
        <3>2. i = 1 \/ i = 2
            BY <3>1
        <3> QED BY <2>1, <2>2, <3>1, <3>2 DEF Outcomes
    <2>3. CASE tool # "ddos"
        <3>1. Counters = <<"success", "failed", "blocked">> /\ Len(Counters) = 3
            BY <2>3, CountersLength
        <3>2. i = 1 \/ i = 2 \/ i = 3
            BY <3>1
        <3> QED BY <2>1, <2>3, <3>1, <3>2 DEF Outcomes
    <2> QED BY <2>2, <2>3
<1>3. /\ stats \in [Outcomes -> Nat] /\ printed \in [Outcomes -> Nat]
      /\ made \in [Outcomes -> Nat]
    BY DEF TypeOK
<1>4. /\ printed' \in [Outcomes -> Nat] /\ printed'[main] = stats[main]
      /\ \A outcome \in Outcomes : outcome # main => printed'[outcome] = printed[outcome]
    BY <1>2, <1>3
<1>5. TypeOK'
    BY <1>1, <1>2, <1>4 DEF TypeOK, Counters, Outcomes
<1>6. /\ \A pc : ClientsAt(pc)' = ClientsAt(pc) /\ WritersAt(pc)' = WritersAt(pc)
      /\ Started' = Started
    BY <1>1, SameClients, SameWriters
<1>7. \A c \in Clients : client[c] = "returned"
    BY <1>2 DEF Waited, Outcomes
<1>8. \A outcome \in Outcomes : made[outcome] = stats[outcome] + WritersAt(outcome)
    BY <1>7, AllCounted
<1>9. Counted' /\ WritesLeft' /\ Waited'
    BY <1>1, <1>6, <1>7 DEF Counted, WritesLeft, Waited
<1>10. OfTool'
    <2>1. tool = "ddos" => main # "blocked"
        BY DEF ShownNow
    <2>2. tool = "ddos" => printed'["blocked"] = 0
        BY <1>4, <2>1 DEF OfTool, Outcomes
    <2> QED BY <1>1, <1>6, <2>2 DEF OfTool
<1>11. tool = "ddos" => stats["blocked"] = 0
    <2>1. made["blocked"] = stats["blocked"] + WritersAt("blocked")
        BY <1>8 DEF Outcomes
    <2>2. stats["blocked"] \in Nat /\ WritersAt("blocked") \in Nat
        BY <1>3, Numbers DEF Outcomes
    <2> QED BY <2>1, <2>2 DEF OfTool
\* What is shown now was shown before; or it is the total just printed; or
\* it is of a counter that ddos does not have.
<1>12. \A outcome \in Outcomes :
           Shown(outcome)' =>
               \/ Shown(outcome) /\ outcome # main
               \/ ~Shown(outcome) /\ outcome = main
               \/ ~Shown(outcome) /\ outcome # main /\ outcome = "blocked" /\ tool = "ddos"
    BY <1>2 DEF Shown, Outcomes
<1>13. \A outcome \in Outcomes : Shown(outcome) => Shown(outcome)' /\ outcome # main
    BY <1>2 DEF Shown, Outcomes
<1>14. \A outcome \in Outcomes :
           Shown(outcome)' /\ ~Shown(outcome) => printed'[outcome] = stats[outcome]
    BY <1>4, <1>10, <1>11, <1>12, <1>1 DEF OfTool
<1>15. ShownNow'
    <2>1. ASSUME tool # "slowloris", NEW outcome \in Outcomes, Shown(outcome)'
          PROVE  printed'[outcome] = stats'[outcome]
        BY <1>1, <1>4, <1>13, <1>14, <2>1 DEF ShownNow
    <2>2. tool = "ddos" => main' # "blocked"
        BY <1>2 DEF ShownNow
    <2> QED BY <1>1, <2>1, <2>2 DEF ShownNow
<1>16. OneWriteEach'
    <2>1. \A outcome \in Outcomes : Missed(outcome)' = Missed(outcome)
        <3> SUFFICES ASSUME NEW outcome \in Outcomes PROVE Missed(outcome)' = Missed(outcome)
            OBVIOUS
        <3>1. CASE Shown(outcome)
            BY <1>1, <1>4, <1>13, <3>1 DEF Missed
        <3>2. CASE ~Shown(outcome) /\ ~Shown(outcome)'
            BY <1>6, <3>2 DEF Missed
        <3>3. CASE ~Shown(outcome) /\ Shown(outcome)'
            <4>1. printed'[outcome] = stats[outcome] /\ WritersAt(outcome) \in Nat
                BY <1>14, <3>3, Numbers
            <4>2. made[outcome] = stats[outcome] + WritersAt(outcome)
                BY <1>8
            <4> QED BY <1>1, <1>3, <3>3, <4>1, <4>2 DEF Missed
        <3> QED BY <3>1, <3>2, <3>3
    <2>2. main # "wait"
        BY <1>2 DEF Outcomes
    <2> QED BY <1>6, <2>1, <2>2 DEF OneWriteEach, Outcomes
<1>17. Loaded' /\ DifferencesAddUp'
    BY <1>1 DEF Loaded, DifferencesAddUp
<1> QED BY <1>5, <1>9, <1>10, <1>15, <1>16, <1>17

LEMMA TimeoutInv == ASSUME IndInv, Timeout PROVE IndInv'
<1> USE DEF IndInv
<1>1. /\ over' = TRUE
      /\ UNCHANGED <<tool, client, held, writer, writes, stats, latencies, main, printed,
                     reporter, current, last, made, reported>>
    BY DEF Timeout, clientVars, writerVars, counters, reporterVars, mainVars
<1>2. /\ \A pc : ClientsAt(pc)' = ClientsAt(pc) /\ WritersAt(pc)' = WritersAt(pc)
      /\ Started' = Started
    BY <1>1, SameClients, SameWriters
<1>3. \A outcome : Shown(outcome)' = Shown(outcome)
    BY <1>1 DEF Shown
<1>4. \A outcome : Missed(outcome)' = Missed(outcome)
    BY <1>1, <1>2, <1>3 DEF Missed
<1>5. TypeOK'
    BY <1>1 DEF TypeOK, Counters
<1>6. Counted' /\ OfTool' /\ WritesLeft' /\ Waited'
    BY <1>1, <1>2 DEF Counted, OfTool, WritesLeft, Waited
<1>7. ShownNow' /\ OneWriteEach'
    BY <1>1, <1>2, <1>3, <1>4 DEF ShownNow, OneWriteEach
<1>8. Loaded' /\ DifferencesAddUp'
    BY <1>1 DEF Loaded, DifferencesAddUp
<1> QED BY <1>5, <1>6, <1>7, <1>8

-----------------------------------------------------------------------------
(* The results. *)

LEMMA InitInv == ASSUME Init PROVE IndInv
<1>1. \A c \in Clients : client[c] = "poll"
    BY DEF Init
<1>2. \A w \in Writers : writer[w] = "none"
    BY DEF Init
<1>3. Zero \in [Outcomes -> Nat] /\ \A outcome \in Outcomes : Zero[outcome] = 0
    BY DEF Zero
<1>4. \A pc \in Outcomes \cup {"latency"} : ClientsAt(pc) = 0
    BY <1>1, NoneThere DEF Outcomes
<1>5. \A pc \in Outcomes \cup {"poll", "write", "ended"} : WritersAt(pc) = 0
    BY <1>2, NoneThere DEF Outcomes
<1>6. Started = 0
    <2>1. {w \in Writers : writer[w] # "none"} = {}
        BY <1>2
    <2> QED BY <2>1, FS_EmptySet DEF Started
<1>7. TypeOK
    <2>1. 0 \in 0 .. MaxWrites /\ 0 \in -1 .. Len(Counters)
        <3>1. tool = "ddos" \/ tool # "ddos"
            OBVIOUS
        <3> QED BY <3>1, LoadAssumption DEF Counters
    <2> QED BY <1>3, <2>1 DEF Init, TypeOK
<1>8. Counted
    BY <1>3, <1>4, <1>5 DEF Counted, Init
<1>9. OfTool /\ WritesLeft /\ Waited /\ ShownNow
    BY <1>1, <1>2, <1>3, <1>4 DEF OfTool, WritesLeft, Waited, ShownNow, Shown, Init, Outcomes
<1>10. OneWriteEach
    BY <1>5, <1>6 DEF OneWriteEach, Init, Outcomes
<1>11. Loaded /\ DifferencesAddUp
    BY <1>3 DEF Loaded, DifferencesAddUp, Init
<1> QED BY <1>7, <1>8, <1>9, <1>10, <1>11 DEF IndInv

LEMMA StutterInv == ASSUME IndInv, UNCHANGED vars PROVE IndInv'
<1>1. UNCHANGED <<tool, over, client, held, writer, writes, stats, latencies, main, printed,
                  reporter, current, last, made, reported>>
    BY DEF vars, clientVars, writerVars, counters, reporterVars, mainVars
<1>2. /\ \A pc : ClientsAt(pc)' = ClientsAt(pc) /\ WritersAt(pc)' = WritersAt(pc)
      /\ Started' = Started
    BY <1>1, SameClients, SameWriters
<1>3. \A outcome : Shown(outcome)' = Shown(outcome) /\ Missed(outcome)' = Missed(outcome)
    BY <1>1, <1>2 DEF Shown, Missed
<1>4. TypeOK'
    BY <1>1 DEF TypeOK, Counters, IndInv
<1>5. Counted' /\ OfTool' /\ WritesLeft' /\ Waited'
    BY <1>1, <1>2 DEF Counted, OfTool, WritesLeft, Waited, IndInv
<1>6. ShownNow' /\ OneWriteEach'
    BY <1>1, <1>2, <1>3 DEF ShownNow, OneWriteEach, IndInv
<1>7. Loaded' /\ DifferencesAddUp'
    BY <1>1 DEF Loaded, DifferencesAddUp, IndInv
<1> QED BY <1>4, <1>5, <1>6, <1>7 DEF IndInv

LEMMA Invariant == Spec => []IndInv
<1>1. Init => IndInv
    BY InitInv
<1>2. IndInv /\ [Next]_vars => IndInv'
    <2> SUFFICES ASSUME IndInv, [Next]_vars PROVE IndInv'
        OBVIOUS
    <2>1. CASE \E c \in Clients : ClientStep(c)
        BY <2>1, ClientInv
    <2>2. CASE \E w \in Writers : WriterStep(w)
        BY <2>2, WriterInv
    <2>3. CASE ReporterStep
        BY <2>3, ReporterInv
    <2>4. CASE MainStep
        BY <2>4, AllReturnedInv, PrintTotalInv DEF MainStep
    <2>5. CASE Timeout
        BY <2>5, TimeoutInv
    <2>6. CASE UNCHANGED vars
        BY <2>6, StutterInv
    <2> QED BY <2>1, <2>2, <2>3, <2>4, <2>5, <2>6 DEF Next
<1> QED BY <1>1, <1>2, PTL DEF Spec

LEMMA Complete == IndInv => FinalStatsComplete
<1> SUFFICES ASSUME IndInv, main = "exited" PROVE FinalStatsComplete
    BY DEF FinalStatsComplete
<1> USE DEF IndInv
<1>1. \A c \in Clients : client[c] = "returned" /\ held[c] = 0
    BY DEF Waited
<1>2. \A outcome \in Outcomes : made[outcome] = stats[outcome] + WritersAt(outcome)
    BY <1>1, AllCounted
<1>3. /\ stats \in [Outcomes -> Nat] /\ printed \in [Outcomes -> Nat]
      /\ made \in [Outcomes -> Nat] /\ latencies \in Nat
    BY DEF TypeOK
<1>4. tool # "slowloris" => \A outcome \in Outcomes : printed[outcome] = stats[outcome]
    BY DEF ShownNow, Shown
<1>5. tool = "ddos" => latencies = printed["success"]
    <2>1. ClientsAt("latency") = 0
        BY <1>1, NoneThere
    <2> QED BY <1>3, <1>4, <2>1 DEF OfTool, Outcomes
<1>6. tool # "slowloris" => printed = made
    <2>1. ASSUME tool # "slowloris", NEW outcome \in Outcomes
          PROVE  printed[outcome] = made[outcome]
        <3>1. WritersAt(outcome) = 0
            BY <2>1, NoneThere DEF OfTool, Outcomes
        <3> QED BY <1>2, <1>3, <1>4, <2>1, <3>1
    <2> QED BY <1>3, <2>1
<1>7. Total(made) - Total(printed) <= Started
    <2>1. \A outcome \in Outcomes : Missed(outcome) = made[outcome] - printed[outcome]
        BY DEF Missed, Shown
    <2>2. Missed("success") + Missed("failed") + Missed("blocked") + WritersAt("write")
              <= Started
        BY DEF OneWriteEach
    <2> QED BY <1>3, <2>1, <2>2, Numbers DEF Total, Outcomes
<1> QED BY <1>1, <1>5, <1>6, <1>7 DEF FinalStatsComplete, Started

\* Every variable of the load tools keeps its type, for any number of clients,
\* goroutines of slowloris and requests.
THEOREM TypeCorrect == Spec => []TypeOK
BY Invariant, PTL DEF IndInv

\* The totals that a tool prints last are complete: see FinalStatsComplete.
THEOREM FinalStatsCorrect == Spec => []FinalStatsComplete
BY Invariant, Complete, PTL

\* No request is reported in two intervals or in none: see DifferencesAddUp.
THEOREM DifferencesCorrect == Spec => []DifferencesAddUp
<1>1. IndInv => DifferencesAddUp
    BY DEF IndInv
<1> QED BY <1>1, Invariant, PTL
=============================================================================
