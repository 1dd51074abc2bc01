---------------------------- MODULE SessionTime -----------------------------
(***************************************************************************)
(* Sessions and their peers with clocks that the code does not keep: how   *)
(* many ticks a handler has waited in its reads, and a client in its own.  *)
(* Every read renews its deadline; the clocks say what that adds up to.    *)
(* They restrict nothing.                                                  *)
(***************************************************************************)
EXTENDS Exchange

VARIABLES
    reading,    \* connection -> ticks its handler has waited for its peer
    waiting     \* connection -> ticks its client has waited for the server

timeVars == <<vars, reading, waiting>>

HandlerWaits(c) == handler[c] \in Reading /\ readLeft[c] > 0
ClientWaits(c) == peer[c] \in Waiting /\ peerLeft[c] > 0

TimeInit ==
    /\ Init
    /\ reading = [c \in Conns |-> 0]
    /\ waiting = [c \in Conns |-> 0]

\* A tick counts for those who wait; a clock starts anew with each session.
TimeNext ==
    /\ Next
    /\ reading' = [c \in Conns |->
           IF handler[c] \notin Handling THEN 0
           ELSE IF Tick /\ HandlerWaits(c) THEN reading[c] + 1 ELSE reading[c]]
    /\ waiting' = [c \in Conns |->
           IF ~There(c) THEN 0
           ELSE IF Tick /\ ClientWaits(c) THEN waiting[c] + 1 ELSE waiting[c]]

TimeSpec == TimeInit /\ [][TimeNext]_timeVars

-----------------------------------------------------------------------------

\* Whatever its peer sends, in parts, late or not at all, a handler waits for
\* it less than two read timeouts: a payload's begins before a header's ends.
ReadingBounded == \A c \in Conns : reading[c] < 2 * ReadTimeout

\* GetQuote waits for the server less than four read timeouts of the client,
\* whether or not its connection is ever taken up: there are two messages of
\* two parts, and the read of a part begins before that of the last has ended.
WaitingBounded == \A c \in Conns : waiting[c] < 4 * ClientTimeout

\* The steps that a handler has yet to take, at most.
StepsLeft(place) ==
    CASE place = "create" -> 7
      [] place = "challenge" -> 6
      [] place = "header" -> 5
      [] place = "payload" -> 4
      [] place = "verify" -> 3
      [] place \in {"quote", "invalid", "internal"} -> 2
      [] place \in {"served", "failed"} -> 1
      [] OTHER -> 0

\* Every step of a handler brings its session nearer to its end, and no step
\* of anybody else leads it back: with ReadingBounded, no peer can make a
\* session last longer than seven steps and two timeouts.
SessionsAdvance ==
    [][\A c \in Conns :
           handler[c] \in Handling
               => /\ Serve(c) => StepsLeft(handler'[c]) < StepsLeft(handler[c])
                  /\ StepsLeft(handler'[c]) <= StepsLeft(handler[c])]_vars
=============================================================================
