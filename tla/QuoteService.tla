---------------------------- MODULE QuoteService ----------------------------
(***************************************************************************)
(* What the service promises about quotes, without messages, deadlines or  *)
(* a table of challenges.  A connection gets one challenge and then at     *)
(* most one answer.  It is granted a quote exactly if what its peer has    *)
(* sent solves a challenge that the service has issued and that is still   *)
(* live at that moment.  A client has a quote only if one was granted to   *)
(* it on the very connection it is waiting on.                             *)
(***************************************************************************)
EXTENDS Integers

CONSTANTS
    Conns,
    Work        \* the challenges there can be: a nonce and a difficulty

VARIABLES
    stage,      \* of a connection, as the service sees it
    claim,      \* the challenges that what its peer has sent solves
    live,       \* the challenges issued and not expired
    answer,     \* the answer on its way to the peer
    result      \* what a client knows: "none" for other programs

vars == <<stage, claim, live, answer, result>>

Init ==
    /\ stage = [c \in Conns |-> "idle"]
    /\ claim = [c \in Conns |-> {}]
    /\ live = {}
    /\ answer = [c \in Conns |-> "none"]
    /\ result = [c \in Conns |-> "none"]

Becomes(c, from, to) == stage[c] = from /\ stage' = [stage EXCEPT ![c] = to]

-----------------------------------------------------------------------------
\* The service.

Take(c) == Becomes(c, "idle", "open") /\ UNCHANGED <<claim, live, answer, result>>

Issue(c) ==
    /\ stage[c] = "open"
    /\ \E work \in Work :
           /\ \A other \in live : other.nonce # work.nonce
           /\ live' = live \cup {work}
    /\ UNCHANGED <<stage, claim, answer, result>>

Challenge(c) ==
    /\ Becomes(c, "open", "challenged")
    /\ UNCHANGED <<claim, live, answer, result>>

\* One judgement, and no second one of the same claim.
Solved(c) == claim[c] \cap live # {}
Judge(c) ==
    /\ Becomes(c, "challenged", IF Solved(c) THEN "granted" ELSE "refused")
    /\ claim' = [claim EXCEPT ![c] = {}]
    /\ UNCHANGED <<live, answer, result>>

\* No challenge could be made.
Apologise(c) == Becomes(c, "open", "refused") /\ UNCHANGED <<claim, live, answer, result>>

\* The answer is sent; a peer that is gone does not get it.
Reply(c) ==
    /\ \E type \in {"quote", "error"} :
           /\ Becomes(c, IF type = "quote" THEN "granted" ELSE "refused", "ended")
           /\ answer' \in {answer, [answer EXCEPT ![c] = type]}
    /\ UNCHANGED <<claim, live, result>>

\* A connection breaks off at any stage, and ends.
Break(c) ==
    /\ stage[c] # "idle"
    /\ Becomes(c, stage[c], "ended")
    /\ UNCHANGED <<claim, live, answer, result>>

Finish(c) ==
    /\ Becomes(c, "ended", "idle")
    /\ claim' = [claim EXCEPT ![c] = {}]
    /\ UNCHANGED <<live, answer, result>>

Expire == live' \in SUBSET live /\ UNCHANGED <<stage, claim, answer, result>>

-----------------------------------------------------------------------------
\* The peers.

Connect(c) ==
    /\ stage[c] = "idle" /\ answer[c] = "none" /\ result[c] # "waiting"
    /\ \E program \in {"waiting", "none"} : result' = [result EXCEPT ![c] = program]
    /\ UNCHANGED <<stage, claim, live, answer>>

Send(c) ==
    /\ \E solved \in SUBSET Work : claim' = [claim EXCEPT ![c] = solved]
    /\ UNCHANGED <<stage, live, answer, result>>

Gone(c, knows) ==
    /\ result' = [result EXCEPT ![c] = knows]
    /\ answer' = [answer EXCEPT ![c] = "none"]
    /\ UNCHANGED <<stage, claim, live>>

GetQuote(c) == result[c] = "waiting" /\ answer[c] = "quote" /\ Gone(c, "gotQuote")
GetNothing(c) == result[c] = "waiting" /\ Gone(c, "gotNothing")
Leave(c) == result[c] = "none" /\ Gone(c, "none")

Next ==
    \/ \E c \in Conns :
           \/ Take(c) \/ Issue(c) \/ Challenge(c) \/ Judge(c) \/ Apologise(c)
           \/ Reply(c) \/ Break(c) \/ Finish(c)
           \/ Connect(c) \/ Send(c) \/ GetQuote(c) \/ GetNothing(c) \/ Leave(c)
    \/ Expire

Spec == Init /\ [][Next]_vars
=============================================================================
