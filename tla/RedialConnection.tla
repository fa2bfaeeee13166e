--------------------------- MODULE RedialConnection ---------------------------
(***************************************************************************)
(* The connections of a server to its peers (network/redial_connection.go, *)
(* basic_connection.go).  Each has a goroutine, runOutgoing, that dials    *)
(* and redials and hands messages on, and is closed from another one.      *)
(*                                                                         *)
(* A BasicConnection is here open or closed.  It closes itself when        *)
(* reading fails; the read deadline is set once, when it is made.          *)
(***************************************************************************)
EXTENDS Integers

CONSTANTS
    Peers,
    OutboxSize      \* the capacity of a RedialConnection's outbox

ASSUME RedialAssumption == OutboxSize \in Nat

VARIABLE redial     \* the RedialConnection of each peer

\* The steps of runOutgoing: the first connect() of the loop, the dialling in it,
\* the select, the second connect(), the dialling in that, the test of "closed"
\* and the sending.
Steps == {"connect", "dial", "select", "reconnect", "redial", "check", "send", "exit"}

NewRedialConnection ==
    [pc |-> "connect", conn |-> "nil", outbox |-> 0,
     closed |-> FALSE, quit |-> FALSE, close |-> "no"]

Goto(p, pc) == redial' = [redial EXCEPT ![p].pc = pc]

-------------------------------------------------------------------------------
(***************************************************************************)
(* runOutgoing.                                                            *)
(***************************************************************************)
AfterConnect(pc) == IF pc \in {"connect", "dial"} THEN "select" ELSE "check"

\* The head of connect(): there is nothing to do, or it starts to dial.
Connect(p) ==
    LET r == redial[p]
    IN /\ r.pc \in {"connect", "reconnect"}
       /\ Goto(p, IF r.closed \/ r.conn = "open" THEN AfterConnect(r.pc)
                  ELSE IF r.pc = "connect" THEN "dial" ELSE "redial")

DialSucceeds(p) ==
    /\ redial[p].pc \in {"dial", "redial"}
    /\ redial' = [redial EXCEPT ![p].conn = "open", ![p].pc = AfterConnect(@)]

\* Dialling fails and is given up.  Without "quit" it is tried again.
DialAbandoned(p) ==
    /\ redial[p].pc \in {"dial", "redial"}
    /\ redial[p].quit
    /\ Goto(p, AfterConnect(redial[p].pc))

SelectQuit(p) ==
    /\ redial[p].pc = "select"
    /\ redial[p].quit
    /\ redial' = [redial EXCEPT ![p].pc = "exit",
                                ![p].conn = IF @ = "open" THEN "closed" ELSE @]

SelectMessage(p) ==
    /\ redial[p].pc = "select"
    /\ redial[p].outbox > 0
    /\ redial' = [redial EXCEPT ![p].pc = "reconnect", ![p].outbox = @ - 1]

CheckClosed(p) ==
    /\ redial[p].pc = "check"
    /\ Goto(p, IF redial[p].closed THEN "exit" ELSE "send")

\* BasicConnection.Send.  It panics when there is no connection.
SendMessage(p) ==
    /\ redial[p].pc = "send"
    /\ redial[p].conn # "nil"
    /\ Goto(p, "connect")

\* The steps that need nothing from the network.
GoesOn(p) ==
    \/ Connect(p)
    \/ DialAbandoned(p)
    \/ SelectQuit(p)
    \/ SelectMessage(p)
    \/ CheckClosed(p)
    \/ SendMessage(p)

RunOutgoing(p) == DialSucceeds(p) \/ GoesOn(p)

\* BasicConnection.runIncoming: reading fails, or the deadline has passed.
ReadFails(p) ==
    /\ redial[p].conn = "open"
    /\ redial' = [redial EXCEPT ![p].conn = "closed"]

-------------------------------------------------------------------------------
(***************************************************************************)
(* The calls.  Close has three steps, and "close" is the last one done.    *)
(***************************************************************************)

\* RedialConnection.Send: the message is dropped when the outbox is full.
Sent(r) == IF r.outbox < OutboxSize THEN [r EXCEPT !.outbox = @ + 1] ELSE r

\* Variant: the flag is not set.
CloseUnflagged(p) ==
    /\ redial[p].close = "no"
    /\ redial' = [redial EXCEPT ![p].close = "flag"]

CloseFlag(p) ==
    /\ redial[p].close = "no"
    /\ redial' = [redial EXCEPT ![p].close = "flag", ![p].closed = TRUE]

CloseConn(p) ==
    /\ redial[p].close = "flag"
    /\ redial' = [redial EXCEPT ![p].close = "conn",
                                ![p].conn = IF @ = "open" THEN "closed" ELSE @]

\* Variant: runOutgoing is not told.
CloseSilently(p) ==
    /\ redial[p].close = "conn"
    /\ redial' = [redial EXCEPT ![p].close = "quit"]

CloseQuit(p) ==
    /\ redial[p].close = "conn"
    /\ redial' = [redial EXCEPT ![p].close = "quit", ![p].quit = TRUE]

Close(p) == CloseFlag(p) \/ CloseConn(p) \/ CloseQuit(p)

Closing(p) == redial[p].close \in {"flag", "conn"}

===============================================================================
