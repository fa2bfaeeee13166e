-------------------------------- MODULE Server --------------------------------
(***************************************************************************)
(* The goroutines of a server (network/server.go): one that processes      *)
(* messages and alone touches the node, one that broadcasts, one per       *)
(* incoming connection, one that listens, and whoever calls Stop.          *)
(*                                                                         *)
(* The node is what Chain models.  Here it matters whether a message ends  *)
(* a slot, and that an InfoMessage for a slot is answered once that slot   *)
(* has ended.  Slots are unbounded and are counted from the present one:   *)
(* "want" is how many more slots must end before a request is answered.    *)
(*                                                                         *)
(* A channel that is closed is never opened again, and the one in          *)
(* Server.currentBlock is the only one that can be open, so a channel that *)
(* somebody waits for is told by whether it is closed.                     *)
(***************************************************************************)
EXTENDS RedialConnection, Sequences

CONSTANTS
    Handlers,           \* the incoming connections
    Nobody,             \* no handler: the message came from the inbox
    Plain,              \* a message that is not an InfoMessage
    Blank,              \* an InfoMessage without account and slot: it has no answer
    MaxAhead,           \* bound: how far ahead a client asks
    OutgoingSize,       \* the capacity of Server.outgoing
    Configurations      \* which clients and which peers a server has

ASSUME ServerAssumption ==
    /\ Nobody \notin Handlers
    /\ MaxAhead \in Nat
    /\ Plain \notin 0..MaxAhead /\ Blank \notin 0..MaxAhead /\ Plain # Blank
    /\ OutgoingSize \in Nat \ {0}
    /\ Configurations \subseteq [clients : SUBSET Handlers, peers : SUBSET Peers]

VARIABLES
    config,         \* the clients and peers of this server
    handler,        \* the goroutines of handleConnection
    proc,           \* the goroutine of processMessagesForever
    blockClosed,    \* whether the channel in Server.currentBlock is closed
    outgoing,       \* the channel: whether each batch is what the node has to say now
    last,           \* whether lastMessages of broadcastIntermittently is
    stop,           \* how far Stop has come
    listening,      \* whether listen() is in its loop
    fatal           \* Fatalf has ended the process

serverVars == <<config, handler, proc, blockClosed, outgoing, last, stop, listening, fatal>>
vars == <<serverVars, redial>>

Quit == stop = "quit"

Shutdown == stop # "no"

Clients == config.clients

-------------------------------------------------------------------------------
Wants == 0..MaxAhead \cup {Plain, Blank}

At(pc) == [pc |-> pc, want |-> Plain, chanClosed |-> FALSE]

Selecting == [pc |-> "select", from |-> Nobody, response |-> FALSE, newBlock |-> FALSE]

\* processMessagesForever first updates the outgoing messages.
Init ==
    /\ config \in Configurations
    /\ handler = [h \in Handlers |-> At("done")]
    /\ proc = [Selecting EXCEPT !.pc = "outgoing"]
    /\ blockClosed = FALSE
    /\ outgoing = <<>>
    /\ last = FALSE
    /\ stop = "no"
    /\ listening = TRUE
    /\ fatal = FALSE
    /\ redial = [p \in Peers |-> NewRedialConnection]

(***************************************************************************)
(* listen and handleConnection.                                            *)
(***************************************************************************)
HandlerTo(h, pc) == handler' = [handler EXCEPT ![h].pc = pc]

HandlerAt(h, pc) == handler' = [handler EXCEPT ![h] = At(pc)]

OnlyHandlers == UNCHANGED <<config, proc, blockClosed, outgoing, last, stop, listening, fatal, redial>>

Accept(h) ==
    /\ listening /\ ~Shutdown
    /\ handler[h].pc = "done"
    /\ HandlerAt(h, "idle")
    /\ OnlyHandlers

\* listen() leaves its loop once it sees the flag.
ListenEnds ==
    /\ listening /\ Shutdown
    /\ listening' = FALSE
    /\ UNCHANGED <<config, handler, proc, blockClosed, outgoing, last, stop, fatal, redial>>

\* The client has closed the connection, or the server quits.
ConnectionEnds(h) ==
    /\ handler[h].pc = "idle"
    /\ HandlerAt(h, "done")
    /\ OnlyHandlers

\* A message of the client: InfoMessages are tried until they have a response.
ClientSends(h, want) ==
    /\ handler[h].pc = "idle"
    /\ handler' = [handler EXCEPT ![h] = [At("request") EXCEPT !.want = want]]
    /\ OnlyHandlers

\* The second alternative of the select in handleMessageOnce.
ResponseQuit(h) ==
    /\ handler[h].pc = "response"
    /\ Quit
    /\ HandlerAt(h, "done")
    /\ OnlyHandlers

\* And the third.  A second is a long time, but nothing bounds the processing.
ResponseTimeout(h) ==
    /\ handler[h].pc = "response"
    /\ fatal' = TRUE
    /\ UNCHANGED <<config, handler, proc, blockClosed, outgoing, last, stop, listening, redial>>

(***************************************************************************)
(* retryHandleMessage reads Server.currentBlock, which the processing      *)
(* goroutine writes, without a lock.  The response orders the read after   *)
(* the writes before it; of a write since then it may see something or     *)
(* not.                                                                    *)
(***************************************************************************)
ReadCurrentBlock(h) ==
    /\ handler[h].pc = "read"
    /\ \E seen \in {handler[h].chanClosed, blockClosed} :
         handler' = [handler EXCEPT ![h].pc = "block", ![h].chanClosed = seen]
    /\ OnlyHandlers

BlockEnds(h) ==
    /\ handler[h].pc = "block"
    /\ handler[h].chanClosed
    /\ handler' = [handler EXCEPT ![h].pc = "request", ![h].chanClosed = FALSE]
    /\ OnlyHandlers

\* Variant: the select has no such alternative.
BlockQuitNever(h) == FALSE /\ UNCHANGED vars

BlockQuit(h) ==
    /\ handler[h].pc = "block"
    /\ Quit
    /\ HandlerAt(h, "done")
    /\ OnlyHandlers

-------------------------------------------------------------------------------
(***************************************************************************)
(* processMessagesForever.                                                 *)
(***************************************************************************)
TakeRequest(h) ==
    /\ proc.pc = "select"
    /\ handler[h].pc = "request"
    /\ proc' = [proc EXCEPT !.pc = "handle", !.from = h]
    /\ HandlerTo(h, "response")
    /\ UNCHANGED <<config, blockClosed, outgoing, last, stop, listening, fatal, redial>>

TakeInbox ==
    /\ proc.pc = "select"
    /\ proc' = [proc EXCEPT !.pc = "handle"]
    /\ UNCHANGED <<config, handler, blockClosed, outgoing, last, stop, listening, fatal, redial>>

\* "break" leaves the select and not the loop.
TakeQuit ==
    /\ proc.pc = "select"
    /\ Quit
    /\ UNCHANGED vars

IsInfo == proc.from # Nobody /\ handler[proc.from].want # Plain

\* A slot ends: the requests for it can be answered.
Ended == [h \in Handlers |->
            [handler[h] EXCEPT !.want = IF @ \in {Plain, Blank, 0} THEN @ ELSE @ - 1]]

\* Variant: the channel is not cleared.
HandleUncleared ==
    /\ proc.pc = "handle"
    /\ \E newBlock, changed, response \in BOOLEAN :
         /\ newBlock => changed
         /\ IsInfo => ~changed /\ (response <=> handler[proc.from].want = 0)
         /\ proc' = [proc EXCEPT !.pc = "outgoing", !.newBlock = newBlock, !.response = response]
         /\ handler' = IF newBlock THEN Ended ELSE handler
         /\ last' = (last /\ ~changed)
         /\ outgoing' = [i \in DOMAIN outgoing |-> outgoing[i] /\ ~changed]
    /\ UNCHANGED <<config, blockClosed, stop, listening, fatal, redial>>

(***************************************************************************)
(* node.Handle, and the clearing of the outgoing channel.  An InfoMessage  *)
(* changes nothing; another message may change what the node has to say,   *)
(* end the slot, and be answered.                                          *)
(***************************************************************************)
Handle ==
    /\ proc.pc = "handle"
    /\ \E newBlock, changed, response \in BOOLEAN :
         /\ newBlock => changed
         /\ IsInfo => ~changed /\ (response <=> handler[proc.from].want = 0)
         /\ proc' = [proc EXCEPT !.pc = "outgoing", !.newBlock = newBlock, !.response = response]
         /\ handler' = IF newBlock THEN Ended ELSE handler
         /\ last' = (last /\ ~changed)
    /\ outgoing' = <<>>
    /\ UNCHANGED <<config, blockClosed, stop, listening, fatal, redial>>

\* Variant: a nil response is not sent.
ProcessedUnlessNil ==
    IF proc.from = Nobody \/ ~proc.response THEN Selecting
    ELSE [proc EXCEPT !.pc = "respond", !.newBlock = FALSE]

\* The message is processed: a request gets its response, even if it is nil.
Processed ==
    IF proc.from = Nobody THEN Selecting ELSE [proc EXCEPT !.pc = "respond", !.newBlock = FALSE]

\* Variant: the messages are those from before the message was handled.
SendOutgoingEarly ==
    /\ proc.pc = "outgoing"
    /\ Len(outgoing) < OutgoingSize
    /\ outgoing' = Append(outgoing, ~proc.newBlock)
    /\ proc' = IF proc.newBlock THEN [proc EXCEPT !.pc = "close"] ELSE Processed
    /\ UNCHANGED <<config, handler, blockClosed, last, stop, listening, fatal, redial>>

SendOutgoing ==
    /\ proc.pc = "outgoing"
    /\ Len(outgoing) < OutgoingSize
    /\ outgoing' = Append(outgoing, TRUE)
    /\ proc' = IF proc.newBlock THEN [proc EXCEPT !.pc = "close"] ELSE Processed
    /\ UNCHANGED <<config, handler, blockClosed, last, stop, listening, fatal, redial>>

\* Variant: a new channel is made and the old one is left open.
CloseNothing ==
    /\ proc.pc = "close"
    /\ proc' = [proc EXCEPT !.pc = "make"]
    /\ UNCHANGED <<config, handler, blockClosed, outgoing, last, stop, listening, fatal, redial>>

\* close(s.currentBlock): all who wait for it, or have read it, find it closed.
CloseBlock ==
    /\ proc.pc = "close"
    /\ proc' = [proc EXCEPT !.pc = "make"]
    /\ blockClosed' = TRUE
    /\ handler' = [h \in Handlers |->
                     [handler[h] EXCEPT !.chanClosed = handler[h].pc \in {"read", "block"}]]
    /\ UNCHANGED <<config, outgoing, last, stop, listening, fatal, redial>>

MakeBlock ==
    /\ proc.pc = "make"
    /\ proc' = Processed
    /\ blockClosed' = FALSE
    /\ UNCHANGED <<config, handler, outgoing, last, stop, listening, fatal, redial>>

\* The response channel is not buffered: both sides meet.  A response is sent
\* down the connection; an InfoMessage without one is tried again.
Respond(h) ==
    /\ proc.pc = "respond"
    /\ proc.from = h
    /\ handler[h].pc = "response"
    /\ proc' = Selecting
    /\ IF handler[h].want # Plain /\ ~proc.response
       THEN handler' = [handler EXCEPT ![h].pc = "read", ![h].chanClosed = FALSE]
       ELSE HandlerAt(h, "idle")
    /\ UNCHANGED <<config, blockClosed, outgoing, last, stop, listening, fatal, redial>>

-------------------------------------------------------------------------------
(***************************************************************************)
(* broadcastIntermittently.                                                *)
(***************************************************************************)
Broadcast == redial' = [p \in Peers |-> IF p \in config.peers THEN Sent(redial[p]) ELSE redial[p]]

\* The newest batch counts, and what has changed in it is sent.
ReceiveOutgoing ==
    /\ outgoing # <<>>
    /\ outgoing' = <<>>
    /\ last' = outgoing[Len(outgoing)]
    /\ Broadcast
    /\ UNCHANGED <<config, handler, proc, blockClosed, stop, listening, fatal>>

Rebroadcast ==
    /\ Broadcast
    /\ UNCHANGED serverVars

\* Here too, "break" leaves only the select.
BroadcastQuit ==
    /\ Quit
    /\ UNCHANGED vars

-------------------------------------------------------------------------------
(***************************************************************************)
(* Stop: the flag, the quit channel, then Close of one peer after the      *)
(* other.  That the listener is closed makes Accept return, and listen()   *)
(* look at the flag.                                                       *)
(***************************************************************************)
Stop ==
    /\ \/ stop = "no" /\ stop' = "shutdown"
       \/ stop = "shutdown" /\ stop' = "quit"
    /\ UNCHANGED <<config, handler, proc, blockClosed, outgoing, last, listening, fatal, redial>>

ClosePeer(p) ==
    /\ Quit
    /\ \A other \in config.peers \ {p} : ~Closing(other)
    /\ Close(p)
    /\ UNCHANGED serverVars

Peer(p) == (RunOutgoing(p) \/ ReadFails(p)) /\ UNCHANGED serverVars

Processing == Handle \/ SendOutgoing \/ CloseBlock \/ MakeBlock \/ \E h \in Clients : Respond(h)

\* The alternatives that quit makes ready.
Ends(h) == ConnectionEnds(h) \/ ResponseQuit(h) \/ BlockQuit(h)

Retrying(h) == ResponseQuit(h) \/ ReadCurrentBlock(h) \/ BlockEnds(h) \/ BlockQuit(h)

Connection(h) ==
    \/ Accept(h)
    \/ ConnectionEnds(h)
    \/ \E want \in Wants : ClientSends(h, want)
    \/ ResponseTimeout(h)
    \/ Retrying(h)
    \/ TakeRequest(h)

Next ==
    /\ ~fatal
    /\ \/ \E h \in Clients : Connection(h)
       \/ ListenEnds
       \/ TakeInbox
       \/ TakeQuit
       \/ Processing
       \/ ReceiveOutgoing
       \/ Rebroadcast
       \/ BroadcastQuit
       \/ Stop
       \/ \E p \in config.peers : ClosePeer(p) \/ Peer(p)

Spec == Init /\ [][Next]_vars

\* The processing goroutine hangs: nobody is there to take the response.
Departed == proc.pc = "respond" /\ handler[proc.from].pc = "done"

(***************************************************************************)
(* Fairness.  A goroutine that can go on does.  Go queues those who send   *)
(* on a channel and picks at random between the ready alternatives of a    *)
(* select, so nobody is passed over for ever.  A connection ends at its    *)
(* read deadline, unless its reader waits to hand a message to a           *)
(* processing goroutine that hangs.  Nobody need call Stop, connect, or    *)
(* send a message, and dialling need not succeed.                          *)
(***************************************************************************)
Fairness ==
    /\ WF_vars(~fatal /\ Processing)
    /\ SF_vars(~fatal /\ ReceiveOutgoing)
    /\ WF_vars(~fatal /\ ListenEnds)
    /\ WF_vars(~fatal /\ Shutdown /\ Stop)
    /\ \A h \in Handlers :
         /\ WF_vars(~fatal /\ h \in Clients /\ Retrying(h))
         /\ SF_vars(~fatal /\ h \in Clients /\ TakeRequest(h))
         /\ SF_vars(~fatal /\ Quit /\ Ends(h))
    /\ \A p \in Peers :
         /\ WF_vars(~fatal /\ p \in config.peers /\ ClosePeer(p))
         /\ WF_vars(~fatal /\ p \in config.peers /\ GoesOn(p) /\ UNCHANGED serverVars)
         /\ WF_vars(~fatal /\ ~Departed /\ ReadFails(p) /\ UNCHANGED serverVars)

FairSpec == Spec /\ Fairness

-------------------------------------------------------------------------------
(***************************************************************************)
(* Properties.                                                             *)
(***************************************************************************)

\* Every goroutine is at one of its steps, and the channels have their sizes.
TypeOK ==
    /\ config \in Configurations
    /\ handler \in [Handlers ->
         [pc : {"done", "idle", "request", "response", "read", "block"},
          want : Wants, chanClosed : BOOLEAN]]
    /\ proc \in
         [pc : {"select", "handle", "outgoing", "close", "make", "respond"},
          from : Handlers \cup {Nobody}, response : BOOLEAN, newBlock : BOOLEAN]
    /\ outgoing \in Seq(BOOLEAN) /\ Len(outgoing) <= OutgoingSize
    /\ {blockClosed, last, listening, fatal} \subseteq BOOLEAN
    /\ stop \in {"no", "shutdown", "quit"}
    /\ redial \in
         [Peers -> [pc : Steps, conn : {"nil", "open", "closed"}, outbox : 0..OutboxSize,
                    closed : BOOLEAN, quit : BOOLEAN, close : {"no", "flag", "conn", "quit"}]]

\* "the processing goroutine got overloaded" (server.go): a handler whose timer
\* runs is the one whose request is being processed.  A request never waits, while
\* its second runs, for the messages of others, and no response goes astray.
TimerIsForOwnRequest ==
    \A h \in Handlers : handler[h].pc = "response" => proc.pc # "select" /\ proc.from = h

\* "Send our messages to the now-probably-empty queue" (server.go): the processing
\* goroutine never blocks there, whatever the broadcasting one does meanwhile.
OutgoingHasRoom == proc.pc = "outgoing" => outgoing = <<>>

\* runOutgoing does not get to "cannot send to a nil BasicConnection", however
\* Close and a failing dial interleave: a dial is only given up when the flag is
\* set, and the flag is looked at after it.
SendsOnConnection == \A p \in Peers : redial[p].pc = "send" => redial[p].conn # "nil"

Asking(h) ==
    /\ handler[h].want \in 0..MaxAhead
    /\ handler[h].pc \in {"request", "response", "read", "block"}

(***************************************************************************)
(* As long as slots keep ending, an InfoMessage that has an answer gets    *)
(* it, or its connection ends because the server stops, even if other      *)
(* clients wait for an answer that never comes.  A slot that ends between  *)
(* the nil response and the reading of Server.currentBlock is missed, and  *)
(* the answer comes with the next one.                                     *)
(***************************************************************************)
InfoAnswered ==
    []<>(proc.pc = "make" /\ ~fatal) => \A h \in Handlers : Asking(h) ~> (~Asking(h) \/ Shutdown)

\* What the node has to say reaches the broadcaster, however often it changes
\* while the broadcaster is busy.
BroadcastsLatest == []<>(last \/ fatal)

(***************************************************************************)
(* "Stop() should work if it is called after ServeInBackground returns"    *)
(* (server.go): the connections end.  Not all of them need to: when the    *)
(* handler of the request being processed has gone, the response is never  *)
(* taken, and those who are about to make a request wait for ever.         *)
(***************************************************************************)
StopEndsConnections ==
    <>[](Shutdown => \/ fatal
                      \/ /\ ~listening
                         /\ \A h \in Handlers :
                              handler[h].pc = "done" \/ (handler[h].pc = "request" /\ Departed))

\* After Stop runOutgoing is gone, and no connection to a peer stays open.  One
\* that is dialled while Close runs is closed by neither: it outlives both until
\* its read deadline, or for ever when the processing goroutine hangs.
StopClosesPeers ==
    <>[](Shutdown => \/ fatal
                      \/ \A p \in config.peers :
                           redial[p].pc = "exit" /\ (redial[p].conn # "open" \/ Departed))

===============================================================================
