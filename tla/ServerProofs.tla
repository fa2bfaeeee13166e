----------------------------- MODULE ServerProofs -----------------------------
(***************************************************************************)
(* Proofs about Server, for any number of clients and peers, any sizes of  *)
(* the channels and any messages.                                          *)
(***************************************************************************)
EXTENDS Server, TLAPS

-------------------------------------------------------------------------------
(***************************************************************************)
(* The connections to the peers.                                           *)
(***************************************************************************)
RedialConnections ==
    [pc : Steps, conn : {"nil", "open", "closed"}, outbox : 0..OutboxSize,
     closed : BOOLEAN, quit : BOOLEAN, close : {"no", "flag", "conn", "quit"}]

(***************************************************************************)
(* Why runOutgoing has a connection when it sends: dialling is only given  *)
(* up after "quit", which Close sets after the flag, and the flag is       *)
(* looked at between the dialling and the sending.                         *)
(***************************************************************************)
ConnectionInv(r) ==
    /\ r.close # "no" => r.closed
    /\ r.quit => r.close = "quit"
    /\ r.pc = "check" /\ r.conn = "nil" => r.closed
    /\ r.pc = "send" => r.conn # "nil"

RedialInv ==
    /\ redial \in [Peers -> RedialConnections]
    /\ \A p \in Peers : ConnectionInv(redial[p])

\* The invariant is about each connection by itself.
LEMMA OneConnection ==
    ASSUME RedialInv, NEW p \in Peers, NEW r \in RedialConnections, ConnectionInv(r),
           redial' = [redial EXCEPT ![p] = r]
    PROVE  RedialInv'
BY DEF RedialInv

\* The steps of runOutgoing and of runIncoming keep the invariant.
LEMMA PeerStep ==
    ASSUME RedialInv, NEW p \in Peers, RunOutgoing(p) \/ ReadFails(p)
    PROVE  RedialInv'
<1>1. redial[p] \in RedialConnections /\ ConnectionInv(redial[p])
  BY DEF RedialInv
<1>2. redial \in [Peers -> RedialConnections]
  BY DEF RedialInv
<1>3. CASE Connect(p)
  <2> DEFINE r == [redial[p] EXCEPT !.pc = IF redial[p].closed \/ redial[p].conn = "open" THEN AfterConnect(redial[p].pc)
                                   ELSE IF redial[p].pc = "connect" THEN "dial" ELSE "redial"]
  <2>1. redial' = [redial EXCEPT ![p] = r]
    BY <1>2, <1>3 DEF Connect, Goto
  <2>2. r \in RedialConnections
    BY <1>1, <1>3 DEF Connect, Goto, AfterConnect, RedialConnections, Steps
  <2>3. ConnectionInv(r)
    BY <1>1, <1>3 DEF Connect, Goto, AfterConnect, RedialConnections, ConnectionInv
  <2> QED BY <2>1, <2>2, <2>3, OneConnection
<1>4. CASE DialSucceeds(p)
  <2> DEFINE r == [redial[p] EXCEPT !.conn = "open", !.pc = AfterConnect(@)]
  <2>1. redial' = [redial EXCEPT ![p] = r]
    BY <1>2, <1>4 DEF DialSucceeds
  <2>2. r \in RedialConnections
    BY <1>1, <1>4 DEF DialSucceeds, AfterConnect, RedialConnections, Steps
  <2>3. ConnectionInv(r)
    BY <1>1, <1>4 DEF DialSucceeds, AfterConnect, RedialConnections, ConnectionInv
  <2> QED BY <2>1, <2>2, <2>3, OneConnection
<1>5. CASE DialAbandoned(p)
  <2> DEFINE r == [redial[p] EXCEPT !.pc = AfterConnect(redial[p].pc)]
  <2>1. redial' = [redial EXCEPT ![p] = r]
    BY <1>2, <1>5 DEF DialAbandoned, Goto
  <2>2. r \in RedialConnections
    BY <1>1, <1>5 DEF DialAbandoned, Goto, AfterConnect, RedialConnections, Steps
  <2>3. ConnectionInv(r)
    BY <1>1, <1>5 DEF DialAbandoned, Goto, AfterConnect, RedialConnections, ConnectionInv
  <2> QED BY <2>1, <2>2, <2>3, OneConnection
<1>6. CASE SelectQuit(p)
  <2> DEFINE r == [redial[p] EXCEPT !.pc = "exit", !.conn = IF @ = "open" THEN "closed" ELSE @]
  <2>1. redial' = [redial EXCEPT ![p] = r]
    BY <1>2, <1>6 DEF SelectQuit
  <2>2. r \in RedialConnections
    BY <1>1, <1>6 DEF SelectQuit, RedialConnections, Steps
  <2>3. ConnectionInv(r)
    BY <1>1, <1>6 DEF SelectQuit, RedialConnections, ConnectionInv
  <2> QED BY <2>1, <2>2, <2>3, OneConnection
<1>7. CASE SelectMessage(p)
  <2> DEFINE r == [redial[p] EXCEPT !.pc = "reconnect", !.outbox = @ - 1]
  <2>1. redial' = [redial EXCEPT ![p] = r]
    BY <1>2, <1>7 DEF SelectMessage
  <2>2. r \in RedialConnections
    <3>1. redial[p].outbox - 1 \in 0..OutboxSize
      BY <1>1, <1>7, RedialAssumption DEF SelectMessage, RedialConnections
    <3> QED BY <1>1, <3>1 DEF RedialConnections, Steps
  <2>3. ConnectionInv(r)
    BY <1>1, <1>7 DEF SelectMessage, RedialConnections, ConnectionInv
  <2> QED BY <2>1, <2>2, <2>3, OneConnection
<1>8. CASE CheckClosed(p)
  <2> DEFINE r == [redial[p] EXCEPT !.pc = IF redial[p].closed THEN "exit" ELSE "send"]
  <2>1. redial' = [redial EXCEPT ![p] = r]
    BY <1>2, <1>8 DEF CheckClosed, Goto
  <2>2. r \in RedialConnections
    BY <1>1, <1>8 DEF CheckClosed, Goto, RedialConnections, Steps
  <2>3. ConnectionInv(r)
    BY <1>1, <1>8 DEF CheckClosed, Goto, RedialConnections, ConnectionInv
  <2> QED BY <2>1, <2>2, <2>3, OneConnection
<1>9. CASE SendMessage(p)
  <2> DEFINE r == [redial[p] EXCEPT !.pc = "connect"]
  <2>1. redial' = [redial EXCEPT ![p] = r]
    BY <1>2, <1>9 DEF SendMessage, Goto
  <2>2. r \in RedialConnections
    BY <1>1, <1>9 DEF SendMessage, Goto, RedialConnections, Steps
  <2>3. ConnectionInv(r)
    BY <1>1, <1>9 DEF SendMessage, Goto, RedialConnections, ConnectionInv
  <2> QED BY <2>1, <2>2, <2>3, OneConnection
<1>10. CASE ReadFails(p)
  <2> DEFINE r == [redial[p] EXCEPT !.conn = "closed"]
  <2>1. redial' = [redial EXCEPT ![p] = r]
    BY <1>2, <1>10 DEF ReadFails
  <2>2. r \in RedialConnections
    BY <1>1, <1>10 DEF ReadFails, RedialConnections, Steps
  <2>3. ConnectionInv(r)
    BY <1>1, <1>10 DEF ReadFails, RedialConnections, ConnectionInv
  <2> QED BY <2>1, <2>2, <2>3, OneConnection
<1> QED BY <1>3, <1>4, <1>5, <1>6, <1>7, <1>8, <1>9, <1>10 DEF RunOutgoing, GoesOn

\* So do the steps of Close, in their order.
LEMMA CloseStep ==
    ASSUME RedialInv, NEW p \in Peers, Close(p)
    PROVE  RedialInv'
<1>1. redial[p] \in RedialConnections /\ ConnectionInv(redial[p])
  BY DEF RedialInv
<1>2. redial \in [Peers -> RedialConnections]
  BY DEF RedialInv
<1>3. CASE CloseFlag(p)
  <2> DEFINE r == [redial[p] EXCEPT !.close = "flag", !.closed = TRUE]
  <2>1. redial' = [redial EXCEPT ![p] = r]
    BY <1>2, <1>3 DEF CloseFlag
  <2>2. r \in RedialConnections
    BY <1>1, <1>3 DEF CloseFlag, RedialConnections, Steps
  <2>3. ConnectionInv(r)
    BY <1>1, <1>3 DEF CloseFlag, RedialConnections, ConnectionInv
  <2> QED BY <2>1, <2>2, <2>3, OneConnection
<1>4. CASE CloseConn(p)
  <2> DEFINE r == [redial[p] EXCEPT !.close = "conn", !.conn = IF @ = "open" THEN "closed" ELSE @]
  <2>1. redial' = [redial EXCEPT ![p] = r]
    BY <1>2, <1>4 DEF CloseConn
  <2>2. r \in RedialConnections
    BY <1>1, <1>4 DEF CloseConn, RedialConnections, Steps
  <2>3. ConnectionInv(r)
    BY <1>1, <1>4 DEF CloseConn, RedialConnections, ConnectionInv
  <2> QED BY <2>1, <2>2, <2>3, OneConnection
<1>5. CASE CloseQuit(p)
  <2> DEFINE r == [redial[p] EXCEPT !.close = "quit", !.quit = TRUE]
  <2>1. redial' = [redial EXCEPT ![p] = r]
    BY <1>2, <1>5 DEF CloseQuit
  <2>2. r \in RedialConnections
    BY <1>1, <1>5 DEF CloseQuit, RedialConnections, Steps
  <2>3. ConnectionInv(r)
    BY <1>1, <1>5 DEF CloseQuit, RedialConnections, ConnectionInv
  <2> QED BY <2>1, <2>2, <2>3, OneConnection
<1> QED BY <1>3, <1>4, <1>5 DEF Close

\* Broadcasting only fills outboxes, up to their size.
LEMMA BroadcastStep ==
    ASSUME RedialInv, Broadcast
    PROVE  RedialInv'
<1> SUFFICES ASSUME NEW p \in Peers
             PROVE  Sent(redial[p]) \in RedialConnections /\ ConnectionInv(Sent(redial[p]))
  BY DEF RedialInv, Broadcast
<1>1. redial[p] \in RedialConnections /\ ConnectionInv(redial[p])
  BY DEF RedialInv
<1>2. Sent(redial[p]) \in RedialConnections
  BY <1>1, RedialAssumption DEF Sent, RedialConnections
<1>3. ConnectionInv(Sent(redial[p]))
  BY <1>1 DEF Sent, RedialConnections, ConnectionInv
<1> QED BY <1>2, <1>3

-------------------------------------------------------------------------------
(***************************************************************************)
(* The goroutines of the server.                                           *)
(***************************************************************************)
HandlerStates ==
    [pc : {"done", "idle", "request", "response", "read", "block"},
     want : Wants, chanClosed : BOOLEAN]

ProcStates ==
    [pc : {"select", "handle", "outgoing", "close", "make", "respond"},
     from : Handlers \cup {Nobody}, response : BOOLEAN, newBlock : BOOLEAN]

(***************************************************************************)
(* Which of its steps a handler is at goes with the step of the processing *)
(* goroutine.  The last two conjuncts are the properties themselves.       *)
(***************************************************************************)
GoroutinesInv ==
    /\ handler \in [Handlers -> HandlerStates]
    /\ proc \in ProcStates
    /\ TimerIsForOwnRequest
    /\ OutgoingHasRoom

\* A handler goes on to a step that is not the one with the timer.
LEMMA HandlerStep ==
    ASSUME GoroutinesInv, NEW h \in Handlers, NEW new \in HandlerStates, new.pc # "response",
           handler' = [handler EXCEPT ![h] = new], UNCHANGED <<proc, outgoing>>
    PROVE  GoroutinesInv'
BY DEF GoroutinesInv, TimerIsForOwnRequest, OutgoingHasRoom

\* Every step of a connection's goroutine keeps the invariant.
LEMMA ConnectionStep ==
    ASSUME GoroutinesInv, blockClosed \in BOOLEAN, NEW h \in Handlers, Connection(h)
    PROVE  GoroutinesInv'
<1>1. handler \in [Handlers -> HandlerStates] /\ handler[h] \in HandlerStates
  BY DEF GoroutinesInv
<1>2. \A pc \in {"done", "idle"} : At(pc) \in HandlerStates /\ At(pc).pc = pc
  BY DEF At, HandlerStates, Wants
<1>3. CASE Accept(h)
  BY <1>2, <1>3, HandlerStep DEF Accept, HandlerAt, OnlyHandlers
<1>4. CASE ConnectionEnds(h)
  BY <1>2, <1>4, HandlerStep DEF ConnectionEnds, HandlerAt, OnlyHandlers
<1>5. ASSUME NEW want \in Wants, ClientSends(h, want) PROVE GoroutinesInv'
  <2>1. /\ [At("request") EXCEPT !.want = want] \in HandlerStates
        /\ [At("request") EXCEPT !.want = want].pc = "request"
    BY DEF At, HandlerStates
  <2> QED BY <1>5, <2>1, HandlerStep DEF ClientSends, OnlyHandlers
<1>6. CASE ResponseTimeout(h)
  BY <1>6 DEF ResponseTimeout, GoroutinesInv, TimerIsForOwnRequest, OutgoingHasRoom
<1>7. CASE ResponseQuit(h) \/ BlockQuit(h)
  BY <1>2, <1>7, HandlerStep DEF ResponseQuit, BlockQuit, HandlerAt, OnlyHandlers
<1>8. CASE ReadCurrentBlock(h)
  <2>1. PICK seen \in {handler[h].chanClosed, blockClosed} :
          handler' = [handler EXCEPT ![h].pc = "block", ![h].chanClosed = seen]
    BY <1>8 DEF ReadCurrentBlock
  <2> DEFINE new == [handler[h] EXCEPT !.pc = "block", !.chanClosed = seen]
  <2>2. new \in HandlerStates /\ new.pc = "block"
    BY <1>1, <2>1 DEF HandlerStates
  <2>3. handler' = [handler EXCEPT ![h] = new]
    BY <1>1, <2>1
  <2> QED BY <1>8, <2>2, <2>3, HandlerStep DEF ReadCurrentBlock, OnlyHandlers
<1>9. CASE BlockEnds(h)
  <2> DEFINE new == [handler[h] EXCEPT !.pc = "request", !.chanClosed = FALSE]
  <2>1. new \in HandlerStates /\ new.pc = "request"
    BY <1>1 DEF HandlerStates
  <2>2. handler' = [handler EXCEPT ![h] = new]
    BY <1>1, <1>9 DEF BlockEnds
  <2> QED BY <1>9, <2>1, <2>2, HandlerStep DEF BlockEnds, OnlyHandlers
<1>10. CASE TakeRequest(h)
  <2>1. handler' \in [Handlers -> HandlerStates]
    BY <1>1, <1>10 DEF TakeRequest, HandlerTo, HandlerStates
  <2>2. proc' \in ProcStates /\ proc'.pc = "handle" /\ proc'.from = h
    BY <1>10 DEF TakeRequest, GoroutinesInv, ProcStates
  <2>3. \A k \in Handlers \ {h} : handler'[k] = handler[k] /\ handler[k].pc # "response"
    BY <1>1, <1>10 DEF TakeRequest, HandlerTo, GoroutinesInv, TimerIsForOwnRequest
  <2> QED BY <2>1, <2>2, <2>3 DEF GoroutinesInv, TimerIsForOwnRequest, OutgoingHasRoom
<1> QED BY <1>3, <1>4, <1>5, <1>6, <1>7, <1>8, <1>9, <1>10 DEF Connection, Retrying

\* The end of processing leaves nobody with a timer, unless a response is on its way.
LEMMA ProcessedStates ==
    ASSUME GoroutinesInv, proc.pc # "select"
    PROVE  /\ Processed \in ProcStates /\ Processed.pc # "outgoing"
           /\ \A h \in Handlers : handler[h].pc = "response" => Processed.pc # "select" /\ Processed.from = h
<1>1. proc \in ProcStates
  BY DEF GoroutinesInv
<1>2. CASE proc.from = Nobody
  <2>1. Processed = Selecting
    BY <1>2 DEF Processed
  <2>2. \A h \in Handlers : handler[h].pc # "response"
    BY <1>2, ServerAssumption DEF GoroutinesInv, TimerIsForOwnRequest
  <2> QED BY <2>1, <2>2 DEF Selecting, ProcStates
<1>3. CASE proc.from # Nobody
  <2>1. Processed = [proc EXCEPT !.pc = "respond", !.newBlock = FALSE]
    BY <1>3 DEF Processed
  <2>2. Processed \in ProcStates /\ Processed.pc = "respond" /\ Processed.from = proc.from
    BY <1>1, <2>1 DEF ProcStates
  <2> QED BY <2>2 DEF GoroutinesInv, TimerIsForOwnRequest
<1> QED BY <1>2, <1>3

\* The end of a slot moves no handler.
LEMMA EndedStates ==
    ASSUME handler \in [Handlers -> HandlerStates]
    PROVE  Ended \in [Handlers -> HandlerStates] /\ \A h \in Handlers : Ended[h].pc = handler[h].pc
<1> SUFFICES ASSUME NEW h \in Handlers PROVE Ended[h] \in HandlerStates /\ Ended[h].pc = handler[h].pc
  BY DEF Ended
<1> DEFINE want == IF handler[h].want \in {Plain, Blank, 0} THEN handler[h].want
                   ELSE handler[h].want - 1
<1>1. want \in Wants
  BY ServerAssumption DEF HandlerStates, Wants
<1>2. Ended[h] = [handler[h] EXCEPT !.want = want]
  BY DEF Ended
<1> QED BY <1>1, <1>2 DEF HandlerStates

\* Every step of the processing goroutine keeps the invariant.
LEMMA ProcessingStep ==
    ASSUME GoroutinesInv, Clients \subseteq Handlers, Processing \/ TakeInbox
    PROVE  GoroutinesInv'
<1>1. handler \in [Handlers -> HandlerStates] /\ proc \in ProcStates
  BY DEF GoroutinesInv
<1>2. CASE TakeInbox
  <2>1. proc' \in ProcStates /\ proc'.pc = "handle"
    BY <1>1, <1>2 DEF TakeInbox, ProcStates
  <2> QED BY <1>2, <2>1 DEF TakeInbox, GoroutinesInv, TimerIsForOwnRequest, OutgoingHasRoom
<1>3. CASE Handle
  <2>1. PICK newBlock, response \in BOOLEAN :
          /\ proc' = [proc EXCEPT !.pc = "outgoing", !.newBlock = newBlock, !.response = response]
          /\ handler' = IF newBlock THEN Ended ELSE handler
    BY <1>3 DEF Handle
  <2>2. proc' \in ProcStates /\ proc'.pc = "outgoing" /\ proc'.from = proc.from
    BY <1>1, <2>1 DEF ProcStates
  <2>3. handler' \in [Handlers -> HandlerStates] /\ \A h \in Handlers : handler'[h].pc = handler[h].pc
    BY <1>1, <2>1, EndedStates
  <2>4. outgoing' = <<>>
    BY <1>3 DEF Handle
  <2> QED BY <2>2, <2>3, <2>4 DEF GoroutinesInv, TimerIsForOwnRequest, OutgoingHasRoom
<1>4. CASE SendOutgoing
  <2>1. proc.pc = "outgoing" /\ handler' = handler
    BY <1>4 DEF SendOutgoing
  <2>2. CASE proc.newBlock
    <3>1. proc' = [proc EXCEPT !.pc = "close"]
      BY <1>4, <2>2 DEF SendOutgoing
    <3>2. proc' \in ProcStates /\ proc'.pc = "close" /\ proc'.from = proc.from
      BY <1>1, <3>1 DEF ProcStates
    <3> QED BY <2>1, <3>2 DEF GoroutinesInv, TimerIsForOwnRequest, OutgoingHasRoom
  <2>3. CASE ~proc.newBlock
    <3>1. proc' = Processed
      BY <1>4, <2>3 DEF SendOutgoing
    <3> QED BY <2>1, <3>1, ProcessedStates DEF GoroutinesInv, TimerIsForOwnRequest, OutgoingHasRoom
  <2> QED BY <2>2, <2>3
<1>5. CASE CloseBlock
  <2>1. proc' \in ProcStates /\ proc'.pc = "make" /\ proc'.from = proc.from /\ proc.pc = "close"
    BY <1>1, <1>5 DEF CloseBlock, ProcStates
  <2>2. handler' \in [Handlers -> HandlerStates] /\ \A h \in Handlers : handler'[h].pc = handler[h].pc
    <3> SUFFICES ASSUME NEW h \in Handlers
                 PROVE  handler'[h] \in HandlerStates /\ handler'[h].pc = handler[h].pc
      BY <1>5 DEF CloseBlock
    <3> DEFINE closed == handler[h].pc \in {"read", "block"}
    <3>1. handler'[h] = [handler[h] EXCEPT !.chanClosed = closed]
      BY <1>5 DEF CloseBlock
    <3>2. closed \in BOOLEAN
      OBVIOUS
    <3> HIDE DEF closed
    <3> QED BY <1>1, <3>1, <3>2 DEF HandlerStates
  <2> QED BY <2>1, <2>2 DEF GoroutinesInv, TimerIsForOwnRequest, OutgoingHasRoom
<1>6. CASE MakeBlock
  <2>1. proc.pc = "make" /\ proc' = Processed /\ handler' = handler
    BY <1>6 DEF MakeBlock
  <2> QED BY <2>1, ProcessedStates DEF GoroutinesInv, TimerIsForOwnRequest, OutgoingHasRoom
<1>7. ASSUME NEW h \in Handlers, Respond(h) PROVE GoroutinesInv'
  <2>1. PICK new \in HandlerStates : handler' = [handler EXCEPT ![h] = new] /\ new.pc # "response"
    <3>1. CASE handler[h].want # Plain /\ ~proc.response
      <4> DEFINE new == [handler[h] EXCEPT !.pc = "read", !.chanClosed = FALSE]
      <4>1. handler' = [handler EXCEPT ![h] = new]
        BY <1>1, <1>7, <3>1 DEF Respond
      <4>2. new \in HandlerStates /\ new.pc = "read"
        BY <1>1, <1>7 DEF HandlerStates
      <4> QED BY <4>1, <4>2
    <3>2. CASE ~(handler[h].want # Plain /\ ~proc.response)
      <4>1. handler' = [handler EXCEPT ![h] = At("idle")]
        BY <1>7, <3>2 DEF Respond, HandlerAt
      <4>2. At("idle") \in HandlerStates /\ At("idle").pc = "idle"
        BY DEF At, HandlerStates, Wants
      <4> QED BY <4>1, <4>2
    <3> QED BY <3>1, <3>2
  <2>2. proc' \in ProcStates /\ proc'.pc = "select" /\ proc.from = h
    BY <1>7 DEF Respond, Selecting, ProcStates
  <2>3. \A k \in Handlers : handler'[k].pc # "response"
    BY <1>1, <1>7, <2>1, <2>2 DEF GoroutinesInv, TimerIsForOwnRequest
  <2>4. handler' \in [Handlers -> HandlerStates]
    BY <1>1, <2>1
  <2> QED BY <2>2, <2>3, <2>4 DEF GoroutinesInv, TimerIsForOwnRequest, OutgoingHasRoom
<1> QED BY <1>2, <1>3, <1>4, <1>5, <1>6, <1>7 DEF Processing

-------------------------------------------------------------------------------
(***************************************************************************)
(* The server.                                                             *)
(***************************************************************************)

\* The channel to the broadcasting goroutine, and the flags.
ChannelsInv ==
    /\ config \in Configurations
    /\ outgoing \in Seq(BOOLEAN) /\ Len(outgoing) <= OutgoingSize
    /\ blockClosed \in BOOLEAN /\ last \in BOOLEAN /\ listening \in BOOLEAN /\ fatal \in BOOLEAN
    /\ stop \in {"no", "shutdown", "quit"}

\* The inductive invariant.
ServerInv == RedialInv /\ GoroutinesInv /\ ChannelsInv

\* A batch is only put into an empty channel, and only taken out by emptying it.
LEMMA ChannelsStep ==
    ASSUME ServerInv, Next
    PROVE  ChannelsInv'
<1> USE DEF ServerInv, ChannelsInv
<1>1. CASE SendOutgoing
  <2>1. outgoing = <<>> /\ outgoing' = Append(outgoing, TRUE)
    BY <1>1 DEF SendOutgoing, GoroutinesInv, OutgoingHasRoom
  <2>2. outgoing' \in Seq(BOOLEAN) /\ Len(outgoing') = 1
    BY <2>1
  <2> QED BY <1>1, <2>2, ServerAssumption DEF SendOutgoing
<1>2. CASE Handle
  <2>1. last' \in BOOLEAN
    BY <1>2 DEF Handle
  <2>2. outgoing' = <<>> /\ UNCHANGED <<config, blockClosed, stop, listening, fatal>>
    BY <1>2 DEF Handle
  <2> QED BY <2>1, <2>2, ServerAssumption
<1>3. CASE ReceiveOutgoing
  <2>1. outgoing[Len(outgoing)] \in BOOLEAN
    BY <1>3 DEF ReceiveOutgoing
  <2> QED BY <1>3, <2>1, ServerAssumption DEF ReceiveOutgoing
<1>4. CASE CloseBlock \/ MakeBlock \/ \E h \in Clients : Respond(h)
  BY <1>4 DEF CloseBlock, MakeBlock, Respond
<1>5. CASE \E h \in Clients : Connection(h)
  BY <1>5 DEF Connection, Accept, ConnectionEnds, ClientSends, ResponseTimeout, Retrying, ResponseQuit,
              ReadCurrentBlock, BlockEnds, BlockQuit, TakeRequest, OnlyHandlers
<1>6. CASE ListenEnds \/ TakeInbox \/ Stop
  BY <1>6 DEF ListenEnds, TakeInbox, Stop
<1>7. CASE TakeQuit \/ BroadcastQuit \/ Rebroadcast
  BY <1>7 DEF TakeQuit, BroadcastQuit, Rebroadcast, vars, serverVars
<1>8. CASE \E p \in config.peers : ClosePeer(p) \/ Peer(p)
  BY <1>8 DEF ClosePeer, Peer, serverVars
<1> QED BY <1>1, <1>2, <1>3, <1>4, <1>5, <1>6, <1>7, <1>8 DEF Next, Processing

\* The three parts of the server interfere only where the lemmas above say.
LEMMA ServerStep ==
    ASSUME ServerInv, [Next]_vars
    PROVE  ServerInv'
<1>1. Clients \subseteq Handlers /\ config.peers \subseteq Peers
  BY ServerAssumption DEF Clients, ServerInv, ChannelsInv
<1>2. CASE UNCHANGED vars
  BY <1>2 DEF vars, serverVars, ServerInv, RedialInv, GoroutinesInv, ChannelsInv, TimerIsForOwnRequest, OutgoingHasRoom
<1>3. CASE Next
  <2>1. ChannelsInv'
    BY <1>3, ChannelsStep
  <2>2. GoroutinesInv'
    <3>1. CASE \E h \in Clients : Connection(h)
      BY <1>1, <3>1, ConnectionStep DEF ServerInv, ChannelsInv
    <3>2. CASE Processing \/ TakeInbox
      BY <1>1, <3>2, ProcessingStep DEF ServerInv
    <3>3. CASE ListenEnds \/ Stop \/ TakeQuit \/ BroadcastQuit \/ Rebroadcast
      BY <3>3 DEF ListenEnds, Stop, TakeQuit, BroadcastQuit, Rebroadcast, vars, serverVars,
                  ServerInv, GoroutinesInv, TimerIsForOwnRequest, OutgoingHasRoom
    <3>4. CASE ReceiveOutgoing
      BY <3>4 DEF ReceiveOutgoing, ServerInv, GoroutinesInv, TimerIsForOwnRequest, OutgoingHasRoom
    <3>5. CASE \E p \in config.peers : ClosePeer(p) \/ Peer(p)
      BY <3>5 DEF ClosePeer, Peer, serverVars, ServerInv, GoroutinesInv, TimerIsForOwnRequest, OutgoingHasRoom
    <3> QED BY <1>3, <3>1, <3>2, <3>3, <3>4, <3>5 DEF Next
  <2>3. RedialInv'
    <3>1. CASE ReceiveOutgoing \/ Rebroadcast
      BY <3>1, BroadcastStep DEF ReceiveOutgoing, Rebroadcast, ServerInv
    <3>2. CASE \E p \in config.peers : ClosePeer(p) \/ Peer(p)
      BY <1>1, <3>2, PeerStep, CloseStep DEF ClosePeer, Peer, ServerInv
    <3>3. CASE UNCHANGED redial
      BY <3>3 DEF ServerInv, RedialInv
    <3>4. (\E h \in Clients : Connection(h)) => UNCHANGED redial
      BY DEF Connection, Accept, ConnectionEnds, ClientSends, ResponseTimeout, Retrying, ResponseQuit,
             ReadCurrentBlock, BlockEnds, BlockQuit, TakeRequest, OnlyHandlers
    <3>5. Processing => UNCHANGED redial
      BY DEF Processing, Handle, SendOutgoing, CloseBlock, MakeBlock, Respond
    <3>6. ListenEnds \/ TakeInbox \/ TakeQuit \/ BroadcastQuit \/ Stop => UNCHANGED redial
      BY DEF ListenEnds, TakeInbox, TakeQuit, BroadcastQuit, Stop, vars
    <3> QED BY <1>3, <3>1, <3>2, <3>3, <3>4, <3>5, <3>6 DEF Next
  <2> QED BY <2>1, <2>2, <2>3 DEF ServerInv
<1> QED BY <1>2, <1>3

\* The inductive invariant holds of every server.
THEOREM ServerInvariance == Spec => []ServerInv
<1>1. Init => ServerInv
  <2> SUFFICES ASSUME Init PROVE ServerInv
    OBVIOUS
  <2>1. NewRedialConnection \in RedialConnections /\ ConnectionInv(NewRedialConnection)
    BY RedialAssumption DEF NewRedialConnection, RedialConnections, ConnectionInv, Steps
  <2>2. RedialInv
    BY <2>1 DEF Init, RedialInv
  <2>3. At("done") \in HandlerStates /\ At("done").pc = "done"
    BY DEF At, HandlerStates, Wants
  <2>4. [Selecting EXCEPT !.pc = "outgoing"] \in ProcStates
    BY DEF Selecting, ProcStates
  <2>5. GoroutinesInv
    BY <2>3, <2>4 DEF Init, GoroutinesInv, TimerIsForOwnRequest, OutgoingHasRoom
  <2>6. ChannelsInv
    <3>1. outgoing \in Seq(BOOLEAN) /\ Len(outgoing) <= OutgoingSize
      BY ServerAssumption DEF Init
    <3>2. blockClosed \in BOOLEAN /\ last \in BOOLEAN /\ listening \in BOOLEAN /\ fatal \in BOOLEAN
      BY Zenon DEF Init
    <3> QED BY <3>1, <3>2 DEF Init, ChannelsInv
  <2> QED BY <2>2, <2>5, <2>6 DEF ServerInv
<1>2. ServerInv /\ [Next]_vars => ServerInv'
  BY ServerStep
<1> QED BY <1>1, <1>2, PTL DEF Spec

\* The goroutines stay at their steps, and no channel of server.go or
\* redial_connection.go holds more than it has room for.
THEOREM ServerTypes == Spec => []TypeOK
<1>1. ServerInv => TypeOK
  BY DEF ServerInv, RedialInv, GoroutinesInv, ChannelsInv, TypeOK, RedialConnections, HandlerStates, ProcStates
<1> QED BY <1>1, ServerInvariance, PTL

\* With any number of connections, handleMessageOnce has a timer running only while
\* processMessagesForever is at its own request.
THEOREM TimersAreForOwnRequests == Spec => []TimerIsForOwnRequest
<1>1. ServerInv => TimerIsForOwnRequest
  BY DEF ServerInv, GoroutinesInv
<1> QED BY <1>1, ServerInvariance, PTL

\* Whatever the capacity of Server.outgoing, unsafeUpdateOutgoing finds it empty
\* and never blocks the goroutine that answers requests.
THEOREM OutgoingNeverBlocks == Spec => []OutgoingHasRoom
<1>1. ServerInv => OutgoingHasRoom
  BY DEF ServerInv, GoroutinesInv
<1> QED BY <1>1, ServerInvariance, PTL

\* With any number of peers and any outbox, runOutgoing never sends on a nil
\* BasicConnection, however Close, dialling and broken connections interleave.
THEOREM NeverSendsOnNil == Spec => []SendsOnConnection
<1>1. ServerInv => SendsOnConnection
  BY DEF ServerInv, RedialInv, ConnectionInv, SendsOnConnection
<1> QED BY <1>1, ServerInvariance, PTL

===============================================================================
