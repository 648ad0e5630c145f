------------------------------ MODULE LocalRpc ------------------------------
(***************************************************************************)
(* The local RPC server both programs open for their terminal interface    *)
(* (internal/rpc): Serve with its accept loop, the reader of a connection, *)
(* its streaming handlers, Close, and the ring of log entries the handler  *)
(* of system.logs reads.  A client may send requests ahead, stop reading   *)
(* or hang up.                                                             *)
(***************************************************************************)
EXTENDS Naturals, Sequences, FiniteSets

CONSTANTS RpcConns,        \* connections clients make
          MaxRpcRequests,  \* requests sent in a behaviour
          MaxStreamLines,  \* intermediate results of one stream
          LineRoom,        \* lines a socket holds for a client that does not read
          MaxRpcFaults,    \* failing listens, accepts and reads
          LogCap,          \* capacity of the log ring
          MaxLogs          \* entries logged in a behaviour

ASSUME RpcAssumption ==
  /\ MaxRpcRequests \in Nat /\ MaxRpcFaults \in Nat /\ MaxLogs \in Nat
  /\ LogCap \in Nat \ {0}

VARIABLES
  serve,      \* where Serve is
  lnOpen,     \* the listener is open
  closer,     \* where Close is
  link,       \* connection -> what the server has done with it
  sock,       \* connection -> "open", "peer" (the client hung up), "closed" (by the server)
  inbox,      \* connection -> requests sent and not yet scanned
  busy,       \* connection -> requests the reader is handling
  streams,    \* connection -> requests with a running stream handler
  lines,      \* connection -> lines written, oldest first
  linesRead,  \* connection -> lines the client has read
  waits,      \* the server's WaitGroup
  requestsSent, \* requests sent so far
  rpcFaults,
  ring,       \* LogBuffer: entries, idx, full
  logged      \* entries logged so far

lnVars == <<serve, lnOpen, rpcFaults>>
connVars == <<link, sock, inbox, busy, streams, lines, linesRead, waits, requestsSent>>
logVars == <<ring, logged>>
rpcVars == <<lnVars, closer, connVars, logVars>>

\* A request: its place among those sent, what is called, and whether it has an ID.
RpcRequest == [n : 1..MaxRpcRequests, method : {"call", "stream", "garbled"}, id : BOOLEAN]
Line == [n : 1..MaxRpcRequests, stream : BOOLEAN, last : BOOLEAN]

RpcTypeOK ==
  /\ serve \in {"starting", "bound", "accepting", "holding", "backoff", "ended"}
  /\ lnOpen \in BOOLEAN /\ closer \in {"open", "took", "tookNone", "shut", "shutNone", "waiting", "closed"}
  /\ link \in [RpcConns -> {"none", "backlog", "held", "served", "leaving", "ended"}]
  /\ sock \in [RpcConns -> {"open", "peer", "closed"}]
  /\ inbox \in [RpcConns -> Seq(RpcRequest)] /\ busy \in [RpcConns -> SUBSET RpcRequest]
  /\ streams \in [RpcConns -> SUBSET RpcRequest] /\ lines \in [RpcConns -> Seq(Line)]
  /\ \A c \in RpcConns : linesRead[c] \in 0..Len(lines[c])
  /\ waits \in Nat /\ requestsSent \in 0..MaxRpcRequests /\ rpcFaults \in 0..MaxRpcFaults
  /\ ring \in [entries : [0..LogCap - 1 -> 0..MaxLogs], idx : 0..LogCap - 1, full : BOOLEAN]
  /\ logged \in 0..MaxLogs

Served(c) == link[c] \in {"served", "leaving"}
NeverDone == FALSE   \* mutant: acceptLoop does not look at done
Done == closer \in {"shut", "shutNone", "waiting", "closed"}

RpcInit ==
  /\ serve = "starting" /\ lnOpen = FALSE /\ closer = "open" /\ rpcFaults = 0
  /\ link = [c \in RpcConns |-> "none"] /\ sock = [c \in RpcConns |-> "closed"]
  /\ inbox = [c \in RpcConns |-> <<>>] /\ lines = [c \in RpcConns |-> <<>>]
  /\ busy = [c \in RpcConns |-> {}] /\ streams = [c \in RpcConns |-> {}]
  /\ linesRead = [c \in RpcConns |-> 0] /\ waits = 0 /\ requestsSent = 0
  /\ ring = [entries |-> [i \in 0..LogCap - 1 |-> 0], idx |-> 0, full |-> FALSE]
  /\ logged = 0

-----------------------------------------------------------------------------
(* Serve.                                                                  *)

RpcFault == rpcFaults < MaxRpcFaults /\ rpcFaults' = rpcFaults + 1

\* The socket is removed, bound and its mode changed, or Serve fails.
ListenLocal ==
  /\ serve = "starting"
  /\ \/ serve' = "bound" /\ lnOpen' = TRUE /\ UNCHANGED rpcFaults
     \/ serve' = "ended" /\ RpcFault /\ UNCHANGED lnOpen
  /\ UNCHANGED <<closer, connVars, logVars>>

\* s.ln = ln: only from here on does Close know the listener.
KeepListener ==
  /\ serve = "bound" /\ serve' = "accepting"
  /\ UNCHANGED <<lnOpen, rpcFaults, closer, connVars, logVars>>

Accept(c) ==
  /\ serve = "accepting" /\ lnOpen /\ link[c] = "backlog"
  /\ serve' = "holding" /\ link' = [link EXCEPT ![c] = "held"]
  /\ UNCHANGED <<lnOpen, rpcFaults, closer, sock, inbox, busy, streams, lines, linesRead, waits, requestsSent, logVars>>

\* Accept fails: Serve returns while closing or when the error is fatal, and sleeps
\* before it tries again when the error is temporary.
AcceptFails ==
  /\ serve = "accepting"
  /\ \/ ~lnOpen /\ serve' = "ended" /\ UNCHANGED rpcFaults
     \/ lnOpen /\ RpcFault /\ serve' \in IF Done THEN {"ended"} ELSE {"backoff", "ended"}
  /\ UNCHANGED <<lnOpen, closer, connVars, logVars>>

BackoffEnds ==
  /\ serve = "backoff" /\ serve' = "accepting"
  /\ UNCHANGED <<lnOpen, rpcFaults, closer, connVars, logVars>>

\* Under connMu: a connection accepted while the server closes is dropped.
Admit(c) ==
  /\ serve = "holding" /\ link[c] = "held"
  /\ IF Done
     THEN /\ link' = [link EXCEPT ![c] = "ended"] /\ sock' = [sock EXCEPT ![c] = "closed"]
          /\ serve' = "ended" /\ UNCHANGED waits
     ELSE /\ link' = [link EXCEPT ![c] = "served"] /\ waits' = waits + 1
          /\ serve' = "accepting" /\ UNCHANGED sock
  /\ UNCHANGED <<lnOpen, rpcFaults, closer, inbox, busy, streams, lines, linesRead, requestsSent, logVars>>

ServeStep == ListenLocal \/ KeepListener \/ AcceptFails \/ BackoffEnds \/ \E c \in RpcConns : Accept(c) \/ Admit(c)

-----------------------------------------------------------------------------
(* Close: the listener is read, the connections are closed together with   *)
(* done, then the listener, and the WaitGroup is waited for.               *)

TakeListener ==
  /\ closer = "open"
  /\ closer' = IF serve \in {"starting", "bound"} THEN "tookNone" ELSE "took"
  /\ UNCHANGED <<lnVars, connVars, logVars>>

ShutDown ==
  /\ \/ closer = "took" /\ closer' = "shut"
     \/ closer = "tookNone" /\ closer' = "shutNone"
  /\ sock' = [c \in RpcConns |-> IF Served(c) THEN "closed" ELSE sock[c]]
  /\ UNCHANGED <<lnVars, link, inbox, busy, streams, lines, linesRead, waits, requestsSent, logVars>>

\* With the listener go the connections nobody has accepted.
CloseListener ==
  /\ closer \in {"shut", "shutNone"} /\ closer' = "waiting"
  /\ IF closer = "shut"
     THEN /\ lnOpen' = FALSE
          /\ link' = [c \in RpcConns |-> IF link[c] = "backlog" THEN "ended" ELSE link[c]]
          /\ sock' = [c \in RpcConns |-> IF link[c] = "backlog" THEN "closed" ELSE sock[c]]
     ELSE UNCHANGED <<lnOpen, link, sock>>
  /\ UNCHANGED <<serve, rpcFaults, inbox, busy, streams, lines, linesRead, waits, requestsSent, logVars>>

WaitReturns ==
  /\ closer = "waiting" /\ waits = 0 /\ closer' = "closed"
  /\ UNCHANGED <<lnVars, connVars, logVars>>

CloserStep == ShutDown \/ CloseListener \/ WaitReturns

-----------------------------------------------------------------------------
(* A connection.                                                           *)

\* conn.Write returns when the socket has room, or the connection is gone.
CanWrite(c) == sock[c] = "open" => Len(lines[c]) - linesRead[c] < LineRoom
Write(c, req, last) ==
  lines' = IF sock[c] # "open" THEN lines
           ELSE [lines EXCEPT ![c] = Append(@, [n |-> req.n, stream |-> req.method = "stream", last |-> last])]

\* The reader handles a request before it scans the next, streams apart.
AlwaysFree(c) == TRUE   \* mutant: calls run in goroutines of their own
ReaderFree(c) == busy[c] = {}
EverythingInline(req) == TRUE   \* mutant: the reader runs streams, too
Inline(req) == req.method # "stream"

\* The next line is scanned (bufio may hold it already when the connection is closed).
Scan(c) ==
  /\ link[c] = "served" /\ inbox[c] # <<>> /\ ReaderFree(c)
  /\ inbox' = [inbox EXCEPT ![c] = Tail(@)]
  /\ IF Inline(Head(inbox[c]))
     THEN busy' = [busy EXCEPT ![c] = @ \union {Head(inbox[c])}] /\ UNCHANGED <<streams, waits>>
     ELSE /\ streams' = [streams EXCEPT ![c] = @ \union {Head(inbox[c])}] /\ waits' = waits + 1
          /\ UNCHANGED busy
  /\ UNCHANGED <<lnVars, closer, link, sock, lines, linesRead, requestsSent, logVars>>

\* handleCall, or an answer to a line that cannot be parsed: no ID, no response.
CallEnds(c, req) ==
  /\ req \in busy[c] /\ (req.id => CanWrite(c))
  /\ busy' = [busy EXCEPT ![c] = @ \ {req}]
  /\ IF req.id THEN Write(c, req, TRUE) ELSE UNCHANGED lines
  /\ UNCHANGED <<lnVars, closer, link, sock, inbox, streams, linesRead, waits, requestsSent, logVars>>

StreamSends(c, req) ==
  /\ req \in streams[c] /\ sock[c] = "open" /\ CanWrite(c)
  /\ Cardinality({i \in DOMAIN lines[c] : lines[c][i].n = req.n}) < MaxStreamLines
  /\ Write(c, req, FALSE)
  /\ UNCHANGED <<lnVars, closer, link, sock, inbox, busy, streams, linesRead, waits, requestsSent, logVars>>

\* The handler of a stream returns, by itself or because its context is cancelled.
StreamEnds(c, req) ==
  /\ req \in streams[c] /\ (req.id => CanWrite(c))
  /\ streams' = [streams EXCEPT ![c] = @ \ {req}] /\ waits' = waits - 1
  /\ IF req.id THEN Write(c, req, TRUE) ELSE UNCHANGED lines
  /\ UNCHANGED <<lnVars, closer, link, sock, inbox, busy, linesRead, requestsSent, logVars>>

\* Scan returns false (the connection is closed, the client's last line is read, or a line
\* is too long), and the context of the streams is cancelled.
Leave(c) ==
  /\ link[c] = "served" /\ ReaderFree(c)
  /\ \/ sock[c] = "closed" /\ UNCHANGED rpcFaults
     \/ sock[c] = "peer" /\ inbox[c] = <<>> /\ UNCHANGED rpcFaults
     \/ sock[c] = "open" /\ inbox[c] # <<>> /\ RpcFault
  /\ link' = [link EXCEPT ![c] = "leaving"]
  /\ UNCHANGED <<serve, lnOpen, closer, sock, inbox, busy, streams, lines, linesRead, waits, requestsSent, logVars>>

\* The connection is closed and forgotten, and the WaitGroup told.
Gone(c) ==
  /\ link[c] = "leaving"
  /\ link' = [link EXCEPT ![c] = "ended"] /\ sock' = [sock EXCEPT ![c] = "closed"]
  /\ waits' = waits - 1
  /\ UNCHANGED <<lnVars, closer, inbox, busy, streams, lines, linesRead, requestsSent, logVars>>

ReaderStep(c) == Scan(c) \/ Leave(c) \/ Gone(c) \/ \E req \in busy[c] : req.method # "stream" /\ CallEnds(c, req)
StreamStep(c) == link[c] \in {"leaving", "ended"} /\ \E req \in streams[c] : StreamEnds(c, req)

-----------------------------------------------------------------------------
(* The client and the log.                                                 *)

\* The kernel completes the connection before the server accepts it.
Dial(c) ==
  /\ lnOpen /\ link[c] = "none"
  /\ link' = [link EXCEPT ![c] = "backlog"] /\ sock' = [sock EXCEPT ![c] = "open"]
  /\ UNCHANGED <<lnVars, closer, inbox, busy, streams, lines, linesRead, waits, requestsSent, logVars>>

\* Call and Stream write a request; other clients send notifications and ahead of answers.
Send(c) ==
  /\ sock[c] = "open" /\ requestsSent < MaxRpcRequests /\ requestsSent' = requestsSent + 1
  /\ \E req \in RpcRequest :
       /\ req.n = requestsSent + 1 /\ (req.method = "garbled" => req.id)
       /\ inbox' = [inbox EXCEPT ![c] = Append(@, req)]
  /\ UNCHANGED <<lnVars, closer, link, sock, busy, streams, lines, linesRead, waits, logVars>>

ClientReads(c) ==
  /\ sock[c] # "peer" /\ linesRead[c] < Len(lines[c]) /\ linesRead' = [linesRead EXCEPT ![c] = @ + 1]
  /\ UNCHANGED <<lnVars, closer, link, sock, inbox, busy, streams, lines, waits, requestsSent, logVars>>

HangUp(c) ==
  /\ sock[c] = "open" /\ sock' = [sock EXCEPT ![c] = "peer"]
  /\ UNCHANGED <<lnVars, closer, link, inbox, busy, streams, lines, linesRead, waits, requestsSent, logVars>>

FullTooLate(b, e) ==   \* mutant: full when the first entry is overwritten
  [entries |-> [b.entries EXCEPT ![b.idx] = e], idx |-> (b.idx + 1) % LogCap, full |-> b.full \/ b.entries[b.idx] # 0]

\* LogBuffer.Add.
RingWith(b, e) ==
  LET next == (b.idx + 1) % LogCap
  IN  [entries |-> [b.entries EXCEPT ![b.idx] = e], idx |-> next, full |-> b.full \/ next = 0]

Log ==
  /\ logged < MaxLogs /\ logged' = logged + 1 /\ ring' = RingWith(ring, logged + 1)
  /\ UNCHANGED <<lnVars, closer, connVars>>

\* LogBuffer.Recent: the last count entries the ring holds, in the order of time.
Recent(b, count) ==
  LET total == IF b.full THEN LogCap ELSE b.idx
      n     == IF count > total THEN total ELSE count
  IN  [i \in 1..n |-> b.entries[(b.idx + LogCap - n + i - 1) % LogCap]]

-----------------------------------------------------------------------------

ConnStep(c) ==
  \/ Dial(c) \/ Send(c) \/ ClientReads(c) \/ HangUp(c) \/ Scan(c) \/ Leave(c) \/ Gone(c)
  \/ \E req \in busy[c] : CallEnds(c, req)
  \/ \E req \in streams[c] : StreamSends(c, req) \/ StreamEnds(c, req)

\* (The log has readers and writers of its own: Log is a behaviour apart.)
RpcNext == ServeStep \/ TakeListener \/ CloserStep \/ \E c \in RpcConns : ConnStep(c)

\* The goroutines of the server run; a plain handler ends, a stream's only when its
\* context does.  Nobody has to call, to read or to close.
RpcFairness ==
  /\ WF_rpcVars(ServeStep) /\ WF_rpcVars(CloserStep)
  /\ \A c \in RpcConns : WF_rpcVars(ReaderStep(c)) /\ WF_rpcVars(StreamStep(c))

RpcSpec == RpcInit /\ [][RpcNext \/ Log]_rpcVars /\ RpcFairness

-----------------------------------------------------------------------------
(* Properties.                                                             *)

\* When Close returns, no connection is served and no handler runs, whatever was accepted
\* or started meanwhile: acceptLoop and Close agree under connMu, and a stream is added
\* to the WaitGroup inside a reader that is counted (server.go:124-135, 224-228).
CloseCoversAll ==
  closer = "closed" => \A c \in RpcConns : ~Served(c) /\ busy[c] = {} /\ streams[c] = {}

\* The server writes so that a client may pair answers with calls by their order, as
\* Client.Call does: nothing follows the last line of a request, and plain calls are
\* answered in turn (handleConn, handleStream).  It is about the server: a Client.Stream
\* that its onData ends leaves lines of it to the next call (client.go:129).
LinesPairUp ==
  \A c \in RpcConns : \A i, j \in DOMAIN lines[c] : i < j =>
    /\ lines[c][i].last => lines[c][j].n # lines[c][i].n
    /\ ~lines[c][i].stream /\ ~lines[c][j].stream => lines[c][i].n < lines[c][j].n

\* The log the terminal shows is the newest entries in the order of time, whatever was
\* asked for, before the ring is full, when it wraps and after.
RecentIsNewest ==
  \A count \in 0..LogCap + 1 :
    LET shown == Recent(ring, count)
    IN  /\ \A i \in DOMAIN shown : shown[i] = logged - Len(shown) + i
        /\ Len(shown) = CHOOSE n \in 0..LogCap : /\ n <= count /\ n <= logged
                                                 /\ n + 1 > count \/ n + 1 > logged \/ n = LogCap

\* Close ends: a reader leaves when its connection is closed, which ends its streams, so
\* a stream that waits for its context must not hold up the reader (server.go:237-246).
CloseEnds == closer = "took" \/ closer = "tookNone" ~> closer = "closed"
=============================================================================
