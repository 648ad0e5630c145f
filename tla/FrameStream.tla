---------------------------- MODULE FrameStream ----------------------------
(***************************************************************************)
(* One stream connection between two nodes and the Framer at either end    *)
(* (transport/framer.go, frame.go).  Several goroutines write at an end,   *)
(* under writeMu, into the buffered writer and from it into the kernel,    *)
(* which blocks when the peer does not read; one goroutine reads, answers  *)
(* keepalives and path probes itself and hands on the rest.  The dialling  *)
(* end's pool sends the keepalives and the queries of the DNS relay; the   *)
(* accepting end answers them.  A keepalive and its echo are told apart by *)
(* the sequence numbers an end waits for, not by the flags of the frame.   *)
(***************************************************************************)
EXTENDS Integers, Sequences, SequencesExt

CONSTANTS KernelRoom,  \* bound: parts of frames the kernel takes in one direction
          MaxPings,    \* bound: keepalives an end sends
          MaxWrites    \* bound: writes of packets, queries and probes

ASSUME StreamAssumption == {KernelRoom, MaxPings, MaxWrites} \subseteq Nat

VARIABLES bw,       \* Framer.bw: written by the end, not flushed
          wire,     \* flushed by the end, not read by the other
          writeMu,  \* the task of the end that holds the lock
          writers,  \* [end][name]: what the task still has to write
          kaPending,\* sequence numbers of keepalives the end waits for
          kaSeq,    \* kaSeqCounter
          resolving,\* DNS queries the end resolves in goroutines
          attached, \* Framer.conn is set
          cut,      \* the network has dropped the connection
          writes    \* writes made, of MaxWrites

fsVars == <<bw, wire, writeMu, writers, kaPending, kaSeq, resolving, attached, cut, writes>>

End == {"dialler", "acceptor"}
Other(e) == CHOOSE o \in End : o # e
TaskNames == {"batch", "data", "ping", "probe", "query", "answer", "reader", "closer"}
Free == "free"

(* What a frame is written as: WriteStreamDNS makes three writes, the      *)
(* others one.                                                             *)
WrittenAs(kind, n) == LET k == IF kind = "dns" THEN 3 ELSE 1
                  IN  [i \in 1 .. k |-> [kind |-> kind, n |-> n, i |-> i, of |-> k]]
Part == [kind : {"data", "dns", "keepalive", "probe", "reply"}, n : 0 .. MaxPings, i : 1 .. 3, of : {1, 3}]

NothingToWrite == [pc |-> "idle", out |-> <<>>]

FsTypeOK ==
    /\ \A e \in End : Range(bw[e]) \cup Range(wire[e]) \subseteq Part
    /\ writeMu \in [End -> TaskNames \cup {Free}]
    /\ \A e \in End, w \in TaskNames :
         /\ writers[e][w].pc \in {"idle", "wait", "write", "flush", "over"}
         /\ Range(writers[e][w].out) \subseteq Part
    /\ kaPending \in [End -> SUBSET (1 .. MaxPings)] /\ kaSeq \in [End -> 0 .. MaxPings]
    /\ resolving \in [End -> 0 .. MaxWrites] /\ attached \in [End -> BOOLEAN] /\ cut \in BOOLEAN /\ writes \in 0 .. MaxWrites

FsInit ==
    /\ bw = [e \in End |-> <<>>] /\ wire = bw
    /\ writeMu = [e \in End |-> Free]
    /\ writers = [e \in End |-> [w \in TaskNames |-> NothingToWrite]]
    /\ kaPending = [e \in End |-> {}] /\ kaSeq = [e \in End |-> 0]
    /\ resolving = [e \in End |-> 0]
    /\ attached = [e \in End |-> TRUE] /\ cut = FALSE /\ writes = 0

(* Who writes what: the connection's batches and the relay's queries at the *)
(* dialling end, the data plane's packets at the other.  Only the pool's    *)
(* connections are probed.                                                  *)
Writes(e) == IF e = "dialler" THEN {"batch", "query", "probe"} ELSE {"data", "probe"}
Pings == {"dialler"}
Frames(w) == CASE w = "batch" -> WrittenAs("data", 0) \o WrittenAs("data", 0)
               [] w = "data"  -> WrittenAs("data", 0)
               [] w = "probe" -> WrittenAs("probe", 0)
               [] OTHER       -> WrittenAs("dns", 0)

Set(e, w, pc, out) == [writers EXCEPT ![e][w] = [pc |-> pc, out |-> out]]

(* A task has something to write and goes for the lock.                    *)
StartWrite(e, w) ==
    /\ w \in Writes(e) /\ writers[e][w].pc = "idle" /\ writes < MaxWrites
    /\ writes' = writes + 1
    /\ writers' = Set(e, w, "wait", Frames(w))
    /\ UNCHANGED <<bw, wire, writeMu, kaPending, kaSeq, resolving, attached, cut>>

StartPing(e) ==
    /\ e \in Pings /\ writers[e]["ping"].pc = "idle" /\ kaSeq[e] < MaxPings
    /\ writers' = Set(e, "ping", "wait", <<>>)
    /\ UNCHANGED <<bw, wire, writeMu, kaPending, kaSeq, resolving, attached, cut, writes>>

(* The upstream answers a query; the goroutine writes the answer back.     *)
Resolved(e) ==
    /\ resolving[e] > 0 /\ writers[e]["answer"].pc = "idle"
    /\ resolving' = [resolving EXCEPT ![e] = @ - 1]
    /\ \/ writers' = Set(e, "answer", "wait", WrittenAs("dns", 0))
       \/ UNCHANGED writers
    /\ UNCHANGED <<bw, wire, writeMu, kaPending, kaSeq, attached, cut, writes>>

(* Every write: take writeMu, fail when the connection is gone.            *)
GuardedButDns(e, w) == writeMu[e] = Free \/ w \in {"query", "answer"}
Guarded(e, w) == writeMu[e] = Free

(* WriteKeepalive waits for the number before it writes it.                *)
AwaitedLast(e) == {kaSeq[e] + 1}
Awaited(e) == kaPending[e] \cup {kaSeq[e] + 1}

TakeLock(e, w) ==
    /\ writers[e][w].pc = "wait" /\ Guarded(e, w)
    /\ IF ~attached[e]
       THEN /\ writers' = Set(e, w, IF w = "closer" THEN "over" ELSE "idle", <<>>)
            /\ UNCHANGED <<writeMu, kaPending, kaSeq>>
       ELSE /\ writeMu' = [writeMu EXCEPT ![e] = w]
            /\ writers' = Set(e, w, IF w = "closer" THEN "flush" ELSE "write",
                           IF w = "ping" THEN WrittenAs("keepalive", kaSeq[e] + 1) ELSE writers[e][w].out)
            /\ kaPending' = IF w = "ping" THEN [kaPending EXCEPT ![e] = Awaited(e)] ELSE kaPending
            /\ kaSeq' = IF w = "ping" THEN [kaSeq EXCEPT ![e] = @ + 1] ELSE kaSeq
    /\ UNCHANGED <<bw, wire, resolving, attached, cut, writes>>

WritePart(e, w) ==
    /\ writers[e][w].pc = "write"
    /\ bw' = [bw EXCEPT ![e] = Append(@, Head(writers[e][w].out))]
    /\ writers' = Set(e, w, IF Len(writers[e][w].out) = 1 THEN "flush" ELSE "write", Tail(writers[e][w].out))
    /\ UNCHANGED <<wire, writeMu, kaPending, kaSeq, resolving, attached, cut, writes>>

(* Flush hands the buffer to the kernel as far as there is room; it blocks  *)
(* until the other end reads, or fails when the connection is gone.         *)
Gone(e) == cut \/ ~attached[Other(e)]
FlushPart(e, w) ==
    /\ writers[e][w].pc = "flush" /\ bw[e] # <<>>
    /\ \/ /\ ~Gone(e) /\ Len(wire[e]) < KernelRoom
          /\ wire' = [wire EXCEPT ![e] = Append(@, Head(bw[e]))]
          /\ bw' = [bw EXCEPT ![e] = Tail(@)]
       \/ /\ Gone(e)
          /\ bw' = [bw EXCEPT ![e] = <<>>] /\ UNCHANGED wire
    /\ UNCHANGED <<writeMu, writers, kaPending, kaSeq, resolving, attached, cut, writes>>

(* The write is over; Close also closes the connection before it lets go.  *)
Unlock(e, w) ==
    /\ writers[e][w].pc = "flush" /\ bw[e] = <<>>
    /\ writeMu' = [writeMu EXCEPT ![e] = Free]
    /\ writers' = Set(e, w, IF w = "closer" THEN "over" ELSE "idle", <<>>)
    /\ attached' = IF w = "closer" THEN [attached EXCEPT ![e] = FALSE] ELSE attached
    /\ wire' = IF w = "closer" THEN [wire EXCEPT ![Other(e)] = <<>>] ELSE wire
    /\ UNCHANGED <<bw, kaPending, kaSeq, resolving, cut, writes>>

-----------------------------------------------------------------------------
Echo(n) == WrittenAs("keepalive", n)

Reading(e) == attached[e] /\ writers[e]["reader"].pc = "idle"

(* readStreamFrameRaw takes in the parts of a frame; with the last of them *)
(* a keepalive the end waits for is an echo, and any other is answered, by *)
(* the reader itself; so is a path probe, on this connection when it is    *)
(* the only one (HandleProbeFrame).  The accepting end resolves a query in *)
(* a goroutine, the dialling end hands the answer over.                    *)
TakePacket(e) ==
    /\ Reading(e) /\ wire[Other(e)] # <<>>
    /\ LET f == Head(wire[Other(e)]) IN
         /\ wire' = [wire EXCEPT ![Other(e)] = Tail(@)]
         /\ kaPending' = IF f.kind = "keepalive" THEN [kaPending EXCEPT ![e] = @ \ {f.n}] ELSE kaPending
         /\ writers' = IF f.kind = "keepalive" /\ f.n \notin kaPending[e]
                    THEN Set(e, "reader", "wait", Echo(f.n))
                    ELSE IF f.kind = "probe" THEN Set(e, "reader", "wait", WrittenAs("reply", 0))
                    ELSE writers
         /\ resolving' = IF f.kind = "dns" /\ f.i = f.of /\ e = "acceptor"
                         THEN [resolving EXCEPT ![e] = @ + 1] ELSE resolving
    /\ UNCHANGED <<bw, writeMu, kaSeq, attached, cut, writes>>

(* The reader fails, or the end is closed from above: Close goes for the   *)
(* lock that a blocked writer may hold.                                    *)
StartClose(e) ==
    /\ writers[e]["closer"].pc = "idle"
    /\ \/ Gone(e) /\ Reading(e) /\ wire[Other(e)] = <<>>
       \/ attached[Other(e)] /\ ~cut
    /\ writers' = Set(e, "closer", "wait", <<>>)
    /\ UNCHANGED <<bw, wire, writeMu, kaPending, kaSeq, resolving, attached, cut, writes>>

NetworkDrops ==
    /\ ~cut /\ cut' = TRUE
    /\ wire' = [e \in End |-> <<>>]
    /\ UNCHANGED <<bw, writeMu, writers, kaPending, kaSeq, resolving, attached, writes>>

TaskStep(e, w) == TakeLock(e, w) \/ WritePart(e, w) \/ FlushPart(e, w) \/ Unlock(e, w)

FsNext ==
    \/ \E e \in End : \/ StartPing(e) \/ Resolved(e) \/ TakePacket(e) \/ StartClose(e)
                      \/ \E w \in TaskNames : StartWrite(e, w) \/ TaskStep(e, w)
    \/ NetworkDrops

-----------------------------------------------------------------------------
(* Properties.                                                             *)

Out(e) == wire[e] \o bw[e]

\* The parts of a frame follow each other whatever other goroutines write: the reader
\* never takes the middle of one frame for the length of the next (Framer.writeMu).
FramesWhole ==
    \A e \in End : ~Gone(e) => \A j \in 1 .. Len(Out(e)) :
        /\ j > 1 /\ Out(e)[j].i > 1 => Out(e)[j - 1] = [Out(e)[j] EXCEPT !.i = @ - 1]
        /\ j < Len(Out(e)) /\ Out(e)[j].i < Out(e)[j].of => Out(e)[j + 1] = [Out(e)[j] EXCEPT !.i = @ + 1]

InFlight(e) == {j \in 1 .. Len(Out(e)) : Out(e)[j].kind = "keepalive"}

\* A keepalive goes over and comes back once: what travels to an end that does not wait
\* for it is awaited by the other, so an echo is never answered by another echo, and a
\* round trip is never measured on somebody else's request (TakePacket, WriteKeepalive).
EchoedOnce ==
    \A e \in End : \A j \in InFlight(e) :
        \/ Out(e)[j].n \in kaPending[e] /\ Out(e)[j].n \notin kaPending[Other(e)] /\ e \in Pings
        \/ Out(e)[j].n \in kaPending[Other(e)] /\ e \notin Pings
=============================================================================
