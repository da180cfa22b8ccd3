-------------------------------- MODULE Link --------------------------------
(***************************************************************************)
(* A client and a server on one connection: ClientSession, whose threads   *)
(* send, and ServerSession, which reads and is polled.  The two meet in    *)
(* the network, which the sessions leave open: an accept or a handshake    *)
(* succeeds only when the other side has done its part, and a frame is     *)
(* read only when one has been written.                                    *)
(*                                                                         *)
(* The direction from the server to the client is the same with the roles  *)
(* exchanged, but for the server's write side: it is left out, and with it *)
(* the server's senders.  The server's variables have the names they have  *)
(* in ServerSession, the client's begin with c.                            *)
(***************************************************************************)
EXTENDS Integers, Sequences, FiniteSets, TLC

CONSTANTS Senders,    \* the threads of the client's application
          IOThreads,  \* the io threads of the server
          MaxSends    \* bound: calls of send() by each of the client's threads

\* A program has finitely many threads.
ASSUME LinkAssumption == MaxSends \in Nat /\ IsFiniteSet(Senders)

VARIABLES
  cIoRun, cStopped, cChain, cStream,
  cPosted, cIsWriting, cSendBuffer, cInFlight, cCompleted,
  cPc, cIsEmpty, cSendQueue, cSent,
  cReceived, cReceiveBuffer, cReceiveQueue, cDelivered, cPolling,
  cEventQueue, cReported,
  stopped, chain, stream, calling, streamRaced, appPc, sendQueue, sent,
  posted, pc, claimed, isWriting, sendBuffer, inFlight, written, raced,
  received, receiveBuffer, receiveQueue, delivered, polling, eventQueue, reported,
  taken,      \* the connection has taken the frame of the write under way
  wire        \* history: the frames the connection has taken from the client

Client == INSTANCE ClientSession
            WITH AppThreads <- Senders, MaxFrames <- 0,
                 ioRun <- cIoRun, stopped <- cStopped, chain <- cChain, stream <- cStream,
                 posted <- cPosted, isWriting <- cIsWriting, sendBuffer <- cSendBuffer,
                 inFlight <- cInFlight, completed <- cCompleted, pc <- cPc,
                 isEmpty <- cIsEmpty, sendQueue <- cSendQueue, sent <- cSent,
                 received <- cReceived, receiveBuffer <- cReceiveBuffer,
                 receiveQueue <- cReceiveQueue, delivered <- cDelivered,
                 polling <- cPolling, eventQueue <- cEventQueue, reported <- cReported

Server == INSTANCE ServerSession
            WITH AppThreads <- {}, MaxSends <- 0,
                 MaxFrames <- MaxSends * Cardinality(Senders)

clientVars == <<cIoRun, cStopped, cChain, cStream, cPosted, cIsWriting, cSendBuffer,
  cInFlight, cCompleted, cPc, cIsEmpty, cSendQueue, cSent, cReceived, cReceiveBuffer,
  cReceiveQueue, cDelivered, cPolling, cEventQueue, cReported>>
serverVars == <<stopped, chain, stream, calling, streamRaced, appPc, sendQueue, sent, posted, pc, claimed,
  isWriting, sendBuffer, inFlight, written, raced, received, receiveBuffer,
  receiveQueue, delivered, polling, eventQueue, reported>>
networkVars == <<taken, wire>>
vars == <<clientVars, serverVars, networkVars>>

Init == Client!Init /\ Server!Init /\ taken = FALSE /\ wire = <<>>

-----------------------------------------------------------------------------
(* The network: what one side may see of the other.                        *)

Connected == cStream # "closed"

\* The server has sent its response to the upgrade.
Accepted == stream = "open" \/ Server!Reported("read") > 0

\* The connection takes the last byte of the frame under way, once for each
\* async_write and whatever m_sendBuffer holds: the write is going to succeed.
\* One that is not taken fails.
Transmit ==
  /\ Client!HandlersRun /\ ~taken
  /\ \E w \in cInFlight : w.usable
  /\ Connected /\ cStream # "failed"
  /\ taken' = TRUE
  /\ wire' = Append(wire, cSendBuffer)
  /\ UNCHANGED <<clientVars, serverVars>>

-----------------------------------------------------------------------------

ClientStep ==
  /\ \/ Client!Stop \/ Client!PollStep
     \/ \E t \in Senders : Client!SendStep(t)
     \/ Client!Run \/ Client!RunReturns \/ Client!PostedDoWrite
     \/ \E ec \in BOOLEAN : Client!onResolve(ec) \/ Client!onConnect(ec)
     \/ \E ec \in BOOLEAN : (ec \/ Accepted) /\ Client!onHandshake(ec)
     \/ Client!onRead(TRUE)
  /\ UNCHANGED <<serverVars, networkVars>>

\* The write under way completes, with success if the connection has taken it.
ClientWritten ==
  /\ \E w \in cInFlight : Client!onWrite(w, ~taken)
  /\ taken' = FALSE
  /\ UNCHANGED <<serverVars, wire>>

\* The server reads the next frame that has been taken from the client, if the
\* connection brings it.
ServerReads(h) ==
  /\ \E ec \in BOOLEAN : (ec \/ received < Len(wire)) /\ Server!onRead(h, ec)
  /\ UNCHANGED <<clientVars, networkVars>>

ServerPolls == Server!PollStep /\ UNCHANGED <<clientVars, networkVars>>

ServerStep ==
  /\ \/ Server!Stop
     \/ \E h \in IOThreads : Connected /\ Server!Run(h)
     \/ \E h \in IOThreads : Server!Called(h)
     \/ \E h \in IOThreads, ec \in BOOLEAN : Server!onAccept(h, ec)
  /\ UNCHANGED <<clientVars, networkVars>>

Next ==
  \/ Transmit \/ ClientStep \/ ClientWritten \/ ServerStep \/ ServerPolls
  \/ \E h \in IOThreads : ServerReads(h)

Spec == Init /\ [][Next]_vars

-----------------------------------------------------------------------------
(* Safety.                                                                 *)

\* The message in the frame at place p.
MessageAt(p) == wire[Server!FrameAt(p)[1]]

(***************************************************************************)
(* What the server's application gets, or will get when it polls, are      *)
(* messages that threads of the client have handed to send(): none of them *)
(* comes twice, and in one io thread's queue those of each sender come in  *)
(* the order in which it sent them - through two outgoing and incoming     *)
(* queues, the buffers m_sendBuffer and m_receiveBuffer that are used for  *)
(* every message, a connection that takes what m_sendBuffer holds for each *)
(* async_write and may fail at any point, and io threads that share the    *)
(* server's session (datareceiverwebsocket.cpp 66-71, 125-137, 158-172;    *)
(* dataslingerwebsocket.cpp 104-118).                                      *)
(***************************************************************************)
EndToEnd ==
  /\ \A p \in Server!FramePlaces :
       \E t \in Senders : \E n \in 1..cSent[t] : MessageAt(p) = [from |-> t, seq |-> n]
  /\ \A p, q \in Server!FramePlaces : MessageAt(p) = MessageAt(q) => p = q
  /\ \A h \in IOThreads : \A i, j \in 1..Len(receiveQueue[h]) :
       LET m == MessageAt(<<"queue", h, i>>)
           n == MessageAt(<<"queue", h, j>>)
       IN  i < j /\ m.from = n.from => m.seq < n.seq

(***************************************************************************)
(* The stream of one sender's messages has no gap that nobody is told of:  *)
(* when a later message went out and an earlier one did not before it, the *)
(* earlier one's write has been reported as failed.  Such a gap exists: a  *)
(* write begun before the connection is made fails and m_socketStream is   *)
(* still good for those after it (datareceiverwebsocket.cpp 63-72,         *)
(* 125-137, 158-172).                                                      *)
(***************************************************************************)
NoSilentGap ==
  \A i \in 1..Len(wire) : \A n \in 1..(wire[i].seq - 1) :
    LET m == [wire[i] EXCEPT !.seq = n]
    IN  \/ \E j \in 1..(i - 1) : wire[j] = m
        \/ \E j \in 1..Len(cCompleted) : cCompleted[j] = [msg |-> m, ok |-> FALSE]

(***************************************************************************)
(* Each frame the server has read is in one place, whole and alone, and in *)
(* one io thread's queue in the order in which it was read: the property   *)
(* of ServerSession, with a client that really sends.                      *)
(***************************************************************************)
FramesOnce == Server!FramesOnce

\* The threads of each side are interchangeable.
Symmetry == Permutations(Senders) \cup Permutations(IOThreads)
=============================================================================
