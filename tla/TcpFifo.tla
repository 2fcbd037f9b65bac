------------------------------- MODULE TcpFifo -------------------------------
(***************************************************************************)
(* The connection of TcpConnection over a path that keeps segments in       *)
(* order and loses none: the synchronous mode of the CLI, and the realtime  *)
(* mode as long as no two segments are due in the same tick and no table is *)
(* full.  queue[h] is what is on its way to h.  On such a path the code,    *)
(* which has no timer and retransmits nothing, has to make progress.        *)
(***************************************************************************)
EXTENDS TcpConnection, SequencesExt

VARIABLE queue

fifoVars == <<vars, queue>>

FifoInit == Init /\ queue = [h \in Hosts |-> <<>>]

\* The segments of the set segs (at most one) join the queue of h's peer.
Enqueue(h, segs) == queue' = [queue EXCEPT ![Peer(h)] = @ \o SetToSeq(segs)]

FifoConnect ==
  /\ TcpConnect
  /\ Enqueue(Client, {[flags |-> {"SYN"}, seq |-> ISN[Client], ack |-> 0,
                       payload |-> <<>>]})

FifoSend(h, len) ==
  /\ TcpSend(h, len)
  /\ Enqueue(h, {DataSegment(sock[h], [i \in 1 .. len |-> sent[h] + i])})

FifoClose(h) == TcpClose(h) /\ Enqueue(h, {FinSegment(sock[h])})

FifoDeliver(h) ==
  /\ queue[h] # <<>>
  /\ Deliver(h, Head(queue[h]))
  /\ queue' = [queue EXCEPT ![h] = Tail(@),
                            ![Peer(h)] = @ \o SetToSeq(HostReceive(h, Head(queue[h])).reply)]

FifoNext ==
  \/ TcpListen /\ UNCHANGED queue
  \/ FifoConnect
  \/ \E h \in Hosts :
       \/ \E len \in 1 .. MaxSegment : FifoSend(h, len)
       \/ \E max \in 1 .. MaxSegment : TcpRecv(h, max) /\ UNCHANGED queue
       \/ FifoClose(h)
       \/ FifoDeliver(h)

\* The main loop ticks the clock forever, so a queue that stays non-empty is
\* served again and again (weak fairness of FifoDeliver(h), whose guard is
\* that the queue is not empty).  The users need not do anything.
Fairness == \A h \in Hosts : \/ []<>(queue[h] = <<>>)
                             \/ []<><<FifoDeliver(h)>>_fifoVars

FifoSpec == FifoInit /\ [][FifoNext]_fifoVars /\ Fairness

-----------------------------------------------------------------------------
\* A SYN on its way to a listener opens the connection at both ends.
OpenCompletes ==
  (sock[Client].state = "SYN_SENT" /\ queue[Server] # <<>> /\ listening)
    ~> \A h \in Hosts : sock[h].state \in Synchronized

\* Every byte sent reaches the receive buffer of the peer, as long as the
\* stream fits in it, although nothing is ever retransmitted.
AllArrives ==
  \A h \in Hosts : \A n \in 1 .. MaxStream[h] :
    sent[h] = n ~> Arrived(Peer(h)) >= n \/ Freed(Peer(h))

\* Once both users have closed, both ends reach TIME_WAIT or are freed,
\* whichever of them closed first or both at once.
CloseCompletes ==
  (\A h \in Hosts : closed[h])
    ~> [](\A h \in Hosts : sock[h].state = "TIME_WAIT" \/ Freed(h))

\* When nothing is on its way both ends agree: whatever was sent has been
\* acknowledged and received, and a FIN has been taken.
QuiescentAgreement ==
  \A h \in Hosts :
    /\ queue = [g \in Hosts |-> <<>>]
    /\ sock[h].state \in Synchronized
    => /\ sock[Peer(h)].state \in Synchronized =>
            /\ sock[h].send_seq = sock[Peer(h)].recv_seq
            /\ sock[h].state = "ESTABLISHED" => sock[h].send_ack = sock[h].send_seq
       /\ closed[h] => Eof(Peer(h))
=============================================================================
