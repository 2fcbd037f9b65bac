------------------------------ MODULE ByteStream ------------------------------
(***************************************************************************)
(* What a TCP connection promises its two users, without segments: each     *)
(* direction is a byte stream.  A user appends bytes until it closes; the   *)
(* other one reads them in order, without gaps or repetitions, and sees     *)
(* the end of the stream only after every byte has arrived.                 *)
(***************************************************************************)
EXTENDS Integers, Sequences

CONSTANTS Hosts, Peer(_),
          MaxWrite    \* the largest number of bytes one call writes

VARIABLES
  sent,      \* sent[h]: how many bytes the user of h has written
  arrived,   \* arrived[h]: how many bytes can be or have been read at h
  read,      \* read[h]: the bytes read at h, each named by its position
  closed,    \* closed[h]: the user of h has closed its direction
  eof        \* eof[h]: h has been told that its peer closed

vars == <<sent, arrived, read, closed, eof>>

Init == /\ sent = [h \in Hosts |-> 0]
        /\ arrived = [h \in Hosts |-> 0]
        /\ read = [h \in Hosts |-> <<>>]
        /\ closed = [h \in Hosts |-> FALSE]
        /\ eof = [h \in Hosts |-> FALSE]

Write(h) == /\ ~closed[h]
            /\ \E n \in 1 .. MaxWrite : sent' = [sent EXCEPT ![h] = @ + n]
            /\ UNCHANGED <<arrived, read, closed, eof>>

\* Bytes that were written become available at the other end.
Arrive(h) == /\ \E n \in arrived[h] + 1 .. sent[Peer(h)] :
                  arrived' = [arrived EXCEPT ![h] = n]
             /\ UNCHANGED <<sent, read, closed, eof>>

Read(h) == /\ \E n \in Len(read[h]) + 1 .. arrived[h] :
                read' = [read EXCEPT ![h] = @ \o [i \in 1 .. n - Len(@) |-> Len(@) + i]]
           /\ UNCHANGED <<sent, arrived, closed, eof>>

Shut(h) == /\ ~closed[h]
           /\ closed' = [closed EXCEPT ![h] = TRUE]
           /\ UNCHANGED <<sent, arrived, read, eof>>

End(h) == /\ ~eof[h]
          /\ closed[Peer(h)]
          /\ arrived[h] = sent[Peer(h)]
          /\ eof' = [eof EXCEPT ![h] = TRUE]
          /\ UNCHANGED <<sent, arrived, read, closed>>

\* A connection closed in both directions may drop what was not read.
Discard(h) == /\ closed[h] /\ eof[h]
              /\ arrived' = [arrived EXCEPT ![h] = Len(read[h])]
              /\ UNCHANGED <<sent, read, closed, eof>>

Next == \E h \in Hosts :
          Write(h) \/ Arrive(h) \/ Read(h) \/ Shut(h) \/ End(h) \/ Discard(h)

Spec == Init /\ [][Next]_vars
=============================================================================
