------------------------------- MODULE DnsServer -------------------------------
(***************************************************************************)
(* The DNS server (layer7/dns_server.c) and the three ways the program asks *)
(* it: dns_resolve and http_get of the console, and magi_resolve.           *)
(*                                                                         *)
(* A host name is the sequence of its labels, a label the sequence of its   *)
(* letters; labels may be empty ("a..b", "a.").  A query carries the encoded *)
(* name.  A datagram is received inside the call that sends it, or later    *)
(* (a pending queue, realtime mode), or never; the answer is found by the   *)
(* client as the last UDP datagram of its host, and its id is not compared. *)
(***************************************************************************)
EXTENDS Integers, Sequences, FiniteSets

LOCAL INSTANCE SequencesExt

CONSTANTS
  Hosts,
  Configured,   \* the hosts that have an address
  Names,        \* the host names that are used
  Addresses,    \* the addresses they stand for
  Defaults,     \* the entries of dns_server_init
  MaxEntries,   \* DNS_MAX_ENTRIES
  MaxName,      \* DNS_MAX_NAME
  MaxFree,      \* bound on the free descriptors that are told apart
  MaxWire       \* bound on the datagrams that are late

Nobody == "nobody"
NoIp == "no address"
NoUdp == [kind |-> "none"]

\* struct DNSEntry
Entry == [name : Names, ip : Addresses]
\* A query and an answer; a NXDOMAIN answer has no address.
Query(h, s, raw) == [kind |-> "query", to |-> s, from |-> h, raw |-> raw]
Answer(h, raw, a) == [kind |-> "answer", to |-> h, raw |-> raw, ip |-> a]

\* The length of the name as the program writes it, with its dots.
TextLen(n) == Len(FlattenSeq(n)) + Len(n) - 1

ASSUME DnsAssumption ==
  /\ Configured \subseteq Hosts /\ Nobody \notin Hosts /\ NoIp \notin Addresses
  /\ {MaxEntries, MaxName, MaxFree, MaxWire} \subseteq Nat
  /\ Defaults \in Seq(Entry) /\ Len(Defaults) <= MaxEntries
  /\ \A i \in DOMAIN Defaults : TextLen(Defaults[i].name) < MaxName

VARIABLES
  table,   \* g_dns_table
  bound,   \* g_bound_host
  last,    \* last[h]: last_udp of h, NoUdp when has_last_udp is false
  wire,    \* the datagrams that are late
  free,    \* the number of free descriptors, which all programs share
  call     \* the last call and what it returned

vars == <<table, bound, last, wire, free, call>>
NoCall == [op |-> "none"]

Init == /\ table = <<>> /\ bound = Nobody
        /\ last = [h \in Hosts |-> NoUdp]
        /\ wire = {} /\ free = MaxFree
        /\ call = NoCall

-----------------------------------------------------------------------------
\* dns_encode_name: each label after its length, and the root label; nothing
\* is written for the end of a name after its last dot.  The empty sequence
\* when it does not fit.
Labels(n) == IF n # <<>> /\ Last(n) = <<>> THEN Front(n) ELSE n
Bytes(ls) == FlattenSeq([i \in DOMAIN ls |-> <<Len(ls[i])>> \o ls[i]]) \o <<0>>
Fits(raw, size) == IF Len(raw) > size THEN <<>> ELSE raw

EncodeName(n) == Fits(Bytes(Labels(n)), MaxName)

\* dns_decode_name, for labels that are not taken for a compression pointer:
\* labels up to the first of length 0.
LabelsIn(raw) ==
  LET from[p \in 1 .. Len(raw) + 1] ==
        IF p > Len(raw) THEN <<>>
        ELSE IF raw[p] = 0 \/ p + raw[p] > Len(raw) THEN <<>>
        ELSE <<SubSeq(raw, p + 1, p + raw[p])>> \o from[p + 1 + raw[p]]
  IN from[1]

DecodeName(raw) ==
  LET n == LabelsIn(raw) IN [ok |-> TextLen(n) < MaxName, name |-> n]

\* dns_server_resolve: the first entry of the name.
Has(t, n) == \E i \in DOMAIN t : t[i].name = n
Resolve(n) == IF Has(table, n)
              THEN table[SelectInSeq(table, LAMBDA e : e.name = n)].ip
              ELSE NoIp

\* dns_server_handle_query: the name is decoded, looked up and encoded again;
\* the empty set when there is no response.
HandleQuery(q) ==
  LET d == DecodeName(q.raw)
  IN IF d.ok /\ EncodeName(d.name) # <<>>
     THEN {Answer(q.from, EncodeName(d.name), Resolve(d.name))}
     ELSE {}

\* dns_server_dispatch and dns_send_response, with n free descriptors.
Dispatch(q, n) == IF bound = q.to /\ n > 0 THEN HandleQuery(q) ELSE {}

\* dns_parse_response
ParseResponse(m) == IF m.ip # NoIp /\ DecodeName(m.raw).ok THEN m.ip ELSE NoIp

\* dns_server_add_entry: the table's room is tested before the name is looked
\* for.
Added(t, n, a) ==
  IF Len(t) >= MaxEntries THEN t
  ELSE IF Has(t, n)
  THEN [t EXCEPT ![SelectInSeq(t, LAMBDA e : e.name = n)].ip = a]
  ELSE Append(t, [name |-> n, ip |-> a])

\* dns_server_add_entry as a caller of the API; callers' names are shorter
\* than the table's buffer.
AddEntry(n, a) ==
  /\ TextLen(n) < MaxName
  /\ table' = Added(table, n, a)
  /\ call' = [op |-> "add", name |-> n, ip |-> a]
  /\ UNCHANGED <<bound, last, wire, free>>

\* dns_server_init, on the first start: the default entries one by one.
InitTable ==
  LET t[i \in 0 .. Len(Defaults)] ==
        IF i = 0 THEN <<>> ELSE Added(t[i - 1], Defaults[i].name, Defaults[i].ip)
  IN t[Len(Defaults)]

\* dns_server start
ServerStart(h) ==
  /\ h \in Configured
  /\ bound' = h
  /\ table' = IF table = <<>> THEN InitTable ELSE table
  /\ call' = NoCall
  /\ UNCHANGED <<last, wire, free>>

\* dns_server stop
ServerStop ==
  /\ bound' = Nobody /\ call' = NoCall
  /\ UNCHANGED <<table, last, wire, free>>

-----------------------------------------------------------------------------
\* Mutant: what came before the query is left to be received.
ForgetLastNot(h) == last

\* cli_dns_query: has_last_udp is cleared before the query is sent.
ForgetLast(h) == [last EXCEPT ![h] = NoUdp]

\* magi_recvfrom on port 5353: an answer, or nothing.
RecvFrom(l, h) == IF l[h].kind = "answer" THEN ParseResponse(l[h]) ELSE NoIp

\* The command ends with the address a, or without one.
Ends(op, n, a) == call' = [op |-> op, name |-> n, ip |-> a]

\* magi_sendto and magi_recvfrom, when the last datagrams have become l and
\* others are late.
Received(h, l, late) ==
  /\ Cardinality(wire \cup late) <= MaxWire
  /\ wire' = wire \cup late
  /\ last' = IF l[h].kind = "answer" THEN [l EXCEPT ![h] = NoUdp] ELSE l

\* cli_dns_query from h to the host s, after which the command op goes on with
\* the address otherwise if it got none.  Nothing is sent without an address, a
\* descriptor, or when the name does not fit; the client's descriptor is open
\* while the server looks for one.  A host does not reach itself.
DnsQuery(h, s, op, n, otherwise) ==
  LET q == Query(h, s, EncodeName(n))
      answers == Dispatch(q, free - 1)
      asked == [ForgetLast(h) EXCEPT ![s] = q]
      got(l) == IF RecvFrom(l, h) = NoIp THEN otherwise ELSE RecvFrom(l, h)
      returns(l, late) == Received(h, l, late) /\ Ends(op, n, got(l))
  IN IF h \notin Configured \/ q.raw = <<>> \/ free = 0
     THEN Ends(op, n, otherwise) /\ UNCHANGED <<wire, last>>
     ELSE \/ \* refused, or lost
             returns(ForgetLast(h), {})
          \/ \* the query waits
             returns(ForgetLast(h), {q})
          \/ \* the answer waits, or there is none
             s # h /\ returns(asked, answers)
          \/ \* the answer arrives
             s # h /\ \E m \in answers : returns([asked EXCEPT ![h] = m], {})

\* dns_resolve, with the address of the server s or with the running server's.
DnsResolve(h, n) ==
  /\ \/ \E s \in Configured : DnsQuery(h, s, "dns_resolve", n, NoIp)
     \/ /\ bound = Nobody
        /\ Ends("dns_resolve", n, Resolve(n))
        /\ UNCHANGED <<last, wire>>
  /\ UNCHANGED <<table, bound, free>>

\* Mutant: http_get only asks the server when there is one.
HttpResolveOnce(h, n) ==
  /\ IF bound = Nobody
     THEN Ends("http_get", n, Resolve(n)) /\ UNCHANGED <<last, wire>>
     ELSE DnsQuery(h, bound, "http_get", n, NoIp)
  /\ UNCHANGED <<table, bound, free>>

\* http_get: the running server, then the table; the same as magi_resolve when
\* no server runs.
HttpResolve(h, n) ==
  /\ IF bound = Nobody
     THEN Ends("http_get", n, Resolve(n)) /\ UNCHANGED <<last, wire>>
     ELSE DnsQuery(h, bound, "http_get", n, Resolve(n))
  /\ UNCHANGED <<table, bound, free>>

\* The UDP branch of host_receive for a datagram that is late.
Late(m) ==
  /\ m \in wire
  /\ last' = [last EXCEPT ![m.to] = m]
  /\ \/ /\ m.kind = "query" /\ m.to # m.from
        /\ wire' = (wire \ {m}) \cup Dispatch(m, free)
     \/ m.kind = "answer" /\ wire' = wire \ {m}
  /\ call' = NoCall
  /\ UNCHANGED <<table, bound, free>>

\* The pending queue gives up.
Lost(m) == /\ m \in wire /\ wire' = wire \ {m} /\ call' = NoCall
           /\ UNCHANGED <<table, bound, last, free>>

\* Other programs take and give back descriptors.
OthersUse == /\ free' \in (0 .. MaxFree) \ {free} /\ call' = NoCall
             /\ UNCHANGED <<table, bound, last, wire>>

Next == \/ \E n \in Names, a \in Addresses : AddEntry(n, a)
        \/ \E h \in Hosts : ServerStart(h)
        \/ \E h \in Hosts, n \in Names : DnsResolve(h, n) \/ HttpResolve(h, n)
        \/ \E m \in wire : Late(m) \/ Lost(m)
        \/ ServerStop \/ OthersUse

Spec == Init /\ [][Next]_vars

-----------------------------------------------------------------------------
\* Empty labels apart, which the encoding cannot tell from the end of the name.
Plain(n) == \A i \in DOMAIN n : n[i] # <<>>
Lookups == {"dns_resolve", "http_get"}

\* The table, the datagrams and the calls have their types, and every name has
\* one entry.
TypeOK == /\ table \in Seq(Entry) /\ Len(table) <= MaxEntries
          /\ \A i, j \in DOMAIN table : table[i].name = table[j].name => i = j
          /\ bound \in Configured \cup {Nobody}
          /\ DOMAIN last = Hosts
          /\ \A m \in wire \cup {last[h] : h \in Hosts} :
               m.kind = "none" \/ (m.to \in Hosts /\ Len(m.raw) \in 1 .. MaxName)
          /\ free \in 0 .. MaxFree
          /\ call.op \in Lookups \cup {"add", "none"}

\* A name that is found is found as the table has it at that moment, whatever
\* answer to an earlier question is still on its way or has just arrived,
\* although answers are matched by nothing but the port.  (And the state has
\* its types.)
RightAnswer ==
  /\ TypeOK
  /\ call.op \in Lookups /\ Plain(call.name) /\ call.ip # NoIp
       => call.ip = Resolve(call.name)

\* http_get resolves every name the table has, also when the server cannot
\* answer: no descriptor is left, the client is the server's own host, or the
\* datagrams are late.
HttpResolves ==
  call.op = "http_get" /\ Plain(call.name) => call.ip = Resolve(call.name)
=============================================================================
