------------------------------- MODULE Socket -------------------------------
(***************************************************************************)
(* The socket service (common_service/socket): blocking TCP calls over the  *)
(* smoltcp library, a user-space network stack.                             *)
(*                                                                          *)
(* IFACE and then SOCKETS are locked by every call, and a call that waits   *)
(* for the network keeps both; "net" stands for the two.  smoltcp and the   *)
(* remote peers are modelled from how the service uses them: a socket's TCP *)
(* state, its receive and transmit buffers, and what a peer may do to them. *)
(* Bytes are counted, not named.                                            *)
(***************************************************************************)
EXTENDS Naturals, Sequences, FiniteSets

CONSTANTS Threads,
          RxCap, TxCap, \* capacities of a socket's buffers
          MaxSocks,     \* bound: sockets in the set
          Programs,     \* the programs under study; of each, ops and calls: the calls a
                        \* thread makes and a bound on their number; bytes: a bound on
                        \* the bytes sent over one socket in each direction; files: the
                        \* names it uses; fails: what may report errors, "net" or "disk"
          Nobody

ASSUME SocketAssumption ==
    /\ {RxCap, TxCap, MaxSocks} \subseteq Nat \ {0}
    /\ \A p \in Programs : p.bytes \in Nat \ {0} /\ p.fails \subseteq {"net", "disk"}
    /\ Nobody \notin Threads

VARIABLES prog,   \* the program
          net,      \* the thread that holds IFACE and SOCKETS
          socks,    \* SOCKETS: by handle, the state and buffers of a socket
          call,     \* [Threads -> ...]: the socket call a thread is in
          ret        \* [Threads -> ...]: what its last call returned

netVars == <<net, socks, call, ret>>

\* Fields in, got: bytes the peer sent, and the bytes of them the program got;
\* put, out: bytes the program's calls wrote, and those the peer has got.
Fresh(st) == [st |-> st, rx |-> 0, tx |-> 0, in |-> 0, got |-> 0, put |-> 0, out |-> 0]

NetFails == "net" \in prog.fails

NoCall == [op |-> "none", ph |-> "lock", h |-> 1, n |-> 0, cur |-> 0]
Ok(v) == [ok |-> TRUE, val |-> v]
Err == [ok |-> FALSE, val |-> 0]

NetInit ==
    /\ prog \in Programs
    /\ net = Nobody
    /\ socks = <<>>
    /\ call = [t \in Threads |-> NoCall]
    /\ ret = [t \in Threads |-> Err]

-----------------------------------------------------------------------------
(* smoltcp *)

MayRecv(s) == s.st \in {"est", "finwait"} \/ s.rx > 0
MaySend(s) == s.st \in {"est", "closewait"}
IsOpen(s) == s.st # "closed"

\* tcp::Socket::close
Shut(s) ==
    [s EXCEPT !.st = CASE s.st \in {"listen", "syn", "closed"} -> "closed"
                       [] s.st = "est" -> "finwait"
                       [] s.st = "closewait" -> "lastack"
                       [] OTHER -> s.st]

\* SocketSet::add takes the first free slot.
NewHandle ==
    IF \E h \in DOMAIN socks : socks[h].st = "free"
    THEN CHOOSE h \in DOMAIN socks :
            socks[h].st = "free" /\ \A k \in 1..(h - 1) : socks[k].st # "free"
    ELSE Len(socks) + 1
WithSock(s) ==
    [h \in DOMAIN socks \cup {NewHandle} |-> IF h = NewHandle THEN s ELSE socks[h]]

\* What a peer's packets do to a connection.
Packet(s) ==
    {t \in {
        [s EXCEPT !.st = "est"],
        [s EXCEPT !.st = "closed"],
        [s EXCEPT !.st = "closewait"],
        [s EXCEPT !.rx = @ + 1, !.in = @ + 1],
        [s EXCEPT !.tx = 0, !.out = @ + s.tx]} :
      \/ t.st = "est" /\ s.st \in {"syn", "listen"}
      \/ t.st = "closed" /\ s.st \in {"syn", "est", "closewait", "finwait", "lastack"}
      \/ t.st = "closewait" /\ s.st = "est"
      \/ t.rx > s.rx /\ s.st \in {"est", "finwait"} /\ s.rx < RxCap /\ s.in < prog.bytes
      \/ t.tx < s.tx /\ s.st \in {"est", "closewait"}}

\* Packets are taken in by iface_poll, in a call that waits.  Only a call on the
\* same socket can tell when, so the model takes them in then.
Peer ==
    /\ net # Nobody
    /\ \E s \in Packet(socks[call[net].h]) : socks' = [socks EXCEPT ![call[net].h] = s]
    /\ UNCHANGED <<net, call, ret>>

-----------------------------------------------------------------------------
(* The calls *)

Adding == {"connect", "bind", "accept", "dns"}

\* A caller enters smol_<op> for socket h with n bytes.
Enter(t, op, h, n) ==
    /\ call[t].op = "none"
    /\ op \in Adding => Len(socks) + Cardinality({u \in Threads : call[u].op \in Adding}) < MaxSocks
    /\ call' = [call EXCEPT ![t] = [op |-> op, ph |-> "lock", h |-> h, n |-> n, cur |-> 0]]

Return(t, r) ==
    /\ ret' = [ret EXCEPT ![t] = r]
    /\ call' = [call EXCEPT ![t] = NoCall]

In(t, op) == net = t /\ call[t].op = op /\ call[t].ph = "run"
Sock(t) == socks[call[t].h]
SetSock(t, s) == socks' = [socks EXCEPT ![call[t].h] = s]

\* acquire_iface and acquire_sockets, for the calls that may wait.
Lock(t) ==
    /\ call[t].op \in {"send", "recv", "close", "accept"} /\ call[t].ph = "lock"
    /\ net = Nobody
    /\ net' = t
    /\ call' = [call EXCEPT ![t].ph = "run"]
    /\ UNCHANGED <<socks, ret>>

\* smol_connect and smol_bind; on an error the socket stays in the set.
Create(t) ==
    /\ call[t].op \in {"connect", "bind"} /\ call[t].ph = "lock"
    /\ net = Nobody
    /\ \/ /\ socks' = WithSock(Fresh(IF call[t].op = "bind" THEN "listen" ELSE "syn"))
          /\ Return(t, Ok(NewHandle))
       \/ /\ NetFails
          /\ socks' = WithSock(Fresh("closed"))
          /\ Return(t, Err)
    /\ UNCHANGED net

Least(a, b) == IF a < b THEN a ELSE b

\* smol_send: as much as the transmit buffer takes in one round ...
SendSome(t) ==
    /\ In(t, "send") /\ MaySend(Sock(t))
    /\ LET k == Least(TxCap - Sock(t).tx, call[t].n - call[t].cur)
       IN /\ k > 0
          /\ SetSock(t, [Sock(t) EXCEPT !.tx = @ + k])
          /\ call' = [call EXCEPT ![t].cur = @ + k]
    /\ UNCHANGED <<net, ret>>

\* ... until all of it is there.
SendEnd(t) ==
    /\ In(t, "send") /\ call[t].cur = call[t].n
    /\ SetSock(t, [Sock(t) EXCEPT !.put = @ + call[t].n])
    /\ Return(t, Ok(call[t].n))
    /\ net' = Nobody

\* Mutant: the whole receive buffer is dequeued, what fits is copied.
RecvSomeDrop(t) ==
    /\ In(t, "recv") /\ call[t].cur = 0
    /\ MayRecv(Sock(t)) /\ Sock(t).st # "closewait" /\ Sock(t).rx > 0
    /\ LET k == Least(call[t].n, Sock(t).rx)
       IN /\ SetSock(t, [Sock(t) EXCEPT !.rx = 0, !.got = @ + k])
          /\ call' = [call EXCEPT ![t].cur = k]
    /\ UNCHANGED <<net, ret>>

\* smol_recv: one round copies what the caller's buffer takes ...
RecvSome(t) ==
    /\ In(t, "recv") /\ call[t].cur = 0
    /\ MayRecv(Sock(t)) /\ Sock(t).st # "closewait" /\ Sock(t).rx > 0
    /\ LET k == Least(call[t].n, Sock(t).rx)
       IN /\ SetSock(t, [Sock(t) EXCEPT !.rx = @ - k, !.got = @ + k])
          /\ call' = [call EXCEPT ![t].cur = k]
    /\ UNCHANGED <<net, ret>>

\* ... and the loop ends with data, or when the peer can send no more.
RecvEnd(t) ==
    /\ In(t, "recv")
    /\ call[t].cur # 0 \/ ~MayRecv(Sock(t)) \/ Sock(t).st = "closewait"
    /\ Return(t, Ok(call[t].cur))
    /\ net' = Nobody
    /\ UNCHANGED socks

\* smol_close: close once everything queued has been sent ...
CloseShut(t) ==
    /\ In(t, "close") /\ call[t].cur = 0 /\ Sock(t).tx = 0
    /\ SetSock(t, Shut(Sock(t)))
    /\ call' = [call EXCEPT ![t].cur = 1]
    /\ UNCHANGED <<net, ret>>

\* ... and wait for the connection's end.  The socket stays in the set.
CloseEnd(t) ==
    /\ In(t, "close") /\ ~IsOpen(Sock(t))
    /\ Return(t, Ok(0))
    /\ net' = Nobody
    /\ UNCHANGED socks

\* Mutant: IFACE is not dropped before smol_bind.
AcceptConnKeep(t) ==
    /\ In(t, "accept") /\ Sock(t).st # "listen"
    /\ IF Sock(t).st = "closed"
       THEN Return(t, Err) /\ net' = Nobody
       ELSE call' = [call EXCEPT ![t].ph = "rebind"] /\ UNCHANGED <<net, ret>>
    /\ UNCHANGED socks

\* smol_accept: a connection has come in; both locks are released ...
AcceptConn(t) ==
    /\ In(t, "accept") /\ Sock(t).st # "listen"
    /\ net' = Nobody
    /\ IF Sock(t).st = "closed"
       THEN Return(t, Err)
       ELSE call' = [call EXCEPT ![t].ph = "rebind"] /\ UNCHANGED ret
    /\ UNCHANGED socks

\* ... and a new socket listens on the port (smol_bind).
Rebind(t) ==
    /\ call[t].op = "accept" /\ call[t].ph = "rebind"
    /\ net = Nobody
    /\ \/ socks' = WithSock(Fresh("listen")) /\ Return(t, Ok(NewHandle))
       \/ NetFails /\ socks' = WithSock(Fresh("closed")) /\ Return(t, Err)
    /\ UNCHANGED net

\* addrinfo: a DNS socket is added, unless starting the query fails after that ...
DnsStart(t) ==
    /\ call[t].op = "dns" /\ call[t].ph = "lock"
    /\ net = Nobody
    /\ socks' = WithSock(Fresh("dns"))
    /\ \/ /\ net' = t
          /\ call' = [call EXCEPT ![t].ph = "run", ![t].h = NewHandle]
          /\ UNCHANGED ret
       \/ NetFails /\ Return(t, Err) /\ UNCHANGED net

\* ... and removed with the answer; on an error it stays.
DnsEnd(t) ==
    /\ In(t, "dns")
    /\ \/ SetSock(t, Fresh("free")) /\ Return(t, Ok(0))
       \/ NetFails /\ Return(t, Err) /\ UNCHANGED socks
    /\ net' = Nobody

\* try_phy_wait fails: the call returns the error.
WaitFails(t) ==
    /\ NetFails
    /\ In(t, call[t].op) /\ call[t].op \in {"send", "recv", "close", "accept"}
    /\ SetSock(t, [Sock(t) EXCEPT !.put = @ + (IF call[t].op = "send" THEN call[t].cur ELSE 0)])
    /\ Return(t, Err)
    /\ net' = Nobody

NetStep(t) ==
    \/ Lock(t) \/ Create(t)
    \/ SendSome(t) \/ SendEnd(t) \/ RecvSome(t) \/ RecvEnd(t)
    \/ CloseShut(t) \/ CloseEnd(t) \/ AcceptConn(t) \/ Rebind(t)
    \/ DnsStart(t) \/ DnsEnd(t)

-----------------------------------------------------------------------------
(* Properties *)

\* The sender of bytes that a thread is sending over socket h.
UnderWay(h) ==
    LET S == {t \in Threads : call[t].op = "send" /\ call[t].h = h /\ call[t].ph = "run"}
    IN IF S = {} THEN 0 ELSE call[CHOOSE t \in S : TRUE].cur

\* No byte is lost, repeated or invented between a call's buffer and the
\* socket's: what the peer sent is what the program has got and what waits, and
\* what the program wrote is what the peer has got and what is queued, however
\* the calls' rounds, short buffers and full queues fall (apis.rs:104-170).
StreamExact ==
    \A h \in DOMAIN socks :
        /\ socks[h].in = socks[h].got + socks[h].rx
        /\ socks[h].put + UnderWay(h) = socks[h].out + socks[h].tx

\* A call to smol_recv that returns no data leaves none in the receive buffer,
\* as its comment says (apis.rs:145).
RecvReturnsData ==
    [][\A t \in Threads :
          call[t].op = "recv" /\ call'[t].op = "none" /\ ret'[t] = Ok(0)
              => socks[call[t].h].rx = 0]_netVars
==============================================================================
