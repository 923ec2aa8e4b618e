----------------------------- MODULE FdtabProofs -----------------------------
(***************************************************************************)
(* A descriptor stands for what its owner opened, no FAT file is leaked, and *)
(* no byte is lost between a socket's buffers and its callers, for any       *)
(* threads, any program and any sizes of the buffers.                        *)
(***************************************************************************)
EXTENDS Fdtab, WellFoundedInduction, TLAPS

SockRec == [st : {"free", "dns", "listen", "syn", "est", "closewait", "finwait", "lastack", "closed"},
            rx : Nat, tx : Nat, in : Nat, got : Nat, put : Nat, out : Nat]
CallRec == [op : {"none", "connect", "bind", "accept", "dns", "send", "recv", "close"},
            ph : {"lock", "run", "rebind"}, h : Nat, n : Nat, cur : Nat]

\* The calls that work on a socket of their caller's.
OnTcp == {"send", "recv", "close", "accept"}

NetType ==
    /\ prog \in Programs
    /\ net \in Threads \cup {Nobody}
    /\ socks \in Seq(SockRec)
    /\ call \in [Threads -> CallRec]
    /\ ret \in [Threads -> {Err} \cup {Ok(v) : v \in Nat}]

\* A slot of the set that holds a TCP socket.
Tcp(h) == h \in DOMAIN socks /\ socks[h].st \notin {"free", "dns"}

\* Only the holder of the network locks is past them, and calls name sockets
\* of the kind they work on.
NetCalls ==
    /\ \A t \in Threads : call[t].ph = "run" <=> net = t
    /\ \A t \in Threads : call[t].ph = "lock" => call[t].cur = 0
    /\ \A t \in Threads : call[t].ph = "run" => call[t].op \in OnTcp \cup {"dns"}
    /\ \A t \in Threads : call[t].op \in OnTcp => Tcp(call[t].h)
    /\ \A t \in Threads : call[t].op = "dns" /\ call[t].ph = "run" =>
          call[t].h \in DOMAIN socks /\ socks[call[t].h].st = "dns"

\* The bytes that the holder of the locks has queued on socket h in its call.
Sending(h) ==
    IF net # Nobody /\ call[net].op = "send" /\ call[net].h = h THEN call[net].cur ELSE 0

Stream ==
    \A h \in DOMAIN socks :
        /\ socks[h].in = socks[h].got + socks[h].rx
        /\ socks[h].put + Sending(h) = socks[h].out + socks[h].tx

NetInv == NetType /\ NetCalls /\ Stream

-----------------------------------------------------------------------------
(* The first free entry of a table                                          *)

\* A table that has free entries has a first one.
LEMMA FirstFree ==
    ASSUME NEW n \in Nat, NEW F \in SUBSET (1..n), F # {}
    PROVE  \E h \in F : \A k \in 1..(h - 1) : k \notin F
<1>0. F \in SUBSET Nat
  OBVIOUS
<1>1. PICK h \in F : \A k \in F : ~ (<<k, h>> \in OpToRel(<, Nat))
  BY Zenon, <1>0, NatLessThanWellFounded, WFMin
<1>2. ASSUME NEW k \in F PROVE h <= k
  <2>1. ~(k < h)
    BY Zenon, <1>0, <1>1 DEF OpToRel
  <2> QED  BY <2>1
<1> QED  BY <1>2

-----------------------------------------------------------------------------
(* The socket service                                                       *)

\* No call is under way at first.
LEMMA NetInitInv == NetInit => NetInv
<1> SUFFICES ASSUME NetInit PROVE NetInv
  BY Zenon
<1>1. NetType
  BY DEF NetInit, NetType, NoCall, CallRec
<1>2. NetCalls
  BY Zenon, SocketAssumption DEF NetInit, NetCalls, NoCall, OnTcp
<1>3. Stream
  BY DEF NetInit, Stream
<1> QED  BY Zenon, <1>1, <1>2, <1>3 DEF NetInv

\* A caller enters a call with a socket of its own (socket lib.rs:111-118).
LEMMA EnterInv ==
    ASSUME NetInv, NEW t \in Threads, NEW op \in {"connect", "bind", "accept", "dns", "send", "recv", "close"},
           NEW h \in Nat, NEW n \in Nat, Enter(t, op, h, n), op \in OnTcp => Tcp(h),
           UNCHANGED <<prog, net, socks, ret>>
    PROVE  NetInv' /\ call' = [call EXCEPT ![t] = [op |-> op, ph |-> "lock", h |-> h, n |-> n, cur |-> 0]]
<1> DEFINE c == [op |-> op, ph |-> "lock", h |-> h, n |-> n, cur |-> 0]
<1>1. call' = [call EXCEPT ![t] = c] /\ call[t].op = "none"
  BY Zenon DEF Enter
<1>2. net # t
  BY Zenon, <1>1 DEF NetInv, NetCalls, OnTcp
<1>3. NetType'
  BY Zenon, <1>1 DEF NetInv, NetType, CallRec
<1>4. call \in [Threads -> CallRec] /\ call'[t] = c /\ \A u \in Threads \ {t} : call'[u] = call[u]
  BY Zenon, <1>1 DEF NetInv, NetType
<1>5. \A k : Tcp(k)' <=> Tcp(k)
  BY Zenon DEF Tcp
<1>6. NetCalls'
  BY <1>2, <1>4, <1>5 DEF NetInv, NetCalls, OnTcp
<1>7. \A k : Sending(k)' = Sending(k)
  BY Zenon, <1>2, <1>4 DEF Sending, NetInv, NetType
<1>8. Stream'
  BY Zenon, <1>7 DEF Stream, NetInv
<1> QED  BY Zenon, <1>1, <1>3, <1>6, <1>8 DEF NetInv

\* The descriptor table uses a result up.
LEMMA ReturnedInv ==
    ASSUME NetInv, NEW t \in Threads, Returned(t), UNCHANGED prog
    PROVE  NetInv'
<1>1. UNCHANGED <<net, socks, call>> /\ ret' = [ret EXCEPT ![t] = Err]
  BY Zenon DEF Returned
<1>2. NetType'
  BY Zenon, <1>1 DEF NetInv, NetType
<1>3. NetCalls' /\ Stream'
  BY Zenon, <1>1 DEF NetInv, NetCalls, Stream, Sending, Tcp
<1> QED  BY Zenon, <1>2, <1>3 DEF NetInv

\* What a step of a thread's socket call may do as the descriptor table sees it:
\* TCP sockets stay in the set, and connect, bind and accept return a new one.
NetEffect(t) ==
    /\ \A u \in Threads \ {t} : call'[u].op = call[u].op /\ ret'[u] = ret[u]
    /\ call[t].op # "none" /\ call'[t].op \in {call[t].op, "none"}
    /\ \A h : Tcp(h) => Tcp(h)'
    /\ \A h : call'[t].op = "none" /\ call[t].op \in {"connect", "bind", "accept"} /\ ret'[t] = Ok(h) =>
          h \in Nat \ {0} /\ ~Tcp(h) /\ Tcp(h)'

\* What a thread's step inside a socket call, and a packet that its call takes in,
\* do to the set of sockets.
LEMMA NetMoves ==
    ASSUME NetInv, NEW t \in Threads, UNCHANGED prog
    PROVE  /\ NetStep(t) \/ WaitFails(t) => NetInv' /\ NetEffect(t)
           /\ Peer /\ net = t => NetInv' /\ UNCHANGED <<call, ret>> /\ \A h : Tcp(h) => Tcp(h)'
<1>1. socks \in Seq(SockRec)
  BY Zenon DEF NetInv, NetType
\* SocketSet::add returns a slot that holds no socket.
<1>2. /\ NewHandle \in 1..(Len(socks) + 1)
      /\ NewHandle \in DOMAIN socks => socks[NewHandle].st = "free"
      /\ ~Tcp(NewHandle)
  <2> USE <1>1
  <2> DEFINE F == {h \in DOMAIN socks : socks[h].st = "free"}
  <2>1. Len(socks) \in Nat /\ DOMAIN socks = 1..Len(socks)
    OBVIOUS
  <2>2. CASE F # {}
    <3>1. \E h \in F : \A k \in 1..(h - 1) : k \notin F
      <4>1. F \in SUBSET (1..Len(socks))
        BY Zenon, <2>1
      <4> HIDE DEF F
      <4> QED  BY Zenon, <2>1, <2>2, <4>1, FirstFree
    <3>2. \E h \in DOMAIN socks : socks[h].st = "free" /\ \A k \in 1..(h - 1) : socks[k].st # "free"
      BY <2>1, <3>1
    <3>3. NewHandle \in DOMAIN socks /\ socks[NewHandle].st = "free"
      BY Zenon, <2>2, <3>2 DEF NewHandle
    <3> QED  BY <2>1, <3>3 DEF Tcp
  <2>3. CASE F = {}
    BY <2>1, <2>3 DEF NewHandle, Tcp
  <2> QED  BY Zenon, <2>2, <2>3
\* What the set is after it.
<1>3. ASSUME NEW s \in SockRec
      PROVE  /\ WithSock(s) \in Seq(SockRec)
             /\ DOMAIN WithSock(s) = DOMAIN socks \cup {NewHandle}
             /\ WithSock(s)[NewHandle] = s
             /\ \A h \in DOMAIN socks \ {NewHandle} : WithSock(s)[h] = socks[h]
  <2> USE <1>1, <1>3
  <2>1. Len(socks) \in Nat /\ DOMAIN socks = 1..Len(socks)
    OBVIOUS
  <2>2. DOMAIN socks \cup {NewHandle} = 1..Len(socks) \/ DOMAIN socks \cup {NewHandle} = 1..(Len(socks) + 1)
    BY <2>1, <1>2
  <2>3. PICK n \in Nat : DOMAIN socks \cup {NewHandle} = 1..n
    BY <2>1, <2>2
  <2>4. WithSock(s) = [h \in 1..n |-> IF h = NewHandle THEN s ELSE socks[h]]
    BY Zenon, <2>3 DEF WithSock
  <2>5. \A h \in 1..n : (IF h = NewHandle THEN s ELSE socks[h]) \in SockRec
    BY <2>1, <2>3
  <2> QED  BY <2>3, <2>4, <2>5
\* The locks are taken.
<1>4. ASSUME Lock(t) PROVE NetInv'
  <2> USE <1>4
  <2>1. /\ call[t].op \in OnTcp /\ call[t].ph = "lock" /\ net = Nobody /\ net' = t
        /\ call' = [call EXCEPT ![t].ph = "run"] /\ UNCHANGED <<socks, ret>>
    BY Zenon DEF Lock, OnTcp
  <2>2. NetType'
    BY Zenon, <2>1 DEF NetInv, NetType, CallRec
  <2>3. /\ \A u \in Threads \ {t} : call'[u] = call[u] /\ call[u].ph # "run"
        /\ call'[t].op = call[t].op /\ call'[t].h = call[t].h /\ call'[t].cur = 0 /\ call'[t].ph = "run"
    BY Zenon, <2>1, SocketAssumption DEF NetInv, NetType, NetCalls, CallRec
  <2>4. \A k : Tcp(k)' <=> Tcp(k)
    BY Zenon, <2>1 DEF Tcp
  <2>5. NetCalls'
    BY <2>1, <2>3, <2>4 DEF NetInv, NetCalls, OnTcp
  <2>6. \A k : Sending(k)' = 0 /\ Sending(k) = 0
    BY Zenon, <2>1, <2>3 DEF Sending
  <2>7. Stream'
    BY <2>1, <2>6 DEF Stream, NetInv
  <2> QED  BY Zenon, <2>2, <2>5, <2>7 DEF NetInv
\* A call returns: the locks are free, or were not taken.
<1>5. ASSUME NEW r \in {Err} \cup {Ok(v) : v \in Nat}, Return(t, r)
      PROVE  /\ call' \in [Threads -> CallRec] /\ ret' \in [Threads -> {Err} \cup {Ok(v) : v \in Nat}]
             /\ call'[t] = NoCall /\ ret'[t] = r
             /\ \A u \in Threads \ {t} : call'[u] = call[u] /\ ret'[u] = ret[u]
  BY Zenon, <1>5 DEF NetInv, NetType, Return, NoCall, CallRec
\* A socket is added while nobody holds the locks (socket apis.rs:70-101).
<1>6. ASSUME NEW st \in {"dns", "listen", "syn", "closed"},
             NEW new, new = NewHandle, socks' = WithSock(Fresh(st))
      PROVE  /\ socks' \in Seq(SockRec)
             /\ new \in Nat \ {0} /\ new \in DOMAIN socks' /\ socks'[new].st = st
             /\ ~Tcp(new) /\ (st # "dns" => Tcp(new)')
             /\ \A h : Tcp(h) => Tcp(h)'
             /\ net = Nobody /\ net' = Nobody => Stream'
  <2> USE <1>6
  <2>1. socks \in Seq(SockRec) /\ Fresh(st) \in SockRec
    BY Zenon DEF NetInv, NetType, Fresh, SockRec
  <2>2. /\ socks' \in Seq(SockRec) /\ DOMAIN socks' = DOMAIN socks \cup {NewHandle}
        /\ socks'[NewHandle] = Fresh(st) /\ \A h \in DOMAIN socks \ {NewHandle} : socks'[h] = socks[h]
    BY Zenon, <2>1, <1>3
  <2>3. NewHandle \in Nat \ {0} /\ ~Tcp(NewHandle)
    <3>1. NewHandle \in 1..(Len(socks) + 1) /\ Len(socks) \in Nat /\ ~Tcp(NewHandle)
      BY <2>1, <1>2
    <3> QED  BY <3>1
  <2>4. \A h : Tcp(h) => Tcp(h)'
    BY Zenon, <2>2, <2>3 DEF Tcp
  <2>5. socks'[NewHandle].st = st
    BY <2>2 DEF Fresh
  <2>6. ASSUME net = Nobody, net' = Nobody PROVE Stream'
    <3>1. \A h : Sending(h) = 0 /\ Sending(h)' = 0
      BY Zenon, <2>6 DEF Sending
    <3>2. \A h \in DOMAIN socks : socks[h].in = socks[h].got + socks[h].rx
                                  /\ socks[h].put + 0 = socks[h].out + socks[h].tx
      BY Zenon, <3>1 DEF NetInv, Stream
    <3>3. \A h \in DOMAIN socks' : socks'[h].in = socks'[h].got + socks'[h].rx
                                   /\ socks'[h].put + 0 = socks'[h].out + socks'[h].tx
      BY <2>2, <3>2 DEF Fresh
    <3> QED  BY Zenon, <3>1, <3>3 DEF Stream
  <2>7. new \in DOMAIN socks' /\ (st # "dns" => Tcp(new)')
    BY Zenon, <2>2, <2>5 DEF Tcp
  <2> QED  BY Zenon, <2>2, <2>3, <2>4, <2>5, <2>6, <2>7
\* A call that adds a socket and returns its handle or an error.
<1>7. ASSUME call[t].op \in {"connect", "bind", "accept", "dns"},
             net = Nobody, NEW st \in {"dns", "listen", "syn", "closed"}, socks' = WithSock(Fresh(st)),
             NEW new, new = NewHandle, NEW r \in {Err, Ok(new)}, r # Err => st # "dns", Return(t, r), UNCHANGED net
      PROVE  NetInv' /\ NetEffect(t)
  <2> USE <1>7
  <2>1. /\ socks' \in Seq(SockRec) /\ new \in Nat \ {0} /\ ~Tcp(new)
        /\ st # "dns" => Tcp(new)'
        /\ \A h : Tcp(h) => Tcp(h)'
        /\ Stream'
    BY Zenon, <1>6
  <2>2. r \in {Err} \cup {Ok(v) : v \in Nat}
    BY Zenon, <2>1
  <2>3. /\ call' \in [Threads -> CallRec] /\ ret' \in [Threads -> {Err} \cup {Ok(v) : v \in Nat}]
        /\ call'[t] = NoCall /\ ret'[t] = r
        /\ \A u \in Threads \ {t} : call'[u] = call[u] /\ ret'[u] = ret[u]
    BY Zenon, <2>2, <1>5
  <2>4. NetType'
    BY Zenon, <2>1, <2>3 DEF NetInv, NetType
  <2>5. \A u \in Threads : call[u].ph # "run" /\ call'[u].ph # "run"
    BY <2>3, SocketAssumption DEF NetInv, NetCalls, NoCall
  <2>6. NetCalls'
    BY <2>1, <2>3, <2>5, SocketAssumption DEF NetInv, NetCalls, NoCall, OnTcp
  <2>7. NetEffect(t)
    <3>1. call'[t].op = "none" /\ call[t].op # "none"
      BY <2>3 DEF NoCall
    <3>2. \A h : r = Ok(h) => h = new /\ r # Err
      BY DEF Ok, Err
    <3> QED  BY Zenon, <2>1, <2>3, <3>1, <3>2 DEF NetEffect
  <2> QED  BY Zenon, <2>1, <2>4, <2>6, <2>7 DEF NetInv
\* smol_connect and smol_bind, and the smol_bind of smol_accept
\* (socket apis.rs:70-101, 210-262).
<1>8. ASSUME Create(t) \/ Rebind(t) PROVE NetInv' /\ NetEffect(t)
  <2> USE <1>8
  <2>1. net = Nobody /\ UNCHANGED net /\ call[t].op \in {"connect", "bind", "accept", "dns"}
    BY Zenon DEF Create, Rebind
  <2>2. PICK new : new = NewHandle
    BY Zenon
  <2>3. PICK st \in {"listen", "syn", "closed"}, r \in {Err, Ok(new)} :
            socks' = WithSock(Fresh(st)) /\ Return(t, r)
    BY Zenon, <2>2 DEF Create, Rebind
  <2> QED  BY Zenon, <2>1, <2>2, <2>3, <1>7
\* The socket that the holder of the locks works on.
<1>9. ASSUME net = t
      PROVE  /\ call[t] \in CallRec /\ call[t].ph = "run" /\ call[t].op \in OnTcp \cup {"dns"}
             /\ call[t].h \in DOMAIN socks /\ Sock(t) \in SockRec
             /\ call[t].op \in OnTcp => Tcp(call[t].h)
             /\ call[t].op = "dns" => ~Tcp(call[t].h)
             /\ Sock(t).in = Sock(t).got + Sock(t).rx
             /\ Sock(t).put + (IF call[t].op = "send" THEN call[t].cur ELSE 0) = Sock(t).out + Sock(t).tx
             /\ \A u \in Threads \ {t} : call[u].ph # "run"
             /\ \A h \in DOMAIN socks \ {call[t].h} : Sending(h) = 0
  <2> USE <1>9
  <2>1. call[t] \in CallRec /\ call[t].ph = "run" /\ call[t].op \in OnTcp \cup {"dns"}
    BY Zenon DEF NetInv, NetType, NetCalls
  <2>2. /\ call[t].op \in OnTcp => Tcp(call[t].h)
        /\ call[t].op = "dns" => ~Tcp(call[t].h) /\ call[t].h \in DOMAIN socks
    BY Zenon, <2>1 DEF NetInv, NetCalls, Tcp
  <2>3. call[t].h \in DOMAIN socks /\ Sock(t) \in SockRec
    BY <2>1, <2>2 DEF Tcp, NetInv, NetType, Sock
  <2>4. Sending(call[t].h) = (IF call[t].op = "send" THEN call[t].cur ELSE 0)
    BY Zenon, SocketAssumption DEF Sending
  <2>5. \A u \in Threads \ {t} : call[u].ph # "run"
    BY Zenon DEF NetInv, NetCalls
  <2>6. \A h \in DOMAIN socks \ {call[t].h} : Sending(h) = 0
    BY Zenon DEF Sending
  <2> QED  BY Zenon, <2>1, <2>2, <2>3, <2>4, <2>5, <2>6 DEF NetInv, Stream, Sock
\* A round of a call that goes on: nothing is lost on its socket, and the others
\* are left alone.
<1>10. ASSUME net = t, call[t].op \in OnTcp, NEW s \in SockRec, NEW c \in Nat,
             SetSock(t, s), s.st \notin {"free", "dns"}, s.in = s.got + s.rx,
             s.put + (IF call[t].op = "send" THEN c ELSE 0) = s.out + s.tx,
             call' = [call EXCEPT ![t].cur = c], UNCHANGED <<net, ret>>
      PROVE  NetInv' /\ NetEffect(t)
  <2> USE <1>10
  <2>1. /\ call[t] \in CallRec /\ call[t].ph = "run" /\ call[t].h \in DOMAIN socks
        /\ \A u \in Threads \ {t} : call[u].ph # "run"
        /\ \A h \in DOMAIN socks \ {call[t].h} : Sending(h) = 0
    BY Zenon, <1>9
  <2>2. /\ call' \in [Threads -> CallRec] /\ \A u \in Threads \ {t} : call'[u] = call[u]
        /\ call'[t].op = call[t].op /\ call'[t].ph = call[t].ph /\ call'[t].h = call[t].h /\ call'[t].cur = c
    BY Zenon, <2>1 DEF NetInv, NetType, CallRec
  <2>3. /\ socks' \in Seq(SockRec) /\ DOMAIN socks' = DOMAIN socks /\ socks'[call[t].h] = s
        /\ \A h \in DOMAIN socks \ {call[t].h} : socks'[h] = socks[h]
    BY <2>1 DEF NetInv, NetType, SetSock
  <2>4. NetType'
    BY Zenon, <2>2, <2>3 DEF NetInv, NetType
  <2>5. \A h : Tcp(h) => Tcp(h)'
    BY Zenon, <2>3 DEF Tcp
  <2>6. NetCalls'
    BY Zenon, <2>1, <2>2, <2>5 DEF NetInv, NetCalls, OnTcp
  <2>7. /\ \A h \in DOMAIN socks \ {call[t].h} : Sending(h)' = 0
        /\ Sending(call[t].h)' = (IF call[t].op = "send" THEN c ELSE 0)
    BY Zenon, <2>1, <2>2, SocketAssumption DEF Sending
  <2>8. Stream'
    BY <2>1, <2>3, <2>7 DEF NetInv, Stream
  <2>9. NetEffect(t)
    BY Zenon, <2>2, <2>5 DEF NetEffect, OnTcp
  <2> QED  BY Zenon, <2>4, <2>6, <2>8, <2>9 DEF NetInv
\* The end of a call, which frees the locks: what was queued is accounted for.
<1>11. ASSUME net = t, NEW s \in SockRec,
             NEW r \in {Err} \cup {Ok(v) : v \in Nat}, call[t].op = "accept" => r = Err,
             SetSock(t, s), call[t].op \in OnTcp => s.st \notin {"free", "dns"},
             s.in = s.got + s.rx, s.put = s.out + s.tx,
             Return(t, r), net' = Nobody
      PROVE  NetInv' /\ NetEffect(t)
  <2> USE <1>11
  <2>1. /\ call[t] \in CallRec /\ call[t].op \in OnTcp \cup {"dns"} /\ call[t].h \in DOMAIN socks
        /\ call[t].op = "dns" => ~Tcp(call[t].h)
        /\ \A u \in Threads \ {t} : call[u].ph # "run"
        /\ \A h \in DOMAIN socks \ {call[t].h} : Sending(h) = 0
    BY Zenon, <1>9
  <2>2. /\ call' \in [Threads -> CallRec] /\ ret' \in [Threads -> {Err} \cup {Ok(v) : v \in Nat}]
        /\ call'[t] = NoCall /\ ret'[t] = r
        /\ \A u \in Threads \ {t} : call'[u] = call[u] /\ ret'[u] = ret[u]
    BY Zenon, <1>5
  <2>3. /\ socks' \in Seq(SockRec) /\ DOMAIN socks' = DOMAIN socks /\ socks'[call[t].h] = s
        /\ \A h \in DOMAIN socks \ {call[t].h} : socks'[h] = socks[h]
    BY <2>1 DEF NetInv, NetType, SetSock
  <2>4. NetType'
    BY Zenon, <2>2, <2>3 DEF NetInv, NetType
  <2>5. \A h : Tcp(h) => Tcp(h)'
    BY Zenon, <2>1, <2>3 DEF Tcp
  <2>6. NetCalls'
    BY <2>1, <2>2, <2>5, SocketAssumption DEF NetInv, NetCalls, OnTcp, NoCall
  <2>7. \A h : Sending(h)' = 0
    BY Zenon DEF Sending
  <2>8. s.put + 0 = s.out + s.tx
    BY DEF SockRec
  <2>9. Stream'
    BY <2>1, <2>3, <2>7, <2>8 DEF NetInv, Stream
  <2>10. NetEffect(t)
    <3>1. call'[t].op = "none" /\ call[t].op # "none" /\ call[t].op \notin {"connect", "bind"}
      BY <2>1, <2>2 DEF NoCall, OnTcp
    <3>2. \A h : ret'[t] = Ok(h) => call[t].op # "accept"
      BY <2>2 DEF Ok, Err
    <3> QED  BY Zenon, <2>2, <2>5, <3>1, <3>2 DEF NetEffect
  <2> QED  BY Zenon, <2>4, <2>6, <2>9, <2>10 DEF NetInv
\* A packet loses no byte of the connection it belongs to, and a DNS socket
\* takes none.
<1>12. ASSUME NEW s \in SockRec, NEW p \in Packet(s), s.in = s.got + s.rx, NEW c \in Nat,
             s.put + c = s.out + s.tx
      PROVE  /\ s.st \notin {"free", "dns"}
             /\ p \in SockRec /\ p.st \notin {"free", "dns"}
             /\ p.in = p.got + p.rx /\ p.put + c = p.out + p.tx
  <2> USE <1>12
  <2>1. /\ s.rx \in Nat /\ s.tx \in Nat /\ s.in \in Nat /\ s.got \in Nat /\ s.put \in Nat /\ s.out \in Nat
        /\ DOMAIN s = {"st", "rx", "tx", "in", "got", "put", "out"}
    BY Zenon DEF SockRec
  <2>2. \/ p = [s EXCEPT !.st = "est"] /\ s.st # "dns" /\ s.st # "free"
        \/ p = [s EXCEPT !.st = "closed"] /\ s.st # "dns" /\ s.st # "free"
        \/ p = [s EXCEPT !.st = "closewait"] /\ s.st # "dns" /\ s.st # "free"
        \/ p = [s EXCEPT !.rx = @ + 1, !.in = @ + 1] /\ s.st # "dns" /\ s.st # "free"
        \/ p = [s EXCEPT !.tx = 0, !.out = @ + s.tx] /\ s.st # "dns" /\ s.st # "free"
    BY Zenon, <2>1 DEF Packet
  <2>3. CASE \E st \in {"est", "closed", "closewait"} : p = [s EXCEPT !.st = st]
    BY Zenon, <2>2, <2>3 DEF SockRec
  <2>4. CASE p = [s EXCEPT !.rx = @ + 1, !.in = @ + 1]
    <3>1. /\ p.rx = s.rx + 1 /\ p.in = s.in + 1
          /\ p.st = s.st /\ p.tx = s.tx /\ p.got = s.got /\ p.put = s.put /\ p.out = s.out
      BY Zenon, <2>1, <2>4
    <3>2. p \in SockRec
      <4>1. s.rx + 1 \in Nat /\ s.in + 1 \in Nat
        BY <2>1
      <4> QED  BY Zenon, <2>4, <4>1 DEF SockRec
    <3> QED  BY <2>1, <2>2, <3>1, <3>2
  <2>5. CASE p = [s EXCEPT !.tx = 0, !.out = @ + s.tx]
    <3>1. /\ p.tx = 0 /\ p.out = s.out + s.tx
          /\ p.st = s.st /\ p.rx = s.rx /\ p.in = s.in /\ p.got = s.got /\ p.put = s.put
      BY Zenon, <2>1, <2>5
    <3>2. p \in SockRec
      <4>1. s.out + s.tx \in Nat
        BY <2>1
      <4> QED  BY Zenon, <2>5, <4>1 DEF SockRec
    <3> QED  BY <2>1, <2>2, <3>1, <3>2
  <2> QED  BY Zenon, <2>2, <2>3, <2>4, <2>5
\* What the peer's packets do while a call waits (socket lib.rs:120-138).
<1>13. ASSUME Peer, net = t PROVE NetInv' /\ UNCHANGED <<call, ret>> /\ \A h : Tcp(h) => Tcp(h)'
  <2> USE <1>13
  <2>1. UNCHANGED <<net, call, ret>>
    BY Zenon DEF Peer
  <2>2. PICK p \in Packet(Sock(t)) : SetSock(t, p)
    BY Zenon DEF Peer, Sock, SetSock
  <2>3. /\ call[t] \in CallRec /\ call[t].op \in OnTcp \cup {"dns"} /\ call[t].h \in DOMAIN socks
        /\ Sock(t) \in SockRec /\ (call[t].op = "dns" => ~Tcp(call[t].h))
        /\ Sock(t).in = Sock(t).got + Sock(t).rx
        /\ Sock(t).put + (IF call[t].op = "send" THEN call[t].cur ELSE 0) = Sock(t).out + Sock(t).tx
    BY Zenon, <1>9
  <2>4. call[t].cur \in Nat /\ (IF call[t].op = "send" THEN call[t].cur ELSE 0) \in Nat
    BY Zenon, <2>3 DEF CallRec
  <2>5. /\ Sock(t).st \notin {"free", "dns"}
        /\ p \in SockRec /\ p.st \notin {"free", "dns"}
        /\ p.in = p.got + p.rx /\ p.put + (IF call[t].op = "send" THEN call[t].cur ELSE 0) = p.out + p.tx
    BY Zenon, <2>2, <2>3, <2>4, <1>12
  <2>6. call[t].op \in OnTcp
    BY Zenon, <2>3, <2>5 DEF Tcp, Sock
  <2>7. call' = [call EXCEPT ![t].cur = call[t].cur]
    BY Zenon, <2>1, <2>3 DEF NetInv, NetType, CallRec
  <2>8. NetInv' /\ NetEffect(t)
    BY Zenon, <2>1, <2>2, <2>4, <2>5, <2>6, <2>7, <1>10
  <2> QED  BY Zenon, <2>1, <2>8 DEF NetEffect
\* smol_send queues a part, and returns when all of it is queued
\* (socket apis.rs:104-134).
<1>14. ASSUME SendSome(t) \/ SendEnd(t) PROVE NetInv' /\ NetEffect(t)
  <2> USE <1>14
  <2>1. net = t /\ call[t].op = "send" /\ call[t].op \in OnTcp
    BY Zenon DEF SendSome, SendEnd, In, OnTcp
  <2>2. /\ call[t] \in CallRec /\ Sock(t) \in SockRec /\ Sock(t).st \notin {"free", "dns"}
        /\ Sock(t).in = Sock(t).got + Sock(t).rx
        /\ Sock(t).put + call[t].cur = Sock(t).out + Sock(t).tx
    BY Zenon, <2>1, <1>9 DEF Tcp, Sock
  <2>3. CASE SendSome(t)
    <3>1. PICK k : /\ k = Least(TxCap - Sock(t).tx, call[t].n - call[t].cur) /\ k > 0
                   /\ SetSock(t, [Sock(t) EXCEPT !.tx = @ + k])
                   /\ call' = [call EXCEPT ![t].cur = @ + k] /\ UNCHANGED <<net, ret>>
      BY Zenon, <2>3 DEF SendSome
    <3>2. k \in Nat
      BY <2>2, <3>1, SocketAssumption DEF Least, SockRec, CallRec
    <3> DEFINE s == [Sock(t) EXCEPT !.tx = @ + k]
               c == call[t].cur + k
    <3>3. s \in SockRec /\ s.st \notin {"free", "dns"} /\ s.in = s.got + s.rx /\ c \in Nat
          /\ s.put + c = s.out + s.tx
      BY <2>2, <3>2 DEF SockRec, CallRec
    <3>4. call' = [call EXCEPT ![t].cur = c]
      BY Zenon, <3>1
    <3> HIDE DEF s, c
    <3>5. SetSock(t, s)
      BY Zenon, <3>1 DEF s
    <3> QED  BY Zenon, <2>1, <3>1, <3>3, <3>4, <3>5, <1>10
  <2>4. CASE SendEnd(t)
    <3> DEFINE s == [Sock(t) EXCEPT !.put = @ + call[t].n]
    <3>1. call[t].cur = call[t].n /\ SetSock(t, s) /\ Return(t, Ok(call[t].n)) /\ net' = Nobody
      BY Zenon, <2>4 DEF SendEnd
    <3>2. s \in SockRec /\ s.st \notin {"free", "dns"} /\ s.in = s.got + s.rx /\ s.put = s.out + s.tx
      BY <2>2, <3>1 DEF SockRec, CallRec
    <3>3. Ok(call[t].n) \in {Err} \cup {Ok(v) : v \in Nat}
      BY Zenon, <2>2 DEF CallRec
    <3> HIDE DEF s
    <3> QED  BY Zenon, <2>1, <3>1, <3>2, <3>3, <1>11
  <2> QED  BY Zenon, <2>3, <2>4
\* smol_recv takes what the caller's buffer holds out of the socket's, and
\* returns (socket apis.rs:137-170).
<1>15. ASSUME RecvSome(t) \/ RecvEnd(t) PROVE NetInv' /\ NetEffect(t)
  <2> USE <1>15
  <2>1. net = t /\ call[t].op = "recv" /\ call[t].op \in OnTcp
    BY Zenon DEF RecvSome, RecvEnd, In, OnTcp
  <2>2. /\ call[t] \in CallRec /\ call[t].h \in DOMAIN socks
        /\ Sock(t) \in SockRec /\ Sock(t).st \notin {"free", "dns"}
        /\ Sock(t).in = Sock(t).got + Sock(t).rx
        /\ Sock(t).put + 0 = Sock(t).out + Sock(t).tx
    BY Zenon, <2>1, <1>9 DEF Tcp, Sock
  <2>3. CASE RecvSome(t)
    <3>1. PICK k : /\ k = Least(call[t].n, Sock(t).rx)
                   /\ SetSock(t, [Sock(t) EXCEPT !.rx = @ - k, !.got = @ + k])
                   /\ call' = [call EXCEPT ![t].cur = k] /\ UNCHANGED <<net, ret>>
      BY Zenon, <2>3 DEF RecvSome
    <3>2. k \in Nat /\ k <= Sock(t).rx
      BY <2>2, <3>1 DEF Least, SockRec, CallRec
    <3> DEFINE s == [Sock(t) EXCEPT !.rx = @ - k, !.got = @ + k]
    <3>3. s \in SockRec /\ s.st \notin {"free", "dns"} /\ s.in = s.got + s.rx
          /\ s.put + 0 = s.out + s.tx
      <4>1. /\ Sock(t).rx \in Nat /\ Sock(t).got \in Nat
            /\ DOMAIN Sock(t) = {"st", "rx", "tx", "in", "got", "put", "out"}
        BY Zenon, <2>2 DEF SockRec
      <4>2. /\ s.rx = Sock(t).rx - k /\ s.got = Sock(t).got + k
            /\ s.st = Sock(t).st /\ s.tx = Sock(t).tx /\ s.in = Sock(t).in /\ s.put = Sock(t).put
            /\ s.out = Sock(t).out
        BY Zenon, <4>1
      <4>3. Sock(t).rx - k \in Nat /\ Sock(t).got + k \in Nat
        BY <3>2, <4>1
      <4>4. s \in SockRec
        BY Zenon, <2>2, <4>3 DEF SockRec
      <4> HIDE DEF s
      <4> QED  BY <2>2, <3>2, <4>1, <4>2, <4>4
    <3>4. SetSock(t, s)
      BY Zenon, <3>1
    <3> HIDE DEF s
    <3> QED  BY Zenon, <2>1, <3>1, <3>2, <3>3, <3>4, <1>10
  <2>4. CASE RecvEnd(t)
    <3>1. Return(t, Ok(call[t].cur)) /\ net' = Nobody /\ UNCHANGED socks
      BY Zenon, <2>4 DEF RecvEnd
    <3>2. Ok(call[t].cur) \in {Err} \cup {Ok(v) : v \in Nat} /\ Sock(t).put = Sock(t).out + Sock(t).tx
      BY <2>2 DEF CallRec, SockRec
    <3>3. SetSock(t, Sock(t))
      BY <2>2, <3>1 DEF SetSock, Sock, NetInv, NetType
    <3> QED  BY Zenon, <2>1, <2>2, <3>1, <3>2, <3>3, <1>11
  <2> QED  BY <2>3, <2>4
\* smol_close shuts the connection down once its queue is empty, and waits for
\* its end (socket apis.rs:173-207).
<1>16. ASSUME CloseShut(t) \/ CloseEnd(t) PROVE NetInv' /\ NetEffect(t)
  <2> USE <1>16
  <2>1. net = t /\ call[t].op = "close" /\ call[t].op \in OnTcp
    BY Zenon DEF CloseShut, CloseEnd, In, OnTcp
  <2>2. /\ call[t] \in CallRec /\ call[t].h \in DOMAIN socks
        /\ Sock(t) \in SockRec /\ Sock(t).st \notin {"free", "dns"}
        /\ Sock(t).in = Sock(t).got + Sock(t).rx
        /\ Sock(t).put + 0 = Sock(t).out + Sock(t).tx
    BY Zenon, <2>1, <1>9 DEF Tcp, Sock
  <2>3. CASE CloseShut(t)
    <3>1. SetSock(t, Shut(Sock(t))) /\ call' = [call EXCEPT ![t].cur = 1] /\ UNCHANGED <<net, ret>>
      BY Zenon, <2>3 DEF CloseShut
    <3>2. PICK st \in {"closed", "finwait", "lastack", Sock(t).st} : Shut(Sock(t)) = [Sock(t) EXCEPT !.st = st]
      BY Zenon DEF Shut
    <3> DEFINE s == Shut(Sock(t))
    <3>3. s \in SockRec /\ s.st \notin {"free", "dns"} /\ s.in = s.got + s.rx
          /\ s.put + 0 = s.out + s.tx
      BY Zenon, <2>2, <3>2 DEF SockRec
    <3> HIDE DEF s
    <3>4. SetSock(t, s)
      BY Zenon, <3>1 DEF s
    <3> QED  BY Zenon, <2>1, <3>1, <3>3, <3>4, <1>10
  <2>4. CASE CloseEnd(t)
    <3>1. Return(t, Ok(0)) /\ net' = Nobody /\ UNCHANGED socks
      BY Zenon, <2>4 DEF CloseEnd
    <3>2. Ok(0) \in {Err} \cup {Ok(v) : v \in Nat} /\ Sock(t).put = Sock(t).out + Sock(t).tx
      BY <2>2 DEF SockRec
    <3>3. SetSock(t, Sock(t))
      BY <2>2, <3>1 DEF SetSock, Sock, NetInv, NetType
    <3> QED  BY Zenon, <2>1, <2>2, <3>1, <3>2, <3>3, <1>11
  <2> QED  BY <2>3, <2>4
\* smol_accept has a connection: it frees the locks before it listens anew, or
\* fails (socket apis.rs:238-262).
<1>17. ASSUME AcceptConn(t) PROVE NetInv' /\ NetEffect(t)
  <2> USE <1>17
  <2>1. net = t /\ call[t].op = "accept" /\ call[t].op \in OnTcp /\ net' = Nobody /\ UNCHANGED socks
    BY Zenon DEF AcceptConn, In, OnTcp
  <2>2. /\ call[t] \in CallRec /\ call[t].h \in DOMAIN socks
        /\ Sock(t) \in SockRec /\ Sock(t).st \notin {"free", "dns"}
        /\ Sock(t).in = Sock(t).got + Sock(t).rx
        /\ Sock(t).put + 0 = Sock(t).out + Sock(t).tx
        /\ \A u \in Threads \ {t} : call[u].ph # "run"
    BY Zenon, <2>1, <1>9 DEF Tcp, Sock
  <2>3. CASE Return(t, Err)
    <3>1. Sock(t).put = Sock(t).out + Sock(t).tx
      BY <2>2 DEF SockRec
    <3>2. SetSock(t, Sock(t))
      BY <2>1, <2>2 DEF SetSock, Sock, NetInv, NetType
    <3> QED  BY Zenon, <2>1, <2>2, <2>3, <3>1, <3>2, <1>11
  <2>4. CASE call' = [call EXCEPT ![t].ph = "rebind"] /\ UNCHANGED ret
    <3>1. /\ call' \in [Threads -> CallRec] /\ \A u \in Threads \ {t} : call'[u] = call[u]
          /\ call'[t].op = "accept" /\ call'[t].ph = "rebind" /\ call'[t].h = call[t].h
      BY Zenon, <2>1, <2>2, <2>4 DEF NetInv, NetType, CallRec
    <3>2. NetType'
      BY Zenon, <2>1, <2>4, <3>1 DEF NetInv, NetType
    <3>3. \A h : Tcp(h)' <=> Tcp(h)
      BY Zenon, <2>1 DEF Tcp
    <3>4. NetCalls'
      BY <2>1, <2>2, <3>1, <3>3, SocketAssumption DEF NetInv, NetCalls, OnTcp
    <3>5. \A h : Sending(h)' = 0 /\ Sending(h) = 0
      BY Zenon, <2>1 DEF Sending
    <3>6. Stream'
      BY <2>1, <3>5 DEF NetInv, Stream
    <3>7. NetEffect(t)
      BY Zenon, <2>1, <2>4, <3>1, <3>3 DEF NetEffect
    <3> QED  BY Zenon, <3>2, <3>4, <3>6, <3>7 DEF NetInv
  <2> QED  BY Zenon, <2>3, <2>4 DEF AcceptConn
\* addrinfo adds a DNS socket and removes it with the answer; no TCP socket is
\* where it was (socket apis.rs:26-67).
<1>18. ASSUME DnsStart(t) \/ DnsEnd(t) PROVE NetInv' /\ NetEffect(t)
  <2> USE <1>18
  <2>1. CASE DnsStart(t)
    <3>1. PICK new : new = NewHandle
      OBVIOUS
    <3>2. call[t].op = "dns" /\ call[t].ph = "lock" /\ net = Nobody /\ socks' = WithSock(Fresh("dns"))
      BY Zenon, <2>1 DEF DnsStart
    <3>3. CASE Return(t, Err) /\ UNCHANGED net
      BY Zenon, <3>1, <3>2, <3>3, <1>7
    <3>4. CASE net' = t /\ call' = [call EXCEPT ![t].ph = "run", ![t].h = NewHandle] /\ UNCHANGED ret
      <4>1. /\ socks' \in Seq(SockRec) /\ new \in Nat \ {0} /\ new \in DOMAIN socks' /\ socks'[new].st = "dns"
            /\ \A h : Tcp(h) => Tcp(h)'
        BY Zenon, <3>1, <3>2, <1>6
      <4>2. /\ call' \in [Threads -> CallRec] /\ \A u \in Threads \ {t} : call'[u] = call[u]
            /\ call'[t].op = "dns" /\ call'[t].ph = "run" /\ call'[t].h = new
        <5>1. call[t] \in CallRec /\ call \in [Threads -> CallRec]
          BY Zenon DEF NetInv, NetType
        <5>2. [call[t] EXCEPT !.ph = "run", !.h = new] \in CallRec
          BY Zenon, <4>1, <5>1 DEF CallRec
        <5>3. call' = [call EXCEPT ![t] = [call[t] EXCEPT !.ph = "run", !.h = new]]
          BY Zenon, <3>1, <3>4, <5>1
        <5>4. /\ [call[t] EXCEPT !.ph = "run", !.h = new].op = "dns"
              /\ [call[t] EXCEPT !.ph = "run", !.h = new].ph = "run"
              /\ [call[t] EXCEPT !.ph = "run", !.h = new].h = new
          BY Zenon, <3>2, <5>1 DEF CallRec
        <5> QED  BY Zenon, <5>1, <5>2, <5>3, <5>4
      <4>3. NetType'
        BY Zenon, <3>4, <4>1, <4>2 DEF NetInv, NetType
      <4>4. \A u \in Threads : call[u].ph # "run"
        BY Zenon, <3>2, SocketAssumption DEF NetInv, NetCalls
      <4>5. NetCalls'
        BY Zenon, <3>4, <4>1, <4>2, <4>4 DEF NetInv, NetCalls, OnTcp
      <4>6. \A h : Sending(h)' = 0 /\ Sending(h) = 0
        BY Zenon, <3>2, <3>4, <4>2 DEF Sending
      <4>7. Stream'
        <5>1. socks \in Seq(SockRec) /\ Fresh("dns") \in SockRec
          BY Zenon DEF NetInv, NetType, Fresh, SockRec
        <5>2. /\ DOMAIN socks' = DOMAIN socks \cup {new} /\ socks'[new] = Fresh("dns")
              /\ \A h \in DOMAIN socks \ {new} : socks'[h] = socks[h]
          BY Zenon, <3>1, <3>2, <5>1, <1>3
        <5>3. /\ Fresh("dns").in = Fresh("dns").got + Fresh("dns").rx
              /\ Fresh("dns").put + 0 = Fresh("dns").out + Fresh("dns").tx
          BY DEF Fresh
        <5> QED  BY <4>6, <5>2, <5>3 DEF NetInv, Stream
      <4>8. NetEffect(t)
        BY Zenon, <3>2, <3>4, <4>1, <4>2 DEF NetEffect
      <4> QED  BY Zenon, <4>3, <4>5, <4>7, <4>8 DEF NetInv
    <3> QED  BY Zenon, <2>1, <3>3, <3>4 DEF DnsStart
  <2>2. CASE DnsEnd(t)
    <3>1. net = t /\ call[t].op = "dns" /\ call[t].op \notin OnTcp /\ net' = Nobody
      BY Zenon, <2>2 DEF DnsEnd, In, OnTcp
    <3>2. /\ call[t].h \in DOMAIN socks /\ Sock(t) \in SockRec
          /\ Sock(t).in = Sock(t).got + Sock(t).rx /\ Sock(t).put + 0 = Sock(t).out + Sock(t).tx
      BY Zenon, <3>1, <1>9
    <3>3. CASE SetSock(t, Fresh("free")) /\ Return(t, Ok(0))
      <4>1. /\ Fresh("free") \in SockRec /\ Fresh("free").in = Fresh("free").got + Fresh("free").rx
            /\ Fresh("free").put = Fresh("free").out + Fresh("free").tx
        BY DEF Fresh, SockRec
      <4>2. Ok(0) \in {Err} \cup {Ok(v) : v \in Nat}
        BY Zenon
      <4> QED  BY Zenon, <3>1, <3>3, <4>1, <4>2, <1>11
    <3>4. CASE Return(t, Err) /\ UNCHANGED socks
      <4>1. Sock(t).put = Sock(t).out + Sock(t).tx
        BY <3>2 DEF SockRec
      <4>2. SetSock(t, Sock(t))
        BY <3>2, <3>4 DEF SetSock, Sock, NetInv, NetType
      <4> QED  BY Zenon, <3>1, <3>2, <3>4, <4>1, <4>2, <1>11
    <3> QED  BY Zenon, <2>2, <3>3, <3>4 DEF DnsEnd
  <2> QED  BY <2>1, <2>2
\* A call whose wait fails returns the error, and what it had queued stays
\* queued (socket lib.rs:131-138).
<1>19. ASSUME WaitFails(t) PROVE NetInv' /\ NetEffect(t)
  <2> USE <1>19
  <2> DEFINE c == IF call[t].op = "send" THEN call[t].cur ELSE 0
             s == [Sock(t) EXCEPT !.put = @ + c]
  <2>1. net = t /\ call[t].op \in OnTcp /\ SetSock(t, s) /\ Return(t, Err) /\ net' = Nobody
    BY Zenon DEF WaitFails, In, OnTcp
  <2>2. /\ call[t] \in CallRec /\ Sock(t) \in SockRec /\ Sock(t).st \notin {"free", "dns"}
        /\ Sock(t).in = Sock(t).got + Sock(t).rx /\ Sock(t).put + c = Sock(t).out + Sock(t).tx
    BY Zenon, <2>1, <1>9 DEF Tcp, Sock
  <2>3. c \in Nat
    BY Zenon, <2>2 DEF CallRec
  <2> HIDE DEF c
  <2>4. s \in SockRec /\ s.st \notin {"free", "dns"} /\ s.in = s.got + s.rx /\ s.put = s.out + s.tx
    BY <2>2, <2>3 DEF SockRec
  <2> HIDE DEF s
  <2> QED  BY Zenon, <2>1, <2>4, <1>11
<1>20. ASSUME Lock(t) PROVE NetEffect(t)
  BY Zenon, <1>20 DEF NetInv, NetType, Lock, NetEffect, Tcp, CallRec
<1> QED  BY Zenon, <1>4, <1>8, <1>13, <1>14, <1>15, <1>16, <1>17, <1>18, <1>19, <1>20 DEF NetStep

-----------------------------------------------------------------------------
(* The descriptor table                                                     *)

FileRec == {None} \cup [mode : {"RD", "RDWR"}, src : {"fat", "net"}, h : Nat \ {0}]
PcRec == [at : {"idle", "add", "io", "close", "wait", "connect", "bind", "accept", "failed", "dead"},
          fd : Nat, file : FileRec]

FdType ==
    /\ fdtab \in Seq(FileRec)
    /\ ftable \in Seq(0..Closed)
    /\ pc \in [Threads -> PcRec]
    /\ own = [t \in Threads |-> own[t]]
    /\ \A t \in Threads : \A fd \in Fds(t) : own[t][fd] \in [file : FileRec, pos : Nat]

\* The file that a thread has between a backend's call and the table's: the
\* result of connect, bind or accept, and what it is about to add or close.
Held(t) ==
    IF pc[t].at \in {"add", "close", "wait"} THEN pc[t].file
    ELSE IF pc[t].at \in {"connect", "bind", "accept"} /\ call[t].op = "none" /\ ret[t] # Err
         THEN File(IF pc[t].at = "bind" THEN "RD" ELSE "RDWR", "net", ret[t].val)
         ELSE None

Same(f, g) == f.src = g.src /\ f.h = g.h

\* What a file stands for is there.
Live(f) ==
    /\ f.src = "net" => Tcp(f.h)
    /\ f.src = "fat" => f.h \in DOMAIN ftable /\ ftable[f.h] # Closed

\* A descriptor is its owner's, and the table agrees with it.
Owned ==
    /\ \A t \in Threads : \A fd \in Fds(t) :
          fd \in DOMAIN fdtab /\ fdtab[fd] # None /\ fdtab[fd] = own[t][fd].file
    /\ \A t, u \in Threads : t # u => Fds(t) \cap Fds(u) = {}

\* No file is in two places.
Alone ==
    /\ \A i, j \in DOMAIN fdtab : i # j /\ fdtab[i] # None => ~Same(fdtab[i], fdtab[j])
    /\ \A i \in DOMAIN fdtab : \A t \in Threads : Held(t) # None => ~Same(fdtab[i], Held(t))
    /\ \A t, u \in Threads : t # u /\ Held(t) # None => ~Same(Held(t), Held(u))

AllLive ==
    /\ \A i \in DOMAIN fdtab : Live(fdtab[i])
    /\ \A t \in Threads : Held(t) \in FileRec /\ Live(Held(t))

\* An open FAT file is in the table or held by a thread.
Reachable ==
    \A h \in DOMAIN ftable : ftable[h] # Closed =>
        \/ \E fd \in DOMAIN fdtab : fdtab[fd].src = "fat" /\ fdtab[fd].h = h
        \/ \E t \in Threads : Held(t).src = "fat" /\ Held(t).h = h

TabInv == Owned /\ Alone /\ AllLive /\ Reachable

\* Where a thread is in the table agrees with its socket call.
Stage(t) ==
    /\ pc[t].at \in {"idle", "add", "close", "failed", "dead"} => call[t].op = "none"
    /\ pc[t].at \in {"connect", "bind", "accept"} => call[t].op \in {pc[t].at, "none"}
    /\ pc[t].at = "io" => call[t].op \in {"send", "recv", "none"}
    /\ pc[t].at = "wait" => call[t].op \in {"close", "dns", "none"}
    /\ pc[t].at = "close" => pc[t].file.src = "fat"
    /\ pc[t].at = "wait" => pc[t].file.src # "fat"
    /\ pc[t].at = "add" => pc[t].file # None
    /\ pc[t].at = "accept" =>
          pc[t].fd \in Fds(t) /\ pc[t].file = fdtab[pc[t].fd] /\ pc[t].file.src = "net"
    /\ pc[t].at # "failed"

Stages == \A t \in Threads : Stage(t)

\* A file is where its owner believes, and at its start before the owner has it.
Places ==
    /\ \A t \in Threads : pc[t].at = "add" /\ pc[t].file.src = "fat" => ftable[pc[t].file.h] = 0
    /\ ~DiskFails => \A t \in Threads : \A fd \in Fds(t) :
          own[t][fd].file.src = "fat" => own[t][fd].pos = ftable[own[t][fd].file.h]

IInv == NetInv /\ FdType /\ TabInv /\ Stages /\ Places

\* The kinds of a file.
LEMMA FileKinds ==
    ASSUME NEW f \in FileRec
    PROVE  /\ f.src \in {"none", "fat", "net"} /\ f.h \in Nat
           /\ f = None <=> f.src = "none"
           /\ f # None => f.h \in Nat \ {0} /\ f.src \in {"fat", "net"} /\ f.mode \in {"RD", "RDWR"}
BY DEF FileRec, None

LEMMA FileIs ==
    ASSUME NEW m \in {"RD", "RDWR"}, NEW src \in {"fat", "net"}, NEW h \in Nat \ {0}
    PROVE  File(m, src, h) \in FileRec /\ File(m, src, h).src = src /\ File(m, src, h).h = h
BY Zenon DEF File, FileRec

\* The table, the descriptors and the FAT files are as they were; thread t holds
\* what it held, nothing (if that was no FAT file), or a new socket.
LEMMA TabHeld ==
    ASSUME FdType, TabInv, NEW t \in Threads, UNCHANGED <<fdtab, own, ftable>>,
           \A u \in Threads \ {t} : Held(u)' = Held(u),
           \A h : Tcp(h) => Tcp(h)',
           \/ Held(t)' = Held(t)
           \/ Held(t).src # "fat" /\ Held(t)' = None
           \/ /\ Held(t) = None /\ Held(t)' \in FileRec /\ Held(t)'.src = "net"
              /\ \E h : h = Held(t)'.h /\ ~Tcp(h) /\ Tcp(h)'
    PROVE  TabInv'
<1>1. Owned'
  BY Zenon DEF TabInv, Owned, Fds
<1>2. PICK g : g = Held(t)'
  BY Zenon
<1>3. \A i \in DOMAIN fdtab : fdtab[i] \in FileRec /\ Live(fdtab[i]) /\ Live(fdtab[i])'
  BY DEF FdType, TabInv, AllLive, Live
<1>4. \A u \in Threads \ {t} : Held(u) \in FileRec /\ Live(Held(u)) /\ Live(Held(u))'
  BY Zenon DEF TabInv, AllLive, Live
<1>5. CASE g = Held(t)
  <2>1. \A u \in Threads : Held(u)' = Held(u)
    BY Zenon, <1>2, <1>5
  <2>2. \A u \in Threads : Held(u) \in FileRec /\ Live(Held(u))'
    BY Zenon, <2>1 DEF TabInv, AllLive, Live
  <2>3. Alone' /\ Reachable'
    BY <2>1 DEF TabInv, Alone, Reachable, Same
  <2>4. AllLive'
    BY Zenon, <1>3, <2>1, <2>2 DEF AllLive
  <2> QED  BY Zenon, <1>1, <2>3, <2>4 DEF TabInv
<1>6. CASE g # Held(t)
  <2>1. /\ g \in FileRec /\ Live(Held(t))' /\ Held(t).src # "fat" /\ g.src # "fat"
        /\ g # None => g.src = "net" /\ ~Tcp(g.h)
    BY Zenon, <1>2, <1>6, FileKinds DEF Live, FileRec, None
  <2>2. AllLive'
    BY Zenon, <1>2, <1>3, <1>4, <2>1 DEF AllLive
  <2>3. Reachable'
    BY <1>2, <2>1 DEF TabInv, Reachable
  <2>4. \A i \in DOMAIN fdtab : g # None => ~Same(fdtab[i], g)
    BY Zenon, <1>3, <2>1 DEF Same, Live
  <2>5. \A u \in Threads \ {t} : g # None => ~Same(Held(u), g) /\ ~Same(g, Held(u))
    BY Zenon, <1>4, <2>1 DEF Same, Live
  <2>6. \A u \in Threads \ {t} : Held(u) # None => ~Same(Held(u), g) /\ ~Same(g, Held(u))
    <3>1. CASE g = None
      BY Zenon, <1>4, <3>1, FileKinds DEF Same, None
    <3> QED  BY Zenon, <2>5, <3>1
  <2>7. Alone'
    BY <1>2, <2>4, <2>5, <2>6 DEF TabInv, Alone, Same
  <2> QED  BY Zenon, <1>1, <2>2, <2>3, <2>7 DEF TabInv
<1> QED  BY Zenon, <1>5, <1>6

\* The file behind fd and the one a thread holds, both sockets, change places.
Swap(t, fd, old, g, new, put) ==
    /\ UNCHANGED <<socks, ftable>>
    /\ old = fdtab[fd] /\ old.src = "net" /\ g = Held(t) /\ g.src = "net"
    /\ new = [old EXCEPT !.h = g.h]
    /\ fdtab' = [fdtab EXCEPT ![fd] = new] /\ own'[t][fd].file = new
    /\ \A u \in Threads : Fds(u)' = Fds(u)
    /\ \A u \in Threads : \A k \in Fds(u) : ~(u = t /\ k = fd) => own'[u][k].file = own[u][k].file
    /\ put.src = "net" /\ put.h = old.h
    /\ Held(t)' = put /\ \A u \in Threads \ {t} : Held(u)' = Held(u)

\* A position of a FAT file changes, or the file that a thread holds is closed
\* (fatfs lib.rs:71-85, fatfs apis.rs:14-50, 114-128).
LEMMA TabFat ==
    ASSUME FdType, TabInv, NEW t \in Threads, UNCHANGED <<socks, fdtab>>,
           NEW h \in DOMAIN ftable, NEW pos, ftable' = [ftable EXCEPT ![h] = pos],
           \A u \in Threads : Fds(u)' = Fds(u),
           \A u \in Threads : \A k \in Fds(u) : own'[u][k].file = own[u][k].file,
           \A u \in Threads \ {t} : Held(u)' = Held(u),
           \/ pos # Closed /\ ftable[h] # Closed /\ Held(t)' = Held(t)
           \/ pos = Closed /\ Held(t).src = "fat" /\ Held(t).h = h /\ Held(t)' = None
    PROVE  TabInv'
<1>1. DOMAIN ftable' = DOMAIN ftable /\ ftable'[h] = pos /\ \A k \in DOMAIN ftable \ {h} : ftable'[k] = ftable[k]
  BY Zenon DEF FdType
<1>2. \A k : Tcp(k)' <=> Tcp(k)
  BY Zenon DEF Tcp
<1>3. Owned'
  BY DEF TabInv, Owned
<1>4. Held(t) \in FileRec /\ None \in FileRec
  BY Zenon DEF TabInv, AllLive, FileRec
<1>5. Alone'
  <2>1. CASE Held(t)' = Held(t)
    <3>1. \A u \in Threads : Held(u)' = Held(u)
      BY Zenon, <2>1
    <3> QED  BY <3>1 DEF TabInv, Alone, Same
  <2>2. CASE Held(t)' = None
    <3>1. ASSUME NEW u \in Threads \ {t}, Held(u) # None PROVE ~Same(Held(u), None)
      BY Zenon, <3>1, FileKinds DEF TabInv, AllLive, Same, None
    <3> QED  BY <2>2, <3>1 DEF TabInv, Alone, Same
  <2> QED  BY Zenon, <2>1, <2>2
<1>6. CASE pos # Closed /\ ftable[h] # Closed /\ Held(t)' = Held(t)
  <2>1. \A u \in Threads : Held(u)' = Held(u)
    BY Zenon, <1>6
  <2>2. \A k \in DOMAIN ftable : ftable'[k] # Closed <=> ftable[k] # Closed
    BY Zenon, <1>1, <1>6
  <2>3. AllLive'
    BY <1>1, <1>2, <2>1, <2>2 DEF TabInv, AllLive, Live, Closed
  <2>4. Reachable'
    BY <1>1, <2>1, <2>2 DEF TabInv, Reachable, Closed
  <2> QED  BY Zenon, <1>3, <1>5, <2>3, <2>4 DEF TabInv
<1>7. CASE pos = Closed /\ Held(t).src = "fat" /\ Held(t).h = h /\ Held(t)' = None
  <2>1. \A k \in DOMAIN ftable : ftable'[k] # Closed => k # h /\ ftable[k] # Closed
    BY Zenon, <1>1, <1>7
  <2>2. Held(t) # None
    BY <1>7 DEF None
  <2>3. ASSUME NEW i \in DOMAIN fdtab, fdtab[i].src = "fat" PROVE fdtab[i].h # h
    BY Zenon, <1>7, <2>2, <2>3 DEF TabInv, Alone, Same
  <2>4. ASSUME NEW u \in Threads \ {t}, Held(u).src = "fat" PROVE Held(u).h # h
    BY Zenon, <1>7, <2>2, <2>4 DEF TabInv, Alone, Same
  <2>5. ASSUME NEW i \in DOMAIN fdtab PROVE Live(fdtab[i])'
    BY Zenon, <1>1, <1>2, <2>3 DEF TabInv, AllLive, Live, Closed
  <2>6. ASSUME NEW u \in Threads \ {t} PROVE Live(Held(u))'
    BY <1>1, <1>2, <2>4 DEF TabInv, AllLive, Live, Closed
  <2>7. Live(Held(t))'
    BY <1>7 DEF Live, None
  <2>8. AllLive'
    <3>1. \A u \in Threads : Held(u)' \in FileRec
      BY Zenon, <1>4, <1>7 DEF TabInv, AllLive
    <3> QED  BY Zenon, <2>5, <2>6, <2>7, <3>1 DEF AllLive
  <2>9. Reachable'
    <3>1. ASSUME NEW k \in DOMAIN ftable, ftable'[k] # Closed
          PROVE  \/ \E fd \in DOMAIN fdtab : fdtab[fd].src = "fat" /\ fdtab[fd].h = k
                 \/ \E u \in Threads : Held(u)'.src = "fat" /\ Held(u)'.h = k
      <4>1. k # h /\ ftable[k] # Closed
        BY Zenon, <2>1, <3>1
      <4>2. CASE \E u \in Threads : Held(u).src = "fat" /\ Held(u).h = k
        BY Zenon, <1>7, <4>1, <4>2
      <4> QED  BY Zenon, <4>1, <4>2 DEF TabInv, Reachable
    <3> QED  BY Zenon, <1>1, <3>1 DEF Reachable, Closed
  <2> QED  BY <1>3, <1>5, <2>8, <2>9 DEF TabInv
<1> QED  BY Zenon, <1>6, <1>7

-----------------------------------------------------------------------------
(* The steps of the threads                                                 *)

\* What another thread holds is not touched.
LEMMA HeldOther ==
    ASSUME NEW u \in Threads, pc'[u] = pc[u], call'[u].op = call[u].op, ret'[u] = ret[u]
    PROVE  Held(u)' = Held(u)
BY Zenon DEF Held

\* Nothing is open at first.
LEMMA InitIInv == Init => IInv
<1> SUFFICES ASSUME Init PROVE IInv
  OBVIOUS
<1>1. NetInv
  BY Zenon, NetInitInv DEF Init
<1>2. FdType
  BY DEF Init, FdType, PcRec, Idle, FileRec, None, Fds
<1>3. \A t \in Threads : Held(t) = None /\ Fds(t) = {}
  BY DEF Init, Held, Idle, Fds
<1>4. TabInv
  <2>1. DOMAIN fdtab = {} /\ DOMAIN ftable = {}
    BY DEF Init
  <2>2. None \in FileRec /\ Live(None)
    BY Zenon DEF FileRec, Live, None
  <2> QED  BY Zenon, <1>3, <2>1, <2>2 DEF TabInv, Owned, Alone, AllLive, Reachable
<1>5. Stages
  BY Zenon DEF Init, Stages, Stage, Idle, NetInit, NoCall
<1>6. Places
  BY Zenon, <1>3 DEF Init, Places, Idle
<1> QED  BY Zenon, <1>1, <1>2, <1>4, <1>5, <1>6 DEF IInv

\* A step inside a socket call of a thread, or a peer's, is no step of the table.
LEMMA NetStepIInv ==
    ASSUME IInv, NEW t \in Threads, NetStep(t) \/ WaitFails(t),
           UNCHANGED <<prog, fdtab, ftable, pc, own>>
    PROVE  IInv'
<1>1. NetInv' /\ NetEffect(t)
  BY Zenon, NetMoves DEF IInv
<1>2. \A u \in Threads \ {t} : Held(u)' = Held(u)
  BY Zenon, <1>1, HeldOther DEF NetEffect
<1>3. FdType'
  BY Zenon DEF IInv, FdType, Fds
<1>4. \/ Held(t)' = Held(t)
      \/ Held(t).src # "fat" /\ Held(t)' = None
      \/ /\ Held(t) = None /\ Held(t)' \in FileRec /\ Held(t)'.src = "net"
         /\ \E h : h = Held(t)'.h /\ ~Tcp(h) /\ Tcp(h)'
  <2>1. CASE pc[t].at \notin {"connect", "bind", "accept"}
    BY Zenon, <2>1 DEF Held
  <2>2. CASE pc[t].at \in {"connect", "bind", "accept"}
    <3>1. Held(t) = None /\ call[t].op \in {"connect", "bind", "accept"} /\ pc'[t].at = pc[t].at
      BY Zenon, <1>1, <2>2 DEF Held, NetEffect, IInv, Stages, Stage
    <3>2. CASE call'[t].op = "none" /\ ret'[t] # Err
      <4>1. PICK h : ret'[t] = Ok(h)
        BY Zenon, <1>1, <3>2 DEF NetInv, NetType
      <4>2. h \in Nat \ {0} /\ ~Tcp(h) /\ Tcp(h)'
        BY Zenon, <1>1, <3>1, <3>2, <4>1 DEF NetEffect
      <4>3. Held(t)' = File(IF pc[t].at = "bind" THEN "RD" ELSE "RDWR", "net", h)
        <5>1. ret'[t].val = h
          BY <4>1 DEF Ok
        <5>2. pc'[t].at \notin {"add", "close", "wait"}
          BY Zenon, <2>2, <3>1
        <5> QED  BY Zenon, <2>2, <3>1, <3>2, <5>1, <5>2 DEF Held
      <4>4. Held(t)' \in FileRec /\ Held(t)'.src = "net" /\ Held(t)'.h = h
        <5>1. PICK m \in {"RD", "RDWR"} : m = IF pc[t].at = "bind" THEN "RD" ELSE "RDWR"
          BY Zenon
        <5> QED  BY <4>2, <4>3, <5>1, FileIs
      <4> QED  BY Zenon, <3>1, <4>2, <4>4
    <3>3. CASE ~(call'[t].op = "none" /\ ret'[t] # Err)
      <4>1. Held(t)' = None
        BY Zenon, <2>2, <3>1, <3>3 DEF Held
      <4> QED  BY Zenon, <3>1, <4>1 DEF None
    <3> QED  BY Zenon, <3>2, <3>3
  <2> QED  BY Zenon, <2>1, <2>2
<1>5. TabInv'
  BY Zenon, <1>1, <1>2, <1>4, TabHeld DEF IInv, NetEffect
<1>6. Stages'
  BY <1>1 DEF IInv, Stages, Stage, NetEffect, Fds
<1>7. Places'
  BY Zenon DEF IInv, Places, DiskFails, Fds
<1> QED  BY Zenon, <1>1, <1>3, <1>5, <1>6, <1>7 DEF IInv

\* Nor is a peer's.
LEMMA PeerIInv ==
    ASSUME IInv, Peer, UNCHANGED <<prog, fdtab, ftable, pc, own>>
    PROVE  IInv'
<1>1. NetInv' /\ UNCHANGED <<call, ret>> /\ \A h : Tcp(h) => Tcp(h)'
  <2>1. NetInv /\ net \in Threads
    BY Zenon DEF IInv, NetInv, NetType, Peer
  <2> QED  BY Zenon, <2>1, NetMoves
<1>2. \A u \in Threads : Held(u)' = Held(u)
  BY Zenon, <1>1, HeldOther
<1>3. FdType' /\ Stages' /\ Places'
  BY Zenon, <1>1 DEF IInv, FdType, Fds, Stages, Stage, Places, DiskFails
<1>4. TabInv'
  <2>1. net \in Threads
    BY Zenon DEF IInv, NetInv, NetType, Peer
  <2> QED  BY Zenon, <1>1, <1>2, <2>1, TabHeld DEF IInv
<1> QED  BY Zenon, <1>1, <1>3, <1>4 DEF IInv

\* Where Goto sends a thread.
LEMMA GotoIs ==
    ASSUME FdType, NEW t \in Threads, NEW at \in {"idle", "add", "io", "close", "wait", "connect",
                                                  "bind", "accept", "failed", "dead"},
           NEW fd \in Nat, NEW file \in FileRec, Goto(t, at, fd, file)
    PROVE  /\ pc' \in [Threads -> PcRec] /\ pc'[t] = [at |-> at, fd |-> fd, file |-> file]
           /\ \A u \in Threads \ {t} : pc'[u] = pc[u]
<1>1. [at |-> at, fd |-> fd, file |-> file] \in PcRec
  BY Zenon DEF PcRec
<1> QED  BY Zenon, <1>1 DEF Goto, FdType

\* A thread that is between two calls.
LEMMA IdleIs ==
    ASSUME IInv, NEW t \in Threads, pc[t].at = "idle"
    PROVE  Held(t) = None /\ call[t].op = "none" /\ Stage(t)
BY Zenon DEF IInv, Held, Stages, Stage

LEMMA NoneKind == None \in FileRec /\ None.src = "none" /\ None.h = 0
BY Zenon DEF FileRec, None

LEMMA NetSame == ASSUME NetInv, UNCHANGED <<prog, netVars>> PROVE NetInv'
BY Zenon DEF NetInv, netVars, NetType, NetCalls, Stream, Sending, Tcp

\* The file behind a descriptor of a thread.
LEMMA FdIs ==
    ASSUME IInv, NEW t \in Threads, NEW fd \in Fds(t)
    PROVE  /\ fd \in Nat /\ fd \in DOMAIN fdtab /\ fdtab[fd] \in FileRec /\ fdtab[fd] # None
           /\ fdtab[fd] = own[t][fd].file /\ fdtab[fd].h \in Nat \ {0}
           /\ fdtab[fd].src \in {"fat", "net"} /\ fdtab[fd].mode \in {"RD", "RDWR"}
           /\ fdtab[fd].src = "net" => Tcp(fdtab[fd].h)
           /\ fdtab[fd].src = "fat" => fdtab[fd].h \in DOMAIN ftable /\ ftable[fdtab[fd].h] # Closed
<1>1. fdtab \in Seq(FileRec) /\ fd \in DOMAIN fdtab /\ fdtab[fd] # None /\ fdtab[fd] = own[t][fd].file
  BY Zenon DEF IInv, FdType, TabInv, Owned
<1>2. fdtab[fd] \in FileRec /\ fd \in Nat
  BY <1>1
<1>3. Live(fdtab[fd])
  BY Zenon, <1>1 DEF IInv, TabInv, AllLive
<1> QED  BY Zenon, <1>1, <1>2, <1>3 DEF Live, FileRec

\* The calls that leave the table and its files alone: they fail, or they call the
\* socket service and use its result.
LEMMA SocketCalls ==
    ASSUME IInv, NEW t \in Threads, UNCHANGED prog
    PROVE  /\ OpenPanics(t) \/ Lookup(t) \/ IOEnd(t) \/ WaitEnd(t) \/ NewSocketEnd(t) => IInv'
           /\ \A op \in {"connect", "bind"} : NewSocket(t, op) => IInv'
           /\ \A fd \in Fds(t) : Accept(t, fd) => IInv'
           /\ \A fd \in Fds(t), op \in {"send", "recv"}, n \in Nat :
                 pc[t].at = "idle" /\ fdtab[fd].src = "net" /\ OnSocket(t, fd, op, n) => IInv'
           /\ pc[t].at = "idle" /\ UNCHANGED <<netVars, fdtab, ftable, own, pc>> => IInv'
           /\ AcceptEnd(t) /\ ~ret[t].ok => IInv'
\* What a thread waits for fits the call that it makes.
<1> DEFINE Fits(op, h, at, fd, file) ==
              /\ op \in OnTcp => Tcp(h)
              /\ at \in {"connect", "bind", "accept"} <=> op \in {"connect", "bind", "accept"}
              /\ at \in {"connect", "bind", "accept"} => op = at
              /\ at = "io" <=> op \in {"send", "recv"}
              /\ at = "wait" => file = None
              /\ at = "accept" => fd \in Fds(t) /\ file = fdtab[fd] /\ file.src = "net"
<1> HIDE DEF Fits
\* A step that leaves the table and its backends alone.
<1>QuietIInv. ASSUME UNCHANGED <<prog, fdtab, ftable, own, socks>>, NetInv',
             pc' \in [Threads -> PcRec],
             \A u \in Threads \ {t} : pc'[u] = pc[u] /\ call'[u].op = call[u].op /\ ret'[u] = ret[u],
             Stage(t)', pc'[t].at = "add" => pc'[t].file.src = "net",
             Held(t)' = Held(t) \/ (Held(t).src # "fat" /\ Held(t)' = None)
      PROVE  IInv'
  <2> USE <1>QuietIInv
  <2>1. \A u \in Threads \ {t} : Held(u)' = Held(u)
    BY Zenon, HeldOther
  <2>2. \A h : Tcp(h) => Tcp(h)'
    BY Zenon DEF Tcp
  <2>3. TabInv'
    BY Zenon, <2>1, <2>2, TabHeld DEF IInv
  <2>4. FdType'
    BY Zenon DEF IInv, FdType, Fds
  <2>5. Stages'
    BY DEF IInv, Stages, Stage, Fds
  <2>6. Places'
    BY Zenon DEF IInv, Places, DiskFails, Fds
  <2> QED  BY Zenon, <2>3, <2>4, <2>5, <2>6 DEF IInv
\* A call that fails, or does nothing, in one step: an open of a file that is
\* not there, a write on a file opened for reading (apis.rs:13-119).
<1>FailsIInv. ASSUME pc[t].at = "idle",
             UNCHANGED <<prog, netVars, fdtab, ftable, own, pc>>
      PROVE  IInv'
  <2> USE <1>FailsIInv
  <2>1. UNCHANGED <<socks, call, ret>>
    BY Zenon DEF netVars
  <2>2. NetInv' /\ FdType
    BY Zenon, NetSame DEF IInv
  <2>3. pc' \in [Threads -> PcRec] /\ Held(t)' = Held(t) /\ Stage(t)'
    BY Zenon, <2>1, <2>2, IdleIs DEF FdType, Stage, Held, Fds
  <2> QED  BY Zenon, <2>1, <2>2, <2>3, <1>QuietIInv
\* The thread that panics in get_fs_ref is gone (fatfs lib.rs:94-116).
<1>PanicsIInv. ASSUME OpenPanics(t)
      PROVE  IInv'
  <2> USE <1>PanicsIInv
  <2>1. UNCHANGED <<socks, call, ret, fdtab, ftable, own>> /\ pc[t].at = "idle" /\ Goto(t, "dead", 0, None)
    BY Zenon DEF OpenPanics, netVars, Starts
  <2>2. NetInv' /\ FdType
    BY Zenon, NetSame DEF IInv, OpenPanics
  <2>3. /\ pc' \in [Threads -> PcRec] /\ pc'[t] = [at |-> "dead", fd |-> 0, file |-> None]
        /\ \A u \in Threads \ {t} : pc'[u] = pc[u]
    BY <2>1, <2>2, NoneKind, GotoIs
  <2>4. Held(t)' = Held(t) /\ Stage(t)'
    BY <2>1, <2>3, IdleIs DEF Held, Stage
  <2>5. pc'[t].at # "add" /\ UNCHANGED <<prog, fdtab, ftable, own, socks>>
    BY <2>1, <2>3
  <2>6. \A u \in Threads \ {t} : pc'[u] = pc[u] /\ call'[u].op = call[u].op /\ ret'[u] = ret[u]
    BY Zenon, <2>1, <2>3
  <2> QED  BY Zenon, <2>2, <2>3, <2>4, <2>5, <2>6, <1>QuietIInv
\* A call of the socket service begins: it holds nothing yet, and the descriptor
\* of accept is the caller's (apis.rs:107-177).
<1>SocketBegins. ASSUME pc[t].at = "idle", UNCHANGED <<prog, net, socks, ret, fdtab, ftable, own>>,
             NEW op \in {"connect", "bind", "accept", "dns", "send", "recv"}, NEW h \in Nat, NEW n \in Nat,
             Enter(t, op, h, n),
             NEW at \in {"io", "wait", "connect", "bind", "accept"}, NEW fd \in Nat, NEW file \in FileRec,
             Goto(t, at, fd, file), Fits(op, h, at, fd, file)
      PROVE  IInv'
  <2> USE <1>SocketBegins DEF Fits
  <2>1. NetInv /\ FdType /\ call \in [Threads -> CallRec]
    BY Zenon DEF IInv, NetInv, NetType
  <2>2. NetInv' /\ call' = [call EXCEPT ![t] = [op |-> op, ph |-> "lock", h |-> h, n |-> n, cur |-> 0]]
    <3>1. /\ UNCHANGED <<prog, net, socks, ret>> /\ Enter(t, op, h, n) /\ (op \in OnTcp => Tcp(h))
          /\ op \in {"connect", "bind", "accept", "dns", "send", "recv", "close"}
      BY Zenon
    <3> HIDE <1>SocketBegins DEF Fits
    <3> QED  BY <2>1, <3>1, EnterInv
  <2>3. call'[t].op = op /\ \A u \in Threads \ {t} : call'[u] = call[u]
    BY Zenon, <2>1, <2>2
  <2>4. /\ pc' \in [Threads -> PcRec] /\ pc'[t] = [at |-> at, fd |-> fd, file |-> file]
        /\ \A u \in Threads \ {t} : pc'[u] = pc[u]
    BY <2>1, GotoIs
  <2>5. pc'[t].at = at /\ pc'[t].fd = fd /\ pc'[t].file = file
    BY <2>4
  <2>6. Held(t)' = Held(t)
    BY Zenon, <2>3, <2>5, IdleIs DEF Held
  <2>7. Stage(t)'
    BY Zenon, <2>3, <2>5, NoneKind DEF Stage, Fds
  <2> QED  BY Zenon, <2>2, <2>3, <2>4, <2>5, <2>6, <2>7, <1>QuietIInv
\* addrinfo (as_std net.rs:116-141).
<1>LookupIInv. ASSUME Lookup(t)
      PROVE  IInv'
  <2> USE <1>LookupIInv
  <2>1. /\ pc[t].at = "idle" /\ UNCHANGED <<net, socks, ret, fdtab, ftable, own>>
        /\ Enter(t, "dns", 1, 0) /\ Goto(t, "wait", 0, None)
    BY Zenon DEF Lookup, Starts, fileVars
  <2>2. Fits("dns", 1, "wait", 0, None)
    BY Zenon DEF Fits, OnTcp
  <2>3. UNCHANGED <<prog, net, socks, ret, fdtab, ftable, own>> /\ 0 \in Nat /\ 1 \in Nat
    BY Zenon, <2>1
  <2> QED  BY Zenon, <2>1, <2>2, <2>3, NoneKind, <1>SocketBegins
\* connect and bind (apis.rs:121-143).
<1>NewSocketIInv. ASSUME NEW op \in {"connect", "bind"}, NewSocket(t, op)
      PROVE  IInv'
  <2> USE <1>NewSocketIInv
  <2>1. /\ pc[t].at = "idle" /\ UNCHANGED <<net, socks, ret, fdtab, ftable, own>>
        /\ Enter(t, op, 1, 0) /\ Goto(t, op, 0, None)
    BY Zenon DEF NewSocket, Starts, fileVars
  <2>2. Fits(op, 1, op, 0, None)
    BY Zenon DEF Fits, OnTcp
  <2>3. UNCHANGED <<prog, net, socks, ret, fdtab, ftable, own>> /\ 0 \in Nat /\ 1 \in Nat
        /\ op \in {"connect", "bind", "accept", "dns", "send", "recv"}
        /\ op \in {"io", "wait", "connect", "bind", "accept"}
    BY Zenon, <2>1
  <2> QED  BY Zenon, <2>1, <2>2, <2>3, NoneKind, <1>SocketBegins
\* accept (apis.rs:146-177).
<1>AcceptIInv. ASSUME NEW fd \in Fds(t), Accept(t, fd)
      PROVE  IInv'
  <2> USE <1>AcceptIInv
  <2>1. pc[t].at = "idle" /\ UNCHANGED <<net, socks, ret, fdtab, ftable, own>>
    BY Zenon DEF Accept, Starts, fileVars
  <2>2. CASE fdtab[fd].src = "net"
    <3>1. Enter(t, "accept", fdtab[fd].h, 0) /\ Goto(t, "accept", fd, fdtab[fd])
      BY Zenon, <2>2 DEF Accept
    <3>2. PICK f \in FileRec, h \in Nat : f = fdtab[fd] /\ h = f.h /\ Tcp(h) /\ f.src = "net" /\ fd \in Nat
      BY Zenon, <2>2, FdIs
    <3>3. Enter(t, "accept", h, 0) /\ Goto(t, "accept", fd, f)
      BY Zenon, <3>1, <3>2
    <3> HIDE <3>1
    <3>4. Fits("accept", h, "accept", fd, f)
      BY Zenon, <3>2 DEF Fits
    <3>5. UNCHANGED <<prog, net, socks, ret, fdtab, ftable, own>> /\ 0 \in Nat
      BY Zenon, <2>1
    <3> QED  BY Zenon, <2>1, <3>2, <3>3, <3>4, <3>5, <1>SocketBegins
  <2>3. CASE fdtab[fd].src # "net"
    BY Zenon, <2>1, <2>3, <1>FailsIInv DEF Accept, netVars
  <2> QED  BY Zenon, <2>2, <2>3
\* read and write on a socket (apis.rs:13-52).
<1>OnSocketIInv. ASSUME NEW fd \in Fds(t), pc[t].at = "idle", NEW n \in Nat,
             NEW op \in {"send", "recv"}, fdtab[fd].src = "net", OnSocket(t, fd, op, n)
      PROVE  IInv'
  <2> USE <1>OnSocketIInv
  <2>1. UNCHANGED <<net, socks, ret, fdtab, ftable, own>>
    BY Zenon DEF OnSocket, fileVars
  <2>2. Enter(t, op, fdtab[fd].h, n) /\ Goto(t, "io", fd, fdtab[fd])
    BY Zenon DEF OnSocket
  <2>3. PICK f \in FileRec, h \in Nat : f = fdtab[fd] /\ h = f.h /\ Tcp(h) /\ fd \in Nat
    BY Zenon, FdIs
  <2>4. Enter(t, op, h, n) /\ Goto(t, "io", fd, f)
    BY Zenon, <2>2, <2>3
  <2>5. Fits(op, h, "io", fd, f)
    BY Zenon, <2>3 DEF Fits
  <2>6. UNCHANGED <<prog, net, socks, ret, fdtab, ftable, own>>
        /\ op \in {"connect", "bind", "accept", "dns", "send", "recv"}
    BY Zenon, <2>1
  <2> QED  BY Zenon, <2>3, <2>4, <2>5, <2>6, <1>SocketBegins
\* The result of a socket call is used up: the thread goes on with what it held.
<1>SocketEnds. ASSUME Returned(t), UNCHANGED <<prog, fdtab, ftable, own>>,
             NEW at \in {"idle", "add"}, NEW file \in FileRec, Goto(t, at, 0, file),
             \/ at = "add" /\ file = Held(t) /\ file.src = "net"
             \/ at = "idle" /\ Held(t).src # "fat"
      PROVE  IInv'
  <2> USE <1>SocketEnds
  <2>1. NetInv /\ FdType /\ ret \in [Threads -> {ret[u] : u \in Threads}]
    BY Zenon DEF IInv, NetInv, NetType
  <2>2. NetInv' /\ UNCHANGED <<socks, call>> /\ \A u \in Threads \ {t} : ret'[u] = ret[u]
    BY Zenon, <2>1, ReturnedInv DEF Returned
  <2>3. /\ pc' \in [Threads -> PcRec] /\ pc'[t] = [at |-> at, fd |-> 0, file |-> file]
        /\ \A u \in Threads \ {t} : pc'[u] = pc[u]
    BY <2>1, GotoIs
  <2>4. pc'[t].at = at /\ pc'[t].file = file
    BY <2>3
  <2>5. Held(t)' = IF at = "add" THEN file ELSE None
    BY Zenon, <2>4 DEF Held
  <2>6. Stage(t)'
    BY Zenon, <2>2, <2>4, NoneKind DEF Stage, Returned
  <2> QED  BY Zenon, <2>2, <2>3, <2>4, <2>5, <2>6, <1>QuietIInv
\* A read or a write on a socket is over.
<1>IOEndIInv. ASSUME IOEnd(t)
      PROVE  IInv'
  <2> USE <1>IOEndIInv
  <2>1. /\ Returned(t) /\ UNCHANGED <<fdtab, ftable, own>> /\ Goto(t, "idle", 0, None)
        /\ pc[t].at = "io"
    BY Zenon DEF IOEnd, fileVars
  <2>2. Held(t) = None
    BY Zenon, <2>1 DEF Held
  <2> QED  BY Zenon, <2>1, <2>2, NoneKind, <1>SocketEnds
\* A close of a socket or a name lookup is over: the socket is of no use to anyone.
<1>WaitEndIInv. ASSUME WaitEnd(t)
      PROVE  IInv'
  <2> USE <1>WaitEndIInv
  <2>1. /\ Returned(t) /\ UNCHANGED <<fdtab, ftable, own>> /\ Goto(t, "idle", 0, None)
        /\ pc[t].at = "wait"
    BY Zenon DEF WaitEnd, fileVars
  <2>2. Held(t).src # "fat"
    BY Zenon, <2>1 DEF Held, IInv, Stages, Stage
  <2> QED  BY Zenon, <2>1, <2>2, NoneKind, <1>SocketEnds
\* connect or bind has its socket, or an error (apis.rs:121-143).
<1>NewSocketEndIInv. ASSUME NewSocketEnd(t)
      PROVE  IInv'
  <2> USE <1>NewSocketEndIInv
  <2>1. /\ Returned(t) /\ UNCHANGED <<fdtab, ftable, own>> /\ pc[t].at \in {"connect", "bind"}
        /\ call[t].op = "none"
    BY Zenon DEF NewSocketEnd, fileVars, Returned
  <2>2. Held(t) \in FileRec
    BY Zenon DEF IInv, TabInv, AllLive
  <2>3. CASE ret[t].ok
    <3>1. Goto(t, "add", 0, File(IF pc[t].at = "bind" THEN "RD" ELSE "RDWR", "net", ret[t].val))
      BY Zenon, <2>3 DEF NewSocketEnd
    <3>2. ret[t] # Err
      BY <2>3 DEF Err
    <3>3. PICK f \in FileRec : f = Held(t) /\ f = File(IF pc[t].at = "bind" THEN "RD" ELSE "RDWR", "net", ret[t].val)
      BY Zenon, <2>1, <2>2, <3>2 DEF Held
    <3>4. f.src = "net" /\ Goto(t, "add", 0, f)
      BY <3>1, <3>3 DEF File
    <3> QED  BY Zenon, <2>1, <3>3, <3>4, <1>SocketEnds
  <2>4. CASE ~ret[t].ok
    <3>1. Goto(t, "idle", 0, None)
      BY Zenon, <2>4 DEF NewSocketEnd
    <3>2. Held(t).src # "fat"
      BY Zenon, <2>1, NoneKind DEF Held, File
    <3> QED  BY Zenon, <2>1, <3>1, <3>2, NoneKind, <1>SocketEnds
  <2> QED  BY Zenon, <2>3, <2>4
\* accept fails: its thread holds nothing.
<1>AcceptFails. ASSUME AcceptEnd(t), ~ret[t].ok PROVE IInv'
  <2>1. /\ Returned(t) /\ UNCHANGED <<ftable, fdtab, own>> /\ Goto(t, "idle", 0, None)
        /\ pc[t].at = "accept" /\ call[t].op = "none"
    BY Zenon, <1>AcceptFails DEF AcceptEnd, fileVars, Returned
  <2>2. Held(t).src # "fat"
    BY Zenon, <2>1, NoneKind DEF Held, File
  <2> QED  BY Zenon, <2>1, <2>2, NoneKind, <1>SocketEnds
<1> QED  BY Zenon, <1>FailsIInv, <1>PanicsIInv, <1>LookupIInv, <1>NewSocketIInv, <1>AcceptIInv, <1>OnSocketIInv,
            <1>IOEndIInv, <1>WaitEndIInv, <1>NewSocketEndIInv, <1>AcceptFails

\* read, write and lseek on a descriptor.
LEMMA FileCalls ==
    ASSUME IInv, NEW t \in Threads, NEW fd \in Fds(t), UNCHANGED prog
    PROVE  /\ \A n \in Nat : Read(t, fd, n) \/ Write(t, fd, n) => IInv'
           /\ \A pos \in 0..MaxPos : Lseek(t, fd, pos) => IInv'
\* A FAT file has a handle of its own: no other descriptor, and no thread about
\* to add or close a file, has it.
<1>FatAlone. ASSUME fdtab[fd].src = "fat"
      PROVE  /\ \A u \in Threads : \A k \in Fds(u) :
                    own[u][k].file.src = "fat" /\ own[u][k].file.h = fdtab[fd].h => u = t /\ k = fd
             /\ \A u \in Threads : Held(u).src = "fat" => Held(u).h # fdtab[fd].h
  <2> USE <1>FatAlone
  <2>1. ASSUME NEW u \in Threads, NEW k \in Fds(u), own[u][k].file.src = "fat", own[u][k].file.h = fdtab[fd].h
        PROVE  u = t /\ k = fd
    <3>1. k \in DOMAIN fdtab /\ fdtab[k] = own[u][k].file /\ fd \in DOMAIN fdtab /\ fdtab[fd] # None
      BY Zenon, FdIs
    <3>2. k = fd
      BY Zenon, <2>1, <3>1 DEF IInv, TabInv, Alone, Same
    <3> QED  BY Zenon, <3>2 DEF IInv, TabInv, Owned
  <2>2. ASSUME NEW u \in Threads, Held(u).src = "fat" PROVE Held(u).h # fdtab[fd].h
    <3>1. Held(u) # None /\ fd \in DOMAIN fdtab
      BY Zenon, <2>2, NoneKind, FdIs
    <3> QED  BY Zenon, <2>2, <3>1 DEF IInv, TabInv, Alone, Same
  <2> QED  BY Zenon, <2>1, <2>2
\* A call on a FAT file moves it, and its owner's belief with it.
<1>OnFileIInv. ASSUME fdtab[fd].src = "fat", NEW pos \in 0..MaxPos,
             NEW told \in Nat, ~DiskFails => told = pos, OnFile(t, fd, pos, told)
      PROVE  IInv'
  <2> USE <1>OnFileIInv
  <2>1. /\ UNCHANGED <<netVars, socks, call, ret, fdtab, pc>>
        /\ ftable' = [ftable EXCEPT ![fdtab[fd].h] = pos] /\ own' = [own EXCEPT ![t][fd].pos = told]
    BY Zenon DEF OnFile, netVars
  <2>2. NetInv' /\ FdType /\ MaxPos \in Nat
    BY Zenon, <2>1, NetSame, FdtabAssumption DEF IInv
  <2>3. PICK h \in DOMAIN ftable : h = fdtab[fd].h /\ ftable[h] # Closed
    BY Zenon, FdIs
  <2>4. pos # Closed /\ pos \in 0..Closed
    BY <2>2 DEF Closed
  <2>5. ftable' = [ftable EXCEPT ![h] = pos] /\ ftable' \in Seq(0..Closed) /\ DOMAIN ftable' = DOMAIN ftable
        /\ ftable'[h] = pos /\ \A k \in DOMAIN ftable \ {h} : ftable'[k] = ftable[k]
    BY <2>1, <2>2, <2>3, <2>4 DEF FdType
  <2>6. /\ own' = [u \in Threads |-> own'[u]] /\ \A u \in Threads \ {t} : own'[u] = own[u]
        /\ own'[t] = [own[t] EXCEPT ![fd].pos = told]
    BY Zenon, <2>1, <2>2 DEF FdType
  <2>7. \A u \in Threads : Fds(u)' = Fds(u)
    BY Zenon, <2>6 DEF Fds
  <2>8. own'[t][fd] = [own[t][fd] EXCEPT !.pos = told] /\ \A k \in Fds(t) \ {fd} : own'[t][k] = own[t][k]
    BY Zenon, <2>6 DEF Fds
  <2>9. own[t][fd] \in [file : FileRec, pos : Nat]
    BY Zenon, <2>2 DEF FdType
  <2>10. own'[t][fd].file = own[t][fd].file /\ own'[t][fd].pos = told /\ own'[t][fd] \in [file : FileRec, pos : Nat]
    BY Zenon, <2>8, <2>9
  <2>11. \A u \in Threads : \A k \in Fds(u) : own'[u][k].file = own[u][k].file
    BY Zenon, <2>6, <2>8, <2>10
  <2>12. \A u \in Threads : Held(u)' = Held(u)
    BY Zenon, <2>1 DEF Held
  <2>13. TabInv'
    <3>1. FdType /\ TabInv /\ UNCHANGED <<socks, fdtab>>
      BY Zenon, <2>1 DEF IInv
    <3>2. ftable' = [ftable EXCEPT ![h] = pos] /\ pos # Closed /\ ftable[h] # Closed
      BY Zenon, <2>3, <2>4, <2>5
    <3> QED  BY Zenon, <3>1, <3>2, <2>7, <2>11, <2>12, TabFat
  <2>14. FdType'
    BY <2>1, <2>2, <2>5, <2>6, <2>7, <2>8, <2>10 DEF FdType
  <2>15. Stages'
    BY Zenon, <2>1, <2>7 DEF IInv, Stages, Stage
  <2>16. Places'
    <3>1. ASSUME NEW u \in Threads, pc'[u].at = "add", pc'[u].file.src = "fat"
          PROVE  ftable'[pc'[u].file.h] = 0
      <4>1. Held(u) = pc[u].file /\ ftable[pc[u].file.h] = 0 /\ pc[u].file.src = "fat"
        BY Zenon, <2>1, <3>1 DEF Held, IInv, Places
      <4>2. pc[u].file.h # h
        BY Zenon, <2>3, <4>1, <1>FatAlone
      <4>3. pc[u].file.h \in DOMAIN ftable
        BY Zenon, <4>1 DEF IInv, TabInv, AllLive, Live
      <4> QED  BY Zenon, <2>1, <2>5, <4>1, <4>2, <4>3
    <3>2. ASSUME ~DiskFails', NEW u \in Threads, NEW k \in Fds(u)', own'[u][k].file.src = "fat"
          PROVE  own'[u][k].pos = ftable'[own'[u][k].file.h]
      <4>1. k \in Fds(u) /\ own'[u][k].file = own[u][k].file /\ ~DiskFails
        BY Zenon, <2>7, <2>11, <3>2 DEF DiskFails
      <4>2. CASE u = t /\ k = fd
        BY Zenon, <2>3, <2>5, <2>10, <4>1, <4>2, FdIs
      <4>3. CASE ~(u = t /\ k = fd)
        <5>1. own'[u][k] = own[u][k]
          BY Zenon, <2>6, <2>8, <4>1, <4>3
        <5>2. own[u][k].file.h # h
          BY Zenon, <2>3, <3>2, <4>1, <4>3, <1>FatAlone
        <5>3. own[u][k].file.h \in DOMAIN ftable
          BY Zenon, <3>2, <4>1, FdIs
        <5>4. own[u][k].pos = ftable[own[u][k].file.h]
          BY Zenon, <3>2, <4>1 DEF IInv, Places
        <5> QED  BY Zenon, <2>5, <5>1, <5>2, <5>3, <5>4
      <4> QED  BY Zenon, <4>2, <4>3
    <3> QED  BY Zenon, <3>1, <3>2 DEF Places
  <2> QED  BY Zenon, <2>2, <2>13, <2>14, <2>15, <2>16 DEF IInv
\* Where a file is before a call on it, and what its owner believes.
<1>PosIs. ASSUME fdtab[fd].src = "fat"
      PROVE  /\ ftable[fdtab[fd].h] \in 0..MaxPos /\ MaxPos \in Nat /\ own[t][fd].pos \in Nat
             /\ ~DiskFails => own[t][fd].pos = ftable[fdtab[fd].h]
  <2> USE <1>PosIs
  <2>1. fdtab[fd].h \in DOMAIN ftable /\ ftable[fdtab[fd].h] # Closed /\ own[t][fd].file = fdtab[fd]
    BY Zenon, FdIs
  <2>2. ftable \in Seq(0..Closed) /\ own[t][fd] \in [file : FileRec, pos : Nat]
    BY Zenon DEF IInv, FdType
  <2>3. ftable[fdtab[fd].h] \in 0..Closed
    <3>1. PICK S : S = 0..Closed
      BY Zenon
    <3>2. ftable \in Seq(S)
      BY Zenon, <2>2, <3>1
    <3>3. ftable[fdtab[fd].h] \in S
      BY <2>1, <3>2
    <3> QED  BY Zenon, <3>1, <3>3
  <2>4. ~DiskFails => own[t][fd].pos = ftable[fdtab[fd].h]
    BY Zenon, <2>1 DEF IInv, Places
  <2> QED  BY <2>1, <2>2, <2>3, <2>4, FdtabAssumption DEF Closed
\* read, write and lseek (apis.rs:13-73, fatfs apis.rs:14-50, 114-128).
<1>ReadIInv. ASSUME NEW n \in Nat, Read(t, fd, n)
      PROVE  IInv'
  <2> USE <1>ReadIInv
  <2>1. pc[t].at = "idle"
    BY Zenon DEF Read, Starts
  <2>2. CASE Fails
    BY Zenon, <2>1, <2>2, SocketCalls DEF Fails, fileVars
  <2>3. CASE fdtab[fd].src = "net" /\ OnSocket(t, fd, "recv", n)
    BY Zenon, <2>1, <2>3, SocketCalls
  <2>4. CASE /\ fdtab[fd].src = "fat"
             /\ \E k \in 0..Least(n, MaxPos - ftable[fdtab[fd].h]) :
                   OnFile(t, fd, ftable[fdtab[fd].h] + k, own[t][fd].pos + k)
    <3>1. fdtab[fd].src = "fat"
      BY Zenon, <2>4
    <3>2. PICK k \in 0..Least(n, MaxPos - ftable[fdtab[fd].h]) :
                OnFile(t, fd, ftable[fdtab[fd].h] + k, own[t][fd].pos + k)
      BY Zenon, <2>4
    <3>3. PICK pos \in 0..MaxPos, told \in Nat :
                pos = ftable[fdtab[fd].h] + k /\ told = own[t][fd].pos + k /\ (~DiskFails => told = pos)
      BY <3>1, <1>PosIs DEF Least
    <3>4. OnFile(t, fd, pos, told)
      BY Zenon, <3>2, <3>3
    <3> QED  BY Zenon, <3>1, <3>3, <3>4, <1>OnFileIInv
  <2> QED  BY Zenon, <2>2, <2>3, <2>4 DEF Read
<1>WriteIInv. ASSUME NEW n \in Nat, Write(t, fd, n)
      PROVE  IInv'
  <2> USE <1>WriteIInv
  <2>1. pc[t].at = "idle"
    BY Zenon DEF Write, Starts
  <2>2. CASE Fails
    BY <2>1, <2>2, SocketCalls DEF Fails, fileVars
  <2>3. CASE fdtab[fd].src = "net" /\ OnSocket(t, fd, "send", n)
    BY Zenon, <2>1, <2>3, SocketCalls
  <2>4. CASE /\ fdtab[fd].src = "fat"
             /\ ftable[fdtab[fd].h] + n <= MaxPos
             /\ \E k \in IF DiskFails THEN 0..n ELSE {n} :
                   OnFile(t, fd, ftable[fdtab[fd].h] + k, own[t][fd].pos + n)
    <3>1. fdtab[fd].src = "fat" /\ ftable[fdtab[fd].h] + n <= MaxPos
      BY Zenon, <2>4
    <3>2. PICK k \in IF DiskFails THEN 0..n ELSE {n} :
                 OnFile(t, fd, ftable[fdtab[fd].h] + k, own[t][fd].pos + n)
      BY Zenon, <2>4
    <3>3. PICK pos \in 0..MaxPos, told \in Nat :
                pos = ftable[fdtab[fd].h] + k /\ told = own[t][fd].pos + n /\ (~DiskFails => told = pos)
      <4>1. k \in 0..n /\ (~DiskFails => k = n)
        OBVIOUS
      <4> QED  BY <3>1, <4>1, <1>PosIs
    <3>4. OnFile(t, fd, pos, told)
      BY Zenon, <3>2, <3>3
    <3> QED  BY Zenon, <3>1, <3>3, <3>4, <1>OnFileIInv
  <2> QED  BY Zenon, <2>2, <2>3, <2>4 DEF Write
<1>LseekIInv. ASSUME NEW pos \in 0..MaxPos, Lseek(t, fd, pos)
      PROVE  IInv'
  <2> USE <1>LseekIInv
  <2>1. pc[t].at = "idle"
    BY Zenon DEF Lseek, Starts
  <2>2. CASE fdtab[fd].src = "net"
    BY Zenon, <2>1, <2>2, SocketCalls DEF Lseek, Fails, fileVars
  <2>3. CASE fdtab[fd].src # "net"
    <3>1. fdtab[fd].src = "fat" /\ OnFile(t, fd, pos, pos) /\ pos \in Nat
      BY <2>3, FdIs, FdtabAssumption DEF Lseek
    <3> QED  BY Zenon, <3>1, <1>OnFileIInv
  <2> QED  BY Zenon, <2>2, <2>3
<1> QED  BY Zenon, <1>ReadIInv, <1>WriteIInv, <1>LseekIInv

\* open has a new handle of FTABLE, at position 0 (fatfs apis.rs:91-111).
LEMMA OpenIInv ==
    ASSUME IInv, NEW t \in Threads, NEW f, NEW create \in BOOLEAN, Open(t, f, create), UNCHANGED prog
    PROVE  IInv'
\* fatfs_open opens a new file, which the thread then holds (fatfs apis.rs:91-111).
<1>TabOpen. ASSUME FdType, TabInv, UNCHANGED <<fdtab, own, socks>>,
             ftable' = Append(ftable, 0), Held(t) = None,
             NEW m \in {"RD", "RDWR"}, Held(t)' = File(m, "fat", Len(ftable) + 1),
             \A u \in Threads \ {t} : Held(u)' = Held(u)
      PROVE  TabInv'
  <2> USE <1>TabOpen
  <2>1. Owned'
    BY Zenon DEF TabInv, Owned, Fds
  <2>2. PICK new : new = Len(ftable) + 1
    BY Zenon
  <2>3. /\ new \in Nat \ {0} /\ new \notin DOMAIN ftable /\ DOMAIN ftable' = DOMAIN ftable \cup {new}
        /\ ftable'[new] = 0 /\ \A h \in DOMAIN ftable : ftable'[h] = ftable[h]
    BY <2>2 DEF FdType
  <2>4. 0 # Closed
    BY FdtabAssumption DEF Closed
  <2>5. \A h : Tcp(h)' <=> Tcp(h)
    BY Zenon DEF Tcp
  <2>6. \A i \in DOMAIN fdtab : Live(fdtab[i]) /\ Live(fdtab[i])'
    BY Zenon, <2>3, <2>5 DEF TabInv, AllLive, Live
  <2>7. \A u \in Threads \ {t} : Held(u) \in FileRec /\ Live(Held(u)) /\ Live(Held(u))'
    BY <2>3, <2>5 DEF TabInv, AllLive, Live
  <2>8. PICK g : g = Held(t)' /\ g \in FileRec /\ g.src = "fat" /\ g.h = new
    <3>1. Held(t)' = File(m, "fat", new)
      BY Zenon, <2>2
    <3>2. File(m, "fat", new) \in FileRec /\ File(m, "fat", new).src = "fat" /\ File(m, "fat", new).h = new
      BY Zenon, <2>3 DEF File, FileRec
    <3> QED  BY Zenon, <3>1, <3>2
  <2>9. AllLive'
    BY Zenon, <2>3, <2>4, <2>6, <2>7, <2>8 DEF AllLive, Live
  <2>10. Reachable'
    <3>1. ASSUME NEW h \in DOMAIN ftable', ftable'[h] # Closed
          PROVE  \/ \E fd \in DOMAIN fdtab' : fdtab'[fd].src = "fat" /\ fdtab'[fd].h = h
                 \/ \E u \in Threads : Held(u)'.src = "fat" /\ Held(u)'.h = h
      <4>1. CASE h = new
        BY Zenon, <2>8, <4>1
      <4>2. CASE h # new
        <5>1. h \in DOMAIN ftable /\ ftable[h] # Closed
          BY Zenon, <2>3, <3>1, <4>2
        <5>2. CASE \E fd \in DOMAIN fdtab : fdtab[fd].src = "fat" /\ fdtab[fd].h = h
          BY Zenon, <5>2
        <5>3. CASE \E u \in Threads : Held(u).src = "fat" /\ Held(u).h = h
          BY <5>3 DEF None
        <5> QED  BY Zenon, <5>1, <5>2, <5>3 DEF TabInv, Reachable
      <4> QED  BY Zenon, <4>1, <4>2
    <3> QED  BY Zenon, <3>1 DEF Reachable
  <2>11. \A i \in DOMAIN fdtab : ~Same(fdtab[i], g)
    BY Zenon, <2>3, <2>6, <2>8 DEF Same, Live
  <2>12. \A u \in Threads \ {t} : ~Same(Held(u), g) /\ ~Same(g, Held(u))
    BY Zenon, <2>3, <2>7, <2>8 DEF Same, Live
  <2>13. Alone'
    BY <2>8, <2>11, <2>12 DEF TabInv, Alone, Same
  <2> QED  BY Zenon, <2>1, <2>9, <2>10, <2>13 DEF TabInv
<1>1. UNCHANGED <<netVars, fdtab, own>> /\ pc[t].at = "idle"
  BY Zenon DEF Open, Starts
<1>2. UNCHANGED <<socks, call, ret>> /\ NetInv' /\ FdType /\ MaxPos \in Nat
  BY Zenon, <1>1, NetSame, FdtabAssumption DEF netVars, IInv
<1>3. CASE UNCHANGED <<ftable, pc>>
  BY Zenon, <1>1, <1>3, SocketCalls
<1>4. CASE /\ ftable' = Append(ftable, 0)
           /\ Goto(t, "add", 0, File(IF create THEN "RDWR" ELSE "RD", "fat", Len(ftable) + 1))
  <2>1. PICK m \in {"RD", "RDWR"} : m = IF create THEN "RDWR" ELSE "RD"
    BY Zenon
  <2>2. ftable \in Seq(0..Closed) /\ 0 \in 0..Closed
    BY <1>2 DEF FdType, Closed
  <2>3. PICK h \in Nat \ {0} : h = Len(ftable) + 1
    BY <2>2
  <2>4. ftable' \in Seq(0..Closed) /\ DOMAIN ftable' = DOMAIN ftable \cup {h} /\ h \notin DOMAIN ftable
        /\ ftable'[h] = 0 /\ \A k \in DOMAIN ftable : ftable'[k] = ftable[k]
    BY <1>4, <2>2, <2>3
  <2>5. PICK g \in FileRec : g = File(m, "fat", h) /\ g.src = "fat" /\ g.h = h
    <3>1. File(m, "fat", h) \in FileRec /\ File(m, "fat", h).src = "fat" /\ File(m, "fat", h).h = h
      BY Zenon, <2>1, <2>3 DEF File, FileRec
    <3> QED  BY Zenon, <3>1
  <2>6. g = File(m, "fat", Len(ftable) + 1) /\ Goto(t, "add", 0, g)
    BY Zenon, <1>4, <2>1, <2>3, <2>5
  <2>7. /\ pc' \in [Threads -> PcRec] /\ pc'[t] = [at |-> "add", fd |-> 0, file |-> g]
        /\ \A u \in Threads \ {t} : pc'[u] = pc[u]
    BY <1>2, <2>6, GotoIs
  <2>8. pc'[t].at = "add" /\ pc'[t].file = g
    BY <2>7
  <2>9. Held(t) = None /\ Held(t)' = g /\ \A u \in Threads \ {t} : Held(u)' = Held(u)
    <3>1. Held(t) = None
      BY Zenon, <1>1, IdleIs
    <3>2. Held(t)' = g
      BY Zenon, <2>8 DEF Held
    <3> QED  BY Zenon, <1>2, <2>7, <3>1, <3>2, HeldOther
  <2>10. TabInv'
    <3>1. FdType /\ TabInv /\ UNCHANGED <<fdtab, own, socks>> /\ ftable' = Append(ftable, 0)
      BY Zenon, <1>1, <1>2, <1>4 DEF IInv
    <3> QED  BY Zenon, <2>6, <2>9, <3>1, <1>TabOpen
  <2>11. FdType'
    BY Zenon, <1>1, <1>2, <2>4, <2>7 DEF FdType, Fds
  <2>12. Stages'
    <3>1. Stage(t)'
      BY Zenon, <1>1, <1>2, <2>5, <2>8, NoneKind, IdleIs DEF Stage
    <3>2. ASSUME NEW u \in Threads \ {t} PROVE Stage(u)'
      <4>1. pc'[u] = pc[u] /\ call'[u] = call[u] /\ fdtab' = fdtab /\ own' = own
        BY Zenon, <1>1, <1>2, <2>7
      <4>2. Stage(u)
        BY Zenon DEF IInv, Stages
      <4> QED  BY Zenon, <4>1, <4>2 DEF Stage, Fds
    <3> QED  BY Zenon, <3>1, <3>2 DEF Stages
  <2>13. Places'
    <3>1. ASSUME NEW u \in Threads, pc'[u].at = "add", pc'[u].file.src = "fat"
          PROVE  ftable'[pc'[u].file.h] = 0
      <4>1. CASE u = t
        BY Zenon, <2>4, <2>5, <2>8, <4>1
      <4>2. CASE u # t
        <5>1. pc[u].at = "add" /\ pc[u].file.src = "fat" /\ pc'[u] = pc[u] /\ Held(u) = pc[u].file
          BY Zenon, <2>7, <3>1, <4>2 DEF Held
        <5>2. ftable[pc[u].file.h] = 0 /\ pc[u].file.h \in DOMAIN ftable
          BY Zenon, <5>1 DEF IInv, Places, TabInv, AllLive, Live
        <5> QED  BY Zenon, <2>4, <5>1, <5>2
      <4> QED  BY Zenon, <4>1, <4>2
    <3>2. ASSUME ~DiskFails', NEW u \in Threads, NEW k \in Fds(u)', own'[u][k].file.src = "fat"
          PROVE  own'[u][k].pos = ftable'[own'[u][k].file.h]
      <4>1. k \in Fds(u) /\ own'[u][k] = own[u][k] /\ ~DiskFails
        BY Zenon, <1>1, <3>2 DEF Fds, DiskFails
      <4>2. own[u][k].file.h \in DOMAIN ftable
        BY <3>2, <4>1, FdIs
      <4>3. own[u][k].pos = ftable[own[u][k].file.h]
        BY Zenon, <3>2, <4>1 DEF IInv, Places
      <4> QED  BY Zenon, <2>4, <4>1, <4>2, <4>3
    <3> QED  BY Zenon, <3>1, <3>2 DEF Places
  <2> QED  BY Zenon, <1>2, <2>10, <2>11, <2>12, <2>13 DEF IInv
<1> QED  BY Zenon, <1>3, <1>4 DEF Open

\* add_file publishes the file under a descriptor that nobody has (lib.rs:84-97).
LEMMA AddFileIInv ==
    ASSUME IInv, NEW t \in Threads, AddFile(t), UNCHANGED prog
    PROVE  IInv'
\* FdTable::add_file's entry is free (fdtab lib.rs:84-97).
<1>FreeFdIs. ASSUME FdType
      PROVE  /\ FreeFd \in 1..(Len(fdtab) + 1) /\ Len(fdtab) \in Nat /\ DOMAIN fdtab = 1..Len(fdtab)
             /\ FreeFd \in DOMAIN fdtab => fdtab[FreeFd] = None
  <2> USE <1>FreeFdIs
  <2> DEFINE F == {fd \in DOMAIN fdtab : fdtab[fd] = None}
  <2>1. Len(fdtab) \in Nat /\ DOMAIN fdtab = 1..Len(fdtab)
    BY DEF FdType
  <2>2. CASE F # {}
    <3>1. \E fd \in F : \A k \in 1..(fd - 1) : k \notin F
      <4>1. F \in SUBSET (1..Len(fdtab))
        BY Zenon, <2>1
      <4> HIDE DEF F
      <4> QED  BY Zenon, <2>1, <2>2, <4>1, FirstFree
    <3>2. \E fd \in DOMAIN fdtab : fdtab[fd] = None /\ \A k \in 1..(fd - 1) : fdtab[k] # None
      BY <2>1, <3>1
    <3>3. FreeFd \in DOMAIN fdtab /\ fdtab[FreeFd] = None
      BY Zenon, <2>2, <3>2 DEF FreeFd
    <3> QED  BY <2>1, <3>3
  <2>3. CASE F = {}
    BY <2>1, <2>3 DEF FreeFd
  <2> QED  BY Zenon, <2>2, <2>3
\* So the table with a file added to it.
<1>AddedIs. ASSUME FdType, NEW f \in FileRec, NEW new, new = FreeFd,
             fdtab' = [fd \in DOMAIN fdtab \cup {FreeFd} |-> IF fd = FreeFd THEN f ELSE fdtab[fd]]
      PROVE  /\ fdtab' \in Seq(FileRec) /\ DOMAIN fdtab' = DOMAIN fdtab \cup {new} /\ fdtab'[new] = f
             /\ \A fd \in DOMAIN fdtab \ {new} : fdtab'[fd] = fdtab[fd]
             /\ new \in DOMAIN fdtab => fdtab[new] = None
  <2> USE <1>AddedIs
  <2>1. /\ new \in 1..(Len(fdtab) + 1) /\ Len(fdtab) \in Nat /\ DOMAIN fdtab = 1..Len(fdtab)
        /\ new \in DOMAIN fdtab => fdtab[new] = None
    BY Zenon, <1>FreeFdIs
  <2>2. PICK n \in Nat : DOMAIN fdtab \cup {new} = 1..n
    <3>1. DOMAIN fdtab \cup {new} = 1..Len(fdtab) \/ DOMAIN fdtab \cup {new} = 1..(Len(fdtab) + 1)
      BY <2>1
    <3> QED  BY <2>1, <3>1
  <2>3. fdtab' = [fd \in 1..n |-> IF fd = new THEN f ELSE fdtab[fd]]
    BY Zenon, <2>2
  <2>4. \A fd \in 1..n : (IF fd = new THEN f ELSE fdtab[fd]) \in FileRec
    BY <2>1, <2>2 DEF FdType
  <2> QED  BY <2>1, <2>2, <2>3, <2>4
\* add_file gives the file that the thread holds a descriptor of its own.
<1>TabAdd. ASSUME FdType, TabInv, NEW g \in FileRec, g = Held(t), g # None,
             NEW new, new = FreeFd, UNCHANGED <<socks, ftable>>,
             fdtab' = [fd \in DOMAIN fdtab \cup {FreeFd} |-> IF fd = FreeFd THEN g ELSE fdtab[fd]],
             \A u \in Threads \ {t} : Fds(u)' = Fds(u) /\ own'[u] = own[u],
             Fds(t)' = Fds(t) \cup {new}, own'[t][new].file = g,
             \A fd \in Fds(t) \ {new} : own'[t][fd] = own[t][fd],
             Held(t)' = None, \A u \in Threads \ {t} : Held(u)' = Held(u)
      PROVE  TabInv'
  <2> USE <1>TabAdd
  <2>1. /\ DOMAIN fdtab' = DOMAIN fdtab \cup {new} /\ fdtab'[new] = g
        /\ \A fd \in DOMAIN fdtab \ {new} : fdtab'[fd] = fdtab[fd]
        /\ new \in DOMAIN fdtab => fdtab[new] = None
    BY Zenon, <1>AddedIs
  <2>2. \A h : Tcp(h)' <=> Tcp(h)
    BY Zenon DEF Tcp
  <2>3. \A u \in Threads : new \notin Fds(u)
    BY Zenon, <2>1 DEF TabInv, Owned
  <2>4. Owned'
    <3>1. ASSUME NEW u \in Threads, NEW fd \in Fds(u)'
          PROVE  fd \in DOMAIN fdtab' /\ fdtab'[fd] # None /\ fdtab'[fd] = own'[u][fd].file
      <4>1. CASE u = t /\ fd = new
        BY Zenon, <2>1, <4>1
      <4>2. CASE ~(u = t /\ fd = new)
        <5>1. fd \in Fds(u) /\ fd # new /\ own'[u][fd] = own[u][fd]
          BY Zenon, <2>3, <4>2
        <5> QED  BY <2>1, <5>1 DEF TabInv, Owned
      <4> QED  BY Zenon, <4>1, <4>2
    <3>2. \A u, w \in Threads : u # w => Fds(u)' \cap Fds(w)' = {}
      BY <2>3 DEF TabInv, Owned
    <3> QED  BY Zenon, <3>1, <3>2 DEF Owned
  <2>5. \A u \in Threads \ {t} : Held(u) \in FileRec /\ Live(Held(u)) /\ Live(Held(u))'
    <3> SUFFICES ASSUME NEW u \in Threads \ {t} PROVE Held(u) \in FileRec /\ Live(Held(u)) /\ Live(Held(u))'
      BY Zenon
    <3>1. Held(u) \in FileRec /\ Live(Held(u))
      BY Zenon DEF TabInv, AllLive
    <3>2. UNCHANGED ftable /\ Held(u)' = Held(u)
      BY Zenon
    <3> QED  BY Zenon, <2>2, <3>1, <3>2 DEF Live
  <2>6. AllLive'
    <3>1. ASSUME NEW i \in DOMAIN fdtab' PROVE Live(fdtab[i])'
      <4>1. CASE i = new
        BY <2>1, <2>2, <4>1 DEF TabInv, AllLive, Live
      <4>2. CASE i # new
        BY Zenon, <2>1, <2>2, <4>2 DEF TabInv, AllLive, Live
      <4> QED  BY Zenon, <4>1, <4>2
    <3>2. Live(None) /\ Live(None)' /\ None \in FileRec
      BY Zenon DEF Live, None, FileRec
    <3>3. Live(Held(t))'
      BY Zenon, <3>2 DEF Live, None
    <3> QED  BY Zenon, <2>5, <3>1, <3>2, <3>3 DEF AllLive
  <2>7. Reachable'
    <3>1. ASSUME NEW h \in DOMAIN ftable, ftable[h] # Closed
          PROVE  \/ \E fd \in DOMAIN fdtab' : fdtab'[fd].src = "fat" /\ fdtab'[fd].h = h
                 \/ \E u \in Threads : Held(u)'.src = "fat" /\ Held(u)'.h = h
      <4>1. CASE \E fd \in DOMAIN fdtab : fdtab[fd].src = "fat" /\ fdtab[fd].h = h
        <5>1. PICK fd \in DOMAIN fdtab : fdtab[fd].src = "fat" /\ fdtab[fd].h = h
          BY Zenon, <4>1
        <5>2. fd # new
          BY <2>1, <5>1 DEF None
        <5> QED  BY Zenon, <2>1, <5>1, <5>2
      <4>2. CASE \E u \in Threads : Held(u).src = "fat" /\ Held(u).h = h
        BY <2>1, <4>2
      <4> QED  BY Zenon, <3>1, <4>1, <4>2 DEF TabInv, Reachable
    <3> QED  BY Zenon, <3>1 DEF Reachable
  <2>8. Alone'
    <3>1. ASSUME NEW i \in DOMAIN fdtab', NEW j \in DOMAIN fdtab', i # j, fdtab'[i] # None
          PROVE  ~Same(fdtab'[i], fdtab'[j])
      <4>1. \A k \in DOMAIN fdtab : ~Same(fdtab[k], g) /\ ~Same(g, fdtab[k])
        BY DEF TabInv, Alone, Same
      <4> QED  BY Zenon, <2>1, <3>1, <4>1 DEF TabInv, Alone
    <3>2. ASSUME NEW i \in DOMAIN fdtab', NEW u \in Threads \ {t}, Held(u) # None
          PROVE  ~Same(fdtab'[i], Held(u))
      BY <2>1, <3>2 DEF TabInv, Alone, Same
    <3>3. ASSUME NEW u \in Threads \ {t}, NEW w \in Threads, u # w, Held(u) # None
          PROVE  ~Same(Held(u), Held(w)')
      <4>1. CASE w = t
        BY <2>5, <3>3, <4>1, FileKinds DEF Same, None
      <4>2. CASE w # t
        BY Zenon, <3>3, <4>2 DEF TabInv, Alone
      <4> QED  BY Zenon, <4>1, <4>2
    <3>4. ASSUME NEW i \in DOMAIN fdtab', NEW u \in Threads, Held(u)' # None
          PROVE  ~Same(fdtab'[i], Held(u)')
      BY Zenon, <3>2, <3>4
    <3>5. ASSUME NEW u \in Threads, NEW w \in Threads, u # w, Held(u)' # None
          PROVE  ~Same(Held(u)', Held(w)')
      BY Zenon, <3>3, <3>5
    <3>6. \A i, j \in DOMAIN fdtab' : i # j /\ fdtab'[i] # None => ~Same(fdtab'[i], fdtab'[j])
      BY Zenon, <3>1
    <3>7. \A i \in DOMAIN fdtab' : \A u \in Threads : Held(u)' # None => ~Same(fdtab'[i], Held(u)')
      BY Zenon, <3>4
    <3>8. \A u, w \in Threads : u # w /\ Held(u)' # None => ~Same(Held(u)', Held(w)')
      BY Zenon, <3>5
    <3> QED  BY Zenon, <3>6, <3>7, <3>8 DEF Alone, Same
  <2> QED  BY Zenon, <2>4, <2>6, <2>7, <2>8 DEF TabInv
<1>1. UNCHANGED <<netVars, ftable>> /\ pc[t].at = "add" /\ Goto(t, "idle", 0, None)
  BY Zenon DEF AddFile, fileVars
<1>2. UNCHANGED <<socks, call, ret>> /\ NetInv' /\ FdType
  BY Zenon, <1>1, NetSame DEF netVars, IInv
<1>3. PICK g \in FileRec : g = pc[t].file /\ g = Held(t) /\ g # None
  BY Zenon, <1>1 DEF Held, IInv, TabInv, AllLive, Stages, Stage
<1>4. PICK new : new = FreeFd
  BY Zenon
<1>5. fdtab' = [fd \in DOMAIN fdtab \cup {FreeFd} |-> IF fd = FreeFd THEN g ELSE fdtab[fd]]
  BY Zenon, <1>3 DEF AddFile
<1>6. /\ fdtab' \in Seq(FileRec) /\ DOMAIN fdtab' = DOMAIN fdtab \cup {new} /\ fdtab'[new] = g
      /\ \A fd \in DOMAIN fdtab \ {new} : fdtab'[fd] = fdtab[fd]
      /\ new \in DOMAIN fdtab => fdtab[new] = None
  BY Zenon, <1>2, <1>4, <1>5, <1>AddedIs
<1>7. /\ own' = [u \in Threads |-> own'[u]] /\ \A u \in Threads \ {t} : own'[u] = own[u]
      /\ own'[t] = [fd \in Fds(t) \cup {new} |-> IF fd = new THEN [file |-> g, pos |-> 0] ELSE own[t][fd]]
  BY Zenon, <1>2, <1>3, <1>4 DEF AddFile, FdType, Fds
<1>8. /\ Fds(t)' = Fds(t) \cup {new} /\ \A u \in Threads \ {t} : Fds(u)' = Fds(u)
      /\ own'[t][new] = [file |-> g, pos |-> 0] /\ \A fd \in Fds(t) \ {new} : own'[t][fd] = own[t][fd]
  BY Zenon, <1>7 DEF Fds
<1>9. own'[t][new].file = g /\ own'[t][new].pos = 0 /\ own'[t][new] \in [file : FileRec, pos : Nat]
  BY <1>8
<1>10. /\ pc' \in [Threads -> PcRec] /\ pc'[t] = [at |-> "idle", fd |-> 0, file |-> None]
       /\ \A u \in Threads \ {t} : pc'[u] = pc[u]
  BY <1>1, <1>2, NoneKind, GotoIs
<1>11. pc'[t].at = "idle" /\ Held(t)' = None /\ \A u \in Threads \ {t} : Held(u)' = Held(u)
  <2>1. pc'[t].at = "idle"
    BY <1>10
  <2>2. Held(t)' = None
    BY Zenon, <2>1 DEF Held
  <2> QED  BY Zenon, <1>2, <1>10, <2>1, <2>2, HeldOther
<1>12. TabInv'
  <2>1. TabInv /\ UNCHANGED <<socks, ftable>>
    BY Zenon, <1>1, <1>2 DEF IInv
  <2> QED  BY Zenon, <2>1, <1>2, <1>3, <1>4, <1>5, <1>7, <1>8, <1>9, <1>11, <1>TabAdd
<1>13. FdType'
  <2>1. ASSUME NEW u \in Threads, NEW fd \in Fds(u)' PROVE own'[u][fd] \in [file : FileRec, pos : Nat]
    <3>1. CASE u = t /\ fd = new
      BY Zenon, <1>9, <3>1
    <3>2. CASE ~(u = t /\ fd = new)
      <4>1. fd \in Fds(u) /\ own'[u][fd] = own[u][fd]
        BY Zenon, <1>7, <1>8, <2>1, <3>2
      <4> QED  BY Zenon, <1>2, <4>1 DEF FdType
    <3> QED  BY Zenon, <3>1, <3>2
  <2>2. ftable' \in Seq(0..Closed)
    BY Zenon, <1>1, <1>2 DEF FdType
  <2> QED  BY Zenon, <1>6, <1>7, <1>10, <2>1, <2>2 DEF FdType
<1>14. Stages'
  <2>1. Stage(t)'
    BY Zenon, <1>1, <1>2, <1>11 DEF Stage, IInv, Stages
  <2>2. ASSUME NEW u \in Threads \ {t} PROVE Stage(u)'
    <3>1. Stage(u) /\ (pc[u].at = "accept" => pc[u].fd \in Fds(u) /\ fdtab[pc[u].fd] # None
                                              /\ pc[u].fd \in DOMAIN fdtab)
      BY Zenon, FdIs DEF IInv, Stages, Stage
    <3>2. pc[u].at = "accept" => fdtab'[pc[u].fd] = fdtab[pc[u].fd]
      BY Zenon, <1>6, <3>1
    <3> QED  BY Zenon, <1>2, <1>8, <1>10, <3>1, <3>2 DEF Stage
  <2> QED  BY Zenon, <2>1, <2>2 DEF Stages
<1>15. Places'
  <2>1. ASSUME NEW u \in Threads, pc'[u].at = "add", pc'[u].file.src = "fat"
        PROVE  ftable'[pc'[u].file.h] = 0
    BY Zenon, <1>1, <1>10, <1>11, <2>1 DEF IInv, Places
  <2>2. ASSUME ~DiskFails', NEW u \in Threads, NEW k \in Fds(u)', own'[u][k].file.src = "fat"
        PROVE  own'[u][k].pos = ftable'[own'[u][k].file.h]
    <3>1. ~DiskFails
      BY Zenon, <2>2 DEF DiskFails
    <3>2. CASE u = t /\ k = new
      <4>1. own'[u][k].file = g /\ own'[u][k].pos = 0
        BY Zenon, <1>9, <3>2
      <4>2. ftable[g.h] = 0
        BY Zenon, <1>1, <1>3, <2>2, <4>1 DEF IInv, Places
      <4> QED  BY Zenon, <1>1, <4>1, <4>2
    <3>3. CASE ~(u = t /\ k = new)
      <4>1. k \in Fds(u) /\ own'[u][k] = own[u][k]
        BY Zenon, <1>7, <1>8, <2>2, <3>3
      <4> QED  BY Zenon, <1>1, <2>2, <3>1, <4>1 DEF IInv, Places
    <3> QED  BY Zenon, <3>2, <3>3
  <2> QED  BY Zenon, <2>1, <2>2 DEF Places
<1> QED  BY Zenon, <1>2, <1>12, <1>13, <1>14, <1>15 DEF IInv

\* remove_file takes the file out of the table before the backend closes it
\* (lib.rs:99-109, apis.rs:107-119).
LEMMA CloseIInv ==
    ASSUME IInv, NEW t \in Threads, NEW fd \in Fds(t), Close(t, fd), UNCHANGED prog
    PROVE  IInv'
\* remove_file leaves what the descriptor stood for to the thread that closes it
\* (fdtab lib.rs:99-109).
<1>TabClose. ASSUME FdType, TabInv, UNCHANGED <<socks, ftable>>,
             fdtab' = [fdtab EXCEPT ![fd] = None],
             \A u \in Threads \ {t} : Fds(u)' = Fds(u) /\ own'[u] = own[u],
             Fds(t)' = Fds(t) \ {fd}, \A k \in Fds(t)' : own'[t][k] = own[t][k],
             Held(t) = None, NEW g, g = fdtab[fd], Held(t)' = g, \A u \in Threads \ {t} : Held(u)' = Held(u)
      PROVE  TabInv'
  <2> USE <1>TabClose
  <2>1. /\ fd \in DOMAIN fdtab /\ DOMAIN fdtab' = DOMAIN fdtab /\ fdtab'[fd] = None
        /\ \A k \in DOMAIN fdtab \ {fd} : fdtab'[k] = fdtab[k]
    BY Zenon DEF FdType, TabInv, Owned
  <2>2. \A h : Tcp(h)' <=> Tcp(h)
    BY Zenon DEF Tcp
  <2>3. g \in FileRec /\ g # None /\ Live(g)
    BY <2>1 DEF FdType, TabInv, Owned, AllLive
  <2>4. Owned'
    <3>1. ASSUME NEW u \in Threads, NEW k \in Fds(u)'
          PROVE  k \in DOMAIN fdtab' /\ fdtab'[k] # None /\ fdtab'[k] = own'[u][k].file
      <4>1. k \in Fds(u) /\ own'[u][k] = own[u][k] /\ k # fd
        BY Zenon DEF TabInv, Owned
      <4> QED  BY <2>1, <4>1 DEF TabInv, Owned
    <3>2. \A u, w \in Threads : u # w => Fds(u)' \cap Fds(w)' = {}
      BY DEF TabInv, Owned
    <3> QED  BY Zenon, <3>1, <3>2 DEF Owned
  <2>5. \A k \in DOMAIN fdtab \ {fd} : fdtab[k] \in FileRec /\ Live(fdtab[k])
    BY DEF FdType, TabInv, AllLive
  <2>6. \A u \in Threads \ {t} : Held(u) \in FileRec /\ Live(Held(u)) /\ Live(Held(u))'
    <3>1. \A u \in Threads \ {t} : Held(u) \in FileRec /\ Live(Held(u))
      BY Zenon DEF TabInv, AllLive
    <3>2. ASSUME NEW u \in Threads \ {t} PROVE Live(Held(u))'
      <4>1. Live(Held(u)) /\ Held(u)' = Held(u)
        BY Zenon, <3>1
      <4> QED  BY Zenon, <2>2, <4>1 DEF Live
    <3> QED  BY Zenon, <3>1, <3>2
  <2>7. AllLive'
    <3>1. ASSUME NEW k \in DOMAIN fdtab' PROVE Live(fdtab[k])'
      <4>1. CASE k = fd
        BY Zenon, <2>1, <4>1 DEF Live, None
      <4>2. CASE k # fd
        BY Zenon, <2>1, <2>2, <2>5, <4>2 DEF Live
      <4> QED  BY Zenon, <4>1, <4>2
    <3>2. Live(Held(t))'
      BY Zenon, <2>2, <2>3 DEF Live
    <3> QED  BY Zenon, <2>3, <2>6, <3>1, <3>2 DEF AllLive
  <2>8. Reachable'
    <3>1. ASSUME NEW h \in DOMAIN ftable, ftable[h] # Closed
          PROVE  \/ \E k \in DOMAIN fdtab' : fdtab'[k].src = "fat" /\ fdtab'[k].h = h
                 \/ \E u \in Threads : Held(u)'.src = "fat" /\ Held(u)'.h = h
      <4>1. CASE \E k \in DOMAIN fdtab : fdtab[k].src = "fat" /\ fdtab[k].h = h
        BY <2>1, <4>1
      <4>2. CASE \E u \in Threads : Held(u).src = "fat" /\ Held(u).h = h
        BY <4>2 DEF None
      <4> QED  BY Zenon, <3>1, <4>1, <4>2 DEF TabInv, Reachable
    <3> QED  BY Zenon, <3>1 DEF Reachable
  <2>9. Alone'
    <3>1. ASSUME NEW i \in DOMAIN fdtab', NEW j \in DOMAIN fdtab', i # j, fdtab'[i] # None
          PROVE  ~Same(fdtab'[i], fdtab'[j])
      <4>1. i # fd /\ fdtab'[i] = fdtab[i]
        BY Zenon, <2>1, <3>1
      <4>2. CASE j = fd
        BY Zenon, <2>1, <2>5, <3>1, <4>1, <4>2, FileKinds DEF Same, None
      <4>3. CASE j # fd
        BY Zenon, <2>1, <3>1, <4>1, <4>3 DEF TabInv, Alone
      <4> QED  BY Zenon, <4>2, <4>3
    <3>2. ASSUME NEW i \in DOMAIN fdtab', NEW u \in Threads, Held(u)' # None
          PROVE  ~Same(fdtab'[i], Held(u)')
      <4>1. CASE i = fd
        <5>1. Held(u)' \in FileRec
          BY Zenon, <2>3, <2>6
        <5>2. Held(u)'.src # "none"
          BY Zenon, <3>2, <5>1, FileKinds
        <5> QED  BY Zenon, <2>1, <4>1, <5>2 DEF Same, None
      <4>2. CASE i # fd /\ u = t
        BY <2>1, <2>3, <4>2 DEF TabInv, Alone, Same
      <4>3. CASE i # fd /\ u # t
        BY <2>1, <3>2, <4>3 DEF TabInv, Alone
      <4> QED  BY Zenon, <4>1, <4>2, <4>3
    <3>3. ASSUME NEW u \in Threads, NEW w \in Threads, u # w, Held(u)' # None
          PROVE  ~Same(Held(u)', Held(w)')
      <4>1. CASE u = t
        <5>1. Held(w)' = Held(w) /\ Held(w) \in FileRec
          BY Zenon, <2>6, <3>3, <4>1
        <5>2. CASE Held(w) = None
          BY Zenon, <2>3, <4>1, <5>1, <5>2, FileKinds DEF Same, None
        <5>3. CASE Held(w) # None
          BY <2>1, <4>1, <5>1, <5>3 DEF TabInv, Alone, Same
        <5> QED  BY Zenon, <5>2, <5>3
      <4>2. CASE w = t
        BY <2>1, <3>3, <4>2 DEF TabInv, Alone, Same
      <4>3. CASE u # t /\ w # t
        BY Zenon, <3>3, <4>3 DEF TabInv, Alone
      <4> QED  BY Zenon, <4>1, <4>2, <4>3
    <3>4. \A i, j \in DOMAIN fdtab' : i # j /\ fdtab'[i] # None => ~Same(fdtab'[i], fdtab'[j])
      BY Zenon, <3>1
    <3>5. \A i \in DOMAIN fdtab' : \A u \in Threads : Held(u)' # None => ~Same(fdtab'[i], Held(u)')
      BY Zenon, <3>2
    <3>6. \A u, w \in Threads : u # w /\ Held(u)' # None => ~Same(Held(u)', Held(w)')
      BY Zenon, <3>3
    <3> QED  BY Zenon, <3>4, <3>5, <3>6 DEF Alone, Same
  <2> QED  BY Zenon, <2>4, <2>7, <2>8, <2>9 DEF TabInv
<1>1. /\ UNCHANGED <<net, socks, ret, ftable>> /\ pc[t].at = "idle"
      /\ fdtab' = [fdtab EXCEPT ![fd] = None] /\ own' = [own EXCEPT ![t] = [k \in DOMAIN @ \ {fd} |-> @[k]]]
  BY Zenon DEF Close, Starts, fileVars
<1>2. NetInv /\ FdType /\ call \in [Threads -> CallRec] /\ call[t].op = "none" /\ Held(t) = None
  BY Zenon, <1>1, IdleIs DEF IInv, NetInv, NetType
<1>3. PICK g \in FileRec, h \in Nat :
          /\ g = fdtab[fd] /\ h = g.h /\ g # None /\ g.src \in {"fat", "net"} /\ (g.src = "net" => Tcp(h))
          /\ fd \in Nat /\ fd \in DOMAIN fdtab
  BY Zenon, FdIs
<1>4. /\ own' = [u \in Threads |-> own'[u]] /\ \A u \in Threads \ {t} : own'[u] = own[u]
      /\ own'[t] = [k \in Fds(t) \ {fd} |-> own[t][k]]
  BY Zenon, <1>1, <1>2 DEF FdType, Fds
<1>5. /\ Fds(t)' = Fds(t) \ {fd} /\ \A k \in Fds(t)' : own'[t][k] = own[t][k]
      /\ \A u \in Threads \ {t} : Fds(u)' = Fds(u)
  BY Zenon, <1>4 DEF Fds
<1>6. fdtab' \in Seq(FileRec) /\ \A k \in DOMAIN fdtab \ {fd} : fdtab'[k] = fdtab[k]
  BY <1>1, <1>2, <1>3, NoneKind DEF FdType
<1>7. /\ NetInv' /\ \A u \in Threads \ {t} : call'[u] = call[u]
      /\ \E at \in {"wait", "close"} :
            /\ Goto(t, at, fd, g)
            /\ at = "wait" => call'[t].op = "close" /\ g.src = "net"
            /\ at = "close" => call'[t].op = "none" /\ g.src = "fat"
  <2>1. CASE g.src = "net"
    <3>1. Enter(t, "close", h, 0) /\ Goto(t, "wait", fd, g)
      BY Zenon, <1>3, <2>1 DEF Close
    <3>2. NetInv' /\ call' = [call EXCEPT ![t] = [op |-> "close", ph |-> "lock", h |-> h, n |-> 0, cur |-> 0]]
      BY <1>1, <1>2, <1>3, <2>1, <3>1, EnterInv
    <3> QED  BY Zenon, <1>2, <2>1, <3>1, <3>2
  <2>2. CASE g.src = "fat"
    <3>1. Goto(t, "close", fd, g) /\ UNCHANGED call
      BY Zenon, <1>3, <2>2 DEF Close
    <3>2. NetInv'
      BY Zenon, <1>1, <1>2, <3>1, NetSame DEF netVars
    <3> QED  BY Zenon, <1>2, <2>2, <3>1, <3>2
  <2> QED  BY Zenon, <1>3, <2>1, <2>2
<1>8. PICK at \in {"wait", "close"} :
            /\ Goto(t, at, fd, g)
            /\ at = "wait" => call'[t].op = "close" /\ g.src = "net"
            /\ at = "close" => call'[t].op = "none" /\ g.src = "fat"
  BY Zenon, <1>7
<1>9. /\ pc' \in [Threads -> PcRec] /\ pc'[t] = [at |-> at, fd |-> fd, file |-> g]
      /\ \A u \in Threads \ {t} : pc'[u] = pc[u]
  <2>1. FdType /\ fd \in Nat /\ Goto(t, at, fd, g)
    BY Zenon, <1>2, <1>3, <1>8
  <2>2. CASE at = "wait"
    BY <2>1, <2>2, GotoIs
  <2>3. CASE at = "close"
    BY <2>1, <2>3, GotoIs
  <2> QED  BY Zenon, <2>2, <2>3
<1>10. pc'[t].at = at /\ pc'[t].file = g
  <2>1. [at |-> at, fd |-> fd, file |-> g].at = at /\ [at |-> at, fd |-> fd, file |-> g].file = g
    BY Zenon
  <2> QED  BY Zenon, <1>9, <2>1
<1>11. Held(t)' = g /\ \A u \in Threads \ {t} : Held(u)' = Held(u)
  <2>1. Held(t)' = g
    BY Zenon, <1>10 DEF Held
  <2> QED  BY Zenon, <1>1, <1>7, <1>9, <2>1, HeldOther
<1>12. TabInv'
  <2>1. TabInv /\ UNCHANGED <<socks, ftable>> /\ fdtab' = [fdtab EXCEPT ![fd] = None]
    BY Zenon, <1>1 DEF IInv
  <2> QED  BY Zenon, <2>1, <1>2, <1>3, <1>4, <1>5, <1>11, <1>TabClose
<1>13. FdType'
  <2>1. ASSUME NEW u \in Threads, NEW k \in Fds(u)' PROVE own'[u][k] \in [file : FileRec, pos : Nat]
    <3>1. k \in Fds(u) /\ own'[u][k] = own[u][k]
      BY Zenon, <1>4, <1>5, <2>1
    <3> QED  BY Zenon, <1>2, <3>1 DEF FdType
  <2>2. ftable' \in Seq(0..Closed)
    BY Zenon, <1>1, <1>2 DEF FdType
  <2> QED  BY Zenon, <1>4, <1>6, <1>9, <2>1, <2>2 DEF FdType
<1>14. Stages'
  <2>1. Stage(t)'
    BY Zenon, <1>8, <1>10 DEF Stage
  <2>2. ASSUME NEW u \in Threads \ {t} PROVE Stage(u)'
    <3>1. Stage(u)
      BY Zenon DEF IInv, Stages
    <3>2. pc[u].at = "accept" => fdtab'[pc[u].fd] = fdtab[pc[u].fd]
      <4>1. SUFFICES ASSUME pc[u].at = "accept" PROVE pc[u].fd \in DOMAIN fdtab \ {fd}
        BY Zenon, <1>6
      <4>2. pc[u].fd \in Fds(u)
        BY Zenon, <3>1, <4>1 DEF Stage
      <4> QED  BY Zenon, <4>2 DEF IInv, TabInv, Owned
    <3> QED  BY Zenon, <1>5, <1>7, <1>9, <3>1, <3>2 DEF Stage
  <2> QED  BY Zenon, <2>1, <2>2 DEF Stages
<1>15. Places'
  <2>1. ASSUME NEW u \in Threads, pc'[u].at = "add", pc'[u].file.src = "fat"
        PROVE  ftable'[pc'[u].file.h] = 0
    BY Zenon, <1>1, <1>9, <1>10, <2>1 DEF IInv, Places
  <2>2. ASSUME ~DiskFails', NEW u \in Threads, NEW k \in Fds(u)', own'[u][k].file.src = "fat"
        PROVE  own'[u][k].pos = ftable'[own'[u][k].file.h]
    <3>1. ~DiskFails
      BY Zenon, <2>2 DEF DiskFails
    <3>2. k \in Fds(u) /\ own'[u][k] = own[u][k]
      BY Zenon, <1>4, <1>5, <2>2
    <3> QED  BY Zenon, <1>1, <2>2, <3>1, <3>2 DEF IInv, Places
  <2> QED  BY Zenon, <2>1, <2>2 DEF Places
<1> QED  BY Zenon, <1>7, <1>12, <1>13, <1>14, <1>15 DEF IInv

\* fatfs_close closes the handle that the thread took out of the table, which
\* nobody else has: it is open, so the drop of a File does not panic
\* (fatfs lib.rs:71-85, as_std fs.rs:74-78).
LEMMA FatfsCloseIInv ==
    ASSUME IInv, NEW t \in Threads, FatfsClose(t), UNCHANGED prog
    PROVE  IInv'
<1>1. UNCHANGED <<netVars, fdtab, own>> /\ pc[t].at = "close"
  BY Zenon DEF FatfsClose
<1>2. UNCHANGED <<socks, call, ret>> /\ NetInv' /\ FdType
  BY Zenon, <1>1, NetSame DEF netVars, IInv
<1>3. PICK h \in DOMAIN ftable : /\ Held(t).src = "fat" /\ Held(t).h = h /\ pc[t].file.h = h
                                 /\ ftable[h] # Closed /\ Held(t) # None
  <2>1. Held(t) = pc[t].file /\ Held(t).src = "fat"
    BY Zenon, <1>1 DEF Held, IInv, Stages, Stage
  <2> QED  BY Zenon, <2>1, NoneKind DEF IInv, TabInv, AllLive, Live
<1>4. ftable' = [ftable EXCEPT ![h] = Closed] /\ Goto(t, "idle", 0, None)
  BY Zenon, <1>3 DEF FatfsClose
<1>5. Closed \in 0..Closed
  BY FdtabAssumption DEF Closed
<1>6. ftable' \in Seq(0..Closed) /\ DOMAIN ftable' = DOMAIN ftable
      /\ \A k \in DOMAIN ftable \ {h} : ftable'[k] = ftable[k]
  BY <1>2, <1>4, <1>5 DEF FdType
<1>7. /\ pc' \in [Threads -> PcRec] /\ pc'[t] = [at |-> "idle", fd |-> 0, file |-> None]
      /\ \A u \in Threads \ {t} : pc'[u] = pc[u]
  BY <1>2, <1>4, NoneKind, GotoIs
<1>8. pc'[t].at = "idle"
  BY <1>7
<1>9. Held(t)' = None /\ \A u \in Threads \ {t} : Held(u)' = Held(u)
  <2>1. Held(t)' = None
    BY Zenon, <1>8 DEF Held
  <2> QED  BY Zenon, <1>2, <1>7, <2>1, HeldOther
<1>10. \A u \in Threads : Fds(u)' = Fds(u)
  BY Zenon, <1>1 DEF Fds
<1>11. TabInv'
  <2>1. TabInv /\ UNCHANGED <<socks, fdtab>>
    BY Zenon, <1>1, <1>2 DEF IInv
  <2>2. \A u \in Threads : \A k \in Fds(u) : own'[u][k].file = own[u][k].file
    BY Zenon, <1>1
  <2>3. PICK pos : pos = Closed /\ ftable' = [ftable EXCEPT ![h] = pos]
    BY Zenon, <1>4
  <2> QED  BY Zenon, <2>1, <2>2, <2>3, <1>2, <1>3, <1>9, <1>10, TabFat
<1>12. FdType'
  BY Zenon, <1>1, <1>2, <1>6, <1>7, <1>10 DEF FdType
<1>13. Stages'
  <2>1. Stage(t)'
    BY Zenon, <1>1, <1>2, <1>8 DEF Stage, IInv, Stages
  <2>2. ASSUME NEW u \in Threads \ {t} PROVE Stage(u)'
    <3>1. Stage(u) /\ pc'[u] = pc[u] /\ Fds(u)' = Fds(u)
      BY Zenon, <1>7, <1>10 DEF IInv, Stages
    <3> QED  BY Zenon, <1>1, <1>2, <3>1 DEF Stage
  <2> QED  BY Zenon, <2>1, <2>2 DEF Stages
<1>14. Places'
  <2>1. ASSUME NEW u \in Threads, pc'[u].at = "add", pc'[u].file.src = "fat"
        PROVE  ftable'[pc'[u].file.h] = 0
    <3>1. u # t /\ pc'[u] = pc[u]
      BY Zenon, <1>7, <1>8, <2>1
    <3>2. Held(u) = pc[u].file /\ ftable[pc[u].file.h] = 0 /\ Held(u).src = "fat"
      BY Zenon, <2>1, <3>1 DEF Held, IInv, Places
    <3>3. Held(u).h \in DOMAIN ftable
      BY Zenon, <3>2 DEF IInv, TabInv, AllLive, Live
    <3>4. Held(u).h # h
      BY Zenon, <1>3, <3>1, <3>2 DEF IInv, TabInv, Alone, Same
    <3> QED  BY Zenon, <1>6, <3>1, <3>2, <3>3, <3>4
  <2>2. ASSUME ~DiskFails', NEW u \in Threads, NEW k \in Fds(u)', own'[u][k].file.src = "fat"
        PROVE  own'[u][k].pos = ftable'[own'[u][k].file.h]
    <3>1. ~DiskFails /\ k \in Fds(u) /\ own'[u][k] = own[u][k]
      BY Zenon, <1>1, <1>10, <2>2 DEF DiskFails
    <3>2. own[u][k].file.h \in DOMAIN ftable /\ k \in DOMAIN fdtab /\ fdtab[k] = own[u][k].file
      BY <2>2, <3>1, FdIs
    <3>3. own[u][k].file.h # h
      BY Zenon, <1>3, <2>2, <3>1, <3>2 DEF IInv, TabInv, Alone, Same
    <3>4. own[u][k].pos = ftable[own[u][k].file.h]
      BY Zenon, <2>2, <3>1 DEF IInv, Places
    <3> QED  BY Zenon, <1>6, <3>1, <3>2, <3>3, <3>4
  <2> QED  BY Zenon, <2>1, <2>2 DEF Places
<1> QED  BY Zenon, <1>2, <1>11, <1>12, <1>13, <1>14 DEF IInv

\* accept swaps: the listening descriptor gets the socket of the connection, and
\* the listening socket is added under a new descriptor (apis.rs:146-177).
LEMMA AcceptEndIInv ==
    ASSUME IInv, NEW t \in Threads, AcceptEnd(t), UNCHANGED prog
    PROVE  IInv'
\* The end of accept: the descriptor and the thread swap their sockets
\* (fdtab apis.rs:146-177).
<1>TabSwap. ASSUME FdType, TabInv, NEW fd \in Fds(t), NEW old, NEW g \in FileRec, NEW new,
             NEW put \in FileRec, Swap(t, fd, old, g, new, put)
      PROVE  TabInv'
  <2> USE <1>TabSwap
  <2> USE DEF Swap
  <2>1. fd \in DOMAIN fdtab /\ old \in FileRec /\ old # None /\ own[t][fd].file = old
    BY Zenon DEF FdType, TabInv, Owned
  <2>2. new = [old EXCEPT !.h = g.h]
    BY Zenon
  <2>3. new \in FileRec /\ new # None /\ new.src = "net" /\ new.h = g.h
    BY Zenon, <2>1, <2>2, FileKinds DEF FileRec, None
  <2>4. /\ DOMAIN fdtab' = DOMAIN fdtab /\ fdtab'[fd] = new
        /\ \A k \in DOMAIN fdtab \ {fd} : fdtab'[k] = fdtab[k]
    BY Zenon, <2>1, <2>2 DEF FdType
  <2>5. \A h : Tcp(h)' <=> Tcp(h)
    BY Zenon DEF Tcp
  <2>6. Owned'
    <3>1. ASSUME NEW u \in Threads, NEW k \in Fds(u)'
          PROVE  k \in DOMAIN fdtab' /\ fdtab'[k] # None /\ fdtab'[k] = own'[u][k].file
      <4>1. CASE k = fd
        <5>1. u = t
          BY Zenon, <4>1 DEF TabInv, Owned
        <5> QED  BY Zenon, <2>1, <2>2, <2>3, <2>4, <4>1, <5>1
      <4>2. CASE k # fd
        BY <2>4, <4>2 DEF TabInv, Owned
      <4> QED  BY Zenon, <4>1, <4>2
    <3>2. \A u, w \in Threads : u # w => Fds(u)' \cap Fds(w)' = {}
      BY Zenon DEF TabInv, Owned
    <3> QED  BY Zenon, <3>1, <3>2 DEF Owned
  <2>7. g # None /\ put # None
    BY DEF None
  <2>8. \A u \in Threads \ {t} : Held(u) \in FileRec /\ Live(Held(u)) /\ Live(Held(u))'
    BY Zenon, <2>5 DEF TabInv, AllLive, Live
  <2>9. AllLive'
    <3>1. Tcp(old.h) /\ Tcp(g.h)
      BY Zenon, <2>1 DEF TabInv, AllLive, Live
    <3>2. ASSUME NEW k \in DOMAIN fdtab' PROVE Live(fdtab[k])'
      <4>1. CASE k = fd
        BY Zenon, <2>3, <2>4, <2>5, <3>1, <4>1 DEF Live
      <4>2. CASE k # fd
        BY Zenon, <2>4, <2>5, <4>2 DEF TabInv, AllLive, Live
      <4> QED  BY Zenon, <4>1, <4>2
    <3>3. Live(Held(t))'
      BY Zenon, <2>5, <3>1 DEF Live
    <3> QED  BY <2>8, <3>2, <3>3 DEF AllLive
  <2>10. Reachable'
    <3>1. ASSUME NEW h \in DOMAIN ftable, ftable[h] # Closed
          PROVE  \/ \E k \in DOMAIN fdtab' : fdtab'[k].src = "fat" /\ fdtab'[k].h = h
                 \/ \E u \in Threads : Held(u)'.src = "fat" /\ Held(u)'.h = h
      <4>1. CASE \E k \in DOMAIN fdtab : fdtab[k].src = "fat" /\ fdtab[k].h = h
        BY Zenon, <2>4, <4>1
      <4>2. CASE \E u \in Threads : Held(u).src = "fat" /\ Held(u).h = h
        BY Zenon, <4>2
      <4> QED  BY Zenon, <3>1, <4>1, <4>2 DEF TabInv, Reachable
    <3> QED  BY Zenon, <3>1 DEF Reachable
  <2>11. /\ \A k \in DOMAIN fdtab \ {fd} : ~Same(fdtab[k], old) /\ ~Same(fdtab[k], g)
         /\ \A u \in Threads \ {t} : ~Same(Held(u), old) /\ ~Same(Held(u), g)
         /\ ~Same(old, g)
    <3>1. \A u \in Threads \ {t} : Held(u) = None => ~Same(Held(u), old) /\ ~Same(Held(u), g)
      BY DEF Same, None
    <3> QED  BY <2>1, <2>7, <3>1 DEF TabInv, Alone, Same
  <2>12. Alone'
    <3>1. ASSUME NEW i \in DOMAIN fdtab', NEW j \in DOMAIN fdtab', i # j, fdtab'[i] # None
          PROVE  ~Same(fdtab'[i], fdtab'[j])
      <4>1. CASE i # fd /\ j # fd
        BY Zenon, <2>4, <3>1, <4>1 DEF TabInv, Alone
      <4>2. CASE i = fd \/ j = fd
        BY <2>3, <2>4, <2>11, <3>1, <4>2 DEF Same
      <4> QED  BY Zenon, <4>1, <4>2
    <3>2. ASSUME NEW i \in DOMAIN fdtab', NEW u \in Threads, Held(u)' # None
          PROVE  ~Same(fdtab'[i], Held(u)')
      <4>1. CASE i # fd /\ u # t
        BY <2>4, <3>2, <4>1 DEF TabInv, Alone
      <4>2. CASE i = fd /\ u # t
        <5>1. fdtab'[i] = new /\ Held(u)' = Held(u)
          BY Zenon, <2>4, <4>2
        <5>2. new.src = g.src /\ new.h = g.h /\ ~Same(Held(u), g)
          BY Zenon, <2>3, <2>11, <4>2
        <5>3. ~Same(new, Held(u))
          BY Zenon, <5>2 DEF Same
        <5> QED  BY Zenon, <5>1, <5>3
      <4>3. CASE i # fd /\ u = t
        BY <2>4, <2>11, <4>3 DEF Same
      <4>4. CASE i = fd /\ u = t
        BY Zenon, <2>3, <2>4, <2>11, <4>4 DEF Same
      <4> QED  BY Zenon, <4>1, <4>2, <4>3, <4>4
    <3>3. ASSUME NEW u \in Threads, NEW w \in Threads, u # w, Held(u)' # None
          PROVE  ~Same(Held(u)', Held(w)')
      <4>1. CASE u # t /\ w # t
        BY <3>3, <4>1 DEF TabInv, Alone
      <4>2. CASE u = t \/ w = t
        BY <2>11, <3>3, <4>2 DEF Same
      <4> QED  BY Zenon, <4>1, <4>2
    <3> QED  BY <3>1, <3>2, <3>3 DEF Alone
  <2> QED  BY Zenon, <2>6, <2>9, <2>10, <2>12 DEF TabInv
<1>1. Returned(t) /\ UNCHANGED ftable /\ pc[t].at = "accept" /\ call[t].op = "none"
  BY Zenon DEF AcceptEnd, fileVars, Returned
<1>2. CASE ~ret[t].ok
  BY Zenon, <1>2, SocketCalls
<1>3. CASE ret[t].ok
  <2>1. PICK fd \in Fds(t) : fd = pc[t].fd /\ pc[t].file = fdtab[fd]
    BY Zenon, <1>1 DEF IInv, Stages, Stage
  <2>2. PICK old \in FileRec : /\ old = fdtab[fd] /\ old.src = "net" /\ old # None /\ old.h \in Nat \ {0}
                               /\ old.mode \in {"RD", "RDWR"} /\ own[t][fd].file = old
                               /\ fd \in Nat /\ fd \in DOMAIN fdtab
    BY Zenon, <1>1, <2>1, FdIs DEF IInv, Stages, Stage
  <2>3. ret[t] # Err /\ Held(t) = File("RDWR", "net", ret[t].val)
    <3>1. ret[t] # Err
      BY <1>3 DEF Err
    <3>2. pc[t].at \notin {"add", "close", "wait", "bind"}
      BY Zenon, <1>1
    <3> QED  BY Zenon, <1>1, <3>1, <3>2 DEF Held
  <2>4. PICK g \in FileRec : g = Held(t) /\ g.src = "net" /\ g.h = ret[t].val /\ g.h \in Nat \ {0}
    <3>1. Held(t).src = "net" /\ Held(t).h = ret[t].val
      BY <2>3 DEF File
    <3>2. Held(t) \in FileRec
      BY Zenon DEF IInv, TabInv, AllLive
    <3>3. Held(t) # None
      BY Zenon, <3>1, NoneKind
    <3> QED  BY Zenon, <3>1, <3>2, <3>3, FileKinds
  <2>5. PICK put \in FileRec : put = File("RDWR", "net", old.h) /\ put.src = "net" /\ put.h = old.h /\ put # None
    <3>1. File("RDWR", "net", old.h) \in FileRec /\ File("RDWR", "net", old.h).src = "net"
          /\ File("RDWR", "net", old.h).h = old.h
      BY Zenon, <2>2 DEF File, FileRec
    <3> QED  BY Zenon, <3>1, NoneKind
  <2>6. /\ fdtab' = [fdtab EXCEPT ![fd].h = g.h] /\ own' = [own EXCEPT ![t][fd].file.h = g.h]
        /\ Goto(t, "add", 0, put)
    BY Zenon, <1>3, <2>1, <2>2, <2>4, <2>5 DEF AcceptEnd
  <2>7. FdType /\ NetInv' /\ UNCHANGED <<socks, call>> /\ \A u \in Threads \ {t} : ret'[u] = ret[u]
    BY Zenon, <1>1, ReturnedInv DEF IInv, Returned, NetInv, NetType
  <2>8. PICK new \in FileRec : new = [old EXCEPT !.h = g.h] /\ new.src = "net"
    <3>1. [old EXCEPT !.h = g.h] \in FileRec /\ [old EXCEPT !.h = g.h].src = "net"
      BY Zenon, <2>2, <2>4 DEF FileRec, None
    <3> QED  BY Zenon, <3>1
  <2>9. /\ fdtab' = [fdtab EXCEPT ![fd] = new]
        /\ fdtab' \in Seq(FileRec) /\ \A k \in DOMAIN fdtab \ {fd} : fdtab'[k] = fdtab[k]
    BY <2>2, <2>6, <2>7, <2>8 DEF FdType
  <2>10. /\ own' = [u \in Threads |-> own'[u]] /\ \A u \in Threads \ {t} : own'[u] = own[u]
         /\ own'[t] = [own[t] EXCEPT ![fd].file.h = g.h]
    BY Zenon, <2>6, <2>7 DEF FdType
  <2>11. \A u \in Threads : Fds(u)' = Fds(u)
    BY Zenon, <2>10 DEF Fds
  <2>12. own'[t][fd] = [own[t][fd] EXCEPT !.file.h = g.h] /\ \A k \in Fds(t) \ {fd} : own'[t][k] = own[t][k]
    BY Zenon, <2>10 DEF Fds
  <2>13. own[t][fd] \in [file : FileRec, pos : Nat]
    BY Zenon, <2>7 DEF FdType
  <2>14. own'[t][fd].file = new /\ own'[t][fd].pos = own[t][fd].pos
         /\ own'[t][fd] \in [file : FileRec, pos : Nat]
    BY Zenon, <2>2, <2>8, <2>12, <2>13
  <2>15. /\ pc' \in [Threads -> PcRec] /\ pc'[t] = [at |-> "add", fd |-> 0, file |-> put]
         /\ \A u \in Threads \ {t} : pc'[u] = pc[u]
    BY Zenon, <2>6, <2>7, GotoIs
  <2>16. pc'[t].at = "add" /\ pc'[t].file = put
    BY <2>15
  <2>17. Held(t)' = put /\ \A u \in Threads \ {t} : Held(u)' = Held(u)
    <3>1. Held(t)' = put
      BY Zenon, <2>16 DEF Held
    <3> QED  BY Zenon, <2>7, <2>15, <3>1, HeldOther
  <2>18. TabInv'
    <3>1. TabInv /\ FdType /\ UNCHANGED <<socks, ftable>> /\ fdtab' = [fdtab EXCEPT ![fd] = new]
      BY Zenon, <1>1, <2>7, <2>9 DEF IInv
    <3>2. /\ own'[t][fd].file = new /\ new = [old EXCEPT !.h = g.h]
          /\ \A u \in Threads : \A k \in Fds(u) : ~(u = t /\ k = fd) => own'[u][k].file = own[u][k].file
      BY Zenon, <2>8, <2>10, <2>12, <2>14
    <3>3. old = fdtab[fd] /\ old.src = "net" /\ g = Held(t) /\ g.src = "net" /\ put.src = "net" /\ put.h = old.h
      BY Zenon, <2>2, <2>4, <2>5
    <3>4. Swap(t, fd, old, g, new, put)
      BY Zenon, <2>11, <2>17, <3>1, <3>2, <3>3 DEF Swap
    <3> QED  BY Zenon, <3>1, <3>4, <1>TabSwap
  <2>19. FdType'
    <3>1. ASSUME NEW u \in Threads, NEW k \in Fds(u)' PROVE own'[u][k] \in [file : FileRec, pos : Nat]
      <4>1. CASE u = t /\ k = fd
        BY Zenon, <2>14, <4>1
      <4>2. CASE ~(u = t /\ k = fd)
        <5>1. k \in Fds(u) /\ own'[u][k] = own[u][k]
          BY Zenon, <2>10, <2>11, <2>12, <3>1, <4>2
        <5> QED  BY Zenon, <2>7, <5>1 DEF FdType
      <4> QED  BY Zenon, <4>1, <4>2
    <3>2. ftable' \in Seq(0..Closed)
      BY Zenon, <1>1, <2>7 DEF FdType
    <3> QED  BY Zenon, <2>9, <2>10, <2>15, <3>1, <3>2 DEF FdType
  <2>20. Stages'
    <3>1. Stage(t)'
      BY Zenon, <1>1, <2>7, <2>5, <2>16 DEF Stage
    <3>2. ASSUME NEW u \in Threads \ {t} PROVE Stage(u)'
      <4>1. Stage(u)
        BY Zenon DEF IInv, Stages
      <4>2. pc[u].at = "accept" => fdtab'[pc[u].fd] = fdtab[pc[u].fd]
        <5>1. SUFFICES ASSUME pc[u].at = "accept" PROVE pc[u].fd \in DOMAIN fdtab \ {fd}
          BY Zenon, <2>9
        <5>2. pc[u].fd \in Fds(u)
          BY Zenon, <4>1, <5>1 DEF Stage
        <5> QED  BY Zenon, <5>2 DEF IInv, TabInv, Owned
      <4> QED  BY Zenon, <2>7, <2>11, <2>15, <4>1, <4>2 DEF Stage
    <3> QED  BY Zenon, <3>1, <3>2 DEF Stages
  <2>21. Places'
    <3>1. ASSUME NEW u \in Threads, pc'[u].at = "add", pc'[u].file.src = "fat"
          PROVE  ftable'[pc'[u].file.h] = 0
      <4>1. u # t /\ pc'[u] = pc[u]
        BY Zenon, <2>5, <2>15, <2>16, <3>1
      <4> QED  BY Zenon, <1>1, <3>1, <4>1 DEF IInv, Places
    <3>2. ASSUME ~DiskFails', NEW u \in Threads, NEW k \in Fds(u)', own'[u][k].file.src = "fat"
          PROVE  own'[u][k].pos = ftable'[own'[u][k].file.h]
      <4>1. ~(u = t /\ k = fd) /\ ~DiskFails
        BY Zenon, <2>8, <2>14, <3>2 DEF DiskFails
      <4>2. k \in Fds(u) /\ own'[u][k] = own[u][k]
        BY Zenon, <2>10, <2>11, <2>12, <3>2, <4>1
      <4> QED  BY Zenon, <1>1, <3>2, <4>1, <4>2 DEF IInv, Places
    <3> QED  BY Zenon, <3>1, <3>2 DEF Places
  <2> QED  BY Zenon, <2>7, <2>18, <2>19, <2>20, <2>21 DEF IInv
<1> QED  BY Zenon, <1>2, <1>3

\* The invariant is inductive: every step of every thread and of a peer keeps it.
LEMMA Inductive == IInv /\ [Next]_vars => IInv'
<1> SUFFICES ASSUME IInv, [Next]_vars PROVE IInv'
  BY Zenon
<1>1. CASE UNCHANGED vars
  <2>1. UNCHANGED <<prog, netVars, socks, call, ret, fdtab, ftable, own, pc>>
    BY Zenon, <1>1 DEF vars, netVars, fileVars
  <2>2. NetInv'
    BY Zenon, <2>1, NetSame DEF IInv
  <2>3. \A t \in Threads : Held(t)' = Held(t)
    BY Zenon, <2>1 DEF Held
  <2>4. FdType' /\ Stages' /\ Places'
    BY Zenon, <2>1 DEF IInv, FdType, Fds, Stages, Stage, Places, DiskFails
  <2>5. TabInv'
    <3>1. Owned'
      BY Zenon, <2>1 DEF IInv, TabInv, Owned, Fds
    <3>2. Alone' /\ Reachable'
      BY <2>1, <2>3 DEF IInv, TabInv, Alone, Same, Reachable
    <3>3. \A f : Live(f)' <=> Live(f)
      BY Zenon, <2>1 DEF Live, Tcp
    <3>4. AllLive'
      BY Zenon, <2>1, <2>3, <3>3 DEF IInv, TabInv, AllLive
    <3> QED  BY Zenon, <3>1, <3>2, <3>4 DEF TabInv
  <2> QED  BY Zenon, <2>2, <2>4, <2>5 DEF IInv
<1>2. CASE PeerStep
  BY Zenon, <1>2, PeerIInv DEF PeerStep, fileVars
<1>3. ASSUME NEW t \in Threads, CallStep(t) \/ WaitFailure(t) PROVE IInv'
  <2>1. CASE (NetStep(t) \/ WaitFails(t)) /\ UNCHANGED <<prog, fdtab, ftable, pc, own>>
    BY Zenon, <2>1, NetStepIInv
  <2>2. CASE UNCHANGED prog /\ (AddFile(t) \/ IOEnd(t) \/ FatfsClose(t))
    BY Zenon, <2>2, AddFileIInv, SocketCalls, FatfsCloseIInv
  <2>3. CASE UNCHANGED prog /\ (WaitEnd(t) \/ NewSocketEnd(t) \/ AcceptEnd(t))
    BY Zenon, <2>3, SocketCalls, AcceptEndIInv
  <2> QED  BY Zenon, <1>3, <2>1, <2>2, <2>3 DEF CallStep, WaitFailure, fileVars
<1>4. ASSUME NEW t \in Threads, CallBegin(t) PROVE IInv'
  <2>1. UNCHANGED prog /\ prog \in Programs
    BY Zenon, <1>4 DEF CallBegin, IInv, NetInv, NetType
  <2>2. CASE OpenPanics(t) \/ Lookup(t)
    BY Zenon, <2>1, <2>2, SocketCalls
  <2>3. ASSUME NEW f \in prog.files, NEW create \in BOOLEAN, Open(t, f, create) PROVE IInv'
    BY Zenon, <2>1, <2>3, OpenIInv
  <2>4. ASSUME NEW op \in {"connect", "bind"}, NewSocket(t, op) PROVE IInv'
    BY Zenon, <2>1, <2>4, SocketCalls
  <2>5. ASSUME NEW fd \in Fds(t), Close(t, fd) \/ Accept(t, fd) PROVE IInv'
    BY Zenon, <2>1, <2>5, CloseIInv, SocketCalls
  <2>6. ASSUME NEW fd \in Fds(t), NEW n \in 1..prog.bytes, Read(t, fd, n) \/ Write(t, fd, n) PROVE IInv'
    <3>1. n \in Nat
      BY <2>1, SocketAssumption
    <3> QED  BY Zenon, <2>1, <2>6, <3>1, FileCalls
  <2>7. ASSUME NEW fd \in Fds(t), NEW pos \in 0..MaxPos, Lseek(t, fd, pos) PROVE IInv'
    BY Zenon, <2>1, <2>7, FileCalls
  <2> QED  BY Zenon, <1>4, <2>2, <2>3, <2>4, <2>5, <2>6, <2>7 DEF CallBegin
<1> QED  BY Zenon, <1>1, <1>2, <1>3, <1>4 DEF Next

\* IInv holds in every state.
LEMMA Invariance == Spec => []IInv
BY InitIInv, Inductive, PTL DEF Spec

-----------------------------------------------------------------------------
(* What follows                                                             *)

\* The counts of a socket's bytes agree: nothing is lost, repeated or invented
\* between the buffers of the calls and those of the socket, whatever the sizes
\* of the buffers and of the calls (socket apis.rs:104-170).
THEOREM ExactStream == Spec => []StreamExact
<1>1. IInv => StreamExact
  <2> SUFFICES ASSUME IInv, NEW h \in DOMAIN socks
               PROVE  /\ socks[h].in = socks[h].got + socks[h].rx
                      /\ socks[h].put + UnderWay(h) = socks[h].out + socks[h].tx
    BY Zenon DEF StreamExact
  <2> DEFINE S == {t \in Threads : call[t].op = "send" /\ call[t].h = h /\ call[t].ph = "run"}
  <2>1. UnderWay(h) = Sending(h)
    <3>1. CASE net \in Threads /\ call[net].op = "send" /\ call[net].h = h
      <4>1. S = {net}
        BY Zenon, <3>1 DEF IInv, NetInv, NetCalls
      <4>2. (CHOOSE t \in S : TRUE) = net
        BY Zenon, <4>1
      <4> QED  BY Zenon, <3>1, <4>1, <4>2, SocketAssumption DEF UnderWay, Sending
    <3>2. CASE ~(net \in Threads /\ call[net].op = "send" /\ call[net].h = h)
      <4>1. S = {}
        BY Zenon, <3>2 DEF IInv, NetInv, NetCalls
      <4> QED  BY Zenon, <3>2, <4>1 DEF UnderWay, Sending, IInv, NetInv, NetType
    <3> QED  BY Zenon, <3>1, <3>2
  <2> QED  BY Zenon, <2>1 DEF IInv, NetInv, Stream
<1> QED  BY <1>1, Invariance, PTL

\* A descriptor is its owner's alone and stands for the file or the socket that
\* the owner opened under it, from open or accept to close, however the calls of
\* the threads interleave and descriptors are reused (lib.rs:84-109,
\* apis.rs:107-177).
THEOREM DescriptorsOwned == Spec => []OwnFd
<1>1. IInv => OwnFd
  <2> SUFFICES ASSUME IInv, NEW t \in Threads, NEW fd \in Fds(t)
               PROVE  /\ fd \in DOMAIN fdtab
                      /\ fdtab[fd] = own[t][fd].file
                      /\ ~Shared(fd)
                      /\ fdtab[fd].src = "net" => socks[fdtab[fd].h].st \notin {"free", "dns"}
                      /\ own[t][fd].file.src = "fat" /\ ~DiskFails => own[t][fd].pos = ftable[own[t][fd].file.h]
    BY Zenon DEF OwnFd
  <2>1. fd \in DOMAIN fdtab /\ fdtab[fd] # None /\ fdtab[fd] = own[t][fd].file
    BY Zenon, FdIs
  <2>2. ~Shared(fd)
    <3>1. ASSUME NEW other \in DOMAIN fdtab \ {fd} PROVE ~Same(fdtab[other], fdtab[fd])
      BY Zenon, <2>1 DEF IInv, TabInv, Alone, Same
    <3>2. ASSUME NEW u \in Pending(fdtab[fd].src) PROVE ~Same(pc[u].file, fdtab[fd])
      <4>1. u \in Threads /\ Held(u) = pc[u].file /\ Held(u).src = fdtab[fd].src
        BY Zenon, <3>2 DEF Pending, Held
      <4>2. Held(u) # None
        BY Zenon, <4>1, NoneKind, FdIs
      <4> QED  BY Zenon, <2>1, <4>1, <4>2 DEF IInv, TabInv, Alone, Same
    <3> QED  BY Zenon, <3>1, <3>2 DEF Shared, Same
  <2>3. fdtab[fd].src = "net" => socks[fdtab[fd].h].st \notin {"free", "dns"}
    BY Zenon, FdIs DEF Tcp
  <2>4. own[t][fd].file.src = "fat" /\ ~DiskFails => own[t][fd].pos = ftable[own[t][fd].file.h]
    BY Zenon DEF IInv, Places
  <2> QED  BY Zenon, <2>1, <2>2, <2>3, <2>4
<1> QED  BY <1>1, Invariance, PTL

\* An open FAT file is always within somebody's reach, and closing a file never
\* fails: what fatfs_close asserts through the drop of a File holds (fatfs
\* lib.rs:71-85, as_std fs.rs:74-78).
THEOREM FilesReachable == Spec => []NoFileLeak
<1>1. IInv => NoFileLeak
  <2> SUFFICES ASSUME IInv PROVE NoFileLeak
    BY Zenon
  <2>1. ASSUME NEW t \in Threads, Held(t).src = "fat" PROVE t \in Pending("fat") /\ pc[t].file = Held(t)
    BY Zenon, <2>1, NoneKind DEF Held, Pending, File
  <2>2. \A t \in Threads : pc[t].at # "failed"
    BY Zenon DEF IInv, Stages, Stage
  <2> QED  BY Zenon, <2>1, <2>2 DEF NoFileLeak, IInv, TabInv, Reachable
<1> QED  BY <1>1, Invariance, PTL
==============================================================================
