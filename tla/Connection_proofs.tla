-------------------------- MODULE Connection_proofs --------------------------
(***************************************************************************)
(* For every bound on the syncs and the kills, and every length of the     *)
(* queue of a port: the connections of the two parties pair up, and the    *)
(* sync of NetIO is a barrier.                                             *)
(*                                                                         *)
(* For the connections: a port's queue holds nothing but the one connection*)
(* the client made to it, and the server has taken nothing else (Paired).  *)
(* For the barrier: of the bytes one party has sent, those the other has   *)
(* read, those on the wire and those in the FILE are no more than the calls*)
(* it has begun (Conserved).                                               *)
(***************************************************************************)
EXTENDS Connection, TLAPS

Opening == {"listen", "accept", "close", "connect", "usleep"}
Ports == IF kind = "NetIO" THEN {"port"} ELSE {"send_port", "recv_port"}
Nth(x) == IF x = "recv_port" THEN 2 ELSE 1
ServerEnd(x) == CASE x = "send_port" -> "recv" [] x = "recv_port" -> "send" [] OTHER -> "both"
ClientEnd(x) == CASE x = "send_port" -> "send" [] x = "recv_port" -> "recv" [] OTHER -> "both"

(* Where a process is, and which of its ports or calls it can be at.       *)
Placed ==
  /\ pc["server"] \in {"listen", "accept", "close", "open", "sync"}
  /\ pc["client"] \in {"connect", "usleep", "open", "sync"}
  /\ \A p \in Role :
       /\ pc[p] \in Opening => (at[p] = 1 \/ (at[p] = 2 /\ kind = "HighSpeedNetIO"))
       /\ pc[p] = "open" => at[p] = 1
       /\ pc[p] = "sync" => kind = "NetIO"
  /\ pc["server"] = "sync" => at["server"] \in 1 .. 3

(* The ports p has done with. *)
Behind(p) == {x \in Ports : \/ pc[p] \in {"open", "sync"}
                            \/ Nth(x) < at[p]
                            \/ pc[p] = "close" /\ Nth(x) = at[p]}

Paired ==
  /\ kind = "NetIO" => \A p \in Role : sock[p]["send"] = None /\ sock[p]["recv"] = None
  /\ kind = "HighSpeedNetIO" => \A p \in Role : sock[p]["both"] = None
  /\ kills["client"] = 0 =>
       \A x \in Ports :
         /\ backlog[x] # <<>> =>
              x \in Behind("client") /\ backlog[x] = <<sock["client"][ClientEnd(x)]>>
         /\ sock["client"][ClientEnd(x)] # None <=> x \in Behind("client")
         /\ sock["server"][ServerEnd(x)] # None =>
              sock["server"][ServerEnd(x)] = sock["client"][ClientEnd(x)]
         /\ x \in Behind("server") => sock["server"][ServerEnd(x)] # None

InSync(p) == IF pc[p] = "sync" THEN 1 ELSE 0
Past(p, n) == IF pc[p] = "sync" /\ at[p] > n THEN 1 ELSE 0
Sent(p) == left[p] + IF p = "server" THEN Past(p, 1) ELSE Past(p, 3)
Taken(p) == left[p] + IF p = "server" THEN 0 ELSE Past(p, 2)

Conserved ==
  /\ \A p \in Role : entered[p] = left[p] + InSync(p)
  /\ \A p \in Role : pc[p] \in Opening => left[p] = 0 /\ file[p] = 0
  /\ kind = "NetIO" => \A p \in Role : file[p] + wire[Peer(p)] + Taken(Peer(p)) <= Sent(p)

IInv == TypeOK /\ Placed /\ Paired /\ Conserved

USE ConnectionAssumption DEF Role, Peer, None

-----------------------------------------------------------------------------
(* Initially nobody is connected and nothing is sent.                      *)
LEMMA InitInv == Init => IInv
<1> SUFFICES ASSUME Init PROVE IInv
  OBVIOUS
<1>1. TypeOK
  <2>1. backlog \in [Port -> Seq(Nat)] /\ listening \subseteq Port /\ next \in Nat \ {0}
    BY DEF Init
  <2>2. /\ file \in [Role -> Nat] /\ wire \in [Role -> Nat] /\ entered \in [Role -> Nat]
        /\ left \in [Role -> Nat] /\ kills \in [Role -> Nat]
    BY DEF Init
  <2>3. /\ kind \in {"HighSpeedNetIO", "NetIO"} /\ at \in [Role -> 1 .. 4]
        /\ pc \in [Role -> {"listen", "accept", "close", "connect", "usleep", "open", "sync"}]
        /\ sock \in [Role -> [{"send", "recv", "both"} -> Nat]]
    BY DEF Init, First, Nobody
  <2> QED
    BY <2>1, <2>2, <2>3 DEF TypeOK
<1>2. Placed
  BY DEF Init, Placed, First, Opening
<1>3. Paired
  BY DEF Init, Paired, Behind, Ports, Nth, ServerEnd, ClientEnd, First, Nobody, Port
<1>4. Conserved
  BY DEF Init, Conserved, First, InSync, Past, Sent, Taken
<1> QED
  BY <1>1, <1>2, <1>3, <1>4 DEF IInv

(* Which port p opens: its at[p]-th; and for what.                         *)
LEMMA ThisPort ==
  ASSUME IInv, NEW p \in Role, pc[p] \in Opening
  PROVE  /\ ThePort(p) \in Ports /\ Ports \subseteq Port
         /\ \A x \in Ports : Nth(x) = at[p] <=> x = ThePort(p)
         /\ TheEnd(p) = IF p = "server" THEN ServerEnd(ThePort(p)) ELSE ClientEnd(ThePort(p))
         /\ TheEnd(p) \in {"send", "recv", "both"}
         /\ at[p] < Len(Ends(kind, p)) <=> (kind = "HighSpeedNetIO" /\ at[p] = 1)
<1>1. CASE kind = "NetIO"
  <2>1. at[p] = 1
    BY <1>1 DEF IInv, Placed
  <2> QED
    BY <1>1, <2>1 DEF Ports, Port, Nth, ThePort, TheEnd, Ends, ServerEnd, ClientEnd
<1>2. CASE kind = "HighSpeedNetIO"
  <2>1. at[p] = 1 \/ at[p] = 2
    BY DEF IInv, Placed
  <2> QED
    BY <1>2, <2>1 DEF Ports, Port, Nth, ThePort, TheEnd, Ends, ServerEnds, ClientEnds,
                      ServerEnd, ClientEnd
<1> QED
  BY <1>1, <1>2 DEF IInv, TypeOK

(* Typing of what is counted, and of what does not change.                 *)
LEMMA Counts == ASSUME IInv
                PROVE  /\ wire \in [Role -> Nat] /\ kills \in [Role -> Nat]
                       /\ \A r \in Role : wire[r] \in Nat /\ kills[r] \in Nat
                       /\ wire' = wire => /\ wire' \in [Role -> Nat]
                                          /\ \A r \in Role : wire'[r] <= wire[r]
<1>1. wire \in [Role -> Nat] /\ kills \in [Role -> Nat]
  BY DEF IInv, TypeOK
<1>2. \A r \in Role : wire[r] \in Nat /\ kills[r] \in Nat
  BY ONLY <1>1
<1> QED
  BY <1>1, <1>2

(* The counts are untouched by what a process does before it is connected. *)
LEMMA CountsStay ==
  ASSUME IInv, NEW p \in Role, pc[p] \in Opening,
         NEW q \in Opening \cup {"open"}, NEW n \in 1 .. 4,
         pc' = [pc EXCEPT ![p] = q], at' = [at EXCEPT ![p] = n],
         wire' \in [Role -> Nat], \A r \in Role : wire'[r] <= wire[r],
         UNCHANGED <<kind, file, entered, left>>
  PROVE  Conserved'
<1>1. InSync(p) = 0 /\ InSync(p)' = 0 /\ Taken(p)' = Taken(p) /\ Sent(p)' = Sent(p)
  BY DEF IInv, TypeOK, Opening, InSync, Past, Taken, Sent
<1>2. \A r \in Role : r # p => /\ InSync(r)' = InSync(r) /\ Taken(r)' = Taken(r)
                               /\ Sent(r)' = Sent(r) /\ pc'[r] = pc[r]
  BY DEF IInv, TypeOK, InSync, Past, Taken, Sent
<1>3. \A r \in Role : /\ file[r] \in Nat /\ wire[r] \in Nat /\ wire'[r] \in Nat
                      /\ left[r] \in Nat /\ entered[r] \in Nat
                      /\ Taken(r) \in Nat /\ Sent(r) \in Nat
  <2>1. \A r \in Role : file[r] \in Nat /\ wire[r] \in Nat /\ left[r] \in Nat /\ entered[r] \in Nat
    BY DEF IInv, TypeOK
  <2> QED
    BY <2>1 DEF Past, Taken, Sent
<1>4. \A r \in Role : entered'[r] = left'[r] + InSync(r)'
  BY <1>1, <1>2 DEF IInv, Conserved
<1>5. \A r \in Role : pc'[r] \in Opening => left'[r] = 0 /\ file'[r] = 0
  BY <1>2 DEF IInv, Conserved
<1>6. ASSUME kind = "NetIO", NEW r \in Role
      PROVE  file[r] + wire'[Peer(r)] + Taken(Peer(r))' <= Sent(r)'
  <2>1. file[r] + wire[Peer(r)] + Taken(Peer(r)) <= Sent(r)
    BY <1>6 DEF IInv, Conserved
  <2>2. Taken(Peer(r))' = Taken(Peer(r)) /\ Sent(r)' = Sent(r)
    BY <1>1, <1>2
  <2> QED
    BY <2>1, <2>2, <1>3
<1> QED
  BY <1>4, <1>5, <1>6 DEF Conserved

(* And the connections by what it does afterwards.                         *)
LEMMA SocketsStay ==
  ASSUME IInv, NEW p \in Role, pc[p] \in {"open", "sync"},
         NEW q \in {"open", "sync"}, NEW n \in 1 .. 4,
         pc' = [pc EXCEPT ![p] = q], at' = [at EXCEPT ![p] = n],
         UNCHANGED <<kind, sock, backlog, kills>>
  PROVE  Paired'
<1>1. \A r \in Role : Behind(r)' = Behind(r)
  BY DEF IInv, TypeOK, Behind, Ports
<1>2. Ports' = Ports
  BY DEF Ports
<1> QED
  BY <1>1, <1>2 DEF IInv, Paired

-----------------------------------------------------------------------------
(* Before the connection *)

(* listen, a refused connect and the pause after it change no connection.  *)
LEMMA WaitInv == ASSUME IInv, NEW p \in Role, Listen(p) \/ Refused(p) \/ Retry(p)
                 PROVE  IInv'
<1>1. PICK q \in {"accept", "connect", "usleep"} :
        /\ pc' = [pc EXCEPT ![p] = q] /\ pc[p] \in Opening
        /\ p = "server" => pc[p] = "listen" /\ q = "accept"
        /\ p = "client" => pc[p] \in {"connect", "usleep"} /\ q \in {"connect", "usleep"}
        /\ listening' \subseteq Port
        /\ UNCHANGED <<kind, at, sock, backlog, next, file, wire, entered, left, kills>>
  <2>1. CASE Listen(p)
    BY <2>1, ThisPort DEF Listen, Opening, IInv, TypeOK, stream
  <2>2. CASE Refused(p) \/ Retry(p)
    BY <2>2 DEF Refused, Retry, Opening, IInv, TypeOK, stream, network
  <2> QED
    BY <2>1, <2>2
<1>2. TypeOK'
  BY <1>1 DEF IInv, TypeOK
<1>3. Placed'
  BY <1>1 DEF IInv, TypeOK, Placed, Opening
<1>4. Paired'
  <2>1. Ports' = Ports /\ \A r \in Role : Behind(r)' = Behind(r)
    BY <1>1 DEF IInv, TypeOK, Behind, Ports
  <2> QED
    BY <1>1, <2>1 DEF IInv, Paired
<1>5. Conserved'
  <2>1. at' = [at EXCEPT ![p] = at[p]] /\ at[p] \in 1 .. 4
    BY <1>1 DEF IInv, TypeOK
  <2>2. wire' \in [Role -> Nat] /\ \A r \in Role : wire'[r] <= wire[r]
    BY <1>1, Counts
  <2> QED
    BY <1>1, <2>1, <2>2, CountsStay DEF Opening
<1> QED
  BY <1>2, <1>3, <1>4, <1>5 DEF IInv

(* A constructor goes to its next port or returns.                         *)
LEMMA GoesOn ==
  ASSUME IInv, NEW p \in Role, pc[p] \in Opening, Opened(p), kind' = kind,
         p = "server" => pc[p] = "close"
  PROVE  /\ \E q \in {"listen", "connect", "open"}, n \in {1, 2} :
              /\ pc' = [pc EXCEPT ![p] = q] /\ at' = [at EXCEPT ![p] = n]
              /\ q \in {"open", First(p)}
         /\ Placed'
         /\ Ports' = Ports
         /\ Behind(p)' = Behind(p) \cup {ThePort(p)}
         /\ \A r \in Role : r # p => Behind(r)' = Behind(r)
<1>1. CASE kind = "HighSpeedNetIO" /\ at[p] = 1
  <2>1. pc' = [pc EXCEPT ![p] = First(p)] /\ at' = [at EXCEPT ![p] = 2]
    <3>1. at[p] < Len(Ends(kind, p))
      BY <1>1, ThisPort
    <3> QED
      BY <1>1, <3>1 DEF Opened
  <2>2. Placed'
    BY <1>1, <2>1 DEF IInv, TypeOK, Placed, Opening, First
  <2>3. Ports' = Ports /\ \A r \in Role : r # p => Behind(r)' = Behind(r)
    BY <2>1 DEF IInv, TypeOK, Ports, Behind
  <2>4. Behind(p)' = Behind(p) \cup {ThePort(p)}
    <3>1. ThePort(p) = "send_port" /\ Ports = {"send_port", "recv_port"}
      BY <1>1, ThisPort DEF Ports, Nth
    <3>2. Behind(p)' = {"send_port"}
      <4>1. pc'[p] \notin {"open", "sync", "close"} /\ at'[p] = 2
        BY <2>1 DEF IInv, TypeOK, First
      <4> QED
        BY <4>1, <3>1, <2>3 DEF Behind, Nth
    <3>3. Behind(p) \subseteq {"send_port"}
      BY <1>1, <3>1 DEF Behind, Nth, Opening
    <3> QED
      BY <3>1, <3>2, <3>3
  <2> QED
    BY <2>1, <2>2, <2>3, <2>4 DEF First
<1>2. CASE ~(kind = "HighSpeedNetIO" /\ at[p] = 1)
  <2>1. pc' = [pc EXCEPT ![p] = "open"] /\ at' = [at EXCEPT ![p] = 1]
    BY <1>2, ThisPort DEF Opened, IInv, TypeOK
  <2>2. Placed'
    <3>1. pc'[p] = "open" /\ at'[p] = 1
      BY <2>1 DEF IInv, TypeOK
    <3>2. \A r \in Role : r # p => pc'[r] = pc[r] /\ at'[r] = at[r]
      BY <2>1 DEF IInv, TypeOK
    <3> QED
      BY <3>1, <3>2 DEF IInv, Placed, Opening
  <2>3. Ports' = Ports /\ \A r \in Role : r # p => Behind(r)' = Behind(r)
    BY <2>1 DEF IInv, TypeOK, Ports, Behind
  <2>4. Behind(p)' = Behind(p) \cup {ThePort(p)}
    <3>1. \A x \in Ports : Nth(x) < at[p] \/ x = ThePort(p)
      <4>1. CASE kind = "NetIO"
        BY <4>1, ThisPort DEF Ports
      <4>2. CASE kind = "HighSpeedNetIO"
        <5>1. at[p] = 2
          BY <1>2, <4>2 DEF IInv, Placed
        <5> QED
          BY <4>2, <5>1, ThisPort DEF Ports, Nth
      <4> QED
        BY <4>1, <4>2 DEF IInv, TypeOK
    <3> QED
      BY <2>1, <2>3, <3>1, ThisPort DEF IInv, TypeOK, Behind
  <2>5. \E q \in {"listen", "connect", "open"}, n \in {1, 2} :
           /\ pc' = [pc EXCEPT ![p] = q] /\ at' = [at EXCEPT ![p] = n]
           /\ q \in {"open", First(p)}
    BY <2>1
  <2> QED
    BY <2>2, <2>3, <2>4, <2>5
<1> QED
  BY <1>1, <1>2

(* The server takes what is in the queue of the port, the client's one     *)
(* connection to it.                                                       *)
LEMMA AcceptInv == ASSUME IInv, NEW p \in Role, Accept(p) PROVE IInv'
<1> DEFINE x == ThePort(p)
           c == Head(backlog[x])
<1>1. /\ p = "server" /\ pc[p] = "accept" /\ backlog[x] # <<>>
      /\ sock' = [sock EXCEPT ![p][TheEnd(p)] = c]
      /\ backlog' = [backlog EXCEPT ![x] = Tail(@)]
      /\ pc' = [pc EXCEPT ![p] = "close"]
      /\ UNCHANGED <<kind, at, listening, next, file, wire, entered, left, kills>>
  BY DEF Accept, stream
<1>2. /\ x \in Ports /\ x \in Port /\ TheEnd(p) = ServerEnd(x)
      /\ TheEnd(p) \in {"send", "recv", "both"}
      /\ \A y \in Ports : Nth(y) = at[p] <=> y = x
  BY <1>1, ThisPort DEF Opening
<1>3. backlog[x] \in Seq(Nat) /\ c \in Nat /\ Tail(backlog[x]) \in Seq(Nat)
  <2>1. backlog[x] \in Seq(Nat)
    BY <1>2 DEF IInv, TypeOK
  <2> QED
    BY <1>1, <2>1
<1> HIDE DEF c, x
<1>4. TypeOK'
  <2>1. sock' \in [Role -> [{"send", "recv", "both"} -> Nat]]
    BY <1>1, <1>2, <1>3 DEF IInv, TypeOK
  <2>2. backlog' \in [Port -> Seq(Nat)]
    BY <1>1, <1>2, <1>3 DEF IInv, TypeOK
  <2> QED
    BY <1>1, <2>1, <2>2 DEF IInv, TypeOK
<1>5. Placed'
  BY <1>1 DEF IInv, TypeOK, Placed, Opening
<1>6. Paired'
  <2>1. /\ Ports' = Ports /\ Behind("client")' = Behind("client")
        /\ Behind("server")' = Behind("server") \cup {x}
    BY <1>1, <1>2 DEF IInv, TypeOK, Behind, Ports
  <2>2. /\ sock'["client"] = sock["client"]
        /\ sock'["server"][ServerEnd(x)] = c
        /\ \A e \in {"send", "recv", "both"} : e # ServerEnd(x) => sock'["server"][e] = sock["server"][e]
    BY <1>1, <1>2 DEF IInv, TypeOK
  <2>3. \A y \in Ports : /\ y # x => ServerEnd(y) # ServerEnd(x)
                         /\ ServerEnd(y) \in {"send", "recv", "both"}
                         /\ ServerEnd(y) = "both" <=> kind = "NetIO"
    BY <1>2 DEF Ports, ServerEnd, IInv, TypeOK
  <2>4. ASSUME kills["client"] = 0
        PROVE  c = sock["client"][ClientEnd(x)] /\ Tail(backlog[x]) = <<>> /\ c # None
    <3>1. backlog[x] = <<sock["client"][ClientEnd(x)]>> /\ sock["client"][ClientEnd(x)] # None
      BY <1>1, <1>2, <2>4 DEF IInv, Paired
    <3> QED
      BY <3>1 DEF c
  <2>5. \A y \in Port : backlog'[y] = IF y = x THEN Tail(backlog[x]) ELSE backlog[y]
    BY <1>1, <1>2 DEF IInv, TypeOK
  <2>6. /\ kind = "NetIO" => \A r \in Role : sock'[r]["send"] = None /\ sock'[r]["recv"] = None
        /\ kind = "HighSpeedNetIO" => \A r \in Role : sock'[r]["both"] = None
    BY <1>2, <2>2, <2>3 DEF IInv, Paired, TypeOK
  <2>7. Ports \subseteq Port
    BY DEF Ports, Port
  <2>8. ASSUME kills["client"] = 0, NEW y \in Ports
        PROVE  /\ backlog'[y] # <<>> =>
                    y \in Behind("client") /\ backlog'[y] = <<sock["client"][ClientEnd(y)]>>
               /\ sock["client"][ClientEnd(y)] # None <=> y \in Behind("client")
               /\ sock'["server"][ServerEnd(y)] # None =>
                    sock'["server"][ServerEnd(y)] = sock["client"][ClientEnd(y)]
               /\ y \in Behind("server") \cup {x} => sock'["server"][ServerEnd(y)] # None
    <3>1. CASE y = x
      BY <3>1, <1>2, <2>2, <2>4, <2>5, <2>8 DEF IInv, Paired
    <3>2. CASE y # x
      BY <3>2, <2>2, <2>3, <2>5, <2>7, <2>8 DEF IInv, Paired
    <3> QED
      BY <3>1, <3>2
  <2> QED
    BY <1>1, <2>1, <2>2, <2>6, <2>8 DEF Paired
<1>7. Conserved'
  <2>1. at' = [at EXCEPT ![p] = at[p]] /\ at[p] \in 1 .. 4
    BY <1>1 DEF IInv, TypeOK
  <2>2. wire' \in [Role -> Nat] /\ \A r \in Role : wire'[r] <= wire[r]
    BY <1>1, Counts
  <2> QED
    BY <1>1, <2>1, <2>2, CountsStay DEF Opening
<1> QED
  BY <1>4, <1>5, <1>6, <1>7 DEF IInv

(* The listener closes: whatever was in its queue is gone, and the server  *)
(* has what it accepted.                                                   *)
LEMMA CloseInv == ASSUME IInv, NEW p \in Role, CloseListener(p) PROVE IInv'
<1> DEFINE x == ThePort(p)
<1>1. /\ p = "server" /\ pc[p] = "close" /\ Opened(p)
      /\ listening' \subseteq Port
      /\ backlog' = [backlog EXCEPT ![x] = <<>>]
      /\ UNCHANGED <<kind, sock, next, file, wire, entered, left, kills>>
  BY DEF CloseListener, stream, IInv, TypeOK
<1>2. /\ x \in Ports /\ x \in Port
      /\ \A y \in Ports : Nth(y) = at[p] <=> y = x
  BY <1>1, ThisPort DEF Opening
<1>3. PICK q \in {"listen", "connect", "open"}, n \in {1, 2} :
        pc' = [pc EXCEPT ![p] = q] /\ at' = [at EXCEPT ![p] = n] /\ q \in {"open", First(p)}
  BY <1>1, GoesOn DEF Opening
<1>4. /\ Placed' /\ Ports' = Ports
      /\ Behind("server")' = Behind("server") \cup {x} /\ Behind("client")' = Behind("client")
  BY <1>1, GoesOn DEF Opening
<1>5. x \in Behind("server")
  BY <1>1, <1>2 DEF Behind
<1> HIDE DEF x
<1>6. TypeOK'
  <2>1. backlog' \in [Port -> Seq(Nat)]
    BY <1>1, <1>2 DEF IInv, TypeOK
  <2>2. pc' \in [Role -> {"listen", "accept", "close", "connect", "usleep", "open", "sync"}]
    BY <1>3 DEF IInv, TypeOK
  <2>3. at' \in [Role -> 1 .. 4]
    <3>1. n \in 1 .. 4 /\ at \in [Role -> 1 .. 4]
      BY DEF IInv, TypeOK
    <3> QED
      BY ONLY <1>3, <3>1
  <2> QED
    BY <1>1, <2>1, <2>2, <2>3 DEF IInv, TypeOK
<1>7. Paired'
  <2>1. \A y \in Port : backlog'[y] = <<>> \/ backlog'[y] = backlog[y]
    BY <1>1, <1>2 DEF IInv, TypeOK
  <2>2. Ports \subseteq Port
    BY DEF Ports, Port
  <2>3. Behind("server") \cup {x} = Behind("server")
    BY <1>5
  <2> QED
    BY <1>1, <1>4, <2>1, <2>2, <2>3 DEF IInv, Paired
<1>8. Conserved'
  <2>1. wire' \in [Role -> Nat] /\ \A r \in Role : wire'[r] <= wire[r]
    BY <1>1, Counts
  <2>2. n \in 1 .. 4 /\ q \in Opening \cup {"open"} /\ pc[p] \in Opening
    BY <1>1 DEF First, Opening
  <2>3. /\ pc' = [pc EXCEPT ![p] = q] /\ at' = [at EXCEPT ![p] = n]
        /\ UNCHANGED <<kind, file, entered, left>>
    BY <1>1, <1>3
  <2> QED
    BY <2>1, <2>2, <2>3, CountsStay
<1> QED
  BY <1>4, <1>6, <1>7, <1>8 DEF IInv

(* The client's one connection to a port is put into its queue.            *)
LEMMA ConnectInv == ASSUME IInv, NEW p \in Role, Connect(p) PROVE IInv'
<1> DEFINE x == ThePort(p)
<1>1. /\ p = "client" /\ pc[p] = "connect" /\ Opened(p)
      /\ backlog' = [backlog EXCEPT ![x] = Append(@, next)]
      /\ sock' = [sock EXCEPT ![p][TheEnd(p)] = next]
      /\ next' = next + 1
      /\ UNCHANGED <<kind, listening, file, wire, entered, left, kills>>
  BY DEF Connect, stream
<1>2. /\ x \in Ports /\ x \in Port /\ TheEnd(p) = ClientEnd(x)
      /\ TheEnd(p) \in {"send", "recv", "both"}
      /\ \A y \in Ports : Nth(y) = at[p] <=> y = x
  BY <1>1, ThisPort DEF Opening
<1>3. PICK q \in {"listen", "connect", "open"}, n \in {1, 2} :
        pc' = [pc EXCEPT ![p] = q] /\ at' = [at EXCEPT ![p] = n] /\ q \in {"open", First(p)}
  BY <1>1, GoesOn DEF Opening
<1>4. /\ Placed' /\ Ports' = Ports
      /\ Behind("client")' = Behind("client") \cup {x} /\ Behind("server")' = Behind("server")
  BY <1>1, GoesOn DEF Opening
<1>5. x \notin Behind("client")
  <2>1. Nth(x) = at["client"] /\ at["client"] \in 1 .. 4
    BY <1>1, <1>2 DEF IInv, TypeOK
  <2>2. ~(Nth(x) < at["client"])
    BY ONLY <2>1
  <2> QED
    BY <1>1, <2>2 DEF Behind
<1>6. next \in Nat /\ next # 0 /\ next + 1 \in Nat \ {0} /\ backlog[x] \in Seq(Nat)
  BY <1>2 DEF IInv, TypeOK
<1> HIDE DEF x
<1>7. TypeOK'
  <2>1. sock' \in [Role -> [{"send", "recv", "both"} -> Nat]]
    BY <1>1, <1>2, <1>6 DEF IInv, TypeOK
  <2>2. Append(backlog[x], next) \in Seq(Nat)
    BY <1>6
  <2>3. backlog' \in [Port -> Seq(Nat)]
    BY <1>1, <1>2, <2>2 DEF IInv, TypeOK
  <2>4. pc' \in [Role -> {"listen", "accept", "close", "connect", "usleep", "open", "sync"}]
    BY <1>3 DEF IInv, TypeOK
  <2>5. at' \in [Role -> 1 .. 4]
    <3>1. n \in 1 .. 4 /\ at \in [Role -> 1 .. 4]
      BY DEF IInv, TypeOK
    <3> QED
      BY ONLY <1>3, <3>1
  <2> QED
    BY <1>1, <1>6, <2>1, <2>3, <2>4, <2>5 DEF IInv, TypeOK
<1>8. Paired'
  <2>1. /\ sock'["server"] = sock["server"]
        /\ sock'["client"][ClientEnd(x)] = next
        /\ \A e \in {"send", "recv", "both"} : e # ClientEnd(x) => sock'["client"][e] = sock["client"][e]
    BY <1>1, <1>2 DEF IInv, TypeOK
  <2>2. \A y \in Ports : /\ y # x => ClientEnd(y) # ClientEnd(x)
                         /\ ClientEnd(y) \in {"send", "recv", "both"}
                         /\ ClientEnd(y) = "both" <=> kind = "NetIO"
    BY <1>2 DEF Ports, ClientEnd, IInv, TypeOK
  <2>3. ASSUME kills["client"] = 0
        PROVE  backlog[x] = <<>> /\ sock["server"][ServerEnd(x)] = None /\ x \notin Behind("server")
    BY <1>2, <1>5, <2>3 DEF IInv, Paired
  <2>4. ASSUME kills["client"] = 0 PROVE backlog'[x] = <<next>>
    <3>1. backlog[x] = <<>> /\ Append(<<>>, next) = <<next>>
      BY <2>3, <2>4
    <3>2. backlog'[x] = Append(backlog[x], next)
      BY <1>1, <1>2 DEF IInv, TypeOK
    <3> QED
      BY <3>1, <3>2
  <2>5. \A y \in Port : y # x => backlog'[y] = backlog[y]
    BY <1>1, <1>2 DEF IInv, TypeOK
  <2>6. /\ kind = "NetIO" => \A r \in Role : sock'[r]["send"] = None /\ sock'[r]["recv"] = None
        /\ kind = "HighSpeedNetIO" => \A r \in Role : sock'[r]["both"] = None
    BY <1>2, <2>1, <2>2 DEF IInv, Paired, TypeOK
  <2>7. Ports \subseteq Port
    BY DEF Ports, Port
  <2>8. ASSUME kills["client"] = 0, NEW y \in Ports
        PROVE  /\ backlog'[y] # <<>> =>
                    y \in Behind("client") \cup {x} /\ backlog'[y] = <<sock'["client"][ClientEnd(y)]>>
               /\ sock'["client"][ClientEnd(y)] # None <=> y \in Behind("client") \cup {x}
               /\ sock["server"][ServerEnd(y)] # None =>
                    sock["server"][ServerEnd(y)] = sock'["client"][ClientEnd(y)]
               /\ y \in Behind("server") => sock["server"][ServerEnd(y)] # None
    <3>1. CASE y = x
      BY <3>1, <1>6, <2>1, <2>3, <2>4, <2>8 DEF IInv, Paired
    <3>2. CASE y # x
      BY <3>2, <2>1, <2>2, <2>5, <2>7, <2>8 DEF IInv, Paired
    <3> QED
      BY <3>1, <3>2
  <2> QED
    BY <1>1, <1>4, <2>1, <2>6, <2>8 DEF Paired
<1>9. Conserved'
  <2>1. wire' \in [Role -> Nat] /\ \A r \in Role : wire'[r] <= wire[r]
    BY <1>1, Counts
  <2>2. n \in 1 .. 4 /\ q \in Opening \cup {"open"} /\ pc[p] \in Opening
    BY <1>1 DEF First, Opening
  <2>3. /\ pc' = [pc EXCEPT ![p] = q] /\ at' = [at EXCEPT ![p] = n]
        /\ UNCHANGED <<kind, file, entered, left>>
    BY <1>1, <1>3
  <2> QED
    BY <2>1, <2>2, <2>3, CountsStay
<1> QED
  BY <1>4, <1>7, <1>8, <1>9 DEF IInv

(* A process that starts again has nothing, and nothing was asked of it.   *)
LEMMA KillInv == ASSUME IInv, NEW p \in Role, Kill(p) PROVE IInv'
<1>1. /\ pc[p] \in Opening
      /\ pc' = [pc EXCEPT ![p] = First(p)] /\ at' = [at EXCEPT ![p] = 1]
      /\ sock' = [sock EXCEPT ![p] = Nobody]
      /\ listening' \subseteq Port
      /\ backlog' = IF p = "server" THEN [x \in Port |-> <<>>] ELSE backlog
      /\ wire' = [wire EXCEPT ![p] = 0] /\ kills' = [kills EXCEPT ![p] = @ + 1]
      /\ UNCHANGED <<kind, next, file, entered, left>>
  BY DEF Kill, Opening, IInv, TypeOK
<1>2. TypeOK'
  <2>1. backlog' \in [Port -> Seq(Nat)]
    <3>1. [x \in Port |-> <<>>] \in [Port -> Seq(Nat)]
      OBVIOUS
    <3> QED
      BY <1>1, <3>1 DEF IInv, TypeOK
  <2>2. sock' \in [Role -> [{"send", "recv", "both"} -> Nat]]
    BY <1>1 DEF IInv, TypeOK, Nobody
  <2>3. wire' \in [Role -> Nat] /\ kills' \in [Role -> Nat]
    <3>1. /\ wire \in [Role -> Nat] /\ kills \in [Role -> Nat] /\ 0 \in Nat
          /\ kills[p] + 1 \in Nat
      BY Counts
    <3> QED
      BY <1>1, <3>1
  <2>4. /\ pc' \in [Role -> {"listen", "accept", "close", "connect", "usleep", "open", "sync"}]
        /\ at' \in [Role -> 1 .. 4]
    <3>1. pc' \in [Role -> {"listen", "accept", "close", "connect", "usleep", "open", "sync"}]
      BY <1>1 DEF IInv, TypeOK, First
    <3>2. 1 \in 1 .. 4 /\ at \in [Role -> 1 .. 4]
      BY DEF IInv, TypeOK
    <3>3. at' \in [Role -> 1 .. 4]
      BY ONLY <1>1, <3>2
    <3> QED
      BY <3>1, <3>3
  <2> QED
    BY <1>1, <2>1, <2>2, <2>3, <2>4 DEF IInv, TypeOK
<1>3. Placed'
  <2>1. pc'[p] = First(p) /\ at'[p] = 1 /\ \A r \in Role : r # p => pc'[r] = pc[r] /\ at'[r] = at[r]
    BY <1>1 DEF IInv, TypeOK
  <2> QED
    BY <1>1, <2>1 DEF IInv, Placed, Opening, First
<1>4. Paired'
  <2>1. /\ \A e \in {"send", "recv", "both"} : sock'[p][e] = None
        /\ \A r \in Role : r # p => sock'[r] = sock[r]
    BY <1>1 DEF IInv, TypeOK, Nobody
  <2>2. /\ kind = "NetIO" => \A r \in Role : sock'[r]["send"] = None /\ sock'[r]["recv"] = None
        /\ kind = "HighSpeedNetIO" => \A r \in Role : sock'[r]["both"] = None
    BY <2>1 DEF IInv, Paired
  <2>3. CASE p = "client"
    <3>1. kills'["client"] # 0
      <4>1. kills'["client"] = kills["client"] + 1 /\ kills["client"] \in Nat
        BY <1>1, <2>3, Counts
      <4> QED
        BY ONLY <4>1
    <3> QED
      BY <1>1, <2>2, <3>1 DEF Paired
  <2>4. CASE p = "server"
    <3>1. \A x \in Ports : backlog'[x] = <<>> /\ ServerEnd(x) \in {"send", "recv", "both"}
      BY <1>1, <2>4 DEF Ports, Port, ServerEnd
    <3>2. Ports' = Ports /\ Behind("client")' = Behind("client") /\ Behind("server")' = {}
      <4>1. pc'["server"] = "listen" /\ at'["server"] = 1 /\ pc'["client"] = pc["client"]
            /\ at'["client"] = at["client"]
        BY <1>1, <2>4 DEF IInv, TypeOK, First
      <4>2. Ports' = Ports
        BY <1>1 DEF Ports
      <4> QED
        BY <4>1, <4>2 DEF Behind, Nth
    <3>3. kills'["client"] = kills["client"]
      BY <1>1, <2>4 DEF IInv, TypeOK
    <3> QED
      BY <1>1, <2>1, <2>2, <2>4, <3>1, <3>2, <3>3 DEF IInv, Paired
  <2> QED
    BY <2>3, <2>4
<1>5. Conserved'
  <2>1. wire \in [Role -> Nat] /\ wire' = [wire EXCEPT ![p] = 0]
    BY <1>1, Counts
  <2>2. wire' \in [Role -> Nat] /\ \A r \in Role : wire'[r] <= wire[r]
    <3>1. wire'[p] = 0 /\ \A r \in Role : r # p => wire'[r] = wire[r]
      BY <2>1
    <3>2. \A r \in Role : wire[r] \in Nat
      BY <2>1
    <3>3. \A r \in Role : wire'[r] <= wire[r]
      BY <3>1, <3>2
    <3>4. 0 \in Nat
      OBVIOUS
    <3> QED
      BY ONLY <2>1, <3>3, <3>4
  <2>3. First(p) \in Opening \cup {"open"} /\ 1 \in 1 .. 4
    BY DEF First, Opening
  <2>4. /\ pc[p] \in Opening /\ pc' = [pc EXCEPT ![p] = First(p)] /\ at' = [at EXCEPT ![p] = 1]
        /\ UNCHANGED <<kind, file, entered, left>>
    BY <1>1
  <2> QED
    BY <2>2, <2>3, <2>4, CountsStay
<1> QED
  BY <1>2, <1>3, <1>4, <1>5 DEF IInv

-----------------------------------------------------------------------------
(* sync *)

(* What p does next in sync.                                               *)
LEMMA ThisCall ==
  ASSUME IInv, NEW p \in Role, pc[p] = "sync"
  PROVE  /\ kind = "NetIO"
         /\ p = "server" => /\ Len(SyncCalls[p]) = 3 /\ at[p] \in 1 .. 3
                            /\ Call(p) = "send" <=> at[p] = 1
                            /\ Call(p) = "read" <=> at[p] = 3
         /\ p = "client" => /\ Len(SyncCalls[p]) = 4 /\ at[p] \in 1 .. 4
                            /\ Call(p) = "send" <=> at[p] = 3
                            /\ Call(p) = "read" <=> at[p] = 2
<1>1. kind = "NetIO"
  BY DEF IInv, Placed
<1>2. CASE p = "server"
  <2>1. at[p] = 1 \/ at[p] = 2 \/ at[p] = 3
    BY <1>2 DEF IInv, Placed
  <2> QED
    BY <1>1, <1>2, <2>1 DEF Call, SyncCalls
<1>3. CASE p = "client"
  <2>1. at[p] = 1 \/ at[p] = 2 \/ at[p] = 3 \/ at[p] = 4
    <3>1. at[p] \in 1 .. 4
      BY DEF IInv, TypeOK
    <3> QED
      BY ONLY <3>1
  <2> QED
    BY <1>1, <1>3, <2>1 DEF Call, SyncCalls
<1> QED
  BY <1>2, <1>3

(* A call of sync's is done: one more byte is sent, or taken.              *)
LEMMA CallDone ==
  ASSUME IInv, NEW p \in Role, pc[p] = "sync", Returned(p), kind' = kind
  PROVE  /\ \E q \in {"open", "sync"}, n \in 1 .. 4 :
              pc' = [pc EXCEPT ![p] = q] /\ at' = [at EXCEPT ![p] = n]
         /\ Placed'
         /\ left' \in [Role -> Nat]
         /\ left'[p] + InSync(p)' = left[p] + InSync(p)
         /\ Sent(p)' = Sent(p) + IF Call(p) = "send" THEN 1 ELSE 0
         /\ Taken(p)' = Taken(p) + IF Call(p) = "read" THEN 1 ELSE 0
         /\ pc'[p] \notin Opening
         /\ \A r \in Role : r # p => /\ Sent(r)' = Sent(r) /\ Taken(r)' = Taken(r)
                                     /\ InSync(r)' = InSync(r) /\ pc'[r] = pc[r]
                                     /\ left'[r] = left[r]
<1>1. /\ pc \in [Role -> {"listen", "accept", "close", "connect", "usleep", "open", "sync"}]
      /\ at \in [Role -> 1 .. 4] /\ left \in [Role -> Nat]
  BY DEF IInv, TypeOK
<1>2. CASE at[p] < Len(SyncCalls[p])
  <2>1. at' = [at EXCEPT ![p] = @ + 1] /\ pc' = pc /\ left' = left
    BY <1>2 DEF Returned
  <2>2. at[p] + 1 \in 1 .. 4 /\ (p = "server" => at[p] + 1 \in 1 .. 3)
    <3>1. CASE p = "server"
      <4>1. at[p] \in 1 .. 3 /\ at[p] < 3
        BY <1>2, <3>1, ThisCall
      <4> QED
        BY ONLY <4>1
    <3>2. CASE p = "client"
      <4>1. at[p] \in 1 .. 4 /\ at[p] < 4 /\ p # "server"
        BY <1>2, <3>2, ThisCall
      <4> QED
        BY ONLY <4>1
    <3> QED
      BY <3>1, <3>2
  <2>3. at'[p] = at[p] + 1 /\ \A r \in Role : r # p => at'[r] = at[r]
    BY <1>1, <2>1
  <2>4. Placed'
    BY <2>1, <2>2, <2>3 DEF IInv, Placed, Opening
  <2>5. /\ Sent(p)' = Sent(p) + IF Call(p) = "send" THEN 1 ELSE 0
        /\ Taken(p)' = Taken(p) + IF Call(p) = "read" THEN 1 ELSE 0
    <3> left[p] \in Nat /\ left'[p] = left[p] /\ pc'[p] = "sync"
      BY <1>1, <2>1
    <3>1. CASE p = "server"
      <4>1. at[p] \in 1 .. 3 /\ at[p] < 3 /\ (Call(p) = "send" <=> at[p] = 1)
            /\ (Call(p) = "read" <=> at[p] = 3)
        BY <1>2, <3>1, ThisCall
      <4> QED
        BY <3>1, <4>1, <2>3 DEF Sent, Taken, Past
    <3>2. CASE p = "client"
      <4>1. at[p] \in 1 .. 4 /\ at[p] < 4 /\ (Call(p) = "send" <=> at[p] = 3)
            /\ (Call(p) = "read" <=> at[p] = 2)
        BY <1>2, <3>2, ThisCall
      <4> QED
        BY <3>2, <4>1, <2>3 DEF Sent, Taken, Past
    <3> QED
      BY <3>1, <3>2
  <2>6. \A r \in Role : r # p => Sent(r)' = Sent(r) /\ Taken(r)' = Taken(r)
    BY <2>1, <2>3 DEF Sent, Taken, Past
  <2>7. \A r \in Role : InSync(r)' = InSync(r) /\ pc'[r] = pc[r] /\ left'[r] = left[r]
    BY <2>1 DEF InSync
  <2>8. \E q \in {"open", "sync"}, n \in 1 .. 4 :
              pc' = [pc EXCEPT ![p] = q] /\ at' = [at EXCEPT ![p] = n]
    <3>1. pc' = [pc EXCEPT ![p] = "sync"]
      BY <2>1, <1>1
    <3> QED
      BY <3>1, <2>1, <2>2
  <2> QED
    BY <1>1, <2>1, <2>4, <2>5, <2>6, <2>7, <2>8 DEF Opening
<1>3. CASE ~(at[p] < Len(SyncCalls[p]))
  <2>1. /\ at' = [at EXCEPT ![p] = 1] /\ pc' = [pc EXCEPT ![p] = "open"]
        /\ left' = [left EXCEPT ![p] = @ + 1]
    BY <1>3 DEF Returned
  <2>2. /\ pc'[p] = "open" /\ at'[p] = 1 /\ left'[p] = left[p] + 1
        /\ \A r \in Role : r # p => pc'[r] = pc[r] /\ at'[r] = at[r] /\ left'[r] = left[r]
    BY <1>1, <2>1
  <2>3. Placed'
    BY <2>2 DEF IInv, Placed, Opening
  <2>4. /\ Sent(p)' = Sent(p) + IF Call(p) = "send" THEN 1 ELSE 0
        /\ Taken(p)' = Taken(p) + IF Call(p) = "read" THEN 1 ELSE 0
    <3> left[p] \in Nat
      BY <1>1
    <3>1. CASE p = "server"
      <4>1. at[p] = 3 /\ Call(p) # "send" /\ Call(p) = "read"
        <5>1. /\ at[p] \in 1 .. 3 /\ ~(at[p] < 3) /\ (Call(p) = "send" <=> at[p] = 1)
              /\ (Call(p) = "read" <=> at[p] = 3)
          BY <1>3, <3>1, ThisCall
        <5>2. at[p] = 3
          BY ONLY <5>1
        <5> QED
          BY <5>1, <5>2
      <4> QED
        BY <3>1, <4>1, <2>2 DEF Sent, Taken, Past
    <3>2. CASE p = "client"
      <4>1. at[p] = 4 /\ Call(p) # "send" /\ Call(p) # "read"
        <5>1. /\ at[p] \in 1 .. 4 /\ ~(at[p] < 4) /\ (Call(p) = "send" <=> at[p] = 3)
              /\ (Call(p) = "read" <=> at[p] = 2)
          BY <1>3, <3>2, ThisCall
        <5>2. at[p] = 4
          BY ONLY <5>1
        <5> QED
          BY <5>1, <5>2
      <4> QED
        BY <3>2, <4>1, <2>2 DEF Sent, Taken, Past
    <3> QED
      BY <3>1, <3>2
  <2>5. \A r \in Role : r # p => Sent(r)' = Sent(r) /\ Taken(r)' = Taken(r) /\ InSync(r)' = InSync(r)
    BY <2>2 DEF Sent, Taken, Past, InSync
  <2>6. left'[p] + InSync(p)' = left[p] + InSync(p)
    BY <1>1, <2>2 DEF InSync
  <2>7. left[p] + 1 \in Nat
    BY <1>1
  <2>8. left' \in [Role -> Nat]
    BY <1>1, <2>1, <2>7
  <2>9. \E q \in {"open", "sync"}, n \in 1 .. 4 :
              pc' = [pc EXCEPT ![p] = q] /\ at' = [at EXCEPT ![p] = n]
    <3>1. 1 \in 1 .. 4
      OBVIOUS
    <3> QED
      BY <2>1, <3>1
  <2> QED
    BY <2>2, <2>3, <2>4, <2>5, <2>6, <2>8, <2>9 DEF Opening
<1> QED
  BY <1>2, <1>3

(* sync begins: in HighSpeedNetIO it returns at once.                      *)
LEMMA SyncInv == ASSUME IInv, NEW p \in Role, Sync(p) PROVE IInv'
<1>1. /\ pc[p] = "open" /\ at[p] = 1 /\ entered' = [entered EXCEPT ![p] = @ + 1]
      /\ UNCHANGED <<kind, at, sock, listening, backlog, next, file, wire, kills>>
  BY DEF Sync, network, IInv, Placed
<1>2. /\ entered \in [Role -> Nat] /\ left \in [Role -> Nat] /\ at \in [Role -> 1 .. 4]
      /\ pc \in [Role -> {"listen", "accept", "close", "connect", "usleep", "open", "sync"}]
      /\ entered[p] + 1 \in Nat /\ left[p] + 1 \in Nat
  <2>1. /\ entered \in [Role -> Nat] /\ left \in [Role -> Nat] /\ at \in [Role -> 1 .. 4]
        /\ pc \in [Role -> {"listen", "accept", "close", "connect", "usleep", "open", "sync"}]
    BY DEF IInv, TypeOK
  <2>2. entered[p] \in Nat /\ left[p] \in Nat
    BY ONLY <2>1, p \in Role DEF Role
  <2> QED
    BY <2>1, <2>2
<1>3. /\ entered' \in [Role -> Nat] /\ entered'[p] = entered[p] + 1
      /\ \A r \in Role : r # p => entered'[r] = entered[r]
  BY <1>1, <1>2
<1>4. CASE kind = "NetIO"
  <2>1. pc' = [pc EXCEPT ![p] = "sync"] /\ left' = left
    BY <1>4 DEF Sync
  <2>2. pc'[p] = "sync" /\ \A r \in Role : r # p => pc'[r] = pc[r]
    BY <1>2, <2>1
  <2>3. TypeOK'
    BY <1>1, <1>2, <1>3, <2>1 DEF IInv, TypeOK
  <2>4. Placed'
    BY <1>1, <1>4, <2>2 DEF IInv, Placed, Opening
  <2>5. Paired'
    <3>1. at' = [at EXCEPT ![p] = 1]
      BY <1>1, <1>2
    <3>2. 1 \in 1 .. 4
      OBVIOUS
    <3> QED
      BY <1>1, <2>1, <3>1, <3>2, SocketsStay
  <2>6. Conserved'
    <3>1. \A r \in Role : Sent(r)' = Sent(r) /\ Taken(r)' = Taken(r)
      BY <1>1, <1>2, <2>1, <2>2 DEF Sent, Taken, Past
    <3>2. \A r \in Role : entered'[r] = left'[r] + InSync(r)'
      BY <1>1, <1>2, <1>3, <2>1, <2>2 DEF IInv, Conserved, InSync
    <3> QED
      BY <1>1, <2>1, <2>2, <3>1, <3>2 DEF IInv, Conserved, Opening
  <2> QED
    BY <2>3, <2>4, <2>5, <2>6 DEF IInv
<1>5. CASE kind # "NetIO"
  <2>1. pc' = pc /\ left' = [left EXCEPT ![p] = @ + 1]
    BY <1>5 DEF Sync
  <2>2. /\ left' \in [Role -> Nat] /\ left'[p] = left[p] + 1
        /\ \A r \in Role : r # p => left'[r] = left[r]
    BY <1>2, <2>1
  <2>3. TypeOK' /\ Placed'
    BY <1>1, <1>3, <2>1, <2>2 DEF IInv, TypeOK, Placed
  <2>4. Paired'
    BY <1>1, <2>1 DEF IInv, Paired, Behind, Ports
  <2>5. Conserved'
    <3>1. \A r \in Role : entered'[r] = left'[r] + InSync(r)'
      BY <1>1, <1>2, <1>3, <2>1, <2>2 DEF IInv, Conserved, InSync
    <3> QED
      BY <1>1, <1>5, <2>1, <2>2, <3>1 DEF IInv, Conserved, Opening
  <2> QED
    BY <2>3, <2>4, <2>5 DEF IInv
<1> QED
  BY <1>4, <1>5

(* A byte goes into the FILE, from there to the peer, and is read there.   *)
LEMMA ByteInv == ASSUME IInv, NEW p \in Role, Send(p) \/ Flush(p) \/ Read(p) PROVE IInv'
<1>1. /\ pc[p] = "sync" /\ Returned(p)
      /\ UNCHANGED <<kind, sock, listening, backlog, next, entered, kills>>
  BY DEF Send, Flush, Read, network
<1>2. \A r \in Role : file[r] \in Nat /\ wire[r] \in Nat
  BY DEF IInv, TypeOK
<1>3. /\ file' \in [Role -> Nat] /\ wire' \in [Role -> Nat]
      /\ file'[p] + wire'[Peer(p)] <= file[p] + wire[Peer(p)] + IF Call(p) = "send" THEN 1 ELSE 0
      /\ file'[Peer(p)] = file[Peer(p)]
      /\ wire'[p] = wire[p] - IF Call(p) = "read" THEN 1 ELSE 0
  <2>0. file \in [Role -> Nat] /\ wire \in [Role -> Nat] /\ p # Peer(p) /\ Peer(p) \in Role
    BY DEF IInv, TypeOK
  <2>1. CASE Send(p)
    <3>1. Call(p) = "send" /\ file' = [file EXCEPT ![p] = @ + 1] /\ wire' = wire /\ file[p] + 1 \in Nat
      BY <2>1, <1>2 DEF Send
    <3> QED
      BY <1>2, <2>0, <3>1
  <2>2. CASE Flush(p)
    <3>1. /\ Call(p) = "flush" /\ file' = [file EXCEPT ![p] = 0]
          /\ wire' = [wire EXCEPT ![Peer(p)] = @ + file[p]] \/ wire' = [wire EXCEPT ![Peer(p)] = @]
      BY <2>2 DEF Flush
    <3>2. wire[Peer(p)] + file[p] \in Nat /\ 0 \in Nat
      BY <1>2, <2>0
    <3> QED
      BY <1>2, <2>0, <3>1, <3>2
  <2>3. CASE Read(p)
    <3>1. Call(p) = "read" /\ wire' = [wire EXCEPT ![p] = @ - 1] /\ file' = file /\ wire[p] - 1 \in Nat
      BY <2>3, <1>2 DEF Read
    <3> QED
      BY <1>2, <2>0, <3>1
  <2> QED
    BY <2>1, <2>2, <2>3
<1>4. PICK q \in {"open", "sync"}, n \in 1 .. 4 :
        pc' = [pc EXCEPT ![p] = q] /\ at' = [at EXCEPT ![p] = n]
  BY <1>1, CallDone
<1>5. /\ Placed' /\ left' \in [Role -> Nat]
      /\ left'[p] + InSync(p)' = left[p] + InSync(p)
      /\ Sent(p)' = Sent(p) + IF Call(p) = "send" THEN 1 ELSE 0
      /\ Taken(p)' = Taken(p) + IF Call(p) = "read" THEN 1 ELSE 0
      /\ pc'[p] \notin Opening
      /\ \A r \in Role : r # p => /\ Sent(r)' = Sent(r) /\ Taken(r)' = Taken(r)
                                  /\ InSync(r)' = InSync(r) /\ pc'[r] = pc[r]
                                  /\ left'[r] = left[r]
  BY <1>1, CallDone
<1>6. TypeOK'
  <2>1. /\ pc' \in [Role -> {"listen", "accept", "close", "connect", "usleep", "open", "sync"}]
        /\ at' \in [Role -> 1 .. 4]
    BY <1>4 DEF IInv, TypeOK
  <2> QED
    BY <1>1, <1>3, <1>5, <2>1 DEF IInv, TypeOK
<1>7. Paired'
  BY <1>1, <1>4, SocketsStay
<1>8. Conserved'
  <2> DEFINE r == Peer(p)
  <2>1. /\ r \in Role /\ r # p /\ Peer(r) = p /\ \A e \in Role : e = p \/ e = r
    OBVIOUS
  <2>2. \A e \in Role : entered'[e] = left'[e] + InSync(e)'
    BY <1>1, <1>5 DEF IInv, Conserved
  <2>3. \A e \in Role : pc'[e] \in Opening => left'[e] = 0 /\ file'[e] = 0
    BY <2>1, <1>3, <1>5 DEF IInv, Conserved
  <2>4. /\ file[p] + wire[r] + Taken(r) <= Sent(p) /\ file[r] + wire[p] + Taken(p) <= Sent(r)
    BY <1>1, <2>1, ThisCall DEF IInv, Conserved
  <2>5. \A e \in Role : /\ file[e] \in Nat /\ wire[e] \in Nat /\ file'[e] \in Nat /\ wire'[e] \in Nat
                        /\ Taken(e) \in Nat /\ Sent(e) \in Nat
    <3>1. \A e \in Role : left[e] \in Nat
      BY DEF IInv, TypeOK
    <3> QED
      BY <1>2, <1>3, <3>1 DEF Taken, Sent, Past
  <2>6. file'[p] + wire'[r] + Taken(r)' <= Sent(p)'
    <3>1. Taken(r)' = Taken(r) /\ Sent(p)' = Sent(p) + IF Call(p) = "send" THEN 1 ELSE 0
      BY <1>5, <2>1
    <3>2. file'[p] + wire'[r] <= file[p] + wire[r] + IF Call(p) = "send" THEN 1 ELSE 0
      BY <1>3
    <3> HIDE DEF r
    <3> QED
      BY <2>1, <2>4, <2>5, <3>1, <3>2
  <2>7. file'[r] + wire'[p] + Taken(p)' <= Sent(r)'
    <3>1. Sent(r)' = Sent(r) /\ Taken(p)' = Taken(p) + IF Call(p) = "read" THEN 1 ELSE 0
      BY <1>5, <2>1
    <3>2. file'[r] = file[r] /\ wire'[p] = wire[p] - IF Call(p) = "read" THEN 1 ELSE 0
      BY <1>3
    <3> HIDE DEF r
    <3> QED
      BY <2>1, <2>4, <2>5, <3>1, <3>2
  <2>8. \A e \in Role : file'[e] + wire'[Peer(e)] + Taken(Peer(e))' <= Sent(e)'
    BY <2>1, <2>6, <2>7
  <2> QED
    BY <2>2, <2>3, <2>8 DEF Conserved
<1> QED
  BY <1>5, <1>6, <1>7, <1>8 DEF IInv

-----------------------------------------------------------------------------
(* However often the server is killed and whichever party is first, a port *)
(* carries the one connection the client made to it, and no more bytes are *)
(* read than were sent.                                                    *)
THEOREM Invariance == Spec => []IInv
<1>1. IInv /\ [Next]_vars => IInv'
  <2> SUFFICES ASSUME IInv, [Next]_vars PROVE IInv'
    OBVIOUS
  <2>1. ASSUME NEW p \in Role, Step(p) \/ Kill(p) PROVE IInv'
    <3>1. CASE Listen(p) \/ Accept(p) \/ CloseListener(p) \/ Connect(p) \/ Refused(p) \/ Retry(p)
      BY <3>1, WaitInv, AcceptInv, CloseInv, ConnectInv
    <3>2. CASE Sync(p) \/ Send(p) \/ Flush(p) \/ Read(p)
      BY <3>2, SyncInv, ByteInv
    <3>3. CASE Kill(p)
      BY <3>3, KillInv
    <3> QED
      BY <2>1, <3>1, <3>2, <3>3 DEF Step
  <2>2. CASE UNCHANGED vars
    <3>1. UNCHANGED <<kind, pc, at, sock, listening, backlog, next, file, wire, entered, left, kills>>
      BY <2>2 DEF vars, network, stream
    <3>2. TypeOK' /\ Placed'
      BY <3>1 DEF IInv, TypeOK, Placed
    <3>3. Paired'
      BY <3>1 DEF IInv, Paired, Behind, Ports
    <3>4. Conserved'
      BY <3>1 DEF IInv, Conserved, InSync, Sent, Taken, Past
    <3> QED
      BY <3>2, <3>3, <3>4 DEF IInv
  <2> QED
    BY <2>1, <2>2 DEF Next
<1> QED
  BY InitInv, <1>1, PTL DEF Spec

(* Unless the client was killed, what one party sends to is what the other *)
(* receives from once both are connected (server_listen, client_connect).  *)
THEOREM ConnectionsPair == Spec => []SocketsPair
<1>1. IInv => SocketsPair
  <2> SUFFICES ASSUME IInv, \A p \in Role : pc[p] \in {"open", "sync"}, kills["client"] = 0
               PROVE  /\ sock["client"]["send"] = sock["server"]["recv"]
                      /\ sock["client"]["recv"] = sock["server"]["send"]
                      /\ sock["client"]["both"] = sock["server"]["both"]
    BY DEF SocketsPair
  <2>1. \A x \in Ports : sock["server"][ServerEnd(x)] = sock["client"][ClientEnd(x)]
    BY DEF IInv, Paired, Behind
  <2>2. CASE kind = "NetIO"
    BY <2>1, <2>2 DEF IInv, Paired, Ports, ServerEnd, ClientEnd
  <2>3. CASE kind = "HighSpeedNetIO"
    BY <2>1, <2>3 DEF IInv, Paired, Ports, ServerEnd, ClientEnd
  <2> QED
    BY <2>2, <2>3 DEF IInv, TypeOK
<1> QED
  BY Invariance, <1>1, PTL

(* NetIO's sync lets a party return only once the other has come to it.    *)
THEOREM SyncIsABarrier == Spec => []SyncIsBarrier
<1>1. IInv => SyncIsBarrier
  <2> SUFFICES ASSUME IInv, kind = "NetIO", NEW p \in Role PROVE left[p] <= entered[Peer(p)]
    BY DEF SyncIsBarrier
  <2>1. \A r \in Role : /\ file[r] \in Nat /\ wire[r] \in Nat /\ left[r] \in Nat
                        /\ entered[r] \in Nat /\ Peer(r) \in Role /\ Peer(Peer(r)) = r
    BY DEF IInv, TypeOK
  <2>2. left[p] <= Taken(p) /\ Sent(Peer(p)) <= left[Peer(p)] + InSync(Peer(p)) /\ Taken(p) \in Nat
        /\ Sent(Peer(p)) \in Nat
    BY <2>1 DEF Taken, Sent, Past, InSync
  <2>3. file[Peer(p)] + wire[p] + Taken(p) <= Sent(Peer(p))
    BY <2>1 DEF IInv, Conserved
  <2>4. entered[Peer(p)] = left[Peer(p)] + InSync(Peer(p))
    BY <2>1 DEF IInv, Conserved
  <2>5. Peer(p) \in Role
    BY <2>1
  <2> QED
    BY <2>1, <2>2, <2>3, <2>4, <2>5
<1> QED
  BY Invariance, <1>1, PTL
=============================================================================
