----------------------------- MODULE Connection -----------------------------
(***************************************************************************)
(* How two processes get connected: the constructors of HighSpeedNetIO (a  *)
(* connection for each direction, on two ports) and of NetIO (one for both)*)
(* and the sync of NetIO.  The server is the party that has no address.    *)
(* NetChannel begins where both parties are "open".                        *)
(*                                                                         *)
(* The network of one machine is modelled: a port has a listener with its  *)
(* queue of connections; a connect succeeds as soon as there is room in the*)
(* queue, and is refused where nobody listens; closing a listener resets   *)
(* the connections nobody accepted.  A process that is not yet connected   *)
(* may be killed and started again.                                        *)
(***************************************************************************)
EXTENDS Naturals, Sequences

CONSTANTS Backlog,     \* the second argument of listen
          MaxSyncs,    \* bound: calls of sync
          MaxKills     \* bound: how often each process is killed

ASSUME ConnectionAssumption == Backlog \in Nat /\ MaxSyncs \in Nat /\ MaxKills \in Nat

Role == {"server", "client"}
Peer(p) == IF p = "server" THEN "client" ELSE "server"
Port == {"send_port", "recv_port", "port"}
None == 0

(* The ports in the order in which they are opened, and what for.  A name  *)
(* Bad... is that of what follows it with a seeded fault, used nowhere.    *)
BadServerEnds == <<<<"send_port", "send">>, <<"recv_port", "recv">>>>
BadServerOrder == <<<<"recv_port", "send">>, <<"send_port", "recv">>>>
ServerEnds == <<<<"send_port", "recv">>, <<"recv_port", "send">>>>
ClientEnds == <<<<"send_port", "send">>, <<"recv_port", "recv">>>>
Ends(kind, p) == IF kind = "NetIO" THEN <<<<"port", "both">>>>
                 ELSE IF p = "server" THEN ServerEnds ELSE ClientEnds

(* sync: recv_data_internal flushes what has been sent before it reads.    *)
BadSyncCalls == [server |-> <<"send", "flush", "read">>, client |-> <<"send", "flush">>]
SyncCalls == [server |-> <<"send", "flush", "read">>, client |-> <<"flush", "read", "send", "flush">>]

VARIABLES
  kind,        \* "HighSpeedNetIO" or "NetIO"
  pc,          \* where the process is
  at,          \* which of its ports it opens, which call of sync it is in
  sock,        \* the connection it has for each direction
  listening,   \* the ports the server listens on
  backlog,     \* the connections in the queue of a port
  next,        \* the next connection
  file,        \* bytes p has in its FILE
  wire,        \* bytes that have reached p
  entered, left,   \* how many calls of sync p has begun, and has returned from
  kills        \* how often p has been killed

network == <<listening, backlog, next>>
stream == <<file, wire, entered, left>>
vars == <<kind, pc, at, sock, network, stream, kills>>

Nobody == [e \in {"send", "recv", "both"} |-> None]
First(p) == IF p = "server" THEN "listen" ELSE "connect"

Init == /\ kind \in {"HighSpeedNetIO", "NetIO"}
        /\ pc = [p \in Role |-> First(p)]
        /\ at = [p \in Role |-> 1]
        /\ sock = [p \in Role |-> Nobody]
        /\ listening = {}
        /\ backlog = [x \in Port |-> <<>>]
        /\ next = 1
        /\ file = [p \in Role |-> 0] /\ wire = [p \in Role |-> 0]
        /\ entered = [p \in Role |-> 0] /\ left = [p \in Role |-> 0]
        /\ kills = [p \in Role |-> 0]

ThePort(p) == Ends(kind, p)[at[p]][1]
TheEnd(p) == Ends(kind, p)[at[p]][2]

(* One more port, or the constructor returns. *)
Opened(p) == IF at[p] < Len(Ends(kind, p))
             THEN pc' = [pc EXCEPT ![p] = First(p)] /\ at' = [at EXCEPT ![p] = @ + 1]
             ELSE pc' = [pc EXCEPT ![p] = "open"] /\ at' = [at EXCEPT ![p] = 1]

-----------------------------------------------------------------------------
(* server_listen: bind and listen, accept, close the listener. *)

Listen(p) == /\ p = "server" /\ pc[p] = "listen"
             /\ listening' = listening \cup {ThePort(p)}
             /\ pc' = [pc EXCEPT ![p] = "accept"]
             /\ UNCHANGED <<kind, at, sock, backlog, next, stream, kills>>

Accept(p) == /\ p = "server" /\ pc[p] = "accept"
             /\ backlog[ThePort(p)] # <<>>
             /\ sock' = [sock EXCEPT ![p][TheEnd(p)] = Head(backlog[ThePort(p)])]
             /\ backlog' = [backlog EXCEPT ![ThePort(p)] = Tail(@)]
             /\ pc' = [pc EXCEPT ![p] = "close"]
             /\ UNCHANGED <<kind, at, listening, next, stream, kills>>

CloseListener(p) == /\ p = "server" /\ pc[p] = "close"
                    /\ listening' = listening \ {ThePort(p)}
                    /\ backlog' = [backlog EXCEPT ![ThePort(p)] = <<>>]
                    /\ Opened(p)
                    /\ UNCHANGED <<kind, sock, next, stream, kills>>

(* client_connect: again after a millisecond until it succeeds. *)

Connect(p) == /\ p = "client" /\ pc[p] = "connect"
              /\ ThePort(p) \in listening
              /\ Len(backlog[ThePort(p)]) <= Backlog
              /\ backlog' = [backlog EXCEPT ![ThePort(p)] = Append(@, next)]
              /\ sock' = [sock EXCEPT ![p][TheEnd(p)] = next]
              /\ next' = next + 1
              /\ Opened(p)
              /\ UNCHANGED <<kind, listening, stream, kills>>

Refused(p) == /\ p = "client" /\ pc[p] = "connect"
              /\ ThePort(p) \notin listening
              /\ pc' = [pc EXCEPT ![p] = "usleep"]
              /\ UNCHANGED <<kind, at, sock, network, stream, kills>>

Retry(p) == /\ p = "client" /\ pc[p] = "usleep"
            /\ pc' = [pc EXCEPT ![p] = "connect"]
            /\ UNCHANGED <<kind, at, sock, network, stream, kills>>

-----------------------------------------------------------------------------
(* sync: nothing in HighSpeedNetIO, in NetIO a byte there and one back.    *)

Sync(p) == /\ pc[p] = "open" /\ left[p] < MaxSyncs
           /\ entered' = [entered EXCEPT ![p] = @ + 1]
           /\ IF kind = "NetIO"
              THEN pc' = [pc EXCEPT ![p] = "sync"] /\ UNCHANGED left
              ELSE left' = [left EXCEPT ![p] = @ + 1] /\ UNCHANGED pc
           /\ UNCHANGED <<kind, at, sock, network, file, wire, kills>>

Call(p) == SyncCalls[p][at[p]]
Returned(p) == IF at[p] < Len(SyncCalls[p])
               THEN at' = [at EXCEPT ![p] = @ + 1] /\ UNCHANGED <<pc, left>>
               ELSE /\ at' = [at EXCEPT ![p] = 1]
                    /\ pc' = [pc EXCEPT ![p] = "open"]
                    /\ left' = [left EXCEPT ![p] = @ + 1]

Send(p) == /\ pc[p] = "sync" /\ Call(p) = "send"
           /\ file' = [file EXCEPT ![p] = @ + 1]
           /\ Returned(p)
           /\ UNCHANGED <<kind, sock, network, wire, entered, kills>>

(* What is sent where the peer is gone is lost. *)
Flush(p) == /\ pc[p] = "sync" /\ Call(p) = "flush"
            /\ file' = [file EXCEPT ![p] = 0]
            /\ wire' = [wire EXCEPT ![Peer(p)] = IF sock[p] = sock[Peer(p)] THEN @ + file[p] ELSE @]
            /\ Returned(p)
            /\ UNCHANGED <<kind, sock, network, entered, kills>>

Read(p) == /\ pc[p] = "sync" /\ Call(p) = "read"
           /\ wire[p] > 0
           /\ wire' = [wire EXCEPT ![p] = @ - 1]
           /\ Returned(p)
           /\ UNCHANGED <<kind, sock, network, file, entered, kills>>

(* A process that is not yet connected is killed and started again.  What  *)
(* it connected to stays in the queue it is in.                            *)
Kill(p) == /\ pc[p] \in {"listen", "accept", "close", "connect", "usleep"}
           /\ kills[p] < MaxKills
           /\ pc' = [pc EXCEPT ![p] = First(p)]
           /\ at' = [at EXCEPT ![p] = 1]
           /\ sock' = [sock EXCEPT ![p] = Nobody]
           /\ listening' = IF p = "server" THEN {} ELSE listening
           /\ backlog' = IF p = "server" THEN [x \in Port |-> <<>>] ELSE backlog
           /\ wire' = [wire EXCEPT ![p] = 0]
           /\ kills' = [kills EXCEPT ![p] = @ + 1]
           /\ UNCHANGED <<kind, next, file, entered, left>>

Step(p) == \/ Listen(p) \/ Accept(p) \/ CloseListener(p)
           \/ Connect(p) \/ Refused(p) \/ Retry(p)
           \/ Sync(p) \/ Send(p) \/ Flush(p) \/ Read(p)
Next == \E p \in Role : Step(p) \/ Kill(p)

(* Both processes run; nobody has to be killed. *)
Spec == Init /\ [][Next]_vars /\ \A p \in Role : WF_vars(Step(p))

-----------------------------------------------------------------------------
(* Properties *)

TypeOK == /\ kind \in {"HighSpeedNetIO", "NetIO"}
          /\ pc \in [Role -> {"listen", "accept", "close", "connect", "usleep", "open", "sync"}]
          /\ at \in [Role -> 1 .. 4]
          /\ sock \in [Role -> [{"send", "recv", "both"} -> Nat]]
          /\ listening \subseteq Port
          /\ backlog \in [Port -> Seq(Nat)]
          /\ next \in Nat \ {0}
          /\ file \in [Role -> Nat] /\ wire \in [Role -> Nat]
          /\ entered \in [Role -> Nat] /\ left \in [Role -> Nat]
          /\ kills \in [Role -> Nat]

(* When both constructors have returned, what one party sends to is what   *)
(* the other receives from, both ways; however the client ran ahead of the *)
(* server, and even if the server was killed and started again.  It takes  *)
(* that the client never was: an accepted connection may be one that a dead*)
(* client left in the queue.                                               *)
SocketsPair ==
  ((\A p \in Role : pc[p] \in {"open", "sync"}) /\ kills["client"] = 0) =>
     /\ sock["client"]["send"] = sock["server"]["recv"]
     /\ sock["client"]["recv"] = sock["server"]["send"]
     /\ sock["client"]["both"] = sock["server"]["both"]

(* sync of NetIO is a barrier: a party returns from its n-th call only when*)
(* the other has begun its n-th.                                           *)
SyncIsBarrier == kind = "NetIO" => \A p \in Role : left[p] <= entered[Peer(p)]

(* If nobody is killed both parties get connected, in whatever order they  *)
(* start, and return from every sync.                                      *)
Connects == <>(\A p \in Role : pc[p] = "open" /\ left[p] = MaxSyncs)
              \/ <>(\E p \in Role : kills[p] > 0)
=============================================================================
