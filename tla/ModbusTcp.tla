------------------------------ MODULE ModbusTcp ------------------------------
(***************************************************************************)
(* The Modbus/TCP server (appModbus/task_modbus_tcp.c) and the network     *)
(* monitor that starts and stops it (appLwipUtils/task_netmon.c), for a    *)
(* device with an address of its own (ip_manual).                          *)
(*                                                                         *)
(* Three threads: the monitor's task, which compares the cable with what   *)
(* was last reported; the server's task, which takes events off a queue;   *)
(* and lwIP's, which calls the server back for each connection and fires   *)
(* its restart timer.  Callbacks, and what the tasks do with lwIP, are     *)
(* atomic: they hold the core lock.  No put to a queue waits: an event     *)
(* that finds it full is lost.                                             *)
(*                                                                         *)
(* What a request asks for and what the reply says is left out; a pending  *)
(* reply is the connection whose request it answers.                       *)
(***************************************************************************)
EXTENDS Naturals, Sequences, FiniteSets

CONSTANTS
  Conns,        (* connections, each of them made once                    *)
  Records,      (* memory for modbus_tcp_client_t                         *)
  ClientNum,    (* MODBUS_TCP_NUM                                         *)
  Retry,        (* MODBUS_TCP_REPLY_RETRY                                 *)
  ErrCount,     (* MODBUS_TCP_ERR_COUNT                                   *)
  NetQueue,     (* TASK_NETMON_QUEUE_SIZE                                 *)
  LinkRetry,    (* ETH_CHECK_LINK_RETRY of the driver                     *)
  ModbusQueue,  (* TASK_MODBUS_TCP_QUEUE_SIZE                             *)
  Disturbances, (* bound: cable changes, resets and failed allocations    *)
  Null, Closed  (* NULL, CLIENT_CLOSED_MARK                               *)

ASSUME ModbusTcpAssumption ==
  /\ {ClientNum, Retry, NetQueue, ModbusQueue} \subseteq Nat \ {0}
  /\ {ErrCount, Disturbances, LinkRetry} \subseteq Nat
  /\ Null # Closed
  /\ Records \intersect {Null, Closed} = {}
  /\ Null \notin Conns

\* They are 4 and 3: no cable is reported to be out while the queue still holds
\* the report that it is in.
ASSUME QueueAssumption == NetQueue <= LinkRetry + 1

Slots == 0 .. ClientNum - 1

VARIABLES
  link,         (* the cable                                              *)
  ethLink,      (* ETH_LINK_FLAG of the driver                            *)
  retry,        (* check_link_retry                                       *)
  linkUp,       (* NETIF_FLAG_LINK_UP of gnetif                           *)
  netQ,         (* queue_netmon                                           *)
  netmon,       (* "idle", or "check" with a timer event in hand          *)
  modbusQ,      (* queue_modbus_tcp                                       *)
  task,         (* "idle", the event in hand, or "UP2": CLOSE is put      *)
  server,       (* modbus_tpcb: "none", "new" or "listen"                 *)
  timers,       (* pending restart timers                                 *)
  conn,         (* of each connection: "new", "established",              *)
                (* "remote closed", "closing" (not the server's, holding  *)
                (* its port) or "gone"                                    *)
  arg,          (* what lwIP passes to its callbacks                      *)
  clients,      (* of each slot                                           *)
  record,       (* what each record holds, freed or not                   *)
  lost,         (* history: the queues ("net", "modbus") that were full   *)
                (* for an event that leads to a start, and have not       *)
                (* taken one since                                        *)
  quiet         (* disturbances left                                      *)

netVars == <<ethLink, retry, linkUp, netQ, netmon>>
clientVars == <<conn, arg, clients, record>>
modbusVars == <<link, netVars, modbusQ, task, server, timers, clientVars, lost, quiet>>

NetEvents == {"up", "down", "check"}
\* NET_UP and RESET are "UP", NET_DOWN is "CLOSE": the task handles them alike.
ModbusEvents == {"UP", "START", "CLOSE"}

Put(q, e, size) == IF Len(q) < size THEN Append(q, e) ELSE q
Lose(name, q, size) == IF Len(q) < size THEN lost \ {name} ELSE lost \union {name}

\* do_lwip_init; its first event says "up" whether or not there is a cable,
\* unless the driver could not be initialised.
ModbusInit ==
  /\ link \in BOOLEAN /\ ethLink = link /\ retry = 0 /\ linkUp = TRUE
  /\ \/ netQ = <<"up">>
     \/ ~ link /\ netQ = <<"down">>
  /\ netmon = "idle"
  /\ modbusQ = << >> /\ task = "idle"
  /\ server = "none" /\ timers = 0
  /\ conn = [c \in Conns |-> "new"]
  /\ arg = [c \in Conns |-> Null]
  /\ clients = [s \in Slots |-> Null]
  /\ record = [r \in Records |->
                 [tpcb |-> Null, reply |-> Null, retries |-> 0, errors |-> 0]]
  /\ lost = {}
  /\ quiet = Disturbances

-----------------------------------------------------------------------------
(* The world, and the shell's `modbus -r'.                                 *)

Disturb == quiet > 0 /\ quiet' = quiet - 1

Cable ==
  /\ Disturb
  /\ link' = ~ link
  /\ UNCHANGED <<netVars, modbusQ, task, server, timers, clientVars, lost>>

ResetCommand ==
  /\ Disturb
  /\ modbusQ' = Put(modbusQ, "UP", ModbusQueue)
  /\ UNCHANGED <<link, netVars, task, server, timers, clientVars, lost>>

-----------------------------------------------------------------------------
(* The network monitor.                                                    *)

\* timer_netmon_callback
NetmonTimer ==
  /\ Len(netQ) < NetQueue
  /\ netQ' = Append(netQ, "check")
  /\ UNCHANGED <<link, ethLink, retry, linkUp, netmon, modbusQ, task, server,
                 timers, clientVars, lost, quiet>>

NetmonTakes(e) ==
  /\ netmon = "idle" /\ netQ # << >> /\ Head(netQ) = e
  /\ netQ' = Tail(netQ)

NetmonUp ==
  /\ NetmonTakes("up")
  /\ linkUp' = TRUE
  /\ modbusQ' = Put(modbusQ, "UP", ModbusQueue)
  /\ lost' = IF Len(modbusQ) < ModbusQueue THEN lost ELSE lost \union {"modbus"}
  /\ UNCHANGED <<link, ethLink, retry, netmon, task, server, timers, clientVars,
                 quiet>>

NetmonDown ==
  /\ NetmonTakes("down")
  /\ linkUp' = FALSE
  /\ modbusQ' = Put(modbusQ, "CLOSE", ModbusQueue)
  /\ UNCHANGED <<link, ethLink, retry, netmon, task, server, timers, clientVars,
                 lost, quiet>>

NetmonTakesCheck ==
  /\ NetmonTakes("check")
  /\ netmon' = "check"
  /\ UNCHANGED <<link, ethLink, retry, linkUp, modbusQ, task, server, timers,
                 clientVars, lost, quiet>>

\* ETH_CheckLinkStatus: netif_set_link_up or _down, which call
\* netif_link_callback if that changes the flag.
NetmonReports(up) ==
  /\ ethLink' = up
  /\ linkUp' = up
  /\ IF linkUp = up
     THEN UNCHANGED <<netQ, lost>>
     ELSE /\ netQ' = Put(netQ, IF up THEN "up" ELSE "down", NetQueue)
          /\ lost' = IF up THEN Lose("net", netQ, NetQueue) ELSE lost

\* A cable that is out is reported once LinkRetry checks have found it out.
NetmonCheck ==
  /\ netmon = "check"
  /\ netmon' = "idle"
  /\ retry' = IF link \/ retry = 0 THEN LinkRetry ELSE retry - 1
  /\ IF link # ethLink /\ (link \/ retry = 0)
     THEN NetmonReports(link)
     ELSE UNCHANGED <<ethLink, linkUp, netQ, lost>>
  /\ UNCHANGED <<link, modbusQ, task, server, timers, clientVars, quiet>>

Netmon == NetmonUp \/ NetmonDown \/ NetmonTakesCheck \/ NetmonCheck

-----------------------------------------------------------------------------
(* Clients.                                                                *)

Registered(r) == \E s \in Slots : clients[s] = r

\* do_modbus_tcp_client_close of all records of R.  lwIP has freed the
\* connections of Dead; what is done to them has no effect here.
Close(R, Dead) ==
  LET closed == {c \in Conns : \E r \in R : record[r].tpcb = c}
  IN /\ conn' = [c \in Conns |-> IF c \in Dead THEN "gone"
                                 ELSE IF c \in closed THEN "closing" ELSE conn[c]]
     /\ arg' = [c \in Conns |-> IF c \in closed THEN Closed ELSE arg[c]]
     /\ clients' = [s \in Slots |-> IF clients[s] \in R THEN Null ELSE clients[s]]

SetRecord(r, fields) ==
  /\ record' = [record EXCEPT ![r] = fields]
  /\ UNCHANGED <<conn, arg, clients>>

\* modbus_tcp_accept_cb, from line 297.
Serve_Bug(c, s, r) ==
  /\ clients' = [clients EXCEPT ![s] = r]
  /\ record' = [record EXCEPT ![r].tpcb = c, ![r].retries = 0, ![r].errors = 0]

Serve(c, s, r) ==
  /\ clients' = [clients EXCEPT ![s] = r]
  /\ record' = [record EXCEPT ![r] =
                  [tpcb |-> c, reply |-> Null, retries |-> 0, errors |-> 0]]

First(S) == CHOOSE s \in S : \A t \in S : s <= t
FreeSlots == {s \in Slots : clients[s] = Null}
Reclaimable ==
  {s \in Slots \ FreeSlots : conn[record[clients[s]].tpcb] # "established"}

Accepts(c) ==
  /\ server = "listen" /\ conn[c] = "new"
  /\ UNCHANGED <<link, netVars, modbusQ, task, server, timers, lost, quiet>>

AcceptNew(c) ==
  /\ Accepts(c)
  /\ FreeSlots # {}
  /\ \E r \in Records :
       /\ ~ Registered(r)
       /\ Serve(c, First(FreeSlots), r)
       /\ conn' = [conn EXCEPT ![c] = "established"]
       /\ arg' = [arg EXCEPT ![c] = r]

\* The slots are full, or mem_malloc has failed.
AcceptReclaim(c) ==
  /\ Accepts(c)
  /\ Reclaimable # {}
  /\ LET s == First(Reclaimable)
         r == clients[s]
         old == record[r].tpcb
     IN /\ Serve(c, s, r)
        /\ conn' = [conn EXCEPT ![c] = "established", ![old] = "closing"]
        /\ arg' = [arg EXCEPT ![c] = r, ![old] = Closed]

\* lwIP aborts the connection.
AcceptRefuse(c) ==
  /\ Accepts(c)
  /\ Reclaimable = {}
  /\ conn' = [conn EXCEPT ![c] = "gone"]
  /\ UNCHANGED <<arg, clients, record>>

\* The handshake of this one does not end while the server listens: it holds the
\* port until lwIP gives it up.  (One whose handshake ends is accepted then.)
HalfOpen(c) ==
  /\ Accepts(c)
  /\ conn' = [conn EXCEPT ![c] = "closing"]
  /\ UNCHANGED <<arg, clients, record>>

\* modbus_tcp_recv_cb or modbus_tcp_poll_cb for a client that is not closed.
Callback(c) ==
  /\ arg[c] \in Records /\ conn[c] # "gone"
  /\ UNCHANGED <<link, netVars, modbusQ, task, server, timers, lost, quiet>>

\* A request is dropped while a reply is pending, or once the peer has closed.
Received(c) ==
  /\ Callback(c)
  /\ conn[c] = "established" /\ record[arg[c]].reply = Null

Answer(c) ==
  /\ Received(c)
  /\ SetRecord(arg[c], [record[arg[c]] EXCEPT !.retries = 0])

\* tcp_write has no memory.
AnswerFails(c) ==
  /\ Received(c)
  /\ SetRecord(arg[c], [record[arg[c]] EXCEPT !.reply = c, !.retries = 1])

BadRequest(c) ==
  /\ Received(c)
  /\ LET errors == record[arg[c]].errors + 1
     IN IF errors > ErrCount
        THEN Close({arg[c]}, {}) /\ UNCHANGED record
        ELSE SetRecord(arg[c], [record[arg[c]] EXCEPT !.errors = errors])

\* post_process_modbus_tcp_reply
Polled(c) == Callback(c) /\ record[arg[c]].reply # Null

PollAnswers(c) ==
  /\ Polled(c)
  /\ SetRecord(arg[c], [record[arg[c]] EXCEPT !.reply = Null])

PollFails(c) ==
  /\ Polled(c)
  /\ LET retries == record[arg[c]].retries + 1
     IN IF retries > Retry
        THEN Close({arg[c]}, {}) /\ UNCHANGED record
        ELSE SetRecord(arg[c], [record[arg[c]] EXCEPT !.retries = retries])

\* The peer's FIN changes the state of the connection, and lwIP then calls
\* back; one step in lwIP 2.1.2, on which the server does not rely.
RemoteCloses(c) ==
  /\ Callback(c)
  /\ conn[c] = "established"
  /\ conn' = [conn EXCEPT ![c] = "remote closed"]
  /\ UNCHANGED <<arg, clients, record>>

RecvClosed(c) ==
  /\ Callback(c)
  /\ conn[c] = "remote closed"
  /\ Close({arg[c]}, {})
  /\ UNCHANGED record

\* modbus_tcp_error_cb: reset by the peer, or given up by lwIP.
Error(c) ==
  /\ Callback(c)
  /\ Close({arg[c]}, {c})
  /\ UNCHANGED record

\* A closed connection, or half of one, holds the port until lwIP is done with it.
Ends(c) ==
  /\ conn[c] = "closing"
  /\ conn' = [conn EXCEPT ![c] = "gone"]
  /\ UNCHANGED <<link, netVars, modbusQ, task, server, timers, arg, clients,
                 record, lost, quiet>>

Accept(c) == AcceptNew(c) \/ AcceptReclaim(c) \/ AcceptRefuse(c) \/ HalfOpen(c)
Receive(c) == Answer(c) \/ AnswerFails(c) \/ BadRequest(c)
Poll(c) == PollAnswers(c) \/ PollFails(c)

-----------------------------------------------------------------------------
(* The server's task.                                                      *)

Take ==
  /\ task = "idle" /\ modbusQ # << >>
  /\ task' = Head(modbusQ)
  /\ modbusQ' = Tail(modbusQ)
  /\ UNCHANGED <<link, netVars, server, timers, clientVars, lost, quiet>>

PutClose ==
  /\ task = "UP"
  /\ task' = "UP2"
  /\ modbusQ' = Put(modbusQ, "CLOSE", ModbusQueue)
  /\ UNCHANGED <<link, netVars, server, timers, clientVars, lost, quiet>>

PutStart_Bug ==
  /\ task = "UP2"
  /\ task' = "idle"
  /\ modbusQ' = IF server = "none" THEN modbusQ     \* starts only what ran
                                   ELSE Put(modbusQ, "START", ModbusQueue)
  /\ lost' = Lose("modbus", modbusQ, ModbusQueue)
  /\ UNCHANGED <<link, netVars, server, timers, clientVars, quiet>>

PutStart ==
  /\ task = "UP2"
  /\ task' = "idle"
  /\ modbusQ' = Put(modbusQ, "START", ModbusQueue)
  /\ lost' = Lose("modbus", modbusQ, ModbusQueue)
  /\ UNCHANGED <<link, netVars, server, timers, clientVars, quiet>>

Starts ==
  /\ task = "START" /\ task' = "idle"
  /\ UNCHANGED <<link, netVars, modbusQ, clientVars, lost>>

\* tcp_bind finds a connection of the port's, or a socket that listens.
CanBind ==
  /\ server # "listen"
  /\ \A c \in Conns : conn[c] \in {"new", "gone"}

StartServer ==
  /\ Starts
  /\ CanBind
  /\ server' = "listen"
  /\ UNCHANGED <<timers, quiet>>

StartFails ==
  /\ Starts
  /\ ~ CanBind
  /\ server' = IF server = "none" THEN "new" ELSE server
  /\ timers' = timers + 1
  /\ UNCHANGED quiet

\* tcp_new_ip_type
StartNoMemory ==
  /\ Starts
  /\ server = "none"
  /\ Disturb
  /\ timers' = timers + 1
  /\ UNCHANGED server

\* sys_untimeout cancels one timer, if there is one.
Less(n, k) == IF n > k THEN n - k ELSE 0

CloseAll ==
  /\ task = "CLOSE" /\ task' = "idle"
  /\ timers' = Less(timers, 1)
  /\ Close({r \in Records : Registered(r)}, {})
  /\ server' = "none"
  /\ UNCHANGED <<link, netVars, modbusQ, record, lost, quiet>>

\* modbus_server_restart_timer; what it cancels is another one.
RestartTimer ==
  /\ timers > 0
  /\ IF Len(modbusQ) < ModbusQueue
     THEN /\ modbusQ' = Append(modbusQ, "START")
          /\ timers' = Less(timers, 2)
          /\ UNCHANGED lost
     ELSE /\ timers' = timers - 1
          /\ lost' = lost \union {"modbus"}
          /\ UNCHANGED modbusQ
  /\ UNCHANGED <<link, netVars, task, server, clientVars, quiet>>

Task ==
  \/ Take \/ PutClose \/ PutStart
  \/ StartServer \/ StartFails \/ StartNoMemory \/ CloseAll

-----------------------------------------------------------------------------

Finishes(c) == RecvClosed(c) \/ Ends(c)

ModbusNext ==
  \/ Cable \/ ResetCommand
  \/ NetmonTimer \/ Netmon
  \/ Task \/ RestartTimer
  \/ \E c \in Conns :
       Accept(c) \/ Receive(c) \/ Poll(c) \/ RemoteCloses(c) \/ Error(c) \/ Finishes(c)

Fairness ==
  /\ WF_modbusVars(NetmonTimer) /\ WF_modbusVars(Netmon)
  /\ WF_modbusVars(Task) /\ WF_modbusVars(RestartTimer)
  /\ \A c \in Conns : WF_modbusVars(Finishes(c))

ModbusSpec == ModbusInit /\ [][ModbusNext]_modbusVars /\ Fairness

-----------------------------------------------------------------------------
(* Properties.                                                             *)

\* A slot's record, that record's connection and what lwIP passes for it
\* agree: no callback gets a record that is freed or serves another.
SlotsAgree ==
  /\ \A s \in Slots : clients[s] # Null =>
       LET c == record[clients[s]].tpcb
       IN /\ arg[c] = clients[s]
          /\ conn[c] \in {"established", "remote closed"}
  /\ \A s, t \in Slots : clients[s] = clients[t] /\ clients[s] # Null => s = t
  /\ \A c \in Conns : arg[c] \in Records =>
       Registered(arg[c]) /\ record[arg[c]].tpcb = c

\* No connection is left that the server does not know.
AllKnown ==
  \A c \in Conns : conn[c] \in {"established", "remote closed"} =>
    arg[c] \in Records /\ server = "listen"

\* A reply that waits for memory answers the client it will be sent to.
RepliesToAsker ==
  \A r \in Records :
    Registered(r) /\ record[r].reply # Null => record[r].reply = record[r].tpcb

ClientsConsistent == SlotsAgree /\ AllKnown /\ RepliesToAsker

\* A start waits in the queue behind every close.
StartQueued ==
  \E i \in 1 .. Len(modbusQ) :
    /\ modbusQ[i] \in {"UP", "START"}
    /\ \A j \in i + 1 .. Len(modbusQ) : modbusQ[j] # "CLOSE"

CloseAhead ==
  task = "CLOSE" \/ \E i \in 1 .. Len(modbusQ) : modbusQ[i] = "CLOSE"

\* While the driver takes the cable for in, and no event is lost, somebody owes
\* the server a start, unless it listens and nobody is about to close it: the
\* monitor, the task, its queue or the restart timer.
StartOwed ==
  ethLink /\ lost = {} =>
    \/ \E i \in 1 .. Len(netQ) : netQ[i] = "up"
    \/ StartQueued
    \/ task \in {"UP", "UP2"}
    \/ ~ CloseAhead /\ (task = "START" \/ timers > 0 \/ server = "listen")

\* With the cable in for good and no event lost, the server listens for good:
\* whatever was reset, however long old connections hold the port.
Serves == <>[](link /\ lost = {}) => <>[](server = "listen")

=============================================================================
