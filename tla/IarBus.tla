------------------------------- MODULE IarBus -------------------------------
(***************************************************************************)
(* The virtual bus of libiarcontrol: a process that passes packets between *)
(* the clients that have called its socket (iar_bus.c: iar_bus_core and    *)
(* the commands ib_cm_...), and the client's side of a connection          *)
(* (iar_bus_client.c).                                                     *)
(*                                                                         *)
(* The bus is one loop around select().  A round cleans the list of        *)
(* devices, reads one packet of every client that has sent something,      *)
(* carries out what was read in the order of the list, and accepts a call. *)
(* Clients call, send, read and leave at any time.  Addresses are the sets *)
(* of their bits, as every test on them is a mask; a status is the set of  *)
(* its flags.  A packet is written whole or not at all.                    *)
(***************************************************************************)
EXTENDS Integers, Sequences, FiniteSets, SequencesExt

CONSTANTS
    Client, Null,
    Fd,             \* descriptors the bus process has free
    Room,           \* packets the system keeps for a client that does not read
    To,             \* addresses messages are sent to
    NewAddr,        \* addresses clients ask for
    NewStatus,      \* statuses clients ask for
    McastList,      \* lists of addresses clients set
    Overlap,        \* may a client call while another one is being removed?
    ShutdownEnabled,\* ib_cm_shutdown_enable_flag
    MaxSend         \* bound: the requests of each client

Address == SUBSET (0..11)

Mask == {"BCAST_ON", "READ", "WRITE", "CON_MSG"}        \* IB_DEV_MASK

\* What commands and their answers carry.
Data == {Null} \cup BOOLEAN \cup Address \cup NewStatus \cup (SUBSET Mask) \cup McastList

PacketType == [cmd : {"MESSAGE", "SET_ADDR", "SET_STATUS", "MCAST_LIST", "GET", "REMOVE",
                      "SHUTDOWN"},
               addr : Address, data : Data, from : Client, nbr : Nat]

ASSUME IarBusAssumption ==
    /\ Null \notin Client /\ Null \notin PacketType
    /\ IsFiniteSet(Fd) /\ Fd \subseteq 1..1023
    /\ IsFiniteSet(Client) /\ Cardinality(Client) <= Cardinality(Fd)
    /\ Room \in Nat \ {0} /\ MaxSend \in [Client -> Nat]
    /\ {Overlap, ShutdownEnabled} \subseteq BOOLEAN
    /\ To \subseteq Address /\ NewAddr \subseteq Address
    /\ \A l \in McastList : l \in Seq(Address \ {{}})    \* the null address ends a list

VARIABLES
    list,       \* the devices, the bus' own first; fd -1 stands for its socket
    table,      \* table[f]: the client at the other end of descriptor f, or Null
    phase,      \* "select" or "serve", in a round, or "closed"
    ringing,    \* select() has reported a call
    done,
    backlog,    \* calls the bus has not accepted
    where,      \* where[c]: "out", "in" (has called) or "left" (has closed its end)
    outbox,     \* outbox[c]: what c has sent and the bus has not read
    inbox,      \* inbox[c]: what the bus has sent and c has not read
    wait,       \* wait[c]: the request c waits for an answer to, or Null
    con,        \* clients that have asked for confirmations (IBFD_STATUS)
    sent,       \* sent[c]: requests c has sent
    slow        \* history: clients that did not read in time

bus  == <<list, table, phase, ringing, done>>
ends == <<backlog, where, outbox, wait, con, sent>>
vars == <<bus, ends, inbox, slow>>
-----------------------------------------------------------------------------
(* Addresses, statuses and packets                                         *)
DynFlag       == 10
MulticastFlag == 11
Base          == 6..9
BusAddr       == {DynFlag}
BroadcastAddr == 0..11

Power == <<1, 2, 4, 8, 16, 32, 64, 128, 256, 512>>
Bits(n) == {b \in 0..9 : (n \div Power[b + 1]) % 2 = 1}

\* set_ib_dev_addr for a new device: (IB_DYN_ADDR_FLAG | fd) & IB_DYN_MASK_ADDR.
DynAddr == [f \in Fd |-> {DynFlag} \cup Bits(f)]

\* Mutant: any address but the null address.
AnyAddr(a) == a # {}

\* IB_IS_VALID_FIX_ADDR
ValidFixAddr(a) == a # {} /\ a \subseteq 0..9

\* The test of find_ib_dev: does a message to a reach a device with address d?
Reaches(a, d) ==
    IF MulticastFlag \notin a THEN d = a
    ELSE IF DynFlag \in d THEN d \subseteq a
    ELSE d \cap Base \subseteq a

\* pk is the packet read and not yet carried out (IB_DEV_NEWPK), or Null.
Device(c, f, a, s) ==
    [of |-> c, fd |-> f, addr |-> a, status |-> s, mcast |-> Null, pk |-> Null]

Alive(d) == "ALIVE" \in d.status

\* from and nbr tell requests apart; an answer has those of its request.
Packet(cmd, a, data, c, n) ==
    [cmd |-> cmd, addr |-> a, data |-> data, from |-> c, nbr |-> n]

Request(c) ==
    LET Requests(cmd, A, D) == {Packet(cmd, a, d, c, sent[c] + 1) : a \in A, d \in D}
    IN  UNION { Requests("MESSAGE", To, {Null}),
                Requests("SET_ADDR", {BusAddr}, NewAddr),
                Requests("SET_STATUS", {BusAddr}, NewStatus),
                Requests("MCAST_LIST", {BusAddr}, McastList),
                Requests("GET", {BusAddr}, {Null}),
                Requests("REMOVE", {BusAddr}, {Null}),
                Requests("SHUTDOWN", {BusAddr}, {Null}) }

Init ==
    /\ list = <<Device(Null, -1, BusAddr, {"BCAST_ON", "ALIVE", "READ"})>>
    /\ table = [f \in Fd |-> Null]
    /\ phase = "select" /\ ringing = FALSE /\ done = FALSE
    /\ backlog = <<>>
    /\ where = [c \in Client |-> "out"]
    /\ outbox = [c \in Client |-> <<>>] /\ inbox = [c \in Client |-> <<>>]
    /\ wait = [c \in Client |-> Null]
    /\ con = {} /\ sent = [c \in Client |-> 0] /\ slow = {}
-----------------------------------------------------------------------------
(* The clients                                                             *)
Connected(c) == \E f \in Fd : table[f] = c

\* The bus has closed its end of c's connection.
Cut(c) == where[c] = "in" /\ ~Connected(c) /\ ~Contains(backlog, c)

Removed(d) == ~Alive(d) /\ d.fd # -1

\* A removal is on its way, or the removed device is still in the list.
Removing ==
    \/ \E c \in Client : \E k \in DOMAIN outbox[c] : outbox[c][k].cmd = "REMOVE"
    \/ \E i \in 2..Len(list) :
          Removed(list[i]) \/ (list[i].pk # Null /\ list[i].pk.cmd = "REMOVE")

\* ibus_client_connect
Call(c) ==
    /\ where[c] = "out" /\ phase # "closed"
    /\ Overlap \/ ~Removing
    /\ where' = [where EXCEPT ![c] = "in"]
    /\ backlog' = Append(backlog, c)
    /\ UNCHANGED <<bus, inbox, outbox, wait, con, sent, slow>>

\* Mutant: whether confirmations are on is not looked at.
AwaitsUnconfirmed(c, r, sync) ==
    r.cmd = "MESSAGE" => sync /\ r.addr # BroadcastAddr

\* A command waits for its answer; a message only when the client has
\* confirmations on, is not broadcasting and asks to wait (sync).
Awaits(c, r, sync) ==
    r.cmd = "MESSAGE" => sync /\ c \in con /\ r.addr # BroadcastAddr

\* ibus_send, and what ibus_exec_cmd and ibus_send_data_to_wflag do with it.
Send(c, r, sync) ==
    /\ where[c] = "in" /\ ~Cut(c) /\ wait[c] = Null /\ sent[c] < MaxSend[c]
    /\ r.cmd = "REMOVE" => Overlap \/ backlog = <<>>
    /\ sent' = [sent EXCEPT ![c] = @ + 1]
    /\ outbox' = [outbox EXCEPT ![c] = Append(@, r)]
    /\ wait' = [wait EXCEPT ![c] = IF Awaits(c, r, sync) THEN r ELSE Null]
    /\ con' = IF r.cmd # "SET_STATUS" THEN con
              ELSE IF "CON_MSG" \in r.data THEN con \cup {c} ELSE con \ {c}
    /\ UNCHANGED <<bus, inbox, backlog, where, slow>>

\* Mutant: the sender is not looked at.
AnswersAnybody(p, r) == p.cmd = r.cmd

\* The condition the loops around ibus_read end on.
Answers(p, r) == p.cmd = r.cmd /\ p.addr = BusAddr

\* ibus_read: what is not the answer is dropped by a client that waits for one.
Receive(c) ==
    /\ where[c] = "in" /\ inbox[c] # <<>>
    /\ inbox' = [inbox EXCEPT ![c] = Tail(@)]
    /\ wait' = IF wait[c] # Null /\ Answers(Head(inbox[c]), wait[c])
               THEN [wait EXCEPT ![c] = Null] ELSE wait
    /\ UNCHANGED <<bus, backlog, where, outbox, con, sent, slow>>

\* ibus_read returns 0.
ReadEnd(c) ==
    /\ wait[c] # Null /\ inbox[c] = <<>> /\ Cut(c)
    /\ wait' = [wait EXCEPT ![c] = Null]
    /\ UNCHANGED <<bus, inbox, backlog, where, outbox, con, sent, slow>>

\* ibus_client_close, or the end of the process.
Leave(c) ==
    /\ where[c] = "in"
    /\ where' = [where EXCEPT ![c] = "left"]
    /\ inbox' = [inbox EXCEPT ![c] = <<>>]
    /\ wait' = [wait EXCEPT ![c] = Null]
    /\ con' = con \ {c}
    /\ UNCHANGED <<bus, backlog, outbox, sent, slow>>
-----------------------------------------------------------------------------
(* Sending.  w is the part of the state a command changes, with ok, the    *)
(* result (ret) of sending.                                                *)

\* Mutant: nothing is closed.
NotClosed(t, f) == t

Closed(t, f) == [g \in Fd |-> IF g = f THEN Null ELSE t[g]]

\* Mutant: the device keeps the number of its descriptor.
DeadKeepsFd(d) == [d EXCEPT !.status = @ \ {"ALIVE"}]

\* What die_ib_dev leaves of a device.
Dead(d) == [d EXCEPT !.fd = -1, !.status = @ \ {"ALIVE"}]

Busy(d)  == [d EXCEPT !.status = @ \cup {"BUSY"}]
Ready(d) == [d EXCEPT !.status = @ \ {"BUSY"}]

\* die_ib_dev
Die(w, i) == [w EXCEPT !.list[i] = Dead(@), !.table = Closed(@, w.list[i].fd)]

\* What select() and write() in send_data_to_dev come to.  The listening
\* socket is never writable; on descriptor -1 the build of the Makefile waits
\* for nothing.  A client with no room left has 5 seconds to read.
Outcome(w, i) ==
    LET f == w.list[i].fd IN
    IF f = -1 THEN "late"
    ELSE IF w.table[f] = Null \/ where[w.table[f]] = "left" THEN "failed"
    ELSE IF Len(w.inbox[w.table[f]]) < Room THEN "sent"
    ELSE "late"

\* send_data_to_dev
Put(w, i, p) ==
    CASE Outcome(w, i) = "sent" ->
            [w EXCEPT !.inbox[w.table[w.list[i].fd]] = Append(@, p),
                      !.list[i] = Ready(@)]
      [] Outcome(w, i) = "late" ->
            [w EXCEPT !.list[i] = Busy(@), !.slow = @ \cup {w.list[i].of}]
      [] Outcome(w, i) = "failed" -> w

PutOrDie(w, i, p) ==
    IF Outcome(w, i) = "failed" THEN Die(w, i) ELSE Put(w, i, p)

\* The answer to device i's command, which fails unnoticed.
Reply(w, i, data) ==
    LET p == list[i].pk IN Put(w, i, Packet(p.cmd, BusAddr, data, p.from, p.nbr))

\* Mutant: a message has reached somebody until something fails.
SentSoFar == TRUE

NotSent == FALSE

Before == [list |-> list, table |-> table, inbox |-> inbox, slow |-> slow, ok |-> NotSent]

\* From device i to each device of the list.
ToAll(i) == [j \in DOMAIN list |-> [from |-> i, to |-> j]]

BroadcastTo(w, x) ==
    IF x.to = x.from \/ list[x.to].status \cap {"BCAST_ON", "ALIVE", "READ"} = {} THEN w
    ELSE PutOrDie(w, x.to, list[x.from].pk)

\* message_broadcast, with the packet as it was read.
Broadcast(i) == FoldLeft(BroadcastTo, Before, ToAll(i))

\* send_to_dev from device i to device j.  Nothing is sent to a device that is
\* neither alive nor reading, and that is no error.
SendTo(w, i, j) ==
    IF w.list[j].status \cap {"ALIVE", "READ"} = {} THEN [w EXCEPT !.ok = TRUE]
    ELSE [PutOrDie(w, j, [list[i].pk EXCEPT !.addr = list[i].addr])
             EXCEPT !.ok = Outcome(w, j) # "failed"]

\* One turn of each loop of ib_cm_message: the sender is passed over, and the
\* result is that of the last one; or the first device of an address of a
\* multicast list, and the result is that of any one.
SendToFound(w, x) ==
    IF Reaches(list[x.from].pk.addr, list[x.to].addr) /\ list[x.to].addr # list[x.from].addr
    THEN SendTo(w, x.from, x.to) ELSE w

Found(a) == {j \in DOMAIN list : Reaches(a, list[j].addr)}

SendToFirst(w, x) ==
    IF Found(x.to) = {} THEN w
    ELSE [SendTo(w, x.from, Min(Found(x.to))) EXCEPT !.ok = @ \/ w.ok]

\* ib_cm_message, not broadcast
Route(i) ==
    LET l == list[i].mcast
    IN  IF list[i].pk.addr = {MulticastFlag} /\ l # Null
        THEN FoldLeft(SendToFirst, Before, [k \in DOMAIN l |-> [from |-> i, to |-> l[k]]])
        ELSE FoldLeft(SendToFound, Before, ToAll(i))
-----------------------------------------------------------------------------
(* The commands, each for device i, whose turn it is; a command leaves the *)
(* clients' state alone.                                                   *)
Turn(i, cmd) ==
    /\ phase = "serve" /\ list[i].pk # Null /\ list[i].pk.cmd = cmd
    /\ \A j \in 2..(i - 1) : list[j].pk = Null
    /\ UNCHANGED <<phase, ringing, ends>>

Becomes(new, i) ==
    \E w \in {new} :
        /\ list' = [w.list EXCEPT ![i].pk = Null]
        /\ table' = w.table /\ inbox' = w.inbox /\ slow' = w.slow

Message(i) ==
    /\ Turn(i, "MESSAGE")
    /\ IF list[i].pk.addr = BroadcastAddr THEN Becomes(Broadcast(i), i)
       ELSE \E w \in {Route(i)} :
               Becomes(IF "CON_MSG" \in w.list[i].status THEN Reply(w, i, w.ok) ELSE w, i)
    /\ UNCHANGED done

\* Mutant: an address may be given twice.
Given(a) == FALSE

Taken(a) == \E j \in DOMAIN list : Reaches(a, list[j].addr)

SetAddr(i) ==
    /\ Turn(i, "SET_ADDR")
    /\ LET a   == list[i].pk.data
           new == IF ~ValidFixAddr(a) \/ Taken(a) THEN list[i].addr ELSE a
       IN  Becomes(Reply([Before EXCEPT !.list[i].addr = new], i, new), i)
    /\ UNCHANGED done

SetStatus(i) ==
    /\ Turn(i, "SET_STATUS")
    /\ LET s == list[i].pk.data \cap Mask
       IN  Becomes(Reply([Before EXCEPT !.list[i].status = (@ \ Mask) \cup s], i, s), i)
    /\ UNCHANGED done

\* ib_cm_get_status, ib_cm_get_addr and ib_cm_who
Get(i) ==
    /\ Turn(i, "GET")
    /\ Becomes(Reply(Before, i, Null), i)
    /\ UNCHANGED done

SetMcastList(i) ==
    /\ Turn(i, "MCAST_LIST")
    /\ Becomes(Reply([Before EXCEPT !.list[i].mcast = list[i].pk.data], i, Null), i)
    /\ UNCHANGED done

\* The descriptor is closed, and its number stays in the device.
RemoveDevice(i) ==
    /\ Turn(i, "REMOVE")
    /\ LET w == Reply(Before, i, Null)
       IN  Becomes([w EXCEPT !.list[i].status = @ \ {"BCAST_ON", "ALIVE"},
                             !.table = Closed(@, w.list[i].fd)], i)
    /\ UNCHANGED done

Shutdown(i) ==
    /\ Turn(i, "SHUTDOWN")
    /\ done' = (done \/ ShutdownEnabled)
    /\ Becomes(Reply(IF ShutdownEnabled THEN Broadcast(i) ELSE Before, i, Null), i)

Command(i) ==
    \/ Message(i) \/ SetAddr(i) \/ SetStatus(i) \/ Get(i) \/ SetMcastList(i)
    \/ RemoveDevice(i) \/ Shutdown(i)
-----------------------------------------------------------------------------
(* The round of iar_bus_core                                               *)

KeepAlive(s, d) == IF Alive(d) THEN Append(s, d) ELSE s

\* After a round with devices l, descriptors t and calls b: the loop ends when
\* done, and everything is closed; or devices that are not alive are freed, and
\* free_ib_dev closes their descriptor, whatever it has come to be.
NextRound(l, t, b) ==
    IF done
    THEN phase' = "closed" /\ table' = [f \in Fd |-> Null] /\ backlog' = <<>> /\ list' = l
    ELSE /\ phase' = "select" /\ backlog' = b
         /\ list' = FoldLeft(KeepAlive, <<>>, l)
         /\ table' = [f \in Fd |-> IF \E i \in 2..Len(l) : Removed(l[i]) /\ l[i].fd = f
                                   THEN Null ELSE t[f]]

Caller(i) == table[list[i].fd]

Ended(c) == where[c] = "left" /\ outbox[c] = <<>>

\* select() and read_cm_from_dev: one packet of every client that has sent
\* something; at the end of a connection the device dies.  What select() does
\* about the closed descriptor of a live device is not modelled.
Select ==
    /\ phase = "select"
    /\ \A i \in 2..Len(list) : Caller(i) # Null
    /\ backlog # <<>> \/ \E i \in 2..Len(list) : outbox[Caller(i)] # <<>> \/ Ended(Caller(i))
    /\ list' = [i \in DOMAIN list |->
                   IF i = 1 THEN list[i]
                   ELSE IF Ended(Caller(i)) THEN Dead(list[i])
                   ELSE IF outbox[Caller(i)] = <<>> THEN list[i]
                   ELSE [list[i] EXCEPT !.pk = Head(outbox[Caller(i)])]]
    /\ table' = [f \in Fd |-> IF table[f] # Null /\ Ended(table[f]) THEN Null ELSE table[f]]
    /\ outbox' = [c \in Client |-> IF Connected(c) /\ outbox[c] # <<>>
                                   THEN Tail(outbox[c]) ELSE outbox[c]]
    /\ ringing' = (backlog # <<>>)
    /\ phase' = "serve"
    /\ UNCHANGED <<done, backlog, where, wait, con, sent, inbox, slow>>

Served == phase = "serve" /\ \A i \in 2..Len(list) : list[i].pk = Null

\* accept() gives the lowest descriptor that is free.
Accept ==
    /\ Served /\ ringing
    /\ \E f \in Fd :
          /\ table[f] = Null /\ \A g \in Fd : g < f => table[g] # Null
          /\ NextRound(Append(list, Device(Head(backlog), f, DynAddr[f],
                                           {"READ", "WRITE", "ALIVE"})),
                       [table EXCEPT ![f] = Head(backlog)], Tail(backlog))
    /\ ringing' = FALSE
    /\ UNCHANGED <<done, where, outbox, wait, con, sent, inbox, slow>>

NoCall ==
    /\ Served /\ ~ringing
    /\ NextRound(list, table, backlog)
    /\ UNCHANGED <<ringing, done, where, outbox, wait, con, sent, inbox, slow>>

Round == \/ Select \/ Accept \/ NoCall
         \/ \E i \in 2..Len(list) : Command(i)

Await(c) == (wait[c] # Null /\ Receive(c)) \/ ReadEnd(c)

ClientStep(c) ==
    \/ Call(c) \/ Receive(c) \/ ReadEnd(c) \/ Leave(c)
    \/ \E r \in Request(c), sync \in BOOLEAN : Send(c, r, sync)

Next == Round \/ \E c \in Client : ClientStep(c)

Spec == Init /\ [][Next]_vars

\* The bus goes on, and a client that waits for an answer reads.
FairSpec == Spec /\ WF_vars(Round) /\ \A c \in Client : WF_vars(Await(c))
-----------------------------------------------------------------------------
(* Properties                                                              *)

\* No client has the null address, that of the bus or one with the multicast
\* flag; a buffer holds no more than it can.
TypeOK ==
    /\ phase \in {"select", "serve", "closed"}
    /\ {ringing, done} \subseteq BOOLEAN
    /\ table \in [Fd -> Client \cup {Null}]
    /\ where \in [Client -> {"out", "in", "left"}]
    /\ con \subseteq Client /\ slow \subseteq Client \cup {Null}
    /\ \A c \in Client : Len(inbox[c]) <= Room
    /\ \A i \in DOMAIN list :
          /\ list[i].fd \in Fd \cup {-1}
          /\ list[i].status \subseteq Mask \cup {"ALIVE", "BUSY"}
          /\ IF i = 1 THEN list[i].addr = BusAddr
             ELSE list[i].addr \subseteq 0..10 /\ list[i].addr \notin {{}, BusAddr}

\* No two live devices have the same address, so that a message to an address
\* without the multicast flag has one receiver (find_ib_dev in ib_cm_set_addr).
UniqueAddress ==
    \A i, j \in DOMAIN list :
        i # j /\ Alive(list[i]) /\ Alive(list[j]) => list[i].addr # list[j].addr

\* The descriptor of a live device is open, and is the connection of the client
\* the device was made for: no close in the loop takes another device's number.
KeptConnection ==
    phase # "closed" =>
        \A i \in 2..Len(list) : Alive(list[i]) => table[list[i].fd] = list[i].of

\* Every open descriptor is that of a device in the list: none is lost, however
\* a client goes away (die_ib_dev, ib_cm_remove, free_ib_dev).
NoLeak ==
    \A f \in Fd : table[f] # Null => \E i \in 2..Len(list) : list[i].fd = f

\* What ends a client's wait is the answer to one of its own requests, and to
\* the very one it waits for unless that is a message: a confirmation may be
\* that of an earlier message it did not wait for.  (The shutdown of another
\* client looks like the answer to one's own.)
OwnAnswer ==
    \A c \in Client : wait[c] # Null =>
        \A k \in DOMAIN inbox[c] :
            LET p == inbox[c][k] IN
            Answers(p, wait[c]) /\ p.cmd # "SHUTDOWN" =>
                p.from = c /\ (p.nbr = wait[c].nbr \/ p.cmd = "MESSAGE")

\* When the bus confirms a message, that step has given the message to some
\* client, unless one it was meant for does not read or has gone
\* (ib_cm_message: ret, send_to_dev).
Confirmed ==
    [][ \A c \in Client : \A k \in DOMAIN inbox'[c] :
          LET p == inbox'[c][k] IN
          k > Len(inbox[c]) /\ p.cmd = "MESSAGE" /\ p.addr = BusAddr /\ p.data = TRUE =>
              \/ \E d \in Client : \E m \in DOMAIN inbox'[d] :
                    inbox'[d][m].from = p.from /\ inbox'[d][m].nbr = p.nbr /\ inbox'[d][m].addr # BusAddr
              \/ \E i \in DOMAIN list' : "BUSY" \in list'[i].status \/ ~Alive(list'[i]) ]_vars

\* A client that waits for an answer gets it, or learns that the bus has gone,
\* unless it once did not read in time: an answer the bus has then dropped is
\* never sent again (send_data_to_dev).
Answered ==
    \A c \in Client : wait[c] # Null ~> wait[c] = Null \/ c \in slow
=============================================================================
