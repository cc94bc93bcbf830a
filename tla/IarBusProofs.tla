---------------------------- MODULE IarBusProofs ----------------------------
(***************************************************************************)
(* IarBus: devices, descriptors and addresses belong together, an answer   *)
(* is the client's own, a message is confirmed only when it has been sent, *)
(* and no connection is lost unless calls and removals overlap, for every  *)
(* set of clients, descriptors, addresses, statuses and address lists.     *)
(*                                                                         *)
(* What a loop over the devices does is proved by induction over its turns *)
(* (FoldProofs); what every command does is stated in terms of the         *)
(* variables (CommandStep), and the invariants are proved from the steps.  *)
(***************************************************************************)
EXTENDS IarBus, SequenceTheorems, TLAPS

Peer       == Client \cup {Null}
StatusType == SUBSET (Mask \cup {"ALIVE", "BUSY"})

RequestType == {p \in PacketType : p.cmd = "MCAST_LIST" => p.data \in McastList}

DeviceType == [of : Peer, fd : Fd \cup {-1}, addr : Address, status : StatusType,
               mcast : McastList \cup {Null}, pk : RequestType \cup {Null}]

BusType == [list : Seq(DeviceType), table : [Fd -> Peer], inbox : [Client -> Seq(PacketType)],
            slow : SUBSET Peer, ok : BOOLEAN]

\* What is at the other end of a descriptor, if anything, is a client.
LEMMA NullPeer == Null \in Peer /\ \A c \in Peer : c # Null => c \in Client
BY DEF Peer

\* The descriptors of the bus process are positive: -1 is none of them.
LEMMA NoFd == -1 \notin Fd /\ \A f \in Fd : f \in Nat /\ f # -1
BY IarBusAssumption

-----------------------------------------------------------------------------
(* Sending.                                                                *)

\* Device d after the sending of some packets: as it was but for BUSY, or dead.
AsBefore(d, e) == e.fd = d.fd /\ (Alive(e) <=> Alive(d))
HasDied(d, e)  == d.fd # -1 /\ e.fd = -1 /\ ~Alive(e)

\* The fields of a device.
LEMMA DeviceFields ==
    ASSUME NEW d \in DeviceType
    PROVE  /\ d.of \in Peer /\ d.fd \in Fd \cup {-1} /\ d.addr \in Address
           /\ d.status \in StatusType /\ d.mcast \in McastList \cup {Null}
           /\ d.pk \in RequestType \cup {Null}
BY DEF DeviceType

\* Another status leaves the rest of a device as it was.
LEMMA StatusChange ==
    ASSUME NEW d \in DeviceType, NEW s \in StatusType, NEW e, e = [d EXCEPT !.status = s]
    PROVE  /\ e \in DeviceType /\ e.status = s
           /\ e.of = d.of /\ e.fd = d.fd /\ e.addr = d.addr /\ e.mcast = d.mcast /\ e.pk = d.pk
BY DEF DeviceType

\* What die_ib_dev leaves of a device: its address, but no descriptor.
LEMMA DeadIs ==
    ASSUME NEW d \in DeviceType
    PROVE  /\ Dead(d) \in DeviceType
           /\ Dead(d).of = d.of /\ Dead(d).addr = d.addr
           /\ Dead(d).mcast = d.mcast /\ Dead(d).pk = d.pk
           /\ Dead(d).fd = -1 /\ ~Alive(Dead(d))
BY DEF DeviceType, Dead, Alive, StatusType

\* The fields of the state a command changes.
LEMMA BusFields ==
    ASSUME NEW w \in BusType
    PROVE  /\ w.list \in Seq(DeviceType) /\ w.table \in [Fd -> Peer]
           /\ w.inbox \in [Client -> Seq(PacketType)]
           /\ w.slow \in SUBSET Peer /\ w.ok \in BOOLEAN
BY DEF BusType

\* Closing a descriptor leaves a table of descriptors.
LEMMA ClosedType ==
    ASSUME NEW t \in [Fd -> Peer], NEW f
    PROVE  Closed(t, f) \in [Fd -> Peer]
BY DEF Closed, Peer

\* The three outcomes of sending to device j, as records.
PutSent(w, j, p, c) ==
    [list  |-> [w.list EXCEPT ![j] = Ready(@)],
     table |-> w.table, inbox |-> [w.inbox EXCEPT ![c] = Append(@, p)],
     slow  |-> w.slow, ok |-> w.ok]

PutLate(w, j) ==
    [list  |-> [w.list EXCEPT ![j] = Busy(@)],
     table |-> w.table, inbox |-> w.inbox,
     slow  |-> w.slow \cup {w.list[j].of}, ok |-> w.ok]

DieAs(w, j) ==
    [list  |-> [w.list EXCEPT ![j] = Dead(@)],
     table |-> Closed(w.table, w.list[j].fd), inbox |-> w.inbox,
     slow  |-> w.slow, ok |-> w.ok]

\* Sending has one of three outcomes; only a client with room is written to.
LEMMA OutcomeIs ==
    ASSUME NEW w \in BusType, NEW j \in 1..Len(w.list)
    PROVE  /\ Outcome(w, j) \in {"sent", "late", "failed"}
           /\ Outcome(w, j) # "late" => w.list[j].fd \in Fd
           /\ Outcome(w, j) = "sent" =>
                 w.table[w.list[j].fd] \in Client /\ Len(w.inbox[w.table[w.list[j].fd]]) < Room
<1>1. w.list[j] \in DeviceType
  BY BusFields
<1>2. w.list[j].fd \in Fd \cup {-1}
  BY <1>1, DeviceFields
<1>3. \A f \in Fd : w.table[f] \in Peer
  BY BusFields
<1>. QED
  BY <1>2, <1>3, NullPeer DEF Outcome

\* send_data_to_dev and die_ib_dev, outcome by outcome.
LEMMA PutIs ==
    ASSUME NEW w \in BusType, NEW j \in 1..Len(w.list), NEW p
    PROVE  /\ Outcome(w, j) = "sent" => Put(w, j, p) = PutSent(w, j, p, w.table[w.list[j].fd])
           /\ Outcome(w, j) = "late" => Put(w, j, p) = PutLate(w, j)
           /\ Outcome(w, j) = "failed" => Put(w, j, p) = w
           /\ Die(w, j) = DieAs(w, j)
<1>1. /\ w = [list |-> w.list, table |-> w.table, inbox |-> w.inbox, slow |-> w.slow, ok |-> w.ok]
  BY DEF BusType
<1>2. ASSUME Outcome(w, j) = "sent" PROVE Put(w, j, p) = PutSent(w, j, p, w.table[w.list[j].fd])
  <2>1. Put(w, j, p) = [w EXCEPT !.inbox[w.table[w.list[j].fd]] = Append(@, p), !.list[j] = Ready(@)]
    BY <1>2 DEF Put
  <2>. QED
    BY <1>1, <2>1 DEF PutSent
<1>3. ASSUME Outcome(w, j) = "late" PROVE Put(w, j, p) = PutLate(w, j)
  <2>1. Put(w, j, p) = [w EXCEPT !.list[j] = Busy(@), !.slow = @ \cup {w.list[j].of}]
    BY <1>3 DEF Put
  <2>. QED
    BY <1>1, <2>1 DEF PutLate
<1>4. ASSUME Outcome(w, j) = "failed" PROVE Put(w, j, p) = w
  BY <1>4 DEF Put
<1>5. Die(w, j) = DieAs(w, j)
  <2>1. PICK d, t : d = Dead(w.list[j]) /\ t = Closed(w.table, w.list[j].fd)
    OBVIOUS
  <2>2. Die(w, j) = [w EXCEPT !.list[j] = d, !.table = t]
    BY <2>1 DEF Die
  <2>. QED
    BY <1>1, <2>1, <2>2 DEF DieAs
<1>. QED
  BY <1>2, <1>3, <1>4, <1>5

\* The devices and descriptors of w after the sending of packets, v.
SameOwner(d, e) == e.of = d.of /\ e.addr = d.addr /\ e.mcast = d.mcast /\ e.pk = d.pk

DevicesKept(w, v) ==
    /\ Len(v.list) = Len(w.list)
    /\ \A k \in 1..Len(w.list) :
          /\ SameOwner(w.list[k], v.list[k])
          /\ \/ AsBefore(w.list[k], v.list[k])
             \/ HasDied(w.list[k], v.list[k]) /\ v.table[w.list[k].fd] = Null

TableKept(w, v) ==
    \A f \in Fd :
       \/ v.table[f] = w.table[f]
       \/ v.table[f] = Null /\ \E k \in 1..Len(w.list) : w.list[k].fd = f /\ v.list[k].fd = -1

\* p has been sent, to anybody.
Grown(p, m, n) ==
    \A c \in Client :
       /\ Len(m[c]) <= Len(n[c])
       /\ n[c] = m[c] \/ Len(n[c]) <= Room
       /\ \A k \in 1..Len(n[c]) : n[c][k] = IF k <= Len(m[c]) THEN m[c][k] ELSE p

Delivered(p, w, v) == DevicesKept(w, v) /\ TableKept(w, v) /\ Grown(p, w.inbox, v.inbox)

\* The flag IB_DEV_BUSY is all that sending changes of a device.
LEMMA ReadyIs ==
    ASSUME NEW d \in DeviceType
    PROVE  /\ Ready(d) \in DeviceType /\ SameOwner(d, Ready(d)) /\ AsBefore(d, Ready(d))
           /\ Busy(d) \in DeviceType /\ SameOwner(d, Busy(d)) /\ AsBefore(d, Busy(d))
           /\ "BUSY" \in Busy(d).status
<1>1. d.status \ {"BUSY"} \in StatusType /\ d.status \cup {"BUSY"} \in StatusType
  BY DeviceFields DEF StatusType
<1>2. /\ Ready(d) \in DeviceType /\ Ready(d).status = d.status \ {"BUSY"}
      /\ SameOwner(d, Ready(d)) /\ Ready(d).fd = d.fd
  BY <1>1, StatusChange DEF Ready, SameOwner
<1>3. /\ Busy(d) \in DeviceType /\ Busy(d).status = d.status \cup {"BUSY"}
      /\ SameOwner(d, Busy(d)) /\ Busy(d).fd = d.fd
  BY <1>1, StatusChange DEF Busy, SameOwner
<1>. QED
  BY <1>2, <1>3 DEF AsBefore, Alive

\* Another device in place j of a list.
LEMMA Replaced ==
    ASSUME NEW l \in Seq(DeviceType), NEW j \in 1..Len(l), NEW e \in DeviceType
    PROVE  /\ [l EXCEPT ![j] = e] \in Seq(DeviceType)
           /\ Len([l EXCEPT ![j] = e]) = Len(l)
           /\ [l EXCEPT ![j] = e][j] = e
           /\ \A k \in 1..Len(l) : k # j => [l EXCEPT ![j] = e][k] = l[k]
OBVIOUS

\* A device that only its BUSY flag changes of.
LEMMA KeptByFlag ==
    ASSUME NEW w \in BusType, NEW v \in BusType, NEW u \in BusType,
           DevicesKept(w, v), TableKept(w, v),
           NEW j \in 1..Len(v.list), NEW e \in DeviceType,
           SameOwner(v.list[j], e), AsBefore(v.list[j], e),
           u.list = [v.list EXCEPT ![j] = e], u.table = v.table
    PROVE  DevicesKept(w, u) /\ TableKept(w, u)
<1>1. /\ Len(u.list) = Len(v.list) /\ u.list[j] = e
      /\ \A k \in 1..Len(v.list) : k # j => u.list[k] = v.list[k]
  BY BusFields, Replaced
<1>2. Len(v.list) = Len(w.list)
  BY DEF DevicesKept
<1>3. ASSUME NEW k \in 1..Len(w.list)
      PROVE  /\ SameOwner(w.list[k], u.list[k])
             /\ \/ AsBefore(w.list[k], u.list[k])
                \/ HasDied(w.list[k], u.list[k]) /\ u.table[w.list[k].fd] = Null
             /\ v.list[k].fd = -1 => u.list[k].fd = -1
  <2>0. /\ SameOwner(w.list[k], v.list[k])
        /\ \/ AsBefore(w.list[k], v.list[k])
           \/ HasDied(w.list[k], v.list[k]) /\ v.table[w.list[k].fd] = Null
    BY DEF DevicesKept
  <2>1. CASE k = j
    <3>1. SameOwner(w.list[k], e)
      BY <2>0, <2>1 DEF SameOwner
    <3>2. AsBefore(w.list[k], v.list[k]) => AsBefore(w.list[k], e)
      BY <2>1 DEF AsBefore
    <3>3. HasDied(w.list[k], v.list[k]) => HasDied(w.list[k], e)
      BY <2>1 DEF AsBefore, HasDied
    <3>4. v.list[k].fd = -1 => e.fd = -1
      BY <2>1 DEF AsBefore
    <3>. QED
      BY <1>1, <2>0, <2>1, <3>1, <3>2, <3>3, <3>4
  <2>2. CASE k # j
    BY <1>1, <1>2, <2>0, <2>2
  <2>. QED
    BY <2>1, <2>2
<1>4. DevicesKept(w, u)
  BY <1>1, <1>2, <1>3 DEF DevicesKept
<1>5. TableKept(w, u)
  BY <1>3 DEF TableKept
<1>. QED
  BY <1>4, <1>5

\* A device that dies, its descriptor closed.
LEMMA KeptByDeath ==
    ASSUME NEW w \in BusType, NEW v \in BusType, NEW u \in BusType,
           DevicesKept(w, v), TableKept(w, v),
           NEW j \in 1..Len(v.list), v.list[j].fd \in Fd,
           u.list = [v.list EXCEPT ![j] = Dead(@)], u.table = Closed(v.table, v.list[j].fd)
    PROVE  DevicesKept(w, u) /\ TableKept(w, u)
<1>0. PICK d \in DeviceType : d = v.list[j]
  BY BusFields
<1>e. PICK e \in DeviceType : e = Dead(d)
  BY DeadIs
<1>1. /\ Len(u.list) = Len(v.list) /\ u.list[j] = e
      /\ \A k \in 1..Len(v.list) : k # j => u.list[k] = v.list[k]
  BY <1>0, <1>e, BusFields, Replaced
<1>2. Len(v.list) = Len(w.list)
  BY DEF DevicesKept
<1>3. \A f \in Fd : u.table[f] = IF f = d.fd THEN Null ELSE v.table[f]
  BY <1>0 DEF Closed
<1>4. d.fd # -1 /\ SameOwner(d, e) /\ e.fd = -1 /\ ~Alive(e)
  BY <1>0, <1>e, NoFd, DeadIs DEF SameOwner
<1>5. ASSUME NEW k \in 1..Len(w.list)
      PROVE  /\ SameOwner(w.list[k], u.list[k])
             /\ \/ AsBefore(w.list[k], u.list[k])
                \/ HasDied(w.list[k], u.list[k]) /\ u.table[w.list[k].fd] = Null
             /\ v.list[k].fd = -1 => u.list[k].fd = -1
  <2>0. /\ SameOwner(w.list[k], v.list[k])
        /\ \/ AsBefore(w.list[k], v.list[k])
           \/ HasDied(w.list[k], v.list[k]) /\ v.table[w.list[k].fd] = Null
    BY DEF DevicesKept
  <2>w. w.list[k].fd \in Fd \cup {-1}
    BY BusFields, DeviceFields
  <2>1. CASE k = j
    <3>1. w.list[k].fd = d.fd
      BY <1>0, <1>4, <2>0, <2>1 DEF AsBefore, HasDied
    <3>2. u.table[d.fd] = Null
      BY <1>0, <1>3
    <3>3. SameOwner(w.list[k], e)
      BY <1>0, <1>4, <2>0, <2>1 DEF SameOwner
    <3>. QED
      BY <1>1, <1>4, <2>1, <3>1, <3>2, <3>3 DEF HasDied
  <2>2. CASE k # j
    <3>1. HasDied(w.list[k], v.list[k]) => w.list[k].fd \in Fd
      BY <2>w DEF HasDied
    <3>. QED
      BY <1>1, <1>2, <1>3, <2>0, <2>2, <3>1
  <2>. QED
    BY <2>1, <2>2
<1>6. DevicesKept(w, u)
  BY <1>1, <1>2, <1>5 DEF DevicesKept
<1>7. ASSUME NEW f \in Fd
      PROVE  \/ u.table[f] = w.table[f]
             \/ u.table[f] = Null /\ \E k \in 1..Len(w.list) : w.list[k].fd = f /\ u.list[k].fd = -1
  <2>1. CASE f = d.fd
    <3>1. j \in 1..Len(w.list) /\ u.list[j].fd = -1
      BY <1>1, <1>2, <1>4
    <3>2. w.list[j].fd = d.fd
      BY <1>0, <1>4, <3>1 DEF DevicesKept, AsBefore, HasDied
    <3>. QED
      BY <1>3, <2>1, <3>1, <3>2
  <2>2. CASE f # d.fd
    BY <1>3, <1>5, <2>2 DEF TableKept
  <2>. QED
    BY <2>1, <2>2
<1>. QED
  BY <1>6, <1>7 DEF TableKept

\* One more device has been sent the packet, or has died.
LEMMA PutOrDieDelivers ==
    ASSUME NEW w \in BusType, NEW v \in BusType, NEW p \in PacketType,
           NEW j \in 1..Len(v.list), Delivered(p, w, v)
    PROVE  /\ PutOrDie(v, j, p) \in BusType /\ Delivered(p, w, PutOrDie(v, j, p))
           /\ PutOrDie(v, j, p).ok = v.ok
<1>0. PICK d \in DeviceType : d = v.list[j]
  BY BusFields
<1>1. CASE Outcome(v, j) = "sent"
  <2>1. PICK c \in Client : c = v.table[d.fd] /\ Len(v.inbox[c]) < Room
    BY <1>0, <1>1, OutcomeIs
  <2>2. PICK u : u = PutSent(v, j, p, c)
    OBVIOUS
  <2>3. PutOrDie(v, j, p) = u
    BY <1>0, <1>1, <2>1, <2>2, PutIs DEF PutOrDie
  <2>4. /\ u.list = [v.list EXCEPT ![j] = Ready(d)] /\ u.table = v.table
        /\ u.inbox = [v.inbox EXCEPT ![c] = Append(@, p)] /\ u.ok = v.ok
    BY <1>0, <2>2 DEF PutSent
  <2>5. u \in BusType
    <3>1. u.list \in Seq(DeviceType)
      BY <2>4, ReadyIs, Replaced, BusFields
    <3>2. u.inbox \in [Client -> Seq(PacketType)]
      BY <2>4, BusFields
    <3>. QED
      BY <2>2, <3>1, <3>2, BusFields DEF PutSent, BusType
  <2>6. DevicesKept(w, u) /\ TableKept(w, u)
    BY <1>0, <2>4, <2>5, ReadyIs, KeptByFlag DEF Delivered
  <2>7. Grown(p, w.inbox, u.inbox)
    <3>. SUFFICES ASSUME NEW b \in Client
                  PROVE  /\ Len(w.inbox[b]) <= Len(u.inbox[b])
                         /\ u.inbox[b] = w.inbox[b] \/ Len(u.inbox[b]) <= Room
                         /\ \A k \in 1..Len(u.inbox[b]) :
                               u.inbox[b][k] = IF k <= Len(w.inbox[b]) THEN w.inbox[b][k] ELSE p
      BY DEF Grown
    <3>1. /\ Len(w.inbox[b]) <= Len(v.inbox[b])
          /\ v.inbox[b] = w.inbox[b] \/ Len(v.inbox[b]) <= Room
          /\ \A k \in 1..Len(v.inbox[b]) :
                v.inbox[b][k] = IF k <= Len(w.inbox[b]) THEN w.inbox[b][k] ELSE p
      BY DEF Delivered, Grown
    <3>2. CASE b = c
      <4>1. PICK m \in Seq(PacketType), n \in Seq(PacketType) : m = w.inbox[b] /\ n = v.inbox[b]
        BY BusFields
      <4>2. u.inbox[b] = Append(n, p) /\ Len(n) < Room /\ Room \in Nat
        BY <2>1, <2>4, <3>2, <4>1, BusFields, IarBusAssumption
      <4>3. Len(Append(n, p)) = Len(n) + 1 /\ Append(n, p)[Len(n) + 1] = p
            /\ \A k \in 1..Len(n) : Append(n, p)[k] = n[k]
        OBVIOUS
      <4>4. Len(m) <= Len(n) /\ Len(m) \in Nat /\ Len(n) \in Nat
            /\ \A k \in 1..Len(n) : n[k] = IF k <= Len(m) THEN m[k] ELSE p
        BY <3>1, <4>1
      <4>5. \A k \in 1..Len(n) + 1 : Append(n, p)[k] = IF k <= Len(m) THEN m[k] ELSE p
        BY <4>3, <4>4
      <4>. QED
        BY <4>1, <4>2, <4>3, <4>4, <4>5
    <3>3. CASE b # c
      BY <2>4, <3>1, <3>3, BusFields
    <3>. QED
      BY <3>2, <3>3
  <2>. QED
    BY <2>3, <2>4, <2>5, <2>6, <2>7 DEF Delivered
<1>2. CASE Outcome(v, j) = "late"
  <2>2. PICK u : u = PutLate(v, j)
    OBVIOUS
  <2>3. PutOrDie(v, j, p) = u
    BY <1>2, <2>2, PutIs DEF PutOrDie
  <2>4. /\ u.list = [v.list EXCEPT ![j] = Busy(d)] /\ u.table = v.table
        /\ u.inbox = v.inbox /\ u.ok = v.ok
    BY <1>0, <2>2 DEF PutLate
  <2>5. u \in BusType
    <3>1. u.list \in Seq(DeviceType)
      BY <2>4, ReadyIs, Replaced, BusFields
    <3>2. u.slow \in SUBSET Peer
      BY <1>0, <2>2, BusFields, DeviceFields DEF PutLate
    <3>. QED
      BY <2>2, <3>1, <3>2, BusFields DEF PutLate, BusType
  <2>6. DevicesKept(w, u) /\ TableKept(w, u)
    BY <1>0, <2>4, <2>5, ReadyIs, KeptByFlag DEF Delivered
  <2>. QED
    BY <2>3, <2>4, <2>5, <2>6 DEF Delivered
<1>3. CASE Outcome(v, j) = "failed"
  <2>2. PICK u : u = DieAs(v, j)
    OBVIOUS
  <2>3. PutOrDie(v, j, p) = u
    BY <1>3, <2>2, PutIs DEF PutOrDie
  <2>4. /\ u.list = [v.list EXCEPT ![j] = Dead(@)] /\ u.table = Closed(v.table, v.list[j].fd)
        /\ u.inbox = v.inbox /\ u.ok = v.ok
    BY <2>2 DEF DieAs
  <2>5. u \in BusType
    <3>1. u.list \in Seq(DeviceType)
      BY <1>0, <2>4, DeadIs, Replaced, BusFields
    <3>2. u.table \in [Fd -> Peer]
      BY <2>4, BusFields, ClosedType
    <3>. QED
      BY <2>2, <3>1, <3>2, BusFields DEF DieAs, BusType
  <2>6. v.list[j].fd \in Fd
    BY <1>3, OutcomeIs
  <2>7. DevicesKept(w, u) /\ TableKept(w, u)
    BY <2>4, <2>5, <2>6, KeptByDeath DEF Delivered
  <2>. QED
    BY <2>3, <2>4, <2>5, <2>7 DEF Delivered
<1>. QED
  BY <1>1, <1>2, <1>3, OutcomeIs
-----------------------------------------------------------------------------
(* The type of every variable.                                             *)
Typed ==
    /\ list \in Seq(DeviceType) /\ table \in [Fd -> Peer]
    /\ phase \in {"select", "serve", "closed"} /\ ringing \in BOOLEAN /\ done \in BOOLEAN
    /\ backlog \in Seq(Client)
    /\ where \in [Client -> {"out", "in", "left"}]
    /\ outbox \in [Client -> Seq(RequestType)]
    /\ inbox \in [Client -> Seq(PacketType)]
    /\ wait \in [Client -> RequestType \cup {Null}]
    /\ con \in SUBSET Client /\ sent \in [Client -> Nat] /\ slow \in SUBSET Peer

\* One of the devices has the packet, or cannot take it.
Reached(v) ==
    \/ \E c \in Client : Len(inbox[c]) < Len(v.inbox[c])
    \/ \E k \in 1..Len(v.list) : ~Alive(v.list[k])
    \/ \E k \in 1..Len(v.list) : "BUSY" \in v.list[k].status /\ Outcome(v, k) = "late"

\* What the sending of p makes of a state: what folding over devices keeps.
Sent(p) == {v \in BusType : Delivered(p, Before, v) /\ (v.ok => Reached(v))}

B == INSTANCE FoldProofs WITH Op <- BroadcastTo
D == INSTANCE FoldProofs WITH Op <- SendToFound
M == INSTANCE FoldProofs WITH Op <- SendToFirst

\* The loop of message_broadcast, as the fold the library's lemmas are about.
LEMMA BroadcastIsFold == \A w, s : FoldLeft(BroadcastTo, w, s) = B!Fold(w, s)
BY DEF FoldLeft, MapThenFoldSet, Max, B!Fold, B!FoldLeft, B!MapThenFoldSet, B!Max

\* The loop of ib_cm_message over the devices, likewise.
LEMMA SendIsFold == \A w, s : FoldLeft(SendToFound, w, s) = D!Fold(w, s)
BY DEF FoldLeft, MapThenFoldSet, Max, D!Fold, D!FoldLeft, D!MapThenFoldSet, D!Max

\* The loop of ib_cm_message over a list of addresses, likewise.
LEMMA FirstIsFold == \A w, s : FoldLeft(SendToFirst, w, s) = M!Fold(w, s)
BY DEF FoldLeft, MapThenFoldSet, Max, M!Fold, M!FoldLeft, M!MapThenFoldSet, M!Max

\* No packet sent at all.
LEMMA DeliveredNothing ==
    ASSUME NEW w \in BusType, NEW p PROVE Delivered(p, w, w)
<1>1. DevicesKept(w, w)
  BY DEF DevicesKept, SameOwner, AsBefore
<1>2. TableKept(w, w)
  BY DEF TableKept
<1>3. Grown(p, w.inbox, w.inbox)
  <2>1. ASSUME NEW c \in Client
        PROVE  Len(w.inbox[c]) <= Len(w.inbox[c]) /\ \A k \in 1..Len(w.inbox[c]) : k <= Len(w.inbox[c])
    <3>1. PICK m \in Seq(PacketType) : m = w.inbox[c]
      BY BusFields
    <3>2. Len(m) <= Len(m) /\ \A k \in 1..Len(m) : k <= Len(m)
      OBVIOUS
    <3>. QED
      BY <3>1, <3>2
  <2>. QED
    BY <2>1 DEF Grown
<1>. QED
  BY <1>1, <1>2, <1>3 DEF Delivered

\* Where each of the loops begins.
LEMMA BeforeSent ==
    ASSUME Typed, NEW p
    PROVE  Before \in BusType /\ Before \in Sent(p)
<1>1. Before \in BusType
  BY DEF Typed, Before, NotSent, BusType
<1>2. ~Before.ok
  BY DEF Before, NotSent
<1>. QED
  BY <1>1, <1>2, DeliveredNothing DEF Sent

\* Outcome looks at the list, the descriptors and what is waiting to be read.
LEMMA OutcomeSame ==
    ASSUME NEW v, NEW u, NEW k, u.list[k].fd = v.list[k].fd, u.table = v.table, u.inbox = v.inbox
    PROVE  Outcome(u, k) = Outcome(v, k)
BY DEF Outcome

\* Whatever comes of sending p to device j, it is now one of the three.
LEMMA PutOrDieReaches ==
    ASSUME NEW p \in PacketType, NEW v \in Sent(p), NEW j \in 1..Len(v.list), Typed
    PROVE  Reached(PutOrDie(v, j, p))
<1>v. v \in BusType /\ Delivered(p, Before, v)
  BY DEF Sent
<1>0. PICK d \in DeviceType : d = v.list[j]
  BY <1>v, BusFields
<1>l. \A e \in DeviceType : /\ Len([v.list EXCEPT ![j] = e]) = Len(v.list)
                            /\ [v.list EXCEPT ![j] = e][j] = e
  BY <1>v, BusFields, Replaced
<1>1. CASE Outcome(v, j) = "sent"
  <2>1. PICK c \in Client : c = v.table[d.fd]
    BY <1>v, <1>0, <1>1, OutcomeIs
  <2>u. PutOrDie(v, j, p) = PutSent(v, j, p, c)
    BY <1>v, <1>0, <1>1, <2>1, PutIs DEF PutOrDie
  <2>2. PutOrDie(v, j, p).inbox = [v.inbox EXCEPT ![c] = Append(@, p)]
    BY <2>u DEF PutSent
  <2>3. PICK n \in Seq(PacketType) : n = v.inbox[c]
    BY <1>v, BusFields
  <2>4. PutOrDie(v, j, p).inbox[c] = Append(n, p)
    BY <1>v, <2>2, <2>3, BusFields
  <2>5. PICK m \in Seq(PacketType) : m = inbox[c]
    BY DEF Typed
  <2>6. Len(m) <= Len(n)
    BY <1>v, <2>3, <2>5 DEF Delivered, Grown, Before
  <2>7. Len(m) < Len(Append(n, p))
    BY <2>6
  <2>. QED
    BY <2>4, <2>5, <2>7 DEF Reached
<1>2. CASE Outcome(v, j) = "late"
  <2>1. PICK u : u = PutLate(v, j)
    OBVIOUS
  <2>2. PutOrDie(v, j, p) = u
    BY <1>v, <1>2, <2>1, PutIs DEF PutOrDie
  <2>3. u.list = [v.list EXCEPT ![j] = Busy(d)] /\ u.table = v.table /\ u.inbox = v.inbox
    BY <1>0, <2>1 DEF PutLate
  <2>4. Busy(d) \in DeviceType /\ "BUSY" \in Busy(d).status /\ Busy(d).fd = d.fd
    BY ReadyIs DEF AsBefore
  <2>5. Len(u.list) = Len(v.list) /\ u.list[j] = Busy(d)
    BY <1>l, <2>3, <2>4
  <2>6. Outcome(u, j) = "late"
    BY <1>0, <1>2, <2>3, <2>4, <2>5, OutcomeSame
  <2>. QED
    BY <2>2, <2>4, <2>5, <2>6 DEF Reached
<1>3. CASE Outcome(v, j) = "failed"
  <2>1. PutOrDie(v, j, p).list = [v.list EXCEPT ![j] = Dead(d)]
    BY <1>v, <1>0, <1>3, PutIs DEF PutOrDie, DieAs
  <2>2. Dead(d) \in DeviceType /\ ~Alive(Dead(d))
    BY DeadIs
  <2>. QED
    BY <1>l, <2>1, <2>2 DEF Reached
<1>. QED
  BY <1>v, <1>1, <1>2, <1>3, OutcomeIs

\* One turn of a loop keeps what the loops keep.
LEMMA PutOrDieSent ==
    ASSUME Typed, NEW p \in PacketType, NEW v \in Sent(p), NEW j \in 1..Len(list)
    PROVE  PutOrDie(v, j, p) \in Sent(p)
<1>1. v \in BusType /\ Before \in BusType /\ Delivered(p, Before, v)
  BY BeforeSent DEF Sent
<1>2. j \in 1..Len(v.list)
  BY <1>1 DEF Delivered, DevicesKept, Before
<1>. QED
  BY <1>1, <1>2, PutOrDieDelivers, PutOrDieReaches DEF Sent

\* The result of sending may be set.
LEMMA OkSent ==
    ASSUME NEW p \in PacketType, NEW v \in Sent(p), NEW b \in BOOLEAN, b => Reached(v)
    PROVE  [v EXCEPT !.ok = b] \in Sent(p)
<1>1. PICK u : u = [v EXCEPT !.ok = b]
  OBVIOUS
<1>2. v \in BusType /\ Delivered(p, Before, v)
  BY DEF Sent
<1>3. /\ u \in BusType /\ u.list = v.list /\ u.table = v.table /\ u.inbox = v.inbox /\ u.ok = b
  BY <1>1, <1>2 DEF BusType
<1>4. Delivered(p, Before, u)
  BY <1>2, <1>3 DEF Delivered, DevicesKept, TableKept
<1>5. \A k : Outcome(u, k) = Outcome(v, k)
  BY <1>3, OutcomeSame
<1>6. Reached(v) => Reached(u)
  BY <1>3, <1>5 DEF Reached
<1>. QED
  BY <1>1, <1>3, <1>4, <1>6 DEF Sent

\* The packet a message is passed on as.
Forward(i) == [list[i].pk EXCEPT !.addr = list[i].addr]

\* The packet a message is passed on as: the sender's address is put in.
LEMMA ForwardIs ==
    ASSUME Typed, NEW i \in 1..Len(list), list[i].pk # Null
    PROVE  /\ list[i].pk \in PacketType /\ Forward(i) \in PacketType
           /\ Forward(i).addr = list[i].addr /\ Forward(i).cmd = list[i].pk.cmd
           /\ Forward(i).from = list[i].pk.from /\ Forward(i).nbr = list[i].pk.nbr
<1>1. list[i] \in DeviceType
  BY DEF Typed
<1>2. list[i].pk \in PacketType /\ list[i].addr \in Address
  BY <1>1, DeviceFields DEF RequestType
<1>. QED
  BY <1>2 DEF Forward, PacketType

\* send_to_dev keeps what the loops keep, and has reached the device or not.
LEMMA SendToSent ==
    ASSUME Typed, NEW i \in 1..Len(list), list[i].pk # Null,
           NEW v \in Sent(Forward(i)), NEW j \in 1..Len(list)
    PROVE  SendTo(v, i, j) \in Sent(Forward(i)) /\ Reached(SendTo(v, i, j))
<1>. DEFINE p == Forward(i)
<1>p. p \in PacketType
  BY ForwardIs
<1>v. v \in BusType /\ Delivered(p, Before, v) /\ j \in 1..Len(v.list)
  BY DEF Sent, Delivered, DevicesKept, Before
<1>1. CASE v.list[j].status \cap {"ALIVE", "READ"} = {}
  <2>1. ~Alive(v.list[j])
    BY <1>1 DEF Alive
  <2>2. Reached(v)
    BY <1>v, <2>1 DEF Reached
  <2>3. SendTo(v, i, j) = [v EXCEPT !.ok = TRUE]
    BY <1>1 DEF SendTo
  <2>4. SendTo(v, i, j) \in Sent(p)
    BY <1>p, <2>2, <2>3, OkSent
  <2>5. SendTo(v, i, j).ok
    BY <1>v, <2>3 DEF BusType
  <2>. QED
    BY <2>4, <2>5 DEF Sent
<1>2. CASE v.list[j].status \cap {"ALIVE", "READ"} # {}
  <2>1. PICK u \in Sent(p) : u = PutOrDie(v, j, p)
    BY <1>p, PutOrDieSent
  <2>2. Reached(u)
    BY <1>p, <1>v, <2>1, PutOrDieReaches
  <2>. DEFINE b == Outcome(v, j) # "failed"
              x == [u EXCEPT !.ok = b]
  <2>3. SendTo(v, i, j) = x
    BY <1>2, <2>1 DEF SendTo, Forward
  <2>4. x \in Sent(p)
    BY <1>p, <2>2, OkSent
  <2>5. Reached(x)
    <3>1. u \in BusType
      BY DEF Sent
    <3>2. x.list = u.list /\ x.table = u.table /\ x.inbox = u.inbox
      BY <3>1 DEF BusType
    <3>3. \A k : Outcome(x, k) = Outcome(u, k)
      BY <3>2, OutcomeSame
    <3>. QED
      BY <2>2, <3>2, <3>3 DEF Reached
  <2>. QED
    BY <2>3, <2>4, <2>5
<1>. QED
  BY <1>1, <1>2

Turns(i) == [from : {i}, to : 1..Len(list)]

\* The turns of a loop over the devices.
LEMMA ToAllTurns ==
    ASSUME Typed, NEW i \in 1..Len(list)
    PROVE  ToAll(i) \in Seq(Turns(i))
<1>1. DOMAIN list = 1..Len(list) /\ Len(list) \in Nat
  BY DEF Typed
<1>2. ToAll(i) \in [1..Len(list) -> Turns(i)]
  BY <1>1 DEF ToAll, Turns
<1>. QED
  BY <1>1, <1>2

\* message_broadcast: every device has been sent the packet, or was passed over.
LEMMA BroadcastSent ==
    ASSUME Typed, NEW i \in 1..Len(list), list[i].pk # Null
    PROVE  Broadcast(i) \in Sent(list[i].pk)
<1>. DEFINE p == list[i].pk
<1>p. p \in PacketType
  BY ForwardIs
<1>1. B!Closed(Sent(p), Turns(i))
  <2>. SUFFICES ASSUME NEW v \in Sent(p), NEW x \in Turns(i) PROVE BroadcastTo(v, x) \in Sent(p)
    BY DEF B!Closed
  <2>1. x.from = i /\ x.to \in 1..Len(list)
    BY DEF Turns
  <2>. QED
    BY <1>p, <2>1, PutOrDieSent DEF BroadcastTo
<1>2. B!Fold(Before, ToAll(i)) \in Sent(p)
  BY <1>1, ToAllTurns, BeforeSent, B!FoldIn
<1>. QED
  BY <1>2, BroadcastIsFold DEF Broadcast

\* find_ib_dev finds a device that is in the list.
LEMMA MinIn ==
    ASSUME NEW n \in Nat, NEW s \in SUBSET (1..n), s # {}
    PROVE  Min(s) \in s
<1>1. s \in SUBSET Nat
  OBVIOUS
<1>2. PICK m \in s : \A k \in s : m <= k
  BY <1>1, B!Least
<1>. QED
  BY <1>2 DEF Min

\* ib_cm_message: when it answers that the message was sent, the message has
\* reached some device, or a device cannot take it.
LEMMA RouteSent ==
    ASSUME Typed, NEW i \in 1..Len(list), list[i].pk # Null
    PROVE  Route(i) \in Sent(Forward(i))
<1>. DEFINE W == Sent(Forward(i))
            l == list[i].mcast
<1>1. Before \in W
  BY BeforeSent
<1>2. CASE list[i].pk.addr = {MulticastFlag} /\ l # Null
  <2>. DEFINE J == [from : {i}, to : Address \ {{}}]
              s == [k \in DOMAIN l |-> [from |-> i, to |-> l[k]]]
  <2>1. l \in Seq(Address \ {{}})
    <3>1. list[i] \in DeviceType
      BY DEF Typed
    <3>. QED
      BY <1>2, <3>1, DeviceFields, IarBusAssumption
  <2>2. s \in Seq(J)
    <3>1. DOMAIN l = 1..Len(l) /\ Len(l) \in Nat
      BY <2>1
    <3>2. s \in [1..Len(l) -> J]
      BY <2>1, <3>1
    <3>. QED
      BY <3>1, <3>2
  <2>3. M!Closed(W, J)
    <3>. SUFFICES ASSUME NEW v \in W, NEW x \in J PROVE SendToFirst(v, x) \in W
      BY DEF M!Closed
    <3>1. CASE Found(x.to) = {}
      BY <3>1 DEF SendToFirst
    <3>2. CASE Found(x.to) # {}
      <4>1. Found(x.to) \in SUBSET (1..Len(list)) /\ Len(list) \in Nat
        BY DEF Found, Typed
      <4>2. PICK j \in 1..Len(list) : j = Min(Found(x.to))
        BY <3>2, <4>1, MinIn
      <4>3. PICK u \in W : u = SendTo(v, i, j) /\ Reached(u)
        BY SendToSent
      <4>4. u.ok \in BOOLEAN /\ v.ok \in BOOLEAN
        BY BusFields DEF Sent
      <4>5. SendToFirst(v, x) = [u EXCEPT !.ok = u.ok \/ v.ok]
        BY <3>2, <4>2, <4>3 DEF SendToFirst
      <4>6. Forward(i) \in PacketType /\ (u.ok \/ v.ok) \in BOOLEAN
        BY <4>4, ForwardIs
      <4>7. [u EXCEPT !.ok = u.ok \/ v.ok] \in W
        BY <4>3, <4>6, OkSent
      <4>. QED
        BY <4>5, <4>7
    <3>. QED
      BY <3>1, <3>2
  <2>4. M!Fold(Before, s) \in W
    BY <1>1, <2>2, <2>3, M!FoldIn
  <2>. QED
    BY <1>2, <2>4, FirstIsFold DEF Route
<1>3. CASE ~(list[i].pk.addr = {MulticastFlag} /\ l # Null)
  <2>1. D!Closed(W, Turns(i))
    <3>. SUFFICES ASSUME NEW v \in W, NEW x \in Turns(i) PROVE SendToFound(v, x) \in W
      BY DEF D!Closed
    <3>1. x.from = i /\ x.to \in 1..Len(list)
      BY DEF Turns
    <3>. QED
      BY <3>1, SendToSent DEF SendToFound
  <2>2. D!Fold(Before, ToAll(i)) \in W
    BY <1>1, <2>1, ToAllTurns, D!FoldIn
  <2>. QED
    BY <1>3, <2>2, SendIsFold DEF Route
<1>. QED
  BY <1>2, <1>3
-----------------------------------------------------------------------------
(* What a command does, whichever it is.                                   *)

\* What is passed on for device i: never the answer to a command.
Passed(i) ==
    {p \in PacketType : /\ p.from = list[i].pk.from /\ p.nbr = list[i].pk.nbr
                        /\ p.cmd = "SHUTDOWN" \/ (p.cmd = "MESSAGE" /\ p.addr # BusAddr)}

Answer(i, data) == Packet(list[i].pk.cmd, BusAddr, data, list[i].pk.from, list[i].pk.nbr)

\* The end of device k: of the connection only, of the device too, or of both
\* at device i's own request.
Kept(k, v) == AsBefore(list[k], v.list[k])
Died(k, v) == HasDied(list[k], v.list[k]) /\ v.table[list[k].fd] = Null
Quit(k, v) == /\ list[k].pk.cmd = "REMOVE" /\ ~Alive(v.list[k]) /\ v.list[k].fd = list[k].fd
              /\ list[k].fd \in Fd => v.table[list[k].fd] = Null

DevicesServed(i, v) ==
    /\ Len(v.list) = Len(list)
    /\ \A k \in 1..Len(list) :
          /\ v.list[k].of = list[k].of /\ v.list[k].pk = list[k].pk
          /\ Kept(k, v) \/ Died(k, v) \/ (k = i /\ Quit(k, v))

TableServed(v) ==
    \A f \in Fd :
       \/ v.table[f] = table[f]
       \/ v.table[f] = Null /\ \E k \in 1..Len(list) : list[k].fd = f /\ ~Alive(v.list[k])

AddressesServed(i, v) ==
    /\ \A k \in 1..Len(list) : k # i => v.list[k].addr = list[k].addr
    /\ \/ v.list[i].addr = list[i].addr
       \/ ValidFixAddr(v.list[i].addr) /\ ~Taken(v.list[i].addr)

Replied(i, m, n) ==
    \E c \in Client, data \in Data :
       /\ list[i].fd \in Fd /\ table[list[i].fd] = c /\ Len(m[c]) < Room
       /\ n = [m EXCEPT ![c] = Append(@, Answer(i, data))]

InboxServed(i, v) ==
    \E p \in Passed(i), m \in [Client -> Seq(PacketType)] :
       Grown(p, inbox, m) /\ (v.inbox = m \/ Replied(i, m, v.inbox))

Effect(i, v) ==
    /\ v \in BusType
    /\ DevicesServed(i, v) /\ TableServed(v) /\ AddressesServed(i, v) /\ InboxServed(i, v)

\* What a command has made of device i before it sends anything.
Start(i) ==
    {u \in BusType :
        /\ u.table = table /\ u.inbox = inbox /\ Len(u.list) = Len(list)
        /\ \A k \in 1..Len(list) : /\ u.list[k].of = list[k].of /\ u.list[k].pk = list[k].pk
                                   /\ AsBefore(list[k], u.list[k])
        /\ AddressesServed(i, u)}

\* A record with such fields is such a state.
LEMMA BusIs ==
    ASSUME NEW l \in Seq(DeviceType), NEW t \in [Fd -> Peer], NEW m \in [Client -> Seq(PacketType)],
           NEW s \in SUBSET Peer, NEW b \in BOOLEAN
    PROVE  [list |-> l, table |-> t, inbox |-> m, slow |-> s, ok |-> b] \in BusType
BY DEF BusType

\* The packet p has been written to the client of w's descriptor f.
Written(w, f, p, n) ==
    \E c \in Client : /\ f \in Fd /\ w.table[f] = c /\ Len(w.inbox[c]) < Room
                     /\ n = [w.inbox EXCEPT ![c] = Append(@, p)]

\* One packet to one device: no descriptor is closed and nobody dies.
LEMMA PutKeeps ==
    ASSUME NEW w \in BusType, NEW j \in 1..Len(w.list), NEW p \in PacketType,
           NEW v, v = Put(w, j, p)
    PROVE  /\ v \in BusType /\ v.table = w.table /\ v.ok = w.ok
           /\ Len(v.list) = Len(w.list)
           /\ \A k \in 1..Len(w.list) :
                 /\ SameOwner(w.list[k], v.list[k]) /\ AsBefore(w.list[k], v.list[k])
                 /\ k # j => v.list[k] = w.list[k]
           /\ \/ v.inbox = w.inbox
              \/ Outcome(w, j) = "sent" /\ Written(w, w.list[j].fd, p, v.inbox)
<1>0. PICK d \in DeviceType : d = w.list[j]
  BY BusFields
<1>l. \A e \in DeviceType : /\ [w.list EXCEPT ![j] = e] \in Seq(DeviceType)
                            /\ Len([w.list EXCEPT ![j] = e]) = Len(w.list)
                            /\ [w.list EXCEPT ![j] = e][j] = e
                            /\ \A k \in 1..Len(w.list) : k # j => [w.list EXCEPT ![j] = e][k] = w.list[k]
  BY BusFields, Replaced
<1>s. \A k \in 1..Len(w.list) : SameOwner(w.list[k], w.list[k]) /\ AsBefore(w.list[k], w.list[k])
  BY DEF SameOwner, AsBefore
<1>1. CASE Outcome(w, j) = "sent"
  <2>1. PICK c \in Client : c = w.table[d.fd] /\ Len(w.inbox[c]) < Room /\ w.list[j].fd \in Fd
    BY <1>0, <1>1, OutcomeIs
  <2>2. v = PutSent(w, j, p, c)
    BY <1>0, <1>1, <2>1, PutIs
  <2>3. /\ v.list = [w.list EXCEPT ![j] = Ready(d)] /\ v.table = w.table /\ v.ok = w.ok
        /\ v.inbox = [w.inbox EXCEPT ![c] = Append(@, p)] /\ v.slow = w.slow
    BY <1>0, <2>2 DEF PutSent
  <2>4. Ready(d) \in DeviceType /\ SameOwner(d, Ready(d)) /\ AsBefore(d, Ready(d))
    BY ReadyIs
  <2>5. v.inbox \in [Client -> Seq(PacketType)] /\ v.list \in Seq(DeviceType)
    BY <1>l, <2>3, <2>4, BusFields
  <2>6. v \in BusType
    BY <2>2, <2>3, <2>5, BusFields DEF PutSent, BusType
  <2>7. \A k \in 1..Len(w.list) :
           /\ SameOwner(w.list[k], v.list[k]) /\ AsBefore(w.list[k], v.list[k])
           /\ k # j => v.list[k] = w.list[k]
    BY <1>0, <1>l, <1>s, <2>3, <2>4
  <2>8. Written(w, w.list[j].fd, p, v.inbox)
    BY <1>0, <2>1, <2>3 DEF Written
  <2>. QED
    BY <1>1, <1>l, <2>3, <2>4, <2>6, <2>7, <2>8
<1>2. CASE Outcome(w, j) = "late"
  <2>2. v = PutLate(w, j)
    BY <1>2, PutIs
  <2>3. /\ v.list = [w.list EXCEPT ![j] = Busy(d)] /\ v.table = w.table /\ v.ok = w.ok
        /\ v.inbox = w.inbox /\ v.slow = w.slow \cup {d.of}
    BY <1>0, <2>2 DEF PutLate
  <2>4. Busy(d) \in DeviceType /\ SameOwner(d, Busy(d)) /\ AsBefore(d, Busy(d))
    BY ReadyIs
  <2>5. v.list \in Seq(DeviceType) /\ v.slow \in SUBSET Peer
    BY <1>l, <2>3, <2>4, BusFields, DeviceFields
  <2>6. v \in BusType
    BY <2>2, <2>3, <2>5, BusFields DEF PutLate, BusType
  <2>7. \A k \in 1..Len(w.list) :
           /\ SameOwner(w.list[k], v.list[k]) /\ AsBefore(w.list[k], v.list[k])
           /\ k # j => v.list[k] = w.list[k]
    BY <1>0, <1>l, <1>s, <2>3, <2>4
  <2>. QED
    BY <1>l, <2>3, <2>4, <2>6, <2>7
<1>3. CASE Outcome(w, j) = "failed"
  <2>1. v = w
    BY <1>3, PutIs
  <2>. QED
    BY <1>s, <2>1
<1>. QED
  BY <1>1, <1>2, <1>3, OutcomeIs

\* A command may begin by changing nothing.
LEMMA StartBefore ==
    ASSUME Typed, NEW i \in 1..Len(list)
    PROVE  Before \in Start(i)
<1>1. Before \in BusType
  BY BeforeSent
<1>2. /\ Before.list = list /\ Before.table = table /\ Before.inbox = inbox
  BY DEF Before
<1>. QED
  BY <1>1, <1>2 DEF Start, AsBefore, AddressesServed

\* Sending from such a start, and with or without an answer at the end.
LEMMA DeliverServes ==
    ASSUME Typed, NEW i \in 1..Len(list), NEW u \in Start(i),
           NEW p \in Passed(i), NEW v \in BusType, Delivered(p, u, v)
    PROVE  Effect(i, v)
<1>u. /\ u \in BusType /\ u.table = table /\ u.inbox = inbox /\ Len(u.list) = Len(list)
      /\ \A k \in 1..Len(list) : /\ u.list[k].of = list[k].of /\ u.list[k].pk = list[k].pk
                                 /\ AsBefore(list[k], u.list[k])
      /\ AddressesServed(i, u)
  BY DEF Start
<1>1. ASSUME NEW k \in 1..Len(list)
      PROVE  /\ v.list[k].of = list[k].of /\ v.list[k].pk = list[k].pk
             /\ v.list[k].addr = u.list[k].addr
             /\ Kept(k, v) \/ Died(k, v)
  <2>1. /\ SameOwner(u.list[k], v.list[k])
        /\ \/ AsBefore(u.list[k], v.list[k])
           \/ HasDied(u.list[k], v.list[k]) /\ v.table[u.list[k].fd] = Null
    BY <1>u DEF Delivered, DevicesKept
  <2>. QED
    BY <1>u, <2>1 DEF SameOwner, AsBefore, HasDied, Kept, Died
<1>2. DevicesServed(i, v)
  BY <1>u, <1>1 DEF DevicesServed, Delivered, DevicesKept
<1>3. ASSUME NEW f \in Fd
      PROVE  \/ v.table[f] = table[f]
             \/ v.table[f] = Null /\ \E k \in 1..Len(list) : list[k].fd = f /\ ~Alive(v.list[k])
  <2>1. \/ v.table[f] = table[f]
        \/ v.table[f] = Null /\ \E k \in 1..Len(list) : u.list[k].fd = f /\ v.list[k].fd = -1
    BY <1>u DEF Delivered, TableKept
  <2>2. ASSUME v.table[f] = Null, NEW k \in 1..Len(list), u.list[k].fd = f, v.list[k].fd = -1
        PROVE  list[k].fd = f /\ ~Alive(v.list[k])
    <3>1. list[k].fd = f
      BY <1>u, <2>2 DEF AsBefore
    <3>. QED
      BY <1>1, <2>2, <3>1, NoFd DEF Kept, Died, AsBefore, HasDied
  <2>. QED
    BY <2>1, <2>2
<1>4. TableServed(v)
  BY <1>3 DEF TableServed
<1>5. AddressesServed(i, v)
  BY <1>u, <1>1 DEF AddressesServed
<1>6. InboxServed(i, v)
  <2>1. Grown(p, inbox, v.inbox) /\ v.inbox \in [Client -> Seq(PacketType)]
    BY <1>u, BusFields DEF Delivered
  <2>. QED
    BY <2>1 DEF InboxServed
<1>. QED
  BY <1>2, <1>4, <1>5, <1>6 DEF Effect

\* The answer to a command is a packet.
LEMMA AnswerType ==
    ASSUME Typed, NEW i \in 1..Len(list), list[i].pk # Null, NEW data \in Data
    PROVE  Answer(i, data) \in PacketType
<1>1. list[i].pk \in PacketType
  BY ForwardIs
<1>2. BusAddr \in Address
  BY DEF BusAddr, Address, DynFlag
<1>. QED
  BY <1>1, <1>2 DEF Answer, Packet, PacketType

\* With an answer at the end.
LEMMA ReplyServes ==
    ASSUME Typed, NEW i \in 1..Len(list), list[i].pk # Null, NEW u \in Start(i),
           NEW p \in Passed(i), NEW w \in BusType, Delivered(p, u, w),
           NEW data \in Data
    PROVE  Effect(i, Reply(w, i, data))
<1>. DEFINE q == Answer(i, data)
<1>e. Effect(i, w)
  BY DeliverServes
<1>q. q \in PacketType
  BY AnswerType
<1>n. i \in 1..Len(w.list) /\ Len(w.list) = Len(list)
  BY <1>e DEF Effect, DevicesServed
<1>v. PICK v : v = Put(w, i, q)
  OBVIOUS
<1>r. Reply(w, i, data) = v
  BY <1>v DEF Reply, Answer
<1>1. /\ v \in BusType /\ v.table = w.table
      /\ Len(v.list) = Len(w.list)
      /\ \A k \in 1..Len(w.list) : SameOwner(w.list[k], v.list[k]) /\ AsBefore(w.list[k], v.list[k])
  BY <1>n, <1>q, <1>v, PutKeeps
<1>i. v.inbox = w.inbox \/ Written(w, w.list[i].fd, q, v.inbox)
  BY <1>n, <1>q, <1>v, PutKeeps
<1>2. ASSUME NEW k \in 1..Len(list)
      PROVE  /\ v.list[k].of = list[k].of /\ v.list[k].pk = list[k].pk
             /\ v.list[k].addr = w.list[k].addr
             /\ Alive(v.list[k]) <=> Alive(w.list[k])
             /\ Kept(k, v) \/ Died(k, v) \/ (k = i /\ Quit(k, v))
  <2>1. SameOwner(w.list[k], v.list[k]) /\ AsBefore(w.list[k], v.list[k])
    BY <1>1, <1>n
  <2>2. /\ w.list[k].of = list[k].of /\ w.list[k].pk = list[k].pk
        /\ Kept(k, w) \/ Died(k, w) \/ (k = i /\ Quit(k, w))
    BY <1>e DEF Effect, DevicesServed
  <2>3. (Kept(k, w) => Kept(k, v)) /\ (Died(k, w) => Died(k, v)) /\ (Quit(k, w) => Quit(k, v))
    BY <2>1, <1>1 DEF Kept, Died, Quit, AsBefore, HasDied
  <2>. QED
    BY <2>1, <2>2, <2>3 DEF SameOwner, AsBefore
<1>3. DevicesServed(i, v)
  BY <1>1, <1>2, <1>n DEF DevicesServed
<1>4. TableServed(v)
  BY <1>e, <1>1, <1>2 DEF Effect, TableServed
<1>5. AddressesServed(i, v)
  BY <1>e, <1>2 DEF Effect, AddressesServed
<1>6. InboxServed(i, v)
  <2>1. Grown(p, inbox, w.inbox) /\ w.inbox \in [Client -> Seq(PacketType)]
    BY BusFields DEF Delivered, Start
  <2>2. CASE v.inbox = w.inbox
    BY <2>1, <2>2 DEF InboxServed
  <2>3. ASSUME NEW c \in Client, w.list[i].fd \in Fd, w.table[w.list[i].fd] = c,
               Len(w.inbox[c]) < Room, v.inbox = [w.inbox EXCEPT ![c] = Append(@, q)]
        PROVE  InboxServed(i, v)
    <3>1. list[i].fd = w.list[i].fd
      BY <1>e, <2>3, NoFd DEF Effect, DevicesServed, Kept, Died, Quit, AsBefore, HasDied
    <3>2. table[list[i].fd] = c
      <4>1. w.table[list[i].fd] = table[list[i].fd] \/ w.table[list[i].fd] = Null
        BY <1>e, <2>3, <3>1 DEF Effect, TableServed
      <4>2. c # Null
        BY IarBusAssumption
      <4>. QED
        BY <2>3, <3>1, <4>1, <4>2
    <3>3. Replied(i, w.inbox, v.inbox)
      BY <2>3, <3>1, <3>2 DEF Replied
    <3>. QED
      BY <2>1, <3>3 DEF InboxServed
  <2>. QED
    BY <1>i, <2>2, <2>3 DEF Written
<1>. QED
  BY <1>1, <1>3, <1>4, <1>5, <1>6, <1>r DEF Effect

\* Device i has another address, status or list of addresses.
StartAs(i, e) ==
    [list |-> [list EXCEPT ![i] = e], table |-> table, inbox |-> inbox, slow |-> slow, ok |-> NotSent]

QuitAs(w, i, e) ==
    [list |-> [w.list EXCEPT ![i] = e], table |-> Closed(w.table, w.list[i].fd),
     inbox |-> w.inbox, slow |-> w.slow, ok |-> w.ok]

\* A command may begin by giving its device another address, status or list.
LEMMA Restarted ==
    ASSUME Typed, NEW i \in 1..Len(list), NEW e \in DeviceType,
           e.of = list[i].of, e.pk = list[i].pk, AsBefore(list[i], e),
           e.addr = list[i].addr \/ (ValidFixAddr(e.addr) /\ ~Taken(e.addr)),
           NEW u, u = StartAs(i, e)
    PROVE  u \in Start(i) /\ u.list[i] = e
<1>2. u.list = [list EXCEPT ![i] = e] /\ u.table = table /\ u.inbox = inbox
  BY DEF StartAs
<1>3. list \in Seq(DeviceType)
  BY DEF Typed
<1>4. /\ u.list \in Seq(DeviceType) /\ Len(u.list) = Len(list) /\ u.list[i] = e
      /\ \A k \in 1..Len(list) : k # i => u.list[k] = list[k]
  BY <1>2, <1>3, Replaced
<1>5. u \in BusType
  BY <1>2, <1>4, BusIs DEF Typed, StartAs, NotSent
<1>6. AddressesServed(i, u)
  BY <1>4 DEF AddressesServed
<1>7. ASSUME NEW k \in 1..Len(list)
      PROVE  u.list[k].of = list[k].of /\ u.list[k].pk = list[k].pk /\ AsBefore(list[k], u.list[k])
  BY <1>4 DEF AsBefore
<1>. QED
  BY <1>2, <1>4, <1>5, <1>6, <1>7 DEF Start

\* There is a packet that a command may pass on, whether it does so or not.
LEMMA SomethingPassed ==
    ASSUME Typed, NEW i \in 1..Len(list), list[i].pk # Null
    PROVE  \E p \in Passed(i) : TRUE
<1>1. list[i].pk \in PacketType
  BY ForwardIs
<1>2. [list[i].pk EXCEPT !.cmd = "SHUTDOWN"] \in Passed(i)
  BY <1>1 DEF PacketType, Passed
<1>. QED
  BY <1>2

\* An answer, and nothing else.
LEMMA OnlyReplies ==
    ASSUME Typed, NEW i \in 1..Len(list), list[i].pk # Null, NEW u \in Start(i), NEW data \in Data
    PROVE  Effect(i, Reply(u, i, data))
<1>1. PICK p \in Passed(i) : TRUE
  BY SomethingPassed
<1>2. u \in BusType
  BY DEF Start
<1>3. Delivered(p, u, u)
  BY <1>2, DeliveredNothing
<1>. QED
  BY <1>2, <1>3, ReplyServes

\* The descriptor of a device that leaves is closed.
LEMMA RemovalServes ==
    ASSUME Typed, NEW i \in 1..Len(list), NEW w, Effect(i, w), list[i].pk.cmd = "REMOVE",
           NEW e, e = [w.list[i] EXCEPT !.status = w.list[i].status \ {"BCAST_ON", "ALIVE"}],
           NEW v, v = QuitAs(w, i, e)
    PROVE  Effect(i, v)
<1>w. w \in BusType /\ Len(w.list) = Len(list)
  BY DEF Effect, DevicesServed
<1>0. PICK d \in DeviceType : d = w.list[i]
  BY <1>w, BusFields
<1>1. PICK s \in StatusType : s = d.status \ {"BCAST_ON", "ALIVE"}
  BY DeviceFields DEF StatusType
<1>s. e = [d EXCEPT !.status = s]
  BY <1>0, <1>1
<1>2. /\ e \in DeviceType /\ e.status = s
      /\ e.of = d.of /\ e.fd = d.fd /\ e.addr = d.addr /\ e.pk = d.pk
  BY <1>s DEF DeviceType
<1>3. ~Alive(e)
  BY <1>1, <1>2 DEF Alive
<1>l. PICK l \in Seq(DeviceType) : l = w.list /\ i \in 1..Len(l)
  BY <1>w, BusFields
<1>4. /\ v.list = [w.list EXCEPT ![i] = e] /\ v.table = Closed(w.table, d.fd)
      /\ v.inbox = w.inbox
  BY <1>0 DEF QuitAs
<1>5. /\ v.list \in Seq(DeviceType) /\ Len(v.list) = Len(list) /\ v.list[i] = e
      /\ \A k \in 1..Len(list) : k # i => v.list[k] = w.list[k]
  <2>1. e \in DeviceType
    BY <1>2
  <2>2. PICK m : m = [l EXCEPT ![i] = e]
    OBVIOUS
  <2>3. m \in Seq(DeviceType) /\ Len(m) = Len(l) /\ m[i] = e /\ \A k \in 1..Len(l) : k # i => m[k] = l[k]
    BY <1>l, <2>1, <2>2
  <2>4. v.list = m
    BY <1>4, <1>l, <2>2
  <2>. QED
    BY <1>w, <1>l, <2>3, <2>4
<1>6. v.table \in [Fd -> Peer]
  <2>1. v.table = Closed(w.table, d.fd) /\ w.table \in [Fd -> Peer]
    BY <1>w, <1>4, BusFields
  <2>. QED
    BY <2>1, ClosedType
<1>7. v \in BusType
  BY <1>w, <1>4, <1>5, <1>6, BusFields, BusIs DEF QuitAs
<1>8. \A f \in Fd : v.table[f] = IF f = d.fd THEN Null ELSE w.table[f]
  BY <1>4 DEF Closed
<1>9. ASSUME NEW k \in 1..Len(list)
      PROVE  /\ v.list[k].of = list[k].of /\ v.list[k].pk = list[k].pk
             /\ v.list[k].addr = w.list[k].addr
             /\ ~Alive(w.list[k]) => ~Alive(v.list[k])
             /\ Kept(k, v) \/ Died(k, v) \/ (k = i /\ Quit(k, v))
  <2>1. /\ w.list[k].of = list[k].of /\ w.list[k].pk = list[k].pk
        /\ Kept(k, w) \/ Died(k, w) \/ (k = i /\ Quit(k, w))
    BY DEF Effect, DevicesServed
  <2>f. list[k].fd \in Fd \cup {-1}
    BY DeviceFields DEF Typed
  <2>2. CASE k # i
    <3>1. v.list[k] = w.list[k]
      BY <1>5, <2>2
    <3>2. Kept(k, w) => Kept(k, v)
      BY <3>1 DEF Kept
    <3>3. Died(k, w) => Died(k, v)
      BY <3>1, <1>8, <2>f DEF Died, HasDied
    <3>. QED
      BY <2>1, <2>2, <3>1, <3>2, <3>3
  <2>3. CASE k = i
    <3>1. v.list[k] = e /\ e.fd = d.fd
      BY <1>2, <1>5, <2>3
    <3>2. CASE d.fd = list[k].fd
      BY <1>3, <1>8, <3>1, <3>2, <2>1, <2>3, <1>0, <1>2 DEF Quit
    <3>3. CASE d.fd # list[k].fd
      <4>1. HasDied(list[k], d) /\ w.table[list[k].fd] = Null
        BY <1>0, <2>1, <2>3, <3>3 DEF Kept, Died, Quit, AsBefore
      <4>2. v.table[list[k].fd] = Null
        BY <4>1, <1>8, <2>f DEF HasDied
      <4>3. Died(k, v)
        BY <4>1, <4>2, <3>1, <1>3 DEF Died, HasDied
      <4>. QED
        BY <4>3, <3>1, <2>1, <2>3, <1>0, <1>2, <1>3
    <3>. QED
      BY <3>2, <3>3
  <2>. QED
    BY <2>2, <2>3
<1>10. DevicesServed(i, v)
  BY <1>5, <1>9 DEF DevicesServed
<1>11. TableServed(v)
  <2>. SUFFICES ASSUME NEW f \in Fd
                PROVE  \/ v.table[f] = table[f]
                       \/ v.table[f] = Null /\ \E k \in 1..Len(list) : list[k].fd = f /\ ~Alive(v.list[k])
    BY DEF TableServed
  <2>1. CASE f = d.fd
    <3>1. list[i].fd = f
      BY <2>1, <1>0, NoFd DEF Effect, DevicesServed, Kept, Died, Quit, AsBefore, HasDied
    <3>. QED
      BY <2>1, <3>1, <1>3, <1>5, <1>8
  <2>2. CASE f # d.fd
    <3>1. \/ w.table[f] = table[f]
          \/ w.table[f] = Null /\ \E k \in 1..Len(list) : list[k].fd = f /\ ~Alive(w.list[k])
      BY DEF Effect, TableServed
    <3>2. v.table[f] = w.table[f]
      BY <1>8, <2>2
    <3>. QED
      BY <3>1, <3>2, <1>9
  <2>. QED
    BY <2>1, <2>2
<1>12. AddressesServed(i, v)
  BY <1>9 DEF Effect, AddressesServed
<1>13. InboxServed(i, v)
  BY <1>4 DEF Effect, InboxServed
<1>. QED
  BY <1>7, <1>10, <1>11, <1>12, <1>13 DEF Effect

\* The clients' devices.
Clients == 2..Len(list)

Become(i, v) ==
    /\ list' = [v.list EXCEPT ![i].pk = Null]
    /\ table' = v.table /\ inbox' = v.inbox /\ slow' = v.slow

\* The effect of a command on the variables.
LEMMA BecomesIs == \A v, i : Becomes(v, i) => Become(i, v)
BY DEF Becomes, Become

\* What answers carry.
LEMMA ToData ==
    /\ \A x \in Address : x \in Data
    /\ \A x \in BOOLEAN : x \in Data
    /\ \A x \in SUBSET Mask : x \in Data
    /\ Null \in Data
BY DEF Data

\* A message passed on is no answer: its address is the sender's.
LEMMA ForwardPassed ==
    ASSUME Typed, NEW i \in Clients, list[i].pk # Null,
           list[i].pk.cmd = "MESSAGE", list[i].addr # BusAddr
    PROVE  Forward(i) \in Passed(i)
<1>1. i \in 1..Len(list)
  BY DEF Clients
<1>. QED
  BY <1>1, ForwardIs DEF Passed

\* Nor is one that is broadcast.
LEMMA BroadcastPassed ==
    ASSUME Typed, NEW i \in Clients, list[i].pk # Null,
           \/ list[i].pk.cmd = "MESSAGE" /\ list[i].pk.addr = BroadcastAddr
           \/ list[i].pk.cmd = "SHUTDOWN"
    PROVE  list[i].pk \in Passed(i)
<1>1. i \in 1..Len(list)
  BY DEF Clients
<1>2. BroadcastAddr # BusAddr
  <2>1. 0 \in BroadcastAddr /\ 0 \notin BusAddr
    BY DEF BroadcastAddr, BusAddr, DynFlag
  <2>. QED
    BY <2>1
<1>. QED
  BY <1>1, <1>2, ForwardIs DEF Passed

\* ib_cm_message
LEMMA MessageServes ==
    ASSUME Typed, NEW i \in Clients, list[i].addr # BusAddr, Message(i)
    PROVE  \E v : Effect(i, v) /\ Become(i, v)
<1>1. i \in 1..Len(list)
  BY DEF Clients
<1>2. list[i].pk # Null /\ list[i].pk.cmd = "MESSAGE"
  BY DEF Message, Turn
<1>b. Before \in Start(i)
  BY <1>1, StartBefore
<1>3. CASE list[i].pk.addr = BroadcastAddr
  <2>1. Becomes(Broadcast(i), i)
    BY <1>3 DEF Message
  <2>2. list[i].pk \in Passed(i)
    BY <1>2, <1>3, BroadcastPassed
  <2>3. Broadcast(i) \in BusType /\ Delivered(list[i].pk, Before, Broadcast(i))
    BY <1>1, <1>2, BroadcastSent DEF Sent
  <2>4. Effect(i, Broadcast(i))
    BY <1>1, <1>b, <2>2, <2>3, DeliverServes
  <2>. QED
    BY <2>1, <2>4, BecomesIs
<1>4. CASE list[i].pk.addr # BroadcastAddr
  <2>1. PICK w : w = Route(i)
    OBVIOUS
  <2>2. Becomes(IF "CON_MSG" \in w.list[i].status THEN Reply(w, i, w.ok) ELSE w, i)
    BY <1>4, <2>1 DEF Message
  <2>3. PICK p \in Passed(i) : p = Forward(i)
    BY <1>2, ForwardPassed
  <2>4. w \in BusType /\ Delivered(p, Before, w)
    BY <1>1, <1>2, <2>1, <2>3, RouteSent DEF Sent
  <2>5. w.ok \in Data
    BY <2>4, BusFields, ToData
  <2>6. Effect(i, Reply(w, i, w.ok))
    BY <1>1, <1>2, <1>b, <2>4, <2>5, ReplyServes
  <2>7. Effect(i, w)
    BY <1>1, <1>b, <2>4, DeliverServes
  <2>. QED
    BY <2>2, <2>6, <2>7, BecomesIs
<1>. QED
  BY <1>3, <1>4

\* ib_cm_set_addr: the new address, if any, is a fixed one that nobody has.
LEMMA SetAddrServes ==
    ASSUME Typed, NEW i \in Clients, SetAddr(i)
    PROVE  \E v : Effect(i, v) /\ Become(i, v)
<1>1. i \in 1..Len(list)
  BY DEF Clients
<1>2. list[i].pk # Null
  BY DEF SetAddr, Turn
<1>d. list[i] \in DeviceType
  BY <1>1 DEF Typed
<1>3. PICK new : /\ new = IF ~ValidFixAddr(list[i].pk.data) \/ Taken(list[i].pk.data)
                          THEN list[i].addr ELSE list[i].pk.data
  OBVIOUS
<1>4. Becomes(Reply([Before EXCEPT !.list[i].addr = new], i, new), i)
  BY <1>3 DEF SetAddr
<1>5. new \in Address /\ (new = list[i].addr \/ (ValidFixAddr(new) /\ ~Taken(new)))
  <2>1. list[i].addr \in Address
    BY <1>d, DeviceFields
  <2>2. \A a : ValidFixAddr(a) => a \in Address
    BY DEF ValidFixAddr, Address
  <2>. QED
    BY <1>3, <2>1, <2>2
<1>6. PICK e : e = [list[i] EXCEPT !.addr = new]
  OBVIOUS
<1>7. /\ e \in DeviceType /\ e.of = list[i].of /\ e.pk = list[i].pk /\ e.addr = new
      /\ AsBefore(list[i], e)
  BY <1>d, <1>5, <1>6 DEF DeviceType, AsBefore, Alive
<1>8. [Before EXCEPT !.list[i].addr = new] = StartAs(i, e)
  BY <1>6 DEF Before, StartAs
<1>9. StartAs(i, e) \in Start(i)
  BY <1>1, <1>5, <1>7, Restarted
<1>10. Effect(i, Reply(StartAs(i, e), i, new))
  BY <1>1, <1>2, <1>5, <1>9, ToData, OnlyReplies
<1>. QED
  BY <1>4, <1>8, <1>10, BecomesIs

\* ib_cm_set_status: the device is as alive as it was.
LEMMA SetStatusServes ==
    ASSUME Typed, NEW i \in Clients, SetStatus(i)
    PROVE  \E v : Effect(i, v) /\ Become(i, v)
<1>1. i \in 1..Len(list)
  BY DEF Clients
<1>2. list[i].pk # Null
  BY DEF SetStatus, Turn
<1>d. list[i] \in DeviceType
  BY <1>1 DEF Typed
<1>3. PICK s : s = list[i].pk.data \cap Mask
  OBVIOUS
<1>4. PICK t : t = (list[i].status \ Mask) \cup s
  OBVIOUS
<1>5. s \in SUBSET Mask /\ t \in StatusType
  BY <1>d, <1>3, <1>4, DeviceFields DEF StatusType
<1>6. PICK e : e = [list[i] EXCEPT !.status = t]
  OBVIOUS
<1>7. /\ e \in DeviceType /\ e.of = list[i].of /\ e.pk = list[i].pk /\ e.addr = list[i].addr
      /\ e.fd = list[i].fd /\ e.status = t
  BY <1>d, <1>5, <1>6 DEF DeviceType
<1>a. AsBefore(list[i], e)
  <2>1. "ALIVE" \notin Mask
    BY DEF Mask
  <2>. QED
    BY <1>4, <1>5, <1>7, <2>1 DEF AsBefore, Alive
<1>8. Becomes(Reply([Before EXCEPT !.list[i].status = t], i, s), i)
  <2>1. [Before EXCEPT !.list[i].status = t] = [Before EXCEPT !.list[i].status = (@ \ Mask) \cup s]
    BY <1>4 DEF Before
  <2>. QED
    BY <1>3, <2>1 DEF SetStatus
<1>9. [Before EXCEPT !.list[i].status = t] = StartAs(i, e)
  BY <1>6 DEF Before, StartAs
<1>10. StartAs(i, e) \in Start(i)
  BY <1>1, <1>7, <1>a, Restarted
<1>11. Effect(i, Reply(StartAs(i, e), i, s))
  BY <1>1, <1>2, <1>5, <1>10, ToData, OnlyReplies
<1>. QED
  BY <1>8, <1>9, <1>11, BecomesIs

\* ib_cm_get_status, ib_cm_get_addr and ib_cm_who
LEMMA GetServes ==
    ASSUME Typed, NEW i \in Clients, Get(i)
    PROVE  \E v : Effect(i, v) /\ Become(i, v)
<1>1. i \in 1..Len(list) /\ list[i].pk # Null
  BY DEF Get, Turn, Clients
<1>2. Effect(i, Reply(Before, i, Null))
  BY <1>1, ToData, StartBefore, OnlyReplies
<1>. QED
  BY <1>2, BecomesIs DEF Get

\* ib_cm_set_mcast_list
LEMMA SetMcastListServes ==
    ASSUME Typed, NEW i \in Clients, SetMcastList(i)
    PROVE  \E v : Effect(i, v) /\ Become(i, v)
<1>1. i \in 1..Len(list) /\ list[i].pk # Null /\ list[i].pk.cmd = "MCAST_LIST"
  BY DEF SetMcastList, Turn, Clients
<1>d. list[i] \in DeviceType
  BY <1>1 DEF Typed
<1>2. list[i].pk.data \in McastList
  BY <1>1, <1>d, DeviceFields DEF RequestType
<1>3. PICK e : e = [list[i] EXCEPT !.mcast = list[i].pk.data]
  OBVIOUS
<1>4. /\ e \in DeviceType /\ e.of = list[i].of /\ e.pk = list[i].pk /\ e.addr = list[i].addr
      /\ AsBefore(list[i], e)
  BY <1>d, <1>2, <1>3 DEF DeviceType, AsBefore, Alive
<1>5. [Before EXCEPT !.list[i].mcast = list[i].pk.data] = StartAs(i, e)
  BY <1>3 DEF Before, StartAs
<1>6. StartAs(i, e) \in Start(i)
  BY <1>1, <1>4, Restarted
<1>7. Effect(i, Reply(StartAs(i, e), i, Null))
  BY <1>1, <1>6, ToData, OnlyReplies
<1>. QED
  BY <1>5, <1>7, BecomesIs DEF SetMcastList

\* ib_cm_remove
LEMMA RemoveDeviceServes ==
    ASSUME Typed, NEW i \in Clients, RemoveDevice(i)
    PROVE  \E v : Effect(i, v) /\ Become(i, v)
<1>1. i \in 1..Len(list) /\ list[i].pk # Null /\ list[i].pk.cmd = "REMOVE"
  BY DEF RemoveDevice, Turn, Clients
<1>2. PICK w : w = Reply(Before, i, Null)
  OBVIOUS
<1>3. Effect(i, w)
  BY <1>1, <1>2, ToData, StartBefore, OnlyReplies
<1>4. PICK e : e = [w.list[i] EXCEPT !.status = w.list[i].status \ {"BCAST_ON", "ALIVE"}]
  OBVIOUS
<1>5. PICK v : v = [w EXCEPT !.list[i].status = @ \ {"BCAST_ON", "ALIVE"},
                            !.table = Closed(@, w.list[i].fd)]
  OBVIOUS
<1>a. v = QuitAs(w, i, e)
  <2>1. w \in BusType
    BY <1>3 DEF Effect
  <2>2. w = [list |-> w.list, table |-> w.table, inbox |-> w.inbox, slow |-> w.slow, ok |-> w.ok]
    BY <2>1 DEF BusType
  <2>3. PICK s, t : s = w.list[i].status \ {"BCAST_ON", "ALIVE"} /\ t = Closed(w.table, w.list[i].fd)
    OBVIOUS
  <2>4. v = [w EXCEPT !.list[i].status = s, !.table = t]
    BY <1>5, <2>3
  <2>5. e = [w.list[i] EXCEPT !.status = s]
    BY <1>4, <2>3
  <2>6. v = [w EXCEPT !.list[i] = e, !.table = t]
    BY <2>4, <2>5
  <2>. QED
    BY <2>2, <2>3, <2>6 DEF QuitAs
<1>6. Becomes(QuitAs(w, i, e), i)
  BY <1>2, <1>5, <1>a DEF RemoveDevice
<1>7. Effect(i, QuitAs(w, i, e))
  BY <1>1, <1>3, <1>4, RemovalServes
<1>. QED
  BY <1>6, <1>7, BecomesIs

\* ib_cm_shutdown
LEMMA ShutdownServes ==
    ASSUME Typed, NEW i \in Clients, Shutdown(i)
    PROVE  \E v : Effect(i, v) /\ Become(i, v)
<1>1. i \in 1..Len(list) /\ list[i].pk # Null /\ list[i].pk.cmd = "SHUTDOWN"
  BY DEF Shutdown, Turn, Clients
<1>2. PICK w : w = IF ShutdownEnabled THEN Broadcast(i) ELSE Before
  OBVIOUS
<1>3. Becomes(Reply(w, i, Null), i)
  BY <1>2 DEF Shutdown
<1>4. list[i].pk \in Passed(i)
  BY <1>1, BroadcastPassed
<1>5. w \in Sent(list[i].pk)
  BY <1>1, <1>2, BroadcastSent, BeforeSent
<1>6. w \in BusType /\ Delivered(list[i].pk, Before, w)
  BY <1>5 DEF Sent
<1>7. Effect(i, Reply(w, i, Null))
  BY <1>1, <1>4, <1>6, ToData, StartBefore, ReplyServes
<1>. QED
  BY <1>3, <1>7, BecomesIs

\* Every command.
LEMMA CommandServes ==
    ASSUME Typed, NEW i \in Clients, list[i].addr # BusAddr, Command(i)
    PROVE  /\ \E v : Effect(i, v) /\ Become(i, v)
           /\ phase = "serve" /\ list[i].pk # Null /\ done' \in BOOLEAN
           /\ UNCHANGED <<phase, ringing, ends>>
<1>1. \E v : Effect(i, v) /\ Become(i, v)
  BY MessageServes, SetAddrServes, SetStatusServes, GetServes, SetMcastListServes,
     RemoveDeviceServes, ShutdownServes DEF Command
<1>2. \E cmd : Turn(i, cmd)
  BY DEF Command, Message, SetAddr, SetStatus, Get, SetMcastList, RemoveDevice, Shutdown
<1>3. done' \in BOOLEAN
  <2>1. ASSUME UNCHANGED done PROVE done' \in BOOLEAN
    BY <2>1 DEF Typed
  <2>2. ASSUME Shutdown(i) PROVE done' \in BOOLEAN
    BY <2>2 DEF Shutdown
  <2>. QED
    BY <2>1, <2>2 DEF Command, Message, SetAddr, SetStatus, Get, SetMcastList, RemoveDevice
<1>. QED
  BY <1>1, <1>2, <1>3 DEF Turn

K == INSTANCE FoldProofs WITH Op <- KeepAlive

\* The cleaning of the list, as the fold the library's lemmas are about.
LEMMA KeepIsFold == \A w, s : FoldLeft(KeepAlive, w, s) = K!Fold(w, s)
BY DEF FoldLeft, MapThenFoldSet, Max, K!Fold, K!FoldLeft, K!MapThenFoldSet, K!Max

\* s has the live ones of the first n devices of l, in their order: the k-th is
\* the h[k]-th of l.
IsPick(h, s, l, n) ==
    /\ h \in [1..Len(s) -> 1..n]
    /\ \A k \in 1..Len(s) : s[k] = l[h[k]] /\ Alive(l[h[k]])
    /\ \A k, m \in 1..Len(s) : k < m => h[k] < h[m]
    /\ \A j \in 1..n : Alive(l[j]) => \E k \in 1..Len(s) : h[k] = j

Picked(s, l, n) == \E h : IsPick(h, s, l, n)

\* One turn of it.
LEMMA PickOne ==
    ASSUME NEW l \in Seq(DeviceType), NEW n \in 0..(Len(l) - 1),
           NEW s \in Seq(DeviceType), Picked(s, l, n)
    PROVE  Picked(KeepAlive(s, l[n + 1]), l, n + 1)
<1>1. PICK h : IsPick(h, s, l, n)
  BY DEF Picked
<1>n. n \in Nat /\ n + 1 \in 1..Len(l) /\ Len(s) \in Nat
  OBVIOUS
<1>d. PICK d \in DeviceType : d = l[n + 1]
  BY <1>n
<1>2. CASE ~Alive(d)
  <2>1. KeepAlive(s, d) = s
    BY <1>2 DEF KeepAlive
  <2>2. \A j \in 1..(n + 1) : j \in 1..n \/ j = n + 1
    BY <1>n
  <2>3. h \in [1..Len(s) -> 1..(n + 1)]
    BY <1>1, <1>n DEF IsPick
  <2>4. IsPick(h, s, l, n + 1)
    BY <1>1, <1>2, <1>d, <2>2, <2>3 DEF IsPick
  <2>. QED
    BY <1>d, <2>1, <2>4 DEF Picked
<1>3. CASE Alive(d)
  <2>1. PICK t : t = Append(s, d)
    OBVIOUS
  <2>2. /\ t \in Seq(DeviceType) /\ Len(t) = Len(s) + 1 /\ t[Len(s) + 1] = d
        /\ \A k \in 1..Len(s) : t[k] = s[k]
    BY <2>1
  <2>. DEFINE g == [k \in 1..Len(t) |-> IF k = Len(s) + 1 THEN n + 1 ELSE h[k]]
  <2>3. \A k \in 1..Len(t) : k = Len(s) + 1 \/ k \in 1..Len(s)
    BY <1>n, <2>2
  <2>4. \A k \in 1..Len(s) : h[k] \in 1..n
    BY <1>1 DEF IsPick
  <2>5. \A k \in 1..Len(s) : k \in 1..Len(t) /\ k # Len(s) + 1 /\ g[k] = h[k]
    BY <1>n, <2>2
  <2>6. Len(s) + 1 \in 1..Len(t) /\ g[Len(s) + 1] = n + 1
    BY <1>n, <2>2
  <2>7. g \in [1..Len(t) -> 1..(n + 1)]
    BY <1>n, <2>3, <2>4
  <2>. HIDE DEF g
  <2>8. \A k \in 1..Len(t) : t[k] = l[g[k]] /\ Alive(l[g[k]])
    BY <1>1, <1>3, <1>d, <2>2, <2>3, <2>5, <2>6 DEF IsPick
  <2>9. ASSUME NEW k \in 1..Len(t), NEW m \in 1..Len(t), k < m PROVE g[k] < g[m]
    <3>1. k \in 1..Len(s)
      BY <1>n, <2>2, <2>9
    <3>2. CASE m = Len(s) + 1
      BY <3>1, <3>2, <2>4, <2>5, <2>6, <1>n
    <3>3. CASE m \in 1..Len(s)
      BY <3>1, <3>3, <2>5, <2>9, <1>1 DEF IsPick
    <3>. QED
      BY <2>3, <3>2, <3>3
  <2>10. ASSUME NEW j \in 1..(n + 1), Alive(l[j]) PROVE \E k \in 1..Len(t) : g[k] = j
    <3>1. CASE j = n + 1
      BY <3>1, <2>6
    <3>2. CASE j # n + 1
      <4>1. j \in 1..n
        BY <3>2, <1>n
      <4>2. PICK k \in 1..Len(s) : h[k] = j
        BY <4>1, <2>10, <1>1 DEF IsPick
      <4>. QED
        BY <4>2, <2>5
    <3>. QED
      BY <3>1, <3>2
  <2>11. IsPick(g, t, l, n + 1)
    BY <2>7, <2>8, <2>9, <2>10 DEF IsPick
  <2>12. KeepAlive(s, d) = t
    BY <1>3, <2>1 DEF KeepAlive
  <2>. QED
    BY <1>d, <2>11, <2>12 DEF Picked
<1>. QED
  BY <1>2, <1>3

\* What the cleaning of the list at the start of a round leaves.
LEMMA KeptAlive ==
    ASSUME NEW l \in Seq(DeviceType)
    PROVE  /\ FoldLeft(KeepAlive, <<>>, l) \in Seq(DeviceType)
           /\ Picked(FoldLeft(KeepAlive, <<>>, l), l, Len(l))
<1>. DEFINE W == Seq(DeviceType)
<1>1. K!Closed(W, DeviceType)
  <2>. SUFFICES ASSUME NEW s \in W, NEW d \in DeviceType PROVE KeepAlive(s, d) \in W
    BY DEF K!Closed
  <2>1. Append(s, d) \in W
    OBVIOUS
  <2>. QED
    BY <2>1 DEF KeepAlive
<1>2. <<>> \in W
  OBVIOUS
<1>. HIDE DEF W
<1>3. K!HasRun(W, <<>>, l)
  BY <1>1, <1>2, K!FoldRun
<1>4. PICK r \in [0..Len(l) -> W] : K!IsRun(r, Len(l), <<>>, l) /\ K!Fold(<<>>, l) = r[Len(l)]
  BY <1>3 DEF K!HasRun
<1>. DEFINE S == {n \in Nat : n <= Len(l) /\ Picked(r[n], l, n)}
<1>5. 0 \in S
  <2>1. r[0] = <<>> /\ Len(l) \in Nat
    BY <1>4 DEF K!IsRun
  <2>. DEFINE h == [k \in 1..0 |-> 1]
  <2>2. IsPick(h, <<>>, l, 0)
    BY DEF IsPick
  <2>. QED
    BY <2>1, <2>2 DEF Picked
<1>6. ASSUME NEW n \in 0..(Len(l) - 1), n \in S PROVE n + 1 \in S
  <2>1. n + 1 \in 1..Len(l) /\ (n + 1) - 1 = n /\ n \in 0..Len(l) /\ n + 1 \in Nat
    OBVIOUS
  <2>2. r[n + 1] = KeepAlive(r[n], l[n + 1])
    BY <1>4, <2>1 DEF K!IsRun
  <2>3. r[n] \in Seq(DeviceType)
    BY <1>4, <2>1 DEF W
  <2>4. Picked(r[n], l, n)
    BY <1>6
  <2>5. Picked(r[n + 1], l, n + 1)
    BY <2>2, <2>3, <2>4, PickOne
  <2>. QED
    BY <2>1, <2>5
<1>7. Len(l) \in Nat /\ Len(l) \in 0..Len(l)
  OBVIOUS
<1>. HIDE DEF S
<1>8. \A n \in 0..Len(l) : n \in S
  <2>1. \A n \in 0..(Len(l) - 1) : n \in S => n + 1 \in S
    BY <1>6
  <2>. QED
    BY <1>5, <1>7, <2>1, K!InductionUpTo
<1>9. Picked(r[Len(l)], l, Len(l)) /\ r[Len(l)] \in W
  BY <1>4, <1>7, <1>8 DEF S
<1>. QED
  BY <1>4, <1>9, KeepIsFold DEF W

-----------------------------------------------------------------------------
(* The addresses made from the numbers of descriptors.                     *)
Bit(n, b) == (n \div Power[b + 1]) % 2

\* A number is twice its half, and its last bit.
LEMMA Half ==
    ASSUME NEW q \in Nat, NEW h \in Nat, 2 * h <= q, q <= 2 * h + 1
    PROVE  q = 2 * h + (q % 2)
OBVIOUS

SumOfBits(n) ==
    512 * ((n \div 512) % 2) + 256 * ((n \div 256) % 2) + 128 * ((n \div 128) % 2)
    + 64 * ((n \div 64) % 2) + 32 * ((n \div 32) % 2) + 16 * ((n \div 16) % 2)
    + 8 * ((n \div 8) % 2) + 4 * ((n \div 4) % 2) + 2 * ((n \div 2) % 2) + ((n \div 1) % 2)

\* A descriptor is the sum of its bits.
LEMMA BitsOf ==
    ASSUME NEW n \in 0..1023
    PROVE  n = SumOfBits(n)
<1>1. n \div 1 \in Nat /\ 1 * (n \div 1) <= n /\ n < 1 * (n \div 1) + 1
  OBVIOUS
<1>2. n \div 2 \in Nat /\ 2 * (n \div 2) <= n /\ n < 2 * (n \div 2) + 2
  OBVIOUS
<1>4. n \div 4 \in Nat /\ 4 * (n \div 4) <= n /\ n < 4 * (n \div 4) + 4
  OBVIOUS
<1>8. n \div 8 \in Nat /\ 8 * (n \div 8) <= n /\ n < 8 * (n \div 8) + 8
  OBVIOUS
<1>16. n \div 16 \in Nat /\ 16 * (n \div 16) <= n /\ n < 16 * (n \div 16) + 16
  OBVIOUS
<1>32. n \div 32 \in Nat /\ 32 * (n \div 32) <= n /\ n < 32 * (n \div 32) + 32
  OBVIOUS
<1>64. n \div 64 \in Nat /\ 64 * (n \div 64) <= n /\ n < 64 * (n \div 64) + 64
  OBVIOUS
<1>128. n \div 128 \in Nat /\ 128 * (n \div 128) <= n /\ n < 128 * (n \div 128) + 128
  OBVIOUS
<1>256. n \div 256 \in Nat /\ 256 * (n \div 256) <= n /\ n < 256 * (n \div 256) + 256
  OBVIOUS
<1>512. n \div 512 \in Nat /\ 512 * (n \div 512) <= n /\ n < 512 * (n \div 512) + 512
  OBVIOUS
<1>1024. n \div 1024 \in Nat /\ 1024 * (n \div 1024) <= n /\ n < 1024 * (n \div 1024) + 1024
  OBVIOUS
<1>h1. n \div 1 = 2 * (n \div 2) + ((n \div 1) % 2)
  BY <1>1, <1>2, Half
<1>h2. n \div 2 = 2 * (n \div 4) + ((n \div 2) % 2)
  BY <1>2, <1>4, Half
<1>h4. n \div 4 = 2 * (n \div 8) + ((n \div 4) % 2)
  BY <1>4, <1>8, Half
<1>h8. n \div 8 = 2 * (n \div 16) + ((n \div 8) % 2)
  BY <1>8, <1>16, Half
<1>h16. n \div 16 = 2 * (n \div 32) + ((n \div 16) % 2)
  BY <1>16, <1>32, Half
<1>h32. n \div 32 = 2 * (n \div 64) + ((n \div 32) % 2)
  BY <1>32, <1>64, Half
<1>h64. n \div 64 = 2 * (n \div 128) + ((n \div 64) % 2)
  BY <1>64, <1>128, Half
<1>h128. n \div 128 = 2 * (n \div 256) + ((n \div 128) % 2)
  BY <1>128, <1>256, Half
<1>h256. n \div 256 = 2 * (n \div 512) + ((n \div 256) % 2)
  BY <1>256, <1>512, Half
<1>h512. n \div 512 = 2 * (n \div 1024) + ((n \div 512) % 2)
  BY <1>512, <1>1024, Half
<1>. QED
  BY <1>1, <1>1024, <1>h1, <1>h2, <1>h4, <1>h8, <1>h16, <1>h32, <1>h64, <1>h128, <1>h256, <1>h512 DEF SumOfBits

\* Descriptors with the same bits are the same.
LEMMA SameBits ==
    ASSUME NEW n, NEW m, n \in 0..1023, m \in 0..1023, Bits(n) = Bits(m)
    PROVE  n = m
<1>1. ASSUME NEW b \in 0..9 PROVE (n \div Power[b + 1]) % 2 = (m \div Power[b + 1]) % 2
  <2>1. b \in Bits(n) <=> b \in Bits(m)
    OBVIOUS
  <2>2. Power[b + 1] \in {1, 2, 4, 8, 16, 32, 64, 128, 256, 512}
    BY DEF Power
  <2>3. (n \div Power[b + 1]) % 2 \in {0, 1} /\ (m \div Power[b + 1]) % 2 \in {0, 1}
    <3>1. \A x \in Int : x % 2 \in {0, 1}
      OBVIOUS
    <3>2. n \div Power[b + 1] \in Int /\ m \div Power[b + 1] \in Int
      BY <2>2
    <3>. QED
      BY <3>1, <3>2
  <2>. QED
    BY <2>1, <2>3 DEF Bits
<1>2. /\ (n \div 1) % 2 = (m \div 1) % 2 /\ (n \div 2) % 2 = (m \div 2) % 2
      /\ (n \div 4) % 2 = (m \div 4) % 2 /\ (n \div 8) % 2 = (m \div 8) % 2
      /\ (n \div 16) % 2 = (m \div 16) % 2
  BY <1>1 DEF Power
<1>3. /\ (n \div 32) % 2 = (m \div 32) % 2 /\ (n \div 64) % 2 = (m \div 64) % 2
      /\ (n \div 128) % 2 = (m \div 128) % 2 /\ (n \div 256) % 2 = (m \div 256) % 2
      /\ (n \div 512) % 2 = (m \div 512) % 2
  BY <1>1 DEF Power
<1>4. SumOfBits(n) = SumOfBits(m)
  BY <1>2, <1>3 DEF SumOfBits
<1>5. n = SumOfBits(n) /\ m = SumOfBits(m)
  BY BitsOf
<1>. QED
  BY <1>4, <1>5
-----------------------------------------------------------------------------
(* The inductive invariant.                                                *)

\* The bus' own device.
First ==
    /\ Len(list) >= 1
    /\ list[1].of = Null /\ list[1].fd = -1 /\ list[1].addr = BusAddr
    /\ Alive(list[1]) /\ list[1].pk = Null

\* An address is one that was asked for, or made from a descriptor; that of a
\* live device from its own.
Addressed ==
    \A i \in Clients :
       LET a == list[i].addr IN
       /\ ValidFixAddr(a) \/ \E f \in Fd : a = DynAddr[f]
       /\ Alive(list[i]) /\ DynFlag \in a => list[i].fd \in Fd /\ a = DynAddr[list[i].fd]

\* In a round, the descriptor of a live device is its client's, and that of a
\* removed one is closed.  Between rounds it may have been closed.
Linked ==
    \A i \in Clients :
       LET d == list[i] IN
       /\ d.of \in Client
       /\ phase = "select" => Alive(d) /\ d.fd \in Fd /\ table[d.fd] \in {d.of, Null}
       /\ phase = "serve" => IF Alive(d) THEN d.fd \in Fd /\ table[d.fd] = d.of
                             ELSE d.fd = -1 \/ table[d.fd] = Null

Numbered ==
    phase # "closed" =>
        \A i, j \in Clients : i # j /\ list[i].fd = list[j].fd => list[i].fd = -1

\* A client has called at most once, and is either waiting to be accepted or
\* has one device.
Once ==
    /\ \A i, j \in Clients : list[i].of = list[j].of => i = j
    /\ \A k, m \in 1..Len(backlog) : backlog[k] = backlog[m] => k = m
    /\ \A i \in Clients, k \in 1..Len(backlog) : list[i].of # backlog[k]
    /\ \A k \in 1..Len(backlog) : where[backlog[k]] # "out"
    /\ \A i \in Clients : where[list[i].of] # "out"

\* A call that has been reported is still there, and only who has called waits.
Rung ==
    /\ ringing => Len(backlog) >= 1
    /\ \A c \in Client : wait[c] # Null => where[c] = "in"

Fits == \A c \in Client : Len(inbox[c]) <= Room

BusInv ==
    /\ Typed /\ First /\ Addressed /\ UniqueAddress /\ Linked /\ NoLeak /\ Numbered
    /\ Once /\ Rung /\ Fits
-----------------------------------------------------------------------------
(* A command, in terms of the variables.                                   *)
CommandStep(i) ==
    /\ Len(list') = Len(list)
    /\ \A k \in 1..Len(list) :
          /\ list'[k].of = list[k].of
          /\ list'[k].pk = IF k = i THEN Null ELSE list[k].pk
          /\ k # i => list'[k].addr = list[k].addr
          /\ \/ AsBefore(list[k], list'[k])
             \/ HasDied(list[k], list'[k]) /\ table'[list[k].fd] = Null
             \/ /\ k = i /\ list[k].pk.cmd = "REMOVE"
                /\ ~Alive(list'[k]) /\ list'[k].fd = list[k].fd
                /\ list[k].fd \in Fd => table'[list[k].fd] = Null
    /\ \/ list'[i].addr = list[i].addr
       \/ ValidFixAddr(list'[i].addr) /\ ~Taken(list'[i].addr)
    /\ \A f \in Fd :
          \/ table'[f] = table[f]
          \/ table'[f] = Null /\ \E k \in 1..Len(list) : list[k].fd = f /\ ~Alive(list'[k])
    /\ \E p \in Passed(i), m \in [Client -> Seq(PacketType)] :
          Grown(p, inbox, m) /\ (inbox' = m \/ Replied(i, m, inbox'))

\* Every command is such a step.
LEMMA CommandIsStep ==
    ASSUME Typed, NEW i \in Clients, list[i].addr # BusAddr, Command(i)
    PROVE  CommandStep(i) /\ list' \in Seq(DeviceType) /\ Typed'
<1>1. PICK v : Effect(i, v) /\ Become(i, v)
  BY CommandServes
<1>2. /\ phase = "serve" /\ list[i].pk # Null /\ done' \in BOOLEAN
      /\ UNCHANGED <<phase, ringing, ends>>
  BY CommandServes
<1>3. i \in 1..Len(list)
  BY DEF Clients
<1>v. v \in BusType /\ Len(v.list) = Len(list)
  BY <1>1 DEF Effect, DevicesServed
<1>d. PICK d \in DeviceType : d = v.list[i]
  BY <1>3, <1>v, BusFields
<1>e. PICK e : e = [d EXCEPT !.pk = Null]
  OBVIOUS
<1>4. /\ e \in DeviceType /\ e.of = d.of /\ e.fd = d.fd /\ e.addr = d.addr /\ e.status = d.status
      /\ e.pk = Null
  BY <1>e DEF DeviceType
<1>l. PICK l \in Seq(DeviceType) : l = v.list /\ i \in 1..Len(l)
  BY <1>3, <1>v, BusFields
<1>5. list' = [l EXCEPT ![i] = e]
  BY <1>1, <1>d, <1>e, <1>l DEF Become
<1>6. list' \in Seq(DeviceType) /\ Len(list') = Len(list) /\ list'[i] = e
      /\ \A k \in 1..Len(list) : k # i => list'[k] = v.list[k]
  BY <1>4, <1>5, <1>l, <1>v
<1>7. ASSUME NEW k \in 1..Len(list)
      PROVE  /\ list'[k].of = v.list[k].of /\ list'[k].fd = v.list[k].fd
             /\ list'[k].addr = v.list[k].addr /\ list'[k].status = v.list[k].status
             /\ list'[k].pk = IF k = i THEN Null ELSE v.list[k].pk
  BY <1>4, <1>6, <1>d
<1>t. table' = v.table /\ inbox' = v.inbox /\ slow' = v.slow
  BY <1>1 DEF Become
<1>8. ASSUME NEW k \in 1..Len(list)
      PROVE  /\ list'[k].of = list[k].of
             /\ list'[k].pk = IF k = i THEN Null ELSE list[k].pk
             /\ k # i => list'[k].addr = list[k].addr
             /\ Alive(list'[k]) <=> Alive(v.list[k])
             /\ \/ AsBefore(list[k], list'[k])
                \/ HasDied(list[k], list'[k]) /\ table'[list[k].fd] = Null
                \/ /\ k = i /\ list[k].pk.cmd = "REMOVE"
                   /\ ~Alive(list'[k]) /\ list'[k].fd = list[k].fd
                   /\ list[k].fd \in Fd => table'[list[k].fd] = Null
  <2>1. /\ v.list[k].of = list[k].of /\ v.list[k].pk = list[k].pk
        /\ k # i => v.list[k].addr = list[k].addr
    BY <1>1 DEF Effect, DevicesServed, AddressesServed
  <2>2. Kept(k, v) \/ Died(k, v) \/ (k = i /\ Quit(k, v))
    BY <1>1 DEF Effect, DevicesServed
  <2>3. Alive(list'[k]) <=> Alive(v.list[k])
    BY <1>7 DEF Alive
  <2>4. /\ Kept(k, v) => AsBefore(list[k], list'[k])
        /\ Died(k, v) => HasDied(list[k], list'[k]) /\ table'[list[k].fd] = Null
        /\ Quit(k, v) => /\ list[k].pk.cmd = "REMOVE"
                         /\ ~Alive(list'[k]) /\ list'[k].fd = list[k].fd
                         /\ list[k].fd \in Fd => table'[list[k].fd] = Null
    BY <1>7, <1>t, <2>3 DEF Kept, Died, Quit, AsBefore, HasDied
  <2>. QED
    BY <1>7, <2>1, <2>2, <2>3, <2>4
<1>9. \/ list'[i].addr = list[i].addr
      \/ ValidFixAddr(list'[i].addr) /\ ~Taken(list'[i].addr)
  BY <1>1, <1>3, <1>7 DEF Effect, AddressesServed
<1>10. \A f \in Fd :
          \/ table'[f] = table[f]
          \/ table'[f] = Null /\ \E k \in 1..Len(list) : list[k].fd = f /\ ~Alive(list'[k])
  BY <1>1, <1>8, <1>t DEF Effect, TableServed
<1>11. \E p \in Passed(i), m \in [Client -> Seq(PacketType)] :
          Grown(p, inbox, m) /\ (inbox' = m \/ Replied(i, m, inbox'))
  BY <1>1, <1>t DEF Effect, InboxServed
<1>12. CommandStep(i)
  BY <1>6, <1>8, <1>9, <1>10, <1>11 DEF CommandStep
<1>13. Typed'
  BY <1>2, <1>6, <1>t, <1>v, BusFields DEF Typed, ends
<1>. QED
  BY <1>6, <1>12, <1>13

\* Fixed and dynamic addresses: neither null nor the bus', none of them both, and
\* a dynamic one is that of one descriptor.
LEMMA AddressFacts ==
    /\ \A a : ValidFixAddr(a) => /\ a \subseteq 0..10 /\ a # {} /\ a # BusAddr
                                 /\ DynFlag \notin a /\ MulticastFlag \notin a
    /\ \A f \in Fd : /\ DynAddr[f] \subseteq 0..10 /\ DynAddr[f] # {} /\ DynAddr[f] # BusAddr
                     /\ DynFlag \in DynAddr[f]
    /\ \A f, g \in Fd : DynAddr[f] = DynAddr[g] => f = g
<1>1. ASSUME NEW a, ValidFixAddr(a)
      PROVE  a \subseteq 0..10 /\ a # {} /\ a # BusAddr /\ DynFlag \notin a /\ MulticastFlag \notin a
  <2>1. a \subseteq 0..9 /\ a # {}
    BY <1>1 DEF ValidFixAddr
  <2>2. 10 \notin a /\ 11 \notin a /\ \A x \in a : x \in 0..10
    BY <2>1
  <2>. QED
    BY <2>1, <2>2 DEF DynFlag, MulticastFlag, BusAddr
<1>2. \A n : Bits(n) \subseteq 0..9
  BY DEF Bits
<1>3. \A f \in Fd : f \in 0..1023 /\ f # 0
  BY IarBusAssumption
<1>4. ASSUME NEW f \in Fd PROVE Bits(f) # {}
  <2>1. Bits(0) = {}
    <3>1. \A b \in 0..9 : Power[b + 1] \in {1, 2, 4, 8, 16, 32, 64, 128, 256, 512}
      BY DEF Power
    <3>2. \A p \in {1, 2, 4, 8, 16, 32, 64, 128, 256, 512} : (0 \div p) % 2 = 0
      OBVIOUS
    <3>. QED
      BY <3>1, <3>2 DEF Bits
  <2>2. 0 \in 0..1023 /\ f \in 0..1023 /\ f # 0
    BY <1>3
  <2>. QED
    <3>. SUFFICES ASSUME Bits(f) = {} PROVE FALSE
      OBVIOUS
    <3>1. Bits(f) = Bits(0)
      BY <2>1
    <3>2. f = 0
      BY <2>2, <3>1, SameBits, Zenon
    <3>. QED
      BY <2>2, <3>2
<1>5. ASSUME NEW f \in Fd
      PROVE  /\ DynAddr[f] = {10} \cup Bits(f)
             /\ DynAddr[f] \subseteq 0..10 /\ DynAddr[f] # {} /\ DynAddr[f] # BusAddr
             /\ DynFlag \in DynAddr[f]
  <2>1. DynAddr[f] = {10} \cup Bits(f)
    BY DEF DynAddr, DynFlag
  <2>2. PICK b \in 0..9 : b \in Bits(f)
    BY <1>2, <1>4
  <2>3. b \in DynAddr[f] /\ b # 10
    BY <2>1, <2>2
  <2>4. \A x \in DynAddr[f] : x \in 0..10
    BY <2>1, <1>2
  <2>. QED
    BY <2>1, <2>3, <2>4 DEF BusAddr, DynFlag
<1>6. ASSUME NEW f \in Fd, NEW g \in Fd, DynAddr[f] = DynAddr[g] PROVE f = g
  <2>1. 10 \notin Bits(f) /\ 10 \notin Bits(g)
    BY <1>2
  <2>2. Bits(f) = Bits(g)
    BY <1>5, <1>6, <2>1
  <2>. QED
    BY <2>2, <1>3, SameBits, Zenon
<1>. QED
  BY <1>1, <1>5, <1>6

\* So no client has the address of the bus.
LEMMA AddressesKept ==
    ASSUME Addressed
    PROVE  \A i \in Clients : /\ list[i].addr \subseteq 0..10
                              /\ list[i].addr # {} /\ list[i].addr # BusAddr
BY AddressFacts DEF Addressed

\* A command leaves the invariant.
LEMMA CommandKeeps ==
    ASSUME BusInv, NEW i \in Clients, Command(i)
    PROVE  BusInv'
<1>1. list[i].addr # BusAddr
  BY AddressesKept DEF BusInv
<1>2. CommandStep(i) /\ list' \in Seq(DeviceType) /\ Typed'
  BY <1>1, CommandIsStep DEF BusInv
<1>3. phase = "serve" /\ UNCHANGED <<phase, ringing, ends>>
  BY <1>1, CommandServes DEF BusInv
<1>n. Len(list) \in Nat /\ Len(list) >= 1 /\ i \in 1..Len(list) /\ i # 1
  BY DEF BusInv, Typed, First, Clients
<1>c. Clients' = Clients /\ Clients \subseteq 1..Len(list) /\ Len(list') = Len(list)
  BY <1>2 DEF CommandStep, Clients
<1>4. ASSUME NEW k \in 1..Len(list)
      PROVE  /\ list'[k].of = list[k].of
             /\ list'[k].pk = IF k = i THEN Null ELSE list[k].pk
             /\ k # i => list'[k].addr = list[k].addr
             /\ Alive(list'[k]) => Alive(list[k]) /\ list'[k].fd = list[k].fd
             /\ list'[k].fd = list[k].fd \/ list'[k].fd = -1
             /\ list'[k].fd # list[k].fd => table'[list[k].fd] = Null
             /\ Alive(list[k]) /\ ~Alive(list'[k]) =>
                   list'[k].fd = -1 \/ (list[k].fd \in Fd => table'[list[k].fd] = Null)
  BY <1>2 DEF CommandStep, AsBefore, HasDied
<1>5. \A f \in Fd : \/ table'[f] = table[f]
                    \/ table'[f] = Null /\ \E k \in 1..Len(list) : list[k].fd = f /\ ~Alive(list'[k])
  BY <1>2 DEF CommandStep
<1>6. First'
  <2>1. 1 \in 1..Len(list)
    BY <1>n
  <2>2. /\ list[1].of = Null /\ list[1].fd = -1 /\ list[1].addr = BusAddr
        /\ Alive(list[1]) /\ list[1].pk = Null
    BY DEF BusInv, First
  <2>3. AsBefore(list[1], list'[1])
    BY <1>2, <1>n, <2>1, <2>2 DEF CommandStep, HasDied
  <2>. QED
    BY <1>4, <1>n, <1>c, <2>1, <2>2, <2>3 DEF First, AsBefore
<1>7. \/ list'[i].addr = list[i].addr
      \/ ValidFixAddr(list'[i].addr) /\ \A j \in 1..Len(list) : list[j].addr # list'[i].addr
  <2>1. ASSUME ValidFixAddr(list'[i].addr), ~Taken(list'[i].addr), NEW j \in 1..Len(list)
        PROVE  list[j].addr # list'[i].addr
    <3>1. DOMAIN list = 1..Len(list)
      BY DEF BusInv, Typed
    <3>2. ~Reaches(list'[i].addr, list[j].addr)
      BY <2>1, <3>1 DEF Taken
    <3>. QED
      BY <2>1, <3>2, AddressFacts DEF Reaches
  <2>. QED
    BY <1>2, <2>1 DEF CommandStep
<1>8. Addressed'
  <2>. SUFFICES ASSUME NEW k \in Clients
                PROVE  LET a == list'[k].addr IN
                       /\ ValidFixAddr(a) \/ \E f \in Fd : a = DynAddr[f]
                       /\ Alive(list'[k]) /\ DynFlag \in a =>
                             list'[k].fd \in Fd /\ a = DynAddr[list'[k].fd]
    BY <1>c DEF Addressed
  <2>0. k \in 1..Len(list)
    BY <1>c
  <2>1. CASE list'[k].addr = list[k].addr
    BY <1>4, <2>0, <2>1 DEF BusInv, Addressed
  <2>2. CASE list'[k].addr # list[k].addr
    <3>1. k = i /\ ValidFixAddr(list'[k].addr)
      BY <1>4, <1>7, <2>0, <2>2
    <3>2. DynFlag \notin list'[k].addr
      BY <3>1, AddressFacts
    <3>. QED
      BY <3>1, <3>2
  <2>. QED
    BY <2>1, <2>2
<1>9. UniqueAddress'
  <2>d. DOMAIN list' = 1..Len(list) /\ DOMAIN list = 1..Len(list)
    BY <1>2, <1>c DEF BusInv, Typed
  <2>. SUFFICES ASSUME NEW j \in 1..Len(list), NEW k \in 1..Len(list), j # k,
                       Alive(list'[j]), Alive(list'[k])
                PROVE  list'[j].addr # list'[k].addr
    BY <2>d DEF UniqueAddress
  <2>1. list[j].addr # list[k].addr
    BY <1>4, <2>d DEF BusInv, UniqueAddress
  <2>2. CASE j = i
    BY <2>1, <2>2, <1>4, <1>7
  <2>3. CASE k = i
    BY <2>1, <2>3, <1>4, <1>7
  <2>4. CASE j # i /\ k # i
    BY <2>1, <2>4, <1>4
  <2>. QED
    BY <2>2, <2>3, <2>4
<1>10. Linked'
  <2>. SUFFICES ASSUME NEW k \in Clients
                PROVE  /\ list'[k].of \in Client
                       /\ IF Alive(list'[k]) THEN list'[k].fd \in Fd /\ table'[list'[k].fd] = list'[k].of
                          ELSE list'[k].fd = -1 \/ table'[list'[k].fd] = Null
    BY <1>3, <1>c DEF Linked
  <2>0. k \in 1..Len(list)
    BY <1>c
  <2>1. /\ list[k].of \in Client
        /\ IF Alive(list[k]) THEN list[k].fd \in Fd /\ table[list[k].fd] = list[k].of
           ELSE list[k].fd = -1 \/ table[list[k].fd] = Null
    BY <1>3 DEF BusInv, Linked
  <2>f. list[k].fd \in Fd \cup {-1}
    BY <2>0, DeviceFields DEF BusInv, Typed
  <2>2. CASE Alive(list'[k])
    <3>1. Alive(list[k]) /\ list'[k].fd = list[k].fd /\ list[k].fd \in Fd
      BY <1>4, <2>0, <2>1, <2>2
    <3>2. table'[list[k].fd] = table[list[k].fd]
      <4>1. SUFFICES ASSUME NEW m \in 1..Len(list), list[m].fd = list[k].fd, ~Alive(list'[m])
                     PROVE  FALSE
        BY <1>5, <3>1
      <4>2. m # k /\ m # 1
        BY <2>2, <3>1, <4>1, NoFd DEF BusInv, First
      <4>3. m \in Clients
        BY <4>2, <1>n DEF Clients
      <4>. QED
        BY <1>3, <3>1, <4>1, <4>2, <4>3, NoFd DEF BusInv, Numbered
    <3>. QED
      BY <1>4, <2>0, <2>1, <2>2, <3>1, <3>2
  <2>3. CASE ~Alive(list'[k])
    <3>1. CASE Alive(list[k])
      BY <1>4, <2>0, <2>1, <2>3, <3>1
    <3>2. CASE ~Alive(list[k])
      BY <1>4, <1>5, <2>0, <2>1, <2>3, <2>f, <3>2
    <3>. QED
      BY <3>1, <3>2
  <2>. QED
    BY <2>1, <2>2, <2>3, <1>4, <2>0
<1>11. NoLeak'
  <2>. SUFFICES ASSUME NEW f \in Fd, table'[f] # Null
                PROVE  \E k \in Clients : list'[k].fd = f
    BY <1>c DEF NoLeak, Clients
  <2>1. table[f] # Null /\ table'[f] = table[f]
    BY <1>5
  <2>2. PICK k \in Clients : list[k].fd = f
    BY <2>1 DEF BusInv, NoLeak, Clients
  <2>3. list'[k].fd = f
    BY <1>4, <1>c, <2>2
  <2>. QED
    BY <2>3
<1>12. Numbered'
  BY <1>3, <1>4, <1>c DEF BusInv, Numbered
<1>13. Once' /\ Rung'
  BY <1>3, <1>4, <1>c DEF BusInv, Once, Rung, ends
<1>14. Fits'
  <2>1. PICK p \in Passed(i), m \in [Client -> Seq(PacketType)] :
           Grown(p, inbox, m) /\ (inbox' = m \/ Replied(i, m, inbox'))
    BY <1>2 DEF CommandStep
  <2>2. \A c \in Client : Len(m[c]) <= Room
    BY <2>1 DEF BusInv, Fits, Grown
  <2>3. ASSUME Replied(i, m, inbox'), NEW c \in Client PROVE Len(inbox'[c]) <= Room
    <3>1. PICK b \in Client, data \in Data :
             Len(m[b]) < Room /\ inbox' = [m EXCEPT ![b] = Append(@, Answer(i, data))]
      BY <2>3 DEF Replied
    <3>2. PICK q : q = Answer(i, data)
      OBVIOUS
    <3>3. PICK n \in Seq(PacketType) : n = m[b]
      BY <2>1
    <3>4. inbox'[c] = IF c = b THEN Append(n, q) ELSE m[c]
      BY <2>1, <3>1, <3>2, <3>3
    <3>5. Len(Append(n, q)) = Len(n) + 1 /\ Len(n) \in Nat
      OBVIOUS
    <3>. QED
      BY <2>2, <3>1, <3>3, <3>4, <3>5, IarBusAssumption
  <2>. QED
    BY <2>1, <2>2, <2>3 DEF Fits
<1>. QED
  BY <1>2, <1>6, <1>8, <1>9, <1>10, <1>11, <1>12, <1>13, <1>14 DEF BusInv
-----------------------------------------------------------------------------
(* The reading of what the clients have sent, in terms of the variables.   *)
SelectStep ==
    /\ list' \in Seq(DeviceType) /\ Len(list') = Len(list) /\ list'[1] = list[1]
    /\ \A i \in Clients :
          /\ list[i].fd \in Fd /\ table[list[i].fd] = list[i].of /\ Alive(list[i])
          /\ list'[i].of = list[i].of /\ list'[i].addr = list[i].addr
          /\ list'[i].pk = IF outbox[list[i].of] = <<>> THEN list[i].pk ELSE Head(outbox[list[i].of])
          /\ IF Ended(list[i].of) THEN list'[i].fd = -1 /\ ~Alive(list'[i])
             ELSE list'[i].fd = list[i].fd /\ Alive(list'[i])

\* Select is such a step: between rounds every device is live and connected.
LEMMA SelectIsStep ==
    ASSUME BusInv, Select
    PROVE  SelectStep
<1>1. Len(list) \in Nat /\ Len(list) >= 1 /\ DOMAIN list = 1..Len(list)
  BY DEF BusInv, Typed, First
<1>2. ASSUME NEW i \in Clients
      PROVE  /\ i \in 1..Len(list) /\ i # 1 /\ list[i] \in DeviceType
             /\ Alive(list[i]) /\ list[i].fd \in Fd /\ list[i].of \in Client
             /\ Caller(i) = list[i].of /\ table[list[i].fd] = list[i].of
  <2>1. i \in 1..Len(list) /\ i # 1
    BY <1>1 DEF Clients
  <2>2. list[i] \in DeviceType
    BY <2>1 DEF BusInv, Typed
  <2>3. phase = "select" /\ Caller(i) # Null
    BY DEF Select, Clients
  <2>. QED
    BY <2>1, <2>2, <2>3 DEF BusInv, Linked, Caller
<1>3. list' = [i \in 1..Len(list) |->
                   IF i = 1 THEN list[i]
                   ELSE IF Ended(Caller(i)) THEN Dead(list[i])
                   ELSE IF outbox[Caller(i)] = <<>> THEN list[i]
                   ELSE [list[i] EXCEPT !.pk = Head(outbox[Caller(i)])]]
  BY <1>1 DEF Select
<1>4. ASSUME NEW i \in Clients
      PROVE  /\ list'[i] \in DeviceType
             /\ list'[i].of = list[i].of /\ list'[i].addr = list[i].addr
             /\ list'[i].pk = IF outbox[list[i].of] = <<>> THEN list[i].pk ELSE Head(outbox[list[i].of])
             /\ IF Ended(list[i].of) THEN list'[i].fd = -1 /\ ~Alive(list'[i])
                ELSE list'[i].fd = list[i].fd /\ Alive(list'[i])
  <2>. DEFINE c == list[i].of
  <2>1. /\ list[i] \in DeviceType /\ Alive(list[i]) /\ c \in Client
        /\ list'[i] = IF Ended(c) THEN Dead(list[i])
                      ELSE IF outbox[c] = <<>> THEN list[i]
                      ELSE [list[i] EXCEPT !.pk = Head(outbox[c])]
    BY <1>2, <1>3
  <2>2. CASE Ended(c)
    <3>1. outbox[c] = <<>>
      BY <2>2 DEF Ended
    <3>. QED
      BY <2>1, <2>2, <3>1, DeadIs
  <2>3. CASE ~Ended(c) /\ outbox[c] = <<>>
    BY <2>1, <2>3
  <2>4. CASE ~Ended(c) /\ outbox[c] # <<>>
    <3>1. PICK o \in Seq(RequestType) : o = outbox[c]
      BY <2>1 DEF BusInv, Typed
    <3>2. Head(o) \in RequestType
      BY <2>4, <3>1
    <3>3. PICK e : e = [list[i] EXCEPT !.pk = Head(o)]
      OBVIOUS
    <3>4. /\ e \in DeviceType /\ e.of = list[i].of /\ e.addr = list[i].addr /\ e.fd = list[i].fd
          /\ e.status = list[i].status /\ e.pk = Head(o)
      BY <2>1, <3>2, <3>3 DEF DeviceType
    <3>5. Alive(e)
      BY <2>1, <3>4 DEF Alive
    <3>6. list'[i] = e
      BY <2>1, <2>4, <3>1, <3>3
    <3>. QED
      BY <2>4, <3>1, <3>4, <3>5, <3>6
  <2>. QED
    BY <2>2, <2>3, <2>4
<1>5. list'[1] = list[1] /\ list[1] \in DeviceType
  BY <1>1, <1>3 DEF BusInv, Typed
<1>6. \A i \in 1..Len(list) : list'[i] \in DeviceType
  <2>1. \A i \in 1..Len(list) : i = 1 \/ i \in Clients
    BY <1>1 DEF Clients
  <2>. QED
    BY <2>1, <1>4, <1>5
<1>7. list' \in Seq(DeviceType) /\ Len(list') = Len(list)
  <2>1. PICK n \in Nat : n = Len(list)
    BY <1>1
  <2>2. list' \in [1..n -> DeviceType]
    BY <1>3, <1>6, <2>1
  <2>. QED
    BY <2>1, <2>2
<1>. QED
  BY <1>2, <1>4, <1>5, <1>7 DEF SelectStep

\* Select leaves the invariant.
LEMMA SelectKeeps ==
    ASSUME BusInv, Select
    PROVE  BusInv'
<1>s. SelectStep
  BY SelectIsStep
<1>1. /\ phase = "select" /\ phase' = "serve"
      /\ table' = [f \in Fd |-> IF table[f] # Null /\ Ended(table[f]) THEN Null ELSE table[f]]
      /\ outbox' = [c \in Client |-> IF Connected(c) /\ outbox[c] # <<>> THEN Tail(outbox[c]) ELSE outbox[c]]
      /\ ringing' = (backlog # <<>>)
      /\ UNCHANGED <<done, backlog, where, wait, con, sent, inbox, slow>>
  BY DEF Select
<1>n. Len(list) \in Nat /\ Len(list) >= 1 /\ Clients' = Clients /\ Len(list') = Len(list)
  BY <1>s DEF BusInv, Typed, First, SelectStep, Clients
<1>c. \A i \in 1..Len(list) : i = 1 \/ i \in Clients
  BY <1>n DEF Clients
<1>2. ASSUME NEW i \in Clients
      PROVE  /\ list[i].fd \in Fd /\ table[list[i].fd] = list[i].of /\ Alive(list[i])
             /\ list'[i].of = list[i].of /\ list'[i].addr = list[i].addr
             /\ IF Ended(list[i].of) THEN list'[i].fd = -1 /\ ~Alive(list'[i])
                ELSE list'[i].fd = list[i].fd /\ Alive(list'[i])
             /\ list[i].of \in Client
  BY <1>s DEF SelectStep, BusInv, Linked
<1>3. Typed'
  <2>1. table' \in [Fd -> Peer]
    BY <1>1 DEF BusInv, Typed, Peer
  <2>2. outbox' \in [Client -> Seq(RequestType)]
    <3>1. ASSUME NEW c \in Client
          PROVE  (IF Connected(c) /\ outbox[c] # <<>> THEN Tail(outbox[c]) ELSE outbox[c]) \in Seq(RequestType)
      <4>1. PICK o \in Seq(RequestType) : o = outbox[c]
        BY DEF BusInv, Typed
      <4>2. o # <<>> => Tail(o) \in Seq(RequestType)
        OBVIOUS
      <4>. QED
        BY <4>1, <4>2
    <3>. QED
      BY <1>1, <3>1
  <2>3. ringing' \in BOOLEAN
    BY <1>1
  <2>. QED
    BY <1>1, <1>s, <2>1, <2>2, <2>3 DEF BusInv, Typed, SelectStep
<1>4. First'
  BY <1>s, <1>n DEF BusInv, First, SelectStep
<1>5. Addressed'
  BY <1>2, <1>n DEF BusInv, Addressed
<1>6. UniqueAddress'
  <2>1. DOMAIN list' = 1..Len(list) /\ DOMAIN list = 1..Len(list)
    BY <1>s DEF BusInv, Typed, SelectStep
  <2>2. \A i \in 1..Len(list) : list'[i].addr = list[i].addr /\ (Alive(list'[i]) => Alive(list[i]))
    BY <1>s, <1>c, <1>2 DEF SelectStep
  <2>. QED
    BY <2>1, <2>2 DEF BusInv, UniqueAddress
<1>7. Linked'
  <2>. SUFFICES ASSUME NEW k \in Clients
                PROVE  /\ list'[k].of \in Client
                       /\ IF Alive(list'[k]) THEN list'[k].fd \in Fd /\ table'[list'[k].fd] = list'[k].of
                          ELSE list'[k].fd = -1 \/ table'[list'[k].fd] = Null
    BY <1>1, <1>n DEF Linked
  <2>. QED
    BY <1>1, <1>2
<1>8. NoLeak'
  <2>. SUFFICES ASSUME NEW f \in Fd, table'[f] # Null
                PROVE  \E k \in Clients : list'[k].fd = f
    BY <1>n DEF NoLeak, Clients
  <2>1. table[f] # Null /\ ~Ended(table[f])
    BY <1>1
  <2>2. PICK k \in Clients : list[k].fd = f
    BY <2>1 DEF BusInv, NoLeak, Clients
  <2>. QED
    BY <1>2, <2>1, <2>2
<1>9. Numbered'
  <2>1. \A i \in Clients : list'[i].fd = list[i].fd \/ list'[i].fd = -1
    BY <1>2
  <2>. QED
    BY <1>1, <1>n, <2>1 DEF BusInv, Numbered
<1>10. Once'
  BY <1>1, <1>2, <1>n DEF BusInv, Once
<1>11. Rung'
  <2>1. backlog # <<>> => Len(backlog) >= 1
    BY DEF BusInv, Typed
  <2>. QED
    BY <1>1, <2>1 DEF BusInv, Rung
<1>12. Fits'
  BY <1>1 DEF BusInv, Fits
<1>. QED
  BY <1>3, <1>4, <1>5, <1>6, <1>7, <1>8, <1>9, <1>10, <1>11, <1>12 DEF BusInv
-----------------------------------------------------------------------------
(* The end of a round with devices l, descriptors t and calls b.           *)
Owners(l) == 2..Len(l)

RoundDevices(l, t) ==
    /\ Len(l) >= 1
    /\ l[1].of = Null /\ l[1].fd = -1 /\ l[1].addr = BusAddr /\ Alive(l[1]) /\ l[1].pk = Null
    /\ \A i \in Owners(l) :
          LET a == l[i].addr IN
          /\ l[i].of \in Client /\ where[l[i].of] # "out" /\ l[i].pk = Null
          /\ ValidFixAddr(a) \/ \E f \in Fd : a = DynAddr[f]
          /\ Alive(l[i]) /\ DynFlag \in a => a = DynAddr[l[i].fd]
          /\ Alive(l[i]) => l[i].fd \in Fd /\ t[l[i].fd] = l[i].of
    /\ \A i, j \in Owners(l) : l[i].of = l[j].of => i = j
    /\ \A i, j \in 1..Len(l) : i # j /\ Alive(l[i]) /\ Alive(l[j]) => l[i].addr # l[j].addr
    /\ \A f \in Fd : t[f] # Null => \E i \in Owners(l) : Alive(l[i]) /\ l[i].fd = f

RoundCalls(l, b) ==
    /\ \A k, m \in 1..Len(b) : b[k] = b[m] => k = m
    /\ \A i \in Owners(l), k \in 1..Len(b) : l[i].of # b[k]
    /\ \A k \in 1..Len(b) : where[b[k]] # "out"

\* What is left of them.
Left(l) ==
    \E h \in [1..Len(list') -> 1..Len(l)] :
       /\ \A k \in 1..Len(list') : list'[k] = l[h[k]]
       /\ \A k, m \in 1..Len(list') : h[k] = h[m] => k = m
       /\ Len(list') >= 1 /\ h[1] = 1
       /\ \/ phase' = "closed"
          \/ /\ \A k \in 1..Len(list') : Alive(l[h[k]])
             /\ \A i \in 1..Len(l) : Alive(l[i]) => \E k \in 1..Len(list') : h[k] = i

\* The loop of clean_dev_list leaves the live devices, each once and in order.
LEMMA RoundLeaves ==
    ASSUME NEW l \in Seq(DeviceType), NEW t, NEW b, RoundDevices(l, t), NextRound(l, t, b)
    PROVE  list' \in Seq(DeviceType) /\ Left(l) /\ phase' \in {"select", "closed"}
<1>n. Len(l) \in Nat /\ Len(l) >= 1 /\ 1 \in 1..Len(l) /\ Alive(l[1])
  BY DEF RoundDevices
<1>1. CASE done
  <2>1. list' = l /\ phase' = "closed"
    BY <1>1 DEF NextRound
  <2>. DEFINE h == [k \in 1..Len(l) |-> k]
  <2>2. h \in [1..Len(l) -> 1..Len(l)] /\ h[1] = 1 /\ \A k \in 1..Len(l) : h[k] = k
    BY <1>n
  <2>. HIDE DEF h
  <2>. QED
    BY <1>n, <2>1, <2>2 DEF Left
<1>2. CASE ~done
  <2>1. list' = FoldLeft(KeepAlive, <<>>, l) /\ phase' = "select"
    BY <1>2 DEF NextRound
  <2>2. list' \in Seq(DeviceType) /\ Picked(list', l, Len(l))
    BY <2>1, KeptAlive
  <2>3. PICK h : IsPick(h, list', l, Len(l))
    BY <2>2 DEF Picked
  <2>4. PICK s \in Seq(DeviceType) : s = list'
    BY <2>2
  <2>5. /\ h \in [1..Len(s) -> 1..Len(l)]
        /\ \A k \in 1..Len(s) : s[k] = l[h[k]] /\ Alive(l[h[k]])
        /\ \A k, m \in 1..Len(s) : k < m => h[k] < h[m]
        /\ \A j \in 1..Len(l) : Alive(l[j]) => \E k \in 1..Len(s) : h[k] = j
    BY <2>3, <2>4 DEF IsPick
  <2>6. ASSUME NEW k \in 1..Len(s), NEW m \in 1..Len(s), h[k] = h[m] PROVE k = m
    <3>1. k \in Int /\ m \in Int /\ h[k] \in Int
      BY <2>5
    <3>2. ~(k < m) /\ ~(m < k)
      BY <2>5, <2>6, <3>1
    <3>. QED
      BY <3>1, <3>2
  <2>7. PICK k \in 1..Len(s) : h[k] = 1
    BY <1>n, <2>5
  <2>8. k = 1 /\ Len(s) >= 1
    <3>1. Len(s) >= 1 /\ 1 \in 1..Len(s) /\ k >= 1
      OBVIOUS
    <3>2. h[1] \in 1..Len(l)
      BY <2>5, <3>1
    <3>3. ~(1 < k)
      BY <2>5, <2>7, <3>1, <3>2
    <3>. QED
      BY <3>1, <3>3
  <2>9. Left(l)
    BY <2>4, <2>5, <2>6, <2>7, <2>8 DEF Left
  <2>. QED
    BY <2>1, <2>2, <2>9
<1>. QED
  BY <1>1, <1>2

\* The end of a round leaves the invariant.
LEMMA RoundKeeps ==
    ASSUME BusInv, NEW l \in Seq(DeviceType), NEW t \in [Fd -> Peer], NEW b \in Seq(Client),
           RoundDevices(l, t), RoundCalls(l, b), NextRound(l, t, b),
           ringing' = FALSE, UNCHANGED <<done, where, outbox, wait, con, sent, inbox, slow>>
    PROVE  /\ BusInv'
           /\ \A k \in Clients' : \E j \in Owners(l) : list'[k] = l[j]
           /\ phase' = "select" => \A k \in Clients' : Alive(list'[k])
           /\ phase' \in {"select", "closed"}
<1>1. list' \in Seq(DeviceType) /\ Left(l) /\ phase' \in {"select", "closed"}
  BY RoundLeaves
<1>2. PICK h \in [1..Len(list') -> 1..Len(l)] :
       /\ \A k \in 1..Len(list') : list'[k] = l[h[k]]
       /\ \A k, m \in 1..Len(list') : h[k] = h[m] => k = m
       /\ Len(list') >= 1 /\ h[1] = 1
       /\ \/ phase' = "closed"
          \/ /\ \A k \in 1..Len(list') : Alive(l[h[k]])
             /\ \A i \in 1..Len(l) : Alive(l[i]) => \E k \in 1..Len(list') : h[k] = i
  BY <1>1 DEF Left
<1>n. Len(list') \in Nat /\ Len(l) \in Nat /\ 1 \in 1..Len(list')
  BY <1>1, <1>2
<1>3. ASSUME NEW k \in Clients'
      PROVE  k \in 1..Len(list') /\ h[k] \in Owners(l) /\ list'[k] = l[h[k]]
  <2>1. k \in 1..Len(list') /\ k # 1
    BY <1>n DEF Clients
  <2>2. h[k] \in 1..Len(l) /\ h[k] # 1
    BY <1>2, <1>n, <2>1
  <2>3. h[k] \in Owners(l)
    BY <1>n, <2>2 DEF Owners
  <2>. QED
    BY <1>2, <2>1, <2>3
<1>4. \/ phase' = "closed" /\ table' = [f \in Fd |-> Null] /\ backlog' = <<>>
      \/ /\ phase' = "select" /\ backlog' = b
         /\ table' = [f \in Fd |-> IF \E i \in 2..Len(l) : Removed(l[i]) /\ l[i].fd = f THEN Null ELSE t[f]]
  BY DEF NextRound
<1>t. \A f \in Fd : table'[f] = t[f] \/ table'[f] = Null
  BY <1>4
<1>5. Typed'
  <2>1. table' \in [Fd -> Peer]
    BY <1>4 DEF Peer
  <2>2. backlog' \in Seq(Client)
    <3>1. <<>> \in Seq(Client)
      OBVIOUS
    <3>. QED
      BY <1>4, <3>1
  <2>. QED
    BY <1>1, <2>1, <2>2 DEF BusInv, Typed
<1>6. First'
  <2>1. list'[1] = l[1]
    BY <1>2, <1>n
  <2>. QED
    BY <1>2, <2>1 DEF RoundDevices, First
<1>7. Addressed'
  <2>. SUFFICES ASSUME NEW k \in Clients'
                PROVE  LET a == list'[k].addr IN
                       /\ ValidFixAddr(a) \/ \E f \in Fd : a = DynAddr[f]
                       /\ Alive(list'[k]) /\ DynFlag \in a =>
                             list'[k].fd \in Fd /\ a = DynAddr[list'[k].fd]
    BY DEF Addressed
  <2>1. PICK i \in Owners(l) : list'[k] = l[i]
    BY <1>3
  <2>2. /\ ValidFixAddr(l[i].addr) \/ \E f \in Fd : l[i].addr = DynAddr[f]
        /\ Alive(l[i]) /\ DynFlag \in l[i].addr => l[i].addr = DynAddr[l[i].fd]
        /\ Alive(l[i]) => l[i].fd \in Fd
    BY DEF RoundDevices
  <2>. QED
    BY <2>1, <2>2
<1>8. UniqueAddress'
  <2>1. DOMAIN list' = 1..Len(list')
    BY <1>1
  <2>. SUFFICES ASSUME NEW j \in 1..Len(list'), NEW k \in 1..Len(list'), j # k,
                       Alive(list'[j]), Alive(list'[k])
                PROVE  list'[j].addr # list'[k].addr
    BY <2>1 DEF UniqueAddress
  <2>2. h[j] \in 1..Len(l) /\ h[k] \in 1..Len(l) /\ h[j] # h[k]
    BY <1>2
  <2>. QED
    BY <1>2, <2>2 DEF RoundDevices
<1>a. phase' = "select" => \A k \in Clients' : Alive(list'[k])
  BY <1>2, <1>3
<1>9. Linked'
  <2>. SUFFICES ASSUME NEW k \in Clients'
                PROVE  /\ list'[k].of \in Client
                       /\ phase' = "select" => /\ Alive(list'[k]) /\ list'[k].fd \in Fd
                                               /\ table'[list'[k].fd] \in {list'[k].of, Null}
    BY <1>1 DEF Linked
  <2>1. list'[k].of \in Client /\ (Alive(list'[k]) => list'[k].fd \in Fd /\ t[list'[k].fd] = list'[k].of)
    BY <1>3 DEF RoundDevices
  <2>. QED
    BY <1>a, <1>t, <2>1
<1>10. NoLeak'
  <2>. SUFFICES ASSUME NEW f \in Fd, table'[f] # Null
                PROVE  \E k \in Clients' : list'[k].fd = f
    BY DEF NoLeak, Clients
  <2>1. t[f] # Null /\ phase' = "select"
    BY <1>4
  <2>2. PICK i \in Owners(l) : Alive(l[i]) /\ l[i].fd = f
    BY <2>1 DEF RoundDevices
  <2>3. i \in 1..Len(l) /\ i # 1
    BY <1>n DEF Owners
  <2>4. PICK k \in 1..Len(list') : h[k] = i
    BY <1>2, <2>1, <2>2, <2>3
  <2>5. k \in Clients'
    BY <1>2, <1>n, <2>3, <2>4 DEF Clients
  <2>. QED
    BY <1>2, <2>2, <2>4, <2>5
<1>11. Numbered'
  <2>. SUFFICES ASSUME phase' = "select", NEW j \in Clients', NEW k \in Clients', j # k,
                       list'[j].fd = list'[k].fd
                PROVE  FALSE
    BY <1>1 DEF Numbered
  <2>1. h[j] \in Owners(l) /\ h[k] \in Owners(l) /\ h[j] # h[k]
    BY <1>2, <1>3
  <2>2. t[l[h[j]].fd] = l[h[j]].of /\ t[l[h[k]].fd] = l[h[k]].of
    BY <1>3, <1>a, <2>1 DEF RoundDevices
  <2>. QED
    BY <1>3, <2>1, <2>2 DEF RoundDevices
<1>12. Once'
  <2>1. ASSUME NEW j \in Clients', NEW k \in Clients', list'[j].of = list'[k].of PROVE j = k
    <3>1. h[j] \in Owners(l) /\ h[k] \in Owners(l) /\ l[h[j]].of = l[h[k]].of
      BY <1>3, <2>1
    <3>2. h[j] = h[k]
      BY <3>1 DEF RoundDevices
    <3>. QED
      BY <1>2, <1>3, <3>2
  <2>2. \A k \in Clients' : where[list'[k].of] # "out"
    BY <1>3 DEF RoundDevices
  <2>3. CASE backlog' = <<>>
    <3>1. 1..Len(backlog') = {}
      BY <2>3
    <3>. QED
      BY <2>1, <2>2, <3>1 DEF Once
  <2>4. CASE backlog' = b
    <3>1. \A i \in Clients', k \in 1..Len(b) : list'[i].of # b[k]
      BY <1>3 DEF RoundCalls
    <3>2. /\ \A k, m \in 1..Len(b) : b[k] = b[m] => k = m
          /\ \A k \in 1..Len(b) : where[b[k]] # "out"
      BY DEF RoundCalls
    <3>. QED
      BY <2>1, <2>2, <2>4, <3>1, <3>2 DEF Once
  <2>. QED
    BY <1>4, <2>3, <2>4
<1>13. Rung' /\ Fits'
  BY DEF BusInv, Rung, Fits
<1>14. BusInv'
  BY <1>5, <1>6, <1>7, <1>8, <1>9, <1>10, <1>11, <1>12, <1>13 DEF BusInv
<1>. QED
  BY <1>1, <1>3, <1>a, <1>14

\* A round in which nobody has called.
LEMMA RoundOf ==
    ASSUME BusInv, Served
    PROVE  RoundDevices(list, table) /\ RoundCalls(list, backlog)
<1>1. phase = "serve" /\ \A i \in Clients : list[i].pk = Null
  BY DEF Served, Clients
<1>n. DOMAIN list = 1..Len(list) /\ Len(list) \in Nat /\ Owners(list) = Clients
  BY DEF BusInv, Typed, Owners, Clients
<1>2. \A f \in Fd : table[f] # Null => \E i \in Clients : Alive(list[i]) /\ list[i].fd = f
  <2>. SUFFICES ASSUME NEW f \in Fd, table[f] # Null
                PROVE  \E i \in Clients : Alive(list[i]) /\ list[i].fd = f
    OBVIOUS
  <2>1. PICK i \in Clients : list[i].fd = f
    BY DEF BusInv, NoLeak, Clients
  <2>2. Alive(list[i])
    BY <1>1, <2>1, NoFd DEF BusInv, Linked
  <2>. QED
    BY <2>1, <2>2
<1>3. \A i \in Clients :
         LET a == list[i].addr IN
         /\ list[i].of \in Client /\ where[list[i].of] # "out" /\ list[i].pk = Null
         /\ ValidFixAddr(a) \/ \E f \in Fd : a = DynAddr[f]
         /\ Alive(list[i]) /\ DynFlag \in a => a = DynAddr[list[i].fd]
         /\ Alive(list[i]) => list[i].fd \in Fd /\ table[list[i].fd] = list[i].of
  BY <1>1 DEF BusInv, Addressed, Linked, Once
<1>4. \A i, j \in 1..Len(list) : i # j /\ Alive(list[i]) /\ Alive(list[j]) => list[i].addr # list[j].addr
  BY <1>n DEF BusInv, UniqueAddress
<1>5. \A i, j \in Clients : list[i].of = list[j].of => i = j
  BY DEF BusInv, Once
<1>6. RoundDevices(list, table)
  BY <1>n, <1>2, <1>3, <1>4, <1>5 DEF BusInv, First, RoundDevices
<1>7. RoundCalls(list, backlog)
  BY <1>n DEF BusInv, Once, RoundCalls
<1>. QED
  BY <1>6, <1>7

\* The device made for the first call, c, on descriptor f.
Accepted(c, f) == Device(c, f, DynAddr[f], {"READ", "WRITE", "ALIVE"})

\* The device ibfd_open makes for a call.
LEMMA AcceptedIs ==
    ASSUME NEW c \in Client, NEW f \in Fd
    PROVE  /\ Accepted(c, f) \in DeviceType /\ Alive(Accepted(c, f))
           /\ Accepted(c, f).of = c /\ Accepted(c, f).fd = f
           /\ Accepted(c, f).addr = DynAddr[f] /\ Accepted(c, f).pk = Null
<1>1. DynAddr[f] \in Address
  BY AddressFacts DEF Address
<1>2. {"READ", "WRITE", "ALIVE"} \in StatusType
  BY DEF StatusType, Mask
<1>. QED
  BY <1>1, <1>2 DEF Accepted, Device, DeviceType, Alive, Peer

\* The devices at the end of a round with a call: the new one has a free
\* descriptor, and so an address that no live device has.
LEMMA RoundWith ==
    ASSUME BusInv, Served, ringing, NEW f \in Fd, table[f] = Null
    PROVE  /\ Len(backlog) >= 1 /\ Head(backlog) \in Client
           /\ Append(list, Accepted(Head(backlog), f)) \in Seq(DeviceType)
           /\ [table EXCEPT ![f] = Head(backlog)] \in [Fd -> Peer]
           /\ Tail(backlog) \in Seq(Client)
           /\ RoundDevices(Append(list, Accepted(Head(backlog), f)), [table EXCEPT ![f] = Head(backlog)])
           /\ RoundCalls(Append(list, Accepted(Head(backlog), f)), Tail(backlog))
<1>0. RoundDevices(list, table) /\ RoundCalls(list, backlog)
  BY RoundOf
<1>1. PICK q \in Seq(Client) : q = backlog
  BY DEF BusInv, Typed
<1>2. Len(q) >= 1
  BY <1>1 DEF BusInv, Rung
<1>3. /\ Head(q) \in Client /\ Tail(q) \in Seq(Client) /\ Head(q) = q[1] /\ Len(Tail(q)) = Len(q) - 1
      /\ \A k \in 1..Len(Tail(q)) : Tail(q)[k] = q[k + 1] /\ k + 1 \in 1..Len(q)
      /\ 1 \in 1..Len(q)
  BY <1>2
<1>c. PICK c \in Client : c = Head(backlog) /\ c = q[1]
  BY <1>1, <1>3
<1>d. PICK d \in DeviceType : d = Accepted(c, f)
  BY AcceptedIs
<1>e. Alive(d) /\ d.of = c /\ d.fd = f /\ d.addr = DynAddr[f] /\ d.pk = Null
  BY <1>d, AcceptedIs
<1>n. Len(list) \in Nat /\ Len(list) >= 1 /\ list \in Seq(DeviceType)
  BY DEF BusInv, Typed, First
<1>l. PICK l \in Seq(DeviceType) : l = Append(list, d)
  <2>1. PICK m \in Seq(DeviceType) : m = list
    BY <1>n
  <2>2. Append(m, d) \in Seq(DeviceType)
    OBVIOUS
  <2>. QED
    BY <2>1, <2>2
<1>4. /\ Len(l) = Len(list) + 1 /\ l[Len(list) + 1] = d
      /\ \A k \in 1..Len(list) : l[k] = list[k]
  BY <1>l, <1>n
<1>t. PICK t \in [Fd -> Peer] : t = [table EXCEPT ![f] = c]
  BY DEF BusInv, Typed, Peer
<1>5. t[f] = c /\ \A g \in Fd : g # f => t[g] = table[g]
  BY <1>t DEF BusInv, Typed
<1>6. /\ \A i \in Owners(l) : i = Len(list) + 1 \/ (i \in Owners(list) /\ i \in 1..Len(list))
      /\ \A i \in Owners(list) : i \in Owners(l) /\ i \in 1..Len(list)
      /\ Len(list) + 1 \in Owners(l)
      /\ \A i \in 1..Len(l) : i = Len(list) + 1 \/ i \in 1..Len(list)
      /\ \A i \in 1..Len(list) : i = 1 \/ i \in Owners(list)
      /\ 1 \in 1..Len(list)
  BY <1>4, <1>n DEF Owners
<1>7. where[c] # "out" /\ \A i \in Owners(list) : list[i].of # c
  BY <1>0, <1>1, <1>3, <1>c DEF RoundCalls
<1>8. \A i \in Owners(list) : Alive(list[i]) => list[i].fd # f /\ list[i].fd \in Fd
  <2>. SUFFICES ASSUME NEW i \in Owners(list), Alive(list[i])
                PROVE  list[i].fd # f /\ list[i].fd \in Fd
    OBVIOUS
  <2>1. list[i].of \in Client /\ list[i].fd \in Fd /\ table[list[i].fd] = list[i].of
    BY <1>0 DEF RoundDevices
  <2>2. list[i].of # Null
    BY <2>1, IarBusAssumption
  <2>. QED
    BY <2>1, <2>2
<1>9. RoundDevices(l, t)
  <2>1. /\ Len(l) >= 1
        /\ l[1].of = Null /\ l[1].fd = -1 /\ l[1].addr = BusAddr /\ Alive(l[1]) /\ l[1].pk = Null
    BY <1>0, <1>4, <1>6, <1>n DEF RoundDevices
  <2>2. ASSUME NEW i \in Owners(l)
        PROVE  /\ l[i].of \in Client /\ where[l[i].of] # "out" /\ l[i].pk = Null
               /\ ValidFixAddr(l[i].addr) \/ \E g \in Fd : l[i].addr = DynAddr[g]
               /\ Alive(l[i]) /\ DynFlag \in l[i].addr => l[i].addr = DynAddr[l[i].fd]
               /\ Alive(l[i]) => l[i].fd \in Fd /\ t[l[i].fd] = l[i].of
    <3>1. CASE i = Len(list) + 1
      BY <1>4, <1>5, <1>7, <1>e, <3>1
    <3>2. CASE i \in Owners(list) /\ i \in 1..Len(list)
      <4>1. /\ list[i].of \in Client /\ where[list[i].of] # "out" /\ list[i].pk = Null
            /\ ValidFixAddr(list[i].addr) \/ \E g \in Fd : list[i].addr = DynAddr[g]
            /\ Alive(list[i]) /\ DynFlag \in list[i].addr => list[i].addr = DynAddr[list[i].fd]
            /\ Alive(list[i]) => list[i].fd \in Fd /\ table[list[i].fd] = list[i].of
        BY <1>0, <3>2 DEF RoundDevices
      <4>. QED
        BY <1>4, <1>5, <1>8, <3>2, <4>1
    <3>. QED
      BY <1>6, <3>1, <3>2
  <2>3. ASSUME NEW i \in Owners(l), NEW j \in Owners(l), l[i].of = l[j].of PROVE i = j
    BY <1>0, <1>4, <1>6, <1>7, <1>e, <2>3 DEF RoundDevices
  <2>4. ASSUME NEW i \in 1..Len(list), Alive(list[i]) PROVE list[i].addr # d.addr
    <3>1. CASE i = 1
      BY <1>0, <1>e, <3>1, AddressFacts DEF RoundDevices
    <3>2. CASE i \in Owners(list)
      <4>1. /\ DynFlag \in list[i].addr => list[i].addr = DynAddr[list[i].fd]
            /\ list[i].fd \in Fd /\ list[i].fd # f
        BY <1>0, <1>8, <2>4, <3>2 DEF RoundDevices
      <4>. QED
        BY <1>e, <4>1, AddressFacts
    <3>. QED
      BY <1>6, <3>1, <3>2
  <2>5. ASSUME NEW i \in 1..Len(l), NEW j \in 1..Len(l), i # j, Alive(l[i]), Alive(l[j])
        PROVE  l[i].addr # l[j].addr
    <3>1. CASE i = Len(list) + 1
      BY <1>4, <1>6, <2>4, <2>5, <3>1
    <3>2. CASE j = Len(list) + 1
      BY <1>4, <1>6, <2>4, <2>5, <3>2
    <3>3. CASE i \in 1..Len(list) /\ j \in 1..Len(list)
      BY <1>0, <1>4, <2>5, <3>3 DEF RoundDevices
    <3>. QED
      BY <1>6, <3>1, <3>2, <3>3
  <2>6. ASSUME NEW g \in Fd, t[g] # Null PROVE \E i \in Owners(l) : Alive(l[i]) /\ l[i].fd = g
    <3>1. CASE g = f
      BY <1>4, <1>6, <1>e, <3>1
    <3>2. CASE g # f
      BY <1>0, <1>4, <1>5, <1>6, <2>6, <3>2 DEF RoundDevices
    <3>. QED
      BY <3>1, <3>2
  <2>. QED
    BY <2>1, <2>2, <2>3, <2>5, <2>6 DEF RoundDevices
<1>10. RoundCalls(l, Tail(q))
  <2>1. \A k \in 1..Len(q) - 1 : k + 1 \in 1..Len(q) /\ Tail(q)[k] = q[k + 1] /\ k + 1 # 1
    BY <1>3
  <2>2. /\ \A k, m \in 1..Len(q) : q[k] = q[m] => k = m
        /\ \A i \in Owners(list), k \in 1..Len(q) : list[i].of # q[k]
        /\ \A k \in 1..Len(q) : where[q[k]] # "out"
    BY <1>0, <1>1 DEF RoundCalls
  <2>3. ASSUME NEW k \in 1..Len(Tail(q)), NEW m \in 1..Len(Tail(q)), Tail(q)[k] = Tail(q)[m] PROVE k = m
    <3>1. k + 1 = m + 1
      BY <1>3, <2>2, <2>3
    <3>. QED
      BY <3>1
  <2>4. ASSUME NEW i \in Owners(l), NEW k \in 1..Len(Tail(q)) PROVE l[i].of # Tail(q)[k]
    <3>1. Tail(q)[k] = q[k + 1] /\ k + 1 \in 1..Len(q) /\ k + 1 # 1
      BY <1>3
    <3>2. q[k + 1] # c
      BY <1>3, <1>c, <2>2, <3>1
    <3>3. CASE i = Len(list) + 1
      BY <1>4, <1>e, <3>1, <3>2, <3>3
    <3>4. CASE i \in Owners(list) /\ i \in 1..Len(list)
      BY <1>4, <2>2, <3>1, <3>4
    <3>. QED
      BY <1>6, <3>3, <3>4
  <2>5. \A k \in 1..Len(Tail(q)) : where[Tail(q)[k]] # "out"
    BY <1>3, <2>2
  <2>. QED
    BY <2>3, <2>4, <2>5 DEF RoundCalls
<1>. QED
  BY <1>1, <1>2, <1>3, <1>c, <1>d, <1>l, <1>t, <1>9, <1>10

\* What the other invariants need to know of the end of a round.
RoundStep ==
    /\ phase = "serve" /\ phase' \in {"select", "closed"} /\ ringing' = FALSE
    /\ UNCHANGED <<done, where, outbox, wait, con, sent, inbox, slow>>
    /\ \A k \in Clients' : list'[k].pk = Null

\* A device that was there, or the one made for the first call.
NewRound(l) ==
    /\ RoundStep
    /\ \A k \in Clients' : \E j \in Owners(l) : list'[k] = l[j]
    /\ phase' = "select" => \A k \in Clients' : Alive(list'[k])

\* A round without a call.
LEMMA NoCallKeeps ==
    ASSUME BusInv, NoCall
    PROVE  BusInv' /\ NewRound(list) /\ NextRound(list, table, backlog)
<1>1. RoundDevices(list, table) /\ RoundCalls(list, backlog)
  BY RoundOf DEF NoCall
<1>2. /\ NextRound(list, table, backlog) /\ ringing' = FALSE /\ phase = "serve"
      /\ UNCHANGED <<done, where, outbox, wait, con, sent, inbox, slow>>
  BY DEF NoCall, Served, BusInv, Typed
<1>3. list \in Seq(DeviceType) /\ table \in [Fd -> Peer] /\ backlog \in Seq(Client)
  BY DEF BusInv, Typed
<1>4. /\ BusInv'
      /\ \A k \in Clients' : \E j \in Owners(list) : list'[k] = list[j]
      /\ phase' = "select" => \A k \in Clients' : Alive(list'[k])
      /\ phase' \in {"select", "closed"}
  BY <1>1, <1>2, <1>3, RoundKeeps
<1>5. \A k \in Clients' : list'[k].pk = Null
  BY <1>1, <1>4 DEF RoundDevices
<1>. QED
  BY <1>2, <1>4, <1>5 DEF NewRound, RoundStep

\* A round with one.
LEMMA AcceptKeeps ==
    ASSUME BusInv, Accept
    PROVE  /\ BusInv'
           /\ \E f \in Fd :
                 /\ table[f] = Null /\ Len(backlog) >= 1 /\ Head(backlog) \in Client
                 /\ NewRound(Append(list, Accepted(Head(backlog), f)))
                 /\ NextRound(Append(list, Accepted(Head(backlog), f)),
                              [table EXCEPT ![f] = Head(backlog)], Tail(backlog))
<1>1. PICK f \in Fd :
         /\ table[f] = Null
         /\ NextRound(Append(list, Accepted(Head(backlog), f)),
                      [table EXCEPT ![f] = Head(backlog)], Tail(backlog))
  BY DEF Accept, Accepted
<1>2. /\ Served /\ ringing /\ ringing' = FALSE /\ phase = "serve"
      /\ UNCHANGED <<done, where, outbox, wait, con, sent, inbox, slow>>
  BY DEF Accept, Served
<1>3. /\ Len(backlog) >= 1 /\ Head(backlog) \in Client
      /\ Append(list, Accepted(Head(backlog), f)) \in Seq(DeviceType)
      /\ [table EXCEPT ![f] = Head(backlog)] \in [Fd -> Peer]
      /\ Tail(backlog) \in Seq(Client)
      /\ RoundDevices(Append(list, Accepted(Head(backlog), f)), [table EXCEPT ![f] = Head(backlog)])
      /\ RoundCalls(Append(list, Accepted(Head(backlog), f)), Tail(backlog))
  BY <1>1, <1>2, RoundWith
<1>4. PICK l \in Seq(DeviceType), t \in [Fd -> Peer], b \in Seq(Client) :
         /\ l = Append(list, Accepted(Head(backlog), f))
         /\ t = [table EXCEPT ![f] = Head(backlog)] /\ b = Tail(backlog)
  BY <1>3
<1>5. RoundDevices(l, t) /\ RoundCalls(l, b) /\ NextRound(l, t, b)
  BY <1>1, <1>3, <1>4
<1>6. /\ BusInv'
      /\ \A k \in Clients' : \E j \in Owners(l) : list'[k] = l[j]
      /\ phase' = "select" => \A k \in Clients' : Alive(list'[k])
      /\ phase' \in {"select", "closed"}
  BY <1>2, <1>5, RoundKeeps
<1>7. \A k \in Clients' : list'[k].pk = Null
  BY <1>5, <1>6 DEF RoundDevices
<1>8. NewRound(l)
  BY <1>2, <1>6, <1>7 DEF NewRound, RoundStep
<1>. QED
  BY <1>1, <1>3, <1>4, <1>6, <1>8

-----------------------------------------------------------------------------
(* The clients' steps.                                                     *)
LEMMA RequestIs ==
    ASSUME Typed, NEW c \in Client, NEW r \in Request(c)
    PROVE  r \in RequestType /\ r.from = c /\ r.nbr = sent[c] + 1
<1>1. BusAddr \in Address
  BY DEF BusAddr, Address, DynFlag
<1>2. sent[c] + 1 \in Nat
  BY DEF Typed
<1>3. /\ \A a \in To : a \in Address
      /\ \A a \in NewAddr : a \in Data
      /\ \A s \in NewStatus : s \in Data
      /\ \A l \in McastList : l \in Data
      /\ Null \in Data
  BY IarBusAssumption DEF Data
<1>4. \/ \E a \in To : r = Packet("MESSAGE", a, Null, c, sent[c] + 1)
      \/ \E d \in NewAddr : r = Packet("SET_ADDR", BusAddr, d, c, sent[c] + 1)
      \/ \E d \in NewStatus : r = Packet("SET_STATUS", BusAddr, d, c, sent[c] + 1)
      \/ \E d \in McastList : r = Packet("MCAST_LIST", BusAddr, d, c, sent[c] + 1)
      \/ r = Packet("GET", BusAddr, Null, c, sent[c] + 1)
      \/ r = Packet("REMOVE", BusAddr, Null, c, sent[c] + 1)
      \/ r = Packet("SHUTDOWN", BusAddr, Null, c, sent[c] + 1)
  BY DEF Request
<1>. QED
  BY <1>1, <1>2, <1>3, <1>4 DEF Packet, RequestType, PacketType

\* No step of a client touches the bus process.
LEMMA ClientLeavesBus ==
    ASSUME NEW c \in Client, ClientStep(c)
    PROVE  UNCHANGED <<list, table, phase, ringing, done>>
BY DEF ClientStep, Call, Receive, ReadEnd, Leave, Send, bus

\* A client's step leaves every variable its type.
LEMMA ClientTyped ==
    ASSUME BusInv, NEW c \in Client, ClientStep(c)
    PROVE  Typed'
<1>1. UNCHANGED <<list, table, phase, ringing, done>>
  BY ClientLeavesBus
<1>2. CASE Call(c)
  <2>1. PICK q \in Seq(Client) : q = backlog
    BY DEF BusInv, Typed
  <2>2. Append(q, c) \in Seq(Client)
    OBVIOUS
  <2>. QED
    BY <1>1, <1>2, <2>1, <2>2 DEF BusInv, Typed, Call
<1>3. CASE Receive(c)
  <2>1. PICK q \in Seq(PacketType) : q = inbox[c]
    BY DEF BusInv, Typed
  <2>2. Tail(q) \in Seq(PacketType)
    BY <1>3, <2>1 DEF Receive
  <2>3. inbox' \in [Client -> Seq(PacketType)]
    BY <1>3, <2>1, <2>2 DEF BusInv, Typed, Receive
  <2>4. wait' \in [Client -> RequestType \cup {Null}]
    BY <1>3 DEF BusInv, Typed, Receive
  <2>. QED
    BY <1>1, <1>3, <2>3, <2>4 DEF BusInv, Typed, Receive
<1>4. CASE ReadEnd(c)
  BY <1>1, <1>4 DEF BusInv, Typed, ReadEnd
<1>5. CASE Leave(c)
  <2>1. <<>> \in Seq(PacketType)
    OBVIOUS
  <2>. QED
    BY <1>1, <1>5, <2>1 DEF BusInv, Typed, Leave
<1>6. ASSUME NEW r \in Request(c), NEW sync \in BOOLEAN, Send(c, r, sync) PROVE Typed'
  <2>1. r \in RequestType
    BY RequestIs DEF BusInv
  <2>2. PICK q \in Seq(RequestType) : q = outbox[c]
    BY DEF BusInv, Typed
  <2>3. Append(q, r) \in Seq(RequestType)
    BY <2>1
  <2>4. outbox' \in [Client -> Seq(RequestType)]
    BY <1>6, <2>2, <2>3 DEF BusInv, Typed, Send
  <2>5. wait' \in [Client -> RequestType \cup {Null}]
    BY <1>6, <2>1 DEF BusInv, Typed, Send
  <2>6. sent' \in [Client -> Nat]
    BY <1>6 DEF BusInv, Typed, Send
  <2>7. con' \in SUBSET Client
    BY <1>6 DEF BusInv, Typed, Send
  <2>. QED
    BY <1>1, <1>6, <2>4, <2>5, <2>6, <2>7 DEF BusInv, Typed, Send
<1>. QED
  BY <1>2, <1>3, <1>4, <1>5, <1>6 DEF ClientStep

\* A client's step leaves the invariant.
LEMMA ClientKeeps ==
    ASSUME BusInv, NEW c \in Client, ClientStep(c)
    PROVE  BusInv'
<1>1. UNCHANGED <<list, table, phase, ringing, done>>
  BY ClientLeavesBus
<1>2. Typed'
  BY ClientTyped
<1>3. First' /\ Addressed' /\ UniqueAddress' /\ Linked' /\ NoLeak' /\ Numbered'
  BY <1>1 DEF BusInv, First, Addressed, UniqueAddress, Linked, NoLeak, Numbered, Clients
<1>4. Once'
  <2>1. CASE Call(c)
    <3>1. PICK q \in Seq(Client) : q = backlog
      BY DEF BusInv, Typed
    <3>0. Append(q, c) \in Seq(Client)
      OBVIOUS
    <3>2. PICK r \in Seq(Client) : r = Append(q, c)
      BY <3>0
    <3>3. /\ Len(r) = Len(q) + 1 /\ r[Len(q) + 1] = c /\ \A k \in 1..Len(q) : r[k] = q[k]
          /\ \A k \in 1..Len(r) : k = Len(q) + 1 \/ k \in 1..Len(q)
      BY <3>2
    <3>4. where[c] = "out" /\ where' = [where EXCEPT ![c] = "in"] /\ backlog' = r
      BY <2>1, <3>1, <3>2 DEF Call
    <3>5. /\ \A k \in 1..Len(q) : q[k] # c /\ q[k] \in Client
          /\ \A i \in Clients : list[i].of # c /\ list[i].of \in Client
      BY <3>1, <3>4 DEF BusInv, Once, Linked
    <3>6. \A b \in Client : where'[b] = IF b = c THEN "in" ELSE where[b]
      BY <3>4 DEF BusInv, Typed
    <3>7. \A k, m \in 1..Len(r) : r[k] = r[m] => k = m
      BY <3>1, <3>3, <3>5 DEF BusInv, Once
    <3>8. \A i \in Clients, k \in 1..Len(r) : list[i].of # r[k]
      BY <3>1, <3>3, <3>5 DEF BusInv, Once
    <3>9. \A k \in 1..Len(r) : where'[r[k]] # "out"
      BY <3>1, <3>3, <3>5, <3>6 DEF BusInv, Once
    <3>10. \A i \in Clients : where'[list[i].of] # "out"
      BY <3>5, <3>6 DEF BusInv, Once
    <3>. QED
      BY <1>1, <3>4, <3>7, <3>8, <3>9, <3>10 DEF BusInv, Once, Clients
  <2>2. CASE Leave(c)
    <3>1. UNCHANGED backlog /\ where' = [where EXCEPT ![c] = "left"]
      BY <2>2 DEF Leave
    <3>2. \A b \in Client : where[b] # "out" => where'[b] # "out"
      BY <3>1 DEF BusInv, Typed
    <3>3. \A k \in 1..Len(backlog) : backlog[k] \in Client
      BY DEF BusInv, Typed
    <3>. QED
      BY <1>1, <3>1, <3>2, <3>3 DEF BusInv, Once, Clients, Linked
  <2>3. CASE UNCHANGED <<backlog, where>>
    BY <1>1, <2>3 DEF BusInv, Once, Clients
  <2>. QED
    BY <2>1, <2>2, <2>3 DEF ClientStep, Receive, ReadEnd, Send
<1>5. Rung'
  <2>1. ringing' => Len(backlog') >= 1
    <3>1. CASE Call(c)
      <4>1. PICK q \in Seq(Client) : q = backlog
        BY DEF BusInv, Typed
      <4>2. Len(Append(q, c)) >= 1
        OBVIOUS
      <4>. QED
        BY <3>1, <4>1, <4>2 DEF Call
    <3>2. CASE UNCHANGED backlog
      BY <1>1, <3>2 DEF BusInv, Rung
    <3>. QED
      BY <3>1, <3>2 DEF ClientStep, Receive, ReadEnd, Leave, Send
  <2>2. ASSUME NEW b \in Client, wait'[b] # Null PROVE where'[b] = "in"
    BY <2>2 DEF ClientStep, Call, Receive, ReadEnd, Leave, Send, BusInv, Typed, Rung
  <2>. QED
    BY <2>1, <2>2 DEF Rung
<1>6. Fits'
  <2>. SUFFICES ASSUME NEW b \in Client PROVE Len(inbox'[b]) <= Room
    BY DEF Fits
  <2>1. CASE Receive(c)
    <3>1. PICK q \in Seq(PacketType) : q = inbox[c]
      BY DEF BusInv, Typed
    <3>2. q # <<>> /\ Len(q) <= Room /\ Room \in Nat
      BY <2>1, <3>1, IarBusAssumption DEF Receive, BusInv, Fits
    <3>3. Len(Tail(q)) <= Room
      BY <3>2
    <3>4. inbox'[b] = IF b = c THEN Tail(q) ELSE inbox[b]
      BY <2>1, <3>1 DEF Receive, BusInv, Typed
    <3>. QED
      BY <3>3, <3>4 DEF BusInv, Fits
  <2>2. CASE Leave(c)
    <3>1. inbox'[b] = IF b = c THEN <<>> ELSE inbox[b]
      BY <2>2 DEF Leave, BusInv, Typed
    <3>2. Len(<<>>) <= Room
      BY IarBusAssumption
    <3>. QED
      BY <3>1, <3>2 DEF BusInv, Fits
  <2>3. CASE UNCHANGED inbox
    BY <2>3 DEF BusInv, Fits
  <2>. QED
    BY <2>1, <2>2, <2>3 DEF ClientStep, Call, ReadEnd, Send
<1>. QED
  BY <1>2, <1>3, <1>4, <1>5, <1>6 DEF BusInv

-----------------------------------------------------------------------------
\* At the start there is only the bus' own device.
LEMMA BusInitially == Init => BusInv
<1>. SUFFICES ASSUME Init PROVE BusInv
  OBVIOUS
<1>1. PICK d : d = Device(Null, -1, BusAddr, {"BCAST_ON", "ALIVE", "READ"})
  OBVIOUS
<1>2. /\ d \in DeviceType /\ d.of = Null /\ d.fd = -1 /\ d.addr = BusAddr
      /\ Alive(d) /\ d.pk = Null
  BY <1>1 DEF Device, DeviceType, Peer, StatusType, Mask, Address, BusAddr, DynFlag, Alive
<1>3. /\ list \in Seq(DeviceType) /\ Len(list) = 1 /\ list[1] = d
  BY <1>1, <1>2 DEF Init
<1>4. Clients = {}
  BY <1>3 DEF Clients
<1>5. /\ backlog = <<>> /\ backlog \in Seq(Client) /\ 1..Len(backlog) = {}
      /\ \A c \in Client : outbox[c] = <<>> /\ inbox[c] = <<>> /\ wait[c] = Null
  BY DEF Init
<1>6. Typed
  <2>1. <<>> \in Seq(RequestType) /\ <<>> \in Seq(PacketType)
    OBVIOUS
  <2>2. /\ outbox \in [Client -> Seq(RequestType)] /\ inbox \in [Client -> Seq(PacketType)]
        /\ sent \in [Client -> Nat] /\ wait \in [Client -> RequestType \cup {Null}]
        /\ where \in [Client -> {"out", "in", "left"}] /\ table \in [Fd -> Peer]
    BY <2>1 DEF Init, Peer
  <2>3. con = {} /\ slow = {} /\ phase = "select" /\ ringing = FALSE /\ done = FALSE
    BY DEF Init
  <2>. QED
    BY <1>3, <1>5, <2>2, <2>3 DEF Typed
<1>7. First
  BY <1>2, <1>3 DEF First
<1>8. Addressed /\ Linked /\ Numbered
  BY <1>4 DEF Addressed, Linked, Numbered
<1>9. UniqueAddress
  <2>1. DOMAIN list = {1}
    BY <1>3
  <2>. QED
    BY <2>1 DEF UniqueAddress
<1>10. NoLeak
  BY DEF NoLeak, Init
<1>11. Once /\ Rung
  BY <1>4, <1>5 DEF Once, Rung, Init
<1>12. Fits
  <2>1. Len(<<>>) <= Room
    BY IarBusAssumption
  <2>. QED
    BY <1>5, <2>1 DEF Fits
<1>. QED
  BY <1>6, <1>7, <1>8, <1>9, <1>10, <1>11, <1>12 DEF BusInv

\* BusInv is inductive.
LEMMA BusStep == BusInv /\ [Next]_vars => BusInv'
<1>. SUFFICES ASSUME BusInv, [Next]_vars PROVE BusInv'
  OBVIOUS
<1>1. CASE Select
  BY <1>1, SelectKeeps
<1>2. CASE Accept
  BY <1>2, AcceptKeeps
<1>3. CASE NoCall
  BY <1>3, NoCallKeeps
<1>4. ASSUME NEW i \in Clients, Command(i) PROVE BusInv'
  BY <1>4, CommandKeeps
<1>5. ASSUME NEW c \in Client, ClientStep(c) PROVE BusInv'
  BY <1>5, ClientKeeps
<1>6. CASE UNCHANGED vars
  BY <1>6 DEF vars, bus, ends, BusInv, Typed, First, Addressed, UniqueAddress, Linked, NoLeak,
              Numbered, Once, Rung, Fits, Clients
<1>. QED
  BY <1>1, <1>2, <1>3, <1>4, <1>5, <1>6 DEF Next, Round, Clients

\* Devices, descriptors, addresses and calls belong together: a live device has
\* the address of its own descriptor or one that nobody else has, its descriptor
\* is its client's or has been closed, and a client has one device or one call
\* (iar_bus_core and the commands).
THEOREM BusInvariant == Spec => []BusInv
BY BusInitially, BusStep, PTL DEF Spec

\* What TypeOK says follows.
LEMMA BusTypeOK ==
    ASSUME BusInv PROVE TypeOK
<1>1. /\ phase \in {"select", "serve", "closed"} /\ {ringing, done} \subseteq BOOLEAN
      /\ table \in [Fd -> Client \cup {Null}]
      /\ where \in [Client -> {"out", "in", "left"}]
      /\ con \subseteq Client /\ slow \subseteq Client \cup {Null}
  BY DEF BusInv, Typed, Peer
<1>2. \A c \in Client : Len(inbox[c]) <= Room
  BY DEF BusInv, Fits
<1>3. ASSUME NEW i \in DOMAIN list
      PROVE  /\ list[i].fd \in Fd \cup {-1}
             /\ list[i].status \subseteq Mask \cup {"ALIVE", "BUSY"}
             /\ IF i = 1 THEN list[i].addr = BusAddr
                ELSE list[i].addr \subseteq 0..10 /\ list[i].addr \notin {{}, BusAddr}
  <2>1. DOMAIN list = 1..Len(list) /\ list[i] \in DeviceType /\ Len(list) \in Nat
    BY DEF BusInv, Typed
  <2>2. list[i].fd \in Fd \cup {-1} /\ list[i].status \subseteq Mask \cup {"ALIVE", "BUSY"}
    BY <2>1, DeviceFields DEF StatusType
  <2>3. i = 1 \/ i \in Clients
    BY <2>1 DEF Clients
  <2>. QED
    BY <2>2, <2>3, AddressesKept DEF BusInv, First
<1>. QED
  BY <1>1, <1>2, <1>3 DEF TypeOK

\* Every state has its type; no client has the null address, that of the bus or
\* one with the multicast flag, and no client is given more packets than the
\* system keeps for it (ib_cm_set_addr, set_ib_dev_addr, send_data_to_dev).
THEOREM IarTypeCorrect == Spec => []TypeOK
BY BusInvariant, BusTypeOK, PTL

\* No two live devices have the same address, whatever clients ask for and
\* whatever descriptors the system gives (ib_cm_set_addr, ibfd_open).
THEOREM UniqueAddressHolds == Spec => []UniqueAddress
<1>1. BusInv => UniqueAddress
  BY DEF BusInv
<1>. QED
  BY <1>1, BusInvariant, PTL

\* No descriptor is lost: every open one is that of a device in the list, however
\* its client goes (die_ib_dev, ib_cm_remove, free_ib_dev).
THEOREM NoLeakHolds == Spec => []NoLeak
<1>1. BusInv => NoLeak
  BY DEF BusInv
<1>. QED
  BY <1>1, BusInvariant, PTL
-----------------------------------------------------------------------------
(* The requests on their way, and the answers to them.                     *)

\* A request that only its sender hears of.
Private(p) == p.cmd \notin {"MESSAGE", "SHUTDOWN"}

\* c's request in place k of what it has sent, in device i, or answered in
\* place k of what it has not read.
Going(c, k)  == k \in 1..Len(outbox[c]) /\ Private(outbox[c][k])
Held(c, i)   == i \in Clients /\ list[i].of = c /\ list[i].pk # Null /\ Private(list[i].pk)
Coming(c, k) == k \in 1..Len(inbox[c]) /\ Private(inbox[c][k]) /\ inbox[c][k].addr = BusAddr

Waits(c, p) == wait[c] # Null /\ wait[c].cmd = p.cmd /\ wait[c].nbr = p.nbr
Gone(c)     == where[c] = "left" \/ (Cut(c) /\ wait[c] = Null)

\* What is on its way is the client's own.
Own(c) ==
    /\ \A k \in 1..Len(outbox[c]) : outbox[c][k].from = c
    /\ \A i \in Clients : list[i].of = c /\ list[i].pk # Null => list[i].pk.from = c
    /\ \A k \in 1..Len(inbox[c]) :
          inbox[c][k].addr = BusAddr /\ inbox[c][k].cmd # "SHUTDOWN" => inbox[c][k].from = c

\* The client waits for it, or is no longer there to have it.
Waited(c) ==
    /\ \A k : Going(c, k) => Gone(c) \/ Waits(c, outbox[c][k])
    /\ \A i : Held(c, i) => Gone(c) \/ Waits(c, list[i].pk)
    /\ \A k : Coming(c, k) => Gone(c) \/ Waits(c, inbox[c][k])

\* There is one at most.
Alone(c) ==
    /\ \A k, m : Going(c, k) /\ Going(c, m) => k = m
    /\ \A k, m : Coming(c, k) /\ Coming(c, m) => k = m
    /\ \A k, i : ~(Going(c, k) /\ Held(c, i))
    /\ \A k, m : ~(Going(c, k) /\ Coming(c, m))
    /\ \A i, m : ~(Held(c, i) /\ Coming(c, m))

Flight(c) == Own(c) /\ Waited(c) /\ Alone(c)

\* Nobody is connected again, or for the first time without having called.
Ties(c) ==
    /\ Connected(c)' => Connected(c) \/ Contains(backlog, c)
    /\ Contains(backlog, c)' => Contains(backlog, c) \/ where[c] = "out"
    /\ where[c] = "in" => where'[c] \in {"in", "left"}
    /\ where[c] = "left" => where'[c] = "left"

\* The end of a round closes descriptors and drops calls, and makes none.
LEMMA RoundTies ==
    ASSUME NEW l, NEW t, NEW b, NextRound(l, t, b)
    PROVE  /\ \A f \in Fd : table'[f] = Null \/ table'[f] = t[f]
           /\ backlog' = <<>> \/ backlog' = b
BY DEF NextRound

\* Only accepting its call connects a client, and it calls once.
LEMMA StepTies ==
    ASSUME BusInv, Next, NEW c \in Client
    PROVE  Ties(c)
<1>c. c # Null
  BY IarBusAssumption
<1>1. ASSUME \A f \in Fd : table'[f] = Null \/ table'[f] = table[f],
             backlog' = <<>> \/ backlog' = backlog, UNCHANGED where
      PROVE  Ties(c)
  <2>1. Connected(c)' => Connected(c)
    BY <1>1, <1>c DEF Connected
  <2>2. Contains(backlog, c)' => Contains(backlog, c)
    BY <1>1 DEF Contains
  <2>. QED
    BY <1>1, <2>1, <2>2 DEF Ties
<1>2. CASE Select
  <2>1. table' = [f \in Fd |-> IF table[f] # Null /\ Ended(table[f]) THEN Null ELSE table[f]]
    BY <1>2 DEF Select
  <2>. QED
    BY <1>1, <1>2, <2>1 DEF Select
<1>3. CASE NoCall
  <2>1. NextRound(list, table, backlog) /\ UNCHANGED where
    BY <1>3 DEF NoCall
  <2>. QED
    BY <1>1, <2>1, RoundTies
<1>4. CASE Accept
  <2>0. PICK f \in Fd :
           /\ \E l : NextRound(l, [table EXCEPT ![f] = Head(backlog)], Tail(backlog))
           /\ UNCHANGED where
    BY <1>4 DEF Accept
  <2>1. PICK l : NextRound(l, [table EXCEPT ![f] = Head(backlog)], Tail(backlog))
    BY <2>0
  <2>2. PICK q \in Seq(Client) : q = backlog
    BY DEF BusInv, Typed
  <2>3. Len(q) >= 1
    BY <1>4, <2>2 DEF Accept, BusInv, Rung
  <2>4. PICK b \in Client, r \in Seq(Client) : b = Head(q) /\ b = q[1] /\ r = Tail(q)
    <3>1. Head(q) \in Client /\ Head(q) = q[1] /\ Tail(q) \in Seq(Client)
      BY <2>3
    <3>. QED
      BY <3>1
  <2>5. Contains(q, b) /\ \A k \in 1..Len(r) : r[k] = q[k + 1] /\ k + 1 \in 1..Len(q)
    BY <2>3, <2>4 DEF Contains
  <2>6. /\ \A g \in Fd : table'[g] = Null \/ table'[g] = [table EXCEPT ![f] = b][g]
        /\ backlog' = <<>> \/ backlog' = r
    BY <2>1, <2>2, <2>4, RoundTies
  <2>7. \A g \in Fd : table'[g] = Null \/ table'[g] = table[g] \/ table'[g] = b
    BY <2>6 DEF BusInv, Typed
  <2>8. Connected(c)' => Connected(c) \/ Contains(backlog, c)
    BY <1>c, <2>2, <2>5, <2>7 DEF Connected
  <2>9. Contains(backlog, c)' => Contains(backlog, c)
    <3>1. ASSUME backlog' = r, NEW k \in 1..Len(r), r[k] = c PROVE Contains(q, c)
      BY <2>5, <3>1 DEF Contains
    <3>. QED
      BY <2>2, <2>6, <3>1 DEF Contains
  <2>. QED
    BY <2>0, <2>8, <2>9 DEF Ties
<1>5. ASSUME NEW i \in Clients, Command(i) PROVE Ties(c)
  <2>1. list[i].addr # BusAddr
    BY AddressesKept DEF BusInv
  <2>2. CommandStep(i) /\ UNCHANGED ends
    BY <1>5, <2>1, CommandIsStep, CommandServes DEF BusInv
  <2>. QED
    BY <1>1, <2>2 DEF CommandStep, ends
<1>6. ASSUME NEW b \in Client, ClientStep(b) PROVE Ties(c)
  <2>1. UNCHANGED table
    BY <1>6, ClientLeavesBus
  <2>2. CASE Call(b)
    <3>1. where[b] = "out" /\ where' = [where EXCEPT ![b] = "in"] /\ backlog' = Append(backlog, b)
      BY <2>2 DEF Call
    <3>2. PICK q \in Seq(Client) : q = backlog
      BY DEF BusInv, Typed
    <3>3. PICK r : r = Append(q, b)
      OBVIOUS
    <3>4. \A k \in 1..Len(r) : r[k] = b \/ (k \in 1..Len(q) /\ r[k] = q[k])
      BY <3>3
    <3>5. Contains(r, c) => Contains(q, c) \/ c = b
      BY <3>4 DEF Contains
    <3>6. where'[c] = IF c = b THEN "in" ELSE where[c]
      BY <3>1 DEF BusInv, Typed
    <3>. QED
      BY <2>1, <3>1, <3>2, <3>3, <3>5, <3>6 DEF Ties, Connected, Contains
  <2>3. CASE Leave(b)
    <3>1. UNCHANGED backlog /\ where' = [where EXCEPT ![b] = "left"]
      BY <2>3 DEF Leave
    <3>2. where'[c] = IF c = b THEN "left" ELSE where[c]
      BY <3>1 DEF BusInv, Typed
    <3>. QED
      BY <2>1, <3>1, <3>2 DEF Ties, Connected, Contains
  <2>4. CASE UNCHANGED <<backlog, where>>
    BY <1>1, <2>1, <2>4
  <2>. QED
    BY <1>6, <2>2, <2>3, <2>4 DEF ClientStep, Receive, ReadEnd, Send
<1>. QED
  BY <1>2, <1>3, <1>4, <1>5, <1>6 DEF Next, Round, Clients

\* Who is gone does not come back.
LEMMA GoneStays ==
    ASSUME BusInv, Next, NEW c \in Client, Gone(c)
    PROVE  Gone(c)'
<1>1. Ties(c)
  BY StepTies
<1>2. CASE where[c] = "left"
  BY <1>1, <1>2 DEF Ties, Gone
<1>3. CASE Cut(c) /\ wait[c] = Null
  <2>1. Cut(c)' \/ where'[c] = "left"
    BY <1>1, <1>3 DEF Cut, Ties
  <2>2. wait'[c] = Null
    <3>1. ASSUME NEW i \in Clients, Command(i) PROVE UNCHANGED wait
      <4>1. list[i].addr # BusAddr
        BY AddressesKept DEF BusInv
      <4>. QED
        BY <3>1, <4>1, CommandServes DEF BusInv, ends
    <3>2. ASSUME NEW b \in Client, ClientStep(b) PROVE wait'[c] = Null
      BY <1>3, <3>2 DEF ClientStep, Call, Receive, ReadEnd, Leave, Send, BusInv, Typed
    <3>. QED
      BY <1>3, <3>1, <3>2 DEF Next, Round, Clients, Select, NoCall, Accept
  <2>. QED
    BY <2>1, <2>2 DEF Gone
<1>. QED
  BY <1>2, <1>3 DEF Gone

\* What a client has sent, and can read.
LEMMA FlightType ==
    ASSUME BusInv, NEW c \in Client
    PROVE  /\ outbox[c] \in Seq(RequestType) /\ inbox[c] \in Seq(PacketType)
           /\ Len(outbox[c]) \in Nat /\ Len(inbox[c]) \in Nat
BY DEF BusInv, Typed

\* A request goes from the client to its device.
LEMMA SelectFlight ==
    ASSUME BusInv, Select, NEW c \in Client, Flight(c), Gone(c) => Gone(c)'
    PROVE  Flight(c)'
<1>s. SelectStep
  BY SelectIsStep
<1>1. UNCHANGED <<inbox, wait>>
  BY DEF Select
<1>2. Clients' = Clients
  BY <1>s DEF SelectStep, Clients
<1>3. PICK o \in Seq(RequestType) : o = outbox[c]
  BY FlightType
<1>4. PICK r \in Seq(RequestType) : r = outbox'[c]
  BY SelectKeeps, FlightType DEF BusInv, Typed
<1>5. r = IF Connected(c) /\ o # <<>> THEN Tail(o) ELSE o
  BY <1>3, <1>4 DEF Select
<1>6. ASSUME NEW i \in Clients, list[i].of = c
      PROVE  /\ Connected(c) /\ list'[i].of = c
             /\ o = <<>> => list'[i].pk = list[i].pk
             /\ o # <<>> => list'[i].pk = Head(o) /\ r = Tail(o)
  BY <1>s, <1>3, <1>5, <1>6 DEF SelectStep, Connected
<1>7. \A i \in Clients : list'[i].of = list[i].of
  BY <1>s DEF SelectStep
<1>8. o # <<>> => /\ Len(o) >= 1 /\ Head(o) = o[1] /\ Len(Tail(o)) = Len(o) - 1
                  /\ \A k \in 1..Len(Tail(o)) : Tail(o)[k] = o[k + 1] /\ k + 1 \in 1..Len(o)
  OBVIOUS
<1>9. \A k : Coming(c, k)' <=> Coming(c, k)
  BY <1>1 DEF Coming
<1>10. CASE o = <<>>
  <2>1. r = o
    BY <1>5, <1>10
  <2>2. \A k : ~Going(c, k) /\ ~Going(c, k)'
    BY <1>3, <1>4, <1>10, <2>1 DEF Going
  <2>3. \A i : Held(c, i)' <=> Held(c, i)
    BY <1>2, <1>6, <1>7, <1>10 DEF Held
  <2>4. Own(c)'
    BY <1>1, <1>2, <1>3, <1>4, <1>6, <1>7, <1>10, <2>1 DEF Flight, Own
  <2>5. Waited(c)'
    BY <1>1, <1>6, <1>7, <1>9, <1>10, <2>2, <2>3 DEF Flight, Waited, Waits, Held
  <2>6. Alone(c)'
    BY <1>9, <2>2, <2>3 DEF Flight, Alone
  <2>. QED
    BY <2>4, <2>5, <2>6 DEF Flight
<1>11. CASE o # <<>> /\ r = o
  <2>1. \A i \in Clients : list[i].of # c
    <3>1. o # Tail(o)
      BY <1>8, <1>11
    <3>. QED
      BY <1>6, <1>11, <3>1
  <2>2. \A k : Going(c, k)' <=> Going(c, k)
    BY <1>3, <1>4, <1>11 DEF Going
  <2>3. \A i : ~Held(c, i) /\ ~Held(c, i)'
    BY <1>2, <1>7, <2>1 DEF Held
  <2>4. Own(c)'
    BY <1>1, <1>2, <1>3, <1>4, <1>7, <1>11, <2>1 DEF Flight, Own
  <2>5. Waited(c)'
    BY <1>1, <1>3, <1>4, <1>9, <1>11, <2>2, <2>3 DEF Flight, Waited, Waits
  <2>6. Alone(c)'
    BY <1>9, <2>2, <2>3 DEF Flight, Alone
  <2>. QED
    BY <2>4, <2>5, <2>6 DEF Flight
<1>12. CASE o # <<>> /\ r = Tail(o)
  <2>1. \A k : Going(c, k)' => k \in Nat /\ Going(c, k + 1) /\ r[k] = o[k + 1] /\ k + 1 # 1
    BY <1>3, <1>4, <1>8, <1>12 DEF Going
  <2>2. \A i : Held(c, i)' => Going(c, 1) /\ list'[i].pk = o[1]
    BY <1>2, <1>3, <1>6, <1>7, <1>8, <1>12 DEF Held, Going
  <2>3. Own(c)'
    <3>1. \A k \in 1..Len(r) : r[k].from = c
      BY <1>3, <1>8, <1>12 DEF Flight, Own
    <3>2. \A i \in Clients : list'[i].of = c /\ list'[i].pk # Null => list'[i].pk.from = c
      BY <1>3, <1>6, <1>7, <1>8, <1>12 DEF Flight, Own
    <3>. QED
      BY <1>1, <1>2, <1>4, <3>1, <3>2 DEF Flight, Own
  <2>4. Waited(c)'
    <3>1. \A k : Going(c, k)' => Gone(c)' \/ Waits(c, r[k])'
      BY <1>1, <1>3, <2>1 DEF Flight, Waited, Waits
    <3>2. \A i : Held(c, i)' => Gone(c)' \/ Waits(c, list[i].pk)'
      BY <1>1, <1>3, <2>2 DEF Flight, Waited, Waits
    <3>3. \A k : Coming(c, k)' => Gone(c)' \/ Waits(c, inbox[c][k])'
      BY <1>1, <1>9 DEF Flight, Waited, Waits
    <3>. QED
      BY <1>4, <3>1, <3>2, <3>3 DEF Waited, Waits
  <2>5. Alone(c)'
    <3>1. \A k, m : Going(c, k)' /\ Going(c, m)' => k = m
      <4>1. \A k, m \in Nat : k + 1 = m + 1 => k = m
        OBVIOUS
      <4>. QED
        BY <2>1, <4>1 DEF Flight, Alone
    <3>2. \A k, i : ~(Going(c, k)' /\ Held(c, i)')
      BY <2>1, <2>2 DEF Flight, Alone
    <3>. QED
      BY <1>9, <2>1, <2>2, <3>1, <3>2 DEF Flight, Alone
  <2>. QED
    BY <2>3, <2>4, <2>5 DEF Flight
<1>. QED
  BY <1>5, <1>10, <1>11, <1>12

\* The end of a round: nobody's request is held.
LEMMA RoundFlight ==
    ASSUME BusInv, RoundStep, NEW c \in Client, Flight(c), Gone(c) => Gone(c)'
    PROVE  Flight(c)'
<1>1. UNCHANGED <<outbox, inbox, wait>> /\ \A k \in Clients' : list'[k].pk = Null
  BY DEF RoundStep
<1>2. \A i : ~Held(c, i)'
  BY <1>1 DEF Held
<1>3. \A k : (Going(c, k)' <=> Going(c, k)) /\ (Coming(c, k)' <=> Coming(c, k))
  BY <1>1 DEF Going, Coming
<1>4. Own(c)'
  BY <1>1 DEF Flight, Own
<1>5. Waited(c)'
  BY <1>1, <1>2, <1>3 DEF Flight, Waited, Waits
<1>6. Alone(c)'
  BY <1>2, <1>3 DEF Flight, Alone
<1>. QED
  BY <1>4, <1>5, <1>6 DEF Flight

\* A command adds to what c can read: packets that are not answers to it, and
\* at the end the answer to the command carried out, if that is c's.
LEMMA CommandAnswers ==
    ASSUME BusInv, NEW i \in Clients, Command(i), NEW c \in Client
    PROVE  /\ UNCHANGED <<outbox, wait>> /\ Clients' = Clients /\ list[i].pk # Null
           /\ \A k \in Clients : /\ list'[k].of = list[k].of
                                 /\ list'[k].pk = IF k = i THEN Null ELSE list[k].pk
           /\ \A k \in 1..Len(inbox'[c]) :
                 LET p == inbox'[c][k] IN
                 \/ k \in 1..Len(inbox[c]) /\ p = inbox[c][k]
                 \/ p.addr # BusAddr \/ p.cmd = "SHUTDOWN"
                 \/ /\ k = Len(inbox'[c]) /\ list[i].of = c
                    /\ p.cmd = list[i].pk.cmd /\ p.from = list[i].pk.from /\ p.nbr = list[i].pk.nbr
<1>1. list[i].addr # BusAddr
  BY AddressesKept DEF BusInv
<1>2. CommandStep(i) /\ phase = "serve" /\ list[i].pk # Null /\ UNCHANGED ends
  BY <1>1, CommandIsStep, CommandServes DEF BusInv
<1>n. Clients' = Clients /\ Clients \subseteq 1..Len(list)
  BY <1>2 DEF CommandStep, Clients
<1>3. PICK p \in Passed(i), m \in [Client -> Seq(PacketType)] :
           Grown(p, inbox, m) /\ (inbox' = m \/ Replied(i, m, inbox'))
  BY <1>2 DEF CommandStep
<1>4. p.addr # BusAddr \/ p.cmd = "SHUTDOWN"
  BY DEF Passed
<1>5. PICK s \in Seq(PacketType), n \in Seq(PacketType) : s = inbox[c] /\ n = m[c]
  BY FlightType
<1>6. \A k \in 1..Len(n) : (k \in 1..Len(s) /\ n[k] = s[k]) \/ n[k] = p
  BY <1>3, <1>5 DEF Grown
<1>7. CASE inbox' = m
  BY <1>2, <1>4, <1>5, <1>6, <1>7, <1>n DEF CommandStep, ends
<1>8. CASE Replied(i, m, inbox')
  <2>1. PICK b \in Client, data \in Data :
           /\ list[i].fd \in Fd /\ table[list[i].fd] = b
           /\ inbox' = [m EXCEPT ![b] = Append(@, Answer(i, data))]
    BY <1>8 DEF Replied
  <2>2. PICK a : a = Answer(i, data)
    OBVIOUS
  <2>3. a.cmd = list[i].pk.cmd /\ a.from = list[i].pk.from /\ a.nbr = list[i].pk.nbr
    BY <2>2 DEF Answer, Packet
  <2>4. b = list[i].of
    <3>1. b # Null
      BY IarBusAssumption
    <3>. QED
      BY <1>2, <2>1, <3>1, NoFd DEF BusInv, Linked
  <2>5. inbox'[c] = IF c = b THEN Append(n, a) ELSE n
    BY <1>5, <2>1, <2>2
  <2>6. /\ Len(Append(n, a)) = Len(n) + 1
        /\ \A k \in 1..Len(Append(n, a)) : (k \in 1..Len(n) /\ Append(n, a)[k] = n[k])
                                           \/ (k = Len(n) + 1 /\ Append(n, a)[k] = a)
    OBVIOUS
  <2>7. ASSUME NEW k \in 1..Len(inbox'[c])
        PROVE  LET q == inbox'[c][k] IN
                 \/ k \in 1..Len(inbox[c]) /\ q = inbox[c][k]
                 \/ q.addr # BusAddr \/ q.cmd = "SHUTDOWN"
                 \/ /\ k = Len(inbox'[c]) /\ list[i].of = c
                    /\ q.cmd = list[i].pk.cmd /\ q.from = list[i].pk.from /\ q.nbr = list[i].pk.nbr
    <3>1. CASE c = b
      BY <1>4, <1>5, <1>6, <2>3, <2>4, <2>5, <2>6, <3>1
    <3>2. CASE c # b
      BY <1>4, <1>5, <1>6, <2>5, <3>2
    <3>. QED
      BY <3>1, <3>2
  <2>. QED
    BY <1>2, <1>n, <2>7 DEF CommandStep, ends
<1>. QED
  BY <1>3, <1>7, <1>8

\* A command's answer takes its place, for the client that sent it alone.
LEMMA CommandFlight ==
    ASSUME BusInv, NEW i \in Clients, Command(i), NEW c \in Client, Flight(c), Gone(c) => Gone(c)'
    PROVE  Flight(c)'
<1>1. /\ UNCHANGED <<outbox, wait>> /\ Clients' = Clients /\ list[i].pk # Null
      /\ \A k \in Clients : /\ list'[k].of = list[k].of
                            /\ list'[k].pk = IF k = i THEN Null ELSE list[k].pk
  BY CommandAnswers
<1>2. \A k \in 1..Len(inbox'[c]) :
                 LET p == inbox'[c][k] IN
                 \/ k \in 1..Len(inbox[c]) /\ p = inbox[c][k]
                 \/ p.addr # BusAddr \/ p.cmd = "SHUTDOWN"
                 \/ /\ k = Len(inbox'[c]) /\ list[i].of = c
                    /\ p.cmd = list[i].pk.cmd /\ p.from = list[i].pk.from /\ p.nbr = list[i].pk.nbr
  BY CommandAnswers
<1>3. \A k : Going(c, k)' <=> Going(c, k)
  BY <1>1 DEF Going
<1>4. \A k : Held(c, k)' => Held(c, k) /\ k # i /\ list'[k].pk = list[k].pk
  BY <1>1 DEF Held
<1>5. ASSUME NEW k, Coming(c, k)'
      PROVE  \/ Coming(c, k) /\ inbox'[c][k] = inbox[c][k]
             \/ /\ k = Len(inbox'[c]) /\ Held(c, i)
                /\ inbox'[c][k].cmd = list[i].pk.cmd /\ inbox'[c][k].nbr = list[i].pk.nbr
  BY <1>1, <1>2, <1>5 DEF Coming, Held, Private
<1>6. Own(c)'
  <2>1. ASSUME NEW k \in 1..Len(inbox'[c]), inbox'[c][k].addr = BusAddr, inbox'[c][k].cmd # "SHUTDOWN"
        PROVE  inbox'[c][k].from = c
    BY <1>1, <1>2, <2>1 DEF Flight, Own
  <2>. QED
    BY <1>1, <2>1 DEF Flight, Own
<1>7. Waited(c)'
  <2>1. \A k : Coming(c, k)' => Gone(c)' \/ Waits(c, inbox[c][k])'
    BY <1>1, <1>5 DEF Flight, Waited, Waits
  <2>2. \A k : Held(c, k)' => Gone(c)' \/ Waits(c, list[k].pk)'
    BY <1>1, <1>4 DEF Flight, Waited, Waits
  <2>3. \A k : Going(c, k)' => Gone(c)' \/ Waits(c, outbox[c][k])'
    BY <1>1, <1>3 DEF Flight, Waited, Waits
  <2>. QED
    BY <2>1, <2>2, <2>3 DEF Waited
<1>8. Alone(c)'
  <2>1. \A k, m : Coming(c, k)' /\ Coming(c, m)' => k = m
    BY <1>5 DEF Flight, Alone
  <2>2. \A k, m : ~(Going(c, k)' /\ Coming(c, m)')
    BY <1>3, <1>5 DEF Flight, Alone
  <2>3. ASSUME NEW k, NEW m, Held(c, k)', Coming(c, m)' PROVE FALSE
    <3>1. Held(c, k) /\ k # i
      BY <1>4, <2>3
    <3>2. ~Coming(c, m) /\ Held(c, i)
      BY <1>5, <2>3, <3>1 DEF Flight, Alone
    <3>. QED
      BY <3>1, <3>2 DEF Held, BusInv, Once
  <2>. QED
    BY <1>3, <1>4, <2>1, <2>2, <2>3 DEF Flight, Alone
<1>. QED
  BY <1>6, <1>7, <1>8 DEF Flight

-----------------------------------------------------------------------------
(* The clients' steps.                                                     *)

\* A step of the client b leaves what c has sent and can read, but for its own
\* sending, reading and leaving.
LEMMA OthersFlight ==
    ASSUME BusInv, NEW c \in Client, Flight(c), Gone(c) => Gone(c)',
           UNCHANGED list, outbox'[c] = outbox[c], inbox'[c] = inbox[c], wait'[c] = wait[c]
    PROVE  Flight(c)'
<1>1. Clients' = Clients
  BY DEF Clients
<1>2. \A k : /\ Going(c, k)' <=> Going(c, k)
             /\ Held(c, k)' <=> Held(c, k)
             /\ Coming(c, k)' <=> Coming(c, k)
  BY <1>1 DEF Going, Held, Coming
<1>3. Own(c)'
  BY <1>1 DEF Flight, Own
<1>4. Waited(c)'
  BY <1>2 DEF Flight, Waited, Waits
<1>5. Alone(c)'
  BY <1>2 DEF Flight, Alone
<1>. QED
  BY <1>3, <1>4, <1>5 DEF Flight

\* A client that sends has nothing on its way.
LEMMA SendFlight ==
    ASSUME BusInv, NEW c \in Client, Flight(c), NEW r \in Request(c), NEW sync, Send(c, r, sync)
    PROVE  Flight(c)'
<1>1. /\ where[c] = "in" /\ ~Cut(c) /\ wait[c] = Null
      /\ UNCHANGED <<list, inbox>>
      /\ outbox' = [outbox EXCEPT ![c] = Append(@, r)]
      /\ wait' = [wait EXCEPT ![c] = IF Awaits(c, r, sync) THEN r ELSE Null]
  BY DEF Send, bus
<1>2. /\ \A k : ~Going(c, k) /\ ~Held(c, k) /\ ~Coming(c, k)
  BY <1>1 DEF Flight, Waited, Gone, Waits
<1>3. r \in RequestType /\ r.from = c /\ r # Null
  BY RequestIs, IarBusAssumption DEF BusInv, RequestType
<1>4. PICK o \in Seq(RequestType) : o = outbox[c]
  BY FlightType
<1>5. PICK n \in Seq(RequestType) : n = Append(o, r)
  <2>1. Append(o, r) \in Seq(RequestType)
    BY <1>3
  <2>. QED
    BY <2>1
<1>6. /\ Len(n) = Len(o) + 1 /\ n[Len(n)] = r
      /\ \A k \in 1..Len(n) : k = Len(n) \/ (k \in 1..Len(o) /\ n[k] = o[k])
  BY <1>5
<1>7. outbox'[c] = n /\ wait'[c] = IF Awaits(c, r, sync) THEN r ELSE Null
  BY <1>1, <1>4, <1>5 DEF BusInv, Typed
<1>8. Clients' = Clients
  BY <1>1 DEF Clients
<1>9. \A k : ~Held(c, k)' /\ ~Coming(c, k)'
  BY <1>1, <1>2, <1>8 DEF Held, Coming
<1>10. \A k : Going(c, k)' => k = Len(n) /\ n[k] = r /\ Private(r)
  BY <1>2, <1>4, <1>6, <1>7 DEF Going
<1>11. Own(c)'
  BY <1>1, <1>3, <1>4, <1>6, <1>7, <1>8 DEF Flight, Own
<1>12. Waited(c)'
  <2>1. Private(r) => Awaits(c, r, sync)
    BY DEF Private, Awaits
  <2>2. \A k : Going(c, k)' => Waits(c, outbox[c][k])'
    BY <1>3, <1>7, <1>10, <2>1 DEF Waits
  <2>. QED
    BY <1>9, <2>2 DEF Waited
<1>13. Alone(c)'
  BY <1>9, <1>10 DEF Alone
<1>. QED
  BY <1>11, <1>12, <1>13 DEF Flight

\* What ends a wait for a command's answer is that answer, and was alone.
LEMMA ReceiveFlight ==
    ASSUME BusInv, NEW c \in Client, Flight(c), Gone(c) => Gone(c)', Receive(c)
    PROVE  Flight(c)'
<1>1. /\ where[c] = "in" /\ UNCHANGED <<list, outbox>>
      /\ inbox[c] # <<>> /\ inbox' = [inbox EXCEPT ![c] = Tail(@)]
      /\ wait' = IF wait[c] # Null /\ Answers(Head(inbox[c]), wait[c])
                 THEN [wait EXCEPT ![c] = Null] ELSE wait
  BY DEF Receive, bus
<1>2. PICK s \in Seq(PacketType) : s = inbox[c]
  BY FlightType
<1>3. Len(s) >= 1 /\ Head(s) = s[1]
  BY <1>1, <1>2
<1>4. PICK n \in Seq(PacketType) : n = Tail(s)
  <2>1. Tail(s) \in Seq(PacketType)
    BY <1>3
  <2>. QED
    BY <2>1
<1>5. \A k \in 1..Len(n) : n[k] = s[k + 1] /\ k + 1 \in 1..Len(s) /\ k + 1 # 1
  BY <1>3, <1>4
<1>6. inbox'[c] = n
  BY <1>1, <1>2, <1>4 DEF BusInv, Typed
<1>7. Clients' = Clients
  BY <1>1 DEF Clients
<1>8. \A k : (Going(c, k)' <=> Going(c, k)) /\ (Held(c, k)' <=> Held(c, k))
  BY <1>1, <1>7 DEF Going, Held
<1>9. \A k : Coming(c, k)' => k \in Nat /\ Coming(c, k + 1) /\ n[k] = s[k + 1] /\ k + 1 # 1
  BY <1>2, <1>5, <1>6 DEF Coming
<1>10. Own(c)'
  <2>1. \A k \in 1..Len(n) : n[k].addr = BusAddr /\ n[k].cmd # "SHUTDOWN" => n[k].from = c
    BY <1>2, <1>5 DEF Flight, Own
  <2>. QED
    BY <1>1, <1>6, <1>7, <2>1 DEF Flight, Own
<1>11. Alone(c)'
  <2>1. \A k, m : Coming(c, k)' /\ Coming(c, m)' => k = m
    <3>1. \A k, m \in Nat : k + 1 = m + 1 => k = m
      OBVIOUS
    <3>. QED
      BY <1>9, <3>1 DEF Flight, Alone
  <2>. QED
    BY <1>8, <1>9, <2>1 DEF Flight, Alone
<1>12. Waited(c)'
  <2>1. CASE wait'[c] = wait[c]
    <3>1. \A k : Going(c, k)' => Gone(c)' \/ Waits(c, outbox[c][k])'
      BY <1>1, <1>8, <2>1 DEF Flight, Waited, Waits
    <3>2. \A k : Held(c, k)' => Gone(c)' \/ Waits(c, list[k].pk)'
      BY <1>1, <1>8, <2>1 DEF Flight, Waited, Waits
    <3>3. \A k : Coming(c, k)' => Gone(c)' \/ Waits(c, n[k])'
      BY <1>2, <1>9, <2>1 DEF Flight, Waited, Waits
    <3>. QED
      BY <1>6, <3>1, <3>2, <3>3 DEF Waited, Waits
  <2>2. CASE wait'[c] # wait[c]
    <3>1. wait[c] # Null /\ s[1].cmd = wait[c].cmd /\ s[1].addr = BusAddr
      BY <1>1, <1>2, <1>3, <2>2 DEF Answers
    <3>2. Private(s[1]) => Coming(c, 1)
      BY <1>2, <1>3, <3>1 DEF Coming
    <3>3. ~Gone(c)
      BY <1>1, <3>1 DEF Gone
    <3>4. ASSUME ~Private(s[1])
          PROVE  /\ \A k : ~Going(c, k) /\ ~Held(c, k) /\ ~Coming(c, k)
      BY <3>1, <3>3, <3>4 DEF Flight, Waited, Waits, Going, Held, Coming, Private
    <3>5. /\ \A k : ~Going(c, k) /\ ~Held(c, k)
          /\ \A k : Coming(c, k) => k = 1
      BY <3>2, <3>4 DEF Flight, Alone
    <3>6. \A k : ~Going(c, k)' /\ ~Held(c, k)' /\ ~Coming(c, k)'
      BY <1>8, <1>9, <3>5
    <3>. QED
      BY <3>6 DEF Waited
  <2>. QED
    BY <2>1, <2>2
<1>. QED
  BY <1>10, <1>11, <1>12 DEF Flight

\* A client that leaves, or learns that the bus has closed its end, is gone.
LEMMA EndFlight ==
    ASSUME BusInv, NEW c \in Client, Flight(c), ReadEnd(c) \/ Leave(c)
    PROVE  Flight(c)'
<1>1. UNCHANGED <<list, outbox, table, backlog>> /\ Clients' = Clients
  BY DEF ReadEnd, Leave, bus, Clients
<1>2. inbox'[c] = inbox[c] \/ inbox'[c] = <<>>
  BY DEF ReadEnd, Leave, BusInv, Typed
<1>3. Gone(c)'
  <2>1. CASE ReadEnd(c)
    <3>1. Cut(c)' /\ wait'[c] = Null
      BY <2>1 DEF ReadEnd, bus, Cut, Connected, BusInv, Typed
    <3>. QED
      BY <3>1 DEF Gone
  <2>2. CASE Leave(c)
    BY <2>2 DEF Leave, Gone, BusInv, Typed
  <2>. QED
    BY <2>1, <2>2
<1>4. \A k : /\ Going(c, k)' => Going(c, k)
             /\ Held(c, k)' => Held(c, k)
             /\ Coming(c, k)' => Coming(c, k)
  BY <1>1, <1>2 DEF Going, Held, Coming
<1>5. Own(c)'
  BY <1>1, <1>2 DEF Flight, Own
<1>6. Waited(c)'
  BY <1>3 DEF Waited
<1>7. Alone(c)'
  BY <1>4 DEF Flight, Alone
<1>. QED
  BY <1>5, <1>6, <1>7 DEF Flight

\* Every step of a client.
LEMMA ClientFlight ==
    ASSUME BusInv, NEW b \in Client, ClientStep(b), NEW c \in Client, Flight(c), Gone(c) => Gone(c)'
    PROVE  Flight(c)'
<1>1. UNCHANGED list
  BY ClientLeavesBus
<1>2. CASE b # c \/ Call(b)
  <2>1. outbox'[c] = outbox[c] /\ inbox'[c] = inbox[c] /\ wait'[c] = wait[c]
    BY <1>2 DEF ClientStep, Call, Receive, ReadEnd, Leave, Send, BusInv, Typed
  <2>. QED
    BY <1>1, <2>1, OthersFlight
<1>3. CASE b = c /\ ~Call(b)
  BY <1>3, SendFlight, ReceiveFlight, EndFlight DEF ClientStep
<1>. QED
  BY <1>2, <1>3

\* Of every client.
FlightInv == \A c \in Client : Flight(c)

\* At the start nothing is on its way.
LEMMA FlightInitially == Init => FlightInv
<1>. SUFFICES ASSUME Init, NEW c \in Client PROVE Flight(c)
  BY DEF FlightInv
<1>1. Len(list) = 1 /\ 1..Len(outbox[c]) = {} /\ 1..Len(inbox[c]) = {}
  BY DEF Init
<1>2. Clients = {}
  BY <1>1 DEF Clients
<1>3. \A k : ~Going(c, k) /\ ~Held(c, k) /\ ~Coming(c, k)
  BY <1>1, <1>2 DEF Going, Held, Coming
<1>. QED
  BY <1>1, <1>2, <1>3 DEF Flight, Own, Waited, Alone

\* FlightInv is inductive, relative to BusInv.
LEMMA FlightStep == BusInv /\ FlightInv /\ [Next]_vars => FlightInv'
<1>. SUFFICES ASSUME BusInv, FlightInv, [Next]_vars, NEW c \in Client PROVE Flight(c)'
  BY DEF FlightInv
<1>1. Flight(c)
  BY DEF FlightInv
<1>2. CASE UNCHANGED vars
  <2>1. UNCHANGED <<list, outbox, inbox, wait, where, table, backlog>>
    BY <1>2 DEF vars, bus, ends
  <2>2. Gone(c) => Gone(c)'
    BY <2>1 DEF Gone, Cut, Connected
  <2>. QED
    BY <1>1, <2>1, <2>2, OthersFlight
<1>3. CASE Next
  <2>1. Gone(c) => Gone(c)'
    BY <1>3, GoneStays
  <2>2. CASE Select
    BY <1>1, <2>1, <2>2, SelectFlight
  <2>3. CASE Accept
    <3>1. \E l : NewRound(l)
      BY <2>3, AcceptKeeps
    <3>. QED
      BY <1>1, <2>1, <3>1, RoundFlight DEF NewRound
  <2>4. CASE NoCall
    <3>1. NewRound(list)
      BY <2>4, NoCallKeeps
    <3>. QED
      BY <1>1, <2>1, <3>1, RoundFlight DEF NewRound
  <2>5. ASSUME NEW i \in Clients, Command(i) PROVE Flight(c)'
    BY <1>1, <2>1, <2>5, CommandFlight
  <2>6. ASSUME NEW b \in Client, ClientStep(b) PROVE Flight(c)'
    BY <1>1, <2>1, <2>6, ClientFlight
  <2>. QED
    BY <1>3, <2>2, <2>3, <2>4, <2>5, <2>6 DEF Next, Round, Clients
<1>. QED
  BY <1>2, <1>3

\* An answer that is there is that to the request waited for.
LEMMA FlightOwn == BusInv /\ FlightInv => OwnAnswer
<1>. SUFFICES ASSUME BusInv, FlightInv, NEW c \in Client, wait[c] # Null,
                     NEW k \in 1..Len(inbox[c]), Answers(inbox[c][k], wait[c]),
                     inbox[c][k].cmd # "SHUTDOWN"
              PROVE  /\ inbox[c][k].from = c
                     /\ inbox[c][k].nbr = wait[c].nbr \/ inbox[c][k].cmd = "MESSAGE"
  <2>1. \A c \in Client : DOMAIN inbox[c] = 1..Len(inbox[c])
    BY DEF BusInv, Typed
  <2>. QED
    BY <2>1 DEF OwnAnswer
<1>1. Flight(c) /\ where[c] = "in"
  BY DEF FlightInv, BusInv, Rung
<1>2. inbox[c][k].addr = BusAddr
  BY DEF Answers
<1>3. inbox[c][k].from = c
  BY <1>1, <1>2 DEF Flight, Own
<1>4. ASSUME inbox[c][k].cmd # "MESSAGE" PROVE inbox[c][k].nbr = wait[c].nbr
  <2>1. Coming(c, k)
    BY <1>2, <1>4 DEF Coming, Private
  <2>. QED
    BY <1>1, <2>1 DEF Flight, Waited, Gone, Waits
<1>. QED
  BY <1>3, <1>4

\* What ends a client's wait is the answer to its own request, and to the very
\* one it waits for unless that is a message (ibus_exec_cmd, whose loop only
\* looks at the command; reply_to_cmd).
THEOREM OwnAnswerHolds == Spec => []OwnAnswer
<1>1. Init => FlightInv
  BY FlightInitially
<1>2. BusInv /\ FlightInv /\ [Next]_vars => FlightInv'
  BY FlightStep
<1>3. BusInv /\ FlightInv => OwnAnswer
  BY FlightOwn
<1>. QED
  BY <1>1, <1>2, <1>3, BusInvariant, PTL DEF Spec
-----------------------------------------------------------------------------
(* Clients that do not call while another one is being removed.            *)

\* While there is a removal nobody is calling; between rounds every device has
\* its connection.
Calm ==
    /\ Removing => Len(backlog) = 0
    /\ phase = "select" => \A i \in Clients : table[list[i].fd] = list[i].of

\* Where a removal can be.
Asked == \E c \in Client : \E k \in 1..Len(outbox[c]) : outbox[c][k].cmd = "REMOVE"
Leaving(l) == \E i \in Owners(l) : Removed(l[i]) \/ (l[i].pk # Null /\ l[i].pk.cmd = "REMOVE")

\* Where a removal is: in what clients have sent, or in the list.
LEMMA RemovingIs == BusInv => (Removing <=> Asked \/ Leaving(list))
<1>. SUFFICES ASSUME BusInv PROVE Removing <=> Asked \/ Leaving(list)
  OBVIOUS
<1>1. \A c \in Client : DOMAIN outbox[c] = 1..Len(outbox[c])
  BY DEF BusInv, Typed
<1>. QED
  BY <1>1 DEF Removing, Asked, Leaving, Owners

\* The same after a step.
LEMMA RemovingThen == BusInv' => (Removing' <=> Asked' \/ Leaving(list'))
<1>. SUFFICES ASSUME BusInv' PROVE Removing' <=> Asked' \/ Leaving(list')
  OBVIOUS
<1>1. \A c \in Client : DOMAIN outbox'[c] = 1..Len(outbox'[c])
  BY DEF BusInv, Typed
<1>. QED
  BY <1>1 DEF Removing, Asked, Leaving, Owners

\* A removal that is read is still on its way.
LEMMA SelectCalm == BusInv /\ Calm /\ Select => Calm'
<1>. SUFFICES ASSUME BusInv, Calm, Select PROVE Calm'
  OBVIOUS
<1>1. BusInv' /\ SelectStep /\ UNCHANGED backlog /\ phase' = "serve"
  BY SelectKeeps, SelectIsStep DEF Select
<1>2. ASSUME NEW c \in Client
      PROVE  \A k \in 1..Len(outbox'[c]) : \E m \in 1..Len(outbox[c]) : outbox'[c][k] = outbox[c][m]
  <2>1. PICK o \in Seq(RequestType) : o = outbox[c]
    BY FlightType
  <2>2. outbox'[c] = IF Connected(c) /\ o # <<>> THEN Tail(o) ELSE o
    BY <2>1 DEF Select
  <2>3. o # <<>> => \A k \in 1..Len(Tail(o)) : Tail(o)[k] = o[k + 1] /\ k + 1 \in 1..Len(o)
    OBVIOUS
  <2>. QED
    BY <2>1, <2>2, <2>3
<1>3. Asked' => Asked
  BY <1>2 DEF Asked
<1>4. Owners(list') = Clients /\ Owners(list) = Clients
  BY <1>1 DEF SelectStep, Owners, Clients
<1>5. ASSUME NEW i \in Clients
      PROVE  /\ ~Removed(list'[i])
             /\ list'[i].pk = list[i].pk \/ \E k \in 1..Len(outbox[list[i].of]) : list'[i].pk = outbox[list[i].of][k]
             /\ list[i].of \in Client
  <2>1. list[i].of \in Client
    BY DEF BusInv, Linked
  <2>2. PICK o \in Seq(RequestType) : o = outbox[list[i].of]
    BY <2>1, FlightType
  <2>3. o # <<>> => Head(o) = o[1] /\ 1 \in 1..Len(o)
    OBVIOUS
  <2>. QED
    BY <1>1, <2>1, <2>2, <2>3 DEF SelectStep, Removed
<1>6. Leaving(list') => Leaving(list) \/ Asked
  BY <1>4, <1>5 DEF Leaving, Asked
<1>7. Removing' => Removing
  <2>1. Removing' <=> Asked' \/ Leaving(list')
    BY <1>1, RemovingThen
  <2>. QED
    BY <1>3, <1>6, <2>1, RemovingIs
<1>. QED
  BY <1>1, <1>7 DEF Calm

\* A removal carried out leaves a removed device.
LEMMA CommandCalm ==
    ASSUME BusInv, Calm, NEW i \in Clients, Command(i)
    PROVE  Calm'
<1>1. list[i].addr # BusAddr
  BY AddressesKept DEF BusInv
<1>2. CommandStep(i) /\ phase = "serve" /\ list[i].pk # Null /\ UNCHANGED <<phase, ringing, ends>>
  BY <1>1, CommandIsStep, CommandServes DEF BusInv
<1>3. Clients' = Clients /\ Owners(list') = Clients /\ Clients \subseteq 1..Len(list)
  BY <1>2 DEF CommandStep, Clients, Owners
<1>4. ASSUME NEW k \in Clients
      PROVE  /\ Removed(list'[k]) => Removed(list[k]) \/ list[i].pk.cmd = "REMOVE"
             /\ list'[k].pk # Null => list'[k].pk = list[k].pk
  BY <1>2, <1>3 DEF CommandStep, AsBefore, HasDied, Removed
<1>5. Removing' => Removing
  BY <1>2, <1>3, <1>4 DEF Removing, Clients, ends
<1>. QED
  BY <1>2, <1>5 DEF Calm, ends

\* The end of a round: with its devices l, its descriptors t.
LEMMA RoundCalm ==
    ASSUME BusInv, NEW l \in Seq(DeviceType), NEW t, NEW b, NextRound(l, t, b), NewRound(l),
           Leaving(l) => Removing, Removing => b = <<>> \/ b = backlog, Calm,
           ASSUME phase' = "select", NEW j \in Owners(l), Alive(l[j])
           PROVE  /\ l[j].fd \in Fd /\ t[l[j].fd] = l[j].of
                  /\ \A i \in Owners(l) : Removed(l[i]) => l[i].fd # l[j].fd
    PROVE  Calm'
<1>1. /\ UNCHANGED outbox /\ \A k \in Clients' : list'[k].pk = Null
      /\ \A k \in Clients' : \E j \in Owners(l) : list'[k] = l[j]
      /\ phase' = "select" => \A k \in Clients' : Alive(list'[k])
      /\ phase' \in {"select", "closed"}
  BY DEF NewRound, RoundStep
<1>2. CASE phase' = "closed"
  <2>1. backlog' = <<>>
    BY <1>2 DEF NextRound
  <2>. QED
    BY <1>2, <2>1 DEF Calm
<1>3. CASE phase' = "select"
  <2>1. /\ backlog' = b
        /\ table' = [f \in Fd |-> IF \E i \in 2..Len(l) : Removed(l[i]) /\ l[i].fd = f
                                  THEN Null ELSE t[f]]
    BY <1>3 DEF NextRound
  <2>2. Removing' => Removing
    BY <1>1, <1>3 DEF Removing, Removed, Clients
  <2>3. \A k \in Clients' : table'[list'[k].fd] = list'[k].of
    BY <1>1, <1>3, <2>1 DEF Owners
  <2>4. Removing => Len(backlog') = 0
    BY <2>1 DEF Calm
  <2>. QED
    BY <2>2, <2>3, <2>4 DEF Calm
<1>. QED
  BY <1>1, <1>2, <1>3

\* A removed device has a number nobody else has while no call has been accepted.
LEMMA NoCallCalm == BusInv /\ Calm /\ NoCall => Calm'
<1>. SUFFICES ASSUME BusInv, Calm, NoCall PROVE Calm'
  OBVIOUS
<1>1. NewRound(list) /\ NextRound(list, table, backlog) /\ phase = "serve"
  BY NoCallKeeps DEF NoCall, Served
<1>2. list \in Seq(DeviceType) /\ Owners(list) = Clients
  BY DEF BusInv, Typed, Owners, Clients
<1>3. ASSUME NEW j \in Clients, Alive(list[j])
      PROVE  /\ list[j].fd \in Fd /\ table[list[j].fd] = list[j].of
             /\ \A i \in Clients : Removed(list[i]) => list[i].fd # list[j].fd
  <2>1. list[j].fd \in Fd /\ table[list[j].fd] = list[j].of
    BY <1>1, <1>3 DEF BusInv, Linked
  <2>2. ASSUME NEW i \in Clients, Removed(list[i]), list[i].fd = list[j].fd PROVE FALSE
    BY <1>1, <1>3, <2>1, <2>2, NoFd DEF BusInv, Numbered, Removed
  <2>. QED
    BY <2>1, <2>2
<1>. QED
  BY <1>1, <1>2, <1>3, RemovingIs, RoundCalm

\* When a call is accepted nothing is being removed.
LEMMA AcceptCalm == BusInv /\ Calm /\ Accept => Calm'
<1>. SUFFICES ASSUME BusInv, Calm, Accept PROVE Calm'
  OBVIOUS
<1>1. PICK f \in Fd :
         /\ table[f] = Null /\ Len(backlog) >= 1 /\ Head(backlog) \in Client
         /\ NewRound(Append(list, Accepted(Head(backlog), f)))
         /\ NextRound(Append(list, Accepted(Head(backlog), f)),
                      [table EXCEPT ![f] = Head(backlog)], Tail(backlog))
  BY AcceptKeeps
<1>2. PICK c \in Client : c = Head(backlog)
  BY <1>1
<1>3. PICK d \in DeviceType : d = Accepted(c, f)
  BY AcceptedIs
<1>4. Alive(d) /\ d.of = c /\ d.fd = f /\ d.pk = Null
  BY <1>3, AcceptedIs
<1>5. PICK n \in Seq(DeviceType) : n = list
  BY DEF BusInv, Typed
<1>6. PICK l \in Seq(DeviceType) : l = Append(n, d)
  <2>1. Append(n, d) \in Seq(DeviceType)
    OBVIOUS
  <2>. QED
    BY <2>1
<1>7. \A j \in Owners(l) : l[j] = d \/ (j \in Clients /\ l[j] = list[j])
  BY <1>5, <1>6 DEF Owners, Clients
<1>8. PICK t : t = [table EXCEPT ![f] = c]
  OBVIOUS
<1>9. \A g \in Fd : t[g] = IF g = f THEN c ELSE table[g]
  BY <1>8 DEF BusInv, Typed
<1>10. NewRound(l) /\ NextRound(l, t, Tail(backlog)) /\ phase = "serve"
  BY <1>1, <1>2, <1>3, <1>5, <1>6, <1>8 DEF Accept, Served
<1>11. ~Removing /\ ~Leaving(list)
  BY <1>1, RemovingIs DEF Calm
<1>12. \A j \in Owners(l) : ~Removed(l[j])
  BY <1>4, <1>7, <1>11 DEF Leaving, Removed, Owners, Clients
<1>13. ~Leaving(l)
  BY <1>4, <1>7, <1>11, <1>12 DEF Leaving, Owners, Clients
<1>14. ASSUME NEW j \in Owners(l), Alive(l[j])
       PROVE  l[j].fd \in Fd /\ t[l[j].fd] = l[j].of
  <2>1. CASE l[j] = d
    BY <1>4, <1>9, <2>1
  <2>2. CASE j \in Clients /\ l[j] = list[j]
    <3>1. list[j].fd \in Fd /\ table[list[j].fd] = list[j].of /\ list[j].of # Null
      BY <1>10, <1>14, <2>2, IarBusAssumption DEF BusInv, Linked
    <3>. QED
      BY <1>1, <1>9, <2>2, <3>1
  <2>. QED
    BY <1>7, <2>1, <2>2
<1>. QED
  BY <1>10, <1>11, <1>12, <1>13, <1>14, RoundCalm

\* Clients call only while nothing is being removed, and the other way round.
LEMMA ClientCalm ==
    ASSUME ~Overlap, BusInv, Calm, NEW c \in Client, ClientStep(c)
    PROVE  Calm'
<1>1. UNCHANGED <<list, table, phase>>
  BY ClientLeavesBus
<1>2. phase = "select" => \A i \in Clients : table[list[i].fd] = list[i].of
  BY DEF Calm
<1>3. CASE Call(c)
  <2>1. ~Removing /\ UNCHANGED outbox
    BY <1>3 DEF Call
  <2>2. ~Removing'
    BY <1>1, <2>1 DEF Removing
  <2>. QED
    BY <1>1, <1>2, <2>2 DEF Calm, Clients
<1>4. CASE UNCHANGED <<outbox, backlog>>
  BY <1>1, <1>4 DEF Calm, Removing, Clients
<1>5. ASSUME NEW r \in Request(c), NEW sync, Send(c, r, sync)
      PROVE  Calm'
  <2>1. /\ UNCHANGED backlog
        /\ r.cmd = "REMOVE" => backlog = <<>>
        /\ outbox' = [outbox EXCEPT ![c] = Append(@, r)]
    BY <1>5 DEF Send
  <2>2. PICK o \in Seq(RequestType) : o = outbox[c]
    BY FlightType
  <2>3. \A b \in Client : outbox'[b] = IF b = c THEN Append(o, r) ELSE outbox[b]
    BY <2>1, <2>2 DEF BusInv, Typed
  <2>4. \A k \in DOMAIN Append(o, r) : Append(o, r)[k] = r \/ (k \in DOMAIN o /\ Append(o, r)[k] = o[k])
    OBVIOUS
  <2>5. Removing' => Removing \/ r.cmd = "REMOVE"
    <3>1. ASSUME NEW b \in Client, NEW k \in DOMAIN outbox'[b], outbox'[b][k].cmd = "REMOVE"
          PROVE  Removing \/ r.cmd = "REMOVE"
      BY <2>2, <2>3, <2>4, <3>1 DEF Removing
    <3>2. ASSUME NEW i \in 2..Len(list'),
                 Removed(list'[i]) \/ (list'[i].pk # Null /\ list'[i].pk.cmd = "REMOVE")
          PROVE  Removing
      BY <1>1, <3>2 DEF Removing
    <3>. QED
      BY <3>1, <3>2 DEF Removing
  <2>6. Removing' => Len(backlog') = 0
    <3>1. backlog = <<>> => Len(backlog) = 0
      OBVIOUS
    <3>. QED
      BY <2>1, <2>5, <3>1 DEF Calm
  <2>. QED
    BY <1>1, <1>2, <2>6 DEF Calm, Clients
<1>. QED
  BY <1>3, <1>4, <1>5 DEF ClientStep, Receive, ReadEnd, Leave

\* At the start there is nothing to remove.
LEMMA CalmInitially == Init => Calm
<1>. SUFFICES ASSUME Init PROVE Calm
  OBVIOUS
<1>1. Len(list) = 1 /\ Len(backlog) = 0
  BY DEF Init
<1>. QED
  BY <1>1 DEF Calm, Clients

\* Calm is inductive, relative to BusInv.
LEMMA CalmStep ==
    ASSUME ~Overlap
    PROVE  BusInv /\ Calm /\ [Next]_vars => Calm'
<1>. SUFFICES ASSUME BusInv, Calm, [Next]_vars PROVE Calm'
  OBVIOUS
<1>1. CASE UNCHANGED vars
  BY <1>1 DEF Calm, Removing, vars, bus, ends, Clients
<1>2. ASSUME NEW i \in Clients, Command(i) PROVE Calm'
  BY <1>2, CommandCalm
<1>3. ASSUME NEW c \in Client, ClientStep(c) PROVE Calm'
  BY <1>3, ClientCalm
<1>. QED
  BY <1>1, <1>2, <1>3, SelectCalm, NoCallCalm, AcceptCalm DEF Next, Round, Clients

\* When no client calls while another one is being removed, a live device keeps
\* its connection: what free_ib_dev closes is never another device's (ib_cm_remove
\* leaves the number of the closed descriptor in the device).
THEOREM KeptConnectionHolds ==
    ASSUME ~Overlap
    PROVE  Spec => []KeptConnection
<1>1. BusInv /\ Calm => KeptConnection
  <2>. SUFFICES ASSUME BusInv, Calm, phase # "closed", NEW i \in Clients, Alive(list[i])
                PROVE  table[list[i].fd] = list[i].of
    BY DEF KeptConnection, Clients
  <2>. QED
    BY DEF Calm, BusInv, Linked, Typed
<1>2. Init => Calm
  BY CalmInitially
<1>3. BusInv /\ Calm /\ [Next]_vars => Calm'
  BY CalmStep
<1>. QED
  BY <1>1, <1>2, <1>3, BusInvariant, PTL DEF Spec
-----------------------------------------------------------------------------
(* The confirmation of a message.                                          *)

\* The packet p is a confirmation that says that the message has been sent.
Confirms(p) == p.cmd = "MESSAGE" /\ p.addr = BusAddr /\ p.data = TRUE

\* The message of p has been written, or somebody does not take it.
Passes(p) ==
    \/ \E d \in Client : \E m \in DOMAIN inbox'[d] :
          inbox'[d][m].from = p.from /\ inbox'[d][m].nbr = p.nbr /\ inbox'[d][m].addr # BusAddr
    \/ \E i \in DOMAIN list' : "BUSY" \in list'[i].status \/ ~Alive(list'[i])

\* What the confirmations of a step must be like.
Fresh == \A c \in Client : \A k \in DOMAIN inbox'[c] :
            k > Len(inbox[c]) /\ Confirms(inbox'[c][k]) => Passes(inbox'[c][k])

\* What grew by the packets passed on has no confirmation.
LEMMA NoneGrown ==
    ASSUME BusInv, NEW p, p.addr # BusAddr, NEW m \in [Client -> Seq(PacketType)],
           Grown(p, inbox, m), NEW c \in Client, NEW k \in 1..Len(m[c]), k > Len(inbox[c])
    PROVE  m[c][k] = p /\ ~Confirms(m[c][k])
<1>1. Len(inbox[c]) \in Nat /\ Len(m[c]) \in Nat
  BY FlightType
<1>2. m[c][k] = p
  BY <1>1 DEF Grown
<1>. QED
  BY <1>2 DEF Confirms

\* So a step that only passes packets on confirms nothing.
LEMMA NothingConfirmed ==
    ASSUME BusInv, NEW p, p.addr # BusAddr, NEW m \in [Client -> Seq(PacketType)],
           Grown(p, inbox, m), inbox' = m
    PROVE  Fresh
<1>1. \A c \in Client : DOMAIN m[c] = 1..Len(m[c])
  OBVIOUS
<1>. QED
  BY <1>1, NoneGrown DEF Fresh

\* A confirmation is that of the device whose message it is, and says what
\* sending has come to.
LEMMA MessageConfirms ==
    ASSUME BusInv, NEW i \in Clients, Message(i)
    PROVE  Fresh
<1>1. /\ i \in 1..Len(list) /\ list[i].pk # Null /\ list[i].pk.cmd = "MESSAGE"
      /\ list[i].addr # BusAddr /\ Typed
  BY AddressesKept DEF Message, Turn, Clients, BusInv
<1>2. BroadcastAddr # BusAddr
  <2>1. 0 \in BroadcastAddr /\ 0 \notin BusAddr
    BY DEF BroadcastAddr, BusAddr, DynFlag
  <2>. QED
    BY <2>1
<1>3. ASSUME NEW p, p.addr # BusAddr, NEW v \in BusType, Delivered(p, Before, v), Become(i, v)
      PROVE  Fresh
  <2>1. inbox' = v.inbox /\ v.inbox \in [Client -> Seq(PacketType)] /\ Grown(p, inbox, v.inbox)
    BY <1>3, BusFields DEF Become, Delivered, Before
  <2>. QED
    BY <1>3, <2>1, NothingConfirmed
<1>4. CASE list[i].pk.addr = BroadcastAddr
  <2>1. Become(i, Broadcast(i))
    BY <1>4, BecomesIs DEF Message
  <2>2. Broadcast(i) \in BusType /\ Delivered(list[i].pk, Before, Broadcast(i))
    BY <1>1, BroadcastSent DEF Sent
  <2>. QED
    BY <1>2, <1>3, <1>4, <2>1, <2>2
<1>5. CASE list[i].pk.addr # BroadcastAddr
  <2>1. PICK w : w = Route(i)
    OBVIOUS
  <2>2. Become(i, IF "CON_MSG" \in w.list[i].status THEN Reply(w, i, w.ok) ELSE w)
    BY <1>5, <2>1, BecomesIs DEF Message
  <2>3. PICK p \in PacketType :
           /\ p = Forward(i) /\ p.addr # BusAddr
           /\ p.from = list[i].pk.from /\ p.nbr = list[i].pk.nbr
    BY <1>1, ForwardIs
  <2>4. w \in BusType /\ Delivered(p, Before, w) /\ (w.ok => Reached(w))
    BY <1>1, <2>1, <2>3, RouteSent DEF Sent
  <2>5. CASE "CON_MSG" \notin w.list[i].status
    BY <1>3, <2>2, <2>3, <2>4, <2>5
  <2>6. CASE "CON_MSG" \in w.list[i].status
    <3>1. PICK q : q = Answer(i, w.ok)
      OBVIOUS
    <3>2. q \in PacketType /\ q.data = w.ok /\ q.from = p.from /\ q.nbr = p.nbr
      <4>1. w.ok \in Data
        BY <2>4, BusFields, ToData
      <4>2. q \in PacketType
        BY <1>1, <3>1, <4>1, AnswerType
      <4>. QED
        BY <2>3, <3>1, <4>2 DEF Answer, Packet
    <3>3. PICK v : v = Put(w, i, q)
      OBVIOUS
    <3>4. Become(i, v)
      BY <2>2, <2>6, <3>1, <3>3 DEF Reply, Answer
    <3>5. /\ Len(w.list) = Len(list) /\ Grown(p, inbox, w.inbox)
          /\ w.inbox \in [Client -> Seq(PacketType)]
      BY <2>4, BusFields DEF Delivered, DevicesKept, Before
    <3>6. /\ v \in BusType /\ Len(v.list) = Len(w.list)
          /\ \A k \in 1..Len(w.list) :
                /\ Alive(v.list[k]) <=> Alive(w.list[k])
                /\ k # i => v.list[k] = w.list[k]
          /\ \/ v.inbox = w.inbox
             \/ Outcome(w, i) = "sent" /\ Written(w, w.list[i].fd, q, v.inbox)
      BY <1>1, <2>4, <3>2, <3>3, <3>5, PutKeeps DEF AsBefore
    <3>7. CASE v.inbox = w.inbox
      <4>1. inbox' = w.inbox
        BY <3>4, <3>7 DEF Become
      <4>. QED
        BY <2>3, <3>5, <4>1, NothingConfirmed
    <3>8. CASE Outcome(w, i) = "sent" /\ Written(w, w.list[i].fd, q, v.inbox)
      <4>1. PICK b \in Client : v.inbox = [w.inbox EXCEPT ![b] = Append(@, q)]
        BY <3>8 DEF Written
      <4>2. inbox' = v.inbox
        BY <3>4 DEF Become
      <4>3. ASSUME NEW c \in Client
            PROVE  /\ inbox'[c] \in Seq(PacketType) /\ DOMAIN inbox'[c] = 1..Len(inbox'[c])
                   /\ \A k \in 1..Len(w.inbox[c]) : k \in 1..Len(inbox'[c]) /\ inbox'[c][k] = w.inbox[c][k]
                   /\ \A k \in 1..Len(inbox'[c]) : k \in 1..Len(w.inbox[c]) \/ inbox'[c][k] = q
        <5>1. PICK s \in Seq(PacketType) : s = w.inbox[c]
          BY <3>5
        <5>2. PICK r \in Seq(PacketType) : r = Append(s, q)
          <6>1. Append(s, q) \in Seq(PacketType)
            BY <3>2
          <6>. QED
            BY <6>1
        <5>3. /\ Len(r) = Len(s) + 1
              /\ \A k \in 1..Len(s) : k \in 1..Len(r) /\ r[k] = s[k]
              /\ \A k \in 1..Len(r) : k \in 1..Len(s) \/ r[k] = q
          BY <5>2
        <5>4. inbox'[c] = IF c = b THEN r ELSE s
          BY <3>5, <4>1, <4>2, <5>1, <5>2
        <5>. QED
          BY <5>1, <5>3, <5>4
      <4>4. ASSUME w.ok PROVE Passes(q)
        <5>1. CASE \E d \in Client : Len(inbox[d]) < Len(w.inbox[d])
          <6>1. PICK d \in Client : Len(inbox[d]) < Len(w.inbox[d])
            BY <5>1
          <6>2. PICK m \in 1..Len(w.inbox[d]) : m = Len(w.inbox[d]) /\ m > Len(inbox[d])
            <7>1. Len(inbox[d]) \in Nat /\ Len(w.inbox[d]) \in Nat
              BY <3>5, FlightType
            <7>. QED
              BY <6>1, <7>1
          <6>3. w.inbox[d][m] = p
            BY <2>3, <3>5, <6>2, NoneGrown
          <6>4. m \in DOMAIN inbox'[d] /\ inbox'[d][m] = p
            BY <4>3, <6>3
          <6>. QED
            BY <2>3, <3>2, <6>4 DEF Passes
        <5>2. \A k \in 1..Len(w.list) :
                 /\ k \in DOMAIN list' /\ list'[k].status = v.list[k].status
          <6>1. PICK l \in Seq(DeviceType) : l = v.list /\ Len(l) = Len(list)
            BY <3>5, <3>6, BusFields
          <6>2. list' = [l EXCEPT ![i].pk = Null]
            BY <3>4, <6>1 DEF Become
          <6>3. \A k \in 1..Len(l) : l[k] \in DeviceType
            BY <6>1
          <6>4. PICK e : e = [l[i] EXCEPT !.pk = Null]
            OBVIOUS
          <6>5. e.status = l[i].status
            BY <1>1, <6>1, <6>3, <6>4 DEF DeviceType
          <6>6. list' = [l EXCEPT ![i] = e]
            BY <6>2, <6>4
          <6>. QED
            BY <1>1, <3>5, <6>1, <6>5, <6>6
        <5>3. ASSUME NEW k \in 1..Len(w.list), ~Alive(w.list[k]) PROVE Passes(q)
          <6>1. ~Alive(list'[k])
            BY <3>6, <5>2, <5>3 DEF Alive
          <6>. QED
            BY <5>2, <6>1 DEF Passes
        <5>4. ASSUME NEW k \in 1..Len(w.list), "BUSY" \in w.list[k].status, Outcome(w, k) = "late"
              PROVE  Passes(q)
          <6>1. k # i
            BY <3>8, <5>4
          <6>2. "BUSY" \in list'[k].status
            BY <3>6, <5>2, <5>4, <6>1
          <6>. QED
            BY <5>2, <6>2 DEF Passes
        <5>. QED
          BY <2>4, <4>4, <5>1, <5>3, <5>4 DEF Reached
      <4>. SUFFICES ASSUME NEW c \in Client, NEW k \in DOMAIN inbox'[c],
                           k > Len(inbox[c]), Confirms(inbox'[c][k])
                    PROVE  Passes(inbox'[c][k])
        BY DEF Fresh
      <4>5. CASE k \in 1..Len(w.inbox[c])
        <5>1. inbox'[c][k] = w.inbox[c][k] /\ ~Confirms(w.inbox[c][k])
          BY <2>3, <3>5, <4>3, <4>5, NoneGrown
        <5>. QED
          BY <5>1
      <4>6. CASE inbox'[c][k] = q
        <5>1. w.ok
          BY <3>2, <4>6 DEF Confirms
        <5>. QED
          BY <4>4, <4>6, <5>1
      <4>. QED
        BY <4>3, <4>5, <4>6
    <3>. QED
      BY <3>6, <3>7, <3>8
  <2>. QED
    BY <2>5, <2>6
<1>. QED
  BY <1>4, <1>5

\* A command that is no message confirms none.
LEMMA CommandConfirms ==
    ASSUME BusInv, NEW i \in Clients, Command(i)
    PROVE  Fresh
<1>1. CASE list[i].pk.cmd = "MESSAGE"
  <2>1. Message(i)
    BY <1>1 DEF Command, SetAddr, SetStatus, Get, SetMcastList, RemoveDevice, Shutdown, Turn
  <2>. QED
    BY <2>1, MessageConfirms
<1>2. CASE list[i].pk.cmd # "MESSAGE"
  <2>. SUFFICES ASSUME NEW c \in Client, NEW k \in DOMAIN inbox'[c], k > Len(inbox[c])
                PROVE  ~Confirms(inbox'[c][k])
    BY DEF Fresh
  <2>1. BusInv'
    BY CommandKeeps
  <2>2. k \in 1..Len(inbox'[c]) /\ k \notin 1..Len(inbox[c])
    BY <2>1, FlightType DEF BusInv, Typed
  <2>3. LET p == inbox'[c][k] IN p.addr # BusAddr \/ p.cmd = "SHUTDOWN" \/ p.cmd = list[i].pk.cmd
    BY <2>2, CommandAnswers
  <2>. QED
    BY <1>2, <2>3 DEF Confirms
<1>. QED
  BY <1>1, <1>2

\* What c can read is as it was, one packet less, or gone.
NothingNew(c) == \/ inbox'[c] \in {inbox[c], <<>>}
                 \/ inbox[c] # <<>> /\ inbox'[c] = Tail(inbox[c])

\* No other step adds to what a client can read.
LEMMA StepConfirms ==
    ASSUME BusInv, [Next]_vars
    PROVE  Fresh
<1>1. ASSUME \A c \in Client : NothingNew(c)
      PROVE  Fresh
  <2>. SUFFICES ASSUME NEW c \in Client, NEW k \in DOMAIN inbox'[c] PROVE ~(k > Len(inbox[c]))
    BY DEF Fresh
  <2>1. PICK s \in Seq(PacketType) : s = inbox[c]
    BY FlightType
  <2>2. CASE inbox'[c] = s
    BY <2>1, <2>2
  <2>3. CASE inbox'[c] = Tail(s) /\ s # <<>>
    BY <2>1, <2>3
  <2>4. CASE inbox'[c] = <<>>
    BY <2>4
  <2>. QED
    BY <1>1, <2>1, <2>2, <2>3, <2>4 DEF NothingNew
<1>2. ASSUME NEW i \in Clients, Command(i) PROVE Fresh
  BY <1>2, CommandConfirms
<1>3. ASSUME NEW b \in Client, ClientStep(b) PROVE Fresh
  <2>1. \A c \in Client : NothingNew(c)
    BY <1>3 DEF ClientStep, Call, Receive, ReadEnd, Leave, Send, BusInv, Typed, NothingNew
  <2>. QED
    BY <1>1, <2>1
<1>4. CASE UNCHANGED inbox
  BY <1>1, <1>4 DEF NothingNew
<1>. QED
  BY <1>2, <1>3, <1>4 DEF Next, Round, Clients, Select, Accept, NoCall, vars

\* A message is confirmed only in a step that has written it to some client, or
\* finds a device it was meant for gone or not reading (ib_cm_message, send_to_dev).
THEOREM ConfirmedHolds == Spec => Confirmed
<1>1. BusInv /\ [Next]_vars =>
        [\A c \in Client : \A k \in DOMAIN inbox'[c] :
          LET p == inbox'[c][k] IN
          k > Len(inbox[c]) /\ p.cmd = "MESSAGE" /\ p.addr = BusAddr /\ p.data = TRUE =>
              \/ \E d \in Client : \E m \in DOMAIN inbox'[d] :
                    inbox'[d][m].from = p.from /\ inbox'[d][m].nbr = p.nbr /\ inbox'[d][m].addr # BusAddr
              \/ \E i \in DOMAIN list' : "BUSY" \in list'[i].status \/ ~Alive(list'[i]) ]_vars
  BY StepConfirms DEF Fresh, Confirms, Passes
<1>. QED
  BY <1>1, BusInvariant, PTL DEF Spec, Confirmed
=============================================================================
