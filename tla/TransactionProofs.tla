------------------------- MODULE TransactionProofs -------------------------
(***************************************************************************)
(* Transaction: replies belong to their requests, requests are carried out *)
(* at most once and hellos are answered with their own number, for every   *)
(* modulus, number of waits, of transactions, of hellos and of losses.     *)
(***************************************************************************)
EXTENDS Transaction, Integers, TLAPS

Packets == [kind : Kind, cmd : Command, nbr : Nat, id : 0..MaxTran]

\* The kinds of packet that go each way.
ToLogger == {"request", "hello", "helloReply"}
ToPc     == {"reply", "hello", "helloReply", "helloRequest"}

Queue(q, K) == q \in Seq(Packets) /\ \A i \in 1..Len(q) : q[i].kind \in K

TypeInv ==
    /\ pc \in {"idle", "spect"} /\ cmd \in Command
    /\ nbr \in 0..Modulus /\ retry \in 0..Retries /\ said \in Nat
    /\ Queue(toLogger, ToLogger) /\ Queue(toPc, ToPc)
    /\ Queue(pk_09, {"hello"}) /\ Len(pk_09) <= 1
    /\ tran \in 0..MaxTran
    /\ Queue(result, Kind) /\ Len(result) = tran
    /\ done \in Seq(Nat) /\ Len(done) = tran
    /\ pc = "spect" => tran > 0

\* A request or a reply of transaction p.id, when the number is n and t
\* transactions have begun: it has the number that was current then, n less the
\* transactions since, around the modulus; and it has not come round.
NumberedAt(p, n, t) ==
    p.kind \in {"request", "reply"} =>
        /\ p.id \in 1..t /\ t - p.id < Modulus
        /\ p.nbr \in 1..Modulus
        /\ p.nbr = n - (t - p.id) \/ p.nbr = (n - (t - p.id)) + Modulus

Numbered(q, n, t) == \A i \in 1..Len(q) : NumberedAt(q[i], n, t)

NumberInv == Numbered(toLogger, nbr, tran) /\ Numbered(toPc, nbr, tran) /\ OwnReply

\* The requests on their way are of different transactions, which the logger has
\* not carried out.
Open(q, d) ==
    \A i \in 1..Len(q) : q[i].kind = "request" =>
        /\ q[i].id \in 1..Len(d) /\ d[q[i].id] = 0
        /\ \A j \in 1..Len(q) : q[j].kind = "request" /\ q[j].id = q[i].id => j = i

OnceInv == Open(toLogger, done) /\ DoneOnce

\* The packets of kind k have numbers of hellos, when s of them have been said.
Echoes(q, k, s) ==
    \A i \in 1..Len(q) : q[i].kind = k => q[i].nbr \in Modulus + 1..Modulus + s

EchoInv ==
    Echoes(toPc, "hello", said) /\ Echoes(pk_09, "hello", said) /\ Echoes(toLogger, "helloReply", said)
-----------------------------------------------------------------------------
(* Queues.                                                                 *)
LEMMA QueueTail ==
    ASSUME NEW S, NEW q \in Seq(S), q # <<>>
    PROVE  /\ Tail(q) \in Seq(S) /\ Head(q) \in S /\ Head(q) = q[1] /\ 1 \in 1..Len(q)
           /\ Len(Tail(q)) = Len(q) - 1
           /\ \A i \in 1..Len(Tail(q)) : i + 1 \in 1..Len(q) /\ Tail(q)[i] = q[i + 1]
  OBVIOUS

LEMMA QueueAppend ==
    ASSUME NEW S, NEW q \in Seq(S), NEW p \in S
    PROVE  /\ Append(q, p) \in Seq(S)
           /\ Len(Append(q, p)) = Len(q) + 1
           /\ Append(q, p)[Len(q) + 1] = p
           /\ \A i \in 1..Len(q) : Append(q, p)[i] = q[i]
  OBVIOUS

LEMMA QueueWithout ==
    ASSUME NEW S, NEW q \in Seq(S), NEW k \in 1..Len(q)
    PROVE  /\ Without(q, k) \in Seq(S) /\ Len(Without(q, k)) = Len(q) - 1
           /\ \A i \in 1..Len(Without(q, k)) :
                  \/ i < k /\ i \in 1..Len(q) /\ Without(q, k)[i] = q[i]
                  \/ i >= k /\ i + 1 \in 1..Len(q) /\ Without(q, k)[i] = q[i + 1]
<1>1. Len(q) \in Nat /\ Len(q) - 1 \in Nat
  OBVIOUS
<1>2. \A i \in 1..Len(q) - 1 : IF i < k THEN q[i] \in S ELSE q[i + 1] \in S
  BY <1>1
<1>3. Without(q, k) \in [1..Len(q) - 1 -> S]
  BY <1>2 DEF Without
<1>4. Without(q, k) \in Seq(S) /\ Len(Without(q, k)) = Len(q) - 1
  BY <1>1, <1>3
<1>. QED
  BY <1>1, <1>4 DEF Without

\* What a step does to a queue: it is left as it is, loses a packet (its head or
\* one that is too late), gets one, or loses its head and gets one.
Shrinks(q, r) ==
    \E f \in [1..Len(r) -> 1..Len(q)] :
        /\ \A i \in 1..Len(r) : r[i] = q[f[i]]
        /\ \A i, j \in 1..Len(r) : f[i] = f[j] => i = j

LEMMA ShrinksBy ==
    ASSUME NEW q, NEW r, NEW f \in [1..Len(r) -> 1..Len(q)],
           \A i \in 1..Len(r) : r[i] = q[f[i]],
           \A i, j \in 1..Len(r) : f[i] = f[j] => i = j
    PROVE  Shrinks(q, r)
BY DEF Shrinks

LEMMA TailShrinks ==
    ASSUME NEW S, NEW q \in Seq(S), q # <<>>
    PROVE  Tail(q) \in Seq(S) /\ Shrinks(q, Tail(q))
<1>. DEFINE f == [i \in 1..Len(Tail(q)) |-> i + 1]
<1>1. f \in [1..Len(Tail(q)) -> 1..Len(q)]
  BY QueueTail
<1>2. \A i \in 1..Len(Tail(q)) : Tail(q)[i] = q[f[i]]
  BY QueueTail
<1>3. \A i, j \in 1..Len(Tail(q)) : f[i] = f[j] => i = j
  OBVIOUS
<1>4. Tail(q) \in Seq(S)
  BY QueueTail
<1>. QED
  BY <1>1, <1>2, <1>3, <1>4, ShrinksBy

LEMMA WithoutShrinks ==
    ASSUME NEW S, NEW q \in Seq(S), NEW k \in 1..Len(q)
    PROVE  Without(q, k) \in Seq(S) /\ Shrinks(q, Without(q, k))
<1>. DEFINE r == Without(q, k)
            f == [i \in 1..Len(r) |-> IF i < k THEN i ELSE i + 1]
<1>1. r \in Seq(S) /\ Len(r) = Len(q) - 1
  BY QueueWithout
<1>2. \A i \in 1..Len(r) : f[i] \in 1..Len(q) /\ r[i] = q[f[i]]
  BY <1>1, QueueWithout
<1>3. \A i, j \in 1..Len(r) : f[i] = f[j] => i = j
  BY <1>1
<1>4. f \in [1..Len(r) -> 1..Len(q)]
  BY <1>2
<1>. HIDE DEF r, f
<1>5. Shrinks(q, r)
  BY <1>2, <1>3, <1>4, ShrinksBy
<1>. QED
  BY <1>1, <1>5 DEF r

LEMMA SameShrinks ==
    ASSUME NEW S, NEW q \in Seq(S)
    PROVE  Shrinks(q, q)
<1>. DEFINE f == [i \in 1..Len(q) |-> i]
<1>1. f \in [1..Len(q) -> 1..Len(q)]
  OBVIOUS
<1>2. (\A i \in 1..Len(q) : q[i] = q[f[i]]) /\ \A i, j \in 1..Len(q) : f[i] = f[j] => i = j
  OBVIOUS
<1>. QED
  BY <1>1, <1>2, ShrinksBy
-----------------------------------------------------------------------------

LEMMA Shrunk ==
    ASSUME NEW q, NEW r, Shrinks(q, r), NEW i \in 1..Len(r)
    PROVE  \E j \in 1..Len(q) : r[i] = q[j]
BY DEF Shrinks

LEMMA QueueShrinks ==
    ASSUME NEW K, NEW q, Queue(q, K), NEW r \in Seq(Packets), Shrinks(q, r)
    PROVE  Queue(r, K)
<1>1. ASSUME NEW i \in 1..Len(r) PROVE r[i].kind \in K
  BY Shrunk DEF Queue
<1>. QED
  BY <1>1 DEF Queue

LEMMA QueueGrows ==
    ASSUME NEW K, NEW q, Queue(q, K), NEW p \in Packets, p.kind \in K
    PROVE  Queue(Append(q, p), K) /\ Len(Append(q, p)) = Len(q) + 1
<1>1. q \in Seq(Packets)
  BY DEF Queue
<1>2. Append(q, p) \in Seq(Packets) /\ Len(Append(q, p)) = Len(q) + 1
  BY <1>1, QueueAppend
<1>3. ASSUME NEW i \in 1..Len(Append(q, p)) PROVE Append(q, p)[i].kind \in K
  <2>1. CASE i \in 1..Len(q)
    BY <1>1, <2>1, QueueAppend DEF Queue
  <2>2. CASE i = Len(q) + 1
    BY <1>1, <2>2, QueueAppend
  <2>. QED
    BY <1>1, <1>2, <2>1, <2>2
<1>. QED
  BY <1>2, <1>3 DEF Queue

LEMMA QueueRead ==
    ASSUME NEW K, NEW q, Queue(q, K), q # <<>>
    PROVE  /\ Head(q) \in Packets /\ Head(q).kind \in K /\ Head(q) = q[1] /\ 1 \in 1..Len(q)
           /\ Queue(Tail(q), K) /\ Shrinks(q, Tail(q))
<1>1. q \in Seq(Packets)
  BY DEF Queue
<1>2. Tail(q) \in Seq(Packets) /\ Shrinks(q, Tail(q))
  BY <1>1, TailShrinks
<1>3. Head(q) \in Packets /\ Head(q) = q[1] /\ 1 \in 1..Len(q)
  BY <1>1, QueueTail
<1>. QED
  BY <1>2, <1>3, QueueShrinks DEF Queue

LEMMA QueuePut ==
    ASSUME NEW K, NEW q, Queue(q, K), NEW p \in Packets, p.kind \in K, NEW k
    PROVE  Queue([q EXCEPT ![k] = p], K) /\ Len([q EXCEPT ![k] = p]) = Len(q)
<1>. DEFINE r == [q EXCEPT ![k] = p]
<1>1. q \in [1..Len(q) -> Packets] /\ Len(q) \in Nat
  BY DEF Queue
<1>2. r \in [1..Len(q) -> Packets] /\ \A i \in 1..Len(q) : r[i] = p \/ r[i] = q[i]
  BY <1>1
<1>3. r \in Seq(Packets) /\ Len(r) = Len(q)
  BY <1>1, <1>2
<1>. HIDE DEF r
<1>4. Queue(r, K)
  BY <1>2, <1>3 DEF Queue
<1>. QED
  BY <1>3, <1>4 DEF r

LEMMA QueueOfNone == \A K : Queue(<<>>, K) /\ Len(<<>>) = 0
BY DEF Queue

LEMMA QueueOfOne ==
    ASSUME NEW K, NEW p \in Packets, p.kind \in K
    PROVE  Queue(<<p>>, K) /\ Len(<<p>>) = 1
BY DEF Queue

\* A packet and its parts.
LEMMA PacketTyped ==
    ASSUME NEW k \in Kind, NEW c \in Command, NEW n \in Nat, NEW i \in 0..MaxTran
    PROVE  /\ Packet(k, c, n, i) \in Packets
           /\ Packet(k, c, n, i).kind = k /\ Packet(k, c, n, i).nbr = n /\ Packet(k, c, n, i).id = i
BY DEF Packet, Packets

LEMMA Answered ==
    ASSUME NEW p \in Packets, NEW k \in Kind
    PROVE  /\ [p EXCEPT !.kind = k] \in Packets
           /\ [p EXCEPT !.kind = k].kind = k
           /\ [p EXCEPT !.kind = k].nbr = p.nbr /\ [p EXCEPT !.kind = k].id = p.id
BY DEF Packets

LEMMA Constants ==
    /\ Collect \in Command /\ Modulus \in Nat /\ Modulus > 0 /\ Retries \in Nat /\ MaxTran \in Nat
    /\ 0 \in 0..MaxTran /\ ToLogger \subseteq Kind /\ ToPc \subseteq Kind
BY TransactionAssumption DEF ToLogger, ToPc, Kind
-----------------------------------------------------------------------------
LEMMA TypeInit == Init => TypeInv
BY QueueOfNone, Constants DEF Init, TypeInv

\* What the line loses.
LEMMA LineShrinks ==
    ASSUME TypeInv, Lose \/ Expire
    PROVE  /\ toLogger' \in Seq(Packets) /\ Shrinks(toLogger, toLogger')
           /\ toPc' \in Seq(Packets) /\ Shrinks(toPc, toPc')
           /\ UNCHANGED <<pc, cmd, nbr, retry, pk_09, tran, result, done, said>>
<1>1. toLogger \in Seq(Packets) /\ toPc \in Seq(Packets)
  BY DEF TypeInv, Queue
<1>2. Shrinks(toLogger, toLogger) /\ Shrinks(toPc, toPc)
  BY <1>1, SameShrinks
<1>3. CASE Lose
  BY <1>1, <1>2, <1>3, TailShrinks DEF Lose, computer
<1>4. CASE Expire
  BY <1>1, <1>2, <1>4, WithoutShrinks DEF Expire, computer, bounds
<1>. QED
  BY <1>3, <1>4

\* The answer of the logger: its kind, number and identity.
LEMMA AnswerIs ==
    ASSUME TypeInv, Answer
    PROVE  /\ toLogger # <<>> /\ toLogger' = Tail(toLogger)
           /\ UNCHANGED <<pc, cmd, nbr, retry, pk_09, tran, result, said>>
           /\ \/ UNCHANGED <<toPc, done>>
              \/ \E a \in Packets :
                    /\ toPc' = Append(toPc, a) /\ a.nbr = Head(toLogger).nbr /\ a.id = Head(toLogger).id
                    /\ \/ /\ Head(toLogger).kind = "request" /\ a.kind = "reply"
                          /\ done' = [done EXCEPT ![a.id] = @ + 1]
                       \/ a.kind = "helloReply" /\ UNCHANGED done
<1>. DEFINE p == Head(toLogger)
<1>1. toLogger # <<>> /\ toLogger' = Tail(toLogger)
  BY DEF Answer
<1>2. p \in Packets
  BY <1>1, QueueRead DEF TypeInv
<1>3. UNCHANGED <<pc, cmd, nbr, retry, pk_09, tran, result, said>>
  BY DEF Answer, computer, bounds
<1>4. CASE p.kind = "request" /\ done' = [done EXCEPT ![p.id] = @ + 1]
           /\ toPc' = Append(toPc, [p EXCEPT !.kind = "reply"])
  <2>. DEFINE a == [p EXCEPT !.kind = "reply"]
  <2>1. a \in Packets /\ a.kind = "reply" /\ a.nbr = p.nbr /\ a.id = p.id
    BY <1>2, Answered DEF Kind
  <2>. HIDE DEF a
  <2>2. toPc' = Append(toPc, a)
    BY <1>4 DEF a
  <2>. QED
    BY <1>1, <1>3, <1>4, <2>1, <2>2
<1>5. CASE UNCHANGED done /\ toPc' = Append(toPc, [p EXCEPT !.kind = "helloReply"])
  <2>. DEFINE a == [p EXCEPT !.kind = "helloReply"]
  <2>1. a \in Packets /\ a.kind = "helloReply" /\ a.nbr = p.nbr /\ a.id = p.id
    BY <1>2, Answered DEF Kind
  <2>. HIDE DEF a
  <2>2. toPc' = Append(toPc, a)
    BY <1>5 DEF a
  <2>. QED
    BY <1>1, <1>3, <1>5, <2>1, <2>2
<1>6. CASE UNCHANGED <<toPc, done>>
  BY <1>1, <1>3, <1>6
<1>. QED
  BY <1>4, <1>5, <1>6 DEF Answer

LEMMA TransactionIs ==
    ASSUME TypeInv, NewTransaction
    PROVE  /\ nbr' \in 1..Modulus /\ tran' = tran + 1 /\ tran' \in 1..MaxTran
           /\ Queue(result', Kind) /\ Len(result') = tran'
           /\ done' \in Seq(Nat) /\ Len(done') = tran'
<1>1. NoReply \in Packets /\ NoReply.kind \in Kind
  BY PacketTyped, Constants DEF NoReply, Kind
<1>2. Queue(result', Kind) /\ Len(result') = Len(result) + 1
  BY <1>1, QueueGrows DEF NewTransaction, TypeInv
<1>3. done' \in Seq(Nat) /\ Len(done') = Len(done) + 1
  BY QueueAppend DEF NewTransaction, TypeInv
<1>. QED
  BY <1>2, <1>3, Constants DEF NewTransaction, NewNbr, TypeInv

LEMMA TypeStep == TypeInv /\ [Next]_vars => TypeInv'
<1>. SUFFICES ASSUME TypeInv, [Next]_vars PROVE TypeInv'
  OBVIOUS
<1>1. ASSUME NEW c \in Command, Begin(c) PROVE TypeInv'
  <2>1. NewTransaction /\ NewNbr = nbr'
    BY <1>1 DEF Begin, NewTransaction
  <2>n. "request" \in Kind /\ "request" \in ToLogger /\ NewNbr \in Nat /\ tran + 1 \in 0..MaxTran
    BY <2>1, TransactionIs, Constants DEF Kind, ToLogger
  <2>2. /\ Packet("request", c, NewNbr, tran + 1) \in Packets
        /\ Packet("request", c, NewNbr, tran + 1).kind \in ToLogger
    BY ONLY <1>1, <2>n, PacketTyped
  <2>3. Queue(toLogger', ToLogger)
    BY <1>1, <2>2, QueueGrows DEF Begin, TypeInv
  <2>. QED
    BY <1>1, <2>1, <2>3, TransactionIs, Constants DEF Begin, NewTransaction, TypeInv, bounds
<1>2. CASE BeginFails
  BY <1>2, TransactionIs, Constants DEF BeginFails, NewTransaction, TypeInv
<1>r. ASSUME Arrived PROVE /\ Head(toPc) \in Packets /\ Head(toPc).kind \in ToPc
                           /\ Queue(Tail(toPc), ToPc)
  BY <1>r, QueueRead DEF Arrived, TypeInv
<1>3. CASE Accept
  <2>1. Head(toPc) \in Packets /\ Head(toPc).kind \in Kind /\ Queue(Tail(toPc), ToPc)
    BY <1>3, <1>r, Constants DEF Accept
  <2>2. Queue(result', Kind) /\ Len(result') = Len(result)
    <3>1. result' = [result EXCEPT ![tran] = Head(toPc)] /\ Queue(result, Kind)
      BY <1>3 DEF Accept, TypeInv
    <3>2. /\ Queue([result EXCEPT ![tran] = Head(toPc)], Kind)
          /\ Len([result EXCEPT ![tran] = Head(toPc)]) = Len(result)
      BY <3>1, <2>1, QueuePut
    <3>. QED
      BY <3>1, <3>2
  <2>3. Queue(toLogger', ToLogger)
    <3>1. CASE pk_09 = <<>>
      BY <1>3, <3>1 DEF Accept, TypeInv
    <3>2. CASE pk_09 # <<>>
      <4>1. pk_09[1] \in Packets /\ pk_09[1].nbr \in Nat
        BY <3>2, QueueRead DEF TypeInv, Packets
      <4>2. /\ Packet("helloReply", Collect, AnswerNbr(pk_09[1]), 0) \in Packets
            /\ Packet("helloReply", Collect, AnswerNbr(pk_09[1]), 0).kind \in ToLogger
        BY <4>1, PacketTyped, Constants DEF AnswerNbr, Kind, ToLogger
      <4>. QED
        BY <1>3, <3>2, <4>2, QueueGrows DEF Accept, TypeInv
    <3>. QED
      BY <3>1, <3>2
  <2>. QED
    BY <1>3, <2>1, <2>2, <2>3, QueueOfNone, Constants DEF Accept, TypeInv, bounds
<1>5. CASE Ignore
  BY <1>5, <1>r DEF Ignore, TypeInv, computer, bounds
<1>6. CASE Hello
  <2>1. Queue(<<Head(toPc)>>, {"hello"}) /\ Len(<<Head(toPc)>>) = 1
    BY <1>6, <1>r, QueueOfOne DEF Hello
  <2>. QED
    BY <1>6, <1>r, <2>1 DEF Hello, TypeInv, bounds
<1>7. CASE HelloRequest
  <2>1. /\ Packet("hello", Collect, nbr, 0) \in Packets
        /\ Packet("hello", Collect, nbr, 0).kind \in ToLogger
    BY PacketTyped, Constants DEF Kind, TypeInv, ToLogger
  <2>2. Queue(toLogger', ToLogger)
    BY <1>7, <2>1, QueueGrows DEF HelloRequest, TypeInv
  <2>. QED
    BY <1>7, <1>r, <2>2 DEF HelloRequest, TypeInv, computer, bounds
<1>8. CASE WaitAgain
  BY <1>8, QueueOfNone, Constants DEF WaitAgain, NothingCame, NextRetry, SendReady, TypeInv, bounds
<1>9. CASE GiveUp
  BY <1>9, QueueOfNone, Constants DEF GiveUp, NothingCame, TypeInv, line, bounds
<1>10. CASE Answer
  <2>1. Queue(toLogger', ToLogger)
    BY <1>10, AnswerIs, QueueRead DEF TypeInv
  <2>2. Queue(toPc', ToPc)
    <3>1. CASE UNCHANGED toPc
      BY <3>1 DEF TypeInv
    <3>2. ASSUME NEW a \in Packets, toPc' = Append(toPc, a), a.kind \in {"reply", "helloReply"}
          PROVE  Queue(toPc', ToPc)
      BY <3>2, QueueGrows DEF TypeInv, ToPc
    <3>. QED
      BY <1>10, <3>1, <3>2, AnswerIs
  <2>3. done' \in Seq(Nat) /\ Len(done') = Len(done)
    <3>1. \A a : [done EXCEPT ![a] = @ + 1] \in Seq(Nat)
                 /\ Len([done EXCEPT ![a] = @ + 1]) = Len(done)
      <4>0. done \in [1..Len(done) -> Nat] /\ Len(done) \in Nat
        BY DEF TypeInv
      <4>1. ASSUME NEW a PROVE [done EXCEPT ![a] = @ + 1] \in [1..Len(done) -> Nat]
        <5>1. CASE a \in 1..Len(done)
          <6>1. done[a] + 1 \in Nat
            BY <4>0, <5>1
          <6>. QED
            BY <4>0, <6>1
        <5>2. CASE a \notin 1..Len(done)
          BY <4>0, <5>2
        <5>. QED
          BY <5>1, <5>2
      <4>. QED
        BY <4>0, <4>1
    <3>. QED
      BY <1>10, <3>1, AnswerIs DEF TypeInv
  <2>. QED
    BY <1>10, <2>1, <2>2, <2>3, AnswerIs DEF TypeInv
<1>11. CASE SayHello
  <2>1. /\ Packet("hello", Collect, Modulus + said + 1, 0) \in Packets
        /\ Packet("hello", Collect, Modulus + said + 1, 0).kind \in ToPc
    BY PacketTyped, Constants DEF TypeInv, Kind, ToPc
  <2>2. Queue(toPc', ToPc)
    BY <1>11, <2>1, QueueGrows DEF SayHello, TypeInv
  <2>. QED
    BY <1>11, <2>2 DEF SayHello, TypeInv, computer
<1>12. CASE AskForHello
  <2>1. /\ Packet("helloRequest", Collect, 0, 0) \in Packets
        /\ Packet("helloRequest", Collect, 0, 0).kind \in ToPc
    BY PacketTyped, Constants DEF Kind, ToPc
  <2>2. Queue(toPc', ToPc)
    BY <1>12, <2>1, QueueGrows DEF AskForHello, TypeInv
  <2>. QED
    BY <1>12, <2>2 DEF AskForHello, TypeInv, computer
<1>13. CASE Lose \/ Expire
  <2>1. Queue(toLogger', ToLogger) /\ Queue(toPc', ToPc)
    BY <1>13, LineShrinks, QueueShrinks DEF TypeInv
  <2>. QED
    BY <1>13, <2>1, LineShrinks DEF TypeInv
<1>14. CASE UNCHANGED vars
  BY <1>14 DEF vars, computer, line, bounds, TypeInv
<1>. QED
  BY <1>1, <1>2, <1>3, <1>5, <1>6, <1>7, <1>8, <1>9, <1>10, <1>11, <1>12, <1>13, <1>14
  DEF Next, Wait

LEMMA TypeCorrect == TypeInv => TypeOK
<1>. SUFFICES ASSUME TypeInv PROVE TypeOK
  OBVIOUS
<1>1. ASSUME NEW q \in {toLogger, toPc, pk_09, result}, NEW i \in DOMAIN q
      PROVE  q[i].kind \in Kind /\ q[i].cmd \in Command /\ q[i].id \in 0..MaxTran
  <2>1. q \in Seq(Packets)
    BY <1>1 DEF TypeInv, Queue
  <2>2. q[i] \in Packets
    BY <2>1
  <2>. QED
    BY <2>2 DEF Packets
<1>. QED
  BY <1>1 DEF TypeInv, TypeOK

\* Every reachable state has its type, for any modulus and any number of
\* transactions, waits, hellos and losses (pak_send_and_spect, pak_spect).
THEOREM TransactionTypeCorrect == Spec => []TypeOK
BY TypeInit, TypeStep, TypeCorrect, PTL DEF Spec
-----------------------------------------------------------------------------
(* OwnReply.                                                               *)
LEMMA NumberedShrinks ==
    ASSUME NEW n, NEW t, NEW q, Numbered(q, n, t), NEW r, Shrinks(q, r)
    PROVE  Numbered(r, n, t)
BY Shrunk DEF Numbered

LEMMA NumberedGrows ==
    ASSUME NEW n, NEW t, NEW q \in Seq(Packets), Numbered(q, n, t),
           NEW p \in Packets, NumberedAt(p, n, t)
    PROVE  Numbered(Append(q, p), n, t)
BY QueueAppend DEF Numbered

\* A number k that was current t - i transactions ago, and the next transaction.
LEMMA NextNumber ==
    ASSUME NEW n \in 0..Modulus, NEW t \in Nat, NEW i \in 1..t, NEW k \in 1..Modulus,
           t + 1 < i + Modulus,
           k = n - (t - i) \/ k = (n - (t - i)) + Modulus
    PROVE  LET m == IF n = Modulus THEN 1 ELSE n + 1
           IN  /\ i \in 1..t + 1 /\ (t + 1) - i < Modulus
               /\ k = m - ((t + 1) - i) \/ k = (m - ((t + 1) - i)) + Modulus
<1>1. Modulus \in Nat /\ Modulus > 0
  BY Constants
<1>2. CASE n = Modulus
  BY <1>1, <1>2
<1>3. CASE n # Modulus
  BY <1>1, <1>3
<1>. QED
  BY <1>2, <1>3

\* The next transaction, when no packet is late.
LEMMA NumberedNext ==
    ASSUME TypeInv, NewTransaction,
           NEW q \in {toLogger, toPc}, Numbered(q, nbr, tran)
    PROVE  Numbered(q, nbr', tran')
<1>. SUFFICES ASSUME NEW i \in 1..Len(q), q[i].kind \in {"request", "reply"}
              PROVE  NumberedAt(q[i], nbr', tran')
  BY DEF Numbered, NumberedAt
<1>. DEFINE p == q[i]
<1>1. /\ p.id \in 1..tran /\ tran - p.id < Modulus
      /\ p.nbr \in 1..Modulus
      /\ p.nbr = nbr - (tran - p.id) \/ p.nbr = (nbr - (tran - p.id)) + Modulus
  BY DEF Numbered, NumberedAt
<1>2. ~Late(p)
  <2>1. q \in Seq(Packets)
    BY DEF TypeInv, Queue
  <2>2. i \in DOMAIN q
    BY <2>1
  <2>. QED
    BY <2>2 DEF NewTransaction, InTime
<1>3. tran \in Nat /\ nbr \in 0..Modulus /\ Modulus \in Nat /\ Modulus > 0
  BY Constants DEF TypeInv
<1>4. tran' = tran + 1 /\ nbr' = IF nbr = Modulus THEN 1 ELSE nbr + 1
  BY DEF NewTransaction, NewNbr
<1>5. tran + 1 < p.id + Modulus
  BY <1>1, <1>2, <1>3 DEF Late
<1>. HIDE DEF p
<1>6. /\ p.id \in 1..tran' /\ tran' - p.id < Modulus
      /\ p.nbr = nbr' - (tran' - p.id) \/ p.nbr = (nbr' - (tran' - p.id)) + Modulus
  BY <1>1, <1>3, <1>4, <1>5, NextNumber
<1>. QED
  BY <1>1, <1>6 DEF NumberedAt, p

\* A reply with the current number is the reply to the current transaction.
LEMMA CurrentReply ==
    ASSUME TypeInv, NEW p \in Packets, NumberedAt(p, nbr, tran), p.kind = "reply", p.nbr = nbr
    PROVE  p.id = tran
<1>1. tran \in Nat /\ nbr \in Int /\ Modulus \in Nat
  BY Constants DEF TypeInv
<1>. QED
  BY <1>1 DEF NumberedAt

LEMMA NumberInit == Init => NumberInv
BY DEF Init, NumberInv, Numbered, OwnReply

LEMMA NumberStep == TypeInv /\ NumberInv /\ [Next]_vars => NumberInv'
<1>. SUFFICES ASSUME TypeInv, NumberInv, [Next]_vars PROVE NumberInv'
  OBVIOUS
<1>q. toLogger \in Seq(Packets) /\ toPc \in Seq(Packets)
  BY DEF TypeInv, Queue
<1>n. ASSUME NewTransaction
      PROVE  /\ Numbered(toLogger, nbr', tran') /\ Numbered(toPc', nbr', tran')
             /\ OwnReply'
  <2>1. Numbered(toLogger, nbr', tran') /\ Numbered(toPc', nbr', tran')
    BY <1>n, NumberedNext DEF NumberInv, NewTransaction
  <2>2. result \in Seq(Packets) /\ NoReply.kind = "none" /\ NoReply \in Packets
    BY PacketTyped, Constants DEF TypeInv, Queue, NoReply, Kind
  <2>3. ASSUME NEW i \in DOMAIN result', result'[i].kind = "reply" PROVE result'[i].id = i
    <3>1. result' = Append(result, NoReply) /\ i \in 1..Len(result) + 1
      BY <1>n, <2>2, <2>3, QueueAppend DEF NewTransaction
    <3>2. i \in 1..Len(result) /\ result'[i] = result[i]
      BY <2>2, <2>3, <3>1, QueueAppend
    <3>. QED
      BY <2>2, <2>3, <3>2 DEF NumberInv, OwnReply
  <2>. QED
    BY <2>1, <2>3 DEF OwnReply
\* Steps that leave the transaction and its result.
<1>k. ASSUME UNCHANGED <<nbr, tran, result>>,
             Numbered(toLogger', nbr, tran), Numbered(toPc', nbr, tran)
      PROVE  NumberInv'
  BY <1>k DEF NumberInv, OwnReply
<1>a. Numbered(toLogger, nbr, tran) /\ Numbered(toPc, nbr, tran)
  BY DEF NumberInv
<1>r. ASSUME Arrived
      PROVE  /\ Numbered(Tail(toPc), nbr, tran) /\ Head(toPc) \in Packets
             /\ NumberedAt(Head(toPc), nbr, tran)
  <2>1. /\ Shrinks(toPc, Tail(toPc)) /\ Head(toPc) = toPc[1] /\ 1 \in 1..Len(toPc)
        /\ Head(toPc) \in Packets
    BY <1>r, QueueRead DEF Arrived, TypeInv
  <2>. QED
    BY <1>a, <2>1, NumberedShrinks DEF Numbered
\* Packets that are no requests.
<1>o. ASSUME NEW p \in Packets, p.kind \notin {"request", "reply"}
      PROVE  /\ Numbered(Append(toLogger, p), nbr, tran)
             /\ Numbered(Append(toPc, p), nbr, tran)
  BY <1>a, <1>q, <1>o, NumberedGrows DEF NumberedAt
<1>1. ASSUME NEW c \in Command, Begin(c) PROVE NumberInv'
  <2>1. NewTransaction /\ NewNbr = nbr' /\ toLogger' = Append(toLogger, Packet("request", c, nbr', tran + 1))
    BY <1>1 DEF Begin, NewTransaction
  <2>. DEFINE p == Packet("request", c, nbr', tran + 1)
  <2>2. nbr' \in 1..Modulus /\ tran' = tran + 1 /\ tran' \in 1..MaxTran
    BY <2>1, TransactionIs
  <2>3. p \in Packets /\ p.nbr = nbr' /\ p.id = tran'
    BY <2>2, PacketTyped, Constants DEF Kind
  <2>4. NumberedAt(p, nbr', tran')
    BY <2>2, <2>3, Constants DEF NumberedAt
  <2>. HIDE DEF p
  <2>5. Numbered(Append(toLogger, p), nbr', tran')
    BY <1>n, <1>q, <2>1, <2>3, <2>4, NumberedGrows
  <2>. QED
    BY <1>n, <2>1, <2>5 DEF NumberInv, p
<1>2. CASE BeginFails
  BY <1>2, <1>n DEF BeginFails, NumberInv
<1>3. CASE Accept
  <2>1. Numbered(toPc', nbr, tran)
    BY <1>3, <1>r DEF Accept
  <2>2. Numbered(toLogger', nbr, tran)
    <3>1. CASE pk_09 = <<>>
      BY <1>a, <1>3, <3>1 DEF Accept
    <3>2. CASE pk_09 # <<>>
      <4>1. pk_09[1] \in Packets /\ pk_09[1].nbr \in Nat
        BY <3>2, QueueRead DEF TypeInv, Packets
      <4>2. /\ Packet("helloReply", Collect, AnswerNbr(pk_09[1]), 0) \in Packets
            /\ Packet("helloReply", Collect, AnswerNbr(pk_09[1]), 0).kind = "helloReply"
        BY <4>1, PacketTyped, Constants DEF AnswerNbr, Kind
      <4>. QED
        BY <1>3, <1>o, <3>2, <4>2 DEF Accept
    <3>. QED
      BY <3>1, <3>2
  <2>3. OwnReply'
    <3>1. result' = [result EXCEPT ![tran] = Head(toPc)] /\ Expected(Head(toPc)) /\ Arrived
      BY <1>3 DEF Accept
    <3>2. Head(toPc).kind = "reply" => Head(toPc).id = tran
      BY <1>r, <3>1, CurrentReply DEF Expected
    <3>3. result \in Seq(Packets) /\ OwnReply
      BY DEF TypeInv, Queue, NumberInv
    <3>4. ASSUME NEW i \in DOMAIN result', result'[i].kind = "reply" PROVE result'[i].id = i
      <4>1. i \in DOMAIN result /\ ((i = tran /\ result'[i] = Head(toPc)) \/ result'[i] = result[i])
        BY <3>1, <3>3, <3>4
      <4>. QED
        BY <3>2, <3>3, <3>4, <4>1 DEF OwnReply
    <3>. QED
      BY <3>4 DEF OwnReply
  <2>. QED
    BY <1>3, <2>1, <2>2, <2>3 DEF Accept, NumberInv
<1>5. CASE Ignore
  BY <1>5, <1>a, <1>k, <1>r DEF Ignore, computer
<1>6. CASE Hello
  BY <1>6, <1>a, <1>k, <1>r DEF Hello
<1>7. CASE HelloRequest
  <2>1. /\ Packet("hello", Collect, nbr, 0) \in Packets
        /\ Packet("hello", Collect, nbr, 0).kind = "hello"
    BY PacketTyped, Constants DEF Kind, TypeInv
  <2>. QED
    BY <1>7, <1>k, <1>o, <1>r, <2>1 DEF HelloRequest, computer
<1>8. CASE WaitAgain
  BY <1>8, <1>a, <1>k DEF WaitAgain, SendReady
<1>9. CASE GiveUp
  BY <1>9, <1>a, <1>k DEF GiveUp, line
<1>10. CASE Answer
  <2>1. /\ Numbered(toLogger', nbr, tran) /\ Head(toLogger) \in Packets
        /\ NumberedAt(Head(toLogger), nbr, tran)
    <3>1. toLogger # <<>> /\ toLogger' = Tail(toLogger)
      BY <1>10, AnswerIs
    <3>2. /\ Shrinks(toLogger, Tail(toLogger)) /\ Head(toLogger) = toLogger[1]
          /\ 1 \in 1..Len(toLogger) /\ Head(toLogger) \in Packets
      BY <3>1, QueueRead DEF TypeInv
    <3>. QED
      BY <1>a, <3>1, <3>2, NumberedShrinks DEF Numbered
  <2>2. ASSUME NEW a \in Packets, toPc' = Append(toPc, a),
               a.nbr = Head(toLogger).nbr, a.id = Head(toLogger).id,
               Head(toLogger).kind = "request" \/ a.kind = "helloReply"
        PROVE  Numbered(toPc', nbr, tran)
    BY <1>a, <1>q, <2>1, <2>2, NumberedGrows DEF NumberedAt
  <2>3. Numbered(toPc', nbr, tran)
    BY <1>10, <1>a, <2>2, AnswerIs
  <2>. QED
    BY <1>10, <1>k, <2>1, <2>3, AnswerIs
<1>11. CASE SayHello
  <2>1. /\ Packet("hello", Collect, Modulus + said + 1, 0) \in Packets
        /\ Packet("hello", Collect, Modulus + said + 1, 0).kind = "hello"
    BY PacketTyped, Constants DEF Kind, TypeInv
  <2>. QED
    BY <1>11, <1>a, <1>k, <1>o, <2>1 DEF SayHello, computer
<1>12. CASE AskForHello
  <2>1. /\ Packet("helloRequest", Collect, 0, 0) \in Packets
        /\ Packet("helloRequest", Collect, 0, 0).kind = "helloRequest"
    BY PacketTyped, Constants DEF Kind
  <2>. QED
    BY <1>12, <1>a, <1>k, <1>o, <2>1 DEF AskForHello, computer
<1>13. CASE Lose \/ Expire
  BY <1>13, <1>a, <1>k, LineShrinks, NumberedShrinks
<1>14. CASE UNCHANGED vars
  BY <1>14, <1>a, <1>k DEF vars, computer, line
<1>. QED
  BY <1>1, <1>2, <1>3, <1>5, <1>6, <1>7, <1>8, <1>9, <1>10, <1>11, <1>12, <1>13, <1>14
  DEF Next, Wait

\* What pak_send_and_spect returns as the reply to a request is the reply to
\* that request, however late others are, as long as none is a whole round of
\* transaction numbers late.
THEOREM OwnReplyHolds == Spec => []OwnReply
<1>1. NumberInv => OwnReply
  BY DEF NumberInv
<1>. QED
  BY <1>1, TypeInit, TypeStep, NumberInit, NumberStep, PTL DEF Spec
-----------------------------------------------------------------------------
(* DoneOnce.                                                               *)
LEMMA OpenShrinks ==
    ASSUME NEW d, NEW q, Open(q, d), NEW r, Shrinks(q, r)
    PROVE  Open(r, d)
<1>1. PICK f \in [1..Len(r) -> 1..Len(q)] :
          /\ \A i \in 1..Len(r) : r[i] = q[f[i]]
          /\ \A i, j \in 1..Len(r) : f[i] = f[j] => i = j
  BY DEF Shrinks
<1>2. ASSUME NEW i \in 1..Len(r), r[i].kind = "request"
      PROVE  /\ r[i].id \in 1..Len(d) /\ d[r[i].id] = 0
             /\ \A j \in 1..Len(r) : r[j].kind = "request" /\ r[j].id = r[i].id => j = i
  <2>1. f[i] \in 1..Len(q) /\ r[i] = q[f[i]]
    BY <1>1
  <2>2. /\ r[i].id \in 1..Len(d) /\ d[r[i].id] = 0
        /\ \A k \in 1..Len(q) : q[k].kind = "request" /\ q[k].id = q[f[i]].id => k = f[i]
    BY <1>2, <2>1 DEF Open
  <2>3. ASSUME NEW j \in 1..Len(r), r[j].kind = "request", r[j].id = r[i].id PROVE j = i
    <3>1. f[j] \in 1..Len(q) /\ r[j] = q[f[j]]
      BY <1>1
    <3>2. f[j] = f[i]
      BY <2>1, <2>2, <2>3, <3>1
    <3>. QED
      BY <1>1, <3>2
  <2>. QED
    BY <2>2, <2>3
<1>. QED
  BY <1>2 DEF Open

LEMMA OpenGrows ==
    ASSUME NEW d, NEW q \in Seq(Packets), Open(q, d), NEW p \in Packets, p.kind # "request"
    PROVE  Open(Append(q, p), d)
BY QueueAppend DEF Open

LEMMA OnceInit == Init => OnceInv
BY DEF Init, OnceInv, Open, DoneOnce

LEMMA OnceStep == TypeInv /\ OnceInv /\ [Next]_vars => OnceInv'
<1>. SUFFICES ASSUME TypeInv, OnceInv, [Next]_vars PROVE OnceInv'
  OBVIOUS
<1>q. toLogger \in Seq(Packets) /\ done \in Seq(Nat) /\ Len(done) = tran /\ Len(done) \in Nat
  BY DEF TypeInv, Queue
<1>a. Open(toLogger, done) /\ DoneOnce
  BY DEF OnceInv
<1>n. ASSUME NewTransaction PROVE Open(toLogger, done') /\ DoneOnce'
  <2>1. /\ done' = Append(done, 0) /\ Len(done') = Len(done) + 1 /\ done' \in Seq(Nat)
        /\ done'[Len(done) + 1] = 0 /\ \A i \in 1..Len(done) : done'[i] = done[i]
    BY <1>n, <1>q, QueueAppend DEF NewTransaction
  <2>2. Open(toLogger, done')
    BY <1>a, <1>q, <2>1 DEF Open
  <2>3. ASSUME NEW i \in DOMAIN done' PROVE done'[i] <= 1
    <3>1. i \in 1..Len(done) \/ i = Len(done) + 1
      BY <1>q, <2>1
    <3>. QED
      BY <1>a, <1>q, <2>1, <3>1 DEF DoneOnce
  <2>. QED
    BY <2>2, <2>3 DEF DoneOnce
\* Steps in which nothing is carried out.
<1>k. ASSUME UNCHANGED done, Open(toLogger', done) PROVE OnceInv'
  BY <1>a, <1>k DEF OnceInv, DoneOnce
<1>1. ASSUME NEW c \in Command, Begin(c) PROVE OnceInv'
  <2>. DEFINE p == Packet("request", c, NewNbr, tran + 1)
  <2>1. NewTransaction /\ NewNbr = nbr' /\ toLogger' = Append(toLogger, p)
    BY <1>1 DEF Begin, NewTransaction
  <2>0. NewNbr \in Nat /\ tran + 1 \in 0..MaxTran
    BY <2>1, TransactionIs, Constants
  <2>2. p \in Packets /\ p.id = tran + 1
    BY <2>0, PacketTyped DEF Kind
  <2>. HIDE DEF p
  <2>3. /\ Len(done') = Len(done) + 1 /\ done'[Len(done) + 1] = 0
    BY <1>q, <2>1, QueueAppend DEF NewTransaction
  <2>4. /\ toLogger' \in Seq(Packets) /\ Len(toLogger') = Len(toLogger) + 1
        /\ toLogger'[Len(toLogger) + 1] = p
        /\ \A i \in 1..Len(toLogger) : toLogger'[i] = toLogger[i]
    BY <1>q, <2>1, <2>2, QueueAppend
  <2>5. \A i \in 1..Len(toLogger) : toLogger[i].kind = "request" => toLogger[i].id \in 1..tran
    BY <1>a, <1>q DEF Open
  <2>6. \A i \in 1..Len(toLogger') : i \in 1..Len(toLogger) \/ i = Len(toLogger) + 1
    BY <1>q, <2>4
  <2>7. Open(toLogger', done')
    <3>1. ASSUME NEW i \in 1..Len(toLogger'), toLogger'[i].kind = "request"
          PROVE  /\ toLogger'[i].id \in 1..Len(done') /\ done'[toLogger'[i].id] = 0
                 /\ \A j \in 1..Len(toLogger') :
                       toLogger'[j].kind = "request" /\ toLogger'[j].id = toLogger'[i].id => j = i
      <4>1. CASE i \in 1..Len(toLogger)
        BY <1>n, <1>a, <1>q, <2>1, <2>2, <2>3, <2>4, <2>5, <2>6, <3>1, <4>1 DEF Open
      <4>2. CASE i = Len(toLogger) + 1
        BY <1>q, <2>2, <2>3, <2>4, <2>5, <2>6, <3>1, <4>2
      <4>. QED
        BY <2>6, <4>1, <4>2
    <3>. QED
      BY <3>1 DEF Open
  <2>. QED
    BY <1>n, <2>1, <2>7 DEF OnceInv
<1>2. CASE BeginFails
  BY <1>2, <1>n DEF BeginFails, OnceInv
<1>3. CASE Accept
  <2>1. Open(toLogger', done)
    <3>1. CASE pk_09 = <<>>
      BY <1>a, <1>3, <3>1 DEF Accept
    <3>2. CASE pk_09 # <<>>
      <4>1. pk_09[1] \in Packets /\ pk_09[1].nbr \in Nat
        BY <3>2, QueueRead DEF TypeInv, Packets
      <4>2. /\ Packet("helloReply", Collect, AnswerNbr(pk_09[1]), 0) \in Packets
            /\ Packet("helloReply", Collect, AnswerNbr(pk_09[1]), 0).kind = "helloReply"
        BY <4>1, PacketTyped, Constants DEF AnswerNbr, Kind
      <4>. QED
        BY <1>3, <1>a, <1>q, <3>2, <4>2, OpenGrows DEF Accept
    <3>. QED
      BY <3>1, <3>2
  <2>. QED
    BY <1>3, <1>k, <2>1 DEF Accept
<1>5. CASE Ignore
  BY <1>5, <1>a, <1>k DEF Ignore
<1>6. CASE Hello
  BY <1>6, <1>a, <1>k DEF Hello
<1>7. CASE HelloRequest
  <2>1. /\ Packet("hello", Collect, nbr, 0) \in Packets
        /\ Packet("hello", Collect, nbr, 0).kind = "hello"
    BY PacketTyped, Constants DEF Kind, TypeInv
  <2>. QED
    BY <1>7, <1>a, <1>q, <1>k, <2>1, OpenGrows DEF HelloRequest
<1>8. CASE WaitAgain
  BY <1>8, <1>a, <1>k DEF WaitAgain, SendReady
<1>9. CASE GiveUp
  BY <1>9, <1>a, <1>k DEF GiveUp, line
<1>10. CASE Answer
  <2>1. toLogger # <<>> /\ toLogger' = Tail(toLogger)
    BY <1>10, AnswerIs
  <2>2. /\ Tail(toLogger) \in Seq(Packets) /\ Shrinks(toLogger, Tail(toLogger))
        /\ Head(toLogger) = toLogger[1] /\ 1 \in 1..Len(toLogger)
    BY <2>1, QueueRead DEF TypeInv, Queue
  <2>3. Open(toLogger', done)
    BY <1>a, <2>1, <2>2, OpenShrinks
  <2>4. CASE UNCHANGED done
    BY <1>k, <2>3, <2>4
  <2>5. ASSUME NEW a \in Packets, a.id = Head(toLogger).id, Head(toLogger).kind = "request",
               done' = [done EXCEPT ![a.id] = @ + 1]
        PROVE  OnceInv'
    <3>1. a.id \in 1..Len(done) /\ done[a.id] = 0
      BY <1>a, <2>2, <2>5 DEF Open
    <3>2. /\ Len(done') = Len(done) /\ DOMAIN done' = DOMAIN done /\ done'[a.id] = 1
          /\ \A i \in 1..Len(done) : i # a.id => done'[i] = done[i]
      BY <1>q, <2>5, <3>1
    <3>3. ASSUME NEW i \in 1..Len(toLogger'), toLogger'[i].kind = "request"
          PROVE  toLogger'[i].id # a.id
      <4>1. i + 1 \in 1..Len(toLogger) /\ toLogger'[i] = toLogger[i + 1] /\ i \in Nat /\ i + 1 # 1
        BY <1>q, <2>1, QueueTail
      <4>. QED
        BY <1>a, <2>2, <2>5, <3>3, <4>1 DEF Open
    <3>4. Open(toLogger', done')
      BY <2>3, <3>2, <3>3 DEF Open
    <3>5. DoneOnce'
      BY <1>a, <1>q, <3>1, <3>2 DEF DoneOnce
    <3>. QED
      BY <3>4, <3>5 DEF OnceInv
  <2>. QED
    BY <1>10, <2>4, <2>5, AnswerIs
<1>11. CASE SayHello \/ AskForHello
  BY <1>11, <1>a, <1>k DEF SayHello, AskForHello
<1>13. CASE Lose \/ Expire
  BY <1>13, <1>a, <1>k, LineShrinks, OpenShrinks
<1>14. CASE UNCHANGED vars
  BY <1>14, <1>a, <1>k DEF vars, line
<1>. QED
  BY <1>1, <1>2, <1>3, <1>5, <1>6, <1>7, <1>8, <1>9, <1>10, <1>11, <1>13, <1>14
  DEF Next, Wait

\* However often pak_send_and_spect waits again, the logger carries out a
\* request at most once.
THEOREM DoneOnceHolds == Spec => []DoneOnce
<1>1. OnceInv => DoneOnce
  BY DEF OnceInv
<1>. QED
  BY <1>1, TypeInit, TypeStep, OnceInit, OnceStep, PTL DEF Spec
-----------------------------------------------------------------------------
(* HelloEchoed.                                                            *)
LEMMA EchoesShrink ==
    ASSUME NEW k, NEW m, NEW q, Echoes(q, k, m), NEW r, Shrinks(q, r)
    PROVE  Echoes(r, k, m)
BY Shrunk DEF Echoes

LEMMA EchoesGrow ==
    ASSUME NEW k, NEW m, NEW q \in Seq(Packets), Echoes(q, k, m),
           NEW p \in Packets, p.kind = k => p.nbr \in Modulus + 1..Modulus + m
    PROVE  Echoes(Append(q, p), k, m)
BY QueueAppend DEF Echoes

LEMMA EchoInit == Init => EchoInv
BY DEF Init, EchoInv, Echoes

LEMMA EchoStep == TypeInv /\ EchoInv /\ [Next]_vars => EchoInv'
<1>. SUFFICES ASSUME TypeInv, EchoInv, [Next]_vars PROVE EchoInv'
  OBVIOUS
<1>q. toLogger \in Seq(Packets) /\ toPc \in Seq(Packets) /\ said \in Nat
  BY DEF TypeInv, Queue
<1>a. /\ Echoes(toPc, "hello", said) /\ Echoes(pk_09, "hello", said)
      /\ Echoes(toLogger, "helloReply", said)
  BY DEF EchoInv
<1>e. Echoes(<<>>, "hello", said)
  BY DEF Echoes
<1>r. ASSUME Arrived
      PROVE  /\ Echoes(Tail(toPc), "hello", said) /\ Head(toPc) \in Packets
             /\ Head(toPc).kind = "hello" => Head(toPc).nbr \in Modulus + 1..Modulus + said
  <2>1. /\ Shrinks(toPc, Tail(toPc)) /\ Head(toPc) = toPc[1] /\ 1 \in 1..Len(toPc)
        /\ Head(toPc) \in Packets
    BY <1>r, QueueRead DEF Arrived, TypeInv
  <2>. QED
    BY <1>a, <2>1, EchoesShrink DEF Echoes
<1>1. ASSUME NEW c \in Command, Begin(c) PROVE EchoInv'
  <2>. DEFINE p == Packet("request", c, NewNbr, tran + 1)
  <2>1. NewTransaction /\ NewNbr = nbr' /\ toLogger' = Append(toLogger, p)
        /\ UNCHANGED <<toPc, pk_09, said>>
    BY <1>1 DEF Begin, NewTransaction, bounds
  <2>n. "request" \in Kind /\ NewNbr \in Nat /\ tran + 1 \in 0..MaxTran
    BY <2>1, TransactionIs, Constants DEF Kind
  <2>2. p \in Packets /\ p.kind = "request"
    BY ONLY <1>1, <2>n, PacketTyped
  <2>. HIDE DEF p
  <2>. QED
    BY <1>a, <1>q, <2>1, <2>2, EchoesGrow DEF EchoInv
<1>2. CASE BeginFails
  BY <1>2, <1>a DEF BeginFails, NewTransaction, EchoInv
<1>3. CASE Accept
  <2>1. Echoes(toLogger', "helloReply", said)
    <3>1. CASE pk_09 = <<>>
      BY <1>a, <1>3, <3>1 DEF Accept
    <3>2. CASE pk_09 # <<>>
      <4>1. /\ pk_09[1] \in Packets /\ pk_09[1].nbr \in Nat
            /\ pk_09[1].nbr \in Modulus + 1..Modulus + said
        <5>1. /\ Head(pk_09) \in Packets /\ Head(pk_09).kind \in {"hello"}
              /\ Head(pk_09) = pk_09[1] /\ 1 \in 1..Len(pk_09)
          BY <3>2, QueueRead DEF TypeInv
        <5>. QED
          BY <1>a, <5>1 DEF Echoes, Packets
      <4>2. /\ Packet("helloReply", Collect, AnswerNbr(pk_09[1]), 0) \in Packets
            /\ Packet("helloReply", Collect, AnswerNbr(pk_09[1]), 0).nbr = pk_09[1].nbr
        BY <4>1, PacketTyped, Constants DEF AnswerNbr, Kind
      <4>. QED
        BY <1>3, <1>a, <1>q, <3>2, <4>1, <4>2, EchoesGrow DEF Accept
    <3>. QED
      BY <3>1, <3>2
  <2>. QED
    BY <1>3, <1>e, <1>r, <2>1 DEF Accept, EchoInv, bounds
<1>5. CASE Ignore
  BY <1>5, <1>a, <1>r DEF Ignore, computer, bounds, EchoInv
<1>6. CASE Hello
  <2>1. Echoes(<<Head(toPc)>>, "hello", said)
    BY <1>6, <1>r DEF Hello, Echoes
  <2>. QED
    BY <1>6, <1>a, <1>r, <2>1 DEF Hello, bounds, EchoInv
<1>7. CASE HelloRequest
  <2>1. /\ Packet("hello", Collect, nbr, 0) \in Packets
        /\ Packet("hello", Collect, nbr, 0).kind = "hello"
    BY PacketTyped, Constants DEF Kind, TypeInv
  <2>2. Echoes(toLogger', "helloReply", said)
    BY <1>7, <1>a, <1>q, <2>1, EchoesGrow DEF HelloRequest
  <2>. QED
    BY <1>7, <1>a, <1>r, <2>2 DEF HelloRequest, computer, bounds, EchoInv
<1>8. CASE WaitAgain \/ GiveUp
  BY <1>8, <1>a, <1>e DEF WaitAgain, GiveUp, NothingCame, SendReady, line, bounds, EchoInv
<1>10. CASE Answer
  <2>1. Echoes(toLogger', "helloReply", said)
    BY <1>10, <1>a, AnswerIs, QueueRead, EchoesShrink DEF TypeInv
  <2>2. ASSUME NEW a \in Packets, toPc' = Append(toPc, a), a.kind \in {"reply", "helloReply"}
        PROVE  Echoes(toPc', "hello", said)
    BY <1>a, <1>q, <2>2, EchoesGrow
  <2>3. Echoes(toPc', "hello", said)
    BY <1>10, <1>a, <2>2, AnswerIs
  <2>. QED
    BY <1>10, <1>a, <2>1, <2>3, AnswerIs DEF EchoInv
<1>11. CASE SayHello
  <2>. DEFINE p == Packet("hello", Collect, Modulus + said + 1, 0)
  <2>1. p \in Packets /\ p.nbr = Modulus + said + 1
    BY PacketTyped, Constants, <1>q DEF Kind
  <2>2. toPc' = Append(toPc, p) /\ said' = said + 1 /\ UNCHANGED <<pk_09, toLogger>>
    BY <1>11 DEF SayHello, computer
  <2>. HIDE DEF p
  <2>3. Modulus + 1..Modulus + said \subseteq Modulus + 1..Modulus + said'
    BY <1>q, <2>2, Constants
  <2>4. /\ Echoes(toPc, "hello", said') /\ Echoes(pk_09, "hello", said')
        /\ Echoes(toLogger, "helloReply", said')
    BY <1>a, <2>3 DEF Echoes
  <2>5. p.nbr \in Modulus + 1..Modulus + said'
    BY <1>q, <2>1, <2>2, Constants
  <2>6. Echoes(toPc', "hello", said')
    BY <1>q, <2>1, <2>2, <2>4, <2>5, EchoesGrow
  <2>. QED
    BY <2>2, <2>4, <2>6 DEF EchoInv
<1>12. CASE AskForHello
  <2>1. /\ Packet("helloRequest", Collect, 0, 0) \in Packets
        /\ Packet("helloRequest", Collect, 0, 0).kind = "helloRequest"
    BY PacketTyped, Constants DEF Kind
  <2>2. Echoes(toPc', "hello", said)
    BY <1>12, <1>a, <1>q, <2>1, EchoesGrow DEF AskForHello
  <2>. QED
    BY <1>12, <1>a, <2>2 DEF AskForHello, computer, EchoInv
<1>13. CASE Lose \/ Expire
  BY <1>13, <1>a, LineShrinks, EchoesShrink DEF EchoInv
<1>14. CASE UNCHANGED vars
  BY <1>14, <1>a DEF vars, line, computer, bounds, EchoInv
<1>. QED
  BY <1>1, <1>2, <1>3, <1>5, <1>6, <1>7, <1>8, <1>10, <1>11, <1>12, <1>13, <1>14
  DEF Next, Wait

\* An answer to a hello carries the number of a hello that the logger has said
\* (hello_transaction_respond).
THEOREM HelloEchoedHolds == Spec => []HelloEchoed
<1>1. TypeInv /\ EchoInv => HelloEchoed
  <2>. SUFFICES ASSUME TypeInv, EchoInv PROVE HelloEchoed
    OBVIOUS
  <2>1. toLogger \in Seq(Packets)
    BY DEF TypeInv, Queue
  <2>. QED
    BY <2>1 DEF EchoInv, Echoes, HelloEchoed
<1>. QED
  BY <1>1, TypeInit, TypeStep, EchoInit, EchoStep, PTL DEF Spec
=============================================================================
