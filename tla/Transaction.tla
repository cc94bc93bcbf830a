---------------------------- MODULE Transaction ----------------------------
(***************************************************************************)
(* PakBus transactions: a request with a transaction number, and the wait  *)
(* for the reply that carries it (pakbus.c: pak_send_and_spect, pak_spect, *)
(* hello_transaction_respond, and the requests of cr_collect_data,         *)
(* cr_clock_get_set and cr_get_file_size).                                 *)
(*                                                                         *)
(* The serial line keeps packets in order, loses some, and may deliver a   *)
(* reply after the computer has stopped waiting for it.  The logger        *)
(* answers what it gets, and at any time may say hello (0x09) or ask for a *)
(* hello (0x0e).                                                           *)
(***************************************************************************)
EXTENDS Naturals, Sequences

CONSTANTS
    Command,        \* the requests the program makes
    Collect,        \* the one among them whose reply has the type of a hello reply
    Modulus,        \* transaction numbers are 1..Modulus (255)
    Retries,        \* times pak_send_and_spect goes on waiting (3)
    MaxTran,        \* bound: transactions
    MaxHello,       \* bound: hellos of the logger
    MaxHelloRequest,\* bound: requests of the logger for a hello
    MaxLoss         \* bound: lost or damaged packets

ASSUME TransactionAssumption ==
    /\ Collect \in Command
    /\ Modulus \in Nat \ {0}
    /\ {Retries, MaxTran, MaxHello, MaxHelloRequest, MaxLoss} \subseteq Nat

VARIABLES
    pc,         \* "idle", or "spect": in pak_spect
    cmd,        \* the request of this transaction
    nbr,        \* GC_TRAN_NBR
    retry,      \* waits of pak_send_and_spect that have ended without a reply
    pk_09,      \* the hello pak_spect has put aside, as a sequence of at most one
    toLogger,   \* packets on their way to the logger
    toPc,       \* packets on their way to the computer
    tran,       \* history: transactions begun; identifies the current one
    result,     \* history: what transaction i returned, as result[i]
    done,       \* history: done[i], times the logger carried out request i
    said,       \* hellos the logger has said; the last one's number is said
    helloReqs, losses

computer == <<pc, cmd, nbr, retry, pk_09>>
line     == <<toLogger, toPc>>
bounds   == <<said, helloReqs, losses>>
vars     == <<computer, line, tran, result, done, bounds>>

\* A packet; id is the transaction a request or a reply belongs to, 0 for none.
Packet(kind, c, n, id) == [kind |-> kind, cmd |-> c, nbr |-> n, id |-> id]

\* MsgType: the reply to a collect request and the one to a hello are both 0x89.
Type(p) == IF p.kind = "helloReply" THEN <<"reply", Collect>> ELSE <<p.kind, p.cmd>>

NoReply == Packet("none", Collect, 0, 0)
-----------------------------------------------------------------------------
Init ==
    /\ pc = "idle" /\ cmd = Collect /\ nbr \in 0..Modulus /\ retry = 0 /\ pk_09 = <<>>
    /\ toLogger = <<>> /\ toPc = <<>>
    /\ tran = 0 /\ result = <<>> /\ done = <<>>
    /\ said = 0 /\ helloReqs = 0 /\ losses = 0

\* Mutant: the byte is taken for a counter without end.
UnboundedNbr == nbr + 1

\* GC_TRAN_NBR_NEW: one byte, never 0.
NewNbr == IF nbr = Modulus THEN 1 ELSE nbr + 1

\* The number of the packet comes up again with the next transaction.
Late(p) == p.id # 0 /\ tran + 1 >= p.id + Modulus

\* No packet is so late.
InTime == \A q \in {toLogger, toPc} : \A i \in DOMAIN q : ~Late(q[i])

\* A transaction and its number, with nothing returned yet.
NewTransaction ==
    /\ pc = "idle" /\ tran < MaxTran /\ InTime
    /\ nbr' = NewNbr
    /\ tran' = tran + 1
    /\ result' = Append(result, NoReply)
    /\ done' = Append(done, 0)
    /\ UNCHANGED toPc

\* A request is made, and sent once.
Begin(c) ==
    /\ NewTransaction
    /\ pc' = "spect" /\ cmd' = c
    /\ toLogger' = Append(toLogger, Packet("request", c, NewNbr, tran + 1))
    /\ UNCHANGED <<retry, pk_09, bounds>>

\* The request cannot be written: pak_send_and_spect returns at once.
BeginFails ==
    /\ NewTransaction
    /\ losses < MaxLoss /\ losses' = losses + 1
    /\ UNCHANGED <<pc, cmd, retry, pk_09, toLogger, said, helloReqs>>
-----------------------------------------------------------------------------
(* pak_spect                                                               *)
Arrived == pc = "spect" /\ toPc # <<>>

\* Mutant: any reply of the right type will do.
TypeMatches(p) == Type(p) = <<"reply", cmd>>

\* The type that was expected, and the number of this transaction.
Expected(p) == Type(p) = <<"reply", cmd>> /\ p.nbr = nbr

\* Mutant: the answer to a hello has a number of its own.
OwnNbr(p) == nbr

\* hello_transaction_respond copies the number of the hello.
AnswerNbr(p) == p.nbr

\* The reply is there: a hello that was put aside is answered, and pak_spect
\* returns.
Accept ==
    /\ Arrived /\ Expected(Head(toPc))
    /\ result' = [result EXCEPT ![tran] = Head(toPc)]
    /\ toLogger' = IF pk_09 = <<>> THEN toLogger
                   ELSE Append(toLogger,
                               Packet("helloReply", Collect, AnswerNbr(pk_09[1]), 0))
    /\ toPc' = Tail(toPc)
    /\ pc' = "idle" /\ retry' = 0 /\ pk_09' = <<>>
    /\ UNCHANGED <<cmd, nbr, tran, done, bounds>>

\* Another transaction's reply: dropped.
Ignore ==
    /\ Arrived /\ Head(toPc).kind \in {"reply", "helloReply"} /\ ~Expected(Head(toPc))
    /\ toPc' = Tail(toPc)
    /\ UNCHANGED <<computer, toLogger, tran, result, done, bounds>>

\* A hello is put aside until the reply comes; an earlier one is dropped.
Hello ==
    /\ Arrived /\ Head(toPc).kind = "hello"
    /\ pk_09' = <<Head(toPc)>>
    /\ toPc' = Tail(toPc)
    /\ UNCHANGED <<pc, cmd, nbr, retry, toLogger, tran, result, done, bounds>>

\* 0x0e: cr_hello_transaction_request, with the number of this transaction.
HelloRequest ==
    /\ Arrived /\ Head(toPc).kind = "helloRequest"
    /\ toLogger' = Append(toLogger, Packet("hello", Collect, nbr, 0))
    /\ toPc' = Tail(toPc)
    /\ UNCHANGED <<computer, tran, result, done, bounds>>

\* Mutants: waiting again sends the request again; the waits are not counted.
SendAgain  == Append(toLogger, Packet("request", cmd, nbr, tran))
NotCounted == retry

\* What waiting again sends: cr_ready, which asks nothing of the logger.
SendReady == toLogger
NextRetry == retry + 1

\* Nothing comes in time, or a damaged packet: pak_spect returns, and forgets a
\* hello it has put aside.
NothingCame == pc = "spect" /\ pk_09' = <<>>

WaitAgain ==
    /\ NothingCame /\ retry < Retries
    /\ retry' = NextRetry
    /\ toLogger' = SendReady
    /\ UNCHANGED <<pc, cmd, nbr, toPc, tran, result, done, bounds>>

GiveUp ==
    /\ NothingCame /\ retry = Retries
    /\ pc' = "idle" /\ retry' = 0
    /\ UNCHANGED <<cmd, nbr, line, tran, result, done, bounds>>
-----------------------------------------------------------------------------
(* The logger and the line (external).                                     *)
Answer ==
    /\ toLogger # <<>>
    /\ LET p == Head(toLogger)
       IN  \/ /\ p.kind = "request"
              /\ done' = [done EXCEPT ![p.id] = @ + 1]
              /\ toPc' = Append(toPc, [p EXCEPT !.kind = "reply"])
           \/ /\ p.kind = "hello"
              /\ toPc' = Append(toPc, [p EXCEPT !.kind = "helloReply"])
              /\ UNCHANGED done
           \/ p.kind = "helloReply" /\ UNCHANGED <<toPc, done>>
    /\ toLogger' = Tail(toLogger)
    /\ UNCHANGED <<computer, tran, result, bounds>>

\* The logger numbers its hellos by itself, above Modulus here.
SayHello ==
    /\ said < MaxHello
    /\ said' = said + 1
    /\ toPc' = Append(toPc, Packet("hello", Collect, Modulus + said + 1, 0))
    /\ UNCHANGED <<computer, toLogger, tran, result, done, helloReqs, losses>>

AskForHello ==
    /\ helloReqs < MaxHelloRequest
    /\ helloReqs' = helloReqs + 1
    /\ toPc' = Append(toPc, Packet("helloRequest", Collect, 0, 0))
    /\ UNCHANGED <<computer, toLogger, tran, result, done, said, losses>>

Lose ==
    /\ losses < MaxLoss
    /\ losses' = losses + 1
    /\ \/ toPc # <<>> /\ toPc' = Tail(toPc) /\ UNCHANGED toLogger
       \/ toLogger # <<>> /\ toLogger' = Tail(toLogger) /\ UNCHANGED toPc
    /\ UNCHANGED <<computer, tran, result, done, said, helloReqs>>

\* The line without its i-th packet.
Without(q, i) == [j \in 1..Len(q) - 1 |-> IF j < i THEN q[j] ELSE q[j + 1]]

\* The line does not bring a packet as late as that.
Expire ==
    /\ pc = "idle"
    /\ \/ /\ \E i \in DOMAIN toPc : Late(toPc[i]) /\ toPc' = Without(toPc, i)
          /\ UNCHANGED toLogger
       \/ /\ \E i \in DOMAIN toLogger : Late(toLogger[i]) /\ toLogger' = Without(toLogger, i)
          /\ UNCHANGED toPc
    /\ UNCHANGED <<computer, tran, result, done, bounds>>
-----------------------------------------------------------------------------
Wait == Accept \/ Ignore \/ Hello \/ HelloRequest \/ WaitAgain \/ GiveUp

Next ==
    \/ \E c \in Command : Begin(c)
    \/ BeginFails
    \/ Wait
    \/ Answer \/ SayHello \/ AskForHello \/ Lose \/ Expire

Spec == Init /\ [][Next]_vars

\* hw_read returns within its timeout, with or without a byte.
FairSpec == Spec /\ WF_vars(Wait)
-----------------------------------------------------------------------------
Kind == {"request", "reply", "hello", "helloReply", "helloRequest", "none"}

TypeOK ==
    /\ pc \in {"idle", "spect"} /\ cmd \in Command
    /\ nbr \in 0..Modulus /\ retry \in 0..Retries
    /\ \A q \in {toLogger, toPc, pk_09, result} : \A i \in DOMAIN q :
           /\ q[i].kind \in Kind /\ q[i].cmd \in Command /\ q[i].id \in 0..MaxTran
    /\ Len(pk_09) <= 1
    /\ tran \in 0..MaxTran /\ Len(result) = tran /\ Len(done) = tran

\* A reply is taken for the reply to this request only when it is, although
\* replies are late and transaction numbers come up again.
OwnReply ==
    \A i \in DOMAIN result : result[i].kind = "reply" => result[i].id = i

\* The logger carries out a request at most once: a client that waits again
\* does not ask again (pakbus.c on the clock: "the inherent danger of retrying
\* a clock set command").
DoneOnce == \A i \in DOMAIN done : done[i] <= 1

\* An answer to a hello carries the number of a hello the logger has said
\* (pakbus.c: "copy the exact transaction number").
HelloEchoed ==
    \A i \in DOMAIN toLogger : toLogger[i].kind = "helloReply" =>
        toLogger[i].nbr \in Modulus + 1..Modulus + said

\* A transaction ends, with a reply or without.
TransactionEnds == pc = "spect" ~> pc = "idle"

\* What a transaction returns is a reply to a request of that kind (pakbus.c:
\* "Collect Data Transaction (MsgType 0x09 & 0x89)").
ReplyOfKind ==
    \A i \in DOMAIN result : result[i].kind \in {"reply", "none"}
=============================================================================
