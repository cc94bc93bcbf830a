------------------------------ MODULE Session ------------------------------
(***************************************************************************)
(* A session with the data logger, from gcampda_init_connection to         *)
(* gcampda_finished_connection, in the order main asks for things: the     *)
(* station's name, the clock (read, corrected, read again), a file of the  *)
(* logger (".TDF" or ".dir") in pieces.                                    *)
(*                                                                         *)
(* The line keeps packets in order and loses some; an answer may come at   *)
(* any time, also after the program has stopped waiting for it.  A logger  *)
(* that is told LS_READY while the program waits may send its last answer  *)
(* again.  A write that fails is a packet lost.  Hellos the logger says on *)
(* its own are in Transaction.                                             *)
(***************************************************************************)
EXTENDS Integers, Sequences

CONSTANTS
    File,       \* the logger's file, byte by byte
    Swath,      \* bytes asked for at a time (512)
    Skew,       \* how far the logger's clock is ahead, in waits
    FirstNbr,   \* GC_TRAN_NBR of the process
    Rings,      \* times init_connection rings again (3)
    Turns,      \* packets cr_at looks at (5)
    Retries,    \* times pak_send_and_spect goes on waiting (3)
    MaxAsk,     \* bound: requests for a hello that answer no ring
    MaxLoss     \* bound: lost packets

ASSUME SessionAssumption ==
    /\ File \in Seq(0..255) /\ Swath \in Nat \ {0}
    /\ Skew \in Int /\ FirstNbr \in 0..255
    /\ {Rings, Turns, Retries, MaxAsk, MaxLoss} \subseteq Nat

VARIABLES
    pc,         \* what is waited for, and "closed" at the end
    setClk,     \* --setclk
    nbr,        \* GC_TRAN_NBR
    pk,         \* the request of the transaction
    retry,      \* waits, or turns of cr_at, that have brought nothing
    foffset, buff, got,  \* cr_get_file_size; got is history: it has returned 0
    clockSet,   \* history: cr_clock_set has returned 0
    since,      \* waits since gettimeofday, while the clock is being read
    out, air,   \* packets on their way to the logger, and from it
    last,       \* the last answer of the logger, as a sequence of at most one
    skew,       \* how far the logger's clock is ahead
    heard,      \* history: what the logger has heard of the set-up
    asks, losses, lostEnd  \* lostEnd is history: the end of the session was lost

upload   == <<foffset, buff, got>>
clock    == <<clockSet, since>>
logger   == <<last, skew, heard>>
bounds   == <<asks, losses, lostEnd>>
vars     == <<pc, setClk, nbr, pk, retry, upload, clock, out, air, logger, bounds>>

\* ok is resp_code = 0; arg is a reading, a correction or an offset.
Packet(kind, n, arg, ok) == [kind |-> kind, nbr |-> n, arg |-> arg, ok |-> ok]
Link(kind) == Packet(kind, 0, 0, TRUE)

\* What an earlier session may have left on the line: its number is another.
Stale == Packet("helloReply", (FirstNbr + 128) % 256, 0, TRUE)
-----------------------------------------------------------------------------
Init ==
    /\ pc = "ring" /\ setClk \in BOOLEAN /\ nbr = FirstNbr /\ pk = Link("none") /\ retry = 0
    /\ foffset = 0 /\ buff = <<>> /\ got = FALSE
    /\ clockSet = FALSE /\ since = 0
    /\ out = <<Link("broadcast")>> /\ air \in {<<>>, <<Stale>>} /\ last = <<>>
    /\ skew = Skew /\ heard = {}
    /\ asks = 0 /\ losses = 0 /\ lostEnd = FALSE

Say(p) == out' = Append(out, p)
Hang   == pc' = "closed" /\ UNCHANGED out

\* A packet is read: packet, that is.
Arrives == air # <<>> /\ air' = Tail(air)
packet  == Head(air)

Same == UNCHANGED <<setClk, logger, bounds>>
-----------------------------------------------------------------------------
(* gcampda_init_connection                                                 *)

\* The logger asks for a hello; cr_at rings it.
RingAnswered ==
    /\ pc = "ring" /\ Arrives /\ packet.kind = "helloRequest"
    /\ pc' = "at" /\ retry' = 0 /\ Say(Link("ring"))
    /\ UNCHANGED <<nbr, pk, upload, clock>> /\ Same

\* gcampdapak_spect drops what it does not wait for.
Skipped ==
    /\ \/ pc = "ring" /\ Arrives /\ packet.kind # "helloRequest"
       \/ /\ pc = "hello" /\ Arrives
          /\ ~(packet.kind = "helloReply" /\ packet.nbr = nbr)
    /\ UNCHANGED <<pc, nbr, pk, retry, upload, clock, out>> /\ Same

\* Nothing came: the broadcast is sent again, at most Rings times.
RingAgain ==
    /\ pc = "ring"
    /\ \/ retry < Rings /\ retry' = retry + 1 /\ Say(Link("broadcast")) /\ UNCHANGED pc
       \/ retry = Rings /\ Hang /\ UNCHANGED retry
    /\ UNCHANGED <<nbr, pk, upload, clock, air>> /\ Same

\* Mutant: the link state alone; every packet with data says LS_READY as well.
StateReady(p) == p.kind # "offline"

\* A packet of LS_READY without data.
IsReady(p) == p.kind = "ready"

\* cr_at; then gcampda_hello_request, whose number is not a new one.
AtReady ==
    /\ pc = "at" /\ Arrives /\ IsReady(packet)
    /\ pc' = "hello" /\ retry' = 0 /\ Say(Packet("hello", nbr, 0, TRUE))
    /\ UNCHANGED <<nbr, pk, upload, clock>> /\ Same

\* Another packet, or none, takes a turn.
AtTurn ==
    /\ pc = "at"
    /\ \/ Arrives /\ ~IsReady(packet)
       \/ UNCHANGED air
    /\ \/ retry + 1 < Turns /\ retry' = retry + 1 /\ UNCHANGED <<pc, out>>
       \/ retry + 1 >= Turns /\ Hang /\ UNCHANGED retry
    /\ UNCHANGED <<nbr, pk, upload, clock>> /\ Same

NoHello ==
    /\ pc = "hello" /\ Hang
    /\ UNCHANGED <<nbr, pk, retry, upload, clock, air>> /\ Same
-----------------------------------------------------------------------------
(* Transactions: pak_send_and_spect, pak_spect                             *)
Type == [name |-> "value", read |-> "clock", set |-> "clock", get |-> "clock",
         upload |-> "file"]
Asking == DOMAIN Type

\* Mutant: the byte is taken for a counter without end.
UnboundedNbr == nbr + 1

\* GC_TRAN_NBR_NEW: one byte, never 0.
NewNbr == IF nbr = 255 THEN 1 ELSE nbr + 1

Ask(stage, n, arg) ==
    /\ pc' = stage /\ nbr' = n /\ retry' = 0
    /\ pk' = Packet(Type[stage], n, arg, TRUE)
    /\ Say(pk')

Expected(p) == p.kind = Type[pc] /\ p.nbr = nbr

Replied(stage) == pc = stage /\ Arrives /\ Expected(packet) /\ packet.ok

\* It is refused, or the last wait brings nothing.
Failed(stage) ==
    /\ pc = stage
    /\ \/ Arrives /\ Expected(packet) /\ ~packet.ok
       \/ retry = Retries /\ UNCHANGED air

\* What pak_spect does with the rest: 0x0e is answered with a hello.
Unexpected ==
    /\ pc \in Asking /\ Arrives /\ ~Expected(packet)
    /\ IF packet.kind = "helloRequest" THEN Say(Packet("hello", nbr, 0, TRUE))
       ELSE UNCHANGED out
    /\ UNCHANGED <<pc, nbr, pk, retry, upload, clock>> /\ Same

\* Mutant: waiting again sends the request again.
AskAgain == pk

\* Waiting again says cr_ready.
Ready == Link("ready")

WaitAgain ==
    /\ pc \in Asking /\ retry < Retries
    /\ retry' = retry + 1 /\ Say(Ready)
    /\ since' = IF pc = "read" THEN since + 1 ELSE since
    /\ UNCHANGED <<pc, nbr, pk, upload, clockSet, air>> /\ Same
-----------------------------------------------------------------------------
(* main                                                                    *)

\* The time is taken before the clock is read.
NameRead ==
    /\ Replied("name")
    /\ Ask(IF setClk THEN "read" ELSE "get", NewNbr, 0)
    /\ UNCHANGED <<upload, clock>> /\ Same

NameFailed ==
    /\ Failed("name") /\ Hang
    /\ UNCHANGED <<nbr, pk, retry, upload, clock>> /\ Same

HelloAnswered ==
    /\ pc = "hello" /\ Arrives
    /\ packet.kind = "helloReply" /\ packet.nbr = nbr
    /\ Ask("name", NewNbr, 0)
    /\ UNCHANGED <<upload, clock>> /\ Same

\* cr_clock_set: what the clock lacks to the time that was taken.
ClockRead ==
    /\ Replied("read") /\ Ask("set", NewNbr, 0 - packet.arg)
    /\ since' = 0
    /\ UNCHANGED <<upload, clockSet>> /\ Same

ClockNotRead ==
    /\ Failed("read") /\ Ask("get", NewNbr, 0)
    /\ since' = 0
    /\ UNCHANGED <<upload, clockSet>> /\ Same

ClockSet ==
    /\ \/ Replied("set") /\ clockSet' = TRUE
       \/ Failed("set") /\ UNCHANGED clockSet
    /\ Ask("get", NewNbr, 0)
    /\ UNCHANGED <<upload, since>> /\ Same

\* gcampda_finished_connection; when pakctrl cannot write, it does not wait.
Finish ==
    \/ /\ pc' = "finish" /\ retry' = 0 /\ Say(Link("finished"))
       /\ UNCHANGED bounds
    \/ /\ losses < MaxLoss /\ losses' = losses + 1 /\ lostEnd' = TRUE
       /\ Hang /\ UNCHANGED <<retry, asks>>

\* The clock is read again; then main goes on with a file, or has done.
GetClock ==
    /\ Replied("get") \/ Failed("get")
    /\ \/ Ask("upload", NewNbr, 0) /\ UNCHANGED bounds
       \/ Finish /\ UNCHANGED <<nbr, pk>>
    /\ UNCHANGED <<upload, clock, setClk, logger>>

\* Nothing but LS_OFF_LINE ends the wait; a timeout does not.
Parted ==
    /\ pc = "finish" /\ Arrives
    /\ IF packet.kind = "offline" THEN Hang ELSE UNCHANGED <<pc, out>>
    /\ UNCHANGED <<nbr, pk, retry, upload, clock>> /\ Same
-----------------------------------------------------------------------------
(* cr_get_file_size, with the size unknown                                 *)

\* The logger gives what it has, at most Swath bytes.
Chunk(offset) ==
    SubSeq(File, offset + 1, IF offset + Swath < Len(File) THEN offset + Swath ELSE Len(File))

\* realloc cuts what lies behind; what lies before is as it was, or undefined.
Stored(offset, piece) ==
    [i \in 1..offset |-> IF i <= Len(buff) THEN buff[i] ELSE 0 - 1] \o piece

\* Mutant: the pieces are counted here, whatever the reply says.
OwnOffset == foffset

\* foffset comes from the reply.
Offset == packet.arg

\* Mutant: the comparison turned round.
MoreCame(n) == n > Swath

\* swath_read < len
Complete(n) == n < Swath

\* All pieces have one transaction number.
Piece ==
    /\ Replied("upload")
    /\ LET piece == Chunk(packet.arg)
       IN  /\ buff' = Stored(Offset, piece)
           /\ foffset' = Offset + Len(piece)
           /\ IF Complete(Len(piece))
              THEN got' = TRUE /\ Finish /\ UNCHANGED <<nbr, pk>>
              ELSE Ask("upload", nbr, foffset') /\ UNCHANGED <<got, bounds>>
    /\ UNCHANGED <<clock, setClk, logger>>

\* The pieces are dropped.
NoFile ==
    /\ Failed("upload") /\ Finish
    /\ buff' = <<>>
    /\ UNCHANGED <<nbr, pk, foffset, got, clock, setClk, logger>>
-----------------------------------------------------------------------------
(* The logger and the line (external).                                     *)
Taken   == out # <<>> /\ out' = Tail(out)
request == Head(out)

Reply(p) == air' = Append(air, p) /\ last' = <<p>>

Program == <<pc, setClk, nbr, pk, retry, upload, clock>>
Hears   == heard' = heard \cup ({request.kind} \cap {"ring", "hello"})

AnswerTo == [broadcast |-> "helloRequest", ring |-> "ready", hello |-> "helloReply",
             finished |-> "offline"]

AnswerLink ==
    /\ Taken /\ request.kind \in DOMAIN AnswerTo
    /\ Reply([request EXCEPT !.kind = AnswerTo[@]])
    /\ Hears
    /\ UNCHANGED <<Program, skew, bounds>>

\* The clock is corrected by what is asked for, and its reading sent.
AnswerRequest ==
    /\ Taken /\ request.kind \in {"value", "clock", "file"}
    /\ \/ /\ request.kind = "clock"
          /\ Reply([request EXCEPT !.arg = skew + since]) /\ skew' = skew + request.arg
       \/ request.kind # "clock" /\ Reply(request) /\ UNCHANGED skew
       \/ Reply([request EXCEPT !.ok = FALSE]) /\ UNCHANGED skew
    /\ UNCHANGED <<Program, heard, bounds>>

\* LS_READY: perhaps the last answer once more.
AnswerReady ==
    /\ Taken /\ request.kind = "ready"
    /\ \/ last # <<>> /\ Reply(last[1])
       \/ UNCHANGED <<air, last>>
    /\ UNCHANGED <<Program, skew, heard, bounds>>

Lose ==
    /\ pc # "closed" /\ losses < MaxLoss /\ losses' = losses + 1
    /\ \E q \in {out, air} :
        /\ q # <<>>
        /\ lostEnd' = (lostEnd \/ Head(q).kind \in {"finished", "offline"})
        /\ \/ q = out /\ out' = Tail(out) /\ UNCHANGED air
           \/ q = air /\ air' = Tail(air) /\ UNCHANGED out
    /\ UNCHANGED <<Program, logger, asks>>

\* 0x0e, with the number 0.
AskForHello ==
    /\ pc # "closed" /\ asks < MaxAsk /\ asks' = asks + 1
    /\ air' = Append(air, Link("helloRequest"))
    /\ UNCHANGED <<Program, out, logger, losses, lostEnd>>
-----------------------------------------------------------------------------
Setup    == RingAnswered \/ Skipped \/ RingAgain \/ AtReady \/ AtTurn \/ NoHello
Work     == \/ Unexpected \/ WaitAgain \/ HelloAnswered \/ NameRead \/ NameFailed
            \/ ClockRead \/ ClockNotRead \/ ClockSet \/ GetClock \/ Piece \/ NoFile
Computer == Setup \/ Work \/ Parted
Logger   == AnswerLink \/ AnswerRequest \/ AnswerReady

Next == Computer \/ Logger \/ AskForHello \/ Lose

Spec == Init /\ [][Next]_vars

\* hw_read returns within its timeout, with or without a byte; the logger
\* answers what it gets.
FairSpec == Spec /\ WF_vars(Computer) /\ WF_vars(Logger)
-----------------------------------------------------------------------------
Kind == {"broadcast", "ring", "hello", "finished", "ready", "value", "clock", "file",
         "helloRequest", "helloReply", "offline", "none"}

TypeOK ==
    /\ pc \in {"ring", "at", "hello", "finish", "closed"} \cup Asking
    /\ {setClk, got, clockSet, lostEnd} \subseteq BOOLEAN
    /\ nbr \in 0..255 /\ retry \in 0..Turns + Retries + Rings
    /\ \A q \in {out, air, last, <<pk>>} : \A i \in DOMAIN q :
           q[i].kind \in Kind /\ q[i].nbr \in 0..255
    /\ foffset \in 0..Len(File) /\ buff \in Seq(0..255)
    /\ since \in 0..Retries /\ heard \subseteq {"ring", "hello"} /\ asks \in 0..MaxAsk /\ losses \in 0..MaxLoss

\* A session that is set up is one the logger has been rung for and has said
\* hello in, whatever answers to earlier rings, or to an earlier session, come
\* in between (gcampda_init_connection, cr_at).
Joined == pc \in Asking => {"ring", "hello"} \subseteq heard

\* The clock is as it was, or behind the time by no more than the waits of its
\* reading: it is corrected once, and by what it lacked, although an answer
\* that comes too late leaves the program without knowing (pakbus.c: "the
\* inherent danger of retrying a clock set command").
ClockRight ==
    /\ skew \in {Skew} \cup (0 - Retries)..0
    /\ clockSet => skew \in (0 - Retries)..0

\* cr_get_file_size returns 0 with the whole file, in order and once, although
\* its pieces share a transaction number and may come twice.
FileWhole == got => buff = File

\* The session ends, or it waits for a LS_OFF_LINE that was lost.
Ends == <>(pc = "closed" \/ (pc = "finish" /\ lostEnd))
=============================================================================
