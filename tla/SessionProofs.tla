---------------------------- MODULE SessionProofs -----------------------------
(***************************************************************************)
(* Session: a session that is set up is one the logger has joined, and its *)
(* clock is corrected at most once and by what it lacked, for every skew,  *)
(* number of rings, turns, waits, losses and repeated answers.             *)
(***************************************************************************)
EXTENDS Session, TLAPS

Packets == [kind : Kind, nbr : Int, arg : Int, ok : BOOLEAN]

\* What a packet from the logger shows about what the logger has heard.
Shows(p) ==
    /\ p.kind = "ready" => "ring" \in heard
    /\ p.kind = "helloReply" => p.nbr = Stale.nbr \/ "hello" \in heard

\* The packets on their way are packets, and show what they should; the number
\* of the hello is the first one, and Stale's is another.
IInv ==
    /\ pc \in {"ring", "at", "hello", "finish", "closed"} \cup Asking
    /\ nbr \in Int /\ skew \in Int /\ since \in Int
    /\ out \in Seq(Packets) /\ air \in Seq(Packets) /\ last \in Seq(Packets)
    /\ pk \in Packets
    /\ \A i \in 1..Len(air) : Shows(air[i])
    /\ \A i \in 1..Len(last) : Shows(last[i])
    /\ pc \in {"ring", "at", "hello"} => nbr = FirstNbr
    /\ pc = "hello" => "ring" \in heard
    /\ Joined

\* A queue that loses its head has elements it had, and one that gets an element
\* has no other new one.
LEMMA QueueTail ==
    ASSUME NEW S, NEW q \in Seq(S), q # <<>>
    PROVE  /\ Tail(q) \in Seq(S) /\ Head(q) \in S /\ Head(q) = q[1] /\ 1 \in 1..Len(q)
           /\ \A i \in 1..Len(Tail(q)) : i + 1 \in 1..Len(q) /\ Tail(q)[i] = q[i + 1]
  OBVIOUS

LEMMA QueueAppend ==
    ASSUME NEW S, NEW q \in Seq(S), NEW p \in S
    PROVE  /\ Append(q, p) \in Seq(S)
           /\ \A i \in 1..Len(Append(q, p)) :
                  Append(q, p)[i] = p \/ (i \in 1..Len(q) /\ Append(q, p)[i] = q[i])
  OBVIOUS

LEMMA StaleIsOther == Stale.nbr # FirstNbr /\ Stale.nbr \in Int
  BY SessionAssumption DEF SessionAssumption, Stale, Packet

LEMMA LinkTyped ==
    ASSUME NEW k \in Kind, NEW n \in Int, NEW a \in Int, NEW b \in BOOLEAN
    PROVE  Packet(k, n, a, b) \in Packets /\ Link(k) \in Packets
  BY DEF Packet, Link, Packets

LEMMA OnePacket ==
    ASSUME NEW S, NEW p \in S
    PROVE  <<p>> \in Seq(S)
  OBVIOUS

LEMMA InitInvariant == Init => IInv
  <1> SUFFICES ASSUME Init PROVE IInv
    OBVIOUS
  <1>1. Stale \in Packets /\ Shows(Stale)
    BY StaleIsOther DEF Stale, Packet, Packets, Kind, Shows
  <1>2. Link("broadcast") \in Packets /\ Link("none") \in Packets
    BY DEF Link, Packet, Packets, Kind
  <1>3. out \in Seq(Packets) /\ last \in Seq(Packets) /\ pk \in Packets
    <2>1. out = <<Link("broadcast")>> /\ last = <<>> /\ pk = Link("none")
      BY DEF Init
    <2>2. QED
      BY <1>2, <2>1, OnePacket
  <1>4. /\ air \in Seq(Packets)
        /\ \A i \in 1..Len(air) : Shows(air[i])
        /\ \A i \in 1..Len(last) : Shows(last[i])
    <2>1. last = <<>>
      BY DEF Init
    <2>2. CASE air = <<>>
      BY <2>1, <2>2
    <2>3. CASE air = <<Stale>>
      <3>1. air \in Seq(Packets)
        BY <1>1, <2>3, OnePacket
      <3>2. QED
        BY <1>1, <2>1, <2>3, <3>1
    <2>4. QED
      BY <2>2, <2>3 DEF Init
  <1>5. pc = "ring" /\ nbr = FirstNbr /\ skew = Skew /\ since = 0
    BY DEF Init
  <1>6. QED
    BY <1>3, <1>4, <1>5, SessionAssumption DEF IInv, Joined, SessionAssumption, Asking, Type

-----------------------------------------------------------------------------
(* What the steps do to the queues.                                        *)

\* What the queues hold, of IInv.
Queues ==
    /\ out \in Seq(Packets) /\ air \in Seq(Packets) /\ last \in Seq(Packets)
    /\ \A i \in 1..Len(air) : Shows(air[i])
    /\ \A i \in 1..Len(last) : Shows(last[i])

\* Reading a packet or not, and saying a packet or not.
LEMMA ProgramQueues ==
    ASSUME Queues, UNCHANGED <<last, heard>>,
           air' = air \/ Arrives,
           out' = out \/ \E p \in Packets : Say(p)
    PROVE  Queues'
  <1>1. out' \in Seq(Packets)
    BY QueueAppend DEF Queues, Say
  <1>2. \A p : Shows(p)' <=> Shows(p)
    BY DEF Shows
  <1>3. air' \in Seq(Packets) /\ \A i \in 1..Len(air') : Shows(air'[i])
    <2>1. CASE air' = air
      BY <2>1 DEF Queues
    <2>2. CASE Arrives
      BY <2>2, QueueTail DEF Queues, Arrives
    <2>3. QED
      BY <2>1, <2>2
  <1>4. QED
    BY <1>1, <1>2, <1>3 DEF Queues

\* A packet that is read shows what it should.
LEMMA ReadShows ==
    ASSUME Queues, Arrives
    PROVE  packet \in Packets /\ Shows(packet)
  BY QueueTail DEF Queues, Arrives, packet

\* The logger takes a packet and sends one, or only one of the two.
LEMMA LoggerQueues ==
    ASSUME Queues, heard \subseteq heard',
           out' = out \/ Taken,
           NEW CONSTANT p \in Packets, Shows(p)',
           air' = air \/ air' = Append(air, p), last' = last \/ last' = <<p>>
    PROVE  Queues'
  <1>1. out' \in Seq(Packets)
    BY QueueTail DEF Queues, Taken
  <1>2. \A q : Shows(q) => Shows(q)'
    BY DEF Shows
  <1>3. (air \in Seq(Packets) /\ \A i \in 1..Len(air) : Shows(air[i]))'
    <2>1. CASE air' = air
      BY <1>2, <2>1 DEF Queues
    <2>2. CASE air' = Append(air, p)
      <3>1. \A i \in 1..Len(air') : air'[i] = p \/ (i \in 1..Len(air) /\ air'[i] = air[i])
        BY <2>2, QueueAppend DEF Queues
      <3>2. air' \in Seq(Packets)
        BY <2>2, QueueAppend DEF Queues
      <3>3. QED
        BY <1>2, <3>1, <3>2 DEF Queues
    <2>3. QED
      BY <2>1, <2>2
  <1>4. (last \in Seq(Packets) /\ \A i \in 1..Len(last) : Shows(last[i]))'
    <2>1. CASE last' = last
      BY <1>2, <2>1 DEF Queues
    <2>2. CASE last' = <<p>>
      <3>1. last' \in Seq(Packets)
        BY <2>2, OnePacket
      <3>2. QED
        BY <2>2, <3>1
    <2>3. QED
      BY <2>1, <2>2
  <1>5. QED
    BY <1>1, <1>3, <1>4 DEF Queues

-----------------------------------------------------------------------------
(* The steps.                                                              *)

\* The rest of IInv.
Control ==
    /\ pc \in {"ring", "at", "hello", "finish", "closed"} \cup Asking
    /\ nbr \in Int /\ skew \in Int /\ since \in Int
    /\ pk \in Packets
    /\ pc \in {"ring", "at", "hello"} => nbr = FirstNbr
    /\ pc = "hello" => "ring" \in heard
    /\ Joined

LEMMA Parts == IInv <=> Queues /\ Control
  BY DEF IInv, Queues, Control

LEMMA AskingStages ==
    /\ Asking = {"name", "read", "set", "get", "upload"}
    /\ \A stage \in Asking : Type[stage] \in Kind
  BY DEF Asking, Type, Kind

LEMMA NewNbrTyped == nbr \in Int => NewNbr \in Int
  BY DEF NewNbr

\* A request is a packet, and leads to a stage of the work.
LEMMA AskControl ==
    ASSUME Control, Joined', UNCHANGED <<heard, skew>>, since' \in Int,
           NEW stage \in Asking, NEW n \in Int, NEW a \in Int, Ask(stage, n, a)
    PROVE  Control' /\ pk' \in Packets /\ Say(pk')
  <1>1. pk' \in Packets
    BY AskingStages, LinkTyped DEF Ask
  <1>2. QED
    BY <1>1, AskingStages DEF Control, Ask, Asking

\* The end of a session says "finished", or nothing.
LEMMA FinishControl ==
    ASSUME Control, UNCHANGED <<heard, skew, nbr, pk>>, since' \in Int, Finish
    PROVE  /\ Control'
           /\ out' = out \/ \E p \in Packets : Say(p)
  <1>1. Link("finished") \in Packets
    BY DEF Link, Packet, Packets, Kind
  <1>2. pc' \in {"finish", "closed"}
    BY DEF Finish, Hang
  <1>3. QED
    BY <1>1, <1>2, AskingStages DEF Control, Finish, Hang, Joined

LEMMA SetupStep ==
    ASSUME Queues, Control, Setup
    PROVE  Queues' /\ Control'
  <1>0. UNCHANGED <<last, heard, skew, nbr, pk, since>> /\ (air' = air \/ Arrives)
    BY DEF Setup, RingAnswered, Skipped, RingAgain, AtReady, AtTurn, NoHello, Same, logger,
           clock
  <1>1. /\ Link("ring") \in Packets /\ Link("broadcast") \in Packets
        /\ Packet("hello", nbr, 0, TRUE) \in Packets
    BY LinkTyped DEF Control, Link, Packet, Packets, Kind
  <1>2. out' = out \/ \E p \in Packets : Say(p)
    BY <1>1 DEF Setup, RingAnswered, Skipped, RingAgain, AtReady, AtTurn, NoHello, Hang
  <1>3. Queues'
    BY <1>0, <1>2, ProgramQueues
  <1>4. CASE AtReady
    <2>1. "ring" \in heard
      BY <1>4, ReadShows DEF AtReady, IsReady, Shows
    <2>2. pc = "at" /\ pc' = "hello"
      BY <1>4 DEF AtReady
    <2>3. QED
      BY <1>0, <1>3, <2>1, <2>2, AskingStages DEF Control, Joined
  <1>5. CASE ~AtReady
    <2>1. /\ pc \in {"ring", "at", "hello"}
          /\ pc' = pc \/ pc' = "at" \/ pc' = "closed"
      BY <1>5 DEF Setup, RingAnswered, Skipped, RingAgain, AtTurn, NoHello, Hang
    <2>2. QED
      BY <1>0, <1>3, <2>1, AskingStages DEF Control, Joined
  <1>6. QED
    BY <1>4, <1>5

\* Length of a piece that lies in the file or behind it.
LEMMA ChunkLength == \A offset \in Int : Len(Chunk(offset)) \in Int
  OBVIOUS

LEMMA WorkStep ==
    ASSUME Queues, Control, Work
    PROVE  Queues' /\ Control'
  <1>0. /\ UNCHANGED <<last, heard, skew>> /\ (air' = air \/ Arrives)
        /\ since' \in Int /\ NewNbr \in Int
    <2>1. UNCHANGED <<last, heard, skew>> /\ (air' = air \/ Arrives)
      BY DEF Work, Unexpected, WaitAgain, HelloAnswered, NameRead, NameFailed, ClockRead,
             ClockNotRead, ClockSet, GetClock, Piece, NoFile, Same, logger, Replied, Failed
    <2>2. since' \in {since, since + 1, 0}
      BY DEF Work, Unexpected, WaitAgain, HelloAnswered, NameRead, NameFailed, ClockRead,
             ClockNotRead, ClockSet, GetClock, Piece, NoFile, clock
    <2>3. QED
      BY <2>1, <2>2, NewNbrTyped DEF Control
  <1>1. /\ Link("ready") \in Packets
        /\ Packet("hello", nbr, 0, TRUE) \in Packets
    BY DEF Control, Link, Packet, Packets, Kind
  <1>2. pc \in Asking => {"ring", "hello"} \subseteq heard
    BY DEF Control, Joined
  <1>3. CASE Unexpected
    <2>1. out' = out \/ \E p \in Packets : Say(p)
      BY <1>1, <1>3 DEF Unexpected
    <2>2. UNCHANGED <<pc, nbr, pk>>
      BY <1>3 DEF Unexpected
    <2>3. QED
      BY <1>0, <2>1, <2>2, ProgramQueues DEF Control, Joined
  <1>4. CASE WaitAgain
    <2>1. out' = out \/ \E p \in Packets : Say(p)
      BY <1>1, <1>4 DEF WaitAgain, Ready
    <2>2. UNCHANGED <<pc, nbr, pk>>
      BY <1>4 DEF WaitAgain
    <2>3. QED
      BY <1>0, <2>1, <2>2, ProgramQueues DEF Control, Joined
  <1>5. CASE HelloAnswered
    <2>1. packet.nbr = FirstNbr /\ packet.kind = "helloReply" /\ Arrives /\ "ring" \in heard
      BY <1>5 DEF HelloAnswered, Control
    <2>2. "hello" \in heard
      BY <2>1, ReadShows, StaleIsOther DEF Shows
    <2>3. Joined' /\ Ask("name", NewNbr, 0)
      BY <1>0, <1>5, <2>1, <2>2 DEF Joined, HelloAnswered
    <2>4. QED
      BY <1>0, <2>3, AskControl, AskingStages, ProgramQueues
  <1>6. ASSUME NEW stage \in Asking, NEW n \in Int, NEW a \in Int,
               Ask(stage, n, a), pc \in Asking
        PROVE  Queues' /\ Control'
    <2>1. Joined'
      BY <1>0, <1>2, <1>6 DEF Joined
    <2>2. QED
      BY <1>0, <1>6, <2>1, AskControl, ProgramQueues
  <1>7. ASSUME Finish, UNCHANGED <<nbr, pk>>
        PROVE  Queues' /\ Control'
    BY <1>0, <1>7, FinishControl, ProgramQueues
  <1>8. CASE NameRead \/ ClockNotRead \/ ClockSet
    <2>1. \E stage \in Asking : Ask(stage, NewNbr, 0)
      BY <1>8, AskingStages DEF NameRead, ClockNotRead, ClockSet
    <2>2. pc \in Asking
      BY <1>8, AskingStages DEF NameRead, ClockNotRead, ClockSet, Replied, Failed
    <2>3. QED
      BY <1>0, <1>6, <2>1, <2>2
  <1>9. CASE NameFailed
    <2>1. pc' = "closed" /\ UNCHANGED <<out, nbr, pk>>
      BY <1>9 DEF NameFailed, Hang
    <2>2. QED
      BY <1>0, <2>1, ProgramQueues, AskingStages DEF Control, Joined
  <1>10. CASE ClockRead
    <2>1. packet \in Packets
      BY <1>10, ReadShows DEF ClockRead, Replied
    <2>2. 0 - packet.arg \in Int
      BY <2>1 DEF Packets
    <2>3. Ask("set", NewNbr, 0 - packet.arg) /\ pc \in Asking
      BY <1>10, AskingStages DEF ClockRead, Replied
    <2>4. QED
      BY <1>0, <1>6, <2>2, <2>3, AskingStages
  <1>11. CASE GetClock
    <2>1. pc \in Asking
      BY <1>11, AskingStages DEF GetClock, Replied, Failed
    <2>2. Ask("upload", NewNbr, 0) \/ (Finish /\ UNCHANGED <<nbr, pk>>)
      BY <1>11 DEF GetClock
    <2>3. QED
      BY <1>0, <1>6, <1>7, <2>1, <2>2, AskingStages
  <1>12. CASE Piece
    <2>1. pc \in Asking /\ packet \in Packets
      BY <1>12, ReadShows, AskingStages DEF Piece, Replied
    <2>2. foffset' \in Int
      BY <1>12, <2>1, ChunkLength DEF Piece, Packets, Offset
    <2>3. Ask("upload", nbr, foffset') \/ (Finish /\ UNCHANGED <<nbr, pk>>)
      BY <1>12 DEF Piece
    <2>4. QED
      BY <1>6, <1>7, <2>1, <2>2, <2>3, AskingStages DEF Control
  <1>13. CASE NoFile
    BY <1>7, <1>13 DEF NoFile
  <1>14. QED
    BY <1>3, <1>4, <1>5, <1>8, <1>9, <1>10, <1>11, <1>12, <1>13 DEF Work

LEMMA PartedStep ==
    ASSUME Queues, Control, Parted
    PROVE  Queues' /\ Control'
  <1>1. /\ UNCHANGED <<last, heard, skew, since, out, nbr, pk>> /\ Arrives
        /\ pc' \in {"finish", "closed"}
    BY DEF Parted, Same, logger, clock, Hang
  <1>2. QED
    BY <1>1, ProgramQueues, AskingStages DEF Control, Joined

LEMMA LineStep ==
    ASSUME Queues, Control, Lose \/ AskForHello
    PROVE  Queues' /\ Control'
  <1>1. UNCHANGED <<last, heard, skew, since, pc, nbr, pk>>
    BY DEF Lose, AskForHello, Program, logger, clock
  <1>2. Control'
    BY <1>1 DEF Control, Joined
  <1>3. CASE Lose
    <2>1. (out' = out \/ Taken) /\ (air' = air \/ Arrives)
      BY <1>3 DEF Lose, Taken, Arrives
    <2>2. CASE out' = out
      BY <1>1, <1>2, <2>1, <2>2, ProgramQueues
    <2>3. CASE Taken /\ air' = air
      <3>1. out' \in Seq(Packets)
        BY <2>3, QueueTail DEF Queues, Taken
      <3>2. QED
        BY <1>1, <1>2, <2>3, <3>1 DEF Queues, Shows
    <2>4. out' = out \/ air' = air
      BY <1>3 DEF Lose
    <2>5. QED
      BY <2>1, <2>2, <2>3, <2>4
  <1>4. CASE AskForHello
    <2>1. Link("helloRequest") \in Packets
      BY DEF Link, Packet, Packets, Kind
    <2>2. \A p : p = Link("helloRequest") => p.kind = "helloRequest"
      BY DEF Link, Packet
    <2>3. out' = out /\ air' = Append(air, Link("helloRequest"))
      BY <1>4 DEF AskForHello
    <2>4. PICK p \in Packets : p = Link("helloRequest")
      BY <2>1
    <2>5. Shows(p)'
      BY <2>2, <2>4 DEF Shows
    <2>6. QED
      BY <1>1, <1>2, <2>3, <2>4, <2>5, LoggerQueues
  <1>5. QED
    BY <1>2, <1>3, <1>4

LEMMA LoggerStep ==
    ASSUME Queues, Control, Logger
    PROVE  Queues' /\ Control'
  <1>1. /\ UNCHANGED <<since, pc, nbr, pk>> /\ heard \subseteq heard' /\ Taken
    BY DEF Logger, AnswerLink, AnswerRequest, AnswerReady, Program, clock, Hears
  <1>2. request \in Packets
    BY <1>1, QueueTail DEF Queues, Taken, request
  <1>3. skew' \in Int
    BY <1>2 DEF Logger, AnswerLink, AnswerRequest, AnswerReady, Control, Packets
  <1>4. Control'
    BY <1>1, <1>3 DEF Control, Joined
  <1>5. CASE AnswerLink
    <2>1. PICK p \in Packets : p = [request EXCEPT !.kind = AnswerTo[@]]
      BY <1>2, <1>5 DEF AnswerLink, AnswerTo, Packets, Kind
    <2>2. /\ p.kind = AnswerTo[request.kind]
          /\ request.kind \in {"broadcast", "ring", "hello", "finished"}
      BY <1>2, <1>5, <2>1 DEF AnswerLink, AnswerTo, Packets
    <2>3. Shows(p)'
      <3>1. heard' = heard \cup ({request.kind} \cap {"ring", "hello"})
        BY <1>5 DEF AnswerLink, Hears
      <3>2. /\ p.kind = "ready" => request.kind = "ring"
            /\ p.kind = "helloReply" => request.kind = "hello"
        BY <2>2 DEF AnswerTo
      <3>3. (p.kind = "ready" => "ring" \in heard') /\ (p.kind = "helloReply" => "hello" \in heard')
        BY <3>1, <3>2
      <3>4. QED
        BY <3>3 DEF Shows
    <2>4. air' = Append(air, p) /\ last' = <<p>>
      BY <1>5, <2>1 DEF AnswerLink, Reply
    <2>5. QED
      BY <1>1, <1>4, <2>3, <2>4, LoggerQueues
  <1>6. CASE AnswerRequest
    <2>1. PICK p \in Packets : p.kind = request.kind /\ Reply(p)
      <3>1. skew + since \in Int
        BY DEF Control
      <3>2. /\ [request EXCEPT !.arg = skew + since] \in Packets
            /\ [request EXCEPT !.arg = skew + since].kind = request.kind
            /\ [request EXCEPT !.ok = FALSE] \in Packets
            /\ [request EXCEPT !.ok = FALSE].kind = request.kind
        BY <1>2, <3>1 DEF Packets
      <3>3. QED
        BY <1>2, <1>6, <3>2 DEF AnswerRequest
    <2>2. Shows(p)'
      <3>1. p.kind \in {"value", "clock", "file"}
        BY <1>6, <2>1 DEF AnswerRequest
      <3>2. p.kind # "ready" /\ p.kind # "helloReply"
        BY <3>1
      <3>3. QED
        BY <3>2 DEF Shows
    <2>3. QED
      BY <1>1, <1>4, <2>1, <2>2, LoggerQueues DEF Reply
  <1>7. CASE AnswerReady
    <2>1. heard' = heard
      BY <1>7 DEF AnswerReady
    <2>2. CASE UNCHANGED <<air, last>>
      <3>1. out' \in Seq(Packets)
        BY <1>1, QueueTail DEF Queues, Taken
      <3>2. QED
        BY <1>4, <2>1, <2>2, <3>1 DEF Queues, Shows
    <2>3. CASE last # <<>> /\ Reply(last[1])
      <3>1. last[1] \in Packets /\ Shows(last[1])
        BY <2>3, QueueTail DEF Queues
      <3>2. PICK p \in Packets : p = last[1]
        BY <3>1
      <3>3. Shows(p)'
        BY <2>1, <3>1, <3>2 DEF Shows
      <3>4. QED
        BY <1>1, <1>4, <2>3, <3>2, <3>3, LoggerQueues DEF Reply
    <2>4. QED
      BY <1>7, <2>2, <2>3 DEF AnswerReady
  <1>8. QED
    BY <1>5, <1>6, <1>7 DEF Logger

LEMMA InvariantKept == IInv /\ [Next]_vars => IInv'
  <1> SUFFICES ASSUME Queues, Control, [Next]_vars PROVE Queues' /\ Control'
    BY Parts DEF IInv, Queues, Control
  <1>1. CASE UNCHANGED vars
    BY <1>1 DEF vars, logger, clock, Queues, Control, Shows, Joined
  <1>2. QED
    BY <1>1, SetupStep, WorkStep, PartedStep, LineStep, LoggerStep DEF Next, Computer

-----------------------------------------------------------------------------
\* Joined, for every number of rings, turns, waits, losses and repeated answers:
\* init_connection never returns 0 without the logger having been rung and
\* having got the hello of this session.
THEOREM JoinedHolds == Spec => []Joined
  <1>1. IInv => Joined
    BY DEF IInv
  <1>2. QED
    BY <1>1, InitInvariant, InvariantKept, PTL DEF Spec
-----------------------------------------------------------------------------
(* The clock.                                                              *)

\* Before the clock is asked for; and where a correction may leave the clock.
Before    == {"ring", "at", "hello", "name"}
Corrected == (0 - Retries)..0

\* A packet that corrects nothing.
Plain(p) == p.kind = "clock" => p.arg = 0

\* A request about the clock, when the program is at stage, its number is n and
\* the clock is k ahead: while the request is on its way and would correct the
\* clock, that is still as it was.
ClockOut(p, stage, n, k) ==
    p.kind = "clock" =>
        /\ stage \notin Before
        /\ p.arg = 0 \/ (k = Skew /\ Skew + p.arg \in Corrected)
        /\ stage = "read" => p.arg = 0 /\ p.nbr = n
        /\ stage = "set" /\ p.nbr = n => Skew + p.arg \in Corrected

\* An answer about the clock, w waits after the time was taken: a reading is as
\* old as these, and a correction that is confirmed has been made.
ClockAir(p, stage, n, k, w) ==
    p.kind = "clock" =>
        /\ stage \notin Before
        /\ stage = "read" => p.nbr = n /\ (p.ok => p.arg \in Skew..Skew + w)
        /\ stage = "set" /\ p.nbr = n /\ p.ok => k \in Corrected

ClockQueues ==
    /\ \A i \in 1..Len(out) : ClockOut(out[i], pc, nbr, skew)
    /\ \A i \in 1..Len(air) : ClockAir(air[i], pc, nbr, skew, since)
    /\ \A i \in 1..Len(last) : ClockAir(last[i], pc, nbr, skew, since)
    /\ \A i, j \in 1..Len(out) : ~Plain(out[i]) /\ ~Plain(out[j]) => i = j

ClockState ==
    /\ nbr \in 0..255 /\ skew \in {Skew} \cup Corrected
    /\ clockSet => skew \in Corrected
    /\ pc \in Before => since = 0 /\ skew = Skew /\ ~clockSet
    /\ pc = "read" => skew = Skew /\ ~clockSet /\ since \in 0..retry /\ retry \in 0..Retries
    /\ pc = "set" => ~clockSet

ClockInv == ClockQueues /\ ClockState

LEMMA ClockConstants == Retries \in Nat /\ Skew \in Int /\ FirstNbr \in 0..255
BY SessionAssumption

LEMMA OtherNumber == ASSUME nbr \in 0..255 PROVE NewNbr \in 0..255 /\ NewNbr # nbr
BY DEF NewNbr

LEMMA ClockInit == Init => ClockInv
<1>. SUFFICES ASSUME Init PROVE ClockInv
  OBVIOUS
<1>1. Stale.kind # "clock" /\ Link("broadcast").kind # "clock"
  BY DEF Stale, Link, Packet
<1>2. /\ out = <<Link("broadcast")>> /\ last = <<>> /\ air \in {<<>>, <<Stale>>}
      /\ pc = "ring" /\ nbr = FirstNbr /\ since = 0 /\ skew = Skew /\ clockSet = FALSE
  BY DEF Init
<1>3. ClockState
  BY <1>2, ClockConstants DEF ClockState
<1>4. (\A i \in 1..Len(out) : out[i].kind # "clock" /\ i = 1) /\ \A i \in 1..Len(last) : FALSE
  BY <1>1, <1>2
<1>5. \A i \in 1..Len(air) : air[i].kind # "clock"
  BY <1>1, <1>2
<1>. QED
  BY <1>3, <1>4, <1>5 DEF ClockInv, ClockQueues, ClockOut, ClockAir, Plain
-----------------------------------------------------------------------------
(* What is known of the packets on their way stays so.                     *)
Stays == \A p :
    /\ ClockOut(p, pc, nbr, skew) => ClockOut(p, pc', nbr', skew')
    /\ ClockAir(p, pc, nbr, skew, since) => ClockAir(p, pc', nbr', skew', since')

\* Nothing is known of them any more but that they correct the clock once.
LEMMA StaysLater ==
    ASSUME UNCHANGED skew, pc' \notin Before \cup {"read", "set"}
    PROVE  Stays
BY DEF Stays, ClockOut, ClockAir

LEMMA StaysSame ==
    ASSUME UNCHANGED <<pc, nbr, skew>>, since \in Int, since' \in {since, since + 1}
    PROVE  Stays
BY ClockConstants DEF Stays, ClockOut, ClockAir

\* There are none yet.
LEMMA StaysBefore == ASSUME pc \in Before PROVE Stays
BY DEF Stays, ClockOut, ClockAir

\* The set transaction has a number of its own.
LEMMA StaysRead ==
    ASSUME pc = "read", pc' = "set", UNCHANGED skew, nbr' # nbr
    PROVE  Stays
BY DEF Stays, ClockOut, ClockAir, Before

\* The program reads a packet or not, and says one or not.
LEMMA ProgramClock ==
    ASSUME Queues, ClockQueues, Stays, UNCHANGED last,
           air' = air \/ Arrives,
           out' = out \/ \E p \in Packets :
                             Say(p) /\ ClockOut(p, pc', nbr', skew') /\ (Plain(p) \/ pc = "read")
    PROVE  ClockQueues'
<1>1. \A i \in 1..Len(last') : ClockAir(last'[i], pc', nbr', skew', since')
  BY DEF ClockQueues, Stays
<1>2. \A i \in 1..Len(air') : ClockAir(air'[i], pc', nbr', skew', since')
  <2>1. CASE air' = air
    BY <2>1 DEF ClockQueues, Stays
  <2>2. CASE Arrives
    <3>1. air # <<>> /\ air' = Tail(air) /\ air \in Seq(Packets)
      BY <2>2 DEF Arrives, Queues
    <3>2. \A i \in 1..Len(air') : i + 1 \in 1..Len(air) /\ air'[i] = air[i + 1]
      BY <3>1, QueueTail
    <3>. QED
      BY <3>2 DEF ClockQueues, Stays
  <2>. QED
    BY <2>1, <2>2
<1>3. /\ \A i \in 1..Len(out') : ClockOut(out'[i], pc', nbr', skew')
      /\ \A i, j \in 1..Len(out') : ~Plain(out'[i]) /\ ~Plain(out'[j]) => i = j
  <2>1. CASE out' = out
    BY <2>1 DEF ClockQueues, Stays
  <2>2. ASSUME NEW p \in Packets, Say(p), ClockOut(p, pc', nbr', skew'), Plain(p) \/ pc = "read"
        PROVE  /\ \A i \in 1..Len(out') : ClockOut(out'[i], pc', nbr', skew')
               /\ \A i, j \in 1..Len(out') : ~Plain(out'[i]) /\ ~Plain(out'[j]) => i = j
    <3>1. out' = Append(out, p) /\ out \in Seq(Packets)
      BY <2>2 DEF Say, Queues
    <3>2. \A i \in 1..Len(out') : \/ i = Len(out) + 1 /\ out'[i] = p
                                  \/ i \in 1..Len(out) /\ out'[i] = out[i]
      BY <3>1
    <3>3. pc = "read" => \A i \in 1..Len(out) : Plain(out[i])
      BY DEF ClockQueues, ClockOut, Plain
    <3>. QED
      BY <2>2, <3>2, <3>3 DEF ClockQueues, Stays
  <2>. QED
    BY <2>1, <2>2
<1>. QED
  BY <1>1, <1>2, <1>3 DEF ClockQueues, Plain

\* The logger or the line takes a packet, and sends one, or only one of the two.
LEMMA LineClock ==
    ASSUME Queues, ClockQueues,
           \A p : ClockAir(p, pc, nbr, skew, since) => ClockAir(p, pc', nbr', skew', since'),
           out' = out \/ Taken,
           \A i \in 1..Len(out') : ClockOut(out'[i], pc', nbr', skew'),
           NEW CONSTANT p \in Packets, ClockAir(p, pc', nbr', skew', since'),
           air' \in {air, Append(air, p)} \/ Arrives, last' = last \/ last' = <<p>>
    PROVE  ClockQueues'
<1>1. \A i \in 1..Len(last') : ClockAir(last'[i], pc', nbr', skew', since')
  <2>1. CASE last' = last
    BY <2>1 DEF ClockQueues
  <2>2. CASE last' = <<p>>
    BY <2>2
  <2>. QED
    BY <2>1, <2>2
<1>2. \A i \in 1..Len(air') : ClockAir(air'[i], pc', nbr', skew', since')
  <2>1. CASE air' = air
    BY <2>1 DEF ClockQueues
  <2>2. CASE Arrives
    <3>1. air # <<>> /\ air' = Tail(air) /\ air \in Seq(Packets)
      BY <2>2 DEF Arrives, Queues
    <3>2. \A i \in 1..Len(air') : i + 1 \in 1..Len(air) /\ air'[i] = air[i + 1]
      BY <3>1, QueueTail
    <3>. QED
      BY <3>2 DEF ClockQueues
  <2>3. CASE air' = Append(air, p)
    <3>1. \A i \in 1..Len(air') : air'[i] = p \/ (i \in 1..Len(air) /\ air'[i] = air[i])
      BY <2>3, QueueAppend DEF Queues
    <3>. QED
      BY <3>1 DEF ClockQueues
  <2>. QED
    BY <2>1, <2>2, <2>3
<1>3. \A i, j \in 1..Len(out') : ~Plain(out'[i]) /\ ~Plain(out'[j]) => i = j
  <2>1. CASE out' = out
    BY <2>1 DEF ClockQueues
  <2>2. CASE Taken
    <3>1. out # <<>> /\ out' = Tail(out) /\ out \in Seq(Packets)
      BY <2>2 DEF Taken, Queues
    <3>2. \A i \in 1..Len(out') : i \in Int /\ i + 1 \in 1..Len(out) /\ out'[i] = out[i + 1]
      BY <3>1, QueueTail
    <3>3. \A i, j \in 1..Len(out') : ~Plain(out'[i]) /\ ~Plain(out'[j]) => i + 1 = j + 1
      BY <3>2 DEF ClockQueues
    <3>. QED
      BY <3>2, <3>3
  <2>. QED
    BY <2>1, <2>2
<1>. QED
  BY <1>1, <1>2, <1>3 DEF ClockQueues, Plain
-----------------------------------------------------------------------------
(* The steps of the program.                                               *)

\* A packet about something else, and a question about the clock.
LEMMA Harmless ==
    ASSUME NEW p, NEW stage, NEW n, NEW k, NEW w,
           p.kind # "clock" \/ (p.arg = 0 /\ p.nbr = n /\ stage \notin Before \cup {"set"})
    PROVE  ClockOut(p, stage, n, k) /\ Plain(p) /\ (p.kind # "clock" => ClockAir(p, stage, n, k, w))
BY DEF ClockOut, ClockAir, Plain

LEMMA AskIs ==
    ASSUME IInv', NEW stage, NEW n, NEW a, Ask(stage, n, a)
    PROVE  /\ pc' = stage /\ nbr' = n /\ retry' = 0 /\ pk' \in Packets /\ Say(pk')
           /\ pk'.kind = Type[stage] /\ pk'.nbr = n /\ pk'.arg = a
BY DEF IInv, Ask, Packet

LEMMA Stages ==
    /\ Type["name"] = "value" /\ Type["read"] = "clock" /\ Type["set"] = "clock"
    /\ Type["get"] = "clock" /\ Type["upload"] = "file"
BY DEF Type

LEMMA SetupClock ==
    ASSUME IInv, IInv', ClockInv, Setup
    PROVE  ClockInv'
<1>1. /\ UNCHANGED <<last, skew, nbr, since, clockSet>> /\ (air' = air \/ Arrives)
      /\ pc \in Before /\ pc' \in {"ring", "at", "hello", "closed"}
  BY DEF Setup, RingAnswered, Skipped, RingAgain, AtReady, AtTurn, NoHello, Same, logger,
         clock, Hang, Before
<1>2. out' = out \/ \E p \in Packets : Say(p) /\ p.kind # "clock"
  <2>1. /\ Link("ring") \in Packets /\ Link("broadcast") \in Packets
        /\ Packet("hello", nbr, 0, TRUE) \in Packets
        /\ Link("ring").kind # "clock" /\ Link("broadcast").kind # "clock"
        /\ Packet("hello", nbr, 0, TRUE).kind # "clock"
    BY DEF IInv, Link, Packet, Packets, Kind
  <2>2. \/ out' = out \/ Say(Link("ring")) \/ Say(Link("broadcast"))
        \/ Say(Packet("hello", nbr, 0, TRUE))
    BY DEF Setup, RingAnswered, Skipped, RingAgain, AtReady, AtTurn, NoHello, Hang
  <2>. QED
    BY <2>1, <2>2
<1>3. ClockQueues'
  BY <1>1, <1>2, StaysBefore, Harmless, ProgramClock, Parts DEF ClockInv
<1>4. ClockState'
  BY <1>1 DEF ClockInv, ClockState, Before
<1>. QED
  BY <1>3, <1>4 DEF ClockInv

LEMMA WorkClock ==
    ASSUME IInv, IInv', ClockInv, Work \/ Parted
    PROVE  ClockInv'
<1>. USE DEF ClockInv
<1>0. /\ UNCHANGED <<last, skew>> /\ (air' = air \/ Arrives) /\ Queues
      /\ since \in Int /\ nbr \in 0..255 /\ NewNbr \in 0..255 /\ NewNbr # nbr
  <2>1. UNCHANGED <<last, skew>> /\ (air' = air \/ Arrives)
    BY DEF Work, Unexpected, WaitAgain, HelloAnswered, NameRead, NameFailed, ClockRead,
           ClockNotRead, ClockSet, GetClock, Piece, NoFile, Parted, Same, logger, Replied, Failed
  <2>. QED
    BY <2>1, OtherNumber, Parts DEF IInv, ClockState
\* A request that corrects nothing, or none.
<1>a. ASSUME Stays, NEW stage, NEW n, NEW a, Ask(stage, n, a),
             Type[stage] # "clock" \/ (a = 0 /\ stage \in {"read", "get"})
      PROVE  ClockQueues'
  BY <1>0, <1>a, AskIs, Harmless, ProgramClock DEF Before
<1>b. ASSUME Stays, out' = out \/ \E p \in Packets : Say(p) /\ p.kind # "clock"
      PROVE  ClockQueues'
  BY <1>0, <1>b, Harmless, ProgramClock
<1>l. /\ Link("ready") \in Packets /\ Link("finished") \in Packets
      /\ Packet("hello", nbr, 0, TRUE) \in Packets
      /\ Link("ready").kind # "clock" /\ Link("finished").kind # "clock"
      /\ Packet("hello", nbr, 0, TRUE).kind # "clock"
  BY DEF IInv, Link, Packet, Packets, Kind
\* The clock has been dealt with.
<1>c. ASSUME pc' \notin Before \cup {"read", "set"}, nbr' \in 0..255,
             clockSet' => skew \in Corrected
      PROVE  Stays /\ ClockState'
  BY <1>0, <1>c, StaysLater DEF ClockState
<1>f. ASSUME Finish, UNCHANGED <<nbr, clockSet>>
      PROVE  ClockInv'
  <2>1. /\ pc' \in {"finish", "closed"}
        /\ out' = out \/ Say(Link("finished"))
    BY <1>f DEF Finish, Hang
  <2>2. Stays /\ ClockState'
    BY <1>c, <1>f, <1>0, <2>1 DEF Before, ClockState
  <2>. QED
    BY <1>b, <1>l, <2>1, <2>2
<1>1. CASE Unexpected
  <2>1. UNCHANGED <<pc, nbr, retry, since, clockSet>>
    BY <1>1 DEF Unexpected, clock
  <2>2. out' = out \/ Say(Packet("hello", nbr, 0, TRUE))
    BY <1>1 DEF Unexpected
  <2>3. ClockQueues'
    BY <1>0, <1>b, <1>l, <2>1, <2>2, StaysSame
  <2>. QED
    BY <1>0, <2>1, <2>3 DEF ClockState
<1>2. CASE WaitAgain
  <2>1. UNCHANGED <<pc, nbr, clockSet>> /\ since' \in {since, since + 1} /\ Say(Link("ready"))
    BY <1>2 DEF WaitAgain, Ready
  <2>2. ClockQueues'
    BY <1>0, <1>b, <1>l, <2>1, StaysSame
  <2>3. ClockState'
    <3>1. CASE pc = "read"
      BY <1>0, <1>2, <2>1, <3>1, ClockConstants DEF ClockState, WaitAgain, Before
    <3>2. CASE pc # "read"
      BY <1>0, <1>2, <2>1, <3>2 DEF ClockState, WaitAgain
    <3>. QED
      BY <3>1, <3>2
  <2>. QED
    BY <2>2, <2>3
<1>3. CASE HelloAnswered
  <2>1. pc = "hello" /\ Ask("name", NewNbr, 0) /\ UNCHANGED <<since, clockSet>>
    BY <1>3 DEF HelloAnswered, clock
  <2>2. ClockQueues'
    BY <1>a, <2>1, StaysBefore, Stages DEF Before
  <2>. QED
    BY <1>0, <2>1, <2>2, AskIs DEF ClockState, Before
<1>4. CASE NameRead
  <2>1. pc = "name" /\ UNCHANGED <<since, clockSet>>
    BY <1>4 DEF NameRead, clock, Replied
  <2>2. Ask("read", NewNbr, 0) \/ Ask("get", NewNbr, 0)
    BY <1>4 DEF NameRead
  <2>3. ClockQueues'
    BY <1>a, <2>1, <2>2, StaysBefore DEF Before
  <2>4. since = 0 /\ skew = Skew /\ ~clockSet
    BY <2>1 DEF ClockState, Before
  <2>. QED
    BY <1>0, <2>1, <2>2, <2>3, <2>4, AskIs, ClockConstants DEF ClockState, Before
<1>5. CASE NameFailed
  <2>1. pc' = "closed" /\ UNCHANGED <<out, nbr, clockSet>>
    BY <1>5 DEF NameFailed, Hang, clock
  <2>2. Stays /\ ClockState'
    BY <1>0, <1>c, <2>1 DEF Before, ClockState
  <2>. QED
    BY <1>b, <2>1, <2>2
<1>6. CASE ClockRead
  <2>1. /\ pc = "read" /\ Arrives /\ packet.kind = "clock" /\ packet.ok
        /\ Ask("set", NewNbr, 0 - packet.arg) /\ since' = 0 /\ clockSet' = clockSet
    BY <1>6, Stages DEF ClockRead, Replied, Expected
  <2>2. packet.arg \in Skew..Skew + since /\ skew = Skew /\ ~clockSet /\ since \in 0..Retries
    <3>1. packet = air[1] /\ 1 \in 1..Len(air)
      BY <1>0, <2>1, QueueTail DEF Arrives, packet, Queues
    <3>2. ClockAir(packet, pc, nbr, skew, since)
      BY <3>1 DEF ClockQueues
    <3>. QED
      BY <2>1, <3>2, ClockConstants DEF ClockAir, ClockState
  <2>3. Skew + (0 - packet.arg) \in Corrected
    BY <2>2, ClockConstants DEF Corrected
  <2>4. /\ pc' = "set" /\ nbr' = NewNbr /\ pk' \in Packets /\ Say(pk')
        /\ pk'.kind = "clock" /\ pk'.nbr = NewNbr /\ pk'.arg = 0 - packet.arg
    BY <2>1, AskIs, Stages
  <2>5. ClockOut(pk', pc', nbr', skew')
    BY <1>0, <2>2, <2>3, <2>4 DEF ClockOut, Before
  <2>6. Stays
    BY <1>0, <2>1, <2>4, StaysRead
  <2>7. ClockQueues'
    BY <1>0, <2>1, <2>4, <2>5, <2>6, ProgramClock
  <2>. QED
    BY <1>0, <2>1, <2>2, <2>4, <2>7 DEF ClockState, Before
<1>7. CASE ClockNotRead
  <2>1. Ask("get", NewNbr, 0) /\ clockSet' = clockSet
    BY <1>7 DEF ClockNotRead
  <2>2. pc' = "get" /\ nbr' = NewNbr
    BY <2>1, AskIs
  <2>3. Stays /\ ClockState'
    BY <1>0, <1>c, <2>1, <2>2 DEF Before, ClockState
  <2>. QED
    BY <1>a, <2>1, <2>3
<1>8. CASE ClockSet
  <2>1. Ask("get", NewNbr, 0) /\ (clockSet' = clockSet \/ Replied("set"))
    BY <1>8 DEF ClockSet
  <2>2. pc' = "get" /\ nbr' = NewNbr
    BY <2>1, AskIs
  <2>3. ASSUME Replied("set") PROVE skew \in Corrected
    <3>1. packet = air[1] /\ 1 \in 1..Len(air)
      BY <1>0, <2>3, QueueTail DEF Replied, Arrives, packet, Queues
    <3>2. ClockAir(packet, pc, nbr, skew, since)
      BY <3>1 DEF ClockQueues
    <3>. QED
      BY <2>3, <3>2, Stages DEF ClockAir, Replied, Expected
  <2>4. Stays /\ ClockState'
    BY <1>0, <1>c, <2>1, <2>2, <2>3 DEF Before, ClockState
  <2>. QED
    BY <1>a, <2>1, <2>4
<1>9. CASE GetClock
  <2>1. CASE Ask("upload", NewNbr, 0)
    <3>1. pc' = "upload" /\ nbr' = NewNbr /\ clockSet' = clockSet
      BY <1>9, <2>1, AskIs DEF GetClock, clock
    <3>2. Stays /\ ClockState'
      BY <1>0, <1>c, <3>1 DEF Before, ClockState
    <3>. QED
      BY <1>a, <2>1, <3>2, Stages
  <2>. QED
    BY <1>9, <1>f, <2>1 DEF GetClock, clock
<1>10. CASE Piece
  <2>1. CASE Ask("upload", nbr, foffset')
    <3>1. pc' = "upload" /\ nbr' = nbr /\ clockSet' = clockSet
      BY <1>10, <2>1, AskIs DEF Piece, clock
    <3>2. Stays /\ ClockState'
      BY <1>0, <1>c, <3>1 DEF Before, ClockState
    <3>. QED
      BY <1>a, <2>1, <3>2, Stages
  <2>. QED
    BY <1>10, <1>f, <2>1 DEF Piece, clock
<1>11. CASE NoFile
  BY <1>11, <1>f DEF NoFile, clock
<1>12. CASE Parted
  <2>1. pc' \in {"finish", "closed"} /\ UNCHANGED <<out, nbr, clockSet>>
    BY <1>12 DEF Parted, Hang, clock
  <2>2. Stays /\ ClockState'
    BY <1>0, <1>c, <2>1 DEF Before, ClockState
  <2>. QED
    BY <1>b, <2>1, <2>2
<1>. QED
  BY <1>1, <1>2, <1>3, <1>4, <1>5, <1>6, <1>7, <1>8, <1>9, <1>10, <1>11, <1>12 DEF Work
-----------------------------------------------------------------------------
(* The steps of the logger and of the line.                                *)

\* What is left behind the head of out.
LEMMA OutTail ==
    ASSUME Queues, Taken
    PROVE  /\ request \in Packets /\ request = out[1] /\ 1 \in 1..Len(out)
           /\ \A i \in 1..Len(out') : i + 1 \in 1..Len(out) /\ i + 1 # 1 /\ out'[i] = out[i + 1]
<1>1. out # <<>> /\ out' = Tail(out) /\ out \in Seq(Packets)
  BY DEF Taken, Queues
<1>2. Len(Tail(out)) \in Nat
  BY <1>1, QueueTail
<1>. QED
  BY <1>1, <1>2, QueueTail DEF request

\* The state is left alone: a packet is taken, and one is sent.
LEMMA LinesClock ==
    ASSUME IInv, ClockInv, UNCHANGED <<pc, nbr, skew, since, clockSet, retry>>,
           out' = out \/ Taken,
           NEW CONSTANT p \in Packets, ClockAir(p, pc, nbr, skew, since),
           air' \in {air, Append(air, p)} \/ Arrives, last' = last \/ last' = <<p>>
    PROVE  ClockInv'
<1>1. \A i \in 1..Len(out') : ClockOut(out'[i], pc', nbr', skew')
  <2>1. CASE out' = out
    BY <2>1 DEF ClockInv, ClockQueues
  <2>2. CASE Taken
    BY <2>2, OutTail, Parts DEF ClockInv, ClockQueues
  <2>. QED
    BY <2>1, <2>2
<1>2. ClockQueues'
  BY <1>1, LineClock, Parts DEF ClockInv
<1>3. ClockState'
  BY DEF ClockInv, ClockState
<1>. QED
  BY <1>2, <1>3 DEF ClockInv

\* The logger answers a request about the clock, having set it or not.
LEMMA AnswerClock ==
    ASSUME IInv, ClockInv, AnswerRequest, request.kind = "clock"
    PROVE  ClockInv'
<1>. USE DEF ClockInv
<1>0. /\ UNCHANGED <<pc, nbr, retry, since, clockSet>> /\ Taken /\ Queues
      /\ skew \in Int /\ since \in Int
  BY Parts DEF AnswerRequest, Program, clock, IInv
<1>1. /\ request \in Packets /\ ClockOut(request, pc, nbr, skew)
      /\ \A i \in 1..Len(out') : ClockOut(out'[i], pc, nbr, skew)
      /\ Plain(request) \/ \A i \in 1..Len(out') : Plain(out'[i])
  BY <1>0, OutTail DEF ClockQueues
<1>2. \/ skew' = skew + request.arg /\ Reply([request EXCEPT !.arg = skew + since])
      \/ skew' = skew /\ Reply([request EXCEPT !.ok = FALSE])
  BY DEF AnswerRequest
<1>i. request.arg \in Int /\ request.kind = "clock"
  BY <1>1 DEF Packets
<1>3. skew' = skew \/ (skew' \in Corrected /\ ~Plain(request) /\ pc \notin Before \cup {"read"})
  BY <1>0, <1>1, <1>2, <1>i DEF ClockOut, Plain
<1>4. \A i \in 1..Len(out') : ClockOut(out'[i], pc', nbr', skew')
  <2>1. CASE skew' = skew
    BY <1>0, <1>1, <2>1
  <2>2. CASE skew' # skew
    <3>1. \A i \in 1..Len(out') : Plain(out'[i]) /\ ClockOut(out'[i], pc, nbr, skew)
      BY <1>1, <1>3, <2>2
    <3>. QED
      BY <1>0, <3>1 DEF ClockOut, Plain
  <2>. QED
    BY <2>1, <2>2
<1>5. \A p : ClockAir(p, pc, nbr, skew, since) => ClockAir(p, pc', nbr', skew', since')
  BY <1>0, <1>3 DEF ClockAir
<1>6. ASSUME NEW CONSTANT p \in Packets, Reply(p), ClockAir(p, pc', nbr', skew', since')
      PROVE  ClockQueues'
  BY <1>0, <1>4, <1>5, <1>6, LineClock DEF Reply
<1>7. \E p \in Packets : Reply(p) /\ ClockAir(p, pc', nbr', skew', since')
  <2>1. CASE skew' = skew /\ Reply([request EXCEPT !.ok = FALSE])
    <3>1. PICK p \in Packets : p = [request EXCEPT !.ok = FALSE]
      BY <1>1 DEF Packets
    <3>2. p.kind = "clock" /\ ~p.ok /\ p.nbr = request.nbr
      BY <1>1, <1>i, <3>1 DEF Packets
    <3>3. ClockAir(p, pc', nbr', skew', since')
      BY <1>0, <1>1, <1>i, <3>2 DEF ClockAir, ClockOut
    <3>. QED
      BY <2>1, <3>1, <3>3
  <2>2. CASE skew' = skew + request.arg /\ Reply([request EXCEPT !.arg = skew + since])
    <3>i. skew + since \in Int
      BY <1>0
    <3>1. PICK p \in Packets : p = [request EXCEPT !.arg = skew + since]
      BY <1>1, <3>i DEF Packets
    <3>2. p.kind = "clock" /\ p.arg = skew + since /\ p.nbr = request.nbr
      BY <1>1, <1>i, <3>1 DEF Packets
    <3>3. pc = "read" => skew = Skew /\ p.arg \in Skew..Skew + since
      BY <1>0, <3>2, ClockConstants DEF ClockState
    <3>4. pc = "set" /\ request.nbr = nbr => skew' \in Corrected
      <4>1. ASSUME pc = "set", request.nbr = nbr
            PROVE  skew' \in Corrected
        <5>1. Skew + request.arg \in Corrected
          BY <1>1, <1>i, <4>1 DEF ClockOut
        <5>2. CASE skew = Skew
          BY <2>2, <5>1, <5>2
        <5>3. CASE skew # Skew
          <6>1. request.arg = 0 /\ skew \in Corrected
            BY <1>1, <1>i, <5>3 DEF ClockOut, ClockState
          <6>. QED
            BY <1>0, <2>2, <6>1
        <5>. QED
          BY <5>2, <5>3
      <4>. QED
        BY <4>1
    <3>5. ClockAir(p, pc', nbr', skew', since')
      BY <1>0, <1>1, <1>i, <3>2, <3>3, <3>4 DEF ClockAir, ClockOut
    <3>. QED
      BY <2>2, <3>1, <3>5
  <2>. QED
    BY <1>2, <2>1, <2>2
<1>8. ClockState'
  BY <1>0, <1>3 DEF ClockState
<1>. QED
  BY <1>6, <1>7, <1>8

LEMMA LoggerClock ==
    ASSUME IInv, ClockInv, Logger \/ AskForHello \/ Lose
    PROVE  ClockInv'
<1>0. UNCHANGED <<pc, nbr, retry, since, clockSet>> /\ Queues
  BY Parts DEF Logger, AnswerLink, AnswerRequest, AnswerReady, AskForHello, Lose, Program, clock
\* A packet that is not about the clock.
<1>n. ASSUME NEW CONSTANT p \in Packets, p.kind # "clock", skew' = skew, out' = out \/ Taken,
             air' \in {air, Append(air, p)} \/ Arrives, last' = last \/ last' = <<p>>
      PROVE  ClockInv'
  BY <1>0, <1>n, LinesClock, Harmless
<1>h. /\ Link("helloRequest") \in Packets /\ Link("helloRequest").kind # "clock"
  BY DEF Link, Packet, Packets, Kind
<1>1. CASE AnswerLink
  <2>1. request \in Packets /\ Taken /\ skew' = skew
    BY <1>0, <1>1, OutTail DEF AnswerLink
  <2>2. PICK p \in Packets : p = [request EXCEPT !.kind = AnswerTo[@]]
    BY <2>1, <1>1 DEF AnswerLink, AnswerTo, Packets, Kind
  <2>3. p.kind # "clock"
    BY <1>1, <2>1, <2>2 DEF AnswerLink, AnswerTo, Packets
  <2>. QED
    BY <1>1, <1>n, <2>1, <2>2, <2>3 DEF AnswerLink, Reply
<1>2. CASE AnswerRequest /\ request.kind # "clock"
  <2>1. request \in Packets /\ Taken /\ skew' = skew
    BY <1>0, <1>2, OutTail DEF AnswerRequest
  <2>2. PICK p \in Packets : p.kind = request.kind /\ Reply(p)
    <3>1. /\ [request EXCEPT !.ok = FALSE] \in Packets
          /\ [request EXCEPT !.ok = FALSE].kind = request.kind
      BY <2>1 DEF Packets
    <3>. QED
      BY <1>2, <2>1, <3>1 DEF AnswerRequest
  <2>. QED
    BY <1>2, <1>n, <2>1, <2>2 DEF Reply
<1>3. CASE AnswerRequest /\ request.kind = "clock"
  BY <1>3, AnswerClock
<1>4. CASE AnswerReady
  <2>1. Taken /\ skew' = skew
    BY <1>4 DEF AnswerReady
  <2>2. CASE UNCHANGED <<air, last>>
    BY <1>h, <1>n, <2>1, <2>2
  <2>3. CASE last # <<>> /\ Reply(last[1])
    <3>1. last \in Seq(Packets)
      BY <1>0 DEF Queues
    <3>2. last[1] \in Packets /\ 1 \in 1..Len(last)
      BY <2>3, <3>1, QueueTail
    <3>3. ClockAir(last[1], pc, nbr, skew, since)
      BY <3>2 DEF ClockInv, ClockQueues
    <3>4. PICK p \in Packets : p = last[1]
      BY <3>2
    <3>. QED
      BY <1>0, <2>1, <2>3, <3>3, <3>4, LinesClock DEF Reply
  <2>. QED
    BY <1>4, <2>2, <2>3 DEF AnswerReady
<1>5. CASE AskForHello
  BY <1>5, <1>h, <1>n DEF AskForHello, logger
<1>6. CASE Lose
  <2>1. skew' = skew /\ last' = last
    BY <1>6 DEF Lose, logger
  <2>2. (out' = out /\ Arrives) \/ (air' = air /\ Taken)
    BY <1>6 DEF Lose, Arrives, Taken
  <2>. QED
    BY <1>h, <1>n, <2>1, <2>2
<1>. QED
  BY <1>1, <1>2, <1>3, <1>4, <1>5, <1>6 DEF Logger

LEMMA ClockStep == IInv /\ IInv' /\ ClockInv /\ [Next]_vars => ClockInv'
<1>. SUFFICES ASSUME IInv, IInv', ClockInv, [Next]_vars PROVE ClockInv'
  OBVIOUS
<1>1. CASE UNCHANGED vars
  BY <1>1 DEF vars, logger, clock, ClockInv, ClockQueues, ClockState
<1>. QED
  BY <1>1, SetupClock, WorkClock, LoggerClock DEF Next, Computer

\* However late an answer comes, and whichever is repeated or lost, the clock
\* is set at most once and by what it lacked when it was read.
THEOREM ClockRightHolds == Spec => []ClockRight
<1>1. ClockInv => ClockRight
  BY DEF ClockInv, ClockState, ClockRight, Corrected
<1>. QED
  BY <1>1, InitInvariant, InvariantKept, ClockInit, ClockStep, PTL DEF Spec
=============================================================================
