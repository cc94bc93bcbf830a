----------------------------- MODULE FileProofs -----------------------------
(***************************************************************************)
(* Session: an upload that returns 0 has the whole file, and every state   *)
(* its type, for every file, swath, number of waits, losses and repeated   *)
(* answers.                                                                *)
(***************************************************************************)
EXTENDS SessionProofs

\* Before the upload, and behind it.
Early == {"ring", "at", "hello", "name", "read", "set", "get"}
Over  == {"finish", "closed"}

NoPiece(q) == \A i \in 1..Len(q) : q[i].kind # "file"

\* The pieces of q are those the program is at, or has just had, when it is at f.
Pieces(q, f) ==
    \A i \in 1..Len(q) : q[i].kind = "file" =>
        q[i].arg \in {f - Swath, f} /\ q[i].arg >= 0

\* The pieces of q do not come behind those of r.
Below(q, r) ==
    \A i \in 1..Len(q), j \in 1..Len(r) :
        q[i].kind = "file" /\ r[j].kind = "file" => q[i].arg <= r[j].arg

Rising(q) ==
    \A i, j \in 1..Len(q) :
        i <= j /\ q[i].kind = "file" /\ q[j].kind = "file" => q[i].arg <= q[j].arg

\* What is on its way is in the order of the file: first what the logger has
\* answered, then what it may answer once more, then what it is asked for.
Chain(a, l, o) ==
    /\ Rising(a) /\ Rising(l) /\ Rising(o)
    /\ Below(a, l) /\ Below(l, o) /\ Below(a, o)

\* b is the first n bytes of the file.
IsPrefix(b, n) == b \in Seq(Int) /\ Len(b) = n /\ \A i \in 1..n : b[i] = File[i]

FileInv ==
    /\ got \in BOOLEAN
    /\ pc \in Early => foffset = 0 /\ buff = <<>> /\ NoPiece(out) /\ NoPiece(air) /\ NoPiece(last)
    /\ pc = "upload" => /\ foffset \in 0..Len(File) /\ IsPrefix(buff, foffset)
                        /\ Pieces(out, foffset) /\ Pieces(air, foffset) /\ Pieces(last, foffset)
    /\ pc \notin Over => ~got /\ Chain(air, last, out)
    /\ got => buff = File

Bytes == 0..255

LEMMA FileConstants == File \in Seq(Nat) /\ Len(File) \in Nat /\ Swath \in Nat /\ Swath > 0
<1>1. File \in Seq(Bytes) /\ Swath \in Nat \ {0}
  BY SessionAssumption DEF Bytes
<1>2. Bytes \subseteq Nat
  BY DEF Bytes
<1>3. \A i \in 1..Len(File) : File[i] \in Bytes
  BY <1>1
<1>4. \A i \in 1..Len(File) : File[i] \in Nat
  BY <1>2, <1>3
<1>5. File \in Seq(Nat)
  BY <1>1, <1>4
<1>. QED
  BY <1>1, <1>5

LEMMA FileInit == Init => FileInv
<1>. SUFFICES ASSUME Init PROVE FileInv
  OBVIOUS
<1>1. Stale.kind # "file" /\ Link("broadcast").kind # "file"
  BY DEF Stale, Link, Packet
<1>2. /\ out = <<Link("broadcast")>> /\ last = <<>> /\ air \in {<<>>, <<Stale>>}
      /\ pc = "ring" /\ foffset = 0 /\ buff = <<>> /\ got = FALSE
  BY DEF Init
<1>3. NoPiece(out) /\ NoPiece(air) /\ NoPiece(last)
  BY <1>1, <1>2 DEF NoPiece
<1>. QED
  BY <1>2, <1>3 DEF FileInv, Chain, Rising, Below, NoPiece, Over
-----------------------------------------------------------------------------
(* Queues.                                                                 *)
LEMMA NoPieceChain ==
    ASSUME NEW a, NEW l, NEW o, NoPiece(a), NoPiece(l), NoPiece(o)
    PROVE  Chain(a, l, o)
BY DEF NoPiece, Chain, Rising, Below

\* A queue that loses its head.
LEMMA TailKeeps ==
    ASSUME NEW q \in Seq(Packets), q # <<>>
    PROVE  /\ NoPiece(q) => NoPiece(Tail(q))
           /\ \A f : Pieces(q, f) => Pieces(Tail(q), f)
           /\ Rising(q) => Rising(Tail(q))
           /\ \A r : (Below(q, r) => Below(Tail(q), r)) /\ (Below(r, q) => Below(r, Tail(q)))
<1>1. /\ Tail(q) \in Seq(Packets)
      /\ \A i \in 1..Len(Tail(q)) : i \in Int /\ i + 1 \in 1..Len(q) /\ Tail(q)[i] = q[i + 1]
  BY QueueTail
<1>2. Rising(q) => Rising(Tail(q))
  BY <1>1 DEF Rising
<1>. QED
  BY <1>1, <1>2 DEF NoPiece, Pieces, Below

\* A queue that gets a packet.
LEMMA AppendKeeps ==
    ASSUME NEW q \in Seq(Packets), NEW p \in Packets
    PROVE  /\ NoPiece(q) /\ p.kind # "file" => NoPiece(Append(q, p))
           /\ \A f : Pieces(q, f) /\ Pieces(<<p>>, f) => Pieces(Append(q, p), f)
           /\ Rising(q) /\ Below(q, <<p>>) => Rising(Append(q, p))
           /\ \A r : Below(q, r) /\ Below(<<p>>, r) => Below(Append(q, p), r)
           /\ \A r : Below(r, q) /\ Below(r, <<p>>) => Below(r, Append(q, p))
<1>. DEFINE s == Append(q, p)
<1>1. \A i \in 1..Len(s) : \/ i = Len(q) + 1 /\ s[i] = p
                           \/ i \in 1..Len(q) /\ s[i] = q[i]
  OBVIOUS
<1>2. Len(<<p>>) = 1 /\ <<p>>[1] = p /\ Len(q) \in Nat
  OBVIOUS
<1>3. p.kind = "file" => p.arg <= p.arg
  BY DEF Packets
<1>. HIDE DEF s
<1>4. NoPiece(q) /\ p.kind # "file" => NoPiece(s)
  BY <1>1 DEF NoPiece
<1>5. ASSUME NEW f, Pieces(q, f), Pieces(<<p>>, f) PROVE Pieces(s, f)
  BY <1>1, <1>2, <1>5 DEF Pieces
<1>6. ASSUME Rising(q), Below(q, <<p>>) PROVE Rising(s)
  BY <1>1, <1>2, <1>3, <1>6 DEF Rising, Below
<1>7. ASSUME NEW r, Below(q, r), Below(<<p>>, r) PROVE Below(s, r)
  BY <1>1, <1>2, <1>7 DEF Below
<1>8. ASSUME NEW r, Below(r, q), Below(r, <<p>>) PROVE Below(r, s)
  BY <1>1, <1>2, <1>8 DEF Below
<1>. QED
  BY <1>4, <1>5, <1>6, <1>7, <1>8 DEF s

\* A packet about something else is no piece at all.
LEMMA OtherPacket ==
    ASSUME NEW p \in Packets, p.kind # "file"
    PROVE  /\ NoPiece(<<p>>) /\ Rising(<<p>>)
           /\ \A f : Pieces(<<p>>, f)
           /\ \A r : Below(<<p>>, r) /\ Below(r, <<p>>)
<1>1. Len(<<p>>) = 1 /\ <<p>>[1] = p
  OBVIOUS
<1>. QED
  BY <1>1 DEF NoPiece, Rising, Pieces, Below

\* An answer to the head of o, or o's head taken and something else said.
LEMMA ChainAnswer ==
    ASSUME NEW a \in Seq(Packets), NEW l \in Seq(Packets), NEW o \in Seq(Packets), o # <<>>,
           Chain(a, l, o), NEW p \in Packets,
           p.kind # "file" \/ (p.kind = Head(o).kind /\ p.arg = Head(o).arg)
    PROVE  Chain(Append(a, p), <<p>>, Tail(o))
<1>1. /\ Rising(Tail(o)) /\ Below(a, Tail(o))
  BY TailKeeps DEF Chain
<1>2. CASE p.kind # "file"
  <2>1. Rising(Append(a, p)) /\ Below(Append(a, p), <<p>>) /\ Below(Append(a, p), Tail(o))
    BY <1>1, <1>2, OtherPacket, AppendKeeps DEF Chain
  <2>. QED
    BY <1>1, <1>2, <2>1, OtherPacket DEF Chain
<1>3. CASE p.kind = "file" /\ p.kind = Head(o).kind /\ p.arg = Head(o).arg
  <2>1. /\ Head(o) = o[1] /\ 1 \in 1..Len(o) /\ p.arg \in Int
        /\ \A i \in 1..Len(Tail(o)) : i + 1 \in 1..Len(o) /\ 1 <= i + 1 /\ Tail(o)[i] = o[i + 1]
    BY QueueTail DEF Packets
  <2>2. Len(<<p>>) = 1 /\ <<p>>[1] = p
    OBVIOUS
  <2>3. Below(<<p>>, Tail(o)) /\ Below(a, <<p>>) /\ Rising(<<p>>) /\ Below(<<p>>, <<p>>)
    BY <1>3, <2>1, <2>2 DEF Chain, Rising, Below
  <2>4. Rising(Append(a, p)) /\ Below(Append(a, p), <<p>>) /\ Below(Append(a, p), Tail(o))
    BY <1>1, <2>3, AppendKeeps DEF Chain
  <2>. QED
    BY <1>1, <2>3, <2>4 DEF Chain
<1>. QED
  BY <1>2, <1>3

\* The last answer once more.
LEMMA ChainAgain ==
    ASSUME NEW a \in Seq(Packets), NEW l \in Seq(Packets), NEW o \in Seq(Packets), l # <<>>,
           Chain(a, l, o)
    PROVE  Chain(Append(a, l[1]), <<l[1]>>, o)
<1>1. l[1] \in Packets /\ 1 \in 1..Len(l)
  BY QueueTail
<1>2. PICK p \in Packets : p = l[1]
  BY <1>1
<1>3. Len(<<p>>) = 1 /\ <<p>>[1] = p /\ p.arg \in Int
  BY DEF Packets
<1>4. Below(<<p>>, o) /\ Below(a, <<p>>) /\ Rising(<<p>>) /\ Below(<<p>>, <<p>>)
  BY <1>1, <1>2, <1>3 DEF Chain, Rising, Below
<1>5. Rising(Append(a, p)) /\ Below(Append(a, p), <<p>>) /\ Below(Append(a, p), o)
  BY <1>4, AppendKeeps DEF Chain
<1>. QED
  BY <1>2, <1>4, <1>5 DEF Chain

\* A request that does not come before f, when the pieces on their way are those
\* at f or before.
LEMMA BelowNext ==
    ASSUME NEW q \in Seq(Packets), NEW f \in Int, Pieces(q, f), NEW p \in Packets, p.arg >= f
    PROVE  Below(q, <<p>>)
<1>1. Len(<<p>>) = 1 /\ <<p>>[1] = p /\ p.arg \in Int
  BY DEF Packets
<1>. QED
  BY <1>1, FileConstants DEF Below, Pieces

LEMMA NoPieceOf ==
    ASSUME NEW q, NoPiece(q)
    PROVE  (\A f : Pieces(q, f)) /\ \A r : Below(q, r)
BY DEF NoPiece, Pieces, Below
-----------------------------------------------------------------------------
(* The steps that ask for no piece.                                        *)

\* The three queues at once.
Three(a, l, o) == a \in Seq(Packets) /\ l \in Seq(Packets) /\ o \in Seq(Packets)

\* What a step keeps of the queues.
Kept ==
    /\ Chain(air, last, out) => Chain(air', last', out')
    /\ NoPiece(air) /\ NoPiece(last) /\ NoPiece(out) =>
           NoPiece(air') /\ NoPiece(last') /\ NoPiece(out')
    /\ \A f : Pieces(air, f) /\ Pieces(last, f) /\ Pieces(out, f) =>
           Pieces(air', f) /\ Pieces(last', f) /\ Pieces(out', f)

\* The program reads a packet or not, and says something else or nothing.
LEMMA ProgramKeeps ==
    ASSUME Three(air, last, out), UNCHANGED last, air' = air \/ Arrives,
           out' = out \/ \E p \in Packets : Say(p) /\ p.kind # "file"
    PROVE  Kept
<1>. USE DEF Three
<1>1. /\ NoPiece(air) => NoPiece(air')
      /\ \A f : Pieces(air, f) => Pieces(air', f)
      /\ Rising(air) => Rising(air')
      /\ \A r : Below(air, r) => Below(air', r)
  <2>1. CASE air' = air
    BY <2>1
  <2>2. CASE Arrives
    BY <2>2, TailKeeps DEF Arrives
  <2>. QED
    BY <2>1, <2>2
<1>2. /\ NoPiece(out) => NoPiece(out')
      /\ \A f : Pieces(out, f) => Pieces(out', f)
      /\ Rising(out) => Rising(out')
      /\ \A r : Below(r, out) => Below(r, out')
  <2>1. CASE out' = out
    BY <2>1
  <2>2. ASSUME NEW p \in Packets, Say(p), p.kind # "file"
        PROVE  /\ NoPiece(out) => NoPiece(out')
               /\ \A f : Pieces(out, f) => Pieces(out', f)
               /\ Rising(out) => Rising(out')
               /\ \A r : Below(r, out) => Below(r, out')
    BY <2>2, AppendKeeps, OtherPacket DEF Say
  <2>. QED
    BY <2>1, <2>2
<1>. QED
  BY <1>1, <1>2 DEF Kept, Chain

LEMMA QuietStep ==
    ASSUME FileInv, Kept,
           \/ pc' = pc /\ UNCHANGED upload
           \/ pc \in Early /\ pc' \in Early \cup Over /\ UNCHANGED upload
           \/ pc = "upload" /\ pc' \in Over /\ UNCHANGED got
    PROVE  FileInv'
BY DEF FileInv, Kept, upload, Early, Over

LEMMA SetupFile ==
    ASSUME IInv, FileInv, Setup
    PROVE  FileInv'
<1>1. /\ UNCHANGED <<last, upload>> /\ (air' = air \/ Arrives)
      /\ pc \in Early /\ pc' \in Early \cup Over
  BY DEF Setup, RingAnswered, Skipped, RingAgain, AtReady, AtTurn, NoHello, Same, logger,
         Hang, Early, Over
<1>2. out' = out \/ \E p \in Packets : Say(p) /\ p.kind # "file"
  <2>1. /\ Link("ring") \in Packets /\ Link("broadcast") \in Packets
        /\ Packet("hello", nbr, 0, TRUE) \in Packets
        /\ Link("ring").kind # "file" /\ Link("broadcast").kind # "file"
        /\ Packet("hello", nbr, 0, TRUE).kind # "file"
    BY DEF IInv, Link, Packet, Packets, Kind
  <2>2. \/ out' = out \/ Say(Link("ring")) \/ Say(Link("broadcast"))
        \/ Say(Packet("hello", nbr, 0, TRUE))
    BY DEF Setup, RingAnswered, Skipped, RingAgain, AtReady, AtTurn, NoHello, Hang
  <2>. QED
    BY <2>1, <2>2
<1>3. Kept
  BY <1>1, <1>2, ProgramKeeps DEF IInv, Three
<1>. QED
  BY <1>1, <1>3, QuietStep

LEMMA LineFile ==
    ASSUME IInv, FileInv, Logger \/ AskForHello \/ Lose
    PROVE  FileInv'
<1>0. Three(air, last, out) /\ UNCHANGED <<pc, upload>>
  BY DEF IInv, Three, Logger, AnswerLink, AnswerRequest, AnswerReady, AskForHello, Lose, Program
<1>q. ASSUME Kept PROVE FileInv'
  BY <1>0, <1>q, QuietStep
<1>t. ASSUME Taken
      PROVE  /\ out # <<>> /\ out' = Tail(out) /\ request \in Packets /\ request = Head(out)
             /\ request = out[1] /\ 1 \in 1..Len(out)
  BY <1>0, <1>t, QueueTail DEF Taken, request, Three
\* The logger answers what it takes, in kind.
<1>a. ASSUME Taken, NEW CONSTANT p \in Packets, Reply(p),
             p.kind # "file" \/ (p.kind = request.kind /\ p.arg = request.arg)
      PROVE  Kept
  <2>1. air' = Append(air, p) /\ last' = <<p>> /\ out' = Tail(out)
    BY <1>a, <1>t DEF Reply
  <2>2. Chain(air, last, out) => Chain(air', last', out')
    BY <1>0, <1>a, <1>t, <2>1, ChainAnswer DEF Three
  <2>3. Len(<<p>>) = 1 /\ <<p>>[1] = p
    OBVIOUS
  <2>4. /\ NoPiece(out) => NoPiece(<<p>>)
        /\ \A f : Pieces(out, f) => Pieces(<<p>>, f)
    BY <1>a, <1>t, <2>3 DEF NoPiece, Pieces
  <2>5. /\ NoPiece(air) /\ NoPiece(out) => NoPiece(air')
        /\ \A f : Pieces(air, f) /\ Pieces(out, f) => Pieces(air', f)
    <3>1. NoPiece(out) => p.kind # "file"
      BY <2>3, <2>4 DEF NoPiece
    <3>. QED
      BY <1>0, <2>1, <2>4, <3>1, AppendKeeps DEF Three
  <2>6. (NoPiece(out) => NoPiece(out')) /\ \A f : Pieces(out, f) => Pieces(out', f)
    BY <1>0, <1>a, <1>t, TailKeeps DEF Three
  <2>. QED
    BY <2>1, <2>2, <2>4, <2>5, <2>6 DEF Kept
\* A packet is lost.
<1>l. ASSUME (Arrives /\ out' = out) \/ (Taken /\ air' = air), last' = last
      PROVE  Kept
  <2>1. CASE Arrives /\ out' = out
    BY <1>0, <1>l, <2>1, ProgramKeeps
  <2>2. CASE Taken /\ air' = air
    BY <1>0, <1>l, <1>t, <2>2, TailKeeps DEF Kept, Chain, Three
  <2>. QED
    BY <1>l, <2>1, <2>2
<1>1. CASE AnswerLink
  <2>1. PICK p \in Packets : p = [request EXCEPT !.kind = AnswerTo[@]]
    BY <1>t, <1>1 DEF AnswerLink, AnswerTo, Packets, Kind
  <2>2. p.kind # "file"
    BY <1>t, <1>1, <2>1 DEF AnswerLink, AnswerTo, Packets
  <2>. QED
    BY <1>1, <1>a, <1>q, <2>1, <2>2 DEF AnswerLink
<1>2. CASE AnswerRequest
  <2>1. Taken /\ request \in Packets
    BY <1>2, <1>t DEF AnswerRequest
  <2>2. \E p \in Packets : Reply(p) /\ (p.kind # "file" \/ (p.kind = request.kind /\ p.arg = request.arg))
    <3>1. skew + since \in Int
      BY DEF IInv
    <3>2. /\ [request EXCEPT !.arg = skew + since] \in Packets
          /\ [request EXCEPT !.arg = skew + since].kind = request.kind
          /\ [request EXCEPT !.ok = FALSE] \in Packets
          /\ [request EXCEPT !.ok = FALSE].kind = request.kind
          /\ [request EXCEPT !.ok = FALSE].arg = request.arg
      BY <2>1, <3>1 DEF Packets
    <3>3. \/ request.kind = "clock" /\ Reply([request EXCEPT !.arg = skew + since])
          \/ Reply(request) \/ Reply([request EXCEPT !.ok = FALSE])
      BY <1>2 DEF AnswerRequest
    <3>. QED
      BY <2>1, <3>2, <3>3
  <2>. QED
    BY <1>a, <1>q, <2>1, <2>2
<1>3. CASE AnswerReady
  <2>1. Taken
    BY <1>3 DEF AnswerReady
  <2>2. CASE UNCHANGED <<air, last>>
    BY <1>l, <1>q, <2>1, <2>2
  <2>3. CASE last # <<>> /\ Reply(last[1])
    <3>1. PICK p \in Packets : p = last[1] /\ 1 \in 1..Len(last)
      BY <1>0, <2>3, QueueTail DEF Three
    <3>2. air' = Append(air, p) /\ last' = <<p>> /\ out' = Tail(out) /\ out # <<>>
      BY <1>t, <2>1, <2>3, <3>1 DEF Reply
    <3>3. Chain(air, last, out) => Chain(air', last', out')
      <4>1. ASSUME Chain(air, last, out) PROVE Chain(air', last', out')
        <5>1. Chain(Append(air, p), <<p>>, out)
          BY <1>0, <2>3, <3>1, <4>1, ChainAgain DEF Three
        <5>. QED
          BY <1>0, <3>2, <5>1, TailKeeps DEF Chain, Three
      <4>. QED
        BY <4>1
    <3>4. Len(<<p>>) = 1 /\ <<p>>[1] = p
      OBVIOUS
    <3>5. /\ NoPiece(last) => NoPiece(<<p>>) /\ p.kind # "file"
          /\ \A f : Pieces(last, f) => Pieces(<<p>>, f)
      BY <3>1, <3>4 DEF NoPiece, Pieces
    <3>6. /\ NoPiece(air) /\ NoPiece(last) => NoPiece(air')
          /\ \A f : Pieces(air, f) /\ Pieces(last, f) => Pieces(air', f)
      BY <1>0, <3>2, <3>5, AppendKeeps DEF Three
    <3>7. (NoPiece(out) => NoPiece(out')) /\ \A f : Pieces(out, f) => Pieces(out', f)
      BY <1>0, <3>2, TailKeeps DEF Three
    <3>. QED
      BY <1>q, <3>2, <3>3, <3>5, <3>6, <3>7 DEF Kept
  <2>. QED
    BY <1>3, <2>2, <2>3 DEF AnswerReady
<1>4. CASE AskForHello
  <2>1. /\ Link("helloRequest") \in Packets /\ Link("helloRequest").kind # "file"
    BY DEF Link, Packet, Packets, Kind
  <2>2. air' = Append(air, Link("helloRequest")) /\ UNCHANGED <<out, last>>
    BY <1>4 DEF AskForHello, logger
  <2>3. Kept
    BY <1>0, <2>1, <2>2, AppendKeeps, OtherPacket DEF Kept, Chain, Three
  <2>. QED
    BY <1>q, <2>3
<1>5. CASE Lose
  BY <1>5, <1>l, <1>q DEF Lose, logger, Arrives, Taken
<1>. QED
  BY <1>1, <1>2, <1>3, <1>4, <1>5 DEF Logger
-----------------------------------------------------------------------------
(* The steps that ask for a piece.                                         *)

\* What the logger gives at offset.
LEMMA ChunkIs ==
    ASSUME NEW offset \in 0..Len(File)
    PROVE  /\ Chunk(offset) \in Seq(Int)
           /\ Len(Chunk(offset)) =
                  (IF offset + Swath < Len(File) THEN Swath ELSE Len(File) - offset)
           /\ \A i \in 1..Len(Chunk(offset)) :
                  offset + i \in 1..Len(File) /\ Chunk(offset)[i] = File[offset + i]
<1>. DEFINE m == offset + 1
            n == IF offset + Swath < Len(File) THEN offset + Swath ELSE Len(File)
<1>1. /\ m \in 1..Len(File) + 1 /\ n \in (m - 1)..Len(File)
      /\ n - m + 1 = (IF offset + Swath < Len(File) THEN Swath ELSE Len(File) - offset)
  BY FileConstants
<1>2. Chunk(offset) = SubSeq(File, m, n)
  BY DEF Chunk
<1>. HIDE DEF m, n
<1>3. SubSeq(File, m, n) = [i \in 1..(n - m + 1) |-> File[i + m - 1]]
  BY <1>1, FileConstants
<1>4. m \in Int /\ n \in Int /\ n - m + 1 \in Nat
  BY <1>1, FileConstants
<1>5. \A i \in 1..(n - m + 1) : i + m - 1 \in 1..Len(File) /\ File[i + m - 1] \in Int
  BY <1>1, <1>4, FileConstants
<1>6. Chunk(offset) \in [1..(n - m + 1) -> Int]
  BY <1>2, <1>3, <1>5
<1>7. Chunk(offset) \in Seq(Int) /\ Len(Chunk(offset)) = n - m + 1
  BY <1>4, <1>6
<1>8. \A i \in 1..(n - m + 1) : Chunk(offset)[i] = File[i + m - 1] /\ i + m - 1 \in 1..Len(File)
  BY <1>2, <1>3, <1>5
<1>9. \A i \in 1..(n - m + 1) : i + m - 1 = offset + i
  BY <1>4 DEF m
<1>. QED
  BY <1>1, <1>7, <1>8, <1>9

LEMMA Joint ==
    ASSUME NEW S, NEW b \in Seq(S), NEW c \in Seq(S)
    PROVE  /\ b \o c \in Seq(S) /\ Len(b \o c) = Len(b) + Len(c)
           /\ \A i \in 1..Len(b) + Len(c) :
                  (b \o c)[i] = IF i <= Len(b) THEN b[i] ELSE c[i - Len(b)]
  OBVIOUS

\* A piece at the end of the buffer, or once more over the last one.
LEMMA StoredIs ==
    ASSUME NEW f \in 0..Len(File), IsPrefix(buff, f), NEW offset \in 0..f
    PROVE  IsPrefix(Stored(offset, Chunk(offset)), offset + Len(Chunk(offset)))
<1>. DEFINE b == [i \in 1..offset |-> IF i <= Len(buff) THEN buff[i] ELSE 0 - 1]
            c == Chunk(offset)
<1>1. /\ offset \in Nat /\ offset \in 0..Len(File)
      /\ \A i \in 1..offset : i \in 1..Len(buff) /\ i \in 1..f /\ i <= Len(buff)
  BY FileConstants DEF IsPrefix
<1>2. \A i \in 1..offset : b[i] = File[i] /\ File[i] \in Int
  BY <1>1, FileConstants DEF IsPrefix
<1>3. b \in [1..offset -> Int]
  BY <1>2
<1>4. b \in Seq(Int) /\ Len(b) = offset
  BY <1>1, <1>3
<1>5. /\ c \in Seq(Int) /\ Len(c) \in Nat
      /\ \A i \in 1..Len(c) : offset + i \in 1..Len(File) /\ c[i] = File[offset + i]
  BY <1>1, ChunkIs
<1>6. Stored(offset, c) = b \o c
  BY DEF Stored
<1>. HIDE DEF b, c
<1>7. /\ b \o c \in Seq(Int) /\ Len(b \o c) = offset + Len(c)
      /\ \A i \in 1..offset + Len(c) : (b \o c)[i] = IF i <= offset THEN b[i] ELSE c[i - offset]
  BY <1>4, <1>5, Joint
<1>8. \A i \in 1..offset + Len(c) : (b \o c)[i] = File[i]
  <2>1. ASSUME NEW i \in 1..offset + Len(c) PROVE (b \o c)[i] = File[i]
    <3>1. CASE i <= offset
      BY <1>1, <1>2, <1>7, <3>1
    <3>2. CASE ~(i <= offset)
      <4>1. i - offset \in 1..Len(c) /\ offset + (i - offset) = i
        BY <1>1, <1>5, <3>2
      <4>2. (b \o c)[i] = c[i - offset]
        BY <1>7, <3>2
      <4>. QED
        BY <1>5, <4>1, <4>2
    <3>. QED
      BY <3>1, <3>2
  <2>. QED
    BY <2>1
<1>. QED
  BY <1>6, <1>7, <1>8 DEF IsPrefix, c

LEMMA WholeFile == ASSUME NEW b, IsPrefix(b, Len(File)) PROVE b = File
<1>1. /\ b \in Seq(Int) /\ File \in Seq(Int) /\ Len(b) = Len(File)
      /\ \A i \in 1..Len(b) : b[i] = File[i]
  BY FileConstants DEF IsPrefix
<1>. QED
  BY <1>1

\* A request for the piece at f, which none of those on their way is behind.
LEMMA AskPiece ==
    ASSUME IInv, Chain(air, last, out), UNCHANGED last, Arrives \/ air' = air,
           NEW CONSTANT f \in Int, f >= 0, NEW CONSTANT p \in Packets, Say(p), p.arg = f,
           Pieces(air', f), Pieces(last, f), Pieces(out, f)
    PROVE  Chain(air', last', out') /\ Pieces(air', f) /\ Pieces(last', f) /\ Pieces(out', f)
<1>1. air \in Seq(Packets) /\ last \in Seq(Packets) /\ out \in Seq(Packets)
  BY DEF IInv
<1>2. /\ air' \in Seq(Packets) /\ Rising(air') /\ Below(air', last) /\ Below(air', out)
  BY <1>1, TailKeeps, QueueTail DEF Arrives, Chain
<1>3. Below(air', <<p>>) /\ Below(last, <<p>>) /\ Below(out, <<p>>)
  BY <1>1, <1>2, BelowNext
<1>4. Len(<<p>>) = 1 /\ <<p>>[1] = p
  OBVIOUS
<1>5. Pieces(<<p>>, f)
  BY <1>4 DEF Pieces
<1>6. /\ Rising(out') /\ Below(air', out') /\ Below(last, out') /\ Pieces(out', f)
  BY <1>1, <1>2, <1>3, <1>5, AppendKeeps DEF Say, Chain
<1>. QED
  BY <1>2, <1>6 DEF Chain

\* The file is begun: nothing of it is on its way.
LEMMA BeginFile ==
    ASSUME IInv, IInv', FileInv, pc = "get", UNCHANGED <<last, upload>>, Arrives \/ air' = air,
           NEW n, Ask("upload", n, 0)
    PROVE  FileInv'
<1>1. /\ foffset = 0 /\ buff = <<>> /\ ~got /\ Chain(air, last, out)
      /\ NoPiece(out) /\ NoPiece(air) /\ NoPiece(last) /\ UNCHANGED <<foffset, buff, got>>
  BY DEF FileInv, Early, Over, upload
<1>2. PICK p \in Packets : p = pk' /\ Say(p) /\ p.arg = 0 /\ pc' = "upload"
  BY AskIs
<1>3. NoPiece(air')
  BY <1>1, TailKeeps DEF Arrives, IInv
<1>4. /\ Pieces(air', 0) /\ Pieces(last, 0) /\ Pieces(out, 0)
  BY <1>1, <1>3, NoPieceOf
<1>5. Chain(air', last', out') /\ Pieces(air', 0) /\ Pieces(last', 0) /\ Pieces(out', 0)
  BY <1>1, <1>2, <1>4, AskPiece
<1>6. IsPrefix(<<>>, 0)
  BY DEF IsPrefix
<1>. QED
  BY <1>1, <1>2, <1>5, <1>6, FileConstants DEF FileInv, Early, Over

\* A piece comes, the next one or the last one again.
LEMMA PieceStep ==
    ASSUME IInv, IInv', FileInv, Piece
    PROVE  FileInv'
<1>. DEFINE o == packet.arg
            c == Chunk(o)
            f == foffset
<1>1. /\ pc = "upload" /\ Arrives /\ packet.kind = "file" /\ UNCHANGED last
      /\ buff' = Stored(o, c) /\ foffset' = o + Len(c)
      /\ IF Len(c) < Swath THEN got' = TRUE /\ Finish
                           ELSE Ask("upload", nbr, foffset') /\ got' = got
  BY Stages DEF Piece, Replied, Expected, Offset, Complete, logger
<1>2. /\ air # <<>> /\ air' = Tail(air) /\ packet = air[1] /\ 1 \in 1..Len(air)
      /\ packet \in Packets
      /\ air \in Seq(Packets) /\ last \in Seq(Packets) /\ out \in Seq(Packets)
  BY <1>1, QueueTail DEF Arrives, packet, IInv
<1>3. /\ f \in 0..Len(File) /\ IsPrefix(buff, f) /\ ~got /\ Chain(air, last, out)
      /\ Pieces(out, f) /\ Pieces(air, f) /\ Pieces(last, f)
  BY <1>1 DEF FileInv, Over
<1>4. o \in {f - Swath, f} /\ o >= 0 /\ o \in 0..f /\ o \in 0..Len(File)
  <2>1. o \in {f - Swath, f} /\ o >= 0
    BY <1>1, <1>2, <1>3 DEF Pieces
  <2>. QED
    BY <1>3, <2>1, FileConstants
<1>5. Len(c) = IF o + Swath < Len(File) THEN Swath ELSE Len(File) - o
  BY <1>4, ChunkIs
<1>6. IsPrefix(buff', foffset')
  BY <1>1, <1>3, <1>4, StoredIs
<1>h. o \in Int /\ f \in Int /\ Len(c) \in Int
  <2>1. Len(File) \in Nat
    BY FileConstants
  <2>2. f \in Int
    <3>. HIDE DEF f
    <3>. QED
      BY <1>3, <2>1
  <2>3. o \in Int
    <3>. HIDE DEF o
    <3>. QED
      BY <1>4, <2>1
  <2>4. Len(c) \in Int
    <3>. HIDE DEF o, c
    <3>. QED
      BY <1>5, <2>1, <2>3, FileConstants
  <2>. QED
    BY <2>2, <2>3, <2>4
<1>. HIDE DEF c, o, f
<1>7. CASE Len(c) < Swath
  <2>1. foffset' = Len(File)
    BY <1>1, <1>4, <1>5, <1>7, FileConstants
  <2>2. buff' = File
    BY <1>6, <2>1, WholeFile
  <2>3. pc' \in Over /\ got' = TRUE
    BY <1>1, <1>7 DEF Finish, Hang, Over
  <2>. QED
    BY <2>2, <2>3 DEF FileInv, Over, Early
<1>8. CASE ~(Len(c) < Swath)
  <2>1. foffset' = o + Swath /\ foffset' \in 0..Len(File)
    <3>1. Len(c) = Swath
      BY <1>4, <1>5, <1>8, <1>h, FileConstants
    <3>2. o + Swath \in 0..Len(File)
      BY <1>4, <1>5, <1>h, <3>1, FileConstants
    <3>. QED
      BY <1>1, <3>1, <3>2
  <2>2. PICK g \in Int : g = foffset'
    BY <2>1, FileConstants
  <2>3. PICK p \in Packets : p = pk' /\ Say(p) /\ p.arg = g /\ pc' = "upload"
    BY <1>1, <1>8, <2>2, AskIs
  <2>4. Pieces(air', f)
    BY <1>2, <1>3, TailKeeps
  <2>5. ASSUME NEW q, Below(<<packet>>, q), Pieces(q, f)
        PROVE  Pieces(q, g)
    <3>1. CASE o = f - Swath
      <4>1. g = f
        BY <1>h, <2>1, <2>2, <3>1, FileConstants
      <4>. QED
        BY <2>5, <4>1
    <3>2. CASE o = f
      <4>1. Len(<<packet>>) = 1 /\ <<packet>>[1] = packet /\ packet.arg = f
        BY <3>2 DEF o
      <4>2. ASSUME NEW i \in 1..Len(q), q[i].kind = "file"
            PROVE  q[i].arg \in {g - Swath, g} /\ q[i].arg >= 0
        <5>1. q[i].arg \in {f - Swath, f} /\ q[i].arg >= 0
          BY <2>5, <4>2 DEF Pieces
        <5>2. f <= q[i].arg
          BY <1>1, <2>5, <4>1, <4>2 DEF Below
        <5>3. q[i].arg = f
          BY <1>h, <5>1, <5>2, FileConstants
        <5>4. f = g - Swath
          BY <1>h, <2>1, <2>2, <3>2, FileConstants
        <5>. QED
          BY <5>1, <5>3, <5>4
      <4>. QED
        BY <4>2 DEF Pieces
    <3>. QED
      BY <1>4, <3>1, <3>2
  <2>6. /\ Below(<<packet>>, last) /\ Below(<<packet>>, out) /\ Below(<<packet>>, air')
    <3>1. Len(<<packet>>) = 1 /\ <<packet>>[1] = packet
      OBVIOUS
    <3>2. Below(<<packet>>, last) /\ Below(<<packet>>, out) /\ Below(<<packet>>, air)
      BY <1>2, <1>3, <3>1 DEF Below, Chain, Rising
    <3>. QED
      BY <1>2, <3>2, TailKeeps
  <2>7. Pieces(air', g) /\ Pieces(last, g) /\ Pieces(out, g)
    BY <1>3, <2>4, <2>5, <2>6
  <2>8. g >= 0
    BY <2>1, <2>2, FileConstants
  <2>9. Chain(air', last', out') /\ Pieces(air', g) /\ Pieces(last', g) /\ Pieces(out', g)
    BY <1>1, <1>3, <2>3, <2>7, <2>8, AskPiece
  <2>. QED
    BY <1>1, <1>3, <1>6, <1>8, <2>1, <2>2, <2>3, <2>9 DEF FileInv, Early, Over
<1>. QED
  BY <1>7, <1>8

LEMMA WorkFile ==
    ASSUME IInv, IInv', FileInv, Work \/ Parted
    PROVE  FileInv'
<1>0. /\ UNCHANGED last /\ (air' = air \/ Arrives) /\ Three(air, last, out)
  BY DEF Work, Unexpected, WaitAgain, HelloAnswered, NameRead, NameFailed, ClockRead,
         ClockNotRead, ClockSet, GetClock, Piece, NoFile, Parted, Same, logger, Replied, Failed,
         IInv, Three
<1>q. ASSUME out' = out \/ (\E p \in Packets : Say(p) /\ p.kind # "file"),
             \/ pc' = pc /\ UNCHANGED upload
             \/ pc \in Early /\ pc' \in Early \cup Over /\ UNCHANGED upload
             \/ pc = "upload" /\ pc' \in Over /\ UNCHANGED got
      PROVE  FileInv'
  BY <1>0, <1>q, ProgramKeeps, QuietStep
<1>l. /\ Link("ready") \in Packets /\ Link("finished") \in Packets
      /\ Packet("hello", nbr, 0, TRUE) \in Packets
      /\ Link("ready").kind # "file" /\ Link("finished").kind # "file"
      /\ Packet("hello", nbr, 0, TRUE).kind # "file"
  BY DEF IInv, Link, Packet, Packets, Kind
<1>f. ASSUME Finish
      PROVE  pc' \in Over /\ (out' = out \/ \E p \in Packets : Say(p) /\ p.kind # "file")
  BY <1>f, <1>l DEF Finish, Hang, Over
<1>a. ASSUME NEW stage \in {"name", "read", "set", "get"}, NEW n, NEW a, Ask(stage, n, a),
             pc \in Early, UNCHANGED upload
      PROVE  FileInv'
  BY <1>a, <1>q, AskIs, Stages DEF Early
<1>1. CASE Unexpected
  BY <1>1, <1>l, <1>q DEF Unexpected
<1>2. CASE WaitAgain
  BY <1>2, <1>l, <1>q DEF WaitAgain, Ready
<1>3. CASE HelloAnswered \/ NameRead \/ ClockRead \/ ClockNotRead \/ ClockSet
  <2>1. pc \in Early /\ UNCHANGED upload
    BY <1>3 DEF HelloAnswered, NameRead, ClockRead, ClockNotRead, ClockSet, Replied, Failed, Early
  <2>2. \E stage \in {"name", "read", "set", "get"} : \E n, a : Ask(stage, n, a)
    BY <1>3 DEF HelloAnswered, NameRead, ClockRead, ClockNotRead, ClockSet
  <2>. QED
    BY <1>a, <2>1, <2>2
<1>4. CASE NameFailed
  BY <1>4, <1>q DEF NameFailed, Failed, Hang, Early, Over
<1>5. CASE GetClock
  <2>1. pc = "get" /\ UNCHANGED upload
    BY <1>5 DEF GetClock, Replied, Failed
  <2>2. CASE Ask("upload", NewNbr, 0)
    BY <1>0, <2>1, <2>2, BeginFile
  <2>3. CASE Finish
    BY <1>f, <1>q, <2>1, <2>3 DEF Early
  <2>. QED
    BY <1>5, <2>2, <2>3 DEF GetClock
<1>6. CASE Piece
  BY <1>6, PieceStep
<1>7. CASE NoFile
  BY <1>7, <1>f, <1>q DEF NoFile, Failed
<1>8. CASE Parted
  <2>1. /\ pc = "finish" /\ UNCHANGED <<upload, out>>
        /\ pc' = pc \/ pc' = "closed"
    BY <1>8 DEF Parted, Hang
  <2>2. CASE pc' = pc
    BY <1>q, <2>1, <2>2
  <2>3. CASE pc' = "closed"
    BY <2>1, <2>3 DEF FileInv, Over, Early, upload
  <2>. QED
    BY <2>1, <2>2, <2>3
<1>. QED
  BY <1>1, <1>2, <1>3, <1>4, <1>5, <1>6, <1>7, <1>8 DEF Work

LEMMA FileStep == IInv /\ IInv' /\ FileInv /\ [Next]_vars => FileInv'
<1>. SUFFICES ASSUME IInv, IInv', FileInv, [Next]_vars PROVE FileInv'
  OBVIOUS
<1>1. CASE UNCHANGED vars
  <2>1. UNCHANGED <<pc, foffset, buff, got, out, air, last>>
    BY <1>1 DEF vars, upload, logger
  <2>. QED
    BY <2>1 DEF FileInv
<1>. QED
  BY <1>1, SetupFile, WorkFile, LineFile DEF Next, Computer

\* When cr_get_file_size returns 0 its buffer is the file, although a piece may
\* come twice, and be asked for twice because of that.
THEOREM FileWholeHolds == Spec => []FileWhole
<1>1. FileInv => FileWhole
  BY DEF FileInv, FileWhole
<1>. QED
  BY <1>1, InitInvariant, InvariantKept, FileInit, FileStep, PTL DEF Spec
-----------------------------------------------------------------------------
(* Types.                                                                  *)

\* A packet whose number is a byte.
Numbered == [kind : Kind, nbr : Bytes, arg : Int, ok : BOOLEAN]

QueuesTyped ==
    /\ out \in Seq(Numbered) /\ air \in Seq(Numbered) /\ last \in Seq(Numbered)

CountsTyped ==
    /\ {setClk, clockSet, lostEnd} \subseteq BOOLEAN
    /\ retry \in 0..Turns + Retries + Rings
    /\ since \in 0..Retries /\ heard \subseteq {"ring", "hello"}
    /\ asks \in 0..MaxAsk /\ losses \in 0..MaxLoss

UploadTyped == foffset \in 0..Len(File) /\ buff \in Seq(Bytes)

TypeInv == QueuesTyped /\ pk \in Numbered /\ CountsTyped /\ UploadTyped

LEMMA TypeInvImplies == IInv /\ ClockInv /\ FileInv /\ TypeInv => TypeOK
<1>. SUFFICES ASSUME IInv, ClockInv, FileInv, TypeInv PROVE TypeOK
  OBVIOUS
<1>1. ASSUME NEW q \in Seq(Numbered)
      PROVE  \A i \in DOMAIN q : q[i].kind \in Kind /\ q[i].nbr \in 0..255
  <2>1. \A i \in DOMAIN q : q[i] \in Numbered
    OBVIOUS
  <2>. QED
    BY <2>1 DEF Numbered, Bytes
<1>2. {out, air, last, <<pk>>} \subseteq Seq(Numbered)
  BY OnePacket DEF TypeInv, QueuesTyped
<1>3. ASSUME NEW q \in {out, air, last, <<pk>>}
      PROVE  \A i \in DOMAIN q : q[i].kind \in Kind /\ q[i].nbr \in 0..255
  <2>1. q \in Seq(Numbered)
    BY <1>2
  <2>. QED
    BY <1>1, <2>1
<1>4. /\ pc \in {"ring", "at", "hello", "finish", "closed"} \cup Asking
      /\ nbr \in 0..255 /\ got \in BOOLEAN
  BY DEF IInv, ClockInv, ClockState, FileInv
<1>. QED
  BY <1>3, <1>4 DEF TypeOK, TypeInv, CountsTyped, UploadTyped, Bytes

LEMMA LinkNumbered ==
    ASSUME NEW k \in Kind, NEW n \in Bytes, NEW a \in Int, NEW b \in BOOLEAN
    PROVE  Packet(k, n, a, b) \in Numbered /\ Link(k) \in Numbered
BY DEF Packet, Link, Numbered, Bytes

LEMMA TypeInitially == Init => TypeInv
<1>. SUFFICES ASSUME Init PROVE TypeInv
  OBVIOUS
<1>1. Stale \in Numbered /\ Link("broadcast") \in Numbered /\ Link("none") \in Numbered
  BY SessionAssumption DEF Stale, Link, Packet, Numbered, Kind, Bytes
<1>2. QueuesTyped
  <2>1. <<Link("broadcast")>> \in Seq(Numbered) /\ <<Stale>> \in Seq(Numbered)
    BY <1>1, OnePacket
  <2>2. <<>> \in Seq(Numbered)
    OBVIOUS
  <2>. QED
    BY <2>1, <2>2 DEF Init, QueuesTyped
<1>3. UploadTyped
  BY FileConstants DEF Init, UploadTyped
<1>4. CountsTyped
  <2>1. Turns \in Nat /\ Retries \in Nat /\ Rings \in Nat /\ MaxAsk \in Nat /\ MaxLoss \in Nat
    BY SessionAssumption
  <2>2. setClk \in BOOLEAN /\ clockSet = FALSE /\ lostEnd = FALSE /\ heard = {}
    BY DEF Init
  <2>3. retry = 0 /\ since = 0 /\ asks = 0 /\ losses = 0
    BY DEF Init
  <2>4. 0 \in 0..Turns + Retries + Rings /\ 0 \in 0..Retries /\ 0 \in 0..MaxAsk /\ 0 \in 0..MaxLoss
    BY <2>1
  <2>. QED
    BY <2>2, <2>3, <2>4 DEF CountsTyped
<1>. QED
  BY <1>1, <1>2, <1>3, <1>4 DEF Init, TypeInv

\* Reading a packet or not, and saying one or not.
LEMMA ProgramTyped ==
    ASSUME QueuesTyped, UNCHANGED last, air' = air \/ Arrives,
           out' = out \/ \E p \in Numbered : Say(p)
    PROVE  QueuesTyped'
<1>1. air' \in Seq(Numbered)
  BY QueueTail DEF QueuesTyped, Arrives
<1>2. out' \in Seq(Numbered)
  BY QueueAppend DEF QueuesTyped, Say
<1>. QED
  BY <1>1, <1>2 DEF QueuesTyped

LEMMA AskTyped ==
    ASSUME NEW stage \in Asking, NEW n \in Bytes, NEW a \in Int, Ask(stage, n, a)
    PROVE  pk' \in Numbered /\ (\E p \in Numbered : Say(p)) /\ retry' = 0
<1>1. pk' = Packet(Type[stage], n, a, TRUE) /\ Say(pk') /\ retry' = 0
  BY DEF Ask
<1>2. Packet(Type[stage], n, a, TRUE) \in Numbered
  BY AskingStages, LinkNumbered
<1>. QED
  BY <1>1, <1>2

LEMMA FinishTyped ==
    ASSUME Finish
    PROVE  /\ out' = out \/ \E p \in Numbered : Say(p)
           /\ retry' \in {0, retry}
           /\ asks' = asks /\ (losses' = losses \/ (losses < MaxLoss /\ losses' = losses + 1))
           /\ lostEnd' \in {lostEnd, TRUE}
<1>1. Link("finished") \in Numbered
  BY DEF Link, Packet, Numbered, Kind, Bytes
<1>. QED
  BY <1>1 DEF Finish, Hang, bounds

\* Counters after a step of the program.
LEMMA CountsKept ==
    ASSUME CountsTyped, setClk' = setClk, clockSet' \in {clockSet, TRUE}, heard' = heard,
           retry' \in {0, retry} \/ (retry' = retry + 1 /\ (retry < Rings \/ retry < Turns \/ retry < Retries)),
           since' \in {0, since} \/ (since' = since + 1 /\ since < Retries),
           asks' = asks, losses' = losses \/ (losses < MaxLoss /\ losses' = losses + 1),
           lostEnd' \in {lostEnd, TRUE}
    PROVE  CountsTyped'
<1>1. /\ Turns \in Nat /\ Retries \in Nat /\ Rings \in Nat /\ MaxAsk \in Nat /\ MaxLoss \in Nat
  BY SessionAssumption
<1>2. retry' \in 0..Turns + Retries + Rings
  BY <1>1 DEF CountsTyped
<1>3. since' \in 0..Retries /\ losses' \in 0..MaxLoss
  BY <1>1 DEF CountsTyped
<1>. QED
  BY <1>2, <1>3 DEF CountsTyped

LEMMA SetupTyped ==
    ASSUME IInv, ClockInv, TypeInv, Setup
    PROVE  TypeInv'
<1>1. /\ UNCHANGED <<last, upload, pk, setClk, clockSet, since, heard, asks, losses, lostEnd>>
      /\ air' = air \/ Arrives
  BY DEF Setup, RingAnswered, Skipped, RingAgain, AtReady, AtTurn, NoHello, Same, logger, clock,
         bounds
<1>2. /\ Link("ring") \in Numbered /\ Link("broadcast") \in Numbered
      /\ Packet("hello", nbr, 0, TRUE) \in Numbered
  <2>1. nbr \in Bytes /\ 0 \in Int /\ TRUE \in BOOLEAN
    BY DEF ClockInv, ClockState, Bytes
  <2>2. {"ring", "broadcast", "hello"} \subseteq Kind
    BY DEF Kind
  <2>. QED
    BY <2>1, <2>2, LinkNumbered
<1>3. out' = out \/ \E p \in Numbered : Say(p)
  BY <1>2 DEF Setup, RingAnswered, Skipped, RingAgain, AtReady, AtTurn, NoHello, Hang
<1>4. retry' \in {0, retry} \/ (retry' = retry + 1 /\ (retry < Rings \/ retry < Turns))
  <2>1. retry \in Int /\ Turns \in Nat
    BY SessionAssumption DEF TypeInv, CountsTyped
  <2>2. CASE RingAgain
    BY <2>2 DEF RingAgain
  <2>3. CASE AtTurn
    <3>1. (retry + 1 < Turns /\ retry' = retry + 1) \/ retry' = retry
      BY <2>3 DEF AtTurn
    <3>2. retry + 1 < Turns => retry < Turns
      BY <2>1
    <3>. QED
      BY <3>1, <3>2
  <2>. QED
    BY <2>2, <2>3 DEF Setup, RingAnswered, Skipped, AtReady, NoHello
<1>5. QueuesTyped' /\ CountsTyped'
  BY <1>1, <1>3, <1>4, ProgramTyped, CountsKept DEF TypeInv
<1>. QED
  BY <1>1, <1>5 DEF TypeInv, UploadTyped, upload

\* A piece that is stored, the last one or not, leaves the buffer bytes of the file.
LEMMA PieceTyped ==
    ASSUME IInv, FileInv, TypeInv, Piece
    PROVE  UploadTyped'
<1>1. /\ pc = "upload" /\ Arrives /\ packet.kind = "file"
      /\ buff' = Stored(packet.arg, Chunk(packet.arg))
      /\ foffset' = packet.arg + Len(Chunk(packet.arg))
  BY Stages DEF Piece, Replied, Expected, Offset
<1>2. packet = air[1] /\ 1 \in 1..Len(air)
  BY <1>1, QueueTail DEF Arrives, packet, IInv
<1>3. foffset \in 0..Len(File) /\ IsPrefix(buff, foffset) /\ Pieces(air, foffset)
  BY <1>1 DEF FileInv
<1>4. PICK o \in 0..foffset : o = packet.arg
  <2>1. packet.arg \in {foffset - Swath, foffset} /\ packet.arg >= 0
    BY <1>1, <1>2, <1>3 DEF Pieces
  <2>. QED
    BY <1>3, <2>1, FileConstants
<1>5. o \in 0..Len(File)
  BY <1>3, <1>4, FileConstants
<1>6. Len(Chunk(o)) = IF o + Swath < Len(File) THEN Swath ELSE Len(File) - o
  BY <1>5, ChunkIs
<1>7. foffset' \in 0..Len(File)
  BY <1>1, <1>4, <1>5, <1>6, FileConstants
<1>8. IsPrefix(buff', foffset')
  BY <1>1, <1>3, <1>4, StoredIs
<1>9. buff' \in Seq(Bytes)
  <2>1. buff' \in Seq(Int) /\ Len(buff') = foffset' /\ \A i \in 1..foffset' : buff'[i] = File[i]
    BY <1>8 DEF IsPrefix
  <2>2. \A i \in 1..Len(File) : File[i] \in Bytes
    <3>1. File \in Seq(Bytes)
      BY SessionAssumption DEF Bytes
    <3>. QED
      BY <3>1
  <2>3. \A i \in 1..Len(buff') : buff'[i] \in Bytes
    <3>1. 1..Len(buff') \subseteq 1..Len(File)
      BY <1>7, <2>1, FileConstants
    <3>. QED
      BY <2>1, <2>2, <3>1
  <2>. QED
    BY <2>1, <2>3
<1>. QED
  BY <1>7, <1>9 DEF UploadTyped

LEMMA WorkTyped ==
    ASSUME IInv, ClockInv, FileInv, TypeInv, Work \/ Parted
    PROVE  TypeInv'
<1>0. /\ UNCHANGED <<last, heard, setClk>> /\ (air' = air \/ Arrives)
  BY DEF Work, Unexpected, WaitAgain, HelloAnswered, NameRead, NameFailed, ClockRead,
         ClockNotRead, ClockSet, GetClock, Piece, NoFile, Parted, Same, logger, Replied, Failed
<1>1. UploadTyped'
  <2>1. CASE Piece
    BY <2>1, PieceTyped
  <2>2. CASE NoFile
    BY <2>2 DEF NoFile, TypeInv, UploadTyped
  <2>3. CASE UNCHANGED upload
    BY <2>3 DEF TypeInv, UploadTyped, upload
  <2>. QED
    BY <2>1, <2>2, <2>3
    DEF Work, Unexpected, WaitAgain, HelloAnswered, NameRead, NameFailed, ClockRead,
        ClockNotRead, ClockSet, GetClock, Parted
<1>2. clockSet' \in {clockSet, TRUE}
  BY DEF Work, Unexpected, WaitAgain, HelloAnswered, NameRead, NameFailed, ClockRead,
         ClockNotRead, ClockSet, GetClock, Piece, NoFile, Parted, clock
<1>3. since' \in {0, since} \/ (since' = since + 1 /\ since < Retries)
  <2>1. CASE WaitAgain
    BY <2>1, SessionAssumption DEF WaitAgain, ClockInv, ClockState, TypeInv, CountsTyped
  <2>2. CASE since' \in {0, since}
    BY <2>2
  <2>. QED
    BY <2>1, <2>2
    DEF Work, Unexpected, HelloAnswered, NameRead, NameFailed, ClockRead,
        ClockNotRead, ClockSet, GetClock, Piece, NoFile, Parted, clock
<1>n. /\ nbr \in Bytes /\ NewNbr \in Bytes
      /\ Packet("hello", nbr, 0, TRUE) \in Numbered /\ Link("ready") \in Numbered
  <2>1. nbr \in Bytes /\ NewNbr \in Bytes
    BY OtherNumber DEF ClockInv, ClockState, Bytes
  <2>2. "hello" \in Kind /\ "ready" \in Kind /\ 0 \in Int /\ TRUE \in BOOLEAN
    BY DEF Kind
  <2>. QED
    BY <2>1, <2>2, LinkNumbered
\* A request is said.
<1>4. ASSUME NEW stage \in Asking, NEW n \in Bytes, NEW a \in Int, Ask(stage, n, a), UNCHANGED bounds
      PROVE  TypeInv'
  BY <1>0, <1>1, <1>2, <1>3, <1>4, AskTyped, ProgramTyped, CountsKept DEF TypeInv, bounds
\* The session is ended.
<1>5. ASSUME Finish, UNCHANGED pk
      PROVE  TypeInv'
  BY <1>0, <1>1, <1>2, <1>3, <1>5, FinishTyped, ProgramTyped, CountsKept DEF TypeInv
\* Anything else.
<1>6. ASSUME UNCHANGED <<pk, bounds>>, out' = out \/ \E p \in Numbered : Say(p),
             retry' = retry \/ (retry' = retry + 1 /\ retry < Retries)
      PROVE  TypeInv'
  BY <1>0, <1>1, <1>2, <1>3, <1>6, ProgramTyped, CountsKept DEF TypeInv, bounds
<1>7. CASE Unexpected \/ WaitAgain \/ NameFailed \/ Parted
  BY <1>n, <1>6, <1>7 DEF Unexpected, WaitAgain, Ready, NameFailed, Parted, Hang, Same
<1>8. CASE HelloAnswered \/ NameRead \/ ClockNotRead \/ ClockSet
  <2>1. UNCHANGED bounds /\ \E stage \in Asking : Ask(stage, NewNbr, 0)
    BY <1>8, AskingStages DEF HelloAnswered, NameRead, ClockNotRead, ClockSet, Same
  <2>. QED
    BY <1>n, <1>4, <2>1
<1>9. CASE ClockRead
  <2>1. packet \in Packets
    BY <1>9, ReadShows, Parts DEF ClockRead, Replied
  <2>2. 0 - packet.arg \in Int
    BY <2>1 DEF Packets
  <2>3. Ask("set", NewNbr, 0 - packet.arg) /\ UNCHANGED bounds
    BY <1>9 DEF ClockRead, Same
  <2>. QED
    BY <1>n, <1>4, <2>2, <2>3, AskingStages
<1>10. CASE GetClock
  <2>1. (Ask("upload", NewNbr, 0) /\ UNCHANGED bounds) \/ (Finish /\ UNCHANGED pk)
    BY <1>10 DEF GetClock
  <2>. QED
    BY <1>n, <1>4, <1>5, <2>1, AskingStages
<1>11. CASE Piece
  <2>1. (Ask("upload", nbr, foffset') /\ UNCHANGED bounds) \/ (Finish /\ UNCHANGED pk)
    BY <1>11 DEF Piece
  <2>2. foffset' \in Int
    BY <1>1, FileConstants DEF UploadTyped
  <2>. QED
    BY <1>n, <1>4, <1>5, <2>1, <2>2, AskingStages
<1>12. CASE NoFile
  BY <1>5, <1>12 DEF NoFile
<1>. QED
  BY <1>7, <1>8, <1>9, <1>10, <1>11, <1>12 DEF Work

\* The logger and the line: something is taken, read or lost, and something sent.
LEMMA LineTyped ==
    ASSUME TypeInv, IInv, ClockInv, Logger \/ AskForHello \/ Lose
    PROVE  TypeInv'
<1>0. UNCHANGED <<setClk, pk, retry, upload, clockSet, since>>
  BY DEF Logger, AnswerLink, AnswerRequest, AnswerReady, AskForHello, Lose, Program, clock
<1>1. out = <<>> \/ (request \in Numbered /\ Tail(out) \in Seq(Numbered))
  BY QueueTail DEF TypeInv, QueuesTyped, request
<1>2. CountsTyped'
  <2>1. /\ heard' \subseteq {"ring", "hello"}
    BY DEF TypeInv, CountsTyped, Logger, AnswerLink, AnswerRequest, AnswerReady, AskForHello, Lose,
           Hears, logger
  <2>2. /\ asks' = asks \/ (asks < MaxAsk /\ asks' = asks + 1)
        /\ losses' = losses \/ (losses < MaxLoss /\ losses' = losses + 1)
        /\ lostEnd' \in BOOLEAN
    <3>1. lostEnd \in BOOLEAN
      BY DEF TypeInv, CountsTyped
    <3>2. CASE Logger
      BY <3>1, <3>2 DEF Logger, AnswerLink, AnswerRequest, AnswerReady, bounds
    <3>3. CASE AskForHello
      BY <3>1, <3>3 DEF AskForHello
    <3>4. CASE Lose
      BY <3>1, <3>4 DEF Lose
    <3>. QED
      BY <3>2, <3>3, <3>4
  <2>3. asks' \in 0..MaxAsk /\ losses' \in 0..MaxLoss
    <3>1. MaxAsk \in Nat /\ MaxLoss \in Nat
      BY SessionAssumption
    <3>2. asks \in 0..MaxAsk /\ losses \in 0..MaxLoss
      BY DEF TypeInv, CountsTyped
    <3>. QED
      BY <2>2, <3>1, <3>2
  <2>. QED
    BY <1>0, <2>1, <2>2, <2>3 DEF TypeInv, CountsTyped
<1>3. ASSUME NEW CONSTANT p \in Numbered, out' = out \/ Taken,
             air' \in {air, Append(air, p)} \/ Arrives, last' = last \/ last' = <<p>>
      PROVE  TypeInv'
  <2>1. out' \in Seq(Numbered)
    BY <1>1, <1>3 DEF TypeInv, QueuesTyped, Taken
  <2>2. air' \in Seq(Numbered)
    <3>1. air \in Seq(Numbered)
      BY DEF TypeInv, QueuesTyped
    <3>2. CASE Arrives
      BY <3>1, <3>2, QueueTail DEF Arrives
    <3>3. CASE air' \in {air, Append(air, p)}
      BY <3>1, <3>3, QueueAppend
    <3>. QED
      BY <1>3, <3>2, <3>3
  <2>3. last' \in Seq(Numbered)
    BY <1>3, OnePacket DEF TypeInv, QueuesTyped
  <2>. QED
    BY <1>0, <1>2, <2>1, <2>2, <2>3 DEF TypeInv, QueuesTyped, UploadTyped, upload
<1>l. Link("helloRequest") \in Numbered
  BY DEF Link, Packet, Numbered, Kind, Bytes
<1>4. CASE AnswerLink
  <2>1. PICK p \in Numbered : Reply(p)
    <3>1. [request EXCEPT !.kind = AnswerTo[@]] \in Numbered
      <4>1. request \in Numbered /\ request.kind \in DOMAIN AnswerTo
        BY <1>1, <1>4 DEF AnswerLink, Taken
      <4>2. AnswerTo[request.kind] \in Kind
        BY <4>1 DEF AnswerTo, Kind
      <4>. QED
        BY <4>1, <4>2 DEF Numbered
    <3>. QED
      BY <1>4, <3>1 DEF AnswerLink
  <2>. QED
    BY <1>3, <1>4, <2>1 DEF AnswerLink, Reply
<1>5. CASE AnswerRequest
  <2>1. PICK p \in Numbered : Reply(p)
    <3>1. skew + since \in Int
      BY DEF IInv
    <3>2. request \in Numbered
      BY <1>1, <1>5 DEF AnswerRequest, Taken
    <3>3. /\ [request EXCEPT !.arg = skew + since] \in Numbered
          /\ [request EXCEPT !.ok = FALSE] \in Numbered
      BY <3>1, <3>2 DEF Numbered
    <3>. QED
      BY <1>5, <3>2, <3>3 DEF AnswerRequest
  <2>. QED
    BY <1>3, <1>5, <2>1 DEF AnswerRequest, Reply
<1>6. CASE AnswerReady
  <2>1. CASE UNCHANGED <<air, last>>
    BY <1>3, <1>6, <1>l, <2>1 DEF AnswerReady
  <2>2. CASE last # <<>> /\ Reply(last[1])
    <3>1. PICK p \in Numbered : p = last[1]
      BY <2>2, QueueTail DEF TypeInv, QueuesTyped
    <3>. QED
      BY <1>3, <1>6, <2>2, <3>1 DEF AnswerReady, Reply
  <2>. QED
    BY <1>6, <2>1, <2>2 DEF AnswerReady
<1>7. CASE AskForHello
  BY <1>3, <1>7, <1>l DEF AskForHello, logger
<1>8. CASE Lose
  <2>1. (out' = out /\ Arrives) \/ (air' = air /\ Taken)
    BY <1>8 DEF Lose, Arrives, Taken
  <2>. QED
    BY <1>3, <1>8, <1>l, <2>1 DEF Lose, logger
<1>. QED
  BY <1>4, <1>5, <1>6, <1>7, <1>8 DEF Logger

LEMMA TypeStep == IInv /\ ClockInv /\ FileInv /\ TypeInv /\ [Next]_vars => TypeInv'
<1>. SUFFICES ASSUME IInv, ClockInv, FileInv, TypeInv, [Next]_vars PROVE TypeInv'
  OBVIOUS
<1>1. CASE UNCHANGED vars
  BY <1>1 DEF vars, logger, clock, upload, bounds, TypeInv, QueuesTyped, CountsTyped, UploadTyped
<1>. QED
  BY <1>1, SetupTyped, WorkTyped, LineTyped DEF Next, Computer

\* Type correctness: transaction numbers stay bytes, every counter keeps its
\* bound, and the buffer of an upload holds bytes and never more than the file.
THEOREM SessionTypeCorrect == Spec => []TypeOK
<1>. QED
  BY TypeInvImplies, InitInvariant, InvariantKept, ClockInit, ClockStep, FileInit, FileStep,
     TypeInitially, TypeStep, PTL DEF Spec
=============================================================================
