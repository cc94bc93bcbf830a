------------------------------- MODULE Framing -------------------------------
(***************************************************************************)
(* The serial link under PakBus: how a packet becomes the bytes of a frame *)
(* (cr_send), how the bytes that a line brings become packets again        *)
(* (cr_rcv, pak_rcv), and the signature that tells a damaged one from a    *)
(* sound one (csi.c).  Bytes are numbers, so the signature and the quoting *)
(* are computed, not assumed.                                              *)
(*                                                                         *)
(* A frame has the same sync byte at both ends, so a receiver that misses  *)
(* one takes the end of each packet for the start of the next.  The line   *)
(* loses and changes bytes, and may be slow; the receiver is called again  *)
(* and again, as pak_spect does.                                           *)
(***************************************************************************)
EXTENDS Integers, Sequences, SequencesExt

CONSTANTS
    SoftAddr,   \* our PakBus address (soft_addr)
    Packet,     \* the packets that are sent, without their signature
    MaxLen,     \* the length of a frame that makes the program exit (1010)
    Noise,      \* bytes that a changed byte turns into
    MaxSend,    \* bound: packets sent
    MaxFault    \* bound: lost, changed and late bytes

Byte == 0..255

SERSYNCBYTE == 189      \* 0xbd
QUOTEBYTE   == 188      \* 0xbc

\* The address is what gcampda.conf says: nothing checks it.
ASSUME FramingAssumption ==
    /\ SoftAddr \in 0..65535
    /\ \A p \in Packet : p \in Seq(Byte) /\ Len(p) >= 4 /\ Len(p) + 2 <= MaxLen
    /\ MaxLen \in Nat
    /\ Noise \subseteq Byte
    /\ MaxSend \in Nat /\ MaxFault \in Nat

VARIABLES
    line,       \* the bytes on their way
    mode,       \* cr_rcv: "hunt" for a sync byte, "frame" inside one; the end of
                \* the program: "exit", or "hung" in the check of a signature
    buff,       \* the bytes of the frame so far
    quote,      \* 1 after a quote byte
    sent, got,  \* the packets sent and received
    owed,       \* history: to be received, unless the line damages something
    inPhase,    \* history: 1 if no fault since the line was last quiet
    faults

receiver == <<mode, buff, quote>>
vars     == <<line, receiver, sent, got, owed, inPhase, faults>>
-----------------------------------------------------------------------------
(* csi.c: the signature, 16 bits, as its two bytes.                     *)

\* (sig << 1) & 0x1ff, and the carry
Shifted(lo) == IF lo < 128 THEN 2 * lo ELSE (2 * lo) + 1

\* one turn of calc_sig_for
Mixed(hi, lo, b) == (Shifted(lo) + hi + b) % 256
SigByte(sig, b) == [hi |-> sig.lo, lo |-> Mixed(sig.hi, sig.lo, b)]

calc_sig_for(s, seed) == FoldLeft(SigByte, seed, s)

\* Mutant: the byte is not reduced to eight bits.
NullWide(hi, lo) == 256 - (Shifted(lo) + hi)

\* The byte that turns the low one of the next signature into zero.
Null(hi, lo) == (256 - (Shifted(lo) + hi)) % 256

Null1(sig) == Null(sig.hi, sig.lo)
Null2(sig) == Null1(SigByte(sig, Null1(sig)))

calc_sig_nullifier(sig) == <<Null1(sig), Null2(sig)>>

INITSED == [hi |-> 170, lo |-> 170]

\* PAK_ADD_SIG_NULLIFIER, PB_SET_SIG_NULLIFIER
Signed(p) == p \o calc_sig_nullifier(calc_sig_for(p, INITSED))

\* Mutant: the packet is taken as it comes.
AnySignature(a) == TRUE

\* Only for a that is as long as a signature.
pk_test_sig_nullifier(a) == a = Signed(SubSeq(a, 1, Len(a) - 2))
-----------------------------------------------------------------------------
(* The addresses of the header.  Of a frame shorter than the address, buff *)
(* still holds the sync byte that ended it, and then what malloc left.      *)
PB_GET_DST_ADDR(a) == (256 * (a[1] % 16)) + a[2]

AsRead(a, junk) == a \o <<SERSYNCBYTE, junk>>

ForUs(a, junk) == PB_GET_DST_ADDR(AsRead(a, junk)) \in {SoftAddr, 4095}
-----------------------------------------------------------------------------
Quoted(b) == IF b \in {QUOTEBYTE, SERSYNCBYTE} THEN <<QUOTEBYTE, b + 32>> ELSE <<b>>

AddQuoted(s, b) == s \o Quoted(b)

Frame(p) == Append(FoldLeft(AddQuoted, <<SERSYNCBYTE>>, p), SERSYNCBYTE)

\* The byte that a quoted one stands for; 256 for "unspected byte".
Unquoted(b) == CASE b = 221 -> SERSYNCBYTE [] b = 220 -> QUOTEBYTE [] OTHER -> 256
-----------------------------------------------------------------------------
Init ==
    /\ line = <<>>
    /\ mode = "hunt" /\ buff = <<>> /\ quote = 0
    /\ sent = <<>> /\ got = <<>>
    /\ owed = <<>> /\ inPhase = 1
    /\ faults = 0

Ended == mode \in {"exit", "hung"}

\* cr_rcv returns, with whatever result, and is called again.
Return == mode' = "hunt" /\ buff' = <<>> /\ quote' = 0

\* Mutant: a timeout leaves the frame open.
TimeoutKeeps == UNCHANGED receiver

TimedOut == Return

\* cr_send
Send(p) ==
    /\ ~Ended /\ Len(sent) < MaxSend
    /\ line' = line \o Frame(Signed(p))
    /\ sent' = Append(sent, Signed(p))
    /\ owed' = IF inPhase = 1 /\ ForUs(p, 0) THEN Append(owed, Signed(p)) ELSE owed
    /\ UNCHANGED <<receiver, got, inPhase, faults>>

-----------------------------------------------------------------------------
(* cr_rcv, one byte at a time.                                             *)
Read == line # <<>> /\ line' = Tail(line)

Hunt ==
    /\ mode = "hunt" /\ Read
    /\ IF Head(line) = SERSYNCBYTE
       THEN mode' = "frame" /\ buff' = <<>> /\ quote' = 0
       ELSE UNCHANGED receiver
    /\ UNCHANGED <<sent, got, owed, inPhase, faults>>

QuoteRead ==
    /\ mode = "frame" /\ Read /\ Head(line) = QUOTEBYTE
    /\ quote' = 1
    /\ UNCHANGED <<mode, buff, sent, got, owed, inPhase, faults>>

\* The byte joins the frame; too long a frame ends the program.
Take(b) ==
    /\ buff' = Append(buff, b) /\ quote' = 0
    /\ mode' = IF Len(buff') > MaxLen THEN "exit" ELSE "frame"

ByteRead ==
    /\ mode = "frame" /\ Read /\ Head(line) \in Byte \ {QUOTEBYTE, SERSYNCBYTE}
    /\ IF quote = 0 THEN Take(Head(line))
       ELSE IF Unquoted(Head(line)) \in Byte THEN Take(Unquoted(Head(line)))
       ELSE Return
    /\ UNCHANGED <<sent, got, owed, inPhase, faults>>

EndRead ==
    /\ mode = "frame" /\ Read /\ Head(line) = SERSYNCBYTE

\* The frame is not for us, or its signature is wrong: -3, -2.
Refused ==
    /\ EndRead
    /\ \E junk \in Byte :
           ForUs(buff, junk) => Len(buff) >= 2 /\ ~pk_test_sig_nullifier(buff)
    /\ Return
    /\ UNCHANGED <<sent, got, owed, inPhase, faults>>

Received ==
    /\ EndRead
    /\ Len(buff) >= 2 /\ ForUs(buff, 0) /\ pk_test_sig_nullifier(buff)
    /\ got' = Append(got, buff)
    /\ owed' = IF owed # <<>> /\ Head(owed) = buff THEN Tail(owed) ELSE owed
    /\ Return
    /\ UNCHANGED <<sent, inPhase, faults>>

\* The frame is too short for a signature, and what stands in its place looks
\* like an address of ours.  The length given to calc_sig_for wraps, and its 16
\* bit counter never gets there.
Hangs ==
    /\ EndRead
    /\ Len(buff) < 2 /\ \E junk \in Byte : ForUs(buff, junk)
    /\ mode' = "hung"
    /\ UNCHANGED <<buff, quote, sent, got, owed, inPhase, faults>>

\* hw_read: nothing has come for global_timeout seconds.  All is quiet.
Timeout ==
    /\ ~Ended /\ line = <<>>
    /\ TimedOut
    /\ inPhase' = 1
    /\ UNCHANGED <<line, sent, got, owed, faults>>
-----------------------------------------------------------------------------
(* The line.  Nothing is owed any more of what has been sent.              *)
Damage ==
    /\ faults < MaxFault /\ faults' = faults + 1
    /\ owed' = <<>>
    /\ UNCHANGED <<sent, got>>

LoseByte ==
    /\ Damage
    /\ \E i \in DOMAIN line : line' = RemoveAt(line, i)
    /\ inPhase' = 0
    /\ UNCHANGED receiver

ChangeByte ==
    /\ Damage
    /\ \E i \in DOMAIN line, b \in Noise : line' = [line EXCEPT ![i] = b]
    /\ inPhase' = 0
    /\ UNCHANGED receiver

\* The line is so slow that the receiver gives up in the middle of a frame.
SlowLine ==
    /\ Damage
    /\ mode = "frame" /\ line # <<>>
    /\ TimedOut
    /\ inPhase' = 0
    /\ UNCHANGED line
-----------------------------------------------------------------------------
Receive == Hunt \/ QuoteRead \/ ByteRead \/ Refused \/ Received \/ Hangs \/ Timeout

Next ==
    \/ \E p \in Packet : Send(p)
    \/ Receive
    \/ LoseByte \/ ChangeByte \/ SlowLine

Spec == Init /\ [][Next]_vars

-----------------------------------------------------------------------------
TypeOK ==
    /\ line \in Seq(Byte)
    /\ mode \in {"hunt", "frame", "exit", "hung"}
    /\ buff \in Seq(Byte) /\ quote \in {0, 1}
    /\ sent \in Seq(Seq(Byte)) /\ got \in Seq(Seq(Byte)) /\ owed \in Seq(Seq(Byte))
    /\ inPhase \in {0, 1}
    /\ faults \in 0..MaxFault

\* a is the packet p, or p with zeros behind it: those keep the signature.
Lengthened(a, p) == IsPrefix(p, a) /\ \A i \in Len(p) + 1..Len(a) : a[i] = 0

\* What is received was sent, to us, in that order and as often, whatever bytes
\* the line loses or changes: no damaged packet, no two packets in one, no end
\* of one packet with the start of the next.  Only zeros may have come to stand
\* behind a packet (when its last sync byte turned into one).
Genuine ==
    \E f \in [DOMAIN got -> DOMAIN sent] :
        \A i \in DOMAIN got :
            /\ Lengthened(got[i], sent[f[i]])
            /\ ForUs(got[i], 0)
            /\ \A j \in 1..i - 1 : f[j] < f[i]

\* A lost sync byte puts the receiver out of phase, and it takes each packet
\* for the gap between two; but unless the program ends over that, once the line
\* has been quiet for the time of a timeout every packet sent to us arrives,
\* until the next fault.
Recovered == line = <<>> => owed = <<>>

\* In phase the receiver takes nothing but the next packet sent to us: not one for
\* another node, not a part of one; no frame grows too long (the end of the
\* program), and none is so short that the check of its signature hangs, whatever
\* our address.  Unlike Genuine, this holds whatever bytes the packets are made of.
NothingElse ==
    [][inPhase = 1 =>
          /\ ~Ended'
          /\ got' # got => /\ owed # <<>> /\ owed' = Tail(owed)
                           /\ got' = Append(got, Head(owed))]_vars
=============================================================================
