---------------------------- MODULE FramingProofs ----------------------------
(***************************************************************************)
(* Proofs about Framing: what the signature of csi.c detects, for every    *)
(* signature, byte and packet; that quoting is undone; that cr_rcv never   *)
(* goes into the check of a frame too short for it; and that a receiver in *)
(* phase receives all it is owed, for every address, packet, number of     *)
(* packets and number of faults.                                           *)
(***************************************************************************)
EXTENDS Framing, SequenceTheorems, TLAPS

Signature == [hi : Byte, lo : Byte]
-----------------------------------------------------------------------------
(* The signature.                                                          *)

\* Its arithmetic, for one byte b after a signature with the bytes h and l.
LEMMA MixedByte ==
    ASSUME NEW h \in Byte, NEW l \in Byte, NEW b \in Byte
    PROVE  Mixed(h, l, b) \in Byte
BY DEF Mixed, Shifted, Byte

LEMMA NullByte ==
    ASSUME NEW h \in Byte, NEW l \in Byte
    PROVE  Null(h, l) \in Byte
BY DEF Null, Shifted, Byte

LEMMA NullMixed ==
    ASSUME NEW h \in Byte, NEW l \in Byte
    PROVE  Mixed(h, l, Null(h, l)) = 0
<1>. DEFINE c == Shifted(l) + h
<1>1. c \in Nat
  BY DEF Shifted, Byte
<1>. HIDE DEF c
<1>2. (c + ((256 - c) % 256)) % 256 = 0
  BY <1>1
<1>. QED
  BY <1>2 DEF Mixed, Null, c

LEMMA ResidueInjective ==
    ASSUME NEW x \in Nat, NEW y \in Nat, x <= y, y <= x + 255, x % 256 = y % 256
    PROVE  x = y
OBVIOUS

LEMMA SumInjective ==
    ASSUME NEW x \in Nat, NEW b \in Byte, NEW b2 \in Byte,
           (x + b) % 256 = (x + b2) % 256
    PROVE  b = b2
<1>1. /\ x + b \in Nat /\ x + b2 \in Nat
      /\ x + b <= x + b2 + 255 /\ x + b2 <= x + b + 255
  BY DEF Byte
<1>2. x + b <= x + b2 \/ x + b2 <= x + b
  BY DEF Byte
<1>3. x + b = x + b2
  BY <1>1, <1>2, ResidueInjective
<1>. QED
  BY <1>3 DEF Byte

LEMMA MixedInjective ==
    ASSUME NEW h \in Byte, NEW l \in Byte, NEW b \in Byte,
           NEW h2 \in Byte, NEW b2 \in Byte
    PROVE  /\ Mixed(h, l, b) = Mixed(h, l, b2) => b = b2
           /\ Mixed(h, l, b) = Mixed(h2, l, b) => h = h2
<1>0. Shifted(l) \in Nat
  BY DEF Shifted, Byte
<1>1. ASSUME Mixed(h, l, b) = Mixed(h, l, b2) PROVE b = b2
  <2>1. Shifted(l) + h \in Nat
    BY <1>0 DEF Byte
  <2>. QED
    BY <1>1, <2>1, SumInjective DEF Mixed
<1>2. ASSUME Mixed(h, l, b) = Mixed(h2, l, b) PROVE h = h2
  <2>1. Shifted(l) + b \in Nat
    BY <1>0 DEF Byte
  <2>2. /\ Shifted(l) + h + b = Shifted(l) + b + h
        /\ Shifted(l) + h2 + b = Shifted(l) + b + h2
    BY <1>0 DEF Byte
  <2>. QED
    BY <1>2, <2>1, <2>2, SumInjective DEF Mixed
<1>. QED
  BY <1>1, <1>2

LEMMA NullInjective ==
    ASSUME NEW h \in Byte, NEW l \in Byte, NEW h2 \in Byte, Null(h, l) = Null(h2, l)
    PROVE  h = h2
BY NullByte, NullMixed, MixedInjective

LEMMA ZeroByte == 0 \in Byte
BY DEF Byte

LEMMA SignatureBytes ==
    ASSUME NEW s \in Signature
    PROVE  s.hi \in Byte /\ s.lo \in Byte /\ s = [hi |-> s.hi, lo |-> s.lo]
BY DEF Signature

LEMMA SigByteType ==
    ASSUME NEW sig \in Signature, NEW b \in Byte
    PROVE  SigByte(sig, b) \in Signature
<1>1. Mixed(sig.hi, sig.lo, b) \in Byte
  BY SignatureBytes, MixedByte
<1>. QED
  BY <1>1, SignatureBytes DEF SigByte, Signature

\* The first byte of a nullifier clears the low byte of the signature, and
\* moves the old one up.
LEMMA Null1Clears ==
    ASSUME NEW sig \in Signature
    PROVE  /\ Null1(sig) \in Byte
           /\ SigByte(sig, Null1(sig)) = [hi |-> sig.lo, lo |-> 0]
BY SignatureBytes, NullByte, NullMixed DEF Null1, SigByte

\* "The calculation is designed to cause the least significant byte in the
\* signature to become zero" (csi.c, calc_sig_nullifier): over both bytes of
\* the nullifier every signature becomes zero.
THEOREM NullifierCancels ==
    ASSUME NEW sig \in Signature
    PROVE  /\ Null1(sig) \in Byte /\ Null2(sig) \in Byte
           /\ SigByte(SigByte(sig, Null1(sig)), Null2(sig)) = [hi |-> 0, lo |-> 0]
<1>1. PICK next \in Signature : next = [hi |-> sig.lo, lo |-> 0]
  BY SignatureBytes, ZeroByte DEF Signature
<1>2. /\ Null1(sig) \in Byte
      /\ SigByte(sig, Null1(sig)) = next
  BY <1>1, Null1Clears
<1>3. /\ Null1(next) \in Byte
      /\ SigByte(next, Null1(next)) = [hi |-> 0, lo |-> 0]
  BY <1>1, Null1Clears
<1>. QED
  BY <1>2, <1>3 DEF Null2

\* Zeros behind a signed packet do not change its signature: this is why a last
\* sync byte that turns into a zero leaves a packet that passes (Lengthened).
THEOREM ZeroUnnoticed ==
    LET zero == [hi |-> 0, lo |-> 0]
    IN  SigByte(zero, 0) = zero /\ calc_sig_nullifier(zero) = <<0, 0>>
<1>1. Mixed(0, 0, 0) = 0 /\ Null(0, 0) = 0
  BY DEF Mixed, Null, Shifted
<1>. QED
  BY <1>1 DEF SigByte, calc_sig_nullifier, Null1, Null2

\* Another byte at one place of a packet gives another signature, and so does
\* another signature of what stands before it; and the nullifiers of different
\* signatures differ.  So no packet with one changed byte passes the test.
THEOREM ChangeNoticed ==
    ASSUME NEW s1 \in Signature, NEW s2 \in Signature, NEW b1 \in Byte, NEW b2 \in Byte
    PROVE  /\ SigByte(s1, b1) = SigByte(s1, b2) => b1 = b2
           /\ SigByte(s1, b1) = SigByte(s2, b1) => s1 = s2
           /\ calc_sig_nullifier(s1) = calc_sig_nullifier(s2) => s1 = s2
<1>t. /\ s1.hi \in Byte /\ s1.lo \in Byte /\ s1 = [hi |-> s1.hi, lo |-> s1.lo]
      /\ s2.hi \in Byte /\ s2.lo \in Byte /\ s2 = [hi |-> s2.hi, lo |-> s2.lo]
  BY SignatureBytes
<1>1. ASSUME SigByte(s1, b1) = SigByte(s1, b2) PROVE b1 = b2
  <2>1. Mixed(s1.hi, s1.lo, b1) = Mixed(s1.hi, s1.lo, b2)
    BY <1>1 DEF SigByte
  <2>. QED
    BY <2>1, <1>t, MixedInjective
<1>2. ASSUME SigByte(s1, b1) = SigByte(s2, b1) PROVE s1 = s2
  <2>1. s1.lo = s2.lo /\ Mixed(s1.hi, s1.lo, b1) = Mixed(s2.hi, s1.lo, b1)
    BY <1>2 DEF SigByte
  <2>2. s1.hi = s2.hi
    BY <2>1, <1>t, MixedInjective
  <2>. QED
    BY <2>1, <2>2, <1>t
<1>3. ASSUME calc_sig_nullifier(s1) = calc_sig_nullifier(s2) PROVE s1 = s2
  <2>1. Null1(s1) = Null1(s2) /\ Null2(s1) = Null2(s2)
    BY <1>3 DEF calc_sig_nullifier
  <2>2. Null2(s1) = Null(s1.lo, 0) /\ Null2(s2) = Null(s2.lo, 0)
    <3>1. SigByte(s1, Null1(s1)) = [hi |-> s1.lo, lo |-> 0]
      BY Null1Clears
    <3>2. SigByte(s2, Null1(s2)) = [hi |-> s2.lo, lo |-> 0]
      BY Null1Clears
    <3>3. Null1([hi |-> s1.lo, lo |-> 0]) = Null(s1.lo, 0)
      BY DEF Null1
    <3>4. Null1([hi |-> s2.lo, lo |-> 0]) = Null(s2.lo, 0)
      BY DEF Null1
    <3>. QED
      BY <3>1, <3>2, <3>3, <3>4 DEF Null2
  <2>3. s1.lo = s2.lo
    BY <2>1, <2>2, <1>t, ZeroByte, NullInjective
  <2>4. s1.hi = s2.hi
    BY <2>1, <2>3, <1>t, NullInjective DEF Null1
  <2>. QED
    BY <2>3, <2>4, <1>t
<1>. QED
  BY <1>1, <1>2, <1>3
-----------------------------------------------------------------------------
\* A quoted byte is two bytes of the line, neither of them a sync byte, and the
\* second stands for it; any other byte is itself.
THEOREM QuotingUndone ==
    ASSUME NEW b \in Byte
    PROVE  \/ /\ Quoted(b) = <<QUOTEBYTE, b + 32>>
              /\ b + 32 \in Byte \ {QUOTEBYTE, SERSYNCBYTE}
              /\ Unquoted(b + 32) = b
           \/ /\ Quoted(b) = <<b>>
              /\ b \notin {QUOTEBYTE, SERSYNCBYTE}
BY DEF Quoted, Unquoted, Byte, QUOTEBYTE, SERSYNCBYTE
-----------------------------------------------------------------------------
Sig == INSTANCE FoldProofs WITH Op <- SigByte
Quo == INSTANCE FoldProofs WITH Op <- AddQuoted
-----------------------------------------------------------------------------
(* Whole packets: the folds of calc_sig_for and cr_send over their bytes.  *)
LEMMA SigFold ==
    ASSUME NEW s, NEW seed PROVE calc_sig_for(s, seed) = Sig!Fold(seed, s)
BY DEF calc_sig_for, FoldLeft, MapThenFoldSet, Max,
       Sig!Fold, Sig!FoldLeft, Sig!MapThenFoldSet, Sig!Max

LEMMA SigClosed == Sig!Closed(Signature, Byte)
BY SigByteType DEF Sig!Closed

LEMMA SeedType == INITSED \in Signature
BY DEF INITSED, Signature, Byte

LEMMA SigType ==
    ASSUME NEW s \in Seq(Byte), NEW seed \in Signature
    PROVE  calc_sig_for(s, seed) \in Signature
BY SigFold, SigClosed, Sig!FoldIn

LEMMA NullifierType ==
    ASSUME NEW sig \in Signature
    PROVE  /\ Null1(sig) \in Byte /\ Null2(sig) \in Byte
           /\ calc_sig_nullifier(sig) \in Seq(Byte) /\ Len(calc_sig_nullifier(sig)) = 2
           /\ calc_sig_nullifier(sig)[1] = Null1(sig)
           /\ calc_sig_nullifier(sig)[2] = Null2(sig)
<1>1. Null1(sig) \in Byte /\ Null2(sig) \in Byte
  BY NullifierCancels
<1>. QED
  BY <1>1 DEF calc_sig_nullifier

LEMMA SignedIs ==
    ASSUME NEW p \in Seq(Byte)
    PROVE  /\ Signed(p) \in Seq(Byte) /\ Len(Signed(p)) = Len(p) + 2
           /\ \A k \in 1..Len(p) : Signed(p)[k] = p[k]
           /\ SubSeq(Signed(p), 1, Len(p)) = p
<1>1. PICK n \in Seq(Byte) : n = calc_sig_nullifier(calc_sig_for(p, INITSED)) /\ Len(n) = 2
  BY SeedType, SigType, NullifierType
<1>2. p \o n \in Seq(Byte) /\ Len(p \o n) = Len(p) + Len(n)
  BY ConcatProperties
<1>c. \A k \in 1..Len(p) : (p \o n)[k] = p[k]
  BY <1>2, ConcatProperties
<1>d. PICK t \in Seq(Byte) : t = p \o n
  BY <1>2
<1>3. Len(t) = Len(p) + 2 /\ \A k \in 1..Len(p) : t[k] = p[k]
  BY <1>1, <1>2, <1>c, <1>d
<1>4. SubSeq(t, 1, Len(p)) = p
  BY <1>3
<1>. QED
  BY <1>1, <1>d, <1>3, <1>4 DEF Signed

LEMMA Behind ==
    ASSUME NEW s \in Seq(Byte), NEW t \in Seq(Byte), Len(t) = 2
    PROVE  (s \o t)[Len(s) + 1] = t[1] /\ (s \o t)[Len(s) + 2] = t[2]
<1>1. Len(s) + 1 > Len(s) /\ Len(s) + 2 > Len(s) /\ Len(s) \in Nat
      /\ (Len(s) + 1) - Len(s) = 1 /\ (Len(s) + 2) - Len(s) = 2
      /\ Len(s) + 1 \in 1..(Len(s) + Len(t)) /\ Len(s) + 2 \in 1..(Len(s) + Len(t))
  OBVIOUS
<1>2. \A k \in 1..(Len(s) + Len(t)) : k > Len(s) => (s \o t)[k] = t[k - Len(s)]
  <2>. TAKE k \in 1..(Len(s) + Len(t))
  <2>. HAVE k > Len(s)
  <2>1. ~(k <= Len(s))
    BY <1>1
  <2>. QED
    BY <2>1, ConcatProperties
<1>. QED
  BY <1>1, <1>2

LEMMA SignedPasses ==
    ASSUME NEW p \in Seq(Byte) PROVE pk_test_sig_nullifier(Signed(p))
<1>1. Len(Signed(p)) - 2 = Len(p)
  BY SignedIs
<1>. QED
  BY <1>1, SignedIs DEF pk_test_sig_nullifier

\* What cr_send puts behind a packet turns the signature of the whole into zero,
\* whatever the packet.
THEOREM SignedCancels ==
    ASSUME NEW p \in Seq(Byte)
    PROVE  calc_sig_for(Signed(p), INITSED) = [hi |-> 0, lo |-> 0]
<1>1. PICK sig \in Signature : sig = calc_sig_for(p, INITSED)
  BY SeedType, SigType
<1>2. PICK n1, n2 \in Byte : n1 = Null1(sig) /\ n2 = Null2(sig)
  BY NullifierType
<1>3. Signed(p) = Append(Append(p, n1), n2)
  <2>1. Signed(p) = p \o <<n1, n2>>
    BY <1>1, <1>2 DEF Signed, calc_sig_nullifier
  <2>. QED
    BY <2>1
<1>4. Sig!Fold(INITSED, Append(p, n1)) = SigByte(sig, n1)
  BY <1>1, SeedType, SigClosed, SigFold, Sig!FoldAppend
<1>5. Append(p, n1) \in Seq(Byte)
  OBVIOUS
<1>6. PICK t \in Seq(Byte) : t = Append(p, n1)
  BY <1>5
<1>7. Sig!Fold(INITSED, Append(t, n2)) = SigByte(Sig!Fold(INITSED, t), n2)
  BY SeedType, SigClosed, Sig!FoldAppend
<1>. QED
  BY <1>2, <1>3, <1>4, <1>6, <1>7, SigFold, NullifierCancels
-----------------------------------------------------------------------------
LEMMA SameEnd ==
    ASSUME NEW n \in Nat, NEW m \in 1..n, NEW r, NEW q, NEW s, NEW t,
           r \in [0..n -> Signature], q \in [0..n -> Signature],
           \A k \in 1..n : s[k] \in Byte /\ t[k] \in Byte,
           Sig!IsRun(r, n, INITSED, s), Sig!IsRun(q, n, INITSED, t),
           s[m] # t[m], \A k \in 1..n : k # m => s[k] = t[k]
    PROVE  r[n] # q[n]
<1>. DEFINE S == {k \in Nat : (k < m => r[k] = q[k]) /\ (m <= k => r[k] # q[k])}
<1>1. 0 \in S
  BY DEF Sig!IsRun
<1>2. ASSUME NEW k \in 0..(n - 1), k \in S PROVE k + 1 \in S
  <2>1. k + 1 \in 1..n /\ (k + 1) - 1 = k /\ k \in 0..n /\ k + 1 \in Nat
    OBVIOUS
  <2>2. r[k] \in Signature /\ q[k] \in Signature /\ s[k + 1] \in Byte /\ t[k + 1] \in Byte
    BY <2>1
  <2>3. r[k + 1] = SigByte(r[k], s[k + 1]) /\ q[k + 1] = SigByte(q[k], t[k + 1])
    BY <2>1 DEF Sig!IsRun
  <2>4. CASE k + 1 < m
    <3>1. r[k] = q[k] /\ s[k + 1] = t[k + 1]
      BY <1>2, <2>1, <2>4
    <3>. QED
      BY <2>1, <2>3, <2>4, <3>1
  <2>5. CASE k + 1 = m
    <3>1. r[k] = q[k] /\ s[k + 1] # t[k + 1]
      BY <1>2, <2>1, <2>5
    <3>2. r[k + 1] # q[k + 1]
      BY <2>2, <2>3, <3>1, ChangeNoticed
    <3>. QED
      BY <2>1, <2>5, <3>2
  <2>6. CASE m < k + 1
    <3>1. r[k] # q[k] /\ s[k + 1] = t[k + 1]
      BY <1>2, <2>1, <2>6
    <3>2. r[k + 1] # q[k + 1]
      BY <2>2, <2>3, <3>1, ChangeNoticed
    <3>. QED
      BY <2>1, <2>6, <3>2
  <2>. QED
    BY <2>1, <2>4, <2>5, <2>6
<1>. HIDE DEF S
<1>3. \A k \in 0..(n - 1) : k \in S => k + 1 \in S
  BY <1>2
<1>4. \A k \in 0..n : k \in S
  BY <1>1, <1>3, Sig!InductionUpTo
<1>. QED
  BY <1>4 DEF S

\* No packet with one byte changed, be it of the signature or not, passes the
\* test of the receiver.
THEOREM OneChangeRefused ==
    ASSUME NEW p \in Seq(Byte), NEW i \in 1..Len(p) + 2, NEW b \in Byte, Signed(p)[i] # b
    PROVE  ~pk_test_sig_nullifier([Signed(p) EXCEPT ![i] = b])
<1>. DEFINE n == Len(p)
<1>1. PICK a : a = [Signed(p) EXCEPT ![i] = b]
  OBVIOUS
<1>2. /\ a \in Seq(Byte) /\ Len(a) = n + 2 /\ n \in Nat
      /\ a[i] = b /\ \A k \in 1..n + 2 : k # i => a[k] = Signed(p)[k]
  BY <1>1, SignedIs
<1>3. PICK q : q = SubSeq(a, 1, n)
  OBVIOUS
<1>4. q \in Seq(Byte) /\ Len(q) = n /\ \A k \in 1..n : q[k] = a[k]
  BY <1>2, <1>3
<1>. SUFFICES ASSUME a = Signed(q) PROVE FALSE
  <2>1. Len(a) - 2 = n
    BY <1>2
  <2>. QED
    BY <1>1, <1>3, <2>1 DEF pk_test_sig_nullifier
<1>s. /\ Signed(p) \in Seq(Byte) /\ Len(Signed(p)) = n + 2
      /\ \A k \in 1..n : k \in 1..n + 2 /\ Signed(p)[k] = p[k]
  BY SignedIs
<1>5. CASE i > n
  <2>1. \A k \in 1..n : q[k] = p[k]
    BY <1>2, <1>4, <1>5, <1>s
  <2>2. q = p
    BY <1>4, <2>1
  <2>. QED
    BY <1>2, <2>2
<1>6. CASE i <= n
  <2>1. \A k \in 1..n : k # i => q[k] = p[k]
    BY <1>2, <1>4, <1>s
  <2>0. i \in 1..n
    BY <1>2, <1>6
  <2>2. q[i] # p[i]
    BY <1>2, <1>4, <1>s, <2>0
  <2>3. PICK u, v \in Signature : u = calc_sig_for(q, INITSED) /\ v = calc_sig_for(p, INITSED)
    BY <1>4, SeedType, SigType
  <2>4. /\ Signed(q)[n + 1] = Null1(u) /\ Signed(q)[n + 2] = Null2(u)
        /\ Signed(p)[n + 1] = Null1(v) /\ Signed(p)[n + 2] = Null2(v)
    <3>1. calc_sig_nullifier(u) \in Seq(Byte) /\ Len(calc_sig_nullifier(u)) = 2
      BY NullifierType
    <3>2. calc_sig_nullifier(v) \in Seq(Byte) /\ Len(calc_sig_nullifier(v)) = 2
      BY NullifierType
    <3>3. Signed(q) = q \o calc_sig_nullifier(u) /\ Signed(p) = p \o calc_sig_nullifier(v)
      BY <2>3 DEF Signed
    <3>4. /\ Signed(q)[n + 1] = calc_sig_nullifier(u)[1]
          /\ Signed(q)[n + 2] = calc_sig_nullifier(u)[2]
      BY <1>4, <3>1, <3>3, Behind
    <3>5. /\ Signed(p)[n + 1] = calc_sig_nullifier(v)[1]
          /\ Signed(p)[n + 2] = calc_sig_nullifier(v)[2]
      BY <3>2, <3>3, Behind
    <3>. QED
      BY <3>4, <3>5, NullifierType
  <2>5. Null1(u) = Null1(v) /\ Null2(u) = Null2(v)
    <3>1. n + 1 \in 1..n + 2 /\ n + 2 \in 1..n + 2 /\ n + 1 # i /\ n + 2 # i
      BY <1>2, <1>6
    <3>. QED
      BY <1>2, <2>4, <3>1
  <2>6. u = v
    BY <2>5, ChangeNoticed DEF calc_sig_nullifier
  <2>7. PICK r \in [0..n -> Signature] : Sig!IsRun(r, n, INITSED, p) /\ v = r[n]
    BY <2>3, SeedType, SigClosed, SigFold, Sig!FoldRun DEF Sig!HasRun
  <2>8. PICK s \in [0..n -> Signature] : Sig!IsRun(s, n, INITSED, q) /\ u = s[n]
    <3>1. Sig!HasRun(Signature, INITSED, q)
      BY <1>4, SeedType, SigClosed, Sig!FoldRun
    <3>. QED
      BY <1>4, <2>3, <3>1, SigFold DEF Sig!HasRun
  <2>9. \A k \in 1..n : p[k] \in Byte /\ q[k] \in Byte
    BY <1>4
  <2>10. \A k \in 1..n : k # i => p[k] = q[k]
    BY <2>1
  <2>11. p[i] # q[i]
    BY <2>2
  <2>12. n \in Nat
    BY <1>2
  <2>. HIDE DEF n
  <2>13. r[n] # s[n]
    BY <2>0, <2>7, <2>8, <2>9, <2>10, <2>11, <2>12, SameEnd
  <2>. QED
    BY <2>6, <2>7, <2>8, <2>13
<1>. QED
  BY <1>5, <1>6
-----------------------------------------------------------------------------
(* Frames: what cr_send makes of a packet.                                 *)
LEMMA QuoFrame ==
    ASSUME NEW p PROVE Frame(p) = Append(Quo!Fold(<<SERSYNCBYTE>>, p), SERSYNCBYTE)
BY DEF Frame, FoldLeft, MapThenFoldSet, Max,
       Quo!Fold, Quo!FoldLeft, Quo!MapThenFoldSet, Quo!Max

LEMMA SpecialBytes ==
    /\ SERSYNCBYTE \in Byte /\ QUOTEBYTE \in Byte /\ SERSYNCBYTE # QUOTEBYTE
    /\ <<SERSYNCBYTE>> \in Seq(Byte)
BY DEF SERSYNCBYTE, QUOTEBYTE, Byte

LEMMA QuotedType ==
    ASSUME NEW b \in Byte PROVE Quoted(b) \in Seq(Byte)
<1>1. CASE Quoted(b) = <<QUOTEBYTE, b + 32>> /\ b + 32 \in Byte
  <2>1. PICK c \in Byte : c = b + 32
    BY <1>1
  <2>2. <<QUOTEBYTE, c>> \in Seq(Byte)
    BY SpecialBytes
  <2>. QED
    BY <1>1, <2>1, <2>2
<1>2. CASE Quoted(b) = <<b>>
  BY <1>2
<1>. QED
  BY <1>1, <1>2, QuotingUndone

LEMMA QuoClosed == Quo!Closed(Seq(Byte), Byte)
BY QuotedType, ConcatProperties DEF Quo!Closed, AddQuoted

LEMMA FrameType ==
    ASSUME NEW p \in Seq(Byte) PROVE Frame(p) \in Seq(Byte)
<1>1. PICK t \in Seq(Byte) : t = Quo!Fold(<<SERSYNCBYTE>>, p)
  BY QuoClosed, SpecialBytes, Quo!FoldIn
<1>2. Append(t, SERSYNCBYTE) \in Seq(Byte)
  BY SpecialBytes
<1>. QED
  BY <1>1, <1>2, QuoFrame

-----------------------------------------------------------------------------
LEMMA TypeInit == Init => TypeOK
<1>1. MaxFault \in Nat
  BY FramingAssumption
<1>2. <<>> \in Seq(Byte) /\ <<>> \in Seq(Seq(Byte))
  OBVIOUS
<1>. QED
  BY <1>1, <1>2 DEF Init, TypeOK

LEMMA TypeStep == TypeOK /\ [Next]_vars => TypeOK'
<1>. SUFFICES ASSUME TypeOK, [Next]_vars PROVE TypeOK'
  OBVIOUS
<1>. USE DEF receiver
<1>1. ASSUME NEW p \in Packet, Send(p) PROVE TypeOK'
  <2>1. p \in Seq(Byte)
    BY FramingAssumption
  <2>2. PICK x \in Seq(Byte) : x = Signed(p)
    BY <2>1, SignedIs
  <2>3. PICK y \in Seq(Byte) : y = Frame(x)
    BY FrameType
  <2>4. line \o y \in Seq(Byte) /\ Append(sent, x) \in Seq(Seq(Byte)) /\ Append(owed, x) \in Seq(Seq(Byte))
    BY DEF TypeOK
  <2>. QED
    BY <1>1, <2>2, <2>3, <2>4 DEF Send, TypeOK
<1>2. ASSUME Read PROVE line' \in Seq(Byte) /\ Head(line) \in Byte
  BY <1>2 DEF Read, TypeOK
<1>3. ASSUME NEW b \in Byte, Take(b)
      PROVE  mode' \in {"frame", "exit"} /\ buff' \in Seq(Byte) /\ quote' \in {0, 1}
  BY <1>3 DEF Take, TypeOK
<1>4. ASSUME Return
      PROVE  mode' = "hunt" /\ buff' \in Seq(Byte) /\ quote' \in {0, 1}
  BY <1>4 DEF Return
<1>5. CASE Hunt
  <2>1. CASE Head(line) = SERSYNCBYTE
    BY <1>5, <2>1, <1>2 DEF Hunt, TypeOK
  <2>2. CASE Head(line) # SERSYNCBYTE
    BY <1>5, <2>2, <1>2 DEF Hunt, TypeOK
  <2>. QED
    BY <2>1, <2>2
<1>6. CASE QuoteRead
  BY <1>6, <1>2 DEF QuoteRead, TypeOK
<1>7. CASE ByteRead
  <2>1. mode' \in {"hunt", "frame", "exit"} /\ buff' \in Seq(Byte) /\ quote' \in {0, 1}
    BY <1>7, <1>2, <1>3, <1>4 DEF ByteRead
  <2>. QED
    BY <1>7, <2>1, <1>2 DEF ByteRead, TypeOK
<1>8. CASE Refused
  BY <1>8, <1>2, <1>4 DEF Refused, EndRead, TypeOK
<1>9. CASE Received
  <2>1. owed' \in Seq(Seq(Byte)) /\ got' \in Seq(Seq(Byte))
    BY <1>9 DEF Received, TypeOK
  <2>. QED
    BY <1>9, <2>1, <1>2, <1>4 DEF Received, EndRead, TypeOK
<1>10. CASE Timeout
  BY <1>10, <1>4 DEF Timeout, TimedOut, TypeOK
<1>11. ASSUME Damage
       PROVE  faults' \in 0..MaxFault /\ owed' \in Seq(Seq(Byte))
              /\ sent' \in Seq(Seq(Byte)) /\ got' \in Seq(Seq(Byte))
  BY <1>11, FramingAssumption DEF Damage, TypeOK
<1>12. CASE LoseByte
  <2>1. PICK i \in DOMAIN line : line' = RemoveAt(line, i)
    BY <1>12 DEF LoseByte
  <2>2. line \in Seq(Byte) /\ i \in 1..Len(line)
    BY <2>1 DEF TypeOK
  <2>3. SubSeq(line, 1, i - 1) \in Seq(Byte) /\ SubSeq(line, i + 1, Len(line)) \in Seq(Byte)
    BY <2>2, SubSeqProperties
  <2>4. line' \in Seq(Byte)
    BY <2>1, <2>3, ConcatProperties DEF RemoveAt
  <2>. QED
    BY <1>11, <1>12, <2>4 DEF LoseByte, TypeOK
<1>13. CASE ChangeByte
  <2>1. PICK i \in DOMAIN line, b \in Noise : line' = [line EXCEPT ![i] = b]
    BY <1>13 DEF ChangeByte
  <2>2. line \in Seq(Byte) /\ b \in Byte
    BY FramingAssumption DEF TypeOK
  <2>3. line' \in Seq(Byte)
    BY <2>1, <2>2
  <2>. QED
    BY <1>11, <1>13, <2>3 DEF ChangeByte, TypeOK
<1>14. CASE SlowLine
  BY <1>4, <1>11, <1>14 DEF SlowLine, TimedOut, TypeOK
<1>15. CASE UNCHANGED vars
  BY <1>15 DEF vars, TypeOK
<1>16. CASE Hangs
  BY <1>16, <1>2 DEF Hangs, EndRead, TypeOK
<1>. QED
  BY <1>1, <1>5, <1>6, <1>7, <1>8, <1>9, <1>10, <1>12, <1>13, <1>14, <1>15, <1>16 DEF Next, Receive

\* Every variable has its type: what is on the line are bytes, whatever is lost
\* or changed, and so are the packets received.
THEOREM FramingTypeCorrect == Spec => []TypeOK
<1>1. TypeOK /\ [Next]_vars => TypeOK'
  BY TypeStep
<1>. QED
  BY <1>1, TypeInit, PTL DEF Spec
-----------------------------------------------------------------------------
(* The receiver in phase.  What a receiver makes of the bytes of the line  *)
(* is a fold over them; one that exits, that may hang over a short frame,  *)
(* or that receives what it is not owed, ends as "bad".                    *)
Reader == [mode : {"hunt", "frame", "bad"}, buff : Seq(Byte), quote : {0, 1},
           owed : Seq(Seq(Byte))]

At(m, a, q, o) == [mode |-> m, buff |-> a, quote |-> q, owed |-> o]
Idle(o) == At("hunt", <<>>, 0, o)
Within(r, a) == At(IF Len(a) > MaxLen THEN "bad" ELSE "frame", a, 0, r.owed)

\* The frame that has ended is one for us, or one for nobody here; too short a
\* one is neither.
Passed(a)  == ForUs(a, 0) /\ pk_test_sig_nullifier(a)
Taken(a)   == Len(a) >= 2 /\ Passed(a)
Dropped(a) == Len(a) >= 2 /\ ~Passed(a)

ReadSync(r) ==
    CASE Dropped(r.buff) -> Idle(r.owed)
      [] Taken(r.buff) /\ r.owed # <<>> /\ Head(r.owed) = r.buff -> Idle(Tail(r.owed))
      [] OTHER -> At("bad", <<>>, 0, <<>>)

ReadByte(r, b) ==
    CASE r.quote = 0 -> Within(r, Append(r.buff, b))
      [] r.quote # 0 /\ Unquoted(b) \in Byte -> Within(r, Append(r.buff, Unquoted(b)))
      [] OTHER -> Idle(r.owed)

Reads(r, b) ==
    CASE r.mode = "hunt" /\ b = SERSYNCBYTE -> At("frame", <<>>, 0, r.owed)
      [] r.mode = "frame" /\ b = SERSYNCBYTE -> ReadSync(r)
      [] r.mode = "frame" /\ b = QUOTEBYTE -> At("frame", r.buff, 1, r.owed)
      [] r.mode = "frame" /\ b \notin {SERSYNCBYTE, QUOTEBYTE} -> ReadByte(r, b)
      [] OTHER -> r

Rcv == INSTANCE FoldProofs WITH Op <- Reads

LEMMA AtType ==
    ASSUME NEW m \in {"hunt", "frame", "bad"}, NEW a \in Seq(Byte), NEW q \in {0, 1},
           NEW o \in Seq(Seq(Byte))
    PROVE  At(m, a, q, o) \in Reader
BY DEF At, Reader

LEMMA AtFields ==
    ASSUME NEW m, NEW a, NEW q, NEW o
    PROVE  At(m, a, q, o).mode = m /\ At(m, a, q, o).buff = a
           /\ At(m, a, q, o).quote = q /\ At(m, a, q, o).owed = o
BY DEF At

LEMMA ReaderFields ==
    ASSUME NEW r \in Reader
    PROVE  /\ r.mode \in {"hunt", "frame", "bad"} /\ r.buff \in Seq(Byte) /\ r.quote \in {0, 1}
           /\ r.owed \in Seq(Seq(Byte))
           /\ r = At(r.mode, r.buff, r.quote, r.owed)
BY DEF At, Reader

LEMMA IdleType ==
    ASSUME NEW o \in Seq(Seq(Byte)) PROVE Idle(o) \in Reader
<1>1. <<>> \in Seq(Byte)
  OBVIOUS
<1>. QED
  BY <1>1, AtType DEF Idle

LEMMA WithinType ==
    ASSUME NEW r \in Reader, NEW a \in Seq(Byte) PROVE Within(r, a) \in Reader
BY AtType, ReaderFields DEF Within

LEMMA ReadSyncType ==
    ASSUME NEW r \in Reader PROVE ReadSync(r) \in Reader
<1>1. <<>> \in Seq(Byte) /\ <<>> \in Seq(Seq(Byte)) /\ r.owed \in Seq(Seq(Byte))
  BY ReaderFields
<1>2. r.owed # <<>> => Tail(r.owed) \in Seq(Seq(Byte))
  BY <1>1
<1>. QED
  BY <1>1, <1>2, IdleType, AtType DEF ReadSync

LEMMA ReadByteType ==
    ASSUME NEW r \in Reader, NEW b \in Byte PROVE ReadByte(r, b) \in Reader
<1>1. Append(r.buff, b) \in Seq(Byte)
  BY ReaderFields
<1>2. Unquoted(b) \in Byte => Append(r.buff, Unquoted(b)) \in Seq(Byte)
  BY ReaderFields
<1>. QED
  BY <1>1, <1>2, ReaderFields, WithinType, IdleType DEF ReadByte

LEMMA ReadsClosed == Rcv!Closed(Reader, Byte)
<1>. SUFFICES ASSUME NEW r \in Reader, NEW b \in Byte PROVE Reads(r, b) \in Reader
  BY DEF Rcv!Closed
<1>1. At("frame", <<>>, 0, r.owed) \in Reader
  <2>1. <<>> \in Seq(Byte)
    OBVIOUS
  <2>. QED
    BY <2>1, ReaderFields, AtType
<1>2. At("frame", r.buff, 1, r.owed) \in Reader
  BY ReaderFields, AtType
<1>. QED
  BY <1>1, <1>2, ReadSyncType, ReadByteType DEF Reads
-----------------------------------------------------------------------------
(* One packet more is owed.                                                *)
Owing(r, x) == At(r.mode, r.buff, r.quote, Append(r.owed, x))

LEMMA OwingReads ==
    ASSUME NEW r \in Reader, NEW x \in Seq(Byte), NEW b \in Byte, Reads(r, b).mode # "bad"
    PROVE  Reads(Owing(r, x), b) = Owing(Reads(r, b), x)
<1>. DEFINE o == Append(r.owed, x)
<1>0. /\ Owing(r, x).mode = r.mode /\ Owing(r, x).buff = r.buff
      /\ Owing(r, x).quote = r.quote /\ Owing(r, x).owed = o
  BY DEF Owing, At
<1>1. o # <<>> /\ r.owed \in Seq(Seq(Byte))
  <2>1. r.owed \in Seq(Seq(Byte))
    BY ReaderFields
  <2>. QED
    BY <2>1
<1>2. r.owed # <<>> => Head(o) = Head(r.owed) /\ Tail(o) = Append(Tail(r.owed), x)
  BY <1>1, HeadTailAppend
<1>3. \A m, a, q : Owing(At(m, a, q, r.owed), x) = At(m, a, q, o)
  BY AtFields DEF Owing
<1>4. Owing(Idle(r.owed), x) = Idle(o)
  BY <1>3 DEF Idle
<1>5. r.owed # <<>> => Owing(Idle(Tail(r.owed)), x) = Idle(Tail(o))
  BY <1>2 DEF Idle, Owing, At
<1>. HIDE DEF o
<1>6. CASE r.mode = "hunt"
  <2>1. CASE b = SERSYNCBYTE
    <3>1. Reads(r, b) = At("frame", <<>>, 0, r.owed)
      BY <1>6, <2>1 DEF Reads
    <3>2. Reads(Owing(r, x), b) = At("frame", <<>>, 0, o)
      BY <1>0, <1>6, <2>1 DEF Reads
    <3>. QED
      BY <1>3, <3>1, <3>2
  <2>2. CASE b # SERSYNCBYTE
    <3>1. Reads(r, b) = r /\ Reads(Owing(r, x), b) = Owing(r, x)
      BY <1>0, <1>6, <2>2 DEF Reads
    <3>. QED
      BY <3>1
  <2>. QED
    BY <2>1, <2>2
<1>7. CASE r.mode = "frame" /\ b = SERSYNCBYTE
  <2>1. Reads(r, b) = ReadSync(r) /\ Reads(Owing(r, x), b) = ReadSync(Owing(r, x))
    BY <1>0, <1>7, SpecialBytes DEF Reads
  <2>2. CASE Dropped(r.buff)
    BY <1>0, <1>4, <2>1, <2>2 DEF ReadSync, Taken, Dropped
  <2>3. CASE Taken(r.buff) /\ r.owed # <<>> /\ Head(r.owed) = r.buff
    <3>1. ReadSync(r) = Idle(Tail(r.owed))
      BY <2>3 DEF ReadSync, Taken, Dropped
    <3>2. ReadSync(Owing(r, x)) = Idle(Tail(o))
      BY <1>0, <1>1, <1>2, <2>3 DEF ReadSync, Taken, Dropped
    <3>. QED
      BY <1>5, <2>1, <2>3, <3>1, <3>2
  <2>4. CASE ~Dropped(r.buff) /\ ~(Taken(r.buff) /\ r.owed # <<>> /\ Head(r.owed) = r.buff)
    <3>1. ReadSync(r) = At("bad", <<>>, 0, <<>>)
      BY <2>4 DEF ReadSync
    <3>. QED
      BY <2>1, <3>1, AtFields
  <2>. QED
    BY <2>2, <2>3, <2>4
<1>8. CASE r.mode = "frame" /\ b = QUOTEBYTE
  BY <1>0, <1>3, <1>8, SpecialBytes DEF Reads
<1>9. CASE r.mode = "frame" /\ b \notin {SERSYNCBYTE, QUOTEBYTE}
  <2>1. Reads(r, b) = ReadByte(r, b) /\ Reads(Owing(r, x), b) = ReadByte(Owing(r, x), b)
    BY <1>0, <1>9 DEF Reads
  <2>2. \A a : Within(Owing(r, x), a) = Owing(Within(r, a), x)
    BY <1>0, <1>3 DEF Within
  <2>. QED
    BY <1>0, <1>4, <2>1, <2>2 DEF ReadByte
<1>10. CASE r.mode = "bad"
  <2>1. Reads(r, b) = r
    BY <1>10 DEF Reads
  <2>. QED
    BY <1>10, <2>1
<1>. QED
  BY <1>6, <1>7, <1>8, <1>9, <1>10, ReaderFields

LEMMA OwingType ==
    ASSUME NEW r \in Reader, NEW x \in Seq(Byte) PROVE Owing(r, x) \in Reader
<1>1. Append(r.owed, x) \in Seq(Seq(Byte))
  BY ReaderFields
<1>. QED
  BY <1>1, ReaderFields, AtType DEF Owing

LEMMA OwingFold ==
    ASSUME NEW r \in Reader, NEW x \in Seq(Byte), NEW s \in Seq(Byte),
           Rcv!Fold(r, s) = Idle(<<>>)
    PROVE  Rcv!Fold(Owing(r, x), s) = Idle(<<x>>)
<1>. DEFINE n == Len(s)
<1>0. n \in Nat /\ \A k \in 1..n : s[k] \in Byte
  OBVIOUS
<1>1. Owing(r, x) \in Reader
  BY OwingType
<1>2. PICK f \in [0..n -> Reader] : Rcv!IsRun(f, n, r, s) /\ f[n] = Idle(<<>>)
  BY ReadsClosed, Rcv!FoldRun DEF Rcv!HasRun
<1>3. PICK g \in [0..n -> Reader] :
          Rcv!IsRun(g, n, Owing(r, x), s) /\ Rcv!Fold(Owing(r, x), s) = g[n]
  <2>1. Rcv!HasRun(Reader, Owing(r, x), s)
    BY <1>1, ReadsClosed, Rcv!FoldRun
  <2>. QED
    BY <2>1 DEF Rcv!HasRun
<1>. HIDE DEF n
<1>. DEFINE S == {k \in Nat : f[k].mode = "bad" \/ g[k] = Owing(f[k], x)}
<1>4. 0 \in S
  BY <1>2, <1>3 DEF Rcv!IsRun
<1>5. ASSUME NEW k \in 0..(n - 1), k \in S PROVE k + 1 \in S
  <2>1. k + 1 \in 1..n /\ (k + 1) - 1 = k /\ k \in 0..n /\ k + 1 \in Nat
    BY <1>0
  <2>2. f[k] \in Reader /\ s[k + 1] \in Byte
    BY <1>0, <2>1
  <2>3. f[k + 1] = Reads(f[k], s[k + 1]) /\ g[k + 1] = Reads(g[k], s[k + 1])
    BY <1>2, <1>3, <2>1 DEF Rcv!IsRun
  <2>4. CASE f[k].mode = "bad"
    <3>1. f[k + 1] = f[k]
      BY <2>3, <2>4 DEF Reads
    <3>. QED
      BY <2>1, <2>4, <3>1
  <2>5. CASE f[k].mode # "bad"
    <3>1. g[k] = Owing(f[k], x)
      BY <1>5, <2>5
    <3>2. f[k + 1].mode # "bad" => g[k + 1] = Owing(f[k + 1], x)
      BY <2>2, <2>3, <3>1, OwingReads
    <3>. QED
      BY <2>1, <3>2
  <2>. QED
    BY <2>4, <2>5
<1>. HIDE DEF S
<1>6. \A k \in 0..(n - 1) : k \in S => k + 1 \in S
  BY <1>5
<1>7. \A k \in 0..n : k \in S
  BY <1>0, <1>4, <1>6, Rcv!InductionUpTo
<1>8. f[n].mode = "bad" \/ g[n] = Owing(f[n], x)
  <2>1. n \in S
    BY <1>0, <1>7
  <2>. QED
    BY <2>1 DEF S
<1>9. f[n].mode = "hunt" /\ Owing(f[n], x) = Idle(<<x>>)
  <2>1. Append(<<>>, x) = <<x>>
    OBVIOUS
  <2>. QED
    BY <1>2, <2>1 DEF Idle, Owing, At
<1>. QED
  BY <1>3, <1>8, <1>9
-----------------------------------------------------------------------------
(* A receiver that hunts takes the bytes of a frame for its packet.        *)
LEMMA ReadsByte ==
    ASSUME NEW a \in Seq(Byte), NEW b \in Byte, NEW o \in Seq(Seq(Byte)), Len(a) < MaxLen
    PROVE  Rcv!Fold(At("frame", a, 0, o), Quoted(b)) = At("frame", Append(a, b), 0, o)
<1>0. At("frame", a, 0, o) \in Reader /\ <<>> \in Seq(Byte)
  BY AtType
<1>1. ~(Len(Append(a, b)) > MaxLen)
  BY FramingAssumption
<1>2. ASSUME NEW c \in Byte
      PROVE  Rcv!Fold(At("frame", a, 0, o), <<c>>) = Reads(At("frame", a, 0, o), c)
  <2>1. <<c>> = Append(<<>>, c)
    OBVIOUS
  <2>2. Rcv!Fold(At("frame", a, 0, o), Append(<<>>, c))
           = Reads(Rcv!Fold(At("frame", a, 0, o), <<>>), c)
    BY <1>0, ReadsClosed, Rcv!FoldAppend
  <2>. QED
    BY <2>1, <2>2, Rcv!FoldEmpty
<1>3. CASE Quoted(b) = <<QUOTEBYTE, b + 32>> /\ b + 32 \in Byte \ {QUOTEBYTE, SERSYNCBYTE}
            /\ Unquoted(b + 32) = b
  <2>1. PICK c \in Byte : c = b + 32
    BY <1>3
  <2>2. <<QUOTEBYTE>> \in Seq(Byte) /\ <<QUOTEBYTE, c>> = Append(<<QUOTEBYTE>>, c)
    BY SpecialBytes
  <2>3. Rcv!Fold(At("frame", a, 0, o), Append(<<QUOTEBYTE>>, c))
           = Reads(Rcv!Fold(At("frame", a, 0, o), <<QUOTEBYTE>>), c)
    BY <1>0, <2>2, ReadsClosed, Rcv!FoldAppend
  <2>4. Rcv!Fold(At("frame", a, 0, o), <<QUOTEBYTE>>) = At("frame", a, 1, o)
    <3>1. Reads(At("frame", a, 0, o), QUOTEBYTE) = At("frame", a, 1, o)
      BY SpecialBytes DEF Reads, At
    <3>. QED
      BY <1>2, <3>1, SpecialBytes
  <2>5. Reads(At("frame", a, 1, o), c) = ReadByte(At("frame", a, 1, o), c)
    BY <1>3, <2>1 DEF Reads, At
  <2>6. ReadByte(At("frame", a, 1, o), c) = Within(At("frame", a, 1, o), Append(a, b))
    BY <1>3, <2>1 DEF ReadByte, At
  <2>7. Within(At("frame", a, 1, o), Append(a, b)) = At("frame", Append(a, b), 0, o)
    BY <1>1 DEF Within, At
  <2>. QED
    BY <1>3, <2>1, <2>2, <2>3, <2>4, <2>5, <2>6, <2>7
<1>4. CASE Quoted(b) = <<b>> /\ b \notin {QUOTEBYTE, SERSYNCBYTE}
  <2>1. Reads(At("frame", a, 0, o), b) = ReadByte(At("frame", a, 0, o), b)
    BY <1>4 DEF Reads, At
  <2>2. ReadByte(At("frame", a, 0, o), b) = Within(At("frame", a, 0, o), Append(a, b))
    BY DEF ReadByte, At
  <2>3. Within(At("frame", a, 0, o), Append(a, b)) = At("frame", Append(a, b), 0, o)
    BY <1>1 DEF Within, At
  <2>. QED
    BY <1>2, <1>4, <2>1, <2>2, <2>3
<1>. QED
  BY <1>3, <1>4, QuotingUndone

LEMMA OneMore ==
    ASSUME NEW x \in Seq(Byte), NEW k \in 0..(Len(x) - 1)
    PROVE  /\ SubSeq(x, 1, k) \in Seq(Byte) /\ Len(SubSeq(x, 1, k)) = k
           /\ SubSeq(x, 1, k + 1) = Append(SubSeq(x, 1, k), x[k + 1])
OBVIOUS

LEMMA ReadsPacket ==
    ASSUME NEW x \in Seq(Byte), NEW o \in Seq(Seq(Byte)), Len(x) <= MaxLen
    PROVE  Rcv!Fold(Idle(o), Quo!Fold(<<SERSYNCBYTE>>, x)) = At("frame", x, 0, o)
<1>. DEFINE n == Len(x)
<1>0. n \in Nat /\ n <= MaxLen /\ Idle(o) \in Reader /\ (\A k \in 1..n : x[k] \in Byte)
  BY IdleType
<1>1. PICK f \in [0..n -> Seq(Byte)] :
          Quo!IsRun(f, n, <<SERSYNCBYTE>>, x) /\ Quo!Fold(<<SERSYNCBYTE>>, x) = f[n]
  <2>1. Quo!HasRun(Seq(Byte), <<SERSYNCBYTE>>, x)
    BY SpecialBytes, QuoClosed, Quo!FoldRun
  <2>. QED
    BY <2>1 DEF Quo!HasRun
<1>. DEFINE S == {k \in Nat : Rcv!Fold(Idle(o), f[k]) = At("frame", SubSeq(x, 1, k), 0, o)}
<1>2. 0 \in S
  <2>1. f[0] = Append(<<>>, SERSYNCBYTE) /\ SubSeq(x, 1, 0) = <<>>
    BY <1>1 DEF Quo!IsRun
  <2>2. <<>> \in Seq(Byte) /\ SERSYNCBYTE \in Byte
    BY SpecialBytes
  <2>3. Rcv!Fold(Idle(o), Append(<<>>, SERSYNCBYTE)) = Reads(Rcv!Fold(Idle(o), <<>>), SERSYNCBYTE)
    BY <1>0, <2>2, ReadsClosed, Rcv!FoldAppend
  <2>4. Reads(Idle(o), SERSYNCBYTE) = At("frame", <<>>, 0, o)
    BY DEF Reads, Idle, At
  <2>. QED
    BY <2>1, <2>3, <2>4, Rcv!FoldEmpty
<1>3. ASSUME NEW k \in 0..(n - 1), k \in S PROVE k + 1 \in S
  <2>1. k + 1 \in 1..n /\ (k + 1) - 1 = k /\ k \in 0..n /\ k + 1 \in Nat /\ k < MaxLen
    BY <1>0, FramingAssumption
  <2>2. f[k] \in Seq(Byte) /\ x[k + 1] \in Byte
    BY <1>0, <2>1
  <2>3. f[k + 1] = f[k] \o Quoted(x[k + 1])
    BY <1>1, <2>1 DEF Quo!IsRun, AddQuoted
  <2>4. PICK a \in Seq(Byte) : a = SubSeq(x, 1, k) /\ Len(a) = k
                               /\ SubSeq(x, 1, k + 1) = Append(a, x[k + 1])
    BY OneMore
  <2>5. Rcv!Fold(Idle(o), f[k + 1]) = Rcv!Fold(Rcv!Fold(Idle(o), f[k]), Quoted(x[k + 1]))
    BY <1>0, <2>2, <2>3, QuotedType, ReadsClosed, Rcv!FoldConcat
  <2>6. Rcv!Fold(Idle(o), f[k]) = At("frame", a, 0, o)
    BY <1>3, <2>4
  <2>7. Rcv!Fold(At("frame", a, 0, o), Quoted(x[k + 1])) = At("frame", Append(a, x[k + 1]), 0, o)
    BY <2>1, <2>2, <2>4, ReadsByte
  <2>. QED
    BY <2>1, <2>4, <2>5, <2>6, <2>7
<1>. HIDE DEF S
<1>4. \A k \in 0..(n - 1) : k \in S => k + 1 \in S
  BY <1>3
<1>5. \A k \in 0..n : k \in S
  BY <1>0, <1>2, <1>4, Rcv!InductionUpTo
<1>6. n \in S /\ SubSeq(x, 1, n) = x
  BY <1>0, <1>5
<1>. QED
  BY <1>1, <1>6 DEF S

\* The last sync byte: a packet owed is received, one not for us is refused.
LEMMA ReadsFrame ==
    ASSUME NEW x \in Seq(Byte), NEW o \in Seq(Seq(Byte)), Len(x) <= MaxLen
    PROVE  Rcv!Fold(Idle(o), Frame(x)) = ReadSync(At("frame", x, 0, o))
<1>1. PICK t \in Seq(Byte) : t = Quo!Fold(<<SERSYNCBYTE>>, x)
  BY QuoClosed, SpecialBytes, Quo!FoldIn
<1>2. Rcv!Fold(Idle(o), Append(t, SERSYNCBYTE)) = Reads(Rcv!Fold(Idle(o), t), SERSYNCBYTE)
  BY IdleType, ReadsClosed, SpecialBytes, Rcv!FoldAppend
<1>3. Rcv!Fold(Idle(o), t) = At("frame", x, 0, o)
  BY <1>1, ReadsPacket
<1>4. Reads(At("frame", x, 0, o), SERSYNCBYTE) = ReadSync(At("frame", x, 0, o))
  BY SpecialBytes DEF Reads, At
<1>. QED
  BY <1>1, <1>2, <1>3, <1>4, QuoFrame

\* What stands behind the two bytes of the address is not read with it.
LEMMA ForUsSigned ==
    ASSUME NEW p \in Seq(Byte), Len(p) >= 2
    PROVE  ForUs(Signed(p), 0) <=> ForUs(p, 0)
<1>1. ASSUME NEW a \in Seq(Byte), Len(a) >= 2
      PROVE  AsRead(a, 0)[1] = a[1] /\ AsRead(a, 0)[2] = a[2]
  BY <1>1 DEF AsRead, SERSYNCBYTE
<1>2. /\ Signed(p) \in Seq(Byte) /\ Len(Signed(p)) >= 2
      /\ Signed(p)[1] = p[1] /\ Signed(p)[2] = p[2]
  BY SignedIs
<1>. QED
  BY <1>1, <1>2 DEF ForUs, PB_GET_DST_ADDR

LEMMA PacketSigned ==
    ASSUME NEW p \in Packet
    PROVE  /\ Signed(p) \in Seq(Byte) /\ Len(Signed(p)) <= MaxLen
           /\ Len(Signed(p)) >= 2
           /\ Passed(Signed(p)) <=> ForUs(p, 0)
<1>1. p \in Seq(Byte) /\ Len(p) >= 2 /\ Len(p) + 2 <= MaxLen
  BY FramingAssumption
<1>. QED
  BY <1>1, SignedIs, SignedPasses, ForUsSigned DEF Passed
-----------------------------------------------------------------------------
Here == At(IF Ended THEN "bad" ELSE mode, buff, quote, owed)

\* In phase, the bytes of the line give the receiver just what it is owed.
PhaseInv ==
    /\ TypeOK
    /\ inPhase = 0 => owed = <<>>
    /\ inPhase = 1 => Rcv!Fold(Here, line) = Idle(<<>>)

LEMMA HereType == TypeOK => Here \in Reader
BY AtType DEF TypeOK, Here, Ended

LEMMA PhaseQuiet ==
    ASSUME PhaseInv, line = <<>>, inPhase = 1 PROVE Here = Idle(<<>>)
BY Rcv!FoldEmpty DEF PhaseInv

LEMMA PhaseRecovered == PhaseInv => Recovered
<1>. SUFFICES ASSUME PhaseInv, line = <<>>, inPhase = 1 PROVE owed = <<>>
  BY DEF PhaseInv, Recovered, TypeOK
<1>. QED
  BY PhaseQuiet DEF Here, Ended, Idle, At

LEMMA PhaseInit == Init => PhaseInv
<1>. SUFFICES ASSUME Init PROVE PhaseInv
  OBVIOUS
<1>1. Here = Idle(<<>>) /\ line = <<>>
  BY DEF Init, Here, Ended, Idle, At
<1>. QED
  BY <1>1, TypeInit, Rcv!FoldEmpty DEF PhaseInv, Init

LEMMA ForUsLong ==
    ASSUME NEW a \in Seq(Byte), Len(a) >= 2, NEW junk
    PROVE  ForUs(a, junk) <=> ForUs(a, 0)
<1>1. \A j : AsRead(a, j)[1] = a[1] /\ AsRead(a, j)[2] = a[2]
  BY DEF AsRead, SERSYNCBYTE
<1>. QED
  BY <1>1 DEF ForUs, PB_GET_DST_ADDR

LEMMA BadStays ==
    ASSUME NEW r \in Reader, r.mode = "bad", NEW s \in Seq(Byte)
    PROVE  Rcv!Fold(r, s) # Idle(<<>>)
<1>1. Rcv!Closed({r}, Byte) /\ r \in {r}
  BY DEF Rcv!Closed, Reads
<1>2. Rcv!Fold(r, s) \in {r}
  BY <1>1, Rcv!FoldIn
<1>3. Idle(<<>>).mode = "hunt"
  BY DEF Idle, At
<1>. QED
  BY <1>2, <1>3

LEMMA ReadsFirst ==
    ASSUME NEW r \in Reader, NEW s \in Seq(Byte), s # <<>>
    PROVE  Rcv!Fold(r, s) = Rcv!Fold(Reads(r, Head(s)), Tail(s))
<1>1. /\ Head(s) \in Byte /\ Tail(s) \in Seq(Byte) /\ <<>> \in Seq(Byte)
      /\ <<Head(s)>> \in Seq(Byte) /\ s = <<Head(s)>> \o Tail(s)
      /\ <<Head(s)>> = Append(<<>>, Head(s))
  OBVIOUS
<1>2. Rcv!Fold(r, <<Head(s)>> \o Tail(s)) = Rcv!Fold(Rcv!Fold(r, <<Head(s)>>), Tail(s))
  <2>1. PICK h \in Seq(Byte), t \in Seq(Byte) : h = <<Head(s)>> /\ t = Tail(s)
    BY <1>1
  <2>2. Rcv!Fold(r, h \o t) = Rcv!Fold(Rcv!Fold(r, h), t)
    BY ReadsClosed, Rcv!FoldConcat
  <2>. QED
    BY <2>1, <2>2
<1>3. Rcv!Fold(r, Append(<<>>, Head(s))) = Reads(Rcv!Fold(r, <<>>), Head(s))
  BY <1>1, ReadsClosed, Rcv!FoldAppend
<1>. QED
  BY <1>1, <1>2, <1>3, Rcv!FoldEmpty

Reading == Hunt \/ QuoteRead \/ ByteRead \/ Refused \/ Received \/ Hangs

\* cr_rcv reads as the fold does, but for what it is not owed.
LEMMA ReadingIs ==
    ASSUME TypeOK, Reading
    PROVE  /\ line # <<>> /\ line' = Tail(line) /\ inPhase' = inPhase
           /\ owed = <<>> => owed' = <<>>
           /\ \/ Here' = Reads(Here, Head(line))
              \/ Reads(Here, Head(line)).mode = "bad"
<1>. USE DEF receiver
<1>0. /\ Here.buff = buff /\ Here.quote = quote /\ Here.owed = owed
      /\ ~Ended => Here.mode = mode
      /\ mode \in {"hunt", "frame"} => ~Ended
      /\ SERSYNCBYTE # QUOTEBYTE
  BY SpecialBytes DEF Here, Ended, At
<1>1. CASE Hunt
  <2>1. CASE Head(line) = SERSYNCBYTE
    BY <1>0, <1>1, <2>1 DEF Hunt, Read, Here, Ended, Reads, At
  <2>2. CASE Head(line) # SERSYNCBYTE
    <3>1. Reads(Here, Head(line)) = Here
      BY <1>0, <1>1, <2>2 DEF Hunt, Reads
    <3>2. Here' = Here
      BY <1>1, <2>2 DEF Hunt, Here, Ended
    <3>. QED
      BY <1>1, <2>2, <3>1, <3>2 DEF Hunt, Read
  <2>. QED
    BY <2>1, <2>2
<1>2. CASE QuoteRead
  <2>1. Reads(Here, Head(line)) = At("frame", buff, 1, owed)
    BY <1>0, <1>2 DEF QuoteRead, Reads
  <2>2. Here' = At("frame", buff, 1, owed)
    BY <1>2 DEF QuoteRead, Here, Ended
  <2>. QED
    BY <1>2, <2>1, <2>2 DEF QuoteRead, Read
<1>3. CASE ByteRead
  <2>0. mode = "frame" /\ Head(line) \notin {SERSYNCBYTE, QUOTEBYTE} /\ owed' = owed
    BY <1>3 DEF ByteRead
  <2>1. Reads(Here, Head(line)) = ReadByte(Here, Head(line))
    BY <1>0, <2>0 DEF Reads
  <2>2. ASSUME NEW b, Take(b) PROVE Here' = Within(Here, Append(buff, b))
    BY <1>0, <2>0, <2>2 DEF Take, Here, Ended, Within
  <2>3. ASSUME Return PROVE Here' = Idle(owed)
    BY <2>0, <2>3 DEF Return, Here, Ended, Idle
  <2>4. Here' = ReadByte(Here, Head(line))
    <3>1. CASE quote = 0
      BY <1>0, <1>3, <2>2, <3>1 DEF ByteRead, ReadByte
    <3>2. CASE quote # 0 /\ Unquoted(Head(line)) \in Byte
      BY <1>0, <1>3, <2>2, <3>2 DEF ByteRead, ReadByte
    <3>3. CASE quote # 0 /\ Unquoted(Head(line)) \notin Byte
      BY <1>0, <1>3, <2>3, <3>3 DEF ByteRead, ReadByte
    <3>. QED
      BY <3>1, <3>2, <3>3
  <2>. QED
    BY <1>3, <2>1, <2>4 DEF ByteRead, Read
<1>4. ASSUME EndRead PROVE mode = "frame" /\ Reads(Here, Head(line)) = ReadSync(Here)
  BY <1>0, <1>4 DEF EndRead, Reads
<1>s. ASSUME Len(buff) < 2 PROVE ReadSync(Here).mode = "bad"
  <2>1. ~Dropped(buff) /\ ~Taken(buff)
    BY <1>s DEF Dropped, Taken, TypeOK
  <2>. QED
    BY <1>0, <2>1 DEF ReadSync, At
<1>5. CASE Refused
  <2>1. CASE Len(buff) < 2
    BY <1>4, <1>5, <1>s, <2>1 DEF Refused, EndRead, Read
  <2>2. CASE Len(buff) >= 2
    <3>1. buff \in Seq(Byte) /\ \E junk : ForUs(buff, junk) => ~pk_test_sig_nullifier(buff)
      BY <1>5 DEF Refused, TypeOK
    <3>2. Dropped(buff)
      BY <2>2, <3>1, ForUsLong DEF Passed, Dropped
    <3>3. ReadSync(Here) = Idle(owed)
      BY <1>0, <3>2 DEF ReadSync, Taken, Dropped
    <3>4. Here' = Idle(owed)
      BY <1>5 DEF Refused, Return, Here, Ended, Idle
    <3>. QED
      BY <1>4, <1>5, <3>3, <3>4 DEF Refused, EndRead, Read
  <2>. QED
    BY <2>1, <2>2 DEF TypeOK
<1>6. CASE Received
  <2>1. Taken(buff) /\ ~Dropped(buff)
    BY <1>6 DEF Received, Passed, Taken, Dropped
  <2>2. CASE owed # <<>> /\ Head(owed) = buff
    <3>1. ReadSync(Here) = Idle(Tail(owed))
      BY <1>0, <2>1, <2>2 DEF ReadSync
    <3>2. Here' = Idle(Tail(owed))
      BY <1>6, <2>2 DEF Received, Return, Here, Ended, Idle
    <3>. QED
      BY <1>4, <1>6, <2>2, <3>1, <3>2 DEF Received, EndRead, Read
  <2>3. CASE ~(owed # <<>> /\ Head(owed) = buff)
    <3>1. ReadSync(Here).mode = "bad"
      BY <1>0, <2>1, <2>3 DEF ReadSync, At
    <3>. QED
      BY <1>4, <1>6, <2>3, <3>1 DEF Received, EndRead, Read
  <2>. QED
    BY <2>2, <2>3
<1>7. CASE Hangs
  BY <1>4, <1>7, <1>s DEF Hangs, EndRead, Read
<1>. QED
  BY <1>1, <1>2, <1>3, <1>5, <1>6, <1>7 DEF Reading

LEMMA PhaseReading == PhaseInv /\ Reading => PhaseInv'
<1>. SUFFICES ASSUME PhaseInv, Reading PROVE PhaseInv'
  OBVIOUS
<1>0. TypeOK /\ Here \in Reader /\ line \in Seq(Byte)
  BY HereType DEF PhaseInv, TypeOK
<1>1. TypeOK'
  BY <1>0, TypeStep DEF Next, Receive, Reading
<1>2. /\ line # <<>> /\ line' = Tail(line) /\ inPhase' = inPhase
      /\ owed = <<>> => owed' = <<>>
      /\ Here' = Reads(Here, Head(line)) \/ Reads(Here, Head(line)).mode = "bad"
  BY <1>0, ReadingIs
<1>3. ASSUME inPhase = 1 PROVE Rcv!Fold(Here', line') = Idle(<<>>)
  <2>1. Rcv!Fold(Reads(Here, Head(line)), Tail(line)) = Idle(<<>>)
    BY <1>0, <1>2, <1>3, ReadsFirst DEF PhaseInv
  <2>2. Reads(Here, Head(line)) \in Reader /\ Tail(line) \in Seq(Byte)
    BY <1>0, <1>2, ReadsClosed DEF Rcv!Closed
  <2>3. Reads(Here, Head(line)).mode # "bad"
    BY <2>1, <2>2, BadStays
  <2>. QED
    BY <1>2, <2>1, <2>3
<1>. QED
  BY <1>1, <1>2, <1>3 DEF PhaseInv

LEMMA PhaseSend ==
    ASSUME PhaseInv, NEW p \in Packet, Send(p)
    PROVE  PhaseInv'
<1>. USE DEF receiver
<1>0. TypeOK /\ Here \in Reader /\ line \in Seq(Byte) /\ owed \in Seq(Seq(Byte))
  BY HereType DEF PhaseInv, TypeOK
<1>1. TypeOK'
  BY <1>0, TypeStep DEF Next
<1>2. PICK x \in Seq(Byte) : /\ x = Signed(p) /\ Len(x) <= MaxLen /\ Len(x) >= 2
                             /\ Passed(x) <=> ForUs(p, 0)
  BY PacketSigned
<1>3. line' = line \o Frame(x) /\ inPhase' = inPhase
      /\ owed' = IF inPhase = 1 /\ ForUs(p, 0) THEN Append(owed, x) ELSE owed
  BY <1>2 DEF Send
<1>4. Frame(x) \in Seq(Byte) /\ <<>> \in Seq(Seq(Byte)) /\ <<x>> \in Seq(Seq(Byte))
  BY FrameType
<1>5. ASSUME inPhase = 1, ForUs(p, 0) PROVE Rcv!Fold(Here', line') = Idle(<<>>)
  <2>1. Here' = Owing(Here, x)
    BY <1>3, <1>5 DEF Here, Ended, Owing, At, Send
  <2>2. Rcv!Fold(Owing(Here, x), line) = Idle(<<x>>)
    BY <1>0, <1>5, OwingFold DEF PhaseInv
  <2>3. Owing(Here, x) \in Reader
    BY <1>0, OwingType
  <2>4. Rcv!Fold(Owing(Here, x), line \o Frame(x)) = Rcv!Fold(Idle(<<x>>), Frame(x))
    BY <1>0, <1>4, <2>2, <2>3, ReadsClosed, Rcv!FoldConcat
  <2>5. Rcv!Fold(Idle(<<x>>), Frame(x)) = ReadSync(At("frame", x, 0, <<x>>))
    BY <1>2, <1>4, ReadsFrame
  <2>6. ReadSync(At("frame", x, 0, <<x>>)) = Idle(<<>>)
    <3>1. <<x>> # <<>> /\ Head(<<x>>) = x /\ Tail(<<x>>) = <<>>
      OBVIOUS
    <3>. QED
      BY <1>2, <1>5, <3>1 DEF ReadSync, Taken, Dropped, At
  <2>. QED
    BY <1>3, <2>1, <2>4, <2>5, <2>6
<1>6. ASSUME inPhase = 1, ~ForUs(p, 0) PROVE Rcv!Fold(Here', line') = Idle(<<>>)
  <2>1. Here' = Here
    BY <1>3, <1>6 DEF Here, Ended, Send
  <2>2. Rcv!Fold(Here, line) = Idle(<<>>)
    BY <1>6 DEF PhaseInv
  <2>3. Rcv!Fold(Here, line \o Frame(x)) = Rcv!Fold(Idle(<<>>), Frame(x))
    BY <1>0, <1>4, <2>2, ReadsClosed, Rcv!FoldConcat
  <2>4. Rcv!Fold(Idle(<<>>), Frame(x)) = ReadSync(At("frame", x, 0, <<>>))
    BY <1>2, <1>4, ReadsFrame
  <2>5. ReadSync(At("frame", x, 0, <<>>)) = Idle(<<>>)
    BY <1>2, <1>6 DEF ReadSync, Dropped, At
  <2>. QED
    BY <1>3, <2>1, <2>3, <2>4, <2>5
<1>. QED
  BY <1>1, <1>3, <1>5, <1>6 DEF PhaseInv

LEMMA PhaseStep == PhaseInv /\ [Next]_vars => PhaseInv'
<1>. SUFFICES ASSUME PhaseInv, [Next]_vars PROVE PhaseInv'
  OBVIOUS
<1>. USE DEF receiver
<1>1. TypeOK'
  BY TypeStep DEF PhaseInv
<1>2. CASE Timeout
  <2>1. owed = <<>>
    <3>1. CASE inPhase = 1
      BY <1>2, <3>1, PhaseRecovered DEF Timeout, Recovered
    <3>2. CASE inPhase = 0
      BY <3>2 DEF PhaseInv
    <3>. QED
      BY <3>1, <3>2 DEF PhaseInv, TypeOK
  <2>2. Here' = Idle(<<>>) /\ line' = <<>>
    BY <1>2, <2>1 DEF Timeout, TimedOut, Return, Here, Ended, Idle
  <2>3. owed' = <<>>
    BY <1>2, <2>1 DEF Timeout
  <2>. QED
    BY <1>1, <2>2, <2>3, Rcv!FoldEmpty DEF PhaseInv
<1>3. ASSUME Damage, inPhase' = 0 PROVE PhaseInv'
  BY <1>1, <1>3 DEF Damage, PhaseInv
<1>4. CASE UNCHANGED vars
  <2>1. Here' = Here /\ line' = line /\ owed' = owed /\ inPhase' = inPhase
    BY <1>4 DEF vars, Here, Ended
  <2>. QED
    BY <1>1, <2>1 DEF PhaseInv
<1>. QED
  BY <1>2, <1>3, <1>4, PhaseReading, PhaseSend
  DEF Next, Receive, Reading, LoseByte, ChangeByte, SlowLine

\* After every fault, and whatever a fault makes the receiver take for a packet,
\* one timeout on a quiet line brings cr_rcv back into phase: every packet sent
\* to us from then on has been received, in the order sent, by the time that the
\* line is quiet again, until the next fault.
THEOREM RecoveredHolds == Spec => []Recovered
<1>1. PhaseInv /\ [Next]_vars => PhaseInv'
  BY PhaseStep
<1>2. PhaseInv => Recovered
  BY PhaseRecovered
<1>. QED
  BY <1>1, <1>2, PhaseInit, PTL DEF Spec

\* A packet is received only when it is owed.
LEMMA ReceivedOwed ==
    ASSUME PhaseInv, inPhase = 1, Received
    PROVE  owed # <<>> /\ Head(owed) = buff
<1>0. TypeOK /\ Here \in Reader /\ line \in Seq(Byte)
  BY HereType DEF PhaseInv, TypeOK
<1>1. mode = "frame" /\ line # <<>> /\ Head(line) = SERSYNCBYTE
  BY DEF Received, EndRead, Read
<1>2. Taken(buff) /\ ~Dropped(buff)
  BY DEF Received, Passed, Taken, Dropped
<1>3. /\ Here.buff = buff /\ Here.owed = owed
      /\ Reads(Here, Head(line)) = ReadSync(Here)
  BY <1>1, SpecialBytes DEF Here, Ended, At, Reads
<1>4. Rcv!Fold(Reads(Here, Head(line)), Tail(line)) = Idle(<<>>)
  BY <1>0, <1>1, ReadsFirst DEF PhaseInv
<1>5. Reads(Here, Head(line)) \in Reader /\ Tail(line) \in Seq(Byte)
  BY <1>0, <1>1, ReadsClosed DEF Rcv!Closed
<1>6. ReadSync(Here).mode # "bad"
  BY <1>3, <1>4, <1>5, BadStays
<1>. QED
  BY <1>2, <1>3, <1>6 DEF ReadSync, At

\* In phase the program is not about to end.
LEMMA PhaseRuns ==
    ASSUME PhaseInv, inPhase = 1 PROVE ~Ended
<1>1. Here \in Reader /\ line \in Seq(Byte)
  BY HereType DEF PhaseInv, TypeOK
<1>2. Here.mode # "bad"
  BY <1>1, BadStays DEF PhaseInv
<1>. QED
  BY <1>2 DEF Here, At

\* While the receiver is in phase it takes just the packets sent to us, each in
\* its turn, and no frame is too long or so short that its check would hang
\* (cr_rcv, pak_rcv), whatever the packets and whatever our address.
THEOREM NothingElseHolds == Spec => NothingElse
<1>. USE DEF receiver
<1>1. ASSUME PhaseInv, PhaseInv', [Next]_vars, inPhase = 1
      PROVE  ~Ended'
  <2>1. ~Ended
    BY <1>1, PhaseRuns
  <2>2. CASE inPhase' = 1
    <3>1. TypeOK' /\ Rcv!Fold(Here', line') = Idle(<<>>)
      BY <1>1, <2>2 DEF PhaseInv
    <3>2. Here' \in Reader /\ line' \in Seq(Byte)
      BY <3>1, AtType DEF TypeOK, Here, Ended
    <3>3. Here'.mode # "bad"
      BY <3>1, <3>2, BadStays
    <3>. QED
      BY <3>3 DEF Here, At
  <2>3. CASE inPhase' # 1
    BY <1>1, <2>1, <2>3
    DEF Next, vars, Send, Receive, Hunt, QuoteRead, ByteRead, Refused, Received, Hangs, Timeout,
        LoseByte, ChangeByte, SlowLine, TimedOut, Return, Ended
  <2>. QED
    BY <2>2, <2>3
<1>2. ASSUME PhaseInv, [Next]_vars, inPhase = 1, got' # got
      PROVE  owed # <<>> /\ owed' = Tail(owed) /\ got' = Append(got, Head(owed))
  <2>1. Received
    BY <1>2
    DEF Next, vars, Send, Receive, Hunt, QuoteRead, ByteRead, Refused, Hangs, Timeout,
        LoseByte, ChangeByte, SlowLine, Damage
  <2>2. owed # <<>> /\ Head(owed) = buff
    BY <1>2, <2>1, ReceivedOwed
  <2>. QED
    BY <2>1, <2>2 DEF Received
<1>3. PhaseInv /\ PhaseInv' /\ [Next]_vars =>
          [inPhase = 1 =>
             /\ ~Ended'
             /\ got' # got => /\ owed # <<>> /\ owed' = Tail(owed)
                              /\ got' = Append(got, Head(owed))]_vars
  BY <1>1, <1>2
<1>4. PhaseInv /\ [Next]_vars => PhaseInv'
  BY PhaseStep
<1>. QED
  BY <1>3, <1>4, PhaseInit, PTL DEF Spec, NothingElse
=============================================================================
