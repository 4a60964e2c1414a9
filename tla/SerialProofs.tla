---------------------------- MODULE SerialProofs ----------------------------
(***************************************************************************)
(* Theorems about Serial, for any number of packets, any data, and any     *)
(* number of bytes lost, damaged and added, writes cut short, and signals. *)
(***************************************************************************)
EXTENDS Serial, SequenceTheorems, TLAPS

-----------------------------------------------------------------------------
(* Parts of sequences.                                                     *)
LEMMA Parts ==
  ASSUME NEW S, NEW s \in Seq(S), NEW k \in 0..Len(s)
  PROVE  /\ First(s, k) \in Seq(S) /\ Len(First(s, k)) = k
         /\ \A i \in 1..k : First(s, k)[i] = s[i]
         /\ Without(s, k) \in Seq(S) /\ Len(Without(s, k)) = Len(s) - k
         /\ \A i \in 1..(Len(s) - k) : Without(s, k)[i] = s[i + k]
<1>1. Len(s) \in Nat /\ \A i \in 1..Len(s) : s[i] \in S
  BY LenProperties
<1>2. /\ SubSeq(s, 1, k) \in Seq(S) /\ Len(SubSeq(s, 1, k)) = k
      /\ \A i \in 1..k : SubSeq(s, 1, k)[i] = s[i]
  BY <1>1, SubSeqProperties
<1>3. /\ SubSeq(s, k + 1, Len(s)) \in Seq(S)
      /\ Len(SubSeq(s, k + 1, Len(s))) = Len(s) - k
      /\ \A i \in 1..(Len(s) - k) : SubSeq(s, k + 1, Len(s))[i] = s[i + k]
  BY <1>1, SubSeqProperties
<1> QED BY <1>2, <1>3 DEF First, Without

LEMMA Joined ==
  ASSUME NEW S, NEW s \in Seq(S), NEW t \in Seq(S)
  PROVE  /\ s \o t \in Seq(S) /\ Len(s \o t) = Len(s) + Len(t)
         /\ Len(s) \in Nat /\ Len(t) \in Nat
         /\ \A i \in 1..Len(s) : (s \o t)[i] = s[i]
         /\ \A i \in 1..Len(t) : (s \o t)[Len(s) + i] = t[i]
<1>1. Len(s) \in Nat /\ Len(t) \in Nat
  BY LenProperties
<1>2. /\ s \o t \in Seq(S) /\ Len(s \o t) = Len(s) + Len(t)
      /\ \A i \in 1..(Len(s) + Len(t)) :
           (s \o t)[i] = IF i <= Len(s) THEN s[i] ELSE t[i - Len(s)]
  BY ConcatProperties
<1> HIDE DEF First, Without
<1>3. ASSUME NEW i \in 1..Len(s) PROVE (s \o t)[i] = s[i]
  BY <1>1, <1>2
<1>4. ASSUME NEW i \in 1..Len(t) PROVE (s \o t)[Len(s) + i] = t[i]
  <2>1. Len(s) + i \in 1..(Len(s) + Len(t)) /\ ~(Len(s) + i <= Len(s)) /\ (Len(s) + i) - Len(s) = i
    BY <1>1
  <2> QED BY <1>2, <2>1
<1> QED BY <1>1, <1>2, <1>3, <1>4

LEMMA Halves ==
  ASSUME NEW S, NEW s \in Seq(S), NEW k \in 0..Len(s)
  PROVE  First(s, k) \o Without(s, k) = s
<1> DEFINE a == First(s, k)
           b == Without(s, k)
<1>1. /\ a \in Seq(S) /\ b \in Seq(S) /\ Len(a) = k /\ Len(b) = Len(s) - k
      /\ \A i \in 1..k : a[i] = s[i]
      /\ \A i \in 1..(Len(s) - k) : b[i] = s[i + k]
  BY Parts
<1>2. Len(s) \in Nat
  BY LenProperties
<1> HIDE DEF a, b
<1> DEFINE c == a \o b
<1>3. /\ c \in Seq(S) /\ Len(c) = Len(s)
      /\ \A i \in 1..k : c[i] = a[i]
      /\ \A i \in 1..(Len(s) - k) : c[k + i] = b[i]
  <2>1. /\ c \in Seq(S) /\ Len(c) = Len(a) + Len(b)
        /\ \A i \in 1..Len(a) : c[i] = a[i]
        /\ \A i \in 1..Len(b) : c[Len(a) + i] = b[i]
    BY ONLY <1>1, Joined
  <2> HIDE DEF c
  <2>2. Len(a) = k /\ Len(b) = Len(s) - k /\ Len(c) = Len(s)
    BY <1>1, <1>2, <2>1
  <2> QED BY <2>1, <2>2
<1> HIDE DEF c
<1>4. ASSUME NEW i \in 1..Len(s) PROVE c[i] = s[i]
  <2>1. CASE i <= k
    BY <1>1, <1>3, <2>1
  <2>2. CASE ~(i <= k)
    <3>1. i - k \in 1..(Len(s) - k) /\ k + (i - k) = i
      BY <1>2, <2>2
    <3>2. c[k + (i - k)] = b[i - k] /\ b[i - k] = s[(i - k) + k]
      BY <1>1, <1>3, <3>1
    <3> QED BY <3>1, <3>2
  <2> QED BY <2>1, <2>2
<1>5. c = s
  BY <1>3, <1>4, SeqEqual
<1> QED BY <1>5 DEF a, b, c

-----------------------------------------------------------------------------
(* Frames.  Their last byte tells them apart, and is the only one of its   *)
(* kind in them.                                                           *)
IsLast(b) == b[1] = "crc" /\ b[3] = CrcLen

PacketsType == packets \in Seq([data : Payloads, wake : BOOLEAN])

LEMMA DataIs ==
  ASSUME PacketsType, NEW p \in Packets
  PROVE  /\ packets[p].data \in Payloads
         /\ Len(packets[p].data) \in Nat \ {0} /\ DOMAIN packets[p].data = 1..Len(packets[p].data)
<1>1. packets[p] \in [data : Payloads, wake : BOOLEAN]
  BY LenProperties DEF PacketsType, Packets
<1>2. packets[p].data \in Seq({"data", "be", "ef", "ed"}) /\ packets[p].data # <<>>
  BY <1>1, SerialAssumption
<1> QED BY <1>1, <1>2, LenProperties, EmptySeq

Long(p) == SigLen + HeaderRest + Len(packets[p].data) + CrcLen

LEMMA FrameIs ==
  ASSUME PacketsType, NEW p \in Packets
  PROVE  /\ Header(p) \in Seq(Bytes) /\ Len(Header(p)) = HeaderRest
         /\ \A i \in 1..HeaderRest : Header(p)[i] = <<"head", p, i>>
         /\ Content(p) \in Seq(Bytes) /\ Len(Content(p)) = HeaderRest + Len(packets[p].data)
         /\ Content(p)[1] = <<"head", p, 1>>
         /\ Frame(p) \in Seq(Bytes) /\ Len(Frame(p)) = Long(p)
         /\ Frame(p)[Long(p)] = <<"crc", p, CrcLen>>
         /\ \A i \in 1..Len(Frame(p)) : IsLast(Frame(p)[i]) => i = Long(p)
         /\ Without(First(Frame(p), Long(p) - CrcLen), SigLen) = Content(p)
<1> DEFINE n == Len(packets[p].data)
           d == Data(p)
           h == Header(p)
           c == [i \in 1..CrcLen |-> <<"crc", p, i>>]
<1>1. n \in Nat \ {0} /\ DOMAIN packets[p].data = 1..n /\ HeaderRest \in Nat \ {0}
  BY DataIs, SerialAssumption
<1>2. h \in Seq(Bytes) /\ Len(h) = HeaderRest /\ \A i \in 1..HeaderRest : h[i] = <<"head", p, i>>
  BY <1>1 DEF Header, Bytes
<1>3. d \in Seq(Bytes) /\ Len(d) = n /\ \A i \in 1..n : ~IsLast(d[i])
  <2>1. d = [i \in 1..n |-> d[i]]
    BY <1>1 DEF Data
  <2>2. ASSUME NEW i \in 1..n PROVE d[i] \in Bytes /\ ~IsLast(d[i])
    <3>1. packets[p].data[i] \in {"data", "be", "ef", "ed"}
      BY <1>1, DataIs, SerialAssumption
    <3>2. d[i] = <<"data", p, i>> \/ d[i] \in {Sig[1], Sig[2], Sig[3]}
      BY <1>1, <3>1 DEF Data, Sig, SigLen, SigKinds
    <3>3. d[i] \in Bytes
      <4>1. CASE d[i] = <<"data", p, i>>
        BY <1>1, <4>1 DEF Bytes
      <4>2. CASE d[i] \in {Sig[1], Sig[2], Sig[3]}
        BY <4>2 DEF Bytes, SigLen
      <4> QED BY <3>2, <4>1, <4>2
    <3>4. Sig[1][1] # "crc" /\ Sig[2][1] # "crc" /\ Sig[3][1] # "crc"
      BY DEF Sig, SigLen, SigKinds, Byte
    <3> QED BY <3>2, <3>3, <3>4 DEF IsLast
  <2> HIDE DEF d, n
  <2>3. d \in [1..n -> Bytes]
    BY <2>1, <2>2
  <2> QED BY <1>1, <2>2, <2>3
<1>4. c \in Seq(Bytes) /\ Len(c) = 2 /\ c[2] = <<"crc", p, CrcLen>> /\ ~IsLast(c[1])
  BY DEF CrcLen, Bytes, IsLast
<1>5. Sig \in Seq(Bytes) /\ Len(Sig) = 3 /\ \A i \in 1..3 : ~IsLast(Sig[i])
  BY DEF Sig, SigLen, Bytes, IsLast, Byte, SigKinds
<1>6. h \o d = Content(p) /\ (Sig \o Content(p)) \o c = Frame(p)
  BY DEF Content, Frame
<1> DEFINE t == Content(p)
           s == Sig \o t
           f == Frame(p)
<1> HIDE DEF h, d, c, n, t, s, f
<1>7. /\ t \in Seq(Bytes) /\ Len(t) = HeaderRest + n
      /\ \A i \in 1..HeaderRest : t[i] = h[i]
      /\ \A i \in 1..n : t[HeaderRest + i] = d[i]
  <2>1. /\ h \o d \in Seq(Bytes) /\ Len(h \o d) = Len(h) + Len(d)
        /\ \A i \in 1..Len(h) : (h \o d)[i] = h[i]
        /\ \A i \in 1..Len(d) : (h \o d)[Len(h) + i] = d[i]
    <3>1. h \in Seq(Bytes)
      BY <1>2
    <3>2. d \in Seq(Bytes)
      BY <1>3
    <3> QED BY ONLY <3>1, <3>2, Joined
  <2>2. t = h \o d
    BY <1>6 DEF t
  <2> QED BY <1>1, <1>2, <1>3, <2>1, <2>2
<1>8. ASSUME NEW i \in 1..Len(t) PROVE ~IsLast(t[i])
  <2>1. CASE i <= HeaderRest
    BY <1>1, <1>2, <1>7, <2>1 DEF IsLast
  <2>2. CASE i > HeaderRest
    <3>1. i - HeaderRest \in 1..n /\ HeaderRest + (i - HeaderRest) = i
      BY <1>1, <1>7, <2>2
    <3> QED BY <1>3, <1>7, <3>1
  <2> QED BY <1>1, <1>7, <2>1, <2>2
<1>9. /\ s \in Seq(Bytes) /\ Len(s) = 3 + Len(t)
      /\ \A i \in 1..3 : s[i] = Sig[i]
      /\ \A i \in 1..Len(t) : s[3 + i] = t[i]
  <2>1. /\ Sig \o t \in Seq(Bytes) /\ Len(Sig \o t) = Len(Sig) + Len(t)
        /\ \A i \in 1..Len(Sig) : (Sig \o t)[i] = Sig[i]
        /\ \A i \in 1..Len(t) : (Sig \o t)[Len(Sig) + i] = t[i]
    <3>1. Sig \in Seq(Bytes)
      BY <1>5
    <3>2. t \in Seq(Bytes)
      BY <1>7
    <3> QED BY ONLY <3>1, <3>2, Joined
  <2>2. s = Sig \o t
    BY DEF s
  <2> QED BY <1>5, <2>1, <2>2
<1>10. ASSUME NEW i \in 1..Len(s) PROVE ~IsLast(s[i])
  <2>1. CASE i <= 3
    BY <1>5, <1>9, <2>1
  <2>2. CASE i > 3
    <3>1. i - 3 \in 1..Len(t) /\ 3 + (i - 3) = i
      BY <1>1, <1>7, <1>9, <2>2
    <3> QED BY <1>8, <1>9, <3>1
  <2> QED BY <1>1, <1>7, <1>9, <2>1, <2>2
<1>11. /\ f \in Seq(Bytes) /\ Len(f) = Len(s) + 2
       /\ \A i \in 1..Len(s) : f[i] = s[i]
       /\ \A i \in 1..2 : f[Len(s) + i] = c[i]
  <2>1. /\ s \o c \in Seq(Bytes) /\ Len(s \o c) = Len(s) + Len(c)
        /\ \A i \in 1..Len(s) : (s \o c)[i] = s[i]
        /\ \A i \in 1..Len(c) : (s \o c)[Len(s) + i] = c[i]
    <3>1. s \in Seq(Bytes)
      BY <1>9
    <3>2. c \in Seq(Bytes)
      BY <1>4
    <3> QED BY ONLY <3>1, <3>2, Joined
  <2>2. f = s \o c
    BY <1>6 DEF f, s, t
  <2> QED BY <1>4, <2>1, <2>2
<1>12. Len(f) = Long(p) /\ Long(p) \in Nat /\ Long(p) - CrcLen = Len(s)
  <2>1. Long(p) = 3 + HeaderRest + n + 2
    BY DEF Long, SigLen, CrcLen, n
  <2> QED BY <1>1, <1>7, <1>9, <1>11, <2>1 DEF CrcLen
<1>13. f[Long(p)] = <<"crc", p, CrcLen>>
  BY <1>4, <1>11, <1>12 DEF CrcLen
<1>14. ASSUME NEW i \in 1..Len(f), IsLast(f[i]) PROVE i = Long(p)
  <2>1. i > Len(s)
    BY <1>10, <1>11, <1>14, LenProperties, <1>9
  <2>2. i = Len(s) + 1 \/ i = Len(s) + 2
    BY <1>11, <1>12, <2>1
  <2>3. ~IsLast(f[Len(s) + 1])
    BY <1>4, <1>11
  <2> QED BY <1>12, <1>11, <1>14, <2>2, <2>3
<1>15. First(f, Len(s)) = s
  <2>1. /\ First(f, Len(s)) \in Seq(Bytes) /\ Len(First(f, Len(s))) = Len(s)
        /\ \A i \in 1..Len(s) : First(f, Len(s))[i] = f[i]
    <3>1. Len(s) \in 0..Len(f) /\ f \in Seq(Bytes)
      BY <1>1, <1>7, <1>9, <1>11
    <3> QED BY ONLY <3>1, Parts
  <2> QED BY <1>9, <1>11, <2>1, SeqEqual
<1>16. Without(s, 3) = t
  <2>1. /\ Without(s, 3) \in Seq(Bytes) /\ Len(Without(s, 3)) = Len(t)
        /\ \A i \in 1..Len(t) : Without(s, 3)[i] = s[i + 3]
    <3>1. 3 \in 0..Len(s) /\ Len(s) - 3 = Len(t)
      BY <1>1, <1>7, <1>9
    <3>2. /\ Without(s, 3) \in Seq(Bytes) /\ Len(Without(s, 3)) = Len(s) - 3
          /\ \A i \in 1..(Len(s) - 3) : Without(s, 3)[i] = s[i + 3]
      <4>1. s \in Seq(Bytes)
        BY <1>9
      <4>2. 3 \in 0..Len(s)
        BY <3>1
      <4> QED BY ONLY <4>1, <4>2, Parts
    <3> QED BY <3>1, <3>2
  <2>2. ASSUME NEW i \in 1..Len(t) PROVE Without(s, 3)[i] = t[i]
    BY <1>7, <1>1, <1>9, <2>1
  <2> QED BY <1>7, <2>1, <2>2, SeqEqual
<1>17. t[1] = <<"head", p, 1>>
  BY <1>1, <1>2, <1>7
<1> QED BY <1>2, <1>7, <1>11, <1>12, <1>13, <1>14, <1>15, <1>16, <1>17 DEF h, t, f, n, SigLen

LEMMA NumberIs ==
  ASSUME PacketsType, NEW b \in Bytes
  PROVE  b[2] \in 0..Len(packets)
<1>1. Len(packets) \in Nat
  BY LenProperties DEF PacketsType
<1>2. CASE b \in {Noise} \cup {Sig[i] : i \in 1..SigLen}
  BY <1>1, <1>2 DEF Noise, Sig, Byte, SigLen
<1>3. CASE b \in {"head", "data", "crc"} \X Packets \X Nat
  BY <1>1, <1>3 DEF Packets
<1> QED BY <1>2, <1>3 DEF Bytes

-----------------------------------------------------------------------------
(* Sequences of bytes in which last bytes of frames come in the order of   *)
(* their packets; with none of them; with one at most, at their end.       *)
Rises(s) == \A i, j \in 1..Len(s) :
              i < j /\ IsLast(s[i]) /\ IsLast(s[j]) => s[i][2] < s[j][2]
Plain(s) == \A i \in 1..Len(s) : ~IsLast(s[i])
EndsOf(s, p) == \A i \in 1..Len(s) : IsLast(s[i]) => i = Len(s) /\ s[i][2] = p
Below(s, m)  == \A i \in 1..Len(s) : IsLast(s[i]) => s[i][2] < m
Above(s, m)  == \A i \in 1..Len(s) : IsLast(s[i]) => m < s[i][2]

LEMMA LeftRises ==
  ASSUME NEW S, NEW s \in Seq(S), NEW k \in 0..Len(s), Rises(s)
  PROVE  /\ Rises(Without(s, k))
         /\ \A m : Below(s, m) => Below(Without(s, k), m)
         /\ \A m : Above(s, m) => Above(Without(s, k), m)
<1> DEFINE t == Without(s, k)
<1>1. Len(t) = Len(s) - k /\ \A i \in 1..Len(t) : t[i] = s[i + k]
  BY Parts
<1>2. Len(s) \in Nat
  BY LenProperties
<1> HIDE DEF t
<1>3. ASSUME NEW i \in 1..Len(t) PROVE i + k \in 1..Len(s) /\ t[i] = s[i + k]
  BY <1>1, <1>2
<1>4. Rises(t)
  <2> SUFFICES ASSUME NEW i \in 1..Len(t), NEW j \in 1..Len(t), i < j,
                      IsLast(t[i]), IsLast(t[j])
               PROVE  t[i][2] < t[j][2]
    BY DEF Rises
  <2>1. i + k \in 1..Len(s) /\ j + k \in 1..Len(s) /\ i + k < j + k
    BY <1>1, <1>2
  <2>2. t[i] = s[i + k] /\ t[j] = s[j + k]
    BY <1>3
  <2> QED BY <2>1, <2>2 DEF Rises
<1>5. ASSUME NEW m, Below(s, m) PROVE Below(t, m)
  BY <1>3, <1>5 DEF Below
<1>6. ASSUME NEW m, Above(s, m) PROVE Above(t, m)
  BY <1>3, <1>6 DEF Above
<1> QED BY <1>4, <1>5, <1>6 DEF t

(* What is in the sequences at a place of their concatenation.             *)
LEMMA Place ==
  ASSUME NEW S, NEW s \in Seq(S), NEW t \in Seq(S), NEW i \in 1..Len(s \o t)
  PROVE  \/ i \in 1..Len(s) /\ (s \o t)[i] = s[i]
         \/ i - Len(s) \in 1..Len(t) /\ (s \o t)[i] = t[i - Len(s)]
<1>1. /\ Len(s \o t) = Len(s) + Len(t) /\ Len(s) \in Nat /\ Len(t) \in Nat
      /\ \A n \in 1..Len(s) : (s \o t)[n] = s[n]
      /\ \A n \in 1..Len(t) : (s \o t)[Len(s) + n] = t[n]
  BY Joined
<1>2. CASE i <= Len(s)
  BY <1>1, <1>2
<1>3. CASE i > Len(s)
  <2>1. i - Len(s) \in 1..Len(t) /\ Len(s) + (i - Len(s)) = i
    BY <1>1, <1>3
  <2> QED BY <1>1, <2>1
<1> QED BY <1>1, <1>2, <1>3

LEMMA LongerRises ==
  ASSUME NEW S, NEW s \in Seq(S), NEW t \in Seq(S), NEW p, Rises(s), EndsOf(t, p), Below(s, p)
  PROVE  /\ Rises(s \o t)
         /\ \A m : Below(s, m) /\ (p < m \/ Plain(t)) => Below(s \o t, m)
         /\ \A m : Above(s, m) /\ (m < p \/ Plain(t)) => Above(s \o t, m)
<1> DEFINE u == s \o t
<1>1. Len(s) \in Nat /\ Len(t) \in Nat /\ Len(u) = Len(s) + Len(t)
  BY Joined
<1>2. ASSUME NEW i \in 1..Len(u)
      PROVE  \/ i \in 1..Len(s) /\ u[i] = s[i]
             \/ i - Len(s) \in 1..Len(t) /\ u[i] = t[i - Len(s)]
  BY Place
<1> HIDE DEF u
<1>3. ASSUME NEW i \in 1..Len(u), IsLast(u[i])
      PROVE  \/ i \in 1..Len(s) /\ u[i] = s[i]
             \/ i = Len(u) /\ ~(i \in 1..Len(s)) /\ u[i][2] = p /\ ~Plain(t)
  <2>1. CASE i - Len(s) \in 1..Len(t) /\ u[i] = t[i - Len(s)]
    <3>1. i - Len(s) = Len(t) /\ u[i][2] = p /\ ~Plain(t)
      BY <1>3, <2>1 DEF EndsOf, Plain
    <3>2. i = Len(u) /\ ~(i \in 1..Len(s))
      BY <1>1, <2>1, <3>1
    <3> QED BY <3>1, <3>2
  <2> QED BY <1>2, <2>1
<1>4. Rises(u)
  <2> SUFFICES ASSUME NEW i \in 1..Len(u), NEW j \in 1..Len(u), i < j,
                      IsLast(u[i]), IsLast(u[j])
               PROVE  u[i][2] < u[j][2]
    BY DEF Rises
  <2>1. i # Len(u)
    BY <1>1
  <2>2. i \in 1..Len(s) /\ u[i] = s[i]
    BY <1>3, <2>1
  <2>3. CASE j \in 1..Len(s) /\ u[j] = s[j]
    BY <2>2, <2>3 DEF Rises
  <2>4. CASE u[j][2] = p
    BY <2>2, <2>4 DEF Below
  <2> QED BY <1>3, <2>3, <2>4
<1>5. ASSUME NEW m, Below(s, m), p < m \/ Plain(t) PROVE Below(u, m)
  BY <1>3, <1>5 DEF Below
<1>6. ASSUME NEW m, Above(s, m), m < p \/ Plain(t) PROVE Above(u, m)
  BY <1>3, <1>6 DEF Above
<1> QED BY <1>4, <1>5, <1>6 DEF u

LEMMA PlainThenEnds ==
  ASSUME NEW S, NEW s \in Seq(S), NEW t \in Seq(S), NEW p, Plain(s), EndsOf(t, p)
  PROVE  EndsOf(s \o t, p)
<1> DEFINE u == s \o t
<1>1. Len(s) \in Nat /\ Len(t) \in Nat /\ Len(u) = Len(s) + Len(t)
  BY Joined
<1>2. ASSUME NEW i \in 1..Len(u)
      PROVE  \/ i \in 1..Len(s) /\ u[i] = s[i]
             \/ i - Len(s) \in 1..Len(t) /\ u[i] = t[i - Len(s)]
  BY Place
<1> HIDE DEF u
<1>3. ASSUME NEW i \in 1..Len(u), IsLast(u[i]) PROVE i = Len(u) /\ u[i][2] = p
  <2>1. ~(i \in 1..Len(s) /\ u[i] = s[i])
    BY <1>3 DEF Plain
  <2>2. i - Len(s) \in 1..Len(t) /\ u[i] = t[i - Len(s)]
    BY <1>2, <2>1
  <2>3. i - Len(s) = Len(t) /\ u[i][2] = p
    BY <1>3, <2>2 DEF EndsOf
  <2> QED BY <1>1, <2>3
<1> QED BY <1>3 DEF EndsOf, u

LEMMA FrameEnds ==
  ASSUME PacketsType, NEW p \in Packets
  PROVE  /\ Frame(p) \in Seq(Bytes) /\ EndsOf(Frame(p), p)
         /\ \A k \in 0..(Len(Frame(p)) - 1) :
              First(Frame(p), k) \in Seq(Bytes) /\ Plain(First(Frame(p), k))
         /\ \A k \in 0..Len(Frame(p)) :
              Without(Frame(p), k) \in Seq(Bytes) /\ EndsOf(Without(Frame(p), k), p)
<1> DEFINE f == Frame(p)
<1>1. /\ f \in Seq(Bytes) /\ Len(f) = Long(p) /\ f[Long(p)] = <<"crc", p, CrcLen>>
      /\ \A i \in 1..Len(f) : IsLast(f[i]) => i = Long(p)
  BY FrameIs
<1>2. Len(f) \in Nat
  BY <1>1, LenProperties
<1> HIDE DEF f
<1>3. EndsOf(f, p)
  BY <1>1 DEF EndsOf
<1>4. ASSUME NEW k \in 0..(Len(f) - 1)
      PROVE  First(f, k) \in Seq(Bytes) /\ Plain(First(f, k))
  <2>1. k \in 0..Len(f)
    BY <1>2
  <2>2. /\ First(f, k) \in Seq(Bytes) /\ Len(First(f, k)) = k
        /\ \A i \in 1..k : First(f, k)[i] = f[i]
    BY <1>1, <2>1, Parts
  <2>3. ASSUME NEW i \in 1..k PROVE i \in 1..Len(f) /\ i # Len(f)
    BY <1>2
  <2> QED BY <1>1, <2>2, <2>3 DEF Plain
<1>5. ASSUME NEW k \in 0..Len(f)
      PROVE  Without(f, k) \in Seq(Bytes) /\ EndsOf(Without(f, k), p)
  <2>1. /\ Without(f, k) \in Seq(Bytes) /\ Len(Without(f, k)) = Len(f) - k
        /\ \A i \in 1..(Len(f) - k) : Without(f, k)[i] = f[i + k]
    BY <1>1, Parts
  <2>2. ASSUME NEW i \in 1..Len(Without(f, k)), IsLast(Without(f, k)[i])
        PROVE  i = Len(Without(f, k)) /\ Without(f, k)[i][2] = p
    <3>1. i \in 1..(Len(f) - k) /\ i + k \in 1..Len(f) /\ Without(f, k)[i] = f[i + k]
      BY <1>2, <2>1
    <3>2. i + k = Len(f) /\ f[i + k][2] = p
      BY <2>2, <3>1, <1>3 DEF EndsOf
    <3> QED BY <1>2, <2>1, <3>1, <3>2
  <2> QED BY <2>1, <2>2 DEF EndsOf
<1> QED BY <1>1, <1>3, <1>4, <1>5 DEF f

LEMMA DamagedEnds ==
  ASSUME PacketsType, NEW p \in Packets, NEW s \in Damaged(Frame(p))
  PROVE  s \in Seq(Bytes) /\ EndsOf(s, p)
<1> DEFINE f == Frame(p)
<1>1. f \in Seq(Bytes) /\ Len(f) \in Nat /\ DOMAIN f = 1..Len(f)
  BY FrameEnds, LenProperties
<1>2. PICK i \in 1..Len(f) : \/ s = First(f, i - 1) \o Without(f, i)
                             \/ s = First(f, i - 1) \o <<Noise>> \o Without(f, i)
                             \/ s = First(f, i - 1) \o <<Noise>> \o Without(f, i - 1)
  BY <1>1 DEF Damaged
<1> DEFINE a == First(f, i - 1)
           b == Without(f, i)
           c == Without(f, i - 1)
<1>3. /\ a \in Seq(Bytes) /\ Plain(a)
      /\ b \in Seq(Bytes) /\ EndsOf(b, p) /\ c \in Seq(Bytes) /\ EndsOf(c, p)
  <2>1. i - 1 \in 0..(Len(f) - 1) /\ i - 1 \in 0..Len(f) /\ i \in 0..Len(f)
    BY <1>1
  <2> HIDE DEF First, Without
  <2> QED BY <2>1, FrameEnds
<1>4. <<Noise>> \in Seq(Bytes) /\ Plain(<<Noise>>)
  BY DEF Bytes, Plain, IsLast, Noise, Byte
<1> DEFINE n == <<Noise>>
<1>5. /\ s \in {a \o b, (a \o n) \o b, (a \o n) \o c}
  BY <1>2
<1> HIDE DEF a, b, c, n, f
<1>6. a \o n \in Seq(Bytes) /\ Plain(a \o n)
  <2>1. a \in Seq(Bytes) /\ n \in Seq(Bytes)
    BY <1>3, <1>4 DEF n
  <2>2. Len(a \o n) \in Nat /\ a \o n \in Seq(Bytes)
    BY <2>1, Joined, LenProperties
  <2>3. ASSUME NEW m \in 1..Len(a \o n) PROVE ~IsLast((a \o n)[m])
    <3>1. \/ m \in 1..Len(a) /\ (a \o n)[m] = a[m]
          \/ m - Len(a) \in 1..Len(n) /\ (a \o n)[m] = n[m - Len(a)]
      BY ONLY <2>1, <2>3, Place
    <3> QED BY <1>3, <1>4, <3>1 DEF Plain, n
  <2> QED BY <2>2, <2>3 DEF Plain
<1>7. ASSUME NEW x \in Seq(Bytes), NEW y \in Seq(Bytes), Plain(x), EndsOf(y, p)
      PROVE  x \o y \in Seq(Bytes) /\ EndsOf(x \o y, p)
  <2>1. x \o y \in Seq(Bytes)
    BY ONLY <1>7, Joined
  <2> QED BY ONLY <1>7, <2>1, PlainThenEnds
<1> QED BY <1>3, <1>5, <1>6, <1>7

-----------------------------------------------------------------------------
(* The inductive invariant.  What is on its way to slp_rx is what was      *)
(* peeked at and then what is on the line: last bytes of frames come in it *)
(* in the order of their packets, after those of what slp_rx returned, and *)
(* before the one s_write has still to write.                              *)
Ahead    == readAhead \o line
Returned == {Content(p) : p \in Packets}
Number(n) == delivered[n][1][2]

SendTypes ==
  /\ PacketsType
  /\ tx \in [of : Nat, total : Nat] /\ (tx = NoTx \/ (tx.of = Len(packets) /\ tx.of > 0))
  /\ written \subseteq Packets /\ from \in 0..Len(packets)

LineTypes ==
  /\ line \in Seq(Bytes) /\ readAhead \in Seq(Bytes) /\ Len(readAhead) <= PeekLen
  /\ timed \in BOOLEAN /\ blocked \in BOOLEAN /\ hungup \in BOOLEAN

RxTypes ==
  /\ pc \in {"detect", "rx", "idle", "failed"}
  /\ frame \in Seq(Bytes) /\ expect \in Nat \ {0}
  /\ \/ state = "sig"    /\ Len(frame) + expect = SigLen
     \/ state = "header" /\ Len(frame) + expect = PeekLen
     \/ \E p \in Packets :
          /\ PeekLen <= Len(frame) /\ frame[PeekLen] = <<"head", p, HeaderRest>>
          /\ \/ state = "data" /\ Len(frame) + expect = PeekLen + Len(packets[p].data)
             \/ state = "crc"  /\ Len(frame) + expect = Long(p)

Delivers ==
  /\ delivered \in Seq(Returned)
  /\ \A i, j \in 1..Len(delivered) : i < j => Number(i) < Number(j)

Ordered ==
  /\ Rises(Ahead)
  /\ \A n \in 1..Len(delivered) : Above(Ahead, Number(n))
  /\ tx # NoTx => /\ Below(Ahead, tx.of)
                  /\ \A n \in 1..Len(delivered) : Number(n) < tx.of

IInv == SendTypes /\ LineTypes /\ RxTypes /\ Delivers /\ Ordered

LEMMA NumberOf ==
  ASSUME PacketsType, Delivers, NEW n \in 1..Len(delivered)
  PROVE  \E p \in Packets : delivered[n] = Content(p) /\ Number(n) = p
<1>1. delivered[n] \in Returned
  BY LenProperties DEF Delivers
<1>2. PICK p \in Packets : delivered[n] = Content(p)
  BY <1>1 DEF Returned
<1>3. Content(p)[1] = <<"head", p, 1>>
  BY FrameIs
<1> QED BY <1>2, <1>3 DEF Number

(* Nothing that is made of the packets changes unless they do.             *)
LEMMA SamePackets ==
  ASSUME UNCHANGED packets
  PROVE  /\ Packets' = Packets /\ Bytes' = Bytes /\ Returned' = Returned
         /\ PacketsType' = PacketsType
         /\ \A p \in Packets : Frame(p)' = Frame(p) /\ Content(p)' = Content(p)
                               /\ Long(p)' = Long(p)
<1>1. Packets' = Packets /\ PacketsType' = PacketsType
  BY DEF Packets, PacketsType
<1>2. ASSUME NEW p \in Packets
      PROVE  Frame(p)' = Frame(p) /\ Content(p)' = Content(p) /\ Long(p)' = Long(p)
  BY DEF Frame, Content, Header, Data, Long
<1>3. Bytes' = Bytes
  BY <1>1 DEF Bytes
<1>4. Returned' = Returned
  BY <1>1, <1>2 DEF Returned
<1> QED BY <1>1, <1>2, <1>3, <1>4

(* What is ahead stays or gets shorter at its beginning.                   *)
LEMMA ShorterOrdered ==
  ASSUME IInv, UNCHANGED <<packets, delivered>>, tx' \in {tx, NoTx},
         NEW k \in 0..Len(Ahead), Ahead' = Without(Ahead, k)
  PROVE  Ordered'
<1>1. Ahead \in Seq(Bytes)
  BY ConcatProperties DEF IInv, LineTypes, Ahead
<1> DEFINE s == Ahead
           t == Without(s, k)
<1>2. Rises(s)
  BY DEF IInv, Ordered
<1>3. /\ Rises(t)
      /\ \A m : Below(s, m) => Below(t, m)
      /\ \A m : Above(s, m) => Above(t, m)
  <2> HIDE DEF Ahead
  <2> QED BY ONLY <1>1, <1>2, LeftRises, k \in 0..Len(s)
<1>4. Ahead' = t
  OBVIOUS
<1> HIDE DEF s, t, Ahead
<1>5. ASSUME NEW n \in 1..Len(delivered) PROVE Number(n)' = Number(n)
  BY DEF Number
<1>6. /\ \A n \in 1..Len(delivered) : Above(s, Number(n))
      /\ tx # NoTx => /\ Below(s, tx.of)
                      /\ \A n \in 1..Len(delivered) : Number(n) < tx.of
  BY DEF IInv, Ordered, s
<1>7. Rises(Ahead')
  BY <1>3, <1>4
<1>8. \A n \in 1..Len(delivered) : Above(Ahead', Number(n)')
  BY <1>3, <1>4, <1>5, <1>6
<1>9. ASSUME tx' # NoTx
      PROVE  Below(Ahead', tx'.of) /\ \A n \in 1..Len(delivered) : Number(n)' < tx'.of
  BY <1>3, <1>4, <1>5, <1>6, <1>9
<1> QED BY <1>7, <1>8, <1>9 DEF Ordered, Rises, Above, Below

(* What is written comes behind it.                                        *)
LEMMA LongerOrdered ==
  ASSUME IInv, tx # NoTx, UNCHANGED <<packets, delivered>>,
         NEW t \in Seq(Bytes), EndsOf(t, tx.of), Ahead' = Ahead \o t,
         \/ tx' = NoTx
         \/ tx'.of = tx.of /\ Plain(t)
  PROVE  Ordered'
<1>1. Ahead \in Seq(Bytes)
  BY ConcatProperties DEF IInv, LineTypes, Ahead
<1> DEFINE s == Ahead
           u == s \o t
<1>2. /\ Rises(s) /\ Below(s, tx.of)
      /\ \A n \in 1..Len(delivered) : Above(s, Number(n)) /\ Number(n) < tx.of
  BY DEF IInv, Ordered
<1>3. /\ Rises(u)
      /\ \A m : Below(s, m) /\ (tx.of < m \/ Plain(t)) => Below(u, m)
      /\ \A m : Above(s, m) /\ (m < tx.of \/ Plain(t)) => Above(u, m)
  <2> HIDE DEF Ahead
  <2> QED BY ONLY <1>1, <1>2, LongerRises, t \in Seq(Bytes), EndsOf(t, tx.of)
<1>4. Ahead' = u
  OBVIOUS
<1> HIDE DEF s, u, Ahead
<1>5. ASSUME NEW n \in 1..Len(delivered) PROVE Number(n)' = Number(n)
  BY DEF Number
<1>6. Rises(Ahead')
  BY <1>3, <1>4
<1>7. ASSUME NEW n \in 1..Len(delivered) PROVE Above(Ahead', Number(n)')
  BY <1>2, <1>3, <1>4, <1>5
<1>8. ASSUME tx' # NoTx
      PROVE  Below(Ahead', tx'.of) /\ \A n \in 1..Len(delivered) : Number(n)' < tx'.of
  BY <1>2, <1>3, <1>4, <1>5, <1>8
<1> QED BY <1>6, <1>7, <1>8 DEF Ordered, Rises, Above, Below

-----------------------------------------------------------------------------
(* What the other parts of the invariant are not disturbed by.             *)
LEMMA SameRx ==
  ASSUME RxTypes, UNCHANGED <<packets, pc, slp>>
  PROVE  RxTypes'
<1>1. UNCHANGED <<packets, pc, state, frame, expect>>
  BY DEF slp
<1>2. Packets' = Packets /\ Bytes' = Bytes /\ \A p \in Packets : Long(p)' = Long(p)
  BY <1>1, SamePackets
<1> QED BY <1>1, <1>2 DEF RxTypes

LEMMA SameDelivers ==
  ASSUME Delivers, UNCHANGED <<packets, delivered>>
  PROVE  Delivers'
<1>1. Returned' = Returned
  BY SamePackets
<1> QED BY <1>1 DEF Delivers, Number

LEMMA SameLine ==
  ASSUME LineTypes, UNCHANGED <<packets, line, readAhead>>,
         {timed', blocked', hungup'} \subseteq BOOLEAN
  PROVE  LineTypes'
<1>1. Bytes' = Bytes
  BY SamePackets
<1> QED BY <1>1 DEF LineTypes, PeekLen, SigLen

LEMMA StaysOrdered ==
  ASSUME IInv, UNCHANGED <<packets, delivered>>, Ahead' = Ahead, tx' \in {tx, NoTx}
  PROVE  Ordered'
<1>1. Ahead \in Seq(Bytes)
  BY ConcatProperties DEF IInv, LineTypes, Ahead
<1> DEFINE s == Ahead
<1>2. Len(s) \in Nat /\ Len(s) \in Nat
  BY <1>1, LenProperties
<1>3. 0 \in 0..Len(s)
  BY <1>2
<1>4. Without(s, 0) = s
  <2>1. /\ Without(s, 0) \in Seq(Bytes) /\ Len(Without(s, 0)) = Len(s) - 0
        /\ \A i \in 1..(Len(s) - 0) : Without(s, 0)[i] = s[i + 0]
    <3> HIDE DEF Ahead
    <3> QED BY ONLY <1>1, <1>3, Parts
  <2> HIDE DEF s
  <2>2. Len(Without(s, 0)) = Len(s) /\ \A i \in 1..Len(s) : Without(s, 0)[i] = s[i]
    BY <2>1, <1>2
  <2> QED BY <1>1, <2>1, <2>2, SeqEqual DEF s
<1> QED BY <1>3, <1>4, ShorterOrdered

LEMMA SameOrdered ==
  ASSUME IInv, UNCHANGED <<packets, delivered, line, readAhead>>, tx' \in {tx, NoTx}
  PROVE  Ordered'
<1>1. Ahead' = Ahead
  BY DEF Ahead
<1> QED BY <1>1, StaysOrdered

-----------------------------------------------------------------------------
(* The sender.                                                             *)
LEMMA SlpTxKeeps ==
  ASSUME IInv, SlpTx
  PROVE  IInv'
<1> USE DEF IInv, sender, reader, slp, env
<1>1. PICK d \in Payloads, w \in {FALSE, from = 0} :
        /\ packets' = Append(packets, [data |-> d, wake |-> w])
        /\ tx' = [of |-> Len(packets) + 1, total |-> 3 + HeaderRest + Len(d) + CrcLen]
  BY DEF SlpTx
<1>2. /\ tx = NoTx
      /\ UNCHANGED <<written, line, hungup, harms, alarms, pc, timed, blocked, readAhead,
                     state, frame, expect, from, delivered>>
  BY DEF SlpTx
<1>3. /\ PacketsType' /\ Len(packets') = Len(packets) + 1 /\ Len(packets) \in Nat
      /\ \A p \in Packets : packets'[p] = packets[p]
  <2>1. [data |-> d, wake |-> w] \in [data : Payloads, wake : BOOLEAN]
    OBVIOUS
  <2>2. Len(packets) \in Nat
    BY LenProperties DEF SendTypes, PacketsType
  <2> QED BY <1>1, <2>1, <2>2, AppendProperties DEF SendTypes, PacketsType, Packets
<1>4. Packets \subseteq Packets'
  BY <1>3 DEF Packets
<1>5. ASSUME NEW p \in Packets
      PROVE  p \in Packets' /\ Content(p)' = Content(p) /\ Long(p)' = Long(p)
             /\ packets'[p] = packets[p]
  BY <1>3, <1>4 DEF Content, Header, Data, Long
<1>6. Bytes \subseteq Bytes' /\ Returned \subseteq Returned'
  BY <1>4, <1>5 DEF Bytes, Returned
<1>7. Seq(Bytes) \subseteq Seq(Bytes') /\ Seq(Returned) \subseteq Seq(Returned')
  BY <1>6, SeqMonotonic
<1>8. SendTypes'
  <2>1. tx' \in [of : Nat, total : Nat] /\ tx'.of = Len(packets') /\ tx'.of > 0
    <3>1. d \in Seq({"data", "be", "ef", "ed"}) /\ HeaderRest \in Nat
      BY SerialAssumption
    <3>2. Len(d) \in Nat
      BY <3>1, LenProperties
    <3> QED BY <1>1, <1>3, <3>1, <3>2 DEF CrcLen
  <2>2. written' \subseteq Packets' /\ from' \in 0..Len(packets')
    BY <1>2, <1>3, <1>4 DEF SendTypes
  <2> QED BY <1>3, <2>1, <2>2 DEF SendTypes
<1>9. LineTypes'
  BY <1>2, <1>7 DEF LineTypes, PeekLen, SigLen
<1>10. RxTypes'
  <2>1. /\ pc' \in {"detect", "rx", "idle", "failed"}
        /\ frame' \in Seq(Bytes') /\ expect' \in Nat \ {0}
    BY <1>2, <1>7 DEF RxTypes
  <2>2. CASE state = "sig" /\ Len(frame) + expect = SigLen
    BY <1>2, <2>1, <2>2 DEF RxTypes, SigLen
  <2>3. CASE state = "header" /\ Len(frame) + expect = PeekLen
    BY <1>2, <2>1, <2>3 DEF RxTypes, PeekLen, SigLen
  <2>4. CASE \E p \in Packets :
               /\ PeekLen <= Len(frame) /\ frame[PeekLen] = <<"head", p, HeaderRest>>
               /\ \/ state = "data" /\ Len(frame) + expect = PeekLen + Len(packets[p].data)
                  \/ state = "crc"  /\ Len(frame) + expect = Long(p)
    <3>1. PICK p \in Packets :
               /\ PeekLen <= Len(frame) /\ frame[PeekLen] = <<"head", p, HeaderRest>>
               /\ \/ state = "data" /\ Len(frame) + expect = PeekLen + Len(packets[p].data)
                  \/ state = "crc"  /\ Len(frame) + expect = Long(p)
      BY <2>4
    <3>2. /\ PeekLen <= Len(frame') /\ frame'[PeekLen] = <<"head", p, HeaderRest>>
          /\ \/ state' = "data" /\ Len(frame') + expect' = PeekLen + Len(packets'[p].data)
             \/ state' = "crc"  /\ Len(frame') + expect' = Long(p)'
      BY <1>2, <1>5, <3>1
    <3>3. p \in Packets'
      BY <1>5
    <3> QED BY <2>1, <3>2, <3>3 DEF RxTypes, PeekLen, SigLen
  <2> QED BY <2>2, <2>3, <2>4 DEF RxTypes
<1>11. Delivers'
  BY <1>2, <1>7 DEF Delivers, Number
<1>12. Ordered'
  <2>1. Ahead' = Ahead /\ Ahead \in Seq(Bytes)
    BY <1>2, ConcatProperties DEF LineTypes, Ahead
  <2>2. ASSUME NEW n \in 1..Len(delivered)
        PROVE  Number(n)' = Number(n) /\ Number(n) < Len(packets) + 1
    <3>1. Number(n) \in Packets
      BY NumberOf DEF SendTypes
    <3> QED BY <1>2, <1>3, <3>1 DEF Number, Packets
  <2> DEFINE s == Ahead
  <2>3. Below(s, Len(packets) + 1)
    <3> SUFFICES ASSUME NEW i \in 1..Len(s) PROVE s[i][2] < Len(packets) + 1
      BY DEF Below
    <3>1. s[i] \in Bytes
      BY <2>1, LenProperties
    <3>2. s[i][2] \in 0..Len(packets)
      BY <3>1, NumberIs DEF SendTypes
    <3> QED BY <1>3, <3>2
  <2>4. Rises(s) /\ \A n \in 1..Len(delivered) : Above(s, Number(n))
    BY DEF Ordered
  <2>5. Ahead' = s /\ tx'.of = Len(packets) + 1 /\ delivered' = delivered
    BY <1>1, <1>2, <2>1
  <2> HIDE DEF s, Ahead
  <2> QED BY <2>2, <2>3, <2>4, <2>5 DEF Ordered, Rises, Above, Below
<1> QED BY <1>8, <1>9, <1>10, <1>11, <1>12

LEMMA Appended ==
  ASSUME LineTypes, NEW t \in Seq(Bytes), line' = line \o t, UNCHANGED readAhead
  PROVE  Ahead' = Ahead \o t /\ line' \in Seq(Bytes)
<1>1. line \in Seq(Bytes) /\ readAhead \in Seq(Bytes)
  BY DEF LineTypes
<1>2. (readAhead \o line) \o t = readAhead \o (line \o t)
  BY ONLY <1>1, ConcatAssociative, t \in Seq(Bytes)
<1>3. line \o t \in Seq(Bytes)
  BY ONLY <1>1, ConcatProperties, t \in Seq(Bytes)
<1> QED BY <1>2, <1>3 DEF Ahead

LEMMA WriteKeeps ==
  ASSUME IInv, Write
  PROVE  IInv'
<1>1. /\ tx # NoTx /\ tx' = NoTx /\ written' = written \cup {tx.of}
      /\ UNCHANGED <<packets, reader, slp, pc, timed, blocked, readAhead, from, delivered, hungup>>
  BY DEF Write, CanWrite, reader
<1>2. tx.of \in Packets /\ PacketsType
  BY <1>1 DEF IInv, SendTypes, Packets
<1>3. PICK t : t \in Seq(Bytes) /\ EndsOf(t, tx.of) /\ line' = line \o t
  <2>1. CASE line' = line \o Frame(tx.of)
    BY <1>2, <2>1, FrameEnds
  <2>2. CASE \E s \in Damaged(Frame(tx.of)) : line' = line \o s
    <3>1. PICK s \in Damaged(Frame(tx.of)) : line' = line \o s
      BY <2>2
    <3> QED BY <1>2, <3>1, DamagedEnds
  <2> QED BY <2>1, <2>2 DEF Write
<1>4. Ahead' = Ahead \o t /\ line' \in Seq(Bytes) /\ Bytes' = Bytes
  BY <1>1, <1>3, Appended, SamePackets DEF IInv
<1>5. Ordered'
  BY <1>1, <1>3, <1>4, LongerOrdered
<1>6. SendTypes'
  <2>1. PacketsType' /\ Packets' = Packets
    BY <1>1, <1>2, SamePackets
  <2>2. tx' \in [of : Nat, total : Nat]
    BY <1>1 DEF NoTx
  <2> QED BY <1>1, <1>2, <2>1, <2>2 DEF IInv, SendTypes
<1>7. LineTypes'
  BY <1>1, <1>4 DEF IInv, LineTypes, PeekLen, SigLen
<1> QED BY <1>1, <1>5, <1>6, <1>7, SameRx, SameDelivers DEF IInv

LEMMA WriteCutKeeps ==
  ASSUME IInv, WriteCut
  PROVE  IInv'
<1>1. /\ tx # NoTx
      /\ UNCHANGED <<packets, reader, slp, pc, timed, blocked, readAhead, from, delivered, hungup>>
  BY DEF WriteCut, CanWrite, reader
<1>2. tx.of \in Packets /\ PacketsType /\ tx \in [of : Nat, total : Nat]
      /\ tx.of = Len(packets) /\ tx.of > 0 /\ written \subseteq Packets
  BY <1>1 DEF IInv, SendTypes, Packets
<1>3. PICK k \in 1..(Len(Frame(tx.of)) - 1) :
        /\ line' = line \o First(Frame(tx.of), k)
        /\ IF k < tx.total
           THEN tx' = [tx EXCEPT !.total = @ - k] /\ UNCHANGED written
           ELSE tx' = NoTx /\ written' = written \cup {tx.of}
  BY DEF WriteCut
<1> DEFINE t == First(Frame(tx.of), k)
<1>4. t \in Seq(Bytes) /\ Plain(t)
  <2>1. Len(Frame(tx.of)) \in Nat
    BY <1>2, FrameEnds, LenProperties
  <2>2. k \in 0..(Len(Frame(tx.of)) - 1)
    BY <2>1
  <2> QED BY <1>2, <2>2, FrameEnds
<1>5. line' = line \o t
  BY <1>3
<1> HIDE DEF t
<1>6. Ahead' = Ahead \o t /\ line' \in Seq(Bytes) /\ Bytes' = Bytes
  BY <1>1, <1>4, <1>5, Appended, SamePackets DEF IInv
<1>7. /\ tx' \in [of : Nat, total : Nat]
      /\ \/ tx' = NoTx
         \/ tx'.of = tx.of
      /\ written' \subseteq Packets
  <2>1. CASE k < tx.total
    BY <1>2, <1>3, <2>1
  <2>2. CASE ~(k < tx.total)
    BY <1>2, <1>3, <2>2 DEF NoTx
  <2> QED BY <2>1, <2>2
<1>8. Ordered'
  <2>1. EndsOf(t, tx.of)
    BY <1>4 DEF Plain, EndsOf
  <2> QED BY <1>1, <1>4, <1>6, <1>7, <2>1, LongerOrdered
<1>9. SendTypes'
  <2>1. PacketsType' /\ Packets' = Packets
    BY <1>1, <1>2, SamePackets
  <2> QED BY <1>1, <1>2, <1>7, <2>1 DEF IInv, SendTypes
<1>10. LineTypes'
  BY <1>1, <1>6 DEF IInv, LineTypes, PeekLen, SigLen
<1> QED BY <1>1, <1>8, <1>9, <1>10, SameRx, SameDelivers DEF IInv

LEMMA WriteFailsKeeps ==
  ASSUME IInv, WriteFails
  PROVE  IInv'
<1>1. /\ tx' = NoTx
      /\ UNCHANGED <<packets, written, line, slp, pc, timed, blocked, readAhead, from, delivered, hungup>>
  BY DEF WriteFails, reader, env
<1>2. SendTypes'
  <2>1. PacketsType' = PacketsType /\ Packets' = Packets
    BY <1>1, SamePackets
  <2>2. tx' \in [of : Nat, total : Nat]
    BY <1>1 DEF NoTx
  <2> QED BY <1>1, <2>1, <2>2 DEF IInv, SendTypes
<1>3. LineTypes'
  BY <1>1, SameLine DEF IInv, LineTypes
<1> QED BY <1>1, <1>2, <1>3, SameRx, SameDelivers, SameOrdered DEF IInv

-----------------------------------------------------------------------------
(* The reader, and what it waits for.                                      *)
LEMMA SameSend ==
  ASSUME SendTypes, UNCHANGED <<sender, from>>
  PROVE  SendTypes'
<1>1. PacketsType' = PacketsType /\ Packets' = Packets
  BY SamePackets DEF sender
<1> QED BY <1>1 DEF SendTypes, sender

LEMMA PeekKeeps ==
  ASSUME IInv, Peek
  PROVE  IInv'
<1>1. /\ blocked' = FALSE
      /\ UNCHANGED <<packets, tx, written, slp, pc, timed, from, delivered, hungup>>
  BY DEF Peek, sender, env
<1>2. PICK k \in 1..Least(PeekLen - Len(readAhead), Len(line)) :
        readAhead' = readAhead \o First(line, k) /\ line' = Without(line, k)
  BY DEF Peek
<1>3. /\ line \in Seq(Bytes) /\ readAhead \in Seq(Bytes) /\ Len(readAhead) <= PeekLen
      /\ Len(line) \in Nat /\ Len(readAhead) \in Nat /\ PeekLen \in Nat
      /\ timed \in BOOLEAN /\ hungup \in BOOLEAN
  BY LenProperties, SerialAssumption DEF IInv, LineTypes, PeekLen, SigLen
<1>4. k \in 0..Len(line) /\ Len(readAhead) + k <= PeekLen
  BY <1>2, <1>3 DEF Least
<1> DEFINE a == First(line, k)
           b == Without(line, k)
<1>5. a \in Seq(Bytes) /\ Len(a) = k /\ b \in Seq(Bytes) /\ a \o b = line
  <2> HIDE DEF First, Without
  <2> QED BY ONLY <1>3, <1>4, Parts, Halves
<1>6. readAhead' = readAhead \o a /\ line' = b
  BY <1>2
<1> HIDE DEF a, b
<1>7. readAhead \o a \in Seq(Bytes) /\ Len(readAhead \o a) = Len(readAhead) + Len(a)
  BY ONLY <1>3, <1>5, ConcatProperties
<1>8. (readAhead \o a) \o b = readAhead \o (a \o b)
  <2>1. readAhead \in Seq(Bytes) /\ a \in Seq(Bytes) /\ b \in Seq(Bytes)
    BY <1>3, <1>5
  <2> QED BY ONLY <2>1, ConcatAssociative
<1>9. Ahead' = Ahead
  BY <1>5, <1>6, <1>8 DEF Ahead
<1>10. LineTypes'
  <2>1. Bytes' = Bytes
    BY <1>1, SamePackets
  <2> QED BY <1>1, <1>3, <1>4, <1>5, <1>6, <1>7, <2>1 DEF LineTypes, PeekLen, SigLen
<1>11. Ordered'
  <2>1. UNCHANGED <<packets, delivered, tx>>
    BY <1>1
  <2> QED BY <1>9, <2>1, StaysOrdered
<1> QED BY <1>1, <1>10, <1>11, SameSend, SameRx, SameDelivers DEF IInv, sender

LEMMA SkippedKeeps ==
  ASSUME LineTypes, NEW k \in 0..Len(readAhead),
         readAhead' = Without(readAhead, k), UNCHANGED <<packets, line>>
  PROVE  /\ Ahead' = Without(Ahead, k) /\ k \in 0..Len(Ahead)
         /\ readAhead' \in Seq(Bytes') /\ Len(readAhead') <= PeekLen
<1>1. line \in Seq(Bytes) /\ readAhead \in Seq(Bytes) /\ Len(readAhead) <= PeekLen
  BY DEF LineTypes
<1>2. Len(line) \in Nat /\ Len(readAhead) \in Nat /\ PeekLen \in Nat
  BY <1>1, LenProperties, SerialAssumption DEF PeekLen, SigLen
<1> DEFINE r == readAhead
           t == Without(r, k)
           u == t \o line
           s == r \o line
           v == Without(s, k)
<1>3. t \in Seq(Bytes) /\ Len(t) = Len(r) - k /\ \A i \in 1..(Len(r) - k) : t[i] = r[i + k]
  <2> HIDE DEF Without
  <2> QED BY ONLY <1>1, k \in 0..Len(readAhead), Parts
<1>4. /\ s \in Seq(Bytes) /\ Len(s) = Len(r) + Len(line)
      /\ \A i \in 1..Len(r) : s[i] = r[i]
      /\ \A i \in 1..Len(line) : s[Len(r) + i] = line[i]
  BY ONLY <1>1, Joined
<1>5. k \in 0..Len(s)
  BY <1>2, <1>4
<1>6. v \in Seq(Bytes) /\ Len(v) = Len(s) - k /\ \A i \in 1..(Len(s) - k) : v[i] = s[i + k]
  <2>1. s \in Seq(Bytes)
    BY <1>4
  <2> HIDE DEF Without, s
  <2> QED BY ONLY <2>1, <1>5, Parts
<1>7. /\ u \in Seq(Bytes) /\ Len(u) = Len(t) + Len(line)
      /\ \A i \in 1..Len(t) : u[i] = t[i]
      /\ \A i \in 1..Len(line) : u[Len(t) + i] = line[i]
  <2>1. t \in Seq(Bytes) /\ line \in Seq(Bytes)
    BY <1>1, <1>3
  <2> HIDE DEF t
  <2> QED BY ONLY <2>1, Joined
<1> HIDE DEF s, t, u, v
<1>8. ASSUME NEW i \in 1..Len(u) PROVE u[i] = v[i]
  <2>1. i + k \in 1..Len(s) /\ v[i] = s[i + k]
    <3>1. i \in 1..(Len(s) - k)
      BY <1>2, <1>3, <1>4, <1>7
    <3> QED BY <1>2, <1>4, <1>6, <3>1
  <2>2. CASE i <= Len(t)
    <3>1. u[i] = r[i + k] /\ i + k \in 1..Len(r)
      BY <1>2, <1>3, <1>7, <2>2
    <3> QED BY <1>4, <2>1, <3>1
  <2>3. CASE i > Len(t)
    <3>1. i - Len(t) \in 1..Len(line) /\ Len(t) + (i - Len(t)) = i
          /\ Len(r) + (i - Len(t)) = i + k
      BY <1>2, <1>3, <1>7, <2>3
    <3>2. u[Len(t) + (i - Len(t))] = line[i - Len(t)]
          /\ s[Len(r) + (i - Len(t))] = line[i - Len(t)]
      BY <1>4, <1>7, <3>1
    <3> QED BY <2>1, <3>1, <3>2
  <2> QED BY <1>2, <1>3, <2>2, <2>3
<1>9. u = v
  <2>1. Len(u) = Len(v)
    BY <1>2, <1>3, <1>4, <1>6, <1>7
  <2> QED BY <1>6, <1>7, <1>8, <2>1, SeqEqual
<1>10. readAhead' = t /\ Bytes' = Bytes
  BY SamePackets DEF t
<1> QED BY <1>1, <1>2, <1>3, <1>5, <1>9, <1>10 DEF Ahead, u, v, s

(* A header that is one tells of its packet.                               *)
LEMMA HeaderOf ==
  ASSUME PacketsType, NEW f \in Seq(Bytes), Len(f) = PeekLen, SumOk(Without(f, SigLen))
  PROVE  \E p \in Packets : f[PeekLen] = <<"head", p, HeaderRest>>
                            /\ Without(f, SigLen)[1] = <<"head", p, 1>>
<1>1. PICK p \in Packets : Without(f, SigLen) = Header(p)
  BY DEF SumOk
<1>2. /\ Len(Header(p)) = HeaderRest /\ HeaderRest \in Nat \ {0}
      /\ \A i \in 1..HeaderRest : Header(p)[i] = <<"head", p, i>>
  BY FrameIs, SerialAssumption
<1>3. PeekLen = 3 + HeaderRest /\ SigLen = 3
  BY DEF PeekLen, SigLen
<1>4. SigLen \in 0..Len(f) /\ Len(f) - SigLen = HeaderRest
  BY <1>2, <1>3
<1>5. \A i \in 1..HeaderRest : Without(f, SigLen)[i] = f[i + SigLen]
  <2>1. \A i \in 1..(Len(f) - SigLen) : Without(f, SigLen)[i] = f[i + SigLen]
    <3> HIDE DEF Without
    <3> QED BY ONLY <1>4, Parts, f \in Seq(Bytes)
  <2> QED BY <1>4, <2>1
<1>6. HeaderRest \in 1..HeaderRest /\ 1 \in 1..HeaderRest /\ HeaderRest + SigLen = PeekLen
  BY <1>2, <1>3
<1>7. Without(f, SigLen)[HeaderRest] = f[PeekLen]
  BY <1>5, <1>6
<1> QED BY <1>1, <1>2, <1>6, <1>7

LEMMA ExamineKeeps ==
  ASSUME IInv, Examine
  PROVE  IInv'
<1>1. /\ Len(readAhead) = PeekLen /\ pc = "detect"
      /\ UNCHANGED <<packets, tx, written, line, slp, state, frame, expect, timed, blocked,
                     delivered, hungup>>
  BY DEF Examine, sender, env, slp
<1>2. readAhead \in Seq(Bytes) /\ PacketsType /\ LineTypes
  BY DEF IInv, LineTypes, SendTypes
<1>3. PeekLen \in Nat /\ PeekLen = 3 + HeaderRest /\ HeaderRest \in Nat
  BY SerialAssumption DEF PeekLen, SigLen
<1>4. pc' \in {"rx", "detect"} /\ RxTypes'
  <2>1. pc' \in {"rx", "detect"}
    BY <1>1 DEF Examine
  <2>2. Packets' = Packets /\ Bytes' = Bytes /\ \A p \in Packets : Long(p)' = Long(p)
    BY <1>1, SamePackets
  <2> QED BY <1>1, <2>1, <2>2 DEF IInv, RxTypes
<1>5. CASE Opens
  <2>1. from' = readAhead[PeekLen][2] /\ readAhead' = readAhead
    BY <1>5 DEF Examine, Peeked
  <2>2. from' \in Packets
    <3>1. SumOk(Without(readAhead, SigLen))
      BY <1>5 DEF Opens
    <3>2. PICK p \in Packets : readAhead[PeekLen] = <<"head", p, HeaderRest>>
      BY <1>1, <1>2, <3>1, HeaderOf
    <3> QED BY <2>1, <3>2
  <2>3. SendTypes'
    <3>1. PacketsType' = PacketsType /\ Packets' = Packets
      BY <1>1, SamePackets
    <3>2. from' \in 0..Len(packets)
      BY <2>2 DEF Packets
    <3> QED BY <1>1, <3>1, <3>2 DEF IInv, SendTypes
  <2>4. LineTypes'
    BY <1>1, <2>1, SameLine DEF IInv, LineTypes
  <2> QED BY <1>1, <1>4, <2>1, <2>3, <2>4, SameDelivers, SameOrdered DEF IInv
<1>6. CASE ~Opens
  <2>1. readAhead' = Without(readAhead, ToSkip) /\ from' = from
    BY <1>6 DEF Examine
  <2>2. ToSkip \in 0..Len(readAhead)
    <3>1. ToSkip \in {1, PeekLen, SigLen}
      BY DEF ToSkip
    <3> QED BY <1>1, <1>3, <3>1 DEF SigLen
  <2>3. /\ Ahead' = Without(Ahead, ToSkip) /\ ToSkip \in 0..Len(Ahead)
        /\ readAhead' \in Seq(Bytes') /\ Len(readAhead') <= PeekLen
    BY <1>1, <1>2, <2>1, <2>2, SkippedKeeps
  <2>4. LineTypes'
    <3>1. Bytes' = Bytes
      BY <1>1, SamePackets
    <3> QED BY <1>1, <2>3, <3>1 DEF IInv, LineTypes, PeekLen, SigLen
  <2>5. Ordered'
    <3>1. UNCHANGED <<packets, delivered, tx>>
      BY <1>1
    <3> HIDE DEF Ahead
    <3> QED BY <2>3, <3>1, ShorterOrdered
  <2> QED BY <1>1, <1>4, <2>1, <2>4, <2>5, SameSend, SameDelivers DEF IInv, sender
<1> QED BY <1>5, <1>6

-----------------------------------------------------------------------------
(* slp_rx returns a packet: its last byte was just read.                   *)
LEMMA ReturnKeeps ==
  ASSUME IInv, UNCHANGED <<packets, tx>>,
         NEW k \in 1..Len(Ahead), Ahead' = Without(Ahead, k),
         NEW q \in Packets, Ahead[k] = <<"crc", q, CrcLen>>,
         delivered' = delivered \o <<Content(q)>>
  PROVE  Delivers' /\ Ordered'
<1> DEFINE s == Ahead
           t == Without(s, k)
           c == <<Content(q)>>
<1>0. PICK m : m = Len(delivered)
  OBVIOUS
<1>1. /\ s \in Seq(Bytes) /\ Len(s) \in Nat /\ k \in 1..Len(s) /\ k \in 0..Len(s)
      /\ delivered \in Seq(Returned) /\ m \in Nat
  <2>1. s \in Seq(Bytes) /\ delivered \in Seq(Returned)
    BY ConcatProperties DEF IInv, LineTypes, Ahead, Delivers
  <2>2. Len(s) \in Nat /\ m \in Nat
    BY <1>0, <2>1, LenProperties
  <2> QED BY <2>1, <2>2
<1>2. /\ Rises(s)
      /\ \A n \in 1..m : Above(s, Number(n))
      /\ tx # NoTx => /\ Below(s, tx.of)
                      /\ \A n \in 1..m : Number(n) < tx.of
  BY <1>0 DEF IInv, Ordered
<1>3. /\ Len(t) = Len(s) - k /\ \A i \in 1..(Len(s) - k) : t[i] = s[i + k]
      /\ Rises(t)
      /\ \A n : Below(s, n) => Below(t, n)
      /\ \A n : Above(s, n) => Above(t, n)
  <2>1. Len(t) = Len(s) - k /\ \A i \in 1..(Len(s) - k) : t[i] = s[i + k]
    <3> HIDE DEF Ahead, Without
    <3> QED BY ONLY <1>1, Parts
  <2>2. /\ Rises(t)
        /\ \A n : Below(s, n) => Below(t, n)
        /\ \A n : Above(s, n) => Above(t, n)
    <3> HIDE DEF Ahead
    <3> QED BY ONLY <1>1, <1>2, LeftRises
  <2> QED BY <2>1, <2>2
<1>4. Ahead' = t /\ s[k] = <<"crc", q, CrcLen>> /\ IsLast(s[k]) /\ s[k][2] = q
  BY DEF IsLast
<1>5. /\ delivered' \in Seq(Returned) /\ Len(delivered') = m + 1 /\ delivered'[m + 1] = Content(q)
      /\ \A n \in 1..m : delivered'[n] = delivered[n]
  <2>1. c \in Seq(Returned) /\ Len(c) = 1 /\ c[1] = Content(q)
    BY DEF Returned
  <2>2. delivered \in Seq(Returned)
    BY <1>1
  <2> DEFINE r == delivered \o c
  <2>3. /\ r \in Seq(Returned) /\ Len(r) = Len(delivered) + Len(c)
        /\ \A i \in 1..Len(delivered) : r[i] = delivered[i]
        /\ \A i \in 1..Len(c) : r[Len(delivered) + i] = c[i]
    <3>1. c \in Seq(Returned)
      BY <2>1
    <3> HIDE DEF c
    <3> QED BY ONLY <2>2, <3>1, Joined
  <2>4. delivered' = r
    OBVIOUS
  <2> HIDE DEF r, c
  <2>5. Len(r) = m + 1 /\ r[m + 1] = c[1]
    BY <1>0, <1>1, <2>1, <2>3
  <2> QED BY <1>0, <2>1, <2>3, <2>4, <2>5
<1>6. Content(q)[1][2] = q /\ q \in Nat
  BY FrameIs DEF IInv, SendTypes, Packets
<1>7. Number(m + 1)' = q /\ \A n \in 1..m : Number(n)' = Number(n)
  BY <1>5, <1>6 DEF Number
<1>8. ASSUME NEW n \in 1..m PROVE Number(n) < q
  <2>1. Above(s, Number(n))
    BY <1>2
  <2> HIDE DEF s
  <2> QED BY <1>1, <1>4, <2>1 DEF Above
<1> HIDE DEF s, t, Ahead
<1>9. Delivers'
  <2>1. Returned' = Returned
    BY SamePackets
  <2>2. ASSUME NEW i \in 1..(m + 1), NEW j \in 1..(m + 1), i < j
        PROVE  Number(i)' < Number(j)'
    <3>1. i \in 1..m
      BY <1>1, <2>2
    <3>2. CASE j = m + 1
      BY <1>7, <1>8, <3>1, <3>2
    <3>3. CASE j # m + 1
      <4>1. j \in 1..m
        BY <1>1, <3>3
      <4>2. Number(i) < Number(j)
        BY <1>0, <2>2, <3>1, <4>1 DEF IInv, Delivers
      <4> QED BY <1>7, <3>1, <4>1, <4>2
    <3> QED BY <3>2, <3>3
  <2> QED BY <1>5, <2>1, <2>2 DEF Delivers
<1>10. Above(t, q)
  <2> SUFFICES ASSUME NEW i \in 1..Len(t), IsLast(t[i]) PROVE q < t[i][2]
    BY DEF Above
  <2>1. i + k \in 1..Len(s) /\ k < i + k /\ i \in 1..(Len(s) - k)
    BY <1>1, <1>3
  <2>2. t[i] = s[i + k]
    BY <1>3, <2>1
  <2> QED BY <1>1, <2>2, <1>2, <1>4, <2>1 DEF Rises
<1>11. ASSUME NEW n \in 1..(m + 1) PROVE Above(t, Number(n)')
  <2>1. CASE n = m + 1
    BY <1>7, <1>10, <2>1
  <2>2. CASE n # m + 1
    <3>1. n \in 1..m
      BY <1>1, <2>2
    <3> QED BY <1>2, <1>3, <1>7, <3>1
  <2> QED BY <2>1, <2>2
<1>12. ASSUME tx # NoTx
       PROVE  Below(t, tx.of) /\ \A n \in 1..(m + 1) : Number(n)' < tx.of
  <2>1. Below(t, tx.of) /\ q < tx.of
    BY <1>1, <1>2, <1>3, <1>4, <1>12 DEF Below
  <2>2. ASSUME NEW n \in 1..(m + 1) PROVE Number(n)' < tx.of
    <3>1. CASE n = m + 1
      BY <1>7, <2>1, <3>1
    <3>2. CASE n # m + 1
      <4>1. n \in 1..m
        BY <1>1, <3>2
      <4> QED BY <1>2, <1>7, <1>12, <4>1
    <3> QED BY <3>1, <3>2
  <2> QED BY <2>1, <2>2
<1>13. Ordered'
  BY <1>3, <1>4, <1>5, <1>11, <1>12 DEF Ordered, Rises, Above, Below
<1> QED BY <1>9, <1>13

(* What s_read adds to slp_buf.                                            *)
LEMMA Grown ==
  ASSUME IInv, NEW k \in 1..Len(Ahead)
  PROVE  LET f == frame \o First(Ahead, k) IN
           /\ f \in Seq(Bytes) /\ Len(f) = Len(frame) + k /\ f[Len(f)] = Ahead[k]
           /\ \A i \in 1..Len(frame) : f[i] = frame[i]
           /\ Len(First(Ahead, k)) = k /\ Len(frame) \in Nat
<1> DEFINE s == Ahead
           a == First(s, k)
           f == frame \o a
<1>1. s \in Seq(Bytes) /\ frame \in Seq(Bytes) /\ k \in 1..Len(s)
  BY ConcatProperties DEF IInv, LineTypes, RxTypes, Ahead
<1>2. k \in 0..Len(s) /\ k \in 1..k /\ k \in Nat
  BY <1>1, LenProperties
<1>3. a \in Seq(Bytes) /\ Len(a) = k /\ a[k] = s[k]
  <2>1. a \in Seq(Bytes) /\ Len(a) = k /\ \A i \in 1..k : a[i] = s[i]
    <3> HIDE DEF s, First
    <3> QED BY ONLY <1>1, <1>2, Parts
  <2> QED BY <1>2, <2>1
<1>4. /\ f \in Seq(Bytes) /\ Len(f) = Len(frame) + Len(a) /\ Len(frame) \in Nat
      /\ \A i \in 1..Len(frame) : f[i] = frame[i]
      /\ \A i \in 1..Len(a) : f[Len(frame) + i] = a[i]
  <2>1. frame \in Seq(Bytes) /\ a \in Seq(Bytes)
    BY <1>1, <1>3
  <2> HIDE DEF a
  <2> QED BY ONLY <2>1, Joined
<1>5. f[Len(f)] = s[k] /\ Len(f) = Len(frame) + k
  <2> HIDE DEF f, a, s
  <2> QED BY <1>2, <1>3, <1>4
<1> QED BY <1>3, <1>4, <1>5

LEMMA Restarted ==
  ASSUME Restart, pc' \in {"detect", "rx", "idle", "failed"}
  PROVE  RxTypes'
<1>1. state' = "sig" /\ frame' = <<>> /\ expect' = 3
  BY DEF Restart, SigLen
<1>2. frame' \in Seq(Bytes') /\ Len(frame') = 0
  BY <1>1
<1> QED BY <1>1, <1>2 DEF RxTypes, SigLen

LEMMA GotKeeps ==
  ASSUME IInv, pc = "rx", UNCHANGED <<packets, tx>>,
         NEW k \in 1..Len(Ahead), k <= expect, Ahead' = Without(Ahead, k),
         Got(First(Ahead, k))
  PROVE  RxTypes' /\ Delivers' /\ Ordered'
<1> DEFINE f == frame \o First(Ahead, k)
<1>1. /\ f \in Seq(Bytes) /\ Len(f) = Len(frame) + k /\ f[Len(f)] = Ahead[k]
      /\ \A i \in 1..Len(frame) : f[i] = frame[i]
      /\ Len(First(Ahead, k)) = k /\ Len(frame) \in Nat
  BY Grown
<1>2. /\ k \in Nat \ {0} /\ expect \in Nat \ {0} /\ k \in 0..Len(Ahead)
  <2>1. Ahead \in Seq(Bytes)
    BY ConcatProperties DEF IInv, LineTypes, Ahead
  <2>2. Len(Ahead) \in Nat
    BY <2>1, LenProperties
  <2> HIDE DEF Ahead
  <2> QED BY <2>2 DEF IInv, RxTypes
<1>3. PacketsType /\ RxTypes /\ delivered \in Seq(Returned)
  BY DEF IInv, SendTypes, Delivers
<1>4. SigLen = 3 /\ PeekLen = 3 + HeaderRest /\ HeaderRest \in Nat \ {0} /\ CrcLen = 2
      /\ PeekLen \in Nat
  BY SerialAssumption DEF SigLen, PeekLen, CrcLen
<1>5. Bytes' = Bytes /\ Packets' = Packets /\ \A p \in Packets : Long(p)' = Long(p)
  BY SamePackets
<1> DEFINE Same == delivered' = delivered
<1>6. ASSUME Same PROVE Delivers' /\ Ordered'
  <2>1. UNCHANGED <<packets, delivered>> /\ tx' \in {tx, NoTx}
    BY <1>6
  <2> HIDE DEF Ahead
  <2> QED BY <1>2, <1>3, <2>1, ShorterOrdered, SameDelivers DEF IInv
<1>7. k < expect => GoesOn(state, f, expect - k)
  BY <1>1 DEF Got, Missing
<1>8. ~(k < expect) => \/ state = "sig"    /\ GotSig(f)
                       \/ state = "header" /\ GotHeader(f)
                       \/ state = "data"   /\ GoesOn("crc", f, CrcLen)
                       \/ state = "crc"    /\ GotCrc(f)
  BY <1>1 DEF Got
<1> HIDE DEF f, Ahead
<1>9. ASSUME NEW p \in Packets, PeekLen <= Len(frame), frame[PeekLen] = <<"head", p, HeaderRest>>
      PROVE  PeekLen <= Len(f) /\ f[PeekLen] = <<"head", p, HeaderRest>>
  <2>1. PeekLen \in 1..Len(frame) /\ PeekLen <= Len(f)
    BY <1>1, <1>2, <1>4, <1>9
  <2> QED BY <1>1, <1>9, <2>1
<1>10. CASE k < expect
  <2>1. /\ state' = state /\ frame' = f /\ expect' = expect - k /\ pc' = pc /\ Same
    BY <1>7, <1>10 DEF GoesOn
  <2>2. expect' \in Nat \ {0} /\ Len(frame') + expect' = Len(frame) + expect
    <3>1. Len(f) + (expect - k) = Len(frame) + expect /\ expect - k \in Nat \ {0}
      BY <1>1, <1>2, <1>10
    <3> QED BY <2>1, <3>1
  <2>3. frame' \in Seq(Bytes') /\ pc' = "rx"
    BY <1>1, <1>5, <2>1
  <2>4. RxTypes'
    <3>1. CASE state = "sig" /\ Len(frame) + expect = SigLen
      BY <2>1, <2>2, <2>3, <3>1 DEF RxTypes, SigLen
    <3>2. CASE state = "header" /\ Len(frame) + expect = PeekLen
      BY <2>1, <2>2, <2>3, <3>2 DEF RxTypes, SigLen, PeekLen
    <3>3. ASSUME NEW p \in Packets,
                 PeekLen <= Len(frame), frame[PeekLen] = <<"head", p, HeaderRest>>,
                 \/ state = "data" /\ Len(frame) + expect = PeekLen + Len(packets[p].data)
                 \/ state = "crc"  /\ Len(frame) + expect = Long(p)
          PROVE  RxTypes'
      <4>1. PeekLen <= Len(f) /\ f[PeekLen] = <<"head", p, HeaderRest>>
        BY <1>9, <3>3
      <4>2. /\ p \in Packets'
            /\ PeekLen <= Len(frame') /\ frame'[PeekLen] = <<"head", p, HeaderRest>>
            /\ \/ state' = "data" /\ Len(frame') + expect' = PeekLen + Len(packets'[p].data)
               \/ state' = "crc"  /\ Len(frame') + expect' = Long(p)'
        BY <1>5, <2>1, <2>2, <3>3, <4>1
      <4> QED BY <2>2, <2>3, <4>2 DEF RxTypes, PeekLen, SigLen
    <3> QED BY <1>3, <3>1, <3>2, <3>3 DEF RxTypes
  <2> QED BY <1>6, <2>1, <2>4
<1>11. CASE ~(k < expect)
  <2>1. k = expect /\ Len(f) = Len(frame) + expect
    BY <1>1, <1>2, <1>11
  <2>2. CASE state = "sig" /\ GotSig(f)
    <3>1. Len(f) = 3
      BY <1>3, <1>4, <2>1, <2>2 DEF RxTypes
    <3>2. CASE GoesOn("header", f, HeaderRest)
      <4>1. /\ state' = "header" /\ frame' = f /\ expect' = HeaderRest /\ pc' = "rx" /\ Same
        BY <3>2 DEF GoesOn
      <4>2. Len(frame') + expect' = PeekLen /\ frame' \in Seq(Bytes') /\ expect' \in Nat \ {0}
        BY <1>1, <1>4, <1>5, <3>1, <4>1
      <4>3. RxTypes'
        BY <4>1, <4>2 DEF RxTypes, PeekLen, SigLen
      <4> QED BY <1>6, <4>1, <4>3
    <3>3. CASE Hunt(f)
      <4>1. /\ state' = "sig" /\ frame' = Tail(f) /\ expect' = 1 /\ pc' = "rx" /\ Same
        BY <3>3 DEF Hunt, GoesOn
      <4>2. Tail(f) \in Seq(Bytes) /\ Len(Tail(f)) = 2
        <5>1. f # <<>>
          BY <3>1
        <5>2. Tail(f) \in Seq(Bytes) /\ Len(Tail(f)) = Len(f) - 1
          BY <1>1, <5>1, HeadTailProperties
        <5> QED BY <3>1, <5>2
      <4>3. Len(frame') + expect' = SigLen /\ frame' \in Seq(Bytes') /\ expect' \in Nat \ {0}
        BY <1>4, <1>5, <4>1, <4>2
      <4>4. RxTypes'
        BY <4>1, <4>3 DEF RxTypes, SigLen
      <4> QED BY <1>6, <4>1, <4>4
    <3> QED BY <2>2, <3>2, <3>3 DEF GotSig
  <2>3. ASSUME NEW out, Return(out) PROVE RxTypes' /\ delivered' = delivered \o out
    BY <2>3, Restarted DEF Return
  <2>4. ASSUME Return(<<>>) PROVE RxTypes' /\ Same
    <3>1. delivered \o <<>> = delivered
      BY <1>3, ConcatEmptySeq
    <3> QED BY <2>3, <2>4, <3>1
  <2>5. CASE state = "header" /\ GotHeader(f)
    <3> DEFINE h == Without(f, SigLen)
    <3>1. Len(f) = PeekLen
      BY <1>3, <1>4, <2>1, <2>5 DEF RxTypes
    <3>2. CASE /\ SumOk(h)
               /\ GoesOn("data", f, Len(packets[h[1][2]].data))
      <4>1. PICK p \in Packets : f[PeekLen] = <<"head", p, HeaderRest>> /\ h[1] = <<"head", p, 1>>
        BY <1>1, <1>3, <3>1, <3>2, HeaderOf
      <4>2. /\ state' = "data" /\ frame' = f /\ expect' = Len(packets[p].data) /\ pc' = "rx" /\ Same
        BY <3>2, <4>1 DEF GoesOn
      <4>3. expect' \in Nat \ {0} /\ frame' \in Seq(Bytes')
        BY <1>1, <1>3, <1>5, <4>2, DataIs
      <4>4. /\ p \in Packets'
            /\ PeekLen <= Len(frame') /\ frame'[PeekLen] = <<"head", p, HeaderRest>>
            /\ state' = "data" /\ Len(frame') + expect' = PeekLen + Len(packets'[p].data)
        <5>1. Len(frame') = PeekLen /\ PeekLen <= PeekLen
          BY <1>4, <3>1, <4>2
        <5>2. packets'[p].data = packets[p].data /\ p \in Packets'
          BY <1>5
        <5> QED BY <4>1, <4>2, <5>1, <5>2
      <4>5. RxTypes'
        BY <4>2, <4>3, <4>4 DEF RxTypes, PeekLen, SigLen
      <4> QED BY <1>6, <4>2, <4>5
    <3>3. CASE Return(<<>>)
      BY <1>6, <2>4, <3>3
    <3> QED BY <2>5, <3>2, <3>3 DEF GotHeader
  <2>6. CASE state = "data" /\ GoesOn("crc", f, CrcLen)
    <3>1. /\ state' = "crc" /\ frame' = f /\ expect' = 2 /\ pc' = "rx" /\ Same
      BY <1>4, <2>6 DEF GoesOn
    <3>2. PICK p \in Packets :
            /\ PeekLen <= Len(frame) /\ frame[PeekLen] = <<"head", p, HeaderRest>>
            /\ Len(frame) + expect = PeekLen + Len(packets[p].data)
      BY <1>3, <2>6 DEF RxTypes
    <3>3. PeekLen <= Len(f) /\ f[PeekLen] = <<"head", p, HeaderRest>>
      BY <1>9, <3>2
    <3>4. Len(packets[p].data) \in Nat
      BY <1>3, DataIs
    <3>5. Len(f) + 2 = Long(p)
      BY <1>1, <1>4, <2>1, <3>2, <3>4 DEF Long
    <3>6. /\ p \in Packets' /\ frame' \in Seq(Bytes') /\ expect' \in Nat \ {0}
          /\ PeekLen <= Len(frame') /\ frame'[PeekLen] = <<"head", p, HeaderRest>>
          /\ state' = "crc" /\ Len(frame') + expect' = Long(p)'
      BY <1>1, <1>5, <3>1, <3>3, <3>5
    <3>7. RxTypes'
      BY <3>1, <3>6 DEF RxTypes, PeekLen, SigLen
    <3> QED BY <1>6, <3>1, <3>7
  <2>7. CASE state = "crc" /\ GotCrc(f)
    <3>1. CASE CrcOk(f)
      <4>1. PICK q \in Packets : f = Frame(q)
        BY <3>1 DEF CrcOk
      <4>2. /\ Len(Frame(q)) = Long(q) /\ Frame(q)[Long(q)] = <<"crc", q, CrcLen>>
            /\ Without(First(Frame(q), Long(q) - CrcLen), SigLen) = Content(q)
        BY <1>3, FrameIs
      <4>3. Return(<<Content(q)>>)
        BY <2>7, <3>1, <4>1, <4>2 DEF GotCrc
      <4>4. RxTypes' /\ delivered' = delivered \o <<Content(q)>>
        BY <2>3, <4>3
      <4>5. Ahead[k] = <<"crc", q, CrcLen>>
        BY <1>1, <4>1, <4>2
      <4> QED BY <4>4, <4>5, ReturnKeeps
    <3>2. CASE ~CrcOk(f)
      <4>1. Return(<<>>)
        BY <2>7, <3>2 DEF GotCrc
      <4> QED BY <1>6, <2>4, <4>1
    <3> QED BY <3>1, <3>2
  <2> QED BY <1>8, <1>11, <2>2, <2>5, <2>6, <2>7
<1> QED BY <1>10, <1>11

LEMMA ReadBufKeeps ==
  ASSUME IInv, ReadBuf
  PROVE  IInv'
<1> DEFINE k == Least(expect, Len(readAhead))
<1>1. /\ pc = "rx" /\ readAhead # <<>>
      /\ Got(First(readAhead, k)) /\ readAhead' = Without(readAhead, k)
      /\ UNCHANGED <<packets, tx, written, line, timed, blocked, from, hungup>>
  BY DEF ReadBuf, sender, env
<1>2. /\ readAhead \in Seq(Bytes) /\ line \in Seq(Bytes) /\ LineTypes
      /\ expect \in Nat \ {0}
  BY DEF IInv, LineTypes, RxTypes
<1>3. Len(readAhead) \in Nat \ {0} /\ Len(line) \in Nat
  BY <1>1, <1>2, LenProperties, EmptySeq
<1>4. k \in 1..Len(readAhead) /\ k \in 0..Len(readAhead) /\ k <= expect
  BY <1>2, <1>3 DEF Least
<1>5. /\ Ahead' = Without(Ahead, k) /\ k \in 0..Len(Ahead)
      /\ readAhead' \in Seq(Bytes') /\ Len(readAhead') <= PeekLen
  BY <1>1, <1>2, <1>4, SkippedKeeps
<1> HIDE DEF k
<1>6. First(Ahead, k) = First(readAhead, k) /\ k \in 1..Len(Ahead)
  <2> DEFINE s == readAhead \o line
  <2>1. /\ s \in Seq(Bytes) /\ Len(s) = Len(readAhead) + Len(line)
        /\ \A i \in 1..Len(readAhead) : s[i] = readAhead[i]
    BY ONLY <1>2, Joined
  <2>2. k \in 1..Len(s) /\ k \in 0..Len(s)
    BY <1>3, <1>4, <2>1
  <2>3. /\ First(s, k) \in Seq(Bytes) /\ Len(First(s, k)) = k
        /\ \A i \in 1..k : First(s, k)[i] = s[i]
    <3>1. s \in Seq(Bytes)
      BY <2>1
    <3> HIDE DEF s, First
    <3> QED BY ONLY <2>2, <3>1, Parts
  <2>4. /\ First(readAhead, k) \in Seq(Bytes) /\ Len(First(readAhead, k)) = k
        /\ \A i \in 1..k : First(readAhead, k)[i] = readAhead[i]
    <3> HIDE DEF First
    <3> QED BY ONLY <1>2, <1>4, Parts
  <2> HIDE DEF s
  <2>5. ASSUME NEW i \in 1..k PROVE First(s, k)[i] = First(readAhead, k)[i]
    <3>1. i \in 1..Len(readAhead)
      BY <1>3, <1>4
    <3> QED BY <2>1, <2>3, <2>4, <3>1
  <2>6. First(s, k) = First(readAhead, k)
    BY <2>3, <2>4, <2>5, SeqEqual
  <2> QED BY <2>2, <2>6 DEF s, Ahead
<1>7. RxTypes' /\ Delivers' /\ Ordered'
  <2>1. UNCHANGED <<packets, tx>> /\ Got(First(Ahead, k))
    BY <1>1, <1>6 DEF k
  <2> HIDE DEF Ahead
  <2> QED BY <1>1, <1>4, <1>5, <1>6, <2>1, GotKeeps
<1>8. LineTypes'
  <2>1. Bytes' = Bytes
    BY <1>1, SamePackets
  <2> QED BY <1>1, <1>2, <1>5, <2>1 DEF LineTypes, PeekLen, SigLen
<1> QED BY <1>1, <1>7, <1>8, SameSend DEF IInv, sender

LEMMA ReadKeeps ==
  ASSUME IInv, Read
  PROVE  IInv'
<1>1. /\ pc = "rx" /\ readAhead = <<>> /\ blocked' = FALSE
      /\ UNCHANGED <<packets, tx, written, readAhead, timed, from, hungup>>
  BY DEF Read, sender, env
<1>2. PICK k \in 1..Least(expect, Len(line)) :
        Got(First(line, k)) /\ line' = Without(line, k)
  BY DEF Read
<1>3. /\ line \in Seq(Bytes) /\ Len(line) \in Nat /\ LineTypes /\ expect \in Nat \ {0}
  BY LenProperties DEF IInv, LineTypes, RxTypes
<1>4. k \in 1..Len(line) /\ k \in 0..Len(line) /\ k <= expect
  BY <1>2, <1>3 DEF Least
<1>5. Without(line, k) \in Seq(Bytes)
  <2> HIDE DEF Without
  <2> QED BY ONLY <1>3, <1>4, Parts
<1>6. Ahead = line /\ Ahead' = line'
  <2>1. \A S : \A s \in Seq(S) : <<>> \o s = s
    BY ConcatEmptySeq
  <2>2. line' \in Seq(Bytes)
    BY <1>2, <1>5
  <2> QED BY <1>1, <1>3, <2>1, <2>2 DEF Ahead
<1>7. RxTypes' /\ Delivers' /\ Ordered'
  <2>1. /\ UNCHANGED <<packets, tx>> /\ Got(First(Ahead, k)) /\ Ahead' = Without(Ahead, k)
        /\ k \in 1..Len(Ahead)
    BY <1>1, <1>2, <1>4, <1>6
  <2> HIDE DEF Ahead
  <2> QED BY <1>1, <1>4, <2>1, GotKeeps
<1>8. LineTypes'
  <2>1. Bytes' = Bytes
    BY <1>1, SamePackets
  <2> QED BY <1>1, <1>2, <1>3, <1>5, <2>1 DEF LineTypes, PeekLen, SigLen
<1> QED BY <1>1, <1>7, <1>8, SameSend DEF IInv, sender

LEMMA GiveUpKeeps ==
  ASSUME IInv, GiveUp, UNCHANGED hungup
  PROVE  IInv'
<1>1. UNCHANGED <<packets, tx, written, line, readAhead, timed, blocked, from>>
  BY DEF GiveUp, sender
<1>2. RxTypes' /\ delivered' = delivered
  <2>1. CASE pc' = "failed" /\ UNCHANGED <<slp, delivered>>
    <3>1. Packets' = Packets /\ Bytes' = Bytes /\ \A p \in Packets : Long(p)' = Long(p)
      BY <1>1, SamePackets
    <3> QED BY <1>1, <2>1, <3>1 DEF slp, IInv, RxTypes
  <2>2. CASE Return(<<>>)
    <3>1. delivered \o <<>> = delivered
      BY ConcatEmptySeq DEF IInv, Delivers
    <3> QED BY <2>2, <3>1, Restarted DEF Return
  <2> QED BY <2>1, <2>2 DEF GiveUp
<1>3. LineTypes'
  BY <1>1, SameLine DEF IInv, LineTypes
<1> QED BY <1>1, <1>2, <1>3, SameSend, SameDelivers, SameOrdered DEF IInv, sender

(* Steps that only change what is waited for.                              *)
LEMMA WaitsKeeps ==
  ASSUME IInv, UNCHANGED <<sender, line, readAhead, slp, from, delivered>>,
         \/ SlpRx \/ Alarm \/ Hangup
         \/ UNCHANGED <<pc, timed, blocked, hungup>>
  PROVE  IInv'
<1>1. UNCHANGED <<packets, tx, line, readAhead, state, frame, expect, from, delivered>>
  BY DEF sender, slp
<1>2. {timed', blocked', hungup'} \subseteq BOOLEAN /\ pc' \in {pc, "rx"}
  <2>1. {timed, blocked, hungup} \subseteq BOOLEAN
    BY DEF IInv, LineTypes
  <2> QED BY <2>1 DEF SlpRx, Alarm, Hangup, env, reader
<1>3. RxTypes'
  <2>1. Packets' = Packets /\ Bytes' = Bytes /\ \A p \in Packets : Long(p)' = Long(p)
    BY <1>1, SamePackets
  <2> QED BY <1>1, <1>2, <2>1 DEF IInv, RxTypes
<1>4. LineTypes'
  BY <1>1, <1>2, SameLine DEF IInv
<1> QED BY <1>1, <1>3, <1>4, SameSend, SameDelivers, SameOrdered DEF IInv

-----------------------------------------------------------------------------
LEMMA InitInv == Init => IInv
<1> SUFFICES ASSUME Init PROVE IInv
  OBVIOUS
<1>1. /\ packets = <<>> /\ tx = NoTx /\ written = {} /\ line = <<>> /\ hungup = FALSE
      /\ pc = "detect" /\ timed \in BOOLEAN /\ blocked = FALSE /\ readAhead = <<>>
      /\ state = "sig" /\ frame = <<>> /\ expect = 3 /\ from = 0 /\ delivered = <<>>
  BY DEF Init, SigLen
<1>2. SendTypes
  <2>1. tx \in [of : Nat, total : Nat]
    BY <1>1 DEF NoTx
  <2>2. from \in 0..Len(packets)
    BY <1>1
  <2> QED BY <1>1, <2>1, <2>2 DEF SendTypes, PacketsType
<1>3. LineTypes
  <2>1. HeaderRest \in Nat /\ PeekLen = 3 + HeaderRest
    BY SerialAssumption DEF PeekLen, SigLen
  <2>2. 0 <= PeekLen /\ Len(readAhead) = 0
    BY <1>1, <2>1
  <2>3. line \in Seq(Bytes) /\ readAhead \in Seq(Bytes)
    BY <1>1
  <2> QED BY <1>1, <2>2, <2>3 DEF LineTypes
<1>4. RxTypes
  BY <1>1 DEF RxTypes, SigLen
<1>5. Len(delivered) = 0 /\ Ahead = <<>>
  BY <1>1 DEF Ahead
<1>6. Delivers
  BY <1>1, <1>5 DEF Delivers
<1>7. Ordered
  BY <1>1, <1>5 DEF Ordered, Rises
<1> QED BY <1>2, <1>3, <1>4, <1>6, <1>7 DEF IInv

LEMMA NextInv == IInv /\ [Next]_vars => IInv'
<1> SUFFICES ASSUME IInv, [Next]_vars PROVE IInv'
  OBVIOUS
<1>1. CASE SlpTx       BY <1>1, SlpTxKeeps
<1>2. CASE Write       BY <1>2, WriteKeeps
<1>3. CASE WriteCut    BY <1>3, WriteCutKeeps
<1>4. CASE WriteFails  BY <1>4, WriteFailsKeeps
<1>5. CASE Peek        BY <1>5, PeekKeeps
<1>6. CASE Examine     BY <1>6, ExamineKeeps
<1>7. CASE ReadBuf     BY <1>7, ReadBufKeeps
<1>8. CASE Read        BY <1>8, ReadKeeps
<1>9. CASE TimesOut \/ Pause
  BY <1>9, GiveUpKeeps DEF TimesOut, Pause, env
<1>10. CASE SlpRx
  BY <1>10, WaitsKeeps DEF SlpRx
<1>11. CASE Alarm
  BY <1>11, WaitsKeeps DEF Alarm
<1>12. CASE Hangup
  BY <1>12, WaitsKeeps DEF Hangup, reader
<1>13. CASE UNCHANGED vars
  BY <1>13, WaitsKeeps DEF vars, reader, env
<1> QED BY <1>1, <1>2, <1>3, <1>4, <1>5, <1>6, <1>7, <1>8, <1>9, <1>10, <1>11, <1>12, <1>13
        DEF Next, Sends, Reads, WaitsOn, Failed

LEMMA InvTypeOK == IInv => TypeOK
<1> SUFFICES ASSUME IInv PROVE TypeOK
  OBVIOUS
<1>1. /\ packets \in Seq([data : Payloads, wake : BOOLEAN]) /\ Len(packets) \in Nat
      /\ tx.of \in 0..Len(packets) /\ tx.total \in Nat
      /\ written \subseteq Packets /\ from \in 0..Len(packets)
  <2>1. Len(packets) \in Nat
    BY LenProperties DEF IInv, SendTypes, PacketsType
  <2>2. tx.of \in 0..Len(packets)
    BY <2>1 DEF IInv, SendTypes, NoTx
  <2> QED BY <2>1, <2>2 DEF IInv, SendTypes, PacketsType
<1>2. /\ Range(line) \subseteq Bytes /\ Range(frame) \subseteq Bytes
  <2>1. ASSUME NEW S, NEW s \in Seq(S) PROVE Range(s) \subseteq S
    BY LenProperties DEF Range
  <2> QED BY <2>1 DEF IInv, LineTypes, RxTypes
<1>3. /\ pc \in {"detect", "rx", "idle", "failed"} /\ expect \in Nat \ {0}
      /\ {timed, blocked, hungup} \subseteq BOOLEAN /\ Len(readAhead) <= PeekLen
  BY DEF IInv, LineTypes, RxTypes
<1>4. LET full == Len(frame) + expect IN
       \/ state = "sig"    /\ full = SigLen
       \/ state = "header" /\ full = PeekLen
       \/ state = "data"   /\ full = PeekLen + Len(packets[frame[PeekLen][2]].data)
       \/ state = "crc"    /\ full = Len(Frame(frame[PeekLen][2]))
  <2>1. ASSUME NEW p \in Packets, frame[PeekLen] = <<"head", p, HeaderRest>>
        PROVE  frame[PeekLen][2] = p /\ Len(Frame(p)) = Long(p)
    BY <2>1, FrameIs DEF IInv, SendTypes
  <2> QED BY <2>1 DEF IInv, RxTypes
<1> QED BY <1>1, <1>2, <1>3, <1>4 DEF TypeOK

LEMMA InvInOrder == IInv => InOrder
<1> SUFFICES ASSUME IInv PROVE InOrder
  OBVIOUS
<1>1. DOMAIN delivered = 1..Len(delivered)
  BY LenProperties DEF IInv, Delivers
<1>2. ASSUME NEW i \in 1..Len(delivered) PROVE \E p \in Packets : delivered[i] = Content(p)
  BY NumberOf DEF IInv, SendTypes
<1>3. ASSUME NEW i \in 1..Len(delivered), NEW j \in 1..Len(delivered), i < j
      PROVE  delivered[i][1][2] < delivered[j][1][2]
  BY <1>3 DEF IInv, Delivers, Number
<1> QED BY <1>1, <1>2, <1>3 DEF InOrder

LEMMA InvHolds == Spec => []IInv
<1>1. Init => IInv
  BY InitInv
<1>2. IInv /\ [Next]_vars => IInv'
  BY NextInv
<1> QED BY <1>1, <1>2, PTL DEF Spec

(* slp_buf and what slp_rx expects always fit together: it reads a part of *)
(* a packet up to its end and no further, however few bytes read gives it, *)
(* and after damage, a timeout or a false signature too (slp_rx, slp.c).   *)
THEOREM TypeCorrect == Spec => []TypeOK
<1>1. IInv => TypeOK
  BY InvTypeOK
<1> QED BY <1>1, InvHolds, PTL

(* What slp_rx returns are packets that were handed to slp_tx, whole, in   *)
(* the order they were sent and each once, whatever bytes the line loses,  *)
(* damages or adds, and although s_write sends a packet again from its     *)
(* first byte after a signal has cut it short (s_write, unixserial.c).     *)
THEOREM InOrderCorrect == Spec => []InOrder
<1>1. IInv => InOrder
  BY InvInOrder
<1> QED BY <1>1, InvHolds, PTL
=============================================================================
