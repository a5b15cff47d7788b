----------------------------- MODULE PartProofs -----------------------------
(***************************************************************************)
(* What the parts that share no state with others guarantee: lwarx and     *)
(* stwcx., the packets of the debugger's connection, the frame             *)
(* heap, the debugger, the files, the ring of traces, the lists and the    *)
(* registry of heaps, the recompiler's cache of code, and the loader.      *)
(***************************************************************************)
EXTENDS Reservation, DebugNet, FrameHeap, Debugger, Files, TraceRing, HeapRegistry,
        JitBlocks, Loader,
        FiniteSetTheorems, SequenceTheorems, WellFoundedInduction, TLAPS

(* lwarx and stwcx. *)

RegsType == [r : Int, reserve : BOOLEAN, data : Int]

ReservationTypes ==
    /\ word \in Int /\ added \in [Adder -> Nat] /\ regs \in [Adder -> RegsType]
    /\ at \in [Adder -> {"lwarx", "addi", "stwcx", "write"}]
    /\ crossed \in Nat /\ IsFiniteSet(Additions)

\* What stands in the registers is one more than what was read; and of one core
\* only one is about to write.
AddsOne ==
    \A t \in Adder :
        /\ at[t] = "addi" => regs[t].r = regs[t].data
        /\ at[t] \in {"stwcx", "write"} => regs[t].r = regs[t].data + 1
        /\ at[t] = "write" =>
               \A u \in Adder \ {t} : CoreOf[u] = CoreOf[t] => at[u] # "write"

\* Behind(w): w is short of the additions by no more than the stores that crossed.
Behind(w) == w =< Cardinality(Additions) /\ Cardinality(Additions) =< w + crossed

\* What a thread was let through for was the word once, and falls behind only as
\* others write.
ReservationInv ==
    /\ ReservationTypes /\ AddsOne
    /\ Behind(word)
    /\ \A t \in Adder : at[t] = "write" => Behind(regs[t].data)

LEMMA WriteAdds ==
    ASSUME ReservationTypes, NEW t \in Adder, Write(t)
    PROVE  IsFiniteSet(Additions') /\ Cardinality(Additions') = Cardinality(Additions) + 1
<1> DEFINE n == <<t, added[t] + 1>>
<1>1. Additions' = Additions \cup {n} /\ n \notin Additions
  <2>1. /\ added[t] \in Nat /\ added'[t] = added[t] + 1
        /\ \A u \in Adder \ {t} : added'[u] = added[u]
    BY DEF Write, ReservationTypes
  <2>2. /\ 1 .. added[t] + 1 = (1 .. added[t]) \cup {added[t] + 1}
        /\ added[t] + 1 \notin 1 .. added[t]
    BY <2>1
  <2> QED BY <2>1, <2>2 DEF Additions
<1> QED BY <1>1, FS_AddElement DEF ReservationTypes

(* On any number of cores the word never counts more than the additions that  *)
(* stwcx. reported, and falls short of them by no more than the stores made   *)
(* while a thread of another core stood between the comparison and the store  *)
(* of its stwcx.: nothing else loses an addition, though another's store      *)
(* leaves the reservation alone.                                              *)
THEOREM ReservationCorrect == SpecReservation => []NoLostAddition
<1> USE AdderAssumption
<1>1. InitReservation => ReservationInv
  <2> SUFFICES ASSUME InitReservation PROVE ReservationInv
    OBVIOUS
  <2>1. Additions = {}
    BY DEF Additions, InitReservation
  <2>2. IsFiniteSet({}) /\ Cardinality({}) = 0
    BY FS_EmptySet
  <2> QED BY <2>1, <2>2 DEF InitReservation, ReservationInv, ReservationTypes,
                            RegsType, AddsOne, Behind
<1>2. ReservationInv /\ [NextReservation]_reservationVars => ReservationInv'
  <2> SUFFICES ASSUME ReservationInv, [NextReservation]_reservationVars
               PROVE  ReservationInv'
    OBVIOUS
  <2> DEFINE n == Cardinality(Additions)
  <2>0. n \in Nat
    BY FS_CardinalityType DEF ReservationInv, ReservationTypes
  <2>1. CASE UNCHANGED reservationVars
    BY <2>1 DEF ReservationInv, ReservationTypes, AddsOne, reservationVars, Behind, Additions
  <2>2. ASSUME NEW t \in Adder, lwarx(t) \/ addi(t) \/ stwcx(t)
        PROVE  ReservationInv'
    <3> USE DEF ReservationInv, ReservationTypes, RegsType, AddsOne, MayRun
    <3>1. /\ UNCHANGED <<word, added, crossed>> /\ Additions' = Additions
          /\ \A u \in Adder \ {t} : at'[u] = at[u] /\ regs'[u] = regs[u]
      BY <2>2 DEF lwarx, addi, stwcx, Additions
    <3>2. /\ at' \in [Adder -> {"lwarx", "addi", "stwcx", "write"}]
          /\ regs' \in [Adder -> RegsType]
          /\ AddsOne'
      <4>1. CASE lwarx(t)
        BY <4>1 DEF lwarx
      <4>2. CASE addi(t)
        BY <4>2 DEF addi
      <4>3. CASE stwcx(t)
        <5>1. /\ \A u \in Adder \ {t} : CoreOf[u] = CoreOf[t] => at[u] # "write"
              /\ at'[t] \in {"write", "lwarx"} /\ at[t] = "stwcx"
              /\ regs'[t].r = regs[t].r /\ regs'[t].data = regs[t].data
              /\ regs' \in [Adder -> RegsType]
              /\ at' \in [Adder -> {"lwarx", "addi", "stwcx", "write"}]
          BY <4>3 DEF stwcx
        <5> HIDE DEF MayRun, RegsType
        <5> QED BY <3>1, <5>1
      <4> QED BY <2>2, <4>1, <4>2, <4>3
    <3>3. at'[t] = "write" => regs'[t].data = word
      BY <2>2 DEF lwarx, addi, stwcx, Reserved
    <3> HIDE DEF RegsType, AddsOne, MayRun
    <3>4. ASSUME NEW u \in Adder, at'[u] = "write" PROVE Behind(regs[u].data)'
      BY <3>1, <3>3, <3>4 DEF Behind
    <3> QED BY <3>1, <3>2, <3>4 DEF Behind
  <2>3. ASSUME NEW t \in Adder, Write(t) PROVE ReservationInv'
    <3>1. /\ IsFiniteSet(Additions') /\ Cardinality(Additions') = n + 1
      BY <2>3, WriteAdds DEF ReservationInv
    <3>2. /\ regs[t].data \in Int /\ word' = regs[t].data + 1 /\ Behind(regs[t].data)
          /\ regs' = regs /\ at'[t] = "lwarx"
          /\ \A u \in Adder \ {t} : at'[u] = at[u]
          /\ crossed' = IF Crosses(t) THEN crossed + 1 ELSE crossed
          /\ crossed \in Nat
      BY <2>3 DEF Write, ReservationInv, ReservationTypes, RegsType, AddsOne
    <3>3. ReservationTypes' /\ AddsOne'
      BY <2>3, <3>1, <3>2 DEF ReservationInv, ReservationTypes, RegsType, AddsOne, Write
    <3>4. Behind(word)'
      BY <2>0, <3>1, <3>2 DEF Behind
    <3>5. ASSUME NEW u \in Adder, at'[u] = "write" PROVE Behind(regs[u].data)'
      <4>1. u # t /\ at[u] = "write" /\ regs'[u] = regs[u]
        BY <3>2, <3>5
      <4>2. Crosses(t)
        BY <2>3, <4>1 DEF Crosses, ReservationInv, AddsOne, Write
      <4>3. Behind(regs[u].data) /\ regs[u].data \in Int
        BY <4>1 DEF ReservationInv, ReservationTypes, RegsType
      <4> QED BY <2>0, <3>1, <3>2, <4>1, <4>2, <4>3 DEF Behind
    <3> QED BY <3>3, <3>4, <3>5 DEF ReservationInv
  <2> QED BY <2>1, <2>2, <2>3 DEF NextReservation
<1>3. ReservationInv => NoLostAddition
  BY DEF ReservationInv, Behind, NoLostAddition
<1> QED BY <1>1, <1>2, <1>3, PTL DEF SpecReservation

-----------------------------------------------------------------------------
(* The packets of the debugger's connection. *)

PacketType == [command : Command, length : Nat, size : Nat]

Byte == Nat \X Nat

NetTypes ==
    /\ written \in Seq(PacketType) /\ received \in Seq(PacketType)
    /\ stream \in Seq(Byte) /\ buffer \in Seq(Byte)

\* The bytes in s are those of the packets w, in their order, up to the end of
\* the last: where a packet has more bytes they follow, and the next packet
\* follows its last byte.
InOrder(s, w) ==
    /\ \A i \in 1 .. Len(s) : /\ s[i][1] \in 1 .. Len(w)
                              /\ s[i][2] \in 1 .. w[s[i][1]].length
    /\ \A i, j \in 1 .. Len(s) :
          i < j /\ s[i][2] + (j - i) =< w[s[i][1]].length
          => s[j] = <<s[i][1], s[i][2] + (j - i)>>
    /\ \A i \in 1 .. Len(s) :
          i < Len(s) /\ s[i][2] = w[s[i][1]].length => s[i + 1] = <<s[i][1] + 1, 1>>
    /\ Len(s) > 0 => s[Len(s)] = <<Len(w), w[Len(w)].length>>

\* The byte that follows the n-th of packet p.
Following(p, n, w) == IF n < w[p].length THEN <<p, n + 1>> ELSE <<p + 1, 1>>

\* The stream goes on from there.
From(s, w, b) == IF Len(s) > 0 THEN s[1] = b ELSE b = <<Len(w) + 1, 1>>

\* The first n bytes of s are those of packet p after its b-th.
Begins(s, p, b, n) == \A k \in 1 .. n : s[k] = <<p, b + k>>

LEMMA TakenInOrder ==
    ASSUME NEW w \in Seq(PacketType), NEW s \in Seq(Byte), InOrder(s, w),
           NEW p \in 1 .. Len(w), NEW b \in Nat, NEW n \in 1 .. Len(s),
           s[1] = <<p, b + 1>>, b + n =< w[p].length
    PROVE  /\ SubSeq(s, 1, n) \in Seq(Byte) /\ Len(SubSeq(s, 1, n)) = n
           /\ Begins(s, p, b, n)
           /\ SubSeq(s, n + 1, Len(s)) \in Seq(Byte)
           /\ InOrder(SubSeq(s, n + 1, Len(s)), w)
           /\ From(SubSeq(s, n + 1, Len(s)), w, Following(p, b + n, w))
<1> DEFINE r == SubSeq(s, n + 1, Len(s))
<1>1. Len(s) \in Nat /\ Len(w) \in Nat /\ \A i \in 1 .. Len(s) : s[i] \in Byte
  BY LenProperties, ElementOfSeq
<1>2. w[p].length \in Nat
  <2>1. w[p] \in PacketType
    BY ElementOfSeq
  <2> QED BY <2>1 DEF PacketType
<1>3. ASSUME NEW k \in 1 .. n PROVE s[k] = <<p, b + k>>
  <2>1. CASE k > 1
    <3>1. /\ 1 \in 1 .. Len(s) /\ k \in 1 .. Len(s) /\ s[1][1] = p /\ s[1][2] = b + 1
          /\ (b + 1) + (k - 1) = b + k /\ b + k =< w[p].length
      BY <2>1, <1>1, <1>2
    <3> QED BY <2>1, <3>1, SMTT(40) DEF InOrder
  <2> QED BY <2>1, <1>1
<1>4. /\ SubSeq(s, 1, n) \in Seq(Byte) /\ Len(SubSeq(s, 1, n)) = n
      /\ \A k \in 1 .. n : SubSeq(s, 1, n)[k] = s[k]
  BY <1>1, SubSeqProperties
<1>5. /\ r \in Seq(Byte) /\ Len(r) = Len(s) - n /\ Len(r) \in Nat
      /\ \A k \in 1 .. Len(s) - n : r[k] = s[n + k]
  BY <1>1, SubSeqProperties
<1> HIDE DEF r
<1>6. InOrder(r, w)
  <2>1. \A i \in 1 .. Len(r) : n + i \in 1 .. Len(s) /\ r[i] = s[n + i]
    BY <1>1, <1>5
  <2>2. ASSUME NEW i \in 1 .. Len(r), i < Len(r)
        PROVE  n + i < Len(s) /\ r[i + 1] = s[(n + i) + 1]
    <3>1. i + 1 \in 1 .. Len(s) - n /\ n + (i + 1) = (n + i) + 1 /\ n + i < Len(s)
      BY <1>1, <1>5, <2>2
    <3>2. r[i + 1] = s[n + (i + 1)]
      BY <1>5, <3>1
    <3> QED BY <3>1, <3>2
  <2>3. \A i, j \in 1 .. Len(r) : i < j => n + i < n + j /\ (n + j) - (n + i) = j - i
    BY <1>1, <1>5
  <2>4. Len(r) > 0 => Len(s) > 0 /\ r[Len(r)] = s[Len(s)]
    BY <1>1, <1>5
  <2>5. ASSUME NEW i \in 1 .. Len(r)
        PROVE  r[i][1] \in 1 .. Len(w) /\ r[i][2] \in 1 .. w[r[i][1]].length
    BY <2>1 DEF InOrder
  <2>6. ASSUME NEW i \in 1 .. Len(r), NEW j \in 1 .. Len(r), i < j,
               r[i][2] + (j - i) =< w[r[i][1]].length
        PROVE  r[j] = <<r[i][1], r[i][2] + (j - i)>>
    <3>1. /\ n + i \in 1 .. Len(s) /\ n + j \in 1 .. Len(s) /\ n + i < n + j
          /\ (n + j) - (n + i) = j - i /\ r[i] = s[n + i] /\ r[j] = s[n + j]
      BY <2>1, <2>3, <2>6
    <3> QED BY <3>1, <2>6 DEF InOrder
  <2>7. ASSUME NEW i \in 1 .. Len(r), i < Len(r), r[i][2] = w[r[i][1]].length
        PROVE  r[i + 1] = <<r[i][1] + 1, 1>>
    <3>1. n + i \in 1 .. Len(s) /\ r[i] = s[n + i]
      BY <2>1
    <3>2. n + i < Len(s) /\ r[i + 1] = s[(n + i) + 1]
      BY <2>2, <2>7
    <3> QED BY <3>1, <3>2, <2>7 DEF InOrder
  <2>8. Len(r) > 0 => r[Len(r)] = <<Len(w), w[Len(w)].length>>
    BY <2>4 DEF InOrder
  <2> QED BY <2>5, <2>6, <2>7, <2>8 DEF InOrder
<1>7. From(r, w, Following(p, b + n, w))
  <2>1. CASE n < Len(s)
    <3>1. r[1] = s[n + 1] /\ Len(r) > 0
      BY <2>1, <1>1, <1>5
    <3>2. CASE b + n < w[p].length
      <4>0. s[n] = <<p, b + n>>
        BY <1>3
      <4>1. /\ n + 1 \in 1 .. Len(s) /\ n < n + 1
            /\ (b + n) + ((n + 1) - n) = b + n + 1 /\ b + n + 1 =< w[p].length
        BY <2>1, <3>2, <1>1, <1>2
      <4>2. /\ n \in 1 .. Len(s) /\ s[n][1] = p /\ s[n][2] = b + n
            /\ s[n][2] + ((n + 1) - n) =< w[s[n][1]].length
        BY <4>0, <4>1
      <4>3. s[n + 1] = <<s[n][1], s[n][2] + ((n + 1) - n)>>
        BY <4>1, <4>2 DEF InOrder
      <4>4. s[n + 1] = <<p, b + n + 1>>
        BY <4>1, <4>2, <4>3
      <4>5. Following(p, b + n, w) = <<p, b + n + 1>>
        BY <3>2 DEF Following
      <4>6. r[1] = Following(p, b + n, w)
        BY <4>4, <4>5, <3>1
      <4> QED BY <4>6, <3>1 DEF From
    <3>3. CASE b + n = w[p].length
      <4>1. s[n] = <<p, b + n>>
        BY <1>3
      <4>2. s[n + 1] = <<p + 1, 1>>
        BY <2>1, <3>3, <4>1, <1>1 DEF InOrder
      <4>3. ~(b + n < w[p].length)
        BY <3>3, <1>2
      <4>4. Following(p, b + n, w) = <<p + 1, 1>>
        BY <4>3 DEF Following
      <4>5. r[1] = Following(p, b + n, w)
        BY <4>2, <4>4, <3>1
      <4> QED BY <4>5, <3>1 DEF From
    <3>4. b + n < w[p].length \/ b + n = w[p].length
      BY <1>1, <1>2
    <3> QED BY <3>2, <3>3, <3>4
  <2>2. CASE n = Len(s)
    <3>1. s[n] = <<p, b + n>> /\ s[n] = <<Len(w), w[Len(w)].length>>
      BY <2>2, <1>1, <1>3 DEF InOrder
    <3>2. p = Len(w) /\ b + n = w[p].length /\ Len(r) = 0
      BY <2>2, <3>1, <1>1, <1>5
    <3>3. Following(p, b + n, w) = <<Len(w) + 1, 1>>
      BY <3>2, <1>2 DEF Following
    <3>4. ~(Len(r) > 0)
      BY <3>2
    <3>5. From(r, w, <<Len(w) + 1, 1>>)
      BY <3>4 DEF From
    <3> QED BY <3>3, <3>5
  <2> QED BY <2>1, <2>2, <1>1
<1>8. Begins(s, p, b, n)
  BY <1>3 DEF Begins
<1> QED BY <1>4, <1>5, <1>6, <1>7, <1>8 DEF r

(* A packet that is written goes to the end. *)
LEMMA WrittenInOrder ==
    ASSUME NEW w \in Seq(PacketType), NEW s \in Seq(Byte), InOrder(s, w),
           NEW packet \in PacketType, packet.length > 0
    PROVE  LET bytes == [k \in 1 .. packet.length |-> <<Len(w) + 1, k>>]
           IN  /\ s \o bytes \in Seq(Byte)
               /\ InOrder(s \o bytes, Append(w, packet))
               /\ \A b : From(s, w, b) => From(s \o bytes, Append(w, packet), b)
<1> DEFINE bytes == [k \in 1 .. packet.length |-> <<Len(w) + 1, k>>]
           x == Append(w, packet)
           r == s \o bytes
           n == packet.length
<1>1. Len(s) \in Nat /\ Len(w) \in Nat /\ n \in Nat \ {0}
  BY LenProperties DEF PacketType
<1>2. \A i \in 1 .. Len(w) : w[i].length \in Nat
  <2>1. \A i \in 1 .. Len(w) : w[i] \in PacketType
    BY ElementOfSeq
  <2> QED BY <2>1 DEF PacketType
<1>3. bytes \in Seq(Byte) /\ Len(bytes) = n /\ \A k \in 1 .. n : bytes[k] = <<Len(w) + 1, k>>
  <2>1. bytes \in [1 .. n -> Byte]
    BY <1>1 DEF Byte
  <2>2. bytes \in Seq(Byte)
    BY <2>1, <1>1, SeqDef, ZenonT(60)
  <2> QED BY <2>1, <2>2, <1>1, LenProperties
<1>4. /\ x \in Seq(PacketType) /\ Len(x) = Len(w) + 1
      /\ \A i \in 1 .. Len(w) : x[i] = w[i]
      /\ x[Len(w) + 1] = packet
  BY AppendProperties
<1> HIDE DEF bytes, x
<1>5. /\ r \in Seq(Byte) /\ Len(r) = Len(s) + n
      /\ \A i \in 1 .. Len(s) + n : r[i] = IF i =< Len(s) THEN s[i] ELSE bytes[i - Len(s)]
  BY <1>3, ConcatProperties
<1> HIDE DEF r
<1> HIDE DEF n
<1>6. ASSUME NEW i \in 1 .. Len(s)
      PROVE  r[i] = s[i] /\ x[s[i][1]] = w[s[i][1]] /\ s[i][1] \in 1 .. Len(w)
  <2>1. s[i][1] \in 1 .. Len(w)
    BY DEF InOrder
  <2>2. i \in 1 .. Len(s) + n /\ i =< Len(s)
    BY <1>1
  <2> QED BY <2>1, <2>2, <1>4, <1>5
<1>7. ASSUME NEW i \in Len(s) + 1 .. Len(s) + n PROVE r[i] = <<Len(w) + 1, i - Len(s)>>
  <2>1. i \in 1 .. Len(s) + n /\ ~(i =< Len(s)) /\ i - Len(s) \in 1 .. n
    BY <1>1
  <2> QED BY <2>1, <1>3, <1>5
<1>8. \A i \in 1 .. Len(r) : i \in 1 .. Len(s) \/ i \in Len(s) + 1 .. Len(s) + n
  BY <1>1, <1>5
<1>9. x[Len(w) + 1].length = n
  BY <1>4 DEF n
<1>10. InOrder(r, x)
  <2>1. ASSUME NEW i \in 1 .. Len(r)
        PROVE  r[i][1] \in 1 .. Len(x) /\ r[i][2] \in 1 .. x[r[i][1]].length
    <3>1. CASE i \in 1 .. Len(s)
      <4>1. s[i][1] \in 1 .. Len(w) /\ s[i][2] \in 1 .. w[s[i][1]].length
        BY <3>1 DEF InOrder
      <4> QED BY <3>1, <4>1, <1>1, <1>4, <1>6
    <3>2. CASE i \in Len(s) + 1 .. Len(s) + n
      BY <3>2, <1>1, <1>4, <1>7, <1>9
    <3> QED BY <3>1, <3>2, <1>8
  <2>2. ASSUME NEW i \in 1 .. Len(r), NEW j \in 1 .. Len(r), i < j,
               r[i][2] + (j - i) =< x[r[i][1]].length
        PROVE  r[j] = <<r[i][1], r[i][2] + (j - i)>>
    <3>1. CASE j \in 1 .. Len(s)
      <4>1. i \in 1 .. Len(s)
        BY <2>2, <3>1, <1>1, <1>5
      <4>2. s[i][2] + (j - i) =< w[s[i][1]].length
        BY <2>2, <4>1, <1>6
      <4>3. s[j] = <<s[i][1], s[i][2] + (j - i)>>
        BY <2>2, <3>1, <4>1, <4>2 DEF InOrder
      <4> QED BY <3>1, <4>1, <4>3, <1>6
    <3>2. CASE i \in Len(s) + 1 .. Len(s) + n
      <4>1. j \in Len(s) + 1 .. Len(s) + n
        BY <2>2, <3>2, <1>1, <1>5
      <4>2. r[i] = <<Len(w) + 1, i - Len(s)>> /\ r[j] = <<Len(w) + 1, j - Len(s)>>
        BY <3>2, <4>1, <1>7
      <4>3. (i - Len(s)) + (j - i) = j - Len(s)
        BY <3>2, <4>1, <1>1
      <4> QED BY <4>2, <4>3
    <3>3. CASE i \in 1 .. Len(s) /\ j \in Len(s) + 1 .. Len(s) + n
      <4> DEFINE p == s[i][1]
                 b == s[i][2]
      <4>1. p \in 1 .. Len(w) /\ b \in Nat /\ w[p].length \in Nat /\ b + (j - i) =< w[p].length
        <5>1. p \in 1 .. Len(w) /\ b \in 1 .. w[p].length
          BY <3>3 DEF InOrder
        <5>2. r[i] = s[i] /\ x[p] = w[p]
          BY <3>3, <1>6
        <5>3. b + (j - i) =< w[p].length
          BY <2>2, <5>2
        <5> HIDE DEF p, b
        <5> QED BY <5>1, <5>3, <1>2
      <4>2. s[Len(s)] = <<Len(w), w[Len(w)].length>> /\ Len(s) \in 1 .. Len(s)
        BY <3>3, <1>1 DEF InOrder
      <4> HIDE DEF p, b
      <4>3. b + (Len(s) - i) < w[p].length
        BY <3>3, <4>1, <1>1
      <4>4. CASE i < Len(s)
        <5>1. b + (Len(s) - i) =< w[p].length
          BY <4>1, <4>3, <3>3, <1>1
        <5>2. s[Len(s)] = <<p, b + (Len(s) - i)>>
          BY <5>1, <4>4, <4>2, <3>3 DEF InOrder, p, b
        <5> QED BY <5>2, <4>2, <4>3, <4>1, <3>3, <1>1
      <4>5. CASE i = Len(s)
        <5>1. p = Len(w) /\ b = w[Len(w)].length
          BY <4>2, <4>5 DEF p, b
        <5> QED BY <5>1, <4>1, <4>3, <4>5, <1>1
      <4> QED BY <4>4, <4>5, <3>3, <1>1
    <3> QED BY <3>1, <3>2, <3>3, <1>8
  <2>3. ASSUME NEW i \in 1 .. Len(r), i < Len(r), r[i][2] = x[r[i][1]].length
        PROVE  r[i + 1] = <<r[i][1] + 1, 1>>
    <3>1. CASE i < Len(s)
      <4>1. i \in 1 .. Len(s) /\ i + 1 \in 1 .. Len(s)
        BY <3>1, <1>1
      <4>2. r[i] = s[i] /\ r[i + 1] = s[i + 1] /\ s[i][2] = w[s[i][1]].length
        BY <2>3, <4>1, <1>6
      <4> QED BY <3>1, <4>1, <4>2 DEF InOrder
    <3>2. CASE i = Len(s)
      <4>1. s[i][1] = Len(w) /\ i \in 1 .. Len(s)
        BY <3>2, <1>1 DEF InOrder
      <4>2. r[i + 1] = <<Len(w) + 1, 1>>
        BY <3>2, <1>1, <1>7
      <4> QED BY <4>1, <4>2, <1>6
    <3>3. CASE i \in Len(s) + 1 .. Len(s) + n
      BY <2>3, <3>3, <1>1, <1>5, <1>7, <1>9
    <3> QED BY <3>1, <3>2, <3>3, <1>1, <1>8
  <2>4. r[Len(r)] = <<Len(x), x[Len(x)].length>>
    BY <1>1, <1>4, <1>5, <1>7, <1>9
  <2> QED BY <2>1, <2>2, <2>3, <2>4 DEF InOrder
<1>11. ASSUME NEW b, From(s, w, b) PROVE From(r, x, b)
  <2>1. CASE Len(s) > 0
    BY <2>1, <1>1, <1>5, <1>6, <1>11 DEF From
  <2>2. CASE Len(s) = 0
    <3>1. r[1] = <<Len(w) + 1, 1>> /\ Len(r) > 0
      BY <2>2, <1>1, <1>5, <1>7
    <3> QED BY <3>1, <2>2, <1>1, <1>11 DEF From
  <2> QED BY <2>1, <2>2, <1>1
<1> QED BY <1>5, <1>10, <1>11 DEF r, bytes, x

\* The packet that is arriving.
Arriving == Len(received) + 1

\* What was written has a header, whose field holds what the cast leaves.
PacketsInv ==
    /\ written \in Seq(PacketType)
    /\ \A i \in 1 .. Len(written) :
          /\ written[i].length >= NetHeaderSize
          /\ written[i].size = written[i].length % SizeLimit

StreamInv ==
    /\ stream \in Seq(Byte) /\ buffer \in Seq(Byte) /\ received \in Seq(PacketType)
    /\ receiver \in {"header", "size", "payload", "packet"}
    /\ Len(received) =< Len(written)
    /\ \A i \in 1 .. Len(received) : received[i] = written[i]
    /\ InOrder(stream, written)
    /\ receiver = "header" =>
          buffer = <<>> /\ From(stream, written, <<Arriving, 1>>)
    /\ receiver \in {"size", "payload", "packet"} =>
          /\ Len(received) < Len(written)
          /\ \A k \in 1 .. Len(buffer) : buffer[k] = <<Arriving, k>>
          /\ From(stream, written, Following(Arriving, Len(buffer), written))
    /\ receiver \in {"size", "payload"} => Len(buffer) = NetHeaderSize
    /\ receiver = "payload" => /\ headerSize = written[Arriving].length
                               /\ NetHeaderSize < headerSize
    /\ receiver = "packet" => Len(buffer) = written[Arriving].length

NetInv == PacketsInv /\ (TooLong = {} /\ ~short => StreamInv)

LEMMA SizesAreKept ==
    ASSUME PacketsInv, TooLong = {}, NEW i \in 1 .. Len(written)
    PROVE  written[i].length \in Nat /\ written[i].size = written[i].length
<1>1. written[i] \in PacketType
  BY ElementOfSeq DEF PacketsInv
<1>2. written[i].length \in Nat /\ written[i].length < SizeLimit
  BY <1>1, DebugNetAssumption DEF PacketType, TooLong
<1>3. written[i].size = written[i].length % SizeLimit
  BY DEF PacketsInv
<1>4. \A x \in Nat, m \in Nat : x < m => x % m = x
  OBVIOUS
<1> QED BY <1>2, <1>3, <1>4, DebugNetAssumption

LEMMA WriteStep ==
    ASSUME NetInv, writePacket
    PROVE  NetInv'
<1> USE DebugNetAssumption
<1>0. PICK c \in Command : \E n \in PayloadSizes[c] :
         LET packet == serializePacket(c, n)
         IN  /\ written' = Append(written, packet)
             /\ stream' = stream \o [k \in 1 .. packet.length |-> <<Len(written) + 1, k>>]
  BY DEF writePacket, Commands
<1>1. PICK n \in PayloadSizes[c] :
         LET packet == serializePacket(c, n)
         IN  /\ written' = Append(written, packet)
             /\ stream' = stream \o [k \in 1 .. packet.length |-> <<Len(written) + 1, k>>]
  BY <1>0
<1> DEFINE packet == serializePacket(c, n)
           bytes == [k \in 1 .. packet.length |-> <<Len(written) + 1, k>>]
<1>2. /\ packet \in PacketType /\ packet.length > 0 /\ packet.length >= NetHeaderSize
      /\ packet.size = packet.length % SizeLimit
  <2>1. n \in Nat /\ NetHeaderSize + n \in Nat /\ NetHeaderSize + n > 0
    BY <1>1
  <2>2. (NetHeaderSize + n) % SizeLimit \in Nat
    BY <2>1
  <2> QED BY <2>1, <2>2 DEF serializePacket, PacketType
<1>3. written \in Seq(PacketType) /\ Len(written) \in Nat
  BY LenProperties DEF NetInv, PacketsInv
<1> HIDE DEF packet
<1>4. /\ written' \in Seq(PacketType) /\ Len(written') = Len(written) + 1
      /\ \A i \in 1 .. Len(written) : written'[i] = written[i]
      /\ written'[Len(written) + 1] = packet
  BY <1>1, <1>2, <1>3, AppendProperties DEF packet
<1>5. PacketsInv'
  <2>1. \A i \in 1 .. Len(written') : i \in 1 .. Len(written) \/ i = Len(written) + 1
    BY <1>3, <1>4
  <2> QED BY <2>1, <1>2, <1>4 DEF NetInv, PacketsInv
<1>6. ASSUME (TooLong = {} /\ ~short)' PROVE StreamInv'
  <2>1. TooLong = {} /\ ~short
    BY <1>3, <1>4, <1>6 DEF TooLong, writePacket
  <2>2. StreamInv
    BY <2>1 DEF NetInv
  <2>3. /\ stream' \in Seq(Byte) /\ InOrder(stream', written')
        /\ \A b : From(stream, written, b) => From(stream', written', b)
    <3>1. stream' = stream \o bytes /\ written' = Append(written, packet)
      BY <1>1 DEF packet
    <3>2. stream \in Seq(Byte) /\ InOrder(stream, written)
      BY <2>2 DEF StreamInv
    <3> QED BY <3>1, <3>2, <1>2, <1>3, WrittenInOrder
  <2>4. Len(received) \in Nat
    BY <2>2, LenProperties DEF StreamInv
  <2>5. ASSUME receiver \in {"size", "payload", "packet"}
        PROVE  /\ written'[Arriving] = written[Arriving]
               /\ From(stream', written', Following(Arriving, Len(buffer), written'))
    <3>1. Arriving \in 1 .. Len(written)
      BY <2>2, <2>4, <2>5, <1>3 DEF StreamInv, Arriving
    <3>2. written'[Arriving] = written[Arriving]
      BY <3>1, <1>4
    <3>3. From(stream, written, Following(Arriving, Len(buffer), written))
      BY <2>2, <2>5 DEF StreamInv
    <3> QED BY <3>2, <3>3, <2>3 DEF Following
  <2>6. Arriving' = Arriving /\ UNCHANGED <<receiver, buffer, headerSize, received>>
    BY DEF writePacket, Arriving
  <2>7. \A i \in 1 .. Len(received) : i \in 1 .. Len(written)
    BY <2>2, <2>4, <1>3 DEF StreamInv
  <2>8. Len(received) =< Len(written') /\ (Len(received) < Len(written) => Len(received) < Len(written'))
    BY <2>2, <2>4, <1>3, <1>4 DEF StreamInv
  <2> QED BY <2>2, <2>3, <2>5, <2>6, <2>7, <2>8, <1>4 DEF StreamInv
<1> QED BY <1>5, <1>6 DEF NetInv

(* What the packet that arrives has and what recv gives of it. *)
LEMMA RecvStep ==
    ASSUME PacketsInv, TooLong = {}, StreamInv, NEW wanted \in Nat \ {0}, NEW next,
           Recv(wanted, next), ~short', receiver \in {"header", "payload"},
           Len(received) < Len(written), Len(buffer) + wanted =< written[Arriving].length,
           Len(stream) > 0 => stream[1] = <<Arriving, Len(buffer) + 1>>,
           \A k \in 1 .. Len(buffer) : buffer[k] = <<Arriving, k>>
    PROVE  /\ stream' \in Seq(Byte) /\ buffer' \in Seq(Byte) /\ receiver' = next
           /\ InOrder(stream', written)
           /\ Len(buffer') = Len(buffer) + wanted
           /\ \A k \in 1 .. Len(buffer') : buffer'[k] = <<Arriving, k>>
           /\ From(stream', written, Following(Arriving, Len(buffer'), written))
<1>1. PICK n \in 1 .. Len(stream) :
        /\ n = wanted
        /\ stream' = SubSeq(stream, n + 1, Len(stream))
        /\ buffer' = buffer \o SubSeq(stream, 1, n)
        /\ receiver' = next
  <2>1. PICK n \in 1 .. Len(stream) :
          /\ n =< wanted
          /\ stream' = SubSeq(stream, n + 1, Len(stream))
          /\ buffer' = buffer \o SubSeq(stream, 1, n) \o [k \in 1 .. wanted - n |-> StaleByte]
          /\ short' = (short \/ n < wanted)
          /\ receiver' = next
    BY DEF Recv
  <2>2. Len(stream) \in Nat /\ buffer \in Seq(Byte) /\ stream \in Seq(Byte)
    BY LenProperties DEF StreamInv
  <2>3. n \in Nat /\ n = wanted
    <3>1. ~(n < wanted)
      BY <2>1, Zenon
    <3>2. n =< wanted
      BY <2>1, Zenon
    <3> QED BY <2>2, <3>1, <3>2
  <2> DEFINE none == [k \in 1 .. wanted - n |-> StaleByte]
  <2>4. none = <<>>
    <3>1. none \in Seq(Byte) /\ Len(none) = 0
      <4>1. wanted - n = 0 /\ none \in [1 .. 0 -> Byte]
        BY <2>3
      <4> QED BY <4>1, LenProperties, SeqDef
    <3> QED BY <3>1, EmptySeq
  <2> HIDE DEF none
  <2>5. buffer \o SubSeq(stream, 1, n) \in Seq(Byte)
    <3>1. \A k \in 1 .. n : stream[k] \in Byte
      BY <2>1, <2>2, ElementOfSeq
    <3>2. SubSeq(stream, 1, n) \in Seq(Byte)
      BY <2>1, <2>2, <3>1, SubSeqProperties
    <3> QED BY <2>2, <3>2, ConcatProperties
  <2>6. (buffer \o SubSeq(stream, 1, n)) \o <<>> = buffer \o SubSeq(stream, 1, n)
    BY <2>5, ConcatEmptySeq
  <2> QED BY <2>1, <2>3, <2>4, <2>6 DEF none
<1> DEFINE p == Arriving
           b == Len(buffer)
           consumed == SubSeq(stream, 1, n)
<1>2. /\ Len(written) \in Nat /\ Len(received) \in Nat /\ b \in Nat /\ Len(stream) \in Nat
      /\ buffer \in Seq(Byte) /\ stream \in Seq(Byte) /\ written \in Seq(PacketType)
  BY LenProperties DEF PacketsInv, StreamInv
<1>3. p \in 1 .. Len(written) /\ InOrder(stream, written)
  BY <1>2 DEF Arriving, StreamInv
<1>4. written[p].length \in Nat
  BY <1>3, SizesAreKept
<1>5. b + n =< written[p].length
  <2>1. b + wanted =< written[p].length /\ b + n =< b + wanted
    BY <1>1, <1>2
  <2> QED BY <2>1, <1>1, <1>2, <1>4
<1>12. stream[1] = <<p, b + 1>>
  <2>1. Len(stream) > 0
    BY <1>1, <1>2
  <2> QED BY <2>1
<1> DEFINE rest == SubSeq(stream, n + 1, Len(stream))
           joined == buffer \o consumed
<1> HIDE DEF p, b
<1>6. /\ consumed \in Seq(Byte) /\ Len(consumed) = n
      /\ \A k \in 1 .. n : consumed[k] = <<p, b + k>>
      /\ rest \in Seq(Byte) /\ InOrder(rest, written)
      /\ From(rest, written, Following(p, b + n, written))
  <2>1. /\ written \in Seq(PacketType) /\ stream \in Seq(Byte) /\ InOrder(stream, written)
        /\ p \in 1 .. Len(written) /\ b \in Nat /\ n \in 1 .. Len(stream)
        /\ stream[1] = <<p, b + 1>> /\ b + n =< written[p].length
    BY <1>2, <1>3, <1>5, <1>12
  <2> HIDE DEF joined
  <2>2. consumed \in Seq(Byte) /\ Len(consumed) = n
    BY <2>1, TakenInOrder
  <2>3. \A k \in 1 .. n : consumed[k] = <<p, b + k>>
    <3>0. Begins(stream, p, b, n)
      BY <2>1, TakenInOrder
    <3>1. \A k \in 1 .. n : stream[k] = <<p, b + k>>
      BY <3>0 DEF Begins
    <3>2. \A k \in 1 .. n : stream[k] \in Byte
      BY <1>2, <2>1, ElementOfSeq
    <3>3. \A k \in 1 .. n : consumed[k] = stream[k]
      BY <1>2, <3>2, SubSeqProperties
    <3> QED BY <3>1, <3>3
  <2>4. rest \in Seq(Byte) /\ InOrder(rest, written)
    BY <2>1, TakenInOrder
  <2>5. From(rest, written, Following(p, b + n, written))
    BY <2>1, TakenInOrder
  <2> QED BY <2>2, <2>3, <2>4, <2>5
<1>9. stream' = rest /\ buffer' = joined
  BY <1>1
<1> HIDE DEF consumed, rest
<1>10. Len(buffer) = b
  BY DEF b
<1>7. /\ joined \in Seq(Byte) /\ Len(joined) = b + n
      /\ \A k \in 1 .. b + n : joined[k] = IF k =< b THEN buffer[k] ELSE consumed[k - b]
  BY <1>2, <1>6, <1>10, ConcatProperties, ZenonT(60)
<1> HIDE DEF joined
<1>8. ASSUME NEW k \in 1 .. b + n PROVE joined[k] = <<p, k>>
  <2>1. CASE k =< b
    BY <2>1, <1>2, <1>7, SMTT(40) DEF p, b
  <2>2. CASE ~(k =< b)
    <3>1. k - b \in 1 .. n /\ b + (k - b) = k
      <4>1. b \in Nat /\ n \in Nat
        BY <1>1, <1>2
      <4> HIDE DEF b
      <4> QED BY <2>2, <4>1
    <3>2. joined[k] = consumed[k - b]
      BY <2>2, <1>7
    <3> QED BY <3>1, <3>2, <1>6
  <2> QED BY <2>1, <2>2
<1>11. n = wanted => Len(joined) = Len(buffer) + wanted
  BY <1>7, <1>10
<1> QED BY <1>1, <1>6, <1>7, <1>8, <1>9, <1>11 DEF p

LEMMA HeaderStep ==
    ASSUME NetInv, RecvHeader
    PROVE  NetInv'
<1> USE DebugNetAssumption
<1>1. PacketsInv' /\ TooLong' = TooLong
  BY DEF NetInv, PacketsInv, TooLong, RecvHeader
<1>2. ASSUME TooLong = {}, ~short' PROVE StreamInv'
  <2>1. PacketsInv /\ StreamInv /\ receiver = "header" /\ buffer = <<>> /\ Recv(NetHeaderSize, "size")
    <3>1. Recv(NetHeaderSize, "size") /\ ~short
      BY <1>2 DEF RecvHeader, Recv
    <3> QED BY <1>2, <3>1 DEF NetInv, RecvHeader, StreamInv
  <2>2. /\ Len(written) \in Nat /\ Len(received) \in Nat /\ Len(buffer) = 0 /\ Len(stream) \in Nat
        /\ written \in Seq(PacketType)
    BY <2>1, LenProperties DEF PacketsInv, StreamInv
  <2>3. stream[1] = <<Arriving, 1>> /\ Len(stream) > 0
    <3>1. Len(stream) > 0
      <4>1. \E n \in 1 .. Len(stream) : TRUE
        BY <2>1, Zenon DEF Recv
      <4> QED BY <4>1, <2>2
    <3>2. From(stream, written, <<Arriving, 1>>)
      BY <2>1 DEF StreamInv
    <3> QED BY <3>1, <3>2 DEF From
  <2>4. Len(received) < Len(written)
    <3>1. stream[1][1] \in 1 .. Len(written)
      <4>1. InOrder(stream, written) /\ 1 \in 1 .. Len(stream)
        BY <2>1, <2>2, <2>3 DEF StreamInv
      <4> QED BY <4>1 DEF InOrder
    <3> QED BY <3>1, <2>2, <2>3 DEF Arriving
  <2>5. Arriving \in 1 .. Len(written) /\ NetHeaderSize =< written[Arriving].length
    <3>1. Arriving \in 1 .. Len(written)
      BY <2>2, <2>4 DEF Arriving
    <3>2. written[Arriving].length >= NetHeaderSize /\ written[Arriving].length \in Nat
      BY <3>1, <2>1, <1>2, SizesAreKept DEF PacketsInv
    <3> QED BY <3>1, <3>2
  <2>6. stream[1] = <<Arriving, Len(buffer) + 1>> /\ \A k \in 1 .. Len(buffer) : buffer[k] = <<Arriving, k>>
    BY <2>2, <2>3
  <2>7. Len(buffer) + NetHeaderSize =< written[Arriving].length
    BY <2>2, <2>5
  <2>8. /\ stream' \in Seq(Byte) /\ buffer' \in Seq(Byte) /\ receiver' = "size"
        /\ InOrder(stream', written)
        /\ Len(buffer') = Len(buffer) + NetHeaderSize
        /\ \A k \in 1 .. Len(buffer') : buffer'[k] = <<Arriving, k>>
        /\ From(stream', written, Following(Arriving, Len(buffer'), written))
    BY <1>2, <2>1, <2>4, <2>6, <2>7, RecvStep
  <2>9. UNCHANGED <<written, received>> /\ Arriving' = Arriving
    BY DEF RecvHeader, Arriving
  <2>10. /\ received' \in Seq(PacketType) /\ Len(received') < Len(written')
         /\ Len(received') =< Len(written')
         /\ \A i \in 1 .. Len(received') : received'[i] = written'[i]
    BY <2>1, <2>2, <2>4, <2>9 DEF StreamInv
  <2>11. /\ InOrder(stream', written') /\ Len(buffer') = NetHeaderSize
         /\ \A k \in 1 .. Len(buffer') : buffer'[k] = <<Arriving', k>>
         /\ From(stream', written', Following(Arriving', Len(buffer'), written'))
    BY <2>2, <2>8, <2>9
  <2> QED BY <2>8, <2>10, <2>11 DEF StreamInv
<1> QED BY <1>1, <1>2 DEF NetInv

LEMMA SizeStep ==
    ASSUME NetInv, TestSize
    PROVE  NetInv'
<1> USE DebugNetAssumption
<1>1. PacketsInv' /\ TooLong' = TooLong
  BY DEF NetInv, PacketsInv, TooLong, TestSize
<1>2. ASSUME TooLong = {}, ~short' PROVE StreamInv'
  <2>1. PacketsInv /\ StreamInv /\ receiver = "size"
    BY <1>2 DEF NetInv, TestSize
  <2>2. /\ Len(written) \in Nat /\ Len(received) \in Nat /\ Len(buffer) = NetHeaderSize
        /\ Len(received) < Len(written)
    BY <2>1, LenProperties DEF PacketsInv, StreamInv
  <2>3. Arriving \in 1 .. Len(written)
    BY <2>2 DEF Arriving
  <2>4. \A k \in 1 .. NetHeaderSize : buffer[k] = <<Arriving, k>>
    BY <2>1, <2>2 DEF StreamInv
  <2>5. buffer[1][1] = Arriving /\ AreOfOne
    BY <2>2, <2>4 DEF AreOfOne
  <2>6. /\ written[Arriving].size = written[Arriving].length
        /\ written[Arriving].length \in Nat /\ written[Arriving].length >= NetHeaderSize
    BY <1>2, <2>1, <2>3, SizesAreKept DEF PacketsInv
  <2>7. /\ headerSize' = written[Arriving].length
        /\ receiver' = IF headerSize' > NetHeaderSize THEN "payload" ELSE "packet"
        /\ UNCHANGED <<written, stream, buffer, received>> /\ Arriving' = Arriving
    BY <2>5, <2>6 DEF TestSize, Arriving
  <2> QED BY <2>1, <2>2, <2>6, <2>7 DEF StreamInv
<1> QED BY <1>1, <1>2 DEF NetInv

LEMMA PayloadStep ==
    ASSUME NetInv, RecvPayload
    PROVE  NetInv'
<1> USE DebugNetAssumption
<1>1. PacketsInv' /\ TooLong' = TooLong
  BY DEF NetInv, PacketsInv, TooLong, RecvPayload
<1>2. ASSUME TooLong = {}, ~short' PROVE StreamInv'
  <2> DEFINE size == written[Arriving].length
             wanted == size - NetHeaderSize
  <2>1. PacketsInv /\ StreamInv /\ receiver = "payload"
    <3>1. ~short
      BY <1>2 DEF RecvPayload, Recv
    <3> QED BY <1>2, <3>1 DEF NetInv, RecvPayload
  <2>2. /\ Len(written) \in Nat /\ Len(received) \in Nat /\ Len(buffer) = NetHeaderSize
        /\ Len(stream) \in Nat /\ Len(received) < Len(written) /\ NetHeaderSize < size
        /\ \A k \in 1 .. Len(buffer) : buffer[k] = <<Arriving, k>>
    BY <2>1, LenProperties DEF PacketsInv, StreamInv
  <2>3. Arriving \in 1 .. Len(written)
    BY <2>2 DEF Arriving
  <2>4. headerSize = size /\ size \in Nat
    BY <1>2, <2>1, <2>3, SizesAreKept DEF StreamInv
  <2>5. Len(stream) > 0 => stream[1] = <<Arriving, Len(buffer) + 1>>
    BY <2>1, <2>2 DEF StreamInv, From, Following
  <2> HIDE DEF size
  <2>6. wanted \in Nat \ {0} /\ Len(buffer) + wanted = size /\ Recv(wanted, "packet")
    BY <2>2, <2>4 DEF RecvPayload
  <2> HIDE DEF wanted
  <2>7. Len(buffer) + wanted =< written[Arriving].length
    BY <2>4, <2>6 DEF size
  <2>8. /\ stream' \in Seq(Byte) /\ buffer' \in Seq(Byte) /\ receiver' = "packet"
        /\ InOrder(stream', written)
        /\ Len(buffer') = Len(buffer) + wanted
        /\ \A k \in 1 .. Len(buffer') : buffer'[k] = <<Arriving, k>>
        /\ From(stream', written, Following(Arriving, Len(buffer'), written))
    BY <1>2, <2>1, <2>2, <2>5, <2>6, <2>7, RecvStep
  <2>9. UNCHANGED <<written, received>> /\ Arriving' = Arriving
    BY DEF RecvPayload, Arriving
  <2> QED BY <2>1, <2>2, <2>6, <2>8, <2>9 DEF StreamInv, size
<1> QED BY <1>1, <1>2 DEF NetInv

LEMMA DeserializeStep ==
    ASSUME NetInv, Deserialize
    PROVE  NetInv'
<1> USE DebugNetAssumption
<1>1. PacketsInv' /\ TooLong' = TooLong
  BY DEF NetInv, PacketsInv, TooLong, Deserialize
<1>2. ASSUME TooLong = {}, ~short' PROVE StreamInv'
  <2> DEFINE packet == written[Arriving]
  <2>1. PacketsInv /\ StreamInv /\ receiver = "packet"
    BY <1>2 DEF NetInv, Deserialize
  <2>2. /\ Len(written) \in Nat /\ Len(received) \in Nat /\ Len(received) < Len(written)
        /\ Len(buffer) = packet.length
        /\ \A k \in 1 .. Len(buffer) : buffer[k] = <<Arriving, k>>
        /\ received \in Seq(PacketType) /\ written \in Seq(PacketType)
    BY <2>1, LenProperties DEF PacketsInv, StreamInv
  <2>3. Arriving \in 1 .. Len(written)
    BY <2>2 DEF Arriving
  <2>4. packet \in PacketType /\ packet.length \in Nat /\ packet.length >= NetHeaderSize /\ packet.size = packet.length
    BY <1>2, <2>1, <2>2, <2>3, ElementOfSeq, SizesAreKept DEF PacketsInv
  <2>5. buffer[1][1] = Arriving /\ AreOfOne
    BY <2>2, <2>4 DEF AreOfOne
  <2>6. InBuffer = packet /\ packet # Garbage
    BY <2>2, <2>4, <2>5 DEF InBuffer, Garbage
  <2>7. /\ receiver' = "header" /\ received' = Append(received, packet)
        /\ buffer' = <<>> /\ UNCHANGED <<written, stream>>
    BY <2>6 DEF Deserialize
  <2>8. From(stream, written, <<Arriving + 1, 1>>) /\ InOrder(stream, written)
    BY <2>1, <2>2, <2>4 DEF StreamInv, Following
  <2> HIDE DEF packet
  <2>9. /\ received' \in Seq(PacketType) /\ Len(received') = Len(received) + 1
        /\ \A i \in 1 .. Len(received) : received'[i] = received[i]
        /\ received'[Len(received) + 1] = packet
    BY <2>2, <2>4, <2>7, AppendProperties
  <2>10. Arriving' = Arriving + 1 /\ Len(received') =< Len(written)
    BY <2>2, <2>9 DEF Arriving
  <2>11. \A i \in 1 .. Len(received') : received'[i] = written[i]
    <3>1. \A i \in 1 .. Len(received') : i \in 1 .. Len(received) \/ i = Len(received) + 1
      BY <2>2, <2>9
    <3> QED BY <2>1, <2>9, <3>1 DEF StreamInv, packet, Arriving
  <2> QED BY <2>1, <2>7, <2>8, <2>9, <2>10, <2>11 DEF StreamInv
<1> QED BY <1>1, <1>2 DEF NetInv

(* In either stream, whatever was written, the packets arrive whole and in    *)
(* their order until one is written that is longer than the header's 16 bits  *)
(* can say, or a recv gives less than it was asked for.                       *)
THEOREM ArrivalCorrect == SpecNet => []ArrivesAsWritten
<1>1. InitNet => NetInv
  <2> SUFFICES ASSUME InitNet PROVE NetInv
    OBVIOUS
  <2>1. <<>> \in Seq(PacketType) /\ <<>> \in Seq(Byte) /\ Len(<<>>) = 0
    BY EmptySeq
  <2>2. From(<<>>, <<>>, <<1, 1>>) /\ InOrder(<<>>, <<>>)
    BY DEF From, InOrder
  <2>3. written = <<>> /\ stream = <<>> /\ receiver = "header" /\ buffer = <<>> /\ received = <<>>
    BY DEF InitNet
  <2> QED BY <2>1, <2>2, <2>3 DEF NetInv, PacketsInv, StreamInv, Arriving
<1>2. NetInv /\ [NextNet]_netStreamVars => NetInv'
  <2> SUFFICES ASSUME NetInv, [NextNet]_netStreamVars PROVE NetInv'
    OBVIOUS
  <2>1. CASE UNCHANGED netStreamVars
    BY <2>1 DEF NetInv, PacketsInv, StreamInv, TooLong, Arriving, netStreamVars
  <2> QED BY <2>1, WriteStep, HeaderStep, SizeStep, PayloadStep, DeserializeStep DEF NextNet
<1>3. NetInv => ArrivesAsWritten
  <2> SUFFICES ASSUME NetInv, TooLong = {}, ~short
               PROVE  /\ IsPrefix(received, written)
                      /\ receiver = "size" => AreOfOne
                      /\ receiver = "header" /\ stream # <<>> =>
                            stream[1] = <<Len(received) + 1, 1>>
    BY DEF ArrivesAsWritten
  <2>1. StreamInv /\ PacketsInv
    BY DEF NetInv
  <2>2. /\ received \in Seq(PacketType) /\ written \in Seq(PacketType) /\ stream \in Seq(Byte)
        /\ Len(received) \in Nat /\ Len(written) \in Nat /\ Len(received) =< Len(written)
        /\ \A i \in 1 .. Len(received) : received[i] = written[i]
    BY <2>1, LenProperties DEF StreamInv, PacketsInv
  <2>3. SubSeq(received, 1, Len(received)) = SubSeq(written, 1, Len(received))
    <3> DEFINE r == SubSeq(received, 1, Len(received))
               w == SubSeq(written, 1, Len(received))
    <3>1. \A i \in 1 .. Len(received) : received[i] \in PacketType /\ written[i] \in PacketType
      BY <2>2, ElementOfSeq
    <3>2. /\ r \in Seq(PacketType) /\ Len(r) = Len(received)
          /\ \A i \in 1 .. Len(received) : r[i] = received[i]
      BY <3>1, <2>2, SubSeqProperties
    <3>3. /\ w \in Seq(PacketType) /\ Len(w) = Len(received)
          /\ \A i \in 1 .. Len(received) : w[i] = written[i]
      BY <3>1, <2>2, SubSeqProperties
    <3> HIDE DEF r, w
    <3>4. r = w
      BY <3>2, <3>3, <2>2, SeqEqual
    <3> QED BY <3>4 DEF r, w
  <2>4. stream # <<>> => Len(stream) > 0
    BY <2>2, EmptySeq
  <2>5. ASSUME receiver = "size" PROVE AreOfOne
    <3>1. Len(buffer) = NetHeaderSize /\ \A k \in 1 .. Len(buffer) : buffer[k] = <<Arriving, k>>
      BY <2>1, <2>5 DEF StreamInv
    <3> QED BY <3>1, DebugNetAssumption DEF AreOfOne
  <2> QED BY <2>1, <2>2, <2>3, <2>4, <2>5 DEF IsPrefix, StreamInv, From, Arriving
<1> QED BY <1>1, <1>2, <1>3, PTL DEF SpecNet

-----------------------------------------------------------------------------
(* The frame heap. *)

FrameState == [tag : Tags \cup {0}, top : Int, bottom : Int]
FrameHeapType == [top : Int, bottom : Int, size : Int, states : Seq(FrameState)]
FrameBlock == [first : Int, size : Nat, depth : Int, fromTop : BOOLEAN]

FramesEnd == Base + FrameUnits

\* The free memory of each state lies within the heap and within that of every
\* state before it; and who has recorded a state has a block at the bottom.
HeapInv(h) ==
    /\ h \in FrameHeapType
    /\ Depth(h) >= 1 /\ h.bottom = Base /\ h.top =< FramesEnd
    /\ \A n \in 1 .. Depth(h) :
          /\ Base =< h.states[n].bottom /\ h.states[n].bottom =< h.states[n].top
          /\ h.states[n].top =< h.top
    /\ \A m, n \in 1 .. Depth(h) :
          m < n => /\ h.states[m].bottom =< h.states[n].bottom
                   /\ h.states[n].top =< h.states[m].top
    /\ \A n \in 1 .. Depth(h) : Depth(h) > 1 => h.states[n].bottom > Base

\* A block is outside the free memory of the state it was allocated in.
Placed(h, b) ==
    /\ b \in FrameBlock /\ b.depth \in 1 .. Depth(h)
    /\ IF b.fromTop
       THEN h.states[b.depth].top =< b.first /\ b.first + b.size =< FramesEnd
       ELSE Base =< b.first /\ b.first + b.size =< h.states[b.depth].bottom

DisjointBlocks(B) == \A b, c \in B : b # c => UnitsOf(b) \cap UnitsOf(c) = {}

FramesInv ==
    strayed = "no" =>
        /\ HeapInv(frames)
        /\ \A b \in taken : Placed(frames, b)
        /\ DisjointBlocks(taken)

LEMMA CurrentIs ==
    ASSUME NEW h, HeapInv(h)
    PROVE  /\ Depth(h) \in Nat /\ Depth(h) \in 1 .. Depth(h)
           /\ h.states \in Seq(FrameState)
           /\ Current(h) = h.states[Depth(h)]
           /\ \A n \in 1 .. Depth(h) :
                 /\ h.states[n] \in FrameState
                 /\ h.states[n].top \in Int /\ h.states[n].bottom \in Int
                 /\ h.states[n].tag \in Tags \cup {0}
           /\ h.top \in Int /\ h.bottom = Base /\ h.size \in Int
           /\ \A n \in 1 .. Depth(h) : /\ h.states[n].bottom =< Current(h).bottom
                                       /\ Current(h).top =< h.states[n].top
<1>1. h.states \in Seq(FrameState) /\ h.top \in Int /\ h.bottom = Base /\ h.size \in Int
  BY DEF HeapInv, FrameHeapType
<1>2. Depth(h) \in Nat /\ Depth(h) \in 1 .. Depth(h)
  BY <1>1, LenProperties DEF HeapInv, Depth
<1>3. \A n \in 1 .. Depth(h) : h.states[n] \in FrameState
  BY <1>1, ElementOfSeq DEF Depth
<1>4. ASSUME NEW n \in 1 .. Depth(h)
      PROVE  /\ h.states[n].top \in Int /\ h.states[n].bottom \in Int
             /\ h.states[n].tag \in Tags \cup {0}
  BY <1>3 DEF FrameState
<1>5. ASSUME NEW n \in 1 .. Depth(h)
      PROVE  /\ h.states[n].bottom =< Current(h).bottom
             /\ Current(h).top =< h.states[n].top
  <2>1. n < Depth(h) \/ n = Depth(h)
    BY <1>2
  <2> QED BY <2>1, <1>2, <1>4 DEF HeapInv, Current
<1> QED BY <1>1, <1>2, <1>3, <1>4, <1>5 DEF Current

LEMMA UnsignedDifference ==
    ASSUME NEW a \in Int, NEW b \in Int, b =< a, a - b < Modulus
    PROVE  Minus(a, b) = a - b
<1>1. a - b \in Nat /\ Modulus \in Nat
  BY FrameAssumption
<1>2. \A x, m \in Nat : x < m => x % m = x
  OBVIOUS
<1> QED BY <1>1, <1>2 DEF Minus

LEMMA FreeIsSmall ==
    ASSUME NEW h, HeapInv(h)
    PROVE  /\ Base =< Current(h).bottom /\ Current(h).bottom =< Current(h).top
           /\ Current(h).top =< FramesEnd /\ FramesEnd < Modulus /\ Base \in Nat \ {0}
           /\ Current(h).top - Current(h).bottom < Modulus
           /\ Minus(Current(h).top, Current(h).bottom) = Current(h).top - Current(h).bottom
<1>1. /\ Base =< Current(h).bottom /\ Current(h).bottom =< Current(h).top
      /\ Current(h).top =< h.top /\ h.top =< FramesEnd
      /\ Current(h).top \in Int /\ Current(h).bottom \in Int /\ h.top \in Int
  BY CurrentIs DEF HeapInv
<1>2. FramesEnd \in Int /\ FramesEnd < Modulus /\ Base \in Nat \ {0} /\ Modulus \in Nat
  BY FrameAssumption DEF FramesEnd
<1>3. Current(h).top - Current(h).bottom < Modulus /\ Current(h).top =< FramesEnd
  BY <1>1, <1>2
<1> QED BY <1>1, <1>2, <1>3, UnsignedDifference

(* Rounding up to a multiple. *)
LEMMA Rounding ==
    ASSUME NEW v \in Int, NEW a \in Nat \ {0}
    PROVE  /\ AlignUp(v, a) \in Int /\ v =< AlignUp(v, a) /\ AlignUp(v, a) < v + a
           /\ v % a = 0 => AlignUp(v, a) = v
           /\ \E k \in Int : AlignUp(v, a) = k * a
<1> DEFINE k == (v + a - 1) \div a
<1>1. k \in Int /\ k * a =< v + a - 1 /\ v + a - 1 < k * a + a /\ k * a \in Int
  <2>1. \A x \in Int : (x \div a) \in Int /\ (x \div a) * a =< x /\ x < (x \div a) * a + a
    OBVIOUS
  <2> QED BY <2>1
<1>2. AlignUp(v, a) = k * a
  BY DEF AlignUp
<1>3. ASSUME v % a = 0 PROVE AlignUp(v, a) = v
  <2>1. PICK q \in Int : v = q * a
    <3>1. v \div a \in Int /\ v = (v \div a) * a
      BY <1>3
    <3> QED BY <3>1
  <2>2. \A p \in Int, r \in Int : 0 =< r /\ r < a => (p * a + r) \div a = p
    OBVIOUS
  <2>3. (q * a + (a - 1)) \div a = q
    BY <2>2
  <2>4. v + a - 1 = q * a + (a - 1)
    BY <2>1
  <2> QED BY <2>1, <2>3, <2>4, <1>2
<1> HIDE DEF k
<1> QED BY <1>1, <1>2, <1>3

LEMMA Multiples ==
    ASSUME NEW p \in Int, NEW q \in Int, NEW a \in Nat \ {0}
    PROVE  AlignUp(p * a - q * a, a) = p * a - q * a
<1>1. p * a - q * a = (p - q) * a /\ p - q \in Int
  OBVIOUS
<1>2. \A k \in Int, r \in Int : 0 =< r /\ r < a => (k * a + r) \div a = k
  OBVIOUS
<1>3. ((p - q) * a + (a - 1)) \div a = p - q
  BY <1>1, <1>2
<1>4. (p - q) * a + a - 1 = (p - q) * a + (a - 1)
  BY <1>1
<1> QED BY <1>1, <1>3, <1>4 DEF AlignUp

LEMMA UnitsApart ==
    ASSUME NEW b, NEW c, b.first \in Int, b.size \in Nat, c.first \in Int, c.size \in Nat,
           b.first + b.size =< c.first \/ c.first + c.size =< b.first
    PROVE  UnitsOf(b) \cap UnitsOf(c) = {} /\ UnitsOf(c) \cap UnitsOf(b) = {}
BY DEF UnitsOf

(* The current state changes. *)
LEMMA CurrentMoves ==
    ASSUME NEW h, HeapInv(h), NEW s \in FrameState,
           Base =< s.bottom, s.bottom =< s.top, s.top =< h.top,
           \A n \in 1 .. Depth(h) - 1 : /\ h.states[n].bottom =< s.bottom
                                        /\ s.top =< h.states[n].top,
           Depth(h) > 1 => s.bottom > Base
    PROVE  /\ HeapInv(WithCurrent(h, s)) /\ Depth(WithCurrent(h, s)) = Depth(h)
           /\ Current(WithCurrent(h, s)) = s
           /\ WithCurrent(h, s).states[Depth(h)] = s
           /\ \A n \in 1 .. Depth(h) - 1 : WithCurrent(h, s).states[n] = h.states[n]
<1> DEFINE g == WithCurrent(h, s)
           d == Depth(h)
<1>1. /\ d \in Nat /\ d \in 1 .. d /\ h.states \in Seq(FrameState) /\ d = Len(h.states)
      /\ h \in FrameHeapType /\ s.top \in Int /\ s.bottom \in Int
      /\ \A n \in 1 .. d : h.states[n].top \in Int /\ h.states[n].bottom \in Int
  BY CurrentIs DEF HeapInv, FrameState, Depth
<1>2. g = [h EXCEPT !.states = [h.states EXCEPT ![d] = s]]
  BY <1>1 DEF WithCurrent, FrameHeapType
<1>3. /\ [h.states EXCEPT ![d] = s] \in Seq(FrameState)
      /\ Len([h.states EXCEPT ![d] = s]) = d
      /\ \A n \in 1 .. d : [h.states EXCEPT ![d] = s][n] = IF n = d THEN s ELSE h.states[n]
  BY <1>1, ExceptSeq
<1>4. /\ g \in FrameHeapType /\ g.top = h.top /\ g.bottom = h.bottom /\ g.size = h.size
      /\ g.states = [h.states EXCEPT ![d] = s]
  BY <1>1, <1>2, <1>3 DEF FrameHeapType
<1> HIDE DEF g
<1>5. Depth(g) = d /\ \A n \in 1 .. d : g.states[n] = IF n = d THEN s ELSE h.states[n]
  BY <1>3, <1>4 DEF Depth
<1>6. g.states[d] = s /\ \A n \in 1 .. d - 1 : g.states[n] = h.states[n]
  BY <1>1, <1>5
<1> HIDE DEF d
<1>7. HeapInv(g)
  <2>1. ASSUME NEW n \in 1 .. d
        PROVE  /\ Base =< g.states[n].bottom /\ g.states[n].bottom =< g.states[n].top
               /\ g.states[n].top =< g.top
               /\ d > 1 => g.states[n].bottom > Base
    <3>1. CASE n = d
      BY <3>1, <1>4, <1>6 DEF d
    <3>2. CASE n # d
      BY <3>2, <1>4, <1>5 DEF d, HeapInv
    <3> QED BY <3>1, <3>2
  <2>2. ASSUME NEW m \in 1 .. d, NEW n \in 1 .. d, m < n
        PROVE  g.states[m].bottom =< g.states[n].bottom /\ g.states[n].top =< g.states[m].top
    <3>1. m # d /\ m \in 1 .. d - 1
      BY <2>2, <1>1
    <3>2. CASE n = d
      BY <3>1, <3>2, <1>6 DEF d
    <3>3. CASE n # d
      BY <3>1, <3>3, <2>2, <1>5 DEF d, HeapInv
    <3> QED BY <3>2, <3>3
  <2>3. g.bottom = Base /\ g.top =< FramesEnd /\ d >= 1
    BY <1>4 DEF HeapInv, d
  <2> QED BY <1>4, <1>5, <2>1, <2>2, <2>3 DEF HeapInv
<1>8. Current(g) = s
  BY <1>5, <1>6 DEF Current
<1> QED BY <1>5, <1>6, <1>7, <1>8 DEF g, d

(* When it moves inwards every block keeps its place. *)
LEMMA BlocksStay ==
    ASSUME NEW h, NEW g, NEW b, HeapInv(h), HeapInv(g), Placed(h, b), Depth(g) >= Depth(h),
           \A n \in 1 .. Depth(h) :
              n = b.depth =>
              /\ b.fromTop => g.states[n].top =< h.states[n].top
              /\ ~b.fromTop => h.states[n].bottom =< g.states[n].bottom
    PROVE  Placed(g, b)
<1>1. /\ Depth(h) \in Nat /\ Depth(g) \in Nat /\ b.depth \in 1 .. Depth(h) /\ b.depth \in 1 .. Depth(g)
      /\ b \in FrameBlock
  BY CurrentIs DEF Placed
<1>2. /\ h.states[b.depth].top \in Int /\ h.states[b.depth].bottom \in Int
      /\ g.states[b.depth].top \in Int /\ g.states[b.depth].bottom \in Int
  BY <1>1, CurrentIs
<1>3. b.first \in Int /\ b.size \in Nat /\ b.first + b.size \in Int /\ b.fromTop \in BOOLEAN
  BY <1>1 DEF FrameBlock
<1> QED BY <1>1, <1>2, <1>3 DEF Placed

(* Every block is outside the free memory. *)
LEMMA BlocksOutside ==
    ASSUME NEW h, NEW b, HeapInv(h), Placed(h, b)
    PROVE  /\ b.first \in Int /\ b.size \in Nat
           /\ Base =< b.first /\ b.first + b.size =< FramesEnd
           /\ Current(h).top =< b.first \/ b.first + b.size =< Current(h).bottom
<1>1. /\ b.depth \in 1 .. Depth(h) /\ b \in FrameBlock
  BY DEF Placed
<1>2. /\ h.states[b.depth].top \in Int /\ h.states[b.depth].bottom \in Int
      /\ Current(h).top \in Int /\ Current(h).bottom \in Int /\ h.top \in Int
      /\ h.states[b.depth].bottom =< Current(h).bottom
      /\ Current(h).top =< h.states[b.depth].top
      /\ Base =< h.states[b.depth].bottom /\ h.states[b.depth].bottom =< h.states[b.depth].top
      /\ h.states[b.depth].top =< h.top /\ h.top =< FramesEnd
  BY <1>1, CurrentIs DEF HeapInv
<1>3. b.first \in Int /\ b.size \in Nat /\ b.fromTop \in BOOLEAN /\ Base \in Int /\ FramesEnd \in Int
  BY <1>1, FrameAssumption DEF FrameBlock, FramesEnd
<1> QED BY <1>2, <1>3 DEF Placed

(* g has given away some of the free memory of h. *)
Shrinks(h, g) ==
    /\ HeapInv(g) /\ Depth(g) = Depth(h)
    /\ \A n \in 1 .. Depth(h) : /\ h.states[n].bottom =< g.states[n].bottom
                                /\ g.states[n].top =< h.states[n].top

LEMMA CurrentShrinks ==
    ASSUME NEW h, HeapInv(h), NEW s \in FrameState,
           Current(h).bottom =< s.bottom, s.bottom =< s.top, s.top =< Current(h).top
    PROVE  /\ Shrinks(h, WithCurrent(h, s)) /\ Current(WithCurrent(h, s)) = s
           /\ WithCurrent(h, s).states[Depth(h)] = s
<1> DEFINE g == WithCurrent(h, s)
           d == Depth(h)
<1>1. /\ d \in Nat /\ d \in 1 .. d /\ Current(h) = h.states[d] /\ s.top \in Int /\ s.bottom \in Int
      /\ \A n \in 1 .. d : /\ h.states[n].top \in Int /\ h.states[n].bottom \in Int
                           /\ h.states[n].bottom =< Current(h).bottom
                           /\ Current(h).top =< h.states[n].top
      /\ h.top \in Int /\ Base \in Int
  BY CurrentIs, FrameAssumption DEF FrameState
<1> HIDE DEF g
<1>2. \A n \in 1 .. d - 1 : n \in 1 .. d
  BY <1>1
<1>3. /\ Base =< Current(h).bottom /\ Current(h).top =< h.top
      /\ d > 1 => Current(h).bottom > Base
  BY <1>1 DEF HeapInv
<1>4. /\ Base =< s.bottom /\ s.top =< h.top
      /\ d > 1 => s.bottom > Base
      /\ \A n \in 1 .. d - 1 : h.states[n].bottom =< s.bottom /\ s.top =< h.states[n].top
  BY <1>1, <1>2, <1>3
<1>5. /\ HeapInv(g) /\ Depth(g) = d /\ Current(g) = s /\ g.states[d] = s
      /\ \A n \in 1 .. d - 1 : g.states[n] = h.states[n]
  BY <1>4, CurrentMoves DEF g
<1>6. ASSUME NEW n \in 1 .. d
      PROVE  h.states[n].bottom =< g.states[n].bottom /\ g.states[n].top =< h.states[n].top
  <2>1. CASE n = d
    BY <2>1, <1>1, <1>5
  <2>2. CASE n # d
    <3>1. n \in 1 .. d - 1
      BY <2>2, <1>1
    <3> QED BY <3>1, <1>1, <1>5
  <2> QED BY <2>1, <2>2
<1> QED BY <1>5, <1>6 DEF Shrinks, g

(* A block lies within what was free. *)
WithinFree(h, b) == Current(h).bottom =< b.first /\ b.first + b.size =< Current(h).top

\* An allocation takes a block of the memory that was free, or nothing.
AllocatesFree(h, size, a, fromTop) ==
    LET r == MEMAllocFromFrmHeapEx(h, size, a, fromTop)
        b == Block(r.data, size, Depth(h), fromTop)
    IN  /\ Shrinks(h, r.heap)
        /\ r.data = 0 => r.heap = h
        /\ r.data # 0 => Placed(r.heap, b) /\ WithinFree(h, b)
        /\ ~fromTop /\ r.data # 0 =>
              Current(r.heap).bottom = Current(h).bottom + AlignUp(size, a)

LEMMA AllocStep ==
    ASSUME NEW h, HeapInv(h), NEW size \in Nat, NEW a \in Nat \ {0}, NEW fromTop \in BOOLEAN,
           MEMAllocFromFrmHeapEx(h, size, a, fromTop).strayed = "no"
    PROVE  AllocatesFree(h, size, a, fromTop)
<1> DEFINE r == MEMAllocFromFrmHeapEx(h, size, a, fromTop)
           s == Current(h)
           n == AlignUp(size, a)
           offset == IF fromTop THEN s.top - n ELSE s.bottom
           moved == IF fromTop THEN [s EXCEPT !.top = offset]
                    ELSE [s EXCEPT !.bottom = @ + n]
           g == WithCurrent(h, moved)
           b == Block(r.data, size, Depth(h), fromTop)
<1>1. /\ s \in FrameState /\ s.top \in Int /\ s.bottom \in Int /\ s.tag \in Tags \cup {0}
      /\ Depth(h) \in 1 .. Depth(h) /\ Depth(h) \in Nat
  BY CurrentIs
<1>2. /\ Base =< s.bottom /\ s.bottom =< s.top /\ s.top =< FramesEnd /\ Base \in Nat \ {0}
      /\ Minus(s.top, s.bottom) = s.top - s.bottom
  BY FreeIsSmall
<1>3. n \in Int /\ size =< n
  BY Rounding
<1>4. FramesEnd \in Int
  BY FrameAssumption DEF FramesEnd
<1>5. CASE ~Fits(s, n)
  <2>1. r = [heap |-> h, data |-> 0, strayed |-> "no"]
    BY <1>5 DEF MEMAllocFromFrmHeapEx
  <2>2. Shrinks(h, h)
    BY CurrentIs DEF Shrinks
  <2> QED BY <2>1, <2>2 DEF AllocatesFree
<1>6. CASE Fits(s, n)
  <2>1. n =< s.top - s.bottom
    BY <1>2, <1>6 DEF Fits
  <2>2. /\ r.heap = g /\ r.data = AlignUp(offset, a)
        /\ r.strayed = IF offset % a # 0 THEN "unaligned"
                       ELSE IF s.top < s.bottom THEN "adjusted" ELSE "no"
    BY <1>6 DEF MEMAllocFromFrmHeapEx
  <2>3. offset \in Int /\ s.bottom =< offset /\ offset + n =< s.top
    BY <1>1, <1>3, <2>1
  <2>4. r.data = offset /\ r.data # 0
    <3>1. offset % a = 0
      BY <2>2
    <3>2. AlignUp(offset, a) = offset
      BY <3>1, <2>3, Rounding
    <3> QED BY <3>2, <2>2, <2>3, <1>1, <1>2
  <2>5. /\ moved \in FrameState
        /\ fromTop => moved.top = offset /\ moved.bottom = s.bottom
        /\ ~fromTop => moved.top = s.top /\ moved.bottom = s.bottom + n
    BY <1>1, <1>3, <2>3 DEF FrameState
  <2>6. s.bottom =< moved.bottom /\ moved.bottom =< moved.top /\ moved.top =< s.top
    BY <2>5, <2>3, <1>1, <1>2, <1>3
  <2> HIDE DEF moved
  <2>7. Shrinks(h, g) /\ Current(g) = moved /\ g.states[Depth(h)] = moved
    BY <2>5, <2>6, CurrentShrinks
  <2>8. /\ b.first = offset /\ b.size = size /\ b.depth = Depth(h) /\ b.fromTop = fromTop
        /\ b \in FrameBlock
    BY <2>3, <2>4, <1>1 DEF Block, FrameBlock
  <2> HIDE DEF b
  <2>9. WithinFree(h, b)
    BY <2>3, <2>8, <1>1, <1>3 DEF WithinFree
  <2>10. Placed(g, b)
    <3>1. b.depth \in 1 .. Depth(g)
      BY <2>7, <2>8, <1>1 DEF Shrinks
    <3>2. CASE fromTop
      BY <3>1, <3>2, <2>3, <2>5, <2>7, <2>8, <1>1, <1>2, <1>3, <1>4 DEF Placed
    <3>3. CASE ~fromTop
      BY <3>1, <3>3, <2>3, <2>5, <2>7, <2>8, <1>1, <1>2, <1>3, <1>4 DEF Placed
    <3> QED BY <3>2, <3>3
  <2>11. ~fromTop => Current(g).bottom = s.bottom + n
    BY <2>5, <2>7
  <2> QED BY <2>2, <2>4, <2>7, <2>9, <2>10, <2>11 DEF b, AllocatesFree
<1> QED BY <1>5, <1>6

(* What is given away is apart from what was, and what was keeps its place. *)
LEMMA BlockAdded ==
    ASSUME NEW h, NEW g, NEW B, NEW x, HeapInv(h), Shrinks(h, g),
           \A b \in B : Placed(h, b), DisjointBlocks(B), Placed(g, x), WithinFree(h, x)
    PROVE  (\A b \in B \cup {x} : Placed(g, b)) /\ DisjointBlocks(B \cup {x})
<1>1. ASSUME NEW b \in B PROVE Placed(g, b)
  <2>1. Depth(g) >= Depth(h)
    BY CurrentIs DEF Shrinks
  <2> QED BY <2>1, BlocksStay DEF Shrinks
<1>2. ASSUME NEW b \in B PROVE UnitsOf(b) \cap UnitsOf(x) = {} /\ UnitsOf(x) \cap UnitsOf(b) = {}
  <2>1. /\ b.first \in Int /\ b.size \in Nat
        /\ Current(h).top =< b.first \/ b.first + b.size =< Current(h).bottom
    BY BlocksOutside
  <2>2. x.first \in Int /\ x.size \in Nat
    BY DEF Placed, FrameBlock
  <2>3. Current(h).top \in Int /\ Current(h).bottom \in Int
    BY CurrentIs
  <2>4. b.first + b.size =< x.first \/ x.first + x.size =< b.first
    BY <2>1, <2>2, <2>3 DEF WithinFree
  <2> QED BY <2>1, <2>2, <2>4, UnitsApart
<1> QED BY <1>1, <1>2 DEF DisjointBlocks

LEMMA AllocFrameStep ==
    ASSUME FramesInv, AllocFrame
    PROVE  FramesInv'
<1> USE FrameAssumption
<1> SUFFICES ASSUME strayed' = "no"
             PROVE  /\ HeapInv(frames')
                    /\ \A b \in taken' : Placed(frames', b)
                    /\ DisjointBlocks(taken')
  BY DEF FramesInv, DisjointBlocks, HeapInv, Placed, Depth, UnitsOf
<1>1. strayed = "no" /\ HeapInv(frames) /\ (\A b \in taken : Placed(frames, b)) /\ DisjointBlocks(taken)
  BY DEF AllocFrame, FramesInv
<1>2. PICK size \in FrameSizes, a \in FrameAlignments, fromTop \in BOOLEAN :
        LET r == MEMAllocFromFrmHeapEx(frames, size, a, fromTop)
        IN  /\ frames' = r.heap
            /\ strayed' = r.strayed
            /\ taken' = IF r.data = 0 THEN taken
                        ELSE taken \cup {Block(r.data, size, Depth(frames), fromTop)}
  BY DEF AllocFrame
<1> DEFINE r == MEMAllocFromFrmHeapEx(frames, size, a, fromTop)
           b == Block(r.data, size, Depth(frames), fromTop)
<1>3. /\ Shrinks(frames, r.heap)
      /\ r.data = 0 => r.heap = frames
      /\ r.data # 0 => Placed(r.heap, b) /\ WithinFree(frames, b)
  <2>1. AllocatesFree(frames, size, a, fromTop)
    BY <1>1, <1>2, AllocStep
  <2> QED BY <2>1 DEF AllocatesFree
<1>4. frames' = r.heap /\ taken' = IF r.data = 0 THEN taken ELSE taken \cup {b}
  BY <1>2
<1> HIDE DEF r, b
<1>5. CASE r.data = 0
  BY <1>5, <1>1, <1>3, <1>4
<1>6. CASE r.data # 0
  <2>1. (\A c \in taken \cup {b} : Placed(r.heap, c)) /\ DisjointBlocks(taken \cup {b})
    BY <1>1, <1>3, <1>6, BlockAdded
  <2> QED BY <2>1, <1>3, <1>4, <1>6 DEF Shrinks
<1> QED BY <1>5, <1>6

LEMMA RecordStep ==
    ASSUME FramesInv, RecordState
    PROVE  FramesInv'
<1> USE FrameAssumption
<1> SUFFICES ASSUME strayed' = "no"
             PROVE  /\ HeapInv(frames')
                    /\ \A b \in taken' : Placed(frames', b)
                    /\ DisjointBlocks(taken')
  BY DEF FramesInv, DisjointBlocks, HeapInv, Placed, Depth, UnitsOf
<1>1. strayed = "no" /\ HeapInv(frames) /\ (\A b \in taken : Placed(frames, b)) /\ DisjointBlocks(taken)
  BY DEF RecordState, FramesInv
<1>2. PICK tag \in Tags :
        LET r == MEMRecordStateForFrmHeap(frames, tag)
        IN  /\ frames' = r.heap
            /\ strayed' = r.strayed
            /\ taken' = IF r.data = 0 THEN taken
                        ELSE taken \cup {Block(r.data, StateSize, Depth(frames), FALSE)}
  BY DEF RecordState
<1> DEFINE r == MEMAllocFromFrmHeapEx(frames, StateSize, 1, FALSE)
           s == Current(frames)
           c == Current(r.heap)
           g == [r.heap EXCEPT !.states = Append(@, State(tag, c.top, c.bottom))]
           b == Block(r.data, StateSize, Depth(frames), FALSE)
           d == Depth(frames)
<1>3. /\ strayed' = r.strayed
      /\ frames' = IF r.data = 0 THEN r.heap ELSE g
      /\ taken' = IF r.data = 0 THEN taken ELSE taken \cup {b}
  <2>1. /\ r.data = 0 => MEMRecordStateForFrmHeap(frames, tag) = r
        /\ r.data # 0 => /\ MEMRecordStateForFrmHeap(frames, tag).heap = g
                         /\ MEMRecordStateForFrmHeap(frames, tag).strayed = r.strayed
                         /\ MEMRecordStateForFrmHeap(frames, tag).data = r.data
    BY DEF MEMRecordStateForFrmHeap, MEMAllocFromFrmHeapEx
  <2> QED BY <2>1, <1>2
<1>4. /\ Shrinks(frames, r.heap)
      /\ r.data = 0 => r.heap = frames
      /\ r.data # 0 => /\ Placed(r.heap, b) /\ WithinFree(frames, b)
                       /\ c.bottom = s.bottom + AlignUp(StateSize, 1)
  <2>0. r.strayed = "no"
    <3> HIDE DEF r
    <3> QED BY <1>3
  <2>1. StateSize \in Nat /\ 1 \in Nat \ {0}
    OBVIOUS
  <2>2. AllocatesFree(frames, StateSize, 1, FALSE)
    BY <1>1, <2>0, <2>1, AllocStep
  <2> QED BY <2>2 DEF AllocatesFree
<1>5. CASE r.data = 0
  BY <1>5, <1>1, <1>3, <1>4
<1>6. CASE r.data # 0
  <2>1. (\A x \in taken \cup {b} : Placed(r.heap, x)) /\ DisjointBlocks(taken \cup {b})
    <3> HIDE DEF b, r
    <3> QED BY <1>1, <1>4, <1>6, BlockAdded
  <2>2. /\ HeapInv(r.heap) /\ Depth(r.heap) = d /\ d \in Nat /\ d \in 1 .. d
        /\ r.heap.states \in Seq(FrameState) /\ r.heap \in FrameHeapType
        /\ c = r.heap.states[d] /\ c \in FrameState /\ c.top \in Int /\ c.bottom \in Int
        /\ \A n \in 1 .. d : /\ r.heap.states[n].top \in Int /\ r.heap.states[n].bottom \in Int
                             /\ r.heap.states[n].bottom =< c.bottom /\ c.top =< r.heap.states[n].top
    <3> DEFINE h == r.heap
    <3> HIDE DEF r, h
    <3>1. HeapInv(h) /\ Depth(h) = d
      BY <1>4 DEF Shrinks, h
    <3>2. /\ Depth(h) \in Nat /\ Depth(h) \in 1 .. Depth(h)
          /\ h.states \in Seq(FrameState) /\ Current(h) = h.states[Depth(h)]
          /\ \A n \in 1 .. Depth(h) :
                /\ h.states[n] \in FrameState
                /\ h.states[n].top \in Int /\ h.states[n].bottom \in Int
                /\ h.states[n].bottom =< Current(h).bottom
                /\ Current(h).top =< h.states[n].top
      BY <3>1, CurrentIs
    <3>3. h \in FrameHeapType
      BY <3>1 DEF HeapInv
    <3> HIDE DEF d
    <3> QED BY <3>1, <3>2, <3>3 DEF h
  <2>3. c.bottom > Base
    <3>1. \A v \in Int, a \in Nat \ {0} : AlignUp(v, a) \in Int /\ v =< AlignUp(v, a)
      BY Rounding
    <3>2. AlignUp(StateSize, 1) \in Int /\ StateSize =< AlignUp(StateSize, 1)
      BY <3>1
    <3>3. Base =< s.bottom /\ s.bottom \in Int
      BY <1>1, FreeIsSmall, CurrentIs
    <3>4. c.bottom = s.bottom + AlignUp(StateSize, 1)
      BY <1>4, <1>6
    <3> HIDE DEF c, s
    <3> QED BY <3>2, <3>3, <3>4
  <2> DEFINE new == State(tag, c.top, c.bottom)
             states == Append(r.heap.states, new)
  <2>4. new \in FrameState /\ new.top = c.top /\ new.bottom = c.bottom
    BY <2>2 DEF State, FrameState
  <2> HIDE DEF new
  <2>5. /\ states \in Seq(FrameState) /\ Len(states) = d + 1
        /\ \A n \in 1 .. d : states[n] = r.heap.states[n]
        /\ states[d + 1] = new
    <3>1. Len(r.heap.states) = d
      BY <2>2 DEF Depth
    <3> HIDE DEF d, r
    <3> QED BY <2>2, <2>4, <3>1, AppendProperties
  <2>6. /\ g \in FrameHeapType /\ g.top = r.heap.top /\ g.bottom = r.heap.bottom /\ g.states = states
    BY <2>2, <2>5 DEF FrameHeapType, new
  <2> HIDE DEF g, states, r, c, d
  <2>7. Depth(g) = d + 1 /\ \A n \in 1 .. d + 1 : n \in 1 .. d \/ n = d + 1
    BY <2>2, <2>5, <2>6 DEF Depth
  <2>8. HeapInv(g)
    <3>1. ASSUME NEW n \in 1 .. d + 1
          PROVE  /\ Base =< g.states[n].bottom /\ g.states[n].bottom =< g.states[n].top
                 /\ g.states[n].top =< g.top /\ g.states[n].bottom > Base
      <4>1. CASE n \in 1 .. d
        <5>1. g.states[n] = r.heap.states[n]
          BY <4>1, <2>5, <2>6
        <5>2. r.heap.states[n].bottom > Base
          \* Every earlier state's bottom is above Base too: the record is in it.
          <6>1. CASE d > 1
            BY <6>1, <4>1, <2>2 DEF HeapInv
          <6>2. CASE d = 1
            <7>1. n = d
              BY <6>2, <4>1, <2>2
            <7> QED BY <7>1, <2>2, <2>3
          <6> QED BY <6>1, <6>2, <2>2
        <5> QED BY <4>1, <5>1, <5>2, <2>2, <2>6 DEF HeapInv
      <4>2. CASE n = d + 1
        <5>1. g.states[n].bottom = r.heap.states[d].bottom /\ g.states[n].top = r.heap.states[d].top
          BY <4>2, <2>2, <2>4, <2>5, <2>6
        <5> QED BY <5>1, <2>2, <2>3, <2>6 DEF HeapInv
      <4> QED BY <4>1, <4>2, <2>7
    <3>2. ASSUME NEW m \in 1 .. d + 1, NEW n \in 1 .. d + 1, m < n
          PROVE  g.states[m].bottom =< g.states[n].bottom /\ g.states[n].top =< g.states[m].top
      <4>1. m \in 1 .. d /\ g.states[m] = r.heap.states[m]
        BY <3>2, <2>2, <2>5, <2>6
      <4>2. CASE n \in 1 .. d
        <5>1. g.states[n] = r.heap.states[n]
          BY <4>2, <2>5, <2>6
        <5> QED BY <3>2, <4>1, <4>2, <5>1, <2>2 DEF HeapInv
      <4>3. CASE n = d + 1
        <5>1. g.states[n].bottom = c.bottom /\ g.states[n].top = c.top
          BY <4>3, <2>4, <2>5, <2>6
        <5> QED BY <4>1, <5>1, <2>2
      <4> QED BY <4>2, <4>3, <2>7
    <3>3. g.bottom = Base /\ g.top =< FramesEnd /\ Depth(g) >= 1
      BY <2>2, <2>6, <2>7 DEF HeapInv
    <3> QED BY <2>6, <2>7, <3>1, <3>2, <3>3 DEF HeapInv
  <2>9. ASSUME NEW x \in taken \cup {b} PROVE Placed(g, x)
    <3>1. Placed(r.heap, x)
      BY <2>1
    <3>2. x.depth \in 1 .. d /\ x.depth \in 1 .. Depth(g)
      BY <3>1, <2>2, <2>7 DEF Placed
    <3>3. g.states[x.depth] = r.heap.states[x.depth]
      BY <3>2, <2>5, <2>6
    <3> QED BY <3>1, <3>2, <3>3 DEF Placed
  <2>10. frames' = g /\ taken' = taken \cup {b}
    BY <1>3, <1>6
  <2> QED BY <2>1, <2>8, <2>9, <2>10
<1> QED BY <1>5, <1>6

LEMMA FreeFramesStep ==
    ASSUME FramesInv, FreeFrames
    PROVE  FramesInv'
<1> USE FrameAssumption
<1>1. /\ strayed = "no" /\ strayed' = "no"
      /\ HeapInv(frames) /\ (\A b \in taken : Placed(frames, b)) /\ DisjointBlocks(taken)
  BY DEF FreeFrames, FramesInv
<1>2. PICK mode \in SUBSET {"Top", "Bottom"} \ {{}} :
        /\ frames' = MEMFreeToFrmHeap(frames, mode)
        /\ taken' = {b \in taken :
              b.depth = Depth(frames) => (IF b.fromTop THEN "Top" ELSE "Bottom") \notin mode}
  BY DEF FreeFrames
<1> DEFINE d == Depth(frames)
           s == Current(frames)
           p == Previous(frames)
           top == IF "Top" \in mode THEN p.top ELSE s.top
           bottom == IF "Bottom" \in mode THEN p.bottom ELSE s.bottom
           n == State(s.tag, top, bottom)
           g == WithCurrent(frames, n)
<1>3. frames' = g
  BY <1>2 DEF MEMFreeToFrmHeap
<1>4. /\ d \in Nat /\ d \in 1 .. d /\ s = frames.states[d]
      /\ s.tag \in Tags \cup {0} /\ s.top \in Int /\ s.bottom \in Int
      /\ \A k \in 1 .. d : /\ frames.states[k].top \in Int /\ frames.states[k].bottom \in Int
                           /\ frames.states[k].bottom =< s.bottom
                           /\ s.top =< frames.states[k].top
      /\ frames.top \in Int /\ frames.bottom = Base
  BY <1>1, CurrentIs
\* What it goes back to: the heap's bounds or those of the state before.
<1>5. /\ p.top \in Int /\ p.bottom \in Int /\ s.top =< p.top /\ p.top =< frames.top
      /\ Base =< p.bottom /\ p.bottom =< s.bottom
      /\ d > 1 => p.bottom > Base
      /\ \A k \in 1 .. d - 1 : frames.states[k].bottom =< p.bottom /\ p.top =< frames.states[k].top
  <2>1. CASE d > 1
    <3>1. p = frames.states[d - 1] /\ d - 1 \in 1 .. d
      BY <2>1, <1>4 DEF Previous
    <3>2. \A k \in 1 .. d - 1 : k \in 1 .. d /\ (k < d - 1 \/ k = d - 1)
      BY <2>1, <1>4
    <3>3. \A k \in 1 .. d - 1 : /\ frames.states[k].bottom =< frames.states[d - 1].bottom
                                /\ frames.states[d - 1].top =< frames.states[k].top
      BY <3>1, <3>2, <1>1, <1>4 DEF HeapInv
    <3>4. /\ frames.states[d - 1].bottom > Base /\ Base =< frames.states[d - 1].bottom
          /\ frames.states[d - 1].top =< frames.top
      BY <2>1, <3>1, <1>1, <1>4 DEF HeapInv
    <3> HIDE DEF p, d, s
    <3> QED BY <3>1, <3>3, <3>4, <1>4
  <2>2. CASE ~(d > 1)
    <3>1. p.top = frames.top /\ p.bottom = frames.bottom
      BY <2>2 DEF Previous, State
    <3>2. s.top =< frames.top /\ Base =< s.bottom
      BY <1>1, <1>4 DEF HeapInv
    <3>3. \A k \in 1 .. d - 1 : FALSE
      BY <2>2, <1>4
    <3> HIDE DEF p, d, s
    <3> QED BY <2>2, <3>1, <3>2, <3>3, <1>4
  <2> QED BY <2>1, <2>2
<1>6. n \in FrameState /\ n.top = top /\ n.bottom = bottom /\ top \in Int /\ bottom \in Int
  BY <1>4, <1>5 DEF State, FrameState
<1>7. /\ Base =< s.bottom /\ s.bottom =< s.top /\ s.top =< frames.top
      /\ d > 1 => s.bottom > Base
  BY <1>1, <1>4 DEF HeapInv
<1>8. \A k \in 1 .. d - 1 : k \in 1 .. d
  BY <1>4
<1> HIDE DEF n, d, s, p
<1>9. /\ Base =< bottom /\ bottom =< top /\ top =< frames.top
      /\ d > 1 => bottom > Base
      /\ s.top =< top /\ bottom =< s.bottom
      /\ \A k \in 1 .. d - 1 : frames.states[k].bottom =< bottom /\ top =< frames.states[k].top
  BY <1>4, <1>5, <1>7, <1>8
<1> HIDE DEF top, bottom, g
<1>10. /\ HeapInv(g) /\ Depth(g) = d /\ g.states[d] = n
       /\ \A k \in 1 .. d - 1 : g.states[k] = frames.states[k]
  BY <1>1, <1>6, <1>9, CurrentMoves DEF g, d
<1>11. ASSUME NEW b \in taken, b.depth = d => (IF b.fromTop THEN "Top" ELSE "Bottom") \notin mode
       PROVE  Placed(g, b)
  <2>1. Placed(frames, b) /\ b.depth \in 1 .. d
    BY <1>1 DEF Placed, d
  <2>2. CASE b.depth = d
    <3>1. b.fromTop => top = s.top
      BY <2>2, <1>11 DEF top
    <3>2. ~b.fromTop => bottom = s.bottom
      BY <2>2, <1>11 DEF bottom
    <3> QED BY <2>1, <2>2, <3>1, <3>2, <1>4, <1>6, <1>10 DEF Placed, d
  <2>3. CASE b.depth # d
    <3>1. b.depth \in 1 .. d - 1
      BY <2>1, <2>3, <1>4
    <3> QED BY <2>1, <3>1, <1>10 DEF Placed, d
  <2> QED BY <2>2, <2>3
<1>12. (\A b \in taken' : Placed(g, b)) /\ DisjointBlocks(taken')
  BY <1>1, <1>2, <1>11 DEF DisjointBlocks, d
<1> QED BY <1>1, <1>3, <1>10, <1>12 DEF FramesInv

LEMMA FreeByStateStep ==
    ASSUME FramesInv, FreeByState
    PROVE  FramesInv'
<1> USE FrameAssumption
<1>1. /\ strayed = "no" /\ strayed' = "no"
      /\ HeapInv(frames) /\ (\A b \in taken : Placed(frames, b)) /\ DisjointBlocks(taken)
  BY DEF FreeByState, FramesInv
<1>2. PICK tag \in Tags \cup {0} : frames' = MEMFreeByStateToFrmHeap(frames, tag)
  BY DEF FreeByState
<1>3. taken' = {b \in taken : b.depth =< Depth(frames')}
  BY DEF FreeByState
<1> DEFINE d == Depth(frames)
<1>4. /\ d \in Nat /\ d \in 1 .. d /\ frames.states \in Seq(FrameState) /\ d = Len(frames.states)
      /\ frames \in FrameHeapType
      /\ \A k \in 1 .. d : frames.states[k] \in FrameState
  BY <1>1, CurrentIs DEF HeapInv, Depth
<1>5. frames' = frames \/ \E n \in 1 .. d : frames' = [frames EXCEPT !.states = SubSeq(@, 1, n)]
  <2> DEFINE tagged == {n \in 1 .. d : frames.states[n].tag = tag}
             latest == CHOOSE n \in tagged : \A m \in tagged : m =< n
             n == IF tag = 0 THEN d - 1 ELSE IF tagged = {} THEN 0 ELSE latest
  <2>1. frames' = IF n = 0 THEN frames ELSE [frames EXCEPT !.states = SubSeq(@, 1, n)]
    BY <1>2 DEF MEMFreeByStateToFrmHeap
  <2>2. ASSUME tagged # {} PROVE latest \in 1 .. d
    <3> DEFINE before == {d - k : k \in tagged}
    <3>0. \A k \in tagged : k \in 1 .. d /\ d - k \in Nat
      <4> HIDE DEF d
      <4> QED BY <1>4
    <3>1. before \in SUBSET Nat /\ before # {}
      <4> HIDE DEF tagged
      <4> QED BY <2>2, <3>0
    <3>2. \E x \in before : \A y \in before : ~(<<y, x>> \in OpToRel(<, Nat))
      BY <3>1, NatLessThanWellFounded, WFMin
    <3>3. \A x, y \in Nat : ~(<<y, x>> \in OpToRel(<, Nat)) => x =< y
      BY DEF OpToRel
    <3>4. PICK x \in before : \A y \in before : x =< y
      BY <3>1, <3>2, <3>3
    <3>5. PICK k \in tagged : x = d - k
      BY <3>4
    <3>6. \A m \in tagged : m =< k
      <4> TAKE m \in tagged
      <4>1. d - m \in before
        OBVIOUS
      <4>2. d - k =< d - m
        BY <3>4, <3>5, <4>1
      <4> QED BY <4>2, <1>4
    <3>7. latest \in tagged
      BY <3>6
    <3> QED BY <3>7
  <2>3. d - 1 = 0 \/ d - 1 \in 1 .. d
    <3>1. d \in Nat /\ d >= 1
      <4>1. d \in Nat /\ d \in 1 .. d
        BY <1>4
      <4> HIDE DEF d, tagged, latest
      <4> QED BY <4>1
    <3> HIDE DEF d, tagged, latest
    <3> QED BY <3>1
  <2> HIDE DEF tagged, latest
  <2> QED BY <2>1, <2>2, <2>3
<1>6. CASE frames' = frames
  <2>1. taken' \subseteq taken
    BY <1>3
  <2> QED BY <1>1, <1>6, <2>1 DEF FramesInv, DisjointBlocks
<1>7. ASSUME NEW n \in 1 .. d, frames' = [frames EXCEPT !.states = SubSeq(@, 1, n)]
      PROVE  FramesInv'
  <2> DEFINE states == SubSeq(frames.states, 1, n)
             g == [frames EXCEPT !.states = states]
  <2>1. n \in Nat /\ \A k \in 1 .. n : k \in 1 .. d
    BY <1>4
  <2>2. /\ states \in Seq(FrameState) /\ Len(states) = n
        /\ \A k \in 1 .. n : states[k] = frames.states[k]
    BY <1>4, <2>1, SubSeqProperties
  <2> HIDE DEF states
  <2>3. /\ g \in FrameHeapType /\ g.states = states
        /\ g.top = frames.top /\ g.bottom = frames.bottom
    BY <1>4, <2>2 DEF FrameHeapType
  <2>4. frames' = g
    BY <1>7 DEF states
  <2> HIDE DEF g
  <2>5. Depth(g) = n /\ \A k \in 1 .. n : g.states[k] = frames.states[k]
    BY <2>2, <2>3 DEF Depth
  <2>6. HeapInv(g)
    <3>1. n > 1 => d > 1
      BY <1>4, <2>1
    <3>2. ASSUME NEW k \in 1 .. n
          PROVE  /\ Base =< g.states[k].bottom /\ g.states[k].bottom =< g.states[k].top
                 /\ g.states[k].top =< g.top
                 /\ n > 1 => g.states[k].bottom > Base
      BY <1>1, <2>1, <2>3, <2>5, <3>1 DEF HeapInv
    <3>3. ASSUME NEW m \in 1 .. n, NEW k \in 1 .. n, m < k
          PROVE  g.states[m].bottom =< g.states[k].bottom /\ g.states[k].top =< g.states[m].top
      BY <3>3, <1>1, <2>1, <2>5 DEF HeapInv
    <3>4. g.bottom = Base /\ g.top =< FramesEnd /\ n >= 1
      BY <1>1, <2>1, <2>3 DEF HeapInv
    <3> QED BY <2>3, <2>5, <3>2, <3>3, <3>4 DEF HeapInv
  <2>7. ASSUME NEW b \in taken, b.depth =< n PROVE Placed(g, b)
    <3>1. Placed(frames, b) /\ b.depth \in 1 .. d
      BY <1>1 DEF Placed
    <3>2. b.depth \in 1 .. n
      BY <3>1, <2>7, <1>4, <2>1
    <3> QED BY <3>1, <3>2, <2>5 DEF Placed
  <2>8. taken' = {b \in taken : b.depth =< n}
    BY <1>3, <2>4, <2>5
  <2>9. (\A b \in taken' : Placed(g, b)) /\ DisjointBlocks(taken')
    BY <1>1, <2>7, <2>8 DEF DisjointBlocks
  <2> QED BY <1>1, <2>4, <2>6, <2>9 DEF FramesInv
<1> QED BY <1>5, <1>6, <1>7

LEMMA AdjustStep ==
    ASSUME FramesInv, AdjustFrames
    PROVE  FramesInv'
<1> USE FrameAssumption
<1>1. /\ strayed = "no"
      /\ HeapInv(frames) /\ (\A b \in taken : Placed(frames, b)) /\ DisjointBlocks(taken)
      /\ frames' = MEMAdjustFrmHeap(frames) /\ taken' = taken
      /\ strayed' = IF Current(frames').top < Current(frames').bottom THEN "adjusted" ELSE "no"
  BY DEF AdjustFrames, FramesInv
<1>2. CASE Current(frames).top # frames.top
  <2>1. frames' = frames
    BY <1>1, <1>2 DEF MEMAdjustFrmHeap
  <2> QED BY <1>1, <2>1 DEF FramesInv
<1>3. CASE Current(frames).top = frames.top
  <2> SUFFICES ASSUME strayed' = "no" PROVE HeapInv(frames') /\ \A b \in taken : Placed(frames', b)
    BY <1>1 DEF FramesInv
  <2> DEFINE d == Depth(frames)
             s == Current(frames)
             n == [s EXCEPT !.top = Base]
             states == [frames.states EXCEPT ![d] = n]
             g == [top |-> Base, bottom |-> Base, size |-> 0, states |-> states]
  <2>1. /\ d \in Nat /\ d \in 1 .. d /\ s = frames.states[d] /\ s \in FrameState
        /\ d = Len(frames.states) /\ frames.states \in Seq(FrameState) /\ frames \in FrameHeapType
        /\ s.top \in Int /\ s.bottom \in Int /\ frames.bottom = Base /\ s.tag \in Tags \cup {0}
    BY <1>1, CurrentIs DEF Depth, HeapInv
  <2>2. n \in FrameState /\ n.top = Base /\ n.bottom = s.bottom
    <3>1. Base \in Int
      OBVIOUS
    <3> HIDE DEF s
    <3> QED BY <2>1, <3>1 DEF FrameState
  <2> HIDE DEF n
  <2>3. /\ states \in Seq(FrameState) /\ Len(states) = d
        /\ \A k \in 1 .. d : states[k] = IF k = d THEN n ELSE frames.states[k]
    BY <2>1, <2>2, ExceptSeq
  <2> HIDE DEF states
  <2>4. /\ g \in FrameHeapType /\ g.states = states /\ g.top = Base /\ g.bottom = Base
    <3>1. Base \in Int
      OBVIOUS
    <3> QED BY <2>3, <3>1 DEF FrameHeapType
  <2>5. frames' = g
    <3>1. frames' = [WithCurrent(frames, n) EXCEPT !.top = Base, !.size = Base - Base]
      BY <1>1, <1>3, <2>1 DEF MEMAdjustFrmHeap, n
    <3>2. WithCurrent(frames, n) = [frames EXCEPT !.states = states]
      BY DEF WithCurrent, states
    <3>3. Base - Base = 0
      OBVIOUS
    <3> QED BY <3>1, <3>2, <3>3, <2>1 DEF FrameHeapType
  <2> HIDE DEF g
  <2>6. Depth(g) = d /\ Current(g) = n
    BY <2>1, <2>3, <2>4 DEF Depth, Current
  <2>7. s.bottom = Base
    <3>1. ~(n.top < n.bottom)
      BY <1>1, <2>5, <2>6
    <3>2. Base =< s.bottom
      BY <1>1, FreeIsSmall
    <3> QED BY <3>1, <3>2, <2>1, <2>2
  \* No state was recorded: its block would be above Base.
  <2>8. d = 1
    <3>1. d > 1 => s.bottom > Base
      BY <1>1, <2>1 DEF HeapInv
    <3>2. ~(s.bottom > Base)
      BY <2>7
    <3>3. d \in Nat /\ d \in 1 .. d /\ ~(d > 1)
      BY <3>1, <3>2, <2>1
    <3> HIDE DEF d, s
    <3> QED BY <3>3
  <2>9. g.states[1] = n
    BY <2>3, <2>4, <2>8
  <2>10. HeapInv(g)
    <3>1. \A k \in 1 .. d : k = 1
      BY <2>8
    <3>2. Base =< FramesEnd
      BY DEF FramesEnd
    <3> QED BY <2>2, <2>4, <2>6, <2>7, <2>8, <2>9, <3>1, <3>2 DEF HeapInv
  <2>11. ASSUME NEW b \in taken PROVE Placed(g, b)
    <3>1. Placed(frames, b) /\ b.depth = 1 /\ b \in FrameBlock /\ b.first \in Int
      BY <1>1, <2>8 DEF Placed, FrameBlock
    <3>2. Base =< b.first
      BY <1>1, BlocksOutside
    <3> QED BY <3>1, <3>2, <2>1, <2>2, <2>6, <2>8, <2>9 DEF Placed
  <2> QED BY <2>5, <2>10, <2>11
<1> QED BY <1>2, <1>3

LEMMA ResizeStep ==
    ASSUME FramesInv, ResizeFrame
    PROVE  FramesInv'
<1> USE FrameAssumption
<1>1. /\ strayed = "no" /\ strayed' = "no"
      /\ HeapInv(frames) /\ (\A b \in taken : Placed(frames, b)) /\ DisjointBlocks(taken)
  BY DEF ResizeFrame, FramesInv
<1> DEFINE s == Current(frames)
           b(size) == Block(s.bottom, size, Depth(frames), FALSE)
<1>2. PICK size \in FrameSizes :
        /\ frames' = MEMResizeForMBlockFrmHeap(frames, s.bottom, size)
        /\ taken' = IF frames' = frames THEN taken ELSE taken \cup {b(size)}
  BY DEF ResizeFrame
<1>3. CASE frames' = frames
  BY <1>1, <1>2, <1>3 DEF FramesInv
<1>4. CASE frames' # frames
  <2> DEFINE n == [s EXCEPT !.bottom = @ + size]
             g == WithCurrent(frames, n)
             x == b(size)
  <2>1. frames' = g /\ Fits(s, size) /\ taken' = taken \cup {x}
    BY <1>2, <1>4 DEF MEMResizeForMBlockFrmHeap
  <2>2. /\ s \in FrameState /\ s.top \in Int /\ s.bottom \in Int /\ s.tag \in Tags \cup {0}
        /\ Depth(frames) \in 1 .. Depth(frames) /\ Depth(frames) \in Nat
        /\ Base =< s.bottom /\ s.bottom =< s.top /\ size \in Nat
        /\ Minus(s.top, s.bottom) = s.top - s.bottom
    BY <1>1, CurrentIs, FreeIsSmall
  <2>3. n \in FrameState /\ n.top = s.top /\ n.bottom = s.bottom + size
    BY <2>2 DEF FrameState
  <2>4. s.bottom =< n.bottom /\ n.bottom =< n.top /\ n.top =< s.top
    BY <2>1, <2>2, <2>3 DEF Fits
  <2> HIDE DEF n
  <2>5. Shrinks(frames, g) /\ Current(g) = n /\ g.states[Depth(frames)] = n
    BY <1>1, <2>3, <2>4, CurrentShrinks
  <2>6. /\ x.first = s.bottom /\ x.size = size /\ x.depth = Depth(frames) /\ x.fromTop = FALSE
        /\ x \in FrameBlock
    BY <2>2 DEF Block, FrameBlock
  <2> HIDE DEF x, g, s
  <2>7. WithinFree(frames, x) /\ Placed(g, x)
    <3>1. x.depth \in 1 .. Depth(g)
      BY <2>2, <2>5, <2>6 DEF Shrinks
    <3>2. g.states[x.depth] = n
      BY <2>5, <2>6
    <3>3. x.first + x.size =< s.top /\ x.first + x.size =< n.bottom
      BY <2>2, <2>3, <2>4, <2>6
    <3> QED BY <3>1, <3>2, <3>3, <2>2, <2>6 DEF WithinFree, Placed, s
  <2>8. (\A c \in taken \cup {x} : Placed(g, c)) /\ DisjointBlocks(taken \cup {x})
    BY <1>1, <2>5, <2>7, BlockAdded
  <2> QED BY <1>1, <2>1, <2>5, <2>8 DEF FramesInv, Shrinks
<1> QED BY <1>3, <1>4

LEMMA InitialHeap ==
    ASSUME InitFrames
    PROVE  FramesInv
<1> USE FrameAssumption
<1> DEFINE s == State(0, FramesEnd, Base)
<1>1. /\ frames = [top |-> FramesEnd, bottom |-> Base, size |-> FrameUnits, states |-> <<s>>]
      /\ taken = {}
  BY DEF InitFrames, MEMCreateFrmHeapEx, FramesEnd
<1>2. FramesEnd \in Int /\ Base \in Int /\ FrameUnits \in Int /\ Base =< FramesEnd
  BY DEF FramesEnd
<1>3. s \in FrameState /\ s.top = FramesEnd /\ s.bottom = Base
  BY <1>2 DEF FrameState, State
<1> HIDE DEF s
<1>4. <<s>> \in Seq(FrameState) /\ Len(<<s>>) = 1 /\ <<s>>[1] = s
  BY <1>3
<1>5. frames \in FrameHeapType /\ Depth(frames) = 1 /\ frames.states[1] = s
  BY <1>1, <1>2, <1>4 DEF FrameHeapType, Depth
<1>6. HeapInv(frames)
  <2>1. \A n \in 1 .. 1 : n = 1
    OBVIOUS
  <2> QED BY <1>1, <1>2, <1>3, <1>5, <2>1 DEF HeapInv
<1> QED BY <1>1, <1>6 DEF FramesInv, DisjointBlocks

(* What the heap says can be allocated, can. *)
LEMMA SaidIsAllocatable ==
    ASSUME NEW h, HeapInv(h), NEW a \in Nat \ {0},
           AlignUp(Current(h).bottom, a) =< (Current(h).top \div a) * a
    PROVE  LET n == MEMGetAllocatableSizeForFrmHeapEx(h, a)
           IN  /\ n =< Current(h).top - Current(h).bottom
               /\ MEMAllocFromFrmHeapEx(h, n, a, FALSE).data # 0
<1> DEFINE s == Current(h)
           last == (s.top \div a) * a
           first == AlignUp(s.bottom, a)
           n == MEMGetAllocatableSizeForFrmHeapEx(h, a)
<1>1. /\ s.top \in Int /\ s.bottom \in Int /\ Base \in Nat \ {0} /\ Base =< s.bottom
      /\ s.top - s.bottom < Modulus /\ Minus(s.top, s.bottom) = s.top - s.bottom
  BY CurrentIs, FreeIsSmall
<1>2. s.top \div a \in Int /\ last \in Int /\ last =< s.top
  <2>1. \A x \in Int : (x \div a) \in Int /\ (x \div a) * a =< x /\ (x \div a) * a \in Int
    OBVIOUS
  <2> HIDE DEF s
  <2> QED BY <1>1, <2>1
<1>3. first \in Int /\ s.bottom =< first /\ \E k \in Int : first = k * a
  BY <1>1, Rounding
<1>4. PICK k \in Int : first = k * a
  BY <1>3
<1>5. Modulus \in Int
  BY FrameAssumption
<1>6. first =< last /\ n = Minus(last, first)
  BY DEF MEMGetAllocatableSizeForFrmHeapEx
<1> HIDE DEF last, first, s
<1>7. last - first < Modulus /\ last - first =< s.top - s.bottom
  BY <1>1, <1>2, <1>3, <1>5, <1>6
<1>8. n = last - first
  BY <1>2, <1>3, <1>6, <1>7, UnsignedDifference
<1>9. AlignUp(n, a) = n
  BY <1>2, <1>4, <1>8, Multiples DEF last
<1>10. Fits(s, AlignUp(n, a))
  BY <1>1, <1>7, <1>8, <1>9 DEF Fits
<1>11. MEMAllocFromFrmHeapEx(h, n, a, FALSE).data = first
  BY <1>10 DEF MEMAllocFromFrmHeapEx, first, s
<1>12. first # 0
  BY <1>1, <1>3
<1> QED BY <1>7, <1>8, <1>11, <1>12 DEF s

LEMMA FramesAreNested ==
    ASSUME FramesInv
    PROVE  FramesNest
<1>1. SUFFICES ASSUME strayed = "no" PROVE FramesNest
  BY DEF FramesNest, StatesNest, FramesDisjoint, FrameAllocatable
<1>2. HeapInv(frames) /\ (\A b \in taken : Placed(frames, b)) /\ DisjointBlocks(taken)
  BY <1>1 DEF FramesInv
<1>3. StatesNest
  <2> SUFFICES ASSUME NEW n \in 2 .. Depth(frames)
               PROVE  /\ frames.states[n].bottom >= frames.states[n - 1].bottom
                      /\ frames.states[n].top <= frames.states[n - 1].top
    BY DEF StatesNest
  <2>1. Depth(frames) \in Nat
    BY <1>2, CurrentIs
  <2>2. n \in 1 .. Depth(frames) /\ n - 1 \in 1 .. Depth(frames) /\ n - 1 < n
    BY <2>1
  <2>3. /\ frames.states[n].bottom \in Int /\ frames.states[n - 1].bottom \in Int
        /\ frames.states[n - 1].bottom =< frames.states[n].bottom
        /\ frames.states[n].top =< frames.states[n - 1].top
    BY <1>2, <2>2, CurrentIs DEF HeapInv
  <2> QED BY <2>3
<1>4. FramesDisjoint
  <2>1. ASSUME NEW b \in taken
        PROVE  /\ UnitsOf(b) \cap (Current(frames).bottom .. Current(frames).top - 1) = {}
               /\ UnitsOf(b) \subseteq Base .. Base + FrameUnits - 1
    <3>1. /\ b.first \in Int /\ b.size \in Nat
          /\ Base =< b.first /\ b.first + b.size =< FramesEnd
          /\ Current(frames).top =< b.first \/ b.first + b.size =< Current(frames).bottom
      BY <1>2, BlocksOutside
    <3>2. /\ Current(frames).top \in Int /\ Current(frames).bottom \in Int
          /\ Base \in Int /\ FrameUnits \in Int
      BY <1>2, CurrentIs, FrameAssumption
    <3> QED BY <3>1, <3>2 DEF UnitsOf, FramesEnd
  <2> QED BY <1>2, <2>1 DEF FramesDisjoint, DisjointBlocks
<1>5. FrameAllocatable
  BY <1>2, SaidIsAllocatable, FrameAssumption DEF FrameAllocatable
<1> QED BY <1>3, <1>4, <1>5 DEF FramesNest

\* Whatever is allocated from either end, given back, recorded, returned to,
\* adjusted or resized, the free memory of each recorded state of a frame heap
\* lies within that of the one before, no two blocks in use have a unit in
\* common, none has one in common with the free memory, and what the heap says
\* can be allocated (MEMGetAllocatableSizeForFrmHeapEx) can be: for every size
\* of heap, of blocks and of a state's record, every alignment, and any number
\* of states.
THEOREM FramesCorrect == SpecFrames => []FramesNest
<1>1. InitFrames => FramesInv
  BY InitialHeap
<1>2. FramesInv /\ [NextFrames]_frameVars => FramesInv'
  <2> SUFFICES ASSUME FramesInv, [NextFrames]_frameVars PROVE FramesInv'
    OBVIOUS
  <2>1. CASE NextFrames
    BY <2>1, AllocFrameStep, FreeFramesStep, RecordStep, FreeByStateStep,
       AdjustStep, ResizeStep DEF NextFrames
  <2>2. CASE UNCHANGED frameVars
    BY <2>2 DEF frameVars, FramesInv
  <2> QED BY <2>1, <2>2
<1>3. FramesInv => FramesNest
  BY FramesAreNested
<1> QED BY <1>1, <1>2, <1>3, PTL DEF SpecFrames

-----------------------------------------------------------------------------
(* The debugger. *)

Pc == Pausing \cup {"preLaunch", "loop", "lookUp", "hit", "execute", "dispatch", "idle"}

BpKind == {"none", "user", "temp"}

Message ==
    [type : {"PreLaunch", "DebuggerDc"}]
    \cup [type : {"CoreStepped"}, core : Core]
    \cup [type : {"BpHit"}, core : Core, addr : Address \cup {0}, kind : BpKind]

CoreTypes ==
    /\ waitingForPause \in BOOLEAN
    /\ corePaused \in [Core -> BOOLEAN] /\ busy \in [Core -> BOOLEAN]
    /\ pc \in [Core -> Pc] /\ addr \in [Core -> Address \cup {0}]
    /\ bpFound \in [Core -> BpKind] /\ cleared \subseteq Core

\* A copy of the list that can be swapped in is a copy of the list there is.
CopiesOfTheList ==
    /\ breakpoints \in [Address -> BpKind]
    /\ copied \in [{"dbg", "net"} -> {Stale, {breakpoints}}]

\* b is a list that differs from another in one address at most.
Changes(lst, b) ==
    /\ b \in [Address -> BpKind]
    /\ \E a : \A x \in Address : x # a => b[x] = lst[x]

LEMMA EditsOnce ==
    ASSUME NEW lst \in [Address -> BpKind], NEW a, NEW kind \in BpKind
    PROVE  Changes(lst, Without(lst, a)) /\ Changes(lst, With(lst, a, kind))
<1>1. Without(lst, a) \in [Address -> BpKind] /\ With(lst, a, kind) \in [Address -> BpKind]
  BY DEF Without, With, BpKind
<1>2. \A x \in Address : x # a => /\ Without(lst, a)[x] = lst[x]
                                  /\ With(lst, a, kind)[x] = lst[x]
  BY DEF Without, With
<1> QED BY <1>1, <1>2 DEF Changes

LEMMA SwapsOnce ==
    ASSUME CopiesOfTheList, NEW t \in {"dbg", "net"}, NEW b, Changes(breakpoints, b),
           NEW edited, copied[t] = {breakpoints} => edited = {b}, Swap(t, edited)
    PROVE  CopiesOfTheList' /\ Changes(breakpoints, breakpoints')
<1>1. CASE UNCHANGED bpVars
  BY <1>1 DEF bpVars, CopiesOfTheList, Changes
<1>2. CASE copied[t] # Stale
  <2>1. copied[t] = {breakpoints}
    BY <1>2 DEF CopiesOfTheList
  <2>2. breakpoints' = b /\ copied' = [u \in DOMAIN copied |-> Stale]
    BY <1>2, <2>1 DEF Swap
  <2>3. breakpoints' \in [Address -> BpKind]
    BY <2>2 DEF Changes
  <2>4. copied' \in [{"dbg", "net"} -> {Stale, {breakpoints'}}]
    BY <2>2 DEF CopiesOfTheList
  <2> QED BY <2>2, <2>3, <2>4 DEF CopiesOfTheList
<1> QED BY <1>1, <1>2 DEF Swap

LEMMA DebuggerEdits ==
    ASSUME CopiesOfTheList, DbgSwap \/ NetSwap
    PROVE  CopiesOfTheList' /\ Changes(breakpoints, breakpoints')
<1>1. breakpoints \in [Address -> BpKind]
  BY DEF CopiesOfTheList
<1>2. CASE DbgSwap
  <2>1. Swap("dbg", {Without(lst, dbgMsg.addr) : lst \in copied["dbg"]})
    BY <1>2 DEF DbgSwap
  <2> DEFINE edited == {Without(lst, dbgMsg.addr) : lst \in copied["dbg"]}
  <2>2. copied["dbg"] = {breakpoints} => edited = {Without(breakpoints, dbgMsg.addr)}
    OBVIOUS
  <2>3. Changes(breakpoints, Without(breakpoints, dbgMsg.addr))
    BY <1>1, EditsOnce DEF BpKind
  <2> QED BY <2>1, <2>2, <2>3, SwapsOnce
<1>3. CASE NetSwap
  <2> DEFINE edited == {Edited(lst) : lst \in copied["net"]}
  <2>1. Swap("net", edited)
    BY <1>3 DEF NetSwap
  <2>2. copied["net"] = {breakpoints} => edited = {Edited(breakpoints)}
    OBVIOUS
  <2>3. Changes(breakpoints, Edited(breakpoints))
    BY <1>1, EditsOnce DEF BpKind, Edited
  <2> QED BY <2>1, <2>2, <2>3, SwapsOnce
<1> QED BY <1>2, <1>3

LEMMA CoreTypesKept ==
    ASSUME CoreTypes, CopiesOfTheList, NextDebugger
    PROVE  CoreTypes'
<1> USE DEF controlVars, coreVars, bpVars, dbgVars, netVars, history
<1>1. ASSUME NEW c \in Core, CoreStep(c) PROVE CoreTypes'
  <2>1. CASE maybeBreak(c) \/ TestStep(c) \/ WhilePause(c) \/ Woken(c) \/ Dispatch(c)
    BY <2>1 DEF maybeBreak, Goto, TestStep, WhilePause, Leave, Woken, Dispatch, CoreTypes,
       Pc, Pausing
  <2>2. CASE StepDone(c)
    BY <2>2 DEF StepDone, Goto, CoreTypes, Pc, Pausing
  <2>3. CASE LookUp(c)
    <3>1. addr[c] # 0 => breakpoints[addr[c]] \in BpKind
      BY DEF CoreTypes, CopiesOfTheList
    <3> QED BY <2>3, <3>1 DEF LookUp, Goto, Leave, CoreTypes, Pc, Pausing
  <2>4. CASE Hit(c)
    BY <2>4 DEF Hit, Goto, CoreTypes, Pc, Pausing
  <2>5. CASE PauseCore(c)
    BY <2>5 DEF PauseCore, Goto, WakeWaiters, CoreTypes, Pc, Pausing
  <2>6. CASE Sleep(c)
    BY <2>6 DEF Sleep, Goto, CoreTypes, Pc, Pausing
  <2>7. CASE Execute(c)
    <3>1. NextAddress(addr[c]) \in Address \/ addr[c] = 0
      BY DebuggerAssumption DEF CoreTypes, NextAddress, Address
    <3>2. addr' \in [Core -> Address \cup {0}]
      BY <2>7, <3>1, DebuggerAssumption DEF Execute, CoreTypes, Address
    <3>3. pc' \in [Core -> Pc] /\ busy' \in [Core -> BOOLEAN]
      BY <2>7 DEF Execute, Goto, CoreTypes, Pc, Pausing
    <3> QED BY <2>7, <3>2, <3>3 DEF Execute, CoreTypes
  <2>8. CASE PreLaunch(c)
    BY <2>8 DEF PreLaunch, Goto, CoreTypes, Pc, Pausing
  <2>9. CASE Say(c)
    BY <2>9 DEF Say, Goto, notify, CoreTypes, Pc, Pausing, BpKind
  <2> QED BY <1>1, <2>1, <2>2, <2>3, <2>4, <2>5, <2>6, <2>7, <2>8, <2>9 DEF CoreStep
<1>2. CASE DbgStep
  <2>1. CASE debugThread \/ DbgPauseAll \/ DbgWrite \/ DbgCopy \/ DbgSwap
    BY <2>1 DEF debugThread, DbgPauseAll, DbgWrite, Tell, DbgCopy, Copy, DbgSwap, Swap,
       CoreTypes, Pc, Pausing
  <2>2. CASE DbgWait
    BY <2>2 DEF DbgWait, wakeAllCores, CoreTypes, Pc, Pausing
  <2>3. CASE Connect
    BY <2>3 DEF Connect, CoreTypes, Pc, Pausing
  <2> QED BY <1>2, <2>1, <2>2, <2>3 DEF DbgStep
<1>3. CASE NetStep
  <2>1. CASE NetWait
    BY <2>1 DEF NetWait, wakeAllCores, CoreTypes, Pc, Pausing
  <2>2. CASE NetWrite \/ NetCopy \/ NetSwap
    BY <2>2 DEF NetWrite, Tell, NetCopy, Copy, NetSwap, Swap, CoreTypes, Pc, Pausing
  <2>3. CASE ResumeClear
    BY <2>3, DebuggerAssumption DEF ResumeClear, CoreTypes, Pc, Pausing
  <2>4. CASE ResumeStore
    BY <2>4 DEF ResumeStore, Awake, CoreTypes, Pc, Pausing
  <2>5. CASE StepClear
    BY <2>5 DEF StepClear, CoreTypes, Pc, Pausing
  <2>6. CASE StepStore
    BY <2>6 DEF StepStore, CoreTypes, Pc, Pausing
  <2>7. CASE NetRelease
    BY <2>7 DEF NetRelease, Release, Awake, CoreTypes, Pc, Pausing
  <2> QED BY <1>3, <2>1, <2>2, <2>3, <2>4, <2>5, <2>6, <2>7 DEF NetStep
<1>4. CASE ClientStep
  <2>1. CASE EditBreakpoints \/ Pause \/ Resume \/ StepCore \/ StepCoreOver
          \/ Disconnect
    BY <2>1 DEF EditBreakpoints, Receive, Packet, Pause, Resume, StepCore, StepCoreOver,
       Disconnect, notify, CoreTypes, Pc, Pausing
  <2> QED BY <1>4, <2>1 DEF ClientStep
<1> QED BY <1>1, <1>2, <1>3, <1>4 DEF NextDebugger

LEMMA CopiesKept ==
    ASSUME CopiesOfTheList, NextDebugger
    PROVE  CopiesOfTheList' /\ Changes(breakpoints, breakpoints')
<1> USE DEF controlVars, coreVars, bpVars, dbgVars, netVars, history
<1>1. ASSUME NEW c \in Core, CoreStep(c)
      PROVE  CopiesOfTheList' /\ Changes(breakpoints, breakpoints')
  BY <1>1 DEF CoreStep, PreLaunch, maybeBreak, TestStep, StepDone, LookUp, Hit, Say,
     WhilePause, PauseCore, Sleep, Woken, Execute, Dispatch, CopiesOfTheList, Changes
<1>2. CASE DbgStep
  <2>1. CASE debugThread \/ DbgPauseAll \/ DbgWait \/ DbgWrite \/ Connect
    BY <2>1 DEF debugThread, DbgPauseAll, DbgWait, DbgWrite, Connect, CopiesOfTheList,
       Changes
  <2>2. CASE DbgCopy
    BY <2>2 DEF DbgCopy, Copy, CopiesOfTheList, Changes
  <2>3. CASE DbgSwap
    BY <2>3, DebuggerEdits
  <2> QED BY <1>2, <2>1, <2>2, <2>3 DEF DbgStep
<1>3. CASE NetStep
  <2>1. CASE NetWait \/ NetWrite \/ ResumeClear \/ ResumeStore \/ StepClear \/ StepStore
          \/ NetRelease
    BY <2>1 DEF NetWait, NetWrite, ResumeClear, ResumeStore, StepClear, StepStore,
       NetRelease, CopiesOfTheList, Changes
  <2>2. CASE NetCopy
    BY <2>2 DEF NetCopy, Copy, CopiesOfTheList, Changes
  <2>3. CASE NetSwap
    BY <2>3, DebuggerEdits
  <2> QED BY <1>3, <2>1, <2>2, <2>3 DEF NetStep
<1>4. CASE ClientStep
  BY <1>4 DEF ClientStep, EditBreakpoints, Pause, Resume, StepCore,
     StepCoreOver, Disconnect, CopiesOfTheList, Changes
<1> QED BY <1>1, <1>2, <1>3, <1>4 DEF NextDebugger

(* What CommandsAreHeard rests on. *)

IsDc(msg) == msg.type = "DebuggerDc"

\* One message says that the connection was lost, and until it was obeyed
\* nothing comes from the client.
LostOnce(queue) ==
    /\ queue \in Seq(Message)
    /\ \A i, j \in 1 .. Len(queue) : IsDc(queue[i]) /\ IsDc(queue[j]) => i = j

DcQueued(queue) == \E i \in 1 .. Len(queue) : IsDc(queue[i])

ConnectionInv ==
    /\ LostOnce(messages)
    /\ DcQueued(messages) => net = "off" /\ ~IsDc(dbgMsg)
    /\ IsDc(dbgMsg) => net = "off"
    /\ dbg = "connect" => IsDc(dbgMsg)

\* What the network thread's place says of its packet and of what it has done.
PacketInv ==
    /\ net \in {"copy", "swap"} =>
           netPacket.type \in {"AddBreakpoint", "RemoveBreakpoint", "StepCoreOver"}
    /\ net \notin {"clear", "resume"} => cleared = {}
    /\ net = "stepRelease" => waitingForStep \in {netPacket.core, NoCore}


\* While the game runs, a core that is about to sleep or asleep was awake in
\* pauseCore as the cores were last woken.
ResumeInv ==
    \A c \in Core : ~waitingForPause =>
        /\ pc[c] \in {"lock", "flagged"} => c \in missed
        /\ pc[c] = "asleep" /\ net # "release" => c \in missed

\* While nothing tells the client of a core that was to be stepped, it has not
\* come to its pause since.
StepOf(c) ==
    /\ waitingForStep = c /\ netPacket.type = "StepCore" /\ net = "recv"
    /\ told = "stepping" /\ dbg = "idle" /\ messages = <<>>
    /\ pc[c] \in {"pause", "lock", "flagged", "asleep"}
    => c \in missed

StepInv == \A c \in Core : StepOf(c)

\* A flag that was not set late is of a core that stays in its pause.
FlagInv(c) ==
    corePaused[c] =>
        \/ c \in late
        \/ /\ waitingForPause /\ ~Releasing(c) /\ Stopped(c)
           /\ waitingForStep = c => net # "stepRelease" /\ pc[c] # "woken"

FlagsInv == \A c \in Core : FlagInv(c)

\* A core on its way into its sleep is flagged, is being released, or missed it.
SleepInv ==
    \A c \in Core : pc[c] \in {"flagged", "asleep"} =>
        corePaused[c] \/ c \in missed \/ Releasing(c)

\* Who may leave its pause has looked.
CheckedInv ==
    \A c \in Core :
        /\ pc[c] \in {"execute", "dispatch", "asleep", "woken"} => c \in checked
        /\ ~waitingForPause /\ pc[c] \in Pausing => c \in checked

LEMMA MessageAdded ==
    ASSUME NEW queue, LostOnce(queue), NEW msg \in Message, IsDc(msg) => ~DcQueued(queue)
    PROVE  /\ LostOnce(Append(queue, msg))
           /\ DcQueued(Append(queue, msg)) <=> DcQueued(queue) \/ IsDc(msg)
           /\ Append(queue, msg) # <<>>
<1> DEFINE longer == Append(queue, msg)
<1>1. /\ queue \in Seq(Message) /\ Len(queue) \in Nat
      /\ longer \in Seq(Message) /\ Len(longer) = Len(queue) + 1
      /\ \A i \in 1 .. Len(queue) : longer[i] = queue[i]
      /\ longer[Len(queue) + 1] = msg /\ longer # <<>>
  BY AppendProperties, LenProperties DEF LostOnce
<1> HIDE DEF longer
<1>2. \A i \in 1 .. Len(longer) : i \in 1 .. Len(queue) \/ i = Len(queue) + 1
  BY <1>1
<1>3. \A i \in 1 .. Len(queue) : i \in 1 .. Len(longer)
  BY <1>1
<1>4. Len(queue) + 1 \in 1 .. Len(longer)
  BY <1>1
<1>5. DcQueued(longer) <=> DcQueued(queue) \/ IsDc(msg)
  BY <1>1, <1>2, <1>3, <1>4 DEF DcQueued
<1>6. LostOnce(longer)
  <2> SUFFICES ASSUME NEW i \in 1 .. Len(longer), NEW j \in 1 .. Len(longer),
                      IsDc(longer[i]), IsDc(longer[j])
               PROVE  i = j
    BY <1>1 DEF LostOnce
  <2>1. CASE i = Len(queue) + 1
    BY <2>1, <1>1, <1>2 DEF DcQueued
  <2>2. CASE j = Len(queue) + 1
    BY <2>2, <1>1, <1>2 DEF DcQueued
  <2>3. CASE i \in 1 .. Len(queue) /\ j \in 1 .. Len(queue)
    BY <2>3, <1>1 DEF LostOnce
  <2> QED BY <2>1, <2>2, <2>3, <1>2
<1> QED BY <1>1, <1>5, <1>6 DEF longer

LEMMA MessageTaken ==
    ASSUME NEW queue, LostOnce(queue), queue # <<>>
    PROVE  /\ LostOnce(Tail(queue))
           /\ DcQueued(Tail(queue)) => DcQueued(queue) /\ ~IsDc(Head(queue))
           /\ IsDc(Head(queue)) => DcQueued(queue)
<1> DEFINE shorter == Tail(queue)
<1>1. /\ queue \in Seq(Message) /\ Len(queue) \in Nat /\ Len(queue) >= 1
      /\ shorter \in Seq(Message) /\ Len(shorter) = Len(queue) - 1
      /\ Head(queue) = queue[1]
      /\ \A i \in 1 .. Len(shorter) : shorter[i] = queue[i + 1]
  BY HeadTailProperties, EmptySeq, LenProperties DEF LostOnce
<1> HIDE DEF shorter
<1>2. \A i \in 1 .. Len(shorter) : i + 1 \in 1 .. Len(queue) /\ i + 1 # 1
  BY <1>1
<1>3. 1 \in 1 .. Len(queue)
  BY <1>1
<1>4. DcQueued(shorter) => DcQueued(queue) /\ ~IsDc(Head(queue))
  BY <1>1, <1>2, <1>3 DEF DcQueued, LostOnce
<1>5. LostOnce(shorter)
  <2> SUFFICES ASSUME NEW i \in 1 .. Len(shorter), NEW j \in 1 .. Len(shorter),
                      IsDc(shorter[i]), IsDc(shorter[j])
               PROVE  i = j
    BY <1>1 DEF LostOnce
  <2>1. i + 1 = j + 1
    BY <1>1, <1>2 DEF LostOnce
  <2> QED BY <2>1
<1> QED BY <1>1, <1>3, <1>4, <1>5 DEF DcQueued, shorter

LEMMA MessageKinds ==
    /\ [type |-> "DebuggerDc"] \in Message /\ IsDc([type |-> "DebuggerDc"])
    /\ [type |-> "PreLaunch"] \in Message /\ ~IsDc([type |-> "PreLaunch"])
    /\ \A c \in Core : LET msg == [type |-> "CoreStepped", core |-> c]
                       IN  msg \in Message /\ ~IsDc(msg)
    /\ \A c \in Core, a \in Address \cup {0}, k \in BpKind :
          LET msg == [type |-> "BpHit", core |-> c, addr |-> a, kind |-> k]
          IN  msg \in Message /\ ~IsDc(msg)
    /\ ~IsDc(NoMsg)
BY DEF Message, IsDc, NoMsg

LEMMA CoresSay ==
    ASSUME CoreTypes, ConnectionInv, NEW c \in Core, Say(c)
    PROVE  /\ LostOnce(messages') /\ messages' # <<>>
           /\ DcQueued(messages') => DcQueued(messages)
<1>1. /\ addr[c] \in Address \cup {0} /\ bpFound[c] \in BpKind
      /\ LostOnce(messages)
  BY DEF CoreTypes, ConnectionInv
<1>2. PICK msg \in Message : messages' = Append(messages, msg) /\ ~IsDc(msg)
  <2>1. CASE pc[c] = "sayLaunch"
    BY <2>1, MessageKinds DEF Say, notify
  <2>2. CASE pc[c] = "sayStepped"
    BY <2>2, MessageKinds DEF Say, notify
  <2>3. CASE pc[c] = "sayHit"
    BY <2>3, <1>1, MessageKinds DEF Say, notify
  <2> QED BY <2>1, <2>2, <2>3 DEF Say
<1> QED BY <1>1, <1>2, MessageAdded

LEMMA CheckedStep ==
    ASSUME CoreTypes, CheckedInv, NextDebugger
    PROVE  CheckedInv'
<1> USE DEF controlVars, coreVars, bpVars, dbgVars, netVars, history
<1>1. ASSUME NEW c \in Core, CoreStep(c) PROVE CheckedInv'
  <2>1. CASE maybeBreak(c) \/ TestStep(c) \/ WhilePause(c) \/ Woken(c) \/ Dispatch(c)
    BY <2>1 DEF maybeBreak, Goto, TestStep, WhilePause, Leave, Woken, Dispatch,
       CheckedInv, CoreTypes, Pausing
  <2>2. CASE StepDone(c)
    BY <2>2 DEF StepDone, Goto, CheckedInv, CoreTypes, Pausing
  <2>3. CASE LookUp(c)
    BY <2>3 DEF LookUp, Goto, Leave, CheckedInv, CoreTypes, Pausing
  <2>4. CASE Hit(c)
    BY <2>4 DEF Hit, Goto, CheckedInv, CoreTypes, Pausing
  <2>5. CASE PauseCore(c)
    BY <2>5 DEF PauseCore, Goto, WakeWaiters, CheckedInv, CoreTypes, Pausing
  <2>6. CASE Sleep(c)
    BY <2>6 DEF Sleep, Goto, CheckedInv, CoreTypes, Pausing
  <2>7. CASE Execute(c)
    BY <2>7 DEF Execute, Goto, CheckedInv, CoreTypes, Pausing
  <2>8. CASE PreLaunch(c)
    BY <2>8 DEF PreLaunch, Goto, CheckedInv, CoreTypes, Pausing
  <2>9. CASE Say(c)
    BY <2>9 DEF Say, Goto, notify, CheckedInv, CoreTypes, Pausing
  <2> QED BY <1>1, <2>1, <2>2, <2>3, <2>4, <2>5, <2>6, <2>7, <2>8, <2>9 DEF CoreStep
<1>2. CASE DbgStep
  <2>1. CASE debugThread \/ DbgPauseAll \/ DbgWrite \/ DbgCopy \/ DbgSwap
    BY <2>1 DEF debugThread, DbgPauseAll, DbgWrite, Tell, DbgCopy, Copy, DbgSwap, Swap,
       CheckedInv, CoreTypes, Pausing
  <2>2. CASE DbgWait
    BY <2>2 DEF DbgWait, wakeAllCores, CheckedInv, CoreTypes, Pausing
  <2>3. CASE Connect
    BY <2>3 DEF Connect, CheckedInv, CoreTypes, Pausing
  <2> QED BY <1>2, <2>1, <2>2, <2>3 DEF DbgStep
<1>3. CASE NetStep
  <2>1. CASE NetWait
    BY <2>1 DEF NetWait, wakeAllCores, CheckedInv, CoreTypes, Pausing
  <2>2. CASE NetWrite \/ NetCopy \/ NetSwap
    BY <2>2 DEF NetWrite, Tell, NetCopy, Copy, NetSwap, Swap, CheckedInv, CoreTypes,
       Pausing
  <2>3. CASE ResumeClear
    BY <2>3 DEF ResumeClear, CheckedInv, CoreTypes, Pausing
  <2>4. CASE ResumeStore
    BY <2>4 DEF ResumeStore, Awake, CheckedInv, CoreTypes, Pausing
  <2>5. CASE StepClear
    BY <2>5 DEF StepClear, CheckedInv, CoreTypes, Pausing
  <2>6. CASE StepStore
    BY <2>6 DEF StepStore, CheckedInv, CoreTypes, Pausing
  <2>7. CASE NetRelease
    BY <2>7 DEF NetRelease, Release, Awake, CheckedInv, CoreTypes, Pausing
  <2> QED BY <1>3, <2>1, <2>2, <2>3, <2>4, <2>5, <2>6, <2>7 DEF NetStep
<1>4. CASE ClientStep
  <2>1. CASE EditBreakpoints \/ Pause \/ Resume \/ StepCore \/ StepCoreOver
          \/ Disconnect
    BY <2>1 DEF EditBreakpoints, Receive, Packet, Pause, Resume, StepCore, StepCoreOver,
       Disconnect, notify, CheckedInv, CoreTypes, Pausing
  <2> QED BY <1>4, <2>1 DEF ClientStep
<1> QED BY <1>1, <1>2, <1>3, <1>4 DEF NextDebugger

LEMMA FlagsStep ==
    ASSUME CoreTypes, PacketInv, FlagsInv, NextDebugger
    PROVE  FlagsInv'
<1> SUFFICES ASSUME NEW d \in Core, FlagInv(d) PROVE FlagInv(d)'
  BY DEF FlagsInv
<1> USE DEF controlVars, coreVars, bpVars, dbgVars, netVars, history
<1>1. ASSUME NEW c \in Core, CoreStep(c) PROVE FlagInv(d)'
  <2>1. CASE maybeBreak(c) \/ TestStep(c) \/ WhilePause(c) \/ Woken(c) \/ Dispatch(c)
    BY <2>1 DEF maybeBreak, Goto, TestStep, WhilePause, Leave, Woken, Dispatch, FlagInv,
       CoreTypes, PacketInv, Releasing, Stopped, Pausing
  <2>2. CASE StepDone(c)
    BY <2>2, DebuggerAssumption DEF StepDone, Goto, FlagInv, CoreTypes, PacketInv,
       Releasing, Stopped, Pausing
  <2>3. CASE LookUp(c)
    BY <2>3 DEF LookUp, Goto, Leave, FlagInv, CoreTypes, PacketInv, Releasing, Stopped,
       Pausing
  <2>4. CASE Hit(c)
    BY <2>4 DEF Hit, Goto, FlagInv, CoreTypes, PacketInv, Releasing, Stopped, Pausing
  <2>5. CASE PauseCore(c)
    BY <2>5, DebuggerAssumption DEF PauseCore, Goto, WakeWaiters, FlagInv, CoreTypes,
       PacketInv, Releasing, Stopped, Pausing
  <2>6. CASE Sleep(c)
    BY <2>6 DEF Sleep, Goto, FlagInv, CoreTypes, PacketInv, Releasing, Stopped, Pausing
  <2>7. CASE Execute(c)
    BY <2>7 DEF Execute, Goto, FlagInv, CoreTypes, PacketInv, Releasing, Stopped, Pausing
  <2>8. CASE PreLaunch(c)
    BY <2>8 DEF PreLaunch, Goto, FlagInv, CoreTypes, PacketInv, Releasing, Stopped,
       Pausing
  <2>9. CASE Say(c)
    BY <2>9 DEF Say, Goto, notify, FlagInv, CoreTypes, PacketInv, Releasing, Stopped,
       Pausing
  <2> QED BY <1>1, <2>1, <2>2, <2>3, <2>4, <2>5, <2>6, <2>7, <2>8, <2>9 DEF CoreStep
<1>2. CASE DbgStep
  <2>1. CASE debugThread \/ DbgPauseAll \/ DbgWrite \/ DbgCopy \/ DbgSwap
    BY <2>1 DEF debugThread, DbgPauseAll, DbgWrite, Tell, DbgCopy, Copy, DbgSwap, Swap,
       FlagInv, CoreTypes, PacketInv, Releasing, Stopped, Pausing
  <2>2. CASE DbgWait
    BY <2>2 DEF DbgWait, wakeAllCores, FlagInv, CoreTypes, PacketInv, Releasing, Stopped,
       Pausing
  <2>3. CASE Connect
    BY <2>3 DEF Connect, FlagInv, CoreTypes, PacketInv, Releasing, Stopped, Pausing
  <2> QED BY <1>2, <2>1, <2>2, <2>3 DEF DbgStep
<1>3. CASE NetStep
  <2>1. CASE NetWait
    BY <2>1 DEF NetWait, wakeAllCores, FlagInv, CoreTypes, PacketInv, Releasing, Stopped,
       Pausing
  <2>2. CASE NetWrite \/ NetCopy \/ NetSwap
    BY <2>2 DEF NetWrite, Tell, NetCopy, Copy, NetSwap, Swap, FlagInv, CoreTypes,
       PacketInv, Releasing, Stopped, Pausing
  <2>3. CASE ResumeClear
    BY <2>3 DEF ResumeClear, FlagInv, CoreTypes, PacketInv, Releasing, Stopped, Pausing
  <2>4. CASE ResumeStore
    BY <2>4 DEF ResumeStore, Awake, FlagInv, CoreTypes, PacketInv, Releasing, Stopped,
       Pausing
  <2>5. CASE StepClear
    BY <2>5 DEF StepClear, FlagInv, CoreTypes, PacketInv, Releasing, Stopped, Pausing
  <2>6. CASE StepStore
    BY <2>6, DebuggerAssumption DEF StepStore, FlagInv, CoreTypes, PacketInv, Releasing,
       Stopped, Pausing
  <2>7. CASE NetRelease
    BY <2>7 DEF NetRelease, Release, Awake, FlagInv, CoreTypes, PacketInv, Releasing,
       Stopped, Pausing
  <2> QED BY <1>3, <2>1, <2>2, <2>3, <2>4, <2>5, <2>6, <2>7 DEF NetStep
<1>4. CASE ClientStep
  <2>1. CASE EditBreakpoints \/ Pause \/ Resume \/ StepCore \/ StepCoreOver
    BY <2>1 DEF EditBreakpoints, Receive, Packet, Pause, Resume, StepCore, StepCoreOver,
       FlagInv, CoreTypes, PacketInv, Releasing, Stopped, Pausing
  <2>2. CASE Disconnect
    BY <2>2 DEF Disconnect, notify, FlagInv, CoreTypes, PacketInv, Releasing, Stopped,
       Pausing
  <2> QED BY <1>4, <2>1, <2>2 DEF ClientStep
<1> QED BY <1>1, <1>2, <1>3, <1>4 DEF NextDebugger

LEMMA SleepStep ==
    ASSUME CoreTypes, ConnectionInv, PacketInv, SleepInv, NextDebugger
    PROVE  SleepInv'
<1> USE DEF controlVars, coreVars, bpVars, dbgVars, netVars, history
<1>1. ASSUME NEW c \in Core, CoreStep(c) PROVE SleepInv'
  <2>1. CASE maybeBreak(c) \/ TestStep(c) \/ WhilePause(c) \/ Woken(c) \/ Dispatch(c)
    BY <2>1 DEF maybeBreak, Goto, TestStep, WhilePause, Leave, Woken, Dispatch, SleepInv,
       CoreTypes, PacketInv, Releasing, Pausing
  <2>2. CASE StepDone(c)
    BY <2>2 DEF StepDone, Goto, SleepInv, CoreTypes, PacketInv, Releasing, Pausing
  <2>3. CASE LookUp(c)
    BY <2>3 DEF LookUp, Goto, Leave, SleepInv, CoreTypes, PacketInv, Releasing, Pausing
  <2>4. CASE Hit(c)
    BY <2>4 DEF Hit, Goto, SleepInv, CoreTypes, PacketInv, Releasing, Pausing
  <2>5. CASE PauseCore(c)
    BY <2>5 DEF PauseCore, Goto, WakeWaiters, SleepInv, CoreTypes, PacketInv, Releasing,
       Pausing
  <2>6. CASE Sleep(c)
    BY <2>6 DEF Sleep, Goto, SleepInv, CoreTypes, PacketInv, Releasing, Pausing
  <2>7. CASE Execute(c)
    BY <2>7 DEF Execute, Goto, SleepInv, CoreTypes, PacketInv, Releasing, Pausing
  <2>8. CASE PreLaunch(c)
    BY <2>8 DEF PreLaunch, Goto, SleepInv, CoreTypes, PacketInv, Releasing, Pausing
  <2>9. CASE Say(c)
    BY <2>9 DEF Say, Goto, notify, SleepInv, CoreTypes, PacketInv, Releasing, Pausing
  <2> QED BY <1>1, <2>1, <2>2, <2>3, <2>4, <2>5, <2>6, <2>7, <2>8, <2>9 DEF CoreStep
<1>2. CASE DbgStep
  <2>1. CASE debugThread \/ DbgPauseAll \/ DbgWrite \/ DbgCopy \/ DbgSwap
    BY <2>1 DEF debugThread, DbgPauseAll, DbgWrite, Tell, DbgCopy, Copy, DbgSwap, Swap,
       SleepInv, CoreTypes, PacketInv, Releasing, Pausing
  <2>2. CASE DbgWait
    BY <2>2 DEF DbgWait, wakeAllCores, SleepInv, CoreTypes, PacketInv, Releasing, Pausing
  <2>3. CASE Connect
    BY <2>3 DEF Connect, ConnectionInv, SleepInv, Releasing
  <2> QED BY <1>2, <2>1, <2>2, <2>3 DEF DbgStep
<1>3. CASE NetStep
  <2>1. CASE NetWait
    BY <2>1 DEF NetWait, wakeAllCores, SleepInv, CoreTypes, PacketInv, Releasing, Pausing
  <2>2. CASE NetWrite \/ NetCopy \/ NetSwap
    BY <2>2 DEF NetWrite, Tell, NetCopy, Copy, NetSwap, Swap, SleepInv, CoreTypes,
       PacketInv, Releasing, Pausing
  <2>3. CASE ResumeClear
    BY <2>3 DEF ResumeClear, SleepInv, CoreTypes, PacketInv, Releasing, Pausing
  <2>4. CASE ResumeStore
    BY <2>4 DEF ResumeStore, Awake, SleepInv, CoreTypes, PacketInv, Releasing, Pausing
  <2>5. CASE StepClear
    BY <2>5 DEF StepClear, SleepInv, CoreTypes, PacketInv, Releasing, Pausing
  <2>6. CASE StepStore
    BY <2>6 DEF StepStore, SleepInv, CoreTypes, PacketInv, Releasing, Pausing
  <2>7. CASE NetRelease
    BY <2>7 DEF NetRelease, Release, Awake, SleepInv, CoreTypes, PacketInv, Releasing,
       Pausing
  <2> QED BY <1>3, <2>1, <2>2, <2>3, <2>4, <2>5, <2>6, <2>7 DEF NetStep
<1>4. CASE ClientStep
  <2>1. CASE EditBreakpoints \/ Pause \/ Resume \/ StepCore \/ StepCoreOver
          \/ Disconnect
    BY <2>1 DEF EditBreakpoints, Receive, Packet, Pause, Resume, StepCore, StepCoreOver,
       Disconnect, notify, SleepInv, CoreTypes, PacketInv, Releasing, Pausing
  <2> QED BY <1>4, <2>1 DEF ClientStep
<1> QED BY <1>1, <1>2, <1>3, <1>4 DEF NextDebugger

LEMMA ResumeStep ==
    ASSUME CoreTypes, ConnectionInv, ResumeInv, NextDebugger
    PROVE  ResumeInv'
<1> USE DEF controlVars, coreVars, bpVars, dbgVars, netVars, history
<1>1. ASSUME NEW c \in Core, CoreStep(c) PROVE ResumeInv'
  <2>1. CASE maybeBreak(c) \/ TestStep(c) \/ WhilePause(c) \/ Woken(c) \/ Dispatch(c)
    BY <2>1 DEF maybeBreak, Goto, TestStep, WhilePause, Leave, Woken, Dispatch, ResumeInv,
       CoreTypes, Pausing
  <2>2. CASE StepDone(c)
    BY <2>2 DEF StepDone, Goto, ResumeInv, CoreTypes, Pausing
  <2>3. CASE LookUp(c)
    BY <2>3 DEF LookUp, Goto, Leave, ResumeInv, CoreTypes, Pausing
  <2>4. CASE Hit(c)
    BY <2>4 DEF Hit, Goto, ResumeInv, CoreTypes, Pausing
  <2>5. CASE PauseCore(c)
    BY <2>5 DEF PauseCore, Goto, WakeWaiters, ResumeInv, CoreTypes, Pausing
  <2>6. CASE Sleep(c)
    BY <2>6 DEF Sleep, Goto, ResumeInv, CoreTypes, Pausing
  <2>7. CASE Execute(c)
    BY <2>7 DEF Execute, Goto, ResumeInv, CoreTypes, Pausing
  <2>8. CASE PreLaunch(c)
    BY <2>8 DEF PreLaunch, Goto, ResumeInv, CoreTypes, Pausing
  <2>9. CASE Say(c)
    BY <2>9 DEF Say, Goto, notify, ResumeInv, CoreTypes, Pausing
  <2> QED BY <1>1, <2>1, <2>2, <2>3, <2>4, <2>5, <2>6, <2>7, <2>8, <2>9 DEF CoreStep
<1>2. CASE DbgStep
  <2>1. CASE debugThread \/ DbgPauseAll \/ DbgWrite \/ DbgCopy \/ DbgSwap
    BY <2>1 DEF debugThread, DbgPauseAll, DbgWrite, Tell, DbgCopy, Copy, DbgSwap, Swap,
       ResumeInv, CoreTypes, Pausing
  <2>2. CASE DbgWait
    BY <2>2 DEF DbgWait, wakeAllCores, ResumeInv, CoreTypes, Pausing
  <2>3. CASE Connect
    BY <2>3 DEF Connect, ResumeInv, CoreTypes, ConnectionInv
  <2> QED BY <1>2, <2>1, <2>2, <2>3 DEF DbgStep
<1>3. CASE NetStep
  <2>1. CASE NetWait
    BY <2>1 DEF NetWait, wakeAllCores, ResumeInv, CoreTypes, Pausing
  <2>2. CASE NetWrite \/ NetCopy \/ NetSwap
    BY <2>2 DEF NetWrite, Tell, NetCopy, Copy, NetSwap, Swap, ResumeInv, CoreTypes,
       Pausing
  <2>3. CASE ResumeClear
    BY <2>3 DEF ResumeClear, ResumeInv, CoreTypes, Pausing
  <2>4. CASE ResumeStore
    BY <2>4 DEF ResumeStore, Awake, ResumeInv, CoreTypes, Pausing
  <2>5. CASE StepClear
    BY <2>5 DEF StepClear, ResumeInv, CoreTypes, Pausing
  <2>6. CASE StepStore
    BY <2>6 DEF StepStore, ResumeInv, CoreTypes, Pausing
  <2>7. CASE NetRelease
    BY <2>7 DEF NetRelease, Release, Awake, ResumeInv, CoreTypes, Pausing
  <2> QED BY <1>3, <2>1, <2>2, <2>3, <2>4, <2>5, <2>6, <2>7 DEF NetStep
<1>4. CASE ClientStep
  <2>1. CASE EditBreakpoints \/ Pause \/ Resume \/ StepCore \/ StepCoreOver
          \/ Disconnect
    BY <2>1 DEF EditBreakpoints, Receive, Packet, Pause, Resume, StepCore, StepCoreOver,
       Disconnect, notify, ResumeInv, CoreTypes, Pausing
  <2> QED BY <1>4, <2>1 DEF ClientStep
<1> QED BY <1>1, <1>2, <1>3, <1>4 DEF NextDebugger

LEMMA ConnectionStep ==
    ASSUME CoreTypes, ConnectionInv, NextDebugger
    PROVE  ConnectionInv'
<1> USE DEF controlVars, coreVars, bpVars, dbgVars, netVars, history
<1>1. ASSUME NEW c \in Core, CoreStep(c) PROVE ConnectionInv'
  <2>1. CASE maybeBreak(c) \/ TestStep(c) \/ WhilePause(c) \/ Woken(c) \/ Dispatch(c)
    BY <2>1 DEF maybeBreak, Goto, TestStep, WhilePause, Leave, Woken, Dispatch,
       ConnectionInv
  <2>2. CASE StepDone(c)
    BY <2>2 DEF StepDone, Goto, ConnectionInv
  <2>3. CASE LookUp(c)
    BY <2>3 DEF LookUp, Goto, Leave, ConnectionInv
  <2>4. CASE Hit(c)
    BY <2>4 DEF Hit, Goto, ConnectionInv
  <2>5. CASE PauseCore(c)
    BY <2>5 DEF PauseCore, Goto, WakeWaiters, ConnectionInv
  <2>6. CASE Sleep(c)
    BY <2>6 DEF Sleep, Goto, ConnectionInv
  <2>7. CASE Execute(c)
    BY <2>7 DEF Execute, Goto, ConnectionInv
  <2>8. CASE PreLaunch(c)
    BY <2>8 DEF PreLaunch, Goto, ConnectionInv
  <2>9. CASE Say(c)
    BY <2>9, CoresSay DEF Say, Goto, notify, ConnectionInv
  <2> QED BY <1>1, <2>1, <2>2, <2>3, <2>4, <2>5, <2>6, <2>7, <2>8, <2>9 DEF CoreStep
<1>2. CASE DbgStep
  <2>1. CASE debugThread
    BY <2>1, MessageTaken DEF debugThread, ConnectionInv
  <2>2. CASE DbgPauseAll \/ DbgCopy \/ DbgSwap
    BY <2>2 DEF DbgPauseAll, DbgCopy, Copy, DbgSwap, Swap, ConnectionInv
  <2>3. CASE DbgWait
    BY <2>3 DEF DbgWait, wakeAllCores, ConnectionInv, IsDc, IsTemporary
  <2>4. CASE DbgWrite
    BY <2>4, MessageKinds DEF DbgWrite, Tell, ConnectionInv
  <2>5. CASE Connect
    BY <2>5, MessageKinds DEF Connect, ConnectionInv
  <2> QED BY <1>2, <2>1, <2>2, <2>3, <2>4, <2>5 DEF DbgStep
<1>3. CASE NetStep
  <2>1. CASE NetWait
    BY <2>1 DEF NetWait, wakeAllCores, ConnectionInv
  <2>2. CASE NetWrite \/ NetCopy \/ NetSwap
    BY <2>2 DEF NetWrite, Tell, NetCopy, Copy, NetSwap, Swap, ConnectionInv
  <2>3. CASE ResumeClear
    BY <2>3 DEF ResumeClear, ConnectionInv
  <2>4. CASE ResumeStore
    BY <2>4 DEF ResumeStore, Awake, ConnectionInv
  <2>5. CASE StepClear
    BY <2>5 DEF StepClear, ConnectionInv
  <2>6. CASE StepStore
    BY <2>6 DEF StepStore, ConnectionInv
  <2>7. CASE NetRelease
    BY <2>7 DEF NetRelease, Release, Awake, ConnectionInv
  <2> QED BY <1>3, <2>1, <2>2, <2>3, <2>4, <2>5, <2>6, <2>7 DEF NetStep
<1>4. CASE ClientStep
  <2>1. CASE EditBreakpoints \/ Pause \/ Resume \/ StepCore \/ StepCoreOver
    BY <2>1 DEF EditBreakpoints, Receive, Packet, Pause, Resume, StepCore, StepCoreOver,
       ConnectionInv
  <2>2. CASE Disconnect
    BY <2>2, MessageAdded, MessageKinds DEF Disconnect, notify, ConnectionInv
  <2> QED BY <1>4, <2>1, <2>2 DEF ClientStep
<1> QED BY <1>1, <1>2, <1>3, <1>4 DEF NextDebugger

LEMMA PacketStep ==
    ASSUME ConnectionInv, CoreTypes, PacketInv, NextDebugger
    PROVE  PacketInv'
<1> USE DEF controlVars, coreVars, bpVars, dbgVars, netVars, history
<1>1. ASSUME NEW c \in Core, CoreStep(c) PROVE PacketInv'
  <2>1. CASE maybeBreak(c) \/ TestStep(c) \/ WhilePause(c) \/ Woken(c) \/ Dispatch(c)
    BY <2>1 DEF maybeBreak, Goto, TestStep, WhilePause, Leave, Woken, Dispatch, PacketInv,
       CoreTypes
  <2>2. CASE StepDone(c)
    BY <2>2 DEF StepDone, Goto, PacketInv, CoreTypes
  <2>3. CASE LookUp(c)
    BY <2>3 DEF LookUp, Goto, Leave, PacketInv, CoreTypes
  <2>4. CASE Hit(c)
    BY <2>4 DEF Hit, Goto, PacketInv, CoreTypes
  <2>5. CASE PauseCore(c)
    BY <2>5 DEF PauseCore, Goto, WakeWaiters, PacketInv, CoreTypes
  <2>6. CASE Sleep(c)
    BY <2>6 DEF Sleep, Goto, PacketInv, CoreTypes
  <2>7. CASE Execute(c)
    BY <2>7 DEF Execute, Goto, PacketInv, CoreTypes
  <2>8. CASE PreLaunch(c)
    BY <2>8 DEF PreLaunch, Goto, PacketInv, CoreTypes
  <2>9. CASE Say(c)
    BY <2>9 DEF Say, Goto, notify, PacketInv, CoreTypes
  <2> QED BY <1>1, <2>1, <2>2, <2>3, <2>4, <2>5, <2>6, <2>7, <2>8, <2>9 DEF CoreStep
<1>2. CASE DbgStep
  <2>1. CASE debugThread \/ DbgPauseAll \/ DbgWrite \/ DbgCopy \/ DbgSwap
    BY <2>1 DEF debugThread, DbgPauseAll, DbgWrite, Tell, DbgCopy, Copy, DbgSwap, Swap,
       PacketInv, CoreTypes
  <2>2. CASE DbgWait
    BY <2>2 DEF DbgWait, wakeAllCores, PacketInv, CoreTypes
  <2>3. CASE Connect
    BY <2>3 DEF Connect, PacketInv, ConnectionInv
  <2> QED BY <1>2, <2>1, <2>2, <2>3 DEF DbgStep
<1>3. CASE NetStep
  <2>1. CASE NetWait
    BY <2>1 DEF NetWait, wakeAllCores, PacketInv, CoreTypes
  <2>2. CASE NetWrite \/ NetCopy \/ NetSwap
    BY <2>2 DEF NetWrite, Tell, NetCopy, Copy, NetSwap, Swap, PacketInv, CoreTypes
  <2>3. CASE ResumeClear
    BY <2>3 DEF ResumeClear, PacketInv, CoreTypes
  <2>4. CASE ResumeStore
    BY <2>4 DEF ResumeStore, Awake, PacketInv, CoreTypes
  <2>5. CASE StepClear
    BY <2>5 DEF StepClear, PacketInv, CoreTypes
  <2>6. CASE StepStore
    BY <2>6 DEF StepStore, PacketInv, CoreTypes
  <2>7. CASE NetRelease
    BY <2>7 DEF NetRelease, Release, Awake, PacketInv, CoreTypes
  <2> QED BY <1>3, <2>1, <2>2, <2>3, <2>4, <2>5, <2>6, <2>7 DEF NetStep
<1>4. CASE ClientStep
  <2>1. CASE EditBreakpoints \/ Pause \/ Resume \/ StepCore \/ StepCoreOver
          \/ Disconnect
    BY <2>1 DEF EditBreakpoints, Receive, Packet, Pause, Resume, StepCore, StepCoreOver,
       Disconnect, notify, PacketInv, CoreTypes
  <2> QED BY <1>4, <2>1 DEF ClientStep
<1> QED BY <1>1, <1>2, <1>3, <1>4 DEF NextDebugger

LEMMA StepStep ==
    ASSUME CoreTypes, ConnectionInv, PacketInv, StepInv, NextDebugger
    PROVE  StepInv'
<1> SUFFICES ASSUME NEW d \in Core, StepOf(d) PROVE StepOf(d)'
  BY DEF StepInv
<1> USE DEF controlVars, coreVars, bpVars, dbgVars, netVars, history
<1>1. ASSUME NEW c \in Core, CoreStep(c) PROVE StepOf(d)'
  <2>1. CASE maybeBreak(c) \/ TestStep(c) \/ WhilePause(c) \/ Woken(c) \/ Dispatch(c)
    BY <2>1 DEF maybeBreak, Goto, TestStep, WhilePause, Leave, Woken, Dispatch, StepOf,
       CoreTypes
  <2>2. CASE StepDone(c)
    BY <2>2, DebuggerAssumption DEF StepDone, Goto, StepOf, CoreTypes
  <2>3. CASE LookUp(c)
    BY <2>3 DEF LookUp, Goto, Leave, StepOf, CoreTypes
  <2>4. CASE Hit(c)
    BY <2>4 DEF Hit, Goto, StepOf, CoreTypes
  <2>5. CASE PauseCore(c)
    BY <2>5 DEF PauseCore, Goto, WakeWaiters, StepOf, CoreTypes
  <2>6. CASE Sleep(c)
    BY <2>6 DEF Sleep, Goto, StepOf, CoreTypes
  <2>7. CASE Execute(c)
    BY <2>7 DEF Execute, Goto, StepOf, CoreTypes
  <2>8. CASE PreLaunch(c)
    BY <2>8 DEF PreLaunch, Goto, StepOf, CoreTypes
  <2>9. CASE Say(c)
    BY <2>9, CoresSay DEF Say, Goto, notify, StepOf, CoreTypes
  <2> QED BY <1>1, <2>1, <2>2, <2>3, <2>4, <2>5, <2>6, <2>7, <2>8, <2>9 DEF CoreStep
<1>2. CASE DbgStep
  <2>1. CASE debugThread \/ DbgPauseAll \/ DbgWrite \/ DbgCopy \/ DbgSwap
    BY <2>1 DEF debugThread, DbgPauseAll, DbgWrite, Tell, DbgCopy, Copy, DbgSwap, Swap,
       StepOf, CoreTypes
  <2>2. CASE DbgWait
    BY <2>2 DEF DbgWait, wakeAllCores, StepOf, CoreTypes
  <2>3. CASE Connect
    BY <2>3 DEF Connect, StepOf, CoreTypes
  <2> QED BY <1>2, <2>1, <2>2, <2>3 DEF DbgStep
<1>3. CASE NetStep
  <2>1. CASE NetWait
    BY <2>1 DEF NetWait, wakeAllCores, StepOf, CoreTypes
  <2>2. CASE NetWrite \/ NetCopy
    BY <2>2 DEF NetWrite, Tell, NetCopy, Copy, StepOf, CoreTypes
  <2>3. CASE NetSwap
    BY <2>3 DEF NetSwap, Swap, Edited, StepOf, PacketInv
  <2>4. CASE ResumeClear
    BY <2>4 DEF ResumeClear, StepOf, CoreTypes
  <2>5. CASE ResumeStore
    BY <2>5 DEF ResumeStore, Awake, StepOf, CoreTypes
  <2>6. CASE StepClear
    BY <2>6 DEF StepClear, StepOf, CoreTypes
  <2>7. CASE StepStore
    BY <2>7 DEF StepStore, StepOf, CoreTypes
  <2>8. CASE NetRelease
    BY <2>8 DEF NetRelease, Release, StepOf, CoreTypes, Awake, Pausing
  <2> QED BY <1>3, <2>1, <2>2, <2>3, <2>4, <2>5, <2>6, <2>7, <2>8 DEF NetStep
<1>4. CASE ClientStep
  <2>1. CASE EditBreakpoints \/ Pause \/ Resume \/ StepCore \/ StepCoreOver
          \/ Disconnect
    BY <2>1 DEF EditBreakpoints, Receive, Packet, Pause, Resume, StepCore, StepCoreOver,
       Disconnect, notify, StepOf, CoreTypes
  <2> QED BY <1>4, <2>1 DEF ClientStep
<1> QED BY <1>1, <1>2, <1>3, <1>4 DEF NextDebugger

DebuggerInv ==
    /\ CoreTypes /\ CopiesOfTheList /\ ConnectionInv /\ PacketInv
    /\ ResumeInv /\ StepInv /\ FlagsInv /\ SleepInv /\ CheckedInv

LEMMA DebuggerStarts ==
    ASSUME InitDebugger
    PROVE  DebuggerInv
<1>1. CoreTypes
  BY DebuggerAssumption DEF InitDebugger, CoreTypes, Pc, Pausing, BpKind
<1>2. CopiesOfTheList
  BY DEF InitDebugger, CopiesOfTheList, NoBreakpoints, BpKind
<1>3. ConnectionInv /\ PacketInv
  BY MessageKinds, EmptySeq DEF InitDebugger, ConnectionInv, PacketInv, LostOnce, DcQueued
<1>4. ResumeInv /\ StepInv /\ FlagsInv /\ SleepInv /\ CheckedInv
  BY DEF InitDebugger, ResumeInv, StepInv, StepOf, FlagsInv, FlagInv, SleepInv, CheckedInv,
         Pausing
<1> QED BY <1>1, <1>2, <1>3, <1>4 DEF DebuggerInv

LEMMA DebuggerSteps ==
    ASSUME DebuggerInv, [NextDebugger]_debuggerVars
    PROVE  DebuggerInv' /\ Changes(breakpoints, breakpoints')
<1>1. CASE NextDebugger
  BY <1>1, CoreTypesKept, CopiesKept, ConnectionStep, PacketStep, ResumeStep,
     StepStep, FlagsStep, SleepStep, CheckedStep DEF DebuggerInv
<1>2. CASE UNCHANGED debuggerVars
  <2> USE <1>2 DEF DebuggerInv, debuggerVars, controlVars, coreVars, bpVars, dbgVars,
                   netVars, history
  <2>1. CoreTypes' /\ CopiesOfTheList' /\ Changes(breakpoints, breakpoints')
    BY DEF CoreTypes, CopiesOfTheList, Changes
  <2>2. ConnectionInv' /\ PacketInv'
    BY DEF ConnectionInv, PacketInv
  <2>3. ResumeInv' /\ StepInv'
    BY DEF ResumeInv, StepInv, StepOf
  <2>4. FlagsInv'
    BY DEF FlagsInv, FlagInv, Stopped, Releasing
  <2>5. SleepInv' /\ CheckedInv'
    BY DEF SleepInv, Releasing, CheckedInv
  <2> QED BY <2>1, <2>2, <2>3, <2>4, <2>5
<1> QED BY <1>1, <1>2

\* However the cores, the debugger's thread, the network's and the client
\* interleave, access by access: what the client tells the cores reaches them,
\* but for those that were between looking at a flag and sleeping; a core whose
\* flag says that it is paused is, but for those that set it during a release;
\* who sleeps is flagged, but for those a release found between the two; and no
\* core runs an instruction that was not looked at (debugcontrol.cpp).  For any
\* number of cores, packets and breakpoints.
THEOREM CommandsCorrect == SpecDebugger => []CommandsAreHeard
<1>1. InitDebugger => DebuggerInv
  BY DebuggerStarts
<1>2. DebuggerInv /\ [NextDebugger]_debuggerVars => DebuggerInv'
  BY DebuggerSteps
<1>3. DebuggerInv => CommandsAreHeard
  <2> SUFFICES ASSUME DebuggerInv PROVE CommandsAreHeard
    OBVIOUS
  <2>1. ResumeHeard
    BY DEF DebuggerInv, ResumeInv, ResumeHeard
  <2>2. StepHeard
    BY DEF DebuggerInv, StepInv, StepOf, StepHeard
  <2>3. FlagsTrue
    BY DEF DebuggerInv, FlagsInv, FlagInv, FlagsTrue
  <2>4. SleepersFlagged
    BY DEF DebuggerInv, SleepInv, SleepersFlagged, Releasing
  <2>5. ChecksBeforeRunning
    BY DEF DebuggerInv, CheckedInv, ChecksBeforeRunning
  <2> QED BY <2>1, <2>2, <2>3, <2>4, <2>5 DEF CommandsAreHeard
<1> QED BY <1>1, <1>2, <1>3, PTL DEF SpecDebugger

\* The debugger's thread and the network's edit the breakpoints without a lock
\* (debugger.cpp:172, :194): every swap changes one address of the list there
\* is at that moment, so that neither thread undoes what the other did.
THEOREM EditsCorrect == SpecDebugger => OneEditAtATime
<1>1. InitDebugger => DebuggerInv
  BY DebuggerStarts
<1>2. DebuggerInv /\ [NextDebugger]_debuggerVars => DebuggerInv'
  BY DebuggerSteps
<1>3. DebuggerInv /\ [NextDebugger]_debuggerVars
      => [Cardinality({a \in Address : breakpoints'[a] # breakpoints[a]}) <= 1]_debuggerVars
  <2> SUFFICES ASSUME DebuggerInv, [NextDebugger]_debuggerVars
               PROVE  Cardinality({a \in Address : breakpoints'[a] # breakpoints[a]}) <= 1
    OBVIOUS
  <2> DEFINE changed == {a \in Address : breakpoints'[a] # breakpoints[a]}
  <2>1. PICK a : \A x \in Address : x # a => breakpoints'[x] = breakpoints[x]
    BY DebuggerSteps DEF Changes
  <2>2. changed \subseteq {a}
    BY <2>1
  <2> HIDE DEF changed
  <2>3. IsFiniteSet({a}) /\ Cardinality({a}) = 1
    BY FS_Singleton
  <2>4. Cardinality(changed) <= Cardinality({a}) /\ IsFiniteSet(changed)
    BY <2>2, <2>3, FS_Subset
  <2>5. Cardinality(changed) \in Nat
    BY <2>4, FS_CardinalityType
  <2> QED BY <2>3, <2>4, <2>5 DEF changed
<1> QED BY <1>1, <1>2, <1>3, PTL DEF SpecDebugger, OneEditAtATime

(***************************************************************************)
(* Files: the tree of nodes.                                               *)
(***************************************************************************)

Paths == DOMAIN Disk \cup {<<>>, <<"data">>}
NodeNames == {"/", "vol"} \cup {p[Len(p)] : p \in DOMAIN Disk}

FolderNode == [type : {"folder"}, name : NodeNames, path : Paths,
               children : Seq(Nat), cursor : Nat]
FileNode == [type : {"file"}, name : NodeNames, path : Paths,
             open : BOOLEAN, fail : BOOLEAN, pos : Nat]

FolderAt(ns, k) ==
    /\ ns[k] \in FolderNode
    /\ \A j \in DOMAIN ns[k].children : ns[k].children[j] \in 2 .. Len(ns)
    /\ k # Root => /\ ns[k].path \in DOMAIN Listing
                   /\ ListsDirectory(Listing[ns[k].path])
                   /\ ns[k].cursor =< Len(Listing[ns[k].path])

\* A tree of nodes: only the root is not on the disk.
Tree(ns) ==
    /\ ns \in Seq(FolderNode \cup FileNode)
    /\ Len(ns) >= 1 /\ ns[Root].type = "folder"
    /\ \A k \in 1 .. Len(ns) :
          IF ns[k].type = "folder" THEN FolderAt(ns, k) ELSE ns[k] \in FileNode

\* A node that has got children, and nothing else.
Grown(x, y) ==
    IF x.type = "folder"
    THEN /\ y.type = "folder" /\ y.name = x.name /\ y.path = x.path
         /\ y.cursor = x.cursor /\ Len(x.children) =< Len(y.children)
         /\ \A j \in 1 .. Len(x.children) : y.children[j] = x.children[j]
    ELSE y = x

\* The nodes that were added are of files that are not open, or of folders.
Grows(ns, more) ==
    /\ Len(ns) =< Len(more)
    /\ \A k \in 1 .. Len(ns) : Grown(ns[k], more[k])
    /\ \A k \in 1 .. Len(more) :
          k > Len(ns) /\ more[k].type = "file" => more[k].open = FALSE

LEMMA GrowsMore ==
    ASSUME NEW a, NEW b, NEW c, Tree(a), Tree(b), Tree(c), Grows(a, b), Grows(b, c)
    PROVE  Grows(a, c)
<1>1. /\ Len(a) \in Nat /\ Len(b) \in Nat /\ Len(c) \in Nat
      /\ Len(a) =< Len(b) /\ Len(b) =< Len(c)
  BY LenProperties DEF Tree, Grows
<1>2. ASSUME NEW k \in 1 .. Len(a) PROVE Grown(a[k], c[k])
  <2>1. k \in 1 .. Len(b) /\ k \in 1 .. Len(c)
    BY <1>1
  <2>2. Grown(a[k], b[k]) /\ Grown(b[k], c[k])
    BY <2>1 DEF Grows
  <2>3. CASE a[k].type # "folder"
    BY <2>2, <2>3 DEF Grown
  <2>4. CASE a[k].type = "folder"
    <3>1. b[k].type = "folder" /\ c[k].type = "folder"
      BY <2>2, <2>4 DEF Grown
    <3>2. /\ a[k].children \in Seq(Nat) /\ b[k].children \in Seq(Nat)
          /\ c[k].children \in Seq(Nat)
      BY <2>1, <2>4, <3>1 DEF Tree, FolderAt, FolderNode
    <3>3. /\ Len(a[k].children) \in Nat /\ Len(b[k].children) \in Nat
          /\ Len(c[k].children) \in Nat
      BY <3>2, LenProperties
    <3> QED BY <2>2, <2>4, <3>1, <3>3 DEF Grown
  <2> QED BY <2>3, <2>4
<1>3. ASSUME NEW k \in 1 .. Len(c), k > Len(a), c[k].type = "file"
      PROVE  c[k].open = FALSE
  <2>1. CASE k > Len(b)
    BY <1>3, <2>1 DEF Grows
  <2>2. CASE ~(k > Len(b))
    <3>1. k \in 1 .. Len(b)
      BY <1>1, <2>2
    <3>2. Grown(b[k], c[k])
      BY <3>1 DEF Grows
    <3>3. b[k] = c[k]
      BY <1>3, <3>2 DEF Grown
    <3> QED BY <1>3, <3>1, <3>3 DEF Grows
  <2> QED BY <2>1, <2>2
<1>4. Len(a) =< Len(c)
  BY <1>1
<1> QED BY <1>2, <1>3, <1>4 DEF Grows

LEMMA GrowsItself ==
    ASSUME NEW a, Tree(a)
    PROVE  Grows(a, a)
<1>1. Len(a) \in Nat
  BY LenProperties DEF Tree
<1>2. ASSUME NEW k \in 1 .. Len(a) PROVE Grown(a[k], a[k])
  <2>1. CASE a[k].type = "folder"
    <3>1. a[k].children \in Seq(Nat)
      BY <2>1 DEF Tree, FolderAt, FolderNode
    <3>2. Len(a[k].children) \in Nat
      BY <3>1, LenProperties
    <3> QED BY <3>2 DEF Grown
  <2>2. CASE a[k].type # "folder"
    BY <2>2 DEF Grown
  <2> QED BY <2>1, <2>2
<1> QED BY <1>1, <1>2 DEF Grows

(* A child that is added to a folder. *)
LEMMA ChildAdded ==
    ASSUME NEW ns, Tree(ns), NEW f \in 1 .. Len(ns), ns[f].type = "folder",
           NEW node \in FolderNode \cup FileNode,
           node.type = "folder" => /\ node.children = <<>> /\ node.cursor = None
                                   /\ node.path \in DOMAIN Listing
                                   /\ ListsDirectory(Listing[node.path]),
           node.type = "file" => node.open = FALSE
    PROVE  LET more == addChild(ns, f, node)
           IN  /\ Tree(more) /\ Grows(ns, more) /\ Len(more) = Len(ns) + 1
               /\ more[Len(ns) + 1] = node
               /\ more[f].children = Append(ns[f].children, Len(ns) + 1)
               /\ \A k \in (1 .. Len(ns)) \ {f} : more[k] = ns[k]
<1> DEFINE N == Len(ns)
           with == [ns EXCEPT ![f].children = Append(@, N + 1)]
           more == addChild(ns, f, node)
           S == FolderNode \cup FileNode
<1>1. ns \in Seq(S) /\ N \in Nat /\ N >= 1
  BY LenProperties DEF Tree
<1>2. ns[f] \in FolderNode /\ ns[f].children \in Seq(Nat)
  BY DEF Tree, FolderAt, FolderNode
<1>3. /\ Append(ns[f].children, N + 1) \in Seq(Nat)
      /\ Len(Append(ns[f].children, N + 1)) = Len(ns[f].children) + 1
      /\ Append(ns[f].children, N + 1)[Len(ns[f].children) + 1] = N + 1
      /\ \A j \in 1 .. Len(ns[f].children) :
            Append(ns[f].children, N + 1)[j] = ns[f].children[j]
  BY <1>1, <1>2, AppendProperties
<1>4. /\ with[f] = [ns[f] EXCEPT !.children = Append(@, N + 1)]
      /\ \A k \in (1 .. N) \ {f} : with[k] = ns[k]
      /\ with \in Seq(S) /\ Len(with) = N /\ with[f] \in FolderNode
  <2> DEFINE kids == Append(ns[f].children, N + 1)
             folder == [ns[f] EXCEPT !.children = kids]
  <2>1. folder \in FolderNode
    <3> HIDE DEF kids
    <3> QED BY <1>2, <1>3 DEF FolderNode, kids
  <2>2. with = [ns EXCEPT ![f] = folder]
    OBVIOUS
  <2> HIDE DEF folder, with, S
  <2>3. folder \in S
    BY <2>1 DEF S
  <2>4. with \in Seq(S) /\ Len(with) = N /\ with[f] = folder
        /\ \A k \in (1 .. N) \ {f} : with[k] = ns[k]
    BY <1>1, <2>2, <2>3, ExceptSeq
  <2> QED BY <2>1, <2>4 DEF folder
<1>5. with[f].children = Append(ns[f].children, N + 1)
  BY <1>2, <1>4 DEF FolderNode
<1>6. /\ more \in Seq(S) /\ Len(more) = N + 1 /\ more[N + 1] = node
      /\ \A k \in 1 .. N : more[k] = with[k]
  BY <1>1, <1>4, AppendProperties DEF addChild
<1>7. Grows(ns, more)
  <2>1. ASSUME NEW k \in 1 .. N PROVE Grown(ns[k], more[k])
    <3>1. CASE k = f
      <4>1. Len(ns[f].children) \in Nat
        BY <1>2, LenProperties
      <4> QED BY <1>2, <1>3, <1>4, <1>5, <1>6, <3>1, <4>1 DEF Grown, FolderNode
    <3>2. CASE k # f
      <4>1. Grown(ns[k], ns[k])
        BY GrowsItself DEF Grows
      <4> QED BY <1>4, <1>6, <3>2, <4>1
    <3> QED BY <3>1, <3>2
  <2>2. ASSUME NEW k \in 1 .. Len(more), k > N PROVE k = N + 1
    BY <1>1, <1>6, <2>2
  <2> HIDE DEF more
  <2> QED BY <1>1, <1>6, <2>1, <2>2 DEF Grows
<1>8. Tree(more)
  <2>1. Len(more) >= 1 /\ more[Root].type = "folder"
    <3>1. 1 \in 1 .. N /\ ns[1].type = "folder"
      BY <1>1 DEF Tree, Root
    <3>2. with[1].type = "folder"
      BY <1>4, <3>1 DEF FolderNode
    <3> HIDE DEF with, more
    <3> QED BY <1>1, <1>6, <3>1, <3>2 DEF Root
  <2>2. ASSUME NEW k \in 1 .. Len(more)
        PROVE  IF more[k].type = "folder" THEN FolderAt(more, k) ELSE more[k] \in FileNode
    <3>1. CASE k = N + 1
      <4>1. CASE node.type = "folder"
        <5>1. node \in FolderNode /\ DOMAIN node.children = {}
          BY <4>1 DEF FileNode
        <5>2. None =< Len(Listing[node.path])
          BY <4>1, LenProperties DEF ListsDirectory, None
        <5> QED BY <1>6, <3>1, <4>1, <5>1, <5>2 DEF FolderAt
      <4>2. CASE node.type # "folder"
        BY <1>6, <3>1, <4>2 DEF FolderNode
      <4> QED BY <4>1, <4>2
    <3>2. CASE k \in 1 .. N /\ k # f
      <4>1. more[k] = ns[k]
        BY <1>4, <1>6, <3>2
      <4>2. CASE ns[k].type = "folder"
        <5>1. FolderAt(ns, k)
          BY <3>2, <4>2 DEF Tree
        <5>2. \A c \in 2 .. N : c \in 2 .. Len(more)
          BY <1>1, <1>6
        <5> QED BY <4>1, <4>2, <5>1, <5>2 DEF FolderAt
      <4>3. CASE ns[k].type # "folder"
        BY <3>2, <4>1, <4>3 DEF Tree
      <4> QED BY <4>2, <4>3
    <3>3. CASE k = f
      <4>1. more[k] = with[f] /\ with[f] \in FolderNode
        BY <1>4, <1>6, <3>3
      <4>2. FolderAt(ns, f)
        BY DEF Tree
      <4>3. ASSUME NEW j \in DOMAIN with[f].children
            PROVE  with[f].children[j] \in 2 .. Len(more)
        <5>1. /\ DOMAIN with[f].children = 1 .. Len(ns[f].children) + 1
              /\ Len(ns[f].children) \in Nat
              /\ DOMAIN ns[f].children = 1 .. Len(ns[f].children)
          BY <1>2, <1>3, <1>5, LenProperties
        <5>2. CASE j = Len(ns[f].children) + 1
          BY <1>1, <1>3, <1>5, <1>6, <5>2
        <5>3. CASE j \in 1 .. Len(ns[f].children)
          <6>1. ns[f].children[j] \in 2 .. N
            BY <4>2, <5>1, <5>3 DEF FolderAt
          <6> QED BY <1>1, <1>3, <1>5, <1>6, <5>3, <6>1, SMTT(40)
        <5> QED BY <5>1, <5>2, <5>3
      <4>4. with[f].path = ns[f].path /\ with[f].cursor = ns[f].cursor
        BY <1>2, <1>4 DEF FolderNode
      <4>5. more[k].type = "folder"
        BY <4>1 DEF FolderNode
      <4>6. f # Root => /\ ns[f].path \in DOMAIN Listing
                        /\ ListsDirectory(Listing[ns[f].path])
                        /\ ns[f].cursor =< Len(Listing[ns[f].path])
        BY <4>2 DEF FolderAt
      <4> HIDE DEF with, more
      <4>7. FolderAt(more, k)
        BY <3>3, <4>1, <4>3, <4>4, <4>6 DEF FolderAt
      <4> QED BY <4>5, <4>7
    <3> QED BY <1>1, <1>6, <3>1, <3>2, <3>3
  <2> QED BY <1>6, <2>1, <2>2 DEF Tree
<1> QED BY <1>4, <1>5, <1>6, <1>7, <1>8

(* Looking a child up. *)

KnownIn(ns, f, name) ==
    {k \in DOMAIN ns[f].children : ns[ns[f].children[k]].name = name}

LEMMA FirstOf ==
    ASSUME NEW S \in SUBSET Nat, NEW x \in S
    PROVE  \E k \in S : \A j \in S : k =< j
<1>1. PICK k \in S : \A j \in S : ~(<<j, k>> \in OpToRel(<, Nat))
  BY NatLessThanWellFounded, WFMin
<1>2. \A j \in S : ~(j < k)
  BY <1>1 DEF OpToRel
<1> QED BY <1>2

LEMMA ChildFound ==
    ASSUME NEW ns, Tree(ns), NEW f \in 1 .. Len(ns), ns[f].type = "folder", NEW name
    PROVE  LET r == findChild(ns, f, name)
           IN  /\ Tree(r.nodes) /\ Grows(ns, r.nodes)
               /\ r.node = None \/ r.node \in 2 .. Len(r.nodes)
<1> DEFINE known == KnownIn(ns, f, name)
           first == CHOOSE k \in known : \A j \in known : k <= j
           hosts == IF ns[f].path = <<>> THEN {} ELSE OnDisk(ns[f].path, name)
           p == CHOOSE p \in hosts : TRUE
           node == IF Disk[p] = "folder" THEN Folder(p[Len(p)], p)
                   ELSE File(p[Len(p)], p)
           r == findChild(ns, f, name)
<1>1. FolderAt(ns, f) /\ Len(ns) \in Nat
  BY LenProperties DEF Tree
<1>2. r = CASE known # {} -> [nodes |-> ns, node |-> ns[f].children[first]]
            [] known = {} /\ hosts # {} ->
                  [nodes |-> addChild(ns, f, node), node |-> Len(ns) + 1]
            [] OTHER -> [nodes |-> ns, node |-> None]
  BY DEF findChild, KnownIn
<1>3. CASE known # {}
  <2>1. known \in SUBSET Nat
    <3>1. ns[f].children \in Seq(Nat)
      BY <1>1 DEF FolderAt, FolderNode
    <3>2. DOMAIN ns[f].children \subseteq Nat
      BY <3>1, LenProperties
    <3> QED BY <3>2 DEF KnownIn
  <2>2. first \in known
    BY <1>3, <2>1, FirstOf
  <2>3. ns[f].children[first] \in 2 .. Len(ns)
    BY <1>1, <2>2 DEF KnownIn, FolderAt
  <2> QED BY <1>2, <1>3, <2>3, GrowsItself
<1>4. CASE known = {} /\ hosts # {}
  <2>1. p \in hosts
    BY <1>4
  <2>2. p \in DOMAIN Disk
    BY <2>1 DEF OnDisk
  <2> HIDE DEF p
  <2>3. p[Len(p)] \in NodeNames /\ p \in Paths
    BY <2>2 DEF NodeNames, Paths
  <2>4. node \in FolderNode \cup FileNode
    BY <2>3, EmptySeq DEF Folder, File, FolderNode, FileNode, None
  <2>5. node.type = "folder" => /\ node.children = <<>> /\ node.cursor = None
                                /\ node.path \in DOMAIN Listing
                                /\ ListsDirectory(Listing[node.path])
    BY <2>2, FileAssumption DEF Folder, File
  <2>6. node.type = "file" => node.open = FALSE
    BY DEF Folder, File
  <2> HIDE DEF node, known, hosts
  <2>7. r = [nodes |-> addChild(ns, f, node), node |-> Len(ns) + 1]
    BY <1>2, <1>4
  <2>8. /\ Tree(addChild(ns, f, node)) /\ Grows(ns, addChild(ns, f, node))
        /\ Len(addChild(ns, f, node)) = Len(ns) + 1
    BY <2>4, <2>5, <2>6, ChildAdded
  <2>9. Len(ns) + 1 \in 2 .. Len(ns) + 1
    BY <1>1 DEF Tree
  <2> QED BY <2>7, <2>8, <2>9
<1>5. CASE known = {} /\ hosts = {}
  <2>1. r = [nodes |-> ns, node |-> None]
    BY <1>2, <1>5
  <2> QED BY <2>1, GrowsItself
<1> QED BY <1>3, <1>4, <1>5

(* The child that was found is found again, whatever became of the tree. *)
LEMMA ChildFoundAgain ==
    ASSUME NEW ns, Tree(ns), NEW f \in 1 .. Len(ns), ns[f].type = "folder", NEW name,
           findChild(ns, f, name).node # None,
           \A pair \in SameName : name # pair[1],
           NEW more, Tree(more), Grows(findChild(ns, f, name).nodes, more)
    PROVE  findChild(more, f, name)
              = [nodes |-> more, node |-> findChild(ns, f, name).node]
<1> DEFINE known == KnownIn(ns, f, name)
           again == KnownIn(more, f, name)
           first == CHOOSE k \in known : \A j \in known : k <= j
           second == CHOOSE k \in again : \A j \in again : k <= j
           hosts == IF ns[f].path = <<>> THEN {} ELSE OnDisk(ns[f].path, name)
           p == CHOOSE p \in hosts : TRUE
           node == IF Disk[p] = "folder" THEN Folder(p[Len(p)], p)
                   ELSE File(p[Len(p)], p)
           r == findChild(ns, f, name)
<1>1. /\ Tree(r.nodes) /\ Grows(ns, r.nodes) /\ Grows(ns, more)
      /\ FolderAt(ns, f) /\ Len(ns) \in Nat
  BY ChildFound, GrowsMore, LenProperties DEF Tree
<1>2. r = CASE known # {} -> [nodes |-> ns, node |-> ns[f].children[first]]
            [] known = {} /\ hosts # {} ->
                  [nodes |-> addChild(ns, f, node), node |-> Len(ns) + 1]
            [] OTHER -> [nodes |-> ns, node |-> None]
  BY DEF findChild, KnownIn
<1>3. again # {} => findChild(more, f, name) =
                       [nodes |-> more, node |-> more[f].children[second]]
  BY DEF findChild, KnownIn
<1>4. /\ f \in 1 .. Len(more) /\ more[f].type = "folder" /\ FolderAt(more, f)
      /\ Len(ns[f].children) =< Len(more[f].children)
      /\ \A j \in 1 .. Len(ns[f].children) : more[f].children[j] = ns[f].children[j]
  <2>1. f \in 1 .. Len(more) /\ Grown(ns[f], more[f])
    <3>1. Len(more) \in Nat /\ Len(ns) =< Len(more)
      BY <1>1, LenProperties DEF Tree, Grows
    <3> QED BY <1>1, <3>1 DEF Grows
  <2> QED BY <2>1 DEF Grown, Tree
<1>5. /\ ns[f].children \in Seq(Nat) /\ more[f].children \in Seq(Nat)
      /\ Len(ns[f].children) \in Nat /\ Len(more[f].children) \in Nat
      /\ DOMAIN ns[f].children = 1 .. Len(ns[f].children)
      /\ DOMAIN more[f].children = 1 .. Len(more[f].children)
  BY <1>1, <1>4, LenProperties DEF FolderAt, FolderNode
<1>6. again \in SUBSET Nat
  BY <1>5 DEF KnownIn
\* A node keeps its name.
<1>7. \A k \in 1 .. Len(ns) : more[k].name = ns[k].name
  BY <1>1 DEF Grows, Grown
\* Its place among the children of the folder, and no place before it.
<1>8. \A j \in 1 .. Len(ns[f].children) : j \in known <=> j \in again
  <2> TAKE j \in 1 .. Len(ns[f].children)
  <2>1. ns[f].children[j] \in 1 .. Len(ns)
    <3>1. ns[f].children[j] \in 2 .. Len(ns)
      BY <1>1, <1>5 DEF FolderAt
    <3> QED BY <1>1, <3>1
  <2>2. j \in DOMAIN ns[f].children /\ j \in DOMAIN more[f].children
    BY <1>4, <1>5
  <2> QED BY <1>4, <1>7, <2>1, <2>2 DEF KnownIn
<1>9. CASE known # {}
  <2>1. known \in SUBSET Nat /\ known \subseteq 1 .. Len(ns[f].children)
    BY <1>5 DEF KnownIn
  <2>2. first \in known /\ \A j \in known : first =< j
    BY <1>9, <2>1, FirstOf
  <2>3. first \in again /\ first \in 1 .. Len(ns[f].children)
    BY <1>8, <2>1, <2>2
  <2>4. second \in again /\ \A j \in again : second =< j
    BY <1>6, <2>3, FirstOf
  <2> HIDE DEF first, second, known, again
  <2>5. second = first
    <3>1. second =< first /\ second \in Nat /\ first \in Nat
      BY <1>6, <2>1, <2>2, <2>3, <2>4
    <3>2. second \in 1 .. Len(ns[f].children)
      <4>1. again \subseteq 1 .. Len(more[f].children)
        BY <1>5 DEF again, KnownIn
      <4> QED BY <1>5, <2>3, <2>4, <3>1, <4>1
    <3>3. second \in known
      BY <1>8, <2>4, <3>2
    <3> QED BY <2>2, <3>1, <3>3
  <2>6. findChild(more, f, name) = [nodes |-> more, node |-> ns[f].children[first]]
    BY <1>3, <1>4, <2>3, <2>5
  <2>7. r.node = ns[f].children[first]
    BY <1>2, <1>9
  <2> QED BY <2>6, <2>7
<1>10. CASE known = {} /\ hosts # {}
  <2> DEFINE N == Len(ns)
             n == Len(ns[f].children)
             kids == r.nodes[f].children
  <2>1. p \in hosts
    BY <1>10
  <2>2. p \in DOMAIN Disk /\ p[Len(p)] = name
    BY <2>1 DEF OnDisk
  <2> HIDE DEF p
  <2>3. p[Len(p)] \in NodeNames /\ p \in Paths
    BY <2>2 DEF NodeNames, Paths
  <2>4. node \in FolderNode \cup FileNode /\ node.name = name
    BY <2>2, <2>3, EmptySeq DEF Folder, File, FolderNode, FileNode, None
  <2>5. node.type = "folder" => /\ node.children = <<>> /\ node.cursor = None
                                /\ node.path \in DOMAIN Listing
                                /\ ListsDirectory(Listing[node.path])
    BY <2>2, FileAssumption DEF Folder, File
  <2>6. node.type = "file" => node.open = FALSE
    BY DEF Folder, File
  <2> HIDE DEF node, hosts
  <2>7. r.nodes = addChild(ns, f, node) /\ r.node = N + 1
    <3> HIDE DEF known
    <3> QED BY <1>2, <1>10
  <2>8. /\ Len(r.nodes) = N + 1 /\ r.nodes[N + 1] = node
        /\ kids = Append(ns[f].children, N + 1)
    <3> DEFINE grown == addChild(ns, f, node)
    <3>1. /\ Len(grown) = N + 1 /\ grown[N + 1] = node
          /\ grown[f].children = Append(ns[f].children, N + 1)
      BY <2>4, <2>5, <2>6, ChildAdded, ZenonT(60)
    <3> QED BY <2>7, <3>1
  <2>9. Len(kids) = n + 1 /\ kids[n + 1] = N + 1 /\ n \in Nat
    BY <1>1, <1>5, <2>8, AppendProperties
  <2>10. Grown(r.nodes[f], more[f]) /\ Grown(r.nodes[N + 1], more[N + 1])
    BY <1>1, <2>8 DEF Grows
  <2>11. r.nodes[f].type = "folder"
    BY <1>1 DEF Grows, Grown
  <2>12. n + 1 =< Len(more[f].children) /\ more[f].children[n + 1] = N + 1
    <3>1. /\ Len(kids) =< Len(more[f].children)
          /\ \A j \in 1 .. Len(kids) : more[f].children[j] = kids[j]
      BY <2>10, <2>11 DEF Grown
    <3>2. n + 1 \in 1 .. Len(kids)
      BY <2>9
    <3> HIDE DEF kids, r
    <3> QED BY <2>9, <3>1, <3>2
  <2>13. more[N + 1].name = name
    BY <2>4, <2>8, <2>10 DEF Grown
  <2>14. n + 1 \in again
    <3>1. n + 1 \in DOMAIN more[f].children
      BY <1>5, <2>9, <2>12
    <3> QED BY <2>12, <2>13, <3>1 DEF KnownIn
  <2>15. second \in again /\ \A j \in again : second =< j
    BY <1>6, <2>14, FirstOf
  <2> HIDE DEF second, again, n
  <2>16. second = n + 1
    <3>1. second =< n + 1 /\ second \in Nat
      BY <1>6, <2>14, <2>15
    <3>2. second \in 1 .. Len(more[f].children)
      BY <1>5, <2>15 DEF again, KnownIn
    <3>3. second \notin 1 .. n
      BY <1>8, <1>10, <2>15 DEF n
    <3> QED BY <2>9, <3>1, <3>2, <3>3
  <2> QED BY <1>3, <2>7, <2>12, <2>14, <2>16
<1>11. CASE known = {} /\ hosts = {}
  BY <1>2, <1>11
<1> QED BY <1>9, <1>10, <1>11

LEMMA NoChild ==
    ASSUME NEW ns, Tree(ns), NEW f \in 1 .. Len(ns), ns[f].type = "folder", NEW name,
           findChild(ns, f, name).node = None
    PROVE  findChild(ns, f, name).nodes = ns
<1> DEFINE known == KnownIn(ns, f, name)
           first == CHOOSE k \in known : \A j \in known : k <= j
           hosts == IF ns[f].path = <<>> THEN {} ELSE OnDisk(ns[f].path, name)
           r == findChild(ns, f, name)
<1>1. FolderAt(ns, f) /\ Len(ns) \in Nat
  BY LenProperties DEF Tree
<1>2. \/ r.nodes = ns
      \/ known = {} /\ hosts # {} /\ r.node = Len(ns) + 1
  BY DEF findChild, KnownIn
<1>3. Len(ns) + 1 # None
  BY <1>1 DEF None
<1> QED BY <1>2, <1>3

(* Walking down a path: w is where each name of it leads. *)

Start(ns, path) == [nodes |-> ns, node |-> IF path[1] = "/" THEN Root ELSE None]

Down(before, name) ==
    IF before.node = None THEN before
    ELSE IF before.nodes[before.node].type # "folder" THEN [before EXCEPT !.node = None]
    ELSE findChild(before.nodes, before.node, name)

Walked(ns, path, w) ==
    /\ w[1] = Start(ns, path)
    /\ \A n \in 2 .. Len(path) : w[n] = Down(w[n - 1], path[n])
    /\ findNode(ns, path) = w[Len(path)]

LEMMA PathWalked ==
    ASSUME NEW ns, NEW path \in Seq(STRING), path # <<>>
    PROVE  \E w : Walked(ns, path, w)
<1> DEFINE L == Len(path)
           Walk(w, n) == w = [k \in 1 .. n |-> IF k = 1 THEN Start(ns, path)
                                               ELSE Down(w[k - 1], path[k])]
           walk == CHOOSE w : Walk(w, L)
           bad == {n \in 1 .. L : ~\E w : Walk(w, n)}
<1>1. L \in Nat /\ L >= 1
  BY EmptySeq, LenProperties
<1>2. findNode(ns, path) = walk[L]
  BY DEF findNode, Down, Start
<1>3. \E w : Walk(w, L)
  <2> SUFFICES ASSUME ~\E w : Walk(w, L) PROVE FALSE
    OBVIOUS
  <2>1. L \in bad /\ bad \in SUBSET Nat
    BY <1>1
  <2>2. PICK n \in bad : \A j \in bad : n =< j
    BY <2>1, FirstOf
  <2>3. CASE n = 1
    <3>1. Walk([k \in 1 .. 1 |-> Start(ns, path)], 1)
      OBVIOUS
    <3> QED BY <2>2, <2>3, <3>1
  <2>4. CASE n # 1
    <3>1. n \in Nat /\ n >= 2 /\ n - 1 \in 1 .. L /\ n - 1 \notin bad
      BY <1>1, <2>2, <2>4, SMTT(40)
    <3>2. PICK v : Walk(v, n - 1)
      BY <3>1
    <3> DEFINE w == [k \in 1 .. n |-> IF k < n THEN v[k] ELSE Down(v[n - 1], path[n])]
    <3>3. Walk(w, n)
      <4>1. ASSUME NEW k \in 1 .. n
            PROVE  w[k] = IF k = 1 THEN Start(ns, path) ELSE Down(w[k - 1], path[k])
        <5>1. CASE k = 1
          <6>1. v[1] = Start(ns, path)
            BY <3>1, <3>2
          <6> QED BY <3>1, <5>1, <6>1
        <5>2. CASE k # 1 /\ k < n
          <6>1. k \in 1 .. n - 1 /\ k - 1 \in 1 .. n /\ k - 1 < n
            BY <3>1, <5>2
          <6>2. v[k] = Down(v[k - 1], path[k])
            BY <3>2, <5>2, <6>1
          <6> QED BY <5>2, <6>1, <6>2
        <5>3. CASE k # 1 /\ k = n
          <6>1. n - 1 \in 1 .. n /\ n - 1 < n /\ n \in 1 .. n /\ ~(n < n)
            BY <3>1
          <6> QED BY <5>3, <6>1
        <5> QED BY <3>1, <5>1, <5>2, <5>3
      <4> HIDE DEF w
      <4>2. w = [k \in 1 .. n |-> w[k]]
        BY DEF w
      <4> QED BY <4>1, <4>2
    <3> HIDE DEF w
    <3> QED BY <2>2, <3>3
  <2> QED BY <2>3, <2>4
<1>4. Walk(walk, L)
  BY <1>3
<1> HIDE DEF walk
<1>5. Walked(ns, path, walk)
  <2>1. walk[1] = Start(ns, path)
    BY <1>1, <1>4
  <2>2. ASSUME NEW n \in 2 .. L PROVE walk[n] = Down(walk[n - 1], path[n])
    <3>1. n \in 1 .. L /\ n # 1
      BY <1>1
    <3> QED BY <1>4, <3>1
  <2> QED BY <1>2, <2>1, <2>2 DEF Walked
<1> QED BY <1>5

\* Where a walk has come to.
WalkPlace(s) ==
    /\ s = [nodes |-> s.nodes, node |-> s.node]
    /\ Tree(s.nodes)
    /\ s.node = None \/ s.node \in 1 .. Len(s.nodes)

LEMMA DownKeeps ==
    ASSUME NEW s, WalkPlace(s), NEW name
    PROVE  /\ WalkPlace(Down(s, name)) /\ Grows(s.nodes, Down(s, name).nodes)
           /\ s.node = None => Down(s, name) = s
           /\ Down(s, name).node # Root
<1>1. Len(s.nodes) \in Nat /\ Tree(s.nodes) /\ Root # None /\ Root \notin 2 .. Len(s.nodes)
  BY LenProperties DEF WalkPlace, Tree, Root, None
<1>2. CASE s.node = None
  BY <1>1, <1>2, GrowsItself DEF Down
<1>3. CASE s.node # None /\ s.nodes[s.node].type # "folder"
  <2>1. Down(s, name) = [nodes |-> s.nodes, node |-> None]
    BY <1>3 DEF Down, WalkPlace
  <2> QED BY <1>1, <1>3, <2>1, GrowsItself DEF WalkPlace
<1>4. CASE s.node # None /\ s.nodes[s.node].type = "folder"
  <2> DEFINE r == findChild(s.nodes, s.node, name)
  <2>1. Down(s, name) = r
    BY <1>4 DEF Down
  <2>2. /\ Tree(r.nodes) /\ Grows(s.nodes, r.nodes)
        /\ r.node = None \/ r.node \in 2 .. Len(r.nodes)
    BY <1>1, <1>4, ChildFound DEF WalkPlace
  <2>3. r = [nodes |-> r.nodes, node |-> r.node]
    BY DEF findChild
  <2>4. Len(r.nodes) \in Nat
    BY <2>2, LenProperties DEF Tree
  <2> HIDE DEF r
  <2>5. r.node # Root /\ (r.node = None \/ r.node \in 1 .. Len(r.nodes))
    BY <2>2, <2>4 DEF Root, None
  <2> QED BY <1>4, <2>1, <2>2, <2>3, <2>5 DEF WalkPlace
<1> QED BY <1>2, <1>3, <1>4

Later(s, t) == Grows(s.nodes, t.nodes) /\ (s.node = None => t = s)

LEMMA WalkKeeps ==
    ASSUME NEW ns, Tree(ns), NEW path \in Seq(STRING), path # <<>>,
           NEW w, Walked(ns, path, w)
    PROVE  \A n \in 1 .. Len(path) :
              /\ WalkPlace(w[n]) /\ (n > 1 => w[n].node # Root)
              /\ \A m \in 1 .. n : Later(w[m], w[n])
<1> DEFINE L == Len(path)
           Rooted(n) == /\ WalkPlace(w[n]) /\ (n > 1 => w[n].node # Root)
                      /\ \A m \in 1 .. n : Later(w[m], w[n])
           bad == {n \in 1 .. L : ~Rooted(n)}
<1>1. L \in Nat /\ L >= 1
  BY EmptySeq, LenProperties
<1>2. ASSUME NEW s, WalkPlace(s) PROVE Later(s, s)
  BY <1>2, GrowsItself DEF Later, WalkPlace
<1> SUFFICES ASSUME bad # {} PROVE FALSE
  OBVIOUS
<1>3. bad \in SUBSET Nat
  BY <1>1
<1>4. PICK n \in bad : \A j \in bad : n =< j
  BY <1>3, FirstOf
<1>5. CASE n = 1
  <2>1. WalkPlace(w[1])
    <3>1. Len(ns) >= 1 /\ Len(ns) \in Nat
      BY LenProperties DEF Tree
    <3>2. w[1] = Start(ns, path)
      BY DEF Walked
    <3> QED BY <3>1, <3>2 DEF Start, WalkPlace, Root, None
  <2>2. \A m \in 1 .. 1 : m = 1
    OBVIOUS
  <2>3. Rooted(1)
    BY <1>2, <2>1, <2>2
  <2> QED BY <1>4, <1>5, <2>3
<1>6. CASE n # 1
  <2>1. n \in 2 .. L /\ n - 1 \in 1 .. L /\ n - 1 \notin bad /\ n \in Nat
    BY <1>1, <1>4, <1>6
  <2>2. WalkPlace(w[n - 1]) /\ \A m \in 1 .. n - 1 : Later(w[m], w[n - 1])
    BY <2>1
  <2>3. w[n] = Down(w[n - 1], path[n])
    BY <2>1 DEF Walked
  <2>4. /\ WalkPlace(w[n]) /\ Grows(w[n - 1].nodes, w[n].nodes) /\ w[n].node # Root
        /\ w[n - 1].node = None => w[n] = w[n - 1]
    BY <2>2, <2>3, DownKeeps
  <2>5. ASSUME NEW m \in 1 .. n PROVE Later(w[m], w[n])
    <3>1. CASE m = n
      BY <1>2, <2>4, <3>1
    <3>2. CASE m # n
      <4>1. m \in 1 .. n - 1 /\ m \in 1 .. L /\ m < n
        BY <2>1, <3>2
      <4>2. m \notin bad
        BY <1>4, <2>1, <4>1
      <4>3. WalkPlace(w[m]) /\ Later(w[m], w[n - 1])
        BY <2>2, <4>1, <4>2
      <4> QED BY <2>2, <2>4, <4>3, GrowsMore DEF Later, WalkPlace
    <3> QED BY <3>1, <3>2
  <2>6. Rooted(n)
    BY <2>4, <2>5
  <2> QED BY <1>4, <2>6
<1> QED BY <1>5, <1>6

LEMMA NodeFound ==
    ASSUME NEW ns, Tree(ns), NEW path \in Seq(STRING) \ {<<>>, <<"/">>}
    PROVE  LET found == findNode(ns, path)
           IN  /\ Tree(found.nodes) /\ Grows(ns, found.nodes)
               /\ found.node = None \/ found.node \in 2 .. Len(found.nodes)
<1>1. PICK w : Walked(ns, path, w)
  BY PathWalked
<1> DEFINE L == Len(path)
<1>2. L \in Nat /\ L >= 1 /\ 1 \in 1 .. L /\ L \in 1 .. L
  BY EmptySeq, LenProperties
<1>3. WalkPlace(w[L]) /\ (L > 1 => w[L].node # Root) /\ Later(w[1], w[L])
  BY <1>1, <1>2, WalkKeeps
<1>4. findNode(ns, path) = w[L] /\ w[1] = Start(ns, path)
  BY <1>1 DEF Walked
<1>5. Tree(w[L].nodes) /\ Grows(ns, w[L].nodes) /\ Len(w[L].nodes) \in Nat
  <2>1. Tree(w[L].nodes)
    BY <1>3 DEF WalkPlace
  <2>2. w[1].nodes = ns
    BY <1>4 DEF Start
  <2>3. Grows(ns, w[L].nodes)
    BY <1>3, <2>2 DEF Later
  <2>4. Len(w[L].nodes) \in Nat
    BY <2>1, LenProperties DEF Tree
  <2> QED BY <2>1, <2>3, <2>4
<1>6. CASE L > 1
  <2>1. w[L].node # 1 /\ (w[L].node = None \/ w[L].node \in 1 .. Len(w[L].nodes))
    BY <1>3, <1>6 DEF WalkPlace, Root
  <2>2. w[L].node = None \/ w[L].node \in 2 .. Len(w[L].nodes)
    BY <1>5, <2>1
  <2> QED BY <1>4, <1>5, <2>2
<1>7. CASE L = 1
  <2>1. path[1] # "/"
    <3> SUFFICES ASSUME path[1] = "/" PROVE FALSE
      OBVIOUS
    <3>1. path = <<"/">>
      BY <1>7
    <3> QED BY <3>1
  <2> QED BY <1>4, <1>5, <1>7, <2>1 DEF Start
<1>8. L > 1 \/ L = 1
  BY <1>2
<1> HIDE DEF L
<1> QED BY <1>4, <1>5, <1>6, <1>7, <1>8

(* A path that was walked leads to the same node again. *)
LEMMA NodeFoundAgain ==
    ASSUME NEW ns, Tree(ns), NEW path \in Seq(STRING) \ {<<>>, <<"/">>},
           \A k \in DOMAIN path : \A pair \in SameName : path[k] # pair[1]
    PROVE  findNode(findNode(ns, path).nodes, path) = findNode(ns, path)
<1> DEFINE L == Len(path)
           all == findNode(ns, path).nodes
<1>1. L \in Nat /\ L >= 1 /\ 1 \in 1 .. L /\ L \in 1 .. L /\ DOMAIN path = 1 .. L
  BY EmptySeq, LenProperties
<1>2. PICK w : Walked(ns, path, w)
  BY PathWalked
<1>3. PICK v : Walked(all, path, v)
  BY PathWalked
<1>4. all = w[L].nodes /\ Tree(all)
  BY <1>2, NodeFound DEF Walked
<1> DEFINE Same(n) == v[n] = [nodes |-> all, node |-> w[n].node]
           bad == {n \in 1 .. L : ~Same(n)}
<1>5. ASSUME NEW n \in 1 .. L PROVE WalkPlace(w[n]) /\ Later(w[n], w[L])
  BY <1>1, <1>2, WalkKeeps
<1>6. bad = {}
  <2> SUFFICES ASSUME bad # {} PROVE FALSE
    OBVIOUS
  <2>1. bad \in SUBSET Nat
    BY <1>1
  <2>2. PICK n \in bad : \A j \in bad : n =< j
    BY <2>1, FirstOf
  <2>3. CASE n = 1
    <3>1. v[1] = Start(all, path) /\ w[1] = Start(ns, path)
      BY <1>2, <1>3 DEF Walked
    <3>2. Same(1)
      BY <3>1 DEF Start
    <3> QED BY <2>2, <2>3, <3>2
  <2>4. CASE n # 1
    <3>1. n \in 2 .. L /\ n - 1 \in 1 .. L /\ n - 1 \notin bad /\ n \in 1 .. L
      BY <1>1, <2>2, <2>4
    <3>2. v[n - 1] = [nodes |-> all, node |-> w[n - 1].node]
      BY <3>1
    <3>3. w[n] = Down(w[n - 1], path[n]) /\ v[n] = Down(v[n - 1], path[n])
      BY <1>2, <1>3, <3>1 DEF Walked
    <3>4. WalkPlace(w[n - 1]) /\ WalkPlace(w[n]) /\ Later(w[n], w[L])
      BY <1>5, <3>1
    <3> DEFINE s == w[n - 1]
               name == path[n]
    <3>5. \A pair \in SameName : name # pair[1]
      BY <1>1, <3>1
    <3>6. CASE w[n].node # None
      <4>1. s.node # None /\ s.nodes[s.node].type = "folder"
            /\ w[n] = findChild(s.nodes, s.node, name)
        <5>1. s.node # None
          BY <3>3, <3>6 DEF Down
        <5>2. s.nodes[s.node].type = "folder"
          BY <3>3, <3>4, <3>6, <5>1 DEF Down, WalkPlace
        <5> QED BY <3>3, <5>1, <5>2 DEF Down
      <4>2. Tree(s.nodes) /\ s.node \in 1 .. Len(s.nodes)
        BY <3>4, <4>1 DEF WalkPlace
      <4>3. Grows(w[n].nodes, all)
        BY <1>4, <3>4 DEF Later
      <4> HIDE DEF s, name, all
      <4>4. findChild(all, s.node, name) = [nodes |-> all, node |-> w[n].node]
        BY <1>4, <3>5, <3>6, <4>1, <4>2, <4>3, ChildFoundAgain
      <4>5. all[s.node].type = "folder"
        <5>1. Grows(s.nodes, all)
          BY <1>4, <1>5, <3>1 DEF Later, s
        <5> QED BY <4>1, <4>2, <5>1 DEF Grows, Grown
      <4>6. Down([nodes |-> all, node |-> s.node], name) = [nodes |-> all, node |-> w[n].node]
        BY <4>1, <4>4, <4>5 DEF Down
      <4>7. Same(n)
        BY <3>2, <3>3, <4>6 DEF s, name
      <4> QED BY <2>2, <4>7
    <3>7. CASE w[n].node = None
      <4>1. w[L] = w[n]
        BY <3>4, <3>7 DEF Later
      <4>2. CASE s.node = None
        <5>1. v[n] = v[n - 1]
          BY <3>2, <3>3, <4>2 DEF Down
        <5>2. Same(n)
          BY <3>2, <3>7, <4>2, <5>1
        <5> QED BY <2>2, <5>2
      <4>3. CASE s.node # None
        <5>1. w[n].nodes = s.nodes
          <6>1. CASE s.nodes[s.node].type # "folder"
            BY <3>3, <4>3, <6>1 DEF Down
          <6>2. CASE s.nodes[s.node].type = "folder"
            <7>1. Tree(s.nodes) /\ s.node \in 1 .. Len(s.nodes) /\ Len(s.nodes) \in Nat
              BY <3>4, <4>3, LenProperties DEF WalkPlace, Tree
            <7>2. w[n] = findChild(s.nodes, s.node, name)
              BY <3>3, <4>3, <6>2 DEF Down
            <7> HIDE DEF s, name
            <7>3. findChild(s.nodes, s.node, name).node = None
                  => findChild(s.nodes, s.node, name).nodes = s.nodes
              BY <6>2, <7>1, NoChild
            <7> QED BY <3>7, <7>2, <7>3
          <6> QED BY <6>1, <6>2
        <5>2. s = [nodes |-> all, node |-> s.node]
          BY <1>4, <3>4, <4>1, <5>1 DEF WalkPlace
        <5>3. v[n] = w[n]
          BY <3>2, <3>3, <5>2
        <5>4. w[n] = [nodes |-> w[n].nodes, node |-> w[n].node]
          BY <3>4 DEF WalkPlace
        <5>5. Same(n)
          BY <1>4, <4>1, <5>3, <5>4
        <5> QED BY <2>2, <5>5
      <4> QED BY <4>2, <4>3
    <3> QED BY <3>6, <3>7
  <2> QED BY <2>3, <2>4
<1>7. v[L] = [nodes |-> all, node |-> w[L].node]
  BY <1>1, <1>6
<1>8. WalkPlace(w[L]) /\ findNode(all, path) = v[L] /\ findNode(ns, path) = w[L]
  BY <1>1, <1>2, <1>3, <1>5 DEF Walked
<1> QED BY <1>4, <1>7, <1>8 DEF WalkPlace

(* One node changes. *)
LEMMA NodeChanged ==
    ASSUME NEW ns, Tree(ns), NEW n \in 1 .. Len(ns), NEW x,
           \/ ns[n] \in FileNode /\ x \in FileNode
           \/ /\ ns[n].type = "folder" /\ n # Root
              /\ \E c \in 0 .. Len(Listing[ns[n].path]) : x = [ns[n] EXCEPT !.cursor = c]
    PROVE  /\ Tree([ns EXCEPT ![n] = x]) /\ Len([ns EXCEPT ![n] = x]) = Len(ns)
           /\ [ns EXCEPT ![n] = x][n] = x
           /\ \A k \in (1 .. Len(ns)) \ {n} : [ns EXCEPT ![n] = x][k] = ns[k]
<1> DEFINE S == FolderNode \cup FileNode
           after == [ns EXCEPT ![n] = x]
<1>1. ns \in Seq(S) /\ Len(ns) \in Nat /\ Len(ns) >= 1
  BY LenProperties DEF Tree
<1>2. x \in S /\ (x.type = "folder" <=> ns[n].type = "folder")
  <2>1. CASE ns[n].type = "folder" /\ \E c \in 0 .. Len(Listing[ns[n].path]) :
                                         x = [ns[n] EXCEPT !.cursor = c]
    <3>1. ns[n] \in FolderNode
      BY <2>1 DEF Tree, FolderAt
    <3> QED BY <2>1, <3>1, SMTT(40) DEF FolderNode
  <2>2. CASE ns[n] \in FileNode /\ x \in FileNode
    BY <2>2 DEF FileNode
  <2> QED BY <2>1, <2>2
<1> HIDE DEF S
<1>3. /\ after \in Seq(S) /\ Len(after) = Len(ns) /\ after[n] = x
      /\ \A k \in (1 .. Len(ns)) \ {n} : after[k] = ns[k]
  BY <1>1, <1>2, ExceptSeq
<1> HIDE DEF after
<1>4. ASSUME NEW k \in 1 .. Len(after)
      PROVE  IF after[k].type = "folder" THEN FolderAt(after, k) ELSE after[k] \in FileNode
  <2>1. CASE k # n
    BY <1>3, <2>1 DEF Tree, FolderAt
  <2>2. CASE k = n /\ ns[n] \in FileNode /\ x \in FileNode
    BY <1>3, <2>2 DEF FileNode
  <2>3. CASE k = n /\ ns[n].type = "folder" /\ n # Root
    <3>1. PICK c \in 0 .. Len(Listing[ns[n].path]) : x = [ns[n] EXCEPT !.cursor = c]
      BY <2>3 DEF FileNode
    <3>2. FolderAt(ns, n)
      BY <2>3 DEF Tree
    <3>3. ListsDirectory(Listing[ns[n].path])
      BY <2>3, <3>2 DEF FolderAt
    <3>4. c \in Nat /\ c =< Len(Listing[ns[n].path])
      BY <3>3, LenProperties DEF ListsDirectory
    <3>5. /\ x \in FolderNode /\ x.path = ns[n].path /\ x.children = ns[n].children
          /\ x.cursor = c
      BY <3>1, <3>2, <3>4 DEF FolderAt, FolderNode
    <3>6. FolderAt(after, k)
      BY <1>3, <2>3, <3>2, <3>4, <3>5 DEF FolderAt
    <3>7. after[k].type = "folder"
      BY <1>2, <1>3, <2>3
    <3> QED BY <3>6, <3>7
  <2> QED BY <2>1, <2>2, <2>3
<1>5. after[Root].type = "folder"
  <2>1. Root \in 1 .. Len(ns) /\ ns[Root].type = "folder"
    BY <1>1 DEF Root, Tree
  <2> QED BY <1>2, <1>3, <2>1
<1>6. Tree(after)
  BY <1>1, <1>3, <1>4, <1>5 DEF Tree, S
<1> QED BY <1>3, <1>6 DEF after

(* The next entry of a directory. *)
LEMMA EntryRead ==
    ASSUME NEW lst, ListsDirectory(lst), NEW c \in 0 .. Len(lst)
    PROVE  LET r == ReadEntry(lst, c)
               next == IF c < Len(lst) THEN c + 1 ELSE None
           IN  /\ r.cursor \in 0 .. Len(lst) /\ r.found \in BOOLEAN
               /\ r.found = TRUE => r.entry \in STRING
               /\ c = None => r.found = FALSE /\ r.cursor = None
               /\ c = 1 => IF Len(lst) = 2 THEN r.found = FALSE /\ r.cursor = None
                           ELSE r.found = TRUE /\ r.entry = lst[2] /\ r.cursor = 3
               /\ c >= 3 => r.found = TRUE /\ r.entry = lst[c] /\ r.cursor = next
<1> DEFINE n == Len(lst)
           End == [cursor |-> None, found |-> FALSE, entry |-> ""]
           Next1(k) == IF k < n THEN k + 1 ELSE None
           Data(k) == IF Next1(k) = None THEN lst[k] ELSE lst[Next1(k)]
           Is(f) == f = [k \in 0 .. n |->
                           IF k = None THEN End
                           ELSE IF Data(k) \notin {".", ".."}
                           THEN [cursor |-> Next1(k), found |-> TRUE, entry |-> lst[k]]
                           ELSE IF Next1(k) = None THEN End ELSE f[Next1(k)]]
           readAt == CHOOSE f : Is(f)
           g == [k \in 0 .. n |->
                   IF k = 0 \/ (k =< 2 /\ n = 2) THEN End
                   ELSE IF k = 1 THEN [cursor |-> 3, found |-> TRUE, entry |-> lst[2]]
                   ELSE [cursor |-> Next1(k), found |-> TRUE, entry |-> lst[k]]]
<1>1. /\ n \in Nat /\ n >= 2 /\ lst[1] = "." /\ lst[2] = ".."
      /\ \A k \in 1 .. n : lst[k] \in STRING
      /\ \A k \in 3 .. n : lst[k] \notin {".", ".."}
  BY LenProperties, ElementOfSeq DEF ListsDirectory
<1>2. ReadEntry(lst, c) = readAt[c]
  BY DEF ReadEntry
<1> HIDE DEF n
<1>3. /\ Data(1) = ".." /\ Next1(1) = 2
      /\ n = 2 => Data(2) = ".." /\ Next1(2) = None
      /\ \A k \in 2 .. n : n > 2 => Data(k) \notin {".", ".."}
      /\ \A k \in 1 .. n : Next1(k) \in 0 .. n
  BY <1>1 DEF None
<1>4. Is(g)
  <2>1. ASSUME NEW k \in 0 .. n
        PROVE  g[k] = IF k = None THEN End
                      ELSE IF Data(k) \notin {".", ".."}
                      THEN [cursor |-> Next1(k), found |-> TRUE, entry |-> lst[k]]
                      ELSE IF Next1(k) = None THEN End ELSE g[Next1(k)]
    <3> HIDE DEF Data, End
    <3>1. CASE k = 0
      BY <3>1 DEF None
    <3>2. CASE k = 1
      <4>1. 2 \in 0 .. n /\ 1 \in 0 .. n /\ Next1(1) # None /\ Next1(2) = IF n = 2 THEN None ELSE 3
        BY <1>1 DEF None
      <4>2. g[2] = IF n = 2 THEN End ELSE [cursor |-> 3, found |-> TRUE, entry |-> lst[2]]
        <5> HIDE DEF Next1
        <5>1. CASE n = 2
          BY <1>1, <4>1, <5>1
        <5>2. CASE n # 2
          <6>1. Next1(2) = 3 /\ ~(2 = 0 \/ (2 =< 2 /\ n = 2)) /\ 2 # 1
            BY <1>1, <4>1, <5>2
          <6> QED BY <4>1, <5>2, <6>1
        <5> QED BY <5>1, <5>2
      <4>3. g[1] = g[2]
        BY <1>1, <4>1, <4>2
      <4> QED BY <1>1, <1>3, <3>2, <4>1, <4>3 DEF None
    <3>3. CASE k # 0 /\ k # 1 /\ n = 2
      <4>1. k = 2
        BY <1>1, <3>3
      <4> QED BY <1>1, <1>3, <3>3, <4>1 DEF None
    <3>4. CASE k # 0 /\ k # 1 /\ n # 2
      <4>1. k \in 2 .. n /\ n > 2
        BY <1>1, <3>4
      <4>2. g[k] = [cursor |-> Next1(k), found |-> TRUE, entry |-> lst[k]]
        BY <3>4, <4>1
      <4> QED BY <1>3, <3>4, <4>1, <4>2 DEF None
    <3> QED BY <3>1, <3>2, <3>3, <3>4
  <2> HIDE DEF g, Data, Next1, End
  <2>2. g = [k \in 0 .. n |-> g[k]]
    BY DEF g
  <2> QED BY <2>1, <2>2
<1>5. Is(readAt)
  BY <1>4
<1> HIDE DEF readAt, g
<1>6. \A k \in 0 .. n : readAt[k] = IF k = None THEN End
                      ELSE IF Data(k) \notin {".", ".."}
                      THEN [cursor |-> Next1(k), found |-> TRUE, entry |-> lst[k]]
                      ELSE IF Next1(k) = None THEN End ELSE readAt[Next1(k)]
  BY <1>5
<1>7. End.cursor = None /\ End.found = FALSE
  OBVIOUS
<1> HIDE DEF Is, Data, Next1, End
<1>8. readAt[0] = End
  <2>1. 0 \in 0 .. n /\ 0 = None
    BY <1>1 DEF None
  <2> QED BY <1>6, <2>1
<1>9. \A k \in 2 .. n : n > 2 => readAt[k] = [cursor |-> Next1(k), found |-> TRUE, entry |-> lst[k]]
  <2> TAKE k \in 2 .. n
  <2>1. k \in 0 .. n /\ k # None
    BY <1>1 DEF None
  <2> QED BY <1>3, <1>6, <2>1
<1>10. n = 2 => readAt[2] = End
  BY <1>1, <1>3, <1>6 DEF None
<1>11. readAt[1] = readAt[2]
  <2>1. 1 \in 0 .. n /\ Next1(1) = 2 /\ 1 # None /\ 2 # None
    BY <1>1, <1>3 DEF None
  <2> QED BY <1>3, <1>6, <2>1
<1>12. n > 2 => readAt[2] = [cursor |-> 3, found |-> TRUE, entry |-> lst[2]]
  BY <1>1, <1>9 DEF Next1
<1>13. c = None \/ c = 1 \/ c = 2 \/ c \in 3 .. n
  BY <1>1 DEF n, None
<1>14. CASE c = None
  <2> DEFINE r == ReadEntry(lst, c)
  <2>1. r.cursor = None /\ r.found = FALSE
    BY <1>2, <1>8, <1>7, <1>14 DEF None
  <2>2. None \in 0 .. Len(lst) /\ None # 1 /\ ~(None >= 3)
    BY <1>1 DEF n, None
  <2> HIDE DEF r
  <2> QED BY <1>14, <2>1, <2>2 DEF r
<1>15. CASE c \in {1, 2}
  <2>1. n = 2 \/ n > 2
    BY <1>1
  <2>2. CASE n = 2
    <3>1. readAt[c] = End
      BY <1>10, <1>11, <1>15, <2>2
    <3> DEFINE r == ReadEntry(lst, c)
    <3>2. r.cursor = None /\ r.found = FALSE
      BY <1>2, <1>7, <3>1
    <3>3. None \in 0 .. Len(lst) /\ Len(lst) = 2 /\ c # None /\ ~(c >= 3)
      BY <1>1, <1>15, <2>2 DEF n, None
    <3> HIDE DEF r
    <3> QED BY <3>2, <3>3 DEF r
  <2>3. CASE n > 2
    <3>1. readAt[c] = [cursor |-> 3, found |-> TRUE, entry |-> lst[2]]
      BY <1>11, <1>12, <1>15, <2>3
    <3> QED BY <1>1, <1>2, <1>15, <2>3, <3>1 DEF n, None
  <2> QED BY <2>1, <2>2, <2>3
<1>16. CASE c \in 3 .. n
  <2>1. c \in 2 .. n /\ n > 2 /\ c \in 1 .. n
    BY <1>1, <1>16
  <2>2. readAt[c] = [cursor |-> Next1(c), found |-> TRUE, entry |-> lst[c]]
    BY <1>9, <2>1
  <2> QED BY <1>1, <1>2, <1>3, <1>16, <2>1, <2>2 DEF n, None, Next1
<1> QED BY <1>13, <1>14, <1>15, <1>16

(* Handles. *)

FileHandle == [handle : Nat, node : Nat, pos : Nat, sound : BOOLEAN]
DirHandle == [handle : Nat, node : Nat, got : Seq(STRING), ended : BOOLEAN,
              sound : BOOLEAN]

IsTable(t) == \E m \in Nat : t \in [0 .. m - 1 -> Nat]

\* The table t holds the handles hs, and nothing is expected of two that share
\* their node.
TableOf(t, hs) ==
    /\ IsTable(t)
    /\ \A h \in hs : h.handle \in DOMAIN t /\ t[h.handle] = h.node /\ h.node # None
    /\ \A k \in DOMAIN t : t[k] # None => \E h \in hs : h.handle = k
    /\ \A g, h \in hs : g.handle = h.handle => g = h
    /\ \A g, h \in hs : g.node = h.node /\ g # h => g.sound = FALSE

LEMMA LostFile ==
    ASSUME NEW h \in FileHandle
    PROVE  /\ Lost(h) \in FileHandle
           /\ Lost(h).handle = h.handle /\ Lost(h).node = h.node /\ Lost(h).sound = FALSE
<1>1. "pos" \in DOMAIN h
  BY DEF FileHandle
<1>2. Lost(h) = [h EXCEPT !.sound = FALSE, !.pos = 0]
  BY <1>1 DEF Lost
<1> DEFINE lost == [h EXCEPT !.sound = FALSE, !.pos = 0]
<1>3. lost.handle = h.handle /\ lost.node = h.node /\ lost.sound = FALSE
  BY DEF FileHandle
<1>4. lost \in FileHandle
  BY DEF FileHandle
<1> QED BY <1>2, <1>3, <1>4

LEMMA LostDir ==
    ASSUME NEW h \in DirHandle
    PROVE  /\ Lost(h) \in DirHandle
           /\ Lost(h).handle = h.handle /\ Lost(h).node = h.node /\ Lost(h).sound = FALSE
<1>1. "pos" \notin DOMAIN h
  BY DEF DirHandle
<1>2. Lost(h) = [h EXCEPT !.sound = FALSE, !.got = <<>>]
  BY <1>1 DEF Lost
<1> QED BY <1>2, EmptySeq DEF DirHandle

LEMMA SlotIsFree ==
    ASSUME NEW t, IsTable(t), NEW n \in Nat
    PROVE  /\ Slot(t) \in Nat
           /\ Slot(t) \in DOMAIN t => t[Slot(t)] = None
           /\ IsTable(AddTo(t, n))
<1> DEFINE free == {k \in DOMAIN t : k >= 1 /\ t[k] = None}
           slot == Slot(t)
<1>1. PICK m \in Nat : t \in [0 .. m - 1 -> Nat]
  BY DEF IsTable
<1>2. DOMAIN t = 0 .. m - 1
  BY <1>1
<1>3. Cardinality(DOMAIN t) = m
  BY <1>2, FS_Interval
<1>4. slot \in 0 .. m /\ (slot \in DOMAIN t => t[slot] = None)
  <2>1. CASE free = {}
    BY <1>2, <1>3, <2>1 DEF Slot
  <2>2. CASE free # {}
    <3>1. free \in SUBSET Nat
      BY <1>2
    <3>2. \E k \in free : \A j \in free : k =< j
      BY <2>2, <3>1, FirstOf
    <3>3. slot \in free
      BY <2>2, <3>2 DEF Slot
    <3> QED BY <1>2, <3>3
  <2> QED BY <2>1, <2>2
<1>5. AddTo(t, n) \in [DOMAIN t \cup {slot} -> Nat]
  BY <1>1 DEF AddTo
<1> HIDE DEF slot
<1>6. \E k \in Nat : DOMAIN t \cup {slot} = 0 .. k - 1
  <2>1. CASE slot = m
    <3> WITNESS m + 1 \in Nat
    <3> QED BY <1>2, <2>1
  <2>2. CASE slot # m
    <3> WITNESS m \in Nat
    <3> QED BY <1>2, <1>4, <2>2
  <2> QED BY <2>1, <2>2
<1>7. IsTable(AddTo(t, n))
  BY <1>5, <1>6 DEF IsTable
<1>8. slot \in Nat
  BY <1>4
<1> QED BY <1>4, <1>5, <1>7, <1>8 DEF slot

LEMMA HandleAdded ==
    ASSUME NEW t, NEW hs, TableOf(t, hs),
           \A h \in hs : /\ Lost(h).handle = h.handle /\ Lost(h).node = h.node
                         /\ Lost(h).sound = FALSE,
           NEW n \in Nat \ {None}, NEW new, new.handle = Slot(t), new.node = n,
           new.sound = \A h \in hs : h.node # n
    PROVE  TableOf(AddTo(t, n), Unsound(hs, n) \cup {new})
<1> DEFINE Left(h) == IF h.node = n THEN Lost(h) ELSE h
           all == Unsound(hs, n) \cup {new}
           u == AddTo(t, n)
<1>1. /\ Slot(t) \in Nat /\ (Slot(t) \in DOMAIN t => t[Slot(t)] = None)
      /\ IsTable(u)
      /\ DOMAIN u = DOMAIN t \cup {Slot(t)} /\ u[Slot(t)] = n
      /\ \A k \in DOMAIN t \ {Slot(t)} : u[k] = t[k]
  <2>1. n \in Nat
    OBVIOUS
  <2>2. IsTable(t)
    BY DEF TableOf
  <2> HIDE DEF u
  <2>3. u = AddTo(t, n)
    BY DEF u
  <2>4. Slot(t) \in Nat
    BY <2>2, SlotIsFree
  <2>5. Slot(t) \in DOMAIN t => t[Slot(t)] = None
    BY <2>2, SlotIsFree
  <2>6. IsTable(u)
    BY <2>1, <2>2, <2>3, SlotIsFree
  <2>7. DOMAIN u = DOMAIN t \cup {Slot(t)} /\ u[Slot(t)] = n
    BY <2>3 DEF AddTo
  <2>8. \A k \in DOMAIN t \ {Slot(t)} : u[k] = t[k]
    BY <2>3 DEF AddTo
  <2> QED BY <2>4, <2>5, <2>6, <2>7, <2>8
<1>2. \A h \in hs : /\ h.handle \in DOMAIN t /\ t[h.handle] = h.node /\ h.node # None
                    /\ h.handle # Slot(t)
  BY <1>1 DEF TableOf
<1>3. ASSUME NEW h \in hs
      PROVE  /\ Left(h).handle = h.handle /\ Left(h).node = h.node
             /\ h.node = n => Left(h).sound = FALSE
             /\ h.node # n => Left(h) = h
  OBVIOUS
<1>4. Unsound(hs, n) = {Left(h) : h \in hs}
  BY DEF Unsound
<1> HIDE DEF Left, u
<1>5. \A x \in all : x = new \/ \E h \in hs : x = Left(h)
  BY <1>4
<1>6. ASSUME NEW x \in all
      PROVE  x.handle \in DOMAIN u /\ u[x.handle] = x.node /\ x.node # None
  <2>1. CASE x = new
    BY <1>1, <2>1
  <2>2. CASE \E h \in hs : x = Left(h)
    <3>1. PICK h \in hs : x = Left(h)
      BY <2>2
    <3>2. x.handle = h.handle /\ x.node = h.node
      BY <1>3, <3>1
    <3> QED BY <1>1, <1>2, <3>2
  <2> QED BY <1>5, <2>1, <2>2
<1>7. ASSUME NEW k \in DOMAIN u, u[k] # None PROVE \E x \in all : x.handle = k
  <2>1. CASE k = Slot(t)
    BY <2>1
  <2>2. CASE k # Slot(t)
    <3>1. PICK h \in hs : h.handle = k
      BY <1>1, <1>7, <2>2 DEF TableOf
    <3>2. Left(h) \in all /\ Left(h).handle = k
      BY <1>3, <1>4, <3>1
    <3> QED BY <3>2
  <2> QED BY <2>1, <2>2
<1>8. ASSUME NEW x \in all, NEW y \in all, x.handle = y.handle PROVE x = y
  <2>1. CASE x = new /\ y = new
    BY <2>1
  <2>2. CASE \E g, h \in hs : x = Left(g) /\ y = Left(h)
    <3>1. PICK g \in hs, h \in hs : x = Left(g) /\ y = Left(h)
      BY <2>2
    <3>2. g.handle = h.handle
      BY <1>3, <1>8, <3>1
    <3>3. g = h
      BY <3>2 DEF TableOf
    <3> QED BY <3>1, <3>3
  <2>3. CASE \E h \in hs : x = Left(h) /\ y = new
    <3>1. PICK h \in hs : x = Left(h) /\ y = new
      BY <2>3
    <3>2. x.handle = h.handle
      BY <1>3, <3>1
    <3> QED BY <1>2, <1>8, <3>1, <3>2
  <2>4. CASE \E h \in hs : y = Left(h) /\ x = new
    <3>1. PICK h \in hs : y = Left(h) /\ x = new
      BY <2>4
    <3>2. y.handle = h.handle
      BY <1>3, <3>1
    <3> QED BY <1>2, <1>8, <3>1, <3>2
  <2> QED BY <1>5, <2>1, <2>2, <2>3, <2>4
<1>9. ASSUME NEW x \in all, NEW y \in all, x.node = y.node, x # y PROVE x.sound = FALSE
  <2>1. CASE \E h \in hs : x = Left(h)
    <3>1. PICK h \in hs : x = Left(h)
      BY <2>1
    <3>2. CASE h.node = n
      BY <1>3, <3>1, <3>2
    <3>3. CASE h.node # n
      <4>1. y # new
        BY <1>3, <1>9, <3>1, <3>3
      <4>2. PICK g \in hs : y = Left(g)
        BY <1>5, <4>1
      <4>3. x = h /\ y = g /\ g.node = h.node /\ g # h
        BY <1>3, <1>9, <3>1, <3>3, <4>2
      <4> QED BY <4>3 DEF TableOf
    <3> QED BY <3>2, <3>3
  <2>2. CASE x = new
    <3>1. PICK g \in hs : y = Left(g)
      BY <1>5, <1>9, <2>2
    <3>2. g.node = n
      BY <1>3, <1>9, <2>2, <3>1
    <3> QED BY <2>2, <3>2
  <2> QED BY <1>5, <2>1, <2>2
<1> HIDE DEF all
<1>10. TableOf(u, all)
  BY <1>1, <1>6, <1>7, <1>8, <1>9 DEF TableOf
<1> QED BY <1>10 DEF all, u

LEMMA HandleGone ==
    ASSUME NEW t, NEW hs, TableOf(t, hs), NEW h \in hs
    PROVE  TableOf([t EXCEPT ![h.handle] = None], hs \ {h})
<1> DEFINE u == [t EXCEPT ![h.handle] = None]
<1>1. PICK m \in Nat : t \in [0 .. m - 1 -> Nat]
  BY DEF TableOf, IsTable
<1>2. /\ u \in [0 .. m - 1 -> Nat] /\ DOMAIN u = DOMAIN t
      /\ h.handle \in DOMAIN t /\ u[h.handle] = None
      /\ \A k \in DOMAIN t \ {h.handle} : u[k] = t[k]
  BY <1>1 DEF TableOf, None
<1> HIDE DEF u
<1>3. \A g \in hs \ {h} : g.handle # h.handle
  BY DEF TableOf
<1>4. TableOf(u, hs \ {h})
  <2>1. \A g \in hs \ {h} : g.handle \in DOMAIN u /\ u[g.handle] = g.node /\ g.node # None
    BY <1>2, <1>3 DEF TableOf
  <2>2. \A k \in DOMAIN u : u[k] # None => \E g \in hs \ {h} : g.handle = k
    BY <1>2 DEF TableOf
  <2>3. IsTable(u)
    BY <1>2 DEF IsTable
  <2> QED BY <2>1, <2>2, <2>3 DEF TableOf
<1> QED BY <1>4 DEF u

LEMMA HandleChanged ==
    ASSUME NEW t, NEW hs, TableOf(t, hs), NEW h \in hs, NEW new,
           new.handle = h.handle, new.node = h.node, h.sound = FALSE => new.sound = FALSE
    PROVE  TableOf(t, (hs \ {h}) \cup {new})
<1> DEFINE all == (hs \ {h}) \cup {new}
<1>1. \A x \in all : x.handle \in DOMAIN t /\ t[x.handle] = x.node /\ x.node # None
  BY DEF TableOf
<1>2. \A k \in DOMAIN t : t[k] # None => \E x \in all : x.handle = k
  BY DEF TableOf
<1>3. \A x, y \in all : x.handle = y.handle => x = y
  BY DEF TableOf
<1>4. \A x, y \in all : x.node = y.node /\ x # y => x.sound = FALSE
  BY DEF TableOf
<1> QED BY <1>1, <1>2, <1>3, <1>4 DEF TableOf

(* The invariant. *)

\* What a handle expects of its file.
ReadsRight(ns, h) ==
    /\ h.node \in 1 .. Len(ns) /\ ns[h.node] \in FileNode
    /\ h.sound = TRUE => /\ ns[h.node].open = TRUE /\ ns[h.node].fail = FALSE
                         /\ ns[h.node].pos = h.pos

\* What was read of a listing when its search stands at c.
ReadSoFar(lst, c, got, ended) ==
    LET n == Len(lst)
    IN  IF ended = TRUE THEN got = IF n = 2 THEN <<>> ELSE SubSeq(lst, 2, n)
        ELSE \/ c = 1 /\ got = <<>>
             \/ c \in 3 .. n /\ got = SubSeq(lst, 2, c - 1)
             \/ c = None /\ n > 2 /\ got = SubSeq(lst, 2, n)

ListsRight(ns, h) ==
    /\ h.node \in 2 .. Len(ns) /\ ns[h.node].type = "folder"
    /\ h.sound = TRUE =>
          ReadSoFar(Listing[ns[h.node].path], ns[h.node].cursor, h.got, h.ended)

\* The nodes in N are those of the open files, or more.
OpenAmong(ns, N) ==
    \A k \in 1 .. Len(ns) : ns[k].type = "file" /\ ns[k].open = TRUE => k \in N

FilesInv ==
    /\ Tree(nodes)
    /\ held \subseteq FileHandle /\ heldDirs \subseteq DirHandle
    /\ TableOf(mOpenFiles, held) /\ TableOf(mOpenFolders, heldDirs)
    /\ \A h \in held : ReadsRight(nodes, h)
    /\ \A h \in heldDirs : ListsRight(nodes, h)
    /\ OpenAmong(nodes, {h.node : h \in held})

LEMMA StreamKeeps ==
    ASSUME NEW f \in FileNode
    PROVE  /\ Opened(f) \in FileNode /\ Closed(f) \in FileNode /\ Stat(f) \in FileNode
           /\ \A pos \in Nat : Sought(f, pos) \in FileNode
           /\ \A size \in Nat : Read(f, size) \in FileNode
<1>1. ASSUME NEW g \in FileNode PROVE Opened(g) \in FileNode /\ Closed(g) \in FileNode
  <2>1. Opened(g) \in FileNode
    BY DEF Opened, FileNode
  <2>2. Closed(g) \in FileNode
    BY DEF Closed, FileNode
  <2> QED BY <2>1, <2>2
<1>2. Stat(f) \in FileNode
  BY <1>1 DEF Stat
<1>3. ASSUME NEW pos \in Nat PROVE Sought(f, pos) \in FileNode
  BY DEF Sought, FileNode
<1>4. ASSUME NEW size \in Nat PROVE Read(f, size) \in FileNode
  <2>1. f.pos \in Nat /\ f.fail \in BOOLEAN
    BY DEF FileNode
  <2>2. Got(f, size) \in Nat
    BY <2>1, FileAssumption DEF Got, Available
  <2>3. f.pos + Got(f, size) \in Nat /\ (f.fail \/ Got(f, size) < size) \in BOOLEAN
    BY <2>1, <2>2
  <2> DEFINE got == Got(f, size)
             fails == f.fail \/ got < size
             place == f.pos + got
  <2>4. Read(f, size) = [f EXCEPT !.pos = place, !.fail = fails]
    BY DEF Read
  <2> HIDE DEF place, fails
  <2>5. place \in Nat /\ fails \in BOOLEAN
    BY <2>3 DEF place, fails
  <2> QED BY <2>4, <2>5 DEF FileNode
<1> QED BY <1>1, <1>2, <1>3, <1>4

(* What a handle expects, it still expects of a tree that grew. *)
LEMMA ExpectsOfMore ==
    ASSUME NEW ns, Tree(ns), NEW more, Tree(more), Grows(ns, more)
    PROVE  /\ \A h : ReadsRight(ns, h) => ReadsRight(more, h)
           /\ \A h : ListsRight(ns, h) => ListsRight(more, h)
           /\ \A N : OpenAmong(ns, N) => OpenAmong(more, N)
<1>1. Len(ns) \in Nat /\ Len(more) \in Nat /\ Len(ns) =< Len(more)
  BY LenProperties DEF Tree, Grows
<1>2. ASSUME NEW h, ReadsRight(ns, h) PROVE ReadsRight(more, h)
  <2>1. h.node \in 1 .. Len(ns) /\ h.node \in 1 .. Len(more)
    BY <1>1, <1>2 DEF ReadsRight
  <2>2. Grown(ns[h.node], more[h.node]) /\ ns[h.node].type # "folder"
    BY <1>2, <2>1 DEF ReadsRight, Grows, FileNode
  <2>3. more[h.node] = ns[h.node]
    BY <2>2 DEF Grown
  <2> QED BY <1>2, <2>1, <2>3 DEF ReadsRight
<1>3. ASSUME NEW h, ListsRight(ns, h) PROVE ListsRight(more, h)
  <2>1. h.node \in 1 .. Len(ns) /\ h.node \in 2 .. Len(more) /\ ns[h.node].type = "folder"
    BY <1>1, <1>3 DEF ListsRight
  <2>2. Grown(ns[h.node], more[h.node])
    BY <2>1 DEF Grows
  <2> QED BY <1>3, <2>1, <2>2 DEF ListsRight, Grown
<1>4. ASSUME NEW N, OpenAmong(ns, N) PROVE OpenAmong(more, N)
  <2> SUFFICES ASSUME NEW k \in 1 .. Len(more), more[k].type = "file", more[k].open = TRUE
               PROVE  k \in N
    BY DEF OpenAmong
  <2>1. ~(k > Len(ns))
    BY DEF Grows
  <2>2. k \in 1 .. Len(ns)
    BY <1>1, <2>1
  <2>3. Grown(ns[k], more[k])
    BY <2>2 DEF Grows
  <2>4. ns[k] = more[k]
    BY <2>3 DEF Grown
  <2> QED BY <1>4, <2>2, <2>4 DEF OpenAmong
<1> QED BY <1>2, <1>3, <1>4

\* The tree differs at one node.
DiffersAt(ns, more, n) ==
    /\ Tree(more) /\ Len(more) = Len(ns)
    /\ \A k \in (1 .. Len(ns)) \ {n} : more[k] = ns[k]

LEMMA ExpectsOfOthers ==
    ASSUME NEW ns, NEW more, NEW n, DiffersAt(ns, more, n)
    PROVE  /\ \A h : ReadsRight(ns, h) /\ h.node # n => ReadsRight(more, h)
           /\ \A h : ListsRight(ns, h) /\ h.node # n => ListsRight(more, h)
<1>1. ASSUME NEW h, ReadsRight(ns, h), h.node # n PROVE ReadsRight(more, h)
  <2>1. more[h.node] = ns[h.node] /\ h.node \in 1 .. Len(more)
    BY <1>1 DEF ReadsRight, DiffersAt
  <2> QED BY <1>1, <2>1 DEF ReadsRight
<1>2. ASSUME NEW h, ListsRight(ns, h), h.node # n PROVE ListsRight(more, h)
  <2>1. h.node \in 2 .. Len(ns) /\ h.node \in 1 .. Len(ns)
    BY <1>2 DEF ListsRight
  <2>2. more[h.node] = ns[h.node] /\ h.node \in 2 .. Len(more)
    BY <1>2, <2>1 DEF DiffersAt
  <2> QED BY <1>2, <2>2 DEF ListsRight
<1> QED BY <1>1, <1>2

(* A file's stream changes: no listing does, and only handles of the file may *)
(* not find what they expect.                                                  *)
LEMMA StreamChanged ==
    ASSUME NEW ns, Tree(ns), NEW n \in 1 .. Len(ns), ns[n] \in FileNode, NEW x \in FileNode
    PROVE  LET more == [ns EXCEPT ![n] = x]
           IN  /\ Tree(more) /\ more[n] = x /\ Len(more) = Len(ns)
               /\ \A h : ReadsRight(ns, h) /\ h.node # n => ReadsRight(more, h)
               /\ \A h : ListsRight(ns, h) => ListsRight(more, h)
               /\ \A N : OpenAmong(ns, N) =>
                     OpenAmong(more, IF x.open = TRUE THEN N \cup {n} ELSE N \ {n})
<1> DEFINE more == [ns EXCEPT ![n] = x]
<1>1. /\ Tree(more) /\ more[n] = x /\ Len(more) = Len(ns)
      /\ \A k \in (1 .. Len(ns)) \ {n} : more[k] = ns[k]
  BY NodeChanged
<1>2. DiffersAt(ns, more, n)
  BY <1>1 DEF DiffersAt
<1>3. \A h : ListsRight(ns, h) => h.node # n
  BY DEF ListsRight, FileNode
<1> HIDE DEF more
<1>4. /\ \A h : ReadsRight(ns, h) /\ h.node # n => ReadsRight(more, h)
      /\ \A h : ListsRight(ns, h) => ListsRight(more, h)
  BY <1>2, <1>3, ExpectsOfOthers
<1>5. ASSUME NEW N, OpenAmong(ns, N)
      PROVE  OpenAmong(more, IF x.open = TRUE THEN N \cup {n} ELSE N \ {n})
  BY <1>1, <1>5 DEF OpenAmong
<1> QED BY <1>1, <1>4, <1>5 DEF more

(* A folder's search moves: no stream does. *)
LEMMA SearchMoved ==
    ASSUME NEW ns, Tree(ns), NEW n \in 2 .. Len(ns), ns[n].type = "folder",
           NEW c \in 0 .. Len(Listing[ns[n].path])
    PROVE  LET more == [ns EXCEPT ![n].cursor = c]
           IN  /\ Tree(more) /\ more[n].cursor = c /\ more[n].path = ns[n].path
               /\ more[n].type = "folder" /\ Len(more) = Len(ns)
               /\ \A h : ReadsRight(ns, h) => ReadsRight(more, h)
               /\ \A h : ListsRight(ns, h) /\ h.node # n => ListsRight(more, h)
               /\ \A N : OpenAmong(ns, N) => OpenAmong(more, N)
<1> DEFINE x == [ns[n] EXCEPT !.cursor = c]
           more == [ns EXCEPT ![n] = x]
<1>1. Len(ns) \in Nat
  BY LenProperties DEF Tree
<1>2. n \in 1 .. Len(ns) /\ n # Root
  BY <1>1 DEF Root
<1>3. /\ Tree(more) /\ more[n] = x /\ Len(more) = Len(ns)
      /\ \A k \in (1 .. Len(ns)) \ {n} : more[k] = ns[k]
  <2>1. \E d \in 0 .. Len(Listing[ns[n].path]) : x = [ns[n] EXCEPT !.cursor = d]
    OBVIOUS
  <2> HIDE DEF x
  <2> QED BY <1>2, <2>1, NodeChanged
<1>4. x.cursor = c /\ x.path = ns[n].path /\ x.type = "folder"
  <2>1. ns[n] \in FolderNode
    BY <1>2 DEF Tree, FolderAt
  <2> QED BY <2>1 DEF FolderNode
<1>5. DiffersAt(ns, more, n)
  BY <1>3 DEF DiffersAt
<1>6. \A h : ReadsRight(ns, h) => h.node # n
  BY DEF ReadsRight, FileNode
<1>7. more = [ns EXCEPT ![n].cursor = c]
  OBVIOUS
<1> HIDE DEF more
<1>8. /\ \A h : ReadsRight(ns, h) => ReadsRight(more, h)
      /\ \A h : ListsRight(ns, h) /\ h.node # n => ListsRight(more, h)
  BY <1>5, <1>6, ExpectsOfOthers
<1>9. ASSUME NEW N, OpenAmong(ns, N) PROVE OpenAmong(more, N)
  BY <1>3, <1>4, <1>9 DEF OpenAmong
<1> QED BY <1>3, <1>4, <1>7, <1>8, <1>9

LEMMA OpenAmongMore ==
    ASSUME NEW ns, NEW N, NEW M, OpenAmong(ns, N), N \subseteq M
    PROVE  OpenAmong(ns, M)
BY DEF OpenAmong

(* A handle's file is used through the handle. *)
LEMMA StreamUsed ==
    ASSUME FilesInv, NEW h \in held, NEW x \in FileNode, NEW new \in FileHandle,
           new.handle = h.handle, new.node = h.node, h.sound = FALSE => new.sound = FALSE,
           new.sound = TRUE => x.open = TRUE /\ x.fail = FALSE /\ x.pos = new.pos,
           nodes' = [nodes EXCEPT ![h.node] = x],
           held' = (held \ {h}) \cup {new},
           UNCHANGED <<mOpenFiles, mOpenFolders, heldDirs>>
    PROVE  FilesInv'
<1> DEFINE n == h.node
           N == {g.node : g \in held}
<1>1. ReadsRight(nodes, h)
  BY DEF FilesInv
<1>2. n \in 1 .. Len(nodes) /\ nodes[n] \in FileNode /\ Tree(nodes)
  BY <1>1 DEF ReadsRight, FilesInv
<1>3. /\ Tree(nodes') /\ nodes'[n] = x /\ Len(nodes') = Len(nodes)
      /\ \A g : ReadsRight(nodes, g) /\ g.node # n => ReadsRight(nodes', g)
      /\ \A g : ListsRight(nodes, g) => ListsRight(nodes', g)
      /\ \A M : OpenAmong(nodes, M) =>
            OpenAmong(nodes', IF x.open = TRUE THEN M \cup {n} ELSE M \ {n})
  BY <1>2, StreamChanged
<1>4. held' \subseteq FileHandle /\ heldDirs' \subseteq DirHandle
  BY DEF FilesInv
<1>5. TableOf(mOpenFiles', held') /\ TableOf(mOpenFolders', heldDirs')
  <2>1. TableOf(mOpenFiles, (held \ {h}) \cup {new})
    BY HandleChanged DEF FilesInv
  <2> QED BY <2>1 DEF FilesInv
<1>6. ASSUME NEW g \in held' PROVE ReadsRight(nodes', g)
  <2>1. CASE g = new
    BY <1>2, <1>3, <2>1 DEF ReadsRight
  <2>2. CASE g \in held \ {h} /\ g.node # n
    BY <1>3, <2>2 DEF FilesInv
  <2>3. CASE g \in held \ {h} /\ g.node = n
    <3>1. g.sound = FALSE
      BY <2>3 DEF FilesInv, TableOf
    <3> QED BY <1>2, <1>3, <2>3, <3>1 DEF ReadsRight
  <2> QED BY <2>1, <2>2, <2>3
<1>7. \A g \in heldDirs' : ListsRight(nodes', g)
  BY <1>3 DEF FilesInv
<1>8. OpenAmong(nodes', {g.node : g \in held'})
  <2>1. OpenAmong(nodes', IF x.open = TRUE THEN N \cup {n} ELSE N \ {n})
    BY <1>3 DEF FilesInv
  <2>2. N \cup {n} \subseteq {g.node : g \in held'} /\ N \ {n} \subseteq {g.node : g \in held'}
    OBVIOUS
  <2> HIDE DEF N, n
  <2> QED BY <2>1, <2>2, OpenAmongMore
<1> QED BY <1>3, <1>4, <1>5, <1>6, <1>7, <1>8 DEF FilesInv

LEMMA ReadFileStep == ASSUME FilesInv, FSReadFile PROVE FilesInv'
<1>1. PICK h \in held, size \in ReadSizes, pos \in ReadSizes \cup {-1} :
         LET n == mOpenFiles[h.handle]
             f == IF pos = -1 THEN nodes[n] ELSE Sought(nodes[n], pos)
             from == IF pos = -1 THEN h.pos ELSE pos
         IN  /\ nodes' = [nodes EXCEPT ![n] = Read(f, size)]
             /\ held' = (held \ {h}) \cup
                   {IF h.sound /\ from + size <= FileSize
                    THEN [h EXCEPT !.pos = from + size] ELSE Lost(h)}
             /\ UNCHANGED <<mOpenFiles, mOpenFolders, heldDirs>>
  BY DEF FSReadFile
<1> DEFINE n == h.node
           f == IF pos = -1 THEN nodes[n] ELSE Sought(nodes[n], pos)
           from == IF pos = -1 THEN h.pos ELSE pos
           x == Read(f, size)
           place == from + size
           new == IF h.sound /\ place <= FileSize THEN [h EXCEPT !.pos = place] ELSE Lost(h)
<1>2. h \in FileHandle /\ mOpenFiles[h.handle] = n /\ ReadsRight(nodes, h)
  BY DEF FilesInv, TableOf
<1>3. size \in Nat /\ (pos = -1 \/ pos \in Nat) /\ FileSize \in Nat /\ from \in Nat
      /\ place \in Nat /\ nodes[n] \in FileNode
  BY <1>2, FileAssumption DEF FileHandle, ReadsRight
<1>4. f \in FileNode /\ x \in FileNode
  BY <1>3, StreamKeeps
<1>5. /\ new \in FileHandle /\ new.handle = h.handle /\ new.node = h.node
      /\ h.sound = FALSE => new.sound = FALSE
      /\ new.sound = TRUE => h.sound = TRUE /\ place =< FileSize /\ new.pos = place
  <2> HIDE DEF place
  <2>1. CASE h.sound = TRUE /\ place =< FileSize
    <3>1. new = [h EXCEPT !.pos = place]
      BY <2>1
    <3> QED BY <1>2, <1>3, <2>1, <3>1 DEF FileHandle
  <2>2. CASE ~(h.sound = TRUE /\ place =< FileSize)
    <3>1. h.sound \in BOOLEAN
      BY <1>2 DEF FileHandle
    <3>2. new = Lost(h)
      BY <2>2, <3>1
    <3> QED BY <1>2, <3>2, LostFile
  <2> QED BY <2>1, <2>2
<1>6. ASSUME new.sound = TRUE PROVE x.open = TRUE /\ x.fail = FALSE /\ x.pos = new.pos
  <2>1. h.sound = TRUE /\ place =< FileSize /\ new.pos = place
    BY <1>5, <1>6
  <2>2. nodes[n].open = TRUE /\ nodes[n].fail = FALSE /\ nodes[n].pos = h.pos
    BY <1>2, <2>1 DEF ReadsRight
  <2>3. f.open = TRUE /\ f.fail = FALSE /\ f.pos = from
    <3>1. CASE pos = -1
      BY <2>2, <3>1
    <3>2. CASE pos # -1
      <4>1. f = [nodes[n] EXCEPT !.pos = pos]
        BY <2>2, <3>2 DEF Sought
      <4> QED BY <1>3, <2>2, <3>2, <4>1 DEF FileNode
    <3> QED BY <3>1, <3>2
  <2> HIDE DEF f, from
  <2>4. Got(f, size) = size
    BY <1>3, <2>1, <2>3 DEF Got, Available, place
  <2>5. x = [f EXCEPT !.pos = @ + size, !.fail = @ \/ size < size]
    BY <2>4 DEF Read
  <2> QED BY <1>3, <1>4, <2>1, <2>3, <2>5 DEF FileNode, place
<1>7. /\ nodes' = [nodes EXCEPT ![h.node] = x]
      /\ held' = (held \ {h}) \cup {new}
      /\ UNCHANGED <<mOpenFiles, mOpenFolders, heldDirs>>
  BY <1>1, <1>2
<1> HIDE DEF x, new
<1> QED BY <1>4, <1>5, <1>6, <1>7, StreamUsed

LEMMA SetPosStep == ASSUME FilesInv, FSSetPosFile PROVE FilesInv'
<1>1. PICK h \in held, pos \in ReadSizes :
         /\ nodes' = [nodes EXCEPT ![mOpenFiles[h.handle]] = Sought(@, pos)]
         /\ held' = (held \ {h}) \cup {IF h.sound THEN [h EXCEPT !.pos = pos] ELSE h}
         /\ UNCHANGED <<mOpenFiles, mOpenFolders, heldDirs>>
  BY DEF FSSetPosFile
<1> DEFINE n == h.node
           x == Sought(nodes[n], pos)
           new == IF h.sound THEN [h EXCEPT !.pos = pos] ELSE h
<1>2. h \in FileHandle /\ mOpenFiles[h.handle] = n /\ ReadsRight(nodes, h)
  BY DEF FilesInv, TableOf
<1>3. pos \in Nat /\ nodes[n] \in FileNode
  BY <1>2, FileAssumption DEF ReadsRight
<1>4. x \in FileNode
  BY <1>3, StreamKeeps
<1>5. /\ new \in FileHandle /\ new.handle = h.handle /\ new.node = h.node
      /\ h.sound = FALSE => new.sound = FALSE
      /\ new.sound = TRUE => h.sound = TRUE /\ new.pos = pos
  <2>1. CASE h.sound = TRUE
    <3>1. new = [h EXCEPT !.pos = pos]
      BY <2>1
    <3> QED BY <1>2, <1>3, <2>1, <3>1 DEF FileHandle
  <2>2. CASE h.sound = FALSE
    BY <1>2, <2>2
  <2> QED BY <1>2, <2>1, <2>2 DEF FileHandle
<1>6. ASSUME new.sound = TRUE PROVE x.open = TRUE /\ x.fail = FALSE /\ x.pos = new.pos
  <2>1. nodes[n].open = TRUE /\ nodes[n].fail = FALSE /\ new.pos = pos
    BY <1>2, <1>5, <1>6 DEF ReadsRight
  <2>2. x = [nodes[n] EXCEPT !.pos = pos]
    BY <2>1 DEF Sought
  <2> QED BY <1>3, <2>1, <2>2 DEF FileNode
<1>7. /\ nodes' = [nodes EXCEPT ![h.node] = x]
      /\ held' = (held \ {h}) \cup {new}
      /\ UNCHANGED <<mOpenFiles, mOpenFolders, heldDirs>>
  BY <1>1, <1>2
<1> HIDE DEF x, new
<1> QED BY <1>4, <1>5, <1>6, <1>7, StreamUsed

LEMMA CloseFileStep == ASSUME FilesInv, FSCloseFile PROVE FilesInv'
<1>1. PICK h \in held :
         /\ nodes' = [nodes EXCEPT ![mOpenFiles[h.handle]] = Closed(Closed(@))]
         /\ mOpenFiles' = [mOpenFiles EXCEPT ![h.handle] = None]
         /\ held' = held \ {h}
         /\ UNCHANGED <<mOpenFolders, heldDirs>>
  BY DEF FSCloseFile
<1> DEFINE n == h.node
           x == Closed(Closed(nodes[n]))
           N == {g.node : g \in held}
<1>2. mOpenFiles[h.handle] = n /\ ReadsRight(nodes, h) /\ Tree(nodes)
  BY DEF FilesInv, TableOf
<1>3. n \in 1 .. Len(nodes) /\ nodes[n] \in FileNode
  BY <1>2 DEF ReadsRight
<1>4. x \in FileNode /\ x.open = FALSE
  <2>1. Closed(nodes[n]) \in FileNode
    BY <1>3, StreamKeeps
  <2>2. ASSUME NEW f \in FileNode PROVE Closed(f).open = FALSE
    BY DEF Closed, FileNode
  <2> QED BY <2>1, <2>2, StreamKeeps
<1> DEFINE after == [nodes EXCEPT ![n] = x]
<1>5. nodes' = after
  BY <1>1, <1>2
<1> HIDE DEF x, n
<1>6. /\ Tree(after) /\ after[n] = x /\ Len(after) = Len(nodes)
      /\ \A g : ReadsRight(nodes, g) /\ g.node # n => ReadsRight(after, g)
      /\ \A g : ListsRight(nodes, g) => ListsRight(after, g)
      /\ \A M : OpenAmong(nodes, M) =>
            OpenAmong(after, IF x.open = TRUE THEN M \cup {n} ELSE M \ {n})
  <2> DEFINE ns == nodes
  <2> HIDE DEF ns
  <2>1. Tree(ns) /\ n \in 1 .. Len(ns) /\ ns[n] \in FileNode /\ x \in FileNode
    BY <1>2, <1>3, <1>4 DEF ns
  <2>2. LET more == [ns EXCEPT ![n] = x]
        IN  /\ Tree(more) /\ more[n] = x /\ Len(more) = Len(ns)
            /\ \A g : ReadsRight(ns, g) /\ g.node # n => ReadsRight(more, g)
            /\ \A g : ListsRight(ns, g) => ListsRight(more, g)
            /\ \A M : OpenAmong(ns, M) =>
                  OpenAmong(more, IF x.open = TRUE THEN M \cup {n} ELSE M \ {n})
    BY <2>1, StreamChanged
  <2> QED BY <2>2 DEF ns
<1> HIDE DEF after
<1>7. /\ Tree(nodes') /\ nodes'[n] = x /\ Len(nodes') = Len(nodes)
      /\ \A g : ReadsRight(nodes, g) /\ g.node # n => ReadsRight(nodes', g)
      /\ \A g : ListsRight(nodes, g) => ListsRight(nodes', g)
      /\ \A M : OpenAmong(nodes, M) =>
            OpenAmong(nodes', IF x.open = TRUE THEN M \cup {n} ELSE M \ {n})
  BY <1>5, <1>6
<1> USE DEF n
<1>8. TableOf(mOpenFiles', held') /\ TableOf(mOpenFolders', heldDirs')
  BY <1>1, HandleGone DEF FilesInv
<1>9. ASSUME NEW g \in held' PROVE ReadsRight(nodes', g)
  <2>1. g \in held \ {h} /\ ReadsRight(nodes, g)
    BY <1>1 DEF FilesInv
  <2>2. CASE g.node # n
    BY <1>7, <2>1, <2>2
  <2>3. CASE g.node = n
    <3>1. g.sound = FALSE
      BY <2>1, <2>3 DEF FilesInv, TableOf
    <3> QED BY <1>3, <1>4, <1>7, <2>3, <3>1 DEF ReadsRight
  <2> QED BY <2>2, <2>3
<1>10. OpenAmong(nodes', {g.node : g \in held'})
  <2>1. OpenAmong(nodes', N \ {n})
    BY <1>4, <1>7 DEF FilesInv
  <2>2. N \ {n} \subseteq {g.node : g \in held'}
    BY <1>1
  <2> HIDE DEF N, n
  <2> QED BY <2>1, <2>2, OpenAmongMore
<1> QED BY <1>1, <1>7, <1>8, <1>9, <1>10 DEF FilesInv

LEMMA GetStatStep == ASSUME FilesInv, FSGetStat PROVE FilesInv'
<1>1. PICK path \in GamePaths :
         LET found == findNode(nodes, path)
             n == found.node
         IN  /\ nodes' = IF n = None \/ found.nodes[n].type # "file" THEN found.nodes
                         ELSE [found.nodes EXCEPT ![n] = Stat(@)]
             /\ UNCHANGED <<mOpenFiles, mOpenFolders, held, heldDirs>>
  BY DEF FSGetStat
<1> DEFINE found == findNode(nodes, path)
           n == found.node
           N == {g.node : g \in held}
<1>2. /\ Tree(nodes) /\ Tree(found.nodes) /\ Grows(nodes, found.nodes)
      /\ n = None \/ n \in 2 .. Len(found.nodes)
  BY FileAssumption, NodeFound DEF FilesInv
<1>3. /\ \A h \in held : ReadsRight(found.nodes, h)
      /\ \A h \in heldDirs : ListsRight(found.nodes, h)
      /\ OpenAmong(found.nodes, N)
  BY <1>2, ExpectsOfMore DEF FilesInv
<1>4. CASE nodes' = found.nodes
  BY <1>1, <1>2, <1>3, <1>4 DEF FilesInv
<1>5. CASE n # None /\ found.nodes[n].type = "file" /\ nodes' # found.nodes
  <2> HIDE DEF found
  <2>1. Len(found.nodes) \in Nat
    BY <1>2, LenProperties DEF Tree
  <2>2. n \in 1 .. Len(found.nodes) /\ found.nodes[n] \in FileNode
    BY <1>2, <1>5, <2>1 DEF Tree
  <2>3. nodes' = [found.nodes EXCEPT ![n] = Stat(found.nodes[n])]
    BY <1>1, <1>5 DEF found
  <2>4. Stat(found.nodes[n]) \in FileNode
    BY <2>2, StreamKeeps
  <2>5. found.nodes[n].open = FALSE /\ Stat(found.nodes[n]).open = FALSE
    <3>1. CASE found.nodes[n].open = TRUE
      <4>1. nodes' = [found.nodes EXCEPT ![n] = found.nodes[n]]
        BY <2>3, <3>1 DEF Stat
      <4>2. found.nodes \in Seq(FolderNode \cup FileNode)
        BY <1>2 DEF Tree
      <4>3. nodes' = found.nodes
        BY <4>1, <4>2
      <4> QED BY <1>5, <4>3
    <3>2. CASE found.nodes[n].open = FALSE
      <4>1. Stat(found.nodes[n]) = Closed(Opened(found.nodes[n]))
        BY <3>2 DEF Stat
      <4>2. Opened(found.nodes[n]) \in FileNode
        BY <2>2, StreamKeeps
      <4>3. \A f \in FileNode : Closed(f).open = FALSE
        BY DEF Closed, FileNode
      <4> QED BY <3>2, <4>1, <4>2, <4>3
    <3>3. found.nodes[n].open \in BOOLEAN
      BY <2>2 DEF FileNode
    <3> QED BY <3>1, <3>2, <3>3
  <2> DEFINE stat == Stat(found.nodes[n])
             ns == found.nodes
             after == [ns EXCEPT ![n] = stat]
  <2> HIDE DEF ns, stat, n
  <2>6. /\ Tree(after) /\ after[n] = stat /\ Len(after) = Len(ns)
        /\ \A g : ReadsRight(ns, g) /\ g.node # n => ReadsRight(after, g)
        /\ \A g : ListsRight(ns, g) => ListsRight(after, g)
        /\ \A M : OpenAmong(ns, M) =>
              OpenAmong(after, IF stat.open = TRUE THEN M \cup {n} ELSE M \ {n})
    <3>1. Tree(ns) /\ n \in 1 .. Len(ns) /\ ns[n] \in FileNode /\ stat \in FileNode
      BY <1>2, <2>2, <2>4 DEF ns, stat
    <3> QED BY <3>1, StreamChanged
  <2>7. nodes' = after /\ stat.open = FALSE
    BY <2>3, <2>5 DEF ns, stat
  <2> HIDE DEF after
  <2>8. /\ Tree(nodes') /\ nodes'[n] = Stat(found.nodes[n]) /\ Len(nodes') = Len(found.nodes)
        /\ \A g : ReadsRight(found.nodes, g) /\ g.node # n => ReadsRight(nodes', g)
        /\ \A g : ListsRight(found.nodes, g) => ListsRight(nodes', g)
        /\ \A M : OpenAmong(found.nodes, M) => OpenAmong(nodes', M \ {n})
    BY <2>6, <2>7 DEF ns, stat
  <2> USE DEF n
  <2>9. ASSUME NEW g \in held PROVE ReadsRight(nodes', g)
    <3>1. CASE g.node # n
      BY <1>3, <2>8, <3>1
    <3>2. CASE g.node = n
      <4>1. g.sound # TRUE
        BY <1>3, <2>5, <3>2 DEF ReadsRight
      <4> QED BY <2>2, <2>4, <2>8, <3>2, <4>1 DEF ReadsRight
    <3> QED BY <3>1, <3>2
  <2>10. OpenAmong(nodes', N)
    BY <1>3, <2>8, OpenAmongMore
  <2> QED BY <1>1, <1>3, <2>8, <2>9, <2>10 DEF FilesInv
<1> QED BY <1>1, <1>4, <1>5

LEMMA OpenFileStep == ASSUME FilesInv, FSOpenFile PROVE FilesInv'
<1>1. PICK path \in GamePaths :
         LET found == findNode(nodes, path)
             n == found.node
             alone == \A h \in held : h.node # n
         IN  /\ IF n = None \/ found.nodes[n].type # "file"
                THEN /\ nodes' = found.nodes
                     /\ UNCHANGED <<mOpenFiles, held>>
                ELSE /\ nodes' = [found.nodes EXCEPT ![n] = Opened(@)]
                     /\ mOpenFiles' = AddTo(mOpenFiles, n)
                     /\ held' = Unsound(held, n) \cup
                           {[handle |-> Slot(mOpenFiles), node |-> n,
                             pos |-> 0, sound |-> alone]}
             /\ UNCHANGED <<mOpenFolders, heldDirs>>
  BY DEF FSOpenFile
<1> DEFINE found == findNode(nodes, path)
           n == found.node
           ns == found.nodes
           N == {g.node : g \in held}
           alone == \A h \in held : h.node # n
           new == [handle |-> Slot(mOpenFiles), node |-> n, pos |-> 0, sound |-> alone]
<1>2. /\ Tree(nodes) /\ Tree(ns) /\ Grows(nodes, ns)
      /\ n = None \/ n \in 2 .. Len(ns)
  BY FileAssumption, NodeFound DEF FilesInv
<1>3. /\ \A h \in held : ReadsRight(ns, h)
      /\ \A h \in heldDirs : ListsRight(ns, h)
      /\ OpenAmong(ns, N)
  BY <1>2, ExpectsOfMore DEF FilesInv
<1>4. CASE n = None \/ ns[n].type # "file"
  BY <1>1, <1>2, <1>3, <1>4 DEF FilesInv
<1>5. CASE ~(n = None \/ ns[n].type # "file")
  <2> DEFINE x == Opened(ns[n])
             after == [ns EXCEPT ![n] = x]
  <2>1. /\ nodes' = after
        /\ mOpenFiles' = AddTo(mOpenFiles, n)
        /\ held' = Unsound(held, n) \cup {new}
        /\ UNCHANGED <<mOpenFolders, heldDirs>>
    BY <1>1, <1>5
  <2> HIDE DEF ns, n
  <2>2. n \in 1 .. Len(ns) /\ ns[n] \in FileNode /\ n \in Nat \ {None}
    <3>1. Len(ns) \in Nat /\ n \in 2 .. Len(ns)
      BY <1>2, <1>5, LenProperties DEF Tree
    <3>2. n \in 1 .. Len(ns) /\ n \in Nat \ {None}
      BY <3>1 DEF None
    <3> QED BY <1>2, <1>5, <3>2 DEF Tree
  <2>3. x \in FileNode /\ x.open = TRUE
    <3>1. ns[n].open = FALSE => Opened(ns[n]).open = TRUE
      BY <2>2 DEF Opened, FileNode
    <3>2. ns[n].open = TRUE => Opened(ns[n]).open = TRUE
      BY <2>2 DEF Opened, FileNode
    <3>3. ns[n].open \in BOOLEAN
      BY <2>2 DEF FileNode
    <3> QED BY <2>2, <3>1, <3>2, <3>3, StreamKeeps
  <2>4. alone => x.open = TRUE /\ x.fail = FALSE /\ x.pos = 0
    <3> HAVE alone
    <3>1. n \notin N
      OBVIOUS
    <3>2. ns[n].open = FALSE
      <4>1. ns[n].type = "file" /\ ns[n].open \in BOOLEAN
        BY <2>2 DEF FileNode
      <4> QED BY <1>3, <2>2, <3>1, <4>1 DEF OpenAmong
    <3>3. x = [ns[n] EXCEPT !.open = TRUE, !.fail = FALSE, !.pos = 0]
      BY <3>2 DEF Opened
    <3> QED BY <2>2, <3>3 DEF FileNode
  <2> HIDE DEF x
  <2>5. /\ Tree(after) /\ after[n] = x /\ Len(after) = Len(ns)
        /\ \A g : ReadsRight(ns, g) /\ g.node # n => ReadsRight(after, g)
        /\ \A g : ListsRight(ns, g) => ListsRight(after, g)
        /\ \A M : OpenAmong(ns, M) =>
              OpenAmong(after, IF x.open = TRUE THEN M \cup {n} ELSE M \ {n})
    BY <1>2, <2>2, <2>3, StreamChanged
  <2> HIDE DEF after
  <2>6. \A h \in held : /\ h \in FileHandle /\ Lost(h) \in FileHandle
                        /\ Lost(h).handle = h.handle /\ Lost(h).node = h.node
                        /\ Lost(h).sound = FALSE
    BY LostFile DEF FilesInv
  <2>7. /\ new.handle = Slot(mOpenFiles) /\ new.node = n /\ new.pos = 0
        /\ new.sound = \A h \in held : h.node # n
        /\ new \in FileHandle
    <3>1. Slot(mOpenFiles) \in Nat
      BY SlotIsFree DEF FilesInv, TableOf
    <3> HIDE DEF alone
    <3>2. new \in FileHandle
      <4>1. alone \in BOOLEAN
        BY DEF alone
      <4> QED BY <2>2, <3>1, <4>1 DEF FileHandle
    <3>3. new.sound = alone
      OBVIOUS
    <3> QED BY <3>2, <3>3 DEF alone
  <2> HIDE DEF new
  <2>8. TableOf(mOpenFiles', held') /\ TableOf(mOpenFolders', heldDirs')
    <3>1. TableOf(AddTo(mOpenFiles, n), Unsound(held, n) \cup {new})
      BY <2>2, <2>6, <2>7, HandleAdded DEF FilesInv
    <3> QED BY <2>1, <3>1 DEF FilesInv
  <2>9. ASSUME NEW g \in held'
        PROVE  \/ g = new
               \/ \E h \in held : h.node = n /\ g = Lost(h)
               \/ g \in held /\ g.node # n
    BY <2>1 DEF Unsound
  <2>10. held' \subseteq FileHandle
    BY <2>6, <2>7, <2>9
  <2>11. ASSUME NEW g \in held' PROVE ReadsRight(nodes', g)
    <3>1. CASE g = new
      BY <2>1, <2>2, <2>3, <2>4, <2>5, <2>7, <3>1 DEF ReadsRight
    <3>2. CASE \E h \in held : h.node = n /\ g = Lost(h)
      <4>1. g.node = n /\ g.sound = FALSE
        BY <2>6, <3>2
      <4> QED BY <2>1, <2>2, <2>3, <2>5, <4>1 DEF ReadsRight
    <3>3. CASE g \in held /\ g.node # n
      BY <1>3, <2>1, <2>5, <3>3
    <3> QED BY <2>9, <3>1, <3>2, <3>3
  <2>12. OpenAmong(nodes', {g.node : g \in held'})
    <3>1. OpenAmong(after, N \cup {n})
      BY <1>3, <2>3, <2>5
    <3>2. ASSUME NEW h \in held PROVE \E g \in held' : g.node = h.node
      <4>1. CASE h.node = n
        BY <2>1, <2>7, <4>1
      <4>2. CASE h.node # n
        BY <2>1, <4>2 DEF Unsound
      <4> QED BY <4>1, <4>2
    <3>3. n \in {g.node : g \in held'}
      BY <2>1, <2>7
    <3>4. N \cup {n} \subseteq {g.node : g \in held'}
      BY <3>2, <3>3
    <3> HIDE DEF N
    <3> QED BY <2>1, <3>1, <3>4, OpenAmongMore
  <2>13. heldDirs' \subseteq DirHandle /\ \A g \in heldDirs' : ListsRight(nodes', g)
    BY <1>3, <2>1, <2>5 DEF FilesInv
  <2> QED BY <2>1, <2>5, <2>8, <2>10, <2>11, <2>12, <2>13 DEF FilesInv
<1> QED BY <1>4, <1>5

LEMMA OpenDirStep == ASSUME FilesInv, FSOpenDir PROVE FilesInv'
<1>1. PICK path \in GamePaths :
         LET found == findNode(nodes, path)
             n == found.node
             alone == \A h \in heldDirs : h.node # n
         IN  /\ IF n = None \/ found.nodes[n].type # "folder"
                THEN /\ nodes' = found.nodes
                     /\ UNCHANGED <<mOpenFolders, heldDirs>>
                ELSE /\ nodes' = [found.nodes EXCEPT ![n].cursor = 1]
                     /\ mOpenFolders' = AddTo(mOpenFolders, n)
                     /\ heldDirs' = Unsound(heldDirs, n) \cup
                           {[handle |-> Slot(mOpenFolders), node |-> n,
                             got |-> <<>>, ended |-> FALSE, sound |-> alone]}
             /\ UNCHANGED <<mOpenFiles, held>>
  BY DEF FSOpenDir
<1> DEFINE found == findNode(nodes, path)
           n == found.node
           ns == found.nodes
           N == {g.node : g \in held}
           alone == \A h \in heldDirs : h.node # n
           new == [handle |-> Slot(mOpenFolders), node |-> n,
                   got |-> <<>>, ended |-> FALSE, sound |-> alone]
<1>2. /\ Tree(nodes) /\ Tree(ns) /\ Grows(nodes, ns)
      /\ n = None \/ n \in 2 .. Len(ns)
  BY FileAssumption, NodeFound DEF FilesInv
<1>3. /\ \A h \in held : ReadsRight(ns, h)
      /\ \A h \in heldDirs : ListsRight(ns, h)
      /\ OpenAmong(ns, N)
  BY <1>2, ExpectsOfMore DEF FilesInv
<1>4. CASE n = None \/ ns[n].type # "folder"
  BY <1>1, <1>2, <1>3, <1>4 DEF FilesInv
<1>5. CASE ~(n = None \/ ns[n].type # "folder")
  <2> DEFINE after == [ns EXCEPT ![n].cursor = 1]
  <2>1. /\ nodes' = after
        /\ mOpenFolders' = AddTo(mOpenFolders, n)
        /\ heldDirs' = Unsound(heldDirs, n) \cup {new}
        /\ UNCHANGED <<mOpenFiles, held>>
    BY <1>1, <1>5
  <2> HIDE DEF ns, n, N
  <2>2. n \in 2 .. Len(ns) /\ ns[n].type = "folder" /\ n \in Nat \ {None}
    BY <1>2, <1>5 DEF None
  <2>3. 1 \in 0 .. Len(Listing[ns[n].path])
    <3>1. n \in 1 .. Len(ns) /\ n # Root
      BY <2>2 DEF Root
    <3>2. ListsDirectory(Listing[ns[n].path])
      BY <1>2, <2>2, <3>1 DEF Tree, FolderAt
    <3> QED BY <3>2, LenProperties DEF ListsDirectory
  <2>4. /\ Tree(after) /\ after[n].cursor = 1 /\ after[n].path = ns[n].path
        /\ after[n].type = "folder" /\ Len(after) = Len(ns)
        /\ \A h : ReadsRight(ns, h) => ReadsRight(after, h)
        /\ \A h : ListsRight(ns, h) /\ h.node # n => ListsRight(after, h)
        /\ \A M : OpenAmong(ns, M) => OpenAmong(after, M)
    BY <1>2, <2>2, <2>3, SearchMoved
  <2> HIDE DEF after
  <2>5. \A h \in heldDirs : /\ h \in DirHandle /\ Lost(h) \in DirHandle
                            /\ Lost(h).handle = h.handle /\ Lost(h).node = h.node
                            /\ Lost(h).sound = FALSE
    BY LostDir DEF FilesInv
  <2>6. /\ new.handle = Slot(mOpenFolders) /\ new.node = n /\ new.got = <<>>
        /\ new.ended = FALSE /\ new.sound = \A h \in heldDirs : h.node # n
        /\ new \in DirHandle
    <3>1. Slot(mOpenFolders) \in Nat
      BY SlotIsFree DEF FilesInv, TableOf
    <3> HIDE DEF alone
    <3>2. new \in DirHandle
      <4>1. alone \in BOOLEAN
        BY DEF alone
      <4> QED BY <2>2, <3>1, <4>1, EmptySeq DEF DirHandle
    <3>3. new.sound = alone
      OBVIOUS
    <3> QED BY <3>2, <3>3 DEF alone
  <2> HIDE DEF new
  <2>7. TableOf(mOpenFiles', held') /\ TableOf(mOpenFolders', heldDirs')
    <3>1. TableOf(AddTo(mOpenFolders, n), Unsound(heldDirs, n) \cup {new})
      BY <2>2, <2>5, <2>6, HandleAdded DEF FilesInv
    <3> QED BY <2>1, <3>1 DEF FilesInv
  <2>8. ASSUME NEW g \in heldDirs'
        PROVE  \/ g = new
               \/ \E h \in heldDirs : h.node = n /\ g = Lost(h)
               \/ g \in heldDirs /\ g.node # n
    BY <2>1 DEF Unsound
  <2>9. heldDirs' \subseteq DirHandle
    BY <2>5, <2>6, <2>8
  <2>10. ASSUME NEW g \in heldDirs' PROVE ListsRight(nodes', g)
    <3>1. CASE g = new
      BY <2>1, <2>2, <2>4, <2>6, <3>1 DEF ListsRight, ReadSoFar
    <3>2. CASE \E h \in heldDirs : h.node = n /\ g = Lost(h)
      <4>1. g.node = n /\ g.sound = FALSE
        BY <2>5, <3>2
      <4> QED BY <2>1, <2>2, <2>4, <4>1 DEF ListsRight
    <3>3. CASE g \in heldDirs /\ g.node # n
      BY <1>3, <2>1, <2>4, <3>3
    <3> QED BY <2>8, <3>1, <3>2, <3>3
  <2>11. /\ held' \subseteq FileHandle /\ \A g \in held' : ReadsRight(nodes', g)
         /\ OpenAmong(nodes', {g.node : g \in held'})
    BY <1>3, <2>1, <2>4 DEF FilesInv, N
  <2> QED BY <2>1, <2>4, <2>7, <2>9, <2>10, <2>11 DEF FilesInv
<1> QED BY <1>4, <1>5

(* A listing that is read on. *)
LEMMA ReadOn ==
    ASSUME NEW lst, ListsDirectory(lst), NEW c \in 0 .. Len(lst), NEW got \in Seq(STRING),
           ReadSoFar(lst, c, got, FALSE)
    PROVE  LET r == ReadEntry(lst, c)
           IN  /\ r.found = TRUE => ReadSoFar(lst, r.cursor, Append(got, r.entry), FALSE)
               /\ r.found = FALSE => ReadSoFar(lst, r.cursor, got, TRUE)
<1> DEFINE n == Len(lst)
           r == ReadEntry(lst, c)
<1> SUFFICES /\ r.found = TRUE => ReadSoFar(lst, r.cursor, Append(got, r.entry), FALSE)
             /\ r.found = FALSE => ReadSoFar(lst, r.cursor, got, TRUE)
  OBVIOUS
<1>1. n \in Nat /\ n >= 2 /\ lst \in Seq(STRING) /\ \A k \in 1 .. n : lst[k] \in STRING
  BY LenProperties, ElementOfSeq DEF ListsDirectory
<1>2. /\ c = None => r.found = FALSE /\ r.cursor = None
      /\ c = 1 => IF n = 2 THEN r.found = FALSE /\ r.cursor = None
                  ELSE r.found = TRUE /\ r.entry = lst[2] /\ r.cursor = 3
      /\ c >= 3 => /\ r.found = TRUE /\ r.entry = lst[c]
                   /\ r.cursor = IF c < n THEN c + 1 ELSE None
  BY EntryRead
<1> HIDE DEF r, n
<1>3. ASSUME NEW k \in 2 .. n
      PROVE  Append(SubSeq(lst, 2, k - 1), lst[k]) = SubSeq(lst, 2, k)
  <2>1. 2 \in 1 .. Len(lst) /\ k \in 2 .. Len(lst) /\ k \in 1 .. n
    BY <1>1 DEF n
  <2>2. SubSeq(lst, 2, k) = SubSeq(lst, 2, k - 1) \o <<lst[k]>>
    BY <1>1, <2>1, SubSeqRecursiveSecond
  <2>3. SubSeq(lst, 2, k - 1) \in Seq(STRING)
    <3>1. \A i \in 2 .. k - 1 : lst[i] \in STRING
      BY <1>1
    <3> QED BY <2>1, <3>1, SubSeqProperties
  <2> QED BY <1>1, <2>1, <2>2, <2>3, AppendIsConcat
<1>4. CASE c = 1 /\ got = <<>> /\ n = 2
  BY <1>1, <1>2, <1>4 DEF ReadSoFar, n
<1>5. CASE c = 1 /\ got = <<>> /\ n # 2
  <2>1. n > 2 /\ 3 \in 3 .. n /\ 2 \in 2 .. n
    BY <1>1, <1>5
  <2>2. SubSeq(lst, 2, 2 - 1) = <<>>
    BY SubSeqEmpty
  <2>3. Append(got, lst[2]) = SubSeq(lst, 2, 3 - 1)
    <3>1. Append(SubSeq(lst, 2, 2 - 1), lst[2]) = SubSeq(lst, 2, 2)
      BY <1>3, <2>1
    <3> QED BY <1>5, <2>2, <3>1
  <2>4. r.found = TRUE /\ r.entry = lst[2] /\ r.cursor = 3
    BY <1>2, <1>5
  <2> QED BY <2>1, <2>3, <2>4 DEF ReadSoFar, n
<1>6. CASE c \in 3 .. n /\ got = SubSeq(lst, 2, c - 1)
  <2>1. r.found = TRUE /\ r.entry = lst[c] /\ r.cursor = IF c < n THEN c + 1 ELSE None
    BY <1>1, <1>2, <1>6
  <2>2. Append(got, r.entry) = SubSeq(lst, 2, c)
    <3>1. c \in 2 .. n
      BY <1>1, <1>6
    <3> QED BY <1>3, <1>6, <2>1, <3>1
  <2>3. CASE c < n
    <3>1. r.cursor = c + 1 /\ c + 1 \in 3 .. n /\ (c + 1) - 1 = c
      BY <1>1, <1>6, <2>1, <2>3
    <3>2. ReadSoFar(lst, c + 1, Append(got, r.entry), FALSE)
      <4>1. Append(got, r.entry) = SubSeq(lst, 2, (c + 1) - 1)
        BY <2>2, <3>1
      <4> QED BY <3>1, <4>1 DEF ReadSoFar, n
    <3> QED BY <2>1, <3>1, <3>2
  <2>4. CASE ~(c < n)
    <3>1. c = n /\ n > 2 /\ r.cursor = None
      BY <1>1, <1>6, <2>1, <2>4
    <3> QED BY <2>1, <2>2, <3>1 DEF ReadSoFar, n
  <2> QED BY <2>3, <2>4
<1>7. CASE c = None /\ n > 2 /\ got = SubSeq(lst, 2, n)
  BY <1>1, <1>2, <1>7 DEF ReadSoFar, n
<1> QED BY <1>4, <1>5, <1>6, <1>7 DEF ReadSoFar, n

LEMMA ReadDirStep == ASSUME FilesInv, FSReadDir PROVE FilesInv'
<1>1. PICK h \in heldDirs :
         LET n == mOpenFolders[h.handle]
             r == ReadEntry(Listing[nodes[n].path], nodes[n].cursor)
         IN  /\ ~h.ended
             /\ nodes' = [nodes EXCEPT ![n].cursor = r.cursor]
             /\ heldDirs' = (heldDirs \ {h}) \cup
                   {IF ~r.found THEN [h EXCEPT !.ended = TRUE]
                    ELSE IF h.sound THEN [h EXCEPT !.got = Append(@, r.entry)]
                    ELSE h}
             /\ UNCHANGED <<mOpenFiles, mOpenFolders, held>>
  BY DEF FSReadDir
<1> DEFINE n == h.node
           lst == Listing[nodes[n].path]
           c == nodes[n].cursor
           r == ReadEntry(lst, c)
           after == [nodes EXCEPT ![n].cursor = r.cursor]
           more == Append(h.got, r.entry)
           new == IF ~r.found THEN [h EXCEPT !.ended = TRUE]
                  ELSE IF h.sound THEN [h EXCEPT !.got = more] ELSE h
<1>2. /\ h \in DirHandle /\ mOpenFolders[h.handle] = n /\ ListsRight(nodes, h)
      /\ Tree(nodes) /\ n \in 2 .. Len(nodes) /\ nodes[n].type = "folder"
  BY DEF FilesInv, TableOf, ListsRight
<1>3. ListsDirectory(lst) /\ c \in 0 .. Len(lst)
  <2>1. n \in 1 .. Len(nodes) /\ n # Root
    BY <1>2 DEF Root
  <2>2. FolderAt(nodes, n) /\ nodes[n] \in FolderNode
    BY <1>2, <2>1 DEF Tree, FolderAt
  <2>3. ListsDirectory(lst) /\ c =< Len(lst) /\ c \in Nat
    BY <2>1, <2>2 DEF FolderAt, FolderNode
  <2> QED BY <2>3, LenProperties DEF ListsDirectory
<1>4. /\ r.cursor \in 0 .. Len(lst) /\ r.found \in BOOLEAN
      /\ r.found = TRUE => r.entry \in STRING
  BY <1>3, EntryRead
<1>5. /\ h.ended = FALSE /\ nodes' = after /\ heldDirs' = (heldDirs \ {h}) \cup {new}
      /\ UNCHANGED <<mOpenFiles, mOpenFolders, held>>
  BY <1>1, <1>2 DEF DirHandle
<1>6. /\ new \in DirHandle /\ new.handle = h.handle /\ new.node = h.node
      /\ new.sound = h.sound
      /\ r.found = FALSE => new.ended = TRUE /\ new.got = h.got
      /\ r.found = TRUE /\ h.sound = TRUE => new.ended = FALSE /\ new.got = more
  <2>1. h.sound \in BOOLEAN
    BY <1>2 DEF DirHandle
  <2>2. CASE r.found = FALSE
    <3>1. new = [h EXCEPT !.ended = TRUE]
      BY <2>2
    <3> HIDE DEF new, r
    <3> QED BY <1>2, <2>2, <3>1 DEF DirHandle
  <2>3. CASE r.found = TRUE /\ h.sound = TRUE
    <3>1. new = [h EXCEPT !.got = more]
      BY <2>3
    <3>2. more \in Seq(STRING)
      BY <1>2, <1>4, <2>3, AppendProperties DEF DirHandle
    <3> HIDE DEF new, r, more
    <3> QED BY <1>2, <1>5, <2>3, <3>1, <3>2 DEF DirHandle
  <2>4. CASE r.found = TRUE /\ h.sound = FALSE
    <3>1. new = h
      BY <2>4
    <3> HIDE DEF new, r, more
    <3> QED BY <1>2, <2>4, <3>1
  <2> QED BY <1>4, <2>1, <2>2, <2>3, <2>4
<1>7. h.sound = TRUE => ReadSoFar(lst, r.cursor, new.got, new.ended)
  <2> HAVE h.sound = TRUE
  <2>1. ReadSoFar(lst, c, h.got, FALSE)
    BY <1>2, <1>5 DEF ListsRight
  <2>2. h.got \in Seq(STRING)
    BY <1>2 DEF DirHandle
  <2>3. /\ r.found = TRUE => ReadSoFar(lst, r.cursor, more, FALSE)
        /\ r.found = FALSE => ReadSoFar(lst, r.cursor, h.got, TRUE)
    <3> HIDE DEF lst, c
    <3> QED BY <1>3, <2>1, <2>2, ReadOn
  <2> HIDE DEF new, r, more
  <2> QED BY <1>4, <1>6, <2>3
<1> DEFINE place == r.cursor
<1> HIDE DEF new, place
<1>8. place \in 0 .. Len(lst)
  BY <1>4 DEF place
<1>9. /\ Tree(after) /\ after[n].cursor = place /\ after[n].path = nodes[n].path
      /\ after[n].type = "folder" /\ Len(after) = Len(nodes)
      /\ \A g : ReadsRight(nodes, g) => ReadsRight(after, g)
      /\ \A g : ListsRight(nodes, g) /\ g.node # n => ListsRight(after, g)
      /\ \A M : OpenAmong(nodes, M) => OpenAmong(after, M)
  <2> DEFINE ns == nodes
             moved == [ns EXCEPT ![n].cursor = place]
  <2>1. after = moved
    BY DEF place
  <2> HIDE DEF r, after, n, ns
  <2>2. Tree(ns) /\ n \in 2 .. Len(ns) /\ ns[n].type = "folder"
        /\ place \in 0 .. Len(Listing[ns[n].path])
    BY <1>2, <1>8 DEF ns
  <2>3. /\ Tree(moved) /\ moved[n].cursor = place /\ moved[n].path = ns[n].path
        /\ moved[n].type = "folder" /\ Len(moved) = Len(ns)
        /\ \A g : ReadsRight(ns, g) => ReadsRight(moved, g)
        /\ \A g : ListsRight(ns, g) /\ g.node # n => ListsRight(moved, g)
        /\ \A M : OpenAmong(ns, M) => OpenAmong(moved, M)
    BY <2>2, SearchMoved
  <2> HIDE DEF moved
  <2> QED BY <2>1, <2>3 DEF ns
<1> HIDE DEF after, r
<1>10. TableOf(mOpenFiles', held') /\ TableOf(mOpenFolders', heldDirs')
  <2>1. h.sound = FALSE => new.sound = FALSE
    BY <1>6
  <2>2. TableOf(mOpenFolders, (heldDirs \ {h}) \cup {new})
    BY <1>6, <2>1, HandleChanged DEF FilesInv
  <2> QED BY <1>5, <2>2 DEF FilesInv
<1>11. ASSUME NEW g \in heldDirs' PROVE ListsRight(nodes', g)
  <2>1. CASE g = new
    <3>1. g.node = n /\ g.sound = h.sound /\ n \in 2 .. Len(after)
      BY <1>2, <1>6, <1>9, <2>1
    <3>2. g.sound = TRUE => ReadSoFar(lst, place, g.got, g.ended)
      BY <1>6, <1>7, <2>1 DEF place
    <3> HIDE DEF n
    <3> QED BY <1>5, <1>9, <3>1, <3>2 DEF ListsRight
  <2>2. CASE g \in heldDirs \ {h}
    <3>1. CASE g.node # n
      BY <1>5, <1>9, <2>2, <3>1 DEF FilesInv
    <3>2. CASE g.node = n
      <4>1. g.sound = FALSE
        BY <2>2, <3>2 DEF FilesInv, TableOf
      <4> QED BY <1>2, <1>5, <1>9, <3>2, <4>1 DEF ListsRight
    <3> QED BY <3>1, <3>2
  <2> QED BY <1>5, <2>1, <2>2
<1>12. heldDirs' \subseteq DirHandle
  BY <1>5, <1>6 DEF FilesInv
<1>13. /\ held' \subseteq FileHandle /\ \A g \in held' : ReadsRight(nodes', g)
       /\ OpenAmong(nodes', {g.node : g \in held'})
  BY <1>5, <1>9 DEF FilesInv
<1>14. Tree(nodes')
  BY <1>5, <1>9
<1> QED BY <1>10, <1>11, <1>12, <1>13, <1>14 DEF FilesInv

LEMMA CloseDirStep == ASSUME FilesInv, FSCloseDir PROVE FilesInv'
<1>1. PICK h \in heldDirs :
         /\ nodes' = [nodes EXCEPT ![mOpenFolders[h.handle]].cursor = None]
         /\ mOpenFolders' = [mOpenFolders EXCEPT ![h.handle] = None]
         /\ heldDirs' = heldDirs \ {h}
         /\ UNCHANGED <<mOpenFiles, held>>
  BY DEF FSCloseDir
<1> DEFINE n == h.node
           after == [nodes EXCEPT ![n].cursor = None]
<1>2. /\ mOpenFolders[h.handle] = n /\ ListsRight(nodes, h)
      /\ Tree(nodes) /\ n \in 2 .. Len(nodes) /\ nodes[n].type = "folder"
  BY DEF FilesInv, TableOf, ListsRight
<1>3. nodes' = after
  BY <1>1, <1>2
<1>4. None \in 0 .. Len(Listing[nodes[n].path])
  <2>1. n \in 1 .. Len(nodes) /\ n # Root
    BY <1>2 DEF Root
  <2>2. ListsDirectory(Listing[nodes[n].path])
    BY <1>2, <2>1 DEF Tree, FolderAt
  <2> QED BY <2>2, LenProperties DEF ListsDirectory, None
<1> HIDE DEF n
<1>5. /\ Tree(after) /\ after[n].type = "folder" /\ Len(after) = Len(nodes)
      /\ \A g : ReadsRight(nodes, g) => ReadsRight(after, g)
      /\ \A g : ListsRight(nodes, g) /\ g.node # n => ListsRight(after, g)
      /\ \A M : OpenAmong(nodes, M) => OpenAmong(after, M)
  <2> DEFINE ns == nodes
             place == None
             moved == [ns EXCEPT ![n].cursor = place]
  <2> HIDE DEF ns, place
  <2>1. Tree(ns) /\ n \in 2 .. Len(ns) /\ ns[n].type = "folder"
        /\ place \in 0 .. Len(Listing[ns[n].path])
    BY <1>2, <1>4 DEF ns, place
  <2>2. /\ Tree(moved) /\ moved[n].cursor = place /\ moved[n].path = ns[n].path
        /\ moved[n].type = "folder" /\ Len(moved) = Len(ns)
        /\ \A g : ReadsRight(ns, g) => ReadsRight(moved, g)
        /\ \A g : ListsRight(ns, g) /\ g.node # n => ListsRight(moved, g)
        /\ \A M : OpenAmong(ns, M) => OpenAmong(moved, M)
    BY <2>1, SearchMoved
  <2> QED BY <2>2 DEF ns, place
<1> HIDE DEF after
<1>6. TableOf(mOpenFiles', held') /\ TableOf(mOpenFolders', heldDirs')
  BY <1>1, HandleGone DEF FilesInv
<1>7. ASSUME NEW g \in heldDirs' PROVE ListsRight(nodes', g)
  <2>1. g \in heldDirs \ {h} /\ ListsRight(nodes, g)
    BY <1>1 DEF FilesInv
  <2>2. CASE g.node # n
    BY <1>3, <1>5, <2>1, <2>2
  <2>3. CASE g.node = n
    <3>1. g.sound = FALSE
      BY <2>1, <2>3 DEF FilesInv, TableOf, n
    <3> QED BY <1>2, <1>3, <1>5, <2>3, <3>1 DEF ListsRight
  <2> QED BY <2>2, <2>3
<1>8. /\ held' \subseteq FileHandle /\ heldDirs' \subseteq DirHandle
      /\ \A g \in held' : ReadsRight(nodes', g)
      /\ OpenAmong(nodes', {g.node : g \in held'})
  BY <1>1, <1>3, <1>5 DEF FilesInv
<1> QED BY <1>3, <1>5, <1>6, <1>7, <1>8 DEF FilesInv

LEMMA FilesInit == ASSUME InitFiles PROVE FilesInv
<1> DEFINE data == <<"data">>
           root == Folder("/", <<>>)
           vol == Folder("vol", data)
           ns == <<root>>
<1>1. root \in FolderNode /\ root.type = "folder" /\ root.children = <<>>
  BY EmptySeq DEF FolderNode, Folder, NodeNames, Paths, None
<1>2. vol \in FolderNode /\ vol.type = "folder" /\ vol.children = <<>>
      /\ vol.cursor = None /\ vol.path = data
  BY EmptySeq DEF FolderNode, Folder, NodeNames, Paths, None
<1>3. data \in DOMAIN Listing /\ ListsDirectory(Listing[data])
  BY FileAssumption
<1> HIDE DEF root, vol, data
<1>4. ns \in Seq(FolderNode \cup FileNode) /\ Len(ns) = 1 /\ ns[1] = root
  BY <1>1
<1> HIDE DEF ns
<1>5. Tree(ns)
  <2>1. ASSUME NEW k \in 1 .. Len(ns) PROVE ns[k].type = "folder" /\ FolderAt(ns, k)
    <3>1. k = 1
      BY <1>4
    <3>2. DOMAIN ns[k].children = {}
      BY <1>1, <1>4, <3>1
    <3> QED BY <1>1, <1>4, <3>1, <3>2 DEF FolderAt, Root
  <2> QED BY <1>1, <1>4, <2>1 DEF Tree, Root
<1>6. nodes = addChild(ns, 1, vol)
  BY DEF InitFiles, mountHostFolder, ns, root, vol, data, Root
<1>7. Tree(nodes) /\ Grows(ns, nodes)
  <2>1. 1 \in 1 .. Len(ns) /\ ns[1].type = "folder"
    BY <1>1, <1>4
  <2>2. vol \in FolderNode \cup FileNode
        /\ (vol.type = "folder" => /\ vol.children = <<>> /\ vol.cursor = None
                                   /\ vol.path \in DOMAIN Listing
                                   /\ ListsDirectory(Listing[vol.path]))
        /\ (vol.type = "file" => vol.open = FALSE)
    BY <1>2, <1>3
  <2>3. Tree(addChild(ns, 1, vol)) /\ Grows(ns, addChild(ns, 1, vol))
    BY <1>5, <2>1, <2>2, ChildAdded
  <2> QED BY <1>6, <2>3
<1>8. OpenAmong(nodes, {h.node : h \in held})
  <2>1. OpenAmong(ns, {h.node : h \in held})
    <3>1. \A k \in 1 .. Len(ns) : ns[k].type = "folder"
      BY <1>1, <1>4
    <3> QED BY <3>1 DEF OpenAmong
  <2> QED BY <1>5, <1>7, <2>1, ExpectsOfMore
<1>9. TableOf(mOpenFiles, held)
  <2>1. mOpenFiles = [k \in {0} |-> None] /\ held = {}
    BY DEF InitFiles
  <2>2. mOpenFiles \in [0 .. 1 - 1 -> Nat]
    BY <2>1 DEF None
  <2>3. IsTable(mOpenFiles)
    <3>1. 1 \in Nat
      OBVIOUS
    <3> QED BY <2>2, <3>1 DEF IsTable
  <2> QED BY <2>1, <2>3 DEF TableOf
<1>10. TableOf(mOpenFolders, heldDirs)
  <2>1. mOpenFolders = [k \in {} |-> None] /\ heldDirs = {}
    BY DEF InitFiles
  <2>2. mOpenFolders \in [0 .. 0 - 1 -> Nat]
    <3>1. 0 .. 0 - 1 = {}
      OBVIOUS
    <3> QED BY <2>1, <3>1
  <2>3. IsTable(mOpenFolders)
    <3>1. 0 \in Nat
      OBVIOUS
    <3> QED BY <2>2, <3>1 DEF IsTable
  <2> QED BY <2>1, <2>3 DEF TableOf
<1> QED BY <1>7, <1>8, <1>9, <1>10 DEF InitFiles, FilesInv

LEMMA FilesKeep == ASSUME FilesInv PROVE FilesKept
<1>1. HandlesKeepTheirFile
  BY DEF FilesInv, TableOf, HandlesKeepTheirFile
<1>2. ReadsWhereItIs
  <2> SUFFICES ASSUME NEW h \in held, h.sound
               PROVE  /\ nodes[h.node].open /\ ~nodes[h.node].fail
                      /\ nodes[h.node].pos = h.pos
                      /\ SizeOf(nodes[h.node]) = FileSize
    BY DEF ReadsWhereItIs
  <2>1. ReadsRight(nodes, h) /\ h.sound = TRUE
    BY DEF FilesInv, FileHandle
  <2>2. nodes[h.node].open = TRUE /\ nodes[h.node].fail = FALSE /\ nodes[h.node].pos = h.pos
    BY <2>1 DEF ReadsRight
  <2> QED BY <2>2 DEF SizeOf
<1>3. OneNodePerPath
  BY NodeFoundAgain, FileAssumption DEF OneNodePerPath, FilesInv
<1>4. ListingComplete
  <2> SUFFICES ASSUME NEW h \in heldDirs, h.sound, h.ended
               PROVE  LET all == Listing[nodes[h.node].path]
                          entries == SubSeq(all, 3, Len(all))
                      IN  h.got = IF entries = <<>> THEN <<>> ELSE <<"..">> \o entries
    BY DEF ListingComplete
  <2> DEFINE all == Listing[nodes[h.node].path]
             n == Len(all)
             entries == SubSeq(all, 3, n)
  <2>1. ListsRight(nodes, h) /\ h.sound = TRUE /\ h.ended = TRUE
    BY DEF FilesInv, DirHandle
  <2>2. h.got = IF n = 2 THEN <<>> ELSE SubSeq(all, 2, n)
    BY <2>1 DEF ListsRight, ReadSoFar
  <2>3. ListsDirectory(all)
    <3>1. h.node \in 1 .. Len(nodes) /\ h.node # Root /\ nodes[h.node].type = "folder"
      BY <2>1, LenProperties DEF ListsRight, Root, FilesInv, Tree
    <3> QED BY <3>1 DEF FilesInv, Tree, FolderAt
  <2> HIDE DEF all
  <2>4. all \in Seq(STRING) /\ n \in Nat /\ n >= 2 /\ all[2] = ".."
        /\ \A i \in 1 .. n : all[i] \in STRING
    BY <2>3, LenProperties, ElementOfSeq DEF ListsDirectory
  <2>5. CASE n = 2
    <3>1. entries = <<>>
      BY <2>5, SubSeqEmpty
    <3> QED BY <2>2, <2>5, <3>1 DEF all
  <2>6. CASE n # 2
    <3> HIDE DEF n
    <3>1. n > 2 /\ 2 \in 1 .. n /\ n \in 2 .. n
      BY <2>4, <2>6
    <3>2. SubSeq(all, 2, n) = <<all[2]>> \o SubSeq(all, 2 + 1, n)
      BY <2>4, <3>1, SubSeqRecursiveFirst DEF n
    <3>3. entries # <<>>
      <4>1. \A i \in 3 .. n : all[i] \in STRING
        BY <2>4
      <4>2. Len(SubSeq(all, 3, n)) = IF 3 <= n THEN n - 3 + 1 ELSE 0
        BY <2>4, <4>1, SubSeqProperties
      <4>3. Len(entries) # 0
        BY <2>4, <3>1, <4>2
      <4> HIDE DEF entries
      <4> QED BY <4>3
    <3>4. h.got = <<"..">> \o entries
      <4>1. SubSeq(all, 2 + 1, n) = entries
        OBVIOUS
      <4> HIDE DEF entries
      <4> QED BY <2>2, <2>4, <2>6, <3>2, <4>1
    <3> QED BY <3>3, <3>4 DEF all, n
  <2> QED BY <2>5, <2>6
<1> QED BY <1>1, <1>2, <1>3, <1>4 DEF FilesKept

LEMMA FilesStutter == ASSUME FilesInv, UNCHANGED fileVars PROVE FilesInv'
BY DEF fileVars, FilesInv, ReadsRight, ListsRight, OpenAmong, Tree, FolderAt, TableOf

\* Whatever the game opens, reads, seeks, lists and closes, in whatever order, a
\* handle stays that of the file it opened although the slots of closed handles
\* are given again (filesystem.h, coreinit_fs.cpp); a file that is opened once is
\* read where its own reads and seeks have left it; a path leads to the same node
\* again although looking it up adds nodes (filesystem_win_folder.h); and a
\* listing that is read to its end is the one of the disk.  For every disk, every
\* set of paths, every file size and any number of handles.
THEOREM FilesCorrect == SpecFiles => []FilesKept
<1>1. InitFiles => FilesInv
  BY FilesInit
<1>2. FilesInv /\ [NextFiles]_fileVars => FilesInv'
  BY OpenFileStep, GetStatStep, ReadFileStep, SetPosStep, CloseFileStep,
     OpenDirStep, ReadDirStep, CloseDirStep, FilesStutter DEF NextFiles
<1>3. FilesInv => FilesKept
  BY FilesKeep
<1> QED BY <1>1, <1>2, <1>3, PTL DEF SpecFiles

-----------------------------------------------------------------------------
(* A set of numbers has a least one. *)
LEMMA LeastNat ==
    ASSUME NEW T \in SUBSET Nat, T # {}
    PROVE  \E x \in T : \A y \in T : x =< y
<1>1. \E x \in T : \A y \in T : ~(<<y, x>> \in OpToRel(<, Nat))
  BY NatLessThanWellFounded, WFMin
<1>2. \A x, y \in Nat : ~(<<y, x>> \in OpToRel(<, Nat)) => x =< y
  BY DEF OpToRel
<1> QED BY <1>1, <1>2

(* The ring of traces. *)

AnswerType == [reg : GuestReg \cup {NoRegister}, from : Int, oldest : Int, found : Int,
               next : BOOLEAN, asserts : BOOLEAN, ran : BOOLEAN]

Smaller(m, n) == IF m < n THEN m ELSE n

TraceTypes ==
    /\ executed \in Seq(Instruction)
    /\ traces \in [0 .. Slots - 1 -> Instruction]
    /\ index \in 0 .. Slots - 1 /\ numTraces \in 0 .. Slots
    /\ gRegTraceState \in BOOLEAN /\ gRegTraceIndex \in Int
    /\ gRegTraceNextReg \in GuestReg \cup {NoRegister}
    /\ answer \in AnswerType

SlotsCount ==
    /\ Len(executed) < Slots => numTraces = Len(executed) /\ index = Len(executed)
    /\ Len(executed) >= Slots => numTraces = Slots

\* Slot j of the ring has the instruction of this lap, or of the one before.
SlotsHold ==
    /\ \A j \in 0 .. index - 1 : traces[j] = executed[Len(executed) - index + 1 + j]
    /\ Len(executed) >= Slots =>
          \A j \in index .. Slots - 1 :
              traces[j] = executed[Len(executed) - Slots - index + 1 + j]

\* An answer is about instructions that were executed.
AnswerIsPast ==
    answer.reg # NoRegister =>
        answer.oldest \in Nat \ {0} /\ answer.from <= Len(executed)

TraceInv == TraceTypes /\ SlotsCount /\ SlotsHold /\ AnswerIsPast /\ FindsLastWrite

LEMMA ModOnce ==
    ASSUME NEW n \in Nat \ {0}, NEW a \in 0 .. n - 1
    PROVE  a % n = a
  OBVIOUS

LEMMA ModBelow ==
    ASSUME NEW n \in Nat \ {0}, NEW a \in Int, -n <= a, a < 0
    PROVE  a % n = a + n
  OBVIOUS

LEMMA SmallerIs ==
    ASSUME NEW m \in Int, NEW n \in Int
    PROVE  Min({m, n}) = Smaller(m, n)
<1>1. \A x \in {m, n} : (\A y \in {m, n} : x =< y) => x = Smaller(m, n)
  BY DEF Smaller
<1>2. Smaller(m, n) \in {m, n} /\ \A y \in {m, n} : Smaller(m, n) =< y
  BY DEF Smaller
<1> QED BY <1>1, <1>2 DEF Min

(* The k-th trace from the last is the k-th instruction from the last. *)
LEMMA TracesAre ==
    ASSUME TraceTypes, SlotsCount, SlotsHold, NEW k \in 0 .. numTraces - 1
    PROVE  getTrace(k) = executed[Len(executed) - k] /\ Len(executed) - k \in DOMAIN executed
<1> DEFINE L == Len(executed)
<1>0. /\ L \in Nat /\ DOMAIN executed = 1 .. L /\ Slots \in Nat \ {0}
      /\ index \in 0 .. Slots - 1 /\ numTraces \in 0 .. Slots
  BY TraceAssumption DEF TraceTypes
<1>1. /\ L < Slots => numTraces = L /\ index = L
      /\ L >= Slots => numTraces = Slots
  BY DEF SlotsCount
<1>2. /\ \A j \in 0 .. index - 1 : traces[j] = executed[L - index + 1 + j]
      /\ L >= Slots => \A j \in index .. Slots - 1 : traces[j] = executed[L - Slots - index + 1 + j]
  BY DEF SlotsHold
<1> HIDE DEF L
<1>3. L - k \in 1 .. L
  BY <1>0, <1>1
<1>4. CASE index - 1 - k >= 0
  <2>1. (index - 1 - k) % numTraces = index - 1 - k
    <3>1. index - 1 - k \in 0 .. numTraces - 1 /\ numTraces \in Nat \ {0}
      BY <1>0, <1>1, <1>4
    <3> QED BY <3>1, ModOnce
  <2>2. index - 1 - k \in 0 .. index - 1 /\ L - index + 1 + (index - 1 - k) = L - k
    BY <1>0, <1>4
  <2>3. traces[index - 1 - k] = executed[L - k]
    BY <1>2, <2>2
  <2> QED BY <1>0, <1>3, <2>1, <2>3 DEF getTrace, L
<1>5. CASE index - 1 - k < 0
  <2>0. numTraces = Slots /\ L >= Slots
    BY <1>0, <1>1, <1>5
  <2>1. (index - 1 - k) % numTraces = index - 1 - k + Slots
    <3>1. -Slots <= index - 1 - k /\ index - 1 - k \in Int
      BY <1>0, <2>0
    <3> QED BY <1>0, <3>1, <2>0, <1>5, ModBelow
  <2>2. /\ index - 1 - k + Slots \in index .. Slots - 1
        /\ L - Slots - index + 1 + (index - 1 - k + Slots) = L - k
    BY <1>0, <1>5, <2>0
  <2>3. traces[index - 1 - k + Slots] = executed[L - k]
    BY <1>2, <2>0, <2>2
  <2> QED BY <1>0, <1>3, <2>1, <2>3 DEF getTrace, L
<1> QED BY <1>0, <1>4, <1>5

LEMMA InstructionStep ==
    ASSUME TraceInv, traceInstruction
    PROVE  TraceInv'
<1> DEFINE L == Len(executed)
<1>0. /\ L \in Nat /\ DOMAIN executed = 1 .. L /\ executed \in Seq(Instruction)
      /\ index \in 0 .. Slots - 1 /\ numTraces \in 0 .. Slots /\ answer \in AnswerType
      /\ traces \in [0 .. Slots - 1 -> Instruction] /\ Slots \in Nat \ {0}
  BY TraceAssumption DEF TraceTypes, TraceInv
<1>a. /\ L < Slots => numTraces = L /\ index = L
      /\ L >= Slots => numTraces = Slots
  BY DEF SlotsCount, TraceInv
<1>b. /\ \A j \in 0 .. index - 1 : traces[j] = executed[L - index + 1 + j]
      /\ L >= Slots => \A j \in index .. Slots - 1 : traces[j] = executed[L - Slots - index + 1 + j]
  BY DEF SlotsHold, TraceInv
<1>1. PICK i \in Instruction : /\ traces' = [traces EXCEPT ![index] = i]
                               /\ executed' = Append(executed, i)
  BY DEF traceInstruction
<1>2. /\ numTraces' = Min({numTraces + 1, Slots}) /\ index' = (index + 1) % Slots
      /\ answer' = [answer EXCEPT !.ran = TRUE]
      /\ UNCHANGED <<gRegTraceState, gRegTraceIndex, gRegTraceNextReg>>
  BY DEF traceInstruction
<1>3. /\ L' = L + 1 /\ executed'[L + 1] = i
      /\ \A p \in 1 .. L : executed'[p] = executed[p]
      /\ executed' \in Seq(Instruction)
  BY <1>0, <1>1
<1>t. /\ traces'[index] = i
      /\ \A j \in 0 .. Slots - 1 : j # index => traces'[j] = traces[j]
      /\ traces' \in [0 .. Slots - 1 -> Instruction]
  BY <1>0, <1>1
<1> HIDE DEF L
<1>4. numTraces' = IF L < Slots THEN L + 1 ELSE Slots
  <2>1. numTraces' = Smaller(numTraces + 1, Slots)
    <3>1. numTraces + 1 \in Int /\ Slots \in Int
      BY <1>0
    <3> QED BY <1>2, <3>1, SmallerIs
  <2> QED BY <1>0, <1>a, <2>1 DEF Smaller
<1>5. index' = IF index = Slots - 1 THEN 0 ELSE index + 1
  <2>1. CASE index = Slots - 1
    <3>1. index + 1 = Slots /\ Slots % Slots = 0
      BY <1>0, <2>1
    <3> QED BY <1>2, <2>1, <3>1
  <2>2. CASE index # Slots - 1
    <3>1. index + 1 \in 0 .. Slots - 1
      BY <1>0, <2>2
    <3>2. (index + 1) % Slots = index + 1
      BY <1>0, <3>1, ModOnce
    <3> QED BY <1>2, <2>2, <3>2
  <2> QED BY <2>1, <2>2
<1>6. SlotsHold' /\ SlotsCount'
  <2>1. CASE index = Slots - 1
    <3>1. index' = 0 /\ L + 1 >= Slots
      BY <1>0, <1>a, <1>5, <2>1
    <3>2. \A j \in 0 .. Slots - 1 : traces'[j] = executed'[(L + 1) - Slots - 0 + 1 + j]
      <4> TAKE j \in 0 .. Slots - 1
      <4>1. CASE j = index
        <5>1. (L + 1) - Slots - 0 + 1 + j = L + 1
          BY <1>0, <2>1, <4>1
        <5> QED BY <1>3, <1>t, <4>1, <5>1
      <4>2. CASE j # index
        <5>1. j \in 0 .. index - 1 /\ L - index + 1 + j \in 1 .. L
          BY <1>0, <1>a, <2>1, <4>2
        <5>2. L - index + 1 + j = (L + 1) - Slots - 0 + 1 + j
          BY <1>0, <2>1
        <5> QED BY <1>b, <1>3, <1>t, <4>2, <5>1, <5>2
      <4> QED BY <4>1, <4>2
    <3>3. SlotsHold'
      <4>1. 0 .. index' - 1 = {} /\ index' .. Slots - 1 = 0 .. Slots - 1
        BY <3>1
      <4>2. \A j \in index' .. Slots - 1 :
               traces'[j] = executed'[Len(executed') - Slots - index' + 1 + j]
        <5>1. Len(executed') = L + 1
          BY <1>3 DEF L
        <5> QED BY <3>1, <3>2, <4>1, <5>1
      <4> QED BY <4>1, <4>2 DEF SlotsHold
    <3>4. SlotsCount'
      <4>1. (L + 1 < Slots => numTraces' = L + 1 /\ index' = L + 1) /\ (L + 1 >= Slots => numTraces' = Slots)
        BY <1>0, <1>a, <1>4, <3>1
      <4> QED BY <1>3, <4>1 DEF SlotsCount, L
    <3> QED BY <3>3, <3>4
  <2>2. CASE index # Slots - 1
    <3>1. index' = index + 1
      BY <1>5, <2>2
    <3>2. ASSUME NEW j \in 0 .. index PROVE traces'[j] = executed'[(L + 1) - (index + 1) + 1 + j]
      <4>1. CASE j = index
        <5>1. (L + 1) - (index + 1) + 1 + j = L + 1
          BY <1>0, <4>1
        <5> QED BY <1>3, <1>t, <4>1, <5>1
      <4>2. CASE j # index
        <5>1. /\ j \in 0 .. index - 1 /\ L - index + 1 + j \in 1 .. L /\ j \in 0 .. Slots - 1
              /\ L - index + 1 + j = (L + 1) - (index + 1) + 1 + j
          BY <1>0, <1>a, <4>2
        <5> QED BY <1>b, <1>3, <1>t, <4>2, <5>1
      <4> QED BY <4>1, <4>2
    <3>3. ASSUME L + 1 >= Slots, NEW j \in index + 1 .. Slots - 1
          PROVE  traces'[j] = executed'[(L + 1) - Slots - (index + 1) + 1 + j]
      <4>1. L >= Slots
        BY <1>0, <1>a, <2>2, <3>3
      <4>2. /\ j \in index .. Slots - 1 /\ j # index /\ j \in 0 .. Slots - 1
            /\ L - Slots - index + 1 + j \in 1 .. L
            /\ L - Slots - index + 1 + j = (L + 1) - Slots - (index + 1) + 1 + j
        BY <1>0, <4>1
      <4> QED BY <1>b, <1>3, <1>t, <4>1, <4>2
    <3>4. SlotsCount'
      <4>1. (L + 1 < Slots => numTraces' = L + 1 /\ index' = L + 1) /\ (L + 1 >= Slots => numTraces' = Slots)
        BY <1>0, <1>a, <1>4, <2>2, <3>1
      <4> QED BY <1>3, <4>1 DEF SlotsCount, L
    <3>5. SlotsHold'
      <4>1. index' - 1 = index
        BY <1>0, <3>1
      <4> QED BY <1>3, <3>1, <3>2, <3>3, <4>1 DEF SlotsHold, L
    <3> QED BY <3>4, <3>5
  <2> QED BY <2>1, <2>2
<1>7. TraceTypes'
  <2>1. index' \in 0 .. Slots - 1 /\ numTraces' \in 0 .. Slots
    BY <1>0, <1>4, <1>5
  <2>2. answer' \in AnswerType
    BY <1>0, <1>2 DEF AnswerType
  <2> QED BY <1>2, <1>3, <1>t, <2>1, <2>2 DEF TraceTypes, TraceInv
<1>8. /\ answer'.reg = answer.reg /\ answer'.from = answer.from /\ answer'.ran
      /\ answer'.oldest = answer.oldest /\ answer'.found = answer.found
      /\ answer'.asserts = answer.asserts
  BY <1>0, <1>2 DEF AnswerType
<1>9. AnswerIsPast'
  BY <1>0, <1>3, <1>8 DEF AnswerIsPast, TraceInv, AnswerType, L
<1>10. ASSUME answer'.reg # NoRegister
       PROVE  {p \in answer'.oldest .. answer'.from : answer'.reg \in executed'[p].writes}
              = {p \in answer.oldest .. answer.from : answer.reg \in executed[p].writes}
  <2>1. \A p \in answer.oldest .. answer.from : p \in 1 .. L
    BY <1>0, <1>8, <1>10 DEF AnswerIsPast, TraceInv, AnswerType, L
  <2> QED BY <1>3, <1>8, <2>1
<1>11. FindsLastWrite'
  <2>1. answer.reg # NoRegister => answer # NoAnswer
    BY DEF NoAnswer
  <2> QED BY <1>8, <1>10, <2>1 DEF FindsLastWrite, TraceInv
<1> QED BY <1>6, <1>7, <1>9, <1>11 DEF TraceInv

(* A search from a place that getTrace knows, or from right after the oldest. *)
LEMMA SearchStep ==
    ASSUME TraceInv, NEW start \in Nat, NEW reg \in GuestReg, NEW next \in BOOLEAN,
           Search(start, reg, next), gRegTraceState' \in BOOLEAN,
           UNCHANGED <<index, numTraces, traces, executed>>
    PROVE  TraceInv'
<1> USE TraceAssumption
<1> DEFINE L == Len(executed)
           hits == {k \in start .. numTraces - 1 : reg \in getTrace(k).writes}
           found == traceReg(start, reg)
           from == L - start
           least == L - numTraces + 1
           writers == {p \in least .. from : reg \in executed[p].writes}
<1>0. /\ L \in Nat /\ numTraces \in 0 .. Slots /\ TraceTypes /\ SlotsCount /\ SlotsHold
      /\ reg # NoRegister
  BY DEF TraceTypes, TraceInv
<1>1. least \in Nat \ {0} /\ from \in Int /\ from <= L
  BY <1>0 DEF SlotsCount
<1>2. \A k \in start .. numTraces - 1 : L - k \in least .. from /\ getTrace(k) = executed[L - k]
  BY <1>0, TracesAre
<1>3. \A p \in least .. from : L - p \in start .. numTraces - 1 /\ L - (L - p) = p
  BY <1>0
<1>4. CASE hits = {}
  <2>1. found = -1 /\ writers = {}
    BY <1>2, <1>3, <1>4 DEF traceReg
  <2>2. answer' = [reg |-> reg, from |-> from, oldest |-> least, found |-> 0,
                   next |-> next, asserts |-> start >= numTraces, ran |-> FALSE]
        /\ gRegTraceIndex' = -1
    BY <2>1 DEF Search
  <2>3. answer' \in AnswerType
    BY <1>0, <1>1, <2>2 DEF AnswerType
  <2>4. TraceTypes' /\ SlotsCount' /\ SlotsHold' /\ AnswerIsPast'
    <3>1. gRegTraceNextReg' \in GuestReg \cup {NoRegister}
      BY <1>0, <2>1 DEF Search, TraceTypes
    <3> QED BY <1>0, <1>1, <2>2, <2>3, <3>1 DEF TraceTypes, SlotsCount, SlotsHold, AnswerIsPast
  <2>5. {p \in answer'.oldest .. answer'.from : answer'.reg \in executed'[p].writes} = writers
    BY <2>2
  <2>6. (start >= numTraces) <=> (from < least)
    BY <1>0
  <2>7. FindsLastWrite'
    <3>1. /\ answer'.reg = reg /\ answer'.from = from /\ answer'.oldest = least
          /\ answer'.found = 0 /\ answer'.asserts = (start >= numTraces)
      BY <2>2
    <3>2. /\ answer'.found = IF writers = {} THEN 0 ELSE Max(writers)
          /\ ~(answer'.found > 0)
      BY <2>1, <3>1
    <3> HIDE DEF from, least, writers, found, hits
    <3> QED BY <2>5, <2>6, <3>1, <3>2 DEF FindsLastWrite
  <2> QED BY <2>4, <2>7 DEF TraceInv
<1>5. CASE hits # {}
  <2>0. hits \in SUBSET Nat
    BY <1>0
  <2>1. PICK k \in hits : \A m \in hits : k =< m
    BY <1>5, <2>0, LeastNat
  <2>2. found = k
    <3>1. Min(hits) = k
      <4>1. \A x \in hits : (\A y \in hits : x =< y) => x = k
        BY <2>0, <2>1
      <4> QED BY <2>1, <4>1 DEF Min
    <3> QED BY <1>5, <3>1 DEF traceReg
  <2>3. k \in start .. numTraces - 1 /\ k \in Nat /\ k # -1
    BY <1>0
  <2>4. answer' = [reg |-> reg, from |-> from, oldest |-> least, found |-> L - k,
                   next |-> next, asserts |-> start >= numTraces, ran |-> FALSE]
        /\ gRegTraceIndex' = k + 1
    BY <2>2, <2>3 DEF Search
  <2>5. answer' \in AnswerType
    BY <1>0, <1>1, <2>3, <2>4 DEF AnswerType
  <2>6. TraceTypes' /\ SlotsCount' /\ SlotsHold' /\ AnswerIsPast'
    <3>1. getTrace(k).reads \in SUBSET GuestReg
      <4>1. getTrace(k) = executed[L - k] /\ L - k \in DOMAIN executed /\ executed \in Seq(Instruction)
        BY <1>0, <2>3, TracesAre DEF TraceTypes
      <4>2. executed[L - k] \in Instruction
        BY <4>1
      <4> QED BY <4>1, <4>2 DEF Instruction
    <3>2. Cardinality(getTrace(k).reads) = 1 => (CHOOSE r \in getTrace(k).reads : TRUE) \in GuestReg
      BY <3>1, FS_EmptySet
    <3>3. gRegTraceNextReg' = IF Cardinality(getTrace(k).reads) = 1
                              THEN CHOOSE r \in getTrace(k).reads : TRUE ELSE NoRegister
      BY <2>2, <2>3 DEF Search
    <3>4. gRegTraceNextReg' \in GuestReg \cup {NoRegister}
      BY <3>2, <3>3
    <3> QED BY <1>0, <1>1, <2>3, <2>4, <2>5, <3>4 DEF TraceTypes, SlotsCount, SlotsHold, AnswerIsPast
  <2>7. L - k \in writers /\ \A p \in writers : L - k >= p
    <3>1. L - k \in writers
      BY <1>2, <2>3
    <3>2. ASSUME NEW p \in writers PROVE L - k >= p
      <4>1. p \in least .. from /\ reg \in executed[p].writes
        OBVIOUS
      <4>2. L - p \in start .. numTraces - 1 /\ getTrace(L - p) = executed[p]
        BY <1>2, <1>3, <4>1
      <4>3. L - p \in hits
        BY <4>1, <4>2
      <4>4. k =< L - p
        BY <2>1, <4>3
      <4> QED BY <1>0, <1>1, <2>3, <4>1, <4>4
    <3> QED BY <3>1, <3>2
  <2>8. Max(writers) = L - k /\ writers # {}
    <3>1. \A x \in writers : x \in Int
      BY <1>1
    <3>2. ASSUME NEW x \in writers, \A y \in writers : x >= y PROVE x = L - k
      <4>1. x >= L - k /\ L - k >= x /\ x \in Int /\ L - k \in Int
        BY <1>0, <2>3, <2>7, <3>1, <3>2
      <4> QED BY <4>1
    <3> QED BY <2>7, <3>2 DEF Max
  <2>9. {p \in answer'.oldest .. answer'.from : answer'.reg \in executed'[p].writes} = writers
    BY <2>4
  <2>10. (start >= numTraces) <=> (from < least)
    BY <1>0
  <2>11. L - (k + 1) < L - k
    BY <1>0, <2>3
  <2> HIDE DEF writers, from, least
  <2>12. FindsLastWrite'
    <3>1. /\ answer'.reg = reg /\ answer'.from = from /\ answer'.oldest = least
          /\ answer'.found = L - k /\ answer'.asserts = (start >= numTraces)
          /\ L' = L /\ gRegTraceIndex' = k + 1
      BY <2>4
    <3> QED BY <3>1, <2>8, <2>9, <2>10, <2>11 DEF FindsLastWrite
  <2> QED BY <2>6, <2>12 DEF TraceInv
<1> QED BY <1>4, <1>5

(* The ring has the latest instructions in order, and every search of it finds *)
(* the last write of its register: for any size of the ring, any registers,    *)
(* and however many instructions were traced or come between two searches.     *)
THEOREM TracesCorrect == SpecTrace => []TraceTells
<1> USE TraceAssumption
<1>1. InitTrace => TraceInv
  <2> SUFFICES ASSUME InitTrace PROVE TraceInv
    OBVIOUS
  <2>1. Len(executed) = 0 /\ executed \in Seq(Instruction)
    BY DEF InitTrace
  <2>2. [reads |-> {}, writes |-> {}] \in Instruction
    BY DEF Instruction
  <2>3. answer \in AnswerType /\ answer.reg = NoRegister
    BY DEF InitTrace, NoAnswer, AnswerType
  <2>4. TraceTypes
    <3>1. traces \in [0 .. Slots - 1 -> Instruction]
      BY <2>2 DEF InitTrace
    <3>2. /\ index \in 0 .. Slots - 1 /\ numTraces \in 0 .. Slots
          /\ gRegTraceState \in BOOLEAN /\ gRegTraceIndex \in Int
          /\ gRegTraceNextReg \in GuestReg \cup {NoRegister}
      <4>1. index = 0 /\ numTraces = 0 /\ gRegTraceState = FALSE /\ gRegTraceIndex = 0
            /\ gRegTraceNextReg = NoRegister
        BY DEF InitTrace
      <4>2. 0 \in 0 .. Slots - 1 /\ 0 \in 0 .. Slots
        OBVIOUS
      <4>3. gRegTraceState \in BOOLEAN
        BY <4>1, Zenon
      <4> QED BY <4>1, <4>2, <4>3
    <3> QED BY <2>1, <2>3, <3>1, <3>2 DEF TraceTypes
  <2>5. SlotsCount /\ SlotsHold
    BY <2>1 DEF InitTrace, SlotsCount, SlotsHold
  <2> QED BY <2>3, <2>4, <2>5 DEF TraceInv, AnswerIsPast, FindsLastWrite
<1>2. TraceInv /\ [NextTrace]_traceVars => TraceInv'
  <2> SUFFICES ASSUME TraceInv, [NextTrace]_traceVars PROVE TraceInv'
    OBVIOUS
  <2>1. CASE traceInstruction
    BY <2>1, InstructionStep
  <2>2. CASE traceRegStart
    <3>1. PICK start \in 0 .. Slots - 1, reg \in GuestReg : Search(start, reg, FALSE)
      BY <2>2 DEF traceRegStart
    <3>2. start \in Nat /\ gRegTraceState' \in BOOLEAN
          /\ UNCHANGED <<index, numTraces, traces, executed>>
      BY <2>2 DEF traceRegStart, Working
    <3> QED BY <3>1, <3>2, SearchStep
  <2>3. CASE traceRegNext
    <3>1. PICK reg \in GuestReg : Search(gRegTraceIndex, reg, TRUE)
      BY <2>3 DEF traceRegNext
    <3>2. gRegTraceIndex \in Nat /\ gRegTraceState' \in BOOLEAN
          /\ UNCHANGED <<index, numTraces, traces, executed>>
      BY <2>3 DEF traceRegNext, CanGoOn, Working, TraceInv, TraceTypes
    <3> QED BY <3>1, <3>2, SearchStep
  <2>4. CASE traceRegContinue
    <3>1. gRegTraceNextReg \in GuestReg /\ Search(gRegTraceIndex, gRegTraceNextReg, TRUE)
      BY <2>4 DEF traceRegContinue, TraceInv, TraceTypes
    <3>2. gRegTraceIndex \in Nat /\ gRegTraceState' \in BOOLEAN
          /\ UNCHANGED <<index, numTraces, traces, executed>>
      BY <2>4 DEF traceRegContinue, CanGoOn, Working, TraceInv, TraceTypes
    <3> QED BY <3>1, <3>2, SearchStep
  <2>5. CASE UNCHANGED traceVars
    BY <2>5 DEF traceVars, TraceInv, TraceTypes, SlotsCount, SlotsHold, AnswerIsPast, FindsLastWrite
  <2> QED BY <2>1, <2>2, <2>3, <2>4, <2>5 DEF NextTrace
<1>3. TraceInv => TraceTells
  <2> SUFFICES ASSUME TraceInv PROVE TraceTells
    OBVIOUS
  <2>1. numTraces = Min({Len(executed), Slots})
    <3>1. Len(executed) \in Nat
      BY DEF TraceInv, TraceTypes
    <3> QED BY <3>1, SmallerIs DEF TraceInv, SlotsCount, Smaller
  <2>2. \A k \in 0 .. numTraces - 1 : getTrace(k) = executed[Len(executed) - k]
    BY TracesAre DEF TraceInv
  <2> QED BY <2>1, <2>2 DEF TraceTells, TracesInOrder, TraceInv
<1> QED BY <1>1, <1>2, <1>3, PTL DEF SpecTrace

-----------------------------------------------------------------------------
(* Memory lists and the registry of heaps. *)

Item == Object \cup {NoObject}
ListType == [head : Item, tail : Item, count : Int, next : [Object -> Item],
             prev : [Object -> Item]]

\* The links of list l lead through the objects of s, in order.
Linked(l, s) ==
    /\ \A i, j \in 1 .. Len(s) : s[i] = s[j] => i = j
    /\ l.head = IF s = <<>> THEN NoObject ELSE s[1]
    /\ \A i \in 1 .. Len(s) : l.next[s[i]] = IF i = Len(s) THEN NoObject ELSE s[i + 1]

ListInv ==
    /\ list \in ListType /\ model \in Seq(Object)
    /\ wrong = "none" =>
          /\ Linked(list, model)
          /\ list.count = Len(model)
          /\ list.tail = IF model = <<>> THEN NoObject ELSE model[Len(model)]

\* A region's list: its first heap is its tail, and leads to the newest.
RegionKept(r) ==
    LET l == lists[r] IN
    \/ /\ oldest[r] = NoObject /\ newest[r] = NoObject
       /\ l.head = NoObject /\ l.tail = NoObject
    \/ /\ oldest[r] \in created /\ findListContainingHeap(oldest[r]) = r
       /\ l.head = oldest[r] /\ l.tail = oldest[r]
       /\ \/ newest[r] = oldest[r] /\ l.next[oldest[r]] = NoObject
          \/ /\ newest[r] \in Object /\ newest[r] # oldest[r]
             /\ l.next[oldest[r]] = newest[r] /\ l.next[newest[r]] = NoObject

RegistryInv ==
    /\ lists \in [Region -> ListType] /\ created \subseteq Object
    /\ oldest \in [Region -> Item] /\ newest \in [Region -> Item]
    /\ \A r \in Region : RegionKept(r)

(* No list is longer than there are objects. *)
LEMMA NoLonger ==
    ASSUME NEW s \in Seq(Object), \A i, j \in 1 .. Len(s) : s[i] = s[j] => i = j
    PROVE  Len(s) <= Cardinality(Object) /\ Cardinality(Object) \in Nat
<1> USE ObjectAssumption
<1> DEFINE I == 1 .. Len(s)
           f == [i \in I |-> s[i]]
<1>1. f \in [I -> Object]
  OBVIOUS
<1>2. f \in Injection(I, Object)
  BY <1>1 DEF Injection, IsInjective
<1>3. IsFiniteSet(I) /\ Cardinality(I) = Len(s)
  <2>1. Len(s) \in Nat /\ 1 \in Int /\ Len(s) \in Int
    OBVIOUS
  <2>2. IsFiniteSet(1 .. Len(s)) /\ Cardinality(1 .. Len(s)) = IF 1 > Len(s) THEN 0 ELSE Len(s) - 1 + 1
    BY <2>1, FS_Interval
  <2> QED BY <2>1, <2>2
<1>4. Cardinality(Object) \in Nat
  BY FS_CardinalityType
<1> QED BY <1>2, <1>3, <1>4, FS_Injection

(* A walk meets the objects of a linked list and ends. *)
LEMMA WalkIs ==
    ASSUME NEW l \in ListType, NEW s \in Seq(Object), Linked(l, s)
    PROVE  ListWalk(l) = [n \in 0 .. Cardinality(Object) |->
                            IF n < Len(s) THEN s[n + 1] ELSE NoObject]
<1> USE ObjectAssumption
<1> DEFINE D == 0 .. Cardinality(Object)
           Def(f) == f = [n \in D |->
                            IF n = 0 THEN MEMGetNextListObject(l, NoObject)
                            ELSE IF f[n - 1] = NoObject THEN NoObject
                            ELSE MEMGetNextListObject(l, f[n - 1])]
           g == [n \in D |-> IF n < Len(s) THEN s[n + 1] ELSE NoObject]
<1>1. Cardinality(Object) \in Nat /\ Len(s) <= Cardinality(Object) /\ Len(s) \in Nat
  BY NoLonger DEF Linked
<1>2. ASSUME NEW n \in D
      PROVE  g[n] = IF n = 0 THEN MEMGetNextListObject(l, NoObject)
                    ELSE IF g[n - 1] = NoObject THEN NoObject
                    ELSE MEMGetNextListObject(l, g[n - 1])
  <2>1. CASE n = 0
    <3>1. MEMGetNextListObject(l, NoObject) = IF s = <<>> THEN NoObject ELSE s[1]
      BY DEF MEMGetNextListObject, Linked
    <3>2. s = <<>> <=> ~(0 < Len(s))
      OBVIOUS
    <3> QED BY <1>1, <2>1, <3>1, <3>2
  <2>2. CASE n # 0 /\ ~(n - 1 < Len(s))
    <3>1. n - 1 \in D /\ ~(n < Len(s))
      BY <1>1, <2>2
    <3> QED BY <2>2, <3>1
  <2>3. CASE n # 0 /\ n - 1 < Len(s)
    <3>1. n - 1 \in D /\ n \in 1 .. Len(s) /\ n - 1 + 1 = n /\ s[n] \in Object
      BY <1>1, <2>3
    <3>2. g[n - 1] = s[n] /\ s[n] # NoObject
      BY <2>3, <3>1
    <3>3. MEMGetNextListObject(l, s[n]) = IF n = Len(s) THEN NoObject ELSE s[n + 1]
      BY <3>1, <3>2 DEF MEMGetNextListObject, Linked
    <3>4. n = Len(s) <=> ~(n < Len(s))
      BY <1>1, <3>1
    <3> QED BY <2>3, <3>2, <3>3, <3>4
  <2> QED BY <2>1, <2>2, <2>3
<1>3. Def(g)
  BY <1>2
<1>4. ListWalk(l) = CHOOSE f : Def(f)
  BY DEF ListWalk
<1>5. Def(ListWalk(l))
  <2> HIDE DEF Def, g
  <2> QED BY <1>3, <1>4
<1> DEFINE f == ListWalk(l)
<1> HIDE DEF f, g
<1>6. \A n \in D : f[n] = g[n]
  <2> DEFINE Bad == {n \in D : f[n] # g[n]}
  <2>1. SUFFICES ASSUME Bad # {} PROVE FALSE
    OBVIOUS
  <2>2. Bad \in SUBSET Nat
    BY <1>1
  <2>3. PICK n \in Bad : \A m \in Bad : n =< m
    BY <2>1, <2>2, LeastNat
  <2>4. n \in Nat /\ n \in D /\ f[n] # g[n]
    BY <1>1
  <2>5. n # 0
    BY <1>2, <1>5, <2>4 DEF f
  <2>6. n - 1 \in D /\ n - 1 \notin Bad
    BY <1>1, <2>3, <2>4, <2>5
  <2>7. f[n - 1] = g[n - 1]
    BY <2>6
  <2>8. f[n] = IF f[n - 1] = NoObject THEN NoObject ELSE MEMGetNextListObject(l, f[n - 1])
    BY <1>5, <2>4, <2>5 DEF f
  <2>9. g[n] = IF g[n - 1] = NoObject THEN NoObject ELSE MEMGetNextListObject(l, g[n - 1])
    BY <1>2, <2>4, <2>5
  <2> QED BY <2>4, <2>7, <2>8, <2>9
<1> QED BY <1>3, <1>5, <1>6 DEF f, g

(* The search of a linked list finds a heap with the address if there is one. *)
LEMMA FoundIs ==
    ASSUME NEW l \in ListType, NEW s \in Seq(Object), Linked(l, s), NEW place
    PROVE  LET found == findHeapContainingBlock(l, place) IN
           /\ found # NoObject =>
                 HasAddress(found, place) /\ \E i \in 1 .. Len(s) : found = s[i]
           /\ found = NoObject => \A i \in 1 .. Len(s) : ~HasAddress(s[i], place)
<1> USE ObjectAssumption
<1> DEFINE D == 0 .. Cardinality(Object)
           w == ListWalk(l)
           holding == {n \in D : w[n] # NoObject /\ HasAddress(w[n], place)}
           found == findHeapContainingBlock(l, place)
<1>1. Cardinality(Object) \in Nat /\ Len(s) <= Cardinality(Object) /\ Len(s) \in Nat
  BY NoLonger DEF Linked
<1>2. w = [n \in D |-> IF n < Len(s) THEN s[n + 1] ELSE NoObject]
  BY WalkIs
<1>3. found = IF holding = {} THEN NoObject
              ELSE w[CHOOSE n \in holding : \A m \in holding : n <= m]
  BY DEF findHeapContainingBlock
<1> HIDE DEF w, found
<1>4. CASE holding = {}
  <2>1. ASSUME NEW i \in 1 .. Len(s) PROVE ~HasAddress(s[i], place)
    <3>1. i - 1 \in D /\ i - 1 < Len(s) /\ i - 1 + 1 = i /\ s[i] \in Object
      BY <1>1
    <3>2. w[i - 1] = s[i]
      BY <1>2, <3>1
    <3>3. i - 1 \notin holding
      BY <1>4
    <3> QED BY <3>1, <3>2, <3>3
  <2> QED BY <1>3, <1>4, <2>1 DEF found
<1>5. CASE holding # {}
  <2>1. holding \in SUBSET Nat
    BY <1>1
  <2>2. \E n \in holding : \A m \in holding : n <= m
    BY <1>5, <2>1, LeastNat
  <2>3. PICK n \in holding : found = w[n]
    BY <1>3, <1>5, <2>2
  <2>4. n \in D /\ w[n] # NoObject /\ HasAddress(w[n], place) /\ n \in Nat
    BY <1>1
  <2>5. n < Len(s) /\ w[n] = s[n + 1]
    BY <1>2, <2>4
  <2>6. n + 1 \in 1 .. Len(s)
    BY <1>1, <2>4, <2>5
  <2> QED BY <2>3, <2>4, <2>5, <2>6 DEF found
<1> QED BY <1>4, <1>5

(* The fields of a list after each operation. *)

LEMMA TypedIs ==
    ASSUME NEW h \in Item, NEW t \in Item, NEW c \in Int, NEW n \in [Object -> Item],
           NEW p \in [Object -> Item]
    PROVE  [head |-> h, tail |-> t, count |-> c, next |-> n, prev |-> p] \in ListType
BY DEF ListType

LEMMA FirstIs ==
    ASSUME NEW l \in ListType, NEW o \in Object
    PROVE  LET m == setFirstObject(l, o) IN
           /\ m \in ListType /\ m.head = o /\ m.tail = o /\ m.count = 1
           /\ m.next = [l.next EXCEPT ![o] = NoObject]
<1> DEFINE m == setFirstObject(l, o)
           m1 == [l EXCEPT !.head = o]
           m2 == [m1 EXCEPT !.tail = o]
           m3 == [m2 EXCEPT !.next = [@ EXCEPT ![o] = NoObject]]
           m4 == [m3 EXCEPT !.prev = [@ EXCEPT ![o] = NoObject]]
           m5 == [m4 EXCEPT !.count = 1]
<1>1. m.head = o /\ m.tail = o
  BY DEF setFirstObject, ListType
<1>2. m.count = 1
  BY DEF setFirstObject, ListType
<1>3. m.next = [l.next EXCEPT ![o] = NoObject]
  BY DEF setFirstObject, ListType
<1>4. o \in Item /\ NoObject \in Item
  BY DEF Item
<1>5. m = m5
  BY Zenon DEF setFirstObject
<1>6. m1 \in ListType
  BY <1>4 DEF ListType
<1> HIDE DEF m1
<1>7. m2 \in ListType
  BY <1>4, <1>6 DEF ListType
<1> HIDE DEF m2
<1>8. m3 \in ListType
  BY <1>4, <1>7 DEF ListType
<1> HIDE DEF m3
<1>9. m4 \in ListType
  BY <1>4, <1>8 DEF ListType
<1> HIDE DEF m4
<1>10. m5 \in ListType
  BY <1>9 DEF ListType
<1> QED BY <1>1, <1>2, <1>3, <1>5, <1>10 DEF m1, m2, m3, m4

LEMMA AppendIs ==
    ASSUME NEW l \in ListType, NEW o \in Object, l.tail # NoObject
    PROVE  LET m == MEMAppendListObject(l, o) IN
           /\ m \in ListType /\ m.head = l.head /\ m.tail = l.tail /\ m.count = l.count + 1
           /\ m.next = [[l.next EXCEPT ![l.tail] = o] EXCEPT ![o] = NoObject]
<1> DEFINE n == [[l.next EXCEPT ![l.tail] = o] EXCEPT ![o] = NoObject]
           p == [l.prev EXCEPT ![o] = l.tail]
<1>1. MEMAppendListObject(l, o) =
        [head |-> l.head, tail |-> l.tail, count |-> l.count + 1, next |-> n, prev |-> p]
  BY DEF MEMAppendListObject, ListType
<1>2. n \in [Object -> Item] /\ p \in [Object -> Item]
  BY DEF ListType, Item
<1>3. l.head \in Item /\ l.tail \in Item /\ l.count + 1 \in Int
  BY DEF ListType
<1> HIDE DEF n, p
<1>4. [head |-> l.head, tail |-> l.tail, count |-> l.count + 1, next |-> n, prev |-> p] \in ListType
  BY <1>2, <1>3, TypedIs
<1> QED BY <1>1, <1>4 DEF n

LEMMA PrependIs ==
    ASSUME NEW l \in ListType, NEW o \in Object, l.head # NoObject
    PROVE  LET m == MEMPrependListObject(l, o) IN
           /\ m \in ListType /\ m.head = o /\ m.tail = l.tail /\ m.count = l.count + 1
           /\ m.next = [l.next EXCEPT ![o] = l.head]
<1> DEFINE n == [l.next EXCEPT ![o] = l.head]
           p == [[l.prev EXCEPT ![l.head] = o] EXCEPT ![o] = NoObject]
<1>1. MEMPrependListObject(l, o) =
        [head |-> o, tail |-> l.tail, count |-> l.count + 1, next |-> n, prev |-> p]
  BY DEF MEMPrependListObject, ListType
<1>2. n \in [Object -> Item] /\ p \in [Object -> Item]
  BY DEF ListType, Item
<1>3. o \in Item /\ l.tail \in Item /\ l.count + 1 \in Int
  BY DEF ListType, Item
<1> HIDE DEF n, p
<1>4. [head |-> o, tail |-> l.tail, count |-> l.count + 1, next |-> n, prev |-> p] \in ListType
  BY <1>2, <1>3, TypedIs
<1> QED BY <1>1, <1>4 DEF n

LEMMA InsertIs ==
    ASSUME NEW l \in ListType, NEW o \in Object, NEW before \in Object
    PROVE  MEMInsertListObject(l, before, o) \in ListType
<1> USE ObjectAssumption
<1> DEFINE n == [l.next EXCEPT ![o] = before]
           p == [[l.prev EXCEPT ![o] = l.prev[before]] EXCEPT ![before] = o]
<1>1. before # NoObject
  OBVIOUS
<1>2. CASE before = l.head
  BY <1>1, <1>2, PrependIs DEF MEMInsertListObject
<1>3. CASE before # l.head
  <2>1. MEMInsertListObject(l, before, o) =
          [head |-> l.head, tail |-> l.tail, count |-> l.count + 1, next |-> n, prev |-> p]
    BY <1>1, <1>3 DEF MEMInsertListObject, ListType
  <2>2. n \in [Object -> Item] /\ p \in [Object -> Item]
    BY DEF ListType, Item
  <2>3. l.head \in Item /\ l.tail \in Item /\ l.count + 1 \in Int
    BY DEF ListType
  <2> HIDE DEF n, p
  <2> QED BY <2>1, <2>2, <2>3, TypedIs
<1> QED BY <1>2, <1>3

LEMMA RemoveIs ==
    ASSUME NEW l \in ListType, NEW o \in Object
    PROVE  LET m == MEMRemoveListObject(l, o) IN
           /\ m \in ListType
           /\ l.head = o /\ l.tail = o => m.head = NoObject /\ m.tail = NoObject /\ m.count = 0
           /\ l.head = o /\ l.tail # o =>
                 m.head = l.next[o] /\ m.tail = l.tail /\ m.count = l.count - 1 /\ m.next = l.next
<1> USE ObjectAssumption
<1> DEFINE m == MEMRemoveListObject(l, o)
<1>1. o # NoObject /\ l.next[o] \in Item /\ l.prev[o] \in Item /\ NoObject \in Item
  BY DEF ListType, Item
<1>2. CASE l.head = o /\ l.tail = o
  <2> DEFINE m1 == [l EXCEPT !.head = NoObject]
             m2 == [m1 EXCEPT !.tail = NoObject]
             m3 == [m2 EXCEPT !.count = 0]
  <2>1. m = [l EXCEPT !.head = NoObject, !.tail = NoObject, !.count = 0]
    BY <1>2 DEF MEMRemoveListObject
  <2>2. m = m3
    BY <2>1, Zenon
  <2>3. m.head = NoObject /\ m.tail = NoObject
    BY <2>1 DEF ListType
  <2>4. m.count = 0
    BY <2>1 DEF ListType
  <2>5. m1 \in ListType
    BY <1>1 DEF ListType
  <2> HIDE DEF m1
  <2>6. m2 \in ListType
    BY <1>1, <2>5 DEF ListType
  <2> HIDE DEF m2
  <2>7. m3 \in ListType
    BY <2>6 DEF ListType
  <2> QED BY <1>2, <2>2, <2>3, <2>4, <2>7 DEF m1, m2
<1>3. CASE l.head = o /\ l.tail # o
  <2>1. m = [head |-> l.next[o], tail |-> l.tail, count |-> l.count - 1, next |-> l.next,
             prev |-> l.prev]
    BY <1>1, <1>3 DEF MEMRemoveListObject, MEMGetNextListObject, ListType
  <2>2. l.tail \in Item /\ l.count - 1 \in Int /\ l.next \in [Object -> Item]
        /\ l.prev \in [Object -> Item]
    BY DEF ListType
  <2>3. m \in ListType
    BY <1>1, <2>1, <2>2, TypedIs
  <2> QED BY <1>3, <2>1, <2>3
<1>4. CASE l.head # o /\ l.tail = o
  <2>1. m = [head |-> l.head, tail |-> l.prev[o], count |-> l.count - 1, next |-> l.next,
             prev |-> l.prev]
    BY <1>1, <1>4 DEF MEMRemoveListObject, MEMGetPrevListObject, ListType
  <2>2. l.head \in Item /\ l.count - 1 \in Int /\ l.next \in [Object -> Item]
        /\ l.prev \in [Object -> Item]
    BY DEF ListType
  <2>3. m \in ListType
    BY <1>1, <2>1, <2>2, TypedIs
  <2> QED BY <1>4, <2>3
<1>5. CASE l.head # o /\ l.tail # o
  BY <1>5 DEF MEMRemoveListObject
<1> QED BY <1>2, <1>3, <1>4, <1>5

(* A client's own list. *)

LEMMA InsertIsSeq ==
    ASSUME NEW s \in Seq(Object), NEW n \in 1 .. Len(s), NEW o \in Object
    PROVE  InsertAt(s, n, o) \in Seq(Object)
<1>1. SubSeq(s, 1, n - 1) \in Seq(Object) /\ SubSeq(s, n, Len(s)) \in Seq(Object)
  BY SubSeqProperties
<1> DEFINE a == SubSeq(s, 1, n - 1)
           b == SubSeq(s, n, Len(s))
<1> HIDE DEF a, b
<1>2. (a \o <<o>>) \o b \in Seq(Object)
  BY <1>1 DEF a, b
<1> QED BY <1>2 DEF InsertAt, a, b

LEMMA RemoveIsSeq ==
    ASSUME NEW s \in Seq(Object), NEW n \in 1 .. Len(s)
    PROVE  /\ RemoveAt(s, n) \in Seq(Object)
           /\ n = 1 => /\ Len(RemoveAt(s, 1)) = Len(s) - 1
                       /\ \A i \in 1 .. Len(s) - 1 : RemoveAt(s, 1)[i] = s[i + 1]
<1>0. Len(s) \in Nat /\ n \in Nat /\ \A i \in 1 .. Len(s) : s[i] \in Object
  OBVIOUS
<1> DEFINE a == SubSeq(s, 1, n - 1)
           b == SubSeq(s, n + 1, Len(s))
<1>1. a \in Seq(Object) /\ Len(a) = n - 1
  <2>1. \A i \in 1 .. n - 1 : s[i] \in Object
    BY <1>0
  <2>2. 1 \in Int /\ n - 1 \in Int
    BY <1>0
  <2>3. SubSeq(s, 1, n - 1) \in Seq(Object)
        /\ Len(SubSeq(s, 1, n - 1)) = IF 1 <= n - 1 THEN n - 1 - 1 + 1 ELSE 0
    BY <2>1, <2>2, SubSeqProperties
  <2> QED BY <1>0, <2>3
<1>2. /\ b \in Seq(Object) /\ Len(b) = Len(s) - n
      /\ \A i \in 1 .. Len(s) - n : b[i] = s[n + i]
  <2>1. \A i \in n + 1 .. Len(s) : s[i] \in Object
    BY <1>0
  <2>2. n + 1 \in Int /\ Len(s) \in Int
    BY <1>0
  <2>3. /\ SubSeq(s, n + 1, Len(s)) \in Seq(Object)
        /\ Len(SubSeq(s, n + 1, Len(s))) =
              IF n + 1 <= Len(s) THEN Len(s) - (n + 1) + 1 ELSE 0
        /\ \A i \in 1 .. Len(s) - (n + 1) + 1 : SubSeq(s, n + 1, Len(s))[i] = s[n + 1 + i - 1]
    BY <2>1, <2>2, SubSeqProperties
  <2> HIDE DEF b
  <2>4. Len(b) = Len(s) - n /\ Len(s) - (n + 1) + 1 = Len(s) - n
    BY <1>0, <2>3 DEF b
  <2>5. ASSUME NEW i \in 1 .. Len(s) - n PROVE b[i] = s[n + i]
    <3>1. n + 1 + i - 1 = n + i /\ i \in 1 .. Len(s) - (n + 1) + 1
      BY <1>0, <2>4
    <3>2. b[i] = s[n + 1 + i - 1]
      BY <2>3, <3>1 DEF b
    <3> QED BY <3>1, <3>2
  <2>6. b \in Seq(Object)
    BY <2>3 DEF b
  <2> QED BY <2>4, <2>5, <2>6
<1>3. RemoveAt(s, n) = a \o b
  BY DEF RemoveAt
<1> HIDE DEF a, b
<1>4. a \o b \in Seq(Object)
  BY <1>1, <1>2
<1>5. CASE n = 1
  <2>1. a = <<>>
    BY <1>1, <1>5
  <2>2. a \o b = b
    BY <1>2, <2>1
  <2>3. \A i \in Nat : n + i = i + 1
    BY <1>5
  <2> QED BY <1>0, <1>2, <1>3, <1>4, <1>5, <2>2, <2>3
<1> QED BY <1>3, <1>4, <1>5


LEMMA PrependKeeps ==
    ASSUME ListInv, wrong = "none", NEW o \in Outside,
           list' = MEMPrependListObject(list, o), model' = <<o>> \o model, wrong' = "none"
    PROVE  ListInv'
<1> USE ObjectAssumption
<1> DEFINE L == Len(model)
<1>1. /\ list \in ListType /\ model \in Seq(Object) /\ L \in Nat /\ o \in Object
      /\ \A i \in 1 .. L : model[i] # o /\ model[i] \in Object
      /\ Linked(list, model) /\ list.count = L
      /\ list.tail = IF model = <<>> THEN NoObject ELSE model[L]
  BY DEF ListInv, Outside
<1>2. /\ model' \in Seq(Object) /\ Len(model') = L + 1 /\ model'[1] = o /\ model' # <<>>
      /\ \A i \in 2 .. L + 1 : model'[i] = model[i - 1]
  BY <1>1
<1>3. \A i, j \in 1 .. L + 1 : model'[i] = model'[j] => i = j
  <2> TAKE i, j \in 1 .. L + 1
  <2>1. CASE i = 1 \/ j = 1
    BY <1>1, <1>2, <2>1
  <2>2. CASE i # 1 /\ j # 1
    <3>1. i - 1 \in 1 .. L /\ j - 1 \in 1 .. L /\ i \in 2 .. L + 1 /\ j \in 2 .. L + 1
      BY <1>1, <2>2
    <3> QED BY <1>1, <1>2, <3>1 DEF Linked
  <2> QED BY <2>1, <2>2
<1>4. CASE model = <<>>
  <2>1. L = 0 /\ list.head = NoObject
    BY <1>1, <1>4 DEF Linked
  <2>2. list' = setFirstObject(list, o)
    BY <2>1 DEF MEMPrependListObject
  <2>3. /\ list'.head = o /\ list'.tail = o /\ list'.count = 1 /\ list' \in ListType
        /\ list'.next = [list.next EXCEPT ![o] = NoObject]
    BY <1>1, <2>2, FirstIs
  <2>4. list'.next[o] = NoObject
    BY <1>1, <2>3 DEF ListType
  <2>5. Linked(list', model')
    BY <1>2, <1>3, <2>1, <2>3, <2>4 DEF Linked
  <2>6. list'.count = Len(model') /\ list'.tail = model'[Len(model')]
    BY <1>2, <2>1, <2>3
  <2> QED BY <1>2, <2>3, <2>5, <2>6 DEF ListInv
<1>5. CASE model # <<>>
  <2>1. L >= 1 /\ model[1] \in Object /\ list.head = model[1]
    BY <1>1, <1>5 DEF Linked
  <2>2. /\ list'.head = o /\ list'.tail = list.tail /\ list'.count = L + 1
        /\ list'.next = [list.next EXCEPT ![o] = model[1]] /\ list' \in ListType
    <3>1. list.head # NoObject
      BY <2>1
    <3>2. LET m == MEMPrependListObject(list, o) IN
          /\ m \in ListType /\ m.head = o /\ m.tail = list.tail /\ m.count = list.count + 1
          /\ m.next = [list.next EXCEPT ![o] = list.head]
      BY <1>1, <3>1, PrependIs
    <3> QED BY <1>1, <2>1, <3>2
  <2>3. list'.next[o] = model[1] /\ \A u \in Object : u # o => list'.next[u] = list.next[u]
    BY <1>1, <2>2 DEF ListType
  <2>4. ASSUME NEW i \in 1 .. L + 1
        PROVE  list'.next[model'[i]] = IF i = L + 1 THEN NoObject ELSE model'[i + 1]
    <3>1. CASE i = 1
      <4>1. 2 \in 2 .. L + 1 /\ 1 # L + 1
        BY <1>1, <2>1
      <4> QED BY <1>2, <2>3, <3>1, <4>1
    <3>2. CASE i # 1
      <4>1. i \in 2 .. L + 1 /\ i - 1 \in 1 .. L /\ (i - 1) + 1 = i
        BY <1>1, <3>2
      <4>2. model'[i] = model[i - 1] /\ model[i - 1] # o /\ model[i - 1] \in Object
        BY <1>1, <1>2, <4>1
      <4>3. list'.next[model'[i]] = IF i - 1 = L THEN NoObject ELSE model[i]
        BY <1>1, <2>3, <4>1, <4>2, SMTT(40) DEF Linked
      <4>4. i # L + 1 => i + 1 \in 2 .. L + 1 /\ model'[i + 1] = model[i]
        BY <1>1, <1>2, <4>1
      <4> QED BY <1>1, <4>1, <4>3, <4>4
    <3> QED BY <3>1, <3>2
  <2>5. Linked(list', model')
    BY <1>2, <1>3, <2>2, <2>4 DEF Linked
  <2>6. list'.tail = model'[L + 1]
    BY <1>1, <1>2, <1>5, <2>1, <2>2
  <2> QED BY <1>2, <2>2, <2>5, <2>6 DEF ListInv
<1> QED BY <1>4, <1>5

LEMMA ListStep ==
    ASSUME ListInv, NextList
    PROVE  ListInv'
<1> USE ObjectAssumption
<1>0. /\ wrong = "none" /\ list \in ListType /\ model \in Seq(Object)
      /\ Linked(list, model) /\ list.count = Len(model)
      /\ list.tail = IF model = <<>> THEN NoObject ELSE model[Len(model)]
  BY DEF ListInv, NextList, AppendObject, PrependObject, InsertObject, RemoveObject
<1>1. CASE AppendObject
  <2>1. PICK o \in Outside : list' = MEMAppendListObject(list, o) /\ model' = Append(model, o)
    BY <1>1 DEF AppendObject
  <2>2. wrong' = IF Len(model) = 0 THEN "none" ELSE "tail not moved"
    BY <1>1 DEF AppendObject
  <2>3. o \in Object
    BY DEF Outside
  <2>4. CASE Len(model) = 0
    <3>1. model = <<>> /\ list.tail = NoObject /\ list.head = NoObject
      BY <1>0, <2>4 DEF Linked
    <3>2. list' = MEMPrependListObject(list, o) /\ model' = <<o>> \o model
      BY <2>1, <3>1 DEF MEMAppendListObject, MEMPrependListObject
    <3> QED BY <1>0, <2>2, <2>4, <3>2, PrependKeeps
  <2>5. CASE Len(model) # 0
    <3>1. list.tail # NoObject
      <4>1. Len(model) \in Nat /\ model # <<>>
        BY <1>0, <2>5
      <4>2. Len(model) \in DOMAIN model
        BY <1>0, <2>5, <4>1
      <4>3. model[Len(model)] \in Object
        BY <1>0, <4>2
      <4> QED BY <1>0, <4>1, <4>3
    <3>2. list' \in ListType
      BY <1>0, <2>1, <2>3, <3>1, AppendIs
    <3>3. model' \in Seq(Object)
      BY <1>0, <2>1, <2>3
    <3>4. wrong' # "none"
      BY <2>2, <2>5
    <3> QED BY <3>2, <3>3, <3>4 DEF ListInv
  <2> QED BY <2>4, <2>5
<1>2. CASE PrependObject
  BY <1>0, <1>2, PrependKeeps DEF PrependObject
<1>3. CASE InsertObject
  <2>1. PICK o \in Outside, n \in DOMAIN model :
           /\ list' = MEMInsertListObject(list, model[n], o)
           /\ model' = InsertAt(model, n, o)
           /\ wrong' = IF n = 1 THEN "none" ELSE "not linked"
    BY <1>3 DEF InsertObject
  <2>2. o \in Object /\ n \in 1 .. Len(model) /\ model[n] \in Object /\ model[1] \in Object
    BY <1>0 DEF Outside
  <2>3. CASE n = 1
    <3>1. list.head = model[1] /\ model[1] # NoObject
      BY <1>0, <2>2 DEF Linked
    <3>2. list' = MEMPrependListObject(list, o)
      BY <2>1, <2>3, <3>1 DEF MEMInsertListObject
    <3>3. model' = <<o>> \o model
      <4>1. SubSeq(model, 1, 0) = <<>> /\ SubSeq(model, 1, Len(model)) = model
        BY <1>0
      <4> QED BY <1>0, <2>1, <2>3, <4>1 DEF InsertAt
    <3> QED BY <1>0, <2>1, <2>3, <3>2, <3>3, PrependKeeps
  <2>4. CASE n # 1
    <3>1. list' \in ListType
      BY <1>0, <2>1, <2>2, InsertIs
    <3>2. model' \in Seq(Object)
      BY <1>0, <2>1, <2>2, InsertIsSeq
    <3>3. wrong' # "none"
      BY <2>1, <2>4
    <3> QED BY <3>1, <3>2, <3>3 DEF ListInv
  <2> QED BY <2>3, <2>4
<1>4. CASE RemoveObject
  <2>1. PICK n \in DOMAIN model :
           /\ list' = MEMRemoveListObject(list, model[n])
           /\ model' = RemoveAt(model, n)
           /\ wrong' = CASE Len(model) = 1 -> "none"
                         [] n = 1 /\ Len(model) > 1 -> "none"
                         [] n > 1 /\ n = Len(model) -> "end still linked"
                         [] OTHER -> "not removed"
    BY <1>4 DEF RemoveObject
  <2> DEFINE L == Len(model)
  <2>2. n \in 1 .. L /\ L \in Nat /\ model[n] \in Object /\ \A i \in 1 .. L : model[i] \in Object
    BY <1>0
  <2>3. model' \in Seq(Object)
    BY <1>0, <2>1, <2>2, RemoveIsSeq
  <2>4. list' \in ListType
    BY <1>0, <2>1, <2>2, RemoveIs
  <2>5. CASE L = 1
    <3>0. n = 1 /\ model # <<>>
      BY <2>2, <2>5
    <3>1. n = 1 /\ list.head = model[1] /\ list.tail = model[1]
      BY <1>0, <2>5, <3>0 DEF Linked
    <3>2. list'.head = NoObject /\ list'.tail = NoObject /\ list'.count = 0
      BY <1>0, <2>1, <2>2, <3>1, RemoveIs
    <3>3. model' = <<>>
      <4>1. Len(model') = 0
        BY <1>0, <2>1, <2>2, <2>5, <3>1, RemoveIsSeq
      <4> QED BY <2>3, <4>1
    <3>4. Linked(list', model')
      BY <3>2, <3>3 DEF Linked
    <3> QED BY <2>3, <2>4, <3>2, <3>3, <3>4 DEF ListInv
  <2>6. CASE L > 1 /\ n = 1
    <3>1. list.head = model[1] /\ list.tail = model[L] /\ model[1] # model[L] /\ model[1] # NoObject
      BY <1>0, <2>2, <2>6 DEF Linked
    <3>2. /\ list'.head = list.next[model[1]] /\ list'.tail = list.tail /\ list'.next = list.next
          /\ list'.count = L - 1
      BY <1>0, <2>1, <2>2, <2>6, <3>1, RemoveIs
    <3>3. list.next[model[1]] = model[2]
      BY <1>0, <2>2, <2>6 DEF Linked
    <3>4. /\ Len(model') = L - 1 /\ model' # <<>>
          /\ \A i \in 1 .. L - 1 : model'[i] = model[i + 1]
      <4>1. /\ Len(model') = L - 1
            /\ \A i \in 1 .. L - 1 : model'[i] = model[i + 1]
        BY <1>0, <2>1, <2>2, <2>6, RemoveIsSeq
      <4>2. L - 1 # 0
        BY <2>2, <2>6
      <4> QED BY <4>1, <4>2
    <3>5. \A i \in 1 .. L - 1 : i + 1 \in 1 .. L
      BY <2>2
    <3>6. \A i, j \in 1 .. L - 1 : model'[i] = model'[j] => i = j
      BY <1>0, <2>2, <3>4, <3>5 DEF Linked
    <3>7. ASSUME NEW i \in 1 .. L - 1
          PROVE  list'.next[model'[i]] = IF i = L - 1 THEN NoObject ELSE model'[i + 1]
      <4>1. list.next[model[i + 1]] = IF i + 1 = L THEN NoObject ELSE model[(i + 1) + 1]
        BY <1>0, <3>5 DEF Linked
      <4>2. i # L - 1 => i + 1 \in 1 .. L - 1
        BY <2>2
      <4> QED BY <2>2, <3>2, <3>4, <4>1, <4>2
    <3>8. Linked(list', model')
      BY <2>6, <3>2, <3>3, <3>4, <3>6, <3>7 DEF Linked
    <3>9. list'.tail = model'[L - 1]
      BY <2>2, <2>6, <3>1, <3>2, <3>4
    <3> QED BY <2>3, <2>4, <3>2, <3>4, <3>8, <3>9 DEF ListInv
  <2>7. CASE L > 1 /\ n # 1
    <3>1. wrong' # "none"
      <4>1. n > 1 /\ L # 1
        BY <2>2, <2>7
      <4>2. CASE n = L
        BY <2>1, <4>1, <4>2
      <4>3. CASE n # L
        BY <2>1, <2>7, <4>1, <4>3
      <4> QED BY <4>2, <4>3
    <3> QED BY <2>3, <2>4, <3>1 DEF ListInv
  <2>8. L = 1 \/ L > 1
    <3>1. n \in 1 .. L /\ L \in Nat
      BY <2>2
    <3> HIDE DEF L
    <3> QED BY <3>1
  <2> QED BY <2>5, <2>6, <2>7, <2>8
<1> QED BY <1>1, <1>2, <1>3, <1>4 DEF NextList

(* The registry. *)

LEMMA PairCounts ==
    ASSUME NEW a, NEW b, a # b
    PROVE  Cardinality({a, b}) = 2
<1>1. IsFiniteSet({a}) /\ Cardinality({a}) = 1
  BY FS_Singleton
<1>2. Cardinality({a} \cup {b}) = 1 + 1
  BY <1>1, FS_AddElement
<1>3. {a} \cup {b} = {a, b}
  OBVIOUS
<1> QED BY <1>2, <1>3

LEMMA RegionsAre ==
    ASSUME NEW x
    PROVE  findListContainingHeap(x) \in Region /\ findListContainingBlock(x) \in Region
BY DEF findListContainingHeap, findListContainingBlock, Region

(* The list of a region leads through its oldest and its newest heap. *)
LEMMA KeptIsLinked ==
    ASSUME RegistryInv, NEW r \in Region
    PROVE  \E s \in Seq(Object) :
              /\ Linked(lists[r], s)
              /\ Kept(r) = {s[i] : i \in 1 .. Len(s)}
<1> USE ObjectAssumption
<1> DEFINE l == lists[r]
           f == oldest[r]
           n == newest[r]
<1>0. RegionKept(r) /\ created \subseteq Object
  BY DEF RegistryInv
<1>1. CASE f = NoObject
  <2>1. Len(<<>>) = 0 /\ <<>> \in Seq(Object)
    OBVIOUS
  <2>2. f = NoObject /\ n = NoObject /\ l.head = NoObject
    BY <1>0, <1>1 DEF RegionKept
  <2>3. Linked(l, <<>>)
    BY <2>1, <2>2 DEF Linked
  <2>4. Kept(r) = {<<>>[i] : i \in 1 .. Len(<<>>)}
    BY <2>1, <2>2 DEF Kept
  <2> QED BY <2>1, <2>3, <2>4
<1>2. CASE f # NoObject /\ n = f
  <2> DEFINE s == <<f>>
  <2>0. f \in Object /\ l.head = f /\ l.next[f] = NoObject
    BY <1>0, <1>2 DEF RegionKept
  <2>1. s \in Seq(Object) /\ Len(s) = 1 /\ s[1] = f /\ s # <<>> /\ \A i \in 1 .. 1 : i = 1
    BY <2>0
  <2>4. Kept(r) = {f}
    BY <1>2 DEF Kept
  <2> HIDE DEF s, f, n, l
  <2>2. Linked(l, s)
    BY <2>0, <2>1 DEF Linked
  <2>3. {s[i] : i \in 1 .. Len(s)} = {f}
    BY <2>1
  <2> QED BY <2>1, <2>2, <2>3, <2>4 DEF l
<1>3. CASE f # NoObject /\ n # f
  <2> DEFINE s == <<f, n>>
  <2>0. f \in Object /\ n \in Object /\ f # n /\ l.head = f /\ l.next[f] = n /\ l.next[n] = NoObject
    BY <1>0, <1>3 DEF RegionKept
  <2>1. s \in Seq(Object) /\ Len(s) = 2 /\ s[1] = f /\ s[2] = n /\ s # <<>>
    BY <2>0
  <2>2. 1 .. 2 = {1, 2} /\ 1 + 1 = 2 /\ 1 # 2
    OBVIOUS
  <2>7. Kept(r) = {f, n}
    BY <1>3, <2>0 DEF Kept
  <2> HIDE DEF s, f, n, l
  <2>3. \A i, j \in 1 .. Len(s) : s[i] = s[j] => i = j
    BY <2>0, <2>1, <2>2
  <2>4. \A i \in 1 .. Len(s) : l.next[s[i]] = IF i = Len(s) THEN NoObject ELSE s[i + 1]
    BY <2>0, <2>1, <2>2
  <2>5. Linked(l, s)
    BY <2>0, <2>1, <2>3, <2>4 DEF Linked
  <2>6. {s[i] : i \in 1 .. Len(s)} = {f, n}
    BY <2>1, <2>2
  <2> QED BY <2>1, <2>5, <2>6, <2>7 DEF l
<1> QED BY <1>1, <1>2, <1>3

LEMMA FoundInRegion ==
    ASSUME RegistryInv, NEW place
    PROVE  LET found == MEMFindContainHeap(place)
               r == findListContainingBlock(place)
           IN  /\ found # NoObject => found \in Kept(r) /\ HasAddress(found, place)
               /\ found = NoObject => \A h \in Kept(r) : ~HasAddress(h, place)
<1> DEFINE r == findListContainingBlock(place)
           found == MEMFindContainHeap(place)
<1>1. r \in Region /\ lists[r] \in ListType
  BY RegionsAre DEF RegistryInv
<1>2. PICK s \in Seq(Object) :
         Linked(lists[r], s) /\ Kept(r) = {s[i] : i \in 1 .. Len(s)}
  BY <1>1, KeptIsLinked
<1>3. found = findHeapContainingBlock(lists[r], place)
  BY DEF MEMFindContainHeap
<1> HIDE DEF r, found
<1>4. /\ found # NoObject => HasAddress(found, place) /\ \E i \in 1 .. Len(s) : found = s[i]
      /\ found = NoObject => \A i \in 1 .. Len(s) : ~HasAddress(s[i], place)
  BY <1>1, <1>2, <1>3, FoundIs
<1>5. /\ found # NoObject => found \in Kept(r) /\ HasAddress(found, place)
      /\ found = NoObject => \A h \in Kept(r) : ~HasAddress(h, place)
  BY <1>2, <1>4
<1> QED BY <1>5 DEF r, found

(* The list a heap is registered in is the one an address of it is looked for in. *)
LEMMA SameRegion ==
    ASSUME NEW h \in Object, \A r \in {"FG", "MEM1"} : Extent[h][2] # RegionEnd[r],
           NEW place \in Extent[h][1] .. Extent[h][2] - 1
    PROVE  findListContainingBlock(place) = findListContainingHeap(h)
<1> USE RegionAssumption
<1> DEFINE s == Extent[h][1]
           e == Extent[h][2]
           HeapIn(r) == s >= RegionStart[r] /\ e < RegionEnd[r]
           AddrIn(r) == place >= RegionStart[r] /\ place < RegionEnd[r]
<1>1. ASSUME NEW r \in {"FG", "MEM1"} PROVE HeapIn(r) <=> AddrIn(r)
  <2> DEFINE b == RegionStart[r]
             f == RegionEnd[r]
  <2>1. s \in Nat /\ e \in Nat /\ b \in Nat /\ f \in Nat /\ e # f /\ place \in s .. e - 1
    OBVIOUS
  <2>2. (b <= s /\ e <= f) \/ e <= b \/ f <= s
    OBVIOUS
  <2> HIDE DEF s, e, b, f
  <2>3. s >= b /\ e < f <=> place >= b /\ place < f
    BY <2>1, <2>2
  <2> QED BY <2>3 DEF s, e, b, f
<1>2. findListContainingHeap(h) = CASE HeapIn("FG") -> "FG"
                                    [] ~HeapIn("FG") /\ HeapIn("MEM1") -> "MEM1"
                                    [] OTHER -> "MEM2"
  BY DEF findListContainingHeap
<1>3. findListContainingBlock(place) = CASE AddrIn("FG") -> "FG"
                                        [] ~AddrIn("FG") /\ AddrIn("MEM1") -> "MEM1"
                                        [] OTHER -> "MEM2"
  BY DEF findListContainingBlock
<1>4. (HeapIn("FG") <=> AddrIn("FG")) /\ (HeapIn("MEM1") <=> AddrIn("MEM1"))
  BY <1>1
<1> HIDE DEF HeapIn, AddrIn
<1> QED BY <1>2, <1>3, <1>4

LEMMA RegistryStep ==
    ASSUME RegistryInv, NextRegistry
    PROVE  RegistryInv'
<1> USE ObjectAssumption
<1>1. CASE MEMiInitHeapHead
  <2>1. PICK heap \in Object \ created :
           LET q == findListContainingHeap(heap)
           IN  /\ lists' = [lists EXCEPT ![q] = MEMAppendListObject(@, heap)]
               /\ created' = created \cup {heap}
               /\ oldest' = IF oldest[q] = NoObject THEN [oldest EXCEPT ![q] = heap] ELSE oldest
               /\ newest' = [newest EXCEPT ![q] = heap]
    BY <1>1, Zenon DEF MEMiInitHeapHead
  <2> DEFINE r == findListContainingHeap(heap)
             l == lists[r]
             m == MEMAppendListObject(l, heap)
  <2>2. r \in Region /\ RegionKept(r) /\ l \in ListType /\ heap \in Object
    BY <2>1, RegionsAre DEF RegistryInv
  <2>3. m \in ListType
    BY <2>2, FirstIs, AppendIs DEF MEMAppendListObject
  <2>4. lists' \in [Region -> ListType] /\ lists'[r] = m
        /\ \A q \in Region : q # r => lists'[q] = lists[q]
    BY <2>1, <2>2, <2>3 DEF RegistryInv
  <2>5. /\ oldest' \in [Region -> Item] /\ newest' \in [Region -> Item]
        /\ oldest'[r] = (IF oldest[r] = NoObject THEN heap ELSE oldest[r]) /\ newest'[r] = heap
        /\ \A q \in Region : q # r => oldest'[q] = oldest[q] /\ newest'[q] = newest[q]
    <3>1. heap \in Item
      BY DEF Item
    <3> QED BY <2>1, <2>2, <3>1 DEF RegistryInv
  <2>6. RegionKept(r)'
    <3>1. CASE oldest[r] = NoObject
      <4>0. l.tail = NoObject
        BY <2>2, <3>1 DEF RegionKept, RegistryInv
      <4>1. m = setFirstObject(l, heap)
        BY <4>0 DEF MEMAppendListObject
      <4>2. m.head = heap /\ m.tail = heap /\ m.next = [l.next EXCEPT ![heap] = NoObject]
        BY <2>2, <4>1, FirstIs
      <4>3. m.next[heap] = NoObject
        BY <2>2, <4>2 DEF ListType
      <4>4. oldest'[r] = heap /\ newest'[r] = heap /\ heap \in created'
        BY <2>1, <2>5, <3>1
      <4> QED BY <2>4, <4>2, <4>3, <4>4 DEF RegionKept
    <3>2. CASE oldest[r] # NoObject
      <4> DEFINE a == oldest[r]
      <4>1. a \in created /\ a \in Object /\ a # heap /\ l.head = a /\ l.tail = a /\ a # NoObject
            /\ findListContainingHeap(a) = r
        BY <2>2, <3>2 DEF RegionKept, RegistryInv
      <4>2. /\ m.head = a /\ m.tail = a
            /\ m.next = [[l.next EXCEPT ![a] = heap] EXCEPT ![heap] = NoObject]
        BY <2>2, <4>1, AppendIs
      <4>3. m.next[a] = heap /\ m.next[heap] = NoObject
        BY <2>2, <4>1, <4>2 DEF ListType
      <4>4. oldest'[r] = a /\ newest'[r] = heap /\ a \in created'
        BY <2>1, <2>5, <3>2, <4>1
      <4> QED BY <2>2, <2>4, <4>1, <4>2, <4>3, <4>4 DEF RegionKept
    <3> QED BY <3>1, <3>2
  <2>7. ASSUME NEW q \in Region PROVE RegionKept(q)'
    <3>1. CASE q = r
      BY <2>6, <3>1
    <3>2. CASE q # r
      <4>1. /\ RegionKept(q) /\ lists'[q] = lists[q] /\ oldest'[q] = oldest[q]
            /\ newest'[q] = newest[q] /\ created \subseteq created'
        BY <2>1, <2>4, <2>5, <3>2 DEF RegistryInv
      <4> QED BY <4>1 DEF RegionKept
    <3> QED BY <3>1, <3>2
  <2>8. created' \subseteq Object
    BY <2>1 DEF RegistryInv
  <2> QED BY <2>4, <2>5, <2>7, <2>8 DEF RegistryInv
<1>2. CASE MEMiFinaliseHeap
  <2>1. PICK heap \in created :
           LET q == findListContainingHeap(heap)
           IN  /\ lists' = [lists EXCEPT ![q] = MEMRemoveListObject(@, heap)]
               /\ created' = created \ {heap}
               /\ IF heap = oldest[q]
                  THEN /\ oldest' = [oldest EXCEPT ![q] = NoObject]
                       /\ newest' = [newest EXCEPT ![q] = NoObject]
                  ELSE UNCHANGED <<oldest, newest>>
    BY <1>2, Zenon DEF MEMiFinaliseHeap
  <2> DEFINE r == findListContainingHeap(heap)
             l == lists[r]
             m == MEMRemoveListObject(l, heap)
  <2>2. r \in Region /\ RegionKept(r) /\ l \in ListType /\ heap \in Object
    BY <2>1, RegionsAre DEF RegistryInv
  <2>3. m \in ListType
    BY <2>2, RemoveIs
  <2>4. lists' \in [Region -> ListType] /\ lists'[r] = m
        /\ \A q \in Region : q # r => lists'[q] = lists[q]
    BY <2>1, <2>2, <2>3 DEF RegistryInv
  <2>5. /\ oldest' \in [Region -> Item] /\ newest' \in [Region -> Item]
        /\ \A q \in Region : q # r => oldest'[q] = oldest[q] /\ newest'[q] = newest[q]
    <3>1. NoObject \in Item
      BY DEF Item
    <3> QED BY <2>1, <2>2, <3>1 DEF RegistryInv
  <2>6. RegionKept(r)'
    <3>1. CASE heap = oldest[r]
      <4>1. l.head = heap /\ l.tail = heap
        BY <2>2, <3>1 DEF RegionKept
      <4>2. m.head = NoObject /\ m.tail = NoObject
        BY <2>2, <4>1, RemoveIs
      <4>3. oldest'[r] = NoObject /\ newest'[r] = NoObject
        BY <2>1, <2>2, <3>1 DEF RegistryInv
      <4> QED BY <2>4, <4>2, <4>3 DEF RegionKept
    <3>2. CASE heap # oldest[r]
      <4>1. l.head # heap /\ l.tail # heap
        BY <2>2, <3>2 DEF RegionKept
      <4>2. m = l
        BY <4>1 DEF MEMRemoveListObject
      <4>3. UNCHANGED <<oldest, newest>> /\ (oldest[r] \in created => oldest[r] \in created')
        BY <2>1, <3>2
      <4> QED BY <2>2, <2>4, <4>2, <4>3 DEF RegionKept
    <3> QED BY <3>1, <3>2
  <2>7. ASSUME NEW q \in Region PROVE RegionKept(q)'
    <3>1. CASE q = r
      BY <2>6, <3>1
    <3>2. CASE q # r
      <4>1. /\ RegionKept(q) /\ lists'[q] = lists[q] /\ oldest'[q] = oldest[q]
            /\ newest'[q] = newest[q]
        BY <2>4, <2>5, <3>2 DEF RegistryInv
      <4>2. oldest[q] \in created /\ findListContainingHeap(oldest[q]) = q
            => oldest[q] \in created'
        BY <2>1, <3>2
      <4> QED BY <4>1, <4>2 DEF RegionKept
    <3> QED BY <3>1, <3>2
  <2>8. created' \subseteq Object
    BY <2>1 DEF RegistryInv
  <2> QED BY <2>4, <2>5, <2>7, <2>8 DEF RegistryInv
<1> QED BY <1>1, <1>2 DEF NextRegistry

(* What the two invariants say of the walks and of the searches. *)
LEMMA ListsAreRight ==
    ASSUME ListInv, RegistryInv
    PROVE  HeapsAreFound
<1> USE ObjectAssumption
<1>1. ListIsModel
  <2>1. SUFFICES ASSUME wrong = "none"
                 PROVE  /\ \A n \in 0 .. Cardinality(Object) :
                              ListWalk(list)[n] =
                                 IF n < Len(model) THEN model[n + 1] ELSE NoObject
                        /\ list.count = Len(model)
                        /\ list.tail = IF model = <<>> THEN NoObject ELSE model[Len(model)]
    BY DEF ListIsModel
  <2>2. Linked(list, model) /\ list \in ListType /\ model \in Seq(Object)
    BY <2>1 DEF ListInv
  <2>3. ListWalk(list) = [n \in 0 .. Cardinality(Object) |->
                            IF n < Len(model) THEN model[n + 1] ELSE NoObject]
    BY <2>2, WalkIs
  <2> QED BY <2>1, <2>3 DEF ListInv
<1>2. FindsContainingHeap
  <2>1. SUFFICES ASSUME NEW place \in MemAddress,
                        newest[findListContainingBlock(place)] \in created \cup {NoObject}
                 PROVE  LET r == findListContainingBlock(place)
                            found == MEMFindContainHeap(place)
                        IN  /\ found # NoObject => found \in created /\ HasAddress(found, place)
                            /\ found = NoObject => \A h \in Kept(r) : ~HasAddress(h, place)
    BY DEF FindsContainingHeap
  <2> DEFINE r == findListContainingBlock(place)
  <2>2. oldest[r] \in created \cup {NoObject}
    <3>1. r \in Region
      BY RegionsAre
    <3> HIDE DEF r
    <3>2. RegionKept(r)
      BY <3>1 DEF RegistryInv
    <3> QED BY <3>2 DEF RegionKept
  <2>3. Kept(r) \subseteq created
    BY <2>1, <2>2 DEF Kept
  <2> QED BY <2>3, FoundInRegion
<1>3. RegisteredIsFound
  <2>1. SUFFICES ASSUME NEW h \in created, h \in Kept(findListContainingHeap(h)),
                        \A r \in {"FG", "MEM1"} : Extent[h][2] # RegionEnd[r],
                        NEW place \in Extent[h][1] .. Extent[h][2] - 1
                 PROVE  /\ MEMFindContainHeap(place) # NoObject
                        /\ HasAddress(MEMFindContainHeap(place), place)
    BY DEF RegisteredIsFound
  <2>2. h \in Object
    BY DEF RegistryInv
  <2>3. findListContainingBlock(place) = findListContainingHeap(h)
    BY <2>1, <2>2, SameRegion
  <2>4. Extent[h][1] \in Nat /\ Extent[h][2] \in Nat
    BY <2>2, RegionAssumption
  <2>5. HasAddress(h, place)
    BY <2>4 DEF HasAddress
  <2>6. MEMFindContainHeap(place) # NoObject
    BY <2>1, <2>3, <2>5, FoundInRegion
  <2> QED BY <2>6, FoundInRegion
<1> QED BY <1>1, <1>2, <1>3 DEF HeapsAreFound

(* However a game uses a memory list of its own, and in whatever order it       *)
(* creates and destroys its heaps: the list is what it should be up to the first *)
(* operation that goes wrong, and of the heaps of a region the oldest and the    *)
(* newest are found, until the oldest is destroyed (coreinit_memlist.cpp:91-101). *)
THEOREM HeapsCorrect == SpecLists => []HeapsAreFound
<1> USE ObjectAssumption
<1>1. InitList /\ InitRegistry => ListInv /\ RegistryInv
  <2>1. SUFFICES ASSUME InitList, InitRegistry PROVE ListInv /\ RegistryInv
    OBVIOUS
  <2>2. [o \in Object |-> NoObject] \in [Object -> Item] /\ NoObject \in Item
    BY DEF Item
  <2>3. MEMInitList \in ListType
    BY <2>2, TypedIs DEF MEMInitList
  <2>4. MEMInitList.head = NoObject /\ MEMInitList.tail = NoObject /\ MEMInitList.count = 0
    BY DEF MEMInitList
  <2>5. model = <<>> /\ list = MEMInitList
    BY <2>1 DEF InitList
  <2>6. Linked(list, model) /\ Len(model) = 0 /\ model \in Seq(Object)
    BY <2>4, <2>5 DEF Linked
  <2>7. ListInv
    BY <2>3, <2>4, <2>5, <2>6 DEF ListInv
  <2>8. /\ lists = [r \in Region |-> MEMInitList] /\ created = {}
        /\ oldest = [r \in Region |-> NoObject] /\ newest = [r \in Region |-> NoObject]
    BY <2>1 DEF InitRegistry
  <2>9. \A r \in Region : RegionKept(r)
    BY <2>4, <2>8 DEF RegionKept
  <2>10. NoObject \in Item
    BY DEF Item
  <2> QED BY <2>3, <2>7, <2>8, <2>9, <2>10 DEF RegistryInv
<1>2. ListInv /\ UNCHANGED listVars => ListInv'
  BY DEF ListInv, listVars, Linked
<1>3. RegistryInv /\ UNCHANGED registryVars => RegistryInv'
  BY DEF RegistryInv, registryVars, RegionKept
<1>4. ListInv /\ RegistryInv
      /\ [\/ NextList /\ UNCHANGED registryVars
          \/ NextRegistry /\ UNCHANGED listVars]_<<listVars, registryVars>>
      => (ListInv /\ RegistryInv)'
  BY <1>2, <1>3, ListStep, RegistryStep
<1>5. ListInv /\ RegistryInv => HeapsAreFound
  BY ListsAreRight
<1> QED BY <1>1, <1>4, <1>5, PTL DEF SpecLists

-----------------------------------------------------------------------------
(* The recompiler's blocks. *)

Branches(cia) == read(cia).op \in {"b", "bc"} /\ read(cia).lk = 0

(* What the program has at an address. *)
LEMMA ReadIs ==
    ASSUME mem \in Program, NEW cia
    PROVE  /\ read(cia) \in GuestCode \cup {Instr("undefined", 0, 0)}
           /\ read(cia).op # "undefined" =>
                 /\ cia \in CodeAddress /\ read(cia) = mem[cia]
                 /\ mem[cia] \in GuestCode
           /\ Branches(cia) => read(cia).target \in 1 .. Length + 1
<1> USE JitAssumption
<1>1. mem \in [CodeAddress -> GuestCode]
  BY DEF CodeAddress
<1>2. CASE cia \in CodeAddress
  <2>1. read(cia) = mem[cia] /\ mem[cia] \in GuestCode
    BY <1>1, <1>2 DEF read
  <2>2. Branches(cia) => read(cia).target \in 1 .. Length + 1
    <3>1. \A i \in GuestCode : i.op \in {"b", "bc"} => i.target \in 0 .. Length + 1 /\ i.target # 0
      BY DEF GuestCode
    <3>2. Branches(cia) => read(cia).target \in 0 .. Length + 1 /\ read(cia).target # 0
      BY <2>1, <3>1 DEF Branches
    <3> QED BY <3>2
  <2> QED BY <1>2, <2>1, <2>2
<1>3. CASE cia \notin CodeAddress
  <2>1. read(cia) = Instr("undefined", 0, 0)
    BY <1>3 DEF read
  <2>2. read(cia).op = "undefined"
    BY <2>1 DEF Instr
  <2> QED BY <2>1, <2>2 DEF Branches
<1> QED BY <1>2, <1>3

(* The loop's fnMax is what its recursion says. *)
LEMMA FnMaxIs ==
    ASSUME NEW start \in Nat
    PROVE  LET top == start + MaxInst + 1 IN
           /\ FnMax(start)[start] = start
           /\ \A c \in start + 1 .. top :
                 FnMax(start)[c] = Furthest(c - 1, FnMax(start)[c - 1])
<1> USE JitAssumption
<1> DEFINE top == start + MaxInst + 1
           Is(f) == f = [cia \in start .. top |->
                           IF cia = start THEN start ELSE Furthest(cia - 1, f[cia - 1])]
           Upto(m, f) == /\ f[start] = start
                         /\ \A c \in start + 1 .. m : f[c] = Furthest(c - 1, f[c - 1])
           bad == {m \in start .. top : ~\E f : Upto(m, f)}
<1>1. FnMax(start) = CHOOSE f : Is(f)
  BY DEF FnMax
<1>2. top \in Nat /\ start + 1 =< top
  OBVIOUS
<1> HIDE DEF top
<1>3. bad = {}
  <2> SUFFICES ASSUME NEW x \in bad PROVE FALSE
    OBVIOUS
  <2>1. bad \in SUBSET Nat
    BY <1>2
  <2>2. PICK m \in bad : \A j \in bad : m =< j
    BY <2>1, FirstOf
  <2>3. CASE m = start
    <3>1. Upto(start, [c \in start .. start |-> start])
      OBVIOUS
    <3> QED BY <2>2, <2>3, <3>1
  <2>4. CASE m # start
    <3>1. m - 1 \in start .. top /\ m \in start + 1 .. top /\ m - 1 \notin bad
      <4> HIDE DEF Upto
      <4>1. m \in start .. top
        BY <2>2
      <4>2. m - 1 \in start .. top /\ m \in start + 1 .. top /\ ~(m =< m - 1)
        BY <1>2, <2>4, <4>1
      <4> QED BY <2>2, <4>2
    <3>2. PICK v : Upto(m - 1, v)
      <4> HIDE DEF Upto
      <4> QED BY <3>1
    <3> DEFINE w == [c \in start .. m |-> IF c = m THEN Furthest(m - 1, v[m - 1]) ELSE v[c]]
    <3>3. w[start] = start
      BY <2>4, <3>1, <3>2
    <3>4. ASSUME NEW c \in start + 1 .. m PROVE w[c] = Furthest(c - 1, w[c - 1])
      <4>1. c - 1 \in start .. m /\ c - 1 # m /\ c \in start .. m
        BY <3>1
      <4>2. w[c - 1] = v[c - 1]
        BY <4>1
      <4>3. CASE c = m
        BY <4>1, <4>2, <4>3
      <4>4. CASE c # m
        <5>1. c \in start + 1 .. m - 1
          BY <3>1, <4>4
        <5> QED BY <3>2, <4>1, <4>2, <4>4, <5>1
      <4> QED BY <4>3, <4>4
    <3>5. Upto(m, w)
      BY <3>3, <3>4
    <3> QED BY <2>2, <3>5
  <2> QED BY <2>3, <2>4
<1>4. PICK v : Upto(top, v)
  <2> HIDE DEF Upto
  <2>1. top \in start .. top
    BY <1>2
  <2> QED BY <1>3, <2>1
<1>5. Is([c \in start .. top |-> v[c]])
  <2> DEFINE w == [c \in start .. top |-> v[c]]
  <2>1. ASSUME NEW c \in start .. top
        PROVE  w[c] = IF c = start THEN start ELSE Furthest(c - 1, w[c - 1])
    <3>1. CASE c = start
      BY <1>4, <3>1
    <3>2. CASE c # start
      <4>1. c \in start + 1 .. top /\ c - 1 \in start .. top
        BY <1>2, <3>2
      <4> QED BY <1>4, <3>2, <4>1
    <3> QED BY <3>1, <3>2
  <2> HIDE DEF w
  <2>2. w = [c \in start .. top |-> IF c = start THEN start ELSE Furthest(c - 1, w[c - 1])]
    <3>1. w = [c \in start .. top |-> w[c]]
      BY DEF w
    <3> QED BY <2>1, <3>1
  <2> QED BY <2>2 DEF w
<1>6. Is(FnMax(start))
  BY <1>1, <1>5
<1> HIDE DEF Is
<1>7. FnMax(start) = [cia \in start .. top |->
         IF cia = start THEN start ELSE Furthest(cia - 1, FnMax(start)[cia - 1])]
  BY <1>6 DEF Is
<1>8. FnMax(start)[start] = start
  BY <1>2, <1>7
<1>9. ASSUME NEW c \in start + 1 .. top PROVE FnMax(start)[c] = Furthest(c - 1, FnMax(start)[c - 1])
  <2>1. c \in start .. top /\ c # start
    BY <1>2
  <2> QED BY <1>7, <2>1
<1> QED BY <1>8, <1>9 DEF top

\* m is the greatest of start and the targets of what is before address cia.
Greatest(start, cia, m) ==
    /\ m \in Nat /\ start =< m
    /\ \A c \in start .. cia - 1 : Branches(c) => read(c).target =< m
    /\ m = start \/ \E c \in start .. cia - 1 : Branches(c) /\ read(c).target = m

LEMMA FnMaxIsGreatest ==
    ASSUME mem \in Program, NEW start \in Nat, NEW cia \in start .. start + MaxInst + 1
    PROVE  Greatest(start, cia, FnMax(start)[cia])
<1> USE JitAssumption
<1> DEFINE top == start + MaxInst + 1
           F(c) == FnMax(start)[c]
           bad == {c \in start .. top : ~Greatest(start, c, F(c))}
<1>1. F(start) = start /\ \A c \in start + 1 .. top : F(c) = Furthest(c - 1, F(c - 1))
  BY FnMaxIs
<1>2. top \in Nat
  OBVIOUS
<1> HIDE DEF top, F
<1>3. SUFFICES ASSUME NEW x \in bad PROVE FALSE
  BY DEF top, F
<1>4. PICK n \in bad : \A j \in bad : n =< j
  <2>1. bad \in SUBSET Nat
    BY <1>2
  <2> HIDE DEF bad
  <2> QED BY <1>3, <2>1, FirstOf
<1>5. n \in start .. top /\ ~Greatest(start, n, F(n)) /\ n \in Nat
  BY <1>2, <1>4
<1>6. CASE n = start
  BY <1>1, <1>5, <1>6 DEF Greatest
<1>7. CASE n # start
  <2> DEFINE k == n - 1
             i == read(k)
  <2>1. k \in start .. top /\ n \in start + 1 .. top /\ ~(n =< k) /\ k \in Nat /\ n = k + 1
    BY <1>2, <1>5, <1>7
  <2>2. Greatest(start, k, F(k))
    BY <1>4, <2>1
  <2>3. F(n) = IF Branches(k) /\ read(k).target > F(k) THEN read(k).target ELSE F(k)
    BY <1>1, <2>1 DEF Furthest, Branches
  <2>4. Branches(k) => read(k).target \in Nat
    BY ReadIs
  <2> HIDE DEF k
  <2>5. Greatest(start, k + 1, F(n))
    <3>1. \A c \in start .. k + 1 - 1 : c \in start .. k - 1 \/ c = k
      BY <2>1
    <3>2. k \in start .. k + 1 - 1 /\ \A c \in start .. k - 1 : c \in start .. k + 1 - 1
      BY <2>1
    <3>3. F(k) \in Nat /\ start =< F(k)
      BY <2>2 DEF Greatest
    <3>4. \A c \in start .. k - 1 : Branches(c) => read(c).target \in Nat
      BY ReadIs
    <3>5. CASE Branches(k) /\ read(k).target > F(k)
      <4>1. F(n) = read(k).target /\ F(n) \in Nat /\ F(k) < F(n) /\ start =< F(n)
        BY <2>3, <2>4, <3>3, <3>5
      <4>2. \A c \in start .. k - 1 : Branches(c) => read(c).target =< F(n)
        BY <2>2, <3>3, <3>4, <4>1 DEF Greatest
      <4> QED BY <3>1, <3>2, <3>5, <4>1, <4>2 DEF Greatest
    <3>6. CASE ~(Branches(k) /\ read(k).target > F(k))
      <4>1. F(n) = F(k)
        BY <2>3, <3>6
      <4>2. Branches(k) => read(k).target =< F(k)
        BY <2>4, <3>3, <3>6
      <4> QED BY <2>2, <3>1, <3>2, <4>1, <4>2 DEF Greatest
    <3> QED BY <3>5, <3>6
  <2> QED BY <1>5, <2>1, <2>5
<1> QED BY <1>6, <1>7

(* The loop ends the function just where its branches and returns do. *)
LEMMA EndsWhereItCloses ==
    ASSUME mem \in Program, NEW start \in Nat, NEW cia \in start .. start + MaxInst + 1
    PROVE  EndsHere(start, cia) <=> Closes(start, cia)
<1> USE JitAssumption
<1> DEFINE m == FnMax(start)[cia]
<1>1. Greatest(start, cia, m)
  BY FnMaxIsGreatest
<1>2. cia \in Nat /\ \A c \in start .. cia - 1 : Branches(c) => read(c).target \in Nat
  BY ReadIs
<1>3. EndsHere(start, cia) <=> read(cia).op = "bclr" /\ cia > m
  BY DEF EndsHere
<1> HIDE DEF m
<1>4. cia > m <=> /\ cia > start
                  /\ \A c \in start .. cia - 1 : Branches(c) => read(c).target < cia
  <2>1. ASSUME cia > m PROVE /\ cia > start
                             /\ \A c \in start .. cia - 1 : Branches(c) => read(c).target < cia
    BY <1>1, <1>2, <2>1 DEF Greatest
  <2>2. ASSUME cia > start, \A c \in start .. cia - 1 : Branches(c) => read(c).target < cia
        PROVE  cia > m
    BY <1>1, <1>2, <2>2 DEF Greatest
  <2> QED BY <2>1, <2>2
<1> QED BY <1>3, <1>4 DEF Closes, Branches

LEMMA TargetsAre ==
    ASSUME mem \in Program, NEW cia \in Int
    PROVE  Targets(cia) \subseteq Int
<1> USE JitAssumption
<1>1. \A i \in GuestCode : i.target \in 0 .. Length + 1
  BY DEF GuestCode
<1>2. read(cia).op \in {"b", "bc"} => read(cia).target \in Int
  BY <1>1, ReadIs
<1> QED BY <1>2 DEF Targets

\* Address e is the first that closes the function at start, and all before it
\* is code.
FirstClose(start, e) ==
    /\ e \in Nat /\ start =< e /\ Closes(start, e)
    /\ \A c \in start .. e : read(c).op # "undefined"
    /\ \A c \in start .. e - 1 : ~Closes(start, c)

NoClose(start) ==
    ~\E e \in CodeAddress : /\ Closes(start, e)
                            /\ e - start <= MaxInst
                            /\ \A c \in start .. e : read(c).op # "undefined"

LEMMA ScanIs ==
    ASSUME mem \in Program, NEW start \in Nat
    PROVE  LET r == Scan(start) IN
           \/ /\ r.found = TRUE /\ FirstClose(start, r.end - 1)
              /\ r.end \in Nat /\ r.targets \subseteq Int
           \/ r.found = FALSE /\ NoClose(start)
<1> USE JitAssumption
<1> DEFINE top == start + MaxInst + 1
           ends == {cia \in start .. top : Fails(start, cia) \/ EndsHere(start, cia)}
           last == CHOOSE cia \in ends : \A c \in ends : cia <= c
           r == Scan(start)
<1>1. top \in Nat /\ top \in start .. top /\ TooFar(start, top)
  BY DEF TooFar
<1>2. \A c \in start .. top : EndsHere(start, c) <=> Closes(start, c)
  BY EndsWhereItCloses
<1>3. r = IF Fails(start, last) THEN [found |-> FALSE, end |-> start, targets |-> {}]
          ELSE [found |-> TRUE, end |-> last + 1,
                targets |-> UNION {Targets(c) : c \in start .. last}]
  BY DEF Scan
<1>4. top \in ends
  BY <1>1 DEF Fails
<1>5. ends \in SUBSET Nat
  BY <1>1
<1> HIDE DEF r, top
<1>6. last \in ends /\ \A c \in ends : last <= c
  <2> HIDE DEF ends
  <2>1. \E k \in ends : \A j \in ends : k <= j
    BY <1>4, <1>5, FirstOf
  <2> QED BY <2>1
<1> HIDE DEF last
<1>7. last \in start .. top /\ last \in Nat /\ start =< last
      /\ (Fails(start, last) \/ EndsHere(start, last))
  BY <1>1, <1>6
<1>8. ASSUME NEW c \in start .. last - 1 PROVE ~Fails(start, c) /\ ~Closes(start, c)
  <2>1. c \in start .. top /\ ~(last <= c)
    BY <1>1, <1>7
  <2> QED BY <1>2, <1>6, <2>1
<1>9. CASE Fails(start, last)
  <2>1. r.found = FALSE
    BY <1>3, <1>9
  <2>2. ASSUME NEW e \in CodeAddress, Closes(start, e), e - start <= MaxInst,
               \A c \in start .. e : read(c).op # "undefined"
        PROVE  FALSE
    <3>1. e \in Nat /\ e > start
      BY <2>2 DEF Closes, CodeAddress
    <3>2. ~(e \in start .. last - 1)
      BY <1>8, <2>2
    <3>3. last \in start .. e
      BY <1>7, <3>1, <3>2
    <3>4. TooFar(start, last)
      BY <1>9, <2>2, <3>3 DEF Fails
    <3> QED BY <1>7, <2>2, <3>1, <3>3, <3>4 DEF TooFar
  <2> QED BY <2>1, <2>2 DEF NoClose, r
<1>10. CASE ~Fails(start, last)
  <2>1. r.found = TRUE /\ r.end = last + 1
    BY <1>3, <1>10
  <2>2. Closes(start, last) /\ read(last).op # "undefined"
    BY <1>2, <1>7, <1>10 DEF Fails
  <2>3. \A c \in start .. last : c \in start .. last - 1 \/ c = last
    BY <1>7
  <2>4. \A c \in start .. last : read(c).op # "undefined"
    BY <1>8, <2>2, <2>3 DEF Fails
  <2>5. r.end \in Nat /\ r.end - 1 = last
    BY <1>7, <2>1
  <2>6. FirstClose(start, last)
    BY <1>7, <1>8, <2>2, <2>4 DEF FirstClose
  <2>7. r.targets = UNION {Targets(c) : c \in start .. last}
    BY <1>3, <1>10
  <2>8. \A c \in start .. last : Targets(c) \subseteq Int
    BY TargetsAre
  <2>9. r.targets \subseteq Int
    BY <2>7, <2>8
  <2> QED BY <2>1, <2>5, <2>6, <2>9 DEF r
<1> QED BY <1>9, <1>10

-----------------------------------------------------------------------------

\* The code of a function, to the return that closes it.
IsCode(code) ==
    \E s, e \in Nat :
        /\ code = [start |-> s, end |-> e + 1, text |-> [c \in s .. e |-> read(c)]]
        /\ FirstClose(s, e)

BlocksAreCode ==
    \A x \in DOMAIN blocks :
        IF blocks[x] = NoCode THEN NoClose(x)
        ELSE IsCode(blocks[x]) /\ x \in DOMAIN blocks[x].text

JitInv ==
    /\ mem \in Program
    /\ DOMAIN blocks \subseteq 1 .. Length + 1
    /\ thread \in [nia : 0 .. Length + 1, lr : 0 .. Length + 1]
    /\ BlocksAreCode
    /\ running # NoCode => IsCode(running) /\ thread.nia \in DOMAIN running.text
    /\ jump # <<0, 0>> => jump[2] \in Successors(jump[1])
    /\ failed \in BOOLEAN
    /\ failed => running = NoCode /\ thread.nia # Callback /\ NoClose(thread.nia)

(* Code is the program's, all of it instructions. *)
LEMMA CodeIs ==
    ASSUME mem \in Program, NEW code, IsCode(code)
    PROVE  /\ code # NoCode /\ code.start \in Nat /\ code.end \in Nat
           /\ DOMAIN code.text = code.start .. code.end - 1
           /\ FirstClose(code.start, code.end - 1)
           /\ \A c \in DOMAIN code.text :
                 /\ code.text[c] = mem[c] /\ mem[c] \in GuestCode
                 /\ c \in CodeAddress /\ mem[c].op # "undefined"
                 /\ Branches(c) => mem[c].target \in 1 .. Length + 1
<1>1. PICK s \in Nat, e \in Nat :
         /\ code = [start |-> s, end |-> e + 1, text |-> [c \in s .. e |-> read(c)]]
         /\ FirstClose(s, e)
  BY DEF IsCode
<1>2. /\ code.start = s /\ code.end = e + 1 /\ code.text = [c \in s .. e |-> read(c)]
      /\ e + 1 - 1 = e /\ e + 1 \in Nat /\ e + 1 # 0
  BY <1>1
<1>3. code # NoCode
  BY <1>2 DEF NoCode
<1>4. ASSUME NEW c \in s .. e
      PROVE  /\ read(c) = mem[c] /\ mem[c] \in GuestCode
             /\ c \in CodeAddress /\ mem[c].op # "undefined"
             /\ Branches(c) => mem[c].target \in 1 .. Length + 1
  <2>1. read(c).op # "undefined"
    BY <1>1 DEF FirstClose
  <2> QED BY <2>1, ReadIs
<1> QED BY <1>1, <1>2, <1>3, <1>4

(* What get puts into the cache. *)
LEMMA CompiledIs ==
    ASSUME mem \in Program, DOMAIN blocks \subseteq 1 .. Length + 1, BlocksAreCode,
           NEW entry \in 1 .. Length + 1, ~Known(entry), blocks' = Compiled(entry), mem' = mem
    PROVE  /\ BlocksAreCode' /\ DOMAIN blocks' \subseteq 1 .. Length + 1
           /\ entry \in DOMAIN blocks'
<1> USE JitAssumption
<1> DEFINE r == Scan(entry)
           entries == IF r.found THEN Entered(r, entry) ELSE {entry}
           code == IF r.found THEN gen(r, entry) ELSE NoCode
<1>1. entry \in Nat
  OBVIOUS
<1>2. \/ /\ r.found = TRUE /\ FirstClose(entry, r.end - 1)
         /\ r.end \in Nat /\ r.targets \subseteq Int
      \/ r.found = FALSE /\ NoClose(entry)
  BY <1>1, ScanIs
<1>3. blocks' = [x \in DOMAIN blocks \cup entries |-> IF x \in entries THEN code ELSE blocks[x]]
  BY DEF Compiled
<1>4. /\ \A s, e : Closes(s, e)' = Closes(s, e)
      /\ \A s, e : FirstClose(s, e)' = FirstClose(s, e)
      /\ \A s : NoClose(s)' = NoClose(s)
      /\ \A c : IsCode(c)' = IsCode(c)
  <2>1. \A c : read(c)' = read(c)
    BY DEF read
  <2>2. \A s, e : Closes(s, e)' = Closes(s, e)
    BY <2>1 DEF Closes
  <2>3. \A s, e : FirstClose(s, e)' = FirstClose(s, e)
    BY <2>1, <2>2 DEF FirstClose
  <2>4. \A s : NoClose(s)' = NoClose(s)
    BY <2>1, <2>2 DEF NoClose
  <2>5. \A c : IsCode(c)' = IsCode(c)
    BY <2>1, <2>3 DEF IsCode
  <2> QED BY <2>2, <2>3, <2>4, <2>5
<1> HIDE DEF r
<1>5. entry \in entries
  BY DEF Entered
<1>6. entries \subseteq 1 .. Length + 1
      /\ \A x \in entries : IF code = NoCode THEN NoClose(x)
                            ELSE IsCode(code) /\ x \in DOMAIN code.text
  <2>1. CASE /\ r.found = TRUE /\ FirstClose(entry, r.end - 1)
             /\ r.end \in Nat /\ r.targets \subseteq Int
    <3> DEFINE e == r.end - 1
    <3>1. e \in Nat /\ r.end = e + 1 /\ entry =< e
      BY <2>1 DEF FirstClose
    <3>2. code = [start |-> entry, end |-> e + 1, text |-> [c \in entry .. e |-> read(c)]]
      BY <2>1, <3>1 DEF gen
    <3>3. IsCode(code)
      BY <1>1, <2>1, <3>1, <3>2 DEF IsCode
    <3>4. code.text = [c \in entry .. e |-> read(c)] /\ DOMAIN code.text = entry .. e
      <4> HIDE DEF code, e
      <4> QED BY <3>2
    <3>5. code # NoCode /\ \A c \in DOMAIN code.text : c \in CodeAddress
      <4> HIDE DEF code
      <4> QED BY <3>3, CodeIs
    <3>6. \A x \in entries : x \in entry .. e
      BY <1>1, <2>1, <3>1 DEF Entered
    <3> HIDE DEF code, entries
    <3> QED BY <3>3, <3>4, <3>5, <3>6 DEF CodeAddress
  <2>2. CASE r.found = FALSE /\ NoClose(entry)
    BY <2>2
  <2> QED BY <1>2, <2>1, <2>2
<1> QED BY <1>3, <1>4, <1>5, <1>6 DEF BlocksAreCode

(* What the code asks of a step that leaves the program alone. *)
LEMMA ProgramStays ==
    ASSUME mem' = mem
    PROVE  /\ \A s : NoClose(s)' = NoClose(s)
           /\ \A c : IsCode(c)' = IsCode(c)
<1>1. \A c : read(c)' = read(c)
  BY DEF read
<1>2. \A s, e : Closes(s, e)' = Closes(s, e)
  BY <1>1 DEF Closes
<1>3. \A s, e : FirstClose(s, e)' = FirstClose(s, e)
  BY <1>1, <1>2 DEF FirstClose
<1>4. \A s : NoClose(s)' = NoClose(s)
  BY <1>1, <1>2 DEF NoClose
<1>5. \A c : IsCode(c)' = IsCode(c)
  BY <1>1, <1>3 DEF IsCode
<1> QED BY <1>4, <1>5

LEMMA ExecuteKeeps ==
    ASSUME JitInv, execute
    PROVE  JitInv'
<1> USE JitAssumption
<1> DEFINE entry == thread.nia
<1>1. /\ running = NoCode /\ ~failed /\ entry # Callback
      /\ running' = blocks'[entry] /\ failed' = (running' = NoCode)
      /\ UNCHANGED <<mem, thread, jump>>
      /\ mem \in Program /\ BlocksAreCode /\ DOMAIN blocks \subseteq 1 .. Length + 1
      /\ thread \in [nia : 0 .. Length + 1, lr : 0 .. Length + 1]
      /\ jump # <<0, 0>> => jump[2] \in Successors(jump[1])
  BY DEF execute, JitInv
<1>2. entry \in 1 .. Length + 1
  BY <1>1 DEF Callback
<1>3. BlocksAreCode' /\ DOMAIN blocks' \subseteq 1 .. Length + 1 /\ entry \in DOMAIN blocks'
  <2>1. CASE Known(entry)
    <3>1. blocks' = blocks
      BY <2>1 DEF execute
    <3>2. BlocksAreCode'
      BY <1>1, <3>1, ProgramStays DEF BlocksAreCode
    <3> QED BY <1>1, <2>1, <3>1, <3>2 DEF Known
  <2>2. CASE ~Known(entry)
    <3>1. blocks' = Compiled(entry)
      BY <2>2 DEF execute
    <3> HIDE DEF entry
    <3> QED BY <1>1, <1>2, <2>2, <3>1, CompiledIs
  <2> QED BY <2>1, <2>2
<1>4. /\ running' # NoCode => IsCode(running') /\ entry \in DOMAIN running'.text
      /\ running' = NoCode => NoClose(entry)
  <2>1. IF running' = NoCode THEN NoClose(entry)'
        ELSE IsCode(running)' /\ entry \in DOMAIN running'.text
    BY <1>1, <1>3 DEF BlocksAreCode
  <2> QED BY <1>1, <2>1, ProgramStays
<1>5. IsCode(running)' <=> IsCode(running')
  BY <1>1 DEF IsCode, FirstClose, Closes, read
<1>6. jump' # <<0, 0>> => jump'[2] \in Successors(jump[1])'
  BY <1>1 DEF Successors
<1>7. NoClose(thread.nia)' <=> NoClose(entry)
  BY <1>1 DEF NoClose, Closes, read
<1> QED BY <1>1, <1>3, <1>4, <1>5, <1>6, <1>7 DEF JitInv

LEMMA RunCodeKeeps ==
    ASSUME JitInv, RunCode
    PROVE  JitInv'
<1> USE JitAssumption
<1> DEFINE cia == thread.nia
           i == running.text[cia]
<1> DEFINE Next(b) == IF b THEN Destination(i) ELSE cia + 1
<1>a. PICK branches \in BOOLEAN :
         /\ IF branches THEN Takes(i) ELSE Passes(i)
         /\ jump' = <<cia, Next(branches)>>
         /\ thread' = [nia |-> Next(branches),
                       lr |-> IF branches /\ i.lk = 1 THEN cia + 1 ELSE thread.lr]
         /\ running' = IF Stays(running, i, Next(branches), branches) THEN running
                       ELSE NoCode
  BY DEF RunCode
<1>1. PICK nia :
         /\ nia = IF branches THEN Destination(i) ELSE cia + 1
         /\ IF branches THEN Takes(i) ELSE Passes(i)
         /\ jump' = <<cia, nia>>
         /\ thread' = [nia |-> nia, lr |-> IF branches /\ i.lk = 1 THEN cia + 1
                                          ELSE thread.lr]
         /\ running' = IF Stays(running, i, nia, branches) THEN running ELSE NoCode
  BY <1>a, Zenon
<1>2. /\ running # NoCode /\ UNCHANGED <<mem, blocks, failed>>
      /\ mem \in Program /\ BlocksAreCode /\ DOMAIN blocks \subseteq 1 .. Length + 1
      /\ thread \in [nia : 0 .. Length + 1, lr : 0 .. Length + 1]
      /\ IsCode(running) /\ cia \in DOMAIN running.text
      /\ ~failed /\ failed \in BOOLEAN
  BY DEF RunCode, JitInv
<1>3. /\ i = mem[cia] /\ i \in GuestCode /\ cia \in CodeAddress
      /\ i.op # "undefined"
  BY <1>2, CodeIs
<1> HIDE DEF i, cia, Next
<1>4. /\ i.op \in {"add", "b", "bc", "bcctr", "bclr", "bclr if"}
      /\ i.target \in 0 .. Length + 1
      /\ i.lk \in {0, 1}
      /\ i.op \in {"bclr", "bclr if"} => i.lk = 0
  BY <1>3 DEF GuestCode
<1>5. nia \in CASE i.op = "b" -> {i.target}
                [] i.op \in {"bc", "bcctr"} -> {i.target, cia + 1}
                [] i.op = "bclr" -> {thread.lr}
                [] i.op = "bclr if" -> {thread.lr, cia + 1}
                [] OTHER -> {cia + 1}
  <2>1. CASE branches
    BY <1>1, <1>4, <2>1 DEF Takes, Destination
  <2>2. CASE ~branches
    BY <1>1, <1>4, <2>2 DEF Passes
  <2> QED BY <2>1, <2>2
<1>6. cia + 1 \in 1 .. Length + 1 /\ thread.lr \in 0 .. Length + 1
  BY <1>2, <1>3 DEF CodeAddress
<1>7. nia \in 0 .. Length + 1
  <2>1. nia \in {i.target, cia + 1, thread.lr}
    BY <1>4, <1>5, Zenon
  <2>2. cia + 1 \in 0 .. Length + 1
    BY <1>6
  <2> QED BY <1>4, <1>6, <2>1, <2>2, Zenon
<1>8. thread' \in [nia : 0 .. Length + 1, lr : 0 .. Length + 1] /\ thread'.nia = nia
  BY <1>1, <1>6, <1>7
<1>9. jump'[2] \in Successors(jump[1])'
  <2>1. jump'[1] = cia /\ jump'[2] = nia /\ mem'[cia] = i
    BY <1>1, <1>2, <1>3
  <2>2. i.op \in {"bclr", "bclr if"} => thread'.lr = thread.lr
    <3>1. thread'.lr = IF branches /\ i.lk = 1 THEN cia + 1 ELSE thread.lr
      BY <1>1
    <3>2. 0 # 1
      OBVIOUS
    <3> QED BY <1>4, <3>1, <3>2, Zenon
  <2> QED BY <1>5, <2>1, <2>2 DEF Successors
<1>10. BlocksAreCode'
  BY <1>2, ProgramStays DEF BlocksAreCode
<1>11. running' # NoCode => IsCode(running)' /\ nia \in DOMAIN running'.text
  <2>1. running' # NoCode => running' = running /\ nia \in DOMAIN running.text
    BY <1>1 DEF Stays
  <2>2. IsCode(running)' <=> IsCode(running')
    BY <1>2 DEF IsCode, FirstClose, Closes, read
  <2>3. running' = running => IsCode(running)'
    BY <1>2, <2>2, ProgramStays
  <2> QED BY <2>1, <2>3
<1> QED BY <1>2, <1>8, <1>9, <1>10, <1>11 DEF JitInv

LEMMA ExecuteSubKeeps ==
    ASSUME JitInv, executeSub
    PROVE  JitInv'
<1> USE JitAssumption
<1>1. PICK entry \in CodeAddress : thread' = [nia |-> entry, lr |-> Callback]
  BY DEF executeSub
<1>2. /\ running = NoCode /\ jump' = <<0, 0>>
      /\ thread.nia = Callback /\ UNCHANGED <<mem, blocks, running, failed>>
      /\ mem \in Program /\ BlocksAreCode /\ DOMAIN blocks \subseteq 1 .. Length + 1
      /\ ~failed /\ failed \in BOOLEAN
  BY DEF executeSub, JitInv
<1>3. thread' \in [nia : 0 .. Length + 1, lr : 0 .. Length + 1]
  BY <1>1 DEF CodeAddress, Callback
<1>4. BlocksAreCode'
  BY <1>2, ProgramStays DEF BlocksAreCode
<1> QED BY <1>2, <1>3, <1>4 DEF JitInv

(* What the invariant says of the blocks. *)
LEMMA BlocksRun ==
    ASSUME JitInv
    PROVE  BlocksRunTheProgram
<1> USE JitAssumption
<1>1. /\ mem \in Program /\ BlocksAreCode /\ DOMAIN blocks \subseteq 1 .. Length + 1
      /\ thread \in [nia : 0 .. Length + 1, lr : 0 .. Length + 1]
  BY DEF JitInv
<1>2. ASSUME NEW x \in DOMAIN blocks, blocks[x] # NoCode
      PROVE  IsCode(blocks[x]) /\ x \in DOMAIN blocks[x].text
  BY <1>1, <1>2 DEF BlocksAreCode
<1>3. CodeTypeOK
  BY <1>1 DEF JitInv, CodeTypeOK
<1>4. FollowsProgram
  <2>1. ASSUME NEW x \in DOMAIN blocks, blocks[x] # NoCode
        PROVE  /\ x \in DOMAIN blocks[x].text
               /\ \A c \in DOMAIN blocks[x].text : blocks[x].text[c] = mem[c]
    BY <1>1, <1>2, <2>1, CodeIs
  <2>2. jump # <<0, 0>> => jump[2] \in Successors(jump[1])
    BY DEF JitInv
  <2> QED BY <2>1, <2>2 DEF FollowsProgram
<1>5. EndsAtItsReturn
  <2>1. ASSUME NEW x \in DOMAIN blocks, blocks[x] # NoCode
        PROVE  LET code == blocks[x]
               IN  /\ Closes(code.start, code.end - 1)
                   /\ \A e \in code.start .. code.end - 2 : ~Closes(code.start, e)
    <3> DEFINE code == blocks[x]
    <3>1. IsCode(code)
      BY <1>2, <2>1
    <3> HIDE DEF code
    <3>2. FirstClose(code.start, code.end - 1) /\ code.end \in Nat
      BY <1>1, <3>1, CodeIs
    <3>3. code.end - 1 - 1 = code.end - 2
      BY <3>2
    <3> QED BY <3>2, <3>3 DEF FirstClose, code
  <2> QED BY <2>1 DEF EndsAtItsReturn
<1>6. FailsForAReason
  BY DEF JitInv, FailsForAReason, NoClose
<1> QED BY <1>3, <1>4, <1>5, <1>6 DEF BlocksRunTheProgram

(* Whatever the guest's program is, the code that the recompiler enters is     *)
(* the program's at each address, from where it is entered to the first return *)
(* that closes its function, each instruction is followed by one that the      *)
(* interpreter might go to, and get fails only where there is no such return   *)
(* within JIT_MAX_INST (jit.cpp: identBlock, gen, get, execute).               *)
THEOREM CodeCorrect == SpecJit => []BlocksRunTheProgram
<1>1. InitJit => JitInv
  <2> SUFFICES ASSUME InitJit PROVE JitInv
    OBVIOUS
  <2>1. Length \in Nat
    BY JitAssumption
  <2>2. DOMAIN blocks = {} /\ mem \in Program
    BY DEF InitJit
  <2>3. thread \in [nia : 0 .. Length + 1, lr : 0 .. Length + 1]
    BY <2>1 DEF InitJit, Callback
  <2>4. BlocksAreCode
    BY <2>2 DEF BlocksAreCode
  <2>5. running = NoCode /\ jump = <<0, 0>> /\ failed = FALSE
    BY DEF InitJit
  <2> QED BY <2>2, <2>3, <2>4, <2>5 DEF JitInv
<1>2. JitInv /\ [NextJit]_jitVars => JitInv'
  <2> SUFFICES ASSUME JitInv, [NextJit]_jitVars PROVE JitInv'
    OBVIOUS
  <2>1. CASE execute
    BY <2>1, ExecuteKeeps
  <2>2. CASE RunCode
    BY <2>2, RunCodeKeeps
  <2>3. CASE executeSub
    BY <2>3, ExecuteSubKeeps
  <2>4. CASE UNCHANGED jitVars
    <3>1. UNCHANGED <<mem, blocks, thread, running, jump, failed>>
      BY <2>4 DEF jitVars
    <3>2. IsCode(running)' <=> IsCode(running)
      BY <3>1 DEF IsCode, FirstClose, Closes, read
    <3>3. NoClose(thread.nia)' <=> NoClose(thread.nia)
      BY <3>1 DEF NoClose, Closes, read
    <3>4. BlocksAreCode'
      BY <3>1, ProgramStays DEF JitInv, BlocksAreCode
    <3>5. (jump # <<0, 0>> => jump[2] \in Successors(jump[1]))'
      BY <3>1 DEF JitInv, Successors
    <3> QED BY <3>1, <3>2, <3>3, <3>4, <3>5 DEF JitInv
  <2> QED BY <2>1, <2>2, <2>3, <2>4 DEF NextJit
<1>3. JitInv => BlocksRunTheProgram
  BY BlocksRun
<1> QED BY <1>1, <1>2, <1>3, PTL DEF SpecJit

-----------------------------------------------------------------------------
(* The loader. *)

FrameFields == {"name", "phase", "next", "table", "at", "segment", "codeNext", "codeEnd", "slots",
                "written", "trampolines", "code", "failed"}

IsFrame(f) == DOMAIN f = FrameFields /\ f.name \in Names /\ f.next \in Nat \ {0}

StacksOK ==
    /\ \E S : stacks \in [Loading -> Seq(S)]
    /\ \A t \in Loading : Len(stacks[t]) <= MaxDepth
    /\ \A p \in Where : IsFrame(LoadAt(p))

\* The loads that have begun to put the library into memory.
Begun == {p \in Where : LoadAt(p).phase # "open"}

BegunOK ==
    /\ \A p \in Begun : LoadAt(p).name \in DOMAIN files \ DOMAIN Kernel
    /\ \A p, q \in Begun : p # q /\ LoadAt(p).name = LoadAt(q).name
                                => LoadAt(p).name \in raced
    /\ \A p \in Begun : LoadAt(p).name \in DOMAIN modules => LoadAt(p).name \in raced

LoadsOK ==
    /\ loads \in [Names -> Nat]
    /\ \A n \in Names : loads[n] > 0 =>
          n \in DOMAIN modules \/ \E p \in Begun : LoadAt(p).name = n

GivenOK ==
    \A g \in given : (g.instance # 0 /\ g.name \notin raced)
                        => /\ g.name \in DOMAIN modules
                           /\ g.instance = modules[g.name].instance

LoadInv ==
    /\ files \in Filesets /\ StacksOK /\ BegunOK /\ LoadsOK /\ GivenOK
    /\ \A n \in Names : loads[n] > 1 => n \in raced

TopOf(t) == <<t, Len(stacks[t])>>

(* A step pushes a load, changes the one on top, or pops it. *)
Pushes(t) == \E n \in Names :
    /\ Len(stacks[t]) < MaxDepth
    /\ stacks' = [stacks EXCEPT ![t] = Append(@, Frame(n))]

Sets(t) == \E f :
    /\ stacks[t] # <<>>
    /\ IsFrame(f) /\ f.name = Top(t).name /\ f.phase # "open"
    /\ SetTop(t, f)

Pops(t) == \E s :
    /\ stacks[t] # <<>>
    /\ stacks' = [stacks EXCEPT ![t] = s]
    /\ \E S : s \in Seq(S)
    /\ Len(s) = Len(stacks[t]) - 1
    /\ \A k \in 1 .. Len(s) : /\ IsFrame(s[k])
                              /\ s[k].name = stacks[t][k].name
                              /\ s[k].phase = stacks[t][k].phase

LEMMA TopIs ==
    ASSUME StacksOK, NEW t \in Loading, stacks[t] # <<>>
    PROVE  /\ Len(stacks[t]) \in 1 .. MaxDepth /\ TopOf(t) \in Where
           /\ LoadAt(TopOf(t)) = Top(t) /\ IsFrame(Top(t))
<1> USE LoaderAssumption
<1>1. PICK S : stacks \in [Loading -> Seq(S)]
  BY DEF StacksOK
<1>2. stacks[t] \in Seq(S) /\ Len(stacks[t]) <= MaxDepth
  BY <1>1 DEF StacksOK
<1>3. Len(stacks[t]) \in 1 .. MaxDepth
  BY <1>2
<1>4. TopOf(t) \in Where
  BY <1>3 DEF TopOf, Where
<1> QED BY <1>3, <1>4 DEF TopOf, LoadAt, Top, StacksOK

LEMMA PushIs ==
    ASSUME StacksOK, NEW t \in Loading, Pushes(t)
    PROVE  /\ StacksOK' /\ Begun' = Begun
           /\ \A p \in Begun : LoadAt(p)' = LoadAt(p)
<1> USE LoaderAssumption
<1>1. PICK S : stacks \in [Loading -> Seq(S)]
  BY DEF StacksOK
<1>2. PICK n \in Names : /\ Len(stacks[t]) < MaxDepth
                         /\ stacks' = [stacks EXCEPT ![t] = Append(@, Frame(n))]
  BY DEF Pushes
<1> DEFINE f == Frame(n)
           R == S \cup {f}
<1>3. IsFrame(f) /\ f.phase = "open"
  BY DEF IsFrame, Frame, FrameFields
<1> HIDE DEF f
<1>d. PICK d \in 1 .. MaxDepth : d = Len(stacks[t]) + 1
  <2>1. Len(stacks[t]) + 1 \in 1 .. MaxDepth
    BY <1>1, <1>2
  <2> QED BY <2>1
<1>4. stacks[t] \in Seq(S) /\ Len(stacks[t]) \in Nat /\ d = Len(stacks[t]) + 1
  BY <1>1, <1>d
<1>5. /\ Append(stacks[t], f) \in Seq(R) /\ Len(Append(stacks[t], f)) = d
      /\ \A k \in 1 .. d : Append(stacks[t], f)[k] = IF k = d THEN f ELSE stacks[t][k]
  <2>1. stacks[t] \in Seq(R) /\ f \in R
    <3>1. S \subseteq R
      OBVIOUS
    <3> HIDE DEF R
    <3>2. stacks[t] \in [1 .. Len(stacks[t]) -> S]
      BY <1>4
    <3>3. stacks[t] \in [1 .. Len(stacks[t]) -> R]
      BY <3>1, <3>2
    <3> QED BY <1>4, <3>3 DEF R
  <2> HIDE DEF R
  <2> QED BY <1>4, <2>1
<1>6. /\ stacks' = [u \in Loading |-> IF u = t THEN Append(stacks[t], f) ELSE stacks[u]]
  BY <1>1, <1>2 DEF f
<1>7. stacks' \in [Loading -> Seq(R)]
  <2>1. \A u \in Loading : stacks[u] \in Seq(R)
    <3> TAKE u \in Loading
    <3>1. stacks[u] \in Seq(S)
      BY <1>1
    <3>2. S \subseteq R
      OBVIOUS
    <3> HIDE DEF R
    <3>3. stacks[u] \in [1 .. Len(stacks[u]) -> R] /\ Len(stacks[u]) \in Nat
      BY <3>1, <3>2
    <3> QED BY <3>3
  <2> HIDE DEF R
  <2> QED BY <1>5, <1>6, <2>1
<1> HIDE DEF R
<1>8. Where' = Where \cup {<<t, d>>}
  <2>1. \A p \in Loading \X (1 .. MaxDepth) :
           p[2] <= Len(stacks'[p[1]]) <=> p[2] <= Len(stacks[p[1]]) \/ p = <<t, d>>
    <3> TAKE p \in Loading \X (1 .. MaxDepth)
    <3>1. PICK u \in Loading, k \in 1 .. MaxDepth : p = <<u, k>>
      OBVIOUS
    <3>2. CASE u = t
      BY <1>4, <1>5, <1>6, <3>1, <3>2
    <3>3. CASE u # t
      BY <1>6, <3>1, <3>3
    <3> QED BY <3>2, <3>3
  <2>2. <<t, d>> \in Loading \X (1 .. MaxDepth)
    BY <1>4
  <2> QED BY <2>1, <2>2 DEF Where
<1>9. \A p \in Where : LoadAt(p)' = LoadAt(p) /\ p # <<t, d>>
  <2> TAKE p \in Where
  <2>1. PICK u \in Loading, k \in 1 .. MaxDepth : p = <<u, k>> /\ k <= Len(stacks[u])
    BY DEF Where
  <2>2. CASE u = t
    BY <1>4, <1>5, <1>6, <2>1, <2>2 DEF LoadAt
  <2>3. CASE u # t
    BY <1>6, <2>1, <2>3 DEF LoadAt
  <2> QED BY <2>2, <2>3
<1>10. LoadAt(<<t, d>>)' = f
  BY <1>4, <1>5, <1>6 DEF LoadAt
<1>11. \A u \in Loading : Len(stacks'[u]) <= MaxDepth
  BY <1>4, <1>5, <1>6 DEF StacksOK
<1>12. \A p \in Where' : IsFrame(LoadAt(p))'
  BY <1>3, <1>8, <1>9, <1>10 DEF StacksOK, IsFrame
<1>13. Begun' = Begun
  BY <1>3, <1>8, <1>9, <1>10 DEF Begun
<1>14. StacksOK'
  BY <1>7, <1>11, <1>12 DEF StacksOK
<1> QED BY <1>9, <1>13, <1>14 DEF Begun

LEMMA SetIs ==
    ASSUME StacksOK, NEW t \in Loading, Sets(t)
    PROVE  /\ StacksOK' /\ Begun' = Begun \cup {TopOf(t)} /\ TopOf(t) \in Where
           /\ \A p \in Where : LoadAt(p)'.name = LoadAt(p).name
<1> USE LoaderAssumption
<1>1. PICK S : stacks \in [Loading -> Seq(S)]
  BY DEF StacksOK
<1>2. PICK f : /\ stacks[t] # <<>>
               /\ IsFrame(f) /\ f.name = Top(t).name /\ f.phase # "open"
               /\ stacks' = [stacks EXCEPT ![t][Len(stacks[t])] = f]
  BY DEF Sets, SetTop
<1> DEFINE d == Len(stacks[t])
           R == S \cup {f}
<1>3. d \in 1 .. MaxDepth /\ TopOf(t) \in Where /\ TopOf(t) = <<t, d>>
      /\ LoadAt(TopOf(t)) = Top(t) /\ stacks[t] \in Seq(S)
  BY <1>1, <1>2, TopIs DEF TopOf
<1> DEFINE s == [stacks[t] EXCEPT ![d] = f]
<1>4. stacks' = [u \in Loading |-> IF u = t THEN s ELSE stacks[u]]
  BY <1>1, <1>2
<1>5. /\ s \in Seq(R) /\ Len(s) = d
      /\ \A k \in 1 .. d : s[k] = IF k = d THEN f ELSE stacks[t][k]
  <2>1. stacks[t] \in [1 .. d -> S] /\ d \in Nat
    BY <1>3
  <2>2. s \in [1 .. d -> R]
    BY <2>1
  <2>3. \A k \in 1 .. d : s[k] = IF k = d THEN f ELSE stacks[t][k]
    BY <2>1
  <2> HIDE DEF R, s, d
  <2>4. s \in Seq(R) /\ Len(s) = d
    BY <2>1, <2>2
  <2> QED BY <2>3, <2>4
<1>6. stacks' \in [Loading -> Seq(R)]
  <2>1. \A u \in Loading : stacks[u] \in Seq(R)
    <3> TAKE u \in Loading
    <3>1. stacks[u] \in Seq(S)
      BY <1>1
    <3>2. S \subseteq R
      OBVIOUS
    <3> HIDE DEF R
    <3>3. stacks[u] \in [1 .. Len(stacks[u]) -> R] /\ Len(stacks[u]) \in Nat
      BY <3>1, <3>2
    <3> QED BY <3>3
  <2> HIDE DEF R, s
  <2> QED BY <1>4, <1>5, <2>1
<1> HIDE DEF R, s
<1>7. Where' = Where
  <2>1. \A u \in Loading : Len(stacks'[u]) = Len(stacks[u])
    BY <1>4, <1>5
  <2> QED BY <2>1 DEF Where
<1>8. \A p \in Where : LoadAt(p)' = IF p = TopOf(t) THEN f ELSE LoadAt(p)
  <2> TAKE p \in Where
  <2>1. PICK u \in Loading, k \in 1 .. MaxDepth : p = <<u, k>> /\ k <= Len(stacks[u])
    BY DEF Where
  <2>2. CASE u = t
    BY <1>3, <1>4, <1>5, <2>1, <2>2 DEF LoadAt
  <2>3. CASE u # t
    BY <1>3, <1>4, <2>1, <2>3 DEF LoadAt
  <2> QED BY <2>2, <2>3
<1>9. \A u \in Loading : Len(stacks'[u]) <= MaxDepth
  BY <1>4, <1>5 DEF StacksOK
<1>10. \A p \in Where' : IsFrame(LoadAt(p))'
  BY <1>2, <1>7, <1>8 DEF StacksOK, IsFrame
<1>11. Begun' = Begun \cup {TopOf(t)}
  BY <1>2, <1>3, <1>7, <1>8 DEF Begun
<1>12. StacksOK'
  BY <1>6, <1>9, <1>10 DEF StacksOK
<1> QED BY <1>2, <1>3, <1>8, <1>11, <1>12

LEMMA PopIs ==
    ASSUME StacksOK, NEW t \in Loading, Pops(t)
    PROVE  /\ StacksOK' /\ Begun' = Begun \ {TopOf(t)}
           /\ \A p \in Begun' : LoadAt(p)'.name = LoadAt(p).name
<1> USE LoaderAssumption
<1>1. PICK S : stacks \in [Loading -> Seq(S)]
  BY DEF StacksOK
<1>2. PICK s : /\ stacks[t] # <<>>
               /\ stacks' = [stacks EXCEPT ![t] = s]
               /\ \E R : s \in Seq(R)
               /\ Len(s) = Len(stacks[t]) - 1
               /\ \A k \in 1 .. Len(s) : /\ IsFrame(s[k])
                                         /\ s[k].name = stacks[t][k].name
                                         /\ s[k].phase = stacks[t][k].phase
  BY DEF Pops
<1>3. PICK Q : s \in Seq(Q)
  BY <1>2
<1> DEFINE d == Len(stacks[t])
           R == S \cup Q
<1>4. d \in 1 .. MaxDepth /\ TopOf(t) \in Where /\ TopOf(t) = <<t, d>>
  BY <1>2, TopIs DEF TopOf
<1>5. stacks' = [u \in Loading |-> IF u = t THEN s ELSE stacks[u]]
  BY <1>1, <1>2
<1>6. stacks' \in [Loading -> Seq(R)]
  <2>1. \A q, A : q \in Seq(A) /\ A \subseteq R => q \in Seq(R)
    <3> HIDE DEF R
    <3> TAKE q, A
    <3> HAVE q \in Seq(A) /\ A \subseteq R
    <3>1. q \in [1 .. Len(q) -> R] /\ Len(q) \in Nat
      OBVIOUS
    <3> QED BY <3>1
  <2>2. S \subseteq R /\ Q \subseteq R
    OBVIOUS
  <2> HIDE DEF R
  <2>3. s \in Seq(R)
    BY <1>3, <2>1, <2>2
  <2>4. \A u \in Loading : stacks[u] \in Seq(R)
    BY <1>1, <2>1, <2>2
  <2> QED BY <1>5, <2>3, <2>4
<1> HIDE DEF R
<1>7. Where' = Where \ {TopOf(t)}
  <2>1. \A p \in Loading \X (1 .. MaxDepth) :
           p[2] <= Len(stacks'[p[1]]) <=> p[2] <= Len(stacks[p[1]]) /\ p # <<t, d>>
    <3> TAKE p \in Loading \X (1 .. MaxDepth)
    <3>1. PICK u \in Loading, k \in 1 .. MaxDepth : p = <<u, k>>
      OBVIOUS
    <3>2. CASE u = t
      <4>1. k <= Len(s) <=> k <= d /\ k # d
        BY <1>2, <1>4
      <4> QED BY <1>5, <3>1, <3>2, <4>1
    <3>3. CASE u # t
      BY <1>5, <3>1, <3>3
    <3> QED BY <3>2, <3>3
  <2> QED BY <1>4, <2>1 DEF Where
<1>8. \A p \in Where' : /\ IsFrame(LoadAt(p)') /\ LoadAt(p)'.name = LoadAt(p).name
                        /\ LoadAt(p)'.phase = LoadAt(p).phase
  <2> TAKE p \in Where'
  <2>1. PICK u \in Loading, k \in 1 .. MaxDepth :
           p = <<u, k>> /\ k <= Len(stacks[u]) /\ p # TopOf(t) /\ p \in Where
    BY <1>7 DEF Where
  <2>2. CASE u = t
    <3>1. k \in 1 .. Len(s)
      BY <1>2, <1>4, <2>1, <2>2
    <3>2. LoadAt(p)' = s[k] /\ LoadAt(p) = stacks[t][k]
      BY <1>5, <2>1, <2>2 DEF LoadAt
    <3> QED BY <1>2, <3>1, <3>2
  <2>3. CASE u # t
    <3>1. LoadAt(p)' = LoadAt(p)
      BY <1>5, <2>1, <2>3 DEF LoadAt
    <3> QED BY <2>1, <3>1 DEF StacksOK
  <2> QED BY <2>2, <2>3
<1>9. \A u \in Loading : Len(stacks'[u]) <= MaxDepth
  BY <1>2, <1>4, <1>5 DEF StacksOK
<1>10. StacksOK'
  BY <1>6, <1>8, <1>9 DEF StacksOK, IsFrame
<1>11. Begun' = Begun \ {TopOf(t)}
  BY <1>7, <1>8 DEF Begun
<1> QED BY <1>8, <1>10, <1>11 DEF Begun

(* What the loader's steps do to the loads. *)
LEMMA ReturnPops ==
    ASSUME StacksOK, NEW t \in Loading, stacks[t] # <<>>, NEW module, Return(t, module)
    PROVE  /\ Pops(t)
           /\ given' \subseteq given \cup {[name |-> Top(t).name, instance |-> module.instance]}
<1> USE LoaderAssumption
<1> DEFINE depth == Len(stacks[t])
           rest == Front(stacks[t])
<1>1. PICK S : stacks \in [Loading -> Seq(S)]
  BY DEF StacksOK
<1>2. depth \in Nat /\ depth >= 1 /\ depth \in 1 .. MaxDepth /\ stacks[t] \in Seq(S)
  <2>1. depth \in 1 .. MaxDepth
    BY TopIs
  <2> HIDE DEF depth
  <2>2. depth \in Nat /\ depth >= 1
    BY <2>1
  <2> QED BY <1>1, <2>1, <2>2
<1>3. \A k \in 1 .. depth : IsFrame(stacks[t][k])
  <2> TAKE k \in 1 .. depth
  <2>1. <<t, k>> \in Where
    BY <1>2 DEF Where
  <2>2. LoadAt(<<t, k>>) = stacks[t][k]
    BY DEF LoadAt
  <2> QED BY <2>1, <2>2 DEF StacksOK
<1>4. given' \subseteq given \cup {[name |-> Top(t).name, instance |-> module.instance]}
  BY DEF Return
<1>5. CASE depth = 1
  <2>1. stacks' = [stacks EXCEPT ![t] = <<>>]
    BY <1>5 DEF Return
  <2>2. <<>> \in Seq(S) /\ Len(<<>>) = 0
    OBVIOUS
  <2>3. Pops(t)
    <3> DEFINE s == <<>>
    <3>1. s \in Seq(S) /\ Len(s) = Len(stacks[t]) - 1 /\ 1 .. Len(s) = {}
      BY <1>5, <2>2
    <3>2. \A k \in 1 .. Len(s) : /\ IsFrame(s[k])
                                 /\ s[k].name = stacks[t][k].name
                                 /\ s[k].phase = stacks[t][k].phase
      BY <3>1
    <3> HIDE DEF s
    <3>3. stacks' = [stacks EXCEPT ![t] = s]
      BY <2>1 DEF s
    <3> QED BY <3>1, <3>2, <3>3, Zenon DEF Pops
  <2> QED BY <1>4, <2>3
<1>6. CASE depth # 1
  <2> DEFINE b == depth - 1
             s == [rest EXCEPT ![b].table = Emplaced(@, module.exports), ![b].next = @ + 1]
             f == [rest[b] EXCEPT !.table = Emplaced(@, module.exports), !.next = @ + 1]
  <2>1. stacks' = [stacks EXCEPT ![t] = s]
    BY <1>6 DEF Return
  <2>2. b \in 1 .. depth - 1 /\ b \in 1 .. depth /\ b \in Nat
    <3> HIDE DEF depth
    <3>1. depth \in Nat /\ depth > 1
      <4>1. depth \in Nat /\ depth >= 1 /\ depth # 1
        BY <1>2, <1>6
      <4> QED BY <4>1
    <3> QED BY <3>1
  <2>3. rest \in Seq(S) /\ Len(rest) = b /\ \A k \in 1 .. b : rest[k] = stacks[t][k]
    BY <1>2, <2>2 DEF Front
  <2>4. IsFrame(rest[b])
    BY <1>3, <2>2, <2>3
  <2> HIDE DEF b
  <2>5. s = [rest EXCEPT ![b] = f]
    BY <2>2, <2>3
  <2>6. IsFrame(f) /\ f.name = rest[b].name /\ f.phase = rest[b].phase
    <3> DEFINE r == rest[b]
    <3> HIDE DEF r
    <3>1. DOMAIN r = FrameFields /\ r.name \in Names /\ r.next \in Nat \ {0}
      BY <2>4 DEF IsFrame, r
    <3> DEFINE g == [r EXCEPT !.table = Emplaced(@, module.exports)]
    <3>2. DOMAIN g = FrameFields /\ g.name = r.name /\ g.next = r.next /\ g.phase = r.phase
      BY <3>1 DEF FrameFields
    <3> HIDE DEF g
    <3> DEFINE h == [g EXCEPT !.next = @ + 1]
    <3>3. DOMAIN h = FrameFields /\ h.name = r.name /\ h.phase = r.phase /\ h.next = g.next + 1
      BY <3>2 DEF FrameFields
    <3>4. h.next \in Nat \ {0}
      BY <3>1, <3>2, <3>3
    <3>5. f = h
      BY DEF r, g
    <3> HIDE DEF f, h
    <3> QED BY <3>1, <3>3, <3>4, <3>5 DEF IsFrame, r
  <2> HIDE DEF f, rest
  <2>7. /\ s \in Seq(S \cup {f}) /\ Len(s) = b
        /\ \A k \in 1 .. b : s[k] = IF k = b THEN f ELSE rest[k]
    <3>1. rest \in [1 .. b -> S]
      BY <2>3
    <3> DEFINE q == [rest EXCEPT ![b] = f]
               R == S \cup {f}
    <3>2. q \in [1 .. b -> R]
      BY <3>1
    <3>3. \A k \in 1 .. b : q[k] = IF k = b THEN f ELSE rest[k]
      BY <3>1
    <3> HIDE DEF q, R
    <3>4. q \in Seq(R) /\ Len(q) = b
      BY <2>2, <3>2
    <3>5. s = q
      BY <2>5 DEF q
    <3> HIDE DEF s
    <3> QED BY <3>3, <3>4, <3>5 DEF R
  <2> HIDE DEF s
  <2>8. b = depth - 1
    BY DEF b
  <2> HIDE DEF depth
  <2>9. \A k \in 1 .. b : /\ k \in 1 .. depth /\ IsFrame(s[k])
                          /\ s[k].name = stacks[t][k].name
                          /\ s[k].phase = stacks[t][k].phase
    <3> TAKE k \in 1 .. b
    <3>1. k \in 1 .. depth /\ rest[k] = stacks[t][k] /\ IsFrame(stacks[t][k])
      BY <1>2, <1>3, <2>2, <2>3, <2>8
    <3>2. CASE k = b
      BY <2>6, <2>7, <3>1, <3>2
    <3>3. CASE k # b
      BY <2>7, <3>1, <3>3
    <3> QED BY <3>1, <3>2, <3>3
  <2>10. Pops(t)
    <3>1. s \in Seq(S \cup {f}) /\ Len(s) = Len(stacks[t]) - 1
      BY <2>7, <2>8 DEF depth
    <3>2. \A k \in 1 .. Len(s) : /\ IsFrame(s[k])
                                 /\ s[k].name = stacks[t][k].name
                                 /\ s[k].phase = stacks[t][k].phase
      BY <2>7, <2>9
    <3> HIDE DEF b
    <3> QED BY <2>1, <3>1, <3>2, Zenon DEF Pops
  <2> QED BY <1>4, <2>10
<1> QED BY <1>5, <1>6

LEMMA RegisterKeeps ==
    ASSUME NEW name, NEW module, Register(name, module)
    PROVE  /\ DOMAIN modules' = DOMAIN modules \cup {name}
           /\ \A n \in DOMAIN modules : modules'[n] = modules[n]
           /\ name \notin DOMAIN modules => modules'[name] = module
BY DEF Register, Emplaced

(* A load that ends: what was given is registered, unless it was raced. *)
LEMMA PopKeeps ==
    ASSUME LoadInv, NEW t \in Loading, stacks[t] # <<>>, NEW module, Return(t, module),
           UNCHANGED <<files, loads, raced>>,
           DOMAIN modules \subseteq DOMAIN modules',
           \A n \in DOMAIN modules : modules'[n] = modules[n],
           DOMAIN modules' \subseteq DOMAIN modules \cup {Top(t).name},
           Top(t).phase # "open" => Top(t).name \in DOMAIN modules',
           \A p \in Begun : LoadAt(p).name \in DOMAIN modules' \ DOMAIN modules =>
                                p = TopOf(t) \/ LoadAt(p).name \in raced,
           module.instance # 0 => \/ Top(t).name \in raced
                                  \/ /\ Top(t).name \in DOMAIN modules'
                                     /\ modules'[Top(t).name].instance = module.instance
    PROVE  LoadInv'
<1>1. StacksOK /\ BegunOK /\ LoadsOK /\ GivenOK /\ files \in Filesets
  BY DEF LoadInv
<1>2. Pops(t) /\ given' \subseteq given \cup {[name |-> Top(t).name, instance |-> module.instance]}
  BY <1>1, ReturnPops
<1>3. /\ StacksOK' /\ Begun' = Begun \ {TopOf(t)}
      /\ \A p \in Begun' : LoadAt(p)'.name = LoadAt(p).name
  BY <1>1, <1>2, PopIs
<1>4. BegunOK'
  BY <1>1, <1>3 DEF BegunOK
<1>5. LoadsOK'
  <2> SUFFICES ASSUME NEW n \in Names, loads[n] > 0
               PROVE  n \in DOMAIN modules' \/ \E p \in Begun' : LoadAt(p)'.name = n
    BY <1>1 DEF LoadsOK
  <2>1. CASE n \in DOMAIN modules
    BY <2>1
  <2>2. CASE n \notin DOMAIN modules
    <3>1. PICK p \in Begun : LoadAt(p).name = n
      BY <1>1, <2>2 DEF LoadsOK
    <3>2. CASE p = TopOf(t)
      <4>1. Top(t).phase # "open" /\ Top(t).name = n
        BY <1>1, <3>1, <3>2, TopIs DEF Begun
      <4> QED BY <4>1
    <3>3. CASE p # TopOf(t)
      BY <1>3, <3>1, <3>3
    <3> QED BY <3>2, <3>3
  <2> QED BY <2>1, <2>2
<1>6. GivenOK'
  <2> SUFFICES ASSUME NEW g \in given', g.instance # 0, g.name \notin raced
               PROVE  g.name \in DOMAIN modules' /\ g.instance = modules'[g.name].instance
    BY DEF GivenOK
  <2>1. CASE g \in given
    BY <1>1, <2>1 DEF GivenOK
  <2>2. CASE g \notin given
    <3>1. g = [name |-> Top(t).name, instance |-> module.instance]
      BY <1>2, <2>2
    <3>2. g.name = Top(t).name /\ g.instance = module.instance
      BY <3>1
    <3> QED BY <3>2
  <2> QED BY <2>1, <2>2
<1> QED BY <1>1, <1>3, <1>4, <1>5, <1>6 DEF LoadInv

\* A load that keeps its name and its phase.
Follows(g, f) == IsFrame(g) /\ g.name = f.name /\ g.phase = f.phase

LEMMA RelocatedFollows ==
    ASSUME NEW t, IsFrame(Top(t)), NEW reloc
    PROVE  Follows(Relocated(t, reloc), Top(t))
<1>1. ASSUME NEW f, Follows(f, Top(t)), NEW v
      PROVE  Follows(Patch(f, reloc, v), Top(t))
  <2> DEFINE g == [f EXCEPT !.written = Append(@, [reloc |-> reloc, value |-> v])]
             h == [g EXCEPT !.next = @ + 1]
  <2>1. DOMAIN f = FrameFields /\ f.name = Top(t).name /\ f.phase = Top(t).phase
        /\ f.name \in Names /\ f.next \in Nat \ {0}
    BY <1>1 DEF Follows, IsFrame
  <2>2. DOMAIN g = FrameFields /\ g.name = f.name /\ g.phase = f.phase /\ g.next = f.next
    BY <2>1 DEF FrameFields
  <2> HIDE DEF g
  <2>3. DOMAIN h = FrameFields /\ h.name = f.name /\ h.phase = f.phase /\ h.next = f.next + 1
    BY <2>2 DEF FrameFields
  <2>4. h.next \in Nat \ {0}
    BY <2>1, <2>3
  <2>5. Patch(f, reloc, v) = h
    BY DEF Patch, g
  <2> HIDE DEF h
  <2> QED BY <2>1, <2>3, <2>4, <2>5 DEF Follows, IsFrame
<1>2. ASSUME NEW f, Follows(f, Top(t)), NEW a
      PROVE  Follows(getTrampAddress(f, a), Top(t))
  <2> DEFINE g == [f EXCEPT !.trampolines = Append(@, NewTrampoline(f, a))]
             h == [g EXCEPT !.codeNext = @ + 1]
  <2>1. DOMAIN f = FrameFields /\ f.name = Top(t).name /\ f.phase = Top(t).phase
        /\ f.name \in Names /\ f.next \in Nat \ {0}
    BY <1>2 DEF Follows, IsFrame
  <2>2. DOMAIN g = FrameFields /\ g.name = f.name /\ g.phase = f.phase /\ g.next = f.next
    BY <2>1 DEF FrameFields
  <2> HIDE DEF g
  <2>3. DOMAIN h = FrameFields /\ h.name = f.name /\ h.phase = f.phase /\ h.next = f.next
    BY <2>2 DEF FrameFields
  <2>4. getTrampAddress(f, a) \in {f, h}
    BY DEF getTrampAddress, g
  <2> HIDE DEF h
  <2> QED BY <1>2, <2>1, <2>3, <2>4 DEF Follows, IsFrame
<1>3. Follows(Top(t), Top(t))
  BY DEF Follows
<1>4. Follows([Top(t) EXCEPT !.failed = TRUE], Top(t))
      /\ Follows([Top(t) EXCEPT !.next = @ + 1], Top(t))
  <2> DEFINE f == Top(t)
             g == [f EXCEPT !.failed = TRUE]
             h == [f EXCEPT !.next = @ + 1]
  <2> HIDE DEF f
  <2>1. DOMAIN f = FrameFields /\ f.name \in Names /\ f.next \in Nat \ {0}
    BY DEF IsFrame, f
  <2>2. DOMAIN g = FrameFields /\ g.name = f.name /\ g.phase = f.phase /\ g.next = f.next
    BY <2>1 DEF FrameFields
  <2>3. DOMAIN h = FrameFields /\ h.name = f.name /\ h.phase = f.phase /\ h.next = f.next + 1
    BY <2>1 DEF FrameFields
  <2>4. h.next \in Nat \ {0}
    BY <2>1, <2>3
  <2> HIDE DEF g, h
  <2>5. Follows(g, f) /\ Follows(h, f)
    BY <2>1, <2>2, <2>3, <2>4 DEF Follows, IsFrame
  <2> QED BY <2>5 DEF f, g, h
<1>5. Follows(Rel24(t, reloc), Top(t))
  BY <1>1, <1>2, <1>3, <1>4 DEF Rel24
<1>6. Follows(Sda21(t, reloc), Top(t))
  BY <1>1, <1>3, <1>4 DEF Sda21
<1>7. CASE reloc.type = "REL24"
  BY <1>5, <1>7 DEF Relocated
<1>8. CASE reloc.type = "EMB_SDA21"
  BY <1>6, <1>8 DEF Relocated
<1>9. CASE reloc.type \in {"ADDR32", "ADDR16_HA_LO", "ADDR16_HI_LO"}
  BY <1>1, <1>3, <1>9 DEF Relocated
<1>10. CASE reloc.type \notin RelocationTypes
  BY <1>4, <1>10 DEF Relocated, RelocationTypes
<1> QED BY <1>7, <1>8, <1>9, <1>10 DEF RelocationTypes

(* A step that keeps what is said of the loads that were opened. *)
LEMMA PushKeeps ==
    ASSUME LoadInv, NEW t \in Loading, Pushes(t),
           UNCHANGED <<files, modules, given, loads, raced>>
    PROVE  LoadInv'
<1>1. StacksOK /\ BegunOK /\ LoadsOK /\ GivenOK /\ files \in Filesets
  BY DEF LoadInv
<1>2. /\ StacksOK' /\ Begun' = Begun
      /\ \A p \in Begun : LoadAt(p)' = LoadAt(p)
  BY <1>1, PushIs
<1>3. BegunOK'
  BY <1>1, <1>2 DEF BegunOK
<1>4. LoadsOK'
  BY <1>1, <1>2 DEF LoadsOK
<1>5. GivenOK'
  BY <1>1 DEF GivenOK
<1> QED BY <1>1, <1>2, <1>3, <1>4, <1>5 DEF LoadInv

LEMMA SetKeeps ==
    ASSUME LoadInv, NEW t \in Loading, Sets(t), Top(t).phase # "open",
           UNCHANGED <<files, modules, given, loads, raced>>
    PROVE  LoadInv'
<1>1. StacksOK /\ BegunOK /\ LoadsOK /\ GivenOK /\ files \in Filesets
  BY DEF LoadInv
<1>2. /\ StacksOK' /\ Begun' = Begun \cup {TopOf(t)} /\ TopOf(t) \in Where
      /\ \A p \in Where : LoadAt(p)'.name = LoadAt(p).name
  BY <1>1, SetIs
<1>3. LoadAt(TopOf(t)) = Top(t)
  BY <1>1, TopIs DEF Sets
<1>4. Begun' = Begun /\ \A p \in Begun : LoadAt(p)'.name = LoadAt(p).name
  BY <1>2, <1>3 DEF Begun
<1>5. BegunOK'
  BY <1>1, <1>4 DEF BegunOK
<1>6. LoadsOK'
  BY <1>1, <1>4 DEF LoadsOK
<1>7. GivenOK'
  BY <1>1 DEF GivenOK
<1> QED BY <1>1, <1>2, <1>5, <1>6, <1>7 DEF LoadInv

LEMMA OpenKeeps ==
    ASSUME LoadInv, NEW t \in Loading, OpenFile(t)
    PROVE  LoadInv'
<1> DEFINE name == Top(t).name
           top == TopOf(t)
<1>1. StacksOK /\ BegunOK /\ LoadsOK /\ GivenOK /\ files \in Filesets
  BY DEF LoadInv
<1>2. /\ stacks[t] # <<>> /\ Top(t).phase = "open" /\ name \notin DOMAIN modules
      /\ name \in DOMAIN files \ DOMAIN Kernel
      /\ loads' = [loads EXCEPT ![name] = @ + 1]
      /\ raced' = IF Cardinality(LoadsOf(name)) > 1 THEN raced \cup {name} ELSE raced
      /\ UNCHANGED <<files, modules, given>>
  BY DEF OpenFile, Opening
<1>3. top \in Where /\ LoadAt(top) = Top(t) /\ IsFrame(Top(t)) /\ name \in Names
  BY <1>1, <1>2, TopIs DEF IsFrame
<1>4. Sets(t)
  <2> DEFINE placed == Place(files[name], codeTop, dataTop, LoadStart(files[name]))
             f == Top(t)
             g1 == [f EXCEPT !.phase = "imports"]
             g2 == [g1 EXCEPT !.at = placed.at]
             g3 == [g2 EXCEPT !.segment = LoadSegment(files[name])]
             g4 == [g3 EXCEPT !.codeNext = placed.next.code]
             g5 == [g4 EXCEPT !.codeEnd = codeTop + files[name].textSize]
  <2>1. SetTop(t, g5)
    BY DEF OpenFile
  <2> HIDE DEF f, placed
  <2>2. DOMAIN f = FrameFields /\ f.name \in Names /\ f.next \in Nat \ {0} /\ f.name = Top(t).name
    BY <1>3 DEF IsFrame, f
  <2>3. DOMAIN g1 = FrameFields /\ g1.name = f.name /\ g1.phase = "imports" /\ g1.next = f.next
    BY <2>2 DEF FrameFields
  <2> HIDE DEF g1
  <2>4. DOMAIN g2 = FrameFields /\ g2.name = f.name /\ g2.phase = "imports" /\ g2.next = f.next
    BY <2>3 DEF FrameFields
  <2> HIDE DEF g2
  <2>5. DOMAIN g3 = FrameFields /\ g3.name = f.name /\ g3.phase = "imports" /\ g3.next = f.next
    BY <2>4 DEF FrameFields
  <2> HIDE DEF g3
  <2>6. DOMAIN g4 = FrameFields /\ g4.name = f.name /\ g4.phase = "imports" /\ g4.next = f.next
    BY <2>5 DEF FrameFields
  <2> HIDE DEF g4
  <2>7. DOMAIN g5 = FrameFields /\ g5.name = f.name /\ g5.phase = "imports" /\ g5.next = f.next
    BY <2>6 DEF FrameFields
  <2> HIDE DEF g5
  <2>8. IsFrame(g5) /\ g5.name = Top(t).name /\ g5.phase # "open"
    BY <2>2, <2>7 DEF IsFrame
  <2> QED BY <1>2, <2>1, <2>8, Zenon DEF Sets
<1>5. /\ StacksOK' /\ Begun' = Begun \cup {top}
      /\ \A p \in Where : LoadAt(p)'.name = LoadAt(p).name
  BY <1>1, <1>4, SetIs
<1>6. top \notin Begun /\ Begun \subseteq Where
  BY <1>2, <1>3 DEF Begun
<1>7. ASSUME NEW p \in Begun, LoadAt(p).name = name
      PROVE  name \in raced'
  <2>1. p \in LoadsOf(name) /\ top \in LoadsOf(name) /\ p # top
    BY <1>3, <1>6, <1>7 DEF LoadsOf
  <2>2. IsFiniteSet(LoadsOf(name))
    <3>1. IsFiniteSet(Loading) /\ IsFiniteSet(1 .. MaxDepth)
      BY LoaderAssumption, FS_Interval
    <3>2. IsFiniteSet(Loading \X (1 .. MaxDepth))
      BY <3>1, FS_Product
    <3> QED BY <3>2, FS_Subset DEF LoadsOf, Where
  <2>3. {p, top} \subseteq LoadsOf(name) /\ Cardinality({p, top}) = 2
    BY <2>1, PairCounts
  <2>4. Cardinality(LoadsOf(name)) \in Nat /\ 2 <= Cardinality(LoadsOf(name))
    BY <2>2, <2>3, FS_Subset, FS_CardinalityType
  <2> QED BY <1>2, <2>4
<1>8. raced \subseteq raced'
  BY <1>2
<1> HIDE DEF top, name
<1>9. BegunOK'
  <2>1. \A p \in Begun' : LoadAt(p)'.name = LoadAt(p).name
    BY <1>3, <1>5, <1>6
  <2>2. \A p \in Begun' : LoadAt(p).name \in DOMAIN files \ DOMAIN Kernel
    BY <1>1, <1>2, <1>3, <1>5 DEF BegunOK, name
  <2>3. \A p \in Begun' : LoadAt(p).name \in DOMAIN modules => LoadAt(p).name \in raced'
    BY <1>1, <1>2, <1>3, <1>5, <1>8 DEF BegunOK, name
  <2>4. \A p, q \in Begun' : p # q /\ LoadAt(p).name = LoadAt(q).name => LoadAt(p).name \in raced'
    BY <1>1, <1>3, <1>5, <1>7, <1>8 DEF BegunOK, name
  <2> QED BY <1>2, <2>1, <2>2, <2>3, <2>4 DEF BegunOK
<1>10. LoadsOK' /\ \A n \in Names : loads'[n] > 1 => n \in raced'
  <2>1. loads \in [Names -> Nat] /\ loads' \in [Names -> Nat]
        /\ \A n \in Names : loads'[n] = IF n = name THEN loads[n] + 1 ELSE loads[n]
    BY <1>1, <1>2, <1>3 DEF LoadsOK
  <2>2. ASSUME NEW n \in Names, loads'[n] > 0
        PROVE  n \in DOMAIN modules' \/ \E p \in Begun' : LoadAt(p)'.name = n
    <3>1. CASE n = name
      BY <1>3, <1>5, <3>1 DEF name
    <3>2. CASE n # name
      <4>1. n \in DOMAIN modules \/ \E p \in Begun : LoadAt(p).name = n
        BY <1>1, <2>1, <2>2, <3>2 DEF LoadsOK
      <4> QED BY <1>2, <1>5, <1>6, <4>1
    <3> QED BY <3>1, <3>2
  <2>3. ASSUME NEW n \in Names, loads'[n] > 1
        PROVE  n \in raced'
    <3>1. CASE n = name
      <4>1. loads[name] > 0
        BY <2>1, <2>3, <3>1
      <4>2. PICK p \in Begun : LoadAt(p).name = name
        BY <1>1, <1>2, <1>3, <4>1 DEF LoadsOK
      <4> QED BY <1>7, <3>1, <4>2
    <3>2. CASE n # name
      BY <1>8, <2>1, <2>3, <3>2 DEF LoadInv
    <3> QED BY <3>1, <3>2
  <2> QED BY <2>1, <2>2, <2>3 DEF LoadsOK
<1>11. GivenOK'
  BY <1>1, <1>2, <1>8 DEF GivenOK
<1> QED BY <1>1, <1>2, <1>5, <1>9, <1>10, <1>11 DEF LoadInv

LEMMA LoadStepKeeps ==
    ASSUME LoadInv, NEW t \in Loading, LoadStep(t)
    PROVE  LoadInv'
<1>1. StacksOK /\ BegunOK /\ files \in Filesets
  BY DEF LoadInv
<1>2. \A r \in DOMAIN FullName : FullName[r] \in Names
  BY DEF Names
<1>3. stacks[t] # <<>> => /\ IsFrame(Top(t)) /\ TopOf(t) \in Where
                          /\ LoadAt(TopOf(t)) = Top(t)
                          /\ Top(t).phase # "open" => TopOf(t) \in Begun
  BY <1>1, TopIs DEF Begun
<1>4. CASE BeginLoad(t)
  <2>1. Pushes(t)
    BY <1>2, <1>4, LoaderAssumption DEF BeginLoad, Enter, Pushes
  <2>2. UNCHANGED <<files, modules, given, loads, raced>>
    BY <1>4 DEF BeginLoad
  <2> QED BY <2>1, <2>2, PushKeeps
<1>5. CASE ImportLibrary(t)
  <2>1. stacks[t] # <<>> /\ Top(t).phase = "imports" /\ Top(t).next <= Len(FileOf(t).imports)
        /\ Enter(t, FullName[FileOf(t).imports[Top(t).next]])
        /\ UNCHANGED <<files, modules, given, loads, raced>>
    BY <1>5 DEF ImportLibrary, In
  <2>2. Top(t).name \in DOMAIN files
    BY <1>1, <1>3, <2>1 DEF BegunOK
  <2>3. Top(t).next \in 1 .. Len(FileOf(t).imports)
    BY <1>3, <2>1 DEF IsFrame
  <2>4. FileOf(t).imports[Top(t).next] \in DOMAIN FullName
    BY <1>1, <2>2, <2>3, LoaderAssumption DEF FileOf
  <2>5. Pushes(t)
    BY <1>2, <2>1, <2>4 DEF Enter, Pushes
  <2> QED BY <2>1, <2>5, PushKeeps
<1>6. CASE FindModule(t)
  <2>1. /\ stacks[t] # <<>> /\ Top(t).phase = "open" /\ Top(t).name \in DOMAIN modules
        /\ Return(t, modules[Top(t).name]) /\ UNCHANGED <<files, modules, loads, raced>>
    BY <1>6 DEF FindModule
  <2> QED BY <2>1, PopKeeps
<1>7. CASE loadKernelModule(t)
  <2>1. /\ stacks[t] # <<>> /\ Top(t).phase = "open" /\ Top(t).name \notin DOMAIN modules
        /\ Top(t).name \in DOMAIN Kernel /\ UNCHANGED <<files, loads, raced>>
    BY <1>7 DEF loadKernelModule, Opening
  <2>2. PICK m : Register(Top(t).name, m) /\ Return(t, m)
    BY <1>7, Zenon DEF loadKernelModule
  <2>3. \A p \in Begun : LoadAt(p).name # Top(t).name
    BY <1>1, <2>1 DEF BegunOK
  <2>4. /\ DOMAIN modules' = DOMAIN modules \cup {Top(t).name}
        /\ \A n \in DOMAIN modules : modules'[n] = modules[n]
        /\ modules'[Top(t).name] = m
    BY <2>1, <2>2, RegisterKeeps
  <2> QED BY <2>1, <2>2, <2>3, <2>4, PopKeeps
<1>8. CASE LoadFails(t) \/ LoadBreaks(t)
  <2>1. /\ stacks[t] # <<>> /\ Top(t).phase = "open"
        /\ Return(t, NoModule) /\ UNCHANGED <<files, modules, loads, raced>>
    BY <1>8 DEF LoadFails, LoadBreaks, Opening
  <2>2. NoModule.instance = 0
    BY DEF NoModule
  <2> QED BY <2>1, <2>2, PopKeeps
<1>9. CASE OpenFile(t)
  BY <1>9, OpenKeeps
<1>10. CASE BindImports(t)
  <2>1. stacks[t] # <<>> /\ Top(t).phase = "imports"
        /\ UNCHANGED <<files, modules, given, loads, raced>>
    BY <1>10 DEF BindImports, In
  <2>2. PICK v : SetTop(t, [Top(t) EXCEPT !.phase = "relocations", !.next = 1, !.slots = v])
    BY <1>10, Zenon DEF BindImports
  <2>3. Sets(t)
    <3> DEFINE f == Top(t)
               g1 == [f EXCEPT !.phase = "relocations"]
               g2 == [g1 EXCEPT !.next = 1]
               g3 == [g2 EXCEPT !.slots = v]
    <3>1. SetTop(t, g3)
      BY <2>2
    <3> HIDE DEF f
    <3>2. DOMAIN f = FrameFields /\ f.name \in Names /\ f.name = Top(t).name
      BY <1>3, <2>1 DEF IsFrame, f
    <3>3. DOMAIN g1 = FrameFields /\ g1.name = f.name /\ g1.phase = "relocations"
      BY <3>2 DEF FrameFields
    <3> HIDE DEF g1
    <3>4. DOMAIN g2 = FrameFields /\ g2.name = f.name /\ g2.phase = "relocations" /\ g2.next = 1
      BY <3>3 DEF FrameFields
    <3> HIDE DEF g2
    <3>5. DOMAIN g3 = FrameFields /\ g3.name = f.name /\ g3.phase = "relocations" /\ g3.next = 1
      BY <3>4 DEF FrameFields
    <3> HIDE DEF g3
    <3>6. IsFrame(g3) /\ g3.name = Top(t).name /\ g3.phase # "open"
      BY <3>2, <3>5 DEF IsFrame
    <3> QED BY <2>1, <3>1, <3>6, Zenon DEF Sets
  <2> QED BY <2>1, <2>3, SetKeeps
<1>11. CASE Relocate(t)
  <2>1. stacks[t] # <<>> /\ Top(t).phase = "relocations"
        /\ UNCHANGED <<files, modules, given, loads, raced>>
    BY <1>11 DEF Relocate, In
  <2>2. SetTop(t, Relocated(t, FileOf(t).relocations[Top(t).next]))
    BY <1>11 DEF Relocate
  <2>3. Follows(Relocated(t, FileOf(t).relocations[Top(t).next]), Top(t))
    BY <1>3, <2>1, RelocatedFollows
  <2>4. Sets(t)
    BY <2>1, <2>2, <2>3 DEF Sets, Follows
  <2> QED BY <2>1, <2>4, SetKeeps
<1>12. CASE FinishLoad(t)
  <2>1. /\ stacks[t] # <<>> /\ Top(t).phase = "relocations" /\ UNCHANGED <<files, loads, raced>>
    BY <1>12 DEF FinishLoad, In
  <2>2. PICK m : Register(Top(t).name, m) /\ Return(t, m)
    BY <1>12, Zenon DEF FinishLoad
  <2>3. /\ DOMAIN modules' = DOMAIN modules \cup {Top(t).name}
        /\ \A n \in DOMAIN modules : modules'[n] = modules[n]
        /\ Top(t).name \notin DOMAIN modules => modules'[Top(t).name] = m
    BY <2>2, RegisterKeeps
  <2>4. TopOf(t) \in Begun /\ LoadAt(TopOf(t)) = Top(t)
    BY <1>3, <2>1
  <2>5. \A p \in Begun : LoadAt(p).name \in DOMAIN modules' \ DOMAIN modules =>
                             p = TopOf(t) \/ LoadAt(p).name \in raced
    BY <1>1, <2>3, <2>4 DEF BegunOK
  <2>6. Top(t).name \in DOMAIN modules => Top(t).name \in raced
    BY <1>1, <2>4 DEF BegunOK
  <2> QED BY <2>1, <2>2, <2>3, <2>5, <2>6, PopKeeps
<1> QED BY <1>4, <1>5, <1>6, <1>7, <1>8, <1>9, <1>10, <1>11, <1>12 DEF LoadStep

(* Whatever the libraries import, and however the loads of any number of       *)
(* threads interleave: a library is put into memory once and whoever loads it  *)
(* has the same instance, unless a load of it began before another had ended   *)
(* (loader.cpp: loadRPL, processImports; coreinit_dynload.cpp).                *)
THEOREM LoadsCorrect == SpecLoader => []LoadedOnce
<1>1. InitLoader => LoadInv
  <2> SUFFICES ASSUME InitLoader PROVE LoadInv
    OBVIOUS
  <2>1. stacks = [t \in Loading |-> <<>>] /\ files \in Filesets /\ given = {}
        /\ loads = [n \in Names |-> 0]
    BY DEF InitLoader
  <2>2. Where = {}
    BY <2>1 DEF Where
  <2>3. StacksOK
    <3>1. stacks \in [Loading -> Seq({})] /\ MaxDepth >= 0
      BY <2>1, LoaderAssumption
    <3>2. \A t \in Loading : Len(stacks[t]) <= MaxDepth
      BY <2>1, LoaderAssumption
    <3> QED BY <2>2, <3>1, <3>2 DEF StacksOK
  <2>4. BegunOK
    BY <2>2 DEF BegunOK, Begun
  <2>5. LoadsOK /\ \A n \in Names : ~(loads[n] > 1)
    BY <2>1 DEF LoadsOK
  <2> QED BY <2>1, <2>3, <2>4, <2>5 DEF LoadInv, GivenOK
<1>2. LoadInv /\ [NextLoader]_loaderVars => LoadInv'
  <2> SUFFICES ASSUME LoadInv, [NextLoader]_loaderVars PROVE LoadInv'
    OBVIOUS
  <2>1. CASE NextLoader
    BY <2>1, LoadStepKeeps DEF NextLoader
  <2>2. CASE UNCHANGED loaderVars
    <3>1. UNCHANGED <<files, modules, stacks, given, loads, raced>>
      BY <2>2 DEF loaderVars
    <3> QED BY <3>1 DEF LoadInv, StacksOK, BegunOK, LoadsOK, GivenOK, Begun, Where, LoadAt, IsFrame
  <2> QED BY <2>1, <2>2
<1>3. LoadInv => LoadedOnce
  BY DEF LoadInv, GivenOK, LoadedOnce
<1> QED BY <1>1, <1>2, <1>3, PTL DEF SpecLoader

=============================================================================
