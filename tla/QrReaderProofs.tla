--------------------------- MODULE QrReaderProofs ---------------------------
(***************************************************************************)
(* Proofs about QrCode and QrReader, for every text of up to 63 characters *)
(* where TLC tries ten: the choice of version and level is the standard's, *)
(* and so are the format words, the areas that carry no data and the way   *)
(* through the symbol; the terminal shows the symbol, and the reader gets  *)
(* every data module back with its mask undone.                            *)
(***************************************************************************)
EXTENDS QrReader, TLAPS, FiniteSetTheorems

-----------------------------------------------------------------------------
(* Capacities: the encoder computes what the standard tabulates *)

LEMMA RawModules ==
    /\ NumRawDataModules(1) = 208 /\ NumRawDataModules(2) = 359
    /\ NumRawDataModules(3) = 567 /\ NumRawDataModules(4) = 807
BY DEF NumRawDataModules

\* Data codewords, in all blocks together.
DataOf(v, ecl) == Blocks[v][ecl + 1][1] * Blocks[v][ecl + 1][2]

LEMMA DataCodewords ==
    \A v \in 1 .. 4, ecl \in 0 .. 3 : NumDataCodewords(v, ecl) = DataOf(v, ecl)
<1> TAKE v \in 1 .. 4, ecl \in 0 .. 3
<1>1. v \in {1, 2, 3, 4} /\ ecl \in {0, 1, 2, 3}
    OBVIOUS
<1> QED
    BY <1>1, RawModules
    DEF NumDataCodewords, DataOf, Blocks, ECC_CODEWORDS_PER_BLOCK, NUM_ERROR_CORRECTION_BLOCKS

\* The bits of n characters with their header fit just as long as n is one the
\* standard allows.
LEMMA Boundaries ==
    \A v \in 1 .. 4, ecl \in 0 .. 3, n \in Nat :
        /\ 14 + (n * 10 + 2) \div 3 <= DataOf(v, ecl) * 8 <=> n <= Capacity.NUMERIC[v][ecl + 1]
        /\ 13 + (n * 11 + 1) \div 2 <= DataOf(v, ecl) * 8
               <=> n <= Capacity.ALPHANUMERIC[v][ecl + 1]
        /\ 12 + n * 8 <= DataOf(v, ecl) * 8 <=> n <= Capacity.BYTE[v][ecl + 1]
<1> TAKE v \in 1 .. 4, ecl \in 0 .. 3, n \in Nat
<1>1. v \in {1, 2, 3, 4} /\ ecl \in {0, 1, 2, 3}
    OBVIOUS
<1>2. 14 + (n * 10 + 2) \div 3 <= DataOf(v, ecl) * 8 <=> n <= Capacity.NUMERIC[v][ecl + 1]
    BY <1>1 DEF DataOf, Blocks, Capacity
<1>3. 13 + (n * 11 + 1) \div 2 <= DataOf(v, ecl) * 8
          <=> n <= Capacity.ALPHANUMERIC[v][ecl + 1]
    BY <1>1 DEF DataOf, Blocks, Capacity
<1>4. 12 + n * 8 <= DataOf(v, ecl) * 8 <=> n <= Capacity.BYTE[v][ecl + 1]
    BY <1>1 DEF DataOf, Blocks, Capacity
<1> QED
    BY <1>2, <1>3, <1>4

CapacityModes == {"NUMERIC", "ALPHANUMERIC", "BYTE"}

LEMMA CapacityBounds ==
    \A mode \in CapacityModes, v \in 1 .. 4, level \in 1 .. 4 : Capacity[mode][v][level] \in 1 .. 187
<1> TAKE mode \in CapacityModes, v \in 1 .. 4, level \in 1 .. 4
<1>1. v \in {1, 2, 3, 4} /\ level \in {1, 2, 3, 4}
    OBVIOUS
<1>2. CASE mode = "NUMERIC"
    BY <1>1, <1>2 DEF Capacity
<1>3. CASE mode = "ALPHANUMERIC"
    BY <1>1, <1>3 DEF Capacity
<1>4. CASE mode = "BYTE"
    BY <1>1, <1>4 DEF Capacity
<1> QED
    BY <1>2, <1>3, <1>4 DEF CapacityModes

LEMMA CountBits ==
    \A v \in 1 .. 4 : /\ NumCharCountBits("NUMERIC", v) = 10
                      /\ NumCharCountBits("ALPHANUMERIC", v) = 9
                      /\ NumCharCountBits("BYTE", v) = 8
BY DEF NumCharCountBits

\* What the encoder lays out for a segment in versions 1 to 4.
SegmentBits(mode, n) == CASE mode = "NUMERIC"      -> 14 + (n * 10 + 2) \div 3
                    [] mode = "ALPHANUMERIC" -> 13 + (n * 11 + 1) \div 2
                    [] mode = "BYTE"         -> 12 + n * 8

LEMMA SegmentBitsIs ==
    \A mode \in CapacityModes, v \in 1 .. 4, n \in Nat :
        /\ SegmentBits(mode, n) = 4 + NumCharCountBits(mode, v) + CalcSegmentBitLength(mode, n)
        /\ SegmentBits(mode, n) \in Nat
        /\ n < 256 => n < 2 ^ NumCharCountBits(mode, v)
<1> TAKE mode \in CapacityModes, v \in 1 .. 4, n \in Nat
<1>1. 2 ^ 8 = 256 /\ 2 ^ 9 = 512 /\ 2 ^ 10 = 1024
    OBVIOUS
<1>2. CASE mode = "NUMERIC"
    <2>1. NumCharCountBits(mode, v) = 10
        BY <1>2, CountBits
    <2>2. /\ CalcSegmentBitLength(mode, n) = (n * 10 + 2) \div 3
          /\ SegmentBits(mode, n) = 14 + (n * 10 + 2) \div 3
        BY <1>2 DEF CalcSegmentBitLength, SegmentBits
    <2> QED
        BY <1>1, <2>1, <2>2
<1>3. CASE mode = "ALPHANUMERIC"
    <2>1. NumCharCountBits(mode, v) = 9
        BY <1>3, CountBits
    <2>2. /\ CalcSegmentBitLength(mode, n) = (n * 11 + 1) \div 2
          /\ SegmentBits(mode, n) = 13 + (n * 11 + 1) \div 2
        BY <1>3 DEF CalcSegmentBitLength, SegmentBits
    <2> QED
        BY <1>1, <2>1, <2>2
<1>4. CASE mode = "BYTE"
    <2>1. NumCharCountBits(mode, v) = 8
        BY <1>4, CountBits
    <2>2. CalcSegmentBitLength(mode, n) = n * 8 /\ SegmentBits(mode, n) = 12 + n * 8
        BY <1>4 DEF CalcSegmentBitLength, SegmentBits
    <2> QED
        BY <1>1, <2>1, <2>2
<1> QED
    BY <1>2, <1>3, <1>4 DEF CapacityModes

LEMMA SegmentFits ==
    \A mode \in CapacityModes, v \in 1 .. 4, ecl \in 0 .. 3, n \in Nat :
        SegmentBits(mode, n) <= DataOf(v, ecl) * 8 <=> n <= Capacity[mode][v][ecl + 1]
<1> TAKE mode \in CapacityModes, v \in 1 .. 4, ecl \in 0 .. 3, n \in Nat
<1>1. CASE mode = "NUMERIC"
    <2>1. SegmentBits(mode, n) = 14 + (n * 10 + 2) \div 3
        BY <1>1 DEF SegmentBits
    <2> QED
        BY <1>1, <2>1, Boundaries
<1>2. CASE mode = "ALPHANUMERIC"
    <2>1. SegmentBits(mode, n) = 13 + (n * 11 + 1) \div 2
        BY <1>2 DEF SegmentBits
    <2> QED
        BY <1>2, <2>1, Boundaries
<1>3. CASE mode = "BYTE"
    <2>1. SegmentBits(mode, n) = 12 + n * 8
        BY <1>3 DEF SegmentBits
    <2> QED
        BY <1>3, <2>1, Boundaries
<1> QED
    BY <1>1, <1>2, <1>3 DEF CapacityModes

\* The encoder's test whether a segment fits, from polynomials, a subtraction of
\* table entries and a sum of bits, is the standard's table of capacities, for every
\* number of characters: no boundary is off by a bit or by a character.
THEOREM FitsIsCapacity ==
    ASSUME NEW seg, seg.mode \in CapacityModes, seg.numChars \in Nat,
           NEW v \in 1 .. 4, NEW ecl \in 0 .. 3
    PROVE  Fits(seg, v, ecl) <=> seg.numChars <= Capacity[seg.mode][v][ecl + 1]
<1> DEFINE n   == seg.numChars
           cc  == NumCharCountBits(seg.mode, v)
           all == SegmentBits(seg.mode, n)
           cap == Capacity[seg.mode][v][ecl + 1]
           data == DataOf(v, ecl)
<1>1. ecl + 1 \in 1 .. 4
    OBVIOUS
<1>2. cap \in 1 .. 187
    BY <1>1, CapacityBounds
<1>3. NumDataCodewords(v, ecl) = data /\ data \in Nat
    <2>1. v \in {1, 2, 3, 4} /\ ecl \in {0, 1, 2, 3}
        OBVIOUS
    <2> QED
        BY <2>1, DataCodewords DEF DataOf, Blocks
<1>4. all <= data * 8 <=> n <= cap
    BY SegmentFits
<1>5. /\ all = 4 + cc + CalcSegmentBitLength(seg.mode, n)
      /\ all \in Nat
      /\ n < 256 => n < 2 ^ cc
    BY SegmentBitsIs
<1>6. TotalBits(seg, v) = IF n = 0 THEN 0 ELSE IF n >= 2 ^ cc THEN -1 ELSE all
    BY <1>5 DEF TotalBits
<1>7. cc \in {8, 9, 10}
    BY CountBits DEF CapacityModes
<1>8. 2 ^ cc \in Nat
    <2>1. CASE cc = 8
        BY <2>1
    <2>2. CASE cc = 9
        BY <2>2
    <2>3. CASE cc = 10
        BY <2>3
    <2> QED
        BY <1>7, <2>1, <2>2, <2>3
<1> HIDE DEF n, cc, all, cap, data
<1> DEFINE total == TotalBits(seg, v)
           room == data * 8
<1>9. n \in Nat /\ room \in Nat
    BY <1>3 DEF n
<1>10. Fits(seg, v, ecl) <=> total \in 0 .. room
    BY <1>3 DEF Fits
<1> HIDE DEF total, room
<1>11. CASE n = 0
    BY <1>2, <1>6, <1>9, <1>10, <1>11 DEF n, cap, total
<1>12. CASE n # 0 /\ n < 256
    <2>1. total = all
        BY <1>5, <1>6, <1>8, <1>9, <1>12 DEF total
    <2>2. total \in 0 .. room <=> n <= cap
        BY <1>4, <1>5, <1>9, <2>1 DEF room
    <2> QED
        BY <1>10, <2>2 DEF n, cap
<1>13. CASE n >= 256
    <2>1. ~ n <= cap
        BY <1>2, <1>9, <1>13
    <2>2. total = -1 \/ total = all
        BY <1>6, <1>9, <1>13 DEF total
    <2>3. total \in 0 .. room => n <= cap
        BY <1>4, <1>5, <1>9, <2>2 DEF room
    <2> QED
        BY <1>10, <2>1, <2>3 DEF n, cap
<1> QED
    BY <1>9, <1>11, <1>12, <1>13

-----------------------------------------------------------------------------
(* The choice of version and level *)

IsSegment(seg) == seg.mode \in CapacityModes /\ seg.numChars \in 0 .. 63

LEMMA EverySegmentFits == \A seg : IsSegment(seg) => Fits(seg, 4, 0)
<1> SUFFICES ASSUME NEW seg, IsSegment(seg) PROVE Fits(seg, 4, 0)
    OBVIOUS
<1> DEFINE n == seg.numChars
           cap == Capacity[seg.mode][4][1]
<1>1. seg.mode \in CapacityModes /\ n \in 0 .. 63
    BY DEF IsSegment
<1>2. cap \in 63 .. 187
    <2>1. /\ Capacity["NUMERIC"][4][1] = 187
          /\ Capacity["ALPHANUMERIC"][4][1] = 114
          /\ Capacity["BYTE"][4][1] = 78
        BY DEF Capacity
    <2> QED
        BY <1>1, <2>1 DEF CapacityModes
<1>3. n \in Nat /\ (Fits(seg, 4, 0) <=> n <= cap)
    <2>1. 0 + 1 = 1 /\ n \in Nat
        BY <1>1
    <2> QED
        BY <1>1, <2>1, FitsIsCapacity
<1> HIDE DEF n, cap
<1> QED
    BY <1>1, <1>2, <1>3

\* Version finds one among 1 to 4, the smallest that fits at level LOW.
LEMMA VersionIsSmallest ==
    ASSUME NEW seg, IsSegment(seg), NEW v, v = Version(seg, 0, 1, 9)
    PROVE  v \in 1 .. 4 /\ Fits(seg, v, 0) /\ \A u \in 1 .. v - 1 : ~ Fits(seg, u, 0)
<1> DEFINE fitting == {u \in 1 .. 9 : Fits(seg, u, 0)}
<1>1. 4 \in fitting
    BY EverySegmentFits
<1>2. PICK m \in fitting : \A u \in fitting : m <= u
    <2>1. CASE 1 \in fitting
        BY <2>1
    <2>2. CASE 1 \notin fitting /\ 2 \in fitting
        BY <2>2
    <2>3. CASE 1 \notin fitting /\ 2 \notin fitting /\ 3 \in fitting
        BY <2>3
    <2>4. CASE 1 \notin fitting /\ 2 \notin fitting /\ 3 \notin fitting
        BY <2>4, <1>1
    <2> QED
        BY <2>1, <2>2, <2>3, <2>4
<1>3. v = Min(fitting)
    BY <1>1 DEF Version
<1>4. v \in fitting /\ \A u \in fitting : v <= u
    BY <1>2, <1>3 DEF Min
<1> QED
    BY <1>1, <1>4

\* Boost goes up to the highest level that fits.
LEMMA BoostIsHighest ==
    ASSUME NEW seg, NEW v, Fits(seg, v, 0), NEW e, e = Boost(seg, v, 0)
    PROVE  e \in 0 .. 3 /\ Fits(seg, v, e) /\ \A f \in e + 1 .. 3 : ~ Fits(seg, v, f)
<1> DEFINE fitting == {0} \cup {f \in 1 .. 3 : Fits(seg, v, f)}
<1>1. PICK m \in fitting : \A f \in fitting : m >= f
    <2>1. CASE 3 \in fitting
        BY <2>1
    <2>2. CASE 3 \notin fitting /\ 2 \in fitting
        BY <2>2
    <2>3. CASE 3 \notin fitting /\ 2 \notin fitting /\ 1 \in fitting
        BY <2>3
    <2>4. CASE 3 \notin fitting /\ 2 \notin fitting /\ 1 \notin fitting
        BY <2>4
    <2> QED
        BY <2>1, <2>2, <2>3, <2>4
<1>2. e = Max(fitting)
    BY DEF Boost
<1>3. e \in fitting /\ \A f \in fitting : e >= f
    BY <1>1, <1>2 DEF Max
<1> QED
    BY <1>3

LEMMA ChoiceIsBest ==
    ASSUME NEW seg, IsSegment(seg)
    PROVE  IsBestFit(seg.mode, Chosen(seg).v, Chosen(seg).ecl + 1, seg.numChars)
<1> DEFINE v   == Version(seg, 0, 1, 9)
           ecl == Boost(seg, v, 0)
           n   == seg.numChars
<1>1. Chosen(seg).v = v /\ Chosen(seg).ecl = ecl
    BY DEF Chosen, Ecc
<1>2. v \in 1 .. 4 /\ Fits(seg, v, 0) /\ \A u \in 1 .. v - 1 : ~ Fits(seg, u, 0)
    BY VersionIsSmallest
<1>3. ecl \in 0 .. 3 /\ Fits(seg, v, ecl) /\ \A f \in ecl + 1 .. 3 : ~ Fits(seg, v, f)
    BY <1>2, BoostIsHighest
<1>4. seg.mode \in CapacityModes /\ n \in Nat
    BY DEF IsSegment
<1> HIDE DEF v, ecl
<1>5. \A u \in 1 .. 4, f \in 0 .. 3 : Fits(seg, u, f) <=> n <= Capacity[seg.mode][u][f + 1]
    BY <1>4, FitsIsCapacity
<1>6. n <= Capacity[seg.mode][v][ecl + 1] /\ ecl + 1 \in 1 .. 4
    BY <1>2, <1>3, <1>5
<1>7. ASSUME NEW u \in 1 .. v - 1 PROVE ~ (n <= Capacity[seg.mode][u][1])
    <2>1. u \in 1 .. 4 /\ 0 \in 0 .. 3 /\ 0 + 1 = 1
        BY <1>2
    <2> QED
        BY <1>2, <1>5, <2>1
<1>8. ASSUME NEW level \in (ecl + 1) + 1 .. 4 PROVE ~ (n <= Capacity[seg.mode][v][level])
    <2>1. level - 1 \in ecl + 1 .. 3 /\ level - 1 \in 0 .. 3 /\ (level - 1) + 1 = level
        BY <1>3
    <2> QED
        BY <1>2, <1>3, <1>5, <2>1
<1>9. IsBestFit(seg.mode, v, ecl + 1, n)
    BY <1>2, <1>6, <1>7, <1>8 DEF IsBestFit
<1> QED
    BY <1>1, <1>9

-----------------------------------------------------------------------------
(* From the text to the terminal *)

LEMMA TextIsSegment == \A t \in Texts : IsSegment(Segment(t)) /\ Segment(t).numChars = Len(t)
<1> TAKE t \in Texts
<1>1. Len(t) \in 0 .. 63
    <2>1. t \in Seq(1 .. 255) /\ Len(t) <= 63
        BY TextAssumption
    <2>2. Len(t) \in Nat
        BY <2>1
    <2>3. \A n \in Nat : n <= 63 => n \in 0 .. 63
        OBVIOUS
    <2> QED
        BY <2>1, <2>2, <2>3, Zenon
<1>2. Segment(t).numChars = Len(t) /\ Segment(t).mode \in CapacityModes
    BY DEF Segment, CapacityModes
<1> QED
    BY <1>1, <1>2 DEF IsSegment

Mode == Segment(text).mode

\* Line i of the terminal: the row the loop of cmd_qr has come to.
Line(i) == {x + quiet : x \in Row(symbol.dark, i - 1 - quiet)}

Shown == /\ screen \in Seq({Line(i) : i \in Nat})
         /\ \A i \in 1 .. Len(screen) : screen[i] = Line(i)

\* What is still known at every stage of the choice made at the first one.
Drafted ==
    /\ text \in Texts
    /\ stage \in {"choose", "fill", "draw", "mask"} => screen = << >>
    /\ stage = "fill" => draft.seg = Segment(text)
    /\ stage \in {"fill", "draw", "mask"} => IsBestFit(Mode, draft.v, draft.ecl + 1, Len(text))
    /\ stage \in {"print", "scan", "decode", "unpack", "read"} =>
          /\ \E v, level \in 1 .. 4 : IsBestFit(Mode, v, level, Len(text)) /\ symbol.size = QrSize(v)
          /\ Shown
          /\ IF stage = "print" THEN Len(screen) < symbol.size + 2 * quiet
                                ELSE Len(screen) = symbol.size + 2 * quiet
    /\ stage \in {"choose", "fill", "draw", "mask", "print", "scan", "decode", "unpack", "read"}

LEMMA NextDrafted == Drafted /\ [Next]_vars => Drafted'
<1> SUFFICES ASSUME Drafted, [Next]_vars PROVE Drafted'
    OBVIOUS
<1> USE DEF Drafted
<1>1. CASE Choose
    <2>1. draft' = Chosen(Segment(text)) /\ stage' = "fill" /\ UNCHANGED <<text, screen>>
        BY <1>1 DEF Choose, Then
    <2>2. IsBestFit(Mode, draft'.v, draft'.ecl + 1, Len(text))
        BY <2>1, TextIsSegment, ChoiceIsBest DEF Mode
    <2>3. draft'.seg = Segment(text)
        BY <2>1 DEF Chosen
    <2> QED
        BY <1>1, <2>1, <2>2, <2>3 DEF Choose, Then, Mode
<1>2. CASE Fill
    BY <1>2 DEF Fill, Then, Mode
<1>3. CASE Draw
    BY <1>3 DEF Draw, Then, Mode
<1>4. CASE Mask
    <2>1. /\ IsBestFit(Mode, draft.v, draft.ecl + 1, Len(text))
          /\ symbol'.size = QrSize(draft.v)
          /\ stage' = "print" /\ UNCHANGED <<text, screen>> /\ screen = << >>
        BY <1>4 DEF Mask, Then
    <2>2. QrSize(draft.v) \in Nat /\ draft.v \in 1 .. 4 /\ draft.ecl + 1 \in 1 .. 4
        BY <2>1 DEF IsBestFit, QrSize
    <2>3. Shown' /\ Len(screen') < symbol'.size + 2 * quiet
        BY <2>1, <2>2 DEF Shown, quiet
    <2>4. \E v, level \in 1 .. 4 :
              IsBestFit(Mode, v, level, Len(text))' /\ symbol'.size = QrSize(v)
        BY <2>1, <2>2 DEF Mode
    <2> QED
        BY <2>1, <2>3, <2>4
<1>5. CASE PrintLine
    <2>1. /\ stage = "print" /\ UNCHANGED <<text, symbol>>
          /\ screen' = Append(screen, Line(Len(screen) + 1))
          /\ stage' = IF Len(screen') = symbol.size + 2 * quiet THEN "scan" ELSE stage
        BY <1>5 DEF PrintLine, Line
    <2>2. Line(Len(screen) + 1) \in {Line(i) : i \in Nat}
        <3>1. Len(screen) + 1 \in Nat
            BY <2>1 DEF Shown
        <3> QED
            BY <3>1
    <2>3. PICK v, level \in 1 .. 4 : IsBestFit(Mode, v, level, Len(text)) /\ symbol.size = QrSize(v)
        BY <2>1
    <2>4. symbol.size \in Nat
        BY <2>3 DEF IsBestFit, QrSize
    <2>5. /\ screen' \in Seq({Line(i) : i \in Nat})
          /\ Len(screen') = Len(screen) + 1
          /\ \A i \in 1 .. Len(screen') : screen'[i] = Line(i)
        <3> DEFINE L == Line(Len(screen) + 1)
                   S == {Line(i) : i \in Nat}
        <3>1. screen \in Seq(S) /\ L \in S /\ screen' = Append(screen, L)
            BY <2>1, <2>2 DEF Shown
        <3>2. \A i \in 1 .. Len(screen) : screen[i] = Line(i)
            BY <2>1 DEF Shown
        <3> HIDE DEF S
        <3>3. /\ screen' \in Seq(S) /\ Len(screen') = Len(screen) + 1
              /\ Len(screen) \in Nat
              /\ screen'[Len(screen) + 1] = L
              /\ \A i \in 1 .. Len(screen) : screen'[i] = screen[i]
            BY <3>1
        <3>4. \A i \in 1 .. Len(screen') : screen'[i] = Line(i)
            <4> TAKE i \in 1 .. Len(screen')
            <4>1. CASE i \in 1 .. Len(screen)
                BY <3>2, <3>3, <4>1
            <4>2. CASE i = Len(screen) + 1
                BY <3>3, <4>2
            <4> HIDE DEF L
            <4> QED
                BY <3>3, <4>1, <4>2
        <3> QED
            BY <3>3, <3>4, Zenon DEF S
    <2>6. Shown'
        <3>1. \A i \in Nat : Line(i)' = Line(i)
            BY <2>1 DEF Line
        <3>2. {Line(i) : i \in Nat}' = {Line(i) : i \in Nat}
            BY <3>1
        <3>3. Len(screen') \in Nat
            BY <2>5
        <3>4. \A i \in 1 .. Len(screen') : i \in Nat
            BY <3>3
        <3> QED
            BY <2>5, <3>1, <3>2, <3>4, Zenon DEF Shown
    <2>7. Len(screen) < symbol.size + 2 * quiet
        BY <2>1
    <2>8. IF stage' = "print" THEN Len(screen') < symbol'.size + 2 * quiet
                              ELSE Len(screen') = symbol'.size + 2 * quiet
        BY <2>1, <2>4, <2>5, <2>7 DEF quiet, Shown
    <2>9. /\ text' \in Texts /\ stage' \in {"print", "scan"}
          /\ \E u, l \in 1 .. 4 : IsBestFit(Mode, u, l, Len(text))' /\ symbol'.size = QrSize(u)
        BY <2>1, <2>3 DEF Mode, IsBestFit
    <2> QED
        BY <2>6, <2>8, <2>9
<1>6. CASE Collect \/ Decode \/ Unpack
    BY <1>6 DEF Collect, Decode, Unpack, Then, Mode, Shown, Line
<1>7. CASE UNCHANGED vars
    BY <1>7 DEF vars, Mode, Shown, Line
<1> QED
    BY <1>1, <1>2, <1>3, <1>4, <1>5, <1>6, <1>7 DEF Next

\* For every text the terminal ends up with the rows of a symbol of the version and
\* the level that fit best; an encoding that fails does not exist.
THEOREM PrintsBestFitCorrect == Spec => []PrintsBestFit
<1>1. Init => Drafted
    BY DEF Init, Drafted
<1>2. Drafted => PrintsBestFit
    BY DEF Drafted, PrintsBestFit, Shown, Line, Mode
<1> QED
    BY <1>1, <1>2, NextDrafted, PTL DEF Spec

-----------------------------------------------------------------------------
(* Masks *)

\* A reader that knows the standard's formulas, with row i and column j, gets the
\* module back that the encoder masked with its own, whatever the module was.
THEOREM MaskIsUndone ==
    ASSUME NEW v \in 1 .. 9, NEW mask \in 0 .. 7, NEW dark,
           NEW p \in Symbol(v) \ FunctionModules(v)
    PROVE  (p \in ApplyMask(dark, mask, v) <=> ~ Masked(mask + 1, p[2], p[1])) <=> p \in dark
<1>1. p[1] \in Nat /\ p[2] \in Nat
    BY DEF Symbol, Rectangle, QrSize
<1>2. ASSUME NEW x \in Nat, NEW y \in Nat, NEW q, q[1] = x, q[2] = y
      PROVE  Inverted(mask, q) <=> Masked(mask + 1, y, x)
    <2>1. x * y \in Nat /\ x * y = y * x
        OBVIOUS
    <2>2. \A a, b \in Nat : (a + b) % 2 = ((a % 2) + b) % 2
        OBVIOUS
    <2>3. CASE mask = 0
        BY <1>2, <2>1, <2>3 DEF Inverted, Masked
    <2>4. CASE mask = 1
        BY <1>2, <2>1, <2>4 DEF Inverted, Masked
    <2>5. CASE mask = 2
        BY <1>2, <2>1, <2>5 DEF Inverted, Masked
    <2>6. CASE mask = 3
        BY <1>2, <2>1, <2>6 DEF Inverted, Masked
    <2>7. CASE mask = 4
        BY <1>2, <2>1, <2>7 DEF Inverted, Masked
    <2>8. CASE mask = 5
        BY <1>2, <2>1, <2>8 DEF Inverted, Masked
    <2>9. CASE mask = 6
        BY <1>2, <2>1, <2>9 DEF Inverted, Masked
    <2>10. CASE mask = 7
        <3> DEFINE r == (x * y) % 3
        <3>1. Inverted(mask, q) <=> (x + y + r) % 2 = 0
            BY <1>2, <2>10 DEF Inverted
        <3>2. Masked(mask + 1, y, x) <=> (((x + y) % 2) + r) % 2 = 0
            BY <2>1, <2>10 DEF Masked
        <3>3. x + y \in Nat /\ r \in Nat
            BY <2>1
        <3> HIDE DEF r
        <3>4. (x + y + r) % 2 = (((x + y) % 2) + r) % 2
            BY <2>2, <3>3
        <3> QED
            BY <3>1, <3>2, <3>4
    <2> QED
        BY <2>3, <2>4, <2>5, <2>6, <2>7, <2>8, <2>9, <2>10
<1>3. p \in ApplyMask(dark, mask, v) <=> (p \in dark <=> ~ Inverted(mask, p))
    BY DEF ApplyMask, SymDiff
<1>4. Inverted(mask, p) <=> Masked(mask + 1, p[2], p[1])
    BY <1>1, <1>2
<1> QED
    BY <1>3, <1>4

-----------------------------------------------------------------------------
(* The areas that carry no data, and the way around them *)

LEMMA NoCentre == AlignmentCentres(1) = {}
BY DEF AlignmentCentres, AlignmentPatternPositions

LEMMA OneCentre ==
    ASSUME NEW v \in 2 .. 4
    PROVE  AlignmentCentres(v) = {<<4 * v + 10, 4 * v + 10>>}
<1> DEFINE c == 4 * v + 10
           positions == AlignmentPatternPositions(v)
<1>1. positions = {6, c}
    <2> DEFINE a == v \div 7 + 2
               s == ((4 * v + 2 * a + 1) \div (2 * a - 2)) * 2
    <2>1. positions = {6} \cup {4 * v + 10 - s * i : i \in 0 .. a - 2}
        BY DEF AlignmentPatternPositions
    <2>2. a = 2
        OBVIOUS
    <2>3. s \in Int
        BY <2>2
    <2> HIDE DEF s
    <2>4. {4 * v + 10 - s * i : i \in 0 .. 0} = {c}
        BY <2>3
    <2> QED
        BY <2>1, <2>2, <2>4
<1>2. c \in Int /\ c > 6
    OBVIOUS
<1> HIDE DEF c, positions
<1>3. Max(positions) = c
    <2>1. c \in positions /\ \A y \in positions : c >= y
        BY <1>1, <1>2
    <2>2. \A x \in positions : (\A y \in positions : x >= y) => x = c
        BY <1>1, <1>2
    <2> QED
        BY <2>1, <2>2 DEF Max
<1>4. AlignmentCentres(v) = {p \in positions \X positions : p[1] = p[2] /\ p[1] # 6}
    BY <1>1, <1>3 DEF AlignmentCentres, positions
<1>5. AlignmentCentres(v) = {<<c, c>>}
    BY <1>1, <1>2, <1>4
<1> QED
    BY <1>5 DEF c

LEMMA CentreSquare ==
    ASSUME NEW v \in 1 .. 4, NEW x \in Int, NEW y \in Int
    PROVE  (\E p \in AlignmentCentres(v) : <<x, y>> \in Rectangle(p[1] - 2, p[2] - 2, 5, 5))
               <=> \E c \in Alignment[v] : {x, y} \subseteq c - 2 .. c + 2
<1>1. CASE v = 1
    BY <1>1, NoCentre DEF Alignment
<1>2. CASE v # 1
    <2> DEFINE c == 4 * v + 10
    <2>1. AlignmentCentres(v) = {<<c, c>>}
        BY <1>2, OneCentre
    <2>2. Alignment[v] = {c}
        BY <1>2 DEF Alignment
    <2>3. c \in Int
        OBVIOUS
    <2> HIDE DEF c
    <2>4. <<x, y>> \in Rectangle(c - 2, c - 2, 5, 5) <=> {x, y} \subseteq c - 2 .. c + 2
        BY <2>3 DEF Rectangle
    <2> QED
        BY <2>1, <2>2, <2>4
<1> QED
    BY <1>1, <1>2

\* The areas that the encoder keeps free for patterns, formats and versions are
\* those the standard reserves.
THEOREM FunctionsAreReserved ==
    ASSUME NEW v \in 1 .. 4, NEW p \in Symbol(v)
    PROVE  p \in FunctionModules(v) <=> Reserved(p, QrSize(v), v)
<1> DEFINE n == QrSize(v)
<1>2. n \in 21 .. 33
    BY DEF QrSize
<1> HIDE DEF n
<1>1. PICK x \in 0 .. n - 1, y \in 0 .. n - 1 : p = <<x, y>>
    <2>1. p \in (0 .. 0 + n - 1) \X (0 .. 0 + n - 1)
        BY DEF Symbol, Rectangle, n
    <2>2. 0 + n - 1 = n - 1
        BY <1>2
    <2> QED
        BY <2>1, <2>2
<1>3. x \in Int /\ y \in Int
    BY <1>1, <1>2
<1>4. p \in FunctionModules(v) <=>
          \/ p \in Rectangle(6, 0, 1, n) \/ p \in Rectangle(0, 6, n, 1)
          \/ p \in Rectangle(0, 0, 9, 9) \/ p \in Rectangle(n - 8, 0, 8, 9)
          \/ p \in Rectangle(0, n - 8, 9, 8)
          \/ \E c \in AlignmentCentres(v) : p \in Rectangle(c[1] - 2, c[2] - 2, 5, 5)
    BY DEF FunctionModules, n
<1>5. /\ p \in Rectangle(6, 0, 1, n) <=> x = 6
      /\ p \in Rectangle(0, 6, n, 1) <=> y = 6
      /\ p \in Rectangle(0, 0, 9, 9) <=> x < 9 /\ y < 9
      /\ p \in Rectangle(n - 8, 0, 8, 9) <=> x >= n - 8 /\ y < 9
      /\ p \in Rectangle(0, n - 8, 9, 8) <=> x < 9 /\ y >= n - 8
    BY <1>1, <1>2 DEF Rectangle
<1>6. (\E c \in AlignmentCentres(v) : p \in Rectangle(c[1] - 2, c[2] - 2, 5, 5))
          <=> \E c \in Alignment[v] : {p[1], p[2]} \subseteq c - 2 .. c + 2
    BY <1>1, <1>3, CentreSquare
<1> QED
    BY <1>1, <1>4, <1>5, <1>6 DEF Reserved, n

\* The encoder's way through the symbol is the standard's: the same columns in the same
\* directions.
THEOREM ZigzagIsStandard ==
    ASSUME NEW v \in 1 .. 9,
           NEW k \in 1 .. (QrSize(v) - 1) \div 2, NEW i \in 1 .. 2 * QrSize(v)
    PROVE  Zigzag(v, 2 * QrSize(v) * (k - 1) + i) = Strips(QrSize(v))[k][i]
<1> DEFINE n == QrSize(v)
           j == 2 * n * (k - 1) + i
           right == n + 1 - 2 * k
<1>1. n \in 21 .. 53 /\ n = 4 * v + 17 /\ n % 4 = 1 /\ n \in Int
    BY DEF QrSize
<1> HIDE DEF n
<1>2. k \in Int /\ i \in Int /\ k >= 1 /\ i - 1 >= 0 /\ i - 1 < 2 * n /\ 2 * k < n
    BY <1>1 DEF n
<1>3. (j - 1) \div (2 * n) = k - 1 /\ (j - 1) % (2 * n) = i - 1
    <2>1. \A a \in Int, b, d \in Nat : b < d => (d * a + b) \div d = a /\ (d * a + b) % d = b
        OBVIOUS
    <2>2. j - 1 = (2 * n) * (k - 1) + (i - 1) /\ 2 * n \in Nat /\ k - 1 \in Int /\ i - 1 \in Nat
        BY <1>1, <1>2
    <2> DEFINE d == 2 * n
               a == k - 1
               b == i - 1
    <2>3. j - 1 = d * a + b /\ a \in Int /\ b \in Nat /\ d \in Nat /\ b < d
        BY <1>2, <2>2
    <2> HIDE DEF j, a, b, d
    <2>4. (j - 1) \div d = a /\ (j - 1) % d = b
        BY <2>1, <2>3
    <2> QED
        BY <2>4 DEF a, b, d
<1>4. (j - 1) % 2 = (i - 1) % 2
    <2>1. \A a, b \in Int : (2 * a + b) % 2 = b % 2
        OBVIOUS
    <2>2. j - 1 = 2 * (n * (k - 1)) + (i - 1) /\ n * (k - 1) \in Int /\ i - 1 \in Int
        BY <1>1, <1>2
    <2> HIDE DEF j
    <2> QED
        BY <2>1, <2>2
<1> QED
    BY <1>1, <1>2, <1>3, <1>4 DEF Zigzag, Strips, n

-----------------------------------------------------------------------------
(* Where the format stands *)

\* Each bit of the format stands where the standard puts it, in both copies.
LEMMA CopiesAreInPlace ==
    ASSUME NEW v \in 1 .. 9, NEW i \in 1 .. 15
    PROVE  /\ FormatPlaces(QrSize(v))[1][i] = FirstCopy(15 - i)
           /\ FormatPlaces(QrSize(v))[2][i] = SecondCopy(15 - i, v)
<1> DEFINE n == QrSize(v)
<1>1. n \in Int
    BY DEF QrSize
<1> HIDE DEF n
<1>2. FormatPlaces(n)[2] = [j \in 1 .. 15 |-> IF j <= 7 THEN <<8, n - j>> ELSE <<n - 16 + j, 8>>]
    BY DEF FormatPlaces
<1>3. FormatPlaces(n)[2][i] = SecondCopy(15 - i, v)
    <2>1. CASE i <= 7
        BY <1>1, <1>2, <2>1 DEF SecondCopy, n
    <2>2. CASE i > 7
        BY <1>1, <1>2, <2>2 DEF SecondCopy, n
    <2> QED
        BY <2>1, <2>2
<1>4. FormatPlaces(n)[1][i] = FirstCopy(15 - i)
    <2>1. i \in {1, 2, 3, 4, 5, 6, 7, 8, 9, 10, 11, 12, 13, 14, 15}
        OBVIOUS
    <2> QED
        BY <2>1 DEF FormatPlaces, FirstCopy
<1> QED
    BY <1>3, <1>4 DEF n

\* Which bit stands at a module of the format; none at the one that is always dark.
BitAt(p, n) ==
    IF p[1] = 8 THEN IF p[2] <= 5 THEN p[2]
                     ELSE IF p[2] <= 8 THEN p[2] - 1
                     ELSE IF p[2] = n - 8 THEN -1 ELSE p[2] - n + 15
    ELSE IF p[1] = 7 THEN 8
    ELSE IF p[1] <= 5 THEN 14 - p[1] ELSE n - 1 - p[1]

LEMMA BitStandsThere ==
    ASSUME NEW v \in 1 .. 9, NEW i \in 0 .. 14, NEW p \in FormatModules(i, v)
    PROVE  BitAt(p, QrSize(v)) = i
<1> DEFINE n == QrSize(v)
<1>1. n \in 21 .. 53
    BY DEF QrSize
<1> HIDE DEF n
<1>2. CASE p = FirstCopy(i)
    BY <1>1, <1>2 DEF FirstCopy, BitAt, n
<1>3. CASE p = SecondCopy(i, v)
    BY <1>1, <1>3 DEF SecondCopy, BitAt, n
<1> QED
    BY <1>2, <1>3 DEF FormatModules

LEMMA FormatInFunctions ==
    ASSUME NEW v \in 1 .. 9, NEW i \in 0 .. 14
    PROVE  FormatModules(i, v) \subseteq FunctionModules(v)
<1> DEFINE n == QrSize(v)
<1>1. n \in 21 .. 53
    BY DEF QrSize
<1> HIDE DEF n
<1>2. FirstCopy(i) \in Rectangle(0, 0, 9, 9)
    BY DEF FirstCopy, Rectangle
<1>3. SecondCopy(i, v) \in Rectangle(n - 8, 0, 8, 9) \cup Rectangle(0, n - 8, 9, 8)
    BY <1>1 DEF SecondCopy, Rectangle, n
<1> QED
    BY <1>2, <1>3 DEF FormatModules, FunctionModules, n

LEMMA AlwaysDarkInFunctions ==
    ASSUME NEW v \in 1 .. 9
    PROVE  <<8, QrSize(v) - 8>> \in FunctionModules(v)
<1> DEFINE n == QrSize(v)
<1>1. n \in 21 .. 53
    BY DEF QrSize
<1> HIDE DEF n
<1>2. <<8, n - 8>> \in Rectangle(0, n - 8, 9, 8)
    BY <1>1 DEF Rectangle
<1> QED
    BY <1>2 DEF FunctionModules, n

\* Drawing the format leaves exactly its bits at its places ...
LEMMA FormatIsDrawn ==
    ASSUME NEW v \in 1 .. 9, NEW ecl, NEW mask, FormatBits(ecl, mask) \subseteq 0 .. 14,
           NEW dark, NEW i \in 0 .. 14, NEW p \in FormatModules(i, v)
    PROVE  p \in DrawFormatBits(dark, ecl, mask, v) <=> i \in FormatBits(ecl, mask)
<1>1. QrSize(v) \in 21 .. 53
    BY DEF QrSize
<1>2. \A j \in 0 .. 14 : p \in FormatModules(j, v) => j = i
    BY BitStandsThere
<1>3. p # <<8, QrSize(v) - 8>>
    <2>1. BitAt(p, QrSize(v)) = i
        BY BitStandsThere
    <2>2. BitAt(<<8, QrSize(v) - 8>>, QrSize(v)) = -1
        BY <1>1 DEF BitAt
    <2> QED
        BY <2>1, <2>2
<1> QED
    BY <1>2, <1>3 DEF DrawFormatBits

\* ... and touches nothing else.
LEMMA FormatLeavesData ==
    ASSUME NEW v \in 1 .. 9, NEW ecl, NEW mask, FormatBits(ecl, mask) \subseteq 0 .. 14,
           NEW dark, NEW p, p \notin FunctionModules(v)
    PROVE  p \in DrawFormatBits(dark, ecl, mask, v) <=> p \in dark
<1>1. \A i \in 0 .. 14 : p \notin FormatModules(i, v)
    BY FormatInFunctions
<1>2. p # <<8, QrSize(v) - 8>>
    BY AlwaysDarkInFunctions
<1> QED
    BY <1>1, <1>2 DEF DrawFormatBits

-----------------------------------------------------------------------------
(* What the format says *)

\* 0x537, and a step of the division by it.
Generator == {10, 8, 5, 4, 2, 1, 0}
Divide(z) == TimesX(z, 10, Generator)

LEMMA DivideIs ==
    ASSUME NEW z \in SUBSET (0 .. 9)
    PROVE  /\ Divide(z) \in SUBSET (0 .. 9)
           /\ \A k \in 0 .. 9 :
                 k \in Divide(z) <=> ~ ((k - 1 \in z) <=> (9 \in z /\ k \in Generator))
<1> DEFINE s == {i + 1 : i \in z}
<1>1. \A k \in Int : k \in s <=> k - 1 \in z
    OBVIOUS
<1>2. s \subseteq 1 .. 10
    OBVIOUS
<1> HIDE DEF s
<1>3. Divide(z) = IF 10 \in s THEN SymDiff(s, Generator) ELSE s
    BY DEF Divide, TimesX, s
<1>4. SymDiff(s, Generator) = {x : x \in (s \cup Generator)} \ (s \cap Generator)
    BY DEF SymDiff
<1> QED
    BY <1>1, <1>2, <1>3 DEF SymDiff, Generator

\* Ten steps of the loop.
LEMMA TenDivisions ==
    ASSUME NEW e \in SUBSET (0 .. 4)
    PROVE  LET rem[i \in 0 .. 10] == IF i = 0 THEN e ELSE Divide(rem[i - 1])
           IN  rem[0] = e /\ \A i \in 1 .. 10 : rem[i] = Divide(rem[i - 1])
<1> DEFINE rem == CHOOSE f : f = [i \in 0 .. 10 |-> IF i = 0 THEN e ELSE Divide(f[i - 1])]
<1> SUFFICES rem[0] = e /\ \A i \in 1 .. 10 : rem[i] = Divide(rem[i - 1])
    OBVIOUS
<1>1. PICK z1 : z1 = Divide(e) OBVIOUS
<1>2. PICK z2 : z2 = Divide(z1) OBVIOUS
<1>3. PICK z3 : z3 = Divide(z2) OBVIOUS
<1>4. PICK z4 : z4 = Divide(z3) OBVIOUS
<1>5. PICK z5 : z5 = Divide(z4) OBVIOUS
<1>6. PICK z6 : z6 = Divide(z5) OBVIOUS
<1>7. PICK z7 : z7 = Divide(z6) OBVIOUS
<1>8. PICK z8 : z8 = Divide(z7) OBVIOUS
<1>9. PICK z9 : z9 = Divide(z8) OBVIOUS
<1>10. PICK z10 : z10 = Divide(z9) OBVIOUS
<1> DEFINE g == [i \in 0 .. 10 |-> <<e, z1, z2, z3, z4, z5, z6, z7, z8, z9, z10>>[i + 1]]
<1>11. ASSUME NEW i \in 0 .. 10
       PROVE  g[i] = IF i = 0 THEN e ELSE Divide(g[i - 1])
    <2>1. i \in {0, 1, 2, 3, 4, 5, 6, 7, 8, 9, 10}
        OBVIOUS
    <2> QED
        BY <1>1, <1>2, <1>3, <1>4, <1>5, <1>6, <1>7, <1>8, <1>9, <1>10, <2>1
<1>12. g = [i \in 0 .. 10 |-> IF i = 0 THEN e ELSE Divide(g[i - 1])]
    BY <1>11
<1> HIDE DEF g
<1>13. rem = [i \in 0 .. 10 |-> IF i = 0 THEN e ELSE Divide(rem[i - 1])]
    BY <1>12, Zenon
<1> HIDE DEF rem
<1> QED
    BY <1>13

Odd(a, b) == ~ (a <=> b)

\* y is z after one step, bit by bit.
Divided(z, y) ==
    /\ 0 \in y <=> 9 \in z
    /\ 1 \in y <=> Odd(0 \in z, 9 \in z)
    /\ 2 \in y <=> Odd(1 \in z, 9 \in z)
    /\ 3 \in y <=> 2 \in z
    /\ 4 \in y <=> Odd(3 \in z, 9 \in z)
    /\ 5 \in y <=> Odd(4 \in z, 9 \in z)
    /\ 6 \in y <=> 5 \in z
    /\ 7 \in y <=> 6 \in z
    /\ 8 \in y <=> Odd(7 \in z, 9 \in z)
    /\ 9 \in y <=> 8 \in z

LEMMA DivideBits ==
    \A z \in SUBSET (0 .. 9) : Divide(z) \in SUBSET (0 .. 9) /\ Divided(z, Divide(z))
<1> TAKE z \in SUBSET (0 .. 9)
<1>1. \A k \in 0 .. 9 :
         k \in Divide(z) <=> ~ ((k - 1 \in z) <=> (9 \in z /\ k \in Generator))
    BY DivideIs
<1>2. Divide(z) \in SUBSET (0 .. 9)
    BY DivideIs
<1>3. -1 \notin z
    OBVIOUS
<1> QED
    BY <1>1, <1>2, <1>3 DEF Generator, Divided, Odd

\* The remainder r of the five bits e, bit by bit: the check bits of the BCH code.
IsRemainder(e, r) ==
    /\ r \in SUBSET (0 .. 9)
    /\ 0 \in r <=> Odd(0 \in e, Odd(2 \in e, 4 \in e))
    /\ 1 \in r <=> Odd(0 \in e, Odd(1 \in e, Odd(2 \in e, Odd(3 \in e, 4 \in e))))
    /\ 2 \in r <=> Odd(0 \in e, Odd(1 \in e, 3 \in e))
    /\ 3 \in r <=> Odd(1 \in e, Odd(2 \in e, 4 \in e))
    /\ 4 \in r <=> Odd(0 \in e, Odd(3 \in e, 4 \in e))
    /\ 5 \in r <=> Odd(0 \in e, Odd(1 \in e, 2 \in e))
    /\ 6 \in r <=> Odd(1 \in e, Odd(2 \in e, 3 \in e))
    /\ 7 \in r <=> Odd(2 \in e, Odd(3 \in e, 4 \in e))
    /\ 8 \in r <=> Odd(0 \in e, Odd(2 \in e, 3 \in e))
    /\ 9 \in r <=> Odd(1 \in e, Odd(3 \in e, 4 \in e))

LEMMA CheckBits ==
    ASSUME NEW e \in SUBSET (0 .. 4),
           NEW rem, rem[0] = e, \A i \in 1 .. 10 : rem[i] = Divide(rem[i - 1])
    PROVE  IsRemainder(e, rem[10])
<1>1. /\ rem[0] = e /\ rem[1] = Divide(rem[0]) /\ rem[2] = Divide(rem[1])
      /\ rem[3] = Divide(rem[2]) /\ rem[4] = Divide(rem[3]) /\ rem[5] = Divide(rem[4])
      /\ rem[6] = Divide(rem[5]) /\ rem[7] = Divide(rem[6]) /\ rem[8] = Divide(rem[7])
      /\ rem[9] = Divide(rem[8]) /\ rem[10] = Divide(rem[9])
    <2>1. \A i, j \in 0 .. 10 : j = i + 1 => rem[j] = Divide(rem[i])
        OBVIOUS
    <2> QED
        BY <2>1
<1>2. rem[0] \in SUBSET (0 .. 9)
    OBVIOUS
<1>3. 5 \notin e /\ 6 \notin e /\ 7 \notin e /\ 8 \notin e /\ 9 \notin e
    OBVIOUS
<1>4. rem[1] \in SUBSET (0 .. 9) /\ Divided(rem[0], rem[1])
    BY <1>1, <1>2, DivideBits
<1>5. rem[2] \in SUBSET (0 .. 9) /\ Divided(rem[1], rem[2])
    BY <1>1, <1>4, DivideBits
<1>6. rem[3] \in SUBSET (0 .. 9) /\ Divided(rem[2], rem[3])
    BY <1>1, <1>5, DivideBits
<1>7. rem[4] \in SUBSET (0 .. 9) /\ Divided(rem[3], rem[4])
    BY <1>1, <1>6, DivideBits
<1>8. rem[5] \in SUBSET (0 .. 9) /\ Divided(rem[4], rem[5])
    BY <1>1, <1>7, DivideBits
<1>9. rem[6] \in SUBSET (0 .. 9) /\ Divided(rem[5], rem[6])
    BY <1>1, <1>8, DivideBits
<1>10. rem[7] \in SUBSET (0 .. 9) /\ Divided(rem[6], rem[7])
    BY <1>1, <1>9, DivideBits
<1>11. rem[8] \in SUBSET (0 .. 9) /\ Divided(rem[7], rem[8])
    BY <1>1, <1>10, DivideBits
<1>12. rem[9] \in SUBSET (0 .. 9) /\ Divided(rem[8], rem[9])
    BY <1>1, <1>11, DivideBits
<1>13. rem[10] \in SUBSET (0 .. 9) /\ Divided(rem[9], rem[10])
    BY <1>1, <1>12, DivideBits
<1> QED
    BY <1>1, <1>2, <1>4, <1>5, <1>6, <1>7, <1>8, <1>9, <1>10, <1>11, <1>12, <1>13, <1>3
    DEF IsRemainder, Divided, Odd

LevelBits == <<1, 0, 3, 2>>

Bit(n, i) == (n \div 2 ^ i) % 2 = 1

\* The bits of a format word, by the five bits of the level and the mask: these, the
\* check bits, and all of them XORed with 0x5412.
IsFormat(bits, n) ==
    /\ 0 \in bits <=> Odd(Bit(n, 0), Odd(Bit(n, 2), Bit(n, 4)))
    /\ 1 \in bits <=> ~ Odd(Bit(n, 0), Odd(Bit(n, 1), Odd(Bit(n, 2), Odd(Bit(n, 3), Bit(n, 4)))))
    /\ 2 \in bits <=> Odd(Bit(n, 0), Odd(Bit(n, 1), Bit(n, 3)))
    /\ 3 \in bits <=> Odd(Bit(n, 1), Odd(Bit(n, 2), Bit(n, 4)))
    /\ 4 \in bits <=> ~ Odd(Bit(n, 0), Odd(Bit(n, 3), Bit(n, 4)))
    /\ 5 \in bits <=> Odd(Bit(n, 0), Odd(Bit(n, 1), Bit(n, 2)))
    /\ 6 \in bits <=> Odd(Bit(n, 1), Odd(Bit(n, 2), Bit(n, 3)))
    /\ 7 \in bits <=> Odd(Bit(n, 2), Odd(Bit(n, 3), Bit(n, 4)))
    /\ 8 \in bits <=> Odd(Bit(n, 0), Odd(Bit(n, 2), Bit(n, 3)))
    /\ 9 \in bits <=> Odd(Bit(n, 1), Odd(Bit(n, 3), Bit(n, 4)))
    /\ 10 \in bits <=> ~ Bit(n, 0)
    /\ 11 \in bits <=> Bit(n, 1)
    /\ 12 \in bits <=> ~ Bit(n, 2)
    /\ 13 \in bits <=> Bit(n, 3)
    /\ 14 \in bits <=> ~ Bit(n, 4)

LEMMA WordsAreFormats ==
    ASSUME NEW ecl \in 0 .. 3, NEW mask \in 0 .. 7
    PROVE  IsFormat({i \in 0 .. 14 : Bit(FormatWords[ecl + 1][mask + 1], i)},
                    LevelBits[ecl + 1] * 8 + mask)
<1>1. ecl \in {0, 1, 2, 3} /\ mask \in {0, 1, 2, 3, 4, 5, 6, 7}
    OBVIOUS
<1>2. CASE ecl = 0
    BY <1>1, <1>2 DEF FormatWords, LevelBits, IsFormat, Bit, Odd
<1>3. CASE ecl = 1
    BY <1>1, <1>3 DEF FormatWords, LevelBits, IsFormat, Bit, Odd
<1>4. CASE ecl = 2
    BY <1>1, <1>4 DEF FormatWords, LevelBits, IsFormat, Bit, Odd
<1>5. CASE ecl = 3
    BY <1>1, <1>5 DEF FormatWords, LevelBits, IsFormat, Bit, Odd
<1> QED
    BY <1>1, <1>2, <1>3, <1>4, <1>5

LEMMA Exponents ==
    ASSUME NEW n \in 0 .. 31
    PROVE  {i \in 0 .. 7 : (n \div 2 ^ i) % 2 = 1} = {i \in 0 .. 4 : Bit(n, i)}
<1>1. ~ Bit(n, 5) /\ ~ Bit(n, 6) /\ ~ Bit(n, 7)
    BY DEF Bit
<1>2. \A i : i \in 0 .. 7 <=> i \in 0 .. 4 \/ i = 5 \/ i = 6 \/ i = 7
    OBVIOUS
<1>3. {i \in 0 .. 7 : Bit(n, i)} = {i \in 0 .. 4 : Bit(n, i)}
    BY <1>1, <1>2, Zenon
<1> QED
    BY <1>3, Zenon DEF Bit

LEMMA DrawnAreFormats ==
    ASSUME NEW ecl \in 0 .. 3, NEW mask \in 0 .. 7
    PROVE  /\ FormatBits(ecl, mask) \subseteq 0 .. 14
           /\ IsFormat(FormatBits(ecl, mask), LevelBits[ecl + 1] * 8 + mask)
<1> DEFINE n == LevelBits[ecl + 1] * 8 + mask
           bits == FormatBits(ecl, mask)
<1>1. n \in 0 .. 31
    BY DEF LevelBits
<1> DEFINE e == {i \in 0 .. 4 : Bit(n, i)}
           rem == CHOOSE f : f = [i \in 0 .. 10 |-> IF i = 0 THEN e ELSE Divide(f[i - 1])]
<1>2. FormatBits(ecl, mask)
          = SymDiff({i + 10 : i \in e} \cup rem[10], {14, 12, 10, 4, 1})
    <2>1. FormatBits(ecl, mask) = SymDiff(WithRemainder(n, 10, Generator), {14, 12, 10, 4, 1})
        BY DEF FormatBits, LevelBits, Generator
    <2>2. WithRemainder(n, 10, Generator) = {i + 10 : i \in e} \cup rem[10]
        <3> HIDE DEF n
        <3> QED
            BY <1>1, Exponents, Zenon DEF WithRemainder, Divide
    <2> QED
        BY <2>1, <2>2
<1> HIDE DEF n
<1>3. e \in SUBSET (0 .. 4)
    OBVIOUS
<1>4. /\ 0 \in e <=> Bit(n, 0)
      /\ 1 \in e <=> Bit(n, 1)
      /\ 2 \in e <=> Bit(n, 2)
      /\ 3 \in e <=> Bit(n, 3)
      /\ 4 \in e <=> Bit(n, 4)
    OBVIOUS
<1>5. rem[0] = e /\ \A i \in 1 .. 10 : rem[i] = Divide(rem[i - 1])
    <2> HIDE DEF e
    <2> QED
        BY <1>3, TenDivisions, Zenon
<1> HIDE DEF e, rem
<1>6. IsRemainder(e, rem[10])
    BY <1>3, <1>5, CheckBits
<1> DEFINE r == rem[10]
           high == {i + 10 : i \in e}
           all == high \cup r
<1>7. high \subseteq 10 .. 14 /\ \A x \in Int : x \in high <=> x - 10 \in e
    BY <1>3
<1> HIDE DEF r, high
<1>8. all \subseteq 0 .. 14
    <2>1. r \subseteq 0 .. 9
        BY <1>6 DEF r, IsRemainder
    <2> QED
        BY <1>7, <2>1
<1>9. /\ \A x \in 0 .. 9 : x \in all <=> x \in r
      /\ \A x \in 10 .. 14 : x \in all <=> x - 10 \in e
    BY <1>6, <1>7 DEF r, IsRemainder
<1> HIDE DEF all
<1>10. /\ FormatBits(ecl, mask) \subseteq 0 .. 14
       /\ \A x \in 0 .. 14 : x \in bits <=> Odd(x \in all, x \in {14, 12, 10, 4, 1})
    BY <1>2, <1>8 DEF SymDiff, Odd, all, high, r
<1>11. /\ 10 \in bits <=> ~ 0 \in e
       /\ 11 \in bits <=> 1 \in e
       /\ 12 \in bits <=> ~ 2 \in e
       /\ 13 \in bits <=> 3 \in e
       /\ 14 \in bits <=> ~ 4 \in e
    BY <1>9, <1>10 DEF Odd
<1>12. /\ 0 \in bits <=> 0 \in r
       /\ 1 \in bits <=> ~ 1 \in r
       /\ 2 \in bits <=> 2 \in r
       /\ 3 \in bits <=> 3 \in r
       /\ 4 \in bits <=> ~ 4 \in r
       /\ 5 \in bits <=> 5 \in r
       /\ 6 \in bits <=> 6 \in r
       /\ 7 \in bits <=> 7 \in r
       /\ 8 \in bits <=> 8 \in r
       /\ 9 \in bits <=> 9 \in r
    BY <1>9, <1>10 DEF Odd
<1> HIDE DEF bits
<1>13. IsFormat(bits, n)
    BY <1>4, <1>6, <1>11, <1>12 DEF IsFormat, IsRemainder, Odd, r
<1> QED
    BY <1>10, <1>13 DEF bits, n

\* The encoder's remainder loop yields the words that the standard tabulates ...
THEOREM FormatIsStandard ==
    ASSUME NEW ecl \in 0 .. 3, NEW mask \in 0 .. 7
    PROVE  FormatBits(ecl, mask) = {i \in 0 .. 14 : Bit(FormatWords[ecl + 1][mask + 1], i)}
<1> DEFINE n == LevelBits[ecl + 1] * 8 + mask
           drawn == FormatBits(ecl, mask)
           word == {i \in 0 .. 14 : Bit(FormatWords[ecl + 1][mask + 1], i)}
<1>1. drawn \subseteq 0 .. 14 /\ IsFormat(drawn, n)
    BY DrawnAreFormats
<1>2. word \subseteq 0 .. 14 /\ IsFormat(word, n)
    BY WordsAreFormats
<1>3. \A i : i \in 0 .. 14 <=> i \in {0, 1, 2, 3, 4, 5, 6, 7, 8, 9, 10, 11, 12, 13, 14}
    OBVIOUS
<1> HIDE DEF n, drawn, word
<1>4. \A i \in 0 .. 14 : i \in drawn <=> i \in word
    BY <1>1, <1>2, <1>3 DEF IsFormat
<1>5. drawn = word
    BY <1>1, <1>2, <1>4
<1> QED
    BY <1>5 DEF drawn, word

LEMMA SameBits ==
    ASSUME NEW n \in 0 .. 31, NEW k \in 0 .. 31,
           Bit(n, 0) <=> Bit(k, 0), Bit(n, 1) <=> Bit(k, 1), Bit(n, 2) <=> Bit(k, 2),
           Bit(n, 3) <=> Bit(k, 3), Bit(n, 4) <=> Bit(k, 4)
    PROVE  n = k
BY DEF Bit

\* ... which are all different.
LEMMA FormatIsFound ==
    ASSUME NEW ecl \in 0 .. 3, NEW mask \in 0 .. 7, NEW l \in 1 .. 4, NEW m \in 1 .. 8,
           \A i \in 0 .. 14 : i \in FormatBits(ecl, mask) <=> Bit(FormatWords[l][m], i)
    PROVE  l = ecl + 1 /\ m = mask + 1
<1> DEFINE n == LevelBits[ecl + 1] * 8 + mask
           k == LevelBits[l] * 8 + (m - 1)
           word == {i \in 0 .. 14 : Bit(FormatWords[l][m], i)}
<1>1. IsFormat(FormatBits(ecl, mask), n)
    BY DrawnAreFormats
<1>2. IsFormat(word, k)
    <2>1. l - 1 \in 0 .. 3 /\ m - 1 \in 0 .. 7 /\ l - 1 + 1 = l /\ m - 1 + 1 = m
        OBVIOUS
    <2> QED
        BY <2>1, WordsAreFormats
<1>3. \A i \in {10, 11, 12, 13, 14} : i \in FormatBits(ecl, mask) <=> i \in word
    OBVIOUS
<1>4. n \in 0 .. 31 /\ k \in 0 .. 31
    BY DEF LevelBits
<1>5. n = k => l = ecl + 1 /\ m = mask + 1
    BY DEF LevelBits
<1> HIDE DEF n, k, word
<1>6. n = k
    <2>1. /\ Bit(n, 0) <=> Bit(k, 0)
          /\ Bit(n, 1) <=> Bit(k, 1)
          /\ Bit(n, 2) <=> Bit(k, 2)
          /\ Bit(n, 3) <=> Bit(k, 3)
          /\ Bit(n, 4) <=> Bit(k, 4)
        BY <1>1, <1>2, <1>3 DEF IsFormat
    <2> QED
        BY <1>4, <2>1, SameBits
<1> QED
    BY <1>5, <1>6

-----------------------------------------------------------------------------
(* The choice of the mask *)

LEMMA FiniteGrid ==
    ASSUME NEW a \in Int, NEW b \in Int, NEW c \in Int, NEW d \in Int
    PROVE  IsFiniteSet((a .. b) \X (c .. d))
BY FS_Interval, FS_Product

LEMMA CountIn ==
    ASSUME NEW S, IsFiniteSet(S), NEW T, T \subseteq S
    PROVE  IsFiniteSet(T) /\ Cardinality(T) \in Nat
BY FS_Subset, FS_CardinalityType

LEMMA RunPenaltyType ==
    ASSUME NEW lines, NEW size \in Int
    PROVE  RunPenalty(lines, size) \in Int
<1> DEFINE all == (1 .. 2 * size) \X (0 .. size - 5)
           windows == {w \in all : SameColour(lines[w[1]], w[2], w[2] + 4)}
           starts == {w \in windows : StartsRun(lines[w[1]], w[2])}
<1>1. IsFiniteSet(all)
    BY FiniteGrid
<1>2. windows \subseteq all
    OBVIOUS
<1>3. starts \subseteq all
    OBVIOUS
<1>4. RunPenalty(lines, size) = Cardinality(windows) + 2 * Cardinality(starts)
    BY DEF RunPenalty
<1> HIDE DEF all, windows, starts
<1>5. Cardinality(windows) \in Nat /\ Cardinality(starts) \in Nat
    BY <1>1, <1>2, <1>3, CountIn
<1> QED
    BY <1>4, <1>5

LEMMA FinderPenaltyType ==
    ASSUME NEW lines, NEW size \in Int
    PROVE  FinderPenalty(lines, size) \in Int
<1> DEFINE all == (1 .. 2 * size) \X (0 .. size - 7)
           found == {w \in all : w[2] \in lines[w[1]]
                        /\ \E n \in 1 .. size \div 7 : FinderLike(lines[w[1]], size, w[2], n)}
<1>1. IsFiniteSet(all)
    BY FiniteGrid
<1>2. found \subseteq all
    OBVIOUS
<1>4. FinderPenalty(lines, size) = 40 * Cardinality(found)
    BY DEF FinderPenalty
<1> HIDE DEF all, found
<1>5. Cardinality(found) \in Nat
    BY <1>1, <1>2, CountIn
<1> QED
    BY <1>4, <1>5

LEMMA BlockPenaltyType ==
    ASSUME NEW dark, NEW size \in Int
    PROVE  BlockPenalty(dark, size) \in Int
<1> DEFINE all == (0 .. size - 2) \X (0 .. size - 2)
           blocks == {p \in all : LET block == Rectangle(p[1], p[2], 2, 2)
                                  IN  block \subseteq dark \/ block \cap dark = {}}
<1>1. IsFiniteSet(all)
    BY FiniteGrid
<1>2. blocks \subseteq all
    OBVIOUS
<1>4. BlockPenalty(dark, size) = 3 * Cardinality(blocks)
    BY DEF BlockPenalty
<1> HIDE DEF all, blocks
<1>5. Cardinality(blocks) \in Nat
    BY <1>1, <1>2, CountIn
<1> QED
    BY <1>4, <1>5

LEMMA BalancePenaltyType ==
    ASSUME NEW dark, NEW size \in 21 .. 53
    PROVE  BalancePenalty(dark, size) \in Int
<1> DEFINE all == Rectangle(0, 0, size, size)
           black == Cardinality(all \cap dark)
           total == size * size
<1>1. IsFiniteSet(all)
    BY FiniteGrid DEF Rectangle
<1>2. all \cap dark \subseteq all
    OBVIOUS
<1>3. black \in Nat
    BY <1>1, <1>2, CountIn
<1>4. total \in Int /\ total > 0
    OBVIOUS
<1>5. BalancePenalty(dark, size)
          = 10 * ((Abs(20 * black - 10 * total) + total - 1) \div total - 1)
    BY DEF BalancePenalty
<1> HIDE DEF all, black, total
<1> DEFINE a == Abs(20 * black - 10 * total)
<1>6. a \in Int
    BY <1>3, <1>4 DEF Abs
<1> HIDE DEF a
<1>7. (a + total - 1) \div total \in Int
    BY <1>4, <1>6
<1> QED
    BY <1>5, <1>7 DEF a

LEMMA PenaltyType ==
    ASSUME NEW dark, NEW v \in 1 .. 9
    PROVE  PenaltyScore(dark, v) \in Int
<1>1. QrSize(v) \in 21 .. 53
    BY DEF QrSize
<1> QED
    BY <1>1, RunPenaltyType, FinderPenaltyType, BlockPenaltyType, BalancePenaltyType
    DEF PenaltyScore

\* Of eight numbers one is the first smallest.
LEMMA FirstSmallestType ==
    ASSUME NEW penalty, \A m \in 1 .. 8 : penalty[m] \in Int
    PROVE  FirstSmallest(penalty) \in 1 .. 8
<1> DEFINE IsFirst(m, k) == /\ \A n \in 1 .. k : penalty[m] <= penalty[n]
                            /\ \A n \in 1 .. m - 1 : penalty[m] < penalty[n]
           Found(k) == \E m \in 1 .. k : IsFirst(m, k)
<1>1. Found(1)
    BY DEF IsFirst
<1>2. ASSUME NEW k \in 1 .. 7, Found(k)
      PROVE  Found(k + 1)
    <2>1. PICK m \in 1 .. k : IsFirst(m, k)
        BY <1>2
    <2>2. \A n \in 1 .. k : penalty[n] \in Int
        OBVIOUS
    <2>3. penalty[m] \in Int /\ penalty[k + 1] \in Int
        OBVIOUS
    <2>4. CASE penalty[k + 1] < penalty[m]
        <3>1. \A n \in 1 .. k : penalty[k + 1] < penalty[n]
            BY <2>1, <2>2, <2>3, <2>4
        <3>2. IsFirst(k + 1, k + 1)
            BY <2>2, <2>3, <3>1
        <3> QED
            BY <3>2
    <2>5. CASE penalty[m] <= penalty[k + 1]
        <3>1. IsFirst(m, k + 1)
            BY <2>1, <2>5
        <3> QED
            BY <3>1
    <2> QED
        BY <2>3, <2>4, <2>5
<1> HIDE DEF Found
<1>3. Found(2)
    BY <1>1, <1>2
<1>4. Found(3)
    BY <1>2, <1>3
<1>5. Found(4)
    BY <1>2, <1>4
<1>6. Found(5)
    BY <1>2, <1>5
<1>7. Found(6)
    BY <1>2, <1>6
<1>8. Found(7)
    BY <1>2, <1>7
<1>9. Found(8)
    BY <1>2, <1>8
<1>10. \E m \in 1 .. 8 : /\ \A n \in 1 .. 8 : penalty[m] <= penalty[n]
                         /\ \A n \in 1 .. m - 1 : penalty[m] < penalty[n]
    BY <1>9 DEF Found
<1> QED
    BY <1>10, Zenon DEF FirstSmallest

LEMMA MaskType ==
    ASSUME NEW base, NEW ecl, NEW v \in 1 .. 9
    PROVE  BestMask(base, ecl, v) \in 0 .. 7
<1> DEFINE F == [m \in 1 .. 8 |-> PenaltyScore(Drawn(base, ecl, m - 1, v), v)]
           penalty == Tuple(F)
<1>1. \A m \in 1 .. 8 : F[m] \in Int
    BY PenaltyType
<1>2. penalty = F
    BY <1>1 DEF Tuple
<1> HIDE DEF F, penalty
<1>3. FirstSmallest(penalty) \in 1 .. 8
    BY <1>1, <1>2, FirstSmallestType
<1>4. BestMask(base, ecl, v) = FirstSmallest(penalty) - 1
    BY DEF BestMask, penalty, F
<1> QED
    BY <1>3, <1>4

-----------------------------------------------------------------------------
(* Every module drawn is one of the symbol's *)

Pairs == Int \X Int

LEMMA PlacedArePairs ==
    ASSUME NEW v \in 1 .. 9, NEW ones
    PROVE  /\ DrawCodewords(ones, v) \subseteq Pairs
           /\ DrawCodewords(ones, v) \cap FunctionModules(v) = {}
<1>1. QrSize(v) \in 21 .. 53
    BY DEF QrSize
<1>2. \A k \in Int : Zigzag(v, k) \in Pairs
    BY <1>1 DEF Zigzag, Pairs
<1> DEFINE steps == {k \in 1 .. QrSize(v) * (QrSize(v) - 1) :
                        Zigzag(v, k) \notin FunctionModules(v)}
           taken == {j \in steps : Cardinality({i \in steps : i < j}) \in ones}
<1>3. DrawCodewords(ones, v) = {Zigzag(v, k) : k \in taken}
    BY DEF DrawCodewords
<1>4. taken \subseteq Int /\ \A k \in taken : Zigzag(v, k) \notin FunctionModules(v)
    BY <1>1
<1> HIDE DEF taken
<1> QED
    BY <1>2, <1>3, <1>4

LEMMA PatternArePairs ==
    ASSUME NEW v \in 1 .. 4
    PROVE  FunctionModules(v) \subseteq Pairs
<1> DEFINE n == QrSize(v)
<1>1. n \in 21 .. 33
    BY DEF QrSize
<1>2. \A a, b, c, d \in Int : Rectangle(a, b, c, d) \subseteq Pairs
    BY DEF Rectangle, Pairs
<1>3. ASSUME NEW p \in AlignmentCentres(v)
      PROVE  Rectangle(p[1] - 2, p[2] - 2, 5, 5) \subseteq Pairs
    <2>1. p[1] \in Int /\ p[2] \in Int
        BY NoCentre, OneCentre
    <2> QED
        BY <1>2, <2>1
<1>4. ~ v >= 7
    OBVIOUS
<1> HIDE DEF n
<1>5. /\ Rectangle(6, 0, 1, n) \subseteq Pairs /\ Rectangle(0, 6, n, 1) \subseteq Pairs
      /\ Rectangle(0, 0, 9, 9) \subseteq Pairs /\ Rectangle(n - 8, 0, 8, 9) \subseteq Pairs
      /\ Rectangle(0, n - 8, 9, 8) \subseteq Pairs
    BY <1>1, <1>2
<1>6. UNION {Rectangle(p[1] - 2, p[2] - 2, 5, 5) : p \in AlignmentCentres(v)} \subseteq Pairs
    BY <1>3
<1> QED
    BY <1>4, <1>5, <1>6 DEF FunctionModules, n

LEMMA FormatArePairs ==
    ASSUME NEW v \in 1 .. 9, NEW i \in 0 .. 14
    PROVE  FormatModules(i, v) \subseteq Symbol(v) \cap Pairs
<1> DEFINE n == QrSize(v)
<1>1. n \in 21 .. 53
    BY DEF QrSize
<1> HIDE DEF n
<1>2. FirstCopy(i) \in (0 .. 0 + n - 1) \X (0 .. 0 + n - 1) /\ FirstCopy(i) \in Pairs
    BY <1>1 DEF FirstCopy, Pairs
<1>3. SecondCopy(i, v) \in (0 .. 0 + n - 1) \X (0 .. 0 + n - 1) /\ SecondCopy(i, v) \in Pairs
    BY <1>1 DEF SecondCopy, Pairs, n
<1> QED
    BY <1>2, <1>3 DEF FormatModules, Symbol, Rectangle, n

\* All that is drawn are pairs.
LEMMA DrawnArePairs ==
    ASSUME NEW v \in 1 .. 9, NEW ecl \in 0 .. 3, NEW mask \in 0 .. 7,
           NEW base, base \subseteq Pairs
    PROVE  Drawn(base, ecl, mask, v) \subseteq Pairs
<1>1. QrSize(v) \in 21 .. 53
    BY DEF QrSize
<1>2. Symbol(v) \subseteq Pairs
    BY <1>1 DEF Symbol, Rectangle, Pairs
<1>3. ApplyMask(base, mask, v) \subseteq Pairs
    BY <1>2 DEF ApplyMask, SymDiff
<1>4. UNION {FormatModules(i, v) : i \in FormatBits(ecl, mask)} \subseteq Pairs
    BY DrawnAreFormats, FormatArePairs
<1>5. <<8, QrSize(v) - 8>> \in Pairs
    BY <1>1 DEF Pairs
<1> QED
    BY <1>3, <1>4, <1>5 DEF Drawn, DrawFormatBits

-----------------------------------------------------------------------------
(* From the modules to the reader *)

Best(t) == Chosen(Segment(t))

CodewordsOf(t) == LET c == Best(t)
                  IN  Codewords(DataBits(c.seg, c.v, c.ecl))

Placed(t) == LET c == Best(t)
             IN  DrawCodewords(AddEccAndInterleave(CodewordsOf(t), c.v, c.ecl), c.v)

BaseOf(t) == Placed(t) \cup FunctionPattern(Best(t).v)

\* What has been made of the text at every stage.
Painted ==
    /\ stage = "fill" => draft = Best(text)
    /\ stage = "draw" => /\ draft.v = Best(text).v /\ draft.ecl = Best(text).ecl
                         /\ draft.data = CodewordsOf(text)
    /\ stage = "mask" => /\ draft.v = Best(text).v /\ draft.ecl = Best(text).ecl
                         /\ draft.base = BaseOf(text)
    /\ stage \in {"print", "scan"} =>
          /\ symbol.size = QrSize(Best(text).v)
          /\ \E mask \in 0 .. 7 :
                symbol.dark = Drawn(BaseOf(text), Best(text).ecl, mask, Best(text).v)

LEMMA BestType == \A t \in Texts : Best(t).v \in 1 .. 4 /\ Best(t).ecl \in 0 .. 3
<1> TAKE t \in Texts
<1> DEFINE c == Chosen(Segment(t))
<1>1. IsBestFit(Segment(t).mode, c.v, c.ecl + 1, Segment(t).numChars)
    BY TextIsSegment, ChoiceIsBest
<1>2. c.v \in 1 .. 4
    BY <1>1 DEF IsBestFit
<1>3. c.ecl = Boost(Segment(t), c.v, 0) /\ c.v = Version(Segment(t), 0, 1, 9)
    BY DEF Chosen, Ecc
<1>4. Fits(Segment(t), c.v, 0)
    BY <1>3, TextIsSegment, VersionIsSmallest
<1>5. c.ecl \in 0 .. 3
    BY <1>3, <1>4, BoostIsHighest
<1> QED
    BY <1>2, <1>5 DEF Best

LEMMA NextPainted == Drafted /\ Painted /\ [Next]_vars => Painted'
<1> SUFFICES ASSUME Drafted, Painted, [Next]_vars PROVE Painted'
    OBVIOUS
<1>1. text \in Texts
    BY DEF Drafted
<1>2. Best(text).v \in 1 .. 9
    BY <1>1, BestType
<1>3. CASE Choose
    BY <1>3 DEF Choose, Then, Painted, Best
<1>4. CASE Fill
    <2>1. /\ draft = Best(text) /\ stage' = "draw" /\ text' = text
          /\ draft' = [v |-> draft.v, ecl |-> draft.ecl,
                       data |-> Codewords(DataBits(draft.seg, draft.v, draft.ecl))]
        BY <1>4 DEF Fill, Then, Painted
    <2> QED
        BY <2>1 DEF Painted, CodewordsOf
<1>5. CASE Draw
    <2>1. /\ draft.v = Best(text).v /\ draft.ecl = Best(text).ecl
          /\ draft.data = CodewordsOf(text)
          /\ stage' = "mask" /\ text' = text
          /\ draft' = [v |-> draft.v, ecl |-> draft.ecl,
                       base |-> DrawCodewords(
                                   AddEccAndInterleave(draft.data, draft.v, draft.ecl), draft.v)
                                \cup FunctionPattern(draft.v)]
        BY <1>5 DEF Draw, Then, Painted
    <2> QED
        BY <2>1 DEF Painted, BaseOf, Placed
<1>6. CASE Mask
    <2>1. /\ draft.v = Best(text).v /\ draft.ecl = Best(text).ecl
          /\ draft.base = BaseOf(text)
          /\ stage' = "print" /\ text' = text
          /\ symbol' = [size |-> QrSize(draft.v),
                        dark |-> Drawn(draft.base, draft.ecl,
                                       BestMask(draft.base, draft.ecl, draft.v), draft.v)]
        BY <1>6 DEF Mask, Then, Painted
    <2>2. BestMask(draft.base, draft.ecl, draft.v) \in 0 .. 7
        BY <1>2, <2>1, MaskType
    <2> QED
        BY <2>1, <2>2 DEF Painted
<1>7. CASE PrintLine
    BY <1>7 DEF PrintLine, Painted
<1>8. CASE Collect \/ Decode \/ Unpack
    BY <1>8 DEF Collect, Decode, Unpack, Then, Painted
<1>9. CASE UNCHANGED vars
    BY <1>9 DEF vars, Painted
<1> QED
    BY <1>3, <1>4, <1>5, <1>6, <1>7, <1>8, <1>9 DEF Next

\* The cells of the terminal are the modules of the symbol.
LEMMA CellsAreModules ==
    ASSUME Shown, symbol.dark \subseteq Pairs, Len(screen) \in Nat,
           NEW x \in Int, NEW y \in 0 .. Len(screen) - 2 * quiet - 1
    PROVE  Dark(<<x, y>>) <=> <<x, y>> \in symbol.dark
<1> DEFINE dark == symbol.dark
           i == y + quiet + 1
<1>1. i \in 1 .. Len(screen) /\ i - 1 - quiet = y
    BY DEF quiet
<1>2. screen[i] = {z + quiet : z \in Row(dark, y)}
    BY <1>1 DEF Shown, Line
<1>3. \A z : z \in Row(dark, y) <=> \E p \in dark : p[2] = y /\ z = p[1]
    BY DEF Row
<1>4. \A z : z \in Row(dark, y) <=> z \in Int /\ <<z, y>> \in dark
    BY <1>3 DEF Pairs
<1>5. x + quiet \in {z + quiet : z \in Row(dark, y)} <=> x \in Row(dark, y)
    <2> DEFINE R == Row(dark, y)
    <2>1. \A z \in R : z \in Int
        BY <1>4
    <2> HIDE DEF R
    <2>2. \A z \in R : z + 2 = x + 2 => z = x
        BY <2>1
    <2> QED
        BY <2>2 DEF quiet, R
<1>6. Dark(<<x, y>>) <=> x + quiet \in screen[i]
    BY DEF Dark
<1> QED
    BY <1>2, <1>4, <1>5, <1>6

\* A copy of the format shows the word of its level and its mask and no other.
LEMMA FormatIsRead ==
    ASSUME NEW v \in 1 .. 9, NEW ecl \in 0 .. 3, NEW mask \in 0 .. 7, NEW base,
           NEW places, \A i \in 1 .. 15 : places[i] \in FormatModules(15 - i, v),
           \A p \in Symbol(v) : Dark(p) <=> p \in Drawn(base, ecl, mask, v)
    PROVE  /\ Shows(places, FormatWords[ecl + 1][mask + 1])
           /\ \A l \in 1 .. 4, m \in 1 .. 8 :
                 Shows(places, FormatWords[l][m]) => l = ecl + 1 /\ m = mask + 1
<1>1. \A i \in 1 .. 15 : 15 - i \in 0 .. 14
    OBVIOUS
<1>2. FormatBits(ecl, mask) \subseteq 0 .. 14
    BY DrawnAreFormats
<1>3. ASSUME NEW i \in 1 .. 15
      PROVE  Dark(places[i]) <=> 15 - i \in FormatBits(ecl, mask)
    <2>1. places[i] \in FormatModules(15 - i, v) /\ places[i] \in Symbol(v)
        BY <1>1, FormatArePairs
    <2>2. Dark(places[i])
              <=> places[i] \in DrawFormatBits(ApplyMask(base, mask, v), ecl, mask, v)
        BY <2>1 DEF Drawn
    <2> QED
        BY <1>1, <1>2, <2>1, <2>2, FormatIsDrawn
<1>4. ASSUME NEW word
      PROVE  Shows(places, word)
                 <=> \A i \in 0 .. 14 : i \in FormatBits(ecl, mask) <=> Bit(word, i)
    <2>1. Shows(places, word)
              <=> \A i \in 1 .. 15 : 15 - i \in FormatBits(ecl, mask) <=> Bit(word, 15 - i)
        BY <1>3 DEF Shows, Bit
    <2>2. \A i \in 0 .. 14 : 15 - i \in 1 .. 15 /\ 15 - (15 - i) = i
        OBVIOUS
    <2> QED
        BY <1>1, <2>1, <2>2
<1>5. Shows(places, FormatWords[ecl + 1][mask + 1])
    BY <1>4, FormatIsStandard
<1>6. ASSUME NEW l \in 1 .. 4, NEW m \in 1 .. 8, Shows(places, FormatWords[l][m])
      PROVE  l = ecl + 1 /\ m = mask + 1
    <2>1. \A i \in 0 .. 14 : i \in FormatBits(ecl, mask) <=> Bit(FormatWords[l][m], i)
        BY <1>4, <1>6
    <2> QED
        BY <2>1, FormatIsFound
<1> QED
    BY <1>5, <1>6

LEMMA SymbolIsRead == Drafted /\ Painted => ModulesAreRead
<1> SUFFICES ASSUME Drafted, Painted, stage = "scan" PROVE ModulesAreRead
    BY DEF ModulesAreRead
<1> DEFINE c == Chosen(Segment(text))
           v == c.v
           ecl == c.ecl
           n == Len(screen) - 2 * quiet
           base == BaseOf(text)
           placed == Placed(text)
<1>1. text \in Texts /\ Shown /\ Len(screen) = symbol.size + 2 * quiet
    BY DEF Drafted
<1>2. v \in 1 .. 4 /\ ecl \in 0 .. 3
    BY <1>1, BestType DEF Best
<1>3. PICK mask \in 0 .. 7 : symbol.dark = Drawn(base, ecl, mask, v)
    BY DEF Painted, Best
<1>4. n = QrSize(v) /\ n \in 21 .. 33 /\ Len(screen) \in Nat
    <2>1. symbol.size = QrSize(v)
        BY DEF Painted, Best
    <2>2. QrSize(v) \in 21 .. 33
        BY <1>2 DEF QrSize
    <2> QED
        BY <1>1, <2>1, <2>2 DEF quiet
<1>5. placed \subseteq Pairs /\ placed \cap FunctionModules(v) = {}
    BY <1>2, PlacedArePairs DEF Placed, Best
<1>6. base = placed \cup FunctionPattern(v) /\ FunctionPattern(v) \subseteq FunctionModules(v)
    BY DEF BaseOf, Best, FunctionPattern
<1>7. base \subseteq Pairs
    BY <1>2, <1>5, <1>6, PatternArePairs
<1>13. ModulesAreRead <=>
          LET format == Format(FormatPlaces(n)[1])
          IN  /\ n = QrSize(v) /\ format[1] = ecl + 1
              /\ Shows(FormatPlaces(n)[2], FormatWords[format[1]][format[2]])
              /\ \A p \in Symbol(v) :
                    p \in placed <=> ~ Reserved(p, n, v) /\ Unmasked(p, format[2])
    BY DEF ModulesAreRead, Placed, CodewordsOf, Best
<1> HIDE DEF c, v, ecl, n, base, placed
<1>8. \A p \in Symbol(v) : Dark(p) <=> p \in Drawn(base, ecl, mask, v)
    <2> TAKE p \in Symbol(v)
    <2>1. symbol.dark \subseteq Pairs
        BY <1>2, <1>3, <1>7, DrawnArePairs
    <2>2. PICK x \in 0 .. n - 1, y \in 0 .. n - 1 : p = <<x, y>>
        <3>1. p \in (0 .. 0 + n - 1) \X (0 .. 0 + n - 1)
            BY <1>4 DEF Symbol, Rectangle
        <3>2. 0 + n - 1 = n - 1
            BY <1>4
        <3> QED
            BY <3>1, <3>2
    <2>3. x \in Int /\ y \in 0 .. Len(screen) - 2 * quiet - 1
        BY <1>4, <2>2 DEF n
    <2> QED
        BY <1>1, <1>3, <1>4, <2>1, <2>2, <2>3, CellsAreModules
<1>9. /\ \A i \in 1 .. 15 : FormatPlaces(n)[1][i] \in FormatModules(15 - i, v)
      /\ \A i \in 1 .. 15 : FormatPlaces(n)[2][i] \in FormatModules(15 - i, v)
    <2>1. v \in 1 .. 9
        BY <1>2
    <2>2. \A i \in 1 .. 15 : /\ FormatPlaces(n)[1][i] = FirstCopy(15 - i)
                             /\ FormatPlaces(n)[2][i] = SecondCopy(15 - i, v)
        BY <1>4, <2>1, CopiesAreInPlace
    <2> QED
        BY <2>2 DEF FormatModules
<1>10. /\ Shows(FormatPlaces(n)[1], FormatWords[ecl + 1][mask + 1])
       /\ Shows(FormatPlaces(n)[2], FormatWords[ecl + 1][mask + 1])
       /\ \A l \in 1 .. 4, m \in 1 .. 8 :
             Shows(FormatPlaces(n)[1], FormatWords[l][m]) => l = ecl + 1 /\ m = mask + 1
    <2>1. v \in 1 .. 9
        BY <1>2
    <2>2. ASSUME NEW places, \A i \in 1 .. 15 : places[i] \in FormatModules(15 - i, v)
          PROVE  /\ Shows(places, FormatWords[ecl + 1][mask + 1])
                 /\ \A l \in 1 .. 4, m \in 1 .. 8 :
                       Shows(places, FormatWords[l][m]) => l = ecl + 1 /\ m = mask + 1
        BY <1>2, <1>8, <2>1, <2>2, FormatIsRead
    <2> QED
        BY <1>9, <2>2
<1>11. Format(FormatPlaces(n)[1]) = <<ecl + 1, mask + 1>>
    <2> DEFINE places == FormatPlaces(n)[1]
    <2>1. <<ecl + 1, mask + 1>> \in (1 .. 4) \X (1 .. 8)
        BY <1>2
    <2>2. Shows(places, FormatWords[<<ecl + 1, mask + 1>>[1]][<<ecl + 1, mask + 1>>[2]])
        BY <1>10
    <2>3. \A f \in (1 .. 4) \X (1 .. 8) :
             Shows(places, FormatWords[f[1]][f[2]]) => f = <<ecl + 1, mask + 1>>
        BY <1>10
    <2> HIDE DEF places
    <2> QED
        BY <2>1, <2>2, <2>3 DEF Format, places
<1>12. ASSUME NEW p \in Symbol(v)
       PROVE  p \in placed <=> ~ Reserved(p, n, v) /\ Unmasked(p, mask + 1)
    <2>1. p \in FunctionModules(v) <=> Reserved(p, n, v)
        BY <1>2, <1>4, FunctionsAreReserved
    <2>2. CASE p \in FunctionModules(v)
        BY <1>5, <2>1, <2>2
    <2>3. CASE p \notin FunctionModules(v)
        <3>1. v \in 1 .. 9 /\ p \in Symbol(v) \ FunctionModules(v)
            BY <1>2, <2>3
        <3>2. p \in placed <=> p \in base
            BY <1>6, <2>3
        <3>3. Dark(p) <=> p \in ApplyMask(base, mask, v)
            BY <1>2, <1>8, <3>1, DrawnAreFormats, FormatLeavesData DEF Drawn
        <3>4. (p \in ApplyMask(base, mask, v) <=> ~ Masked(mask + 1, p[2], p[1]))
                  <=> p \in base
            BY <3>1, MaskIsUndone
        <3>5. Unmasked(p, mask + 1) <=> (Dark(p) <=> ~ Masked(mask + 1, p[2], p[1]))
            BY Zenon DEF Unmasked
        <3> QED
            BY <2>1, <2>3, <3>2, <3>3, <3>4, <3>5, Zenon
    <2> QED
        BY <2>2, <2>3
<1> QED
    BY <1>4, <1>10, <1>11, <1>12, <1>13

\* For every text: the reader that knows only the standard finds the format twice and
\* gets back every data module as it was before masking.
THEOREM ModulesAreReadCorrect == Spec => []ModulesAreRead
<1>1. Init => Drafted /\ Painted
    BY DEF Init, Drafted, Painted
<1>2. Drafted /\ Painted /\ [Next]_vars => Drafted' /\ Painted'
    BY NextDrafted, NextPainted
<1> QED
    BY <1>1, <1>2, SymbolIsRead, PTL DEF Spec
=============================================================================
