------------------------------- MODULE QrCode -------------------------------
(***************************************************************************)
(* The QR code of "matter qr" (qrcodegen.c): from a text to the symbol.    *)
(*                                                                         *)
(* A byte is a polynomial over GF(2), the set of the exponents it has: XOR *)
(* is the symmetric difference.  A symbol is the set of its dark modules,  *)
(* <<x, y>>, and so is the mask of its function modules.  A text is a      *)
(* sequence of character codes.                                            *)
(***************************************************************************)
EXTENDS Integers, Sequences, FiniteSets, FiniteSetsExt, SequencesExt

Ecc == [LOW |-> 0, MEDIUM |-> 1, QUARTILE |-> 2, HIGH |-> 3]

\* Columns 1 to 10 of the tables, by error correction level: all that the
\* version limit of cmd_qr, 9, can reach.
ECC_CODEWORDS_PER_BLOCK == <<
    << 7, 10, 15, 20, 26, 18, 20, 24, 30, 18>>, <<10, 16, 26, 18, 24, 16, 18, 22, 22, 26>>,
    <<13, 22, 18, 26, 18, 24, 18, 22, 20, 24>>, <<17, 28, 22, 16, 22, 28, 26, 26, 24, 28>> >>
NUM_ERROR_CORRECTION_BLOCKS == <<
    <<1, 1, 1, 1, 1, 2, 2, 2, 2, 4>>, <<1, 1, 1, 2, 2, 4, 4, 4, 5, 5>>,
    <<1, 1, 2, 2, 4, 4, 6, 6, 8, 8>>, <<1, 1, 2, 4, 4, 4, 5, 6, 8, 8>> >>

NumRawDataModules(v) ==
    LET numAlign == v \div 7 + 2
    IN  (16 * v + 128) * v + 64
        - (IF v >= 2 THEN (25 * numAlign - 10) * numAlign - 55 ELSE 0)
        - (IF v >= 7 THEN 36 ELSE 0)

NumDataCodewords(v, ecl) ==
    NumRawDataModules(v) \div 8
    - ECC_CODEWORDS_PER_BLOCK[ecl + 1][v] * NUM_ERROR_CORRECTION_BLOCKS[ecl + 1][v]

-----------------------------------------------------------------------------
(* Segments *)

Digits       == 48 .. 57
\* "0-9A-Z $%*+-./:"
Alphanumeric == [i \in 1 .. 10 |-> 47 + i] \o [i \in 1 .. 26 |-> 64 + i]
                \o <<32, 36, 37, 42, 43, 45, 46, 47, 58>>
CharsetIndex(c) == (CHOOSE i \in 1 .. 45 : Alphanumeric[i] = c) - 1

Modes == [NUMERIC |-> 1, ALPHANUMERIC |-> 2, BYTE |-> 4]

\* A function constructor is evaluated anew at every application; a tuple is not.
Tuple(f) == f \o << >>

\* appendBitsToBuffer: the most significant bit first.
Bits(val, numBits) == Tuple([i \in 1 .. numBits |-> (val \div 2 ^ (numBits - i)) % 2])

\* The groups of n characters that are packed together, the last one perhaps shorter.
Groups(text, n) == Tuple([g \in 1 .. (Len(text) + n - 1) \div n |->
                          SubSeq(text, n * (g - 1) + 1, Min({n * g, Len(text)}))])

Value(digits, base) == FoldLeft(LAMBDA v, d : v * base + d, 0, digits)

Indices(group) == [i \in DOMAIN group |-> CharsetIndex(group[i])]

MakeNumeric(text) ==
    LET Pack(g) == Bits(Value([i \in DOMAIN g |-> g[i] - 48], 10), 3 * Len(g) + 1)
        groups  == Groups(text, 3)
    IN  FlattenSeq([g \in DOMAIN groups |-> Pack(groups[g])])

\* Mutant of MakeAlphanumeric: a last single character takes the bits of a pair.
MakeAlphanumericWide(text) ==
    LET groups == Groups(text, 2)
    IN  FlattenSeq([g \in DOMAIN groups |-> Bits(Value(Indices(groups[g]), 45), 11)])

MakeAlphanumeric(text) ==
    LET Pack(g) == Bits(Value(Indices(g), 45), 5 * Len(g) + 1)
        groups  == Groups(text, 2)
    IN  FlattenSeq([g \in DOMAIN groups |-> Pack(groups[g])])

\* The choice of encodeText.
Segment(text) ==
    LET mode == IF Range(text) \subseteq Digits THEN "NUMERIC"
                ELSE IF Range(text) \subseteq Range(Alphanumeric) THEN "ALPHANUMERIC"
                ELSE "BYTE"
    IN  [mode     |-> mode,
         numChars |-> Len(text),
         bits     |-> CASE mode = "NUMERIC"      -> MakeNumeric(text)
                        [] mode = "ALPHANUMERIC" -> MakeAlphanumeric(text)
                        [] mode = "BYTE" -> FlattenSeq([i \in DOMAIN text |-> Bits(text[i], 8)])]

CalcSegmentBitLength(mode, numChars) ==
    CASE mode = "NUMERIC"      -> (numChars * 10 + 2) \div 3
      [] mode = "ALPHANUMERIC" -> (numChars * 11 + 1) \div 2
      [] mode = "BYTE"         -> numChars * 8

NumCharCountBits(mode, v) ==
    LET i == (v + 7) \div 17 + 1
    IN  CASE mode = "NUMERIC"      -> <<10, 12, 14>>[i]
          [] mode = "ALPHANUMERIC" -> << 9, 11, 13>>[i]
          [] mode = "BYTE"         -> << 8, 16, 16>>[i]

\* -1: the number of characters does not fit into its field.
TotalBits(seg, v) ==
    LET cc == NumCharCountBits(seg.mode, v)
    IN  IF seg.numChars = 0 THEN 0
        ELSE IF seg.numChars >= 2 ^ cc THEN -1
        ELSE 4 + cc + CalcSegmentBitLength(seg.mode, seg.numChars)

-----------------------------------------------------------------------------
(* The choice of version and level, and the data codewords *)

\* Mutant of Fits: a text that fills the version exactly is taken for too long.
FitsStrictly(seg, v, ecl) == TotalBits(seg, v) \in 0 .. NumDataCodewords(v, ecl) * 8 - 1

Fits(seg, v, ecl) == TotalBits(seg, v) \in 0 .. NumDataCodewords(v, ecl) * 8

\* The smallest version the segment fits into; 0 if there is none.
Version(seg, ecl, minVersion, maxVersion) ==
    LET fitting == {v \in minVersion .. maxVersion : Fits(seg, v, ecl)}
    IN  IF fitting = {} THEN 0 ELSE Min(fitting)

\* boostEcl: the highest level that fits into the same version.
Boost(seg, v, ecl) == Max({ecl} \cup {e \in 1 .. 3 : Fits(seg, v, e)})

\* An empty text has no segment, and so no header.
Used(seg, v) ==
    IF seg.numChars = 0 THEN << >>
    ELSE Bits(Modes[seg.mode], 4) \o Bits(seg.numChars, NumCharCountBits(seg.mode, v))
         \o seg.bits

Terminated(bits, capacity) == bits \o Bits(0, Min({4, capacity - Len(bits)}))

WholeBytes(bits) == bits \o Bits(0, (8 - (Len(bits) % 8)) % 8)

Pads(n) == FlattenSeq([i \in 1 .. n |-> Bits(IF i % 2 = 1 THEN 236 ELSE 17, 8)])

Padded(bits, capacity) == bits \o Pads((capacity - Len(bits)) \div 8)

DataBits(seg, v, ecl) ==
    LET capacity == NumDataCodewords(v, ecl) * 8
    IN  Padded(WholeBytes(Terminated(Used(seg, v), capacity)), capacity)

\* Bits 0 to 7 of the k-th codeword, as a polynomial.
Codewords(bits) == Tuple([k \in 1 .. Len(bits) \div 8 |->
                          {b \in 0 .. 7 : bits[8 * k - b] = 1}])

-----------------------------------------------------------------------------
(* Reed-Solomon codes *)

\* A polynomial times x, modulo one of degree d.
TimesX(z, d, modulus) == LET s == {i + 1 : i \in z}
                         IN  IF d \in s THEN SymDiff(s, modulus) ELSE s

Double(z) == TimesX(z, 8, {8, 4, 3, 2, 0})     \* 0x11D

FiniteFieldMultiply(x, y) ==
    FoldLeft(LAMBDA z, i : IF i \in y THEN SymDiff(Double(z), x) ELSE Double(z),
             {}, <<7, 6, 5, 4, 3, 2, 1, 0>>)

\* Without the leading coefficient, from the highest power to the lowest.
ReedSolomonGenerator(degree) ==
    LET MultiplyBy(g, root) ==
            Tuple([j \in 1 .. degree |->
                   SymDiff(FiniteFieldMultiply(g[j], root), IF j < degree THEN g[j + 1] ELSE {})])
        Step(s, i) == [poly |-> MultiplyBy(s.poly, s.root), root |-> Double(s.root)]
    IN  FoldLeft(Step, [poly |-> Tuple([j \in 1 .. degree |-> IF j = degree THEN {0} ELSE {}]),
                        root |-> {0}], [i \in 1 .. degree |-> i]).poly

ReedSolomonRemainder(data, generator) ==
    LET degree == Len(generator)
        Shift(r, factor) ==
            Tuple([j \in 1 .. degree |-> SymDiff(IF j < degree THEN r[j + 1] ELSE {},
                                                 FiniteFieldMultiply(generator[j], factor))])
        Step(r, byte) == Shift(r, SymDiff(byte, r[1]))
        rem[n \in 0 .. Len(data)] ==
            IF n = 0 THEN Tuple([j \in 1 .. degree |-> {}]) ELSE Step(rem[n - 1], data[n])
    IN  rem[Len(data)]

\* The positions of the ones among the bits of the interleaved codewords.
AddEccAndInterleave(data, v, ecl) ==
    LET numBlocks      == NUM_ERROR_CORRECTION_BLOCKS[ecl + 1][v]
        blockEccLen    == ECC_CODEWORDS_PER_BLOCK[ecl + 1][v]
        rawCodewords   == NumRawDataModules(v) \div 8
        dataLen        == NumDataCodewords(v, ecl)
        numShortBlocks == numBlocks - (rawCodewords % numBlocks)
        shortLen       == rawCodewords \div numBlocks - blockEccLen
        generator      == ReedSolomonGenerator(blockEccLen)
        Start(i)       == i * shortLen + Max({0, i - numShortBlocks})
        Block(i)       == SubSeq(data, Start(i) + 1, Start(i + 1))
        Place(k, byte) == {8 * k + 7 - b : b \in byte}
        Skipped(j)     == IF j = shortLen THEN numShortBlocks ELSE 0
        Data(i) == UNION {Place(i + j * numBlocks - Skipped(j), Block(i)[j + 1])
                          : j \in 0 .. Len(Block(i)) - 1}
        Check(i) == LET ecc == ReedSolomonRemainder(Block(i), generator)
                    IN  UNION {Place(dataLen + i + j * numBlocks, ecc[j + 1])
                               : j \in 0 .. blockEccLen - 1}
    IN  UNION {Data(i) \cup Check(i) : i \in 0 .. numBlocks - 1}

-----------------------------------------------------------------------------
(* Function modules *)

QrSize(v) == 4 * v + 17

Rectangle(left, top, width, height) == (left .. left + width - 1) \X (top .. top + height - 1)

Symbol(v) == Rectangle(0, 0, QrSize(v), QrSize(v))

\* Ascending; every version but 32, which is out of reach, spaces them evenly.
AlignmentPatternPositions(v) ==
    LET numAlign == v \div 7 + 2
        step     == ((4 * v + 2 * numAlign + 1) \div (2 * numAlign - 2)) * 2
    IN  IF v = 1 THEN {}
        ELSE {6} \cup {4 * v + 10 - step * i : i \in 0 .. numAlign - 2}

\* The centres, without the three corners where the finders are.
AlignmentCentres(v) ==
    LET positions == AlignmentPatternPositions(v)
        Ends(p)   == (p[1] = 6 \/ p[1] = Max(positions)) /\ (p[2] = 6 \/ p[2] = Max(positions))
    IN  {p \in positions \X positions :
            ~ (Ends(p) /\ ~ (p[1] = p[2] /\ p[1] # 6))}

FunctionModules(v) ==
    LET size == QrSize(v)
    IN  Rectangle(6, 0, 1, size) \cup Rectangle(0, 6, size, 1)
        \cup Rectangle(0, 0, 9, 9) \cup Rectangle(size - 8, 0, 8, 9)
        \cup Rectangle(0, size - 8, 9, 8)
        \cup (UNION {Rectangle(p[1] - 2, p[2] - 2, 5, 5) : p \in AlignmentCentres(v)})
        \cup (IF v >= 7 THEN Rectangle(size - 11, 0, 3, 6) \cup Rectangle(0, size - 11, 6, 3)
              ELSE {})

Abs(n) == IF n < 0 THEN -n ELSE n

Distance(p, c) == Max({Abs(p[1] - c[1]), Abs(p[2] - c[2])})

TimingGaps(v) == {p \in Symbol(v) : \E i \in 7 .. QrSize(v) - 8 :
                     i % 2 = 1 /\ p \in {<<6, i>>, <<i, 6>>}}

FinderGaps(v) ==
    LET size    == QrSize(v)
        centres == {<<3, 3>>, <<size - 4, 3>>, <<3, size - 4>>}
    IN  {p \in Symbol(v) : \E c \in centres : Distance(p, c) \in {2, 4}}

AlignmentGaps(v) == UNION {Rectangle(c[1] - 1, c[2] - 1, 3, 3) \ {c} : c \in AlignmentCentres(v)}

\* A number's remainder modulo a polynomial of degree d, appended to it: a BCH code.
WithRemainder(number, d, modulus) ==
    LET exponents == {i \in 0 .. 7 : (number \div 2 ^ i) % 2 = 1}
        rem[i \in 0 .. d] == IF i = 0 THEN exponents ELSE TimesX(rem[i - 1], d, modulus)
    IN  {i + d : i \in exponents} \cup rem[d]

\* Bit i of the version stands at these two modules.
VersionGaps(v) ==
    LET bits == WithRemainder(v, 12, {12, 11, 10, 9, 8, 5, 2, 0})     \* 0x1F25
        k(i) == QrSize(v) - 11 + (i % 3)
    IN  IF v < 7 THEN {}
        ELSE UNION {{<<k(i), i \div 3>>, <<i \div 3, k(i)>>} : i \in (0 .. 17) \ bits}

FunctionPattern(v) ==
    FunctionModules(v) \ (TimingGaps(v) \cup FinderGaps(v) \cup AlignmentGaps(v)
                          \cup VersionGaps(v))

FormatBits(ecl, mask) ==
    SymDiff(WithRemainder(<<1, 0, 3, 2>>[ecl + 1] * 8 + mask, 10,
                          {10, 8, 5, 4, 2, 1, 0}),                    \* 0x537
            {14, 12, 10, 4, 1})                                      \* 0x5412

\* Where bit i of the format stands.
FirstCopy(i) == CASE i <= 5 -> <<8, i>>
                  [] i = 6  -> <<8, 7>>
                  [] i = 7  -> <<8, 8>>
                  [] i = 8  -> <<7, 8>>
                  [] i >= 9 -> <<14 - i, 8>>

\* Mutant of SecondCopy: the column begins one bit early.
SecondCopyEarly(i, v) == IF i < 7 THEN <<QrSize(v) - 1 - i, 8>> ELSE <<8, QrSize(v) - 15 + i>>

SecondCopy(i, v) == IF i < 8 THEN <<QrSize(v) - 1 - i, 8>> ELSE <<8, QrSize(v) - 15 + i>>

FormatModules(i, v) == {FirstCopy(i), SecondCopy(i, v)}

DrawFormatBits(dark, ecl, mask, v) ==
    (dark \ (UNION {FormatModules(i, v) : i \in 0 .. 14}))
    \cup (UNION {FormatModules(i, v) : i \in FormatBits(ecl, mask)})
    \cup {<<8, QrSize(v) - 8>>}

-----------------------------------------------------------------------------
(* Data modules and masks *)

\* Two columns at a time from the right, around column 6, up and down in turn: the
\* k-th module of the way.
Zigzag(v, k) ==
    LET size   == QrSize(v)
        r      == size - 1 - 2 * ((k - 1) \div (2 * size))
        right  == IF r <= 6 THEN r - 1 ELSE r
        vert   == ((k - 1) % (2 * size)) \div 2
        upward == ((right + 1) \div 2) % 2 = 0
    IN  <<right - ((k - 1) % 2), IF upward THEN size - 1 - vert ELSE vert>>

\* A data module takes the bit whose number is that of the data modules before it.
DrawCodewords(ones, v) ==
    LET function == FunctionModules(v)
        steps    == {k \in 1 .. QrSize(v) * (QrSize(v) - 1) : Zigzag(v, k) \notin function}
    IN  {Zigzag(v, k) : k \in {j \in steps : Cardinality({i \in steps : i < j}) \in ones}}

Inverted(mask, p) ==
    LET x == p[1]
        y == p[2]
        product(n) == (x * y) % n
    IN  CASE mask = 0 -> (x + y) % 2 = 0
          [] mask = 1 -> y % 2 = 0
          [] mask = 2 -> x % 3 = 0
          [] mask = 3 -> (x + y) % 3 = 0
          [] mask = 4 -> (x \div 3 + y \div 2) % 2 = 0
          [] mask = 5 -> product(2) + product(3) = 0
          [] mask = 6 -> (product(2) + product(3)) % 2 = 0
          [] mask = 7 -> (x + y + product(3)) % 2 = 0

ApplyMask(dark, mask, v) ==
    SymDiff(dark, {p \in Symbol(v) \ FunctionModules(v) : Inverted(mask, p)})

-----------------------------------------------------------------------------
(* The penalty of a symbol, for a line of it and as a whole *)

\* Dark modules of a line, whose modules are 0 .. size - 1.
Row(dark, y)    == {p[1] : p \in {q \in dark : q[2] = y}}
Column(dark, x) == {p[2] : p \in {q \in dark : q[1] = x}}

SameColour(line, a, b) == (a .. b) \subseteq line \/ (a .. b) \cap line = {}
StartsRun(line, a)     == a = 0 \/ (a \in line) # (a - 1 \in line)

\* The rows, and then the columns.
Lines(dark, size) == Tuple([k \in 1 .. 2 * size |->
                            IF k <= size THEN Row(dark, k - 1) ELSE Column(dark, k - size - 1)])

\* Three points for a run of five and one for every further module of it.
RunPenalty(lines, size) ==
    LET windows == {w \in (1 .. 2 * size) \X (0 .. size - 5) :
                        SameColour(lines[w[1]], w[2], w[2] + 4)}
    IN  Cardinality(windows) + 2 * Cardinality({w \in windows : StartsRun(lines[w[1]], w[2])})

\* Dark, light, dark, light and dark runs of n, n, 3n, n and n modules from a on,
\* with a light run of 4n inside the line on one side of them.
FinderLike(line, size, a, n) ==
    LET Dark(from, length)  == (a + from * n .. a + (from + length) * n - 1) \subseteq line
        Light(from, length) == LET run == a + from * n .. a + (from + length) * n - 1
                               IN  run \subseteq 0 .. size - 1 /\ run \cap line = {}
    IN  /\ Dark(0, 1) /\ Light(1, 1) /\ Dark(2, 3) /\ Light(5, 1) /\ Dark(6, 1)
        /\ a - 1 \notin line /\ a + 7 * n \notin line
        /\ Light(-4, 4) \/ Light(7, 4)

FinderPenalty(lines, size) ==
    40 * Cardinality({w \in (1 .. 2 * size) \X (0 .. size - 7) :
            w[2] \in lines[w[1]]
            /\ \E n \in 1 .. size \div 7 : FinderLike(lines[w[1]], size, w[2], n)})

BlockPenalty(dark, size) ==
    3 * Cardinality({p \in (0 .. size - 2) \X (0 .. size - 2) :
            LET block == Rectangle(p[1], p[2], 2, 2)
            IN  block \subseteq dark \/ block \cap dark = {}})

BalancePenalty(dark, size) ==
    LET total == size * size
        black == Cardinality(Rectangle(0, 0, size, size) \cap dark)
    IN  10 * ((Abs(20 * black - 10 * total) + total - 1) \div total - 1)

PenaltyScore(dark, v) ==
    LET size  == QrSize(v)
        lines == Lines(dark, size)
    IN  RunPenalty(lines, size) + FinderPenalty(lines, size)
        + BlockPenalty(dark, size) + BalancePenalty(dark, size)

-----------------------------------------------------------------------------
(* The choice of the mask *)

Drawn(base, ecl, mask, v) == DrawFormatBits(ApplyMask(base, mask, v), ecl, mask, v)

FirstSmallest(penalty) ==
    CHOOSE m \in 1 .. 8 : /\ \A n \in 1 .. 8 : penalty[m] <= penalty[n]
                          /\ \A n \in 1 .. m - 1 : penalty[m] < penalty[n]

\* The first of the masks with the smallest penalty.
BestMask(base, ecl, v) ==
    LET penalty == Tuple([m \in 1 .. 8 |-> PenaltyScore(Drawn(base, ecl, m - 1, v), v)])
    IN  FirstSmallest(penalty) - 1
=============================================================================
