------------------------------ MODULE QrReader ------------------------------
(***************************************************************************)
(* "matter qr" (cmd_qr in shell_commands.cpp) prints the code line by line *)
(* on the terminal, and a reader that knows the standard, but not          *)
(* qrcodegen.c, scans it from there: it finds the format in both copies,   *)
(* undoes the mask, collects the codewords column by column, checks every  *)
(* block against its Reed-Solomon syndromes and unpacks the text.          *)
(***************************************************************************)
EXTENDS QrCode

CONSTANT Texts        \* what GetQRCode may answer, as character codes

\* qr_str has room for 63 characters and the end of the string.
ASSUME TextAssumption == \A t \in Texts : t \in Seq(1 .. 255) /\ Len(t) <= 63

VARIABLES text,       \* qr_str
          stage,      \* what is done next
          draft,      \* segment, version and level; codewords; modules before masking
          symbol,     \* qr_buf
          screen,     \* the lines printed, each the set of its dark cells
          scan        \* what the reader has made of them

vars == <<text, stage, draft, symbol, screen, scan>>

quiet == 2

Init == /\ text \in Texts
        /\ stage = "choose"
        /\ draft = << >> /\ symbol = << >> /\ screen = << >> /\ scan = << >>

Then(from, to) == stage = from /\ stage' = to

\* No text of qr_str is too long for version 9: cmd_qr's "QR encode failed" is never
\* printed, and every call gets past this step.
Chosen(seg) == LET v == Version(seg, Ecc.LOW, 1, 9)
               IN  [seg |-> seg, v |-> v, ecl |-> Boost(seg, v, Ecc.LOW)]

Choose == /\ Then("choose", "fill")
          /\ draft' = Chosen(Segment(text))
          /\ UNCHANGED <<text, symbol, screen, scan>>

Fill == /\ Then("fill", "draw")
        /\ draft' = [v |-> draft.v, ecl |-> draft.ecl,
                     data |-> Codewords(DataBits(draft.seg, draft.v, draft.ecl))]
        /\ UNCHANGED <<text, symbol, screen, scan>>

Draw == /\ Then("draw", "mask")
        /\ draft' = [v |-> draft.v, ecl |-> draft.ecl,
                     base |-> DrawCodewords(
                                  AddEccAndInterleave(draft.data, draft.v, draft.ecl), draft.v)
                              \cup FunctionPattern(draft.v)]
        /\ UNCHANGED <<text, symbol, screen, scan>>

Mask == /\ Then("mask", "print")
        /\ symbol' = [size |-> QrSize(draft.v),
                      dark |-> Drawn(draft.base, draft.ecl,
                                     BestMask(draft.base, draft.ecl, draft.v), draft.v)]
        /\ draft' = << >>
        /\ UNCHANGED <<text, screen, scan>>

\* The line of y = Len(screen) - quiet; cells count from the left margin.
PrintLine == /\ stage = "print"
             /\ screen' = Append(screen, {x + quiet : x \in Row(symbol.dark, Len(screen) - quiet)})
             /\ stage' = IF Len(screen') = symbol.size + 2 * quiet THEN "scan" ELSE stage
             /\ UNCHANGED <<text, draft, symbol, scan>>

-----------------------------------------------------------------------------
(* The standard, for versions 1 to 4: all that a text of 63 characters uses *)

\* Number of blocks and data codewords in each, by version and level.
Blocks == <<
    <<<<1, 19>>, <<1, 16>>, <<1, 13>>, <<1,  9>>>>, <<<<1, 34>>, <<1, 28>>, <<1, 22>>, <<1, 16>>>>,
    <<<<1, 55>>, <<1, 44>>, <<2, 17>>, <<2, 13>>>>, <<<<1, 80>>, <<2, 32>>, <<2, 24>>, <<4,  9>>>> >>
AllCodewords == <<26, 44, 70, 100>>

\* Characters that fit, by mode, version and level.
Capacity == [
    NUMERIC      |-> << <<41, 34, 27, 17>>, <<77, 63, 48, 34>>, <<127, 101, 77, 58>>,
                        <<187, 149, 111, 82>> >>,
    ALPHANUMERIC |-> << <<25, 20, 16, 10>>, <<47, 38, 29, 20>>, <<77, 61, 47, 35>>,
                        <<114, 90, 67, 50>> >>,
    BYTE         |-> << <<17, 14, 11, 7>>, <<32, 26, 20, 14>>, <<53, 42, 32, 24>>,
                        <<78, 62, 46, 34>> >>]

\* The words of the format, by level (L, M, Q, H) and mask.
FormatWords == <<
    <<\h77C4, \h72F3, \h7DAA, \h789D, \h662F, \h6318, \h6C41, \h6976>>,
    <<\h5412, \h5125, \h5E7C, \h5B4B, \h45F9, \h40CE, \h4F97, \h4AA0>>,
    <<\h355F, \h3068, \h3F31, \h3A06, \h24B4, \h2183, \h2EDA, \h2BED>>,
    <<\h1689, \h13BE, \h1CE7, \h19D0, \h0762, \h0255, \h0D0C, \h083B>> >>

\* Where the two copies of the format word stand, from its first bit on.
FormatPlaces(n) ==
    << <<<<0, 8>>, <<1, 8>>, <<2, 8>>, <<3, 8>>, <<4, 8>>, <<5, 8>>, <<7, 8>>, <<8, 8>>,
         <<8, 7>>, <<8, 5>>, <<8, 4>>, <<8, 3>>, <<8, 2>>, <<8, 1>>, <<8, 0>>>>,
       [i \in 1 .. 15 |-> IF i <= 7 THEN <<8, n - i>> ELSE <<n - 16 + i, 8>>] >>

\* The centre of the one alignment pattern of versions 2 to 4.
Alignment == <<{}, {18}, {22}, {26}>>

Reserved(p, n, v) ==
    \/ 6 \in {p[1], p[2]}
    \/ p[1] < 9 /\ p[2] < 9
    \/ p[1] < 9 /\ p[2] >= n - 8
    \/ p[1] >= n - 8 /\ p[2] < 9
    \/ \E c \in Alignment[v] : {p[1], p[2]} \subseteq c - 2 .. c + 2

\* Pairs of columns from the right, read upwards and downwards in turn.
Strips(n) == [k \in 1 .. (n - 1) \div 2 |->
    LET right == IF n + 1 - 2 * k > 6 THEN n + 1 - 2 * k ELSE n - 2 * k
    IN  [i \in 1 .. 2 * n |->
            <<right - ((i - 1) % 2),
              IF k % 2 = 1 THEN n - 1 - (i - 1) \div 2 ELSE (i - 1) \div 2>>]]

\* The cells that the masks of the standard turn over, with column j and row i.
Masked(mask, i, j) == 0 = CASE mask = 1 -> (i + j) % 2
                            [] mask = 2 -> i % 2
                            [] mask = 3 -> j % 3
                            [] mask = 4 -> (i + j) % 3
                            [] mask = 5 -> (i \div 2 + j \div 3) % 2
                            [] mask = 6 -> ((i * j) % 2) + ((i * j) % 3)
                            [] mask = 7 -> (((i * j) % 2) + ((i * j) % 3)) % 2
                            [] mask = 8 -> (((i + j) % 2) + ((i * j) % 3)) % 2

-----------------------------------------------------------------------------
(* GF(256), as polynomials in alpha *)

\* The sum of the elements F(s) of the field.
FieldSum(S, F(_)) == {b \in 0 .. 7 : Cardinality({s \in S : b \in F(s)}) % 2 = 1}

Power[k \in 0 .. 254] ==
    CASE k < 8  -> {k}
      [] k = 8  -> {4, 3, 2, 0}
      [] k > 8 /\ (k < 16 \/ k % 2 = 1)   -> FieldSum(Power[k - 1], LAMBDA e : Power[e + 1])
      [] k >= 16 /\ k % 2 = 0             -> FieldSum(Power[k \div 2], LAMBDA e : Power[2 * e])

Powers == Tuple([k \in 1 .. 255 |-> Power[k - 1]])

\* The value of a block, its first codeword the highest coefficient, at alpha^i.
Syndrome(block, i) ==
    LET n == Len(block)
        terms == UNION {{j} \X block[j] : j \in 1 .. n}
    IN  FieldSum(terms, LAMBDA t : Powers[((t[2] + i * (n - t[1])) % 255) + 1])

-----------------------------------------------------------------------------
(* Scanning *)

Number(bits) == FoldLeft(LAMBDA n, b : 2 * n + b, 0, bits)

ModeOf == [NUMERIC      |-> [nibble |-> 1, count |-> 10, widths |-> <<4, 7, 10>>],
           ALPHANUMERIC |-> [nibble |-> 2, count |->  9, widths |-> <<6, 11>>],
           BYTE         |-> [nibble |-> 4, count |->  8, widths |-> <<8>>]]

CharOf(mode, digit) == CASE mode = "NUMERIC"      -> 48 + digit
                         [] mode = "ALPHANUMERIC" -> Alphanumeric[digit + 1]
                         [] mode = "BYTE"         -> digit

Base == [NUMERIC |-> 10, ALPHANUMERIC |-> 45, BYTE |-> 256]

\* The text in the data bits, with the mode it is written in and the length of it all.
Unpacked(bits) ==
    LET Field(from, n) == Number(SubSeq(bits, from + 1, from + n))
        mode    == CHOOSE m \in DOMAIN ModeOf : ModeOf[m].nibble = Field(0, 4)
        widths  == ModeOf[mode].widths
        unit    == Len(widths)
        start   == 4 + ModeOf[mode].count
        count   == Field(4, ModeOf[mode].count)
        Size(g) == LET left == count - unit * g IN IF left < unit THEN left ELSE unit
        Group(g) == Field(start + widths[unit] * g, widths[Size(g)])
        Char(k) == LET g   == (k - 1) \div unit
                       pos == Size(g) - 1 - ((k - 1) % unit)
                   IN  CharOf(mode, (Group(g) \div Base[mode] ^ pos) % Base[mode])
        lastGroup == (count - 1) \div unit
    IN  IF Field(0, 4) = 0 THEN [mode |-> "BYTE", text |-> << >>, length |-> 0]
        ELSE [mode   |-> mode,
              text   |-> [k \in 1 .. count |-> Char(k)],
              length |-> start + widths[unit] * lastGroup + widths[Size(lastGroup)]]

\* The terminator, cut short by the end of the data only, zeros to the end of
\* the codeword, and alternating pad codewords.
ProperlyPadded(bits, used) ==
    LET end   == IF used + 4 < Len(bits) THEN used + 4 ELSE Len(bits)
        whole == 8 * ((end + 7) \div 8)
    IN  /\ \A k \in used + 1 .. whole : bits[k] = 0
        /\ \A k \in whole + 1 .. Len(bits) :
              bits[k] = IF (k - whole - 1) % 16 < 8
                        THEN <<1, 1, 1, 0, 1, 1, 0, 0>>[((k - whole - 1) % 8) + 1]
                        ELSE <<0, 0, 0, 1, 0, 0, 0, 1>>[((k - whole - 1) % 8) + 1]

Bit01(b) == IF b THEN 1 ELSE 0

Dark(p) == p[1] + quiet \in screen[p[2] + quiet + 1]

\* Do these places show that word, its highest bit first?
Shows(places, word) == \A i \in 1 .. 15 : Dark(places[i]) <=> (word \div 2 ^ (15 - i)) % 2 = 1

\* The level and the mask in one copy of the format.
Format(places) == CHOOSE f \in (1 .. 4) \X (1 .. 8) : Shows(places, FormatWords[f[1]][f[2]])

\* Is the cell dark once the mask is undone?
Unmasked(p, mask) == ~ (Dark(p) <=> Masked(mask, p[2], p[1]))

Read(cells, mask) == Tuple([k \in DOMAIN cells |-> Bit01(Unmasked(cells[k], mask))])

Cells(n, v) == SelectSeq(FlattenSeq(Strips(n)), LAMBDA p : ~ Reserved(p, n, v))

\* A code of n modules in a row, in the format that was found.
Collected(n, format, copies) ==
    LET v == (n - 17) \div 4
    IN  [version |-> v, level |-> format[1], copies |-> copies,
         raw |-> Read(Cells(n, v), format[2])]

Collect == /\ Then("scan", "decode")
           /\ LET n      == Len(screen) - 2 * quiet
                  places == FormatPlaces(n)
                  format == Format(places[1])
              IN  scan' = Collected(n, format,
                                    Shows(places[2], FormatWords[format[1]][format[2]]))
           /\ UNCHANGED <<text, draft, symbol, screen>>

\* With the blocks of the version and level, each with its data and check codewords.
Decoded(raw, blocks, dataLen, eccLen) ==
    LET Position(i, j) == blocks * (j - 1) + i
        Codeword(k)    == {b \in 0 .. 7 : raw[8 * k - b] = 1}
        Block(i)       == [j \in 1 .. dataLen + eccLen |-> Codeword(Position(i, j))]
        DataBit(k)     == LET j == (k - 1) \div 8
                          IN  raw[8 * (Position(j \div dataLen + 1, (j % dataLen) + 1) - 1)
                                  + ((k - 1) % 8) + 1]
    IN  [sound |-> \A i \in 1 .. blocks : \A s \in 0 .. eccLen - 1 : Syndrome(Block(i), s) = {},
         data  |-> Tuple([k \in 1 .. 8 * blocks * dataLen |-> DataBit(k)])]

Decode == /\ Then("decode", "unpack")
          /\ LET blocks == Blocks[scan.version][scan.level]
             IN  scan' = scan @@ Decoded(scan.raw, blocks[1], blocks[2],
                                         AllCodewords[scan.version] \div blocks[1] - blocks[2])
          /\ UNCHANGED <<text, draft, symbol, screen>>

Unpack == /\ Then("unpack", "read")
          /\ scan' = scan @@ Unpacked(scan.data)
          /\ UNCHANGED <<text, draft, symbol, screen>>

Next == Choose \/ Fill \/ Draw \/ Mask \/ PrintLine \/ Collect \/ Decode \/ Unpack

Spec == Init /\ [][Next]_vars

-----------------------------------------------------------------------------
(* Properties *)

\* The smallest version that holds n characters of a mode, and the highest level
\* (L, M, Q, H) that holds them in that version.
IsBestFit(mode, v, level, n) ==
    LET Holds(u, l) == n <= Capacity[mode][u][l]
    IN  /\ v \in 1 .. 4 /\ level \in 1 .. 4
        /\ \A u \in 1 .. v - 1 : ~ Holds(u, 1)
        /\ Holds(v, level)
        /\ \A l \in level + 1 .. 4 : ~ Holds(v, l)

\* The reader finds an undamaged code with the text of the command in it, the smallest
\* that holds the text and protected as well as that size allows (boostEcl): segment,
\* terminator, padding, error correction, interleaving, placement, mask and format
\* of qrcodegen.c and the rendering of cmd_qr agree on the standard.
ScansBack == stage = "read" =>
    /\ scan.copies /\ scan.sound
    /\ ProperlyPadded(scan.data, scan.length)
    /\ scan.text = text
    /\ IsBestFit(scan.mode, scan.version, scan.level, Len(text))

\* cmd_qr always gets a symbol for its 63 characters, in one of the versions 1 to 4
\* and at the level that fit best, and the terminal shows all its rows, between
\* two lines of margin above and below.
PrintsBestFit ==
    /\ stage \in {"fill", "draw", "mask"} =>
          IsBestFit(Segment(text).mode, draft.v, draft.ecl + 1, Len(text))
    /\ stage = "scan" =>
          /\ \E v, level \in 1 .. 4 : /\ IsBestFit(Segment(text).mode, v, level, Len(text))
                                     /\ Len(screen) = QrSize(v) + 2 * quiet
          /\ \A i \in 1 .. Len(screen) :
                screen[i] = {x + quiet : x \in Row(symbol.dark, i - 1 - quiet)}

\* The terminal can be read before anything is decoded: both copies of the format name
\* the level of the symbol and its mask, and the modules outside the standard's
\* patterns are, with that mask undone, the codewords just as they were placed.
ModulesAreRead == stage = "scan" =>
    LET c      == Chosen(Segment(text))
        n      == Len(screen) - 2 * quiet
        format == Format(FormatPlaces(n)[1])
        words  == AddEccAndInterleave(Codewords(DataBits(c.seg, c.v, c.ecl)), c.v, c.ecl)
    IN  /\ n = QrSize(c.v) /\ format[1] = c.ecl + 1
        /\ Shows(FormatPlaces(n)[2], FormatWords[format[1]][format[2]])
        /\ LET drawn == DrawCodewords(words, c.v)
           IN  \A p \in Symbol(c.v) :
                  p \in drawn <=> ~ Reserved(p, n, c.v) /\ Unmasked(p, format[2])
=============================================================================
