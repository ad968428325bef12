---------------------------- MODULE MCRoundTrip ----------------------------
(***************************************************************************)
(* Small instances of RoundTrip: every flat file of up to Longest          *)
(* instructions out of a few, every opcode before a jump, and files at the *)
(* edges: loaded at 0, on the zero page, at the top of the address space,  *)
(* of the other format, cut, with strings, with many labels, too long.     *)
(***************************************************************************)
EXTENDS RoundTrip, SequencesExt

CONSTANT Longest

Labels == 1 .. LabelBound
Lengths == [n \in Labels |-> IF n < 10 THEN 6 ELSE 7]

Flat(load, bytes) == [format |-> "flat", load |-> load, data |-> bytes]
Repeated(n, bytes) == FlattenSeq([i \in 1 .. n |-> bytes])

\* For a file at 0x600: plain instructions, branches back, to themselves and forward,
\* jumps to each of the first bytes, tya, and what is no instruction
Samples ==
  {<<234>>, <<169, 5>>, <<189, 7, 6>>,
   <<208, 254>>, <<208, 252>>, <<240, 3>>,
   <<76, 0, 6>>, <<76, 3, 6>>, <<32, 4, 6>>, <<108, 2, 6>>, <<108, 0, 9>>,
   <<152>>, <<2>>, <<66>>, <<0>>}

Core == {<<234>>, <<208, 252>>, <<240, 3>>, <<76, 3, 6>>, <<32, 4, 6>>}

Short ==
  {Flat(1536, FlattenSeq(s)) : s \in UNION {[1 .. n -> Samples] : n \in 0 .. Longest}
                                      \cup [1 .. Longest + 1 -> Core]}

EveryOpcode ==
  {Flat(1536, SubSeq(<<b, 3, 4>>, 1, LengthOf[b]) \o <<76, 0, 6>>) : b \in Byte}

\* Branches and jumps for files that may be loaded anywhere
Relative == {<<208, 0, 234>>, <<234, 208, 253, 0>>, <<76, 0, 0>>, <<234, 76, 249, 255, 234>>,
             <<208, 254, 76, 254, 255>>, <<76, 1, 0, 208, 251, 234>>, <<208, 2, 208, 253, 234>>}

Edges ==
  {Flat(load, bytes) : load \in {0, 16, 256, 65531, 65532, 65534}, bytes \in Relative}
    \cup {[format |-> "ines", load |-> 0, data |-> bytes] : bytes \in Relative}
    \cup {Flat(1536, bytes) :
            bytes \in {<<76, 0>>, <<208>>, <<32>>, <<189, 1>>, <<76, 0, 6, 66, 67, 0, 234>>,
                       <<76, 3, 6, 66, 67, 234>>, <<76, 3, 6, 66, 67>>, <<66, 2, 76, 0, 6>>}}
    \cup {Flat(16, <<76, 16, 0, 234>>), Flat(16, <<208, 16, 208, 252, 234>>),
          Flat(200, <<76, 200, 0, 234>>)}
    \cup {Flat(1536, Repeated(10, <<208, n>>) \o tail) :
            n \in {0, 1, 236, 254}, tail \in {<<>>, <<234>>, <<76, 20, 6>>}}
    \cup {Flat(1536, <<76, 0, 6>> \o Repeated(n, <<234>>) \o tail) :
            n \in {25, 26, 27}, tail \in {<<>>, <<234>>, <<208, 254>>, <<189, 7, 6>>}}

\* loop: dex, bne loop
Loop == {Flat(1536, <<202, 208, 253>>)}

Files == Short \cup EveryOpcode \cup Edges

=============================================================================
