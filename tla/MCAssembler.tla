----------------------------- MODULE MCAssembler -----------------------------
(***************************************************************************)
(* Small instances of Assembler: every file of up to Longest lines out of  *)
(* a few, and some longer ones. facade reads as a number of five hex       *)
(* digits behind its first letter.                                         *)
(***************************************************************************)
EXTENDS Assembler

CONSTANT Longest

Names == {"skip", "loop", "facade"}
Lengths == [n \in Names |-> IF n = "facade" THEN 6 ELSE 4]
Facades == {"facade"}

Bare(body_) == Line(NoName, body_)
Operand1(shape, t) == [shape |-> shape, terms |-> <<t>>, operator |-> ""]
Sum(t, u) == [shape |-> "plain", terms |-> <<t, u>>, operator |-> "+"]

Nop        == Code("nop", [shape |-> "none", terms |-> <<>>, operator |-> ""])
Bne(n)     == Code("bne", Operand1("plain", Named(n)))
Jmp(n)     == Code("jmp", Operand1("plain", Named(n)))
Jsr(n)     == Code("jsr", Operand1("plain", Named(n)))
Lda(n)     == Code("lda", Operand1("plain", Named(n)))
LdaX(n)    == Code("lda", Operand1(",X", Named(n)))
LdaSum(n)  == Code("lda", Sum(Named(n), Value(1, FALSE, "")))
LdaSumR(n) == Code("lda", Sum(Value(16, FALSE, ""), Named(n)))

\* The lines the short files are made of
Alphabet ==
  {Bare(Org(1536)), Bare(Org(512)), Bare(Org(65535)), Bare(End),
   Bare(Bytes(Value(18, FALSE, ""))), Bare(Asciiz(<<>>)),
   Bare(Variable("loop", Value(16, FALSE, ""))),
   Line("skip", Nop), Line("loop", Blank), Line("facade", Bne("skip")),
   Bare(Bne("loop")), Bare(Jmp("loop")), Bare(Lda("loop")), Bare(LdaSumR("loop"))}

Short == UNION {[1 .. n -> Alphabet] : n \in 0 .. Longest}

\* Longer ones: two sections, a branch across data, each operand before and after its name
Long ==
  {<<Bare(Org(512)), Line("skip", Nop), Bare(Jmp("loop")),
     Bare(Org(1536)), Bare(Nop), Line("loop", Lda("skip")), Bare(Bytes(Value(258, TRUE, "")))>>,
   <<Bare(Org(1536)), Bare(LdaX("skip")), Bare(Bne("skip")), Line("loop", Nop), Line("skip", Bne("loop")),
     Bare(Bytes(Named("skip")))>>,
   <<Bare(Variable("loop", Value(16, FALSE, ""))), Bare(Org(1536)), Bare(LdaX("loop")),
     Line("skip", LdaSum("loop")), Bare(LdaSumR("loop")), Bare(Bne("skip"))>>,
   <<Bare(Org(1536)), Bare(Jmp("facade")), Line("skip", Nop), Line("facade", Jmp("skip"))>>,
   <<Bare(Org(1536)), Line("skip", Nop), Bare(Nop), Line("skip", Nop), Bare(Bne("skip"))>>}

Files == Short \cup Long

\* Of tests/print.s, at the origin of tests/snake.s: a call, a string, what is called
AfterString ==
  {<<Bare(Org(1536)), Bare(Jsr("loop")), Line("skip", Blank), Bare(Asciiz(<<65, 66>>)),
     Line("loop", Nop)>>}

=============================================================================
