----------------------------- MODULE SourceLines -----------------------------
(***************************************************************************)
(* The lines of a source file, as as6502 reads and dis6502 writes them: a  *)
(* label, or none, and a body.                                             *)
(***************************************************************************)
EXTENDS Parser

CONSTANT
  NoName  \* stands where a line has no label

(* The bodies of lines *)
Blank         == [kind |-> "blank"]                        \* nothing, or an unknown directive
Org(n)        == [kind |-> "org", start |-> n]
End           == [kind |-> "end"]
Bytes(t)      == [kind |-> "byte", value |-> t]
Asciiz(s)     == [kind |-> "asciiz", text |-> s]
Variable(n,t) == [kind |-> "variable", name |-> n, value |-> t]
Code(op, o)   == [kind |-> "code", op |-> op, operand |-> o]

Body == {Blank, End} \cup [kind : {"org"}, start : Word]
          \cup [kind : {"byte"}, value : Token]
          \cup [kind : {"asciiz"}, text : Seq(Byte)]
          \cup [kind : {"variable"}, name : Name, value : Token]
          \cup [kind : {"code"}, op : Mnemonic, operand : Operand]

Line(label, body) == [label |-> label, body |-> body]
Lines == [label : Name \cup {NoName}, body : Body]

=============================================================================
