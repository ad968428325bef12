-------------------------- MODULE SourceLinesProofs --------------------------
(***************************************************************************)
(* Lemmas on words and bytes, the symbol table, instructions and lines,    *)
(* for what is proved of the assembler and the disassembler.               *)
(***************************************************************************)
EXTENDS SourceLines, IsaProofs, SequenceTheorems, WellFoundedInduction, TLAPS

-----------------------------------------------------------------------------
(* Numbers *)

\* The size of a word, which the provers should not see more often than needed
LEMMA Words == WordCount = 65536
BY DEF WordCount

LEMMA WordBounds == \A n : n \in Word <=> n \in Int /\ 0 <= n /\ n < WordCount
<1>1. WordCount \in Int
  BY DEF WordCount
<1> QED
  BY <1>1 DEF Word

LEMMA ByteBounds == \A n : n \in Byte <=> n \in Int /\ 0 <= n /\ n <= 255
BY DEF Byte

LEMMA WordType == ASSUME NEW n \in Int PROVE n % WordCount \in Word
BY WordBounds, Words

LEMMA ByteType == ASSUME NEW n \in Int PROVE n % 256 \in Byte /\ n % 256 \in Word
BY WordBounds, ByteBounds, Words

LEMMA WordOfBytes == ASSUME NEW n \in Word PROVE n % 256 \in Byte /\ n \div 256 \in Byte
BY WordBounds, ByteBounds, Words

\* A set of natural numbers that is not empty has a least one
LEMMA Least ==
  ASSUME NEW T, T \subseteq Nat, T # {}
  PROVE  \E k \in T : \A j \in T : k <= j
<1>1. PICK k \in T : \A j \in T : ~ (<<j, k>> \in OpToRel(<, Nat))
  BY NatLessThanWellFounded, WFMin
<1>2. ASSUME NEW j \in T PROVE k <= j
  <2>1. j \in Nat /\ k \in Nat
    OBVIOUS
  <2>2. j < k => <<j, k>> \in OpToRel(<, Nat)
    BY <2>1 DEF OpToRel
  <2>3. ~ (j < k)
    BY <1>1, <2>2, Zenon
  <2> QED
    BY <2>1, <2>3
<1> QED
  BY <1>2

\* A function that is applied again and again from 0 has its sequence of values.
LEMMA Iterates ==
  ASSUME NEW next \in [Nat -> Nat]
  PROVE  \E g \in [Nat -> Nat] : g[0] = 0 /\ \A n \in Nat \ {0} : g[n] = next[g[n - 1]]
<1> DEFINE Begins(f, n) == /\ f \in [0 .. n -> Nat] /\ f[0] = 0
                           /\ \A i \in 1 .. n : f[i] = next[f[i - 1]]
<1>1. ASSUME NEW n \in Nat PROVE \E f : Begins(f, n)
  <2> DEFINE Bad == {i \in Nat : ~ \E f : Begins(f, i)}
  <2> SUFFICES ASSUME Bad # {} PROVE FALSE
    BY Zenon
  <2>1. PICK k \in Bad : \A j \in Bad : k <= j
    BY Least
  <2>2. CASE k = 0
    <3> DEFINE f == [i \in 0 .. 0 |-> 0]
    <3>1. f \in [0 .. 0 -> Nat] /\ f[0] = 0 /\ 1 .. 0 = {}
      OBVIOUS
    <3>2. Begins(f, 0)
      BY <3>1
    <3> QED BY <2>2, <3>2
  <2>3. CASE k # 0
    <3>1. k - 1 \in Nat /\ k \in Nat /\ k - 1 \in 0 .. k - 1 /\ ~ (k <= k - 1)
      BY <2>1, <2>3
    <3>2. PICK f : Begins(f, k - 1)
      <4>1. k - 1 \notin Bad
        BY <2>1, <3>1, Zenon
      <4> QED BY <3>1, <4>1, Zenon
    <3> DEFINE last == next[f[k - 1]]
               g == [i \in 0 .. k |-> IF i = k THEN last ELSE f[i]]
    <3>3. \A i \in 0 .. k - 1 : f[i] \in Nat
      BY <3>2
    <3>4. last \in Nat
      BY <3>1, <3>3
    <3> HIDE DEF last
    <3>5. \A i \in 0 .. k - 1 : f[i] \in Nat /\ g[i] = f[i]
      <4>1. \A i \in 0 .. k - 1 : i \in 0 .. k /\ i # k
        BY <3>1
      <4> QED BY <3>3, <4>1
    <3>6. g[k] = last /\ last \in Nat
      BY <3>1, <3>4
    <3>7. g \in [0 .. k -> Nat]
      <4>1. \A i \in 0 .. k : i = k \/ i \in 0 .. k - 1
        BY <3>1
      <4>2. \A i \in 0 .. k : (IF i = k THEN last ELSE f[i]) \in Nat
        BY <3>3, <3>4, <4>1
      <4> QED BY <4>2
    <3>8. g[0] = 0
      BY <2>3, <3>1, <3>2, <3>5
    <3>9. ASSUME NEW i \in 1 .. k PROVE g[i] = next[g[i - 1]]
      <4>1. i - 1 \in 0 .. k - 1
        BY <3>1
      <4>2. CASE i = k
        BY <3>5, <3>6, <4>1, <4>2 DEF last
      <4>3. CASE i # k
        <5>1. i \in 1 .. k - 1 /\ i \in 0 .. k - 1
          BY <3>1, <4>3
        <5> QED BY <3>2, <3>5, <4>1, <5>1
      <4> QED BY <4>2, <4>3
    <3> HIDE DEF g
    <3>10. Begins(g, k)
      BY <3>7, <3>8, <3>9
    <3> QED BY <3>10
  <2> QED BY <2>2, <2>3
<1>2. ASSUME NEW m \in Nat, NEW n \in Nat, NEW f, NEW g, Begins(f, m), Begins(g, n), m <= n
      PROVE  f[m] = g[m]
  <2> DEFINE Bad == {i \in 0 .. m : f[i] # g[i]}
  <2>1. CASE Bad = {}
    BY <2>1
  <2>2. CASE Bad # {}
    <3>1. Bad \subseteq Nat
      OBVIOUS
    <3>2. PICK k \in Bad : \A j \in Bad : k <= j
      <4> HIDE DEF Bad
      <4> QED BY <2>2, <3>1, Least
    <3>3. k \in 0 .. m /\ f[k] # g[k]
      BY <3>2
    <3>4. k # 0
      BY <1>2, <3>3
    <3>5. k \in 1 .. m /\ k \in 1 .. n /\ k - 1 \in 0 .. m
      BY <1>2, <3>3, <3>4
    <3>6. f[k - 1] = g[k - 1]
      <4>1. ~ (k <= k - 1)
        BY <3>3
      <4> QED BY <3>2, <3>5, <4>1
    <3> QED BY <1>2, <3>3, <3>5, <3>6
  <2> QED BY <2>1, <2>2
<1> DEFINE F(n) == CHOOSE f : Begins(f, n)
           g == [n \in Nat |-> F(n)[n]]
<1>3. ASSUME NEW n \in Nat PROVE Begins(F(n), n)
  BY <1>1
<1> HIDE DEF F
<1>4. ASSUME NEW n \in Nat PROVE F(n)[n] \in Nat
  BY <1>3
<1>5. g \in [Nat -> Nat]
  BY <1>4
<1>6. g[0] = 0
  BY <1>3
<1>7. ASSUME NEW n \in Nat \ {0} PROVE g[n] = next[g[n - 1]]
  <2>1. n - 1 \in Nat /\ n - 1 <= n /\ n \in 1 .. n /\ n \in Nat
    OBVIOUS
  <2>2. F(n)[n] = next[F(n)[n - 1]]
    BY <1>3, <2>1
  <2>3. F(n - 1)[n - 1] = F(n)[n - 1]
    <3> HIDE DEF Begins
    <3> QED BY <1>2, <1>3, <2>1
  <2> QED BY <2>1, <2>2, <2>3
<1> HIDE DEF g
<1> QED
  BY <1>5, <1>6, <1>7

-----------------------------------------------------------------------------
(* The symbol table *)

\* The search finds the name it looks for
LEMMA SymbolFound ==
  ASSUME NEW t \in Seq(Symbol), NEW name, IsNamed(t, name)
  PROVE  /\ SymbolForString(t, name) \in DOMAIN t
         /\ t[SymbolForString(t, name)].name = name
         /\ AddressOf(t, name) \in Word
<1> DEFINE Hits == {i \in DOMAIN t : t[i].name = name}
<1>1. Len(t) \in Nat /\ DOMAIN t = 1 .. Len(t) /\ \A i \in 1 .. Len(t) : t[i] \in Symbol
  BY LenProperties, ElementOfSeq
<1>2. Hits \subseteq Nat /\ Hits # {}
  BY <1>1 DEF IsNamed
<1>3. PICK k \in Hits : \A j \in Hits : k <= j
  <2> HIDE DEF Hits
  <2> QED BY <1>2, Least
<1>4. k \in DOMAIN t /\ t[k].name = name /\ \A j \in 1 .. k - 1 : t[j].name # name
  <2>1. ASSUME NEW j \in 1 .. k - 1, t[j].name = name PROVE FALSE
    <3>1. j \in Hits /\ j < k /\ j \in Nat /\ k \in Nat
      BY <1>1, <2>1
    <3> QED BY <1>3, <3>1
  <2> QED BY <2>1
<1>5. /\ SymbolForString(t, name) \in DOMAIN t
      /\ t[SymbolForString(t, name)].name = name
  BY <1>4 DEF SymbolForString
<1>6. AddressOf(t, name) \in Word
  BY <1>1, <1>5 DEF AddressOf, Symbol
<1> QED
  BY <1>5, <1>6

\* A new symbol goes behind entries that are not shorter, before one that is
LEMMA BeforeType ==
  ASSUME NEW t \in Seq(Symbol), NEW s \in Symbol
  PROVE  /\ Before(t, s) \in 0 .. Len(t)
         /\ \A i \in 1 .. Before(t, s) : ~ (NameLength[t[i].name] < NameLength[s.name])
         /\ Before(t, s) < Len(t) =>
              NameLength[t[Before(t, s) + 1].name] < NameLength[s.name]
<1> DEFINE shorter(i) == NameLength[t[i].name] < NameLength[s.name]
           Hits == {i \in DOMAIN t : shorter(i)}
           first == CHOOSE i \in DOMAIN t : shorter(i) /\ \A j \in 1 .. i - 1 : ~ shorter(j)
<1>1. Len(t) \in Nat /\ DOMAIN t = 1 .. Len(t)
  BY LenProperties
<1>2. CASE Hits = {}
  <2>1. Before(t, s) = Len(t)
    BY <1>2 DEF Before
  <2> QED BY <1>1, <1>2, <2>1
<1>3. CASE Hits # {}
  <2>1. PICK k \in Hits : \A j \in Hits : k <= j
    <3>1. Hits \subseteq Nat
      BY <1>1
    <3> HIDE DEF Hits
    <3> QED BY <1>3, <3>1, Least
  <2>2. k \in DOMAIN t /\ shorter(k) /\ \A j \in 1 .. k - 1 : ~ shorter(j)
    <3>1. ASSUME NEW j \in 1 .. k - 1, shorter(j) PROVE FALSE
      <4>1. j \in Hits /\ j < k /\ j \in Nat /\ k \in Nat
        BY <1>1, <3>1
      <4> HIDE DEF Hits
      <4> QED BY <2>1, <4>1
    <3> QED BY <3>1
  <2>3. first \in DOMAIN t /\ shorter(first) /\ \A j \in 1 .. first - 1 : ~ shorter(j)
    <3> HIDE DEF Hits, shorter
    <3> QED BY <2>2
  <2>4. Before(t, s) = first - 1
    BY <1>3 DEF Before
  <2> HIDE DEF first
  <2> QED BY <1>1, <2>3, <2>4
<1> QED
  BY <1>2, <1>3

\* What stands where after an insertion
LEMMA InsertedType ==
  ASSUME NEW t \in Seq(Symbol), NEW s \in Symbol
  PROVE  LET n == Before(t, s)
             u == Inserted(t, s)
         IN  /\ u \in Seq(Symbol)
             /\ DOMAIN u = 1 .. Len(t) + 1
             /\ \A i \in 1 .. Len(t) + 1 :
                  u[i] = IF i <= n THEN t[i] ELSE IF i = n + 1 THEN s ELSE t[i - 1]
<1> DEFINE n == Before(t, s)
           head == SubSeq(t, 1, n)
           tail == SubSeq(t, n + 1, Len(t))
           u == (head \o <<s>>) \o tail
<1>1. /\ Len(t) \in Nat /\ DOMAIN t = 1 .. Len(t) /\ n \in 0 .. Len(t)
      /\ \A i \in 1 .. Len(t) : t[i] \in Symbol
  BY BeforeType, LenProperties, ElementOfSeq
<1>2. Inserted(t, s) = u
  BY DEF Inserted
<1> HIDE DEF n
<1>3. /\ head \in Seq(Symbol) /\ Len(head) = n
      /\ \A i \in 1 .. n : head[i] = t[i]
  BY <1>1
<1>4. /\ tail \in Seq(Symbol) /\ Len(tail) = Len(t) - n
      /\ \A i \in 1 .. Len(t) - n : tail[i] = t[i + n]
  <2>1. tail = [i \in 1 .. Len(t) - n |-> t[i + n]]
    <3>1. tail = [i \in 1 .. Len(t) - (n + 1) + 1 |-> t[(n + 1) + i - 1]]
      BY <1>1
    <3> HIDE DEF tail
    <3>2. Len(t) - (n + 1) + 1 = Len(t) - n
      BY <1>1
    <3>3. \A i \in 1 .. Len(t) - n : (n + 1) + i - 1 = i + n
      BY <1>1
    <3> QED BY <3>1, <3>2, <3>3
  <2>2. \A i \in 1 .. Len(t) - n : i + n \in 1 .. Len(t)
    BY <1>1
  <2> HIDE DEF tail
  <2>3. Len(t) - n \in Nat
    BY <1>1
  <2> QED BY <1>1, <2>1, <2>2, <2>3
<1> HIDE DEF head, tail
<1>5. /\ u \in Seq(Symbol) /\ Len(u) = Len(t) + 1
  BY <1>1, <1>3, <1>4
<1>6. DOMAIN u = 1 .. Len(t) + 1
  BY <1>5
<1>7. \A i \in 1 .. n : u[i] = t[i]
  BY <1>1, <1>3, <1>4
<1>8. u[n + 1] = s
  BY <1>1, <1>3, <1>4
<1>9. \A i \in 1 .. Len(t) - n : u[n + 1 + i] = t[i + n]
  <2> DEFINE front == head \o <<s>>
  <2>1. front \in Seq(Symbol) /\ Len(front) = n + 1
    BY <1>1, <1>3
  <2> HIDE DEF front
  <2>2. ASSUME NEW i \in 1 .. Len(t) - n PROVE (front \o tail)[n + 1 + i] = t[i + n]
    <3>1. n + 1 + i \in 1 .. n + 1 + (Len(t) - n) /\ n + 1 + i > n + 1 /\ n + 1 + i - (n + 1) = i
      BY <1>1
    <3>2. (front \o tail)[n + 1 + i] = tail[n + 1 + i - (n + 1)]
      BY <1>1, <1>4, <2>1, <3>1, ConcatProperties
    <3> QED BY <1>4, <3>1, <3>2
  <2> QED BY <2>2 DEF front
<1> HIDE DEF u
<1>10. ASSUME NEW i \in 1 .. Len(t) + 1
       PROVE  u[i] = IF i <= n THEN t[i] ELSE IF i = n + 1 THEN s ELSE t[i - 1]
  <2>1. CASE i <= n
    BY <1>1, <1>7, <2>1
  <2>2. CASE i = n + 1
    BY <1>1, <1>8, <2>2
  <2>3. CASE i > n + 1
    <3>1. /\ i - (n + 1) \in 1 .. Len(t) - n
          /\ (i - (n + 1)) + n = i - 1
          /\ n + 1 + (i - (n + 1)) = i
      BY <1>1, <2>3
    <3>2. u[i] = t[i - 1]
      BY <1>9, <3>1
    <3> QED BY <1>1, <2>3, <3>2
  <2> QED BY <1>1, <2>1, <2>2, <2>3
<1> QED
  BY <1>2, <1>5, <1>6, <1>10 DEF n, u

LEMMA AddType ==
  ASSUME NEW t \in Seq(Symbol), NEW s \in Symbol PROVE AddSymbol(t, s) \in Seq(Symbol)
BY InsertedType DEF AddSymbol

\* The order by length survives
LEMMA AddOrdered ==
  ASSUME NEW t \in Seq(Symbol), NEW s \in Symbol, Ordered(t)
  PROVE  Ordered(AddSymbol(t, s))
<1> DEFINE n == Before(t, s)
           u == Inserted(t, s)
           length(x) == NameLength[x.name]
<1>1. /\ Len(t) \in Nat /\ DOMAIN t = 1 .. Len(t) /\ n \in 0 .. Len(t)
      /\ \A i \in 1 .. Len(t) : length(t[i]) \in Nat
      /\ length(s) \in Nat
  <2>1. \A x \in Symbol : length(x) \in Nat
    BY NameAssumption DEF Symbol
  <2> QED BY <2>1, BeforeType, LenProperties, ElementOfSeq
<1>2. /\ \A i \in 1 .. n : length(t[i]) >= length(s)
      /\ n < Len(t) => length(t[n + 1]) < length(s)
  <2>1. /\ \A i \in 1 .. n : ~ (length(t[i]) < length(s))
        /\ n < Len(t) => length(t[n + 1]) < length(s)
    BY BeforeType
  <2>2. \A i \in 1 .. n : i \in 1 .. Len(t)
    BY <1>1
  <2> HIDE DEF n, length
  <2> QED BY <1>1, <2>1, <2>2
<1>3. \A i, j \in 1 .. Len(t) : i < j => length(t[i]) >= length(t[j])
  BY <1>1 DEF Ordered
<1>4. \A i \in n + 1 .. Len(t) : length(t[i]) <= length(s)
  <2> HIDE DEF length, n
  <2>1. SUFFICES ASSUME NEW i \in n + 1 .. Len(t) PROVE length(t[i]) <= length(s)
    OBVIOUS
  <2>2. n + 1 \in 1 .. Len(t) /\ i \in 1 .. Len(t) /\ n < Len(t)
    BY <1>1
  <2>3. i = n + 1 \/ n + 1 < i
    BY <1>1
  <2>4. length(t[i]) <= length(t[n + 1])
    BY <1>1, <1>3, <2>2, <2>3
  <2> QED BY <1>1, <1>2, <2>2, <2>4
<1>5. /\ DOMAIN u = 1 .. Len(t) + 1
      /\ \A i \in 1 .. Len(t) + 1 :
           u[i] = IF i <= n THEN t[i] ELSE IF i = n + 1 THEN s ELSE t[i - 1]
  BY InsertedType
<1> HIDE DEF n, u, length
<1>6. ASSUME NEW i \in 1 .. Len(t) + 1, NEW j \in 1 .. Len(t) + 1, i < j
      PROVE  length(u[i]) >= length(u[j])
  <2>1. CASE j <= n
    BY <1>1, <1>3, <1>5, <1>6, <2>1
  <2>2. CASE j = n + 1
    BY <1>1, <1>2, <1>5, <1>6, <2>2
  <2>3. CASE j > n + 1 /\ i <= n
    <3>1. u[i] = t[i] /\ u[j] = t[j - 1] /\ i < j - 1 /\ i \in 1 .. Len(t) /\ j - 1 \in 1 .. Len(t)
      BY <1>1, <1>5, <1>6, <2>3
    <3> QED BY <1>3, <3>1
  <2>4. CASE j > n + 1 /\ i = n + 1
    <3>1. u[i] = s /\ u[j] = t[j - 1] /\ j - 1 \in n + 1 .. Len(t) /\ j - 1 \in 1 .. Len(t)
      BY <1>1, <1>5, <1>6, <2>4
    <3> QED BY <1>1, <1>4, <3>1
  <2>5. CASE j > n + 1 /\ i > n + 1
    <3>1. /\ u[i] = t[i - 1] /\ u[j] = t[j - 1] /\ i - 1 < j - 1
          /\ i - 1 \in 1 .. Len(t) /\ j - 1 \in 1 .. Len(t)
      BY <1>1, <1>5, <1>6, <2>5
    <3> QED BY <1>3, <3>1
  <2> QED BY <1>1, <1>6, <2>1, <2>2, <2>3, <2>4, <2>5
<1>7. Ordered(u)
  BY <1>5, <1>6 DEF Ordered, length
<1> QED
  BY <1>7 DEF AddSymbol, u

\* A name keeps its one address
LEMMA AddOneAddress ==
  ASSUME NEW t \in Seq(Symbol), NEW s \in Symbol, OneAddress(t)
  PROVE  OneAddress(AddSymbol(t, s))
<1>1. CASE Conflicts(t, s)
  BY <1>1 DEF AddSymbol
<1>2. CASE ~ Conflicts(t, s)
  <2> DEFINE n == Before(t, s)
             u == Inserted(t, s)
  <2>1. Len(t) \in Nat /\ DOMAIN t = 1 .. Len(t) /\ n \in 0 .. Len(t)
    BY BeforeType, LenProperties
  <2>2. \A i \in DOMAIN t : t[i].name = s.name => t[i].address = s.address
    <3>1. SUFFICES ASSUME NEW i \in DOMAIN t, t[i].name = s.name PROVE t[i].address = s.address
      OBVIOUS
    <3>2. IsNamed(t, s.name)
      BY <3>1 DEF IsNamed
    <3>3. AddressOf(t, s.name) = s.address
      BY <1>2, <3>2 DEF Conflicts
    <3> QED BY <3>1, <3>2, <3>3, SymbolFound DEF AddressOf, OneAddress
  <2>3. /\ DOMAIN u = 1 .. Len(t) + 1
        /\ \A i \in 1 .. Len(t) + 1 :
             u[i] = IF i <= n THEN t[i] ELSE IF i = n + 1 THEN s ELSE t[i - 1]
    BY InsertedType
  <2> HIDE DEF n, u
  <2>4. \A i \in DOMAIN u : u[i] = s \/ \E k \in DOMAIN t : u[i] = t[k]
    <3>1. SUFFICES ASSUME NEW i \in 1 .. Len(t) + 1
                   PROVE  u[i] = s \/ \E k \in DOMAIN t : u[i] = t[k]
      BY <2>3
    <3>2. CASE i <= n
      BY <2>1, <2>3, <3>2
    <3>3. CASE i = n + 1
      BY <2>1, <2>3, <3>3
    <3>4. CASE i > n + 1
      <4>1. u[i] = t[i - 1] /\ i - 1 \in DOMAIN t
        BY <2>1, <2>3, <3>4
      <4> QED BY <4>1
    <3> QED BY <2>1, <3>2, <3>3, <3>4
  <2>5. OneAddress(u)
    BY <2>2, <2>4 DEF OneAddress
  <2> QED
    BY <1>2, <2>5 DEF AddSymbol, u
<1> QED
  BY <1>1, <1>2

\* A symbol that is no longer than the others, and does not contradict them, goes last
LEMMA AddLast ==
  ASSUME NEW t \in Seq(Symbol), NEW s \in Symbol,
         \A i \in 1 .. Len(t) : /\ ~ (NameLength[t[i].name] < NameLength[s.name])
                                /\ t[i].name = s.name => t[i].address = s.address
  PROVE  AddSymbol(t, s) = Append(t, s)
<1>1. Len(t) \in Nat /\ DOMAIN t = 1 .. Len(t) /\ \A i \in 1 .. Len(t) : t[i] \in Symbol
  BY LenProperties, ElementOfSeq
<1>2. ~ Conflicts(t, s)
  BY <1>1, SymbolFound DEF Conflicts, AddressOf
<1>3. Before(t, s) = Len(t)
  BY <1>1 DEF Before
<1>4. SubSeq(t, 1, Len(t)) = t /\ SubSeq(t, Len(t) + 1, Len(t)) = <<>>
  BY <1>1
<1>5. Inserted(t, s) = t \o <<s>> \o <<>>
  BY <1>3, <1>4 DEF Inserted
<1>6. t \o <<s>> \o <<>> = Append(t, s)
  BY <1>1
<1> QED
  BY <1>2, <1>5, <1>6 DEF AddSymbol

\* The script of a table in order, in which no name has two addresses, makes it again.
\* What the recursion computes is known of the function that it defines, which exists,
\* from the least number at which it is something else.
LEMMA LoadedSame ==
  ASSUME NEW t \in Seq(Symbol), Ordered(t), OneAddress(t)
  PROVE  Loaded(SymbolScript(t)) = [i \in DOMAIN t |-> [t[i] EXCEPT !.line = 0]]
<1> DEFINE L == Len(t)
           script == SymbolScript(t)
           made(n) == MadeSymbol(script[n])
           u == [i \in 1 .. L |-> [t[i] EXCEPT !.line = 0]]
           Is(f) == f = [n \in 0 .. L |-> IF n = 0 THEN <<>> ELSE AddSymbol(f[n - 1], made(n))]
           g == [n \in 0 .. L |-> SubSeq(u, 1, n)]
<1>1. L \in Nat /\ DOMAIN t = 1 .. L /\ \A i \in 1 .. L : t[i] \in Symbol
  BY LenProperties, ElementOfSeq
<1>2. Len(script) = L
  BY <1>1 DEF SymbolScript
<1>3. Loaded(script) = (CHOOSE f : Is(f))[L]
  BY <1>2 DEF Loaded
<1>4. /\ u \in Seq(Symbol) /\ Len(u) = L /\ \A i \in 1 .. L : u[i] = [t[i] EXCEPT !.line = 0]
  <2>1. \A i \in 1 .. L : [t[i] EXCEPT !.line = 0] \in Symbol
    BY <1>1 DEF Symbol
  <2> QED BY <1>1, <2>1
<1>5. \A i \in 1 .. L : made(i) = u[i]
  BY <1>1, <1>4 DEF MadeSymbol, SymbolScript, Symbol
<1>6. \A i \in 1 .. L : u[i].name = t[i].name /\ u[i].address = t[i].address /\ u[i] \in Symbol
  BY <1>1, <1>4 DEF Symbol
<1> HIDE DEF L, script, made, u
<1>7. ASSUME NEW n \in 1 .. L PROVE AddSymbol(SubSeq(u, 1, n - 1), made(n)) = SubSeq(u, 1, n)
  <2>1. /\ SubSeq(u, 1, n - 1) \in Seq(Symbol) /\ Len(SubSeq(u, 1, n - 1)) = n - 1
        /\ \A i \in 1 .. n - 1 : SubSeq(u, 1, n - 1)[i] = u[i]
    BY <1>1, <1>4
  <2>2. ASSUME NEW i \in 1 .. n - 1
        PROVE  /\ ~ (NameLength[u[i].name] < NameLength[u[n].name])
               /\ u[i].name = u[n].name => u[i].address = u[n].address
    <3>1. i \in 1 .. L /\ n \in 1 .. L /\ i < n
      BY <1>1
    <3>2. NameLength[t[i].name] \in Nat /\ NameLength[t[n].name] \in Nat
      BY <1>1, <3>1, NameAssumption DEF Symbol
    <3>3. NameLength[t[i].name] >= NameLength[t[n].name]
      BY <1>1, <3>1 DEF Ordered
    <3>4. t[i].name = t[n].name => t[i].address = t[n].address
      BY <1>1, <3>1 DEF OneAddress
    <3>5. ~ (NameLength[t[i].name] < NameLength[t[n].name])
      BY <3>2, <3>3
    <3> QED BY <1>6, <3>1, <3>4, <3>5
  <2>3. AddSymbol(SubSeq(u, 1, n - 1), u[n]) = Append(SubSeq(u, 1, n - 1), u[n])
    <3> DEFINE p == SubSeq(u, 1, n - 1)
    <3>1. p \in Seq(Symbol) /\ Len(p) = n - 1 /\ u[n] \in Symbol
      BY <1>6, <2>1
    <3>2. \A i \in 1 .. Len(p) : /\ ~ (NameLength[p[i].name] < NameLength[u[n].name])
                                 /\ p[i].name = u[n].name => p[i].address = u[n].address
      BY <2>1, <2>2
    <3> HIDE DEF p
    <3>3. AddSymbol(p, u[n]) = Append(p, u[n])
      BY <3>1, <3>2, AddLast
    <3> QED BY <3>3 DEF p
  <2>4. Append(SubSeq(u, 1, n - 1), u[n]) = SubSeq(u, 1, n)
    BY <1>1, <1>4
  <2> QED BY <1>5, <2>3, <2>4
<1>8. SubSeq(u, 1, 0) = <<>> /\ SubSeq(u, 1, L) = u
  BY <1>1, <1>4
<1>9. Is(g)
  <2>1. \A n \in 1 .. L : n - 1 \in 0 .. L /\ n # 0
    BY <1>1
  <2>2. \A n \in 0 .. L : n = 0 \/ n \in 1 .. L
    BY <1>1
  <2>3. \A n \in 1 .. L : g[n - 1] = SubSeq(u, 1, n - 1)
    BY <2>1
  <2>4. \A n \in 0 .. L : SubSeq(u, 1, n) = IF n = 0 THEN <<>> ELSE AddSymbol(g[n - 1], made(n))
    BY <1>7, <1>8, <2>1, <2>2, <2>3
  <2> QED BY <2>4
<1>10. ASSUME NEW f, Is(f) PROVE f[L] = u
  <2> DEFINE Wrong == {n \in 0 .. L : f[n] # SubSeq(u, 1, n)}
  <2>1. /\ 0 \in 0 .. L => f[0] = <<>>
        /\ \A n \in 0 .. L : n # 0 => f[n] = AddSymbol(f[n - 1], made(n))
    BY <1>10
  <2>2. CASE Wrong # {}
    <3>1. Wrong \subseteq Nat
      BY <1>1
    <3>2. PICK k \in Wrong : \A j \in Wrong : k <= j
      <4> HIDE DEF Wrong
      <4> QED BY <2>2, <3>1, Least
    <3>3. k \in 0 .. L /\ k # 0
      BY <1>1, <1>8, <2>1, <3>2
    <3>4. k \in 1 .. L /\ k - 1 \in 0 .. L /\ ~ (k <= k - 1)
      BY <1>1, <3>3
    <3>5. f[k - 1] = SubSeq(u, 1, k - 1)
      BY <3>2, <3>4
    <3>6. f[k] = SubSeq(u, 1, k)
      BY <1>7, <2>1, <3>3, <3>4, <3>5
    <3> QED BY <3>2, <3>6
  <2>3. CASE Wrong = {}
    <3>1. L \in 0 .. L
      BY <1>1
    <3> QED BY <1>8, <2>3, <3>1
  <2> QED BY <2>2, <2>3
<1> HIDE DEF Is, g
<1>11. Loaded(script) = u
  BY <1>3, <1>9, <1>10
<1> QED
  BY <1>1, <1>11 DEF u, script, L
\* A symbol that is added is named, and nothing is lost or made up
LEMMA AddKeeps ==
  ASSUME NEW t \in Seq(Symbol), NEW s \in Symbol
  PROVE  LET u == AddSymbol(t, s)
         IN  /\ u \in Seq(Symbol)
             /\ \A i \in DOMAIN t : \E j \in DOMAIN u : u[j] = t[i]
             /\ \A j \in DOMAIN u : u[j] = s \/ \E i \in DOMAIN t : u[j] = t[i]
             /\ IsNamed(u, s.name)
<1> DEFINE u == AddSymbol(t, s)
           n == Before(t, s)
<1>1. u \in Seq(Symbol)
  BY AddType
<1>2. CASE Conflicts(t, s)
  <2>1. u = t /\ IsNamed(t, s.name)
    BY <1>2 DEF AddSymbol, Conflicts
  <2> HIDE DEF u
  <2> QED BY <1>1, <2>1 DEF u
<1>3. CASE ~ Conflicts(t, s)
  <2>1. u = Inserted(t, s)
    BY <1>3 DEF AddSymbol
  <2>2. Len(t) \in Nat /\ DOMAIN t = 1 .. Len(t) /\ n \in 0 .. Len(t)
    BY BeforeType, LenProperties
  <2> DEFINE v == Inserted(t, s)
  <2>2a. /\ DOMAIN v = 1 .. Len(t) + 1
         /\ \A i \in 1 .. Len(t) + 1 :
              v[i] = IF i <= n THEN t[i] ELSE IF i = n + 1 THEN s ELSE t[i - 1]
    BY InsertedType
  <2> HIDE DEF u, n
  <2>3. /\ DOMAIN u = 1 .. Len(t) + 1
        /\ \A i \in 1 .. Len(t) + 1 :
             u[i] = IF i <= n THEN t[i] ELSE IF i = n + 1 THEN s ELSE t[i - 1]
    BY <2>1, <2>2a
  <2>4. ASSUME NEW i \in DOMAIN t PROVE \E j \in DOMAIN u : u[j] = t[i]
    <3>1. CASE i <= n
      <4>1. i \in DOMAIN u /\ u[i] = t[i]
        BY <2>2, <2>3, <3>1
      <4> QED BY <4>1
    <3>2. CASE ~ (i <= n)
      <4>1. i + 1 \in DOMAIN u /\ u[i + 1] = t[i]
        BY <2>2, <2>3, <3>2
      <4> QED BY <4>1
    <3> QED BY <3>1, <3>2
  <2>5. ASSUME NEW j \in DOMAIN u PROVE u[j] = s \/ \E i \in DOMAIN t : u[j] = t[i]
    <3>1. CASE j <= n
      <4>1. j \in DOMAIN t /\ u[j] = t[j]
        BY <2>2, <2>3, <3>1
      <4> QED BY <4>1
    <3>2. CASE j = n + 1
      BY <2>2, <2>3, <3>2
    <3>3. CASE j > n + 1
      <4>1. j - 1 \in DOMAIN t /\ u[j] = t[j - 1]
        BY <2>2, <2>3, <3>3
      <4> QED BY <4>1
    <3> QED BY <2>2, <2>3, <3>1, <3>2, <3>3
  <2>6. IsNamed(u, s.name)
    <3>1. n + 1 \in DOMAIN u /\ u[n + 1] = s
      BY <2>2, <2>3
    <3> QED BY <3>1 DEF IsNamed
  <2> QED BY <1>1, <2>4, <2>5, <2>6 DEF u
<1> QED
  BY <1>2, <1>3

\* What a table that holds all symbols of another, and gives no name two addresses, says
\* of the names of the other
LEMMA NamedTwice ==
  ASSUME NEW t \in Seq(Symbol), NEW u \in Seq(Symbol), OneAddress(u),
         \A i \in DOMAIN t : \E j \in DOMAIN u : u[j] = t[i],
         NEW name, IsNamed(t, name)
  PROVE  IsNamed(u, name) /\ AddressOf(u, name) = AddressOf(t, name)
<1>1. PICK i \in DOMAIN t : i = SymbolForString(t, name)
  BY SymbolFound
<1>2. t[i].name = name /\ t[i].address = AddressOf(t, name)
  BY <1>1, SymbolFound DEF AddressOf
<1>3. PICK j \in DOMAIN u : u[j] = t[i]
  BY <1>1
<1>4. IsNamed(u, name)
  BY <1>2, <1>3 DEF IsNamed
<1>5. PICK k \in DOMAIN u : k = SymbolForString(u, name)
  BY <1>4, SymbolFound
<1>6. u[k].name = name /\ u[k].address = AddressOf(u, name)
  BY <1>4, <1>5, SymbolFound DEF AddressOf
<1>7. u[k].address = u[j].address
  BY <1>2, <1>3, <1>6 DEF OneAddress
<1> QED
  BY <1>2, <1>3, <1>4, <1>6, <1>7

-----------------------------------------------------------------------------
(* A line of code *)

\* Every opcode in the table is a byte
LEMMA EncodingType ==
  ASSUME NEW op \in Mnemonic, NEW mode \in DOMAIN Encoding[op]
  PROVE  Encoding[op][mode] \in Byte
BY EveryOpcodeFits DEF Fits

LEMMA LengthOfModeType == \A mode \in Mode : LengthOfMode[mode] \in 1 .. 3
BY DEF LengthOfMode

LEMMA ModeType == ASSUME NEW op, NEW o \in Operand PROVE AddressMode(op, o) \in Mode
BY DEF AddressMode, Mode, Operand, Shape

\* The instructions that take their opcode from the implied mode have one
LEMMA ImpliedType ==
  \A op \in (SingleByte \cup Stack) \ {"tya", "jsr"} : Encoding[op].imp \in Byte
BY DEF SingleByte, Stack, Encoding, Byte

LEMMA OpcodesType == ASSUME NEW op, NEW mode PROVE Opcodes(op, mode) \subseteq Byte
<1>1. Encoding.dey.imp \in Byte /\ Encoding.jsr.abs \in Byte
  BY DEF Encoding, Byte
<1>2. ASSUME op \in Moded, mode \in DOMAIN Encoding[op] PROVE Encoding[op][mode] \in Byte
  BY <1>2, EncodingType DEF Moded
<1> QED
  BY <1>1, <1>2, ImpliedType, Zenon DEF Opcodes

LEMMA ValueType ==
  ASSUME NEW n \in Word, NEW wide \in BOOLEAN, NEW mark \in {"", "*", "#"}
  PROVE  Value(n, wide, mark) \in Token
BY DEF Value, Token

LEMMA TokenType == ASSUME NEW t \in Token PROVE ValueOf(t) \in Word /\ IsWide(t) \in BOOLEAN
<1>1. 0 \in Word
  BY WordBounds, Words
<1>2. IsValue(t) => t.value \in Word /\ t.wide \in BOOLEAN
  BY DEF IsValue, Token
<1>3. ValueOf(t) \in Word
  BY <1>1, <1>2 DEF ValueOf
<1>4. IsWide(t) \in BOOLEAN
  <2>1. (t.name \in HexNames) \in BOOLEAN
    OBVIOUS
  <2>2. CASE IsValue(t)
    BY <1>2, <2>2, Zenon DEF IsWide
  <2>3. CASE ~ IsValue(t)
    BY <2>1, <2>3, Zenon DEF IsWide
  <2> QED BY <2>2, <2>3
<1> QED
  BY <1>3, <1>4

\* What takes the place of a name is a value
LEMMA AddressTokenType ==
  ASSUME NEW mode \in Mode, NEW a \in Word, NEW offset \in Word
  PROVE  AddressToken(mode, a, offset) \in Token
<1> DEFINE distance == (a - (offset + LengthOfMode[mode])) % 256
<1>1. a \in Int /\ offset \in Int /\ LengthOfMode[mode] \in Int
  BY WordBounds, LengthOfModeType
<1>2. distance \in Word /\ a % 256 \in Word
  <2>1. a - (offset + LengthOfMode[mode]) \in Int
    BY <1>1
  <2> QED BY <1>1, <2>1, ByteType
<1> HIDE DEF distance
<1>3. /\ Value(a, FALSE, "*") \in Token /\ Value(a, TRUE, "") \in Token
      /\ Value(distance, FALSE, "") \in Token /\ Value(a % 256, FALSE, "") \in Token
  BY <1>2, ValueType
<1> QED
  BY <1>3 DEF AddressToken, distance

LEMMA OperandType ==
  ASSUME NEW o \in Operand
  PROVE  /\ o \in [shape : Shape, terms : Seq(Token), operator : {"", "+", "-"}]
         /\ o.terms \in Seq(Token) /\ \A i \in 1 .. Len(o.terms) : o.terms[i] \in Token
         /\ o.shape \in {"none", "A"} => o.terms = <<>> /\ o.operator = ""
         /\ o.shape \notin {"none", "A"} => Len(o.terms) = IF o.operator = "" THEN 1 ELSE 2
<1>1. /\ o \in [shape : Shape, terms : Seq(Token), operator : {"", "+", "-"}]
      /\ o.shape \in {"none", "A"} => o.terms = <<>> /\ o.operator = ""
      /\ o.shape \notin {"none", "A"} => Len(o.terms) = IF o.operator = "" THEN 1 ELSE 2
  BY Zenon DEF Operand
<1>2. o.terms \in Seq(Token)
  BY <1>1
<1> QED
  BY <1>1, <1>2, ElementOfSeq

LEMMA DesymbolicateType ==
  ASSUME NEW t \in Seq(Symbol), NEW op, NEW o \in Operand, NEW offset \in Word
  PROVE  Desymbolicate(t, op, o, offset) \in Operand
<1> DEFINE mode == AddressMode(op, o)
           replaced(x) == IF ~ IsValue(x) /\ IsNamed(t, x.name)
                          THEN AddressToken(mode, AddressOf(t, x.name), offset) ELSE x
           terms == [i \in DOMAIN o.terms |-> replaced(o.terms[i])]
<1>1. o.terms \in Seq(Token) /\ \A i \in 1 .. Len(o.terms) : o.terms[i] \in Token
  BY OperandType
<1>2. Len(o.terms) \in Nat /\ DOMAIN o.terms = 1 .. Len(o.terms)
  BY <1>1, LenProperties
<1>3. \A x \in Token : replaced(x) \in Token
  BY ModeType, SymbolFound, AddressTokenType
<1> HIDE DEF replaced
<1>4. terms \in Seq(Token) /\ Len(terms) = Len(o.terms)
  <2>1. \A i \in 1 .. Len(o.terms) : replaced(o.terms[i]) \in Token
    BY <1>1, <1>3
  <2>2. terms = [i \in 1 .. Len(o.terms) |-> replaced(o.terms[i])]
    BY <1>2
  <2> HIDE DEF terms
  <2> QED BY <1>2, <2>1, <2>2
<1> HIDE DEF terms
<1>5. o.terms = <<>> => terms = <<>>
  BY <1>1, <1>4, EmptySeq, Zenon
<1> DEFINE p == [o EXCEPT !.terms = terms]
<1>6. /\ p \in [shape : Shape, terms : Seq(Token), operator : {"", "+", "-"}]
      /\ p.shape = o.shape /\ p.terms = terms /\ p.operator = o.operator
  BY <1>4, OperandType
<1>7. p \in Operand
  BY <1>4, <1>5, <1>6, OperandType DEF Operand
<1> QED
  BY <1>7 DEF Desymbolicate, terms, replaced

LEMMA ResultTokenType ==
  ASSUME NEW n \in Word, NEW wide \in BOOLEAN PROVE ResultToken(n, wide) \in Token
<1>1. 0 \in Word
  BY WordBounds, Words
<1>2. (n >= 256) \in BOOLEAN
  OBVIOUS
<1>3. /\ Value(n, TRUE, "") \in Token /\ Value(0, FALSE, "") \in Token
      /\ Value(n, n >= 256, "*") \in Token /\ Value(0, FALSE, "*") \in Token
  BY <1>1, <1>2, ValueType
<1> DEFINE longer == IF n >= 4096 THEN Value(n, TRUE, "") ELSE Value(0, FALSE, "")
           short  == IF n >= 16 THEN Value(n, n >= 256, "*") ELSE Value(0, FALSE, "*")
<1>4. longer \in Token /\ short \in Token
  <2> DEFINE long == Value(n, TRUE, "")        zero == Value(0, FALSE, "")
             page == Value(n, n >= 256, "*")   none == Value(0, FALSE, "*")
  <2>1. long \in Token /\ zero \in Token /\ page \in Token /\ none \in Token
    BY <1>3
  <2> HIDE DEF long, zero, page, none
  <2>2. (IF n >= 4096 THEN long ELSE zero) \in Token
    BY <2>1
  <2>3. (IF n >= 16 THEN page ELSE none) \in Token
    BY <2>1
  <2> QED BY <2>2, <2>3 DEF long, zero, page, none
<1>5. ResultToken(n, wide) = IF wide THEN longer ELSE short
  BY DEF ResultToken
<1> HIDE DEF longer, short
<1>6. CASE wide = TRUE
  BY <1>4, <1>5, <1>6
<1>7. CASE wide = FALSE
  BY <1>4, <1>5, <1>7
<1> QED
  BY <1>6, <1>7

LEMMA ResolveType == ASSUME NEW o \in Operand PROVE ResolveArithmetic(o) \in Operand
<1>1. CASE o.operator = "" \/ ~ IsValue(o.terms[1])
  BY <1>1 DEF ResolveArithmetic
<1>2. CASE ~ (o.operator = "" \/ ~ IsValue(o.terms[1]))
  <2> DEFINE a == ValueOf(o.terms[1])
             b == ValueOf(o.terms[2])
             n == (IF o.operator = "+" THEN a + b ELSE a - b) % WordCount
             wide == IsWide(o.terms[1]) \/ IsWide(o.terms[2])
  <2>1. /\ o \in [shape : Shape, terms : Seq(Token), operator : {"", "+", "-"}]
        /\ o.shape \notin {"none", "A"} /\ Len(o.terms) = 2
    BY <1>2, OperandType
  <2>2. o.terms[1] \in Token /\ o.terms[2] \in Token
    <3>1. Len(o.terms) = 2
      BY <2>1, Zenon
    <3>2. 1 \in 1 .. Len(o.terms) /\ 2 \in 1 .. Len(o.terms)
      BY <3>1
    <3> QED BY <3>2, OperandType, Zenon
  <2>3. a \in Int /\ b \in Int
    BY <2>2, TokenType, WordBounds
  <2>4. n \in Word
    <3> HIDE DEF a, b
    <3>1. (IF o.operator = "+" THEN a + b ELSE a - b) \in Int
      BY <2>3
    <3> QED BY <3>1, WordType
  <2> HIDE DEF n
  <2>5. wide \in BOOLEAN
    BY Zenon
  <2> HIDE DEF wide
  <2>6. ResultToken(n, wide) \in Token
    BY <2>4, <2>5, ResultTokenType
  <2> DEFINE result == ResultToken(n, wide)
  <2> HIDE DEF result
  <2>7. /\ <<result>> \in Seq(Token) /\ Len(<<result>>) = 1
    BY <2>6 DEF result
  <2> DEFINE q == [o EXCEPT !.operator = "", !.terms = <<result>>]
  <2>9. /\ q \in [shape : Shape, terms : Seq(Token), operator : {"", "+", "-"}]
        /\ q.shape = o.shape /\ q.operator = "" /\ q.terms = <<result>>
    BY <2>1, <2>7
  <2>8. q \in Operand
    BY <2>1, <2>7, <2>9 DEF Operand
  <2>10. ResolveArithmetic(o) = q
    BY <1>2, Zenon DEF ResolveArithmetic, n, wide, result
  <2> QED
    BY <2>8, <2>10
<1> QED
  BY <1>1, <1>2

LEMMA EncodedType ==
  ASSUME NEW t \in Seq(Symbol), NEW op, NEW o \in Operand, NEW offset \in Word
  PROVE  /\ Encoded(t, op, o, offset) \in Operand
         /\ AddressMode(op, Encoded(t, op, o, offset)) \in Mode
         /\ LineLength(t, op, o, offset) \in 1 .. 3
<1>1. Encoded(t, op, o, offset) \in Operand
  BY DesymbolicateType, ResolveType DEF Encoded
<1> QED
  BY <1>1, ModeType, LengthOfModeType DEF LineLength

\* An instruction is one to three bytes
LEMMA LineBytesType ==
  ASSUME NEW t \in Seq(Symbol), NEW op, NEW o \in Operand, NEW offset \in Word
  PROVE  /\ LineBytes(t, op, o, offset) \in Seq(Byte)
         /\ Len(LineBytes(t, op, o, offset)) = LineLength(t, op, o, offset)
<1> DEFINE encoded == Encoded(t, op, o, offset)
           mode    == AddressMode(op, encoded)
           opcodes == Opcodes(op, mode)
           opcode  == IF opcodes = {} THEN Encoding.nop.imp ELSE CHOOSE c \in opcodes : TRUE
           values  == FirstValue(encoded)
           n       == IF values = <<>> THEN 0 ELSE values[1].value
           k       == LengthOfMode[mode]
<1>1. encoded \in Operand /\ mode \in Mode /\ k \in 1 .. 3
  BY EncodedType, LengthOfModeType
<1>2. opcode \in Byte
  <2>1. Encoding.nop.imp \in Byte
    BY DEF Encoding, Byte
  <2> QED BY <2>1, OpcodesType
<1>3. n \in Word
  <2> DEFINE hits == {i \in DOMAIN encoded.terms : IsValue(encoded.terms[i])}
             first == CHOOSE i \in hits : \A j \in hits : i <= j
  <2>0. /\ Len(encoded.terms) \in Nat /\ DOMAIN encoded.terms = 1 .. Len(encoded.terms)
        /\ \A i \in 1 .. Len(encoded.terms) : encoded.terms[i] \in Token
    <3> HIDE DEF encoded
    <3> QED BY <1>1, OperandType, LenProperties
  <2>1. 0 \in Word
    BY WordBounds, Words
  <2>2. CASE hits = {}
    <3>1. values = <<>>
      BY <2>2 DEF FirstValue
    <3> QED BY <2>1, <3>1
  <2>3. CASE hits # {}
    <3>1. values = <<encoded.terms[first]>>
      BY <2>3, Zenon DEF FirstValue
    <3>2. first \in hits
      <4>1. hits \subseteq Nat
        <5>1. DOMAIN encoded.terms \subseteq Nat
          BY <2>0
        <5> QED BY <5>1
      <4> HIDE DEF hits
      <4> QED BY <2>3, <4>1, Least
    <3>3. encoded.terms[first] \in Token /\ IsValue(encoded.terms[first])
      BY <2>0, <3>2
    <3> HIDE DEF first, encoded
    <3>4. n = encoded.terms[first].value
      <4> HIDE DEF values
      <4> QED BY <3>1
    <3> QED BY <3>3, <3>4 DEF Token, IsValue
  <2> QED BY <2>2, <2>3
<1> HIDE DEF opcode, n, k
<1>4. n % 256 \in Byte /\ n \div 256 \in Byte
  BY <1>3, WordOfBytes
<1>5. /\ <<opcode, n % 256, n \div 256>> \in Seq(Byte)
      /\ Len(<<opcode, n % 256, n \div 256>>) = 3
  BY <1>2, <1>4
<1> DEFINE bytes == <<opcode, n % 256, n \div 256>>
<1> HIDE DEF bytes
<1>6. SubSeq(bytes, 1, k) \in Seq(Byte) /\ Len(SubSeq(bytes, 1, k)) = k
  BY <1>1, <1>5 DEF bytes
<1>7. LineBytes(t, op, o, offset) = SubSeq(bytes, 1, k)
  BY Zenon DEF LineBytes, bytes, opcode, n, k
<1>8. LineLength(t, op, o, offset) = k
  BY Zenon DEF LineLength, k
<1> QED
  BY <1>6, <1>7, <1>8

-----------------------------------------------------------------------------
(* The lengths of the two passes *)

LEMMA OneTuple ==
  ASSUME NEW s, NEW x, s = <<x>> PROVE DOMAIN s = {1} /\ s[1] = x
<1>1. Len(s) = 1 /\ s[1] = x /\ DOMAIN s = 1 .. 1
  OBVIOUS
<1>2. 1 .. 1 = {1}
  OBVIOUS
<1> QED
  BY <1>1, <1>2

LEMMA SequenceOfOne ==
  ASSUME NEW S, NEW s \in Seq(S), Len(s) = 1 PROVE s = <<s[1]>>
<1>1. 1 \in 1 .. Len(s)
  OBVIOUS
<1>2. s[1] \in S
  BY <1>1, ElementOfSeq
<1>3. <<s[1]>> \in Seq(S) /\ Len(<<s[1]>>) = 1 /\ <<s[1]>>[1] = s[1]
  BY <1>2
<1>4. \A i \in 1 .. Len(s) : s[i] = <<s[1]>>[i]
  BY <1>3
<1> QED
  BY <1>3, <1>4, SeqEqual

LEMMA FunctionIsSeq ==
  ASSUME NEW S, NEW n \in Nat, NEW s \in [1 .. n -> S] PROVE s \in Seq(S)
OBVIOUS

LEMMA OneLong ==
  ASSUME NEW S, NEW s \in [1 .. 1 -> S] PROVE s \in Seq(S) /\ Len(s) = 1
<1>1. s \in Seq(S)
  BY FunctionIsSeq
<1> QED
  BY <1>1

LEMMA NoTuple == ASSUME NEW s, s = <<>> PROVE DOMAIN s = {}
OBVIOUS

\* Names for what operands look like. The SMT backend knows neither the string of no
\* characters nor those with punctuation: these definitions are left to Zenon.
Alone(o)    == o.operator = ""                     \* no arithmetic
Open(o)     == o.shape \in {",X", ",Y", "plain"}   \* the mode depends on the first term
Closed(o)   == o.shape \in {"none", "A", "()", "(,X)", "(),Y"}
HasTerms(o) == o.shape \notin {"none", "A"}

LEMMA OpenOrClosed ==
  ASSUME NEW o \in Operand
  PROVE  /\ Open(o) \/ Closed(o)
         /\ Open(o) => HasTerms(o)
         /\ HasTerms(o) /\ Alone(o) => Len(o.terms) = 1
<1>1. Open(o) \/ Closed(o)
  <2>1. o.shape \in Shape
    BY Zenon DEF Operand
  <2> QED BY <2>1, Zenon DEF Shape, Open, Closed
<1>2. Open(o) => HasTerms(o)
  BY Zenon DEF Open, HasTerms
<1>3. HasTerms(o) /\ Alone(o) => Len(o.terms) = 1
  BY Zenon DEF Operand, HasTerms, Alone
<1> QED
  BY <1>1, <1>2, <1>3

\* What stands around the terms says the address mode, or leaves it to the first value
LEMMA ModeOfShape ==
  ASSUME NEW op, NEW o, NEW p, Closed(o), p.shape = o.shape
  PROVE  AddressMode(op, p) = AddressMode(op, o)
<1> DEFINE ModeOf_(shape) == CASE shape = "none" -> "imp"
                               [] shape = "A" -> "acc"
                               [] shape = "()" -> "ind"
                               [] shape = "(,X)" -> "indx"
                               [] OTHER -> "indy"
<1>1. ASSUME NEW q, Closed(q) PROVE AddressMode(op, q) = ModeOf_(q.shape)
  BY <1>1, Zenon DEF AddressMode, Closed
<1>2. Closed(p)
  BY Zenon DEF Closed
<1> QED
  BY <1>1, <1>2, Zenon

\* The mode of a term that stands alone
ModeOfTerm(op, shape, x) ==
  IF shape = ",X" THEN IF Marked(x, "*") THEN "zpgx" ELSE "absx"
  ELSE IF shape = ",Y" THEN IF Marked(x, "*") THEN "zpgy" ELSE "absy"
  ELSE IF Marked(x, "#") THEN "imm"
  ELSE IF Marked(x, "*") THEN "zpg"
  ELSE IF IsWide(x) \/ op \notin Branches THEN "abs" ELSE "rel"

\* A value that stands alone is the first
LEMMA FirstOfOne ==
  ASSUME NEW o, NEW x, o.terms = <<x>>, IsValue(x) PROVE FirstValue(o) = <<x>>
<1>1. DOMAIN o.terms = {1} /\ o.terms[1] = x
  BY OneTuple
<1> DEFINE values == {i \in DOMAIN o.terms : IsValue(o.terms[i])}
           first == CHOOSE i \in values : \A j \in values : i <= j
<1>2. values = {1}
  BY <1>1
<1> HIDE DEF values
<1>3. first = 1
  <2>1. 1 \in values /\ \A j \in values : 1 <= j
    BY <1>2
  <2>2. first \in values
    BY <2>1, Zenon
  <2> HIDE DEF first
  <2> QED BY <1>2, <2>2
<1>4. FirstValue(o) = IF values = {} THEN <<>> ELSE <<o.terms[first]>>
  BY Zenon DEF FirstValue, values, first
<1> HIDE DEF first
<1> QED
  BY <1>1, <1>2, <1>3, <1>4

LEMMA ModeOfSingle ==
  ASSUME NEW op, NEW o, NEW x, o.terms = <<x>>, Open(o)
  PROVE  AddressMode(op, o) = ModeOfTerm(op, o.shape, x)
<1>1. DOMAIN o.terms = {1} /\ o.terms[1] = x
  BY OneTuple
<1>2. IsZeropage(o) <=> Marked(x, "*")
  <2>1. CASE IsValue(x)
    <3>3. FirstValue(o) = <<x>>
      BY <2>1, FirstOfOne
    <3>4. DOMAIN FirstValue(o) = {1} /\ FirstValue(o)[1] = x
      BY <3>3, OneTuple
    <3> QED BY <2>1, <3>4 DEF IsZeropage, Marked
  <2>2. CASE ~ IsValue(x)
    <3>1. FirstValue(o) = <<>>
      BY <1>1, <2>2 DEF FirstValue
    <3>2. DOMAIN FirstValue(o) = {}
      BY <3>1, NoTuple
    <3> QED BY <2>2, <3>2 DEF IsZeropage, Marked
  <2> QED BY <2>1, <2>2
<1>3. Marked(x, "#") <=> Marked(o.terms[1], "#")
  BY <1>1
<1> QED
  BY <1>1, <1>2, Zenon DEF AddressMode, ShouldBeReplacedDoubleWidth, ModeOfTerm, Open

\* Only branches are relative, and only to what stands plain
LEMMA RelativeMode ==
  ASSUME NEW op, NEW o \in Operand, AddressMode(op, o) = "rel"
  PROVE  o.shape = "plain" /\ op \in Branches /\ ~ IsWide(o.terms[1])
<1>1. o.shape \in Shape
  BY Zenon DEF Operand
<1> QED
  BY <1>1, Zenon DEF AddressMode, ShouldBeReplacedDoubleWidth, Shape

\* What takes the place of a term
Replacement(t, op, o, x, f) ==
  IF ~ IsValue(x) /\ IsNamed(t, x.name)
  THEN AddressToken(AddressMode(op, o), AddressOf(t, x.name), f) ELSE x

Replaced(t, op, o, f) == [i \in DOMAIN o.terms |-> Replacement(t, op, o, o.terms[i], f)]

LEMMA DesymbolicateIs ==
  ASSUME NEW t, NEW op, NEW o \in Operand, NEW f
  PROVE  Desymbolicate(t, op, o, f)
           = [shape |-> o.shape, terms |-> Replaced(t, op, o, f), operator |-> o.operator]
<1> DEFINE w == Replaced(t, op, o, f)
<1>1. Desymbolicate(t, op, o, f) = [o EXCEPT !.terms = w]
  BY Zenon DEF Desymbolicate, Replacement, Replaced
<1> HIDE DEF w
<1>2. o \in [shape : Shape, terms : Seq(Token), operator : {"", "+", "-"}]
  BY OperandType
<1>3. \A A, B : o \in [shape : Shape, terms : A, operator : B] =>
        [o EXCEPT !.terms = w] = [shape |-> o.shape, terms |-> w, operator |-> o.operator]
  OBVIOUS
<1> QED
  BY <1>1, <1>2, <1>3, Zenon DEF w

\* Neither the look-up of names nor arithmetic changes what stands around the terms
LEMMA EncodedShape ==
  ASSUME NEW t, NEW op, NEW o \in Operand, NEW f
  PROVE  Encoded(t, op, o, f).shape = o.shape
<1> DEFINE d == Desymbolicate(t, op, o, f)
<1>1. d.shape = o.shape /\ DOMAIN d = {"shape", "terms", "operator"}
  <2>1. d = [shape |-> o.shape, terms |-> Replaced(t, op, o, f), operator |-> o.operator]
    BY DesymbolicateIs
  <2> HIDE DEF d
  <2> QED BY <2>1
<1> HIDE DEF d
<1>2. ASSUME NEW e, NEW y, NEW z, DOMAIN e = {"shape", "terms", "operator"}
      PROVE  [e EXCEPT !.operator = y, !.terms = z].shape = e.shape
  BY <1>2
<1>3. ResolveArithmetic(d) = d \/ \E z, y : ResolveArithmetic(d) = [d EXCEPT !.operator = y, !.terms = z]
  BY Zenon DEF ResolveArithmetic
<1>4. ResolveArithmetic(d).shape = d.shape
  BY <1>1, <1>2, <1>3
<1> QED
  BY <1>1, <1>4 DEF Encoded, d

\* What a name alone becomes
LEMMA EncodedSingle ==
  ASSUME NEW t, NEW op, NEW o \in Operand, NEW f, Alone(o), HasTerms(o)
  PROVE  /\ o.terms = <<o.terms[1]>>
         /\ Encoded(t, op, o, f).terms = <<Replacement(t, op, o, o.terms[1], f)>>
         /\ Encoded(t, op, o, f).shape = o.shape
<1> DEFINE v == o.terms
           w == Replaced(t, op, o, f)
           r == Replacement(t, op, o, v[1], f)
           d == Desymbolicate(t, op, o, f)
<1>1. v = <<v[1]>>
  <2>1. v \in Seq(Token) /\ Len(v) = 1
    BY OperandType, OpenOrClosed
  <2> QED BY <2>1, SequenceOfOne, Zenon
<1>2. w = [i \in DOMAIN v |-> Replacement(t, op, o, v[i], f)]
  BY Zenon DEF Replaced
<1>3. d.operator = o.operator /\ d.shape = o.shape /\ d.terms = w
  <2>1. d = [shape |-> o.shape, terms |-> w, operator |-> o.operator]
    BY DesymbolicateIs
  <2> HIDE DEF d, w
  <2> QED BY <2>1
<1>4. Encoded(t, op, o, f) = d
  BY <1>3, Zenon DEF Encoded, ResolveArithmetic, Alone
<1>5. DOMAIN v = {1}
  <2> HIDE DEF v
  <2> QED BY <1>1, OneTuple
<1> DEFINE S == {r}
<1>6. w \in Seq(S) /\ Len(w) = 1 /\ w[1] = r
  <2> HIDE DEF v, w
  <2>1. w = [i \in 1 .. 1 |-> Replacement(t, op, o, v[i], f)]
    <3>1. 1 .. 1 = {1}
      OBVIOUS
    <3> QED BY <1>2, <1>5, <3>1, Zenon
  <2>2. w[1] = r
    BY <2>1
  <2> HIDE DEF r
  <2>3. w \in [1 .. 1 -> {r}]
    <3>1. 1 .. 1 = {1}
      OBVIOUS
    <3>2. \A i \in 1 .. 1 : w[i] = r
      BY <2>2, <3>1
    <3> QED BY <2>1, <3>2, Zenon
  <2> HIDE DEF S
  <2>4. w \in [1 .. 1 -> S]
    BY <2>3, Zenon DEF S
  <2> QED BY <2>2, <2>4, OneLong, Zenon
<1>7. w = <<r>>
  <2> HIDE DEF w, r, S
  <2> QED BY <1>6, SequenceOfOne, Zenon
<1> HIDE DEF w, d
<1> QED
  BY <1>1, <1>3, <1>4, <1>7

LEMMA EncodedTerm ==
  \A t, op, f : \A o \in Operand : Alone(o) /\ HasTerms(o) =>
    Encoded(t, op, o, f).terms = <<Replacement(t, op, o, o.terms[1], f)>>
<1> TAKE t, op, f
<1> TAKE o \in Operand
<1> SUFFICES ASSUME Alone(o), HasTerms(o)
             PROVE  Encoded(t, op, o, f).terms = <<Replacement(t, op, o, o.terms[1], f)>>
  OBVIOUS
<1> QED BY EncodedSingle

\* What table u may know of the names in an operand that table t does not: the names of
\* t keep their addresses; the others stand alone and lie beyond the zero page. No
\* branch takes a sum with a name.
Learns(t, u, op, o) ==
  \A i \in DOMAIN o.terms : ~ IsValue(o.terms[i]) =>
    LET name == o.terms[i].name IN
    /\ IsNamed(t, name) => IsNamed(u, name) /\ AddressOf(u, name) = AddressOf(t, name)
    /\ IsNamed(u, name) /\ ~ IsNamed(t, name) => Alone(o) /\ AddressOf(u, name) > 255
    /\ op \in Branches => Alone(o)

\* A line is as long when it is measured, with names yet unknown, as it is when it is
\* emitted, and at whatever offset
LEMMA LengthStable ==
  ASSUME NEW t \in Seq(Symbol), NEW u \in Seq(Symbol), NEW op, NEW o \in Operand,
         NEW f \in Word, NEW g \in Word, Learns(t, u, op, o)
  PROVE  LineLength(t, op, o, f) = LineLength(u, op, o, g)
<1>0. Alone(o) /\ Open(o) =>
        /\ Encoded(t, op, o, f).terms = <<Replacement(t, op, o, o.terms[1], f)>>
        /\ Encoded(u, op, o, g).terms = <<Replacement(u, op, o, o.terms[1], g)>>
  BY EncodedTerm, OpenOrClosed
<1> DEFINE E == Encoded(t, op, o, f)
           F == Encoded(u, op, o, g)
           mode == AddressMode(op, o)
<1>1. E.shape = o.shape /\ F.shape = o.shape /\ o.shape \in Shape
  <2>1. E.shape = o.shape /\ F.shape = o.shape
    <3>1. \A v, h : Encoded(v, op, o, h).shape = o.shape
      BY EncodedShape
    <3> QED BY <3>1
  <2>2. o.shape \in Shape
    BY OperandType
  <2> QED BY <2>1, <2>2
<1>2. SUFFICES AddressMode(op, E) = AddressMode(op, F)
  BY DEF LineLength
<1>3. CASE Closed(o)
  <2> HIDE DEF E, F
  <2> QED BY <1>1, <1>3, ModeOfShape
<1>4. CASE Open(o) /\ ~ Alone(o)
  <2>1. ASSUME NEW i \in DOMAIN o.terms, ~ IsValue(o.terms[i]) PROVE mode # "rel"
    <3>1. op \notin Branches
      BY <1>4, <2>1 DEF Learns
    <3> QED BY <3>1, RelativeMode
  <2>2. \A a : mode # "rel" => AddressToken(mode, a, f) = AddressToken(mode, a, g)
    BY DEF AddressToken
  <2>3. ASSUME NEW i \in DOMAIN o.terms
        PROVE  Replacement(t, op, o, o.terms[i], f) = Replacement(u, op, o, o.terms[i], g)
    <3> DEFINE y == o.terms[i]
    <3>1. CASE IsValue(y)
      BY <3>1 DEF Replacement
    <3>2. CASE ~ IsValue(y) /\ IsNamed(t, y.name)
      <4>1. IsNamed(u, y.name) /\ AddressOf(u, y.name) = AddressOf(t, y.name) /\ mode # "rel"
        BY <2>1, <3>2 DEF Learns
      <4> QED BY <2>2, <3>2, <4>1, Zenon DEF Replacement
    <3>3. CASE ~ IsValue(y) /\ ~ IsNamed(t, y.name)
      <4>1. ~ IsNamed(u, y.name)
        BY <1>4, <3>3 DEF Learns
      <4> QED BY <3>3, <4>1, Zenon DEF Replacement
    <3> QED BY <3>1, <3>2, <3>3
  <2>4. Replaced(t, op, o, f) = Replaced(u, op, o, g)
    BY <2>3 DEF Replaced
  <2>5. Desymbolicate(t, op, o, f) = Desymbolicate(u, op, o, g)
    BY <2>4, DesymbolicateIs
  <2> QED BY <2>5 DEF Encoded
<1>5. CASE Open(o) /\ Alone(o)
  <2> DEFINE x == o.terms[1]
             r == Replacement(t, op, o, x, f)
             s == Replacement(u, op, o, x, g)
  <2>1. o.terms = <<x>> /\ E.terms = <<r>> /\ F.terms = <<s>>
    <3> HIDE DEF E, F, r, s
    <3>1. Alone(o) /\ Open(o)
      BY <1>5
    <3>2. o.terms = <<x>>
      BY <3>1, EncodedSingle, OpenOrClosed
    <3>3. E.terms = <<r>>
      BY <1>0, <3>1, Zenon DEF E, r, x
    <3>4. F.terms = <<s>>
      BY <1>0, <3>1, Zenon DEF F, s, x
    <3> QED BY <3>2, <3>3, <3>4
  <2>2. 1 \in DOMAIN o.terms
    <3> HIDE DEF x
    <3>1. DOMAIN <<x>> = {1}
      OBVIOUS
    <3> QED BY <2>1, <3>1
  <2> HIDE DEF E, F
  <2>9. Open(E) /\ Open(F)
    BY <1>1, <1>5, Zenon DEF Open
  <2>6. AddressMode(op, E) = ModeOfTerm(op, o.shape, r)
    <3> HIDE DEF r
    <3> QED BY <1>1, <2>1, <2>9, ModeOfSingle
  <2>7. AddressMode(op, F) = ModeOfTerm(op, o.shape, s)
    <3> HIDE DEF s
    <3> QED BY <1>1, <2>1, <2>9, ModeOfSingle
  <2>8. mode = ModeOfTerm(op, o.shape, x)
    <3> HIDE DEF x
    <3> QED BY <1>5, <2>1, ModeOfSingle
  <2> HIDE DEF mode
  <2>3. CASE IsValue(x) \/ (~ IsNamed(t, x.name) /\ ~ IsNamed(u, x.name))
    <3>1. r = x /\ s = x
      BY <2>3, Zenon DEF Replacement
    <3> HIDE DEF r, s, x
    <3> QED BY <2>6, <2>7, <3>1
  <2>4. CASE ~ IsValue(x) /\ IsNamed(u, x.name)
    <3> DEFINE a == AddressOf(u, x.name)
    <3>1. a \in Int
      BY <2>4, SymbolFound, WordBounds
    <3>2. /\ s = AddressToken(mode, a, g)
          /\ IsNamed(t, x.name) => r = AddressToken(mode, a, f)
          /\ ~ IsNamed(t, x.name) => r = x /\ a > 255
      <4>1. /\ IsNamed(t, x.name) => AddressOf(u, x.name) = AddressOf(t, x.name)
            /\ ~ IsNamed(t, x.name) => a > 255
        BY <2>2, <2>4 DEF Learns
      <4> QED BY <2>4, <4>1, Zenon DEF Replacement, mode
    <3>3. ~ Marked(x, "*") /\ ~ Marked(x, "#")
      BY <2>4 DEF Marked
    <3>4. CASE mode = "rel"
      <4>1. op \in Branches /\ ~ IsWide(x) /\ o.shape = "plain"
        BY <3>4, RelativeMode DEF mode
      <4>2. \A h : ModeOfTerm(op, "plain", AddressToken("rel", a, h)) = "rel"
        <5>1. LengthOfMode["rel"] = 2
          BY DEF LengthOfMode, Mode
        <5> QED BY <4>1, <5>1, Zenon DEF AddressToken, Value, IsWide, IsValue, Marked, ModeOfTerm
      <4> HIDE DEF a, r, s, x
      <4>3. AddressMode(op, F) = "rel"
        BY <2>7, <3>2, <3>4, <4>1, <4>2
      <4>4. AddressMode(op, E) = "rel"
        <5>1. CASE IsNamed(t, x.name)
          BY <2>6, <3>2, <3>4, <4>1, <4>2, <5>1
        <5>2. CASE ~ IsNamed(t, x.name)
          BY <2>6, <2>8, <3>2, <3>4, <5>2
        <5> QED BY <5>1, <5>2
      <4> QED BY <4>3, <4>4
    <3>5. CASE mode # "rel" /\ IsNamed(t, x.name)
      <4> HIDE DEF a, r, s, x
      <4>1. r = s
        BY <3>2, <3>5 DEF AddressToken
      <4> QED BY <2>6, <2>7, <4>1
    <3>6. CASE mode # "rel" /\ ~ IsNamed(t, x.name)
      <4>0. a > 255 /\ r = x /\ s = AddressToken(mode, a, g)
        BY <3>2, <3>6
      <4> HIDE DEF a, r, s, x
      <4>1. mode \in {"absx", "absy", "abs"} /\ (mode = "abs" => IsWide(x) \/ op \notin Branches)
        BY <1>5, <2>8, <3>3, <3>6, Zenon DEF ModeOfTerm, Open
      <4>2. ~ (a <= 255)
        <5>1. a \in Int /\ a > 255
          BY <3>1, <4>0
        <5> QED BY <5>1
      <4>3. LengthOfMode[mode] # 2
        <5>1. LengthOfMode["absx"] # 2 /\ LengthOfMode["absy"] # 2 /\ LengthOfMode["abs"] # 2
          BY DEF LengthOfMode, Mode
        <5> QED BY <4>1, <5>1
      <4>4. s = Value(a, TRUE, "")
        BY <4>0, <4>2, <4>3, Zenon DEF AddressToken
      <4>5. IsWide(s) /\ ~ Marked(s, "*") /\ ~ Marked(s, "#")
        BY <4>4, Zenon DEF Value, IsWide, IsValue, Marked
      <4>6. ModeOfTerm(op, o.shape, s) = mode
        BY <1>5, <2>8, <3>3, <3>6, <4>1, <4>5, Zenon DEF ModeOfTerm, Open
      <4> QED BY <2>6, <2>7, <2>8, <4>0, <4>6
    <3> QED BY <3>4, <3>5, <3>6
  <2>5. CASE ~ IsValue(x) /\ IsNamed(t, x.name)
    <3>1. IsNamed(u, x.name)
      BY <2>2, <2>5 DEF Learns
    <3> QED BY <2>4, <2>5, <3>1
  <2> QED BY <2>3, <2>4, <2>5
<1> QED
  BY <1>3, <1>4, <1>5, OpenOrClosed

-----------------------------------------------------------------------------
(* The bytes of a line that takes one name *)

\* What takes the place of a name is one of three
Short(n)  == Value(n, FALSE, "*")
Long(n)   == Value(n, TRUE, "")
Plain(n)  == Value(n, FALSE, "")
Starred(x) == Marked(x, "*")
Hashed(x)  == Marked(x, "#")

LEMMA ValuesAre ==
  /\ \A n : IsValue(Short(n)) /\ Starred(Short(n)) /\ ~ Hashed(Short(n)) /\ ~ IsWide(Short(n))
  /\ \A n : IsValue(Long(n)) /\ ~ Starred(Long(n)) /\ ~ Hashed(Long(n)) /\ IsWide(Long(n))
  /\ \A n : IsValue(Plain(n)) /\ ~ Starred(Plain(n)) /\ ~ Hashed(Plain(n)) /\ ~ IsWide(Plain(n))
  /\ \A n : Short(n).value = n /\ Long(n).value = n /\ Plain(n).value = n
<1>1. \A n, wide, mark : Value(n, wide, mark).value = n
  BY DEF Value
<1>2. \A n : Short(n).value = n /\ Long(n).value = n /\ Plain(n).value = n
  BY <1>1, Zenon DEF Short, Long, Plain
<1>3. \A n : IsValue(Short(n)) /\ Starred(Short(n)) /\ ~ Hashed(Short(n)) /\ ~ IsWide(Short(n))
  BY Zenon DEF Short, Starred, Hashed, Marked, IsWide, IsValue, Value
<1>4. \A n : IsValue(Long(n)) /\ ~ Starred(Long(n)) /\ ~ Hashed(Long(n)) /\ IsWide(Long(n))
  BY Zenon DEF Long, Starred, Hashed, Marked, IsWide, IsValue, Value
<1>5. \A n : IsValue(Plain(n)) /\ ~ Starred(Plain(n)) /\ ~ Hashed(Plain(n)) /\ ~ IsWide(Plain(n))
  BY Zenon DEF Plain, Starred, Hashed, Marked, IsWide, IsValue, Value
<1> QED
  BY <1>2, <1>3, <1>4, <1>5

\* Which, by the mode of the line with the name in it
LEMMA TokenIs ==
  ASSUME NEW mode, NEW a, NEW f, NEW r, r = AddressToken(mode, a, f)
  PROVE  /\ IsValue(r) /\ ~ Hashed(r)
         /\ LengthOfMode[mode] # 2 => r.value = a /\ (Starred(r) \/ IsWide(r))
         /\ LengthOfMode[mode] = 2 => ~ Starred(r) /\ ~ IsWide(r)
         /\ LengthOfMode[mode] = 2 /\ mode = "rel" => r.value = (a - (f + LengthOfMode[mode])) % 256
         /\ LengthOfMode[mode] = 2 /\ mode # "rel" => r.value = a % 256
<1> DEFINE n == LengthOfMode[mode]
           d == (a - (f + n)) % 256
           e == a % 256
<1>1. r = IF n # 2 THEN IF a <= 255 THEN Short(a) ELSE Long(a)
          ELSE IF mode = "rel" THEN Plain(d) ELSE Plain(e)
  BY Zenon DEF AddressToken, Short, Long, Plain
<1> HIDE DEF n, d, e
<1>2. /\ IsValue(r) /\ ~ Hashed(r)
      /\ n # 2 => r.value = a /\ (Starred(r) \/ IsWide(r))
      /\ n = 2 => ~ Starred(r) /\ ~ IsWide(r)
      /\ n = 2 /\ mode = "rel" => r.value = d
      /\ n = 2 /\ mode # "rel" => r.value = e
  BY <1>1, ValuesAre
<1> QED
  BY <1>2 DEF n, d, e

\* A branch that is not in error is relative
LEMMA BranchMode ==
  ASSUME NEW op \in Branches, NEW mode, Opcodes(op, mode) # {}
  PROVE  mode = "rel"
<1>1. \A b \in Branches : DOMAIN Encoding[b] = {"rel"}
  BY DEF Branches, Encoding
<1>2. \A b \in Branches : b # "tya" /\ b # "jsr" /\ b \notin (SingleByte \cup Stack) \ {"tya", "jsr"}
  BY DEF Branches, SingleByte, Stack
<1> QED
  BY <1>1, <1>2, Zenon DEF Opcodes

WideModes == {"abs", "absx", "absy", "ind"}

LEMMA Lengths ==
  /\ \A mode \in WideModes : LengthOfMode[mode] = 3
  /\ \A mode \in {"zpg", "zpgx", "zpgy", "imm", "rel", "indx", "indy"} : LengthOfMode[mode] = 2
BY DEF LengthOfMode, Mode, WideModes

\* The modes of a line before and after its one name is replaced
LEMMA NameModes ==
  ASSUME NEW op, NEW o \in Operand, Alone(o), HasTerms(o), NEW e,
         NEW x, o.terms = <<x>>, ~ IsValue(x),
         NEW a, NEW f, e.terms = <<AddressToken(AddressMode(op, o), a, f)>>, e.shape = o.shape
  PROVE  LET m == AddressMode(op, o)
             n == AddressMode(op, e)
         IN  /\ LengthOfMode[n] \in {2, 3}
             /\ n = "rel" => m = "rel"
             /\ m = "rel" => op \in Branches /\ n = "rel"
             /\ LengthOfMode[m] = 2 => LengthOfMode[n] = 2
<1> DEFINE m == AddressMode(op, o)
           n == AddressMode(op, e)
           r == AddressToken(m, a, f)
<1>1. ~ Starred(x) /\ ~ Hashed(x)
  BY Zenon DEF Marked, Starred, Hashed
<1>2. e.terms = <<r>>
  OBVIOUS
<1>3. /\ ~ Hashed(r)
      /\ LengthOfMode[m] # 2 => Starred(r) \/ IsWide(r)
      /\ LengthOfMode[m] = 2 => ~ Starred(r) /\ ~ IsWide(r)
  BY TokenIs
<1> HIDE DEF r
<1>4. CASE Closed(o)
  <2>1. m = n
    BY <1>4, ModeOfShape
  <2>2. m \in {"ind", "indx", "indy"}
    BY <1>4, Zenon DEF AddressMode, Closed, HasTerms
  <2>3. LengthOfMode[m] \in {2, 3} /\ m # "rel"
    BY <2>2, Lengths DEF WideModes
  <2> QED BY <2>1, <2>3
<1>5. CASE Open(o)
  <2>1. Open(e)
    BY <1>5, Zenon DEF Open
  <2>2. m = ModeOfTerm(op, o.shape, x)
    BY <1>5, ModeOfSingle
  <2>3. n = ModeOfTerm(op, o.shape, r)
    BY <1>2, <2>1, ModeOfSingle
  <2> HIDE DEF m, n
  <2>4. m \in {"abs", "absx", "absy", "rel"} /\ (m = "rel" => op \in Branches /\ o.shape = "plain")
    BY <1>1, <1>5, <2>2, Zenon DEF ModeOfTerm, Starred, Hashed, Open
  <2>5. n \in {"abs", "absx", "absy", "zpg", "zpgx", "zpgy", "rel"}
        /\ (n = "rel" => ~ Starred(r) /\ ~ IsWide(r))
    BY <1>3, <1>5, <2>3, Zenon DEF ModeOfTerm, Starred, Hashed, Open
  <2>6. LengthOfMode[n] \in {2, 3}
    BY <2>5, Lengths DEF WideModes
  <2>7. CASE m = "rel"
    <3>1. ~ Starred(r) /\ ~ IsWide(r)
      BY <1>3, <2>7, Lengths
    <3>2. n = "rel"
      BY <1>3, <2>3, <2>4, <2>7, <3>1, Zenon DEF ModeOfTerm, Starred, Hashed
    <3> QED BY <2>4, <2>6, <2>7, <3>2, Lengths DEF m, n
  <2>8. CASE m # "rel"
    <3>1. LengthOfMode[m] = 3
      BY <2>4, <2>8, Lengths DEF WideModes
    <3>2. n # "rel"
      BY <1>3, <2>5, <3>1
    <3> QED BY <2>6, <2>8, <3>1, <3>2 DEF m, n
  <2> QED BY <2>7, <2>8
<1> QED
  BY <1>4, <1>5, OpenOrClosed

LEMMA ShortOne ==
  ASSUME NEW x, NEW y, NEW z, NEW k \in {2, 3}
  PROVE  LET s == SubSeq(<<x, y, z>>, 1, k)
         IN  Len(s) = k /\ s[2] = y /\ (k = 3 => s[3] = z)
OBVIOUS

\* A branch holds the distance to what its name stands for, from behind it; every other
\* line the address, or its low byte
LEMMA NameBytes ==
  ASSUME NEW t \in Seq(Symbol), NEW op, NEW o \in Operand, NEW f \in Word,
         Alone(o), HasTerms(o), ~ IsValue(o.terms[1]), IsNamed(t, o.terms[1].name),
         ~ IsError(t, op, o, f)
  PROVE  LET a     == AddressOf(t, o.terms[1].name)
             bytes == LineBytes(t, op, o, f)
         IN  /\ op \in Branches => Len(bytes) = 2 /\ bytes[2] = (a - (f + 2)) % 256
             /\ op \notin Branches => bytes[2] = a % 256
             /\ Len(bytes) = 3 => bytes[3] = a \div 256
<1> DEFINE x == o.terms[1]
           a == AddressOf(t, x.name)
           m == AddressMode(op, o)
           r == AddressToken(m, a, f)
           E == Encoded(t, op, o, f)
           n == AddressMode(op, E)
           k == LengthOfMode[n]
           v == r.value
           opcodes == Opcodes(op, n)
           opcode == IF opcodes = {} THEN Encoding.nop.imp ELSE CHOOSE c \in opcodes : TRUE
<1>1. Replacement(t, op, o, x, f) = r
  BY Zenon DEF Replacement
<1>2. o.terms = <<x>> /\ E.terms = <<Replacement(t, op, o, x, f)>> /\ E.shape = o.shape
  <2>1. E.terms = <<Replacement(t, op, o, x, f)>>
    BY EncodedTerm, Zenon
  <2>2. o.terms = <<x>>
    <3>1. o.terms \in Seq(Token) /\ Len(o.terms) = 1
      BY OperandType, OpenOrClosed
    <3> QED BY <3>1, SequenceOfOne, Zenon
  <2>3. E.shape = o.shape
    BY EncodedShape
  <2> QED BY <2>1, <2>2, <2>3
<1>3. E.terms = <<r>>
  BY <1>1, <1>2
<1>4. /\ k \in {2, 3} /\ (n = "rel" => m = "rel") /\ (m = "rel" => op \in Branches /\ n = "rel")
      /\ LengthOfMode[m] = 2 => k = 2
  <2> HIDE DEF E, x
  <2> QED BY <1>2, <1>3, NameModes DEF x
<1>5. /\ IsValue(r)
      /\ LengthOfMode[m] # 2 => v = a
      /\ LengthOfMode[m] = 2 /\ m = "rel" => v = (a - (f + LengthOfMode[m])) % 256
      /\ LengthOfMode[m] = 2 /\ m # "rel" => v = a % 256
  BY TokenIs
<1>6. FirstValue(E) = <<r>>
  <2> HIDE DEF E, r
  <2> QED BY <1>3, <1>5, FirstOfOne
<1>7. (IF FirstValue(E) = <<>> THEN 0 ELSE FirstValue(E)[1].value) = v
  <2>1. \A y : <<y>> # <<>> /\ <<y>>[1] = y
    OBVIOUS
  <2> HIDE DEF r
  <2> QED BY <1>6, <2>1, Zenon
<1>8. LineBytes(t, op, o, f) = SubSeq(<<opcode, v % 256, v \div 256>>, 1, k)
  <2> DEFINE w == IF FirstValue(E) = <<>> THEN 0 ELSE FirstValue(E)[1].value
  <2>1. LineBytes(t, op, o, f) = SubSeq(<<opcode, w % 256, w \div 256>>, 1, k)
    BY Zenon DEF LineBytes
  <2>2. w = v
    BY <1>7
  <2> HIDE DEF w, v, opcode, k
  <2> QED BY <2>1, <2>2
<1>9. a \in Int /\ a \in Word
  BY SymbolFound, WordBounds
<1>10. f \in Int
  BY WordBounds
<1> DEFINE bytes == LineBytes(t, op, o, f)
<1> HIDE DEF x, a, E, k, v, opcode, r, bytes
<1>11. /\ Len(bytes) = k /\ bytes[2] = v % 256 /\ (k = 3 => bytes[3] = v \div 256)
  <2> DEFINE low == v % 256
             high == v \div 256
  <2>1. bytes = SubSeq(<<opcode, low, high>>, 1, k) /\ k \in {2, 3}
    BY <1>4, <1>8 DEF bytes
  <2> HIDE DEF low, high
  <2>2. Len(bytes) = k /\ bytes[2] = low /\ (k = 3 => bytes[3] = high)
    BY <2>1, ShortOne
  <2> QED BY <2>2 DEF low, high
<1>12. LengthOfMode["rel"] = 2
  BY Lengths
<1>13. ASSUME op \in Branches PROVE Len(bytes) = 2 /\ bytes[2] = (a - (f + 2)) % 256
  <2>1. Opcodes(op, n) # {}
    BY DEF IsError, E
  <2>2. n = "rel"
    BY <1>13, <2>1, BranchMode
  <2>3. m = "rel"
    BY <1>4, <2>2
  <2>4. k = 2
    BY <1>12, <2>2 DEF k
  <2> DEFINE d == a - (f + 2)
  <2>5. v = d % 256
    BY <1>5, <1>12, <2>3
  <2>6. d \in Int
    BY <1>9, <1>10
  <2> HIDE DEF d
  <2>7. v % 256 = d % 256
    BY <2>5, <2>6
  <2> QED BY <1>11, <2>4, <2>7 DEF d
<1>14. ASSUME op \notin Branches PROVE bytes[2] = a % 256
  <2>1. m # "rel"
    BY <1>4, <1>14
  <2>2. v = a \/ v = a % 256
    BY <1>5, <2>1
  <2>3. v % 256 = a % 256
    BY <1>9, <2>2
  <2> QED BY <1>11, <2>3
<1>15. ASSUME Len(bytes) = 3 PROVE bytes[3] = a \div 256
  <2>1. k = 3
    BY <1>11, <1>15
  <2>2. v = a
    BY <1>4, <1>5, <2>1
  <2> QED BY <1>11, <2>1, <2>2
<1> QED
  BY <1>13, <1>14, <1>15 DEF a, x, bytes

-----------------------------------------------------------------------------
(* Lines *)

LEMMA BodyType ==
  ASSUME NEW b \in Body
  PROVE  /\ b.kind = "org" => b.start \in Word
         /\ b.kind = "byte" => b.value \in Token
         /\ b.kind = "asciiz" => b.text \in Seq(Byte)
         /\ b.kind = "variable" => b.name \in Name /\ b.value \in Token
         /\ b.kind = "code" => b.op \in Mnemonic /\ b.operand \in Operand
BY DEF Body, Blank, End

=============================================================================
