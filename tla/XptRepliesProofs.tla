-------------------------- MODULE XptRepliesProofs --------------------------
(***************************************************************************)
(* Proofs about XptReplies, for any number of miners, every number of      *)
(* workloads they ask for and every size of the send buffer that holds an  *)
(* answer.  The first part is about the packet buffer alone: what a list   *)
(* of fields, of any length, leaves in it.                                 *)
(***************************************************************************)
EXTENDS XptReplies, SequenceTheorems, FiniteSetTheorems, WellFoundedInduction, TLAPS

-----------------------------------------------------------------------------
(* Induction over the natural numbers. *)
LEMMA Induction == ASSUME NEW S, 0 \in S, \A n \in Nat : n \in S => n + 1 \in S
                   PROVE  Nat \subseteq S
<1> DEFINE T == Nat \ S
<1> SUFFICES ASSUME T # {} PROVE FALSE OBVIOUS
<1>1. \E x \in T : \A y \in T : ~(<<y, x>> \in OpToRel(<, Nat))
  <2>1. T \subseteq Nat OBVIOUS
  <2> HIDE DEF T
  <2> QED BY <2>1, NatLessThanWellFounded, WFMin, Zenon
<1>2. \A x, y \in Nat : y < x => <<y, x>> \in OpToRel(<, Nat)
  BY Zenon DEF OpToRel
<1>3. PICK x \in T : \A y \in T : ~(y < x)
  <2> HIDE DEF T
  <2>1. T \subseteq Nat BY DEF T
  <2> QED BY <1>1, <1>2, <2>1, Zenon
<1>4. x # 0 /\ x - 1 \in Nat /\ x - 1 < x OBVIOUS
<1>5. x - 1 \in S BY <1>3, <1>4
<1> QED BY <1>4, <1>5

-----------------------------------------------------------------------------
(* Folds: FoldLeft is defined by a recursion over the sets of indices.     *)
(* The two folds of the model, with one name: what a field is written to,  *)
(* and the bytes it is counted with.                                       *)
Step(kind, x, f) == IF kind = "write" THEN Write(x, f) ELSE x + f.width * f.count

(* What the recursion makes of a set of indices up to n. *)
Iter(kind, base, fields, n, iter) ==
    iter = [s \in SUBSET (1..n) |->
                IF s = {} THEN base ELSE Step(kind, iter[s \ {Max(s)}], fields[Max(s)])]

LEMMA MaxIs == ASSUME NEW n \in Nat, NEW s \in SUBSET (1..(n + 1)), n + 1 \in s PROVE Max(s) = n + 1
<1> DEFINE Top(x) == x \in s /\ \A y \in s : x >= y
<1>1. Top(n + 1) OBVIOUS
<1>2. \A x : Top(x) => x = n + 1 BY <1>1
<1>3. Max(s) = CHOOSE x : Top(x) BY Zenon DEF Max
<1>4. Top(CHOOSE x : Top(x))
  <2> HIDE DEF Top
  <2> QED BY <1>1, Zenon
<1> QED BY <1>2, <1>3, <1>4, Zenon

LEMMA IterExists == ASSUME NEW kind, NEW base, NEW fields, NEW n \in Nat PROVE \E iter : Iter(kind, base, fields, n, iter)
<1> DEFINE P == {m \in Nat : \E iter : Iter(kind, base, fields, m, iter)}
<1>1. 0 \in P
  <2>1. Iter(kind, base, fields, 0, [s \in SUBSET (1..0) |-> base]) BY DEF Iter
  <2> QED BY <2>1
<1>2. ASSUME NEW m \in P PROVE m + 1 \in P
  <2>1. PICK f : Iter(kind, base, fields, m, f) OBVIOUS
  <2> DEFINE g == [s \in SUBSET (1..(m + 1)) |->
                    IF m + 1 \in s THEN Step(kind, f[s \ {m + 1}], fields[m + 1]) ELSE f[s]]
  <2>2. ASSUME NEW s \in SUBSET (1..(m + 1))
        PROVE  g[s] = IF s = {} THEN base ELSE Step(kind, g[s \ {Max(s)}], fields[Max(s)])
    <3>1. CASE m + 1 \in s
      <4>1. Max(s) = m + 1 BY <3>1, MaxIs
      <4>2. s \ {m + 1} \in SUBSET (1..(m + 1)) /\ m + 1 \notin s \ {m + 1} OBVIOUS
      <4>3. g[s \ {m + 1}] = f[s \ {m + 1}] BY <4>2
      <4> QED BY <3>1, <4>1, <4>3
    <3>2. CASE m + 1 \notin s
      <4>1. s \in SUBSET (1..m) BY <3>2
      <4>2. f[s] = IF s = {} THEN base ELSE Step(kind, f[s \ {Max(s)}], fields[Max(s)])
        BY <2>1, <4>1 DEF Iter
      <4>3. s \ {Max(s)} \in SUBSET (1..(m + 1)) /\ m + 1 \notin s \ {Max(s)} BY <3>2
      <4>4. g[s] = f[s] /\ g[s \ {Max(s)}] = f[s \ {Max(s)}] BY <3>2, <4>3
      <4> QED BY <4>2, <4>4
    <3> QED BY <3>1, <3>2
  <2>3. Iter(kind, base, fields, m + 1, g)
    <3> DEFINE h == [s \in SUBSET (1..(m + 1)) |->
                IF s = {} THEN base ELSE Step(kind, g[s \ {Max(s)}], fields[Max(s)])]
    <3>1. g = h BY <2>2
    <3> QED BY <3>1 DEF Iter
  <2> QED BY <2>3
<1>3. n \in P
  <2> HIDE DEF P
  <2> QED BY <1>1, <1>2, Induction
<1> QED BY <1>3

(* IterSteps: along the indices the recursion applies the step in order. *)
LEMMA IterSteps ==
    ASSUME NEW kind, NEW base, NEW fields, NEW n \in Nat, NEW iter, Iter(kind, base, fields, n, iter)
    PROVE  /\ iter[1..0] = base
           /\ \A i \in 1..n : iter[1..i] = Step(kind, iter[1..(i - 1)], fields[i])
<1>1. 1..0 = {} /\ {} \in SUBSET (1..n) OBVIOUS
<1>2. iter[{}] = base BY <1>1 DEF Iter
<1>3. ASSUME NEW i \in 1..n PROVE iter[1..i] = Step(kind, iter[1..(i - 1)], fields[i])
  <2>1. 1..i \in SUBSET (1..n) /\ 1..i # {} OBVIOUS
  <2>2. Max(1..i) = i
    <3>1. i - 1 \in Nat /\ (i - 1) + 1 = i /\ i \in 1..i OBVIOUS
    <3> QED BY <3>1, MaxIs
  <2>3. (1..i) \ {i} = 1..(i - 1) OBVIOUS
  <2> QED BY <2>1, <2>2, <2>3 DEF Iter
<1> QED BY <1>1, <1>2, <1>3

(* WriteFold, SizeFold: the fold is the last of a row of values, each made *)
(* from the one before.                                                    *)
LEMMA WriteFold ==
    ASSUME NEW opcode, NEW S, NEW fields \in Seq(S)
    PROVE  \E w : /\ w[0] = BeginWritePacket(opcode)
                  /\ \A i \in 1..Len(fields) : w[i] = Write(w[i - 1], fields[i])
                  /\ Built(opcode, fields) = w[Len(fields)]
<1> DEFINE n == Len(fields)
           base == BeginWritePacket(opcode)
           It(iter) == iter = [s \in SUBSET DOMAIN fields |->
                         IF s = {} THEN base ELSE Write(iter[s \ {Max(s)}], fields[Max(s)])]
<1>1. n \in Nat /\ DOMAIN fields = 1..n OBVIOUS
<1>2. \A iter : Iter("write", base, fields, n, iter) <=> It(iter) BY <1>1 DEF Iter, Step
<1>3. PICK f : It(f)
  <2> HIDE DEF It
  <2> QED BY <1>1, <1>2, IterExists
<1>4. Built(opcode, fields) = (CHOOSE iter : It(iter))[DOMAIN fields]
  BY Zenon DEF Built, FoldLeft, MapThenFoldSet
<1> DEFINE g == CHOOSE iter : It(iter)
<1>5. It(g)
  <2> HIDE DEF It
  <2> QED BY <1>3, Zenon
<1>6. Iter("write", base, fields, n, g) BY <1>2, <1>5
<1>7. Built(opcode, fields) = g[1..n] BY <1>1, <1>4
<1> HIDE DEF g, It
<1>8. /\ g[1..0] = base
      /\ \A i \in 1..n : g[1..i] = Write(g[1..(i - 1)], fields[i])
  BY <1>1, <1>6, IterSteps DEF Step
<1> DEFINE w == [i \in 0..n |-> g[1..i]]
<1>9. w[0] = base /\ w[n] = g[1..n] BY <1>1, <1>8
<1>10. ASSUME NEW i \in 1..n PROVE w[i] = Write(w[i - 1], fields[i])
  <2>1. i \in 0..n /\ i - 1 \in 0..n BY <1>1
  <2> QED BY <1>8, <2>1
<1> QED BY <1>7, <1>9, <1>10

LEMMA SizeFold ==
    ASSUME NEW S, NEW fields \in Seq(S)
    PROVE  \E w : /\ w[0] = 0
                  /\ \A i \in 1..Len(fields) : w[i] = w[i - 1] + fields[i].width * fields[i].count
                  /\ Size(fields) = w[Len(fields)]
<1> DEFINE n == Len(fields)
           It(iter) == iter = [s \in SUBSET DOMAIN fields |->
                         IF s = {} THEN 0
                         ELSE iter[s \ {Max(s)}] + fields[Max(s)].width * fields[Max(s)].count]
<1>1. n \in Nat /\ DOMAIN fields = 1..n OBVIOUS
<1>2. \A iter : Iter("size", 0, fields, n, iter) <=> It(iter) BY <1>1 DEF Iter, Step
<1>3. PICK f : It(f)
  <2> HIDE DEF It
  <2> QED BY <1>1, <1>2, IterExists
<1>4. Size(fields) = (CHOOSE iter : It(iter))[DOMAIN fields]
  BY Zenon DEF Size, FoldLeft, MapThenFoldSet
<1> DEFINE g == CHOOSE iter : It(iter)
<1>5. It(g)
  <2> HIDE DEF It
  <2> QED BY <1>3, Zenon
<1>6. Iter("size", 0, fields, n, g) BY <1>2, <1>5
<1>7. Size(fields) = g[1..n] BY <1>1, <1>4
<1> HIDE DEF g, It
<1>8. /\ g[1..0] = 0
      /\ \A i \in 1..n : g[1..i] = g[1..(i - 1)] + fields[i].width * fields[i].count
  BY <1>1, <1>6, IterSteps DEF Step
<1> DEFINE w == [i \in 0..n |-> g[1..i]]
<1>9. w[0] = 0 /\ w[n] = g[1..n] BY <1>1, <1>8
<1>10. ASSUME NEW i \in 1..n PROVE w[i] = w[i - 1] + fields[i].width * fields[i].count
  <2>1. i \in 0..n /\ i - 1 \in 0..n BY <1>1
  <2> QED BY <1>8, <2>1
<1> QED BY <1>7, <1>9, <1>10

-----------------------------------------------------------------------------
(* What is written. *)
Names == {"version", "height", "nBits", "nBitsShare", "nTime", "text", "value", "timestamp"}
Values == Nat \cup Names \cup (Clients \X Nat) \cup [share : Nat, ok : BOOLEAN]
Fields == [width : Nat \ {0}, count : Nat, value : Values]
Buffer == [opcode : Nat, fields : Seq(Fields), parserIndex : 0..BufferLimit, sendError : BOOLEAN]

(* Room(x, w): what fits of w bytes each into x bytes. *)
LEMMA Division == ASSUME NEW x \in Nat, NEW w \in Nat \ {0}
                  PROVE  /\ x \div w \in Nat /\ (x \div w) * w <= x
                         /\ \A m \in Nat : m * w <= x => m <= x \div w
OBVIOUS

LEMMA WriteOnce ==
    ASSUME NEW pb \in Buffer, NEW f \in Fields
    PROVE  /\ Write(pb, f) \in Buffer
           /\ Write(pb, f).opcode = pb.opcode
           /\ pb.sendError => Write(pb, f).sendError
           /\ ~Write(pb, f).sendError => /\ Write(pb, f).fields = Append(pb.fields, f)
                                         /\ Write(pb, f).parserIndex = pb.parserIndex + f.width * f.count
           /\ ~pb.sendError /\ pb.parserIndex + f.width * f.count <= BufferLimit
                 => ~Write(pb, f).sendError
<1> DEFINE room == (BufferLimit - pb.parserIndex) \div f.width
           n == IF f.count <= room THEN f.count ELSE room
           g == [f EXCEPT !.count = n]
<1>1. f.width \in Nat \ {0} /\ f.count \in Nat /\ f.value \in Values BY DEF Fields
<1>2. pb.parserIndex \in 0..BufferLimit /\ BufferLimit \in Nat BY BufferAssumption DEF Buffer
<1>3. BufferLimit - pb.parserIndex \in Nat BY <1>2
<1>4. /\ room \in Nat /\ room * f.width <= BufferLimit - pb.parserIndex
      /\ \A m \in Nat : m * f.width <= BufferLimit - pb.parserIndex => m <= room
  BY <1>1, <1>3, Division
<1>5. n \in Nat /\ n <= room /\ n <= f.count BY <1>1, <1>4
<1>6. /\ n * f.width \in Nat /\ n * f.width <= room * f.width
      /\ f.count * f.width = f.width * f.count
  BY <1>1, <1>4, <1>5
<1>7. pb.parserIndex + n * f.width \in 0..BufferLimit
  <2> DEFINE all == room * f.width
             now == n * f.width
  <2>1. all <= BufferLimit - pb.parserIndex /\ now \in Nat /\ now <= all BY <1>4, <1>6
  <2>2. all \in Nat BY <1>1, <1>4
  <2> HIDE DEF room, n, all, now
  <2>3. pb.parserIndex + now \in 0..BufferLimit BY <1>2, <2>1, <2>2
  <2> QED BY <2>3 DEF now
<1>8. g \in Fields /\ (n = f.count => g = f)
  <2> HIDE DEF n
  <2> QED BY <1>1, <1>5 DEF Fields
<1> DEFINE new == [pb EXCEPT !.fields = Append(@, g), !.parserIndex = @ + n * f.width,
                             !.sendError = n < f.count]
<1>9. CASE pb.sendError
  <2>1. Write(pb, f) = pb BY <1>9 DEF Write
  <2> QED BY <1>9, <2>1
<1>10. CASE ~pb.sendError
  <2>1. Write(pb, f) = new BY <1>1, <1>10 DEF Write
  <2> HIDE DEF room, n, g
  <2>2. /\ new.opcode = pb.opcode /\ new.fields = Append(pb.fields, g)
        /\ new.parserIndex = pb.parserIndex + n * f.width
    BY DEF Buffer
  <2>6. new.sendError = (n < f.count) BY DEF Buffer
  <2>7. new.sendError <=> n < f.count BY <2>6, Zenon
  <2>3. new \in Buffer
    <3>1. Append(pb.fields, g) \in Seq(Fields) BY <1>8 DEF Buffer
    <3>2. (n < f.count) \in BOOLEAN OBVIOUS
    <3> QED BY <1>7, <3>1, <3>2 DEF Buffer
  <2> HIDE DEF new
  <2>4. ~new.sendError => /\ new.fields = Append(pb.fields, f)
                          /\ new.parserIndex = pb.parserIndex + f.width * f.count
    <3> SUFFICES ASSUME ~new.sendError PROVE n = f.count BY <1>6, <1>8, <2>2
    <3> QED BY <1>1, <1>5, <2>7
  <2>5. ASSUME pb.parserIndex + f.width * f.count <= BufferLimit PROVE ~new.sendError
    <3>1. f.count * f.width \in Nat BY <1>1
    <3>2. f.count * f.width <= BufferLimit - pb.parserIndex BY <1>2, <1>6, <2>5, <3>1
    <3>3. f.count <= room BY <1>1, <1>4, <3>2
    <3>4. n = f.count BY <3>3 DEF n
    <3> QED BY <1>1, <2>7, <3>4
  <2> QED BY <1>10, <2>1, <2>2, <2>3, <2>4, <2>5
<1> QED BY <1>9, <1>10

(* BuiltFacts: a list of fields either fits, and then the packet has these *)
(* fields and their size, or it is given up with an error, within the      *)
(* buffer.                                                                 *)
LEMMA BuiltFacts ==
    ASSUME NEW opcode \in Nat, NEW fields \in Seq(Fields)
    PROVE  /\ Built(opcode, fields) \in Buffer
           /\ Built(opcode, fields).opcode = opcode
           /\ ~Built(opcode, fields).sendError =>
                 /\ Built(opcode, fields).fields = fields
                 /\ Built(opcode, fields).parserIndex = 4 + Size(fields)
           /\ 4 + Size(fields) <= BufferLimit => ~Built(opcode, fields).sendError
<1>1. PICK w : /\ w[0] = BeginWritePacket(opcode)
               /\ \A i \in 1..Len(fields) : w[i] = Write(w[i - 1], fields[i])
               /\ Built(opcode, fields) = w[Len(fields)]
  BY WriteFold
<1>2. PICK z : /\ z[0] = 0
               /\ \A i \in 1..Len(fields) : z[i] = z[i - 1] + fields[i].width * fields[i].count
               /\ Size(fields) = z[Len(fields)]
  BY SizeFold
<1>3. Built(opcode, fields) = w[Len(fields)] BY <1>1
<1> DEFINE Ok(i) == /\ w[i] \in Buffer /\ w[i].opcode = opcode /\ z[i] \in Nat
                    /\ ~w[i].sendError => w[i].fields = SubSeq(fields, 1, i) /\ w[i].parserIndex = 4 + z[i]
                    /\ 4 + z[i] <= BufferLimit => ~w[i].sendError
           P == {i \in Nat : i <= Len(fields) => Ok(i)}
<1>4. 0 \in P
  <2>1. BeginWritePacket(opcode) \in Buffer BY BufferAssumption DEF BeginWritePacket, Buffer
  <2>2. SubSeq(fields, 1, 0) = <<>> OBVIOUS
  <2>3. w[0] \in Buffer /\ z[0] = 0 BY <1>1, <1>2, <2>1
  <2>4. w[0].opcode = opcode /\ w[0].fields = <<>> /\ w[0].parserIndex = 4 /\ ~w[0].sendError
    BY <1>1 DEF BeginWritePacket
  <2>5. Ok(0)
    <3>1. w[0].fields = SubSeq(fields, 1, 0) BY <2>2, <2>4
    <3> QED BY <2>3, <2>4, <3>1
  <2> HIDE DEF Ok
  <2> QED BY <2>5
<1>5. ASSUME NEW i \in P PROVE i + 1 \in P
  <2> SUFFICES ASSUME i + 1 <= Len(fields) PROVE Ok(i + 1) OBVIOUS
  <2>1. i \in Nat /\ i + 1 \in 1..Len(fields) /\ (i + 1) - 1 = i OBVIOUS
  <2>2. Ok(i) BY <2>1
  <2> DEFINE f == fields[i + 1]
  <2>3. f \in Fields BY <2>1
  <2>4. w[i + 1] = Write(w[i], f) /\ z[i + 1] = z[i] + f.width * f.count BY <1>1, <1>2, <2>1
  <2>5. SubSeq(fields, 1, i + 1) = Append(SubSeq(fields, 1, i), f) BY <2>1
  <2> DEFINE bytes == f.width * f.count
  <2> HIDE DEF f
  <2>6. bytes \in Nat
    <3>1. f.width \in Nat /\ f.count \in Nat BY <2>3 DEF Fields
    <3> QED BY <3>1
  <2> DEFINE pb == Write(w[i], f)
  <2>7. /\ pb \in Buffer /\ pb.opcode = w[i].opcode
        /\ w[i].sendError => pb.sendError
        /\ ~pb.sendError => /\ pb.fields = Append(w[i].fields, f)
                            /\ pb.parserIndex = w[i].parserIndex + bytes
        /\ ~w[i].sendError /\ w[i].parserIndex + bytes <= BufferLimit => ~pb.sendError
    BY <2>2, <2>3, WriteOnce, Zenon
  <2>8. w[i + 1] = pb /\ z[i + 1] = z[i] + bytes BY <2>4
  <2> HIDE DEF bytes, pb
  <2>9. pb \in Buffer /\ pb.opcode = opcode /\ z[i + 1] \in Nat BY <2>2, <2>6, <2>7, <2>8
  <2>10. ~pb.sendError => pb.fields = SubSeq(fields, 1, i + 1) /\ pb.parserIndex = 4 + z[i + 1]
    <3> SUFFICES ASSUME ~pb.sendError
                 PROVE  pb.fields = SubSeq(fields, 1, i + 1) /\ pb.parserIndex = 4 + z[i + 1]
      OBVIOUS
    <3>1. ~w[i].sendError BY <2>7
    <3>2. w[i].fields = SubSeq(fields, 1, i) /\ w[i].parserIndex = 4 + z[i] BY <2>2, <3>1
    <3>3. pb.fields = SubSeq(fields, 1, i + 1) BY <2>5, <2>7, <3>2
    <3>4. pb.parserIndex = w[i].parserIndex + bytes BY <2>7
    <3>5. pb.parserIndex = 4 + z[i + 1] BY <2>2, <2>6, <2>8, <3>2, <3>4
    <3> QED BY <3>3, <3>5
  <2>11. 4 + z[i + 1] <= BufferLimit => ~pb.sendError
    <3> SUFFICES ASSUME 4 + z[i + 1] <= BufferLimit PROVE ~pb.sendError
      OBVIOUS
    <3>1. z[i] \in Nat BY <2>2
    <3>2. 4 + z[i] + bytes <= BufferLimit BY <2>6, <2>8, <3>1
    <3>3. 4 + z[i] <= BufferLimit BY <2>6, <3>1, <3>2, BufferAssumption
    <3>4. ~w[i].sendError /\ w[i].parserIndex = 4 + z[i] BY <2>2, <3>3
    <3>5. w[i].parserIndex + bytes <= BufferLimit BY <3>2, <3>4
    <3> QED BY <2>7, <3>4, <3>5, Zenon
  <2> QED BY <2>8, <2>9, <2>10, <2>11
<1>6. Ok(Len(fields))
  <2>1. Len(fields) \in Nat OBVIOUS
  <2>2. Len(fields) \in P
    <3> HIDE DEF P
    <3> QED BY <1>4, <1>5, <2>1, Induction
  <2> QED BY <2>2
<1>7. SubSeq(fields, 1, Len(fields)) = fields OBVIOUS
<1> QED BY <1>2, <1>3, <1>6, <1>7

-----------------------------------------------------------------------------
(* The layouts: fields of the right type, and their sizes. *)

LEMMA SizeOne == ASSUME NEW f \in Fields PROVE Size(<<f>>) = f.width * f.count
<1>1. <<f>> \in Seq(Fields) /\ Len(<<f>>) = 1 OBVIOUS
<1>2. PICK w : /\ w[0] = 0
               /\ \A i \in 1..1 : w[i] = w[i - 1] + <<f>>[i].width * <<f>>[i].count
               /\ Size(<<f>>) = w[1]
  BY <1>1, SizeFold
<1>3. w[1] = 0 + f.width * f.count BY <1>2
<1>4. f.width * f.count \in Nat
  <2>1. f.width \in Nat /\ f.count \in Nat BY DEF Fields
  <2> QED BY <2>1
<1> QED BY <1>2, <1>3, <1>4

(* SizeMore: a field more. *)
LEMMA SizeMore == ASSUME NEW s \in Seq(Fields), NEW f \in Fields
                  PROVE  Size(s) \in Nat /\ Size(Append(s, f)) = Size(s) + f.width * f.count
<1> DEFINE n == Len(s)
           t == Append(s, f)
<1>1. n \in Nat /\ t \in Seq(Fields) /\ Len(t) = n + 1 /\ t[n + 1] = f
      /\ \A i \in 1..n : t[i] = s[i]
  OBVIOUS
<1>2. PICK w : /\ w[0] = 0
               /\ \A i \in 1..n : w[i] = w[i - 1] + s[i].width * s[i].count
               /\ Size(s) = w[n]
  BY SizeFold
<1>3. PICK v : /\ v[0] = 0
               /\ \A i \in 1..Len(t) : v[i] = v[i - 1] + t[i].width * t[i].count
               /\ Size(t) = v[Len(t)]
  BY <1>1, SizeFold
<1> DEFINE P == {i \in Nat : i <= n => v[i] = w[i] /\ w[i] \in Nat}
<1>4. 0 \in P BY <1>2, <1>3
<1>5. ASSUME NEW i \in P PROVE i + 1 \in P
  <2> SUFFICES ASSUME i + 1 <= n PROVE v[i + 1] = w[i + 1] /\ w[i + 1] \in Nat OBVIOUS
  <2>1. i \in Nat /\ i + 1 \in 1..n /\ (i + 1) - 1 = i /\ i + 1 \in 1..Len(t) BY <1>1
  <2>2. v[i] = w[i] /\ w[i] \in Nat BY <2>1
  <2> DEFINE bytes == s[i + 1].width * s[i + 1].count
  <2>3. w[i + 1] = w[i] + bytes BY <1>2, <2>1
  <2>4. v[i + 1] = v[i] + bytes BY <1>1, <1>3, <2>1
  <2>5. bytes \in Nat
    <3>1. s[i + 1] \in Fields BY <2>1
    <3>2. s[i + 1].width \in Nat /\ s[i + 1].count \in Nat BY <3>1 DEF Fields
    <3> QED BY <3>2
  <2> HIDE DEF bytes
  <2> QED BY <2>2, <2>3, <2>4, <2>5
<1>6. v[n] = w[n] /\ w[n] \in Nat
  <2>1. n \in P
    <3> HIDE DEF P
    <3> QED BY <1>1, <1>4, <1>5, Induction
  <2> QED BY <1>1, <2>1
<1>7. v[n + 1] = v[n] + f.width * f.count
  <2>1. n + 1 \in 1..Len(t) /\ (n + 1) - 1 = n BY <1>1
  <2> QED BY <1>1, <1>3, <2>1
<1> QED BY <1>1, <1>2, <1>3, <1>6, <1>7

LEMMA FieldTypes ==
    /\ \A v \in Values : U32(v) \in Fields /\ U32(v).width * U32(v).count = 4
    /\ \A n \in Nat : Text(2, n) \in Fields /\ Text(2, n).width * Text(2, n).count = 2 + n
    /\ \A n \in Nat, v \in Values : Field(32, n, v) \in Fields
                                     /\ Field(32, n, v).width * Field(32, n, v).count = 32 * n
    /\ Field(8, 1, "timestamp") \in Fields
    /\ Field(8, 1, "timestamp").width * Field(8, 1, "timestamp").count = 8
<1>1. "text" \in Values /\ "timestamp" \in Values BY DEF Values, Names
<1>2. ASSUME NEW w \in Nat \ {0}, NEW n \in Nat, NEW v \in Values
      PROVE  Field(w, n, v) \in Fields /\ Field(w, n, v).width = w /\ Field(w, n, v).count = n
  BY DEF Field, Fields
<1>3. ASSUME NEW v \in Values PROVE U32(v) \in Fields /\ U32(v).width * U32(v).count = 4
  BY <1>2 DEF U32
<1>4. ASSUME NEW n \in Nat PROVE Text(2, n) \in Fields /\ Text(2, n).width * Text(2, n).count = 2 + n
  <2>1. 2 + n \in Nat \ {0} OBVIOUS
  <2>2. (2 + n) * 1 = 2 + n OBVIOUS
  <2> QED BY <1>1, <1>2, <2>1, <2>2 DEF Text
<1>5. ASSUME NEW n \in Nat, NEW v \in Values
      PROVE  Field(32, n, v) \in Fields /\ Field(32, n, v).width * Field(32, n, v).count = 32 * n
  BY <1>2
<1>6. /\ Field(8, 1, "timestamp") \in Fields
      /\ Field(8, 1, "timestamp").width * Field(8, 1, "timestamp").count = 8
  BY <1>1, <1>2
<1> QED BY <1>3, <1>4, <1>5, <1>6

LEMMA AuthLayout == ASSUME NEW code \in 0..1
                    PROVE  AuthFields(code) \in Seq(Fields) /\ Size(AuthFields(code)) <= 55
<1> DEFINE n == IF code = 0 THEN 29 ELSE 40
           f == U32(code)
           g == Text(2, n)
<1>1. /\ f \in Fields /\ f.width * f.count = 4
      /\ g \in Fields /\ g.width * g.count = 2 + n
  <2>1. code \in Values BY DEF Values
  <2>2. n \in Nat OBVIOUS
  <2> QED BY <2>1, <2>2, FieldTypes
<1>2. AuthFields(code) = Append(<<f>>, g) BY DEF AuthFields
<1> HIDE DEF f, g
<1>3. <<f>> \in Seq(Fields) /\ Append(<<f>>, g) \in Seq(Fields) BY <1>1
<1>4. Size(<<f>>) = 4 BY <1>1, SizeOne
<1>5. Size(Append(<<f>>, g)) = 4 + (2 + n) BY <1>1, <1>3, <1>4, SizeMore
<1> QED BY <1>2, <1>3, <1>5

LEMMA ShareLayout == ASSUME NEW k \in Nat, NEW ok \in BOOLEAN
                     PROVE  ShareFields(k, ok) \in Seq(Fields) /\ Size(ShareFields(k, ok)) <= 55
<1> DEFINE n == IF ok THEN 0 ELSE 45
           f == U32([share |-> k, ok |-> ok])
           g == Text(2, n)
           h == U32("value")
<1>1. /\ f \in Fields /\ f.width * f.count = 4
      /\ g \in Fields /\ g.width * g.count = 2 + n
      /\ h \in Fields /\ h.width * h.count = 4
  <2>1. [share |-> k, ok |-> ok] \in Values /\ "value" \in Values
    <3>1. "value" \in Names BY DEF Names
    <3>2. [share |-> k, ok |-> ok] \in [share : Nat, ok : BOOLEAN] OBVIOUS
    <3> QED BY <3>1, <3>2 DEF Values
  <2>2. n \in Nat OBVIOUS
  <2> QED BY <2>1, <2>2, FieldTypes
<1>2. ShareFields(k, ok) = Append(Append(<<f>>, g), h) BY DEF ShareFields
<1> HIDE DEF f, g, h
<1>3. <<f>> \in Seq(Fields) /\ Append(<<f>>, g) \in Seq(Fields) /\ Append(Append(<<f>>, g), h) \in Seq(Fields)
  BY <1>1
<1>4. Size(<<f>>) = 4 BY <1>1, SizeOne
<1>5. Size(Append(<<f>>, g)) = 4 + (2 + n) BY <1>1, <1>3, <1>4, SizeMore
<1>6. Size(Append(Append(<<f>>, g), h)) = 4 + (2 + n) + 4 BY <1>1, <1>3, <1>5, SizeMore
<1> QED BY <1>2, <1>3, <1>6

LEMMA PingLayout == PingFields \in Seq(Fields) /\ Size(PingFields) = 8
BY FieldTypes, SizeOne DEF PingFields

LEMMA MoreU32 ==
    ASSUME NEW s \in Seq(Fields), NEW v \in Values
    PROVE  Append(s, U32(v)) \in Seq(Fields) /\ Size(Append(s, U32(v))) = Size(s) + 4
<1> DEFINE f == U32(v)
<1>1. f \in Fields /\ f.width * f.count = 4 BY FieldTypes
<1> HIDE DEF f
<1>2. Append(s, f) \in Seq(Fields) /\ Size(Append(s, f)) = Size(s) + 4 BY <1>1, SizeMore
<1> QED BY <1>2 DEF f

LEMMA MoreHashes ==
    ASSUME NEW s \in Seq(Fields), NEW n \in Nat, NEW v \in Values
    PROVE  Append(s, Field(32, n, v)) \in Seq(Fields) /\ Size(Append(s, Field(32, n, v))) = Size(s) + 32 * n
<1> DEFINE f == Field(32, n, v)
<1>1. f \in Fields /\ f.width * f.count = 32 * n BY FieldTypes
<1> HIDE DEF f
<1>2. Append(s, f) \in Seq(Fields) /\ Size(Append(s, f)) = Size(s) + 32 * n BY <1>1, SizeMore
<1> QED BY <1>2 DEF f

(* WorkLayout: 126 workloads are the most that fit 4092 bytes. *)
LEMMA WorkLayout ==
    ASSUME NEW c \in Clients, NEW b \in Nat, payloadNum[c] \in Nat
    PROVE  WorkFields(c, b) \in Seq(Fields) /\ Size(WorkFields(c, b)) = 56 + 32 * payloadNum[c]
<1> DEFINE n == payloadNum[c]
           s1 == <<U32("version")>>
           s2 == Append(s1, U32("height"))
           s3 == Append(s2, U32("nBits"))
           s4 == Append(s3, U32("nBitsShare"))
           s5 == Append(s4, U32("nTime"))
           s6 == Append(s5, Field(32, 1, b))
           s7 == Append(s6, U32(n))
           s8 == Append(s7, Field(32, n, <<c, b>>))
<1>1. WorkFields(c, b) = s8 BY DEF WorkFields
<1>2. /\ "version" \in Values /\ "height" \in Values /\ "nBits" \in Values
      /\ "nBitsShare" \in Values /\ "nTime" \in Values
      /\ b \in Values /\ n \in Values /\ <<c, b>> \in Values
  BY DEF Values, Names
<1>3. s1 \in Seq(Fields) /\ Size(s1) = 4
  <2>1. U32("version") \in Fields /\ U32("version").width * U32("version").count = 4 BY <1>2, FieldTypes
  <2> QED BY <2>1, SizeOne
<1> HIDE DEF s1
<1>4. s2 \in Seq(Fields) /\ Size(s2) = Size(s1) + 4 BY <1>2, <1>3, MoreU32
<1> HIDE DEF s2
<1>5. s3 \in Seq(Fields) /\ Size(s3) = Size(s2) + 4 BY <1>2, <1>4, MoreU32
<1> HIDE DEF s3
<1>6. s4 \in Seq(Fields) /\ Size(s4) = Size(s3) + 4 BY <1>2, <1>5, MoreU32
<1> HIDE DEF s4
<1>7. s5 \in Seq(Fields) /\ Size(s5) = Size(s4) + 4 BY <1>2, <1>6, MoreU32
<1> HIDE DEF s5
<1>8. s6 \in Seq(Fields) /\ Size(s6) = Size(s5) + 32 * 1 BY <1>2, <1>7, MoreHashes
<1> HIDE DEF s6
<1>9. s7 \in Seq(Fields) /\ Size(s7) = Size(s6) + 4 BY <1>2, <1>8, MoreU32
<1> HIDE DEF s7
<1>10. s8 \in Seq(Fields) /\ Size(s8) = Size(s7) + 32 * n BY <1>2, <1>9, MoreHashes
<1> HIDE DEF s8
<1>11. Size(s7) = 56 BY <1>3, <1>4, <1>5, <1>6, <1>7, <1>8, <1>9
<1> QED BY <1>1, <1>10, <1>11

-----------------------------------------------------------------------------
(* Sending. *)
Packet == [opcode : Nat, size : Nat, fields : Seq(Fields)]
PacketOf(opcode, fields) == [opcode |-> opcode, size |-> Size(fields), fields |-> fields]

ThreadType ==
    /\ sendBuffer \in Buffer /\ template \in 1..MaxTemplates
    /\ pc \in {"events", "login", "notify"} /\ todo \subseteq Clients
MinerType ==
    /\ state \in [Clients -> States] /\ payloadNum \in [Clients -> Payloads]
    /\ shares \in [Clients -> Seq(BOOLEAN)] /\ failures \in 0..MaxFailures
WireType ==
    /\ received \in [Clients -> Seq(Packet)]
    /\ torn \subseteq lost /\ lost \subseteq Clients /\ short \in 0..MaxShort
TypeInv == ThreadType /\ MinerType /\ WireType

(* What a miner may find in its stream when p was sent to c. *)
Told(c, p) == received' = [received EXCEPT ![c] = Append(@, p)]
Delivery(c, p) ==
    /\ WireType'
    /\ lost \subseteq lost' /\ lost' \subseteq lost \cup {c}
    /\ Told(c, p) \/ received' = received
    /\ c \notin lost' => Told(c, p)

LEMMA SizeType == ASSUME NEW fields \in Seq(Fields) PROVE Size(fields) \in Nat
<1>1. \E f : f \in Fields
  <2>1. U32(0) \in Fields BY FieldTypes DEF Values
  <2> QED BY <2>1
<1> QED BY <1>1, SizeMore

(* BuiltPacket: a list of fields that fits is the packet that is sent. *)
LEMMA BuiltPacket ==
    ASSUME NEW opcode \in Nat, NEW fields \in Seq(Fields), ~Built(opcode, fields).sendError
    PROVE  /\ Built(opcode, fields) \in Buffer
           /\ FinalizeWritePacket(Built(opcode, fields)) = PacketOf(opcode, fields)
           /\ PacketOf(opcode, fields) \in Packet
<1> DEFINE pb == Built(opcode, fields)
<1>1. pb \in Buffer /\ pb.opcode = opcode /\ pb.fields = fields /\ pb.parserIndex = 4 + Size(fields)
  BY BuiltFacts
<1>2. Size(fields) \in Nat BY SizeType
<1> HIDE DEF pb
<1>3. pb.parserIndex - 4 = Size(fields) BY <1>1, <1>2
<1>4. FinalizeWritePacket(pb) = PacketOf(opcode, fields)
  BY <1>1, <1>3 DEF FinalizeWritePacket, PacketOf
<1>5. PacketOf(opcode, fields) \in Packet BY <1>2 DEF PacketOf, Packet
<1> QED BY <1>1, <1>4, <1>5 DEF pb

LEMMA SendFacts ==
    ASSUME WireType, NEW c \in Clients, NEW opcode \in Nat, NEW fields \in Seq(Fields),
           ~Built(opcode, fields).sendError, Send(c, Built(opcode, fields))
    PROVE  Delivery(c, PacketOf(opcode, fields))
<1> DEFINE pb == Built(opcode, fields)
           p == PacketOf(opcode, fields)
<1>1. p \in Packet /\ FinalizeWritePacket(pb) = p BY BuiltPacket
<1>2. Send(c, pb) OBVIOUS
<1> SUFFICES Delivery(c, p) OBVIOUS
<1> HIDE DEF pb, p
<1>3. CASE /\ received' = (IF c \in torn THEN received
                           ELSE [received EXCEPT ![c] = Append(@, FinalizeWritePacket(pb))])
           /\ UNCHANGED <<lost, torn, short>>
  <2>1. received' \in [Clients -> Seq(Packet)] BY <1>1, <1>3 DEF WireType
  <2>2. WireType' BY <1>3, <2>1 DEF WireType
  <2>3. c \notin torn => Told(c, p) BY <1>1, <1>3 DEF Told
  <2>4. c \notin lost' => c \notin torn BY <1>3 DEF WireType
  <2> QED BY <1>3, <2>2, <2>3, <2>4 DEF Delivery
<1>4. CASE /\ short < MaxShort /\ short' = short + 1
           /\ lost' = lost \cup {c}
           /\ torn' \in {torn, torn \cup {c}}
           /\ UNCHANGED received
  <2>1. WireType' BY <1>4, BoundsAssumption DEF WireType
  <2> QED BY <1>4, <2>1 DEF Delivery
<1> QED BY <1>2, <1>3, <1>4 DEF Send

(* AnswerFacts: every answer fits the buffer. *)
LEMMA AnswerFacts ==
    ASSUME NEW opcode \in Nat, NEW fields \in Seq(Fields), Size(fields) <= 55
    PROVE  ~Built(opcode, fields).sendError
<1>1. Size(fields) \in Nat BY SizeType
<1>2. 4 + Size(fields) <= BufferLimit BY <1>1, BufferAssumption
<1> QED BY <1>2, BuiltFacts

-----------------------------------------------------------------------------
(* What each handler sends. *)
LEMMA Opcodes == /\ AUTH_ACK = 2 /\ WORKDATA1 = 3 /\ SHARE_ACK = 5 /\ PING = 8
BY DEF AUTH_ACK, WORKDATA1, SHARE_ACK, PING

LEMMA AnswerSent ==
    ASSUME WireType, NEW c \in Clients, NEW opcode \in Nat, NEW fields \in Seq(Fields), Size(fields) <= 55,
           sendBuffer' = Built(opcode, fields), Send(c, sendBuffer')
    PROVE  sendBuffer' \in Buffer /\ Delivery(c, PacketOf(opcode, fields))
<1>1. ~Built(opcode, fields).sendError BY AnswerFacts
<1>2. Send(c, Built(opcode, fields)) OBVIOUS
<1>3. Delivery(c, PacketOf(opcode, fields)) BY <1>1, <1>2, SendFacts
<1>4. Built(opcode, fields) \in Buffer BY BuiltFacts
<1> QED BY <1>3, <1>4

LEMMA RejectSends ==
    ASSUME TypeInv, NEW c \in Clients, RejectLogin(c)
    PROVE  sendBuffer' \in Buffer /\ Delivery(c, PacketOf(AUTH_ACK, AuthFields(1)))
<1>1. sendBuffer' = Built(AUTH_ACK, AuthFields(1)) /\ Send(c, sendBuffer') BY DEF RejectLogin
<1>2. AuthFields(1) \in Seq(Fields) /\ Size(AuthFields(1)) <= 55 BY AuthLayout
<1> QED BY <1>1, <1>2, AnswerSent, Opcodes DEF TypeInv

LEMMA LoginSends ==
    ASSUME TypeInv, NEW c \in Clients, Login(c)
    PROVE  sendBuffer' \in Buffer /\ Delivery(c, PacketOf(AUTH_ACK, AuthFields(0)))
<1>1. sendBuffer' = Built(AUTH_ACK, AuthFields(0)) /\ Send(c, sendBuffer') BY DEF Login
<1>2. AuthFields(0) \in Seq(Fields) /\ Size(AuthFields(0)) <= 55 BY AuthLayout
<1> QED BY <1>1, <1>2, AnswerSent, Opcodes DEF TypeInv

LEMMA PingSends ==
    ASSUME TypeInv, NEW c \in Clients, PingRequest(c)
    PROVE  sendBuffer' \in Buffer /\ Delivery(c, PacketOf(PING, PingFields))
<1>1. sendBuffer' = Built(PING, PingFields) /\ Send(c, sendBuffer') BY DEF PingRequest
<1>2. PingFields \in Seq(Fields) /\ Size(PingFields) <= 55 BY PingLayout
<1> QED BY <1>1, <1>2, AnswerSent, Opcodes DEF TypeInv

LEMMA ShareSends ==
    ASSUME TypeInv, NEW c \in Clients, NEW valid \in BOOLEAN, NEW block, SubmitShare(c, valid, block)
    PROVE  \E ok \in BOOLEAN :
              /\ shares' = [shares EXCEPT ![c] = Append(@, ok)]
              /\ sendBuffer' \in Buffer
              /\ Delivery(c, PacketOf(SHARE_ACK, ShareFields(Len(shares[c]) + 1, ok)))
<1> DEFINE ok == Outcome(valid, block)
           k == Len(shares[c]) + 1
<1>1. ok \in BOOLEAN BY DEF Outcome
<1>2. k \in Nat BY DEF TypeInv, MinerType
<1>3. /\ shares' = [shares EXCEPT ![c] = Append(@, ok)]
      /\ sendBuffer' = Built(SHARE_ACK, ShareFields(k, ok)) /\ Send(c, sendBuffer')
  BY Zenon DEF SubmitShare, Answered
<1> HIDE DEF ok, k
<1>4. ShareFields(k, ok) \in Seq(Fields) /\ Size(ShareFields(k, ok)) <= 55 BY <1>1, <1>2, ShareLayout
<1>5. sendBuffer' \in Buffer /\ Delivery(c, PacketOf(SHARE_ACK, ShareFields(k, ok)))
  BY <1>3, <1>4, AnswerSent, Opcodes DEF TypeInv
<1> QED BY <1>1, <1>3, <1>5 DEF k

LEMMA Numbers == ASSUME TypeInv, NEW c \in Clients
                 PROVE  payloadNum[c] \in Nat /\ template \in Nat /\ template \in 1..template
<1>1. payloadNum[c] \in Nat
  <2>1. payloadNum[c] \in Payloads BY DEF TypeInv, MinerType
  <2> QED BY <2>1, PayloadsAssumption, Zenon
<1>2. template \in Nat /\ template \in 1..template
  <2>1. template \in 1..MaxTemplates BY DEF TypeInv, ThreadType
  <2>2. MaxTemplates \in Nat BY BoundsAssumption
  <2> QED BY <2>1, <2>2
<1> QED BY <1>1, <1>2

(* WorkSends: work is sent if it fits, and it fits for up to 126 workloads *)
(* in a buffer of 4092 bytes.                                              *)
LEMMA WorkSends ==
    ASSUME TypeInv, NEW c \in Clients, SendBlockData(c)
    PROVE  /\ sendBuffer' \in Buffer
           /\ \/ /\ Unserved(c) /\ UNCHANGED wire
                 /\ BufferLimit >= 4092 => payloadNum[c] > 126
              \/ UNCHANGED state /\ Delivery(c, PacketOf(WORKDATA1, WorkFields(c, template)))
<1> DEFINE fields == WorkFields(c, template)
           pb == Built(WORKDATA1, fields)
<1>1. payloadNum[c] \in Nat /\ template \in Nat
  BY Numbers
<1>2. fields \in Seq(Fields) /\ Size(fields) = 56 + 32 * payloadNum[c] BY <1>1, WorkLayout
<1>3. /\ sendBuffer' = pb
      /\ IF pb.sendError THEN Unserved(c) /\ UNCHANGED wire ELSE Send(c, pb) /\ UNCHANGED state
  BY Zenon DEF SendBlockData
<1>4. pb \in Buffer /\ (4 + Size(fields) <= BufferLimit => ~pb.sendError)
  <2> HIDE DEF fields
  <2> QED BY <1>2, BuiltFacts, Opcodes
<1>5. CASE pb.sendError
  <2>1. ASSUME BufferLimit >= 4092 PROVE payloadNum[c] > 126
    <3>1. ~(4 + Size(fields) <= BufferLimit) BY <1>4, <1>5
    <3> HIDE DEF fields, pb
    <3> QED BY <1>1, <1>2, <2>1, <3>1, BufferAssumption
  <2> HIDE DEF pb
  <2> QED BY <1>3, <1>4, <1>5, <2>1
<1>6. CASE ~pb.sendError
  <2>1. Send(c, pb) /\ UNCHANGED state BY <1>3, <1>6, Zenon
  <2>2. Delivery(c, PacketOf(WORKDATA1, fields))
    <3> HIDE DEF fields
    <3> QED BY <1>2, <1>6, <2>1, SendFacts, Opcodes DEF TypeInv
  <2>3. sendBuffer' \in Buffer
    <3> HIDE DEF pb
    <3> QED BY <1>3, <1>4
  <2> QED BY <2>1, <2>2, <2>3
<1> QED BY <1>5, <1>6

-----------------------------------------------------------------------------
(* Types. *)
LEMMA InitType == Init => TypeInv
<1> SUFFICES ASSUME Init PROVE TypeInv OBVIOUS
<1>1. sendBuffer \in Buffer BY BufferAssumption DEF Init, Buffer
<1>2. ThreadType BY <1>1, BoundsAssumption DEF Init, ThreadType
<1>3. MinerType BY BoundsAssumption DEF Init, MinerType, States
<1>4. WireType BY BoundsAssumption DEF Init, WireType
<1> QED BY <1>2, <1>3, <1>4 DEF TypeInv

LEMMA NextType == TypeInv /\ [Next]_vars => TypeInv'
<1> SUFFICES ASSUME TypeInv, [Next]_vars PROVE TypeInv' OBVIOUS
<1> USE DEF TypeInv, To, States
<1>1. ASSUME NEW c \in Clients, RejectLogin(c) PROVE TypeInv'
  <2>1. sendBuffer' \in Buffer /\ WireType' BY <1>1, RejectSends DEF Delivery
  <2>2. ThreadType' BY <1>1, <2>1 DEF RejectLogin, ThreadType
  <2>3. MinerType'
    <3>1. failures' = failures \/ Fails BY <1>1 DEF RejectLogin
    <3>2. failures' \in 0..MaxFailures BY <3>1, BoundsAssumption DEF MinerType, Fails
    <3>3. state' = [state EXCEPT ![c] = "dropped"] /\ UNCHANGED <<payloadNum, shares>> BY <1>1 DEF RejectLogin
    <3> QED BY <3>2, <3>3 DEF MinerType
  <2> QED BY <2>1, <2>2, <2>3
<1>2. ASSUME NEW c \in Clients, Login(c) PROVE TypeInv'
  <2>1. sendBuffer' \in Buffer /\ WireType' BY <1>2, LoginSends DEF Delivery
  <2>2. ThreadType' BY <1>2, <2>1 DEF Login, ThreadType
  <2>3. MinerType' BY <1>2 DEF Login, MinerType
  <2> QED BY <2>1, <2>2, <2>3
<1>3. ASSUME NEW c \in Clients, PingRequest(c) PROVE TypeInv'
  <2>1. sendBuffer' \in Buffer /\ WireType' BY <1>3, PingSends DEF Delivery
  <2>2. ThreadType' BY <1>3, <2>1 DEF PingRequest, ThreadType
  <2>3. MinerType' BY <1>3 DEF PingRequest, MinerType
  <2> QED BY <2>1, <2>2, <2>3
<1>4. ASSUME NEW c \in Clients, Close(c) PROVE TypeInv'
  <2>1. ThreadType' BY <1>4 DEF Close, ThreadType, thread
  <2>2. MinerType' BY <1>4 DEF Close, MinerType
  <2>3. WireType' BY <1>4 DEF Close, WireType, wire
  <2> QED BY <2>1, <2>2, <2>3
<1>5. ASSUME NEW c \in Clients, SendBlockData(c) PROVE TypeInv'
  <2>1. sendBuffer' \in Buffer BY <1>5, WorkSends
  <2>2. ThreadType'
    <3>1. todo' = todo \ {c} /\ UNCHANGED <<template, pc>> BY <1>5 DEF SendBlockData
    <3> QED BY <2>1, <3>1 DEF ThreadType
  <2>3. MinerType'
    <3>1. UNCHANGED <<payloadNum, shares, failures>> BY <1>5 DEF SendBlockData
    <3>2. Unserved(c) \/ UNCHANGED state BY <1>5, WorkSends
    <3>3. state' \in [Clients -> States] BY <3>2 DEF Unserved, MinerType
    <3> QED BY <3>1, <3>3 DEF MinerType
  <2>4. WireType'
    <3>1. UNCHANGED wire \/ WireType' BY <1>5, WorkSends DEF Delivery
    <3> QED BY <3>1 DEF WireType, wire
  <2> QED BY <2>2, <2>3, <2>4
<1>6. ASSUME NEW c \in Clients, GenerateWorkFails(c) PROVE TypeInv'
  <2>1. ThreadType' BY <1>6 DEF GenerateWorkFails, ThreadType
  <2>2. MinerType' BY <1>6, BoundsAssumption DEF GenerateWorkFails, MinerType, Fails, Unserved
  <2>3. WireType' BY <1>6 DEF GenerateWorkFails, WireType, wire
  <2> QED BY <2>1, <2>2, <2>3
<1>7. ASSUME NEW c \in Clients, NEW valid \in BOOLEAN, NEW block, SubmitShare(c, valid, block) PROVE TypeInv'
  <2>1. PICK ok \in BOOLEAN : /\ shares' = [shares EXCEPT ![c] = Append(@, ok)]
                              /\ sendBuffer' \in Buffer /\ WireType'
    BY <1>7, ShareSends DEF Delivery
  <2>2. UNCHANGED <<template, pc, todo, state, payloadNum, failures>> BY <1>7 DEF SubmitShare
  <2>3. ThreadType' BY <2>1, <2>2 DEF ThreadType
  <2>4. MinerType' BY <2>1, <2>2 DEF MinerType
  <2> QED BY <2>1, <2>3, <2>4
<1>8. CASE NewTemplate
  <2>1. ThreadType' BY <1>8, BoundsAssumption DEF NewTemplate, ThreadType
  <2>2. MinerType' BY <1>8 DEF NewTemplate, MinerType
  <2>3. WireType' BY <1>8 DEF NewTemplate, WireType, wire
  <2> QED BY <2>1, <2>2, <2>3
<1>9. CASE WorkDone
  <2>1. ThreadType' BY <1>9 DEF WorkDone, ThreadType
  <2>2. MinerType' BY <1>9 DEF WorkDone, MinerType
  <2>3. WireType' BY <1>9 DEF WorkDone, WireType, wire
  <2> QED BY <2>1, <2>2, <2>3
<1>10. CASE UNCHANGED vars
  BY <1>10 DEF vars, thread, wire, ThreadType, MinerType, WireType
<1> QED BY <1>1, <1>2, <1>3, <1>4, <1>5, <1>6, <1>7, <1>8, <1>9, <1>10, Zenon DEF Next

LEMMA TypeInvariant == Spec => []TypeInv
BY InitType, NextType, PTL DEF Spec

(* TypeCorrect: the state has its types, and the packet buffer never goes  *)
(* beyond its limit, for every number of workloads and every size of it.   *)
THEOREM TypeCorrect == Spec => []TypeOK
<1>1. TypeInv => TypeOK
  <2> SUFFICES ASSUME TypeInv PROVE TypeOK OBVIOUS
  <2>1. sendBuffer.parserIndex \in 0..BufferLimit BY DEF TypeInv, ThreadType, Buffer
  <2> QED BY <2>1 DEF TypeInv, ThreadType, MinerType, WireType, TypeOK
<1> QED BY <1>1, TypeInvariant, PTL

-----------------------------------------------------------------------------
(* The packets. *)
Own(c, p) ==
    /\ p.size = Size(p.fields)
    /\ \/ p.opcode = AUTH_ACK /\ \E code \in 0..1 : p.fields = AuthFields(code)
       \/ p.opcode = WORKDATA1 /\ \E b \in 1..template : p.fields = WorkFields(c, b)
       \/ p.opcode = SHARE_ACK /\ \E k \in DOMAIN shares[c] : p.fields = ShareFields(k, shares[c][k])
       \/ p.opcode = PING /\ p.fields = PingFields
PacketInv == \A c \in Clients : \A i \in DOMAIN received[c] : Own(c, received[c][i])

(* The answers a miner has got, of those it can tell apart. *)
AnswerInv == \A c \in Clients \ lost :
    /\ Cardinality(AnswersUpTo(c, Len(received[c]))) = Len(shares[c])
    /\ \A i \in DOMAIN received[c] : received[c][i].opcode = SHARE_ACK =>
          received[c][i].fields[1].value.share = Cardinality(AnswersUpTo(c, i))

(* A step with regard to the streams of the miners: nothing is sent, or    *)
(* something that is not about a share, or a share is answered.            *)
Quiet == UNCHANGED <<received, lost, shares>>
Other(c, p) == shares' = shares /\ Delivery(c, p) /\ Own(c, p) /\ p.opcode # SHARE_ACK
Answering(c, ok) ==
    /\ shares' = [shares EXCEPT ![c] = Append(@, ok)]
    /\ Delivery(c, PacketOf(SHARE_ACK, ShareFields(Len(shares[c]) + 1, ok)))

LEMMA PacketFacts ==
    ASSUME NEW opcode \in Nat, NEW fields \in Seq(Fields)
    PROVE  /\ PacketOf(opcode, fields) \in Packet /\ PacketOf(opcode, fields).opcode = opcode
           /\ PacketOf(opcode, fields).fields = fields
           /\ PacketOf(opcode, fields).size = Size(fields)
BY SizeType DEF PacketOf, Packet

LEMMA Streams ==
    ASSUME TypeInv, [Next]_vars
    PROVE  \/ Quiet
           \/ \E c \in Clients, p \in Packet : Other(c, p)
           \/ \E c \in Clients, ok \in BOOLEAN : Answering(c, ok)
<1>1. ASSUME NEW c \in Clients, NEW code \in 0..1, Delivery(c, PacketOf(AUTH_ACK, AuthFields(code))),
             shares' = shares
      PROVE  \E p \in Packet : Other(c, p)
  <2> DEFINE p == PacketOf(AUTH_ACK, AuthFields(code))
  <2>1. AuthFields(code) \in Seq(Fields) BY AuthLayout
  <2>2. p \in Packet /\ p.opcode = AUTH_ACK /\ p.fields = AuthFields(code) /\ p.size = Size(p.fields)
    BY <2>1, PacketFacts, Opcodes
  <2>3. Delivery(c, p) BY <1>1
  <2> HIDE DEF p
  <2> QED BY <1>1, <2>2, <2>3, Opcodes DEF Other, Own
<1>2. ASSUME NEW c \in Clients, RejectLogin(c) PROVE \E p \in Packet : Other(c, p)
  BY <1>1, <1>2, RejectSends DEF RejectLogin
<1>3. ASSUME NEW c \in Clients, Login(c) PROVE \E p \in Packet : Other(c, p)
  BY <1>1, <1>3, LoginSends DEF Login
<1>4. ASSUME NEW c \in Clients, PingRequest(c) PROVE \E p \in Packet : Other(c, p)
  <2> DEFINE p == PacketOf(PING, PingFields)
  <2>1. Delivery(c, p) /\ shares' = shares BY <1>4, PingSends DEF PingRequest
  <2>2. PingFields \in Seq(Fields) BY PingLayout
  <2>3. p \in Packet /\ p.opcode = PING /\ p.fields = PingFields /\ p.size = Size(p.fields)
    BY <2>2, PacketFacts, Opcodes
  <2> HIDE DEF p
  <2> QED BY <2>1, <2>3, Opcodes DEF Other, Own
<1>5. ASSUME NEW c \in Clients, SendBlockData(c) PROVE Quiet \/ \E p \in Packet : Other(c, p)
  <2> DEFINE p == PacketOf(WORKDATA1, WorkFields(c, template))
  <2>1. shares' = shares BY <1>5 DEF SendBlockData
  <2>2. UNCHANGED wire \/ Delivery(c, p) BY <1>5, WorkSends
  <2>3. payloadNum[c] \in Nat /\ template \in Nat /\ template \in 1..template BY Numbers
  <2>4. WorkFields(c, template) \in Seq(Fields) BY <2>3, WorkLayout
  <2>5. p \in Packet /\ p.opcode = WORKDATA1 /\ p.fields = WorkFields(c, template) /\ p.size = Size(p.fields)
    BY <2>4, PacketFacts, Opcodes
  <2> HIDE DEF p
  <2> QED BY <2>1, <2>2, <2>3, <2>5, Opcodes DEF Other, Own, Quiet, wire
<1>6. ASSUME NEW c \in Clients, NEW valid \in BOOLEAN, NEW block, SubmitShare(c, valid, block)
      PROVE  \E ok \in BOOLEAN : Answering(c, ok)
  BY <1>6, ShareSends DEF Answering
<1>7. ASSUME NEW c \in Clients, Close(c) \/ GenerateWorkFails(c) PROVE Quiet
  BY <1>7 DEF Close, GenerateWorkFails, wire, Quiet
<1>8. CASE NewTemplate BY <1>8 DEF NewTemplate, wire, Quiet
<1>9. CASE WorkDone BY <1>9 DEF WorkDone, wire, Quiet
<1>10. CASE UNCHANGED vars BY <1>10 DEF vars, wire, Quiet
<1> QED BY <1>2, <1>3, <1>4, <1>5, <1>6, <1>7, <1>8, <1>9, <1>10, Zenon DEF Next

(* OwnStays: a packet remains right, whatever happens next. *)
LEMMA OwnStays ==
    ASSUME TypeInv, [Next]_vars, NEW c \in Clients, NEW p, Own(c, p)
    PROVE  Own(c, p)'
<1>1. payloadNum' = payloadNum
  BY DEF Next, vars, RejectLogin, Login, PingRequest, Close, SendBlockData, GenerateWorkFails, SubmitShare,
         NewTemplate, WorkDone
<1>2. template' = template \/ template' = template + 1
  BY DEF Next, vars, thread, RejectLogin, Login, PingRequest, Close, SendBlockData, GenerateWorkFails,
         SubmitShare, NewTemplate, WorkDone
<1>3. ASSUME NEW k \in DOMAIN shares[c] PROVE k \in DOMAIN shares'[c] /\ shares'[c][k] = shares[c][k]
  <2>1. shares \in [Clients -> Seq(BOOLEAN)] BY DEF TypeInv, MinerType
  <2>2. shares' = shares \/ \E d \in Clients, ok \in BOOLEAN : shares' = [shares EXCEPT ![d] = Append(@, ok)]
    BY Streams DEF Quiet, Other, Answering
  <2>3. ASSUME NEW d \in Clients, NEW ok \in BOOLEAN, shares' = [shares EXCEPT ![d] = Append(@, ok)]
        PROVE  k \in DOMAIN shares'[c] /\ shares'[c][k] = shares[c][k]
    <3>1. CASE d = c
      <4>1. shares[c] \in Seq(BOOLEAN) /\ shares'[c] = Append(shares[c], ok) BY <2>1, <2>3, <3>1
      <4> QED BY <4>1, AppendProperties
    <3>2. CASE d # c
      <4>1. shares'[c] = shares[c] BY <2>1, <2>3, <3>2
      <4> QED BY <4>1
    <3> QED BY <3>1, <3>2
  <2> QED BY <2>2, <2>3
<1>4. \A b : WorkFields(c, b)' = WorkFields(c, b) BY <1>1 DEF WorkFields
<1>5. 1..template \subseteq 1..template'
  <2>1. template \in Nat BY Numbers
  <2> QED BY <1>2, <2>1
<1> QED BY <1>3, <1>4, <1>5, Zenon DEF Own

(* Grows: the stream of a miner is the same, or has one packet more. *)
LEMMA Grows ==
    ASSUME TypeInv, NEW c \in Clients, NEW p \in Packet, Delivery(c, p), NEW d \in Clients
    PROVE  \/ received'[d] = received[d]
           \/ d = c /\ received'[d] = Append(received[d], p)
BY DEF Delivery, Told, TypeInv, WireType

LEMMA NextPacket == TypeInv /\ PacketInv /\ [Next]_vars => PacketInv'
<1> SUFFICES ASSUME TypeInv, PacketInv, [Next]_vars, NEW d \in Clients, NEW i \in DOMAIN received'[d],
                    NEW q, q = received'[d][i]
             PROVE  Own(d, q)'
  BY ZenonT(60) DEF PacketInv, Own
<1>1. received \in [Clients -> Seq(Packet)] BY DEF TypeInv, WireType
<1>2. ASSUME NEW j \in DOMAIN received[d], q = received[d][j] PROVE Own(d, q)'
  <2>1. Own(d, q) BY <1>2 DEF PacketInv
  <2> QED BY <2>1, OwnStays
<1>3. CASE Quiet BY <1>2, <1>3 DEF Quiet
<1>4. ASSUME NEW c \in Clients, NEW p \in Packet, Delivery(c, p), c = d => Own(c, p)'
      PROVE  Own(d, q)'
  <2>1. CASE received'[d] = received[d] BY <1>2, <2>1
  <2>2. CASE d = c /\ received'[d] = Append(received[d], p)
    <3>1. i \in DOMAIN received[d] \/ i = Len(received[d]) + 1 BY <1>1, <2>2
    <3>2. CASE i \in DOMAIN received[d]
      <4>1. received'[d][i] = received[d][i] BY <1>1, <2>2, <3>2
      <4> QED BY <1>2, <3>2, <4>1
    <3>3. CASE i = Len(received[d]) + 1
      <4>1. received'[d][i] = p BY <1>1, <2>2, <3>3
      <4>2. q = p /\ c = d BY <2>2, <4>1
      <4> QED BY <1>4, <4>2
    <3> QED BY <3>1, <3>2, <3>3
  <2> QED BY <1>4, <2>1, <2>2, Grows
<1>5. ASSUME NEW c \in Clients, NEW p \in Packet, Other(c, p) PROVE Own(d, q)'
  <2>1. Delivery(c, p) /\ Own(c, p) BY <1>5 DEF Other
  <2>2. Own(c, p)' BY <2>1, OwnStays
  <2> QED BY <1>4, <2>1, <2>2
<1>6. ASSUME NEW c \in Clients, NEW ok \in BOOLEAN, Answering(c, ok) PROVE Own(d, q)'
  <2>1. shares \in [Clients -> Seq(BOOLEAN)] BY DEF TypeInv, MinerType
  <2>2. PICK k : k = Len(shares[c]) + 1 OBVIOUS
  <2>3. k \in Nat BY <2>1, <2>2
  <2>4. k \in DOMAIN shares'[c] /\ shares'[c][k] = ok
    <3>1. shares[c] \in Seq(BOOLEAN) /\ shares'[c] = Append(shares[c], ok) BY <1>6, <2>1 DEF Answering
    <3> QED BY <2>2, <3>1, AppendProperties
  <2>5. PICK p : p = PacketOf(SHARE_ACK, ShareFields(k, ok)) OBVIOUS
  <2>6. Delivery(c, p) BY <1>6, <2>2, <2>5 DEF Answering
  <2>7. ShareFields(k, ok) \in Seq(Fields) BY <2>3, ShareLayout
  <2>8. p \in Packet /\ p.opcode = SHARE_ACK /\ p.fields = ShareFields(k, ok) /\ p.size = Size(p.fields)
    BY <2>5, <2>7, PacketFacts, Opcodes
  <2>9. Own(c, p)' BY <2>4, <2>8, Zenon DEF Own
  <2> QED BY <1>4, <2>6, <2>8, <2>9
<1> QED BY <1>3, <1>5, <1>6, Streams

(* OwnPackets: every packet a miner understands is one of its own, with    *)
(* the layout of its opcode and its size in the header, although all are   *)
(* put together in one buffer and some are given up half way.              *)
THEOREM OwnPackets == Spec => []PacketsAreTheirOwn
<1>1. Init => PacketInv BY DEF Init, PacketInv
<1>2. PacketInv => PacketsAreTheirOwn
  <2> SUFFICES ASSUME PacketInv, NEW c \in Clients, NEW i \in DOMAIN received[c], NEW p, p = received[c][i]
               PROVE  p.fields \in Layouts(c, p) /\ p.size = Size(p.fields)
    BY Zenon DEF PacketsAreTheirOwn
  <2>1. Own(c, p) BY DEF PacketInv
  <2>2. CASE p.opcode = AUTH_ACK
    <3>1. Layouts(c, p) = {AuthFields(code) : code \in 0..1} BY <2>2, Opcodes DEF Layouts
    <3> QED BY <2>1, <2>2, <3>1, Opcodes DEF Own
  <2>3. CASE p.opcode = WORKDATA1
    <3>1. Layouts(c, p) = {WorkFields(c, b) : b \in 1..template} BY <2>3, Opcodes DEF Layouts
    <3> QED BY <2>1, <2>3, <3>1, Opcodes DEF Own
  <2>4. CASE p.opcode = SHARE_ACK
    <3>1. Layouts(c, p) = {ShareFields(k, shares[c][k]) : k \in DOMAIN shares[c]} BY <2>4, Opcodes DEF Layouts
    <3> QED BY <2>1, <2>4, <3>1, Opcodes DEF Own
  <2>5. CASE p.opcode = PING
    <3>1. Layouts(c, p) = {PingFields} BY <2>5, Opcodes DEF Layouts
    <3> QED BY <2>1, <2>5, <3>1, Opcodes DEF Own
  <2> QED BY <2>1, <2>2, <2>3, <2>4, <2>5 DEF Own
<1> QED BY <1>1, <1>2, NextPacket, TypeInvariant, PTL DEF Spec

-----------------------------------------------------------------------------
(* The order of the answers. *)

(* The indices up to i of the answers to shares in a stream. *)
AckIn(stream, i) == {j \in 1..i : stream[j].opcode = SHARE_ACK}
Ordered(stream, n) ==
    /\ Cardinality(AckIn(stream, Len(stream))) = n
    /\ \A i \in DOMAIN stream : stream[i].opcode = SHARE_ACK =>
          stream[i].fields[1].value.share = Cardinality(AckIn(stream, i))

LEMMA AnswerInvIs == AnswerInv <=> \A c \in Clients \ lost : Ordered(received[c], Len(shares[c]))
BY DEF AnswerInv, AnswersUpTo, Ordered, AckIn

LEMMA AckFinite == ASSUME NEW stream, NEW i \in Nat
                   PROVE  /\ IsFiniteSet(AckIn(stream, i)) /\ Cardinality(AckIn(stream, i)) \in Nat
                          /\ i + 1 \notin AckIn(stream, i)
<1>1. IsFiniteSet(1..i) BY FS_Interval
<1>2. AckIn(stream, i) \subseteq 1..i BY DEF AckIn
<1>3. IsFiniteSet(AckIn(stream, i)) BY <1>1, <1>2, FS_Subset
<1> QED BY <1>2, <1>3, FS_CardinalityType

LEMMA OneMore ==
    ASSUME NEW stream \in Seq(Packet), NEW n \in Nat, Ordered(stream, n), NEW p \in Packet
    PROVE  /\ p.opcode # SHARE_ACK => Ordered(Append(stream, p), n)
           /\ p.opcode = SHARE_ACK /\ p.fields[1].value.share = n + 1 => Ordered(Append(stream, p), n + 1)
<1> DEFINE t == Append(stream, p)
           m == Len(stream)
<1>1. /\ m \in Nat /\ t \in Seq(Packet) /\ Len(t) = m + 1 /\ t[m + 1] = p
      /\ \A j \in 1..m : t[j] = stream[j]
  OBVIOUS
<1>2. DOMAIN t = 1..(m + 1) /\ DOMAIN stream = 1..m BY <1>1
<1> HIDE DEF t, m
<1>3. ASSUME NEW i \in 0..m PROVE AckIn(t, i) = AckIn(stream, i)
  <2>1. 1..i \subseteq 1..m BY <1>1
  <2> QED BY <1>1, <2>1 DEF AckIn
<1>4. AckIn(t, m + 1) = IF p.opcode = SHARE_ACK THEN AckIn(stream, m) \cup {m + 1} ELSE AckIn(stream, m)
  <2>1. 1..(m + 1) = (1..m) \cup {m + 1} BY <1>1
  <2>2. AckIn(t, m) = AckIn(stream, m) BY <1>1, <1>3
  <2> QED BY <1>1, <2>1, <2>2 DEF AckIn
<1>5. Cardinality(AckIn(stream, m)) = n BY DEF Ordered, m
<1>6. ASSUME p.opcode = SHARE_ACK PROVE Cardinality(AckIn(t, m + 1)) = n + 1
  <2>1. /\ IsFiniteSet(AckIn(stream, m)) /\ m + 1 \notin AckIn(stream, m) BY <1>1, AckFinite
  <2>2. Cardinality(AckIn(stream, m) \cup {m + 1}) = n + 1 BY <1>5, <2>1, FS_AddElement
  <2> QED BY <1>4, <1>6, <2>2
<1>7. ASSUME p.opcode # SHARE_ACK PROVE Cardinality(AckIn(t, m + 1)) = n BY <1>4, <1>5, <1>7
<1>8. ASSUME NEW i \in 1..m, t[i].opcode = SHARE_ACK
      PROVE  t[i].fields[1].value.share = Cardinality(AckIn(t, i))
  <2>1. t[i] = stream[i] /\ AckIn(t, i) = AckIn(stream, i) BY <1>1, <1>3
  <2> QED BY <1>2, <1>8, <2>1 DEF Ordered
<1>9. CASE p.opcode # SHARE_ACK
  <2>1. ASSUME NEW i \in DOMAIN t, t[i].opcode = SHARE_ACK
        PROVE  t[i].fields[1].value.share = Cardinality(AckIn(t, i))
    <3>1. i \in 1..m BY <1>1, <1>2, <1>9, <2>1
    <3> QED BY <1>8, <2>1, <3>1
  <2>2. Ordered(t, n) BY <1>1, <1>7, <1>9, <2>1 DEF Ordered
  <2> QED BY <1>9, <2>2 DEF t
<1>10. CASE p.opcode = SHARE_ACK /\ p.fields[1].value.share = n + 1
  <2>1. ASSUME NEW i \in DOMAIN t, t[i].opcode = SHARE_ACK
        PROVE  t[i].fields[1].value.share = Cardinality(AckIn(t, i))
    <3>1. CASE i \in 1..m BY <1>8, <2>1, <3>1
    <3>2. CASE i = m + 1 BY <1>1, <1>6, <1>10, <3>2
    <3> QED BY <1>1, <1>2, <3>1, <3>2
  <2>2. Ordered(t, n + 1) BY <1>1, <1>6, <1>10, <2>1 DEF Ordered
  <2> QED BY <1>10, <2>2 DEF t
<1> QED BY <1>9, <1>10

LEMMA NextAnswer == TypeInv /\ AnswerInv /\ [Next]_vars => AnswerInv'
<1> SUFFICES ASSUME TypeInv, AnswerInv, [Next]_vars, NEW d \in Clients, d \notin lost'
             PROVE  Ordered(received'[d], Len(shares'[d]))
  BY DEF AnswerInv, AnswersUpTo, Ordered, AckIn
<1>1. received \in [Clients -> Seq(Packet)] /\ shares \in [Clients -> Seq(BOOLEAN)]
  BY DEF TypeInv, WireType, MinerType
<1>2. received[d] \in Seq(Packet) /\ Len(shares[d]) \in Nat BY <1>1
<1>3. d \notin lost => Ordered(received[d], Len(shares[d])) BY AnswerInvIs
<1>4. CASE Quiet BY <1>3, <1>4 DEF Quiet
<1>5. ASSUME NEW c \in Clients, NEW p \in Packet, Other(c, p)
      PROVE  Ordered(received'[d], Len(shares'[d]))
  <2>1. d \notin lost /\ shares' = shares BY <1>5 DEF Other, Delivery
  <2>2. p.opcode # SHARE_ACK BY <1>5 DEF Other
  <2>3. received'[d] = received[d] \/ received'[d] = Append(received[d], p)
    BY <1>5, Grows DEF Other
  <2> QED BY <1>2, <1>3, <2>1, <2>2, <2>3, OneMore
<1>6. ASSUME NEW c \in Clients, NEW ok \in BOOLEAN, Answering(c, ok)
      PROVE  Ordered(received'[d], Len(shares'[d]))
  <2>1. d \notin lost BY <1>6 DEF Answering, Delivery
  <2>2. PICK k : k = Len(shares[c]) + 1 OBVIOUS
  <2>3. PICK p : p = PacketOf(SHARE_ACK, ShareFields(k, ok)) OBVIOUS
  <2>4. Delivery(c, p) /\ shares' = [shares EXCEPT ![c] = Append(@, ok)] BY <1>6, <2>2, <2>3 DEF Answering
  <2>5. k \in Nat BY <1>1, <2>2
  <2>6. ShareFields(k, ok) \in Seq(Fields) BY <2>5, ShareLayout
  <2>7. p \in Packet /\ p.opcode = SHARE_ACK /\ p.fields = ShareFields(k, ok)
    BY <2>3, <2>6, PacketFacts, Opcodes
  <2>8. CASE d = c
    <3>1. received'[d] = Append(received[d], p) BY <1>1, <2>4, <2>8 DEF Delivery, Told
    <3>2. Len(shares'[d]) = Len(shares[d]) + 1 BY <1>1, <2>4, <2>8
    <3>3. p.fields[1].value.share = k BY <2>7 DEF ShareFields, U32, Field
    <3> QED BY <1>2, <1>3, <2>1, <2>2, <2>7, <2>8, <3>1, <3>2, <3>3, OneMore
  <2>9. CASE d # c
    <3>1. received'[d] = received[d] BY <2>4, <2>7, <2>9, Grows
    <3>2. shares'[d] = shares[d] BY <1>1, <2>4, <2>9
    <3> QED BY <1>3, <2>1, <3>1, <3>2
  <2> QED BY <2>8, <2>9
<1> QED BY <1>4, <1>5, <1>6, Streams

(* AnswersInOrder: the answers in a miner's stream are those to its shares *)
(* in the order it sent them, for any number of shares and miners.         *)
THEOREM AnswersInOrder == Spec => []AnswersMatchShares
<1>1. Init => AnswerInv
  <2> SUFFICES ASSUME Init, NEW c \in Clients PROVE Ordered(received[c], Len(shares[c])) BY AnswerInvIs
  <2>1. received[c] = <<>> /\ Len(shares[c]) = 0 BY DEF Init
  <2>2. AckIn(<<>>, 0) = {} BY DEF AckIn
  <2>3. Len(received[c]) = 0 /\ DOMAIN received[c] = {} BY <2>1
  <2> QED BY <2>1, <2>2, <2>3, FS_EmptySet DEF Ordered
<1>2. AnswerInv => AnswersMatchShares BY DEF AnswerInv, AnswersMatchShares
<1> QED BY <1>1, <1>2, NextAnswer, TypeInvariant, PTL DEF Spec

-----------------------------------------------------------------------------
(* Logins and work. *)
HasWork(c) == \E i \in DOMAIN received[c] : received[c][i].opcode = WORKDATA1
Welcomed(c) == \E i \in DOMAIN received[c] : received[c][i].fields = AuthFields(0)

(* A miner that has to have its work has it, or is the one whose login is  *)
(* being handled.                                                          *)
WorkInv == \A c \in Clients \ lost : Entitled(c) => HasWork(c) \/ (pc = "login" /\ todo = {c})

(* Kept: a stream that grows keeps its work, and if it got no other answer *)
(* to a login its miner was welcomed before.                               *)
LEMMA Kept ==
    ASSUME TypeInv, NEW c \in Clients, NEW p \in Packet, Delivery(c, p), NEW d \in Clients
    PROVE  /\ HasWork(d) => HasWork(d)'
           /\ Welcomed(d)' => Welcomed(d) \/ (d = c /\ p.fields = AuthFields(0))
           /\ d = c /\ d \notin lost' /\ p.opcode = WORKDATA1 => HasWork(d)'
<1>1. received[d] \in Seq(Packet) BY DEF TypeInv, WireType
<1>2. AuthFields(0)' = AuthFields(0) BY DEF AuthFields, U32, Text, Field
<1>3. CASE received'[d] = received[d] /\ ~(d = c /\ d \notin lost')
  BY <1>2, <1>3 DEF HasWork, Welcomed
<1>4. CASE d = c /\ received'[d] = Append(received[d], p)
  <2> DEFINE t == Append(received[d], p)
             m == Len(received[d])
  <2>1. /\ m \in Nat /\ DOMAIN t = 1..(m + 1) /\ DOMAIN received[d] = 1..m /\ t[m + 1] = p
        /\ \A j \in 1..m : t[j] = received[d][j]
    BY <1>1
  <2>2. received'[d] = t BY <1>4
  <2> HIDE DEF t, m
  <2>3. \A j \in DOMAIN t : j \in DOMAIN received[d] \/ j = m + 1 BY <2>1
  <2>4. HasWork(d) => HasWork(d)' BY <2>1, <2>2 DEF HasWork
  <2>5. Welcomed(d)' => Welcomed(d) \/ p.fields = AuthFields(0) BY <1>2, <2>1, <2>2, <2>3 DEF Welcomed
  <2>6. p.opcode = WORKDATA1 => HasWork(d)' BY <2>1, <2>2, Opcodes DEF HasWork
  <2> QED BY <1>4, <2>4, <2>5, <2>6
<1>5. d = c /\ d \notin lost' => received'[d] = Append(received[d], p)
  BY DEF Delivery, Told, TypeInv, WireType
<1> QED BY <1>3, <1>4, <1>5, Grows

LEMMA Layout1 == /\ AuthFields(1) # AuthFields(0) /\ PingFields # AuthFields(0)
                 /\ \A k, ok : ShareFields(k, ok) # AuthFields(0)
<1>1. AuthFields(0)[1].value = 0 /\ AuthFields(1)[1].value = 1 BY DEF AuthFields, U32, Field
<1>2. Len(AuthFields(0)) = 2 /\ Len(PingFields) = 1 BY DEF AuthFields, PingFields
<1>3. ASSUME NEW k, NEW ok PROVE Len(ShareFields(k, ok)) = 3 BY DEF ShareFields
<1> QED BY <1>1, <1>2, <1>3

LEMMA NextWork == BufferLimit >= 4092 /\ TypeInv /\ WorkInv /\ [Next]_vars => WorkInv'
<1> SUFFICES ASSUME BufferLimit >= 4092, TypeInv, WorkInv, [Next]_vars, NEW d \in Clients, d \notin lost',
                    Entitled(d)'
             PROVE  HasWork(d)' \/ (pc' = "login" /\ todo' = {d})
  BY DEF WorkInv
<1> USE DEF To
<1>1. /\ state \in [Clients -> States] /\ payloadNum[d] \in Nat
      /\ failures \in Nat /\ lost \subseteq Clients
  BY Numbers, BoundsAssumption DEF TypeInv, MinerType, WireType
<1>2. d \notin lost /\ Entitled(d) => HasWork(d) \/ (pc = "login" /\ todo = {d}) BY DEF WorkInv
<1>3. Entitled(d) <=> \/ state[d] = "in"
                      \/ /\ failures = 0 /\ state[d] # "left" /\ payloadNum[d] \in 1..126 /\ Welcomed(d)
  BY DEF Entitled, Welcomed
<1>4. \/ state'[d] = "in"
      \/ /\ failures' = 0 /\ state'[d] # "left" /\ payloadNum'[d] \in 1..126 /\ Welcomed(d)'
  BY DEF Entitled, Welcomed
<1>5. ASSUME NEW c \in Clients, RejectLogin(c) PROVE HasWork(d)'
  <2> DEFINE p == PacketOf(AUTH_ACK, AuthFields(1))
  <2>1. Delivery(c, p) BY <1>5, RejectSends
  <2>2. p \in Packet /\ p.fields = AuthFields(1) BY AuthLayout, PacketFacts, Opcodes
  <2> HIDE DEF p
  <2>3. pc = "events" /\ state' = [state EXCEPT ![c] = "dropped"] /\ payloadNum' = payloadNum
        /\ (failures' = failures \/ failures' = failures + 1)
        /\ state[c] = "new"
    BY <1>5 DEF RejectLogin, Fails
  <2>4. d \notin lost BY <2>1 DEF Delivery
  <2>5. Welcomed(d)' => Welcomed(d) BY <2>1, <2>2, Kept, Layout1
  <2>6. Entitled(d)
    <3>1. CASE state'[d] = "in" BY <1>1, <1>3, <2>3, <3>1
    <3>2. CASE state'[d] # "in"
      <4>1. failures = 0 BY <1>1, <1>4, <2>3, <3>2
      <4>2. state[d] # "left" BY <1>1, <1>4, <2>3, <3>2
      <4> QED BY <1>3, <1>4, <2>3, <2>5, <3>2, <4>1, <4>2
    <3> QED BY <3>1, <3>2
  <2>7. HasWork(d) BY <1>2, <2>3, <2>4, <2>6
  <2> QED BY <2>1, <2>2, <2>7, Kept
<1>6. ASSUME NEW c \in Clients, Login(c) PROVE HasWork(d)' \/ (pc' = "login" /\ todo' = {d})
  <2>1. CASE d = c BY <1>6, <2>1 DEF Login
  <2>2. CASE d # c
    <3> DEFINE p == PacketOf(AUTH_ACK, AuthFields(0))
    <3>1. Delivery(c, p) BY <1>6, LoginSends
    <3>2. p \in Packet BY AuthLayout, PacketFacts, Opcodes
    <3> HIDE DEF p
    <3>3. pc = "events" /\ state' = [state EXCEPT ![c] = "in"] /\ payloadNum' = payloadNum
          /\ failures' = failures
      BY <1>6 DEF Login
    <3>4. d \notin lost BY <3>1 DEF Delivery
    <3>5. Welcomed(d)' => Welcomed(d) BY <2>2, <3>1, <3>2, Kept
    <3>6. Entitled(d) BY <1>1, <1>3, <1>4, <2>2, <3>3, <3>5
    <3>7. HasWork(d) BY <1>2, <3>3, <3>4, <3>6
    <3> QED BY <3>1, <3>2, <3>7, Kept
  <2> QED BY <2>1, <2>2
<1>7. ASSUME NEW c \in Clients, NEW p \in Packet, Delivery(c, p), p.fields # AuthFields(0),
             pc = "events", UNCHANGED <<state, payloadNum, failures>>
      PROVE  HasWork(d)'
  <2>1. d \notin lost BY <1>7 DEF Delivery
  <2>2. Welcomed(d)' => Welcomed(d) BY <1>7, Kept
  <2>3. Entitled(d) BY <1>3, <1>4, <1>7, <2>2
  <2>4. HasWork(d) BY <1>2, <1>7, <2>1, <2>3
  <2> QED BY <1>7, <2>4, Kept
<1>8. ASSUME NEW c \in Clients, PingRequest(c) PROVE HasWork(d)'
  <2> DEFINE p == PacketOf(PING, PingFields)
  <2>1. Delivery(c, p) BY <1>8, PingSends
  <2>2. p \in Packet /\ p.fields = PingFields BY PingLayout, PacketFacts, Opcodes
  <2>3. pc = "events" /\ UNCHANGED <<state, payloadNum, failures>> BY <1>8 DEF PingRequest
  <2> HIDE DEF p
  <2> QED BY <1>7, <2>1, <2>2, <2>3, Layout1
<1>9. ASSUME NEW c \in Clients, NEW valid \in BOOLEAN, NEW block, SubmitShare(c, valid, block) PROVE HasWork(d)'
  <2>1. PICK ok \in BOOLEAN : Delivery(c, PacketOf(SHARE_ACK, ShareFields(Len(shares[c]) + 1, ok)))
    BY <1>9, ShareSends
  <2>2. PICK k : k = Len(shares[c]) + 1 OBVIOUS
  <2>3. k \in Nat BY <2>2 DEF TypeInv, MinerType
  <2> DEFINE p == PacketOf(SHARE_ACK, ShareFields(k, ok))
  <2>4. Delivery(c, p) BY <2>1, <2>2
  <2>5. p \in Packet /\ p.fields = ShareFields(k, ok)
    <3>1. ShareFields(k, ok) \in Seq(Fields) BY <2>3, ShareLayout
    <3> QED BY <3>1, PacketFacts, Opcodes
  <2>6. pc = "events" /\ UNCHANGED <<state, payloadNum, failures>> BY <1>9 DEF SubmitShare
  <2> HIDE DEF p
  <2> QED BY <1>7, <2>4, <2>5, <2>6, Layout1
<1>10. ASSUME NEW c \in Clients, SendBlockData(c) PROVE HasWork(d)'
  <2>1. c \in todo /\ UNCHANGED <<payloadNum, failures>> BY <1>10 DEF SendBlockData
  <2>2. CASE /\ Unserved(c) /\ UNCHANGED wire /\ payloadNum[c] > 126
    <3>1. received' = received /\ lost' = lost BY <2>2 DEF wire
    <3>2. d # c
      <4> SUFFICES ASSUME d = c PROVE FALSE OBVIOUS
      <4>1. state'[c] # "in" BY <1>1, <2>2 DEF Unserved
      <4>2. payloadNum[c] \in 1..126 BY <1>4, <2>1, <4>1
      <4> QED BY <1>1, <2>2, <4>2
    <3>3. state'[d] = state[d] BY <1>1, <2>2, <3>2 DEF Unserved
    <3>4. Entitled(d) BY <2>1, <3>1, <3>3 DEF Entitled
    <3>5. HasWork(d) BY <1>2, <2>1, <3>1, <3>2, <3>4
    <3> QED BY <3>1, <3>5 DEF HasWork
  <2>3. CASE UNCHANGED state /\ Delivery(c, PacketOf(WORKDATA1, WorkFields(c, template)))
    <3> DEFINE p == PacketOf(WORKDATA1, WorkFields(c, template))
    <3>1. payloadNum[c] \in Nat /\ template \in Nat BY Numbers
    <3>2. p \in Packet /\ p.opcode = WORKDATA1
      <4>1. WorkFields(c, template) \in Seq(Fields) BY <3>1, WorkLayout
      <4> QED BY <4>1, PacketFacts, Opcodes
    <3>3. Delivery(c, p) BY <2>3
    <3> HIDE DEF p
    <3>4. CASE d = c BY <3>2, <3>3, <3>4, Kept
    <3>5. CASE d # c
      <4>1. d \notin lost BY <3>3 DEF Delivery
      <4>2. Welcomed(d)' => Welcomed(d) BY <3>2, <3>3, <3>5, Kept
      <4>3. Entitled(d) BY <1>3, <1>4, <2>1, <2>3, <4>2
      <4>4. HasWork(d) BY <1>2, <2>1, <3>5, <4>1, <4>3
      <4> QED BY <3>2, <3>3, <4>4, Kept
    <3> QED BY <3>4, <3>5
  <2> QED BY <1>10, <2>2, <2>3, WorkSends
<1>11. ASSUME NEW c \in Clients, GenerateWorkFails(c) PROVE HasWork(d)'
  <2>1. c \in todo /\ received' = received /\ lost' = lost /\ failures' = failures + 1 /\ Unserved(c)
    BY <1>11 DEF GenerateWorkFails, Fails, wire
  <2>2. failures' # 0 BY <1>1, <2>1
  <2>3. state'[d] = "in" BY <1>4, <2>2
  <2>4. d # c /\ state[d] = "in" BY <1>1, <2>1, <2>3 DEF Unserved
  <2>5. HasWork(d) BY <1>2, <1>3, <2>1, <2>4
  <2> QED BY <2>1, <2>5 DEF HasWork
<1>12. ASSUME NEW c \in Clients, Close(c) PROVE HasWork(d)'
  <2>1. pc = "events" /\ UNCHANGED <<received, lost, payloadNum, failures>>
        /\ state' = [state EXCEPT ![c] = "left"]
    BY <1>12 DEF Close, wire
  <2>2. d # c BY <1>1, <1>4, <2>1
  <2>3. Entitled(d) BY <1>1, <2>1, <2>2 DEF Entitled
  <2>4. HasWork(d) BY <1>2, <2>1, <2>3
  <2> QED BY <2>1, <2>4 DEF HasWork
<1>13. CASE NewTemplate
  <2>1. pc = "events" /\ UNCHANGED <<received, lost, payloadNum, failures, state>>
    BY <1>13 DEF NewTemplate, wire
  <2>2. Entitled(d) BY <2>1 DEF Entitled
  <2> QED BY <1>2, <2>1, <2>2 DEF HasWork
<1>14. CASE WorkDone
  <2>1. todo = {} /\ UNCHANGED <<received, lost, payloadNum, failures, state>>
    BY <1>14 DEF WorkDone, wire
  <2>2. Entitled(d) BY <2>1 DEF Entitled
  <2> QED BY <1>2, <2>1, <2>2 DEF HasWork
<1>15. CASE UNCHANGED vars
  <2>1. UNCHANGED <<received, lost, payloadNum, failures, state, pc, todo>>
    BY <1>15 DEF vars, thread, wire
  <2>2. Entitled(d) BY <2>1 DEF Entitled
  <2> QED BY <1>2, <2>1, <2>2 DEF HasWork
<1> DEFINE Goal == HasWork(d)' \/ (pc' = "login" /\ todo' = {d})
<1>16. ASSUME NEW c \in Clients,
              \/ RejectLogin(c) \/ Login(c) \/ PingRequest(c) \/ Close(c)
              \/ SendBlockData(c) \/ GenerateWorkFails(c)
       PROVE  Goal
  BY <1>5, <1>6, <1>8, <1>10, <1>11, <1>12, <1>16
<1>17. ASSUME NEW c \in Clients, NEW valid \in BOOLEAN, NEW block, SubmitShare(c, valid, block) PROVE Goal
  BY <1>9, <1>17
<1>18. NewTemplate \/ WorkDone \/ UNCHANGED vars => Goal BY <1>13, <1>14, <1>15
<1>19. Goal
  <2> HIDE DEF Goal
  <2> QED BY <1>16, <1>17, <1>18 DEF Next
<1> QED BY <1>19

(* LoginsGetWork: in a buffer of 4092 bytes or more, every miner that is   *)
(* logged in has its work once the thread is back in its loop, whatever    *)
(* failed for the others; 126 workloads always fit.                        *)
THEOREM LoginsGetWork == BufferLimit >= 4092 /\ Spec => []SuccessMeansWork
<1> SUFFICES ASSUME BufferLimit >= 4092 PROVE Spec => []SuccessMeansWork OBVIOUS
<1>1. Init => WorkInv
  <2> SUFFICES ASSUME Init, NEW c \in Clients PROVE ~Entitled(c) BY DEF WorkInv
  <2>1. state[c] = "new" /\ received[c] = <<>> BY DEF Init
  <2> QED BY <2>1 DEF Entitled
<1>2. WorkInv => SuccessMeansWork BY DEF WorkInv, SuccessMeansWork, HasWork
<1>3. TypeInv /\ WorkInv /\ [Next]_vars => WorkInv' BY NextWork
<1> QED BY <1>1, <1>2, <1>3, TypeInvariant, PTL DEF Spec
=============================================================================
