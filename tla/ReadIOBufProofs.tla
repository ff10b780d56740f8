--------------------------- MODULE ReadIOBufProofs ---------------------------
(* Theorems about ReadIOBuf: that the blocks are well formed and that the text *)
(* of a core is a snapshot of its log. Two inductions over data are needed,    *)
(* over the blocks that are joined and over the reads that make up a block;    *)
(* the first is done with NatInductive, the second by division.                *)
EXTENDS ReadIOBuf, WellFoundedInduction, TLAPS

-----------------------------------------------------------------------------
(* Arithmetic                                                              *)

\* Induction over the naturals, for a set T of them: the theorem of the library
\* takes an operator, this one is the well-foundedness of < applied to Nat \ T.
LEMMA NatInductive ==
  ASSUME NEW T, 0 \in T, \A n \in Nat : n \in T => n + 1 \in T
  PROVE  Nat \subseteq T
<1>. SUFFICES ASSUME Nat \ T # {} PROVE FALSE
  OBVIOUS
<1>. DEFINE Less == {ss \in Nat \X Nat : ss[1] < ss[2]}
            Rest == Nat \ T
<1>1. IsWellFoundedOn(Less, Nat)
  BY NatLessThanWellFounded, Zenon DEF OpToRel
<1>2. Rest \subseteq Nat /\ Rest # {}
  OBVIOUS
<1>3. PICK x \in Rest : \A y \in Rest : ~(<<y, x>> \in Less)
  <2>. HIDE DEF Less, Rest
  <2>. QED BY <1>1, <1>2, WFMin
<1>4. x \in Nat /\ x # 0 /\ x - 1 \in Nat /\ <<x - 1, x>> \in Less
  OBVIOUS
<1>5. x - 1 \in T
  BY <1>3, <1>4
<1>6. (x - 1) + 1 = x
  BY <1>4
<1>. QED  BY <1>4, <1>5, <1>6

\* The quotient and the remainder of a division.
LEMMA ModTwo ==
  ASSUME NEW R \in Nat \ {0}, NEW a \in Int
  PROVE /\ a \div R \in Int /\ a % R \in 0..R-1
        /\ a = R * (a \div R) + (a % R)
  OBVIOUS

\* A product by at least one is at least the other factor.
LEMMA Mult ==
  ASSUME NEW R \in Nat \ {0}, NEW d \in Int, d >= 1
  PROVE  R * d >= R
  OBVIOUS

\* Multiplication distributes over subtraction.
LEMMA Distr ==
  ASSUME NEW R \in Nat \ {0}, NEW d \in Int, NEW q \in Int
  PROVE  R * (d - q) = R * d - R * q
  OBVIOUS

\* The remainder is the one number below the divisor that is left over.
LEMMA ModUnique ==
  ASSUME NEW R \in Nat \ {0}, NEW q \in Int, NEW r \in 0..R-1, NEW a \in Int, a = R * q + r
  PROVE  a % R = r
<1>. DEFINE d == a \div R
            m == a % R
<1>1. d \in Int /\ m \in 0..R-1 /\ a = R * d + m
  BY ModTwo
<1>. HIDE DEF d, m
<1>2. R * (d - q) = r - m
  <2>1. R * (d - q) = R * d - R * q
    BY <1>1, Distr
  <2>2. R * d \in Int /\ R * q \in Int
    BY <1>1
  <2>. QED BY <1>1, <2>1, <2>2
<1>3. ~(d - q >= 1)
  <2>1. d - q >= 1 => R * (d - q) >= R
    BY <1>1, Mult
  <2>. QED BY <1>1, <1>2, <2>1
<1>4. ~(q - d >= 1)
  <2>1. q - d >= 1 => R * (q - d) >= R
    BY <1>1, Mult
  <2>2. R * (q - d) = m - r
    <3>1. R * (q - d) = R * q - R * d
      BY <1>1, Distr
    <3>2. R * d \in Int /\ R * q \in Int
      BY <1>1
    <3>. QED BY <1>1, <3>1, <3>2
  <2>. QED BY <1>1, <2>1, <2>2
<1>5. d = q
  BY <1>1, <1>3, <1>4
<1>6. m = r
  BY <1>1, <1>5
<1>. QED BY <1>6 DEF m

\* The starts got, got + R, got + 2R, ... leave no gap: every j from got on lies
\* less than R after one of them, at or before j itself.
LEMMA Cover ==
  ASSUME NEW R \in Nat \ {0}, NEW got \in Nat, NEW j \in Nat, j >= got
  PROVE  \E k \in got..j : (k - got) % R = 0 /\ j < k + R
<1>. DEFINE a == j - got
            m == a % R
            q == a \div R
<1>1. a \in Nat /\ q \in Int /\ m \in 0..R-1 /\ a = R * q + m
  BY ModTwo
<1>. HIDE DEF q, m
<1>2. R * q >= 0
  <2>1. R * q \in Int
    BY <1>1
  <2>2. CASE q >= 0
    BY <1>1, <2>2
  <2>3. CASE q <= -1
    <3>1. R * (0 - q) >= R
      BY <1>1, <2>3, Mult
    <3>2. R * (0 - q) = R * 0 - R * q
      BY <1>1, Distr
    <3>. QED BY <1>1, <2>1, <3>1, <3>2
  <2>. QED BY <1>1, <2>2, <2>3
<1>3. (R * q) % R = 0
  BY <1>1, ModUnique
<1>4. R * q = a - m
  BY <1>1
<1>5. (j - m) \in got..j /\ (j - m) - got = a - m /\ j < j - m + R
  BY <1>1, <1>2, <1>4
<1>. QED  BY <1>3, <1>4, <1>5

-----------------------------------------------------------------------------
(* Sizes and places                                                        *)

\* What Min of the community modules is on a pair.
LEMMA MinOfTwo ==
  ASSUME NEW a \in Int, NEW b \in Int
  PROVE  Min({a, b}) = IF a <= b THEN a ELSE b
  BY DEF Min

\* where the text of block n begins in the log of its core
Start(n) == n * BlockSize

\* Every block starts a block after its predecessor, the first one at 0.
LEMMA StartFacts ==
  /\ Start(0) = 0
  /\ \A n \in Nat : /\ Start(n) \in Nat
                    /\ Start(n + 1) = Start(n) + BlockSize
<1>1. BlockSize \in Nat
  BY SizeAssumption
<1>2. 0 * BlockSize = 0
  BY <1>1
<1>3. ASSUME NEW n \in Nat
      PROVE  n * BlockSize \in Nat /\ (n + 1) * BlockSize = n * BlockSize + BlockSize
  BY <1>1
<1>. QED BY <1>2, <1>3 DEF Start

-----------------------------------------------------------------------------
(* Texts                                                                   *)

\* the log of a core that printed k bytes
UpTo(k) == [j \in 1..k |-> j]

\* 1, 2, ..., k as a sequence.
LEMMA UpToType ==
  ASSUME NEW k \in Nat
  PROVE  UpTo(k) \in Seq(Nat) /\ Len(UpTo(k)) = k /\ \A j \in 1..k : UpTo(k)[j] = j
  BY DEF UpTo

\* The elements of a concatenation.
LEMMA CatElements ==
  ASSUME NEW u \in Seq(Nat), NEW t \in Seq(Nat)
  PROVE  /\ u \o t \in Seq(Nat)
         /\ Len(u \o t) = Len(u) + Len(t)
         /\ \A j \in 1..Len(u) : (u \o t)[j] = u[j]
         /\ \A j \in Len(u) + 1 .. Len(u) + Len(t) : (u \o t)[j] = t[j - Len(u)]
  OBVIOUS

\* Two sequences of the same length and elements are equal.
LEMMA SameSeq ==
  ASSUME NEW u \in Seq(Nat), NEW v \in Seq(Nat), Len(u) = Len(v), \A j \in 1..Len(u) : u[j] = v[j]
  PROVE  u = v
  OBVIOUS

\* Counting goes on: 1..k followed by k + 1, k + 2, ... is counting too.
LEMMA Joined ==
  ASSUME NEW k \in Nat, NEW t \in Seq(Nat), \A j \in 1..Len(t) : t[j] = k + j
  PROVE  UpTo(k) \o t = UpTo(k + Len(t))
<1>. DEFINE u == UpTo(k)
            n == k + Len(t)
            v == UpTo(n)
            w == u \o t
<1>1. n \in Nat /\ Len(t) \in Nat
  OBVIOUS
<1>2. /\ u \in Seq(Nat) /\ Len(u) = k /\ \A j \in 1..k : u[j] = j
      /\ v \in Seq(Nat) /\ Len(v) = n /\ \A j \in 1..n : v[j] = j
  BY <1>1, UpToType
<1>. HIDE DEF u, v
<1>3. /\ w \in Seq(Nat) /\ Len(w) = n
      /\ \A j \in 1..k : w[j] = u[j]
      /\ \A j \in k + 1 .. n : w[j] = t[j - k]
  <2>1. /\ u \o t \in Seq(Nat)
        /\ Len(u \o t) = Len(u) + Len(t)
        /\ \A j \in 1..Len(u) : (u \o t)[j] = u[j]
        /\ \A j \in Len(u) + 1 .. Len(u) + Len(t) : (u \o t)[j] = t[j - Len(u)]
    BY <1>2, CatElements
  <2>2. Len(u) = k
    BY <1>2
  <2>. QED BY <2>1, <2>2
<1>. HIDE DEF w
<1>4. ASSUME NEW j \in 1..n
      PROVE  w[j] = v[j]
  <2>1. CASE j <= k
    BY <1>1, <1>2, <1>3, <2>1
  <2>2. CASE j > k
    <3>1. j - k \in 1..Len(t) /\ j \in k + 1 .. n
      BY <1>1, <2>2
    <3>2. t[j - k] = j
      BY <3>1
    <3>. QED BY <1>2, <1>3, <3>1, <3>2
  <2>. QED BY <1>1, <2>1, <2>2
<1>. HIDE DEF n
<1>5. w = v
  BY <1>2, <1>3, <1>4, SameSeq
<1>. QED BY <1>5 DEF u, v, w, n

\* the bytes of the blocks count on from each other, the blocks being full
Counting(s) ==
    /\ s \in Seq(Seq(Nat)) /\ s # <<>>
    /\ \A i \in 1..Len(s) - 1 : Len(s[i]) = BlockSize
    /\ \A i \in 1..Len(s) : \A j \in 1..Len(s[i]) : s[i][j] = Start(i - 1) + j

\* What FlattenSeq, a recursive function, returns for blocks that count on from
\* each other and of which all but the last are full: 1, 2, ... to the end of the
\* last (read_iobuf joins the texts of the blocks).
LEMMA FlattenFull ==
  ASSUME NEW s, Counting(s)
  PROVE  FlattenSeq(s) = UpTo(Start(Len(s) - 1) + Len(s[Len(s)]))
<1>. DEFINE Upto(i) == UpTo(Start(i - 1) + Len(s[i]))
            Step(f) == [i \in 1..Len(s) |-> IF i = 1 THEN s[i] ELSE f[i-1] \o s[i]]
            F == CHOOSE f : f = Step(f)
            W == [i \in 1..Len(s) |-> Upto(i)]
<1>1. Len(s) \in Nat \ {0} /\ \A i \in 1..Len(s) : s[i] \in Seq(Nat) /\ Len(s[i]) \in Nat
  BY DEF Counting
<1>2. FlattenSeq(s) = F[Len(s)]
  BY <1>1 DEF FlattenSeq
<1>3. s[1] = Upto(1)
  <2>1. s[1] \in Seq(Nat) /\ Start(1 - 1) = 0 /\ 1 \in 1..Len(s)
    <3>1. 1 - 1 = 0
      OBVIOUS
    <3>2. Start(1 - 1) = 0
      BY <3>1, StartFacts
    <3>. QED BY <1>1, <3>2
  <2>. DEFINE l == Len(s[1])
  <2>0. l \in Nat
    BY <1>1, <2>1
  <2>2. \A j \in 1..Len(s[1]) : s[1][j] = j
    BY <2>1 DEF Counting
  <2>3. Start(1 - 1) + Len(s[1]) = Len(s[1])
    BY <2>1
  <2>4. UpTo(l) \in Seq(Nat) /\ Len(UpTo(l)) = l /\ \A j \in 1..l : UpTo(l)[j] = j
    BY <2>0, UpToType
  <2>. QED  BY <2>1, <2>2, <2>3, <2>4, SameSeq
<1>4. ASSUME NEW i \in 1..Len(s) - 1
      PROVE  Upto(i) \o s[i + 1] = Upto(i + 1)
  <2>. DEFINE k == Start(i)
              t == s[i + 1]
  <2>1. i \in 1..Len(s) /\ i + 1 \in 1..Len(s) /\ t \in Seq(Nat) /\ i \in Nat \ {0}
    BY <1>1
  <2>2. Len(s[i]) = BlockSize
    BY DEF Counting
  <2>3. k = Start(i - 1) + Len(s[i]) /\ k \in Nat
    BY <2>1, <2>2, StartFacts
  <2>5. \A j \in 1..Len(t) : t[j] = k + j
    BY <2>1 DEF Counting
  <2>6. Upto(i + 1) = UpTo(k + Len(t))
    OBVIOUS
  <2>7. Upto(i) = UpTo(k)
    BY <2>3
  <2>. HIDE DEF k, t
  <2>8. UpTo(k) \o t = UpTo(k + Len(t))
    BY <2>1, <2>3, <2>5, Joined
  <2>. QED  BY <2>6, <2>7, <2>8 DEF t
<1>. HIDE DEF Upto
<1>5. W = Step(W)
  <2>. SUFFICES ASSUME NEW i \in 1..Len(s)
                PROVE  W[i] = IF i = 1 THEN s[i] ELSE W[i-1] \o s[i]
    OBVIOUS
  <2>1. CASE i = 1
    BY <1>1, <1>3, <2>1
  <2>2. CASE i # 1
    <3>1. i - 1 \in 1..Len(s) - 1 /\ i - 1 \in 1..Len(s) /\ (i - 1) + 1 = i
      BY <1>1, <2>2
    <3>2. Upto(i - 1) \o s[(i - 1) + 1] = Upto((i - 1) + 1)
      BY <1>4, <3>1
    <3>3. W[i] = Upto(i) /\ W[i - 1] = Upto(i - 1)
      BY <3>1
    <3>. HIDE DEF W
    <3>. QED BY <2>2, <3>1, <3>2, <3>3
  <2>. QED BY <2>1, <2>2
<1>6. F = Step(F)
  <2>. HIDE DEF Step, W
  <2>. QED  BY <1>5
<1>7. \A n \in Nat : n + 1 \in 1..Len(s) => F[n + 1] = Upto(n + 1)
  <2>. HIDE DEF F
  <2>0. \A i \in 1..Len(s) : F[i] = IF i = 1 THEN s[i] ELSE F[i - 1] \o s[i]
    <3>1. \A i \in 1..Len(s) : Step(F)[i] = IF i = 1 THEN s[i] ELSE F[i - 1] \o s[i]
      OBVIOUS
    <3>. HIDE DEF Step
    <3>. QED BY <1>6, <3>1
  <2>. DEFINE T == {n \in Nat : n + 1 \in 1..Len(s) => F[n + 1] = Upto(n + 1)}
  <2>1. 0 \in T
    <3>1. 1 \in 1..Len(s) /\ F[1] = s[1]
      BY <1>1, <2>0
    <3>. QED BY <1>3, <3>1
  <2>2. ASSUME NEW n \in Nat, n \in T
        PROVE  n + 1 \in T
    <3>. DEFINE i == n + 1
    <3>. SUFFICES ASSUME i + 1 \in 1..Len(s)
                  PROVE  F[i + 1] = Upto(i + 1)
      OBVIOUS
    <3>0. i \in Nat /\ i # 0
      OBVIOUS
    <3>1. i \in 1..Len(s) - 1 /\ F[i] = Upto(i)
      BY <1>1, <2>2
    <3>. HIDE DEF i
    <3>2. F[i + 1] = F[(i + 1) - 1] \o s[i + 1] /\ (i + 1) - 1 = i
      <4>1. i + 1 # 1 /\ (i + 1) - 1 = i
        BY <3>0
      <4>. QED BY <2>0, <4>1
    <3>3. Upto(i) \o s[i + 1] = Upto(i + 1)
      BY <3>1, <1>4
    <3>. QED BY <3>1, <3>2, <3>3
  <2>. HIDE DEF T
  <2>3. Nat \subseteq T
    BY <2>1, <2>2, NatInductive
  <2>. QED BY <2>3 DEF T
<1>8. Len(s) - 1 \in Nat /\ (Len(s) - 1) + 1 = Len(s) /\ Len(s) \in 1..Len(s)
  BY <1>1
<1>. HIDE DEF F
<1>9. F[Len(s)] = Upto(Len(s))
  BY <1>7, <1>8
<1>. QED  BY <1>2, <1>9 DEF Upto

-----------------------------------------------------------------------------
(* The invariant                                                           *)

\* blocks whose start is asked for, or to be
Regs == {r \in next_reads \cup asked : r.kind = "region"}

\* heads of chains that are asked for
Heads == {r \in asked : r.kind = "address"}

\* tails asked for, or to be
PendingTails == {r \in extra_reads \cup asked : r.kind = "tail"}
Blocks == [n : Nat, data : Seq(Nat)]

Pending(c) == \E r \in Regs : r.core = c
Unread(c) == \E r \in Heads : r.core = c

\* how far the blocks read reach
Total(c) ==
    IF iobuf[c] = <<>> THEN 0
    ELSE Start(Len(iobuf[c]) - 1) + Len(iobuf[c][Len(iobuf[c])].data)

Types ==
    /\ printed \in [Cores -> 0..MaxPrinted]
    /\ started \in [Cores -> 0..MaxPrinted]
    /\ next_reads \subseteq Regions
    /\ extra_reads \subseteq Tails
    /\ asked \subseteq Addresses \cup Regions \cup Tails
    /\ iobuf \in [Cores -> Seq(Blocks)]
    /\ errors \in BOOLEAN
    /\ pc \in {"addresses", "extras", "nexts", "finish", "done", "raised"}

\* a block is not asked for and to be asked for at once
Apart == next_reads \cap asked = {}

\* a core has one request that can lengthen its chain: for the head while there is
\* no block, and then for the block after those that are there
OneRequest ==
    /\ \A r \in Regs : r.n = Len(iobuf[r.core]) /\ Exists(r.core, r.n)
    /\ \A r \in Heads : iobuf[r.core] = <<>> /\ ~Pending(r.core)

\* block i of core c: in place, full unless it is the end, and no longer than the log
Chained(c, i) ==
    /\ iobuf[c][i].n = i - 1
    /\ Len(iobuf[c][i].data) \in 1..BlockSize
    /\ i < Len(iobuf[c]) \/ Pending(c) => Len(iobuf[c][i].data) = BlockSize
    /\ Start(i - 1) + Len(iobuf[c][i].data) <= printed[c]

Chain == \A c \in Cores : \A i \in 1..Len(iobuf[c]) : Chained(c, i)

\* a chain without such a request reaches the end that the log had at the beginning
ToTheEnd ==
    \A c \in Cores :
        /\ started[c] <= printed[c]
        /\ errors \/ Unread(c) \/ Pending(c) \/ Total(c) >= started[c]

\* every tail belongs to a block that is there
TailsInside ==
    \A t \in PendingTails :
        /\ t.n + 1 \in 1..Len(iobuf[t.core])
        /\ t.offset + t.size <= Len(iobuf[t.core][t.n + 1].data)

\* byte j of block i is in a tail still to come
Awaited(c, i, j) ==
    \E t \in PendingTails :
        t.core = c /\ t.n = i - 1 /\ j > t.offset /\ j <= t.offset + t.size

\* every byte is there or will be
FilledIn ==
    \A c \in Cores : \A i \in 1..Len(iobuf[c]) :
        \A j \in 1..Len(iobuf[c][i].data) :
            \/ iobuf[c][i].data[j] = Start(i - 1) + j
            \/ errors
            \/ Awaited(c, i, j)

\* read_iobuf ends with nothing open
AllAnswered ==
    pc = "done" => asked = {} /\ extra_reads = {} /\ next_reads = {} /\ ~errors

\* The inductive invariant.
IInv ==
    /\ Types /\ Apart /\ OneRequest /\ Chain /\ ToTheEnd
    /\ TailsInside /\ FilledIn /\ AllAnswered

-----------------------------------------------------------------------------
(* What follows from the types                                             *)

\* The kinds of requests and their fields.
LEMMA Kinds ==
  ASSUME Types
  PROVE  /\ Regs \subseteq Regions /\ Heads \subseteq Addresses /\ PendingTails \subseteq Tails
         /\ \A r \in Regions : r.kind = "region" /\ r.core \in Cores /\ r.n \in Nat
         /\ \A r \in Addresses : r.kind = "address" /\ r.core \in Cores
         /\ \A r \in Tails : /\ r.kind = "tail" /\ r.core \in Cores /\ r.n \in Nat
                             /\ r.offset \in Nat /\ r.size \in Nat
         /\ next_reads \subseteq Regs
<1>1. /\ \A r \in Regions : r.kind = "region" /\ r.core \in Cores /\ r.n \in Nat
      /\ \A r \in Addresses : r.kind = "address" /\ r.core \in Cores
      /\ \A r \in Tails : /\ r.kind = "tail" /\ r.core \in Cores /\ r.n \in Nat
                          /\ r.offset \in Nat /\ r.size \in Nat
  BY DEF Regions, Addresses, Tails
<1>2. \A r \in next_reads \cup extra_reads \cup asked :
          r \in Regions \/ r \in Addresses \/ r \in Tails
  BY DEF Types
<1>3. \A r \in next_reads : r.kind = "region"
  BY <1>1 DEF Types
<1>. QED BY <1>1, <1>2, <1>3 DEF Regs, Heads, PendingTails

\* A request for a block is determined by its core and number.
LEMMA SameRegion ==
  ASSUME NEW r \in Regions, NEW s \in Regions, r.core = s.core, r.n = s.n
  PROVE  r = s
  BY DEF Regions

\* A request for a head is determined by its core.
LEMMA SameAddress ==
  ASSUME NEW r \in Addresses, NEW s \in Addresses, r.core = s.core
  PROVE  r = s
  BY DEF Addresses

\* The sizes, and that the first read brings the header whole.
LEMMA Sizes ==
  /\ BlockSize \in Nat /\ BlockSize >= 1 /\ ReadSize \in Nat \ {0}
  /\ HeaderSize \in Nat
  /\ FirstRead - HeaderSize \in Nat
<1>1. FirstRead = IF BlockSize + HeaderSize <= ReadSize THEN BlockSize + HeaderSize ELSE ReadSize
  BY SizeAssumption, MinOfTwo DEF FirstRead
<1>. QED BY <1>1, SizeAssumption

\* The types of what is kept for a core.
LEMMA Lengths ==
  ASSUME Types, NEW c \in Cores
  PROVE  /\ iobuf[c] \in Seq(Blocks) /\ Len(iobuf[c]) \in Nat
         /\ printed[c] \in Nat /\ started[c] \in Nat
         /\ \A i \in 1..Len(iobuf[c]) :
              /\ iobuf[c][i] \in Blocks /\ iobuf[c][i].n \in Nat
              /\ iobuf[c][i].data \in Seq(Nat) /\ Len(iobuf[c][i].data) \in Nat
<1>1. iobuf[c] \in Seq(Blocks) /\ Len(iobuf[c]) \in Nat /\ printed[c] \in Nat /\ started[c] \in Nat
  BY SizeAssumption DEF Types
<1>2. \A b \in Blocks : b.n \in Nat /\ b.data \in Seq(Nat) /\ Len(b.data) \in Nat
  BY DEF Blocks
<1>3. \A i \in 1..Len(iobuf[c]) : iobuf[c][i] \in Blocks
  BY <1>1
<1>. QED BY <1>1, <1>2, <1>3

\* A block that exists is not empty; it is full when it has a successor, and
\* otherwise the log ends in it.
LEMMA InBlockSize ==
  ASSUME Types, NEW c \in Cores, NEW n \in Nat, Exists(c, n)
  PROVE  /\ InBlock(c, n) \in 1..BlockSize
         /\ Start(n) + InBlock(c, n) <= printed[c]
         /\ Exists(c, n + 1) => InBlock(c, n) = BlockSize
         /\ ~Exists(c, n + 1) => Start(n) + InBlock(c, n) = printed[c]
<1>1. Start(n) \in Nat /\ Start(n + 1) = Start(n) + BlockSize /\ printed[c] \in Nat
  BY StartFacts, Lengths
<1>2. InBlock(c, n) = IF BlockSize <= printed[c] - Start(n) THEN BlockSize
          ELSE printed[c] - Start(n)
  BY <1>1, Sizes, MinOfTwo DEF InBlock, Start
<1>3. /\ printed[c] > Start(n)
      /\ Exists(c, n + 1) <=> printed[c] > Start(n + 1)
  BY DEF Exists, Start
<1>. QED BY <1>1, <1>2, <1>3, Sizes

\* The tails of a block lie inside it and cover what the first read left.
LEMMA TailsOfBlock ==
  ASSUME NEW r \in Regions, NEW got \in Nat, NEW bytes \in Nat
  PROVE  /\ TailsOf(r, got, bytes) \subseteq Tails
         /\ \A t \in TailsOf(r, got, bytes) :
              t.core = r.core /\ t.n = r.n /\ t.offset + t.size <= bytes
         /\ \A j \in got + 1 .. bytes : \E t \in TailsOf(r, got, bytes) :
              t.core = r.core /\ t.n = r.n /\ j > t.offset /\ j <= t.offset + t.size
<1>0. r.core \in Cores /\ r.n \in Nat
  BY DEF Regions
<1>. DEFINE Starts == {k \in got..(bytes - 1) : (k - got) % ReadSize = 0}
            tail(o) == [kind |-> "tail", core |-> r.core, n |-> r.n, offset |-> o,
                        size |-> Min({ReadSize, bytes - o})]
<1>1. TailsOf(r, got, bytes) = {tail(o) : o \in Starts}
  BY DEF TailsOf
<1>2. ASSUME NEW o \in Starts
      PROVE  /\ tail(o) \in Tails /\ tail(o).core = r.core /\ tail(o).n = r.n
             /\ tail(o).offset = o
             /\ tail(o).size = IF ReadSize <= bytes - o THEN ReadSize ELSE bytes - o
             /\ tail(o).offset + tail(o).size <= bytes
  <2>1. o \in Nat /\ o <= bytes - 1
    OBVIOUS
  <2>2. Min({ReadSize, bytes - o}) = IF ReadSize <= bytes - o THEN ReadSize ELSE bytes - o
    BY <2>1, Sizes, MinOfTwo
  <2>3. Min({ReadSize, bytes - o}) \in Nat /\ o + Min({ReadSize, bytes - o}) <= bytes
    BY <2>1, <2>2, Sizes
  <2>. QED BY <1>0, <2>1, <2>2, <2>3 DEF Tails
<1>3. ASSUME NEW j \in got + 1 .. bytes
      PROVE  \E o \in Starts : j > tail(o).offset /\ j <= tail(o).offset + tail(o).size
  <2>1. j - 1 \in Nat /\ j - 1 >= got
    OBVIOUS
  <2>2. PICK k \in got..(j - 1) : (k - got) % ReadSize = 0 /\ j - 1 < k + ReadSize
    BY <2>1, Sizes, Cover
  <2>3. k \in Starts
    BY <2>2
  <2>4. j > k /\ j <= k + ReadSize /\ j <= k + (bytes - k)
    BY <2>2, Sizes
  <2>5. j > tail(k).offset /\ j <= tail(k).offset + tail(k).size
    <3>. HIDE DEF Starts, tail
    <3>. QED BY <1>2, <2>3, <2>4
  <2>. QED BY <2>3, <2>5
<1>. HIDE DEF Starts, tail
<1>. QED BY <1>1, <1>2, <1>3

-----------------------------------------------------------------------------
(* The steps                                                               *)

\* the parts of the invariant that are about the log
LogInv == OneRequest /\ Chain /\ ToTheEnd /\ TailsInside /\ FilledIn

\* Initially.
LEMMA InitIInv == Init => IInv
<1>. SUFFICES ASSUME Init PROVE IInv
  OBVIOUS
<1>1. Types
  <2>1. <<>> \in Seq(Blocks)
    OBVIOUS
  <2>2. iobuf \in [Cores -> Seq(Blocks)]
    BY <2>1 DEF Init
  <2>. QED BY <2>2 DEF Init, Types, Addresses
<1>2. Regs = {} /\ PendingTails = {} /\ \A c \in Cores : Unread(c)
  <2>1. ASSUME NEW r \in asked PROVE r.kind = "address"
    BY DEF Init
  <2>2. Regs = {} /\ PendingTails = {}
    BY <2>1 DEF Init, Regs, PendingTails
  <2>3. ASSUME NEW c \in Cores PROVE Unread(c)
    <3>. DEFINE r == [kind |-> "address", core |-> c]
    <3>1. r \in Heads /\ r.core = c
      BY DEF Init, Heads
    <3>. QED BY <3>1 DEF Unread
  <2>. QED BY <2>2, <2>3
<1>3. Apart /\ AllAnswered
  BY DEF Init, Apart, AllAnswered
<1>4. OneRequest
  <2>1. \A r \in Heads : r.core \in Cores
    BY <1>1, Kinds
  <2>. QED BY <1>2, <2>1 DEF Init, OneRequest, Pending
<1>5. Chain /\ FilledIn
  BY DEF Init, Chain, FilledIn
<1>6. ToTheEnd
  BY <1>1, <1>2, Lengths DEF ToTheEnd, Init
<1>7. TailsInside
  BY <1>2 DEF TailsInside
<1>. QED BY <1>1, <1>3, <1>4, <1>5, <1>6, <1>7 DEF IInv

\* A step that puts no block in, changes none, and adds no request keeps the facts
\* about the log; if it takes a request away, an error was noted.
LEMMA Steady ==
  ASSUME Types, Types', LogInv,
         iobuf' = iobuf, started' = started,
         Regs' \subseteq Regs, Heads' \subseteq Heads, PendingTails' \subseteq PendingTails,
         \A c \in Cores : printed'[c] >= printed[c],
         errors => errors',
         errors' \/ (Regs' = Regs /\ Heads' = Heads /\ PendingTails' = PendingTails)
  PROVE  LogInv'
<1>1. \A c \in Cores : Pending(c)' => Pending(c)
  BY DEF Pending
<1>2. errors' \/ \A c \in Cores : (Pending(c)' <=> Pending(c)) /\ (Unread(c)' <=> Unread(c))
  BY DEF Pending, Unread
<1>3. \A c \in Cores : printed[c] \in Nat /\ printed'[c] \in Nat /\ started[c] \in Nat
  BY SizeAssumption DEF Types
<1>4. OneRequest'
  <2>1. ASSUME NEW r \in Regs'
        PROVE  r.n = Len(iobuf[r.core]) /\ Exists(r.core, r.n)'
    <3>1. r.n = Len(iobuf[r.core]) /\ Exists(r.core, r.n) /\ r.core \in Cores /\ r.n \in Nat
      BY Kinds DEF LogInv, OneRequest
    <3>2. Start(r.n) \in Nat
      BY <3>1, StartFacts
    <3>. QED BY <1>3, <3>1, <3>2 DEF Exists, Start
  <2>2. ASSUME NEW r \in Heads'
        PROVE  iobuf[r.core] = <<>> /\ ~Pending(r.core)'
    <3>1. r.core \in Cores
      BY Kinds
    <3>. QED BY <1>1, <3>1 DEF LogInv, OneRequest
  <2>. QED BY <2>1, <2>2 DEF OneRequest
<1>5. Chain'
  <2>. SUFFICES ASSUME NEW c \in Cores, NEW i \in 1..Len(iobuf[c])
                PROVE  Chained(c, i)'
    BY DEF Chain
  <2>1. Chained(c, i)
    BY DEF LogInv, Chain
  <2>2. Start(i - 1) \in Nat /\ Len(iobuf[c][i].data) \in Nat
    <3>1. i - 1 \in Nat
      BY Lengths
    <3>. QED BY <3>1, StartFacts, Lengths
  <2>. QED BY <1>1, <1>3, <2>1, <2>2 DEF Chained
<1>6. ToTheEnd'
  BY <1>2, <1>3 DEF LogInv, ToTheEnd, Total
<1>7. TailsInside'
  BY DEF LogInv, TailsInside
<1>8. FilledIn'
  <2>. SUFFICES ASSUME NEW c \in Cores, NEW i \in 1..Len(iobuf[c]), NEW j \in
            1..Len(iobuf[c][i].data), ~errors'
                PROVE  iobuf[c][i].data[j] = Start(i - 1) + j \/ Awaited(c, i, j)'
    BY DEF FilledIn
  <2>1. iobuf[c][i].data[j] = Start(i - 1) + j \/ Awaited(c, i, j)
    BY DEF LogInv, FilledIn
  <2>. QED BY <2>1 DEF Awaited
<1>. QED BY <1>4, <1>5, <1>6, <1>7, <1>8 DEF LogInv

\* The cases of a reply.
LEMMA Received ==
  ASSUME Types, NEW r \in asked, Receive(r)
  PROVE  /\ asked' = asked \ {r} /\ UNCHANGED <<printed, pc, started>>
         /\ \/ errors' = TRUE /\ UNCHANGED <<next_reads, extra_reads, iobuf>>
            \/ r \in Heads /\ HandleAddress(r) /\ UNCHANGED errors
            \/ r \in Regs /\ HandleRegion(r) /\ UNCHANGED errors
            \/ r \in PendingTails /\ HandleTail(r) /\ UNCHANGED errors
<1>1. r \in Heads \/ r \in Regs \/ r \in PendingTails
  BY Kinds DEF Types, Heads, Regs, PendingTails
<1>2. /\ r \in Heads => r.kind = "address"
      /\ r \in Regs => r.kind = "region"
      /\ r \in PendingTails => r.kind = "tail"
  BY DEF Heads, Regs, PendingTails
<1>. QED BY <1>1, <1>2 DEF Receive

\* The head of a chain arrives.
LEMMA AddressStep ==
  ASSUME IInv, NEW r \in asked, r \in Heads, HandleAddress(r), UNCHANGED errors,
         asked' = asked \ {r}, UNCHANGED <<printed, pc, started>>
  PROVE  IInv'
<1>. USE DEF IInv
<1>. DEFINE c == r.core
            first == [kind |-> "region", core |-> c, n |-> 0]
<1>1. c \in Cores /\ r \in Addresses /\ r.kind = "address"
  BY Kinds
<1>2. iobuf' = iobuf /\ extra_reads' = extra_reads
  BY DEF HandleAddress
<1>3. iobuf[c] = <<>> /\ ~Pending(c)
  BY DEF OneRequest
<1>4. first \in Regions /\ first.kind = "region" /\ first.core = c /\ first.n = 0
  BY <1>1 DEF Regions
<1>5. next_reads' = IF Exists(c, 0) THEN next_reads \cup {first} ELSE next_reads
  BY DEF HandleAddress
<1>6. Types'
  BY <1>2, <1>4, <1>5 DEF Types
<1>7. /\ Regs' = IF Exists(c, 0) THEN Regs \cup {first} ELSE Regs
      /\ Heads' = Heads \ {r}
      /\ PendingTails' = PendingTails
  <2>1. Regs' = {s \in next_reads' \cup asked : s.kind = "region"}
    BY <1>1 DEF Regs
  <2>2. PendingTails' = PendingTails
    BY <1>1, <1>2 DEF PendingTails
  <2>. HIDE DEF first
  <2>. QED BY <1>4, <1>5, <2>1, <2>2 DEF Regs, Heads
<1>. HIDE DEF first
<1>8. first \notin asked
  BY <1>3, <1>4 DEF Pending, Regs
<1>9. Apart' /\ AllAnswered'
  BY <1>5, <1>8 DEF Apart, AllAnswered
<1>10. ASSUME NEW d \in Cores, d # c
       PROVE  (Pending(d)' <=> Pending(d)) /\ (Unread(d)' <=> Unread(d))
  BY <1>4, <1>7, <1>10 DEF Pending, Unread
<1>11. /\ Exists(c, 0) => Pending(c)'
       /\ ~Exists(c, 0) => printed[c] = 0
  <2>1. Exists(c, 0) => Pending(c)'
    BY <1>4, <1>7 DEF Pending
  <2>2. printed[c] \in Nat /\ (~Exists(c, 0) => ~(printed[c] > 0))
    BY <1>1, Lengths, Sizes DEF Exists
  <2>. QED BY <2>1, <2>2
<1>12. OneRequest'
  <2>1. ASSUME NEW s \in Regs'
        PROVE  s.n = Len(iobuf[s.core]) /\ Exists(s.core, s.n)
    <3>1. CASE s \in Regs
      BY <3>1 DEF OneRequest
    <3>2. CASE s = first /\ Exists(c, 0)
      BY <1>3, <1>4, <3>2
    <3>. QED BY <1>7, <3>1, <3>2
  <2>2. ASSUME NEW s \in Heads'
        PROVE  iobuf[s.core] = <<>> /\ ~Pending(s.core)'
    <3>1. s \in Heads /\ s # r /\ s \in Addresses /\ s.core \in Cores
      BY <1>7, Kinds
    <3>2. s.core # c
      BY <1>1, <3>1, SameAddress
    <3>. QED BY <1>10, <3>1, <3>2 DEF OneRequest
  <2>3. Exists(c, 0)' <=> Exists(c, 0)
    BY DEF Exists
  <2>. QED BY <1>2, <2>1, <2>2 DEF OneRequest, Exists
<1>13. Chain'
  <2>. SUFFICES ASSUME NEW d \in Cores, NEW i \in 1..Len(iobuf[d])
                PROVE  Chained(d, i)'
    BY <1>2 DEF Chain
  <2>1. d # c
    BY <1>3
  <2>. QED BY <1>2, <1>10, <2>1 DEF Chain, Chained
<1>14. ToTheEnd'
  <2>. SUFFICES ASSUME NEW d \in Cores
                PROVE  started[d] <= printed[d] /\ (errors \/ Unread(d)' \/ Pending(d)' \/
                          Total(d) >= started[d])
    BY <1>2 DEF ToTheEnd, Total
  <2>1. CASE d = c
    BY <1>1, <1>3, <1>11, <2>1, Lengths DEF ToTheEnd, Total
  <2>2. CASE d # c
    BY <1>10, <2>2 DEF ToTheEnd
  <2>. QED BY <2>1, <2>2
<1>15. TailsInside' /\ FilledIn'
  BY <1>2, <1>7 DEF TailsInside, FilledIn, Awaited
<1>. QED BY <1>6, <1>9, <1>12, <1>13, <1>14, <1>15

\* What HandleRegion puts in: a block as long as the log in it, each byte filled in
\* or covered by a tail that it asks for.
LEMMA NewBlock ==
  ASSUME IInv, NEW r \in Regs, HandleRegion(r)
  PROVE  \E b \in Blocks :
           /\ b.n = r.n /\ Len(b.data) = InBlock(r.core, r.n)
           /\ iobuf' = [iobuf EXCEPT ![r.core] = Append(@, b)]
           /\ extra_reads' \subseteq extra_reads \cup Tails
           /\ extra_reads \subseteq extra_reads'
           /\ \A t \in extra_reads' \ extra_reads :
                t.core = r.core /\ t.n = r.n /\ t.offset + t.size <= Len(b.data)
           /\ \A j \in 1..Len(b.data) :
                \/ b.data[j] = Start(r.n) + j
                \/ \E t \in extra_reads' :
                     t.core = r.core /\ t.n = r.n /\ j > t.offset /\ j <= t.offset + t.size
<1>. USE DEF IInv
<1>. DEFINE bytes == InBlock(r.core, r.n)
            got == Min({FirstRead - HeaderSize, bytes})
            data == [i \in 1..bytes |-> IF i <= got THEN ByteAt(r.core, r.n, i) ELSE 0]
            b == [n |-> r.n, data |-> data]
<1>1. r \in Regions /\ r.core \in Cores /\ r.n \in Nat /\ Exists(r.core, r.n)
  BY Kinds DEF OneRequest
<1>2. bytes \in Nat
  BY <1>1, InBlockSize, Sizes
<1>3. got \in Nat /\ got <= bytes
  BY <1>2, Sizes, MinOfTwo
<1>4. Start(r.n) \in Nat /\ \A i \in Nat : ByteAt(r.core, r.n, i) = Start(r.n) + i
  BY <1>1, StartFacts DEF ByteAt, Start
<1>5. /\ iobuf' = [iobuf EXCEPT ![r.core] = Append(@, b)]
      /\ extra_reads' = extra_reads \cup TailsOf(r, got, bytes)
  BY DEF HandleRegion
<1>. HIDE DEF bytes, got
<1>6. data \in Seq(Nat) /\ Len(data) = bytes /\ \A j \in 1..got : data[j] = Start(r.n) + j
  BY <1>2, <1>3, <1>4
<1>. HIDE DEF data
<1>7. b \in Blocks /\ b.n = r.n /\ b.data = data
  BY <1>1, <1>6 DEF Blocks
<1>8. /\ TailsOf(r, got, bytes) \subseteq Tails
      /\ \A t \in TailsOf(r, got, bytes) : t.core = r.core /\ t.n = r.n
                /\ t.offset + t.size <= bytes
      /\ \A j \in got + 1 .. bytes : \E t \in TailsOf(r, got, bytes) :
           t.core = r.core /\ t.n = r.n /\ j > t.offset /\ j <= t.offset + t.size
  BY <1>1, <1>2, <1>3, TailsOfBlock
<1>9. \A j \in 1..bytes : j \in 1..got \/ j \in got + 1 .. bytes
  BY <1>2, <1>3
<1>. HIDE DEF b
<1>10. \A j \in 1..bytes : \/ b.data[j] = Start(r.n) + j
                           \/ \E t \in extra_reads' :
                                t.core = r.core /\ t.n = r.n /\ j > t.offset
                                          /\ j <= t.offset + t.size
  BY <1>5, <1>6, <1>7, <1>8, <1>9
<1>. QED BY <1>5, <1>6, <1>7, <1>8, <1>10 DEF bytes

\* The start of a block arrives.
LEMMA RegionStep ==
  ASSUME IInv, NEW r \in asked, r \in Regs, HandleRegion(r), UNCHANGED errors,
         asked' = asked \ {r}, UNCHANGED <<printed, pc, started>>
  PROVE  IInv'
<1>. USE DEF IInv
<1>. DEFINE c == r.core
            n == r.n
            next == [r EXCEPT !.n = @ + 1]
<1>1. c \in Cores /\ r \in Regions /\ n \in Nat /\ n = Len(iobuf[c]) /\ Exists(c, n)
          /\ r.kind = "region"
  BY Kinds DEF OneRequest
<1>2. PICK b \in Blocks :
           /\ b.n = n /\ Len(b.data) = InBlock(c, n)
           /\ iobuf' = [iobuf EXCEPT ![c] = Append(@, b)]
           /\ extra_reads' \subseteq extra_reads \cup Tails
           /\ extra_reads \subseteq extra_reads'
           /\ \A t \in extra_reads' \ extra_reads :
                t.core = c /\ t.n = n /\ t.offset + t.size <= Len(b.data)
           /\ \A j \in 1..Len(b.data) :
                \/ b.data[j] = Start(n) + j
                \/ \E t \in extra_reads' : t.core = c /\ t.n = n /\ j > t.offset
                          /\ j <= t.offset + t.size
  BY NewBlock
<1>3. next \in Regions /\ next.kind = "region" /\ next.core = c /\ next.n = n + 1 /\ next # r
  BY <1>1 DEF Regions
<1>4. next_reads' = IF Exists(c, n + 1) THEN next_reads \cup {next} ELSE next_reads
  BY DEF HandleRegion
<1>. HIDE DEF next
<1>5. /\ Len(b.data) \in 1..BlockSize
      /\ Start(n) + Len(b.data) <= printed[c]
      /\ Exists(c, n + 1) => Len(b.data) = BlockSize
      /\ ~Exists(c, n + 1) => Start(n) + Len(b.data) = printed[c]
  BY <1>1, <1>2, InBlockSize
<1>6. /\ iobuf'[c] = Append(iobuf[c], b) /\ Len(iobuf'[c]) = n + 1 /\ iobuf'[c][n + 1] = b
      /\ \A i \in 1..n : iobuf'[c][i] = iobuf[c][i]
      /\ \A d \in Cores : d # c => iobuf'[d] = iobuf[d]
      /\ iobuf' \in [Cores -> Seq(Blocks)]
  <2>1. iobuf'[c] = Append(iobuf[c], b) /\ \A d \in Cores : d # c => iobuf'[d] = iobuf[d]
    BY <1>1, <1>2 DEF Types
  <2>2. Append(iobuf[c], b) \in Seq(Blocks)
    BY <1>1, Lengths
  <2>3. Len(Append(iobuf[c], b)) = n + 1 /\ Append(iobuf[c], b)[n + 1] = b
    BY <1>1, Lengths
  <2>4. \A i \in 1..n : Append(iobuf[c], b)[i] = iobuf[c][i]
    BY <1>1, Lengths
  <2>5. iobuf' \in [Cores -> Seq(Blocks)]
    BY <1>2, <2>2 DEF Types
  <2>. QED BY <2>1, <2>3, <2>4, <2>5
<1>7. Types'
  BY <1>2, <1>3, <1>4, <1>6 DEF Types
<1>8. r \notin next_reads
  BY DEF Apart
<1>9. /\ Regs' = IF Exists(c, n + 1) THEN (Regs \ {r}) \cup {next} ELSE Regs \ {r}
      /\ Heads' = Heads
      /\ PendingTails' = PendingTails \cup extra_reads'
  <2>1. PendingTails' = PendingTails \cup extra_reads'
    <3>1. \A t \in extra_reads' : t.kind = "tail"
      BY <1>7, Kinds DEF Types, Tails
    <3>. QED BY <1>1, <1>2, <3>1 DEF PendingTails
  <2>2. Heads' = Heads
    BY <1>1 DEF Heads
  <2>. QED BY <1>1, <1>3, <1>4, <1>8, <2>1, <2>2 DEF Regs
<1>10. \A s \in Regs : s.core = c => s = r
  <2>1. \A s \in Regs : s \in Regions /\ s.n = Len(iobuf[s.core])
    BY Kinds DEF OneRequest
  <2>. QED BY <1>1, <2>1, SameRegion
<1>11. next \notin asked
  <2>1. next \notin Regs
    BY <1>3, <1>10
  <2>. QED BY <1>3, <2>1 DEF Regs
<1>12. Apart' /\ AllAnswered'
  BY <1>4, <1>11 DEF Apart, AllAnswered
<1>13. ASSUME NEW d \in Cores, d # c
       PROVE  (Pending(d)' <=> Pending(d)) /\ (Unread(d)' <=> Unread(d))
  BY <1>3, <1>9, <1>13 DEF Pending, Unread
<1>14. Pending(c)' <=> Exists(c, n + 1)
  BY <1>3, <1>9, <1>10 DEF Pending
<1>15. OneRequest'
  <2>0. \A d \in Cores, m \in Nat : Exists(d, m)' <=> Exists(d, m)
    BY DEF Exists
  <2>1. ASSUME NEW s \in Regs'
        PROVE  s.n = Len(iobuf'[s.core]) /\ Exists(s.core, s.n)'
    <3>1. CASE s = next /\ Exists(c, n + 1)
      BY <1>1, <1>3, <1>6, <2>0, <3>1
    <3>2. CASE s \in Regs /\ s # r
      <4>1. s.core # c /\ s.core \in Cores /\ s.n \in Nat
        BY <1>10, <3>2, Kinds
      <4>. QED BY <1>6, <2>0, <3>2, <4>1 DEF OneRequest
    <3>. QED BY <1>9, <3>1, <3>2
  <2>2. ASSUME NEW s \in Heads'
        PROVE  iobuf'[s.core] = <<>> /\ ~Pending(s.core)'
    <3>1. s \in Heads /\ s.core \in Cores /\ iobuf[s.core] = <<>> /\ ~Pending(s.core)
      BY <1>9, Kinds DEF OneRequest
    <3>2. s.core # c
      BY <3>1 DEF Pending
    <3>. QED BY <1>6, <1>13, <3>1, <3>2
  <2>. QED BY <2>1, <2>2 DEF OneRequest
<1>16. Chain'
  <2>. SUFFICES ASSUME NEW d \in Cores, NEW i \in 1..Len(iobuf'[d])
                PROVE  Chained(d, i)'
    BY DEF Chain
  <2>1. CASE d # c
    <3>1. iobuf'[d] = iobuf[d]
      BY <1>6, <2>1
    <3>2. Chained(d, i)
      BY <3>1 DEF Chain
    <3>. QED BY <1>13, <2>1, <3>1, <3>2 DEF Chained
  <2>2. CASE d = c /\ i = n + 1
    <3>1. iobuf'[c][i] = b /\ Len(iobuf'[c]) = i /\ i - 1 = n
      BY <1>1, <1>6, <2>2
    <3>. QED BY <1>2, <1>5, <1>14, <2>2, <3>1 DEF Chained
  <2>3. CASE d = c /\ i # n + 1
    <3>1. i \in 1..n /\ i \in 1..Len(iobuf[c])
      BY <1>1, <1>6, <2>3
    <3>2. iobuf'[c][i] = iobuf[c][i] /\ Chained(c, i)
      BY <1>1, <1>6, <3>1 DEF Chain
    <3>3. Pending(c)
      BY DEF Pending
    <3>. QED BY <2>3, <3>2, <3>3 DEF Chained
  <2>. QED BY <2>1, <2>2, <2>3
<1>17. ToTheEnd'
  <2>. SUFFICES ASSUME NEW d \in Cores
                PROVE  started[d] <= printed[d] /\ (errors \/ Unread(d)' \/ Pending(d)' \/
                          Total(d)' >= started[d])
    BY DEF ToTheEnd
  <2>1. CASE d = c
    <3>1. Total(c)' = Start(n) + Len(b.data)
      <4>1. iobuf'[c] # <<>> /\ (n + 1) - 1 = n
        BY <1>1, <1>6
      <4>. QED BY <1>6, <4>1 DEF Total
    <3>. QED BY <1>1, <1>5, <1>14, <2>1, <3>1, Lengths DEF ToTheEnd
  <2>2. CASE d # c
    <3>1. Total(d)' = Total(d)
      BY <1>6, <2>2 DEF Total
    <3>. QED BY <1>13, <2>2, <3>1 DEF ToTheEnd
  <2>. QED BY <2>1, <2>2
<1>18. TailsInside'
  <2>. SUFFICES ASSUME NEW t \in PendingTails'
                PROVE  /\ t.n + 1 \in 1..Len(iobuf'[t.core])
                       /\ t.offset + t.size <= Len(iobuf'[t.core][t.n + 1].data)
    BY DEF TailsInside
  <2>1. CASE t \in PendingTails
    <3>1. /\ t.n + 1 \in 1..Len(iobuf[t.core]) /\ t.core \in Cores
          /\ t.offset + t.size <= Len(iobuf[t.core][t.n + 1].data)
      BY <2>1, Kinds DEF TailsInside
    <3>2. CASE t.core # c
      BY <1>6, <3>1, <3>2
    <3>3. CASE t.core = c
      <4>1. t.n + 1 \in 1..n /\ t.n + 1 \in 1..n + 1
        BY <1>1, <3>1, <3>3
      <4>. QED BY <1>6, <3>1, <3>3, <4>1
    <3>. QED BY <3>2, <3>3
  <2>2. CASE t \in extra_reads' \ extra_reads
    <3>1. t.core = c /\ t.n = n /\ t.offset + t.size <= Len(b.data) /\ n + 1 \in 1..n + 1
      BY <1>1, <1>2, <2>2
    <3>. QED BY <1>6, <3>1
  <2>3. extra_reads \subseteq PendingTails
    BY Kinds DEF Types, PendingTails
  <2>. QED BY <1>9, <2>1, <2>2, <2>3
<1>19. FilledIn'
  <2>. SUFFICES ASSUME NEW d \in Cores, NEW i \in 1..Len(iobuf'[d]), NEW j \in
            1..Len(iobuf'[d][i].data)
                PROVE  iobuf'[d][i].data[j] = Start(i - 1) + j \/ errors \/ Awaited(d, i, j)'
    BY DEF FilledIn
  <2>1. \A m : Awaited(d, m, j) => Awaited(d, m, j)'
    BY <1>9 DEF Awaited
  <2>2. CASE d # c
    <3>1. iobuf'[d] = iobuf[d]
      BY <1>6, <2>2
    <3>. QED BY <2>1, <3>1 DEF FilledIn
  <2>3. CASE d = c /\ i = n + 1
    <3>1. iobuf'[c][i] = b /\ i - 1 = n /\ j \in 1..Len(b.data)
      BY <1>1, <1>6, <2>3
    <3>2. \/ b.data[j] = Start(n) + j
          \/ \E t \in extra_reads' : t.core = c /\ t.n = n /\ j > t.offset /\ j <= t.offset + t.size
      BY <1>2, <3>1
    <3>3. extra_reads' \subseteq PendingTails'
      BY <1>9
    <3>. QED BY <2>3, <3>1, <3>2, <3>3 DEF Awaited
  <2>4. CASE d = c /\ i # n + 1
    <3>1. i \in 1..n /\ i \in 1..Len(iobuf[c])
      BY <1>1, <1>6, <2>4
    <3>2. iobuf'[c][i] = iobuf[c][i]
      BY <1>6, <3>1
    <3>. QED BY <2>1, <2>4, <3>1, <3>2 DEF FilledIn
  <2>. QED BY <2>2, <2>3, <2>4
<1>. QED BY <1>7, <1>12, <1>15, <1>16, <1>17, <1>18, <1>19

\* d with the size bytes after offset o replaced, counting from base
Overwrite(d, o, size, base) ==
    [i \in DOMAIN d |-> IF i \in o + 1..o + size THEN base + i ELSE d[i]]

\* What filling in a range of a buffer does.
LEMMA Overwritten ==
  ASSUME NEW d \in Seq(Nat), NEW o \in Nat, NEW size \in Nat, NEW base \in Nat,
         NEW e, e = Overwrite(d, o, size, base)
  PROVE  /\ e \in Seq(Nat) /\ Len(e) = Len(d)
         /\ \A i \in 1..Len(d) : e[i] = IF i > o /\ i <= o + size THEN base + i ELSE d[i]
<1>1. DOMAIN d = 1..Len(d) /\ Len(d) \in Nat /\ \A i \in 1..Len(d) : d[i] \in Nat
  OBVIOUS
<1>2. ASSUME NEW i \in 1..Len(d)
      PROVE  /\ i \in Nat /\ e[i] = IF i \in o + 1..o + size THEN base + i ELSE d[i]
             /\ i \in o + 1..o + size <=> i > o /\ i <= o + size
  BY <1>1 DEF Overwrite
<1>3. \A i \in 1..Len(d) : e[i] \in Nat
  BY <1>1, <1>2
<1>4. e = [i \in 1..Len(d) |-> e[i]]
  BY <1>1 DEF Overwrite
<1>5. e \in Seq(Nat) /\ Len(e) = Len(d)
  BY <1>1, <1>3, <1>4
<1>. QED BY <1>2, <1>5

\* A tail changes the bytes it brings, in the block it names, and nothing else.
LEMMA TailShape ==
  ASSUME IInv, NEW r \in PendingTails, HandleTail(r)
  PROVE  /\ iobuf' \in [Cores -> Seq(Blocks)]
         /\ \A c \in Cores : Len(iobuf'[c]) = Len(iobuf[c])
         /\ \A c \in Cores : \A i \in 1..Len(iobuf[c]) :
              /\ iobuf'[c][i].n = iobuf[c][i].n
              /\ Len(iobuf'[c][i].data) = Len(iobuf[c][i].data)
              /\ \A j \in 1..Len(iobuf[c][i].data) :
                   iobuf'[c][i].data[j] =
                      IF c = r.core /\ i - 1 = r.n /\ j > r.offset /\ j <= r.offset + r.size
                      THEN Start(i - 1) + j ELSE iobuf[c][i].data[j]
<1>. USE DEF IInv
<1>. DEFINE k == r.core
            old == iobuf[k]
            ee(b) == [i \in DOMAIN old[b].data |->
                        IF i \in r.offset + 1..r.offset + r.size
                        THEN ByteAt(k, r.n, i) ELSE old[b].data[i]]
            fill(b) == [n |-> r.n, data |-> ee(b)]
            new == [b \in DOMAIN old |-> IF old[b].n = r.n THEN fill(b) ELSE old[b]]
<1>1. k \in Cores /\ r.n \in Nat /\ r.offset \in Nat /\ r.size \in Nat
  BY Kinds
<1>2. iobuf' = [iobuf EXCEPT ![k] = new]
  BY DEF HandleTail
<1>3. old \in Seq(Blocks) /\ DOMAIN old = 1..Len(old) /\ Len(old) \in Nat
  BY <1>1, Lengths
<1>4. Start(r.n) \in Nat /\ \A i \in Nat : ByteAt(k, r.n, i) = Start(r.n) + i
  BY <1>1, StartFacts DEF ByteAt, Start
<1>5. ASSUME NEW b \in 1..Len(old)
      PROVE  /\ fill(b) \in Blocks /\ fill(b).n = r.n
             /\ Len(fill(b).data) = Len(old[b].data)
             /\ \A j \in 1..Len(old[b].data) :
                  fill(b).data[j] = IF j > r.offset /\ j <= r.offset + r.size
                                    THEN Start(r.n) + j ELSE old[b].data[j]
  <2>. DEFINE d == old[b].data
              base == Start(r.n)
              e == ee(b)
  <2>1. d \in Seq(Nat) /\ DOMAIN d = 1..Len(d) /\ Len(d) \in Nat
    <3>1. d \in Seq(Nat)
      BY <1>1, Lengths
    <3>. HIDE DEF d
    <3>. QED BY <3>1
  <2>2. e = Overwrite(d, r.offset, r.size, base)
    <3>1. \A i \in DOMAIN d : ByteAt(k, r.n, i) = base + i
      BY <1>4, <2>1
    <3>. QED BY <3>1 DEF Overwrite
  <2>3. fill(b) = [n |-> r.n, data |-> e]
    OBVIOUS
  <2>4. base \in Nat
    BY <1>4
  <2>. HIDE DEF fill, ee, e, d, base
  <2>5. /\ e \in Seq(Nat) /\ Len(e) = Len(d)
        /\ \A i \in 1..Len(d) : e[i] = IF i > r.offset /\ i <= r.offset + r.size
                                       THEN base + i ELSE d[i]
    <3>. DEFINE o == r.offset
                size == r.size
    <3>1. o \in Nat /\ size \in Nat /\ e = Overwrite(d, o, size, base) /\ d \in Seq(Nat)
      BY <1>1, <2>1, <2>2
    <3>. HIDE DEF o, size
    <3>2. /\ e \in Seq(Nat) /\ Len(e) = Len(d)
          /\ \A i \in 1..Len(d) : e[i] = IF i > o /\ i <= o + size THEN base + i ELSE d[i]
      BY <2>4, <3>1, Overwritten
    <3>. QED BY <3>2 DEF o, size
  <2>6. fill(b) \in Blocks /\ fill(b).n = r.n /\ fill(b).data = e
    BY <1>1, <2>3, <2>5 DEF Blocks
  <2>. QED BY <2>5, <2>6 DEF d, base
<1>. HIDE DEF fill
<1>6. new \in Seq(Blocks) /\ Len(new) = Len(old)
      /\ \A b \in 1..Len(old) : new[b] = IF old[b].n = r.n THEN fill(b) ELSE old[b]
  BY <1>3, <1>5
<1>7. \A c \in Cores : iobuf'[c] = IF c = k THEN new ELSE iobuf[c]
  BY <1>2 DEF Types
<1>8. iobuf' \in [Cores -> Seq(Blocks)]
  <2>. HIDE DEF new
  <2>. QED BY <1>2, <1>6 DEF Types
<1>. HIDE DEF new
<1>9. ASSUME NEW c \in Cores, NEW i \in 1..Len(iobuf[c])
      PROVE   /\ iobuf'[c][i].n = iobuf[c][i].n
              /\ Len(iobuf'[c][i].data) = Len(iobuf[c][i].data)
              /\ \A j \in 1..Len(iobuf[c][i].data) :
                   iobuf'[c][i].data[j] =
                      IF c = r.core /\ i - 1 = r.n /\ j > r.offset /\ j <= r.offset + r.size
                      THEN Start(i - 1) + j ELSE iobuf[c][i].data[j]
  <2>1. iobuf[c][i].n = i - 1
    BY DEF Chain, Chained
  <2>2. CASE c # k \/ i - 1 # r.n
    <3>1. iobuf'[c][i] = iobuf[c][i]
      BY <1>6, <1>7, <2>1, <2>2
    <3>. QED BY <2>2, <3>1
  <2>3. CASE c = k /\ i - 1 = r.n
    <3>1. i \in 1..Len(old) /\ old[i].n = r.n
      BY <2>1, <2>3
    <3>2. iobuf'[c][i] = fill(i)
      BY <1>6, <1>7, <2>3, <3>1
    <3>. QED BY <1>5, <2>3, <3>1, <3>2
  <2>. QED BY <2>2, <2>3
<1>10. \A c \in Cores : Len(iobuf'[c]) = Len(iobuf[c])
  BY <1>6, <1>7
<1>. QED BY <1>8, <1>9, <1>10

\* A tail arrives.
LEMMA TailStep ==
  ASSUME IInv, NEW r \in asked, r \in PendingTails, HandleTail(r), UNCHANGED errors,
         asked' = asked \ {r}, UNCHANGED <<printed, pc, started>>
  PROVE  IInv'
<1>. USE DEF IInv
<1>1. /\ iobuf' \in [Cores -> Seq(Blocks)]
      /\ \A c \in Cores : Len(iobuf'[c]) = Len(iobuf[c])
      /\ \A c \in Cores : \A i \in 1..Len(iobuf[c]) :
              /\ iobuf'[c][i].n = iobuf[c][i].n
              /\ Len(iobuf'[c][i].data) = Len(iobuf[c][i].data)
              /\ \A j \in 1..Len(iobuf[c][i].data) :
                   iobuf'[c][i].data[j] =
                      IF c = r.core /\ i - 1 = r.n /\ j > r.offset /\ j <= r.offset + r.size
                      THEN Start(i - 1) + j ELSE iobuf[c][i].data[j]
  BY TailShape
<1>2. next_reads' = next_reads /\ extra_reads' = extra_reads
  BY DEF HandleTail
<1>3. r.kind = "tail" /\ r \in Tails
  BY Kinds
<1>4. Types'
  BY <1>1, <1>2 DEF Types
<1>5. Regs' = Regs /\ Heads' = Heads
  BY <1>2, <1>3 DEF Regs, Heads
<1>6. PendingTails' \subseteq PendingTails /\ PendingTails \ {r} \subseteq PendingTails'
  BY <1>2 DEF PendingTails
<1>7. \A c \in Cores : (Pending(c)' <=> Pending(c)) /\ (Unread(c)' <=> Unread(c))
  BY <1>5 DEF Pending, Unread
<1>8. \A c \in Cores : iobuf[c] = <<>> <=> iobuf'[c] = <<>>
  <2>. SUFFICES ASSUME NEW c \in Cores PROVE iobuf[c] = <<>> <=> iobuf'[c] = <<>>
    OBVIOUS
  <2>1. iobuf[c] \in Seq(Blocks) /\ iobuf'[c] \in Seq(Blocks) /\ Len(iobuf'[c]) = Len(iobuf[c])
    BY <1>1, Lengths
  <2>. QED BY <2>1
<1>9. Apart' /\ AllAnswered'
  BY <1>2 DEF Apart, AllAnswered
<1>10. OneRequest'
  <2>0. \A d \in Cores, m \in Nat : Exists(d, m)' <=> Exists(d, m)
    BY DEF Exists
  <2>1. ASSUME NEW s \in Regs
        PROVE  s.n = Len(iobuf'[s.core]) /\ Exists(s.core, s.n)'
    <3>1. s.core \in Cores /\ s.n \in Nat
      BY Kinds
    <3>. QED BY <1>1, <2>0, <3>1 DEF OneRequest
  <2>2. ASSUME NEW s \in Heads
        PROVE  iobuf'[s.core] = <<>> /\ ~Pending(s.core)'
    <3>1. s.core \in Cores
      BY Kinds
    <3>. QED BY <1>7, <1>8, <3>1 DEF OneRequest
  <2>. QED BY <1>5, <2>1, <2>2 DEF OneRequest
<1>11. Chain'
  <2>. SUFFICES ASSUME NEW c \in Cores, NEW i \in 1..Len(iobuf'[c])
                PROVE  Chained(c, i)'
    BY DEF Chain
  <2>1. i \in 1..Len(iobuf[c]) /\ Chained(c, i)
    BY <1>1 DEF Chain
  <2>. QED BY <1>1, <1>7, <2>1 DEF Chained
<1>12. ToTheEnd'
  <2>. SUFFICES ASSUME NEW c \in Cores
                PROVE  Total(c)' = Total(c)
    BY <1>7 DEF ToTheEnd
  <2>1. CASE iobuf[c] = <<>>
    BY <1>8, <2>1 DEF Total
  <2>2. CASE iobuf[c] # <<>>
    <3>1. Len(iobuf[c]) \in 1..Len(iobuf[c])
      BY <2>2, Lengths
    <3>. QED BY <1>1, <1>8, <2>2, <3>1 DEF Total
  <2>. QED BY <2>1, <2>2
<1>13. TailsInside'
  <2>. SUFFICES ASSUME NEW t \in PendingTails
                PROVE  /\ t.n + 1 \in 1..Len(iobuf'[t.core])
                       /\ t.offset + t.size <= Len(iobuf'[t.core][t.n + 1].data)
    BY <1>6 DEF TailsInside
  <2>1. /\ t.n + 1 \in 1..Len(iobuf[t.core]) /\ t.core \in Cores
        /\ t.offset + t.size <= Len(iobuf[t.core][t.n + 1].data)
    BY Kinds DEF TailsInside
  <2>. QED BY <1>1, <2>1
<1>14. FilledIn'
  <2>. SUFFICES ASSUME NEW c \in Cores, NEW i \in 1..Len(iobuf'[c]), NEW j \in
            1..Len(iobuf'[c][i].data)
                PROVE  iobuf'[c][i].data[j] = Start(i - 1) + j \/ errors \/ Awaited(c, i, j)'
    BY DEF FilledIn
  <2>1. i \in 1..Len(iobuf[c]) /\ j \in 1..Len(iobuf[c][i].data)
    BY <1>1
  <2>2. CASE c = r.core /\ i - 1 = r.n /\ j > r.offset /\ j <= r.offset + r.size
    BY <1>1, <2>1, <2>2
  <2>3. CASE ~(c = r.core /\ i - 1 = r.n /\ j > r.offset /\ j <= r.offset + r.size)
    <3>1. iobuf'[c][i].data[j] = iobuf[c][i].data[j]
      BY <1>1, <2>1, <2>3
    <3>2. Awaited(c, i, j) => Awaited(c, i, j)'
      BY <1>6, <2>3 DEF Awaited
    <3>. QED BY <2>1, <3>1, <3>2 DEF FilledIn
  <2>. QED BY <2>2, <2>3
<1>. QED BY <1>4, <1>9, <1>10, <1>11, <1>12, <1>13, <1>14

\* Every step preserves the invariant.
LEMMA NextIInv == IInv /\ [Next]_vars => IInv'
<1>. SUFFICES ASSUME IInv, [Next]_vars PROVE IInv'
  OBVIOUS
<1>. USE DEF IInv
<1>0. LogInv
  BY DEF LogInv
<1>1. ASSUME NEW r \in asked, Receive(r) PROVE IInv'
  <2>1. /\ asked' = asked \ {r} /\ UNCHANGED <<printed, pc, started>>
        /\ \/ errors' = TRUE /\ UNCHANGED <<next_reads, extra_reads, iobuf>>
           \/ r \in Heads /\ HandleAddress(r) /\ UNCHANGED errors
           \/ r \in Regs /\ HandleRegion(r) /\ UNCHANGED errors
           \/ r \in PendingTails /\ HandleTail(r) /\ UNCHANGED errors
    BY <1>1, Received
  <2>2. CASE errors' = TRUE /\ UNCHANGED <<next_reads, extra_reads, iobuf>>
    <3>1. Types'
      BY <2>1, <2>2 DEF Types
    <3>2. Apart' /\ AllAnswered'
      BY <2>1, <2>2 DEF Apart, AllAnswered
    <3>3. Regs' \subseteq Regs /\ Heads' \subseteq Heads /\ PendingTails' \subseteq PendingTails
      BY <2>1, <2>2 DEF Regs, Heads, PendingTails
    <3>4. \A c \in Cores : printed'[c] >= printed[c]
      BY <2>1, Lengths
    <3>5. LogInv'
      BY <1>0, <2>1, <2>2, <3>1, <3>3, <3>4, Steady
    <3>. QED BY <3>1, <3>2, <3>5 DEF LogInv
  <2>3. CASE r \in Heads /\ HandleAddress(r) /\ UNCHANGED errors
    BY <2>1, <2>3, AddressStep
  <2>4. CASE r \in Regs /\ HandleRegion(r) /\ UNCHANGED errors
    BY <2>1, <2>4, RegionStep
  <2>5. CASE r \in PendingTails /\ HandleTail(r) /\ UNCHANGED errors
    BY <2>1, <2>5, TailStep
  <2>. QED BY <2>1, <2>2, <2>3, <2>4, <2>5
<1>2. ASSUME NEW r \in extra_reads, SendExtra(r) PROVE IInv'
  <2>1. r \in Tails /\ r.kind = "tail"
    BY Kinds DEF Types
  <2>2. Types'
    BY <1>2, <2>1 DEF SendExtra, Types
  <2>3. Apart' /\ AllAnswered'
    <3>1. r \notin next_reads
      BY <2>1, Kinds DEF Types
    <3>. QED BY <1>2, <3>1 DEF SendExtra, Apart, AllAnswered
  <2>4. Regs' = Regs /\ Heads' = Heads /\ PendingTails' = PendingTails
    BY <1>2, <2>1 DEF SendExtra, Regs, Heads, PendingTails
  <2>5. \A c \in Cores : printed'[c] >= printed[c]
    BY <1>2, Lengths DEF SendExtra
  <2>6. LogInv'
    BY <1>0, <1>2, <2>2, <2>4, <2>5, Steady DEF SendExtra
  <2>. QED BY <2>2, <2>3, <2>6 DEF LogInv
<1>3. ASSUME NEW r \in next_reads, SendNext(r) PROVE IInv'
  <2>1. r \in Regions /\ r.kind = "region"
    BY Kinds DEF Types
  <2>2. Types'
    BY <1>3, <2>1 DEF SendNext, Types
  <2>3. Apart' /\ AllAnswered'
    BY <1>3 DEF SendNext, Apart, AllAnswered
  <2>4. Regs' = Regs /\ Heads' = Heads /\ PendingTails' = PendingTails
    BY <1>3, <2>1 DEF SendNext, Regs, Heads, PendingTails
  <2>5. \A c \in Cores : printed'[c] >= printed[c]
    BY <1>3, Lengths DEF SendNext
  <2>6. LogInv'
    BY <1>0, <1>3, <2>2, <2>4, <2>5, Steady DEF SendNext
  <2>. QED BY <2>2, <2>3, <2>6 DEF LogInv
<1>4. CASE Sent \/ EndRound \/ UNCHANGED vars \/ \E c \in Cores : PrintByte(c)
  <2>1. UNCHANGED <<next_reads, extra_reads, asked, iobuf, errors, started>>
    BY <1>4 DEF Sent, EndRound, PrintByte, vars
  <2>2. /\ printed' \in [Cores -> 0..MaxPrinted]
        /\ \A c \in Cores : printed'[c] >= printed[c]
    <3>1. CASE UNCHANGED printed
      BY <3>1, Lengths DEF Types
    <3>2. ASSUME NEW c \in Cores, PrintByte(c)
          PROVE  /\ printed' \in [Cores -> 0..MaxPrinted]
                 /\ \A d \in Cores : printed'[d] >= printed[d]
      <4>1. printed[c] \in Nat /\ printed[c] + 1 \in 0..MaxPrinted
        BY <3>2, Lengths, SizeAssumption DEF PrintByte
      <4>2. \A d \in Cores : printed[d] \in Nat
        BY Lengths
      <4>. QED BY <3>2, <4>1, <4>2 DEF PrintByte, Types
    <3>. QED BY <1>4, <3>1, <3>2 DEF Sent, EndRound, vars
  <2>3. Types'
    <3>1. pc' \in {"addresses", "extras", "nexts", "finish", "done", "raised"}
      BY <1>4 DEF Sent, EndRound, PrintByte, vars, Types
    <3>. QED BY <2>1, <2>2, <3>1 DEF Types
  <2>4. Regs' = Regs /\ Heads' = Heads /\ PendingTails' = PendingTails
    BY <2>1 DEF Regs, Heads, PendingTails
  <2>5. LogInv'
    BY <1>0, <2>1, <2>2, <2>3, <2>4, Steady
  <2>6. Apart' /\ AllAnswered'
    BY <1>4, <2>1 DEF Apart, AllAnswered, Sent, EndRound, PrintByte, vars, Types
  <2>. QED BY <2>3, <2>5, <2>6 DEF LogInv
<1>. QED BY <1>1, <1>2, <1>3, <1>4 DEF Next, Reader

-----------------------------------------------------------------------------
(* The theorems                                                            *)

\* The invariant implies WellFormed.
LEMMA IInvWellFormed == IInv => WellFormed
<1>. SUFFICES ASSUME IInv PROVE WellFormed
  OBVIOUS
<1>. USE DEF IInv
<1>1. TypeOK
  <2>1. \A c \in Cores : \A i \in DOMAIN iobuf[c] :
          iobuf[c][i].n \in Nat /\ Len(iobuf[c][i].data) <= BlockSize
    <3>. SUFFICES ASSUME NEW c \in Cores, NEW i \in DOMAIN iobuf[c]
                  PROVE  iobuf[c][i].n \in Nat /\ Len(iobuf[c][i].data) <= BlockSize
      OBVIOUS
    <3>1. i \in 1..Len(iobuf[c])
      BY Lengths
    <3>2. iobuf[c][i].n \in Nat
      BY <3>1, Lengths
    <3>3. Len(iobuf[c][i].data) \in 1..BlockSize
      BY <3>1 DEF Chain, Chained
    <3>. QED BY <3>2, <3>3, Sizes
  <2>. QED BY <2>1 DEF TypeOK, Types
<1>2. \A c \in Cores : \A i \in DOMAIN iobuf[c] : iobuf[c][i].n = i - 1
  <2>. SUFFICES ASSUME NEW c \in Cores, NEW i \in DOMAIN iobuf[c]
                PROVE  iobuf[c][i].n = i - 1
    OBVIOUS
  <2>1. i \in 1..Len(iobuf[c])
    BY Lengths
  <2>. QED BY <2>1 DEF Chain, Chained
<1>3. ASSUME NEW r \in extra_reads \cup {t \in asked : t.kind = "tail"}
      PROVE  /\ r.n + 1 \in DOMAIN iobuf[r.core]
             /\ r.offset + r.size <= Len(iobuf[r.core][r.n + 1].data)
  <2>1. r \in PendingTails /\ r.core \in Cores
    BY Kinds DEF PendingTails, Types
  <2>2. DOMAIN iobuf[r.core] = 1..Len(iobuf[r.core])
    BY <2>1, Lengths
  <2>. QED BY <2>1, <2>2 DEF TailsInside
<1>. QED BY <1>1, <1>2, <1>3 DEF WellFormed

\* When all is answered the blocks of a core are full to the last one, filled in,
\* and reach at least as far as its log did when the call began.
LEMMA IInvSnapshot == IInv => TextIsSnapshot
<1>. SUFFICES ASSUME IInv, pc = "done", NEW c \in Cores
              PROVE  \E k \in started[c]..printed[c] : Text(c) = [i \in 1..k |-> i]
  BY DEF TextIsSnapshot
<1>. USE DEF IInv
<1>. DEFINE s == [i \in DOMAIN iobuf[c] |-> iobuf[c][i].data]
<1>1. Regs = {} /\ Heads = {} /\ PendingTails = {} /\ ~errors
  BY DEF AllAnswered, Regs, Heads, PendingTails
<1>2. Total(c) >= started[c]
  BY <1>1 DEF ToTheEnd, Unread, Pending
<1>3. /\ iobuf[c] \in Seq(Blocks) /\ Len(iobuf[c]) \in Nat /\ DOMAIN iobuf[c] = 1..Len(iobuf[c])
      /\ \A i \in 1..Len(iobuf[c]) : iobuf[c][i].data \in Seq(Nat)
      /\ printed[c] \in Nat /\ started[c] \in Nat
  BY Lengths
<1>4. s \in Seq(Seq(Nat)) /\ Len(s) = Len(iobuf[c])
      /\ \A i \in 1..Len(iobuf[c]) : s[i] = iobuf[c][i].data
  BY <1>3
<1>5. CASE iobuf[c] = <<>>
  <2>1. Total(c) = 0 /\ Len(s) = 0
    BY <1>4, <1>5 DEF Total
  <2>2. Text(c) = s
    BY <2>1 DEF Text, FlattenSeq
  <2>3. s = [i \in 1..0 |-> i]
    BY <1>4, <2>1
  <2>4. 0 \in started[c]..printed[c]
    BY <1>2, <1>3, <2>1
  <2>. QED BY <2>2, <2>3, <2>4
<1>6. CASE iobuf[c] # <<>>
  <2>. DEFINE L == Len(iobuf[c])
  <2>1. L \in 1..L
    BY <1>3, <1>6
  <2>. HIDE DEF s
  <2>2. Counting(s)
    <3>1. s # <<>>
      BY <1>4, <2>1
    <3>2. \A i \in 1..L - 1 : Len(s[i]) = BlockSize
      <4>. SUFFICES ASSUME NEW i \in 1..L - 1 PROVE Len(s[i]) = BlockSize
        OBVIOUS
      <4>1. i \in 1..L /\ i < L
        BY <1>3
      <4>. QED BY <1>4, <4>1 DEF Chain, Chained
    <3>3. \A i \in 1..L : \A j \in 1..Len(s[i]) : s[i][j] = Start(i - 1) + j
      BY <1>1, <1>4 DEF FilledIn, Awaited
    <3>. QED BY <1>4, <3>1, <3>2, <3>3 DEF Counting
  <2>3. Text(c) = UpTo(Start(L - 1) + Len(s[L]))
    BY <1>4, <2>2, FlattenFull DEF Text, s
  <2>4. Total(c) = Start(L - 1) + Len(s[L])
    BY <1>4, <1>6, <2>1 DEF Total
  <2>5. Start(L - 1) \in Nat /\ Len(s[L]) \in Nat /\ Start(L - 1) + Len(s[L]) <= printed[c]
    <3>1. L - 1 \in Nat
      BY <2>1, <1>3
    <3>2. Start(L - 1) + Len(s[L]) <= printed[c]
      BY <1>4, <2>1 DEF Chain, Chained
    <3>3. Start(L - 1) \in Nat
      BY <3>1, StartFacts
    <3>4. s[L] \in Seq(Nat) /\ Len(s[L]) \in Nat
      BY <1>3, <1>4, <2>1
    <3>. QED BY <3>2, <3>3, <3>4
  <2>6. Total(c) \in started[c]..printed[c]
    BY <1>2, <1>3, <2>4, <2>5
  <2>. QED BY <2>3, <2>4, <2>6 DEF UpTo
<1>. QED BY <1>5, <1>6

\* For every number of cores, block size and size of a read: blocks are put into the
\* dictionary of a core in the order of its chain, and every tail asked for belongs
\* to a block that is there and stays inside it (read_iobuf, __handle_*_response).
THEOREM WellFormedAlways == Spec => []WellFormed
<1>1. Spec => []IInv
  BY InitIInv, NextIInv, PTL DEF Spec
<1>. QED BY <1>1, IInvWellFormed, PTL

\* For every number of cores, block size and size of a read, and however the replies
\* are ordered while the cores print on: the text returned for a core is what it had
\* printed at one moment of the call, complete and in order (read_iobuf).
THEOREM TextIsSnapshotAlways == Spec => []TextIsSnapshot
<1>1. Spec => []IInv
  BY InitIInv, NextIInv, PTL DEF Spec
<1>. QED BY <1>1, IInvSnapshot, PTL

=============================================================================
