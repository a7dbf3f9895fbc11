---------------------------- MODULE MoneyProofs ----------------------------
(***************************************************************************)
(* The amount that the importer posts is the amount that verify reads, and *)
(* both are what the decimal is worth.  Before that, the lemmas on what a  *)
(* loop over a sequence computes, for Money and for Balance.               *)
(***************************************************************************)
EXTENDS Money, SequenceTheorems, WellFoundedInduction, TLAPS

----------------------------------------------------------------------------
(* Induction over the naturals: if some number were left out, the least one *)
(* would follow one that is not.                                            *)
LEMMA NatSet ==
    ASSUME NEW S, 0 \in S, \A n \in Nat : n \in S => n + 1 \in S
    PROVE  Nat \subseteq S
  <1> SUFFICES ASSUME Nat \ S # {} PROVE FALSE
    OBVIOUS
  <1>1. PICK m \in Nat \ S : \A y \in Nat \ S : ~(<<y, m>> \in OpToRel(<, Nat))
    BY NatLessThanWellFounded, WFMin
  <1>2. m # 0
    OBVIOUS
  <1>3. m - 1 \in Nat /\ m - 1 < m
    BY <1>2
  <1>4. m - 1 \in S
    BY <1>1, <1>3 DEF OpToRel
  <1> QED BY <1>3, <1>4

(* What holds at first and from each to the next holds all the way.         *)
LEMMA Along ==
    ASSUME NEW n \in Nat, NEW S, 0 \in S, \A i \in 1 .. n : i - 1 \in S => i \in S
    PROVE  \A i \in 0 .. n : i \in S
  <1> DEFINE T == {i \in Nat : i <= n => i \in S}
  <1>1. 0 \in T
    OBVIOUS
  <1>2. ASSUME NEW i \in Nat, i \in T, i + 1 <= n PROVE i + 1 \in S
    <2>1. i + 1 \in 1 .. n /\ (i + 1) - 1 = i /\ i \in S
      BY <1>2
    <2> QED BY <2>1
  <1>3. \A i \in Nat : i \in T => i + 1 \in T
    BY <1>2
  <1> HIDE DEF T
  <1>4. Nat \subseteq T
    BY <1>1, <1>3, NatSet
  <1> QED BY <1>4 DEF T

(* What holds of the empty sequence and survives Append holds of all.       *)
LEMMA AllSequences ==
    ASSUME NEW A, NEW S, <<>> \in S, \A s \in Seq(A), a \in A : s \in S => Append(s, a) \in S
    PROVE  Seq(A) \subseteq S
  <1> DEFINE T == {n \in Nat : \A s \in Seq(A) : Len(s) = n => s \in S}
  <1>1. 0 \in T
    <2>1. \A s \in Seq(A) : Len(s) = 0 => s = <<>>
      OBVIOUS
    <2> QED BY <2>1
  <1>2. ASSUME NEW n \in Nat, n \in T, NEW s \in Seq(A), Len(s) = n + 1
        PROVE  s \in S
    <2> DEFINE front == SubSeq(s, 1, n)
    <2>1. front \in Seq(A) /\ Len(front) = n /\ s[n + 1] \in A /\ s = Append(front, s[n + 1])
      BY <1>2
    <2> HIDE DEF front
    <2>2. front \in S
      BY <1>2, <2>1
    <2> QED BY <2>1, <2>2
  <1>3. \A n \in Nat : n \in T => n + 1 \in T
    BY <1>2
  <1> HIDE DEF T
  <1>4. Nat \subseteq T
    BY <1>1, <1>3, NatSet
  <1> SUFFICES ASSUME NEW s \in Seq(A) PROVE s \in S
    OBVIOUS
  <1>5. Len(s) \in T
    BY <1>4
  <1> QED BY <1>5 DEF T

----------------------------------------------------------------------------
(* A loop over the sequence x: f[i] is what it holds after i turns.         *)
Loops(f, x, base, next) == f[0] = base /\ \A i \in 1 .. Len(x) : f[i] = next[<<f[i - 1], x[i]>>]

(* Every loop runs to its end.                                              *)
LEMMA LoopExists ==
    ASSUME NEW A, NEW V, NEW base \in V, NEW next \in [V \X A -> V], NEW x \in Seq(A)
    PROVE  \E f \in [0 .. Len(x) -> V] : Loops(f, x, base, next)
  <1> DEFINE Ran(s) == \E f \in [0 .. Len(s) -> V] : Loops(f, s, base, next)
             S == {s \in Seq(A) : Ran(s)}
  <1>1. <<>> \in S
    <2> DEFINE f == [i \in 0 .. 0 |-> base]
    <2>1. f \in [0 .. Len(<<>>) -> V] /\ f[0] = base /\ Len(<<>>) = 0
      OBVIOUS
    <2> HIDE DEF f
    <2>2. Loops(f, <<>>, base, next)
      BY <2>1 DEF Loops
    <2> QED BY <2>1, <2>2
  <1>2. ASSUME NEW s \in Seq(A), NEW a \in A, Ran(s)
        PROVE  Ran(Append(s, a))
    <2> DEFINE k == Len(s)
               t == Append(s, a)
    <2>1. PICK f \in [0 .. k -> V] : Loops(f, s, base, next)
      BY <1>2
    <2> DEFINE g == [i \in 0 .. k + 1 |-> IF i = k + 1 THEN next[<<f[k], a>>] ELSE f[i]]
    <2>2. k \in Nat /\ t \in Seq(A) /\ Len(t) = k + 1 /\ t[k + 1] = a /\ \A i \in 1 .. k : t[i] = s[i]
      OBVIOUS
    <2>3. g \in [0 .. k + 1 -> V]
      <3>1. f[k] \in V
        BY <2>1, <2>2
      <3>2. next[<<f[k], a>>] \in V
        BY <3>1
      <3> HIDE DEF k, t
      <3> QED BY <2>1, <2>2, <3>2
    <2>4. g[0] = f[0] /\ g[k + 1] = next[<<f[k], a>>] /\ \A i \in 0 .. k : g[i] = f[i]
      <3> HIDE DEF k, t
      <3> QED BY <2>2
    <2> HIDE DEF g, k, t
    <2>5. ASSUME NEW i \in 1 .. k + 1 PROVE g[i] = next[<<g[i - 1], t[i]>>]
      <3>1. CASE i = k + 1
        <4>1. i - 1 = k /\ k \in 0 .. k
          BY <2>2, <3>1
        <4> QED BY <2>2, <2>4, <3>1, <4>1
      <3>2. CASE i # k + 1
        <4>1. i \in 1 .. k /\ i \in 0 .. k /\ i - 1 \in 0 .. k
          BY <2>2, <3>2
        <4>2. f[i] = next[<<f[i - 1], s[i]>>]
          BY <2>1, <4>1 DEF Loops, k
        <4> QED BY <2>2, <2>4, <4>1, <4>2
      <3> QED BY <3>1, <3>2
    <2>6. Loops(g, t, base, next)
      BY <2>1, <2>2, <2>4, <2>5 DEF Loops
    <2> QED BY <2>2, <2>3, <2>6 DEF t
  <1>3. \A s \in Seq(A), a \in A : s \in S => Append(s, a) \in S
    <2>1. \A s \in Seq(A), a \in A : Append(s, a) \in Seq(A)
      OBVIOUS
    <2> HIDE DEF Ran
    <2> QED BY <1>2, <2>1
  <1> HIDE DEF S
  <1>4. x \in S
    BY <1>1, <1>3, AllSequences
  <1> QED BY <1>4 DEF S

(* One more element is one more turn.                                       *)
TurnMore(f, x, a, g, t, next) == g[Len(t)] = next[<<f[Len(x)], a>>]

(* A loop over one element more takes one turn more.                         *)
LEMMA LoopAppend ==
    ASSUME NEW A, NEW base, NEW next, NEW x \in Seq(A), NEW a \in A, NEW f, NEW g,
           NEW t, t = Append(x, a), Loops(f, x, base, next), Loops(g, t, base, next)
    PROVE  TurnMore(f, x, a, g, t, next)
  <1> DEFINE n == Len(x)
             S == {i \in Nat : g[i] = f[i]}
  <1>1. n \in Nat /\ Len(t) = n + 1 /\ t[n + 1] = a /\ \A i \in 1 .. n : t[i] = x[i]
    OBVIOUS
  <1> HIDE DEF n
  <1>2. f[0] = base /\ \A i \in 1 .. n : f[i] = next[<<f[i - 1], x[i]>>]
    BY DEF Loops, n
  <1>3. g[0] = base /\ \A i \in 1 .. n + 1 : g[i] = next[<<g[i - 1], t[i]>>]
    BY <1>1 DEF Loops
  <1>4. \A i \in 1 .. n : i - 1 \in S => i \in S
    <2> SUFFICES ASSUME NEW i \in 1 .. n, i - 1 \in S PROVE g[i] = f[i]
      BY <1>1
    <2>1. i \in 1 .. n + 1
      BY <1>1
    <2> QED BY <1>1, <1>2, <1>3, <2>1
  <1>5. 0 \in S
    BY <1>2, <1>3
  <1> HIDE DEF S
  <1>6. n \in S
    <2>1. \A i \in 0 .. n : i \in S
      BY <1>1, <1>4, <1>5, Along
    <2> QED BY <1>1, <2>1
  <1>7. g[n] = f[n]
    BY <1>6 DEF S
  <1>8. n + 1 \in 1 .. n + 1 /\ (n + 1) - 1 = n
    BY <1>1
  <1> QED BY <1>1, <1>3, <1>7, <1>8 DEF n, TurnMore

----------------------------------------------------------------------------
(* Total adds the amounts up from the first to the last.                    *)
Plus == [s \in Int \X Int |-> s[1] + s[2]]

(* Total is what a loop of additions leaves.                                 *)
LEMMA TotalLoop ==
    ASSUME NEW x \in Seq(Int)
    PROVE  \E f \in [0 .. Len(x) -> Int] : Loops(f, x, 0, Plus) /\ Total(x) = f[Len(x)]
  <1> DEFINE n == Len(x)
             Turn(f) == [i \in 0 .. n |-> IF i = 0 THEN 0 ELSE f[i - 1] + x[i]]
             sum == CHOOSE f : f = Turn(f)
             S == {i \in Nat : sum[i] \in Int}
  <1>1. n \in Nat /\ \A i \in 1 .. n : x[i] \in Int
    OBVIOUS
  <1>2. Plus \in [Int \X Int -> Int] /\ \A a, b \in Int : Plus[<<a, b>>] = a + b
    BY DEF Plus
  <1>3. PICK h \in [0 .. n -> Int] : Loops(h, x, 0, Plus)
    <2>1. 0 \in Int
      OBVIOUS
    <2> QED BY <1>2, <2>1, LoopExists, Zenon
  <1>4. h[0] = 0 /\ \A i \in 1 .. n : h[i] = h[i - 1] + x[i]
    <2>1. \A i \in 1 .. n : i - 1 \in 0 .. n
      BY <1>1
    <2>2. h[0] = 0 /\ \A i \in 1 .. n : h[i] = Plus[<<h[i - 1], x[i]>>]
      BY <1>3 DEF Loops
    <2> HIDE DEF n
    <2> QED BY <1>1, <1>2, <1>3, <2>1, <2>2
  <1>5. h = Turn(h)
    <2> HIDE DEF n
    <2> QED BY <1>1, <1>4
  <1>6. sum = Turn(sum)
    <2> HIDE DEF Turn
    <2> QED BY <1>5
  <1>7. Total(x) = sum[n]
    BY DEF Total
  <1> HIDE DEF sum
  <1>8. sum[0] = 0 /\ \A i \in 1 .. n : sum[i] = sum[i - 1] + x[i]
    <2>1. \A i \in 0 .. n : Turn(sum)[i] = IF i = 0 THEN 0 ELSE sum[i - 1] + x[i]
      OBVIOUS
    <2> HIDE DEF Turn, n
    <2>2. \A i \in 0 .. n : sum[i] = IF i = 0 THEN 0 ELSE sum[i - 1] + x[i]
      BY <1>6, <2>1
    <2> QED BY <1>1, <2>2
  <1>9. \A i \in 0 .. n : sum[i] \in Int
    <2>1. 0 \in S /\ \A i \in 1 .. n : i - 1 \in S => i \in S
      <3>1. sum[0] \in Int
        BY <1>8
      <3>2. \A i \in 1 .. n : sum[i - 1] \in Int => sum[i] \in Int
        BY <1>1, <1>8
      <3>3. \A i \in 1 .. n : i \in Nat
        BY <1>1
      <3> QED BY <3>1, <3>2, <3>3
    <2> HIDE DEF S, n
    <2>2. \A i \in 0 .. n : i \in S
      BY <1>1, <2>1, Along
    <2> QED BY <2>2 DEF S
  <1>10. sum \in [0 .. n -> Int]
    BY <1>6, <1>9
  <1>11. Loops(sum, x, 0, Plus)
    <2>1. \A i \in 1 .. n : i - 1 \in 0 .. n
      BY <1>1
    <2> QED BY <1>1, <1>2, <1>8, <1>9, <2>1 DEF Loops
  <1> QED BY <1>7, <1>10, <1>11

(* Nothing adds up to zero.                                                  *)
LEMMA TotalEmpty == Total(<<>>) = 0
  <1>1. <<>> \in Seq(Int) /\ Len(<<>>) = 0
    OBVIOUS
  <1>2. PICK f \in [0 .. Len(<<>>) -> Int] : Loops(f, <<>>, 0, Plus) /\ Total(<<>>) = f[Len(<<>>)]
    BY <1>1, TotalLoop
  <1> QED BY <1>1, <1>2 DEF Loops

(* Integers add up to an integer.                                            *)
LEMMA TotalType ==
    ASSUME NEW x \in Seq(Int)
    PROVE  Total(x) \in Int
  BY TotalLoop

(* One summand more is added.                                                *)
LEMMA TotalAppend ==
    ASSUME NEW x \in Seq(Int), NEW a \in Int
    PROVE  Total(Append(x, a)) = Total(x) + a
  <1> DEFINE t == Append(x, a)
  <1>1. t \in Seq(Int)
    OBVIOUS
  <1>2. PICK f \in [0 .. Len(x) -> Int] : Loops(f, x, 0, Plus) /\ Total(x) = f[Len(x)]
    BY TotalLoop
  <1>3. PICK g \in [0 .. Len(t) -> Int] : Loops(g, t, 0, Plus) /\ Total(t) = g[Len(t)]
    <2> HIDE DEF t
    <2> QED BY <1>1, TotalLoop
  <1>4. TurnMore(f, x, a, g, t, Plus)
    <2>1. x \in Seq(Int) /\ a \in Int /\ Loops(f, x, 0, Plus)
      BY <1>2
    <2>2. t = Append(x, a) /\ Loops(g, t, 0, Plus)
      BY <1>3
    <2> HIDE DEF t
    <2> QED BY <2>1, <2>2, LoopAppend, Zenon
  <1>5. f[Len(x)] \in Int
    BY <1>2
  <1> HIDE DEF t
  <1> QED BY <1>2, <1>3, <1>4, <1>5 DEF Plus, TurnMore, t

(* A sequence that is not empty is its front and its last element.           *)
LEMMA FrontLast ==
    ASSUME NEW A, NEW x \in Seq(A), NEW n \in Nat, Len(x) = n + 1
    PROVE  /\ SubSeq(x, 1, n) \in Seq(A) /\ Len(SubSeq(x, 1, n)) = n
           /\ \A i \in 1 .. n : SubSeq(x, 1, n)[i] = x[i]
           /\ x[n + 1] \in A
           /\ x = Append(SubSeq(x, 1, n), x[n + 1])
  OBVIOUS

(* What two sequences add up to, one after the other.                       *)
LEMMA TotalConcat ==
    ASSUME NEW x \in Seq(Int), NEW y \in Seq(Int)
    PROVE  Total(x \o y) = Total(x) + Total(y)
  <1> DEFINE S == {q \in Seq(Int) : Total(x \o q) = Total(x) + Total(q)}
  <1>1. <<>> \in S
    <2>1. x \o <<>> = x /\ <<>> \in Seq(Int) /\ Total(x) \in Int
      BY TotalType
    <2> QED BY <2>1, TotalEmpty
  <1>2. ASSUME NEW q \in Seq(Int), NEW a \in Int, q \in S PROVE Append(q, a) \in S
    <2>1. /\ x \o Append(q, a) = Append(x \o q, a)
          /\ x \o q \in Seq(Int) /\ Append(q, a) \in Seq(Int)
      OBVIOUS
    <2>2. /\ Total(Append(x \o q, a)) = Total(x \o q) + a
          /\ Total(Append(q, a)) = Total(q) + a
      BY <2>1, TotalAppend
    <2>3. Total(x) \in Int /\ Total(q) \in Int
      BY TotalType
    <2>4. (Total(x) + Total(q)) + a = Total(x) + (Total(q) + a)
      BY <2>3
    <2>5. Total(x \o q) = Total(x) + Total(q)
      BY <1>2
    <2>6. Total(x \o Append(q, a)) = Total(x) + Total(Append(q, a))
      BY <2>1, <2>2, <2>4, <2>5, Zenon
    <2> QED BY <2>1, <2>6
  <1> HIDE DEF S
  <1>3. y \in S
    BY <1>1, <1>2, AllSequences
  <1> QED BY <1>3 DEF S

(* Of differences the total is the difference of the totals.                *)
LEMMA TotalDifference ==
    ASSUME NEW x \in Seq(Int), NEW y \in Seq(Int), NEW z \in Seq(Int),
           Len(y) = Len(x), Len(z) = Len(x), \A i \in 1 .. Len(x) : x[i] = y[i] - z[i]
    PROVE  Total(x) = Total(y) - Total(z)
  <1> DEFINE Differs(p, q, r) ==
                 /\ Len(q) = Len(p) /\ Len(r) = Len(p)
                 /\ \A i \in 1 .. Len(p) : p[i] = q[i] - r[i]
             S == {p \in Seq(Int) : \A q, r \in Seq(Int) :
                       Differs(p, q, r) => Total(p) = Total(q) - Total(r)}
  <1>1. <<>> \in S
    <2>1. \A q \in Seq(Int) : Len(q) = 0 => q = <<>>
      OBVIOUS
    <2>2. <<>> \in Seq(Int) /\ Len(<<>>) = 0
      OBVIOUS
    <2>3. \A q, r \in Seq(Int) : Differs(<<>>, q, r) => q = <<>> /\ r = <<>>
      BY <2>1, <2>2
    <2>4. Total(<<>>) = Total(<<>>) - Total(<<>>)
      BY TotalEmpty
    <2> HIDE DEF Differs
    <2> QED BY <2>2, <2>3, <2>4
  <1>2. ASSUME NEW p \in Seq(Int), NEW a \in Int, p \in S PROVE Append(p, a) \in S
    <2> DEFINE t == Append(p, a)
               n == Len(p)
    <2>1. /\ t \in Seq(Int) /\ n \in Nat /\ Len(t) = n + 1 /\ t[n + 1] = a
          /\ \A i \in 1 .. n : t[i] = p[i]
      OBVIOUS
    <2> SUFFICES ASSUME NEW q \in Seq(Int), NEW r \in Seq(Int), Differs(t, q, r)
                 PROVE  Total(t) = Total(q) - Total(r)
      BY <2>1
    <2>2. Len(q) = n + 1 /\ Len(r) = n + 1 /\ \A i \in 1 .. n + 1 : t[i] = q[i] - r[i]
      BY <2>1
    <2> DEFINE u == SubSeq(q, 1, n)
               v == SubSeq(r, 1, n)
    <2>3. /\ u \in Seq(Int) /\ Len(u) = n /\ \A i \in 1 .. n : u[i] = q[i]
          /\ q[n + 1] \in Int /\ q = Append(u, q[n + 1])
      BY <2>1, <2>2, FrontLast
    <2>4. /\ v \in Seq(Int) /\ Len(v) = n /\ \A i \in 1 .. n : v[i] = r[i]
          /\ r[n + 1] \in Int /\ r = Append(v, r[n + 1])
      BY <2>1, <2>2, FrontLast
    <2> HIDE DEF u, v
    <2>5. Differs(p, u, v)
      <3>1. \A i \in 1 .. n : i \in 1 .. n + 1
        BY <2>1
      <3> HIDE DEF t
      <3> QED BY <2>1, <2>2, <2>3, <2>4, <3>1
    <2>6. Total(p) = Total(u) - Total(v)
      <3> HIDE DEF Differs
      <3> QED BY <1>2, <2>3, <2>4, <2>5
    <2>7. Total(t) = Total(p) + a /\ Total(p) \in Int
      BY TotalAppend, TotalType
    <2>8. Total(q) = Total(u) + q[n + 1] /\ Total(u) \in Int
      <3>1. Total(Append(u, q[n + 1])) = Total(u) + q[n + 1]
        BY <2>3, TotalAppend
      <3> QED BY <2>3, <3>1, TotalType
    <2>9. Total(r) = Total(v) + r[n + 1] /\ Total(v) \in Int
      <3>1. Total(Append(v, r[n + 1])) = Total(v) + r[n + 1]
        BY <2>4, TotalAppend
      <3> QED BY <2>4, <3>1, TotalType
    <2>10. a = q[n + 1] - r[n + 1]
      <3>1. n + 1 \in 1 .. n + 1
        BY <2>1
      <3> QED BY <2>1, <2>2, <3>1
    <2> HIDE DEF t, n, S, Differs
    <2>11. (Total(u) - Total(v)) + (q[n + 1] - r[n + 1])
              = (Total(u) + q[n + 1]) - (Total(v) + r[n + 1])
      BY <2>3, <2>4, <2>8, <2>9
    <2> QED BY <2>6, <2>7, <2>8, <2>9, <2>10, <2>11, Zenon
  <1> HIDE DEF S
  <1>3. x \in S
    BY <1>1, <1>2, AllSequences
  <1> QED BY <1>3 DEF S

(* Zeros add up to zero.                                                     *)
LEMMA TotalZero ==
    ASSUME NEW x \in Seq(Int), \A i \in 1 .. Len(x) : x[i] = 0
    PROVE  Total(x) = 0
  <1>1. \A i \in 1 .. Len(x) : x[i] = x[i] - x[i]
    OBVIOUS
  <1>2. Total(x) = Total(x) - Total(x)
    BY <1>1, TotalDifference
  <1> QED BY <1>2, TotalType

(* Numbers that are all positive add up to no less than there are.          *)
LEMMA TotalAtLeast ==
    ASSUME NEW x \in Seq(Nat \ {0})
    PROVE  Total(x) \in Int /\ Total(x) >= Len(x)
  <1> DEFINE S == {p \in Seq(Nat \ {0}) : Total(p) \in Int /\ Total(p) >= Len(p)}
  <1>1. <<>> \in S
    BY TotalEmpty
  <1>2. ASSUME NEW p \in Seq(Nat \ {0}), NEW a \in Nat \ {0}, p \in S PROVE Append(p, a) \in S
    <2>1. p \in Seq(Int) /\ a \in Int /\ Append(p, a) \in Seq(Nat \ {0}) /\ Len(Append(p, a)) = Len(p) + 1
      OBVIOUS
    <2>2. Total(Append(p, a)) = Total(p) + a
      BY <2>1, TotalAppend
    <2> QED BY <1>2, <2>1, <2>2
  <1> HIDE DEF S
  <1>3. x \in S
    BY <1>1, <1>2, AllSequences
  <1> QED BY <1>3 DEF S

----------------------------------------------------------------------------
(* Number reads its digits from the first to the last.                      *)
Shift == [s \in Int \X Int |-> 10 * s[1] + s[2]]

(* Number is what a loop over the digits leaves.                             *)
LEMMA NumberLoop ==
    ASSUME NEW x \in Seq(Int)
    PROVE  \E f \in [0 .. Len(x) -> Int] : Loops(f, x, 0, Shift) /\ Number(x) = f[Len(x)]
  <1> DEFINE n == Len(x)
             Turn(f) == [i \in 0 .. n |-> IF i = 0 THEN 0 ELSE 10 * f[i - 1] + x[i]]
             number == CHOOSE f : f = Turn(f)
             S == {i \in Nat : number[i] \in Int}
  <1>1. n \in Nat /\ \A i \in 1 .. n : x[i] \in Int
    OBVIOUS
  <1>2. Shift \in [Int \X Int -> Int] /\ \A a \in Int, b \in Int : Shift[<<a, b>>] = 10 * a + b
    BY DEF Shift
  <1>3. PICK h \in [0 .. n -> Int] : Loops(h, x, 0, Shift)
    <2>1. 0 \in Int
      OBVIOUS
    <2> QED BY <1>2, <2>1, LoopExists, Zenon
  <1>4. h[0] = 0 /\ \A i \in 1 .. n : h[i] = 10 * h[i - 1] + x[i]
    <2>1. \A i \in 1 .. n : i - 1 \in 0 .. n
      BY <1>1
    <2>2. h[0] = 0 /\ \A i \in 1 .. n : h[i] = Shift[<<h[i - 1], x[i]>>]
      BY <1>3 DEF Loops
    <2> HIDE DEF n
    <2> QED BY <1>1, <1>2, <1>3, <2>1, <2>2
  <1>5. h = Turn(h)
    <2> HIDE DEF n
    <2> QED BY <1>1, <1>4
  <1>6. number = Turn(number)
    <2> HIDE DEF Turn
    <2> QED BY <1>5
  <1>7. Number(x) = number[n]
    BY DEF Number
  <1> HIDE DEF number
  <1>8. number[0] = 0 /\ \A i \in 1 .. n : number[i] = 10 * number[i - 1] + x[i]
    <2>1. \A i \in 0 .. n : Turn(number)[i] = IF i = 0 THEN 0 ELSE 10 * number[i - 1] + x[i]
      OBVIOUS
    <2> HIDE DEF Turn, n
    <2>2. \A i \in 0 .. n : number[i] = IF i = 0 THEN 0 ELSE 10 * number[i - 1] + x[i]
      BY <1>6, <2>1
    <2> QED BY <1>1, <2>2
  <1>9. \A i \in 0 .. n : number[i] \in Int
    <2>1. 0 \in S /\ \A i \in 1 .. n : i - 1 \in S => i \in S
      <3>1. number[0] \in Int
        BY <1>8
      <3>2. ASSUME NEW i \in 1 .. n, number[i - 1] \in Int PROVE number[i] \in Int
        <4>1. \A v, w \in Int : 10 * v + w \in Int
          OBVIOUS
        <4>2. x[i] \in Int /\ number[i] = 10 * number[i - 1] + x[i]
          BY <1>1, <1>8
        <4> HIDE DEF n, S, Turn
        <4> QED BY <3>2, <4>1, <4>2, Zenon
      <3>3. \A i \in 1 .. n : i \in Nat
        BY <1>1
      <3> QED BY <3>1, <3>2, <3>3
    <2> HIDE DEF S, n
    <2>2. \A i \in 0 .. n : i \in S
      BY <1>1, <2>1, Along
    <2> QED BY <2>2 DEF S
  <1>10. number \in [0 .. n -> Int]
    BY <1>6, <1>9
  <1>11. Loops(number, x, 0, Shift)
    <2>1. \A i \in 1 .. n : i - 1 \in 0 .. n
      BY <1>1
    <2> QED BY <1>1, <1>2, <1>8, <1>9, <2>1 DEF Loops
  <1> QED BY <1>7, <1>10, <1>11

(* No digits are zero.                                                       *)
LEMMA NumberEmpty == Number(<<>>) = 0
  <1>1. <<>> \in Seq(Int) /\ Len(<<>>) = 0
    OBVIOUS
  <1>2. PICK f \in [0 .. Len(<<>>) -> Int] : Loops(f, <<>>, 0, Shift) /\ Number(<<>>) = f[Len(<<>>)]
    BY <1>1, NumberLoop
  <1> QED BY <1>1, <1>2 DEF Loops

(* A digit more is ten times the number and the digit.                       *)
LEMMA NumberAppend ==
    ASSUME NEW x \in Seq(Int), NEW a \in Int
    PROVE  /\ Number(x) \in Int
           /\ Number(Append(x, a)) = 10 * Number(x) + a
  <1> DEFINE t == Append(x, a)
  <1>1. t \in Seq(Int)
    OBVIOUS
  <1>2. PICK f \in [0 .. Len(x) -> Int] : Loops(f, x, 0, Shift) /\ Number(x) = f[Len(x)]
    BY NumberLoop
  <1>3. PICK g \in [0 .. Len(t) -> Int] : Loops(g, t, 0, Shift) /\ Number(t) = g[Len(t)]
    <2> HIDE DEF t
    <2> QED BY <1>1, NumberLoop
  <1>4. TurnMore(f, x, a, g, t, Shift)
    <2>1. x \in Seq(Int) /\ a \in Int /\ Loops(f, x, 0, Shift)
      BY <1>2
    <2>2. t = Append(x, a) /\ Loops(g, t, 0, Shift)
      BY <1>3
    <2> HIDE DEF t
    <2> QED BY <2>1, <2>2, LoopAppend, Zenon
  <1>5. f[Len(x)] \in Int
    BY <1>2
  <1> HIDE DEF t
  <1> QED BY <1>2, <1>3, <1>4, <1>5 DEF Shift, TurnMore, t

(* A power of ten is the one before times ten.                              *)
LEMMA PowerLoop ==
    ASSUME NEW n \in Nat
    PROVE  \E f \in [0 .. n -> Nat] :
               /\ f[0] = 1 /\ \A i \in 1 .. n : f[i] = 10 * f[i - 1]
               /\ PowerOfTen(n) = f[n]
  <1> DEFINE Turn(f) == [i \in 0 .. n |-> IF i = 0 THEN 1 ELSE 10 * f[i - 1]]
             power == CHOOSE f : f = Turn(f)
             S == {i \in Nat : power[i] \in Nat}
             zeros == [i \in 1 .. n |-> 0]
             next == [s \in Nat \X {0} |-> 10 * s[1]]
  <1>1. zeros \in Seq({0}) /\ Len(zeros) = n /\ \A i \in 1 .. n : zeros[i] = 0
    OBVIOUS
  <1>2. next \in [Nat \X {0} -> Nat] /\ \A a \in Nat, b \in {0} : next[<<a, b>>] = 10 * a
    OBVIOUS
  <1> HIDE DEF next, zeros
  <1>3. PICK h \in [0 .. n -> Nat] : Loops(h, zeros, 1, next)
    <2>1. 1 \in Nat
      OBVIOUS
    <2>2. PICK h \in [0 .. Len(zeros) -> Nat] : Loops(h, zeros, 1, next)
      BY <1>1, <1>2, <2>1, LoopExists, Zenon
    <2> QED BY <1>1, <2>2
  <1>4. h[0] = 1 /\ \A i \in 1 .. n : h[i] = 10 * h[i - 1]
    <2>1. \A i \in 1 .. n : i - 1 \in 0 .. n
      OBVIOUS
    <2>2. h[0] = 1 /\ \A i \in 1 .. n : h[i] = next[<<h[i - 1], zeros[i]>>]
      BY <1>1, <1>3 DEF Loops
    <2> QED BY <1>1, <1>2, <1>3, <2>1, <2>2
  <1>5. h = Turn(h)
    BY <1>4
  <1>6. power = Turn(power)
    <2> HIDE DEF Turn
    <2> QED BY <1>5
  <1>7. PowerOfTen(n) = power[n]
    BY DEF PowerOfTen
  <1> HIDE DEF power
  <1>8. power[0] = 1 /\ \A i \in 1 .. n : power[i] = 10 * power[i - 1]
    <2>1. \A i \in 0 .. n : Turn(power)[i] = IF i = 0 THEN 1 ELSE 10 * power[i - 1]
      OBVIOUS
    <2> HIDE DEF Turn
    <2>2. \A i \in 0 .. n : power[i] = IF i = 0 THEN 1 ELSE 10 * power[i - 1]
      BY <1>6, <2>1
    <2> QED BY <2>2
  <1>9. \A i \in 0 .. n : power[i] \in Nat
    <2>1. 0 \in S /\ \A i \in 1 .. n : i - 1 \in S => i \in S
      <3>1. power[0] \in Nat
        BY <1>8
      <3>2. \A i \in 1 .. n : power[i - 1] \in Nat => power[i] \in Nat
        BY <1>8
      <3> QED BY <3>1, <3>2
    <2> HIDE DEF S
    <2>2. \A i \in 0 .. n : i \in S
      BY <2>1, Along
    <2> QED BY <2>2 DEF S
  <1>10. power \in [0 .. n -> Nat]
    BY <1>6, <1>9
  <1> QED BY <1>7, <1>8, <1>10

(* Each power of ten is ten times the one before.                            *)
LEMMA PowerNext ==
    /\ PowerOfTen(0) = 1
    /\ \A n \in Nat : PowerOfTen(n + 1) = 10 * PowerOfTen(n)
    /\ \A n \in Nat : PowerOfTen(n) \in Nat
  <1>1. PowerOfTen(0) = 1
    <2>1. 0 \in Nat
      OBVIOUS
    <2> QED BY <2>1, PowerLoop
  <1>2. ASSUME NEW n \in Nat PROVE PowerOfTen(n + 1) = 10 * PowerOfTen(n)
    <2>1. PICK f \in [0 .. n -> Nat] :
              /\ f[0] = 1 /\ \A i \in 1 .. n : f[i] = 10 * f[i - 1]
              /\ PowerOfTen(n) = f[n]
      BY PowerLoop
    <2> DEFINE m == n + 1
    <2>2. m \in Nat /\ m - 1 = n
      OBVIOUS
    <2>3. PICK g \in [0 .. m -> Nat] :
              /\ g[0] = 1 /\ \A i \in 1 .. m : g[i] = 10 * g[i - 1]
              /\ PowerOfTen(m) = g[m]
      <3> HIDE DEF m
      <3> QED BY <2>2, PowerLoop
    <2> DEFINE S == {i \in Nat : g[i] = f[i]}
    <2>4. 0 \in S
      BY <2>1, <2>3
    <2>5. \A i \in 1 .. n : i - 1 \in S => i \in S
      <3>1. \A i \in 1 .. n : i \in 1 .. m
        OBVIOUS
      <3> QED BY <2>1, <2>3, <3>1
    <2> HIDE DEF S
    <2>6. n \in S
      <3>1. \A i \in 0 .. n : i \in S
        BY <2>4, <2>5, Along
      <3> QED BY <3>1
    <2>7. g[n] = f[n]
      BY <2>6 DEF S
    <2> QED BY <2>1, <2>2, <2>3, <2>7
  <1>3. ASSUME NEW n \in Nat PROVE PowerOfTen(n) \in Nat
    <2>1. PICK f \in [0 .. n -> Nat] : PowerOfTen(n) = f[n]
      BY PowerLoop
    <2> QED BY <2>1
  <1> QED BY <1>1, <1>2, <1>3

(* A power of ten is positive.                                               *)
LEMMA PowerPositive == \A n \in Nat : PowerOfTen(n) \in Nat \ {0}
  <1> DEFINE S == {n \in Nat : PowerOfTen(n) \in Nat \ {0}}
  <1>1. 0 \in S
    BY PowerNext
  <1>2. \A n \in Nat : n \in S => n + 1 \in S
    BY PowerNext
  <1> HIDE DEF S
  <1>3. Nat \subseteq S
    BY <1>1, <1>2, NatSet
  <1> QED BY <1>3 DEF S

(* The two leading digits stand over the others, which do not fill one more *)
(* unit.                                                                    *)
Leads(s) ==
    LET power == PowerOfTen(Len(s) - 2)
        lead  == 10 * s[1] + s[2]
    IN  /\ PowerOfTen(Len(s)) = 100 * power
        /\ lead * power <= Number(s) /\ Number(s) < (lead + 1) * power

(* A digit appended to a fraction comes after the leading ones.              *)
LEMMA LeadsAppend ==
    ASSUME NEW lead \in Int, NEW power \in Int, NEW number \in Int, NEW a \in 0 .. 9,
           lead * power <= number, number < (lead + 1) * power
    PROVE  lead * (10 * power) <= 10 * number + a /\ 10 * number + a < (lead + 1) * (10 * power)
  <1> DEFINE low == lead * power
             high == (lead + 1) * power
  <1>1. low \in Int /\ high \in Int /\ low <= number /\ number < high
    OBVIOUS
  <1>2. lead * (10 * power) = 10 * low /\ (lead + 1) * (10 * power) = 10 * high
    OBVIOUS
  <1> HIDE DEF low, high
  <1>3. 10 * low <= 10 * number + a /\ 10 * number + a < 10 * high
    BY <1>1
  <1> QED BY <1>2, <1>3

(* The leading digits are a number below the next power of ten.              *)
LEMMA NumberLeads ==
    ASSUME NEW s \in Seq(0 .. 9)
    PROVE  /\ Len(s) = 0 => Number(s) = 0
           /\ Len(s) = 1 => Number(s) = s[1]
           /\ Len(s) >= 2 => Leads(s)
  <1> DEFINE P(q) == /\ Len(q) = 0 => Number(q) = 0
                     /\ Len(q) = 1 => Number(q) = q[1]
                     /\ Len(q) >= 2 => Leads(q)
             S == {q \in Seq(0 .. 9) : P(q)}
  <1>1. <<>> \in S
    BY NumberEmpty
  <1>2. ASSUME NEW q \in Seq(0 .. 9), NEW a \in 0 .. 9, P(q)
        PROVE  P(Append(q, a))
    <2> DEFINE t == Append(q, a)
               n == Len(q)
    <2>1. /\ n \in Nat /\ Len(t) = n + 1 /\ t[n + 1] = a /\ q \in Seq(Int) /\ a \in Int
          /\ \A i \in 1 .. n : t[i] = q[i] /\ q[i] \in 0 .. 9
      OBVIOUS
    <2> HIDE DEF t, n
    <2>2. Number(q) \in Int /\ Number(t) = 10 * Number(q) + a
      BY <2>1, NumberAppend DEF t
    <2>3. CASE n = 0
      <3>1. Number(q) = 0
        BY <1>2, <2>3 DEF n
      <3>2. Number(t) = t[1]
        BY <2>1, <2>2, <2>3, <3>1
      <3> QED BY <2>1, <2>3, <3>2 DEF t
    <2>4. CASE n = 1
      <3>1. Number(q) = q[1] /\ q[1] \in 0 .. 9 /\ t[1] = q[1] /\ t[2] = a
        BY <1>2, <2>1, <2>4 DEF n
      <3>2. Number(t) = 10 * t[1] + t[2] /\ Len(t) - 2 = 0
        BY <2>1, <2>2, <2>4, <3>1
      <3>3. PowerOfTen(2) = 100 /\ PowerOfTen(0) = 1
        <4>1. PowerOfTen(0 + 1) = 10 * PowerOfTen(0) /\ PowerOfTen(1 + 1) = 10 * PowerOfTen(1)
          BY PowerNext
        <4> QED BY <4>1, PowerNext
      <3>4. Len(t) = 2 /\ t[1] \in Int /\ t[2] \in Int
        BY <2>1, <2>4, <3>1
      <3> DEFINE l == 10 * t[1] + t[2]
      <3>5. PowerOfTen(Len(t)) = 100 * PowerOfTen(Len(t) - 2) /\ PowerOfTen(Len(t) - 2) = 1
        BY <3>2, <3>3, <3>4
      <3>6. l * 1 <= Number(t) /\ Number(t) < (l + 1) * 1
        BY <3>2, <3>4
      <3>7. Leads(t)
        BY <3>5, <3>6 DEF Leads
      <3> QED BY <3>4, <3>7 DEF t
    <2>5. CASE n >= 2
      <3> DEFINE power == PowerOfTen(n - 2)
                 lead == 10 * q[1] + q[2]
      <3>1. PowerOfTen(n) = 100 * power /\ lead * power <= Number(q) /\ Number(q) < (lead + 1) * power
        BY <1>2, <2>5 DEF Leads, n
      <3>2. lead \in Int /\ power \in Int /\ lead = 10 * t[1] + t[2]
        <4>1. n - 2 \in Nat /\ 1 \in 1 .. n /\ 2 \in 1 .. n
          BY <2>1, <2>5
        <4>2. q[1] \in 0 .. 9 /\ q[2] \in 0 .. 9 /\ t[1] = q[1] /\ t[2] = q[2]
          BY <2>1, <4>1
        <4>3. power \in Nat
          BY <4>1, PowerNext
        <4>4. lead \in Int /\ lead = 10 * t[1] + t[2]
          <5>1. \A u, v \in 0 .. 9 : 10 * u + v \in Int
            OBVIOUS
          <5> HIDE DEF P, S, power
          <5> QED BY <4>2, <5>1, Zenon
        <4> HIDE DEF power, lead
        <4> QED BY <4>3, <4>4
      <3>3. PowerOfTen(Len(t) - 2) = 10 * power /\ PowerOfTen(Len(t)) = 10 * PowerOfTen(n)
        <4>1. Len(t) - 2 = (n - 2) + 1 /\ n - 2 \in Nat
          BY <2>1, <2>5
        <4>2. PowerOfTen((n - 2) + 1) = 10 * power /\ PowerOfTen(n + 1) = 10 * PowerOfTen(n)
          BY <2>1, <4>1, PowerNext
        <4> QED BY <2>1, <4>1, <4>2
      <3> HIDE DEF power, lead
      <3>4. lead * (10 * power) <= Number(t) /\ Number(t) < (lead + 1) * (10 * power)
        BY <2>2, <3>1, <3>2, LeadsAppend
      <3>5. PowerOfTen(Len(t)) = 100 * (10 * power)
        BY <3>1, <3>2, <3>3
      <3>6. Leads(t)
        <4>1. PowerOfTen(Len(t) - 2) = 10 * power
          BY <3>3
        <4> QED BY <3>2, <3>4, <3>5, <4>1 DEF Leads
      <3>7. Len(t) >= 2
        BY <2>1, <2>5
      <3> QED BY <3>6, <3>7 DEF t
    <2> QED BY <2>1, <2>3, <2>4, <2>5
  <1>3. \A q \in Seq(0 .. 9), a \in 0 .. 9 : q \in S => Append(q, a) \in S
    <2>1. \A q \in Seq(0 .. 9), a \in 0 .. 9 : Append(q, a) \in Seq(0 .. 9)
      OBVIOUS
    <2> HIDE DEF P
    <2> QED BY <1>2, <2>1
  <1> HIDE DEF S
  <1>4. s \in S
    BY <1>1, <1>3, AllSequences
  <1> QED BY <1>4 DEF S

(* A quotient is the number whose multiple is the last not above.           *)
LEMMA Quotient ==
    ASSUME NEW x \in Int, NEW s \in Nat \ {0}, NEW q \in Int, q * s <= x, x < (q + 1) * s
    PROVE  x \div s = q
  <1> DEFINE d == x \div s
             m == x % s
  <1>1. d \in Int /\ m \in 0 .. s - 1 /\ x = d * s + m
    BY Z3
  <1> HIDE DEF d, m
  <1>2. ~(d >= q + 1)
    <2>1. d >= q + 1 => d * s >= (q + 1) * s
      BY <1>1
    <2> QED BY <1>1, <2>1
  <1>3. ~(d <= q - 1)
    <2>1. d + 1 <= q => (d + 1) * s <= q * s
      BY <1>1
    <2>2. (d + 1) * s = d * s + s
      BY <1>1
    <2> QED BY <1>1, <2>1, <2>2
  <1>4. d = q
    BY <1>1, <1>2, <1>3
  <1> QED BY <1>4 DEF d

(* The size of an amount: two digits behind the point, cut and not rounded. *)
LEMMA SizeIsWorth ==
    ASSUME NEW w \in Nat, NEW s \in Seq(0 .. 9)
    PROVE  /\ TwoDigits(s)[1] \in 0 .. 9 /\ TwoDigits(s)[2] \in 0 .. 9
           /\ ((w * PowerOfTen(Len(s)) + Number(s)) * 100) \div PowerOfTen(Len(s))
                  = w * 100 + TwoDigits(s)[1] * 10 + TwoDigits(s)[2]
  <1> DEFINE long == s \o <<0, 0>>
             two == TwoDigits(s)
             scale == PowerOfTen(Len(s))
             x == (w * scale + Number(s)) * 100
  <1>1. two[1] = long[1] /\ two[2] = long[2]
    <2>1. long \in Seq(0 .. 9) /\ Len(long) >= 2
      OBVIOUS
    <2> HIDE DEF long
    <2>2. \A i \in 1 .. 2 : long[i] \in 0 .. 9
      BY <2>1
    <2>3. SubSeq(long, 1, 2)[1] = long[1] /\ SubSeq(long, 1, 2)[2] = long[2]
      BY <2>1, <2>2, SubSeqProperties
    <2> QED BY <2>3 DEF TwoDigits, long
  <1>2. scale \in Nat \ {0} /\ Number(s) \in Int /\ Len(s) \in Nat
    <2>1. Len(s) \in Nat /\ s \in Seq(Int) /\ 0 \in Int
      OBVIOUS
    <2> QED BY <2>1, PowerPositive, NumberAppend
  <1>3. CASE Len(s) = 0
    <2>1. Number(s) = 0 /\ scale = 1
      BY <1>3, NumberLeads, PowerNext
    <2>2. long[1] = 0 /\ long[2] = 0
      BY <1>3
    <2> HIDE DEF long, two, scale
    <2>3. x = w * 100 /\ x \div 1 = x
      BY <2>1, Z3
    <2> QED BY <1>1, <2>1, <2>2, <2>3 DEF two, scale
  <1>4. CASE Len(s) = 1
    <2>1. Number(s) = s[1] /\ s[1] \in 0 .. 9
      BY <1>4, NumberLeads
    <2>2. scale = 10
      <3>1. PowerOfTen(0 + 1) = 10 * PowerOfTen(0)
        BY PowerNext
      <3> QED BY <1>4, <3>1, PowerNext
    <2>3. long[1] = s[1] /\ long[2] = 0
      <3>1. long[Len(s) + 1] = 0 /\ \A i \in 1 .. Len(s) : long[i] = s[i]
        OBVIOUS
      <3> HIDE DEF long
      <3> QED BY <1>4, <3>1
    <2>4. x = (w * 100 + s[1] * 10) * 10 /\ w * 100 + s[1] * 10 \in Int
      <3>1. \A n, d \in Int : (n * 10 + d) * 100 = (n * 100 + d * 10) * 10 /\ n * 100 + d * 10 \in Int
        OBVIOUS
      <3>2. w \in Int /\ s[1] \in Int /\ x = (w * 10 + s[1]) * 100
        BY <2>1, <2>2
      <3> HIDE DEF x
      <3> QED BY <3>1, <3>2, Zenon
    <2>5. \A q \in Int : (q * 10) \div 10 = q
      BY Z3
    <2> HIDE DEF long, two, scale, x
    <2>6. x \div scale = w * 100 + s[1] * 10
      BY <2>2, <2>4, <2>5
    <2> QED BY <1>1, <2>1, <2>3, <2>6 DEF two, scale, x
  <1>5. CASE Len(s) >= 2
    <2> DEFINE power == PowerOfTen(Len(s) - 2)
               lead == 10 * s[1] + s[2]
               q == w * 100 + lead
    <2>1. scale = 100 * power /\ lead * power <= Number(s) /\ Number(s) < (lead + 1) * power
      BY <1>5, NumberLeads DEF Leads
    <2>2. s[1] \in 0 .. 9 /\ s[2] \in 0 .. 9 /\ long[1] = s[1] /\ long[2] = s[2] /\ lead \in Nat
      BY <1>5
    <2>3. power \in Nat
      <3>1. Len(s) - 2 \in Nat
        BY <1>2, <1>5
      <3> QED BY <3>1, PowerNext
    <2> HIDE DEF power, lead, scale, long, two
    <2>4. q \in Int /\ q * scale = w * scale * 100 + lead * power * 100
      <3>1. q * scale = (w * 100) * scale + lead * scale /\ lead * scale = lead * (100 * power)
        BY <1>2, <2>1, <2>2, <2>3
      <3>2. lead * (100 * power) = lead * power * 100 /\ (w * 100) * scale = w * scale * 100
        BY <1>2, <2>2, <2>3
      <3> QED BY <2>2, <3>1, <3>2
    <2>5. (q + 1) * scale = w * scale * 100 + (lead + 1) * power * 100
      <3>1. (q + 1) * scale = q * scale + 100 * power
        <4>1. \A a, b \in Int : (a + 1) * b = a * b + b
          OBVIOUS
        <4>2. q \in Int /\ scale \in Int
          BY <1>2, <2>4
        <4>3. (q + 1) * scale = q * scale + scale
          <5> HIDE DEF q
          <5> QED BY <4>1, <4>2, Zenon
        <4> QED BY <2>1, <4>3
      <3>2. (lead + 1) * power * 100 = lead * power * 100 + 100 * power
        BY <2>2, <2>3
      <3> DEFINE a == q * scale
                 b == w * scale * 100
                 c == lead * power * 100
                 e == 100 * power
      <3>3. a \in Int /\ b \in Int /\ c \in Int /\ e \in Int
        BY <1>2, <2>2, <2>3, <2>4
      <3> HIDE DEF a, b, c, e, q
      <3> QED BY <2>4, <3>1, <3>2, <3>3 DEF a, b, c, e
    <2>6. x \in Int /\ x = w * scale * 100 + Number(s) * 100
      BY <1>2
    <2>7. q * scale <= x /\ x < (q + 1) * scale
      <3> DEFINE b == w * scale
                 low == lead * power
                 high == (lead + 1) * power
      <3>1. b \in Int /\ low \in Int /\ high \in Int
        BY <1>2, <2>2, <2>3
      <3> HIDE DEF b, low, high, q, x
      <3>2. q * scale = b * 100 + low * 100 /\ (q + 1) * scale = b * 100 + high * 100
            /\ x = b * 100 + Number(s) * 100 /\ low <= Number(s) /\ Number(s) < high
        BY <2>1, <2>4, <2>5, <2>6 DEF b, low, high
      <3> QED BY <1>2, <3>1, <3>2
    <2>8. x \div scale = q
      <3> HIDE DEF q, x
      <3> QED BY <1>2, <2>4, <2>6, <2>7, Quotient
    <2>9. q = w * 100 + two[1] * 10 + two[2]
      <3>1. two[1] = s[1] /\ two[2] = s[2]
        BY <1>1, <2>2
      <3>2. \A u, v \in 0 .. 9 : w * 100 + (10 * u + v) = w * 100 + u * 10 + v
        OBVIOUS
      <3>3. q = w * 100 + (10 * s[1] + s[2])
        BY DEF lead
      <3> HIDE DEF q, x
      <3>4. w * 100 + (10 * s[1] + s[2]) = w * 100 + s[1] * 10 + s[2]
        BY <2>2, <3>2
      <3> QED BY <3>1, <3>3, <3>4
    <2> QED BY <1>1, <2>2, <2>8, <2>9 DEF two, scale
  <1>6. Len(s) = 0 \/ Len(s) = 1 \/ Len(s) >= 2
    <2>1. \A n \in Nat : n = 0 \/ n = 1 \/ n >= 2
      OBVIOUS
    <2> QED BY <1>2, <2>1
  <1> QED BY <1>3, <1>4, <1>5, <1>6

(* ParseMinor reads from every decimal, however long its fraction, what it  *)
(* is worth in whole paise.                                                 *)
THEOREM ParsedIsWorth ==
    ASSUME NEW d \in Decimals
    PROVE  ParseMinor(d) = Worth(d) /\ ParseMinor(d) \in Int
  <1>1. d.whole \in Nat /\ d.frac \in Seq(0 .. 9) /\ d.neg \in BOOLEAN
    BY DEF Decimals
  <1> DEFINE a == TwoDigits(d.frac)[1]
             b == TwoDigits(d.frac)[2]
             minor == d.whole * 100 + a * 10 + b
  <1>2. /\ a \in 0 .. 9 /\ b \in 0 .. 9
        /\ ((d.whole * PowerOfTen(Len(d.frac)) + Number(d.frac)) * 100) \div PowerOfTen(Len(d.frac)) = minor
    BY <1>1, SizeIsWorth
  <1>3. minor \in Int
    <2>1. \A w \in Nat, u, v \in 0 .. 9 : w * 100 + u * 10 + v \in Int
      OBVIOUS
    <2> HIDE DEF a, b
    <2> QED BY <1>1, <1>2, <2>1
  <1> HIDE DEF a, b
  <1>4. ParseMinor(d) = IF d.neg THEN -minor ELSE minor
    BY DEF ParseMinor, a, b
  <1>5. Worth(d) = IF d.neg THEN -minor ELSE minor
    BY <1>2 DEF Worth
  <1> HIDE DEF minor
  <1>6. -minor \in Int
    BY <1>3
  <1> QED BY <1>3, <1>4, <1>5, <1>6

----------------------------------------------------------------------------
(* The digits of an amount are filled up, or cut, to two.                   *)
LEMMA TwoDigitsOfTwo ==
    ASSUME NEW a \in Int, NEW b \in Int, NEW zeros \in Seq(Int)
    PROVE  TwoDigits(<<a, b>> \o zeros) = <<a, b>>
  <1> DEFINE frac == <<a, b>> \o zeros
             long == frac \o <<0, 0>>
  <1>1. frac \in Seq(Int) /\ Len(frac) = 2 + Len(zeros) /\ frac[1] = a /\ frac[2] = b
    OBVIOUS
  <1>2. long \in Seq(Int) /\ Len(long) = Len(frac) + 2 /\ long[1] = a /\ long[2] = b
    BY <1>1
  <1>3. SubSeq(long, 1, 2) = <<a, b>>
    <2> HIDE DEF long
    <2>1. /\ SubSeq(long, 1, 2) \in Seq(Int) /\ Len(SubSeq(long, 1, 2)) = 2
          /\ SubSeq(long, 1, 2)[1] = long[1] /\ SubSeq(long, 1, 2)[2] = long[2]
      <3>1. \A i \in 1 .. 2 : long[i] \in Int
        BY <1>1, <1>2
      <3> QED BY <3>1, SubSeqProperties
    <2> DEFINE two == SubSeq(long, 1, 2)
    <2>2. two \in Seq(Int) /\ Len(two) = 2 /\ two[1] = a /\ two[2] = b
      BY <1>2, <2>1
    <2> HIDE DEF two
    <2>3. two = <<a, b>>
      BY <2>2
    <2> QED BY <2>3 DEF two
  <1> QED BY <1>3 DEF TwoDigits

Extended(d, zeros) == [neg |-> d.neg, whole |-> d.whole, frac |-> d.frac \o zeros]

(* Whatever the amount, below zero or not, and however many digits Firefly  *)
(* appends when it writes it again: what FormatMinor writes, ParseMinor     *)
(* reads.  The sync posts the one and BalanceAt reads the other.            *)
THEOREM RoundTrip ==
    ASSUME NEW n \in Int, NEW zeros \in Seq(Int)
    PROVE  ParseMinor(Extended(FormatMinor(n), zeros)) = n
  <1> DEFINE size == IF n < 0 THEN -n ELSE n
             a == (size % 100) \div 10
             b == size % 10
             d == Extended(FormatMinor(n), zeros)
  <1>1. size \in Nat /\ a \in 0 .. 9 /\ b \in 0 .. 9
    BY Z3
  <1>2. (size \div 100) * 100 + a * 10 + b = size
    BY Z3
  <1>3. d = [neg |-> n < 0, whole |-> size \div 100, frac |-> <<a, b>> \o zeros]
    <2>1. FormatMinor(n) = [neg |-> n < 0, whole |-> size \div 100, frac |-> <<a, b>>]
      BY DEF FormatMinor
    <2> HIDE DEF a, b, size
    <2>2. d = [neg |-> FormatMinor(n).neg, whole |-> FormatMinor(n).whole,
               frac |-> FormatMinor(n).frac \o zeros]
      BY DEF Extended
    <2>3. FormatMinor(n).neg = (n < 0) /\ FormatMinor(n).whole = size \div 100
          /\ FormatMinor(n).frac = <<a, b>>
      BY <2>1
    <2> HIDE DEF d
    <2> QED BY <2>2, <2>3
  <1>4. TwoDigits(d.frac) = <<a, b>>
    <2>1. d.frac = <<a, b>> \o zeros
      BY <1>3
    <2> HIDE DEF d, a, b
    <2> QED BY <1>1, <2>1, TwoDigitsOfTwo
  <1>5. ParseMinor(d) = IF n < 0 THEN -size ELSE size
    <2>1. d.neg = (n < 0) /\ d.whole = size \div 100
      BY <1>3
    <2> HIDE DEF d, a, b, size
    <2>2. ParseMinor(d) = LET minor == d.whole * 100 + a * 10 + b IN IF d.neg THEN -minor ELSE minor
      BY <1>4 DEF ParseMinor
    <2> QED BY <2>1, <2>2, <1>2
  <1> QED BY <1>5

(* FormatMinor writes a decimal of two digits.                               *)
LEMMA FormatType ==
    ASSUME NEW n \in Int
    PROVE  /\ FormatMinor(n) \in Decimals
           /\ FormatMinor(n).neg \in BOOLEAN /\ FormatMinor(n).whole \in Nat
           /\ FormatMinor(n).frac \in Seq(0 .. 9) /\ FormatMinor(n).frac \in [1 .. 2 -> 0 .. 9]
  <1> DEFINE size == IF n < 0 THEN -n ELSE n
             a == (size % 100) \div 10
             b == size % 10
             w == size \div 100
  <1>1. a \in 0 .. 9 /\ b \in 0 .. 9 /\ w \in Nat
    BY Z3
  <1>2. FormatMinor(n) = [neg |-> n < 0, whole |-> w, frac |-> <<a, b>>]
    BY DEF FormatMinor
  <1> HIDE DEF a, b, w
  <1>3. <<a, b>> \in Seq(0 .. 9) /\ <<a, b>> \in [1 .. 2 -> 0 .. 9]
    BY <1>1
  <1> DEFINE frac == <<a, b>>
             neg == n < 0
  <1>4. neg \in BOOLEAN
    OBVIOUS
  <1> HIDE DEF frac, neg
  <1>5. frac \in Seq(0 .. 9) /\ frac \in [1 .. 2 -> 0 .. 9]
    BY <1>3 DEF frac
  <1>6. FormatMinor(n) = [neg |-> neg, whole |-> w, frac |-> frac]
    BY <1>2 DEF neg, frac
  <1> QED BY <1>1, <1>4, <1>5, <1>6 DEF Decimals

(* What FormatMinor writes of an amount is worth that amount.               *)
THEOREM WrittenIsWorth ==
    ASSUME NEW n \in Int
    PROVE  Worth(FormatMinor(n)) = n
  <1> DEFINE d == FormatMinor(n)
  <1>1. d \in Decimals /\ d.frac \in Seq(0 .. 9)
    BY FormatType
  <1>2. Worth(d) = ParseMinor(d)
    BY <1>1, ParsedIsWorth
  <1>3. Extended(d, <<>>) = d
    <2> HIDE DEF d
    <2>1. d = [neg |-> d.neg, whole |-> d.whole, frac |-> d.frac]
      BY <1>1 DEF Decimals
    <2>2. d.frac \o <<>> = d.frac
      BY <1>1
    <2> QED BY <2>1, <2>2 DEF Extended
  <1>4. <<>> \in Seq(Int)
    OBVIOUS
  <1>5. ParseMinor(Extended(d, <<>>)) = n
    BY <1>4, RoundTrip
  <1> QED BY <1>2, <1>3, <1>5
=============================================================================
